------------------------------- MODULE Kqueue -------------------------------
(***************************************************************************)
(* The event loop of the server: Kqueue::multiplex and the handlers it     *)
(* calls for every event of a kevent() batch, the maps of t_kqueue_manager *)
(* (src/includes/kqueueManager.struct.hpp) and the kernel objects they     *)
(* must agree with: open descriptors and kqueue registrations (knotes).    *)
(*                                                                         *)
(* A request is abstracted to what moves the loop: the CLIENT_STATE its    *)
(* handlers leave the client in, and `work', the number of further handler *)
(* calls until they are done (buffers left of a file, pieces missing from  *)
(* a body, polls until a CGI child has exited or timed out).               *)
(***************************************************************************)
EXTENDS Integers, FiniteSets, Sequences, Functions

CONSTANTS Fds,       \* descriptors the process may hold for client sockets
          Conns,     \* names of TCP connections; a name is reused once free
          MaxConnections, \* client_max_connections: the argument of listen()
          MaxIn,     \* bound: unread segments in one receive buffer
          MaxWork    \* bound: handler calls one request needs

ASSUME BoundsAssumption ==
    MaxConnections \in Nat /\ MaxIn \in Nat /\ MaxWork \in Nat

VARIABLES
    process,   \* whether the only thread still serves, or what became of it
    peer,      \* what the other side of each connection has done
    inb,       \* unread segments in each connection's receive buffer
    full,      \* the connection's send buffer has no room
    backlog,   \* queue of completed connections the listener has not accepted
    sock,      \* kernel: open client descriptor -> its connection
    knotes,    \* kernel: registered <<fd, filter>> pairs
    clients,   \* clients_map: fd -> t_client
    events     \* what is left to handle of the current kevent() batch

kernel == <<peer, inb, full, backlog>>
vars == <<process, peer, inb, full, backlog, sock, knotes, clients, events>>

-----------------------------------------------------------------------------
(* enums.hpp: client states, and the macros that classify them *)

HttpStates   == {"WAITING", "KEEP_ALIVE"}
ReadStates   == {"READING_HEADER", "SERVING_POST", "SERVING_PUT"}
MethodStates == {"SERVING_GET", "SERVING_POST", "SERVING_DELETE",
                 "SERVING_OPTIONS", "SERVING_PUT", "SERVING_TRACE"}
CLIENT_STATE == HttpStates \cup ReadStates \cup MethodStates
                  \cup {"SERVING_CGI", "SERVED"}

\* What architect_response can leave behind. SERVING_TRACE is missing:
\* parse_first_line turns TRACE into a bad GET before it is looked at.
ArchitectStates == {"SERVED", "SERVING_GET", "SERVING_POST", "SERVING_PUT",
                    "SERVING_DELETE", "SERVING_OPTIONS", "SERVING_CGI"}

R_STATE(s) == s \in ReadStates
\* mutant: add_client polls a new client for input
FilterOfPolled(s) == IF R_STATE(s) \/ s = "WAITING" THEN "READ" ELSE "WRITE"
FilterOf(s) == IF R_STATE(s) THEN "READ" ELSE "WRITE"

\* The work of a GET whose file cannot be read: no call ends it.
Endless == -1
Work == Endless..MaxWork

\* `expired': time(NULL) - request_time has passed the limit of the state.
Client == [conn : Conns, state : CLIENT_STATE, work : Work,
           expired : BOOLEAN]
Event  == [kind : {"listen"}] \cup
          [kind : {"client"}, fd : Fds, conn : Conns, eof : BOOLEAN]

\* It has called exit(1), ended by an exception that nobody catches, or is in
\* a loop that it does not leave.
Process == {"runs", "exited", "threw", "spins"}
up == process = "runs"

IN_MAP(fd) == fd \in DOMAIN clients
Alive(c)   == c \in Range(backlog) \/ c \in Range(sock)

TypeOK ==
    /\ process \in Process
    /\ peer \in [Conns -> {"open", "fin", "reset"}]
    /\ inb \in [Conns -> 0..MaxIn]
    /\ full \in [Conns -> BOOLEAN]
    /\ backlog \in Seq(Conns)
    /\ DOMAIN sock \subseteq Fds
    /\ sock \in [DOMAIN sock -> Conns]
    /\ knotes \subseteq Fds \X {"READ", "WRITE"}
    /\ DOMAIN clients \subseteq Fds
    /\ clients \in [DOMAIN clients -> Client]
    /\ events \subseteq Event

Init ==
    /\ process = "runs"
    /\ peer = [c \in Conns |-> "reset"]
    /\ inb = [c \in Conns |-> 0]
    /\ full = [c \in Conns |-> FALSE]
    /\ backlog = << >>
    /\ sock = [fd \in {} |-> 0]
    /\ knotes = {}
    /\ clients = [fd \in {} |-> 0]
    /\ events = {}

-----------------------------------------------------------------------------
(* The peers and the clock. They act between any two steps of the loop. *)

serverVars == <<process, sock, knotes, clients, events>>

Connect(c) ==
    /\ ~Alive(c) /\ Len(backlog) < MaxConnections
    /\ \A e \in events : e.kind = "client" => e.conn # c
    /\ peer' = [peer EXCEPT ![c] = "open"]
    /\ inb' = [inb EXCEPT ![c] = 0]
    /\ full' = [full EXCEPT ![c] = FALSE]
    /\ backlog' = Append(backlog, c)
    /\ UNCHANGED serverVars

Send(c) ==
    /\ Alive(c) /\ peer[c] = "open" /\ inb[c] < MaxIn
    /\ inb' = [inb EXCEPT ![c] = @ + 1]
    /\ UNCHANGED <<peer, full, backlog, serverVars>>

Fin(c) ==
    /\ Alive(c) /\ peer[c] = "open"
    /\ peer' = [peer EXCEPT ![c] = "fin"]
    /\ UNCHANGED <<inb, full, backlog, serverVars>>

Reset(c) ==
    /\ Alive(c) /\ peer[c] # "reset"
    /\ peer' = [peer EXCEPT ![c] = "reset"]
    /\ UNCHANGED <<inb, full, backlog, serverVars>>

Drain(c) ==   \* the peer reads: there is room in the send buffer again
    /\ Alive(c) /\ full[c]
    /\ full' = [full EXCEPT ![c] = FALSE]
    /\ UNCHANGED <<peer, inb, backlog, serverVars>>

Expire(fd) == \* the clock passes the deadline of an idle client
    /\ IN_MAP(fd) /\ clients[fd].state \in HttpStates /\ ~clients[fd].expired
    /\ clients' = [clients EXCEPT ![fd].expired = TRUE]
    /\ UNCHANGED <<process, kernel, sock, knotes, events>>
-----------------------------------------------------------------------------
(* kevent(kq, NULL, 0, events, MAX_KQUEUE_FDS, NULL): blocks until some    *)
(* registered filter is ready, then reports every ready one. EVFILT_READ   *)
(* carries EV_EOF after a FIN or a reset, EVFILT_WRITE after a reset.      *)

AtEof(c, f) == peer[c] = "reset" \/ (f = "READ" /\ peer[c] = "fin")
Ready(c, f) == AtEof(c, f) \/ IF f = "READ" THEN inb[c] > 0 ELSE ~full[c]

ClientEvents ==
    { [kind |-> "client", fd |-> n[1], conn |-> sock[n[1]],
       eof |-> AtEof(sock[n[1]], n[2])] :
          n \in {m \in knotes : m[1] \in DOMAIN sock
                                  /\ Ready(sock[m[1]], m[2])} }

\* mutant: the listener is looked at only while no client is ready
ListenEventLast == IF ClientEvents # {} THEN {}
                   ELSE {[kind |-> "listen"] : c \in Range(backlog)}
ListenEvent     == {[kind |-> "listen"] : c \in Range(backlog)}

Kevent ==
    /\ up /\ events = {}
    /\ events' = ListenEvent \cup ClientEvents
    /\ events' # {}
    /\ UNCHANGED <<process, kernel, sock, knotes, clients>>

Put(m, k, v) == [x \in DOMAIN m \cup {k} |-> IF x = k THEN v ELSE m[x]]
Drop(m, k)   == Restrict(m, DOMAIN m \ {k})

\* add_kqueue_event / delete_kqueue_event. The return code of kevent() is
\* not looked at: on a descriptor that is not open the call fails silently.
AddKqueueEvent(kn, open, fd, f) ==
    IF fd \in open THEN kn \cup {<<fd, f>>} ELSE kn
\* mutant: the registration is never taken back
DeleteKqueueEventIgnored(kn, open, fd, f) == kn
DeleteKqueueEvent(kn, open, fd, f) ==
    IF fd \in open THEN kn \ {<<fd, f>>} ELSE kn

\* close() drops every knote of the descriptor.
CloseKnotes(kn, fd) == {n \in kn : n[1] # fd}

-----------------------------------------------------------------------------
(* handle_connection: accept() and add_client *)

AcceptFails(e) ==    \* con < 0: write_error prints and calls exit(1)
    /\ backlog # << >>
    /\ \/ peer[Head(backlog)] = "reset"           \* ECONNABORTED
       \/ Fds \subseteq DOMAIN sock               \* EMFILE
    /\ process' = "exited"
    /\ UNCHANGED <<kernel, sock, knotes, clients, events>>

Accept(e) ==
    /\ backlog # << >>
    /\ backlog' = Tail(backlog)
    /\ \E fd \in Fds \ DOMAIN sock :
          /\ ~IN_MAP(fd)
          /\ sock' = Put(sock, fd, Head(backlog))
          /\ clients' = Put(clients, fd,
                           [conn |-> Head(backlog), state |-> "WAITING",
                            work |-> 0, expired |-> FALSE])
          /\ knotes' = AddKqueueEvent(knotes, DOMAIN sock', fd,
                                      FilterOf("WAITING"))
    /\ events' = events \ {e}
    /\ UNCHANGED <<process, peer, inb, full>>

\* mutant: the client is erased, its descriptor is not closed
RemoveClientNoClose(fd) ==
    /\ sock' = sock
    /\ clients' = Drop(clients, fd)

\* handle_disconnection -> remove_client: close, erase, then a
\* delete_kqueue_event on the closed descriptor, which does nothing.
RemoveClient(fd) ==
    /\ sock' = Drop(sock, fd)
    /\ clients' = Drop(clients, fd)

\* mutant: EV_EOF is noted and nothing is done about it
HandleEofIgnored(e) ==
    /\ e.eof
    /\ events' = events \ {e}
    /\ UNCHANGED <<process, kernel, sock, knotes, clients>>

HandleEof(e) ==
    /\ e.eof
    /\ RemoveClient(e.fd)
    /\ knotes' = CloseKnotes(knotes, e.fd)
    /\ events' = events \ {e}
    /\ UNCHANGED <<process, kernel>>
-----------------------------------------------------------------------------
(* handle_client. A context is what one call carries through its phases:   *)
(* the client's state and work, and the two socket buffers.                *)

Context == [state : CLIENT_STATE, work : Work,
            inb : 0..MaxIn, full : BOOLEAN]

\* recv() on a non-blocking socket: data, nothing (-1), or 0 at end of stream.
Received(k)   == IF k.inb > 0 THEN {[k EXCEPT !.inb = @ - 1]} ELSE {}
Nothing(c, k) == IF k.inb = 0 /\ peer[c] # "fin" THEN {k} ELSE {}
Eof(c, k)     == IF k.inb = 0 /\ peer[c] # "open" THEN {k} ELSE {}

Served(k) == [k EXCEPT !.state = "SERVED", !.work = 0]

\* parse_request and architect_response, on a complete header
Answered(k) == {[k EXCEPT !.state = a[1], !.work = a[2]] :
                  a \in ArchitectStates \X (0..MaxWork)}

\* mutant: prev_state is not put back after an incomplete header
ReadHeaderForgets(c, k) ==
    {[r EXCEPT !.state = "READING_HEADER"] : r \in Nothing(c, k)}
    \cup {Served(r) : r \in Eof(c, k)}
    \cup UNION {Answered(r) : r \in Received(k)}

\* read_header: an incomplete header leaves the client in its old state,
\* end of stream ends it, a complete one is parsed and answered. The calls
\* that do not come back are ParseFails.
ReadHeader(c, k) ==
    Nothing(c, k) \cup Received(k)
    \cup {Served(r) : r \in Eof(c, k)}
    \cup UNION {Answered(r) : r \in Received(k)}

HttpStep(c, k, expired) ==
    IF k.state \notin HttpStates THEN {k}
    ELSE IF expired THEN {Served(k)} ELSE ReadHeader(c, k)

\* One piece of an upload: upload_file and the body parsers.
UploadStep(c, k) ==
    {Served(r) : r \in Eof(c, k)}
    \cup {IF r.work = 0 THEN Served(r) ELSE r : r \in Nothing(c, k)}
    \cup {IF r.work <= 1 THEN Served(r) ELSE [r EXCEPT !.work = @ - 1] :
             r \in Received(k)}

\* mutant: the end of the file is not looked for
GetStepUncounted(c, k) ==
    IF peer[c] = "reset" THEN {Served(k)}
    ELSE {[k EXCEPT !.work = @ - 1, !.full = b] : b \in BOOLEAN}

\* One buffer of a file: Get::serve_client. A read() that fails ends nothing
\* and sends nothing but the head before it (lines 55-66), and fails again in
\* the next call: the file is a directory.
GetStep(c, k) ==
    IF k.work = Endless THEN {k}
    ELSE UNION {{[Served(k) EXCEPT !.full = b], [k EXCEPT !.work = Endless, !.full = b]}
                \cup IF k.work = 0 \/ peer[c] = "reset" THEN {}
                     ELSE {[k EXCEPT !.work = @ - 1, !.full = b]} : b \in BOOLEAN}

MethodStep(c, k) ==
    CASE k.state = "SERVING_GET" -> GetStep(c, k)
      [] k.state \in {"SERVING_POST", "SERVING_PUT"} -> UploadStep(c, k)
      [] k.state \in {"SERVING_DELETE", "SERVING_OPTIONS", "SERVING_TRACE"}
           -> {[Served(k) EXCEPT !.full = b] : b \in BOOLEAN}
      [] OTHER -> {k}

\* One poll of handle_cgi: the script's input is still being read, the
\* child still runs, or its output (or a 408 or 500) is sent.
CgiStep(c, k) ==
    IF k.state # "SERVING_CGI" THEN {k}
    ELSE {[Served(k) EXCEPT !.full = b] : b \in BOOLEAN} \cup
         IF k.work <= 0 THEN {}
         ELSE {[r EXCEPT !.work = @ - 1] : r \in Received(k) \cup {k}}

\* Kept alive only after GET, DELETE or OPTIONS: the response was not a
\* CGI's, and the client asked for it.
MayKeepAlive(s) == s \notin {"SERVING_POST", "SERVING_PUT"}

\* mutant: only the new filter is registered
MoveFilterAddsOnly(kn, open, fd, prev, cur) ==
    IF R_STATE(prev) = R_STATE(cur) THEN kn
    ELSE AddKqueueEvent(kn, open, fd, FilterOf(cur))

\* The registration is moved when the state crosses R_STATE / W_STATE.
MoveFilter(kn, open, fd, prev, cur) ==
    IF R_STATE(prev) = R_STATE(cur) THEN kn
    ELSE AddKqueueEvent(DeleteKqueueEvent(kn, open, fd, FilterOf(prev)),
                        open, fd, FilterOf(cur))

Keep(e, k, state, expired) ==
    /\ clients' = [clients EXCEPT ![e.fd] =
                     [conn |-> @.conn, state |-> state, work |-> k.work,
                      expired |-> expired]]
    /\ knotes' = MoveFilter(knotes, DOMAIN sock, e.fd,
                            clients[e.fd].state, state)
    /\ UNCHANGED sock

\* After the second handle_disconnection the code goes on to compare
\* client->state of the freed client: stale is whatever it reads there.
Disconnect(e, stale) ==
    /\ RemoveClient(e.fd)
    /\ knotes' = MoveFilter(CloseKnotes(knotes, e.fd), DOMAIN sock', e.fd,
                            clients[e.fd].state, stale)

\* What handle_client does with the client after handle_http left it in
\* http.state, and after the method handler left it as k.
Settle(e, http, k, expired) ==
    \/ /\ http.state = "SERVED"
       /\ RemoveClient(e.fd)
       /\ knotes' = CloseKnotes(knotes, e.fd)
    \/ /\ http.state # "SERVED" /\ k.state = "SERVED"
       /\ \/ MayKeepAlive(http.state) /\ Keep(e, k, "KEEP_ALIVE", FALSE)
          \/ \E stale \in CLIENT_STATE : Disconnect(e, stale)
    \/ /\ http.state # "SERVED" /\ k.state # "SERVED"
       /\ Keep(e, k, k.state, expired)

HandleClient(e) ==
    LET cl == clients[e.fd]
        c  == cl.conn
        k0 == [state |-> cl.state, work |-> cl.work,
               inb |-> inb[c], full |-> full[c]]
    IN /\ ~e.eof
       /\ IN_MAP(e.fd)
       /\ \E k1 \in CgiStep(c, k0) :
          \E k2 \in HttpStep(c, k1, cl.expired) :
          \E k3 \in MethodStep(c, k2) :
            /\ Settle(e, k2, k3, cl.expired)
            /\ inb' = [inb EXCEPT ![c] = k3.inb]
            /\ full' = [full EXCEPT ![c] = k3.full]
       /\ events' = events \ {e}
       /\ UNCHANGED <<process, peer, backlog>>

\* read_header is given a header it does not survive: the first line is too
\* short, at(2) throws and main() ends, or trim_string meets a blank at the
\* end of a line and never returns.
ParseFails(e) ==
    /\ ~e.eof /\ IN_MAP(e.fd)
    /\ LET cl == clients[e.fd]
       IN /\ cl.state \in HttpStates /\ ~cl.expired
          /\ inb[cl.conn] > 0
          /\ inb' = [inb EXCEPT ![cl.conn] = @ - 1]
    /\ process' \in {"threw", "spins"}
    /\ UNCHANGED <<peer, full, backlog, sock, knotes, clients, events>>
-----------------------------------------------------------------------------
\* The body of the for loop. A batch is a set: kevent() promises no order.
HandleEvent ==
    /\ up
    /\ \E e \in events :
          IF e.kind = "listen" THEN AcceptFails(e) \/ Accept(e)
          ELSE HandleEof(e) \/ HandleClient(e) \/ ParseFails(e)

\* Nothing is served any more: the loop has ended, or hangs in a call.
Stopped == ~up /\ UNCHANGED vars

Peers == \E c \in Conns : Connect(c) \/ Send(c) \/ Fin(c) \/ Reset(c)
                            \/ Drain(c)
Loop == Kevent \/ HandleEvent
Clock == \E fd \in Fds : Expire(fd)

Next == (up /\ Peers) \/ (up /\ Clock) \/ Loop \/ Stopped

Spec == Init /\ [][Next]_vars

\* The loop never rests while an event is ready, unless it is stopped in a
\* call that does not come back; and time passes.
Fairness == /\ WF_vars(Loop)
            /\ \A fd \in Fds : WF_vars(up /\ Expire(fd))
FairSpec == Spec /\ Fairness
=============================================================================
