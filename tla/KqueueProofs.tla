---------------------------- MODULE KqueueProofs ----------------------------
(* Proofs of the safety of the event loop, for any number of descriptors   *)
(* and connections and any bounds.                                         *)
EXTENDS KqueueProps, TLAPS

\* A connection waits in the listener's queue at most once.
BacklogDistinct ==
    \A i, j \in 1..Len(backlog) : backlog[i] = backlog[j] => i = j

\* The inductive invariant.
IInv == /\ TypeOK
        /\ MapMatchesSockets
        /\ BacklogDistinct
        /\ OneFilterPerClient
        /\ FreshEvents
        /\ RestingStates

-----------------------------------------------------------------------------
(* What one handler call can make of a client.                             *)

\* What a request may still need is counted down, but for what has no end.
LEMMA WorkFacts ==
    /\ 0 \in Work /\ Endless \in Work /\ 0..MaxWork \subseteq Work
    /\ \A w \in Work : w # Endless => w - 1 \in Work
  BY BoundsAssumption DEF Work, Endless

\* recv() takes one segment or none.
LEMMA RecvType ==
    ASSUME NEW c \in Conns, NEW k \in Context
    PROVE  /\ \A r \in Received(k) : /\ r \in Context
                                     /\ r.state = k.state /\ r.work = k.work
           /\ Nothing(c, k) \subseteq {k}
           /\ Eof(c, k) \subseteq {k}
  <1>1. ASSUME k.inb > 0
        PROVE  /\ [k EXCEPT !.inb = @ - 1] \in Context
               /\ [k EXCEPT !.inb = @ - 1].state = k.state
               /\ [k EXCEPT !.inb = @ - 1].work = k.work
    BY <1>1, BoundsAssumption DEF Context
  <1> QED
    BY <1>1 DEF Received, Nothing, Eof

\* A call that ends the request leaves a well-formed context behind.
LEMMA ServedType ==
    ASSUME NEW k \in Context
    PROVE  Served(k) \in Context /\ Served(k).state = "SERVED"
  <1>1. "SERVED" \in CLIENT_STATE
    BY DEF CLIENT_STATE
  <1>2. 0 \in Work
    BY WorkFacts
  <1> QED
    BY <1>1, <1>2 DEF Served, Context

\* read_header leaves a client in its state, ends it, or starts a response.
LEMMA ReadHeaderType ==
    ASSUME NEW c \in Conns, NEW k \in Context, NEW q \in ReadHeader(c, k)
    PROVE  q \in Context /\ q.state \in ArchitectStates \cup {k.state}
  <1>1. CASE q \in Nothing(c, k) \cup Received(k)
    BY <1>1, RecvType
  <1>2. ASSUME NEW r \in Eof(c, k), q = Served(r)
        PROVE  q \in Context /\ q.state \in ArchitectStates
    BY <1>2, RecvType, ServedType DEF ArchitectStates
  <1>3. ASSUME NEW r \in Received(k), q \in Answered(r)
        PROVE  q \in Context /\ q.state \in ArchitectStates
    <2>1. r \in Context
      BY RecvType
    <2>2. PICK a \in ArchitectStates \X (0..MaxWork) :
              q = [r EXCEPT !.state = a[1], !.work = a[2]]
      BY <1>3 DEF Answered
    <2>3. a[1] \in ArchitectStates /\ a[2] \in Work
      BY WorkFacts
    <2>4. a[1] \in CLIENT_STATE
      BY <2>3 DEF ArchitectStates, CLIENT_STATE, ReadStates, MethodStates
    <2> QED
      BY <2>1, <2>2, <2>3, <2>4 DEF Context
  <1> QED
    BY <1>1, <1>2, <1>3 DEF ReadHeader

\* A piece of an upload leaves the client uploading or ends it.
LEMMA UploadStepType ==
    ASSUME NEW c \in Conns, NEW k \in Context, NEW q \in UploadStep(c, k)
    PROVE  q \in Context /\ q.state \in {"SERVED", k.state}
  <1>1. ASSUME NEW r \in Eof(c, k), q = Served(r)
        PROVE  q \in Context /\ q.state = "SERVED"
    BY <1>1, RecvType, ServedType
  <1>2. ASSUME NEW r \in Nothing(c, k),
               q = IF r.work = 0 THEN Served(r) ELSE r
        PROVE  q \in Context /\ q.state \in {"SERVED", k.state}
    BY <1>2, RecvType, ServedType
  <1>3. ASSUME NEW r \in Received(k),
               q = IF r.work <= 1 THEN Served(r)
                   ELSE [r EXCEPT !.work = @ - 1]
        PROVE  q \in Context /\ q.state \in {"SERVED", k.state}
    <2>1. r \in Context /\ r.state = k.state
      BY RecvType
    <2>2. CASE r.work <= 1
      BY <1>3, <2>1, <2>2, ServedType
    <2>3. CASE ~(r.work <= 1)
      <3>1. r.work - 1 \in Work
        <4>1. r.work \in Work /\ r.work # Endless
          BY <2>1, <2>3 DEF Context, Endless
        <4> QED
          BY <4>1, WorkFacts
      <3> QED
        BY <1>3, <2>1, <2>3, <3>1 DEF Context
    <2> QED
      BY <2>2, <2>3
  <1> QED
    BY <1>1, <1>2, <1>3 DEF UploadStep

\* A buffer sent, or a read that fails, leaves the client in SERVING_GET or
\* ends it.
LEMMA GetStepType ==
    ASSUME NEW c \in Conns, NEW k \in Context, NEW q \in GetStep(c, k)
    PROVE  q \in Context /\ q.state \in {"SERVED", k.state}
  <1>1. ASSUME NEW b \in BOOLEAN, q = [Served(k) EXCEPT !.full = b]
        PROVE  q \in Context /\ q.state = "SERVED"
    BY <1>1, ServedType DEF Context
  <1>2. ASSUME NEW b \in BOOLEAN, NEW w \in Work,
               q = [k EXCEPT !.work = w, !.full = b]
        PROVE  q \in Context /\ q.state = k.state
    BY <1>2 DEF Context
  <1>3. CASE k.work = Endless
    BY <1>3 DEF GetStep
  <1>4. CASE k.work # Endless
    <2>1. k.work \in Work
      BY DEF Context
    <2>2. Endless \in Work /\ k.work - 1 \in Work
      BY <1>4, <2>1, WorkFacts
    <2>3. PICK b \in BOOLEAN : \/ q = [Served(k) EXCEPT !.full = b]
                              \/ q = [k EXCEPT !.work = Endless, !.full = b]
                              \/ q = [k EXCEPT !.work = @ - 1, !.full = b]
      BY <1>4 DEF GetStep
    <2> QED
      BY <1>1, <1>2, <2>2, <2>3
  <1> QED
    BY <1>3, <1>4

\* A poll of a CGI leaves the client in SERVING_CGI or ends it.
LEMMA CgiStepType ==
    ASSUME NEW c \in Conns, NEW k \in Context, NEW q \in CgiStep(c, k)
    PROVE  q \in Context /\ q.state \in {"SERVED", k.state}
  <1>1. CASE q = k
    BY <1>1
  <1>2. ASSUME NEW b \in BOOLEAN, q = [Served(k) EXCEPT !.full = b]
        PROVE  q \in Context /\ q.state = "SERVED"
    BY <1>2, ServedType DEF Context
  <1>3. ASSUME NEW r \in Received(k) \cup {k}, ~(k.work <= 0),
               q = [r EXCEPT !.work = @ - 1]
        PROVE  q \in Context /\ q.state = k.state
    <2>1. r \in Context /\ r.state = k.state /\ r.work = k.work
      BY RecvType
    <2>2. r.work - 1 \in Work
      <3>1. r.work \in Work /\ r.work # Endless
        BY <1>3, <2>1 DEF Context, Endless
      <3> QED
        BY <3>1, WorkFacts
    <2> QED
      BY <1>3, <2>1, <2>2 DEF Context
  <1> QED
    BY <1>1, <1>2, <1>3 DEF CgiStep

\* handle_http leaves other states alone; a resting client rests, starts a
\* response or is done.
LEMMA HttpStepType ==
    ASSUME NEW c \in Conns, NEW k \in Context, NEW x \in BOOLEAN,
           NEW q \in HttpStep(c, k, x)
    PROVE  q \in Context /\ q.state \in ArchitectStates \cup {k.state}
  BY ReadHeaderType, ServedType DEF HttpStep, ArchitectStates

\* A method handler never leaves a client in a state it cannot rest in.
LEMMA MethodStepType ==
    ASSUME NEW c \in Conns, NEW k \in Context, NEW q \in MethodStep(c, k),
           k.state \in Resting \cup ArchitectStates
    PROVE  q \in Context /\ q.state \in Resting \cup {"SERVED"}
  <1>1. CASE k.state = "SERVING_GET"
    BY <1>1, GetStepType DEF MethodStep, Resting
  <1>2. CASE k.state \in {"SERVING_POST", "SERVING_PUT"}
    BY <1>2, UploadStepType DEF MethodStep, Resting
  <1>3. CASE k.state \in {"SERVING_DELETE", "SERVING_OPTIONS", "SERVING_TRACE"}
    <2>1. PICK b \in BOOLEAN : q = [Served(k) EXCEPT !.full = b]
      BY <1>3 DEF MethodStep
    <2> QED
      BY <2>1, ServedType DEF Context
  <1>4. CASE k.state \in {"WAITING", "KEEP_ALIVE", "SERVING_CGI", "SERVED"}
    <2>1. q = k
      BY <1>4 DEF MethodStep
    <2> QED
      BY <1>4, <2>1 DEF Resting
  <1> QED
    BY <1>1, <1>2, <1>3, <1>4 DEF Resting, ArchitectStates

-----------------------------------------------------------------------------
(* The listener's queue. *)

\* Entering the queue adds one connection to it.
LEMMA RangeAppend ==
    ASSUME NEW s \in Seq(Conns), NEW c \in Conns
    PROVE  Range(Append(s, c)) = Range(s) \cup {c}
  <1>1. DOMAIN s = 1..Len(s) /\ DOMAIN Append(s, c) = 1..(Len(s) + 1)
    OBVIOUS
  <1>2. \A i \in 1..Len(s) : Append(s, c)[i] = s[i]
    OBVIOUS
  <1>3. Append(s, c)[Len(s) + 1] = c
    OBVIOUS
  <1>4. Len(s) \in Nat
    OBVIOUS
  <1>5. 1..(Len(s) + 1) = 1..Len(s) \cup {Len(s) + 1}
    BY <1>4
  <1> QED
    BY <1>1, <1>2, <1>3, <1>5 DEF Range

\* Leaving it takes its head away, for good when no entry is repeated.
LEMMA RangeTail ==
    ASSUME NEW s \in Seq(Conns), s # << >>,
           \A i, j \in 1..Len(s) : s[i] = s[j] => i = j
    PROVE  /\ Tail(s) \in Seq(Conns)
           /\ Head(s) \in Conns /\ Head(s) \in Range(s)
           /\ Range(Tail(s)) \subseteq Range(s) \ {Head(s)}
           /\ \A i, j \in 1..Len(Tail(s)) : Tail(s)[i] = Tail(s)[j] => i = j
  <1>1. DOMAIN s = 1..Len(s) /\ Len(s) \in Nat /\ Len(s) >= 1
    OBVIOUS
  <1>2. Tail(s) \in Seq(Conns) /\ Len(Tail(s)) = Len(s) - 1
    OBVIOUS
  <1>3. Head(s) = s[1] /\ \A i \in 1..Len(Tail(s)) : Tail(s)[i] = s[i + 1]
    OBVIOUS
  <1>4. DOMAIN Tail(s) = 1..Len(Tail(s))
    BY <1>2
  <1> QED
    BY <1>1, <1>2, <1>3, <1>4 DEF Range

-----------------------------------------------------------------------------
(* The invariant. *)

LEMMA InitInv == Init => IInv
  <1> SUFFICES ASSUME Init PROVE IInv
    OBVIOUS
  <1>1. TypeOK
    BY BoundsAssumption DEF Init, TypeOK, Process
  <1>2. MapMatchesSockets
    BY DEF Init, MapMatchesSockets
  <1>3. BacklogDistinct
    BY DEF Init, BacklogDistinct
  <1>4. OneFilterPerClient
    BY DEF Init, OneFilterPerClient
  <1>5. FreshEvents /\ RestingStates
    BY DEF Init, FreshEvents, RestingStates
  <1> QED
    BY <1>1, <1>2, <1>3, <1>4, <1>5 DEF IInv

\* A peer that connects is nobody's client yet.
LEMMA ConnectInv ==
    ASSUME IInv, NEW c \in Conns, Connect(c)
    PROVE  IInv'
  <1>1. /\ UNCHANGED serverVars
        /\ backlog' = Append(backlog, c)
        /\ c \notin Range(backlog) /\ c \notin Range(sock)
    BY DEF Connect, Alive
  <1>2. backlog \in Seq(Conns) /\ Range(backlog') = Range(backlog) \cup {c}
    BY <1>1, RangeAppend DEF IInv, TypeOK
  <1>3. TypeOK'
    BY <1>1, <1>2, BoundsAssumption DEF IInv, TypeOK, Connect, serverVars
  <1>4. MapMatchesSockets'
    <2>1. \A fd \in DOMAIN sock : sock[fd] # c
      BY <1>1 DEF Range
    <2> QED
      BY <1>1, <1>2, <2>1 DEF IInv, MapMatchesSockets, serverVars
  <1>5. BacklogDistinct'
    <2>1. \A i \in 1..Len(backlog) : backlog[i] # c
      BY <1>1, <1>2 DEF Range
    <2> QED
      BY <1>1, <1>2, <2>1 DEF IInv, BacklogDistinct
  <1>6. OneFilterPerClient' /\ FreshEvents' /\ RestingStates'
    BY <1>1 DEF IInv, OneFilterPerClient, FreshEvents, RestingStates,
                serverVars
  <1> QED
    BY <1>3, <1>4, <1>5, <1>6 DEF IInv

\* What else a peer does changes only its own buffers.
LEMMA PeerInv ==
    ASSUME IInv, NEW c \in Conns, Send(c) \/ Fin(c) \/ Reset(c) \/ Drain(c)
    PROVE  IInv'
  <1>1. UNCHANGED <<backlog, serverVars>>
    BY DEF Send, Fin, Reset, Drain
  <1>2. /\ peer' \in [Conns -> {"open", "fin", "reset"}]
        /\ inb' \in [Conns -> 0..MaxIn]
        /\ full' \in [Conns -> BOOLEAN]
    <2>0. /\ peer \in [Conns -> {"open", "fin", "reset"}]
          /\ inb \in [Conns -> 0..MaxIn] /\ full \in [Conns -> BOOLEAN]
      BY DEF IInv, TypeOK
    <2>1. CASE Send(c)
      <3>1. inb[c] + 1 \in 0..MaxIn
        BY <2>0, <2>1, BoundsAssumption DEF Send
      <3> QED
        BY <2>0, <2>1, <3>1 DEF Send
    <2>2. CASE Fin(c)
      BY <2>0, <2>2 DEF Fin
    <2>3. CASE Reset(c)
      BY <2>0, <2>3 DEF Reset
    <2>4. CASE Drain(c)
      BY <2>0, <2>4 DEF Drain
    <2> QED
      BY <2>1, <2>2, <2>3, <2>4
  <1>3. TypeOK'
    BY <1>1, <1>2 DEF IInv, TypeOK, serverVars
  <1> QED
    BY <1>1, <1>3 DEF IInv, MapMatchesSockets, BacklogDistinct,
           OneFilterPerClient, FreshEvents, RestingStates, serverVars

\* Time changes no state of a client.
LEMMA ExpireInv ==
    ASSUME IInv, NEW fd \in Fds, Expire(fd)
    PROVE  IInv'
  <1>1. /\ fd \in DOMAIN clients
        /\ clients' = [clients EXCEPT ![fd].expired = TRUE]
        /\ UNCHANGED <<process, peer, inb, full, backlog, sock, knotes, events>>
    BY DEF Expire, IN_MAP, kernel
  <1>2. /\ DOMAIN clients' = DOMAIN clients
        /\ \A g \in DOMAIN clients : /\ clients'[g] \in Client
                                     /\ clients'[g].conn = clients[g].conn
                                     /\ clients'[g].state = clients[g].state
    BY <1>1 DEF IInv, TypeOK, Client
  <1>3. TypeOK'
    <2>1. clients' \in [DOMAIN clients -> Client]
      BY <1>1, <1>2
    <2> QED
      BY <1>1, <1>2, <2>1 DEF IInv, TypeOK
  <1>4. OneFilterPerClient'
    BY <1>1, <1>2 DEF IInv, OneFilterPerClient
  <1> QED
    BY <1>1, <1>2, <1>3, <1>4 DEF IInv, MapMatchesSockets, BacklogDistinct,
                                  FreshEvents, RestingStates

\* A batch names every client at most once, because it has one filter.
LEMMA KeventInv ==
    ASSUME IInv, Kevent
    PROVE  IInv'
  <1> DEFINE Polled == {m \in knotes : m[1] \in DOMAIN sock
                                       /\ Ready(sock[m[1]], m[2])}
             Report(n) == [kind |-> "client", fd |-> n[1], conn |-> sock[n[1]],
                           eof |-> AtEof(sock[n[1]], n[2])]
  <1>1. /\ UNCHANGED <<process, peer, inb, full, backlog, sock, knotes, clients>>
        /\ events' = {[kind |-> "listen"] : c \in Range(backlog)}
                       \cup {Report(n) : n \in Polled}
    BY DEF Kevent, ListenEvent, ClientEvents, kernel
  <1>2. \A n \in Polled : /\ n[1] \in DOMAIN sock /\ n[1] \in Fds
                          /\ sock[n[1]] \in Conns
                          /\ n = <<n[1], FilterOf(clients[n[1]].state)>>
    BY DEF IInv, TypeOK, OneFilterPerClient, MapMatchesSockets
  <1>3. \A n \in Polled : AtEof(sock[n[1]], n[2]) \in BOOLEAN
    BY DEF AtEof
  <1>4. \A e \in events' : e.kind = "client" => \E n \in Polled : e = Report(n)
    BY <1>1
  <1>5. events' \subseteq Event
    <2>1. \A n \in Polled : Report(n) \in Event
      BY <1>2, <1>3 DEF Event
    <2>2. [kind |-> "listen"] \in Event
      BY DEF Event
    <2> QED
      BY <1>1, <2>1, <2>2
  <1>6. TypeOK'
    BY <1>1, <1>5 DEF IInv, TypeOK
  <1>7. FreshEvents'
    <2> SUFFICES ASSUME NEW e \in events', e.kind = "client"
                 PROVE  /\ e.fd \in DOMAIN sock /\ sock[e.fd] = e.conn
                        /\ \A f \in events' :
                             f.kind = "client" /\ f.fd = e.fd => f = e
      BY <1>1 DEF FreshEvents
    <2>1. PICK n \in Polled : e = Report(n)
      BY <1>4
    <2>2. ASSUME NEW f \in events', f.kind = "client", f.fd = e.fd
          PROVE  f = e
      <3>1. PICK m \in Polled : f = Report(m)
        BY <1>4, <2>2
      <3>2. m[1] = n[1]
        BY <2>1, <2>2, <3>1
      <3> QED
        BY <1>2, <2>1, <3>1, <3>2
    <2> QED
      BY <1>2, <2>1, <2>2
  <1> QED
    BY <1>1, <1>6, <1>7 DEF IInv, MapMatchesSockets, BacklogDistinct,
                            OneFilterPerClient, RestingStates

\* The server that fails to accept stops with its tables as they were.
LEMMA AcceptFailsInv ==
    ASSUME IInv, NEW e \in events, AcceptFails(e)
    PROVE  IInv'
  <1>1. /\ UNCHANGED <<peer, inb, full, backlog, sock, knotes, clients, events>>
        /\ process' \in Process
    BY DEF AcceptFails, kernel, Process
  <1>2. TypeOK'
    BY <1>1 DEF IInv, TypeOK
  <1> QED
    BY <1>1, <1>2 DEF IInv, MapMatchesSockets, BacklogDistinct,
                      OneFilterPerClient, FreshEvents, RestingStates

\* A new client gets a descriptor nobody holds, an entry and one filter.
LEMMA AcceptInv ==
    ASSUME IInv, NEW e \in events, e.kind = "listen", Accept(e)
    PROVE  IInv'
  <1> DEFINE c == Head(backlog)
             new == [conn |-> c, state |-> "WAITING", work |-> 0,
                     expired |-> FALSE]
  <1>1. PICK fd \in Fds \ DOMAIN sock :
           /\ fd \notin DOMAIN clients
           /\ sock' = Put(sock, fd, c)
           /\ clients' = Put(clients, fd, new)
           /\ knotes' = AddKqueueEvent(knotes, DOMAIN sock', fd,
                                       FilterOf("WAITING"))
    BY DEF Accept, IN_MAP
  <1>2. /\ backlog # << >> /\ backlog' = Tail(backlog)
        /\ events' = events \ {e}
        /\ UNCHANGED <<process, peer, inb, full>>
    BY DEF Accept
  <1>3. /\ backlog' \in Seq(Conns) /\ c \in Conns /\ c \in Range(backlog)
        /\ Range(backlog') \subseteq Range(backlog) \ {c}
        /\ BacklogDistinct'
    <2>1. /\ backlog \in Seq(Conns) /\ backlog # << >>
          /\ \A i, j \in 1..Len(backlog) : backlog[i] = backlog[j] => i = j
      BY <1>2 DEF IInv, TypeOK, BacklogDistinct
    <2>2. /\ backlog' \in Seq(Conns) /\ c \in Conns /\ c \in Range(backlog)
          /\ Range(backlog') \subseteq Range(backlog) \ {c}
      BY <1>2, <2>1, RangeTail
    <2>3. \A i, j \in 1..Len(Tail(backlog)) :
              Tail(backlog)[i] = Tail(backlog)[j] => i = j
      BY <2>1, RangeTail
    <2>4. BacklogDistinct'
      BY <1>2, <2>3 DEF BacklogDistinct
    <2> QED
      BY <2>2, <2>4
  <1>4. /\ DOMAIN sock' = DOMAIN sock \cup {fd} /\ sock'[fd] = c
        /\ \A g \in DOMAIN sock : sock'[g] = sock[g]
        /\ sock' \in [DOMAIN sock \cup {fd} -> Conns]
    BY <1>1, <1>3 DEF Put, IInv, TypeOK
  <1>5. new \in Client
    BY <1>3, WorkFacts DEF Client, CLIENT_STATE, HttpStates
  <1>6. /\ DOMAIN clients' = DOMAIN clients \cup {fd} /\ clients'[fd] = new
        /\ \A g \in DOMAIN clients : clients'[g] = clients[g]
        /\ clients' \in [DOMAIN clients \cup {fd} -> Client]
    BY <1>1, <1>5 DEF Put, IInv, TypeOK
  <1>7. knotes' = knotes \cup {<<fd, "WRITE">>}
    BY <1>1, <1>4 DEF AddKqueueEvent, FilterOf, R_STATE, ReadStates
  <1>8. TypeOK'
    <2>1. DOMAIN sock' \subseteq Fds /\ sock' \in [DOMAIN sock' -> Conns]
      BY <1>4 DEF IInv, TypeOK
    <2>2. DOMAIN clients' \subseteq Fds /\ clients' \in [DOMAIN clients' -> Client]
      BY <1>6 DEF IInv, TypeOK
    <2>3. knotes' \subseteq Fds \X {"READ", "WRITE"}
      BY <1>7 DEF IInv, TypeOK
    <2> QED
      BY <1>2, <1>3, <2>1, <2>2, <2>3 DEF IInv, TypeOK
  <1>9. MapMatchesSockets'
    <2>1. \A g \in DOMAIN sock : sock[g] # c
      BY <1>3 DEF IInv, MapMatchesSockets
    <2> QED
      BY <1>3, <1>4, <1>6, <2>1 DEF IInv, MapMatchesSockets
  <1>10. OneFilterPerClient'
    <2>1. FilterOf(clients'[fd].state) = "WRITE"
      BY <1>6 DEF FilterOf, R_STATE, ReadStates
    <2> QED
      BY <1>6, <1>7, <2>1 DEF IInv, OneFilterPerClient
  <1>11. FreshEvents'
    BY <1>2, <1>4 DEF IInv, FreshEvents
  <1>12. RestingStates'
    BY <1>6 DEF IInv, RestingStates, Resting
  <1> QED
    BY <1>3, <1>8, <1>9, <1>10, <1>11, <1>12 DEF IInv

\* What a handler call may do to the connection's buffers keeps their types.
BuffersOK == /\ peer' = peer /\ backlog' = backlog /\ process' = process
             /\ inb' \in [Conns -> 0..MaxIn]
             /\ full' \in [Conns -> BOOLEAN]

\* Dropping an entry of a map drops nothing else.
LEMMA DropFacts ==
    ASSUME NEW m, NEW x
    PROVE  /\ DOMAIN Drop(m, x) = DOMAIN m \ {x}
           /\ \A y \in DOMAIN m \ {x} : Drop(m, x)[y] = m[y]
           /\ Drop(m, x) = [y \in DOMAIN m \ {x} |-> m[y]]
  BY DEF Drop, Restrict

\* A client that is let go leaves nothing behind, in the maps, in the kernel
\* or in the rest of the batch.
LEMMA RemoveInv ==
    ASSUME IInv, NEW e \in events, e.kind = "client", RemoveClient(e.fd),
           knotes' = CloseKnotes(knotes, e.fd), events' = events \ {e},
           BuffersOK
    PROVE  IInv'
  <1>1. /\ DOMAIN sock' = DOMAIN sock \ {e.fd}
        /\ \A g \in DOMAIN sock \ {e.fd} : sock'[g] = sock[g]
        /\ sock' = [g \in DOMAIN sock \ {e.fd} |-> sock[g]]
    BY DropFacts DEF RemoveClient
  <1>2. /\ DOMAIN clients' = DOMAIN clients \ {e.fd}
        /\ \A g \in DOMAIN clients \ {e.fd} : clients'[g] = clients[g]
        /\ clients' = [g \in DOMAIN clients \ {e.fd} |-> clients[g]]
    BY DropFacts DEF RemoveClient
  <1>3. TypeOK'
    <2>1. DOMAIN sock' \subseteq Fds /\ sock' \in [DOMAIN sock' -> Conns]
      BY <1>1 DEF IInv, TypeOK
    <2>2. DOMAIN clients' \subseteq Fds /\ clients' \in [DOMAIN clients' -> Client]
      BY <1>2 DEF IInv, TypeOK
    <2>3. knotes' \subseteq Fds \X {"READ", "WRITE"}
      BY DEF CloseKnotes, IInv, TypeOK
    <2> QED
      BY <2>1, <2>2, <2>3 DEF IInv, TypeOK, BuffersOK
  <1>4. MapMatchesSockets'
    BY <1>1, <1>2 DEF IInv, MapMatchesSockets, BuffersOK
  <1>5. OneFilterPerClient'
    BY <1>2 DEF IInv, OneFilterPerClient, CloseKnotes
  <1>6. FreshEvents'
    BY <1>1 DEF IInv, FreshEvents
  <1> QED
    BY <1>2, <1>3, <1>4, <1>5, <1>6
       DEF IInv, BacklogDistinct, RestingStates, BuffersOK

\* handle_disconnection on EV_EOF.
LEMMA HandleEofInv ==
    ASSUME IInv, NEW e \in events, e.kind = "client", HandleEof(e)
    PROVE  IInv'
  <1>1. BuffersOK
    BY DEF HandleEof, BuffersOK, kernel, IInv, TypeOK
  <1> QED
    BY <1>1, RemoveInv DEF HandleEof

\* Moving a client's registration swaps its one filter for that of its new
\* state, whether or not the two differ.
LEMMA MoveFilterFacts ==
    ASSUME NEW kn, NEW open, NEW fd \in open, NEW prev, NEW cur,
           <<fd, FilterOf(prev)>> \in kn
    PROVE  MoveFilter(kn, open, fd, prev, cur) =
             (kn \ {<<fd, FilterOf(prev)>>}) \cup {<<fd, FilterOf(cur)>>}
  <1>1. CASE R_STATE(prev) = R_STATE(cur)
    <2>1. FilterOf(prev) = FilterOf(cur)
      BY <1>1 DEF FilterOf
    <2> QED
      BY <1>1, <2>1 DEF MoveFilter
  <1>2. CASE R_STATE(prev) # R_STATE(cur)
    BY <1>2 DEF MoveFilter, AddKqueueEvent, DeleteKqueueEvent
  <1> QED
    BY <1>1, <1>2

\* A client that stays keeps its connection and ends up with the filter of
\* its new state.
LEMMA KeepInv ==
    ASSUME IInv, NEW e \in events, e.kind = "client",
           e.fd \in DOMAIN clients, NEW k \in Context, NEW s \in Resting,
           NEW x \in BOOLEAN, Keep(e, k, s, x), events' = events \ {e},
           BuffersOK
    PROVE  IInv'
  <1> DEFINE new == [conn |-> clients[e.fd].conn, state |-> s,
                     work |-> k.work, expired |-> x]
  <1>1. /\ clients' = [clients EXCEPT ![e.fd] = new]
        /\ knotes' = MoveFilter(knotes, DOMAIN sock, e.fd,
                                clients[e.fd].state, s)
        /\ sock' = sock
    BY DEF Keep
  <1>2. new \in Client
    <2>1. clients[e.fd] \in Client
      BY DEF IInv, TypeOK
    <2>2. s \in CLIENT_STATE
      BY DEF Resting, CLIENT_STATE, HttpStates, ReadStates, MethodStates
    <2>3. k.work \in Work
      BY DEF Context
    <2> QED
      BY <2>1, <2>2, <2>3 DEF Client
  <1>3. /\ DOMAIN clients' = DOMAIN clients /\ clients'[e.fd] = new
        /\ \A g \in DOMAIN clients \ {e.fd} : clients'[g] = clients[g]
        /\ clients' \in [DOMAIN clients -> Client]
    BY <1>1, <1>2 DEF IInv, TypeOK
  <1>4. e.fd \in DOMAIN sock
    BY DEF IInv, MapMatchesSockets
  <1>5. knotes' = (knotes \ {<<e.fd, FilterOf(clients[e.fd].state)>>})
                    \cup {<<e.fd, FilterOf(s)>>}
    <2>1. <<e.fd, FilterOf(clients[e.fd].state)>> \in knotes
      BY DEF IInv, OneFilterPerClient
    <2> QED
      BY <1>1, <1>4, <2>1, MoveFilterFacts
  <1>6. TypeOK'
    <2>1. DOMAIN clients' \subseteq Fds /\ clients' \in [DOMAIN clients' -> Client]
      BY <1>3 DEF IInv, TypeOK
    <2>2. knotes' \subseteq Fds \X {"READ", "WRITE"}
      BY <1>4, <1>5 DEF FilterOf, IInv, TypeOK
    <2> QED
      BY <1>1, <2>1, <2>2 DEF IInv, TypeOK, BuffersOK
  <1>7. MapMatchesSockets'
    BY <1>1, <1>3 DEF IInv, MapMatchesSockets, BuffersOK
  <1>8. OneFilterPerClient'
    BY <1>3, <1>5 DEF IInv, OneFilterPerClient
  <1>9. FreshEvents'
    BY <1>1 DEF IInv, FreshEvents
  <1>10. RestingStates'
    BY <1>3 DEF IInv, RestingStates
  <1> QED
    BY <1>6, <1>7, <1>8, <1>9, <1>10 DEF IInv, BacklogDistinct, BuffersOK

\* kevent() on a closed descriptor registers nothing, whatever the freed
\* client's state reads as.
LEMMA DisconnectCloses ==
    ASSUME NEW e, NEW stale, Disconnect(e, stale)
    PROVE  RemoveClient(e.fd) /\ knotes' = CloseKnotes(knotes, e.fd)
  <1>1. e.fd \notin DOMAIN sock'
    <2>1. sock' = Drop(sock, e.fd)
      BY DEF Disconnect, RemoveClient
    <2>2. DOMAIN Drop(sock, e.fd) = DOMAIN sock \ {e.fd}
      BY DropFacts
    <2> QED
      BY <2>1, <2>2
  <1> QED
    BY <1>1 DEF Disconnect, MoveFilter, AddKqueueEvent, DeleteKqueueEvent

\* One call of handle_client: its three endings are covered above.
LEMMA HandleClientInv ==
    ASSUME IInv, NEW e \in events, e.kind = "client", HandleClient(e)
    PROVE  IInv'
  <1> DEFINE cl == clients[e.fd]
             c  == cl.conn
             k0 == [state |-> cl.state, work |-> cl.work,
                    inb |-> inb[c], full |-> full[c]]
  <1>1. e.fd \in DOMAIN clients /\ events' = events \ {e}
        /\ UNCHANGED <<process, peer, backlog>>
    BY DEF HandleClient, IN_MAP
  <1>2. PICK k1 \in CgiStep(c, k0) :
        \E k2 \in HttpStep(c, k1, cl.expired) :
        \E k3 \in MethodStep(c, k2) :
          /\ Settle(e, k2, k3, cl.expired)
          /\ inb' = [inb EXCEPT ![c] = k3.inb]
          /\ full' = [full EXCEPT ![c] = k3.full]
    BY DEF HandleClient
  <1>3. PICK k2 \in HttpStep(c, k1, cl.expired) :
        \E k3 \in MethodStep(c, k2) :
          /\ Settle(e, k2, k3, cl.expired)
          /\ inb' = [inb EXCEPT ![c] = k3.inb]
          /\ full' = [full EXCEPT ![c] = k3.full]
    BY <1>2
  <1>4. PICK k3 \in MethodStep(c, k2) :
          /\ Settle(e, k2, k3, cl.expired)
          /\ inb' = [inb EXCEPT ![c] = k3.inb]
          /\ full' = [full EXCEPT ![c] = k3.full]
    BY <1>3
  <1>5. /\ cl \in Client /\ c \in Conns /\ cl.expired \in BOOLEAN
        /\ k0 \in Context /\ k0.state \in Resting
    <2>1. cl \in Client
      BY <1>1 DEF IInv, TypeOK
    <2>2. c \in Conns /\ cl.state \in CLIENT_STATE /\ cl.work \in Work
          /\ cl.expired \in BOOLEAN
      BY <2>1 DEF Client
    <2>3. inb[c] \in 0..MaxIn /\ full[c] \in BOOLEAN
      BY <2>2 DEF IInv, TypeOK
    <2>4. cl.state \in Resting
      BY <1>1 DEF IInv, RestingStates
    <2> QED
      BY <2>1, <2>2, <2>3, <2>4 DEF Context
  <1>6. k1 \in Context /\ k1.state \in Resting \cup {"SERVED"}
    BY <1>2, <1>5, CgiStepType
  <1>7. k2 \in Context /\ k2.state \in Resting \cup ArchitectStates
    <2>1. k2 \in Context /\ k2.state \in ArchitectStates \cup {k1.state}
      BY <1>3, <1>5, <1>6, HttpStepType
    <2> QED
      BY <1>6, <2>1 DEF ArchitectStates
  <1>8. k3 \in Context /\ k3.state \in Resting \cup {"SERVED"}
    BY <1>4, <1>5, <1>7, MethodStepType
  <1>9. BuffersOK
    <2>1. k3.inb \in 0..MaxIn /\ k3.full \in BOOLEAN
      BY <1>8 DEF Context
    <2>2. inb \in [Conns -> 0..MaxIn] /\ full \in [Conns -> BOOLEAN]
      BY DEF IInv, TypeOK
    <2>3. inb' = [inb EXCEPT ![c] = k3.inb] /\ full' = [full EXCEPT ![c] = k3.full]
      BY <1>4
    <2>4. inb' \in [Conns -> 0..MaxIn]
      BY <1>5, <2>1, <2>2, <2>3
    <2>5. full' \in [Conns -> BOOLEAN]
      BY <1>5, <2>1, <2>2, <2>3
    <2> QED
      BY <1>1, <2>4, <2>5 DEF BuffersOK
  <1>10. CASE RemoveClient(e.fd) /\ knotes' = CloseKnotes(knotes, e.fd)
    BY <1>1, <1>9, <1>10, RemoveInv
  <1>11. CASE Keep(e, k3, "KEEP_ALIVE", FALSE)
    <2>1. "KEEP_ALIVE" \in Resting
      BY DEF Resting
    <2> QED
      BY <1>1, <1>8, <1>9, <1>11, <2>1, KeepInv
  <1>12. CASE \E stale \in CLIENT_STATE : Disconnect(e, stale)
    BY <1>10, <1>12, DisconnectCloses
  <1>13. CASE k3.state # "SERVED" /\ Keep(e, k3, k3.state, cl.expired)
    <2>1. k3.state \in Resting
      BY <1>8, <1>13
    <2> QED
      BY <1>1, <1>5, <1>8, <1>9, <1>13, <2>1, KeepInv
  <1> QED
    BY <1>4, <1>10, <1>11, <1>12, <1>13 DEF Settle

\* A header that stops the loop leaves its tables as they were.
LEMMA ParseFailsInv ==
    ASSUME IInv, NEW e \in events, ParseFails(e)
    PROVE  IInv'
  <1> DEFINE c == clients[e.fd].conn
  <1>1. /\ e.fd \in DOMAIN clients /\ inb[c] > 0
        /\ inb' = [inb EXCEPT ![c] = @ - 1] /\ process' \in {"threw", "spins"}
        /\ UNCHANGED <<peer, full, backlog, sock, knotes, clients, events>>
    BY DEF ParseFails, IN_MAP
  <1>2. c \in Conns
    <2>1. clients[e.fd] \in Client
      BY <1>1 DEF IInv, TypeOK
    <2> QED
      BY <2>1 DEF Client
  <1>3. inb' \in [Conns -> 0..MaxIn]
    <2>1. inb \in [Conns -> 0..MaxIn]
      BY DEF IInv, TypeOK
    <2>2. inb[c] - 1 \in 0..MaxIn
      BY <1>1, <1>2, <2>1, BoundsAssumption
    <2> QED
      BY <1>1, <2>1, <2>2
  <1>4. TypeOK'
    BY <1>1, <1>3 DEF IInv, TypeOK, Process
  <1> QED
    BY <1>1, <1>4 DEF IInv, MapMatchesSockets, BacklogDistinct,
                      OneFilterPerClient, FreshEvents, RestingStates

\* Every step of the server, of a peer or of the clock keeps the invariant.
LEMMA StepInv == IInv /\ [Next]_vars => IInv'
  <1> SUFFICES ASSUME IInv, [Next]_vars PROVE IInv'
    OBVIOUS
  <1>1. CASE up /\ Peers
    BY <1>1, ConnectInv, PeerInv DEF Peers
  <1>2. CASE up /\ Clock
    BY <1>2, ExpireInv DEF Clock
  <1>3. CASE Kevent
    BY <1>3, KeventInv
  <1>4. CASE HandleEvent
    <2>1. PICK e \in events :
             IF e.kind = "listen" THEN AcceptFails(e) \/ Accept(e)
             ELSE HandleEof(e) \/ HandleClient(e) \/ ParseFails(e)
      BY <1>4 DEF HandleEvent
    <2>2. CASE e.kind = "listen"
      BY <2>1, <2>2, AcceptFailsInv, AcceptInv
    <2>3. CASE e.kind # "listen"
      <3>1. e.kind = "client"
        BY <2>3 DEF IInv, TypeOK, Event
      <3> QED
        BY <2>1, <2>3, <3>1, HandleEofInv, HandleClientInv, ParseFailsInv
    <2> QED
      BY <2>2, <2>3
  <1>5. CASE UNCHANGED vars
    <2>1. TypeOK'
      BY <1>5 DEF vars, IInv, TypeOK
    <2> QED
      BY <1>5, <2>1 DEF vars, IInv, MapMatchesSockets, BacklogDistinct,
             OneFilterPerClient, FreshEvents, RestingStates
  <1> QED
    BY <1>1, <1>2, <1>3, <1>4, <1>5 DEF Next, Loop, Stopped

-----------------------------------------------------------------------------
(* The theorems. *)

\* The inductive invariant holds in every reachable state.
THEOREM Invariance == Spec => []IInv
  BY InitInv, StepInv, PTL DEF Spec

\* Every variable of the event loop keeps its type.
THEOREM TypeCorrect == Spec => []TypeOK
  <1>1. IInv => TypeOK
    BY DEF IInv
  <1> QED
    BY <1>1, Invariance, PTL

\* clients_map and the open sockets of the process agree, entry by entry.
THEOREM MapAgreement == Spec => []MapMatchesSockets
  <1>1. IInv => MapMatchesSockets
    BY DEF IInv
  <1> QED
    BY <1>1, Invariance, PTL

\* Every client is polled for exactly the filter of its state.
THEOREM FilterAgreement == Spec => []OneFilterPerClient
  <1>1. IInv => OneFilterPerClient
    BY DEF IInv
  <1> QED
    BY <1>1, Invariance, PTL

\* No event of a batch is handled for a client that is gone or was replaced.
THEOREM NoStaleEvent == Spec => []FreshEvents
  <1>1. IInv => FreshEvents
    BY DEF IInv
  <1> QED
    BY <1>1, Invariance, PTL

\* No handler leaves a client in a state the loop does not serve.
THEOREM ClientsRest == Spec => []RestingStates
  <1>1. IInv => RestingStates
    BY DEF IInv
  <1> QED
    BY <1>1, Invariance, PTL
=============================================================================
