---------------------------- MODULE KqueueProps -----------------------------
(* Correctness of the event loop of module Kqueue. *)
EXTENDS Kqueue

\* clients_map and the process's open sockets agree, entry by entry: a
\* client is removed with its descriptor and never survives a close(), so
\* add_client never meets a leftover entry when a number is reused
\* (kqueueManager.struct.hpp, add_client / remove_client).
MapMatchesSockets ==
    /\ DOMAIN clients = DOMAIN sock
    /\ \A fd \in DOMAIN clients : clients[fd].conn = sock[fd]
    /\ \A a, b \in DOMAIN sock : sock[a] = sock[b] => a = b
    /\ \A fd \in DOMAIN sock : sock[fd] \notin Range(backlog)

\* Every client is polled for exactly the filter its state waits for, and
\* nothing is polled for a client that is gone. A client with no knote would
\* never be served again; one with two would be reported twice in a batch
\* (kqueue.multiplixer.cpp:184-202).
OneFilterPerClient ==
    knotes = { <<fd, FilterOf(clients[fd].state)>> : fd \in DOMAIN clients }

\* An event is handled for the connection that raised it: while a batch is
\* being worked off no event in it can name a client that an earlier event
\* of the batch removed, nor a newcomer that was given the same descriptor
\* number (handle_client dereferences get_client(fd) unchecked).
FreshEvents ==
    \A e \in events : e.kind = "client" =>
        /\ e.fd \in DOMAIN sock /\ sock[e.fd] = e.conn
        /\ \A f \in events : f.kind = "client" /\ f.fd = e.fd => f = e

Resting == {"WAITING", "KEEP_ALIVE", "SERVING_GET", "SERVING_POST",
            "SERVING_PUT", "SERVING_CGI"}

\* Between handler calls a client rests only in a state the loop knows how
\* to leave: READING_HEADER, SERVED and the states of the methods answered in
\* one call exist only inside handle_client (kqueue.multiplixer.cpp:152-203,
\* http_handler.methods.cpp:5-37).
RestingStates == \A fd \in DOMAIN clients : clients[fd].state \in Resting

In(c, S) == \E fd \in DOMAIN sock : sock[fd] = c /\ clients[fd].state \in S

\* A connection that has been accepted and sends no complete header does
\* not stay WAITING: WAITING clients are polled for writability, so the
\* time-out of handle_http is re-evaluated until it fires.
WaitingEnds ==
    \A c \in Conns : In(c, {"WAITING"}) ~> (~In(c, {"WAITING"}) \/ ~up)

\* A connection in the listener's queue is accepted, although accept() is
\* called for one connection in an event. The ways out are those of the
\* code: an accept() that fails, which ends the process, and a header that
\* stops the loop (kqueue.multiplixer.cpp:115-131, 225-237).
AcceptWouldFail == \/ Fds \subseteq DOMAIN sock
                   \/ \E d \in Range(backlog) : peer[d] = "reset"
QueuedAccepted ==
    \A c \in Conns : c \in Range(backlog)
                        ~> \/ c \notin Range(backlog)
                           \/ AcceptWouldFail
                           \/ process \in {"threw", "spins"}

\* A GET of a file that read() fails for, and that has no end.
Unreadable(c) == \E fd \in DOMAIN sock : /\ sock[fd] = c
                                         /\ clients[fd].state = "SERVING_GET"
                                         /\ clients[fd].work = Endless

Released(c) == ~Alive(c) \/ peer[c] # "fin" \/ ~up

\* A peer that has closed its side is let go, unless it stopped reading
\* what the server still has to send, or waits for a file that cannot be
\* read: EVFILT_WRITE does not report its FIN (kqueue.multiplixer.cpp:240).
ClosedPeersReleased ==
    \A c \in Conns : (Alive(c) /\ peer[c] = "fin")
                        ~> (Released(c) \/ full[c] \/ Unreadable(c))

\* The comment above set_manager: "also if a connection has been closed it
\* removes that client" (kqueue.multiplixer.cpp:63), though it reads all it
\* is sent.
ClosedRemoved ==
    \A c \in Conns : (Alive(c) /\ peer[c] = "fin") ~> (Released(c) \/ full[c])

\* README.md: client_max_request_timeout "identifies the max request time
\* the webserver waits for the request": a body that never arrives does not
\* hold its connection for ever.
UploadEnds ==
    \A c \in Conns : In(c, {"SERVING_POST", "SERVING_PUT"})
                        ~> (~In(c, {"SERVING_POST", "SERVING_PUT"}) \/ ~up)
=============================================================================
