------------------------------ MODULE CgiProps -------------------------------
(***************************************************************************)
(* What clients and scripts may rely on in Cgi.                            *)
(***************************************************************************)
EXTENDS Cgi

OwnKid(c, p) == kids[p].owner = c
Serving(c)   == clients[c].state = "SERVING_CGI"
Zombie(p)    == kids[p].st \in {"exited", "signalled"}

\* A client waits for p, the script that was started for it, and no other
\* client has found the same number in a cgi_pid that was never set.
Awaits(c, p) ==
    /\ Serving(c) /\ OwnKid(c, p) /\ clients[c].pid = p
    /\ \A d \in Clients \ {c} : clients[d].pid # p

-----------------------------------------------------------------------------
(* Safety                                                                  *)

\* The output of a script is sent only once its own child has exited by
\* itself and been waited for: not while it still writes, not after it was
\* killed, and not because some other child has ended.
AnswerAfterExit ==
    \A c \in Clients : clients[c].code = 200 =>
        \E p \in Pids : OwnKid(c, p) /\ kids[p].st = "reaped" /\ kids[p].code = "ok"

\* What a client is sent is of its own script and of no other, and all that
\* the script has written if the one send() took all of it (nothing is sent
\* again, cgi.tools.cpp:131); unless a name in /tmp was given out a second time
\* before its file was there.
OutputOwn ==
    ~raced => \A c \in Clients : clients[c].code = 200 =>
        LET own == IF \E p \in Pids : OwnKid(c, p) /\ kids[p].wrote THEN {c} ELSE {}
        IN /\ clients[c].sent.by \subseteq own
           /\ clients[c].sent.whole => clients[c].sent.by = own

\* A time-out kills the script of that client and of no other. A client
\* that found cgi_running set is the exception: it kills whatever cgi_pid is.
NoForeignKill ==
    \A p \in Pids : LET d == kids[p].killer
                    IN d = None \/ OwnKid(d, p) \/ clients[d].stale

-----------------------------------------------------------------------------
(* Liveness. A client's own events are enough for it, however few children *)
(* each of them waits for.                                                 *)

\* A client past max_cgi_timeout is answered, though its script may hang, be
\* killed, or have been waited for by someone else.
TimedOutAnswered == \A c \in Clients : (Serving(c) /\ clients[c].late) ~> ~Serving(c)

\* A script that has exited is answered for, with no time-out needed.
ExitAnswered ==
    \A c \in Clients, p \in Pids :
        (Awaits(c, p) /\ kids[p].st = "exited") ~> ~Awaits(c, p)

\* No zombie stays as long as there is a client waiting for a script: those
\* of clients that are gone are waited for by the others.
ZombiesReaped ==
    \A p \in Pids : Zombie(p) ~> (~Zombie(p) \/ \A c \in Clients : ~Serving(c))
=============================================================================
