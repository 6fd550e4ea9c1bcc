-------------------------------- MODULE Cgi ---------------------------------
(***************************************************************************)
(* Scripts of several clients: handle_cgi and serve_cgi, the child         *)
(* processes and their output files in /tmp, and the map ex_childs of exit *)
(* codes, which handle_client fills with one waitpid() per handled event.  *)
(***************************************************************************)
EXTENDS Integers, FiniteSets

CONSTANTS Clients,    \* each runs one script
          Pids,       \* a pid is not given out twice
          LastPath,   \* bound: the names /tmp/cgi_out, .. /tmp/cgi_out<LastPath>
          None

Paths == 0..LastPath
Codes == {"ok", "42"}     \* exit status: the one serve_cgi gives, and others

ASSUME CgiAssumption ==
    /\ LastPath \in Nat
    /\ None \notin Clients /\ None \notin Pids /\ None \notin Paths /\ None \notin Codes

VARIABLES
    clients,    \* request and response of each client
    kids,       \* child processes
    ex_childs,  \* exit codes by pid, None where there is no entry
    tmp,        \* the output files: whether there is one, and who wrote to it
    raced       \* two scripts have been given one name, see Race
vars == <<clients, kids, ex_childs, tmp, raced>>

\* What a client was sent of the outputs of scripts: whose, and whether it was
\* all there was.
Output == [by : SUBSET Clients, whole : BOOLEAN]
NoOutput == [by |-> {}, whole |-> FALSE]

\* stale: cgi_running is not initialised and was found to be true. cgi_pid is
\* not initialised either. late: max_cgi_timeout has passed.
Client == [state : {"idle", "SERVING_CGI", "removed"}, post : BOOLEAN,
           first_time : BOOLEAN, stale : BOOLEAN, running : BOOLEAN,
           pid : Pids \cup {None}, out : Paths \cup {None}, late : BOOLEAN,
           code : {0, 200, 403, 404, 408, 500}, sent : Output]

\* A zombie has "exited" or was "signalled"; it is "reaped" by waitpid().
\* linked: its output still has its name. killer: whose time-out killed it.
Kid == [st : {"unused", "forked", "running", "exited", "signalled", "reaped"},
        owner : Clients \cup {None}, out : Paths \cup {None}, linked : BOOLEAN,
        wrote : BOOLEAN, code : Codes \cup {None}, killer : Clients \cup {None}]

File == [there : BOOLEAN, by : SUBSET Clients]

TypeOK ==
    /\ clients \in [Clients -> Client]
    /\ kids \in [Pids -> Kid]
    /\ ex_childs \in [Pids -> Codes \cup {None}]
    /\ tmp \in [Paths -> File]
    /\ raced \in BOOLEAN

Unused == [st |-> "unused", owner |-> None, out |-> None, linked |-> FALSE,
           wrote |-> FALSE, code |-> None, killer |-> None]

Fresh(post, stale, pid) ==
    [state |-> "SERVING_CGI", post |-> post, first_time |-> TRUE,
     stale |-> stale, running |-> stale, pid |-> pid, out |-> None,
     late |-> FALSE, code |-> 0, sent |-> NoOutput]

NoFile == [there |-> FALSE, by |-> {}]

Init ==
    /\ clients = [c \in Clients |->
                    [Fresh(FALSE, FALSE, None) EXCEPT !.state = "idle"]]
    /\ kids = [p \in Pids |-> Unused]
    /\ ex_childs = [p \in Pids |-> None]
    /\ tmp = [i \in Paths |-> NoFile]
    /\ raced = FALSE

-----------------------------------------------------------------------------
(* Child processes. They run at any time, whatever becomes of the client.  *)

Set(p, kid) == kids' = [kids EXCEPT ![p] = kid]

\* After fork(): the child of a POST opens cgi_in, which ~request removes with
\* the client, then cgi_out, which it creates unless it is there. It exits
\* with 42 if it cannot, or if execve() fails.
Open(p) ==
    /\ kids[p].st = "forked"
    /\ \/ /\ clients[kids[p].owner].post => clients[kids[p].owner].state # "removed"
          /\ Set(p, [kids[p] EXCEPT !.st = "running", !.linked = TRUE])
          /\ tmp' = [tmp EXCEPT ![kids[p].out].there = TRUE]
       \/ /\ Set(p, [kids[p] EXCEPT !.st = "exited", !.code = "42"])
          /\ UNCHANGED tmp
    /\ UNCHANGED <<clients, ex_childs, raced>>

\* The script writes to what was opened, whether it still has a name or not.
Write(p) ==
    /\ kids[p].st = "running" /\ ~kids[p].wrote
    /\ Set(p, [kids[p] EXCEPT !.wrote = TRUE])
    /\ tmp' = IF kids[p].linked THEN [tmp EXCEPT ![kids[p].out].by = @ \cup {kids[p].owner}]
              ELSE tmp
    /\ UNCHANGED <<clients, ex_childs, raced>>

\* The script ends, by itself with any code, or by a signal of its own.
Exit(p) ==
    /\ kids[p].st = "running"
    /\ \/ \E code \in Codes : Set(p, [kids[p] EXCEPT !.st = "exited", !.code = code])
       \/ Set(p, [kids[p] EXCEPT !.st = "signalled"])
    /\ UNCHANGED <<clients, ex_childs, tmp, raced>>

-----------------------------------------------------------------------------
(* One call of handle_client, as a sequence of steps on a context: the     *)
(* client k and all the shared state.                                      *)

Context(c) == [k |-> clients[c], kids |-> kids, ex |-> ex_childs, tmp |-> tmp,
               raced |-> raced, served |-> FALSE]

\* An answer is given and the client is SERVED.
Answer(x, code, sent) ==
    [x EXCEPT !.served = TRUE, !.k.code = code, !.k.sent = sent]

Zombies(x) == {p \in DOMAIN x.kids : x.kids[p].st \in {"exited", "signalled"}}

\* mutant: WIFEXITED is not asked for
ReapAny(x) ==
    IF Zombies(x) = {} THEN {x}
    ELSE {[x EXCEPT !.kids[p].st = "reaped",
                    !.ex[p] = IF @ # None THEN @ ELSE IF x.kids[p].code = None THEN "ok"
                              ELSE x.kids[p].code] : p \in Zombies(x)}

\* mutant: children are not waited for
ReapNone(x) == {x}

\* waitpid(-1, WNOHANG): one zombie, if there is any. Only an exit code is
\* recorded, and insert() does not replace an entry.
Reap(x) ==
    IF Zombies(x) = {} THEN {x}
    ELSE {[x EXCEPT !.kids[p].st = "reaped",
                    !.ex[p] = IF @ # None THEN @ ELSE x.kids[p].code] :
             p \in Zombies(x)}

\* The first call: the clock is started, the body's file created.
Begin(x) ==
    {[x EXCEPT !.k.first_time = FALSE, !.k.late = FALSE]}
    \cup IF x.k.post THEN {Answer(x, code, NoOutput) : code \in {403, 404, 500}} ELSE {}

\* mutant: kill() whether the script runs or not
KillAlways(x) == x.k.pid # None

\* cgi_pid is sent a SIGKILL, which a zombie does not notice.
KillGuard(x) == x.k.running /\ x.k.pid # None

\* mutant: the script is killed and its end awaited
TimeOutWaits(c, x) ==
    LET p == x.k.pid
    IN IF KillGuard(x) /\ x.kids[p].st \in {"forked", "running"}
       THEN [x EXCEPT !.kids[p].st = "signalled", !.kids[p].killer = c] ELSE x

\* max_cgi_timeout is over: 408, and the script is killed if cgi_running.
TimeOut(c, x) ==
    LET p == x.k.pid
        y == Answer(x, 408, NoOutput)
    IN IF KillGuard(x) /\ x.kids[p].st \in {"forked", "running"}
       THEN [y EXCEPT !.kids[p].st = "signalled", !.kids[p].killer = c] ELSE y

\* Lines 157-166: the body of a POST comes in (upload_file: more to come, all
\* of it, end of stream); a GET is due at once. first_time then means that the
\* script is to be started.
Prepare(x) ==
    LET due == [x EXCEPT !.k.running = TRUE, !.k.first_time = TRUE]
    IN IF x.k.running THEN {x}
       ELSE IF x.k.post THEN {x, due, [x EXCEPT !.served = TRUE]} ELSE {due}

\* mutant: the first name is taken whether there is such a file or not
FreeNameAny(files) == {0}

\* mutant: the name after those that are taken
FreeNameAfter(files) == {Cardinality({i \in DOMAIN files : files[i].there}) + 1}

\* The name of the output: the first that no file has. The child will create
\* it: until then another script may be given the same name. Bound: no script
\* is started once all the names are taken.
FreeName(files) ==
    {i \in DOMAIN files : ~files[i].there /\ \A j \in DOMAIN files : j < i => files[j].there}
Race(x, out) ==
    \E p \in DOMAIN x.kids :
        /\ x.kids[p].out = out
        /\ x.kids[p].st = "forked" \/ clients[x.kids[p].owner].state = "SERVING_CGI"

\* serve_cgi: fork() gives an unused pid, or fails. The name is kept whether
\* it does or not.
Named(x, out) == [x EXCEPT !.k.first_time = FALSE, !.k.out = out]
NotForked(x, out) == Answer([Named(x, out) EXCEPT !.k.pid = None], 500, NoOutput)
Forked(c, x, out, p) ==
    [Named(x, out) EXCEPT !.k.pid = p,
                          !.kids[p] = [Unused EXCEPT !.st = "forked", !.owner = c, !.out = out],
                          !.raced = @ \/ Race(x, out)]
Fork(c, x) ==
    {NotForked(x, out) : out \in FreeName(x.tmp)}
    \cup {Forked(c, x, out, p) : out \in FreeName(x.tmp),
                                 p \in {q \in DOMAIN x.kids : x.kids[q].st = "unused"}}

\* send() is given the whole output at once, on a socket that does not block,
\* and its result is not looked at: what finds no room is lost, or all of it.
SendOutput(by) == {s \in Output : s.by \subseteq by /\ (s.whole => s.by = by)}

\* parse_cgi_output: the file under the name that the client has.
ParseOutput(x) ==
    IF x.k.out # None /\ x.tmp[x.k.out].there
    THEN {Answer(x, 200, s) : s \in SendOutput(x.tmp[x.k.out].by)}
    ELSE {Answer(x, 500, NoOutput)}

\* mutant: only a script that succeeded is answered
CollectOk(x) ==
    LET p == x.k.pid
    IN IF p = None \/ x.ex[p] # "ok" THEN {x} ELSE ParseOutput([x EXCEPT !.ex[p] = None])

\* Lines 173-184: the child has exited. An entry of 42 is left in the map.
Collect(x) ==
    LET p == x.k.pid
    IN IF p = None \/ x.ex[p] = None THEN {x}
       ELSE IF x.ex[p] = "42" THEN {Answer(x, 500, NoOutput)}
       ELSE ParseOutput([x EXCEPT !.ex[p] = None])

\* handle_cgi. The call goes on after upload_file or serve_cgi has failed.
Run(c, x) ==
    UNION {Collect(z) : z \in UNION {IF y.k.first_time THEN Fork(c, y) ELSE {y} :
                                       y \in Prepare(x)}}
HandleCgi(c, x) ==
    IF x.k.first_time
    THEN UNION {IF y.served THEN {y} ELSE Run(c, y) : y \in Begin(x)}
    ELSE IF x.k.late THEN {TimeOut(c, x)} ELSE Run(c, x)

\* ~request: the name of the output is removed.
Unlink(x) ==
    IF x.k.out = None THEN x
    ELSE [x EXCEPT !.tmp[x.k.out] = NoFile,
                   !.kids = [p \in DOMAIN @ |->
                               IF @[p].out = x.k.out THEN [@[p] EXCEPT !.linked = FALSE]
                               ELSE @[p]]]

\* A client that is SERVED after handle_cgi is disconnected.
Settle(x) == IF x.served THEN [Unlink(x) EXCEPT !.k.state = "removed"] ELSE x

Become(c, x) ==
    /\ clients' = [clients EXCEPT ![c] = x.k]
    /\ kids' = x.kids /\ ex_childs' = x.ex /\ tmp' = x.tmp /\ raced' = x.raced

\* architect_response has found a script.
Request(c) ==
    /\ clients[c].state = "idle"
    /\ \E post, stale \in BOOLEAN, pid \in Pids \cup {None} :
         clients' = [clients EXCEPT ![c] = Fresh(post, stale, pid)]
    /\ UNCHANGED <<kids, ex_childs, tmp, raced>>

\* An event of a client that runs a script, and of any other client.
HandleClient(c) ==
    /\ clients[c].state = "SERVING_CGI"
    /\ \E x \in Reap(Context(c)) : \E y \in HandleCgi(c, x) : Become(c, Settle(y))
OtherEvent(c) ==
    /\ clients[c].state = "idle"
    /\ \E x \in Reap(Context(c)) : Become(c, x)

\* EV_EOF: remove_client. The script is not told.
Hangup(c) ==
    /\ clients[c].state = "SERVING_CGI"
    /\ Become(c, Settle([Context(c) EXCEPT !.served = TRUE]))

Expire(c) ==
    /\ clients[c].state = "SERVING_CGI" /\ ~clients[c].first_time
    /\ ~clients[c].late
    /\ clients' = [clients EXCEPT ![c].late = TRUE]
    /\ UNCHANGED <<kids, ex_childs, tmp, raced>>

Next ==
    \/ \E c \in Clients : \/ Request(c) \/ HandleClient(c) \/ OtherEvent(c)
                          \/ Hangup(c) \/ Expire(c)
    \/ \E p \in Pids : Open(p) \/ Write(p) \/ Exit(p)

Spec == Init /\ [][Next]_vars

\* A client in SERVING_CGI is polled for writability, and nothing is written
\* that could change it. No script need end, and no time-out need pass.
FairSpec == Spec /\ \A c \in Clients : WF_vars(HandleClient(c))
=============================================================================
