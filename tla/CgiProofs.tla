----------------------------- MODULE CgiProofs ------------------------------
(* Proofs of the safety of scripts, for any clients, pids and names.       *)
EXTENDS CgiProps, TLAPS

-----------------------------------------------------------------------------
(* The inductive invariant, over the parts of the state rather than the    *)
(* variables, so that it can be stated of a context as well: cl, ks, ex,   *)
(* tm, rc for clients, kids, ex_childs, tmp, raced.                        *)

Types(cl, ks, ex, tm, rc) ==
    /\ cl \in [Clients -> Client]
    /\ ks \in [Pids -> Kid]
    /\ ex \in [Pids -> Codes \cup {None}]
    /\ tm \in [Paths -> File]
    /\ rc \in BOOLEAN

\* A pid that was given out has a client and a name, and nothing is known of
\* the others. A child that has not opened its output has written nothing.
KidForm(k) ==
    /\ k.st = "unused" => k = Unused
    /\ k.st # "unused" => k.owner \in Clients /\ k.out \in Paths
    /\ k.st = "forked" => ~k.linked /\ ~k.wrote
    /\ k.st \in {"forked", "running", "signalled"} => k.code = None

\* ex_childs has the codes of children that were waited for.
ExForm(ks, ex) ==
    \A p \in Pids : ex[p] # None => ks[p].st = "reaped" /\ ks[p].code = ex[p]

\* What a client knows of its script: cgi_running is set with the name, and
\* only a client that is SERVED has been answered or has not got a child.
ClientForm(k, served) ==
    /\ k.state = "idle" => k.out = None /\ ~k.stale /\ k.code = 0
    /\ k.code # 0 => served
    /\ k.out # None => k.running
    /\ k.running => k.stale \/ k.out # None
    /\ k.out # None /\ k.pid = None => served

\* A client has started one script at most, and cgi_pid and cgi_out are those
\* of that script.
Owned(cl, ks) ==
    /\ \A p \in Pids : ks[p].owner # None =>
          cl[ks[p].owner].pid = p /\ cl[ks[p].owner].out = ks[p].out
    /\ \A c \in Clients : cl[c].out # None /\ cl[c].pid # None => ks[cl[c].pid].owner = c

Killed(cl, ks) ==
    \A p \in Pids : LET d == ks[p].killer
                    IN d = None \/ ks[p].owner = d \/ cl[d].stale

\* A code of 200 has been sent for an own child that was waited for.
Answered(cl, ks) ==
    \A c \in Clients : cl[c].code = 200 =>
        \E p \in Pids : ks[p].owner = c /\ ks[p].st = "reaped" /\ ks[p].code = "ok"

\* A child has its output open under a name only if there is such a file, and
\* a file that is not there has no contents.
FileForm(ks, tm) ==
    /\ \A p \in Pids : ks[p].linked => tm[ks[p].out].there
    /\ \A i \in Paths : ~tm[i].there => tm[i].by = {}

\* The client of a fork() that failed has a name that nobody uses.
Unforked(cl, tm) ==
    \A c \in Clients :
        cl[c].state = "SERVING_CGI" /\ cl[c].out # None /\ cl[c].pid = None
          => ~tm[cl[c].out].there

\* The name of a child's output is in use: it will be created, it is there,
\* or its client will look for it.
Holds(cl, k) ==
    k.st # "unused" /\ (k.st = "forked" \/ k.linked \/ cl[k.owner].state = "SERVING_CGI")

\* The script has opened its output, as one that ended with "ok" must have.
Opened(k) == k.st = "running" \/ k.code = "ok"

\* Unless a name was given out twice: no two children use the same one, the
\* file has what its child wrote, and a client finds the file of its child.
Apart(cl, ks, tm) ==
    /\ \A p, q \in Pids :
          Holds(cl, ks[p]) /\ Holds(cl, ks[q]) /\ ks[p].out = ks[q].out => p = q
    /\ \A p \in Pids : ks[p].st = "forked" => ~tm[ks[p].out].there
    /\ \A p \in Pids : ks[p].linked =>
          tm[ks[p].out].by = IF ks[p].wrote THEN {ks[p].owner} ELSE {}
    /\ \A p \in Pids : Opened(ks[p]) /\ cl[ks[p].owner].state = "SERVING_CGI" => ks[p].linked

Wrote(ks, c) == \E p \in Pids : ks[p].owner = c /\ ks[p].wrote

\* What may be sent to c: of its own script, and all of that if it is whole.
IsOwn(ks, c, sent) ==
    LET own == IF Wrote(ks, c) THEN {c} ELSE {}
    IN sent.by \subseteq own /\ (sent.whole => sent.by = own)

Own(cl, ks) == \A c \in Clients : cl[c].code = 200 => IsOwn(ks, c, cl[c].sent)

\* sv: clients that are SERVED and not removed yet, as within a call.
Inv(cl, ks, ex, tm, rc, sv) ==
    /\ Types(cl, ks, ex, tm, rc)
    /\ \A p \in Pids : KidForm(ks[p])
    /\ ExForm(ks, ex)
    /\ \A c \in Clients : ClientForm(cl[c], cl[c].state = "removed" \/ c \in sv)
    /\ Owned(cl, ks)
    /\ Killed(cl, ks)
    /\ Answered(cl, ks)
    /\ FileForm(ks, tm)
    /\ Unforked(cl, tm)
    /\ ~rc => Apart(cl, ks, tm) /\ Own(cl, ks)

IInv == Inv(clients, kids, ex_childs, tmp, raced, {})

-----------------------------------------------------------------------------
(* What each step of a call, and of a child, leaves of the invariant.      *)

LEMMA NoOutputType == NoOutput \in Output
  BY DEF NoOutput, Output

\* What the proofs need of a child: whether it has a client and a name.
KidFacts(k) ==
    /\ k.owner \in Clients \cup {None} /\ k.killer \in Clients \cup {None}
    /\ k.st # "unused" => k.owner \in Clients /\ k.out \in Paths
    /\ k.st = "unused" => /\ k.owner = None /\ k.out = None /\ k.code = None
                          /\ ~k.linked /\ ~k.wrote
    /\ k.linked \/ Opened(k) => k.st \notin {"unused", "forked"}

LEMMA KidIsKnown ==
    ASSUME NEW k \in Kid, KidForm(k)
    PROVE  KidFacts(k)
  <1>1. k.st = "unused" => /\ k.owner = None /\ k.out = None /\ k.code = None
                           /\ ~k.linked /\ ~k.wrote
    BY DEF KidForm, Unused
  <1>2. k.st # "unused" => k.owner \in Clients /\ k.out \in Paths
    BY DEF KidForm
  <1>3. k.linked \/ Opened(k) => k.st \notin {"unused", "forked"}
    BY <1>1, CgiAssumption DEF KidForm, Opened, Codes
  <1> QED
    BY <1>1, <1>2, <1>3 DEF KidFacts, Kid

\* waitpid() keeps it: a zombie has no entry yet.
LEMMA ReapInv ==
    ASSUME NEW cl, NEW ks, NEW ex, NEW tm, NEW rc, NEW sv,
           Inv(cl, ks, ex, tm, rc, sv),
           NEW p \in Pids, ks[p].st \in {"exited", "signalled"}
    PROVE  Inv(cl, [ks EXCEPT ![p].st = "reaped"],
               [ex EXCEPT ![p] = IF @ # None THEN @ ELSE ks[p].code], tm, rc, sv)
  <1> DEFINE ks2 == [ks EXCEPT ![p].st = "reaped"]
             ex2 == [ex EXCEPT ![p] = IF @ # None THEN @ ELSE ks[p].code]
  <1>1. Types(cl, ks, ex, tm, rc) /\ KidForm(ks[p]) /\ ExForm(ks, ex)
    BY DEF Inv
  <1>2. /\ ks2 \in [Pids -> Kid] /\ ks2[p] = [ks[p] EXCEPT !.st = "reaped"]
        /\ \A q \in Pids : q # p => ks2[q] = ks[q]
    BY <1>1 DEF Types, Kid
  <1>3. /\ ex2 \in [Pids -> Codes \cup {None}] /\ ex2[p] = ks[p].code
        /\ \A q \in Pids : q # p => ex2[q] = ex[q]
    BY <1>1 DEF Types, Kid, ExForm
  <1>4. ks2[p].st = "reaped" /\ ks[p].st \notin {"unused", "forked", "running", "reaped"}
    BY <1>1, <1>2 DEF Types, Kid
  <1> HIDE DEF ks2, ex2
  <1>5. \A q \in Pids : /\ ks2[q].owner = ks[q].owner /\ ks2[q].out = ks[q].out
                        /\ ks2[q].linked = ks[q].linked /\ ks2[q].wrote = ks[q].wrote
                        /\ ks2[q].code = ks[q].code /\ ks2[q].killer = ks[q].killer
    BY <1>1, <1>2 DEF Types, Kid
  <1>6. \A q \in Pids : (ks2[q].st = ks[q].st /\ ex2[q] = ex[q]) \/ q = p
    BY <1>2, <1>3
  <1>7. Types(cl, ks2, ex2, tm, rc)
    BY <1>1, <1>2, <1>3 DEF Types
  <1>8. \A q \in Pids : KidForm(ks2[q])
    <2>1. KidForm(ks2[p])
      BY <1>1, <1>4, <1>5 DEF KidForm
    <2> QED
      BY <1>2, <2>1 DEF Inv
  <1>9. ExForm(ks2, ex2)
    BY <1>1, <1>3, <1>4, <1>5, <1>6 DEF ExForm
  <1>10. Owned(cl, ks2)
    BY <1>1, <1>5, <1>6 DEF Inv, Owned, Types, Client
  <1>11. Killed(cl, ks2)
    BY <1>5 DEF Inv, Killed
  <1>12. Answered(cl, ks2)
    BY <1>4, <1>5, <1>6 DEF Inv, Answered
  <1>13. FileForm(ks2, tm)
    BY <1>5 DEF Inv, FileForm
  <1>14. ASSUME ~rc
         PROVE  Apart(cl, ks2, tm)
    <2>1. Apart(cl, ks, tm)
      BY <1>14 DEF Inv
    <2>2. \A q \in Pids : /\ Holds(cl, ks2[q]) => Holds(cl, ks[q])
                          /\ Opened(ks2[q]) => Opened(ks[q])
                          /\ ks2[q].st = "forked" => ks[q].st = "forked"
      BY <1>4, <1>5, <1>6 DEF Holds, Opened
    <2> QED
      BY <1>5, <2>1, <2>2 DEF Apart
  <1>15. ASSUME ~rc
         PROVE  Own(cl, ks2)
    <2>1. \A c \in Clients : Wrote(ks2, c) <=> Wrote(ks, c)
      BY <1>5 DEF Wrote
    <2> QED
      BY <1>15, <2>1 DEF Inv, Own, IsOwn
  <1> QED
    BY <1>7, <1>8, <1>9, <1>10, <1>11, <1>12, <1>13, <1>14, <1>15 DEF Inv, ks2, ex2

\* A child ends, by itself or killed, having opened its output or not.
LEMMA EndInv ==
    ASSUME NEW cl, NEW ks, NEW ex, NEW tm, NEW rc, NEW sv,
           Inv(cl, ks, ex, tm, rc, sv),
           NEW p \in Pids, ks[p].st \in {"forked", "running"},
           NEW k \in Kid, k.st \in {"exited", "signalled"},
           k.owner = ks[p].owner, k.out = ks[p].out,
           k.linked = ks[p].linked, k.wrote = ks[p].wrote,
           k.st = "signalled" => k.code = None,
           k.code = "ok" => ks[p].st = "running",
           \/ k.killer \in {None, k.owner, ks[p].killer}
           \/ cl[k.killer].stale
    PROVE  Inv(cl, [ks EXCEPT ![p] = k], ex, tm, rc, sv)
  <1> DEFINE ks2 == [ks EXCEPT ![p] = k]
  <1>1. Types(cl, ks, ex, tm, rc) /\ KidForm(ks[p]) /\ ExForm(ks, ex)
    BY DEF Inv
  <1>2. ks2 \in [Pids -> Kid] /\ ks2[p] = k
    BY <1>1 DEF Types
  <1>3. \A q \in Pids : ks2[q] = ks[q] \/ q = p
    BY <1>1 DEF Types
  <1> HIDE DEF ks2
  <1>4. /\ ks2[p].st \notin {"unused", "forked", "running", "reaped"}
        /\ ks[p].st \notin {"unused", "reaped"} /\ ex[p] = None
    BY <1>1, <1>2 DEF ExForm
  <1>5. \A q \in Pids : /\ ks2[q].owner = ks[q].owner /\ ks2[q].out = ks[q].out
                        /\ ks2[q].linked = ks[q].linked /\ ks2[q].wrote = ks[q].wrote
    BY <1>2, <1>3
  <1>6. Types(cl, ks2, ex, tm, rc)
    BY <1>1, <1>2 DEF Types
  <1>7. \A q \in Pids : KidForm(ks2[q])
    <2>1. KidForm(k)
      BY <1>1, <1>2, <1>4 DEF KidForm
    <2> QED
      BY <1>2, <1>3, <2>1 DEF Inv
  <1>8. ExForm(ks2, ex)
    BY <1>1, <1>3, <1>4 DEF ExForm
  <1>9. Owned(cl, ks2)
    BY <1>1, <1>5 DEF Inv, Owned, Types, Client
  <1>10. Killed(cl, ks2)
    BY <1>2, <1>3 DEF Inv, Killed
  <1>11. Answered(cl, ks2)
    BY <1>3, <1>4 DEF Inv, Answered
  <1>12. FileForm(ks2, tm)
    BY <1>5 DEF Inv, FileForm
  <1>13. ASSUME ~rc
         PROVE  Apart(cl, ks2, tm)
    <2>1. Apart(cl, ks, tm)
      BY <1>13 DEF Inv
    <2>2. \A q \in Pids : /\ Holds(cl, ks2[q]) => Holds(cl, ks[q])
                          /\ Opened(ks2[q]) => Opened(ks[q])
                          /\ ks2[q].st = "forked" => ks[q].st = "forked"
      BY <1>2, <1>3, <1>4, <1>5 DEF Holds, Opened
    <2> QED
      BY <1>5, <2>1, <2>2 DEF Apart
  <1>14. ASSUME ~rc
         PROVE  Own(cl, ks2)
    <2>1. \A c \in Clients : Wrote(ks2, c) <=> Wrote(ks, c)
      BY <1>5 DEF Wrote
    <2> QED
      BY <1>14, <2>1 DEF Inv, Own, IsOwn
  <1> QED
    BY <1>6, <1>7, <1>8, <1>9, <1>10, <1>11, <1>12, <1>13, <1>14 DEF Inv, ks2

\* A client is where it was and knows what it knew of its script.
Alike(k, l) == k.state = l.state /\ k.pid = l.pid /\ k.out = l.out /\ k.stale = l.stale

\* The client may be sent this output with a code of 200.
MaySend(ks, rc, c, sent) ==
    /\ \E p \in Pids : ks[p].owner = c /\ ks[p].st = "reaped" /\ ks[p].code = "ok"
    /\ ~rc => IsOwn(ks, c, sent)

\* A client that runs a script changes in what is no script's concern, or is
\* answered.
LEMMA ClientInv ==
    ASSUME NEW cl, NEW ks, NEW ex, NEW tm, NEW rc, NEW sv, NEW sv2,
           Inv(cl, ks, ex, tm, rc, sv), sv \subseteq sv2,
           NEW c \in Clients, NEW k \in Client,
           Alike(k, cl[c]), ClientForm(k, k.state = "removed" \/ c \in sv2),
           k.code = 200 => MaySend(ks, rc, c, k.sent)
    PROVE  Inv([cl EXCEPT ![c] = k], ks, ex, tm, rc, sv2)
  <1> DEFINE cl2 == [cl EXCEPT ![c] = k]
  <1>1. Types(cl, ks, ex, tm, rc)
    BY DEF Inv
  <1>2. cl2 \in [Clients -> Client] /\ cl2[c] = k
    BY <1>1 DEF Types
  <1>3. \A d \in Clients : cl2[d] = cl[d] \/ d = c
    BY <1>1 DEF Types
  <1> HIDE DEF cl2
  <1>4. \A d \in Clients : /\ cl2[d].state = cl[d].state /\ cl2[d].pid = cl[d].pid
                           /\ cl2[d].out = cl[d].out /\ cl2[d].stale = cl[d].stale
    BY <1>2, <1>3 DEF Alike
  <1>5. \A p \in Pids : KidFacts(ks[p])
    BY <1>1, KidIsKnown DEF Inv, Types
  <1>6. Types(cl2, ks, ex, tm, rc)
    BY <1>1, <1>2 DEF Types
  <1>7. \A d \in Clients : ClientForm(cl2[d], cl2[d].state = "removed" \/ d \in sv2)
    <2> TAKE d \in Clients
    <2>1. CASE d = c
      BY <1>2, <2>1
    <2>2. CASE d # c
      BY <1>3, <2>2 DEF Inv, ClientForm
    <2> QED
      BY <2>1, <2>2
  <1>8. Owned(cl2, ks)
    BY <1>4, <1>5 DEF Inv, Owned, KidFacts
  <1>9. Killed(cl2, ks)
    BY <1>4, <1>5 DEF Inv, Killed, KidFacts
  <1>10. Answered(cl2, ks)
    BY <1>2, <1>3 DEF Inv, Answered, MaySend
  <1>13. Unforked(cl2, tm)
    BY <1>4 DEF Inv, Unforked
  <1>11. ASSUME ~rc
         PROVE  Apart(cl2, ks, tm)
    <2>1. Apart(cl, ks, tm)
      BY <1>11 DEF Inv
    <2>2. \A q \in Pids : /\ Holds(cl2, ks[q]) => Holds(cl, ks[q])
                          /\ ks[q].st # "unused" =>
                               cl2[ks[q].owner].state = cl[ks[q].owner].state
      BY <1>4, <1>5 DEF Holds, KidFacts
    <2> QED
      BY <1>5, <2>1, <2>2 DEF Apart, KidFacts
  <1>12. ASSUME ~rc
         PROVE  Own(cl2, ks)
    <2>1. Own(cl, ks)
      BY <1>12 DEF Inv
    <2>2. ASSUME NEW d \in Clients, cl2[d].code = 200
          PROVE  IsOwn(ks, d, cl2[d].sent)
      <3>1. CASE d = c
        BY <1>2, <1>12, <2>2, <3>1 DEF MaySend
      <3>2. CASE d # c
        BY <1>3, <2>1, <2>2, <3>2 DEF Own
      <3> QED
        BY <3>1, <3>2
    <2> QED
      BY <2>2 DEF Own
  <1> QED
    BY <1>6, <1>7, <1>8, <1>9, <1>10, <1>11, <1>12, <1>13 DEF Inv, cl2

\* An exit code that was read is taken out of the map.
LEMMA EraseInv ==
    ASSUME NEW cl, NEW ks, NEW ex, NEW tm, NEW rc, NEW sv,
           Inv(cl, ks, ex, tm, rc, sv), NEW p \in Pids
    PROVE  Inv(cl, ks, [ex EXCEPT ![p] = None], tm, rc, sv)
  <1>1. Types(cl, ks, ex, tm, rc) /\ ExForm(ks, ex)
    BY DEF Inv
  <1>2. Types(cl, ks, [ex EXCEPT ![p] = None], tm, rc)
    BY <1>1 DEF Types
  <1>3. ExForm(ks, [ex EXCEPT ![p] = None])
    BY <1>1 DEF Types, ExForm
  <1> QED
    BY <1>2, <1>3 DEF Inv

\* No child will create the name o, and no client will look for it.
NotUsed(cl, ks, o) ==
    \A q \in Pids : ks[q].out = o =>
        ks[q].st # "forked" /\ cl[ks[q].owner].state # "SERVING_CGI"

\* The client is where it was, with a name and a pid for its script.
HasName(k, l, o, p) ==
    /\ k.state = l.state /\ k.stale = l.stale /\ k.running = TRUE
    /\ k.out = o /\ k.pid = p

\* The child of c that is to create o.
Child(c, o) == [Unused EXCEPT !.st = "forked", !.owner = c, !.out = o]

\* fork(): a client that had no script has one, and a name that no file has.
LEMMA ForkInv ==
    ASSUME NEW cl, NEW ks, NEW ex, NEW tm, NEW rc, NEW rc2 \in BOOLEAN, NEW sv,
           Inv(cl, ks, ex, tm, rc, sv),
           NEW c \in Clients, cl[c].state = "SERVING_CGI", cl[c].out = None,
           NEW o \in Paths, ~tm[o].there,
           NEW p \in Pids, ks[p].st = "unused",
           NEW k \in Client, HasName(k, cl[c], o, p), k.code = 0,
           ~rc2 => ~rc /\ NotUsed(cl, ks, o)
    PROVE  Inv([cl EXCEPT ![c] = k],
               [ks EXCEPT ![p] = Child(c, o)], ex, tm, rc2, sv)
  <1>0. /\ k.state = cl[c].state /\ k.stale = cl[c].stale /\ k.running
        /\ k.out = o /\ k.pid = p
    BY DEF HasName
  <1> DEFINE kid == Child(c, o)
             cl2 == [cl EXCEPT ![c] = k]
             ks2 == [ks EXCEPT ![p] = kid]
  <1>1. Types(cl, ks, ex, tm, rc)
    BY DEF Inv
  <1>2. /\ kid \in Kid /\ kid.st = "forked" /\ kid.owner = c /\ kid.out = o
        /\ ~kid.linked /\ ~kid.wrote /\ kid.code = None /\ kid.killer = None
    BY DEF Unused, Kid, Child
  <1> HIDE DEF kid
  <1>3. /\ cl2 \in [Clients -> Client] /\ cl2[c] = k
        /\ ks2 \in [Pids -> Kid] /\ ks2[p] = kid
    BY <1>1, <1>2 DEF Types
  <1>4. /\ \A d \in Clients : cl2[d] = cl[d] \/ d = c
        /\ \A q \in Pids : ks2[q] = ks[q] \/ q = p
    BY <1>1 DEF Types
  <1> HIDE DEF cl2, ks2
  <1>5. \A q \in Pids : KidFacts(ks[q])
    BY <1>1, KidIsKnown DEF Inv, Types
  <1>6. \A q \in Pids : ks[q].owner # c
    BY <1>5, CgiAssumption DEF Inv, Owned, KidFacts
  <1>7. \A d \in Clients : cl2[d].state = cl[d].state /\ cl2[d].stale = cl[d].stale
    BY <1>0, <1>3, <1>4
  <1>8. Types(cl2, ks2, ex, tm, rc2)
    BY <1>1, <1>3 DEF Types
  <1>9. \A q \in Pids : KidForm(ks2[q])
    BY <1>2, <1>3, <1>4 DEF Inv, KidForm
  <1>10. ExForm(ks2, ex)
    BY <1>4 DEF Inv, ExForm
  <1>11. \A d \in Clients : ClientForm(cl2[d], cl2[d].state = "removed" \/ d \in sv)
    <2>1. ClientForm(k, k.state = "removed" \/ c \in sv)
      BY <1>0, CgiAssumption DEF ClientForm
    <2> QED
      BY <1>3, <1>4, <2>1 DEF Inv
  <1>12. Owned(cl2, ks2)
    <2>1. ASSUME NEW q \in Pids, ks2[q].owner # None
          PROVE  cl2[ks2[q].owner].pid = q /\ cl2[ks2[q].owner].out = ks2[q].out
      <3>1. CASE q = p
        BY <1>0, <1>2, <1>3, <3>1
      <3>2. CASE q # p
        <4>1. ks2[q] = ks[q] /\ cl2[ks[q].owner] = cl[ks[q].owner]
          BY <1>4, <1>5, <1>6, <2>1, <3>2 DEF KidFacts
        <4> QED
          BY <2>1, <4>1 DEF Inv, Owned
      <3> QED
        BY <3>1, <3>2
    <2>2. ASSUME NEW d \in Clients, cl2[d].out # None, cl2[d].pid # None
          PROVE  ks2[cl2[d].pid].owner = d
      <3>1. CASE d = c
        BY <1>0, <1>2, <1>3, <3>1
      <3>2. CASE d # c
        <4>1. cl2[d] = cl[d] /\ cl[d].pid \in Pids /\ ks[cl[d].pid].owner = d
          BY <1>1, <1>4, <2>2, <3>2 DEF Inv, Owned, Types, Client
        <4>2. cl[d].pid # p
          BY <1>5, <4>1, CgiAssumption DEF KidFacts
        <4> QED
          BY <1>4, <4>1, <4>2
      <3> QED
        BY <3>1, <3>2
    <2> QED
      BY <2>1, <2>2 DEF Owned
  <1>13. Killed(cl2, ks2)
    <2>1. ASSUME NEW q \in Pids, ks2[q].killer # None, ks2[q].owner # ks2[q].killer
          PROVE  cl2[ks2[q].killer].stale
      <3>1. ks2[q] = ks[q]
        BY <1>2, <1>3, <1>4, <2>1
      <3>2. cl[ks[q].killer].stale /\ ks[q].killer \in Clients
        BY <1>5, <2>1, <3>1 DEF Inv, Killed, KidFacts
      <3> QED
        BY <1>7, <3>1, <3>2
    <2> QED
      BY <2>1 DEF Killed
  <1>14. Answered(cl2, ks2)
    BY <1>3, <1>4 DEF Inv, Answered
  <1>15. FileForm(ks2, tm)
    BY <1>2, <1>3, <1>4 DEF Inv, FileForm
  <1>16. Unforked(cl2, tm)
    BY <1>0, <1>3, <1>4, CgiAssumption DEF Inv, Unforked
  <1>17. ASSUME ~rc2
         PROVE  Apart(cl2, ks2, tm)
    <2>1. Apart(cl, ks, tm)
      BY <1>17 DEF Inv
    <2>2. \A q \in Pids : q # p => /\ ks2[q] = ks[q]
                                   /\ Holds(cl2, ks[q]) => Holds(cl, ks[q])
                                   /\ ks[q].st # "unused" =>
                                        cl2[ks[q].owner].state = cl[ks[q].owner].state
      BY <1>4, <1>5, <1>7 DEF Holds, KidFacts
    <2>3. \A q \in Pids : q # p /\ Holds(cl, ks[q]) => ks[q].out # o
      BY <1>17 DEF Inv, FileForm, Holds, NotUsed
    <2>4. \A q \in Pids : q # p /\ Holds(cl2, ks2[q]) => ks2[q].out # o
      BY <2>2, <2>3
    <2>5. /\ ks2[p].out = o /\ ~ks2[p].linked /\ ks2[p].st = "forked" /\ ~Opened(ks2[p])
      BY <1>2, <1>3, CgiAssumption DEF Opened, Codes
    <2>6. \A q, r \in Pids :
             Holds(cl2, ks2[q]) /\ Holds(cl2, ks2[r]) /\ ks2[q].out = ks2[r].out => q = r
      BY <2>1, <2>2, <2>4, <2>5 DEF Apart
    <2>7. \A q \in Pids : ks2[q].st = "forked" => ~tm[ks2[q].out].there
      BY <2>1, <2>2, <2>5 DEF Apart
    <2>8. \A q \in Pids : ks2[q].linked =>
             tm[ks2[q].out].by = IF ks2[q].wrote THEN {ks2[q].owner} ELSE {}
      BY <2>1, <2>2, <2>5 DEF Apart
    <2>9. \A q \in Pids :
             Opened(ks2[q]) /\ cl2[ks2[q].owner].state = "SERVING_CGI" => ks2[q].linked
      BY <1>5, <2>1, <2>2, <2>5 DEF Apart, KidFacts
    <2> QED
      BY <2>6, <2>7, <2>8, <2>9 DEF Apart
  <1>18. ASSUME ~rc2
         PROVE  Own(cl2, ks2)
    <2>1. \A d \in Clients : cl2[d].code = 200 => cl2[d] = cl[d]
      BY <1>3, <1>4
    <2>2. \A d \in Clients : Wrote(ks2, d) <=> Wrote(ks, d)
      BY <1>2, <1>3, <1>4, <1>5 DEF Wrote, KidFacts
    <2> QED
      BY <1>18, <2>1, <2>2 DEF Inv, Own, IsOwn
  <1> QED
    BY <1>8, <1>9, <1>10, <1>11, <1>12, <1>13, <1>14, <1>15, <1>16, <1>17, <1>18
       DEF Inv, cl2, ks2, kid

\* fork() fails: the client has a name and no script, and is SERVED.
LEMMA NoForkInv ==
    ASSUME NEW cl, NEW ks, NEW ex, NEW tm, NEW rc, NEW sv, NEW sv2,
           Inv(cl, ks, ex, tm, rc, sv), sv \subseteq sv2,
           NEW c \in Clients, c \in sv2, cl[c].out = None, cl[c].state = "SERVING_CGI",
           NEW o \in Paths, ~tm[o].there,
           NEW k \in Client, HasName(k, cl[c], o, None), k.code = 500
    PROVE  Inv([cl EXCEPT ![c] = k], ks, ex, tm, rc, sv2)
  <1>0. /\ k.state = cl[c].state /\ k.stale = cl[c].stale /\ k.running
        /\ k.out = o /\ k.pid = None
    BY DEF HasName
  <1> DEFINE cl2 == [cl EXCEPT ![c] = k]
  <1>1. Types(cl, ks, ex, tm, rc)
    BY DEF Inv
  <1>2. cl2 \in [Clients -> Client] /\ cl2[c] = k
    BY <1>1 DEF Types
  <1>3. \A d \in Clients : cl2[d] = cl[d] \/ d = c
    BY <1>1 DEF Types
  <1> HIDE DEF cl2
  <1>4. \A p \in Pids : KidFacts(ks[p])
    BY <1>1, KidIsKnown DEF Inv, Types
  <1>5. \A q \in Pids : ks[q].owner # c
    BY <1>4, CgiAssumption DEF Inv, Owned, KidFacts
  <1>6. \A d \in Clients : cl2[d].state = cl[d].state /\ cl2[d].stale = cl[d].stale
    BY <1>0, <1>2, <1>3
  <1>7. Types(cl2, ks, ex, tm, rc)
    BY <1>1, <1>2 DEF Types
  <1>8. \A d \in Clients : ClientForm(cl2[d], cl2[d].state = "removed" \/ d \in sv2)
    <2>1. ClientForm(k, k.state = "removed" \/ c \in sv2)
      BY <1>0, CgiAssumption DEF ClientForm
    <2>2. ASSUME NEW d \in Clients, d # c
          PROVE  ClientForm(cl2[d], cl2[d].state = "removed" \/ d \in sv2)
      BY <1>3, <2>2 DEF Inv, ClientForm
    <2> QED
      BY <1>2, <2>1, <2>2
  <1>9. Owned(cl2, ks)
    <2>1. \A p \in Pids : ks[p].owner # None => cl2[ks[p].owner] = cl[ks[p].owner]
      BY <1>3, <1>4, <1>5 DEF KidFacts
    <2>2. \A d \in Clients : cl2[d].out # None /\ cl2[d].pid # None => cl2[d] = cl[d]
      BY <1>0, <1>2, <1>3
    <2> QED
      BY <2>1, <2>2 DEF Inv, Owned
  <1>10. Killed(cl2, ks)
    BY <1>4, <1>6 DEF Inv, Killed, KidFacts
  <1>11. Answered(cl2, ks)
    BY <1>2, <1>3 DEF Inv, Answered
  <1>12. Unforked(cl2, tm)
    BY <1>0, <1>2, <1>3 DEF Inv, Unforked
  <1>13. ASSUME ~rc
         PROVE  Apart(cl2, ks, tm)
    <2>1. Apart(cl, ks, tm)
      BY <1>13 DEF Inv
    <2>2. \A q \in Pids : /\ Holds(cl2, ks[q]) => Holds(cl, ks[q])
                          /\ ks[q].st # "unused" =>
                               cl2[ks[q].owner].state = cl[ks[q].owner].state
      BY <1>4, <1>6 DEF Holds, KidFacts
    <2> QED
      BY <1>4, <2>1, <2>2 DEF Apart, KidFacts
  <1>14. ASSUME ~rc
         PROVE  Own(cl2, ks)
    <2>1. \A d \in Clients : cl2[d].code = 200 => cl2[d] = cl[d]
      BY <1>2, <1>3
    <2> QED
      BY <1>14, <2>1 DEF Inv, Own, IsOwn
  <1> QED
    BY <1>7, <1>8, <1>9, <1>10, <1>11, <1>12, <1>13, <1>14 DEF Inv, cl2

\* The name o is removed: a child that has it open writes to nothing.
Unlinked(ks, tm, o, ks2, tm2) ==
    /\ \A q \in Pids : /\ ks2[q].st = ks[q].st /\ ks2[q].owner = ks[q].owner
                       /\ ks2[q].out = ks[q].out /\ ks2[q].wrote = ks[q].wrote
                       /\ ks2[q].code = ks[q].code /\ ks2[q].killer = ks[q].killer
                       /\ ks2[q].linked <=> ks[q].linked /\ ks[q].out # o
    /\ \A i \in Paths : tm2[i] = IF i = o THEN NoFile ELSE tm[i]

\* ~request: the client goes, and with it the name of its output.
LEMMA RemoveInv ==
    ASSUME NEW cl, NEW ks, NEW ex, NEW tm, NEW rc,
           NEW c \in Clients, cl[c].state = "SERVING_CGI",
           Inv(cl, ks, ex, tm, rc, {c}),
           NEW ks2 \in [Pids -> Kid], NEW tm2 \in [Paths -> File],
           Unlinked(ks, tm, cl[c].out, ks2, tm2)
    PROVE  Inv([cl EXCEPT ![c].state = "removed"], ks2, ex, tm2, rc, {})
  <1> USE DEF Unlinked
  <1> DEFINE k   == [cl[c] EXCEPT !.state = "removed"]
             cl2 == [cl EXCEPT ![c].state = "removed"]
             o   == cl[c].out
  <1>1. Types(cl, ks, ex, tm, rc)
    BY DEF Inv
  <1>2. /\ k \in Client /\ k.state = "removed" /\ k.pid = cl[c].pid /\ k.out = cl[c].out
        /\ k.stale = cl[c].stale /\ k.running = cl[c].running
        /\ k.code = cl[c].code /\ k.sent = cl[c].sent
    BY <1>1 DEF Types, Client
  <1>3. cl2 \in [Clients -> Client] /\ cl2[c] = k
    BY <1>1, <1>2 DEF Types
  <1>4. \A d \in Clients : cl2[d] = cl[d] \/ d = c
    BY <1>1 DEF Types
  <1> HIDE DEF k, cl2
  <1>5. \A d \in Clients : /\ cl2[d].pid = cl[d].pid /\ cl2[d].out = cl[d].out
                           /\ cl2[d].stale = cl[d].stale /\ cl2[d].code = cl[d].code
                           /\ cl2[d].sent = cl[d].sent
                           /\ cl2[d].state = "SERVING_CGI" =>
                                cl[d].state = "SERVING_CGI" /\ d # c
    BY <1>2, <1>3, <1>4
  <1>6. \A q \in Pids : KidFacts(ks[q])
    BY <1>1, KidIsKnown DEF Inv, Types
  <1>7. Types(cl2, ks2, ex, tm2, rc)
    BY <1>1, <1>3 DEF Types
  <1>8. \A q \in Pids : KidForm(ks2[q])
    <2>1. ASSUME NEW q \in Pids, ks[q].st = "unused"
          PROVE  ks2[q] = Unused
      <3>1. ks[q] = Unused /\ ks2[q] \in Kid
        BY <2>1 DEF Inv, KidForm
      <3> QED
        BY <2>1, <3>1 DEF Unused, Kid
    <2>2. ASSUME NEW q \in Pids
          PROVE  KidForm(ks2[q])
      BY <2>1 DEF Inv, KidForm
    <2> QED
      BY <2>2
  <1>9. ExForm(ks2, ex)
    BY DEF Inv, ExForm
  <1>10. \A d \in Clients : ClientForm(cl2[d], cl2[d].state = "removed" \/ d \in {})
    <2>1. ClientForm(k, TRUE)
      BY <1>2 DEF Inv, ClientForm
    <2>2. ASSUME NEW d \in Clients, d # c
          PROVE  ClientForm(cl2[d], cl2[d].state = "removed")
      BY <1>4, <2>2 DEF Inv, ClientForm
    <2> QED
      BY <1>2, <1>3, <2>1, <2>2
  <1>11. Owned(cl2, ks2)
    <2>1. \A q \in Pids : ks[q].owner \in Clients \cup {None}
      BY <1>6 DEF KidFacts
    <2>2. \A d \in Clients : cl[d].pid \in Pids \cup {None}
      BY <1>1 DEF Types, Client
    <2> QED
      BY <1>5, <2>1, <2>2 DEF Inv, Owned
  <1>12. Killed(cl2, ks2)
    BY <1>5, <1>6 DEF Inv, Killed, KidFacts
  <1>13. Answered(cl2, ks2)
    BY <1>5 DEF Inv, Answered
  <1>14. FileForm(ks2, tm2)
    <2>1. \A q \in Pids : ks2[q].linked => tm2[ks2[q].out].there
      BY <1>6 DEF Inv, FileForm, KidFacts
    <2>2. \A i \in Paths : ~tm2[i].there => tm2[i].by = {}
      BY DEF Inv, FileForm, NoFile
    <2> QED
      BY <2>1, <2>2 DEF FileForm
  <1>15. Unforked(cl2, tm2)
    <2>1. \A d \in Clients : cl[d].out \in Paths \cup {None}
      BY <1>1 DEF Types, Client
    <2> QED
      BY <1>5, <2>1 DEF Inv, Unforked, NoFile
  <1>16. ASSUME ~rc
         PROVE  Apart(cl2, ks2, tm2)
    <2>1. Apart(cl, ks, tm)
      BY <1>16 DEF Inv
    <2>2. \A q \in Pids : Holds(cl2, ks2[q]) => Holds(cl, ks[q])
      BY <1>5, <1>6 DEF Holds, KidFacts
    <2>3. \A q, r \in Pids :
             Holds(cl2, ks2[q]) /\ Holds(cl2, ks2[r]) /\ ks2[q].out = ks2[r].out => q = r
      BY <2>1, <2>2 DEF Apart
    <2>4. \A q \in Pids : ks2[q].st = "forked" => ~tm2[ks2[q].out].there
      BY <1>6, <2>1 DEF Apart, KidFacts, NoFile
    <2>5. \A q \in Pids : ks2[q].linked =>
             tm2[ks2[q].out].by = IF ks2[q].wrote THEN {ks2[q].owner} ELSE {}
      <3>1. \A q \in Pids : ks2[q].linked => ks[q].linked /\ tm2[ks2[q].out] = tm[ks[q].out]
        BY <1>6 DEF KidFacts
      <3> QED
        BY <2>1, <3>1, ZenonT(40) DEF Apart
    <2>6. ASSUME NEW q \in Pids, Opened(ks2[q]), cl2[ks2[q].owner].state = "SERVING_CGI"
          PROVE  ks2[q].linked
      <3>1. /\ Opened(ks[q]) /\ ks[q].st # "unused" /\ ks[q].owner \in Clients
            /\ ks[q].out \in Paths
        BY <1>6, <2>6 DEF Opened, KidFacts
      <3>2. ks[q].owner # c /\ cl[ks[q].owner].state = "SERVING_CGI"
        BY <1>5, <2>6, <3>1
      <3>3. ks[q].linked /\ tm[ks[q].out].there /\ Holds(cl, ks[q])
        BY <2>1, <3>1, <3>2 DEF Apart, Holds, Inv, FileForm
      <3>4. ASSUME ks[q].out = cl[c].out
            PROVE  FALSE
        <4>1. cl[c].pid # None
          BY <3>1, <3>3, <3>4, CgiAssumption DEF Inv, Unforked
        <4>2. cl[c].pid \in Pids /\ ks[cl[c].pid].owner = c
          BY <1>1, <3>1, <3>4, <4>1, CgiAssumption DEF Inv, Owned, Types, Client
        <4>3. ks[cl[c].pid].out = cl[c].out /\ ks[cl[c].pid].st # "unused"
          BY <1>6, <4>2, CgiAssumption DEF Inv, Owned, KidFacts
        <4>4. Holds(cl, ks[cl[c].pid])
          BY <4>2, <4>3 DEF Holds
        <4> QED
          BY <2>1, <3>2, <3>3, <3>4, <4>2, <4>3, <4>4 DEF Apart
      <3> QED
        BY <3>3, <3>4
    <2> QED
      BY <2>3, <2>4, <2>5, <2>6 DEF Apart
  <1>17. ASSUME ~rc
         PROVE  Own(cl2, ks2)
    <2>1. \A d \in Clients : Wrote(ks2, d) <=> Wrote(ks, d)
      BY DEF Wrote
    <2>2. Own(cl, ks)
      BY <1>17 DEF Inv
    <2>3. ASSUME NEW d \in Clients, cl2[d].code = 200
          PROVE  IsOwn(ks2, d, cl2[d].sent)
      <3>1. cl[d].code = 200 /\ cl2[d].sent = cl[d].sent
        BY <1>5, <2>3
      <3>2. IsOwn(ks, d, cl[d].sent)
        BY <2>2, <3>1, Zenon DEF Own
      <3> QED
        BY <2>1, <3>1, <3>2 DEF IsOwn
    <2> QED
      BY <2>3 DEF Own
  <1> QED
    BY <1>7, <1>8, <1>9, <1>10, <1>11, <1>12, <1>13, <1>14, <1>15, <1>16, <1>17
       DEF Inv, cl2

\* The child opens its output, and creates it.
LEMMA OpenInv ==
    ASSUME NEW cl, NEW ks, NEW ex, NEW tm, NEW rc,
           Inv(cl, ks, ex, tm, rc, {}),
           NEW p \in Pids, ks[p].st = "forked",
           NEW k \in Kid, k.st = "running", k.linked, k.owner = ks[p].owner,
           k.out = ks[p].out, k.wrote = ks[p].wrote, k.code = ks[p].code,
           k.killer = ks[p].killer
    PROVE  Inv(cl, [ks EXCEPT ![p] = k], ex, [tm EXCEPT ![ks[p].out].there = TRUE], rc, {})
  <1> DEFINE ks2 == [ks EXCEPT ![p] = k]
             o   == ks[p].out
             tm2 == [tm EXCEPT ![o].there = TRUE]
  <1>1. Types(cl, ks, ex, tm, rc)
    BY DEF Inv
  <1>2. \A q \in Pids : KidFacts(ks[q])
    BY <1>1, KidIsKnown DEF Inv, Types
  <1>3. /\ ks2 \in [Pids -> Kid] /\ ks2[p] = k
        /\ \A q \in Pids : ks2[q] = ks[q] \/ q = p
    BY <1>1 DEF Types
  <1>4. o \in Paths /\ ~k.wrote /\ k.code = None
    BY <1>2 DEF Inv, KidForm, KidFacts
  <1> HIDE DEF o
  <1>5. /\ tm2 \in [Paths -> File] /\ tm2[o].there
        /\ \A i \in Paths : tm2[i].by = tm[i].by /\ (tm2[i].there = tm[i].there \/ i = o)
    BY <1>1, <1>4 DEF Types, File
  <1> HIDE DEF ks2, tm2
  <1>6. \A q \in Pids : /\ ks2[q].owner = ks[q].owner /\ ks2[q].out = ks[q].out
                        /\ ks2[q].wrote = ks[q].wrote /\ ks2[q].code = ks[q].code
                        /\ ks2[q].killer = ks[q].killer
    BY <1>3
  <1>7. Types(cl, ks2, ex, tm2, rc)
    BY <1>1, <1>3, <1>5 DEF Types
  <1>8. \A q \in Pids : KidForm(ks2[q])
    <2>1. KidForm(k)
      BY <1>2, <1>4 DEF KidForm, KidFacts
    <2> QED
      BY <1>3, <2>1 DEF Inv
  <1>9. ExForm(ks2, ex)
    BY <1>3 DEF Inv, ExForm
  <1>10. Owned(cl, ks2)
    BY <1>1, <1>6 DEF Inv, Owned, Types, Client
  <1>11. Killed(cl, ks2)
    BY <1>6 DEF Inv, Killed
  <1>12. Answered(cl, ks2)
    BY <1>3 DEF Inv, Answered
  <1>13. FileForm(ks2, tm2)
    <2>1. \A q \in Pids : ks2[q].linked => tm2[ks2[q].out].there
      BY <1>2, <1>3, <1>5, <1>6 DEF Inv, FileForm, KidFacts, o
    <2>2. \A i \in Paths : ~tm2[i].there => tm2[i].by = {}
      BY <1>5 DEF Inv, FileForm
    <2> QED
      BY <2>1, <2>2 DEF FileForm
  <1>14. Unforked(cl, tm2)
    BY DEF Inv, ClientForm, Unforked
  <1>15. ASSUME ~rc
         PROVE  Apart(cl, ks2, tm2)
    <2>1. Apart(cl, ks, tm)
      BY <1>15 DEF Inv
    <2>2. \A q \in Pids : Holds(cl, ks2[q]) => Holds(cl, ks[q])
      BY <1>3 DEF Holds
    <2>3. Holds(cl, ks[p])
      BY DEF Holds
    <2>4. \A q \in Pids : Holds(cl, ks[q]) /\ q # p => ks[q].out # o
      BY <2>1, <2>3 DEF Apart, o
    <2>5. \A q, r \in Pids :
             Holds(cl, ks2[q]) /\ Holds(cl, ks2[r]) /\ ks2[q].out = ks2[r].out => q = r
      BY <1>6, <2>1, <2>2 DEF Apart
    <2>6. ASSUME NEW q \in Pids, ks2[q].st = "forked"
          PROVE  ~tm2[ks2[q].out].there
      <3>1. q # p /\ ks2[q] = ks[q]
        BY <1>3, <2>6
      <3>2. ks[q].out # o /\ ks[q].out \in Paths
        BY <1>2, <2>4, <2>6, <3>1 DEF Holds, KidFacts
      <3> QED
        BY <1>5, <2>1, <2>6, <3>1, <3>2 DEF Apart
    <2>7. ASSUME NEW q \in Pids, ks2[q].linked
          PROVE  tm2[ks2[q].out].by = IF ks2[q].wrote THEN {ks2[q].owner} ELSE {}
      <3>1. CASE q = p
        <4>1. tm[o].by = {}
          BY <1>4, <2>1 DEF Inv, FileForm, Apart, o
        <4>2. ks2[q].out = o /\ ~ks2[q].wrote
          BY <1>3, <1>4, <3>1 DEF o
        <4> QED
          BY <1>4, <1>5, <4>1, <4>2
      <3>2. CASE q # p
        <4>1. ks2[q] = ks[q] /\ ks[q].out \in Paths
          BY <1>2, <1>3, <2>7, <3>2 DEF KidFacts
        <4>2. tm2[ks[q].out].by = tm[ks[q].out].by
          BY <1>5, <4>1
        <4> QED
          BY <2>1, <2>7, <4>1, <4>2 DEF Apart
      <3> QED
        BY <3>1, <3>2
    <2>8. \A q \in Pids :
             Opened(ks2[q]) /\ cl[ks2[q].owner].state = "SERVING_CGI" => ks2[q].linked
      BY <1>3, <2>1 DEF Apart
    <2> QED
      BY <2>5, <2>6, <2>7, <2>8 DEF Apart
  <1>16. ASSUME ~rc
         PROVE  Own(cl, ks2)
    <2>1. \A d \in Clients : Wrote(ks2, d) <=> Wrote(ks, d)
      BY <1>6 DEF Wrote
    <2>2. Own(cl, ks)
      BY <1>16 DEF Inv
    <2> QED
      BY <2>1, <2>2 DEF Own, IsOwn
  <1> QED
    BY <1>7, <1>8, <1>9, <1>10, <1>11, <1>12, <1>13, <1>14, <1>15, <1>16
       DEF Inv, ks2, tm2, o

\* The child writes, to a file that has a name or to one that has none.
LEMMA WriteInv ==
    ASSUME NEW cl, NEW ks, NEW ex, NEW tm, NEW rc,
           Inv(cl, ks, ex, tm, rc, {}),
           NEW p \in Pids, ks[p].st = "running", ~ks[p].wrote,
           NEW k \in Kid, k.st = "running", k.wrote, k.owner = ks[p].owner,
           k.out = ks[p].out, k.linked = ks[p].linked, k.code = ks[p].code,
           k.killer = ks[p].killer,
           NEW tm2, tm2 = IF ks[p].linked
                          THEN [tm EXCEPT ![ks[p].out].by = @ \cup {ks[p].owner}] ELSE tm
    PROVE  Inv(cl, [ks EXCEPT ![p] = k], ex, tm2, rc, {})
  <1> DEFINE ks2 == [ks EXCEPT ![p] = k]
             o   == ks[p].out
  <1>1. Types(cl, ks, ex, tm, rc)
    BY DEF Inv
  <1>2. \A q \in Pids : KidFacts(ks[q])
    BY <1>1, KidIsKnown DEF Inv, Types
  <1>3. /\ ks2 \in [Pids -> Kid] /\ ks2[p] = k
        /\ \A q \in Pids : ks2[q] = ks[q] \/ q = p
    BY <1>1 DEF Types
  <1>4. o \in Paths /\ ks[p].owner \in Clients /\ ks[p].st # "unused"
    BY <1>2 DEF KidFacts
  <1> HIDE DEF o
  <1>5. /\ tm2 \in [Paths -> File]
        /\ \A i \in Paths : tm2[i].there = tm[i].there /\ (tm2[i].by = tm[i].by \/ i = o)
        /\ tm2[o].by = tm[o].by \cup IF ks[p].linked THEN {ks[p].owner} ELSE {}
    <2>1. CASE ks[p].linked
      BY <1>1, <1>4, <2>1 DEF Types, File, o
    <2>2. CASE ~ks[p].linked
      BY <1>1, <2>2 DEF Types
    <2> QED
      BY <2>1, <2>2
  <1> HIDE DEF ks2
  <1>6. \A q \in Pids : /\ ks2[q].owner = ks[q].owner /\ ks2[q].out = ks[q].out
                        /\ ks2[q].linked = ks[q].linked /\ ks2[q].code = ks[q].code
                        /\ ks2[q].killer = ks[q].killer /\ ks2[q].st = ks[q].st
    BY <1>3
  <1>7. Types(cl, ks2, ex, tm2, rc)
    BY <1>1, <1>3, <1>5 DEF Types
  <1>8. \A q \in Pids : KidForm(ks2[q])
    <2>1. KidForm(k)
      BY DEF Inv, KidForm
    <2> QED
      BY <1>3, <2>1 DEF Inv
  <1>9. ExForm(ks2, ex)
    BY <1>6 DEF Inv, ExForm
  <1>10. Owned(cl, ks2)
    BY <1>1, <1>6 DEF Inv, Owned, Types, Client
  <1>11. Killed(cl, ks2)
    BY <1>6 DEF Inv, Killed
  <1>12. Answered(cl, ks2)
    BY <1>6 DEF Inv, Answered
  <1>13. FileForm(ks2, tm2)
    <2>1. \A q \in Pids : ks2[q].linked => tm2[ks2[q].out].there
      BY <1>2, <1>5, <1>6 DEF Inv, FileForm, KidFacts
    <2>2. ASSUME NEW i \in Paths, ~tm2[i].there
          PROVE  tm2[i].by = {}
      <3>1. tm[i].by = {} /\ ~tm[i].there
        BY <1>5, <2>2 DEF Inv, FileForm
      <3>2. i = o => ~ks[p].linked
        BY <3>1 DEF Inv, FileForm, o
      <3> QED
        BY <1>5, <3>1, <3>2
    <2> QED
      BY <2>1, <2>2 DEF FileForm
  <1>14. Unforked(cl, tm2)
    BY DEF Inv, ClientForm, Unforked
  <1>15. ASSUME ~rc
         PROVE  Apart(cl, ks2, tm2)
    <2>1. Apart(cl, ks, tm)
      BY <1>15 DEF Inv
    <2>2. \A q \in Pids : /\ Holds(cl, ks2[q]) <=> Holds(cl, ks[q])
                          /\ Opened(ks2[q]) <=> Opened(ks[q])
      BY <1>6 DEF Holds, Opened
    <2>3. \A q, r \in Pids :
             Holds(cl, ks2[q]) /\ Holds(cl, ks2[r]) /\ ks2[q].out = ks2[r].out => q = r
      BY <1>6, <2>1, <2>2 DEF Apart
    <2>4. \A q \in Pids : ks2[q].st = "forked" => ~tm2[ks2[q].out].there
      BY <1>2, <1>5, <1>6, <2>1 DEF Apart, KidFacts
    <2>5. ASSUME NEW q \in Pids, ks2[q].linked
          PROVE  tm2[ks2[q].out].by = IF ks2[q].wrote THEN {ks2[q].owner} ELSE {}
      <3>1. ks[q].linked /\ ks[q].out \in Paths /\ Holds(cl, ks[q])
        BY <1>2, <1>6, <2>5 DEF KidFacts, Holds
      <3>2. CASE q = p
        <4>1. tm[o].by = {}
          BY <2>1, <3>1, <3>2 DEF Apart, o
        <4>2. tm2[o].by = {ks[p].owner}
          BY <1>5, <3>1, <3>2, <4>1
        <4> QED
          BY <1>3, <3>2, <4>2 DEF o
      <3>3. CASE q # p
        <4>1. ks2[q] = ks[q]
          BY <1>3, <3>3
        <4>2. CASE ks[q].out # o
          BY <1>5, <2>1, <3>1, <4>1, <4>2, ZenonT(40) DEF Apart
        <4>3. CASE ks[q].out = o
          <5>1. ~ks[p].linked
            BY <1>4, <2>1, <3>1, <3>3, <4>3 DEF Apart, Holds, o
          <5>2. tm2[o].by = tm[o].by
            BY <1>5, <5>1
          <5> QED
            BY <2>1, <3>1, <4>1, <4>3, <5>2 DEF Apart
        <4> QED
          BY <4>2, <4>3
      <3> QED
        BY <3>2, <3>3
    <2>6. \A q \in Pids :
             Opened(ks2[q]) /\ cl[ks2[q].owner].state = "SERVING_CGI" => ks2[q].linked
      BY <1>6, <2>1, <2>2 DEF Apart
    <2> QED
      BY <2>3, <2>4, <2>5, <2>6 DEF Apart
  <1>16. ASSUME ~rc
         PROVE  Own(cl, ks2)
    <2>1. ASSUME NEW d \in Clients, cl[d].code = 200
          PROVE  Wrote(ks2, d) <=> Wrote(ks, d)
      <3>1. PICK q \in Pids : ks[q].owner = d /\ ks[q].st = "reaped"
        BY <2>1 DEF Inv, Answered
      <3>2. ks[p].owner # d
        BY <3>1, CgiAssumption DEF Inv, Owned
      <3> QED
        BY <1>3, <1>6, <3>2 DEF Wrote
    <2>2. Own(cl, ks)
      BY <1>16 DEF Inv
    <2> QED
      BY <2>1, <2>2 DEF Own, IsOwn
  <1> QED
    BY <1>7, <1>8, <1>9, <1>10, <1>11, <1>12, <1>13, <1>14, <1>15, <1>16
       DEF Inv, ks2

\* architect_response: a client that has no script yet is to run one.
LEMMA RequestInv ==
    ASSUME NEW cl, NEW ks, NEW ex, NEW tm, NEW rc,
           Inv(cl, ks, ex, tm, rc, {}),
           NEW c \in Clients, cl[c].state = "idle",
           NEW k \in Client, k.state = "SERVING_CGI", k.out = None, k.code = 0,
           k.running = k.stale
    PROVE  Inv([cl EXCEPT ![c] = k], ks, ex, tm, rc, {})
  <1> DEFINE cl2 == [cl EXCEPT ![c] = k]
  <1>1. Types(cl, ks, ex, tm, rc)
    BY DEF Inv
  <1>2. cl2 \in [Clients -> Client] /\ cl2[c] = k
    BY <1>1 DEF Types
  <1>3. \A d \in Clients : cl2[d] = cl[d] \/ d = c
    BY <1>1 DEF Types
  <1> HIDE DEF cl2
  <1>4. \A p \in Pids : KidFacts(ks[p])
    BY <1>1, KidIsKnown DEF Inv, Types
  <1>5. cl[c].out = None /\ ~cl[c].stale
    BY DEF Inv, ClientForm
  <1>6. \A q \in Pids : ks[q].owner # c
    BY <1>4, <1>5, CgiAssumption DEF Inv, Owned, KidFacts
  <1>7. \A q \in Pids : ks[q].owner # None => cl2[ks[q].owner] = cl[ks[q].owner]
    BY <1>3, <1>4, <1>6 DEF KidFacts
  <1>8. Types(cl2, ks, ex, tm, rc)
    BY <1>1, <1>2 DEF Types
  <1>9. \A d \in Clients : ClientForm(cl2[d], cl2[d].state = "removed" \/ d \in {})
    <2>1. ClientForm(k, k.state = "removed" \/ c \in {})
      BY DEF ClientForm
    <2> QED
      BY <1>2, <1>3, <2>1 DEF Inv
  <1>10. Owned(cl2, ks)
    <2>1. \A d \in Clients : cl2[d].out # None => cl2[d] = cl[d]
      BY <1>2, <1>3
    <2> QED
      BY <1>7, <2>1 DEF Inv, Owned
  <1>11. Killed(cl2, ks)
    <2>1. \A d \in Clients : cl[d].stale => cl2[d] = cl[d]
      BY <1>3, <1>5
    <2> QED
      BY <1>4, <2>1 DEF Inv, Killed, KidFacts
  <1>12. Answered(cl2, ks)
    BY <1>2, <1>3 DEF Inv, Answered
  <1>13. Unforked(cl2, tm)
    BY <1>2, <1>3 DEF Inv, Unforked
  <1>14. ASSUME ~rc
         PROVE  Apart(cl2, ks, tm)
    <2>1. Apart(cl, ks, tm)
      BY <1>14 DEF Inv
    <2>2. \A q \in Pids : /\ Holds(cl2, ks[q]) => Holds(cl, ks[q])
                          /\ ks[q].st # "unused" => cl2[ks[q].owner] = cl[ks[q].owner]
      BY <1>4, <1>7, CgiAssumption DEF Holds, KidFacts
    <2> QED
      BY <1>4, <2>1, <2>2 DEF Apart, KidFacts
  <1>15. ASSUME ~rc
         PROVE  Own(cl2, ks)
    <2>1. \A d \in Clients : cl2[d].code = 200 => cl2[d] = cl[d]
      BY <1>2, <1>3
    <2> QED
      BY <1>15, <2>1 DEF Inv, Own
  <1> QED
    BY <1>8, <1>9, <1>10, <1>11, <1>12, <1>13, <1>14, <1>15 DEF Inv, cl2

-----------------------------------------------------------------------------
(* One call of handle_client: the invariant of the state as the context has *)
(* it, kept by every step of the call.                                      *)

\* The records a client becomes.
AsAnswered(k, code, sent) == [k EXCEPT !.code = code, !.sent = sent]
AsBegun(k) == [k EXCEPT !.first_time = FALSE, !.late = FALSE]
AsDue(k) == [k EXCEPT !.running = TRUE, !.first_time = TRUE]
AsNamed(k, o, p) == [k EXCEPT !.first_time = FALSE, !.out = o, !.pid = p]
AsLate(k) == [k EXCEPT !.late = TRUE]
AsRemoved(k) == [k EXCEPT !.state = "removed"]

\* What handle_cgi answers with.
AnswerCodes == {200, 403, 404, 408, 500}

LEMMA AsAnsweredType ==
    ASSUME NEW k \in Client, NEW code \in AnswerCodes, NEW sent \in Output
    PROVE  /\ AsAnswered(k, code, sent) \in Client /\ Alike(AsAnswered(k, code, sent), k)
           /\ AsAnswered(k, code, sent).code = code /\ AsAnswered(k, code, sent).sent = sent
           /\ AsAnswered(k, code, sent).running = k.running
  <1> DEFINE k1 == [k EXCEPT !.code = code]
             k2 == [k1 EXCEPT !.sent = sent]
  <1>1. k1 \in Client
    BY DEF Client, AnswerCodes
  <1>2. /\ k1.code = code /\ k1.state = k.state /\ k1.first_time = k.first_time
        /\ k1.stale = k.stale /\ k1.running = k.running /\ k1.pid = k.pid
        /\ k1.out = k.out /\ k1.late = k.late /\ k1.sent = k.sent
    BY DEF Client
  <1> HIDE DEF k1
  <1>3. k2 \in Client
    BY <1>1 DEF Client
  <1>4. /\ k2.code = code /\ k2.sent = sent /\ k2.state = k.state
        /\ k2.first_time = k.first_time /\ k2.stale = k.stale /\ k2.running = k.running
        /\ k2.pid = k.pid /\ k2.out = k.out /\ k2.late = k.late
    BY <1>1, <1>2 DEF Client
  <1> HIDE DEF k2
  <1>5. k2 = AsAnswered(k, code, sent)
    BY DEF AsAnswered, k1, k2
  <1> QED
    BY <1>3, <1>4, <1>5 DEF Alike

LEMMA AsBegunType ==
    ASSUME NEW k \in Client
    PROVE  /\ AsBegun(k) \in Client /\ Alike(AsBegun(k), k)
           /\ AsBegun(k).first_time = FALSE /\ AsBegun(k).running = k.running
           /\ AsBegun(k).code = k.code /\ AsBegun(k).sent = k.sent
  <1> DEFINE no == FALSE
             k1 == [k EXCEPT !.first_time = no]
             k2 == [k1 EXCEPT !.late = no]
  <1>1. no \in BOOLEAN
    OBVIOUS
  <1> HIDE DEF no
  <1>2. k1 \in Client
    BY <1>1 DEF Client
  <1>3. /\ k1.first_time = no /\ k1.state = k.state /\ k1.stale = k.stale
        /\ k1.running = k.running /\ k1.pid = k.pid /\ k1.out = k.out /\ k1.late = k.late
        /\ k1.code = k.code /\ k1.sent = k.sent
    BY DEF Client
  <1> HIDE DEF k1
  <1>4. k2 \in Client
    BY <1>1, <1>2 DEF Client
  <1>5. /\ k2.first_time = no /\ k2.late = no /\ k2.state = k.state /\ k2.stale = k.stale
        /\ k2.running = k.running /\ k2.pid = k.pid /\ k2.out = k.out /\ k2.code = k.code
        /\ k2.sent = k.sent
    BY <1>2, <1>3 DEF Client
  <1> HIDE DEF k2
  <1>6. k2 = AsBegun(k)
    BY DEF AsBegun, k1, k2, no
  <1> QED
    BY <1>4, <1>5, <1>6 DEF no, Alike

LEMMA AsDueType ==
    ASSUME NEW k \in Client
    PROVE  /\ AsDue(k) \in Client /\ Alike(AsDue(k), k) /\ AsDue(k).running = TRUE
           /\ AsDue(k).first_time = TRUE /\ AsDue(k).code = k.code /\ AsDue(k).sent = k.sent
  <1> DEFINE yes == TRUE
             k1 == [k EXCEPT !.running = yes]
             k2 == [k1 EXCEPT !.first_time = yes]
  <1>1. yes \in BOOLEAN
    OBVIOUS
  <1> HIDE DEF yes
  <1>2. k1 \in Client
    BY <1>1 DEF Client
  <1>3. /\ k1.running = yes /\ k1.state = k.state /\ k1.first_time = k.first_time
        /\ k1.stale = k.stale /\ k1.pid = k.pid /\ k1.out = k.out /\ k1.late = k.late
        /\ k1.code = k.code /\ k1.sent = k.sent
    BY DEF Client
  <1> HIDE DEF k1
  <1>4. k2 \in Client
    BY <1>1, <1>2 DEF Client
  <1>5. /\ k2.running = yes /\ k2.first_time = yes /\ k2.state = k.state
        /\ k2.stale = k.stale /\ k2.pid = k.pid /\ k2.out = k.out /\ k2.late = k.late
        /\ k2.code = k.code /\ k2.sent = k.sent
    BY <1>2, <1>3 DEF Client
  <1> HIDE DEF k2
  <1>6. k2 = AsDue(k)
    BY DEF AsDue, k1, k2, yes
  <1> QED
    BY <1>4, <1>5, <1>6 DEF yes, Alike

LEMMA AsNamedType ==
    ASSUME NEW k \in Client, k.running = TRUE, NEW o \in Paths, NEW p \in Pids \cup {None}
    PROVE  /\ AsNamed(k, o, p) \in Client /\ HasName(AsNamed(k, o, p), k, o, p)
           /\ AsNamed(k, o, p).code = k.code
  <1> DEFINE no == FALSE
             k1 == [k EXCEPT !.first_time = no]
             k2 == [k1 EXCEPT !.out = o]
             k3 == [k2 EXCEPT !.pid = p]
  <1>1. no \in BOOLEAN
    OBVIOUS
  <1> HIDE DEF no
  <1>2. k1 \in Client
    BY <1>1 DEF Client
  <1>3. /\ k1.first_time = no /\ k1.state = k.state /\ k1.stale = k.stale
        /\ k1.running = k.running /\ k1.pid = k.pid /\ k1.out = k.out /\ k1.late = k.late
        /\ k1.code = k.code /\ k1.sent = k.sent
    BY DEF Client
  <1> HIDE DEF k1
  <1>4. k2 \in Client
    BY <1>1, <1>2 DEF Client
  <1>5. /\ k2.first_time = no /\ k2.out = o /\ k2.state = k.state /\ k2.stale = k.stale
        /\ k2.running = k.running /\ k2.pid = k.pid /\ k2.late = k.late
        /\ k2.code = k.code /\ k2.sent = k.sent
    BY <1>2, <1>3 DEF Client
  <1> HIDE DEF k2
  <1>6. k3 \in Client
    BY <1>1, <1>4 DEF Client
  <1>7. /\ k3.first_time = no /\ k3.out = o /\ k3.pid = p /\ k3.state = k.state
        /\ k3.stale = k.stale /\ k3.running = k.running /\ k3.late = k.late
        /\ k3.code = k.code /\ k3.sent = k.sent
    BY <1>4, <1>5 DEF Client
  <1> HIDE DEF k3
  <1>8. k3 = AsNamed(k, o, p)
    BY DEF AsNamed, k1, k2, k3, no
  <1> QED
    BY <1>6, <1>7, <1>8 DEF no, HasName

LEMMA AsLateType ==
    ASSUME NEW k \in Client
    PROVE  /\ AsLate(k) \in Client /\ Alike(AsLate(k), k)
           /\ AsLate(k).running = k.running /\ AsLate(k).code = k.code
           /\ AsLate(k).sent = k.sent
  <1> DEFINE yes == TRUE
             k1 == [k EXCEPT !.late = yes]
  <1>1. yes \in BOOLEAN
    OBVIOUS
  <1> HIDE DEF yes
  <1>2. k1 \in Client
    BY <1>1 DEF Client
  <1>3. /\ k1.late = yes /\ k1.state = k.state /\ k1.first_time = k.first_time
        /\ k1.stale = k.stale /\ k1.running = k.running /\ k1.pid = k.pid
        /\ k1.out = k.out /\ k1.code = k.code /\ k1.sent = k.sent
    BY DEF Client
  <1> HIDE DEF k1
  <1>4. k1 = AsLate(k)
    BY DEF AsLate, k1, yes
  <1> QED
    BY <1>2, <1>3, <1>4 DEF yes, Alike

LEMMA AsRemovedType ==
    ASSUME NEW k \in Client
    PROVE  /\ AsRemoved(k) \in Client /\ AsRemoved(k).pid = k.pid
           /\ AsRemoved(k).out = k.out /\ AsRemoved(k).stale = k.stale
           /\ AsRemoved(k).state = "removed" /\ AsRemoved(k).running = k.running
           /\ AsRemoved(k).code = k.code /\ AsRemoved(k).sent = k.sent
  <1> DEFINE gone == "removed"
             k1 == [k EXCEPT !.state = gone]
  <1>1. gone \in {"idle", "SERVING_CGI", "removed"}
    OBVIOUS
  <1> HIDE DEF gone
  <1>2. k1 \in Client
    BY <1>1 DEF Client
  <1>3. /\ k1.state = gone /\ k1.first_time = k.first_time /\ k1.stale = k.stale
        /\ k1.running = k.running /\ k1.pid = k.pid /\ k1.out = k.out /\ k1.late = k.late
        /\ k1.code = k.code /\ k1.sent = k.sent
    BY DEF Client
  <1> HIDE DEF k1
  <1>4. k1 = AsRemoved(k)
    BY DEF AsRemoved, k1, gone
  <1> QED
    BY <1>2, <1>3, <1>4 DEF gone

\* The records a child becomes.
AsKilled(k, c) == [k EXCEPT !.st = "signalled", !.killer = c]
AsOpened(k) == [k EXCEPT !.st = "running", !.linked = TRUE]
AsWritten(k) == [k EXCEPT !.wrote = TRUE]
AsExited(k, code) == [k EXCEPT !.st = "exited", !.code = code]
AsSignalled(k) == [k EXCEPT !.st = "signalled"]

LEMMA AsKilledType ==
    ASSUME NEW k \in Kid, NEW c \in Clients
    PROVE  LET r == AsKilled(k, c)
           IN /\ r \in Kid /\ r.st = "signalled" /\ r.killer = c /\ r.owner = k.owner
              /\ r.out = k.out /\ r.linked = k.linked /\ r.wrote = k.wrote
              /\ r.code = k.code
  <1> DEFINE s == "signalled"
             k1 == [k EXCEPT !.st = s]
             k2 == [k1 EXCEPT !.killer = c]
  <1>1. s \in {"running", "exited", "signalled"}
    OBVIOUS
  <1> HIDE DEF s
  <1>2. k1 \in Kid
    BY <1>1 DEF Kid
  <1>3. /\ k1.st = s /\ k1.owner = k.owner /\ k1.out = k.out /\ k1.linked = k.linked
        /\ k1.wrote = k.wrote /\ k1.code = k.code /\ k1.killer = k.killer
    BY DEF Kid
  <1> HIDE DEF k1
  <1>4. k2 \in Kid
    BY <1>1, <1>2 DEF Kid
  <1>5. /\ k2.st = s /\ k2.killer = c /\ k2.owner = k.owner /\ k2.out = k.out
        /\ k2.linked = k.linked /\ k2.wrote = k.wrote /\ k2.code = k.code
    BY <1>2, <1>3 DEF Kid
  <1> HIDE DEF k2
  <1>6. k2 = AsKilled(k, c)
    BY DEF AsKilled, k1, k2, s
  <1> QED
    BY <1>4, <1>5, <1>6 DEF s

LEMMA AsOpenedType ==
    ASSUME NEW k \in Kid
    PROVE  LET r == AsOpened(k)
           IN /\ r \in Kid /\ r.st = "running" /\ r.linked = TRUE /\ r.owner = k.owner
              /\ r.out = k.out /\ r.wrote = k.wrote /\ r.code = k.code
              /\ r.killer = k.killer
  <1> DEFINE s == "running"
             yes == TRUE
             k1 == [k EXCEPT !.st = s]
             k2 == [k1 EXCEPT !.linked = yes]
  <1>1. s \in {"running", "exited", "signalled"} /\ yes \in BOOLEAN
    OBVIOUS
  <1> HIDE DEF s, yes
  <1>2. k1 \in Kid
    BY <1>1 DEF Kid
  <1>3. /\ k1.st = s /\ k1.owner = k.owner /\ k1.out = k.out /\ k1.linked = k.linked
        /\ k1.wrote = k.wrote /\ k1.code = k.code /\ k1.killer = k.killer
    BY DEF Kid
  <1> HIDE DEF k1
  <1>4. k2 \in Kid
    BY <1>1, <1>2 DEF Kid
  <1>5. /\ k2.st = s /\ k2.linked = yes /\ k2.owner = k.owner /\ k2.out = k.out
        /\ k2.wrote = k.wrote /\ k2.code = k.code /\ k2.killer = k.killer
    BY <1>2, <1>3 DEF Kid
  <1> HIDE DEF k2
  <1>6. k2 = AsOpened(k)
    BY DEF AsOpened, k1, k2, s, yes
  <1> QED
    BY <1>4, <1>5, <1>6 DEF s, yes

LEMMA AsWrittenType ==
    ASSUME NEW k \in Kid
    PROVE  LET r == AsWritten(k)
           IN /\ r \in Kid /\ r.wrote = TRUE /\ r.st = k.st /\ r.owner = k.owner
              /\ r.out = k.out /\ r.linked = k.linked /\ r.code = k.code
              /\ r.killer = k.killer
  <1> DEFINE yes == TRUE
             k1 == [k EXCEPT !.wrote = yes]
  <1>1. yes \in BOOLEAN
    OBVIOUS
  <1> HIDE DEF yes
  <1>2. k1 \in Kid
    BY <1>1 DEF Kid
  <1>3. /\ k1.wrote = yes /\ k1.st = k.st /\ k1.owner = k.owner /\ k1.out = k.out
        /\ k1.linked = k.linked /\ k1.code = k.code /\ k1.killer = k.killer
    BY DEF Kid
  <1> HIDE DEF k1
  <1>4. k1 = AsWritten(k)
    BY DEF AsWritten, k1, yes
  <1> QED
    BY <1>2, <1>3, <1>4 DEF yes

LEMMA AsExitedType ==
    ASSUME NEW k \in Kid, NEW code \in Codes
    PROVE  LET r == AsExited(k, code)
           IN /\ r \in Kid /\ r.st = "exited" /\ r.code = code /\ r.owner = k.owner
              /\ r.out = k.out /\ r.linked = k.linked /\ r.wrote = k.wrote
              /\ r.killer = k.killer
  <1> DEFINE s == "exited"
             k1 == [k EXCEPT !.st = s]
             k2 == [k1 EXCEPT !.code = code]
  <1>1. s \in {"running", "exited", "signalled"}
    OBVIOUS
  <1> HIDE DEF s
  <1>2. k1 \in Kid
    BY <1>1 DEF Kid
  <1>3. /\ k1.st = s /\ k1.owner = k.owner /\ k1.out = k.out /\ k1.linked = k.linked
        /\ k1.wrote = k.wrote /\ k1.code = k.code /\ k1.killer = k.killer
    BY DEF Kid
  <1> HIDE DEF k1
  <1>4. k2 \in Kid
    BY <1>1, <1>2 DEF Kid
  <1>5. /\ k2.st = s /\ k2.code = code /\ k2.owner = k.owner /\ k2.out = k.out
        /\ k2.linked = k.linked /\ k2.wrote = k.wrote /\ k2.killer = k.killer
    BY <1>2, <1>3 DEF Kid
  <1> HIDE DEF k2
  <1>6. k2 = AsExited(k, code)
    BY DEF AsExited, k1, k2, s
  <1> QED
    BY <1>4, <1>5, <1>6 DEF s

LEMMA AsSignalledType ==
    ASSUME NEW k \in Kid
    PROVE  LET r == AsSignalled(k)
           IN /\ r \in Kid /\ r.st = "signalled" /\ r.owner = k.owner /\ r.out = k.out
              /\ r.linked = k.linked /\ r.wrote = k.wrote /\ r.code = k.code
              /\ r.killer = k.killer
  <1> DEFINE s == "signalled"
             k1 == [k EXCEPT !.st = s]
  <1>1. s \in {"running", "exited", "signalled"}
    OBVIOUS
  <1> HIDE DEF s
  <1>2. k1 \in Kid
    BY <1>1 DEF Kid
  <1>3. /\ k1.st = s /\ k1.owner = k.owner /\ k1.out = k.out /\ k1.linked = k.linked
        /\ k1.wrote = k.wrote /\ k1.code = k.code /\ k1.killer = k.killer
    BY DEF Kid
  <1> HIDE DEF k1
  <1>4. k1 = AsSignalled(k)
    BY DEF AsSignalled, k1, s
  <1> QED
    BY <1>2, <1>3, <1>4 DEF s

Ctx == [k : Client, kids : [Pids -> Kid], ex : [Pids -> Codes \cup {None}],
        tmp : [Paths -> File], raced : BOOLEAN, served : BOOLEAN]

CInv(c, x) ==
    /\ x \in Ctx
    /\ Inv([clients EXCEPT ![c] = x.k], x.kids, x.ex, x.tmp, x.raced,
           IF x.served THEN {c} ELSE {})

\* The call starts from the state.
LEMMA ContextInv ==
    ASSUME IInv, NEW c \in Clients
    PROVE  CInv(c, Context(c)) /\ Context(c).k = clients[c] /\ ~Context(c).served
  <1>1. Types(clients, kids, ex_childs, tmp, raced)
    BY DEF IInv, Inv
  <1>2. Context(c) \in Ctx
    BY <1>1 DEF Types, Ctx, Context
  <1>3. [clients EXCEPT ![c] = clients[c]] = clients
    BY <1>1 DEF Types
  <1>4. /\ Context(c).k = clients[c] /\ Context(c).kids = kids /\ Context(c).ex = ex_childs
        /\ Context(c).tmp = tmp /\ Context(c).raced = raced /\ Context(c).served = FALSE
    BY DEF Context
  <1> QED
    BY <1>2, <1>3, <1>4 DEF CInv, IInv

\* The client of a context is that of the state it stands for.
LEMMA ContextClient ==
    ASSUME clients \in [Clients -> Client], NEW c \in Clients, NEW k \in Client
    PROVE  /\ [clients EXCEPT ![c] = k] \in [Clients -> Client]
           /\ [clients EXCEPT ![c] = k][c] = k
           /\ \A d \in Clients : d # c => [clients EXCEPT ![c] = k][d] = clients[d]
           /\ \A k2 : [[clients EXCEPT ![c] = k] EXCEPT ![c] = k2] = [clients EXCEPT ![c] = k2]
  OBVIOUS

LEMMA ReapCtx ==
    ASSUME NEW c \in Clients, NEW x, CInv(c, x), NEW y \in Reap(x)
    PROVE  CInv(c, y) /\ y.k = x.k /\ y.served = x.served
  <1>1. CASE y = x
    BY <1>1
  <1>2. ASSUME NEW p \in Zombies(x),
               y = [x EXCEPT !.kids[p].st = "reaped",
                             !.ex[p] = IF @ # None THEN @ ELSE x.kids[p].code]
        PROVE  CInv(c, y) /\ y.k = x.k /\ y.served = x.served
    <2>1. p \in Pids /\ x.kids[p].st \in {"exited", "signalled"}
      BY DEF Zombies, CInv, Ctx
    <2>2. /\ y.k = x.k /\ y.tmp = x.tmp /\ y.raced = x.raced /\ y.served = x.served
          /\ y.kids = [x.kids EXCEPT ![p].st = "reaped"]
          /\ y.ex = [x.ex EXCEPT ![p] = IF @ # None THEN @ ELSE x.kids[p].code]
      BY <1>2 DEF CInv, Ctx
    <2>3. Inv([clients EXCEPT ![c] = y.k], y.kids, y.ex, y.tmp, y.raced,
              IF y.served THEN {c} ELSE {})
      BY <2>1, <2>2, ReapInv DEF CInv
    <2>4. y \in Ctx
      <3>1. /\ y.kids \in [Pids -> Kid] /\ y.ex \in [Pids -> Codes \cup {None}]
        BY <2>3 DEF Inv, Types
      <3> QED
        BY <1>2, <2>2, <3>1 DEF CInv, Ctx
    <2> QED
      BY <2>2, <2>3, <2>4 DEF CInv
  <1> QED
    BY <1>1, <1>2 DEF Reap

\* What a call knows of its client, whatever it has done so far.
LEMMA ClientOfCtx ==
    ASSUME clients \in [Clients -> Client], NEW c \in Clients, NEW x, CInv(c, x)
    PROVE  ClientForm(x.k, x.k.state = "removed" \/ x.served) /\ x.k \in Client
  <1>1. x.k \in Client /\ x.served \in BOOLEAN
    BY DEF CInv, Ctx
  <1>2. [clients EXCEPT ![c] = x.k][c] = x.k
    BY <1>1
  <1>3. ClientForm(x.k, x.k.state = "removed" \/ c \in IF x.served THEN {c} ELSE {})
    BY <1>2 DEF CInv, Inv
  <1> QED
    BY <1>1, <1>3 DEF ClientForm

\* The client changes in what is no script's concern, or is answered.
LEMMA ClientCtx ==
    ASSUME clients \in [Clients -> Client], NEW c \in Clients, NEW x, CInv(c, x),
           NEW y \in Ctx, y.kids = x.kids, y.ex = x.ex, y.tmp = x.tmp, y.raced = x.raced,
           x.served => y.served,
           Alike(y.k, x.k), ClientForm(y.k, y.k.state = "removed" \/ y.served),
           y.k.code = 200 => MaySend(x.kids, x.raced, c, y.k.sent)
    PROVE  CInv(c, y)
  <1> DEFINE cl == [clients EXCEPT ![c] = x.k]
             sv == IF x.served THEN {c} ELSE {}
             sv2 == IF y.served THEN {c} ELSE {}
  <1>1. x.k \in Client /\ y.k \in Client
    BY DEF CInv, Ctx
  <1>2. cl[c] = x.k /\ [cl EXCEPT ![c] = y.k] = [clients EXCEPT ![c] = y.k]
    BY <1>1, ContextClient
  <1>3. sv \subseteq sv2
    OBVIOUS
  <1>4. ClientForm(y.k, y.k.state = "removed" \/ c \in sv2)
    BY DEF ClientForm
  <1>5. Inv(cl, x.kids, x.ex, x.tmp, x.raced, sv)
    BY DEF CInv
  <1> HIDE DEF cl, sv, sv2
  <1> DEFINE k == y.k
  <1>6. /\ k \in Client /\ Alike(k, cl[c]) /\ ClientForm(k, k.state = "removed" \/ c \in sv2)
        /\ k.code = 200 => MaySend(x.kids, x.raced, c, k.sent)
    BY <1>1, <1>2, <1>4
  <1> HIDE DEF k
  <1>7. Inv([cl EXCEPT ![c] = k], x.kids, x.ex, x.tmp, x.raced, sv2)
    BY <1>3, <1>5, <1>6, ClientInv
  <1> QED
    BY <1>2, <1>7 DEF CInv, sv2, k

LEMMA SameClientCtx ==
    ASSUME clients \in [Clients -> Client], NEW c \in Clients, NEW x, CInv(c, x),
           NEW y \in Ctx, y.kids = x.kids, y.ex = x.ex, y.tmp = x.tmp, y.raced = x.raced,
           x.served => y.served,
           Alike(y.k, x.k), ClientForm(y.k, y.k.state = "removed" \/ y.served),
           y.k.code = x.k.code, y.k.sent = x.k.sent
    PROVE  CInv(c, y)
  <1> DEFINE cl == [clients EXCEPT ![c] = x.k]
  <1>1. x.k \in Client /\ cl[c] = x.k
    BY DEF CInv, Ctx
  <1> HIDE DEF cl
  <1>2. Answered(cl, x.kids) /\ (~x.raced => Own(cl, x.kids))
    BY DEF CInv, Inv, cl
  <1>3. x.k.code = 200 => MaySend(x.kids, x.raced, c, x.k.sent)
    BY <1>1, <1>2 DEF Answered, Own, MaySend
  <1>4. y.k.code = 200 => MaySend(x.kids, x.raced, c, y.k.sent)
    BY <1>3
  <1> QED
    BY <1>4, ClientCtx

\* An answer that is not the output of the script.
LEMMA AnswerCtx ==
    ASSUME clients \in [Clients -> Client], NEW c \in Clients, NEW x, CInv(c, x),
           x.k.state = "SERVING_CGI", NEW code \in {403, 404, 408, 500}
    PROVE  /\ CInv(c, Answer(x, code, NoOutput)) /\ Answer(x, code, NoOutput).served
           /\ Answer(x, code, NoOutput).k = AsAnswered(x.k, code, NoOutput)
           /\ Answer(x, code, NoOutput).kids = x.kids
  <1> DEFINE y == Answer(x, code, NoOutput)
  <1>1. /\ y.k = AsAnswered(x.k, code, NoOutput) /\ y.served = TRUE
        /\ y.kids = x.kids /\ y.ex = x.ex /\ y.tmp = x.tmp /\ y.raced = x.raced
    BY DEF CInv, Ctx, Answer, AsAnswered
  <1>2. x.k \in Client /\ ClientForm(x.k, x.k.state = "removed" \/ x.served)
    BY ClientOfCtx
  <1>3. NoOutput \in Output /\ code \in AnswerCodes /\ code # 200
    BY NoOutputType DEF AnswerCodes
  <1>4. y \in Ctx
    <2>1. y.k \in Client
      BY <1>1, <1>2, <1>3, AsAnsweredType
    <2> QED
      BY <1>1, <2>1 DEF Answer, CInv, Ctx
  <1> HIDE DEF y
  <1>5. Alike(y.k, x.k) /\ y.k.running = x.k.running /\ y.k.code = code
    BY <1>1, <1>2, <1>3, AsAnsweredType
  <1>6. ClientForm(y.k, y.k.state = "removed" \/ y.served)
    BY <1>1, <1>2, <1>5 DEF ClientForm, Alike
  <1>7. y.k.code # 200
    BY <1>3, <1>5
  <1>8. CInv(c, y)
    BY <1>1, <1>4, <1>5, <1>6, <1>7, ClientCtx
  <1> QED
    BY <1>1, <1>8 DEF y

\* The first call of handle_cgi.
LEMMA BeginCtx ==
    ASSUME clients \in [Clients -> Client], NEW c \in Clients, NEW x, CInv(c, x),
           x.k.state = "SERVING_CGI", NEW y \in Begin(x)
    PROVE  CInv(c, y) /\ y.k.state = "SERVING_CGI" /\ (~y.served => ~y.k.first_time)
  <1>1. x.k \in Client /\ ClientForm(x.k, x.k.state = "removed" \/ x.served)
    BY ClientOfCtx
  <1>2. ASSUME y = [x EXCEPT !.k.first_time = FALSE, !.k.late = FALSE]
        PROVE  CInv(c, y) /\ y.k.state = "SERVING_CGI" /\ (~y.served => ~y.k.first_time)
    <2>1. /\ y.k = AsBegun(x.k) /\ y.served = x.served
          /\ y.kids = x.kids /\ y.ex = x.ex /\ y.tmp = x.tmp /\ y.raced = x.raced
      BY <1>2 DEF CInv, Ctx, AsBegun
    <2>2. /\ y.k \in Client /\ Alike(y.k, x.k) /\ y.k.running = x.k.running
          /\ y.k.code = x.k.code /\ y.k.sent = x.k.sent /\ y.k.first_time = FALSE
      BY <1>1, <2>1, AsBegunType, ZenonT(40)
    <2>3. y \in Ctx
      BY <1>2, <2>1, <2>2 DEF CInv, Ctx
    <2>4. ClientForm(y.k, y.k.state = "removed" \/ y.served)
      BY <1>1, <2>1, <2>2 DEF ClientForm, Alike
    <2>5. CInv(c, y)
      BY <2>1, <2>2, <2>3, <2>4, SameClientCtx
    <2> QED
      BY <2>2, <2>5 DEF Alike
  <1>3. ASSUME NEW code \in {403, 404, 500}, y = Answer(x, code, NoOutput)
        PROVE  CInv(c, y) /\ y.k.state = "SERVING_CGI" /\ (~y.served => ~y.k.first_time)
    <2>1. code \in {403, 404, 408, 500} /\ code \in AnswerCodes
          /\ NoOutput \in Output
      BY NoOutputType DEF AnswerCodes
    <2>2. CInv(c, y) /\ y.served /\ y.k = AsAnswered(x.k, code, NoOutput)
      BY <1>3, <2>1, AnswerCtx
    <2> QED
      BY <1>1, <2>1, <2>2, AsAnsweredType DEF Alike
  <1> QED
    BY <1>2, <1>3 DEF Begin

\* max_cgi_timeout has passed: whoever is killed is the client's own child,
\* unless cgi_running was not initialised.
LEMMA TimeOutCtx ==
    ASSUME clients \in [Clients -> Client], NEW c \in Clients, NEW x, CInv(c, x),
           x.k.state = "SERVING_CGI"
    PROVE  CInv(c, TimeOut(c, x)) /\ TimeOut(c, x).k.state = "SERVING_CGI"
  <1> DEFINE p == x.k.pid
             y == Answer(x, 408, NoOutput)
             z == TimeOut(c, x)
  <1>1. x.k \in Client /\ ClientForm(x.k, x.k.state = "removed" \/ x.served)
    BY ClientOfCtx
  <1>2. 408 \in {403, 404, 408, 500} /\ 408 \in AnswerCodes
        /\ NoOutput \in Output
    BY NoOutputType DEF AnswerCodes
  <1>3. CInv(c, y) /\ y.k = AsAnswered(x.k, 408, NoOutput) /\ y.kids = x.kids
    BY <1>2, AnswerCtx
  <1>4. Alike(y.k, x.k)
    BY <1>1, <1>2, <1>3, AsAnsweredType
  <1>5. CASE ~(KillGuard(x) /\ x.kids[p].st \in {"forked", "running"})
    BY <1>3, <1>4, <1>5 DEF TimeOut, Alike
  <1>6. CASE KillGuard(x) /\ x.kids[p].st \in {"forked", "running"}
    <2>1. z = [y EXCEPT !.kids[p].st = "signalled", !.kids[p].killer = c]
      BY <1>6 DEF TimeOut
    <2> HIDE DEF y, z
    <2> DEFINE kid == AsKilled(y.kids[p], c)
    <2>2. p \in Pids
      BY <1>1, <1>6 DEF KillGuard, Client
    <2>3. y \in Ctx /\ y.kids \in [Pids -> Kid]
      BY <1>3 DEF CInv, Ctx
    <2>4. /\ z.k = y.k /\ z.ex = y.ex /\ z.tmp = y.tmp /\ z.raced = y.raced
          /\ z.served = y.served /\ z.kids = [y.kids EXCEPT ![p] = kid]
      BY <2>1, <2>2, <2>3 DEF AsKilled, Ctx
    <2>5. /\ kid \in Kid /\ kid.st = "signalled" /\ kid.killer = c
          /\ kid.owner = y.kids[p].owner /\ kid.out = y.kids[p].out
          /\ kid.linked = y.kids[p].linked /\ kid.wrote = y.kids[p].wrote
          /\ kid.code = y.kids[p].code
      BY <2>2, <2>3, AsKilledType
    <2> DEFINE cl == [clients EXCEPT ![c] = y.k]
               sv == IF y.served THEN {c} ELSE {}
    <2>6. Inv(cl, y.kids, y.ex, y.tmp, y.raced, sv) /\ cl[c] = y.k
      BY <1>3, <2>3 DEF CInv, Ctx
    <2> HIDE DEF cl, sv, kid
    <2>7. kid.owner = c \/ cl[c].stale
      <3>1. y.k.stale = x.k.stale /\ y.k.pid = p /\ y.k.out = x.k.out
        BY <1>4 DEF Alike
      <3>2. x.k.stale \/ (x.k.out # None /\ p # None)
        BY <1>1, <1>6 DEF KillGuard, ClientForm
      <3>3. cl[c].out # None /\ cl[c].pid # None => y.kids[cl[c].pid].owner = c
        BY <2>6 DEF Inv, Owned
      <3> QED
        BY <2>5, <2>6, <3>1, <3>2, <3>3
    <2>8. /\ y.kids[p].st \in {"forked", "running"} /\ y.kids[p].code = None
      BY <1>3, <1>6, <2>2, <2>6 DEF Inv, KidForm
    <2>9. kid.code # "ok"
      BY <2>5, <2>8, CgiAssumption DEF Codes
    <2>10. Inv(cl, [y.kids EXCEPT ![p] = kid], y.ex, y.tmp, y.raced, sv)
      BY <2>2, <2>5, <2>6, <2>7, <2>8, <2>9, EndInv
    <2>11. z \in Ctx
      <3>1. z.kids \in [Pids -> Kid]
        BY <2>3, <2>4, <2>5
      <3> QED
        BY <2>1, <2>3, <2>4, <3>1 DEF Ctx
    <2>12. CInv(c, z) /\ z.k = y.k
      BY <2>4, <2>10, <2>11 DEF CInv, cl, sv
    <2> QED
      BY <1>4, <2>12 DEF Alike, z
  <1> QED
    BY <1>5, <1>6

\* The name that serve_cgi finds is that of no file.
LEMMA FreeNameIsFree ==
    ASSUME NEW files \in [Paths -> File], NEW o \in FreeName(files)
    PROVE  o \in Paths /\ ~files[o].there
  BY DEF FreeName

\* What fork() makes of a context, if it fails and if it does not.
LEMMA NoForkType ==
    ASSUME NEW y \in Ctx, NEW o \in Paths,
           NEW z, z = NotForked(y, o), z.k \in Client
    PROVE  z \in Ctx
  <1>1. z = [k |-> z.k, kids |-> z.kids, ex |-> z.ex, tmp |-> z.tmp, raced |-> z.raced,
             served |-> z.served]
    BY DEF NotForked, Named, Answer, Ctx
  <1>2. /\ z.kids = y.kids /\ z.ex = y.ex /\ z.tmp = y.tmp /\ z.raced = y.raced
        /\ z.served = TRUE
    BY DEF NotForked, Named, Answer, Ctx
  <1> QED
    BY <1>1, <1>2 DEF Ctx

LEMMA ForkType ==
    ASSUME NEW c, NEW y \in Ctx, NEW o \in Paths, NEW p \in Pids,
           NEW z, z = Forked(c, y, o, p),
           z.k \in Client, z.kids \in [Pids -> Kid], z.raced \in BOOLEAN
    PROVE  z \in Ctx
  BY DEF Ctx, Forked, Named

LEMMA ForkCases ==
    ASSUME NEW c, NEW y, NEW z \in Fork(c, y)
    PROVE  \/ \E o \in FreeName(y.tmp) : z = NotForked(y, o)
           \/ \E o \in FreeName(y.tmp), p \in DOMAIN y.kids :
                 y.kids[p].st = "unused" /\ z = Forked(c, y, o, p)
  BY DEF Fork

\* The script of the client is due and nothing else has changed.
Due(y, x) ==
    /\ y.k = AsDue(x.k) /\ y.kids = x.kids /\ y.ex = x.ex
    /\ y.tmp = x.tmp /\ y.raced = x.raced /\ y.served = x.served

\* A script is due for a client that has none, and serve_cgi starts it or not.
LEMMA ForkCtx ==
    ASSUME clients \in [Clients -> Client], NEW c \in Clients, NEW x, CInv(c, x),
           clients[c].state = "SERVING_CGI", x.k.state = "SERVING_CGI",
           ~x.served, ~x.k.running,
           NEW y \in Ctx, Due(y, x),
           NEW z \in Fork(c, y)
    PROVE  CInv(c, z) /\ z.k.state = "SERVING_CGI"
  <1> DEFINE cl == [clients EXCEPT ![c] = x.k]
             due == AsDue(x.k)
  <1>1. x.k \in Client /\ ClientForm(x.k, x.k.state = "removed" \/ x.served)
    BY ClientOfCtx
  <1>2. x.k.out = None /\ x.k.code = 0
    BY <1>1 DEF ClientForm
  <1>3. /\ y.k = due /\ y.kids = x.kids /\ y.ex = x.ex /\ y.tmp = x.tmp
        /\ y.raced = x.raced /\ y.served = x.served /\ y \in Ctx
    BY DEF Due
  <1>4. due \in Client /\ Alike(due, x.k) /\ due.running = TRUE /\ due.code = 0
    BY <1>1, <1>2, AsDueType
  <1>5. /\ cl[c] = x.k /\ \A d \in Clients : cl[d].state = clients[d].state
        /\ \A k : [cl EXCEPT ![c] = k] = [clients EXCEPT ![c] = k]
    BY <1>1
  <1>6. Inv(cl, x.kids, x.ex, x.tmp, x.raced, {})
    BY DEF CInv
  <1>7. x.tmp \in [Paths -> File] /\ x.kids \in [Pids -> Kid]
    BY DEF CInv, Ctx
  <1> HIDE DEF cl, due
  <1>8. ASSUME NEW o \in FreeName(y.tmp), z = NotForked(y, o)
        PROVE  CInv(c, z) /\ z.k.state = "SERVING_CGI"
    <2> DEFINE named == AsNamed(due, o, None)
               k == AsAnswered(named, 500, NoOutput)
    <2>1. o \in Paths /\ ~x.tmp[o].there
      BY <1>3, <1>7, FreeNameIsFree
    <2>2. 500 \in AnswerCodes /\ NoOutput \in Output
      BY NoOutputType DEF AnswerCodes
    <2>3. /\ z.k = k /\ z.kids = x.kids /\ z.ex = x.ex /\ z.tmp = x.tmp
          /\ z.raced = x.raced /\ z.served = TRUE
      BY <1>3, <1>8 DEF NotForked, Named, Answer, AsAnswered, AsNamed, Ctx
    <2>4. named \in Client /\ HasName(named, due, o, None)
      BY <1>4, <2>1, AsNamedType
    <2> HIDE DEF named
    <2>5. k \in Client /\ Alike(k, named) /\ k.running = named.running /\ k.code = 500
      BY <2>2, <2>4, AsAnsweredType
    <2> HIDE DEF k
    <2>6. HasName(k, cl[c], o, None)
      BY <1>4, <1>5, <2>4, <2>5 DEF Alike, HasName
    <2>7. Inv([cl EXCEPT ![c] = k], x.kids, x.ex, x.tmp, x.raced, {c})
      <3>1. {} \subseteq {c} /\ c \in {c} /\ cl[c].out = None /\ cl[c].state = "SERVING_CGI"
        BY <1>2, <1>5
      <3> QED
        BY <1>6, <2>1, <2>5, <2>6, <3>1, NoForkInv
    <2>8. z \in Ctx
      BY <1>3, <1>8, <2>1, <2>3, <2>5, NoForkType
    <2> QED
      BY <1>5, <2>3, <2>6, <2>7, <2>8 DEF CInv, HasName
  <1>10. ASSUME NEW o \in Paths, ~x.tmp[o].there, NEW p \in Pids, x.kids[p].st = "unused",
                NEW k \in Client, HasName(k, cl[c], o, p), k.code = 0,
                NEW rc \in BOOLEAN, ~rc => ~x.raced /\ NotUsed(cl, x.kids, o)
         PROVE  Inv([cl EXCEPT ![c] = k], [x.kids EXCEPT ![p] = Child(c, o)],
                    x.ex, x.tmp, rc, {})
    <2>1. cl[c].out = None /\ cl[c].state = "SERVING_CGI"
      BY <1>2, <1>5
    <2> QED
      BY <1>6, <1>10, <2>1, ForkInv, SMTT(30)
  <1>9. ASSUME NEW o \in FreeName(y.tmp), NEW p \in DOMAIN y.kids, y.kids[p].st = "unused",
               z = Forked(c, y, o, p)
        PROVE  CInv(c, z) /\ z.k.state = "SERVING_CGI"
    <2> DEFINE k == AsNamed(due, o, p)
               kid == Child(c, o)
               rc == x.raced \/ Race(y, o)
    <2>1. o \in Paths /\ ~x.tmp[o].there /\ p \in Pids /\ x.kids[p].st = "unused"
      BY <1>3, <1>7, <1>9, FreeNameIsFree
    <2>2. k \in Client /\ HasName(k, due, o, p) /\ k.code = 0
      BY <1>4, <2>1, AsNamedType
    <2>3. HasName(k, cl[c], o, p)
      BY <1>4, <1>5, <2>2 DEF Alike, HasName
    <2>4. rc \in BOOLEAN
      BY DEF CInv, Ctx, Race
    <2>5. /\ z.k = k /\ z.kids = [x.kids EXCEPT ![p] = kid] /\ z.ex = x.ex
          /\ z.tmp = x.tmp /\ z.raced = rc /\ z.served = x.served
      BY <1>3, <1>9 DEF Forked, Named, AsNamed, Ctx, Child
    <2> HIDE DEF k
    <2>6. ~rc => ~x.raced /\ NotUsed(cl, x.kids, o)
      <3>1. \A q \in Pids : KidFacts(x.kids[q])
        BY <1>6, <1>7, KidIsKnown DEF Inv
      <3>2. \A q \in Pids : x.kids[q].out = o => x.kids[q].owner \in Clients
        BY <2>1, <3>1, CgiAssumption DEF KidFacts
      <3> QED
        BY <1>3, <1>5, <1>7, <3>2 DEF Race, NotUsed
    <2> HIDE DEF kid, rc
    <2>7. Inv([cl EXCEPT ![c] = k], [x.kids EXCEPT ![p] = kid], x.ex, x.tmp, rc, {})
      <3>1. cl[c].out = None /\ cl[c].state = "SERVING_CGI"
        BY <1>2, <1>5
      <3> QED
        BY <1>10, <2>1, <2>2, <2>3, <2>4, <2>6, <3>1, Zenon DEF kid
    <2>8. z \in Ctx
      <3>1. [x.kids EXCEPT ![p] = kid] \in [Pids -> Kid]
        BY <2>7 DEF Inv, Types
      <3> QED
        BY <1>3, <1>9, <2>1, <2>2, <2>4, <2>5, <3>1, ForkType DEF rc, kid, Child
    <2>9. (IF z.served THEN {c} ELSE {}) = {}
      BY <2>5
    <2>10. [cl EXCEPT ![c] = k] = [clients EXCEPT ![c] = z.k]
      BY <1>5, <2>5
    <2>11. Inv([clients EXCEPT ![c] = z.k], z.kids, z.ex, z.tmp, z.raced, {})
      BY <2>5, <2>7, <2>10, Zenon
    <2>12. CInv(c, z)
      BY <2>8, <2>9, <2>11 DEF CInv
    <2>13. k.state = "SERVING_CGI"
      BY <1>5, <2>3 DEF HasName
    <2>14. z.k.state = "SERVING_CGI"
      BY <2>5, <2>13, Zenon
    <2> QED
      BY <2>12, <2>14, Zenon
  <1>11. \/ \E o \in FreeName(y.tmp) : z = NotForked(y, o)
         \/ \E o \in FreeName(y.tmp), p \in DOMAIN y.kids :
               y.kids[p].st = "unused" /\ z = Forked(c, y, o, p)
    BY ForkCases
  <1> QED
    BY <1>8, <1>9, <1>11, Zenon

\* What is due is due for a client that knows of no script.
LEMMA PrepareCtx ==
    ASSUME clients \in [Clients -> Client], NEW c \in Clients, NEW x, CInv(c, x),
           x.k.state = "SERVING_CGI", ~x.served, ~x.k.first_time, NEW y \in Prepare(x)
    PROVE  \/ CInv(c, y) /\ y.k.state = "SERVING_CGI" /\ ~y.k.first_time
           \/ ~x.k.running /\ y \in Ctx /\ Due(y, x) /\ y.k.first_time
  <1>1. x.k \in Client /\ ClientForm(x.k, x.k.state = "removed" \/ x.served)
    BY ClientOfCtx
  <1>2. CASE y = x
    BY <1>2
  <1>3. CASE y = [x EXCEPT !.served = TRUE]
    <2>1. /\ y.k = x.k /\ y.kids = x.kids /\ y.ex = x.ex /\ y.tmp = x.tmp
          /\ y.raced = x.raced /\ y.served = TRUE /\ y \in Ctx
      BY <1>3 DEF CInv, Ctx
    <2>2. Alike(y.k, x.k) /\ ClientForm(y.k, y.k.state = "removed" \/ y.served)
      BY <1>1, <2>1 DEF Alike, ClientForm
    <2>3. CInv(c, y)
      BY <2>1, <2>2, SameClientCtx
    <2> QED
      BY <2>1, <2>3
  <1>4. CASE ~x.k.running /\ y = [x EXCEPT !.k.running = TRUE, !.k.first_time = TRUE]
    <2>1. Due(y, x)
      BY <1>4 DEF CInv, Ctx, AsDue, Due
    <2>2. y.k \in Client /\ y.k.first_time
      BY <1>1, <2>1, AsDueType DEF Due
    <2>3. y \in Ctx
      BY <1>4, <2>2 DEF CInv, Ctx
    <2> QED
      BY <1>4, <2>1, <2>2, <2>3
  <1> QED
    BY <1>2, <1>3, <1>4 DEF Prepare

\* The first half of a call: the body comes in, and the script is started.
LEMMA StartCtx ==
    ASSUME clients \in [Clients -> Client], NEW c \in Clients, NEW x, CInv(c, x),
           clients[c].state = "SERVING_CGI", x.k.state = "SERVING_CGI",
           ~x.served, ~x.k.first_time,
           NEW y \in Prepare(x), NEW z \in IF y.k.first_time THEN Fork(c, y) ELSE {y}
    PROVE  CInv(c, z) /\ z.k.state = "SERVING_CGI"
  <1>1. \/ CInv(c, y) /\ y.k.state = "SERVING_CGI" /\ ~y.k.first_time
        \/ ~x.k.running /\ y \in Ctx /\ Due(y, x) /\ y.k.first_time
    BY PrepareCtx
  <1>2. CASE CInv(c, y) /\ y.k.state = "SERVING_CGI" /\ ~y.k.first_time
    BY <1>2
  <1>3. CASE ~x.k.running /\ y \in Ctx /\ Due(y, x) /\ y.k.first_time
    <2>1. z \in Fork(c, y)
      BY <1>3
    <2> QED
      BY <1>3, <2>1, ForkCtx
  <1> QED
    BY <1>1, <1>2, <1>3

\* A client may be sent the output of the child it asks for, once that has
\* exited and been waited for.
LEMMA CollectInv ==
    ASSUME NEW cl, NEW ks, NEW ex, NEW tm, NEW rc, NEW sv,
           Inv(cl, ks, ex, tm, rc, sv),
           NEW c \in Clients, cl[c].state = "SERVING_CGI", cl[c].out # None,
           NEW p \in Pids, cl[c].pid = p, ex[p] = "ok",
           NEW s \in SendOutput(tm[cl[c].out].by)
    PROVE  MaySend(ks, rc, c, s)
  <1>1. ks[p].st = "reaped" /\ ks[p].code = "ok"
    BY CgiAssumption DEF Inv, ExForm, Codes
  <1>2. ks[p].owner = c
    BY CgiAssumption DEF Inv, Owned
  <1>3. c # None
    BY CgiAssumption
  <1>4. ks[p].out = cl[c].out
    BY <1>2, <1>3 DEF Inv, Owned
  <1>5. Wrote(ks, c) <=> ks[p].wrote
    BY <1>2, <1>3 DEF Inv, Owned, Wrote
  <1>6. ASSUME ~rc
        PROVE  IsOwn(ks, c, s)
    <2>1. Apart(cl, ks, tm)
      BY <1>6 DEF Inv
    <2>2. Opened(ks[p])
      BY <1>1 DEF Opened
    <2>3. ks[p].linked
      BY <1>2, <2>1, <2>2 DEF Apart
    <2>4. tm[cl[c].out].by = IF Wrote(ks, c) THEN {c} ELSE {}
      BY <1>2, <1>4, <1>5, <2>1, <2>3 DEF Apart
    <2>5. s.by \subseteq tm[cl[c].out].by /\ (s.whole => s.by = tm[cl[c].out].by)
      BY DEF SendOutput
    <2> QED
      BY <2>4, <2>5 DEF IsOwn
  <1> QED
    BY <1>1, <1>2, <1>6 DEF MaySend

\* The second half: the child has been waited for, and the client is answered.
LEMMA CollectCtx ==
    ASSUME clients \in [Clients -> Client], NEW c \in Clients, NEW x, CInv(c, x),
           x.k.state = "SERVING_CGI", NEW z \in Collect(x)
    PROVE  CInv(c, z) /\ z.k.state = "SERVING_CGI"
  <1> DEFINE p == x.k.pid
             y == [x EXCEPT !.ex[p] = None]
  <1>1. x.k \in Client /\ ClientForm(x.k, x.k.state = "removed" \/ x.served)
    BY ClientOfCtx
  <1>2. x.ex \in [Pids -> Codes \cup {None}] /\ x.tmp \in [Paths -> File] /\ x.served \in BOOLEAN
    BY DEF CInv, Ctx
  <1>3. AsAnswered(x.k, 500, NoOutput).state = x.k.state
    <2>1. NoOutput \in Output /\ 500 \in AnswerCodes
      BY NoOutputType DEF AnswerCodes
    <2> QED
      BY <1>1, <2>1, AsAnsweredType DEF Alike
  <1>4. ASSUME NEW w, CInv(c, w), w.k = x.k
        PROVE  /\ CInv(c, Answer(w, 500, NoOutput))
               /\ Answer(w, 500, NoOutput).k.state = "SERVING_CGI"
    <2>1. 500 \in {403, 404, 408, 500}
      OBVIOUS
    <2>2. CInv(c, Answer(w, 500, NoOutput)) /\ Answer(w, 500, NoOutput).k = AsAnswered(w.k, 500, NoOutput)
      BY <1>4, <2>1, AnswerCtx
    <2> QED
      BY <1>1, <1>3, <1>4, <2>2
  <1>5. CASE p = None \/ x.ex[p] = None
    BY <1>5 DEF Collect
  <1>6. CASE p # None /\ x.ex[p] = "42"
    <2>1. x.ex[p] # None
      BY <1>6, CgiAssumption DEF Codes
    <2>2. z = Answer(x, 500, NoOutput)
      BY <1>6, <2>1 DEF Collect
    <2> QED
      BY <1>4, <2>2
  <1>7. CASE p # None /\ x.ex[p] # None /\ x.ex[p] # "42"
    <2>1. p \in Pids /\ x.ex[p] = "ok"
      BY <1>1, <1>2, <1>7 DEF Client, Codes
    <2>2. /\ y.k = x.k /\ y.kids = x.kids /\ y.tmp = x.tmp /\ y.raced = x.raced
          /\ y.served = x.served /\ y.ex = [x.ex EXCEPT ![p] = None] /\ y \in Ctx
      BY <2>1 DEF CInv, Ctx
    <2>3. CInv(c, y)
      BY <2>1, <2>2, EraseInv DEF CInv
    <2>4. z \in ParseOutput(y)
      BY <1>7 DEF Collect
    <2> HIDE DEF y
    <2>5. CASE ~(x.k.out # None /\ x.tmp[x.k.out].there)
      <3>1. z = Answer(y, 500, NoOutput)
        BY <2>2, <2>4, <2>5 DEF ParseOutput
      <3> QED
        BY <1>4, <2>2, <2>3, <3>1
    <2>6. CASE x.k.out # None /\ x.tmp[x.k.out].there
      <3>1. PICK s \in SendOutput(x.tmp[x.k.out].by) : z = Answer(y, 200, s)
        BY <2>2, <2>4, <2>6 DEF ParseOutput
      <3>2. s \in Output /\ 200 \in AnswerCodes
        BY <3>1 DEF SendOutput, AnswerCodes
      <3>3. MaySend(x.kids, x.raced, c, s)
        <4> DEFINE cl == [clients EXCEPT ![c] = x.k]
                   sv == IF x.served THEN {c} ELSE {}
        <4>1. cl[c] = x.k /\ Inv(cl, x.kids, x.ex, x.tmp, x.raced, sv)
          BY <1>1 DEF CInv
        <4>2. s \in SendOutput(x.tmp[cl[c].out].by)
          BY <3>1, <4>1
        <4> HIDE DEF cl, sv
        <4> QED
          BY <2>1, <2>6, <4>1, <4>2, CollectInv
      <3>4. /\ z.k = AsAnswered(y.k, 200, s) /\ z.kids = y.kids /\ z.ex = y.ex
            /\ z.tmp = y.tmp /\ z.raced = y.raced /\ z.served = TRUE
        BY <2>2, <3>1 DEF Answer, AsAnswered, Ctx
      <3>5. /\ z.k \in Client /\ Alike(z.k, x.k) /\ z.k.code = 200 /\ z.k.sent = s
            /\ z.k.running = x.k.running
        BY <1>1, <2>2, <3>2, <3>4, AsAnsweredType
      <3>6. z \in Ctx
        BY <2>2, <3>1, <3>4, <3>5 DEF Answer, Ctx
      <3>7. ClientForm(z.k, z.k.state = "removed" \/ z.served)
        BY <1>1, <3>4, <3>5 DEF ClientForm, Alike
      <3>8. /\ z.kids = y.kids /\ z.ex = y.ex /\ z.tmp = y.tmp /\ z.raced = y.raced
            /\ y.served => z.served
        BY <3>4
      <3>9. Alike(z.k, y.k) /\ MaySend(y.kids, y.raced, c, z.k.sent)
        BY <2>2, <3>3, <3>5
      <3>10. CInv(c, z)
        BY <2>3, <3>6, <3>7, <3>8, <3>9, ClientCtx
      <3> QED
        BY <3>5, <3>10 DEF Alike
    <2> QED
      BY <2>5, <2>6
  <1> QED
    BY <1>5, <1>6, <1>7

\* serve_cgi and parse_cgi_output in one call.
LEMMA RunCtx ==
    ASSUME clients \in [Clients -> Client], NEW c \in Clients, NEW x, CInv(c, x),
           clients[c].state = "SERVING_CGI", x.k.state = "SERVING_CGI",
           ~x.served, ~x.k.first_time, NEW y \in Run(c, x)
    PROVE  CInv(c, y) /\ y.k.state = "SERVING_CGI"
  <1>1. PICK w \in Prepare(x) :
          \E z \in IF w.k.first_time THEN Fork(c, w) ELSE {w} : y \in Collect(z)
    BY DEF Run
  <1>2. PICK z \in IF w.k.first_time THEN Fork(c, w) ELSE {w} : y \in Collect(z)
    BY <1>1
  <1>3. CInv(c, z) /\ z.k.state = "SERVING_CGI"
    BY StartCtx
  <1> QED
    BY <1>2, <1>3, CollectCtx

LEMMA HandleCgiCtx ==
    ASSUME clients \in [Clients -> Client], NEW c \in Clients, NEW x, CInv(c, x),
           clients[c].state = "SERVING_CGI", x.k.state = "SERVING_CGI",
           ~x.served, NEW y \in HandleCgi(c, x)
    PROVE  CInv(c, y) /\ y.k.state = "SERVING_CGI"
  <1>1. CASE x.k.first_time
    <2>1. PICK z \in Begin(x) : y \in IF z.served THEN {z} ELSE Run(c, z)
      BY <1>1 DEF HandleCgi
    <2>2. CInv(c, z) /\ z.k.state = "SERVING_CGI" /\ (~z.served => ~z.k.first_time)
      BY BeginCtx
    <2>3. CASE z.served
      BY <2>1, <2>2, <2>3
    <2>4. CASE ~z.served
      BY <2>1, <2>2, <2>4, RunCtx
    <2> QED
      BY <2>3, <2>4
  <1>2. CASE ~x.k.first_time /\ x.k.late
    BY <1>2, TimeOutCtx DEF HandleCgi
  <1>3. CASE ~x.k.first_time /\ ~x.k.late
    BY <1>3, RunCtx DEF HandleCgi
  <1> QED
    BY <1>1, <1>2, <1>3

\* What ~request does to files and children.
LEMMA UnlinkType ==
    ASSUME NEW x \in Ctx
    PROVE  LET y == Unlink(x)
           IN /\ y.k = x.k /\ y.ex = x.ex /\ y.raced = x.raced
              /\ y.kids \in [Pids -> Kid] /\ y.tmp \in [Paths -> File]
              /\ \A q \in Pids :
                   /\ y.kids[q].st = x.kids[q].st /\ y.kids[q].owner = x.kids[q].owner
                   /\ y.kids[q].out = x.kids[q].out /\ y.kids[q].wrote = x.kids[q].wrote
                   /\ y.kids[q].code = x.kids[q].code /\ y.kids[q].killer = x.kids[q].killer
                   /\ x.k.out # None =>
                        (y.kids[q].linked <=> x.kids[q].linked /\ x.kids[q].out # x.k.out)
                   /\ x.k.out = None => y.kids[q].linked = x.kids[q].linked
              /\ \A i \in Paths : y.tmp[i] = IF i = x.k.out THEN NoFile ELSE x.tmp[i]
  <1> DEFINE y == Unlink(x)
             o == x.k.out
             lost == [linked |-> FALSE]
  <1>1. x.kids \in [Pids -> Kid] /\ x.tmp \in [Paths -> File] /\ o \in Paths \cup {None}
    BY DEF Ctx, Client
  <1>2. CASE o = None
    BY <1>1, <1>2, CgiAssumption DEF Unlink
  <1>3. CASE o # None
    <2> DEFINE kid(q) == IF x.kids[q].out = o THEN [x.kids[q] EXCEPT !.linked = FALSE]
                         ELSE x.kids[q]
    <2>1. /\ y.k = x.k /\ y.ex = x.ex /\ y.raced = x.raced
          /\ y.tmp = [x.tmp EXCEPT ![o] = NoFile]
          /\ y.kids = [q \in Pids |-> kid(q)]
      BY <1>3 DEF Unlink, Ctx
    <2>2. \A q \in Pids :
             /\ kid(q) \in Kid /\ kid(q).st = x.kids[q].st
             /\ kid(q).owner = x.kids[q].owner
             /\ kid(q).out = x.kids[q].out /\ kid(q).wrote = x.kids[q].wrote
             /\ kid(q).code = x.kids[q].code /\ kid(q).killer = x.kids[q].killer
             /\ kid(q).linked <=> x.kids[q].linked /\ x.kids[q].out # o
      BY <1>1, ZenonT(40) DEF Kid
    <2> HIDE DEF kid, y
    <2>3. y.tmp \in [Paths -> File] /\ \A i \in Paths : y.tmp[i] = IF i = o THEN NoFile ELSE x.tmp[i]
      BY <1>1, <1>3, <2>1 DEF File, NoFile
    <2>4. y.kids \in [Pids -> Kid] /\ \A q \in Pids : y.kids[q] = kid(q)
      BY <2>1, <2>2
    <2> QED
      BY <1>3, <2>1, <2>2, <2>3, <2>4 DEF y
  <1> QED
    BY <1>2, <1>3

\* A client that is SERVED is removed, with what belongs to it.
LEMMA SettleInv ==
    ASSUME clients \in [Clients -> Client], NEW c \in Clients, NEW x, CInv(c, x),
           x.k.state = "SERVING_CGI", NEW s, s = Settle(x)
    PROVE  Inv([clients EXCEPT ![c] = s.k], s.kids, s.ex, s.tmp, s.raced, {})
  <1>1. CASE ~x.served
    BY <1>1 DEF CInv, Settle
  <1>2. CASE x.served
    <2> DEFINE y == Unlink(x)
               cl == [clients EXCEPT ![c] = x.k]
               cl2 == [cl EXCEPT ![c].state = "removed"]
    <2>1. x \in Ctx /\ x.k \in Client /\ Inv(cl, x.kids, x.ex, x.tmp, x.raced, {c})
      BY <1>2 DEF CInv, Ctx
    <2>2. cl[c] = x.k /\ cl2 = [clients EXCEPT ![c] = AsRemoved(x.k)]
      BY <2>1 DEF AsRemoved
    <2>3. y.k = x.k
      BY <2>1, UnlinkType
    <2>4. /\ s.k = AsRemoved(x.k) /\ s.kids = y.kids /\ s.ex = y.ex /\ s.tmp = y.tmp
          /\ s.raced = y.raced
      BY <1>2, <2>1 DEF Settle, AsRemoved, Unlink, Ctx
    <2>5. x.k.out = None => \A q \in Pids : x.kids[q].linked => x.kids[q].out # None
      <3>1. \A q \in Pids : KidFacts(x.kids[q])
        BY <2>1, KidIsKnown DEF Inv, Types
      <3> QED
        BY <3>1, CgiAssumption DEF KidFacts
    <2> HIDE DEF y, cl, cl2
    <2>6. /\ y.kids \in [Pids -> Kid] /\ y.tmp \in [Paths -> File]
          /\ Unlinked(x.kids, x.tmp, cl[c].out, y.kids, y.tmp)
      BY <2>1, <2>2, <2>5, UnlinkType DEF y, Unlinked
    <2>7. Inv(cl2, y.kids, x.ex, y.tmp, x.raced, {})
      <3>1. cl[c].state = "SERVING_CGI"
        BY <2>2
      <3> QED
        BY <2>1, <2>6, <3>1, RemoveInv DEF cl2
    <2>8. y.ex = x.ex /\ y.raced = x.raced
      BY <2>1, UnlinkType DEF y
    <2> QED
      BY <2>2, <2>4, <2>7, <2>8
  <1> QED
    BY <1>1, <1>2

-----------------------------------------------------------------------------
(* The actions.                                                            *)

LEMMA BecomeInv ==
    ASSUME NEW c \in Clients, NEW s, Become(c, s),
           Inv([clients EXCEPT ![c] = s.k], s.kids, s.ex, s.tmp, s.raced, {})
    PROVE  IInv'
  BY DEF Become, IInv

LEMMA InitIInv == Init => IInv
  <1> SUFFICES ASSUME Init PROVE IInv
    OBVIOUS
  <1> DEFINE k == [Fresh(FALSE, FALSE, None) EXCEPT !.state = "idle"]
  <1>1. /\ k \in Client /\ k.state = "idle" /\ k.stale = FALSE /\ k.running = FALSE
        /\ k.pid = None /\ k.out = None /\ k.code = 0
    BY NoOutputType DEF Client, Fresh
  <1>2. /\ Unused \in Kid /\ Unused.st = "unused" /\ Unused.owner = None
        /\ Unused.linked = FALSE /\ Unused.code = None /\ Unused.killer = None
    BY DEF Kid, Unused
  <1>3. NoFile \in File /\ NoFile.there = FALSE /\ NoFile.by = {}
    BY DEF File, NoFile
  <1>4. /\ \A c \in Clients : clients[c] = k
        /\ \A p \in Pids : kids[p] = Unused /\ ex_childs[p] = None
        /\ \A i \in Paths : tmp[i] = NoFile
    BY DEF Init
  <1>5. Types(clients, kids, ex_childs, tmp, raced)
    BY <1>1, <1>2, <1>3 DEF Init, Types
  <1> HIDE DEF k
  <1>6. KidForm(Unused) /\ ClientForm(k, k.state = "removed")
    BY <1>1, <1>2 DEF KidForm, ClientForm
  <1>7. /\ \A p \in Pids : KidForm(kids[p])
        /\ \A c \in Clients : ClientForm(clients[c], clients[c].state = "removed" \/ c \in {})
    BY <1>4, <1>6
  <1>8. ExForm(kids, ex_childs) /\ Owned(clients, kids)
    BY <1>1, <1>2, <1>4 DEF ExForm, Owned
  <1>9. Killed(clients, kids) /\ Answered(clients, kids)
    BY <1>1, <1>2, <1>4 DEF Killed, Answered
  <1>10. FileForm(kids, tmp) /\ Unforked(clients, tmp)
    BY <1>1, <1>2, <1>3, <1>4 DEF FileForm, Unforked
  <1>11. Apart(clients, kids, tmp)
    BY <1>1, <1>2, <1>4, CgiAssumption DEF Apart, Holds, Opened, Codes
  <1>12. Own(clients, kids)
    BY <1>1, <1>4 DEF Own
  <1> QED
    BY <1>5, <1>7, <1>8, <1>9, <1>10, <1>11, <1>12 DEF IInv, Inv

LEMMA RequestStep ==
    ASSUME IInv, NEW c \in Clients, Request(c)
    PROVE  IInv'
  <1>1. PICK post, stale \in BOOLEAN, pid \in Pids \cup {None} :
            clients' = [clients EXCEPT ![c] = Fresh(post, stale, pid)]
    BY DEF Request
  <1> DEFINE k == Fresh(post, stale, pid)
  <1>2. /\ k \in Client /\ k.state = "SERVING_CGI" /\ k.out = None /\ k.code = 0
        /\ k.running = k.stale
    BY NoOutputType DEF Client, Fresh
  <1> HIDE DEF k
  <1>3. clients[c].state = "idle" /\ Inv(clients, kids, ex_childs, tmp, raced, {})
    BY DEF Request, IInv
  <1>4. Inv([clients EXCEPT ![c] = k], kids, ex_childs, tmp, raced, {})
    BY <1>2, <1>3, RequestInv
  <1> QED
    BY <1>1, <1>4 DEF Request, IInv, k

LEMMA HandleClientStep ==
    ASSUME IInv, NEW c \in Clients, HandleClient(c)
    PROVE  IInv'
  <1>1. PICK x \in Reap(Context(c)) : \E y \in HandleCgi(c, x) : Become(c, Settle(y))
    BY DEF HandleClient
  <1>2. PICK y \in HandleCgi(c, x) : Become(c, Settle(y))
    BY <1>1
  <1>3. clients \in [Clients -> Client] /\ clients[c].state = "SERVING_CGI"
    BY DEF HandleClient, IInv, Inv, Types
  <1>4. CInv(c, x) /\ x.k = clients[c] /\ ~x.served
    BY ContextInv, ReapCtx
  <1>5. CInv(c, y) /\ y.k.state = "SERVING_CGI"
    BY <1>3, <1>4, HandleCgiCtx
  <1> DEFINE s == Settle(y)
  <1>6. Inv([clients EXCEPT ![c] = s.k], s.kids, s.ex, s.tmp, s.raced, {})
    BY <1>3, <1>5, SettleInv
  <1> QED
    BY <1>2, <1>6, BecomeInv

LEMMA OtherEventStep ==
    ASSUME IInv, NEW c \in Clients, OtherEvent(c)
    PROVE  IInv'
  <1>1. PICK x \in Reap(Context(c)) : Become(c, x)
    BY DEF OtherEvent
  <1>2. CInv(c, x) /\ ~x.served
    BY ContextInv, ReapCtx
  <1>3. Inv([clients EXCEPT ![c] = x.k], x.kids, x.ex, x.tmp, x.raced, {})
    BY <1>2 DEF CInv
  <1> QED
    BY <1>1, <1>3, BecomeInv

LEMMA HangupStep ==
    ASSUME IInv, NEW c \in Clients, Hangup(c)
    PROVE  IInv'
  <1> DEFINE x == Context(c)
             y == [x EXCEPT !.served = TRUE]
             s == Settle(y)
  <1>1. clients \in [Clients -> Client] /\ clients[c].state = "SERVING_CGI"
    BY DEF Hangup, IInv, Inv, Types
  <1>2. CInv(c, x) /\ x.k = clients[c] /\ ~x.served
    BY ContextInv
  <1>3. x.k \in Client /\ ClientForm(x.k, x.k.state = "removed" \/ x.served)
    BY <1>1, <1>2, ClientOfCtx
  <1>4. Become(c, s)
    BY DEF Hangup
  <1> HIDE DEF x
  <1>5. /\ y.k = x.k /\ y.kids = x.kids /\ y.ex = x.ex /\ y.tmp = x.tmp
        /\ y.raced = x.raced /\ y.served = TRUE /\ y \in Ctx
    BY <1>2 DEF CInv, Ctx
  <1> HIDE DEF y
  <1>6. Alike(y.k, x.k) /\ ClientForm(y.k, y.k.state = "removed" \/ y.served)
    BY <1>3, <1>5 DEF Alike, ClientForm
  <1>7. CInv(c, y) /\ y.k.state = "SERVING_CGI"
    BY <1>1, <1>2, <1>5, <1>6, SameClientCtx
  <1>8. Inv([clients EXCEPT ![c] = s.k], s.kids, s.ex, s.tmp, s.raced, {})
    BY <1>1, <1>7, SettleInv
  <1> HIDE DEF s
  <1> QED
    BY <1>4, <1>8, BecomeInv

LEMMA ExpireStep ==
    ASSUME IInv, NEW c \in Clients, Expire(c)
    PROVE  IInv'
  <1> DEFINE k == AsLate(clients[c])
             nobody == {}
  <1>1. clients \in [Clients -> Client] /\ Inv(clients, kids, ex_childs, tmp, raced, nobody)
    BY DEF IInv, Inv, Types
  <1>2. /\ k \in Client /\ Alike(k, clients[c]) /\ k.running = clients[c].running
        /\ k.code = clients[c].code /\ k.sent = clients[c].sent
    BY <1>1, AsLateType
  <1>3. clients' = [clients EXCEPT ![c] = k]
    BY <1>1 DEF Expire, AsLate
  <1> HIDE DEF k, nobody
  <1>4. ClientForm(k, k.state = "removed" \/ c \in nobody)
    BY <1>1, <1>2 DEF Inv, ClientForm, Alike
  <1>5. k.code = 200 => MaySend(kids, raced, c, k.sent)
    <2>1. Answered(clients, kids) /\ (~raced => Own(clients, kids))
      BY <1>1 DEF Inv
    <2>2. clients[c].code = 200 => MaySend(kids, raced, c, clients[c].sent)
      BY <2>1 DEF Answered, Own, MaySend
    <2> QED
      BY <1>2, <2>2
  <1>6. Inv([clients EXCEPT ![c] = k], kids, ex_childs, tmp, raced, nobody)
    <2>1. nobody \subseteq nobody
      OBVIOUS
    <2> QED
      BY <1>1, <1>2, <1>4, <1>5, <2>1, ClientInv
  <1> QED
    BY <1>3, <1>6 DEF Expire, IInv, nobody

LEMMA OpenStep ==
    ASSUME IInv, NEW p \in Pids, Open(p)
    PROVE  IInv'
  <1>1. /\ kids \in [Pids -> Kid] /\ kids[p] \in Kid /\ kids[p].st = "forked"
        /\ Inv(clients, kids, ex_childs, tmp, raced, {})
    BY DEF Open, IInv, Inv, Types
  <1>2. CASE /\ kids' = [kids EXCEPT ![p] = AsOpened(kids[p])]
             /\ tmp' = [tmp EXCEPT ![kids[p].out].there = TRUE]
    <2> DEFINE k == AsOpened(kids[p])
    <2>1. /\ k \in Kid /\ k.st = "running" /\ k.linked /\ k.owner = kids[p].owner
          /\ k.out = kids[p].out /\ k.wrote = kids[p].wrote /\ k.code = kids[p].code
          /\ k.killer = kids[p].killer
      BY <1>1, AsOpenedType
    <2> HIDE DEF k
    <2>2. Inv(clients, [kids EXCEPT ![p] = k], ex_childs,
              [tmp EXCEPT ![kids[p].out].there = TRUE], raced, {})
      BY <1>1, <2>1, OpenInv
    <2> QED
      BY <1>2, <2>2 DEF Open, IInv, k
  <1>3. CASE kids' = [kids EXCEPT ![p] = AsExited(kids[p], "42")] /\ tmp' = tmp
    <2> DEFINE k == AsExited(kids[p], "42")
    <2>1. /\ k \in Kid /\ k.st = "exited" /\ k.code = "42" /\ k.owner = kids[p].owner
          /\ k.out = kids[p].out /\ k.linked = kids[p].linked /\ k.wrote = kids[p].wrote
          /\ k.killer = kids[p].killer
      BY <1>1, AsExitedType DEF Codes
    <2> HIDE DEF k
    <2>2. Inv(clients, [kids EXCEPT ![p] = k], ex_childs, tmp, raced, {})
      BY <1>1, <2>1, EndInv
    <2> QED
      BY <1>3, <2>2 DEF Open, IInv, k
  <1> QED
    BY <1>2, <1>3 DEF Open, Set, AsOpened, AsExited

LEMMA WriteStep ==
    ASSUME IInv, NEW p \in Pids, Write(p)
    PROVE  IInv'
  <1> DEFINE k == AsWritten(kids[p])
             tm2 == IF kids[p].linked
                    THEN [tmp EXCEPT ![kids[p].out].by = @ \cup {kids[p].owner}] ELSE tmp
  <1>1. /\ kids \in [Pids -> Kid] /\ kids[p] \in Kid
        /\ kids[p].st = "running" /\ ~kids[p].wrote
        /\ Inv(clients, kids, ex_childs, tmp, raced, {})
    BY DEF Write, IInv, Inv, Types
  <1>2. /\ k \in Kid /\ k.st = "running" /\ k.wrote /\ k.owner = kids[p].owner
        /\ k.out = kids[p].out /\ k.linked = kids[p].linked /\ k.code = kids[p].code
        /\ k.killer = kids[p].killer
    BY <1>1, AsWrittenType
  <1>3. kids' = [kids EXCEPT ![p] = k] /\ tmp' = tm2
    BY DEF Write, Set, AsWritten
  <1> HIDE DEF k
  <1>4. Inv(clients, [kids EXCEPT ![p] = k], ex_childs, tm2, raced, {})
    BY <1>1, <1>2, WriteInv
  <1> HIDE DEF tm2
  <1> QED
    BY <1>3, <1>4 DEF Write, IInv

LEMMA ExitStep ==
    ASSUME IInv, NEW p \in Pids, Exit(p)
    PROVE  IInv'
  <1>1. /\ kids \in [Pids -> Kid] /\ kids[p] \in Kid /\ kids[p].st = "running"
        /\ kids[p].code = None
        /\ Inv(clients, kids, ex_childs, tmp, raced, {})
    BY DEF Exit, IInv, Inv, Types, KidForm
  <1>2. ASSUME NEW code \in Codes, kids' = [kids EXCEPT ![p] = AsExited(kids[p], code)]
        PROVE  IInv'
    <2> DEFINE k == AsExited(kids[p], code)
    <2>1. /\ k \in Kid /\ k.st = "exited" /\ k.code = code /\ k.owner = kids[p].owner
          /\ k.out = kids[p].out /\ k.linked = kids[p].linked /\ k.wrote = kids[p].wrote
          /\ k.killer = kids[p].killer
      BY <1>1, AsExitedType
    <2> HIDE DEF k
    <2>2. Inv(clients, [kids EXCEPT ![p] = k], ex_childs, tmp, raced, {})
      BY <1>1, <2>1, EndInv
    <2> QED
      BY <1>2, <2>2 DEF Exit, IInv, k
  <1>3. CASE kids' = [kids EXCEPT ![p] = AsSignalled(kids[p])]
    <2> DEFINE k == AsSignalled(kids[p])
    <2>1. /\ k \in Kid /\ k.st = "signalled" /\ k.owner = kids[p].owner
          /\ k.out = kids[p].out /\ k.linked = kids[p].linked /\ k.wrote = kids[p].wrote
          /\ k.code = None /\ k.killer = kids[p].killer
      BY <1>1, AsSignalledType
    <2>2. k.code # "ok"
      BY <2>1, CgiAssumption DEF Codes
    <2> HIDE DEF k
    <2>3. Inv(clients, [kids EXCEPT ![p] = k], ex_childs, tmp, raced, {})
      BY <1>1, <2>1, <2>2, EndInv
    <2> QED
      BY <1>3, <2>3 DEF Exit, IInv, k
  <1> QED
    BY <1>2, <1>3 DEF Exit, Set, AsExited, AsSignalled

LEMMA NextIInv == IInv /\ [Next]_vars => IInv'
  <1> SUFFICES ASSUME IInv, [Next]_vars PROVE IInv'
    OBVIOUS
  <1>1. ASSUME NEW c \in Clients, Request(c) PROVE IInv'
    BY <1>1, RequestStep
  <1>2. ASSUME NEW c \in Clients, HandleClient(c) PROVE IInv'
    BY <1>2, HandleClientStep
  <1>3. ASSUME NEW c \in Clients, OtherEvent(c) PROVE IInv'
    BY <1>3, OtherEventStep
  <1>4. ASSUME NEW c \in Clients, Hangup(c) PROVE IInv'
    BY <1>4, HangupStep
  <1>5. ASSUME NEW c \in Clients, Expire(c) PROVE IInv'
    BY <1>5, ExpireStep
  <1>6. ASSUME NEW p \in Pids, Open(p) PROVE IInv'
    BY <1>6, OpenStep
  <1>7. ASSUME NEW p \in Pids, Write(p) PROVE IInv'
    BY <1>7, WriteStep
  <1>8. ASSUME NEW p \in Pids, Exit(p) PROVE IInv'
    BY <1>8, ExitStep
  <1>9. CASE UNCHANGED vars
    BY <1>9 DEF vars, IInv
  <1> QED
    BY <1>1, <1>2, <1>3, <1>4, <1>5, <1>6, <1>7, <1>8, <1>9 DEF Next

-----------------------------------------------------------------------------
(* What holds of every behaviour.                                          *)

\* The inductive invariant: what a client knows of its script is true of one
\* child, which has what the client will be told.
THEOREM ScriptInvariant == Spec => []IInv
  BY InitIInv, NextIInv, PTL DEF Spec

\* Clients, children, exit codes and files stay what they are declared to be,
\* through every step of handle_cgi and every step of a script.
THEOREM TypeCorrect == Spec => []TypeOK
  <1>1. IInv => TypeOK
    BY DEF IInv, Inv, Types, TypeOK
  <1> QED
    BY <1>1, ScriptInvariant, PTL

\* The output of a script is sent only when the client's own child has exited
\* by itself with success and was waited for.
THEOREM AnsweredAfterExit == Spec => []AnswerAfterExit
  <1>1. IInv => AnswerAfterExit
    BY DEF IInv, Inv, Answered, AnswerAfterExit, OwnKid
  <1> QED
    BY <1>1, ScriptInvariant, PTL

\* What is sent is of the client's own script and of no other, and is all that
\* the script has written if send() took all it was given; unless serve_cgi
\* gave one name to two scripts.
THEOREM OutputIsOwn == Spec => []OutputOwn
  <1>1. IInv => OutputOwn
    BY DEF IInv, Inv, Own, IsOwn, Wrote, OutputOwn, OwnKid
  <1> QED
    BY <1>1, ScriptInvariant, PTL

\* A time-out kills the client's own child and no other, unless cgi_running
\* was true before anything was started.
THEOREM KillsOnlyItsOwn == Spec => []NoForeignKill
  <1>1. IInv => NoForeignKill
    BY DEF IInv, Inv, Killed, NoForeignKill, OwnKid
  <1> QED
    BY <1>1, ScriptInvariant, PTL
=============================================================================
