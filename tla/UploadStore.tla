----------------------------- MODULE UploadStore ----------------------------
(***************************************************************************)
(* What an upload promises its client: the document comes into being in    *)
(* one step, holds exactly the bytes that were declared, and stays so.     *)
(***************************************************************************)
EXTENDS Integers, Sequences

CONSTANTS Clients

VARIABLES want,  \* how many bytes each client's document has
          doc    \* what each client was acknowledged: nothing or one document

Init == /\ want \in [Clients -> Int]
        /\ doc = [c \in Clients |-> {}]

Store(c) ==
    /\ doc[c] = {}
    /\ doc' = [doc EXCEPT ![c] = {[i \in 1..want[c] |-> <<c, i>>]}]
    /\ UNCHANGED want

Next == \E c \in Clients : Store(c)

Spec == Init /\ [][Next]_<<want, doc>>
=============================================================================
