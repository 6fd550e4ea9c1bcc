------------------------------ MODULE MCKqueue ------------------------------
(* Small instances of the event loop. *)
EXTENDS KqueueProps, TLC

\* Descriptors and connection names are interchangeable.
Sym == Permutations(Fds) \cup Permutations(Conns)
=============================================================================
