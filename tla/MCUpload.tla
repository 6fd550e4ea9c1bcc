------------------------------ MODULE MCUpload ------------------------------
(* Small instances of the uploads. *)
EXTENDS UploadProps, TLC

Req(m, p, t, l, n) ==
    [method |-> m, path |-> p, te |-> t, len |-> l, total |-> n]

\* Bodies of negative, zero, exact, short and excessive length.
Posts == {Req("POST", 0, "length", l, n) : l \in {-1, 0, 2, 3}, n \in {0, 2, 3}}
Chunked == {Req("POST", 0, "chunked", l, 3) : l \in {-1, 2, 3}}
Puts == {Req("PUT", p, "length", l, 2) : p \in {0, 1}, l \in {1, 2}}
           \cup {Req("PUT", 0, "absent", l, 1) : l \in {0, 2}}

AllRequests == Posts \cup Chunked \cup Puts

Sym == Permutations(Clients) \cup Permutations(Inodes)
=============================================================================
