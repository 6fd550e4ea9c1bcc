----------------------------- MODULE UploadProps ----------------------------
(* Correctness of the uploads of module Upload. *)
EXTENDS Upload

Prefix(c, n) == Segment(c, 0, n)
Answered(c)  == code[c] \in {201, 204}

\* Another client has opened the same file since: a PUT on the path of an
\* upload truncates it under the first writer.
Disturbed(c) == \E d \in Clients \ {c} : file[d] = file[c]

\* However the body is cut into segments, and whatever part of it came with
\* the header, the file of an upload in progress holds its first body_size
\* bytes: nothing lost, repeated or out of place from one call of
\* parse_non_chunked_body to the next (upload.tools.cpp:103-120).
StoredInOrder ==
    \A c \in Clients :
        file[c] # None /\ ~Disturbed(c) /\ body_size[c] >= 0
            => data[file[c]] = Prefix(c, body_size[c])

\* An upload acknowledged with 201 or 204 is complete: its file holds the
\* declared number of bytes, and none of what the peer sent after them
\* (upload.tools.cpp:114-119).
AcknowledgedIsComplete ==
    \A c \in Clients :
        Answered(c) /\ ~Disturbed(c) /\ req[c].len >= 0
            => data[file[c]] = Prefix(c, req[c].len)

\* Two POSTs never write to one file, although the name is looked up before
\* it is created: both happen in one handler call of the only thread
\* (upload.tools.cpp:20-37, 52-53).
PostsApart ==
    \A c, d \in Clients :
        /\ c # d /\ file[c] # None /\ file[c] = file[d]
        => req[c].method = "PUT" \/ req[d].method = "PUT"

\* A body with a declared length never puts more than client_max_body_size
\* bytes on the disk, not even when the peer sends more than it declared
\* (handlers.methods.cpp:343-384, upload.tools.cpp:108-117).
WithinLimit ==
    \A c \in Clients : Declared(req[c]) => body_size[c] <= MaxBody

\* An upload whose peer sends all it declared is answered or dropped; it
\* does not wait for a byte that will not come.
UploadAnswered ==
    \A c \in Clients :
        (state[c] = "SERVING" /\ req[c].total >= req[c].len)
            ~> state[c] = "SERVED"

\* handlers.methods.cpp:232-233 says of a transfer-encoding "chunked which is
\* what's our webserv is capable of": what such an upload stores is the
\* payload, without the framing, here the first and the last byte.
ChunkedDecoded ==
    \A c \in Clients :
        Answered(c) /\ req[c].te = "chunked" /\ ~Disturbed(c)
            => \A i \in DOMAIN data[file[c]] :
                 data[file[c]][i] \notin {<<c, 1>>, <<c, req[c].total>>}

-----------------------------------------------------------------------------
\* POST uploads implement the atomic store: what a client is told about is
\* there, complete, and no step of another POST touches it.
Store == INSTANCE UploadStore
           WITH want <- [c \in Clients |-> req[c].len],
                doc <- [c \in Clients |-> IF Answered(c) THEN {data[file[c]]}
                                          ELSE {}]
StoreSpec == Store!Spec
=============================================================================
