------------------------------- MODULE Upload -------------------------------
(***************************************************************************)
(* Uploads: Post::serve_client and Put::serve_client, create_file,         *)
(* upload_file, parse_non_chunked_body and upload_finish, for several      *)
(* clients of the single-threaded server whose files lie in one directory. *)
(*                                                                         *)
(* The i-th byte that client c sends after its header is <<c, i>>; what is *)
(* in a file is a sequence of such bytes, so a byte lost, repeated,        *)
(* misplaced or mixed with another client's shows.                         *)
(***************************************************************************)
EXTENDS Integers, Sequences

CONSTANTS Clients,    \* one request each: a later one of the same peer is new
          Requests,   \* what they may ask for, see Request
          Inodes,     \* bound: files ever created
          LastPath,   \* bound: paths 0..LastPath; POST takes them in order
          BufferSize, \* MAX_BUFFER_SIZE
          MaxBody     \* max_body_size of the server block

Paths == 0..LastPath
None  == "none"

\* te: how the body is delimited. `len' is request->content_length, which
\* handle_413 sets from the header of that name; without one the member is
\* never initialised and holds anything. `total' is what the peer will send
\* after the header. handle_400 lets a POST through only with one of the two
\* headers.
Request == [method : {"POST", "PUT"}, path : Paths,
            te : {"length", "chunked", "absent"}, len : Int, total : Nat]
Valid(r)    == r \in Request /\ ~(r.method = "POST" /\ r.te = "absent")
Declared(r) == r.te = "length"

ASSUME SizesAssumption ==
    /\ LastPath \in Nat /\ MaxBody \in Nat /\ BufferSize \in Nat \ {0}
    /\ \A r \in Requests : Valid(r)
    /\ None \notin Inodes

VARIABLES
    state,      \* client->state: no request yet, being served, or done
    req,        \* what the peer asked for and will send
    first_time, \* request->first_time
    file_exist, \* response->file_exist
    file,       \* the inode request->file is (or was) open on, or none
    body_size,  \* request->body_size; also the descriptor's file offset
    body,       \* request->body
    received,   \* kernel: how many bytes of the peer's recv() has returned
    code,       \* status of the answer, 0 before there is one
    fs,         \* the directory: path -> inode, or none
    data        \* contents of the inodes

requestVars == <<state, req, first_time, file_exist, file, body_size, body,
                 received, code>>
vars == <<requestVars, fs, data>>

-----------------------------------------------------------------------------
Hole  == << >>        \* a byte of none of the clients: old, or never written
Bytes == (Clients \X Nat) \cup {Hole}

Segment(c, from, n) == [i \in 1..n |-> <<c, from + i>>]
AtMost(n, m)        == IF n <= m THEN n ELSE m

TypeOK ==
    /\ state \in [Clients -> {"idle", "SERVING", "SERVED"}]
    /\ req \in [Clients -> Requests]
    /\ first_time \in [Clients -> BOOLEAN]
    /\ file_exist \in [Clients -> BOOLEAN]
    /\ file \in [Clients -> Inodes \cup {None}]
    /\ body_size \in [Clients -> Int]
    /\ body \in [Clients -> Seq(Clients \X Nat)]
    /\ received \in [Clients -> Nat]
    /\ code \in [Clients -> {0, 201, 204, 403, 404, 413, 500}]
    /\ fs \in [Paths -> Inodes \cup {None}]
    /\ data \in [Inodes -> Seq(Bytes)]

\* Some of the paths may be taken by older files.
Init ==
    /\ state = [c \in Clients |-> "idle"]
    /\ req \in [Clients -> Requests]
    /\ first_time = [c \in Clients |-> TRUE]
    /\ file_exist = [c \in Clients |-> FALSE]
    /\ file = [c \in Clients |-> None]
    /\ body_size = [c \in Clients |-> 0]
    /\ body = [c \in Clients |-> << >>]
    /\ received = [c \in Clients |-> 0]
    /\ code = [c \in Clients |-> 0]
    /\ fs \in {f \in [Paths -> Inodes \cup {None}] :
                 \A p, q \in Paths : f[p] = f[q] /\ f[p] # None => p = q}
    /\ data = [i \in Inodes |-> <<Hole, Hole, Hole>>]

-----------------------------------------------------------------------------
\* mutant: the limit is compared with one byte less
TooLargeByTwo(c) == Declared(req[c]) /\ MaxBody < req[c].len - 1

\* The test of handle_413
TooLarge(c) == Declared(req[c]) /\ MaxBody < req[c].len

\* read_header and architect_response: what follows the header in the same
\* segment is the first of the body; a declared length is held to the limit.
Begin(c) ==
    /\ state[c] = "idle"
    /\ \E n \in 0..AtMost(BufferSize, req[c].total) :
          /\ body' = [body EXCEPT ![c] = Segment(c, 0, n)]
          /\ received' = [received EXCEPT ![c] = n]
    /\ IF TooLarge(c)
       THEN /\ state' = [state EXCEPT ![c] = "SERVED"]
            /\ code' = [code EXCEPT ![c] = 413]
       ELSE /\ state' = [state EXCEPT ![c] = "SERVING"]
            /\ UNCHANGED code
    /\ UNCHANGED <<req, first_time, file_exist, file, body_size, fs, data>>

-----------------------------------------------------------------------------
(* create_file. A successful open() is described by the inode it yields    *)
(* and by the directory and the contents it leaves.                        *)

\* mutant: the first candidate name is taken without looking
FreePathUnchecked(p) == p = 0

\* The first of uploaded_file, uploaded_file1, ... that access() misses.
FreePath(p) == fs[p] = None /\ \A q \in 0..(p - 1) : fs[q] # None

Unused(i) == /\ \A p \in Paths : fs[p] # i
             /\ \A c \in Clients : file[c] # i

\* open(O_CREAT | O_RDWR) makes a file or opens the one there is, as it is.
OpenCreate(p) ==
    IF fs[p] # None
    THEN { [ino |-> fs[p], exist |-> FALSE, fs |-> fs, data |-> data] }
    ELSE { [ino |-> i, exist |-> FALSE, fs |-> [fs EXCEPT ![p] = i],
            data |-> [data EXCEPT ![i] = << >>]] : i \in {j \in Inodes : Unused(j)} }

\* open(O_TRUNC | O_RDWR)
OpenTruncated(p) ==
    { [ino |-> fs[p], exist |-> TRUE, fs |-> fs,
       data |-> [data EXCEPT ![fs[p]] = << >>]] }

CreateFile(c) ==
    IF req[c].method = "POST"
    THEN UNION {OpenCreate(p) : p \in {q \in Paths : FreePath(q)}}
    ELSE IF fs[req[c].path] # None THEN OpenTruncated(req[c].path)
    ELSE OpenCreate(req[c].path)

AlreadyOpen(c) ==
    [ino |-> file[c], exist |-> file_exist[c], fs |-> fs, data |-> data]

\* The directory is missing or closed to us, the file is, or open() fails.
CreateFails(c) ==
    /\ first_time[c]
    /\ state' = [state EXCEPT ![c] = "SERVED"]
    /\ code' \in {[code EXCEPT ![c] = e] : e \in {403, 404, 500}}
    /\ body_size' = [body_size EXCEPT ![c] = 0]
    /\ UNCHANGED <<req, first_time, file_exist, file, body, received, fs, data>>

-----------------------------------------------------------------------------
(* upload_file *)

\* What recv() may append: at most a buffer of what the peer sends. Only the
\* first call, made for the header, can find nothing to read.
Arrivals(c) ==
    { Segment(c, received[c], n) : n \in
        (IF first_time[c] THEN 0 ELSE 1)
            ..AtMost(BufferSize, req[c].total - received[c]) }

\* mutant: every piece is written at the start of the file
WriteAtStart(d, off, s) == s

\* write() at the descriptor's offset, possibly beyond the end of a file that
\* another descriptor has truncated.
Write(d, off, s) ==
    IF s = << >> THEN d
    ELSE [i \in 1..(IF Len(d) > off + Len(s) THEN Len(d) ELSE off + Len(s)) |->
            IF i > off /\ i <= off + Len(s) THEN s[i - off]
            ELSE IF i <= Len(d) THEN d[i] ELSE Hole]

\* mutant: the last byte is waited for once more
BodyEndsLate(c, b) == body_size[c] + Len(b) > req[c].len

\* The test of parse_non_chunked_body, with b in request->body.
BodyEnds(c, b) == ~(body_size[c] + Len(b) < req[c].len)

\* mutant: the whole buffer is written, pipelined bytes included
LastPieceWhole(c, b) == b

\* What is left of the body; of a negative count write() takes nothing.
LastPiece(c, b) == SubSeq(b, 1, req[c].len - body_size[c])

\* mutant: request->body is written and not cleared
RestOfBodyKept(c, b) == b

\* body.clear() after a piece that is not the last
RestOfBody(c, b) == << >>

\* mutant: a file that was there before is acknowledged with 200
FinishCode200(o) == IF o.exist THEN 200 ELSE 201

\* upload_finish
FinishCode(o) == IF o.exist THEN 204 ELSE 201

ParseBody(c, o, b) ==
    IF BodyEnds(c, b)
    THEN /\ data' = [o.data EXCEPT ![o.ino] =
                       Write(@, body_size[c], LastPiece(c, b))]
         /\ body_size' = [body_size EXCEPT ![c] = req[c].len]
         /\ body' = [body EXCEPT ![c] = << >>]
         /\ state' = [state EXCEPT ![c] = "SERVED"]
         /\ code' = [code EXCEPT ![c] = FinishCode(o)]
    ELSE /\ data' = [o.data EXCEPT ![o.ino] = Write(@, body_size[c], b)]
         /\ body_size' = [body_size EXCEPT ![c] = @ + Len(b)]
         /\ body' = [body EXCEPT ![c] = RestOfBody(c, b)]
         /\ UNCHANGED <<state, code>>

\* recv() returned 0: the client is dropped without an answer.
StopReading(c, o) ==
    /\ data' = o.data
    /\ state' = [state EXCEPT ![c] = "SERVED"]
    /\ UNCHANGED <<body_size, body, received, code>>

Opened(c) == IF first_time[c] THEN CreateFile(c) ELSE {AlreadyOpen(c)}

\* The part of a call before recv(): open the file if this is the first one.
OpenFile(c, o) ==
    /\ fs' = o.fs
    /\ file' = [file EXCEPT ![c] = o.ino]
    /\ file_exist' = [file_exist EXCEPT ![c] = o.exist]
    /\ first_time' = [first_time EXCEPT ![c] = FALSE]
    /\ UNCHANGED req

\* Post::serve_client and Put::serve_client, by what recv() returns
ServeData(c) ==
    /\ state[c] = "SERVING"
    /\ \/ CreateFails(c)
       \/ \E o \in Opened(c), s \in Arrivals(c) :
             /\ OpenFile(c, o)
             /\ received' = [received EXCEPT ![c] = @ + Len(s)]
             /\ ParseBody(c, o, body[c] \o s)

ServeEof(c) ==
    /\ state[c] = "SERVING"
    /\ \E o \in Opened(c) : OpenFile(c, o) /\ StopReading(c, o)

\* EV_EOF: the loop drops the client, read or unread.
Hangup(c) ==
    /\ state[c] = "SERVING" /\ ~first_time[c]
    /\ state' = [state EXCEPT ![c] = "SERVED"]
    /\ UNCHANGED <<req, first_time, file_exist, file, body_size, body,
                   received, code, fs, data>>

\* A DELETE of the file. Its inode lives on while a descriptor is open on it.
Unlink(p) ==
    /\ fs[p] # None
    /\ fs' = [fs EXCEPT ![p] = None]
    /\ UNCHANGED <<requestVars, data>>

Next == \/ \E c \in Clients :
               Begin(c) \/ ServeData(c) \/ ServeEof(c) \/ Hangup(c)
        \/ \E p \in Paths : Unlink(p)

Spec == Init /\ [][Next]_vars

\* A client with input is served as long as it is uploading: the filter is
\* level-triggered and the loop works off every batch. Nobody need hang up.
FairSpec == Spec /\ \A c \in Clients : WF_vars(ServeData(c))
=============================================================================
