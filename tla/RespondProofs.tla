---------------------------- MODULE RespondProofs ----------------------------
(***************************************************************************)
(* Proofs about Respond, for every set of requests, every size of a file   *)
(* and every number of requests on a connection. A client that is being    *)
(* served and one that was answered each satisfy a predicate, Serving and  *)
(* Answered; each handler is shown to lead from the one to the one or the  *)
(* other, in the order of the code: the writing of heads, the chain of     *)
(* handlers, the methods, handle_client.                                   *)
(*                                                                         *)
(* The second half is about bodies: one is as long as its head has         *)
(* announced, or is in chunks up to the last-chunk, whenever the           *)
(* connection is kept behind it. The chain of handlers leaves a GET with a *)
(* head that fits the file (Ready), and a DELETE with a response that has  *)
(* nothing set (Unframed); handle_static_file keeps what it has sent equal *)
(* to what it has read (Sending). The sum of the pieces on a wire is a     *)
(* recursive function, reasoned about with the induction of SetInduction.  *)
(***************************************************************************)
EXTENDS RespondProps, SetInduction

-----------------------------------------------------------------------------
(* Writing to a client: response.struct.hpp:82-100 and both functions      *)
(* called fill_response.                                                   *)

\* What no handler changes of a client: the request it is about and what it
\* was found with.
SameRequest(r, k) ==
    /\ r.q = k.q /\ r.first_time = k.first_time /\ r.stale = k.stale
    /\ r.listing = k.listing /\ r.is_cgi = k.is_cgi /\ r.method = k.method
    /\ r.tree = k.tree

\* r is k with one more head on the wire.
HeadPut(r, k, ended) ==
    \E h \in StatusHead : r.wire = Append(k.wire, h) /\ h.conn = r.conn /\ h.ended = ended

\* r is k with one more piece of a body.
PiecePut(r, k) == \E p \in BodyPiece : r.wire = Append(k.wire, p)

\* A change of one field leaves the others, and the type, as they are.
LEMMA WireIs ==
    ASSUME NEW k \in Client, NEW w \in Wire
    PROVE  LET r == [k EXCEPT !.wire = w] IN
           /\ r \in Client
           /\ SameRequest(r, k)
           /\ r.state = k.state /\ r.code = k.code
           /\ r.conn = k.conn /\ r.file = k.file /\ r.wire = w
  BY DEF Client, SameRequest

\* Put appends to the wire and changes nothing else.
LEMMA Put1 ==
    ASSUME NEW k \in Client, NEW p \in StatusHead \cup BodyPiece
    PROVE  /\ Put(k, p) \in Client
           /\ SameRequest(Put(k, p), k)
           /\ Put(k, p).state = k.state /\ Put(k, p).code = k.code
           /\ Put(k, p).conn = k.conn /\ Put(k, p).file = k.file
           /\ Put(k, p).wire = Append(k.wire, p)
  <1> DEFINE w == Append(k.wire, p)
             r == [k EXCEPT !.wire = w]
  <1>1. w \in Wire
    <2>1. k.wire \in Wire
      BY DEF Client
    <2> DEFINE pieces == StatusHead \cup BodyPiece
    <2> HIDE DEF pieces
    <2>2. \A s \in Seq(pieces), x \in pieces : Append(s, x) \in Seq(pieces)
      OBVIOUS
    <2> QED
      BY <2>1, <2>2 DEF Wire, pieces
  <1>2. Put(k, p) = r
    BY DEF Put
  <1> HIDE DEF w
  <1>3. /\ r \in Client
        /\ SameRequest(r, k)
        /\ r.state = k.state /\ r.code = k.code
        /\ r.conn = k.conn /\ r.file = k.file /\ r.wire = w
    BY <1>1, WireIs
  <1> HIDE DEF r
  <1> QED
    BY <1>2, <1>3, Zenon DEF w

LEMMA StateIs ==
    ASSUME NEW k \in Client,
           NEW s \in {"SERVING_GET", "SERVING_POST", "SERVING_PUT", "SERVING_DELETE", "READING_HEADER",
              "SERVING_OPTIONS", "SERVING_CGI", "SERVED", "CLOSED", "KEEP_ALIVE"}
    PROVE  /\ State(k, s) \in Client
           /\ SameRequest(State(k, s), k)
           /\ State(k, s).state = s /\ State(k, s).code = k.code
           /\ State(k, s).conn = k.conn /\ State(k, s).file = k.file
           /\ State(k, s).wire = k.wire
  BY DEF State, Client, SameRequest

LEMMA ConnIs ==
    ASSUME NEW k \in Client, NEW c \in {"none", "keep-alive", "closed"}
    PROVE  LET r == [k EXCEPT !.conn = c] IN
           /\ r \in Client
           /\ SameRequest(r, k)
           /\ r.state = k.state /\ r.code = k.code /\ r.length = k.length
           /\ r.chunked = k.chunked
           /\ r.conn = c /\ r.file = k.file /\ r.wire = k.wire
  BY DEF Client, SameRequest

\* write_response_in_socketfd puts one head on the wire, with the code and the
\* connection of the response; a listing is announced as closed.
LEMMA HeadWritten ==
    ASSUME NEW k \in Client, NEW b \in BOOLEAN
    PROVE  LET r == WriteResponse(k, b) IN
           /\ r \in Client
           /\ SameRequest(r, k)
           /\ r.state = k.state /\ r.code = k.code /\ r.file = k.file
           /\ r.conn = IF k.listing THEN "closed" ELSE k.conn
           /\ HeadPut(r, k, b)
  <1> DEFINE conn == IF k.listing THEN "closed" ELSE k.conn
             h == [kind |-> "head", code |-> k.code, conn |-> conn,
                   length |-> k.length, chunked |-> k.chunked, ended |-> b]
             j == [k EXCEPT !.conn = conn]
  <1>1. conn \in {"none", "keep-alive", "closed"}
    BY DEF Client
  <1>2. h \in StatusHead /\ h.conn = conn /\ h.ended = b
    BY <1>1 DEF Client, StatusHead
  <1>3. WriteResponse(k, b) = Put(j, h)
    BY DEF WriteResponse
  <1>4. /\ j \in Client /\ SameRequest(j, k)
        /\ j.state = k.state /\ j.code = k.code
        /\ j.conn = conn /\ j.file = k.file /\ j.wire = k.wire
    BY <1>1, ConnIs
  <1> HIDE DEF h, j
  <1>5. /\ Put(j, h) \in Client /\ SameRequest(Put(j, h), j)
        /\ Put(j, h).state = j.state /\ Put(j, h).code = j.code
        /\ Put(j, h).conn = j.conn /\ Put(j, h).file = j.file
        /\ Put(j, h).wire = Append(j.wire, h)
    BY <1>2, <1>4, Put1
  <1> HIDE DEF conn
  <1>6. HeadPut(Put(j, h), k, b)
    BY <1>2, <1>4, <1>5 DEF HeadPut
  <1>7. SameRequest(Put(j, h), k)
    BY <1>4, <1>5 DEF SameRequest
  <1> QED
    BY <1>3, <1>4, <1>5, <1>6, <1>7 DEF conn

LEMMA FileIs ==
    ASSUME NEW k \in Client, NEW f \in {"none", "target", "index", "page", "root"}
    PROVE  LET r == [k EXCEPT !.file = f] IN
           /\ r \in Client
           /\ SameRequest(r, k)
           /\ r.state = k.state /\ r.code = k.code
           /\ r.conn = k.conn /\ r.file = f /\ r.wire = k.wire
  BY DEF Client, SameRequest

\* What the member function fill_response makes of k: b says whether it writes.
Filled(r, k, c, b) ==
    /\ r \in Client
    /\ SameRequest(r, k)
    /\ r.state = k.state /\ r.code = c
    /\ ~b => r.wire = k.wire /\ r.file = k.file
    /\ b /\ ~k.listing => HeadPut(r, k, TRUE)
    /\ b => \E e \in BOOLEAN : HeadPut(r, k, e)
    /\ k.q.keep /\ ~k.is_cgi /\ ~k.listing /\ k.method \notin {"POST", "PUT"}
         => r.conn = "keep-alive"

\* fill_response (handlers.methods.cpp:11-60) writes at most one head, a complete
\* one but for listings, and announces a connection that can be kept as kept.
LEMMA FillResponseIs ==
    ASSUME NEW k \in Client, NEW c \in Codes, NEW b \in BOOLEAN, size \in Nat
    PROVE  Filled(FillResponse(k, c, b), k, c, b)
  <1> DEFINE chunked == HasBody(k) /\ k.q.te = "chunked"
             sized == HasBody(k) /\ ~chunked /\ ~k.listing /\ Accessible(k)
             conn == IF k.is_cgi \/ ~KeepsAlive(k) THEN "closed" ELSE "keep-alive"
             is_chunked == chunked \/ (k.is_chunked /\ ~sized)
             length == IF ~HasBody(k) THEN 0 ELSE IF sized THEN size ELSE -1
             filled == [k EXCEPT !.code = c, !.conn = conn, !.chunked = chunked,
                                 !.is_chunked = is_chunked, !.length = length]
             file == IF filled.method # "GET" THEN "none" ELSE filled.file
             cleared == [filled EXCEPT !.file = file]
             e == \/ cleared.file = "none" \/ ~k.listing \/ ~Accessible(cleared)
             r == WriteResponse(cleared, e)
  <1>1. /\ conn \in {"keep-alive", "closed"} /\ chunked \in BOOLEAN
        /\ is_chunked \in BOOLEAN /\ length \in Int /\ e \in BOOLEAN
    OBVIOUS
  <1>2. k.q.keep /\ ~k.is_cgi /\ k.method \notin {"POST", "PUT"} => conn = "keep-alive"
    BY DEF KeepsAlive
  <1>3. FillResponse(k, c, b) = IF ~b THEN filled ELSE r
    BY DEF FillResponse
  <1>4. ~k.listing => e = TRUE
    OBVIOUS
  <1> HIDE DEF chunked, conn, is_chunked, length
  <1>5. /\ filled \in Client /\ SameRequest(filled, k)
        /\ filled.state = k.state /\ filled.code = c
        /\ filled.conn = conn /\ filled.file = k.file /\ filled.wire = k.wire
    BY <1>1, ZenonT(40) DEF Client, SameRequest
  <1> HIDE DEF filled
  <1>6. file \in {"none", "target", "index", "page", "root"}
    BY <1>5 DEF Client
  <1> HIDE DEF file
  <1>7. /\ cleared \in Client /\ SameRequest(cleared, filled)
        /\ cleared.state = filled.state /\ cleared.code = filled.code
        /\ cleared.conn = filled.conn /\ cleared.wire = filled.wire
    BY <1>5, <1>6, ZenonT(60) DEF Client, SameRequest
  <1> HIDE DEF cleared, e
  <1>8. /\ r \in Client /\ SameRequest(r, cleared)
        /\ r.state = cleared.state /\ r.code = cleared.code
        /\ r.conn = IF cleared.listing THEN "closed" ELSE cleared.conn
        /\ HeadPut(r, cleared, e)
    BY <1>1, <1>7, HeadWritten
  <1> HIDE DEF r
  <1>9. SameRequest(cleared, k) /\ SameRequest(r, k)
    BY <1>5, <1>7, <1>8 DEF SameRequest
  <1>10. HeadPut(r, k, e)
    BY <1>5, <1>7, <1>8 DEF HeadPut
  <1>11. ~k.listing => HeadPut(r, k, TRUE)
    BY <1>4, <1>10
  <1>12. k.q.keep /\ ~k.is_cgi /\ ~k.listing /\ k.method \notin {"POST", "PUT"}
           => filled.conn = "keep-alive" /\ r.conn = "keep-alive"
    BY <1>2, <1>5, <1>7, <1>8, <1>9 DEF SameRequest
  <1>13. CASE b
    BY <1>1, <1>3, <1>5, <1>7, <1>8, <1>9, <1>10, <1>11, <1>12, <1>13 DEF Filled
  <1>14. CASE ~b
    BY <1>3, <1>5, <1>12, <1>14 DEF Filled
  <1> QED
    BY <1>13, <1>14

\* The same of the other fill_response (random.tools.cpp:9-24), which completes
\* what the response has already decided about the connection.
LEMMA ReplyIs ==
    ASSUME NEW k \in Client, NEW c \in Codes
    PROVE  LET r == Reply(k, c) IN
           /\ r \in Client
           /\ SameRequest(r, k)
           /\ r.state = k.state /\ r.code = c
           /\ HeadPut(r, k, ~k.listing)
           /\ k.q.keep /\ ~k.listing /\ k.conn \in {"none", "keep-alive"}
                => r.conn = "keep-alive"
  <1> DEFINE conn == IF k.conn = "none" /\ k.q.keep THEN "keep-alive" ELSE k.conn
             length == IF k.length = -1 THEN 0 ELSE k.length
             j == [k EXCEPT !.code = c, !.conn = conn, !.length = length]
             e == ~k.listing
             r == WriteResponse(j, e)
  <1>0. k.conn \in {"none", "keep-alive", "closed"} /\ k.length \in Int /\ k.listing \in BOOLEAN
    BY DEF Client
  <1>1. conn \in {"none", "keep-alive", "closed"} /\ length \in Int /\ e \in BOOLEAN
    BY <1>0
  <1>2. k.q.keep /\ k.conn \in {"none", "keep-alive"} => conn = "keep-alive"
    OBVIOUS
  <1> HIDE DEF conn, length
  <1>3. /\ j \in Client /\ SameRequest(j, k)
        /\ j.state = k.state /\ j.code = c
        /\ j.conn = conn /\ j.wire = k.wire
    BY <1>1 DEF Client, SameRequest
  <1>4. Reply(k, c) = WriteResponse(j, ~j.listing)
    BY DEF Reply, j, conn, length
  <1> HIDE DEF j
  <1>5. Reply(k, c) = r
    BY <1>3, <1>4 DEF SameRequest
  <1> HIDE DEF e
  <1>6. /\ r \in Client /\ SameRequest(r, j)
        /\ r.state = j.state /\ r.code = j.code
        /\ r.conn = IF j.listing THEN "closed" ELSE j.conn
        /\ HeadPut(r, j, e)
    BY <1>1, <1>3, HeadWritten
  <1> HIDE DEF r
  <1>7. SameRequest(r, k)
    BY <1>3, <1>6 DEF SameRequest
  <1>8. HeadPut(r, k, e)
    BY <1>3, <1>6 DEF HeadPut
  <1>9. k.q.keep /\ ~k.listing /\ k.conn \in {"none", "keep-alive"} => r.conn = "keep-alive"
    BY <1>2, <1>3, <1>6 DEF SameRequest
  <1> QED
    BY <1>3, <1>5, <1>6, <1>7, <1>8, <1>9 DEF e

-----------------------------------------------------------------------------
(* Heads on the wire, as RespondProps counts them.                         *)

\* There is no head but a complete one, first on the wire; there is one; every
\* head says that the connection is kept.
OnlyHead(k)  == \A i \in DOMAIN k.wire : IsHead(k.wire[i]) => i = 1 /\ k.wire[i].ended
Told(k)      == OnlyHead(k) /\ \E i \in DOMAIN k.wire : IsHead(k.wire[i])
Announced(k) == \A i \in DOMAIN k.wire : IsHead(k.wire[i]) => k.wire[i].conn = "keep-alive"

\* A complete head behind nothing is the one answer.
LEMMA FirstHead ==
    ASSUME NEW k, NEW r, k.wire = << >>, HeadPut(r, k, TRUE)
    PROVE  Told(r)
  <1>1. PICK h \in StatusHead : r.wire = Append(k.wire, h) /\ h.ended = TRUE
    BY DEF HeadPut
  <1>2. h.kind = "head"
    BY DEF StatusHead
  <1>3. r.wire = <<h>>
    BY <1>1
  <1>4. DOMAIN r.wire = {1} /\ r.wire[1] = h
    BY <1>3
  <1> HIDE <1>3
  <1> QED
    BY <1>1, <1>2, <1>4 DEF Told, OnlyHead, IsHead

\* What is on a wire that has grown by a piece, and what was there before it.
LEMMA WireGrows ==
    ASSUME NEW k \in Client, NEW p \in StatusHead \cup BodyPiece, NEW r,
           r.wire = Append(k.wire, p)
    PROVE  \A i \in DOMAIN r.wire :
              \/ i \in DOMAIN k.wire /\ r.wire[i] = k.wire[i]
              \/ i = Len(k.wire) + 1 /\ r.wire[i] = p
  <1> DEFINE pieces == StatusHead \cup BodyPiece
             w == k.wire
  <1>1. w \in Seq(pieces)
    BY DEF Client, Wire
  <1> HIDE DEF pieces, w
  <1>2. \A i \in DOMAIN Append(w, p) :
              \/ i \in DOMAIN w /\ Append(w, p)[i] = w[i]
              \/ i = Len(w) + 1 /\ Append(w, p)[i] = p
    BY <1>1
  <1> QED
    BY <1>2 DEF w

LEMMA KeptInWire ==
    ASSUME NEW k \in Client, NEW p \in StatusHead \cup BodyPiece, NEW r,
           r.wire = Append(k.wire, p)
    PROVE  \A i \in DOMAIN k.wire : i \in DOMAIN r.wire /\ r.wire[i] = k.wire[i]
  <1> DEFINE pieces == StatusHead \cup BodyPiece
             w == k.wire
  <1>1. w \in Seq(pieces)
    BY DEF Client, Wire
  <1> HIDE DEF pieces, w
  <1>2. \A i \in DOMAIN w : i \in DOMAIN Append(w, p) /\ Append(w, p)[i] = w[i]
    BY <1>1
  <1> QED
    BY <1>2 DEF w

LEMMA PieceIsNoHead ==
    ASSUME NEW p \in BodyPiece
    PROVE  ~IsHead(p)
  BY DEF BodyPiece, IsHead

\* Pieces of a body make no difference to the heads.
LEMMA MoreBody ==
    ASSUME NEW k \in Client, NEW r, PiecePut(r, k)
    PROVE  /\ Told(k) => Told(r)
           /\ Announced(k) => Announced(r)
  <1>1. PICK p \in BodyPiece : r.wire = Append(k.wire, p)
    BY DEF PiecePut
  <1>2. ~IsHead(p)
    BY PieceIsNoHead
  <1>3. \A i \in DOMAIN r.wire :
              \/ i \in DOMAIN k.wire /\ r.wire[i] = k.wire[i]
              \/ i = Len(k.wire) + 1 /\ r.wire[i] = p
    BY <1>1, WireGrows
  <1>4. \A i \in DOMAIN k.wire : i \in DOMAIN r.wire /\ r.wire[i] = k.wire[i]
    BY <1>1, KeptInWire
  <1> HIDE <1>1
  <1> QED
    BY <1>2, <1>3, <1>4, Zenon DEF Told, OnlyHead, Announced

\* Nor does a further head to what is announced, if it says the same.
LEMMA OneMoreHead ==
    ASSUME NEW k \in Client, NEW r, NEW e, HeadPut(r, k, e), r.conn = "keep-alive", Announced(k)
    PROVE  Announced(r)
  <1>1. PICK h \in StatusHead : r.wire = Append(k.wire, h) /\ h.conn = r.conn
    BY DEF HeadPut
  <1>2. \A i \in DOMAIN r.wire :
              \/ i \in DOMAIN k.wire /\ r.wire[i] = k.wire[i]
              \/ i = Len(k.wire) + 1 /\ r.wire[i] = h
    BY <1>1, WireGrows
  <1>3. h.conn = "keep-alive"
    BY <1>1
  <1> HIDE <1>1
  <1> QED
    BY <1>2, <1>3, Zenon DEF Announced

LEMMA NothingSent ==
    ASSUME NEW k, k.wire = << >>
    PROVE  Announced(k) /\ OnlyHead(k)
  BY DEF Announced, OnlyHead

-----------------------------------------------------------------------------
(* The parts of the inductive invariant.                                   *)

\* What handle_client will keep the connection for (kqueue.multiplixer.cpp:174-179)
\* if the method is still that of the request.
Reusable(k) ==
    /\ k.q.keep /\ ~k.listing /\ ~k.is_cgi
    /\ k.q.word \notin {"POST", "PUT", "OPTIONS"}

ServingStates == {"SERVING_GET", "SERVING_POST", "SERVING_PUT", "SERVING_DELETE",
                  "SERVING_OPTIONS", "SERVING_CGI"}

\* What an answer to DELETE says of the directory, t being what is left of it.
TreeTold(q, t, code) ==
    CASE code = 204 -> \A n \in t : n.kind = "dir" /\ \E m \in Below(t, n) : "remove" \notin m.can
      [] code = 207 -> Files(q.tree \ t) # {} /\ t # {}
      [] OTHER -> Files(q.tree \ t) = {}

DeleteTold(k) == TreeTold(k.q, k.tree, k.code)

\* The method is that of the request unless an error page is sent.
RightMethod(k) == k.method \in Supported /\ k.method \in {"GET", k.q.word}

\* Nothing was sent before a method has been called, and only a GET that has
\* been called is still being served behind its head. A listing is sent in one
\* call, with its head, of a directory that can be opened: so list_directories
\* writes no second one.
OneSoFar(k) ==
    ~k.stale /\ k.q.word # "HEAD" =>
        /\ k.listing => k.state = "SERVING_GET" /\ CanList(k) /\ k.wire = << >>
        /\ IF k.state = "SERVING_GET" /\ ~k.first_time THEN Told(k) ELSE k.wire = << >>

\* The response has decided for "keep-alive", or a method handler will: handlers
\* of the chain have the decision made before they leave a client to GET.
AnnouncedSoFar(k) ==
    Reusable(k) =>
        /\ Announced(k)
        /\ k.conn = "keep-alive" \/ (k.state # "SERVING_GET" /\ k.conn = "none")

\* A client whose request is decided and not yet answered.
Serving(k) ==
    /\ k \in Client /\ SiteOf(k.q)
    /\ k.state \in ServingStates
    /\ RightMethod(k)
    /\ k.state \in {"SERVING_POST", "SERVING_PUT"} => k.q.word \in Uploads
    /\ k.state = "SERVING_OPTIONS" => k.q.word = "OPTIONS"
    /\ k.is_cgi <=> k.state = "SERVING_CGI"
    /\ k.tree = k.q.tree /\ k.code \notin {204, 207}
    /\ OneSoFar(k)
    /\ AnnouncedSoFar(k)

\* A client that was answered.
OneAtTheEnd(k) ==
    ~k.stale /\ k.q.word # "HEAD" =>
        /\ OnlyHead(k)
        /\ k.q.word \notin Uploads /\ ~k.is_cgi => Told(k)

Answered(k) ==
    /\ k \in Client /\ SiteOf(k.q)
    /\ OneAtTheEnd(k)
    /\ Reusable(k) => Announced(k)
    /\ k.q.word = "DELETE" => DeleteTold(k)

\* A client in the chain of handlers, before fill_response.
Undecided(k) ==
    /\ k \in Client /\ SiteOf(k.q)
    /\ k.first_time /\ RightMethod(k)
    /\ k.tree = k.q.tree /\ k.code = 0 /\ k.conn = "none" /\ k.wire = << >>

\* An answer to DELETE that says nothing was deleted is right if nothing was.
LEMMA SameTree ==
    ASSUME NEW q, NEW c, c \notin {204, 207}
    PROVE  TreeTold(q, q.tree, c)
  <1>1. q.tree \ q.tree = {}
    OBVIOUS
  <1>2. Files({}) = {}
    BY DEF Files
  <1> QED
    BY <1>1, <1>2 DEF TreeTold

LEMMA Untouched ==
    ASSUME NEW k, k.tree = k.q.tree, k.code \notin {204, 207}
    PROVE  DeleteTold(k)
  <1> DEFINE q == k.q
             c == k.code
  <1>1. TreeTold(q, q.tree, c)
    BY SameTree
  <1>2. k.tree = q.tree
    OBVIOUS
  <1> QED
    BY <1>1, <1>2, Zenon DEF DeleteTold

LEMMA MethodIs ==
    ASSUME NEW k \in Client
    PROVE  LET r == [k EXCEPT !.method = "GET"] IN
           /\ r \in Client
           /\ r.q = k.q /\ r.first_time = k.first_time /\ r.stale = k.stale
           /\ r.listing = k.listing /\ r.is_cgi = k.is_cgi /\ r.method = "GET"
           /\ r.tree = k.tree
           /\ r.state = k.state /\ r.code = k.code
           /\ r.conn = k.conn /\ r.file = k.file /\ r.wire = k.wire
  BY DEF Client, Supported

-----------------------------------------------------------------------------
(* The chain of handlers: handlers.methods.cpp, http_handler.methods.cpp:170-216. *)

\* A handler that writes the response itself has answered.
LEMMA Refused ==
    ASSUME NEW k, Undecided(k), k.listing => k.stale, ~k.is_cgi, size \in Nat,
           NEW c \in Codes \ {204, 207}
    PROVE  /\ Answered(State(FillResponse(k, c, TRUE), "SERVED"))
           /\ State(FillResponse(k, c, TRUE), "SERVED").state = "SERVED"
  <1> DEFINE f == FillResponse(k, c, TRUE)
             r == State(f, "SERVED")
  <1>1. k \in Client /\ c \in Codes
    BY DEF Undecided
  <1>2. /\ f \in Client /\ SameRequest(f, k) /\ f.code = c
        /\ ~k.listing => HeadPut(f, k, TRUE)
        /\ \E e \in BOOLEAN : HeadPut(f, k, e)
        /\ k.q.keep /\ ~k.is_cgi /\ ~k.listing /\ k.method \notin {"POST", "PUT"}
             => f.conn = "keep-alive"
    <2>1. Filled(f, k, c, TRUE)
      BY <1>1, FillResponseIs
    <2> QED
      BY <2>1 DEF Filled
  <1> HIDE DEF f
  <1>3. /\ r \in Client /\ SameRequest(r, f) /\ r.state = "SERVED"
        /\ r.code = f.code /\ r.conn = f.conn /\ r.wire = f.wire
    BY <1>2, StateIs
  <1> HIDE DEF r
  <1>4. SameRequest(r, k)
    BY <1>2, <1>3 DEF SameRequest
  <1>5. ~r.stale => Told(r)
    <2>1. SUFFICES ASSUME ~r.stale PROVE Told(r)
      OBVIOUS
    <2>2. ~k.listing
      BY <1>4, <2>1 DEF SameRequest
    <2>3. HeadPut(r, k, TRUE)
      BY <1>2, <1>3, <2>2 DEF HeadPut
    <2> QED
      BY <2>3, FirstHead DEF Undecided
  <1>6. Reusable(r) => Announced(r)
    <2>1. SUFFICES ASSUME Reusable(r) PROVE Announced(r)
      OBVIOUS
    <2>2. r.conn = "keep-alive"
      BY <1>2, <1>3, <1>4, <2>1 DEF Reusable, SameRequest, Undecided, RightMethod
    <2>3. \E e \in BOOLEAN : HeadPut(r, k, e)
      BY <1>2, <1>3 DEF HeadPut
    <2> QED
      BY <1>1, <2>2, <2>3, OneMoreHead, NothingSent DEF Undecided
  <1>7. DeleteTold(r)
    BY <1>2, <1>3, <1>4, Untouched DEF Undecided, SameRequest
  <1>8. SiteOf(r.q)
    BY <1>4 DEF SameRequest, Undecided
  <1>9. OneAtTheEnd(r)
    BY <1>5 DEF OneAtTheEnd, Told
  <1> QED
    BY <1>3, <1>6, <1>7, <1>8, <1>9 DEF Answered, r, f

\* The chain has found a directory to list.
Listed(k) ==
    Refusal(k.q) = 0 /\ k.file = "root" /\ ~k.q.is_file /\ k.q.dir

ToServe(k) == Serving(k) /\ k.state # "SERVED" /\ k.first_time

\* A handler that leaves a file, a page or a listing to GET has decided and, but
\* for HEAD, sent nothing.
LEMMA Paged ==
    ASSUME NEW k, Undecided(k), size \in Nat,
           NEW c \in Codes \ {204, 207}, NEW b \in BOOLEAN, b => k.method = "HEAD",
           NEW s \in {"SERVING_GET", "SERVING_CGI"}, k.is_cgi <=> s = "SERVING_CGI",
           k.listing /\ ~k.stale => s = "SERVING_GET" /\ Listed(k)
    PROVE  /\ ToServe(State(FillResponse(k, c, b), s))
           /\ ToServe([State(FillResponse(k, c, b), s) EXCEPT !.method = "GET"])
  <1> DEFINE f == FillResponse(k, c, b)
             r == State(f, s)
             g == [r EXCEPT !.method = "GET"]
  <1>1. k \in Client /\ c \in Codes
    BY DEF Undecided
  <1>2. /\ f \in Client /\ SameRequest(f, k) /\ f.code = c
        /\ ~b => f.wire = k.wire /\ f.file = k.file
        /\ b /\ ~k.listing => HeadPut(f, k, TRUE)
        /\ b => \E e \in BOOLEAN : HeadPut(f, k, e)
        /\ k.q.keep /\ ~k.is_cgi /\ ~k.listing /\ k.method \notin {"POST", "PUT"}
             => f.conn = "keep-alive"
    <2>1. Filled(f, k, c, b)
      BY <1>1, FillResponseIs
    <2> QED
      BY <2>1 DEF Filled
  <1> HIDE DEF f
  <1>3. /\ r \in Client /\ SameRequest(r, f) /\ r.state = s /\ r.file = f.file
        /\ r.code = f.code /\ r.conn = f.conn /\ r.wire = f.wire
    BY <1>2, StateIs
  <1> HIDE DEF r
  <1>4. SameRequest(r, k)
    BY <1>2, <1>3 DEF SameRequest
  <1>5. OneSoFar(r)
    <2>1. SUFFICES ASSUME ~r.stale, r.q.word # "HEAD" PROVE OneSoFar(r)
      BY DEF OneSoFar
    <2>2. ~b /\ r.first_time
      BY <1>4, <2>1 DEF SameRequest, Undecided, RightMethod
    <2>3. r.wire = << >> /\ r.file = k.file
      BY <1>2, <1>3, <2>2 DEF Undecided
    <2>4. r.listing => r.state = "SERVING_GET" /\ Listed(r)
      BY <1>3, <1>4, <2>1, <2>3 DEF SameRequest, Listed
    <2>5. Listed(r) => CanList(r)
      BY DEF Listed, CanList
    <2> QED
      BY <2>2, <2>3, <2>4, <2>5 DEF OneSoFar
  <1>6. ASSUME Reusable(r) PROVE Announced(r) /\ r.conn = "keep-alive"
    <2>1. Reusable(r)
      BY <1>6
    <2>2. r.conn = "keep-alive"
      BY <1>2, <1>3, <1>4, <2>1 DEF Reusable, SameRequest, Undecided, RightMethod
    <2>3. CASE b
      <3>1. \E e \in BOOLEAN : HeadPut(r, k, e)
        BY <1>2, <1>3, <2>3 DEF HeadPut
      <3> QED
        BY <1>1, <2>2, <3>1, OneMoreHead, NothingSent DEF Undecided
    <2>4. CASE ~b
      BY <1>2, <1>3, <2>2, <2>4, NothingSent DEF Undecided
    <2> QED
      BY <2>3, <2>4
  <1>6a. AnnouncedSoFar(r)
    BY <1>6 DEF AnnouncedSoFar
  <1>7. r.tree = r.q.tree /\ r.code \notin {204, 207} /\ SiteOf(r.q)
    BY <1>2, <1>3, <1>4 DEF Undecided, SameRequest
  <1>8. RightMethod(r) /\ (r.is_cgi <=> r.state = "SERVING_CGI") /\ r.first_time
    BY <1>3, <1>4 DEF Undecided, SameRequest, RightMethod
  <1>9. r.state \in ServingStates
    BY <1>3 DEF ServingStates
  <1>10. Serving(r)
    BY <1>3, <1>5, <1>6a, <1>7, <1>8, <1>9 DEF Serving
  <1>11. /\ g \in Client
         /\ g.q = r.q /\ g.first_time = r.first_time /\ g.stale = r.stale
         /\ g.listing = r.listing /\ g.is_cgi = r.is_cgi /\ g.method = "GET"
         /\ g.tree = r.tree
         /\ g.state = r.state /\ g.code = r.code
         /\ g.conn = r.conn /\ g.file = r.file /\ g.wire = r.wire
    BY <1>3, MethodIs
  <1> HIDE DEF g
  <1>12. OneSoFar(g)
    BY <1>5, <1>11 DEF OneSoFar, Told, OnlyHead, CanList
  <1>13. AnnouncedSoFar(g)
    BY <1>6a, <1>11 DEF AnnouncedSoFar, Announced, Reusable
  <1>14. RightMethod(g)
    BY <1>11 DEF RightMethod, Supported
  <1>15. Serving(g)
    BY <1>3, <1>7, <1>8, <1>9, <1>11, <1>12, <1>13, <1>14 DEF Serving
  <1> QED
    BY <1>3, <1>8, <1>10, <1>11, <1>15 DEF g, r, f, ToServe

\* State s is what GET, or a script, needs of client k.
PageOf(k, s) ==
    /\ s \in {"SERVING_GET", "SERVING_CGI"} /\ (k.is_cgi <=> s = "SERVING_CGI")
    /\ k.listing /\ ~k.stale => s = "SERVING_GET" /\ Listed(k)

LEMMA PagedLater ==
    ASSUME NEW k, Undecided(k), size \in Nat, NEW c \in Codes \ {204, 207},
           NEW s, PageOf(k, s)
    PROVE  ToServe([State(FillResponse(k, c, FALSE), s) EXCEPT !.method = "GET"])
  <1> DEFINE no == FALSE
  <1>1. no \in BOOLEAN /\ (no => k.method = "HEAD")
    OBVIOUS
  <1> HIDE DEF no
  <1>2. ToServe([State(FillResponse(k, c, no), s) EXCEPT !.method = "GET"])
    BY <1>1, Paged DEF PageOf
  <1> QED
    BY <1>2 DEF no

\* What architect_response comes to: an answer, or something to be served.
Decided(k) ==
    /\ k.state = "SERVED" => Answered(k)
    /\ k.state # "SERVED" => Serving(k) /\ k.first_time

\* What the chain is called with.
New(k) == Undecided(k) /\ (k.listing => k.stale) /\ ~k.is_cgi

LEMMA FileNew ==
    ASSUME NEW k, New(k), NEW f \in {"none", "target", "index", "page", "root"}
    PROVE  New([k EXCEPT !.file = f]) /\ SameRequest([k EXCEPT !.file = f], k)
  <1> DEFINE r == [k EXCEPT !.file = f]
  <1>1. /\ r \in Client /\ SameRequest(r, k)
        /\ r.state = k.state /\ r.code = k.code
        /\ r.conn = k.conn /\ r.file = f /\ r.wire = k.wire
    BY FileIs DEF New, Undecided
  <1> HIDE DEF r
  <1>2. New(r)
    BY <1>1 DEF New, Undecided, RightMethod, SameRequest
  <1> QED
    BY <1>1, <1>2 DEF r

LEMMA RefusedNew ==
    ASSUME NEW k, New(k), size \in Nat, NEW c \in Codes \ {204, 207}
    PROVE  Decided(State(FillResponse(k, c, TRUE), "SERVED"))
  BY Refused DEF New, Decided

LEMMA PagedNew ==
    ASSUME NEW k, New(k), size \in Nat, NEW c \in Codes \ {204, 207},
           NEW b \in BOOLEAN, b => k.method = "HEAD"
    PROVE  /\ Decided(State(FillResponse(k, c, b), "SERVING_GET"))
           /\ Decided([State(FillResponse(k, c, b), "SERVING_GET") EXCEPT !.method = "GET"])
  <1> DEFINE s == "SERVING_GET"
             r == State(FillResponse(k, c, b), s)
             g == [State(FillResponse(k, c, b), s) EXCEPT !.method = "GET"]
  <1>1. Undecided(k) /\ ~k.is_cgi /\ ~(k.listing /\ ~k.stale)
    BY DEF New
  <1>2. s \in {"SERVING_GET", "SERVING_CGI"} /\ s # "SERVING_CGI"
    OBVIOUS
  <1> HIDE DEF s
  <1>3. ToServe(r) /\ ToServe(g)
    BY <1>1, <1>2, Paged
  <1> HIDE DEF r, g
  <1>4. Decided(r) /\ Decided(g)
    BY <1>3 DEF Decided, ToServe
  <1> QED
    BY <1>4 DEF r, g, s

\* handle_400, 414, 501, 413 and 405: with an error page or without.
LEMMA RefuseDecides ==
    ASSUME NEW k, New(k), size \in Nat, NEW c \in Codes \ {204, 207}
    PROVE  Decided(Refuse(k, c))
  <1> DEFINE p == [k EXCEPT !.file = "page"]
  <1>1. New(p) /\ SameRequest(p, k)
    BY FileNew
  <1> HIDE DEF p
  <1>2. CASE k.q.page = "readable"
    <2> DEFINE b == k.method = "HEAD"
    <2>1. b \in BOOLEAN /\ (b => p.method = "HEAD")
      BY <1>1 DEF SameRequest
    <2> HIDE DEF b
    <2>2. Decided([State(FillResponse(p, c, b), "SERVING_GET") EXCEPT !.method = "GET"])
      BY <1>1, <2>1, PagedNew
    <2> QED
      BY <1>2, <2>2 DEF Refuse, p, b
  <1>3. CASE k.q.page # "readable"
    BY <1>3, RefusedNew DEF Refuse
  <1> QED
    BY <1>2, <1>3

LEMMA RefuseWithoutDecides ==
    ASSUME NEW k, New(k), size \in Nat, NEW c \in Codes \ {204, 207}, NEW page
    PROVE  Decided(RefuseWithout(k, c, page))
  <1> DEFINE p == [k EXCEPT !.file = "page"]
             n == [k EXCEPT !.file = "none"]
  <1>1. New(p) /\ New(n)
    BY FileNew
  <1> HIDE DEF p, n
  <1>2. Decided(State(FillResponse(p, c, FALSE), "SERVING_GET"))
    BY <1>1, PagedNew
  <1>3. Decided(State(FillResponse(n, c, TRUE), "SERVED"))
    BY <1>1, RefusedNew
  <1> QED
    BY <1>2, <1>3 DEF RefuseWithout, p, n

\* handle_404, with a page, with one that cannot be read, or without.
LEMMA Handle404Decides ==
    ASSUME NEW k, New(k), size \in Nat
    PROVE  Decided(Handle404(k))
  <1> DEFINE p == [k EXCEPT !.file = "page"]
             o == [k EXCEPT !.file = "root"]
             n == [k EXCEPT !.file = "none"]
             b == k.method = "HEAD"
             missing == 404
             closed == 403
  <1>1. New(p) /\ New(n) /\ New(o) /\ SameRequest(p, k)
    BY FileNew
  <1>2. b \in BOOLEAN /\ (b => p.method = "HEAD")
    BY <1>1 DEF SameRequest
  <1>3. missing \in Codes \ {204, 207} /\ closed \in Codes \ {204, 207}
    BY DEF Codes
  <1> HIDE DEF p, n, o, b, missing, closed
  <1>4. Decided([State(FillResponse(p, missing, b), "SERVING_GET") EXCEPT !.method = "GET"])
    BY <1>1, <1>2, <1>3, PagedNew
  <1>5. Decided(State(FillResponse(o, closed, TRUE), "SERVED"))
    BY <1>1, <1>3, RefusedNew
  <1>6. Decided(State(FillResponse(n, missing, TRUE), "SERVED"))
    BY <1>1, <1>3, RefusedNew
  <1>7. Decided(RefuseWithout(k, closed, "readable"))
    BY <1>3, RefuseWithoutDecides
  <1> QED
    BY <1>4, <1>5, <1>6, <1>7 DEF Handle404, p, n, o, b, missing, closed

\* A method, or a script, is called with nothing sent.
LEMMA Started ==
    ASSUME NEW k, Undecided(k), k.listing => k.stale,
           NEW s \in ServingStates \ {"SERVING_GET"}, k.is_cgi <=> s = "SERVING_CGI",
           s \in {"SERVING_POST", "SERVING_PUT"} => k.q.word \in Uploads,
           s = "SERVING_OPTIONS" => k.q.word = "OPTIONS"
    PROVE  ToServe(State(k, s)) /\ ToServe([State(k, s) EXCEPT !.method = "GET"])
  <1> DEFINE r == State(k, s)
             g == [State(k, s) EXCEPT !.method = "GET"]
  <1>1. k \in Client
    BY DEF Undecided
  <1>2. /\ r \in Client /\ SameRequest(r, k) /\ r.state = s /\ r.file = k.file
        /\ r.code = k.code /\ r.conn = k.conn /\ r.wire = k.wire
    BY <1>1, StateIs DEF ServingStates
  <1>3. /\ g \in Client
        /\ g.q = r.q /\ g.first_time = r.first_time /\ g.stale = r.stale
        /\ g.listing = r.listing /\ g.is_cgi = r.is_cgi /\ g.method = "GET"
        /\ g.tree = r.tree
        /\ g.state = r.state /\ g.code = r.code
        /\ g.conn = r.conn /\ g.file = r.file /\ g.wire = r.wire
    BY <1>2, MethodIs
  <1> HIDE DEF r, g
  <1>4. ASSUME NEW j \in {r, g}
        PROVE  ToServe(j)
    <2>1. /\ j \in Client /\ j.state = s /\ j.code = k.code /\ j.conn = k.conn
          /\ j.wire = k.wire /\ j.q = k.q /\ j.first_time = k.first_time
          /\ j.stale = k.stale /\ j.listing = k.listing /\ j.is_cgi = k.is_cgi
          /\ j.tree = k.tree
      BY <1>2, <1>3 DEF SameRequest
    <2>2. RightMethod(j)
      BY <1>2, <1>3 DEF SameRequest, RightMethod, Undecided, Supported
    <2> HIDE <1>2, <1>3
    <2>3. OneSoFar(j)
      BY <2>1 DEF OneSoFar, Undecided
    <2>4. AnnouncedSoFar(j)
      BY <2>1, NothingSent DEF AnnouncedSoFar, Undecided
    <2>5. SiteOf(j.q) /\ j.tree = j.q.tree /\ j.code \notin {204, 207} /\ j.first_time
      BY <2>1 DEF Undecided
    <2>6. j.state \in ServingStates /\ (j.is_cgi <=> j.state = "SERVING_CGI") /\ j.state # "SERVED"
      BY <2>1 DEF ServingStates
    <2>7. /\ j.state \in {"SERVING_POST", "SERVING_PUT"} => j.q.word \in Uploads
          /\ j.state = "SERVING_OPTIONS" => j.q.word = "OPTIONS"
      BY <2>1
    <2> QED
      BY <2>1, <2>2, <2>3, <2>4, <2>5, <2>6, <2>7 DEF Serving, ToServe
  <1> QED
    BY <1>4 DEF r, g

ServedAs(r, b) == Undecided(r) /\ r.is_cgi = b /\ (r.listing => r.stale)

LEMMA ServedNew ==
    ASSUME NEW k, New(k), NEW f \in {"none", "target", "index", "page", "root"}, NEW b \in BOOLEAN
    PROVE  ServedAs([k EXCEPT !.file = f, !.is_cgi = b], b)
  <1> DEFINE r == [k EXCEPT !.file = f, !.is_cgi = b]
  <1>1. k \in Client
    BY DEF New, Undecided
  <1>2. /\ r \in Client
        /\ r.q = k.q /\ r.first_time = k.first_time /\ r.stale = k.stale
        /\ r.listing = k.listing /\ r.is_cgi = b /\ r.method = k.method
        /\ r.tree = k.tree /\ r.code = k.code /\ r.conn = k.conn /\ r.wire = k.wire
    BY <1>1 DEF Client
  <1> HIDE DEF r
  <1>3. Undecided(r) /\ (r.listing => r.stale)
    BY <1>2 DEF New, Undecided, RightMethod
  <1> QED
    BY <1>2, <1>3 DEF r, ServedAs

LEMMA ListedNew ==
    ASSUME NEW k, New(k)
    PROVE  LET r == [k EXCEPT !.listing = TRUE, !.file = "root"] IN
           Undecided(r) /\ ~r.is_cgi /\ r.q = k.q /\ r.method = k.method /\ r.file = "root"
  <1> DEFINE r == [k EXCEPT !.listing = TRUE, !.file = "root"]
  <1>1. k \in Client
    BY DEF New, Undecided
  <1>2. /\ r \in Client
        /\ r.q = k.q /\ r.first_time = k.first_time /\ r.stale = k.stale
        /\ r.is_cgi = k.is_cgi /\ r.method = k.method /\ r.file = "root"
        /\ r.tree = k.tree /\ r.code = k.code /\ r.conn = k.conn /\ r.wire = k.wire
    BY <1>1 DEF Client
  <1> HIDE DEF r
  <1>3. Undecided(r) /\ ~r.is_cgi
    BY <1>2 DEF New, Undecided, RightMethod
  <1> QED
    BY <1>2, <1>3 DEF r

LEMMA ToServeDecided ==
    ASSUME NEW r, ToServe(r)
    PROVE  Decided(r)
  BY DEF ToServe, Decided

\* handle_200d: an index, a script, a listing, or no access.
LEMMA Handle200dDecides ==
    ASSUME NEW k, New(k), size \in Nat, Refusal(k.q) = 0, ~k.q.is_file
    PROVE  Decided(Handle200d(k))
  <1> DEFINE served == [k EXCEPT !.file = "index", !.is_cgi = k.q.script]
             listed == [k EXCEPT !.listing = TRUE, !.file = "root"]
             s == IF k.q.script THEN "SERVING_CGI" ELSE "SERVING_GET"
             get == "SERVING_GET"
             fine == 200
             closed == 403
             missing == 404
  <1>1. k.q.script \in BOOLEAN
    BY DEF New, Undecided, Client, Request
  <1>2. /\ Undecided(served) /\ served.is_cgi = k.q.script
        /\ served.listing => served.stale
    BY <1>1, ServedNew DEF ServedAs
  <1>3. /\ Undecided(listed) /\ ~listed.is_cgi /\ listed.q = k.q /\ listed.file = "root"
    BY ListedNew
  <1>4. /\ fine \in Codes \ {204, 207} /\ closed \in Codes \ {204, 207}
        /\ missing \in Codes \ {204, 207}
    BY DEF Codes
  <1>5. s \in {"SERVING_GET", "SERVING_CGI"} /\ (k.q.script <=> s = "SERVING_CGI")
    OBVIOUS
  <1>6. get \in {"SERVING_GET", "SERVING_CGI"} /\ get # "SERVING_CGI" /\ get = "SERVING_GET"
    OBVIOUS
  <1> HIDE DEF served, listed, s, get, fine, closed, missing
  <1>7. PageOf(served, s)
    BY <1>2, <1>5 DEF PageOf
  <1>8. Decided([State(FillResponse(served, fine, FALSE), s) EXCEPT !.method = "GET"])
    <2>1. ToServe([State(FillResponse(served, fine, FALSE), s) EXCEPT !.method = "GET"])
      BY <1>2, <1>4, <1>7, PagedLater, ZenonT(40)
    <2> QED
      BY <2>1, ToServeDecided
  <1>9. CASE k.q.dir
    <2>1. PageOf(listed, get)
      BY <1>3, <1>6, <1>9 DEF Listed, PageOf
    <2>2. ToServe([State(FillResponse(listed, fine, FALSE), get) EXCEPT !.method = "GET"])
      BY <1>3, <1>4, <2>1, PagedLater, ZenonT(40)
    <2>3. Decided([State(FillResponse(listed, fine, FALSE), get) EXCEPT !.method = "GET"])
      BY <2>2, ToServeDecided
    <2>4. Decided(RefuseWithout(k, closed, "none")) /\ Decided(RefuseWithout(k, closed, k.q.dir_page))
      BY <1>4, RefuseWithoutDecides
    <2> QED
      BY <1>8, <1>9, <2>3, <2>4 DEF Handle200d, closed, served, s, fine, listed, get
  <1>10. CASE ~k.q.dir
    <2>1. Decided(RefuseWithout(k, closed, "none")) /\ Decided(RefuseWithout(k, missing, k.q.page))
      BY <1>4, RefuseWithoutDecides
    <2> QED
      BY <1>8, <1>10, <2>1 DEF Handle200d, closed, missing, served, s, fine
  <1> QED
    BY <1>9, <1>10

\* handle_200f: a file, a script, no access, or handle_404.
LEMMA Handle200fDecides ==
    ASSUME NEW k, New(k), size \in Nat
    PROVE  Decided(Handle200f(k))
  <1> DEFINE script == k.q.script
             served == [k EXCEPT !.file = "target", !.is_cgi = script]
             get == "SERVING_GET"
             cgi == "SERVING_CGI"
             fine == 200
             closed == 403
  <1>1. script \in BOOLEAN
    BY DEF New, Undecided, Client, Request
  <1> HIDE DEF script
  <1>2. ServedAs(served, script)
    BY <1>1, ServedNew
  <1>3. fine \in Codes \ {204, 207} /\ closed \in Codes \ {204, 207}
    BY DEF Codes
  <1>4. /\ get \in {"SERVING_GET", "SERVING_CGI"} /\ get # "SERVING_CGI"
        /\ cgi \in ServingStates \ {"SERVING_GET"} /\ cgi = "SERVING_CGI"
        /\ cgi \notin {"SERVING_POST", "SERVING_PUT", "SERVING_OPTIONS"}
    BY DEF ServingStates
  <1> HIDE DEF served, get, cgi, fine, closed
  <1>5. CASE script
    <2>1. ToServe([State(served, cgi) EXCEPT !.method = "GET"])
      BY <1>2, <1>4, <1>5, Started DEF ServedAs
    <2> QED
      BY <1>5, <2>1, ToServeDecided, RefuseWithoutDecides, Handle404Decides, <1>3
         DEF Handle200f, script, served, cgi, closed
  <1>6. CASE ~script
    <2>0. PageOf(served, get) /\ Undecided(served)
      BY <1>2, <1>4, <1>6 DEF PageOf, ServedAs
    <2>1. ToServe([State(FillResponse(served, fine, FALSE), get) EXCEPT !.method = "GET"])
      BY <1>3, <2>0, PagedLater
    <2> QED
      BY <1>6, <2>1, ToServeDecided, RefuseWithoutDecides, Handle404Decides, <1>3
         DEF Handle200f, script, served, get, fine, closed
  <1> QED
    BY <1>5, <1>6

LEMMA AnsweredState ==
    ASSUME NEW k, Answered(k), NEW s \in {"SERVED", "CLOSED", "KEEP_ALIVE"}
    PROVE  Answered(State(k, s))
  <1> DEFINE r == State(k, s)
  <1>1. k \in Client
    BY DEF Answered
  <1>2. /\ r \in Client /\ SameRequest(r, k) /\ r.code = k.code /\ r.wire = k.wire
    BY <1>1, StateIs
  <1> HIDE DEF r
  <1>3. OneAtTheEnd(r)
    BY <1>2 DEF OneAtTheEnd, Answered, SameRequest, OnlyHead, Told
  <1>4. Reusable(r) => Announced(r)
    BY <1>2 DEF Answered, SameRequest, Announced, Reusable
  <1>5. r.q.word = "DELETE" => DeleteTold(r)
    BY <1>2 DEF Answered, SameRequest, DeleteTold
  <1>6. Answered(r)
    BY <1>2, <1>3, <1>4, <1>5 DEF Answered, SameRequest
  <1> QED
    BY <1>6 DEF r

\* HEAD is not served any further (handlers.methods.cpp:685-688).
LEMMA HeadServed ==
    ASSUME NEW k, Decided(k), k.method = "HEAD"
    PROVE  Decided(State(k, "SERVED"))
  <1> DEFINE s == "SERVED"
             r == State(k, s)
  <1>1. CASE k.state = "SERVED"
    <2>1. Answered(r) /\ k \in Client
      BY <1>1, AnsweredState DEF Decided, Answered
    <2>2. r.state = "SERVED"
      BY <2>1, StateIs
    <2> QED
      BY <2>1, <2>2 DEF Decided
  <1>2. CASE k.state # "SERVED"
    <2>1. Serving(k) /\ k \in Client /\ k.q.word = "HEAD"
      BY <1>2 DEF Decided, Serving, RightMethod
    <2>2. /\ r \in Client /\ SameRequest(r, k) /\ r.code = k.code /\ r.wire = k.wire
          /\ r.state = "SERVED"
      BY <2>1, StateIs
    <2> HIDE DEF r
    <2>3. Reusable(r) => Announced(r)
      BY <2>1, <2>2 DEF Serving, AnnouncedSoFar, SameRequest, Announced, Reusable
    <2>4. OneAtTheEnd(r) /\ r.q.word # "DELETE" /\ SiteOf(r.q)
      BY <2>1, <2>2 DEF Serving, OneAtTheEnd, SameRequest
    <2>5. Decided(r)
      BY <2>2, <2>3, <2>4 DEF Decided, Answered
    <2> QED
      BY <2>5 DEF r
  <1> QED
    BY <1>1, <1>2

LEMMA Handle200Decides ==
    ASSUME NEW k, New(k), size \in Nat, Refusal(k.q) = 0
    PROVE  Decided(Handle200(k))
  <1> DEFINE done == IF k.q.is_file THEN Handle200f(k) ELSE Handle200d(k)
  <1>1. Decided(done)
    BY Handle200fDecides, Handle200dDecides
  <1> HIDE DEF done
  <1>2. Handle200(k) = IF done.method = "HEAD" THEN State(done, "SERVED") ELSE done
    BY DEF Handle200, done
  <1> QED
    BY <1>1, <1>2, HeadServed

\* architect_response comes to one answer, or one thing to serve, whatever the
\* request and the site are.
LEMMA ArchitectDecides ==
    ASSUME NEW k, New(k), size \in Nat
    PROVE  Decided(ArchitectResponse(k))
  <1> DEFINE opt == "SERVING_OPTIONS"
             del == "SERVING_DELETE"
             put == "SERVING_PUT"
             up == IF k.q.script THEN "SERVING_CGI" ELSE "SERVING_POST"
             moved == 301
             refusal == Refusal(k.q)
             target == [k EXCEPT !.file = "target"]
             root == [k EXCEPT !.file = "root", !.is_cgi = k.q.script]
  <1>0. k.q.script \in BOOLEAN
    BY DEF New, Undecided, Client, Request
  <1>1. Undecided(k) /\ (k.listing => k.stale) /\ ~k.is_cgi /\ RightMethod(k)
    BY DEF New, Undecided
  <1>2. /\ New(target) /\ SameRequest(target, k) /\ ServedAs(root, k.q.script)
        /\ root.q = k.q
    <2>1. New(target) /\ SameRequest(target, k)
      BY FileNew
    <2>2. ServedAs(root, k.q.script)
      BY <1>0, ServedNew
    <2>3. k \in Client
      BY DEF New, Undecided
    <2>4. root.q = k.q
      BY <2>3 DEF Client
    <2> QED
      BY <2>1, <2>2, <2>4
  <1>3. CASE k.method = "OPTIONS"
    <2>1. /\ opt \in ServingStates \ {"SERVING_GET"} /\ opt # "SERVING_CGI" /\ k.q.word = "OPTIONS"
          /\ opt \notin {"SERVING_POST", "SERVING_PUT"}
      BY <1>1, <1>3 DEF ServingStates, RightMethod
    <2> HIDE DEF opt
    <2>2. ToServe(State(k, opt))
      BY <1>1, <2>1, Started
    <2> QED
      BY <1>3, <2>2, ToServeDecided DEF ArchitectResponse, opt
  <1>4. CASE k.method # "OPTIONS" /\ refusal # 0
    <2>1. refusal \in Codes \ {204, 207}
      BY <1>4 DEF Refusal, Codes
    <2> HIDE DEF refusal
    <2>2. Decided(Refuse(k, refusal))
      BY <2>1, RefuseDecides
    <2> QED
      BY <1>4, <2>2 DEF ArchitectResponse, refusal
  <1>5. CASE k.method # "OPTIONS" /\ refusal = 0 /\ k.q.redirect
    <2>1. moved \in Codes \ {204, 207}
      BY DEF Codes
    <2> HIDE DEF moved
    <2>2. Decided(State(FillResponse(k, moved, TRUE), "SERVED"))
      BY <2>1, RefusedNew
    <2> QED
      BY <1>5, <2>2 DEF ArchitectResponse, moved
  <1>6. CASE k.method # "OPTIONS" /\ refusal = 0 /\ ~k.q.redirect
    <2>1. CASE k.method \in {"GET", "HEAD"}
      BY <1>6, <2>1, Handle200Decides DEF ArchitectResponse
    <2>2. CASE k.method = "DELETE"
      <3>1. del \in ServingStates \ {"SERVING_GET"} /\ del # "SERVING_CGI"
            /\ del \notin {"SERVING_POST", "SERVING_PUT", "SERVING_OPTIONS"}
        BY DEF ServingStates
      <3> HIDE DEF del, target
      <3>2. ToServe(State(target, del))
        BY <1>2, <3>1, Started DEF New
      <3> QED
        BY <1>6, <2>2, <3>2, ToServeDecided DEF ArchitectResponse, del, target
    <2>3. CASE k.method = "PUT"
      <3>1. put \in ServingStates \ {"SERVING_GET"} /\ put # "SERVING_CGI" /\ put # "SERVING_OPTIONS"
        BY DEF ServingStates
      <3>2. target.q.word \in Uploads
        BY <1>1, <1>2, <2>3 DEF RightMethod, SameRequest, Uploads
      <3> HIDE DEF put, target
      <3>3. ToServe(State(target, put))
        BY <1>2, <3>1, <3>2, Started DEF New
      <3> QED
        BY <1>6, <2>3, <3>3, ToServeDecided DEF ArchitectResponse, put, target
    <2>4. CASE k.method = "POST"
      <3>1. up \in ServingStates \ {"SERVING_GET"} /\ (k.q.script <=> up = "SERVING_CGI")
            /\ up # "SERVING_OPTIONS"
        BY <1>0 DEF ServingStates
      <3>2. root.q.word \in Uploads
        BY <1>1, <1>2, <2>4 DEF RightMethod, Uploads
      <3> HIDE DEF up, root
      <3>3. ToServe(State(root, up))
        BY <1>2, <3>1, <3>2, Started DEF ServedAs
      <3> QED
        BY <1>6, <2>4, <3>3, ToServeDecided DEF ArchitectResponse, up, root
    <2> QED
      BY <1>1, <1>6, <2>1, <2>2, <2>3, <2>4 DEF RightMethod, Supported
  <1> QED
    BY <1>3, <1>4, <1>5, <1>6

\* parse_request leaves a method that is supported, and nothing decided.
LEMMA FreshNew ==
    ASSUME NEW q \in Requests, NEW stale \in BOOLEAN
    PROVE  New(ParseRequest(Fresh("READING_HEADER", q, stale)))
  <1> DEFINE k == Fresh("READING_HEADER", q, stale)
             method == IF q.word \in Supported THEN q.word ELSE "GET"
             p == [q EXCEPT !.keep = FALSE, !.te = "absent", !.length = "absent", !.ctype = FALSE]
             a == [k EXCEPT !.method = method]
             b == [a EXCEPT !.q = p]
  <1>1. q \in Request /\ SiteOf(q)
    BY RespondAssumption
  <1>2. p \in Request
    BY <1>1 DEF Request
  <1>3. SiteOf(p) /\ p.word = q.word /\ p.tree = q.tree
    BY <1>1 DEF Request, SiteOf
  <1>4. method \in Supported /\ method \in {"GET", q.word}
    BY DEF Supported
  <1>5. k \in Client /\ k.q = q /\ k.tree = q.tree /\ k.code = 0 /\ k.conn = "none"
        /\ k.wire = << >> /\ k.first_time /\ ~k.is_cgi /\ k.listing = k.stale
    <2>1. << >> \in Wire
      BY DEF Wire
    <2>2. q.tree \in SUBSET Node
      BY <1>1 DEF Request
    <2> QED
      BY <1>1, <2>1, <2>2 DEF Fresh, Client, Codes
  <1> HIDE DEF k, method, p
  <1>6. a \in Client /\ a.method = method /\ a.q = q /\ a.tree = q.tree /\ a.code = 0 /\ a.conn = "none"
        /\ a.wire = << >> /\ a.first_time /\ ~a.is_cgi /\ a.listing = a.stale
    BY <1>4, <1>5 DEF Client
  <1> HIDE DEF a
  <1>7. b \in Client /\ b.method = method /\ b.q = p /\ b.tree = q.tree /\ b.code = 0 /\ b.conn = "none"
        /\ b.wire = << >> /\ b.first_time /\ ~b.is_cgi /\ b.listing = b.stale
    BY <1>2, <1>6 DEF Client
  <1> HIDE DEF b
  <1>8. New(a)
    BY <1>1, <1>4, <1>6 DEF New, Undecided, RightMethod
  <1>9. New(b)
    BY <1>3, <1>4, <1>7 DEF New, Undecided, RightMethod
  <1>10. ParseRequest(k) \in {a, b}
    BY <1>5 DEF ParseRequest, a, b, p, method
  <1> QED
    BY <1>8, <1>9, <1>10 DEF k

-----------------------------------------------------------------------------
(* DELETE: delete.method.cpp:9-78.                                         *)

\* The code that handle_delete_folder answers with says what rmfiles has done.
\* Behind 204 every directory could be opened and every file removed, so what is
\* left is a directory above one that remove() fails for; behind another code
\* some entry could not, which is then left itself.
LEMMA DeletedTree ==
    ASSUME NEW q \in Request, SiteOf(q), q.dir
    PROVE  LET t == q.tree
               root == CHOOSE n \in t : n.path = << >>
               code == IF Rmfiles(t, root) THEN 204 ELSE IF Files(Removed(t)) = {} THEN 403 ELSE 207
           IN TreeTold(q, t \ Removed(t), code)
  <1> DEFINE t == q.tree
             root == CHOOSE n \in t : n.path = << >>
             code == IF Rmfiles(t, root) THEN 204 ELSE IF Files(Removed(t)) = {} THEN 403 ELSE 207
             rest == t \ Removed(t)
  <1>1. /\ t \subseteq Node
        /\ \E n \in t : n.path = << >>
        /\ \A n, d \in t : n # d /\ IsPrefix(d.path, n.path) => d.kind = "dir"
    BY DEF Request, SiteOf
  <1>2. root \in t /\ root.path = << >>
    BY <1>1
  <1>2a. q.tree = t
    OBVIOUS
  <1> HIDE DEF t, root
  <1>3. \A n \in t : /\ n.path \in Seq(STRING) /\ n.kind \in {"file", "dir"}
                     /\ IsPrefix(n.path, n.path)
    <2>1. \A p \in Seq(STRING) : IsPrefix(p, p)
      BY DEF IsPrefix
    <2> QED
      BY <1>1, <2>1 DEF Node
  <1>4. \A n \in t : n \in Below(t, root) /\ n \in Below(t, n)
    <2>1. \A p \in Seq(STRING) : IsPrefix(<< >>, p)
      BY DEF IsPrefix
    <2> QED
      BY <1>2, <1>3, <2>1 DEF Below
  <1>5. Removed(t) \subseteq t /\ t \ rest = Removed(t)
    BY DEF Removed
  <1>6. ASSUME Rmfiles(t, root)
         PROVE  TreeTold(q, rest, code)
    <2>1. \A n \in t : IF n.kind = "dir" THEN "open" \in n.can ELSE "remove" \in n.can
      BY <1>4, <1>6 DEF Rmfiles
    <2>2. \A n \in t : Rmfiles(t, n)
      BY <2>1 DEF Rmfiles, Below
    <2>3. \A n \in t : \A d \in Above(t, n) : "open" \in d.can
      BY <1>1, <2>1 DEF Above
    <2>4. ASSUME NEW n \in rest
          PROVE  n.kind = "dir" /\ \E m \in Below(rest, n) : "remove" \notin m.can
      <3>1. n \in t /\ n \notin Removed(t)
        OBVIOUS
      <3>2. n.kind = "dir"
        BY <1>3, <2>1, <2>3, <3>1 DEF Removed
      <3>3. PICK m \in Below(t, n) : "remove" \notin m.can
        BY <1>4, <2>2, <2>3, <3>1 DEF Removed
      <3>4. m \in Below(rest, n)
        BY <3>3 DEF Below, Removed
      <3> QED
        BY <3>2, <3>3, <3>4
    <2>5. code = 204
      BY <1>6
    <2> HIDE DEF code, rest
    <2> QED
      BY <2>4, <2>5 DEF TreeTold
  <1>7. ASSUME ~Rmfiles(t, root) /\ Files(Removed(t)) = {}
         PROVE  TreeTold(q, rest, code)
    <2>1. code = 403 /\ Files(t \ rest) = {}
      BY <1>5, <1>7
    <2> HIDE DEF code, rest
    <2> QED
      BY <1>2a, <2>1 DEF TreeTold
  <1>8. ASSUME ~Rmfiles(t, root) /\ Files(Removed(t)) # {}
         PROVE  TreeTold(q, rest, code)
    <2>1. PICK n \in t : ~(IF n.kind = "dir" THEN "open" \in n.can ELSE "remove" \in n.can)
      BY <1>8 DEF Rmfiles, Below
    <2>2. n \notin Removed(t)
      <3>1. CASE n.kind = "dir"
        BY <1>4, <2>1, <3>1 DEF Removed, Rmfiles
      <3>2. CASE n.kind # "dir"
        BY <2>1, <3>2 DEF Removed
      <3> QED
        BY <3>1, <3>2
    <2>3. rest # {}
      BY <2>2
    <2>4. code = 207 /\ Files(t \ rest) # {}
      BY <1>5, <1>8
    <2> HIDE DEF code, rest
    <2> QED
      BY <1>2a, <2>3, <2>4 DEF TreeTold
  <1>9. TreeTold(q, rest, code)
    BY <1>6, <1>7, <1>8
  <1> QED
    BY <1>9 DEF t, root

-----------------------------------------------------------------------------
(* Answers that are a head alone.                                          *)

\* Nothing was sent that a head must not follow.
Replying(k) ==
    /\ k \in Client /\ SiteOf(k.q)
    /\ ~k.stale /\ k.q.word # "HEAD" => ~k.listing /\ k.wire = << >>
    /\ Reusable(k) => Announced(k) /\ k.conn \in {"none", "keep-alive"}

LEMMA ReplyAnswers ==
    ASSUME NEW k, Replying(k), NEW c \in Codes,
           k.q.word = "DELETE" => TreeTold(k.q, k.tree, c)
    PROVE  Answered(Reply(k, c))
  <1> DEFINE r == Reply(k, c)
  <1>1. k \in Client
    BY DEF Replying
  <1>2. /\ r \in Client /\ SameRequest(r, k) /\ r.code = c
        /\ HeadPut(r, k, ~k.listing)
        /\ k.q.keep /\ ~k.listing /\ k.conn \in {"none", "keep-alive"} => r.conn = "keep-alive"
    BY <1>1, ReplyIs
  <1> HIDE DEF r
  <1>3. OneAtTheEnd(r)
    <2>1. SUFFICES ASSUME ~r.stale, r.q.word # "HEAD" PROVE Told(r)
      BY DEF OneAtTheEnd, Told
    <2>2. k.listing = FALSE /\ k.wire = << >>
      BY <1>1, <1>2, <2>1 DEF SameRequest, Replying, Client
    <2>3. HeadPut(r, k, TRUE)
      BY <1>2, <2>2
    <2> QED
      BY <2>2, <2>3, FirstHead
  <1>4. ASSUME Reusable(r) PROVE Announced(r)
    <2>1. Reusable(k)
      BY <1>2, <1>4 DEF SameRequest, Reusable
    <2>2. r.conn = "keep-alive" /\ Announced(k)
      BY <1>2, <2>1 DEF Replying, Reusable
    <2> QED
      BY <1>1, <1>2, <2>2, OneMoreHead
  <1>5. ASSUME r.q.word = "DELETE" PROVE DeleteTold(r)
    <2>1. r.q = k.q /\ r.tree = k.tree
      BY <1>2 DEF SameRequest
    <2>2. TreeTold(r.q, r.tree, r.code)
      BY <1>2, <1>5, <2>1
    <2> QED
      BY <2>2 DEF DeleteTold
  <1>6. SiteOf(r.q)
    BY <1>2 DEF SameRequest, Replying
  <1>7. Answered(r)
    BY <1>2, <1>3, <1>4, <1>5, <1>6 DEF Answered
  <1> QED
    BY <1>7 DEF r

LEMMA ServingReplies ==
    ASSUME NEW k, Serving(k), k.state # "SERVING_GET"
    PROVE  Replying(k)
  BY DEF Serving, Replying, OneSoFar, AnnouncedSoFar

\* Method handlers answer one that is being served.
LEMMA ReplyServing ==
    ASSUME NEW k, Serving(k), k.state # "SERVING_GET", NEW c \in Codes,
           c \notin {204, 207} \/ k.q.word # "DELETE"
    PROVE  Answered(Reply(k, c))
  <1>1. Replying(k) /\ k.tree = k.q.tree
    BY ServingReplies DEF Serving
  <1>2. k.q.word = "DELETE" => TreeTold(k.q, k.tree, c)
    BY <1>1, SameTree
  <1> QED
    BY <1>1, <1>2, ReplyAnswers

\* A script or an upload that breaks off.
LEMMA BrokenOff ==
    ASSUME NEW k, Serving(k), k.state # "SERVING_GET", k.q.word \in Uploads \/ k.is_cgi
    PROVE  Answered(k)
  <1>1. OneAtTheEnd(k)
    BY NothingSent DEF Serving, OneSoFar, OneAtTheEnd
  <1>2. Reusable(k) => Announced(k)
    BY DEF Serving, AnnouncedSoFar
  <1>3. DeleteTold(k)
    BY Untouched DEF Serving
  <1> QED
    BY <1>1, <1>2, <1>3 DEF Answered, Serving

\* A body, or a script, that needs more calls is still being served.
LEMMA NextCall ==
    ASSUME NEW k, Serving(k), k.state # "SERVING_GET"
    PROVE  /\ Serving([k EXCEPT !.first_time = FALSE])
           /\ [k EXCEPT !.first_time = FALSE].state = k.state
  <1> DEFINE r == [k EXCEPT !.first_time = FALSE]
  <1>1. k \in Client
    BY DEF Serving
  <1>2. /\ r \in Client /\ r.q = k.q /\ r.stale = k.stale
        /\ r.listing = k.listing /\ r.is_cgi = k.is_cgi /\ r.method = k.method
        /\ r.tree = k.tree /\ r.state = k.state /\ r.code = k.code
        /\ r.conn = k.conn /\ r.file = k.file /\ r.wire = k.wire
    BY <1>1 DEF Client
  <1> HIDE DEF r
  <1>3. OneSoFar(r)
    BY <1>2 DEF Serving, OneSoFar
  <1>4. AnnouncedSoFar(r)
    BY <1>2 DEF Serving, AnnouncedSoFar, Reusable, Announced
  <1>5. RightMethod(r)
    BY <1>2 DEF Serving, RightMethod
  <1>6. Serving(r)
    BY <1>2, <1>3, <1>4, <1>5 DEF Serving
  <1> QED
    BY <1>2, <1>6 DEF r

\* The head that OPTIONS, or a script, writes itself.
LEMMA OwnHead ==
    ASSUME NEW k, Serving(k), k.state # "SERVING_GET", k.q.word = "OPTIONS" \/ k.is_cgi,
           NEW h \in StatusHead, h.ended = TRUE
    PROVE  Answered(Put(k, h))
  <1> DEFINE r == Put(k, h)
  <1>1. k \in Client
    BY DEF Serving
  <1>2. /\ r \in Client /\ SameRequest(r, k) /\ r.code = k.code
        /\ r.wire = Append(k.wire, h)
    BY <1>1, Put1
  <1> HIDE DEF r
  <1>3. h.kind = "head"
    BY DEF StatusHead
  <1>4. OneAtTheEnd(r)
    <2>1. SUFFICES ASSUME ~r.stale, r.q.word # "HEAD" PROVE Told(r)
      BY DEF OneAtTheEnd, Told
    <2>2. k.wire = << >>
      BY <1>2, <2>1 DEF SameRequest, Serving, OneSoFar
    <2>3. r.wire = <<h>>
      BY <1>2, <2>2
    <2>4. DOMAIN r.wire = {1} /\ r.wire[1] = h
      BY <2>3
    <2> HIDE <2>3
    <2> QED
      BY <1>3, <2>4 DEF Told, OnlyHead, IsHead
  <1>5. ~Reusable(r)
    BY <1>2 DEF SameRequest, Reusable
  <1>6. DeleteTold(r) /\ SiteOf(r.q)
    BY <1>2, Untouched DEF SameRequest, Serving
  <1>7. Answered(r)
    BY <1>2, <1>4, <1>5, <1>6 DEF Answered
  <1> QED
    BY <1>7 DEF r

LEMMA OwnHeadType ==
    [kind |-> "head", code |-> 200, conn |-> "none", length |-> -1,
     chunked |-> FALSE, ended |-> TRUE] \in StatusHead
  BY DEF StatusHead, Codes

\* What a call of a method comes to: an answer, or more of the same.
Outcome(r) ==
    \/ r.state \in {"SERVED", "CLOSED"} /\ Answered(r)
    \/ r.state \notin {"SERVED", "CLOSED"} /\ Serving(r)

LEMMA AnsweredOutcome ==
    ASSUME NEW k, Answered(k), NEW s \in {"SERVED", "CLOSED"}
    PROVE  Outcome(State(k, s))
  <1>1. k \in Client
    BY DEF Answered
  <1>2. State(k, s).state = s
    BY <1>1, StateIs
  <1>3. Answered(State(k, s))
    BY AnsweredState
  <1> QED
    BY <1>2, <1>3 DEF Outcome

\* handle_delete_file: what is no directory has nothing below it.
LEMMA DeleteFileAnswers ==
    ASSUME NEW k, Serving(k), k.state = "SERVING_DELETE", k.q.is_file,
           NEW r \in DeleteFile(k)
    PROVE  Answered(r)
  <1>1. Replying(k) /\ k.tree = k.q.tree /\ SiteOf(k.q)
    BY ServingReplies DEF Serving
  <1>2. PICK c \in IF k.q.target \in {"missing", "directory"} THEN {404} ELSE {204, 403} :
           r = Reply(k, c)
    BY DEF DeleteFile
  <1>3. c \in Codes
    BY DEF Codes
  <1>4. TreeTold(k.q, k.tree, c)
    <2>1. CASE c \notin {204, 207}
      BY <1>1, <2>1, SameTree
    <2>2. CASE c \in {204, 207}
      <3>1. c = 204 /\ k.q.tree = {}
        BY <1>1, <2>2 DEF SiteOf
      <3> QED
        BY <1>1, <3>1 DEF TreeTold
    <2> QED
      BY <2>1, <2>2
  <1> QED
    BY <1>1, <1>2, <1>3, <1>4, ReplyAnswers

\* handle_delete_folder, by DeletedTree.
LEMMA DeleteFolderAnswers ==
    ASSUME NEW k, Serving(k), k.state = "SERVING_DELETE", NEW r \in DeleteFolder(k)
    PROVE  Answered(r)
  <1>1. Replying(k) /\ k.tree = k.q.tree /\ SiteOf(k.q) /\ k \in Client
    BY ServingReplies DEF Serving
  <1>2. CASE ~k.q.dir
    <2> DEFINE c == 404
    <2>1. c \in Codes /\ c \notin {204, 207}
      BY DEF Codes
    <2> HIDE DEF c
    <2>2. Answered(Reply(k, c))
      BY <2>1, ReplyServing
    <2> QED
      BY <1>2, <2>2 DEF DeleteFolder, c
  <1>3. CASE k.q.dir
    <2> DEFINE q == k.q
               t == k.q.tree
               root == CHOOSE n \in t : n.path = << >>
               c == IF Rmfiles(t, root) THEN 204 ELSE IF Files(Removed(t)) = {} THEN 403 ELSE 207
               rest == t \ Removed(t)
               j == [k EXCEPT !.tree = rest]
    <2>1. q \in Request /\ t \subseteq Node
      BY <1>1 DEF Client, Request
    <2>2. TreeTold(q, rest, c)
      BY <1>1, <1>3, <2>1, DeletedTree
    <2>3. c \in Codes
      BY DEF Codes
    <2>4. r = Reply(j, c)
      BY <1>1, <1>3 DEF DeleteFolder
    <2>5. rest \in SUBSET Node
      BY <2>1
    <2> HIDE DEF c, rest
    <2>6. /\ j \in Client /\ j.q = k.q /\ j.stale = k.stale
          /\ j.listing = k.listing /\ j.is_cgi = k.is_cgi /\ j.tree = rest
          /\ j.conn = k.conn /\ j.wire = k.wire
      BY <1>1, <2>5 DEF Client
    <2> HIDE DEF j
    <2>7. Replying(j)
      BY <1>1, <2>6 DEF Replying, Reusable, Announced
    <2>8. TreeTold(j.q, j.tree, c)
      BY <2>2, <2>6
    <2> QED
      BY <2>3, <2>4, <2>7, <2>8, ReplyAnswers
  <1> QED
    BY <1>2, <1>3

\* POST and PUT, whichever way an upload ends.
LEMMA UploadedOutcome ==
    ASSUME NEW k, Serving(k), k.state \in {"SERVING_POST", "SERVING_PUT"}, NEW r \in Uploaded(k)
    PROVE  Outcome(r)
  <1>1. k.q.word \in Uploads /\ k.q.word # "DELETE" /\ k.state # "SERVING_GET"
    BY DEF Serving, Uploads
  <1>2. ASSUME NEW c \in {201, 204, 403, 404, 500}
        PROVE  Outcome(State(Reply(k, c), "SERVED"))
    <2>1. c \in Codes
      BY DEF Codes
    <2>2. Answered(Reply(k, c))
      BY <1>1, <2>1, ReplyServing
    <2> QED
      BY <2>2, AnsweredOutcome
  <1>3. Outcome(State(k, "SERVED"))
    BY <1>1, BrokenOff, AnsweredOutcome
  <1>4. Outcome([k EXCEPT !.first_time = FALSE])
    <2> DEFINE j == [k EXCEPT !.first_time = FALSE]
    <2>1. Serving(j) /\ j.state = k.state
      BY <1>1, NextCall
    <2> HIDE DEF j
    <2>2. Outcome(j)
      BY <2>1 DEF Outcome
    <2> QED
      BY <2>2 DEF j
  <1> DEFINE f == [k EXCEPT !.first_time = FALSE]
  <1>5. \/ \E c \in {201, 204, 403, 404, 500} : r = State(Reply(k, c), "SERVED")
        \/ r = State(k, "SERVED") \/ r = f
    <2> HIDE DEF f
    <2>1. CASE k.method = "PUT" /\ ~k.q.is_file
      BY <2>1 DEF Uploaded
    <2>2. CASE ~(k.method = "PUT" /\ ~k.q.is_file)
      <3>1. \/ \E c \in CreateCodes(k) \cup IF k.method = "PUT" THEN {201, 204} ELSE {201} :
                  r = State(Reply(k, c), "SERVED")
            \/ r = State(k, "SERVED") \/ r = f
        BY <2>2 DEF Uploaded, f
      <3>2. CreateCodes(k) \subseteq {403, 404, 500}
        BY DEF CreateCodes
      <3> QED
        BY <3>1, <3>2
    <2> QED
      BY <2>1, <2>2
  <1>6. Outcome(f)
    BY <1>4
  <1> HIDE DEF f
  <1> QED
    BY <1>2, <1>3, <1>5, <1>6

\* handle_cgi, whichever way a script ends.
LEMMA ScriptedOutcome ==
    ASSUME NEW k, Serving(k), k.state = "SERVING_CGI", NEW r \in Scripted(k)
    PROVE  Outcome(r)
  <1>1. k.is_cgi /\ k.state # "SERVING_GET"
    BY DEF Serving
  <1>2. ASSUME NEW c \in {403, 404, 408, 500}
        PROVE  Outcome(State(Reply(k, c), "CLOSED"))
    <2>1. c \in Codes /\ c \notin {204, 207}
      BY DEF Codes
    <2>2. Answered(Reply(k, c))
      BY <1>1, <2>1, ReplyServing
    <2> QED
      BY <2>2, AnsweredOutcome
  <1>3. Outcome(State(k, "CLOSED"))
    BY <1>1, BrokenOff, AnsweredOutcome
  <1>4. Outcome([k EXCEPT !.first_time = FALSE])
    <2> DEFINE j == [k EXCEPT !.first_time = FALSE]
    <2>1. Serving(j) /\ j.state = k.state
      BY <1>1, NextCall
    <2> HIDE DEF j
    <2>2. Outcome(j)
      BY <2>1 DEF Outcome
    <2> QED
      BY <2>2 DEF j
  <1>5. Outcome(State(ScriptOutput(k), "CLOSED"))
    <2> DEFINE h == [kind |-> "head", code |-> 200, conn |-> "none", length |-> -1,
                     chunked |-> FALSE, ended |-> TRUE]
    <2>1. h \in StatusHead /\ h.ended = TRUE
      BY OwnHeadType
    <2>2. ScriptOutput(k) = Put(k, h)
      BY DEF ScriptOutput
    <2> HIDE DEF h
    <2>3. Answered(Put(k, h))
      BY <1>1, <2>1, OwnHead
    <2> QED
      BY <2>2, <2>3, AnsweredOutcome
  <1> DEFINE f == [k EXCEPT !.first_time = FALSE]
             codes == {500} \cup (IF k.first_time THEN {} ELSE {408})
                        \cup IF k.method = "POST" THEN CreateCodes(k) ELSE {}
  <1>6. codes \subseteq {403, 404, 408, 500}
    BY DEF CreateCodes
  <1>7. \/ \E c \in codes : r = State(Reply(k, c), "CLOSED")
        \/ r = State(ScriptOutput(k), "CLOSED") \/ r = f \/ r = State(k, "CLOSED")
    <2> DEFINE replies == {State(Reply(k, c), "CLOSED") : c \in codes}
               rest == IF k.method = "POST" THEN {State(k, "CLOSED")} ELSE {}
    <2>1. Scripted(k) = replies \cup {State(ScriptOutput(k), "CLOSED"), f} \cup rest
      BY DEF Scripted
    <2> HIDE DEF f, codes
    <2> QED
      BY <2>1
  <1>8. Outcome(f)
    BY <1>4
  <1> HIDE DEF codes, f
  <1>9. CASE \E c \in codes : r = State(Reply(k, c), "CLOSED")
    BY <1>2, <1>6, <1>9
  <1> QED
    BY <1>3, <1>5, <1>7, <1>8, <1>9

LEMMA OptionsAnswers ==
    ASSUME NEW k, Serving(k), k.state = "SERVING_OPTIONS"
    PROVE  Answered(ServeOptions(k))
  <1>1. k.q.word = "OPTIONS" /\ k.state # "SERVING_GET"
    BY DEF Serving
  <1> DEFINE h == [kind |-> "head", code |-> 200, conn |-> "none", length |-> -1,
                   chunked |-> FALSE, ended |-> TRUE]
  <1>2. h \in StatusHead /\ h.ended = TRUE
    BY OwnHeadType
  <1>3. ServeOptions(k) = Put(k, h)
    BY DEF ServeOptions
  <1> HIDE DEF h
  <1> QED
    BY <1>1, <1>2, <1>3, OwnHead

-----------------------------------------------------------------------------
(* GET: get.method.cpp:20-191.                                             *)

\* The head of a file has been sent, and perhaps some of the file.
Opened(k) ==
    /\ Serving(k) /\ k.state = "SERVING_GET" /\ ~k.first_time

LEMMA ResetIs ==
    ASSUME NEW k \in Client
    PROVE  /\ Reset(k) \in Client /\ Reset(k).q = k.q /\ Reset(k).stale = k.stale
           /\ Reset(k).listing = k.listing /\ ~Reset(k).is_cgi
           /\ Reset(k).tree = k.tree /\ Reset(k).conn = "none" /\ Reset(k).wire = k.wire
  <1> DEFINE absent == -1
             no == FALSE
             r == [k EXCEPT !.conn = "none", !.length = absent, !.chunked = no, !.is_cgi = no]
  <1>1. absent \in Int /\ no \in BOOLEAN /\ ~no /\ Reset(k) = r
    BY DEF Reset
  <1> HIDE DEF absent, no
  <1>2. /\ r \in Client /\ r.q = k.q /\ r.stale = k.stale
        /\ r.listing = k.listing /\ ~r.is_cgi
        /\ r.tree = k.tree /\ r.conn = "none" /\ r.wire = k.wire
    BY <1>1 DEF Client
  <1> QED
    BY <1>1, <1>2

\* The 500 for a file that cannot be opened is the only head, too.
LEMMA ResetReplies ==
    ASSUME NEW k, Serving(k), k.state = "SERVING_GET",
           ~k.stale /\ k.q.word # "HEAD" => k.first_time /\ ~k.listing
    PROVE  Replying(Reset(k)) /\ Reset(k).tree = Reset(k).q.tree
  <1> DEFINE r == Reset(k)
  <1>1. k \in Client /\ ~k.is_cgi
    BY DEF Serving
  <1>2. /\ r \in Client /\ r.q = k.q /\ r.stale = k.stale
        /\ r.listing = k.listing /\ ~r.is_cgi
        /\ r.tree = k.tree /\ r.conn = "none" /\ r.wire = k.wire
    BY <1>1, ResetIs
  <1> HIDE DEF r
  <1>3. Reusable(r) => Announced(r)
    BY <1>1, <1>2 DEF Serving, AnnouncedSoFar, Announced, Reusable
  <1>4. ~r.stale /\ r.q.word # "HEAD" => ~r.listing /\ r.wire = << >>
    BY <1>2 DEF Serving, OneSoFar
  <1>5. Replying(r) /\ r.tree = r.q.tree
    BY <1>2, <1>3, <1>4 DEF Replying, Serving
  <1> QED
    BY <1>5 DEF r

\* A file may end at any piece: its one head was sent.
LEMMA Finished200 ==
    ASSUME NEW k, Opened(k)
    PROVE  Answered(k)
  <1>1. OneAtTheEnd(k)
    BY DEF Opened, Serving, OneSoFar, OneAtTheEnd, Told
  <1>2. Reusable(k) => Announced(k)
    BY DEF Opened, Serving, AnnouncedSoFar
  <1>3. DeleteTold(k)
    BY Untouched DEF Opened, Serving
  <1> QED
    BY <1>1, <1>2, <1>3 DEF Answered, Serving, Opened

LEMMA OpenedPut ==
    ASSUME NEW k, Opened(k), ~k.listing, NEW p \in BodyPiece
    PROVE  Opened(Put(k, p)) /\ Put(k, p).off = k.off
  <1> DEFINE r == Put(k, p)
  <1>1. k \in Client
    BY DEF Opened, Serving
  <1>2. /\ r \in Client /\ SameRequest(r, k) /\ r.code = k.code /\ r.state = k.state
        /\ r.conn = k.conn /\ r.wire = Append(k.wire, p)
    BY <1>1, Put1
  <1>3. r.off = k.off
    BY <1>1 DEF Put, Client
  <1> HIDE DEF r
  <1>4. PiecePut(r, k)
    BY <1>2 DEF PiecePut
  <1>5. (Told(k) => Told(r)) /\ (Announced(k) => Announced(r))
    BY <1>1, <1>4, MoreBody
  <1>6. r.q = k.q /\ r.first_time = k.first_time /\ r.stale = k.stale
        /\ r.listing = k.listing /\ r.is_cgi = k.is_cgi /\ r.method = k.method
        /\ r.tree = k.tree
    BY <1>2 DEF SameRequest
  <1>7. OneSoFar(r)
    BY <1>2, <1>5, <1>6 DEF Opened, Serving, OneSoFar
  <1>8. AnnouncedSoFar(r)
    BY <1>2, <1>5, <1>6 DEF Opened, Serving, AnnouncedSoFar, Reusable
  <1>9. RightMethod(r)
    BY <1>6 DEF Opened, Serving, RightMethod
  <1>10. Opened(r)
    BY <1>2, <1>6, <1>7, <1>8, <1>9 DEF Opened, Serving
  <1> QED
    BY <1>3, <1>10 DEF r

LEMMA OpenedMore ==
    ASSUME NEW k, Opened(k), NEW n \in Nat
    PROVE  Opened([k EXCEPT !.off = @ + n])
  <1> DEFINE m == k.off + n
             r == [k EXCEPT !.off = m]
  <1>1. k \in Client
    BY DEF Opened, Serving
  <1>2. m \in Nat
    <2>1. k.off \in Nat
      BY <1>1 DEF Client
    <2> QED
      BY <2>1
  <1>3. [k EXCEPT !.off = @ + n] = r
    OBVIOUS
  <1> HIDE DEF m
  <1>4. /\ r \in Client /\ SameRequest(r, k) /\ r.code = k.code /\ r.state = k.state
        /\ r.conn = k.conn /\ r.wire = k.wire /\ r.file = k.file
    BY <1>1, <1>2 DEF Client, SameRequest
  <1> HIDE DEF r
  <1>6. r.q = k.q /\ r.first_time = k.first_time /\ r.stale = k.stale
        /\ r.listing = k.listing /\ r.is_cgi = k.is_cgi /\ r.method = k.method
        /\ r.tree = k.tree
    BY <1>4 DEF SameRequest
  <1>7. OneSoFar(r)
    BY <1>4, <1>6 DEF Opened, Serving, OneSoFar, Told, OnlyHead, CanList
  <1>8. AnnouncedSoFar(r)
    BY <1>4, <1>6 DEF Opened, Serving, AnnouncedSoFar, Reusable, Announced
  <1>9. RightMethod(r)
    BY <1>6 DEF Opened, Serving, RightMethod
  <1>10. Opened(r)
    BY <1>4, <1>6, <1>7, <1>8, <1>9 DEF Opened, Serving
  <1> QED
    BY <1>3, <1>10

\* The first call for a file sends the head.
LEMMA FirstOpens ==
    ASSUME NEW k, Serving(k), k.state = "SERVING_GET", k.first_time, ~k.listing
    PROVE  LET r == [WriteResponse(k, TRUE) EXCEPT !.first_time = FALSE]
           IN Opened(r) /\ ~r.listing /\ r.off = k.off
  <1> DEFINE yes == TRUE
             w == WriteResponse(k, yes)
             r == [w EXCEPT !.first_time = FALSE]
  <1>1. k \in Client /\ yes \in BOOLEAN
    BY DEF Serving
  <1>2. HeadPut(w, k, TRUE)
    BY <1>1, HeadWritten
  <1>2a. [WriteResponse(k, TRUE) EXCEPT !.first_time = FALSE] = r
    OBVIOUS
  <1>2b. w.off = k.off
    BY <1>1 DEF WriteResponse, Put, Client
  <1> HIDE DEF yes
  <1>3. /\ w \in Client /\ SameRequest(w, k)
        /\ w.state = k.state /\ w.code = k.code /\ w.file = k.file
        /\ w.conn = IF k.listing THEN "closed" ELSE k.conn
    BY <1>1, HeadWritten
  <1> HIDE DEF w
  <1>4. /\ r \in Client /\ r.q = w.q /\ ~r.first_time /\ r.stale = w.stale
        /\ r.listing = w.listing /\ r.is_cgi = w.is_cgi /\ r.method = w.method
        /\ r.tree = w.tree /\ r.state = w.state /\ r.code = w.code
        /\ r.conn = w.conn /\ r.wire = w.wire /\ r.off = w.off
    BY <1>3 DEF Client
  <1> HIDE DEF r
  <1>5. /\ r.q = k.q /\ r.stale = k.stale
        /\ ~r.listing /\ r.is_cgi = k.is_cgi /\ r.method = k.method
        /\ r.tree = k.tree /\ r.state = k.state /\ r.code = k.code /\ r.conn = k.conn
    BY <1>3, <1>4 DEF SameRequest
  <1>6. HeadPut(r, k, TRUE)
    BY <1>2, <1>4 DEF HeadPut
  <1>7. ASSUME ~r.stale, r.q.word # "HEAD" PROVE Told(r)
    BY <1>5, <1>6, <1>7, FirstHead DEF Serving, OneSoFar
  <1>8. OneSoFar(r)
    BY <1>4, <1>5, <1>7 DEF Serving, OneSoFar
  <1>9. ASSUME Reusable(r) PROVE Announced(r) /\ r.conn = "keep-alive"
    <2>1. Reusable(k)
      BY <1>5, <1>9 DEF Reusable
    <2>2. Announced(k) /\ r.conn = "keep-alive"
      BY <1>5, <2>1 DEF Serving, AnnouncedSoFar
    <2> QED
      BY <1>1, <1>6, <2>2, OneMoreHead
  <1>10. AnnouncedSoFar(r)
    BY <1>9 DEF AnnouncedSoFar
  <1>11. RightMethod(r)
    BY <1>5 DEF Serving, RightMethod
  <1>12. Opened(r)
    BY <1>4, <1>5, <1>8, <1>10, <1>11 DEF Opened, Serving
  <1> QED
    BY <1>2b, <1>4, <1>5, <1>12, <1>2a

LEMMA SmallMax == ASSUME NEW a \in Int, NEW b \in Int PROVE Max({a, b}) \in Int
  BY DEF Max

LEMMA SmallMin == ASSUME NEW a \in Int, NEW b \in Int PROVE Min({a, b}) \in Int
  BY DEF Min

LEMMA ReadFileIs ==
    ASSUME NEW k \in Client, size \in Nat
    PROVE  ReadFile(k) \in Int
  <1>1. k.off \in Nat /\ BufferSize \in Int
    <2>1. k.off \in Nat
      BY DEF Client
    <2> QED
      BY <2>1, RespondAssumption
  <1> DEFINE d == size - k.off
             m == Min({BufferSize, d})
  <1>2. d \in Int
    BY <1>1
  <1>3. m \in Int
    <2> HIDE DEF d
    <2> QED
      BY <1>1, <1>2, SmallMin
  <1> HIDE DEF m
  <1>4. Max({0, m}) \in Int
    BY <1>3, SmallMax
  <1> QED
    BY <1>4 DEF ReadFile, m

LEMMA OpenedOutcome ==
    ASSUME NEW k, Opened(k)
    PROVE  Outcome(k) /\ Outcome(State(k, "SERVED"))
  <1>1. Outcome(k)
    BY DEF Opened, Outcome
  <1>2. Outcome(State(k, "SERVED"))
    BY Finished200, AnsweredOutcome
  <1> QED
    BY <1>1, <1>2

\* handle_static_file: the head with the first call and none with a later one.
LEMMA ServeFileOutcome ==
    ASSUME NEW k, Serving(k), k.state = "SERVING_GET", ~k.listing, size \in Nat,
           NEW sent \in BOOLEAN
    PROVE  Outcome(ServeFile(k, sent))
  <1> DEFINE first == [WriteResponse(k, TRUE) EXCEPT !.first_time = FALSE]
             opened == IF k.first_time THEN first ELSE k
             n == ReadFile(k)
             piece == [kind |-> IF k.is_chunked THEN "chunk" ELSE "data", n |-> n]
             end == [kind |-> IF k.is_chunked THEN "last" ELSE "crlf", n |-> 0]
             failed == 500
  <1>1. k \in Client
    BY DEF Serving
  <1>2. Opened(opened) /\ ~opened.listing
    <2>1. CASE k.first_time
      <3>1. Opened(first) /\ ~first.listing
        BY <2>1, FirstOpens
      <3> QED
        BY <2>1, <3>1
    <2>2. CASE ~k.first_time
      BY <2>2 DEF Opened
    <2> QED
      BY <2>1, <2>2
  <1>3. n \in Int
    BY <1>1, ReadFileIs
  <1>4. CASE k.first_time /\ k.file = "none"
    <2>1. failed \in Codes /\ failed \notin {204, 207}
      BY DEF Codes
    <2> DEFINE r == Reset(k)
    <2>2. Replying(r) /\ r.tree = r.q.tree
      BY <1>4, ResetReplies
    <2> HIDE DEF r, failed
    <2>3. r.q.word = "DELETE" => TreeTold(r.q, r.tree, failed)
      BY <2>1, <2>2, SameTree
    <2>4. Answered(Reply(r, failed))
      BY <2>1, <2>2, <2>3, ReplyAnswers
    <2>5. Outcome(State(Reply(r, failed), "SERVED"))
      BY <2>4, AnsweredOutcome
    <2> QED
      BY <1>4, <2>5 DEF ServeFile, r, failed
  <1>5. CASE ~(k.first_time /\ k.file = "none")
    <2> HIDE DEF opened, n
    <2>1. CASE n > 0
      <3>1. piece \in BodyPiece /\ n \in Nat
        BY <1>3, <2>1 DEF BodyPiece
      <3> HIDE DEF piece
      <3> DEFINE p == Put(opened, piece)
      <3>2. Opened(p)
        BY <1>2, <3>1, OpenedPut
      <3> HIDE DEF p
      <3>3. Outcome([p EXCEPT !.off = @ + n])
        BY <3>1, <3>2, OpenedMore, OpenedOutcome
      <3>4. Outcome(State(opened, "SERVED"))
        BY <1>2, OpenedOutcome
      <3> QED
        BY <1>5, <2>1, <3>3, <3>4 DEF ServeFile, n, opened, piece, p
    <2>2. CASE ~(n > 0)
      <3>1. end \in BodyPiece
        BY DEF BodyPiece
      <3> HIDE DEF end
      <3> DEFINE p == Put(opened, end)
      <3>2. Opened(p)
        BY <1>2, <3>1, OpenedPut
      <3> HIDE DEF p
      <3>3. Outcome(State(p, "SERVED"))
        BY <3>2, OpenedOutcome
      <3>4. Outcome(opened)
        BY <1>2, OpenedOutcome
      <3> QED
        BY <1>5, <2>2, <3>3, <3>4 DEF ServeFile, n, opened, end, p
    <2> QED
      BY <2>1, <2>2
  <1> QED
    BY <1>4, <1>5

LEMMA TwoPieces ==
    ASSUME NEW S, NEW w \in Seq(S), NEW a \in S, NEW b \in S
    PROVE  w \o <<a, b>> = Append(Append(w, a), b) /\ Append(w, a) \in Seq(S)
  OBVIOUS

\* The body of a listing, two pieces at once, adds no head either.
LEMMA HtmlSent ==
    ASSUME NEW k \in Client, NEW a \in BodyPiece, NEW b \in BodyPiece
    PROVE  LET r == [k EXCEPT !.wire = @ \o <<a, b>>] IN
           /\ r \in Client /\ SameRequest(r, k) /\ r.code = k.code
           /\ Told(k) => Told(r)
  <1> DEFINE w == Append(k.wire, a)
             v == Append(w, b)
             p == [k EXCEPT !.wire = w]
             r == [k EXCEPT !.wire = v]
             pieces == StatusHead \cup BodyPiece
  <1>1. /\ w \in Wire /\ v \in Wire /\ k.wire \o <<a, b>> = v
    <2>1. k.wire \in Seq(pieces) /\ a \in pieces /\ b \in pieces
      BY DEF Client, Wire
    <2> DEFINE s == k.wire
    <2> HIDE DEF pieces, s
    <2>2. s \in Seq(pieces)
      BY <2>1 DEF s
    <2>3. s \o <<a, b>> = Append(Append(s, a), b) /\ Append(s, a) \in Seq(pieces)
      BY <2>1, <2>2, TwoPieces
    <2>4. Append(Append(s, a), b) \in Seq(pieces)
      BY <2>1, <2>3
    <2> QED
      BY <2>3, <2>4 DEF pieces, s, Wire
  <1>2. [k EXCEPT !.wire = @ \o <<a, b>>] = r
    BY <1>1
  <1> HIDE DEF w, v
  <1>3. /\ p \in Client /\ p.wire = w
    BY <1>1, WireIs
  <1>4. /\ r \in Client /\ SameRequest(r, k) /\ r.code = k.code /\ r.wire = v
    BY <1>1, WireIs
  <1> HIDE DEF p, r
  <1>5. PiecePut(p, k)
    BY <1>3 DEF PiecePut, w
  <1>6. PiecePut(r, p)
    BY <1>3, <1>4 DEF PiecePut, v
  <1>7. Told(k) => Told(r)
    BY <1>3, <1>5, <1>6, MoreBody
  <1> QED
    BY <1>2, <1>4, <1>7

LEMMA LengthIs ==
    ASSUME NEW k \in Client, NEW n \in Int
    PROVE  LET r == [k EXCEPT !.length = n] IN
           r \in Client /\ SameRequest(r, k) /\ r.code = k.code /\ r.wire = k.wire
  BY DEF Client, SameRequest

\* handle_directory_listing, whether list_directories has answered before it, as
\* it may for a listing that was found set, or not.
LEMMA ServeListingOutcome ==
    ASSUME NEW k, Serving(k), k.state = "SERVING_GET", k.listing, NEW sent \in BOOLEAN
    PROVE  Outcome(ServeListing(k, sent))
  <1> DEFINE failed == 500
             error == Reply(Reset(k), failed)
             listed == IF CanList(k) THEN k ELSE error
             length == IF listed.length = -1 THEN ListingSize ELSE listed.length
             sized == [listed EXCEPT !.length = length]
             yes == TRUE
             head == WriteResponse(sized, yes)
             a == [kind |-> "data", n |-> ListingSize]
             b == [kind |-> "crlf", n |-> 0]
             done == IF sent THEN [head EXCEPT !.wire = @ \o <<a, b>>] ELSE head
  <1>1. k \in Client /\ yes \in BOOLEAN /\ yes = TRUE /\ failed \in Codes /\ failed \notin {204, 207}
    BY DEF Serving, Codes
  <1>2. ServeListing(k, sent) = State(done, "SERVED")
    BY DEF ServeListing
  <1>3. a \in BodyPiece /\ b \in BodyPiece
    BY RespondAssumption DEF BodyPiece
  <1> HIDE DEF a, b, failed, yes
  <1>4. /\ error \in Client /\ error.q = k.q /\ error.stale = k.stale
        /\ error.listing = k.listing /\ error.tree = k.tree /\ error.code = failed
    <2>1. /\ Reset(k) \in Client /\ Reset(k).q = k.q /\ Reset(k).stale = k.stale
          /\ Reset(k).listing = k.listing /\ Reset(k).tree = k.tree
      BY <1>1, ResetIs
    <2> DEFINE r == Reset(k)
    <2> HIDE DEF r
    <2>2. r \in Client
      BY <2>1 DEF r
    <2>3. Reply(r, failed) \in Client /\ SameRequest(Reply(r, failed), r) /\ Reply(r, failed).code = failed
      BY <1>1, <2>2, ReplyIs
    <2> QED
      BY <2>1, <2>3 DEF SameRequest, r
  <1> HIDE DEF error
  <1>5. /\ listed \in Client /\ listed.q = k.q /\ listed.stale = k.stale
        /\ listed.listing /\ listed.tree = k.q.tree /\ listed.code \notin {204, 207}
        /\ ~k.stale /\ k.q.word # "HEAD" => listed.wire = << >>
    BY <1>1, <1>4, ZenonT(40) DEF Serving, OneSoFar
  <1> HIDE DEF listed
  <1>6. length \in Int
    <2>1. listed \in Client
      BY <1>5
    <2>2. listed.length \in Int
      BY <2>1 DEF Client
    <2>3. ListingSize \in Int
      BY RespondAssumption
    <2> QED
      BY <2>2, <2>3
  <1> HIDE DEF length
  <1>7. /\ sized \in Client /\ sized.q = k.q /\ sized.stale = k.stale
        /\ sized.listing /\ sized.tree = k.q.tree /\ sized.code \notin {204, 207}
        /\ sized.wire = listed.wire
    <2>1. listed \in Client
      BY <1>5
    <2>2. sized \in Client /\ SameRequest(sized, listed) /\ sized.code = listed.code /\ sized.wire = listed.wire
      BY <1>6, <2>1, LengthIs
    <2> HIDE DEF sized
    <2> QED
      BY <1>5, <2>2 DEF SameRequest
  <1> HIDE DEF sized
  <1>8. head \in Client /\ SameRequest(head, sized) /\ head.code = sized.code /\ HeadPut(head, sized, TRUE)
    BY <1>1, <1>7, HeadWritten
  <1> HIDE DEF head
  <1>9. ASSUME ~k.stale, k.q.word # "HEAD" PROVE Told(head)
    BY <1>5, <1>7, <1>8, <1>9, FirstHead, ZenonT(40)
  <1>10. /\ done \in Client /\ SameRequest(done, head) /\ done.code = head.code
         /\ Told(head) => Told(done)
    <2>1. CASE sent
      BY <1>3, <1>8, <2>1, HtmlSent
    <2>2. CASE ~sent
      BY <1>8, <2>2 DEF SameRequest
    <2> QED
      BY <2>1, <2>2
  <1> HIDE DEF done
  <1>11. /\ done.q = k.q /\ done.stale = k.stale /\ done.listing
         /\ done.tree = k.q.tree /\ done.code \notin {204, 207}
    BY <1>7, <1>8, <1>10 DEF SameRequest
  <1>12. OneAtTheEnd(done)
    BY <1>9, <1>10, <1>11 DEF OneAtTheEnd, Told
  <1>13. DeleteTold(done) /\ ~Reusable(done)
    BY <1>11, Untouched DEF Reusable
  <1>14. Answered(done)
    BY <1>10, <1>11, <1>12, <1>13 DEF Answered, Serving
  <1> QED
    BY <1>2, <1>14, AnsweredOutcome

LEMMA DeleteOutcome ==
    ASSUME NEW k, Serving(k), k.state = "SERVING_DELETE", NEW done \in ServeDelete(k)
    PROVE  Outcome(State(done, "SERVED"))
  <1>1. Answered(done)
    BY DeleteFileAnswers, DeleteFolderAnswers DEF ServeDelete
  <1> QED
    BY <1>1, AnsweredOutcome

\* One call for a client that is being served answers it or goes on serving it.
LEMMA ServedOutcome ==
    ASSUME NEW k, Serving(k), size \in Nat, NEW sent \in BOOLEAN, NEW r \in Served(k, sent)
    PROVE  Outcome(r)
  <1>1. CASE k.state = "SERVING_GET"
    <2>1. r = ServeGet(k, sent)
      BY <1>1 DEF Served
    <2>2. CASE k.listing
      BY <1>1, <2>1, <2>2, ServeListingOutcome DEF ServeGet
    <2>3. CASE ~k.listing
      BY <1>1, <2>1, <2>3, ServeFileOutcome DEF ServeGet
    <2> QED
      BY <2>2, <2>3
  <1>2. CASE k.state = "SERVING_DELETE"
    <2>1. PICK done \in ServeDelete(k) : r = State(done, "SERVED")
      BY <1>2 DEF Served
    <2> QED
      BY <1>2, <2>1, DeleteOutcome
  <1>3. CASE k.state = "SERVING_OPTIONS"
    <2>1. r = State(ServeOptions(k), "SERVED")
      BY <1>3 DEF Served
    <2>2. Answered(ServeOptions(k))
      BY <1>3, OptionsAnswers
    <2> QED
      BY <2>1, <2>2, AnsweredOutcome
  <1>4. CASE k.state \in {"SERVING_POST", "SERVING_PUT"}
    <2>1. r \in Uploaded(k)
      BY <1>4 DEF Served
    <2> QED
      BY <1>4, <2>1, UploadedOutcome
  <1>5. CASE k.state = "SERVING_CGI"
    <2>1. r \in Scripted(k)
      BY <1>5 DEF Served
    <2> QED
      BY <1>5, <2>1, ScriptedOutcome
  <1> QED
    BY <1>1, <1>2, <1>3, <1>4, <1>5 DEF Serving, ServingStates

-----------------------------------------------------------------------------
(* The inductive invariant.                                                *)

\* Of a client that waits nothing was answered; one whose connection was kept or
\* closed was answered; any other is being served.
GoodClient(k) ==
    /\ k \in Client
    /\ k.state = "WAITING" => k.wire = << >>
    /\ k.state \in {"KEEP_ALIVE", "CLOSED"} => Answered(k)
    /\ k.state = "KEEP_ALIVE" => k.q.keep /\ ~k.listing /\ ~k.is_cgi
    /\ k.state \notin {"WAITING", "KEEP_ALIVE", "CLOSED"} => Serving(k)

IInv == TypeOK /\ GoodClient(client)

LEMMA ServingGood ==
    ASSUME NEW k, Serving(k)
    PROVE  GoodClient(k)
  BY DEF Serving, GoodClient, ServingStates

LEMMA ClosedGood ==
    ASSUME NEW k, Answered(k)
    PROVE  GoodClient(State(k, "CLOSED"))
  <1>1. k \in Client
    BY DEF Answered
  <1>2. State(k, "CLOSED") \in Client /\ State(k, "CLOSED").state = "CLOSED"
    BY <1>1, StateIs
  <1>3. Answered(State(k, "CLOSED"))
    BY AnsweredState
  <1> QED
    BY <1>2, <1>3 DEF GoodClient

\* handle_client keeps or closes only what was answered (kqueue.multiplixer.cpp:171-183).
LEMMA SettleGood ==
    ASSUME NEW k, Outcome(k)
    PROVE  GoodClient(Settle(k))
  <1>1. k \in Client
    BY DEF Outcome, Answered, Serving
  <1>2. CASE k.state = "SERVED" /\ Kept(k)
    <2> DEFINE s == "KEEP_ALIVE"
               r == State(k, s)
    <2>1. Settle(k) = r
      BY <1>2 DEF Settle
    <2>2. r \in Client /\ SameRequest(r, k) /\ r.state = s
      BY <1>1, StateIs
    <2>3. Answered(r)
      BY <1>2, AnsweredState DEF Outcome
    <2> HIDE DEF r
    <2>4. r.q.keep /\ ~r.listing /\ ~r.is_cgi
      BY <1>2, <2>2 DEF Kept, SameRequest
    <2> QED
      BY <2>1, <2>2, <2>3, <2>4 DEF GoodClient
  <1>3. CASE k.state = "SERVED" /\ ~Kept(k)
    <2>1. Settle(k) = State(k, "CLOSED")
      BY <1>3 DEF Settle
    <2>2. Answered(k)
      BY <1>3 DEF Outcome
    <2> QED
      BY <2>1, <2>2, ClosedGood
  <1>4. CASE k.state = "CLOSED"
    <2>1. Settle(k) = k /\ Answered(k)
      BY <1>4 DEF Settle, Outcome
    <2> QED
      BY <1>1, <1>4, <2>1 DEF GoodClient
  <1>5. CASE k.state \notin {"SERVED", "CLOSED"}
    <2>1. Settle(k) = k /\ Serving(k)
      BY <1>5 DEF Settle, Outcome
    <2> QED
      BY <2>1, ServingGood
  <1> QED
    BY <1>2, <1>3, <1>4, <1>5

\* A complete header is answered, or served, in the call that completes it.
LEMMA HandledGood ==
    ASSUME NEW q \in Requests, NEW stale \in BOOLEAN, NEW sent \in BOOLEAN, size \in Nat,
           NEW r \in Handled(q, stale, sent)
    PROVE  GoodClient(r)
  <1> DEFINE k == ArchitectResponse(ParseRequest(Fresh("READING_HEADER", q, stale)))
  <1>1. Decided(k)
    BY FreshNew, ArchitectDecides
  <1>2. r \in CASE k.state = "SERVED" -> {State(k, "CLOSED")}
                [] k.state = "SERVING_CGI" -> {k}
                [] OTHER -> {Settle(done) : done \in Served(k, sent)}
    BY DEF Handled
  <1> HIDE DEF k
  <1>3. CASE k.state = "SERVED"
    BY <1>1, <1>2, <1>3, ClosedGood DEF Decided
  <1>4. CASE k.state = "SERVING_CGI"
    BY <1>1, <1>2, <1>4, ServingGood DEF Decided
  <1>5. CASE k.state \notin {"SERVED", "SERVING_CGI"}
    <2>1. Serving(k)
      BY <1>1, <1>5 DEF Decided
    <2>2. PICK done \in Served(k, sent) : r = Settle(done)
      BY <1>2, <1>5
    <2>3. Outcome(done)
      BY <2>1, ServedOutcome
    <2> QED
      BY <2>2, <2>3, SettleGood
  <1> QED
    BY <1>3, <1>4, <1>5

\* A client that was just accepted.
LEMMA InitIInv == Init => IInv
  <1> SUFFICES ASSUME Init PROVE IInv
    OBVIOUS
  <1> DEFINE q == CHOOSE r \in Requests : TRUE
             k == Fresh("WAITING", q, FALSE)
  <1>1. q \in Requests
    BY RespondAssumption
  <1> HIDE DEF q
  <1>2. q \in Request
    BY <1>1, RespondAssumption
  <1>3. k \in Client /\ k.state = "WAITING" /\ k.wire = << >>
    <2>1. << >> \in Wire
      BY DEF Wire
    <2>2. q.tree \in SUBSET Node
      BY <1>2 DEF Request
    <2> QED
      BY <1>2, <2>1, <2>2 DEF Fresh, Client, Codes
  <1>4. client = k
    BY DEF Init, q
  <1> HIDE DEF k
  <1>5. size \in Nat /\ disturbed \in BOOLEAN /\ left \in 0..MaxRequests
    <2>1. size \in Sizes /\ disturbed = FALSE /\ left = MaxRequests
      BY DEF Init
    <2>2. Sizes \subseteq Nat /\ MaxRequests \in Nat
      BY RespondAssumption
    <2>3. left \in 0..MaxRequests
      BY <2>1, <2>2
    <2> QED
      BY <2>1, <2>2, <2>3
  <1> QED
    BY <1>3, <1>4, <1>5 DEF IInv, TypeOK, GoodClient

\* One step for each action; a file that is touched concerns no client.
LEMMA NextIInv == IInv /\ [Next]_vars => IInv'
  <1> SUFFICES ASSUME IInv, [Next]_vars PROVE IInv'
    OBVIOUS
  <1>1. size \in Nat /\ disturbed \in BOOLEAN /\ left \in 0..MaxRequests /\ GoodClient(client)
    BY DEF IInv, TypeOK
  <1>2. CASE Receive
    <2>1. PICK q \in Requests, stale, sent \in BOOLEAN :
             client' \in Handled(q, stale, sent) /\ disturbed' = ~sent
      BY <1>2 DEF Receive
    <2>2. GoodClient(client')
      BY <1>1, <2>1, HandledGood
    <2>3. disturbed' \in BOOLEAN /\ size' \in Nat /\ left' \in 0..MaxRequests
      BY <1>1, <1>2, <2>1, RespondAssumption DEF Receive
    <2> QED
      BY <2>2, <2>3 DEF IInv, TypeOK, GoodClient
  <1>3. CASE Serve
    <2>1. PICK sent \in BOOLEAN :
             /\ client' \in {Settle(done) : done \in Served(client, sent)}
             /\ disturbed' = (disturbed \/ ~sent)
      BY <1>3 DEF Serve
    <2>2. PICK done \in Served(client, sent) : client' = Settle(done)
      BY <2>1
    <2>3. Serving(client)
      BY <1>1, <1>3 DEF Serve, GoodClient
    <2>4. GoodClient(client')
      BY <1>1, <2>2, <2>3, ServedOutcome, SettleGood
    <2>5. disturbed' \in BOOLEAN /\ size' \in Nat /\ left' \in 0..MaxRequests
      BY <1>1, <1>3, <2>1 DEF Serve
    <2> QED
      BY <2>4, <2>5 DEF IInv, TypeOK, GoodClient
  <1>4. CASE Touch
    BY <1>1, <1>4, RespondAssumption DEF Touch, IInv, TypeOK
  <1>5. CASE UNCHANGED vars
    BY <1>1, <1>5 DEF vars, IInv, TypeOK
  <1> QED
    BY <1>2, <1>3, <1>4, <1>5 DEF Next

\* From its header to its end every request is either being served, with its head
\* sent or not as its method has it, or was answered as it should be.
THEOREM AnswerInvariant == Spec => []IInv
  BY InitIInv, NextIInv, PTL DEF Spec

\* Client, request and response keep their types through the chain of handlers, the
\* methods and handle_client; the method is a supported one once there is a header.
THEOREM TypeCorrect == Spec => []TypeOK
  BY AnswerInvariant, PTL DEF IInv

LEMMA OneByInvariant == IInv => OneAnswer
  <1> SUFFICES ASSUME IInv PROVE OneAnswer
    OBVIOUS
  <1> SUFFICES ASSUME ~client.stale, client.q.word # "HEAD"
               PROVE  /\ OnlyHead(client)
                      /\ Finished /\ client.q.word \notin Uploads /\ ~client.is_cgi => Told(client)
    BY DEF OneAnswer, OnlyHead, Told, HeadsAt
  <1>1. GoodClient(client)
    BY DEF IInv
  <1>2. CASE client.state = "WAITING"
    BY <1>1, <1>2, NothingSent DEF GoodClient, Finished
  <1>3. CASE Finished
    BY <1>1, <1>3 DEF GoodClient, Finished, Answered, OneAtTheEnd
  <1>4. CASE client.state \notin {"WAITING", "KEEP_ALIVE", "CLOSED"}
    <2>1. Serving(client)
      BY <1>1, <1>4 DEF GoodClient
    <2> QED
      BY <1>4, <2>1, NothingSent DEF Serving, OneSoFar, Told, Finished
  <1> QED
    BY <1>2, <1>3, <1>4 DEF Finished

\* Whatever the request and the site, no path of architect_response, serve_client
\* and handle_cgi writes two heads or, but for uploads and scripts that break off,
\* none, if is_directory_listing was not found set and the method is not HEAD.
THEOREM OneAnswerEach == Spec => []OneAnswer
  BY AnswerInvariant, OneByInvariant, PTL

LEMMA KeptByInvariant == IInv => KeptAsAnnounced
  <1> SUFFICES ASSUME IInv, client.state = "KEEP_ALIVE", client.q.word \notin Uploads \cup {"OPTIONS"}
               PROVE  Announced(client)
    BY DEF KeptAsAnnounced, Announced, HeadsAt
  <1>1. Reusable(client) /\ Answered(client)
    BY DEF IInv, GoodClient, Reusable, Uploads
  <1> QED
    BY <1>1 DEF Answered

\* handle_client keeps no connection that the client was not told is kept, though
\* it decides by the request what the head says by the response.
THEOREM KeptIsAnnounced == Spec => []KeptAsAnnounced
  BY AnswerInvariant, KeptByInvariant, PTL

LEMMA DeletedByInvariant == IInv => DeletedAsTold
  <1> SUFFICES ASSUME IInv, client.q.word = "DELETE", Finished
               PROVE  DeleteTold(client)
    BY DEF DeletedAsTold, DeleteTold, TreeTold
  <1> QED
    BY DEF IInv, GoodClient, Finished, Answered

\* Whatever the tree below a directory and wherever opendir() and remove() fail in
\* it, the code that answers DELETE says what was deleted.
THEOREM DeletedIsTold == Spec => []DeletedAsTold
  BY AnswerInvariant, DeletedByInvariant, PTL

-----------------------------------------------------------------------------
(* The sum over the pieces on a wire.                                      *)

\* g adds up w from the first piece to the m-th.
SumTo(g, w, m) ==
    g = [n \in 0..m |-> IF n = 0 THEN 0 ELSE g[n - 1] + Counted(w[n])]

\* There is one, by induction on m: a recursive function is the CHOOSE of it.
LEMMA SumExists ==
    ASSUME NEW w, NEW m \in Nat
    PROVE  \E g : SumTo(g, w, m)
  <1> DEFINE S == {n \in Nat : \E g : SumTo(g, w, n)}
  <1>1. 0 \in S
    <2> DEFINE g == [n \in 0..0 |-> 0]
    <2>1. SumTo(g, w, 0)
      BY DEF SumTo
    <2> QED
      BY <2>1
  <1>2. ASSUME NEW n \in Nat, n \in S PROVE n + 1 \in S
    <2>1. PICK g : SumTo(g, w, n)
      BY <1>2
    <2> DEFINE h == [k \in 0..n + 1 |-> IF k <= n THEN g[k] ELSE g[n] + Counted(w[n + 1])]
    <2>2. \A k \in 0..n : g[k] = IF k = 0 THEN 0 ELSE g[k - 1] + Counted(w[k])
      BY <2>1 DEF SumTo
    <2>3. \A k \in 0..n + 1 : h[k] = IF k = 0 THEN 0 ELSE h[k - 1] + Counted(w[k])
      BY <2>2
    <2>4. h = [k \in 0..n + 1 |-> h[k]]
      OBVIOUS
    <2> HIDE DEF h
    <2>5. SumTo(h, w, n + 1)
      BY <2>3, <2>4 DEF SumTo
    <2> QED
      BY <2>5
  <1> HIDE DEF S
  <1>3. Nat \subseteq S
    BY <1>1, <1>2, Induction
  <1> QED
    BY <1>3 DEF S

\* So Bytes is the last of these sums.
LEMMA BytesIs ==
    ASSUME NEW w, Len(w) \in Nat
    PROVE  \E g : SumTo(g, w, Len(w)) /\ Bytes(w) = g[Len(w)]
  <1> DEFINE upto[n \in 0..Len(w)] == IF n = 0 THEN 0 ELSE upto[n - 1] + Counted(w[n])
  <1>1. Bytes(w) = upto[Len(w)]
    BY DEF Bytes
  <1>2. upto = CHOOSE g : SumTo(g, w, Len(w))
    BY DEF SumTo
  <1> HIDE DEF upto
  <1>3. SumTo(upto, w, Len(w))
    BY <1>2, SumExists
  <1> QED
    BY <1>1, <1>3

\* Sums over wires that begin alike begin alike.
LEMMA SumSame ==
    ASSUME NEW w, NEW v, NEW g, NEW h, NEW a \in Nat, NEW b \in Nat, NEW m \in Nat,
           SumTo(g, w, a), SumTo(h, v, b), m <= a, m <= b,
           \A n \in 1..m : w[n] = v[n]
    PROVE  g[m] = h[m]
  <1> DEFINE S == {n \in Nat : n <= m => g[n] = h[n]}
  <1>1. \A k \in 0..a : g[k] = IF k = 0 THEN 0 ELSE g[k - 1] + Counted(w[k])
    BY DEF SumTo
  <1>2. \A k \in 0..b : h[k] = IF k = 0 THEN 0 ELSE h[k - 1] + Counted(v[k])
    BY DEF SumTo
  <1>3. 0 \in S
    BY <1>1, <1>2
  <1>4. ASSUME NEW n \in Nat, n \in S PROVE n + 1 \in S
    <2>1. SUFFICES ASSUME n + 1 <= m PROVE g[n + 1] = h[n + 1]
      OBVIOUS
    <2>2. g[n] = h[n]
      BY <1>4, <2>1
    <2>3. n + 1 \in 0..a /\ n + 1 \in 0..b /\ n + 1 # 0 /\ n + 1 - 1 = n /\ n + 1 \in 1..m
      BY <2>1
    <2>4. g[n + 1] = g[n] + Counted(w[n + 1]) /\ h[n + 1] = h[n] + Counted(v[n + 1])
      BY <1>1, <1>2, <2>3
    <2> QED
      BY <2>2, <2>3, <2>4
  <1> HIDE DEF S
  <1>5. m \in S
    BY <1>3, <1>4, Induction
  <1> QED
    BY <1>5 DEF S

\* One more piece adds what it counts.
LEMMA BytesAppend ==
    ASSUME NEW w \in Wire, NEW p \in StatusHead \cup BodyPiece
    PROVE  Bytes(Append(w, p)) = Bytes(w) + Counted(p)
  <1> DEFINE v == Append(w, p)
             pieces == StatusHead \cup BodyPiece
             l == Len(w)
  <1>1. w \in Seq(pieces) /\ p \in pieces
    BY DEF Wire
  <1> HIDE DEF pieces
  <1>2. /\ l \in Nat /\ Len(v) = l + 1 /\ v[l + 1] = p
        /\ \A n \in 1..l : w[n] = v[n]
    BY <1>1
  <1> HIDE DEF v, l
  <1>3. PICK g : SumTo(g, w, l) /\ Bytes(w) = g[l]
    BY <1>2, BytesIs DEF l
  <1>4. PICK h : SumTo(h, v, l + 1) /\ Bytes(v) = h[l + 1]
    BY <1>2, BytesIs
  <1>5. g[l] = h[l]
    <2>1. l + 1 \in Nat /\ l <= l /\ l <= l + 1
      BY <1>2
    <2> QED
      BY <1>2, <1>3, <1>4, <2>1, SumSame
  <1>6. h[l + 1] = h[l] + Counted(v[l + 1])
    <2>1. \A k \in 0..l + 1 : h[k] = IF k = 0 THEN 0 ELSE h[k - 1] + Counted(v[k])
      BY <1>4 DEF SumTo
    <2> DEFINE k == l + 1
    <2>2. k \in 0..k /\ k # 0 /\ k - 1 = l
      BY <1>2
    <2>3. k = l + 1
      OBVIOUS
    <2> HIDE DEF k
    <2>4. h[k] = h[k - 1] + Counted(v[k])
      BY <2>1, <2>2, <2>3
    <2> QED
      BY <2>2, <2>3, <2>4
  <1> QED
    BY <1>2, <1>3, <1>4, <1>5, <1>6 DEF v

LEMMA NoBytes == Bytes(<< >>) = 0
  <1>1. PICK g : SumTo(g, << >>, 0) /\ Bytes(<< >>) = g[0]
    BY BytesIs
  <1> QED
    BY <1>1 DEF SumTo

-----------------------------------------------------------------------------
(* What the chain of handlers leaves in the response:                      *)
(* response.struct.hpp:82-108 and handlers.methods.cpp:11-60.               *)

\* Nothing is decided about the body.
Unframed(k) == ~k.chunked /\ ~k.is_chunked /\ k.length = -1 /\ k.off = 0

\* r frames its body as k does.
SameFrame(r, k) ==
    /\ r.chunked = k.chunked /\ r.is_chunked = k.is_chunked
    /\ r.length = k.length /\ r.off = k.off /\ r.listing = k.listing

\* The head fits the file, of size s, that nothing has been read of.
Ready(k, s) ==
    \/ k.listing
    \/ /\ k.off = 0
       /\ IF k.chunked THEN k.is_chunked /\ k.length = -1
          ELSE ~k.is_chunked /\ k.length = s

\* What architect_response has to leave for the handlers of the methods.
Chosen(k) ==
    /\ k.state = "SERVING_GET" => Ready(k, size)
    /\ k.state = "SERVING_DELETE" => Unframed(k)
    /\ k.state \in {"SERVING_POST", "SERVING_PUT"} => k.method \in Uploads

\* Other fields make no difference.
LEMMA SameFrames ==
    ASSUME NEW k \in Client
    PROVE  /\ \A s : SameFrame(State(k, s), k)
           /\ \A f : SameFrame([k EXCEPT !.file = f], k)
           /\ \A m : SameFrame([k EXCEPT !.method = m], k)
           /\ \A c : SameFrame([k EXCEPT !.conn = c], k)
           /\ \A f, b : SameFrame([k EXCEPT !.file = f, !.is_cgi = b], k)
           /\ \A w : SameFrame([k EXCEPT !.wire = w], k)
  BY DEF SameFrame, State, Client

\* The head says what the response says.
LEMMA HeadFrame ==
    ASSUME NEW k \in Client, NEW b \in BOOLEAN
    PROVE  /\ SameFrame(WriteResponse(k, b), k)
           /\ \E h \in StatusHead : /\ WriteResponse(k, b).wire = Append(k.wire, h)
                                    /\ h.chunked = k.chunked /\ h.length = k.length
  <1> DEFINE conn == IF k.listing THEN "closed" ELSE k.conn
             h == [kind |-> "head", code |-> k.code, conn |-> conn,
                   length |-> k.length, chunked |-> k.chunked, ended |-> b]
             j == [k EXCEPT !.conn = conn]
             w == Append(j.wire, h)
             r == [j EXCEPT !.wire = w]
  <1>1. conn \in {"none", "keep-alive", "closed"}
    BY DEF Client
  <1>2. h \in StatusHead /\ h.chunked = k.chunked /\ h.length = k.length
    BY <1>1 DEF Client, StatusHead
  <1>3. WriteResponse(k, b) = r
    BY DEF WriteResponse, Put
  <1>4. j \in Client /\ j.wire = k.wire /\ SameFrame(j, k)
    BY <1>1, ConnIs, SameFrames
  <1> HIDE DEF h, j
  <1>5. r.wire = w /\ SameFrame(r, j)
    <2> HIDE DEF w
    <2>1. SameFrame(r, j)
      BY <1>4, SameFrames
    <2>2. r.wire = w
      BY <1>4 DEF Client
    <2> QED
      BY <2>1, <2>2
  <1> HIDE DEF r
  <1>6. SameFrame(r, k)
    BY <1>4, <1>5 DEF SameFrame
  <1> QED
    BY <1>2, <1>3, <1>4, <1>5, <1>6 DEF w

\* The member function fill_response, for something that can be read: the size of
\* it that stat() has found, or chunks.
LEMMA FillFrame ==
    ASSUME NEW k \in Client, NEW c \in Codes, NEW b \in BOOLEAN, size \in Nat,
           Unframed(k), HasBody(k), Accessible(k) \/ k.listing
    PROVE  Ready(FillResponse(k, c, b), size)
  <1> DEFINE chunked == HasBody(k) /\ k.q.te = "chunked"
             sized == HasBody(k) /\ ~chunked /\ ~k.listing /\ Accessible(k)
             conn == IF k.is_cgi \/ ~KeepsAlive(k) THEN "closed" ELSE "keep-alive"
             is_chunked == chunked \/ (k.is_chunked /\ ~sized)
             length == IF ~HasBody(k) THEN 0 ELSE IF sized THEN size ELSE -1
             filled == [k EXCEPT !.code = c, !.conn = conn, !.chunked = chunked,
                                 !.is_chunked = is_chunked, !.length = length]
             file == IF filled.method # "GET" THEN "none" ELSE filled.file
             cleared == [filled EXCEPT !.file = file]
             e == \/ cleared.file = "none" \/ ~k.listing \/ ~Accessible(cleared)
             r == WriteResponse(cleared, e)
  <1>1. /\ conn \in {"keep-alive", "closed"} /\ chunked \in BOOLEAN
        /\ is_chunked \in BOOLEAN /\ length \in Int /\ e \in BOOLEAN
    OBVIOUS
  <1>2. FillResponse(k, c, b) = IF ~b THEN filled ELSE r
    BY DEF FillResponse
  <1>3. k.listing \/ IF chunked THEN is_chunked /\ length = -1 ELSE ~is_chunked /\ length = size
    BY DEF Unframed
  <1> HIDE DEF chunked, conn, is_chunked, length
  <1>4. /\ filled \in Client
        /\ filled.chunked = chunked /\ filled.is_chunked = is_chunked
        /\ filled.length = length /\ filled.off = k.off /\ filled.listing = k.listing
    BY <1>1, ZenonT(40) DEF Client
  <1> HIDE DEF filled
  <1>5. file \in {"none", "target", "index", "page", "root"}
    BY <1>4 DEF Client
  <1> HIDE DEF file
  <1>6. cleared \in Client /\ SameFrame(cleared, filled)
    BY <1>4, <1>5, FileIs, SameFrames
  <1> HIDE DEF cleared, e
  <1>7. SameFrame(r, cleared)
    BY <1>1, <1>6, HeadFrame
  <1> HIDE DEF r
  <1>8. Ready(filled, size) /\ Ready(r, size)
    BY <1>3, <1>4, <1>6, <1>7 DEF Ready, SameFrame, Unframed
  <1> QED
    BY <1>1, <1>2, <1>8

-----------------------------------------------------------------------------
(* The handlers, in the order of architect_response:                       *)
(* handlers.methods.cpp:150-689.                                           *)

LEMMA ServedChosen ==
    ASSUME NEW k \in Client
    PROVE  Chosen(State(k, "SERVED"))
  <1>1. State(k, "SERVED").state = "SERVED"
    BY StateIs
  <1> QED
    BY <1>1 DEF Chosen

LEMMA FilledClient ==
    ASSUME NEW k \in Client, NEW c \in Codes, NEW b \in BOOLEAN, size \in Nat
    PROVE  FillResponse(k, c, b) \in Client
  BY FillResponseIs DEF Filled

\* Every handler that leaves a readable file, or a listing, to GET.
LEMMA GetChosen ==
    ASSUME NEW k \in Client, NEW c \in Codes, NEW b \in BOOLEAN, size \in Nat,
           Unframed(k), HasBody(k), Accessible(k) \/ k.listing
    PROVE  /\ Chosen(State(FillResponse(k, c, b), "SERVING_GET"))
           /\ Chosen([State(FillResponse(k, c, b), "SERVING_GET") EXCEPT !.method = "GET"])
  <1> DEFINE f == FillResponse(k, c, b)
             s == "SERVING_GET"
             r == State(f, s)
             g == [r EXCEPT !.method = "GET"]
  <1>1. f \in Client /\ Ready(f, size)
    BY FilledClient, FillFrame
  <1> HIDE DEF f
  <1>2. r \in Client /\ r.state = s /\ SameFrame(r, f)
    BY <1>1, StateIs, SameFrames
  <1> HIDE DEF r
  <1>3. g.state = s /\ SameFrame(g, r)
    BY <1>2, MethodIs, SameFrames
  <1> HIDE DEF g
  <1>4. Ready(r, size) /\ Ready(g, size)
    BY <1>1, <1>2, <1>3 DEF Ready, SameFrame
  <1>5. Chosen(r) /\ Chosen(g)
    BY <1>2, <1>3, <1>4 DEF Chosen
  <1> QED
    BY <1>5 DEF f, r, g

\* What FillFrame needs, of a client about to be given file f.
LEMMA FileUnframed ==
    ASSUME NEW k \in Client, Unframed(k), NEW f \in {"none", "target", "index", "page", "root"}
    PROVE  LET r == [k EXCEPT !.file = f] IN
           r \in Client /\ Unframed(r) /\ r.file = f /\ r.q = k.q
  <1> DEFINE r == [k EXCEPT !.file = f]
  <1>1. r \in Client /\ r.file = f /\ SameRequest(r, k) /\ SameFrame(r, k)
    BY FileIs, SameFrames
  <1> HIDE DEF r
  <1>2. Unframed(r) /\ r.q = k.q
    BY <1>1 DEF Unframed, SameFrame, SameRequest
  <1> QED
    BY <1>1, <1>2 DEF r

\* An error page, which set_error_page has found readable.
LEMMA PageChosen ==
    ASSUME NEW k \in Client, Unframed(k), NEW c \in Codes, NEW b \in BOOLEAN, size \in Nat
    PROVE  LET p == [k EXCEPT !.file = "page"] IN
           /\ Chosen(State(FillResponse(p, c, b), "SERVING_GET"))
           /\ Chosen([State(FillResponse(p, c, b), "SERVING_GET") EXCEPT !.method = "GET"])
  <1> DEFINE p == [k EXCEPT !.file = "page"]
  <1>1. p \in Client /\ Unframed(p) /\ p.file = "page"
    BY FileUnframed
  <1> HIDE DEF p
  <1>2. HasBody(p) /\ Accessible(p)
    BY <1>1 DEF HasBody, Accessible
  <1>3. /\ Chosen(State(FillResponse(p, c, b), "SERVING_GET"))
        /\ Chosen([State(FillResponse(p, c, b), "SERVING_GET") EXCEPT !.method = "GET"])
    BY <1>1, <1>2, GetChosen
  <1> QED
    BY <1>3 DEF p

\* handle_400, 414, 501, 413 and 405.
LEMMA RefuseChooses ==
    ASSUME NEW k \in Client, Unframed(k), NEW c \in Codes, size \in Nat
    PROVE  Chosen(Refuse(k, c))
  <1>1. CASE k.q.page = "readable"
    <2> DEFINE b == k.method = "HEAD"
               p == [k EXCEPT !.file = "page"]
    <2>1. b \in BOOLEAN
      OBVIOUS
    <2> HIDE DEF b
    <2>2. Chosen([State(FillResponse(p, c, b), "SERVING_GET") EXCEPT !.method = "GET"])
      BY <2>1, PageChosen
    <2> QED
      BY <1>1, <2>2 DEF Refuse, b
  <1>2. CASE k.q.page # "readable"
    <2>1. FillResponse(k, c, TRUE) \in Client
      BY FilledClient
    <2> QED
      BY <1>2, <2>1, ServedChosen DEF Refuse
  <1> QED
    BY <1>1, <1>2

LEMMA RefuseWithoutChooses ==
    ASSUME NEW k \in Client, Unframed(k), NEW c \in Codes, NEW page, size \in Nat
    PROVE  Chosen(RefuseWithout(k, c, page))
  <1> DEFINE p == [k EXCEPT !.file = "page"]
             n == [k EXCEPT !.file = "none"]
  <1>1. Chosen(State(FillResponse(p, c, FALSE), "SERVING_GET"))
    BY PageChosen
  <1>2. n \in Client
    BY FileIs
  <1> HIDE DEF p, n
  <1>3. Chosen(State(FillResponse(n, c, TRUE), "SERVED"))
    BY <1>2, FilledClient, ServedChosen
  <1> QED
    BY <1>1, <1>3 DEF RefuseWithout, p, n

LEMMA Handle404Chooses ==
    ASSUME NEW k \in Client, Unframed(k), size \in Nat
    PROVE  Chosen(Handle404(k))
  <1> DEFINE p == [k EXCEPT !.file = "page"]
             o == [k EXCEPT !.file = "root"]
             n == [k EXCEPT !.file = "none"]
             b == k.method = "HEAD"
             missing == 404
             closed == 403
  <1>1. missing \in Codes /\ closed \in Codes /\ b \in BOOLEAN
    BY DEF Codes
  <1>2. n \in Client /\ o \in Client
    BY FileIs
  <1> HIDE DEF n, o, b, missing, closed
  <1>3. Chosen([State(FillResponse(p, missing, b), "SERVING_GET") EXCEPT !.method = "GET"])
    BY <1>1, PageChosen
  <1> HIDE DEF p
  <1>4. Chosen(State(FillResponse(o, closed, TRUE), "SERVED"))
    BY <1>1, <1>2, FilledClient, ServedChosen
  <1>5. Chosen(State(FillResponse(n, missing, TRUE), "SERVED"))
    BY <1>1, <1>2, FilledClient, ServedChosen
  <1>6. Chosen(RefuseWithout(k, closed, "readable"))
    BY <1>1, RefuseWithoutChooses
  <1> QED
    BY <1>3, <1>4, <1>5, <1>6 DEF Handle404, p, n, o, b, missing, closed

\* k with file f to be served.
Taken(r, k, f) ==
    r \in Client /\ Unframed(r) /\ r.file = f /\ r.q = k.q /\ r.method = k.method

LEMMA ServedUnframed ==
    ASSUME NEW k \in Client, Unframed(k), NEW f \in {"none", "target", "index", "page", "root"},
           NEW b \in BOOLEAN
    PROVE  Taken([k EXCEPT !.file = f, !.is_cgi = b], k, f)
  <1> DEFINE r == [k EXCEPT !.file = f, !.is_cgi = b]
  <1>1. r \in Client /\ Unframed(r) /\ r.file = f /\ r.q = k.q /\ r.method = k.method
    BY DEF Client, Unframed
  <1> HIDE DEF r
  <1>2. Taken(r, k, f)
    BY <1>1 DEF Taken
  <1> QED
    BY <1>2 DEF r

\* handle_200d; the index file was accessible, or the directory is listed.
LEMMA Handle200dChooses ==
    ASSUME NEW k \in Client, Unframed(k), size \in Nat
    PROVE  Chosen(Handle200d(k))
  <1> DEFINE script == k.q.script
             index == "index"
             served == [k EXCEPT !.file = index, !.is_cgi = script]
             listed == [k EXCEPT !.listing = TRUE, !.file = "root"]
             s == IF script THEN "SERVING_CGI" ELSE "SERVING_GET"
             get == "SERVING_GET"
             fine == 200
             closed == 403
             missing == 404
             no == FALSE
  <1>1. script \in BOOLEAN /\ no \in BOOLEAN /\ index \in {"none", "target", "index", "page", "root"}
    BY DEF Client, Request
  <1>2. fine \in Codes /\ closed \in Codes /\ missing \in Codes
    BY DEF Codes
  <1> HIDE DEF script, index
  <1>3. Taken(served, k, index)
    BY <1>1, ServedUnframed
  <1>4. listed \in Client /\ Unframed(listed) /\ listed.listing
    BY DEF Client, Unframed
  <1> HIDE DEF served, listed, fine, closed, missing, no
  <1>5. CASE k.q.index \in {"readable", "directory"}
    <2>1. HasBody(served) /\ Accessible(served)
      BY <1>3, <1>5 DEF Taken, HasBody, Accessible, index
    <2>2. Chosen([State(FillResponse(served, fine, no), s) EXCEPT !.method = "GET"])
      <3>1. CASE script
        <4> DEFINE f == FillResponse(served, fine, no)
                   cgi == "SERVING_CGI"
        <4>1. f \in Client
          BY <1>1, <1>2, <1>3, FilledClient DEF Taken
        <4> HIDE DEF f
        <4>2. State(f, cgi) \in Client /\ State(f, cgi).state = cgi
          BY <4>1, StateIs
        <4>3. [State(f, cgi) EXCEPT !.method = "GET"].state = cgi
          BY <4>2, MethodIs
        <4>4. Chosen([State(f, cgi) EXCEPT !.method = "GET"])
          BY <4>3 DEF Chosen
        <4> QED
          BY <3>1, <4>4 DEF f
      <3>2. CASE ~script
        <4>1. Chosen([State(FillResponse(served, fine, no), get) EXCEPT !.method = "GET"])
          BY <1>1, <1>2, <1>3, <2>1, GetChosen DEF Taken
        <4> QED
          BY <3>2, <4>1
      <3> QED
        BY <3>1, <3>2
    <2> QED
      BY <1>5, <2>2 DEF Handle200d, served, fine, no, script, index
  <1>6. CASE k.q.index \notin {"readable", "directory"}
    <2>1. HasBody(listed)
      BY <1>4 DEF HasBody
    <2>2. Chosen([State(FillResponse(listed, fine, no), get) EXCEPT !.method = "GET"])
      BY <1>1, <1>2, <1>4, <2>1, GetChosen
    <2>3. /\ Chosen(RefuseWithout(k, closed, "none"))
          /\ Chosen(RefuseWithout(k, closed, k.q.dir_page))
          /\ Chosen(RefuseWithout(k, missing, k.q.page))
      BY <1>2, RefuseWithoutChooses
    <2> QED
      BY <1>6, <2>2, <2>3 DEF Handle200d, listed, fine, closed, missing, no
  <1> QED
    BY <1>5, <1>6

\* handle_200f.
LEMMA Handle200fChooses ==
    ASSUME NEW k \in Client, Unframed(k), size \in Nat
    PROVE  Chosen(Handle200f(k))
  <1> DEFINE script == k.q.script
             file == "target"
             served == [k EXCEPT !.file = file, !.is_cgi = script]
             fine == 200
             closed == 403
             no == FALSE
             cgi == "SERVING_CGI"
  <1>1. /\ script \in BOOLEAN /\ no \in BOOLEAN
        /\ file \in {"none", "target", "index", "page", "root"}
    BY DEF Client, Request
  <1>2. fine \in Codes /\ closed \in Codes
    BY DEF Codes
  <1> HIDE DEF script, file
  <1>3. Taken(served, k, file)
    BY <1>1, ServedUnframed
  <1> HIDE DEF served, fine, closed, no
  <1>4. Chosen([State(served, cgi) EXCEPT !.method = "GET"])
    <2>1. State(served, cgi) \in Client /\ State(served, cgi).state = cgi
      BY <1>3, StateIs DEF Taken
    <2>2. [State(served, cgi) EXCEPT !.method = "GET"].state = cgi
      BY <2>1, MethodIs
    <2> QED
      BY <2>2 DEF Chosen
  <1>5. CASE k.q.target = "readable"
    <2>1. HasBody(served) /\ Accessible(served)
      BY <1>3, <1>5 DEF Taken, HasBody, Accessible, file
    <2>2. Chosen([State(FillResponse(served, fine, no), "SERVING_GET") EXCEPT !.method = "GET"])
      BY <1>1, <1>2, <1>3, <2>1, GetChosen DEF Taken
    <2> QED
      BY <1>4, <1>5, <2>2 DEF Handle200f, served, script, file, fine, no
  <1>6. CASE k.q.target # "readable"
    <2>1. Chosen(RefuseWithout(k, closed, "none"))
      BY <1>2, RefuseWithoutChooses
    <2> QED
      BY <1>6, <2>1, Handle404Chooses DEF Handle200f, closed
  <1> QED
    BY <1>5, <1>6

LEMMA Handle200Chooses ==
    ASSUME NEW k, New(k), Unframed(k), size \in Nat, Refusal(k.q) = 0
    PROVE  Chosen(Handle200(k))
  <1> DEFINE done == IF k.q.is_file THEN Handle200f(k) ELSE Handle200d(k)
  <1>1. k \in Client
    BY DEF New, Undecided
  <1>2. Chosen(done)
    BY <1>1, Handle200fChooses, Handle200dChooses
  <1>3. Decided(done)
    BY Handle200fDecides, Handle200dDecides
  <1> HIDE DEF done
  <1>4. done \in Client
    BY <1>3 DEF Decided, Answered, Serving
  <1>5. Chosen(State(done, "SERVED"))
    BY <1>4, ServedChosen
  <1>6. Handle200(k) = IF done.method = "HEAD" THEN State(done, "SERVED") ELSE done
    BY DEF Handle200, done
  <1> QED
    BY <1>2, <1>5, <1>6

\* architect_response, whatever the request and the site.
LEMMA ArchitectChooses ==
    ASSUME NEW k, New(k), Unframed(k), size \in Nat
    PROVE  Chosen(ArchitectResponse(k))
  <1> DEFINE opt == "SERVING_OPTIONS"
             del == "SERVING_DELETE"
             put == "SERVING_PUT"
             moved == 301
             refusal == Refusal(k.q)
             script == k.q.script
             target == [k EXCEPT !.file = "target"]
             root == [k EXCEPT !.file = "root", !.is_cgi = script]
             post == "SERVING_POST"
             cgi == "SERVING_CGI"
  <1>1. k \in Client /\ RightMethod(k)
    BY DEF New, Undecided
  <1>2. script \in BOOLEAN /\ moved \in Codes
    <2>1. script \in BOOLEAN
      BY <1>1 DEF Client, Request
    <2>2. moved \in Codes
      BY DEF Codes
    <2> QED
      BY <2>1, <2>2
  <1> HIDE DEF script, moved
  <1>3. target \in Client /\ Unframed(target) /\ target.method = k.method
    BY <1>1, FileIs, FileUnframed DEF SameRequest
  <1>4. root \in Client /\ root.method = k.method
    <2> DEFINE file == "root"
               r == [k EXCEPT !.file = file, !.is_cgi = script]
    <2>1. Taken(r, k, file)
      BY <1>1, <1>2, ServedUnframed
    <2> HIDE DEF r
    <2>2. r \in Client /\ r.method = k.method
      BY <2>1 DEF Taken
    <2> QED
      BY <2>2 DEF r
  <1> HIDE DEF target, root
  <1>5. CASE k.method = "OPTIONS"
    <2>1. State(k, opt).state = opt
      BY <1>1, StateIs
    <2>2. Chosen(State(k, opt))
      BY <2>1 DEF Chosen
    <2> QED
      BY <1>5, <2>2 DEF ArchitectResponse
  <1>6. CASE k.method # "OPTIONS" /\ refusal # 0
    <2>1. refusal \in Codes
      BY <1>6 DEF Refusal, Codes
    <2> HIDE DEF refusal
    <2>2. Chosen(Refuse(k, refusal))
      BY <1>1, <2>1, RefuseChooses
    <2> QED
      BY <1>6, <2>2 DEF ArchitectResponse, refusal
  <1>7. CASE k.method # "OPTIONS" /\ refusal = 0 /\ k.q.redirect
    <2> DEFINE yes == TRUE
    <2>1. yes \in BOOLEAN
      OBVIOUS
    <2> HIDE DEF yes
    <2>2. FillResponse(k, moved, yes) \in Client
      BY <1>1, <1>2, <2>1, FilledClient
    <2>3. Chosen(State(FillResponse(k, moved, yes), "SERVED"))
      BY <2>2, ServedChosen
    <2> QED
      BY <1>7, <2>3 DEF ArchitectResponse, moved, yes
  <1>8. CASE k.method # "OPTIONS" /\ refusal = 0 /\ ~k.q.redirect
    <2>1. CASE k.method \in {"GET", "HEAD"}
      BY <1>8, <2>1, Handle200Chooses DEF ArchitectResponse
    <2>2. CASE k.method = "DELETE"
      <3> DEFINE r == State(target, del)
      <3>1. r.state = del /\ SameFrame(r, target)
        BY <1>3, StateIs, SameFrames
      <3> HIDE DEF r
      <3>2. Chosen(r)
        BY <1>3, <3>1 DEF Chosen, Unframed, SameFrame
      <3> QED
        BY <1>8, <2>2, <3>2 DEF ArchitectResponse, r, target
    <2>3. CASE k.method = "PUT"
      <3> DEFINE r == State(target, put)
      <3>1. r.state = put /\ r.method = k.method
        BY <1>3, StateIs DEF SameRequest
      <3> HIDE DEF r
      <3>2. Chosen(r)
        BY <2>3, <3>1 DEF Chosen, Uploads
      <3> QED
        BY <1>8, <2>3, <3>2 DEF ArchitectResponse, r, target
    <2>4. CASE k.method = "POST"
      <3>1. State(root, post).state = post /\ State(root, post).method = k.method
        BY <1>4, StateIs DEF SameRequest
      <3>2. Chosen(State(root, post))
        BY <2>4, <3>1 DEF Chosen, Uploads
      <3>3. State(root, cgi).state = cgi
        BY <1>4, StateIs
      <3>4. Chosen(State(root, cgi))
        BY <3>3 DEF Chosen
      <3> QED
        BY <1>8, <2>4, <3>2, <3>4 DEF ArchitectResponse, root, script
    <2> QED
      BY <1>1, <1>8, <2>1, <2>2, <2>3, <2>4 DEF RightMethod, Supported
  <1> QED
    BY <1>5, <1>6, <1>7, <1>8

\* parse_request decides nothing about the body of the response.
LEMMA FreshUnframed ==
    ASSUME NEW q \in Requests, NEW stale \in BOOLEAN
    PROVE  Unframed(ParseRequest(Fresh("READING_HEADER", q, stale)))
  <1> DEFINE k == Fresh("READING_HEADER", q, stale)
             method == IF q.word \in Supported THEN q.word ELSE "GET"
             p == [q EXCEPT !.keep = FALSE, !.te = "absent", !.length = "absent", !.ctype = FALSE]
             a == [k EXCEPT !.method = method]
             b == [a EXCEPT !.q = p]
  <1>1. /\ Unframed(k) /\ k.q = q
        /\ DOMAIN k = {"state", "q", "method", "first_time", "code", "conn", "length", "chunked",
             "is_chunked", "file", "is_cgi", "listing", "stale", "off", "wire", "tree"}
    BY DEF Unframed, Fresh
  <1> HIDE DEF k, method, p
  <1>2. ParseRequest(k) \in {a, b}
    BY <1>1 DEF ParseRequest, a, b, p, method
  <1>3. Unframed(a) /\ DOMAIN a = DOMAIN k
    BY <1>1 DEF Unframed
  <1> HIDE DEF a
  <1>4. Unframed(b)
    BY <1>1, <1>3 DEF Unframed
  <1> QED
    BY <1>2, <1>3, <1>4 DEF k

-----------------------------------------------------------------------------
(* GET of a file: get.method.cpp:20-96.                                    *)

\* The head on the wire is that of the response; behind it are chunks, or as many
\* bytes as have been read of a file of size s.
Sending(k, s) ==
    /\ k.wire # << >> /\ k.wire[1].chunked = k.chunked /\ k.wire[1].length = k.length
    /\ IF k.chunked
       THEN /\ k.is_chunked /\ k.length = -1
            /\ \A n \in 2..Len(k.wire) : k.wire[n].kind = "chunk"
       ELSE /\ ~k.is_chunked /\ k.length = s
            /\ \A n \in 2..Len(k.wire) : k.wire[n].kind = "data"
            /\ Bytes(k.wire) = k.off /\ k.off <= s

\* v is w with p behind it.
Grown(v, w, p) ==
    /\ v # << >> /\ Len(w) \in Nat /\ Len(v) = Len(w) + 1 /\ v[Len(v)] = p
    /\ \A n \in 1..Len(w) : v[n] = w[n]
    /\ Bytes(v) = Bytes(w) + Counted(p)

LEMMA WireGrown ==
    ASSUME NEW w \in Wire, NEW p \in StatusHead \cup BodyPiece
    PROVE  Grown(Append(w, p), w, p)
  <1> DEFINE pieces == StatusHead \cup BodyPiece
             v == Append(w, p)
  <1>1. w \in Seq(pieces) /\ p \in pieces
    BY DEF Wire
  <1>2. Bytes(v) = Bytes(w) + Counted(p)
    BY BytesAppend
  <1> HIDE DEF pieces
  <1>3. /\ v # << >> /\ Len(w) \in Nat /\ Len(v) = Len(w) + 1 /\ v[Len(v)] = p
        /\ \A n \in 1..Len(w) : v[n] = w[n]
    BY <1>1
  <1> HIDE DEF v
  <1>4. Grown(v, w, p)
    BY <1>2, <1>3 DEF Grown
  <1> QED
    BY <1>4 DEF v

LEMMA FirstPiece ==
    ASSUME NEW h \in StatusHead
    PROVE  LET v == Append(<< >>, h) IN v # << >> /\ Len(v) = 1 /\ v[1] = h /\ Bytes(v) = 0
  <1> DEFINE v == Append(<< >>, h)
  <1>1. << >> \in Wire /\ Len(<< >>) = 0
    BY DEF Wire
  <1>2. Grown(v, << >>, h)
    BY <1>1, WireGrown
  <1>3. Counted(h) = 0
    BY DEF Counted, StatusHead
  <1> HIDE DEF v
  <1>4. v # << >> /\ Len(v) = 1 /\ v[1] = h
    BY <1>1, <1>2 DEF Grown
  <1>5. Bytes(v) = 0
    BY <1>2, <1>3, NoBytes DEF Grown
  <1> QED
    BY <1>4, <1>5 DEF v

\* The head that the first call sends (get.method.cpp:20-66).
LEMMA OpenedFrame ==
    ASSUME NEW k \in Client, size \in Nat, Ready(k, size), ~k.listing, k.wire = << >>
    PROVE  Sending([WriteResponse(k, TRUE) EXCEPT !.first_time = FALSE], size)
  <1> DEFINE yes == TRUE
             no == FALSE
             w == WriteResponse(k, yes)
             r == [w EXCEPT !.first_time = no]
  <1>1. yes \in BOOLEAN /\ no \in BOOLEAN
    OBVIOUS
  <1> HIDE DEF yes, no
  <1>2. w \in Client
    BY <1>1, HeadWritten
  <1>3. SameFrame(w, k)
    BY <1>1, HeadFrame
  <1>4. PICK h \in StatusHead : /\ w.wire = Append(k.wire, h)
                                /\ h.chunked = k.chunked /\ h.length = k.length
    BY <1>1, HeadFrame
  <1> HIDE DEF w
  <1>5. r.wire = w.wire /\ SameFrame(r, w)
    BY <1>2 DEF Client, SameFrame
  <1> HIDE DEF r
  <1>6. r.wire # << >> /\ Len(r.wire) = 1 /\ r.wire[1] = h /\ Bytes(r.wire) = 0
    BY <1>4, <1>5, FirstPiece
  <1>7. r.chunked = k.chunked /\ r.is_chunked = k.is_chunked /\ r.length = k.length /\ r.off = k.off
    BY <1>3, <1>5 DEF SameFrame
  <1>8. \A n \in 2..Len(r.wire) : FALSE
    BY <1>6
  <1>9. Sending(r, size)
    BY <1>4, <1>6, <1>7, <1>8 DEF Sending, Ready
  <1> QED
    BY <1>9 DEF r, w, yes, no

\* r has sent piece p more than k, and read n bytes more.
Sent(r, k, p, n) ==
    /\ r.wire = Append(k.wire, p) /\ r.off = k.off + n
    /\ r.chunked = k.chunked /\ r.is_chunked = k.is_chunked /\ r.length = k.length

LEMMA PieceSent ==
    ASSUME NEW k \in Client, NEW p \in BodyPiece, NEW n \in Nat
    PROVE  Sent([Put(k, p) EXCEPT !.off = @ + n], k, p, n)
  <1> DEFINE w == Append(k.wire, p)
             j == Put(k, p)
             m == k.off + n
             r == [j EXCEPT !.off = m]
  <1>1. j \in Client /\ j.wire = w
    BY Put1
  <1>2. SameFrame(j, k)
    BY SameFrames DEF Put
  <1>3. j.off = k.off
    BY <1>2 DEF SameFrame
  <1>4. [j EXCEPT !.off = @ + n] = r
    BY <1>3
  <1> HIDE DEF j, w, m
  <1>5. /\ r.wire = j.wire /\ r.off = m
        /\ r.chunked = j.chunked /\ r.is_chunked = j.is_chunked /\ r.length = j.length
    BY <1>1 DEF Client
  <1> HIDE DEF r
  <1>6. Sent(r, k, p, n)
    BY <1>1, <1>2, <1>5 DEF Sent, SameFrame, w, m
  <1> QED
    BY <1>4, <1>6 DEF j

LEMMA WireInClient ==
    ASSUME NEW k \in Client
    PROVE  k.wire \in Wire /\ k.off \in Nat
  BY DEF Client

\* A piece of the kind that the head has announced, and no more than the file has.
LEMMA StillSending ==
    ASSUME NEW k \in Client, NEW s \in Nat, Sending(k, s), NEW p \in BodyPiece, NEW r,
           Sent(r, k, p, p.n),
           IF k.is_chunked THEN p.kind = "chunk" ELSE p.kind = "data" /\ k.off + p.n <= s
    PROVE  Sending(r, s)
  <1> DEFINE v == r.wire
             w == k.wire
             l == Len(w)
  <1>1. w \in Wire /\ k.off \in Nat
    BY WireInClient
  <1>2. v = Append(w, p)
    BY DEF Sent
  <1>3. Grown(v, w, p)
    BY <1>1, <1>2, WireGrown
  <1>4. w # << >> /\ l \in Nat /\ 1 <= l
    <2>1. w # << >>
      BY DEF Sending
    <2> DEFINE pieces == StatusHead \cup BodyPiece
    <2>2. w \in Seq(pieces)
      BY <1>1 DEF Wire
    <2> HIDE DEF pieces, w
    <2> QED
      BY <2>1, <2>2 DEF w
  <1>5. v[1] = w[1]
    BY <1>3, <1>4 DEF Grown
  <1>6. \A n \in 2..Len(v) : n \in 2..l \/ n = l + 1
    BY <1>3, <1>4 DEF Grown
  <1>7. (\A n \in 2..l : v[n] = w[n]) /\ v[l + 1] = p /\ v # << >>
    BY <1>3, <1>4 DEF Grown
  <1>8. Counted(p) = p.n \/ k.is_chunked
    BY DEF Counted
  <1> HIDE DEF v, w, l
  <1>9. CASE k.chunked
    <2>1. k.is_chunked /\ p.kind = "chunk" /\ k.length = -1 /\ \A n \in 2..l : w[n].kind = "chunk"
      BY <1>9 DEF Sending, w, l
    <2>2. \A n \in 2..Len(v) : v[n].kind = "chunk"
      BY <1>6, <1>7, <2>1
    <2>3. w[1].chunked = k.chunked /\ w[1].length = k.length
      BY DEF Sending, w
    <2> QED
      BY <1>5, <1>7, <1>9, <2>1, <2>2, <2>3 DEF Sending, Sent, v
  <1>10. CASE ~k.chunked
    <2>1. ~k.is_chunked /\ p.kind = "data" /\ k.length = s /\ (\A n \in 2..l : w[n].kind = "data")
          /\ Bytes(w) = k.off /\ k.off + p.n <= s
      BY <1>10 DEF Sending, w, l
    <2>2. \A n \in 2..Len(v) : v[n].kind = "data"
      BY <1>6, <1>7, <2>1
    <2>3. w[1].chunked = k.chunked /\ w[1].length = k.length
      BY DEF Sending, w
    <2>4. Bytes(v) = k.off + p.n
      BY <1>3, <1>8, <2>1 DEF Grown
    <2>5. r.off = k.off + p.n /\ r.chunked = k.chunked /\ r.is_chunked = k.is_chunked
          /\ r.length = k.length
      BY DEF Sent
    <2> QED
      BY <1>5, <1>7, <1>10, <2>1, <2>2, <2>3, <2>4, <2>5 DEF Sending, v
  <1> QED
    BY <1>9, <1>10

\* The last-chunk, or the "\r\n" behind the last byte.
LEMMA EndSent ==
    ASSUME NEW k \in Client, NEW s \in Nat, Sending(k, s), NEW p \in BodyPiece, NEW v,
           v = Append(k.wire, p),
           IF k.is_chunked THEN p.kind = "last" ELSE p.kind = "crlf" /\ k.off = s
    PROVE  Framed(v)
  <1> DEFINE w == k.wire
             l == Len(w)
  <1>1. w \in Wire /\ k.off \in Nat
    BY WireInClient
  <1>3. Grown(v, w, p)
    BY <1>1, WireGrown
  <1>4. w # << >> /\ l \in Nat /\ 1 <= l
    <2>1. w # << >>
      BY DEF Sending
    <2> DEFINE pieces == StatusHead \cup BodyPiece
    <2>2. w \in Seq(pieces)
      BY <1>1 DEF Wire
    <2> HIDE DEF pieces, w
    <2> QED
      BY <2>1, <2>2 DEF w
  <1>5. v[1] = w[1] /\ Len(v) = l + 1
    BY <1>3, <1>4 DEF Grown
  <1>6. \A n \in 2..Len(v) : n \in 2..l \/ n = l + 1
    BY <1>4, <1>5
  <1>7. (\A n \in 2..l : v[n] = w[n]) /\ v[l + 1] = p /\ v # << >>
    BY <1>3, <1>4 DEF Grown
  <1>8. w[1].chunked = k.chunked /\ w[1].length = k.length
    BY DEF Sending
  <1> HIDE DEF w, l
  <1>9. CASE k.chunked
    <2>1. k.is_chunked /\ p.kind = "last" /\ k.length = -1 /\ \A n \in 2..l : w[n].kind = "chunk"
      BY <1>9 DEF Sending, w, l
    <2>2. \A n \in 2..Len(v) - 1 : v[n].kind = "chunk"
      BY <1>4, <1>5, <1>7, <2>1
    <2>3. Len(v) > 1 /\ v[Len(v)].kind = "last"
      BY <1>4, <1>5, <1>7, <2>1
    <2> QED
      BY <1>5, <1>8, <1>9, <2>1, <2>2, <2>3 DEF Framed
  <1>10. CASE ~k.chunked
    <2>1. ~k.is_chunked /\ p.kind = "crlf" /\ k.length = s /\ (\A n \in 2..l : w[n].kind = "data")
          /\ Bytes(w) = k.off /\ k.off = s
      BY <1>10 DEF Sending, w, l
    <2>2. \A n \in 2..Len(v) : v[n].kind = "data" \/ (v[n].kind = "crlf" /\ n = Len(v))
      BY <1>5, <1>6, <1>7, <2>1
    <2>3. Counted(p) = 0
      BY <2>1 DEF Counted
    <2>4. Bytes(v) = k.length
      BY <1>3, <2>1, <2>3 DEF Grown
    <2> QED
      BY <1>5, <1>8, <1>10, <2>2, <2>4 DEF Framed
  <1> QED
    BY <1>9, <1>10

LEMMA Least == ASSUME NEW a \in Int, NEW b \in Int
               PROVE  Min({a, b}) \in {a, b} /\ Min({a, b}) <= a /\ Min({a, b}) <= b
  BY DEF Min

LEMMA Greatest == ASSUME NEW a \in Int, NEW b \in Int
                  PROVE  Max({a, b}) \in {a, b} /\ Max({a, b}) >= a /\ Max({a, b}) >= b
  BY DEF Max

\* read() returns no more than is left, and nothing only at the end: the buffer is
\* not empty.
LEMMA ReadFileBounds ==
    ASSUME NEW k \in Client, size \in Nat, k.off <= size
    PROVE  /\ ReadFile(k) \in Int
           /\ ReadFile(k) > 0 => k.off + ReadFile(k) <= size
           /\ ReadFile(k) = 0 => k.off = size
  <1> DEFINE d == size - k.off
             m == Min({BufferSize, d})
             x == Max({0, m})
             off == k.off
  <1>1. off \in Nat /\ BufferSize \in Nat \ {0}
    BY WireInClient, RespondAssumption
  <1>2. d \in Nat /\ off + d = size
    BY <1>1
  <1> HIDE DEF d, off
  <1>3. BufferSize \in Int /\ d \in Int
    BY <1>1, <1>2
  <1>4. m \in {BufferSize, d} /\ m <= d
    BY <1>3, Least
  <1>5. m \in Nat
    BY <1>1, <1>2, <1>4
  <1> HIDE DEF m
  <1>6. x \in {0, m} /\ x >= m
    BY <1>5, Greatest
  <1> HIDE DEF x
  <1>7. x = m
    BY <1>5, <1>6
  <1>8. x > 0 => off + x <= size
    BY <1>1, <1>2, <1>4, <1>5, <1>7
  <1>9. x = 0 => off = size
    BY <1>1, <1>2, <1>4, <1>5, <1>7
  <1>10. ReadFile(k) \in {-1, x}
    BY DEF ReadFile, x, m, d
  <1>11. CASE ReadFile(k) = x
    BY <1>5, <1>7, <1>8, <1>9, <1>11 DEF off
  <1>12. CASE ReadFile(k) = -1
    BY <1>12
  <1> QED
    BY <1>10, <1>11, <1>12

\* An answer of fill_response in random.tools.cpp, where nothing was decided.
LEMMA HeadAlone ==
    ASSUME NEW k \in Client, NEW c \in Codes, k.wire = << >>, ~k.chunked, k.length \in {-1, 0}
    PROVE  Framed(Reply(k, c).wire)
  <1> DEFINE conn == IF k.conn = "none" /\ k.q.keep THEN "keep-alive" ELSE k.conn
             length == IF k.length = -1 THEN 0 ELSE k.length
             j == [k EXCEPT !.code = c, !.conn = conn, !.length = length]
             b == ~k.listing
             r == WriteResponse(j, b)
  <1>1. /\ conn \in {"none", "keep-alive", "closed"} /\ b \in BOOLEAN
        /\ length \in Int /\ length = 0
    <2>1. k.conn \in {"none", "keep-alive", "closed"}
      BY DEF Client
    <2>2. length = 0
      OBVIOUS
    <2> QED
      BY <2>1, <2>2
  <1>2. Reply(k, c) = r
    BY DEF Reply
  <1> HIDE DEF conn, length, b
  <1>3. j \in Client /\ j.wire = k.wire /\ j.chunked = k.chunked /\ j.length = length
    <2>1. conn \in {"none", "keep-alive", "closed"} /\ length \in Int
      BY <1>1
    <2>2. j \in Client
      BY <2>1 DEF Client
    <2>3. j.wire = k.wire /\ j.chunked = k.chunked /\ j.length = length
      BY DEF Client
    <2> QED
      BY <2>2, <2>3
  <1> HIDE DEF j
  <1>4. PICK h \in StatusHead : /\ r.wire = Append(j.wire, h)
                                /\ h.chunked = j.chunked /\ h.length = j.length
    BY <1>1, <1>3, HeadFrame
  <1> DEFINE v == r.wire
  <1>5. v # << >> /\ Len(v) = 1 /\ v[1] = h /\ Bytes(v) = 0
    BY <1>3, <1>4, FirstPiece
  <1>6. ~v[1].chunked /\ v[1].length = 0
    BY <1>1, <1>3, <1>4, <1>5
  <1> HIDE DEF v
  <1>7. Framed(v)
    BY <1>5, <1>6 DEF Framed
  <1> QED
    BY <1>2, <1>7 DEF v

\* What holds of a client between the calls for it.
FrameSoFar(k, s) ==
    /\ k.state = "SERVING_GET" /\ ~k.listing =>
         IF k.first_time THEN Ready(k, s) ELSE Sending(k, s)
    /\ k.state = "SERVING_DELETE" => Unframed(k)
    /\ k.state \in {"SERVING_POST", "SERVING_PUT"} => k.method \in Uploads

\* What holds behind a call: only a client that is SERVED and neither lists nor
\* uploads is kept.
FrameOutcome(r, s) ==
    /\ r.state = "SERVED" /\ ~r.listing /\ r.method \notin Uploads => Framed(r.wire)
    /\ r.state # "SERVED" => FrameSoFar(r, s)

\* Not HEAD, nothing that was found set, and not OPTIONS.
Counts(k) == ~k.stale /\ k.q.word \notin {"HEAD", "OPTIONS"}

LEMMA DoneFrame ==
    ASSUME NEW k \in Client, Framed(k.wire), NEW s
    PROVE  FrameOutcome(State(k, "SERVED"), s)
  <1>1. State(k, "SERVED").state = "SERVED" /\ State(k, "SERVED").wire = k.wire
    BY StateIs
  <1> QED
    BY <1>1 DEF FrameOutcome

LEMMA SendingFrame ==
    ASSUME NEW k, k.state = "SERVING_GET", ~k.first_time, NEW s, Sending(k, s)
    PROVE  FrameOutcome(k, s)
  BY DEF FrameOutcome, FrameSoFar

LEMMA OpenedClient ==
    ASSUME NEW k, Opened(k)
    PROVE  k \in Client /\ k.state = "SERVING_GET" /\ ~k.first_time
  BY DEF Opened, Serving

\* handle_static_file where send() takes the piece.
LEMMA ServeFileFrame ==
    ASSUME NEW k, Serving(k), k.state = "SERVING_GET", ~k.listing, size \in Nat,
           Counts(k), FrameSoFar(k, size)
    PROVE  FrameOutcome(ServeFile(k, TRUE), size)
  <1> DEFINE first == [WriteResponse(k, TRUE) EXCEPT !.first_time = FALSE]
             opened == IF k.first_time THEN first ELSE k
             n == ReadFile(k)
             piece == [kind |-> IF k.is_chunked THEN "chunk" ELSE "data", n |-> n]
             end == [kind |-> IF k.is_chunked THEN "last" ELSE "crlf", n |-> 0]
             failed == 500
  <1>1. k \in Client /\ k.off \in Nat
    BY WireInClient DEF Serving
  <1>2. k.first_time => k.wire = << >>
    BY DEF Serving, OneSoFar, Counts
  <1>3. Opened(opened) /\ ~opened.listing /\ opened.off = k.off /\ Sending(opened, size) /\ opened.is_chunked = k.is_chunked
    <2>1. CASE k.first_time
      <3>1. Opened(first) /\ ~first.listing /\ first.off = k.off
        BY <2>1, FirstOpens
      <3>2. Sending(first, size)
        BY <1>1, <1>2, <2>1, OpenedFrame DEF FrameSoFar
      <3>3. first.is_chunked = k.is_chunked
        BY <1>1 DEF WriteResponse, Put, Client
      <3> QED
        BY <2>1, <3>1, <3>2, <3>3
    <2>2. CASE ~k.first_time
      BY <2>2 DEF Opened, FrameSoFar
    <2> QED
      BY <2>1, <2>2
  <1>4. CASE k.first_time /\ k.file = "none"
    <2> DEFINE r == Reset(k)
    <2>1. failed \in Codes
      BY DEF Codes
    <2>2. r \in Client /\ r.wire = << >> /\ ~r.chunked /\ r.length = -1
      <3>1. r \in Client /\ r.wire = << >>
        BY <1>1, <1>2, <1>4, ResetIs
      <3>2. ~r.chunked /\ r.length = -1
        BY <1>1 DEF Reset, Client
      <3> QED
        BY <3>1, <3>2
    <2> HIDE DEF r, failed
    <2>3. Framed(Reply(r, failed).wire) /\ Reply(r, failed) \in Client
      BY <2>1, <2>2, HeadAlone, ReplyIs
    <2>4. FrameOutcome(State(Reply(r, failed), "SERVED"), size)
      BY <2>3, DoneFrame
    <2> QED
      BY <1>4, <2>4 DEF ServeFile, r, failed
  <1>5. CASE ~(k.first_time /\ k.file = "none")
    <2>1. opened \in Client /\ opened.state = "SERVING_GET" /\ ~opened.first_time
      BY <1>3, OpenedClient
    <2>2. /\ n \in Int
          /\ k.off <= size => (n > 0 => k.off + n <= size) /\ (n = 0 => k.off = size)
      BY <1>1, ReadFileIs, ReadFileBounds
    <2>3. ~k.is_chunked => k.off <= size
      BY <1>3 DEF Sending
    <2> HIDE DEF opened, n
    <2>4. CASE n > 0
      <3>1. /\ n \in Nat /\ piece \in BodyPiece /\ piece.n = n
            /\ piece.kind = IF k.is_chunked THEN "chunk" ELSE "data"
        BY <2>2, <2>4 DEF BodyPiece
      <3> HIDE DEF piece
      <3> DEFINE r == [Put(opened, piece) EXCEPT !.off = @ + n]
      <3>2. Sent(r, opened, piece, n)
        BY <2>1, <3>1, PieceSent
      <3>3. Opened(Put(opened, piece))
        BY <1>3, <3>1, OpenedPut
      <3>4. Opened(r)
        BY <3>1, <3>3, OpenedMore
      <3> HIDE DEF r
      <3>5. Sending(r, size)
        BY <1>3, <2>1, <2>2, <2>3, <2>4, <3>1, <3>2, StillSending
      <3>6. FrameOutcome(r, size)
        BY <3>4, <3>5, OpenedClient, SendingFrame
      <3> QED
        BY <1>5, <2>4, <3>6 DEF ServeFile, n, opened, piece, r
    <2>5. CASE ~(n > 0) /\ (n = 0 \/ k.is_chunked)
      <3>1. end \in BodyPiece /\ end.kind = IF k.is_chunked THEN "last" ELSE "crlf"
        BY DEF BodyPiece
      <3> HIDE DEF end
      <3> DEFINE p == Put(opened, end)
      <3>2. p \in Client /\ p.wire = Append(opened.wire, end)
        BY <2>1, <3>1, Put1
      <3> HIDE DEF p
      <3>3. Framed(p.wire)
        BY <1>3, <2>1, <2>2, <2>3, <2>5, <3>1, <3>2, EndSent
      <3>4. FrameOutcome(State(p, "SERVED"), size)
        BY <3>2, <3>3, DoneFrame
      <3> QED
        BY <1>5, <2>5, <3>4 DEF ServeFile, n, opened, end, p
    <2>6. CASE ~(n > 0) /\ ~(n = 0 \/ k.is_chunked)
      <3>1. FrameOutcome(opened, size)
        BY <1>3, <2>1, SendingFrame
      <3> QED
        BY <1>5, <2>6, <3>1 DEF ServeFile, n, opened
    <2> QED
      BY <2>4, <2>5, <2>6
  <1> QED
    BY <1>4, <1>5

-----------------------------------------------------------------------------
(* What no call changes of a client that is being served.                  *)

\* r is about what k is about.
Same(r, k) ==
    r \in Client /\ r.q = k.q /\ r.stale = k.stale /\ r.listing = k.listing /\ r.method = k.method

LEMMA SameAgain ==
    ASSUME NEW k, NEW j, NEW r, Same(j, k), Same(r, j)
    PROVE  Same(r, k)
  BY DEF Same

LEMMA SameByRequest ==
    ASSUME NEW k, NEW r \in Client, SameRequest(r, k)
    PROVE  Same(r, k)
  BY DEF Same, SameRequest

LEMMA SameState ==
    ASSUME NEW k \in Client, NEW s \in {"SERVED", "CLOSED", "KEEP_ALIVE"}
    PROVE  Same(State(k, s), k)
  BY StateIs, SameByRequest

LEMMA SameReply ==
    ASSUME NEW k \in Client, NEW c \in Codes
    PROVE  Same(Reply(k, c), k)
  BY ReplyIs, SameByRequest

LEMMA SamePut ==
    ASSUME NEW k \in Client, NEW p \in StatusHead \cup BodyPiece
    PROVE  Same(Put(k, p), k)
  BY Put1, SameByRequest

LEMMA SameReset ==
    ASSUME NEW k \in Client
    PROVE  Same(Reset(k), k)
  <1>1. Reset(k).method = k.method
    BY DEF Reset, Client
  <1> QED
    BY <1>1, ResetIs DEF Same

LEMMA SameCalled ==
    ASSUME NEW k \in Client
    PROVE  Same([k EXCEPT !.first_time = FALSE], k) /\ [k EXCEPT !.first_time = FALSE].state = k.state
  <1> DEFINE r == [k EXCEPT !.first_time = FALSE]
  <1>1. r \in Client /\ r.q = k.q /\ r.stale = k.stale /\ r.listing = k.listing /\ r.method = k.method
        /\ r.state = k.state
    BY DEF Client
  <1> HIDE DEF r
  <1>2. Same(r, k) /\ r.state = k.state
    BY <1>1 DEF Same
  <1> QED
    BY <1>2 DEF r

LEMMA SameLeft ==
    ASSUME NEW k \in Client, NEW t \in SUBSET Node
    PROVE  Same([k EXCEPT !.tree = t], k) /\ [k EXCEPT !.tree = t].wire = k.wire
           /\ SameFrame([k EXCEPT !.tree = t], k)
  <1> DEFINE r == [k EXCEPT !.tree = t]
  <1>1. r \in Client /\ r.q = k.q /\ r.stale = k.stale /\ r.listing = k.listing /\ r.method = k.method
    BY DEF Client
  <1>2. r.wire = k.wire /\ SameFrame(r, k)
    BY DEF Client, SameFrame
  <1> HIDE DEF r
  <1>3. Same(r, k)
    BY <1>1 DEF Same
  <1> QED
    BY <1>2, <1>3 DEF r

LEMMA SameOff ==
    ASSUME NEW k \in Client, NEW n \in Nat
    PROVE  Same([k EXCEPT !.off = @ + n], k)
  <1> DEFINE m == k.off + n
             r == [k EXCEPT !.off = m]
  <1>1. k.off \in Nat
    BY WireInClient
  <1>2. m \in Nat
    BY <1>1
  <1> HIDE DEF m
  <1>3. r \in Client /\ r.q = k.q /\ r.stale = k.stale /\ r.listing = k.listing /\ r.method = k.method
    BY <1>2 DEF Client
  <1> HIDE DEF r
  <1>4. Same(r, k)
    BY <1>3 DEF Same
  <1> QED
    BY <1>4 DEF r, m

\* handle_directory_listing keeps is_directory_listing set, for which no
\* connection is kept.
LEMMA ServeListingSame ==
    ASSUME NEW k \in Client, NEW sent \in BOOLEAN
    PROVE  Same(ServeListing(k, sent), k) /\ ServeListing(k, sent).state = "SERVED"
  <1> DEFINE failed == 500
             reset == Reset(k)
             error == Reply(reset, failed)
             listed == IF CanList(k) THEN k ELSE error
             length == IF listed.length = -1 THEN ListingSize ELSE listed.length
             sized == [listed EXCEPT !.length = length]
             yes == TRUE
             head == WriteResponse(sized, yes)
             a == [kind |-> "data", n |-> ListingSize]
             b == [kind |-> "crlf", n |-> 0]
             html == [head EXCEPT !.wire = @ \o <<a, b>>]
             done == IF sent THEN html ELSE head
             s == "SERVED"
  <1>1. yes \in BOOLEAN /\ failed \in Codes
    BY DEF Codes
  <1>2. ServeListing(k, sent) = State(done, s)
    BY DEF ServeListing
  <1>3. a \in BodyPiece /\ b \in BodyPiece
    BY RespondAssumption DEF BodyPiece
  <1> HIDE DEF a, b, failed, yes
  <1>4. Same(reset, k) /\ reset \in Client
    BY SameReset DEF Same
  <1> HIDE DEF reset
  <1>5. Same(error, reset)
    BY <1>1, <1>4, SameReply
  <1> HIDE DEF error
  <1>6. Same(listed, k) /\ listed \in Client
    <2>1. Same(error, k)
      BY <1>4, <1>5, SameAgain
    <2>2. Same(k, k)
      BY DEF Same
    <2> QED
      BY <2>1, <2>2 DEF Same
  <1> HIDE DEF listed
  <1>7. length \in Int
    <2>1. listed.length \in Int
      BY <1>6 DEF Client
    <2>2. ListingSize \in Int
      BY RespondAssumption
    <2> QED
      BY <2>1, <2>2
  <1> HIDE DEF length
  <1>8. Same(sized, listed) /\ sized \in Client
    BY <1>6, <1>7, LengthIs, SameByRequest
  <1> HIDE DEF sized
  <1>9. Same(head, sized) /\ head \in Client
    BY <1>1, <1>8, HeadWritten, SameByRequest
  <1> HIDE DEF head
  <1>10. Same(done, head) /\ done \in Client
    <2>1. Same(html, head)
      BY <1>3, <1>9, HtmlSent, SameByRequest
    <2>2. Same(head, head)
      BY <1>9 DEF Same
    <2> HIDE DEF html
    <2> QED
      BY <2>1, <2>2 DEF Same
  <1> HIDE DEF done
  <1>11. Same(State(done, s), done) /\ State(done, s).state = s
    BY <1>10, SameState, StateIs
  <1> QED
    BY <1>2, <1>6, <1>8, <1>9, <1>10, <1>11, SameAgain

LEMMA ServeFileSame ==
    ASSUME NEW k \in Client, size \in Nat, NEW sent \in BOOLEAN
    PROVE  Same(ServeFile(k, sent), k)
  <1> DEFINE yes == TRUE
             w == WriteResponse(k, yes)
             first == [w EXCEPT !.first_time = FALSE]
             opened == IF k.first_time THEN first ELSE k
             n == ReadFile(k)
             piece == [kind |-> IF k.is_chunked THEN "chunk" ELSE "data", n |-> n]
             end == [kind |-> IF k.is_chunked THEN "last" ELSE "crlf", n |-> 0]
             reset == Reset(k)
             failed == 500
             error == Reply(reset, failed)
             s == "SERVED"
             more == [Put(opened, piece) EXCEPT !.off = @ + n]
             last == Put(opened, end)
  <1>1. yes \in BOOLEAN /\ failed \in Codes
    BY DEF Codes
  <1>2. \/ ServeFile(k, sent) = State(error, s)
        \/ n > 0 /\ ServeFile(k, sent) = more
        \/ ServeFile(k, sent) = State(opened, s)
        \/ ServeFile(k, sent) = State(last, s)
        \/ ServeFile(k, sent) = opened
    <2> HIDE DEF n, piece, end
    <2> QED
      BY ZenonT(60) DEF ServeFile, n, piece, end
  <1> HIDE DEF yes, failed
  <1>3. Same(w, k) /\ w \in Client
    BY <1>1, HeadWritten, SameByRequest
  <1> HIDE DEF w
  <1>4. Same(opened, k) /\ opened \in Client
    <2>1. Same(first, k)
      BY <1>3, SameCalled, SameAgain
    <2>2. Same(k, k)
      BY DEF Same
    <2> HIDE DEF first
    <2> QED
      BY <2>1, <2>2 DEF Same
  <1> HIDE DEF opened
  <1>5. Same(error, k) /\ error \in Client
    <2>1. Same(reset, k) /\ reset \in Client
      BY SameReset DEF Same
    <2> HIDE DEF reset
    <2>2. Same(error, reset)
      BY <1>1, <2>1, SameReply
    <2> QED
      BY <2>1, <2>2, SameAgain DEF Same
  <1> HIDE DEF error
  <1>6. Same(last, opened) /\ last \in Client
    <2>1. end \in BodyPiece
      BY DEF BodyPiece
    <2> HIDE DEF end
    <2> QED
      BY <1>4, <2>1, SamePut DEF Same
  <1> HIDE DEF last
  <1>7. n > 0 => Same(more, opened)
    <2> SUFFICES ASSUME n > 0 PROVE Same(more, opened)
      OBVIOUS
    <2>1. n \in Int
      BY ReadFileIs
    <2>2. n \in Nat
      BY <2>1
    <2> HIDE DEF n
    <2>3. piece \in BodyPiece
      BY <2>2 DEF BodyPiece
    <2> HIDE DEF piece
    <2> DEFINE p == Put(opened, piece)
    <2>4. Same(p, opened) /\ p \in Client
      BY <1>4, <2>3, SamePut DEF Same
    <2> HIDE DEF p
    <2>5. Same([p EXCEPT !.off = @ + n], p)
      BY <2>2, <2>4, SameOff
    <2>6. Same([p EXCEPT !.off = @ + n], opened)
      BY <2>4, <2>5, SameAgain
    <2> QED
      BY <2>6 DEF p
  <1> HIDE DEF more, n
  <1>8. Same(State(error, s), error) /\ Same(State(last, s), last) /\ Same(State(opened, s), opened)
    BY <1>4, <1>5, <1>6, SameState
  <1> QED
    BY <1>2, <1>4, <1>5, <1>6, <1>7, <1>8, SameAgain

\* delete.method.cpp:9-78: both handlers answer with a head alone.
LEMMA DeleteDone ==
    ASSUME NEW k \in Client, NEW done \in ServeDelete(k)
    PROVE  /\ Same(done, k)
           /\ k.wire = << >> /\ Unframed(k) => Framed(done.wire)
  <1>1. \/ \E c \in Codes : done = Reply(k, c)
        \/ \E c \in Codes, t \in SUBSET Node : done = Reply([k EXCEPT !.tree = t], c)
    <2> DEFINE root == CHOOSE n \in k.tree : n.path = << >>
               rest == k.tree \ Removed(k.tree)
               c == IF Rmfiles(k.tree, root) THEN 204 ELSE IF Files(Removed(k.tree)) = {} THEN 403 ELSE 207
               gone == 404
    <2>1. c \in Codes /\ gone \in Codes /\ {204, 403} \subseteq Codes
      BY DEF Codes
    <2>2. k.tree \in SUBSET Node
      BY DEF Client
    <2>3. rest \in SUBSET Node
      BY <2>2
    <2>4. CASE k.q.is_file
      BY <2>1, <2>4 DEF ServeDelete, DeleteFile
    <2>5. CASE ~k.q.is_file
      <3>1. done \in DeleteFolder(k)
        BY <2>5 DEF ServeDelete
      <3>2. done = Reply(k, gone) \/ done = Reply([k EXCEPT !.tree = rest], c)
        BY <3>1 DEF DeleteFolder
      <3> HIDE DEF rest, c, gone
      <3> QED
        BY <2>1, <2>3, <3>2
    <2> QED
      BY <2>4, <2>5
  <1>2. CASE \E c \in Codes : done = Reply(k, c)
    BY <1>2, SameReply, HeadAlone DEF Unframed
  <1>3. CASE \E c \in Codes, t \in SUBSET Node : done = Reply([k EXCEPT !.tree = t], c)
    <2>1. PICK c \in Codes, t \in SUBSET Node : done = Reply([k EXCEPT !.tree = t], c)
      BY <1>3
    <2> DEFINE j == [k EXCEPT !.tree = t]
    <2>2. Same(j, k) /\ j.wire = k.wire /\ SameFrame(j, k)
      BY SameLeft
    <2> HIDE DEF j
    <2>3. j \in Client /\ done = Reply(j, c)
      BY <2>1, <2>2 DEF Same, j
    <2>4. Same(done, j)
      BY <2>3, SameReply
    <2>5. Unframed(k) => ~j.chunked /\ j.length \in {-1, 0}
      BY <2>2 DEF SameFrame, Unframed
    <2>6. k.wire = << >> /\ Unframed(k) => Framed(done.wire)
      BY <2>2, <2>3, <2>5, HeadAlone
    <2> QED
      BY <2>2, <2>4, <2>6, SameAgain
  <1> QED
    BY <1>1, <1>2, <1>3

LEMMA UploadedSame ==
    ASSUME NEW k \in Client, NEW r \in Uploaded(k)
    PROVE  Same(r, k) /\ r.state \in {"SERVED", k.state}
  <1> DEFINE f == [k EXCEPT !.first_time = FALSE]
             s == "SERVED"
  <1>1. \/ \E c \in {201, 204, 403, 404, 500} : r = State(Reply(k, c), s)
        \/ r = State(k, s) \/ r = f
    <2> HIDE DEF f
    <2>1. CASE k.method = "PUT" /\ ~k.q.is_file
      BY <2>1 DEF Uploaded
    <2>2. CASE ~(k.method = "PUT" /\ ~k.q.is_file)
      <3>1. \/ \E c \in CreateCodes(k) \cup IF k.method = "PUT" THEN {201, 204} ELSE {201} :
                  r = State(Reply(k, c), s)
            \/ r = State(k, s) \/ r = f
        BY <2>2 DEF Uploaded, f
      <3>2. CreateCodes(k) \subseteq {403, 404, 500}
        BY DEF CreateCodes
      <3> QED
        BY <3>1, <3>2
    <2> QED
      BY <2>1, <2>2
  <1>2. Same(f, k) /\ f.state = k.state
    BY SameCalled
  <1> HIDE DEF f
  <1>3. ASSUME NEW c \in Codes PROVE Same(State(Reply(k, c), s), k) /\ State(Reply(k, c), s).state = s
    <2> DEFINE j == Reply(k, c)
    <2>1. Same(j, k) /\ j \in Client
      BY SameReply DEF Same
    <2> HIDE DEF j
    <2>2. Same(State(j, s), j) /\ State(j, s).state = s
      BY <2>1, SameState, StateIs
    <2> QED
      BY <2>1, <2>2, SameAgain DEF j
  <1>4. {201, 204, 403, 404, 500} \subseteq Codes
    BY DEF Codes
  <1>5. Same(State(k, s), k) /\ State(k, s).state = s
    BY SameState, StateIs
  <1> QED
    BY <1>1, <1>2, <1>3, <1>4, <1>5

LEMMA ScriptedSame ==
    ASSUME NEW k \in Client, NEW r \in Scripted(k)
    PROVE  Same(r, k) /\ r.state \in {"CLOSED", k.state}
  <1> DEFINE f == [k EXCEPT !.first_time = FALSE]
             s == "CLOSED"
             o == ScriptOutput(k)
             codes == {500} \cup (IF k.first_time THEN {} ELSE {408})
                        \cup IF k.method = "POST" THEN CreateCodes(k) ELSE {}
  <1>1. \/ \E c \in codes : r = State(Reply(k, c), s)
        \/ r = State(o, s) \/ r = f \/ r = State(k, s)
    <2> DEFINE replies == {State(Reply(k, c), s) : c \in codes}
               rest == IF k.method = "POST" THEN {State(k, s)} ELSE {}
    <2>1. Scripted(k) = replies \cup {State(o, s), f} \cup rest
      BY DEF Scripted
    <2> HIDE DEF f, codes, o
    <2> QED
      BY <2>1
  <1>2. codes \subseteq Codes
    BY DEF CreateCodes, Codes
  <1> HIDE DEF codes
  <1>3. Same(f, k) /\ f.state = k.state
    BY SameCalled
  <1> HIDE DEF f
  <1>4. ASSUME NEW c \in Codes PROVE Same(State(Reply(k, c), s), k) /\ State(Reply(k, c), s).state = s
    <2> DEFINE j == Reply(k, c)
    <2>1. Same(j, k) /\ j \in Client
      BY SameReply DEF Same
    <2> HIDE DEF j
    <2>2. Same(State(j, s), j) /\ State(j, s).state = s
      BY <2>1, SameState, StateIs
    <2> QED
      BY <2>1, <2>2, SameAgain DEF j
  <1>5. Same(State(k, s), k) /\ State(k, s).state = s
    BY SameState, StateIs
  <1>6. Same(o, k) /\ o \in Client
    <2> DEFINE h == [kind |-> "head", code |-> 200, conn |-> "none", length |-> -1,
                     chunked |-> FALSE, ended |-> TRUE]
    <2>1. h \in StatusHead /\ o = Put(k, h)
      BY OwnHeadType DEF ScriptOutput
    <2> HIDE DEF h, o
    <2> QED
      BY <2>1, SamePut DEF Same
  <1> HIDE DEF o
  <1>7. Same(State(o, s), k) /\ State(o, s).state = s
    BY <1>6, SameState, StateIs, SameAgain
  <1> QED
    BY <1>1, <1>2, <1>3, <1>4, <1>5, <1>7

LEMMA OptionsSame ==
    ASSUME NEW k \in Client
    PROVE  Same(ServeOptions(k), k)
  <1> DEFINE h == [kind |-> "head", code |-> 200, conn |-> "none", length |-> -1,
                   chunked |-> FALSE, ended |-> TRUE]
  <1>1. h \in StatusHead /\ ServeOptions(k) = Put(k, h)
    BY OwnHeadType DEF ServeOptions
  <1> HIDE DEF h
  <1> QED
    BY <1>1, SamePut

\* No call changes what the request is about.
LEMMA ServedSame ==
    ASSUME NEW k, Serving(k), size \in Nat, NEW sent \in BOOLEAN, NEW r \in Served(k, sent)
    PROVE  Same(r, k)
  <1> DEFINE s == "SERVED"
  <1>1. k \in Client
    BY DEF Serving
  <1>2. ASSUME NEW done, Same(done, k) PROVE Same(State(done, s), k)
    <2>1. Same(State(done, s), done)
      BY <1>2, SameState DEF Same
    <2> QED
      BY <1>2, <2>1, SameAgain
  <1>3. CASE k.state = "SERVING_GET"
    <2>1. r = ServeListing(k, sent) \/ r = ServeFile(k, sent)
      BY <1>3 DEF Served, ServeGet
    <2> QED
      BY <1>1, <2>1, ServeListingSame, ServeFileSame
  <1>4. CASE k.state = "SERVING_DELETE"
    <2>1. PICK done \in ServeDelete(k) : r = State(done, s)
      BY <1>4 DEF Served
    <2> QED
      BY <1>1, <1>2, <2>1, DeleteDone
  <1>5. CASE k.state = "SERVING_OPTIONS"
    <2>1. r = State(ServeOptions(k), s)
      BY <1>5 DEF Served
    <2> QED
      BY <1>1, <1>2, <2>1, OptionsSame
  <1>6. CASE k.state \in {"SERVING_POST", "SERVING_PUT"}
    <2>1. r \in Uploaded(k)
      BY <1>6 DEF Served
    <2> QED
      BY <1>1, <2>1, UploadedSame
  <1>7. CASE k.state = "SERVING_CGI"
    <2>1. r \in Scripted(k)
      BY <1>7 DEF Served
    <2> QED
      BY <1>1, <2>1, ScriptedSame
  <1> QED
    BY <1>3, <1>4, <1>5, <1>6, <1>7 DEF Serving, ServingStates

\* One call for a client that is being served.
LEMMA ServedFrame ==
    ASSUME NEW k, Serving(k), size \in Nat, Counts(k), FrameSoFar(k, size),
           NEW r \in Served(k, TRUE)
    PROVE  FrameOutcome(r, size)
  <1> DEFINE s == "SERVED"
             yes == TRUE
  <1>1. k \in Client /\ yes \in BOOLEAN
    BY DEF Serving
  <1>2. CASE k.state = "SERVING_GET"
    <2>1. CASE k.listing
      <3>1. r = ServeListing(k, yes)
        BY <1>2, <2>1 DEF Served, ServeGet
      <3> HIDE DEF yes
      <3>2. r.state = s /\ r.listing
        BY <1>1, <2>1, <3>1, ServeListingSame DEF Same
      <3> QED
        BY <3>2 DEF FrameOutcome
    <2>2. CASE ~k.listing
      <3>1. r = ServeFile(k, TRUE)
        BY <1>2, <2>2 DEF Served, ServeGet
      <3> QED
        BY <1>2, <2>2, <3>1, ServeFileFrame
    <2> QED
      BY <2>1, <2>2
  <1>3. CASE k.state = "SERVING_DELETE"
    <2>1. PICK done \in ServeDelete(k) : r = State(done, s)
      BY <1>3 DEF Served
    <2>2. k.wire = << >>
      BY <1>3 DEF Serving, OneSoFar, Counts
    <2>3. Unframed(k)
      BY <1>3 DEF FrameSoFar
    <2>4. Framed(done.wire) /\ done \in Client
      BY <1>1, <2>2, <2>3, DeleteDone DEF Same
    <2> QED
      BY <2>1, <2>4, DoneFrame
  <1>4. CASE k.state = "SERVING_OPTIONS"
    BY <1>4 DEF Serving, Counts
  <1>5. CASE k.state \in {"SERVING_POST", "SERVING_PUT"}
    <2>1. r \in Uploaded(k)
      BY <1>5 DEF Served
    <2>2. Same(r, k) /\ r.state \in {"SERVED", k.state}
      BY <1>1, <2>1, UploadedSame
    <2>3. k.method \in Uploads
      BY <1>5 DEF FrameSoFar
    <2>4. r.method \in Uploads
      BY <2>2, <2>3 DEF Same
    <2> QED
      BY <1>5, <2>2, <2>4 DEF FrameOutcome, FrameSoFar
  <1>6. CASE k.state = "SERVING_CGI"
    <2>1. r \in Scripted(k)
      BY <1>6 DEF Served
    <2>2. r.state \in {"CLOSED", "SERVING_CGI"}
      BY <1>1, <1>6, <2>1, ScriptedSame
    <2> QED
      BY <2>2 DEF FrameOutcome, FrameSoFar
  <1> QED
    BY <1>2, <1>3, <1>4, <1>5, <1>6 DEF Serving, ServingStates

-----------------------------------------------------------------------------
(* The inductive invariant.                                                *)

\* The body on a kept connection is as announced, and that on any other can become so.
FramedSoFar(k, s) ==
    /\ k.state = "KEEP_ALIVE" => Framed(k.wire)
    /\ k.state \notin {"WAITING", "KEEP_ALIVE", "CLOSED"} => FrameSoFar(k, s)

\* Not so where the file has changed or a send() has failed.
FrameInv == Counts(client) /\ ~disturbed => FramedSoFar(client, size)

FInv == IInv /\ FrameInv

LEMMA SettleSame ==
    ASSUME NEW r \in Client
    PROVE  Same(Settle(r), r)
  <1> DEFINE kept == "KEEP_ALIVE"
             closed == "CLOSED"
  <1>1. Same(State(r, kept), r) /\ Same(State(r, closed), r) /\ Same(r, r)
    BY SameState DEF Same
  <1> QED
    BY <1>1 DEF Settle

\* handle_client keeps the connection behind a body that is complete.
LEMMA SettleFrame ==
    ASSUME NEW r, Outcome(r), NEW s, FrameOutcome(r, s)
    PROVE  FramedSoFar(Settle(r), s)
  <1>1. r \in Client
    BY DEF Outcome, Answered, Serving
  <1>2. CASE r.state = "SERVED" /\ Kept(r)
    <2> DEFINE kept == "KEEP_ALIVE"
    <2>1. Settle(r) = State(r, kept)
      BY <1>2 DEF Settle
    <2>2. State(r, kept).state = kept /\ State(r, kept).wire = r.wire
      BY <1>1, StateIs
    <2>3. Framed(r.wire)
      BY <1>2 DEF FrameOutcome, Kept, Uploads
    <2> QED
      BY <2>1, <2>2, <2>3 DEF FramedSoFar
  <1>3. CASE r.state = "SERVED" /\ ~Kept(r)
    <2> DEFINE closed == "CLOSED"
    <2>1. Settle(r) = State(r, closed)
      BY <1>3 DEF Settle
    <2>2. State(r, closed).state = closed
      BY <1>1, StateIs
    <2> QED
      BY <2>1, <2>2 DEF FramedSoFar
  <1>4. CASE r.state # "SERVED"
    <2>1. Settle(r) = r
      BY <1>4 DEF Settle
    <2>2. r.state # "KEEP_ALIVE"
      BY <1>4 DEF Outcome, Serving, ServingStates
    <2> QED
      BY <1>4, <2>1, <2>2 DEF FramedSoFar, FrameOutcome
  <1> QED
    BY <1>2, <1>3, <1>4

LEMMA ChosenFrame ==
    ASSUME NEW k, Chosen(k), k.first_time
    PROVE  FrameSoFar(k, size)
  BY DEF Chosen, FrameSoFar

\* The call that completes the header.
LEMMA HandledFrame ==
    ASSUME NEW q \in Requests, NEW stale \in BOOLEAN, size \in Nat,
           NEW r \in Handled(q, stale, TRUE), Counts(r)
    PROVE  FramedSoFar(r, size)
  <1> DEFINE n == ParseRequest(Fresh("READING_HEADER", q, stale))
             k == ArchitectResponse(n)
             yes == TRUE
  <1>1. New(n) /\ Unframed(n)
    BY FreshNew, FreshUnframed
  <1>2. r \in CASE k.state = "SERVED" -> {State(k, "CLOSED")}
                [] k.state = "SERVING_CGI" -> {k}
                [] OTHER -> {Settle(done) : done \in Served(k, TRUE)}
    BY DEF Handled
  <1> HIDE DEF n
  <1>3. Decided(k) /\ Chosen(k)
    BY <1>1, ArchitectDecides, ArchitectChooses
  <1> HIDE DEF k
  <1>4. CASE k.state = "SERVED"
    <2> DEFINE closed == "CLOSED"
    <2>1. k \in Client /\ r = State(k, closed)
      BY <1>2, <1>3, <1>4 DEF Decided, Answered
    <2>2. r.state = closed
      BY <2>1, StateIs
    <2> QED
      BY <2>2 DEF FramedSoFar
  <1>5. CASE k.state = "SERVING_CGI"
    <2>1. r = k
      BY <1>2, <1>5
    <2> QED
      BY <1>5, <2>1 DEF FramedSoFar, FrameSoFar
  <1>6. CASE k.state \notin {"SERVED", "SERVING_CGI"}
    <2>1. Serving(k) /\ k.first_time
      BY <1>3, <1>6 DEF Decided
    <2>2. PICK done \in Served(k, TRUE) : r = Settle(done)
      BY <1>2, <1>6
    <2>3. yes \in BOOLEAN /\ done \in Served(k, yes)
      BY <2>2
    <2> HIDE DEF yes
    <2>4. Outcome(done) /\ Same(done, k)
      BY <2>1, <2>3, ServedOutcome, ServedSame
    <2>5. Same(r, done)
      BY <2>2, <2>4, SettleSame DEF Same
    <2>6. Counts(k)
      BY <2>4, <2>5 DEF Counts, Same
    <2>7. FrameOutcome(done, size)
      BY <1>3, <2>1, <2>2, <2>6, ChosenFrame, ServedFrame
    <2> QED
      BY <2>2, <2>4, <2>7, SettleFrame
  <1> QED
    BY <1>4, <1>5, <1>6

LEMMA InitFInv == Init => FInv
  <1> SUFFICES ASSUME Init PROVE FInv
    OBVIOUS
  <1>1. client.state = "WAITING"
    BY DEF Init, Fresh
  <1> QED
    BY <1>1, InitIInv DEF FInv, FrameInv, FramedSoFar

\* One step for each action; a change of the file is what the property leaves out.
LEMMA NextFInv == FInv /\ [Next]_vars => FInv'
  <1> SUFFICES ASSUME FInv, [Next]_vars PROVE FInv'
    OBVIOUS
  <1>1. IInv' /\ size \in Nat /\ GoodClient(client)
    BY NextIInv DEF FInv, IInv, TypeOK
  <1>2. CASE Receive
    <2>1. PICK q \in Requests, stale, sent \in BOOLEAN :
             client' \in Handled(q, stale, sent) /\ disturbed' = ~sent
      BY <1>2 DEF Receive
    <2>2. ASSUME Counts(client'), ~disturbed' PROVE FramedSoFar(client', size)
      <3>1. client' \in Handled(q, stale, TRUE)
        BY <2>1, <2>2
      <3> QED
        BY <1>1, <2>2, <3>1, HandledFrame
    <2>3. size' = size
      BY <1>2 DEF Receive
    <2> QED
      BY <1>1, <2>2, <2>3 DEF FInv, FrameInv, Counts, FramedSoFar, FrameSoFar
  <1>3. CASE Serve
    <2>1. PICK sent \in BOOLEAN :
             /\ client' \in {Settle(done) : done \in Served(client, sent)}
             /\ disturbed' = (disturbed \/ ~sent)
      BY <1>3 DEF Serve
    <2>2. PICK done \in Served(client, sent) : client' = Settle(done)
      BY <2>1
    <2>3. Serving(client) /\ client.state \notin {"WAITING", "KEEP_ALIVE", "CLOSED"}
      BY <1>1, <1>3 DEF Serve, GoodClient
    <2>4. Outcome(done) /\ Same(done, client)
      BY <1>1, <2>2, <2>3, ServedOutcome, ServedSame
    <2>5. ASSUME Counts(client'), ~disturbed' PROVE FramedSoFar(client', size)
      <3>1. Same(client', done)
        BY <2>2, <2>4, SettleSame DEF Same
      <3>2. Counts(client)
        BY <2>4, <2>5, <3>1 DEF Counts, Same
      <3>3. ~disturbed /\ sent = TRUE
        BY <2>1, <2>5
      <3>4. FrameSoFar(client, size)
        BY <2>3, <3>2, <3>3 DEF FInv, FrameInv, FramedSoFar
      <3>5. done \in Served(client, TRUE)
        BY <2>2, <3>3
      <3>6. FrameOutcome(done, size)
        BY <1>1, <2>3, <3>2, <3>4, <3>5, ServedFrame
      <3> QED
        BY <2>2, <2>4, <3>6, SettleFrame
    <2>6. size' = size
      BY <1>3 DEF Serve
    <2> QED
      BY <1>1, <2>5, <2>6 DEF FInv, FrameInv, Counts, FramedSoFar, FrameSoFar
  <1>4. CASE Touch
    BY <1>1, <1>4 DEF Touch, FInv, FrameInv
  <1>5. CASE UNCHANGED vars
    BY <1>1, <1>5 DEF vars, FInv, FrameInv
  <1> QED
    BY <1>2, <1>3, <1>4, <1>5 DEF Next

\* Whatever a connection that stays open has been sent, or will be, has a length
\* that its head announces, in every state of the chain and of the methods.
THEOREM FrameInvariant == Spec => []FInv
  BY InitFInv, NextFInv, PTL DEF Spec

\* What GET, DELETE and every refusal send before handle_client keeps the
\* connection is the body that their head has announced: in as many bytes as stat()
\* has found, read MAX_BUFFER_SIZE at a time, or as chunks up to the last-chunk.
THEOREM KeptIsFramed == Spec => []FramedWhenKept
  <1>1. FInv => FramedWhenKept
    BY DEF FInv, FrameInv, FramedSoFar, Counts, FramedWhenKept
  <1> QED
    BY <1>1, FrameInvariant, PTL
=============================================================================
