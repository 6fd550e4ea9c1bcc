------------------------------ MODULE Respond -------------------------------
(***************************************************************************)
(* From a complete header to the last byte of the answer, on one           *)
(* connection: parse_request, architect_response and its chain of handlers *)
(* (Handlers::handle_400 to handle_200), both fill_response functions, the *)
(* handlers of GET, DELETE and OPTIONS, and the decision of handle_client  *)
(* to keep the connection or to close it.                                  *)
(*                                                                         *)
(* A request comes with the facts about the site that its handlers look    *)
(* up, so that one record says all that the decisions depend on.           *)
(***************************************************************************)
EXTENDS Integers, SequencesExt

CONSTANTS Requests,     \* see Request
          Sizes,        \* bound: sizes of the files that are served
          ListingSize,  \* bound: the size of a generated listing
          BufferSize,   \* MAX_BUFFER_SIZE
          MaxRequests   \* bound: requests on the connection

Supported == {"GET", "POST", "OPTIONS", "DELETE", "HEAD", "PUT"}
Words     == Supported \cup {"PATCH", "TRACE", "QUERY", "CONNECT"}

\* uri: "invalid" stands for a malformed header line, too.
\* location_listing: directory_listing of the location, none if there is none.
\* page, page404: what error_page, and try_404_files, name below the root;
\* dir_page: what error_page names inside the requested directory.
\* tree: the requested directory, with the path << >>, and what is below it;
\* can: whether opendir() and remove() succeed for it.
Node == [path : Seq(STRING), kind : {"file", "dir"}, can : SUBSET {"open", "remove"}]

Request ==
    [word : Words, http11 : BOOLEAN, keep : BOOLEAN, te : {"absent", "chunked", "other"},
     length : {"absent", "fine", "large"}, ctype : BOOLEAN,
     uri : {"fine", "invalid", "long"}, is_file : BOOLEAN,
     allowed : BOOLEAN, redirect : BOOLEAN,
     target : {"readable", "unreadable", "missing", "directory"},
     script : BOOLEAN,
     index : {"readable", "unreadable", "missing", "directory"},
     dir : BOOLEAN, server_listing : BOOLEAN,
     location_listing : {"none", "on", "off"},
     page : {"none", "readable"}, page404 : {"none", "readable", "unreadable"},
     dir_page : {"none", "readable"}, tree : SUBSET Node]

\* What a file system can hold: only a directory that is there has anything in
\* it, and whatever has a path that goes on is a directory.
SiteOf(q) ==
    /\ IF q.dir THEN \E n \in q.tree : n.path = << >> /\ n.kind = "dir" ELSE q.tree = {}
    /\ \A n, d \in q.tree : n # d /\ IsPrefix(d.path, n.path) => d.kind = "dir"
    /\ q.is_file /\ q.dir => q.target = "directory"

ASSUME RespondAssumption ==
    /\ Requests \subseteq Request /\ Requests # {}
    /\ Sizes \subseteq Nat /\ Sizes # {} /\ ListingSize \in Nat
    /\ BufferSize \in Nat \ {0} /\ MaxRequests \in Nat
    /\ \A q \in Requests : SiteOf(q)

VARIABLES
    client,   \* the t_client with its request and response
    size,      \* of the file that the response is about
    disturbed, \* that file has changed, or a send() failed, since the head
    left       \* how many requests may still come
vars == <<client, size, disturbed, left>>

-----------------------------------------------------------------------------
(* t_client, t_request and t_response                                      *)

Codes == {0, 200, 201, 204, 207, 301, 400, 403, 404, 405, 408, 413, 414, 500, 501}

\* What has been given to send(): heads, pieces of a body, the last-chunk.
StatusHead == [kind : {"head"}, code : Codes, conn : {"none", "keep-alive", "closed"},
               length : Int, chunked : BOOLEAN, ended : BOOLEAN]
BodyPiece  == [kind : {"data", "chunk", "last", "crlf"}, n : Nat]
Wire       == Seq(StatusHead \cup BodyPiece)

\* response(): is_directory_listing is not initialised, stale is what is
\* found there. length is the content-length of response_map, -1 if absent.
Fresh(state, q, stale) ==
    [state |-> state, q |-> q, method |-> "", first_time |-> TRUE,
     code |-> 0, conn |-> "none", length |-> -1, chunked |-> FALSE,
     is_chunked |-> FALSE, file |-> "none", is_cgi |-> FALSE,
     listing |-> stale, stale |-> stale, off |-> 0, wire |-> << >>, tree |-> q.tree]

Client ==
    [state : {"WAITING", "READING_HEADER", "KEEP_ALIVE", "SERVING_GET",
              "SERVING_POST", "SERVING_PUT", "SERVING_DELETE",
              "SERVING_OPTIONS", "SERVING_CGI", "SERVED", "CLOSED"},
     q : Request, method : Supported \cup {""}, first_time : BOOLEAN,
     code : Codes, conn : {"none", "keep-alive", "closed"},
     length : Int, chunked : BOOLEAN, is_chunked : BOOLEAN,
     file : {"none", "target", "index", "page", "root"},
     is_cgi : BOOLEAN, listing : BOOLEAN, stale : BOOLEAN,
     off : Nat, wire : Wire, tree : SUBSET Node]

TypeOK ==
    /\ client \in Client
    /\ size \in Nat
    /\ disturbed \in BOOLEAN
    /\ left \in 0..MaxRequests

State(k, s) == [k EXCEPT !.state = s]
Put(k, p)   == [k EXCEPT !.wire = Append(@, p)]

-----------------------------------------------------------------------------
(* parse_request. After an unknown method, which becomes GET, or another   *)
(* version than HTTP/1.1 the other header lines are not looked at.         *)

WellFormed(q)       == q.word \in Supported /\ q.http11
IsNotImplemented(q) == q.word \in {"QUERY", "CONNECT"} \/ ~q.http11
IsBadRequest(q)     == ~WellFormed(q) /\ ~IsNotImplemented(q)

\* mutant: the word that is not supported stays the method
ParseRequestAsIs(k) == [k EXCEPT !.method = k.q.word]

ParseRequest(k) ==
    LET method == IF k.q.word \in Supported THEN k.q.word ELSE "GET"
    IN IF WellFormed(k.q) THEN [k EXCEPT !.method = method]
       ELSE [k EXCEPT !.method = method, !.q.keep = FALSE, !.q.te = "absent",
                   !.q.length = "absent", !.q.ctype = FALSE]

-----------------------------------------------------------------------------
(* response.struct.hpp and the two functions called fill_response          *)

\* write_response_in_socketfd
WriteResponse(k, finish_it) ==
    LET conn == IF k.listing THEN "closed" ELSE k.conn
    IN Put([k EXCEPT !.conn = conn],
           [kind |-> "head", code |-> k.code, conn |-> conn,
            length |-> k.length, chunked |-> k.chunked, ended |-> finish_it])

\* access(res->filepath, R_OK)
Accessible(k) ==
    CASE k.file = "target" -> k.q.target \in {"readable", "directory"}
      [] k.file = "index"  -> k.q.index \in {"readable", "directory"}
      [] k.file \in {"page", "root"} -> TRUE
      [] OTHER -> FALSE

\* The member function, used by the chain: the header map of the response,
\* which add() never overwrites, and the response itself if write_it.
KeepsAlive(k) == k.q.keep /\ k.method \notin {"POST", "PUT"}
HasBody(k)    == k.file # "none" \/ k.listing
FillResponse(k, code, write_it) ==
    LET chunked == HasBody(k) /\ k.q.te = "chunked"
        sized   == HasBody(k) /\ ~chunked /\ ~k.listing /\ Accessible(k)
        filled  == [k EXCEPT
                      !.code = code,
                      !.conn = IF k.is_cgi \/ ~KeepsAlive(k) THEN "closed"
                               ELSE "keep-alive",
                      !.chunked = chunked,
                      !.is_chunked = chunked \/ (@ /\ ~sized),
                      !.length = IF ~HasBody(k) THEN 0
                                 ELSE IF sized THEN size ELSE -1]
        cleared == [filled EXCEPT !.file = IF k.method # "GET" THEN "none" ELSE @]
    IN IF ~write_it THEN filled
       ELSE WriteResponse(cleared, \/ cleared.file = "none" \/ ~k.listing
                                   \/ ~Accessible(cleared))

\* The function of random.tools.cpp, used by the method handlers.
Reply(k, code) ==
    WriteResponse([k EXCEPT !.code = code,
                            !.conn = IF @ = "none" /\ k.q.keep THEN "keep-alive"
                                     ELSE @,
                            !.length = IF @ = -1 THEN 0 ELSE @],
                  ~k.listing)

-----------------------------------------------------------------------------
(* The handlers of the chain                                               *)

\* mutant: the head of an error page is written for every method
RefuseAtOnce(k, code) ==
    IF k.q.page = "readable"
    THEN [State(FillResponse([k EXCEPT !.file = "page"], code, TRUE),
                "SERVING_GET") EXCEPT !.method = "GET"]
    ELSE State(FillResponse(k, code, TRUE), "SERVED")

\* What handle_400, 414, 501, 413 and 405 have in common. For HEAD the state
\* is set to SERVED, and overwritten by the next assignment.
Refuse(k, code) ==
    IF k.q.page = "readable"
    THEN [State(FillResponse([k EXCEPT !.file = "page"], code,
                             k.method = "HEAD"),
                "SERVING_GET") EXCEPT !.method = "GET"]
    ELSE State(FillResponse(k, code, TRUE), "SERVED")

\* What follows set_error_page where HEAD is not considered.
RefuseWithout(k, code, page) ==
    IF page = "readable"
    THEN State(FillResponse([k EXCEPT !.file = "page"], code, FALSE),
               "SERVING_GET")
    ELSE State(FillResponse([k EXCEPT !.file = "none"], code, TRUE), "SERVED")

BadRequest(q) ==      \* handle_400
    \/ q.word = "POST" /\ (~q.ctype \/ (q.te = "absent" /\ q.length = "absent"))
    \/ q.uri = "invalid"
    \/ IsBadRequest(q)
NotImplemented(q) ==  \* handle_501
    q.te = "other" \/ IsNotImplemented(q)

\* The first of the handlers that takes the request, in the order of the ||.
Refusal(q) ==
    IF BadRequest(q) THEN 400 ELSE IF q.uri = "long" THEN 414
    ELSE IF NotImplemented(q) THEN 501 ELSE IF q.length = "large" THEN 413
    ELSE IF ~q.allowed THEN 405 ELSE 0

\* handle_404: a page of try_404_files that is there but closed to us ends
\* in a 403, about the root directory if there is no page for that.
Handle404(k) ==
    IF k.q.page404 = "readable"
    THEN [State(FillResponse([k EXCEPT !.file = "page"], 404,
                             k.method = "HEAD"),
                "SERVING_GET") EXCEPT !.method = "GET"]
    ELSE IF k.q.page404 = "unreadable"
    THEN IF k.q.page = "readable" THEN RefuseWithout(k, 403, "readable")
         ELSE State(FillResponse([k EXCEPT !.file = "root"], 403, TRUE), "SERVED")
    ELSE State(FillResponse([k EXCEPT !.file = "none"], 404, TRUE), "SERVED")

ListingOn(q) == q.location_listing = "on" \/ q.server_listing

\* handle_200d: an index, a listing, or no access. A page for the 403 is
\* looked for below the index file, where there is none.
Handle200d(k) ==
    IF k.q.index \in {"readable", "directory"}
    THEN LET served == [k EXCEPT !.file = "index", !.is_cgi = k.q.script]
         IN [State(FillResponse(served, 200, FALSE),
                   IF k.q.script THEN "SERVING_CGI" ELSE "SERVING_GET")
               EXCEPT !.method = "GET"]
    ELSE IF k.q.index = "unreadable" THEN RefuseWithout(k, 403, "none")
    ELSE IF k.q.dir /\ ListingOn(k.q)
    THEN [State(FillResponse([k EXCEPT !.listing = TRUE, !.file = "root"],
                             200, FALSE),
                "SERVING_GET") EXCEPT !.method = "GET"]
    ELSE IF ~k.q.dir THEN RefuseWithout(k, 404, k.q.page)
    ELSE RefuseWithout(k, 403, k.q.dir_page)

\* handle_200f
Handle200f(k) ==
    IF k.q.target = "readable"
    THEN LET served == [k EXCEPT !.file = "target", !.is_cgi = k.q.script]
         IN IF k.q.script
            THEN [State(served, "SERVING_CGI") EXCEPT !.method = "GET"]
            ELSE [State(FillResponse(served, 200, FALSE), "SERVING_GET")
                    EXCEPT !.method = "GET"]
    ELSE IF k.q.target = "unreadable" THEN RefuseWithout(k, 403, "none")
    ELSE Handle404(k)

\* handle_200; the method has become GET where there is something to send.
Handle200(k) ==
    LET done == IF k.q.is_file THEN Handle200f(k) ELSE Handle200d(k)
    IN IF done.method = "HEAD" THEN State(done, "SERVED") ELSE done

\* architect_response
ArchitectResponse(k) ==
    IF k.method = "OPTIONS" THEN State(k, "SERVING_OPTIONS")
    ELSE IF Refusal(k.q) # 0 THEN Refuse(k, Refusal(k.q))
    ELSE IF k.q.redirect THEN State(FillResponse(k, 301, TRUE), "SERVED")
    ELSE CASE k.method \in {"GET", "HEAD"} -> Handle200(k)
           [] k.method = "DELETE" ->
                State([k EXCEPT !.file = "target"], "SERVING_DELETE")
           [] k.method = "POST" ->
                State([k EXCEPT !.file = "root", !.is_cgi = k.q.script],
                      IF k.q.script THEN "SERVING_CGI" ELSE "SERVING_POST")
           [] k.method = "PUT" ->
                State([k EXCEPT !.file = "target"], "SERVING_PUT")

-----------------------------------------------------------------------------
(* GET                                                                     *)

\* mutant: the whole buffer is sent, whatever read() has returned
ReadFileWhole(k) == IF size > k.off THEN BufferSize ELSE 0

\* mutant: the end of the file is taken for an error
ReadFileErrs(k) == IF size > k.off THEN Min({BufferSize, size - k.off}) ELSE -1

\* read() of the next MAX_BUFFER_SIZE bytes: -1 where the file is a
\* directory, 0 at the end, wherever the end is by now.
ReadFile(k) ==
    IF k.file = "index" /\ k.q.index = "directory" THEN -1
    ELSE Max({0, Min({BufferSize, size - k.off})})

\* reset
Reset(k) == [k EXCEPT !.conn = "none", !.length = -1, !.chunked = FALSE,
                      !.is_cgi = FALSE]

\* handle_static_file; sent: whether send() takes the piece. A socket that is
\* ready for writing has room for one.
ServeFile(k, sent) ==
    LET opened == IF k.first_time
                  THEN [WriteResponse(k, TRUE) EXCEPT !.first_time = FALSE]
                  ELSE k
        n == ReadFile(k)
        piece == [kind |-> IF k.is_chunked THEN "chunk" ELSE "data", n |-> n]
        end   == [kind |-> IF k.is_chunked THEN "last" ELSE "crlf", n |-> 0]
    IN IF k.first_time /\ k.file = "none"
       THEN State(Reply(Reset(k), 500), "SERVED")
       ELSE IF n > 0
       THEN IF sent THEN [Put(opened, piece) EXCEPT !.off = @ + n]
            ELSE State(opened, "SERVED")
       ELSE IF n = 0 \/ k.is_chunked THEN State(Put(opened, end), "SERVED")
       ELSE opened

\* opendir() of rootfilepath in list_directories. rootfilepath is empty, which
\* names the working directory, before change_path and after handle_404 has
\* met a page that it cannot read.
CanList(k) ==
    CASE Refusal(k.q) # 0   -> TRUE
      [] k.file = "index"   -> FALSE
      [] k.q.is_file        -> k.q.target = "directory" \/ k.code = 403
      [] OTHER              -> k.q.dir

\* handle_directory_listing: it goes on where list_directories has answered.
ServeListing(k, sent) ==
    LET listed == IF CanList(k) THEN k ELSE Reply(Reset(k), 500)
        sized  == [listed EXCEPT !.length = IF @ = -1 THEN ListingSize ELSE @]
        head   == WriteResponse(sized, TRUE)
        html   == <<[kind |-> "data", n |-> ListingSize], [kind |-> "crlf", n |-> 0]>>
    IN State(IF sent THEN [head EXCEPT !.wire = @ \o html] ELSE head, "SERVED")

ServeGet(k, sent) ==
    IF k.listing THEN ServeListing(k, sent) ELSE ServeFile(k, sent)

-----------------------------------------------------------------------------
(* DELETE                                                                  *)

Below(t, d) == {n \in t : IsPrefix(d.path, n.path)}
Above(t, n) == {d \in t \ {n} : IsPrefix(d.path, n.path)}

\* mutant: what a subdirectory comes to is not looked at.
RmfilesFlat(t, d) ==
    \A n \in Below(t, d) :
        IF n.kind = "dir" THEN "open" \in d.can
        ELSE Len(n.path) = Len(d.path) + 1 => "remove" \in n.can

\* What rmfiles comes to for directory d: it goes on behind an entry that it
\* cannot open or remove, and is false then for all directories above it.
Rmfiles(t, d) ==
    \A n \in Below(t, d) : IF n.kind = "dir" THEN "open" \in n.can ELSE "remove" \in n.can

\* Every entry it reaches and that can be removed goes; a directory only when
\* it has become empty, which is not looked at again.
Removed(t) ==
    {n \in t :
        /\ \A d \in Above(t, n) : "open" \in d.can
        /\ "remove" \in n.can
        /\ n.kind = "dir" => Rmfiles(t, n) /\ \A m \in Below(t, n) : "remove" \in m.can}

Files(t) == {n \in t : n.kind = "file"}

\* handle_delete_folder; del_files counts files only.
DeleteFolder(k) ==
    LET t    == k.tree
        root == CHOOSE n \in t : n.path = << >>
        code == IF Rmfiles(t, root) THEN 204 ELSE IF Files(Removed(t)) = {} THEN 403 ELSE 207
    IN IF ~k.q.dir THEN {Reply(k, 404)} ELSE {Reply([k EXCEPT !.tree = t \ Removed(t)], code)}

\* handle_delete_file
DeleteFile(k) ==
    {Reply(k, c) : c \in IF k.q.target \in {"missing", "directory"} THEN {404} ELSE {204, 403}}

ServeDelete(k) == IF k.q.is_file THEN DeleteFile(k) ELSE DeleteFolder(k)

-----------------------------------------------------------------------------
(* OPTIONS, POST, PUT and scripts: the answers they can come to            *)

\* Options::serve_client writes its own head, with neither a connection nor
\* a content-length.
ServeOptions(k) ==
    Put(k, [kind |-> "head", code |-> 200, conn |-> "none", length |-> -1,
            chunked |-> FALSE, ended |-> TRUE])

\* What create_file and upload_finish can answer to an upload. The body may
\* need more calls, or end with the stream, which is not answered.
CreateCodes(k) == IF k.first_time THEN {403, 404, 500} ELSE {}
Uploaded(k) ==
    IF k.method = "PUT" /\ ~k.q.is_file THEN {State(Reply(k, 403), "SERVED")}
    ELSE {State(Reply(k, c), "SERVED") :
            c \in CreateCodes(k) \cup IF k.method = "PUT" THEN {201, 204} ELSE {201}}
         \cup {State(k, "SERVED"), [k EXCEPT !.first_time = FALSE]}

\* parse_cgi_output sends what the script has written behind a status line.
ScriptOutput(k) ==
    Put(k, [kind |-> "head", code |-> 200, conn |-> "none", length |-> -1,
            chunked |-> FALSE, ended |-> TRUE])

\* handle_cgi: the script runs, after the upload of a POST, and ends or is
\* given up. All that it sets SERVED is closed by handle_client.
Scripted(k) ==
    LET codes == {500} \cup (IF k.first_time THEN {} ELSE {408})
                 \cup IF k.method = "POST" THEN CreateCodes(k) ELSE {}
    IN {State(Reply(k, c), "CLOSED") : c \in codes}
       \cup {State(ScriptOutput(k), "CLOSED"), [k EXCEPT !.first_time = FALSE]}
       \cup IF k.method = "POST" THEN {State(k, "CLOSED")} ELSE {}

\* The states in which serve_client, or handle_cgi, may leave a client.
Served(k, sent) ==
    CASE k.state = "SERVING_GET" -> {ServeGet(k, sent)}
      [] k.state = "SERVING_DELETE" ->
           {State(done, "SERVED") : done \in ServeDelete(k)}
      [] k.state = "SERVING_OPTIONS" -> {State(ServeOptions(k), "SERVED")}
      [] k.state \in {"SERVING_POST", "SERVING_PUT"} -> Uploaded(k)
      [] k.state = "SERVING_CGI" -> Scripted(k)

-----------------------------------------------------------------------------
(* handle_client                                                           *)

\* mutant: a connection is kept after a listing, too
KeptListing(k) ==
    k.q.keep /\ ~k.is_cgi /\ k.method \notin {"POST", "PUT"}

\* What makes handle_client reset the client instead of removing it. The
\* record keeps the answered request, which nothing reads any more.
Kept(k) == /\ k.q.keep /\ ~k.listing /\ ~k.is_cgi
           /\ k.method \notin {"POST", "PUT"}
Settle(k) ==
    IF k.state # "SERVED" THEN k
    ELSE State(k, IF Kept(k) THEN "KEEP_ALIVE" ELSE "CLOSED")

\* The header of q is complete: the answer is decided, and the handler of its
\* method called at once unless it is a script. A client that is SERVED when
\* handle_http returns is disconnected.
Handled(q, stale, sent) ==
    LET k == ArchitectResponse(ParseRequest(Fresh("READING_HEADER", q, stale)))
    IN CASE k.state = "SERVED"      -> {State(k, "CLOSED")}
         [] k.state = "SERVING_CGI" -> {k}
         [] OTHER -> {Settle(done) : done \in Served(k, sent)}

Receive ==
    /\ client.state \in {"WAITING", "KEEP_ALIVE"} /\ left > 0
    /\ \E q \in Requests, stale, sent \in BOOLEAN :
         /\ client' \in Handled(q, stale, sent)
         /\ disturbed' = ~sent
    /\ left' = left - 1
    /\ UNCHANGED size

\* A later call for the same request.
Serve ==
    /\ client.state \notin {"WAITING", "KEEP_ALIVE", "CLOSED"}
    /\ \E sent \in BOOLEAN :
         /\ client' \in {Settle(done) : done \in Served(client, sent)}
         /\ disturbed' = (disturbed \/ ~sent)
    /\ UNCHANGED <<size, left>>

\* An upload of another client, or a script, changes the file.
Touch ==
    /\ size' \in Sizes \ {size}
    /\ disturbed' = TRUE
    /\ UNCHANGED <<client, left>>

Init ==
    /\ client = Fresh("WAITING", CHOOSE q \in Requests : TRUE, FALSE)
    /\ size \in Sizes
    /\ disturbed = FALSE
    /\ left = MaxRequests

Next == Receive \/ Serve \/ Touch

Spec == Init /\ [][Next]_vars

\* A socket that stays writable raises its event again and again.
FairSpec == Spec /\ WF_vars(Serve)
=============================================================================
