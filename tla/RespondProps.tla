---------------------------- MODULE RespondProps ----------------------------
(***************************************************************************)
(* What a client may rely on in the answers of Respond, and what the       *)
(* repository's documents say of them that the code does not do.           *)
(***************************************************************************)
EXTENDS Respond

-----------------------------------------------------------------------------
(* Observations                                                            *)

IsHead(p) == p.kind = "head"
HeadsAt   == {i \in DOMAIN client.wire : IsHead(client.wire[i])}

\* The bytes of a body that are in w; not counted is the "\r\n" behind them.
Counted(p) == IF p.kind \in {"data", "chunk"} THEN p.n ELSE 0
Bytes(w)   ==
    LET upto[n \in 0..Len(w)] == IF n = 0 THEN 0 ELSE upto[n - 1] + Counted(w[n])
    IN upto[Len(w)]

Finished == client.state \in {"KEEP_ALIVE", "CLOSED"}
Uploads  == {"POST", "PUT"}

-----------------------------------------------------------------------------
(* What the code keeps to                                                  *)

\* A finished request has had one head, and one that ends with its empty
\* line, whichever handler took it: in the chain, in handle_http, in the
\* method handlers and in handle_cgi there is no path with two answers or,
\* for anything but an upload or a script that breaks off, with none. HEAD is
\* left out, for which the code is wrong, and so is a response that found
\* is_directory_listing set.
OneAnswer ==
    ~client.stale /\ client.q.word # "HEAD" =>
        /\ \A i \in HeadsAt : i = 1 /\ client.wire[i].ended
        /\ Finished /\ client.q.word \notin Uploads /\ ~client.is_cgi
             => HeadsAt # {}

\* What the client reads behind a head is the body that the head announced: as
\* chunks up to the last-chunk, or in as many bytes.
Framed(w) ==
    IF w[1].chunked
    THEN /\ w[1].length = -1
         /\ \A n \in 2..Len(w) - 1 : w[n].kind = "chunk"
         /\ Len(w) > 1 /\ w[Len(w)].kind = "last"
    ELSE /\ \A n \in 2..Len(w) : w[n].kind = "data" \/ (w[n].kind = "crlf" /\ n = Len(w))
         /\ Bytes(w) = w[1].length

\* On a connection that stays open the client must see where the body ends.
\* (The "\r\n" that serve_by_content_length sends behind a body is not counted
\* as part of it.) Not so if the file changes between stat() and read().
FramedWhenKept ==
    client.state = "KEEP_ALIVE" /\ ~client.stale /\ ~disturbed
        /\ client.q.word \notin {"HEAD", "OPTIONS"} => Framed(client.wire)

\* handle_client decides from the request whether to keep a connection, the
\* head was written from the response: a connection that stays open was
\* announced as "keep-alive". OPTIONS announces nothing; an upload that was
\* answered with an error page, after its method has become GET, is announced
\* as closed and kept.
KeptAsAnnounced ==
    client.state = "KEEP_ALIVE" /\ client.q.word \notin Uploads \cup {"OPTIONS"}
        => \A i \in HeadsAt : client.wire[i].conn = "keep-alive"

\* What the answer to DELETE of a directory says is so, though rmfiles goes on
\* behind what it cannot remove, and decides by a flag that passes through
\* all levels and a counter: 204, no file is left, and no directory but one
\* that holds, or is, one for which remove() fails, whose result nobody looks
\* at; 207, files are gone and something is left; anything else, every file
\* is there.
DeletedAsTold ==
    client.q.word = "DELETE" /\ Finished =>
        LET gone == client.q.tree \ client.tree IN
        CASE client.code = 204 ->
                \A n \in client.tree :
                    n.kind = "dir" /\ \E m \in Below(client.tree, n) : "remove" \notin m.can
          [] client.code = 207 -> Files(gone) # {} /\ client.tree # {}
          [] OTHER -> Files(gone) = {}

\* A file is sent to its end, whatever happens to it meanwhile. The index
\* that is a directory is left out: read() fails for it and the state stays.
GetFinishes ==
    (client.state = "SERVING_GET" /\ ~(client.file = "index" /\ client.q.index = "directory"))
        ~> client.state # "SERVING_GET"

-----------------------------------------------------------------------------
(* What the repository's documents say and the code does not do            *)

\* src/README.md:38, "Keep-alive is also supported": a request that asks for
\* it and is told that the connection is kept finds it open afterwards.
KeepAliveHonoured ==
    client.state = "CLOSED" /\ ~client.stale /\ ~disturbed
        => \A i \in HeadsAt : client.wire[i].conn # "keep-alive"
=============================================================================
