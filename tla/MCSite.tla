------------------------------- MODULE MCSite -------------------------------
(***************************************************************************)
(* Files, command lines and headers for model checking Site, as families   *)
(* around one plain site: each varies what interacts and leaves the rest.  *)
(***************************************************************************)
EXTENDS SiteProps

\* Words that begin with digits, and what they spell.
MCDigits ==
    ("0" :> 0) @@ ("80" :> 80) @@ ("8080" :> 8080) @@ ("40000" :> 40000) @@
    ("65535" :> 65535) @@ ("65616" :> 65616) @@ ("16777296" :> 16777296) @@
    ("301" :> 301) @@ ("400" :> 400) @@ ("404" :> 404) @@ ("405" :> 405) @@
    ("413" :> 413) @@ ("414" :> 414) @@ ("501" :> 501) @@ ("10" :> 10) @@ ("4" :> 4) @@
    ("600" :> 600) @@ ("20s" :> 20) @@ ("30s" :> 30) @@ ("2m" :> 2) @@
    ("5h" :> 5) @@ ("500by" :> 500) @@ ("7kb" :> 7) @@ ("10mb" :> 10)
MCSuffix ==
    [w \in DOMAIN MCDigits |->
        CASE w \in {"20s", "30s"} -> "s" [] w = "2m" -> "m" [] w = "5h" -> "h"
          [] w = "500by" -> "by" [] w = "7kb" -> "kb" [] w = "10mb" -> "mb" [] OTHER -> ""]
MCSegments ==
    ("/" :> << >>) @@ ("/a" :> <<"a">>) @@ ("/b/" :> <<"b">>) @@ ("/a/b" :> <<"a", "b">>) @@
    ("a" :> <<"a">>) @@ ("/www" :> <<"www">>) @@ ("/srv" :> <<"srv">>) @@ ("/loc" :> <<"loc">>) @@
    ("/moved.html" :> <<"moved.html">>)
MCFieldNames ==
    ("host:" :> "host") @@ ("cookie:" :> "cookie") @@ ("origin:" :> "origin") @@
    ("content-length:" :> "content-length") @@ ("transfer-encoding:" :> "transfer-encoding") @@
    ("connection:" :> "connection")
Target(segs, slash, chars, valid) == [segs |-> segs, slash |-> slash, chars |-> chars, valid |-> valid]
MCTargets ==
    ("/" :> Target(<< >>, TRUE, 1, TRUE)) @@ ("/a" :> Target(<<"a">>, FALSE, 2, TRUE)) @@
    ("/a/" :> Target(<<"a">>, TRUE, 3, TRUE)) @@ ("/b/x" :> Target(<<"b", "x">>, FALSE, 4, TRUE)) @@
    ("/a/b/x" :> Target(<<"a", "b", "x">>, FALSE, 6, TRUE)) @@
    ("/~x" :> Target(<<"~x">>, FALSE, 3, FALSE))

-----------------------------------------------------------------------------
(* Text *)

Plainly == [brace |-> "same", close |-> "own", remarks |-> FALSE, first |-> TRUE]
Layouts == [brace : {"same", "next"}, close : {"own", "tail"}, remarks : BOOLEAN, first : BOOLEAN]

Block(head, ls, lay) ==
    (IF lay.brace = "same" THEN <<Append(head, "{")>> ELSE <<head, <<"{">>>>)
      \o (IF lay.close = "own" \/ ls = << >> THEN Append(ls, <<"}">>)
          ELSE Append(Front(ls), Append(Last(ls), "}")))

ServerText(s, lay) ==
    Block(<<"server">>,
          s.words \o FlattenSeq([n \in DOMAIN s.locations |->
                        Block(<<"location", s.locations[n].name>>, s.locations[n].lines, lay)]), lay)

\* Every line with a remark, and an empty one behind it.
Remarked(ls) == FlattenSeq([n \in DOMAIN ls |-> <<ls[n] \o <<"#", "remark">>, << >>, <<"#">>>>])

Text(h, ss, lay) ==
    LET servers_text == FlattenSeq([k \in DOMAIN ss |-> ServerText(ss[k], lay)])
        ls == Block(<<"http">>, IF lay.first THEN h \o servers_text ELSE servers_text \o h, lay)
    IN IF lay.remarks THEN Remarked(ls) ELSE ls

\* Segments of s that end behind the positions of cuts.
Cut(s, cuts) ==
    LET c == SetToSortSeq(cuts \cup {Len(s)}, <)
    IN [n \in DOMAIN c |-> SubSeq(s, (IF n = 1 THEN 0 ELSE c[n - 1]) + 1, c[n])]

HeaderText(header) == LinesText(header) \o CRLF

\* The requests one behind the other. Where each starts, and where its body.
SentAll(requests, cuts) ==
    LET bytes == [n \in DOMAIN requests |-> HeaderText(requests[n].header) \o requests[n].body]
        start(n) == Len(FlattenSeq(SubSeq(bytes, 1, n - 1)))
        bodies(n) == start(n) + Len(HeaderText(requests[n].header))
        stream == FlattenSeq(bytes)
        inside(n) == {c \in cuts : c > start(n) /\ c < bodies(n)}
        lines_before(n, c) == Cardinality({x \in start(n) + 1..c : stream[x] = "LF"})
        upto(n) == LET c == SetToSortSeq(inside(n), <)
                   IN Append([g \in DOMAIN c |-> lines_before(n, c[g])], Len(requests[n].header))
    IN [requests |-> [n \in DOMAIN requests |->
            [header |-> requests[n].header, body |-> requests[n].body, upto |-> upto(n),
             first |-> Cardinality({c \in cuts : c <= start(n)}) + 1]],
        segments |-> Cut(stream, cuts),
        torn  |-> \E n \in DOMAIN requests : \E c \in inside(n) : stream[c] # "LF",
        apart |-> \A n \in 2..Len(requests) :
                     start(n) \in cuts /\ requests[n - 1].body = << >>]

Request(header, b) == [header |-> header, body |-> b]
Sent(header, b, cuts) == SentAll(<<Request(header, b)>>, cuts)

-----------------------------------------------------------------------------
(* The plain site *)

Get(target) == Sent(<<<<"GET", target, "HTTP/1.1">>, <<"host:", "example.org">>>>, << >>, {})
Location(name, ls) == [name |-> name, lines |-> ls]
One(ls, locations) == [words |-> <<<<"listen", "80">>, <<"server_name", "one">>,
                                   <<"allowed_methods", "GET", "PUT">>>> \o ls, locations |-> locations]
Two(ls) == [words |-> <<<<"server_name", "two">>, <<"listen", "8080">>, <<"allowed_methods", "*">>>> \o ls,
            locations |-> << >>]
Methods == <<<<"allowed_methods", "GET", "GET", "PUT">>>>
Conf == <<"site.conf">>
Strict == <<"site.conf", "--activate-strict_mode">>

\* The places of a plain file, line by line.
PlacesOf(inp) ==
    LET text == ExtractWords(inp.lines)
        count(l, w) == Cardinality({c \in DOMAIN l : l[c] = w})
        next(p, l) ==
            LET r == [p EXCEPT !.depth = @ + count(l, "{") - count(l, "}"),
                               !.head = l[1] \in {"http", "server", "location"} /\ Last(l) # "{"]
            IN CHOOSE q \in {r, [r EXCEPT !.http = @ + 1], [r EXCEPT !.words = @ + 1],
                             [r EXCEPT !.blocks = @ + 1],
                             [r EXCEPT !.sites = @ + 1, !.words = 0, !.blocks = 0]} :
                  LineBetween(inp, p, q, l)
        place[r \in 1..Len(text) + 1] ==
            IF r = 1 THEN FirstPlace ELSE next(place[r - 1], text[r - 1])
    IN place

\* The scanner looks behind the last line if that holds a directive of the
\* http block: such a file is not plain.
Input(h, ss, lay, args, sent) ==
    LET inp == [lines |-> Text(h, ss, lay), http |-> h, sites |-> ss, args |-> args,
                plain |-> lay.first \/ lay.close = "own", memory |-> FALSE,
                segments |-> sent.segments, requests |-> sent.requests,
                torn |-> sent.torn, apart |-> sent.apart]
    IN inp @@ [places |-> IF inp.plain THEN PlacesOf(inp) ELSE << >>]

Odd(text, h, ss, sent) == [Input(h, ss, Plainly, Conf, sent) EXCEPT !.lines = text, !.plain = FALSE]

\* Directives of a server behind its location, and of http between servers.
Mixed ==
    LET one == One(<< >>, <<Location("/b/", <<<<"redirect", "a">>, <<"root", "/loc">>>>)>>)
        two == Two(<< >>)
        h   == Append(Methods, <<"root", "/www">>)
        inp == Input(h, <<one, two>>, Plainly, Conf, Get("/b/x"))
        text == <<<<"http">>, <<"{">>, h[1], <<"server">>, <<"{">>, one.words[1], one.words[2],
                  <<"location", "/b/">>, <<"{">>, one.locations[1].lines[1],
                  one.locations[1].lines[2] \o <<"}">>, one.words[3] \o <<"}">>, h[2],
                  <<"server", "{">>, two.words[1], two.words[2], two.words[3] \o <<"}", "}">>>>
        mixed == [inp EXCEPT !.lines = text]
    IN [mixed EXCEPT !.places = PlacesOf(mixed)]

ByLayout ==
    {Mixed} \cup
    {Input(Methods, <<One(<< >>, <<Location("/a", <<<<"root", "/loc">>>>),
                                   Location("/b/", ls)>>), Two(<< >>)>>, lay, Conf, Get("/b/x")) :
        lay \in Layouts, ls \in {<< >>, <<<<"redirect", "a">>, <<"directory_listing", "on">>>>}}

-----------------------------------------------------------------------------
(* One token in some of the three blocks *)

Lines(token) ==
    CASE token = "root" -> <<<<token, "/www">>, <<token, "/srv">>, <<token, "/loc">>>>
      [] token = "allowed_methods" ->
            <<<<token, "GET", "PUT">>, <<token, "GET", "DELETE">>, <<token, "GET">>>>
      [] token = "directory_listing" -> <<<<token, "on">>, <<token, "on">>, <<token, "off">>>>
      [] token = "client_max_body_size" -> <<<<token, "500by">>, <<token, "10mb">>>>
      [] token \in {"client_max_request_timeout", "keep_alive_max_timeout"} ->
            <<<<token, "20s">>, <<token, "2m">>>>
      [] token = "cgi_max_request_timeout" -> <<<<token, "30s">>, <<token, "5h">>>>
      [] token = "client_max_uri_size" -> <<<<token, "10">>, <<token, "600">>>>
      [] token = "client_max_connections" -> <<<<token, "10">>, <<token, "600">>>>
      [] token = "support_cookies" -> <<<<token, "off">>, <<token, "off">>, <<token, "off">>>>
      [] token \in {"try_index_files", "try_404_files"} ->
            <<<< >>, <<token, "x.html", "y.html", "x.html">>, <<token, "z.html">>>>
      [] token = "error_page" -> <<<< >>, <<token, "404", "x.html">>, <<token, "404", "y.html">>>>

Levels(token) ==
    SUBSET {n \in DOMAIN Lines(token) : Lines(token)[n] # << >>}

At(token, levels, n) == IF n \in levels THEN <<Lines(token)[n]>> ELSE << >>

Nested(tokens) ==
  UNION {
    {[Input(Methods \o At(t, levels, 1), <<One(At(t, levels, 2), <<Location("/a", At(t, levels, 3))>>)>>,
           Plainly, Conf, Get(target)) EXCEPT !.memory = m] :
        levels \in Levels(t), target \in {"/a/b/x", "/b/x"},
        m \in {FALSE, t = "directory_listing"}} : t \in tokens}

ByBlock == Nested(Documented \cup {"error_page"})

-----------------------------------------------------------------------------
(* Ports, redirections, headers, command lines, and files that are not fine *)

ByPort ==
    {Input(Methods, <<[words |-> <<<<"server_name", "one">>>> \o p, locations |-> << >>], Two(q)>>,
           Plainly, Conf, Get("/")) :
        p \in {<<<<"listen", w>>>> : w \in {"0", "80", "40000", "65535", "65616", "16777296"}}
                               \cup {<< >>, <<<<"listen", "8080">>, <<"listen", "80">>>>},
        q \in {<<<<"listen", w>>>> : w \in {"80", "8080", "40000"}} \cup {<< >>}}

Redirects == {<< >>} \cup {<<<<"redirect", w>>>> : w \in {"/", "/a", "/b/", "/a/b"}}

ByRedirect ==
    LET site(r, s, t, args) ==
            Input(<<<<"allowed_methods", "GET">>>>,
                  <<One(<<<<"allowed_methods", "GET">>>>,
                        <<Location("/", r), Location("a", s), Location("/b/", t)>>)>>,
                  Plainly, args, Get("/b/x"))
        page == <<<<"error_page", "301", "/moved.html">>>>
    IN {site(r, s, t, Conf) : r \in Redirects, s \in Redirects, t \in Redirects \cup {page}}
       \cup {site(<< >>, s, t, Strict) : s \in Redirects, t \in Redirects}

\* The first is cut twice, the second once.
Headers ==
    {<<<<"PUT", "/a", "HTTP/1.1">>, <<"content-length:", "600">>, <<"host:", "other">>>>,
     <<<<"GET", "/a", "HTTP/1.1">>, <<"host:", "example.org">>, <<"cookie:", "one=1">>,
       <<"cookie:", "two=2">>, <<"host:", "other">>>>}

Oddities ==
    LET get == <<"GET", "/a", "HTTP/1.1">> IN
    {<<get, <<"host:", "example.org", "SP">>>>, <<get, <<"host:">>>>, <<get, <<"host:", "SP">>>>,
     <<get, <<"nocolon">>>>, <<<<"GET", "/a">>>>, <<<<"GET", "/a", "HTTP/1.0">>>>,
     <<<<"PATCH", "/a", "HTTP/1.1">>>>, <<<<"QUERY", "/a", "HTTP/1.1">>>>,
     <<<<"GET", "/~x", "HTTP/1.1">>>>, <<<<"OPTIONS", "/a", "HTTP/1.1">>>>,
     <<<<"OPTIONS", "/a", "HTTP/1.1">>, <<"origin:", "example.org">>>>,
     <<<<"DELETE", "/a", "HTTP/1.1">>>>, <<<<"POST", "/a", "HTTP/1.1">>>>,
     <<get, <<"transfer-encoding:", "gzip">>>>,
     <<<<"PUT", "/a", "HTTP/1.1">>, <<"transfer-encoding:", "chunked">>>>}

Served(ls, sent) ==
    Input(Methods, <<One(<<<<"client_max_body_size", "500by">>>> \o ls, <<Location("/", << >>)>>)>>,
          Plainly, Conf, sent)


ByHeader ==
    UNION {{Served(<< >>, Sent(h, <<"body-1", "body-2">>, cuts)) :
                cuts \in {c \in SUBSET (1..Len(HeaderText(h)) + 1) : Cardinality(c) <= IF Len(h) < 4 THEN 2 ELSE 1}} : h \in Headers}
    \cup {Served(ls, Sent(h, << >>, {})) :
            h \in Headers \cup Oddities, ls \in {<< >>, <<<<"client_max_uri_size", "4">>>>}}

ByCommandLine ==
    {Input(Methods, <<One(<<<<"allowed_methods", "GET">>>> \o ls, << >>)>>, Plainly, args, Get("/")) :
        ls \in {<< >>, <<<<"cgi_bin", ".py", "/bin/python">>>>, <<<<"allowed_methods", "GET", "TRACE">>>>,
                <<<<"server_name", "one">>>>},
        args \in {<< >>, Conf, Strict, <<"--help">>, <<"--reset-logs">>, <<"site.conf", "--reset-logs", "--register-logs">>,
                  <<"site.conf", "--activate-strict_mode", "--deactivate-strict_mode">>,
                  <<"site.conf", "-m", "kqueue">>, <<"site.conf", "--help">>,
                  <<"--reset-logs", "--register-logs">>}}
    \cup {[Input(Methods, <<One(<< >>, << >>)>>, Plainly, args, Get("/")) EXCEPT !.memory = TRUE] :
            args \in {Conf, <<"site.conf", "--register-logs">>}}
    \cup {Input(Methods, <<One(<<<<t, v>>>>, << >>)>>, Plainly, Strict, Get("/")) :
            t \in {"client_max_request_timeout", "keep_alive_max_timeout"}, v \in {"20s", "2m"}}
    \cup {Input(Methods, <<One(<<<<"allowed_methods", "GET">>>>, << >>),
                           Two(<<<<"allowed_methods", "GET">>, <<"server_name", n>>>>)>>, Plainly, Strict, Get("/")) :
            n \in {"one", "two"}}

\* Lines that are refused, or are found wanting when they are carried out.
Wanting ==
    {<<"autoindex", "on">>, <<"root">>, <<"root", "/a", "/b/">>, <<"support_cookies", "yes">>,
     <<"multiplexer", "poll">>, <<"multiplexer", "epoll">>, <<"allowed_methods", "*">>,
     <<"allowed_methods", "MOVE">>, <<"cgi_bin", ".py">>, <<"directory_listing">>,
     <<"client_max_body_size", "10">>, <<"keep_alive_max_timeout", "600">>,
     <<"client_max_connections", "0">>, <<"client_max_connections", "65616">>,
     <<"client_max_uri_size", "many">>, <<"error_page", "600", "x.html">>, <<"listen", "many">>}

OfFile ==
    LET refused(l) == {Odd(Text(<<l>>, <<One(<< >>, << >>)>>, Plainly), <<l>>, <<One(<< >>, << >>)>>, Get("/")),
                       Odd(Text(Methods, <<One(<<l>>, << >>)>>, Plainly), Methods, <<One(<<l>>, << >>)>>, Get("/")),
                       Odd(Text(Methods, <<One(<< >>, <<Location("/", <<l>>)>>)>>, Plainly), Methods,
                           <<One(<< >>, <<Location("/", <<l>>)>>)>>, Get("/"))}
        texts == {<< >>, <<<<"http", "{">>, <<"}">>>>, <<<<"}">>, <<"http">>, <<"{">>>>,
                  <<<<"sites", "{">>, <<"listen", "80">>, <<"}">>>>,
                  <<<<"http">>, <<"listen", "80">>, <<"server", "{">>, <<"}">>>>,
                  <<<<"http", "{">>, <<"server", "{">>, <<"location", "/a", "{">>, <<"}">>, <<"}">>, <<"}">>>>,
                  <<<<"http", "{">>, <<"virtual", "{">>, <<"listen", "80">>, <<"}">>, <<"}">>>>,
                  <<<<"http", "{">>, <<"server", "{", "listen", "80", "}">>, <<"}">>>>,
                  <<<<"http", "{">>, <<"server", "{">>, <<"listen", "80">>,
                    <<"location", "/a", "{", "root", "/b/", "}">>, <<"}">>, <<"}">>>>,
                  <<<<"http", "{">>, <<"server", "{">>, <<"listen", "80">>, <<"}">>, <<"root", "/a">>>>}
    IN UNION {refused(l) : l \in Wanting}
       \cup {Odd(t, << >>, << >>, Get("/")) : t \in texts}

\* Two requests on one connection, the first of which asks to keep it.
First ==
    LET kept(line, b) == Request(<<line, <<"connection:", "keep-alive">>, <<"origin:", "example.org">>>>, b)
    IN {kept(<<m, "/a", "HTTP/1.1">>, << >>) : m \in {"GET", "DELETE", "OPTIONS", "PUT"}}
       \cup {kept(<<"PUT", "/a", "HTTP/1.1">>, b) : b \in {CRLF, <<"body-1">> \o CRLF}}

ByKept ==
    {LET requests == <<q, Request(<<<<"GET", "/b/x", "HTTP/1.1">>, <<"host:", "other">>>>, << >>)>>
     IN Input(Methods, <<One(<<<<"allowed_methods", "GET", "DELETE">>>> \o ls, << >>)>>, Plainly, Conf,
              SentAll(requests, {c + Len(HeaderText(q.header)) : c \in cuts})) :
        q \in First, ls \in {<< >>, <<<<"error_page", "405", "x.html">>>>},
        cuts \in {{}, {0}, {2}, {0, 3}, {0, 5}, {0, 7}}}

MCInputs ==
    ByLayout \cup ByBlock \cup ByKept \cup ByPort \cup ByRedirect \cup ByHeader \cup ByCommandLine \cup OfFile
MCNested == ByBlock
=============================================================================
