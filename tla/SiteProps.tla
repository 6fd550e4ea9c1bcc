----------------------------- MODULE SiteProps ------------------------------
(***************************************************************************)
(* What the operator and the client may expect of Site. An input also says *)
(* what its author meant: http, the directives of the http block; sites,   *)
(* for every server its directives (words) and its locations (name and     *)
(* lines); plain, whether the file is laid out in a way that the scanner   *)
(* can read, and places, how much of all this stands in front of each of   *)
(* its lines; requests, what is sent on the connection, each with its header *)
(* and its body, the segment in which it starts (first), and how many lines *)
(* of its header have been sent with each of its segments (upto); whether  *)
(* a segment ends inside a line of a header (torn); and whether the next   *)
(* request starts with a segment of its own, right behind the header of    *)
(* the one before (apart).                                                 *)
(***************************************************************************)
EXTENDS Site

Directives == Seq(Seq(STRING) \ {<< >>})

\* plain: no location stands in another.
ASSUME MeantAssumption ==
    \A inp \in Inputs :
        /\ inp.http \in Directives
        /\ inp.sites \in Seq([words : Directives,
                               locations : Seq([name : STRING, lines : Directives])])
        /\ inp.plain => \A k \in DOMAIN inp.sites : \A n \in DOMAIN inp.sites[k].locations :
              \A l \in ToSet(inp.sites[k].locations[n].lines) : l[1] # "location"

CRLF == <<"CR", "LF">>
LinesText(ls) == FlattenSeq([n \in DOMAIN ls |-> ls[n] \o CRLF])

HeaderLine == Seq(STRING \ {"CR", "LF"}) \ {<< >>}

\* How many lines of r's header have been sent with g segments, and those
\* that the g-th holds.
Upto(r, g) == IF g = 0 THEN 0 ELSE r.upto[g]
Share(r, g) == SubSeq(r.header, Upto(r, g - 1) + 1, Upto(r, g))

\* Every segment of a request holds whole lines of its header, the last also
\* the empty line and the start of the body. One request starts where the
\* header of the one before ends.
InWholeLines(inp) ==
    \A n \in DOMAIN inp.requests :
        LET r == inp.requests[n]
            m == Len(r.upto)
        IN /\ \A g \in 1..m : Upto(r, g - 1) <= Upto(r, g) /\ Upto(r, g) <= Len(r.header)
           /\ \A g \in 1..m - 1 : inp.segments[r.first + g - 1] = LinesText(Share(r, g))
           /\ \E k \in 0..Len(r.body) :
                 inp.segments[r.first + m - 1] = LinesText(Share(r, m)) \o CRLF \o SubSeq(r.body, 1, k)
           /\ r.upto[m] = Len(r.header) /\ r.first + m - 1 <= Len(inp.segments)
           /\ r.first = IF n = 1 THEN 1
                        ELSE inp.requests[n - 1].first + Len(inp.requests[n - 1].upto)

ASSUME SentAssumption ==
    \A inp \in Inputs :
        /\ inp.requests \in Seq([header : Seq(HeaderLine) \ {<< >>}, body : Seq(STRING),
                                  first : Nat \ {0}, upto : Seq(Nat) \ {<< >>}])
        /\ ~inp.torn /\ inp.apart => InWholeLines(inp)

\* A PORT that is bound.
BoundPort == -32768..32767 \ {UNDEFINED}

TypeOK ==
    /\ phase \in Phases
    /\ cli \in [strict : BOOLEAN, logs : BOOLEAN, help : BOOLEAN, reset_logs : BOOLEAN]
    /\ at \in Loops \cup Ends /\ i \in Nat \ {0} /\ j \in Nat \ {0}
    /\ DOMAIN http = DOMAIN HttpDefaults /\ is_warning_set \in BOOLEAN
    /\ \A k \in DOMAIN servers :
          /\ servers[k].conf.listen \in BoundPort
          /\ servers[k].warned \in BOOLEAN
    /\ reader \in {"idle", "reading", "parsing", "parsed", "exits", "spins", "undefined", "closed"}
    /\ nth \in 1..Len(input.segments) + 1 /\ hops \in 0..MaxHops

-----------------------------------------------------------------------------
(* The file *)

\* The last line for a token; 0 if there is none.
LastFor(token, ls) == SelectLastInSeq(ls, LAMBDA l : l[1] = token)

NodeOf(s) ==
    [id |-> "server", words |-> s.words,
     location_blocks |-> FlattenSeq([n \in DOMAIN s.locations |->
        <<<<"location", s.locations[n].name>>>> \o s.locations[n].lines])]

\* How a file is laid out, line by line, without remarks and empty lines. A
\* place is what an author has written in front of a line: how many brackets
\* are open, whether that of a block that is named is still to come (head),
\* how much of the http block, how many servers, and how much of the last one.
Place(inp) ==
    [depth : 0..3, head : BOOLEAN, http : 0..Len(inp.http), sites : 0..Len(inp.sites),
     words : Nat, blocks : Nat]

FirstPlace == [depth |-> 0, head |-> FALSE, http |-> 0, sites |-> 0, words |-> 0, blocks |-> 0]

Closing(n) == [x \in 1..n |-> "}"]

\* Brackets that close p's blocks down to q's are behind blocks that are complete.
Closes(inp, p, q) ==
    /\ q = [p EXCEPT !.depth = q.depth] /\ q.depth <= p.depth
    /\ q.depth < 2 /\ p.depth >= 2 =>
          LET s == NodeOf(inp.sites[p.sites])
          IN p.words = Len(s.words) /\ p.blocks = Len(s.location_blocks)
    /\ q.depth = 0 => p.http = Len(inp.http) /\ p.sites = Len(inp.sites)

\* A line that names a block, with its bracket or without; p is behind the name.
Opens(head, p, q, line) ==
    \/ line = head /\ q = [p EXCEPT !.head = TRUE]
    \/ line = Append(head, "{") /\ q = [p EXCEPT !.depth = @ + 1]

\* A line that leads from place p to place q.
LineBetween(inp, p, q, line) ==
    LET s == NodeOf(inp.sites[p.sites])
        closing == Closing(p.depth - q.depth)
        block == s.location_blocks[p.blocks + 1]
        behind_block == [p EXCEPT !.blocks = @ + 1]
    IN
    \/ p.head /\ line = <<"{">> /\ q = [p EXCEPT !.depth = @ + 1, !.head = FALSE]
    \/ /\ ~p.head
       /\ \/ p = FirstPlace /\ Opens(<<"http">>, p, q, line)
          \/ /\ p.depth = 1 /\ p.http < Len(inp.http)
             /\ line = inp.http[p.http + 1] /\ q = [p EXCEPT !.http = @ + 1]
          \/ p.depth = 1 /\ Opens(<<"server">>, [p EXCEPT !.sites = @ + 1, !.words = 0, !.blocks = 0], q, line)
          \/ /\ p.depth = 2 /\ p.words < Len(s.words)
             /\ line = s.words[p.words + 1] \o closing /\ Closes(inp, [p EXCEPT !.words = @ + 1], q)
          \/ /\ p.depth = 2 /\ p.blocks < Len(s.location_blocks) /\ block[1] = "location"
             /\ Opens(block, behind_block, q, line)
          \/ /\ p.depth = 3 /\ p.blocks < Len(s.location_blocks) /\ block[1] # "location"
             /\ line = block \o closing /\ Closes(inp, behind_block, q)
          \/ q.depth < p.depth /\ line = closing /\ Closes(inp, p, q)

\* No word is a bracket, and no server's directive holds the word "location".
InPlainWords(inp) ==
    /\ \A l \in ToSet(inp.http) : ToSet(l) \cap {"{", "}"} = {}
    /\ inp.sites # << >>
    /\ \A s \in ToSet(inp.sites) :
          /\ s.words # << >>
          /\ \A l \in ToSet(s.words) : ToSet(l) \cap {"{", "}", "location"} = {}
          /\ \A n \in DOMAIN s.locations :
                /\ s.locations[n].name \notin {"{", "}"}
                /\ \A l \in ToSet(s.locations[n].lines) : ToSet(l) \cap {"{", "}"} = {}

LaidOut(inp) ==
    LET text == ExtractWords(inp.lines)
        p == inp.places
    IN /\ p \in Seq(Place(inp)) /\ Len(p) = Len(text) + 1 /\ p[1] = FirstPlace
       /\ p[Len(p)].depth = 0 /\ p[Len(p)].sites = Len(inp.sites)
       /\ \A r \in DOMAIN text : LineBetween(inp, p[r], p[r + 1], text[r])

ASSUME PlainAssumption ==
    \A inp \in Inputs : inp.plain => InPlainWords(inp) /\ LaidOut(inp)

\* Wherever the brackets, comments and empty lines are, and whether the
\* directives of the http block come first or last, the scanner finds
\* the directives of every block, in their order, and never reads a word that
\* is not there (the loops of parse_words and the functions it calls).
ParsedAsWritten ==
    input.plain /\ at \in Ends =>
        /\ at = "parsed"
        /\ http_as_words = input.http
        /\ nodes = [k \in DOMAIN input.sites |-> NodeOf(input.sites[k])]

\* The port a running server binds is the number its last listen line gives,
\* through is_short_int, the 16 bits of PORT and htons(), and no two servers
\* have the same (ports_set). Numbers beyond an int are left out.
ListensAsWritten ==
    phase = "running" /\ input.plain =>
        /\ \A k \in DOMAIN servers :
              LET ls == input.sites[k].words
                  port == Number(ls[LastFor("listen", ls)][2])
              IN port < IntRange \div 2 => (servers[k].conf.listen + 65536) % 65536 = port
        /\ \A k, n \in DOMAIN servers :
              k # n => servers[k].conf.listen # servers[n].conf.listen

-----------------------------------------------------------------------------
(* Which block decides *)

\* For a location of the first server: its blocks, from the nearest. Of two
\* locations with one name the first is meant, as the program does it.
Blocks(location) ==
    LET s == input.sites[1]
        n == SelectInSeq(s.locations, LAMBDA l : location # {} /\ Names(l.name) = Named(location))
    IN (IF n = 0 THEN << >> ELSE <<s.locations[n].lines>>) \o <<s.words, input.http>>

\* The last line for the token in the nearest block that has one; << >> if
\* there is none.
Nearest(location, Is(_)) ==
    LET bs == Blocks(location)
        b  == SelectInSeq(bs, LAMBDA ls : \E n \in DOMAIN ls : Is(ls[n]))
    IN IF b = 0 THEN << >> ELSE bs[b][SelectLastInSeq(bs[b], Is)]

NearestFor(location, token) == Nearest(location, LAMBDA l : l[1] = token)

NearestPage(location, code) ==
    Nearest(location, LAMBDA l : l[1] = "error_page" /\ Key("error_page", l) = code)

Numeric == {"INT", "DATE", "SIZE"}

\* A line's value is the one in force; a number that had to be lowered is at
\* its limit, and pages for 404 may be followed by the error page. Numbers
\* beyond an int are left out.
InForce(token, l, value) ==
    LET type == IF token \in DOMAIN HttpTokens THEN HttpTokens[token] ELSE ServerTokens[token]
        v    == Value("http", type, l)
    IN CASE type \in Numeric ->
              v < IntRange \div 2 =>
                 value = IF token \in DOMAIN Limits THEN Min({v, Limits[token]}) ELSE v
         [] token = "try_404_files" -> IsPrefix(v, value)
         [] OTHER -> value = v

Decides(location, tokens) ==
    /\ \A t \in tokens :
          LET l == NearestFor(location, t)
          IN l # << >> /\ Tail(l) # <<"*">> => InForce(t, l, Effective(location)[t])
    /\ LET pages == Effective(location).error_page IN
       \A c \in DOMAIN pages :
          LET l == NearestPage(location, c)
          IN l # << >> /\ pages[c] = l[3]

\* The tokens for which the program goes by the nearest block; for listings
\* and roots this holds outside of locations only, for the size of the URI
\* and cookies in the http block only.
ByNearest ==
    {"allowed_methods", "try_index_files", "try_404_files", "client_max_body_size",
     "client_max_request_timeout", "keep_alive_max_timeout", "client_max_connections"}

\* The settings a request is answered by are those of the location that has
\* the longest prefix of its path, then those of the server, then those of
\* the http block, through two copies of the defaults, the conversion to int
\* and the lowering to the limits.
NearestBlockDecides ==
    response.status # "none" /\ input.plain =>
        /\ \A p \in response.location :
              \A n \in DOMAIN input.sites[1].locations :
                 LET q == Names(input.sites[1].locations[n].name)
                 IN q \in SlashPrefixes(request.path) => Len(q) <= Len(p)
        /\ response.location = {} =>
              \A n \in DOMAIN input.sites[1].locations :
                 Names(input.sites[1].locations[n].name) \notin SlashPrefixes(request.path)
        /\ Decides(response.location,
                   ByNearest \cup IF response.location = {} THEN {"root"} ELSE {})

Documented == ByNearest \cup
    {"root", "directory_listing", "client_max_uri_size", "support_cookies",
     "cgi_max_request_timeout"}

\* src/README.md:42: "each location's configurations are prioritized over the
\* server block, and each server block has the priority over the http block,
\* exactly as nginx behaves".
EachBlockPrioritized ==
    response.status # "none" /\ input.plain => Decides(response.location, Documented)

-----------------------------------------------------------------------------
(* Warnings *)

\* Locations every one of which redirects to another of them, or to itself.
Circle(s) ==
    \E c \in SUBSET (DOMAIN s.dir_configs) :
        c # {} /\ \A p \in c : \E q \in c : s.dir_configs[p].redirect = {q}

\* In strict mode a server only runs without anything set_all_warnings looks
\* for: every server has a name of its own, no locations redirect in a circle,
\* TRACE is nowhere allowed.
StrictNeverWarned ==
    phase = "running" /\ "--activate-strict_mode" \in ToSet(Tail(input.args)) =>
        /\ \A k, n \in DOMAIN servers :
              k # n => servers[k].conf.server_name # servers[n].conf.server_name
        /\ \A k \in DOMAIN servers :
              /\ servers[k].conf.server_name # ""
              /\ ~Circle(servers[k])
              /\ ~TraceAllowed(servers[k])

\* Nor does it run with a time-out in its file, of the http block or of a
\* server, that is above its limit and would silently be another. Seconds
\* beyond an int are left out.
StrictWithinLimits ==
    phase = "running" /\ input.plain /\ "--activate-strict_mode" \in ToSet(Tail(input.args)) =>
        \A k \in DOMAIN servers : \A t \in {"keep_alive_max_timeout", "client_max_request_timeout"} :
            LET ls == input.http \o input.sites[k].words
                n  == LastFor(t, ls)
            IN n # 0 /\ Time(ls[n][2]) < IntRange \div 2 => Time(ls[n][2]) <= Limits[t]

\* A client that is sent round and round between locations was warned of
\* when the program started (is_there_a_cycle): it has been redirected more
\* often than there are locations, and every redirection names a location.
EndlessRedirectWarned ==
    /\ phase = "running" /\ response.status = "301"
    /\ hops > Cardinality(DOMAIN This.dir_configs)
    /\ \A p \in DOMAIN This.dir_configs : This.dir_configs[p].redirect \subseteq DOMAIN This.dir_configs
    /\ \A p \in DOMAIN This.dir_configs : 301 \notin DOMAIN This.dir_configs[p].error_page
    => is_warning_set

-----------------------------------------------------------------------------
(* The header *)

FirstWith(name, fields) ==
    Field(fields[SelectInSeq(fields, LAMBDA l : Name(l) = name)])

\* However a header is cut into segments, unless one of its lines is: the
\* lines are those that were sent, for the first request and for the next one
\* on a connection that was kept, what follows the empty line is the start
\* of the body, and of a field sent twice the first counts (read_header keeps
\* nothing of a line between two calls, insert() never replaces, reset() and
\* the end of a header leave nothing behind). Requests that share a segment,
\* and what is read behind a body, which is never read when it was refused,
\* are left out: there it does not hold.
HeaderAsSent ==
    /\ ~input.torn /\ input.apart /\ nth \in DOMAIN input.requests
    /\ hops = 0 /\ reader \in {"parsing", "parsed"}
    =>  LET sent == input.requests[nth] IN
        /\ lines = sent.header
        /\ IsPrefix(body, sent.body)
        /\ reader = "parsed" =>
              \A name \in DOMAIN request.request_map :
                 request.request_map[name] = FirstWith(name, Tail(sent.header))

WellSent ==
    /\ ~input.torn /\ input.apart
    /\ \A n \in DOMAIN input.requests :
          /\ ~(Len(WordsOf(input.requests[n].header[1])) < 3)
          /\ \A l \in ToSet(Tail(input.requests[n].header)) : WordsOf(l) # << >> => ~TrimSpins(l)

\* No request ends the program or keeps it from serving others, but one whose
\* first line has less than three words (parse_first_line), one that has a
\* blank at the end of a line (trim_string), and one with a line that two
\* segments share (read_header); on a kept connection also the body of one
\* that was refused, which is read as a header.
RequestsSurvived ==
    /\ nth \in DOMAIN input.requests
    /\ phase = "out_of_range" \/ reader \in {"spins", "undefined"}
    => ~WellSent

\* Whatever the file and the command line, reading them comes to an end: the
\* program says why it does not serve, or serves and answers the requests of a
\* connection, up to the one after which it is closed, but for those above,
\* unless it sends the client on for ever.
AnsweredInTheEnd ==
    <>(\/ phase \in Ended
       \/ /\ phase = "running"
          /\ WellSent => \/ reader = "closed" \/ nth > Len(input.requests)
                         \/ response.status = "301" /\ hops = MaxHops)
=============================================================================
