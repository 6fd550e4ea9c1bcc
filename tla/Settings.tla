------------------------------ MODULE Settings ------------------------------
(***************************************************************************)
(* What the directives found by the scanner mean: the token tables and the *)
(* checks of ConfigFileParser (is_http_line_valid and its two siblings),   *)
(* the conversions of values, and the filling of the http, server and      *)
(* location settings, each level starting from the one above it.           *)
(*                                                                         *)
(* A directive is the sequence of its words. What a word spells is given   *)
(* by constants: the number its leading digits form and what follows them, *)
(* or the names between the slashes of a path.                             *)
(***************************************************************************)
EXTENDS Integers, SequencesExt

CONSTANTS
    Digits,     \* [words that begin with digits -> the number these form]
    Suffix,     \* [the same words -> what follows, in lower case]
    Segments,   \* [words used as paths -> the names between their slashes]
    IntRange    \* the size of int, 2^32 in the program

ASSUME SettingsAssumption ==
    /\ DOMAIN Digits = DOMAIN Suffix
    /\ \A w \in DOMAIN Digits : Digits[w] \in Nat
    /\ \A w \in DOMAIN Segments : Segments[w] \in Seq(STRING)
    /\ IntRange \in Nat /\ IntRange > 0

UNDEFINED == -1

\* A word that is not in the table is a name by itself.
Names(w) == IF w \in DOMAIN Segments THEN Segments[w] ELSE <<w>>

-----------------------------------------------------------------------------
(* Tokens and their types *)

\* location_tokens also has "location", like server_tokens.
HttpTokens ==
    [directory_listing |-> "ON_OFF", root |-> "DIRECTORY",
     allowed_methods |-> "METHOD_VECTOR", client_max_connections |-> "INT",
     client_max_body_size |-> "SIZE", client_max_request_timeout |-> "DATE",
     client_max_uri_size |-> "INT", multiplexer |-> "MULTIP",
     support_cookies |-> "ON_OFF", cgi_bin |-> "CGI",
     cgi_max_request_timeout |-> "DATE", keep_alive_max_timeout |-> "DATE",
     proxy_logs_register |-> "ON_OFF"]

ServerTokens ==
    [directory_listing |-> "ON_OFF", root |-> "DIRECTORY",
     allowed_methods |-> "METHOD_VECTOR", client_max_connections |-> "INT",
     client_max_uri_size |-> "INT", client_max_body_size |-> "SIZE",
     support_cookies |-> "ON_OFF", server_name |-> "STRING", listen |-> "SHORT_INT",
     location |-> "DIRECTORY", try_index_files |-> "STRING_VECTOR",
     try_404_files |-> "STRING_VECTOR", cgi_bin |-> "CGI", error_page |-> "ERROR_PAGE",
     client_max_request_timeout |-> "DATE", cgi_max_request_timeout |-> "DATE",
     keep_alive_max_timeout |-> "DATE"]

LocationTokens ==
    [root |-> "DIRECTORY", allowed_methods |-> "METHOD_VECTOR",
     try_index_files |-> "STRING_VECTOR", try_404_files |-> "STRING_VECTOR",
     redirect |-> "STRING", directory_listing |-> "ON_OFF",
     error_page |-> "ERROR_PAGE", support_cookies |-> "ON_OFF", location |-> "DIRECTORY"]

\* The types whose directives must have exactly one word after the token;
\* in the http block CGI is not counted, in a server block ON_OFF is not.
Singles ==
    [http     |-> {"DIRECTORY", "MULTIP", "INT", "ON_OFF", "DATE", "SIZE"},
     server   |-> {"STRING", "INT", "SHORT_INT", "DIRECTORY", "SIZE", "DATE"},
     location |-> {"STRING", "DIRECTORY", "ON_OFF"}]

Tokens == [http |-> HttpTokens, server |-> ServerTokens, location |-> LocationTokens]

-----------------------------------------------------------------------------
(* TokensChecker, and the conversions of the C library *)

Number(w) == IF w \in DOMAIN Digits THEN Digits[w] ELSE 0
After(w)  == IF w \in DOMAIN Suffix THEN Suffix[w] ELSE w
AsInt(n)  == ((n + IntRange \div 2) % IntRange) - IntRange \div 2
AsShort(n) == ((n + 32768) % 65536) - 32768

\* As the program tells them, TRACE can be allowed though it is not served.
AllMethods == <<"GET", "POST", "DELETE", "HEAD", "PUT", "OPTIONS", "TRACE", "HEAD">>
IsMethod(w) == w \in ToSet(AllMethods)

IsInt(w)      == w \in DOMAIN Digits /\ Suffix[w] = ""
\* mutant: a number is not compared with MAX_SHORT_INT.
IsShortIntAny(w) == IsInt(w)

IsShortInt(w) == IsInt(w) /\ AsInt(Number(w)) < 65536
IsCode(w)     == AsInt(Number(w)) \in 1..514
IsDate(w)     == After(w) \in {"d", "m", "s", "h"}
IsSize(w)     == After(w) \in {"kb", "mb", "gb", "by"}

Time(w) == Number(w) * (CASE After(w) = "d" -> 86400 [] After(w) = "h" -> 3600
                          [] After(w) = "m" -> 60 [] OTHER -> 1)
Size(w) == Number(w) * (CASE After(w) = "gb" -> 1000000000 [] After(w) = "mb" -> 1000000
                          [] After(w) = "kb" -> 1000 [] OTHER -> 1)

-----------------------------------------------------------------------------
(* Validity: "valid", "invalid", or "undefined" where a word is read that  *)
(* the line does not have.                                                 *)

CountFits(block, type, n) ==
    /\ type \in Singles[block] => n = 2
    /\ type \in {"METHOD_VECTOR", "STRING_VECTOR"} => n >= 2
    /\ block # "http" /\ type \in {"CGI", "ERROR_PAGE"} => n = 3

\* The last word that is read when the values are checked.
WordsRead(type, n) ==
    CASE type = "CGI" -> 3
      [] type \in {"STRING", "STRING_VECTOR"} -> 1
      [] OTHER -> 2

ValueFits(block, type, l) ==
    CASE type = "SHORT_INT" -> IsShortInt(l[2])
      [] type = "INT"       -> IsInt(l[2])
      [] type = "ON_OFF"    -> l[2] \in {"on", "off"}
      [] type = "CGI"       -> l[2] \in {".py", ".php", ".pl"}
      [] type = "MULTIP"    -> l[2] \in {"poll", "kqueue", "select"}
      [] type = "DATE"      -> IsDate(l[2])
      [] type = "SIZE"      -> IsSize(l[2])
      [] type = "ERROR_PAGE" -> IsCode(l[2])
      [] type = "METHOD_VECTOR" ->
            \/ block # "http" /\ Len(l) = 2 /\ l[2] = "*"
            \/ \A n \in 2..Len(l) : IsMethod(l[n])
      [] OTHER -> TRUE

LineVerdict(block, l) ==
    IF l[1] \notin DOMAIN Tokens[block] THEN "invalid"
    ELSE LET type == Tokens[block][l[1]] IN
         CASE ~CountFits(block, type, Len(l))   -> "invalid"
           [] Len(l) < WordsRead(type, Len(l)) -> "undefined"
           [] OTHER -> IF ValueFits(block, type, l) THEN "valid" ELSE "invalid"

BlockVerdict(block, ls) ==
    LET bad == {n \in DOMAIN ls : LineVerdict(block, ls[n]) # "valid"}
    IN IF bad = {} THEN "valid" ELSE LineVerdict(block, ls[Min(bad)])

\* is_http_valid() && is_servers_valid(): the first line that is not valid
\* decides.
ServerVerdict(server) ==
    LET of_words == BlockVerdict("server", server.words)
    IN IF of_words # "valid" THEN of_words ELSE BlockVerdict("location", server.location_blocks)

FileVerdict(http_lines, servers) ==
    LET of_http == BlockVerdict("http", http_lines)
        verdict == [k \in DOMAIN servers |-> ServerVerdict(servers[k])]
        bad     == {k \in DOMAIN servers : verdict[k] # "valid"}
    IN CASE of_http # "valid" -> of_http
         [] of_http = "valid" /\ bad # {} -> verdict[Min(bad)]
         [] OTHER -> "valid"

-----------------------------------------------------------------------------
(* Filling. A block's settings are a record with one field for every token *)
(* its filling function looks at; the type says how the words are read. A  *)
(* root is a set of at most one path: {} is the empty string.              *)

HttpDefaults ==
    [root |-> {}, allowed_methods |-> AllMethods, client_max_body_size |-> 1000000,
     client_max_uri_size |-> 2048, client_max_request_timeout |-> 45,
     cgi_max_request_timeout |-> 1000000, multiplexer |-> "kqueue",
     support_cookies |-> TRUE, keep_alive_max_timeout |-> 65,
     client_max_connections |-> 10000, proxy_logs_register |-> FALSE]

\* The http block keeps long long, a server int.
Stored(block, n) == IF block = "http" THEN n ELSE AsInt(n)

\* get_vector_of_data: the words after the token, without repetitions.
VectorOfData(l) ==
    FlattenSeq([n \in 1..Len(l) - 1 |->
        IF \E m \in 2..n : l[m] = l[n + 1] THEN << >> ELSE <<l[n + 1]>>])

Value(block, type, l) ==
    CASE type = "SHORT_INT" -> AsShort(Number(l[2]))
      [] type = "INT"       -> Stored(block, Number(l[2]))
      [] type = "ON_OFF"    -> l[2] = "on"
      [] type = "DATE"      -> Stored(block, Time(l[2]))
      [] type = "SIZE"      -> Stored(block, Size(l[2]))
      [] type = "DIRECTORY" -> {Names(l[2])}
      [] type \in {"METHOD_VECTOR", "STRING_VECTOR"} -> VectorOfData(l)
      [] OTHER -> l[2]

\* What a block's lines leave of the settings s it started from: the last
\* line for a token counts, error pages and CGI programs are collected by
\* code and extension. above holds what "allowed_methods *" returns to.
Key(f, l) == IF f = "error_page" THEN AsInt(Number(l[2])) ELSE l[2]

Added(f, lines, pages) ==
    LET set == {Key(f, lines[n]) : n \in {m \in DOMAIN lines : lines[m][1] = f}}
        last(c) == SelectLastInSeq(lines, LAMBDA l : l[1] = f /\ Key(f, l) = c)
    IN [c \in set \cup DOMAIN pages |-> IF c \in set THEN lines[last(c)][3] ELSE pages[c]]

FillBlock(block, above, s, lines) ==
    [f \in DOMAIN s |->
        LET n == SelectLastInSeq(lines, LAMBDA l : l[1] = f) IN
        IF n = 0 THEN s[f]
        ELSE CASE f \in {"error_page", "cgi_bin"} -> Added(f, lines, s[f])
               [] f = "allowed_methods" /\ Tail(lines[n]) = <<"*">> -> above[f]
               [] f = "redirect" -> {Names(lines[n][2])}
               [] OTHER -> Value(block, Tokens[block][f], lines[n])]

FillHttp(lines) == FillBlock("http", HttpDefaults, HttpDefaults, lines)

\* A page for 404 comes after those of try_404_files.
With404Page(s) ==
    IF 404 \in DOMAIN s.error_page
    THEN [s EXCEPT !.try_404_files = Append(@, s.error_page[404])] ELSE s

-----------------------------------------------------------------------------
(* fill_server_attributes of server k (from 1)                             *)

NoPages == [c \in {} |-> ""]

\* directory_listing is not initialised: it is what the memory held.
ServerDefaults(http, memory) ==
    [root |-> http.root, allowed_methods |-> http.allowed_methods,
     client_max_body_size |-> AsInt(http.client_max_body_size),
     client_max_uri_size |-> AsInt(http.client_max_uri_size),
     client_max_request_timeout |-> AsInt(http.client_max_request_timeout),
     cgi_max_request_timeout |-> AsInt(http.cgi_max_request_timeout),
     keep_alive_max_timeout |-> AsInt(http.keep_alive_max_timeout),
     client_max_connections |-> AsInt(http.client_max_connections),
     cookies |-> http.support_cookies, listen |-> UNDEFINED, server_name |-> "",
     try_index_files |-> << >>, try_404_files |-> << >>,
     error_page |-> NoPages, cgi_bin |-> NoPages, directory_listing |-> memory]

\* nodes[i].words[i][1]: the line of the directive is looked for in the row
\* of the server's number.
UriLine(k, node) == node.words[k]

ServerLines(k, node) ==
    [n \in DOMAIN node.words |->
        IF node.words[n][1] = "client_max_uri_size"
        THEN <<"client_max_uri_size", UriLine(k, node)[2]>> ELSE node.words[n]]

FillServer(k, node, http, memory) ==
    LET s == ServerDefaults(http, memory)
    IN With404Page(FillBlock("server", s, s, ServerLines(k, node)))

Ports(node) ==
    {AsShort(Number(node.words[n][2])) : n \in {m \in DOMAIN node.words : node.words[m][1] = "listen"}}

\* attr.port: that of the last line that is not refused.
Port(node) ==
    LET n == SelectLastInSeq(node.words, LAMBDA l : l[1] = "listen")
    IN IF n = 0 THEN UNDEFINED ELSE AsShort(Number(node.words[n][2]))

\* Why filling stops in line n: an exception, a value that is thrown and is
\* no std::exception, or a line that is not there.
LineStops(k, node, n, ports_set) ==
    LET l == node.words[n]
        port == AsShort(Number(l[2])) IN
    CASE /\ l[1] = "listen"
         /\ \/ port \in ports_set
            \/ \E m \in 1..n-1 : node.words[m][1] = "listen" /\ AsShort(Number(node.words[m][2])) = port ->
            "PortAlreadyUsed"
      [] l[1] = "client_max_connections" /\ AsInt(Number(l[2])) \notin 1..10000 ->
            "ParsingExceptionMaxConnectionsInterval"
      [] l[1] = "client_max_uri_size" /\ k > Len(node.words) -> "undefined"
      [] OTHER -> "no"

\* mutant: a server need not listen.
ServerStopsNoPort(k, node, ports_set) ==
    LET bad == {n \in DOMAIN node.words : LineStops(k, node, n, ports_set) # "no"} IN
    CASE node.id # "server" /\ node.words # << >> -> "InvalidHttpToken"
      [] node.id = "server" /\ bad # {} -> LineStops(k, node, Min(bad), ports_set)
      [] OTHER -> "no"

ServerStops(k, node, ports_set) ==
    LET bad == {n \in DOMAIN node.words : LineStops(k, node, n, ports_set) # "no"} IN
    CASE node.id # "server" /\ node.words # << >> -> "InvalidHttpToken"
      [] node.id = "server" /\ bad # {} -> LineStops(k, node, Min(bad), ports_set)
      [] OTHER -> IF Port(node) = UNDEFINED THEN "UndefinedPort" ELSE "no"

-----------------------------------------------------------------------------
(* handle_locations: the settings of every location, under its name. Of    *)
(* two definitions with one name the first is kept.                        *)

\* mutant: the defaults of a location are those of an empty server.
LocationDefaultsEmpty(s_conf) ==
    [allowed_methods |-> AllMethods, try_index_files |-> << >>,
     try_404_files |-> << >>, error_page |-> NoPages,
     support_cookies |-> TRUE, directory_listing |-> FALSE,
     root |-> {}, redirect |-> {}]

LocationDefaults(s_conf) ==
    [allowed_methods |-> s_conf.allowed_methods, try_index_files |-> s_conf.try_index_files,
     try_404_files |-> s_conf.try_404_files, error_page |-> s_conf.error_page,
     support_cookies |-> s_conf.cookies, directory_listing |-> s_conf.directory_listing,
     root |-> {}, redirect |-> {}]

FillLocation(s_conf, lines) ==
    With404Page(FillBlock("location", s_conf, LocationDefaults(s_conf), lines))

HandleLocations(s_conf, blocks) ==
    LET starts   == {n \in DOMAIN blocks : blocks[n][1] = "location"}
        name(n)  == Names(blocks[n][2])
        first(p) == Min({n \in starts : name(n) = p})
        lines(n) == SubSeq(blocks, n + 1,
                           Min({m \in starts : m > n} \cup {Len(blocks) + 1}) - 1)
    IN [p \in {name(n) : n \in starts} |-> FillLocation(s_conf, lines(first(p)))]
=============================================================================
