-------------------------------- MODULE Site --------------------------------
(***************************************************************************)
(* The program from its command line to the site it serves: main() and     *)
(* Webserver::run, with the scanner (ConfigParser), the meaning of the     *)
(* directives (Settings), and then requests: their header (HeaderReader),  *)
(* the settings that are looked up for them, the answers that depend on    *)
(* these alone, whether the connection is kept for the next one, and a     *)
(* client that follows the redirections it is given.                       *)
(*                                                                         *)
(* What is chosen at the start: the file, the command line, what is sent,  *)
(* and what the program finds in memory that it has not initialised.       *)
(***************************************************************************)
EXTENDS ConfigParser, Settings, HeaderReader

CONSTANTS
    Inputs,    \* records: lines (of the file), args, segments, memory
    MaxHops    \* redirections that the client follows

ASSUME SiteAssumption ==
    /\ \A inp \in Inputs :
          /\ inp.lines \in Seq(Seq(STRING)) /\ inp.args \in Seq(STRING)
          /\ inp.segments \in Seq(Seq(STRING)) /\ inp.memory \in BOOLEAN
    /\ MaxHops \in Nat

VARIABLES
    input,     \* an element of Inputs
    phase,     \* how far main() has come, or why it has ended
    cli,       \* t_cli; strict and what else is read of it
    http,      \* t_http_configs
    servers,   \* of Webserver: settings with their locations, in order
    is_warning_set,
    response,  \* what architect_response has looked up and decided
    nth,       \* which request of the connection
    hops       \* redirections followed so far
site_vars == <<input, phase, cli, http, servers, is_warning_set, response, nth, hops>>
vars == <<site_vars, scan_vars, header_vars>>

Ended == {"usage", "help", "structure", "logs reset", "invalid", "undefined",
          "PortAlreadyUsed", "ParsingExceptionMaxConnectionsInterval",
          "InvalidHttpToken", "UndefinedPort", "strict mode",
          "unsupported multiplexer", "out_of_range"}
Phases == {"cli", "structure check", "open", "scan", "check", "http", "servers",
           "warnings", "start", "running"} \cup Ended

NoResponse == [status |-> "none", location |-> {}, rootfilepath |-> << >>,
               redirect_to |-> NoPath]

Init ==
    /\ input \in Inputs
    /\ phase = "cli" /\ servers = << >> /\ is_warning_set = FALSE
    /\ cli = [strict |-> FALSE, logs |-> FALSE, help |-> FALSE, reset_logs |-> input.memory]
    /\ http = HttpDefaults /\ response = NoResponse /\ nth = 1 /\ hops = 0
    /\ ScanInit /\ HeaderInit

-----------------------------------------------------------------------------
(* main() *)

CliTokens == {"--activate-strict_mode", "--deactivate-strict_mode",
              "--activate-debugging_mode", "--deactivate-debugging_mode",
              "--register-logs", "--reset-logs", "--help"}

\* parse_and_get_cli. The first argument is the file, and may be one of two
\* options. "--deactivate-strict_mode" changes another member.
ParseAndGetCli ==
    /\ phase = "cli"
    /\ LET options == IF input.args = << >> THEN << >> ELSE Tail(input.args) IN
       IF input.args = << >> \/ ~(ToSet(options) \subseteq CliTokens)
       THEN phase' = "usage" /\ UNCHANGED cli
       ELSE /\ phase' = "structure check"
            /\ cli' = [strict |-> "--activate-strict_mode" \in ToSet(options),
                       logs |-> "--register-logs" \in ToSet(options),
                       help |-> "--help" \in ToSet(input.args),
                       reset_logs |-> cli.reset_logs \/ "--reset-logs" \in ToSet(input.args)]
    /\ UNCHANGED <<input, http, servers, is_warning_set, response, nth, hops,
                   scan_vars, header_vars>>

\* help() and check_is_project_well_structured() exit; without options the
\* program ends after the logs have been reset, or could have been.
CheckStructure ==
    /\ phase = "structure check"
    /\ IF cli.help THEN phase' = "help"
       ELSE \/ phase' = "structure"
            \/ phase' = IF cli.reset_logs /\ Len(input.args) = 1 THEN "logs reset" ELSE "open"
    /\ UNCHANGED <<input, cli, http, servers, is_warning_set, response, nth, hops,
                   scan_vars, header_vars>>

\* An option in the place of the file is opened like one.
OpenFile ==
    /\ phase = "open"
    /\ IF Head(input.args) \in CliTokens
       THEN phase' = "invalid" /\ UNCHANGED scan_vars
       ELSE ReadConfigFile(input.lines) /\ phase' = "scan"
    /\ UNCHANGED <<input, cli, http, servers, is_warning_set, response, nth, hops,
                   header_vars>>

Scan ==
    /\ phase = "scan" /\ ScanNext
    /\ phase' = IF at' \in {"invalid", "undefined"} THEN at'
                ELSE IF at' = "parsed" THEN "check" ELSE "scan"
    /\ UNCHANGED <<input, cli, http, servers, is_warning_set, response, nth, hops,
                   header_vars>>

CheckFile ==
    /\ phase = "check"
    /\ LET verdict == FileVerdict(http_as_words, nodes)
       IN phase' = IF verdict = "valid" THEN "http" ELSE verdict
    /\ UNCHANGED <<input, cli, http, servers, is_warning_set, response, nth, hops,
                   scan_vars, header_vars>>

FillHttpData ==
    /\ phase = "http"
    /\ http' = [FillHttp(http_as_words) EXCEPT !.proxy_logs_register = @ \/ cli.logs]
    /\ phase' = IF nodes = << >> THEN "invalid" ELSE "servers"
    /\ UNCHANGED <<input, cli, servers, is_warning_set, response, nth, hops,
                   scan_vars, header_vars>>

\* The ports that earlier servers have taken, all their listen lines counted.
PortsSet == UNION {Ports(nodes[k]) : k \in DOMAIN servers}

\* One turn of fill_servers_data.
FillServerData ==
    /\ phase = "servers"
    /\ LET k     == Len(servers) + 1
           stops == ServerStops(k, nodes[k], PortsSet) IN
       IF stops # "no" THEN phase' = stops /\ UNCHANGED servers
       ELSE LET conf == FillServer(k, nodes[k], http, input.memory) IN
            /\ servers' = Append(servers,
                  [conf |-> conf,
                   dir_configs |-> HandleLocations(conf, nodes[k].location_blocks),
                   warned |-> FALSE])
            /\ phase' = IF k = Len(nodes) THEN "warnings" ELSE "servers"
    /\ UNCHANGED <<input, cli, http, is_warning_set, response, nth, hops,
                   scan_vars, header_vars>>

-----------------------------------------------------------------------------
(* Webserver::run *)

\* mutant: only a location that names itself.
IsThereACycleSelf(dir_configs, name) == dir_configs[name].redirect = {name}

\* is_there_a_cycle: redirections from one location to the next, while the
\* target is the very name of a location.
IsThereACycle(dir_configs, name) ==
    LET next(p) == IF p \in DOMAIN dir_configs THEN dir_configs[p].redirect ELSE {}
        many    == Cardinality(DOMAIN dir_configs) + 1
        after[n \in 0..many] ==
            IF n = 0 THEN {name} ELSE UNION {next(p) : p \in after[n - 1]}
    IN after[many] # {}

Limits == [keep_alive_max_timeout |-> 65, client_max_request_timeout |-> 45,
           client_max_uri_size |-> 2048]

Clamped(conf) ==
    [t \in DOMAIN conf |->
        IF t \in DOMAIN Limits THEN Min({conf[t], Limits[t]}) ELSE conf[t]]

TraceAllowed(s) ==
    \/ "TRACE" \in ToSet(s.conf.allowed_methods)
    \/ \E p \in DOMAIN s.dir_configs : "TRACE" \in ToSet(s.dir_configs[p].allowed_methods)

NamesBefore(k) == {servers[n].conf.server_name : n \in 1..k-1}

\* mutant: a value that had to be lowered is no warning.
WarnsNoClamp(k, s) ==
    \/ s.conf.server_name = "" \/ s.conf.server_name \in NamesBefore(k)
    \/ \E p \in DOMAIN s.dir_configs : IsThereACycle(s.dir_configs, p)
    \/ TraceAllowed(s)

\* mutant: redirections are not looked at.
WarnsNoCycle(k, s) ==
    \/ s.conf.server_name = "" \/ s.conf.server_name \in NamesBefore(k)
    \/ Clamped(s.conf) # s.conf
    \/ TraceAllowed(s)

\* A missing name is replaced after the comparison, so that it is the names
\* of the file that are compared.
Warns(k, s) ==
    \/ s.conf.server_name = "" \/ s.conf.server_name \in NamesBefore(k)
    \/ Clamped(s.conf) # s.conf
    \/ \E p \in DOMAIN s.dir_configs : IsThereACycle(s.dir_configs, p)
    \/ TraceAllowed(s)

\* One turn of the loop of set_all_warnings; a CGI program that is missing or
\* cannot be run is a warning, too.
SetWarnings ==
    /\ phase = "warnings"
    /\ LET k == Min({n \in DOMAIN servers : ~servers[n].warned})
           s == servers[k] IN
       /\ \E bad_cgi \in {FALSE, s.conf.cgi_bin # NoPages} :
             is_warning_set' = (is_warning_set \/ Warns(k, s) \/ bad_cgi)
       /\ servers' = [servers EXCEPT ![k].conf = Clamped(s.conf), ![k].warned = TRUE]
       /\ phase' = IF k = Len(servers) THEN "start" ELSE "warnings"
    /\ UNCHANGED <<input, cli, http, response, nth, hops, scan_vars, header_vars>>

\* The rest of run(), up to multiplex().
Start ==
    /\ phase = "start"
    /\ phase' = IF cli.strict /\ is_warning_set THEN "strict mode"
                ELSE IF http.multiplexer # "kqueue" THEN "unsupported multiplexer"
                ELSE "running"
    /\ UNCHANGED <<input, cli, http, servers, is_warning_set, response, nth, hops,
                   scan_vars, header_vars>>

-----------------------------------------------------------------------------
(* A request to the first server *)

This == servers[1]

Connect ==
    /\ phase = "running" /\ reader = "idle" /\ hops = 0
    /\ reader' = "reading" /\ segments' = input.segments
    /\ UNCHANGED <<lines, body, request, site_vars, scan_vars>>

Receive ==
    /\ phase = "running"
    /\ \E behind \in {"LF", "other"} : ReadHeader(behind)
    /\ phase' = IF reader' = "exits" THEN "out_of_range" ELSE phase
    /\ UNCHANGED <<input, cli, http, servers, is_warning_set, response, nth, hops, scan_vars>>

Parse ==
    /\ phase = "running"
    /\ ParseRequest(This.conf.cookies)
    /\ phase' = IF reader' = "exits" THEN "out_of_range" ELSE phase
    /\ UNCHANGED <<input, cli, http, servers, is_warning_set, response, nth, hops, scan_vars>>

\* get_location_configs_from_path: the longest part of the path that ends in
\* a slash and is the name of a location; {} or the name.
SlashPrefixes(path) ==
    {SubSeq(path.segs, 1, n) : n \in 0..(Len(path.segs) - IF path.slash THEN 0 ELSE 1)}

DirConfigs(path) ==
    LET named == SlashPrefixes(path) \cap DOMAIN This.dir_configs
    IN {p \in named : \A q \in named : Len(q) <= Len(p)}

\* change_path: the name of the location gives way to its root; a location
\* without a root leaves the path as it is, below the working directory.
ChangePath(path, location) ==
    LET root == IF location = {} THEN This.conf.root
                ELSE UNION {This.dir_configs[p].root : p \in location}
        cut  == IF root = {} THEN 0 ELSE Max({Len(p) : p \in location} \cup {0})
    IN FlattenSeq(SetToSeq(root)) \o SubSeq(path.segs, cut + 1, Len(path.segs))

Named(location) == CHOOSE p \in location : TRUE

\* The settings that decide: those of the location, if there is one, ...
Deciding(location) ==
    IF location = {} THEN This.conf ELSE This.dir_configs[Named(location)]

\* What is read of every setting while a request to the location is served;
\* the time-out of scripts is the http block's.
Effective(location) ==
    [allowed_methods |-> Deciding(location).allowed_methods,
     try_index_files |-> Deciding(location).try_index_files,
     try_404_files   |-> Deciding(location).try_404_files,
     error_page      |-> Deciding(location).error_page,
     root            |-> IF location = {} THEN This.conf.root ELSE Deciding(location).root,
     directory_listing |-> Deciding(location).directory_listing \/ This.conf.directory_listing,
     client_max_body_size |-> This.conf.client_max_body_size,
     client_max_uri_size |-> This.conf.client_max_uri_size,
     client_max_request_timeout |-> This.conf.client_max_request_timeout,
     keep_alive_max_timeout |-> This.conf.keep_alive_max_timeout,
     client_max_connections |-> This.conf.client_max_connections,
     cgi_bin |-> This.conf.cgi_bin,
     support_cookies |-> This.conf.cookies,
     cgi_max_request_timeout |-> http.cgi_max_request_timeout]

Has(field) == <<field>> \in DOMAIN request.request_map

\* handle_301: the redirection of the location, or its page for 301.
RedirectTo(location) ==
    LET of(l) == IF l.redirect # {}
                 THEN {[NoPath EXCEPT !.segs = r, !.slash = TRUE] : r \in l.redirect}
                 ELSE {[NoPath EXCEPT !.segs = Names(l.error_page[c])] :
                          c \in {301} \cap DOMAIN l.error_page}
    IN UNION {of(This.dir_configs[p]) : p \in location}

BadRequest ==
    \/ /\ request.method = "POST"
       /\ ~Has("content-type") \/ (~Has("transfer-encoding") /\ ~Has("content-length"))
    \/ ~request.path.valid
    \/ request.is_bad_request /\ ~request.is_not_implemented

NotImplemented ==
    \/ Has("transfer-encoding") /\ request.request_map[<<"transfer-encoding">>] # <<"chunked">>
    \/ request.http_version # "HTTP/1.1" \/ request.is_not_implemented

UriTooLong == request.path.chars >= This.conf.client_max_uri_size

NotAllowed(location) == request.method \notin ToSet(Deciding(location).allowed_methods)

TooLarge ==
    /\ Has("content-length")
    /\ AsInt(Number(Head(request.request_map[<<"content-length">>]))) > This.conf.client_max_body_size

\* The handlers in their order, up to those that look at files.
Status(location) ==
    CASE request.method = "OPTIONS" -> "options"
      [] request.method # "OPTIONS" /\ BadRequest -> "400"
      [] OTHER ->
         IF UriTooLong THEN "414"
         ELSE IF NotImplemented THEN "501"
         ELSE IF TooLarge THEN "413"
         ELSE IF NotAllowed(location) THEN "405"
         ELSE IF RedirectTo(location) # {} THEN "301"
         ELSE "served"

ArchitectResponse ==
    /\ phase = "running" /\ reader = "parsed" /\ response.status = "none"
    /\ LET location == DirConfigs(request.path)
           status   == Status(location) IN
       response' = [status |-> status, location |-> location,
                    rootfilepath |-> IF status = "served"
                                     THEN ChangePath(request.path, location) ELSE << >>,
                    redirect_to |-> IF status = "301"
                                    THEN CHOOSE r \in RedirectTo(location) : TRUE ELSE NoPath]
    /\ UNCHANGED <<input, phase, cli, http, servers, is_warning_set, nth, hops,
                   scan_vars, header_vars>>

Answered == response.status \notin {"none", "301"}

\* What handle_client keeps a connection for: a request that asks for it and
\* is not answered by handle_http itself. A refusal has a page then, for which
\* the method has become GET. Nothing is read of a body that was refused.
Keepable ==
    /\ Has("connection") /\ request.request_map[<<"connection">>] = <<"keep-alive">>
    /\ CASE response.status = "served"  -> request.method \notin {"POST", "PUT"}
         [] response.status = "options" -> TRUE
         [] OTHER -> Number(response.status) \in DOMAIN Deciding(response.location).error_page

\* Without a page that is there, for a script and for a listing, it is closed.
NeedsFile == response.status # "options" /\ request.method # "DELETE"

\* mutant: the request is kept for the next one.
SettleSame ==
    /\ phase = "running" /\ reader = "parsed" /\ Answered
    /\ \/ /\ Keepable
          /\ reader' = "reading" /\ response' = NoResponse /\ nth' = nth + 1
          /\ UNCHANGED <<lines, body, request>>
       \/ /\ ~Keepable \/ NeedsFile
          /\ reader' = "closed" /\ UNCHANGED <<lines, body, request, response, nth>>
    /\ UNCHANGED <<input, phase, cli, http, servers, is_warning_set, hops, scan_vars, segments>>

Settle ==
    /\ phase = "running" /\ reader = "parsed" /\ Answered
    /\ \/ /\ Keepable
          /\ reader' = "reading" /\ lines' = << >> /\ body' = << >> /\ request' = NoRequest
          /\ response' = NoResponse /\ nth' = nth + 1
       \/ /\ ~Keepable \/ NeedsFile
          /\ reader' = "closed" /\ UNCHANGED <<lines, body, request, response, nth>>
    /\ UNCHANGED <<input, phase, cli, http, servers, is_warning_set, hops, scan_vars, segments>>

\* The client asks again, for what it was told, on another connection.
Follow ==
    /\ phase = "running" /\ response.status = "301" /\ hops < MaxHops
    /\ hops' = hops + 1 /\ response' = NoResponse
    /\ request' = [NoRequest EXCEPT !.method = "GET", !.http_version = "HTTP/1.1",
                                    !.path = response.redirect_to]
    /\ UNCHANGED <<input, phase, cli, http, servers, is_warning_set, nth,
                   scan_vars, segments, lines, body, reader>>

-----------------------------------------------------------------------------
\* Ended, or waiting: for the rest of a header, or for good in trim_string.
Done ==
    /\ \/ phase \in Ended
       \/ phase = "running" /\ \/ reader = "reading" /\ segments = << >>
                               \/ reader \in {"spins", "undefined", "closed"}
                               \/ hops = MaxHops /\ response.status = "301"
    /\ UNCHANGED vars

Next ==
    \/ ParseAndGetCli
    \/ CheckStructure
    \/ OpenFile
    \/ Scan
    \/ CheckFile
    \/ FillHttpData
    \/ FillServerData
    \/ SetWarnings
    \/ Start
    \/ Connect
    \/ Receive
    \/ Parse
    \/ ArchitectResponse
    \/ Settle
    \/ Follow
    \/ Done

Spec == Init /\ [][Next]_vars

\* main() is one thread that nothing waits for, and a client that sends.
FairSpec == Spec /\ WF_vars(Next)
=============================================================================
