--------------------------- MODULE SettingsProofs ---------------------------
(***************************************************************************)
(* What the settings are that a server runs by, and which line of the file *)
(* decides each of them: for every file, command line and request.         *)
(*                                                                         *)
(* FileInv says what is kept of the file from the scanner to the last      *)
(* request: server k was filled from node k, and nothing stopped it. The   *)
(* rest is about the filling itself, which has no steps: what the last     *)
(* line for a token is (Latest), what one line makes of a setting          *)
(* (Filling), where the locations of a server stand among its lines        *)
(* (Placed), and how a value comes down from block to block.               *)
(***************************************************************************)
EXTENDS SiteProofs

-----------------------------------------------------------------------------
(* What the scanner collects: lines of words, none of them empty.          *)

Node == [id : Text, words : Lines, location_blocks : Lines]

ScanType ==
    /\ words \in Lines /\ http_as_words \in Lines
    /\ at \in Loops \cup Ends /\ i \in Nat \ {0} /\ j \in Nat \ {0} /\ http_index \in Nat
    /\ id \in Text /\ line_words \in Seq(Text) /\ node \in Node /\ nodes \in Seq(Node)
    /\ at = "parse_server" => HasWord

LEMMA MaxOf ==
    ASSUME NEW T, NEW m \in Nat, T \subseteq 1..m, T # {}
    PROVE  Max(T) \in T /\ \A y \in T : y <= Max(T)
  <1> DEFINE U == {m - x : x \in T}
  <1>1. U \subseteq Nat /\ U # {}
    <2>1. \A x \in T : m - x \in Nat
      OBVIOUS
    <2> QED
      BY <2>1
  <1>2. PICK u \in U : \A y \in U : u <= y
    BY <1>1, LeastNatural
  <1>3. PICK x \in T : u = m - x
    BY <1>2
  <1>4. ASSUME NEW y \in T PROVE x >= y
    <2>1. m - x <= m - y
      BY <1>2, <1>3
    <2> QED
      BY <2>1
  <1>5. \A y \in T : y \in Nat
    OBVIOUS
  <1> HIDE DEF U
  <1>6. Max(T) \in T /\ \A y \in T : Max(T) >= y
    BY <1>4 DEF Max
  <1> QED
    BY <1>5, <1>6

-----------------------------------------------------------------------------
(* The scanner's functions                                                 *)

LEMMA SkipBracketsType ==
    ASSUME NEW r, NEW c \in Nat \ {0}, words[r] \in Line
    PROVE  SkipBrackets(r, c) \in Nat \ {0}
  <1> DEFINE I == {n \in c..Len(words[r]) : ~IsBracket(words[r][n])}
             w == IF I # {} THEN Min(I) ELSE 0
             T == {c, Len(words[r]) + 1}
  <1>1. SkipBrackets(r, c) = IF w = 0 THEN Max(T) ELSE w
    BY DEF SkipBrackets, SelectInSubSeq
  <1>2. Len(words[r]) \in Nat \ {0}
    BY LineIs
  <1>3. I \subseteq Nat \ {0}
    BY <1>2
  <1>4. I # {} => Min(I) \in I
    <2> HIDE DEF I
    <2> QED
      BY <1>3, MinOf
  <1>5. w # 0 => w \in Nat \ {0}
    BY <1>3, <1>4
  <1>6. Max(T) \in Nat \ {0}
    <2>1. T \subseteq Nat \ {0}
      BY <1>2
    <2>2. \E x \in T : \A y \in T : x >= y
      BY <1>2
    <2> HIDE DEF T
    <2>3. Max(T) \in T
      BY <2>2 DEF Max
    <2> QED
      BY <2>1, <2>3
  <1> HIDE DEF w, T
  <1> QED
    BY <1>1, <1>5, <1>6

LEMMA LastWordType ==
    ASSUME words \in Lines, i \in 1..Len(words)
    PROVE  LastWordUpTo(i) \in Text
  <1> DEFINE named == {k \in 1..i : \E c \in DOMAIN words[k] : ~IsBracket(words[k][c])}
             l == words[Max(named)]
             I == {n \in 1..Len(l) : ~IsBracket(l[n])}
  <1>1. LastWordUpTo(i) = IF named = {} THEN "" ELSE l[IF I # {} THEN Max(I) ELSE 0]
    BY DEF LastWordUpTo, SelectLastInSeq
  <1>2. Len(words) \in Nat /\ i \in Nat
    BY LinesAre
  <1>3. ASSUME named # {} PROVE Max(named) \in named
    <2>1. named \subseteq 1..i
      OBVIOUS
    <2> HIDE DEF named
    <2> QED
      BY <1>2, <1>3, <2>1, MaxOf
  <1>4. ASSUME named # {} PROVE l \in Line /\ \E c \in DOMAIN l : ~IsBracket(l[c])
    <2>1. Max(named) \in 1..Len(words)
      BY <1>2, <1>3, <1>4
    <2> QED
      BY <1>3, <1>4, <2>1, LinesAre
  <1>5. ASSUME named # {} PROVE l[IF I # {} THEN Max(I) ELSE 0] \in Text
    <2>1. l \in Line /\ \E c \in DOMAIN l : ~IsBracket(l[c])
      BY <1>4, <1>5
    <2> HIDE DEF l
    <2>2. l \in Seq(Text) /\ Len(l) \in Nat /\ DOMAIN l = 1..Len(l)
      BY <2>1, LineIs
    <2>3. I # {} /\ I \subseteq 1..Len(l)
      BY <2>1, <2>2
    <2> HIDE DEF I
    <2>4. Max(I) \in 1..Len(l)
      BY <2>2, <2>3, MaxOf
    <2> QED
      BY <2>2, <2>3, <2>4
  <1>6. "" \in Text
    BY DEF Text
  <1> HIDE DEF named, l, I
  <1>7. CASE named = {}
    BY <1>1, <1>6, <1>7, Zenon
  <1>8. CASE named # {}
    BY <1>1, <1>5, <1>8, Zenon
  <1> QED
    BY <1>7, <1>8

-----------------------------------------------------------------------------
(* One step of the scanner                                                 *)

LEMMA HereIsLine ==
    ASSUME ScanType, HasWord
    PROVE  /\ i \in 1..Len(words) /\ words[i] \in Line /\ Word \in Text
           /\ j \in 1..Len(words[i]) /\ Len(words[i]) \in Nat /\ Len(words) \in Nat
  <1>1. /\ words \in Lines /\ i \in Nat \ {0} /\ j \in Nat \ {0}
        /\ ~(i > Len(words)) /\ j <= Len(words[i])
    BY DEF ScanType, HasWord, AtEnd
  <1>2. Len(words) \in Nat /\ i \in 1..Len(words)
    BY <1>1, LinesAre
  <1>3. words[i] \in Line
    BY <1>1, <1>2, LinesAre
  <1>4. words[i] \in Seq(Text) /\ Len(words[i]) \in Nat
    BY <1>3, LineIs
  <1>5. j \in 1..Len(words[i])
    BY <1>1, <1>4
  <1>6. words[i][j] \in Text
    BY <1>4, <1>5
  <1> QED
    BY <1>2, <1>3, <1>4, <1>5, <1>6 DEF Word

LEMMA LineHere ==
    ASSUME ScanType, ~AtEnd
    PROVE  i \in 1..Len(words) /\ words[i] \in Line /\ Len(words[i]) \in Nat \ {0}
  <1>1. words \in Lines /\ i \in Nat \ {0} /\ ~(i > Len(words))
    BY DEF ScanType, AtEnd
  <1>2. Len(words) \in Nat /\ i \in 1..Len(words)
    BY <1>1, LinesAre
  <1>3. words[i] \in Line
    BY <1>1, <1>2, LinesAre
  <1> QED
    BY <1>2, <1>3, LineIs

\* What is taken of a line.
LEMMA TakenIs ==
    ASSUME NEW l \in Line, NEW c \in Nat \ {0}, NEW d \in Nat, d <= Len(l) + 1
    PROVE  SubSeq(l, c, d - 1) = << >> \/ SubSeq(l, c, d - 1) \in Line
  <1>1. l \in Seq(Text) /\ Len(l) \in Nat
    BY LineIs
  <1>2. SubSeq(l, c, d - 1) \in Seq(Text)
    BY <1>1
  <1> QED
    BY <1>2 DEF Line

LEMMA AppendLine ==
    ASSUME NEW ls \in Lines, NEW l \in Line
    PROVE  Append(ls, l) \in Lines
  BY DEF Lines

LEMMA StopColumnIs ==
    ASSUME ScanType, ~AtEnd
    PROVE  /\ StopColumn \in Nat /\ StopColumn <= Len(words[i]) + 1
           /\ StopColumn <= Len(words[i]) => j <= StopColumn
  <1> DEFINE s == {c \in j..Len(words[i]) : Stops(c)}
  <1>1. Len(words[i]) \in Nat \ {0} /\ j \in Nat \ {0}
    BY LineHere DEF ScanType
  <1>2. StopColumn = IF s = {} THEN Len(words[i]) + 1 ELSE Min(s)
    BY DEF StopColumn
  <1>3. s \subseteq j..Len(words[i]) /\ s \subseteq Nat
    BY <1>1
  <1> HIDE DEF s
  <1>4. s # {} => Min(s) \in j..Len(words[i])
    BY <1>3, MinOf
  <1> QED
    BY <1>1, <1>2, <1>4

LEMMA FirstBracketIs ==
    ASSUME ScanType, ~AtEnd
    PROVE  FirstBracket(i, j) \in Nat \ {0} /\ FirstBracket(i, j) <= Len(words[i]) + 1
  <1> DEFINE I == {c \in j..Len(words[i]) : IsBracket(words[i][c])}
             b == IF I # {} THEN Min(I) ELSE 0
  <1>1. Len(words[i]) \in Nat \ {0} /\ j \in Nat \ {0}
    BY LineHere DEF ScanType
  <1>2. FirstBracket(i, j) = IF b = 0 THEN Len(words[i]) + 1 ELSE b
    BY DEF FirstBracket, SelectInSubSeq
  <1>3. I \subseteq 1..Len(words[i]) /\ I \subseteq Nat
    BY <1>1
  <1> HIDE DEF I
  <1>4. I # {} => Min(I) \in 1..Len(words[i])
    BY <1>3, MinOf
  <1> QED
    BY <1>1, <1>2, <1>4

LEMMA HttpLinesType ==
    ASSUME ScanType, ParseHttpConfigs
    PROVE  ScanType'
  <1> DEFINE stop  == StopColumn
             taken == SubSeq(words[i], j, stop - 1)
  <1>1. UNCHANGED <<words, id, line_words, node, nodes>> /\ at = "parse_http_configs"
    BY DEF ParseHttpConfigs
  <1>2. CASE at' \in {"parsed", "undefined"} /\ UNCHANGED <<i, j, http_index, http_as_words>>
    BY <1>1, <1>2 DEF ScanType, Ends
  <1>3. CASE /\ ~AtEnd
             /\ http_as_words' = IF taken = << >> THEN http_as_words ELSE Append(http_as_words, taken)
             /\ IF \E c \in {stop, stop + 1} : c <= Len(words[i]) /\ IsBracket(words[i][c])
                THEN at' = "parse_server" /\ j' = stop /\ UNCHANGED <<i, http_index>>
                ELSE i' = i + 1 /\ j' = 1 /\ http_index' = http_index + 1 /\ UNCHANGED at
    <2>1. /\ i \in 1..Len(words) /\ words[i] \in Line /\ Len(words[i]) \in Nat \ {0}
          /\ j \in Nat \ {0} /\ Len(words) \in Nat
      BY <1>3, LineHere, LinesAre DEF ScanType
    <2>2. /\ stop \in Nat /\ stop <= Len(words[i]) + 1
          /\ stop <= Len(words[i]) => j <= stop
      BY <1>3, StopColumnIs
    <2> HIDE DEF stop
    <2>3. taken = << >> \/ taken \in Line
      BY <2>1, <2>2, TakenIs
    <2> HIDE DEF taken
    <2>4. http_as_words' \in Lines
      BY <1>3, <2>3, AppendLine DEF ScanType
    <2>5. CASE at' = "parse_server" /\ j' = stop /\ UNCHANGED <<i, http_index>> /\ stop <= Len(words[i])
      <3>1. HasWord'
        BY <1>1, <2>1, <2>5 DEF HasWord, AtEnd
      <3> QED
        BY <1>1, <2>1, <2>2, <2>4, <2>5, <3>1 DEF ScanType, Loops
    <2>6. CASE i' = i + 1 /\ j' = 1 /\ http_index' = http_index + 1 /\ UNCHANGED at
      BY <1>1, <2>4, <2>6 DEF ScanType
    <2>7. \A c \in {stop, stop + 1} : c <= Len(words[i]) => stop <= Len(words[i])
      BY <2>1, <2>2
    <2> QED
      BY <1>3, <2>5, <2>6, <2>7
  <1> QED
    BY <1>2, <1>3 DEF ParseHttpConfigs, GoTo

LEMMA ServerLineType ==
    ASSUME ScanType, ServerLine
    PROVE  ScanType'
  <1> DEFINE done == [node EXCEPT !.words = Collected]
  <1>1. /\ UNCHANGED <<words, http_as_words, http_index, id>> /\ at = "parse_server_loop"
        /\ ~(HasWord /\ Word # "}")
    BY DEF ServerLine
  <1>2. /\ node.words \in Lines /\ node \in Node /\ line_words \in Seq(Text) /\ nodes \in Seq(Node)
        /\ << >> \in Seq(Text)
    BY DEF ScanType, Node
  <1>3. Collected \in Lines
    BY <1>2, AppendLine DEF Collected, Line
  <1>4. done \in Node
    BY <1>2, <1>3 DEF Node
  <1>5. EmptyNode \in Node
    <2>1. << >> \in Lines /\ "" \in Text
      BY DEF Lines, Text
    <2> QED
      BY <2>1 DEF EmptyNode, Node
  <1> DEFINE more == IF done.id = "" THEN nodes ELSE Append(nodes, done)
  <1> HIDE DEF done
  <1>9. more \in Seq(Node)
    <2>1. Append(nodes, done) \in Seq(Node)
      BY <1>2, <1>4
    <2> QED
      BY <1>2, <2>1
  <1> HIDE DEF more
  <1>6. CASE i' = i + 1 /\ j' = 1 /\ node' = done /\ line_words' = << >> /\ UNCHANGED <<at, nodes>>
    <2>1. at' # "parse_server"
      BY <1>1, <1>6
    <2>2. i' \in Nat \ {0} /\ j' \in Nat \ {0}
      BY <1>6 DEF ScanType
    <2> HIDE DEF Node, Lines, Text
    <2> QED
      BY <1>1, <1>2, <1>4, <1>6, <2>1, <2>2 DEF ScanType
  <1>7. CASE /\ nodes' = more
             /\ node' = EmptyNode /\ line_words' = << >> /\ AtEnd /\ at' = "parsed" /\ UNCHANGED <<i, j>>
    <2>1. nodes' \in Seq(Node)
      BY <1>7, <1>9
    <2> QED
      BY <1>1, <1>2, <1>5, <1>7, <2>1 DEF ScanType, Ends
  <1>8. CASE /\ nodes' = more
             /\ node' = EmptyNode /\ line_words' = << >> /\ ~AtEnd
             /\ at' = "parse_words" /\ j' = SkipBrackets(i, j) + 1 /\ UNCHANGED i
    <2>1. nodes' \in Seq(Node)
      BY <1>8, <1>9
    <2>2. SkipBrackets(i, j) \in Nat \ {0}
      BY <1>8, LineHere, SkipBracketsType DEF ScanType
    <2>3. j' \in Nat \ {0} /\ i' \in Nat \ {0}
      BY <1>8, <2>2 DEF ScanType
    <2>4. at' # "parse_server" /\ at' \in Loops \cup Ends
      BY <1>8 DEF Loops
    <2>5. line_words' \in Seq(Text) /\ node' \in Node
      BY <1>2, <1>5, <1>8
    <2> QED
      BY <1>1, <2>1, <2>3, <2>4, <2>5 DEF ScanType
  <1> QED
    BY <1>6, <1>7, <1>8 DEF ServerLine, GoTo, done, more

LEMMA ScanTypeKept ==
    ASSUME ScanType, ScanNext
    PROVE  ScanType'
  <1>1. CASE CheckWords
    BY <1>1 DEF CheckWords, ScanType, GoTo, Loops, Ends
  <1>2. CASE ParseWords
    <2>1. CASE AtEnd
      BY <1>2, <2>1 DEF ParseWords, ScanType, GoTo, Ends
    <2>2. CASE ~AtEnd /\ j > Len(words[i])
      BY <1>2, <2>2 DEF ParseWords, ScanType
    <2>3. CASE ~AtEnd /\ ~(j > Len(words[i]))
      <3>1. SkipBrackets(i, j) \in Nat \ {0}
        BY <2>3, LineHere, SkipBracketsType DEF ScanType
      <3>2. Len(http_as_words) + 1 \in Nat
        BY LinesAre DEF ScanType
      <3> QED
        BY <1>2, <2>3, <3>1, <3>2 DEF ParseWords, ScanType, GoTo, Loops
    <2> QED
      BY <2>1, <2>2, <2>3
  <1>3. CASE ParseHttpConfigs
    BY <1>3, HttpLinesType
  <1>4. CASE EnterServer
    <2>1. HasWord
      BY <1>4 DEF EnterServer, ScanType
    <2>2. i \in 1..Len(words) /\ Word \in Text /\ words \in Lines
      BY <2>1, HereIsLine DEF ScanType
    <2>3. LastWordUpTo(i) \in Text
      BY <2>2, LastWordType
    <2>4. EmptyNode \in Node /\ << >> \in Seq(Text)
      BY DEF EmptyNode, Node, Lines, Text
    <2>5. id' \in Text /\ j' \in Nat \ {0} /\ node' = EmptyNode /\ line_words' = << >>
          /\ at' = "parse_server_loop" /\ UNCHANGED <<words, i, http_index, http_as_words, nodes>>
      BY <1>4, <2>2, <2>3 DEF EnterServer, GoTo, ScanType
    <2> QED
      BY <2>4, <2>5 DEF ScanType, Loops
  <1>5. CASE ServerWord
    <2>1. /\ HasWord /\ UNCHANGED <<words, i, http_index, http_as_words, id, nodes>>
          /\ at' \in {"parse_server_location", "parse_server_loop"} /\ j' \in {j, j + 1}
          /\ line_words' = line_words \/ line_words' = Append(line_words, Word)
          /\ node' = node \/ node' = [node EXCEPT !.id = id]
      BY <1>5 DEF ServerWord, GoTo
    <2>2. Word \in Text
      BY <2>1, HereIsLine
    <2>3. line_words' \in Seq(Text)
      BY <2>1, <2>2 DEF ScanType
    <2>4. node' \in Node
      BY <2>1 DEF ScanType, Node
    <2> QED
      BY <2>1, <2>3, <2>4 DEF ScanType, Loops
  <1>6. CASE ServerLine
    BY <1>6, ServerLineType
  <1>7. CASE LocationLine
    <2>1. at = "parse_server_location" /\ UNCHANGED <<words, http_index, http_as_words, id, line_words, nodes>>
      BY <1>7 DEF LocationLine
    <2>2. CASE AtEnd
      BY <1>7, <2>1, <2>2 DEF LocationLine, ScanType, GoTo, Ends
    <2>3. CASE ~AtEnd
      <3> DEFINE stop  == FirstBracket(i, j)
                 taken == SubSeq(words[i], j, stop - 1)
      <3>1. /\ node' = IF taken = << >> THEN node
                       ELSE [node EXCEPT !.location_blocks = Append(@, taken)]
            /\ \/ at' = "parse_server_loop" /\ j' = stop + 1 /\ UNCHANGED i
               \/ i' = i + 1 /\ j' = 1 /\ UNCHANGED at
        BY <1>7, <2>3 DEF LocationLine, GoTo
      <3>2. stop \in Nat \ {0} /\ stop <= Len(words[i]) + 1
        BY <2>3, FirstBracketIs
      <3>3. words[i] \in Line /\ j \in Nat \ {0}
        BY <2>3, LineHere DEF ScanType
      <3> HIDE DEF stop
      <3>4. taken = << >> \/ taken \in Line
        BY <3>2, <3>3, TakenIs
      <3> HIDE DEF taken
      <3>5. taken # << >> => Append(node.location_blocks, taken) \in Lines
        BY <3>4, AppendLine DEF ScanType, Node
      <3>6. node' \in Node
        BY <3>1, <3>5 DEF ScanType, Node
      <3> QED
        BY <2>1, <3>1, <3>2, <3>6 DEF ScanType, Loops
    <2> QED
      BY <2>2, <2>3
  <1> QED
    BY <1>1, <1>2, <1>3, <1>4, <1>5, <1>6, <1>7 DEF ScanNext

-----------------------------------------------------------------------------
(* The inductive invariant                                                 *)

Scanned == {"check", "http", "servers", "warnings", "start", "running", "out_of_range"}

Valid   == Scanned \ {"check"}

Ready   == Valid \ {"http"}

HttpConfigs == [FillHttp(http_as_words) EXCEPT !.proxy_logs_register = @ \/ cli.logs]

\* What main() has read when it has come to a phase.
Read ==
    /\ phase \in Phases /\ input \in Inputs /\ is_warning_set \in BOOLEAN
    /\ cli \in [strict : BOOLEAN, logs : BOOLEAN, help : BOOLEAN, reset_logs : BOOLEAN]
    /\ phase \in Scanned => at = "parsed"
    /\ phase \in Valid => FileVerdict(http_as_words, nodes) = "valid"
    /\ DOMAIN http = DOMAIN HttpDefaults
    /\ phase \in Ready => http = HttpConfigs

\* Server k is made of node k, and nothing stopped its filling.
OfNode(k) ==
    LET conf == FillServer(k, nodes[k], http, input.memory) IN
    /\ servers[k].conf = IF servers[k].warned THEN Clamped(conf) ELSE conf
    /\ servers[k].dir_configs = HandleLocations(conf, nodes[k].location_blocks)
    /\ ServerStops(k, nodes[k], UNION {Ports(nodes[n]) : n \in 1..k - 1}) = "no"
    /\ servers[k].warned => is_warning_set \/ Clamped(conf) = conf

FromFile ==
    /\ \A k \in DOMAIN servers : k \in DOMAIN nodes /\ OfNode(k)
    /\ phase \in {"warnings", "start", "running"} => Len(servers) = Len(nodes)

\* A response is to the request at hand.
Answers ==
    response.status # "none" => phase = "running" /\ response.location = DirConfigs(request.path)

\* Every request takes a segment at least.
Counted ==
    LET left == Len(segments)
        sent == Len(input.segments) IN
    /\ reader \in {"idle", "reading", "parsing", "parsed", "exits", "spins", "undefined", "closed"}
    /\ segments \in Seq(Seq(STRING)) /\ nth \in 1..sent + 1 /\ hops \in 0..MaxHops
    /\ reader = "idle" => nth = 1
    /\ reader = "reading" => nth - 1 + left <= sent
    /\ reader \in {"parsing", "parsed"} => nth + left <= sent

FileInv == ScanType /\ Read /\ FromFile /\ Answers /\ Counted

-----------------------------------------------------------------------------
(* It holds at the start                                                   *)

LEMMA InitFile == Init => FileInv
  <1> SUFFICES ASSUME Init PROVE FileInv
    OBVIOUS
  <1>1. /\ words = << >> /\ at = "parse_words" /\ i = 1 /\ j = 1 /\ http_index = 1
        /\ http_as_words = << >> /\ nodes = << >> /\ id = "" /\ line_words = << >> /\ node = EmptyNode
        /\ segments = << >> /\ reader = "idle" /\ input \in Inputs /\ phase = "cli"
        /\ servers = << >> /\ is_warning_set = FALSE /\ http = HttpDefaults
        /\ response = NoResponse /\ nth = 1 /\ hops = 0
        /\ cli = [strict |-> FALSE, logs |-> FALSE, help |-> FALSE, reset_logs |-> input.memory]
    BY DEF Init, ScanInit, HeaderInit
  <1>2. ScanType
    <2>1. << >> \in Lines /\ << >> \in Seq(Text) /\ "" \in Text /\ << >> \in Seq(Node)
      BY DEF Lines, Text
    <2>2. EmptyNode \in Node
      BY <2>1 DEF EmptyNode, Node
    <2>3. at # "parse_server" /\ at \in Loops
      BY <1>1 DEF Loops
    <2>4. i \in Nat \ {0} /\ j \in Nat \ {0} /\ http_index \in Nat
      <3>1. i = 1 /\ j = 1 /\ http_index = 1
        BY <1>1
      <3> QED
        BY <3>1
    <2>5. /\ words \in Lines /\ http_as_words \in Lines /\ id \in Text /\ line_words \in Seq(Text)
          /\ node \in Node /\ nodes \in Seq(Node)
      BY <1>1, <2>1, <2>2
    <2> QED
      BY <2>3, <2>4, <2>5 DEF ScanType
  <1>3. input.memory \in BOOLEAN /\ input.segments \in Seq(Seq(STRING)) /\ MaxHops \in Nat
    BY <1>1, SiteAssumption
  <1>4. Read
    BY <1>1, <1>3 DEF Read, Phases, Scanned, Valid, Ready
  <1>5. FromFile
    BY <1>1, EmptyIsSeq DEF FromFile
  <1>6. Answers
    BY <1>1 DEF Answers, NoResponse
  <1>7. Counted
    <2>1. << >> \in Seq(Seq(STRING)) /\ Len(input.segments) \in Nat
      BY <1>3
    <2>2. reader \in {"idle", "reading", "parsing", "parsed", "exits", "spins", "undefined", "closed"}
      BY <1>1
    <2>3. segments \in Seq(Seq(STRING)) /\ nth \in 1..Len(input.segments) + 1 /\ hops \in 0..MaxHops
      <3>1. segments = << >> /\ nth = 1 /\ hops = 0
        BY <1>1
      <3>2. 1 \in 1..Len(input.segments) + 1 /\ 0 \in 0..MaxHops
        BY <1>3, <2>1
      <3> QED
        BY <2>1, <3>1, <3>2
    <2>4. reader = "idle" /\ nth = 1
      BY <1>1
    <2> QED
      BY <2>2, <2>3, <2>4 DEF Counted
  <1> QED
    BY <1>2, <1>4, <1>5, <1>6, <1>7 DEF FileInv

-----------------------------------------------------------------------------
(* It is kept                                                              *)

LEMMA ScanKept ==
    ASSUME ScanType, Read, [Next]_vars
    PROVE  ScanType'
  <1>1. CASE Scan
    BY <1>1, ScanTypeKept DEF Scan
  <1>2. CASE OpenFile /\ ReadConfigFile(input.lines)
    <2>1. input.lines \in Seq(Seq(Text))
      <3>1. input.lines \in Seq(Seq(STRING))
        BY SiteAssumption DEF Read
      <3>2. Seq(STRING) \subseteq Seq(Text)
        BY SeqMonotonic DEF Text
      <3> QED
        BY <3>1, <3>2, SeqMonotonic
    <2>2. words' \in Lines
      BY <1>2, <2>1, ExtractWordsType DEF ReadConfigFile
    <2>3. /\ UNCHANGED <<i, j, http_index, http_as_words, id, line_words, node, nodes>>
          /\ at' = "is_config_file_valid"
      BY <1>2 DEF ReadConfigFile, GoTo
    <2> QED
      BY <2>2, <2>3 DEF ScanType, Loops
  <1>3. CASE UNCHANGED scan_vars
    BY <1>3 DEF scan_vars, ScanType, HasWord, AtEnd
  <1>4. [Next]_vars => Scan \/ (OpenFile /\ ReadConfigFile(input.lines)) \/ UNCHANGED scan_vars
    BY DEF Next, ParseAndGetCli, CheckStructure, OpenFile, CheckFile, FillHttpData, FillServerData,
           SetWarnings, Start, Connect, Receive, Parse, ArchitectResponse, Settle, Follow,
           Done, vars
  <1> QED
    BY <1>1, <1>2, <1>3, <1>4

LEMMA ReadKept ==
    ASSUME Nodes, ScanType, Read, [Next]_vars
    PROVE  Read'
  <1> USE DEF Phases
  <1>1. CASE ParseAndGetCli
    <2>1. /\ phase = "cli" /\ phase' \in {"usage", "structure check"}
          /\ UNCHANGED <<input, http, is_warning_set>>
          /\ cli' \in [strict : BOOLEAN, logs : BOOLEAN, help : BOOLEAN, reset_logs : BOOLEAN]
      <3>1. \/ cli' = cli
            \/ \E a, b, c, d \in BOOLEAN : cli' = [strict |-> a, logs |-> b, help |-> c, reset_logs |-> d]
        <4> DEFINE options == IF input.args = << >> THEN << >> ELSE Tail(input.args)
                   a == "--activate-strict_mode" \in ToSet(options)
                   b == "--register-logs" \in ToSet(options)
                   c == "--help" \in ToSet(input.args)
                   d == cli.reset_logs \/ "--reset-logs" \in ToSet(input.args)
        <4>1. a \in BOOLEAN /\ b \in BOOLEAN /\ c \in BOOLEAN /\ d \in BOOLEAN
          OBVIOUS
        <4>2. cli' = cli \/ cli' = [strict |-> a, logs |-> b, help |-> c, reset_logs |-> d]
          BY <1>1 DEF ParseAndGetCli
        <4> HIDE DEF a, b, c, d
        <4> QED
          BY <4>1, <4>2
      <3>2. cli' \in [strict : BOOLEAN, logs : BOOLEAN, help : BOOLEAN, reset_logs : BOOLEAN]
        <4>1. CASE cli' = cli
          BY <4>1 DEF Read
        <4>2. ASSUME NEW a \in BOOLEAN, NEW b \in BOOLEAN, NEW c \in BOOLEAN, NEW d \in BOOLEAN
              PROVE  [strict |-> a, logs |-> b, help |-> c, reset_logs |-> d]
                        \in [strict : BOOLEAN, logs : BOOLEAN, help : BOOLEAN, reset_logs : BOOLEAN]
          OBVIOUS
        <4> QED
          BY <3>1, <4>1, <4>2
      <3> QED
        BY <1>1, <3>2 DEF ParseAndGetCli
    <2>2. phase' \notin Scanned /\ phase' \in Phases
      BY <2>1 DEF Scanned, Ended
    <2> QED
      BY <2>1, <2>2 DEF Read, Valid, Ready
  <1>2. CASE CheckStructure \/ OpenFile
    <2>1. /\ phase' \in {"help", "structure", "logs reset", "open", "invalid", "scan"}
          /\ UNCHANGED <<input, http, is_warning_set, cli>>
      BY <1>2 DEF CheckStructure, OpenFile
    <2>2. phase' \notin Scanned /\ phase' \in Phases
      BY <2>1 DEF Scanned, Ended
    <2> QED
      BY <2>1, <2>2 DEF Read, Valid, Ready
  <1>3. CASE Scan
    <2>1. /\ UNCHANGED <<input, http, is_warning_set, cli>>
          /\ phase' \in {"invalid", "undefined", "scan"} \/ (phase' = "check" /\ at' = "parsed")
      BY <1>3 DEF Scan
    <2>2. phase' \in Phases /\ phase' \notin Valid /\ (phase' \in Scanned => at' = "parsed")
      BY <2>1 DEF Scanned, Valid, Ended
    <2> QED
      BY <2>1, <2>2 DEF Read, Ready
  <1>4. CASE CheckFile
    <2>1. /\ phase = "check" /\ UNCHANGED <<input, http, is_warning_set, cli, at, http_as_words, nodes>>
          /\ phase' = IF FileVerdict(http_as_words, nodes) = "valid" THEN "http"
                      ELSE FileVerdict(http_as_words, nodes)
      BY <1>4 DEF CheckFile, scan_vars
    <2>2. FileVerdict(http_as_words, nodes) \in {"valid", "invalid", "undefined"}
      BY Verdicts DEF Nodes
    <2>3. phase' \in Phases /\ phase' \notin Ready
          /\ (phase' \in Valid => FileVerdict(http_as_words, nodes) = "valid")
      BY <2>1, <2>2 DEF Valid, Ready, Scanned, Ended
    <2>4. at = "parsed"
      BY <2>1 DEF Read, Scanned
    <2> QED
      BY <2>1, <2>3, <2>4 DEF Read
  <1>5. CASE FillHttpData
    <2>1. /\ phase = "http" /\ UNCHANGED <<input, is_warning_set, cli, at, http_as_words, nodes>>
          /\ http' = HttpConfigs /\ phase' \in {"invalid", "servers"}
      BY <1>5 DEF FillHttpData, scan_vars, HttpConfigs
    <2>2. DOMAIN HttpConfigs = DOMAIN HttpDefaults
      <3>1. DOMAIN FillHttp(http_as_words) = DOMAIN HttpDefaults
        BY DEF FillHttp, FillBlock
      <3> QED
        BY <3>1 DEF HttpConfigs
    <2>3. HttpConfigs' = HttpConfigs
      BY <2>1 DEF HttpConfigs
    <2>4. at = "parsed" /\ FileVerdict(http_as_words, nodes) = "valid"
      BY <2>1 DEF Read, Scanned, Valid
    <2>5. phase' \in Phases
      BY <2>1 DEF Ended
    <2> QED
      BY <2>1, <2>2, <2>3, <2>4, <2>5 DEF Read
  <1>6. CASE \/ FillServerData \/ SetWarnings \/ Start \/ Receive \/ Parse
             \/ UNCHANGED <<input, http, is_warning_set, cli, at, http_as_words, nodes, phase>>
    <2>1. UNCHANGED <<input, http, cli, at, http_as_words, nodes>>
      BY <1>6 DEF FillServerData, SetWarnings, Start, Receive, Parse, scan_vars
    <2>2. \/ phase \in Ready /\ phase' \in {"servers", "warnings", "start", "running", "out_of_range"} \cup Ended
          \/ phase' = phase
      <3>1. CASE FillServerData
        <4>1. phase = "servers" /\ phase' \in {"servers", "warnings"} \cup Ended
          BY <3>1, WhyStopped DEF FillServerData
        <4> QED
          BY <4>1 DEF Ready, Valid, Scanned
      <3>2. CASE SetWarnings \/ Start \/ Receive \/ Parse
        <4>1. phase \in {"warnings", "start", "running"}
              /\ phase' \in {"warnings", "start", "running", "strict mode", "unsupported multiplexer", "out_of_range"}
          BY <3>2 DEF SetWarnings, Start, Receive, Parse
        <4> QED
          BY <4>1 DEF Ready, Valid, Scanned, Ended
      <3> QED
        BY <1>6, <3>1, <3>2
    <2>3. is_warning_set' \in BOOLEAN
      BY <1>6 DEF FillServerData, SetWarnings, Start, Receive, Parse, Read
    <2>4. HttpConfigs' = HttpConfigs
      BY <2>1 DEF HttpConfigs
    <2>5. CASE phase' = phase
      BY <2>1, <2>3, <2>4, <2>5 DEF Read
    <2>6. CASE phase \in Ready /\ phase' \in {"servers", "warnings", "start", "running", "out_of_range"} \cup Ended
      <3>1. phase \in Scanned /\ phase \in Valid
        BY <2>6 DEF Ready, Valid
      <3>2. phase' \in Phases
        BY <2>6 DEF Ended
      <3> QED
        BY <2>1, <2>3, <2>4, <2>6, <3>1, <3>2 DEF Read
    <2> QED
      BY <2>2, <2>5, <2>6
  <1>7. \/ ParseAndGetCli \/ CheckStructure \/ OpenFile \/ Scan \/ CheckFile \/ FillHttpData
        \/ FillServerData \/ SetWarnings \/ Start \/ Receive \/ Parse
        \/ UNCHANGED <<input, http, is_warning_set, cli, at, http_as_words, nodes, phase>>
    BY DEF Next, Connect, ArchitectResponse, Settle, Follow, Done, vars, site_vars, scan_vars
  <1> QED
    BY <1>1, <1>2, <1>3, <1>4, <1>5, <1>6, <1>7

LEMMA OfNodeKept ==
    ASSUME NEW k, OfNode(k), UNCHANGED <<nodes, http, input>>, servers'[k] = servers[k],
           is_warning_set => is_warning_set'
    PROVE  OfNode(k)'
  BY DEF OfNode

LEMMA OfNodeNow ==
    ASSUME NEW k, NEW conf, UNCHANGED <<nodes, http, input>>,
           conf = FillServer(k, nodes[k], http, input.memory),
           servers'[k].conf = IF servers'[k].warned THEN Clamped(conf) ELSE conf,
           servers'[k].dir_configs = HandleLocations(conf, nodes[k].location_blocks),
           ServerStops(k, nodes[k], UNION {Ports(nodes[n]) : n \in 1..k - 1}) = "no",
           servers'[k].warned => is_warning_set' \/ Clamped(conf) = conf
    PROVE  OfNode(k)'
  BY DEF OfNode

\* Once a server is filled, what it was made of stays.
LEMMA NothingElse ==
    ASSUME Nodes, Filled, Read, [Next]_vars, ~FillServerData, ~SetWarnings
    PROVE  /\ UNCHANGED servers
           /\ servers # << >> => UNCHANGED <<nodes, http, input, is_warning_set>>
           /\ phase' \in {"warnings", "start", "running"} =>
                 phase \in {"warnings", "start", "running"} /\ UNCHANGED nodes
  <1>1. CASE ParseAndGetCli \/ CheckStructure \/ OpenFile \/ Scan \/ CheckFile \/ FillHttpData
    <2>1. /\ phase \in Early /\ servers' = servers
          /\ phase' \in Early \cup Ended \cup {"servers"}
      <3>1. CASE CheckFile
        <4>1. FileVerdict(http_as_words, nodes) \in {"valid", "invalid", "undefined"}
          BY Verdicts DEF Nodes
        <4> QED
          BY <3>1, <4>1 DEF CheckFile, Early, Ended
      <3>2. CASE ~CheckFile
        BY <1>1, <3>2 DEF ParseAndGetCli, CheckStructure, OpenFile, Scan, FillHttpData, Early, Ended
      <3> QED
        BY <3>1, <3>2
    <2>2. servers = << >>
      BY <2>1 DEF Filled, Early
    <2>3. phase' \notin {"warnings", "start", "running"}
      BY <2>1 DEF Early, Ended
    <2> QED
      BY <2>1, <2>2, <2>3
  <1>2. CASE \/ Start \/ Receive \/ Parse \/ Connect \/ ArchitectResponse \/ Settle \/ Follow \/ UNCHANGED vars
    <2>1. UNCHANGED <<servers, nodes, http, input, is_warning_set>>
      BY <1>2 DEF Start, Receive, Parse, Connect, ArchitectResponse, Settle, Follow, vars, site_vars, scan_vars
    <2>2. phase' = phase \/ phase \in {"start", "running"}
      BY <1>2 DEF Start, Receive, Parse, Connect, ArchitectResponse, Settle, Follow, vars, site_vars
    <2> QED
      BY <2>1, <2>2
  <1> QED
    BY <1>1, <1>2 DEF Next, Done

LEMMA FillFromFile ==
    ASSUME Nodes, Filled, Read, FromFile, FillServerData
    PROVE  FromFile'
  <1>0. PICK k : k = Len(servers) + 1
    OBVIOUS
  <1> DEFINE conf  == FillServer(k, nodes[k], http, input.memory)
             s     == [conf |-> conf,
                       dir_configs |-> HandleLocations(conf, nodes[k].location_blocks),
                       warned |-> FALSE]
             stops == ServerStops(k, nodes[k], PortsSet)
  <1>1. /\ phase = "servers" /\ UNCHANGED <<is_warning_set, nodes, http, input>>
        /\ IF stops # "no" THEN phase' = stops /\ UNCHANGED servers
           ELSE /\ servers' = Append(servers, s)
                /\ phase' = IF k = Len(nodes) THEN "warnings" ELSE "servers"
    BY <1>0 DEF FillServerData, scan_vars
  <1>2. /\ Len(servers) \in Nat /\ DOMAIN servers = 1..Len(servers) /\ k \in Nat /\ k - 1 = Len(servers)
        /\ Len(nodes) \in Nat /\ DOMAIN nodes = 1..Len(nodes) /\ Len(servers) < Len(nodes)
    BY <1>0, <1>1, SeqDomain DEF Filled, Nodes
  <1>3. CASE stops # "no"
    <2>1. phase' \in Ended /\ UNCHANGED servers
      BY <1>1, <1>3, WhyStopped
    <2>2. phase' \notin {"warnings", "start", "running"}
      BY <2>1 DEF Ended
    <2> QED
      BY <1>1, <2>1, <2>2, OfNodeKept DEF FromFile
  <1>4. CASE stops = "no"
    <2>1. servers' = Append(servers, s) /\ phase' = IF k = Len(nodes) THEN "warnings" ELSE "servers"
      BY <1>1, <1>4
    <2>2. /\ s.conf = conf /\ s.warned = FALSE
          /\ s.dir_configs = HandleLocations(conf, nodes[k].location_blocks)
      OBVIOUS
    <2>3. PortsSet = UNION {Ports(nodes[n]) : n \in 1..k - 1}
      <3>1. DOMAIN servers = 1..k - 1
        BY <1>2
      <3> QED
        BY <3>1 DEF PortsSet
    <2>4. ServerStops(k, nodes[k], UNION {Ports(nodes[n]) : n \in 1..k - 1}) = "no"
      BY <1>4, <2>3
    <2> HIDE DEF s, stops
    <2>5. /\ Len(servers') = Len(servers) + 1
          /\ DOMAIN servers' = 1..Len(servers) + 1
          /\ \A n \in DOMAIN servers : servers'[n] = servers[n]
          /\ servers'[Len(servers) + 1] = s
      <3>1. IsSeq(servers)
        BY DEF Filled
      <3>2. /\ Len(Append(servers, s)) = Len(servers) + 1
            /\ DOMAIN Append(servers, s) = 1..Len(servers) + 1
            /\ \A n \in DOMAIN servers : Append(servers, s)[n] = servers[n]
            /\ Append(servers, s)[Len(servers) + 1] = s
        BY <3>1, AppendIsSeq
      <3>3. servers' = Append(servers, s)
        BY <2>1
      <3> QED
        BY <3>2, <3>3, Zenon
    <2>6. OfNode(k)'
      <3>1. servers'[k] = s
        BY <1>0, <2>5
      <3>2. conf = FillServer(k, nodes[k], http, input.memory)
        OBVIOUS
      <3> HIDE DEF conf
      <3> QED
        BY <1>1, <2>2, <2>4, <3>1, <3>2, OfNodeNow
    <2>7. ASSUME NEW n \in DOMAIN servers' PROVE n \in DOMAIN nodes' /\ OfNode(n)'
      <3>1. n \in DOMAIN servers \/ n = k
        BY <1>2, <2>5
      <3>2. n \in DOMAIN nodes'
        <4>1. n \in 1..Len(nodes)
          BY <1>2, <2>5
        <4> QED
          BY <1>1, <1>2, <4>1
      <3>3. CASE n \in DOMAIN servers
        <4>1. servers'[n] = servers[n] /\ OfNode(n)
          BY <2>5, <3>3 DEF FromFile
        <4> QED
          BY <1>1, <3>2, <4>1, OfNodeKept
      <3> QED
        BY <2>6, <3>1, <3>2, <3>3
    <2>8. phase' \in {"warnings", "start", "running"} => Len(servers') = Len(nodes')
      <3>1. phase' \in {"warnings", "start", "running"} => k = Len(nodes)
        BY <2>1
      <3>2. Len(servers') = k
        BY <1>0, <2>5
      <3> QED
        BY <1>1, <3>1, <3>2
    <2> QED
      BY <2>7, <2>8 DEF FromFile
  <1> QED
    BY <1>3, <1>4

\* The server that set_all_warnings comes to is the first it has not passed.
LEMMA TurnOf ==
    ASSUME Filled, phase = "warnings"
    PROVE  LET k == Min({n \in DOMAIN servers : ~servers[n].warned})
           IN  k \in DOMAIN servers /\ servers[k].warned = FALSE
  <1> DEFINE T == {n \in DOMAIN servers : ~servers[n].warned}
  <1>1. Len(servers) \in Nat /\ DOMAIN servers = 1..Len(servers)
    BY SeqDomain DEF Filled
  <1>2. PICK m \in 1..Len(servers) : \A n \in DOMAIN servers : servers[n].warned <=> n < m
    BY DEF Filled
  <1>3. m \in T /\ T \subseteq Nat
    BY <1>1, <1>2
  <1> HIDE DEF T
  <1>4. Min(T) \in T
    BY <1>3, MinOf
  <1>5. Min(T) \in DOMAIN servers /\ ~servers[Min(T)].warned /\ servers[Min(T)].warned \in BOOLEAN
    BY <1>4 DEF T, Filled, IsServer
  <1> QED
    BY <1>5 DEF T

LEMMA WarnFromFile ==
    ASSUME Nodes, Filled, Read, FromFile, SetWarnings
    PROVE  FromFile'
  <1>0. PICK k : k = Min({n \in DOMAIN servers : ~servers[n].warned})
    OBVIOUS
  <1> DEFINE s == servers[k]
             t == [s EXCEPT !.conf = Clamped(s.conf), !.warned = TRUE]
  <1>1. /\ phase = "warnings" /\ UNCHANGED <<nodes, http, input>>
        /\ is_warning_set => is_warning_set'
        /\ Warns(k, s) => is_warning_set'
        /\ servers' = [servers EXCEPT ![k].conf = Clamped(s.conf), ![k].warned = TRUE]
        /\ phase' \in {"start", "warnings"}
    BY <1>0 DEF SetWarnings, scan_vars
  <1>2. k \in DOMAIN servers /\ s.warned = FALSE
    BY <1>0, <1>1, TurnOf
  <1>3. IsServer(s) /\ servers' = [servers EXCEPT ![k] = t]
    BY <1>1, <1>2 DEF Filled
  <1>4. t.conf = Clamped(s.conf) /\ t.dir_configs = s.dir_configs /\ t.warned = TRUE
    BY <1>3 DEF IsServer
  <1>5. Clamped(s.conf) = s.conf \/ is_warning_set'
    BY <1>1 DEF Warns
  <1> HIDE DEF t
  <1>6. /\ DOMAIN servers' = DOMAIN servers /\ servers'[k] = t
        /\ \A n \in DOMAIN servers : n # k => servers'[n] = servers[n]
    BY <1>2, <1>3
  <1>7. OfNode(k)'
    <2> DEFINE conf == FillServer(k, nodes[k], http, input.memory)
    <2>1. /\ s.conf = conf /\ s.dir_configs = HandleLocations(conf, nodes[k].location_blocks)
          /\ ServerStops(k, nodes[k], UNION {Ports(nodes[n]) : n \in 1..k - 1}) = "no"
      BY <1>2 DEF FromFile, OfNode
    <2>2. conf = FillServer(k, nodes[k], http, input.memory)
      OBVIOUS
    <2> HIDE DEF conf, s
    <2> QED
      BY <1>1, <1>4, <1>5, <1>6, <2>1, <2>2, OfNodeNow
  <1>8. ASSUME NEW n \in DOMAIN servers' PROVE n \in DOMAIN nodes' /\ OfNode(n)'
    <2>1. CASE n = k
      BY <1>1, <1>2, <1>7, <2>1 DEF FromFile
    <2>2. CASE n # k
      BY <1>1, <1>6, <2>2, OfNodeKept DEF FromFile
    <2> QED
      BY <2>1, <2>2
  <1>9. Len(servers') = Len(servers)
    <2>1. PICK S : servers \in Seq(S)
      BY SeqFacts DEF Filled
    <2> DEFINE U == S \cup {t}
    <2>2. servers \in Seq(U) /\ t \in U
      BY <2>1, SeqMonotonic
    <2>3. k \in 1..Len(servers)
      BY <1>2, SeqDomain DEF Filled
    <2> HIDE DEF U
    <2> QED
      BY <1>3, <2>2, <2>3, ExceptSeq
  <1> QED
    BY <1>1, <1>8, <1>9 DEF FromFile

LEMMA FromFileKept ==
    ASSUME Nodes, Filled, Read, FromFile, [Next]_vars
    PROVE  FromFile'
  <1>1. CASE ~FillServerData /\ ~SetWarnings
    <2>1. /\ UNCHANGED servers
          /\ servers # << >> => UNCHANGED <<nodes, http, input, is_warning_set>>
          /\ phase' \in {"warnings", "start", "running"} =>
                phase \in {"warnings", "start", "running"} /\ UNCHANGED nodes
      BY <1>1, NothingElse
    <2>2. ASSUME NEW k \in DOMAIN servers' PROVE k \in DOMAIN nodes' /\ OfNode(k)'
      <3>1. k \in DOMAIN servers /\ servers # << >>
        BY <2>1, EmptyIsSeq
      <3> QED
        BY <2>1, <3>1, OfNodeKept DEF FromFile
    <2> QED
      BY <2>1, <2>2 DEF FromFile
  <1> QED
    BY <1>1, FillFromFile, WarnFromFile

LEMMA AnswersKept ==
    ASSUME Followed, Answers, [Next]_vars
    PROVE  Answers'
  <1>1. CASE ArchitectResponse
    <2>1. /\ phase = "running" /\ UNCHANGED <<phase, servers, request>>
          /\ response'.location = DirConfigs(request.path)
      BY <1>1 DEF ArchitectResponse, header_vars
    <2> QED
      BY <2>1 DEF Answers, DirConfigs, This
  <1>2. CASE Settle
    <2>1. UNCHANGED <<phase, servers>> /\ (response' = NoResponse \/ UNCHANGED <<request, response>>)
      BY <1>2 DEF Settle
    <2> QED
      BY <2>1 DEF Answers, DirConfigs, This, NoResponse
  <1>3. CASE Follow
    BY <1>3 DEF Follow, Answers, NoResponse
  <1>4. CASE ~ArchitectResponse /\ ~Settle /\ ~Follow
    <2>1. SUFFICES ASSUME response'.status # "none"
                   PROVE  phase' = "running" /\ (response.location = DirConfigs(request.path))'
      BY DEF Answers
    <2>2. UNCHANGED response
      BY <1>4, OtherSteps
    <2>3. UNCHANGED <<servers, request, reader>>
      BY <1>4, <2>1, <2>2, OtherSteps
    <2>4. phase = "running" /\ reader \in {"parsed", "closed"} /\ response.location = DirConfigs(request.path)
      BY <2>1, <2>2 DEF Answers, Followed
    <2>5. reader # "idle" /\ reader # "reading" /\ reader # "parsing"
      BY <2>4
    <2>6. ~Connect /\ ~Receive /\ ~Parse
      BY <2>5 DEF Connect, Receive, ReadHeader, Parse, ParseRequest
    <2>7. phase' = phase
      BY <1>4, <2>4, <2>6 DEF Next, ParseAndGetCli, CheckStructure, OpenFile, Scan, CheckFile,
           FillHttpData, FillServerData, SetWarnings, Start, Done, vars, site_vars
    <2> QED
      BY <2>2, <2>3, <2>4, <2>7 DEF DirConfigs, This
  <1> QED
    BY <1>1, <1>2, <1>3, <1>4

LEMMA CountedKept ==
    ASSUME Read, Followed, Counted, [Next]_vars
    PROVE  Counted'
  <1>1. input' = input
    BY DEF Next, ParseAndGetCli, CheckStructure, OpenFile, Scan, CheckFile, FillHttpData,
           FillServerData, SetWarnings, Start, Connect, Receive, Parse, ArchitectResponse,
           Settle, Follow, Done, vars, site_vars
  <1>2. Len(input.segments) \in Nat /\ input.segments \in Seq(Seq(STRING)) /\ MaxHops \in Nat
    BY SiteAssumption DEF Read
  <1>3. segments \in Seq(Seq(STRING)) /\ Len(segments) \in Nat /\ nth \in Nat \ {0} /\ hops \in Nat
    BY <1>2 DEF Counted
  <1> DEFINE sent == Len(input.segments)
  <1>4. CASE Connect
    <2>1. reader = "idle" /\ reader' = "reading" /\ segments' = input.segments /\ UNCHANGED <<nth, hops>>
      BY <1>4 DEF Connect, site_vars
    <2>2. nth = 1
      BY <2>1 DEF Counted
    <2>3. nth' - 1 + Len(segments') <= Len(input'.segments)
      BY <1>1, <1>2, <2>1, <2>2
    <2> QED
      BY <1>1, <1>2, <2>1, <2>3 DEF Counted
  <1>5. CASE Receive
    <2>1. /\ reader = "reading" /\ segments # << >> /\ segments' = Tail(segments)
          /\ reader' \in {"reading", "exits", "parsing"} /\ UNCHANGED <<nth, hops>>
      BY <1>5 DEF Receive, ReadHeader
    <2>2. segments' \in Seq(Seq(STRING)) /\ Len(segments') = Len(segments) - 1
      BY <1>3, <2>1
    <2>3. nth - 1 + Len(segments) <= sent
      BY <2>1 DEF Counted
    <2>4. nth' + Len(segments') <= Len(input'.segments) /\ nth' - 1 + Len(segments') <= Len(input'.segments)
      BY <1>1, <1>2, <1>3, <2>1, <2>2, <2>3
    <2> QED
      BY <1>1, <2>1, <2>2, <2>4 DEF Counted
  <1>6. CASE Parse
    <2>1. /\ reader = "parsing" /\ reader' \in {"undefined", "exits", "spins", "parsed"}
          /\ UNCHANGED <<segments, nth, hops>>
      BY <1>6 DEF Parse, ParseRequest, ParseFields
    <2> QED
      BY <1>1, <2>1 DEF Counted
  <1>7. CASE Settle
    <2>1. /\ reader = "parsed" /\ UNCHANGED <<segments, hops>>
          /\ \/ reader' = "reading" /\ nth' = nth + 1
             \/ reader' = "closed" /\ nth' = nth
      BY <1>7 DEF Settle
    <2>2. nth + Len(segments) <= sent
      BY <2>1 DEF Counted
    <2>3. nth + 1 \in 1..sent + 1
      BY <1>2, <1>3, <2>2
    <2>4. (nth + 1) - 1 + Len(segments) <= sent
      BY <1>3, <2>2
    <2> HIDE DEF sent
    <2> QED
      BY <1>1, <2>1, <2>3, <2>4 DEF Counted, sent
  <1>8. CASE Follow
    <2>1. hops < MaxHops /\ hops' = hops + 1 /\ UNCHANGED <<nth, segments, reader>>
      BY <1>8 DEF Follow
    <2>2. hops' \in 0..MaxHops
      BY <1>2, <1>3, <2>1
    <2> QED
      BY <1>1, <2>1, <2>2 DEF Counted
  <1>9. CASE UNCHANGED <<segments, reader, nth, hops>>
    BY <1>1, <1>9 DEF Counted
  <1>10. \/ Connect \/ Receive \/ Parse \/ Settle \/ Follow \/ UNCHANGED <<segments, reader, nth, hops>>
    BY DEF Next, ParseAndGetCli, CheckStructure, OpenFile, Scan, CheckFile, FillHttpData,
           FillServerData, SetWarnings, Start, ArchitectResponse, Done, vars, site_vars, header_vars
  <1> QED
    BY <1>4, <1>5, <1>6, <1>7, <1>8, <1>9, <1>10

\* The inductive invariant: what the scanner holds at every position, what
\* main() has read in every phase, and of which node every server is made.
THEOREM FileInvariant == Spec => []FileInv
  <1>1. Init => FileInv
    BY InitFile
  <1>2. SiteInv /\ FileInv /\ [Next]_vars => FileInv'
    BY ScanKept, ReadKept, FromFileKept, AnswersKept, CountedKept DEF FileInv, SiteInv
  <1> QED
    BY <1>1, <1>2, SiteInvariant, PTL DEF Spec

-----------------------------------------------------------------------------
(* The line that counts                                                    *)

\* The last line of ls that is in S, or none.
LastIn(ls, S) ==
    LET I == {n \in 1..Len(ls) : ls[n] \in S} IN IF I # {} THEN Max(I) ELSE 0

Latest(ls, S) == IF LastIn(ls, S) = 0 THEN << >> ELSE ls[LastIn(ls, S)]

For(f)     == {l \in Line : l[1] = f}

PageFor(c) == {l \in Line : l[1] = "error_page" /\ Key("error_page", l) = c}

LEMMA LastInIs ==
    ASSUME NEW ls, NEW S, Len(ls) \in Nat
    PROVE  LET n == LastIn(ls, S) IN
           /\ n \in 0..Len(ls)
           /\ n # 0 => ls[n] \in S
           /\ \A m \in 1..Len(ls) : ls[m] \in S => m <= n
  <1> DEFINE I == {n \in 1..Len(ls) : ls[n] \in S}
  <1>1. LastIn(ls, S) = IF I # {} THEN Max(I) ELSE 0
    BY DEF LastIn
  <1>2. I \subseteq 1..Len(ls) /\ \A n \in I : ls[n] \in S
    OBVIOUS
  <1>3. \A m \in 1..Len(ls) : ls[m] \in S => m \in I
    OBVIOUS
  <1> HIDE DEF I
  <1>4. CASE I # {}
    <2>1. Max(I) \in I /\ \A y \in I : y <= Max(I)
      BY <1>2, <1>4, MaxOf
    <2>2. Max(I) \in 1..Len(ls)
      BY <1>2, <2>1
    <2> QED
      BY <1>1, <1>2, <1>3, <1>4, <2>1, <2>2
  <1>5. CASE I = {}
    BY <1>1, <1>3, <1>5
  <1> QED
    BY <1>4, <1>5

\* There is one if one of them is in S, and it is a line of ls.
LEMMA LatestIs ==
    ASSUME NEW ls \in Lines, NEW S
    PROVE  /\ Latest(ls, S) # << >> => Latest(ls, S) \in S /\ Latest(ls, S) \in Line
                                      /\ \E n \in 1..Len(ls) : Latest(ls, S) = ls[n]
           /\ Latest(ls, S) # << >> <=> LastIn(ls, S) # 0
           /\ Latest(ls, S) # << >> <=> \E n \in 1..Len(ls) : ls[n] \in S
  <1>1. Len(ls) \in Nat /\ \A n \in 1..Len(ls) : ls[n] \in Line /\ ls[n] # << >>
    BY LinesAre DEF Line
  <1>2. /\ LastIn(ls, S) \in 0..Len(ls)
        /\ LastIn(ls, S) # 0 => ls[LastIn(ls, S)] \in S
        /\ \A m \in 1..Len(ls) : ls[m] \in S => m <= LastIn(ls, S)
    BY <1>1, LastInIs
  <1>3. CASE LastIn(ls, S) = 0
    <2>1. Latest(ls, S) = << >>
      BY <1>3 DEF Latest
    <2>2. ~\E n \in 1..Len(ls) : ls[n] \in S
      BY <1>2, <1>3
    <2> QED
      BY <1>3, <2>1, <2>2
  <1>4. CASE LastIn(ls, S) # 0
    <2>1. LastIn(ls, S) \in 1..Len(ls)
      BY <1>1, <1>2, <1>4
    <2>2. Latest(ls, S) = ls[LastIn(ls, S)]
      BY <1>4 DEF Latest
    <2> QED
      BY <1>1, <1>2, <1>4, <2>1, <2>2
  <1> QED
    BY <1>3, <1>4

\* What comes behind counts more.
LEMMA LatestOfBoth ==
    ASSUME NEW a \in Lines, NEW b \in Lines, NEW S
    PROVE  Latest(a \o b, S) = IF Latest(b, S) # << >> THEN Latest(b, S) ELSE Latest(a, S)
  <1> DEFINE c == a \o b
             n == LastIn(c, S)
  <1>1. /\ Len(a) \in Nat /\ Len(b) \in Nat /\ Len(c) = Len(a) + Len(b) /\ c \in Lines
        /\ \A m \in 1..Len(a) : c[m] = a[m]
        /\ \A m \in 1..Len(b) : c[Len(a) + m] = b[m]
    BY DEF Lines
  <1> HIDE DEF c
  <1>2. /\ n \in 0..Len(c) /\ (n # 0 => c[n] \in S)
        /\ \A m \in 1..Len(c) : c[m] \in S => m <= n
    BY <1>1, LastInIs
  <1>3. /\ LastIn(a, S) \in 0..Len(a) /\ (LastIn(a, S) # 0 => a[LastIn(a, S)] \in S)
        /\ \A m \in 1..Len(a) : a[m] \in S => m <= LastIn(a, S)
    BY <1>1, LastInIs
  <1>4. /\ LastIn(b, S) \in 0..Len(b) /\ (LastIn(b, S) # 0 => b[LastIn(b, S)] \in S)
        /\ \A m \in 1..Len(b) : b[m] \in S => m <= LastIn(b, S)
    BY <1>1, LastInIs
  <1> HIDE DEF n
  <1>5. CASE LastIn(b, S) # 0
    <2> DEFINE x == LastIn(b, S)
    <2>1. x \in 1..Len(b) /\ Len(a) + x \in 1..Len(c) /\ c[Len(a) + x] \in S
      BY <1>1, <1>4, <1>5
    <2>2. Len(a) + x <= n
      BY <1>2, <2>1
    <2>3. n - Len(a) \in 1..Len(b) /\ Len(a) + (n - Len(a)) = n
      BY <1>1, <1>2, <2>1, <2>2
    <2>4. b[n - Len(a)] = c[n] /\ c[n] \in S
      BY <1>1, <1>2, <2>1, <2>2, <2>3, SMTT(60)
    <2>5. n - Len(a) <= x
      BY <1>4, <2>3, <2>4
    <2>6. n - Len(a) = x /\ n # 0
      <3>1. x \in Nat \ {0} /\ n \in Nat /\ Len(a) \in Nat
        BY <1>1, <1>2, <2>1
      <3> HIDE DEF x
      <3> QED
        BY <2>2, <2>5, <3>1
    <2> QED
      BY <1>1, <1>5, <2>4, <2>6, LatestIs DEF Latest, n, c
  <1>6. CASE LastIn(b, S) = 0
    <2>1. Latest(b, S) = << >>
      BY <1>6 DEF Latest
    <2>2. \A m \in 1..Len(b) : b[m] \notin S
      BY <1>1, <1>4, <1>6
    <2>3. n \in 0..Len(a)
      <3>1. ASSUME n > Len(a) PROVE FALSE
        <4>1. n - Len(a) \in 1..Len(b) /\ Len(a) + (n - Len(a)) = n /\ n # 0
          BY <1>1, <1>2, <3>1
        <4> QED
          BY <1>1, <1>2, <2>2, <4>1
      <3> QED
        BY <1>1, <1>2, <3>1
    <2>4. n <= LastIn(a, S)
      BY <1>1, <1>2, <1>3, <2>3
    <2>5. LastIn(a, S) <= n
      <3>1. CASE LastIn(a, S) = 0
        BY <1>2, <3>1
      <3>2. CASE LastIn(a, S) # 0
        <4>1. LastIn(a, S) \in 1..Len(a) /\ LastIn(a, S) \in 1..Len(c)
          BY <1>1, <1>3, <3>2
        <4> QED
          BY <1>1, <1>2, <1>3, <3>2, <4>1
      <3> QED
        BY <3>1, <3>2
    <2>6. n = LastIn(a, S) /\ (n # 0 => c[n] = a[n])
      BY <1>1, <1>2, <1>3, <2>3, <2>4, <2>5
    <2> QED
      BY <2>1, <2>6 DEF Latest, n, c
  <1> QED
    BY <1>5, <1>6

\* The lines for a token, as they are looked for.
LEMMA LastForIs ==
    ASSUME NEW ls \in Lines, NEW f
    PROVE  SelectLastInSeq(ls, LAMBDA l : l[1] = f) = LastIn(ls, For(f))
  <1>1. {n \in 1..Len(ls) : ls[n][1] = f} = {n \in 1..Len(ls) : ls[n] \in For(f)}
    BY LinesAre DEF For
  <1> QED
    BY <1>1 DEF SelectLastInSeq, LastIn

\* FillBlock, by the line that counts.
Filling(block, f, l, own, above) ==
    CASE l = << >> -> own
      [] l # << >> /\ f = "allowed_methods" /\ Tail(l) = <<"*">> -> above
      [] l # << >> /\ f = "redirect" -> {Names(l[2])}
      [] OTHER -> Value(block, Tokens[block][f], l)

LEMMA FillBlockIs ==
    ASSUME NEW block, NEW above, NEW s, NEW ls \in Lines, NEW f \in DOMAIN s,
           f # "error_page", f # "cgi_bin"
    PROVE  FillBlock(block, above, s, ls)[f] = Filling(block, f, Latest(ls, For(f)), s[f], above[f])
  <1> DEFINE n == SelectLastInSeq(ls, LAMBDA l : l[1] = f)
             m == LastIn(ls, For(f))
             v(x) == CASE f \in {"error_page", "cgi_bin"} -> Added(f, ls, s[f])
                       [] f = "allowed_methods" /\ Tail(ls[x]) = <<"*">> -> above[f]
                       [] f = "redirect" -> {Names(ls[x][2])}
                       [] OTHER -> Value(block, Tokens[block][f], ls[x])
  <1>1. FillBlock(block, above, s, ls)[f] = IF n = 0 THEN s[f] ELSE v(n)
    BY DEF FillBlock
  <1>2. n = m
    BY LastForIs
  <1>3. m # 0 <=> Latest(ls, For(f)) # << >>
    BY LatestIs
  <1>4. m # 0 => Latest(ls, For(f)) = ls[m]
    BY DEF Latest
  <1> HIDE DEF n, m
  <1>5. m # 0 => v(m) = Filling(block, f, Latest(ls, For(f)), s[f], above[f])
    <2> DEFINE l == ls[m]
    <2>1. m # 0 => Latest(ls, For(f)) = l /\ l # << >>
      BY <1>3, <1>4
    <2> HIDE DEF l
    <2>2. v(m) = CASE f = "allowed_methods" /\ Tail(l) = <<"*">> -> above[f]
                   [] f = "redirect" -> {Names(l[2])}
                   [] OTHER -> Value(block, Tokens[block][f], l)
      BY DEF l
    <2> HIDE DEF v
    <2> QED
      BY <2>1, <2>2 DEF Filling
  <1>6. m = 0 => s[f] = Filling(block, f, Latest(ls, For(f)), s[f], above[f])
    BY <1>3 DEF Filling
  <1> HIDE DEF v
  <1> QED
    BY <1>1, <1>2, <1>5, <1>6

-----------------------------------------------------------------------------
(* The settings of a server                                                *)

\* Looking for the line of client_max_uri_size in a row of its own changes
\* no other line.
LEMMA ServerLinesAre ==
    ASSUME NEW k, NEW n, n.words \in Lines
    PROVE  LET ls == ServerLines(k, n) IN
           /\ Len(ls) = Len(n.words) /\ DOMAIN ls = 1..Len(n.words)
           /\ \A m \in 1..Len(n.words) :
                 /\ ls[m][1] = n.words[m][1]
                 /\ n.words[m][1] # "client_max_uri_size" => ls[m] = n.words[m]
  <1> DEFINE w == n.words
             g(m) == IF w[m][1] = "client_max_uri_size"
                     THEN <<"client_max_uri_size", UriLine(k, n)[2]>> ELSE w[m]
             ls == [m \in DOMAIN w |-> g(m)]
             T == {g(m) : m \in 1..Len(w)}
  <1>1. Len(w) \in Nat /\ DOMAIN w = 1..Len(w)
    BY LinesAre
  <1>2. ServerLines(k, n) = ls
    BY DEF ServerLines
  <1>3. ls \in [1..Len(w) -> T]
    BY <1>1
  <1>4. Len(ls) = Len(w) /\ DOMAIN ls = 1..Len(w)
    <2> HIDE DEF T, ls
    <2> QED
      BY <1>1, <1>3, FunctionIsSeq
  <1>5. ASSUME NEW m \in 1..Len(w)
        PROVE  ls[m][1] = w[m][1] /\ (w[m][1] # "client_max_uri_size" => ls[m] = w[m])
    <2>1. ls[m] = g(m)
      BY <1>1
    <2>2. <<"client_max_uri_size", UriLine(k, n)[2]>>[1] = "client_max_uri_size"
      OBVIOUS
    <2> HIDE DEF ls
    <2> QED
      BY <2>1, <2>2
  <1> HIDE DEF ls, T, g
  <1> QED
    BY <1>2, <1>4, <1>5

LEMMA ServerFillIs ==
    ASSUME NEW k, NEW n, NEW s, NEW f \in DOMAIN s, NEW w \in Lines, n.words = w,
           f # "error_page", f # "cgi_bin", f # "client_max_uri_size"
    PROVE  FillBlock("server", s, s, ServerLines(k, n))[f]
              = Filling("server", f, Latest(w, For(f)), s[f], s[f])
  <1> DEFINE ls == ServerLines(k, n)
             x == SelectLastInSeq(ls, LAMBDA l : l[1] = f)
             m == LastIn(w, For(f))
             v(y) == CASE f \in {"error_page", "cgi_bin"} -> Added(f, ls, s[f])
                       [] f = "allowed_methods" /\ Tail(ls[y]) = <<"*">> -> s[f]
                       [] f = "redirect" -> {Names(ls[y][2])}
                       [] OTHER -> Value("server", Tokens["server"][f], ls[y])
  <1>1. FillBlock("server", s, s, ls)[f] = IF x = 0 THEN s[f] ELSE v(x)
    BY DEF FillBlock
  <1>2. /\ Len(ls) = Len(w)
        /\ \A q \in 1..Len(w) :
              /\ ls[q][1] = w[q][1]
              /\ w[q][1] # "client_max_uri_size" => ls[q] = w[q]
    BY ServerLinesAre
  <1>0. Len(w) \in Nat /\ \A q \in 1..Len(w) : w[q] \in Line
    BY LinesAre
  <1> HIDE DEF ls
  <1>3. x = m
    <2>1. \A q \in 1..Len(w) : ls[q][1] = f <=> w[q] \in For(f)
      <3>1. SUFFICES ASSUME NEW q \in 1..Len(w) PROVE ls[q][1] = f <=> w[q] \in For(f)
        OBVIOUS
      <3>2. w[q] \in Line /\ ls[q][1] = w[q][1]
        BY <1>0, <1>2
      <3> QED
        BY <3>2 DEF For
    <2>2. {q \in 1..Len(ls) : ls[q][1] = f} = {q \in 1..Len(w) : w[q] \in For(f)}
      BY <1>2, <2>1
    <2> QED
      BY <2>2 DEF SelectLastInSeq, LastIn
  <1>4. m # 0 <=> Latest(w, For(f)) # << >>
    BY LatestIs
  <1>5. m # 0 => Latest(w, For(f)) = ls[m]
    <2>1. m # 0 => m \in 1..Len(w) /\ w[m] \in For(f)
      <3>1. Len(w) \in Nat
        BY LinesAre
      <3>2. m \in 0..Len(w) /\ (m # 0 => w[m] \in For(f))
        BY <3>1, LastInIs
      <3> HIDE DEF m
      <3> QED
        BY <3>1, <3>2
    <2>2. m # 0 => w[m] = ls[m]
      <3>1. m # 0 => w[m][1] = f
        BY <2>1 DEF For
      <3> HIDE DEF m
      <3> QED
        BY <1>2, <2>1, <3>1
    <2> QED
      BY <2>2 DEF Latest
  <1> HIDE DEF x, m
  <1>6. m # 0 => v(m) = Filling("server", f, Latest(w, For(f)), s[f], s[f])
    <2> DEFINE l == ls[m]
    <2>1. m # 0 => Latest(w, For(f)) = l /\ l # << >>
      BY <1>4, <1>5
    <2> HIDE DEF l
    <2>2. v(m) = CASE f = "allowed_methods" /\ Tail(l) = <<"*">> -> s[f]
                   [] f = "redirect" -> {Names(l[2])}
                   [] OTHER -> Value("server", Tokens["server"][f], l)
      BY DEF l
    <2> HIDE DEF v
    <2> QED
      BY <2>1, <2>2 DEF Filling
  <1>7. m = 0 => s[f] = Filling("server", f, Latest(w, For(f)), s[f], s[f])
    BY <1>4 DEF Filling
  <1> HIDE DEF v
  <1> QED
    BY <1>1, <1>3, <1>6, <1>7 DEF ls

LEMMA With404Keeps ==
    ASSUME NEW s
    PROVE  DOMAIN With404Page(s) = DOMAIN s /\ \A f \in DOMAIN s : f # "try_404_files" => With404Page(s)[f] = s[f]
  BY DEF With404Page

\* Of two integers.
LEMMA MinIs ==
    ASSUME NEW a \in Int, NEW b \in Int
    PROVE  Min({a, b}) = IF a <= b THEN a ELSE b
  <1>1. CASE a <= b
    <2>1. \E x \in {a, b} : \A y \in {a, b} : x <= y
      BY <1>1
    <2>2. \A x \in {a, b} : (\A y \in {a, b} : x <= y) => x = a
      BY <1>1
    <2> QED
      BY <1>1, <2>1, <2>2 DEF Min
  <1>2. CASE ~(a <= b)
    <2>1. \E x \in {a, b} : \A y \in {a, b} : x <= y
      BY <1>2
    <2>2. \A x \in {a, b} : (\A y \in {a, b} : x <= y) => x = b
      BY <1>2
    <2> QED
      BY <1>2, <2>1, <2>2 DEF Min
  <1> QED
    BY <1>1, <1>2

LEMMA ClampedIs ==
    ASSUME NEW c
    PROVE  /\ DOMAIN Clamped(c) = DOMAIN c
           /\ \A t \in DOMAIN c : Clamped(c)[t] =
                 IF t \in DOMAIN Limits THEN Min({c[t], Limits[t]}) ELSE c[t]
  BY DEF Clamped

-----------------------------------------------------------------------------
(* Numbers                                                                 *)

LEMMA NumberType ==
    ASSUME NEW w
    PROVE  Number(w) \in Nat
  BY SettingsAssumption DEF Number

LEMMA AsIntIs ==
    ASSUME NEW n \in Nat
    PROVE  AsInt(n) \in Int /\ (n < IntRange \div 2 => AsInt(n) = n)
  <1> DEFINE R == IntRange
  <1>1. R \in Nat /\ R > 0
    BY SettingsAssumption
  <1>2. AsInt(n) = ((n + R \div 2) % R) - R \div 2
    BY DEF AsInt
  <1> HIDE DEF R
  <1>3. ((n + R \div 2) % R) - R \div 2 \in Int
    BY <1>1
  <1>4. n < R \div 2 => ((n + R \div 2) % R) - R \div 2 = n
    BY <1>1
  <1> QED
    BY <1>2, <1>3, <1>4 DEF R

LEMMA RemainderIs ==
    ASSUME NEW a \in Nat, NEW b \in Nat, b > 0
    PROVE  a % b \in Int /\ 0 <= a % b /\ a % b < b
  OBVIOUS

LEMMA AsShortType ==
    ASSUME NEW n \in Nat
    PROVE  AsShort(n) \in Int /\ -32768 <= AsShort(n) /\ AsShort(n) <= 32767
  <1>1. PICK m : m = (n + 32768) % 65536
    OBVIOUS
  <1>2. m \in Int /\ 0 <= m /\ m < 65536
    BY <1>1, RemainderIs
  <1> QED
    BY <1>1, <1>2 DEF AsShort

LEMMA AsShortIs ==
    ASSUME NEW n \in Nat, n < 65536
    PROVE  (AsShort(n) + 65536) % 65536 = n
  <1> DEFINE s == (n + 32768) % 65536
  <1>1. s \in Int /\ 0 <= s /\ s < 65536
    BY RemainderIs
  <1>2. AsShort(n) = s - 32768
    BY DEF AsShort
  <1>3. ASSUME n < 32768 PROVE s = n + 32768
    BY <1>3
  <1>4. ASSUME 32768 <= n, n < 65536 PROVE s = n - 32768
    BY <1>4
  <1> HIDE DEF s
  <1>5. ASSUME n < 32768 PROVE (AsShort(n) + 65536) % 65536 = n
    <2>1. AsShort(n) = n
      BY <1>2, <1>3, <1>5
    <2>2. (n + 65536) % 65536 = n
      BY <1>5
    <2> QED
      BY <2>1, <2>2
  <1>6. ASSUME 32768 <= n, n < 65536 PROVE (AsShort(n) + 65536) % 65536 = n
    <2>1. AsShort(n) + 65536 = n
      BY <1>2, <1>4, <1>6
    <2>2. n % 65536 = n
      BY <1>6
    <2> QED
      BY <2>1, <2>2
  <1> QED
    BY <1>1, <1>2, <1>5, <1>6

\* A number that was checked to be below 65536, as an int, is below it.
LEMMA ShortWritten ==
    ASSUME NEW n \in Nat, n < IntRange \div 2, AsInt(n) < 65536
    PROVE  (AsShort(n) + 65536) % 65536 = n
  <1>1. AsInt(n) = n
    BY AsIntIs
  <1> QED
    BY <1>1, AsShortIs

\* What a line of a number says, read as in the http block.
LEMMA NumericValue ==
    ASSUME NEW type \in Numeric, NEW l
    PROVE  /\ Value("http", type, l) \in Nat
           /\ Value("server", type, l) = AsInt(Value("http", type, l))
  <1>1. Number(l[2]) \in Nat
    BY NumberType
  <1>2. Time(l[2]) \in Nat
    BY <1>1 DEF Time
  <1>3. Size(l[2]) \in Nat
    BY <1>1 DEF Size
  <1>4. CASE type = "INT"
    BY <1>1, <1>4 DEF Value, Stored
  <1>5. CASE type = "DATE"
    BY <1>2, <1>5 DEF Value, Stored
  <1>6. CASE type = "SIZE"
    BY <1>3, <1>6 DEF Value, Stored
  <1> QED
    BY <1>4, <1>5, <1>6 DEF Numeric

-----------------------------------------------------------------------------
(* What is_file_valid() has checked                                        *)

LEMMA BlockValid ==
    ASSUME NEW block, NEW ls \in Lines, BlockVerdict(block, ls) = "valid", NEW n \in 1..Len(ls)
    PROVE  LineVerdict(block, ls[n]) = "valid"
  <1> DEFINE bad == {m \in DOMAIN ls : LineVerdict(block, ls[m]) # "valid"}
  <1>1. BlockVerdict(block, ls) = IF bad = {} THEN "valid" ELSE LineVerdict(block, ls[Min(bad)])
    BY DEF BlockVerdict
  <1>2. DOMAIN ls = 1..Len(ls) /\ bad \subseteq Nat
    BY LinesAre
  <1>3. bad # {} => LineVerdict(block, ls[Min(bad)]) # "valid"
    <2>1. bad # {} => Min(bad) \in bad
      <3> HIDE DEF bad
      <3> QED
        BY <1>2, MinOf
    <2> QED
      BY <2>1
  <1>4. bad = {}
    <2> HIDE DEF bad
    <2> QED
      BY <1>1, <1>3
  <1> QED
    BY <1>2, <1>4

LEMMA FileValid ==
    ASSUME NEW h, NEW ns \in Seq(Node), FileVerdict(h, ns) = "valid"
    PROVE  /\ BlockVerdict("http", h) = "valid"
           /\ \A k \in 1..Len(ns) : /\ BlockVerdict("server", ns[k].words) = "valid"
                                    /\ BlockVerdict("location", ns[k].location_blocks) = "valid"
  <1> DEFINE verdict == [k \in DOMAIN ns |-> ServerVerdict(ns[k])]
             bad     == {k \in DOMAIN ns : verdict[k] # "valid"}
             of_http == BlockVerdict("http", h)
  <1>1. FileVerdict(h, ns) = CASE of_http # "valid" -> of_http
                               [] of_http = "valid" /\ bad # {} -> verdict[Min(bad)]
                               [] OTHER -> "valid"
    BY DEF FileVerdict
  <1>2. DOMAIN ns = 1..Len(ns) /\ bad \subseteq Nat
    OBVIOUS
  <1>3. bad # {} => verdict[Min(bad)] # "valid"
    <2>1. bad # {} => Min(bad) \in bad
      <3> HIDE DEF bad
      <3> QED
        BY <1>2, MinOf
    <2> QED
      BY <2>1
  <1>4. of_http = "valid" /\ bad = {}
    <2> HIDE DEF bad, of_http, verdict
    <2> QED
      BY <1>1, <1>3
  <1>5. ASSUME NEW k \in 1..Len(ns) PROVE ServerVerdict(ns[k]) = "valid"
    BY <1>2, <1>4
  <1> QED
    BY <1>4, <1>5 DEF ServerVerdict

\* A line that was checked has a token of its block, and a value of the
\* token's type.
LEMMA LineChecked ==
    ASSUME NEW block, NEW l, LineVerdict(block, l) = "valid"
    PROVE  l[1] \in DOMAIN Tokens[block] /\ ValueFits(block, Tokens[block][l[1]], l)
  <1> DEFINE type == Tokens[block][l[1]]
             ok == ValueFits(block, type, l)
  <1>1. l[1] \in DOMAIN Tokens[block]
    BY DEF LineVerdict
  <1>2. LineVerdict(block, l) =
            CASE ~CountFits(block, type, Len(l))   -> "invalid"
              [] Len(l) < WordsRead(type, Len(l)) -> "undefined"
              [] OTHER -> IF ok THEN "valid" ELSE "invalid"
    BY <1>1 DEF LineVerdict
  <1> HIDE DEF type, ok
  <1>3. ok
    BY <1>2
  <1> QED
    BY <1>1, <1>3 DEF ok, type

-----------------------------------------------------------------------------
(* Ports                                                                   *)

LEMMA PortIs ==
    ASSUME NEW n, NEW w \in Lines, n.words = w
    PROVE  LET l == Latest(w, For("listen"))
           IN Port(n) = IF l = << >> THEN UNDEFINED ELSE AsShort(Number(l[2]))
  <1> DEFINE x == SelectLastInSeq(w, LAMBDA l : l[1] = "listen")
  <1>1. Port(n) = IF x = 0 THEN UNDEFINED ELSE AsShort(Number(w[x][2]))
    BY DEF Port
  <1>2. x = LastIn(w, For("listen"))
    BY LastForIs
  <1>3. Latest(w, For("listen")) # << >> <=> LastIn(w, For("listen")) # 0
    BY LatestIs
  <1> HIDE DEF x
  <1> QED
    BY <1>1, <1>2, <1>3 DEF Latest

\* A server that nothing stopped listens, on a port that no server before it
\* has taken.
LEMMA NotStopped ==
    ASSUME NEW k, NEW n, NEW taken, NEW w \in Lines, n.words = w,
           ServerStops(k, n, taken) = "no"
    PROVE  Port(n) # UNDEFINED /\ Port(n) \in Ports(n) /\ Port(n) \notin taken
  <1> DEFINE stops(m) == LineStops(k, n, m, taken)
             bad == {m \in DOMAIN w : stops(m) # "no"}
             p == Port(n)
  <1>1. ServerStops(k, n, taken) =
            CASE n.id # "server" /\ w # << >> -> "InvalidHttpToken"
              [] n.id = "server" /\ bad # {} -> stops(Min(bad))
              [] OTHER -> IF p = UNDEFINED THEN "UndefinedPort" ELSE "no"
    BY DEF ServerStops
  <1>2. Len(w) \in Nat /\ DOMAIN w = 1..Len(w) /\ bad \subseteq Nat
    BY LinesAre
  <1>3. bad # {} => stops(Min(bad)) # "no"
    <2>1. bad # {} => Min(bad) \in bad
      <3> HIDE DEF bad
      <3> QED
        BY <1>2, MinOf
    <2> HIDE DEF stops
    <2> QED
      BY <2>1
  <1>4. p # UNDEFINED /\ (n.id = "server" => bad = {}) /\ (n.id # "server" => w = << >>)
    <2> HIDE DEF bad, stops, p
    <2> QED
      BY <1>1, <1>3
  <1> DEFINE x == LastIn(w, For("listen"))
             l == Latest(w, For("listen"))
  <1>5. l # << >> /\ p = AsShort(Number(l[2]))
    BY <1>4, PortIs
  <1>6. x # 0 /\ l = w[x]
    BY <1>5, LatestIs DEF Latest
  <1>7. x \in 1..Len(w) /\ w[x] \in For("listen")
    <2>1. x \in 0..Len(w) /\ (x # 0 => w[x] \in For("listen"))
      BY <1>2, LastInIs
    <2> HIDE DEF x
    <2> QED
      BY <1>2, <1>6, <2>1
  <1>8. w[x][1] = "listen" /\ p = AsShort(Number(w[x][2]))
    BY <1>5, <1>6, <1>7 DEF For
  <1>9. bad = {}
    BY <1>2, <1>4, <1>7
  <1> HIDE DEF x, p, l
  <1>10. p \in Ports(n)
    BY <1>2, <1>7, <1>8 DEF Ports
  <1>11. stops(x) = "no"
    BY <1>2, <1>7, <1>9
  <1>12. p \notin taken
    BY <1>8, <1>11 DEF LineStops
  <1> QED
    BY <1>4, <1>10, <1>12 DEF p

\* The fields of a server's settings that are filled by one line.
LEMMA ServerFieldIs ==
    ASSUME NEW k, NEW n, NEW h, NEW m, NEW w \in Lines, n.words = w,
           NEW f \in DOMAIN ServerDefaults(h, m),
           f # "error_page", f # "cgi_bin", f # "client_max_uri_size", f # "try_404_files"
    PROVE  LET own == ServerDefaults(h, m)[f] IN
           /\ f \in DOMAIN FillServer(k, n, h, m)
           /\ FillServer(k, n, h, m)[f] = Filling("server", f, Latest(w, For(f)), own, own)
  <1> DEFINE s == ServerDefaults(h, m)
             b == FillBlock("server", s, s, ServerLines(k, n))
  <1>1. FillServer(k, n, h, m) = With404Page(b)
    BY DEF FillServer
  <1> HIDE DEF s
  <1>2. f \in DOMAIN b
    BY DEF FillBlock, s
  <1>3. b[f] = Filling("server", f, Latest(w, For(f)), s[f], s[f])
    BY ServerFillIs DEF s
  <1> HIDE DEF b
  <1> QED
    BY <1>1, <1>2, <1>3, With404Keeps DEF s

LEMMA ListenIsPort ==
    ASSUME NEW k, NEW n, NEW h, NEW m, NEW w \in Lines, n.words = w
    PROVE  LET conf == FillServer(k, n, h, m) IN
           /\ "listen" \in DOMAIN conf /\ conf.listen = Port(n)
           /\ Clamped(conf).listen = Port(n)
  <1> DEFINE s == ServerDefaults(h, m)
             conf == FillServer(k, n, h, m)
             l == Latest(w, For("listen"))
  <1>1. "listen" \in DOMAIN s /\ s["listen"] = UNDEFINED
    BY DEF ServerDefaults
  <1>2. "listen" \in DOMAIN conf /\ conf["listen"] = Filling("server", "listen", l, UNDEFINED, UNDEFINED)
    BY <1>1, ServerFieldIs
  <1>3. Tokens["server"]["listen"] = "SHORT_INT"
    BY DEF Tokens, ServerTokens
  <1>4. Port(n) = IF l = << >> THEN UNDEFINED ELSE AsShort(Number(l[2]))
    BY PortIs
  <1>5. Filling("server", "listen", l, UNDEFINED, UNDEFINED) = Port(n)
    <2> HIDE DEF l
    <2> QED
      BY <1>3, <1>4 DEF Filling, Value
  <1>6. Clamped(conf)["listen"] = conf["listen"]
    <2>1. "listen" \notin DOMAIN Limits
      BY DEF Limits
    <2> HIDE DEF conf
    <2> QED
      BY <1>2, <2>1 DEF Clamped
  <1> QED
    BY <1>2, <1>5, <1>6

LEMMA PortBound ==
    ASSUME NEW p \in Int, -32768 <= p, p <= 32767, p # UNDEFINED
    PROVE  p \in BoundPort
  \* The two ends are named: the provers would list the numbers between them.
  <1>1. PICK low : low = -32768
    OBVIOUS
  <1>2. PICK high : high = 32767
    OBVIOUS
  <1>3. p \in low..high /\ low \in Int /\ high \in Int
    <2>1. low \in Int /\ high \in Int /\ low <= p /\ p <= high
      BY <1>1, <1>2
    <2> QED
      BY <2>1
  <1>4. BoundPort = (low..high) \ {UNDEFINED}
    BY <1>1, <1>2, SMTT(60) DEF BoundPort
  <1> QED
    BY <1>3, <1>4

LEMMA PortType ==
    ASSUME NEW n, NEW w \in Lines, n.words = w, Port(n) # UNDEFINED
    PROVE  Port(n) \in BoundPort
  <1> DEFINE l == Latest(w, For("listen"))
  <1>1. PICK q : q = Number(l[2])
    OBVIOUS
  <1>2. Port(n) = AsShort(q)
    BY <1>1, PortIs
  <1>3. q \in Nat
    BY <1>1, NumberType
  <1>4. PICK p : p = AsShort(q)
    OBVIOUS
  <1>5. p \in Int /\ -32768 <= p /\ p <= 32767
    BY <1>3, <1>4, AsShortType
  <1>6. p # UNDEFINED
    BY <1>2, <1>4
  <1>7. p \in BoundPort
    BY <1>5, <1>6, PortBound
  <1> QED
    BY <1>2, <1>4, <1>7

\* What FileInv says of a server and its node.
LEMMA ServerIs ==
    ASSUME FileInv, NEW k \in DOMAIN servers
    PROVE  /\ k \in 1..Len(nodes) /\ nodes[k].words \in Lines /\ nodes[k].location_blocks \in Lines
           /\ servers[k].conf.listen = Port(nodes[k])
           /\ Port(nodes[k]) # UNDEFINED /\ Port(nodes[k]) \in Ports(nodes[k])
           /\ \A n \in 1..k - 1 : Port(nodes[k]) \notin Ports(nodes[n])
  <1> DEFINE conf == FillServer(k, nodes[k], http, input.memory)
             taken == UNION {Ports(nodes[n]) : n \in 1..k - 1}
  <1>1. nodes \in Seq(Node) /\ k \in DOMAIN nodes /\ OfNode(k)
    BY DEF FileInv, ScanType, FromFile
  <1>2. k \in 1..Len(nodes) /\ nodes[k] \in Node
    BY <1>1
  <1>3. nodes[k].words \in Lines /\ nodes[k].location_blocks \in Lines
    BY <1>2 DEF Node
  <1>4. /\ servers[k].conf = IF servers[k].warned THEN Clamped(conf) ELSE conf
        /\ ServerStops(k, nodes[k], taken) = "no"
    BY <1>1 DEF OfNode
  <1>5. servers[k].conf.listen = Port(nodes[k])
    <2>1. conf.listen = Port(nodes[k]) /\ Clamped(conf).listen = Port(nodes[k])
      BY <1>3, ListenIsPort
    <2> HIDE DEF conf
    <2> QED
      BY <1>4, <2>1
  <1>6. Port(nodes[k]) # UNDEFINED /\ Port(nodes[k]) \in Ports(nodes[k]) /\ Port(nodes[k]) \notin taken
    <2> HIDE DEF taken
    <2> QED
      BY <1>3, <1>4, NotStopped
  <1>7. \A n \in 1..k - 1 : Ports(nodes[n]) \subseteq taken
    OBVIOUS
  <1> HIDE DEF taken
  <1> QED
    BY <1>2, <1>3, <1>5, <1>6, <1>7

-----------------------------------------------------------------------------
(* Types                                                                   *)

LEMMA TypeFollows == SiteInv /\ FileInv => TypeOK
  <1> SUFFICES ASSUME SiteInv, FileInv PROVE TypeOK
    OBVIOUS
  <1>1. ASSUME NEW k \in DOMAIN servers
        PROVE  /\ servers[k].conf.listen \in BoundPort
               /\ servers[k].warned \in BOOLEAN
    <2>1. nodes[k].words \in Lines /\ servers[k].conf.listen = Port(nodes[k])
          /\ Port(nodes[k]) # UNDEFINED
      BY ServerIs
    <2>3. Port(nodes[k]) \in BoundPort
      BY <2>1, PortType
    <2>2. servers[k].warned \in BOOLEAN
      BY DEF SiteInv, Filled, IsServer
    <2> QED
      BY <2>1, <2>2, <2>3
  <1>2. /\ phase \in Phases
        /\ cli \in [strict : BOOLEAN, logs : BOOLEAN, help : BOOLEAN, reset_logs : BOOLEAN]
        /\ DOMAIN http = DOMAIN HttpDefaults /\ is_warning_set \in BOOLEAN
    BY DEF FileInv, Read
  <1>3. at \in Loops \cup Ends /\ i \in Nat \ {0} /\ j \in Nat \ {0}
    BY DEF FileInv, ScanType
  <1>4. /\ reader \in {"idle", "reading", "parsing", "parsed", "exits", "spins", "undefined", "closed"}
        /\ nth \in 1..Len(input.segments) + 1 /\ hops \in 0..MaxHops
    BY DEF FileInv, Counted
  <1> QED
    BY <1>1, <1>2, <1>3, <1>4 DEF TypeOK

\* Whatever the file, the command line and what is sent: every variable keeps
\* its type, and every server that is filled has a port.
THEOREM TypeCorrect == Spec => []TypeOK
  <1> QED
    BY SiteInvariant, FileInvariant, TypeFollows, PTL

-----------------------------------------------------------------------------
(* A file that was read as it is written                                   *)

LEMMA AsWritten ==
    ASSUME FileInv, ParsedAsWritten, input.plain, phase = "running"
    PROVE  /\ http_as_words = input.http /\ input.http \in Lines
           /\ BlockVerdict("http", input.http) = "valid"
           /\ http = HttpConfigs
           /\ \A k \in DOMAIN servers :
                 /\ k \in DOMAIN input.sites /\ nodes[k] = NodeOf(input.sites[k])
                 /\ nodes[k].words = input.sites[k].words /\ input.sites[k].words \in Lines
                 /\ BlockVerdict("server", input.sites[k].words) = "valid"
                 /\ BlockVerdict("location", nodes[k].location_blocks) = "valid"
  <1>1. at = "parsed" /\ FileVerdict(http_as_words, nodes) = "valid" /\ http = HttpConfigs
        /\ input \in Inputs
    BY DEF FileInv, Read, Scanned, Valid, Ready
  <1>2. http_as_words = input.http /\ nodes = [k \in DOMAIN input.sites |-> NodeOf(input.sites[k])]
    BY <1>1 DEF ParsedAsWritten, Ends
  <1>3. /\ BlockVerdict("http", http_as_words) = "valid"
        /\ \A k \in 1..Len(nodes) : /\ BlockVerdict("server", nodes[k].words) = "valid"
                                    /\ BlockVerdict("location", nodes[k].location_blocks) = "valid"
    BY <1>1, FileValid DEF FileInv, ScanType
  <1>4. http_as_words \in Lines
    BY DEF FileInv, ScanType
  <1>5. ASSUME NEW k \in DOMAIN servers
        PROVE  /\ k \in DOMAIN input.sites /\ nodes[k] = NodeOf(input.sites[k])
               /\ nodes[k].words = input.sites[k].words /\ input.sites[k].words \in Lines
               /\ BlockVerdict("server", input.sites[k].words) = "valid"
               /\ BlockVerdict("location", nodes[k].location_blocks) = "valid"
    <2>1. k \in 1..Len(nodes) /\ nodes[k].words \in Lines
      BY ServerIs
    <2>2. k \in DOMAIN nodes
      BY DEF FileInv, FromFile
    <2>3. k \in DOMAIN input.sites /\ nodes[k] = NodeOf(input.sites[k])
      BY <1>2, <2>2
    <2>4. nodes[k].words = input.sites[k].words
      BY <2>3 DEF NodeOf
    <2> QED
      BY <1>3, <2>1, <2>3, <2>4
  <1> QED
    BY <1>1, <1>2, <1>3, <1>4, <1>5

LEMMA ListenChecked ==
    ASSUME NEW w \in Lines, BlockVerdict("server", w) = "valid",
           Latest(w, For("listen")) # << >>
    PROVE  IsShortInt(Latest(w, For("listen"))[2])
  <1> DEFINE l == Latest(w, For("listen"))
  <1>1. PICK n \in 1..Len(w) : l = w[n]
    BY LatestIs
  <1>2. l[1] = "listen"
    BY LatestIs DEF For
  <1>3. LineVerdict("server", l) = "valid"
    BY <1>1, BlockValid
  <1> HIDE DEF l
  <1>4. Tokens["server"]["listen"] = "SHORT_INT"
    BY DEF Tokens, ServerTokens
  <1>5. ValueFits("server", "SHORT_INT", l)
    BY <1>2, <1>3, <1>4, LineChecked
  <1> QED
    BY <1>5 DEF ValueFits, l

LEMMA ListensFollow == FileInv /\ ParsedAsWritten => ListensAsWritten
  <1> SUFFICES ASSUME FileInv, ParsedAsWritten, phase = "running", input.plain
               PROVE  /\ \A k \in DOMAIN servers :
                            LET ls == input.sites[k].words
                                port == Number(ls[LastFor("listen", ls)][2])
                            IN port < IntRange \div 2 => (servers[k].conf.listen + 65536) % 65536 = port
                      /\ \A k, n \in DOMAIN servers :
                            k # n => servers[k].conf.listen # servers[n].conf.listen
    BY DEF ListensAsWritten
  <1>1. ASSUME NEW k \in DOMAIN servers
        PROVE  LET ls == input.sites[k].words
                   port == Number(ls[LastFor("listen", ls)][2])
               IN port < IntRange \div 2 => (servers[k].conf.listen + 65536) % 65536 = port
    <2> DEFINE w == input.sites[k].words
               x == LastFor("listen", w)
               l == Latest(w, For("listen"))
               port == Number(l[2])
    <2>1. w \in Lines /\ nodes[k].words = w /\ BlockVerdict("server", w) = "valid"
      BY AsWritten
    <2>2. servers[k].conf.listen = Port(nodes[k]) /\ Port(nodes[k]) # UNDEFINED
      BY ServerIs
    <2>3. l # << >> /\ Port(nodes[k]) = AsShort(port)
      <3> HIDE DEF w
      <3> QED
        BY <2>1, <2>2, PortIs
    <2>4. w[x] = l
      <3>1. x = LastIn(w, For("listen"))
        BY <2>1, LastForIs DEF LastFor
      <3>2. LastIn(w, For("listen")) # 0
        BY <2>1, <2>3, LatestIs
      <3> HIDE DEF x, w
      <3> QED
        BY <3>1, <3>2 DEF Latest
    <2>5. IsShortInt(l[2])
      <3> HIDE DEF w
      <3> QED
        BY <2>1, <2>3, ListenChecked
    <2>6. port \in Nat
      BY NumberType
    <2>7. AsInt(port) < 65536
      BY <2>5 DEF IsShortInt
    <2> HIDE DEF port, w, x, l
    <2>8. port < IntRange \div 2 => (AsShort(port) + 65536) % 65536 = port
      BY <2>6, <2>7, ShortWritten
    <2>9. port < IntRange \div 2 => (servers[k].conf.listen + 65536) % 65536 = port
      BY <2>2, <2>3, <2>8
    <2> QED
      BY <2>4, <2>9 DEF port, w, x
  <1>2. ASSUME NEW k \in DOMAIN servers, NEW n \in DOMAIN servers, k # n
        PROVE  servers[k].conf.listen # servers[n].conf.listen
    <2>1. k \in Nat /\ n \in Nat /\ 0 < k /\ 0 < n
      BY ServerIs
    <2>2. CASE n < k
      <3>1. n \in 1..k - 1
        BY <2>1, <2>2
      <3> QED
        BY <3>1, ServerIs
    <2>3. CASE k < n
      <3>1. k \in 1..n - 1
        BY <2>1, <2>3
      <3> QED
        BY <3>1, ServerIs
    <2> QED
      BY <1>2, <2>1, <2>2, <2>3
  <1> QED
    BY <1>1, <1>2

\* Whatever the file, laid out as PlainAssumption says: the port that is bound
\* is the number that is written, and no other server's (is_short_int, htons()
\* and ports_set).
THEOREM ListensAsRead == Spec => []ListensAsWritten
  <1> QED
    BY FileInvariant, ParsedIsAsWritten, ListensFollow, PTL

-----------------------------------------------------------------------------
(* Numbers of the http block and of the servers                            *)

Numbers == {"client_max_body_size", "client_max_request_timeout",
            "keep_alive_max_timeout", "client_max_connections"}

LEMMA NumbersAre ==
    ASSUME NEW t \in Numbers, NEW h, NEW m
    PROVE  /\ t \in DOMAIN HttpTokens /\ t \in DOMAIN HttpDefaults /\ t \in DOMAIN ServerDefaults(h, m)
           /\ Tokens["http"][t] = HttpTokens[t] /\ Tokens["server"][t] = HttpTokens[t]
           /\ HttpTokens[t] \in Numeric /\ HttpDefaults[t] \in Nat
           /\ ServerDefaults(h, m)[t] = AsInt(h[t])
           /\ t # "proxy_logs_register" /\ t # "client_max_uri_size" /\ t # "try_404_files"
           /\ t # "error_page" /\ t # "cgi_bin" /\ t # "allowed_methods" /\ t # "redirect"
  <1>1. CASE t = "client_max_body_size"
    BY <1>1 DEF HttpTokens, ServerTokens, Tokens, HttpDefaults, ServerDefaults, Numeric
  <1>2. CASE t = "client_max_request_timeout"
    BY <1>2 DEF HttpTokens, ServerTokens, Tokens, HttpDefaults, ServerDefaults, Numeric
  <1>3. CASE t = "keep_alive_max_timeout"
    BY <1>3 DEF HttpTokens, ServerTokens, Tokens, HttpDefaults, ServerDefaults, Numeric
  <1>4. CASE t = "client_max_connections"
    BY <1>4 DEF HttpTokens, ServerTokens, Tokens, HttpDefaults, ServerDefaults, Numeric
  <1> QED
    BY <1>1, <1>2, <1>3, <1>4 DEF Numbers

\* What the http block leaves of a field.
LEMMA HttpFieldIs ==
    ASSUME NEW h \in Lines, NEW f \in DOMAIN HttpDefaults, f # "proxy_logs_register",
           f # "error_page", f # "cgi_bin", h = http_as_words, http = HttpConfigs
    PROVE  http[f] = Filling("http", f, Latest(h, For(f)), HttpDefaults[f], HttpDefaults[f])
  <1> DEFINE b == FillHttp(h)
             d == HttpDefaults
  <1> HIDE DEF d
  <1>1. b[f] = Filling("http", f, Latest(h, For(f)), d[f], d[f])
    BY FillBlockIs DEF FillHttp, d
  <1>2. http = [b EXCEPT !.proxy_logs_register = @ \/ cli.logs]
    BY DEF HttpConfigs
  <1>3. f \in DOMAIN b
    BY DEF FillHttp, FillBlock
  <1> HIDE DEF b
  <1> QED
    BY <1>1, <1>2, <1>3 DEF d

\* A number of a server is that of the last line that gives it, in the http
\* block or in the server's, as an int.
LEMMA NumberInForce ==
    ASSUME NEW k, NEW n, NEW m, NEW h \in Lines, NEW w \in Lines, n.words = w,
           h = http_as_words, http = HttpConfigs, NEW t \in Numbers
    PROVE  LET l == Latest(h \o w, For(t)) IN
           /\ t \in DOMAIN FillServer(k, n, http, m)
           /\ FillServer(k, n, http, m)[t] =
                 AsInt(IF l = << >> THEN HttpDefaults[t] ELSE Value("http", HttpTokens[t], l))
  <1> DEFINE a == Latest(h, For(t))
             b == Latest(w, For(t))
             l == Latest(h \o w, For(t))
             own == ServerDefaults(http, m)[t]
             d == HttpDefaults[t]
             type == HttpTokens[t]
  <1>1. l = IF b # << >> THEN b ELSE a
    BY LatestOfBoth
  <1>2. /\ t \in DOMAIN FillServer(k, n, http, m)
        /\ FillServer(k, n, http, m)[t] = Filling("server", t, b, own, own)
    BY NumbersAre, ServerFieldIs
  <1>3. http[t] = Filling("http", t, a, d, d)
    BY NumbersAre, HttpFieldIs
  <1>4. /\ own = AsInt(http[t]) /\ type \in Numeric
        /\ Tokens["http"][t] = type /\ Tokens["server"][t] = type
        /\ t # "allowed_methods" /\ t # "redirect"
    BY NumbersAre
  <1> HIDE DEF own, d, type, a, b, l
  <1>5. Filling("server", t, b, own, own) = IF b = << >> THEN own ELSE AsInt(Value("http", type, b))
    <2>1. Value("server", type, b) = AsInt(Value("http", type, b))
      BY <1>4, NumericValue
    <2> QED
      BY <1>4, <2>1 DEF Filling
  <1>6. Filling("http", t, a, d, d) = IF a = << >> THEN d ELSE Value("http", type, a)
    BY <1>4 DEF Filling
  <1>7. FillServer(k, n, http, m)[t] = AsInt(IF l = << >> THEN d ELSE Value("http", type, l))
    BY <1>1, <1>2, <1>3, <1>4, <1>5, <1>6
  <1> QED
    BY <1>2, <1>7 DEF l, d, type

LEMMA StrictFollowsLimits == SiteInv /\ FileInv /\ ParsedAsWritten => StrictWithinLimits
  <1> SUFFICES ASSUME SiteInv, FileInv, ParsedAsWritten, phase = "running", input.plain,
                      "--activate-strict_mode" \in ToSet(Tail(input.args)),
                      NEW k \in DOMAIN servers,
                      NEW t \in {"keep_alive_max_timeout", "client_max_request_timeout"}
               PROVE  LET ls == input.http \o input.sites[k].words
                          n  == LastFor(t, ls)
                      IN n # 0 /\ Time(ls[n][2]) < IntRange \div 2 => Time(ls[n][2]) <= Limits[t]
    BY DEF StrictWithinLimits
  <1> DEFINE conf == FillServer(k, nodes[k], http, input.memory)
             h  == input.http
             w  == input.sites[k].words
             ls == h \o w
             n  == LastFor(t, ls)
             l  == Latest(ls, For(t))
  <1>1. h \in Lines /\ h = http_as_words /\ http = HttpConfigs /\ w \in Lines /\ nodes[k].words = w
    BY AsWritten
  <1>2. Clamped(conf) = conf
    <2>1. cli.strict /\ ~is_warning_set
      BY DEF SiteInv, AsAsked
    <2>2. servers[k].warned
      BY DEF SiteInv, Filled
    <2>3. servers[k].warned => is_warning_set \/ Clamped(conf) = conf
      BY DEF FileInv, FromFile, OfNode
    <2> QED
      BY <2>1, <2>2, <2>3
  <1>3. t \in Numbers /\ t \in DOMAIN Limits /\ HttpTokens[t] = "DATE" /\ Limits[t] \in Nat
    BY DEF Numbers, Limits, HttpTokens
  <1>4. /\ t \in DOMAIN conf
        /\ conf[t] = AsInt(IF l = << >> THEN HttpDefaults[t] ELSE Value("http", HttpTokens[t], l))
    <2> HIDE DEF h, w
    <2> QED
      BY <1>1, <1>3, NumberInForce DEF conf
  <1>5. ASSUME n # 0 PROVE l # << >> /\ l = ls[n]
    <2>1. ls \in Lines
      BY <1>1 DEF Lines
    <2> HIDE DEF ls
    <2>2. n = LastIn(ls, For(t))
      BY <2>1, LastForIs DEF LastFor
    <2> QED
      BY <1>5, <2>1, <2>2, LatestIs DEF Latest
  <1>6. conf[t] = Clamped(conf)[t] /\ Clamped(conf)[t] = Min({conf[t], Limits[t]})
    BY <1>2, <1>3, <1>4, ClampedIs
  <1>7. ASSUME n # 0, Time(ls[n][2]) < IntRange \div 2 PROVE Time(ls[n][2]) <= Limits[t]
    <2> DEFINE v == Time(l[2])
    <2>1. l # << >> /\ l = ls[n]
      BY <1>5, <1>7
    <2>2. conf[t] = AsInt(v)
      <3> HIDE DEF l, conf
      <3> QED
        BY <1>3, <1>4, <2>1 DEF Value, Stored
    <2>3. v \in Nat
      <3>1. v = Value("http", "DATE", l)
        BY DEF Value, Stored
      <3>2. Value("http", "DATE", l) \in Nat
        BY NumericValue DEF Numeric
      <3> QED
        BY <3>1, <3>2
    <2> HIDE DEF l, conf, n, ls
    <2>4. v < IntRange \div 2
      BY <1>7, <2>1
    <2> HIDE DEF v
    <2>5. AsInt(v) = v
      BY <2>3, <2>4, AsIntIs
    <2>6. v = Min({v, Limits[t]})
      BY <1>6, <2>2, <2>5
    <2>7. v <= Limits[t]
      <3>1. v \in Int /\ Limits[t] \in Int
        BY <1>3, <2>3
      <3>2. Min({v, Limits[t]}) = IF v <= Limits[t] THEN v ELSE Limits[t]
        BY <3>1, MinIs
      <3> QED
        BY <2>6, <3>1, <3>2
    <2> QED
      BY <2>1, <2>7 DEF v
  <1> QED
    BY <1>7

\* Whatever the file, laid out as PlainAssumption says: in strict mode no
\* server runs with a time-out in the file that is above its limit
\* (set_all_warnings and the test of is_warning_set in run).
THEOREM StrictIsWithinLimits == Spec => []StrictWithinLimits
  <1> QED
    BY SiteInvariant, FileInvariant, ParsedIsAsWritten, StrictFollowsLimits, PTL

-----------------------------------------------------------------------------
(* Where the locations of a server stand                                   *)

\* The sequences of ss one behind the other: that of number n starts behind
\* position e[n - 1].
Offsets(e, ss) ==
    /\ e[0] = 0 /\ \A n \in 0..Len(ss) : e[n] \in Nat
    /\ \A n \in 1..Len(ss) : e[n] = e[n - 1] + Len(ss[n])

LEMMA FlattenAt ==
    ASSUME NEW S, NEW ss \in Seq(Seq(S))
    PROVE  \E e : /\ Offsets(e, ss) /\ Len(FlattenSeq(ss)) = e[Len(ss)]
                  /\ \A n \in 1..Len(ss) : \A m \in 1..Len(ss[n]) :
                        FlattenSeq(ss)[e[n - 1] + m] = ss[n][m]
  <1> DEFINE N == Len(ss)
  <1>0. N \in Nat /\ \A n \in 1..N : ss[n] \in Seq(S) /\ Len(ss[n]) \in Nat
    OBVIOUS
  <1>1. CASE N = 0
    <2> DEFINE e == [n \in {0} |-> 0]
    <2>1. FlattenSeq(ss) = ss
      BY <1>1 DEF FlattenSeq
    <2>2. e[0] = 0 /\ \A n \in 0..N : n = 0
      BY <1>1
    <2> HIDE DEF e
    <2>3. Offsets(e, ss)
      BY <1>1, <2>2 DEF Offsets
    <2> QED
      BY <1>1, <2>1, <2>2, <2>3
  <1>2. CASE N # 0
    <2>1. PICK f : FlatIs(f, ss, N) /\ FlattenSeq(ss) = f[N]
      BY <1>0, <1>2, FlattenIs
    <2>2. \A n \in 1..N : f[n] = IF n = 1 THEN ss[n] ELSE f[n - 1] \o ss[n]
      BY <2>1 DEF FlatIs
    <2> DEFINE e == [n \in 0..N |-> IF n = 0 THEN 0 ELSE Len(f[n])]
    <2>3. e[0] = 0 /\ \A n \in 1..N : e[n] = Len(f[n])
      BY <1>0
    <2> HIDE DEF e
    <2> DEFINE Good(n) ==
                  /\ f[n] \in Seq(S) /\ e[n] = e[n - 1] + Len(ss[n])
                  /\ \A k \in 1..n : \A m \in 1..Len(ss[k]) :
                        e[k - 1] + m \in 1..e[n] /\ f[n][e[k - 1] + m] = ss[k][m]
               T == {n \in Nat : n \in 1..N => Good(n)}
    <2>4. 0 \in T
      OBVIOUS
    <2>5. ASSUME NEW n \in Nat, n \in T PROVE n + 1 \in T
      <3> HIDE DEF Good, N
      <3>1. SUFFICES ASSUME n + 1 \in 1..N PROVE Good(n + 1)
        OBVIOUS
      <3> USE DEF Good, N
      <3>2. CASE n = 0
        <4>1. f[1] = ss[1] /\ e[1] = Len(f[1]) /\ ss[1] \in Seq(S)
          BY <1>0, <1>2, <2>2, <2>3
        <4>2. e[1] = e[1 - 1] + Len(ss[1])
          BY <1>0, <1>2, <2>3, <4>1
        <4>3. ASSUME NEW k \in 1..1, NEW m \in 1..Len(ss[k])
              PROVE  e[k - 1] + m \in 1..e[1] /\ f[1][e[k - 1] + m] = ss[k][m]
          BY <2>3, <4>1
        <4>4. Good(1)
          BY <4>1, <4>2, <4>3
        <4> QED
          BY <3>2, <4>4
      <3>3. CASE n # 0
        <4>1. n \in 1..N /\ Good(n)
          BY <1>0, <2>5, <3>1, <3>3
        <4>2. PICK a \in Seq(S) : a = f[n]
          BY <4>1
        <4>3. PICK b \in Seq(S) : b = ss[n + 1]
          BY <1>0, <3>1
        <4>4. PICK q : q = n + 1
          OBVIOUS
        <4>5. q \in 1..N /\ q # 1 /\ q - 1 = n
          BY <3>1, <3>3, <4>4
        <4>6. f[q] = a \o b
          BY <2>2, <4>2, <4>3, <4>4, <4>5
        <4>7. e[n] = Len(a) /\ e[q] = Len(f[q])
          BY <2>3, <4>1, <4>2, <4>5
        <4>8. /\ f[q] \in Seq(S) /\ Len(f[q]) = Len(a) + Len(b)
              /\ \A m \in 1..Len(a) : m \in 1..e[q] /\ f[q][m] = a[m]
              /\ \A m \in 1..Len(b) : Len(a) + m \in 1..e[q] /\ f[q][Len(a) + m] = b[m]
          BY <4>6, <4>7, ConcatIs
        <4>9. e[q] = e[q - 1] + Len(ss[q])
          BY <4>3, <4>4, <4>5, <4>7, <4>8
        <4>10. ASSUME NEW k \in 1..q, NEW m \in 1..Len(ss[k])
               PROVE  e[k - 1] + m \in 1..e[q] /\ f[q][e[k - 1] + m] = ss[k][m]
          <5>1. CASE k = q
            <6>1. e[k - 1] = Len(a) /\ ss[k] = b
              BY <4>3, <4>4, <4>5, <4>7, <5>1
            <6> QED
              BY <4>8, <6>1
          <5>2. CASE k # q
            <6>1. k \in 1..n
              BY <4>5, <5>2
            <6>2. e[k - 1] + m \in 1..Len(a) /\ a[e[k - 1] + m] = ss[k][m]
              BY <4>1, <4>2, <4>7, <6>1
            <6> QED
              BY <4>8, <6>2
          <5> QED
            BY <5>1, <5>2
        <4>11. Good(q)
          BY <4>8, <4>9, <4>10
        <4> QED
          BY <4>4, <4>11
      <3> QED
        BY <3>2, <3>3
    <2> HIDE DEF T, Good
    <2>6. \A n \in 1..N : n \in T
      <3>1. Nat \subseteq T
        BY <2>4, <2>5, Induction
      <3> QED
        BY <3>1
    <2>7. \A n \in 1..N : Good(n)
      BY <2>6 DEF T
    <2>8. Offsets(e, ss)
      <3>1. \A n \in 0..N : e[n] \in Nat
        <4>1. ASSUME NEW n \in 0..N PROVE e[n] \in Nat
          <5>1. CASE n = 0
            BY <2>3, <5>1
          <5>2. CASE n # 0
            <6>1. n \in 1..N
              BY <1>0, <5>2
            <6>2. f[n] \in Seq(S) /\ e[n] = Len(f[n])
              BY <2>3, <2>7, <6>1 DEF Good
            <6> QED
              BY <6>2
          <5> QED
            BY <5>1, <5>2
        <4> QED
          BY <4>1
      <3>2. \A n \in 1..N : e[n] = e[n - 1] + Len(ss[n])
        BY <2>7 DEF Good
      <3> QED
        BY <2>3, <3>1, <3>2 DEF Offsets
    <2>9. N \in 1..N /\ e[N] = Len(f[N])
      BY <1>0, <1>2, <2>3
    <2>10. \A n \in 1..N : \A m \in 1..Len(ss[n]) : f[N][e[n - 1] + m] = ss[n][m]
      BY <2>7, <2>9 DEF Good
    <2> QED
      BY <2>1, <2>8, <2>9, <2>10
  <1> QED
    BY <1>1, <1>2

LEMMA OffsetsGrow ==
    ASSUME NEW e, NEW ss, Len(ss) \in Nat, Offsets(e, ss),
           \A n \in 1..Len(ss) : Len(ss[n]) \in Nat,
           NEW k \in 0..Len(ss), NEW n \in 0..Len(ss), k <= n
    PROVE  e[k] <= e[n]
  <1> DEFINE T == {d \in Nat : k + d \in 0..Len(ss) => e[k] <= e[k + d]}
  <1>1. 0 \in T
    BY DEF Offsets
  <1>2. ASSUME NEW d \in Nat, d \in T PROVE d + 1 \in T
    <2>1. SUFFICES ASSUME k + (d + 1) \in 0..Len(ss) PROVE e[k] <= e[k + (d + 1)]
      OBVIOUS
    <2>2. PICK q : q = k + (d + 1)
      OBVIOUS
    <2>3. q \in 1..Len(ss) /\ q - 1 = k + d /\ k + d \in 0..Len(ss)
      BY <2>1, <2>2
    <2>4. e[q] = e[q - 1] + Len(ss[q]) /\ e[q] \in Nat /\ e[q - 1] \in Nat /\ e[k] \in Nat /\ Len(ss[q]) \in Nat
      BY <2>3 DEF Offsets
    <2>5. e[k] <= e[q - 1]
      BY <1>2, <2>3
    <2> QED
      BY <2>2, <2>4, <2>5
  <1> HIDE DEF T
  <1>3. n - k \in T
    BY <1>1, <1>2, Induction
  <1>4. k + (n - k) = n
    OBVIOUS
  <1> QED
    BY <1>3, <1>4 DEF T

LEMMA OffsetsCover ==
    ASSUME NEW e, NEW ss, Len(ss) \in Nat, Offsets(e, ss),
           \A n \in 1..Len(ss) : Len(ss[n]) \in Nat,
           NEW x \in 1..e[Len(ss)]
    PROVE  \E n \in 1..Len(ss) : \E m \in 1..Len(ss[n]) : x = e[n - 1] + m
  <1> DEFINE R == \E n \in 1..Len(ss) : \E m \in 1..Len(ss[n]) : x = e[n - 1] + m
             T == {d \in Nat : d \in 0..Len(ss) /\ x <= e[d] => R}
  <1>0. e[Len(ss)] \in Nat /\ x \in Nat /\ x > 0
    BY DEF Offsets
  <1>1. 0 \in T
    BY <1>0 DEF Offsets
  <1>2. ASSUME NEW d \in Nat, d \in T PROVE d + 1 \in T
    <2>1. SUFFICES ASSUME d + 1 \in 0..Len(ss), x <= e[d + 1] PROVE R
      OBVIOUS
    <2>2. PICK q : q = d + 1
      OBVIOUS
    <2>3. q \in 1..Len(ss) /\ q - 1 = d /\ d \in 0..Len(ss)
      BY <2>1, <2>2
    <2>4. e[q] = e[d] + Len(ss[q]) /\ e[d] \in Nat /\ Len(ss[q]) \in Nat
      BY <2>3 DEF Offsets
    <2>5. CASE x <= e[d]
      BY <1>2, <2>3, <2>5
    <2>6. CASE ~(x <= e[d])
      <3>1. x - e[d] \in 1..Len(ss[q]) /\ x = e[q - 1] + (x - e[d])
        BY <1>0, <2>1, <2>2, <2>3, <2>4, <2>6
      <3> QED
        BY <2>3, <3>1
    <2> QED
      BY <2>5, <2>6
  <1> HIDE DEF T
  <1>3. Len(ss) \in T
    BY <1>1, <1>2, Induction
  <1> QED
    BY <1>0, <1>3 DEF T

\* A part of a sequence that is another one.
LEMMA PartIs ==
    ASSUME NEW S, NEW s \in Seq(S), NEW t \in Seq(S), NEW x \in Nat, x + Len(t) <= Len(s),
           \A m \in 1..Len(t) : s[x + m] = t[m]
    PROVE  SubSeq(s, x + 1, x + Len(t)) = t
  <1> DEFINE r == SubSeq(s, x + 1, x + Len(t))
  <1>1. \A m \in x + 1..x + Len(t) : s[m] \in S
    OBVIOUS
  <1>2. /\ r \in Seq(S) /\ Len(r) = Len(t)
        /\ \A m \in 1..Len(t) : r[m] = s[x + m]
    <2>1. /\ r \in Seq(S) /\ Len(r) = (IF x + 1 <= x + Len(t) THEN x + Len(t) - (x + 1) + 1 ELSE 0)
          /\ \A m \in 1..x + Len(t) - (x + 1) + 1 : r[m] = s[x + 1 + m - 1]
      <3>1. x + 1 \in Int /\ x + Len(t) \in Int
        OBVIOUS
      <3> QED
        BY <1>1, <3>1, SubSeqProperties
    <2>2. Len(r) = Len(t) /\ x + Len(t) - (x + 1) + 1 = Len(t)
      BY <2>1
    <2>3. \A m \in 1..Len(t) : x + 1 + m - 1 = x + m
      OBVIOUS
    <2> HIDE DEF r
    <2> QED
      BY <2>1, <2>2, <2>3
  <1> HIDE DEF r
  <1>3. r = t
    BY <1>2, SeqEqual
  <1> QED
    BY <1>3 DEF r

Unnested(L)   == \A n \in DOMAIN L : \A l \in ToSet(L[n].lines) : l[1] # "location"

Written(L) ==
    FlattenSeq([n \in DOMAIN L |-> <<<<"location", L[n].name>>>> \o L[n].lines])

\* Where they stand in location_blocks.
Placed(e, L, B) ==
    /\ B \in Lines /\ e[0] = 0 /\ Len(B) = e[Len(L)]
    /\ \A n \in 0..Len(L) : e[n] \in Nat
    /\ \A n \in 1..Len(L) :
          /\ e[n] = e[n - 1] + 1 + Len(L[n].lines)
          /\ B[e[n - 1] + 1] = <<"location", L[n].name>>
          /\ \A m \in 1..Len(L[n].lines) : B[e[n - 1] + 1 + m] = L[n].lines[m]
    /\ \A k, n \in 0..Len(L) : k <= n => e[k] <= e[n]
    /\ \A x \in 1..Len(B) : \E n \in 1..Len(L) :
          \/ x = e[n - 1] + 1
          \/ \E m \in 1..Len(L[n].lines) : x = e[n - 1] + 1 + m

LEMMA LocationsPlaced ==
    ASSUME NEW L \in LocationsText
    PROVE  \E e : Placed(e, L, Written(L))
  <1> DEFINE N == Len(L)
             ss == [n \in DOMAIN L |-> <<<<"location", L[n].name>>>> \o L[n].lines]
             B == FlattenSeq(ss)
  <1>1. N \in Nat /\ DOMAIN L = 1..N
    BY DEF LocationsText
  <1>2. ASSUME NEW n \in 1..N
        PROVE  /\ ss[n] \in Seq(Line) /\ L[n].lines \in Lines /\ Len(L[n].lines) \in Nat
               /\ Len(ss[n]) = 1 + Len(L[n].lines) /\ ss[n][1] = <<"location", L[n].name>>
               /\ \A m \in 1..Len(L[n].lines) : ss[n][1 + m] = L[n].lines[m]
    <2>1. ss[n] = <<<<"location", L[n].name>>>> \o L[n].lines
      BY <1>1
    <2>2. Len(L[n].lines) \in Nat
      BY LocationLines, LinesAre
    <2> HIDE DEF ss
    <2> QED
      BY <2>1, <2>2, LocationLines
  <1>3. ss = [n \in 1..N |-> ss[n]]
    BY <1>1
  <1>4. B = Written(L)
    BY DEF Written
  <1> HIDE DEF ss, N, B
  <1>5. ss \in [1..N -> Seq(Line)]
    BY <1>2, <1>3
  <1>6. ss \in Seq(Seq(Line)) /\ Len(ss) = N
    BY <1>1, <1>5, FunctionIsSeq
  <1>7. PICK e : /\ Offsets(e, ss) /\ Len(B) = e[N]
                 /\ \A n \in 1..N : \A m \in 1..Len(ss[n]) : B[e[n - 1] + m] = ss[n][m]
    BY <1>6, FlattenAt DEF B
  <1>8. B \in Lines
    BY <1>6, FlattenType DEF B, Lines
  <1>9. /\ e[0] = 0 /\ \A n \in 0..N : e[n] \in Nat
        /\ \A n \in 1..N : e[n] = e[n - 1] + Len(ss[n])
    BY <1>6, <1>7 DEF Offsets
  <1>10. ASSUME NEW n \in 1..N
         PROVE  /\ e[n] = e[n - 1] + 1 + Len(L[n].lines)
                /\ B[e[n - 1] + 1] = <<"location", L[n].name>>
                /\ \A m \in 1..Len(L[n].lines) : B[e[n - 1] + 1 + m] = L[n].lines[m]
    <2>1. n - 1 \in 0..N /\ e[n - 1] \in Nat
      BY <1>1, <1>9
    <2>2. 1 \in 1..Len(ss[n]) /\ \A m \in 1..Len(L[n].lines) : 1 + m \in 1..Len(ss[n])
      BY <1>2
    <2>3. e[n] = e[n - 1] + 1 + Len(L[n].lines)
      <3>1. e[n] = e[n - 1] + Len(ss[n])
        BY <1>9
      <3>2. Len(ss[n]) = 1 + Len(L[n].lines) /\ Len(L[n].lines) \in Nat
        BY <1>2
      <3> QED
        BY <2>1, <3>1, <3>2
    <2>4. B[e[n - 1] + 1] = <<"location", L[n].name>>
      BY <1>2, <1>7, <2>2
    <2>5. ASSUME NEW m \in 1..Len(L[n].lines) PROVE B[e[n - 1] + 1 + m] = L[n].lines[m]
      <3>1. e[n - 1] + (1 + m) = e[n - 1] + 1 + m
        BY <2>1
      <3>2. B[e[n - 1] + (1 + m)] = ss[n][1 + m]
        BY <1>7, <2>2
      <3> QED
        BY <1>2, <3>1, <3>2
    <2> QED
      BY <2>3, <2>4, <2>5
  <1>11. \A n \in 1..Len(ss) : Len(ss[n]) \in Nat
    BY <1>2, <1>6
  <1>12. ASSUME NEW k \in 0..N, NEW n \in 0..N, k <= n PROVE e[k] <= e[n]
    BY <1>1, <1>6, <1>7, <1>11, <1>12, OffsetsGrow
  <1>13. ASSUME NEW x \in 1..Len(B)
         PROVE  \E n \in 1..N : \/ x = e[n - 1] + 1
                                \/ \E m \in 1..Len(L[n].lines) : x = e[n - 1] + 1 + m
    <2>0. PICK n \in 1..N : \E q \in 1..Len(ss[n]) : x = e[n - 1] + q
      <3>1. x \in 1..e[Len(ss)] /\ Len(ss) \in Nat
        BY <1>1, <1>6, <1>7
      <3>2. \E n \in 1..Len(ss) : \E q \in 1..Len(ss[n]) : x = e[n - 1] + q
        BY <1>7, <1>11, <3>1, OffsetsCover
      <3> QED
        BY <1>6, <3>2
    <2>1. PICK q \in 1..Len(ss[n]) : x = e[n - 1] + q
      BY <2>0
    <2>2. q = 1 \/ q - 1 \in 1..Len(L[n].lines)
      BY <1>2
    <2>3. e[n - 1] \in Nat
      BY <1>1, <1>9
    <2>4. e[n - 1] + 1 + (q - 1) = e[n - 1] + q
      BY <2>3
    <2> QED
      BY <2>1, <2>2, <2>4
  <1>14. Placed(e, L, B)
    BY <1>7, <1>8, <1>9, <1>10, <1>12, <1>13 DEF Placed, N
  <1> QED
    BY <1>4, <1>14

NameOf(L, n) == Names(L[n].name)

\* handle_locations finds every location where it starts, ...
LEMMA StartsAre ==
    ASSUME NEW L \in LocationsText, Unnested(L), NEW e, NEW B, Placed(e, L, B)
    PROVE  LET starts == {x \in DOMAIN B : B[x][1] = "location"} IN
           /\ starts \subseteq 1..Len(B) /\ DOMAIN B = 1..Len(B) /\ Len(B) \in Nat /\ Len(L) \in Nat
           /\ \A n \in 1..Len(L) : e[n - 1] + 1 \in starts /\ Names(B[e[n - 1] + 1][2]) = NameOf(L, n)
           /\ \A x \in starts : \E n \in 1..Len(L) : x = e[n - 1] + 1
  <1> DEFINE starts == {x \in DOMAIN B : B[x][1] = "location"}
  <1>1. /\ DOMAIN B = 1..Len(B) /\ Len(B) \in Nat /\ Len(L) \in Nat /\ DOMAIN L = 1..Len(L)
    <2>1. B \in Lines /\ L \in Seq([name : STRING, lines : Directives])
      BY DEF Placed, LocationsText
    <2> QED
      BY <2>1, LinesAre
  <1>2. ASSUME NEW n \in 1..Len(L)
        PROVE  /\ e[n - 1] + 1 \in 1..Len(B) /\ e[n - 1] \in Nat
               /\ B[e[n - 1] + 1][1] = "location" /\ B[e[n - 1] + 1][2] = L[n].name
    <2>1. B[e[n - 1] + 1] = <<"location", L[n].name>>
      BY DEF Placed
    <2>2. /\ n - 1 \in 0..Len(L) /\ n \in 0..Len(L) /\ Len(L) \in 0..Len(L) /\ n <= Len(L)
      BY <1>1
    <2>3. e[n - 1] \in Nat /\ e[n] \in Nat /\ e[Len(L)] \in Nat /\ e[n] <= e[Len(L)] /\ Len(B) = e[Len(L)]
      BY <2>2 DEF Placed
    <2>4. e[n] = e[n - 1] + 1 + Len(L[n].lines) /\ Len(L[n].lines) \in Nat
      BY LocationLines, LinesAre DEF Placed
    <2>5. e[n - 1] + 1 \in 1..Len(B)
      BY <2>3, <2>4
    <2> QED
      BY <2>1, <2>3, <2>5
  <1>3. ASSUME NEW x \in starts PROVE \E n \in 1..Len(L) : x = e[n - 1] + 1
    <2>1. x \in 1..Len(B) /\ B[x][1] = "location"
      BY <1>1
    <2>2. PICK n \in 1..Len(L) : \/ x = e[n - 1] + 1
                                 \/ \E m \in 1..Len(L[n].lines) : x = e[n - 1] + 1 + m
      BY <2>1 DEF Placed
    <2>3. ASSUME NEW m \in 1..Len(L[n].lines), x = e[n - 1] + 1 + m PROVE FALSE
      <3>1. B[x] = L[n].lines[m]
        BY <2>3 DEF Placed
      <3>2. L[n].lines[m] \in ToSet(L[n].lines)
        BY LocationLines, LinesAre DEF ToSet
      <3>3. L[n].lines[m][1] # "location"
        BY <1>1, <3>2 DEF Unnested
      <3> QED
        BY <2>1, <3>1, <3>3
    <2> QED
      BY <2>2, <2>3
  <1>4. starts \subseteq 1..Len(B)
    BY <1>1
  <1>5. \A n \in 1..Len(L) : e[n - 1] + 1 \in starts /\ Names(B[e[n - 1] + 1][2]) = NameOf(L, n)
    BY <1>1, <1>2 DEF NameOf
  <1> HIDE DEF starts
  <1> QED
    BY <1>1, <1>3, <1>4, <1>5 DEF starts

\* ... takes the lines up to the next one for it, and of two with one name
\* the first.
LEMMA LocationsAre ==
    ASSUME NEW L \in LocationsText, Unnested(L), NEW conf
    PROVE  LET d == HandleLocations(conf, Written(L)) IN
           /\ DOMAIN d = {NameOf(L, n) : n \in 1..Len(L)}
           /\ \A n \in 1..Len(L) :
                 (\A m \in 1..n - 1 : NameOf(L, m) # NameOf(L, n))
                    => d[NameOf(L, n)] = FillLocation(conf, L[n].lines)
  <1>0. PICK B : B = Written(L)
    OBVIOUS
  <1>1. PICK e : Placed(e, L, B)
    BY <1>0, LocationsPlaced
  <1> DEFINE starts   == {x \in DOMAIN B : B[x][1] = "location"}
             name(x)  == Names(B[x][2])
             same(p)  == {x \in starts : name(x) = p}
             ends(x)  == {m \in starts : m > x} \cup {Len(B) + 1}
             part(x)  == SubSeq(B, x + 1, Min(ends(x)) - 1)
             named    == {name(x) : x \in starts}
             d        == [p \in named |-> FillLocation(conf, part(Min(same(p))))]
  <1>2. HandleLocations(conf, B) = d
    BY DEF HandleLocations
  <1>3. /\ starts \subseteq 1..Len(B) /\ Len(B) \in Nat /\ Len(L) \in Nat
        /\ \A n \in 1..Len(L) : e[n - 1] + 1 \in starts /\ name(e[n - 1] + 1) = NameOf(L, n)
        /\ \A x \in starts : \E n \in 1..Len(L) : x = e[n - 1] + 1
    BY <1>1, StartsAre
  <1> HIDE DEF starts, name
  <1>4. named = {NameOf(L, n) : n \in 1..Len(L)}
    <2>1. ASSUME NEW n \in 1..Len(L) PROVE NameOf(L, n) \in named
      <3>1. PICK x \in starts : NameOf(L, n) = name(x)
        BY <1>3
      <3> QED
        BY <3>1
    <2>2. ASSUME NEW x \in starts PROVE \E n \in 1..Len(L) : name(x) = NameOf(L, n)
      <3>1. PICK n \in 1..Len(L) : x = e[n - 1] + 1
        BY <1>3
      <3>2. name(e[n - 1] + 1) = NameOf(L, n)
        BY <1>3
      <3> QED
        BY <3>1, <3>2
    <2> QED
      BY <2>1, <2>2
  <1>5. /\ \A n \in 0..Len(L) : e[n] \in Nat
        /\ \A k, n \in 0..Len(L) : k <= n => e[k] <= e[n]
        /\ Len(B) = e[Len(L)] /\ B \in Seq(Line)
        /\ \A n \in 1..Len(L) :
              /\ e[n] = e[n - 1] + 1 + Len(L[n].lines)
              /\ \A m \in 1..Len(L[n].lines) : B[e[n - 1] + 1 + m] = L[n].lines[m]
    BY <1>1 DEF Placed, Lines
  <1>6. ASSUME NEW n \in 1..Len(L)
        PROVE  part(e[n - 1] + 1) = L[n].lines
    <2>1. PICK x : x = e[n - 1] + 1
      OBVIOUS
    <2>2. n - 1 \in 0..Len(L) /\ n \in 0..Len(L) /\ Len(L) \in 0..Len(L) /\ n <= Len(L)
      BY <1>3
    <2>3. PICK t \in Seq(Line) : t = L[n].lines
      BY LocationLines DEF Lines
    <2>4. e[n - 1] \in Nat /\ e[n] \in Nat /\ x \in Nat /\ e[n] = x + Len(t) /\ Len(t) \in Nat
          /\ e[n] <= Len(B)
      BY <1>5, <2>1, <2>2, <2>3
    <2>5. e[n] + 1 \in ends(x)
      <3>1. CASE n = Len(L)
        BY <1>5, <3>1
      <3>2. CASE n # Len(L)
        <4>1. n + 1 \in 1..Len(L) /\ (n + 1) - 1 = n
          BY <1>3, <3>2
        <4>2. e[n] + 1 \in starts
          BY <1>3, <4>1
        <4>3. e[n] + 1 > x
          BY <2>4
        <4> QED
          BY <4>2, <4>3
      <3> QED
        BY <3>1, <3>2
    <2>6. ASSUME NEW y \in ends(x) PROVE e[n] + 1 <= y
      <3>1. CASE y = Len(B) + 1
        BY <1>3, <2>4, <3>1
      <3>2. CASE y \in starts /\ y > x
        <4>1. PICK q \in 1..Len(L) : y = e[q - 1] + 1
          BY <1>3, <3>2
        <4>2. q - 1 \in 0..Len(L) /\ e[q - 1] \in Nat
          BY <1>3, <1>5
        <4>3. ASSUME q - 1 < n PROVE FALSE
          <5>1. q - 1 <= n - 1
            BY <4>3
          <5>2. e[q - 1] <= e[n - 1]
            BY <1>5, <2>2, <4>2, <5>1
          <5> QED
            BY <2>1, <2>4, <3>2, <4>1, <4>2, <5>2, SMTT(60)
        <4>4. n <= q - 1
          BY <4>3
        <4>5. e[n] <= e[q - 1]
          BY <1>5, <2>2, <4>2, <4>4
        <4> QED
          BY <2>4, <4>1, <4>2, <4>5
      <3> QED
        BY <3>1, <3>2
    <2>7. ends(x) \subseteq Nat
      <3>1. starts \subseteq Nat /\ Len(B) + 1 \in Nat
        BY <1>3
      <3> QED
        BY <3>1
    <2>8. Min(ends(x)) = e[n] + 1
      <3> HIDE DEF ends
      <3> QED
        BY <2>5, <2>6, <2>7, LeastIs
    <2>9. Min(ends(x)) - 1 = x + Len(t)
      BY <2>4, <2>8
    <2>10. SubSeq(B, x + 1, x + Len(t)) = t
      <3>1. x + Len(t) <= Len(B) /\ B \in Seq(Line)
        BY <1>5, <2>4
      <3>2. \A m \in 1..Len(t) : B[x + m] = t[m]
        BY <1>5, <2>1, <2>3
      <3> QED
        BY <2>4, <3>1, <3>2, PartIs
    <2> QED
      BY <2>1, <2>3, <2>9, <2>10
  <1>7. ASSUME NEW n \in 1..Len(L), \A m \in 1..n - 1 : NameOf(L, m) # NameOf(L, n)
        PROVE  Min(same(NameOf(L, n))) = e[n - 1] + 1
    <2> DEFINE S == same(NameOf(L, n))
    <2>1. S \subseteq Nat /\ e[n - 1] + 1 \in S
      <3>1. S \subseteq starts /\ starts \subseteq Nat
        BY <1>3
      <3>2. PICK x : x = e[n - 1] + 1
        OBVIOUS
      <3>3. x \in starts /\ name(x) = NameOf(L, n)
        BY <1>3, <3>2
      <3> QED
        BY <3>1, <3>2, <3>3
    <2>2. ASSUME NEW y \in S PROVE e[n - 1] + 1 <= y
      <3>1. y \in starts /\ name(y) = NameOf(L, n)
        OBVIOUS
      <3>2. PICK q \in 1..Len(L) : y = e[q - 1] + 1
        BY <1>3, <3>1
      <3>3. NameOf(L, q) = NameOf(L, n)
        BY <1>3, <3>1, <3>2
      <3>4. ~(q < n)
        <4>1. q < n => q \in 1..n - 1
          BY <1>3
        <4> QED
          BY <1>7, <3>3, <4>1
      <3>5. n - 1 \in 0..Len(L) /\ q - 1 \in 0..Len(L) /\ n - 1 <= q - 1
        BY <1>3, <3>4
      <3>6. e[n - 1] <= e[q - 1] /\ e[n - 1] \in Nat /\ e[q - 1] \in Nat
        BY <1>5, <3>5
      <3> QED
        BY <3>2, <3>6
    <2> HIDE DEF S
    <2>3. Min(S) = e[n - 1] + 1
      BY <2>1, <2>2, LeastIs
    <2> QED
      BY <2>3 DEF S
  <1> HIDE DEF part, same
  <1>8. ASSUME NEW n \in 1..Len(L), \A m \in 1..n - 1 : NameOf(L, m) # NameOf(L, n)
        PROVE  d[NameOf(L, n)] = FillLocation(conf, L[n].lines)
    <2>1. NameOf(L, n) \in named
      BY <1>4
    <2>2. d[NameOf(L, n)] = FillLocation(conf, part(Min(same(NameOf(L, n)))))
      BY <2>1
    <2> QED
      BY <1>6, <1>7, <1>8, <2>2
  <1>9. DOMAIN d = named
    OBVIOUS
  <1> HIDE DEF d, named
  <1> QED
    BY <1>0, <1>2, <1>4, <1>8, <1>9

-----------------------------------------------------------------------------
(* Error pages                                                             *)

LEMMA AddedIs ==
    ASSUME NEW w \in Lines, NEW ls, NEW pages, NEW c,
           Len(ls) = Len(w), DOMAIN ls = 1..Len(w),
           \A q \in 1..Len(w) : ls[q][1] = w[q][1] /\ (w[q][1] = "error_page" => ls[q] = w[q])
    PROVE  LET l == Latest(w, PageFor(c))
               A == Added("error_page", ls, pages) IN
           /\ c \in DOMAIN A <=> l # << >> \/ c \in DOMAIN pages
           /\ c \in DOMAIN A => A[c] = IF l # << >> THEN l[3] ELSE pages[c]
  <1> DEFINE key(y) == Key("error_page", y)
             on == {m \in DOMAIN ls : ls[m][1] = "error_page"}
             set == {key(ls[n]) : n \in on}
             last(x) == SelectLastInSeq(ls, LAMBDA y : y[1] = "error_page" /\ Key("error_page", y) = x)
             A == Added("error_page", ls, pages)
             l == Latest(w, PageFor(c))
             z == LastIn(w, PageFor(c))
  <1>1. A = [x \in set \cup DOMAIN pages |-> IF x \in set THEN ls[last(x)][3] ELSE pages[x]]
    BY DEF Added
  <1>2. Len(w) \in Nat /\ \A q \in 1..Len(w) : w[q] \in Line
    BY LinesAre
  <1>3. ASSUME NEW q \in 1..Len(w)
        PROVE  ls[q][1] = "error_page" /\ key(ls[q]) = c <=> w[q] \in PageFor(c)
    <2>1. w[q] \in Line /\ ls[q][1] = w[q][1] /\ (w[q][1] = "error_page" => ls[q] = w[q])
      BY <1>2
    <2> HIDE DEF key
    <2>2. w[q] \in PageFor(c) <=> w[q][1] = "error_page" /\ key(w[q]) = c
      BY <2>1 DEF PageFor, key
    <2> QED
      BY <2>1, <2>2
  <1>4. last(c) = z
    <2>1. {q \in 1..Len(ls) : ls[q][1] = "error_page" /\ key(ls[q]) = c}
             = {q \in 1..Len(w) : w[q] \in PageFor(c)}
      BY <1>3
    <2> QED
      BY <2>1 DEF SelectLastInSeq, LastIn
  <1>5. l # << >> <=> \E n \in 1..Len(w) : w[n] \in PageFor(c)
    BY LatestIs
  <1>6. c \in set <=> l # << >>
    <2> HIDE DEF l, key
    <2>1. c \in set <=> \E n \in 1..Len(w) : ls[n][1] = "error_page" /\ key(ls[n]) = c
      OBVIOUS
    <2> QED
      BY <1>3, <1>5, <2>1
  <1>7. ASSUME l # << >> PROVE l = ls[z]
    <2>1. z # 0
      BY <1>7, LatestIs
    <2>2. z \in 0..Len(w) /\ (z # 0 => w[z] \in PageFor(c))
      BY <1>2, LastInIs
    <2>3. l = w[z]
      BY <2>1 DEF Latest
    <2> HIDE DEF z, l
    <2>4. z \in 1..Len(w) /\ w[z] \in PageFor(c)
      BY <1>2, <2>1, <2>2
    <2>5. w[z][1] = "error_page"
      BY <2>4 DEF PageFor
    <2> QED
      BY <2>3, <2>4, <2>5
  <1> HIDE DEF A, set, last, l, z
  <1> QED
    BY <1>1, <1>4, <1>6, <1>7 DEF A, l

LEMMA PagesFilled ==
    ASSUME NEW w \in Lines, NEW ls, NEW c, NEW block, NEW above, NEW s, "error_page" \in DOMAIN s,
           Len(ls) = Len(w), DOMAIN ls = 1..Len(w),
           \A q \in 1..Len(w) : ls[q][1] = w[q][1] /\ (w[q][1] = "error_page" => ls[q] = w[q])
    PROVE  LET l == Latest(w, PageFor(c))
               pages == s["error_page"]
               E == FillBlock(block, above, s, ls)["error_page"] IN
           /\ c \in DOMAIN E <=> l # << >> \/ c \in DOMAIN pages
           /\ c \in DOMAIN E => E[c] = IF l # << >> THEN l[3] ELSE pages[c]
  <1> DEFINE f == "error_page"
             x == SelectLastInSeq(ls, LAMBDA y : y[1] = f)
             E == FillBlock(block, above, s, ls)[f]
             l == Latest(w, PageFor(c))
             A == Added(f, ls, s[f])
             T == {q \in 1..Len(ls) : ls[q][1] = f}
  <1>1. E = IF x = 0 THEN s[f] ELSE A
    BY DEF FillBlock
  <1>2. /\ c \in DOMAIN A <=> l # << >> \/ c \in DOMAIN s[f]
        /\ c \in DOMAIN A => A[c] = IF l # << >> THEN l[3] ELSE s[f][c]
    BY AddedIs
  <1>3. ASSUME x = 0 PROVE l = << >>
    <2>1. x = IF T # {} THEN Max(T) ELSE 0
      BY DEF SelectLastInSeq
    <2>2. Len(w) \in Nat
      BY LinesAre
    <2>3. T # {} => Max(T) # 0
      <3>1. T # {} => Max(T) \in T
        <4>1. T \subseteq 1..Len(w)
          OBVIOUS
        <4> HIDE DEF T
        <4> QED
          BY <2>2, <4>1, MaxOf
      <3>2. 0 \notin T
        OBVIOUS
      <3> HIDE DEF T
      <3> QED
        BY <3>1, <3>2
    <2>4. T = {}
      <3> HIDE DEF T, x
      <3> QED
        BY <1>3, <2>1, <2>3
    <2>5. \A q \in 1..Len(w) : w[q][1] # f
      BY <2>4
    <2>6. \A q \in 1..Len(w) : w[q] \notin PageFor(c)
      BY <2>5 DEF PageFor
    <2> QED
      BY <2>6, LatestIs
  <1> HIDE DEF A, x, l, E
  <1>4. /\ c \in DOMAIN E <=> l # << >> \/ c \in DOMAIN s[f]
        /\ c \in DOMAIN E => E[c] = IF l # << >> THEN l[3] ELSE s[f][c]
    BY <1>1, <1>2, <1>3
  <1> QED
    BY <1>4 DEF E, l

\* A server's pages are those of its lines, a location's are those of its
\* lines and of the server.
LEMMA ServerPages ==
    ASSUME NEW k, NEW n, NEW h, NEW m, NEW w \in Lines, n.words = w, NEW c
    PROVE  LET l == Latest(w, PageFor(c))
               E == FillServer(k, n, h, m).error_page IN
           /\ c \in DOMAIN E <=> l # << >>
           /\ c \in DOMAIN E => E[c] = l[3]
  <1> DEFINE s  == ServerDefaults(h, m)
             ls == ServerLines(k, n)
             b  == FillBlock("server", s, s, ls)
             l  == Latest(w, PageFor(c))
  <1>1. "error_page" \in DOMAIN s /\ s["error_page"] = NoPages /\ DOMAIN NoPages = {}
    BY DEF ServerDefaults, NoPages
  <1>2. /\ Len(ls) = Len(w) /\ DOMAIN ls = 1..Len(w)
        /\ \A q \in 1..Len(w) : ls[q][1] = w[q][1] /\ (w[q][1] = "error_page" => ls[q] = w[q])
    <2>1. /\ Len(ls) = Len(w) /\ DOMAIN ls = 1..Len(w)
          /\ \A q \in 1..Len(w) :
                /\ ls[q][1] = w[q][1]
                /\ w[q][1] # "client_max_uri_size" => ls[q] = w[q]
      BY ServerLinesAre
    <2> HIDE DEF ls
    <2> QED
      BY <2>1
  <1>3. FillServer(k, n, h, m) = With404Page(b)
    BY DEF FillServer
  <1> HIDE DEF s, ls
  <1>4. "error_page" \in DOMAIN b
    BY <1>1 DEF FillBlock
  <1>5. /\ c \in DOMAIN b["error_page"] <=> l # << >> \/ c \in DOMAIN s["error_page"]
        /\ c \in DOMAIN b["error_page"] =>
              b["error_page"][c] = IF l # << >> THEN l[3] ELSE s["error_page"][c]
    BY <1>1, <1>2, PagesFilled
  <1> HIDE DEF b, l
  <1>6. FillServer(k, n, h, m)["error_page"] = b["error_page"]
    BY <1>3, <1>4, With404Keeps
  <1> QED
    BY <1>1, <1>5, <1>6 DEF l

LEMMA LocationPages ==
    ASSUME NEW conf, NEW w \in Lines, NEW c
    PROVE  LET l == Latest(w, PageFor(c))
               E == FillLocation(conf, w).error_page IN
           /\ c \in DOMAIN E <=> l # << >> \/ c \in DOMAIN conf.error_page
           /\ c \in DOMAIN E => E[c] = IF l # << >> THEN l[3] ELSE conf.error_page[c]
  <1> DEFINE s == LocationDefaults(conf)
             b == FillBlock("location", conf, s, w)
             l == Latest(w, PageFor(c))
  <1>1. "error_page" \in DOMAIN s /\ s["error_page"] = conf.error_page
    BY DEF LocationDefaults
  <1>2. DOMAIN w = 1..Len(w)
    BY LinesAre
  <1>3. FillLocation(conf, w) = With404Page(b)
    BY DEF FillLocation
  <1> HIDE DEF s
  <1>4. "error_page" \in DOMAIN b
    BY <1>1 DEF FillBlock
  <1>5. /\ c \in DOMAIN b["error_page"] <=> l # << >> \/ c \in DOMAIN s["error_page"]
        /\ c \in DOMAIN b["error_page"] =>
              b["error_page"][c] = IF l # << >> THEN l[3] ELSE s["error_page"][c]
    BY <1>1, <1>2, PagesFilled
  <1> HIDE DEF b, l
  <1>6. FillLocation(conf, w)["error_page"] = b["error_page"]
    BY <1>3, <1>4, With404Keeps
  <1> QED
    BY <1>1, <1>5, <1>6 DEF l

-----------------------------------------------------------------------------
(* The nearest block                                                       *)

Else(a, b) == IF a # << >> THEN a ELSE b

NearestOf(bs, S) ==
    LET I == {b \in 1..Len(bs) : Latest(bs[b], S) # << >>}
    IN IF I # {} THEN Latest(bs[Min(I)], S) ELSE << >>

LEMMA NearestOfTwo ==
    ASSUME NEW a, NEW b, NEW S
    PROVE  NearestOf(<<a, b>>, S) = Else(Latest(a, S), Latest(b, S))
  <1> DEFINE bs == <<a, b>>
             I == {x \in 1..Len(bs) : Latest(bs[x], S) # << >>}
  <1>1. Len(bs) = 2 /\ bs[1] = a /\ bs[2] = b
    OBVIOUS
  <1>2. NearestOf(bs, S) = IF I # {} THEN Latest(bs[Min(I)], S) ELSE << >>
    BY DEF NearestOf
  <1>3. /\ I \subseteq 1..2
        /\ 1 \in I <=> Latest(a, S) # << >>
        /\ 2 \in I <=> Latest(b, S) # << >>
    <2> HIDE DEF bs
    <2> QED
      BY <1>1
  <1> HIDE DEF I, bs
  <1>4. I \subseteq Nat
    BY <1>3
  <1>5. CASE Latest(a, S) # << >>
    <2>1. 1 \in I /\ \A y \in I : 1 <= y
      BY <1>3, <1>5
    <2>2. Min(I) = 1
      BY <1>4, <2>1, LeastIs
    <2> QED
      BY <1>1, <1>2, <1>3, <1>5, <2>2 DEF Else, bs
  <1>6. CASE Latest(a, S) = << >> /\ Latest(b, S) # << >>
    <2>1. 2 \in I /\ \A y \in I : 2 <= y
      BY <1>3, <1>6
    <2>2. Min(I) = 2
      BY <1>4, <2>1, LeastIs
    <2> QED
      BY <1>1, <1>2, <1>3, <1>6, <2>2 DEF Else, bs
  <1>7. CASE Latest(a, S) = << >> /\ Latest(b, S) = << >>
    <2>1. I = {}
      BY <1>3, <1>7
    <2> QED
      BY <1>2, <1>7, <2>1 DEF Else, bs
  <1> QED
    BY <1>5, <1>6, <1>7

LEMMA NearestOfThree ==
    ASSUME NEW a, NEW b, NEW c, NEW S
    PROVE  NearestOf(<<a, b, c>>, S) = Else(Latest(a, S), Else(Latest(b, S), Latest(c, S)))
  <1> DEFINE bs == <<a, b, c>>
             I == {x \in 1..Len(bs) : Latest(bs[x], S) # << >>}
  <1>1. Len(bs) = 3 /\ bs[1] = a /\ bs[2] = b /\ bs[3] = c
    OBVIOUS
  <1>2. NearestOf(bs, S) = IF I # {} THEN Latest(bs[Min(I)], S) ELSE << >>
    BY DEF NearestOf
  <1>3. /\ I \subseteq 1..3
        /\ 1 \in I <=> Latest(a, S) # << >>
        /\ 2 \in I <=> Latest(b, S) # << >>
        /\ 3 \in I <=> Latest(c, S) # << >>
    <2> HIDE DEF bs
    <2> QED
      BY <1>1
  <1> HIDE DEF I, bs
  <1>4. I \subseteq Nat
    BY <1>3
  <1>5. CASE Latest(a, S) # << >>
    <2>1. 1 \in I /\ \A y \in I : 1 <= y
      BY <1>3, <1>5
    <2>2. Min(I) = 1
      BY <1>4, <2>1, LeastIs
    <2> QED
      BY <1>1, <1>2, <1>3, <1>5, <2>2 DEF Else, bs
  <1>6. CASE Latest(a, S) = << >> /\ Latest(b, S) # << >>
    <2>1. 2 \in I /\ \A y \in I : 2 <= y
      BY <1>3, <1>6
    <2>2. Min(I) = 2
      BY <1>4, <2>1, LeastIs
    <2> QED
      BY <1>1, <1>2, <1>3, <1>6, <2>2 DEF Else, bs
  <1>7. CASE Latest(a, S) = << >> /\ Latest(b, S) = << >> /\ Latest(c, S) # << >>
    <2>1. 3 \in I /\ \A y \in I : 3 <= y
      BY <1>3, <1>7
    <2>2. Min(I) = 3
      BY <1>4, <2>1, LeastIs
    <2> QED
      BY <1>1, <1>2, <1>3, <1>7, <2>2 DEF Else, bs
  <1>8. CASE Latest(a, S) = << >> /\ Latest(b, S) = << >> /\ Latest(c, S) = << >>
    <2>1. I = {}
      BY <1>3, <1>8
    <2> QED
      BY <1>2, <1>8, <2>1 DEF Else, bs
  <1> QED
    BY <1>5, <1>6, <1>7, <1>8

\* Looking for the first block that has such a line, and for its last one.
LEMMA NearestShape ==
    ASSUME NEW bs \in Seq(Lines), NEW S,
           NEW J, \A x : x \in J <=> x \in 1..Len(bs) /\ \E n \in 1..Len(bs[x]) : bs[x][n] \in S,
           NEW K, J # {} => \A n : n \in K <=> n \in 1..Len(bs[Min(J)]) /\ bs[Min(J)][n] \in S
    PROVE  /\ J = {} => NearestOf(bs, S) = << >>
           /\ J # {} => /\ Min(J) \in 1..Len(bs) /\ Min(J) # 0 /\ K # {}
                        /\ NearestOf(bs, S) = bs[Min(J)][Max(K)]
  <1> DEFINE I == {x \in 1..Len(bs) : Latest(bs[x], S) # << >>}
             b == Min(J)
  <1>1. NearestOf(bs, S) = IF I # {} THEN Latest(bs[Min(I)], S) ELSE << >>
    BY DEF NearestOf
  <1>2. \A x \in 1..Len(bs) :
           bs[x] \in Lines /\ ((\E n \in 1..Len(bs[x]) : bs[x][n] \in S) <=> Latest(bs[x], S) # << >>)
    BY LatestIs
  <1>3. J = I
    BY <1>2
  <1>4. J \subseteq 1..Len(bs) /\ J \subseteq Nat
    OBVIOUS
  <1> HIDE DEF I, b
  <1>5. ASSUME J # {}
        PROVE  b \in 1..Len(bs) /\ b # 0 /\ K # {} /\ bs[b][Max(K)] = Latest(bs[b], S)
    <2>1. b \in J
      BY <1>4, <1>5, MinOf DEF b
    <2>2. b \in 1..Len(bs) /\ Latest(bs[b], S) # << >>
      BY <1>3, <1>4, <2>1 DEF I
    <2>3. PICK w \in Lines : w = bs[b]
      BY <1>2, <2>2
    <2>4. K = {n \in 1..Len(w) : w[n] \in S}
      BY <1>5, <2>3 DEF b
    <2>5. LastIn(w, S) = IF K # {} THEN Max(K) ELSE 0
      BY <2>4 DEF LastIn
    <2>6. LastIn(w, S) # 0 /\ Latest(w, S) = w[LastIn(w, S)]
      BY <2>2, <2>3, LatestIs DEF Latest
    <2> QED
      BY <2>2, <2>3, <2>5, <2>6
  <1> QED
    BY <1>1, <1>3, <1>5 DEF b

\* The two ways in which a line is looked for.
LEMMA NearestForIs ==
    ASSUME NEW location, NEW token, Blocks(location) \in Seq(Lines)
    PROVE  NearestFor(location, token) = NearestOf(Blocks(location), For(token))
  <1> DEFINE bs == Blocks(location)
             J == {x \in 1..Len(bs) : \E n \in DOMAIN bs[x] : bs[x][n][1] = token}
             b == IF J # {} THEN Min(J) ELSE 0
             K == {n \in 1..Len(bs[b]) : bs[b][n][1] = token}
             last == IF K # {} THEN Max(K) ELSE 0
  <1>1. NearestFor(location, token) = IF b = 0 THEN << >> ELSE bs[b][last]
    BY DEF NearestFor, Nearest, SelectInSeq, SelectLastInSeq
  <1> HIDE DEF bs
  <1>2. ASSUME NEW x \in 1..Len(bs)
        PROVE  /\ DOMAIN bs[x] = 1..Len(bs[x])
               /\ \A n \in 1..Len(bs[x]) : bs[x][n][1] = token <=> bs[x][n] \in For(token)
    <2>1. PICK w \in Lines : w = bs[x]
      BY DEF bs
    <2>2. DOMAIN w = 1..Len(w) /\ \A n \in 1..Len(w) : w[n] \in Line
      BY LinesAre
    <2> QED
      BY <2>1, <2>2 DEF For
  <1>3. J = {x \in 1..Len(bs) : \E n \in 1..Len(bs[x]) : bs[x][n] \in For(token)}
    BY <1>2
  <1>4. J # {} => b = Min(J) /\ b \in 1..Len(bs)
    <2>1. J \subseteq Nat
      OBVIOUS
    <2>2. J # {} => Min(J) \in J
      <3> HIDE DEF J
      <3> QED
        BY <2>1, MinOf
    <2> QED
      BY <2>2
  <1>5. J # {} => K = {n \in 1..Len(bs[Min(J)]) : bs[Min(J)][n] \in For(token)}
    <2> HIDE DEF J, b
    <2> QED
      BY <1>2, <1>4
  <1> HIDE DEF J, K
  <1>6. /\ J = {} => NearestOf(bs, For(token)) = << >>
        /\ J # {} => /\ Min(J) \in 1..Len(bs) /\ Min(J) # 0 /\ K # {}
                     /\ NearestOf(bs, For(token)) = bs[Min(J)][Max(K)]
    <2>1. PICK bb \in Seq(Lines) : bb = bs
      BY DEF bs
    <2>2. PICK SS : SS = For(token)
      OBVIOUS
    <2>3. PICK JJ : JJ = J
      OBVIOUS
    <2>4. PICK KK : KK = K
      OBVIOUS
    <2>5. \A x : x \in JJ <=> x \in 1..Len(bb) /\ \E n \in 1..Len(bb[x]) : bb[x][n] \in SS
      BY <1>3, <2>1, <2>2, <2>3
    <2>6. JJ # {} => \A n : n \in KK <=> n \in 1..Len(bb[Min(JJ)]) /\ bb[Min(JJ)][n] \in SS
      BY <1>5, <2>1, <2>2, <2>3, <2>4
    <2>7. /\ JJ = {} => NearestOf(bb, SS) = << >>
          /\ JJ # {} => /\ Min(JJ) \in 1..Len(bb) /\ Min(JJ) # 0 /\ KK # {}
                        /\ NearestOf(bb, SS) = bb[Min(JJ)][Max(KK)]
      BY <2>5, <2>6, NearestShape, ZenonT(60)
    <2> QED
      BY <2>1, <2>2, <2>3, <2>4, <2>7
  <1> QED
    BY <1>1, <1>6 DEF bs

LEMMA NearestPageIs ==
    ASSUME NEW location, NEW c, Blocks(location) \in Seq(Lines)
    PROVE  NearestPage(location, c) = NearestOf(Blocks(location), PageFor(c))
  <1> DEFINE bs == Blocks(location)
             Is(y) == y[1] = "error_page" /\ Key("error_page", y) = c
             J == {x \in 1..Len(bs) : \E n \in DOMAIN bs[x] : Is(bs[x][n])}
             b == IF J # {} THEN Min(J) ELSE 0
             K == {n \in 1..Len(bs[b]) : Is(bs[b][n])}
             last == IF K # {} THEN Max(K) ELSE 0
  <1>1. NearestPage(location, c) = IF b = 0 THEN << >> ELSE bs[b][last]
    BY DEF NearestPage, Nearest, SelectInSeq, SelectLastInSeq
  <1> HIDE DEF bs
  <1>2. ASSUME NEW x \in 1..Len(bs)
        PROVE  /\ DOMAIN bs[x] = 1..Len(bs[x])
               /\ \A n \in 1..Len(bs[x]) : Is(bs[x][n]) <=> bs[x][n] \in PageFor(c)
    <2>1. PICK w \in Lines : w = bs[x]
      BY DEF bs
    <2>2. DOMAIN w = 1..Len(w) /\ \A n \in 1..Len(w) : w[n] \in Line
      BY LinesAre
    <2> QED
      BY <2>1, <2>2 DEF PageFor
  <1> HIDE DEF Is
  <1>3. J = {x \in 1..Len(bs) : \E n \in 1..Len(bs[x]) : bs[x][n] \in PageFor(c)}
    BY <1>2
  <1>4. J # {} => b = Min(J) /\ b \in 1..Len(bs)
    <2>1. J \subseteq Nat
      OBVIOUS
    <2>2. J # {} => Min(J) \in J
      <3> HIDE DEF J
      <3> QED
        BY <2>1, MinOf
    <2> QED
      BY <2>2
  <1>5. J # {} => K = {n \in 1..Len(bs[Min(J)]) : bs[Min(J)][n] \in PageFor(c)}
    <2> HIDE DEF J, b
    <2> QED
      BY <1>2, <1>4
  <1> HIDE DEF J, K
  <1>6. /\ J = {} => NearestOf(bs, PageFor(c)) = << >>
        /\ J # {} => /\ Min(J) \in 1..Len(bs) /\ Min(J) # 0 /\ K # {}
                     /\ NearestOf(bs, PageFor(c)) = bs[Min(J)][Max(K)]
    <2>1. PICK bb \in Seq(Lines) : bb = bs
      BY DEF bs
    <2>2. PICK SS : SS = PageFor(c)
      OBVIOUS
    <2>3. PICK JJ : JJ = J
      OBVIOUS
    <2>4. PICK KK : KK = K
      OBVIOUS
    <2>5. \A x : x \in JJ <=> x \in 1..Len(bb) /\ \E n \in 1..Len(bb[x]) : bb[x][n] \in SS
      BY <1>3, <2>1, <2>2, <2>3
    <2>6. JJ # {} => \A n : n \in KK <=> n \in 1..Len(bb[Min(JJ)]) /\ bb[Min(JJ)][n] \in SS
      BY <1>5, <2>1, <2>2, <2>3, <2>4
    <2>7. /\ JJ = {} => NearestOf(bb, SS) = << >>
          /\ JJ # {} => /\ Min(JJ) \in 1..Len(bb) /\ Min(JJ) # 0 /\ KK # {}
                        /\ NearestOf(bb, SS) = bb[Min(JJ)][Max(KK)]
      BY <2>5, <2>6, NearestShape, ZenonT(60)
    <2> QED
      BY <2>1, <2>2, <2>3, <2>4, <2>7
  <1> QED
    BY <1>1, <1>6 DEF bs

-----------------------------------------------------------------------------
(* The longest name                                                        *)

\* Finitely many numbers have a bound.
LEMMA Bounded ==
    ASSUME NEW N \in Nat, NEW f, \A n \in 1..N : f[n] \in Nat
    PROVE  \E b \in Nat : \A n \in 1..N : f[n] <= b
  <1> DEFINE bound(m) == \E b \in Nat : \A n \in 1..m : f[n] <= b
             C == {m \in 0..N : ~bound(m)}
  <1>1. C = {}
    <2> SUFFICES ASSUME C # {} PROVE FALSE
      OBVIOUS
    <2>1. C \subseteq Nat
      OBVIOUS
    <2>2. PICK m \in C : \A y \in C : m <= y
      <3> HIDE DEF C
      <3> QED
        BY <2>1, LeastNatural
    <2>3. bound(0)
      <3>1. \A n \in 1..0 : f[n] <= 0
        OBVIOUS
      <3> QED
        BY <3>1
    <2>4. m \in 1..N /\ m - 1 \in 0..N /\ m - 1 \notin C /\ ~bound(m)
      <3>1. m \in 0..N /\ ~bound(m)
        OBVIOUS
      <3>2. m # 0
        BY <2>3, <3>1
      <3>3. m \in 1..N /\ m - 1 \in 0..N /\ ~(m <= m - 1)
        BY <3>1, <3>2
      <3> HIDE DEF C, bound
      <3> QED
        BY <2>2, <3>1, <3>3
    <2>5. bound(m - 1)
      BY <2>4
    <2>6. PICK b \in Nat : \A n \in 1..m - 1 : f[n] <= b
      BY <2>5
    <2>7. f[m] \in Nat
      BY <2>4
    <2>8. PICK c \in Nat : b <= c /\ f[m] <= c
      <3>1. CASE b <= f[m]
        BY <2>7, <3>1
      <3>2. CASE f[m] <= b
        BY <2>7, <3>2
      <3> QED
        BY <2>7, <3>1, <3>2
    <2>9. ASSUME NEW n \in 1..m PROVE f[n] <= c
      <3>1. m \in Nat /\ m <= N
        BY <2>4
      <3>2. n = m \/ n \in 1..m - 1
        BY <3>1
      <3>3. n \in 1..N
        BY <3>1
      <3>4. f[n] \in Nat
        BY <3>3
      <3> QED
        BY <2>6, <2>8, <3>2, <3>4
    <2> QED
      BY <2>4, <2>8, <2>9
  <1>2. N \notin C
    BY <1>1
  <1> QED
    BY <1>2

\* Of the names of locations that are in S, one is the longest.
LEMMA LongestName ==
    ASSUME NEW N \in Nat, NEW f, \A n \in 1..N : IsSeq(f[n]),
           NEW D, \A p \in D : \E n \in 1..N : p = f[n], NEW S, S \cap D # {}
    PROVE  \E p \in S \cap D : \A q \in S \cap D : Len(q) <= Len(p)
  <1> DEFINE g == [n \in 1..N |-> Len(f[n])]
  <1>1. \A n \in 1..N : g[n] \in Nat /\ g[n] = Len(f[n])
    BY SeqDomain
  <1> HIDE DEF g
  <1>2. PICK b \in Nat : \A n \in 1..N : g[n] <= b
    BY <1>1, Bounded
  <1>3. \A p \in S \cap D : Len(p) \in Nat /\ Len(p) <= b
    BY <1>1, <1>2
  <1> DEFINE U == {b - Len(p) : p \in S \cap D}
  <1>4. U \subseteq Nat /\ U # {}
    <2>1. \A p \in S \cap D : b - Len(p) \in Nat
      BY <1>3
    <2> QED
      BY <2>1
  <1>5. PICK u \in U : \A y \in U : u <= y
    BY <1>4, LeastNatural
  <1>6. PICK p \in S \cap D : u = b - Len(p)
    BY <1>5
  <1>7. ASSUME NEW q \in S \cap D PROVE Len(q) <= Len(p)
    <2>1. b - Len(q) \in U
      OBVIOUS
    <2>2. b - Len(p) <= b - Len(q)
      BY <1>5, <1>6, <2>1
    <2> HIDE DEF U
    <2>3. Len(q) \in Nat /\ Len(p) \in Nat
      BY <1>3
    <2> QED
      BY <2>2, <2>3
  <1> QED
    BY <1>7

-----------------------------------------------------------------------------
(* The blocks of a location                                                *)

LEMMA BlocksOutside ==
    ASSUME NEW s, s = input.sites[1]
    PROVE  Blocks({}) = <<s.words, input.http>>
  <1> DEFINE n == SelectInSeq(s.locations, LAMBDA l : {} # {} /\ Names(l.name) = Named({}))
  <1>1. n = 0
    BY DEF SelectInSeq
  <1>2. Blocks({}) = (IF n = 0 THEN << >> ELSE <<s.locations[n].lines>>) \o <<s.words, input.http>>
    BY DEF Blocks
  <1>3. << >> \o <<s.words, input.http>> = <<s.words, input.http>>
    OBVIOUS
  <1> HIDE DEF n
  <1> QED
    BY <1>1, <1>2, <1>3

LEMMA OneAndTwo ==
    ASSUME NEW a, NEW b, NEW c
    PROVE  <<a>> \o <<b, c>> = <<a, b, c>>
  <1>1. PICK S : a \in S /\ b \in S /\ c \in S
    <2>1. a \in {a, b, c} /\ b \in {a, b, c} /\ c \in {a, b, c}
      OBVIOUS
    <2> QED
      BY <2>1
  <1>2. <<a>> \in Seq(S) /\ <<b, c>> \in Seq(S) /\ <<a, b, c>> \in Seq(S)
    BY <1>1
  <1>3. PICK x \in Seq(S) : x = <<a>>
    BY <1>2
  <1>4. PICK y \in Seq(S) : y = <<b, c>>
    BY <1>2
  <1>5. PICK z \in Seq(S) : z = <<a, b, c>>
    BY <1>2
  <1>6. Len(x) = 1 /\ x[1] = a /\ Len(y) = 2 /\ y[1] = b /\ y[2] = c
    BY <1>3, <1>4
  <1>7. Len(z) = 3 /\ z[1] = a /\ z[2] = b /\ z[3] = c
    BY <1>5
  <1>8. PICK t \in Seq(S) : t = x \o y
    BY ConcatIs
  <1>9. Len(t) = 3 /\ t[1] = a /\ t[2] = b /\ t[3] = c
    <2>1. /\ Len(t) = Len(x) + Len(y)
          /\ \A m \in 1..Len(x) : t[m] = x[m]
          /\ \A m \in 1..Len(y) : t[Len(x) + m] = y[m]
      BY <1>8, ConcatIs
    <2>2. 1 \in 1..Len(x) /\ 1 \in 1..Len(y) /\ 2 \in 1..Len(y)
      BY <1>6
    <2>3. t[1] = x[1] /\ t[Len(x) + 1] = y[1] /\ t[Len(x) + 2] = y[2]
      BY <2>1, <2>2
    <2> QED
      BY <1>6, <2>1, <2>3
  <1>10. Len(t) = Len(z) /\ \A m \in 1..Len(t) : t[m] = z[m]
    <2>1. \A m \in 1..3 : m = 1 \/ m = 2 \/ m = 3
      OBVIOUS
    <2> QED
      BY <1>7, <1>9, <2>1
  <1>11. t = z
    BY <1>10, SeqEqual
  <1> QED
    BY <1>3, <1>4, <1>5, <1>8, <1>11

LEMMA BlocksInside ==
    ASSUME NEW s, s = input.sites[1], NEW L \in LocationsText, L = s.locations,
           NEW n \in 1..Len(L), NEW location, location # {}, Named(location) = NameOf(L, n),
           \A m \in 1..n - 1 : NameOf(L, m) # NameOf(L, n)
    PROVE  Blocks(location) = <<L[n].lines, s.words, input.http>>
  <1> DEFINE x == SelectInSeq(L, LAMBDA l : location # {} /\ Names(l.name) = Named(location))
             T == {m \in 1..Len(L) : location # {} /\ Names(L[m].name) = Named(location)}
  <1>1. Len(L) \in Nat
    BY DEF LocationsText
  <1>2. x = IF T # {} THEN Min(T) ELSE 0
    BY DEF SelectInSeq
  <1>3. n \in T /\ T \subseteq Nat
    BY DEF NameOf
  <1>4. ASSUME NEW m \in T PROVE n <= m
    <2>1. NameOf(L, m) = NameOf(L, n) /\ m \in 1..Len(L)
      BY DEF NameOf
    <2>2. m \notin 1..n - 1
      BY <2>1
    <2> QED
      BY <1>1, <2>1, <2>2
  <1>5. x = n
    <2> HIDE DEF T, x
    <2> QED
      BY <1>2, <1>3, <1>4, LeastIs
  <1>6. Blocks(location) = (IF x = 0 THEN << >> ELSE <<L[x].lines>>) \o <<s.words, input.http>>
    BY DEF Blocks
  <1>7. n # 0
    BY <1>1
  <1>8. <<L[n].lines>> \o <<s.words, input.http>> = <<L[n].lines, s.words, input.http>>
    BY OneAndTwo
  <1> HIDE DEF x
  <1> QED
    BY <1>5, <1>6, <1>7, <1>8

-----------------------------------------------------------------------------
(* A request that was answered                                             *)

\* What a response goes by, when the file was read as it is written.
Answering(s, conf) ==
    /\ phase = "running" /\ response.location = DirConfigs(request.path)
    /\ s = input.sites[1] /\ s.locations \in LocationsText /\ Unnested(s.locations)
    /\ s.words \in Lines /\ input.http \in Lines
    /\ BlockVerdict("http", input.http) = "valid" /\ BlockVerdict("server", s.words) = "valid"
    /\ BlockVerdict("location", Written(s.locations)) = "valid"
    /\ input.http = http_as_words /\ http = HttpConfigs
    /\ \E n : n.words = s.words /\ conf = FillServer(1, n, http, input.memory)
    /\ This.conf = Clamped(conf)
    /\ This.dir_configs = HandleLocations(conf, Written(s.locations))

LEMMA AnsweringIs ==
    ASSUME SiteInv, FileInv, ParsedAsWritten, response.status # "none", input.plain
    PROVE  \E s, conf : Answering(s, conf)
  <1> DEFINE s == input.sites[1]
             n == nodes[1]
             conf == FillServer(1, n, http, input.memory)
             SiteText == [words : Directives, locations : LocationsText]
  <1>1. phase = "running" /\ response.location = DirConfigs(request.path)
    BY DEF FileInv, Answers
  <1>2. 1 \in DOMAIN servers /\ servers[1].warned
    <2>1. IsSeq(servers) /\ Len(servers) > 0 /\ \A k \in DOMAIN servers : servers[k].warned
      BY <1>1 DEF SiteInv, Filled
    <2>2. Len(servers) \in Nat /\ DOMAIN servers = 1..Len(servers)
      BY <2>1, SeqDomain
    <2> QED
      BY <2>1, <2>2
  <1>3. /\ input.http = http_as_words /\ http = HttpConfigs
        /\ s.words \in Lines /\ input.http \in Lines /\ 1 \in DOMAIN input.sites
        /\ n = NodeOf(s) /\ n.words = s.words
        /\ BlockVerdict("http", input.http) = "valid" /\ BlockVerdict("server", s.words) = "valid"
        /\ BlockVerdict("location", n.location_blocks) = "valid"
    BY <1>1, <1>2, AsWritten
  <1>4. n.location_blocks = Written(s.locations)
    BY <1>3 DEF NodeOf, Written
  <1>5. s.locations \in LocationsText /\ Unnested(s.locations)
    <2>1. input \in Inputs
      BY DEF FileInv, Read
    <2>2. input.sites \in Seq(SiteText)
      BY <2>1, MeantAssumption DEF LocationsText
    <2>3. s \in SiteText
      <3> HIDE DEF SiteText
      <3> QED
        BY <1>3, <2>2
    <2>4. Unnested(s.locations)
      BY <1>3, <2>1, MeantAssumption DEF Unnested
    <2> QED
      BY <2>3, <2>4
  <1>6. OfNode(1)
    BY <1>2 DEF FileInv, FromFile
  <1>7. This.conf = Clamped(conf) /\ This.dir_configs = HandleLocations(conf, Written(s.locations))
    BY <1>2, <1>4, <1>6 DEF OfNode, This
  <1> HIDE DEF conf
  <1>8. \E x : x.words = s.words /\ conf = FillServer(1, x, http, input.memory)
    BY <1>3 DEF conf
  <1> HIDE DEF s, n
  <1>9. Answering(s, conf)
    BY <1>1, <1>3, <1>4, <1>5, <1>7, <1>8 DEF Answering, s
  <1> QED
    BY <1>9

\* A block that was checked has no line for a token that is not its own.
LEMMA NoSuchLine ==
    ASSUME NEW block, NEW ls \in Lines, BlockVerdict(block, ls) = "valid",
           NEW f, f \notin DOMAIN Tokens[block]
    PROVE  Latest(ls, For(f)) = << >>
  <1> SUFFICES ASSUME Latest(ls, For(f)) # << >> PROVE FALSE
    OBVIOUS
  <1>1. PICK n \in 1..Len(ls) : Latest(ls, For(f)) = ls[n]
    BY LatestIs
  <1>2. ls[n][1] = f
    BY <1>1, LatestIs DEF For
  <1>3. LineVerdict(block, ls[n]) = "valid"
    BY BlockValid
  <1> QED
    BY <1>2, <1>3, LineChecked

\* Nor has the http block any error page, ...
LEMMA NoHttpPage ==
    ASSUME NEW ls \in Lines, BlockVerdict("http", ls) = "valid", NEW c
    PROVE  Latest(ls, PageFor(c)) = << >>
  <1> SUFFICES ASSUME Latest(ls, PageFor(c)) # << >> PROVE FALSE
    OBVIOUS
  <1>1. PICK n \in 1..Len(ls) : Latest(ls, PageFor(c)) = ls[n]
    BY LatestIs
  <1>2. ls[n][1] = "error_page"
    BY <1>1, LatestIs DEF PageFor
  <1>3. LineVerdict("http", ls[n]) = "valid"
    BY BlockValid
  <1>4. "error_page" \notin DOMAIN Tokens["http"]
    BY DEF Tokens, HttpTokens
  <1> QED
    BY <1>2, <1>3, <1>4, LineChecked

\* ... nor a location a line that its server's verdict did not look at.
LEMMA LocationChecked ==
    ASSUME NEW L \in LocationsText, BlockVerdict("location", Written(L)) = "valid",
           NEW n \in 1..Len(L), NEW m \in 1..Len(L[n].lines)
    PROVE  LineVerdict("location", L[n].lines[m]) = "valid"
  <1>0. PICK B : B = Written(L)
    OBVIOUS
  <1>1. PICK e : Placed(e, L, B)
    BY <1>0, LocationsPlaced
  <1> DEFINE x == e[n - 1] + 1 + m
  <1>2. B \in Lines /\ Len(B) = e[Len(L)] /\ B[x] = L[n].lines[m]
    BY <1>1 DEF Placed
  <1>3. Len(L) \in Nat
    BY DEF LocationsText
  <1>4. Len(L[n].lines) \in Nat
    BY LocationLines, LinesAre
  <1>5. n - 1 \in 0..Len(L) /\ n \in 0..Len(L) /\ Len(L) \in 0..Len(L) /\ n <= Len(L)
    BY <1>3
  <1>6. /\ e[n - 1] \in Nat /\ e[n] \in Nat /\ e[Len(L)] \in Nat /\ e[n] <= e[Len(L)]
        /\ e[n] = e[n - 1] + 1 + Len(L[n].lines)
    BY <1>1, <1>5 DEF Placed
  <1>7. x \in 1..Len(B)
    BY <1>2, <1>4, <1>6, SMTT(60)
  <1> HIDE DEF x
  <1> QED
    BY <1>0, <1>2, <1>7, BlockValid

LEMMA NoSuchLineInside ==
    ASSUME NEW L \in LocationsText, BlockVerdict("location", Written(L)) = "valid",
           NEW n \in 1..Len(L), NEW f, f \notin DOMAIN Tokens["location"]
    PROVE  Latest(L[n].lines, For(f)) = << >>
  <1> SUFFICES ASSUME Latest(L[n].lines, For(f)) # << >> PROVE FALSE
    OBVIOUS
  <1>1. PICK w \in Lines : w = L[n].lines
    BY LocationLines
  <1>2. PICK m \in 1..Len(w) : Latest(w, For(f)) = w[m]
    BY <1>1, LatestIs
  <1>3. w[m][1] = f
    BY <1>1, <1>2, LatestIs DEF For
  <1>4. LineVerdict("location", w[m]) = "valid"
    BY <1>1, LocationChecked
  <1> QED
    BY <1>3, <1>4, LineChecked

-----------------------------------------------------------------------------
(* The location that decides                                               *)

\* The first location with a name.
LEMMA FirstOf ==
    ASSUME NEW L \in LocationsText, NEW p, p \in {NameOf(L, n) : n \in 1..Len(L)}
    PROVE  \E n \in 1..Len(L) : NameOf(L, n) = p /\ \A m \in 1..n - 1 : NameOf(L, m) # NameOf(L, n)
  <1> DEFINE T == {n \in 1..Len(L) : NameOf(L, n) = p}
  <1>1. T \subseteq Nat /\ T # {}
    OBVIOUS
  <1>2. PICK n \in T : \A y \in T : n <= y
    <2> HIDE DEF T
    <2> QED
      BY <1>1, LeastNatural
  <1>3. n \in 1..Len(L) /\ NameOf(L, n) = p /\ Len(L) \in Nat
    BY DEF LocationsText
  <1>4. ASSUME NEW m \in 1..n - 1, NameOf(L, m) = p PROVE FALSE
    <2>1. m \in T
      BY <1>3, <1>4
    <2>2. n <= m
      BY <1>2, <2>1
    <2> QED
      BY <1>3, <2>2
  <1> QED
    BY <1>3, <1>4

\* Which of them is looked up, and what it was filled from.
LEMMA LookedUp ==
    ASSUME NEW s, NEW conf, Answering(s, conf)
    PROVE  LET L == s.locations
               location == response.location
               S == SlashPrefixes(request.path) IN
           /\ \A p \in location : \A n \in 1..Len(L) : NameOf(L, n) \in S => Len(NameOf(L, n)) <= Len(p)
           /\ location = {} => \A n \in 1..Len(L) : NameOf(L, n) \notin S
           /\ location # {} =>
                 \E n \in 1..Len(L) :
                    /\ Named(location) = NameOf(L, n)
                    /\ \A m \in 1..n - 1 : NameOf(L, m) # NameOf(L, n)
                    /\ Deciding(location) = FillLocation(conf, L[n].lines)
  <1> DEFINE L == s.locations
             location == response.location
             S == SlashPrefixes(request.path)
             dirs == This.dir_configs
             D == DOMAIN dirs
             f == [n \in 1..Len(L) |-> NameOf(L, n)]
  <1>1. L \in LocationsText /\ Unnested(L) /\ dirs = HandleLocations(conf, Written(L))
    BY DEF Answering
  <1>2. location = {p \in S \cap D : \A q \in S \cap D : Len(q) <= Len(p)}
    BY DEF Answering, DirConfigs
  <1>3. /\ D = {NameOf(L, n) : n \in 1..Len(L)}
        /\ \A n \in 1..Len(L) : (\A m \in 1..n - 1 : NameOf(L, m) # NameOf(L, n))
              => dirs[NameOf(L, n)] = FillLocation(conf, L[n].lines)
    <2> HIDE DEF L, dirs
    <2> QED
      BY <1>1, LocationsAre
  <1>4. Len(L) \in Nat
    BY <1>1 DEF LocationsText
  <1> HIDE DEF S, D, L, dirs, location
  <1>5. location = {} => S \cap D = {}
    <2>1. \A n \in 1..Len(L) : IsSeq(f[n])
      BY NamesIsSeq DEF NameOf
    <2>2. \A p \in D : \E n \in 1..Len(L) : p = f[n]
      BY <1>3
    <2> HIDE DEF f
    <2>3. S \cap D # {} => \E p \in S \cap D : \A q \in S \cap D : Len(q) <= Len(p)
      BY <1>4, <2>1, <2>2, LongestName, ZenonT(60)
    <2> QED
      BY <1>2, <2>3
  <1>6. ASSUME location # {}
        PROVE  \E n \in 1..Len(L) :
                    /\ Named(location) = NameOf(L, n)
                    /\ \A m \in 1..n - 1 : NameOf(L, m) # NameOf(L, n)
                    /\ Deciding(location) = FillLocation(conf, L[n].lines)
    <2>1. Named(location) \in location
      BY <1>6 DEF Named
    <2>2. Named(location) \in {NameOf(L, n) : n \in 1..Len(L)}
      BY <1>2, <1>3, <2>1
    <2>3. PICK n \in 1..Len(L) : NameOf(L, n) = Named(location)
                                 /\ \A m \in 1..n - 1 : NameOf(L, m) # NameOf(L, n)
      BY <1>1, <2>2, FirstOf
    <2>4. Deciding(location) = dirs[Named(location)]
      BY <1>6 DEF Deciding, dirs
    <2> QED
      BY <1>3, <2>3, <2>4
  <1>7. \A n \in 1..Len(L) : NameOf(L, n) \in D
    BY <1>3
  <1>8. \A p \in location : \A n \in 1..Len(L) : NameOf(L, n) \in S => Len(NameOf(L, n)) <= Len(p)
    BY <1>2, <1>7
  <1>9. location = {} => \A n \in 1..Len(L) : NameOf(L, n) \notin S
    BY <1>5, <1>7
  <1> QED
    BY <1>6, <1>8, <1>9 DEF L, location, S

\* The lines of the location, if there is one, come before those of the
\* server and of the http block.
Inner(s, conf, ls) ==
    LET location == response.location
        Lines3(S) == Else(Latest(ls, S), Else(Latest(s.words, S), Latest(input.http, S))) IN
    /\ ls \in Lines
    /\ \A t : NearestFor(location, t) = Lines3(For(t))
    /\ \A c : NearestPage(location, c) = Lines3(PageFor(c))
    /\ \A f : f \notin DOMAIN Tokens["location"] => Latest(ls, For(f)) = << >>
    /\ location # {} => Deciding(location) = FillLocation(conf, ls)
    /\ location = {} => ls = << >> /\ Deciding(location) = Clamped(conf)

LEMMA InnerExists ==
    ASSUME NEW s, NEW conf, Answering(s, conf)
    PROVE  \E ls : Inner(s, conf, ls)
  <1> DEFINE location == response.location
             w == s.words
             h == input.http
             L == s.locations
  <1>1. /\ w \in Lines /\ h \in Lines /\ L \in LocationsText /\ s = input.sites[1]
        /\ BlockVerdict("location", Written(L)) = "valid" /\ This.conf = Clamped(conf)
    BY DEF Answering
  <1>2. CASE location = {}
    <2>1. Blocks({}) = <<w, h>>
      BY <1>1, BlocksOutside
    <2>2. <<w, h>> \in Seq(Lines)
      <3> HIDE DEF w, h
      <3> QED
        BY <1>1
    <2>3. \A S : NearestOf(<<w, h>>, S) = Else(Latest(w, S), Latest(h, S))
      BY NearestOfTwo
    <2>4. \A t : NearestFor({}, t) = NearestOf(<<w, h>>, For(t))
      BY <2>1, <2>2, NearestForIs
    <2>5. \A c : NearestPage({}, c) = NearestOf(<<w, h>>, PageFor(c))
      BY <2>1, <2>2, NearestPageIs
    <2>6. << >> \in Lines /\ \A S : Latest(<< >>, S) = << >>
      <3>1. << >> \in Lines
        BY DEF Lines
      <3>2. Len(<< >>) = 0
        OBVIOUS
      <3> QED
        BY <3>1, <3>2, LatestIs
    <2>7. \A x : Else(<< >>, x) = x
      BY DEF Else
    <2>8. Deciding({}) = Clamped(conf)
      BY <1>1 DEF Deciding
    <2>9. Inner(s, conf, << >>)
      BY <1>2, <2>3, <2>4, <2>5, <2>6, <2>7, <2>8 DEF Inner
    <2> QED
      BY <2>9
  <1>3. CASE location # {}
    <2>1. PICK n \in 1..Len(L) : /\ Named(location) = NameOf(L, n)
                                 /\ \A m \in 1..n - 1 : NameOf(L, m) # NameOf(L, n)
                                 /\ Deciding(location) = FillLocation(conf, L[n].lines)
      BY <1>3, LookedUp
    <2>2. PICK ls \in Lines : ls = L[n].lines
      BY <1>1, LocationLines
    <2>3. Blocks(location) = <<ls, w, h>>
      <3> HIDE DEF L, location
      <3>1. Blocks(location) = <<L[n].lines, s.words, input.http>>
        BY <1>1, <1>3, <2>1, BlocksInside DEF L
      <3> QED
        BY <2>2, <3>1
    <2>4. <<ls, w, h>> \in Seq(Lines)
      <3> HIDE DEF w, h
      <3> QED
        BY <1>1
    <2> HIDE DEF location
    <2>5. \A S : NearestOf(<<ls, w, h>>, S) = Else(Latest(ls, S), Else(Latest(w, S), Latest(h, S)))
      BY NearestOfThree
    <2>6. \A t : NearestFor(location, t) = NearestOf(<<ls, w, h>>, For(t))
      BY <2>3, <2>4, NearestForIs
    <2>7. \A c : NearestPage(location, c) = NearestOf(<<ls, w, h>>, PageFor(c))
      BY <2>3, <2>4, NearestPageIs
    <2>8. \A f : f \notin DOMAIN Tokens["location"] => Latest(ls, For(f)) = << >>
      BY <1>1, <2>2, NoSuchLineInside
    <2>9. Inner(s, conf, ls)
      BY <1>3, <2>1, <2>2, <2>5, <2>6, <2>7, <2>8 DEF Inner, location
    <2> QED
      BY <2>9
  <1> QED
    BY <1>2, <1>3

-----------------------------------------------------------------------------
(* A value goes down from block to block, to the nearest that has another  *)

LEMMA Chained ==
    ASSUME NEW block, NEW f, f # "redirect",
           NEW type \in {"METHOD_VECTOR", "STRING_VECTOR", "DIRECTORY"}, Tokens[block][f] = type,
           NEW x, NEW c, NEW own, NEW above,
           x # << >> /\ Tail(x) # <<"*">> => own = Value("http", type, x),
           Else(c, x) # << >>, Tail(Else(c, x)) # <<"*">>
    PROVE  Filling(block, f, c, own, above) = Value("http", type, Else(c, x))
  <1>1. \A l : Value(block, type, l) = Value("http", type, l)
    BY DEF Value
  <1>2. CASE c = << >>
    <2>1. Else(c, x) = x /\ Filling(block, f, c, own, above) = own
      BY <1>2 DEF Else, Filling
    <2> QED
      BY <2>1
  <1>3. CASE c # << >>
    <2>1. Else(c, x) = c
      BY <1>3 DEF Else
    <2>2. Filling(block, f, c, own, above) = Value(block, type, c)
      BY <1>3, <2>1 DEF Filling
    <2> QED
      BY <1>1, <2>1, <2>2
  <1> QED
    BY <1>2, <1>3

\* A field of the location's settings, or of the server's where there is none.
LEMMA DecidingIs ==
    ASSUME NEW s, NEW conf, NEW ls, Inner(s, conf, ls),
           NEW f \in {"allowed_methods", "try_index_files"}, f \in DOMAIN conf
    PROVE  Deciding(response.location)[f]
              = Filling("location", f, Latest(ls, For(f)), conf[f], conf[f])
  <1> DEFINE location == response.location
             d == LocationDefaults(conf)
             b == FillBlock("location", conf, d, ls)
  <1>0. /\ ls \in Lines
        /\ location # {} => Deciding(location) = FillLocation(conf, ls)
        /\ location = {} => ls = << >> /\ Deciding(location) = Clamped(conf)
    BY DEF Inner
  <1>1. f \in DOMAIN d /\ d[f] = conf[f] /\ f # "error_page" /\ f # "cgi_bin"
        /\ f # "try_404_files" /\ f \notin DOMAIN Limits
    BY DEF LocationDefaults, Limits
  <1>2. FillLocation(conf, ls) = With404Page(b)
    BY DEF FillLocation
  <1> HIDE DEF d
  <1>3. f \in DOMAIN b
    BY <1>1 DEF FillBlock
  <1>4. b[f] = Filling("location", f, Latest(ls, For(f)), d[f], conf[f])
    BY <1>0, <1>1, FillBlockIs
  <1> HIDE DEF b
  <1>5. With404Page(b)[f] = b[f]
    BY <1>1, <1>3, With404Keeps
  <1>6. CASE location # {}
    BY <1>0, <1>1, <1>2, <1>4, <1>5, <1>6
  <1>7. CASE location = {}
    <2>1. Deciding(location)[f] = conf[f]
      BY <1>0, <1>1, <1>7, ClampedIs
    <2>2. Latest(<< >>, For(f)) = << >>
      <3>1. << >> \in Lines /\ Len(<< >>) = 0
        BY DEF Lines
      <3> QED
        BY <3>1, LatestIs
    <2> QED
      BY <1>0, <1>7, <2>1, <2>2 DEF Filling
  <1> QED
    BY <1>6, <1>7

\* What the nearest of the three blocks says.
LEMMA MethodsInForce ==
    ASSUME NEW s, NEW conf, Answering(s, conf), NEW ls, Inner(s, conf, ls),
           NEW l, l = NearestFor(response.location, "allowed_methods"),
           l # << >>, Tail(l) # <<"*">>
    PROVE  Deciding(response.location)["allowed_methods"] = Value("http", "METHOD_VECTOR", l)
  <1> DEFINE f == "allowed_methods"
             type == "METHOD_VECTOR"
             h == input.http
             w == s.words
             b == Latest(w, For(f))
             a == Latest(h, For(f))
             c == Latest(ls, For(f))
             own == http.allowed_methods
  <1>1. PICK n : n.words = s.words /\ conf = FillServer(1, n, http, input.memory)
    BY DEF Answering
  <1>2. h \in Lines /\ w \in Lines /\ h = http_as_words /\ http = HttpConfigs
    BY DEF Answering
  <1>3. l = Else(c, Else(b, a))
    BY DEF Inner
  <1>4. /\ Tokens["http"][f] = type /\ Tokens["server"][f] = type /\ Tokens["location"][f] = type
        /\ f \in DOMAIN HttpDefaults /\ f \in DOMAIN ServerDefaults(http, input.memory)
        /\ ServerDefaults(http, input.memory)[f] = own
    BY DEF Tokens, HttpTokens, ServerTokens, LocationTokens, HttpDefaults, ServerDefaults
  <1>5. http[f] = Filling("http", f, a, HttpDefaults[f], HttpDefaults[f])
    BY <1>2, <1>4, HttpFieldIs
  <1>6. a # << >> /\ Tail(a) # <<"*">> => own = Value("http", type, a)
    BY <1>4, <1>5 DEF Filling
  <1>7. f \in DOMAIN conf /\ conf[f] = Filling("server", f, b, own, own)
    <2> HIDE DEF w
    <2> QED
      BY <1>1, <1>2, <1>4, ServerFieldIs DEF w
  <1>8. Deciding(response.location)[f] = Filling("location", f, c, conf[f], conf[f])
    BY <1>7, DecidingIs
  <1> HIDE DEF a, b, c, own
  <1>9. Else(b, a) # << >> /\ Tail(Else(b, a)) # <<"*">> => conf[f] = Value("http", type, Else(b, a))
    BY <1>4, <1>6, <1>7, Chained
  <1>10. PICK x : x = Else(b, a)
    OBVIOUS
  <1>11. Filling("location", f, c, conf[f], conf[f]) = Value("http", type, Else(c, x))
    BY <1>3, <1>4, <1>9, <1>10, Chained
  <1> QED
    BY <1>3, <1>8, <1>10, <1>11

LEMMA IndexInForce ==
    ASSUME NEW s, NEW conf, Answering(s, conf), NEW ls, Inner(s, conf, ls),
           NEW l, l = NearestFor(response.location, "try_index_files"),
           l # << >>, Tail(l) # <<"*">>
    PROVE  Deciding(response.location)["try_index_files"] = Value("http", "STRING_VECTOR", l)
  <1> DEFINE f == "try_index_files"
             type == "STRING_VECTOR"
             h == input.http
             w == s.words
             b == Latest(w, For(f))
             a == Latest(h, For(f))
             c == Latest(ls, For(f))
             own == ServerDefaults(http, input.memory)[f]
  <1>1. PICK n : n.words = s.words /\ conf = FillServer(1, n, http, input.memory)
    BY DEF Answering
  <1>2. h \in Lines /\ w \in Lines /\ BlockVerdict("http", h) = "valid"
    BY DEF Answering
  <1>3. l = Else(c, Else(b, a))
    BY DEF Inner
  <1>4. /\ f \notin DOMAIN Tokens["http"] /\ Tokens["server"][f] = type /\ Tokens["location"][f] = type
        /\ f \in DOMAIN ServerDefaults(http, input.memory)
    BY DEF Tokens, HttpTokens, ServerTokens, LocationTokens, ServerDefaults
  <1>5. a = << >>
    BY <1>2, <1>4, NoSuchLine
  <1>6. f \in DOMAIN conf /\ conf[f] = Filling("server", f, b, own, own)
    <2> HIDE DEF w
    <2> QED
      BY <1>1, <1>2, <1>4, ServerFieldIs DEF w
  <1>7. Deciding(response.location)[f] = Filling("location", f, c, conf[f], conf[f])
    BY <1>6, DecidingIs
  <1> HIDE DEF a, b, c, own
  <1>8. Else(b, a) # << >> /\ Tail(Else(b, a)) # <<"*">> => conf[f] = Value("http", type, Else(b, a))
    BY <1>4, <1>5, <1>6, Chained
  <1>9. PICK x : x = Else(b, a)
    OBVIOUS
  <1>10. Filling("location", f, c, conf[f], conf[f]) = Value("http", type, Else(c, x))
    BY <1>3, <1>4, <1>8, <1>9, Chained
  <1> QED
    BY <1>3, <1>7, <1>9, <1>10

\* Outside of locations.
LEMMA RootInForce ==
    ASSUME NEW s, NEW conf, Answering(s, conf), NEW ls, Inner(s, conf, ls), response.location = {},
           NEW l, l = NearestFor({}, "root"), l # << >>, Tail(l) # <<"*">>
    PROVE  This.conf.root = Value("http", "DIRECTORY", l)
  <1> DEFINE f == "root"
             type == "DIRECTORY"
             h == input.http
             w == s.words
             b == Latest(w, For(f))
             a == Latest(h, For(f))
             own == http.root
  <1>1. PICK n : n.words = s.words /\ conf = FillServer(1, n, http, input.memory)
    BY DEF Answering
  <1>2. /\ h \in Lines /\ w \in Lines /\ h = http_as_words /\ http = HttpConfigs
        /\ This.conf = Clamped(conf)
    BY DEF Answering
  <1>3. l = Else(b, a)
    <2>1. ls = << >> /\ << >> \in Lines /\ Len(<< >>) = 0
      BY DEF Inner, Lines
    <2>2. Latest(ls, For(f)) = << >>
      BY <2>1, LatestIs
    <2>3. l = Else(Latest(ls, For(f)), Else(b, a))
      BY DEF Inner
    <2> QED
      BY <2>2, <2>3 DEF Else
  <1>4. /\ Tokens["http"][f] = type /\ Tokens["server"][f] = type
        /\ f \in DOMAIN HttpDefaults /\ f \in DOMAIN ServerDefaults(http, input.memory)
        /\ ServerDefaults(http, input.memory)[f] = own /\ f \notin DOMAIN Limits
    BY DEF Tokens, HttpTokens, ServerTokens, HttpDefaults, ServerDefaults, Limits
  <1>5. http[f] = Filling("http", f, a, HttpDefaults[f], HttpDefaults[f])
    BY <1>2, <1>4, HttpFieldIs
  <1>6. a # << >> /\ Tail(a) # <<"*">> => own = Value("http", type, a)
    BY <1>4, <1>5 DEF Filling
  <1>7. f \in DOMAIN conf /\ conf[f] = Filling("server", f, b, own, own)
    <2> HIDE DEF w
    <2> QED
      BY <1>1, <1>2, <1>4, ServerFieldIs DEF w
  <1>8. This.conf[f] = conf[f]
    BY <1>2, <1>4, <1>7, ClampedIs, ZenonT(60)
  <1> HIDE DEF a, b, own
  <1>9. conf[f] = Value("http", type, Else(b, a))
    BY <1>3, <1>4, <1>6, <1>7, Chained
  <1> QED
    BY <1>3, <1>8, <1>9

-----------------------------------------------------------------------------
(* The files for 404, to which an error page may be added twice            *)

Begins(v, t) ==
    /\ IsSeq(v) /\ IsSeq(t) /\ Len(v) <= Len(t)
    /\ \A n \in 1..Len(v) : t[n] = v[n]

LEMMA BeginsIsPrefix ==
    ASSUME NEW v, NEW t, Begins(v, t)
    PROVE  IsPrefix(v, t)
  <1> DEFINE m == Len(v)
  <1>1. PICK V, T : v \in Seq(V) /\ t \in Seq(T)
    BY SeqFacts DEF Begins
  <1>2. PICK S : V \subseteq S /\ T \subseteq S
    <2>1. V \subseteq V \cup T /\ T \subseteq V \cup T
      OBVIOUS
    <2> QED
      BY <2>1
  <1>3. v \in Seq(S) /\ t \in Seq(S)
    BY <1>1, <1>2, SeqMonotonic
  <1>4. PICK x \in Seq(S) : x = SubSeq(v, 1, m)
    BY <1>3
  <1>5. PICK y \in Seq(S) : y = SubSeq(t, 1, m)
    BY <1>3 DEF Begins
  <1>6. m \in Nat /\ Len(t) \in Nat /\ m <= Len(t)
    BY <1>3 DEF Begins
  <1>7. /\ Len(x) = m /\ Len(y) = m
        /\ \A n \in 1..m : x[n] = v[n] /\ y[n] = t[n]
    BY <1>3, <1>4, <1>5, <1>6
  <1>8. \A n \in 1..m : t[n] = v[n]
    BY DEF Begins
  <1>9. Len(x) = Len(y) /\ \A n \in 1..Len(x) : x[n] = y[n]
    BY <1>7, <1>8
  <1>10. x = y
    BY <1>9, SeqEqual
  <1> QED
    BY <1>4, <1>5, <1>6, <1>10 DEF IsPrefix

LEMMA With404Begins ==
    ASSUME NEW v, NEW s, "try_404_files" \in DOMAIN s, Begins(v, s["try_404_files"])
    PROVE  Begins(v, With404Page(s)["try_404_files"])
  <1> DEFINE t == s["try_404_files"]
             e == s.error_page[404]
             r == With404Page(s)["try_404_files"]
  <1>1. r = t \/ r = Append(t, e)
    BY DEF With404Page
  <1>2. IsSeq(v) /\ IsSeq(t) /\ Len(v) <= Len(t) /\ \A n \in 1..Len(v) : t[n] = v[n]
    BY DEF Begins
  <1> HIDE DEF t, e, r
  <1>3. CASE r = t
    BY <1>3 DEF t, r
  <1>4. CASE r = Append(t, e)
    <2>1. /\ IsSeq(r) /\ Len(r) = Len(t) + 1
          /\ \A n \in DOMAIN t : r[n] = t[n]
      BY <1>2, <1>4, AppendIsSeq
    <2>2. Len(v) \in Nat /\ Len(t) \in Nat /\ DOMAIN t = 1..Len(t)
      BY <1>2, SeqDomain
    <2>3. Len(v) <= Len(r) /\ \A n \in 1..Len(v) : n \in DOMAIN t
      BY <1>2, <2>1, <2>2
    <2>4. Begins(v, r)
      BY <1>2, <2>1, <2>3 DEF Begins
    <2> QED
      BY <2>4 DEF r
  <1> QED
    BY <1>1, <1>3, <1>4

LEMMA WordsAreSeq ==
    ASSUME NEW l \in Line
    PROVE  IsSeq(VectorOfData(l))
  <1> DEFINE part(n) == IF \E m \in 2..n : l[m] = l[n + 1] THEN << >> ELSE <<l[n + 1]>>
             ss == [n \in 1..Len(l) - 1 |-> part(n)]
  <1>1. Len(l) \in Nat \ {0} /\ \A n \in 1..Len(l) : l[n] \in Text
    BY LineIs
  <1>2. ASSUME NEW n \in 1..Len(l) - 1 PROVE part(n) \in Seq(Text)
    <2>1. l[n + 1] \in Text
      BY <1>1
    <2>2. << >> \in Seq(Text) /\ <<l[n + 1]>> \in Seq(Text)
      BY <2>1
    <2> QED
      BY <2>2
  <1>3. ss \in [1..Len(l) - 1 -> Seq(Text)] /\ Len(l) - 1 \in Nat
    <2> HIDE DEF part
    <2> QED
      BY <1>1, <1>2
  <1>4. VectorOfData(l) = FlattenSeq(ss)
    BY DEF VectorOfData
  <1> HIDE DEF ss
  <1>5. ss \in Seq(Seq(Text))
    BY <1>3, FunctionIsSeq
  <1>6. FlattenSeq(ss) \in Seq(Text)
    BY <1>5, FlattenType
  <1> QED
    BY <1>4, <1>6, SeqIs

LEMMA BeginsItself ==
    ASSUME NEW v, IsSeq(v)
    PROVE  Begins(v, v)
  BY SeqDomain DEF Begins

LEMMA TriesInForce ==
    ASSUME NEW s, NEW conf, Answering(s, conf), NEW ls, Inner(s, conf, ls),
           NEW l, l = NearestFor(response.location, "try_404_files"), l # << >>
    PROVE  IsPrefix(VectorOfData(l), Deciding(response.location)["try_404_files"])
  <1> DEFINE f == "try_404_files"
             location == response.location
             h == input.http
             w == s.words
             b == Latest(w, For(f))
             a == Latest(h, For(f))
             c == Latest(ls, For(f))
             sd == ServerDefaults(http, input.memory)
             ld == LocationDefaults(conf)
             v == VectorOfData(l)
             lb == FillBlock("location", conf, ld, ls)
  <1>1. PICK n : n.words = s.words /\ conf = FillServer(1, n, http, input.memory)
    BY DEF Answering
  <1> DEFINE sb == FillBlock("server", sd, sd, ServerLines(1, n))
  <1>2. h \in Lines /\ w \in Lines /\ BlockVerdict("http", h) = "valid"
    BY DEF Answering
  <1>3. /\ l = Else(c, Else(b, a)) /\ ls \in Lines
        /\ location # {} => Deciding(location) = FillLocation(conf, ls)
        /\ location = {} => ls = << >> /\ Deciding(location) = Clamped(conf)
    BY DEF Inner
  <1>4. /\ f \notin DOMAIN Tokens["http"] /\ f \notin DOMAIN Limits
        /\ Tokens["server"][f] = "STRING_VECTOR" /\ Tokens["location"][f] = "STRING_VECTOR"
        /\ f \in DOMAIN sd /\ f \in DOMAIN ld /\ ld[f] = conf[f]
    BY DEF Tokens, HttpTokens, ServerTokens, LocationTokens, ServerDefaults, LocationDefaults, Limits
  <1>5. a = << >>
    BY <1>2, <1>4, NoSuchLine
  <1>6. conf = With404Page(sb) /\ FillLocation(conf, ls) = With404Page(lb)
    BY <1>1 DEF FillServer, FillLocation
  <1>7. IsSeq(v)
    <2>1. (c # << >> => c \in Line) /\ (b # << >> => b \in Line)
      <3> HIDE DEF w
      <3> QED
        BY <1>2, <1>3, LatestIs
    <2>2. l \in Line
      BY <1>3, <1>5, <2>1 DEF Else
    <2> QED
      BY <2>2, WordsAreSeq
  <1>8. f \in DOMAIN sb /\ sb[f] = Filling("server", f, b, sd[f], sd[f])
    <2>1. f \in DOMAIN sb
      BY <1>4 DEF FillBlock
    <2> HIDE DEF w, sd
    <2>2. sb[f] = Filling("server", f, b, sd[f], sd[f])
      BY <1>1, <1>2, <1>4, ServerFillIs DEF w
    <2> QED
      BY <2>1, <2>2
  <1>9. f \in DOMAIN lb /\ lb[f] = Filling("location", f, c, ld[f], conf[f])
    <2>1. f \in DOMAIN lb
      BY <1>4 DEF FillBlock
    <2> HIDE DEF ld
    <2>2. lb[f] = Filling("location", f, c, ld[f], conf[f])
      BY <1>3, <1>4, FillBlockIs
    <2> QED
      BY <2>1, <2>2
  <1> HIDE DEF sb, lb, sd, ld, a, b, c, v
  <1>10. \A block : Tokens[block][f] = "STRING_VECTOR" =>
            \A x, own, above : Filling(block, f, x, own, above) = IF x = << >> THEN own ELSE VectorOfData(x)
    BY DEF Filling, Value
  <1>11. ASSUME c = << >> PROVE Begins(v, conf[f])
    <2>1. l = b /\ b # << >>
      BY <1>3, <1>5, <1>11 DEF Else
    <2>2. sb[f] = v
      BY <1>4, <1>8, <1>10, <2>1 DEF v
    <2> QED
      BY <1>6, <1>7, <1>8, <2>2, BeginsItself, With404Begins
  <1>12. Begins(v, lb[f])
    <2>1. CASE c = << >>
      <3>1. lb[f] = conf[f]
        BY <1>4, <1>9, <1>10, <2>1
      <3> QED
        BY <1>11, <2>1, <3>1
    <2>2. CASE c # << >>
      <3>1. lb[f] = v
        BY <1>3, <1>4, <1>9, <1>10, <2>2 DEF v, Else
      <3> QED
        BY <1>7, <3>1, BeginsItself
    <2> QED
      BY <2>1, <2>2
  <1>13. CASE location # {}
    <2>1. Begins(v, Deciding(location)[f])
      BY <1>3, <1>6, <1>9, <1>12, <1>13, With404Begins
    <2> QED
      BY <2>1, BeginsIsPrefix DEF v
  <1>14. CASE location = {}
    <2>1. << >> \in Lines /\ Len(<< >>) = 0
      BY DEF Lines
    <2>2. c = << >>
      BY <1>3, <1>14, <2>1, LatestIs DEF c
    <2>3. f \in DOMAIN conf
      BY <1>6, <1>8, With404Keeps
    <2>4. Deciding(location)[f] = conf[f]
      BY <1>3, <1>4, <1>14, <2>3, ClampedIs, ZenonT(60)
    <2> QED
      BY <1>11, <2>2, <2>4, BeginsIsPrefix DEF v
  <1> QED
    BY <1>13, <1>14

-----------------------------------------------------------------------------
(* Numbers, and the error pages                                            *)

LEMMA EffectiveNumber ==
    ASSUME NEW t \in Numbers, NEW location
    PROVE  Effective(location)[t] = This.conf[t]
  <1>1. CASE t = "client_max_body_size"
    BY <1>1 DEF Effective
  <1>2. CASE t = "client_max_request_timeout"
    BY <1>2 DEF Effective
  <1>3. CASE t = "keep_alive_max_timeout"
    BY <1>3 DEF Effective
  <1>4. CASE t = "client_max_connections"
    BY <1>4 DEF Effective
  <1> QED
    BY <1>1, <1>2, <1>3, <1>4 DEF Numbers

LEMMA NumbersAreNear ==
    ASSUME NEW s, NEW conf, Answering(s, conf), NEW ls, Inner(s, conf, ls),
           NEW t \in Numbers, NEW l, l = NearestFor(response.location, t), l # << >>
    PROVE  InForce(t, l, Effective(response.location)[t])
  <1> DEFINE h == input.http
             w == s.words
             b == Latest(w, For(t))
             a == Latest(h, For(t))
             type == HttpTokens[t]
             v == Value("http", type, l)
             m == input.memory
             limited == IF t \in DOMAIN Limits THEN Min({v, Limits[t]}) ELSE v
  <1>1. PICK n : n.words = s.words /\ conf = FillServer(1, n, http, m)
    BY DEF Answering
  <1>2. /\ h \in Lines /\ w \in Lines /\ h = http_as_words /\ http = HttpConfigs
        /\ This.conf = Clamped(conf)
    BY DEF Answering
  <1>3. t \notin DOMAIN Tokens["location"]
    BY DEF Numbers, Tokens, LocationTokens
  <1>4. l = Else(b, a)
    <2>1. Latest(ls, For(t)) = << >> /\ l = Else(Latest(ls, For(t)), Else(b, a))
      BY <1>3 DEF Inner
    <2> QED
      BY <2>1 DEF Else
  <1>5. t \in DOMAIN HttpTokens /\ type \in Numeric
    BY NumbersAre
  <1>6. Latest(h \o w, For(t)) = l
    <2> HIDE DEF h, w
    <2> QED
      BY <1>2, <1>4, LatestOfBoth DEF Else
  <1>7. t \in DOMAIN conf /\ conf[t] = AsInt(v)
    <2>1. /\ t \in DOMAIN FillServer(1, n, http, m)
          /\ FillServer(1, n, http, m)[t] =
                AsInt(IF Latest(h \o w, For(t)) = << >> THEN HttpDefaults[t]
                      ELSE Value("http", HttpTokens[t], Latest(h \o w, For(t))))
      <3> HIDE DEF h, w, m
      <3> QED
        BY <1>1, <1>2, NumberInForce DEF w
    <2> QED
      BY <1>1, <1>6, <2>1
  <1>8. This.conf[t] = IF t \in DOMAIN Limits THEN Min({conf[t], Limits[t]}) ELSE conf[t]
    BY <1>2, <1>7, ClampedIs
  <1>9. v \in Nat
    BY <1>5, NumericValue
  <1>10. v < IntRange \div 2 => This.conf[t] = limited
    <2> HIDE DEF v
    <2>1. v < IntRange \div 2 => AsInt(v) = v
      BY <1>9, AsIntIs
    <2> QED
      BY <1>7, <1>8, <2>1
  <1>11. Effective(response.location)[t] = This.conf[t]
    BY EffectiveNumber
  <1>12. InForce(t, l, This.conf[t]) <=> (v < IntRange \div 2 => This.conf[t] = limited)
    <2> DEFINE x == This.conf[t]
    <2> HIDE DEF x, limited, v
    <2>1. InForce(t, l, x) <=> CASE type \in Numeric -> v < IntRange \div 2 => x = limited
                                 [] t = "try_404_files" -> IsPrefix(v, x)
                                 [] OTHER -> x = v
      BY <1>5 DEF InForce, v, limited
    <2> QED
      BY <1>5, <2>1, NumbersAre DEF x
  <1> QED
    BY <1>10, <1>11, <1>12

LEMMA PagesAreNear ==
    ASSUME NEW s, NEW conf, Answering(s, conf), NEW ls, Inner(s, conf, ls),
           NEW c \in DOMAIN Effective(response.location).error_page
    PROVE  LET l == NearestPage(response.location, c)
           IN l # << >> /\ Effective(response.location).error_page[c] = l[3]
  <1> DEFINE location == response.location
             h == input.http
             w == s.words
             b == Latest(w, PageFor(c))
             i1 == Latest(ls, PageFor(c))
             l == NearestPage(location, c)
             E == Effective(location).error_page
             S == conf.error_page
  <1>1. PICK n : n.words = s.words /\ conf = FillServer(1, n, http, input.memory)
    BY DEF Answering
  <1>2. h \in Lines /\ w \in Lines /\ BlockVerdict("http", h) = "valid"
    BY DEF Answering
  <1>3. /\ l = Else(i1, Else(b, Latest(h, PageFor(c)))) /\ ls \in Lines
        /\ location # {} => Deciding(location) = FillLocation(conf, ls)
        /\ location = {} => ls = << >> /\ Deciding(location) = Clamped(conf)
    BY DEF Inner
  <1>4. Latest(h, PageFor(c)) = << >>
    BY <1>2, NoHttpPage
  <1>5. l = Else(i1, b)
    BY <1>3, <1>4 DEF Else
  <1>6. E = Deciding(location).error_page
    BY DEF Effective
  <1>7. (c \in DOMAIN S <=> b # << >>) /\ (c \in DOMAIN S => S[c] = b[3])
    <2> HIDE DEF w
    <2> QED
      BY <1>1, <1>2, ServerPages DEF w
  <1> HIDE DEF b, i1, l, E
  <1>8. (c \in DOMAIN E <=> i1 # << >> \/ c \in DOMAIN S)
        /\ (c \in DOMAIN E => E[c] = IF i1 # << >> THEN i1[3] ELSE S[c])
    <2>1. CASE location # {}
      BY <1>3, <1>6, <2>1, LocationPages DEF i1
    <2>2. CASE location = {}
      <3>1. << >> \in Lines /\ Len(<< >>) = 0
        BY DEF Lines
      <3>2. i1 = << >>
        BY <1>3, <2>2, <3>1, LatestIs DEF i1
      <3>3. "error_page" \in DOMAIN conf
        <4>1. "error_page" \in DOMAIN ServerDefaults(http, input.memory)
          BY DEF ServerDefaults
        <4> QED
          BY <1>1, <4>1, With404Keeps DEF FillServer, FillBlock
      <3>4. Clamped(conf)["error_page"] = conf["error_page"]
        <4>1. "error_page" \notin DOMAIN Limits
          BY DEF Limits
        <4> QED
          BY <3>3, <4>1, ClampedIs
      <3>5. E = S
        BY <1>3, <1>6, <2>2, <3>4
      <3> QED
        BY <3>2, <3>5
    <2> QED
      BY <2>1, <2>2
  <1>9. c \in DOMAIN E
    BY DEF E
  <1>10. l # << >> /\ E[c] = l[3]
    BY <1>5, <1>7, <1>8, <1>9 DEF Else
  <1> QED
    BY <1>10 DEF l, E

-----------------------------------------------------------------------------
(* The nearest block decides                                               *)

LEMMA NearestFollows == SiteInv /\ FileInv /\ ParsedAsWritten => NearestBlockDecides
  <1> SUFFICES ASSUME SiteInv, FileInv, ParsedAsWritten, response.status # "none", input.plain
               PROVE  LET L == input.sites[1].locations
                          S == SlashPrefixes(request.path) IN
                      /\ \A p \in response.location : \A n \in DOMAIN L :
                            Names(L[n].name) \in S => Len(Names(L[n].name)) <= Len(p)
                      /\ response.location = {} => \A n \in DOMAIN L : Names(L[n].name) \notin S
                      /\ Decides(response.location,
                                 ByNearest \cup IF response.location = {} THEN {"root"} ELSE {})
    BY DEF NearestBlockDecides
  <1> DEFINE location == response.location
             tokens == ByNearest \cup IF location = {} THEN {"root"} ELSE {}
             L == input.sites[1].locations
             S == SlashPrefixes(request.path)
  <1>1. PICK s, conf : Answering(s, conf)
    BY AnsweringIs
  <1>2. PICK ls : Inner(s, conf, ls)
    BY <1>1, InnerExists
  <1>3. s = input.sites[1] /\ L \in LocationsText
    BY <1>1 DEF Answering
  <1>4. /\ DOMAIN L = 1..Len(L)
        /\ \A n \in DOMAIN L : NameOf(L, n) = Names(L[n].name)
    BY <1>3 DEF LocationsText, NameOf
  <1>5. /\ \A p \in location : \A n \in 1..Len(L) : NameOf(L, n) \in S => Len(NameOf(L, n)) <= Len(p)
        /\ location = {} => \A n \in 1..Len(L) : NameOf(L, n) \notin S
    BY <1>1, <1>3, LookedUp
  <1>6. ASSUME NEW t \in tokens, NEW l, l = NearestFor(location, t), l # << >>, Tail(l) # <<"*">>
        PROVE  InForce(t, l, Effective(location)[t])
    <2>1. CASE t \in Numbers
      BY <1>1, <1>2, <1>6, <2>1, NumbersAreNear
    <2>2. CASE t = "allowed_methods"
      <3>1. Deciding(location)["allowed_methods"] = Value("http", "METHOD_VECTOR", l)
        BY <1>1, <1>2, <1>6, <2>2, MethodsInForce
      <3>2. Effective(location)[t] = Deciding(location)["allowed_methods"]
        BY <2>2 DEF Effective
      <3>3. t \in DOMAIN HttpTokens /\ HttpTokens[t] = "METHOD_VECTOR"
        BY <2>2 DEF HttpTokens
      <3> QED
        BY <2>2, <3>1, <3>2, <3>3 DEF InForce, Numeric
    <2>3. CASE t = "try_index_files"
      <3>1. Deciding(location)["try_index_files"] = Value("http", "STRING_VECTOR", l)
        BY <1>1, <1>2, <1>6, <2>3, IndexInForce
      <3>2. Effective(location)[t] = Deciding(location)["try_index_files"]
        BY <2>3 DEF Effective
      <3>3. t \notin DOMAIN HttpTokens /\ ServerTokens[t] = "STRING_VECTOR"
        BY <2>3 DEF HttpTokens, ServerTokens
      <3> QED
        BY <2>3, <3>1, <3>2, <3>3 DEF InForce, Numeric
    <2>4. CASE t = "try_404_files"
      <3>1. IsPrefix(VectorOfData(l), Deciding(location)["try_404_files"])
        BY <1>1, <1>2, <1>6, <2>4, TriesInForce
      <3>2. Effective(location)[t] = Deciding(location)["try_404_files"]
        BY <2>4 DEF Effective
      <3>3. t \notin DOMAIN HttpTokens /\ ServerTokens[t] = "STRING_VECTOR"
        BY <2>4 DEF HttpTokens, ServerTokens
      <3>4. Value("http", "STRING_VECTOR", l) = VectorOfData(l)
        BY DEF Value
      <3> QED
        BY <2>4, <3>1, <3>2, <3>3, <3>4 DEF InForce, Numeric
    <2>5. CASE t = "root" /\ location = {}
      <3>1. This.conf.root = Value("http", "DIRECTORY", l)
        BY <1>1, <1>2, <1>6, <2>5, RootInForce
      <3>2. Effective(location)[t] = This.conf.root
        BY <2>5 DEF Effective
      <3>3. t \in DOMAIN HttpTokens /\ HttpTokens[t] = "DIRECTORY"
        BY <2>5 DEF HttpTokens
      <3> QED
        BY <2>5, <3>1, <3>2, <3>3 DEF InForce, Numeric
    <2>6. t \in Numbers \cup {"allowed_methods", "try_index_files", "try_404_files"}
          \/ (t = "root" /\ location = {})
      BY DEF ByNearest, Numbers
    <2> QED
      BY <2>1, <2>2, <2>3, <2>4, <2>5, <2>6
  <1>7. \A c \in DOMAIN Effective(location).error_page :
           LET l == NearestPage(location, c)
           IN l # << >> /\ Effective(location).error_page[c] = l[3]
    BY <1>1, <1>2, PagesAreNear
  <1>8. Decides(location, tokens)
    <2> HIDE DEF tokens
    <2> QED
      BY <1>6, <1>7 DEF Decides
  <1> HIDE DEF S
  <1> QED
    BY <1>4, <1>5, <1>8 DEF S

\* Whatever the request and the file, laid out as PlainAssumption says: the
\* location is the one with the longest name, and its settings are those of
\* the nearest block that has the directive (two copies of the defaults, the
\* conversion to int, the lowering to the limits, and pages that are handed
\* down from the server to its locations).
THEOREM NearestDecides == Spec => []NearestBlockDecides
  <1> QED
    BY SiteInvariant, FileInvariant, ParsedIsAsWritten, NearestFollows, PTL
=============================================================================
