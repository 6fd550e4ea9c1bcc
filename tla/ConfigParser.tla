---------------------------- MODULE ConfigParser ----------------------------
(***************************************************************************)
(* ConfigFileParser's scanner: from the lines of the configuration file to *)
(* the directives of the http block (http_as_words) and one node for every *)
(* server block. parse_words and the three functions it calls share one    *)
(* position, line i and word j, and look one word or one line ahead; each  *)
(* action below is one turn of one of their loops.                         *)
(*                                                                         *)
(* A line is the sequence of its words, with "#" where a comment starts.   *)
(* Reading a word where there is none is undefined in C++; the scanner     *)
(* then rests at "undefined".                                              *)
(***************************************************************************)
EXTENDS Integers, SequencesExt

VARIABLES
    words,         \* the lines that are not empty
    at,            \* the loop that is executed
    i, j,          \* the position, counted from 1
    http_index,    \* of parse_http_configs
    http_as_words, \* lines of the http block
    id,            \* of parse_server: the word before the bracket
    line_words,    \* of parse_server: the line that is collected
    node,          \* the server block that is collected
    nodes          \* server blocks
scan_vars == <<words, at, i, j, http_index, http_as_words, id, line_words, node, nodes>>

Loops == {"is_config_file_valid", "parse_words", "parse_http_configs", "parse_server",
          "parse_server_loop", "parse_server_location"}
Ends  == {"parsed", "invalid", "undefined"}

EmptyNode == [id |-> "", words |-> << >>, location_blocks |-> << >>]

IsBracket(w) == w \in {"{", "}"}

-----------------------------------------------------------------------------
(* Lines and words *)

GetWordVector(l) ==
    LET c == SelectInSeq(l, LAMBDA w : w = "#")
    IN IF c = 0 THEN l ELSE SubSeq(l, 1, c - 1)

ExtractWords(lines) ==
    FlattenSeq([k \in DOMAIN lines |-> IF GetWordVector(lines[k]) = << >> THEN << >>
                                       ELSE <<GetWordVector(lines[k])>>])

\* The positions of the words that are w, in the order of reading. One stack
\* of equal symbols is a counter.
Places(w) ==
    {p \in UNION {{r} \X DOMAIN words[r] : r \in DOMAIN words} : words[p[1]][p[2]] = w}

UpTo(places, p) == {q \in places : q[1] < p[1] \/ (q[1] = p[1] /\ q[2] <= p[2])}

IsBracketsCorrect ==
    /\ Cardinality(Places("{")) = Cardinality(Places("}"))
    /\ \A p \in Places("}") :
          Cardinality(UpTo(Places("}"), p)) <= Cardinality(UpTo(Places("{"), p))

CountWords == SumFunction([r \in DOMAIN words |-> Len(words[r])])

\* The words of line r that are not brackets, from column c to the next
\* bracket or the end of the line.
FirstBracket(r, c) ==
    LET b == SelectInSubSeq(words[r], c, Len(words[r]), IsBracket)
    IN IF b = 0 THEN Len(words[r]) + 1 ELSE b

SkipBrackets(r, c) ==
    LET w == SelectInSubSeq(words[r], c, Len(words[r]), LAMBDA x : ~IsBracket(x))
    IN IF w = 0 THEN Max({c, Len(words[r]) + 1}) ELSE w

AtEnd == i > Len(words)
Word  == words[i][j]
HasWord == ~AtEnd /\ j <= Len(words[i])

GoTo(loop) == at' = loop

ScanInit ==
    /\ words = << >> /\ at = "parse_words" /\ i = 1 /\ j = 1
    /\ http_index = 1 /\ http_as_words = << >> /\ nodes = << >>
    /\ id = "" /\ line_words = << >> /\ node = EmptyNode

-----------------------------------------------------------------------------
(* is_config_file_valid up to the call of parse_words, and the first lines *)
(* of that: the position starts at the second line, in the first column if *)
(* the first line has more words than "http".                              *)

ReadConfigFile(lines) ==
    /\ words' = ExtractWords(lines)
    /\ GoTo("is_config_file_valid")
    /\ UNCHANGED <<i, j, http_index, http_as_words, id, line_words, node, nodes>>

CheckWords ==
    /\ at = "is_config_file_valid"
    /\ IF IsBracketsCorrect /\ CountWords >= 3 /\ (CountWords = 3 \/ words[1][1] = "http")
       THEN /\ GoTo("parse_words")
            /\ i' = 2 /\ j' = IF Len(words[1]) > 1 THEN 1 ELSE 2
       ELSE GoTo("invalid") /\ UNCHANGED <<i, j>>
    /\ UNCHANGED <<words, http_index, http_as_words, id, line_words, node, nodes>>

ParseWords ==
    /\ at = "parse_words"
    /\ IF AtEnd THEN GoTo("parsed") /\ UNCHANGED <<i, j, http_index>>
       ELSE IF j > Len(words[i]) THEN i' = i + 1 /\ j' = 1 /\ UNCHANGED <<at, http_index>>
       ELSE /\ GoTo("parse_http_configs")
            /\ j' = SkipBrackets(i, j)
            /\ http_index' = Len(http_as_words) + 1
            /\ UNCHANGED i
    /\ UNCHANGED <<words, http_as_words, id, line_words, node, nodes>>

-----------------------------------------------------------------------------
(* parse_http_configs: words are taken up to a bracket, or up to the word  *)
(* in front of an opening one, on this line or on the next.                *)

OpensHere(c) == c < Len(words[i]) /\ words[i][c + 1] = "{"
OpensNext    == i < Len(words) /\ words[i + 1][1] = "{"
Stops(c)     == IsBracket(words[i][c]) \/ OpensHere(c) \/ OpensNext

StopColumn ==
    LET s == {c \in j..Len(words[i]) : Stops(c)}
    IN IF s = {} THEN Len(words[i]) + 1 ELSE Min(s)

\* The next line is looked at before a word is taken, even on the last line.
LooksPastEnd == i = Len(words) /\ HasWord /\ ~IsBracket(Word) /\ ~OpensHere(j)

\* mutant: only a bracket on the same line is seen.
ParseHttpConfigsSameLine ==
    /\ at = "parse_http_configs"
    /\ IF AtEnd THEN GoTo("parsed") /\ UNCHANGED <<i, j, http_index, http_as_words>>
       ELSE LET s == {c \in j..Len(words[i]) : IsBracket(words[i][c]) \/ OpensHere(c)}
                stop == IF s = {} THEN Len(words[i]) + 1 ELSE Min(s)
                taken == SubSeq(words[i], j, stop - 1) IN
            /\ http_as_words' = IF taken = << >> THEN http_as_words
                                ELSE Append(http_as_words, taken)
            /\ IF stop <= Len(words[i])
               THEN GoTo("parse_server") /\ j' = stop /\ UNCHANGED <<i, http_index>>
               ELSE i' = i + 1 /\ j' = 1 /\ http_index' = http_index + 1 /\ UNCHANGED at
    /\ UNCHANGED <<words, id, line_words, node, nodes>>

ParseHttpConfigs ==
    /\ at = "parse_http_configs"
    /\ IF AtEnd THEN GoTo("parsed") /\ UNCHANGED <<i, j, http_index, http_as_words>>
       ELSE LET stop  == StopColumn
                taken == SubSeq(words[i], j, stop - 1) IN
            IF LooksPastEnd \/ (taken # << >> /\ http_index # Len(http_as_words) + 1)
            THEN GoTo("undefined") /\ UNCHANGED <<i, j, http_index, http_as_words>>
            ELSE
            /\ http_as_words' = IF taken = << >> THEN http_as_words
                                ELSE Append(http_as_words, taken)
            /\ IF \E c \in {stop, stop + 1} : c <= Len(words[i]) /\ IsBracket(words[i][c])
               THEN GoTo("parse_server") /\ j' = stop /\ UNCHANGED <<i, http_index>>
               ELSE i' = i + 1 /\ j' = 1 /\ http_index' = http_index + 1 /\ UNCHANGED at
    /\ UNCHANGED <<words, id, line_words, node, nodes>>

-----------------------------------------------------------------------------
(* parse_server and parse_server_location *)

\* Standing on a bracket, the block is named by the last word before it,
\* looked for from the END of the bracket's line.
LastWordUpTo(r) ==
    LET named == {k \in 1..r : \E c \in DOMAIN words[k] : ~IsBracket(words[k][c])}
    IN IF named = {} THEN ""
       ELSE LET l == words[Max(named)]
            IN l[SelectLastInSeq(l, LAMBDA w : ~IsBracket(w))]

EnterServer ==
    /\ at = "parse_server"
    /\ IF IsBracket(Word) THEN id' = LastWordUpTo(i) /\ UNCHANGED j
       ELSE id' = Word /\ j' = j + 1
    /\ node' = EmptyNode /\ line_words' = << >>
    /\ GoTo("parse_server_loop")
    /\ UNCHANGED <<words, i, http_index, http_as_words, nodes>>

\* A word inside a server: "location" starts parse_server_location at this
\* very word, everything else that is no bracket is collected.
ServerWord ==
    /\ at = "parse_server_loop" /\ HasWord /\ Word # "}"
    /\ IF Word = "location"
       THEN GoTo("parse_server_location") /\ UNCHANGED <<j, line_words, node>>
       ELSE /\ IF IsBracket(Word) THEN UNCHANGED <<line_words, node>>
               ELSE /\ line_words' = Append(line_words, Word)
                    /\ node' = IF node.id = "" THEN [node EXCEPT !.id = id] ELSE node
            /\ j' = j + 1 /\ UNCHANGED at
    /\ UNCHANGED <<words, i, http_index, http_as_words, id, nodes>>

\* The end of a line inside a server, of the server, or of the file.
Collected == IF line_words = << >> THEN node.words ELSE Append(node.words, line_words)

ServerLine ==
    /\ at = "parse_server_loop" /\ ~(HasWord /\ Word # "}")
    /\ LET done == [node EXCEPT !.words = Collected] IN
       IF ~HasWord /\ ~AtEnd
       THEN i' = i + 1 /\ j' = 1 /\ node' = done /\ line_words' = << >> /\ UNCHANGED <<at, nodes>>
       ELSE /\ nodes' = IF done.id = "" THEN nodes ELSE Append(nodes, done)
            /\ node' = EmptyNode /\ line_words' = << >>
            /\ IF AtEnd THEN GoTo("parsed") /\ UNCHANGED <<i, j>>
               ELSE GoTo("parse_words") /\ j' = SkipBrackets(i, j) + 1 /\ UNCHANGED i
    /\ UNCHANGED <<words, http_index, http_as_words, id>>

\* mutant: a line of a location that ends without a bracket is read again.
LocationLineAgain ==
    /\ at = "parse_server_location"
    /\ IF AtEnd THEN GoTo("undefined") /\ UNCHANGED <<i, j, node>>
       ELSE LET stop  == FirstBracket(i, j)
                taken == SubSeq(words[i], j, stop - 1) IN
            /\ node' = IF taken = << >> THEN node
                       ELSE [node EXCEPT !.location_blocks = Append(@, taken)]
            /\ IF stop <= Len(words[i]) /\ words[i][stop] = "}"
               THEN GoTo("parse_server_loop") /\ j' = stop + 1 /\ UNCHANGED i
               ELSE i' = i /\ j' = Len(words[i]) + 1 /\ UNCHANGED at
    /\ UNCHANGED <<words, http_index, http_as_words, id, line_words, nodes>>

\* A line of a location. What follows an opening bracket on its line is not
\* looked at. The closing bracket is stepped over by parse_server, which
\* reads the word at the position without asking whether there is one.
LocationLine ==
    /\ at = "parse_server_location"
    /\ IF AtEnd THEN GoTo("undefined") /\ UNCHANGED <<i, j, node>>
       ELSE LET stop  == FirstBracket(i, j)
                taken == SubSeq(words[i], j, stop - 1) IN
            /\ node' = IF taken = << >> THEN node
                       ELSE [node EXCEPT !.location_blocks = Append(@, taken)]
            /\ IF stop <= Len(words[i]) /\ words[i][stop] = "}"
               THEN GoTo("parse_server_loop") /\ j' = stop + 1 /\ UNCHANGED i
               ELSE i' = i + 1 /\ j' = 1 /\ UNCHANGED at
    /\ UNCHANGED <<words, http_index, http_as_words, id, line_words, nodes>>

ScanNext ==
    \/ CheckWords
    \/ ParseWords
    \/ ParseHttpConfigs
    \/ EnterServer
    \/ ServerWord
    \/ ServerLine
    \/ LocationLine
=============================================================================
