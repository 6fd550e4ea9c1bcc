---------------------------- MODULE HeaderReader ----------------------------
(***************************************************************************)
(* HttpParser: read_header, which is called for every segment that arrives *)
(* until it has seen an empty line, and parse_request, which turns the     *)
(* lines into the request.                                                 *)
(*                                                                         *)
(* What is sent is a sequence of tokens: "CR", "LF", "SP" for a blank at   *)
(* the end of a line, and words, which have three characters or more and   *)
(* are separated by one blank. A segment is one recv().                    *)
(***************************************************************************)
EXTENDS Integers, SequencesExt

CONSTANTS
    FieldNames,  \* [words that end in a colon -> the name before it]
    Targets      \* [words that are a request target -> its path]

VARIABLES
    segments,    \* sent and not yet received
    lines, body, \* of the request
    reader,      \* what the two functions have come to
    request      \* the rest of t_request
header_vars == <<segments, lines, body, reader, request>>

NoPath == [segs |-> << >>, slash |-> FALSE, chars |-> 0, valid |-> TRUE]

NoRequest == [method |-> "", path |-> NoPath, http_version |-> "", is_bad_request |-> FALSE,
              is_not_implemented |-> FALSE, cookies |-> << >>, request_map |-> << >>]

SupportedMethods == {"GET", "POST", "OPTIONS", "DELETE", "HEAD", "PUT"}

HeaderInit ==
    /\ segments = << >> /\ lines = << >> /\ body = << >>
    /\ reader = "idle" /\ request = NoRequest

-----------------------------------------------------------------------------
(* read_header *)

\* Positions of "\r\n" in what recv() returned. The byte behind the last one
\* is looked at when that is a "\r"; it is "\n" or not, as the stack was left.
LineEnds(buff, behind) ==
    {c \in DOMAIN buff : /\ buff[c] = "CR"
                         /\ IF c = Len(buff) THEN behind = "LF" ELSE buff[c + 1] = "LF"}

LineStart(ends, c) == Max({e + 2 : e \in {d \in ends : d < c}} \cup {1})

\* The loop, from byte to byte, with what it pushes back into lines.
ReadLines(buff, ends) ==
    LET upto[c \in 0..Len(buff)] ==
            IF c = 0 THEN << >>
            ELSE IF c \in ends
            THEN Append(upto[c - 1], SubSeq(buff, LineStart(ends, c), c - 1))
            ELSE upto[c - 1]
    IN upto[Len(buff)]

\* bytes - (el + 2) is -1 when the "\n" of the empty line is the byte behind
\* the last: append() throws std::length_error.
ReadHeader(behind) ==
    /\ reader = "reading" /\ segments # << >>
    /\ segments' = Tail(segments)
    /\ LET buff  == Head(segments)
           ends  == LineEnds(buff, behind)
           empty == {c \in ends : c = LineStart(ends, c)}
       IN IF empty = {}
          THEN lines' = lines \o ReadLines(buff, ends) /\ UNCHANGED <<body, reader>>
          ELSE /\ lines' = lines \o ReadLines(buff, {c \in ends : c < Min(empty)})
               /\ IF Min(empty) = Len(buff) THEN reader' = "exits" /\ UNCHANGED body
                  ELSE /\ body' = body \o SubSeq(buff, Min(empty) + 2, Len(buff))
                       /\ reader' = "parsing"
    /\ UNCHANGED request

-----------------------------------------------------------------------------
(* parse_request *)

WordsOf(line) == SelectSeq(line, LAMBDA t : t \notin {"LF", "SP"})

\* A line without a colon is both its name and its value.
HasName(line) == WordsOf(line)[1] \in DOMAIN FieldNames
Name(line)  == IF HasName(line) THEN <<FieldNames[WordsOf(line)[1]]>> ELSE WordsOf(line)
Field(line) == IF HasName(line) THEN Tail(WordsOf(line)) ELSE WordsOf(line)

\* trim_string() advances both ends only by what it finds at the first: with
\* a blank at the end and none (left) at the start it never returns.
TrimSpins(line) == Field(line) # << >> /\ Last(line) = "SP"

\* mutant: trimming an empty value does not return either.
LineOutcomeEmpty(line) ==
    CASE WordsOf(line) = << >> -> "bad"
      [] WordsOf(line) # << >> /\ TrimSpins(line) -> "spins"
      [] OTHER -> IF Field(line) = << >> THEN "spins" ELSE "read"

LineOutcome(line) ==
    CASE WordsOf(line) = << >> -> "bad"
      [] WordsOf(line) # << >> /\ TrimSpins(line) -> "spins"
      [] OTHER -> IF Field(line) = << >> /\ Last(line) # "SP" THEN "bad" ELSE "read"

\* insert() leaves a field alone that is there already.
Inserted(fields, l) ==
    [name \in DOMAIN fields \cup {Name(l)} |->
        IF name \in DOMAIN fields THEN fields[name] ELSE Field(l)]

\* splitted->at(2) throws std::out_of_range for a line of fewer words.
ParseFirstLine(line) ==
    LET w == WordsOf(line) IN
    [NoRequest EXCEPT !.method = w[1], !.path = Targets[w[2]], !.http_version = w[3]]

\* The cookies are joined, the other fields inserted; the first line that is
\* bad is the last that is looked at.
ParseFields(cookies_on, r) ==
    LET fields == Tail(lines)
        stop   == SelectInSeq(fields, LAMBDA l : LineOutcome(l) # "read")
        read   == IF stop = 0 THEN fields ELSE SubSeq(fields, 1, stop - 1)
        Joined(l) == cookies_on /\ Name(l) = <<"cookie">>
        map[n \in 0..Len(read)] ==
            IF n = 0 THEN << >>
            ELSE IF Joined(read[n]) THEN map[n - 1] ELSE Inserted(map[n - 1], read[n])
    IN IF stop # 0 /\ LineOutcome(fields[stop]) = "spins"
       THEN reader' = "spins" /\ UNCHANGED request
       ELSE /\ reader' = "parsed"
            /\ request' =
                 [r EXCEPT !.cookies = FlattenSeq([n \in DOMAIN SelectSeq(read, Joined) |->
                                                     Field(SelectSeq(read, Joined)[n])]),
                           !.request_map = map[Len(read)],
                           !.is_bad_request = \/ stop # 0
                                              \/ /\ r.method = "OPTIONS"
                                                 /\ <<"origin">> \notin DOMAIN map[Len(read)]]

ParseRequest(cookies_on) ==
    /\ reader = "parsing"
    /\ IF lines = << >> THEN reader' = "undefined" /\ UNCHANGED request
       ELSE IF Len(WordsOf(lines[1])) < 3 THEN reader' = "exits" /\ UNCHANGED request
       ELSE LET r == ParseFirstLine(lines[1]) IN
            IF r.method \in SupportedMethods /\ r.http_version = "HTTP/1.1"
            THEN ParseFields(cookies_on, r)
            ELSE /\ reader' = "parsed"
                 /\ LET no == r.http_version # "HTTP/1.1" \/ r.method \in {"QUERY", "CONNECT"} IN
                    request' = [r EXCEPT
                        !.is_not_implemented = no, !.is_bad_request = ~no,
                        !.method = IF @ \in SupportedMethods THEN @ ELSE "GET"]
    /\ UNCHANGED <<segments, lines, body>>
=============================================================================
