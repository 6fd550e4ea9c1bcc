----------------------------- MODULE SiteProofs -----------------------------
(***************************************************************************)
(* That a server which was started in strict mode has nothing it would be  *)
(* warned of, and that a client is not sent round for ever without a word  *)
(* at the start: for every file, command line and header.                  *)
(*                                                                         *)
(* Every server that set_all_warnings has passed is fine, or the flag is   *)
(* set (WarnedOrFine); the locations through which a client is sent are a  *)
(* walk along their redirections (Followed), and a walk that is longer     *)
(* than there are locations is what is_there_a_cycle finds.                *)
(*                                                                         *)
(* And that the scanner finds what is written in a file. Every line leads  *)
(* from one place of the file to the next; wherever the scanner is, what   *)
(* it has collected is what stands in front of a place (Reading), and each *)
(* turn of its loops goes on to another place, or ends behind the last.    *)
(***************************************************************************)
EXTENDS SiteProps, SetInduction, FiniteSetTheorems, SequenceTheorems

-----------------------------------------------------------------------------
(* The inductive invariant                                                 *)

IsSeq(s) == s \in Seq({s[n] : n \in DOMAIN s})

\* What the scanner collects are sequences.
Nodes ==
    /\ IsSeq(nodes)
    /\ \A k \in DOMAIN nodes : IsSeq(nodes[k].location_blocks)
    /\ DOMAIN node = {"id", "words", "location_blocks"} /\ IsSeq(node.location_blocks)

\* A server: the fields of its settings that are compared, and the names of
\* its locations, which are finitely many.
IsServer(s) ==
    /\ DOMAIN s = {"conf", "dir_configs", "warned"} /\ s.warned \in BOOLEAN
    /\ {"server_name", "allowed_methods"} \subseteq DOMAIN s.conf
    /\ IsFiniteSet(DOMAIN s.dir_configs)
    /\ \A p \in DOMAIN s.dir_configs : IsSeq(p)

\* fill_servers_data appends one server for every node, set_all_warnings
\* passes them in their order.
Filled ==
    /\ IsSeq(servers)
    /\ \A k \in DOMAIN servers : IsServer(servers[k])
    /\ phase \in {"cli", "structure check", "open", "scan", "check", "http"} => servers = << >>
    /\ phase = "servers" =>
          /\ Len(servers) < Len(nodes)
          /\ \A k \in DOMAIN servers : ~servers[k].warned
    /\ phase = "warnings" =>
          \E m \in 1..Len(servers) : \A k \in DOMAIN servers : servers[k].warned <=> k < m
    /\ phase \in {"start", "running"} =>
          Len(servers) > 0 /\ \A k \in DOMAIN servers : servers[k].warned

Fine(k) ==
    LET s == servers[k] IN
    /\ s.conf.server_name # "" /\ s.conf.server_name \notin NamesBefore(k)
    /\ \A p \in DOMAIN s.dir_configs : ~IsThereACycle(s.dir_configs, p)
    /\ ~TraceAllowed(s)

WarnedOrFine ==
    \A k \in DOMAIN servers : servers[k].warned => is_warning_set \/ Fine(k)

AsAsked ==
    /\ phase \notin {"cli", "usage"} =>
          cli.strict = ("--activate-strict_mode" \in ToSet(Tail(input.args)))
    /\ phase = "running" => ~(cli.strict /\ is_warning_set)

\* Every redirection names a location, and none is made by a page for 301.
Linked ==
    LET l == This.dir_configs IN
    /\ \A p \in DOMAIN l : l[p].redirect \subseteq DOMAIN l
    /\ \A p \in DOMAIN l : 301 \notin DOMAIN l[p].error_page

\* A walk of h redirections from one location to the next ends in r.
WalkTo(h, r) ==
    \E w \in [0..h -> DOMAIN This.dir_configs] :
        /\ \A n \in 0..h - 1 : w[n + 1] \in This.dir_configs[w[n]].redirect
        /\ w[h] = r

\* A client that was sent on asks for the end of the walk so far, with a
\* request that has no fields, so that its connection is not kept.
Followed ==
    /\ hops \in Nat
    /\ hops > 0 \/ response.status # "none" =>
          phase \in {"running", "out_of_range"} /\ reader \in {"parsed", "closed"}
    /\ hops > 0 => ~Has("connection")
    /\ hops > 0 /\ response.status = "none" /\ Linked =>
          request.path.slash = TRUE /\ WalkTo(hops, request.path.segs)
    /\ response.status = "301" /\ Linked =>
          response.redirect_to.slash = TRUE /\ WalkTo(hops + 1, response.redirect_to.segs)

SiteInv == Nodes /\ Filled /\ WarnedOrFine /\ AsAsked /\ Followed

-----------------------------------------------------------------------------
(* Sequences                                                               *)

LEMMA SeqIs ==
    ASSUME NEW S, NEW s \in Seq(S)
    PROVE  IsSeq(s)
  <1> DEFINE T == {s[n] : n \in DOMAIN s}
  <1>1. s \in [1..Len(s) -> S] /\ Len(s) \in Nat
    BY LenProperties
  <1>2. s \in [1..Len(s) -> T]
    BY <1>1
  <1> HIDE DEF T
  <1>3. s \in Seq(T)
    BY <1>1, <1>2
  <1> QED
    BY <1>3 DEF IsSeq, T

LEMMA SeqFacts ==
    ASSUME NEW s, IsSeq(s)
    PROVE  \E S : s \in Seq(S)
  BY DEF IsSeq

LEMMA SeqDomain ==
    ASSUME NEW s, IsSeq(s)
    PROVE  Len(s) \in Nat /\ DOMAIN s = 1..Len(s)
  <1>1. PICK S : s \in Seq(S)
    BY SeqFacts
  <1> QED
    BY <1>1, LenProperties

LEMMA EmptyIsSeq == IsSeq(<< >>) /\ DOMAIN << >> = {} /\ Len(<< >>) = 0
  <1>1. << >> \in Seq({})
    OBVIOUS
  <1>2. IsSeq(<< >>)
    BY <1>1, SeqIs
  <1>3. Len(<< >>) = 0
    OBVIOUS
  <1>4. DOMAIN << >> = {}
    OBVIOUS
  <1> QED
    BY <1>2, <1>3, <1>4

LEMMA AppendIsSeq ==
    ASSUME NEW s, NEW e, IsSeq(s)
    PROVE  /\ IsSeq(Append(s, e)) /\ Len(Append(s, e)) = Len(s) + 1
           /\ DOMAIN Append(s, e) = 1..Len(s) + 1
           /\ \A n \in DOMAIN s : Append(s, e)[n] = s[n]
           /\ Append(s, e)[Len(s) + 1] = e
  <1>1. PICK S : s \in Seq(S)
    BY SeqFacts
  <1> DEFINE T == S \cup {e}
  <1>2. s \in Seq(T)
    BY <1>1, SeqMonotonic
  <1>3. e \in T
    OBVIOUS
  <1> HIDE DEF T
  <1>4. /\ Append(s, e) \in Seq(T) /\ Len(Append(s, e)) = Len(s) + 1
        /\ \A n \in 1..Len(s) : Append(s, e)[n] = s[n]
        /\ Append(s, e)[Len(s) + 1] = e
    BY <1>2, <1>3
  <1>5. IsSeq(Append(s, e))
    BY <1>4, SeqIs
  <1>6. DOMAIN Append(s, e) = 1..Len(Append(s, e)) /\ DOMAIN s = 1..Len(s)
    BY <1>5, SeqDomain
  <1> QED
    BY <1>4, <1>5, <1>6

\* The names of a path are a sequence, whatever word it is.
LEMMA NamesIsSeq ==
    ASSUME NEW w
    PROVE  IsSeq(Names(w))
  <1>1. CASE w \in DOMAIN Segments
    <2>1. Names(w) = Segments[w] /\ Segments[w] \in Seq(STRING)
      BY <1>1, SettingsAssumption DEF Names
    <2> QED
      BY <2>1, SeqIs
  <1>2. CASE w \notin DOMAIN Segments
    <2>1. Names(w) = <<w>>
      BY <1>2 DEF Names
    <2>2. <<w>> \in Seq({w})
      OBVIOUS
    <2> QED
      BY <2>1, <2>2, SeqIs
  <1> QED
    BY <1>1, <1>2

-----------------------------------------------------------------------------
(* is_there_a_cycle: the locations after n redirections, as a function.     *)

NextOf(l, p) == IF p \in DOMAIN l THEN l[p].redirect ELSE {}

AfterIs(f, l, name, m) ==
    f = [n \in 0..m |-> IF n = 0 THEN {name} ELSE UNION {NextOf(l, p) : p \in f[n - 1]}]

\* There is one, by induction on m.
LEMMA AfterExists ==
    ASSUME NEW l, NEW name, NEW m \in Nat
    PROVE  \E f : AfterIs(f, l, name, m)
  <1> DEFINE S == {n \in Nat : \E f : AfterIs(f, l, name, n)}
  <1>1. 0 \in S
    <2> DEFINE f == [n \in 0..0 |-> {name}]
    <2>1. AfterIs(f, l, name, 0)
      BY DEF AfterIs
    <2> QED
      BY <2>1
  <1>2. ASSUME NEW n \in Nat, n \in S PROVE n + 1 \in S
    <2>1. PICK f : AfterIs(f, l, name, n)
      BY <1>2
    <2> DEFINE g == [k \in 0..n + 1 |-> IF k <= n THEN f[k]
                                        ELSE UNION {NextOf(l, p) : p \in f[n]}]
    <2>2. \A k \in 0..n : f[k] = IF k = 0 THEN {name} ELSE UNION {NextOf(l, p) : p \in f[k - 1]}
      BY <2>1 DEF AfterIs
    <2>3. ASSUME NEW k \in 0..n + 1
          PROVE  g[k] = IF k = 0 THEN {name} ELSE UNION {NextOf(l, p) : p \in g[k - 1]}
      <3>1. CASE k = 0
        <4>1. 0 \in 0..n /\ 0 \in 0..n + 1 /\ 0 <= n
          OBVIOUS
        <4>2. f[0] = {name}
          BY <2>2, <4>1
        <4>3. g[0] = f[0]
          BY <4>1
        <4> HIDE DEF g
        <4> QED
          BY <3>1, <4>2, <4>3
      <3>2. CASE k \in 1..n
        <4>1. k \in 0..n /\ k - 1 \in 0..n + 1 /\ k - 1 <= n /\ k <= n /\ k # 0
          BY <3>2
        <4>2. g[k] = f[k] /\ g[k - 1] = f[k - 1]
          BY <4>1
        <4> QED
          BY <2>2, <4>1, <4>2
      <3>3. CASE k = n + 1
        <4>1. k - 1 = n /\ n \in 0..n + 1 /\ ~(k <= n) /\ k # 0
          BY <3>3
        <4>2. g[k - 1] = f[n]
          BY <4>1
        <4>3. g[k] = UNION {NextOf(l, p) : p \in f[n]}
          BY <4>1
        <4> HIDE DEF g
        <4>4. g[k] = UNION {NextOf(l, p) : p \in g[k - 1]}
          BY <4>2, <4>3, Zenon
        <4> QED
          BY <4>1, <4>4, Zenon
      <3> QED
        BY <3>1, <3>2, <3>3
    <2>4. g = [k \in 0..n + 1 |-> g[k]]
      OBVIOUS
    <2> HIDE DEF g
    <2>5. AfterIs(g, l, name, n + 1)
      BY <2>3, <2>4 DEF AfterIs
    <2> QED
      BY <2>5
  <1> HIDE DEF S
  <1>3. Nat \subseteq S
    BY <1>1, <1>2, Induction
  <1> QED
    BY <1>3 DEF S

\* So is_there_a_cycle asks whether the last of these sets is empty.
LEMMA CycleIs ==
    ASSUME NEW l, NEW name, IsFiniteSet(DOMAIN l)
    PROVE  LET many == Cardinality(DOMAIN l) + 1
           IN  \E f : AfterIs(f, l, name, many) /\ (IsThereACycle(l, name) <=> f[many] # {})
  <1> DEFINE many == Cardinality(DOMAIN l) + 1
             next(p) == IF p \in DOMAIN l THEN l[p].redirect ELSE {}
             after[n \in 0..many] == IF n = 0 THEN {name} ELSE UNION {next(p) : p \in after[n - 1]}
  <1>1. many \in Nat
    BY FS_CardinalityType
  <1>2. IsThereACycle(l, name) <=> after[many] # {}
    BY DEF IsThereACycle
  <1>3. after = CHOOSE f : AfterIs(f, l, name, many)
    BY DEF AfterIs, NextOf
  <1> HIDE DEF after, many
  <1>4. AfterIs(after, l, name, many)
    BY <1>1, <1>3, AfterExists
  <1> QED
    BY <1>2, <1>4 DEF many

\* With sets of locations from each of which every location redirects into
\* the next, the search from a location of the first does not end.
LEMMA KeepsOn ==
    ASSUME NEW l, NEW w, IsFiniteSet(DOMAIN l),
           \A n \in 0..Cardinality(DOMAIN l) + 1 : w[n] \subseteq DOMAIN l,
           \A n \in 0..Cardinality(DOMAIN l) : \A p \in w[n] : l[p].redirect \cap w[n + 1] # {},
           NEW name \in w[0]
    PROVE  IsThereACycle(l, name)
  <1> DEFINE many == Cardinality(DOMAIN l) + 1
  <1>1. many \in Nat /\ many - 1 = Cardinality(DOMAIN l) /\ many - 1 \in Nat
    BY FS_CardinalityType
  <1>2. PICK f : AfterIs(f, l, name, many) /\ (IsThereACycle(l, name) <=> f[many] # {})
    BY CycleIs
  <1>3. /\ \A n \in 0..many : w[n] \subseteq DOMAIN l
        /\ \A n \in 0..many - 1 : \A p \in w[n] : l[p].redirect \cap w[n + 1] # {}
    BY <1>1
  <1> HIDE DEF many
  <1>4. \A n \in 0..many : f[n] = IF n = 0 THEN {name} ELSE UNION {NextOf(l, p) : p \in f[n - 1]}
    BY <1>2 DEF AfterIs
  <1> DEFINE S == {n \in Nat : n <= many => f[n] \cap w[n] # {}}
  <1>5. 0 \in S
    <2>1. 0 \in 0..many
      BY <1>1
    <2>2. f[0] = {name}
      BY <1>4, <2>1
    <2> QED
      BY <2>2
  <1>6. ASSUME NEW n \in Nat, n \in S PROVE n + 1 \in S
    <2>1. SUFFICES ASSUME n + 1 <= many PROVE f[n + 1] \cap w[n + 1] # {}
      OBVIOUS
    <2>2. n \in 0..many - 1 /\ n \in 0..many /\ n <= many
      BY <1>1, <2>1
    <2>3. PICK p \in f[n] : p \in w[n]
      BY <1>6, <2>2
    <2>4. p \in DOMAIN l /\ l[p].redirect \cap w[n + 1] # {}
      BY <1>3, <2>2, <2>3
    <2>5. NextOf(l, p) = l[p].redirect
      BY <2>4 DEF NextOf
    <2> DEFINE k == n + 1
    <2>6. k \in 0..many /\ k # 0 /\ k - 1 = n
      BY <1>1, <2>1
    <2> HIDE DEF k
    <2>7. f[k] = UNION {NextOf(l, q) : q \in f[n]}
      BY <1>4, <2>6
    <2>8. NextOf(l, p) \subseteq f[k]
      BY <2>3, <2>7
    <2> QED
      BY <2>4, <2>5, <2>8 DEF k
  <1> HIDE DEF S
  <1>7. many \in S
    BY <1>1, <1>5, <1>6, Induction
  <1> QED
    BY <1>1, <1>2, <1>7 DEF S

\* A circle is found from each of its locations.
LEMMA CircleFound ==
    ASSUME NEW s, IsFiniteSet(DOMAIN s.dir_configs), Circle(s)
    PROVE  \E p \in DOMAIN s.dir_configs : IsThereACycle(s.dir_configs, p)
  <1> DEFINE l == s.dir_configs
  <1>1. PICK c \in SUBSET (DOMAIN l) : c # {} /\ \A p \in c : \E q \in c : l[p].redirect = {q}
    BY DEF Circle
  <1>2. IsFiniteSet(DOMAIN l)
    OBVIOUS
  <1>3. PICK p \in c : TRUE
    BY <1>1
  <1> HIDE DEF l
  <1> DEFINE w == [n \in Nat |-> c]
             many == Cardinality(DOMAIN l) + 1
  <1>4. many \in Nat /\ Cardinality(DOMAIN l) \in Nat
    BY <1>2, FS_CardinalityType
  <1>5. \A n \in Nat : w[n] = c
    OBVIOUS
  <1> HIDE DEF w
  <1>6. \A n \in 0..Cardinality(DOMAIN l) + 1 : w[n] \subseteq DOMAIN l
    BY <1>1, <1>4, <1>5
  <1>7. ASSUME NEW n \in 0..Cardinality(DOMAIN l), NEW q \in w[n]
        PROVE  l[q].redirect \cap w[n + 1] # {}
    <2>1. n \in Nat /\ n + 1 \in Nat
      BY <1>4
    <2>2. q \in c /\ w[n + 1] = c
      BY <1>5, <2>1
    <2> QED
      BY <1>1, <2>2
  <1>8. p \in w[0]
    BY <1>3, <1>5
  <1>9. IsThereACycle(l, p)
    BY <1>2, <1>6, <1>7, <1>8, KeepsOn
  <1> QED
    BY <1>1, <1>3, <1>9 DEF l

\* So is a walk that is longer than there are locations, where it begins.
LEMMA WalkFound ==
    ASSUME NEW l, NEW h \in Nat, NEW w \in [0..h -> DOMAIN l], IsFiniteSet(DOMAIN l),
           h > Cardinality(DOMAIN l),
           \A n \in 0..h - 1 : w[n + 1] \in l[w[n]].redirect
    PROVE  w[0] \in DOMAIN l /\ IsThereACycle(l, w[0])
  <1> DEFINE v == [n \in 0..h |-> {w[n]}]
  <1>1. Cardinality(DOMAIN l) \in Nat
    BY FS_CardinalityType
  <1>2. \A n \in 0..h : v[n] = {w[n]} /\ w[n] \in DOMAIN l
    OBVIOUS
  <1> HIDE DEF v
  <1>3. \A n \in 0..Cardinality(DOMAIN l) + 1 : v[n] \subseteq DOMAIN l
    BY <1>1, <1>2
  <1>4. ASSUME NEW n \in 0..Cardinality(DOMAIN l), NEW q \in v[n]
        PROVE  l[q].redirect \cap v[n + 1] # {}
    <2>1. n \in 0..h /\ n + 1 \in 0..h /\ n \in 0..h - 1
      BY <1>1
    <2>2. q = w[n] /\ v[n + 1] = {w[n + 1]}
      BY <1>2, <2>1
    <2>3. w[n + 1] \in l[w[n]].redirect
      BY <2>1
    <2> QED
      BY <2>2, <2>3
  <1>5. w[0] \in v[0] /\ w[0] \in DOMAIN l
    <2>1. 0 \in 0..h
      OBVIOUS
    <2> QED
      BY <1>2, <2>1
  <1>6. IsThereACycle(l, w[0])
    BY <1>3, <1>4, <1>5, KeepsOn
  <1> QED
    BY <1>5, <1>6

-----------------------------------------------------------------------------
(* The server that is filled, and the location of a path.                  *)

\* Locations are named by sequences, and there are finitely many.
LEMMA LocationsNamed ==
    ASSUME NEW conf, NEW blocks, IsSeq(blocks)
    PROVE  LET l == HandleLocations(conf, blocks)
           IN  IsFiniteSet(DOMAIN l) /\ \A p \in DOMAIN l : IsSeq(p)
  <1> DEFINE starts == {n \in DOMAIN blocks : blocks[n][1] = "location"}
             named  == {Names(blocks[n][2]) : n \in starts}
             f      == [n \in starts |-> Names(blocks[n][2])]
  <1>1. DOMAIN HandleLocations(conf, blocks) = named
    BY DEF HandleLocations
  <1>2. starts \subseteq 1..Len(blocks) /\ Len(blocks) \in Nat
    BY SeqDomain
  <1> HIDE DEF starts
  <1>3. IsFiniteSet(starts)
    <2>1. IsFiniteSet(1..Len(blocks))
      BY <1>2, FS_Interval
    <2> QED
      BY <1>2, <2>1, FS_Subset
  <1>4. f \in Surjection(starts, named)
    BY DEF Surjection
  <1>5. IsFiniteSet(named)
    BY <1>3, <1>4, FS_Surjection
  <1>6. \A p \in named : IsSeq(p)
    BY NamesIsSeq
  <1> QED
    BY <1>1, <1>5, <1>6

\* Filling keeps the fields of the settings.
LEMMA FillServerFields ==
    ASSUME NEW k, NEW n, NEW h, NEW m
    PROVE  {"server_name", "allowed_methods"} \subseteq DOMAIN FillServer(k, n, h, m)
  <1> DEFINE s == ServerDefaults(h, m)
             b == FillBlock("server", s, s, ServerLines(k, n))
  <1>1. {"server_name", "allowed_methods"} \subseteq DOMAIN s
    BY DEF ServerDefaults
  <1>2. FillServer(k, n, h, m) = With404Page(b)
    BY DEF FillServer
  <1> HIDE DEF s
  <1>3. DOMAIN b = DOMAIN s
    BY DEF FillBlock
  <1> HIDE DEF b
  <1>4. DOMAIN With404Page(b) = DOMAIN b
    BY DEF With404Page
  <1> QED
    BY <1>1, <1>2, <1>3, <1>4

\* A path that is the name of a location and ends in a slash leads there.
LEMMA LeadsToName ==
    ASSUME NEW path, path.slash = TRUE, IsSeq(path.segs),
           path.segs \in DOMAIN This.dir_configs
    PROVE  DirConfigs(path) = {path.segs}
  <1> DEFINE r == path.segs
             named == SlashPrefixes(path) \cap DOMAIN This.dir_configs
  <1>1. PICK S : r \in Seq(S)
    BY SeqFacts
  <1>2. Len(r) \in Nat /\ SubSeq(r, 1, Len(r)) = r
    BY <1>1, LenProperties, SubSeqFull
  <1>3. SlashPrefixes(path) = {SubSeq(r, 1, n) : n \in 0..Len(r)}
    BY <1>2 DEF SlashPrefixes
  <1>4. ASSUME NEW q \in SlashPrefixes(path)
        PROVE  Len(q) <= Len(r) /\ (Len(r) <= Len(q) => q = r)
    <2>1. PICK n \in 0..Len(r) : q = SubSeq(r, 1, n)
      BY <1>3
    <2>2. Len(q) = n
      BY <1>1, <1>2, <2>1
    <2> QED
      BY <1>2, <2>1, <2>2
  <1>5. r \in named
    BY <1>2, <1>3
  <1>6. DirConfigs(path) = {p \in named : \A q \in named : Len(q) <= Len(p)}
    BY DEF DirConfigs
  <1>7. \A q \in named : q \in SlashPrefixes(path)
    OBVIOUS
  <1> HIDE DEF named, r
  <1>8. DirConfigs(path) = {r}
    BY <1>4, <1>5, <1>6, <1>7
  <1> QED
    BY <1>8 DEF r

-----------------------------------------------------------------------------
(* The initial states                                                      *)

LEMMA InitInv == Init => SiteInv
  <1> SUFFICES ASSUME Init PROVE SiteInv
    OBVIOUS
  <1>1. Nodes
    <2>1. nodes = << >> /\ node = EmptyNode
      BY DEF Init, ScanInit
    <2>2. IsSeq(EmptyNode.location_blocks)
      BY EmptyIsSeq DEF EmptyNode
    <2>3. DOMAIN EmptyNode = {"id", "words", "location_blocks"}
      BY DEF EmptyNode
    <2> QED
      BY <2>1, <2>2, <2>3, EmptyIsSeq DEF Nodes
  <1>2. servers = << >> /\ phase = "cli" /\ hops = 0 /\ response = NoResponse
    BY DEF Init
  <1>3. Filled
    BY <1>2, EmptyIsSeq DEF Filled
  <1>4. WarnedOrFine
    BY <1>2, EmptyIsSeq DEF WarnedOrFine
  <1>5. AsAsked
    BY <1>2 DEF AsAsked
  <1>6. Followed
    <2>1. response.status = "none"
      BY <1>2 DEF NoResponse
    <2> QED
      BY <1>2, <2>1 DEF Followed
  <1> QED
    BY <1>1, <1>3, <1>4, <1>5, <1>6 DEF SiteInv

-----------------------------------------------------------------------------
(* The scanner                                                             *)

LEMMA NodesSame ==
    ASSUME Nodes, UNCHANGED <<nodes, node>>
    PROVE  Nodes'
  BY DEF Nodes, IsSeq

LEMMA NodesScan ==
    ASSUME Nodes, ScanNext
    PROVE  Nodes'
  <1> USE DEF Nodes
  <1>1. CASE CheckWords
    BY <1>1, NodesSame DEF CheckWords
  <1>2. CASE ParseWords
    BY <1>2, NodesSame DEF ParseWords
  <1>3. CASE ParseHttpConfigs
    BY <1>3, NodesSame DEF ParseHttpConfigs
  <1>4. CASE EnterServer
    <2>1. nodes' = nodes /\ node' = EmptyNode
      BY <1>4 DEF EnterServer
    <2>2. IsSeq(EmptyNode.location_blocks)
      BY EmptyIsSeq DEF EmptyNode
    <2>3. DOMAIN EmptyNode = {"id", "words", "location_blocks"}
      BY DEF EmptyNode
    <2> QED
      BY <2>1, <2>2, <2>3
  <1>5. CASE ServerWord
    <2>1. nodes' = nodes /\ (node' = node \/ node' = [node EXCEPT !.id = id])
      BY <1>5 DEF ServerWord
    <2>2. DOMAIN node' = DOMAIN node /\ node'.location_blocks = node.location_blocks
      BY <2>1
    <2> QED
      BY <2>1, <2>2
  <1>6. CASE ServerLine
    <2> DEFINE done == [node EXCEPT !.words = Collected]
    <2>1. DOMAIN done = DOMAIN node /\ done.location_blocks = node.location_blocks
      OBVIOUS
    <2>2. \/ nodes' = nodes /\ node' = done
          \/ (nodes' = nodes \/ nodes' = Append(nodes, done)) /\ node' = EmptyNode
      BY <1>6 DEF ServerLine
    <2>3. IsSeq(EmptyNode.location_blocks) /\ DOMAIN EmptyNode = {"id", "words", "location_blocks"}
      BY EmptyIsSeq DEF EmptyNode
    <2> HIDE DEF done
    <2>4. DOMAIN node' = {"id", "words", "location_blocks"} /\ IsSeq(node'.location_blocks)
      BY <2>1, <2>2, <2>3
    <2>5. CASE nodes' = nodes
      BY <2>4, <2>5
    <2>6. CASE nodes' = Append(nodes, done)
      <3>1. /\ IsSeq(nodes') /\ DOMAIN nodes' = 1..Len(nodes) + 1
            /\ \A k \in DOMAIN nodes : nodes'[k] = nodes[k]
            /\ nodes'[Len(nodes) + 1] = done
        BY <2>6, AppendIsSeq
      <3>2. Len(nodes) \in Nat /\ DOMAIN nodes = 1..Len(nodes)
        BY SeqDomain
      <3>3. ASSUME NEW k \in DOMAIN nodes' PROVE IsSeq(nodes'[k].location_blocks)
        <4>1. k \in DOMAIN nodes \/ k = Len(nodes) + 1
          BY <3>1, <3>2
        <4> QED
          BY <2>1, <3>1, <4>1
      <3> QED
        BY <2>4, <3>1, <3>3
    <2> QED
      BY <2>2, <2>5, <2>6
  <1>7. CASE LocationLine
    <2>1. nodes' = nodes
      BY <1>7 DEF LocationLine
    <2>2. PICK taken : node' = node \/ node' = [node EXCEPT !.location_blocks = Append(@, taken)]
      BY <1>7 DEF LocationLine
    <2>3. IsSeq(Append(node.location_blocks, taken))
      BY AppendIsSeq
    <2>4. DOMAIN node' = DOMAIN node /\ IsSeq(node'.location_blocks)
      BY <2>2, <2>3
    <2> QED
      BY <2>1, <2>4
  <1> QED
    BY <1>1, <1>2, <1>3, <1>4, <1>5, <1>6, <1>7 DEF ScanNext

LEMMA NodesKept ==
    ASSUME Nodes, [Next]_vars
    PROVE  Nodes'
  <1>1. CASE Scan
    BY <1>1, NodesScan DEF Scan
  <1>2. CASE OpenFile
    BY <1>2, NodesSame DEF OpenFile, ReadConfigFile, scan_vars
  <1>3. CASE UNCHANGED scan_vars
    BY <1>3, NodesSame DEF scan_vars
  <1>4. [Next]_vars => Scan \/ OpenFile \/ UNCHANGED scan_vars
    BY DEF Next, ParseAndGetCli, CheckStructure, CheckFile, FillHttpData, FillServerData,
           SetWarnings, Start, Connect, Receive, Parse, ArchitectResponse, Settle, Follow,
           Done, vars
  <1> QED
    BY <1>1, <1>2, <1>3, <1>4

-----------------------------------------------------------------------------
(* The phases of main()                                                    *)

\* Whatever line is the first that is not valid, the verdict is one of three.
LEMMA Verdicts ==
    ASSUME NEW h, NEW n, IsSeq(n)
    PROVE  FileVerdict(h, n) \in {"valid", "invalid", "undefined"}
  <1> DEFINE some == {"valid", "invalid", "undefined"}
  <1>1. \A b, l : LineVerdict(b, l) \in some
    BY DEF LineVerdict
  <1> HIDE DEF some
  <1>2. "valid" \in some
    BY DEF some
  <1>3. \A b, ls : BlockVerdict(b, ls) \in some
    BY <1>1, <1>2 DEF BlockVerdict
  <1>4. \A s : ServerVerdict(s) \in some
    BY <1>3 DEF ServerVerdict
  <1> DEFINE verdict == [k \in DOMAIN n |-> ServerVerdict(n[k])]
             bad     == {k \in DOMAIN n : verdict[k] # "valid"}
  <1>5. bad # {} => Min(bad) \in DOMAIN n
    <2>1. bad \subseteq DOMAIN n /\ bad \subseteq Nat
      BY SeqDomain
    <2> HIDE DEF bad
    <2>2. ASSUME bad # {} PROVE \E x \in bad : \A y \in bad : x <= y
      BY <2>1, <2>2, LeastNatural
    <2> QED
      BY <2>1, <2>2 DEF Min
  <1>6. \A k \in DOMAIN n : verdict[k] \in some
    BY <1>4
  <1>7. FileVerdict(h, n) =
          CASE BlockVerdict("http", h) # "valid" -> BlockVerdict("http", h)
            [] BlockVerdict("http", h) = "valid" /\ bad # {} -> verdict[Min(bad)]
            [] OTHER -> "valid"
    BY DEF FileVerdict
  <1> HIDE DEF verdict, bad
  <1>8. FileVerdict(h, n) \in some
    BY <1>2, <1>3, <1>5, <1>6, <1>7
  <1> QED
    BY <1>8 DEF some

Early == {"cli", "structure check", "open", "scan", "check", "http"}

\* Every step but four leaves the servers and the flag as they are; it goes on
\* in the early phases, ends the program, or stays where it is.
LEMMA PhaseSteps ==
    ASSUME Nodes, [Next]_vars, ~FillHttpData, ~FillServerData, ~SetWarnings, ~Start
    PROVE  /\ UNCHANGED <<servers, is_warning_set>>
           /\ \/ phase' = phase /\ nodes' = nodes
              \/ phase \in Early /\ phase' \in Early
              \/ phase' \in Ended
  <1>1. CASE ParseAndGetCli
    BY <1>1 DEF ParseAndGetCli, Early, Ended
  <1>2. CASE CheckStructure
    BY <1>2 DEF CheckStructure, Early, Ended
  <1>3. CASE OpenFile
    BY <1>3 DEF OpenFile, Early, Ended
  <1>4. CASE Scan
    BY <1>4 DEF Scan, Early, Ended
  <1>5. CASE CheckFile
    <2>1. phase = "check" /\ UNCHANGED <<servers, is_warning_set>>
      BY <1>5 DEF CheckFile
    <2>2. FileVerdict(http_as_words, nodes) \in {"valid", "invalid", "undefined"}
      BY Verdicts DEF Nodes
    <2>3. phase' \in {"http", "invalid", "undefined"}
      BY <1>5, <2>2 DEF CheckFile
    <2> QED
      BY <2>1, <2>3 DEF Early, Ended
  <1>6. CASE Receive \/ Parse
    <2>1. UNCHANGED <<servers, is_warning_set, nodes>> /\ phase' \in {phase, "out_of_range"}
      BY <1>6 DEF Receive, Parse, scan_vars
    <2> QED
      BY <2>1 DEF Ended
  <1>7. CASE UNCHANGED <<servers, is_warning_set, nodes, phase>>
    BY <1>7
  <1>8. \/ ParseAndGetCli \/ CheckStructure \/ OpenFile \/ Scan \/ CheckFile
        \/ Receive \/ Parse \/ UNCHANGED <<servers, is_warning_set, nodes, phase>>
    BY DEF Next, Connect, ArchitectResponse, Settle, Follow, Done, vars, site_vars, scan_vars
  <1> QED
    BY <1>1, <1>2, <1>3, <1>4, <1>5, <1>6, <1>7, <1>8

-----------------------------------------------------------------------------
(* Filling the servers, and their warnings                                 *)

LEMMA ServersSame ==
    ASSUME WarnedOrFine, UNCHANGED <<servers, is_warning_set>>
    PROVE  WarnedOrFine'
  BY DEF WarnedOrFine, Fine, NamesBefore

\* Why filling stops.
LEMMA WhyStopped ==
    ASSUME NEW k, NEW n, NEW taken
    PROVE  ServerStops(k, n, taken) \in (Ended \ {"out_of_range"}) \cup {"no"}
  <1> DEFINE some == (Ended \ {"out_of_range"}) \cup {"no"}
  <1>1. /\ "no" \in some /\ "PortAlreadyUsed" \in some /\ "undefined" \in some
        /\ "ParsingExceptionMaxConnectionsInterval" \in some
        /\ "InvalidHttpToken" \in some /\ "UndefinedPort" \in some
    BY DEF Ended
  <1> HIDE DEF some
  <1>2. ASSUME NEW m PROVE LineStops(k, n, m, taken) \in some
    <2> DEFINE port == AsShort(Number(n.words[m][2]))
               A == /\ n.words[m][1] = "listen"
                    /\ \/ port \in taken
                       \/ \E q \in 1..m - 1 : n.words[q][1] = "listen" /\ AsShort(Number(n.words[q][2])) = port
               B == n.words[m][1] = "client_max_connections" /\ AsInt(Number(n.words[m][2])) \notin 1..10000
               C == n.words[m][1] = "client_max_uri_size" /\ k > Len(n.words)
    <2>1. LineStops(k, n, m, taken) =
             CASE A -> "PortAlreadyUsed" [] B -> "ParsingExceptionMaxConnectionsInterval"
               [] C -> "undefined" [] OTHER -> "no"
      BY DEF LineStops
    <2> HIDE DEF A, B, C
    <2> QED
      BY <1>1, <2>1
  <1>3. ServerStops(k, n, taken) \in some
    BY <1>1, <1>2 DEF ServerStops
  <1> QED
    BY <1>3 DEF some

LEMMA FillServerKeeps ==
    ASSUME Nodes, Filled, WarnedOrFine, FillServerData
    PROVE  Filled' /\ WarnedOrFine' /\ phase' \in {"servers", "warnings"} \cup Ended
  <1> DEFINE k     == Len(servers) + 1
             conf  == FillServer(k, nodes[k], http, input.memory)
             s     == [conf |-> conf,
                       dir_configs |-> HandleLocations(conf, nodes[k].location_blocks),
                       warned |-> FALSE]
             stops == ServerStops(k, nodes[k], PortsSet)
  <1>1. /\ phase = "servers" /\ UNCHANGED <<is_warning_set, nodes>>
        /\ IF stops # "no" THEN phase' = stops /\ UNCHANGED servers
           ELSE /\ servers' = Append(servers, s)
                /\ phase' = IF k = Len(nodes) THEN "warnings" ELSE "servers"
    BY DEF FillServerData, scan_vars
  <1>2. /\ Len(servers) \in Nat /\ DOMAIN servers = 1..Len(servers)
        /\ Len(nodes) \in Nat /\ DOMAIN nodes = 1..Len(nodes)
        /\ Len(servers) < Len(nodes) /\ \A n \in DOMAIN servers : ~servers[n].warned
    BY <1>1, SeqDomain DEF Filled, Nodes
  <1>3. CASE stops # "no"
    <2>1. phase' \in Ended /\ UNCHANGED servers
      BY <1>1, <1>3, WhyStopped
    <2>2. WarnedOrFine'
      BY <1>1, <2>1, ServersSame
    <2>3. Filled'
      BY <2>1 DEF Filled, Ended
    <2> QED
      BY <2>1, <2>2, <2>3
  <1>4. CASE stops = "no"
    <2>1. servers' = Append(servers, s) /\ phase' = IF k = Len(nodes) THEN "warnings" ELSE "servers"
      BY <1>1, <1>4
    <2>2. IsServer(s) /\ s.warned = FALSE
      <3>1. k \in DOMAIN nodes
        BY <1>2
      <3>2. IsSeq(nodes[k].location_blocks)
        BY <3>1 DEF Nodes
      <3>3. IsFiniteSet(DOMAIN s.dir_configs) /\ \A p \in DOMAIN s.dir_configs : IsSeq(p)
        BY <3>2, LocationsNamed
      <3>4. {"server_name", "allowed_methods"} \subseteq DOMAIN s.conf
        BY FillServerFields
      <3>5. DOMAIN s = {"conf", "dir_configs", "warned"} /\ s.warned = FALSE
        OBVIOUS
      <3> QED
        BY <3>3, <3>4, <3>5 DEF IsServer
    <2> HIDE DEF s, stops, conf
    <2>3. /\ IsSeq(servers') /\ Len(servers') = Len(servers) + 1
          /\ DOMAIN servers' = 1..Len(servers) + 1
          /\ \A n \in DOMAIN servers : servers'[n] = servers[n]
          /\ servers'[Len(servers) + 1] = s
      <3>1. IsSeq(servers)
        BY DEF Filled
      <3>2. /\ IsSeq(Append(servers, s)) /\ Len(Append(servers, s)) = Len(servers) + 1
            /\ DOMAIN Append(servers, s) = 1..Len(servers) + 1
            /\ \A n \in DOMAIN servers : Append(servers, s)[n] = servers[n]
            /\ Append(servers, s)[Len(servers) + 1] = s
        BY <3>1, AppendIsSeq
      <3>3. servers' = Append(servers, s)
        BY <2>1
      <3> QED
        BY <3>2, <3>3, Zenon
    <2>4. \A n \in DOMAIN servers' : IsServer(servers'[n]) /\ ~servers'[n].warned
      <3>1. SUFFICES ASSUME NEW n \in DOMAIN servers'
                     PROVE  IsServer(servers'[n]) /\ ~servers'[n].warned
        OBVIOUS
      <3>2. n \in DOMAIN servers \/ n = Len(servers) + 1
        BY <1>2, <2>3
      <3> QED
        BY <1>2, <2>2, <2>3, <3>2 DEF Filled
    <2>5. WarnedOrFine'
      BY <2>4 DEF WarnedOrFine
    <2>6. phase' = "servers" => Len(servers') < Len(nodes')
      <3>1. phase' = "servers" => k # Len(nodes)
        BY <2>1
      <3>2. Len(nodes') = Len(nodes)
        BY <1>1
      <3>3. Len(servers') <= Len(nodes)
        BY <1>2, <2>3
      <3>4. Len(servers') = k /\ k \in Nat /\ Len(nodes) \in Nat
        BY <1>2, <2>3
      <3> HIDE DEF k
      <3> QED
        BY <3>1, <3>2, <3>3, <3>4
    <2>7. \E m \in 1..Len(servers') : \A n \in DOMAIN servers' : servers'[n].warned <=> n < m
      <3>1. 1 \in 1..Len(servers') /\ \A n \in DOMAIN servers' : ~(n < 1)
        BY <1>2, <2>3
      <3> QED
        BY <2>4, <3>1
    <2>8. phase' \in {"servers", "warnings"}
      BY <2>1
    <2>9. Filled'
      BY <2>3, <2>4, <2>6, <2>7, <2>8 DEF Filled
    <2> QED
      BY <2>5, <2>8, <2>9
  <1> QED
    BY <1>3, <1>4

\* Lowering a value to its limit changes neither names nor methods.
LEMMA ClampedKeeps ==
    ASSUME NEW c, {"server_name", "allowed_methods"} \subseteq DOMAIN c
    PROVE  /\ DOMAIN Clamped(c) = DOMAIN c
           /\ Clamped(c).server_name = c.server_name
           /\ Clamped(c).allowed_methods = c.allowed_methods
  <1>1. DOMAIN Limits = {"keep_alive_max_timeout", "client_max_request_timeout", "client_max_uri_size"}
    BY DEF Limits
  <1>2. "server_name" \notin DOMAIN Limits /\ "allowed_methods" \notin DOMAIN Limits
    BY <1>1
  <1> QED
    BY <1>2 DEF Clamped

\* What does not change of a server when it is passed.
Alike(s, t) ==
    /\ t.conf.server_name = s.conf.server_name
    /\ t.conf.allowed_methods = s.conf.allowed_methods
    /\ t.dir_configs = s.dir_configs

LEMMA FineKept ==
    ASSUME NEW n, DOMAIN servers' = DOMAIN servers, n \in DOMAIN servers,
           DOMAIN servers = 1..Len(servers), Len(servers) \in Nat,
           \A m \in DOMAIN servers : Alike(servers[m], servers'[m]), Fine(n)
    PROVE  Fine(n)'
  <1>1. \A m \in 1..n - 1 : m \in DOMAIN servers
    OBVIOUS
  <1>2. NamesBefore(n)' = NamesBefore(n)
    BY <1>1 DEF NamesBefore, Alike
  <1>3. TraceAllowed(servers'[n]) <=> TraceAllowed(servers[n])
    BY DEF TraceAllowed, Alike
  <1>4. Alike(servers[n], servers'[n])
    OBVIOUS
  <1> QED
    BY <1>2, <1>3, <1>4 DEF Fine, Alike

LEMMA SetWarningsKeeps ==
    ASSUME Filled, WarnedOrFine, SetWarnings
    PROVE  Filled' /\ WarnedOrFine' /\ phase' \in {"warnings", "start"}
  <1> DEFINE k == Min({n \in DOMAIN servers : ~servers[n].warned})
             s == servers[k]
             t == [s EXCEPT !.conf = Clamped(s.conf), !.warned = TRUE]
  <1>1. /\ phase = "warnings"
        /\ is_warning_set => is_warning_set'
        /\ Warns(k, s) => is_warning_set'
        /\ servers' = [servers EXCEPT ![k].conf = Clamped(s.conf), ![k].warned = TRUE]
        /\ phase' = IF k = Len(servers) THEN "start" ELSE "warnings"
    BY DEF SetWarnings
  <1>2. /\ IsSeq(servers) /\ Len(servers) \in Nat /\ DOMAIN servers = 1..Len(servers)
        /\ \A n \in DOMAIN servers : IsServer(servers[n])
    BY SeqDomain DEF Filled
  <1>3. PICK m \in 1..Len(servers) : \A n \in DOMAIN servers : servers[n].warned <=> n < m
    BY <1>1 DEF Filled
  <1>4. k = m
    <2> DEFINE T == {n \in DOMAIN servers : ~servers[n].warned}
    <2>1. T = m..Len(servers)
      BY <1>2, <1>3
    <2>2. m \in T /\ \A y \in T : m <= y
      BY <1>2, <2>1
    <2>3. \A x \in T : (\A y \in T : x <= y) => x = m
      BY <1>2, <2>1
    <2>4. k = CHOOSE x \in T : \A y \in T : x <= y
      BY DEF Min
    <2> HIDE DEF T, k
    <2> QED
      BY <2>2, <2>3, <2>4
  <1> HIDE DEF k
  <1>5. k \in DOMAIN servers /\ k \in 1..Len(servers) /\ IsServer(s)
    BY <1>2, <1>3, <1>4
  <1>6. servers' = [servers EXCEPT ![k] = t]
    BY <1>1, <1>5
  <1>7. IsServer(t) /\ Alike(s, t) /\ t.warned = TRUE
    <2>1. DOMAIN s = {"conf", "dir_configs", "warned"}
      BY <1>5 DEF IsServer
    <2>2. /\ DOMAIN t = DOMAIN s /\ t.warned = TRUE /\ t.conf = Clamped(s.conf)
          /\ t.dir_configs = s.dir_configs
      BY <2>1
    <2>3. {"server_name", "allowed_methods"} \subseteq DOMAIN s.conf
      BY <1>5 DEF IsServer
    <2> HIDE DEF t
    <2>4. Alike(s, t)
      BY <2>2, <2>3, ClampedKeeps DEF Alike
    <2>5. IsServer(t)
      BY <1>5, <2>2, <2>3, ClampedKeeps DEF IsServer
    <2> QED
      BY <2>2, <2>4, <2>5
  <1> HIDE DEF t
  <1>8. /\ DOMAIN servers' = DOMAIN servers /\ servers'[k] = t
        /\ \A n \in DOMAIN servers : n # k => servers'[n] = servers[n]
    BY <1>5, <1>6
  <1>9. IsSeq(servers') /\ Len(servers') = Len(servers)
    <2>1. PICK S : servers \in Seq(S)
      BY <1>2, SeqFacts
    <2> DEFINE U == S \cup {t}
    <2>2. servers \in Seq(U) /\ t \in U
      BY <2>1, SeqMonotonic
    <2> HIDE DEF U
    <2>3. servers' \in Seq(U) /\ Len(servers') = Len(servers)
      BY <1>5, <1>6, <2>2, ExceptSeq
    <2> QED
      BY <2>3, SeqIs
  <1>10. \A n \in DOMAIN servers : Alike(servers[n], servers'[n])
    BY <1>7, <1>8 DEF Alike
  <1>11. WarnedOrFine'
    <2>1. SUFFICES ASSUME NEW n \in DOMAIN servers', servers'[n].warned, ~is_warning_set'
                   PROVE  Fine(n)'
      BY DEF WarnedOrFine
    <2>2. Fine(n)
      <3>1. CASE n = k
        <4>1. ~Warns(k, s)
          BY <1>1, <2>1
        <4> QED
          BY <3>1, <4>1 DEF Warns, Fine
      <3>2. CASE n # k
        <4>1. n \in DOMAIN servers /\ servers[n].warned /\ ~is_warning_set
          BY <1>1, <1>8, <2>1, <3>2
        <4> QED
          BY <4>1 DEF WarnedOrFine
      <3> QED
        BY <3>1, <3>2
    <2> QED
      BY <1>2, <1>8, <1>10, <2>1, <2>2, FineKept
  <1>12. \A n \in DOMAIN servers' : IsServer(servers'[n]) /\ (servers'[n].warned <=> n < k + 1)
    <2>1. SUFFICES ASSUME NEW n \in DOMAIN servers'
                   PROVE  IsServer(servers'[n]) /\ (servers'[n].warned <=> n < k + 1)
      OBVIOUS
    <2>2. CASE n = k
      BY <1>5, <1>7, <1>8, <2>2
    <2>3. CASE n # k
      <3>1. n \in DOMAIN servers /\ servers'[n] = servers[n] /\ (n < k + 1 <=> n < k)
        BY <1>2, <1>5, <1>8, <2>3
      <3>2. servers[n].warned <=> n < k
        BY <1>3, <1>4, <3>1
      <3> QED
        BY <1>2, <3>1, <3>2
    <2> QED
      BY <2>2, <2>3
  <1>13. phase' \in {"warnings", "start"}
    BY <1>1
  <1>14. phase' = "warnings" =>
            \E q \in 1..Len(servers') : \A n \in DOMAIN servers' : servers'[n].warned <=> n < q
    <2>1. SUFFICES ASSUME phase' = "warnings"
                   PROVE  \E q \in 1..Len(servers') : \A n \in DOMAIN servers' : servers'[n].warned <=> n < q
      OBVIOUS
    <2>2. k + 1 \in 1..Len(servers')
      BY <1>1, <1>2, <1>5, <1>9, <2>1
    <2> QED
      BY <1>12, <2>2
  <1>15. phase' = "start" => Len(servers') > 0 /\ \A n \in DOMAIN servers' : servers'[n].warned
    <2>1. phase' = "start" => k = Len(servers)
      BY <1>1
    <2>2. \A n \in DOMAIN servers' : n < Len(servers) + 1
      BY <1>2, <1>8
    <2>3. Len(servers') > 0
      BY <1>2, <1>5, <1>9
    <2> QED
      BY <1>12, <2>1, <2>2, <2>3
  <1>16. Filled'
    BY <1>9, <1>12, <1>13, <1>14, <1>15 DEF Filled
  <1> QED
    BY <1>11, <1>13, <1>16

LEMMA FillHttpKeeps ==
    ASSUME Nodes, Filled, FillHttpData
    PROVE  Filled' /\ phase' \in {"servers", "invalid"} /\ UNCHANGED <<servers, is_warning_set>>
  <1>1. /\ phase = "http" /\ UNCHANGED <<servers, is_warning_set, nodes>>
        /\ phase' = IF nodes = << >> THEN "invalid" ELSE "servers"
    BY DEF FillHttpData, scan_vars
  <1>2. servers = << >>
    BY <1>1 DEF Filled
  <1>3. nodes # << >> => Len(nodes) > 0
    <2>1. PICK S : nodes \in Seq(S)
      BY SeqFacts DEF Nodes
    <2> QED
      BY <2>1
  <1> QED
    BY <1>1, <1>2, <1>3, EmptyIsSeq DEF Filled

LEMMA FilledKept ==
    ASSUME Nodes, Filled, WarnedOrFine, [Next]_vars
    PROVE  Filled' /\ WarnedOrFine'
  <1>1. CASE FillHttpData
    BY <1>1, FillHttpKeeps, ServersSame
  <1>2. CASE FillServerData
    BY <1>2, FillServerKeeps
  <1>3. CASE SetWarnings
    BY <1>3, SetWarningsKeeps
  <1>4. CASE Start
    <2>1. phase = "start" /\ UNCHANGED <<servers, is_warning_set>>
      BY <1>4 DEF Start
    <2>2. phase' \in {"strict mode", "unsupported multiplexer", "running"}
      BY <1>4 DEF Start
    <2>3. Filled'
      BY <2>1, <2>2 DEF Filled
    <2> QED
      BY <2>1, <2>3, ServersSame
  <1>5. CASE ~FillHttpData /\ ~FillServerData /\ ~SetWarnings /\ ~Start
    <2>1. /\ UNCHANGED <<servers, is_warning_set>>
          /\ \/ phase' = phase /\ nodes' = nodes
             \/ phase \in Early /\ phase' \in Early
             \/ phase' \in Ended
      BY <1>5, PhaseSteps
    <2>2. WarnedOrFine'
      BY <2>1, ServersSame
    <2>3. CASE phase' = phase /\ nodes' = nodes
      BY <2>1, <2>2, <2>3 DEF Filled
    <2>4. CASE phase \in Early /\ phase' \in Early
      BY <2>1, <2>2, <2>4 DEF Filled, Early
    <2>5. CASE phase' \in Ended
      BY <2>1, <2>2, <2>5 DEF Filled, Ended
    <2> QED
      BY <2>1, <2>3, <2>4, <2>5
  <1> QED
    BY <1>1, <1>2, <1>3, <1>4, <1>5

-----------------------------------------------------------------------------
(* The command line, and strict mode                                       *)

LEMMA CliSteps ==
    ASSUME [Next]_vars, ~ParseAndGetCli
    PROVE  UNCHANGED <<cli, input>> /\ (phase \in {"cli", "usage"} => phase' = phase)
  <1>1. UNCHANGED <<cli, input>>
    BY DEF Next, CheckStructure, OpenFile, Scan, CheckFile, FillHttpData, FillServerData,
           SetWarnings, Start, Connect, Receive, Parse, ArchitectResponse, Settle, Follow,
           Done, vars, site_vars
  <1>2. ASSUME phase \in {"cli", "usage"} PROVE phase' = phase
    <2>1. phase # "structure check" /\ phase # "open" /\ phase # "scan" /\ phase # "check"
          /\ phase # "http" /\ phase # "servers" /\ phase # "warnings" /\ phase # "start"
          /\ phase # "running"
      BY <1>2
    <2>2. UNCHANGED vars
      BY <2>1 DEF Next, CheckStructure, OpenFile, Scan, CheckFile, FillHttpData, FillServerData,
           SetWarnings, Start, Connect, Receive, Parse, ArchitectResponse, Settle, Follow, Done
    <2> QED
      BY <2>2 DEF vars, site_vars
  <1> QED
    BY <1>1, <1>2

\* The loop is only entered through Start.
LEMMA RunningSteps ==
    ASSUME Nodes, Filled, WarnedOrFine, [Next]_vars, phase' = "running", phase # "running"
    PROVE  Start
  <1>1. ~FillHttpData
    BY FillHttpKeeps
  <1>2. ~FillServerData
    <2>1. "running" \notin {"servers", "warnings"} \cup Ended
      BY DEF Ended
    <2> QED
      BY <2>1, FillServerKeeps
  <1>3. ~SetWarnings
    BY SetWarningsKeeps
  <1>4. "running" \notin Ended /\ "running" \notin Early
    BY DEF Ended, Early
  <1> QED
    BY <1>1, <1>2, <1>3, <1>4, PhaseSteps

LEMMA AsAskedKept ==
    ASSUME Nodes, Filled, WarnedOrFine, AsAsked, [Next]_vars
    PROVE  AsAsked'
  <1> DEFINE Strict == "--activate-strict_mode" \in ToSet(Tail(input.args))
  <1>1. phase' \notin {"cli", "usage"} => cli'.strict = Strict'
    <2>1. CASE ParseAndGetCli
      <3>1. SUFFICES ASSUME phase' # "usage" PROVE cli'.strict = Strict'
        OBVIOUS
      <3>2. input' = input /\ input.args # << >>
        BY <2>1, <3>1 DEF ParseAndGetCli
      <3>3. cli' = [strict |-> Strict, logs |-> "--register-logs" \in ToSet(Tail(input.args)),
                    help |-> "--help" \in ToSet(input.args),
                    reset_logs |-> cli.reset_logs \/ "--reset-logs" \in ToSet(input.args)]
        BY <2>1, <3>1, <3>2 DEF ParseAndGetCli
      <3> QED
        BY <3>2, <3>3
    <2>2. CASE ~ParseAndGetCli
      BY <2>2, CliSteps DEF AsAsked
    <2> QED
      BY <2>1, <2>2
  <1>2. phase' = "running" => ~(cli'.strict /\ is_warning_set')
    <2>1. CASE phase = "running"
      <3>1. UNCHANGED <<cli, is_warning_set>>
        BY <2>1, PhaseSteps, CliSteps
           DEF ParseAndGetCli, FillHttpData, FillServerData, SetWarnings, Start
      <3> QED
        BY <2>1, <3>1 DEF AsAsked
    <2>2. CASE phase # "running"
      <3>1. SUFFICES ASSUME phase' = "running" PROVE ~(cli'.strict /\ is_warning_set')
        OBVIOUS
      <3>2. Start
        BY <2>2, <3>1, RunningSteps
      <3> QED
        BY <3>1, <3>2 DEF Start
    <2> QED
      BY <2>1, <2>2
  <1> QED
    BY <1>1, <1>2 DEF AsAsked

-----------------------------------------------------------------------------
(* A client that is sent on                                                *)

\* A walk goes one step on.
LEMMA WalkOn ==
    ASSUME NEW h \in Nat, NEW p, WalkTo(h, p),
           NEW r \in This.dir_configs[p].redirect, r \in DOMAIN This.dir_configs
    PROVE  WalkTo(h + 1, r)
  <1> DEFINE l == This.dir_configs
  <1>1. PICK w \in [0..h -> DOMAIN l] :
            (\A n \in 0..h - 1 : w[n + 1] \in l[w[n]].redirect) /\ w[h] = p
    BY DEF WalkTo
  <1>2. r \in l[p].redirect /\ r \in DOMAIN l
    OBVIOUS
  <1> HIDE DEF l
  <1> DEFINE v == [n \in 0..h + 1 |-> IF n <= h THEN w[n] ELSE r]
  <1>3. v \in [0..h + 1 -> DOMAIN l]
    BY <1>1, <1>2
  <1>4. (\A n \in 0..h : v[n] = w[n]) /\ v[h + 1] = r
    OBVIOUS
  <1> HIDE DEF v
  <1>5. ASSUME NEW n \in 0..h PROVE v[n + 1] \in l[v[n]].redirect
    <2>1. CASE n = h
      BY <1>1, <1>2, <1>4, <2>1
    <2>2. CASE n \in 0..h - 1
      <3>1. n + 1 \in 0..h
        BY <2>2
      <3> QED
        BY <1>1, <1>4, <2>2, <3>1
    <2> QED
      BY <2>1, <2>2
  <1>6. (h + 1) - 1 = h
    OBVIOUS
  <1>7. \A n \in 0..(h + 1) - 1 : v[n + 1] \in l[v[n]].redirect
    BY <1>5, <1>6
  <1> QED
    BY <1>3, <1>4, <1>7 DEF WalkTo, l

\* A walk of no redirection.
LEMMA WalkStart ==
    ASSUME NEW p \in DOMAIN This.dir_configs
    PROVE  WalkTo(0, p)
  <1> DEFINE w == [n \in 0..0 |-> p]
  <1>1. w \in [0..0 -> DOMAIN This.dir_configs] /\ w[0] = p
    OBVIOUS
  <1>2. \A n \in 0..0 - 1 : w[n + 1] \in This.dir_configs[w[n]].redirect
    OBVIOUS
  <1> HIDE DEF w
  <1> QED
    BY <1>1, <1>2 DEF WalkTo

LEMMA WalkSame ==
    ASSUME UNCHANGED servers, NEW h, NEW r
    PROVE  (Linked' <=> Linked) /\ (WalkTo(h, r)' <=> WalkTo(h, r))
  BY DEF Linked, WalkTo, This

\* While a client is sent on, nothing else is done for it.
LEMMA OtherSteps ==
    ASSUME Followed, [Next]_vars, ~ArchitectResponse, ~Settle, ~Follow
    PROVE  /\ UNCHANGED <<hops, response>>
           /\ hops > 0 \/ response.status # "none" =>
                 /\ UNCHANGED <<servers, request, reader>>
                 /\ phase' \in {"running", "out_of_range"}
  <1>1. UNCHANGED <<hops, response>>
    BY DEF Next, ParseAndGetCli, CheckStructure, OpenFile, Scan, CheckFile, FillHttpData,
           FillServerData, SetWarnings, Start, Connect, Receive, Parse, Done, vars, site_vars
  <1>2. ASSUME hops > 0 \/ response.status # "none"
        PROVE  UNCHANGED <<servers, request, reader>> /\ phase' \in {"running", "out_of_range"}
    <2>1. phase \in {"running", "out_of_range"} /\ reader \in {"parsed", "closed"}
      BY <1>2 DEF Followed
    <2>2. reader # "idle" /\ reader # "reading" /\ reader # "parsing"
      BY <2>1
    <2>3. ~Connect /\ ~Receive /\ ~Parse
      BY <2>2 DEF Connect, Receive, ReadHeader, Parse, ParseRequest
    <2>4. /\ phase # "cli" /\ phase # "structure check" /\ phase # "open" /\ phase # "scan"
          /\ phase # "check" /\ phase # "http" /\ phase # "servers" /\ phase # "warnings"
          /\ phase # "start"
      BY <2>1
    <2>5. UNCHANGED vars
      BY <2>3, <2>4 DEF Next, ParseAndGetCli, CheckStructure, OpenFile, Scan, CheckFile,
           FillHttpData, FillServerData, SetWarnings, Start, Done
    <2> QED
      BY <2>1, <2>5 DEF vars, site_vars, header_vars
  <1> QED
    BY <1>1, <1>2

\* Where a redirection leads if no page for 301 makes it.
LEMMA SentTo ==
    ASSUME Linked, NEW location, location \subseteq DOMAIN This.dir_configs,
           NEW to \in RedirectTo(location)
    PROVE  /\ to.slash = TRUE
           /\ \E p \in location : /\ to.segs \in This.dir_configs[p].redirect
                                  /\ to.segs \in DOMAIN This.dir_configs
  <1> DEFINE of(l) == IF l.redirect # {}
                      THEN {[NoPath EXCEPT !.segs = r, !.slash = TRUE] : r \in l.redirect}
                      ELSE {[NoPath EXCEPT !.segs = Names(l.error_page[c])] :
                               c \in {301} \cap DOMAIN l.error_page}
  <1>1. PICK p \in location : to \in of(This.dir_configs[p])
    BY DEF RedirectTo
  <1> DEFINE l == This.dir_configs[p]
  <1>2. 301 \notin DOMAIN l.error_page /\ l.redirect \subseteq DOMAIN This.dir_configs
    BY DEF Linked
  <1>3. PICK r \in l.redirect : to = [NoPath EXCEPT !.segs = r, !.slash = TRUE]
    <2>1. {301} \cap DOMAIN l.error_page = {}
      BY <1>2
    <2>2. l.redirect # {}
      BY <1>1, <2>1
    <2>3. of(l) = {[NoPath EXCEPT !.segs = r, !.slash = TRUE] : r \in l.redirect}
      BY <2>2
    <2> HIDE DEF of
    <2>4. to \in {[NoPath EXCEPT !.segs = r, !.slash = TRUE] : r \in l.redirect}
      BY <1>1, <2>3
    <2> QED
      BY <2>4, Zenon
  <1>4. to.slash = TRUE /\ to.segs = r
    BY <1>3 DEF NoPath
  <1> QED
    BY <1>2, <1>3, <1>4

LEMMA ArchitectFollowed ==
    ASSUME Filled, Followed, ArchitectResponse
    PROVE  Followed'
  <1> DEFINE location == DirConfigs(request.path)
  <1>1. /\ phase = "running" /\ reader = "parsed" /\ response.status = "none"
        /\ response'.status = Status(location)
        /\ response'.redirect_to = IF Status(location) = "301"
                                   THEN CHOOSE r \in RedirectTo(location) : TRUE ELSE NoPath
        /\ UNCHANGED <<hops, phase, servers, request, reader>>
    BY DEF ArchitectResponse, header_vars
  <1>2. location \subseteq DOMAIN This.dir_configs
    BY DEF DirConfigs
  <1>3. Status(location) = "301" => RedirectTo(location) # {}
    BY DEF Status
  <1> HIDE DEF location
  <1>4. Linked /\ hops > 0 => request.path.slash = TRUE /\ WalkTo(hops, request.path.segs)
    BY <1>1 DEF Followed
  <1>5. hops \in Nat
    BY DEF Followed
  <1>6. ASSUME Linked, response'.status = "301"
        PROVE  /\ response'.redirect_to.slash = TRUE
               /\ WalkTo(hops + 1, response'.redirect_to.segs)
    <2> DEFINE to == response'.redirect_to
    <2>1. to \in RedirectTo(location)
      BY <1>1, <1>3, <1>6
    <2> HIDE DEF to
    <2>2. PICK p \in location : /\ to.segs \in This.dir_configs[p].redirect
                                /\ to.segs \in DOMAIN This.dir_configs
      BY <1>2, <1>6, <2>1, SentTo
    <2>3. to.slash = TRUE
      BY <1>2, <1>6, <2>1, SentTo
    <2>4. WalkTo(hops, p)
      <3>1. CASE hops = 0
        BY <1>2, <3>1, WalkStart
      <3>2. CASE hops > 0
        <4>1. request.path.slash = TRUE /\ WalkTo(hops, request.path.segs)
          BY <1>4, <1>6, <3>2
        <4>2. request.path.segs \in DOMAIN This.dir_configs
          <5>1. PICK w \in [0..hops -> DOMAIN This.dir_configs] : w[hops] = request.path.segs
            BY <4>1 DEF WalkTo
          <5>2. hops \in 0..hops
            BY <1>5
          <5> QED
            BY <5>1, <5>2
        <4>3. IsSeq(request.path.segs)
          <5>1. Len(servers) > 0
            BY <1>1 DEF Filled
          <5>2. 1 \in DOMAIN servers
            <6>1. Len(servers) \in Nat /\ DOMAIN servers = 1..Len(servers)
              BY SeqDomain DEF Filled
            <6> QED
              BY <5>1, <6>1
          <5> QED
            BY <4>2, <5>2 DEF Filled, IsServer, This
        <4>4. location = {request.path.segs}
          BY <4>1, <4>2, <4>3, LeadsToName DEF location
        <4> QED
          BY <4>1, <4>4
      <3> QED
        BY <1>5, <3>1, <3>2
    <2>5. WalkTo(hops + 1, to.segs)
      BY <1>5, <2>2, <2>4, WalkOn
    <2> QED
      BY <2>3, <2>5 DEF to
  <1>7. Linked' => Linked
    BY <1>1, WalkSame
  <1>8. Has("connection")' <=> Has("connection")
    BY <1>1 DEF Has
  <1>9. hops' > 0 /\ Linked' => request'.path.slash = TRUE /\ WalkTo(hops, request.path.segs)'
    BY <1>1, <1>4, <1>7, WalkSame
  <1>10. response'.status = "301" /\ Linked' =>
            response'.redirect_to.slash = TRUE /\ WalkTo(hops + 1, response.redirect_to.segs)'
    BY <1>1, <1>6, <1>7 DEF WalkTo, This
  <1> QED
    BY <1>1, <1>5, <1>8, <1>9, <1>10 DEF Followed

LEMMA SettleFollowed ==
    ASSUME Followed, Settle
    PROVE  Followed'
  <1>1. /\ phase = "running" /\ reader = "parsed" /\ Answered
        /\ UNCHANGED <<hops, phase, servers>>
    BY DEF Settle
  <1>2. CASE Keepable /\ response' = NoResponse
    <2>1. Has("connection")
      BY <1>2 DEF Keepable
    <2>2. hops = 0
      BY <2>1 DEF Followed
    <2>3. response'.status = "none"
      BY <1>2 DEF NoResponse
    <2> QED
      BY <1>1, <2>2, <2>3 DEF Followed
  <1>3. CASE reader' = "closed" /\ UNCHANGED <<request, response>>
    <2>1. response'.status # "none" /\ response'.status # "301"
      BY <1>1, <1>3 DEF Answered
    <2>2. Has("connection")' <=> Has("connection")
      BY <1>3 DEF Has
    <2> QED
      BY <1>1, <1>3, <2>1, <2>2 DEF Followed
  <1> QED
    BY <1>2, <1>3 DEF Settle

LEMMA FollowFollowed ==
    ASSUME Followed, Follow
    PROVE  Followed'
  <1>1. /\ phase = "running" /\ response.status = "301" /\ hops' = hops + 1
        /\ response' = NoResponse /\ UNCHANGED <<phase, servers, reader>>
        /\ request' = [NoRequest EXCEPT !.method = "GET", !.http_version = "HTTP/1.1",
                                        !.path = response.redirect_to]
    BY DEF Follow
  <1>2. request'.path = response.redirect_to /\ request'.request_map = << >>
    BY <1>1 DEF NoRequest
  <1>3. ~Has("connection")'
    BY <1>2, EmptyIsSeq DEF Has
  <1>4. response'.status = "none"
    BY <1>1 DEF NoResponse
  <1>5. hops \in Nat /\ reader \in {"parsed", "closed"}
    BY <1>1 DEF Followed
  <1>6. Linked => response.redirect_to.slash = TRUE /\ WalkTo(hops + 1, response.redirect_to.segs)
    BY <1>1 DEF Followed
  <1>7. Linked' => request'.path.slash = TRUE /\ WalkTo(hops, request.path.segs)'
    BY <1>1, <1>2, <1>6 DEF Linked, WalkTo, This
  <1> QED
    BY <1>1, <1>3, <1>4, <1>5, <1>7 DEF Followed

LEMMA FollowedKept ==
    ASSUME Filled, Followed, [Next]_vars
    PROVE  Followed'
  <1>1. CASE ArchitectResponse
    BY <1>1, ArchitectFollowed
  <1>2. CASE Settle
    BY <1>2, SettleFollowed
  <1>3. CASE Follow
    BY <1>3, FollowFollowed
  <1>4. CASE ~ArchitectResponse /\ ~Settle /\ ~Follow
    <2>1. UNCHANGED <<hops, response>> /\ hops \in Nat
      BY <1>4, OtherSteps DEF Followed
    <2>2. CASE hops > 0 \/ response.status # "none"
      <3>1. UNCHANGED <<servers, request, reader>> /\ phase' \in {"running", "out_of_range"}
        BY <1>4, <2>2, OtherSteps
      <3>2. UNCHANGED Has("connection") /\ UNCHANGED Linked
            /\ UNCHANGED WalkTo(hops, request.path.segs)
            /\ UNCHANGED WalkTo(hops + 1, response.redirect_to.segs)
        BY <2>1, <3>1 DEF Has, Linked, WalkTo, This
      <3> QED
        BY <2>1, <3>1, <3>2 DEF Followed
    <2>3. CASE hops = 0 /\ response.status = "none"
      BY <2>1, <2>3 DEF Followed
    <2> QED
      BY <2>1, <2>2, <2>3
  <1> QED
    BY <1>1, <1>2, <1>3, <1>4

-----------------------------------------------------------------------------
(* Theorems                                                                *)

LEMMA NextInv ==
    ASSUME SiteInv, [Next]_vars
    PROVE  SiteInv'
  <1>1. Nodes'
    BY NodesKept DEF SiteInv
  <1>2. Filled' /\ WarnedOrFine'
    BY FilledKept DEF SiteInv
  <1>3. AsAsked'
    BY AsAskedKept DEF SiteInv
  <1>4. Followed'
    BY FollowedKept DEF SiteInv
  <1> QED
    BY <1>1, <1>2, <1>3, <1>4 DEF SiteInv

\* The inductive invariant: what is filled and warned of is so whatever the
\* file, the command line and the header are (main, Webserver::run), and a
\* client that is sent on has walked along redirections of the first server.
THEOREM SiteInvariant == Spec => []SiteInv
  <1>1. Init => SiteInv
    BY InitInv
  <1>2. SiteInv /\ [Next]_vars => SiteInv'
    BY NextInv
  <1> QED
    BY <1>1, <1>2, PTL DEF Spec

LEMMA AllFine ==
    ASSUME SiteInv, phase = "running", ~is_warning_set
    PROVE  \A k \in DOMAIN servers : IsServer(servers[k]) /\ Fine(k)
  BY DEF SiteInv, Filled, WarnedOrFine

LEMMA FineIsUncircled ==
    ASSUME NEW k, IsServer(servers[k]), Fine(k)
    PROVE  ~Circle(servers[k])
  <1>1. IsFiniteSet(DOMAIN servers[k].dir_configs)
    BY DEF IsServer
  <1>2. \A p \in DOMAIN servers[k].dir_configs : ~IsThereACycle(servers[k].dir_configs, p)
    BY DEF Fine
  <1> DEFINE s == servers[k]
  <1> HIDE DEF s
  <1>3. IsFiniteSet(DOMAIN s.dir_configs) /\ \A p \in DOMAIN s.dir_configs : ~IsThereACycle(s.dir_configs, p)
    BY <1>1, <1>2 DEF s
  <1>4. ~Circle(s)
    BY <1>3, CircleFound
  <1> QED
    BY <1>4 DEF s

LEMMA StrictFollows == SiteInv => StrictNeverWarned
  <1> SUFFICES ASSUME SiteInv, phase = "running",
                      "--activate-strict_mode" \in ToSet(Tail(input.args))
               PROVE  /\ \A k, n \in DOMAIN servers :
                            k # n => servers[k].conf.server_name # servers[n].conf.server_name
                      /\ \A k \in DOMAIN servers :
                            /\ servers[k].conf.server_name # ""
                            /\ ~Circle(servers[k])
                            /\ ~TraceAllowed(servers[k])
    BY DEF StrictNeverWarned
  <1>1. ~is_warning_set
    BY DEF SiteInv, AsAsked
  <1>2. \A k \in DOMAIN servers : IsServer(servers[k]) /\ Fine(k)
    BY <1>1, AllFine
  <1>3. Len(servers) \in Nat /\ DOMAIN servers = 1..Len(servers)
    BY SeqDomain DEF SiteInv, Filled
  <1>4. ASSUME NEW k \in DOMAIN servers, NEW n \in DOMAIN servers, k < n
        PROVE  servers[k].conf.server_name # servers[n].conf.server_name
    <2>1. servers[n].conf.server_name \notin NamesBefore(n)
      BY <1>2 DEF Fine
    <2>2. k \in 1..n - 1
      BY <1>3, <1>4
    <2> QED
      BY <2>1, <2>2 DEF NamesBefore
  <1>5. \A k, n \in DOMAIN servers : k # n => k < n \/ n < k
    BY <1>3
  <1>6. \A k \in DOMAIN servers : servers[k].conf.server_name # "" /\ ~TraceAllowed(servers[k])
    BY <1>2 DEF Fine
  <1>7. \A k \in DOMAIN servers : ~Circle(servers[k])
    BY <1>2, FineIsUncircled
  <1> QED
    BY <1>4, <1>5, <1>6, <1>7

\* In strict mode the loop is only entered when every server has a name of its
\* own, no locations redirect in a circle and TRACE is nowhere allowed
\* (set_all_warnings, is_there_a_cycle and the test of is_warning_set in run).
THEOREM StrictStart == Spec => []StrictNeverWarned
  BY SiteInvariant, StrictFollows, PTL

LEMMA EndlessFollows == SiteInv => EndlessRedirectWarned
  <1> DEFINE l == This.dir_configs
  <1> SUFFICES ASSUME SiteInv, phase = "running", response.status = "301",
                      hops > Cardinality(DOMAIN l), Linked, ~is_warning_set
               PROVE  FALSE
    BY DEF EndlessRedirectWarned, Linked
  <1>1. WalkTo(hops + 1, response.redirect_to.segs) /\ hops \in Nat
    BY DEF SiteInv, Followed
  <1>2. 1 \in DOMAIN servers
    <2>1. Len(servers) \in Nat /\ DOMAIN servers = 1..Len(servers)
      BY SeqDomain DEF SiteInv, Filled
    <2>2. Len(servers) > 0
      BY DEF SiteInv, Filled
    <2> QED
      BY <2>1, <2>2
  <1>3. IsServer(This) /\ Fine(1)
    BY <1>2, AllFine DEF This
  <1>4. IsFiniteSet(DOMAIN l) /\ \A p \in DOMAIN l : ~IsThereACycle(l, p)
    BY <1>3 DEF IsServer, Fine, This
  <1>5. PICK w \in [0..hops + 1 -> DOMAIN l] : \A n \in 0..(hops + 1) - 1 : w[n + 1] \in l[w[n]].redirect
    BY <1>1 DEF WalkTo
  <1>6. hops + 1 \in Nat /\ hops + 1 > Cardinality(DOMAIN l)
    <2>1. Cardinality(DOMAIN l) \in Nat
      BY <1>4, FS_CardinalityType
    <2> QED
      BY <1>1, <2>1
  <1> HIDE DEF l
  <1>7. w[0] \in DOMAIN l /\ IsThereACycle(l, w[0])
    BY <1>4, <1>5, <1>6, WalkFound
  <1> QED
    BY <1>4, <1>7

\* Whatever locations a file has and however they redirect, a client that has
\* been sent on more often than there are locations was warned of when the
\* program started (is_there_a_cycle, handle_301).
THEOREM EndlessIsWarned == Spec => []EndlessRedirectWarned
  BY SiteInvariant, EndlessFollows, PTL

-----------------------------------------------------------------------------
(* The words of a file: lines of words, none of them empty                 *)

\* The provers do not know that a word they are shown is a string.
Text == STRING \cup {"", "http", "server", "location", "{", "}"}

Line  == Seq(Text) \ {<< >>}

Lines == Seq(Line)

LEMMA FunctionIsSeq ==
    ASSUME NEW X, NEW m \in Nat, NEW s \in [1..m -> X]
    PROVE  s \in Seq(X) /\ Len(s) = m /\ DOMAIN s = 1..m
  OBVIOUS

\* The sequences of S one behind the other are a sequence of S.
FlatIs(f, ss, m) ==
    f = [n \in 1..m |-> IF n = 1 THEN ss[n] ELSE f[n - 1] \o ss[n]]

LEMMA FlatExists ==
    ASSUME NEW ss, NEW m \in Nat
    PROVE  \E f : FlatIs(f, ss, m)
  <1> DEFINE S == {n \in Nat : \E f : FlatIs(f, ss, n)}
  <1>1. 0 \in S
    <2> DEFINE f == [n \in 1..0 |-> << >>]
    <2>1. FlatIs(f, ss, 0)
      BY DEF FlatIs
    <2> QED
      BY <2>1
  <1>2. ASSUME NEW n \in Nat, n \in S PROVE n + 1 \in S
    <2>1. PICK f : FlatIs(f, ss, n)
      BY <1>2
    <2> DEFINE g == [k \in 1..n + 1 |-> IF k <= n THEN f[k]
                                        ELSE IF k = 1 THEN ss[k] ELSE f[n] \o ss[k]]
    <2>2. \A k \in 1..n : f[k] = IF k = 1 THEN ss[k] ELSE f[k - 1] \o ss[k]
      BY <2>1 DEF FlatIs
    <2>3. ASSUME NEW k \in 1..n + 1
          PROVE  g[k] = IF k = 1 THEN ss[k] ELSE g[k - 1] \o ss[k]
      <3>1. CASE k \in 1..n
        <4>1. g[k] = f[k] /\ (k # 1 => k - 1 \in 1..n /\ g[k - 1] = f[k - 1])
          BY <3>1
        <4> HIDE DEF g
        <4> QED
          BY <2>2, <3>1, <4>1
      <3>2. CASE k = n + 1
        <4>1. g[k] = IF k = 1 THEN ss[k] ELSE f[n] \o ss[k]
          BY <3>2
        <4>2. k # 1 => k - 1 = n /\ g[k - 1] = f[n]
          BY <3>2
        <4> HIDE DEF g
        <4> QED
          BY <4>1, <4>2
      <3> QED
        BY <3>1, <3>2
    <2>4. g = [k \in 1..n + 1 |-> g[k]]
      OBVIOUS
    <2> HIDE DEF g
    <2>5. FlatIs(g, ss, n + 1)
      BY <2>3, <2>4 DEF FlatIs
    <2> QED
      BY <2>5
  <1> HIDE DEF S
  <1>3. Nat \subseteq S
    BY <1>1, <1>2, Induction
  <1> QED
    BY <1>3 DEF S

LEMMA FlattenIs ==
    ASSUME NEW ss, Len(ss) \in Nat \ {0}
    PROVE  \E f : FlatIs(f, ss, Len(ss)) /\ FlattenSeq(ss) = f[Len(ss)]
  <1> DEFINE flatten[n \in 1..Len(ss)] == IF n = 1 THEN ss[n] ELSE flatten[n - 1] \o ss[n]
  <1>1. FlattenSeq(ss) = flatten[Len(ss)]
    BY DEF FlattenSeq
  <1>2. flatten = CHOOSE f : FlatIs(f, ss, Len(ss))
    BY DEF FlatIs
  <1> HIDE DEF flatten
  <1>3. FlatIs(flatten, ss, Len(ss))
    BY <1>2, FlatExists
  <1> QED
    BY <1>1, <1>3

LEMMA FlattenType ==
    ASSUME NEW S, NEW ss \in Seq(Seq(S))
    PROVE  FlattenSeq(ss) \in Seq(S)
  <1>1. CASE Len(ss) = 0
    <2>1. ss = << >>
      BY <1>1
    <2>2. FlattenSeq(ss) = ss
      BY <1>1 DEF FlattenSeq
    <2>3. << >> \in Seq(S)
      OBVIOUS
    <2> QED
      BY <2>1, <2>2, <2>3
  <1>2. CASE Len(ss) # 0
    <2> DEFINE m == Len(ss)
    <2>1. m \in Nat \ {0} /\ \A n \in 1..m : ss[n] \in Seq(S)
      BY <1>2
    <2>2. PICK f : FlatIs(f, ss, m) /\ FlattenSeq(ss) = f[m]
      BY <2>1, FlattenIs
    <2> HIDE DEF m
    <2>3. \A n \in 1..m : f[n] = IF n = 1 THEN ss[n] ELSE f[n - 1] \o ss[n]
      BY <2>2 DEF FlatIs
    <2> DEFINE T == {n \in Nat : n \in 1..m => f[n] \in Seq(S)}
    <2>4. 0 \in T
      OBVIOUS
    <2>5. ASSUME NEW n \in Nat, n \in T PROVE n + 1 \in T
      <3>1. SUFFICES ASSUME n + 1 \in 1..m PROVE f[n + 1] \in Seq(S)
        OBVIOUS
      <3>2. ss[n + 1] \in Seq(S)
        BY <2>1, <3>1
      <3>3. CASE n = 0
        <4>1. 1 \in 1..m
          BY <2>1
        <4>2. f[1] = ss[1]
          BY <2>3, <4>1
        <4> QED
          BY <3>2, <3>3, <4>2
      <3>4. CASE n # 0
        <4> DEFINE k == n + 1
        <4>1. k \in 1..m /\ k # 1 /\ k - 1 = n /\ n \in 1..m
          BY <2>1, <3>1, <3>4
        <4>2. f[n] \in Seq(S) /\ ss[k] \in Seq(S)
          BY <2>5, <3>2, <4>1
        <4> HIDE DEF k
        <4>3. f[k] = f[n] \o ss[k]
          BY <2>3, <4>1
        <4>4. f[n] \o ss[k] \in Seq(S)
          BY <4>2
        <4> QED
          BY <4>3, <4>4 DEF k
      <3> QED
        BY <3>3, <3>4
    <2> HIDE DEF T
    <2>6. m \in T
      BY <2>1, <2>4, <2>5, Induction
    <2> QED
      BY <2>1, <2>2, <2>6 DEF T
  <1> QED
    BY <1>1, <1>2

\* The greatest and the least of the positions that are looked for.
LEMMA MinOf ==
    ASSUME NEW T, T \subseteq Nat, T # {}
    PROVE  Min(T) \in T /\ \A y \in T : Min(T) <= y
  <1>1. \E x \in T : \A y \in T : x <= y
    BY LeastNatural
  <1> QED
    BY <1>1 DEF Min

LEMMA LineIs ==
    ASSUME NEW l \in Line
    PROVE  l \in Seq(Text) /\ Len(l) \in Nat \ {0} /\ DOMAIN l = 1..Len(l)
  BY DEF Line

LEMMA LinesAre ==
    ASSUME NEW ls \in Lines
    PROVE  /\ ls \in Seq(Line) /\ Len(ls) \in Nat /\ DOMAIN ls = 1..Len(ls)
           /\ \A n \in 1..Len(ls) : ls[n] \in Line
  BY DEF Lines

LEMMA DirectivesAre == Directives \subseteq Lines
  <1>1. Seq(STRING) \subseteq Seq(Text)
    BY SeqMonotonic DEF Text
  <1>2. Seq(STRING) \ {<< >>} \subseteq Line
    BY <1>1 DEF Line
  <1> DEFINE given == Seq(STRING) \ {<< >>}
  <1> HIDE DEF given
  <1>3. given \subseteq Line
    BY <1>2 DEF given
  <1>4. Seq(given) \subseteq Seq(Line)
    BY <1>3, SeqMonotonic
  <1> QED
    BY <1>4 DEF Directives, Lines, given

\* get_word_vector and extract_words.
LEMMA GetWordVectorType ==
    ASSUME NEW l \in Seq(Text)
    PROVE  GetWordVector(l) \in Seq(Text)
  <1> DEFINE I == {n \in 1..Len(l) : l[n] = "#"}
             c == IF I # {} THEN Min(I) ELSE 0
  <1>1. GetWordVector(l) = IF c = 0 THEN l ELSE SubSeq(l, 1, c - 1)
    BY DEF GetWordVector, SelectInSeq
  <1>2. I # {} => Min(I) \in I
    <2>1. I \subseteq Nat
      OBVIOUS
    <2> HIDE DEF I
    <2> QED
      BY <2>1, MinOf
  <1>3. c \in 0..Len(l)
    BY <1>2
  <1> HIDE DEF c
  <1>4. c # 0 => SubSeq(l, 1, c - 1) \in Seq(Text)
    BY <1>3
  <1> QED
    BY <1>1, <1>4

LEMMA ExtractWordsType ==
    ASSUME NEW lines_of_file \in Seq(Seq(Text))
    PROVE  ExtractWords(lines_of_file) \in Lines
  <1> DEFINE ls == lines_of_file
             g(k) == GetWordVector(ls[k])
             ss == [k \in DOMAIN ls |-> IF g(k) = << >> THEN << >> ELSE <<g(k)>>]
  <1>1. DOMAIN ls = 1..Len(ls) /\ Len(ls) \in Nat /\ \A k \in 1..Len(ls) : ls[k] \in Seq(Text)
    OBVIOUS
  <1>2. ASSUME NEW k \in 1..Len(ls) PROVE ss[k] \in Seq(Line)
    <2>1. g(k) \in Seq(Text)
      BY <1>1, GetWordVectorType
    <2>2. << >> \in Seq(Line) /\ (g(k) # << >> => <<g(k)>> \in Seq(Line))
      BY <2>1 DEF Line
    <2>3. ss[k] = IF g(k) = << >> THEN << >> ELSE <<g(k)>>
      BY <1>1
    <2> HIDE DEF ss, g
    <2> QED
      BY <2>2, <2>3
  <1>3. ss = [k \in 1..Len(ls) |-> ss[k]]
    BY <1>1
  <1>4. ExtractWords(ls) = FlattenSeq(ss)
    BY DEF ExtractWords
  <1> HIDE DEF ss
  <1>5. ss \in [1..Len(ls) -> Seq(Line)]
    BY <1>2, <1>3
  <1>6. ss \in Seq(Seq(Line))
    BY <1>1, <1>5, FunctionIsSeq
  <1>7. FlattenSeq(ss) \in Seq(Line)
    BY <1>6, FlattenType
  <1> QED
    BY <1>4, <1>7 DEF Lines, Line

LEMMA ConcatIs ==
    ASSUME NEW S, NEW a \in Seq(S), NEW b \in Seq(S)
    PROVE  /\ a \o b \in Seq(S) /\ Len(a \o b) = Len(a) + Len(b)
           /\ \A m \in 1..Len(a) : m \in 1..Len(a) + Len(b) /\ (a \o b)[m] = a[m]
           /\ \A m \in 1..Len(b) : Len(a) + m \in 1..Len(a) + Len(b) /\ (a \o b)[Len(a) + m] = b[m]
  OBVIOUS

\* The locations of a server, as they are written.
LocationsText == Seq([name : STRING, lines : Directives])

LEMMA LocationLines ==
    ASSUME NEW L \in LocationsText, NEW n \in 1..Len(L)
    PROVE  LET s == <<<<"location", L[n].name>>>> \o L[n].lines IN
           /\ L[n].lines \in Lines /\ s \in Seq(Line) /\ Len(s) = 1 + Len(L[n].lines)
           /\ s[1] = <<"location", L[n].name>>
           /\ \A m \in 1..Len(L[n].lines) : s[1 + m] = L[n].lines[m]
  <1>1. L[n].lines \in Directives /\ L[n].name \in STRING
    <2>1. L[n] \in [name : STRING, lines : Directives]
      <3> DEFINE T == [name : STRING, lines : Directives]
      <3>1. L \in Seq(T)
        BY DEF LocationsText
      <3> HIDE DEF T
      <3>2. L[n] \in T
        BY <3>1
      <3> QED
        BY <3>2 DEF T
    <2> QED
      BY <2>1
  <1>2. L[n].lines \in Lines
    BY <1>1, DirectivesAre
  <1> DEFINE h == <<"location", L[n].name>>
  <1>3. h \in Line
    <2>1. "location" \in Text /\ L[n].name \in Text
      BY <1>1 DEF Text
    <2>2. h \in Seq(Text) /\ h # << >>
      BY <2>1
    <2> HIDE DEF h
    <2> QED
      BY <2>2 DEF Line
  <1> HIDE DEF h
  <1>4. <<h>> \in Seq(Line) /\ Len(<<h>>) = 1 /\ <<h>>[1] = h
    BY <1>3
  <1>5. L[n].lines \in Seq(Line)
    BY <1>2 DEF Lines
  <1>6. PICK a \in Seq(Line) : a = <<h>>
    BY <1>4
  <1>7. PICK b \in Seq(Line) : b = L[n].lines
    BY <1>5
  <1>8. /\ a \o b \in Seq(Line) /\ Len(a \o b) = Len(a) + Len(b)
        /\ \A m \in 1..Len(a) : m \in 1..Len(a) + Len(b) /\ (a \o b)[m] = a[m]
        /\ \A m \in 1..Len(b) : Len(a) + m \in 1..Len(a) + Len(b) /\ (a \o b)[Len(a) + m] = b[m]
    BY ConcatIs
  <1>9. Len(a) = 1 /\ a[1] = h /\ 1 \in 1..Len(a)
    BY <1>4, <1>6
  <1>10. /\ a \o b \in Seq(Line) /\ Len(a \o b) = 1 + Len(b) /\ (a \o b)[1] = h
         /\ \A m \in 1..Len(b) : (a \o b)[1 + m] = b[m]
    BY <1>8, <1>9
  <1>11. a \o b = <<<<"location", L[n].name>>>> \o L[n].lines
    BY <1>6, <1>7 DEF h
  <1> QED
    BY <1>2, <1>7, <1>10, <1>11 DEF h

LEMMA LeastIs ==
    ASSUME NEW T, T \subseteq Nat, NEW x \in T, \A y \in T : x <= y
    PROVE  Min(T) = x
  <1>1. Min(T) \in T /\ \A y \in T : Min(T) <= y
    BY MinOf
  <1>2. Min(T) <= x /\ x <= Min(T) /\ x \in Nat /\ Min(T) \in Nat
    BY <1>1
  <1> QED
    BY <1>2

-----------------------------------------------------------------------------
(* How a plain file is laid out                                            *)

\* What is known of a line of it, by the places before and behind it.
Before(r) == input.places[r]
Site(n) == NodeOf(input.sites[n])

Whole(p) == p.words = Len(Site(p.sites).words) /\ p.blocks = Len(Site(p.sites).location_blocks)
Over(p)  == p.http = Len(input.http) /\ p.sites = Len(input.sites)

\* q is behind brackets that close p's blocks.
Leaves(p, q) ==
    /\ ~p.head /\ ~q.head /\ q.http = p.http /\ q.sites = p.sites /\ q.depth <= p.depth
    /\ q.depth < 2 /\ p.depth >= 2 => Whole(q)
    /\ q.depth = 0 => Over(q)

\* The names of blocks; literals of words are too much for the provers' arithmetic.
OpenLine == <<"{">>
HttpName == <<"http">>
ServerName == <<"server">>

Bracket(p, q, l) ==
    /\ p.head /\ l = OpenLine /\ q.depth = p.depth + 1 /\ ~q.head
    /\ q.http = p.http /\ q.sites = p.sites /\ q.words = p.words /\ q.blocks = p.blocks

Opening(p, q, head, l) ==
    /\ ~p.head
    /\ \/ l = head /\ q.head /\ q.depth = p.depth
       \/ l = Append(head, "{") /\ ~q.head /\ q.depth = p.depth + 1

HttpHead(p, q, l) ==
    /\ p.depth = 0 /\ p.sites = 0 /\ Opening(p, q, HttpName, l)
    /\ q.http = 0 /\ q.sites = 0

HttpDirective(p, q, l) ==
    /\ ~p.head /\ ~q.head /\ p.depth = 1 /\ q.depth = 1 /\ p.http < Len(input.http)
    /\ l = input.http[p.http + 1] /\ q.http = p.http + 1 /\ q.sites = p.sites

ServerHead(p, q, l) ==
    /\ p.depth = 1 /\ Opening(p, q, ServerName, l)
    /\ q.http = p.http /\ q.sites = p.sites + 1 /\ q.words = 0 /\ q.blocks = 0

ServerDirective(p, q, l) ==
    /\ p.depth = 2 /\ p.words < Len(Site(p.sites).words) /\ Leaves(p, q)
    /\ l = Site(p.sites).words[p.words + 1] \o Closing(p.depth - q.depth)
    /\ q.words = p.words + 1 /\ q.blocks = p.blocks

LocationHead(p, q, l) ==
    /\ p.depth = 2 /\ p.blocks < Len(Site(p.sites).location_blocks)
    /\ Site(p.sites).location_blocks[p.blocks + 1][1] = "location"
    /\ Opening(p, q, Site(p.sites).location_blocks[p.blocks + 1], l)
    /\ q.http = p.http /\ q.sites = p.sites /\ q.words = p.words /\ q.blocks = p.blocks + 1

LocationDirective(p, q, l) ==
    /\ p.depth = 3 /\ p.blocks < Len(Site(p.sites).location_blocks) /\ Leaves(p, q)
    /\ l = Site(p.sites).location_blocks[p.blocks + 1] \o Closing(p.depth - q.depth)
    /\ q.words = p.words /\ q.blocks = p.blocks + 1

ClosingLine(p, q, l) ==
    /\ q.depth < p.depth /\ l = Closing(p.depth - q.depth) /\ Leaves(p, q)
    /\ q.words = p.words /\ q.blocks = p.blocks

IsPlace(p) ==
    /\ p.depth \in 0..3 /\ p.head \in BOOLEAN /\ p.http \in 0..Len(input.http)
    /\ p.sites \in 0..Len(input.sites) /\ p.words \in Nat /\ p.blocks \in Nat

LineKind(p, q, l) ==
    \/ Bracket(p, q, l) \/ HttpHead(p, q, l) \/ HttpDirective(p, q, l) \/ ServerHead(p, q, l)
    \/ ServerDirective(p, q, l) \/ LocationHead(p, q, l) \/ LocationDirective(p, q, l)
    \/ ClosingLine(p, q, l)

\* Words that are no brackets.
PlainLine == {l \in Line : \A c \in 1..Len(l) : ~IsBracket(l[c])}

\* What an input that is plain has.
Plain ==
    /\ input \in Inputs /\ input.plain /\ words = ExtractWords(input.lines)

LEMMA BlockShape ==
    ASSUME NEW inp \in Inputs
    PROVE  /\ inp.http \in Lines /\ Len(inp.sites) \in Nat /\ DOMAIN inp.sites = 1..Len(inp.sites)
           /\ \A n \in 1..Len(inp.sites) :
                 /\ inp.sites[n].words \in Lines
                 /\ inp.sites[n].locations \in LocationsText
  <1> DEFINE T == [words : Directives, locations : LocationsText]
  <1>1. inp.http \in Directives /\ inp.sites \in Seq(T)
    BY MeantAssumption DEF LocationsText
  <1>2. ASSUME NEW n \in 1..Len(inp.sites)
        PROVE  inp.sites[n].words \in Lines /\ inp.sites[n].locations \in LocationsText
    <2> HIDE DEF T
    <2>1. PICK t \in T : t = inp.sites[n]
      BY <1>1
    <2> QED
      BY <2>1, DirectivesAre DEF T
  <1> HIDE DEF T
  <1> QED
    BY <1>1, <1>2, DirectivesAre

LEMMA SitesArePlain ==
    ASSUME input \in Inputs, input.plain, NEW n \in 1..Len(input.sites)
    PROVE  /\ Site(n) = [id |-> "server", words |-> Site(n).words,
                         location_blocks |-> Site(n).location_blocks]
           /\ Site(n).words \in Seq(PlainLine) /\ Len(Site(n).words) \in Nat \ {0}
           /\ Site(n).location_blocks \in Seq(PlainLine)
           /\ \A m \in 1..Len(Site(n).words) : \A c \in 1..Len(Site(n).words[m]) :
                 Site(n).words[m][c] # "location"
  <1> DEFINE s == input.sites[n]
             L == s.locations
             piece(m) == <<<<"location", L[m].name>>>> \o L[m].lines
             ss == [m \in DOMAIN L |-> piece(m)]
  <1>1. /\ Site(n).id = "server" /\ Site(n).words = s.words
        /\ Site(n).location_blocks = FlattenSeq(ss)
        /\ Site(n) = [id |-> "server", words |-> Site(n).words,
                      location_blocks |-> Site(n).location_blocks]
    BY DEF Site, NodeOf
  <1>2. /\ s.words \in Lines /\ L \in LocationsText /\ s.words # << >>
        /\ \A l \in ToSet(s.words) : ToSet(l) \cap {"{", "}", "location"} = {}
        /\ \A m \in DOMAIN L :
              /\ L[m].name \notin {"{", "}"}
              /\ \A l \in ToSet(L[m].lines) : ToSet(l) \cap {"{", "}"} = {}
    <2>1. InPlainWords(input)
      BY PlainAssumption
    <2>2. s \in ToSet(input.sites)
      BY BlockShape DEF ToSet
    <2> QED
      BY <2>1, <2>2, BlockShape DEF InPlainWords
  <1> HIDE DEF s
  <1>3. /\ Len(s.words) \in Nat \ {0}
        /\ \A m \in 1..Len(s.words) : s.words[m] \in Line
        /\ \A m \in 1..Len(s.words) : \A c \in 1..Len(s.words[m]) :
              s.words[m][c] \notin {"{", "}", "location"}
    <2>1. Len(s.words) \in Nat /\ DOMAIN s.words = 1..Len(s.words) /\ \A m \in 1..Len(s.words) : s.words[m] \in Line
      BY <1>2, LinesAre
    <2>2. Len(s.words) # 0
      <3>1. PICK t \in Seq(Line) : t = s.words
        BY <1>2 DEF Lines
      <3>2. Len(t) = 0 => t = << >>
        OBVIOUS
      <3> QED
        BY <1>2, <3>1, <3>2
    <2>3. ASSUME NEW m \in 1..Len(s.words), NEW c \in 1..Len(s.words[m])
          PROVE  s.words[m][c] \notin {"{", "}", "location"}
      <3>1. s.words[m] \in ToSet(s.words)
        BY <2>1 DEF ToSet
      <3>2. s.words[m][c] \in ToSet(s.words[m])
        BY <2>1, LineIs DEF ToSet
      <3> QED
        BY <1>2, <3>1, <3>2
    <2> QED
      BY <2>1, <2>2, <2>3
  <1>4. s.words \in Seq(PlainLine)
    <2>1. \A m \in 1..Len(s.words) : s.words[m] \in PlainLine
      BY <1>3 DEF PlainLine, IsBracket
    <2>2. s.words \in [1..Len(s.words) -> PlainLine]
      <3>0. PICK t \in Seq(Line) : t = s.words
        BY <1>2 DEF Lines
      <3>2. t = [m \in 1..Len(t) |-> t[m]]
        OBVIOUS
      <3>1. s.words = [m \in 1..Len(s.words) |-> s.words[m]]
        BY <3>0, <3>2
      <3> QED
        BY <2>1, <3>1
    <2> QED
      BY <1>3, <2>2, FunctionIsSeq
  <1>5. DOMAIN L = 1..Len(L) /\ Len(L) \in Nat
    <2> DEFINE T == [name : STRING, lines : Directives]
    <2>1. L \in Seq(T)
      BY <1>2 DEF LocationsText
    <2> HIDE DEF T, L
    <2> QED
      BY <2>1
  <1>6. ASSUME NEW m \in 1..Len(L)
        PROVE  ss[m] \in Seq(PlainLine)
    <2>1. PICK t : t = piece(m)
      OBVIOUS
    <2>2. /\ L[m].lines \in Lines /\ t \in Seq(Line) /\ Len(t) = 1 + Len(L[m].lines)
          /\ t[1] = <<"location", L[m].name>>
          /\ \A x \in 1..Len(L[m].lines) : t[1 + x] = L[m].lines[x]
      <3>1. PICK M \in LocationsText : M = L
        BY <1>2
      <3>2. m \in 1..Len(M) /\ t = <<<<"location", M[m].name>>>> \o M[m].lines
        BY <2>1, <3>1
      <3> HIDE DEF L, piece
      <3>3. /\ M[m].lines \in Lines /\ t \in Seq(Line) /\ Len(t) = 1 + Len(M[m].lines)
            /\ t[1] = <<"location", M[m].name>>
            /\ \A x \in 1..Len(M[m].lines) : t[1 + x] = M[m].lines[x]
        BY <3>2, LocationLines, Zenon
      <3> QED
        BY <3>1, <3>3, Zenon
    <2>3. t[1] \in PlainLine
      <3>0. PICK name : name = L[m].name
        OBVIOUS
      <3>3. name \notin {"{", "}"}
        BY <1>2, <1>5, <3>0
      <3>4. /\ Len(<<"location", name>>) = 2 /\ <<"location", name>>[1] = "location"
            /\ <<"location", name>>[2] = name
        OBVIOUS
      <3>5. \A c \in 1..2 : ~IsBracket(<<"location", name>>[c])
        <4>1. ASSUME NEW c \in 1..2 PROVE ~IsBracket(<<"location", name>>[c])
          <5>1. c = 1 \/ c = 2
            OBVIOUS
          <5>2. CASE c = 1
            BY <3>4, <5>2 DEF IsBracket
          <5>3. CASE c = 2
            BY <3>3, <3>4, <5>3 DEF IsBracket
          <5> QED
            BY <5>1, <5>2, <5>3
        <4> QED
          BY <4>1
      <3>1. Len(t[1]) = 2 /\ \A c \in 1..2 : ~IsBracket(t[1][c])
        BY <2>2, <3>0, <3>4, <3>5
      <3>2. t[1] \in Line
        <4>0. Len(L[m].lines) \in Nat
          BY <2>2, LinesAre
        <4>1. 1 \in 1..Len(t)
          BY <2>2, <4>0
        <4>2. t \in Seq(Line)
          BY <2>2
        <4> QED
          BY <4>1, <4>2
      <3> QED
        BY <2>2, <3>1, <3>2 DEF PlainLine
    <2>4. ASSUME NEW x \in 1..Len(L[m].lines) PROVE t[1 + x] \in PlainLine
      <3>1. /\ L[m].lines[x] \in Line /\ L[m].lines[x] \in ToSet(L[m].lines)
        BY <2>2, LinesAre DEF ToSet
      <3>2. ToSet(L[m].lines[x]) \cap {"{", "}"} = {}
        BY <1>2, <1>5, <3>1
      <3>3. \A c \in 1..Len(L[m].lines[x]) : L[m].lines[x][c] \in ToSet(L[m].lines[x])
        BY <3>1, LineIs DEF ToSet
      <3> QED
        BY <2>2, <3>1, <3>2, <3>3 DEF PlainLine, IsBracket
    <2>5. \A y \in 1..Len(t) : t[y] \in PlainLine
      <3>1. Len(L[m].lines) \in Nat
        BY <2>2, LinesAre
      <3>2. \A y \in 1..Len(t) : y = 1 \/ (y - 1 \in 1..Len(L[m].lines) /\ y = 1 + (y - 1))
        BY <2>2, <3>1
      <3> QED
        BY <2>3, <2>4, <3>2
    <2>6. t \in Seq(PlainLine)
      <3>1. t = [y \in 1..Len(t) |-> t[y]] /\ Len(t) \in Nat
        BY <2>2
      <3>2. t \in [1..Len(t) -> PlainLine]
        BY <2>5, <3>1
      <3> QED
        BY <3>1, <3>2, FunctionIsSeq
    <2> QED
      BY <1>5, <2>1, <2>6
  <1>7. ss \in Seq(Seq(PlainLine))
    <2>1. ss = [m \in 1..Len(L) |-> ss[m]]
      BY <1>5
    <2> HIDE DEF ss
    <2>2. ss \in [1..Len(L) -> Seq(PlainLine)]
      BY <1>6, <2>1
    <2> QED
      BY <1>5, <2>2, FunctionIsSeq
  <1> HIDE DEF ss
  <1>8. FlattenSeq(ss) \in Seq(PlainLine)
    BY <1>7, FlattenType
  <1> QED
    BY <1>1, <1>3, <1>4, <1>8

LEMMA PlacesAre ==
    ASSUME Plain
    PROVE  /\ words \in Lines /\ Len(words) \in Nat
           /\ \A r \in 1..Len(words) + 1 : IsPlace(Before(r)) /\ Before(r) \in Place(input)
           /\ Before(1) = FirstPlace /\ Before(Len(words) + 1).depth = 0
           /\ Before(Len(words) + 1).sites = Len(input.sites)
           /\ \A r \in 1..Len(words) : LineBetween(input, Before(r), Before(r + 1), words[r])
  <1>1. words \in Lines
    <2>1. input.lines \in Seq(Seq(STRING))
      BY SiteAssumption DEF Plain
    <2>2. Seq(STRING) \subseteq Seq(Text)
      BY SeqMonotonic DEF Text
    <2>3. input.lines \in Seq(Seq(Text))
      BY <2>1, <2>2, SeqMonotonic
    <2> QED
      BY <2>3, ExtractWordsType DEF Plain
  <1>2. Len(words) \in Nat /\ DOMAIN words = 1..Len(words)
    BY <1>1, LinesAre
  <1>3. LaidOut(input)
    BY PlainAssumption DEF Plain
  <1> DEFINE ps == input.places
  <1>4. /\ ps \in Seq(Place(input)) /\ Len(ps) = Len(words) + 1 /\ ps[1] = FirstPlace
        /\ ps[Len(ps)].depth = 0 /\ ps[Len(ps)].sites = Len(input.sites)
        /\ \A r \in DOMAIN words : LineBetween(input, ps[r], ps[r + 1], words[r])
    BY <1>3 DEF LaidOut, Plain
  <1>5. ASSUME NEW r \in 1..Len(words) + 1
        PROVE  IsPlace(Before(r)) /\ Before(r) \in Place(input)
    <2>1. PICK p \in Place(input) : p = Before(r)
      <3> DEFINE T == Place(input)
      <3>1. ps \in Seq(T) /\ r \in 1..Len(ps)
        BY <1>2, <1>4
      <3> HIDE DEF T
      <3>2. ps[r] \in T
        BY <3>1
      <3> QED
        BY <3>2 DEF Before, T
    <2>2. IsPlace(p)
      BY DEF Place, IsPlace
    <2> QED
      BY <2>1, <2>2
  <1> QED
    BY <1>1, <1>2, <1>4, <1>5 DEF Before

\* Brackets that close, on a line behind place p.
LEMMA LeavesPlace ==
    ASSUME NEW p \in Place(input), ~p.head, NEW q \in Place(input), Closes(input, p, q)
    PROVE  Leaves(p, q) /\ q.words = p.words /\ q.blocks = p.blocks
  <1>1. /\ q.head = p.head /\ q.http = p.http /\ q.sites = p.sites /\ q.words = p.words
        /\ q.blocks = p.blocks
    BY DEF Closes, Place
  <1>2. /\ q.depth <= p.depth
        /\ q.depth < 2 /\ p.depth >= 2 =>
             /\ p.words = Len(Site(p.sites).words)
             /\ p.blocks = Len(Site(p.sites).location_blocks)
        /\ q.depth = 0 => p.http = Len(input.http) /\ p.sites = Len(input.sites)
    BY DEF Closes, Site
  <1> QED
    BY <1>1, <1>2 DEF Leaves, Whole, Over

LEMMA OpensPlace ==
    ASSUME NEW p \in Place(input), ~p.head, NEW q, NEW head, NEW l, Opens(head, p, q, l)
    PROVE  /\ Opening(p, q, head, l)
           /\ q.http = p.http /\ q.sites = p.sites /\ q.words = p.words /\ q.blocks = p.blocks
  <1>1. CASE l = head /\ q = [p EXCEPT !.head = TRUE]
    BY <1>1 DEF Opening, Place
  <1>2. CASE l = Append(head, "{") /\ q = [p EXCEPT !.depth = @ + 1]
    BY <1>2 DEF Opening, Place
  <1> QED
    BY <1>1, <1>2 DEF Opens

\* Behind the next line of a server's locations.
LEMMA BehindBlock ==
    ASSUME NEW p \in Place(input)
    PROVE  LET b == [p EXCEPT !.blocks = @ + 1] IN
           /\ b \in Place(input) /\ b.head = p.head /\ b.depth = p.depth
           /\ b.http = p.http /\ b.sites = p.sites
           /\ b.words = p.words /\ b.blocks = p.blocks + 1
  <1>1. PICK n \in Nat : n = p.blocks + 1
    BY DEF Place
  <1> DEFINE b == [p EXCEPT !.blocks = n]
  <1>2. /\ b.head = p.head /\ b.depth = p.depth /\ b.http = p.http /\ b.sites = p.sites
        /\ b.words = p.words /\ b.blocks = n
    BY DEF Place
  <1>3. b \in Place(input)
    BY DEF Place
  <1>4. b = [p EXCEPT !.blocks = @ + 1]
    BY <1>1
  <1> HIDE DEF b
  <1> QED
    BY <1>1, <1>2, <1>3, <1>4, Zenon

LEMMA LineIsOfKind ==
    ASSUME NEW p \in Place(input), NEW q \in Place(input), NEW l, LineBetween(input, p, q, l)
    PROVE  LineKind(p, q, l)
  <1> DEFINE s == Site(p.sites)
             closing == Closing(p.depth - q.depth)
             block == s.location_blocks[p.blocks + 1]
             behind_block == [p EXCEPT !.blocks = @ + 1]
             behind_words == [p EXCEPT !.words = @ + 1]
             behind_head == [p EXCEPT !.sites = @ + 1, !.words = 0, !.blocks = 0]
  <1>1. CASE p.head /\ l = <<"{">> /\ q = [p EXCEPT !.depth = @ + 1, !.head = FALSE]
    <2>1. Bracket(p, q, l)
      BY <1>1 DEF Bracket, Place, OpenLine
    <2> QED
      BY <2>1 DEF LineKind
  <1>2. CASE ~p.head /\ p = FirstPlace /\ Opens(<<"http">>, p, q, l)
    <2>1. Opening(p, q, <<"http">>, l) /\ q.http = p.http /\ q.sites = p.sites
      BY <1>2, OpensPlace
    <2>2. p.depth = 0 /\ p.http = 0 /\ p.sites = 0
      BY <1>2 DEF FirstPlace
    <2> QED
      BY <2>1, <2>2 DEF HttpHead, LineKind, HttpName
  <1>3. CASE /\ ~p.head /\ p.depth = 1 /\ p.http < Len(input.http)
             /\ l = input.http[p.http + 1] /\ q = [p EXCEPT !.http = @ + 1]
    <2>1. HttpDirective(p, q, l)
      BY <1>3 DEF HttpDirective, Place
    <2> QED
      BY <2>1 DEF LineKind
  <1>4. CASE ~p.head /\ p.depth = 1 /\ Opens(<<"server">>, behind_head, q, l)
    <2>1. /\ ~behind_head.head /\ behind_head.depth = p.depth
          /\ behind_head.http = p.http /\ behind_head.sites = p.sites + 1
          /\ behind_head.words = 0 /\ behind_head.blocks = 0
      BY <1>4 DEF Place
    <2>2. \/ /\ l = <<"server">> /\ q = [behind_head EXCEPT !.head = TRUE]
          \/ /\ l = Append(<<"server">>, "{") /\ q = [behind_head EXCEPT !.depth = @ + 1]
      BY <1>4 DEF Opens
    <2>3. ServerHead(p, q, l)
      BY <1>4, <2>2 DEF ServerHead, Opening, Place, ServerName
    <2> QED
      BY <2>3 DEF LineKind
  <1>5. CASE /\ ~p.head /\ p.depth = 2 /\ p.words < Len(s.words)
             /\ l = s.words[p.words + 1] \o closing /\ Closes(input, behind_words, q)
    <2>1. /\ q.head = p.head /\ q.http = p.http /\ q.sites = p.sites /\ q.words = p.words + 1
          /\ q.blocks = p.blocks /\ q.depth <= p.depth
      BY <1>5 DEF Closes, Place
    <2>2. /\ q.depth < 2 /\ p.depth >= 2 => q.words = Len(s.words) /\ q.blocks = Len(s.location_blocks)
          /\ q.depth = 0 => q.http = Len(input.http) /\ q.sites = Len(input.sites)
      <3>1. /\ behind_words.depth = p.depth /\ behind_words.words = p.words + 1
            /\ behind_words.blocks = p.blocks /\ behind_words.http = p.http
            /\ behind_words.sites = p.sites
        BY DEF Place
      <3> HIDE DEF behind_words
      <3> QED
        BY <1>5, <2>1, <3>1 DEF Closes, Site
    <2>3. ServerDirective(p, q, l)
      BY <1>5, <2>1, <2>2 DEF ServerDirective, Leaves, Whole, Over
    <2> QED
      BY <2>3 DEF LineKind
  <1>6. CASE /\ ~p.head /\ p.depth = 2 /\ p.blocks < Len(s.location_blocks) /\ block[1] = "location"
             /\ Opens(block, behind_block, q, l)
    <2>1. /\ behind_block \in Place(input) /\ ~behind_block.head /\ behind_block.depth = p.depth
          /\ behind_block.http = p.http /\ behind_block.sites = p.sites
          /\ behind_block.words = p.words /\ behind_block.blocks = p.blocks + 1
      BY <1>6, BehindBlock, Zenon
    <2> HIDE DEF behind_block
    <2>2. /\ Opening(behind_block, q, block, l) /\ q.http = p.http /\ q.sites = p.sites
          /\ q.words = p.words /\ q.blocks = p.blocks + 1
      BY <1>6, <2>1, OpensPlace
    <2>3. Opening(p, q, block, l)
      BY <1>6, <2>1, <2>2 DEF Opening
    <2>4. LocationHead(p, q, l)
      BY <1>6, <2>2, <2>3 DEF LocationHead
    <2> QED
      BY <2>4 DEF LineKind
  <1>7. CASE /\ ~p.head /\ p.depth = 3 /\ p.blocks < Len(s.location_blocks) /\ block[1] # "location"
             /\ l = block \o closing /\ Closes(input, behind_block, q)
    <2>1. /\ behind_block \in Place(input) /\ ~behind_block.head /\ behind_block.depth = p.depth
          /\ behind_block.http = p.http /\ behind_block.sites = p.sites
          /\ behind_block.words = p.words /\ behind_block.blocks = p.blocks + 1
      BY <1>7, BehindBlock, Zenon
    <2> HIDE DEF behind_block
    <2>2. /\ Leaves(behind_block, q) /\ q.words = p.words /\ q.blocks = p.blocks + 1
      BY <1>7, <2>1, LeavesPlace
    <2>3. LocationDirective(p, q, l)
      BY <1>7, <2>1, <2>2 DEF LocationDirective, Leaves
    <2> QED
      BY <2>3 DEF LineKind
  <1>8. CASE ~p.head /\ q.depth < p.depth /\ l = closing /\ Closes(input, p, q)
    <2>1. ClosingLine(p, q, l)
      BY <1>8, LeavesPlace DEF ClosingLine
    <2> QED
      BY <2>1 DEF LineKind
  <1> QED
    BY <1>1, <1>2, <1>3, <1>4, <1>5, <1>6, <1>7, <1>8 DEF LineBetween, Site

LEMMA PlaceTypes ==
    ASSUME NEW p, IsPlace(p)
    PROVE  /\ p.depth \in Nat /\ p.depth <= 3 /\ p.head \in BOOLEAN
           /\ Len(input.sites) \in Nat => p.sites \in Nat
  BY DEF IsPlace

LEMMA LinesAreOfKind ==
    ASSUME Plain, NEW r \in 1..Len(words)
    PROVE  /\ IsPlace(Before(r)) /\ IsPlace(Before(r + 1))
           /\ LineKind(Before(r), Before(r + 1), words[r])
  <1>1. r \in 1..Len(words) + 1 /\ r + 1 \in 1..Len(words) + 1
    BY PlacesAre
  <1> QED
    BY <1>1, PlacesAre, LineIsOfKind

LEMMA PairIs ==
    ASSUME NEW x, NEW y
    PROVE  Append(<<x>>, y) = <<x, y>> /\ Len(<<x, y>>) = 2 /\ <<x, y>>[1] = x /\ <<x, y>>[2] = y
  <1>1. Append(<<x>>, y) = [k \in 1..2 |-> IF k = 2 THEN y ELSE x]
    OBVIOUS
  <1>2. <<x, y>> = [k \in 1..2 |-> IF k = 2 THEN y ELSE x]
    OBVIOUS
  <1>3. Len(<<x, y>>) = 2 /\ <<x, y>>[1] = x /\ <<x, y>>[2] = y
    OBVIOUS
  <1> QED
    BY <1>1, <1>2, <1>3

LEMMA HeadsAre ==
    /\ Len(OpenLine) = 1 /\ OpenLine[1] = "{"
    /\ Len(HttpName) = 1 /\ HttpName[1] = "http"
    /\ Len(ServerName) = 1 /\ ServerName[1] = "server"
    /\ Len(Append(HttpName, "{")) = 2 /\ Append(HttpName, "{")[1] = "http"
    /\ Append(HttpName, "{")[2] = "{"
    /\ Len(Append(ServerName, "{")) = 2 /\ Append(ServerName, "{")[1] = "server"
    /\ Append(ServerName, "{")[2] = "{"
  <1>1. /\ Len(OpenLine) = 1 /\ OpenLine[1] = "{"
        /\ Len(HttpName) = 1 /\ HttpName[1] = "http"
        /\ Len(ServerName) = 1 /\ ServerName[1] = "server"
    BY DEF OpenLine, HttpName, ServerName
  <1>2. /\ Len(Append(HttpName, "{")) = 2 /\ Append(HttpName, "{")[1] = "http"
        /\ Append(HttpName, "{")[2] = "{"
    <2>1. Append(HttpName, "{") = <<"http", "{">>
      BY PairIs DEF HttpName
    <2>2. Len(<<"http", "{">>) = 2 /\ <<"http", "{">>[1] = "http" /\ <<"http", "{">>[2] = "{"
      OBVIOUS
    <2> QED
      BY <2>1, <2>2, Zenon
  <1>3. /\ Len(Append(ServerName, "{")) = 2 /\ Append(ServerName, "{")[1] = "server"
        /\ Append(ServerName, "{")[2] = "{"
    <2>1. Append(ServerName, "{") = <<"server", "{">>
      BY PairIs DEF ServerName
    <2>2. Len(<<"server", "{">>) = 2 /\ <<"server", "{">>[1] = "server" /\ <<"server", "{">>[2] = "{"
      OBVIOUS
    <2> QED
      BY <2>1, <2>2, Zenon
  <1> QED
    BY <1>1, <1>2, <1>3

\* What line can stand behind a place.
LEMMA KindAt ==
    ASSUME NEW p, NEW q, NEW l, LineKind(p, q, l), p.depth \in Nat, q.depth \in Nat
    PROVE  /\ p.head => Bracket(p, q, l)
           /\ ~p.head /\ p.depth = 0 => HttpHead(p, q, l)
           /\ ~p.head /\ p.depth = 1 => \/ HttpDirective(p, q, l) \/ ServerHead(p, q, l)
                                       \/ ClosingLine(p, q, l)
           /\ ~p.head /\ p.depth = 2 => \/ ServerDirective(p, q, l) \/ LocationHead(p, q, l)
                                       \/ ClosingLine(p, q, l)
           /\ ~p.head /\ p.depth = 3 => LocationDirective(p, q, l) \/ ClosingLine(p, q, l)
  <1>1. Bracket(p, q, l) => p.head
    BY DEF Bracket
  <1>2. HttpHead(p, q, l) => ~p.head /\ p.depth = 0
    BY DEF HttpHead, Opening
  <1>3. HttpDirective(p, q, l) => ~p.head /\ p.depth = 1
    BY DEF HttpDirective
  <1>4. ServerHead(p, q, l) => ~p.head /\ p.depth = 1
    BY DEF ServerHead, Opening
  <1>5. ServerDirective(p, q, l) => ~p.head /\ p.depth = 2
    BY DEF ServerDirective, Leaves
  <1>6. LocationHead(p, q, l) => ~p.head /\ p.depth = 2
    BY DEF LocationHead, Opening
  <1>7. LocationDirective(p, q, l) => ~p.head /\ p.depth = 3
    BY DEF LocationDirective, Leaves
  <1>8. ClosingLine(p, q, l) => ~p.head /\ p.depth # 0
    BY DEF ClosingLine, Leaves
  <1>9. p.depth # 0 \/ (p.depth # 1 /\ p.depth # 2 /\ p.depth # 3)
    OBVIOUS
  <1>10. CASE p.head
    BY <1>1, <1>2, <1>3, <1>4, <1>5, <1>6, <1>7, <1>8, <1>10 DEF LineKind
  <1>11. CASE ~p.head /\ p.depth = 0
    BY <1>1, <1>2, <1>3, <1>4, <1>5, <1>6, <1>7, <1>8, <1>11 DEF LineKind
  <1>12. CASE ~p.head /\ p.depth = 1
    BY <1>1, <1>2, <1>3, <1>4, <1>5, <1>6, <1>7, <1>8, <1>12 DEF LineKind
  <1>13. CASE ~p.head /\ p.depth = 2
    BY <1>1, <1>2, <1>3, <1>4, <1>5, <1>6, <1>7, <1>8, <1>13 DEF LineKind
  <1>14. CASE ~p.head /\ p.depth = 3
    BY <1>1, <1>2, <1>3, <1>4, <1>5, <1>6, <1>7, <1>8, <1>14 DEF LineKind
  <1> QED
    BY <1>10, <1>11, <1>12, <1>13, <1>14

\* The first line names the http block.
LEMMA FirstLine ==
    ASSUME Plain
    PROVE  /\ Len(words) >= 2 /\ words[1][1] = "http"
           /\ Before(2).http = 0 /\ Before(2).sites = 0
           /\ \/ words[1] = Append(HttpName, "{") /\ Before(2).depth = 1 /\ ~Before(2).head
              \/ /\ words[1] = HttpName /\ Before(2).head /\ Before(2).depth = 0
                 /\ words[2] = OpenLine /\ Before(3).depth = 1 /\ ~Before(3).head
                 /\ Before(3).http = 0 /\ Before(3).sites = 0
  <1>1. PICK m \in Nat : m = Len(words)
    BY PlacesAre
  <1>2. Len(input.sites) \in Nat \ {0}
    <2>1. input.sites # << >> /\ input.sites \in Seq([words : Directives, locations : LocationsText])
      BY PlainAssumption, MeantAssumption DEF InPlainWords, LocationsText, Plain
    <2> QED
      BY <2>1
  <1>3. Before(1).depth = 0 /\ ~Before(1).head /\ Before(1).sites = 0
    BY PlacesAre DEF FirstPlace
  <1>4. Before(m + 1).sites = Len(input.sites)
    BY <1>1, PlacesAre
  <1>5. m # 0
    <2>1. m = 0 => m + 1 = 1
      OBVIOUS
    <2> QED
      BY <1>2, <1>3, <1>4, <2>1
  <1>6. 1 \in 1..Len(words)
    BY <1>1, <1>5
  <1>7. /\ LineKind(Before(1), Before(1 + 1), words[1])
        /\ Before(1).depth \in Nat /\ Before(1 + 1).depth \in Nat
    BY <1>6, LinesAreOfKind DEF IsPlace
  <1>8. HttpHead(Before(1), Before(1 + 1), words[1])
    BY <1>3, <1>7, KindAt
  <1>9. HttpHead(Before(1), Before(2), words[1])
    <2>1. 1 + 1 = 2
      OBVIOUS
    <2> QED
      BY <1>8, <2>1
  <1>10. m # 1
    <2>1. m = 1 => m + 1 = 2
      OBVIOUS
    <2> QED
      BY <1>2, <1>4, <1>9, <2>1 DEF HttpHead
  <1>11. Len(words) >= 2 /\ words[1][1] = "http" /\ Before(2).http = 0 /\ Before(2).sites = 0
    <2>1. m >= 2
      BY <1>5, <1>10
    <2>2. words[1][1] = "http" /\ Before(2).http = 0 /\ Before(2).sites = 0
      BY <1>9, HeadsAre DEF HttpHead, Opening
    <2> QED
      BY <1>1, <2>1, <2>2
  <1>12. CASE words[1] = Append(HttpName, "{") /\ Before(2).depth = 1 /\ ~Before(2).head
    BY <1>11, <1>12
  <1>13. CASE words[1] = HttpName /\ Before(2).head /\ Before(2).depth = 0
    <2>1. 2 \in 1..Len(words)
      BY <1>1, <1>5, <1>10
    <2>2. /\ LineKind(Before(2), Before(2 + 1), words[2])
          /\ Before(2).depth \in Nat /\ Before(2 + 1).depth \in Nat
      <3>1. /\ LineKind(Before(2), Before(2 + 1), words[2])
            /\ IsPlace(Before(2)) /\ IsPlace(Before(2 + 1))
        BY <2>1, LinesAreOfKind
      <3> QED
        BY <3>1 DEF IsPlace
    <2>3. 2 + 1 = 3
      OBVIOUS
    <2>4. LineKind(Before(2), Before(3), words[2]) /\ Before(2).depth \in Nat /\ Before(3).depth \in Nat
      BY <2>2, <2>3
    <2>5. Bracket(Before(2), Before(3), words[2])
      BY <1>13, <2>4, KindAt
    <2>6. /\ words[2] = OpenLine /\ ~Before(3).head /\ Before(3).depth = Before(2).depth + 1
          /\ Before(3).http = Before(2).http /\ Before(3).sites = Before(2).sites
      BY <2>5 DEF Bracket
    <2>7. Before(2).depth + 1 = 1
      BY <1>13
    <2> QED
      BY <1>11, <1>13, <2>6, <2>7, Zenon
  <1>14. \/ words[1] = HttpName /\ Before(2).head /\ Before(2).depth = Before(1).depth
         \/ words[1] = Append(HttpName, "{") /\ ~Before(2).head /\ Before(2).depth = Before(1).depth + 1
    BY <1>9, Zenon DEF HttpHead, Opening
  <1>15. Before(1).depth + 1 = 1
    BY <1>3
  <1> QED
    BY <1>3, <1>12, <1>13, <1>14, <1>15, Zenon

\* What the place behind a line says of it.
Fits(n) ==
    LET q == Before(n + 1)
    IN /\ q.depth = 3 => ~q.head
       /\ q.depth >= 2 \/ (q.head /\ q.depth = 1) => q.sites # 0
       /\ q.depth = 0 /\ ~q.head => n = Len(words) /\ Over(q)
       /\ q.head /\ q.depth = 1 => words[n] = ServerName /\ q.words = 0 /\ q.blocks = 0
       /\ q.head /\ q.depth = 0 => n = 1

\* There is no line behind the last bracket.
LEMMA LastLine ==
    ASSUME Plain, NEW n \in Nat, n + 1 \in 1..Len(words), IsPlace(Before(n + 1 + 1)),
           ~Before(n + 1 + 1).head, Before(n + 1 + 1).depth = 0, Over(Before(n + 1 + 1))
    PROVE  n + 1 = Len(words)
  <1> DEFINE q == Before(n + 1 + 1)
             q2 == Before(n + 1 + 1 + 1)
             l2 == words[n + 1 + 1]
  <1>1. SUFFICES ASSUME n + 1 # Len(words) PROVE FALSE
    OBVIOUS
  <1>2. n + 1 + 1 \in 1..Len(words)
    BY <1>1, PlacesAre
  <1>3. LineKind(q, q2, l2) /\ q.depth \in Nat /\ q2.depth \in Nat
    BY <1>2, LinesAreOfKind DEF IsPlace
  <1>4. HttpHead(q, q2, l2)
    BY <1>3, KindAt
  <1>5. q.sites = 0
    BY <1>4 DEF HttpHead
  <1>6. Len(input.sites) # 0
    <2>1. input.sites # << >> /\ input.sites \in Seq([words : Directives, locations : LocationsText])
      BY PlainAssumption, MeantAssumption DEF InPlainWords, LocationsText, Plain
    <2> QED
      BY <2>1
  <1> QED
    BY <1>5, <1>6 DEF Over

LEMMA FitsNext ==
    ASSUME Plain, NEW n \in Nat, n + 1 \in 1..Len(words), n # 0 => Fits(n)
    PROVE  Fits(n + 1)
  <1> DEFINE p == Before(n + 1)
             q == Before(n + 1 + 1)
             l == words[n + 1]
  <1>1. LineKind(p, q, l) /\ IsPlace(p) /\ IsPlace(q)
    BY LinesAreOfKind
  <1>2. n = 0 => p.depth = 0 /\ ~p.head
    <2>1. n = 0 => n + 1 = 1
      OBVIOUS
    <2> QED
      BY <2>1, PlacesAre DEF FirstPlace
  <1>3. /\ p.depth \in Nat /\ p.depth <= 3 /\ q.depth \in Nat /\ q.depth <= 3
        /\ p.sites \in Nat /\ q.sites \in Nat /\ n \in Nat
        /\ p.head \in BOOLEAN /\ q.head \in BOOLEAN
    <2>1. Len(input.sites) \in Nat
      BY BlockShape DEF Plain
    <2> QED
      BY <1>1, <2>1, PlaceTypes, Zenon
  <1>4. /\ p.depth >= 2 \/ (p.head /\ p.depth = 1) => p.sites # 0
        /\ p.depth = 3 => ~p.head
        /\ n # 0 => ~(p.depth = 0 /\ ~p.head)
        /\ n # 0 /\ p.head /\ p.depth = 0 => n = 1
    <2>1. CASE n = 0
      <3>1. p.depth = 0 /\ ~p.head
        BY <1>2, <2>1
      <3> QED
        BY <2>1, <3>1
    <2>2. CASE n # 0
      <3>1. n # Len(words)
        BY PlacesAre
      <3> QED
        BY <2>2, <3>1 DEF Fits
    <2> QED
      BY <2>1, <2>2
  <1>5. CASE p.head
    <2>1. Bracket(p, q, l)
      BY <1>1, <1>3, <1>5, KindAt
    <2>2. ~q.head /\ q.depth = p.depth + 1 /\ q.sites = p.sites
      BY <2>1 DEF Bracket
    <2>3. q.depth # 0
      BY <1>3, <2>2
    <2>4. q.depth >= 2 => q.sites # 0
      <3>1. q.depth >= 2 => p.depth >= 2 \/ p.depth = 1
        BY <1>3, <2>2
      <3> QED
        BY <1>4, <1>5, <2>2, <3>1
    <2> QED
      BY <2>2, <2>3, <2>4 DEF Fits
  <1>6. CASE ~p.head /\ p.depth = 0
    <2>1. n = 0
      BY <1>4, <1>6
    <2>2. HttpHead(p, q, l)
      BY <1>1, <1>3, <1>6, KindAt
    <2>3. (q.head /\ q.depth = 0) \/ (~q.head /\ q.depth = 1)
      <3>1. (q.head /\ q.depth = p.depth) \/ (~q.head /\ q.depth = p.depth + 1)
        BY <2>2, Zenon DEF HttpHead, Opening
      <3>2. p.depth + 1 = 1
        BY <1>6
      <3> QED
        BY <1>6, <3>1, <3>2, Zenon
    <2>4. n + 1 = 1
      BY <2>1
    <2> QED
      BY <2>3, <2>4 DEF Fits
  <1>7. CASE ~p.head /\ p.depth = 1
    <2>1. CASE HttpDirective(p, q, l)
      <3>1. ~q.head /\ q.depth = 1
        BY <2>1 DEF HttpDirective
      <3> QED
        BY <3>1 DEF Fits
    <2>2. CASE ServerHead(p, q, l)
      <3>1. /\ q.sites = p.sites + 1 /\ q.words = 0 /\ q.blocks = 0
            /\ (q.head /\ q.depth = 1 /\ l = ServerName) \/ (~q.head /\ q.depth = 2)
        <4>1. (q.head /\ q.depth = p.depth /\ l = ServerName) \/ (~q.head /\ q.depth = p.depth + 1)
          BY <2>2, Zenon DEF ServerHead, Opening
        <4>2. p.depth + 1 = 2
          BY <1>7
        <4>3. q.sites = p.sites + 1 /\ q.words = 0 /\ q.blocks = 0
          BY <2>2 DEF ServerHead
        <4> QED
          BY <1>7, <4>1, <4>2, <4>3, Zenon
      <3>2. q.sites # 0
        BY <1>3, <3>1
      <3> QED
        BY <3>1, <3>2 DEF Fits
    <2>3. CASE ClosingLine(p, q, l)
      <3>1. ~q.head /\ q.depth < p.depth /\ (q.depth = 0 => Over(q))
        BY <2>3 DEF ClosingLine, Leaves
      <3>2. q.depth = 0
        BY <1>3, <1>7, <3>1
      <3>3. n + 1 = Len(words)
        BY <1>1, <3>1, <3>2, LastLine
      <3> QED
        BY <3>1, <3>2, <3>3 DEF Fits
    <2> QED
      BY <1>1, <1>3, <1>7, <2>1, <2>2, <2>3, KindAt
  <1>8. CASE ~p.head /\ p.depth >= 2
    <2>1. CASE LocationHead(p, q, l)
      <3>1. /\ q.sites = p.sites /\ p.depth = 2
            /\ (q.head /\ q.depth = 2) \/ (~q.head /\ q.depth = 3)
        <4>1. (q.head /\ q.depth = p.depth) \/ (~q.head /\ q.depth = p.depth + 1)
          BY <2>1, Zenon DEF LocationHead, Opening
        <4>2. p.depth = 2 /\ q.sites = p.sites
          BY <2>1 DEF LocationHead
        <4>3. p.depth + 1 = 3
          BY <4>2
        <4> QED
          BY <4>1, <4>2, <4>3, Zenon
      <3>2. q.sites # 0
        BY <1>4, <1>8, <3>1
      <3> QED
        BY <3>1, <3>2 DEF Fits
    <2>2. CASE Leaves(p, q)
      <3>1. ~q.head /\ q.sites = p.sites /\ (q.depth = 0 => Over(q))
        BY <2>2 DEF Leaves
      <3>2. q.sites # 0
        BY <1>4, <1>8, <3>1
      <3>3. q.depth = 0 => n + 1 = Len(words)
        BY <1>1, <3>1, LastLine
      <3> QED
        BY <3>1, <3>2, <3>3 DEF Fits
    <2>3. p.depth = 2 \/ p.depth = 3
      BY <1>3, <1>8
    <2> QED
      BY <1>1, <1>3, <1>8, <2>1, <2>2, <2>3, KindAt
         DEF ServerDirective, LocationDirective, ClosingLine
  <1> QED
    BY <1>3, <1>5, <1>6, <1>7, <1>8

LEMMA PlaceBehind ==
    ASSUME Plain, NEW r \in 1..Len(words)
    PROVE  Fits(r)
  <1> DEFINE T == {n \in Nat : n \in 1..Len(words) => Fits(n)}
  <1>1. 0 \in T
    OBVIOUS
  <1>2. ASSUME NEW n \in Nat, n \in T PROVE n + 1 \in T
    <2>1. SUFFICES ASSUME n + 1 \in 1..Len(words) PROVE Fits(n + 1)
      OBVIOUS
    <2>2. Len(words) \in Nat
      BY PlacesAre
    <2>3. n # 0 => n \in 1..Len(words)
      BY <2>1, <2>2
    <2>4. n # 0 => Fits(n)
      BY <1>2, <2>3
    <2> QED
      BY <2>1, <2>4, FitsNext
  <1> HIDE DEF T
  <1>3. r \in T
    <2>1. r \in Nat
      BY PlacesAre
    <2> QED
      BY <1>1, <1>2, <2>1, Induction
  <1> QED
    BY <1>3 DEF T

-----------------------------------------------------------------------------
(* The words of such a file, and its brackets                              *)

\* A line with a bracket that opens behind its words, and with d that close.
OpensBy(l) == l[Len(l)] = "{" /\ \A c \in 1..Len(l) - 1 : ~IsBracket(l[c])
ClosesBy(l, d) ==
    /\ d <= Len(l)
    /\ \A c \in 1..Len(l) : (c <= Len(l) - d => ~IsBracket(l[c])) /\ (c > Len(l) - d => l[c] = "}")

\* What a word is when it is appended.
LEMMA PlainLineIs ==
    ASSUME NEW h \in PlainLine
    PROVE  /\ h \in Line /\ h \in Seq(Text) /\ Len(h) \in Nat \ {0} /\ DOMAIN h = 1..Len(h)
           /\ \A c \in 1..Len(h) : ~IsBracket(h[c])
  BY LineIs DEF PlainLine

LEMMA AppendOpens ==
    ASSUME NEW h \in PlainLine
    PROVE  LET l == Append(h, "{")
           IN /\ OpensBy(l) /\ Len(l) = Len(h) + 1
              /\ \A c \in 1..Len(h) : l[c] = h[c]
  <1>1. PICK w : w = "{"
    OBVIOUS
  <1>2. PICK l : l = Append(h, w)
    OBVIOUS
  <1>3. PICK s \in Seq(Text) : s = h
    BY PlainLineIs
  <1>4. Len(s) \in Nat /\ \A c \in 1..Len(s) : ~IsBracket(s[c])
    BY <1>3, PlainLineIs
  <1>5. Len(l) = Len(s) + 1 /\ l[Len(s) + 1] = w /\ \A c \in 1..Len(s) : l[c] = s[c]
    BY <1>2, <1>3
  <1>6. l[Len(l)] = w
    BY <1>5
  <1>7. \A c \in 1..Len(l) - 1 : ~IsBracket(l[c])
    BY <1>4, <1>5
  <1> QED
    BY <1>1, <1>2, <1>3, <1>5, <1>6, <1>7 DEF OpensBy

LEMMA ClosingIs ==
    ASSUME NEW k \in Nat
    PROVE  /\ Closing(k) \in Seq(Text) /\ Len(Closing(k)) = k
           /\ \A c \in 1..k : Closing(k)[c] = "}"
  <1>1. PICK w : w = "}"
    OBVIOUS
  <1>2. Closing(k) = [x \in 1..k |-> w]
    BY <1>1 DEF Closing
  <1>0. w \in Text
    BY <1>1 DEF Text
  <1>3. Closing(k) \in [1..k -> Text]
    BY <1>0, <1>2
  <1>4. Closing(k) \in Seq(Text) /\ Len(Closing(k)) = k
    BY <1>3, FunctionIsSeq
  <1> QED
    BY <1>1, <1>2, <1>4

LEMMA ClosedBy ==
    ASSUME NEW h \in PlainLine, NEW k \in Nat
    PROVE  LET l == h \o Closing(k)
           IN /\ ClosesBy(l, k) /\ Len(l) = Len(h) + k
              /\ \A c \in 1..Len(h) : l[c] = h[c]
  <1>1. PICK w : w = "}"
    OBVIOUS
  <1>2. PICK s \in Seq(Text) : s = h
    BY PlainLineIs
  <1>3. PICK t \in Seq(Text) : t = Closing(k)
    BY ClosingIs
  <1>4. PICK l : l = s \o t
    OBVIOUS
  <1>5. Len(t) = k
    BY <1>3, ClosingIs
  <1>6. /\ Len(s) \in Nat /\ Len(l) = Len(s) + k /\ \A c \in 1..Len(s) : l[c] = s[c]
        /\ \A c \in 1..k : l[Len(s) + c] = t[c]
    <2>1. /\ Len(s \o t) = Len(s) + Len(t)
          /\ \A m \in 1..Len(s) : (s \o t)[m] = s[m]
          /\ \A m \in 1..Len(t) : (s \o t)[Len(s) + m] = t[m]
      BY ConcatIs
    <2>2. Len(s) \in Nat
      OBVIOUS
    <2> QED
      BY <1>4, <1>5, <2>1, <2>2, Zenon
  <1>7. \A c \in 1..k : l[Len(s) + c] = t[c] /\ t[c] = w
    BY <1>1, <1>3, <1>6, ClosingIs, Zenon
  <1>8. \A c \in 1..Len(l) : c > Len(s) => l[c] = w
    <2>1. ASSUME NEW c \in 1..Len(l), c > Len(s) PROVE l[c] = w
      <3>1. c - Len(s) \in 1..k /\ Len(s) + (c - Len(s)) = c
        BY <1>6, <2>1
      <3> QED
        BY <1>7, <3>1
    <2> QED
      BY <2>1
  <1>9. \A c \in 1..Len(s) : ~IsBracket(l[c])
    BY <1>2, <1>6, PlainLineIs
  <1>10. Len(l) - k = Len(s) /\ k <= Len(l)
    BY <1>6
  <1>11. ClosesBy(l, k)
    <2>1. ASSUME NEW c \in 1..Len(l)
          PROVE  (c <= Len(l) - k => ~IsBracket(l[c])) /\ (c > Len(l) - k => l[c] = "}")
      <3>1. c \in 1..Len(s) \/ c > Len(s)
        BY <1>6
      <3>2. c \in 1..Len(s) => ~(c > Len(s))
        BY <1>6
      <3>3. c > Len(s) => ~(c <= Len(s))
        BY <1>6
      <3> QED
        BY <1>1, <1>8, <1>9, <1>10, <3>1, <3>2, <3>3, Zenon
    <2> QED
      BY <1>10, <2>1, Zenon DEF ClosesBy
  <1> QED
    BY <1>2, <1>3, <1>4, <1>6, <1>11

LEMMA OnlyCloses ==
    ASSUME NEW k \in Nat
    PROVE  ClosesBy(Closing(k), k) /\ Len(Closing(k)) = k
  <1>1. PICK t : t = Closing(k)
    OBVIOUS
  <1>2. Len(t) = k /\ \A c \in 1..k : t[c] = "}"
    BY <1>1, ClosingIs
  <1>3. \A c \in 1..k : ~(c <= k - k)
    OBVIOUS
  <1>4. k <= k
    OBVIOUS
  <1>5. ClosesBy(t, k)
    BY <1>2, <1>3, <1>4, Zenon DEF ClosesBy
  <1> QED
    BY <1>1, <1>2, <1>5

LEMMA PlainCloses ==
    ASSUME NEW h \in PlainLine
    PROVE  ClosesBy(h, 0)
  <1>1. PICK n \in Nat : n = Len(h)
    BY PlainLineIs
  <1>2. 0 <= n /\ \A c \in 1..n : ~(c > n - 0)
    BY <1>1
  <1>3. \A c \in 1..n : ~IsBracket(h[c])
    BY <1>1, PlainLineIs
  <1> QED
    BY <1>1, <1>2, <1>3, Zenon DEF ClosesBy

LEMMA NamesArePlain ==
    HttpName \in PlainLine /\ ServerName \in PlainLine /\ OpensBy(OpenLine)
  <1>1. "http" \in Text /\ "server" \in Text
    BY DEF Text
  <1>2. ASSUME NEW w \in Text, ~IsBracket(w) PROVE <<w>> \in PlainLine
    BY <1>2 DEF PlainLine, Line
  <1>3. ~IsBracket("http") /\ ~IsBracket("server")
    BY DEF IsBracket
  <1>4. OpensBy(OpenLine)
    <2>1. \A c \in 1..1 - 1 : FALSE
      OBVIOUS
    <2> QED
      BY <2>1, HeadsAre, Zenon DEF OpensBy
  <1> QED
    BY <1>1, <1>2, <1>3, <1>4 DEF HttpName, ServerName

\* The server that a place is in.
LEMMA SiteHere ==
    ASSUME Plain, NEW r \in 1..Len(words) + 1,
           Before(r).depth >= 2 \/ (Before(r).head /\ Before(r).depth = 1)
    PROVE  Before(r).sites \in 1..Len(input.sites)
  <1>1. Len(words) \in Nat /\ Len(input.sites) \in Nat
    BY PlacesAre, BlockShape DEF Plain
  <1>2. r # 1
    BY PlacesAre DEF FirstPlace
  <1>3. r - 1 \in 1..Len(words) /\ r - 1 + 1 = r
    BY <1>1, <1>2
  <1>4. Fits(r - 1)
    BY <1>3, PlaceBehind
  <1>5. Before(r).sites # 0
    BY <1>3, <1>4 DEF Fits
  <1>6. IsPlace(Before(r))
    BY PlacesAre
  <1> QED
    BY <1>1, <1>5, <1>6 DEF IsPlace

\* The lines of the input have no brackets of their own.
LEMMA WordsOfSite ==
    ASSUME Plain, NEW n \in 1..Len(input.sites)
    PROVE  /\ \A m \in 1..Len(Site(n).words) : Site(n).words[m] \in PlainLine
           /\ \A m \in 1..Len(Site(n).location_blocks) : Site(n).location_blocks[m] \in PlainLine
           /\ Len(Site(n).words) \in Nat \ {0} /\ Len(Site(n).location_blocks) \in Nat
  <1>1. PICK s : s = Site(n).words
    OBVIOUS
  <1>2. PICK b : b = Site(n).location_blocks
    OBVIOUS
  <1>3. s \in Seq(PlainLine) /\ b \in Seq(PlainLine) /\ Len(s) \in Nat \ {0}
    BY <1>1, <1>2, SitesArePlain DEF Plain
  <1>4. \A m \in 1..Len(s) : s[m] \in PlainLine
    BY <1>3
  <1>5. Len(b) \in Nat /\ \A m \in 1..Len(b) : b[m] \in PlainLine
    BY <1>3
  <1> QED
    BY <1>1, <1>2, <1>3, <1>4, <1>5

LEMMA WordsOfHttp ==
    ASSUME Plain
    PROVE  /\ Len(input.http) \in Nat
           /\ \A m \in 1..Len(input.http) : input.http[m] \in PlainLine
  <1>1. input.http \in Lines
    BY BlockShape DEF Plain
  <1>2. Len(input.http) \in Nat /\ DOMAIN input.http = 1..Len(input.http)
        /\ \A m \in 1..Len(input.http) : input.http[m] \in Line
    BY <1>1, LinesAre
  <1>3. ASSUME NEW m \in 1..Len(input.http) PROVE input.http[m] \in PlainLine
    <2>1. PICK l \in Line : l = input.http[m]
      BY <1>2
    <2>2. l \in ToSet(input.http)
      BY <1>2, <2>1 DEF ToSet
    <2>3. ToSet(l) \cap {"{", "}"} = {}
      BY <2>2, PlainAssumption DEF InPlainWords, Plain
    <2>4. \A c \in 1..Len(l) : l[c] \in ToSet(l)
      BY LineIs DEF ToSet
    <2> QED
      BY <2>1, <2>3, <2>4 DEF PlainLine, IsBracket
  <1> QED
    BY <1>2, <1>3

Depth(r) == Before(r).depth

\* The directive or the block that a line adds is there.
LEMMA AddedWords ==
    ASSUME Plain, NEW r \in 1..Len(words), Before(r).depth >= 2,
           NEW n, n = Before(r).sites
    PROVE  /\ Before(r).words < Len(Site(n).words) =>
                 Site(n).words[Before(r).words + 1] \in PlainLine
           /\ Before(r).blocks < Len(Site(n).location_blocks) =>
                 Site(n).location_blocks[Before(r).blocks + 1] \in PlainLine
  <1>1. r \in 1..Len(words) + 1
    BY PlacesAre
  <1>2. n \in 1..Len(input.sites)
    BY <1>1, SiteHere
  <1>3. PICK w \in Nat : w = Before(r).words
    BY <1>1, PlacesAre DEF IsPlace
  <1>4. PICK b \in Nat : b = Before(r).blocks
    BY <1>1, PlacesAre DEF IsPlace
  <1>5. w < Len(Site(n).words) => w + 1 \in 1..Len(Site(n).words)
    BY <1>2, WordsOfSite
  <1>6. b < Len(Site(n).location_blocks) => b + 1 \in 1..Len(Site(n).location_blocks)
    BY <1>2, WordsOfSite
  <1> QED
    BY <1>2, <1>3, <1>4, <1>5, <1>6, WordsOfSite, Zenon

\* A line opens one block, or it closes some, or none.
LEMMA LineBrackets ==
    ASSUME Plain, NEW r \in 1..Len(words)
    PROVE  /\ Depth(r) \in Nat /\ Depth(r + 1) \in Nat /\ Depth(r) <= 3 /\ Depth(r + 1) <= 3
           /\ \/ Depth(r + 1) = Depth(r) + 1 /\ OpensBy(words[r])
              \/ Depth(r + 1) <= Depth(r) /\ ClosesBy(words[r], Depth(r) - Depth(r + 1))
  <1> DEFINE p == Before(r)
             q == Before(r + 1)
             l == words[r]
  <1>1. LineKind(p, q, l) /\ IsPlace(p) /\ IsPlace(q)
    BY LinesAreOfKind
  <1>2. p.depth \in Nat /\ p.depth <= 3 /\ q.depth \in Nat /\ q.depth <= 3
    BY <1>1, PlaceTypes, Zenon
  <1>3. \/ q.depth = p.depth + 1 /\ OpensBy(l)
        \/ q.depth <= p.depth /\ ClosesBy(l, p.depth - q.depth)
    <2> HIDE DEF p, q, l
    <2>1. ASSUME NEW head \in PlainLine, Opening(p, q, head, l)
          PROVE  \/ q.depth = p.depth + 1 /\ OpensBy(l)
                 \/ q.depth <= p.depth /\ ClosesBy(l, p.depth - q.depth)
      <3>1. CASE l = head /\ q.depth = p.depth
        <4>1. ClosesBy(l, 0)
          BY <3>1, PlainCloses
        <4>2. p.depth - q.depth = 0 /\ q.depth <= p.depth
          BY <1>2, <3>1
        <4> QED
          BY <4>1, <4>2
      <3>2. CASE l = Append(head, "{") /\ q.depth = p.depth + 1
        BY <3>2, AppendOpens
      <3> QED
        BY <2>1, <3>1, <3>2, Zenon DEF Opening
    <2>2. CASE Bracket(p, q, l)
      BY <2>2, NamesArePlain DEF Bracket
    <2>3. CASE HttpHead(p, q, l) \/ ServerHead(p, q, l)
      BY <2>1, <2>3, NamesArePlain, Zenon DEF HttpHead, ServerHead
    <2>4. CASE HttpDirective(p, q, l)
      <3>1. PICK m \in Nat : m = p.http
        BY <1>1, WordsOfHttp DEF IsPlace
      <3>2. l = input.http[m + 1] /\ m < Len(input.http)
        BY <2>4, <3>1 DEF HttpDirective
      <3>3. m + 1 \in 1..Len(input.http)
        BY <3>2, WordsOfHttp
      <3>4. ClosesBy(l, 0)
        BY <3>2, <3>3, WordsOfHttp, PlainCloses
      <3>5. p.depth - q.depth = 0 /\ q.depth <= p.depth
        BY <1>2, <2>4 DEF HttpDirective
      <3> QED
        BY <3>4, <3>5
    <2>5. CASE ServerDirective(p, q, l) \/ LocationDirective(p, q, l)
      <3>1. /\ q.depth <= p.depth /\ p.depth >= 2
        <4>1. (p.depth = 2 \/ p.depth = 3) /\ q.depth <= p.depth
          BY <2>5, Zenon DEF ServerDirective, LocationDirective, Leaves
        <4> QED
          BY <4>1
      <3>2. PICK h \in PlainLine : l = h \o Closing(p.depth - q.depth)
        BY <2>5, <3>1, AddedWords DEF ServerDirective, LocationDirective, p
      <3>3. p.depth - q.depth \in Nat
        BY <1>2, <3>1
      <3> QED
        BY <3>1, <3>2, <3>3, ClosedBy
    <2>6. CASE LocationHead(p, q, l)
      <3>1. PICK h \in PlainLine : Opening(p, q, h, l)
        BY <2>6, AddedWords DEF LocationHead, p
      <3> QED
        BY <2>1, <3>1
    <2>7. CASE ClosingLine(p, q, l)
      <3>1. q.depth < p.depth /\ l = Closing(p.depth - q.depth)
        BY <2>7 DEF ClosingLine
      <3>2. p.depth - q.depth \in Nat /\ q.depth <= p.depth
        BY <1>2, <3>1
      <3> QED
        BY <3>1, <3>2, OnlyCloses
    <2> QED
      BY <1>1, <2>2, <2>3, <2>4, <2>5, <2>6, <2>7 DEF LineKind, p, q, l
  <1> QED
    BY <1>2, <1>3 DEF Depth

-----------------------------------------------------------------------------
(* As many brackets are closed as are opened, and none before it           *)

Opened == "{"
Closed == "}"

\* The columns of line r with the word w, and its places up to line r.
Columns(w, r) == {c \in 1..Len(words[r]) : words[r][c] = w}
LinesUpTo(w, r) == {p \in Places(w) : p[1] <= r}

LEMMA PlaceIs ==
    ASSUME words \in Lines, NEW w
    PROVE  /\ \A p \in Places(w) : \E r \in 1..Len(words) : \E c \in Columns(w, r) :
                 p = <<r, c>> /\ p[1] = r /\ p[2] = c
           /\ \A r \in 1..Len(words) : \A c \in Columns(w, r) : <<r, c>> \in Places(w)
  <1>1. DOMAIN words = 1..Len(words) /\ \A r \in 1..Len(words) : DOMAIN words[r] = 1..Len(words[r])
    BY LinesAre, LineIs
  <1>2. ASSUME NEW p \in Places(w)
        PROVE  \E r \in 1..Len(words) : \E c \in Columns(w, r) :
                  p = <<r, c>> /\ p[1] = r /\ p[2] = c
    <2>1. /\ p \in UNION {{r} \X DOMAIN words[r] : r \in DOMAIN words}
          /\ words[p[1]][p[2]] = w
      BY DEF Places
    <2>2. PICK r \in 1..Len(words) : p \in {r} \X DOMAIN words[r]
      BY <1>1, <2>1
    <2>3. PICK c \in DOMAIN words[r] : p = <<r, c>>
      BY <2>2
    <2>4. p[1] = r /\ p[2] = c
      BY <2>3
    <2> QED
      BY <1>1, <2>1, <2>3, <2>4 DEF Columns
  <1>3. ASSUME NEW r \in 1..Len(words), NEW c \in Columns(w, r)
        PROVE  <<r, c>> \in Places(w)
    <2>1. c \in DOMAIN words[r] /\ words[r][c] = w
      BY <1>1 DEF Columns
    <2>2. <<r, c>> \in {r} \X DOMAIN words[r]
      BY <2>1
    <2>3. <<r, c>> \in UNION {{s} \X DOMAIN words[s] : s \in DOMAIN words}
      BY <1>1, <2>2
    <2>4. <<r, c>>[1] = r /\ <<r, c>>[2] = c
      OBVIOUS
    <2> QED
      BY <2>1, <2>3, <2>4 DEF Places
  <1> QED
    BY <1>2, <1>3

LEMMA LinesUpToNext ==
    ASSUME words \in Lines, NEW w, NEW n \in Nat, n + 1 \in 1..Len(words)
    PROVE  /\ LinesUpTo(w, n + 1) = LinesUpTo(w, n) \cup ({n + 1} \X Columns(w, n + 1))
           /\ LinesUpTo(w, n) \cap ({n + 1} \X Columns(w, n + 1)) = {}
  <1>0. Len(words) \in Nat
    BY LinesAre
  <1>1. ASSUME NEW p \in LinesUpTo(w, n + 1), p \notin LinesUpTo(w, n)
        PROVE  p \in {n + 1} \X Columns(w, n + 1)
    <2>1. p \in Places(w) /\ p[1] <= n + 1 /\ ~(p[1] <= n)
      BY <1>1 DEF LinesUpTo
    <2>2. PICK r \in 1..Len(words) : \E c \in Columns(w, r) : p = <<r, c>> /\ p[1] = r
      BY <2>1, PlaceIs
    <2>3. r = n + 1
      BY <1>0, <2>1, <2>2
    <2> QED
      BY <2>2, <2>3
  <1>2. ASSUME NEW p \in {n + 1} \X Columns(w, n + 1)
        PROVE  p \in LinesUpTo(w, n + 1) /\ p \notin LinesUpTo(w, n)
    <2>1. PICK c \in Columns(w, n + 1) : p = <<n + 1, c>>
      OBVIOUS
    <2>2. p \in Places(w)
      BY <2>1, PlaceIs
    <2>3. p[1] = n + 1
      BY <2>1
    <2>4. n + 1 <= n + 1 /\ ~(n + 1 <= n)
      OBVIOUS
    <2> QED
      BY <2>2, <2>3, <2>4 DEF LinesUpTo
  <1>3. ASSUME NEW p \in LinesUpTo(w, n) PROVE p \in LinesUpTo(w, n + 1)
    <2>1. p \in Places(w) /\ p[1] <= n
      BY DEF LinesUpTo
    <2>2. PICK r \in 1..Len(words) : p[1] = r
      BY <2>1, PlaceIs
    <2>3. p[1] <= n + 1
      BY <1>0, <2>1, <2>2
    <2> QED
      BY <2>1, <2>3 DEF LinesUpTo
  <1> QED
    BY <1>1, <1>2, <1>3

LEMMA CountOfLine ==
    ASSUME NEW r, NEW a \in Nat, NEW b \in Nat, b <= a + 1
    PROVE  IsFiniteSet({r} \X (b..a)) /\ Cardinality({r} \X (b..a)) = a + 1 - b
  <1> DEFINE S == b..a
  <1>1. IsFiniteSet(S) /\ Cardinality(S) = a + 1 - b
    <2>1. IsFiniteSet(b..a) /\ Cardinality(b..a) = IF b > a THEN 0 ELSE a - b + 1
      BY FS_Interval
    <2>2. (IF b > a THEN 0 ELSE a - b + 1) = a + 1 - b
      OBVIOUS
    <2> QED
      BY <2>1, <2>2
  <1>2. IsFiniteSet({r}) /\ Cardinality({r}) = 1
    BY FS_Singleton
  <1>3. IsFiniteSet({r} \X S) /\ Cardinality({r} \X S) = Cardinality({r}) * Cardinality(S)
    BY <1>1, <1>2, FS_Product
  <1>4. 1 * (a + 1 - b) = a + 1 - b
    OBVIOUS
  <1> QED
    BY <1>1, <1>2, <1>3, <1>4

\* How many brackets a line opens and closes.
LEMMA ColumnsOfLine ==
    ASSUME Plain, NEW r \in 1..Len(words)
    PROVE  \/ /\ Depth(r + 1) = Depth(r) + 1 /\ Columns(Closed, r) = {}
              /\ Columns(Opened, r) = Len(words[r])..Len(words[r])
           \/ /\ Depth(r + 1) <= Depth(r) /\ Columns(Opened, r) = {}
              /\ Depth(r) - Depth(r + 1) <= Len(words[r])
              /\ Columns(Closed, r) = (Len(words[r]) + 1 - (Depth(r) - Depth(r + 1)))..Len(words[r])
  <1>1. PICK l \in Line : l = words[r]
    BY PlacesAre, LinesAre
  <1>2. PICK n \in Nat \ {0} : n = Len(l)
    BY LineIs
  <1>3. "{" # "}" /\ \A w : IsBracket(w) <=> (w = "{" \/ w = "}")
    BY DEF IsBracket
  <1>4. CASE Depth(r + 1) = Depth(r) + 1 /\ OpensBy(l)
    <2>1. l[n] = "{" /\ \A c \in 1..n - 1 : ~IsBracket(l[c])
      BY <1>2, <1>4 DEF OpensBy
    <2>2. \A c \in 1..n : c = n \/ c \in 1..n - 1
      OBVIOUS
    <2>3. n \in 1..n /\ n \in n..n /\ \A c \in n..n : c = n
      OBVIOUS
    <2>4. Columns(Closed, r) = {}
      BY <1>1, <1>2, <1>3, <2>1, <2>2, Zenon DEF Columns, Opened, Closed
    <2>5. Columns(Opened, r) = n..n
      <3>1. ASSUME NEW c \in Columns(Opened, r) PROVE c \in n..n
        BY <1>1, <1>2, <1>3, <2>1, <2>2, <2>3, Zenon DEF Columns, Opened, Closed
      <3>2. ASSUME NEW c \in n..n PROVE c \in Columns(Opened, r)
        BY <1>1, <1>2, <2>1, <2>3, Zenon DEF Columns, Opened, Closed
      <3> QED
        BY <3>1, <3>2
    <2> QED
      BY <1>1, <1>2, <1>4, <2>4, <2>5
  <1>5. CASE Depth(r + 1) <= Depth(r) /\ ClosesBy(l, Depth(r) - Depth(r + 1))
    <2>1. PICK k \in Nat : k = Depth(r) - Depth(r + 1)
      BY <1>5, LineBrackets
    <2>2. /\ k <= n
          /\ \A c \in 1..n : (c <= n - k => ~IsBracket(l[c])) /\ (c > n - k => l[c] = "}")
      BY <1>2, <1>5, <2>1 DEF ClosesBy
    <2>3. \A c \in 1..n : c <= n - k \/ c > n - k
      OBVIOUS
    <2>8. k <= n
      BY <2>2
    <2>4. \A c \in 1..n : c > n - k => c \in (n + 1 - k)..n
      BY <2>8
    <2>5. \A c \in (n + 1 - k)..n : c \in 1..n /\ c > n - k
      BY <2>8
    <2>6. Columns(Opened, r) = {}
      BY <1>1, <1>2, <1>3, <2>2, <2>3, Zenon DEF Columns, Opened, Closed
    <2>7. Columns(Closed, r) = (n + 1 - k)..n
      <3>1. ASSUME NEW c \in Columns(Closed, r) PROVE c \in (n + 1 - k)..n
        BY <1>1, <1>2, <1>3, <2>2, <2>3, <2>4, Zenon DEF Columns, Opened, Closed
      <3>2. ASSUME NEW c \in (n + 1 - k)..n PROVE c \in Columns(Closed, r)
        BY <1>1, <1>2, <2>2, <2>5, Zenon DEF Columns, Opened, Closed
      <3> QED
        BY <3>1, <3>2
    <2> QED
      BY <1>1, <1>2, <1>5, <2>1, <2>2, <2>6, <2>7
  <1> QED
    BY <1>1, <1>4, <1>5, LineBrackets

\* Behind line n as many brackets are open as its place says.
Balanced(n) ==
    /\ IsFiniteSet(LinesUpTo(Opened, n)) /\ IsFiniteSet(LinesUpTo(Closed, n))
    /\ Cardinality(LinesUpTo(Opened, n)) = Cardinality(LinesUpTo(Closed, n)) + Depth(n + 1)

\* What a line adds to the brackets of one kind.
LEMMA AddsLine ==
    ASSUME Plain, NEW w, NEW n \in Nat, n + 1 \in 1..Len(words), IsFiniteSet(LinesUpTo(w, n)),
           NEW a \in Nat, NEW b \in Nat, b <= a + 1, Columns(w, n + 1) = b..a
    PROVE  /\ IsFiniteSet(LinesUpTo(w, n + 1)) /\ Cardinality(LinesUpTo(w, n)) \in Nat
           /\ Cardinality(LinesUpTo(w, n + 1)) = Cardinality(LinesUpTo(w, n)) + (a + 1 - b)
  <1> DEFINE P == LinesUpTo(w, n)
             L == {n + 1} \X Columns(w, n + 1)
  <1>1. LinesUpTo(w, n + 1) = P \cup L /\ P \cap L = {}
    BY PlacesAre, LinesUpToNext
  <1>2. IsFiniteSet(L) /\ Cardinality(L) = a + 1 - b
    <2>1. L = {n + 1} \X (b..a)
      OBVIOUS
    <2>2. IsFiniteSet({n + 1} \X (b..a)) /\ Cardinality({n + 1} \X (b..a)) = a + 1 - b
      BY CountOfLine
    <2> QED
      BY <2>1, <2>2
  <1> HIDE DEF P, L
  <1>3. IsFiniteSet(P \cup L) /\ Cardinality(P \cup L) = Cardinality(P) + Cardinality(L) - Cardinality(P \cap L)
    BY <1>2, FS_Union DEF P
  <1>4. Cardinality(P \cap L) = 0
    BY <1>1, FS_EmptySet
  <1>5. Cardinality(P) \in Nat
    BY FS_CardinalityType DEF P
  <1>6. Cardinality(P \cup L) = Cardinality(P) + (a + 1 - b)
    BY <1>2, <1>3, <1>4, <1>5
  <1> QED
    BY <1>1, <1>3, <1>5, <1>6 DEF P

LEMMA AddsNone ==
    ASSUME Plain, NEW w, NEW n \in Nat, n + 1 \in 1..Len(words), Columns(w, n + 1) = {}
    PROVE  LinesUpTo(w, n + 1) = LinesUpTo(w, n)
  <1>1. LinesUpTo(w, n + 1) = LinesUpTo(w, n) \cup ({n + 1} \X Columns(w, n + 1))
    BY PlacesAre, LinesUpToNext
  <1> QED
    BY <1>1

LEMMA BalancedNext ==
    ASSUME Plain, NEW n \in Nat, n + 1 \in 1..Len(words), Balanced(n)
    PROVE  Balanced(n + 1)
  <1>1. PICK d \in Nat : d = Depth(n + 1)
    BY LineBrackets
  <1>2. PICK e \in Nat : e = Depth(n + 1 + 1)
    BY LineBrackets
  <1>3. PICK m \in Nat : m = Len(words[n + 1])
    BY PlacesAre, LinesAre, LineIs
  <1>4. PICK o : o = Cardinality(LinesUpTo(Opened, n))
    OBVIOUS
  <1>5. PICK c : c = Cardinality(LinesUpTo(Closed, n))
    OBVIOUS
  <1>6. IsFiniteSet(LinesUpTo(Opened, n)) /\ IsFiniteSet(LinesUpTo(Closed, n)) /\ o = c + d
    BY <1>1, <1>4, <1>5 DEF Balanced
  <1>7. o \in Nat /\ c \in Nat
    BY <1>4, <1>5, <1>6, FS_CardinalityType
  <1>8. CASE e = d + 1 /\ Columns(Closed, n + 1) = {} /\ Columns(Opened, n + 1) = m..m
    <2>0. PICK b \in Nat : b = m
      OBVIOUS
    <2>1. b <= m + 1 /\ Columns(Opened, n + 1) = b..m /\ IsFiniteSet(LinesUpTo(Opened, n))
      BY <1>6, <1>8, <2>0
    <2>3. /\ IsFiniteSet(LinesUpTo(Opened, n + 1))
          /\ Cardinality(LinesUpTo(Opened, n + 1)) = Cardinality(LinesUpTo(Opened, n)) + (m + 1 - b)
      BY <2>1, AddsLine
    <2>4. LinesUpTo(Closed, n + 1) = LinesUpTo(Closed, n)
      BY <1>8, AddsNone
    <2>5. o + (m + 1 - b) = c + e
      BY <1>6, <1>7, <1>8, <2>0
    <2> QED
      BY <1>2, <1>4, <1>5, <1>6, <2>3, <2>4, <2>5, Zenon DEF Balanced
  <1>9. CASE /\ e <= d /\ d - e <= m /\ Columns(Opened, n + 1) = {}
             /\ Columns(Closed, n + 1) = (m + 1 - (d - e))..m
    <2>2. PICK b \in Nat : b = m + 1 - (d - e)
      BY <1>9
    <2>3. b <= m + 1 /\ Columns(Closed, n + 1) = b..m /\ IsFiniteSet(LinesUpTo(Closed, n))
      BY <1>6, <1>9, <2>2
    <2>4. LinesUpTo(Opened, n + 1) = LinesUpTo(Opened, n)
      BY <1>9, AddsNone
    <2>5. /\ IsFiniteSet(LinesUpTo(Closed, n + 1))
          /\ Cardinality(LinesUpTo(Closed, n + 1)) = Cardinality(LinesUpTo(Closed, n)) + (m + 1 - b)
      BY <2>3, AddsLine
    <2>6. o = (c + (m + 1 - b)) + e
      BY <1>6, <1>7, <1>9, <2>2
    <2> QED
      BY <1>2, <1>4, <1>5, <1>6, <2>4, <2>5, <2>6, Zenon DEF Balanced
  <1> QED
    BY <1>1, <1>2, <1>3, <1>8, <1>9, ColumnsOfLine

LEMMA BalancedLines ==
    ASSUME Plain, NEW r \in 0..Len(words)
    PROVE  Balanced(r)
  <1> DEFINE T == {n \in Nat : n \in 0..Len(words) => Balanced(n)}
  <1>1. 0 \in T
    <2>1. \A w : LinesUpTo(w, 0) = {}
      <3>1. ASSUME NEW w, NEW p \in LinesUpTo(w, 0) PROVE FALSE
        <4>1. p \in Places(w) /\ p[1] <= 0
          BY DEF LinesUpTo
        <4>2. PICK s \in 1..Len(words) : p[1] = s
          BY <4>1, PlacesAre, PlaceIs
        <4> QED
          BY <4>1, <4>2, PlacesAre
      <3> QED
        BY <3>1
    <2>2. Depth(0 + 1) = 0
      BY PlacesAre DEF Depth, FirstPlace
    <2>3. IsFiniteSet({}) /\ Cardinality({}) = 0
      BY FS_EmptySet, Zenon
    <2>4. Cardinality({}) = Cardinality({}) + Depth(0 + 1)
      BY <2>2, <2>3
    <2>5. Balanced(0)
      BY <2>1, <2>3, <2>4, Zenon DEF Balanced
    <2> QED
      BY <2>5
  <1>2. ASSUME NEW n \in Nat, n \in T PROVE n + 1 \in T
    <2>1. SUFFICES ASSUME n + 1 \in 0..Len(words) PROVE Balanced(n + 1)
      OBVIOUS
    <2>2. Len(words) \in Nat
      BY PlacesAre
    <2>3. n \in 0..Len(words) /\ n + 1 \in 1..Len(words)
      BY <2>1, <2>2
    <2>4. Balanced(n)
      BY <1>2, <2>3
    <2> QED
      BY <2>3, <2>4, BalancedNext
  <1> HIDE DEF T
  <1>3. r \in T
    <2>1. r \in Nat
      BY PlacesAre
    <2> QED
      BY <1>1, <1>2, <2>1, Induction
  <1> QED
    BY <1>3 DEF T

LEMMA BracketsAreCorrect ==
    ASSUME Plain
    PROVE  IsBracketsCorrect
  <1>1. PICK N \in Nat : N = Len(words)
    BY PlacesAre
  <1>2. \A w : LinesUpTo(w, N) = Places(w)
    <2>1. ASSUME NEW w, NEW p \in Places(w) PROVE p[1] <= N
      <3>1. PICK s \in 1..Len(words) : p[1] = s
        BY PlacesAre, PlaceIs
      <3> QED
        BY <1>1, <3>1
    <2> QED
      BY <2>1 DEF LinesUpTo
  <1>3. Cardinality(Places(Opened)) = Cardinality(Places(Closed))
    <2>1. N \in 0..Len(words)
      BY <1>1
    <2>2. Balanced(N)
      BY <2>1, BalancedLines
    <2>3. Depth(N + 1) = 0
      BY <1>1, PlacesAre DEF Depth
    <2>4. PICK c : c = Cardinality(Places(Closed))
      OBVIOUS
    <2>5. c \in Nat
      BY <1>2, <2>2, <2>4, FS_CardinalityType DEF Balanced
    <2>6. c + 0 = c
      BY <2>5
    <2> QED
      BY <1>2, <2>2, <2>3, <2>4, <2>6 DEF Balanced
  <1>4. ASSUME NEW p \in Places(Closed)
        PROVE  Cardinality(UpTo(Places(Closed), p)) <= Cardinality(UpTo(Places(Opened), p))
    <2>0. PICK r \in 1..Len(words) : \E c \in Columns(Closed, r) : p = <<r, c>> /\ p[1] = r /\ p[2] = c
      BY PlacesAre, PlaceIs
    <2>1. PICK c \in Columns(Closed, r) : p = <<r, c>> /\ p[1] = r /\ p[2] = c
      BY <2>0
    <2>2. PICK n \in Nat : r = n + 1
      <3>1. r - 1 \in Nat /\ r = (r - 1) + 1
        BY PlacesAre
      <3> QED
        BY <3>1
    <2>3. Balanced(n)
      <3>1. n \in 0..Len(words)
        BY <1>1, <2>2
      <3> QED
        BY <3>1, BalancedLines
    <2>4. PICK m \in Nat : m = Len(words[r])
      BY PlacesAre, LinesAre, LineIs
    <2>5. PICK d \in Nat : d = Depth(n + 1)
      BY <2>2, LineBrackets
    <2>6. PICK k \in Nat : k <= d /\ k <= m /\ Columns(Closed, r) = (m + 1 - k)..m
      <3>1. Columns(Closed, r) # {}
        OBVIOUS
      <3>2. PICK e \in Nat : e = Depth(r + 1)
        BY LineBrackets
      <3>3. e <= d /\ d - e <= m /\ Columns(Closed, r) = (m + 1 - (d - e))..m
        BY <2>2, <2>4, <2>5, <3>1, <3>2, ColumnsOfLine
      <3>4. d - e \in Nat /\ d - e <= d
        BY <3>3
      <3> QED
        BY <3>3, <3>4
    <2>7. c \in m + 1 - k..m
      BY <2>6
    <2> DEFINE S == {r} \X ((m + 1 - k)..c)
               C == LinesUpTo(Closed, n)
               O == LinesUpTo(Opened, n)
    <2>8. UpTo(Places(Closed), p) \subseteq C \cup S
      <3>1. ASSUME NEW q \in UpTo(Places(Closed), p) PROVE q \in C \cup S
        <4>1. q \in Places(Closed) /\ (q[1] < p[1] \/ (q[1] = p[1] /\ q[2] <= p[2]))
          BY DEF UpTo
        <4>0. PICK s \in 1..Len(words) : \E x \in Columns(Closed, s) : q = <<s, x>> /\ q[1] = s /\ q[2] = x
          BY <4>1, PlacesAre, PlaceIs
        <4>2. PICK x \in Columns(Closed, s) : q = <<s, x>> /\ q[1] = s /\ q[2] = x
          BY <4>0
        <4>3. CASE s < r
          <5>1. s <= n
            BY <1>1, <2>2, <4>3
          <5> QED
            BY <4>1, <4>2, <5>1 DEF LinesUpTo
        <4>4. CASE s = r /\ x <= c
          <5>1. x \in (m + 1 - k)..m
            BY <2>6, <4>4
          <5>2. x \in (m + 1 - k)..c
            BY <2>6, <2>7, <4>4, <5>1
          <5> QED
            BY <4>2, <4>4, <5>2
        <4> QED
          BY <2>1, <4>1, <4>2, <4>3, <4>4
      <3> QED
        BY <3>1
    <2>9. O \subseteq UpTo(Places(Opened), p)
      <3>1. ASSUME NEW q \in O PROVE q \in UpTo(Places(Opened), p)
        <4>1. q \in Places(Opened) /\ q[1] <= n
          BY DEF LinesUpTo
        <4>2. PICK s \in 1..Len(words) : q[1] = s
          BY <4>1, PlacesAre, PlaceIs
        <4>3. q[1] < p[1]
          BY <1>1, <2>1, <2>2, <4>1, <4>2
        <4> QED
          BY <4>1, <4>3 DEF UpTo
      <3> QED
        BY <3>1
    <2>10. IsFiniteSet(S) /\ Cardinality(S) <= k /\ Cardinality(S) \in Nat
      <3>1. PICK b \in Nat : b = m + 1 - k
        BY <2>6
      <3>2. c \in Nat /\ c <= m /\ b <= c + 1
        BY <2>7, <3>1
      <3>3. IsFiniteSet(S) /\ Cardinality(S) = c + 1 - b
        <4>1. S = {r} \X (b..c)
          BY <3>1
        <4>2. IsFiniteSet({r} \X (b..c)) /\ Cardinality({r} \X (b..c)) = c + 1 - b
          BY <3>2, CountOfLine
        <4> QED
          BY <4>1, <4>2
      <3>4. c + 1 - b <= k /\ c + 1 - b \in Nat
        BY <2>6, <3>1, <3>2
      <3> QED
        BY <3>3, <3>4
    <2>11. IsFiniteSet(C) /\ IsFiniteSet(O) /\ Cardinality(O) = Cardinality(C) + d
      BY <2>3, <2>5 DEF Balanced
    <2> HIDE DEF S, C, O
    <2>12. Cardinality(C) \in Nat /\ Cardinality(O) \in Nat
      BY <2>11, FS_CardinalityType
    <2>13. Cardinality(UpTo(Places(Closed), p)) <= Cardinality(C) + k
      <3>1. /\ IsFiniteSet(C \cup S)
            /\ Cardinality(C \cup S) = Cardinality(C) + Cardinality(S) - Cardinality(C \cap S)
        BY <2>10, <2>11, FS_Union
      <3>2. Cardinality(C \cap S) \in Nat
        <4>1. IsFiniteSet(C \cap S)
          BY <2>11, FS_Intersection
        <4> QED
          BY <4>1, FS_CardinalityType
      <3>3. IsFiniteSet(UpTo(Places(Closed), p)) /\ Cardinality(UpTo(Places(Closed), p)) <= Cardinality(C \cup S)
        BY <2>8, <3>1, FS_Subset
      <3>4. Cardinality(UpTo(Places(Closed), p)) \in Nat
        BY <3>3, FS_CardinalityType
      <3> QED
        BY <2>10, <2>12, <3>1, <3>2, <3>3, <3>4
    <2>14. Cardinality(O) <= Cardinality(UpTo(Places(Opened), p)) /\ Cardinality(UpTo(Places(Opened), p)) \in Nat
      <3>1. IsFiniteSet(Places(Opened))
        <4>1. N \in 0..Len(words)
          BY <1>1
        <4> QED
          BY <1>2, <4>1, BalancedLines DEF Balanced
      <3>2. IsFiniteSet(UpTo(Places(Opened), p))
        <4>1. UpTo(Places(Opened), p) \in SUBSET Places(Opened)
          BY DEF UpTo
        <4> QED
          BY <3>1, <4>1, FS_Subset
      <3> QED
        BY <2>9, <3>2, FS_Subset, FS_CardinalityType
    <2>15. Cardinality(UpTo(Places(Closed), p)) \in Nat
      <3>1. IsFiniteSet(Places(Closed))
        <4>1. N \in 0..Len(words)
          BY <1>1
        <4> QED
          BY <1>2, <4>1, BalancedLines DEF Balanced
      <3>2. UpTo(Places(Closed), p) \in SUBSET Places(Closed)
        BY DEF UpTo
      <3> QED
        BY <3>1, <3>2, FS_Subset, FS_CardinalityType
    <2> DEFINE u == Cardinality(UpTo(Places(Closed), p))
               v == Cardinality(UpTo(Places(Opened), p))
               cc == Cardinality(C)
               oo == Cardinality(O)
    <2>16. /\ u \in Nat /\ v \in Nat /\ cc \in Nat /\ oo \in Nat /\ u <= cc + k /\ oo <= v
           /\ oo = cc + d /\ k <= d
      BY <2>6, <2>11, <2>12, <2>13, <2>14, <2>15
    <2> HIDE DEF u, v, cc, oo
    <2>17. u <= v
      BY <2>16
    <2> QED
      BY <2>17 DEF u, v
  <1> QED
    BY <1>3, <1>4, Zenon DEF IsBracketsCorrect, Opened, Closed

-----------------------------------------------------------------------------
(* And it has three words                                                  *)

\* What SumFunction computes, set by set.
AnyOf(s) == CHOOSE x \in s : TRUE
SumIn(g, f, s) == IF s = {} THEN 0 ELSE f[AnyOf(s)] + g[s \ {AnyOf(s)}]
Sums(g, f, D) == g = [s \in SUBSET D |-> SumIn(g, f, s)]

LEMMA SumIs ==
    ASSUME NEW f
    PROVE  SumFunction(f) = (CHOOSE g : Sums(g, f, DOMAIN f))[DOMAIN f]
  BY DEF SumFunction, SumFunctionOnSet, FoldFunctionOnSet, MapThenFoldSet, Sums, SumIn, AnyOf

LEMMA WithoutAny ==
    ASSUME NEW D, IsFiniteSet(D), NEW s \in SUBSET D, s # {}
    PROVE  /\ AnyOf(s) \in D /\ s \ {AnyOf(s)} \in SUBSET D
           /\ Cardinality(s) \in Nat \ {0} /\ Cardinality(s \ {AnyOf(s)}) = Cardinality(s) - 1
  <1>1. AnyOf(s) \in s
    BY DEF AnyOf
  <1>2. IsFiniteSet(s)
    BY FS_Subset
  <1>3. Cardinality(s) \in Nat /\ Cardinality(s) # 0
    BY <1>2, FS_CardinalityType, FS_EmptySet
  <1>4. Cardinality(s \ {AnyOf(s)}) = Cardinality(s) - 1
    BY <1>1, <1>2, FS_RemoveElement
  <1> QED
    BY <1>1, <1>3, <1>4

LEMMA SumsExist ==
    ASSUME NEW f, NEW D, IsFiniteSet(D)
    PROVE  \E g : Sums(g, f, D)
  <1> DEFINE Small(g, n) ==
                 \A s \in SUBSET D : Cardinality(s) <= n => g[s] = SumIn(g, f, s)
             T == {n \in Nat : \E g : Small(g, n)}
  <1>0. \A s \in SUBSET D : IsFiniteSet(s) /\ Cardinality(s) \in Nat /\ (Cardinality(s) = 0 <=> s = {})
    BY FS_Subset, FS_CardinalityType, FS_EmptySet
  <1>1. 0 \in T
    <2> DEFINE g == [s \in SUBSET D |-> 0]
    <2>1. ASSUME NEW s \in SUBSET D, Cardinality(s) <= 0 PROVE g[s] = SumIn(g, f, s)
      <3>1. s = {}
        BY <1>0, <2>1
      <3> QED
        BY <3>1 DEF SumIn
    <2> HIDE DEF g
    <2>2. Small(g, 0)
      BY <2>1
    <2> QED
      BY <2>2
  <1>2. ASSUME NEW n \in Nat, n \in T PROVE n + 1 \in T
    <2>1. PICK g : Small(g, n)
      BY <1>2
    <2> DEFINE h == [s \in SUBSET D |-> IF Cardinality(s) <= n THEN g[s] ELSE SumIn(g, f, s)]
    <2>2. \A s \in SUBSET D : h[s] = IF Cardinality(s) <= n THEN g[s] ELSE SumIn(g, f, s)
      OBVIOUS
    <2> HIDE DEF h
    <2>3. ASSUME NEW s \in SUBSET D, Cardinality(s) <= n + 1 PROVE h[s] = SumIn(h, f, s)
      <3>1. h[s] = SumIn(g, f, s)
        BY <2>1, <2>2
      <3>2. CASE s = {}
        BY <3>1, <3>2 DEF SumIn
      <3>3. CASE s # {}
        <4>1. /\ s \ {AnyOf(s)} \in SUBSET D
              /\ Cardinality(s) \in Nat \ {0} /\ Cardinality(s \ {AnyOf(s)}) = Cardinality(s) - 1
          BY <3>3, WithoutAny
        <4>2. Cardinality(s \ {AnyOf(s)}) <= n
          BY <2>3, <4>1
        <4>3. h[s \ {AnyOf(s)}] = g[s \ {AnyOf(s)}]
          BY <2>2, <4>1, <4>2
        <4> QED
          BY <3>1, <3>3, <4>3 DEF SumIn
      <3> QED
        BY <3>2, <3>3
    <2>4. Small(h, n + 1)
      BY <2>3
    <2> QED
      BY <2>4
  <1> HIDE DEF T
  <1>3. Cardinality(D) \in T
    <2>1. Cardinality(D) \in Nat
      BY FS_CardinalityType
    <2> QED
      BY <1>1, <1>2, <2>1, Induction
  <1>4. PICK g : Small(g, Cardinality(D))
    BY <1>3 DEF T
  <1> DEFINE h == [s \in SUBSET D |-> g[s]]
  <1>5. \A s \in SUBSET D : Cardinality(s) <= Cardinality(D)
    BY FS_Subset
  <1>6. \A s \in SUBSET D : h[s] = g[s]
    OBVIOUS
  <1>7. h = [s \in SUBSET D |-> h[s]]
    OBVIOUS
  <1> HIDE DEF h
  <1>8. ASSUME NEW s \in SUBSET D PROVE h[s] = SumIn(h, f, s)
    <2>1. h[s] = SumIn(g, f, s)
      BY <1>4, <1>5, <1>6
    <2>2. s # {} => h[s \ {AnyOf(s)}] = g[s \ {AnyOf(s)}]
      BY <1>6, WithoutAny
    <2> QED
      BY <2>1, <2>2 DEF SumIn
  <1>9. Sums(h, f, D)
    BY <1>7, <1>8 DEF Sums
  <1> QED
    BY <1>9

\* Every term counts at least once.
LEMMA SumAtLeast ==
    ASSUME NEW f, IsFiniteSet(DOMAIN f), \A x \in DOMAIN f : f[x] \in Nat \ {0}
    PROVE  SumFunction(f) \in Nat /\ SumFunction(f) >= Cardinality(DOMAIN f)
  <1>1. PICK D : D = DOMAIN f
    OBVIOUS
  <1>2. PICK g : g = CHOOSE h : Sums(h, f, D)
    OBVIOUS
  <1>3. Sums(g, f, D)
    BY <1>1, <1>2, SumsExist
  <1>4. \A s \in SUBSET D : g[s] = SumIn(g, f, s)
    BY <1>3 DEF Sums
  <1> DEFINE T == {n \in Nat : \A s \in SUBSET D :
                      Cardinality(s) = n => g[s] \in Nat /\ g[s] >= n}
  <1>5. 0 \in T
    <2>1. ASSUME NEW s \in SUBSET D, Cardinality(s) = 0 PROVE g[s] = 0
      <3>1. s = {}
        BY <1>1, <2>1, FS_Subset, FS_EmptySet
      <3> QED
        BY <1>4, <3>1 DEF SumIn
    <2> QED
      BY <2>1
  <1>6. ASSUME NEW n \in Nat, n \in T PROVE n + 1 \in T
    <2>1. ASSUME NEW s \in SUBSET D, Cardinality(s) = n + 1 PROVE g[s] \in Nat /\ g[s] >= n + 1
      <3>1. s # {}
        BY <2>1, FS_EmptySet
      <3>2. /\ AnyOf(s) \in D /\ s \ {AnyOf(s)} \in SUBSET D
            /\ Cardinality(s \ {AnyOf(s)}) = Cardinality(s) - 1
        BY <1>1, <3>1, WithoutAny
      <3>3. Cardinality(s \ {AnyOf(s)}) = n
        BY <2>1, <3>2
      <3>4. g[s \ {AnyOf(s)}] \in Nat /\ g[s \ {AnyOf(s)}] >= n
        BY <1>6, <3>2, <3>3
      <3>5. g[s] = f[AnyOf(s)] + g[s \ {AnyOf(s)}] /\ f[AnyOf(s)] \in Nat \ {0}
        BY <1>1, <1>4, <3>1, <3>2 DEF SumIn
      <3> QED
        BY <3>4, <3>5
    <2> QED
      BY <2>1
  <1> HIDE DEF T
  <1>7. Cardinality(D) \in T
    <2>1. Cardinality(D) \in Nat
      BY <1>1, FS_CardinalityType
    <2> QED
      BY <1>5, <1>6, <2>1, Induction
  <1>8. g[D] \in Nat /\ g[D] >= Cardinality(D)
    BY <1>7 DEF T
  <1> QED
    BY <1>1, <1>2, <1>8, SumIs

\* There are at least three lines, and so at least three words.
LEMMA ThreeWords ==
    ASSUME Plain
    PROVE  CountWords >= 3
  <1>1. PICK N \in Nat : N = Len(words)
    BY PlacesAre
  <1>2. N >= 2
    BY <1>1, FirstLine
  <1>3. N # 2
    <2>1. SUFFICES ASSUME N = 2 PROVE FALSE
      OBVIOUS
    <2>2. Before(3).depth = 0 /\ Before(3).sites = Len(input.sites)
      <3>1. N + 1 = 3
        BY <2>1
      <3> QED
        BY <1>1, <3>1, PlacesAre
    <2>3. Before(2).depth = 1 /\ ~Before(2).head /\ Before(2).sites = 0
      BY <2>2, FirstLine
    <2>4. LineKind(Before(2), Before(3), words[2]) /\ IsPlace(Before(2)) /\ IsPlace(Before(3))
      <3>1. 2 \in 1..Len(words) /\ 2 + 1 = 3
        BY <1>1, <1>2
      <3> QED
        BY <3>1, LinesAreOfKind
    <2>5. Before(2).depth \in Nat /\ Before(3).depth \in Nat
      BY <2>4 DEF IsPlace
    <2>6. Len(input.sites) # 0
      <3>1. input.sites # << >> /\ input.sites \in Seq([words : Directives, locations : LocationsText])
        BY PlainAssumption, MeantAssumption DEF InPlainWords, LocationsText, Plain
      <3> QED
        BY <3>1
    <2>7. CASE HttpDirective(Before(2), Before(3), words[2])
      BY <2>2, <2>7 DEF HttpDirective
    <2>8. CASE ServerHead(Before(2), Before(3), words[2])
      <3>1. Before(3).depth = 1 \/ Before(3).depth = 1 + 1
        BY <2>3, <2>8, Zenon DEF ServerHead, Opening
      <3> QED
        BY <2>2, <3>1
    <2>9. CASE ClosingLine(Before(2), Before(3), words[2])
      BY <2>2, <2>3, <2>6, <2>9 DEF ClosingLine, Leaves
    <2> QED
      BY <2>3, <2>4, <2>5, <2>7, <2>8, <2>9, KindAt
  <1> DEFINE f == [r \in DOMAIN words |-> Len(words[r])]
  <1>4. DOMAIN f = 1..N
    BY <1>1, PlacesAre, LinesAre
  <1>5. \A r \in DOMAIN f : f[r] \in Nat \ {0}
    <2>1. ASSUME NEW r \in 1..N PROVE f[r] \in Nat \ {0}
      <3>1. words[r] \in Line /\ r \in DOMAIN words
        BY <1>1, PlacesAre, LinesAre
      <3> QED
        BY <3>1, LineIs
    <2> QED
      BY <1>4, <2>1
  <1>6. CountWords = SumFunction(f)
    BY DEF CountWords
  <1> HIDE DEF f
  <1>7. IsFiniteSet(1..N) /\ Cardinality(1..N) = IF 1 > N THEN 0 ELSE N - 1 + 1
    BY FS_Interval
  <1>8. CountWords \in Nat /\ CountWords >= Cardinality(1..N)
    BY <1>4, <1>5, <1>6, <1>7, SumAtLeast
  <1> QED
    BY <1>2, <1>3, <1>7, <1>8

-----------------------------------------------------------------------------
(* What the scanner's functions find on such a line                        *)

LEMMA FirstBracketOf ==
    ASSUME Plain, NEW r \in 1..Len(words)
    PROVE  /\ OpensBy(words[r]) => FirstBracket(r, 1) = Len(words[r])
           /\ \A d \in Nat : ClosesBy(words[r], d) => FirstBracket(r, 1) = Len(words[r]) + 1 - d
  <1>1. PICK l \in Line : l = words[r]
    BY PlacesAre, LinesAre
  <1>2. PICK n \in Nat \ {0} : n = Len(l)
    BY LineIs
  <1> DEFINE I == {c \in 1..n : IsBracket(l[c])}
             b == IF I # {} THEN Min(I) ELSE 0
  <1>3. FirstBracket(r, 1) = IF b = 0 THEN n + 1 ELSE b
    BY <1>1, <1>2 DEF FirstBracket, SelectInSubSeq
  <1>4. I \subseteq Nat
    OBVIOUS
  <1>5. IsBracket("{") /\ IsBracket("}")
    BY DEF IsBracket
  <1>6. ASSUME OpensBy(l) PROVE FirstBracket(r, 1) = n
    <2>1. IsBracket(l[n]) /\ \A c \in 1..n - 1 : ~IsBracket(l[c])
      BY <1>2, <1>5, <1>6 DEF OpensBy
    <2>2. n \in I
      BY <2>1
    <2>3. \A c \in I : n <= c
      BY <2>1
    <2> HIDE DEF I
    <2>4. Min(I) = n
      BY <1>4, <2>2, <2>3, LeastIs
    <2> QED
      BY <1>3, <2>2, <2>4
  <1>7. ASSUME NEW d \in Nat, ClosesBy(l, d) PROVE FirstBracket(r, 1) = n + 1 - d
    <2>1. /\ d <= n
          /\ \A c \in 1..n : (c <= n - d => ~IsBracket(l[c])) /\ (c > n - d => IsBracket(l[c]))
      BY <1>2, <1>5, <1>7, Zenon DEF ClosesBy
    <2>2. CASE d = 0
      <3>1. I = {}
        BY <2>1, <2>2
      <3> QED
        BY <1>3, <2>2, <3>1
    <2>3. CASE d # 0
      <3>1. n + 1 - d \in I
        BY <2>1, <2>3
      <3>2. \A c \in I : n + 1 - d <= c
        BY <2>1
      <3> HIDE DEF I
      <3>3. Min(I) = n + 1 - d
        BY <1>4, <3>1, <3>2, LeastIs
      <3>4. n + 1 - d # 0
        BY <2>1
      <3> QED
        BY <1>3, <3>1, <3>3, <3>4
    <2> QED
      BY <2>2, <2>3
  <1> QED
    BY <1>1, <1>2, <1>6, <1>7

LEMMA MaxOfTwo ==
    ASSUME NEW a \in Nat, NEW b \in Nat, a <= b
    PROVE  Max({a, b}) = b
  <1> DEFINE T == {a, b}
  <1>1. b \in T /\ \A y \in T : b >= y
    OBVIOUS
  <1>2. T \subseteq Nat
    OBVIOUS
  <1> HIDE DEF T
  <1>0. PICK m : m = Max(T)
    OBVIOUS
  <1>3. m \in T /\ \A y \in T : m >= y
    BY <1>0, <1>1 DEF Max
  <1>4. m \in Nat /\ m >= b /\ b >= m
    BY <1>1, <1>2, <1>3
  <1>5. m = b
    BY <1>4
  <1> QED
    BY <1>0, <1>5 DEF T

LEMMA SkipBracketsOf ==
    ASSUME Plain, NEW r \in 1..Len(words)
    PROVE  /\ ~IsBracket(words[r][1]) => SkipBrackets(r, 1) = 1
           /\ \A c \in 1..Len(words[r]) + 1 : (\A d \in c..Len(words[r]) : IsBracket(words[r][d])) =>
                 SkipBrackets(r, c) = Len(words[r]) + 1
  <1>1. PICK l \in Line : l = words[r]
    BY PlacesAre, LinesAre
  <1>2. PICK n \in Nat \ {0} : n = Len(l)
    BY LineIs
  <1> DEFINE I(c) == {d \in c..n : ~IsBracket(l[d])}
             w(c) == IF I(c) # {} THEN Min(I(c)) ELSE 0
  <1>3. \A c : SkipBrackets(r, c) = IF w(c) = 0 THEN Max({c, n + 1}) ELSE w(c)
    BY <1>1, <1>2 DEF SkipBrackets, SelectInSubSeq
  <1>4. ASSUME ~IsBracket(l[1]) PROVE SkipBrackets(r, 1) = 1
    <2>1. 1 \in I(1) /\ (\A c \in I(1) : 1 <= c) /\ I(1) \subseteq Nat
      BY <1>4
    <2> HIDE DEF I
    <2>2. Min(I(1)) = 1
      BY <2>1, LeastIs
    <2>3. w(1) = 1
      BY <2>1, <2>2
    <2> HIDE DEF w
    <2>4. 1 # 0
      OBVIOUS
    <2> QED
      BY <1>3, <2>3, <2>4, Zenon
  <1>5. ASSUME NEW c \in 1..n + 1, \A d \in c..n : IsBracket(l[d])
        PROVE  SkipBrackets(r, c) = n + 1
    <2>1. I(c) = {}
      BY <1>5
    <2>2. Max({c, n + 1}) = n + 1
      BY MaxOfTwo
    <2> HIDE DEF I
    <2> QED
      BY <1>3, <2>1, <2>2
  <1> QED
    BY <1>1, <1>2, <1>4, <1>5

\* What is taken of a line in front of its brackets.
LEMMA TakenHead ==
    ASSUME NEW h \in PlainLine, NEW l \in Line, Len(h) <= Len(l), \A c \in 1..Len(h) : l[c] = h[c]
    PROVE  SubSeq(l, 1, Len(h)) = h
  <1>1. PICK s \in Seq(Text) : s = h
    BY PlainLineIs
  <1>2. PICK t \in Seq(Text) : t = l
    BY LineIs
  <1>3. Len(s) <= Len(t) /\ \A c \in 1..Len(s) : t[c] = s[c]
    BY <1>1, <1>2
  <1>4. SubSeq(t, 1, Len(s)) = s
    BY <1>3
  <1> QED
    BY <1>1, <1>2, <1>4

-----------------------------------------------------------------------------
(* Where the scanner is in such a file                                     *)

\* h and ns are what has been collected in front of place p, n servers being complete.
Found(p, n, h, ns) ==
    h = SubSeq(input.http, 1, p.http) /\ ns = [k \in 1..n |-> Site(k)]

NodeAt(p) ==
    [id |-> IF p.words = 0 THEN "" ELSE "server",
     words |-> SubSeq(Site(p.sites).words, 1, p.words),
     location_blocks |-> SubSeq(Site(p.sites).location_blocks, 1, p.blocks)]

\* The same, of a server of which a line is being collected.
StartedAt(p) ==
    [id |-> "server",
     words |-> SubSeq(Site(p.sites).words, 1, p.words),
     location_blocks |-> SubSeq(Site(p.sites).location_blocks, 1, p.blocks)]

\* In front of line r, outside of the servers.
Top(r, h, ns) ==
    /\ r \in 2..Len(words) + 1 /\ Depth(r) < 2 /\ ~Before(r).head
    /\ Found(Before(r), Before(r).sites, h, ns)

\* Behind a line that names a server: its bracket is the next.
ServerNamed(r, h, ns) ==
    /\ r \in 2..Len(words) /\ Before(r).head /\ Depth(r) = 1
    /\ Found(Before(r), Before(r).sites - 1, h, ns)

\* In a server, with nothing collected of a line.
InServer(p, d, nd, lw, h, ns) ==
    d = "server" /\ nd = NodeAt(p) /\ lw = << >> /\ Found(p, p.sites - 1, h, ns)

BetweenServers ==
    \/ at = "parse_words" /\ j = 1 /\ Top(i, http_as_words, nodes)
    \/ /\ at = "parse_words" /\ i \in 1..Len(words) /\ j \in Nat /\ j > Len(words[i])
       /\ Top(i + 1, http_as_words, nodes)
    \/ /\ at = "parse_http_configs" /\ j = 1 /\ Top(i, http_as_words, nodes)
       /\ Depth(i) = 1 => http_index = Len(http_as_words) + 1
    \/ /\ at = "parse_http_configs" /\ i \in 1..Len(words) /\ j = Len(words[i]) + 1
       /\ Top(i + 1, http_as_words, nodes) /\ Depth(i + 1) = 0

AtBracket ==
    \/ /\ at \in {"parse_http_configs", "parse_server"} /\ j = 1
       /\ ServerNamed(i, http_as_words, nodes)
    \/ /\ at = "parse_server" /\ j = 1 /\ Top(i, http_as_words, nodes) /\ i \in 1..Len(words)
       /\ words[i] = Append(ServerName, "{") \/ words[i] = Closing(1)
    \/ /\ at = "parse_server_loop" /\ j = 1 /\ Top(i, http_as_words, nodes) /\ i \in 1..Len(words)
       /\ words[i] = Closing(1) /\ line_words = << >> /\ node = EmptyNode

\* In a directive of a server: its words in front of column c have been collected.
Collecting(r, c, d, nd, lw, h, ns) ==
    LET p == Before(r)
        l == Site(p.sites).words[p.words + 1]
    IN /\ ServerDirective(p, Before(r + 1), words[r])
       /\ c \in 2..Len(l) + 1 /\ lw = SubSeq(l, 1, c - 1)
       /\ d = "server" /\ nd = StartedAt(p)
       /\ Found(p, p.sites - 1, h, ns)

OnDirective ==
    /\ at = "parse_server_loop" /\ i \in 1..Len(words)
    /\ Collecting(i, j, id, node, line_words, http_as_words, nodes)

\* From column c on, a line only closes blocks.
OnlyClosing(l, c) == \A x \in c..Len(l) : l[x] = "}"

\* Column c of line r is the bracket of a block, or behind the line's words.
BehindWords(r, c) ==
    \/ c = Len(words[r]) /\ words[r][c] = "{" /\ Depth(r + 1) = 2
    \/ c = Len(words[r]) + 1 /\ Depth(r + 1) = 2
    \/ /\ c \in 1..Len(words[r]) /\ OnlyClosing(words[r], c)
       /\ Depth(r + 1) < 2 /\ Whole(Before(r + 1)) /\ Before(r + 1).sites # 0

InBlock ==
    /\ i \in 1..Len(words)
    /\ \/ /\ at = "parse_server_loop" /\ BehindWords(i, j) /\ ~Before(i + 1).head
          /\ InServer(Before(i + 1), id, node, line_words, http_as_words, nodes)
       \/ /\ at = "parse_server_loop" /\ j = 1 /\ Depth(i) = 2 /\ ~Before(i).head
          /\ InServer(Before(i), id, node, line_words, http_as_words, nodes)
       \/ /\ at = "parse_server_location" /\ j = 1
          /\ InServer(Before(i), id, node, line_words, http_as_words, nodes)
          /\ \/ Depth(i) = 3
             \/ Depth(i) = 2 /\ Before(i).head
             \/ Depth(i) = 2 /\ words[i][1] = "location"

Reading == BetweenServers \/ AtBracket \/ OnDirective \/ InBlock

\* All that there is has been collected.
Complete(h, ns) ==
    h = input.http /\ ns = [k \in DOMAIN input.sites |-> Site(k)]

-----------------------------------------------------------------------------
(* The same of the next state                                              *)

LEMMA ReadsBetween ==
    ASSUME input' = input, words' = words
    PROVE  /\ at' = "parse_words" /\ j' = 1 /\ Top(i', http_as_words', nodes') => Reading'
           /\ /\ at' = "parse_words" /\ i' \in 1..Len(words) /\ j' \in Nat /\ j' > Len(words[i'])
              /\ Top(i' + 1, http_as_words', nodes')
              => Reading'
           /\ /\ at' = "parse_http_configs" /\ j' = 1 /\ Top(i', http_as_words', nodes')
              /\ Depth(i') = 1 => http_index' = Len(http_as_words') + 1
              => Reading'
           /\ /\ at' = "parse_http_configs" /\ i' \in 1..Len(words) /\ j' = Len(words[i']) + 1
              /\ Top(i' + 1, http_as_words', nodes') /\ Depth(i' + 1) = 0
              => Reading'
  BY DEF Reading, BetweenServers, Top, Depth, Before, Found, Site

LEMMA ReadsBracket ==
    ASSUME input' = input, words' = words
    PROVE  /\ /\ at' \in {"parse_http_configs", "parse_server"} /\ j' = 1
              /\ ServerNamed(i', http_as_words', nodes')
              => Reading'
           /\ /\ at' = "parse_server" /\ j' = 1 /\ Top(i', http_as_words', nodes')
              /\ i' \in 1..Len(words) /\ (words[i'] = Append(ServerName, "{") \/ words[i'] = Closing(1))
              => Reading'
           /\ /\ at' = "parse_server_loop" /\ j' = 1 /\ Top(i', http_as_words', nodes')
              /\ i' \in 1..Len(words) /\ words[i'] = Closing(1) /\ line_words' = << >>
              /\ node' = EmptyNode
              => Reading'
  BY Zenon DEF Reading, AtBracket, Top, ServerNamed, Depth, Before, Found, Site, Closing

LEMMA ReadsDirective ==
    ASSUME input' = input, words' = words, at' = "parse_server_loop", i' \in 1..Len(words),
           Collecting(i', j', id', node', line_words', http_as_words', nodes')
    PROVE  Reading'
  BY DEF Reading, OnDirective, Collecting, ServerDirective, Leaves, Whole, Over, StartedAt, Closing,
         Before, Found, Site

LEMMA ReadsBlock ==
    ASSUME input' = input, words' = words, i' \in 1..Len(words)
    PROVE  /\ /\ at' = "parse_server_loop" /\ BehindWords(i', j') /\ ~Before(i' + 1).head
              /\ InServer(Before(i' + 1), id', node', line_words', http_as_words', nodes')
              => Reading'
           /\ /\ at' = "parse_server_loop" /\ j' = 1 /\ Depth(i') = 2 /\ ~Before(i').head
              /\ InServer(Before(i'), id', node', line_words', http_as_words', nodes')
              => Reading'
           /\ /\ at' = "parse_server_location" /\ j' = 1
              /\ InServer(Before(i'), id', node', line_words', http_as_words', nodes')
              /\ \/ Depth(i') = 3
                 \/ Depth(i') = 2 /\ Before(i').head
                 \/ Depth(i') = 2 /\ words[i'][1] = "location"
              => Reading'
  BY DEF Reading, InBlock, BehindWords, InServer, NodeAt, Whole, Depth, Before, Found, Site

LEMMA TopIs ==
    ASSUME Plain, NEW r, NEW h, NEW ns, Top(r, h, ns)
    PROVE  /\ r > Len(words) => Complete(h, ns)
           /\ r <= Len(words) =>
                /\ r \in 1..Len(words) /\ Depth(r) = 1
                /\ \/ HttpDirective(Before(r), Before(r + 1), words[r])
                   \/ ServerHead(Before(r), Before(r + 1), words[r])
                   \/ ClosingLine(Before(r), Before(r + 1), words[r])
  <1>1. PICK N \in Nat : N = Len(words)
    BY PlacesAre
  <1>2. r \in 2..N + 1 /\ Depth(r) < 2 /\ ~Before(r).head /\ Found(Before(r), Before(r).sites, h, ns)
    BY <1>1 DEF Top
  <1>3. PICK n \in Nat : r = n + 1 /\ n \in 1..N
    <2>1. r - 1 \in Nat /\ r = (r - 1) + 1 /\ r - 1 \in 1..N
      BY <1>2
    <2> QED
      BY <2>1
  <1>4. Fits(n)
    BY <1>1, <1>3, PlaceBehind
  <1>5. Depth(r) \in Nat
    <2>1. IsPlace(Before(r))
      BY <1>1, <1>2, PlacesAre
    <2> QED
      BY <2>1 DEF IsPlace, Depth
  <1>6. CASE r > N
    <2>1. r = N + 1
      BY <1>2, <1>6
    <2>2. Before(r).depth = 0 /\ Before(r).sites = Len(input.sites)
      BY <1>1, <2>1, PlacesAre
    <2>3. Before(r).http = Len(input.http)
      BY <1>2, <1>3, <1>4, <2>2 DEF Fits, Over
    <2>4. SubSeq(input.http, 1, Len(input.http)) = input.http
      <3>1. PICK s \in Seq(Line) : s = input.http
        BY BlockShape DEF Plain, Lines
      <3>2. SubSeq(s, 1, Len(s)) = s
        OBVIOUS
      <3> QED
        BY <3>1, <3>2
    <2>5. DOMAIN input.sites = 1..Len(input.sites)
      BY BlockShape DEF Plain
    <2> QED
      BY <1>1, <1>2, <1>6, <2>2, <2>3, <2>4, <2>5 DEF Found, Complete
  <1>7. CASE r <= N
    <2>1. r \in 1..N
      BY <1>2, <1>7
    <2>2. Depth(r) # 0
      <3>1. n # N
        BY <1>3, <1>7
      <3> QED
        BY <1>1, <1>2, <1>3, <1>4, <3>1 DEF Fits, Depth
    <2>3. Depth(r) = 1
      BY <1>2, <1>5, <2>2
    <2>4. LineKind(Before(r), Before(r + 1), words[r]) /\ IsPlace(Before(r)) /\ IsPlace(Before(r + 1))
      BY <1>1, <2>1, LinesAreOfKind
    <2>5. Before(r).depth \in Nat /\ Before(r + 1).depth \in Nat /\ Before(r).depth = 1
      BY <2>3, <2>4 DEF IsPlace, Depth
    <2>6. \/ HttpDirective(Before(r), Before(r + 1), words[r])
          \/ ServerHead(Before(r), Before(r + 1), words[r])
          \/ ClosingLine(Before(r), Before(r + 1), words[r])
      BY <1>2, <2>4, <2>5, KindAt
    <2>7. ~(r > N)
      BY <1>2, <1>7
    <2> QED
      BY <1>1, <2>1, <2>3, <2>6, <2>7
  <1> QED
    BY <1>1, <1>2, <1>6, <1>7

\* A directive of the http block.
LEMMA HttpLineIs ==
    ASSUME Plain, NEW r \in 1..Len(words), HttpDirective(Before(r), Before(r + 1), words[r])
    PROVE  words[r] \in PlainLine
  <1>1. IsPlace(Before(r))
    BY LinesAreOfKind
  <1>2. PICK m \in Nat : m = Before(r).http
    BY <1>1, WordsOfHttp DEF IsPlace
  <1>3. words[r] = input.http[m + 1] /\ m < Len(input.http)
    BY <1>2 DEF HttpDirective
  <1>4. m + 1 \in 1..Len(input.http)
    BY <1>3, WordsOfHttp
  <1> QED
    BY <1>3, <1>4, WordsOfHttp

LEMMA ClosingOne == \A l : l = Closing(1) => Len(l) = 1 /\ l[1] = "}" /\ IsBracket(l[1])
  <1>1. Len(Closing(1)) = 1 /\ Closing(1)[1] = "}"
    <2>1. 1 \in Nat /\ 1 \in 1..1
      OBVIOUS
    <2> QED
      BY <2>1, ClosingIs
  <1>2. IsBracket("}")
    BY DEF IsBracket
  <1> QED
    BY <1>1, <1>2

\* Outside of the servers a closing line closes the http block.
LEMMA ClosingHttp ==
    ASSUME Plain, NEW r \in 1..Len(words), Depth(r) = 1, NEW h, NEW ns,
           Found(Before(r), Before(r).sites, h, ns), r # 1,
           ClosingLine(Before(r), Before(r + 1), words[r])
    PROVE  words[r] = Closing(1) /\ Depth(r + 1) = 0 /\ Top(r + 1, h, ns)
  <1>1. Depth(r + 1) \in Nat
    BY LineBrackets
  <1>2. /\ Before(r + 1).depth < Before(r).depth
        /\ words[r] = Closing(Before(r).depth - Before(r + 1).depth)
        /\ ~Before(r + 1).head /\ Before(r + 1).http = Before(r).http
        /\ Before(r + 1).sites = Before(r).sites
    BY DEF ClosingLine, Leaves
  <1>3. Depth(r + 1) = 0
    BY <1>1, <1>2 DEF Depth
  <1>4. Before(r).depth - Before(r + 1).depth = 1
    BY <1>3 DEF Depth
  <1>5. r + 1 \in 2..Len(words) + 1
    BY PlacesAre
  <1>6. Found(Before(r + 1), Before(r + 1).sites, h, ns)
    BY <1>2 DEF Found
  <1> QED
    BY <1>2, <1>3, <1>4, <1>5, <1>6 DEF Top

\* Only a line behind the name of a block starts with an opening bracket.
LEMMA StartsWithWord ==
    ASSUME Plain, NEW r \in 1..Len(words), ~Before(r).head
    PROVE  words[r][1] # "{"
  <1> DEFINE p == Before(r)
             q == Before(r + 1)
             l == words[r]
  <1>1. LineKind(p, q, l) /\ IsPlace(p) /\ IsPlace(q)
    BY LinesAreOfKind
  <1>2. p.depth \in Nat /\ q.depth \in Nat
    BY <1>1, PlaceTypes, Zenon DEF IsPlace
  <1>3. ~IsBracket("}") \/ IsBracket("{")
    BY DEF IsBracket
  <1> DEFINE Starts == \E h \in PlainLine : l[1] = h[1]
  <1>4. Starts => l[1] # "{"
    <2>1. ASSUME NEW h \in PlainLine, l[1] = h[1] PROVE l[1] # "{"
      <3>1. 1 \in 1..Len(h)
        BY PlainLineIs
      <3>2. ~IsBracket(h[1])
        BY <3>1, PlainLineIs
      <3> QED
        BY <2>1, <3>2 DEF IsBracket
    <2> QED
      BY <2>1
  <1>5. ASSUME NEW h \in PlainLine, Opening(p, q, h, l) PROVE Starts
    <2>1. l = h \/ l = Append(h, "{")
      BY <1>5 DEF Opening
    <2>2. 1 \in 1..Len(h)
      BY PlainLineIs
    <2>3. Append(h, "{")[1] = h[1]
      BY <2>2, AppendOpens
    <2> QED
      BY <2>1, <2>3
  <1>6. CASE HttpHead(p, q, l) \/ ServerHead(p, q, l)
    BY <1>4, <1>5, <1>6, NamesArePlain, Zenon DEF HttpHead, ServerHead
  <1>7. CASE HttpDirective(p, q, l)
    BY <1>4, <1>7, HttpLineIs
  <1>8. CASE LocationHead(p, q, l)
    <2>1. PICK h \in PlainLine : Opening(p, q, h, l)
      BY <1>8, AddedWords DEF LocationHead
    <2> QED
      BY <1>4, <1>5, <2>1
  <1>9. CASE ServerDirective(p, q, l) \/ LocationDirective(p, q, l)
    <2>1. (p.depth = 2 \/ p.depth = 3) /\ q.depth <= p.depth
      BY <1>9, Zenon DEF ServerDirective, LocationDirective, Leaves
    <2>2. p.depth >= 2 /\ p.depth - q.depth \in Nat
      BY <1>2, <2>1
    <2>3. PICK h \in PlainLine : l = h \o Closing(p.depth - q.depth)
      BY <1>9, <2>2, AddedWords DEF ServerDirective, LocationDirective
    <2>4. 1 \in 1..Len(h)
      BY PlainLineIs
    <2>5. l[1] = h[1]
      BY <2>2, <2>3, <2>4, ClosedBy
    <2> QED
      BY <1>4, <2>5
  <1>10. CASE ClosingLine(p, q, l)
    <2>1. q.depth < p.depth /\ l = Closing(p.depth - q.depth)
      BY <1>10 DEF ClosingLine
    <2>2. p.depth - q.depth \in Nat /\ 1 \in 1..p.depth - q.depth
      BY <1>2, <2>1
    <2>3. l[1] = "}"
      BY <2>1, <2>2, ClosingIs
    <2> QED
      BY <2>3
  <1>11. ~Bracket(p, q, l)
    BY DEF Bracket
  <1> QED
    BY <1>1, <1>6, <1>7, <1>8, <1>9, <1>10, <1>11 DEF LineKind

-----------------------------------------------------------------------------
(* One turn of a loop                                                      *)

\* The scanner is still reading, or it has found everything.
KeepsReading == Reading' \/ (at' = "parsed" /\ Complete(http_as_words', nodes'))

LEMMA NothingFound ==
    ASSUME Plain, NEW p, p.http = 0
    PROVE  Found(p, 0, << >>, << >>)
  <1>1. PICK s \in Seq(Line) : s = input.http
    BY BlockShape DEF Plain, Lines
  <1>2. SubSeq(s, 1, 0) = << >>
    OBVIOUS
  <1>3. 1..0 = {}
    OBVIOUS
  <1>4. << >> = [k \in {} |-> Site(k)]
    OBVIOUS
  <1> QED
    BY <1>1, <1>2, <1>3, <1>4 DEF Found

LEMMA CheckStartsReading ==
    ASSUME Plain, input' = input, CheckWords, http_as_words = << >>, nodes = << >>
    PROVE  Reading'
  <1>1. PICK N \in Nat : N = Len(words)
    BY PlacesAre
  <1>2. /\ N >= 2 /\ words[1][1] = "http"
        /\ Before(2).http = 0 /\ Before(2).sites = 0
        /\ \/ words[1] = Append(HttpName, "{") /\ Before(2).depth = 1 /\ ~Before(2).head
           \/ /\ words[1] = HttpName /\ Before(2).head /\ Before(2).depth = 0
              /\ words[2] = OpenLine /\ Before(3).depth = 1 /\ ~Before(3).head
              /\ Before(3).http = 0 /\ Before(3).sites = 0
    BY <1>1, FirstLine
  <1>3. /\ at' = "parse_words" /\ i' = 2 /\ j' = (IF Len(words[1]) > 1 THEN 1 ELSE 2)
        /\ words' = words /\ http_as_words' = << >> /\ nodes' = << >>
    BY <1>2, BracketsAreCorrect, ThreeWords, Zenon DEF CheckWords, GoTo
  <1>4. Found(Before(2), 0, << >>, << >>) /\ (Before(3).http = 0 => Found(Before(3), 0, << >>, << >>))
    BY <1>2, NothingFound
  <1>8. N >= 2 /\ i' = 2
    BY <1>2, <1>3, Zenon
  <1>5. CASE words[1] = Append(HttpName, "{") /\ Before(2).depth = 1 /\ ~Before(2).head
    <2>1. Len(words[1]) = 2
      BY <1>5, HeadsAre
    <2>2. j' = 1
      BY <1>3, <2>1
    <2>3. 2 \in 2..N + 1 /\ 1 < 2
      BY <1>8
    <2>4. Top(2, << >>, << >>)
      BY <1>1, <1>2, <1>4, <1>5, <2>3, Zenon DEF Top, Depth
    <2> QED
      BY <1>3, <2>2, <2>4, ReadsBetween
  <1>6. CASE /\ words[1] = HttpName /\ words[2] = OpenLine /\ Before(3).depth = 1 /\ ~Before(3).head
             /\ Before(3).http = 0 /\ Before(3).sites = 0
    <2>1. Len(words[1]) = 1 /\ Len(words[2]) = 1
      BY <1>6, HeadsAre
    <2>2. j' = 2 /\ j' \in Nat /\ j' > Len(words[i'])
      BY <1>3, <2>1
    <2>3. 3 \in 2..N + 1 /\ 1 < 2 /\ i' \in 1..N /\ i' + 1 = 3
      BY <1>8
    <2>4. Top(3, << >>, << >>)
      BY <1>1, <1>4, <1>6, <2>3, Zenon DEF Top, Depth
    <2>5. Top(i' + 1, http_as_words', nodes')
      BY <1>3, <2>3, <2>4
    <2> QED
      BY <1>1, <1>3, <2>2, <2>3, <2>5, ReadsBetween
  <1> QED
    BY <1>2, <1>5, <1>6

\* The first word behind a place outside of the servers.
LEMMA TopStarts ==
    ASSUME Plain, NEW r \in 1..Len(words), ~Before(r).head,
           HttpDirective(Before(r), Before(r + 1), words[r])
           \/ ServerHead(Before(r), Before(r + 1), words[r])
    PROVE  ~IsBracket(words[r][1]) /\ Len(words[r]) \in Nat \ {0}
  <1>1. CASE HttpDirective(Before(r), Before(r + 1), words[r])
    <2>1. words[r] \in PlainLine
      BY <1>1, HttpLineIs
    <2> QED
      BY <2>1, PlainLineIs
  <1>2. CASE ServerHead(Before(r), Before(r + 1), words[r])
    <2>1. words[r] = ServerName \/ words[r] = Append(ServerName, "{")
      BY <1>2 DEF ServerHead, Opening
    <2>2. (Len(words[r]) = 1 \/ Len(words[r]) = 2) /\ words[r][1] = "server"
      BY <2>1, HeadsAre
    <2>3. ~IsBracket("server")
      BY DEF IsBracket
    <2> QED
      BY <2>2, <2>3
  <1> QED
    BY <1>1, <1>2

LEMMA ParseKeepsReading ==
    ASSUME Plain, input' = input, Reading, ParseWords
    PROVE  KeepsReading
  <1>1. PICK N \in Nat : N = Len(words)
    BY PlacesAre
  <1>2. /\ words' = words /\ http_as_words' = http_as_words /\ nodes' = nodes
        /\ at = "parse_words"
    BY DEF ParseWords
  <1>3. \/ j = 1 /\ Top(i, http_as_words, nodes)
        \/ i \in 1..Len(words) /\ j \in Nat /\ j > Len(words[i]) /\ Top(i + 1, http_as_words, nodes)
    BY <1>2, Zenon DEF Reading, BetweenServers, AtBracket, OnDirective, InBlock
  <1>4. CASE i \in 1..Len(words) /\ j > Len(words[i]) /\ Top(i + 1, http_as_words, nodes)
    <2>1. ~AtEnd
      BY <1>1, <1>4 DEF AtEnd
    <2>2. i' = i + 1 /\ j' = 1 /\ at' = at
      BY <1>4, <2>1, Zenon DEF ParseWords
    <2>3. Top(i', http_as_words', nodes')
      BY <1>2, <1>4, <2>2
    <2> QED
      BY <1>2, <2>2, <2>3, ReadsBetween DEF KeepsReading
  <1>5. CASE j = 1 /\ Top(i, http_as_words, nodes) /\ AtEnd
    <2>1. at' = "parsed"
      BY <1>5, Zenon DEF ParseWords, GoTo
    <2>2. Complete(http_as_words, nodes)
      BY <1>5, TopIs DEF AtEnd
    <2> QED
      BY <1>2, <2>1, <2>2 DEF KeepsReading
  <1>6. CASE j = 1 /\ Top(i, http_as_words, nodes) /\ ~AtEnd
    <2>1. i \in 2..N + 1 /\ ~Before(i).head /\ Found(Before(i), Before(i).sites, http_as_words, nodes)
      BY <1>1, <1>6 DEF Top
    <2>2. i <= N
      BY <1>1, <1>6, <2>1 DEF AtEnd
    <2>3. /\ i \in 1..Len(words) /\ Depth(i) = 1
          /\ \/ HttpDirective(Before(i), Before(i + 1), words[i])
             \/ ServerHead(Before(i), Before(i + 1), words[i])
             \/ ClosingLine(Before(i), Before(i + 1), words[i])
      BY <1>1, <1>6, <2>2, TopIs
    <2>4. Len(words[i]) \in Nat \ {0}
      BY <2>3, PlacesAre, LinesAre, LineIs
    <2>5. /\ at' = "parse_http_configs" /\ j' = SkipBrackets(i, j) /\ i' = i
          /\ http_index' = Len(http_as_words) + 1
      <3>1. ~(1 > Len(words[i]))
        BY <2>4
      <3> QED
        BY <1>6, <3>1, Zenon DEF ParseWords, GoTo
    <2>6. CASE \/ HttpDirective(Before(i), Before(i + 1), words[i])
               \/ ServerHead(Before(i), Before(i + 1), words[i])
      <3>1. j' = 1
        BY <1>6, <2>1, <2>3, <2>5, <2>6, TopStarts, SkipBracketsOf
      <3>2. Top(i', http_as_words', nodes')
        BY <1>2, <1>6, <2>5
      <3> QED
        BY <1>2, <2>5, <3>1, <3>2, ReadsBetween DEF KeepsReading
    <2>7. CASE ClosingLine(Before(i), Before(i + 1), words[i])
      <3>1. i # 1
        BY <2>1
      <3>2. words[i] = Closing(1) /\ Depth(i + 1) = 0 /\ Top(i + 1, http_as_words, nodes)
        BY <2>1, <2>3, <2>7, <3>1, ClosingHttp
      <3>3. Len(words[i]) = 1 /\ IsBracket(words[i][1])
        BY <3>2, ClosingOne
      <3>4. \A d \in 1..Len(words[i]) : IsBracket(words[i][d])
        BY <3>3
      <3>5. 1 \in 1..Len(words[i]) + 1
        BY <2>4
      <3>6. j' = Len(words[i]) + 1
        BY <1>6, <2>3, <2>5, <3>4, <3>5, SkipBracketsOf
      <3>7. Top(i' + 1, http_as_words', nodes') /\ Depth(i' + 1) = 0 /\ i' \in 1..Len(words)
            /\ j' = Len(words[i']) + 1
        BY <1>2, <2>3, <2>5, <3>2, <3>6
      <3> QED
        BY <1>2, <2>5, <3>7, ReadsBetween DEF KeepsReading
    <2> QED
      BY <2>3, <2>6, <2>7
  <1> QED
    BY <1>3, <1>4, <1>5, <1>6

-----------------------------------------------------------------------------
(* parse_http_configs: directives of the http block                        *)

LEMMA NothingTaken ==
    ASSUME NEW l \in Line
    PROVE  SubSeq(l, 1, 0) = << >> /\ SubSeq(l, 1, 1 - 1) = << >> /\ SubSeq(l, Len(l) + 1, Len(l)) = << >>
           /\ SubSeq(l, 1, Len(l)) = l /\ Len(l) \in Nat \ {0}
  <1>1. PICK s \in Seq(Text) : s = l /\ Len(s) # 0
    BY LineIs
  <1>2. SubSeq(s, 1, 0) = << >> /\ SubSeq(s, Len(s) + 1, Len(s)) = << >>
    OBVIOUS
  <1>3. SubSeq(s, 1, Len(s)) = s /\ Len(s) \in Nat
    OBVIOUS
  <1>4. 1 - 1 = 0
    OBVIOUS
  <1> QED
    BY <1>1, <1>2, <1>3, <1>4, Zenon

LEMMA StopsAtOnce ==
    ASSUME Plain, ParseHttpConfigs, i \in 1..Len(words), j = 1, Stops(1), ~LooksPastEnd
    PROVE  /\ http_as_words' = http_as_words /\ nodes' = nodes /\ words' = words
           /\ IF \E c \in {1, 2} : c <= Len(words[i]) /\ IsBracket(words[i][c])
              THEN at' = "parse_server" /\ j' = 1 /\ i' = i
              ELSE at' = "parse_http_configs" /\ i' = i + 1 /\ j' = 1
  <1>1. PICK l \in Line : l = words[i]
    BY PlacesAre, LinesAre
  <1>2. PICK n \in Nat \ {0} : n = Len(l)
    BY LineIs
  <1>3. StopColumn = 1
    <2> DEFINE s == {c \in 1..n : Stops(c)}
    <2>1. 1 \in s /\ (\A c \in s : 1 <= c) /\ s \subseteq Nat
      OBVIOUS
    <2>2. s # {}
      BY <2>1
    <2>3. StopColumn = IF s = {} THEN n + 1 ELSE Min(s)
      BY <1>1, <1>2, Zenon DEF StopColumn
    <2> HIDE DEF s
    <2>4. Min(s) = 1
      BY <2>1, LeastIs
    <2> QED
      BY <2>2, <2>3, <2>4
  <1>4. SubSeq(words[i], j, StopColumn - 1) = << >>
    BY <1>1, <1>3, NothingTaken
  <1>5. ~AtEnd
    <2>1. Len(words) \in Nat
      BY PlacesAre
    <2> QED
      BY <2>1 DEF AtEnd
  <1>6. 1 + 1 = 2
    OBVIOUS
  <1> QED
    BY <1>3, <1>4, <1>5, <1>6, Zenon DEF ParseHttpConfigs, GoTo

LEMMA StopsNowhere ==
    ASSUME Plain, ParseHttpConfigs, i \in 1..Len(words), j = 1 \/ j = Len(words[i]) + 1,
           \A c \in j..Len(words[i]) : ~Stops(c), ~LooksPastEnd,
           j = 1 => http_index = Len(http_as_words) + 1
    PROVE  /\ at' = "parse_http_configs" /\ i' = i + 1 /\ j' = 1 /\ http_index' = http_index + 1
           /\ nodes' = nodes /\ words' = words
           /\ http_as_words' = IF j = 1 THEN Append(http_as_words, words[i]) ELSE http_as_words
  <1>1. PICK l \in Line : l = words[i]
    BY PlacesAre, LinesAre
  <1>2. PICK n \in Nat \ {0} : n = Len(l)
    BY LineIs
  <1>3. StopColumn = n + 1
    BY <1>1, <1>2, Zenon DEF StopColumn
  <1>4. n + 1 - 1 = n
    OBVIOUS
  <1>5. SubSeq(words[i], j, StopColumn - 1) = IF j = 1 THEN l ELSE << >>
    BY <1>1, <1>2, <1>3, <1>4, NothingTaken
  <1>6. l # << >>
    BY <1>2
  <1>7. ~AtEnd
    <2>1. Len(words) \in Nat
      BY PlacesAre
    <2> QED
      BY <2>1 DEF AtEnd
  <1>8. ~(n + 1 <= n) /\ ~(n + 1 + 1 <= n) /\ (j = n + 1 => j # 1)
    BY <1>2
  <1>9. ~(\E c \in {StopColumn, StopColumn + 1} : c <= Len(words[i]) /\ IsBracket(words[i][c]))
    BY <1>1, <1>2, <1>3, <1>8, Zenon
  <1> DEFINE stop == StopColumn
             taken == SubSeq(words[i], j, stop - 1)
  <1>10. /\ at = "parse_http_configs"
         /\ IF LooksPastEnd \/ (taken # << >> /\ http_index # Len(http_as_words) + 1)
            THEN GoTo("undefined") /\ UNCHANGED <<i, j, http_index, http_as_words>>
            ELSE
            /\ http_as_words' = IF taken = << >> THEN http_as_words
                                ELSE Append(http_as_words, taken)
            /\ IF \E c \in {stop, stop + 1} : c <= Len(words[i]) /\ IsBracket(words[i][c])
               THEN GoTo("parse_server") /\ j' = stop /\ UNCHANGED <<i, http_index>>
               ELSE i' = i + 1 /\ j' = 1 /\ http_index' = http_index + 1 /\ UNCHANGED at
         /\ UNCHANGED <<words, id, line_words, node, nodes>>
    BY <1>7, Zenon DEF ParseHttpConfigs
  <1>11. taken = IF j = 1 THEN l ELSE << >>
    BY <1>5
  <1>12. ~(\E c \in {stop, stop + 1} : c <= Len(words[i]) /\ IsBracket(words[i][c]))
    BY <1>9
  <1>13. j = 1 \/ (j = n + 1 /\ j # 1)
    BY <1>1, <1>2, <1>8
  <1> HIDE DEF stop, taken
  <1> QED
    BY <1>1, <1>6, <1>10, <1>11, <1>12, <1>13

\* What a directive of the http block adds.
LEMMA OneMoreFound ==
    ASSUME Plain, NEW r \in 1..Len(words), NEW h, NEW ns, HttpDirective(Before(r), Before(r + 1), words[r]),
           Found(Before(r), Before(r).sites, h, ns)
    PROVE  Found(Before(r + 1), Before(r + 1).sites, Append(h, words[r]), ns)
  <1>1. PICK s \in Seq(Line) : s = input.http
    BY BlockShape DEF Plain, Lines
  <1>2. PICK m \in Nat : m = Before(r).http
    BY LinesAreOfKind, WordsOfHttp DEF IsPlace
  <1>3. /\ m < Len(s) /\ words[r] = s[m + 1] /\ Before(r + 1).http = m + 1
        /\ Before(r + 1).sites = Before(r).sites
    BY <1>1, <1>2 DEF HttpDirective
  <1>4. h = SubSeq(s, 1, m) /\ ns = [k \in 1..Before(r).sites |-> Site(k)]
    BY <1>1, <1>2 DEF Found
  <1>5. Append(SubSeq(s, 1, m), s[m + 1]) = SubSeq(s, 1, m + 1)
    BY <1>3
  <1> QED
    BY <1>1, <1>3, <1>4, <1>5 DEF Found

LEMMA HttpDirectiveIsRead ==
    ASSUME Plain, input' = input, ParseHttpConfigs, i \in 2..Len(words), j = 1, Depth(i) = 1, ~Before(i).head,
           Found(Before(i), Before(i).sites, http_as_words, nodes), http_index = Len(http_as_words) + 1,
           HttpDirective(Before(i), Before(i + 1), words[i])
    PROVE  Reading'
  <1>1. PICK N \in Nat : N = Len(words)
    BY PlacesAre
  <1>2. i \in 1..N
    BY <1>1
  <1>3. words[i] \in PlainLine
    BY <1>1, <1>2, HttpLineIs
  <1>4. PICK n \in Nat \ {0} : n = Len(words[i])
    BY <1>3, PlainLineIs
  <1>5. \A c \in 1..n : ~IsBracket(words[i][c])
    BY <1>3, <1>4, PlainLineIs
  <1>6. ~Before(i + 1).head /\ Depth(i + 1) = 1
    BY DEF HttpDirective, Depth
  <1>7. i # N
    <2>1. Before(N + 1).depth = 0
      BY <1>1, PlacesAre
    <2> QED
      BY <1>6, <2>1 DEF Depth
  <1>8. i + 1 \in 1..N
    BY <1>2, <1>7
  <1>9. words[i + 1][1] # "{"
    BY <1>1, <1>6, <1>8, StartsWithWord
  <1>10. IsBracket("{")
    BY DEF IsBracket
  <1>11. \A c \in 1..n : ~Stops(c)
    <2>1. ASSUME NEW c \in 1..n PROVE ~OpensHere(c)
      <3>1. c < n => c + 1 \in 1..n
        OBVIOUS
      <3>2. c < n => ~IsBracket(words[i][c + 1])
        BY <1>5, <3>1
      <3> QED
        BY <1>4, <1>10, <3>2, Zenon DEF OpensHere
    <2> QED
      BY <1>5, <1>9, <2>1, Zenon DEF Stops, OpensNext
  <1>12. ~LooksPastEnd
    BY <1>1, <1>7 DEF LooksPastEnd
  <1>13. /\ at' = "parse_http_configs" /\ i' = i + 1 /\ j' = 1 /\ http_index' = http_index + 1
         /\ nodes' = nodes /\ words' = words /\ http_as_words' = Append(http_as_words, words[i])
    BY <1>1, <1>2, <1>4, <1>11, <1>12, StopsNowhere
  <1>14. Found(Before(i + 1), Before(i + 1).sites, http_as_words', nodes')
    BY <1>1, <1>2, <1>13, OneMoreFound
  <1>15. i + 1 \in 2..N + 1 /\ 1 < 2
    BY <1>2
  <1>16. Top(i', http_as_words', nodes')
    BY <1>1, <1>6, <1>13, <1>14, <1>15, Zenon DEF Top
  <1>17. Len(http_as_words') = Len(http_as_words) + 1
    <2>1. PICK s \in Seq(Line) : s = input.http
      BY BlockShape DEF Plain, Lines
    <2>2. PICK m \in Nat : m = Before(i).http /\ m <= Len(s)
      <3>1. IsPlace(Before(i))
        BY <1>1, <1>2, LinesAreOfKind
      <3>2. Before(i).http \in 0..Len(s)
        BY <2>1, <3>1 DEF IsPlace
      <3> QED
        BY <3>2
    <2>3. SubSeq(s, 1, m) \in Seq(Line)
      BY <2>2
    <2>4. http_as_words \in Seq(Line)
      BY <2>1, <2>2, <2>3 DEF Found
    <2> QED
      BY <1>13, <2>4
  <1> QED
    BY <1>13, <1>16, <1>17, ReadsBetween

-----------------------------------------------------------------------------
(* parse_http_configs: the lines that lead out of it                       *)

LEMMA ServerHeadIsRead ==
    ASSUME Plain, input' = input, ParseHttpConfigs, i \in 2..Len(words), j = 1,
           Top(i, http_as_words, nodes), ServerHead(Before(i), Before(i + 1), words[i])
    PROVE  Reading'
  <1>1. PICK N \in Nat : N = Len(words)
    BY PlacesAre
  <1>2. i \in 1..N /\ i + 1 \in 2..N + 1
    BY <1>1
  <1>3. /\ Before(i).depth = 1 /\ Before(i + 1).http = Before(i).http
        /\ Before(i + 1).sites = Before(i).sites + 1
        /\ \/ words[i] = ServerName /\ Before(i + 1).head /\ Before(i + 1).depth = Before(i).depth
           \/ words[i] = Append(ServerName, "{")
    BY Zenon DEF ServerHead, Opening
  <1>4. IsBracket("{") /\ ~IsBracket("server")
    BY DEF IsBracket
  <1>5. CASE words[i] = Append(ServerName, "{")
    <2>1. Len(words[i]) = 2 /\ words[i][2] = "{" /\ words[i][1] = "server"
      BY <1>5, HeadsAre
    <2>2. 1 < 2 /\ 1 + 1 = 2 /\ 2 <= 2
      OBVIOUS
    <2>3. OpensHere(1)
      BY <2>1, <2>2, Zenon DEF OpensHere
    <2>4. Stops(1) /\ ~LooksPastEnd
      BY <2>3, Zenon DEF Stops, LooksPastEnd
    <2>5. 2 <= Len(words[i]) /\ IsBracket(words[i][2])
      BY <1>4, <2>1, <2>2, Zenon
    <2>6. /\ http_as_words' = http_as_words /\ nodes' = nodes /\ words' = words
          /\ at' = "parse_server" /\ j' = 1 /\ i' = i
      <3>1. 2 \in {1, 2}
        OBVIOUS
      <3> QED
        BY <1>1, <1>2, <2>4, <2>5, <3>1, StopsAtOnce, Zenon
    <2>7. Top(i', http_as_words', nodes') /\ i' \in 1..Len(words) /\ words[i'] = Append(ServerName, "{")
      BY <1>1, <1>2, <1>5, <2>6, Zenon
    <2> QED
      BY <2>6, <2>7, ReadsBracket
  <1>6. CASE words[i] = ServerName /\ Before(i + 1).head /\ Before(i + 1).depth = Before(i).depth
    <2>1. Before(i + 1).depth = 1
      BY <1>3, <1>6
    <2>2. i # N
      <3>1. Before(N + 1).depth = 0
        BY <1>1, PlacesAre
      <3> QED
        BY <2>1, <3>1
    <2>3. i + 1 \in 1..N /\ i + 1 \in 2..N
      BY <1>2, <2>2
    <2>4. words[i + 1] = OpenLine
      <3>1. /\ LineKind(Before(i + 1), Before(i + 1 + 1), words[i + 1])
            /\ IsPlace(Before(i + 1)) /\ IsPlace(Before(i + 1 + 1))
        BY <1>1, <2>3, LinesAreOfKind
      <3>2. Before(i + 1).depth \in Nat /\ Before(i + 1 + 1).depth \in Nat
        BY <1>1, <2>3, LineBrackets, Zenon DEF Depth
      <3>3. Bracket(Before(i + 1), Before(i + 1 + 1), words[i + 1])
        BY <1>6, <3>1, <3>2, KindAt
      <3> QED
        BY <3>3 DEF Bracket
    <2>5. words[i + 1][1] = "{" /\ Len(words[i]) = 1 /\ words[i][1] = "server"
      BY <1>6, <2>4, HeadsAre
    <2>6. i < N
      BY <1>2, <2>2
    <2>7. OpensNext
      BY <1>1, <2>5, <2>6, Zenon DEF OpensNext
    <2>8. Stops(1) /\ ~LooksPastEnd
      BY <1>1, <2>2, <2>7, Zenon DEF Stops, LooksPastEnd
    <2>9. ~(\E c \in {1, 2} : c <= Len(words[i]) /\ IsBracket(words[i][c]))
      <3>1. ~(2 <= 1)
        OBVIOUS
      <3> QED
        BY <1>4, <2>5, <3>1, Zenon
    <2>10. /\ http_as_words' = http_as_words /\ nodes' = nodes /\ words' = words
           /\ at' = "parse_http_configs" /\ j' = 1 /\ i' = i + 1
      BY <1>1, <1>2, <2>8, <2>9, StopsAtOnce, Zenon
    <2>11. Before(i).sites \in Nat
      <3>1. IsPlace(Before(i)) /\ Len(input.sites) \in Nat
        BY <1>1, <1>2, LinesAreOfKind, BlockShape DEF Plain
      <3> QED
        BY <3>1 DEF IsPlace
    <2>12. Found(Before(i + 1), Before(i + 1).sites - 1, http_as_words, nodes)
      <3>1. Before(i + 1).sites - 1 = Before(i).sites
        <4>1. Before(i + 1).sites = Before(i).sites + 1
          BY <1>3, Zenon
        <4> QED
          BY <2>11, <4>1
      <3>2. Found(Before(i), Before(i).sites, http_as_words, nodes)
        BY DEF Top
      <3> QED
        BY <1>3, <3>1, <3>2 DEF Found
    <2>13. ServerNamed(i', http_as_words', nodes')
      BY <1>1, <1>6, <2>1, <2>3, <2>10, <2>12, Zenon DEF ServerNamed, Depth
    <2> QED
      BY <2>10, <2>13, ReadsBracket
  <1> QED
    BY <1>3, <1>5, <1>6

LEMMA HttpEndIsRead ==
    ASSUME Plain, input' = input, ParseHttpConfigs, i \in 2..Len(words), j = 1,
           Top(i, http_as_words, nodes), words[i] = Closing(1)
    PROVE  Reading'
  <1>1. i \in 1..Len(words)
    BY PlacesAre
  <1>2. Len(words[i]) = 1 /\ IsBracket(words[i][1])
    BY ClosingOne
  <1>3. Stops(1) /\ ~LooksPastEnd
    BY <1>2, Zenon DEF Stops, LooksPastEnd, Word
  <1>4. 1 \in {1, 2} /\ 1 <= 1
    OBVIOUS
  <1>5. /\ http_as_words' = http_as_words /\ nodes' = nodes /\ words' = words
        /\ at' = "parse_server" /\ j' = 1 /\ i' = i
    BY <1>1, <1>2, <1>3, <1>4, StopsAtOnce, Zenon
  <1>6. Top(i', http_as_words', nodes') /\ i' \in 1..Len(words) /\ words[i'] = Closing(1)
    BY <1>1, <1>5, Zenon
  <1> QED
    BY <1>5, <1>6, ReadsBracket

LEMMA NamedServerIsRead ==
    ASSUME Plain, input' = input, ParseHttpConfigs, j = 1, ServerNamed(i, http_as_words, nodes)
    PROVE  Reading'
  <1>1. i \in 2..Len(words) /\ i \in 1..Len(words) /\ Before(i).head /\ Depth(i) = 1
    BY PlacesAre DEF ServerNamed
  <1>2. words[i] = OpenLine
    <2>1. /\ LineKind(Before(i), Before(i + 1), words[i])
          /\ IsPlace(Before(i)) /\ IsPlace(Before(i + 1))
      BY <1>1, LinesAreOfKind
    <2>2. Before(i).depth \in Nat /\ Before(i + 1).depth \in Nat
      BY <2>1 DEF IsPlace
    <2>3. Bracket(Before(i), Before(i + 1), words[i])
      BY <1>1, <2>1, <2>2, KindAt
    <2> QED
      BY <2>3 DEF Bracket
  <1>3. Len(words[i]) = 1 /\ IsBracket(words[i][1])
    <2>1. IsBracket("{")
      BY DEF IsBracket
    <2> QED
      BY <1>2, <2>1, HeadsAre
  <1>4. Stops(1) /\ ~LooksPastEnd
    BY <1>3, Zenon DEF Stops, LooksPastEnd, Word
  <1>5. 1 \in {1, 2} /\ 1 <= 1
    OBVIOUS
  <1>6. /\ http_as_words' = http_as_words /\ nodes' = nodes /\ words' = words
        /\ at' = "parse_server" /\ j' = 1 /\ i' = i
    BY <1>1, <1>3, <1>4, <1>5, StopsAtOnce, Zenon
  <1>7. ServerNamed(i', http_as_words', nodes')
    BY <1>6, Zenon
  <1> QED
    BY <1>6, <1>7, ReadsBracket

LEMMA HttpKeepsReading ==
    ASSUME Plain, input' = input, Reading, ParseHttpConfigs
    PROVE  KeepsReading
  <1>1. PICK N \in Nat : N = Len(words)
    BY PlacesAre
  <1>2. at = "parse_http_configs"
    BY DEF ParseHttpConfigs
  <1>3. \/ /\ j = 1 /\ Top(i, http_as_words, nodes)
           /\ Depth(i) = 1 => http_index = Len(http_as_words) + 1
        \/ /\ i \in 1..Len(words) /\ j = Len(words[i]) + 1
           /\ Top(i + 1, http_as_words, nodes) /\ Depth(i + 1) = 0
        \/ j = 1 /\ ServerNamed(i, http_as_words, nodes)
    BY <1>2, Zenon DEF Reading, BetweenServers, AtBracket, OnDirective, InBlock
  <1>4. CASE j = 1 /\ ServerNamed(i, http_as_words, nodes)
    BY <1>4, NamedServerIsRead DEF KeepsReading
  <1>5. CASE i \in 1..Len(words) /\ j = Len(words[i]) + 1 /\ Top(i + 1, http_as_words, nodes)
             /\ Depth(i + 1) = 0
    <2>1. PICK n \in Nat \ {0} : n = Len(words[i])
      BY <1>5, PlacesAre, LinesAre, LineIs
    <2>2. j = n + 1 /\ j # 1 /\ ~(j <= n)
      BY <1>5, <2>1
    <2>3. \A c \in j..Len(words[i]) : ~Stops(c)
      BY <2>1, <2>2
    <2>4. ~LooksPastEnd
      BY <2>1, <2>2, Zenon DEF LooksPastEnd, HasWord
    <2>5. /\ at' = "parse_http_configs" /\ i' = i + 1 /\ j' = 1
          /\ nodes' = nodes /\ words' = words /\ http_as_words' = http_as_words
      BY <1>5, <2>1, <2>2, <2>3, <2>4, StopsNowhere
    <2>6. Top(i', http_as_words', nodes') /\ ~(Depth(i') = 1)
      BY <1>5, <2>5
    <2> QED
      BY <2>5, <2>6, ReadsBetween DEF KeepsReading
  <1>6. CASE /\ j = 1 /\ Top(i, http_as_words, nodes)
             /\ Depth(i) = 1 => http_index = Len(http_as_words) + 1
    <2>1. i \in 2..N + 1 /\ ~Before(i).head /\ Found(Before(i), Before(i).sites, http_as_words, nodes)
      BY <1>1, <1>6 DEF Top
    <2>2. CASE AtEnd
      <3>1. at' = "parsed" /\ http_as_words' = http_as_words /\ nodes' = nodes
        BY <2>2, Zenon DEF ParseHttpConfigs, GoTo
      <3>2. Complete(http_as_words, nodes)
        BY <1>6, <2>2, TopIs DEF AtEnd
      <3> QED
        BY <3>1, <3>2 DEF KeepsReading
    <2>3. CASE ~AtEnd
      <3>1. i <= Len(words) /\ i \in 2..Len(words) /\ i # 1
        BY <1>1, <2>1, <2>3 DEF AtEnd
      <3>2. /\ i \in 1..Len(words) /\ Depth(i) = 1
            /\ \/ HttpDirective(Before(i), Before(i + 1), words[i])
               \/ ServerHead(Before(i), Before(i + 1), words[i])
               \/ ClosingLine(Before(i), Before(i + 1), words[i])
        BY <1>6, <3>1, TopIs
      <3>3. ClosingLine(Before(i), Before(i + 1), words[i]) => words[i] = Closing(1)
        BY <2>1, <3>1, <3>2, ClosingHttp
      <3> QED
        BY <1>6, <2>1, <3>1, <3>2, <3>3, HttpDirectiveIsRead, ServerHeadIsRead, HttpEndIsRead
           DEF KeepsReading
    <2> QED
      BY <2>2, <2>3
  <1> QED
    BY <1>3, <1>4, <1>5, <1>6

-----------------------------------------------------------------------------
(* parse_server, up to the loop                                            *)

LEMMA GreatestIs ==
    ASSUME NEW T, T \subseteq Nat, NEW x \in T, \A y \in T : y <= x
    PROVE  Max(T) = x
  <1>0. PICK m : m = Max(T)
    OBVIOUS
  <1>1. \E z \in T : \A y \in T : z >= y
    <2>1. \A y \in T : x >= y
      OBVIOUS
    <2> QED
      BY <2>1
  <1>2. m \in T /\ \A y \in T : m >= y
    BY <1>0, <1>1 DEF Max
  <1>3. m \in Nat /\ m >= x /\ m <= x /\ x \in Nat
    BY <1>2
  <1> QED
    BY <1>0, <1>3

\* In front of its first line.
LEMMA NothingOfNode ==
    ASSUME Plain, NEW p, p.sites \in 1..Len(input.sites), p.words = 0, p.blocks = 0
    PROVE  NodeAt(p) = EmptyNode
  <1>1. \A s \in Seq(PlainLine) : SubSeq(s, 1, 0) = << >>
    OBVIOUS
  <1>2. Site(p.sites).words \in Seq(PlainLine) /\ Site(p.sites).location_blocks \in Seq(PlainLine)
    BY SitesArePlain DEF Plain
  <1> QED
    BY <1>1, <1>2 DEF NodeAt, EmptyNode

\* The bracket on a line of its own is that of the server which the line before names.
LEMMA NamedBefore ==
    ASSUME Plain, NEW r \in 2..Len(words), words[r] = OpenLine, words[r - 1] = ServerName
    PROVE  LastWordUpTo(r) = "server"
  <1> DEFINE named == {k \in 1..r : \E c \in DOMAIN words[k] : ~IsBracket(words[k][c])}
             l == words[Max(named)]
             I == {n \in 1..Len(l) : ~IsBracket(l[n])}
  <1>1. LastWordUpTo(r) = IF named = {} THEN "" ELSE l[IF I # {} THEN Max(I) ELSE 0]
    BY DEF LastWordUpTo, SelectLastInSeq
  <1>2. r \in Nat /\ r - 1 \in 1..r /\ named \subseteq Nat
    BY PlacesAre
  <1>3. /\ Len(words[r]) = 1 /\ words[r][1] = "{" /\ Len(words[r - 1]) = 1 /\ words[r - 1][1] = "server"
    BY HeadsAre
  <1>4. DOMAIN words[r] = {1} /\ DOMAIN words[r - 1] = {1}
    <2>1. 1..1 = {1}
      OBVIOUS
    <2>2. r \in 1..Len(words) /\ r - 1 \in 1..Len(words)
      BY PlacesAre
    <2>3. DOMAIN words[r] = 1..Len(words[r]) /\ DOMAIN words[r - 1] = 1..Len(words[r - 1])
      BY <2>2, PlacesAre, LinesAre, LineIs
    <2> QED
      BY <1>3, <2>1, <2>3
  <1>5. IsBracket("{") /\ ~IsBracket("server")
    BY DEF IsBracket
  <1>6. r \notin named /\ r - 1 \in named
    BY <1>2, <1>3, <1>4, <1>5, Zenon
  <1>7. \A k \in named : k <= r - 1
    <2>1. \A k \in named : k \in 1..r /\ k # r
      BY <1>6
    <2> HIDE DEF named
    <2> QED
      BY <1>2, <2>1
  <1>8. Max(named) = r - 1
    <2> HIDE DEF named
    <2> QED
      BY <1>2, <1>6, <1>7, GreatestIs
  <1>9. l = ServerName
    BY <1>8
  <1>10. I = {1}
    <2>1. Len(l) = 1 /\ l[1] = "server"
      BY <1>9, HeadsAre
    <2>2. 1..1 = {1}
      OBVIOUS
    <2> QED
      BY <1>5, <2>1, <2>2
  <1>11. Max({1}) = 1
    <2>1. \A y \in {1} : y <= 1
      OBVIOUS
    <2> QED
      BY <2>1, GreatestIs
  <1>12. named # {}
    BY <1>6
  <1> HIDE DEF named
  <1>13. LastWordUpTo(r) = l[1]
    BY <1>1, <1>10, <1>11, <1>12
  <1> QED
    BY <1>9, <1>13, HeadsAre

LEMMA ServerStarts ==
    ASSUME Plain, NEW r \in 1..Len(words), NEW h, NEW ns, Before(r).sites \in 0..Len(input.sites),
           Found(Before(r), Before(r).sites, h, ns), Depth(r) = 1,
           ServerHead(Before(r), Before(r + 1), words[r]), Depth(r + 1) = 2
    PROVE  InServer(Before(r + 1), "server", EmptyNode, << >>, h, ns)
  <1>1. /\ Before(r + 1).http = Before(r).http /\ Before(r + 1).sites = Before(r).sites + 1
        /\ Before(r + 1).words = 0 /\ Before(r + 1).blocks = 0
    BY DEF ServerHead
  <1>2. Before(r + 1).sites \in 1..Len(input.sites)
    <2>1. r + 1 \in 1..Len(words) + 1 /\ Before(r + 1).depth >= 2
      BY PlacesAre DEF Depth
    <2> QED
      BY <2>1, SiteHere
  <1>3. NodeAt(Before(r + 1)) = EmptyNode
    BY <1>1, <1>2, NothingOfNode
  <1>4. Before(r + 1).sites - 1 = Before(r).sites
    BY <1>1
  <1> QED
    BY <1>1, <1>3, <1>4 DEF InServer, Found

\* The bracket on a line of its own.
LEMMA NamedStarts ==
    ASSUME Plain, NEW r, NEW h, NEW ns, ServerNamed(r, h, ns)
    PROVE  /\ r \in 1..Len(words) /\ words[r] = OpenLine /\ LastWordUpTo(r) = "server"
           /\ Depth(r + 1) = 2 /\ ~Before(r + 1).head
           /\ InServer(Before(r + 1), "server", EmptyNode, << >>, h, ns)
  <1>1. PICK N \in Nat : N = Len(words)
    BY PlacesAre
  <1>2. r \in 2..N /\ Before(r).head /\ Depth(r) = 1 /\ Found(Before(r), Before(r).sites - 1, h, ns)
    BY <1>1 DEF ServerNamed
  <1>3. r \in 1..N /\ r - 1 \in 1..N /\ r - 1 + 1 = r /\ r + 1 \in 1..N + 1
    BY <1>2
  <1>4. Fits(r - 1)
    BY <1>1, <1>3, PlaceBehind
  <1>5. words[r - 1] = ServerName /\ Before(r).words = 0 /\ Before(r).blocks = 0
    BY <1>2, <1>3, <1>4 DEF Fits, Depth
  <1>6. LineKind(Before(r), Before(r + 1), words[r])
    BY <1>1, <1>3, LinesAreOfKind
  <1>7. Before(r).depth \in Nat /\ Before(r + 1).depth \in Nat
    BY <1>1, <1>3, LineBrackets, Zenon DEF Depth
  <1>8. Bracket(Before(r), Before(r + 1), words[r])
    BY <1>2, <1>6, <1>7, KindAt
  <1>9. /\ words[r] = OpenLine /\ Before(r + 1).depth = Before(r).depth + 1 /\ ~Before(r + 1).head
        /\ Before(r + 1).http = Before(r).http /\ Before(r + 1).sites = Before(r).sites
        /\ Before(r + 1).words = 0 /\ Before(r + 1).blocks = 0
    BY <1>5, <1>8, Zenon DEF Bracket
  <1>10. Depth(r + 1) = 2
    <2>1. Before(r + 1).depth = Before(r).depth + 1
      BY <1>9
    <2> QED
      BY <1>2, <2>1 DEF Depth
  <1>11. Before(r + 1).sites \in 1..Len(input.sites)
    <2>1. Before(r + 1).depth >= 2
      BY <1>10 DEF Depth
    <2> QED
      BY <1>1, <1>3, <2>1, SiteHere
  <1>12. NodeAt(Before(r + 1)) = EmptyNode
    BY <1>9, <1>11, NothingOfNode
  <1>13. InServer(Before(r + 1), "server", EmptyNode, << >>, h, ns)
    BY <1>2, <1>9, <1>12, Zenon DEF InServer, Found
  <1>14. LastWordUpTo(r) = "server"
    BY <1>1, <1>2, <1>5, <1>9, NamedBefore, Zenon
  <1> QED
    BY <1>1, <1>3, <1>9, <1>10, <1>13, <1>14, Zenon

LEMMA EnterKeepsReading ==
    ASSUME Plain, input' = input, Reading, EnterServer
    PROVE  Reading'
  <1>1. PICK N \in Nat : N = Len(words)
    BY PlacesAre
  <1>2. /\ at = "parse_server" /\ at' = "parse_server_loop" /\ node' = EmptyNode /\ line_words' = << >>
        /\ words' = words /\ i' = i /\ http_as_words' = http_as_words /\ nodes' = nodes
        /\ \/ IsBracket(Word) /\ id' = LastWordUpTo(i) /\ j' = j
           \/ ~IsBracket(Word) /\ id' = Word /\ j' = j + 1
    BY DEF EnterServer, GoTo
  <1>3. /\ j = 1
        /\ \/ ServerNamed(i, http_as_words, nodes)
           \/ /\ Top(i, http_as_words, nodes) /\ i \in 1..Len(words)
              /\ words[i] = Append(ServerName, "{") \/ words[i] = Closing(1)
    BY <1>2, Zenon DEF Reading, BetweenServers, AtBracket, OnDirective, InBlock
  <1>4. IsBracket("{") /\ ~IsBracket("server")
    BY DEF IsBracket
  <1>5. CASE ServerNamed(i, http_as_words, nodes)
    <2>1. /\ i \in 1..Len(words) /\ words[i] = OpenLine /\ LastWordUpTo(i) = "server"
          /\ Depth(i + 1) = 2 /\ ~Before(i + 1).head
          /\ InServer(Before(i + 1), "server", EmptyNode, << >>, http_as_words, nodes)
      BY <1>5, NamedStarts
    <2>2. Len(words[i]) = 1 /\ words[i][1] = "{"
      BY <2>1, HeadsAre
    <2>3. id' = "server" /\ j' = 1
      BY <1>2, <1>3, <1>4, <2>1, <2>2, Zenon DEF Word
    <2>4. BehindWords(i, 1)
      BY <2>1, <2>2, Zenon DEF BehindWords
    <2>5. BehindWords(i', j') /\ ~Before(i' + 1).head /\ i' \in 1..Len(words)
          /\ InServer(Before(i' + 1), id', node', line_words', http_as_words', nodes')
      BY <1>2, <2>1, <2>3, <2>4, Zenon
    <2> QED
      BY <1>2, <2>5, ReadsBlock
  <1>6. CASE Top(i, http_as_words, nodes) /\ i \in 1..N /\ words[i] = Append(ServerName, "{")
    <2>1. Len(words[i]) = 2 /\ words[i][1] = "server" /\ words[i][2] = "{"
      BY <1>6, HeadsAre
    <2>2. id' = "server" /\ j' = 2
      <3>1. id' = "server" /\ j' = j + 1
        BY <1>2, <1>3, <1>4, <2>1, Zenon DEF Word
      <3>2. j + 1 = 2
        <4>1. j = 1
          BY <1>3, Zenon
        <4> QED
          BY <4>1
      <3> QED
        BY <3>1, <3>2
    <2>3. i \in 1..N /\ i <= N
      <3>1. i \in 1..N
        BY <1>6, Zenon
      <3> QED
        BY <3>1
    <2>4. /\ Depth(i) = 1 /\ ~Before(i).head /\ Found(Before(i), Before(i).sites, http_as_words, nodes)
          /\ i \in 2..N + 1
      BY <1>1, <1>6, <2>3, TopIs, Zenon DEF Top
    <2>5. i # 1
      BY <2>4
    <2>6. ServerHead(Before(i), Before(i + 1), words[i])
      <3>1. ~HttpDirective(Before(i), Before(i + 1), words[i])
        <4>1. SUFFICES ASSUME words[i] \in PlainLine PROVE FALSE
          BY <1>1, <2>3, HttpLineIs, Zenon
        <4>2. 2 \in 1..2
          OBVIOUS
        <4> QED
          BY <1>4, <2>1, <4>1, <4>2, PlainLineIs, Zenon
      <3>2. ~ClosingLine(Before(i), Before(i + 1), words[i])
        <4>1. SUFFICES ASSUME words[i] = Closing(1) PROVE FALSE
          BY <1>1, <2>3, <2>4, <2>5, ClosingHttp, Zenon
        <4>2. IsBracket(words[i][1])
          BY <4>1, ClosingOne
        <4> QED
          BY <1>4, <2>1, <4>2, Zenon
      <3> QED
        BY <1>1, <1>6, <2>3, <3>1, <3>2, TopIs, Zenon
    <2>7. Before(i + 1).depth = Before(i).depth + 1 /\ ~Before(i + 1).head
      <3>1. words[i] # ServerName
        BY <2>1, HeadsAre
      <3> QED
        BY <2>6, <3>1, Zenon DEF ServerHead, Opening
    <2>8. Depth(i + 1) = 2
      BY <2>4, <2>7 DEF Depth
    <2>9. Before(i).sites \in 0..Len(input.sites)
      BY <1>1, <2>3, LinesAreOfKind, Zenon DEF IsPlace
    <2>10. InServer(Before(i + 1), "server", EmptyNode, << >>, http_as_words, nodes)
      BY <1>1, <2>3, <2>4, <2>6, <2>8, <2>9, ServerStarts, Zenon
    <2>11. BehindWords(i, 2)
      BY <2>1, <2>8, Zenon DEF BehindWords
    <2>12. BehindWords(i', j') /\ ~Before(i' + 1).head /\ i' \in 1..Len(words)
           /\ InServer(Before(i' + 1), id', node', line_words', http_as_words', nodes')
      BY <1>1, <1>2, <2>2, <2>3, <2>7, <2>10, <2>11, Zenon
    <2> QED
      BY <1>2, <2>12, ReadsBlock
  <1>7. CASE Top(i, http_as_words, nodes) /\ i \in 1..N /\ words[i] = Closing(1)
    <2>1. IsBracket(words[i][1])
      BY <1>7, ClosingOne
    <2>2. j' = 1
      BY <1>2, <1>3, <2>1, Zenon DEF Word
    <2>3. Top(i', http_as_words', nodes') /\ i' \in 1..Len(words) /\ words[i'] = Closing(1)
      BY <1>1, <1>2, <1>7, Zenon
    <2> QED
      BY <1>2, <2>2, <2>3, ReadsBracket
  <1> QED
    BY <1>1, <1>3, <1>5, <1>6, <1>7, Zenon

-----------------------------------------------------------------------------
(* The node of a server                                                    *)

\* One more line of a server.
LEMMA NodeWithLine ==
    ASSUME Plain, NEW p, NEW q, p.sites \in 1..Len(input.sites), q.sites = p.sites, p.words \in Nat,
           p.words < Len(Site(p.sites).words), q.words = p.words + 1, q.blocks = p.blocks,
           NEW nd, nd = StartedAt(p), NEW c, c = Append(nd.words, Site(p.sites).words[p.words + 1])
    PROVE  [nd EXCEPT !.words = c] = NodeAt(q)
  <1>1. PICK s \in Seq(PlainLine) : s = Site(p.sites).words
    BY SitesArePlain DEF Plain
  <1>2. PICK m \in Nat : m = p.words
    OBVIOUS
  <1>3. Append(SubSeq(s, 1, m), s[m + 1]) = SubSeq(s, 1, m + 1)
    BY <1>1, <1>2
  <1>4. q.words # 0
    OBVIOUS
  <1>5. PICK b : b = SubSeq(Site(p.sites).location_blocks, 1, p.blocks)
    OBVIOUS
  <1>6. PICK x : x = "server"
    OBVIOUS
  <1>7. PICK a : a = SubSeq(s, 1, m)
    OBVIOUS
  <1>8. nd = [id |-> x, words |-> a, location_blocks |-> b]
    BY <1>1, <1>2, <1>5, <1>6, <1>7 DEF StartedAt
  <1>9. c = SubSeq(s, 1, m + 1)
    BY <1>1, <1>2, <1>3, <1>7, <1>8
  <1>10. NodeAt(q) = [id |-> x, words |-> c, location_blocks |-> b]
    BY <1>1, <1>2, <1>4, <1>5, <1>6, <1>9 DEF NodeAt
  <1>11. [nd EXCEPT !.words = c] = [id |-> x, words |-> c, location_blocks |-> b]
    <2>1. PICK d : d = c
      OBVIOUS
    <2>2. [nd EXCEPT !.words = d] = [id |-> x, words |-> d, location_blocks |-> b]
      BY <1>8
    <2> QED
      BY <2>1, <2>2
  <1> QED
    BY <1>10, <1>11

WithBlock(nd, c) == [nd EXCEPT !.location_blocks = c]

LEMMA NodeWithBlock ==
    ASSUME Plain, NEW p, NEW q, p.sites \in 1..Len(input.sites), q.sites = p.sites, p.blocks \in Nat,
           p.blocks < Len(Site(p.sites).location_blocks), q.words = p.words, q.blocks = p.blocks + 1,
           NEW nd, nd = NodeAt(p),
           NEW c, c = Append(nd.location_blocks, Site(p.sites).location_blocks[p.blocks + 1])
    PROVE  WithBlock(nd, c) = NodeAt(q)
  <1>1. PICK s \in Seq(PlainLine) : s = Site(p.sites).location_blocks
    BY SitesArePlain DEF Plain
  <1>2. PICK m \in Nat : m = p.blocks
    OBVIOUS
  <1>3. Append(SubSeq(s, 1, m), s[m + 1]) = SubSeq(s, 1, m + 1)
    BY <1>1, <1>2
  <1>4. PICK a : a = SubSeq(Site(p.sites).words, 1, p.words)
    OBVIOUS
  <1>5. PICK x : x = IF p.words = 0 THEN "" ELSE "server"
    OBVIOUS
  <1>6. PICK b : b = SubSeq(s, 1, m)
    OBVIOUS
  <1>7. nd = [id |-> x, words |-> a, location_blocks |-> b]
    BY <1>1, <1>2, <1>4, <1>5, <1>6 DEF NodeAt
  <1>8. c = SubSeq(s, 1, m + 1)
    BY <1>1, <1>2, <1>3, <1>6, <1>7
  <1>9. NodeAt(q) = [id |-> x, words |-> a, location_blocks |-> c]
    BY <1>1, <1>2, <1>4, <1>5, <1>8 DEF NodeAt
  <1>10. [nd EXCEPT !.location_blocks = c] = [id |-> x, words |-> a, location_blocks |-> c]
    <2>1. PICK d : d = c
      OBVIOUS
    <2>2. [nd EXCEPT !.location_blocks = d] = [id |-> x, words |-> a, location_blocks |-> d]
      BY <1>7
    <2> QED
      BY <2>1, <2>2
  <1> QED
    BY <1>9, <1>10 DEF WithBlock

\* Its first word gives it its id.
LEMMA NodeWithId ==
    ASSUME NEW p, NEW nd, nd = NodeAt(p), NEW y, y = "server"
    PROVE  (IF nd.id = "" THEN [nd EXCEPT !.id = y] ELSE nd) = StartedAt(p)
  <1>1. PICK a : a = SubSeq(Site(p.sites).words, 1, p.words)
    OBVIOUS
  <1>2. PICK b : b = SubSeq(Site(p.sites).location_blocks, 1, p.blocks)
    OBVIOUS
  <1>3. PICK x : x = IF p.words = 0 THEN "" ELSE "server"
    OBVIOUS
  <1>4. nd = [id |-> x, words |-> a, location_blocks |-> b]
    BY <1>1, <1>2, <1>3 DEF NodeAt
  <1>5. StartedAt(p) = [id |-> y, words |-> a, location_blocks |-> b]
    BY <1>1, <1>2 DEF StartedAt
  <1>6. [nd EXCEPT !.id = y] = [id |-> y, words |-> a, location_blocks |-> b]
    BY <1>4
  <1>7. nd.id = x /\ (x = "" \/ x = y)
    <2>1. nd.id = x
      BY <1>4
    <2> QED
      BY <1>3, <2>1, Zenon
  <1> QED
    BY <1>4, <1>5, <1>6, <1>7

LEMMA NodeUnchanged ==
    ASSUME NEW p, NEW nd, nd = NodeAt(p), NEW c, c = nd.words
    PROVE  [nd EXCEPT !.words = c] = nd
  <1>1. PICK a : a = SubSeq(Site(p.sites).words, 1, p.words)
    OBVIOUS
  <1>2. PICK b : b = SubSeq(Site(p.sites).location_blocks, 1, p.blocks)
    OBVIOUS
  <1>3. PICK x : x = IF p.words = 0 THEN "" ELSE "server"
    OBVIOUS
  <1>4. nd = [id |-> x, words |-> a, location_blocks |-> b]
    BY <1>1, <1>2, <1>3 DEF NodeAt
  <1>5. c = a
    BY <1>4
  <1>6. [nd EXCEPT !.words = a] = [id |-> x, words |-> a, location_blocks |-> b]
    BY <1>4
  <1> QED
    BY <1>4, <1>5, <1>6

\* A server of which everything has been collected.
LEMMA CompleteServer ==
    ASSUME Plain, NEW r \in 1..Len(words), Whole(Before(r + 1)), Before(r + 1).sites # 0,
           Depth(r + 1) < 2, ~Before(r + 1).head,
           NEW h, NEW ns, Found(Before(r + 1), Before(r + 1).sites - 1, h, ns)
    PROVE  NodeAt(Before(r + 1)).id # "" /\ Top(r + 1, h, Append(ns, NodeAt(Before(r + 1))))
  <1> DEFINE q == Before(r + 1)
  <1>1. r + 1 \in 2..Len(words) + 1
    BY PlacesAre
  <1>2. PICK n \in 1..Len(input.sites) : n = q.sites /\ n \in Nat
    <2>1. IsPlace(q) /\ Len(input.sites) \in Nat
      BY LinesAreOfKind, BlockShape DEF Plain
    <2> QED
      BY <2>1 DEF IsPlace
  <1>3. Site(n) = [id |-> "server", words |-> Site(n).words, location_blocks |-> Site(n).location_blocks]
    BY SitesArePlain DEF Plain
  <1>4. PICK s \in Seq(PlainLine) : s = Site(n).words /\ Len(s) # 0
    BY SitesArePlain DEF Plain
  <1>5. PICK b \in Seq(PlainLine) : b = Site(n).location_blocks
    BY SitesArePlain DEF Plain
  <1>6. q.words = Len(s) /\ q.blocks = Len(b)
    BY <1>2, <1>4, <1>5 DEF Whole
  <1>7. SubSeq(s, 1, Len(s)) = s /\ SubSeq(b, 1, Len(b)) = b
    OBVIOUS
  <1>8. NodeAt(q) = Site(n)
    BY <1>2, <1>3, <1>4, <1>5, <1>6, <1>7, Zenon DEF NodeAt
  <1>9. NodeAt(q).id = "server"
    BY <1>3, <1>8
  <1>10. h = SubSeq(input.http, 1, q.http) /\ ns = [k \in 1..n - 1 |-> Site(k)]
    BY <1>2 DEF Found
  <1>11. Append(ns, Site(n)) = [k \in 1..n |-> Site(k)]
    <2>1. PICK m \in Nat : m = n - 1 /\ n = m + 1
      BY <1>2
    <2> DEFINE T == {Site(k) : k \in 1..n}
    <2>2. ns \in [1..m -> T] /\ Site(n) \in T
      BY <1>2, <1>10, <2>1
    <2> HIDE DEF T
    <2>3. ns \in Seq(T) /\ Len(ns) = m
      BY <2>2, FunctionIsSeq
    <2>4. Append(ns, Site(n)) = [k \in 1..m + 1 |-> IF k = m + 1 THEN Site(n) ELSE ns[k]]
      <3>1. PICK u : u = Append(ns, Site(n))
        OBVIOUS
      <3>2. u \in Seq(T) /\ Len(u) = m + 1 /\ u[m + 1] = Site(n) /\ \A k \in 1..m : u[k] = ns[k]
        BY <2>2, <2>3, <3>1
      <3>3. \A k \in 1..m + 1 : u[k] = (IF k = m + 1 THEN Site(n) ELSE ns[k])
        BY <3>2
      <3>4. u = [k \in 1..m + 1 |-> u[k]]
        BY <3>2
      <3> QED
        BY <3>1, <3>3, <3>4
    <2>5. \A k \in 1..m + 1 : (IF k = m + 1 THEN Site(n) ELSE ns[k]) = Site(k)
      BY <1>10, <2>1
    <2> QED
      BY <2>1, <2>4, <2>5
  <1> QED
    BY <1>1, <1>2, <1>8, <1>9, <1>10, <1>11 DEF Top, Found

LEMMA ServerEnds ==
    ASSUME Plain, input' = input, ServerLine, i \in 1..Len(words), j \in 1..Len(words[i]),
           OnlyClosing(words[i], j),
           Whole(Before(i + 1)), Before(i + 1).sites # 0, Depth(i + 1) < 2, ~Before(i + 1).head,
           Found(Before(i + 1), Before(i + 1).sites - 1, http_as_words, nodes),
           [node EXCEPT !.words = Collected] = NodeAt(Before(i + 1))
    PROVE  Reading'
  <1>1. PICK N \in Nat : N = Len(words)
    BY PlacesAre
  <1>2. PICK n \in Nat \ {0} : n = Len(words[i])
    BY PlacesAre, LinesAre, LineIs
  <1>3. ~AtEnd /\ HasWord
    BY <1>1, <1>2 DEF AtEnd, HasWord
  <1>4. NodeAt(Before(i + 1)).id # "" /\ Top(i + 1, http_as_words, Append(nodes, NodeAt(Before(i + 1))))
    BY CompleteServer
  <1>5. /\ nodes' = Append(nodes, NodeAt(Before(i + 1))) /\ at' = "parse_words"
        /\ j' = SkipBrackets(i, j) + 1 /\ i' = i /\ words' = words /\ http_as_words' = http_as_words
    BY <1>3, <1>4, Zenon DEF ServerLine, GoTo
  <1>6. SkipBrackets(i, j) = n + 1
    <2>1. \A x \in j..n : IsBracket(words[i][x])
      BY <1>2, Zenon DEF IsBracket, OnlyClosing
    <2>2. j \in 1..n + 1
      BY <1>2
    <2> QED
      BY <1>2, <2>1, <2>2, SkipBracketsOf, Zenon
  <1>7. j' \in Nat /\ j' > Len(words[i'])
    BY <1>2, <1>5, <1>6
  <1>8. Top(i' + 1, http_as_words', nodes') /\ i' \in 1..Len(words)
    BY <1>4, <1>5, Zenon
  <1> QED
    BY <1>5, <1>7, <1>8, ReadsBetween

\* A line starts with the words of a directive.
StartsWith(l, d) == \A c \in 1..Len(d) : l[c] = d[c]

LEMMA DirectiveIs ==
    ASSUME Plain, NEW r \in 1..Len(words), ServerDirective(Before(r), Before(r + 1), words[r]),
           NEW d, d = Site(Before(r).sites).words[Before(r).words + 1], NEW k, k = Depth(r) - Depth(r + 1)
    PROVE  /\ Before(r).sites \in 1..Len(input.sites) /\ Before(r).words \in Nat /\ k \in 0..2
           /\ d \in PlainLine /\ (\A c \in 1..Len(d) : d[c] # "location")
           /\ Len(words[r]) = Len(d) + k /\ StartsWith(words[r], d)
           /\ OnlyClosing(words[r], Len(d) + 1)
  <1>1. r \in 1..Len(words) + 1 /\ Before(r).depth = 2
    BY PlacesAre DEF ServerDirective
  <1>2. Before(r).sites \in 1..Len(input.sites)
    BY <1>1, SiteHere
  <1>3. k \in 0..2
    <2>1. Depth(r) = 2 /\ Depth(r + 1) \in Nat /\ Depth(r + 1) <= Depth(r)
      BY <1>1, LineBrackets DEF ServerDirective, Leaves, Depth
    <2> QED
      BY <2>1
  <1>4. d \in PlainLine
    BY <1>1, AddedWords DEF ServerDirective
  <1>5. words[r] = d \o Closing(k)
    BY DEF ServerDirective, Depth
  <1>6. ClosesBy(words[r], k) /\ Len(words[r]) = Len(d) + k /\ \A c \in 1..Len(d) : words[r][c] = d[c]
    <2>1. PICK e \in Nat : e = k
      BY <1>3
    <2>2. PICK f \in PlainLine : f = d
      BY <1>4
    <2>3. PICK g : g = f \o Closing(e)
      OBVIOUS
    <2>4. ClosesBy(g, e) /\ Len(g) = Len(f) + e /\ \A c \in 1..Len(f) : g[c] = f[c]
      BY <2>3, ClosedBy, Zenon
    <2>5. words[r] = g
      BY <1>5, <2>1, <2>2, <2>3, Zenon
    <2> QED
      BY <2>1, <2>2, <2>4, <2>5, Zenon
  <1>7. OnlyClosing(words[r], Len(d) + 1)
    <2>1. PICK n \in Nat : n = Len(d)
      BY <1>4, PlainLineIs
    <2>2. \A x \in n + 1..n + k : x \in 1..n + k /\ x > n + k - k
      BY <1>3, <2>1
    <2>3. Len(words[r]) = n + k
      BY <1>6, <2>1
    <2>4. \A x \in 1..Len(words[r]) : x > Len(words[r]) - k => words[r][x] = "}"
      BY <1>6, Zenon DEF ClosesBy
    <2>5. \A x \in n + 1..n + k : x \in 1..Len(words[r]) /\ x > Len(words[r]) - k
      BY <2>2, <2>3
    <2>6. \A x \in n + 1..n + k : words[r][x] = "}"
      BY <2>4, <2>5, Zenon
    <2> QED
      BY <2>1, <2>3, <2>6, Zenon DEF OnlyClosing
  <1>8. Before(r).words \in Nat
    BY <1>1, PlacesAre DEF IsPlace
  <1>9. \A c \in 1..Len(d) : d[c] # "location"
    <2>1. PICK m \in Nat : m = Before(r).words
      BY <1>8
    <2>2. PICK s \in Seq(PlainLine) : s = Site(Before(r).sites).words
      BY <1>2, SitesArePlain DEF Plain
    <2>3. d = s[m + 1] /\ m + 1 \in 1..Len(s)
      BY <2>1, <2>2 DEF ServerDirective
    <2> QED
      BY <1>2, <2>2, <2>3, SitesArePlain DEF Plain
  <1>10. StartsWith(words[r], d)
    BY <1>6, Zenon DEF StartsWith
  <1> QED
    BY <1>2, <1>3, <1>4, <1>6, <1>7, <1>8, <1>9, <1>10, Zenon

-----------------------------------------------------------------------------
(* The loop of parse_server                                                *)

LEMMA WordIsRead ==
    ASSUME i \in 1..Len(words), ServerWord
    PROVE  /\ at = "parse_server_loop" /\ j <= Len(words[i]) /\ words[i][j] # "}"
           /\ UNCHANGED <<words, i, http_as_words, id, nodes>>
           /\ words[i][j] = "location" =>
                 at' = "parse_server_location" /\ UNCHANGED <<j, line_words, node>>
           /\ words[i][j] = "{" =>
                 at' = "parse_server_loop" /\ j' = j + 1 /\ UNCHANGED <<line_words, node>>
           /\ words[i][j] # "location" /\ ~IsBracket(words[i][j]) =>
                 /\ at' = "parse_server_loop" /\ j' = j + 1
                 /\ line_words' = Append(line_words, words[i][j])
                 /\ node' = IF node.id = "" THEN [node EXCEPT !.id = id] ELSE node
  <1>1. "{" # "location" /\ IsBracket("{")
    BY DEF IsBracket
  <1> QED
    BY <1>1, Zenon DEF ServerWord, HasWord, Word, GoTo

LEMMA LineIsDone ==
    ASSUME Plain, i \in 1..Len(words), ServerLine
    PROVE  /\ at = "parse_server_loop" /\ UNCHANGED <<words, http_as_words, id>>
           /\ j <= Len(words[i]) => words[i][j] = "}"
           /\ ~(j <= Len(words[i])) =>
                 /\ at' = "parse_server_loop" /\ i' = i + 1 /\ j' = 1 /\ nodes' = nodes
                 /\ node' = [node EXCEPT !.words = Collected] /\ line_words' = << >>
           /\ j <= Len(words[i]) /\ [node EXCEPT !.words = Collected].id = "" =>
                 at' = "parse_words" /\ j' = SkipBrackets(i, j) + 1 /\ i' = i /\ nodes' = nodes
  <1>1. ~AtEnd
    <2>1. Len(words) \in Nat
      BY PlacesAre
    <2> QED
      BY <2>1 DEF AtEnd
  <1> QED
    BY <1>1, Zenon DEF ServerLine, HasWord, Word, GoTo

LEMMA AfterHttpEnd ==
    ASSUME Plain, input' = input, ServerWord \/ ServerLine, i \in 1..Len(words), j = 1,
           Top(i, http_as_words, nodes), words[i] = Closing(1), line_words = << >>, node = EmptyNode
    PROVE  Reading'
  <1>1. PICK N \in Nat : N = Len(words)
    BY PlacesAre
  <1>2. Len(words[i]) = 1 /\ words[i][1] = "}" /\ IsBracket(words[i][1])
    BY ClosingOne
  <1>3. 1 <= 1
    OBVIOUS
  <1>4. ServerLine
    BY <1>2, Zenon DEF ServerWord, Word
  <1>5. i \in 1..N /\ i <= N
    BY <1>1
  <1>6. /\ Depth(i) = 1 /\ ~Before(i).head /\ Found(Before(i), Before(i).sites, http_as_words, nodes)
        /\ i \in 2..N + 1
    BY <1>1, <1>5, TopIs, Zenon DEF Top
  <1>7. i # 1
    BY <1>6
  <1>8. ClosingLine(Before(i), Before(i + 1), words[i])
    <2>1. ~(HttpDirective(Before(i), Before(i + 1), words[i]) \/ ServerHead(Before(i), Before(i + 1), words[i]))
      BY <1>1, <1>2, <1>5, <1>6, TopStarts, Zenon
    <2> QED
      BY <1>1, <1>5, <2>1, TopIs, Zenon
  <1>9. Top(i + 1, http_as_words, nodes)
    BY <1>1, <1>5, <1>6, <1>7, <1>8, ClosingHttp, Zenon
  <1>10. [node EXCEPT !.words = Collected].id = ""
    BY DEF EmptyNode
  <1>11. /\ at' = "parse_words" /\ j' = SkipBrackets(i, j) + 1 /\ i' = i /\ nodes' = nodes
         /\ UNCHANGED <<words, http_as_words, id>>
    BY <1>1, <1>2, <1>3, <1>4, <1>5, <1>10, LineIsDone, Zenon
  <1>12. SkipBrackets(i, j) = 2
    <2>1. \A d \in 1..Len(words[i]) : IsBracket(words[i][d])
      <3>1. \A d \in 1..1 : d = 1
        OBVIOUS
      <3> QED
        BY <1>2, <3>1, Zenon
    <2>2. 1 \in 1..Len(words[i]) + 1 /\ Len(words[i]) + 1 = 2
      <3>1. 1 \in 1..1 + 1 /\ 1 + 1 = 2
        OBVIOUS
      <3> QED
        BY <1>2, <3>1, Zenon
    <2> QED
      BY <1>1, <1>5, <2>1, <2>2, SkipBracketsOf, Zenon
  <1>13. j' \in Nat /\ j' > Len(words[i'])
    <2>1. j' = 2 + 1 /\ Len(words[i']) = 1
      BY <1>2, <1>11, <1>12, Zenon
    <2> QED
      BY <2>1
  <1>14. Top(i' + 1, http_as_words', nodes') /\ i' \in 1..Len(words)
    BY <1>1, <1>5, <1>9, <1>11, Zenon
  <1> QED
    BY <1>11, <1>13, <1>14, ReadsBetween

\* In front of a line of a server, or behind the words of one.
LEMMA BehindWordsKept ==
    ASSUME Plain, input' = input, ServerWord \/ ServerLine, i \in 1..Len(words), BehindWords(i, j),
           ~Before(i + 1).head, InServer(Before(i + 1), id, node, line_words, http_as_words, nodes)
    PROVE  Reading'
  <1>1. PICK N \in Nat : N = Len(words)
    BY PlacesAre
  <1>2. PICK n \in Nat \ {0} : n = Len(words[i])
    BY PlacesAre, LinesAre, LineIs
  <1> DEFINE q == Before(i + 1)
  <1>3. /\ id = "server" /\ node = NodeAt(q) /\ line_words = << >>
        /\ Found(q, q.sites - 1, http_as_words, nodes)
    BY DEF InServer
  <1>4. i \in 1..N /\ i + 1 \in 1..N + 1
    BY <1>1
  <1>5. [node EXCEPT !.words = Collected] = node
    <2>1. Collected = node.words
      BY <1>3, Zenon DEF Collected
    <2> QED
      BY <1>3, <2>1, NodeUnchanged
  <1> HIDE DEF q
  <1>6. CASE j = n /\ words[i][j] = "{" /\ Depth(i + 1) = 2
    <2>1. ~ServerLine
      <3>1. "{" # "}" /\ n <= n
        OBVIOUS
      <3> QED
        BY <1>1, <1>2, <1>4, <1>6, <3>1, LineIsDone, Zenon
    <2>2. /\ at' = "parse_server_loop" /\ j' = n + 1 /\ UNCHANGED <<words, i, http_as_words, id, nodes>>
          /\ UNCHANGED <<line_words, node>>
      BY <1>1, <1>4, <1>6, <2>1, WordIsRead, Zenon
    <2>3. BehindWords(i, n + 1)
      BY <1>2, <1>6, Zenon DEF BehindWords
    <2>4. BehindWords(i', j') /\ ~Before(i' + 1).head /\ i' \in 1..Len(words)
          /\ InServer(Before(i' + 1), id', node', line_words', http_as_words', nodes')
      BY <1>1, <1>4, <2>2, <2>3, Zenon
    <2> QED
      BY <2>2, <2>4, ReadsBlock
  <1>7. CASE j = n + 1 /\ Depth(i + 1) = 2
    <2>1. ~(j <= n)
      BY <1>7
    <2>2. ServerLine
      BY <1>1, <1>2, <1>4, <2>1, WordIsRead, Zenon
    <2>3. /\ at' = "parse_server_loop" /\ i' = i + 1 /\ j' = 1 /\ nodes' = nodes
          /\ node' = node /\ line_words' = << >> /\ UNCHANGED <<words, http_as_words, id>>
      BY <1>1, <1>2, <1>4, <1>5, <2>1, <2>2, LineIsDone, Zenon
    <2>4. i + 1 # N + 1
      <3>1. Before(N + 1).depth = 0
        BY <1>1, PlacesAre
      <3> QED
        BY <1>7, <3>1 DEF Depth
    <2>5. i' \in 1..Len(words)
      BY <1>1, <1>4, <2>3, <2>4
    <2>6. Depth(i') = 2 /\ ~Before(i').head
          /\ InServer(Before(i'), id', node', line_words', http_as_words', nodes')
      BY <1>3, <1>7, <2>3, Zenon DEF InServer, q
    <2> QED
      BY <2>3, <2>5, <2>6, ReadsBlock
  <1>8. CASE /\ j \in 1..n /\ OnlyClosing(words[i], j)
             /\ Depth(i + 1) < 2 /\ Whole(Before(i + 1)) /\ Before(i + 1).sites # 0
    <2>1. words[i][j] = "}" /\ j <= n
      <3>1. j \in j..n /\ j <= n
        BY <1>8
      <3> QED
        BY <1>2, <1>8, <3>1, Zenon DEF OnlyClosing
    <2>2. ServerLine
      BY <1>1, <1>4, <2>1, WordIsRead, Zenon
    <2>3. j \in 1..Len(words[i])
      BY <1>2, <1>8
    <2> QED
      BY <1>1, <1>3, <1>4, <1>5, <1>8, <2>2, <2>3, ServerEnds, Zenon DEF q
  <1> QED
    BY <1>2, <1>6, <1>7, <1>8, Zenon DEF BehindWords

\* In front of a line of a server.
LEMMA ServerLineKept ==
    ASSUME Plain, input' = input, ServerWord \/ ServerLine, i \in 1..Len(words), j = 1, Depth(i) = 2,
           ~Before(i).head, InServer(Before(i), id, node, line_words, http_as_words, nodes)
    PROVE  Reading'
  <1>1. PICK N \in Nat : N = Len(words)
    BY PlacesAre
  <1>2. i \in 1..N
    BY <1>1
  <1> DEFINE p == Before(i)
             q == Before(i + 1)
             d == Site(p.sites).words[p.words + 1]
  <1>3. LineKind(p, q, words[i]) /\ p.depth \in Nat /\ q.depth \in Nat
    BY <1>1, <1>2, LinesAreOfKind, LineBrackets, Zenon DEF Depth
  <1>4. ServerDirective(p, q, words[i]) \/ LocationHead(p, q, words[i]) \/ ClosingLine(p, q, words[i])
    BY <1>3, KindAt DEF Depth
  <1>5. /\ id = "server" /\ node = NodeAt(p) /\ line_words = << >>
        /\ Found(p, p.sites - 1, http_as_words, nodes)
    BY DEF InServer
  <1>6. CASE ServerDirective(p, q, words[i])
    <2>1. PICK k \in 0..2 : k = Depth(i) - Depth(i + 1)
      <3>1. ServerDirective(Before(i), Before(i + 1), words[i])
        BY <1>6
      <3>2. Depth(i) - Depth(i + 1) \in 0..2
        BY <3>1, DirectiveIs, Zenon
      <3> QED
        BY <3>2
    <2>2. /\ d \in PlainLine /\ (\A c \in 1..Len(d) : d[c] # "location")
          /\ Len(words[i]) = Len(d) + k /\ (\A c \in 1..Len(d) : words[i][c] = d[c])
      <3>1. ServerDirective(Before(i), Before(i + 1), words[i])
        BY <1>6
      <3>2. PICK e : e = Site(Before(i).sites).words[Before(i).words + 1]
        OBVIOUS
      <3>3. e = d
        BY <3>2
      <3> HIDE DEF d
      <3>4. e \in PlainLine
        BY <2>1, <3>1, <3>2, DirectiveIs
      <3>5. \A c \in 1..Len(e) : e[c] # "location"
        BY <2>1, <3>1, <3>2, DirectiveIs
      <3>6. Len(words[i]) = Len(e) + k
        BY <2>1, <3>1, <3>2, DirectiveIs
      <3>7. \A c \in 1..Len(e) : words[i][c] = e[c]
        <4>1. StartsWith(words[i], e)
          BY <2>1, <3>1, <3>2, DirectiveIs
        <4> QED
          BY <4>1 DEF StartsWith
      <3> QED
        BY <3>3, <3>4, <3>5, <3>6, <3>7, Zenon
    <2>3. PICK m \in Nat \ {0} : m = Len(d)
      BY <2>2, PlainLineIs
    <2>4. 1 \in 1..m /\ 1 <= m + k /\ 1 + 1 = 2 /\ 2 \in 2..m + 1 /\ 2 - 1 = 1
      BY <2>1, <2>3
    <2>5. words[i][1] = d[1] /\ d[1] # "location" /\ ~IsBracket(d[1])
      BY <2>2, <2>3, <2>4, PlainLineIs, Zenon
    <2>6. d[1] # "}"
      BY <2>5 DEF IsBracket
    <2>7. 1 <= Len(words[i])
      BY <2>2, <2>3, <2>4
    <2>8. ~ServerLine
      BY <1>1, <1>2, <2>5, <2>6, <2>7, LineIsDone, Zenon
    <2>9. /\ at' = "parse_server_loop" /\ j' = 2 /\ UNCHANGED <<words, i, http_as_words, id, nodes>>
          /\ line_words' = Append(line_words, d[1])
          /\ node' = IF node.id = "" THEN [node EXCEPT !.id = id] ELSE node
      BY <1>1, <1>2, <2>4, <2>5, <2>8, WordIsRead, Zenon
    <2>10. node' = StartedAt(p)
      BY <1>5, <2>9, NodeWithId
    <2>11. line_words' = SubSeq(d, 1, 1)
      <3>1. PICK s \in Seq(Text) : s = d /\ Len(s) # 0
        BY <2>2, PlainLineIs
      <3>2. \A n \in Nat : n < Len(s) => Append(SubSeq(s, 1, n), s[n + 1]) = SubSeq(s, 1, n + 1)
        OBVIOUS
      <3>3. Append(SubSeq(s, 1, 0), s[0 + 1]) = SubSeq(s, 1, 0 + 1)
        BY <3>1, <3>2
      <3>4. SubSeq(s, 1, 0) = << >> /\ 0 + 1 = 1
        OBVIOUS
      <3> QED
        BY <1>5, <2>9, <3>1, <3>3, <3>4, Zenon
    <2>12. Collecting(i, 2, "server", node', line_words', http_as_words, nodes)
      BY <1>5, <1>6, <2>3, <2>4, <2>10, <2>11, Zenon DEF Collecting
    <2>13. i' \in 1..Len(words) /\ Collecting(i', j', id', node', line_words', http_as_words', nodes')
      BY <1>1, <1>2, <1>5, <2>9, <2>12, Zenon
    <2> QED
      BY <2>9, <2>13, ReadsDirective, Zenon
  <1>7. CASE LocationHead(p, q, words[i])
    <2>1. PICK h : h = Site(p.sites).location_blocks[p.blocks + 1]
      OBVIOUS
    <2>2. h \in PlainLine
      <3>1. Before(i).depth >= 2 /\ p.blocks < Len(Site(p.sites).location_blocks)
        BY <1>7 DEF LocationHead
      <3> QED
        BY <1>1, <1>2, <2>1, <3>1, AddedWords
    <2>3. h[1] = "location" /\ (words[i] = h \/ words[i] = Append(h, "{"))
      BY <1>7, <2>1, Zenon DEF LocationHead, Opening
    <2>4. PICK m \in Nat \ {0} : m = Len(h)
      BY <2>2, PlainLineIs
    <2>5. 1 \in 1..m /\ 1 <= m /\ 1 <= m + 1
      BY <2>4
    <2>6. words[i][1] = "location" /\ 1 <= Len(words[i])
      BY <2>2, <2>3, <2>4, <2>5, AppendOpens, Zenon
    <2>7. "location" # "}"
      OBVIOUS
    <2>8. ~ServerLine
      BY <1>1, <1>2, <2>6, <2>7, LineIsDone, Zenon
    <2>9. /\ at' = "parse_server_location" /\ j' = 1 /\ UNCHANGED <<words, i, http_as_words, id, nodes>>
          /\ UNCHANGED <<line_words, node>>
      BY <1>1, <1>2, <2>6, <2>8, WordIsRead, Zenon
    <2>10. /\ InServer(Before(i'), id', node', line_words', http_as_words', nodes')
           /\ Depth(i') = 2 /\ words[i'][1] = "location" /\ i' \in 1..Len(words)
      BY <1>1, <1>2, <2>6, <2>9, Zenon
    <2> QED
      BY <2>9, <2>10, ReadsBlock
  <1>8. CASE ClosingLine(p, q, words[i])
    <2>1. PICK k \in Nat \ {0} : k = p.depth - q.depth
      BY <1>3, <1>8 DEF ClosingLine
    <2>2. words[i] = Closing(k) /\ Leaves(p, q) /\ q.words = p.words /\ q.blocks = p.blocks
      BY <1>8, <2>1 DEF ClosingLine
    <2>3. Len(words[i]) = k /\ \A c \in 1..k : words[i][c] = "}"
      BY <2>1, <2>2, ClosingIs
    <2>4. q.sites = p.sites /\ ~q.head /\ q.http = p.http
      BY <2>2 DEF Leaves
    <2>5. p.depth = 2 /\ q.depth < 2
      BY <1>3, <2>1 DEF Depth
    <2>6. Whole(q)
      BY <2>2, <2>5 DEF Leaves
    <2>7. q.sites # 0
      <3>1. p.sites \in 1..Len(input.sites)
        <4>1. i \in 1..Len(words) + 1 /\ p.depth >= 2
          BY <1>1, <1>2, <2>5
        <4> QED
          BY <4>1, SiteHere
      <3> QED
        BY <2>4, <3>1
    <2>8. NodeAt(q) = NodeAt(p) /\ Found(q, q.sites - 1, http_as_words, nodes)
      BY <1>5, <2>2, <2>4 DEF NodeAt, Found
    <2>9. InServer(q, id, node, line_words, http_as_words, nodes)
      BY <1>5, <2>8 DEF InServer
    <2>10. 1 \in 1..k
      BY <2>1
    <2>11. BehindWords(i, j)
      BY <2>3, <2>5, <2>6, <2>7, <2>10, Zenon DEF BehindWords, OnlyClosing, Depth
    <2> QED
      BY <1>1, <1>2, <2>4, <2>9, <2>11, BehindWordsKept, Zenon
  <1> QED
    BY <1>4, <1>6, <1>7, <1>8

\* In a directive of a server.
LEMMA DirectiveKept ==
    ASSUME Plain, input' = input, ServerWord \/ ServerLine, i \in 1..Len(words),
           Collecting(i, j, id, node, line_words, http_as_words, nodes)
    PROVE  Reading'
  <1>1. PICK N \in Nat : N = Len(words)
    BY PlacesAre
  <1>2. i \in 1..N /\ i + 1 \in 1..N + 1
    BY <1>1
  <1> DEFINE p == Before(i)
             q == Before(i + 1)
  <1>3. PICK d : d = Site(p.sites).words[p.words + 1]
    OBVIOUS
  <1>4. /\ ServerDirective(p, q, words[i])
        /\ j \in 2..Len(d) + 1 /\ line_words = SubSeq(d, 1, j - 1)
        /\ id = "server" /\ node = StartedAt(p)
        /\ Found(p, p.sites - 1, http_as_words, nodes)
    BY <1>3, Zenon DEF Collecting
  <1>5. PICK k \in 0..2 : k = Depth(i) - Depth(i + 1)
    <2>1. Depth(i) - Depth(i + 1) \in 0..2
      BY <1>1, <1>2, <1>4, DirectiveIs
    <2> QED
      BY <2>1
  <1>6. /\ p.sites \in 1..Len(input.sites) /\ p.words \in Nat
        /\ d \in PlainLine /\ (\A c \in 1..Len(d) : d[c] # "location")
        /\ Len(words[i]) = Len(d) + k /\ (\A c \in 1..Len(d) : words[i][c] = d[c])
        /\ OnlyClosing(words[i], Len(d) + 1)
    <2>1. i \in 1..Len(words) /\ k = Depth(i) - Depth(i + 1)
          /\ ServerDirective(Before(i), Before(i + 1), words[i])
          /\ d = Site(Before(i).sites).words[Before(i).words + 1]
      BY <1>3, <1>4, <1>5
    <2>2. p.sites \in 1..Len(input.sites) /\ p.words \in Nat
      BY <2>1, DirectiveIs
    <2>3. d \in PlainLine /\ (\A c \in 1..Len(d) : d[c] # "location")
      BY <2>1, DirectiveIs
    <2>4. Len(words[i]) = Len(d) + k /\ (\A c \in 1..Len(d) : words[i][c] = d[c])
      <3>1. Len(words[i]) = Len(d) + k
        BY <2>1, DirectiveIs
      <3>2. \A c \in 1..Len(d) : words[i][c] = d[c]
        <4>1. StartsWith(words[i], d)
          BY <2>1, DirectiveIs
        <4> QED
          BY <4>1 DEF StartsWith
      <3> QED
        BY <3>1, <3>2
    <2>5. OnlyClosing(words[i], Len(d) + 1)
      BY <2>1, DirectiveIs
    <2> QED
      BY <2>2, <2>3, <2>4, <2>5
  <1>7. PICK m \in Nat \ {0} : m = Len(d)
    BY <1>6, PlainLineIs
  <1>8. j \in 2..m + 1 /\ Len(words[i]) = m + k
    BY <1>4, <1>6, <1>7, Zenon
  <1>9. PICK s \in Seq(Text) : s = d /\ Len(s) = m
    BY <1>6, <1>7, PlainLineIs
  <1>10. CASE j <= m
    <2>1. j \in 1..m /\ j <= m + k /\ j - 1 \in Nat /\ j - 1 < m /\ (j - 1) + 1 = j
          /\ j + 1 \in 2..m + 1 /\ (j + 1) - 1 = j
      BY <1>5, <1>8, <1>10
    <2>2. words[i][j] = d[j] /\ d[j] # "location" /\ ~IsBracket(d[j]) /\ j <= Len(words[i])
      BY <1>6, <1>7, <1>8, <2>1, PlainLineIs, Zenon
    <2>3. d[j] # "}"
      BY <2>2 DEF IsBracket
    <2>4. ~ServerLine
      BY <1>1, <1>2, <2>2, <2>3, LineIsDone, Zenon
    <2>5. /\ at' = "parse_server_loop" /\ j' = j + 1 /\ UNCHANGED <<words, i, http_as_words, id, nodes>>
          /\ line_words' = Append(line_words, d[j])
          /\ node' = IF node.id = "" THEN [node EXCEPT !.id = id] ELSE node
      BY <1>1, <1>2, <2>2, <2>4, WordIsRead, Zenon
    <2>6. node' = StartedAt(p)
      <3>1. node.id = "server" /\ "server" # ""
        BY <1>4 DEF StartedAt
      <3> QED
        BY <1>4, <2>5, <3>1, Zenon
    <2>7. line_words' = SubSeq(d, 1, j)
      <3>1. \A n \in Nat : n < Len(s) => Append(SubSeq(s, 1, n), s[n + 1]) = SubSeq(s, 1, n + 1)
        OBVIOUS
      <3>2. Append(SubSeq(s, 1, j - 1), s[(j - 1) + 1]) = SubSeq(s, 1, (j - 1) + 1)
        BY <1>9, <2>1, <3>1
      <3> QED
        BY <1>4, <1>9, <2>1, <2>5, <3>2, Zenon
    <2>8. Collecting(i, j + 1, "server", node', line_words', http_as_words, nodes)
      BY <1>3, <1>4, <1>7, <2>1, <2>6, <2>7, Zenon DEF Collecting
    <2>9. i' \in 1..Len(words) /\ Collecting(i', j', id', node', line_words', http_as_words', nodes')
      BY <1>1, <1>2, <1>4, <2>5, <2>8, Zenon
    <2> QED
      BY <2>5, <2>9, ReadsDirective, Zenon
  <1>11. CASE j = m + 1
    <2>1. line_words = s /\ s # << >>
      <3>1. j - 1 = m /\ SubSeq(s, 1, m) = s
        BY <1>9, <1>11
      <3>2. s # << >>
        BY <1>9
      <3> QED
        BY <1>4, <1>9, <3>1, <3>2, Zenon
    <2>2. Collected = Append(node.words, d)
      BY <1>9, <2>1, Zenon DEF Collected
    <2>3. /\ q.words = p.words + 1 /\ q.blocks = p.blocks /\ q.sites = p.sites /\ ~q.head
          /\ q.http = p.http /\ (q.depth < 2 => Whole(q))
          /\ p.words < Len(Site(p.sites).words) /\ p.depth = 2
      <3>1. p.depth = 2 => p.depth >= 2
        OBVIOUS
      <3> QED
        BY <1>4, <3>1, Zenon DEF ServerDirective, Leaves
    <2>4. [node EXCEPT !.words = Collected] = NodeAt(q)
      BY <1>3, <1>4, <1>6, <2>2, <2>3, NodeWithLine, ZenonT(60)
    <2>5. Found(q, q.sites - 1, http_as_words, nodes)
      BY <1>4, <2>3 DEF Found
    <2>6. Depth(i) = 2 /\ Depth(i + 1) \in Nat
      BY <1>1, <1>2, <2>3, LineBrackets, Zenon DEF Depth
    <2>7. CASE k = 0
      <3>1. ~(j <= Len(words[i]))
        BY <1>8, <1>11, <2>7
      <3>2. ServerLine
        BY <1>1, <1>2, <3>1, WordIsRead, Zenon
      <3>3. /\ at' = "parse_server_loop" /\ i' = i + 1 /\ j' = 1 /\ nodes' = nodes
            /\ node' = NodeAt(q) /\ line_words' = << >> /\ UNCHANGED <<words, http_as_words, id>>
        BY <1>1, <1>2, <2>4, <3>1, <3>2, LineIsDone, Zenon
      <3>4. Depth(i + 1) = 2
        BY <1>5, <2>6, <2>7
      <3>5. i + 1 # N + 1
        <4>1. Before(N + 1).depth = 0
          BY <1>1, PlacesAre
        <4> QED
          BY <3>4, <4>1 DEF Depth
      <3>6. i' \in 1..Len(words)
        BY <1>1, <1>2, <3>3, <3>5
      <3>7. Depth(i') = 2 /\ ~Before(i').head
            /\ InServer(Before(i'), id', node', line_words', http_as_words', nodes')
        BY <1>4, <2>3, <2>5, <3>3, <3>4, Zenon DEF InServer
      <3> QED
        BY <3>3, <3>6, <3>7, ReadsBlock
    <2>8. CASE k # 0
      <3>1. j \in 1..Len(words[i]) /\ j <= Len(words[i])
        BY <1>5, <1>8, <1>11, <2>8
      <3>2. OnlyClosing(words[i], j)
        BY <1>6, <1>7, <1>11, Zenon
      <3>3. words[i][j] = "}"
        <4>1. j \in j..Len(words[i])
          BY <3>1
        <4> QED
          BY <3>2, <4>1, Zenon DEF OnlyClosing
      <3>4. ServerLine
        BY <1>1, <1>2, <3>3, WordIsRead, Zenon
      <3>5. Depth(i + 1) < 2
        BY <1>5, <2>6, <2>8
      <3>6. q.sites # 0 /\ Whole(q)
        <4>1. p.sites # 0
          BY <1>6
        <4>2. q.depth < 2
          BY <3>5 DEF Depth
        <4> QED
          BY <2>3, <4>1, <4>2
      <3> QED
        BY <1>1, <1>2, <2>3, <2>4, <2>5, <3>1, <3>2, <3>4, <3>5, <3>6, ServerEnds, Zenon
    <2> QED
      BY <2>7, <2>8
  <1>12. j <= m \/ j = m + 1
    BY <1>8
  <1> QED
    BY <1>10, <1>11, <1>12

LEMMA ServerKeepsReading ==
    ASSUME Plain, input' = input, Reading, ServerWord \/ ServerLine
    PROVE  Reading'
  <1>1. at = "parse_server_loop"
    BY DEF ServerWord, ServerLine
  <1>2. \/ /\ j = 1 /\ Top(i, http_as_words, nodes) /\ i \in 1..Len(words)
           /\ words[i] = Closing(1) /\ line_words = << >> /\ node = EmptyNode
        \/ i \in 1..Len(words) /\ Collecting(i, j, id, node, line_words, http_as_words, nodes)
        \/ /\ i \in 1..Len(words) /\ BehindWords(i, j) /\ ~Before(i + 1).head
           /\ InServer(Before(i + 1), id, node, line_words, http_as_words, nodes)
        \/ /\ i \in 1..Len(words) /\ j = 1 /\ Depth(i) = 2 /\ ~Before(i).head
           /\ InServer(Before(i), id, node, line_words, http_as_words, nodes)
    BY <1>1, Zenon DEF Reading, BetweenServers, AtBracket, OnDirective, InBlock
  <1> QED
    BY <1>2, AfterHttpEnd, DirectiveKept, BehindWordsKept, ServerLineKept, Zenon

-----------------------------------------------------------------------------
(* parse_server_location                                                   *)

LEMMA LocationIsRead ==
    ASSUME Plain, i \in 1..Len(words), j = 1, LocationLine, NEW stop, stop = FirstBracket(i, 1),
           NEW taken, taken = SubSeq(words[i], 1, stop - 1)
    PROVE  /\ UNCHANGED <<words, http_as_words, id, line_words, nodes>>
           /\ taken = << >> => node' = node
           /\ taken # << >> => node' = [node EXCEPT !.location_blocks = Append(node.location_blocks, taken)]
           /\ stop <= Len(words[i]) /\ words[i][stop] = "}" =>
                 at' = "parse_server_loop" /\ j' = stop + 1 /\ i' = i
           /\ ~(stop <= Len(words[i]) /\ words[i][stop] = "}") =>
                 at' = "parse_server_location" /\ i' = i + 1 /\ j' = 1
  <1>1. ~AtEnd
    <2>1. Len(words) \in Nat
      BY PlacesAre
    <2> QED
      BY <2>1 DEF AtEnd
  <1>2. SubSeq(words[i], j, FirstBracket(i, j) - 1) = taken /\ FirstBracket(i, j) = stop
    OBVIOUS
  <1>3. at = "parse_server_location" /\ UNCHANGED <<words, http_as_words, id, line_words, nodes>>
    BY DEF LocationLine
  <1> QED
    BY <1>1, <1>2, <1>3, Zenon DEF LocationLine, GoTo

\* Behind a line that closes the location.
LEMMA BlockEnds ==
    ASSUME Plain, input' = input, i \in 1..Len(words), NEW k \in 1..3, k = Depth(i) - Depth(i + 1),
           Depth(i) = 3, ClosesBy(words[i], k), at' = "parse_server_loop", i' = i, words' = words,
           j' = Len(words[i]) + 1 - k + 1, ~Before(i + 1).head, Before(i + 1).sites # 0,
           Depth(i + 1) < 2 => Whole(Before(i + 1)),
           InServer(Before(i + 1), id', node', line_words', http_as_words', nodes')
    PROVE  Reading'
  <1>1. PICK n \in Nat \ {0} : n = Len(words[i])
    BY PlacesAre, LinesAre, LineIs
  <1>2. Depth(i + 1) = 3 - k
    <2>1. Depth(i + 1) \in Nat
      BY LineBrackets
    <2> QED
      BY <2>1
  <1>3. k <= n /\ \A c \in 1..n : c > n - k => words[i][c] = "}"
    BY <1>1, Zenon DEF ClosesBy
  <1>4. BehindWords(i, j')
    <2>1. CASE k = 1
      <3>1. j' = n + 1 /\ Depth(i + 1) = 2
        BY <1>1, <1>2, <2>1
      <3> QED
        BY <1>1, <3>1, Zenon DEF BehindWords
    <2>2. CASE k # 1
      <3>1. k <= n
        BY <1>3
      <3>2. j' \in 1..n /\ (\A c \in j'..n : c \in 1..n /\ c > n - k) /\ Depth(i + 1) < 2
        BY <1>1, <1>2, <2>2, <3>1
      <3>3. OnlyClosing(words[i], j')
        BY <1>1, <1>3, <3>2, Zenon DEF OnlyClosing
      <3> QED
        BY <1>1, <3>2, <3>3, Zenon DEF BehindWords
    <2> QED
      BY <2>1, <2>2
  <1> QED
    BY <1>4, ReadsBlock, Zenon

\* Behind a line of a location, or of its name.
LEMMA BlockGoesOn ==
    ASSUME Plain, input' = input, i \in 1..Len(words), at' = "parse_server_location", i' = i + 1, j' = 1,
           words' = words, Depth(i + 1) = 3 \/ (Depth(i + 1) = 2 /\ Before(i + 1).head),
           InServer(Before(i + 1), id', node', line_words', http_as_words', nodes')
    PROVE  Reading'
  <1>1. PICK N \in Nat : N = Len(words)
    BY PlacesAre
  <1>2. i + 1 # N + 1
    <2>1. Before(N + 1).depth = 0
      BY <1>1, PlacesAre
    <2> QED
      BY <2>1 DEF Depth
  <1>3. i' \in 1..Len(words)
    BY <1>1, <1>2
  <1> QED
    BY <1>3, ReadsBlock, Zenon

LEMMA LocationBracketIsRead ==
    ASSUME Plain, input' = input, LocationLine, i \in 1..Len(words), j = 1, Depth(i) = 2, Before(i).head,
           InServer(Before(i), id, node, line_words, http_as_words, nodes)
    PROVE  Reading'
  <1> DEFINE p == Before(i)
             q == Before(i + 1)
  <1>1. PICK N \in Nat : N = Len(words)
    BY PlacesAre
  <1>2. i \in 1..N
    BY <1>1
  <1>3. LineKind(p, q, words[i]) /\ p.depth \in Nat /\ q.depth \in Nat
    BY <1>1, <1>2, LinesAreOfKind, LineBrackets, Zenon DEF Depth
  <1>4. Bracket(p, q, words[i])
    BY <1>3, KindAt
  <1>5. /\ words[i] = OpenLine /\ q.depth = p.depth + 1
        /\ q.http = p.http /\ q.sites = p.sites /\ q.words = p.words /\ q.blocks = p.blocks
    BY <1>4, Zenon DEF Bracket
  <1>6. Depth(i + 1) = 3
    <2>1. q.depth = p.depth + 1
      BY <1>5, Zenon
    <2> QED
      BY <2>1 DEF Depth
  <1>7. Len(words[i]) = 1 /\ words[i][1] = "{" /\ FirstBracket(i, 1) = 1
    BY <1>1, <1>2, <1>5, HeadsAre, NamesArePlain, FirstBracketOf, Zenon
  <1>8. SubSeq(words[i], 1, 1 - 1) = << >>
    <2>1. words[i] \in Line
      BY <1>1, <1>2, PlacesAre, LinesAre, Zenon
    <2> QED
      BY <2>1, NothingTaken
  <1>9. "{" # "}"
    OBVIOUS
  <1>10. /\ UNCHANGED <<words, http_as_words, id, line_words, nodes>> /\ node' = node
         /\ at' = "parse_server_location" /\ i' = i + 1 /\ j' = 1
    BY <1>1, <1>2, <1>7, <1>8, <1>9, LocationIsRead, Zenon
  <1>11. InServer(q, id', node', line_words', http_as_words', nodes')
    BY <1>5, <1>10, Zenon DEF InServer, NodeAt, Found
  <1> QED
    BY <1>1, <1>2, <1>6, <1>10, <1>11, BlockGoesOn, Zenon

LEMMA BlockIs ==
    ASSUME Plain, NEW r \in 1..Len(words), Before(r).depth >= 2,
           Before(r).blocks < Len(Site(Before(r).sites).location_blocks),
           NEW h, h = Site(Before(r).sites).location_blocks[Before(r).blocks + 1]
    PROVE  /\ Before(r).sites \in 1..Len(input.sites) /\ Before(r).blocks \in Nat
           /\ h \in PlainLine /\ h \in Line /\ h # << >> /\ Len(h) \in Nat \ {0}
  <1>1. r \in 1..Len(words) + 1
    BY PlacesAre
  <1>2. Before(r).sites \in 1..Len(input.sites) /\ Before(r).blocks \in Nat
    BY <1>1, SiteHere, PlacesAre DEF IsPlace
  <1>3. h \in PlainLine
    BY AddedWords
  <1>4. h \in Line /\ Len(h) \in Nat \ {0}
    BY <1>3, PlainLineIs
  <1>5. h # << >>
    BY <1>4
  <1> QED
    BY <1>2, <1>3, <1>4, <1>5

LEMMA LocationNameIsRead ==
    ASSUME Plain, input' = input, LocationLine, i \in 1..Len(words), j = 1,
           LocationHead(Before(i), Before(i + 1), words[i]),
           InServer(Before(i), id, node, line_words, http_as_words, nodes)
    PROVE  Reading'
  <1> DEFINE p == Before(i)
             q == Before(i + 1)
  <1>1. PICK N \in Nat : N = Len(words)
    BY PlacesAre
  <1>2. i \in 1..N
    BY <1>1
  <1>3. PICK h : h = Site(p.sites).location_blocks[p.blocks + 1]
    OBVIOUS
  <1>4. /\ p.depth = 2 /\ p.blocks < Len(Site(p.sites).location_blocks)
        /\ q.http = p.http /\ q.sites = p.sites /\ q.words = p.words /\ q.blocks = p.blocks + 1
        /\ \/ words[i] = h /\ q.head /\ q.depth = p.depth
           \/ words[i] = Append(h, "{") /\ ~q.head /\ q.depth = p.depth + 1
    BY <1>3, Zenon DEF LocationHead, Opening
  <1>5. /\ p.sites \in 1..Len(input.sites) /\ p.blocks \in Nat
        /\ h \in PlainLine /\ h \in Line /\ h # << >> /\ Len(h) \in Nat \ {0}
    <2>1. p.depth = 2 => p.depth >= 2
      OBVIOUS
    <2> QED
      BY <1>1, <1>2, <1>3, <1>4, <2>1, BlockIs, Zenon
  <1>6. PICK m \in Nat \ {0} : m = Len(h)
    BY <1>5
  <1>7. FirstBracket(i, 1) = m + 1 /\ SubSeq(words[i], 1, m) = h
        /\ ~(m + 1 <= Len(words[i]) /\ words[i][m + 1] = "}")
    <2>1. CASE words[i] = h
      <3>1. ClosesBy(h, 0)
        BY <1>5, PlainCloses
      <3>2. FirstBracket(i, 1) = m + 1 - 0
        <4>1. 0 \in Nat
          OBVIOUS
        <4> QED
          BY <1>1, <1>2, <1>6, <2>1, <3>1, <4>1, FirstBracketOf, Zenon
      <3>3. m + 1 - 0 = m + 1 /\ ~(m + 1 <= m)
        OBVIOUS
      <3>4. SubSeq(h, 1, m) = h
        BY <1>5, <1>6, NothingTaken
      <3> QED
        BY <1>6, <2>1, <3>2, <3>3, <3>4, Zenon
    <2>2. CASE words[i] = Append(h, "{")
      <3>1. /\ OpensBy(words[i]) /\ Len(words[i]) = m + 1 /\ \A c \in 1..Len(h) : words[i][c] = h[c]
        BY <1>5, <1>6, <2>2, AppendOpens, Zenon
      <3>2. FirstBracket(i, 1) = m + 1
        BY <1>1, <1>2, <3>1, FirstBracketOf, Zenon
      <3>3. words[i][m + 1] # "}"
        <4>1. words[i][m + 1] = "{" /\ "{" # "}"
          BY <3>1, Zenon DEF OpensBy
        <4> QED
          BY <4>1
      <3>4. words[i] \in Line
        BY <1>1, <1>2, PlacesAre, LinesAre, Zenon
      <3>5. m <= m + 1
        OBVIOUS
      <3>6. SubSeq(words[i], 1, Len(h)) = h
        BY <1>5, <1>6, <3>1, <3>4, <3>5, TakenHead, Zenon
      <3> QED
        BY <1>6, <3>2, <3>3, <3>6, Zenon
    <2> QED
      BY <1>4, <2>1, <2>2, Zenon
  <1>8. m + 1 - 1 = m
    OBVIOUS
  <1>9. /\ UNCHANGED <<words, http_as_words, id, line_words, nodes>>
        /\ node' = [node EXCEPT !.location_blocks = Append(node.location_blocks, h)]
        /\ at' = "parse_server_location" /\ i' = i + 1 /\ j' = 1
    <2>0. PICK stop : stop = m + 1 /\ stop - 1 = m
      BY <1>8
    <2>1. stop = FirstBracket(i, 1) /\ h = SubSeq(words[i], 1, stop - 1)
      BY <1>7, <2>0, Zenon
    <2>2. ~(stop <= Len(words[i]) /\ words[i][stop] = "}")
      BY <1>7, <2>0, Zenon
    <2> QED
      BY <1>1, <1>2, <1>5, <2>1, <2>2, LocationIsRead, Zenon
  <1>10. node = NodeAt(p) /\ Found(p, p.sites - 1, http_as_words, nodes) /\ id = "server" /\ line_words = << >>
    BY DEF InServer
  <1>11. node' = NodeAt(q)
    <2>1. PICK c : c = Append(node.location_blocks, h)
      OBVIOUS
    <2>2. WithBlock(node, c) = NodeAt(q)
      <3>1. /\ q.sites = p.sites /\ p.blocks < Len(Site(p.sites).location_blocks)
            /\ q.words = p.words /\ q.blocks = p.blocks + 1
        BY <1>4, Zenon
      <3> QED
        BY <1>3, <1>5, <1>10, <2>1, <3>1, NodeWithBlock, ZenonT(60)
    <2> QED
      BY <1>9, <2>1, <2>2, Zenon DEF WithBlock
  <1>12. InServer(q, id', node', line_words', http_as_words', nodes')
    <2>1. Found(q, q.sites - 1, http_as_words, nodes)
      BY <1>4, <1>10, Zenon DEF Found
    <2> QED
      BY <1>9, <1>10, <1>11, <2>1, Zenon DEF InServer
  <1>13. Depth(i + 1) = 3 \/ (Depth(i + 1) = 2 /\ Before(i + 1).head)
    <2>1. p.depth = 2 /\ ((q.head /\ q.depth = p.depth) \/ q.depth = p.depth + 1)
      BY <1>4, Zenon
    <2> QED
      BY <2>1 DEF Depth
  <1> QED
    BY <1>1, <1>2, <1>9, <1>12, <1>13, BlockGoesOn, Zenon

LEMMA LocationDirectiveIsRead ==
    ASSUME Plain, input' = input, LocationLine, i \in 1..Len(words), j = 1,
           LocationDirective(Before(i), Before(i + 1), words[i]),
           InServer(Before(i), id, node, line_words, http_as_words, nodes)
    PROVE  Reading'
  <1> DEFINE p == Before(i)
             q == Before(i + 1)
  <1>1. PICK N \in Nat : N = Len(words)
    BY PlacesAre
  <1>2. i \in 1..N
    BY <1>1
  <1>3. PICK h : h = Site(p.sites).location_blocks[p.blocks + 1]
    OBVIOUS
  <1>4. /\ p.depth = 3 /\ p.blocks < Len(Site(p.sites).location_blocks)
        /\ q.http = p.http /\ q.sites = p.sites /\ q.words = p.words /\ q.blocks = p.blocks + 1
        /\ words[i] = h \o Closing(p.depth - q.depth) /\ ~q.head /\ q.depth <= p.depth
        /\ (q.depth < 2 => Whole(q))
    <2>1. p.depth = 3 => p.depth >= 2
      OBVIOUS
    <2> QED
      BY <1>3, <2>1, Zenon DEF LocationDirective, Leaves
  <1>5. /\ p.sites \in 1..Len(input.sites) /\ p.blocks \in Nat
        /\ h \in PlainLine /\ h \in Line /\ h # << >> /\ Len(h) \in Nat \ {0}
    <2>1. p.depth = 3 => p.depth >= 2
      OBVIOUS
    <2> QED
      BY <1>1, <1>2, <1>3, <1>4, <2>1, BlockIs, Zenon
  <1>6. PICK m \in Nat \ {0} : m = Len(h)
    BY <1>5
  <1>7. PICK k \in 0..3 : k = p.depth - q.depth
    <2>1. q.depth \in Nat
      BY <1>1, <1>2, LineBrackets, Zenon DEF Depth
    <2>2. p.depth - q.depth \in 0..3
      BY <1>4, <2>1
    <2> QED
      BY <2>2
  <1>8. /\ ClosesBy(words[i], k) /\ Len(words[i]) = m + k /\ \A c \in 1..Len(h) : words[i][c] = h[c]
    <2>1. k \in Nat /\ words[i] = h \o Closing(k)
      BY <1>4, <1>7
    <2> QED
      <3>1. ClosesBy(words[i], k) /\ Len(words[i]) = Len(h) + k /\ \A c \in 1..Len(h) : words[i][c] = h[c]
        BY <1>5, <2>1, ClosedBy
      <3> QED
        BY <1>6, <3>1, Zenon
  <1>9. FirstBracket(i, 1) = m + 1
    <2>1. k \in Nat /\ m + k + 1 - k = m + 1
      OBVIOUS
    <2> QED
      BY <1>1, <1>2, <1>8, <2>1, FirstBracketOf, Zenon
  <1>10. SubSeq(words[i], 1, m) = h
    <2>1. words[i] \in Line
      BY <1>1, <1>2, PlacesAre, LinesAre, Zenon
    <2>2. m <= m + k
      OBVIOUS
    <2> QED
      BY <1>5, <1>6, <1>8, <2>1, <2>2, TakenHead, Zenon
  <1>11. PICK stop : stop = m + 1
    OBVIOUS
  <1>12. stop - 1 = m
    BY <1>11
  <1>13. /\ UNCHANGED <<words, http_as_words, id, line_words, nodes>>
         /\ node' = [node EXCEPT !.location_blocks = Append(node.location_blocks, h)]
         /\ stop <= Len(words[i]) /\ words[i][stop] = "}" =>
               at' = "parse_server_loop" /\ j' = stop + 1 /\ i' = i
         /\ ~(stop <= Len(words[i]) /\ words[i][stop] = "}") =>
               at' = "parse_server_location" /\ i' = i + 1 /\ j' = 1
    <2>1. stop = FirstBracket(i, 1) /\ h = SubSeq(words[i], 1, stop - 1)
      BY <1>9, <1>10, <1>11, <1>12, Zenon
    <2> QED
      BY <1>1, <1>2, <1>5, <2>1, LocationIsRead, Zenon
  <1>14. node = NodeAt(p) /\ Found(p, p.sites - 1, http_as_words, nodes) /\ id = "server" /\ line_words = << >>
    BY DEF InServer
  <1>15. node' = NodeAt(q)
    <2>1. PICK c : c = Append(node.location_blocks, h)
      OBVIOUS
    <2>2. WithBlock(node, c) = NodeAt(q)
      <3>1. /\ q.sites = p.sites /\ p.blocks < Len(Site(p.sites).location_blocks)
            /\ q.words = p.words /\ q.blocks = p.blocks + 1
        BY <1>4, Zenon
      <3>2. p.sites \in 1..Len(input.sites) /\ p.blocks \in Nat
            /\ c = Append(node.location_blocks, Site(p.sites).location_blocks[p.blocks + 1])
        BY <1>3, <1>5, <2>1
      <3>3. node = NodeAt(p)
        BY <1>14
      <3> HIDE DEF p, q
      <3> QED
        BY <3>1, <3>2, <3>3, NodeWithBlock, ZenonT(60)
    <2> QED
      BY <1>13, <2>1, <2>2, Zenon DEF WithBlock
  <1>16. InServer(q, id', node', line_words', http_as_words', nodes')
    <2>1. Found(q, q.sites - 1, http_as_words, nodes)
      BY <1>4, <1>14, Zenon DEF Found
    <2> QED
      BY <1>13, <1>14, <1>15, <2>1, Zenon DEF InServer
  <1>17. Depth(i) = 3 /\ k = Depth(i) - Depth(i + 1) /\ Depth(i + 1) \in Nat
    BY <1>1, <1>2, <1>4, <1>7, LineBrackets, Zenon DEF Depth
  <1>18. CASE k = 0
    <2>1. ~(stop <= Len(words[i]))
      BY <1>8, <1>11, <1>18
    <2>2. at' = "parse_server_location" /\ i' = i + 1 /\ j' = 1 /\ words' = words
      BY <1>13, <2>1, Zenon
    <2>3. Depth(i + 1) = 3
      BY <1>17, <1>18
    <2> QED
      BY <1>1, <1>2, <1>16, <2>2, <2>3, BlockGoesOn, Zenon
  <1>19. CASE k # 0
    <2>1. k \in 1..3 /\ stop <= Len(words[i]) /\ stop \in 1..Len(words[i])
          /\ stop > Len(words[i]) - k /\ stop + 1 = Len(words[i]) + 1 - k + 1
      BY <1>8, <1>11, <1>19
    <2>2. words[i][stop] = "}"
      BY <1>8, <2>1, Zenon DEF ClosesBy
    <2>3. at' = "parse_server_loop" /\ j' = Len(words[i]) + 1 - k + 1 /\ i' = i /\ words' = words
      BY <1>13, <2>1, <2>2, Zenon
    <2>4. q.sites # 0
      <3>1. p.sites # 0
        BY <1>5
      <3> QED
        BY <1>4, <3>1, Zenon
    <2>5. Depth(i + 1) < 2 => Whole(q)
      BY <1>4, Zenon DEF Depth
    <2> QED
      BY <1>1, <1>2, <1>4, <1>8, <1>16, <1>17, <2>1, <2>3, <2>4, <2>5, BlockEnds, Zenon
  <1> QED
    BY <1>18, <1>19

LEMMA LocationEndIsRead ==
    ASSUME Plain, input' = input, LocationLine, i \in 1..Len(words), j = 1, Depth(i) = 3,
           ClosingLine(Before(i), Before(i + 1), words[i]),
           InServer(Before(i), id, node, line_words, http_as_words, nodes)
    PROVE  Reading'
  <1> DEFINE p == Before(i)
             q == Before(i + 1)
  <1>1. PICK N \in Nat : N = Len(words)
    BY PlacesAre
  <1>2. i \in 1..N
    BY <1>1
  <1>3. /\ p.depth = 3 /\ q.depth < p.depth /\ words[i] = Closing(p.depth - q.depth) /\ ~q.head
        /\ q.http = p.http /\ q.sites = p.sites /\ q.words = p.words /\ q.blocks = p.blocks
        /\ (q.depth < 2 => Whole(q))
    <2>1. p.depth = 3 /\ (p.depth = 3 => p.depth >= 2)
      BY DEF Depth
    <2> QED
      BY <2>1, Zenon DEF ClosingLine, Leaves
  <1>4. PICK k \in 1..3 : k = p.depth - q.depth
    <2>1. q.depth \in Nat
      BY <1>1, <1>2, LineBrackets, Zenon DEF Depth
    <2>2. p.depth - q.depth \in 1..3
      BY <1>3, <2>1
    <2> QED
      BY <2>2
  <1>5. ClosesBy(words[i], k) /\ Len(words[i]) = k /\ words[i][1] = "}"
    <2>1. k \in Nat /\ words[i] = Closing(k) /\ 1 \in 1..k
      BY <1>3, <1>4
    <2> QED
      BY <2>1, OnlyCloses, ClosingIs
  <1>6. FirstBracket(i, 1) = 1
    <2>1. k \in Nat /\ k + 1 - k = 1
      OBVIOUS
    <2> QED
      BY <1>1, <1>2, <1>5, <2>1, FirstBracketOf, Zenon
  <1>7. SubSeq(words[i], 1, 1 - 1) = << >>
    <2>1. words[i] \in Line
      BY <1>1, <1>2, PlacesAre, LinesAre, Zenon
    <2> QED
      BY <2>1, NothingTaken
  <1>8. 1 <= k /\ k + 1 - k + 1 = 1 + 1
    OBVIOUS
  <1>9. /\ UNCHANGED <<words, http_as_words, id, line_words, nodes>> /\ node' = node
        /\ at' = "parse_server_loop" /\ j' = Len(words[i]) + 1 - k + 1 /\ i' = i
    BY <1>1, <1>2, <1>5, <1>6, <1>7, <1>8, LocationIsRead, Zenon
  <1>10. InServer(q, id', node', line_words', http_as_words', nodes')
    BY <1>3, <1>9, Zenon DEF InServer, NodeAt, Found
  <1>11. Before(i).depth >= 2 /\ i \in 1..N + 1
    BY <1>2, <1>3
  <1>12. q.sites # 0
    <2>1. p.sites \in 1..Len(input.sites)
      BY <1>1, <1>11, SiteHere
    <2> QED
      BY <1>3, <2>1
  <1>13. k = Depth(i) - Depth(i + 1) /\ (Depth(i + 1) < 2 => Whole(q))
    BY <1>3, <1>4, Zenon DEF Depth
  <1> QED
    BY <1>1, <1>2, <1>3, <1>5, <1>9, <1>10, <1>12, <1>13, BlockEnds, Zenon

LEMMA LocationKeepsReading ==
    ASSUME Plain, input' = input, Reading, LocationLine
    PROVE  Reading'
  <1>1. PICK N \in Nat : N = Len(words)
    BY PlacesAre
  <1>2. at = "parse_server_location"
    BY DEF LocationLine
  <1>3. /\ i \in 1..N /\ j = 1 /\ InServer(Before(i), id, node, line_words, http_as_words, nodes)
        /\ \/ Depth(i) = 3
           \/ Depth(i) = 2 /\ Before(i).head
           \/ Depth(i) = 2 /\ words[i][1] = "location"
    BY <1>1, <1>2, Zenon DEF Reading, BetweenServers, AtBracket, OnDirective, InBlock
  <1> DEFINE p == Before(i)
             q == Before(i + 1)
  <1>4. LineKind(p, q, words[i]) /\ p.depth \in Nat /\ q.depth \in Nat
    BY <1>1, <1>3, LinesAreOfKind, LineBrackets, Zenon DEF Depth
  <1>5. CASE Depth(i) = 2 /\ Before(i).head
    BY <1>1, <1>3, <1>5, LocationBracketIsRead, Zenon
  <1>6. CASE Depth(i) = 2 /\ ~Before(i).head /\ words[i][1] = "location"
    <2>1. ServerDirective(p, q, words[i]) \/ LocationHead(p, q, words[i]) \/ ClosingLine(p, q, words[i])
      BY <1>4, <1>6, KindAt DEF Depth
    <2>2. ~ServerDirective(p, q, words[i])
      <3>1. SUFFICES ASSUME ServerDirective(p, q, words[i]) PROVE FALSE
        OBVIOUS
      <3>2. PICK d : d = Site(p.sites).words[p.words + 1]
        OBVIOUS
      <3>3. PICK k : k = Depth(i) - Depth(i + 1)
        OBVIOUS
      <3>4. i \in 1..Len(words)
        BY <1>1, <1>3
      <3>5. d \in PlainLine /\ (\A c \in 1..Len(d) : d[c] # "location")
        BY <3>1, <3>2, <3>3, <3>4, DirectiveIs
      <3>6. \A c \in 1..Len(d) : words[i][c] = d[c]
        <4>1. StartsWith(words[i], d)
          BY <3>1, <3>2, <3>3, <3>4, DirectiveIs
        <4> QED
          BY <4>1 DEF StartsWith
      <3>7. 1 \in 1..Len(d)
        BY <3>5, PlainLineIs
      <3> QED
        BY <1>6, <3>5, <3>6, <3>7, Zenon
    <2>3. ~ClosingLine(p, q, words[i])
      <3>1. SUFFICES ASSUME ClosingLine(p, q, words[i]) PROVE FALSE
        OBVIOUS
      <3>2. p.depth - q.depth \in Nat /\ 1 \in 1..p.depth - q.depth
            /\ words[i] = Closing(p.depth - q.depth)
        BY <1>4, <3>1 DEF ClosingLine
      <3>3. words[i][1] = "}"
        BY <3>2, ClosingIs
      <3> QED
        BY <1>6, <3>3
    <2> QED
      BY <1>1, <1>3, <2>1, <2>2, <2>3, LocationNameIsRead, Zenon
  <1>7. CASE Depth(i) = 3
    <2>1. ~Before(i).head
      <3>1. PICK n \in Nat : i = n + 1 /\ n <= N
        <4>1. i - 1 \in Nat /\ i = (i - 1) + 1 /\ i - 1 <= N
          BY <1>3
        <4> QED
          BY <4>1
      <3>2. n # 0
        <4>1. Before(1).depth = 0
          BY PlacesAre DEF FirstPlace
        <4>2. n = 0 => i = 1
          BY <3>1
        <4> QED
          BY <1>7, <4>1, <4>2 DEF Depth
      <3>3. n \in 1..Len(words)
        BY <1>1, <3>1, <3>2
      <3>4. Fits(n)
        BY <3>3, PlaceBehind
      <3> QED
        BY <1>7, <3>1, <3>4 DEF Fits, Depth
    <2>2. LocationDirective(p, q, words[i]) \/ ClosingLine(p, q, words[i])
      BY <1>4, <1>7, <2>1, KindAt DEF Depth
    <2> QED
      BY <1>1, <1>3, <1>7, <2>2, LocationDirectiveIsRead, LocationEndIsRead, Zenon
  <1> QED
    BY <1>3, <1>5, <1>6, <1>7, Zenon

LEMMA ScanKeepsReading ==
    ASSUME Plain, input' = input, Reading, ScanNext
    PROVE  KeepsReading
  <1>1. at # "is_config_file_valid"
    BY DEF Reading, BetweenServers, AtBracket, OnDirective, InBlock
  <1>2. ~CheckWords
    BY <1>1 DEF CheckWords
  <1>3. ServerWord \/ ServerLine => KeepsReading
    BY ServerKeepsReading DEF KeepsReading
  <1>4. EnterServer \/ LocationLine => KeepsReading
    BY EnterKeepsReading, LocationKeepsReading, Zenon DEF KeepsReading
  <1> QED
    BY <1>2, <1>3, <1>4, ParseKeepsReading, HttpKeepsReading, Zenon DEF ScanNext

-----------------------------------------------------------------------------
(* From the command line to the end of the file                            *)

NothingFoundYet == http_as_words = << >> /\ nodes = << >>

\* What has been found of a plain file when main() is in a phase.
PlainIsFound ==
    /\ phase \in {"cli", "structure check", "open"} => at = "parse_words" /\ NothingFoundYet
    /\ phase = "scan" =>
          /\ words = ExtractWords(input.lines)
          /\ (at = "is_config_file_valid" /\ NothingFoundYet) \/ Reading
    /\ at \in Ends => at = "parsed" /\ Complete(http_as_words, nodes)

FoundInv == input \in Inputs /\ (input.plain => PlainIsFound)

LEMMA ScanStays ==
    ASSUME UNCHANGED <<input, scan_vars>>
    PROVE  /\ at' = at /\ words' = words /\ http_as_words' = http_as_words /\ nodes' = nodes
           /\ Complete(http_as_words, nodes) => Complete(http_as_words', nodes')
           /\ Reading => Reading'
  <1>1. /\ at' = at /\ words' = words /\ i' = i /\ j' = j /\ http_index' = http_index /\ id' = id
        /\ http_as_words' = http_as_words /\ nodes' = nodes /\ line_words' = line_words
        /\ node' = node /\ input' = input
    BY DEF scan_vars
  <1>2. \A n : Site(n)' = Site(n)
    BY <1>1 DEF Site
  <1>3. BetweenServers => BetweenServers'
    BY <1>1, Zenon DEF BetweenServers, Top, Depth, Before, Found, Site
  <1>4. AtBracket => AtBracket'
    BY <1>1, Zenon DEF AtBracket, Top, ServerNamed, Depth, Before, Found, Site, Closing
  <1>5. OnDirective => OnDirective'
    BY <1>1, Zenon DEF OnDirective, Collecting, StartedAt, ServerDirective, Leaves, Over, Depth, Before, Found,
                   Site, Whole, Closing
  <1>6. InBlock => InBlock'
    BY <1>1, Zenon DEF InBlock, InServer, NodeAt, BehindWords, OnlyClosing, Depth, Before, Found, Site, Whole
  <1>7. Complete(http_as_words, nodes) => Complete(http_as_words', nodes')
    BY <1>1, Zenon DEF Complete, Site
  <1> QED
    BY <1>1, <1>3, <1>4, <1>5, <1>6, <1>7, Zenon DEF Reading

LEMMA FoundInit == Init => FoundInv
  BY DEF Init, ScanInit, FoundInv, PlainIsFound, NothingFoundYet, Ends

\* A step that leaves the scanner alone and does not go back to it.
LEMMA FoundStays ==
    ASSUME FoundInv, UNCHANGED <<input, scan_vars>>,
           phase' \in {"cli", "structure check", "open"} => phase \in {"cli", "structure check", "open"},
           phase' = "scan" => phase = "scan"
    PROVE  FoundInv'
  <1>1. input' = input /\ at' = at /\ http_as_words' = http_as_words /\ nodes' = nodes /\ words' = words
    BY ScanStays
  <1>2. SUFFICES ASSUME input.plain, PlainIsFound PROVE PlainIsFound'
    BY <1>1 DEF FoundInv
  <1>3. phase' = "scan" =>
           /\ words' = ExtractWords(input'.lines)
           /\ (at' = "is_config_file_valid" /\ NothingFoundYet') \/ Reading'
    BY <1>1, <1>2, ScanStays, Zenon DEF PlainIsFound, NothingFoundYet
  <1>4. at' \in Ends => at' = "parsed" /\ Complete(http_as_words', nodes')
    BY <1>1, <1>2, ScanStays, Zenon DEF PlainIsFound
  <1>5. phase' \in {"cli", "structure check", "open"} => at' = "parse_words" /\ NothingFoundYet'
    BY <1>1, <1>2 DEF PlainIsFound, NothingFoundYet
  <1>6. Complete(http_as_words', nodes') => Complete(http_as_words, nodes)'
    BY <1>1, Zenon DEF Complete, Site
  <1> QED
    BY <1>3, <1>4, <1>5, <1>6, Zenon DEF PlainIsFound

LEMMA OpenFileKeepsFound ==
    ASSUME FoundInv, OpenFile
    PROVE  FoundInv'
  <1>1. CASE UNCHANGED scan_vars /\ phase' = "invalid"
    <2>1. UNCHANGED <<input, scan_vars>>
      BY <1>1 DEF OpenFile
    <2> QED
      BY <1>1, <2>1, FoundStays
  <1>2. CASE ReadConfigFile(input.lines) /\ phase' = "scan"
    <2>1. input' = input /\ phase = "open"
      BY DEF OpenFile
    <2>2. /\ words' = ExtractWords(input.lines) /\ at' = "is_config_file_valid"
          /\ http_as_words' = http_as_words /\ nodes' = nodes
      BY <1>2 DEF ReadConfigFile, GoTo
    <2>3. input.plain => http_as_words = << >> /\ nodes = << >>
      BY <2>1 DEF FoundInv, PlainIsFound, NothingFoundYet
    <2> QED
      BY <1>2, <2>1, <2>2, <2>3 DEF FoundInv, PlainIsFound, NothingFoundYet, Ends
  <1> QED
    BY <1>1, <1>2 DEF OpenFile

LEMMA ScanKeepsFound ==
    ASSUME FoundInv, Scan
    PROVE  FoundInv'
  <1>1. input' = input /\ phase = "scan" /\ ScanNext
        /\ phase' = (IF at' \in {"invalid", "undefined"} THEN at'
                     ELSE IF at' = "parsed" THEN "check" ELSE "scan")
    BY DEF Scan
  <1>2. SUFFICES ASSUME input.plain PROVE PlainIsFound'
    BY <1>1 DEF FoundInv
  <1>3. Plain /\ ((at = "is_config_file_valid" /\ NothingFoundYet) \/ Reading)
    BY <1>1, <1>2 DEF FoundInv, PlainIsFound, Plain
  <1>4. words' = words
    BY <1>1 DEF ScanNext, CheckWords, ParseWords, ParseHttpConfigs, EnterServer, ServerWord, ServerLine,
                LocationLine
  <1>5. KeepsReading
    <2>1. CASE Reading
      BY <1>1, <1>3, <2>1, ScanKeepsReading
    <2>2. CASE at = "is_config_file_valid" /\ NothingFoundYet
      <3>1. CheckWords
        BY <1>1, <2>2 DEF ScanNext, ParseWords, ParseHttpConfigs, EnterServer, ServerWord, ServerLine,
                LocationLine
      <3> QED
        BY <1>1, <1>3, <2>2, <3>1, CheckStartsReading DEF KeepsReading, NothingFoundYet
    <2> QED
      BY <1>3, <2>1, <2>2
  <1>6. words' = ExtractWords(input'.lines)
    BY <1>1, <1>3, <1>4 DEF Plain
  <1>7. CASE Reading'
    <2>1. at' \notin Ends
      BY <1>7 DEF Reading, BetweenServers, AtBracket, OnDirective, InBlock, Ends
    <2>2. phase' = "scan"
      BY <1>1, <2>1 DEF Ends
    <2> QED
      BY <1>6, <1>7, <2>1, <2>2 DEF PlainIsFound
  <1>8. CASE at' = "parsed" /\ Complete(http_as_words', nodes')
    <2>1. phase' = "check"
      BY <1>1, <1>8
    <2>2. Complete(http_as_words, nodes)'
      BY <1>1, <1>8, Zenon DEF Complete, Site
    <2> QED
      BY <1>8, <2>1, <2>2 DEF PlainIsFound
  <1> QED
    BY <1>5, <1>7, <1>8 DEF KeepsReading

LEMMA FoundKept ==
    ASSUME Nodes, FoundInv, [Next]_vars
    PROVE  FoundInv'
  <1>1. CASE \/ ParseAndGetCli \/ CheckStructure \/ CheckFile \/ FillHttpData \/ FillServerData
             \/ SetWarnings \/ Start
    <2>1. UNCHANGED <<input, scan_vars>>
      BY <1>1 DEF ParseAndGetCli, CheckStructure, CheckFile, FillHttpData, FillServerData, SetWarnings, Start
    <2>2. /\ phase' \in {"cli", "structure check", "open"} => phase \in {"cli", "structure check", "open"}
          /\ phase' # "scan"
      <3>1. FileVerdict(http_as_words, nodes) \in {"valid", "invalid", "undefined"}
        BY Verdicts DEF Nodes
      <3>2. ServerStops(Len(servers) + 1, nodes[Len(servers) + 1], PortsSet) \in Ended \cup {"no"}
        BY WhyStopped
      <3>3. CASE CheckFile
        BY <3>1, <3>3 DEF CheckFile
      <3>4. CASE FillServerData
        <4> DEFINE stops == ServerStops(Len(servers) + 1, nodes[Len(servers) + 1], PortsSet)
        <4>1. phase' \in {stops, "warnings", "servers"} /\ (phase' = stops => stops # "no")
          BY <3>2, <3>4 DEF FillServerData, Ended
        <4> QED
          BY <3>2, <4>1 DEF Ended
      <3>5. CASE ParseAndGetCli \/ CheckStructure \/ FillHttpData \/ SetWarnings \/ Start
        BY <3>5 DEF ParseAndGetCli, CheckStructure, FillHttpData, SetWarnings, Start
      <3> QED
        BY <1>1, <3>3, <3>4, <3>5
    <2> QED
      BY <2>1, <2>2, FoundStays
  <1>2. CASE Connect \/ Receive \/ Parse \/ ArchitectResponse \/ Settle \/ Follow \/ Done
    <2>1. UNCHANGED <<input, scan_vars>>
      BY <1>2 DEF Connect, Receive, Parse, ArchitectResponse, Settle, Follow, Done, vars, site_vars
    <2>2. phase' \in {phase, "out_of_range"}
      BY <1>2 DEF Connect, Receive, Parse, ArchitectResponse, Settle, Follow, Done, vars, site_vars
    <2> QED
      BY <2>1, <2>2, FoundStays
  <1>3. CASE UNCHANGED vars
    <2>1. UNCHANGED <<input, scan_vars>> /\ phase' = phase
      BY <1>3 DEF vars, site_vars
    <2> QED
      BY <2>1, FoundStays
  <1> QED
    BY <1>1, <1>2, <1>3, OpenFileKeepsFound, ScanKeepsFound DEF Next

LEMMA FoundIsWritten == FoundInv => ParsedAsWritten
  BY Zenon DEF FoundInv, PlainIsFound, ParsedAsWritten, Complete, Site

\* Whatever the file, if it is laid out as PlainAssumption says: the scanner
\* comes to its end, and has found the directives of every block, in their
\* order, and no others (parse_words and the functions it calls).
THEOREM ParsedIsAsWritten == Spec => []ParsedAsWritten
  <1> QED
    BY FoundInit, FoundKept, FoundIsWritten, SiteInvariant, PTL DEF Spec, SiteInv
=============================================================================
