---------------------------- MODULE HeaderProofs ----------------------------
(***************************************************************************)
(* What becomes of a header that is sent in segments of whole lines        *)
(* (SentAssumption): for every such header, however it is cut, and for     *)
(* every request of a connection that is kept.                             *)
(*                                                                         *)
(* First the text itself: where the lines stand in what is sent (TextAt),  *)
(* which positions read_header takes for an end of line (Marks) and for    *)
(* the start of one, and what it pushes back (ReadLines). Then one         *)
(* segment, the fields parse_request collects (Holds), and HeaderInv: what *)
(* of the request has been read, and what is left on the wire.             *)
(***************************************************************************)
EXTENDS SettingsProofs

-----------------------------------------------------------------------------
(* Lines of a header, as they are sent                                     *)

\* What is sent; the provers do not know that "CR" is a string.
Char == STRING \cup {"CR", "LF"}

HeaderLines == Seq(HeaderLine)

\* In B, the lines ls and then t: line number n ends at position e[n].
TextAt(e, ls, t, B) ==
    /\ B \in Seq(Char) /\ e[0] = 0 /\ Len(B) = e[Len(ls)] + Len(t)
    /\ \A n \in 0..Len(ls) : e[n] \in Nat
    /\ \A n \in 1..Len(ls) :
          /\ e[n] = e[n - 1] + Len(ls[n]) + 2
          /\ \A x \in 1..Len(ls[n]) : B[e[n - 1] + x] = ls[n][x]
          /\ B[e[n] - 1] = "CR" /\ B[e[n]] = "LF"
    /\ \A k, n \in 0..Len(ls) : k <= n => e[k] <= e[n]
    /\ \A x \in 1..e[Len(ls)] : \E n \in 1..Len(ls) : e[n - 1] < x /\ x <= e[n]
    /\ \A x \in 1..Len(t) : B[e[Len(ls)] + x] = t[x]

LEMMA HeaderLineIs ==
    ASSUME NEW ls \in HeaderLines
    PROVE  /\ Len(ls) \in Nat /\ DOMAIN ls = 1..Len(ls)
           /\ \A n \in 1..Len(ls) :
                 /\ ls[n] \in Seq(Char) /\ Len(ls[n]) \in Nat \ {0}
                 /\ \A x \in 1..Len(ls[n]) : ls[n][x] \notin {"CR", "LF"}
  <1>1. Len(ls) \in Nat /\ DOMAIN ls = 1..Len(ls)
    BY DEF HeaderLines
  <1>2. ASSUME NEW n \in 1..Len(ls)
        PROVE  /\ ls[n] \in Seq(Char) /\ Len(ls[n]) \in Nat \ {0}
               /\ \A x \in 1..Len(ls[n]) : ls[n][x] \notin {"CR", "LF"}
    <2>1. PICK l : l = ls[n]
      OBVIOUS
    <2>2. l \in Seq(STRING \ {"CR", "LF"}) /\ l # << >>
      BY <2>1 DEF HeaderLines, HeaderLine
    <2>3. l \in Seq(Char)
      <3>1. STRING \ {"CR", "LF"} \subseteq Char
        BY DEF Char
      <3> QED
        BY <2>2, <3>1, SeqMonotonic
    <2>4. Len(l) \in Nat \ {0} /\ \A x \in 1..Len(l) : l[x] \notin {"CR", "LF"}
      BY <2>2
    <2> QED
      BY <2>1, <2>3, <2>4
  <1> QED
    BY <1>1, <1>2

LEMMA EndOfLine == CRLF \in Seq(Char) /\ Len(CRLF) = 2 /\ CRLF[1] = "CR" /\ CRLF[2] = "LF"
  BY DEF CRLF, Char

LEMMA TextPlaced ==
    ASSUME NEW ls \in HeaderLines, NEW t \in Seq(Char)
    PROVE  \E e : TextAt(e, ls, t, LinesText(ls) \o t)
  <1> DEFINE N == Len(ls)
             ss == [n \in DOMAIN ls |-> ls[n] \o CRLF]
             A == FlattenSeq(ss)
             B == A \o t
  <1>1. N \in Nat /\ DOMAIN ls = 1..N
    BY HeaderLineIs
  <1>2. ASSUME NEW n \in 1..N
        PROVE  /\ ss[n] \in Seq(Char) /\ Len(ls[n]) \in Nat /\ Len(ss[n]) = Len(ls[n]) + 2
               /\ \A x \in 1..Len(ls[n]) : x \in 1..Len(ss[n]) /\ ss[n][x] = ls[n][x]
               /\ ss[n][Len(ls[n]) + 1] = "CR" /\ ss[n][Len(ls[n]) + 2] = "LF"
    <2>1. ss[n] = ls[n] \o CRLF
      BY <1>1
    <2>2. PICK l \in Seq(Char) : l = ls[n]
      BY HeaderLineIs
    <2>3. PICK c \in Seq(Char) : c = CRLF
      BY EndOfLine
    <2>4. Len(c) = 2 /\ c[1] = "CR" /\ c[2] = "LF" /\ 1 \in 1..Len(c) /\ 2 \in 1..Len(c)
      BY <2>3, EndOfLine
    <2>5. /\ l \o c \in Seq(Char) /\ Len(l \o c) = Len(l) + 2
          /\ \A m \in 1..Len(l) : m \in 1..Len(l) + 2 /\ (l \o c)[m] = l[m]
          /\ \A m \in 1..Len(c) : (l \o c)[Len(l) + m] = c[m]
      <3>1. /\ l \o c \in Seq(Char) /\ Len(l \o c) = Len(l) + Len(c)
            /\ \A m \in 1..Len(l) : m \in 1..Len(l) + Len(c) /\ (l \o c)[m] = l[m]
            /\ \A m \in 1..Len(c) : (l \o c)[Len(l) + m] = c[m]
        BY ConcatIs
      <3> QED
        BY <2>4, <3>1
    <2>6. Len(l) \in Nat
      OBVIOUS
    <2> HIDE DEF ss
    <2> QED
      BY <2>1, <2>2, <2>3, <2>4, <2>5, <2>6
  <1>3. ss = [n \in 1..N |-> ss[n]]
    BY <1>1
  <1>4. B = LinesText(ls) \o t
    BY DEF LinesText
  <1> HIDE DEF ss, N, A
  <1>5. ss \in [1..N -> Seq(Char)]
    BY <1>2, <1>3
  <1>6. ss \in Seq(Seq(Char)) /\ Len(ss) = N
    BY <1>1, <1>5, FunctionIsSeq
  <1>7. PICK e : /\ Offsets(e, ss) /\ Len(A) = e[N]
                 /\ \A n \in 1..N : \A m \in 1..Len(ss[n]) : A[e[n - 1] + m] = ss[n][m]
    <2>1. PICK e : /\ Offsets(e, ss) /\ Len(FlattenSeq(ss)) = e[Len(ss)]
                   /\ \A n \in 1..Len(ss) : \A m \in 1..Len(ss[n]) :
                         FlattenSeq(ss)[e[n - 1] + m] = ss[n][m]
      BY <1>6, FlattenAt
    <2>2. A = FlattenSeq(ss)
      BY DEF A
    <2> HIDE DEF B
    <2> QED
      BY <1>6, <2>1, <2>2
  <1>8. A \in Seq(Char)
    BY <1>6, FlattenType DEF A
  <1>9. /\ B \in Seq(Char) /\ Len(B) = Len(A) + Len(t) /\ Len(A) \in Nat
        /\ \A m \in 1..Len(A) : B[m] = A[m]
        /\ \A m \in 1..Len(t) : B[Len(A) + m] = t[m]
    BY <1>8, ConcatIs
  <1> HIDE DEF B
  <1>10. /\ e[0] = 0 /\ \A n \in 0..N : e[n] \in Nat
         /\ \A n \in 1..N : e[n] = e[n - 1] + Len(ss[n])
    BY <1>6, <1>7 DEF Offsets
  <1>11. \A n \in 1..Len(ss) : Len(ss[n]) \in Nat
    BY <1>2, <1>6
  <1>12. ASSUME NEW k \in 0..N, NEW n \in 0..N, k <= n PROVE e[k] <= e[n]
    BY <1>1, <1>6, <1>7, <1>11, <1>12, OffsetsGrow
  <1>13. ASSUME NEW n \in 1..N
         PROVE  /\ e[n] = e[n - 1] + Len(ls[n]) + 2
                /\ \A x \in 1..Len(ls[n]) : B[e[n - 1] + x] = ls[n][x]
                /\ B[e[n] - 1] = "CR" /\ B[e[n]] = "LF"
    <2>1. n - 1 \in 0..N /\ n \in 0..N /\ N \in 0..N /\ n <= N
      BY <1>1
    <2>2. e[n - 1] \in Nat /\ e[n] \in Nat /\ e[N] \in Nat /\ e[n] <= e[N]
      BY <1>10, <1>12, <2>1
    <2>3. Len(ls[n]) \in Nat /\ Len(ss[n]) = Len(ls[n]) + 2 /\ e[n] = e[n - 1] + Len(ss[n])
      BY <1>2, <1>10
    <2>4. e[n] = e[n - 1] + Len(ls[n]) + 2
      BY <2>2, <2>3
    <2>5. ASSUME NEW x \in 1..Len(ss[n]) PROVE B[e[n - 1] + x] = ss[n][x]
      <3>1. e[n - 1] + x \in 1..Len(A)
        <4>1. Len(A) = e[N]
          BY <1>7
        <4>2. PICK a \in Nat : a = e[n - 1]
          BY <2>2
        <4>3. a + Len(ss[n]) <= e[N] /\ Len(ss[n]) \in Nat /\ e[N] \in Nat
          BY <2>2, <2>3, <4>2
        <4> QED
          BY <4>1, <4>2, <4>3
      <3> QED
        BY <1>7, <1>9, <3>1
    <2>6. /\ Len(ls[n]) + 1 \in 1..Len(ss[n]) /\ Len(ls[n]) + 2 \in 1..Len(ss[n])
          /\ e[n - 1] + (Len(ls[n]) + 1) = e[n] - 1 /\ e[n - 1] + (Len(ls[n]) + 2) = e[n]
      BY SMTT(60), <2>2, <2>3, <2>4
    <2>7. B[e[n] - 1] = "CR" /\ B[e[n]] = "LF"
      BY <1>2, <2>5, <2>6
    <2> QED
      BY <1>2, <2>4, <2>5, <2>7
  <1>14. ASSUME NEW x \in 1..e[N] PROVE \E n \in 1..N : e[n - 1] < x /\ x <= e[n]
    <2>1. x \in 1..e[Len(ss)] /\ Len(ss) \in Nat
      BY <1>1, <1>6
    <2>2. PICK n \in 1..Len(ss) : \E m \in 1..Len(ss[n]) : x = e[n - 1] + m
      BY <1>7, <1>11, <2>1, OffsetsCover
    <2>3. PICK m \in 1..Len(ss[n]) : x = e[n - 1] + m
      BY <2>2
    <2>4. n \in 1..N /\ n - 1 \in 0..N
      BY <1>1, <1>6
    <2>5. e[n - 1] \in Nat /\ e[n] = e[n - 1] + Len(ss[n]) /\ Len(ss[n]) \in Nat
      BY <1>10, <1>11, <2>4
    <2> QED
      BY <2>3, <2>4, <2>5
  <1>15. Len(B) = e[N] + Len(t) /\ \A x \in 1..Len(t) : B[e[N] + x] = t[x]
    BY <1>7, <1>9
  <1>16. TextAt(e, ls, t, B)
    BY <1>9, <1>10, <1>12, <1>13, <1>14, <1>15 DEF TextAt, N
  <1> QED
    BY <1>4, <1>16

\* An end of line that the reader finds in the lines is one of theirs, and
\* the other way round: Q holds the ends of the first k lines.
Marks(Q, e, k) == \A x \in 1..e[k] : x \in Q <=> \E n \in 1..k : x = e[n] - 1

LEMMA EndsFound ==
    ASSUME NEW ls \in HeaderLines, NEW t \in Seq(Char), NEW B, NEW e, TextAt(e, ls, t, B),
           NEW behind
    PROVE  Marks(LineEnds(B, behind), e, Len(ls))
  <1> DEFINE k == Len(ls)
  <1>1. k \in Nat /\ k \in 0..k /\ e[k] \in Nat /\ Len(t) \in Nat /\ Len(B) = e[k] + Len(t)
        /\ DOMAIN B = 1..Len(B)
    BY HeaderLineIs DEF TextAt
  <1>2. ASSUME NEW n \in 1..k
        PROVE  /\ e[n] \in Nat /\ e[n - 1] \in Nat /\ e[n] <= e[k] /\ Len(ls[n]) \in Nat \ {0}
               /\ e[n] = e[n - 1] + Len(ls[n]) + 2 /\ B[e[n] - 1] = "CR" /\ B[e[n]] = "LF"
               /\ \A x \in 1..Len(ls[n]) : B[e[n - 1] + x] # "CR"
    <2>1. n - 1 \in 0..k /\ n \in 0..k /\ k \in 0..k /\ n <= k
      BY <1>1
    <2>2. e[n] \in Nat /\ e[n - 1] \in Nat /\ e[n] <= e[k]
      BY <2>1 DEF TextAt
    <2>3. Len(ls[n]) \in Nat \ {0} /\ \A x \in 1..Len(ls[n]) : ls[n][x] # "CR"
      BY HeaderLineIs
    <2>4. /\ e[n] = e[n - 1] + Len(ls[n]) + 2 /\ B[e[n] - 1] = "CR" /\ B[e[n]] = "LF"
          /\ \A x \in 1..Len(ls[n]) : B[e[n - 1] + x] = ls[n][x]
      BY DEF TextAt
    <2> QED
      BY <2>2, <2>3, <2>4
  <1>3. ASSUME NEW x \in 1..e[k], x \in LineEnds(B, behind)
        PROVE  \E n \in 1..k : x = e[n] - 1
    <2>1. B[x] = "CR"
      BY <1>3 DEF LineEnds
    <2>2. PICK n \in 1..k : e[n - 1] < x /\ x <= e[n]
      BY DEF TextAt
    <2>3. ~(x - e[n - 1] \in 1..Len(ls[n]))
      <3>1. SUFFICES ASSUME x - e[n - 1] \in 1..Len(ls[n]) PROVE FALSE
        OBVIOUS
      <3>2. PICK y \in 1..Len(ls[n]) : y = x - e[n - 1]
        BY <3>1
      <3>3. e[n - 1] + y = x
        BY <1>2, <3>2
      <3> QED
        BY <1>2, <2>1, <3>3
    <2>4. x # e[n]
      BY <1>2, <2>1
    <2>5. x = e[n] - 1
      <3>1. PICK a \in Nat : a = e[n - 1]
        BY <1>2
      <3>2. PICK b \in Nat : b = e[n]
        BY <1>2
      <3>3. PICK z \in Nat : z = Len(ls[n])
        BY <1>2
      <3>4. b = a + z + 2 /\ a < x /\ x <= b /\ x # b /\ ~(x - a \in 1..z) /\ x \in Int
        BY <1>2, <2>2, <2>3, <2>4, <3>1, <3>2, <3>3
      <3> QED
        BY <3>2, <3>4
    <2> QED
      BY <2>5
  <1>4. ASSUME NEW x \in 1..e[k], NEW n \in 1..k, x = e[n] - 1
        PROVE  x \in LineEnds(B, behind)
    <2>1. x \in DOMAIN B /\ x # Len(B) /\ B[x] = "CR" /\ B[x + 1] = "LF"
      BY SMTT(60), <1>1, <1>2, <1>4
    <2> QED
      BY <2>1 DEF LineEnds
  <1> QED
    BY <1>3, <1>4 DEF Marks

\* How a maximum is found.
LEMMA MaxIs ==
    ASSUME NEW T, T \subseteq Int, NEW x \in T, \A y \in T : y <= x
    PROVE  Max(T) = x
  <1>1. \A y \in T : x >= y
    OBVIOUS
  <1>2. Max(T) \in T /\ \A y \in T : Max(T) >= y
    BY <1>1 DEF Max
  <1>3. PICK z \in T : z = Max(T)
    BY <1>2
  <1>4. z \in Int /\ x \in Int /\ z >= x /\ x >= z
    BY <1>1, <1>2, <1>3
  <1> QED
    BY <1>3, <1>4

\* Ends of lines stand one behind the other.
Grows(e, k) == e[0] = 0 /\ \A m \in 0..k : e[m] \in Nat /\ e[m] <= e[k]

\* No member of Q stands from a to c.
LastBefore(Q, a, c) == \A d \in Q : d \in Nat \ {0} /\ (d < c => d < a)

\* A line starts where the one before it ends.
LEMMA LineStartIs ==
    ASSUME NEW k \in Nat, NEW e, NEW n \in 0..k, NEW Q, Marks(Q, e, k),
           Grows(e, k), n # 0 => e[n] > 1,
           NEW c \in Nat, e[n] < c,
           LastBefore(Q, e[n], c)
    PROVE  LineStart(Q, c) = e[n] + 1
  <1> DEFINE T == {d + 2 : d \in {q \in Q : q < c}} \cup {1}
  <1>0. /\ e[0] = 0 /\ \A m \in 0..k : e[m] \in Nat /\ e[m] <= e[k]
        /\ \A d \in Q : d \in Nat \ {0} /\ (d < c => d < e[n])
    BY DEF Grows, LastBefore
  <1>1. LineStart(Q, c) = Max(T)
    BY DEF LineStart
  <1>2. T \subseteq Int
    <2>1. \A d \in Q : d \in Nat
      BY <1>0
    <2>2. \A d \in Q : d + 2 \in Int
      BY <2>1
    <2> QED
      BY <2>2
  <1>3. e[n] + 1 \in T
    <2>1. CASE n = 0
      BY <1>0, <2>1
    <2>2. CASE n # 0
      <3>1. n \in 1..k /\ e[n] - 1 \in 1..e[k]
        BY <1>0, <2>2
      <3>2. e[n] - 1 \in Q
        BY <3>1 DEF Marks
      <3>3. e[n] \in Nat /\ e[n] - 1 < c /\ (e[n] - 1) + 2 = e[n] + 1
        BY <1>0
      <3>4. (e[n] - 1) + 2 \in T
        BY <3>2, <3>3
      <3> QED
        BY <3>3, <3>4
    <2> QED
      BY <2>1, <2>2
  <1>4. ASSUME NEW y \in T PROVE y <= e[n] + 1
    <2>1. CASE y = 1
      <3>1. e[n] \in Nat
        BY <1>0
      <3> QED
        BY <2>1, <3>1
    <2>2. CASE \E d \in Q : d < c /\ y = d + 2
      <3>1. PICK d \in Q : d < c /\ y = d + 2
        BY <2>2
      <3>2. d < e[n] /\ d \in Nat /\ e[n] \in Nat
        BY <1>0, <3>1
      <3> QED
        BY <3>1, <3>2
    <2> QED
      BY <2>1, <2>2
  <1> HIDE DEF T
  <1> QED
    BY <1>1, <1>2, <1>3, <1>4, MaxIs

\* The loop of read_header over the first m positions: f[c] is what has been
\* pushed back behind position c.
Scans(f, B, Q, m) ==
    f = [c \in 0..m |->
            IF c = 0 THEN << >>
            ELSE IF c \in Q THEN Append(f[c - 1], SubSeq(B, LineStart(Q, c), c - 1))
            ELSE f[c - 1]]

LEMMA ScansExists ==
    ASSUME NEW B, NEW Q, NEW m \in Nat
    PROVE  \E f : Scans(f, B, Q, m)
  <1> DEFINE v(c) == SubSeq(B, LineStart(Q, c), c - 1)
             S == {n \in Nat : \E f : Scans(f, B, Q, n)}
  <1> HIDE DEF v
  <1>1. 0 \in S
    <2> DEFINE f == [n \in 0..0 |-> << >>]
    <2>1. f = [c \in 0..0 |->
                  IF c = 0 THEN << >> ELSE IF c \in Q THEN Append(f[c - 1], v(c)) ELSE f[c - 1]]
      OBVIOUS
    <2> HIDE DEF f
    <2>2. Scans(f, B, Q, 0)
      BY <2>1 DEF Scans, v
    <2> QED
      BY <2>2
  <1>2. ASSUME NEW n \in Nat, n \in S PROVE n + 1 \in S
    <2>1. PICK f : Scans(f, B, Q, n)
      BY <1>2
    <2> DEFINE last == IF n + 1 \in Q THEN Append(f[n], v(n + 1)) ELSE f[n]
               g == [c \in 0..n + 1 |-> IF c <= n THEN f[c] ELSE last]
    <2>2. \A c \in 0..n :
             f[c] = IF c = 0 THEN << >> ELSE IF c \in Q THEN Append(f[c - 1], v(c)) ELSE f[c - 1]
      BY <2>1 DEF Scans, v
    <2>3. ASSUME NEW c \in 0..n + 1
          PROVE  g[c] = IF c = 0 THEN << >>
                        ELSE IF c \in Q THEN Append(g[c - 1], v(c)) ELSE g[c - 1]
      <3>1. CASE c \in 0..n
        <4>1. g[c] = f[c] /\ (c # 0 => g[c - 1] = f[c - 1])
          BY <3>1
        <4> HIDE DEF g
        <4> QED
          BY <2>2, <3>1, <4>1
      <3>2. CASE c = n + 1
        <4>1. g[c] = last /\ g[c - 1] = f[n] /\ c # 0
          BY <3>2
        <4> HIDE DEF g
        <4> QED
          BY <3>2, <4>1
      <3> QED
        BY <3>1, <3>2
    <2>4. g = [c \in 0..n + 1 |-> g[c]]
      OBVIOUS
    <2> HIDE DEF g
    <2>5. Scans(g, B, Q, n + 1)
      BY <2>3, <2>4 DEF Scans, v
    <2> QED
      BY <2>5
  <1> HIDE DEF S
  <1>3. Nat \subseteq S
    BY <1>1, <1>2, Induction
  <1> QED
    BY <1>3 DEF S

LEMMA ReadLinesIs ==
    ASSUME NEW B, NEW Q, Len(B) \in Nat
    PROVE  \E f : Scans(f, B, Q, Len(B)) /\ ReadLines(B, Q) = f[Len(B)]
  <1> DEFINE upto[c \in 0..Len(B)] ==
                IF c = 0 THEN << >>
                ELSE IF c \in Q THEN Append(upto[c - 1], SubSeq(B, LineStart(Q, c), c - 1))
                ELSE upto[c - 1]
  <1>1. ReadLines(B, Q) = upto[Len(B)]
    BY DEF ReadLines
  <1>2. upto = CHOOSE f : Scans(f, B, Q, Len(B))
    BY DEF Scans
  <1> HIDE DEF upto
  <1>3. Scans(upto, B, Q, Len(B))
    BY <1>2, ScansExists
  <1> QED
    BY <1>1, <1>3

\* Between two ends of line nothing is pushed back.
Unmarked(Q, a, b) == \A d \in Q : d <= a \/ b < d

LEMMA ScanRests ==
    ASSUME NEW f, NEW B, NEW Q, NEW m \in Nat, Scans(f, B, Q, m),
           NEW a \in Nat, NEW b \in Nat, a <= b, b <= m, Unmarked(Q, a, b)
    PROVE  f[b] = f[a]
  <1> DEFINE T == {x \in Nat : a + x <= b => f[a + x] = f[a]}
  <1>1. 0 \in T
    OBVIOUS
  <1>2. ASSUME NEW x \in Nat, x \in T PROVE x + 1 \in T
    <2>1. SUFFICES ASSUME a + (x + 1) <= b PROVE f[a + (x + 1)] = f[a]
      OBVIOUS
    <2>2. PICK c \in 0..m : c = a + (x + 1)
      BY <2>1
    <2>3. c # 0 /\ c - 1 = a + x /\ a + x <= b /\ a < c /\ c <= b
      BY <2>1, <2>2
    <2>4. c \notin Q
      <3>1. SUFFICES ASSUME c \in Q PROVE FALSE
        OBVIOUS
      <3>2. c <= a \/ b < c
        BY <3>1 DEF Unmarked
      <3> QED
        BY <2>3, <3>2
    <2>5. f[c] = f[c - 1]
      BY <2>3, <2>4 DEF Scans
    <2>6. f[a + x] = f[a]
      BY <1>2, <2>3
    <2> QED
      BY <2>2, <2>3, <2>5, <2>6
  <1> HIDE DEF T
  <1>3. Nat \subseteq T
    BY <1>1, <1>2, Induction
  <1>4. b - a \in Nat /\ a + (b - a) = b
    OBVIOUS
  <1>5. b - a \in T
    BY <1>3, <1>4
  <1> QED
    BY <1>4, <1>5 DEF T

\* Appending the next line to those before it.
LEMMA OneMore ==
    ASSUME NEW S, NEW ls \in Seq(S), NEW n \in 1..Len(ls)
    PROVE  Append(SubSeq(ls, 1, n - 1), ls[n]) = SubSeq(ls, 1, n)
  <1>0. /\ n \in Nat /\ n \in Int /\ n - 1 \in Int /\ 1 \in Int /\ n - 1 >= 0
        /\ \A k \in 1..n : ls[k] \in S
        /\ \A k \in 1..n - 1 : ls[k] \in S
    OBVIOUS
  <1>1. PICK x \in Seq(S) : x = SubSeq(ls, 1, n - 1)
    BY <1>0, SubSeqProperties
  <1>2. PICK y \in Seq(S) : y = SubSeq(ls, 1, n)
    BY <1>0, SubSeqProperties
  <1>3. Len(x) = n - 1 /\ \A k \in 1..n - 1 : x[k] = ls[k]
    BY <1>1
  <1>4. Len(y) = n /\ \A k \in 1..n : y[k] = ls[k]
    BY <1>2
  <1>5. PICK z \in Seq(S) : z = Append(x, ls[n])
    <2>1. ls[n] \in S
      OBVIOUS
    <2> QED
      BY <2>1, AppendProperties
  <1>6. Len(z) = n /\ z[n] = ls[n] /\ \A k \in 1..n - 1 : z[k] = x[k]
    BY <1>3, <1>5
  <1>7. \A k \in 1..Len(z) : z[k] = y[k]
    <2>1. TAKE k \in 1..Len(z)
    <2>2. k = n \/ k \in 1..n - 1
      BY <1>6
    <2> QED
      BY <1>3, <1>4, <1>6, <2>2
  <1>8. z = y
    BY <1>4, <1>6, <1>7, SeqEqual
  <1> QED
    BY <1>1, <1>2, <1>5, <1>8

\* What is cut out of B between a and b, if it is there what l is.
LEMMA CutOut ==
    ASSUME NEW S, NEW B \in Seq(S), NEW l \in Seq(S), NEW a \in Nat, NEW b \in Nat,
           b = a + Len(l), b <= Len(B), \A x \in 1..Len(l) : B[a + x] = l[x]
    PROVE  SubSeq(B, a + 1, b) = l
  <1>1. PICK y : y = SubSeq(B, a + 1, b)
    OBVIOUS
  <1>2. Len(l) \in Nat /\ a + 1 \in Int /\ b \in Int /\ b - (a + 1) + 1 = Len(l)
    OBVIOUS
  <1>3. \A k \in a + 1..b : B[k] \in S
    OBVIOUS
  <1>4. /\ y \in Seq(S) /\ Len(y) = IF a + 1 <= b THEN b - (a + 1) + 1 ELSE 0
        /\ \A k \in 1..b - (a + 1) + 1 : y[k] = B[(a + 1) + k - 1]
    BY <1>1, <1>2, <1>3, SubSeqProperties
  <1>5. Len(y) = Len(l)
    BY <1>2, <1>4
  <1>6. ASSUME NEW k \in 1..Len(y) PROVE y[k] = l[k]
    <2>1. k \in 1..Len(l) /\ k \in 1..b - (a + 1) + 1 /\ (a + 1) + k - 1 = a + k
      BY <1>2, <1>5
    <2>2. y[k] = B[(a + 1) + k - 1]
      BY <1>4, <2>1
    <2> QED
      BY <2>1, <2>2
  <1>7. y = l
    BY <1>4, <1>5, <1>6, SeqEqual
  <1> QED
    BY <1>1, <1>7

LEMMA LinesAreRead ==
    ASSUME NEW ls \in HeaderLines, NEW t \in Seq(Char), NEW B, NEW e, TextAt(e, ls, t, B),
           NEW Q, Marks(Q, e, Len(ls)), Q \subseteq 1..e[Len(ls)]
    PROVE  ReadLines(B, Q) = ls
  <1> DEFINE k == Len(ls)
  <1>1. /\ k \in Nat /\ k \in 0..k /\ e[k] \in Nat /\ Len(t) \in Nat /\ Len(B) = e[k] + Len(t)
        /\ e[0] = 0 /\ B \in Seq(Char)
    BY HeaderLineIs DEF TextAt
  <1>2. PICK f : Scans(f, B, Q, Len(B)) /\ ReadLines(B, Q) = f[Len(B)]
    BY <1>1, ReadLinesIs
  <1>3. ASSUME NEW n \in 1..k
        PROVE  /\ e[n] \in Nat /\ e[n - 1] \in Nat /\ e[n] <= e[k] /\ ls[n] \in Seq(Char)
               /\ Len(ls[n]) \in Nat \ {0}
               /\ e[n] = e[n - 1] + Len(ls[n]) + 2
               /\ \A x \in 1..Len(ls[n]) : B[e[n - 1] + x] = ls[n][x]
    <2>1. n - 1 \in 0..k /\ n \in 0..k /\ k \in 0..k /\ n <= k
      BY <1>1
    <2>2. e[n] \in Nat /\ e[n - 1] \in Nat /\ e[n] <= e[k]
      BY <2>1 DEF TextAt
    <2>3. Len(ls[n]) \in Nat \ {0} /\ ls[n] \in Seq(Char)
      BY HeaderLineIs
    <2>4. /\ e[n] = e[n - 1] + Len(ls[n]) + 2
          /\ \A x \in 1..Len(ls[n]) : B[e[n - 1] + x] = ls[n][x]
      BY DEF TextAt
    <2> QED
      BY <2>2, <2>3, <2>4
  <1>4. Len(B) \in Nat /\ e[k] <= Len(B)
    BY <1>1
  \* No mark lies between the end of a line and that of the next.
  <1>5. ASSUME NEW n \in 1..k, NEW d \in Q
        PROVE  d < e[n - 1] \/ d >= e[n] - 1
    <2>1. PICK m \in 1..k : d = e[m] - 1
      BY DEF Marks
    <2>2. m - 1 \in 0..k /\ n - 1 \in 0..k /\ m \in 0..k /\ n \in 0..k /\ (m <= n - 1 \/ n <= m)
      BY <1>1
    <2>3. e[m] <= e[n - 1] \/ e[n] <= e[m]
      BY <2>2 DEF TextAt
    <2>4. e[m] \in Nat /\ e[n] \in Nat /\ e[n - 1] \in Nat
      BY <1>3
    <2> QED
      BY <2>1, <2>3, <2>4
  <1> DEFINE T == {n \in Nat : n <= k => f[e[n]] = SubSeq(ls, 1, n)}
  <1>6. 0 \in T
    <2>1. f[0] = << >>
      BY <1>2, <1>4 DEF Scans
    <2>2. SubSeq(ls, 1, 0) = << >>
      BY SubSeqEmpty
    <2> QED
      BY <1>1, <2>1, <2>2
  <1>7. ASSUME NEW n \in 1..k
        PROVE  f[e[n]] = Append(f[e[n - 1]], ls[n])
    <2>1. PICK a \in Nat : a = e[n - 1]
      BY <1>3
    <2>2. PICK c \in Nat : c = e[n] - 1 /\ c = a + Len(ls[n]) + 1
      BY SMTT(60), <1>3, <2>1
    <2>3. /\ a < c /\ c + 1 = e[n] /\ c + 1 <= Len(B) /\ c # 0 /\ c - 1 \in Nat /\ a <= c - 1
          /\ c - 1 <= Len(B) /\ c - 1 = a + Len(ls[n]) /\ c \in 1..e[k]
      <3>1. PICK u \in Nat : u = e[n]
        BY <1>3
      <3>2. PICK w \in Nat : w = e[k]
        BY <1>1
      <3>3. PICK z \in Nat : z = Len(ls[n])
        BY <1>3
      <3>4. PICK v \in Nat : v = Len(B)
        BY <1>4
      <3>5. u <= w /\ w <= v /\ z # 0 /\ c = u - 1 /\ c = a + z + 1
        BY <1>3, <1>4, <2>2, <3>1, <3>2, <3>3, <3>4
      <3>6. /\ a < c /\ c + 1 = u /\ c + 1 <= v /\ c # 0 /\ c - 1 \in Nat /\ a <= c - 1
            /\ c - 1 <= v /\ c - 1 = a + z /\ c \in 1..w
        BY <3>5
      <3> QED
        BY <3>1, <3>2, <3>3, <3>4, <3>6
    <2>b. PICK b \in Nat : b = c - 1
      BY <2>3
    <2>d. PICK d1 \in Nat : d1 = c + 1
      OBVIOUS
    <2>m. PICK n1 \in 0..k : n1 = n - 1
      BY <1>1
    <2>4. c \in Q
      BY <2>2, <2>3 DEF Marks
    <2>5. f[c - 1] = f[a]
      <3>1. ASSUME NEW d \in Q PROVE d <= a \/ c - 1 < d
        <4>1. d \in Nat /\ (d < a \/ d >= c)
          BY <1>1, <1>5, <2>1, <2>2
        <4> QED
          BY <4>1
      <3>2. a <= b /\ b <= Len(B) /\ Unmarked(Q, a, b)
        BY <2>3, <2>b, <3>1 DEF Unmarked
      <3>3. f[b] = f[a]
        BY <1>2, <1>4, <3>2, ScanRests
      <3> QED
        BY <2>b, <3>3
    <2>6. f[c + 1] = f[c]
      <3>1. ASSUME NEW d \in Q PROVE d <= c \/ c + 1 < d
        <4>1. PICK m \in 1..k : d = e[m] - 1 /\ d \in Nat
          BY <1>1 DEF Marks
        <4>2. m \in 0..k /\ n \in 0..k /\ (m <= n \/ n <= m - 1)
          BY <1>1
        <4>3. m <= n => e[m] <= e[n]
          BY <4>2 DEF TextAt
        <4>4. n <= m - 1 => e[n] <= e[m - 1] /\ e[m] >= e[m - 1] + 3
          <5>1. ASSUME n <= m - 1 PROVE e[n] <= e[m - 1]
            <6>1. m - 1 \in 0..k
              OBVIOUS
            <6> QED
              BY <4>2, <5>1, <6>1 DEF TextAt
          <5>2. e[m] = e[m - 1] + Len(ls[m]) + 2 /\ Len(ls[m]) \in Nat \ {0} /\ e[m - 1] \in Nat
            BY <1>3
          <5> QED
            BY <5>1, <5>2
        <4>5. e[m] \in Nat /\ e[n] \in Nat /\ e[m - 1] \in Nat
          BY <1>3
        <4>6. CASE m <= n
          BY <2>3, <4>1, <4>3, <4>5, <4>6
        <4>7. CASE n <= m - 1
          BY SMTT(60), <2>3, <4>1, <4>4, <4>5, <4>7
        <4> QED
          BY <4>2, <4>6, <4>7
      <3>2. c <= d1 /\ d1 <= Len(B) /\ Unmarked(Q, c, d1)
        BY <2>3, <2>d, <3>1 DEF Unmarked
      <3>3. f[d1] = f[c]
        BY <1>2, <1>4, <3>2, ScanRests
      <3> QED
        BY <2>d, <3>3
    <2>7. f[c] = Append(f[c - 1], SubSeq(B, LineStart(Q, c), c - 1))
      <3>1. c \in 0..Len(B)
        BY <1>4, <2>3
      <3> QED
        BY <1>2, <2>3, <2>4, <3>1 DEF Scans
    <2>8. LineStart(Q, c) = a + 1
      <3>1. n - 1 \in 0..k /\ e[n - 1] < c
        BY <2>1, <2>3
      <3>2. n - 1 # 0 => e[n - 1] > 1
        <4>1. ASSUME n - 1 # 0 PROVE e[n - 1] > 1
          <5>1. n - 1 \in 1..k
            BY <4>1
          <5>2. PICK m \in 1..k : m = n - 1
            BY <5>1
          <5>3. e[m] = e[m - 1] + Len(ls[m]) + 2 /\ Len(ls[m]) \in Nat \ {0} /\ e[m - 1] \in Nat
            BY <1>3
          <5> QED
            BY <5>2, <5>3
        <4> QED
          BY <4>1
      <3>3. \A m \in 0..k : e[m] \in Nat /\ e[m] <= e[k]
        <4>1. TAKE m \in 0..k
        <4>2. m <= k
          BY <1>1
        <4> QED
          BY <1>1, <4>2 DEF TextAt
      <3>4. ASSUME NEW d \in Q, d < c PROVE d < e[n - 1]
        <4>1. d < e[n - 1] \/ d >= c
          BY <1>5, <2>2
        <4>2. d \in Nat
          BY <1>1
        <4> QED
          BY <3>4, <4>1, <4>2
      <3>5. Q \subseteq Nat \ {0}
        BY <1>1
      <3>6. /\ e[n1] < c /\ (n1 # 0 => e[n1] > 1)
            /\ LastBefore(Q, e[n1], c) /\ Grows(e, k)
        BY <1>1, <2>m, <3>1, <3>2, <3>3, <3>4, <3>5 DEF LastBefore, Grows
      <3>7. LineStart(Q, c) = e[n1] + 1
        BY <1>1, <3>6, LineStartIs
      <3> QED
        BY <2>1, <2>m, <3>7
    <2>9. SubSeq(B, a + 1, c - 1) = ls[n]
      <3>1. PICK l \in Seq(Char) : l = ls[n]
        BY <1>3
      <3>2. b = a + Len(l) /\ b <= Len(B) /\ \A x \in 1..Len(l) : B[a + x] = l[x]
        BY <1>3, <2>1, <2>3, <2>b, <3>1
      <3>3. SubSeq(B, a + 1, b) = l
        BY <1>1, <3>2, CutOut
      <3> QED
        BY <2>b, <3>1, <3>3
    <2> QED
      BY <2>1, <2>3, <2>5, <2>6, <2>7, <2>8, <2>9
  <1>8. ASSUME NEW n \in Nat, n \in T PROVE n + 1 \in T
    <2>1. SUFFICES ASSUME n + 1 <= k PROVE f[e[n + 1]] = SubSeq(ls, 1, n + 1)
      OBVIOUS
    <2>2. PICK m \in 1..k : m = n + 1 /\ m - 1 = n
      BY <1>1, <2>1
    <2>3. f[e[m]] = Append(f[e[m - 1]], ls[m])
      BY <1>7
    <2>4. f[e[n]] = SubSeq(ls, 1, n)
      BY <1>8, <2>2
    <2>5. Append(SubSeq(ls, 1, m - 1), ls[m]) = SubSeq(ls, 1, m)
      <3>1. ls \in Seq(HeaderLine)
        BY DEF HeaderLines
      <3> QED
        BY <3>1, OneMore
    <2> QED
      BY <2>2, <2>3, <2>4, <2>5
  <1> HIDE DEF T
  <1>9. Nat \subseteq T
    BY <1>6, <1>8, Induction
  <1>10. f[e[k]] = SubSeq(ls, 1, k)
    BY <1>1, <1>9 DEF T
  <1>11. f[Len(B)] = f[e[k]]
    <2>1. PICK a \in Nat : a = e[k]
      BY <1>1
    <2>2. PICK b \in Nat : b = Len(B)
      BY <1>4
    <2>3. a <= b /\ Unmarked(Q, a, b)
      BY <1>4, <2>1, <2>2 DEF Unmarked
    <2>4. f[b] = f[a]
      BY <1>2, <2>2, <2>3, ScanRests
    <2> QED
      BY <2>1, <2>2, <2>4
  <1>12. SubSeq(ls, 1, k) = ls
    BY DEF HeaderLines
  <1> QED
    BY <1>2, <1>10, <1>11, <1>12

\* The end of the line behind line n, or of the header.
NextEnd(e, k, n) == IF n = k THEN e[n] + 1 ELSE e[n + 1] - 1

\* The lines ls end at the positions e, and Q marks their ends.
Laid(e, ls, Q) ==
    /\ ls \in HeaderLines /\ \E t \in Seq(Char) : \E B : TextAt(e, ls, t, B)
    /\ Marks(Q, e, Len(ls)) /\ Q \subseteq Nat \ {0}

LEMMA StartsAt ==
    ASSUME NEW ls, NEW e, NEW Q, Laid(e, ls, Q), NEW n \in 0..Len(ls)
    PROVE  /\ e[n] \in Nat /\ e[n] < NextEnd(e, Len(ls), n)
           /\ LineStart(Q, NextEnd(e, Len(ls), n)) = e[n] + 1
  <1>l. ls \in HeaderLines /\ Marks(Q, e, Len(ls)) /\ \A q \in Q : q \in Nat \ {0}
    BY DEF Laid
  <1>t. PICK t \in Seq(Char) : \E B : TextAt(e, ls, t, B)
    BY DEF Laid
  <1>u. PICK B : TextAt(e, ls, t, B)
    BY <1>t
  <1> DEFINE k == Len(ls)
  <1> USE <1>l, <1>t, <1>u
  <1>0. PICK c : c = NextEnd(e, k, n)
    OBVIOUS
  <1>c. (n = k => c = e[n] + 1) /\ (n # k => c = e[n + 1] - 1)
    BY <1>0 DEF NextEnd
  <1>1. /\ k \in Nat /\ k \in 0..k /\ \A m \in 0..k : e[m] \in Nat /\ m <= k
        /\ \A i1, i2 \in 0..k : i1 <= i2 => e[i1] <= e[i2]
        /\ e[0] = 0
    <2>1. k \in Nat
      BY HeaderLineIs
    <2>2. \A m \in 0..k : e[m] \in Nat
      BY DEF TextAt
    <2>3. \A i1, i2 \in 0..k : i1 <= i2 => e[i1] <= e[i2]
      BY DEF TextAt
    <2>4. e[0] = 0
      BY DEF TextAt
    <2> QED
      BY <2>1, <2>2, <2>3, <2>4
  <1>2. ASSUME NEW m \in 1..k
        PROVE  /\ m \in 0..k /\ m - 1 \in 0..k /\ Len(ls[m]) \in Nat \ {0}
               /\ e[m] = e[m - 1] + Len(ls[m]) + 2
    BY <1>1, HeaderLineIs DEF TextAt
  <1>3. Grows(e, k)
    BY <1>1 DEF Grows
  <1>4. n # 0 => e[n] > 1
    <2>1. SUFFICES ASSUME n # 0 PROVE e[n] > 1
      OBVIOUS
    <2>2. n \in 1..k
      BY <1>1, <2>1
    <2>3. PICK a \in Nat : a = e[n - 1]
      BY <1>1, <1>2, <2>2
    <2>4. PICK z \in Nat \ {0} : z = Len(ls[n])
      BY <1>2, <2>2
    <2>5. e[n] = a + z + 2
      BY <1>2, <2>2, <2>3, <2>4
    <2> QED
      BY <2>5
  <1>5. /\ e[n] < c /\ e[n] \in Nat
        /\ n # k => c # e[n] + 1 /\ c \in 1..e[k] /\ n + 1 \in 1..k /\ e[n + 1] \in Nat
        /\ c \in Nat
    <2>1. CASE n = k
      BY <1>c, <1>1, <2>1
    <2>2. CASE n # k
      <3>1. PICK m \in 1..k : m = n + 1 /\ m - 1 = n
        BY <1>1, <2>2
      <3>2. PICK a \in Nat : a = e[n]
        BY <1>1
      <3>3. PICK b \in Nat : b = e[m]
        BY <1>1, <1>2
      <3>4. PICK z \in Nat \ {0} : z = Len(ls[m])
        BY <1>2
      <3>5. b = a + z + 2 /\ c = b - 1 /\ b <= e[k] /\ e[k] \in Nat
        <4>1. e[m] = e[m - 1] + Len(ls[m]) + 2
          BY <1>2
        <4>2. e[m] <= e[k] /\ e[k] \in Nat
          BY <1>1, <1>2
        <4>3. c = e[m] - 1
          BY <1>c, <2>2, <3>1
        <4> QED
          BY <3>1, <3>2, <3>3, <3>4, <4>1, <4>2, <4>3
      <3>6. a < c /\ c # a + 1 /\ c \in 1..e[k]
        BY <3>5
      <3> QED
        BY <3>1, <3>2, <3>3, <3>6
    <2> QED
      BY <2>1, <2>2
  <1>6. ASSUME NEW d \in Q, d < c PROVE d < e[n]
    <2>1. d \in 1..e[k]
      <3>1. c <= e[k] + 1 /\ e[k] \in Nat
        <4>1. n = k => c = e[k] + 1
          BY <1>c
        <4>2. n # k => c <= e[k]
          BY <1>5
        <4>3. e[k] \in Nat /\ c \in Nat
          BY <1>1, <1>5
        <4>4. CASE n = k
          BY <4>1, <4>3, <4>4
        <4>5. CASE n # k
          BY <4>2, <4>3, <4>5
        <4> QED
          BY <4>4, <4>5
      <3>2. d \in Nat \ {0}
        OBVIOUS
      <3> QED
        BY <1>5, <1>6, <3>1, <3>2
    <2>2. PICK m \in 1..k : d = e[m] - 1
      BY <2>1 DEF Marks
    <2>3. PICK u \in Nat : u = e[m]
      BY <1>1, <1>2
    <2>4. CASE m <= n
      <3>1. e[m] <= e[n]
        BY <1>1, <1>2, <2>4
      <3> QED
        BY <1>5, <2>2, <2>3, <3>1
    <2>5. CASE n < m
      <3>1. n # k /\ n + 1 \in 0..k /\ n + 1 <= m
        BY <1>1, <2>5
      <3>2. e[n + 1] <= e[m] /\ e[n + 1] \in Nat
        BY <1>1, <1>2, <3>1
      <3>3. c = e[n + 1] - 1
        BY <1>c, <3>1
      <3> QED
        BY <1>6, <2>2, <2>3, <3>2, <3>3
    <2> QED
      BY <1>1, <2>4, <2>5
  <1>7. LastBefore(Q, e[n], c)
    BY <1>6 DEF LastBefore
  <1>8. LineStart(Q, c) = e[n] + 1
    BY <1>1, <1>3, <1>4, <1>5, <1>7, LineStartIs
  <1> QED
    BY <1>0, <1>5, <1>8

\* No line of theirs is empty, but the one that ends the header.
LEMMA NoneIsEmpty ==
    ASSUME NEW ls, NEW e, NEW Q, Laid(e, ls, Q)
    PROVE  /\ \A c \in Q : c <= e[Len(ls)] => c # LineStart(Q, c)
           /\ LineStart(Q, e[Len(ls)] + 1) = e[Len(ls)] + 1
  <1>h. ls \in HeaderLines /\ Marks(Q, e, Len(ls)) /\ \A q \in Q : q \in Nat \ {0}
    BY DEF Laid
  <1>t. PICK t \in Seq(Char) : \E B : TextAt(e, ls, t, B)
    BY DEF Laid
  <1>u. PICK B : TextAt(e, ls, t, B)
    BY <1>t
  <1> USE <1>h, <1>t, <1>u
  <1>1. /\ Len(ls) \in Nat /\ Len(ls) \in 0..Len(ls) /\ e[Len(ls)] \in Nat
        /\ \A m \in 0..Len(ls) : e[m] \in Nat
    BY HeaderLineIs DEF TextAt
  <1>l. Laid(e, ls, Q)
    OBVIOUS
  <1>2. ASSUME NEW c \in Q, c <= e[Len(ls)] PROVE c # LineStart(Q, c)
    <2>1. c \in 1..e[Len(ls)]
      BY <1>1, <1>2
    <2>2. PICK m \in 1..Len(ls) : c = e[m] - 1
      BY <2>1 DEF Marks
    <2>3. PICK n \in 0..Len(ls) : n # Len(ls) /\ n + 1 = m
      <3>1. m - 1 \in 0..Len(ls) /\ m - 1 # Len(ls) /\ (m - 1) + 1 = m
        BY <1>1
      <3> QED
        BY <3>1
    <2>4. NextEnd(e, Len(ls), n) = c
      BY <2>2, <2>3 DEF NextEnd
    <2>5. e[n] \in Nat /\ LineStart(Q, c) = e[n] + 1
      BY <1>l, <2>4, StartsAt
    <2>6. c # e[n] + 1
      <3>1. /\ e[m] = e[n] + Len(ls[m]) + 2 /\ Len(ls[m]) \in Nat \ {0}
        <4>1. e[m] = e[m - 1] + Len(ls[m]) + 2 /\ m - 1 = n
          BY <2>3 DEF TextAt
        <4> QED
          BY <4>1, HeaderLineIs
      <3>2. PICK z \in Nat \ {0} : z = Len(ls[m])
        BY <3>1
      <3>3. PICK a \in Nat : a = e[n]
        BY <2>5
      <3>4. c = (a + z + 2) - 1
        BY <2>2, <3>1, <3>2, <3>3
      <3> QED
        BY <3>3, <3>4
    <2> QED
      BY <2>5, <2>6
  <1>3. LineStart(Q, e[Len(ls)] + 1) = e[Len(ls)] + 1
    <2>1. NextEnd(e, Len(ls), Len(ls)) = e[Len(ls)] + 1
      BY DEF NextEnd
    <2> QED
      BY <1>1, <1>l, <2>1, StartsAt
  <1> QED
    BY <1>2, <1>3

\* A segment of whole lines, ...
LEMMA WholeLinesRead ==
    ASSUME NEW ls \in HeaderLines, NEW behind
    PROVE  LET B == LinesText(ls)
               ends == LineEnds(B, behind)
           IN {c \in ends : c = LineStart(ends, c)} = {} /\ ReadLines(B, ends) = ls
  <1> DEFINE k == Len(ls)
             none == << >>
  <1>1. none \in Seq(Char) /\ Len(none) = 0
    OBVIOUS
  <1> HIDE DEF none
  <1>2. PICK B : B = LinesText(ls) \o none
    OBVIOUS
  <1>3. PICK e : TextAt(e, ls, none, B)
    BY <1>1, <1>2, TextPlaced
  <1>4. PICK ends : ends = LineEnds(B, behind)
    OBVIOUS
  <1>5. Marks(ends, e, k)
    BY <1>1, <1>3, <1>4, EndsFound
  <1>6. /\ k \in Nat /\ k \in 0..k /\ e[k] \in Nat /\ B \in Seq(Char) /\ Len(B) = e[k] + Len(none)
        /\ \A n \in 0..k : e[n] \in Nat
    BY HeaderLineIs, <1>3 DEF TextAt
  <1>7. Len(B) = e[k] /\ DOMAIN B = 1..Len(B)
    BY <1>1, <1>6
  <1>8. ends \subseteq 1..e[k]
    BY <1>4, <1>7 DEF LineEnds
  <1>9. ReadLines(B, ends) = ls
    BY <1>1, <1>3, <1>5, <1>8, LinesAreRead
  <1>10. \A c \in ends : c # LineStart(ends, c)
    <2>1. ends \subseteq Nat \ {0}
      BY <1>6, <1>8
    <2>l. Laid(e, ls, ends)
      BY <1>1, <1>3, <1>5, <2>1 DEF Laid
    <2>2. \A c \in ends : c <= e[k] => c # LineStart(ends, c)
      BY <2>l, NoneIsEmpty
    <2>3. \A c \in ends : c <= e[k]
      BY <1>6, <1>8
    <2> QED
      BY <2>2, <2>3
  <1>11. LinesText(ls) = B
    <2>1. LinesText(ls) \in Seq(Char)
      <3>1. \A n \in DOMAIN ls : ls[n] \o CRLF \in Seq(Char)
        BY HeaderLineIs, EndOfLine, ConcatIs
      <3>2. [n \in DOMAIN ls |-> ls[n] \o CRLF] \in [1..k -> Seq(Char)]
        BY <3>1, HeaderLineIs
      <3>3. [n \in DOMAIN ls |-> ls[n] \o CRLF] \in Seq(Seq(Char))
        BY <1>6, <3>2, FunctionIsSeq
      <3> QED
        BY <3>3, FlattenType DEF LinesText
    <2>2. PICK A \in Seq(Char) : A = LinesText(ls)
      BY <2>1
    <2>3. A \o << >> = A
      OBVIOUS
    <2> QED
      BY <1>2, <2>2, <2>3 DEF none
  <1> QED
    BY <1>4, <1>9, <1>10, <1>11

\* How a minimum is found.
LEMMA MinValue ==
    ASSUME NEW T, T \subseteq Int, NEW x \in T, \A y \in T : x <= y
    PROVE  Min(T) = x
  <1>1. \A y \in T : x <= y
    OBVIOUS
  <1>2. Min(T) \in T /\ \A y \in T : Min(T) <= y
    BY <1>1 DEF Min
  <1>3. PICK z \in T : z = Min(T)
    BY <1>2
  <1>4. z \in Int /\ x \in Int /\ z <= x /\ x <= z
    BY <1>1, <1>2, <1>3
  <1> QED
    BY <1>3, <1>4

\* ... and one with the end of the header and the start of the body.
LEMMA LastLinesRead ==
    ASSUME NEW ls \in HeaderLines, NEW b \in Seq(Char), NEW behind
    PROVE  LET B == LinesText(ls) \o CRLF \o b
               ends == LineEnds(B, behind)
               empty == {c \in ends : c = LineStart(ends, c)}
           IN /\ empty # {} /\ Min(empty) # Len(B)
              /\ ReadLines(B, {c \in ends : c < Min(empty)}) = ls
              /\ SubSeq(B, Min(empty) + 2, Len(B)) = b
  <1> DEFINE k == Len(ls)
             t == CRLF \o b
  <1>1. /\ t \in Seq(Char) /\ Len(t) = 2 + Len(b) /\ t[1] = "CR" /\ t[2] = "LF"
        /\ \A x \in 1..Len(b) : t[2 + x] = b[x]
        /\ LinesText(ls) \o CRLF \o b = LinesText(ls) \o t
    <2>1. PICK c \in Seq(Char) : c = CRLF
      BY EndOfLine
    <2>2. Len(c) = 2 /\ c[1] = "CR" /\ c[2] = "LF" /\ 1 \in 1..Len(c) /\ 2 \in 1..Len(c)
      BY <2>1, EndOfLine
    <2>3. /\ c \o b \in Seq(Char) /\ Len(c \o b) = Len(c) + Len(b)
          /\ \A m \in 1..Len(c) : (c \o b)[m] = c[m]
          /\ \A m \in 1..Len(b) : (c \o b)[Len(c) + m] = b[m]
      BY ConcatIs
    <2>4. LinesText(ls) \in Seq(Char)
      <3>1. \A n \in DOMAIN ls : ls[n] \o CRLF \in Seq(Char)
        BY HeaderLineIs, EndOfLine, ConcatIs
      <3>2. [n \in DOMAIN ls |-> ls[n] \o CRLF] \in [1..k -> Seq(Char)]
        BY <3>1, HeaderLineIs
      <3>3. [n \in DOMAIN ls |-> ls[n] \o CRLF] \in Seq(Seq(Char))
        BY <3>2, HeaderLineIs, FunctionIsSeq
      <3> QED
        BY <3>3, FlattenType DEF LinesText
    <2>5. PICK A \in Seq(Char) : A = LinesText(ls)
      BY <2>4
    <2>6. (A \o c) \o b = A \o (c \o b)
      BY ConcatAssociative
    <2> QED
      BY <2>1, <2>2, <2>3, <2>5, <2>6
  <1> HIDE DEF t
  <1>2. PICK B : B = LinesText(ls) \o t
    OBVIOUS
  <1>3. PICK e : TextAt(e, ls, t, B)
    BY <1>1, <1>2, TextPlaced
  <1>4. PICK ends : ends = LineEnds(B, behind)
    OBVIOUS
  <1>5. Marks(ends, e, k)
    BY <1>1, <1>3, <1>4, EndsFound
  <1>6. /\ k \in Nat /\ k \in 0..k /\ B \in Seq(Char)
        /\ \A n \in 0..k : e[n] \in Nat
    BY HeaderLineIs, <1>3 DEF TextAt
  <1>7. PICK E \in Nat : E = e[k]
    BY <1>6
  <1>8. Len(B) = E + 2 + Len(b) /\ DOMAIN B = 1..Len(B) /\ Len(b) \in Nat /\ Len(B) \in Nat
    <2>1. Len(B) = e[k] + Len(t)
      BY <1>3 DEF TextAt
    <2> QED
      BY <1>1, <1>6, <1>7, <2>1
  <1>9. ends \subseteq 1..Len(B) /\ ends \subseteq Nat \ {0}
    BY <1>4, <1>8 DEF LineEnds
  <1>10. E + 1 \in ends
    <2>1. \A x \in 1..Len(t) : B[e[k] + x] = t[x]
      BY <1>3 DEF TextAt
    <2>2. 1 \in 1..Len(t) /\ 2 \in 1..Len(t)
      BY <1>1, <1>8
    <2>3. B[E + 1] = "CR" /\ B[E + 2] = "LF"
      BY <1>1, <1>7, <2>1, <2>2
    <2>4. E + 1 \in DOMAIN B /\ E + 1 # Len(B) /\ (E + 1) + 1 = E + 2
      BY <1>8
    <2> QED
      BY <1>4, <2>3, <2>4 DEF LineEnds
  <1>t. t \in Seq(Char)
    BY <1>1
  <1>11. /\ E + 1 = LineStart(ends, E + 1)
         /\ \A c \in ends : c <= E => c # LineStart(ends, c)
    <2>1. /\ \A c \in ends : c <= e[k] => c # LineStart(ends, c)
          /\ LineStart(ends, e[k] + 1) = e[k] + 1
      <3>1. Laid(e, ls, ends)
        BY <1>t, <1>3, <1>5, <1>9 DEF Laid
      <3> QED
        BY <3>1, NoneIsEmpty
    <2> QED
      BY <1>7, <2>1
  <1> DEFINE empty == {c \in ends : c = LineStart(ends, c)}
  <1>13. Min(empty) = E + 1 /\ E + 1 \in empty
    <2>1. E + 1 \in empty
      BY <1>10, <1>11
    <2>2. empty \subseteq Int
      <3>1. empty \subseteq ends
        OBVIOUS
      <3>2. \A y \in ends : y \in Int
        BY <1>9
      <3> QED
        BY <3>1, <3>2
    <2>3. ASSUME NEW y \in empty PROVE E + 1 <= y
      <3>1. y \in Nat /\ y \in ends /\ y = LineStart(ends, y)
        BY <1>9
      <3>2. ~(y <= E)
        BY <1>11, <3>1
      <3> QED
        BY <3>1, <3>2
    <2> HIDE DEF empty
    <2> QED
      BY <2>1, <2>2, <2>3, MinValue
  <1>14. PICK Q : Q = {c \in ends : c < E + 1}
    OBVIOUS
  <1>15. Q \subseteq 1..e[k] /\ Marks(Q, e, k)
    <2>1. \A c \in Q : c \in 1..Len(B) /\ c < E + 1
      BY <1>9, <1>14
    <2>2. Q \subseteq 1..E
      BY <1>8, <2>1
    <2>3. \A x \in 1..E : x \in Q <=> x \in ends
      BY <1>14
    <2> QED
      BY <1>5, <1>7, <2>2, <2>3 DEF Marks
  <1>16. ReadLines(B, Q) = ls
    BY <1>t, <1>3, <1>15, LinesAreRead
  <1>17. SubSeq(B, E + 3, Len(B)) = b
    <2>1. PICK a \in Nat : a = E + 2
      OBVIOUS
    <2>2. ASSUME NEW x \in 1..Len(b) PROVE B[a + x] = b[x]
      <3>1. 2 + x \in 1..Len(t) /\ a + x = e[k] + (2 + x)
        <4>1. Len(t) = 2 + Len(b) /\ Len(b) \in Nat
          BY <1>1, <1>8
        <4>2. a = e[k] + 2 /\ e[k] \in Nat
          BY <1>7, <2>1
        <4> QED
          BY SMTT(60), <4>1, <4>2
      <3>2. B[e[k] + (2 + x)] = t[2 + x]
        BY <1>3, <3>1 DEF TextAt
      <3> QED
        BY <1>1, <3>1, <3>2
    <2>3. PICK z \in Nat : z = Len(B)
      BY <1>8
    <2>4. z = a + Len(b) /\ z <= Len(B)
      BY <1>8, <2>1, <2>3
    <2>5. SubSeq(B, a + 1, z) = b
      BY <1>6, <2>2, <2>4, CutOut
    <2>6. a + 1 = E + 3
      BY <2>1
    <2> QED
      BY <2>3, <2>5, <2>6
  <1>18. (E + 1) + 2 = E + 3 /\ E + 1 # Len(B)
    BY <1>8
  <1> DEFINE Q2 == {c \in ends : c < Min(empty)}
             start == Min(empty) + 2
  <1>19. Q2 = Q /\ start = E + 3 /\ empty # {} /\ Min(empty) # Len(B)
    <2> HIDE DEF empty
    <2> QED
      BY <1>13, <1>14, <1>18
  <1>20. LinesText(ls) \o CRLF \o b = B
    BY <1>1, <1>2
  <1>21. /\ empty # {} /\ Min(empty) # Len(B) /\ ReadLines(B, Q2) = ls
         /\ SubSeq(B, start, Len(B)) = b
    BY <1>16, <1>17, <1>19
  <1> QED
    BY <1>4, <1>20, <1>21

-----------------------------------------------------------------------------
(* One segment                                                             *)

\* What read_header does with a segment of whole lines, ...
LEMMA ReadsLines ==
    ASSUME NEW behind, ReadHeader(behind), NEW ls \in HeaderLines,
           Head(segments) = LinesText(ls)
    PROVE  /\ segments' = Tail(segments) /\ lines' = lines \o ls
           /\ body' = body /\ reader' = "reading"
  <1> DEFINE buff == LinesText(ls)
             ends == LineEnds(buff, behind)
  <1>1. {c \in ends : c = LineStart(ends, c)} = {} /\ ReadLines(buff, ends) = ls
    BY WholeLinesRead
  <1>2. /\ reader = "reading" /\ segments' = Tail(segments)
        /\ LET empty == {c \in ends : c = LineStart(ends, c)}
           IN IF empty = {}
              THEN lines' = lines \o ReadLines(buff, ends) /\ UNCHANGED <<body, reader>>
              ELSE /\ lines' = lines \o ReadLines(buff, {c \in ends : c < Min(empty)})
                   /\ IF Min(empty) = Len(buff) THEN reader' = "exits" /\ UNCHANGED body
                      ELSE /\ body' = body \o SubSeq(buff, Min(empty) + 2, Len(buff))
                           /\ reader' = "parsing"
    BY DEF ReadHeader
  <1> HIDE DEF ends, buff
  <1> QED
    BY <1>1, <1>2

\* ... and with the last.
LEMMA ReadsLast ==
    ASSUME NEW behind, ReadHeader(behind), NEW ls \in HeaderLines, NEW b \in Seq(Char),
           Head(segments) = LinesText(ls) \o CRLF \o b
    PROVE  /\ segments' = Tail(segments) /\ lines' = lines \o ls
           /\ body' = body \o b /\ reader' = "parsing"
  <1> DEFINE buff == LinesText(ls) \o CRLF \o b
             ends == LineEnds(buff, behind)
             empty == {c \in ends : c = LineStart(ends, c)}
  <1>1. /\ empty # {} /\ Min(empty) # Len(buff)
        /\ ReadLines(buff, {c \in ends : c < Min(empty)}) = ls
        /\ SubSeq(buff, Min(empty) + 2, Len(buff)) = b
    BY ZenonT(60), LastLinesRead
  <1>2. /\ reader = "reading" /\ segments' = Tail(segments)
        /\ IF empty = {}
           THEN lines' = lines \o ReadLines(buff, ends) /\ UNCHANGED <<body, reader>>
           ELSE /\ lines' = lines \o ReadLines(buff, {c \in ends : c < Min(empty)})
                /\ IF Min(empty) = Len(buff) THEN reader' = "exits" /\ UNCHANGED body
                   ELSE /\ body' = body \o SubSeq(buff, Min(empty) + 2, Len(buff))
                        /\ reader' = "parsing"
    BY DEF ReadHeader
  <1> HIDE DEF buff, ends, empty
  <1> QED
    BY <1>1, <1>2

\* The part of a sequence that has not been taken yet.
LEMMA RestIs ==
    ASSUME NEW S, NEW s \in Seq(S), NEW x \in 1..Len(s), NEW q, q = SubSeq(s, x, Len(s))
    PROVE  q # << >> /\ Head(q) = s[x] /\ Tail(q) = SubSeq(s, x + 1, Len(s))
  <1>1. Len(s) \in x..Len(s) /\ x \in Int /\ Len(s) \in Int
    OBVIOUS
  <1>2. Head(q) = s[x] /\ Tail(q) = SubSeq(s, x + 1, Len(s))
    BY <1>1, HeadTailOfSubSeq
  <1>3. Len(q) = Len(s) - x + 1
    <2>1. \A k \in x..Len(s) : s[k] \in S
      OBVIOUS
    <2> QED
      BY <1>1, <2>1, SubSeqProperties
  <1>4. q # << >>
    <2>1. SUFFICES ASSUME q = << >> PROVE FALSE
      OBVIOUS
    <2>2. Len(q) = 0
      BY <2>1
    <2>3. Len(s) - x + 1 > 0
      BY <1>1
    <2> QED
      BY <1>1, <1>3, <2>2, <2>3
  <1> QED
    BY <1>2, <1>4

\* Two neighbouring parts.
LEMMA PartsJoin ==
    ASSUME NEW S, NEW s \in Seq(S), NEW a \in Nat, NEW b \in Nat, a <= b, b <= Len(s)
    PROVE  SubSeq(s, 1, a) \o SubSeq(s, a + 1, b) = SubSeq(s, 1, b)
  <1>1. 1 \in 1..Len(s) + 1 /\ a \in 1 - 1..Len(s) /\ b \in a..Len(s)
    OBVIOUS
  <1> QED
    BY <1>1, ConcatAdjacentSubSeq

-----------------------------------------------------------------------------
(* The fields                                                              *)

\* What parse_request makes of the lines that it reads.
Joins(on, l) == on /\ Name(l) = <<"cookie">>

\* The fields after each of the first m lines.
Collects(f, on, read, m) ==
    f = [n \in 0..m |->
            IF n = 0 THEN << >>
            ELSE IF Joins(on, read[n]) THEN f[n - 1] ELSE Inserted(f[n - 1], read[n])]

LEMMA CollectsExists ==
    ASSUME NEW on, NEW read, NEW m \in Nat
    PROVE  \E f : Collects(f, on, read, m)
  <1> DEFINE S == {n \in Nat : \E f : Collects(f, on, read, n)}
  <1>1. 0 \in S
    <2> DEFINE f == [n \in 0..0 |-> << >>]
    <2>1. f = [n \in 0..0 |-> IF n = 0 THEN << >> ELSE IF Joins(on, read[n]) THEN f[n - 1]
                              ELSE Inserted(f[n - 1], read[n])]
      OBVIOUS
    <2> HIDE DEF f
    <2>2. Collects(f, on, read, 0)
      BY <2>1 DEF Collects
    <2> QED
      BY <2>2
  <1>2. ASSUME NEW n \in Nat, n \in S PROVE n + 1 \in S
    <2>1. PICK f : Collects(f, on, read, n)
      BY <1>2
    <2> DEFINE last == IF Joins(on, read[n + 1]) THEN f[n] ELSE Inserted(f[n], read[n + 1])
               g == [c \in 0..n + 1 |-> IF c <= n THEN f[c] ELSE last]
    <2>2. \A c \in 0..n : f[c] = IF c = 0 THEN << >> ELSE IF Joins(on, read[c]) THEN f[c - 1]
                                 ELSE Inserted(f[c - 1], read[c])
      BY <2>1 DEF Collects
    <2>3. ASSUME NEW c \in 0..n + 1
          PROVE  g[c] = IF c = 0 THEN << >> ELSE IF Joins(on, read[c]) THEN g[c - 1]
                        ELSE Inserted(g[c - 1], read[c])
      <3>1. CASE c \in 0..n
        <4>1. g[c] = f[c] /\ (c # 0 => g[c - 1] = f[c - 1])
          BY <3>1
        <4> HIDE DEF g
        <4> QED
          BY <2>2, <3>1, <4>1
      <3>2. CASE c = n + 1
        <4>1. g[c] = last /\ g[c - 1] = f[n] /\ c # 0
          BY <3>2
        <4> HIDE DEF g
        <4> QED
          BY <3>2, <4>1
      <3> QED
        BY <3>1, <3>2
    <2>4. g = [c \in 0..n + 1 |-> g[c]]
      OBVIOUS
    <2> HIDE DEF g
    <2>5. Collects(g, on, read, n + 1)
      BY <2>3, <2>4 DEF Collects
    <2> QED
      BY <2>5
  <1> HIDE DEF S
  <1>3. Nat \subseteq S
    BY <1>1, <1>2, Induction
  <1> QED
    BY <1>3 DEF S

\* Of the lines with one name the first counts.
Holds(map, on, read, n) ==
    /\ \A q \in 1..n : ~Joins(on, read[q]) => Name(read[q]) \in DOMAIN map
    /\ \A name \in DOMAIN map : \E k \in 1..n :
          /\ Name(read[k]) = name /\ map[name] = Field(read[k])
          /\ \A q \in 1..k - 1 : Name(read[q]) # name

LEMMA InsertedHolds ==
    ASSUME NEW map, NEW on, NEW read, NEW n \in Nat, Holds(map, on, read, n),
           ~Joins(on, read[n + 1])
    PROVE  Holds(Inserted(map, read[n + 1]), on, read, n + 1)
  <1> DEFINE l == read[n + 1]
  <1>0. PICK new : new = Inserted(map, l)
    OBVIOUS
  <1>1. /\ DOMAIN new = DOMAIN map \cup {Name(l)}
        /\ \A name \in DOMAIN map : new[name] = map[name]
        /\ Name(l) \notin DOMAIN map => new[Name(l)] = Field(l)
    BY <1>0 DEF Inserted
  <1>2. ASSUME NEW q \in 1..n + 1, ~Joins(on, read[q])
        PROVE  Name(read[q]) \in DOMAIN new
    <2>1. CASE q \in 1..n
      BY <1>1, <1>2, <2>1 DEF Holds
    <2>2. CASE q = n + 1
      BY <1>1, <2>2
    <2> QED
      BY <2>1, <2>2
  <1>3. ASSUME NEW name \in DOMAIN new
        PROVE  \E k \in 1..n + 1 : /\ Name(read[k]) = name /\ new[name] = Field(read[k])
                                   /\ \A q \in 1..k - 1 : Name(read[q]) # name
    <2>1. CASE name \in DOMAIN map
      <3>1. PICK k \in 1..n : /\ Name(read[k]) = name /\ map[name] = Field(read[k])
                              /\ \A q \in 1..k - 1 : Name(read[q]) # name
        BY <2>1 DEF Holds
      <3>2. k \in 1..n + 1
        OBVIOUS
      <3> QED
        BY <1>1, <2>1, <3>1, <3>2
    <2>2. CASE name \notin DOMAIN map
      <3>1. name = Name(l) /\ new[name] = Field(l)
        BY <1>1, <2>2
      <3>2. ASSUME NEW q \in 1..n, Name(read[q]) = name PROVE FALSE
        <4>1. ~Joins(on, read[q])
          BY <3>1, <3>2 DEF Joins
        <4> QED
          BY <2>2, <3>2, <4>1 DEF Holds
      <3>3. PICK k \in 1..n + 1 : k = n + 1 /\ k - 1 = n
        OBVIOUS
      <3> QED
        BY <3>1, <3>2, <3>3
    <2> QED
      BY <2>1, <2>2
  <1>4. Holds(new, on, read, n + 1)
    BY <1>2, <1>3 DEF Holds
  <1> QED
    BY <1>0, <1>4

LEMMA CollectedHolds ==
    ASSUME NEW f, NEW on, NEW read, NEW m \in Nat, Collects(f, on, read, m)
    PROVE  Holds(f[m], on, read, m)
  <1> DEFINE T == {n \in Nat : n <= m => Holds(f[n], on, read, n)}
  <1>0. /\ f[0] = << >>
        /\ \A n \in 0..m : n # 0 => f[n] = IF Joins(on, read[n]) THEN f[n - 1]
                                           ELSE Inserted(f[n - 1], read[n])
    BY DEF Collects
  <1>1. 0 \in T
    <2>1. DOMAIN f[0] = {}
      BY <1>0
    <2> QED
      BY <2>1 DEF Holds
  <1>2. ASSUME NEW n \in Nat, n \in T PROVE n + 1 \in T
    <2>1. SUFFICES ASSUME n + 1 <= m PROVE Holds(f[n + 1], on, read, n + 1)
      OBVIOUS
    <2>2. Holds(f[n], on, read, n) /\ n + 1 \in 0..m /\ n + 1 # 0 /\ (n + 1) - 1 = n
      BY <1>2, <2>1
    <2>3. f[n + 1] = IF Joins(on, read[n + 1]) THEN f[n] ELSE Inserted(f[n], read[n + 1])
      BY <1>0, <2>2
    <2>4. CASE ~Joins(on, read[n + 1])
      BY <2>2, <2>3, <2>4, InsertedHolds
    <2>5. CASE Joins(on, read[n + 1])
      <3>1. f[n + 1] = f[n]
        BY <2>3, <2>5
      <3>2. ASSUME NEW q \in 1..n + 1, ~Joins(on, read[q])
            PROVE  Name(read[q]) \in DOMAIN f[n]
        <4>1. q \in 1..n
          BY <2>5, <3>2
        <4> QED
          BY <2>2, <3>2, <4>1 DEF Holds
      <3>3. ASSUME NEW name \in DOMAIN f[n]
            PROVE  \E k \in 1..n + 1 : /\ Name(read[k]) = name /\ f[n][name] = Field(read[k])
                                       /\ \A q \in 1..k - 1 : Name(read[q]) # name
        <4>1. PICK k \in 1..n : /\ Name(read[k]) = name /\ f[n][name] = Field(read[k])
                                /\ \A q \in 1..k - 1 : Name(read[q]) # name
          BY <2>2 DEF Holds
        <4>2. k \in 1..n + 1
          OBVIOUS
        <4> QED
          BY <4>1, <4>2
      <3> QED
        BY <3>1, <3>2, <3>3 DEF Holds
    <2> QED
      BY <2>4, <2>5
  <1> HIDE DEF T
  <1>3. m \in T
    BY <1>1, <1>2, Induction
  <1> QED
    BY <1>3 DEF T

LEMMA FirstWithIs ==
    ASSUME NEW fields, Len(fields) \in Nat, NEW k \in 1..Len(fields), NEW name,
           Name(fields[k]) = name, \A q \in 1..k - 1 : Name(fields[q]) # name
    PROVE  FirstWith(name, fields) = Field(fields[k])
  <1> DEFINE T == {n \in 1..Len(fields) : Name(fields[n]) = name}
  <1>1. FirstWith(name, fields) = Field(fields[IF T # {} THEN Min(T) ELSE 0])
    BY DEF FirstWith, SelectInSeq
  <1>2. k \in T
    OBVIOUS
  <1>3. T \subseteq Int
    OBVIOUS
  <1>4. ASSUME NEW y \in T PROVE k <= y
    <2>1. ~(y \in 1..k - 1)
      OBVIOUS
    <2>2. y \in Nat /\ y >= 1 /\ k \in Nat
      OBVIOUS
    <2> QED
      BY <2>1, <2>2
  <1> HIDE DEF T
  <1>5. Min(T) = k
    BY <1>2, <1>3, <1>4, MinValue
  <1> QED
    BY <1>1, <1>2, <1>5

LEMMA ParsedFields ==
    ASSUME NEW on, NEW r, ParseFields(on, r), "request_map" \in DOMAIN r,
           NEW L, Tail(lines) \in Seq(L)
    PROVE  \/ /\ reader' = "spins"
              /\ \E l \in ToSet(Tail(lines)) : WordsOf(l) # << >> /\ TrimSpins(l)
           \/ /\ reader' = "parsed"
              /\ \A name \in DOMAIN request'.request_map :
                    request'.request_map[name] = FirstWith(name, Tail(lines))
  <1> DEFINE fields == Tail(lines)
             stop == SelectInSeq(fields, LAMBDA l : LineOutcome(l) # "read")
             read == IF stop = 0 THEN fields ELSE SubSeq(fields, 1, stop - 1)
             map[n \in 0..Len(read)] ==
                IF n = 0 THEN << >>
                ELSE IF on /\ Name(read[n]) = <<"cookie">> THEN map[n - 1]
                ELSE Inserted(map[n - 1], read[n])
  <1>1. IF stop # 0 /\ LineOutcome(fields[stop]) = "spins"
        THEN reader' = "spins" /\ UNCHANGED request
        ELSE /\ reader' = "parsed"
             /\ request'.request_map = map[Len(read)]
    <2> DEFINE Joined(l) == on /\ Name(l) = <<"cookie">>
               cookies == FlattenSeq([n \in DOMAIN SelectSeq(read, Joined) |->
                                         Field(SelectSeq(read, Joined)[n])])
               bad == \/ stop # 0
                      \/ r.method = "OPTIONS" /\ <<"origin">> \notin DOMAIN map[Len(read)]
    <2>1. IF stop # 0 /\ LineOutcome(fields[stop]) = "spins"
          THEN reader' = "spins" /\ UNCHANGED request
          ELSE /\ reader' = "parsed"
               /\ request' = [r EXCEPT !.cookies = cookies, !.request_map = map[Len(read)],
                                       !.is_bad_request = bad]
      BY DEF ParseFields
    <2> HIDE DEF stop, map, cookies, bad
    <2>2. [r EXCEPT !.cookies = cookies, !.request_map = map[Len(read)],
                    !.is_bad_request = bad].request_map = map[Len(read)]
      OBVIOUS
    <2> QED
      BY <2>1, <2>2
  <1>2. map = CHOOSE f : Collects(f, on, read, Len(read))
    BY DEF Collects, Joins
  <1>3. stop = 0 \/ stop \in 1..Len(fields)
    <2> DEFINE T == {n \in 1..Len(fields) : LineOutcome(fields[n]) # "read"}
    <2>1. stop = IF T # {} THEN Min(T) ELSE 0
      BY DEF SelectInSeq
    <2>2. T \subseteq Nat /\ T \subseteq 1..Len(fields)
      OBVIOUS
    <2> HIDE DEF T, stop
    <2>3. T # {} => Min(T) \in T
      BY <2>2, MinOf
    <2> QED
      BY <2>1, <2>2, <2>3
  <1>f. fields \in Seq(L)
    OBVIOUS
  <1> HIDE DEF map, stop, fields
  <1>4. /\ Len(read) \in Nat /\ Len(read) <= Len(fields) /\ Len(fields) \in Nat
        /\ \A k \in 1..Len(read) : read[k] = fields[k]
    <2>1. CASE stop = 0
      BY <1>f, <2>1
    <2>2. CASE stop \in 1..Len(fields)
      <3>1. \A k \in 1..stop - 1 : fields[k] \in L
        BY <1>f, <2>2
      <3>2. /\ Len(SubSeq(fields, 1, stop - 1)) = IF 1 <= stop - 1 THEN stop - 1 - 1 + 1 ELSE 0
            /\ \A k \in 1..stop - 1 - 1 + 1 : SubSeq(fields, 1, stop - 1)[k] = fields[1 + k - 1]
        BY <2>2, <3>1, SubSeqProperties
      <3>3. read = SubSeq(fields, 1, stop - 1)
        BY <2>2
      <3> HIDE DEF read
      <3> QED
        BY <1>f, <2>2, <3>2, <3>3
    <2> QED
      BY <1>3, <2>1, <2>2
  <1> HIDE DEF read
  <1>5. Collects(map, on, read, Len(read))
    BY <1>2, <1>4, CollectsExists
  <1>6. Holds(map[Len(read)], on, read, Len(read))
    BY <1>4, <1>5, CollectedHolds
  <1>7. ASSUME NEW name \in DOMAIN map[Len(read)]
        PROVE  map[Len(read)][name] = FirstWith(name, fields)
    <2>1. PICK k \in 1..Len(read) : /\ Name(read[k]) = name /\ map[Len(read)][name] = Field(read[k])
                                    /\ \A q \in 1..k - 1 : Name(read[q]) # name
      BY <1>6 DEF Holds
    <2>2. k \in 1..Len(fields) /\ read[k] = fields[k]
          /\ \A q \in 1..k - 1 : read[q] = fields[q]
      BY <1>4
    <2> QED
      BY <1>4, <2>1, <2>2, FirstWithIs
  <1>8. CASE stop # 0 /\ LineOutcome(fields[stop]) = "spins"
    <2>1. WordsOf(fields[stop]) # << >> /\ TrimSpins(fields[stop])
      BY <1>8 DEF LineOutcome
    <2>2. fields[stop] \in ToSet(fields)
      BY <1>f, <1>3, <1>8 DEF ToSet
    <2> QED
      BY <1>1, <1>8, <2>1, <2>2 DEF fields
  <1>9. CASE ~(stop # 0 /\ LineOutcome(fields[stop]) = "spins")
    <2>1. reader' = "parsed" /\ request'.request_map = map[Len(read)]
      BY <1>1, <1>9
    <2> QED
      BY <1>7, <2>1 DEF fields
  <1> QED
    BY <1>8, <1>9

\* parse_request, but for what it is that is read.
LEMMA ParsesRequest ==
    ASSUME NEW on, ParseRequest(on), NEW L, lines \in Seq(L), lines # << >>
    PROVE  /\ segments' = segments /\ lines' = lines /\ body' = body
           /\ \/ reader' = "exits" /\ Len(WordsOf(lines[1])) < 3
              \/ /\ reader' = "spins"
                 /\ \E l \in ToSet(Tail(lines)) : WordsOf(l) # << >> /\ TrimSpins(l)
              \/ /\ reader' = "parsed"
                 /\ \A name \in DOMAIN request'.request_map :
                       request'.request_map[name] = FirstWith(name, Tail(lines))
  <1>1. segments' = segments /\ lines' = lines /\ body' = body
    BY DEF ParseRequest
  <1>2. CASE Len(WordsOf(lines[1])) < 3
    BY <1>1, <1>2 DEF ParseRequest
  <1>3. CASE ~(Len(WordsOf(lines[1])) < 3)
    <2>1. PICK r : r = ParseFirstLine(lines[1])
      OBVIOUS
    <2>2. /\ DOMAIN r = DOMAIN NoRequest /\ r.request_map = << >>
          /\ "request_map" \in DOMAIN r
      BY <2>1 DEF ParseFirstLine, NoRequest
    <2>3. \/ ParseFields(on, r)
          \/ /\ reader' = "parsed"
             /\ \E no, method :
                   request' = [r EXCEPT !.is_not_implemented = no, !.is_bad_request = ~no,
                                        !.method = method]
      BY <1>3, <2>1 DEF ParseRequest
    <2>4. CASE ParseFields(on, r)
      <3>1. Tail(lines) \in Seq(L)
        BY HeadTailProperties
      <3> QED
        BY <1>1, <2>2, <2>4, <3>1, ParsedFields
    <2>5. CASE /\ reader' = "parsed"
               /\ \E no, method : request' = [r EXCEPT !.is_not_implemented = no,
                                                       !.is_bad_request = ~no, !.method = method]
      <3>1. request'.request_map = r.request_map
        BY <2>5
      <3>2. DOMAIN request'.request_map = {}
        BY <2>2, <3>1
      <3> QED
        BY <1>1, <2>5, <3>2
    <2> QED
      BY <2>3, <2>4, <2>5
  <1> QED
    BY <1>2, <1>3

-----------------------------------------------------------------------------
(* The inductive invariant                                                 *)

\* What is left to receive when x - 1 segments have been received.
Left(x) == SubSeq(input.segments, x, Len(input.segments))

\* Some, but not all, of r's segments have been received, ...
Receiving(r) ==
    /\ body = << >>
    /\ \E g \in 0..Len(r.upto) - 1 :
          lines = SubSeq(r.header, 1, Upto(r, g)) /\ segments = Left(r.first + g)

\* ... and all that hold a part of its header.
Received(r) ==
    lines = r.header /\ IsPrefix(body, r.body) /\ segments = Left(r.first + Len(r.upto))

FirstsCount(r) ==
    \A name \in DOMAIN request.request_map :
        request.request_map[name] = FirstWith(name, Tail(r.header))

Apart == ~input.torn /\ input.apart /\ nth \in DOMAIN input.requests

HeaderInv ==
    /\ reader = "idle" => lines = << >> /\ body = << >>
    /\ Apart /\ reader = "reading" => Receiving(input.requests[nth])
    /\ Apart /\ reader \in {"parsing", "parsed"} => Received(input.requests[nth])
    /\ Apart /\ reader = "parsed" => FirstsCount(input.requests[nth])
    /\ WellSent /\ nth \in DOMAIN input.requests =>
          phase # "out_of_range" /\ reader \notin {"exits", "spins", "undefined"}

\* A request that is sent in whole lines.
IsRequest(r) ==
    /\ r.header \in HeaderLines /\ r.header # << >> /\ r.body \in Seq(STRING)
    /\ r.first \in Nat \ {0} /\ Len(r.upto) \in Nat \ {0}
    /\ \A g \in 0..Len(r.upto) : Upto(r, g) \in Nat

LEMMA RequestIs ==
    ASSUME NEW inp \in Inputs, NEW n \in DOMAIN inp.requests
    PROVE  IsRequest(inp.requests[n])
  <1> DEFINE R == [header : Seq(HeaderLine) \ {<< >>}, body : Seq(STRING),
                   first : Nat \ {0}, upto : Seq(Nat) \ {<< >>}]
  <1>1. inp.requests \in Seq(R)
    BY SentAssumption
  <1>2. PICK r \in R : r = inp.requests[n]
    <2> HIDE DEF R
    <2>1. inp.requests[n] \in R
      BY <1>1
    <2> QED
      BY <2>1
  <1>3. /\ r.header \in HeaderLines /\ r.header # << >> /\ r.body \in Seq(STRING)
        /\ r.first \in Nat \ {0} /\ r.upto \in Seq(Nat) /\ r.upto # << >>
    BY DEF HeaderLines
  <1>4. Len(r.upto) \in Nat \ {0}
    BY <1>3
  <1>5. ASSUME NEW g \in 0..Len(r.upto) PROVE Upto(r, g) \in Nat
    <2>1. CASE g = 0
      BY <2>1 DEF Upto
    <2>2. CASE g # 0
      <3>1. g \in 1..Len(r.upto)
        BY <1>4, <2>2
      <3> QED
        BY <1>3, <2>2, <3>1 DEF Upto
    <2> QED
      BY <2>1, <2>2
  <1>6. IsRequest(r)
    BY <1>3, <1>4, <1>5 DEF IsRequest
  <1> QED
    BY <1>2, <1>6

LEMMA SentInLines ==
    ASSUME input \in Inputs, Apart, NEW r, r = input.requests[nth], NEW m, m = Len(r.upto)
    PROVE  /\ \A g \in 1..m : Upto(r, g - 1) <= Upto(r, g) /\ Upto(r, g) <= Len(r.header)
           /\ \A g \in 1..m - 1 : input.segments[r.first + g - 1] = LinesText(Share(r, g))
           /\ \E k \in 0..Len(r.body) :
                 input.segments[r.first + m - 1] =
                     LinesText(Share(r, m)) \o CRLF \o SubSeq(r.body, 1, k)
           /\ Upto(r, m) = Len(r.header) /\ r.first + m - 1 <= Len(input.segments)
           /\ r.first = IF nth = 1 THEN 1
                        ELSE input.requests[nth - 1].first + Len(input.requests[nth - 1].upto)
  <1>1. InWholeLines(input)
    BY SentAssumption DEF Apart
  <1>2. m \in Nat \ {0}
    BY RequestIs DEF Apart, IsRequest
  <1>3. Upto(r, m) = r.upto[m]
    BY <1>2 DEF Upto
  <1> QED
    BY <1>1, <1>3 DEF InWholeLines, Apart

\* The lines that one more segment brings.
LEMMA ShareIs ==
    ASSUME NEW r, IsRequest(r), NEW g \in 0..Len(r.upto) - 1,
           Upto(r, g) <= Upto(r, g + 1), Upto(r, g + 1) <= Len(r.header)
    PROVE  /\ Share(r, g + 1) \in HeaderLines
           /\ SubSeq(r.header, 1, Upto(r, g)) \o Share(r, g + 1)
                 = SubSeq(r.header, 1, Upto(r, g + 1))
  <1>1. g \in 0..Len(r.upto) /\ g + 1 \in 0..Len(r.upto) /\ (g + 1) - 1 = g
    BY DEF IsRequest
  <1>2. PICK a \in Nat : a = Upto(r, g)
    BY <1>1 DEF IsRequest
  <1>3. PICK b \in Nat : b = Upto(r, g + 1)
    BY <1>1 DEF IsRequest
  <1>4. PICK h \in Seq(HeaderLine) : h = r.header
    BY DEF IsRequest, HeaderLines
  <1>5. a <= b /\ b <= Len(h) /\ Share(r, g + 1) = SubSeq(h, a + 1, b)
    BY <1>1, <1>2, <1>3, <1>4 DEF Share
  <1>6. SubSeq(h, 1, a) \o SubSeq(h, a + 1, b) = SubSeq(h, 1, b)
    BY <1>5, PartsJoin
  <1>7. SubSeq(h, a + 1, b) \in Seq(HeaderLine)
    <2>1. \A x \in a + 1..b : h[x] \in HeaderLine
      BY <1>5
    <2> QED
      BY <2>1, SubSeqProperties
  <1> QED
    BY <1>2, <1>3, <1>4, <1>5, <1>6, <1>7 DEF HeaderLines

LEMMA StartIsPrefix ==
    ASSUME NEW s \in Seq(STRING), NEW k \in 0..Len(s), NEW b, b = SubSeq(s, 1, k)
    PROVE  b \in Seq(Char) /\ << >> \o b = b /\ IsPrefix(b, s)
  <1>1. \A x \in 1..k : s[x] \in STRING
    OBVIOUS
  <1>2. b \in Seq(STRING) /\ Len(b) = k
    BY <1>1, SubSeqProperties
  <1>3. SubSeq(b, 1, Len(b)) = b
    BY <1>2, SubSeqFull
  <1>4. IsPrefix(b, s)
    BY <1>2, <1>3 DEF IsPrefix
  <1>5. << >> \o b = b
    BY <1>2, ConcatEmptySeq
  <1>6. STRING \subseteq Char
    BY DEF Char
  <1>7. b \in Seq(Char)
    BY <1>2, <1>6, SeqMonotonic
  <1> QED
    BY <1>4, <1>5, <1>7

\* One segment more of a request that is being received.
LEMMA OneSegment ==
    ASSUME input \in Inputs, Apart, NEW r, r = input.requests[nth], Receiving(r),
           NEW behind, ReadHeader(behind), input' = input
    PROVE  \/ reader' = "reading" /\ Receiving(r)'
           \/ reader' = "parsing" /\ Received(r)'
  <1> DEFINE m == Len(r.upto)
  <1>1. IsRequest(r) /\ m \in Nat \ {0} /\ r.first \in Nat \ {0}
    BY RequestIs DEF Apart, IsRequest
  <1>2. PICK g \in 0..m - 1 :
            lines = SubSeq(r.header, 1, Upto(r, g)) /\ segments = Left(r.first + g)
    BY DEF Receiving
  <1>3. body = << >>
    BY DEF Receiving
  <1>4. /\ \A c \in 1..m : Upto(r, c - 1) <= Upto(r, c) /\ Upto(r, c) <= Len(r.header)
        /\ \A c \in 1..m - 1 : input.segments[r.first + c - 1] = LinesText(Share(r, c))
        /\ \E k \in 0..Len(r.body) :
              input.segments[r.first + m - 1] =
                  LinesText(Share(r, m)) \o CRLF \o SubSeq(r.body, 1, k)
        /\ Upto(r, m) = Len(r.header) /\ r.first + m - 1 <= Len(input.segments)
    BY SentInLines
  <1>5. PICK x \in 1..Len(input.segments) : x = r.first + g /\ x + 1 = r.first + (g + 1)
                                            /\ x = r.first + (g + 1) - 1
    <2>1. input.segments \in Seq(Seq(STRING))
      BY SiteAssumption
    <2>2. Len(input.segments) \in Nat
      BY <2>1
    <2>3. r.first + g \in 1..Len(input.segments)
      <3>1. PICK f \in Nat \ {0} : f = r.first
        BY <1>1
      <3>2. PICK M \in Nat \ {0} : M = m
        BY <1>1
      <3>3. g \in 0..M - 1 /\ f + M - 1 <= Len(input.segments)
        BY <1>4, <3>1, <3>2
      <3> HIDE DEF m
      <3>4. f + g \in 1..Len(input.segments)
        BY <2>2, <3>1, <3>2, <3>3
      <3> QED
        BY <3>1, <3>4
    <2> QED
      BY <1>1, <2>3
  <1>6. Head(segments) = input.segments[x] /\ Tail(segments) = Left(x + 1)
    <2>1. input.segments \in Seq(Seq(STRING))
      BY SiteAssumption
    <2>2. segments = SubSeq(input.segments, x, Len(input.segments))
      BY <1>2, <1>5 DEF Left
    <2> QED
      BY <2>1, <2>2, RestIs DEF Left
  <1>7. g + 1 \in 1..m /\ (g + 1) - 1 = g
    BY <1>1
  <1>8. Upto(r, g) <= Upto(r, g + 1) /\ Upto(r, g + 1) <= Len(r.header)
    BY <1>4, <1>7
  <1>9. /\ Share(r, g + 1) \in HeaderLines
        /\ SubSeq(r.header, 1, Upto(r, g)) \o Share(r, g + 1)
              = SubSeq(r.header, 1, Upto(r, g + 1))
    BY <1>1, <1>8, ShareIs
  <1>10. Left(x + 1)' = Left(x + 1)
    BY DEF Left
  <1>11. CASE g + 1 # m
    <2>1. g + 1 \in 1..m - 1
      BY <1>1, <1>11
    <2>2. Head(segments) = LinesText(Share(r, g + 1))
      BY <1>4, <1>5, <1>6, <2>1
    <2>3. /\ segments' = Tail(segments) /\ lines' = lines \o Share(r, g + 1)
          /\ body' = body /\ reader' = "reading"
      BY <1>9, <2>2, ReadsLines
    <2>4. /\ lines' = SubSeq(r.header, 1, Upto(r, g + 1)) /\ body' = << >>
          /\ segments' = Left(r.first + (g + 1))'
      BY <1>2, <1>3, <1>5, <1>6, <1>9, <1>10, <2>3
    <2>5. g + 1 \in 0..m - 1
      BY <2>1
    <2>6. Receiving(r)'
      BY <2>4, <2>5 DEF Receiving
    <2> QED
      BY <2>3, <2>6
  <1>12. CASE g + 1 = m
    <2>1. PICK k \in 0..Len(r.body) :
              input.segments[r.first + m - 1] =
                  LinesText(Share(r, m)) \o CRLF \o SubSeq(r.body, 1, k)
      BY <1>4
    <2>2. PICK b : b = SubSeq(r.body, 1, k)
      OBVIOUS
    <2>3. b \in Seq(Char) /\ << >> \o b = b /\ IsPrefix(b, r.body)
      <3>1. r.body \in Seq(STRING)
        BY <1>1 DEF IsRequest
      <3> QED
        BY <2>2, <3>1, StartIsPrefix
    <2>4. Head(segments) = LinesText(Share(r, g + 1)) \o CRLF \o b
      BY <1>5, <1>6, <1>12, <2>1, <2>2
    <2>5. /\ segments' = Tail(segments) /\ lines' = lines \o Share(r, g + 1)
          /\ body' = body \o b /\ reader' = "parsing"
      BY <1>9, <2>3, <2>4, ReadsLast
    <2>6. SubSeq(r.header, 1, Upto(r, g + 1)) = r.header
      <3>1. r.header \in Seq(HeaderLine)
        BY <1>1 DEF IsRequest, HeaderLines
      <3> QED
        BY <1>4, <1>12, <3>1, SubSeqFull
    <2>7. /\ lines' = r.header /\ body' = b /\ segments' = Left(r.first + m)'
      BY <1>2, <1>3, <1>5, <1>6, <1>9, <1>10, <1>12, <2>3, <2>5, <2>6
    <2>8. Received(r)'
      BY <2>3, <2>7 DEF Received
    <2> QED
      BY <2>5, <2>8
  <1> QED
    BY <1>11, <1>12

-----------------------------------------------------------------------------
(* It is kept by every action                                              *)

LEMMA ReceiveKept ==
    ASSUME input \in Inputs, HeaderInv, Receive
    PROVE  HeaderInv'
  <1>1. PICK behind : ReadHeader(behind)
    BY DEF Receive
  <1>2. /\ phase = "running" /\ phase' = (IF reader' = "exits" THEN "out_of_range" ELSE phase)
        /\ input' = input /\ nth' = nth
    BY DEF Receive
  <1>3. reader = "reading" /\ reader' \in {"reading", "parsing", "exits"}
    BY <1>1 DEF ReadHeader
  <1>4. (Apart' <=> Apart) /\ (WellSent' <=> WellSent)
    BY <1>2 DEF Apart, WellSent
  <1>5. PICK r : r = input.requests[nth] /\ r = input'.requests[nth']
    BY <1>2
  <1>6. ASSUME Apart
        PROVE  \/ reader' = "reading" /\ Receiving(r)'
               \/ reader' = "parsing" /\ Received(r)'
    <2>1. Receiving(r)
      BY <1>3, <1>5, <1>6 DEF HeaderInv
    <2> QED
      BY <1>1, <1>2, <1>5, <1>6, <2>1, OneSegment
  <1>7. ASSUME WellSent, nth \in DOMAIN input.requests
        PROVE  phase' # "out_of_range" /\ reader' \notin {"exits", "spins", "undefined"}
    <2>1. Apart
      BY <1>7 DEF WellSent, Apart
    <2> QED
      BY <1>2, <1>6, <2>1
  <1> QED
    BY <1>2, <1>3, <1>4, <1>5, <1>6, <1>7 DEF HeaderInv

LEMMA ParseKept ==
    ASSUME input \in Inputs, HeaderInv, Parse
    PROVE  HeaderInv'
  <1>1. PICK on : ParseRequest(on) /\ on = This.conf.cookies
    BY DEF Parse
  <1>2. /\ phase = "running" /\ phase' = (IF reader' = "exits" THEN "out_of_range" ELSE phase)
        /\ input' = input /\ nth' = nth
    BY DEF Parse
  <1>3. reader = "parsing" /\ reader' \in {"undefined", "exits", "spins", "parsed"}
    BY <1>1 DEF ParseRequest, ParseFields
  <1>4. (Apart' <=> Apart) /\ (WellSent' <=> WellSent)
    BY <1>2 DEF Apart, WellSent
  <1>5. PICK r : r = input.requests[nth] /\ r = input'.requests[nth']
    BY <1>2
  <1>6. ASSUME Apart
        PROVE  /\ lines = r.header
               /\ reader' = "parsed" => Received(r)' /\ FirstsCount(r)'
               /\ \/ reader' = "exits" /\ Len(WordsOf(r.header[1])) < 3
                  \/ /\ reader' = "spins"
                     /\ \E l \in ToSet(Tail(r.header)) : WordsOf(l) # << >> /\ TrimSpins(l)
                  \/ reader' = "parsed"
    <2>1. Received(r)
      BY <1>3, <1>5, <1>6 DEF HeaderInv
    <2>2. IsRequest(r)
      BY <1>5, <1>6, RequestIs DEF Apart
    <2>3. lines = r.header /\ lines \in Seq(HeaderLine) /\ lines # << >>
      BY <2>1, <2>2 DEF Received, IsRequest, HeaderLines
    <2>4. /\ segments' = segments /\ lines' = lines /\ body' = body
          /\ \/ reader' = "exits" /\ Len(WordsOf(lines[1])) < 3
             \/ /\ reader' = "spins"
                /\ \E l \in ToSet(Tail(lines)) : WordsOf(l) # << >> /\ TrimSpins(l)
             \/ /\ reader' = "parsed"
                /\ \A name \in DOMAIN request'.request_map :
                      request'.request_map[name] = FirstWith(name, Tail(lines))
      BY <1>1, <2>3, ParsesRequest
    <2>5. Received(r)'
      BY <1>2, <2>1, <2>4 DEF Received, Left
    <2>6. reader' = "parsed" => FirstsCount(r)'
      BY <2>3, <2>4 DEF FirstsCount
    <2> QED
      BY <2>3, <2>4, <2>5, <2>6
  <1>7. ASSUME WellSent, nth \in DOMAIN input.requests
        PROVE  phase' # "out_of_range" /\ reader' \notin {"exits", "spins", "undefined"}
    <2>1. Apart
      BY <1>7 DEF WellSent, Apart
    <2>2. /\ ~(Len(WordsOf(r.header[1])) < 3)
          /\ \A l \in ToSet(Tail(r.header)) : WordsOf(l) # << >> => ~TrimSpins(l)
      BY <1>5, <1>7 DEF WellSent
    <2>3. reader' = "parsed"
      BY <1>6, <2>1, <2>2
    <2> QED
      BY <1>2, <2>3
  <1> QED
    BY <1>2, <1>3, <1>4, <1>5, <1>6, <1>7 DEF HeaderInv

LEMMA ConnectKept ==
    ASSUME input \in Inputs, reader = "idle" => nth = 1, HeaderInv, Connect
    PROVE  HeaderInv'
  <1>1. /\ phase = "running" /\ reader = "idle" /\ reader' = "reading"
        /\ segments' = input.segments /\ UNCHANGED <<lines, body, input, nth, phase>>
    BY DEF Connect, site_vars
  <1>2. lines = << >> /\ body = << >> /\ nth = 1
    BY <1>1 DEF HeaderInv
  <1>3. ASSUME Apart, NEW r, r = input.requests[nth] PROVE Receiving(r)'
    <2>1. IsRequest(r) /\ Len(r.upto) \in Nat \ {0} /\ r.header \in Seq(HeaderLine)
      BY <1>3, RequestIs DEF Apart, IsRequest, HeaderLines
    <2>2. r.first = 1
      BY <1>2, <1>3, SentInLines
    <2>3. 0 \in 0..Len(r.upto) - 1 /\ Upto(r, 0) = 0 /\ r.first + 0 = 1
      BY <2>1, <2>2 DEF Upto
    <2>4. SubSeq(r.header, 1, 0) = << >>
      BY SubSeqEmpty
    <2>5. input.segments \in Seq(Seq(STRING))
      BY SiteAssumption
    <2>6. SubSeq(input.segments, 1, Len(input.segments)) = input.segments
      BY <2>5, SubSeqFull
    <2>7. segments' = Left(1)'
      BY <1>1, <2>6 DEF Left
    <2> QED
      BY <1>1, <1>2, <2>3, <2>4, <2>7 DEF Receiving
  <1>4. Apart' <=> Apart
    BY <1>1 DEF Apart
  <1> QED
    BY <1>1, <1>3, <1>4 DEF HeaderInv

LEMMA SettleKept ==
    ASSUME input \in Inputs, nth \in Nat \ {0}, HeaderInv, Settle
    PROVE  HeaderInv'
  <1>1. phase = "running" /\ reader = "parsed" /\ UNCHANGED <<input, phase, segments>>
    BY DEF Settle
  <1>2. \/ /\ reader' = "reading" /\ lines' = << >> /\ body' = << >> /\ nth' = nth + 1
        \/ /\ reader' = "closed" /\ UNCHANGED nth
    BY DEF Settle
  <1>3. CASE reader' = "closed"
    BY <1>1, <1>2, <1>3 DEF HeaderInv
  <1>4. CASE /\ reader' = "reading" /\ lines' = << >> /\ body' = << >> /\ nth' = nth + 1
    <2>1. ASSUME Apart', NEW r, r = input'.requests[nth'] PROVE Receiving(r)'
      <3>1. nth + 1 \in DOMAIN input.requests /\ nth \in DOMAIN input.requests
        <4>1. nth + 1 \in DOMAIN input.requests
          BY <1>1, <1>4, <2>1 DEF Apart
        <4>2. DOMAIN input.requests = 1..Len(input.requests) /\ Len(input.requests) \in Nat
          BY SentAssumption
        <4> QED
          BY <4>1, <4>2
      <3>2. InWholeLines(input) /\ Apart
        BY <1>1, <2>1, <3>1, SentAssumption DEF Apart
      <3>3. PICK p : p = input.requests[nth]
        OBVIOUS
      <3>4. r = input.requests[nth + 1] /\ nth + 1 # 1 /\ (nth + 1) - 1 = nth
        BY <1>1, <1>4, <2>1
      <3>5. r.first = p.first + Len(p.upto)
        BY <3>1, <3>2, <3>3, <3>4 DEF InWholeLines
      <3>6. segments = Left(r.first)
        BY <1>1, <3>2, <3>3, <3>5 DEF HeaderInv, Received
      <3>7. IsRequest(r) /\ Len(r.upto) \in Nat \ {0} /\ r.first \in Nat
        BY <3>1, <3>4, RequestIs DEF IsRequest
      <3>8. 0 \in 0..Len(r.upto) - 1 /\ Upto(r, 0) = 0 /\ r.first + 0 = r.first
        BY <3>7 DEF Upto
      <3>9. SubSeq(r.header, 1, 0) = << >>
        BY SubSeqEmpty
      <3>10. segments' = Left(r.first)'
        BY <1>1, <3>6 DEF Left
      <3> QED
        BY <1>4, <3>8, <3>9, <3>10 DEF Receiving
    <2>2. phase' # "out_of_range"
      BY <1>1
    <2> QED
      BY <1>4, <2>1, <2>2 DEF HeaderInv
  <1> QED
    BY <1>2, <1>3, <1>4

LEMMA HeaderUntouched ==
    ASSUME HeaderInv, UNCHANGED <<header_vars, input, nth>>,
           phase' = "out_of_range" => phase = "out_of_range"
    PROVE  HeaderInv'
  BY DEF HeaderInv, header_vars, Apart, WellSent, Received, Receiving, FirstsCount, Left

LEMMA FollowKept ==
    ASSUME HeaderInv, Follow
    PROVE  HeaderInv'
  <1>1. /\ UNCHANGED <<input, phase, nth, segments, lines, body, reader>>
        /\ request' = [NoRequest EXCEPT !.method = "GET", !.http_version = "HTTP/1.1",
                                        !.path = response.redirect_to]
    BY DEF Follow
  <1>2. DOMAIN request'.request_map = {}
    BY <1>1 DEF NoRequest
  <1>3. \A r : FirstsCount(r)'
    BY <1>2 DEF FirstsCount
  <1> QED
    BY <1>1, <1>3 DEF HeaderInv, Apart, WellSent, Received, Receiving, Left

\* Only a header that is read or parsed ends the program as one of these.
LEMMA NotThrown ==
    ASSUME Nodes, [Next]_vars, ~Receive, ~Parse, phase' = "out_of_range"
    PROVE  phase = "out_of_range"
  <1>1. ~ParseAndGetCli /\ ~CheckStructure /\ ~OpenFile /\ ~Scan /\ ~FillHttpData /\ ~SetWarnings
        /\ ~Start
    BY DEF ParseAndGetCli, CheckStructure, OpenFile, Scan, FillHttpData, SetWarnings, Start
  <1>2. ~CheckFile
    <2>1. FileVerdict(http_as_words, nodes) \in {"valid", "invalid", "undefined"}
      BY Verdicts DEF Nodes
    <2> QED
      BY <2>1 DEF CheckFile
  <1>3. ~FillServerData
    <2>1. ServerStops(Len(servers) + 1, nodes[Len(servers) + 1], PortsSet)
             \in (Ended \ {"out_of_range"}) \cup {"no"}
      BY WhyStopped
    <2> QED
      BY <2>1 DEF FillServerData
  <1>4. \/ Connect \/ ArchitectResponse \/ Settle \/ Follow \/ Done \/ UNCHANGED vars
    BY <1>1, <1>2, <1>3 DEF Next
  <1> QED
    BY <1>4 DEF Connect, ArchitectResponse, Settle, Follow, Done, vars, site_vars

LEMMA HeaderKept ==
    ASSUME SiteInv, FileInv, HeaderInv, [Next]_vars
    PROVE  HeaderInv'
  <1>1. Nodes /\ input \in Inputs /\ nth \in Nat \ {0} /\ (reader = "idle" => nth = 1)
    BY DEF SiteInv, FileInv, Read, Counted
  <1>2. CASE Connect
    BY <1>1, <1>2, ConnectKept
  <1>3. CASE Receive
    BY <1>1, <1>3, ReceiveKept
  <1>4. CASE Parse
    BY <1>1, <1>4, ParseKept
  <1>5. CASE Settle
    BY <1>1, <1>5, SettleKept
  <1>6. CASE Follow
    BY <1>6, FollowKept
  <1>7. CASE ~Connect /\ ~Receive /\ ~Parse /\ ~Settle /\ ~Follow
    <2>1. UNCHANGED <<header_vars, input, nth>>
      BY <1>7 DEF Next, ParseAndGetCli, CheckStructure, OpenFile, Scan, CheckFile, FillHttpData,
         FillServerData, SetWarnings, Start, ArchitectResponse, Done, vars, site_vars
    <2>2. phase' = "out_of_range" => phase = "out_of_range"
      BY <1>1, <1>7, NotThrown
    <2> QED
      BY <2>1, <2>2, HeaderUntouched
  <1> QED
    BY <1>2, <1>3, <1>4, <1>5, <1>6, <1>7

-----------------------------------------------------------------------------
(* Theorems                                                                *)

\* The inductive invariant: between two calls of read_header the lines are
\* those of the segments received so far and nothing of the body, and what is
\* left on the wire starts with the next one; a request that is well sent
\* ends nothing.
THEOREM HeaderInvariant == Spec => []HeaderInv
  <1>1. Init => HeaderInv
    BY DEF Init, HeaderInit, HeaderInv
  <1>2. SiteInv /\ FileInv /\ HeaderInv /\ [Next]_vars => HeaderInv'
    BY HeaderKept
  <1> QED
    BY <1>1, <1>2, SiteInvariant, FileInvariant, PTL DEF Spec

\* However a header is cut into segments of whole lines, and on a connection
\* that is kept: its lines are those that were sent, what is read behind them
\* is the start of the body, and of a field sent twice the first counts.
THEOREM HeaderIsAsSent == Spec => []HeaderAsSent
  <1>1. HeaderInv => HeaderAsSent
    BY DEF HeaderInv, HeaderAsSent, Apart, Received, FirstsCount
  <1> QED
    BY <1>1, HeaderInvariant, PTL

\* No request that is well sent ends the program or keeps it from serving
\* others, whatever bytes lie behind those that recv() returned.
THEOREM RequestsSurvive == Spec => []RequestsSurvived
  <1>1. HeaderInv => RequestsSurvived
    BY DEF HeaderInv, RequestsSurvived
  <1> QED
    BY <1>1, HeaderInvariant, PTL
=============================================================================
