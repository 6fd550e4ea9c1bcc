---------------------------- MODULE UploadProofs ----------------------------
(* Proofs of the safety of uploads, for any clients, requests, sizes and   *)
(* directories.                                                            *)
EXTENDS UploadProps, SequenceTheorems, TLAPS

-----------------------------------------------------------------------------
(* Pieces of a client's stream. *)

\* A piece is a sequence of the client's bytes, of the length asked for.
LEMMA SegmentType ==
    ASSUME NEW c \in Clients, NEW a \in Nat, NEW n \in Nat
    PROVE  /\ Segment(c, a, n) \in Seq(Clients \X Nat)
           /\ Len(Segment(c, a, n)) = n
           /\ DOMAIN Segment(c, a, n) = 1..n
           /\ \A i \in 1..n : Segment(c, a, n)[i] = <<c, a + i>>
  <1>1. \A i \in 1..n : <<c, a + i>> \in Clients \X Nat
    OBVIOUS
  <1> QED
    BY <1>1 DEF Segment

\* Adjacent pieces join to one.
LEMMA SegmentConcat ==
    ASSUME NEW c \in Clients, NEW a \in Nat, NEW m \in Nat, NEW n \in Nat
    PROVE  Segment(c, a, m) \o Segment(c, a + m, n) = Segment(c, a, m + n)
  <1> DEFINE s == Segment(c, a, m)
             t == Segment(c, a + m, n)
             u == Segment(c, a, m + n)
  <1>1. /\ s \in Seq(Clients \X Nat) /\ Len(s) = m
        /\ \A i \in 1..m : s[i] = <<c, a + i>>
    BY SegmentType
  <1>2. /\ t \in Seq(Clients \X Nat) /\ Len(t) = n
        /\ \A i \in 1..n : t[i] = <<c, a + m + i>>
    <2>1. a + m \in Nat
      OBVIOUS
    <2> QED
      BY <2>1, SegmentType
  <1>3. /\ u \in Seq(Clients \X Nat) /\ Len(u) = m + n
        /\ \A i \in 1..(m + n) : u[i] = <<c, a + i>>
    <2>1. m + n \in Nat
      OBVIOUS
    <2> QED
      BY <2>1, SegmentType
  <1> DEFINE w == s \o t
  <1>4. /\ w \in Seq(Clients \X Nat) /\ Len(w) = m + n
        /\ \A i \in 1..(m + n) : w[i] = IF i <= m THEN s[i] ELSE t[i - m]
    <2> HIDE DEF s, t
    <2>1. /\ w \in Seq(Clients \X Nat) /\ Len(w) = Len(s) + Len(t)
          /\ \A i \in 1..(Len(s) + Len(t)) :
                w[i] = IF i <= Len(s) THEN s[i] ELSE t[i - Len(s)]
      BY <1>1, <1>2, ConcatProperties
    <2> QED
      BY <1>1, <1>2, <2>1
  <1> HIDE DEF s, t, u, w
  <1>5. ASSUME NEW i \in 1..(m + n)
        PROVE  w[i] = u[i]
    <2>1. CASE i <= m
      <3>1. i \in 1..m /\ w[i] = s[i]
        BY <1>4, <2>1
      <3> QED
        BY <1>1, <1>3, <3>1
    <2>2. CASE i > m
      <3>1. i - m \in 1..n /\ w[i] = t[i - m]
        BY <1>4, <2>2
      <3>2. a + m + (i - m) = a + i
        OBVIOUS
      <3> QED
        BY <1>2, <1>3, <3>1, <3>2
    <2> QED
      BY <2>1, <2>2
  <1>6. w = u
    BY <1>3, <1>4, <1>5, SeqEqual
  <1> QED
    BY <1>6 DEF s, t, u, w

\* The front of a piece is a piece; of a negative length it is empty.
LEMMA SegmentFront ==
    ASSUME NEW c \in Clients, NEW a \in Nat, NEW m \in Nat, NEW k \in Int,
           k <= m
    PROVE  /\ k >= 0 => SubSeq(Segment(c, a, m), 1, k) = Segment(c, a, k)
           /\ k < 0 => SubSeq(Segment(c, a, m), 1, k) = << >>
  <1> DEFINE s == Segment(c, a, m)
             t == SubSeq(s, 1, k)
  <1>1. /\ s \in Seq(Clients \X Nat) /\ Len(s) = m
        /\ \A i \in 1..m : s[i] = <<c, a + i>>
    BY SegmentType
  <1> HIDE DEF s
  <1>2. CASE k >= 0
    <2> DEFINE u == Segment(c, a, k)
    <2>0. k \in Nat
      BY <1>2
    <2>1. /\ t \in Seq(Clients \X Nat) /\ Len(t) = k
          /\ \A i \in 1..k : t[i] = s[i]
      <3>1. \A i \in 1..k : s[i] \in Clients \X Nat
        BY <1>1, <2>0
      <3>2. /\ t \in Seq(Clients \X Nat)
            /\ Len(t) = IF 1 <= k THEN k - 1 + 1 ELSE 0
            /\ \A i \in 1..(k - 1 + 1) : t[i] = s[1 + i - 1]
        BY <3>1, SubSeqProperties
      <3> HIDE DEF t
      <3>3. \A i \in 1..k : 1 + i - 1 = i
        OBVIOUS
      <3>4. k - 1 + 1 = k
        OBVIOUS
      <3> QED
        BY <2>0, <3>2, <3>3, <3>4
    <2>2. /\ u \in Seq(Clients \X Nat) /\ Len(u) = k
          /\ \A i \in 1..k : u[i] = <<c, a + i>>
      BY <2>0, SegmentType
    <2> HIDE DEF t, u
    <2>3. \A i \in 1..k : t[i] = u[i]
      <3>1. \A i \in 1..k : i \in 1..m
        BY <2>0
      <3> QED
        BY <1>1, <2>1, <2>2, <3>1
    <2>4. t = u
      BY <2>1, <2>2, <2>3, SeqEqual
    <2> QED
      BY <1>2, <2>4 DEF s, t, u
  <1>3. CASE k < 0
    BY <1>3, SubSeqEmpty DEF s
  <1> QED
    BY <1>2, <1>3

\* What write() leaves is a file again.
LEMMA WriteType ==
    ASSUME NEW d \in Seq(Bytes), NEW off \in Nat, NEW s \in Seq(Bytes)
    PROVE  Write(d, off, s) \in Seq(Bytes)
  <1> DEFINE n == IF Len(d) > off + Len(s) THEN Len(d) ELSE off + Len(s)
             f == [i \in 1..n |->
                     IF i > off /\ i <= off + Len(s) THEN s[i - off]
                     ELSE IF i <= Len(d) THEN d[i] ELSE Hole]
  <1>1. Hole \in Bytes
    BY DEF Bytes
  <1>2. n \in Nat
    OBVIOUS
  <1>3. \A i \in 1..n : (IF i > off /\ i <= off + Len(s) THEN s[i - off]
                           ELSE IF i <= Len(d) THEN d[i] ELSE Hole) \in Bytes
    <2> HIDE DEF n
    <2> SUFFICES ASSUME NEW i \in 1..n
                 PROVE (IF i > off /\ i <= off + Len(s) THEN s[i - off]
                        ELSE IF i <= Len(d) THEN d[i] ELSE Hole) \in Bytes
      OBVIOUS
    <2>1. CASE i > off /\ i <= off + Len(s)
      <3>1. i - off \in 1..Len(s)
        BY <1>2, <2>1
      <3> QED
        BY <2>1, <3>1
    <2>2. CASE ~(i > off /\ i <= off + Len(s)) /\ i <= Len(d)
      <3>1. i \in 1..Len(d)
        BY <1>2, <2>2
      <3> QED
        BY <2>2, <3>1
    <2>3. CASE ~(i > off /\ i <= off + Len(s)) /\ ~(i <= Len(d))
      BY <1>1, <2>3
    <2> QED
      BY <2>1, <2>2, <2>3
  <1> HIDE DEF n
  <1>4. f \in Seq(Bytes)
    BY <1>2, <1>3
  <1> QED
    BY <1>4 DEF Write, n

\* The next piece of a stream, written behind what came before it, extends
\* the stored prefix.
LEMMA WritePrefix ==
    ASSUME NEW c \in Clients, NEW n \in Nat, NEW m \in Nat
    PROVE  Write(Segment(c, 0, n), n, Segment(c, n, m)) = Segment(c, 0, n + m)
  <1> DEFINE d == Segment(c, 0, n)
             s == Segment(c, n, m)
             u == Segment(c, 0, n + m)
  <1>1. /\ d \in Seq(Clients \X Nat) /\ Len(d) = n /\ DOMAIN d = 1..n
        /\ \A i \in 1..n : d[i] = <<c, i>>
    <2>1. 0 \in Nat /\ \A i \in 1..n : 0 + i = i
      OBVIOUS
    <2>2. /\ d \in Seq(Clients \X Nat) /\ Len(d) = n /\ DOMAIN d = 1..n
          /\ \A i \in 1..n : d[i] = <<c, 0 + i>>
      BY <2>1, SegmentType
    <2> HIDE DEF d
    <2> QED
      BY <2>1, <2>2
  <1>2. /\ s \in Seq(Clients \X Nat) /\ Len(s) = m
        /\ \A i \in 1..m : s[i] = <<c, n + i>>
    BY SegmentType
  <1>3. u = [i \in 1..(n + m) |-> <<c, i>>]
    BY DEF Segment
  <1> HIDE DEF d, s, u
  <1>4. CASE m = 0
    <2>1. s = << >>
      BY <1>2, <1>4
    <2>2. Write(d, n, s) = d
      BY <2>1 DEF Write
    <2> QED
      BY <1>4, <2>2 DEF d, s
  <1>5. CASE m > 0
    <2>1. s # << >>
      BY <1>2, <1>5
    <2>2. (IF Len(d) > n + Len(s) THEN Len(d) ELSE n + Len(s)) = n + m
      BY <1>1, <1>2
    <2>3. Write(d, n, s) =
            [i \in 1..(n + m) |-> IF i > n /\ i <= n + m THEN s[i - n]
                                  ELSE IF i <= n THEN d[i] ELSE Hole]
      BY <1>1, <1>2, <2>1, <2>2 DEF Write
    <2>4. \A i \in 1..(n + m) :
             (IF i > n /\ i <= n + m THEN s[i - n]
              ELSE IF i <= n THEN d[i] ELSE Hole) = <<c, i>>
      <3> SUFFICES ASSUME NEW i \in 1..(n + m)
                   PROVE (IF i > n /\ i <= n + m THEN s[i - n]
                          ELSE IF i <= n THEN d[i] ELSE Hole) = <<c, i>>
        OBVIOUS
      <3>1. CASE i > n
        <4>1. i - n \in 1..m /\ n + (i - n) = i
          BY <3>1
        <4> QED
          BY <1>2, <3>1, <4>1
      <3>2. CASE i <= n
        BY <1>1, <3>2
      <3> QED
        BY <3>1, <3>2
    <2>5. Write(d, n, s) = u
      BY <1>3, <2>3, <2>4
    <2> QED
      BY <2>5 DEF d, s, u
  <1> QED
    BY <1>4, <1>5

-----------------------------------------------------------------------------
(* The inductive invariant. *)

IdleFresh ==
    \A c \in Clients : state[c] = "idle" =>
        /\ first_time[c] /\ code[c] = 0
        /\ body_size[c] = 0

\* While a client is served its buffer is the piece of its stream between
\* what was written and what was received, and the body goes on.
ServingInOrder ==
    \A c \in Clients : state[c] = "SERVING" =>
        /\ code[c] = 0 /\ ~TooLarge(c)
        /\ body_size[c] \in Nat /\ received[c] - body_size[c] \in Nat
        /\ body[c] = Segment(c, body_size[c], received[c] - body_size[c])
        /\ body_size[c] = 0 \/ (~first_time[c] /\ body_size[c] < req[c].len)

FileHeld ==
    \A c \in Clients : file[c] = None <=> first_time[c]

AnsweredDone ==
    \A c \in Clients : Answered(c) =>
        state[c] = "SERVED" /\ file[c] # None /\ body_size[c] = req[c].len

IInv ==
    /\ TypeOK
    /\ IdleFresh
    /\ ServingInOrder
    /\ FileHeld
    /\ AnsweredDone
    /\ StoredInOrder
    /\ PostsApart
    /\ WithinLimit

\* What the call of open() leaves behind: the other files as they were, and
\* a new client's file empty and, for a POST, its own.
LEMMA OpenedFacts ==
    ASSUME TypeOK, FileHeld, NEW c \in Clients, NEW o \in Opened(c)
    PROVE  /\ o.ino \in Inodes /\ o.exist \in BOOLEAN
           /\ o.fs \in [Paths -> Inodes \cup {None}]
           /\ o.data \in [Inodes -> Seq(Bytes)]
           /\ \A j \in Inodes : j # o.ino => o.data[j] = data[j]
           /\ ~first_time[c] => o.ino = file[c] /\ o.data = data
           /\ first_time[c] => o.data[o.ino] = << >>
           /\ first_time[c] /\ req[c].method = "POST"
                => \A d \in Clients : file[d] # o.ino
  <1>1. CASE ~first_time[c]
    <2>1. o = AlreadyOpen(c)
      BY <1>1 DEF Opened
    <2>2. file[c] \in Inodes /\ file_exist[c] \in BOOLEAN
      BY <1>1 DEF TypeOK, FileHeld
    <2> QED
      BY <1>1, <2>1, <2>2 DEF AlreadyOpen, TypeOK
  <1>2. ASSUME NEW p \in Paths, fs[p] = None, o \in OpenCreate(p)
        PROVE  /\ o.ino \in Inodes /\ o.exist \in BOOLEAN
               /\ o.fs \in [Paths -> Inodes \cup {None}]
               /\ o.data \in [Inodes -> Seq(Bytes)]
               /\ \A j \in Inodes : j # o.ino => o.data[j] = data[j]
               /\ o.data[o.ino] = << >>
               /\ \A d \in Clients : file[d] # o.ino
    <2>1. o \in { [ino |-> i, exist |-> FALSE, fs |-> [fs EXCEPT ![p] = i],
                   data |-> [data EXCEPT ![i] = << >>]] :
                    i \in {j \in Inodes : Unused(j)} }
      BY <1>2 DEF OpenCreate
    <2>2. PICK i \in {j \in Inodes : Unused(j)} :
             o = [ino |-> i, exist |-> FALSE, fs |-> [fs EXCEPT ![p] = i],
                  data |-> [data EXCEPT ![i] = << >>]]
      BY <2>1
    <2>3. i \in Inodes /\ \A d \in Clients : file[d] # i
      BY <2>2 DEF Unused
    <2>4. /\ o.ino = i /\ o.exist = FALSE
          /\ o.fs = [fs EXCEPT ![p] = i]
          /\ o.data = [data EXCEPT ![i] = << >>]
      BY <2>2
    <2>5. << >> \in Seq(Bytes)
      OBVIOUS
    <2>6. o.fs \in [Paths -> Inodes \cup {None}]
      BY <2>3, <2>4 DEF TypeOK
    <2>7. /\ o.data \in [Inodes -> Seq(Bytes)]
          /\ \A j \in Inodes : j # i => o.data[j] = data[j]
          /\ o.data[i] = << >>
      <3>1. data \in [Inodes -> Seq(Bytes)]
        BY DEF TypeOK
      <3> QED
        BY <2>3, <2>4, <2>5, <3>1
    <2> QED
      BY <2>3, <2>4, <2>6, <2>7
  <1>3. ASSUME NEW p \in Paths, fs[p] # None, o \in OpenTruncated(p)
        PROVE  /\ o.ino \in Inodes /\ o.exist \in BOOLEAN
               /\ o.fs \in [Paths -> Inodes \cup {None}]
               /\ o.data \in [Inodes -> Seq(Bytes)]
               /\ \A j \in Inodes : j # o.ino => o.data[j] = data[j]
               /\ o.data[o.ino] = << >>
    <2>1. /\ o.ino = fs[p] /\ o.exist = TRUE
          /\ o.fs = fs
          /\ o.data = [data EXCEPT ![fs[p]] = << >>]
      BY <1>3 DEF OpenTruncated
    <2>2. fs[p] \in Inodes
      BY <1>3 DEF TypeOK
    <2>3. << >> \in Seq(Bytes)
      OBVIOUS
    <2>4. /\ o.data \in [Inodes -> Seq(Bytes)]
          /\ \A j \in Inodes : j # fs[p] => o.data[j] = data[j]
          /\ o.data[fs[p]] = << >>
      <3>1. data \in [Inodes -> Seq(Bytes)]
        BY DEF TypeOK
      <3> QED
        BY <2>1, <2>2, <2>3, <3>1
    <2>5. fs \in [Paths -> Inodes \cup {None}]
      BY DEF TypeOK
    <2> QED
      BY <2>1, <2>2, <2>4, <2>5
  <1>4. CASE first_time[c] /\ req[c].method = "POST"
    <2>1. o \in UNION {OpenCreate(p) : p \in {q \in Paths : FreePath(q)}}
      BY <1>4 DEF Opened, CreateFile
    <2>2. PICK p \in Paths : FreePath(p) /\ o \in OpenCreate(p)
      BY <2>1
    <2>3. fs[p] = None
      BY <2>2 DEF FreePath
    <2> QED
      BY <1>2, <1>4, <2>2, <2>3
  <1>5. CASE first_time[c] /\ req[c].method # "POST"
    <2> DEFINE p == req[c].path
    <2>1. p \in Paths
      <3>1. req[c] \in Requests
        BY DEF TypeOK
      <3>2. req[c] \in Request
        BY <3>1, SizesAssumption DEF Valid
      <3> QED
        BY <3>2 DEF Request
    <2> HIDE DEF p
    <2>2. o \in (IF fs[p] # None THEN OpenTruncated(p) ELSE OpenCreate(p))
      BY <1>5 DEF Opened, CreateFile, p
    <2>3. CASE fs[p] # None
      BY <1>3, <1>5, <2>1, <2>2, <2>3
    <2>4. CASE fs[p] = None
      BY <1>2, <1>5, <2>1, <2>2, <2>4
    <2> QED
      BY <2>3, <2>4
  <1> QED
    BY <1>1, <1>4, <1>5

\* A request's fields.
LEMMA RequestType ==
    ASSUME TypeOK, NEW c \in Clients
    PROVE  req[c].len \in Int /\ req[c].total \in Nat
  <1>1. req[c] \in Request
    BY SizesAssumption DEF TypeOK, Valid
  <1> QED
    BY <1>1 DEF Request

\* An initial state satisfies the invariant.
LEMMA InitInv == Init => IInv
  <1> SUFFICES ASSUME Init PROVE IInv
    OBVIOUS
  <1>1. TypeOK
    <2>1. data \in [Inodes -> Seq(Bytes)]
      <3>1. <<Hole, Hole, Hole>> \in Seq(Bytes)
        BY DEF Bytes
      <3> QED
        BY <3>1 DEF Init
    <2>2. body \in [Clients -> Seq(Clients \X Nat)]
      <3>1. << >> \in Seq(Clients \X Nat)
        OBVIOUS
      <3> QED
        BY <3>1 DEF Init
    <2>3. fs \in [Paths -> Inodes \cup {None}]
      BY DEF Init
    <2> QED
      BY <2>1, <2>2, <2>3 DEF Init, TypeOK
  <1>2. IdleFresh /\ ServingInOrder /\ FileHeld /\ AnsweredDone
    BY DEF Init, IdleFresh, ServingInOrder, FileHeld, AnsweredDone, Answered
  <1>3. StoredInOrder /\ PostsApart
    BY DEF Init, StoredInOrder, PostsApart
  <1>4. WithinLimit
    BY SizesAssumption DEF Init, WithinLimit
  <1> QED
    BY <1>1, <1>2, <1>3, <1>4 DEF IInv

\* A file that nobody else has open holds what its client has written of it,
\* once the first call has opened it.
LEMMA OpenedPrefix ==
    ASSUME IInv, NEW c \in Clients, NEW o \in Opened(c),
           state[c] = "SERVING",
           \A d \in Clients : d # c => file[d] # o.ino
    PROVE  o.data[o.ino] = Prefix(c, body_size[c])
  <1>1. CASE first_time[c]
    <2>1. body_size[c] = 0
      BY <1>1 DEF IInv, ServingInOrder
    <2>2. o.data[o.ino] = << >>
      BY <1>1, OpenedFacts DEF IInv
    <2>3. Segment(c, 0, 0) = << >>
      BY DEF Segment
    <2> QED
      BY <2>1, <2>2, <2>3 DEF Prefix
  <1>2. CASE ~first_time[c]
    <2>1. o.ino = file[c] /\ o.data = data
      BY <1>2, OpenedFacts DEF IInv
    <2>2. file[c] # None
      BY <1>2 DEF IInv, FileHeld
    <2>3. body_size[c] >= 0
      BY DEF IInv, ServingInOrder
    <2>4. ~Disturbed(c)
      BY <2>1 DEF Disturbed
    <2> QED
      BY <2>1, <2>2, <2>3, <2>4 DEF IInv, StoredInOrder
  <1> QED
    BY <1>1, <1>2

\* What a call writes to the one file it has open keeps every file in order.
LEMMA StoredKept ==
    ASSUME IInv, NEW c \in Clients, NEW o \in Opened(c),
           state[c] = "SERVING",
           file' = [file EXCEPT ![c] = o.ino],
           NEW n \in Int, body_size' = [body_size EXCEPT ![c] = n],
           \A j \in Inodes : j # o.ino => data'[j] = data[j],
           n >= 0 /\ o.data[o.ino] = Prefix(c, body_size[c])
              => data'[o.ino] = Prefix(c, n)
    PROVE  StoredInOrder'
  <1> SUFFICES ASSUME NEW d \in Clients, file'[d] # None, ~Disturbed(d)',
                      body_size'[d] >= 0
               PROVE  data'[file'[d]] = Prefix(d, body_size'[d])
    BY DEF StoredInOrder, Prefix
  <1>1. /\ file \in [Clients -> Inodes \cup {None}]
        /\ body_size \in [Clients -> Int]
    BY DEF IInv, TypeOK
  <1>2. \A e \in Clients : e # d => file'[e] # file'[d]
    BY DEF Disturbed
  <1>3. CASE d = c
    <2>1. file'[d] = o.ino /\ body_size'[d] = n
      BY <1>1, <1>3
    <2>2. \A e \in Clients : e # c => file[e] # o.ino
      BY <1>1, <1>2, <1>3, <2>1
    <2>3. o.data[o.ino] = Prefix(c, body_size[c])
      BY <2>2, OpenedPrefix
    <2> QED
      BY <1>3, <2>1, <2>3
  <1>4. CASE d # c
    <2>1. file'[d] = file[d] /\ body_size'[d] = body_size[d]
      BY <1>1, <1>4
    <2>2. file'[c] = o.ino
      BY <1>1
    <2>3. file[d] # o.ino /\ file[d] \in Inodes
      BY <1>1, <1>2, <1>4, <2>1, <2>2
    <2>4. ~Disturbed(d)
      <3>1. SUFFICES ASSUME NEW e \in Clients \ {d}, file[e] = file[d]
                     PROVE  FALSE
        BY DEF Disturbed
      <3>2. e = c
        BY <1>1, <1>2, <2>1, <3>1
      <3>3. file[c] # None
        BY <2>1, <3>1, <3>2
      <3>4. o.ino = file[c]
        BY <3>3, OpenedFacts DEF IInv, FileHeld
      <3> QED
        BY <2>3, <3>1, <3>2, <3>4
    <2>5. data[file[d]] = Prefix(d, body_size[d])
      BY <2>1, <2>4 DEF IInv, StoredInOrder
    <2> QED
      BY <2>1, <2>3, <2>5
  <1> QED
    BY <1>3, <1>4

\* Nor does it bring two POSTs together.
LEMMA ApartKept ==
    ASSUME IInv, NEW c \in Clients, NEW o \in Opened(c),
           file' = [file EXCEPT ![c] = o.ino], UNCHANGED req
    PROVE  PostsApart'
  <1> SUFFICES ASSUME NEW a \in Clients, NEW b \in Clients, a # b,
                      file'[a] # None, file'[a] = file'[b]
               PROVE  req[a].method = "PUT" \/ req[b].method = "PUT"
    BY DEF PostsApart
  <1>1. /\ file \in [Clients -> Inodes \cup {None}]
        /\ req \in [Clients -> Requests]
    BY DEF IInv, TypeOK
  <1>2. \A d \in Clients : req[d].method \in {"POST", "PUT"}
    BY <1>1, SizesAssumption DEF Valid, Request
  <1>3. CASE ~first_time[c]
    <2>1. o.ino = file[c]
      BY <1>3, OpenedFacts DEF IInv
    <2>2. file' = file
      BY <1>1, <2>1
    <2> QED
      BY <2>2 DEF IInv, PostsApart
  <1>4. CASE first_time[c] /\ req[c].method = "POST"
    <2>1. \A d \in Clients : file[d] # o.ino
      BY <1>4, OpenedFacts DEF IInv
    <2>2. file'[c] = o.ino /\ \A d \in Clients : d # c => file'[d] = file[d]
      BY <1>1
    <2>3. a # c /\ b # c
      BY <2>1, <2>2
    <2> QED
      BY <2>2, <2>3 DEF IInv, PostsApart
  <1>5. CASE req[c].method = "PUT"
    <2>1. CASE a = c \/ b = c
      BY <1>5, <2>1
    <2>2. CASE a # c /\ b # c
      <3>1. file'[a] = file[a] /\ file'[b] = file[b]
        BY <1>1, <2>2
      <3> QED
        BY <3>1 DEF IInv, PostsApart
    <2> QED
      BY <2>1, <2>2
  <1> QED
    BY <1>2, <1>3, <1>4, <1>5

-----------------------------------------------------------------------------
(* One lemma per action. *)

\* A request that arrives with the first bytes of its body.
LEMMA BeginInv ==
    ASSUME IInv, NEW c \in Clients, Begin(c)
    PROVE  IInv'
  <1>1. PICK n \in 0..AtMost(BufferSize, req[c].total) :
           /\ body' = [body EXCEPT ![c] = Segment(c, 0, n)]
           /\ received' = [received EXCEPT ![c] = n]
    BY DEF Begin
  <1>2. n \in Nat
    OBVIOUS
  <1>3. /\ Segment(c, 0, n) \in Seq(Clients \X Nat)
        /\ state[c] = "idle" /\ first_time[c] /\ code[c] = 0 /\ body_size[c] = 0
    <2>1. 0 \in Nat
      OBVIOUS
    <2> QED
      BY <1>2, <2>1, SegmentType DEF Begin, IInv, IdleFresh
  <1>4. TypeOK'
    <2>1. body' \in [Clients -> Seq(Clients \X Nat)]
      BY <1>1, <1>3 DEF IInv, TypeOK
    <2>2. received' \in [Clients -> Nat]
      BY <1>1, <1>2 DEF IInv, TypeOK
    <2>3. state' \in [Clients -> {"idle", "SERVING", "SERVED"}]
      <3>1. PICK v \in {"SERVING", "SERVED"} : state' = [state EXCEPT ![c] = v]
        BY DEF Begin
      <3> QED
        BY <3>1 DEF IInv, TypeOK
    <2>4. code' \in [Clients -> {0, 201, 204, 403, 404, 413, 500}]
      <3>1. code' = code \/ code' = [code EXCEPT ![c] = 413]
        BY DEF Begin
      <3>2. CASE code' = code
        BY <3>2 DEF IInv, TypeOK
      <3>3. CASE code' = [code EXCEPT ![c] = 413]
        BY <3>3 DEF IInv, TypeOK
      <3> QED
        BY <3>1, <3>2, <3>3
    <2> QED
      BY <2>1, <2>2, <2>3, <2>4 DEF Begin, IInv, TypeOK
  <1>5. \A d \in Clients : d # c =>
           /\ state'[d] = state[d] /\ code'[d] = code[d]
           /\ received'[d] = received[d] /\ body'[d] = body[d]
    BY <1>1 DEF Begin, IInv, TypeOK
  <1>6. /\ body'[c] = Segment(c, 0, n) /\ received'[c] = n
        /\ state'[c] # "idle" /\ code'[c] \in {0, 413}
        /\ state'[c] = "SERVING" => ~TooLarge(c) /\ code'[c] = 0
    BY <1>1, <1>3 DEF Begin, IInv, TypeOK
  <1>7. IdleFresh' /\ FileHeld' /\ AnsweredDone'
    BY <1>5, <1>6 DEF Begin, IInv, IdleFresh, FileHeld, AnsweredDone, Answered
  <1>8. ServingInOrder'
    <2> SUFFICES ASSUME NEW d \in Clients, state'[d] = "SERVING"
                 PROVE  /\ code'[d] = 0 /\ ~TooLarge(d)'
                        /\ body_size'[d] \in Nat
                        /\ received'[d] - body_size'[d] \in Nat
                        /\ body'[d] = Segment(d, body_size'[d],
                                              received'[d] - body_size'[d])
                        /\ \/ body_size'[d] = 0
                           \/ ~first_time'[d] /\ body_size'[d] < req'[d].len
      BY DEF ServingInOrder
    <2>1. CASE d = c
      <3>1. body_size'[d] = 0 /\ n - 0 = n /\ TooLarge(d)' = TooLarge(d)
        BY <1>2, <1>3, <2>1 DEF Begin, TooLarge, Declared
      <3> QED
        BY <1>2, <1>6, <2>1, <3>1
    <2>2. CASE d # c
      BY <1>5, <2>2 DEF Begin, IInv, ServingInOrder, TooLarge, Declared
    <2> QED
      BY <2>1, <2>2
  <1>9. StoredInOrder' /\ PostsApart' /\ WithinLimit'
    BY DEF Begin, IInv, StoredInOrder, Disturbed, PostsApart, WithinLimit,
           Declared
  <1> QED
    BY <1>4, <1>7, <1>8, <1>9 DEF IInv

\* A client that is dropped keeps what it has stored.
LEMMA HangupInv ==
    ASSUME IInv, NEW c \in Clients, Hangup(c)
    PROVE  IInv'
  <1>1. state' = [state EXCEPT ![c] = "SERVED"]
    BY DEF Hangup
  <1>2. TypeOK'
    <2>1. state' \in [Clients -> {"idle", "SERVING", "SERVED"}]
      BY <1>1 DEF IInv, TypeOK
    <2> QED
      BY <2>1 DEF Hangup, IInv, TypeOK
  <1>3. state'[c] = "SERVED" /\ \A d \in Clients : d # c => state'[d] = state[d]
    BY <1>1 DEF IInv, TypeOK
  <1>4. IdleFresh' /\ FileHeld' /\ AnsweredDone'
    BY <1>3 DEF Hangup, IInv, IdleFresh, FileHeld, AnsweredDone, Answered
  <1>5. ServingInOrder'
    BY <1>3 DEF Hangup, IInv, ServingInOrder, TooLarge, Declared
  <1>6. StoredInOrder' /\ PostsApart' /\ WithinLimit'
    BY DEF Hangup, IInv, StoredInOrder, Disturbed, PostsApart, WithinLimit,
           Declared
  <1> QED
    BY <1>2, <1>4, <1>5, <1>6 DEF IInv

\* A DELETE takes a name away, not the contents.
LEMMA UnlinkInv ==
    ASSUME IInv, NEW p \in Paths, Unlink(p)
    PROVE  IInv'
  <1>1. TypeOK'
    <2>1. fs' \in [Paths -> Inodes \cup {None}]
      BY DEF Unlink, IInv, TypeOK
    <2> QED
      BY <2>1 DEF Unlink, requestVars, IInv, TypeOK
  <1>2. IdleFresh' /\ FileHeld' /\ AnsweredDone'
    BY DEF Unlink, requestVars, IInv, IdleFresh, FileHeld, AnsweredDone, Answered
  <1>3. ServingInOrder'
    BY DEF Unlink, requestVars, IInv, ServingInOrder, TooLarge, Declared
  <1>4. StoredInOrder' /\ PostsApart' /\ WithinLimit'
    BY DEF Unlink, requestVars, IInv, StoredInOrder, Disturbed, PostsApart,
           WithinLimit, Declared
  <1> QED
    BY <1>1, <1>2, <1>3, <1>4 DEF IInv

\* A file that cannot be opened is never held.
LEMMA CreateFailsInv ==
    ASSUME IInv, NEW c \in Clients, state[c] = "SERVING", CreateFails(c)
    PROVE  IInv'
  <1>1. PICK e \in {403, 404, 500} : code' = [code EXCEPT ![c] = e]
    BY DEF CreateFails
  <1>2. /\ state' = [state EXCEPT ![c] = "SERVED"]
        /\ first_time[c] /\ body_size' = [body_size EXCEPT ![c] = 0]
    BY DEF CreateFails
  <1>3. body_size' = body_size
    <2>1. body_size[c] = 0
      BY <1>2 DEF IInv, ServingInOrder
    <2> QED
      BY <1>2, <2>1 DEF IInv, TypeOK
  <1>4. TypeOK'
    <2>1. state' \in [Clients -> {"idle", "SERVING", "SERVED"}]
      BY <1>2 DEF IInv, TypeOK
    <2>2. code' \in [Clients -> {0, 201, 204, 403, 404, 413, 500}]
      BY <1>1 DEF IInv, TypeOK
    <2> QED
      BY <1>3, <2>1, <2>2 DEF CreateFails, IInv, TypeOK
  <1>5. /\ state'[c] = "SERVED" /\ code'[c] = e
        /\ \A d \in Clients : d # c => state'[d] = state[d] /\ code'[d] = code[d]
    BY <1>1, <1>2 DEF IInv, TypeOK
  <1>6. IdleFresh' /\ FileHeld' /\ AnsweredDone'
    BY <1>3, <1>5 DEF CreateFails, IInv, IdleFresh, FileHeld, AnsweredDone,
                      Answered
  <1>7. ServingInOrder'
    BY <1>3, <1>5 DEF CreateFails, IInv, ServingInOrder, TooLarge, Declared
  <1>8. StoredInOrder' /\ PostsApart' /\ WithinLimit'
    BY <1>3 DEF CreateFails, IInv, StoredInOrder, Disturbed, PostsApart,
                WithinLimit, Declared
  <1> QED
    BY <1>4, <1>6, <1>7, <1>8 DEF IInv

\* An end of the stream only drops the client.
LEMMA EofInv ==
    ASSUME IInv, NEW c \in Clients, ServeEof(c)
    PROVE  IInv'
  <1>1. PICK o \in Opened(c) : OpenFile(c, o) /\ StopReading(c, o)
    BY DEF ServeEof
  <1>2. /\ o.ino \in Inodes /\ o.exist \in BOOLEAN
        /\ o.fs \in [Paths -> Inodes \cup {None}]
        /\ o.data \in [Inodes -> Seq(Bytes)]
        /\ \A j \in Inodes : j # o.ino => o.data[j] = data[j]
    BY OpenedFacts DEF IInv
  <1>3. /\ state[c] = "SERVING" /\ state' = [state EXCEPT ![c] = "SERVED"]
        /\ file' = [file EXCEPT ![c] = o.ino]
        /\ file_exist' = [file_exist EXCEPT ![c] = o.exist]
        /\ first_time' = [first_time EXCEPT ![c] = FALSE]
        /\ fs' = o.fs /\ data' = o.data
        /\ UNCHANGED <<req, body_size, body, received, code>>
    BY <1>1 DEF ServeEof, OpenFile, StopReading
  <1>4. TypeOK'
    <2>1. /\ state' \in [Clients -> {"idle", "SERVING", "SERVED"}]
          /\ file' \in [Clients -> Inodes \cup {None}]
          /\ file_exist' \in [Clients -> BOOLEAN]
          /\ first_time' \in [Clients -> BOOLEAN]
      BY <1>2, <1>3 DEF IInv, TypeOK
    <2> QED
      BY <1>2, <1>3, <2>1 DEF IInv, TypeOK
  <1>5. /\ state'[c] = "SERVED" /\ file'[c] = o.ino /\ ~first_time'[c]
        /\ \A d \in Clients : d # c => /\ state'[d] = state[d]
                                       /\ file'[d] = file[d]
                                       /\ first_time'[d] = first_time[d]
    BY <1>3 DEF IInv, TypeOK
  <1>6. o.ino # None /\ code[c] = 0
    BY <1>2, <1>3, SizesAssumption DEF IInv, ServingInOrder
  <1>7. IdleFresh'
    BY <1>3, <1>5 DEF IInv, IdleFresh
  <1>8. FileHeld' /\ AnsweredDone'
    BY <1>3, <1>5, <1>6 DEF IInv, FileHeld, AnsweredDone, Answered
  <1>9. ServingInOrder'
    BY <1>3, <1>5 DEF IInv, ServingInOrder, TooLarge, Declared
  <1>10. StoredInOrder'
    <2> DEFINE n == body_size[c]
    <2>1. n \in Int /\ body_size' = [body_size EXCEPT ![c] = n]
      BY <1>3 DEF IInv, TypeOK
    <2>2. \A j \in Inodes : j # o.ino => data'[j] = data[j]
      BY <1>2, <1>3
    <2>3. n >= 0 /\ o.data[o.ino] = Prefix(c, body_size[c])
             => data'[o.ino] = Prefix(c, n)
      BY <1>3
    <2> HIDE DEF n
    <2> QED
      BY <1>3, <2>1, <2>2, <2>3, StoredKept
  <1>11. PostsApart'
    BY <1>3, ApartKept
  <1>12. WithinLimit'
    BY <1>3 DEF IInv, WithinLimit, Declared
  <1> QED
    BY <1>4, <1>7, <1>8, <1>9, <1>10, <1>11, <1>12 DEF IInv

\* The buffer of a call is one piece of the client's stream.
LEMMA BufferPiece ==
    ASSUME IInv, NEW c \in Clients, state[c] = "SERVING",
           NEW s \in Arrivals(c)
    PROVE  /\ Len(s) \in Nat
           /\ received[c] + Len(s) - body_size[c] \in Nat
           /\ body[c] \o s = Segment(c, body_size[c],
                                     received[c] + Len(s) - body_size[c])
  <1> DEFINE z == body_size[c]
             r == received[c] - body_size[c]
             n == Len(s)
  <1>1. /\ z \in Nat /\ r \in Nat /\ body[c] = Segment(c, z, r)
        /\ received[c] \in Nat
    BY DEF IInv, TypeOK, ServingInOrder
  <1>2. PICK k \in (IF first_time[c] THEN 0 ELSE 1)
                      ..AtMost(BufferSize, req[c].total - received[c]) :
           s = Segment(c, received[c], k)
    BY DEF Arrivals
  <1>3. k \in Nat
    OBVIOUS
  <1>4. n = k
    BY <1>1, <1>2, <1>3, SegmentType
  <1>5. received[c] = z + r /\ received[c] + n - body_size[c] = r + n
    <2> HIDE DEF n
    <2> QED
      BY <1>1, <1>3, <1>4
  <1> HIDE DEF n, z, r
  <1>6. s = Segment(c, z + r, n)
    BY <1>2, <1>4, <1>5
  <1>7. body[c] \o s = Segment(c, z, r + n)
    <2>1. n \in Nat
      BY <1>3, <1>4
    <2>2. Segment(c, z, r) \o Segment(c, z + r, n) = Segment(c, z, r + n)
      BY <1>1, <2>1, SegmentConcat
    <2> QED
      BY <1>1, <1>6, <2>2, Zenon
  <1> QED
    BY <1>1, <1>3, <1>4, <1>5, <1>7 DEF n, z

\* The last piece completes the body: to the declared byte, and no further.
LEMMA LastPieceFacts ==
    ASSUME NEW c \in Clients, NEW z \in Nat, NEW k \in Nat, NEW len \in Int,
           z = 0 \/ z < len, ~(z + k < len)
    PROVE  /\ SubSeq(Segment(c, z, k), 1, len - z) \in Seq(Clients \X Nat)
           /\ len >= 0 =>
                Write(Prefix(c, z), z, SubSeq(Segment(c, z, k), 1, len - z))
                  = Prefix(c, len)
  <1>1. len - z \in Int /\ len - z <= k
    OBVIOUS
  <1>2. CASE len - z >= 0
    <2> DEFINE m == len - z
    <2>1. m \in Nat /\ z + m = len
      BY <1>2
    <2>2. SubSeq(Segment(c, z, k), 1, m) = Segment(c, z, m)
      BY <1>1, <1>2, SegmentFront
    <2> HIDE DEF m
    <2>3. Segment(c, z, m) \in Seq(Clients \X Nat)
      BY <2>1, SegmentType
    <2>4. Write(Segment(c, 0, z), z, Segment(c, z, m)) = Segment(c, 0, z + m)
      BY <2>1, WritePrefix
    <2> QED
      BY <2>1, <2>2, <2>3, <2>4 DEF m, Prefix
  <1>3. CASE len - z < 0
    <2>1. SubSeq(Segment(c, z, k), 1, len - z) = << >>
      BY <1>1, <1>3, SegmentFront
    <2>2. ~(len >= 0)
      BY <1>3
    <2> QED
      BY <2>1, <2>2
  <1> QED
    BY <1>1, <1>2, <1>3

\* The client's bytes are bytes.
LEMMA PieceOfFile ==
    ASSUME NEW s \in Seq(Clients \X Nat)
    PROVE  s \in Seq(Bytes)
  <1>1. \A i \in 1..Len(s) : s[i] \in Bytes
    BY DEF Bytes
  <1> QED
    BY <1>1

\* A piece of the body is stored behind the ones before it.
LEMMA DataInv ==
    ASSUME IInv, NEW c \in Clients, state[c] = "SERVING",
           NEW o \in Opened(c), NEW s \in Arrivals(c), OpenFile(c, o),
           received' = [received EXCEPT ![c] = @ + Len(s)],
           ParseBody(c, o, body[c] \o s)
    PROVE  IInv'
  <1> DEFINE z == body_size[c]
             b == body[c] \o s
             k == received[c] + Len(s) - z
             ends == BodyEnds(c, b)
             q == IF ends THEN LastPiece(c, b) ELSE b
             n == IF ends THEN req[c].len ELSE z + Len(b)
  <1>1. /\ o.ino \in Inodes /\ o.exist \in BOOLEAN
        /\ o.fs \in [Paths -> Inodes \cup {None}]
        /\ o.data \in [Inodes -> Seq(Bytes)]
        /\ \A j \in Inodes : j # o.ino => o.data[j] = data[j]
    BY OpenedFacts DEF IInv
  <1>2. /\ file' = [file EXCEPT ![c] = o.ino]
        /\ file_exist' = [file_exist EXCEPT ![c] = o.exist]
        /\ first_time' = [first_time EXCEPT ![c] = FALSE]
        /\ fs' = o.fs /\ UNCHANGED req
    BY DEF OpenFile
  <1>3. /\ z \in Nat /\ req[c].len \in Int /\ code[c] = 0 /\ ~TooLarge(c)
        /\ z = 0 \/ z < req[c].len
    BY RequestType DEF IInv, ServingInOrder
  <1>4. /\ k \in Nat /\ b = Segment(c, z, k) /\ received[c] + Len(s) \in Nat
    <2>1. received[c] \in Nat
      BY DEF IInv, TypeOK
    <2> QED
      BY <2>1, BufferPiece
  <1> HIDE DEF z, b, k
  <1>5. b \in Seq(Clients \X Nat) /\ Len(b) = k
    BY <1>3, <1>4, SegmentType
  <1>6. ends <=> ~(z + k < req[c].len)
    BY <1>5 DEF BodyEnds, z
  <1>7. /\ data' = [o.data EXCEPT ![o.ino] = Write(@, z, q)]
        /\ body_size' = [body_size EXCEPT ![c] = n]
        /\ body' = [body EXCEPT ![c] = << >>]
        /\ \/ /\ ends /\ state' = [state EXCEPT ![c] = "SERVED"]
              /\ code' = [code EXCEPT ![c] = FinishCode(o)]
           \/ ~ends /\ UNCHANGED <<state, code>>
    BY DEF ParseBody, RestOfBody, z, b
  <1>8. /\ q \in Seq(Clients \X Nat)
        /\ n \in Int
        /\ n >= 0 => Write(Prefix(c, z), z, q) = Prefix(c, n)
    <2>1. CASE ends
      BY <1>3, <1>4, <1>6, <2>1, LastPieceFacts DEF LastPiece, z
    <2>2. CASE ~ends
      <3>1. Write(Segment(c, 0, z), z, Segment(c, z, k)) = Segment(c, 0, z + k)
        BY <1>3, <1>4, WritePrefix
      <3> QED
        BY <1>3, <1>4, <1>5, <2>2, <3>1 DEF Prefix
    <2> QED
      BY <2>1, <2>2
  <1>9. /\ n = req[c].len \/ (n \in Nat /\ n = z + k /\ n < req[c].len)
        /\ ends <=> n = req[c].len
    BY <1>3, <1>4, <1>5, <1>6
  <1> HIDE DEF q, n, ends
  <1>10. TypeOK'
    <2>1. Write(o.data[o.ino], z, q) \in Seq(Bytes)
      BY <1>1, <1>3, <1>8, PieceOfFile, WriteType
    <2>2. data' \in [Inodes -> Seq(Bytes)]
      BY <1>1, <1>7, <2>1
    <2>3. body_size' \in [Clients -> Int]
      BY <1>7, <1>8 DEF IInv, TypeOK
    <2>4. body' \in [Clients -> Seq(Clients \X Nat)]
      <3>1. << >> \in Seq(Clients \X Nat)
        OBVIOUS
      <3> QED
        BY <1>7, <3>1 DEF IInv, TypeOK
    <2>5. received' \in [Clients -> Nat]
      BY <1>4 DEF IInv, TypeOK
    <2>6. state' \in [Clients -> {"idle", "SERVING", "SERVED"}]
      <3>1. CASE state' = [state EXCEPT ![c] = "SERVED"]
        BY <3>1 DEF IInv, TypeOK
      <3>2. CASE state' = state
        BY <3>2 DEF IInv, TypeOK
      <3> QED
        BY <1>7, <3>1, <3>2
    <2>7. code' \in [Clients -> {0, 201, 204, 403, 404, 413, 500}]
      <3>1. FinishCode(o) \in {201, 204}
        BY DEF FinishCode
      <3>2. CASE code' = [code EXCEPT ![c] = FinishCode(o)]
        BY <3>1, <3>2 DEF IInv, TypeOK
      <3>3. CASE code' = code
        BY <3>3 DEF IInv, TypeOK
      <3> QED
        BY <1>7, <3>2, <3>3
    <2>8. /\ file' \in [Clients -> Inodes \cup {None}]
          /\ file_exist' \in [Clients -> BOOLEAN]
          /\ first_time' \in [Clients -> BOOLEAN]
      BY <1>1, <1>2 DEF IInv, TypeOK
    <2> QED
      BY <1>1, <1>2, <2>2, <2>3, <2>4, <2>5, <2>6, <2>7, <2>8
         DEF IInv, TypeOK
  <1>11. \A d \in Clients : d # c =>
            /\ state'[d] = state[d] /\ code'[d] = code[d] /\ file'[d] = file[d]
            /\ first_time'[d] = first_time[d] /\ body_size'[d] = body_size[d]
            /\ received'[d] = received[d] /\ body'[d] = body[d]
    BY <1>2, <1>7 DEF IInv, TypeOK
  <1>12. /\ file'[c] = o.ino /\ o.ino # None /\ ~first_time'[c]
         /\ body_size'[c] = n /\ received'[c] = z + k /\ body'[c] = << >>
         /\ state'[c] = (IF ends THEN "SERVED" ELSE "SERVING")
         /\ ~ends => code'[c] = 0
    <2>1. o.ino # None
      BY <1>1, SizesAssumption
    <2>2. received'[c] = received[c] + Len(s) /\ received[c] + Len(s) = z + k
      BY <1>3, <1>4 DEF IInv, TypeOK, k
    <2>3. state'[c] = (IF ends THEN "SERVED" ELSE "SERVING")
      BY <1>7 DEF IInv, TypeOK
    <2> QED
      BY <1>2, <1>3, <1>7, <2>1, <2>2, <2>3 DEF IInv, TypeOK
  <1>13. IdleFresh'
    BY <1>11, <1>12 DEF IInv, IdleFresh
  <1>14. FileHeld'
    BY <1>11, <1>12 DEF IInv, FileHeld
  <1>15. AnsweredDone'
    <2> SUFFICES ASSUME NEW d \in Clients, Answered(d)'
                 PROVE  /\ state'[d] = "SERVED" /\ file'[d] # None
                        /\ body_size'[d] = req'[d].len
      BY DEF AnsweredDone
    <2>1. CASE d = c
      <3>1. ends
        BY <1>12, <2>1 DEF Answered
      <3> QED
        BY <1>2, <1>9, <1>12, <2>1, <3>1
    <2>2. CASE d # c
      BY <1>2, <1>11, <2>2 DEF IInv, AnsweredDone, Answered
    <2> QED
      BY <2>1, <2>2
  <1>16. ServingInOrder'
    <2> SUFFICES ASSUME NEW d \in Clients, state'[d] = "SERVING"
                 PROVE  /\ code'[d] = 0 /\ ~TooLarge(d)'
                        /\ body_size'[d] \in Nat
                        /\ received'[d] - body_size'[d] \in Nat
                        /\ body'[d] = Segment(d, body_size'[d],
                                              received'[d] - body_size'[d])
                        /\ \/ body_size'[d] = 0
                           \/ ~first_time'[d] /\ body_size'[d] < req'[d].len
      BY DEF ServingInOrder
    <2>1. CASE d = c
      <3>1. ~ends
        BY <1>12, <2>1
      <3>2. n \in Nat /\ n = z + k /\ n < req[c].len
        BY <1>9, <3>1
      <3>3. Segment(c, n, 0) = << >>
        BY DEF Segment
      <3>4. ~TooLarge(d)'
        BY <1>2, <1>3, <2>1 DEF TooLarge, Declared
      <3> QED
        BY <1>2, <1>12, <2>1, <3>1, <3>2, <3>3, <3>4
    <2>2. CASE d # c
      BY <1>2, <1>11, <2>2 DEF IInv, ServingInOrder, TooLarge, Declared
    <2> QED
      BY <2>1, <2>2
  <1>17. StoredInOrder'
    <2>1. \A j \in Inodes : j # o.ino => data'[j] = data[j]
      BY <1>1, <1>7
    <2>2. data'[o.ino] = Write(o.data[o.ino], z, q)
      BY <1>1, <1>7
    <2>3. n >= 0 /\ o.data[o.ino] = Prefix(c, body_size[c])
             => data'[o.ino] = Prefix(c, n)
      BY <1>8, <2>2 DEF z
    <2> QED
      BY <1>2, <1>7, <1>8, <2>1, <2>3, StoredKept
  <1>18. PostsApart'
    BY <1>2, ApartKept
  <1>19. WithinLimit'
    <2> SUFFICES ASSUME NEW d \in Clients, Declared(req[d])
                 PROVE  body_size'[d] <= MaxBody
      BY <1>2 DEF WithinLimit
    <2>1. CASE d = c
      <3>1. ~(MaxBody < req[c].len)
        BY <1>3, <2>1 DEF TooLarge
      <3> QED
        BY <1>3, <1>8, <1>9, <1>12, <2>1, <3>1, SizesAssumption
    <2>2. CASE d # c
      BY <1>11, <2>2 DEF IInv, WithinLimit
    <2> QED
      BY <2>1, <2>2
  <1> QED
    BY <1>10, <1>13, <1>14, <1>15, <1>16, <1>17, <1>18, <1>19 DEF IInv

-----------------------------------------------------------------------------
\* Every step preserves the invariant.
LEMMA StepInv == IInv /\ [Next]_vars => IInv'
  <1> SUFFICES ASSUME IInv, [Next]_vars PROVE IInv'
    OBVIOUS
  <1>1. ASSUME NEW c \in Clients, Begin(c) PROVE IInv'
    BY <1>1, BeginInv
  <1>2. ASSUME NEW c \in Clients, ServeData(c) PROVE IInv'
    <2>1. state[c] = "SERVING"
      BY <1>2 DEF ServeData
    <2>2. CASE CreateFails(c)
      BY <2>1, <2>2, CreateFailsInv
    <2>3. ASSUME NEW o \in Opened(c), NEW s \in Arrivals(c), OpenFile(c, o),
                 received' = [received EXCEPT ![c] = @ + Len(s)],
                 ParseBody(c, o, body[c] \o s)
          PROVE  IInv'
      BY <2>1, <2>3, DataInv
    <2> QED
      BY <1>2, <2>2, <2>3 DEF ServeData
  <1>3. ASSUME NEW c \in Clients, ServeEof(c) PROVE IInv'
    BY <1>3, EofInv
  <1>4. ASSUME NEW c \in Clients, Hangup(c) PROVE IInv'
    BY <1>4, HangupInv
  <1>5. ASSUME NEW p \in Paths, Unlink(p) PROVE IInv'
    BY <1>5, UnlinkInv
  <1>6. CASE UNCHANGED vars
    <2>1. TypeOK' /\ IdleFresh' /\ ServingInOrder'
      BY <1>6 DEF vars, requestVars, IInv, TypeOK, IdleFresh, ServingInOrder,
                  TooLarge, Declared
    <2>2. FileHeld' /\ AnsweredDone' /\ PostsApart'
      BY <1>6 DEF vars, requestVars, IInv, FileHeld, AnsweredDone, Answered,
                  PostsApart
    <2>3. StoredInOrder' /\ WithinLimit'
      BY <1>6 DEF vars, requestVars, IInv, StoredInOrder, Disturbed,
                  WithinLimit, Declared
    <2> QED
      BY <2>1, <2>2, <2>3 DEF IInv
  <1> QED
    BY <1>1, <1>2, <1>3, <1>4, <1>5, <1>6 DEF Next

\* The invariant holds in every reachable state.
THEOREM Invariance == Spec => []IInv
  <1> QED
    BY InitInv, StepInv, PTL DEF Spec

\* The variables keep their types (Upload!TypeOK).
THEOREM TypeCorrect == Spec => []TypeOK
  <1>1. IInv => TypeOK
    BY DEF IInv
  <1> QED
    BY <1>1, Invariance, PTL

\* However a body is cut into segments, its file holds exactly what was
\* taken of it (upload.tools.cpp:103-120).
THEOREM BodiesStoredInOrder == Spec => []StoredInOrder
  <1>1. IInv => StoredInOrder
    BY DEF IInv
  <1> QED
    BY <1>1, Invariance, PTL

\* A 201 or 204 is only sent when all of the declared body is in the file
\* (upload.tools.cpp:114-119).
THEOREM CompleteWhenAcknowledged == Spec => []AcknowledgedIsComplete
  <1>1. IInv => AcknowledgedIsComplete
    <2> SUFFICES ASSUME IInv, NEW c \in Clients, Answered(c), ~Disturbed(c),
                        req[c].len >= 0
                 PROVE  data[file[c]] = Prefix(c, req[c].len)
      BY DEF AcknowledgedIsComplete
    <2>1. file[c] # None /\ body_size[c] = req[c].len
      BY DEF IInv, AnsweredDone
    <2> QED
      BY <2>1 DEF IInv, StoredInOrder
  <1> QED
    BY <1>1, Invariance, PTL

\* No two POSTs write to one file (upload.tools.cpp:20-37).
THEOREM PostsKeptApart == Spec => []PostsApart
  <1>1. IInv => PostsApart
    BY DEF IInv
  <1> QED
    BY <1>1, Invariance, PTL

\* A declared body never exceeds client_max_body_size on the disk
\* (handlers.methods.cpp:343-384).
THEOREM LimitRespected == Spec => []WithinLimit
  <1>1. IInv => WithinLimit
    BY DEF IInv
  <1> QED
    BY <1>1, Invariance, PTL

-----------------------------------------------------------------------------
(* The uploads, when all of them are POSTs, implement the store of         *)
(* UploadStore: every step of the server is Store(c) or changes nothing    *)
(* that a client was told.                                                 *)

\* A PUT may truncate what another client was told is there.
OnlyPosts == \A r \in Requests : r.method = "POST"

\* The state of the store, as Store of UploadProps defines it.
Want   == [c \in Clients |-> req[c].len]
Doc(c) == IF Answered(c) THEN {data[file[c]]} ELSE {}
Docs   == [c \in Clients |-> Doc(c)]

-----------------------------------------------------------------------------
\* The file a call has open is that of no other client.
LEMMA OwnFile ==
    ASSUME OnlyPosts, IInv, NEW c \in Clients, NEW o \in Opened(c),
           NEW d \in Clients, d # c
    PROVE  file[d] # o.ino
  <1>1. req \in [Clients -> Requests]
    BY DEF IInv, TypeOK
  <1>2. req[c].method = "POST" /\ req[d].method = "POST"
    BY <1>1 DEF OnlyPosts
  <1>3. CASE first_time[c]
    BY <1>2, <1>3, OpenedFacts DEF IInv
  <1>4. CASE ~first_time[c]
    <2>1. o.ino = file[c] /\ file[c] # None
      BY <1>4, OpenedFacts DEF IInv, FileHeld
    <2> QED
      BY <1>2, <2>1 DEF IInv, PostsApart
  <1> QED
    BY <1>3, <1>4

\* What another client was told stays so.
LEMMA OthersKept ==
    ASSUME OnlyPosts, IInv, NEW c \in Clients, NEW o \in Opened(c),
           file' = [file EXCEPT ![c] = o.ino],
           \A j \in Inodes : j # o.ino => data'[j] = data[j],
           NEW d \in Clients, d # c, code'[d] = code[d]
    PROVE  Doc(d)' = Doc(d)
  <1>1. file \in [Clients -> Inodes \cup {None}]
    BY DEF IInv, TypeOK
  <1>2. file'[d] = file[d] /\ file[d] # o.ino
    BY <1>1, OwnFile
  <1>3. Answered(d)' <=> Answered(d)
    BY DEF Answered
  <1>4. CASE Answered(d)
    <2>1. file[d] \in Inodes
      BY <1>1, <1>4 DEF IInv, AnsweredDone
    <2> QED
      BY <1>2, <1>3, <2>1 DEF Doc
  <1>5. CASE ~Answered(d)
    BY <1>3, <1>5 DEF Doc
  <1> QED
    BY <1>4, <1>5

\* No document, and nothing that was told, changes.
LEMMA Stutters ==
    ASSUME UNCHANGED req, \A d \in Clients : Doc(d)' = Doc(d)
    PROVE  UNCHANGED <<Want, Docs>>
  BY DEF Want, Docs

\* A call that leaves the client without an answer of its own.
LEMMA SilentStep ==
    ASSUME OnlyPosts, IInv, NEW c \in Clients, NEW o \in Opened(c), OpenFile(c, o),
           \A j \in Inodes : j # o.ino => data'[j] = data[j],
           UNCHANGED code, code[c] = 0
    PROVE  UNCHANGED <<Want, Docs>>
  <1>1. file' = [file EXCEPT ![c] = o.ino] /\ UNCHANGED req
    BY DEF OpenFile
  <1>2. ASSUME NEW d \in Clients
        PROVE  Doc(d)' = Doc(d)
    <2>1. CASE d = c
      BY <2>1 DEF Doc, Answered
    <2>2. CASE d # c
      BY <1>1, <2>2, OthersKept
    <2> QED
      BY <2>1, <2>2
  <1> QED
    BY <1>1, <1>2, Stutters

\* Where the directory, the contents and the codes of success stay.
LEMMA SameDocs ==
    ASSUME UNCHANGED <<req, file, data>>,
           \A d \in Clients : Answered(d)' <=> Answered(d)
    PROVE  UNCHANGED <<Want, Docs>>
  BY Stutters DEF Doc

-----------------------------------------------------------------------------
\* The piece that ends the body puts the document into the store; any other
\* changes nothing there.
LEMMA DataStep ==
    ASSUME OnlyPosts, IInv, IInv', NEW c \in Clients, state[c] = "SERVING",
           NEW o \in Opened(c), NEW s \in Arrivals(c), OpenFile(c, o),
           ParseBody(c, o, body[c] \o s)
    PROVE  Store!Store(c) \/ UNCHANGED <<Want, Docs>>
  <1> DEFINE z == body_size[c]
             b == body[c] \o s
             k == received[c] + Len(s) - z
  <1>1. /\ o.ino \in Inodes
        /\ o.data \in [Inodes -> Seq(Bytes)]
        /\ \A j \in Inodes : j # o.ino => o.data[j] = data[j]
    BY OpenedFacts DEF IInv
  <1>2. file' = [file EXCEPT ![c] = o.ino] /\ UNCHANGED req
    BY DEF OpenFile
  <1>3. /\ z \in Nat /\ req[c].len \in Int /\ code[c] = 0
        /\ z = 0 \/ z < req[c].len
    BY RequestType DEF IInv, ServingInOrder
  <1>4. k \in Nat /\ b = Segment(c, z, k)
    BY BufferPiece
  <1> HIDE DEF z, b, k
  <1>5. Len(b) = k
    BY <1>3, <1>4, SegmentType
  <1>6. o.data[o.ino] = Prefix(c, z)
    BY OwnFile, OpenedPrefix DEF z
  <1>7. CASE ~BodyEnds(c, b)
    <2>1. UNCHANGED code /\ \A j \in Inodes : j # o.ino => data'[j] = data[j]
      BY <1>1, <1>7 DEF ParseBody, b
    <2> QED
      BY <1>3, <2>1, SilentStep
  <1>8. CASE BodyEnds(c, b)
    <2>1. /\ data' = [o.data EXCEPT ![o.ino] = Write(@, z, LastPiece(c, b))]
          /\ code' = [code EXCEPT ![c] = FinishCode(o)]
      BY <1>8 DEF ParseBody, z, b
    <2>2. ~(z + k < req[c].len)
      BY <1>5, <1>8 DEF BodyEnds, z
    <2>3. /\ code \in [Clients -> {0, 201, 204, 403, 404, 413, 500}]
          /\ file \in [Clients -> Inodes \cup {None}]
      BY DEF IInv, TypeOK
    <2>4. \A d \in Clients : d # c => Doc(d)' = Doc(d)
      <3>1. \A j \in Inodes : j # o.ino => data'[j] = data[j]
        BY <1>1, <2>1
      <3>2. \A d \in Clients : d # c => code'[d] = code[d]
        BY <2>1, <2>3
      <3> QED
        BY <1>2, <3>1, <3>2, OthersKept
    <2>5. Doc(c) = {}
      BY <1>3 DEF Doc, Answered
    <2>6. data'[o.ino] = Prefix(c, req[c].len)
      <3>1. data'[o.ino] = Write(Prefix(c, z), z, SubSeq(Segment(c, z, k), 1, req[c].len - z))
        BY <1>1, <1>4, <1>6, <2>1 DEF LastPiece, z
      <3>2. CASE req[c].len >= 0
        <4>1. ~(z + k < req[c].len)
          BY <2>2
        <4>2. Write(Prefix(c, z), z, SubSeq(Segment(c, z, k), 1, req[c].len - z))
                = Prefix(c, req[c].len)
          BY <1>3, <1>4, <3>2, <4>1, LastPieceFacts, Zenon
        <4> QED
          BY <3>1, <4>2, Zenon
      <3>3. CASE req[c].len < 0
        <4>1. z = 0 /\ req[c].len - z < 0 /\ req[c].len - z \in Int /\ req[c].len - z <= k
          BY <1>3, <1>4, <3>3
        <4>2. SubSeq(Segment(c, z, k), 1, req[c].len - z) = << >>
          BY <1>3, <1>4, <4>1, SegmentFront, ZenonT(60)
        <4>3. data'[o.ino] = Prefix(c, 0)
          BY <3>1, <4>1, <4>2 DEF Write
        <4>4. 1..0 = {} /\ 1..req[c].len = {}
          BY <1>3, <3>3
        <4> QED
          BY <4>3, <4>4 DEF Prefix, Segment
      <3> QED
        BY <1>3, <3>2, <3>3
    <2>7. Doc(c)' = {Prefix(c, req[c].len)}
      <3>1. file'[c] = o.ino /\ code'[c] \in {201, 204}
        BY <1>2, <2>1, <2>3 DEF FinishCode
      <3> QED
        BY <2>6, <3>1 DEF Doc, Answered
    <2>8. Prefix(c, req[c].len) = [i \in 1..req[c].len |-> <<c, i>>]
      BY <1>3 DEF Prefix, Segment
    <2>9. Docs' = [Docs EXCEPT ![c] = {[i \in 1..Want[c] |-> <<c, i>>]}]
      <3>1. Want[c] = req[c].len
        BY DEF Want
      <3> QED
        BY <2>4, <2>7, <2>8, <3>1 DEF Docs
    <2>10. Docs[c] = {} /\ UNCHANGED Want
      BY <1>2, <2>5 DEF Docs, Want
    <2> QED
      BY <2>9, <2>10 DEF Store!Store, Want, Docs, Doc
  <1> QED
    BY <1>7, <1>8

LEMMA StoreStep ==
    ASSUME OnlyPosts, IInv, IInv', [Next]_vars
    PROVE  [Store!Next]_<<Want, Docs>>
  <1>1. code \in [Clients -> {0, 201, 204, 403, 404, 413, 500}]
    BY DEF IInv, TypeOK
  <1>2. ASSUME UNCHANGED <<req, file, data, code>>
        PROVE  UNCHANGED <<Want, Docs>>
    BY <1>2, SameDocs DEF Answered
  <1>3. ASSUME NEW c \in Clients, Begin(c)
        PROVE  UNCHANGED <<Want, Docs>>
    <2>1. code[c] = 0
      BY <1>3 DEF Begin, IInv, IdleFresh
    <2>2. UNCHANGED <<req, file, data>>
      BY <1>3 DEF Begin
    <2>3. CASE code' = code
      BY <1>2, <2>2, <2>3
    <2>4. CASE code' = [code EXCEPT ![c] = 413]
      <3>1. \A d \in Clients : Answered(d)' <=> Answered(d)
        BY <1>1, <2>1, <2>4 DEF Answered
      <3> QED
        BY <2>2, <3>1, SameDocs
    <2> QED
      BY <1>3, <2>3, <2>4 DEF Begin
  <1>4. ASSUME NEW c \in Clients, ServeData(c)
        PROVE  Store!Store(c) \/ UNCHANGED <<Want, Docs>>
    <2>1. state[c] = "SERVING"
      BY <1>4 DEF ServeData
    <2>2. CASE CreateFails(c)
      <3>1. PICK e \in {403, 404, 500} : code' = [code EXCEPT ![c] = e]
        BY <2>2 DEF CreateFails
      <3>2. code[c] = 0
        BY <2>1 DEF IInv, ServingInOrder
      <3>3. UNCHANGED <<req, file, data>>
        BY <2>2 DEF CreateFails
      <3>4. \A d \in Clients : Answered(d)' <=> Answered(d)
        BY <1>1, <3>1, <3>2 DEF Answered
      <3>5. UNCHANGED <<Want, Docs>>
        BY <3>3, <3>4, SameDocs
      <3> QED
        BY <3>5
    <2>3. ASSUME NEW o \in Opened(c), NEW s \in Arrivals(c), OpenFile(c, o),
                 ParseBody(c, o, body[c] \o s)
          PROVE  Store!Store(c) \/ UNCHANGED <<Want, Docs>>
      BY <2>1, <2>3, DataStep
    <2> QED
      BY <1>4, <2>2, <2>3 DEF ServeData
  <1>5. ASSUME NEW c \in Clients, ServeEof(c)
        PROVE  UNCHANGED <<Want, Docs>>
    <2>1. PICK o \in Opened(c) : OpenFile(c, o) /\ StopReading(c, o)
      BY <1>5 DEF ServeEof
    <2>2. \A j \in Inodes : j # o.ino => data'[j] = data[j]
      BY <2>1, OpenedFacts DEF StopReading, IInv
    <2>3. UNCHANGED code /\ code[c] = 0
      BY <1>5, <2>1 DEF ServeEof, StopReading, IInv, ServingInOrder
    <2> QED
      BY <2>1, <2>2, <2>3, SilentStep
  <1>6. ASSUME NEW c \in Clients, Hangup(c)
        PROVE  UNCHANGED <<Want, Docs>>
    BY <1>2, <1>6 DEF Hangup
  <1>7. ASSUME NEW p \in Paths, Unlink(p)
        PROVE  UNCHANGED <<Want, Docs>>
    BY <1>2, <1>7 DEF Unlink, requestVars
  <1>8. CASE UNCHANGED vars
    BY <1>2, <1>8 DEF vars, requestVars
  <1> QED
    BY <1>3, <1>4, <1>5, <1>6, <1>7, <1>8 DEF Next, Store!Next

LEMMA StoreInit ==
    ASSUME Init
    PROVE  Store!Init
  <1>1. IInv
    BY InitInv
  <1>2. \A c \in Clients : req[c].len \in Int
    BY <1>1, RequestType DEF IInv
  <1>3. ASSUME NEW c \in Clients
        PROVE  ~Answered(c)
    <2>1. code = [d \in Clients |-> 0]
      BY DEF Init
    <2>2. code[c] = 0
      BY <2>1
    <2> QED
      BY <2>2 DEF Answered
  <1> QED
    BY <1>2, <1>3 DEF Store!Init

\* POST uploads implement the atomic store: whatever the segments, the other
\* clients and the removals in between, a document comes into being in the
\* one step that acknowledges it, complete, and no later step touches it
\* (upload.tools.cpp:67-120). For any clients, requests and sizes.
THEOREM StoreImplemented ==
    ASSUME OnlyPosts
    PROVE  Spec => StoreSpec
  <1>1. Init => Store!Init
    BY StoreInit
  <1>2. IInv /\ IInv' /\ [Next]_vars => [Store!Next]_<<Want, Docs>>
    BY StoreStep
  <1> QED
    BY <1>1, <1>2, Invariance, PTL DEF Spec, StoreSpec, Store!Spec, Want, Docs, Doc
=============================================================================
