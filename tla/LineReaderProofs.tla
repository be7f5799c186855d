-------------------------- MODULE LineReaderProofs --------------------------
(***************************************************************************)
(* Proofs about LineReader, for every buffer size, every stream and every  *)
(* way to cut it: the types, that the reader gives up a line only when it  *)
(* is too long for the whole buffer, and that the caller gets the lines of *)
(* the stream, in order, each once and whole.                              *)
(***************************************************************************)
EXTENDS LineReader, SequenceTheorems, FiniteSetTheorems, WellFoundedInduction, TLAPS

\* The invariant: a line never is too long for the caller, as it fitted with its
\* newline in a buffer of the same size, and a reader that gave up is not called.
ReaderInv ==
    /\ TypeOK
    /\ result # "tooLong"
    /\ result = "full" => mode = "over"
    /\ GivesUpOnlyWhenFull

-----------------------------------------------------------------------------
(* The operators of take_line. *)

\* Every non-empty set of naturals has a least element.
LEMMA LeastIndex ==
    ASSUME NEW S, S \subseteq Nat, S # {}
    PROVE  \E m \in S : \A n \in S : m <= n
<1> DEFINE R == OpToRel(<, Nat)
<1>1. IsWellFoundedOn(R, Nat)
  BY NatLessThanWellFounded
<1>2. \A m, n \in Nat : <<m, n>> \in R <=> m < n
  BY DEF OpToRel
<1>3. PICK m \in S : \A n \in S : <<n, m>> \notin R
  <2> HIDE DEF R
  <2> QED
    BY <1>1, WFMin, Zenon
<1>4. \A n \in S : ~ (n < m)
  <2> HIDE DEF R
  <2> QED
    BY <1>2, <1>3
<1> QED
  BY <1>4

\* Newline is the index of the first newline, or 0 if the text has none.
LEMMA NewlineFound ==
    ASSUME NEW s \in Seq(Bytes)
    PROVE  /\ Newline(s) \in 0 .. Len(s)
           /\ Newline(s) = 0 => \A i \in 1 .. Len(s) : s[i] # LF
           /\ Newline(s) # 0 => /\ s[Newline(s)] = LF
                                /\ \A i \in 1 .. Newline(s) - 1 : s[i] # LF
<1> DEFINE I == {i \in 1 .. Len(s) : s[i] = LF}
<1>1. Newline(s) = IF I # {} THEN Min(I) ELSE 0
  BY DEF Newline, SelectInSeq
<1>2. ASSUME I # {} PROVE Min(I) \in I /\ \A n \in I : Min(I) <= n
  <2>1. \E m \in I : \A n \in I : m <= n
    <3>1. I \subseteq Nat
      OBVIOUS
    <3> HIDE DEF I
    <3> QED
      BY <1>2, <3>1, LeastIndex
  <2> QED
    BY <2>1 DEF Min
<1>3. Len(s) \in Nat
  OBVIOUS
<1>4. CASE I = {}
  <2>1. Newline(s) = 0
    BY <1>1, <1>4
  <2> QED
    BY <1>3, <1>4, <2>1
<1>5. CASE I # {}
  <2>1. Newline(s) \in I /\ \A n \in I : Newline(s) <= n
    BY <1>1, <1>2, <1>5
  <2>2. \A i \in 1 .. Newline(s) - 1 : i \notin I /\ i \in 1 .. Len(s)
    BY <1>3, <2>1
  <2> QED
    BY <1>3, <2>1, <2>2
<1> QED
  BY <1>4, <1>5

\* A line is shorter than what it is taken from, so it fits in the caller's
\* buffer with its zero, and what stays fits in the connection's buffer.
LEMMA LineFits ==
    ASSUME NEW s \in Seq(Bytes), Len(s) <= BufSize, NEW n \in 1 .. Len(s)
    PROVE  /\ LineAt(s, n) \in Seq(Bytes) /\ Fits(LineAt(s, n))
           /\ Rest(s, n) \in Seq(Bytes) /\ Len(Rest(s, n)) <= BufSize
<1>1. BufSize \in Nat /\ OutSize = BufSize /\ Len(s) \in Nat
  BY ReaderAssumption
<1>2. PICK k \in {n - 2, n - 1} : LineAt(s, n) = SubSeq(s, 1, k) /\ k >= 0
  BY <1>1 DEF LineAt
<1>3. SubSeq(s, 1, k) \in Seq(Bytes) /\ Len(SubSeq(s, 1, k)) = k
  <2>1. \A i \in 1 .. k : i \in 1 .. Len(s) /\ s[i] \in Bytes
    BY <1>1, <1>2
  <2> QED
    BY <1>1, <1>2, <2>1, SubSeqProperties
<1>4. Rest(s, n) \in Seq(Bytes) /\ Len(Rest(s, n)) = Len(s) - n
  <2>1. \A i \in n + 1 .. Len(s) : i \in 1 .. Len(s) /\ s[i] \in Bytes
    BY <1>1
  <2> QED
    BY <1>1, <2>1, SubSeqProperties DEF Rest
<1> QED
  BY <1>1, <1>2, <1>3, <1>4 DEF Fits

-----------------------------------------------------------------------------
(* The invariant. *)

\* take_line on any text that fits in the buffer: never "tooLong", and a result
\* other than a line or nothing is the one of before.
LEMMA TakingKeeps ==
    ASSUME ReaderInv, NEW s \in Seq(Bytes), Len(s) <= BufSize,
           TakeLine(s), mode # "over"
    PROVE  /\ buf' \in Seq(Bytes) /\ Len(buf') <= BufSize
           /\ lines' \in Seq(Seq(Bytes))
           /\ result' \in {"none", "line", "nothing", "closed", "error"}
           /\ mode' \in {"handshake", "mining", "over"}
<1> USE DEF ReaderInv, TypeOK
<1>1. CASE Newline(s) # 0
  <2>1. Newline(s) \in 1 .. Len(s)
    BY <1>1, NewlineFound
  <2>2. /\ LineAt(s, Newline(s)) \in Seq(Bytes) /\ Fits(LineAt(s, Newline(s)))
        /\ Rest(s, Newline(s)) \in Seq(Bytes) /\ Len(Rest(s, Newline(s))) <= BufSize
    BY <2>1, LineFits
  <2>3. HandOut(s, LineAt(s, Newline(s)))
    BY <1>1 DEF TakeLine
  <2>4. lines' = Append(lines, LineAt(s, Newline(s))) /\ buf' = Rest(s, Newline(s))
    BY <2>2, <2>3 DEF HandOut
  <2>5. lines' \in Seq(Seq(Bytes))
    BY <2>2, <2>4, AppendProperties
  <2> QED
    BY <2>2, <2>3, <2>4, <2>5 DEF HandOut
<1>2. CASE Newline(s) = 0
  BY <1>2 DEF TakeLine
<1> QED
  BY <1>1, <1>2

\* What is received goes behind what the buffer holds and fits there.
LEMMA ReceivedFits ==
    ASSUME TypeOK, NEW k \in 1 .. Room, read + k <= Len(stream)
    PROVE  LET s == buf \o SubSeq(stream, read + 1, read + k)
           IN  s \in Seq(Bytes) /\ Len(s) <= BufSize
<1> DEFINE piece == SubSeq(stream, read + 1, read + k)
<1>1. /\ BufSize \in Nat /\ Len(buf) \in Nat /\ Len(stream) \in Nat
      /\ read \in Nat /\ k \in Nat \ {0} /\ k <= BufSize - Len(buf)
      /\ stream \in Seq(Bytes) /\ buf \in Seq(Bytes)
  BY ReaderAssumption DEF TypeOK, Room
<1>2. piece \in Seq(Bytes) /\ Len(piece) = k
  <2>1. \A i \in read + 1 .. read + k : i \in 1 .. Len(stream) /\ stream[i] \in Bytes
    BY <1>1
  <2> QED
    BY <1>1, <2>1, SubSeqProperties
<1>3. buf \o piece \in Seq(Bytes) /\ Len(buf \o piece) = Len(buf) + k
  BY <1>1, <1>2, ConcatProperties
<1> QED
  BY <1>1, <1>3

\* Every step keeps the invariant.
LEMMA ReaderStep == ReaderInv /\ [Next]_vars => ReaderInv'
<1> SUFFICES ASSUME ReaderInv, [Next]_vars PROVE ReaderInv'
  OBVIOUS
<1> USE DEF ReaderInv, GivesUpOnlyWhenFull
<1>0. /\ BufSize \in Nat /\ MaxBytes \in Nat /\ Len(stream) \in Nat
      /\ Len(buf) \in Nat /\ read \in Nat
  BY ReaderAssumption DEF TypeOK
<1>1. CASE PoolSends
  <2>1. PICK c \in Bytes : stream' = Append(stream, c)
    BY <1>1 DEF PoolSends
  <2>2. stream' \in Seq(Bytes) /\ Len(stream') = Len(stream) + 1
    BY <2>1, AppendProperties DEF TypeOK
  <2>3. Len(stream') <= MaxBytes /\ read \in 0 .. Len(stream')
    BY <1>0, <1>1, <2>2 DEF PoolSends, TypeOK
  <2> QED
    BY <1>1, <2>2, <2>3 DEF PoolSends, TypeOK
<1>2. CASE PoolCloses
  BY <1>2 DEF PoolCloses, TypeOK
<1>3. CASE CallTakes
  <2>1. buf \in Seq(Bytes) /\ Len(buf) <= BufSize
    BY DEF TypeOK
  <2>2. TakeLine(buf) /\ mode # "over" /\ UNCHANGED <<stream, closed, read>>
    BY <1>3 DEF CallTakes
  <2>3. /\ buf' \in Seq(Bytes) /\ Len(buf') <= BufSize
        /\ lines' \in Seq(Seq(Bytes))
        /\ result' \in {"none", "line", "nothing", "closed", "error"}
        /\ mode' \in {"handshake", "mining", "over"}
    BY <2>1, <2>2, TakingKeeps
  <2> QED
    BY <2>2, <2>3 DEF TypeOK
<1>4. CASE CallFindsFull
  <2>1. buf \in Seq(Bytes) /\ Len(buf) = BufSize /\ Newline(buf) = 0
    BY <1>0, <1>4 DEF CallFindsFull, Room, Buffered, TypeOK
  <2>2. \A i \in 1 .. BufSize : buf[i] # LF
    BY <2>1, NewlineFound
  <2> QED
    BY <1>4, <2>1, <2>2 DEF CallFindsFull, GiveUp, TypeOK
<1>5. CASE CallReceives
  <2>1. PICK k \in 1 .. Room :
          /\ read + k <= Len(stream) /\ read' = read + k
          /\ TakeLine(buf \o SubSeq(stream, read + 1, read + k))
    BY <1>5 DEF CallReceives
  <2> DEFINE s == buf \o SubSeq(stream, read + 1, read + k)
  <2>2. s \in Seq(Bytes) /\ Len(s) <= BufSize
    BY <2>1, ReceivedFits
  <2>3. TakeLine(s) /\ mode # "over" /\ UNCHANGED <<stream, closed>>
    BY <1>5, <2>1 DEF CallReceives
  <2> HIDE DEF s
  <2>4. /\ buf' \in Seq(Bytes) /\ Len(buf') <= BufSize
        /\ lines' \in Seq(Seq(Bytes))
        /\ result' \in {"none", "line", "nothing", "closed", "error"}
        /\ mode' \in {"handshake", "mining", "over"}
    BY <2>2, <2>3, TakingKeeps
  <2>5. read' \in 0 .. Len(stream')
    BY <1>0, <2>1, <2>3 DEF Room
  <2> QED
    BY <2>3, <2>4, <2>5 DEF TypeOK
<1>6. CASE CallFindsNothing
  BY <1>6 DEF CallFindsNothing, TypeOK
<1>7. CASE CallFindsEnd
  BY <1>7 DEF CallFindsEnd, GiveUp, TypeOK
<1>8. CASE UNCHANGED vars
  BY <1>8 DEF vars, TypeOK
<1> QED
  BY <1>1, <1>2, <1>3, <1>4, <1>5, <1>6, <1>7, <1>8 DEF Next, Call

\* The invariant holds in every behaviour.
THEOREM ReaderInvariant == Spec => []ReaderInv
<1>1. Init => ReaderInv
  <2>1. /\ <<>> \in Seq(Bytes) /\ <<>> \in Seq(Seq(Bytes)) /\ Len(<<>>) = 0
        /\ BufSize \in Nat /\ MaxBytes \in Nat
    BY EmptySeq, ReaderAssumption
  <2>2. Init => TypeOK
    <3>1. Len(<<>>) <= BufSize /\ Len(<<>>) <= MaxBytes /\ 0 \in 0 .. Len(<<>>)
      BY <2>1
    <3> QED
      BY <2>1, <3>1 DEF Init, TypeOK
  <2>3. Init => result = "none"
    BY DEF Init
  <2> QED
    BY <2>2, <2>3 DEF ReaderInv, GivesUpOnlyWhenFull
<1> QED
  BY <1>1, ReaderStep, PTL DEF Spec

\* The buffer is never overrun, for every buffer size and every cut of the
\* stream: what recv is given room for always fits (net_posix.c).
THEOREM ReaderTypes == Spec => []TypeOK
<1>1. ReaderInv => TypeOK
  BY DEF ReaderInv
<1> QED
  BY <1>1, ReaderInvariant, PTL

\* Reading ends for a line only if that line fills the buffer and has no end in
\* it; the caller's limit is never the reason.
THEOREM OnlyLongLinesEndReading == Spec => [](GivesUpOnlyWhenFull /\ result # "tooLong")
<1>1. ReaderInv => GivesUpOnlyWhenFull /\ result # "tooLong"
  BY DEF ReaderInv
<1> QED
  BY <1>1, ReaderInvariant, PTL

-----------------------------------------------------------------------------
(* Framed: the lines of a byte sequence, by the number of its newlines. *)

\* Newlines counts up from zero, one at each newline.
LEMMA NewlinesCount ==
    ASSUME NEW s \in Seq(Bytes)
    PROVE  /\ Newlines(s, 0) = 0
           /\ \A n \in Nat :
                 /\ Newlines(s, n) \in Nat
                 /\ Newlines(s, n + 1) =
                       IF s[n + 1] = LF THEN Newlines(s, n) + 1 ELSE Newlines(s, n)
<1> DEFINE P(n) == {i \in 1 .. n : s[i] = LF}
<1>1. Newlines(s, 0) = 0
  <2>1. P(0) = {}
    OBVIOUS
  <2> QED
    BY <2>1, FS_EmptySet DEF Newlines
<1>2. ASSUME NEW n \in Nat
      PROVE  /\ Newlines(s, n) \in Nat
             /\ Newlines(s, n + 1) =
                   IF s[n + 1] = LF THEN Newlines(s, n) + 1 ELSE Newlines(s, n)
  <2>1. IsFiniteSet(P(n))
    <3>1. IsFiniteSet(1 .. n) /\ P(n) \in SUBSET (1 .. n)
      BY FS_Interval
    <3> QED
      BY <3>1, FS_Subset
  <2>2. CASE s[n + 1] = LF
    <3>1. P(n + 1) = P(n) \cup {n + 1} /\ n + 1 \notin P(n)
      BY <2>2
    <3> HIDE DEF P
    <3>2. Cardinality(P(n + 1)) = Cardinality(P(n)) + 1
      BY <2>1, <3>1, FS_AddElement
    <3> QED
      BY <2>1, <2>2, <3>2, FS_CardinalityType DEF Newlines, P
  <2>3. CASE s[n + 1] # LF
    <3>1. P(n + 1) = P(n)
      BY <2>3
    <3> HIDE DEF P
    <3> QED
      BY <2>1, <2>3, <3>1, FS_CardinalityType DEF Newlines, P
  <2> QED
    BY <2>2, <2>3
<1> QED
  BY <1>1, <1>2

\* The same at one place.
CountsOn(s, n) ==
    Newlines(s, n + 1) = IF s[n + 1] = LF THEN Newlines(s, n) + 1 ELSE Newlines(s, n)

LEMMA NewlinesCountOn ==
    ASSUME NEW s \in Seq(Bytes), NEW n \in Nat
    PROVE  CountsOn(s, n) /\ Newlines(s, n) \in Nat
BY NewlinesCount DEF CountsOn

\* A count that starts at zero and goes up by one at most never goes down, and
\* reaches every number below its value.
LEMMA CountReaches ==
    ASSUME NEW c \in [Nat -> Nat], c[0] = 0,
           \A n \in Nat : c[n + 1] = c[n] \/ c[n + 1] = c[n] + 1
    PROVE  /\ \A m, n \in Nat : m <= n => c[m] <= c[n]
           /\ \A n \in Nat : \A k \in 1 .. c[n] :
                 \E i \in 1 .. n : c[i] = k /\ c[i - 1] = k - 1
<1>1. ASSUME NEW k \in Nat, NEW n \in Nat, c[n] >= k
      PROVE  \E i \in 0 .. n : /\ c[i] >= k
                               /\ \A j \in Nat : c[j] >= k => i <= j
  <2> DEFINE R == {i \in Nat : c[i] >= k}
  <2>1. n \in R /\ R \subseteq Nat
    BY <1>1
  <2>2. PICK i \in R : \A j \in R : i <= j
    <3> HIDE DEF R
    <3> QED
      BY <2>1, LeastIndex
  <2> QED
    BY <1>1, <2>1, <2>2
<1>2. ASSUME NEW m \in Nat, NEW n \in Nat, m <= n, c[n] < c[m] PROVE FALSE
  <2> DEFINE R == {i \in Nat : m <= i /\ c[i] < c[m]}
  <2>1. n \in R /\ R \subseteq Nat
    BY <1>2
  <2>2. PICK i \in R : \A j \in R : i <= j
    <3> HIDE DEF R
    <3> QED
      BY <2>1, LeastIndex
  <2>3. i - 1 \in Nat /\ m <= i - 1 /\ (i - 1) + 1 = i /\ i - 1 \notin R
    BY <2>2
  <2>4. c[(i - 1) + 1] >= c[i - 1]
    BY <2>3
  <2> QED
    BY <2>2, <2>3, <2>4
<1>3. ASSUME NEW n \in Nat, NEW k \in 1 .. c[n]
      PROVE  \E i \in 1 .. n : c[i] = k /\ c[i - 1] = k - 1
  <2>1. PICK i \in 0 .. n : c[i] >= k /\ \A j \in Nat : c[j] >= k => i <= j
    BY <1>1
  <2>2. i # 0 /\ i - 1 \in Nat /\ (i - 1) + 1 = i /\ c[i - 1] < k
    BY <2>1
  <2>3. c[(i - 1) + 1] = c[i - 1] \/ c[(i - 1) + 1] = c[i - 1] + 1
    BY <2>2
  <2> QED
    BY <2>1, <2>2, <2>3
<1> QED
  BY <1>2, <1>3

\* The number of newlines is such a count.
LEMMA NewlinesGrow ==
    ASSUME NEW s \in Seq(Bytes)
    PROVE  /\ \A m, n \in Nat : m <= n => Newlines(s, m) <= Newlines(s, n)
           /\ \A n \in Nat : \A k \in 1 .. Newlines(s, n) :
                 \E i \in 1 .. n : Newlines(s, i) = k /\ Newlines(s, i - 1) = k - 1
<1> DEFINE c == [n \in Nat |-> Newlines(s, n)]
<1>1. c \in [Nat -> Nat] /\ c[0] = 0
  BY NewlinesCount
<1>2. \A n \in Nat : c[n] = Newlines(s, n)
  OBVIOUS
<1>3. ASSUME NEW n \in Nat PROVE c[n + 1] = c[n] \/ c[n + 1] = c[n] + 1
  <2>1. Newlines(s, n + 1) = Newlines(s, n) \/ Newlines(s, n + 1) = Newlines(s, n) + 1
    BY NewlinesCount
  <2>2. n + 1 \in Nat
    OBVIOUS
  <2> QED
    BY <1>2, <2>1, <2>2
<1> HIDE DEF c
<1>4. /\ \A m, n \in Nat : m <= n => c[m] <= c[n]
      /\ \A n \in Nat : \A k \in 1 .. c[n] :
            \E i \in 1 .. n : c[i] = k /\ c[i - 1] = k - 1
  BY <1>1, <1>3, CountReaches
<1>5. ASSUME NEW m \in Nat, NEW n \in Nat, m <= n
      PROVE  Newlines(s, m) <= Newlines(s, n)
  BY <1>2, <1>4, <1>5
<1>6. ASSUME NEW n \in Nat, NEW k \in 1 .. Newlines(s, n)
      PROVE  \E i \in 1 .. n : Newlines(s, i) = k /\ Newlines(s, i - 1) = k - 1
  <2>1. PICK i \in 1 .. n : c[i] = k /\ c[i - 1] = k - 1
    BY <1>2, <1>4
  <2>2. i \in Nat /\ i - 1 \in Nat
    OBVIOUS
  <2> QED
    BY <1>2, <2>1, <2>2
<1> QED
  BY <1>5, <1>6

\* At a newline the count is new.
LEMMA NewlineCounts ==
    ASSUME NEW s \in Seq(Bytes), NEW n \in Nat \ {0}
    PROVE  /\ Newlines(s, n) \in Nat
           /\ s[n] = LF <=> Newlines(s, n) # Newlines(s, n - 1)
           /\ s[n] = LF => /\ Newlines(s, n) # 0
                           /\ \A m \in Nat : m < n => Newlines(s, m) < Newlines(s, n)
<1>1. n - 1 \in Nat /\ n = (n - 1) + 1
  OBVIOUS
<1>2. /\ Newlines(s, n) \in Nat /\ Newlines(s, n - 1) \in Nat
      /\ Newlines(s, (n - 1) + 1) =
            IF s[(n - 1) + 1] = LF THEN Newlines(s, n - 1) + 1 ELSE Newlines(s, n - 1)
  BY <1>1, NewlinesCount
<1>3. ASSUME NEW m \in Nat, m < n, s[n] = LF
      PROVE  Newlines(s, m) < Newlines(s, n)
  <2>1. Newlines(s, m) <= Newlines(s, n - 1) /\ Newlines(s, m) \in Nat
    <3>1. m <= n - 1
      BY <1>3
    <3> QED
      BY <1>1, <3>1, NewlinesGrow, NewlinesCount
  <2> QED
    BY <1>1, <1>2, <1>3, <2>1
<1> QED
  BY <1>1, <1>2, <1>3

\* The k-th newline is the one place where the count reaches k.
LEMMA LineEndIs ==
    ASSUME NEW s \in Seq(Bytes), NEW i \in 1 .. Len(s), s[i] = LF
    PROVE  LineEnd(s, Newlines(s, i)) = i
<1> DEFINE k == Newlines(s, i)
           Q(j) == s[j] = LF /\ Newlines(s, j) = k
<1>0. i \in Nat \ {0} /\ \A j \in 1 .. Len(s) : j \in Nat \ {0}
  OBVIOUS
<1>1. k \in Nat /\ k # 0
  BY <1>0, NewlineCounts
<1>2. \A j \in 1 .. Len(s) : Q(j) => j = i
  <2> SUFFICES ASSUME NEW j \in 1 .. Len(s), Q(j), j # i PROVE FALSE
    OBVIOUS
  <2>1. (j < i \/ i < j) /\ Newlines(s, j) = Newlines(s, i)
    OBVIOUS
  <2>2. j < i => Newlines(s, j) < Newlines(s, i)
    BY <1>0, NewlineCounts
  <2>3. i < j => Newlines(s, i) < Newlines(s, j)
    BY <1>0, NewlineCounts
  <2> QED
    BY <1>1, <2>1, <2>2, <2>3
<1>3. Q(i)
  OBVIOUS
<1>4. (CHOOSE j \in 1 .. Len(s) : Q(j)) = i
  <2> HIDE DEF Q
  <2> QED
    BY <1>2, <1>3
<1> QED
  BY <1>1, <1>4 DEF LineEnd

\* Every count up to the last is reached at a newline.
LEMMA LineEndExists ==
    ASSUME NEW s \in Seq(Bytes), NEW k \in 1 .. Newlines(s, Len(s))
    PROVE  /\ LineEnd(s, k) \in 1 .. Len(s) /\ s[LineEnd(s, k)] = LF
           /\ Newlines(s, LineEnd(s, k)) = k
           /\ LineEnd(s, k - 1) \in 0 .. LineEnd(s, k) - 1
<1>0. Len(s) \in Nat /\ Newlines(s, Len(s)) \in Nat /\ Newlines(s, 0) = 0
  BY NewlinesCount
<1>1. ASSUME NEW n \in 1 .. Newlines(s, Len(s))
      PROVE  /\ LineEnd(s, n) \in 1 .. Len(s) /\ s[LineEnd(s, n)] = LF
             /\ Newlines(s, LineEnd(s, n)) = n
  <2>1. PICK i \in 1 .. Len(s) : Newlines(s, i) = n /\ Newlines(s, i - 1) = n - 1
    BY <1>0, NewlinesGrow
  <2>2. s[i] = LF
    <3>1. i \in Nat \ {0} /\ n # n - 1
      BY <1>0
    <3> QED
      BY <2>1, <3>1, NewlineCounts
  <2> QED
    BY <2>1, <2>2, LineEndIs
<1>2. LineEnd(s, k - 1) \in 0 .. LineEnd(s, k) - 1
  <2>1. CASE k = 1
    BY <1>0, <1>1, <2>1 DEF LineEnd
  <2>2. CASE k # 1
    <3> DEFINE a == LineEnd(s, k - 1)
               b == LineEnd(s, k)
    <3>1. k - 1 \in 1 .. Newlines(s, Len(s)) /\ k \in Nat
      BY <1>0, <2>2
    <3>2. /\ a \in 1 .. Len(s) /\ Newlines(s, a) = k - 1
          /\ b \in 1 .. Len(s) /\ Newlines(s, b) = k
      BY <1>1, <3>1
    <3>3. a \in Nat /\ b \in Nat
      BY <1>0, <3>2
    <3> HIDE DEF a, b
    <3>4. b <= a => Newlines(s, b) <= Newlines(s, a)
      BY <3>3, NewlinesGrow
    <3>5. ~ (b <= a)
      BY <3>1, <3>2, <3>4
    <3>6. a \in 0 .. b - 1
      BY <3>3, <3>5
    <3> QED
      BY <3>6 DEF a, b
  <2> QED
    BY <2>1, <2>2
<1> QED
  BY <1>1, <1>2

\* The newlines of a text that ends where c does and goes on with b.
LEMMA NewlinesOfConcat ==
    ASSUME NEW c \in Seq(Bytes), NEW b \in Seq(Bytes)
    PROVE  /\ \A n \in 0 .. Len(c) : Newlines(c \o b, n) = Newlines(c, n)
           /\ \A n \in 0 .. Len(b) :
                 Newlines(c \o b, Len(c) + n) = Newlines(c, Len(c)) + Newlines(b, n)
<1> DEFINE s == c \o b
           C == Len(c)
<1>1. /\ s \in Seq(Bytes) /\ Len(s) = C + Len(b) /\ C \in Nat /\ Len(b) \in Nat
      /\ \A i \in 1 .. C + Len(b) : s[i] = IF i <= C THEN c[i] ELSE b[i - C]
  BY ConcatProperties
<1> HIDE DEF s, C
<1>2. ASSUME NEW n \in 0 .. C PROVE Newlines(s, n) = Newlines(c, n)
  <2>1. {i \in 1 .. n : s[i] = LF} = {i \in 1 .. n : c[i] = LF}
    BY <1>1
  <2> QED
    BY <2>1 DEF Newlines
<1>3. ASSUME NEW n \in Nat, n + 1 <= Len(b),
             Newlines(s, C + n) = Newlines(c, C) + Newlines(b, n)
      PROVE  Newlines(s, C + (n + 1)) = Newlines(c, C) + Newlines(b, n + 1)
  <2>1. s[(C + n) + 1] = b[n + 1] /\ C + n \in Nat /\ C + (n + 1) = (C + n) + 1
    BY <1>1, <1>3
  <2>2. /\ Newlines(c, C) \in Nat /\ Newlines(b, n) \in Nat
        /\ Newlines(s, (C + n) + 1) =
              IF b[n + 1] = LF THEN Newlines(s, C + n) + 1 ELSE Newlines(s, C + n)
        /\ Newlines(b, n + 1) =
              IF b[n + 1] = LF THEN Newlines(b, n) + 1 ELSE Newlines(b, n)
    <3>1. Newlines(c, C) \in Nat
      BY <1>1, NewlinesCountOn
    <3>2. CountsOn(b, n) /\ Newlines(b, n) \in Nat
      BY <1>3, NewlinesCountOn
    <3> DEFINE p == C + n
    <3>3. p \in Nat /\ s[p + 1] = b[n + 1]
      BY <2>1
    <3> HIDE DEF p
    <3>4. CountsOn(s, p)
      BY <1>1, <3>3, NewlinesCountOn
    <3>5. Newlines(s, p + 1) = IF b[n + 1] = LF THEN Newlines(s, p) + 1 ELSE Newlines(s, p)
      BY <3>3, <3>4 DEF CountsOn
    <3> QED
      BY <3>1, <3>2, <3>5 DEF p, CountsOn
  <2> QED
    BY <1>3, <2>1, <2>2
<1>4. Newlines(s, C + 0) = Newlines(c, C) + Newlines(b, 0)
  <2>1. C + 0 = C /\ C \in 0 .. C
    BY <1>1
  <2>2. Newlines(c, C) \in Nat /\ Newlines(b, 0) = 0
    BY <1>1, NewlinesCount
  <2> QED
    BY <1>2, <2>1, <2>2
<1>5. \A n \in 0 .. Len(b) : Newlines(s, C + n) = Newlines(c, C) + Newlines(b, n)
  <2> DEFINE Bad == {n \in 0 .. Len(b) :
                        Newlines(s, C + n) # Newlines(c, C) + Newlines(b, n)}
  <2> SUFFICES ASSUME Bad # {} PROVE FALSE
    OBVIOUS
  <2>1. PICK n \in Bad : \A m \in Bad : n <= m
    <3>1. Bad \subseteq Nat
      OBVIOUS
    <3> HIDE DEF Bad
    <3> QED
      BY <3>1, LeastIndex
  <2>2. n # 0
    BY <1>4, <2>1
  <2>3. /\ n - 1 \in Nat /\ (n - 1) + 1 = n /\ (n - 1) + 1 <= Len(b)
        /\ n - 1 \in 0 .. Len(b) /\ n - 1 \notin Bad
    BY <1>1, <2>1, <2>2
  <2>4. Newlines(s, C + (n - 1)) = Newlines(c, C) + Newlines(b, n - 1)
    BY <2>3
  <2>5. Newlines(s, C + ((n - 1) + 1)) = Newlines(c, C) + Newlines(b, (n - 1) + 1)
    BY <1>3, <2>3, <2>4
  <2>6. n \notin Bad
    BY <2>3, <2>5
  <2> QED
    BY <2>1, <2>6
<1> QED
  BY <1>2, <1>5 DEF s, C

\* The ends of its lines: those of c, then those of b behind them.
LEMMA LineEndsOfConcat ==
    ASSUME NEW c \in Seq(Bytes), NEW b \in Seq(Bytes)
    PROVE  LET C == Newlines(c, Len(c))
               B == Newlines(b, Len(b))
           IN  /\ C \in Nat /\ B \in Nat /\ Newlines(c \o b, Len(c \o b)) = C + B
               /\ \A k \in 1 .. C : LineEnd(c \o b, k) = LineEnd(c, k)
               /\ \A k \in 1 .. B : LineEnd(c \o b, C + k) = Len(c) + LineEnd(b, k)
<1> DEFINE s == c \o b
           C == Newlines(c, Len(c))
           B == Newlines(b, Len(b))
<1>1. /\ s \in Seq(Bytes) /\ Len(s) = Len(c) + Len(b) /\ Len(c) \in Nat /\ Len(b) \in Nat
      /\ \A i \in 1 .. Len(c) + Len(b) : s[i] = IF i <= Len(c) THEN c[i] ELSE b[i - Len(c)]
  BY ConcatProperties
<1>2. C \in Nat /\ B \in Nat
  BY <1>1, NewlinesCount
<1>3. /\ \A n \in 0 .. Len(c) : Newlines(s, n) = Newlines(c, n)
      /\ \A n \in 0 .. Len(b) : Newlines(s, Len(c) + n) = C + Newlines(b, n)
  BY NewlinesOfConcat
<1> HIDE DEF s, C, B
<1>4. Newlines(s, Len(s)) = C + B
  <2>1. Len(b) \in 0 .. Len(b)
    BY <1>1
  <2> QED
    BY <1>1, <1>3, <2>1 DEF B
<1>5. ASSUME NEW k \in 1 .. C PROVE LineEnd(s, k) = LineEnd(c, k)
  <2> DEFINE i == LineEnd(c, k)
  <2>1. i \in 1 .. Len(c) /\ c[i] = LF /\ Newlines(c, i) = k
    BY LineEndExists DEF C
  <2> HIDE DEF i
  <2>2. i \in 1 .. Len(s) /\ s[i] = LF /\ Newlines(s, i) = k
    BY <1>1, <1>3, <2>1
  <2> QED
    BY <1>1, <2>2, LineEndIs DEF i
<1>6. ASSUME NEW k \in 1 .. B PROVE LineEnd(s, C + k) = Len(c) + LineEnd(b, k)
  <2> DEFINE i == LineEnd(b, k)
  <2>1. i \in 1 .. Len(b) /\ b[i] = LF /\ Newlines(b, i) = k
    BY LineEndExists DEF B
  <2> HIDE DEF i
  <2>2. Len(c) + i \in 1 .. Len(s) /\ s[Len(c) + i] = LF /\ i \in 0 .. Len(b)
    BY <1>1, <2>1
  <2>3. Newlines(s, Len(c) + i) = C + k
    BY <1>3, <2>1, <2>2
  <2>4. LineEnd(s, C + k) = Len(c) + i
    BY <1>1, <2>2, <2>3, LineEndIs
  <2> QED
    BY <2>4 DEF i
<1> QED
  BY <1>2, <1>4, <1>5, <1>6 DEF s, C, B

\* Texts that agree between two places have the same piece there.
LEMMA SamePiece ==
    ASSUME NEW s, NEW t, NEW m \in Int, NEW n \in Int,
           \A i \in m .. n : s[i] = t[i] /\ t[i] \in Bytes
    PROVE  SubSeq(s, m, n) = SubSeq(t, m, n)
<1>1. /\ SubSeq(s, m, n) \in Seq(Bytes) /\ SubSeq(t, m, n) \in Seq(Bytes)
      /\ Len(SubSeq(s, m, n)) = IF m <= n THEN n - m + 1 ELSE 0
      /\ Len(SubSeq(t, m, n)) = IF m <= n THEN n - m + 1 ELSE 0
      /\ \A i \in 1 .. n - m + 1 : /\ SubSeq(s, m, n)[i] = s[m + i - 1]
                                   /\ SubSeq(t, m, n)[i] = t[m + i - 1]
  BY SubSeqProperties
<1>2. ASSUME NEW i \in 1 .. Len(SubSeq(s, m, n))
      PROVE  SubSeq(s, m, n)[i] = SubSeq(t, m, n)[i]
  <2>1. i \in 1 .. n - m + 1 /\ m + i - 1 \in m .. n
    BY <1>1
  <2> QED
    BY <1>1, <2>1
<1> QED
  BY <1>1, <1>2, SeqEqual

\* What lies between two places of c, or of b, lies between the same two of c \o b.
LEMMA PiecesOfConcat ==
    ASSUME NEW c \in Seq(Bytes), NEW b \in Seq(Bytes)
    PROVE  /\ \A i \in 0 .. Len(c) : \A j \in 1 .. Len(c) :
                 SubSeq(c \o b, i + 1, j - 1) = SubSeq(c, i + 1, j - 1)
           /\ \A i \in 0 .. Len(b) : \A j \in 1 .. Len(b) :
                 SubSeq(c \o b, (Len(c) + i) + 1, (Len(c) + j) - 1) = SubSeq(b, i + 1, j - 1)
<1> DEFINE s == c \o b
<1>1. /\ s \in Seq(Bytes) /\ Len(s) = Len(c) + Len(b) /\ Len(c) \in Nat /\ Len(b) \in Nat
      /\ \A i \in 1 .. Len(c) + Len(b) : s[i] = IF i <= Len(c) THEN c[i] ELSE b[i - Len(c)]
      /\ \A i \in 1 .. Len(c) : c[i] \in Bytes
      /\ \A i \in 1 .. Len(b) : b[i] \in Bytes
  BY ConcatProperties
<1> HIDE DEF s
<1>2. ASSUME NEW i \in 0 .. Len(c), NEW j \in 1 .. Len(c)
      PROVE  SubSeq(s, i + 1, j - 1) = SubSeq(c, i + 1, j - 1)
  <2>1. /\ i + 1 \in Int /\ j - 1 \in Int
        /\ \A m \in i + 1 .. j - 1 : s[m] = c[m] /\ c[m] \in Bytes
    BY <1>1
  <2> QED
    BY <2>1, SamePiece
<1>3. ASSUME NEW i \in 0 .. Len(b), NEW j \in 1 .. Len(b)
      PROVE  SubSeq(s, (Len(c) + i) + 1, (Len(c) + j) - 1) = SubSeq(b, i + 1, j - 1)
  <2> DEFINE p == (Len(c) + i) + 1
             q == (Len(c) + j) - 1
  <2>1. /\ i + 1 \in Int /\ j - 1 \in Int /\ p \in Int /\ q \in Int
        /\ \A m \in i + 1 .. j - 1 : b[m] \in Bytes
        /\ \A m \in p .. q : s[m] = b[m - Len(c)] /\ s[m] \in Bytes
        /\ q - p = (j - 1) - (i + 1)
    BY <1>1
  <2>2. p <= q <=> i + 1 <= j - 1
    BY <1>1
  <2>3. \A m \in Int : p + m - 1 - Len(c) = (i + 1) + m - 1
    BY <1>1
  <2> HIDE DEF p, q
  <2>4. /\ SubSeq(s, p, q) \in Seq(Bytes)
        /\ SubSeq(b, i + 1, j - 1) \in Seq(Bytes)
        /\ Len(SubSeq(s, p, q)) = IF p <= q THEN q - p + 1 ELSE 0
        /\ Len(SubSeq(b, i + 1, j - 1)) =
              IF i + 1 <= j - 1 THEN (j - 1) - (i + 1) + 1 ELSE 0
        /\ \A m \in 1 .. q - p + 1 : SubSeq(s, p, q)[m] = s[p + m - 1]
        /\ \A m \in 1 .. (j - 1) - (i + 1) + 1 :
              SubSeq(b, i + 1, j - 1)[m] = b[(i + 1) + m - 1]
    BY <2>1, SubSeqProperties
  <2>5. Len(SubSeq(s, p, q)) = Len(SubSeq(b, i + 1, j - 1))
    BY <2>1, <2>2, <2>4
  <2>6. ASSUME NEW m \in 1 .. Len(SubSeq(s, p, q))
        PROVE  SubSeq(s, p, q)[m] = SubSeq(b, i + 1, j - 1)[m]
    <3>1. m \in 1 .. q - p + 1 /\ p + m - 1 \in p .. q /\ m \in Int
      BY <2>1, <2>4
    <3>2. s[p + m - 1] = b[(p + m - 1) - Len(c)]
      BY <2>1, <3>1
    <3>3. (p + m - 1) - Len(c) = (i + 1) + m - 1
      BY <1>1, <2>1, <2>3, <3>1 DEF p
    <3> QED
      BY <2>1, <2>4, <3>1, <3>2, <3>3
  <2> QED
    BY <2>4, <2>5, <2>6, SeqEqual DEF p, q
<1> QED
  BY <1>2, <1>3 DEF s

\* Framed gives a text for every newline.
LEMMA FramedIs ==
    ASSUME NEW s \in Seq(Bytes)
    PROVE  /\ Framed(s) \in Seq(Seq(Bytes)) /\ Len(Framed(s)) = Newlines(s, Len(s))
           /\ \A k \in 1 .. Newlines(s, Len(s)) :
                 Framed(s)[k] =
                    Stripped(SubSeq(s, LineEnd(s, k - 1) + 1, LineEnd(s, k) - 1))
<1> DEFINE N == Newlines(s, Len(s))
           L(k) == Stripped(SubSeq(s, LineEnd(s, k - 1) + 1, LineEnd(s, k) - 1))
<1>1. N \in Nat /\ Len(s) \in Nat
  BY NewlinesCount
<1>2. ASSUME NEW k \in 1 .. N PROVE L(k) \in Seq(Bytes)
  <2> DEFINE raw == SubSeq(s, LineEnd(s, k - 1) + 1, LineEnd(s, k) - 1)
  <2>1. /\ LineEnd(s, k) \in 1 .. Len(s)
        /\ LineEnd(s, k - 1) \in 0 .. LineEnd(s, k) - 1
    BY LineEndExists
  <2>2. raw \in Seq(Bytes)
    <3> DEFINE p == LineEnd(s, k - 1) + 1
               q == LineEnd(s, k) - 1
    <3>1. p \in Int /\ q \in Int /\ \A i \in p .. q : s[i] \in Bytes
      BY <1>1, <2>1
    <3> HIDE DEF p, q
    <3>2. SubSeq(s, p, q) \in Seq(Bytes)
      BY <3>1, SubSeqProperties
    <3> QED
      BY <3>2 DEF p, q
  <2> HIDE DEF raw
  <2>3. Front(raw) \in Seq(Bytes)
    <3>1. /\ 1 \in Int /\ Len(raw) - 1 \in Int
          /\ \A i \in 1 .. Len(raw) - 1 : raw[i] \in Bytes
      BY <2>2
    <3> QED
      BY <3>1, SubSeqProperties DEF Front
  <2> QED
    BY <2>2, <2>3 DEF raw, Stripped
<1> HIDE DEF N, L
<1>3. Framed(s) = [k \in 1 .. N |-> L(k)]
  BY DEF Framed, N, L
<1>4. [k \in 1 .. N |-> L(k)] \in Seq(Seq(Bytes))
  BY <1>1, <1>2, IsASeq
<1>5. Len(Framed(s)) = N
  BY <1>1, <1>3
<1> QED
  BY <1>3, <1>4, <1>5 DEF N, L

\* The lines of a text made of whole lines, c, and of what follows them, b, are
\* the lines of c and those of b.
LEMMA FramedConcat ==
    ASSUME NEW c \in Seq(Bytes), NEW b \in Seq(Bytes), c = <<>> \/ c[Len(c)] = LF
    PROVE  Framed(c \o b) = Framed(c) \o Framed(b)
<1> DEFINE s == c \o b
           C == Newlines(c, Len(c))
           B == Newlines(b, Len(b))
<1>1. /\ s \in Seq(Bytes) /\ Len(c) \in Nat /\ Len(b) \in Nat
      /\ C \in Nat /\ B \in Nat /\ Newlines(s, Len(s)) = C + B
      /\ \A k \in 1 .. C : LineEnd(s, k) = LineEnd(c, k)
      /\ \A k \in 1 .. B : LineEnd(s, C + k) = Len(c) + LineEnd(b, k)
  BY LineEndsOfConcat, ConcatProperties
<1>2. /\ Framed(s) \in Seq(Seq(Bytes)) /\ Len(Framed(s)) = C + B
      /\ \A k \in 1 .. C + B :
            Framed(s)[k] = Stripped(SubSeq(s, LineEnd(s, k - 1) + 1, LineEnd(s, k) - 1))
  BY <1>1, FramedIs
<1>3. /\ Framed(c) \in Seq(Seq(Bytes)) /\ Len(Framed(c)) = C
      /\ \A k \in 1 .. C :
            Framed(c)[k] = Stripped(SubSeq(c, LineEnd(c, k - 1) + 1, LineEnd(c, k) - 1))
      /\ Framed(b) \in Seq(Seq(Bytes)) /\ Len(Framed(b)) = B
      /\ \A k \in 1 .. B :
            Framed(b)[k] = Stripped(SubSeq(b, LineEnd(b, k - 1) + 1, LineEnd(b, k) - 1))
  BY FramedIs
<1>4. LineEnd(s, C) = Len(c)
  <2>1. CASE c = <<>>
    BY <2>1, NewlinesCount DEF LineEnd
  <2>2. CASE c # <<>>
    <3>1. Len(c) \in 1 .. Len(c) /\ Len(c) \in Nat \ {0} /\ c[Len(c)] = LF
      BY <1>1, <2>2, EmptySeq
    <3>2. LineEnd(c, C) = Len(c) /\ C # 0
      BY <3>1, LineEndIs, NewlineCounts
    <3> QED
      BY <1>1, <3>2
  <2> QED
    BY <2>1, <2>2
<1> HIDE DEF s, C, B
<1>5. ASSUME NEW k \in 1 .. C PROVE Framed(s)[k] = Framed(c)[k]
  <2>1. LineEnd(s, k) = LineEnd(c, k) /\ LineEnd(s, k - 1) = LineEnd(c, k - 1)
    <3>1. k - 1 = 0 \/ k - 1 \in 1 .. C
      BY <1>1
    <3>2. LineEnd(s, 0) = 0 /\ LineEnd(c, 0) = 0
      BY DEF LineEnd
    <3> QED
      BY <1>1, <3>1, <3>2
  <2>2. LineEnd(c, k) \in 1 .. Len(c) /\ LineEnd(c, k - 1) \in 0 .. Len(c)
    <3>1. LineEnd(c, k) \in 1 .. Len(c) /\ LineEnd(c, k - 1) \in 0 .. LineEnd(c, k) - 1
      BY LineEndExists DEF C
    <3> QED
      BY <1>1, <3>1
  <2>3. SubSeq(s, LineEnd(c, k - 1) + 1, LineEnd(c, k) - 1)
           = SubSeq(c, LineEnd(c, k - 1) + 1, LineEnd(c, k) - 1)
    BY <2>2, PiecesOfConcat DEF s
  <2>4. k \in 1 .. C + B
    BY <1>1
  <2> QED
    BY <1>2, <1>3, <2>1, <2>3, <2>4
<1>6. ASSUME NEW k \in 1 .. B PROVE Framed(s)[C + k] = Framed(b)[k]
  <2>1. LineEnd(s, C + k) = Len(c) + LineEnd(b, k)
    BY <1>1
  <2>2. LineEnd(s, (C + k) - 1) = Len(c) + LineEnd(b, k - 1)
    <3>1. CASE k = 1
      <4>1. (C + k) - 1 = C /\ LineEnd(b, k - 1) = 0
        BY <1>1, <3>1 DEF LineEnd
      <4> QED
        BY <1>1, <1>4, <4>1
    <3>2. CASE k # 1
      <4>1. (C + k) - 1 = C + (k - 1) /\ k - 1 \in 1 .. B
        BY <1>1, <3>2
      <4> QED
        BY <1>1, <4>1
    <3> QED
      BY <3>1, <3>2
  <2>3. LineEnd(b, k) \in 1 .. Len(b) /\ LineEnd(b, k - 1) \in 0 .. Len(b)
    <3>1. LineEnd(b, k) \in 1 .. Len(b) /\ LineEnd(b, k - 1) \in 0 .. LineEnd(b, k) - 1
      BY LineEndExists DEF B
    <3> QED
      BY <1>1, <3>1
  <2>4. SubSeq(s, (Len(c) + LineEnd(b, k - 1)) + 1, (Len(c) + LineEnd(b, k)) - 1)
           = SubSeq(b, LineEnd(b, k - 1) + 1, LineEnd(b, k) - 1)
    BY <2>3, PiecesOfConcat DEF s
  <2>5. C + k \in 1 .. C + B
    BY <1>1
  <2> QED
    BY <1>2, <1>3, <2>1, <2>2, <2>4, <2>5
<1> DEFINE F == Framed(c) \o Framed(b)
<1>7. /\ F \in Seq(Seq(Bytes)) /\ Len(F) = C + B
      /\ \A k \in 1 .. C + B : F[k] = IF k <= C THEN Framed(c)[k] ELSE Framed(b)[k - C]
  BY <1>3, ConcatProperties
<1> HIDE DEF F
<1>8. ASSUME NEW k \in 1 .. Len(Framed(s)) PROVE Framed(s)[k] = F[k]
  <2>1. CASE k <= C
    <3>1. k \in 1 .. C /\ k \in 1 .. C + B
      BY <1>1, <1>2, <2>1
    <3> QED
      BY <1>5, <1>7, <2>1, <3>1
  <2>2. CASE ~ (k <= C)
    <3>1. k - C \in 1 .. B /\ C + (k - C) = k
      BY <1>1, <1>2, <2>2
    <3>2. Framed(s)[k] = Framed(b)[k - C]
      BY <1>6, <3>1
    <3> QED
      BY <1>2, <1>7, <2>2, <3>2
  <2> QED
    BY <2>1, <2>2
<1> QED
  BY <1>2, <1>7, <1>8, SeqEqual DEF s, F

\* A text whose only newline is its last byte is one line, the one take_line cuts.
LEMMA FramedOne ==
    ASSUME NEW s \in Seq(Bytes), NEW n \in 1 .. Len(s), s[n] = LF,
           \A i \in 1 .. n - 1 : s[i] # LF
    PROVE  Framed(SubSeq(s, 1, n)) = <<LineAt(s, n)>>
<1> DEFINE t == SubSeq(s, 1, n)
<1>1. /\ t \in Seq(Bytes) /\ Len(t) = n /\ n \in Nat \ {0} /\ Len(s) \in Nat
      /\ \A i \in 1 .. n : t[i] = s[i] /\ s[i] \in Bytes
  <2>1. \A i \in 1 .. n : s[i] \in Bytes
    OBVIOUS
  <2>2. n \in Nat \ {0} /\ 1 \in Int /\ n \in Int
    OBVIOUS
  <2>3. /\ t \in Seq(Bytes) /\ Len(t) = IF 1 <= n THEN n - 1 + 1 ELSE 0
        /\ \A i \in 1 .. n - 1 + 1 : t[i] = s[1 + i - 1]
    BY <2>1, <2>2, SubSeqProperties
  <2> QED
    BY <2>1, <2>2, <2>3
<1> HIDE DEF t
<1>2. Newlines(t, n) = 1 /\ LineEnd(t, 1) = n
  <2>1. {i \in 1 .. n : t[i] = LF} = {n}
    BY <1>1
  <2>2. Newlines(t, n) = 1
    BY <2>1, FS_Singleton DEF Newlines
  <2>3. n \in 1 .. Len(t) /\ t[n] = LF
    BY <1>1
  <2> QED
    BY <1>1, <2>2, <2>3, LineEndIs
<1> DEFINE raw == SubSeq(s, 1, n - 1)
<1>3. /\ Framed(t) \in Seq(Seq(Bytes)) /\ Len(Framed(t)) = 1
      /\ Framed(t)[1] = Stripped(raw)
  <2>1. /\ Framed(t) \in Seq(Seq(Bytes)) /\ Len(Framed(t)) = 1
        /\ Framed(t)[1] = Stripped(SubSeq(t, LineEnd(t, 1 - 1) + 1, LineEnd(t, 1) - 1))
    <3>1. 1 \in 1 .. Newlines(t, Len(t)) /\ Newlines(t, Len(t)) = 1
      BY <1>1, <1>2
    <3> QED
      BY <1>1, <3>1, FramedIs
  <2>2. LineEnd(t, 1 - 1) + 1 = 1
    BY DEF LineEnd
  <2>3. SubSeq(t, 1, n - 1) = raw
    <3>1. /\ 1 \in Int /\ n - 1 \in Int
          /\ \A i \in 1 .. n - 1 : t[i] = s[i] /\ s[i] \in Bytes
      BY <1>1
    <3> QED
      BY <3>1, SamePiece
  <2> QED
    BY <1>2, <2>1, <2>2, <2>3
<1>4. /\ raw \in Seq(Bytes) /\ Len(raw) = n - 1
      /\ \A i \in 1 .. n - 1 : raw[i] = s[i]
  <2>1. \A i \in 1 .. n - 1 : s[i] \in Bytes
    BY <1>1
  <2>2. 1 \in Int /\ n - 1 \in Int
    BY <1>1
  <2>3. /\ raw \in Seq(Bytes) /\ Len(raw) = IF 1 <= n - 1 THEN n - 1 - 1 + 1 ELSE 0
        /\ \A i \in 1 .. n - 1 - 1 + 1 : raw[i] = s[1 + i - 1]
    BY <2>1, <2>2, SubSeqProperties
  <2> QED
    BY <1>1, <2>3
<1>5. Stripped(raw) = LineAt(s, n)
  <2>1. CASE n > 1 /\ s[n - 1] = CR
    <3>1. raw # <<>> /\ Last(raw) = CR
      BY <1>1, <1>4, <2>1 DEF Last
    <3>2. Front(raw) = SubSeq(s, 1, n - 2)
      <4>1. n - 1 \in 1 .. Len(s) /\ n - 2 \in 0 .. Len(s)
        BY <1>1, <2>1
      <4>2. Front(raw) = SubSeq(raw, 1, n - 2)
        <5>1. Len(raw) - 1 = n - 2
          BY <1>1, <1>4
        <5> QED
          BY <5>1 DEF Front
      <4>3. \A i \in 1 .. n - 2 : raw[i] = s[i] /\ s[i] \in Bytes
        BY <1>1, <1>4
      <4>4. 1 \in Int /\ n - 2 \in Int
        BY <1>1
      <4> HIDE DEF raw
      <4>5. SubSeq(raw, 1, n - 2) = SubSeq(s, 1, n - 2)
        BY <4>3, <4>4, SamePiece
      <4> QED
        BY <4>2, <4>5
    <3> QED
      BY <2>1, <3>1, <3>2 DEF Stripped, LineAt
  <2>2. CASE ~ (n > 1 /\ s[n - 1] = CR)
    <3>1. ~ (raw # <<>> /\ Last(raw) = CR)
      <4>1. CASE n = 1
        <5>1. Len(raw) = 0
          BY <1>4, <4>1
        <5> QED
          BY <1>4, <5>1, EmptySeq
      <4>2. CASE n # 1
        BY <1>1, <1>4, <2>2, <4>2 DEF Last
      <4> QED
        BY <4>1, <4>2
    <3> QED
      BY <2>2, <3>1 DEF Stripped, LineAt
  <2> QED
    BY <2>1, <2>2
<1> QED
  BY <1>3, <1>5 DEF t

\* A prefix that is empty or stops at a newline is whole lines.
LEMMA PrefixIs ==
    ASSUME NEW s \in Seq(Bytes), NEW n \in 0 .. Len(s), n = 0 \/ s[n] = LF
    PROVE  LET c == SubSeq(s, 1, n)
           IN  c \in Seq(Bytes) /\ Len(c) = n /\ (c = <<>> \/ c[Len(c)] = LF)
<1> DEFINE c == SubSeq(s, 1, n)
<1>1. 1 \in Int /\ n \in Int /\ \A i \in 1 .. n : s[i] \in Bytes
  OBVIOUS
<1>2. /\ c \in Seq(Bytes) /\ Len(c) = IF 1 <= n THEN n - 1 + 1 ELSE 0
      /\ \A i \in 1 .. n - 1 + 1 : c[i] = s[1 + i - 1]
  BY <1>1, SubSeqProperties
<1> HIDE DEF c
<1>3. Len(c) = n
  BY <1>1, <1>2
<1>4. CASE n = 0
  <2>1. c = <<>>
    BY <1>2, <1>3, <1>4, EmptySeq
  <2> QED
    BY <1>2, <1>3, <2>1 DEF c
<1>5. CASE n # 0
  <2>1. c[n] = LF
    BY <1>1, <1>2, <1>5
  <2> QED
    BY <1>2, <1>3, <2>1 DEF c
<1> QED
  BY <1>4, <1>5

-----------------------------------------------------------------------------
(* The stream, the buffer and the lines. *)

\* How much of the stream has been handed out.
Taken == read - Len(buf)

\* The buffer is the part of the stream between what was handed out and what was
\* read; what was handed out is whole lines, and they are the caller's lines.
WholeLines ==
    /\ Taken \in 0 .. read
    /\ buf = SubSeq(stream, Taken + 1, read)
    /\ Taken = 0 \/ stream[Taken] = LF
    /\ lines = Framed(SubSeq(stream, 1, Taken))

\* It says more than that no line is lost.
LEMMA WholeLinesAreFramed == TypeOK /\ WholeLines => LinesAreFramed
<1> SUFFICES ASSUME TypeOK, WholeLines PROVE LinesAreFramed
  OBVIOUS
<1> DEFINE c == SubSeq(stream, 1, Taken)
<1>1. /\ stream \in Seq(Bytes) /\ read \in 0 .. Len(stream) /\ Taken \in 0 .. read
      /\ Len(stream) \in Nat /\ buf \in Seq(Bytes)
  BY DEF TypeOK, WholeLines
<1>2. c \in Seq(Bytes) /\ (c = <<>> \/ c[Len(c)] = LF)
  BY <1>1, PrefixIs DEF WholeLines
<1>3. SubSeq(stream, 1, read) = c \o buf
  <2>1. 1 \in 1 .. Len(stream) + 1 /\ Taken \in 1 - 1 .. Len(stream) /\ read \in Taken .. Len(stream)
    BY <1>1
  <2>2. SubSeq(stream, 1, Taken) \o SubSeq(stream, Taken + 1, read) = SubSeq(stream, 1, read)
    BY <1>1, <2>1, ConcatAdjacentSubSeq
  <2> QED
    BY <2>2 DEF WholeLines
<1>4. Framed(c \o buf) = lines \o Framed(buf)
  BY <1>1, <1>2, FramedConcat DEF WholeLines
<1> QED
  BY <1>3, <1>4 DEF LinesAreFramed

\* A piece of a text, by the places before it and at its end.
LEMMA PieceIs ==
    ASSUME NEW s \in Seq(Bytes), NEW a \in Nat, NEW b \in Nat, a <= b, b <= Len(s)
    PROVE  /\ SubSeq(s, a + 1, b) \in Seq(Bytes) /\ Len(SubSeq(s, a + 1, b)) = b - a
           /\ \A i \in 1 .. b - a : SubSeq(s, a + 1, b)[i] = s[a + i]
<1>1. a + 1 \in Int /\ b \in Int /\ \A i \in a + 1 .. b : s[i] \in Bytes
  OBVIOUS
<1>2. /\ SubSeq(s, a + 1, b) \in Seq(Bytes)
      /\ Len(SubSeq(s, a + 1, b)) = IF a + 1 <= b THEN b - (a + 1) + 1 ELSE 0
      /\ \A i \in 1 .. b - (a + 1) + 1 : SubSeq(s, a + 1, b)[i] = s[(a + 1) + i - 1]
  BY <1>1, SubSeqProperties
<1>3. ASSUME NEW i \in 1 .. b - a PROVE SubSeq(s, a + 1, b)[i] = s[a + i]
  <2>1. i \in 1 .. b - (a + 1) + 1 /\ (a + 1) + i - 1 = a + i
    OBVIOUS
  <2> QED
    BY <1>2, <2>1
<1>4. Len(SubSeq(s, a + 1, b)) = b - a
  BY <1>2
<1> QED
  BY <1>2, <1>3, <1>4

\* A piece of a piece is a piece.
LEMMA PieceOfPiece ==
    ASSUME NEW s \in Seq(Bytes), NEW t \in Nat, NEW r \in Nat, t <= r, r <= Len(s),
           NEW a \in Nat, NEW b \in Nat, a <= b, b <= r - t
    PROVE  SubSeq(SubSeq(s, t + 1, r), a + 1, b) = SubSeq(s, (t + a) + 1, t + b)
<1> DEFINE p == SubSeq(s, t + 1, r)
           x == SubSeq(p, a + 1, b)
           y == SubSeq(s, (t + a) + 1, t + b)
<1>1. p \in Seq(Bytes) /\ Len(p) = r - t /\ \A i \in 1 .. r - t : p[i] = s[t + i]
  BY PieceIs
<1> HIDE DEF p
<1>2. x \in Seq(Bytes) /\ Len(x) = b - a /\ \A i \in 1 .. b - a : x[i] = p[a + i]
  BY <1>1, PieceIs
<1>3. y \in Seq(Bytes) /\ Len(y) = b - a /\ \A i \in 1 .. b - a : y[i] = s[(t + a) + i]
  <2>1. /\ t + a \in Nat /\ t + b \in Nat /\ t + a <= t + b /\ t + b <= Len(s)
        /\ (t + b) - (t + a) = b - a
    OBVIOUS
  <2>2. /\ y \in Seq(Bytes) /\ Len(y) = (t + b) - (t + a)
        /\ \A i \in 1 .. (t + b) - (t + a) : y[i] = s[(t + a) + i]
    BY <2>1, PieceIs
  <2> QED
    BY <2>1, <2>2
<1> HIDE DEF x, y
<1>4. ASSUME NEW i \in 1 .. Len(x) PROVE x[i] = y[i]
  <2>1. i \in 1 .. b - a /\ a + i \in 1 .. r - t /\ t + (a + i) = (t + a) + i
    BY <1>2
  <2> QED
    BY <1>1, <1>2, <1>3, <2>1
<1> QED
  BY <1>2, <1>3, <1>4, SeqEqual DEF x, y, p

\* take_line keeps it, whatever follows what was handed out.
LEMMA TakingFrames ==
    ASSUME stream \in Seq(Bytes), NEW t \in Nat, NEW r \in Nat, t <= r, r <= Len(stream),
           t = 0 \/ stream[t] = LF, lines = Framed(SubSeq(stream, 1, t)),
           mode # "over", NEW s, s = SubSeq(stream, t + 1, r), TakeLine(s)
    PROVE  /\ r - Len(buf') \in 0 .. r
           /\ buf' = SubSeq(stream, (r - Len(buf')) + 1, r)
           /\ r - Len(buf') = 0 \/ stream[r - Len(buf')] = LF
           /\ lines' = Framed(SubSeq(stream, 1, r - Len(buf')))
<1>1. Len(stream) \in Nat
  OBVIOUS
<1>2. /\ s \in Seq(Bytes) /\ Len(s) = r - t
      /\ \A i \in 1 .. r - t : s[i] = stream[t + i]
  BY PieceIs
<1>3. CASE Newline(s) = 0 \/ ~ Fits(LineAt(s, Newline(s)))
  <2>1. buf' = s /\ lines' = lines
    BY <1>3 DEF TakeLine, HandOut
  <2>2. r - Len(buf') = t
    BY <1>2, <2>1
  <2> QED
    BY <2>1, <2>2
<1>4. CASE Newline(s) # 0 /\ Fits(LineAt(s, Newline(s)))
  <2> DEFINE n == Newline(s)
             c == SubSeq(stream, 1, t)
  <2>1. /\ lines' = Append(lines, LineAt(s, n)) /\ buf' = Rest(s, n)
        /\ n \in 1 .. Len(s) /\ s[n] = LF /\ \A i \in 1 .. n - 1 : s[i] # LF
    <3>1. lines' = Append(lines, LineAt(s, n)) /\ buf' = Rest(s, n)
      BY <1>4 DEF TakeLine, HandOut
    <3>2. n \in 0 .. Len(s) /\ s[n] = LF /\ \A i \in 1 .. n - 1 : s[i] # LF
      BY <1>2, <1>4, NewlineFound
    <3> QED
      BY <1>2, <1>4, <3>1, <3>2
  <2> HIDE DEF n
  <2>2. Rest(s, n) = SubSeq(stream, (t + n) + 1, r) /\ Len(Rest(s, n)) = r - (t + n)
    <3>1. n \in Nat /\ r - t \in Nat /\ n <= r - t /\ r - t <= r - t /\ t + (r - t) = r
      BY <1>2, <2>1
    <3>2. Rest(s, n) = SubSeq(s, n + 1, r - t)
      BY <1>2 DEF Rest
    <3>3. Len(Rest(s, n)) = (r - t) - n
      <4> DEFINE e == r - t
      <4>1. e \in Nat /\ n \in Nat /\ n <= e /\ e <= Len(s)
        BY <1>2, <3>1
      <4> HIDE DEF e
      <4>2. Len(SubSeq(s, n + 1, e)) = e - n
        BY <1>2, <4>1, PieceIs
      <4> QED
        BY <3>2, <4>2 DEF e
    <3>4. SubSeq(s, n + 1, r - t) = SubSeq(stream, (t + n) + 1, t + (r - t))
      BY <3>1, PieceOfPiece
    <3>5. Rest(s, n) = SubSeq(stream, (t + n) + 1, r)
      BY <3>1, <3>2, <3>4
    <3>6. Len(Rest(s, n)) = r - (t + n)
      BY <3>1, <3>3
    <3> QED
      BY <3>5, <3>6
  <2>3. /\ c \in Seq(Bytes) /\ (c = <<>> \/ c[Len(c)] = LF)
    BY <1>1, PrefixIs
  <2>4. SubSeq(stream, 1, t + n) = c \o SubSeq(s, 1, n)
    <3>1. SubSeq(s, 1, n) = SubSeq(stream, t + 1, t + n)
      <4>1. 0 \in Nat /\ n \in Nat /\ 0 <= n /\ n <= r - t /\ t + 0 = t /\ 0 + 1 = 1
        BY <1>2, <2>1
      <4>2. SubSeq(s, 0 + 1, n) = SubSeq(stream, (t + 0) + 1, t + n)
        BY <4>1, PieceOfPiece
      <4> QED
        BY <4>1, <4>2
    <3>2. 1 \in 1 .. Len(stream) + 1 /\ t \in 1 - 1 .. Len(stream) /\ t + n \in t .. Len(stream)
      <4>1. Len(stream) \in Nat /\ n \in Nat /\ t + n <= Len(stream) /\ t <= Len(stream)
        BY <1>1, <1>2, <2>1
      <4> QED
        BY <4>1
    <3> QED
      BY <3>1, <3>2, ConcatAdjacentSubSeq
  <2>5. Framed(SubSeq(stream, 1, t + n)) = Append(lines, LineAt(s, n))
    <3>1. Framed(SubSeq(s, 1, n)) = <<LineAt(s, n)>>
      BY <1>2, <2>1, FramedOne
    <3>2. SubSeq(s, 1, n) \in Seq(Bytes)
      <4>1. 1 \in Int /\ n \in Int /\ \A i \in 1 .. n : s[i] \in Bytes
        BY <1>2, <2>1
      <4> QED
        BY <4>1, SubSeqProperties
    <3>3. Framed(c \o SubSeq(s, 1, n)) = lines \o <<LineAt(s, n)>>
      BY <2>3, <3>1, <3>2, FramedConcat
    <3>4. lines \in Seq(Seq(Bytes)) /\ LineAt(s, n) \in Seq(Bytes)
      <4>1. lines \in Seq(Seq(Bytes))
        BY <2>3, FramedIs
      <4>2. <<LineAt(s, n)>> \in Seq(Seq(Bytes))
        BY <3>1, <3>2, FramedIs
      <4>3. Len(<<LineAt(s, n)>>) = 1 /\ <<LineAt(s, n)>>[1] = LineAt(s, n)
        OBVIOUS
      <4> QED
        BY <4>1, <4>2, <4>3, ElementOfSeq
    <3> QED
      BY <2>4, <3>3, <3>4, AppendIsConcat
  <2>6. r - Len(buf') = t + n /\ t + n \in 0 .. r /\ stream[t + n] = LF
    BY <1>2, <2>1, <2>2
  <2> QED
    BY <2>1, <2>2, <2>5, <2>6
<1> QED
  BY <1>3, <1>4

\* Every step keeps it.
LEMMA FramingStep == ReaderInv /\ WholeLines /\ [Next]_vars => WholeLines'
<1> SUFFICES ASSUME ReaderInv, WholeLines, [Next]_vars PROVE WholeLines'
  OBVIOUS
<1>0. /\ stream \in Seq(Bytes) /\ Len(stream) \in Nat /\ read \in 0 .. Len(stream)
      /\ buf \in Seq(Bytes) /\ Len(buf) \in Nat
      /\ Taken \in 0 .. read /\ Taken \in Nat /\ read \in Nat
  BY DEF ReaderInv, TypeOK, WholeLines
<1>1. ASSUME UNCHANGED <<stream, read, buf, lines>> PROVE WholeLines'
  BY <1>1 DEF WholeLines, Taken
<1>2. CASE PoolSends
  <2>1. PICK c \in Bytes : stream' = Append(stream, c)
    BY <1>2 DEF PoolSends
  <2>2. Taken' = Taken /\ UNCHANGED <<read, buf, lines>>
    BY <1>2 DEF PoolSends, Taken
  <2>3. \A i \in 1 .. Len(stream) : stream'[i] = stream[i] /\ stream[i] \in Bytes
    BY <1>0, <2>1, AppendProperties
  <2>4. /\ \A i \in Taken + 1 .. read : stream'[i] = stream[i] /\ stream[i] \in Bytes
        /\ \A i \in 1 .. Taken : stream'[i] = stream[i] /\ stream[i] \in Bytes
        /\ Taken + 1 \in Int /\ read \in Int /\ Taken \in Int /\ 1 \in Int
    BY <1>0, <2>3
  <2>5. /\ SubSeq(stream', Taken + 1, read) = SubSeq(stream, Taken + 1, read)
        /\ SubSeq(stream', 1, Taken) = SubSeq(stream, 1, Taken)
    BY <2>4, SamePiece
  <2>6. Taken = 0 \/ stream'[Taken] = LF
    BY <1>0, <2>4 DEF WholeLines
  <2> QED
    BY <2>2, <2>5, <2>6 DEF WholeLines
<1>3. CASE CallTakes
  <2>1. TakeLine(buf) /\ mode # "over" /\ UNCHANGED <<stream, read>>
    BY <1>3 DEF CallTakes
  <2>2. /\ Taken <= read /\ read <= Len(stream) /\ (Taken = 0 \/ stream[Taken] = LF)
        /\ lines = Framed(SubSeq(stream, 1, Taken))
        /\ buf = SubSeq(stream, Taken + 1, read)
    BY <1>0 DEF WholeLines
  <2>3. /\ read - Len(buf') \in 0 .. read
        /\ buf' = SubSeq(stream, (read - Len(buf')) + 1, read)
        /\ read - Len(buf') = 0 \/ stream[read - Len(buf')] = LF
        /\ lines' = Framed(SubSeq(stream, 1, read - Len(buf')))
    BY <1>0, <2>1, <2>2, TakingFrames
  <2> QED
    BY <2>1, <2>3 DEF WholeLines, Taken
<1>4. CASE CallReceives
  <2>1. PICK k \in 1 .. Room :
          /\ read + k <= Len(stream) /\ read' = read + k
          /\ TakeLine(buf \o SubSeq(stream, read + 1, read + k))
    BY <1>4 DEF CallReceives
  <2>2. mode # "over" /\ stream' = stream
    BY <1>4 DEF CallReceives
  <2> DEFINE r == read + k
  <2>3. /\ r \in Nat /\ read <= r /\ Taken <= r /\ r <= Len(stream) /\ read' = r
        /\ (Taken = 0 \/ stream[Taken] = LF)
        /\ lines = Framed(SubSeq(stream, 1, Taken))
    <3>1. k \in Nat
      BY ReaderAssumption, <1>0 DEF Room
    <3> QED
      BY <1>0, <2>1, <3>1 DEF WholeLines
  <2> HIDE DEF r
  <2>4. TakeLine(SubSeq(stream, Taken + 1, r))
    <3>1. /\ Taken + 1 \in 1 .. Len(stream) + 1
          /\ read \in (Taken + 1) - 1 .. Len(stream) /\ r \in read .. Len(stream)
      BY <1>0, <2>3
    <3>2. SubSeq(stream, Taken + 1, read) \o SubSeq(stream, read + 1, r)
             = SubSeq(stream, Taken + 1, r)
      BY <1>0, <3>1, ConcatAdjacentSubSeq
    <3>3. TakeLine(buf \o SubSeq(stream, read + 1, r))
      BY <2>1 DEF r
    <3> QED
      BY <3>2, <3>3 DEF WholeLines
  <2>5. /\ r - Len(buf') \in 0 .. r
        /\ buf' = SubSeq(stream, (r - Len(buf')) + 1, r)
        /\ r - Len(buf') = 0 \/ stream[r - Len(buf')] = LF
        /\ lines' = Framed(SubSeq(stream, 1, r - Len(buf')))
    BY <1>0, <2>2, <2>3, <2>4, TakingFrames
  <2> QED
    BY <2>2, <2>3, <2>5 DEF WholeLines, Taken
<1>5. CASE PoolCloses
  BY <1>1, <1>5 DEF PoolCloses
<1>6. CASE CallFindsFull
  BY <1>1, <1>6 DEF CallFindsFull, GiveUp
<1>7. CASE CallFindsNothing
  BY <1>1, <1>7 DEF CallFindsNothing
<1>8. CASE CallFindsEnd
  BY <1>1, <1>8 DEF CallFindsEnd, GiveUp
<1>9. CASE UNCHANGED vars
  BY <1>1, <1>9 DEF vars
<1> QED
  BY <1>2, <1>3, <1>4, <1>5, <1>6, <1>7, <1>8, <1>9 DEF Next, Call

\* However the stream is cut, for every buffer size, the caller gets the lines of
\* the bytes received, in order, each once and whole (take_line, net_recv_line,
\* net_poll_line).
THEOREM EveryLineIsFramed == Spec => []LinesAreFramed
<1>1. Init => WholeLines
  <2> SUFFICES ASSUME Init PROVE WholeLines
    OBVIOUS
  <2>1. stream = <<>> /\ read = 0 /\ buf = <<>> /\ lines = <<>> /\ Taken = 0
    <3>1. stream = <<>> /\ read = 0 /\ buf = <<>> /\ lines = <<>>
      BY DEF Init
    <3>2. read = 0 /\ Len(buf) = 0
      BY <3>1, EmptySeq
    <3>3. Taken = 0
      BY <3>2 DEF Taken
    <3> QED
      BY <3>1, <3>3
  <2>2. SubSeq(stream, 1, 0) = <<>> /\ 0 + 1 = 1 /\ 0 \in 0 .. 0
    BY SubSeqEmpty
  <2>3. Framed(<<>>) = <<>>
    <3>1. <<>> \in Seq(Bytes) /\ Len(<<>>) = 0 /\ Newlines(<<>>, 0) = 0
      BY EmptySeq, NewlinesCount
    <3>2. Framed(<<>>) \in Seq(Seq(Bytes)) /\ Len(Framed(<<>>)) = 0
      BY <3>1, FramedIs
    <3> QED
      BY <3>2, EmptySeq
  <2> QED
    BY <2>1, <2>2, <2>3 DEF WholeLines
<1>2. WholeLines /\ ReaderInv => LinesAreFramed
  BY WholeLinesAreFramed DEF ReaderInv
<1> QED
  BY <1>1, <1>2, FramingStep, ReaderInvariant, PTL DEF Spec

-----------------------------------------------------------------------------
(* What an empty-handed call means. *)

\* A caller that is told there is no line has all of them: when a call finds
\* nothing, or ends reading, every whole line of the bytes received was handed
\* out; and when it finds the end of the stream, every line of the whole stream
\* was.  No line stays in the buffer behind another (net_posix.c:87-176).
NoLineIsHeldBack ==
    /\ result \in {"nothing", "closed", "error", "full"} =>
          lines = Framed(SubSeq(stream, 1, read))
    /\ result = "closed" => lines = Framed(stream)

\* What the result says about the buffer and the stream.
ResultInv ==
    /\ result \in {"nothing", "closed", "error", "full"} => Newline(buf) = 0
    /\ result = "closed" => closed /\ read = Len(stream) /\ mode = "over"
    /\ mode = "handshake" => result = "none"

\* A text without a newline has no lines.
LEMMA NoNewlineNoLines ==
    ASSUME NEW s \in Seq(Bytes), Newline(s) = 0
    PROVE  Framed(s) = <<>>
<1>1. \A i \in 1 .. Len(s) : s[i] # LF
  BY NewlineFound
<1>2. {i \in 1 .. Len(s) : s[i] = LF} = {}
  BY <1>1
<1>3. Newlines(s, Len(s)) = 0
  BY <1>2, FS_EmptySet DEF Newlines
<1>4. Framed(s) \in Seq(Seq(Bytes)) /\ Len(Framed(s)) = 0
  BY <1>3, FramedIs
<1> QED
  BY <1>4, EmptySeq

\* take_line leaves a newline in the buffer only when it hands out a line.
LEMMA TakingEmpties ==
    ASSUME NEW s \in Seq(Bytes), Len(s) <= BufSize, TakeLine(s), mode # "over",
           ReaderInv, ResultInv
    PROVE  ResultInv'
<1>0. /\ mode = "mining" \/ (mode = "handshake" /\ result = "none")
      /\ result # "closed"
  BY DEF ReaderInv, TypeOK, ResultInv
<1>1. CASE Newline(s) # 0
  <2>1. Newline(s) \in 1 .. Len(s)
    BY <1>1, NewlineFound
  <2>2. Fits(LineAt(s, Newline(s)))
    BY <2>1, LineFits
  <2>3. result' = "line" /\ mode' = "mining"
    BY <1>1, <2>2 DEF TakeLine, HandOut
  <2> QED
    BY <2>3 DEF ResultInv
<1>2. CASE Newline(s) = 0
  <2>1. buf' = s /\ mode' = mode /\ result' = IF mode = "mining" THEN "nothing" ELSE result
    BY <1>2 DEF TakeLine
  <2> QED
    BY <1>0, <1>2, <2>1 DEF ResultInv
<1> QED
  BY <1>1, <1>2

\* Every step keeps it.
LEMMA ResultStep == ReaderInv /\ ResultInv /\ [Next]_vars => ResultInv'
<1> SUFFICES ASSUME ReaderInv, ResultInv, [Next]_vars PROVE ResultInv'
  OBVIOUS
<1>0. /\ TypeOK /\ buf \in Seq(Bytes) /\ Len(buf) <= BufSize
      /\ Len(stream) \in Nat
  BY DEF ReaderInv, TypeOK
<1>1. CASE PoolSends
  BY <1>1 DEF PoolSends, ResultInv
<1>2. CASE PoolCloses
  BY <1>2 DEF PoolCloses, ResultInv
<1>3. CASE CallTakes
  BY <1>0, <1>3, TakingEmpties DEF CallTakes
<1>4. CASE CallFindsFull
  BY <1>4 DEF CallFindsFull, Buffered, GiveUp, ResultInv
<1>5. CASE CallReceives
  <2>1. PICK k \in 1 .. Room :
          /\ read + k <= Len(stream)
          /\ TakeLine(buf \o SubSeq(stream, read + 1, read + k))
    BY <1>5 DEF CallReceives
  <2> DEFINE s == buf \o SubSeq(stream, read + 1, read + k)
  <2>2. s \in Seq(Bytes) /\ Len(s) <= BufSize
    BY <1>0, <2>1, ReceivedFits
  <2>3. TakeLine(s) /\ mode # "over"
    BY <1>5, <2>1 DEF CallReceives
  <2> HIDE DEF s
  <2> QED
    BY <2>2, <2>3, TakingEmpties
<1>6. CASE CallFindsNothing
  BY <1>6 DEF CallFindsNothing, Buffered, ResultInv
<1>7. CASE CallFindsEnd
  BY <1>7 DEF CallFindsEnd, Buffered, GiveUp, ResultInv
<1>8. CASE UNCHANGED vars
  BY <1>8 DEF vars, ResultInv
<1> QED
  BY <1>1, <1>2, <1>3, <1>4, <1>5, <1>6, <1>7, <1>8 DEF Next, Call

\* When a call comes back without a line there is none: all whole lines of what
\* was received, and at the end of the stream all lines of the stream, have been
\* handed out.
THEOREM NothingIsHeldBack == Spec => []NoLineIsHeldBack
<1>1. Init => ResultInv
  BY DEF Init, ResultInv
<1>2. ASSUME ReaderInv, ResultInv, LinesAreFramed
      PROVE  NoLineIsHeldBack
  <2>1. buf \in Seq(Bytes) /\ stream \in Seq(Bytes)
    BY <1>2 DEF ReaderInv, TypeOK
  <2>2. lines \in Seq(Seq(Bytes))
    BY <1>2 DEF ReaderInv, TypeOK
  <2>3. ASSUME Newline(buf) = 0 PROVE lines = Framed(SubSeq(stream, 1, read))
    <3>1. Framed(buf) = <<>>
      BY <2>1, <2>3, NoNewlineNoLines
    <3>2. lines \o <<>> = lines
      BY <2>2, ConcatEmptySeq
    <3> QED
      BY <1>2, <3>1, <3>2 DEF LinesAreFramed
  <2>4. SubSeq(stream, 1, Len(stream)) = stream
    BY <2>1, SubSeqFull
  <2> QED
    BY <1>2, <2>3, <2>4 DEF ResultInv, NoLineIsHeldBack
<1> QED
  BY <1>1, <1>2, ResultStep, ReaderInvariant, EveryLineIsFramed, PTL DEF Spec
=============================================================================
