--------------------------- MODULE LineSenderProofs ---------------------------
(***************************************************************************)
(* Proofs about LineSender for every length of a line, every send buffer   *)
(* and every number of lines.                                              *)
(***************************************************************************)
EXTENDS LineSender, SequenceTheorems, WellFoundedInduction, TLAPS

USE DEF vars, callVars, wireVars

-----------------------------------------------------------------------------
(* Types. *)

\* The two halves of the types, what the program has and what is on the wire.
CallTypes ==
    /\ blocking \in BOOLEAN /\ inCall \in BOOLEAN /\ over \in BOOLEAN
    /\ line \in 0 .. MaxLines /\ sent \in 0 .. LineLen
    /\ results \in Seq(BOOLEAN)
    /\ Len(results) = IF inCall THEN line - 1 ELSE line
WireTypes ==
    /\ sockbuf \in Seq(Byte) /\ Len(sockbuf) <= SockBuf
    /\ received \in Seq(Byte)
    /\ broken \in BOOLEAN

\* TypeOK, as the types of the call and those of the wire.
LEMMA TypeParts == TypeOK <=> CallTypes /\ WireTypes
BY DEF TypeOK, CallTypes, WireTypes

\* A piece of the text is a sequence of bytes of the current line.
LEMMA PieceBytes ==
    ASSUME TypeOK, inCall, NEW k \in 1 .. TextLeft
    PROVE  /\ Piece(k) \in Seq(Byte) /\ Len(Piece(k)) = k
           /\ \A i \in 1 .. k : Piece(k)[i] = <<line, sent + i>>
<1>1. /\ line \in 1 .. MaxLines /\ sent \in 0 .. LineLen /\ k \in 1 .. LineLen - sent
      /\ LineLen \in Nat
  <2>1. Len(results) \in Nat /\ Len(results) = line - 1 /\ line \in 0 .. MaxLines
    BY DEF TypeOK
  <2> QED
    BY <2>1, SenderAssumption DEF TypeOK, TextLeft
<1>2. \A i \in 1 .. k : <<line, sent + i>> \in Byte
  BY <1>1 DEF Byte
<1>3. k \in Nat
  BY <1>1
<1> QED
  BY <1>2, <1>3 DEF Piece

\* A byte added to the send buffer, or more, if they fit.
LEMMA BufferTypes ==
    ASSUME WireTypes, NEW p \in Seq(Byte), Len(p) <= Room
    PROVE  sockbuf \o p \in Seq(Byte) /\ Len(sockbuf \o p) <= SockBuf
<1>1. sockbuf \in Seq(Byte) /\ Len(sockbuf) \in Nat /\ Len(p) \in Nat /\ SockBuf \in Nat
  BY SenderAssumption DEF WireTypes
<1>2. sockbuf \o p \in Seq(Byte) /\ Len(sockbuf \o p) = Len(sockbuf) + Len(p)
  BY <1>1, ConcatProperties
<1> QED
  BY <1>1, <1>2 DEF Room

\* A call that returns leaves one more result.
LEMMA ReturnTypes ==
    ASSUME CallTypes, inCall, NEW ok \in BOOLEAN, Returned(ok), inCall' = FALSE,
           UNCHANGED <<blocking, line, sent>>, over' \in BOOLEAN
    PROVE  CallTypes'
<1>1. /\ results \in Seq(BOOLEAN) /\ Len(results) = line - 1 /\ line \in 0 .. MaxLines
      /\ MaxLines \in Nat
  BY SenderAssumption DEF CallTypes
<1>2. results' \in Seq(BOOLEAN) /\ Len(results') = Len(results) + 1
  BY <1>1, AppendProperties DEF Returned
<1>3. Len(results') = line
  BY <1>1, <1>2
<1> QED
  BY <1>2, <1>3 DEF CallTypes

\* Every step keeps the types.
LEMMA TypeStep == TypeOK /\ [Next]_vars => TypeOK'
<1> SUFFICES ASSUME CallTypes, WireTypes, TypeOK, [Next]_vars PROVE CallTypes' /\ WireTypes'
  BY TypeParts, PTL
<1>1. /\ LineLen \in Nat \ {0} /\ SockBuf \in Nat /\ MaxLines \in Nat
      /\ HandshakeLines \in Nat /\ HandshakeLines <= MaxLines
  BY SenderAssumption
<1>2. CASE SendText
  <2>1. PICK k \in 1 .. TextLeft :
           k <= Room /\ sockbuf' = sockbuf \o Piece(k) /\ sent' = sent + k
    BY <1>2 DEF SendText
  <2>2. inCall
    BY <1>2 DEF SendText
  <2>3. Piece(k) \in Seq(Byte) /\ Len(Piece(k)) = k
    BY <2>1, <2>2, PieceBytes
  <2>4. sockbuf' \in Seq(Byte) /\ Len(sockbuf') <= SockBuf
    BY <2>1, <2>3, BufferTypes
  <2>5. sent' \in 0 .. LineLen
    BY <1>1, <2>1 DEF TextLeft, CallTypes
  <2> QED
    BY <1>2, <2>4, <2>5 DEF SendText, CallTypes, WireTypes
<1>3. CASE SendNewline
  <2>1. inCall /\ Room > 0
    BY <1>3 DEF SendNewline
  <2>2. line \in 1 .. MaxLines
    BY <1>1, <2>1 DEF CallTypes
  <2>3. <<line, LineLen + 1>> \in Byte /\ sockbuf \in Seq(Byte)
    BY <1>1, <2>2 DEF Byte, WireTypes
  <2>4. sockbuf' = sockbuf \o <<<<line, LineLen + 1>>>>
    BY <1>3, <2>3, AppendIsConcat DEF SendNewline
  <2>5. /\ <<<<line, LineLen + 1>>>> \in Seq(Byte) /\ Len(<<<<line, LineLen + 1>>>>) = 1
        /\ 1 <= Room
    BY <1>1, <2>1, <2>3 DEF Room
  <2>6. sockbuf' \in Seq(Byte) /\ Len(sockbuf') <= SockBuf
    BY <2>4, <2>5, BufferTypes
  <2>7. CallTypes'
    BY <1>3, <2>1, ReturnTypes DEF SendNewline, CallTypes
  <2> QED
    BY <1>3, <2>6, <2>7 DEF SendNewline, WireTypes
<1>4. CASE SendFails
  <2>1. over' = (line < HandshakeLines) \/ over' = broken
    BY <1>4 DEF SendFails
  <2>2. (line < HandshakeLines) \in BOOLEAN /\ broken \in BOOLEAN
    BY DEF WireTypes
  <2>3. over' \in BOOLEAN
    BY <2>1, <2>2, Zenon
  <2>4. CallTypes'
    BY <1>4, <2>3, ReturnTypes DEF SendFails
  <2> QED
    BY <1>4, <2>4 DEF SendFails, WireTypes
<1>5. CASE SendLine
  <2>1. line < HandshakeLines \/ line < MaxLines
    BY <1>5 DEF SendLine
  <2>2. line' \in 0 .. MaxLines /\ sent' \in 0 .. LineLen
    BY <1>1, <1>5, <2>1 DEF SendLine, CallTypes
  <2>3. Len(results') = IF inCall' THEN line' - 1 ELSE line'
    BY <1>1, <1>5 DEF SendLine, CallTypes
  <2> QED
    BY <1>5, <2>2, <2>3 DEF SendLine, CallTypes, WireTypes
<1>6. CASE SetNonblocking
  BY <1>6 DEF SetNonblocking, CallTypes, WireTypes
<1>7. CASE GiveUp
  BY <1>7 DEF GiveUp, CallTypes, WireTypes
<1>8. CASE ConnectionBreaks
  BY <1>8 DEF ConnectionBreaks, CallTypes, WireTypes
<1>9. CASE PoolReads
  <2>1. sockbuf # <<>> /\ sockbuf' = Tail(sockbuf) /\ received' = Append(received, Head(sockbuf))
    BY <1>9 DEF PoolReads
  <2>2. /\ sockbuf \in Seq(Byte) /\ received \in Seq(Byte)
        /\ Len(sockbuf) \in Nat /\ Len(sockbuf) <= SockBuf
    BY DEF WireTypes
  <2>3. Head(sockbuf) \in Byte /\ sockbuf' \in Seq(Byte) /\ Len(sockbuf') = Len(sockbuf) - 1
    BY <2>1, <2>2, HeadTailProperties
  <2>4. received' \in Seq(Byte)
    BY <2>1, <2>2, <2>3, AppendProperties
  <2>5. Len(sockbuf') <= SockBuf
    BY <1>1, <2>2, <2>3
  <2>6. CallTypes'
    BY <1>9 DEF PoolReads, CallTypes
  <2> QED
    BY <1>9, <2>3, <2>4, <2>5, <2>6 DEF PoolReads, WireTypes
<1>10. CASE UNCHANGED vars
  BY <1>10 DEF CallTypes, WireTypes
<1> QED
  BY <1>2, <1>3, <1>4, <1>5, <1>6, <1>7, <1>8, <1>9, <1>10 DEF Next, Send

\* The send loop never counts past the text, the results are those of the calls
\* made, and the kernel holds no more than it can.
THEOREM SenderTypes == Spec => []TypeOK
<1>1. Init => TypeOK
  <2>1. <<>> \in Seq(BOOLEAN) /\ <<>> \in Seq(Byte) /\ Len(<<>>) = 0
    OBVIOUS
  <2>2. 0 \in 0 .. MaxLines /\ 0 \in 0 .. LineLen /\ 0 <= SockBuf
    BY SenderAssumption
  <2>3. Init => CallTypes /\ WireTypes
    BY <2>1, <2>2 DEF Init, CallTypes, WireTypes
  <2> QED
    BY <2>3, TypeParts
<1> QED
  BY <1>1, TypeStep, PTL DEF Spec

-----------------------------------------------------------------------------
(* The handshake. *)

\* The socket blocks up to the last line of the handshake and not behind it: a call
\* on the non-blocking socket is of a later line.
HandshakeInv ==
    /\ blocking => line <= HandshakeLines
    /\ ~blocking => line >= HandshakeLines /\ (inCall => line > HandshakeLines)
    /\ HandshakeWaits

\* The socket blocks for exactly these lines, whatever step is taken.
LEMMA BlockingStep ==
    ASSUME TypeOK, HandshakeInv, [Next]_vars
    PROVE  /\ blocking' => line' <= HandshakeLines
           /\ ~blocking' => line' >= HandshakeLines /\ (inCall' => line' > HandshakeLines)
<1>1. /\ line \in Nat /\ HandshakeLines \in Nat
      /\ blocking => line <= HandshakeLines
      /\ ~blocking => line >= HandshakeLines /\ (inCall => line > HandshakeLines)
  BY SenderAssumption DEF TypeOK, HandshakeInv
<1>2. CASE SendLine
  BY <1>1, <1>2 DEF SendLine
<1>3. CASE SetNonblocking
  BY <1>1, <1>3 DEF SetNonblocking, BehindHandshake
<1>4. CASE ~(SendLine \/ SetNonblocking)
  <2>1. UNCHANGED <<blocking, line>> /\ (UNCHANGED inCall \/ inCall' = FALSE)
    BY <1>4 DEF Next, Send, SendText, SendNewline, SendFails, GiveUp, PoolReads,
       ConnectionBreaks
  <2> QED
    BY <1>1, <2>1
<1> QED
  BY <1>2, <1>3, <1>4

\* Results already given stay as they are, and a connection does not mend.
LEMMA OneMoreResult ==
    ASSUME TypeOK, HandshakeWaits, NEW ok \in BOOLEAN, Returned(ok), broken => broken',
           ok \/ broken' \/ Len(results) + 1 > HandshakeLines
    PROVE  HandshakeWaits'
<1>1. results \in Seq(BOOLEAN)
  BY DEF TypeOK
<1>2. /\ results'[Len(results) + 1] = ok /\ Len(results') = Len(results) + 1
      /\ Len(results) \in Nat
      /\ \A m \in 1 .. Len(results) : results'[m] = results[m]
  BY <1>1, AppendProperties DEF Returned
<1>3. \A m \in 1 .. Len(results') : m \in 1 .. Len(results) \/ m = Len(results) + 1
  BY <1>2
<1>4. Len(results) + 1 > HandshakeLines => ~(Len(results) + 1 <= HandshakeLines)
  BY <1>2, SenderAssumption
<1> QED
  BY <1>2, <1>3, <1>4 DEF HandshakeWaits

\* For every send buffer and every way it fills: only a broken connection makes a
\* line of the handshake fail.  A call that meets a full buffer is on the non-blocking
\* socket, so of a line behind the handshake.
THEOREM HandshakeNeverFailsEarly == Spec => []HandshakeWaits
<1>1. Init => HandshakeInv
  BY SenderAssumption DEF Init, HandshakeInv, HandshakeWaits
<1>2. ASSUME TypeOK, HandshakeInv, [Next]_vars
      PROVE  HandshakeWaits'
  <2>1. HandshakeWaits
    BY <1>2 DEF HandshakeInv
  <2>2. CASE SendNewline
    BY <1>2, <2>1, <2>2, OneMoreResult DEF SendNewline
  <2>3. CASE SendFails
    <3>1. inCall /\ Returned(FALSE) /\ UNCHANGED broken /\ (broken \/ ~blocking)
      BY <2>3 DEF SendFails, WouldBlock
    <3>2. Len(results) + 1 = line
      <4>1. Len(results) = line - 1 /\ line \in Nat
        BY <1>2, <3>1 DEF TypeOK
      <4> QED
        BY <4>1
    <3>3. ~blocking => line > HandshakeLines
      BY <1>2, <3>1 DEF HandshakeInv
    <3> QED
      BY <1>2, <2>1, <3>1, <3>2, <3>3, OneMoreResult
  <2>4. CASE ~(SendNewline \/ SendFails)
    <3>1. UNCHANGED results /\ (broken => broken')
      BY <1>2, <2>4 DEF Next, Send, SendText, SendLine, SetNonblocking, GiveUp, PoolReads,
         ConnectionBreaks
    <3> QED
      BY <2>1, <3>1 DEF HandshakeWaits
  <2> QED
    BY <2>2, <2>3, <2>4
<1>3. TypeOK /\ HandshakeInv /\ [Next]_vars => HandshakeInv'
  BY <1>2, BlockingStep DEF HandshakeInv
<1>4. HandshakeInv => HandshakeWaits
  BY DEF HandshakeInv
<1> QED
  BY <1>1, <1>3, <1>4, SenderTypes, PTL DEF Spec

-----------------------------------------------------------------------------
(* What is on the wire. *)

\* The bytes of the current line are those up to `sent', all of them; nothing is
\* of a line to come; and the lines before have had their result.
WireInv ==
    /\ SentInOrder
    /\ \A i \in 1 .. Len(Stream) :
         /\ Stream[i][1] <= line
         /\ inCall /\ Stream[i][1] = line => Stream[i][2] <= sent
    /\ inCall => \A k \in 1 .. sent : Contains(Stream, <<line, k>>)
    /\ TrueMeansWhole

\* The stream is one sequence of bytes, wherever it is cut in two.
LEMMA StreamType == WireTypes => Stream \in Seq(Byte) /\ Len(Stream) \in Nat
BY ConcatProperties DEF WireTypes, Stream

\* Each of its bytes has the number of a line and a place in it.
LEMMA StreamBytes ==
    ASSUME WireTypes
    PROVE  \A i \in 1 .. Len(Stream) :
              Stream[i] \in Byte /\ Stream[i][1] \in Nat /\ Stream[i][2] \in Nat
<1>1. ASSUME NEW x \in Byte PROVE x[1] \in Nat /\ x[2] \in Nat
  BY SenderAssumption DEF Byte
<1>2. Stream \in Seq(Byte)
  BY StreamType
<1>3. \A i \in 1 .. Len(Stream) : Stream[i] \in Byte
  BY <1>2
<1> QED
  BY <1>1, <1>3

\* What the pool reads moves from one half of the stream to the other.
LEMMA ReadingMovesTheCut ==
    ASSUME WireTypes, PoolReads
    PROVE  Stream' = Stream
<1> DEFINE h == Head(sockbuf)
           r == Tail(sockbuf)
<1>1. /\ received \in Seq(Byte) /\ sockbuf \in Seq(Byte) /\ sockbuf # <<>>
      /\ received' = Append(received, h) /\ sockbuf' = r
  BY DEF WireTypes, PoolReads
<1>2. /\ h \in Byte /\ h = sockbuf[1] /\ r \in Seq(Byte) /\ Len(r) = Len(sockbuf) - 1
      /\ \A i \in 1 .. Len(r) : r[i] = sockbuf[i + 1]
  BY <1>1, HeadTailProperties
<1>3. <<h>> \in Seq(Byte) /\ Len(<<h>>) = 1 /\ <<h>>[1] = h
  BY <1>2
<1> HIDE DEF h, r
<1>4. <<h>> \o r = sockbuf
  <2>1. /\ <<h>> \o r \in Seq(Byte) /\ Len(<<h>> \o r) = 1 + Len(r)
        /\ \A i \in 1 .. 1 + Len(r) : (<<h>> \o r)[i] = IF i <= 1 THEN <<h>>[i] ELSE r[i - 1]
    BY <1>2, <1>3, ConcatProperties
  <2>2. \A i \in 1 .. 1 + Len(r) : i = 1 \/ (i - 1 \in 1 .. Len(r) /\ (i - 1) + 1 = i)
    BY <1>2
  <2>3. \A i \in 1 .. Len(<<h>> \o r) : (<<h>> \o r)[i] = sockbuf[i]
    BY <1>2, <1>3, <2>1, <2>2
  <2>4. Len(<<h>> \o r) = Len(sockbuf)
    BY <1>1, <1>2, <2>1
  <2> QED
    BY <1>1, <2>1, <2>3, <2>4, SeqEqual
<1>5. Append(received, h) = received \o <<h>>
  BY <1>1, <1>2, AppendIsConcat
<1>6. (received \o <<h>>) \o r = received \o (<<h>> \o r)
  BY <1>1, <1>2, <1>3, ConcatAssociative
<1> QED
  BY <1>1, <1>4, <1>5, <1>6 DEF Stream

\* What is put behind the send buffer is behind the whole stream.
LEMMA StreamAppended ==
    ASSUME WireTypes, NEW p \in Seq(Byte), UNCHANGED received, sockbuf' = sockbuf \o p
    PROVE  Stream' = Stream \o p
<1>1. received \in Seq(Byte) /\ sockbuf \in Seq(Byte)
  BY DEF WireTypes
<1>2. (received \o sockbuf) \o p = received \o (sockbuf \o p)
  BY <1>1, ConcatAssociative, SMTT(30)
<1> QED
  BY <1>2 DEF Stream

\* When the next n bytes of the line follow the stream, it is still in order, and
\* exactly those bytes are new.
LEMMA StreamGrows ==
    ASSUME TypeOK, WireInv, inCall, NEW p \in Seq(Byte),
           \A i \in 1 .. Len(p) : p[i] = <<line, sent + i>>,
           UNCHANGED received, sockbuf' = sockbuf \o p
    PROVE  /\ SentInOrder'
           /\ \A i \in 1 .. Len(Stream') :
                /\ Stream'[i][1] <= line
                /\ Stream'[i][1] = line => Stream'[i][2] <= sent + Len(p)
           /\ \A x \in Byte : Contains(Stream', x) <=>
                 Contains(Stream, x) \/ \E i \in 1 .. Len(p) : x = <<line, sent + i>>
<1>1. /\ Stream \in Seq(Byte) /\ Len(Stream) \in Nat /\ Len(p) \in Nat
      /\ line \in Nat /\ sent \in Nat
  BY StreamType, TypeParts, SenderAssumption DEF CallTypes
<1>2. Stream' = Stream \o p
  BY TypeParts, StreamAppended
<1>3. /\ Len(Stream') = Len(Stream) + Len(p)
      /\ \A i \in 1 .. Len(Stream') :
            Stream'[i] = IF i <= Len(Stream) THEN Stream[i] ELSE p[i - Len(Stream)]
  BY <1>1, <1>2, ConcatProperties
<1>4. ASSUME NEW i \in 1 .. Len(Stream')
      PROVE  \/ i \in 1 .. Len(Stream) /\ Stream'[i] = Stream[i]
             \/ /\ i - Len(Stream) \in 1 .. Len(p)
                /\ i > Len(Stream)
                /\ Stream'[i] = <<line, sent + (i - Len(Stream))>>
  <2> DEFINE n == Len(Stream)
             S == Stream'
  <2>1. n \in Nat /\ Len(p) \in Nat /\ Len(S) = n + Len(p) /\ i \in 1 .. Len(S)
        /\ S[i] = IF i <= n THEN Stream[i] ELSE p[i - n]
    BY <1>1, <1>3
  <2> HIDE DEF n, S
  <2>2. CASE i <= n
    <3>1. i \in 1 .. n /\ S[i] = Stream[i]
      BY <2>1, <2>2
    <3> QED
      BY <3>1 DEF n, S
  <2>3. CASE ~(i <= n)
    <3>1. i - n \in 1 .. Len(p) /\ i > n /\ S[i] = p[i - n]
      BY <2>1, <2>3
    <3> QED
      BY <3>1 DEF n, S
  <2> QED
    BY <2>2, <2>3
<1>5. \A i \in 1 .. Len(Stream) : Stream[i] \in Byte /\ Stream[i][1] \in Nat /\ Stream[i][2] \in Nat
  BY StreamBytes, TypeParts
<1>6. \A i \in 1 .. Len(Stream) :
         Stream[i][1] < line \/ (Stream[i][1] = line /\ Stream[i][2] <= sent)
  BY <1>1, <1>5 DEF WireInv
<1>7. SentInOrder'
  <2> SUFFICES ASSUME NEW i \in 1 .. Len(Stream'), NEW j \in 1 .. Len(Stream'), i < j
               PROVE  Before(Stream'[i], Stream'[j])
    BY DEF SentInOrder, Before
  <2>1. CASE j \in 1 .. Len(Stream)
    <3>1. i \in 1 .. Len(Stream)
      BY <1>1, <2>1
    <3>2. Stream'[i] = Stream[i] /\ Stream'[j] = Stream[j]
      <4>1. ~(i > Len(Stream)) /\ ~(j > Len(Stream))
        BY <1>1, <2>1, <3>1
      <4> QED
        BY <1>4, <4>1
    <3> QED
      BY <2>1, <3>1, <3>2 DEF WireInv, SentInOrder
  <2>2. CASE j > Len(Stream) /\ i \in 1 .. Len(Stream)
    <3>1. /\ Stream'[i] = Stream[i] /\ j - Len(Stream) \in 1 .. Len(p)
          /\ Stream'[j] = <<line, sent + (j - Len(Stream))>>
      <4>1. ~(i > Len(Stream)) /\ ~(j \in 1 .. Len(Stream))
        BY <1>1, <2>2
      <4> QED
        BY <1>4, <4>1
    <3> QED
      BY <1>1, <1>5, <1>6, <2>2, <3>1 DEF Before
  <2>3. CASE i > Len(Stream)
    <3>1. /\ Stream'[i] = <<line, sent + (i - Len(Stream))>>
          /\ Stream'[j] = <<line, sent + (j - Len(Stream))>>
      BY <1>1, <1>4, <2>3
    <3> QED
      BY <1>1, <3>1 DEF Before
  <2> QED
    BY <1>1, <2>1, <2>2, <2>3
<1>8. ASSUME NEW i \in 1 .. Len(Stream')
      PROVE  /\ Stream'[i][1] <= line
             /\ Stream'[i][1] = line => Stream'[i][2] <= sent + Len(p)
  <2>1. CASE i \in 1 .. Len(Stream) /\ Stream'[i] = Stream[i]
    BY <1>1, <1>5, <1>6, <2>1
  <2>2. CASE i - Len(Stream) \in 1 .. Len(p) /\ Stream'[i] = <<line, sent + (i - Len(Stream))>>
    BY <1>1, <2>2
  <2> QED
    BY <1>4, <2>1, <2>2
<1>9. ASSUME NEW x \in Byte
      PROVE  Contains(Stream', x) <=>
                Contains(Stream, x) \/ \E i \in 1 .. Len(p) : x = <<line, sent + i>>
  <2>1. ASSUME Contains(Stream', x)
        PROVE  Contains(Stream, x) \/ \E i \in 1 .. Len(p) : x = <<line, sent + i>>
    BY <1>4, <2>1 DEF Contains
  <2>2. ASSUME Contains(Stream, x)
        PROVE  Contains(Stream', x)
    <3>1. PICK i \in 1 .. Len(Stream) : Stream[i] = x
      BY <2>2 DEF Contains
    <3>2. i \in 1 .. Len(Stream') /\ Stream'[i] = Stream[i]
      BY <1>1, <1>3, <3>1
    <3> QED
      BY <3>1, <3>2 DEF Contains
  <2>3. ASSUME NEW i \in 1 .. Len(p), x = <<line, sent + i>>
        PROVE  Contains(Stream', x)
    <3> DEFINE n == Len(Stream)
               S == Stream'
    <3>1. n \in Nat /\ Len(p) \in Nat /\ Len(S) = n + Len(p)
          /\ \A k \in 1 .. Len(S) : S[k] = IF k <= n THEN Stream[k] ELSE p[k - n]
      BY <1>1, <1>3
    <3> HIDE DEF n, S
    <3>2. n + i \in 1 .. Len(S) /\ ~(n + i <= n) /\ (n + i) - n = i
      BY <3>1
    <3>3. S[n + i] = p[i]
      BY <3>1, <3>2
    <3>4. \E k \in 1 .. Len(S) : S[k] = x
      BY <2>3, <3>2, <3>3
    <3> QED
      BY <3>4 DEF S, Contains
  <2> QED
    BY <2>1, <2>2, <2>3
<1> QED
  BY <1>7, <1>8, <1>9

\* The line m is on the wire with its text and its newline.
WholeLine(m) == \A k \in 1 .. LineLen + 1 : Contains(Stream, <<m, k>>)

\* One more result, of a call that ends.
LEMMA ResultAdded ==
    ASSUME TypeOK, inCall, NEW ok \in BOOLEAN, Returned(ok)
    PROVE  /\ Len(results) \in Nat /\ Len(results) = line - 1 /\ line \in 1 .. MaxLines
           /\ Len(results') = line /\ results'[line] = ok
           /\ \A m \in 1 .. Len(results) : results'[m] = results[m]
<1>1. /\ results \in Seq(BOOLEAN) /\ Len(results) = line - 1 /\ line \in 0 .. MaxLines
      /\ MaxLines \in Nat /\ Len(results) \in Nat
  BY SenderAssumption, TypeParts DEF CallTypes
<1>2. /\ Len(results') = Len(results) + 1 /\ results'[Len(results) + 1] = ok
      /\ \A m \in 1 .. Len(results) : results'[m] = results[m]
  BY <1>1, AppendProperties DEF Returned
<1> QED
  BY <1>1, <1>2

\* Bytes of the current line say nothing of the lines before it.
LEMMA EarlierLinesKept ==
    ASSUME TypeOK, WireInv, inCall, NEW p \in Seq(Byte),
           \A i \in 1 .. Len(p) : p[i] = <<line, sent + i>>,
           UNCHANGED received, sockbuf' = sockbuf \o p,
           NEW m \in 1 .. line - 1
    PROVE  WholeLine(m)' <=> WholeLine(m)
<1>1. line \in Nat /\ line <= MaxLines /\ MaxLines \in Nat /\ LineLen \in Nat
  BY SenderAssumption, TypeParts DEF CallTypes
<1>2. ASSUME NEW k \in 1 .. LineLen + 1
      PROVE  Contains(Stream', <<m, k>>) <=> Contains(Stream, <<m, k>>)
  <2>1. <<m, k>> \in Byte /\ m # line
    BY <1>1 DEF Byte
  <2>2. \A i \in 1 .. Len(p) : <<m, k>> # <<line, sent + i>>
    BY <2>1
  <2> QED
    BY <2>1, <2>2, StreamGrows
<1> QED
  BY <1>2 DEF WholeLine

\* Each piece of a call, its end, and everything around it keep the invariant.
LEMMA WireStep ==
    ASSUME TypeOK, WireInv, [Next]_vars
    PROVE  WireInv'
<1>1. /\ line \in Nat /\ line <= MaxLines /\ sent \in Nat /\ sent <= LineLen
      /\ LineLen \in Nat \ {0} /\ MaxLines \in Nat
      /\ Stream \in Seq(Byte) /\ Len(Stream) \in Nat
  BY SenderAssumption, TypeParts, StreamType DEF CallTypes
<1>2. \A i \in 1 .. Len(Stream) : Stream[i][1] \in Nat /\ Stream[i][2] \in Nat
  BY StreamBytes, TypeParts
<1>3. CASE SendText
  <2>1. PICK k \in 1 .. TextLeft : sockbuf' = sockbuf \o Piece(k) /\ sent' = sent + k
    BY <1>3 DEF SendText
  <2>2. inCall /\ inCall' /\ UNCHANGED <<line, results, received>>
    BY <1>3 DEF SendText
  <2>3. /\ Piece(k) \in Seq(Byte) /\ Len(Piece(k)) = k
        /\ \A i \in 1 .. k : Piece(k)[i] = <<line, sent + i>>
    BY <2>1, <2>2, PieceBytes
  <2>4. k \in Nat /\ sent + k <= LineLen /\ line \in 1 .. MaxLines
    <3>1. Len(results) \in Nat /\ Len(results) = line - 1
      BY <2>2, TypeParts DEF CallTypes
    <3> QED
      BY <1>1, <2>1, <3>1 DEF TextLeft
  <2>5. /\ SentInOrder'
        /\ \A i \in 1 .. Len(Stream') :
              /\ Stream'[i][1] <= line
              /\ Stream'[i][1] = line => Stream'[i][2] <= sent + k
        /\ \A x \in Byte : Contains(Stream', x) <=>
              Contains(Stream, x) \/ \E i \in 1 .. k : x = <<line, sent + i>>
    BY <2>1, <2>2, <2>3, StreamGrows
  <2>6. \A i \in 1 .. Len(Stream') :
           /\ Stream'[i][1] <= line'
           /\ inCall' /\ Stream'[i][1] = line' => Stream'[i][2] <= sent'
    BY <1>1, <2>1, <2>2, <2>5
  <2>7. ASSUME NEW i \in 1 .. sent'
        PROVE  Contains(Stream', <<line, i>>)
    <3>1. <<line, i>> \in Byte
      BY <1>1, <2>1, <2>4 DEF Byte
    <3>2. CASE i \in 1 .. sent
      BY <2>2, <2>5, <3>1, <3>2 DEF WireInv
    <3>3. CASE ~(i \in 1 .. sent)
      <4>1. i - sent \in 1 .. k /\ i = sent + (i - sent)
        BY <1>1, <2>1, <2>4, <3>3
      <4> QED
        BY <2>5, <3>1, <4>1
    <3> QED
      BY <3>2, <3>3
  <2>8. TrueMeansWhole'
    <3>1. Len(results) = line - 1
      BY <2>2, TypeParts DEF CallTypes
    <3>2. \A m \in 1 .. line - 1 : WholeLine(m)' <=> WholeLine(m)
      BY <2>1, <2>2, <2>3, EarlierLinesKept
    <3>3. \A m \in 1 .. line - 1 : results[m] <=> WholeLine(m)
      BY <3>1 DEF WireInv, TrueMeansWhole, WholeLine
    <3>4. \A m \in 1 .. Len(results') : results'[m] <=> WholeLine(m)'
      BY <2>2, <3>1, <3>2, <3>3
    <3> QED
      BY <3>4 DEF TrueMeansWhole, WholeLine
  <2> QED
    BY <2>2, <2>5, <2>6, <2>7, <2>8 DEF WireInv
<1>4. CASE SendNewline
  <2> DEFINE x == <<line, LineLen + 1>>
             p == <<x>>
  <2>1. /\ inCall /\ sent = LineLen /\ sockbuf' = Append(sockbuf, x) /\ inCall' = FALSE
        /\ Returned(TRUE) /\ UNCHANGED <<line, received>>
    <3>1. /\ inCall /\ LineLen - sent = 0 /\ sockbuf' = Append(sockbuf, x) /\ inCall' = FALSE
          /\ Returned(TRUE) /\ UNCHANGED <<line, received>>
      BY <1>4 DEF SendNewline, TextLeft
    <3>2. sent = LineLen
      BY <1>1, <3>1
    <3> QED
      BY <3>1, <3>2
  <2>2. /\ Len(results) \in Nat /\ Len(results) = line - 1 /\ line \in 1 .. MaxLines
        /\ Len(results') = line /\ results'[line] = TRUE
        /\ \A m \in 1 .. Len(results) : results'[m] = results[m]
    BY <2>1, ResultAdded
  <2>3. x \in Byte /\ sockbuf \in Seq(Byte)
    BY <1>1, <2>2, TypeParts DEF Byte, WireTypes
  <2>4. sockbuf' = sockbuf \o p
    BY <2>1, <2>3, AppendIsConcat
  <2>5. p \in Seq(Byte) /\ Len(p) = 1 /\ \A i \in 1 .. Len(p) : p[i] = <<line, sent + i>>
    <3>1. p \in Seq(Byte) /\ Len(p) = 1 /\ p[1] = x
      BY <2>3
    <3>2. \A i \in 1 .. 1 : i = 1
      OBVIOUS
    <3> QED
      BY <2>1, <3>1, <3>2
  <2> HIDE DEF p
  <2>6. /\ SentInOrder'
        /\ \A i \in 1 .. Len(Stream') :
              /\ Stream'[i][1] <= line
              /\ Stream'[i][1] = line => Stream'[i][2] <= sent + 1
        /\ \A y \in Byte : Contains(Stream', y) <=>
              Contains(Stream, y) \/ \E i \in 1 .. 1 : y = <<line, sent + i>>
    <3>1. /\ SentInOrder'
          /\ \A i \in 1 .. Len(Stream') :
                /\ Stream'[i][1] <= line
                /\ Stream'[i][1] = line => Stream'[i][2] <= sent + Len(p)
          /\ \A y \in Byte : Contains(Stream', y) <=>
                Contains(Stream, y) \/ \E i \in 1 .. Len(p) : y = <<line, sent + i>>
      BY <2>1, <2>4, <2>5, StreamGrows
    <3>2. Len(p) = 1
      BY <2>5
    <3> QED
      BY <3>1, <3>2, Zenon
  <2>7. WholeLine(line)'
    <3>1. ASSUME NEW k \in 1 .. LineLen + 1
          PROVE  Contains(Stream', <<line, k>>)
      <4>1. <<line, k>> \in Byte
        BY <1>1, <2>2 DEF Byte
      <4>2. k \in 1 .. sent \/ (1 \in 1 .. 1 /\ k = sent + 1)
        BY <1>1, <2>1
      <4> QED
        BY <2>1, <2>6, <4>1, <4>2 DEF WireInv
    <3> QED
      BY <2>1, <3>1 DEF WholeLine
  <2>8. TrueMeansWhole'
    <3>1. \A m \in 1 .. line - 1 : WholeLine(m)' <=> WholeLine(m)
      BY <2>1, <2>4, <2>5, EarlierLinesKept
    <3>2. \A m \in 1 .. line - 1 : results[m] <=> WholeLine(m)
      BY <2>2 DEF WireInv, TrueMeansWhole, WholeLine
    <3>3. \A m \in 1 .. Len(results') : m \in 1 .. line - 1 \/ m = line
      BY <1>1, <2>2
    <3>4. ASSUME NEW m \in 1 .. Len(results')
          PROVE  results'[m] <=> WholeLine(m)'
      <4>1. CASE m \in 1 .. line - 1
        BY <2>2, <3>1, <3>2, <4>1
      <4>2. CASE m = line
        <5>1. WholeLine(m)'
          BY <2>1, <2>7, <4>2 DEF WholeLine
        <5> QED
          BY <2>2, <4>2, <5>1
      <4> QED
        BY <3>3, <4>1, <4>2
    <3> QED
      BY <3>4 DEF TrueMeansWhole, WholeLine
  <2>9. \A i \in 1 .. Len(Stream') : Stream'[i][1] <= line'
    BY <1>1, <2>1, <2>6
  <2> QED
    BY <2>1, <2>6, <2>8, <2>9 DEF WireInv
<1>5. CASE SendFails
  <2>1. /\ inCall /\ inCall' = FALSE /\ Returned(FALSE)
        /\ UNCHANGED <<line, sent, received, sockbuf>>
    BY <1>5 DEF SendFails
  <2>2. /\ Len(results) \in Nat /\ Len(results) = line - 1 /\ line \in 1 .. MaxLines
        /\ Len(results') = line /\ results'[line] = FALSE
        /\ \A m \in 1 .. Len(results) : results'[m] = results[m]
    BY <2>1, ResultAdded
  <2>3. Stream' = Stream
    BY <2>1 DEF Stream
  <2>4. ~ WholeLine(line)
    <3>1. SUFFICES ASSUME Contains(Stream, <<line, LineLen + 1>>)
                   PROVE  FALSE
      BY <1>1 DEF WholeLine
    <3>2. PICK i \in 1 .. Len(Stream) : Stream[i] = <<line, LineLen + 1>>
      BY <3>1 DEF Contains
    <3>3. Stream[i][2] <= sent
      BY <2>1, <3>2 DEF WireInv
    <3> QED
      BY <1>1, <3>2, <3>3
  <2>5. TrueMeansWhole'
    <3>1. \A m \in 1 .. line - 1 : results[m] <=> WholeLine(m)
      BY <2>2 DEF WireInv, TrueMeansWhole, WholeLine
    <3>2. \A m \in 1 .. Len(results') : m \in 1 .. line - 1 \/ m = line
      BY <1>1, <2>2
    <3>3. ASSUME NEW m \in 1 .. Len(results')
          PROVE  results'[m] <=> WholeLine(m)
      <4>1. CASE m \in 1 .. line - 1
        BY <2>2, <3>1, <4>1
      <4>2. CASE m = line
        BY <2>2, <2>4, <4>2
      <4> QED
        BY <3>2, <4>1, <4>2
    <3> QED
      BY <2>3, <3>3 DEF TrueMeansWhole, WholeLine
  <2> QED
    BY <2>1, <2>3, <2>5 DEF WireInv, SentInOrder
<1>6. CASE SendLine
  <2>1. ~inCall /\ line' = line + 1 /\ sent' = 0 /\ UNCHANGED <<results, received, sockbuf>>
    BY <1>6 DEF SendLine
  <2>2. Stream' = Stream
    BY <2>1 DEF Stream
  <2>3. \A i \in 1 .. Len(Stream) : Stream[i][1] < line'
    BY <1>1, <1>2, <2>1 DEF WireInv
  <2>4. \A i \in 1 .. Len(Stream) : Stream[i][1] <= line' /\ Stream[i][1] # line'
    BY <1>1, <1>2, <2>1, <2>3
  <2>5. 1 .. sent' = {}
    BY <2>1
  <2> QED
    BY <2>1, <2>2, <2>4, <2>5 DEF WireInv, SentInOrder, TrueMeansWhole
<1>7. CASE PoolReads
  <2>1. Stream' = Stream /\ UNCHANGED <<line, inCall, sent, results>>
    BY <1>7, ReadingMovesTheCut, TypeParts DEF PoolReads
  <2> QED
    BY <2>1 DEF WireInv, SentInOrder, TrueMeansWhole
<1>8. CASE SetNonblocking \/ GiveUp \/ ConnectionBreaks \/ UNCHANGED vars
  <2>1. UNCHANGED <<line, inCall, sent, results, received, sockbuf>>
    BY <1>8 DEF SetNonblocking, GiveUp, ConnectionBreaks
  <2>2. Stream' = Stream
    BY <2>1 DEF Stream
  <2> QED
    BY <2>1, <2>2 DEF WireInv, SentInOrder, TrueMeansWhole
<1> QED
  BY <1>3, <1>4, <1>5, <1>6, <1>7, <1>8 DEF Next, Send

\* What the wire holds of each line agrees with the calls and their results.
THEOREM WireInvariant == Spec => []WireInv
<1>1. Init => WireInv
  <2> SUFFICES ASSUME Init PROVE WireInv
    OBVIOUS
  <2>1. Stream = <<>> /\ Len(Stream) = 0 /\ Len(results) = 0
    BY DEF Init, Stream
  <2>2. 1 .. 0 = {}
    OBVIOUS
  <2> QED
    BY <2>1, <2>2 DEF Init, WireInv, SentInOrder, TrueMeansWhole
<1>2. TypeOK /\ WireInv /\ [Next]_vars => WireInv'
  BY WireStep
<1> QED
  BY <1>1, <1>2, SenderTypes, PTL DEF Spec

\* However the kernel cuts the writes, no byte goes out twice or before an
\* earlier one.
THEOREM BytesInOrder == Spec => []SentInOrder
<1>1. WireInv => SentInOrder
  BY DEF WireInv
<1> QED
  BY <1>1, WireInvariant, PTL

\* net_send_line returns true for exactly the lines that are on the wire whole,
\* whatever failed before and comes after them.
THEOREM ResultsAreTrue == Spec => []TrueMeansWhole
<1>1. WireInv => TrueMeansWhole
  BY DEF WireInv
<1> QED
  BY <1>1, WireInvariant, PTL

-----------------------------------------------------------------------------
(* What may stand in front of what. *)

\* The least of a set of numbers.
LEMMA LeastNumber ==
    ASSUME NEW S, S \subseteq Nat, S # {}
    PROVE  \E m \in S : \A n \in S : m <= n
<1> DEFINE R == OpToRel(<, Nat)
<1>1. IsWellFoundedOn(R, Nat)
  BY NatLessThanWellFounded
<1>2. \A m, n \in Nat : <<m, n>> \in R <=> m < n
  BY DEF OpToRel
<1>3. PICK m \in S : \A n \in S : <<n, m>> \notin R
  <2> HIDE DEF R
  <2> QED
    BY <1>1, WFMin, Zenon
<1>4. \A n \in S : ~ (n < m)
  <2> HIDE DEF R
  <2> QED
    BY <1>2, <1>3
<1> QED
  BY <1>4

\* net_send_line has returned false for the line.
Failed(m) == m \in 1 .. Len(results) /\ ~ results[m]

\* A byte that another line may follow.
Ends(x) == IsNewline(x) \/ Failed(x[1])

\* A byte follows the one before it in its line, or begins a line where one ends.
Follows(i) ==
    \/ Stream[i][2] # 1 /\ i > 1 /\ Stream[i - 1] = <<Stream[i][1], Stream[i][2] - 1>>
    \/ Stream[i][2] = 1 /\ (i = 1 \/ Ends(Stream[i - 1]))

\* The last byte is the last one sent of a line under way, or a line ends there.
FollowInv ==
    /\ \A i \in 1 .. Len(Stream) : Follows(i)
    /\ inCall /\ sent > 0 => Len(Stream) > 0 /\ Stream[Len(Stream)] = <<line, sent>>
    /\ ~ (inCall /\ sent > 0) => Len(Stream) = 0 \/ Ends(Stream[Len(Stream)])

\* A result is never taken back.
LEMMA EndsStays ==
    ASSUME TypeOK, [Next]_vars, NEW x, Ends(x)
    PROVE  Ends(x)'
<1>1. CASE results' = results
  BY <1>1 DEF Ends, Failed, IsNewline
<1>2. ASSUME NEW ok \in BOOLEAN, inCall, Returned(ok) PROVE Ends(x)'
  <2>1. /\ Len(results) \in Nat /\ Len(results) = line - 1 /\ line \in 1 .. MaxLines
        /\ Len(results') = line
        /\ \A m \in 1 .. Len(results) : results'[m] = results[m]
    BY <1>2, ResultAdded
  <2>2. \A m \in 1 .. Len(results) : m \in 1 .. Len(results')
    BY <2>1
  <2> QED
    BY <2>1, <2>2 DEF Ends, Failed, IsNewline
<1>3. CASE SendNewline \/ SendFails
  BY <1>2, <1>3 DEF SendNewline, SendFails
<1> QED
  BY <1>1, <1>3 DEF Next, Send, SendText, SendLine, SetNonblocking, GiveUp, PoolReads,
     ConnectionBreaks

\* As long as the stream is what it was, each byte follows the one before it.
LEMMA FollowsStays ==
    ASSUME TypeOK, [Next]_vars, FollowInv, Stream' = Stream
    PROVE  \A i \in 1 .. Len(Stream') : Follows(i)'
BY EndsStays DEF FollowInv, Follows

\* A place among the last m of n + m.
LEMMA PlaceBehind ==
    ASSUME NEW n \in Nat, NEW m \in Nat, NEW i \in 1 .. m
    PROVE  n + i \in 1 .. n + m /\ ~ (n + i <= n) /\ (n + i) - n = i
OBVIOUS

\* The next bytes of the line follow what was sent of it.
LEMMA FollowsGrows ==
    ASSUME TypeOK, [Next]_vars, FollowInv, inCall, NEW p \in Seq(Byte), Len(p) > 0,
           \A i \in 1 .. Len(p) : p[i] = <<line, sent + i>>,
           UNCHANGED received, sockbuf' = sockbuf \o p
    PROVE  /\ \A i \in 1 .. Len(Stream') : Follows(i)'
           /\ Len(Stream') > 0 /\ Stream'[Len(Stream')] = <<line, sent + Len(p)>>
<1> DEFINE n == Len(Stream)
           S == Stream'
<1>1. /\ Stream \in Seq(Byte) /\ n \in Nat /\ Len(p) \in Nat
      /\ line \in Nat /\ sent \in Nat
  BY StreamType, TypeParts, SenderAssumption DEF CallTypes
<1>2. S = Stream \o p
  BY TypeParts, StreamAppended
<1>3. /\ Len(S) = n + Len(p)
      /\ \A i \in 1 .. Len(S) : S[i] = IF i <= n THEN Stream[i] ELSE p[i - n]
  BY <1>1, <1>2, ConcatProperties
<1> DEFINE EndsNext(x) == IsNewline(x) \/ (x[1] \in 1 .. Len(results') /\ ~ results'[x[1]])
<1>4. \A i \in 1 .. n : Follows(i)
  BY DEF FollowInv
<1>5. \A x : Ends(x) => EndsNext(x)
  BY EndsStays DEF Ends, Failed, IsNewline
<1>6. /\ sent > 0 => n > 0 /\ Stream[n] = <<line, sent>>
      /\ ~ (sent > 0) => n = 0 \/ Ends(Stream[n])
  BY DEF FollowInv
<1> HIDE DEF n
<1>7. ASSUME NEW i \in 1 .. n PROVE i \in 1 .. Len(S) /\ S[i] = Stream[i]
  BY <1>1, <1>3
<1>8. ASSUME NEW i \in 1 .. Len(p) PROVE n + i \in 1 .. Len(S) /\ S[n + i] = <<line, sent + i>>
  <2>1. n + i \in 1 .. Len(S) /\ ~ (n + i <= n) /\ (n + i) - n = i
    BY <1>1, <1>3, <1>8, PlaceBehind
  <2> QED
    BY <1>3, <2>1
<1> HIDE DEF S, EndsNext
<1> DEFINE At(i) == \/ S[i][2] # 1 /\ i > 1 /\ S[i - 1] = <<S[i][1], S[i][2] - 1>>
                    \/ S[i][2] = 1 /\ (i = 1 \/ EndsNext(S[i - 1]))
<1>9. ASSUME NEW i \in 1 .. n
      PROVE  At(i)
  <2>1. S[i] = Stream[i]
    BY <1>7
  <2>2. i > 1 => S[i - 1] = Stream[i - 1]
    <3>1. i > 1 => i - 1 \in 1 .. n
      BY <1>1
    <3> QED
      BY <1>7, <3>1
  <2>3. i = 1 \/ i > 1
    BY <1>1
  <2>4. \/ Stream[i][2] # 1 /\ i > 1 /\ Stream[i - 1] = <<Stream[i][1], Stream[i][2] - 1>>
        \/ Stream[i][2] = 1 /\ (i = 1 \/ Ends(Stream[i - 1]))
    BY <1>4, Zenon DEF Follows
  <2>5. CASE Stream[i][2] # 1 /\ i > 1 /\ Stream[i - 1] = <<Stream[i][1], Stream[i][2] - 1>>
    BY <2>1, <2>2, <2>5
  <2>6. CASE Stream[i][2] = 1 /\ i = 1
    BY <2>1, <2>6
  <2>7. CASE Stream[i][2] = 1 /\ i > 1 /\ Ends(Stream[i - 1])
    <3>1. EndsNext(S[i - 1])
      BY <1>5, <2>2, <2>7
    <3> QED
      BY <2>1, <2>7, <3>1
  <2> QED
    BY <2>3, <2>4, <2>5, <2>6, <2>7
<1>10. ASSUME NEW k \in 1 .. Len(p), k > 1
       PROVE  At(n + k)
  <2>1. k - 1 \in 1 .. Len(p) /\ n + (k - 1) = (n + k) - 1 /\ n + k > 1
    BY <1>1, <1>10
  <2>2. S[n + k] = <<line, sent + k>> /\ S[(n + k) - 1] = <<line, sent + (k - 1)>>
    BY <1>8, <2>1
  <2>3. sent + k # 1 /\ (sent + k) - 1 = sent + (k - 1)
    BY <1>1, <1>10
  <2> QED
    BY <2>1, <2>2, <2>3
<1>11. At(n + 1)
  <2>1. 1 \in 1 .. Len(p) /\ (n + 1) - 1 = n
    BY <1>1
  <2>2. S[n + 1] = <<line, sent + 1>>
    BY <1>8, <2>1
  <2>3. n > 0 => S[n] = Stream[n]
    <3>1. n > 0 => n \in 1 .. n
      BY <1>1
    <3> QED
      BY <1>7, <3>1
  <2>4. CASE sent > 0
    <3>1. sent + 1 # 1 /\ n + 1 > 1 /\ (sent + 1) - 1 = sent
      BY <1>1, <1>6, <2>4
    <3> QED
      BY <1>6, <2>1, <2>2, <2>3, <2>4, <3>1
  <2>5. CASE ~ (sent > 0)
    <3>1. sent + 1 = 1 /\ (n = 0 => n + 1 = 1) /\ (n = 0 \/ n > 0)
      BY <1>1, <2>5
    <3> QED
      BY <1>5, <1>6, <2>1, <2>2, <2>3, <2>5, <3>1
  <2> QED
    BY <2>4, <2>5
<1>12. \A i \in 1 .. Len(S) : i \in 1 .. n \/ \E k \in 1 .. Len(p) : i = n + k
  <2> SUFFICES ASSUME NEW i \in 1 .. Len(S), i \notin 1 .. n
               PROVE  \E k \in 1 .. Len(p) : i = n + k
    OBVIOUS
  <2>1. i - n \in 1 .. Len(p) /\ i = n + (i - n)
    BY <1>1, <1>3
  <2> QED
    BY <2>1
<1>13. \A k \in 1 .. Len(p) : k = 1 \/ k > 1
  BY <1>1
<1>14. Len(S) > 0 /\ S[Len(S)] = <<line, sent + Len(p)>>
  <2>1. Len(p) \in 1 .. Len(p) /\ Len(S) = n + Len(p) /\ Len(S) > 0
    BY <1>1, <1>3
  <2> QED
    BY <1>8, <2>1
<1>15. \A i \in 1 .. Len(S) : At(i)
  <2> HIDE DEF At
  <2> QED
    BY <1>9, <1>10, <1>11, <1>12, <1>13
<1>16. \A i \in 1 .. Len(S) : Follows(i)'
  BY <1>15, Zenon DEF S, Follows, EndsNext, Ends, Failed, IsNewline
<1> QED
  BY <1>14, <1>16 DEF S

\* Every step keeps that each byte follows the one before it.
LEMMA FollowStep ==
    ASSUME TypeOK, FollowInv, [Next]_vars
    PROVE  FollowInv'
<1>1. /\ line \in Nat /\ sent \in Nat /\ sent <= LineLen /\ LineLen \in Nat \ {0}
  BY SenderAssumption, TypeParts DEF CallTypes
<1>2. \A x : Ends(x) => Ends(x)'
  BY EndsStays
<1>3. CASE SendText
  <2>1. PICK k \in 1 .. TextLeft : sockbuf' = sockbuf \o Piece(k) /\ sent' = sent + k
    BY <1>3 DEF SendText
  <2>2. inCall /\ inCall' /\ UNCHANGED <<line, received>>
    BY <1>3 DEF SendText
  <2>3. /\ Piece(k) \in Seq(Byte) /\ Len(Piece(k)) = k
        /\ \A i \in 1 .. k : Piece(k)[i] = <<line, sent + i>>
    BY <2>1, <2>2, PieceBytes
  <2>4. k > 0 /\ sent' > 0
    BY <1>1, <2>1 DEF TextLeft
  <2>5. /\ \A i \in 1 .. Len(Stream') : Follows(i)'
        /\ Len(Stream') > 0 /\ Stream'[Len(Stream')] = <<line, sent + k>>
    BY <2>1, <2>2, <2>3, <2>4, FollowsGrows
  <2> QED
    BY <2>1, <2>2, <2>4, <2>5 DEF FollowInv
<1>4. CASE SendNewline
  <2> DEFINE x == <<line, LineLen + 1>>
             p == <<x>>
  <2>1. /\ inCall /\ sent = LineLen /\ sockbuf' = Append(sockbuf, x) /\ inCall' = FALSE
        /\ Returned(TRUE) /\ UNCHANGED received
    <3>1. /\ inCall /\ LineLen - sent = 0 /\ sockbuf' = Append(sockbuf, x) /\ inCall' = FALSE
          /\ Returned(TRUE) /\ UNCHANGED received
      BY <1>4 DEF SendNewline, TextLeft
    <3>2. sent = LineLen
      BY <1>1, <3>1
    <3> QED
      BY <3>1, <3>2
  <2>2. line \in 1 .. MaxLines
    BY <2>1, ResultAdded
  <2>3. x \in Byte /\ sockbuf \in Seq(Byte)
    BY <1>1, <2>2, TypeParts DEF Byte, WireTypes
  <2>4. sockbuf' = sockbuf \o p
    BY <2>1, <2>3, AppendIsConcat
  <2>5. p \in Seq(Byte) /\ Len(p) = 1 /\ \A i \in 1 .. Len(p) : p[i] = <<line, sent + i>>
    <3>1. p \in Seq(Byte) /\ Len(p) = 1 /\ p[1] = x
      BY <2>3
    <3>2. \A i \in 1 .. 1 : i = 1
      OBVIOUS
    <3> QED
      BY <2>1, <3>1, <3>2
  <2> HIDE DEF p
  <2>8. Len(p) > 0
    BY <2>5
  <2>6. /\ \A i \in 1 .. Len(Stream') : Follows(i)'
        /\ Stream'[Len(Stream')] = <<line, sent + 1>>
    BY <2>1, <2>4, <2>5, <2>8, FollowsGrows
  <2>7. Ends(Stream[Len(Stream)])'
    BY <2>1, <2>6 DEF Ends, IsNewline
  <2> QED
    BY <2>1, <2>6, <2>7 DEF FollowInv
<1>5. CASE SendFails
  <2>1. /\ inCall /\ inCall' = FALSE /\ Returned(FALSE)
        /\ UNCHANGED <<line, sent, received, sockbuf>>
    BY <1>5 DEF SendFails
  <2>2. Len(results') = line /\ results'[line] = FALSE /\ line \in 1 .. line
    <3>1. Len(results') = line /\ results'[line] = FALSE /\ line \in 1 .. MaxLines
      BY <2>1, ResultAdded
    <3> QED
      BY <1>1, <3>1
  <2>3. Stream' = Stream
    BY <2>1 DEF Stream
  <2>4. sent > 0 => Ends(Stream[Len(Stream)])'
    BY <2>1, <2>2, <2>3 DEF FollowInv, Ends, Failed
  <2>5. Len(Stream') = 0 \/ Ends(Stream[Len(Stream)])'
    BY <1>2, <2>1, <2>3, <2>4 DEF FollowInv
  <2> QED
    BY <2>1, <2>3, <2>5, FollowsStays DEF FollowInv
<1>6. CASE SendLine
  <2>1. ~inCall /\ sent' = 0 /\ UNCHANGED <<received, sockbuf>>
    BY <1>6 DEF SendLine
  <2>2. Stream' = Stream /\ ~ (sent' > 0)
    BY <2>1 DEF Stream
  <2>3. Len(Stream') = 0 \/ Ends(Stream[Len(Stream)])'
    BY <1>2, <2>1, <2>2 DEF FollowInv
  <2> QED
    BY <2>2, <2>3, FollowsStays DEF FollowInv
<1>7. CASE PoolReads \/ SetNonblocking \/ GiveUp \/ ConnectionBreaks \/ UNCHANGED vars
  <2>1. UNCHANGED <<line, inCall, sent>>
    BY <1>7 DEF PoolReads, SetNonblocking, GiveUp, ConnectionBreaks
  <2>2. Stream' = Stream
    BY <1>7, ReadingMovesTheCut, TypeParts DEF SetNonblocking, GiveUp, ConnectionBreaks, Stream
  <2>3. Len(Stream) = 0 \/ Ends(Stream[Len(Stream)]) =>
          Len(Stream') = 0 \/ Ends(Stream[Len(Stream)])'
    BY <1>2, <2>2
  <2> QED
    BY <2>1, <2>2, <2>3, FollowsStays DEF FollowInv
<1> QED
  BY <1>3, <1>4, <1>5, <1>6, <1>7 DEF Next, Send

\* In the whole stream a byte follows the one before it.
LEMMA FollowInvariant == Spec => []FollowInv
<1>1. Init => FollowInv
  <2> SUFFICES ASSUME Init PROVE FollowInv
    OBVIOUS
  <2>1. Stream = <<>> /\ Len(Stream) = 0 /\ inCall = FALSE
    BY DEF Init, Stream
  <2>2. 1 .. 0 = {}
    OBVIOUS
  <2> QED
    BY <2>1, <2>2 DEF FollowInv
<1> QED
  BY <1>1, FollowStep, SenderTypes, PTL DEF Spec

\* A byte inside a line has the one before it in front of it.
LEMMA FollowsBack ==
    ASSUME NEW j, NEW m, NEW c, Stream[j] = <<m, c>>, Follows(j), c # 1
    PROVE  j > 1 /\ Stream[j - 1] = <<m, c - 1>>
BY DEF Follows

\* One place back.
LEMMA OneBack ==
    ASSUME NEW L \in Nat, NEW i \in Nat, NEW k \in Nat, k # 0, k <= L
    PROVE  /\ k - 1 \in 0 .. L /\ ~ (k <= k - 1)
           /\ L + 1 - (k - 1) # 1 /\ (L + 1 - (k - 1)) - 1 = L + 1 - k
           /\ (i - (k - 1)) - 1 = i - k
OBVIOUS

\* From a newline on the wire back to the first byte of its line.
LEMMA WholeLineBefore ==
    ASSUME TypeOK, FollowInv, NEW i \in 1 .. Len(Stream), IsNewline(Stream[i])
    PROVE  \A k \in 0 .. LineLen :
              i - k \in 1 .. Len(Stream) /\ Stream[i - k] = <<Stream[i][1], LineLen + 1 - k>>
<1> DEFINE Good(k) ==
             i - k \in 1 .. Len(Stream) /\ Stream[i - k] = <<Stream[i][1], LineLen + 1 - k>>
           Bad == {k \in 0 .. LineLen : ~ Good(k)}
<1>1. LineLen \in Nat \ {0} /\ Len(Stream) \in Nat /\ Stream[i] \in Byte
  BY SenderAssumption, StreamType, TypeParts
<1>2. Good(0)
  <2>1. Stream[i] = <<Stream[i][1], LineLen + 1>>
    BY <1>1 DEF IsNewline, Byte
  <2>2. i - 0 = i /\ LineLen + 1 - 0 = LineLen + 1
    BY <1>1
  <2> QED
    BY <2>1, <2>2
<1> SUFFICES ASSUME Bad # {} PROVE FALSE
  OBVIOUS
<1>3. PICK k \in Bad : \A j \in Bad : k <= j
  <2>1. Bad \subseteq Nat
    BY <1>1
  <2> HIDE DEF Bad
  <2> QED
    BY <2>1, LeastNumber
<1>0. k \in Nat /\ k <= LineLen /\ ~ Good(k) /\ i \in Nat
  BY <1>1, <1>3
<1>4. k # 0
  <2> HIDE DEF Good
  <2> QED
    BY <1>0, <1>2
<1>5. /\ k - 1 \in 0 .. LineLen /\ ~ (k <= k - 1)
      /\ LineLen + 1 - (k - 1) # 1 /\ (LineLen + 1 - (k - 1)) - 1 = LineLen + 1 - k
      /\ (i - (k - 1)) - 1 = i - k
  BY <1>0, <1>1, <1>4, OneBack
<1>6. Good(k - 1)
  <2> HIDE DEF Good
  <2> QED
    BY <1>3, <1>5
<1> DEFINE j == i - (k - 1)
<1>7. j \in 1 .. Len(Stream) /\ Stream[j] = <<Stream[i][1], LineLen + 1 - (k - 1)>> /\ Follows(j)
  BY <1>6 DEF FollowInv
<1>8. /\ LineLen + 1 - (k - 1) # 1 /\ (LineLen + 1 - (k - 1)) - 1 = LineLen + 1 - k
      /\ j - 1 = i - k
  BY <1>5
<1>9. j > 1 /\ Stream[i - k] = <<Stream[i][1], LineLen + 1 - k>>
  <2> DEFINE c == LineLen + 1 - (k - 1)
  <2>1. Stream[j] = <<Stream[i][1], c>> /\ Follows(j) /\ c # 1
    BY <1>7, <1>8
  <2> HIDE DEF j, c
  <2>2. j > 1 /\ Stream[j - 1] = <<Stream[i][1], c - 1>>
    BY <2>1, FollowsBack
  <2> QED
    BY <1>8, <2>2 DEF c
<1>10. i - k \in 1 .. Len(Stream)
  <2>1. j - 1 \in 1 .. Len(Stream)
    <3> HIDE DEF j
    <3> QED
      BY <1>1, <1>7, <1>9
  <2> QED
    BY <1>8, <2>1
<1> QED
  BY <1>0, <1>9, <1>10

\* What ends in a newline ends with the whole text of its line, and what stands in
\* front of that is nothing, the newline of another line, or a line net_send_line
\* has returned false for (net_posix.c:57-78): how far PoolReadsWholeLines goes.
RunTogetherOnlyAfterFailure ==
    \A i \in 1 .. Len(Stream) : IsNewline(Stream[i]) =>
        /\ i >= LineLen + 1
        /\ \A k \in 0 .. LineLen : Stream[i - k] = <<Stream[i][1], LineLen + 1 - k>>
        /\ i = LineLen + 1 \/ Ends(Stream[i - LineLen - 1])

\* Two lines run together on the wire only where the first one was reported as not
\* sent.
THEOREM LinesRunTogetherOnlyAfterFailure == Spec => []RunTogetherOnlyAfterFailure
<1>1. ASSUME TypeOK, FollowInv PROVE RunTogetherOnlyAfterFailure
  <2> SUFFICES ASSUME NEW i \in 1 .. Len(Stream), IsNewline(Stream[i])
               PROVE  /\ i >= LineLen + 1
                      /\ \A k \in 0 .. LineLen :
                            Stream[i - k] = <<Stream[i][1], LineLen + 1 - k>>
                      /\ i = LineLen + 1 \/ Ends(Stream[i - LineLen - 1])
    BY DEF RunTogetherOnlyAfterFailure
  <2>1. LineLen \in Nat \ {0} /\ Len(Stream) \in Nat
    BY <1>1, SenderAssumption, StreamType, TypeParts
  <2>2. \A k \in 0 .. LineLen :
          i - k \in 1 .. Len(Stream) /\ Stream[i - k] = <<Stream[i][1], LineLen + 1 - k>>
    BY <1>1, WholeLineBefore
  <2> DEFINE j == i - LineLen
  <2>3. /\ LineLen \in 0 .. LineLen /\ LineLen + 1 - LineLen = 1
        /\ j - 1 = i - LineLen - 1
    BY <2>1
  <2>4. j \in 1 .. Len(Stream) /\ Stream[j] = <<Stream[i][1], 1>> /\ Follows(j)
    BY <1>1, <2>2, <2>3 DEF FollowInv
  <2>5. j = 1 \/ Ends(Stream[j - 1])
    <3> HIDE DEF j
    <3> QED
      BY <2>4 DEF Follows
  <2>6. i >= LineLen + 1 /\ (j = 1 => i = LineLen + 1)
    BY <2>1, <2>4
  <2> QED
    BY <2>2, <2>3, <2>5, <2>6
<1> QED
  BY <1>1, SenderTypes, FollowInvariant, PTL

\* As long as every net_send_line has returned true the pool reads whole lines, and
\* nothing else (the property the run finds violated needs a failed send).
THEOREM WholeLinesUntilFailure ==
    Spec => []((\A m \in 1 .. Len(results) : results[m]) => PoolReadsWholeLines)
<1>1. ASSUME RunTogetherOnlyAfterFailure, \A m \in 1 .. Len(results) : results[m]
      PROVE  PoolReadsWholeLines
  BY <1>1 DEF RunTogetherOnlyAfterFailure, PoolReadsWholeLines, Ends, Failed
<1>2. RunTogetherOnlyAfterFailure =>
        ((\A m \in 1 .. Len(results) : results[m]) => PoolReadsWholeLines)
  BY <1>1
<1> QED
  BY <1>2, LinesRunTogetherOnlyAfterFailure, PTL
=============================================================================
