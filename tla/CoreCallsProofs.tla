---------------------------- MODULE CoreCallsProofs ----------------------------
(***************************************************************************)
(* Proofs about CoreCalls for every value of its constants: messages of    *)
(* any length cut anywhere, any job, extranonce and nonce, any compact     *)
(* target and any difficulty.  Each theorem rests on the lemmas before it: *)
(* what an update has taken in, the block or blocks the final call adds,   *)
(* the pieces of a header, the number a target stands for.                 *)
(***************************************************************************)
EXTENDS CoreCalls, SequenceTheorems, WellFoundedInduction, TLAPS

-----------------------------------------------------------------------------
(* General facts. *)

\* Every non-empty set of naturals has a least element.
LEMMA LeastIndex ==
    ASSUME NEW S, S \subseteq Nat, S # {}
    PROVE  \E m \in S : \A n \in S : m <= n
<1> DEFINE R == OpToRel(<, Nat)
<1>1. IsWellFoundedOn(R, Nat)
  BY NatLessThanWellFounded
<1>2. \A m, n \in Nat : <<m, n>> \in R <=> m < n
  BY DEF OpToRel
<1>3. PICK m \in S : \A n \in S : <<n, m>> \notin R
  <2> HIDE DEF R
  <2> QED
    BY <1>1, WFMin, Zenon
<1>4. \A n \in S : ~ (n < m)
  <2> HIDE DEF R
  <2> QED
    BY <1>2, <1>3
<1> QED
  BY <1>4

\* A piece of a text, by the places before it and at its end.
LEMMA PieceIs ==
    ASSUME NEW V, NEW s \in Seq(V), NEW a \in Nat, NEW b \in Nat, a <= b, b <= Len(s)
    PROVE  /\ SubSeq(s, a + 1, b) \in Seq(V) /\ Len(SubSeq(s, a + 1, b)) = b - a
           /\ \A i \in 1 .. b - a : SubSeq(s, a + 1, b)[i] = s[a + i]
<1>1. a + 1 \in Int /\ b \in Int /\ \A i \in a + 1 .. b : s[i] \in V
  OBVIOUS
<1>2. /\ SubSeq(s, a + 1, b) \in Seq(V)
      /\ Len(SubSeq(s, a + 1, b)) = IF a + 1 <= b THEN b - (a + 1) + 1 ELSE 0
      /\ \A i \in 1 .. b - (a + 1) + 1 : SubSeq(s, a + 1, b)[i] = s[(a + 1) + i - 1]
  BY <1>1, SubSeqProperties
<1>3. ASSUME NEW i \in 1 .. b - a PROVE SubSeq(s, a + 1, b)[i] = s[a + i]
  <2>1. i \in 1 .. b - (a + 1) + 1 /\ (a + 1) + i - 1 = a + i
    OBVIOUS
  <2> QED
    BY <1>2, <2>1
<1>4. Len(SubSeq(s, a + 1, b)) = b - a
  BY <1>2
<1> QED
  BY <1>2, <1>3, <1>4

\* What lies behind a place of a piece is a piece up to the same end.
LEMMA RestOfPiece ==
    ASSUME NEW V, NEW s \in Seq(V), NEW p \in Nat, NEW q \in Nat, p <= q, q <= Len(s),
           NEW a \in Nat, a <= q - p
    PROVE  SubSeq(SubSeq(s, p + 1, q), a + 1, q - p) = SubSeq(s, (p + a) + 1, q)
<1> DEFINE t == SubSeq(s, p + 1, q)
           x == SubSeq(t, a + 1, q - p)
           y == SubSeq(s, (p + a) + 1, q)
<1>1. t \in Seq(V) /\ Len(t) = q - p /\ \A i \in 1 .. q - p : t[i] = s[p + i]
  BY PieceIs
<1> HIDE DEF t
<1>2. x \in Seq(V) /\ Len(x) = (q - p) - a /\ \A i \in 1 .. (q - p) - a : x[i] = t[a + i]
  <2>1. q - p \in Nat /\ q - p <= Len(t)
    BY <1>1
  <2> QED
    BY <1>1, <2>1, PieceIs
<1>3. y \in Seq(V) /\ Len(y) = q - (p + a) /\ \A i \in 1 .. q - (p + a) : y[i] = s[(p + a) + i]
  <2>1. p + a \in Nat /\ p + a <= q
    OBVIOUS
  <2> QED
    BY <2>1, PieceIs
<1> HIDE DEF x, y
<1>4. Len(x) = Len(y)
  BY <1>2, <1>3
<1>5. ASSUME NEW i \in 1 .. Len(x) PROVE x[i] = y[i]
  <2>1. i \in 1 .. (q - p) - a /\ i \in 1 .. q - (p + a)
        /\ a + i \in 1 .. q - p /\ p + (a + i) = (p + a) + i
    BY <1>2
  <2> QED
    BY <1>1, <1>2, <1>3, <2>1
<1> QED
  BY <1>2, <1>3, <1>4, <1>5, SeqEqual DEF x, y, t

\* A list given by its elements, and one more of them.
LEMMA AppendNext ==
    ASSUME NEW n \in Nat, NEW f
    PROVE  Append([b \in 1 .. n |-> f[b]], f[n + 1]) = [b \in 1 .. n + 1 |-> f[b]]
<1> DEFINE S == {f[b] : b \in 1 .. n + 1}
           s == [b \in 1 .. n |-> f[b]]
           t == [b \in 1 .. n + 1 |-> f[b]]
<1>1. n + 1 \in Nat /\ \A b \in 1 .. n + 1 : f[b] \in S
  OBVIOUS
<1>2. s \in Seq(S) /\ t \in Seq(S) /\ f[n + 1] \in S
  <2>1. \A b \in 1 .. n : f[b] \in S
    BY <1>1
  <2> HIDE DEF S
  <2>2. s \in Seq(S) /\ t \in Seq(S)
    BY <1>1, <2>1
  <2> QED
    BY <1>1, <2>2
<1>3. /\ Append(s, f[n + 1]) \in Seq(S) /\ Len(Append(s, f[n + 1])) = n + 1
      /\ \A b \in 1 .. n : Append(s, f[n + 1])[b] = f[b]
      /\ Append(s, f[n + 1])[n + 1] = f[n + 1]
  <2>1. Len(s) = n /\ \A b \in 1 .. n : s[b] = f[b]
    OBVIOUS
  <2> HIDE DEF S, s
  <2> QED
    BY <1>2, <2>1, AppendProperties
<1>4. Len(t) = n + 1 /\ \A b \in 1 .. n + 1 : t[b] = f[b]
  BY <1>1
<1>5. \A b \in 1 .. n + 1 : b \in 1 .. n \/ b = n + 1
  OBVIOUS
<1> HIDE DEF S, s, t
<1>6. \A b \in 1 .. Len(Append(s, f[n + 1])) : Append(s, f[n + 1])[b] = t[b]
  BY <1>3, <1>4, <1>5
<1> QED
  BY <1>2, <1>3, <1>4, <1>6, SeqEqual DEF s, t

-----------------------------------------------------------------------------
(* sha256_ref_update. *)

\* Block b of a text; a context that holds whole blocks of it and some bytes of the
\* next; and one that has taken its first p bytes in.
BlockOf(M, b) == [k \in BlockIndex |-> M[64 * (b - 1) + k + 1]]
Holds(M, blocks, bytes, ctx) ==
    /\ ctx.chain = [b \in 1 .. blocks |-> BlockOf(M, b)]
    /\ ctx.buffer_len = bytes
    /\ ctx.bitlen = 512 * blocks
    /\ ctx.buffer = [k \in BlockIndex |-> ctx.buffer[k]]
    /\ \A k \in 0 .. bytes - 1 : ctx.buffer[k] = M[64 * blocks + k + 1]
Absorbed(M, p, ctx) == Holds(M, p \div 64, p % 64, ctx)

\* The place after a number of bytes that at most fill the block.
LEMMA BlockArithmetic ==
    ASSUME NEW p \in Nat, NEW a \in Nat, a <= 64 - (p % 64)
    PROVE  /\ p % 64 \in 0 .. 63 /\ p \div 64 \in Nat /\ p = 64 * (p \div 64) + (p % 64)
           /\ (p % 64) + a = 64 => (p + a) \div 64 = p \div 64 + 1 /\ (p + a) % 64 = 0
           /\ (p % 64) + a # 64 => (p + a) \div 64 = p \div 64 /\ (p + a) % 64 = (p % 64) + a
OBVIOUS

\* What a turn of the loop leaves: a context that has taken in as much of M up to
\* byte q as fits behind byte p, and the rest.
Taken(M, p, q, ctx, rest) ==
    \E a \in Nat : /\ p + a <= q /\ (a = q - p \/ a = 64 - (p % 64))
                  /\ Absorbed(M, p + a, ctx)
                  /\ rest = SubSeq(M, (p + a) + 1, q)

\* One filling of the buffer takes in what fits of the rest of the text.
LEMMA FillAbsorbs ==
    ASSUME NEW V, NEW M \in Seq(V), NEW p \in Nat, NEW q \in Nat, p <= q, q <= Len(M),
           NEW ctx, Absorbed(M, p, ctx)
    PROVE  LET data == SubSeq(M, p + 1, q)
           IN  Taken(M, p, q, Fill(ctx, data), SubSeq(data, Room(ctx) + 1, Len(data)))
<1> DEFINE data == SubSeq(M, p + 1, q)
           a == IF q - p < 64 - (p % 64) THEN q - p ELSE 64 - (p % 64)
           l == p % 64
           B == p \div 64
<1>1. data \in Seq(V) /\ Len(data) = q - p /\ \A i \in 1 .. q - p : data[i] = M[p + i]
  BY PieceIs
<1>2. a \in Nat /\ a <= q - p /\ a <= 64 - l /\ p + a <= q /\ p + a \in Nat
  OBVIOUS
<1>3. /\ l \in 0 .. 63 /\ B \in Nat /\ p = 64 * B + l
      /\ l + a = 64 => (p + a) \div 64 = B + 1 /\ (p + a) % 64 = 0
      /\ l + a # 64 => (p + a) \div 64 = B /\ (p + a) % 64 = l + a
  BY <1>2, BlockArithmetic
<1>4. /\ ctx.buffer_len = l /\ ctx.bitlen = 512 * B
      /\ ctx.chain = [b \in 1 .. B |-> BlockOf(M, b)]
      /\ \A k \in 0 .. l - 1 : ctx.buffer[k] = M[64 * B + k + 1]
      /\ Room(ctx) = 64 - l
  BY DEF Absorbed, Holds, Room
<1>5. (IF Len(data) < Room(ctx) THEN Len(data) ELSE Room(ctx)) = a
  <2>1. Len(data) = q - p /\ Room(ctx) = 64 - l
    BY <1>1, <1>4
  <2>2. a = IF q - p < 64 - l THEN q - p ELSE 64 - l
    OBVIOUS
  <2>3. l \in Int
    BY <1>3
  <2> HIDE DEF data, a, l
  <2> QED
    BY <2>1, <2>2, <2>3
<1> DEFINE buffer == [k \in BlockIndex |->
                        IF k \in l .. (l + a) - 1 THEN data[k - l + 1] ELSE ctx.buffer[k]]
           F == Fill(ctx, data)
<1>6. F = [chain |-> IF l + a = 64 THEN Append(ctx.chain, buffer) ELSE ctx.chain,
           buffer |-> buffer,
           buffer_len |-> IF l + a = 64 THEN 0 ELSE l + a,
           bitlen |-> IF l + a = 64 THEN ctx.bitlen + 512 ELSE ctx.bitlen]
  <2> DEFINE taken == IF Len(data) < Room(ctx) THEN Len(data) ELSE Room(ctx)
  <2>1. taken = a /\ ctx.buffer_len = l
    BY <1>4, <1>5
  <2>2. F = LET end == ctx.buffer_len + taken
                buf == [k \in BlockIndex |->
                          IF k \in ctx.buffer_len .. end - 1
                          THEN data[k - ctx.buffer_len + 1] ELSE ctx.buffer[k]]
                full == end = 64
            IN  [chain |-> IF full THEN Append(ctx.chain, buf) ELSE ctx.chain,
                 buffer |-> buf,
                 buffer_len |-> IF full THEN 0 ELSE end,
                 bitlen |-> IF full THEN ctx.bitlen + 512 ELSE ctx.bitlen]
    BY DEF Fill, Compress
  <2> HIDE DEF taken, a, l, data, F
  <2> QED
    BY <2>1, <2>2
<1>7. \A k \in 0 .. (l + a) - 1 : buffer[k] = M[64 * B + k + 1]
  <2> SUFFICES ASSUME NEW k \in 0 .. (l + a) - 1 PROVE buffer[k] = M[64 * B + k + 1]
    OBVIOUS
  <2>1. k \in BlockIndex
    BY <1>2, <1>3 DEF BlockIndex
  <2>2. CASE k < l
    <3>1. k \notin l .. (l + a) - 1 /\ k \in 0 .. l - 1
      BY <1>3, <2>2
    <3> QED
      BY <1>4, <2>1, <3>1
  <2>3. CASE ~ (k < l)
    <3>1. k \in l .. (l + a) - 1 /\ k - l + 1 \in 1 .. q - p
          /\ p + (k - l + 1) = 64 * B + k + 1
      BY <1>2, <1>3, <2>3
    <3> QED
      BY <1>1, <2>1, <3>1
  <2> QED
    BY <2>2, <2>3
<1>8. /\ buffer = [k \in BlockIndex |-> buffer[k]]
  OBVIOUS
<1> HIDE DEF data, a, l, B, buffer, F
<1>9. Absorbed(M, p + a, F)
  <2>1. CASE l + a = 64
    <3>1. buffer = BlockOf(M, B + 1)
      <4>1. \A k \in BlockIndex : k \in 0 .. (l + a) - 1
        BY <2>1 DEF BlockIndex
      <4>2. \A k \in BlockIndex : buffer[k] = M[64 * ((B + 1) - 1) + k + 1]
        BY <1>3, <1>7, <4>1
      <4> QED
        BY <1>8, <4>2 DEF BlockOf
    <3>2. F.chain = [b \in 1 .. B + 1 |-> BlockOf(M, b)]
      <4> DEFINE f == [b \in Nat |-> BlockOf(M, b)]
      <4>1. \A b \in 1 .. B : b \in Nat /\ f[b] = BlockOf(M, b)
        BY <1>3
      <4>2. \A b \in 1 .. B + 1 : f[b] = BlockOf(M, b)
        BY <1>3
      <4>3. f[B + 1] = BlockOf(M, B + 1)
        BY <1>3
      <4> HIDE DEF f
      <4>4. ctx.chain = [b \in 1 .. B |-> f[b]]
        BY <1>4, <4>1
      <4>5. F.chain = Append([b \in 1 .. B |-> f[b]], f[B + 1])
        BY <1>6, <2>1, <3>1, <4>3, <4>4
      <4>6. F.chain = [b \in 1 .. B + 1 |-> f[b]]
        BY <1>3, <4>5, AppendNext
      <4> QED
        BY <4>2, <4>6
    <3>3. F.bitlen = 512 * (B + 1)
      BY <1>3, <1>4, <1>6, <2>1
    <3>4. F.buffer = buffer /\ F.buffer_len = 0
      BY <1>6, <2>1
    <3>5. \A k \in 0 .. 0 - 1 : F.buffer[k] = M[64 * (B + 1) + k + 1]
      OBVIOUS
    <3> DEFINE r == p + a
               next == B + 1
    <3>6. r \div 64 = next /\ r % 64 = 0
      BY <1>3, <2>1
    <3>7. F.chain = [b \in 1 .. next |-> BlockOf(M, b)] /\ F.bitlen = 512 * next
          /\ \A k \in 0 .. 0 - 1 : F.buffer[k] = M[64 * next + k + 1]
      BY <3>2, <3>3, <3>5
    <3> HIDE DEF r, next
    <3>8. F.buffer = [k \in BlockIndex |-> F.buffer[k]]
      BY <1>8, <3>4
    <3>9. Holds(M, next, 0, F)
      BY <3>4, <3>7, <3>8 DEF Holds
    <3>10. Absorbed(M, r, F)
      BY <3>6, <3>9 DEF Absorbed
    <3> QED
      BY <3>10 DEF r
  <2>2. CASE l + a # 64
    <3>1. F.chain = ctx.chain /\ F.buffer = buffer /\ F.buffer_len = l + a
          /\ F.bitlen = ctx.bitlen
      BY <1>6, <2>2
    <3>2. (p + a) \div 64 = B /\ (p + a) % 64 = l + a
      BY <1>3, <2>2
    <3>3. F.chain = [b \in 1 .. B |-> BlockOf(M, b)] /\ F.bitlen = 512 * B
      BY <1>4, <3>1
    <3>4. F.buffer = [k \in BlockIndex |-> F.buffer[k]]
      BY <1>8, <3>1
    <3>5. \A k \in 0 .. (l + a) - 1 : F.buffer[k] = M[64 * B + k + 1]
      BY <1>7, <3>1
    <3> DEFINE r == p + a
    <3>6. r \div 64 = B /\ r % 64 = l + a
      BY <3>2
    <3> HIDE DEF r
    <3>7. Holds(M, B, l + a, F)
      BY <3>1, <3>3, <3>4, <3>5 DEF Holds
    <3>8. Absorbed(M, r, F)
      BY <3>6, <3>7 DEF Absorbed
    <3> QED
      BY <3>8 DEF r
  <2> QED
    BY <2>1, <2>2
<1>10. SubSeq(data, Room(ctx) + 1, Len(data)) = SubSeq(M, (p + a) + 1, q)
  <2>1. CASE a = 64 - l
    <3>1. Room(ctx) \in Nat /\ Room(ctx) = a /\ Len(data) = q - p
      BY <1>1, <1>2, <1>4, <2>1
    <3>2. SubSeq(data, a + 1, q - p) = SubSeq(M, (p + a) + 1, q)
      BY <1>2, RestOfPiece DEF data
    <3> QED
      BY <3>1, <3>2
  <2>2. CASE a # 64 - l
    <3>1. a = q - p /\ Room(ctx) \in Int /\ Len(data) < Room(ctx) + 1 /\ Len(data) \in Int
          /\ q < (p + a) + 1 /\ (p + a) + 1 \in Int /\ Room(ctx) + 1 \in Int
      <4>1. a = q - p
        <5>1. a = IF q - p < 64 - l THEN q - p ELSE 64 - l
          BY DEF a, l
        <5> QED
          BY <1>3, <2>2, <5>1
      <4> QED
        BY <1>1, <1>2, <1>3, <1>4, <2>2, <4>1
    <3> QED
      BY <3>1, SubSeqEmpty
  <2> QED
    BY <2>1, <2>2
<1>11. a = q - p \/ a = 64 - (p % 64)
  BY DEF a
<1> QED
  BY <1>2, <1>9, <1>10, <1>11 DEF data, F, Taken

\* The turns of the loop as a sequence: what they are defined by exists.
Refill(before) ==
    [ctx |-> Fill(before.ctx, before.rest),
     rest |-> SubSeq(before.rest, Room(before.ctx) + 1, Len(before.rest))]
Refills(f, N, first) == f = [n \in 0 .. N |-> IF n = 0 THEN first ELSE Refill(f[n - 1])]

LEMMA RefillsExist ==
    ASSUME NEW first, NEW N \in Nat
    PROVE  \E f : Refills(f, N, first)
<1> DEFINE Bad == {n \in Nat : ~ \E f : Refills(f, n, first)}
<1> SUFFICES ASSUME N \in Bad PROVE FALSE
  OBVIOUS
<1>1. PICK n \in Bad : \A m \in Bad : n <= m
  <2>1. Bad \subseteq Nat /\ Bad # {}
    OBVIOUS
  <2> HIDE DEF Bad
  <2> QED
    BY <2>1, LeastIndex
<1>2. CASE n = 0
  <2>1. Refills([i \in 0 .. 0 |-> first], 0, first)
    BY DEF Refills
  <2> QED
    BY <1>1, <1>2, <2>1
<1>3. CASE n # 0
  <2>1. n - 1 \in Nat /\ n - 1 \notin Bad /\ n \in Nat
    BY <1>1, <1>3
  <2>2. PICK f : Refills(f, n - 1, first)
    BY <2>1
  <2> DEFINE g == [i \in 0 .. n |-> IF i = n THEN Refill(f[n - 1]) ELSE f[i]]
  <2>3. \A i \in 0 .. n - 1 : f[i] = IF i = 0 THEN first ELSE Refill(f[i - 1])
    BY <2>2 DEF Refills
  <2>4. \A i \in 0 .. n : g[i] = IF i = 0 THEN first ELSE Refill(g[i - 1])
    <3> SUFFICES ASSUME NEW i \in 0 .. n
                 PROVE  g[i] = IF i = 0 THEN first ELSE Refill(g[i - 1])
      OBVIOUS
    <3>1. CASE i = n
      <4>1. g[i] = Refill(f[n - 1]) /\ g[n - 1] = f[n - 1]
        BY <2>1, <3>1
      <4> QED
        BY <1>3, <3>1, <4>1
    <3>2. CASE i # n
      <4>1. i \in 0 .. n - 1 /\ g[i] = f[i]
        BY <2>1, <3>2
      <4>2. i # 0 => g[i - 1] = f[i - 1]
        BY <2>1, <3>2
      <4> QED
        BY <2>3, <4>1, <4>2
    <3> QED
      BY <3>1, <3>2
  <2>5. g = [i \in 0 .. n |-> g[i]]
    OBVIOUS
  <2> HIDE DEF g
  <2>6. Refills(g, n, first)
    <3>1. g = [i \in 0 .. n |-> IF i = 0 THEN first ELSE Refill(g[i - 1])]
      BY <2>4, <2>5
    <3> QED
      BY <3>1 DEF Refills
  <2> QED
    BY <1>1, <2>6
<1> QED
  BY <1>2, <1>3

\* An update takes in all it is given, whatever the context holds already.
LEMMA UpdateAbsorbs ==
    ASSUME NEW V, NEW M \in Seq(V), NEW p \in Nat, NEW q \in Nat, p <= q, q <= Len(M),
           NEW ctx, Absorbed(M, p, ctx)
    PROVE  Absorbed(M, q, sha256_ref_update(ctx, SubSeq(M, p + 1, q)))
<1> DEFINE data == SubSeq(M, p + 1, q)
           N == Len(data) \div 64 + 2
           first == [ctx |-> ctx, rest |-> data]
           After == CHOOSE f : Refills(f, N, first)
<1>1. Len(data) = q - p
  BY PieceIs
<1>2. N \in Nat /\ q - p < 64 * (N - 1)
  BY <1>1
<1>3. sha256_ref_update(ctx, data) = After[N].ctx
  BY DEF sha256_ref_update, Refills, Refill
<1> HIDE DEF data, N
<1>4. Refills(After, N, first)
  <2>1. \E f : Refills(f, N, first)
    BY <1>2, RefillsExist
  <2> HIDE DEF first
  <2> QED
    BY <2>1
<1> HIDE DEF After
<1>5. After[0] = first /\ \A n \in 1 .. N : After[n] = Refill(After[n - 1])
  BY <1>2, <1>4 DEF Refills
<1> DEFINE
     Good(n) == \E t \in p .. q :
                    /\ Absorbed(M, t, After[n].ctx)
                    /\ After[n].rest = SubSeq(M, t + 1, q)
                    /\ t = q \/ n = 0 \/ (t >= p + 64 * (n - 1) + 1 /\ t % 64 = 0)
<1>6. Good(0)
  <2>1. After[0].ctx = ctx /\ After[0].rest = SubSeq(M, p + 1, q) /\ p \in p .. q
    BY <1>5 DEF data
  <2> QED
    BY <2>1
<1>7. ASSUME NEW n \in 1 .. N, Good(n - 1) PROVE Good(n)
  <2>1. PICK t \in p .. q :
           /\ Absorbed(M, t, After[n - 1].ctx)
           /\ After[n - 1].rest = SubSeq(M, t + 1, q)
           /\ t = q \/ n - 1 = 0 \/ (t >= p + 64 * ((n - 1) - 1) + 1 /\ t % 64 = 0)
    BY <1>7
  <2> DEFINE c == After[n - 1].ctx
             d == SubSeq(M, t + 1, q)
  <2>2. t \in Nat /\ t <= q /\ p <= t /\ n \in Nat
    BY <1>2, <2>1
  <2>3. PICK a \in Nat :
           /\ t + a <= q /\ (a = q - t \/ a = 64 - (t % 64))
           /\ Absorbed(M, t + a, Fill(c, d))
           /\ SubSeq(d, Room(c) + 1, Len(d)) = SubSeq(M, (t + a) + 1, q)
    <3>1. Absorbed(M, t, c)
      BY <2>1
    <3>2. Taken(M, t, q, Fill(c, d), SubSeq(d, Room(c) + 1, Len(d)))
      <4> HIDE DEF c
      <4> QED
        BY <2>2, <3>1, FillAbsorbs
    <3> HIDE DEF c, d
    <3> QED
      BY <3>2 DEF Taken
  <2>4. After[n].ctx = Fill(c, d) /\ After[n].rest = SubSeq(M, (t + a) + 1, q)
    <3>1. After[n] = Refill(After[n - 1])
      BY <1>5
    <3>2. After[n - 1].rest = d
      BY <2>1
    <3>3. Refill(After[n - 1]) = [ctx |-> Fill(c, d), rest |-> SubSeq(d, Room(c) + 1, Len(d))]
      BY <3>2 DEF Refill
    <3>4. After[n] = [ctx |-> Fill(c, d), rest |-> SubSeq(M, (t + a) + 1, q)]
      BY <2>3, <3>1, <3>3
    <3> QED
      BY <3>4
  <2>5. t + a = q \/ n = 0 \/ (t + a >= p + 64 * (n - 1) + 1 /\ (t + a) % 64 = 0)
    <3>1. t % 64 \in 0 .. 63 /\ (t + a = q \/ a = 64 - (t % 64))
      BY <2>2, <2>3
    <3>2. a = 64 - (t % 64) => (t + a) % 64 = 0
      BY <2>2
    <3>3. CASE a = 64 - (t % 64) /\ t + a # q
      <4>1. t # q
        BY <2>2, <2>3, <3>3
      <4>2. CASE n = 1
        BY <2>2, <2>3, <3>1, <3>2, <3>3, <4>2
      <4>3. CASE n # 1
        <5>1. t >= p + 64 * ((n - 1) - 1) + 1 /\ t % 64 = 0
          BY <2>1, <2>2, <4>1, <4>3
        <5>2. a = 64
          BY <3>3, <5>1
        <5> QED
          BY <2>2, <3>2, <3>3, <5>1, <5>2
      <4> QED
        BY <4>2, <4>3
    <3> QED
      BY <3>1, <3>3
  <2>6. t + a \in p .. q
    BY <2>2, <2>3
  <2> QED
    BY <2>3, <2>4, <2>5, <2>6
<1> HIDE DEF Good
<1>8. Good(N)
  <2> DEFINE Bad == {n \in 0 .. N : ~ Good(n)}
  <2> SUFFICES ASSUME Bad # {} PROVE FALSE
    BY <1>2
  <2>1. PICK n \in Bad : \A m \in Bad : n <= m
    <3>1. Bad \subseteq Nat
      OBVIOUS
    <3> HIDE DEF Bad
    <3> QED
      BY <3>1, LeastIndex
  <2>2. n # 0
    BY <1>6, <2>1
  <2>3. n - 1 \in 0 .. N /\ n - 1 \notin Bad /\ n \in 1 .. N
    BY <1>2, <2>1, <2>2
  <2> QED
    BY <1>7, <2>1, <2>3
<1>9. PICK t \in p .. q :
         /\ Absorbed(M, t, After[N].ctx)
         /\ t = q \/ N = 0 \/ t >= p + 64 * (N - 1) + 1
  BY <1>8 DEF Good
<1>10. t = q
  BY <1>2, <1>9
<1> QED
  BY <1>3, <1>9, <1>10 DEF data

\* A fresh context has taken in nothing.
LEMMA InitAbsorbed ==
    ASSUME NEW M
    PROVE  Absorbed(M, 0, sha256_ref_init)
<1>1. 0 \div 64 = 0 /\ 0 % 64 = 0
  OBVIOUS
<1>2. [b \in 1 .. 0 |-> BlockOf(M, b)] = <<>>
  OBVIOUS
<1> QED
  BY <1>1, <1>2 DEF Absorbed, Holds, sha256_ref_init

-----------------------------------------------------------------------------
(* sha256_ref_final. *)

\* The padding of FIPS 180-4 place by place, and the blocks it is cut into.
PaddedBlocks(n) == (n + 8) \div 64 + 1
PaddedByte(M, i) ==
    LET n == Len(M)
        last == 64 * PaddedBlocks(n)
    IN  IF i <= n THEN M[i]
        ELSE IF i = n + 1 THEN Val(128)
        ELSE IF i <= last - 8 THEN Val(0) ELSE Val(LengthByte(8 * n, last - i))
PaddedBlock(M, b) == [k \in BlockIndex |-> PaddedByte(M, 64 * (b - 1) + k + 1)]

\* How many blocks there are, whichever way the bytes behind the message are counted.
LEMMA BlocksArithmetic ==
    ASSUME NEW n \in Nat
    PROVE  /\ n % 64 \in 0 .. 63 /\ n \div 64 \in Nat /\ n = 64 * (n \div 64) + (n % 64)
           /\ n % 64 < 56 => PaddedBlocks(n) = n \div 64 + 1
           /\ n % 64 >= 56 => PaddedBlocks(n) = n \div 64 + 2
BY DEF PaddedBlocks

\* The four parts of the padded message.
LEMMA PaddedByteIs ==
    ASSUME NEW M, Len(M) \in Nat, NEW i \in Nat
    PROVE  /\ i <= Len(M) => PaddedByte(M, i) = M[i]
           /\ i = Len(M) + 1 => PaddedByte(M, i) = Val(128)
           /\ i > Len(M) + 1 /\ i <= 64 * PaddedBlocks(Len(M)) - 8 => PaddedByte(M, i) = Val(0)
           /\ i > Len(M) + 1 /\ i > 64 * PaddedBlocks(Len(M)) - 8 =>
                  PaddedByte(M, i) = Val(LengthByte(8 * Len(M), 64 * PaddedBlocks(Len(M)) - i))
<1>1. PaddedBlocks(Len(M)) \in Nat
  BY BlocksArithmetic DEF PaddedBlocks
<1> HIDE DEF PaddedBlocks
<1> QED
  BY <1>1 DEF PaddedByte

\* The same with the numbers named.
PadRule(M, i, n, N, bits) ==
    /\ i <= n => PaddedByte(M, i) = M[i]
    /\ i = n + 1 => PaddedByte(M, i) = Val(128)
    /\ i > n + 1 /\ i <= 64 * N - 8 => PaddedByte(M, i) = Val(0)
    /\ i > n + 1 /\ i > 64 * N - 8 => PaddedByte(M, i) = Val(LengthByte(bits, 64 * N - i))

LEMMA PaddedByteAt ==
    ASSUME NEW M, NEW n \in Nat, Len(M) = n, NEW N, PaddedBlocks(n) = N, NEW bits, bits = 8 * n,
           NEW i \in Nat
    PROVE  PadRule(M, i, n, N, bits)
BY PaddedByteIs DEF PadRule

\* The final call with the bits counted and the place of the mark taken out.
Closing(ctx, bits, at) ==
    LET i == at + 1
        marked == [ctx.buffer EXCEPT ![at] = Val(128)]
        filled == [k \in BlockIndex |-> IF k >= i THEN Val(0) ELSE marked[k]]
        chain == IF NoRoom(i) THEN Compress(ctx.chain, filled) ELSE ctx.chain
        start == IF NoRoom(i) THEN 0 ELSE i
        buffer == IF NoRoom(i) THEN filled ELSE marked
        last == [k \in BlockIndex |->
                    IF k >= 56 THEN Val(LengthByte(bits, 63 - k))
                    ELSE IF k >= start THEN Val(0) ELSE buffer[k]]
    IN  Compress(chain, last)

LEMMA FinalCloses ==
    ASSUME NEW ctx
    PROVE  sha256_ref_final(ctx) = Closing(ctx, ctx.bitlen + ctx.buffer_len * 8, ctx.buffer_len)
BY DEF sha256_ref_final, Closing

\* What it comes to with room for the length in the block, and without.
Marked(ctx, at) == [ctx.buffer EXCEPT ![at] = Val(128)]
Filled(ctx, at) == [k \in BlockIndex |-> IF k >= at + 1 THEN Val(0) ELSE Marked(ctx, at)[k]]
Closed(bits, start, buffer) ==
    [k \in BlockIndex |->
        IF k >= 56 THEN Val(LengthByte(bits, 63 - k))
        ELSE IF k >= start THEN Val(0) ELSE buffer[k]]

LEMMA ClosingIs ==
    ASSUME NEW ctx, NEW bits, NEW at
    PROVE  /\ NoRoom(at + 1) =>
                 Closing(ctx, bits, at) =
                     Append(Append(ctx.chain, Filled(ctx, at)), Closed(bits, 0, Filled(ctx, at)))
           /\ ~ NoRoom(at + 1) =>
                 Closing(ctx, bits, at) = Append(ctx.chain, Closed(bits, at + 1, Marked(ctx, at)))
<1> DEFINE i == at + 1
           filled == Filled(ctx, at)
           marked == Marked(ctx, at)
           chain == IF NoRoom(i) THEN Append(ctx.chain, filled) ELSE ctx.chain
           start == IF NoRoom(i) THEN 0 ELSE i
           buffer == IF NoRoom(i) THEN filled ELSE marked
<1>1. Closing(ctx, bits, at) = Append(chain, Closed(bits, start, buffer))
  BY DEF Closing, Compress, Closed, Filled, Marked
<1>2. /\ NoRoom(i) => chain = Append(ctx.chain, filled) /\ start = 0 /\ buffer = filled
      /\ ~ NoRoom(i) => chain = ctx.chain /\ start = i /\ buffer = marked
  <2> HIDE DEF i, marked, filled
  <2> QED
    OBVIOUS
<1> HIDE DEF chain, start, buffer
<1> QED
  BY <1>1, <1>2

\* The final call closes what the context has taken in by the padding.
LEMMA FinalPads ==
    ASSUME NEW V, NEW M \in Seq(V), NEW ctx, Absorbed(M, Len(M), ctx)
    PROVE  sha256_ref_final(ctx) = [b \in 1 .. PaddedBlocks(Len(M)) |-> PaddedBlock(M, b)]
<1> DEFINE n == Len(M)
           l == n % 64
           B == n \div 64
           N == PaddedBlocks(n)
           f == [b \in Nat |-> PaddedBlock(M, b)]
           marked == Marked(ctx, l)
           filled == Filled(ctx, l)
           LengthAt(k) == Val(LengthByte(8 * n, 63 - k))
           closed == Closed(8 * n, l + 1, marked)
           second == Closed(8 * n, 0, filled)
<1>1. /\ n \in Nat /\ l \in 0 .. 63 /\ B \in Nat /\ n = 64 * B + l /\ N \in Nat
      /\ l < 56 => N = B + 1
      /\ l >= 56 => N = B + 2
  <2>1. n \in Nat
    OBVIOUS
  <2>2. /\ l \in 0 .. 63 /\ B \in Nat /\ n = 64 * B + l
        /\ l < 56 => N = B + 1
        /\ l >= 56 => N = B + 2
    <3> HIDE DEF n
    <3> QED
      BY <2>1, BlocksArithmetic
  <2> HIDE DEF n, l, B, N
  <2> QED
    BY <2>1, <2>2
<1>2. /\ ctx.chain = [b \in 1 .. B |-> BlockOf(M, b)]
      /\ ctx.buffer_len = l /\ ctx.bitlen = 512 * B
      /\ ctx.buffer = [k \in BlockIndex |-> ctx.buffer[k]]
      /\ \A k \in 0 .. l - 1 : ctx.buffer[k] = M[64 * B + k + 1]
  BY DEF Absorbed, Holds
<1>3. \A k \in BlockIndex : /\ k < l => marked[k] = M[64 * B + k + 1]
                            /\ k = l => marked[k] = Val(128)
  <2>1. \A k \in BlockIndex : marked[k] = IF k = l THEN Val(128) ELSE ctx.buffer[k]
    <3> HIDE DEF l
    <3> QED
      BY <1>2 DEF Marked
  <2>2. \A k \in BlockIndex : k < l => k \in 0 .. l - 1 /\ k # l
    BY <1>1 DEF BlockIndex
  <2> HIDE DEF marked, l, B
  <2> SUFFICES ASSUME NEW k \in BlockIndex
               PROVE  /\ k < l => marked[k] = M[64 * B + k + 1]
                      /\ k = l => marked[k] = Val(128)
    OBVIOUS
  <2>3. marked[k] = IF k = l THEN Val(128) ELSE ctx.buffer[k]
    BY <2>1
  <2>4. k < l => ctx.buffer[k] = M[64 * B + k + 1]
    <3>1. k < l => k \in 0 .. l - 1
      BY <2>2
    <3>2. k \in 0 .. l - 1 => ctx.buffer[k] = M[64 * B + k + 1]
      BY <1>2
    <3> QED
      BY <3>1, <3>2
  <2> QED
    BY <2>2, <2>3, <2>4
<1>4. sha256_ref_final(ctx) = IF l + 1 > 56 THEN Append(Append(ctx.chain, filled), second)
                                            ELSE Append(ctx.chain, closed)
  <2>1. ctx.bitlen + ctx.buffer_len * 8 = 8 * n
    <3>1. n \in Nat /\ l \in Nat /\ B \in Nat /\ n = 64 * B + l
          /\ ctx.bitlen = 512 * B /\ ctx.buffer_len = l
      BY <1>1, <1>2
    <3> HIDE DEF n, l, B
    <3> QED
      BY <3>1
  <2>2. ctx.buffer_len = l
    BY <1>2
  <2>3. sha256_ref_final(ctx) = Closing(ctx, 8 * n, l)
    <3> HIDE DEF n, l
    <3> QED
      BY <2>1, <2>2, FinalCloses
  <2>4. /\ NoRoom(l + 1) => Closing(ctx, 8 * n, l) = Append(Append(ctx.chain, filled), second)
        /\ ~ NoRoom(l + 1) => Closing(ctx, 8 * n, l) = Append(ctx.chain, closed)
    <3> HIDE DEF n, l
    <3> QED
      BY ClosingIs
  <2> HIDE DEF n, l, filled, second, closed
  <2> QED
    BY <2>3, <2>4 DEF NoRoom
<1> HIDE DEF n, l, B, N, f
<1>0. ASSUME NEW i \in Nat PROVE PadRule(M, i, n, N, 8 * n)
  <2>1. Len(M) = n /\ PaddedBlocks(n) = N
    BY DEF n, N
  <2> DEFINE bits == 8 * n
  <2>2. bits = 8 * n
    OBVIOUS
  <2> HIDE DEF bits
  <2>3. PadRule(M, i, n, N, bits)
    BY <1>1, <2>1, <2>2, PaddedByteAt
  <2> QED
    BY <2>2, <2>3
<1>5. \A b \in Nat : f[b] = PaddedBlock(M, b)
  BY DEF f
<1>6. ctx.chain = [b \in 1 .. B |-> f[b]]
  <2>1. ASSUME NEW b \in 1 .. B PROVE f[b] = BlockOf(M, b)
    <3>1. ASSUME NEW k \in BlockIndex
          PROVE  PaddedByte(M, 64 * (b - 1) + k + 1) = M[64 * (b - 1) + k + 1]
      <4>1. 64 * (b - 1) + k + 1 \in Nat /\ 64 * (b - 1) + k + 1 <= n
        BY <1>1 DEF BlockIndex
      <4> DEFINE i == 64 * (b - 1) + k + 1
      <4> HIDE DEF i
      <4>2. PadRule(M, i, n, N, 8 * n)
        BY <1>0, <4>1 DEF i
      <4>3. PaddedByte(M, i) = M[i]
        BY <4>1, <4>2 DEF PadRule, i
      <4> QED
        BY <4>3 DEF i
    <3>2. f[b] = PaddedBlock(M, b)
      BY <1>1, <1>5
    <3> QED
      BY <3>1, <3>2 DEF PaddedBlock, BlockOf
  <2> QED
    BY <1>2, <2>1
<1>7. CASE l + 1 <= 56
  <2>1. closed = PaddedBlock(M, B + 1)
    <3>1. ASSUME NEW k \in BlockIndex PROVE closed[k] = PaddedByte(M, 64 * ((B + 1) - 1) + k + 1)
      <4> DEFINE i == 64 * ((B + 1) - 1) + k + 1
      <4>1. /\ i \in Nat /\ k \in 0 .. 63 /\ i = 64 * B + k + 1
            /\ k < l => i <= n
            /\ k = l => i = n + 1
            /\ k >= l + 1 /\ k < 56 => i > n + 1 /\ i <= 64 * N - 8
            /\ k >= 56 => i > n + 1 /\ i > 64 * N - 8
            /\ 64 * N - i = 63 - k
        BY <1>1, <1>7 DEF BlockIndex
      <4>2. /\ i <= n => PaddedByte(M, i) = M[i]
            /\ i = n + 1 => PaddedByte(M, i) = Val(128)
            /\ i > n + 1 /\ i <= 64 * N - 8 => PaddedByte(M, i) = Val(0)
            /\ i > n + 1 /\ i > 64 * N - 8 => PaddedByte(M, i) = Val(LengthByte(8 * n, 64 * N - i))
        <5> HIDE DEF i
        <5>1. PadRule(M, i, n, N, 8 * n)
          BY <1>0, <4>1
        <5> QED
          BY <5>1 DEF PadRule
      <4>3. closed[k] = IF k >= 56 THEN LengthAt(k) ELSE IF k >= l + 1 THEN Val(0) ELSE marked[k]
        BY DEF Closed
      <4> HIDE DEF i, closed, marked
      <4>4. CASE k < l
        BY <1>1, <1>3, <1>7, <4>1, <4>2, <4>3, <4>4
      <4>5. CASE k = l
        BY <1>1, <1>3, <1>7, <4>1, <4>2, <4>3, <4>5
      <4>6. CASE k >= l + 1 /\ k < 56
        BY <1>1, <1>7, <4>1, <4>2, <4>3, <4>6
      <4>7. CASE k >= 56
        BY <1>1, <1>7, <4>1, <4>2, <4>3, <4>7
      <4> QED
        BY <1>1, <4>1, <4>4, <4>5, <4>6, <4>7 DEF i
    <3>2. closed = [k \in BlockIndex |-> closed[k]]
      BY DEF Closed
    <3> HIDE DEF closed
    <3> QED
      BY <3>1, <3>2 DEF PaddedBlock
  <2>2. sha256_ref_final(ctx) = Append([b \in 1 .. B |-> f[b]], f[B + 1])
    <3>1. ~ (l + 1 > 56) /\ closed = f[B + 1]
      <4> HIDE DEF closed
      <4> QED
        BY <1>1, <1>5, <1>7, <2>1
    <3> HIDE DEF closed, filled, second
    <3> QED
      BY <1>4, <1>6, <3>1
  <2>3. sha256_ref_final(ctx) = [b \in 1 .. B + 1 |-> f[b]]
    BY <1>1, <2>2, AppendNext
  <2> QED
    BY <1>1, <1>5, <1>7, <2>3 DEF n, N
<1>8. CASE ~ (l + 1 <= 56)
  <2>1. filled = PaddedBlock(M, B + 1)
    <3>1. ASSUME NEW k \in BlockIndex PROVE filled[k] = PaddedByte(M, 64 * ((B + 1) - 1) + k + 1)
      <4> DEFINE i == 64 * ((B + 1) - 1) + k + 1
      <4>1. /\ i \in Nat /\ k \in 0 .. 63 /\ i = 64 * B + k + 1
            /\ k < l => i <= n
            /\ k = l => i = n + 1
            /\ k >= l + 1 => i > n + 1 /\ i <= 64 * N - 8
        BY <1>1, <1>8 DEF BlockIndex
      <4>2. /\ i <= n => PaddedByte(M, i) = M[i]
            /\ i = n + 1 => PaddedByte(M, i) = Val(128)
            /\ i > n + 1 /\ i <= 64 * N - 8 => PaddedByte(M, i) = Val(0)
        <5> HIDE DEF i
        <5>1. PadRule(M, i, n, N, 8 * n)
          BY <1>0, <4>1
        <5> QED
          BY <5>1 DEF PadRule
      <4>3. filled[k] = IF k >= l + 1 THEN Val(0) ELSE marked[k]
        BY DEF Filled
      <4> HIDE DEF i, filled, marked
      <4>4. CASE k < l
        BY <1>1, <1>3, <4>1, <4>2, <4>3, <4>4
      <4>5. CASE k = l
        BY <1>1, <1>3, <4>1, <4>2, <4>3, <4>5
      <4>6. CASE k >= l + 1
        BY <1>1, <4>1, <4>2, <4>3, <4>6
      <4> QED
        BY <1>1, <4>1, <4>4, <4>5, <4>6 DEF i
    <3>2. filled = [k \in BlockIndex |-> filled[k]]
      BY DEF Filled
    <3> HIDE DEF filled
    <3> QED
      BY <3>1, <3>2 DEF PaddedBlock
  <2>2. second = PaddedBlock(M, B + 2)
    <3>1. ASSUME NEW k \in BlockIndex PROVE second[k] = PaddedByte(M, 64 * ((B + 2) - 1) + k + 1)
      <4> DEFINE i == 64 * ((B + 2) - 1) + k + 1
      <4>1. /\ i \in Nat /\ k \in 0 .. 63 /\ i > n + 1 /\ i = 64 * ((B + 2) - 1) + k + 1
            /\ k < 56 => i <= 64 * N - 8
            /\ k >= 56 => i > 64 * N - 8
            /\ 64 * N - i = 63 - k
        BY <1>1, <1>8 DEF BlockIndex
      <4>2. /\ i > n + 1 /\ i <= 64 * N - 8 => PaddedByte(M, i) = Val(0)
            /\ i > n + 1 /\ i > 64 * N - 8 => PaddedByte(M, i) = Val(LengthByte(8 * n, 64 * N - i))
        <5> HIDE DEF i
        <5>1. PadRule(M, i, n, N, 8 * n)
          BY <1>0, <4>1
        <5> QED
          BY <5>1 DEF PadRule
      <4>3. second[k] = IF k >= 56 THEN LengthAt(k) ELSE IF k >= 0 THEN Val(0) ELSE filled[k]
        BY DEF Closed
      <4> HIDE DEF i, second, filled
      <4>4. ASSUME k < 56 PROVE second[k] = PaddedByte(M, i)
        <5>1. i <= 64 * N - 8 /\ i > n + 1 /\ k >= 0 /\ ~ (k >= 56)
          BY <4>1, <4>4
        <5> QED
          BY <4>2, <4>3, <5>1
      <4>5. ASSUME ~ (k < 56) PROVE second[k] = PaddedByte(M, i)
        <5>1. i > 64 * N - 8 /\ i > n + 1 /\ k >= 56 /\ 64 * N - i = 63 - k
          BY <4>1, <4>5
        <5> QED
          BY <4>2, <4>3, <5>1
      <4> QED
        BY <4>1, <4>4, <4>5 DEF i
    <3>2. second = [k \in BlockIndex |-> second[k]]
      BY DEF Closed
    <3> HIDE DEF second
    <3> QED
      BY <3>1, <3>2 DEF PaddedBlock
  <2>3. sha256_ref_final(ctx) = Append(Append([b \in 1 .. B |-> f[b]], f[B + 1]), f[B + 2])
    <3>1. l + 1 > 56 /\ filled = f[B + 1] /\ second = f[B + 2]
      <4> HIDE DEF filled, second
      <4> QED
        BY <1>1, <1>5, <1>8, <2>1, <2>2
    <3> HIDE DEF closed, filled, second
    <3> QED
      BY <1>4, <1>6, <3>1
  <2>4. sha256_ref_final(ctx) = Append([b \in 1 .. B + 1 |-> f[b]], f[(B + 1) + 1])
    BY <1>1, <2>3, AppendNext
  <2>5. sha256_ref_final(ctx) = [b \in 1 .. (B + 1) + 1 |-> f[b]]
    BY <1>1, <2>4, AppendNext
  <2> QED
    BY <1>1, <1>5, <1>8, <2>5 DEF n, N
<1> QED
  BY <1>7, <1>8

\* A message hashed from a fresh context.
LEMMA Sha256Pads ==
    ASSUME NEW V, NEW M \in Seq(V)
    PROVE  sha256_ref(M) = [b \in 1 .. PaddedBlocks(Len(M)) |-> PaddedBlock(M, b)]
<1> DEFINE n == Len(M)
           c == sha256_ref_update(sha256_ref_init, SubSeq(M, 0 + 1, n))
<1>1. n \in Nat /\ 0 \in Nat /\ 0 <= n /\ n <= Len(M)
  OBVIOUS
<1>2. Absorbed(M, n, c)
  <2>1. Absorbed(M, 0, sha256_ref_init)
    BY InitAbsorbed
  <2> HIDE DEF n
  <2> QED
    BY <1>1, <2>1, UpdateAbsorbs
<1>3. SubSeq(M, 0 + 1, n) = M
  <2>1. /\ SubSeq(M, 0 + 1, n) \in Seq(V) /\ Len(SubSeq(M, 0 + 1, n)) = n - 0
        /\ \A i \in 1 .. n - 0 : SubSeq(M, 0 + 1, n)[i] = M[0 + i]
    <3> HIDE DEF n
    <3> QED
      BY <1>1, PieceIs
  <2>2. Len(SubSeq(M, 0 + 1, n)) = Len(M)
    BY <2>1
  <2>3. \A i \in 1 .. Len(SubSeq(M, 0 + 1, n)) : SubSeq(M, 0 + 1, n)[i] = M[i]
    BY <2>1
  <2> DEFINE x == SubSeq(M, 0 + 1, n)
  <2> HIDE DEF x
  <2>4. x \in Seq(V) /\ Len(x) = Len(M) /\ \A i \in 1 .. Len(x) : x[i] = M[i]
    BY <2>1, <2>2, <2>3 DEF x
  <2>5. x = M
    BY <2>4, SeqEqual
  <2> QED
    BY <2>5 DEF x
<1>4. sha256_ref(M) = sha256_ref_final(c)
  BY <1>3 DEF sha256_ref
<1>5. sha256_ref_final(c) = [b \in 1 .. PaddedBlocks(Len(M)) |-> PaddedBlock(M, b)]
  <2>1. Absorbed(M, Len(M), c)
    BY <1>2
  <2> HIDE DEF c
  <2> QED
    BY <2>1, FinalPads
<1> QED
  BY <1>4, <1>5

-----------------------------------------------------------------------------
(* Texts put together. *)

IsList(s, n) == n \in Nat /\ s = [i \in 1 .. n |-> s[i]]
ItemsOf(s, n) == {s[i] : i \in 1 .. n}

LEMMA ListIsSeq ==
    ASSUME NEW s, NEW n, IsList(s, n)
    PROVE  s \in Seq(ItemsOf(s, n)) /\ Len(s) = n
<1>1. \A i \in 1 .. n : s[i] \in ItemsOf(s, n)
  BY DEF ItemsOf
<1>2. n \in Nat /\ s = [i \in 1 .. n |-> s[i]]
  BY DEF IsList
<1>3. [i \in 1 .. n |-> s[i]] \in Seq(ItemsOf(s, n)) /\ Len([i \in 1 .. n |-> s[i]]) = n
  BY <1>1, <1>2
<1> QED
  BY <1>2, <1>3

LEMMA SeqIsList ==
    ASSUME NEW V, NEW s \in Seq(V)
    PROVE  IsList(s, Len(s))
BY DEF IsList

\* Two texts one behind the other.
Joins(u, s, n, t, m) ==
    /\ n \in Nat /\ m \in Nat /\ IsList(u, n + m) /\ Len(u) = n + m
    /\ \A i \in 1 .. n : u[i] = s[i]
    /\ \A i \in 1 .. m : u[n + i] = t[i]

LEMMA Joined ==
    ASSUME NEW s, NEW n, IsList(s, n), NEW t, NEW m, IsList(t, m)
    PROVE  Joins(s \o t, s, n, t, m)
<1> DEFINE V == ItemsOf(s, n) \cup ItemsOf(t, m)
           u == s \o t
<1>1. n \in Nat /\ m \in Nat
  BY DEF IsList
<1>2. s \in Seq(V) /\ t \in Seq(V) /\ Len(s) = n /\ Len(t) = m
  <2>1. /\ s \in Seq(ItemsOf(s, n)) /\ Len(s) = n
        /\ t \in Seq(ItemsOf(t, m)) /\ Len(t) = m
    BY ListIsSeq
  <2> QED
    BY <2>1
<1> HIDE DEF V
<1>3. /\ u \in Seq(V) /\ Len(u) = n + m
      /\ \A i \in 1 .. n + m : u[i] = IF i <= n THEN s[i] ELSE t[i - n]
  BY <1>2, ConcatProperties
<1> HIDE DEF u
<1>4. IsList(u, n + m)
  BY <1>3, SeqIsList
<1>5. ASSUME NEW i \in 1 .. n PROVE u[i] = s[i]
  <2>1. i \in 1 .. n + m /\ i <= n
    BY <1>1
  <2> QED
    BY <1>3, <2>1
<1>6. ASSUME NEW i \in 1 .. m PROVE u[n + i] = t[i]
  <2>1. n + i \in 1 .. n + m /\ ~ (n + i <= n) /\ (n + i) - n = i
    BY <1>1
  <2> QED
    BY <1>3, <2>1
<1> QED
  BY <1>1, <1>3, <1>4, <1>5, <1>6 DEF u, Joins

\* Two texts of the same length with the same characters.
LEMMA SameList ==
    ASSUME NEW s, NEW t, NEW n, IsList(s, n), IsList(t, n), \A i \in 1 .. n : s[i] = t[i]
    PROVE  s = t
BY DEF IsList

\* A piece of a text.
IsPiece(t, s, a, m) == IsList(t, m) /\ Len(t) = m /\ \A i \in 1 .. m : t[i] = s[a + i]

LEMMA ListPiece ==
    ASSUME NEW s, NEW n, IsList(s, n), NEW a \in Nat, NEW b \in Nat, a <= b, b <= n,
           NEW first, first = a + 1, NEW m, m = b - a
    PROVE  IsPiece(SubSeq(s, first, b), s, a, m)
<1> DEFINE V == ItemsOf(s, n)
           t == SubSeq(s, a + 1, b)
<1>1. s \in Seq(V) /\ Len(s) = n
  BY ListIsSeq
<1> HIDE DEF V
<1>2. t \in Seq(V) /\ Len(t) = b - a /\ \A i \in 1 .. b - a : t[i] = s[a + i]
  BY <1>1, PieceIs
<1>3. IsList(t, Len(t))
  BY <1>2, SeqIsList
<1>4. SubSeq(s, first, b) = t
  OBVIOUS
<1> HIDE DEF t
<1> QED
  BY <1>2, <1>3, <1>4 DEF IsPiece

\* A list of two.
LEMMA OneMore ==
    ASSUME NEW x, NEW y
    PROVE  Append(<<x>>, y) = <<x, y>>
<1> DEFINE V == {x, y}
           s == <<x>>
           t == <<x, y>>
           u == Append(s, y)
<1>1. s \in Seq(V) /\ Len(s) = 1 /\ s[1] = x /\ t \in Seq(V) /\ Len(t) = 2 /\ t[1] = x /\ t[2] = y
      /\ y \in V
  OBVIOUS
<1> HIDE DEF V, s, t
<1> HIDE DEF u
<1>2. /\ u \in Seq(V) /\ Len(u) = Len(s) + 1 /\ u[Len(s) + 1] = y
      /\ \A i \in 1 .. Len(s) : u[i] = s[i]
  <2>1. s \in Seq(V) /\ y \in V
    BY <1>1
  <2> QED
    BY <2>1, AppendProperties DEF u
<1>3. \A i \in 1 .. Len(u) : u[i] = t[i]
  <2>1. u[2] = y /\ u[1] = s[1] /\ \A i \in 1 .. Len(u) : i = 1 \/ i = 2
    BY <1>1, <1>2
  <2> QED
    BY <1>1, <1>2, <2>1
<1>4. u = t
  BY <1>1, <1>2, <1>3, SeqEqual
<1> QED
  BY <1>4 DEF s, t, u

\* The hash of a list of n bytes.
IsPadded(s, n) == sha256_ref(s) = [b \in 1 .. PaddedBlocks(n) |-> PaddedBlock(s, b)]

LEMMA ListPads ==
    ASSUME NEW s, NEW n, IsList(s, n)
    PROVE  IsPadded(s, n)
<1> DEFINE V == ItemsOf(s, n)
<1>1. s \in Seq(V) /\ Len(s) = n
  BY ListIsSeq
<1> HIDE DEF V
<1>2. sha256_ref(s) = [b \in 1 .. PaddedBlocks(Len(s)) |-> PaddedBlock(s, b)]
  BY <1>1, Sha256Pads
<1> QED
  BY <1>1, <1>2 DEF IsPadded

-----------------------------------------------------------------------------
(* Theorems about the calls: the padding. *)

\* The bytes of a length, where the code writes them out.
LengthInTwoBytes(n) ==
    /\ LengthByte(n, 0) = n % 256 /\ LengthByte(n, 1) = n \div 256
    /\ \A j \in 2 .. 7 : LengthByte(n, j) = 0

LEMMA LengthBytes ==
    ASSUME NEW n, n \in {256, 640}
    PROVE  LengthInTwoBytes(n)
<1> DEFINE Counts(f) == f = [i \in 0..7 |-> IF i = 0 THEN n ELSE f[i - 1] \div 256]
           f0 == CHOOSE f : Counts(f)
           g == [i \in 0..7 |-> IF i = 0 THEN n ELSE IF i = 1 THEN n \div 256 ELSE 0]
<1>1. Counts(g)
  <2>1. \A i \in 0..7 : g[i] = IF i = 0 THEN n ELSE g[i - 1] \div 256
    <3> SUFFICES ASSUME NEW i \in 0..7 PROVE g[i] = IF i = 0 THEN n ELSE g[i - 1] \div 256
      OBVIOUS
    <3>1. CASE i = 0
      BY <3>1
    <3>2. CASE i = 1
      BY <3>2
    <3>3. CASE i = 2
      <4>1. g[2] = 0 /\ g[1] = n \div 256 /\ (n \div 256) \div 256 = 0
        OBVIOUS
      <4> QED
        BY <3>3, <4>1
    <3>4. CASE i > 2
      <4>1. g[i] = 0 /\ g[i - 1] = 0 /\ 0 \div 256 = 0
        BY <3>4
      <4> QED
        BY <3>4, <4>1
    <3> QED
      BY <3>1, <3>2, <3>3, <3>4
  <2>2. g = [i \in 0..7 |-> g[i]]
    OBVIOUS
  <2> HIDE DEF g
  <2> QED
    BY <2>1, <2>2
<1>2. Counts(f0)
  <2> HIDE DEF g, Counts
  <2> QED
    BY <1>1
<1>3. \A j \in 0..7 : LengthByte(n, j) = f0[j] % 256
  BY DEF LengthByte
<1> HIDE DEF f0, g
<1>4. \A i \in 0..7 : f0[i] = IF i = 0 THEN n ELSE f0[i - 1] \div 256
  BY <1>2
<1>5. f0[0] = n
  BY <1>4
<1>6. f0[1] = n \div 256
  BY <1>4, <1>5
<1>7. f0[2] = 0
  <2>1. f0[2] = f0[1] \div 256
    BY <1>4
  <2> QED
    BY <1>6, <2>1
<1>8. f0[3] = 0
  BY <1>4, <1>7
<1>9. f0[4] = 0
  BY <1>4, <1>8
<1>10. f0[5] = 0
  BY <1>4, <1>9
<1>11. f0[6] = 0
  BY <1>4, <1>10
<1>12. f0[7] = 0
  BY <1>4, <1>11
<1>13. \A j \in 2 .. 7 : f0[j] = 0 /\ j \in 0..7
  BY <1>7, <1>8, <1>9, <1>10, <1>11, <1>12
<1> HIDE DEF Counts
<1> QED
  BY <1>3, <1>5, <1>6, <1>13 DEF LengthInTwoBytes

\* The message of n bytes with the one bit, the zeros and the length behind it.
LEMMA PaddedMessageIs ==
    ASSUME NEW n \in Nat
    PROVE  /\ IsList(Message(n), n)
           /\ Len(PaddedMessage(n)) = 64 * PaddedBlocks(n)
           /\ \A i \in 1 .. 64 * PaddedBlocks(n) :
                  PaddedMessage(n)[i] = PaddedByte(Message(n), i)
<1> DEFINE M == Message(n)
           z == (55 - n) % 64
           N == PaddedBlocks(n)
           mark == <<Val(128)>>
           zeros == [k \in 1 .. z |-> Val(0)]
           length == [k \in 1..8 |-> Val(LengthByte(8 * n, 8 - k))]
           a == M \o mark
           b == a \o zeros
           c == b \o length
<1>1. IsList(M, n) /\ Len(M) = n
  <2>1. IsList(M, n)
    BY DEF Message, IsList
  <2> QED
    BY <2>1, ListIsSeq
<1>2. z \in Nat /\ N \in Nat /\ 64 * N = n + 1 + z + 8
  BY DEF PaddedBlocks
<1>3. /\ IsList(mark, 1) /\ mark[1] = Val(128)
      /\ IsList(zeros, z) /\ \A k \in 1 .. z : zeros[k] = Val(0)
      /\ IsList(length, 8) /\ \A k \in 1..8 : length[k] = Val(LengthByte(8 * n, 8 - k))
  <2>1. IsList(mark, 1) /\ mark[1] = Val(128)
    BY DEF IsList
  <2>2. IsList(zeros, z) /\ \A k \in 1 .. z : zeros[k] = Val(0)
    <3> HIDE DEF z
    <3> QED
      BY <1>2 DEF IsList
  <2>3. IsList(length, 8) /\ \A k \in 1..8 : length[k] = Val(LengthByte(8 * n, 8 - k))
    BY DEF IsList
  <2> QED
    BY <2>1, <2>2, <2>3
<1>4. PaddedMessage(n) = c
  BY DEF PaddedMessage
<1> HIDE DEF M, z, N, mark, zeros, length, a, b, c
<1>5. /\ IsList(a, n + 1) /\ \A i \in 1 .. n : a[i] = M[i]
      /\ \A i \in 1 .. 1 : a[n + i] = mark[i]
  <2>1. Joins(a, M, n, mark, 1)
    BY <1>1, <1>3, Joined DEF a
  <2> QED
    BY <2>1 DEF Joins
<1>6. /\ IsList(b, (n + 1) + z) /\ \A i \in 1 .. n + 1 : b[i] = a[i]
      /\ \A i \in 1 .. z : b[(n + 1) + i] = zeros[i]
  <2>1. Joins(b, a, n + 1, zeros, z)
    BY <1>3, <1>5, Joined DEF b
  <2> QED
    BY <2>1 DEF Joins
<1>7. /\ IsList(c, ((n + 1) + z) + 8) /\ Len(c) = ((n + 1) + z) + 8
      /\ \A i \in 1 .. (n + 1) + z : c[i] = b[i]
      /\ \A i \in 1 .. 8 : c[((n + 1) + z) + i] = length[i]
  <2>1. Joins(c, b, (n + 1) + z, length, 8)
    BY <1>3, <1>6, Joined DEF c
  <2> QED
    BY <2>1 DEF Joins
<1>8. ASSUME NEW i \in 1 .. 64 * N PROVE c[i] = PaddedByte(M, i)
  <2>1. /\ i <= n => PaddedByte(M, i) = M[i]
        /\ i = n + 1 => PaddedByte(M, i) = Val(128)
        /\ i > n + 1 /\ i <= 64 * N - 8 => PaddedByte(M, i) = Val(0)
        /\ i > n + 1 /\ i > 64 * N - 8 => PaddedByte(M, i) = Val(LengthByte(8 * n, 64 * N - i))
    <3> DEFINE bits == 8 * n
    <3>1. i \in Nat /\ Len(M) = n /\ PaddedBlocks(n) = N /\ bits = 8 * n
      BY <1>1, <1>2 DEF N
    <3> HIDE DEF bits
    <3>2. PadRule(M, i, n, N, bits)
      BY <3>1, PaddedByteAt
    <3> QED
      BY <3>1, <3>2 DEF PadRule
  <2>2. CASE i <= n
    <3>1. i \in 1 .. n /\ i \in 1 .. n + 1 /\ i \in 1 .. (n + 1) + z
      BY <1>2, <2>2
    <3> QED
      BY <1>5, <1>6, <1>7, <2>1, <3>1
  <2>3. CASE i = n + 1
    <3>1. i \in 1 .. n + 1 /\ i \in 1 .. (n + 1) + z
      BY <1>2, <2>3
    <3>2. a[i] = Val(128)
      BY <1>3, <1>5, <2>3
    <3> QED
      BY <1>6, <1>7, <2>1, <2>3, <3>1, <3>2
  <2>4. CASE i > n + 1 /\ i <= 64 * N - 8
    <3> DEFINE k == i - (n + 1)
    <3>1. k \in 1 .. z /\ i \in 1 .. (n + 1) + z /\ i = (n + 1) + k
      BY <1>2, <2>4
    <3> HIDE DEF k
    <3>2. b[i] = Val(0)
      BY <1>3, <1>6, <3>1
    <3> QED
      BY <1>7, <2>1, <2>4, <3>1, <3>2
  <2>5. CASE i > 64 * N - 8
    <3> DEFINE k == i - ((n + 1) + z)
    <3>1. k \in 1 .. 8 /\ i = ((n + 1) + z) + k /\ i > n + 1 /\ 64 * N - i = 8 - k
      BY <1>2, <2>5
    <3> HIDE DEF k
    <3>2. c[i] = Val(LengthByte(8 * n, 8 - k))
      BY <1>3, <1>7, <3>1
    <3>3. PaddedByte(M, i) = Val(LengthByte(8 * n, 8 - k))
      <4>1. PaddedByte(M, i) = Val(LengthByte(8 * n, 64 * N - i))
        BY <2>1, <2>5, <3>1
      <4> QED
        BY <3>1, <4>1
    <3> QED
      BY <3>2, <3>3
  <2>6. i <= n \/ i = n + 1 \/ (i > n + 1 /\ i <= 64 * N - 8) \/ i > 64 * N - 8
    BY <1>2
  <2> QED
    BY <2>2, <2>3, <2>4, <2>5, <2>6
<1>9. Len(c) = 64 * N
  BY <1>2, <1>7
<1>10. \A i \in 1 .. 64 * N : PaddedMessage(n)[i] = PaddedByte(M, i)
  BY <1>4, <1>8
<1> QED
  BY <1>1, <1>4, <1>9, <1>10 DEF M, N

\* What two updates and the final call make of a message.
InTwoUpdates(m) ==
    LET data == Message(m.length)
        first == sha256_ref_update(sha256_ref_init, SubSeq(data, 1, m.cut))
        second == sha256_ref_update(first, SubSeq(data, m.cut + 1, m.length))
    IN  sha256_ref_final(second)

LEMMA InTwoUpdatesPads ==
    ASSUME NEW m, m.length \in Nat, m.cut \in 0 .. m.length
    PROVE  InTwoUpdates(m) =
               [b \in 1 .. PaddedBlocks(m.length) |-> PaddedBlock(Message(m.length), b)]
<1> DEFINE n == m.length
           cut == m.cut
           M == Message(n)
           V == ItemsOf(M, n)
           first == sha256_ref_update(sha256_ref_init, SubSeq(M, 1, cut))
           second == sha256_ref_update(first, SubSeq(M, cut + 1, n))
<1>1. n \in Nat /\ cut \in Nat /\ cut <= n /\ 0 \in Nat /\ 0 <= cut
  OBVIOUS
<1>2. InTwoUpdates(m) = sha256_ref_final(second)
  BY DEF InTwoUpdates
<1> HIDE DEF n, cut
<1>3. M \in Seq(V) /\ Len(M) = n
  <2>1. IsList(M, n)
    BY <1>1, PaddedMessageIs
  <2> QED
    BY <2>1, ListIsSeq
<1> HIDE DEF M, V
<1>4. Absorbed(M, cut, first)
  <2>1. Absorbed(M, 0, sha256_ref_init)
    BY InitAbsorbed
  <2>2. Absorbed(M, cut, sha256_ref_update(sha256_ref_init, SubSeq(M, 0 + 1, cut)))
    BY <1>1, <1>3, <2>1, UpdateAbsorbs
  <2>3. 0 + 1 = 1
    OBVIOUS
  <2> QED
    BY <2>2, <2>3
<1> HIDE DEF first
<1>5. Absorbed(M, n, second)
  BY <1>1, <1>3, <1>4, UpdateAbsorbs
<1> HIDE DEF second
<1>6. sha256_ref_final(second) = [b \in 1 .. PaddedBlocks(Len(M)) |-> PaddedBlock(M, b)]
  <2>1. Absorbed(M, Len(M), second)
    BY <1>3, <1>5
  <2> QED
    BY <1>3, <2>1, FinalPads
<1> QED
  BY <1>2, <1>3, <1>6 DEF M, n

\* A call of sha256_ref stands for what its last step has computed.
HashesReturn ==
    call.fn = "sha256_ref" => call.arg \in Messages /\ result = InTwoUpdates(call.arg)

LEMMA HashesReturned == Spec => []HashesReturn
<1>1. Init => HashesReturn
  BY DEF Init, Idle, HashesReturn
<1>2. HashesReturn /\ [Next]_vars => HashesReturn'
  <2> SUFFICES ASSUME HashesReturn, [Next]_vars PROVE HashesReturn'
    OBVIOUS
  <2>1. CASE CallSha256
    <3>1. PICK m \in Messages : Returns("sha256_ref", m, InTwoUpdates(m))
      BY <2>1 DEF CallSha256, InTwoUpdates
    <3> QED
      BY <3>1 DEF Returns, HashesReturn
  <2>2. CASE CallBitsToTarget
    BY <2>2 DEF CallBitsToTarget, Returns, HashesReturn
  <2>3. CASE CallDifficultyToTarget
    BY <2>3 DEF CallDifficultyToTarget, Returns, HashesReturn
  <2>4. CASE CallBuild
    BY <2>4 DEF CallBuild, Returns, HashesReturn
  <2>5. CASE CallGrind
    <3>1. call'.fn = "grind"
      BY <2>5 DEF CallGrind, Returns
    <3> QED
      BY <3>1 DEF HashesReturn
  <2>6. CASE Return
    BY <2>6 DEF Return, Idle, HashesReturn
  <2>7. CASE UNCHANGED vars
    BY <2>7 DEF vars, HashesReturn
  <2> QED
    BY <2>1, <2>2, <2>3, <2>4, <2>5, <2>6, <2>7 DEF Next
<1> QED
  BY <1>1, <1>2, PTL DEF Spec

\* sha256_ref pads as FIPS 180-4 defines, for messages of any length cut in two
\* anywhere.
THEOREM ReferencePadsAsDefined == Spec => []PaddedAsDefined
<1>1. HashesReturn => PaddedAsDefined
  <2> SUFFICES ASSUME HashesReturn, call.fn = "sha256_ref"
               PROVE  LET padded == PaddedMessage(call.arg.length)
                      IN  result = [b \in 1 .. Len(padded) \div 64 |->
                                     [k \in BlockIndex |-> padded[64 * (b - 1) + k + 1]]]
    BY DEF PaddedAsDefined
  <2> DEFINE n == call.arg.length
             padded == PaddedMessage(n)
             N == PaddedBlocks(n)
  <2>1. n \in Nat /\ call.arg.cut \in 0 .. n /\ result = InTwoUpdates(call.arg)
    BY MessagesAssumption DEF HashesReturn
  <2>2. N \in Nat
    BY <2>1 DEF PaddedBlocks
  <2>3. /\ Len(padded) = 64 * N
        /\ \A i \in 1 .. 64 * N : padded[i] = PaddedByte(Message(n), i)
    <3> HIDE DEF n
    <3> QED
      BY <2>1, PaddedMessageIs
  <2>4. result = [b \in 1 .. N |-> PaddedBlock(Message(n), b)]
    BY <2>1, InTwoUpdatesPads
  <2> HIDE DEF n, N, padded
  <2>5. Len(padded) \div 64 = N
    BY <2>2, <2>3
  <2>6. \A b \in 1 .. N : \A k \in BlockIndex :
            PaddedByte(Message(n), 64 * (b - 1) + k + 1) = padded[64 * (b - 1) + k + 1]
    <3> SUFFICES ASSUME NEW b \in 1 .. N, NEW k \in BlockIndex
                 PROVE  PaddedByte(Message(n), 64 * (b - 1) + k + 1) = padded[64 * (b - 1) + k + 1]
      OBVIOUS
    <3>1. 64 * (b - 1) + k + 1 \in 1 .. 64 * N
      BY <2>2 DEF BlockIndex
    <3> QED
      BY <2>3, <3>1
  <2>7. \A b \in 1 .. N : PaddedBlock(Message(n), b)
                            = [k \in BlockIndex |-> padded[64 * (b - 1) + k + 1]]
    BY <2>6 DEF PaddedBlock
  <2>8. result = [b \in 1 .. N |-> [k \in BlockIndex |-> padded[64 * (b - 1) + k + 1]]]
    BY <2>4, <2>7
  <2>9. result = [b \in 1 .. Len(padded) \div 64 |->
                    [k \in BlockIndex |-> padded[64 * (b - 1) + k + 1]]]
    BY <2>5, <2>8
  <2> QED
    BY <2>9 DEF padded, n
<1>2. Spec => []HashesReturn
  BY HashesReturned
<1> QED
  BY <1>1, <1>2, PTL

-----------------------------------------------------------------------------
(* Theorems about the calls: the double hash of a header. *)

\* The two blocks the fast path writes out, byte by byte.
ClosesBlock(B, data, n, bits) ==
    /\ B = [k \in BlockIndex |-> B[k]]
    /\ \A k \in BlockIndex :
          /\ k < n => B[k] = data[k + 1]
          /\ k = n => B[k] = Val(128)
          /\ k > n /\ k < 62 => B[k] = Val(0)
          /\ k = 62 => B[k] = Val(bits \div 256)
          /\ k = 63 => B[k] = Val(bits % 256)

LEMMA ClosedBlockIs ==
    ASSUME NEW data, NEW bits, NEW n \in 1..55, IsList(data, n)
    PROVE  ClosesBlock(ClosedBlock(data, bits), data, n, bits)
<1>0. Len(data) = n
  BY ListIsSeq
<1> DEFINE B(k) == CASE k < Len(data) -> data[k + 1]
                     [] k = Len(data) -> Val(128)
                     [] k = 62 -> Val(bits \div 256)
                     [] k = 63 -> Val(bits % 256)
                     [] OTHER -> Val(0)
<1>1. ClosedBlock(data, bits) = [k \in BlockIndex |-> B(k)]
  BY DEF ClosedBlock
<1>2. ASSUME NEW k \in BlockIndex
      PROVE  /\ k < n => B(k) = data[k + 1]
             /\ k = n => B(k) = Val(128)
             /\ k > n /\ k < 62 => B(k) = Val(0)
             /\ k = 62 => B(k) = Val(bits \div 256)
             /\ k = 63 => B(k) = Val(bits % 256)
  <2>1. k \in 0..63 /\ Len(data) = n
    BY <1>0 DEF BlockIndex
  <2>2. CASE k < n
    <3>1. k < Len(data) /\ k # Len(data) /\ k # 62 /\ k # 63
      BY <2>1, <2>2
    <3>2. B(k) = data[k + 1]
      BY <3>1
    <3> HIDE DEF B
    <3> QED
      BY <2>1, <2>2, <3>2
  <2>3. CASE k = n
    <3>1. ~ (k < Len(data)) /\ k = Len(data) /\ k # 62 /\ k # 63
      BY <2>1, <2>3
    <3>2. B(k) = Val(128)
      BY <3>1
    <3> HIDE DEF B
    <3> QED
      BY <2>1, <2>3, <3>2
  <2>4. CASE k > n /\ k < 62
    <3>1. ~ (k < Len(data)) /\ k # Len(data) /\ k # 62 /\ k # 63
      BY <2>1, <2>4
    <3>2. B(k) = Val(0)
      BY <3>1
    <3> HIDE DEF B
    <3> QED
      BY <2>1, <2>4, <3>2
  <2>5. CASE k = 62
    <3>1. ~ (k < Len(data)) /\ k # Len(data) /\ k = 62 /\ k # 63
      BY <2>1, <2>5
    <3>2. B(k) = Val(bits \div 256)
      BY <3>1
    <3> HIDE DEF B
    <3> QED
      BY <2>1, <2>5, <3>2
  <2>6. CASE k = 63
    <3>1. ~ (k < Len(data)) /\ k # Len(data) /\ k # 62 /\ k = 63
      BY <2>1, <2>6
    <3>2. B(k) = Val(bits % 256)
      BY <3>1
    <3> HIDE DEF B
    <3> QED
      BY <2>1, <2>6, <3>2
  <2>7. k < n \/ k = n \/ (k > n /\ k < 62) \/ k = 62 \/ k = 63
    BY <2>1
  <2> HIDE DEF B
  <2> QED
    BY <2>2, <2>3, <2>4, <2>5, <2>6, <2>7
<1> HIDE DEF B
<1> QED
  BY <1>1, <1>2 DEF ClosesBlock

\* The block whose first m bytes end the message.
EndsAs(M, b, data, m) == \A k \in 1 .. m : data[k] = M[64 * (b - 1) + k]

\* The two messages of the double hash: n bytes, the last m of them in block b.
ClosedMessage(n, m, b, bits) ==
    \/ n = 80 /\ m = 16 /\ b = 2 /\ bits = 640
    \/ n = 32 /\ m = 32 /\ b = 1 /\ bits = 256

\* A block padded by the reference, where the fast path writes it out.
PadsTo(M, n, b, data, m, bits) ==
    PaddedBlocks(n) = b /\ PaddedBlock(M, b) = ClosedBlock(data, bits)

LEMMA PaddedIsClosed ==
    ASSUME NEW M, NEW n, NEW b, NEW data, NEW m, NEW bits,
           ClosedMessage(n, m, b, bits),
           IsList(M, n), IsList(data, m), EndsAs(M, b, data, m)
    PROVE  PadsTo(M, n, b, data, m, bits)
<1>1. PaddedBlocks(n) = b
  BY DEF PaddedBlocks, ClosedMessage
<1>2. bits \in {256, 640} /\ bits = 8 * n /\ m \in 1..55 /\ n \in Nat /\ b \in Nat /\ n = 64 * (b - 1) + m
      /\ Len(M) = n /\ Len(data) = m
  BY ListIsSeq DEF ClosedMessage
<1>3. /\ LengthByte(bits, 0) = bits % 256 /\ LengthByte(bits, 1) = bits \div 256
      /\ \A j \in 2 .. 7 : LengthByte(bits, j) = 0
  <2>1. LengthInTwoBytes(bits)
    BY <1>2, LengthBytes
  <2> QED
    BY <2>1 DEF LengthInTwoBytes
<1>4. ClosesBlock(ClosedBlock(data, bits), data, m, bits)
  <2>1. m \in 1..55
    BY <1>2
  <2> QED
    BY <2>1, ClosedBlockIs
<1>5. ASSUME NEW k \in BlockIndex
      PROVE  PaddedByte(M, 64 * (b - 1) + k + 1) = ClosedBlock(data, bits)[k]
  <2> DEFINE i == 64 * (b - 1) + k + 1
             C == ClosedBlock(data, bits)[k]
  <2>1. /\ k < m => C = data[k + 1]
        /\ k = m => C = Val(128)
        /\ k > m /\ k < 62 => C = Val(0)
        /\ k = 62 => C = Val(bits \div 256)
        /\ k = 63 => C = Val(bits % 256)
    BY <1>4 DEF ClosesBlock
  <2>2. /\ i \in Nat /\ k \in 0..63
        /\ k < m => i <= n /\ k + 1 \in 1 .. m /\ i = 64 * (b - 1) + (k + 1)
        /\ k = m => i = n + 1
        /\ k > m => i > n + 1
        /\ k < 56 => i <= 64 * b - 8
        /\ k >= 56 => i > 64 * b - 8
        /\ 64 * b - i = 63 - k
    BY <1>2 DEF BlockIndex
  <2>3. /\ i <= n => PaddedByte(M, i) = M[i]
        /\ i = n + 1 => PaddedByte(M, i) = Val(128)
        /\ i > n + 1 /\ i <= 64 * b - 8 => PaddedByte(M, i) = Val(0)
        /\ i > n + 1 /\ i > 64 * b - 8 => PaddedByte(M, i) = Val(LengthByte(bits, 64 * b - i))
    <3> HIDE DEF i
    <3>1. PadRule(M, i, n, b, bits)
      BY <1>1, <1>2, <2>2, PaddedByteAt
    <3> QED
      BY <3>1 DEF PadRule
  <2> HIDE DEF i, C
  <2>4. CASE k < m
    <3>1. data[k + 1] = M[i]
      BY <2>2, <2>4 DEF EndsAs
    <3> QED
      BY <2>1, <2>2, <2>3, <2>4, <3>1 DEF i, C
  <2>5. CASE k = m
    <3>1. PaddedByte(M, i) = C
      BY <2>1, <2>2, <2>3, <2>5
    <3> QED
      BY <3>1 DEF i, C
  <2>6. CASE k > m /\ k < 56
    <3>1. PaddedByte(M, i) = C
      BY <2>1, <2>2, <2>3, <2>6
    <3> QED
      BY <3>1 DEF i, C
  <2>7. CASE k >= 56
    <3>1. k > m /\ PaddedByte(M, i) = Val(LengthByte(bits, 63 - k))
      <4>1. k > m /\ i > n + 1 /\ i > 64 * b - 8
        BY <1>2, <2>2, <2>7
      <4>2. PaddedByte(M, i) = Val(LengthByte(bits, 64 * b - i))
        BY <2>3, <4>1
      <4> QED
        BY <2>2, <4>1, <4>2
    <3>2. CASE k < 62
      <4>1. 63 - k \in 2 .. 7
        BY <2>2, <2>7, <3>2
      <4>2. PaddedByte(M, i) = C
        BY <1>3, <2>1, <3>1, <3>2, <4>1
      <4> QED
        BY <4>2 DEF i, C
    <3>3. CASE k = 62
      <4>1. 63 - k = 1
        BY <3>3
      <4>2. PaddedByte(M, i) = C
        BY <1>3, <2>1, <3>1, <3>3, <4>1
      <4> QED
        BY <4>2 DEF i, C
    <3>4. CASE k = 63
      <4>1. 63 - k = 0
        BY <3>4
      <4>2. PaddedByte(M, i) = C
        BY <1>3, <2>1, <3>1, <3>4, <4>1
      <4> QED
        BY <4>2 DEF i, C
    <3> QED
      BY <2>2, <3>2, <3>3, <3>4
  <2> QED
    BY <1>2, <2>2, <2>4, <2>5, <2>6, <2>7
<1>6. ClosedBlock(data, bits) = [k \in BlockIndex |-> ClosedBlock(data, bits)[k]]
  BY <1>4 DEF ClosesBlock
<1> QED
  BY <1>1, <1>5, <1>6 DEF PaddedBlock, PadsTo

\* The reference hash of a digest and of a header, in blocks.
LEMMA DigestHashed ==
    ASSUME NEW d, IsList(d, 32)
    PROVE  sha256_ref(d) = <<ClosedBlock(d, 256)>>
<1>1. IsPadded(d, 32)
  BY ListPads
<1>2. sha256_ref(d) = [b \in 1 .. PaddedBlocks(32) |-> PaddedBlock(d, b)]
  BY <1>1 DEF IsPadded
<1>3. EndsAs(d, 1, d, 32) /\ ClosedMessage(32, 32, 1, 256)
  BY DEF EndsAs, ClosedMessage
<1>4. PaddedBlocks(32) = 1 /\ PaddedBlock(d, 1) = ClosedBlock(d, 256)
  <2>1. PadsTo(d, 32, 1, d, 32, 256)
    BY <1>3, PaddedIsClosed
  <2> QED
    BY <2>1 DEF PadsTo
<1>5. \A b \in 1..1 : PaddedBlock(d, b) = ClosedBlock(d, 256)
  BY <1>4
<1>6. sha256_ref(d) = [b \in 1..1 |-> ClosedBlock(d, 256)]
  BY <1>2, <1>4, <1>5
<1> QED
  BY <1>6

HashedByParts(h) ==
    sha256_ref(h) = Append(sha256_midstate(SubSeq(h, 1, 64)),
                           ClosedBlock(SubSeq(h, 65, 80), 640))

LEMMA HeaderHashed ==
    ASSUME NEW h, IsList(h, 80)
    PROVE  HashedByParts(h)
<1> DEFINE tail == SubSeq(h, 65, 80)
           head == SubSeq(h, 1, 64)
           first == [k \in BlockIndex |-> head[k + 1]]
<1>1. h \in Seq(ItemsOf(h, 80)) /\ Len(h) = 80
  BY ListIsSeq
<1> HIDE DEF tail, head, first
<1>2. sha256_ref(h) = [b \in 1 .. PaddedBlocks(80) |-> PaddedBlock(h, b)]
  <2>1. IsPadded(h, 80)
    BY ListPads
  <2> QED
    BY <2>1 DEF IsPadded
<1>3. IsList(tail, 16) /\ Len(tail) = 16 /\ \A k \in 1..16 : tail[k] = h[64 + k]
  <2>1. IsPiece(SubSeq(h, 65, 80), h, 64, 16)
    BY ListPiece
  <2> QED
    BY <2>1 DEF IsPiece, tail
<1>4. \A k \in 1..64 : head[k] = h[k]
  <2>1. IsPiece(SubSeq(h, 1, 64), h, 0, 64)
    BY ListPiece
  <2> QED
    BY <2>1 DEF IsPiece, head
<1>5. PaddedBlocks(80) = 2 /\ PaddedBlock(h, 2) = ClosedBlock(tail, 640)
  <2>1. EndsAs(h, 2, tail, 16) /\ ClosedMessage(80, 16, 2, 640)
    BY <1>3 DEF EndsAs, ClosedMessage
  <2>2. PadsTo(h, 80, 2, tail, 16, 640)
    BY <1>1, <1>3, <2>1, PaddedIsClosed
  <2> QED
    BY <2>2 DEF PadsTo
<1>6. PaddedBlock(h, 1) = first
  <2>1. ASSUME NEW k \in BlockIndex PROVE PaddedByte(h, 64 * (1 - 1) + k + 1) = head[k + 1]
    <3>1. 64 * (1 - 1) + k + 1 = k + 1 /\ k + 1 \in 1..64 /\ k + 1 \in Nat /\ k + 1 <= 80
      BY DEF BlockIndex
    <3>2. PaddedByte(h, k + 1) = h[k + 1]
      <4> DEFINE i == k + 1
      <4>1. i \in Nat /\ i <= 80
        BY <3>1
      <4> HIDE DEF i
      <4>2. PaddedByte(h, i) = h[i]
        BY <1>1, <4>1 DEF PaddedByte
      <4> QED
        BY <4>2 DEF i
    <3> QED
      BY <1>4, <3>1, <3>2
  <2> QED
    BY <2>1 DEF PaddedBlock, first
<1>7. sha256_midstate(head) = <<first>>
  BY DEF sha256_midstate, Compress, first
<1>8. sha256_ref(h) = <<first, ClosedBlock(tail, 640)>>
  <2> DEFINE f == [b \in 1..2 |-> PaddedBlock(h, b)]
  <2>1. sha256_ref(h) = f
    BY <1>2, <1>5
  <2>2. f = <<PaddedBlock(h, 1), PaddedBlock(h, 2)>>
    OBVIOUS
  <2> HIDE DEF f
  <2> QED
    BY <1>5, <1>6, <2>1, <2>2
<1>9. Append(<<first>>, ClosedBlock(tail, 640)) = <<first, ClosedBlock(tail, 640)>>
  BY OneMore
<1> QED
  BY <1>7, <1>8, <1>9 DEF tail, head, HashedByParts

\* A header is 76 bytes the nonce has no part in, and the nonce.
NonceBytes(nonce) == [k \in 1..4 |-> NonceByte(nonce, k - 1)]

IsFixedPart(fixed, version, prevhash, root, ntime, nbits) ==
    /\ IsList(fixed, 76)
    /\ \A nonce : assemble_header(version, prevhash, root, ntime, nbits, nonce).bytes
                      = fixed \o NonceBytes(nonce)

LEMMA HeaderParts ==
    ASSUME NEW version, NEW prevhash, NEW root, NEW ntime, NEW nbits
    PROVE  \E fixed : IsFixedPart(fixed, version, prevhash, root, ntime, nbits)
<1> DEFINE v == Reversed(HexBytes(version, 4))
           p == WordSwapped(HexBytes(prevhash, 32))
           r == HashBytes(root)
           t == Reversed(HexBytes(ntime, 4))
           b == Reversed(HexBytes(nbits, 4))
           fixed == v \o p \o r \o t \o b
<1>1. \A text : \A n \in Nat : Len(HexBytes(text, n)) = n
  BY DEF HexBytes
<1>2. ASSUME NEW text PROVE IsList(Reversed(HexBytes(text, 4)), 4)
  <2> DEFINE bytes == HexBytes(text, 4)
  <2>1. Len(bytes) = 4
    BY <1>1
  <2> HIDE DEF bytes
  <2>2. Reversed(bytes) = [i \in 1..4 |-> bytes[Len(bytes) + 1 - i]]
    BY <2>1 DEF Reversed
  <2> QED
    BY <2>2 DEF IsList, bytes
<1>3. IsList(v, 4) /\ IsList(t, 4) /\ IsList(b, 4)
  BY <1>2
<1>4. IsList(p, 32)
  <2>1. Len(HexBytes(prevhash, 32)) = 32
    BY <1>1
  <2> QED
    BY <2>1 DEF WordSwapped, IsList
<1>5. IsList(r, 32)
  BY DEF HashBytes, IsList
<1>6. \A nonce : assemble_header(version, prevhash, root, ntime, nbits, nonce).bytes
                     = fixed \o NonceBytes(nonce)
  BY DEF assemble_header, NonceBytes
<1> HIDE DEF v, p, r, t, b
<1>7. Joins(v \o p, v, 4, p, 32)
  BY <1>3, <1>4, Joined
<1>8. IsList(v \o p, 36)
  BY <1>7 DEF Joins
<1>9. Joins((v \o p) \o r, v \o p, 36, r, 32)
  BY <1>5, <1>8, Joined
<1>10. IsList((v \o p) \o r, 68)
  BY <1>9 DEF Joins
<1>11. Joins(((v \o p) \o r) \o t, (v \o p) \o r, 68, t, 4)
  BY <1>3, <1>10, Joined
<1>12. IsList(((v \o p) \o r) \o t, 72)
  BY <1>11 DEF Joins
<1>13. Joins((((v \o p) \o r) \o t) \o b, ((v \o p) \o r) \o t, 72, b, 4)
  BY <1>3, <1>12, Joined
<1>14. IsList(fixed, 76)
  BY <1>13 DEF Joins
<1>15. IsFixedPart(fixed, version, prevhash, root, ntime, nbits)
  <2> HIDE DEF fixed
  <2> QED
    BY <1>6, <1>14 DEF IsFixedPart
<1> QED
  BY <1>15

\* The tail patched with a nonce is the end of the header with that nonce.
Patches(before, after, nonce) ==
    /\ IsList(after, 80)
    /\ SubSeq(before, 1, 64) = SubSeq(after, 1, 64)
    /\ Patched(SubSeq(before, 65, 80), nonce) = SubSeq(after, 65, 80)

LEMMA PatchedIsTail ==
    ASSUME NEW fixed, IsList(fixed, 76), NEW old, NEW nonce
    PROVE  Patches(fixed \o NonceBytes(old), fixed \o NonceBytes(nonce), nonce)
<1> DEFINE before == fixed \o NonceBytes(old)
           after == fixed \o NonceBytes(nonce)
           cut == SubSeq(SubSeq(before, 65, 80), 1, 12)
           x == cut \o NonceBytes(nonce)
           y == SubSeq(after, 65, 80)
<1>1. \A n : IsList(NonceBytes(n), 4)
  BY DEF IsList, NonceBytes
<1>2. Joins(before, fixed, 76, NonceBytes(old), 4) /\ Joins(after, fixed, 76, NonceBytes(nonce), 4)
  BY <1>1, Joined
<1> HIDE DEF before, after
<1>3. /\ IsList(before, 80) /\ IsList(after, 80)
      /\ \A i \in 1..76 : before[i] = fixed[i] /\ after[i] = fixed[i]
      /\ \A i \in 1..4 : after[76 + i] = NonceBytes(nonce)[i]
  BY <1>2 DEF Joins
<1>4. SubSeq(before, 1, 64) = SubSeq(after, 1, 64)
  <2> DEFINE s == SubSeq(before, 1, 64)
             t == SubSeq(after, 1, 64)
  <2>1. IsPiece(SubSeq(before, 1, 64), before, 0, 64)
    BY <1>3, ListPiece
  <2>2. IsPiece(SubSeq(after, 1, 64), after, 0, 64)
    BY <1>3, ListPiece
  <2>3. IsList(s, 64) /\ \A i \in 1..64 : s[i] = before[i]
    BY <2>1 DEF IsPiece
  <2>4. IsList(t, 64) /\ \A i \in 1..64 : t[i] = after[i]
    BY <2>2 DEF IsPiece
  <2> HIDE DEF s, t
  <2>5. \A i \in 1..64 : s[i] = t[i]
    BY <1>3, <2>3, <2>4
  <2>6. s = t
    BY <2>3, <2>4, <2>5, SameList
  <2> QED
    BY <2>6 DEF s, t
<1>5. IsList(cut, 12) /\ \A i \in 1..12 : cut[i] = fixed[64 + i]
  <2> DEFINE tail == SubSeq(before, 65, 80)
  <2>1. IsPiece(SubSeq(before, 65, 80), before, 64, 16)
    BY <1>3, ListPiece
  <2>2. IsList(tail, 16) /\ \A i \in 1..16 : tail[i] = before[64 + i]
    BY <2>1 DEF IsPiece
  <2> HIDE DEF tail
  <2>3. IsPiece(SubSeq(tail, 1, 12), tail, 0, 12)
    BY <2>2, ListPiece
  <2>4. IsList(SubSeq(tail, 1, 12), 12) /\ \A i \in 1..12 : SubSeq(tail, 1, 12)[i] = tail[i]
    BY <2>3 DEF IsPiece
  <2> QED
    BY <1>3, <2>2, <2>4 DEF tail
<1>6. IsList(y, 16) /\ \A i \in 1..16 : y[i] = after[64 + i]
  <2>1. IsList(after, 80)
    BY <1>3
  <2>2. IsPiece(SubSeq(after, 65, 80), after, 64, 16)
    BY <2>1, ListPiece
  <2> QED
    BY <2>2 DEF IsPiece
<1>7. Patched(SubSeq(before, 65, 80), nonce) = x
  BY DEF Patched, NonceBytes
<1> HIDE DEF cut
<1>8. Joins(x, cut, 12, NonceBytes(nonce), 4)
  BY <1>1, <1>5, Joined
<1> HIDE DEF x, y
<1>9. /\ IsList(x, 16) /\ \A i \in 1..12 : x[i] = cut[i]
      /\ \A i \in 1..4 : x[12 + i] = NonceBytes(nonce)[i]
  BY <1>8 DEF Joins
<1>10. ASSUME NEW i \in 1..16 PROVE x[i] = y[i]
  <2>1. CASE i <= 12
    <3>1. i \in 1..12 /\ 64 + i \in 1..76
      BY <2>1
    <3> QED
      BY <1>3, <1>5, <1>6, <1>9, <3>1
  <2>2. CASE ~ (i <= 12)
    <3> DEFINE k == i - 12
    <3>1. k \in 1..4 /\ i = 12 + k /\ 64 + i = 76 + k
      BY <2>2
    <3> HIDE DEF k
    <3>2. y[i] = NonceBytes(nonce)[k]
      BY <1>3, <1>6, <3>1
    <3>3. x[i] = NonceBytes(nonce)[k]
      BY <1>9, <3>1
    <3> QED
      BY <3>2, <3>3
  <2> QED
    BY <2>1, <2>2
<1>11. x = y
  BY <1>6, <1>9, <1>10, SameList
<1>12. Patched(SubSeq(before, 65, 80), nonce) = SubSeq(after, 65, 80)
  BY <1>7, <1>11 DEF y
<1>13. Patches(before, after, nonce)
  BY <1>3, <1>4, <1>12 DEF Patches
<1> QED
  BY <1>13 DEF before, after

\* Of every template, complete or not, and every nonce: the midstate and the
\* patched tail give the double hash of the whole header.
LEMMA FinishOfHeader ==
    ASSUME NEW version, NEW prevhash, NEW root, NEW ntime, NEW nbits, NEW nonce
    PROVE  LET before == assemble_header(version, prevhash, root, ntime, nbits, 0).bytes
               after == assemble_header(version, prevhash, root, ntime, nbits, nonce).bytes
           IN  sha256d_finish(sha256_midstate(SubSeq(before, 1, 64)),
                              Patched(SubSeq(before, 65, 80), nonce)) = sha256d_ref(after)
<1> DEFINE before == assemble_header(version, prevhash, root, ntime, nbits, 0).bytes
           after == assemble_header(version, prevhash, root, ntime, nbits, nonce).bytes
           midstate == sha256_midstate(SubSeq(before, 1, 64))
           tail == Patched(SubSeq(before, 65, 80), nonce)
           s1 == Append(midstate, ClosedBlock(tail, 640))
           d == DigestBytes(s1)
<1>1. PICK fixed : IsFixedPart(fixed, version, prevhash, root, ntime, nbits)
  BY HeaderParts
<1>2. /\ IsList(fixed, 76)
      /\ before = fixed \o NonceBytes(0) /\ after = fixed \o NonceBytes(nonce)
  BY <1>1 DEF IsFixedPart
<1> HIDE DEF before, after
<1>3. /\ IsList(after, 80) /\ SubSeq(before, 1, 64) = SubSeq(after, 1, 64)
      /\ tail = SubSeq(after, 65, 80)
  <2>1. Patches(before, after, nonce)
    BY <1>2, PatchedIsTail
  <2> QED
    BY <2>1 DEF Patches
<1>4. sha256d_finish(midstate, tail) = Append(<<>>, ClosedBlock(d, 256))
  BY DEF sha256d_finish, Compress
<1> HIDE DEF tail
<1>5. sha256_ref(after) = s1
  <2>1. HashedByParts(after)
    BY <1>3, HeaderHashed
  <2>2. midstate = sha256_midstate(SubSeq(after, 1, 64))
    BY <1>3
  <2> HIDE DEF midstate
  <2> QED
    BY <1>3, <2>1, <2>2 DEF HashedByParts
<1> HIDE DEF s1, midstate
<1>6. sha256_ref(d) = <<ClosedBlock(d, 256)>>
  <2>1. IsList(d, 32)
    BY DEF DigestBytes, IsList
  <2> HIDE DEF d
  <2> QED
    BY <2>1, DigestHashed
<1>7. sha256d_ref(after) = sha256_ref(d)
  BY <1>5 DEF sha256d_ref
<1> HIDE DEF d
<1>8. Append(<<>>, ClosedBlock(d, 256)) = <<ClosedBlock(d, 256)>>
  OBVIOUS
<1>9. sha256d_finish(midstate, tail) = sha256d_ref(after)
  BY <1>4, <1>6, <1>7, <1>8
<1> QED
  BY <1>9 DEF midstate, tail, before, after

\* A call that grinds stands for the hash of its nonce under its template.
TemplateOf(b) == BuildTemplate(JobOf(b), b.extranonce1, extranonce2_hex(b.counter, b.size))
GrindsReturn ==
    call.fn = "grind" =>
        result = GrindOne(TemplateOf(call.arg.build), call.arg.nonce)

LEMMA GrindsReturned == Spec => []GrindsReturn
<1>1. Init => GrindsReturn
  BY DEF Init, Idle, GrindsReturn
<1>2. GrindsReturn /\ [Next]_vars => GrindsReturn'
  <2> SUFFICES ASSUME GrindsReturn, [Next]_vars PROVE GrindsReturn'
    OBVIOUS
  <2>1. CASE CallGrind
    <3>1. PICK b \in Builds, n \in GrindNonces :
             Returns("grind", [build |-> b, nonce |-> n], GrindOne(TemplateOf(b), n))
      BY <2>1 DEF CallGrind, TemplateOf
    <3> QED
      BY <3>1 DEF Returns, GrindsReturn
  <2>2. CASE CallBitsToTarget
    BY <2>2 DEF CallBitsToTarget, Returns, GrindsReturn
  <2>3. CASE CallDifficultyToTarget
    BY <2>3 DEF CallDifficultyToTarget, Returns, GrindsReturn
  <2>4. CASE CallSha256
    <3>1. call'.fn = "sha256_ref"
      BY <2>4 DEF CallSha256, Returns
    <3> QED
      BY <3>1 DEF GrindsReturn
  <2>5. CASE CallBuild
    BY <2>5 DEF CallBuild, Returns, GrindsReturn
  <2>6. CASE Return
    BY <2>6 DEF Return, Idle, GrindsReturn
  <2>7. CASE UNCHANGED vars
    BY <2>7 DEF vars, GrindsReturn
  <2> QED
    BY <2>1, <2>2, <2>3, <2>4, <2>5, <2>6, <2>7 DEF Next
<1> QED
  BY <1>1, <1>2, PTL DEF Spec

\* The hot loop computes the reference double hash of the header, whatever the
\* job, the extranonces and the nonce.
THEOREM HotLoopHashesTheHeader == Spec => []FinishIsReference
<1>1. GrindsReturn => FinishIsReference
  <2> SUFFICES ASSUME GrindsReturn, call.fn = "grind"
               PROVE  LET b == call.arg.build
                          job == JobOf(b)
                          coinbase == coinbase_assemble(
                              <<job.coinb1, b.extranonce1, extranonce2_hex(b.counter, b.size),
                                job.coinb2>>)
                          root == build_merkle_root(HashOf(coinbase.bytes), job.branch)
                      IN  result = sha256d_ref(
                              assemble_header(job.version, job.prevhash, root, job.ntime,
                                              job.nbits, call.arg.nonce).bytes)
    BY DEF FinishIsReference
  <2> DEFINE b == call.arg.build
             nonce == call.arg.nonce
             job == JobOf(b)
             en2 == extranonce2_hex(b.counter, b.size)
             coinbase == coinbase_assemble(<<job.coinb1, b.extranonce1, en2, job.coinb2>>)
             root == build_merkle_root(HashOf(coinbase.bytes), job.branch)
             before == assemble_header(job.version, job.prevhash, root, job.ntime, job.nbits, 0)
             after == assemble_header(job.version, job.prevhash, root, job.ntime, job.nbits, nonce)
             template == TemplateOf(b)
  <2>1. result = GrindOne(template, nonce)
    BY DEF GrindsReturn
  <2>2. /\ template.midstate = sha256_midstate(SubSeq(before.bytes, 1, 64))
        /\ template.tail = SubSeq(before.bytes, 65, 80)
    <3> HIDE DEF job
    <3> QED
      BY DEF TemplateOf, BuildTemplate, job
  <2> HIDE DEF template
  <2>3. result = sha256d_finish(template.midstate, Patched(template.tail, nonce))
    BY <2>1 DEF GrindOne
  <2>4. sha256d_finish(sha256_midstate(SubSeq(before.bytes, 1, 64)),
                       Patched(SubSeq(before.bytes, 65, 80), nonce)) = sha256d_ref(after.bytes)
    <3> HIDE DEF b, nonce, job, en2, coinbase, root
    <3> QED
      BY FinishOfHeader
  <2>5. result = sha256d_ref(after.bytes)
    <3> HIDE DEF before, after, nonce
    <3> QED
      BY <2>2, <2>3, <2>4
  <2> QED
    BY <2>5
<1>2. Spec => []GrindsReturn
  BY GrindsReturned
<1> QED
  BY <1>1, <1>2, PTL
-----------------------------------------------------------------------------
(* Hex texts. *)

\* The characters of a text, and what is read behind its end.
LEMMA CharIs ==
    ASSUME NEW text, IsText(text), NEW i \in Nat
    PROVE  /\ i < Len(text) => CharAt(text, i) = text[i + 1] /\ text[i + 1] # Terminator
           /\ i >= Len(text) => CharAt(text, i) = Terminator /\ CharAt(text, i) \notin HexDigits
<1>1. text \in Seq(0..16) /\ Len(text) \in Nat
  <2>1. HexDigits \cup {NotHex} = 0..16
    BY DEF HexDigits, NotHex
  <2>2. text \in Seq(0..16)
    BY <2>1, Zenon DEF IsText
  <2> QED
    BY <2>2
<1>2. ASSUME i < Len(text) PROVE CharAt(text, i) = text[i + 1] /\ text[i + 1] # Terminator
  <2>1. i + 1 \in 1 .. Len(text)
    BY <1>1, <1>2
  <2> DEFINE c == text[i + 1]
  <2>2. c \in 0..16
    BY <1>1, <2>1
  <2>3. CharAt(text, i) = c
    BY <1>2 DEF CharAt
  <2> HIDE DEF c
  <2>4. c # Terminator
    BY <2>2 DEF Terminator
  <2> QED
    BY <2>3, <2>4 DEF c
<1>3. ASSUME i >= Len(text) PROVE CharAt(text, i) = Terminator /\ CharAt(text, i) \notin HexDigits
  <2>1. ~ (i < Len(text))
    BY <1>1, <1>3
  <2> QED
    BY <2>1 DEF CharAt, Terminator, HexDigits
<1> QED
  BY <1>2, <1>3

\* A pair lies within the text, and says so by its second character.
LEMMA PairIs ==
    ASSUME NEW text, IsText(text), NEW i \in Nat
    PROVE  IsPairAt(text, i) <=>
               /\ 2*i + 1 < Len(text)
               /\ text[2*i + 1] \in HexDigits /\ text[2*i + 2] \in HexDigits
<1> DEFINE a == 2*i
           b == 2*i + 1
<1>1. a \in Nat /\ b \in Nat /\ b = a + 1 /\ b + 1 = 2*i + 2 /\ Len(text) \in Nat
  BY DEF IsText
<1>2. IsPairAt(text, i) <=> CharAt(text, a) \in HexDigits /\ CharAt(text, b) \in HexDigits
  BY DEF IsPairAt
<1> HIDE DEF a, b
<1>3. CASE b < Len(text)
  <2>1. CharAt(text, a) = text[a + 1] /\ CharAt(text, b) = text[b + 1]
    BY <1>1, <1>3, CharIs
  <2> QED
    BY <1>1, <1>2, <1>3, <2>1 DEF a, b
<1>4. CASE ~ (b < Len(text))
  <2>1. CharAt(text, b) \notin HexDigits
    BY <1>1, <1>4, CharIs
  <2> QED
    BY <1>2, <1>4, <2>1 DEF b
<1> QED
  BY <1>3, <1>4

\* A text of pairs is hex throughout.
PairsTo(text, n) == \A i \in 0 .. n - 1 : IsPairAt(text, i)

LEMMA PairsAreHex ==
    ASSUME NEW text, IsText(text), NEW n \in Nat, Len(text) = 2*n
    PROVE  PairsTo(text, n) <=> IsHex(text)
<1>1. ASSUME PairsTo(text, n), NEW k \in 1 .. Len(text) PROVE text[k] \in HexDigits
  <2> DEFINE i == (k - 1) \div 2
  <2>1. i \in Nat /\ i \in 0 .. n - 1 /\ (k = 2*i + 1 \/ k = 2*i + 2)
    OBVIOUS
  <2> HIDE DEF i
  <2>2. IsPairAt(text, i)
    BY <1>1, <2>1 DEF PairsTo
  <2>3. text[2*i + 1] \in HexDigits /\ text[2*i + 2] \in HexDigits
    BY <2>1, <2>2, PairIs
  <2> QED
    BY <2>1, <2>3
<1>2. ASSUME IsHex(text), NEW i \in 0 .. n - 1 PROVE IsPairAt(text, i)
  <2>1. i \in Nat /\ 2*i + 1 < Len(text) /\ 2*i + 1 \in 1 .. Len(text) /\ 2*i + 2 \in 1 .. Len(text)
    OBVIOUS
  <2>2. text[2*i + 1] \in HexDigits /\ text[2*i + 2] \in HexDigits
    BY <1>2, <2>1 DEF IsHex
  <2> QED
    BY <2>1, <2>2, PairIs
<1> QED
  BY <1>1, <1>2 DEF PairsTo, IsHex

\* header.c takes the hex texts of exactly that many bytes.
LEMMA DecodesHex ==
    ASSUME NEW text, IsText(text), NEW n \in Nat
    PROVE  HexDecodes(text, n) <=> Len(text) = 2*n /\ IsHex(text)
<1>1. HexDecodes(text, n) <=> PairsTo(text, n) /\ CharAt(text, 2*n) = Terminator
  BY DEF HexDecodes, PairsTo
<1>2. Len(text) \in Nat /\ 2*n \in Nat
  BY DEF IsText
<1>3. CharAt(text, 2*n) = Terminator <=> 2*n >= Len(text)
  <2> DEFINE e == 2*n
  <2>1. e \in Nat
    OBVIOUS
  <2> HIDE DEF e
  <2>2. CharAt(text, e) = Terminator <=> e >= Len(text)
    BY <1>2, <2>1, CharIs
  <2> QED
    BY <2>2 DEF e
<1>4. ASSUME PairsTo(text, n), 2*n >= Len(text) PROVE Len(text) = 2*n
  <2>1. CASE n = 0
    BY <1>2, <1>4, <2>1
  <2>2. CASE n # 0
    <3>1. n - 1 \in Nat /\ IsPairAt(text, n - 1)
      BY <1>4, <2>2 DEF PairsTo
    <3>2. 2*(n - 1) + 1 < Len(text)
      <4> DEFINE i == n - 1
      <4>1. i \in Nat /\ IsPairAt(text, i)
        BY <3>1
      <4> HIDE DEF i
      <4>2. 2*i + 1 < Len(text)
        BY <4>1, PairIs
      <4> QED
        BY <4>2 DEF i
    <3> QED
      BY <1>2, <1>4, <3>2
  <2> QED
    BY <2>1, <2>2
<1>5. CASE Len(text) = 2*n
  BY <1>1, <1>3, <1>5, <1>2, PairsAreHex
<1>6. CASE Len(text) # 2*n
  BY <1>1, <1>3, <1>4, <1>6
<1> QED
  BY <1>5, <1>6

\* What decode_hex_string makes of a text.
Decodable(text, out_size) == Len(text) % 2 = 0 /\ IsHex(text) /\ Len(text) <= 2*out_size
Decoded(text, out_size) == IF Decodable(text, out_size) THEN Len(text) \div 2 ELSE -1

\* From byte i on: the count at the end, or -1 if one of the pairs is refused.
DecodedFrom(text, out_size, i) ==
    IF 2*i >= Len(text) THEN i
    ELSE IF \A k \in i .. Len(text) : 2*k < Len(text) => k < out_size /\ IsPairAt(text, k)
         THEN (Len(text) + 1) \div 2
         ELSE -1

\* The loop, as the function decode_hex_string is defined by.
Decoding(f, text, out_size) ==
    f = [i \in 0 .. Len(text) |->
            IF CharAt(text, 2*i) = Terminator THEN i
            ELSE IF i >= out_size \/ ~ IsPairAt(text, i) THEN -1
            ELSE f[i + 1]]

LEMMA DecodingStep ==
    ASSUME NEW text, IsText(text), NEW out_size \in Nat, NEW i \in 0 .. Len(text)
    PROVE  DecodedFrom(text, out_size, i) =
               IF CharAt(text, 2*i) = Terminator THEN i
               ELSE IF i >= out_size \/ ~ IsPairAt(text, i) THEN -1
               ELSE DecodedFrom(text, out_size, i + 1)
<1> DEFINE L == Len(text)
           Fine(k) == k < out_size /\ IsPairAt(text, k)
           AllFine(j) == \A k \in j .. L : 2*k < L => Fine(k)
<1>1. L \in Nat /\ i \in Nat
  BY DEF IsText
<1>2. \A j : DecodedFrom(text, out_size, j)
               = IF 2*j >= L THEN j ELSE IF AllFine(j) THEN (L + 1) \div 2 ELSE -1
  BY DEF DecodedFrom
<1>3. CharAt(text, 2*i) = Terminator <=> 2*i >= L
  <2> DEFINE e == 2*i
  <2>1. e \in Nat
    BY <1>1
  <2> HIDE DEF e
  <2>2. CharAt(text, e) = Terminator <=> e >= L
    BY <1>1, <2>1, CharIs
  <2> QED
    BY <2>2 DEF e
<1>4. IsPairAt(text, i) => 2*i + 1 < L
  BY <1>1, PairIs
<1>5. CASE 2*i >= L
  BY <1>2, <1>3, <1>5
<1>6. CASE 2*i < L /\ ~ Fine(i)
  <2>1. ~ AllFine(i)
    BY <1>1, <1>6
  <2>2. DecodedFrom(text, out_size, i) = -1
    BY <1>1, <1>2, <1>6, <2>1
  <2> QED
    BY <1>1, <1>3, <1>6, <2>2
<1>7. CASE 2*i < L /\ Fine(i)
  <2>1. DecodedFrom(text, out_size, i) = IF AllFine(i) THEN (L + 1) \div 2 ELSE -1
    <3>1. ~ (2*i >= L)
      BY <1>1, <1>7
    <3> QED
      BY <1>2, <3>1
  <2>2. AllFine(i) <=> AllFine(i + 1)
    <3>1. \A k \in i .. L : k = i \/ k \in i + 1 .. L
      BY <1>1
    <3>2. \A k \in i + 1 .. L : k \in i .. L
      BY <1>1
    <3> HIDE DEF Fine
    <3> QED
      BY <1>7, <3>1, <3>2
  <2>3. DecodedFrom(text, out_size, i + 1)
            = IF 2*(i + 1) >= L THEN i + 1 ELSE IF AllFine(i + 1) THEN (L + 1) \div 2 ELSE -1
    BY <1>2
  <2>4. CASE 2*(i + 1) >= L
    <3>1. AllFine(i + 1)
      BY <1>1, <2>4
    <3>2. L = 2*i + 2 /\ (L + 1) \div 2 = i + 1
      BY <1>1, <1>4, <1>7, <2>4
    <3>3. DecodedFrom(text, out_size, i) = DecodedFrom(text, out_size, i + 1)
      BY <2>1, <2>2, <2>3, <2>4, <3>1, <3>2
    <3> QED
      BY <1>1, <1>3, <1>7, <3>3
  <2>5. CASE ~ (2*(i + 1) >= L)
    <3>1. DecodedFrom(text, out_size, i) = DecodedFrom(text, out_size, i + 1)
      BY <2>1, <2>2, <2>3, <2>5
    <3> QED
      BY <1>1, <1>3, <1>7, <3>1
  <2> QED
    BY <2>4, <2>5
<1> QED
  BY <1>1, <1>5, <1>6, <1>7

LEMMA DecodedAtStart ==
    ASSUME NEW text, IsText(text), NEW out_size \in Nat
    PROVE  DecodedFrom(text, out_size, 0) = Decoded(text, out_size)
<1> DEFINE L == Len(text)
           n == (L + 1) \div 2
           Fine == \A k \in 0 .. L : 2*k < L => k < out_size /\ IsPairAt(text, k)
<1>1. L \in Nat /\ n \in Nat /\ (L = 2*n \/ L = 2*n - 1)
  BY DEF IsText
<1>2. DecodedFrom(text, out_size, 0) = IF L = 0 THEN 0 ELSE IF Fine THEN n ELSE -1
  BY <1>1 DEF DecodedFrom
<1>3. CASE L = 0
  <2>1. Decodable(text, out_size) /\ L \div 2 = 0
    BY <1>3 DEF Decodable, IsHex
  <2> QED
    BY <1>2, <1>3, <2>1 DEF Decoded
<1>4. CASE L # 0
  <2>1. ASSUME Fine PROVE L = 2*n /\ IsHex(text) /\ n <= out_size
    <3> DEFINE i == n - 1
    <3>1. i \in Nat /\ i \in 0 .. L /\ 2*i < L /\ n = i + 1
      BY <1>1, <1>4
    <3> HIDE DEF i
    <3>2. i < out_size /\ IsPairAt(text, i)
      BY <2>1, <3>1
    <3>3. 2*i + 1 < L
      BY <3>1, <3>2, PairIs
    <3>4. L = 2*n /\ n <= out_size
      BY <1>1, <3>1, <3>2, <3>3
    <3>5. PairsTo(text, n)
      <4>1. \A k \in 0 .. n - 1 : k \in 0 .. L /\ 2*k < L
        BY <1>1, <3>4
      <4> HIDE DEF n, L
      <4> QED
        BY <2>1, <4>1 DEF PairsTo
    <3>6. IsHex(text)
      <4> HIDE DEF n
      <4> QED
        BY <1>1, <3>4, <3>5, PairsAreHex DEF L
    <3> QED
      BY <3>4, <3>6
  <2>2. ASSUME L = 2*n, IsHex(text), n <= out_size PROVE Fine
    <3>1. PairsTo(text, n)
      <4> HIDE DEF n
      <4> QED
        BY <1>1, <2>2, PairsAreHex DEF L
    <3>2. \A k \in 0 .. L : 2*k < L => k \in 0 .. n - 1 /\ k < out_size
      BY <1>1, <2>2
    <3> HIDE DEF n, L
    <3> QED
      BY <3>1, <3>2 DEF PairsTo
  <2>3. Decodable(text, out_size) <=> L = 2*n /\ IsHex(text) /\ n <= out_size
    <3>1. L % 2 = 0 <=> L = 2*n
      BY <1>1
    <3>2. L = 2*n => (L <= 2*out_size <=> n <= out_size)
      BY <1>1
    <3> HIDE DEF n
    <3> QED
      BY <3>1, <3>2 DEF Decodable
  <2>4. L = 2*n => L \div 2 = n
    BY <1>1
  <2>5. Decoded(text, out_size) = IF Fine THEN n ELSE -1
    <3>1. Decodable(text, out_size) <=> Fine
      <4> HIDE DEF Fine, L, n
      <4> QED
        BY <2>1, <2>2, <2>3
    <3> HIDE DEF Fine, n
    <3> QED
      BY <2>3, <2>4, <3>1 DEF Decoded, L
  <2> HIDE DEF Fine, n, L
  <2> QED
    BY <1>2, <1>4, <2>5
<1> QED
  BY <1>3, <1>4

LEMMA DecodedLengthIs ==
    ASSUME NEW text, IsText(text), NEW out_size \in Nat
    PROVE  DecodedLength(text, out_size) = Decoded(text, out_size)
<1> DEFINE L == Len(text)
           D(i) == DecodedFrom(text, out_size, i)
           F == CHOOSE f : Decoding(f, text, out_size)
<1>1. L \in Nat
  BY DEF IsText
<1>2. DecodedLength(text, out_size) = F[0]
  BY DEF DecodedLength, Decoding
<1>3. \A i \in 0 .. L : D(i) = IF CharAt(text, 2*i) = Terminator THEN i
                               ELSE IF i >= out_size \/ ~ IsPairAt(text, i) THEN -1 ELSE D(i + 1)
  <2> HIDE DEF D
  <2> QED
    BY DecodingStep DEF D
<1>4. \A i \in 0 .. L : ~ (CharAt(text, 2*i) = Terminator) => i + 1 \in 0 .. L
  <2> SUFFICES ASSUME NEW i \in 0 .. L, i + 1 \notin 0 .. L PROVE CharAt(text, 2*i) = Terminator
    OBVIOUS
  <2> DEFINE e == 2*i
  <2>1. e \in Nat /\ e >= L
    BY <1>1
  <2> HIDE DEF e
  <2>2. CharAt(text, e) = Terminator
    BY <2>1, CharIs
  <2> QED
    BY <2>2 DEF e
<1> HIDE DEF D
<1>5. \E f : Decoding(f, text, out_size)
  <2> DEFINE g == [i \in 0 .. L |-> D(i)]
  <2>1. \A i \in 0 .. L : g[i] = IF CharAt(text, 2*i) = Terminator THEN i
                               ELSE IF i >= out_size \/ ~ IsPairAt(text, i) THEN -1 ELSE g[i + 1]
    <3> SUFFICES ASSUME NEW i \in 0 .. L
                 PROVE  g[i] = IF CharAt(text, 2*i) = Terminator THEN i
                               ELSE IF i >= out_size \/ ~ IsPairAt(text, i) THEN -1 ELSE g[i + 1]
      OBVIOUS
    <3>1. g[i] = D(i) /\ (i + 1 \in 0 .. L => g[i + 1] = D(i + 1))
      OBVIOUS
    <3> HIDE DEF g
    <3> QED
      BY <1>3, <1>4, <3>1
  <2>2. g = [i \in 0 .. L |-> g[i]]
    OBVIOUS
  <2> HIDE DEF g
  <2>3. g = [i \in 0 .. L |-> IF CharAt(text, 2*i) = Terminator THEN i
                              ELSE IF i >= out_size \/ ~ IsPairAt(text, i) THEN -1 ELSE g[i + 1]]
    BY <2>1, <2>2
  <2> QED
    BY <2>3 DEF Decoding
<1>6. Decoding(F, text, out_size)
  BY <1>5
<1> HIDE DEF F
<1>7. \A i \in 0 .. L : F[i] = IF CharAt(text, 2*i) = Terminator THEN i
                               ELSE IF i >= out_size \/ ~ IsPairAt(text, i) THEN -1 ELSE F[i + 1]
  BY <1>6 DEF Decoding
<1>8. F[0] = D(0)
  <2> DEFINE Bad == {k \in 0 .. L : F[L - k] # D(L - k)}
  <2> SUFFICES ASSUME F[0] # D(0) PROVE FALSE
    OBVIOUS
  <2>1. L \in Bad
    <3>1. L - L = 0 /\ L \in 0 .. L
      BY <1>1
    <3> QED
      BY <3>1
  <2>2. PICK k \in Bad : \A m \in Bad : k <= m
    <3>1. Bad \subseteq Nat /\ Bad # {}
      BY <1>1, <2>1
    <3> HIDE DEF Bad
    <3> QED
      BY <3>1, LeastIndex
  <2> DEFINE i == L - k
  <2>3. i \in 0 .. L /\ F[i] # D(i)
    BY <1>1
  <2>4. i + 1 \in 0 .. L => F[i + 1] = D(i + 1)
    <3> SUFFICES ASSUME i + 1 \in 0 .. L PROVE F[i + 1] = D(i + 1)
      OBVIOUS
    <3>1. k - 1 \in 0 .. L /\ L - (k - 1) = i + 1 /\ ~ (k <= k - 1)
      BY <1>1
    <3>2. k - 1 \notin Bad
      BY <2>2, <3>1
    <3> HIDE DEF i
    <3> QED
      BY <3>1, <3>2
  <2> HIDE DEF i
  <2> QED
    BY <1>3, <1>4, <1>7, <2>3, <2>4
<1>9. D(0) = Decoded(text, out_size)
  BY DecodedAtStart DEF D
<1> QED
  BY <1>2, <1>8, <1>9

-----------------------------------------------------------------------------
(* The coinbase. *)

\* One part behind what is there already: the new total, or -1.
Assembled(total, part) ==
    LET n == IF total < 0 THEN -1 ELSE DecodedLength(part, CoinbaseMax - total)
    IN  IF n < 0 THEN -1 ELSE total + n
Totals(f, parts) == f = [p \in 0..4 |-> IF p = 0 THEN 0 ELSE Assembled(f[p - 1], parts[p])]

\* A text of whole bytes, and a part that fits.
IsBytes(text) == Len(text) % 2 = 0 /\ IsHex(text)
Fits(total, part) == total >= 0 /\ IsBytes(part) /\ total + (Len(part) \div 2) <= CoinbaseMax
IsTotal(total, before, part) ==
    /\ total \in -1 .. CoinbaseMax
    /\ total = IF Fits(before, part) THEN before + (Len(part) \div 2) ELSE -1

LEMMA AssembledIs ==
    ASSUME NEW total \in -1 .. CoinbaseMax, NEW part, IsText(part)
    PROVE  IsTotal(Assembled(total, part), total, part)
<1> DEFINE room == CoinbaseMax - total
           n == Len(part) \div 2
<1>1. CoinbaseMax \in Nat /\ Len(part) \in Nat /\ n \in Nat
  BY CoinbaseMaxAssumption DEF IsText
<1>2. CASE total < 0
  <2>1. Assembled(total, part) = -1 /\ ~ Fits(total, part)
    BY <1>2 DEF Assembled, Fits
  <2> QED
    BY <1>1, <2>1 DEF IsTotal
<1>3. CASE total >= 0
  <2>1. room \in Nat /\ total \in Nat
    BY <1>1, <1>3
  <2>2. DecodedLength(part, room) = Decoded(part, room)
    <3> HIDE DEF room
    <3> QED
      BY <2>1, DecodedLengthIs
  <2>3. Decodable(part, room) <=> Fits(total, part)
    <3>1. Len(part) % 2 = 0 => (Len(part) <= 2*room <=> total + n <= CoinbaseMax)
      BY <1>1, <2>1
    <3> HIDE DEF room, n
    <3> QED
      BY <1>3, <3>1 DEF Decodable, Fits, IsBytes, n
  <2>4. Assembled(total, part) = IF Decoded(part, room) < 0 THEN -1 ELSE total + Decoded(part, room)
    <3>1. ~ (total < 0)
      BY <1>3
    <3> QED
      BY <2>2, <3>1 DEF Assembled
  <2>5. CASE Fits(total, part)
    <3>1. Decoded(part, room) = n
      BY <2>3, <2>5 DEF Decoded
    <3>2. total + n <= CoinbaseMax
      BY <2>5 DEF Fits
    <3> HIDE DEF n, room
    <3>3. Assembled(total, part) = total + n
      BY <1>1, <2>4, <3>1
    <3> QED
      BY <1>1, <2>1, <2>5, <3>2, <3>3 DEF IsTotal, n
  <2>6. CASE ~ Fits(total, part)
    <3>1. Decoded(part, room) = -1
      BY <2>3, <2>6 DEF Decoded
    <3> HIDE DEF room
    <3>2. Assembled(total, part) = -1
      BY <2>4, <3>1
    <3> QED
      BY <1>1, <2>6, <3>2 DEF IsTotal
  <2> QED
    BY <2>5, <2>6
<1> QED
  BY <1>2, <1>3

\* Four parts are assembled when each is whole bytes and all fit together.
AllFit(a, b, c, d) ==
    /\ IsBytes(a) /\ IsBytes(b) /\ IsBytes(c) /\ IsBytes(d)
    /\ (Len(a) \div 2) + (Len(b) \div 2) + (Len(c) \div 2) + (Len(d) \div 2) <= CoinbaseMax
PartBytes(text) == HexBytes(text, Len(text) \div 2)
IsCoinbase(coinbase, a, b, c, d) ==
    /\ coinbase.length >= 0 <=> AllFit(a, b, c, d)
    /\ AllFit(a, b, c, d) =>
           coinbase.bytes = PartBytes(a) \o PartBytes(b) \o PartBytes(c) \o PartBytes(d)

LEMMA CoinbaseIs ==
    ASSUME NEW a, NEW b, NEW c, NEW d, IsText(a), IsText(b), IsText(c), IsText(d)
    PROVE  IsCoinbase(coinbase_assemble(<<a, b, c, d>>), a, b, c, d)
<1> DEFINE parts == <<a, b, c, d>>
           T1 == Assembled(0, a)
           T2 == Assembled(T1, b)
           T3 == Assembled(T2, c)
           T4 == Assembled(T3, d)
           F == CHOOSE f : Totals(f, parts)
           bytes == PartBytes(a) \o PartBytes(b) \o PartBytes(c) \o PartBytes(d)
<1>1. parts[1] = a /\ parts[2] = b /\ parts[3] = c /\ parts[4] = d
  OBVIOUS
<1>2. /\ coinbase_assemble(parts).length = F[4]
      /\ coinbase_assemble(parts).bytes
           = IF F[4] < 0 THEN <<>>
             ELSE PartBytes(parts[1]) \o PartBytes(parts[2]) \o PartBytes(parts[3])
                      \o PartBytes(parts[4])
  <2> HIDE DEF parts
  <2> QED
    BY DEF coinbase_assemble, Totals, Assembled, PartBytes
<1>3. /\ coinbase_assemble(parts).length = F[4]
      /\ coinbase_assemble(parts).bytes = IF F[4] < 0 THEN <<>> ELSE bytes
  <2> HIDE DEF F, parts
  <2> QED
    BY <1>1, <1>2
<1> HIDE DEF parts
<1>4. \E f : Totals(f, parts)
  <2> DEFINE g == [p \in 0..4 |-> IF p = 0 THEN 0 ELSE IF p = 1 THEN T1 ELSE IF p = 2 THEN T2
                                  ELSE IF p = 3 THEN T3 ELSE T4]
  <2>1. /\ g = [p \in 0..4 |-> g[p]]
        /\ g[0] = 0 /\ g[1] = T1 /\ g[2] = T2 /\ g[3] = T3 /\ g[4] = T4
    <3> HIDE DEF T1, T2, T3, T4
    <3> QED
      OBVIOUS
  <2> HIDE DEF g
  <2>2. \A p \in 0..4 : g[p] = IF p = 0 THEN 0 ELSE Assembled(g[p - 1], parts[p])
    <3> SUFFICES ASSUME NEW p \in 0..4
                 PROVE  g[p] = IF p = 0 THEN 0 ELSE Assembled(g[p - 1], parts[p])
      OBVIOUS
    <3>1. p = 0 \/ p = 1 \/ p = 2 \/ p = 3 \/ p = 4
      OBVIOUS
    <3> QED
      BY <1>1, <2>1, <3>1
  <2>3. g = [p \in 0..4 |-> IF p = 0 THEN 0 ELSE Assembled(g[p - 1], parts[p])]
    BY <2>1, <2>2
  <2> QED
    BY <2>3 DEF Totals
<1>5. Totals(F, parts)
  BY <1>4
<1> HIDE DEF F
<1>6. F[4] = T4
  <2>1. \A p \in 0..4 : F[p] = IF p = 0 THEN 0 ELSE Assembled(F[p - 1], parts[p])
    BY <1>5 DEF Totals
  <2>2. F[0] = 0
    BY <2>1
  <2>3. F[1] = Assembled(F[0], parts[1])
    BY <2>1
  <2>4. F[2] = Assembled(F[1], parts[2])
    BY <2>1
  <2>5. F[3] = Assembled(F[2], parts[3])
    BY <2>1
  <2>6. F[4] = Assembled(F[3], parts[4])
    BY <2>1
  <2> QED
    BY <1>1, <2>2, <2>3, <2>4, <2>5, <2>6
<1>7. IsTotal(T1, 0, a)
  <2>1. 0 \in -1 .. CoinbaseMax
    BY CoinbaseMaxAssumption
  <2> QED
    BY <2>1, AssembledIs
<1> HIDE DEF T1
<1>8. IsTotal(T2, T1, b)
  <2>1. T1 \in -1 .. CoinbaseMax
    BY <1>7 DEF IsTotal
  <2> QED
    BY <2>1, AssembledIs
<1> HIDE DEF T2
<1>9. IsTotal(T3, T2, c)
  <2>1. T2 \in -1 .. CoinbaseMax
    BY <1>8 DEF IsTotal
  <2> QED
    BY <2>1, AssembledIs
<1> HIDE DEF T3
<1>10. IsTotal(T4, T3, d)
  <2>1. T3 \in -1 .. CoinbaseMax
    BY <1>9 DEF IsTotal
  <2> QED
    BY <2>1, AssembledIs
<1> HIDE DEF T4, bytes
<1> DEFINE la == Len(a) \div 2
           lb == Len(b) \div 2
           lc == Len(c) \div 2
           ld == Len(d) \div 2
<1>11. la \in Nat /\ lb \in Nat /\ lc \in Nat /\ ld \in Nat /\ CoinbaseMax \in Nat
  BY CoinbaseMaxAssumption DEF IsText
<1>12. /\ T1 = IF IsBytes(a) /\ la <= CoinbaseMax THEN la ELSE -1
       /\ T2 = IF T1 >= 0 /\ IsBytes(b) /\ T1 + lb <= CoinbaseMax THEN T1 + lb ELSE -1
       /\ T3 = IF T2 >= 0 /\ IsBytes(c) /\ T2 + lc <= CoinbaseMax THEN T2 + lc ELSE -1
       /\ T4 = IF T3 >= 0 /\ IsBytes(d) /\ T3 + ld <= CoinbaseMax THEN T3 + ld ELSE -1
  <2>1. T1 = IF 0 >= 0 /\ IsBytes(a) /\ 0 + la <= CoinbaseMax THEN 0 + la ELSE -1
    BY <1>7 DEF IsTotal, Fits
  <2>2. 0 >= 0 /\ 0 + la = la
    BY <1>11
  <2>3. T1 = IF IsBytes(a) /\ la <= CoinbaseMax THEN la ELSE -1
    <3> HIDE DEF la
    <3> QED
      BY <2>1, <2>2
  <2> QED
    BY <2>3, <1>8, <1>9, <1>10 DEF IsTotal, Fits
<1>13. AllFit(a, b, c, d) <=>
           /\ IsBytes(a) /\ IsBytes(b) /\ IsBytes(c) /\ IsBytes(d)
           /\ la + lb + lc + ld <= CoinbaseMax
  BY DEF AllFit
<1> HIDE DEF la, lb, lc, ld
<1>14. T4 >= 0 <=> AllFit(a, b, c, d)
  <2>1. ASSUME AllFit(a, b, c, d) PROVE T4 >= 0
    <3>1. T1 = la
      BY <1>11, <1>12, <1>13, <2>1
    <3>2. T2 = la + lb
      BY <1>11, <1>12, <1>13, <2>1, <3>1
    <3>3. T3 = la + lb + lc
      BY <1>11, <1>12, <1>13, <2>1, <3>2
    <3>4. T4 = la + lb + lc + ld
      BY <1>11, <1>12, <1>13, <2>1, <3>3
    <3> QED
      BY <1>11, <2>1, <3>4
  <2>2. ASSUME T4 >= 0 PROVE AllFit(a, b, c, d)
    <3>1. T3 >= 0 /\ IsBytes(d) /\ T3 + ld <= CoinbaseMax
      BY <1>12, <2>2
    <3>2. T2 >= 0 /\ IsBytes(c) /\ T3 = T2 + lc
      BY <1>12, <3>1
    <3>3. T1 >= 0 /\ IsBytes(b) /\ T2 = T1 + lb
      BY <1>12, <3>2
    <3>4. IsBytes(a) /\ T1 = la
      BY <1>12, <3>3
    <3> QED
      BY <1>11, <1>13, <3>1, <3>2, <3>3, <3>4
  <2> QED
    BY <2>1, <2>2
<1>15. T4 >= 0 => coinbase_assemble(parts).bytes = bytes
  <2>1. T4 >= 0 => ~ (T4 < 0)
    BY <1>10 DEF IsTotal
  <2> QED
    BY <1>3, <1>6, <2>1
<1>16. IsCoinbase(coinbase_assemble(parts), a, b, c, d)
  BY <1>3, <1>6, <1>14, <1>15 DEF IsCoinbase, bytes
<1> QED
  BY <1>16 DEF parts

\* The bytes of a text of pairs.
IsBytesOf(bytes, text, n) ==
    /\ IsText(text) /\ n \in Nat /\ Len(text) = 2*n
    /\ IsList(bytes, n)
    /\ \A k \in 1 .. n : bytes[k] = Val(16 * text[2*k - 1] + text[2*k])

LEMMA HexBytesIs ==
    ASSUME NEW text, IsText(text), NEW n \in Nat, Len(text) = 2*n
    PROVE  IsBytesOf(HexBytes(text, n), text, n)
<1>1. IsList(HexBytes(text, n), n)
  BY DEF HexBytes, IsList
<1>2. ASSUME NEW k \in 1 .. n PROVE HexBytes(text, n)[k] = Val(16 * text[2*k - 1] + text[2*k])
  <2> DEFINE a == 2 * (k - 1)
             b == 2 * (k - 1) + 1
  <2>1. /\ a \in Nat /\ b \in Nat /\ a < Len(text) /\ b < Len(text)
        /\ a + 1 = 2*k - 1 /\ b + 1 = 2*k
    OBVIOUS
  <2>2. HexBytes(text, n)[k] = Val(16 * CharAt(text, a) + CharAt(text, b))
    BY DEF HexBytes, PairAt
  <2> HIDE DEF a, b
  <2>3. CharAt(text, a) = text[a + 1] /\ CharAt(text, b) = text[b + 1]
    BY <2>1, CharIs
  <2> QED
    BY <2>1, <2>2, <2>3
<1> QED
  BY <1>1, <1>2 DEF IsBytesOf

\* The bytes of two texts are those of the texts put together.
TextsJoin(s, n, t, m) ==
    IsBytesOf(HexBytes(s, n) \o HexBytes(t, m), s \o t, n + m)

LEMMA TextsJoined ==
    ASSUME NEW u, NEW s, NEW n, IsBytesOf(u, s, n), NEW v, NEW t, NEW m, IsBytesOf(v, t, m)
    PROVE  IsBytesOf(u \o v, s \o t, n + m)
<1>1. /\ n \in Nat /\ m \in Nat /\ n + m \in Nat /\ Len(s) = 2*n /\ Len(t) = 2*m
      /\ IsText(s) /\ IsText(t) /\ IsList(u, n) /\ IsList(v, m)
      /\ \A k \in 1 .. n : u[k] = Val(16 * s[2*k - 1] + s[2*k])
      /\ \A k \in 1 .. m : v[k] = Val(16 * t[2*k - 1] + t[2*k])
  BY DEF IsBytesOf
<1> DEFINE w == u \o v
           x == s \o t
<1>2. /\ IsList(w, n + m)
      /\ \A i \in 1 .. n : w[i] = u[i]
      /\ \A i \in 1 .. m : w[n + i] = v[i]
  <2>1. Joins(w, u, n, v, m)
    BY <1>1, Joined
  <2> QED
    BY <2>1 DEF Joins
<1>3. /\ IsText(x) /\ Len(x) = 2*n + 2*m
      /\ \A i \in 1 .. 2*n : x[i] = s[i]
      /\ \A i \in 1 .. 2*m : x[2*n + i] = t[i]
  <2>1. IsList(s, Len(s)) /\ IsList(t, Len(t)) /\ IsText(x)
    <3>1. s \in Seq(HexDigits \cup {NotHex}) /\ t \in Seq(HexDigits \cup {NotHex})
      BY <1>1 DEF IsText
    <3> DEFINE V == HexDigits \cup {NotHex}
    <3> HIDE DEF V
    <3>2. s \in Seq(V) /\ t \in Seq(V)
      BY <3>1 DEF V
    <3>3. IsList(s, Len(s)) /\ IsList(t, Len(t)) /\ x \in Seq(V)
      BY <3>2, SeqIsList
    <3> QED
      BY <3>3 DEF IsText, V
  <2>2. Joins(x, s, Len(s), t, Len(t))
    BY <2>1, Joined
  <2> HIDE DEF x
  <2> QED
    BY <1>1, <2>1, <2>2 DEF Joins
<1> HIDE DEF w, x
<1>4. ASSUME NEW k \in 1 .. n + m PROVE w[k] = Val(16 * x[2*k - 1] + x[2*k])
  <2>1. CASE k \in 1 .. n
    <3>1. 2*k - 1 \in 1 .. 2*n /\ 2*k \in 1 .. 2*n
      BY <1>1, <2>1
    <3>2. x[2*k - 1] = s[2*k - 1] /\ x[2*k] = s[2*k]
      BY <1>3, <3>1
    <3> QED
      BY <1>1, <1>2, <2>1, <3>2
  <2>2. CASE ~ (k \in 1 .. n)
    <3> DEFINE i == k - n
    <3>1. i \in 1 .. m /\ k = n + i /\ 2*i - 1 \in 1 .. 2*m /\ 2*i \in 1 .. 2*m
      BY <1>1, <2>2
    <3> HIDE DEF i
    <3>2. 2*k - 1 = 2*n + (2*i - 1) /\ 2*k = 2*n + 2*i
      BY <1>1, <3>1
    <3>3. x[2*k - 1] = t[2*i - 1] /\ x[2*k] = t[2*i]
      <4> DEFINE p == 2*i - 1
                 q == 2*i
      <4>1. p \in 1 .. 2*m /\ q \in 1 .. 2*m
        BY <3>1
      <4> HIDE DEF p, q
      <4>2. x[2*n + p] = t[p] /\ x[2*n + q] = t[q]
        BY <1>3, <4>1
      <4> QED
        BY <3>2, <4>2 DEF p, q
    <3>4. w[k] = Val(16 * t[2*i - 1] + t[2*i])
      BY <1>1, <1>2, <3>1
    <3> QED
      BY <3>3, <3>4
  <2> QED
    BY <2>1, <2>2
<1>5. Len(x) = 2 * (n + m)
  BY <1>1, <1>3
<1>6. IsBytesOf(w, x, n + m)
  BY <1>1, <1>2, <1>3, <1>4, <1>5 DEF IsBytesOf
<1> QED
  BY <1>6 DEF w, x

\* The coinbase is the four texts, one behind the other.
CoinbaseOf(text) == [i \in 1 .. Len(text) \div 2 |-> Val(16 * text[2*i - 1] + text[2*i])]

LEMMA CoinbaseIsText ==
    ASSUME NEW a, NEW b, NEW c, NEW d, IsText(a), IsText(b), IsText(c), IsText(d),
           IsBytes(a), IsBytes(b), IsBytes(c), IsBytes(d)
    PROVE  /\ AllFit(a, b, c, d) <=> Len(a \o b \o c \o d) <= 2*CoinbaseMax
           /\ AllFit(a, b, c, d) =>
                  coinbase_assemble(<<a, b, c, d>>).bytes = CoinbaseOf(a \o b \o c \o d)
<1> DEFINE A == PartBytes(a)
           B == PartBytes(b)
           C == PartBytes(c)
           D == PartBytes(d)
           la == Len(a) \div 2
           lb == Len(b) \div 2
           lc == Len(c) \div 2
           ld == Len(d) \div 2
           n == ((la + lb) + lc) + ld
           bytes == A \o B \o C \o D
           text == a \o b \o c \o d
<1>1. AllFit(a, b, c, d) => coinbase_assemble(<<a, b, c, d>>).bytes = bytes
  <2>1. IsCoinbase(coinbase_assemble(<<a, b, c, d>>), a, b, c, d)
    BY CoinbaseIs
  <2> QED
    BY <2>1 DEF IsCoinbase
<1>2. ASSUME NEW t, IsText(t), IsBytes(t) PROVE IsBytesOf(PartBytes(t), t, Len(t) \div 2)
  <2> DEFINE h == Len(t) \div 2
  <2>1. h \in Nat /\ Len(t) = 2*h
    <3>1. Len(t) \in Nat
      BY <1>2 DEF IsText
    <3>2. Len(t) % 2 = 0
      BY <1>2 DEF IsBytes
    <3> QED
      BY <3>1, <3>2
  <2>2. PartBytes(t) = HexBytes(t, h)
    BY DEF PartBytes
  <2> HIDE DEF h
  <2>3. IsBytesOf(HexBytes(t, h), t, h)
    BY <1>2, <2>1, HexBytesIs
  <2> QED
    BY <2>2, <2>3 DEF h
<1>3. IsBytesOf(A, a, la) /\ IsBytesOf(B, b, lb) /\ IsBytesOf(C, c, lc) /\ IsBytesOf(D, d, ld)
  BY <1>2
<1> HIDE DEF A, B, C, D
<1>4. AllFit(a, b, c, d) <=> n <= CoinbaseMax
  BY DEF AllFit
<1> HIDE DEF la, lb, lc, ld
<1>5. IsBytesOf(A \o B, a \o b, la + lb)
  BY <1>3, TextsJoined
<1>6. IsBytesOf((A \o B) \o C, (a \o b) \o c, (la + lb) + lc)
  BY <1>3, <1>5, TextsJoined
<1>7. IsBytesOf(bytes, text, n)
  BY <1>3, <1>6, TextsJoined
<1> HIDE DEF bytes, text
<1> HIDE DEF n
<1>9. /\ n \in Nat /\ Len(text) = 2*n /\ bytes = [i \in 1 .. n |-> bytes[i]]
      /\ \A k \in 1 .. n : bytes[k] = Val(16 * text[2*k - 1] + text[2*k])
  BY <1>7 DEF IsBytesOf, IsList
<1>10. Len(text) \div 2 = n /\ (n <= CoinbaseMax <=> Len(text) <= 2*CoinbaseMax)
  BY <1>9, CoinbaseMaxAssumption
<1>11. bytes = [i \in 1 .. Len(text) \div 2 |-> Val(16 * text[2*i - 1] + text[2*i])]
  BY <1>9, <1>10
<1> QED
  BY <1>1, <1>4, <1>10, <1>11 DEF CoinbaseOf, text

-----------------------------------------------------------------------------
(* Loops: what they are defined by exists. *)

\* What holds at 0 and is handed on holds at every turn.
LEMMA EveryTurn ==
    ASSUME NEW N \in Nat, NEW S, 0 \in S, \A i \in 1 .. N : i - 1 \in S => i \in S
    PROVE  \A i \in 0 .. N : i \in S
<1> DEFINE Bad == {i \in 0 .. N : i \notin S}
<1> SUFFICES ASSUME Bad # {} PROVE FALSE
  OBVIOUS
<1>1. PICK n \in Bad : \A m \in Bad : n <= m
  <2>1. Bad \subseteq Nat
    OBVIOUS
  <2> HIDE DEF Bad
  <2> QED
    BY <2>1, LeastIndex
<1>2. n \in 0 .. N /\ n \notin S
  OBVIOUS
<1>3. n # 0
  BY <1>2
<1>4. n - 1 \in 0 .. N /\ n \in 1 .. N /\ ~ (n <= n - 1)
  BY <1>2, <1>3
<1>5. n - 1 \notin Bad
  BY <1>1, <1>4
<1> QED
  BY <1>2, <1>4, <1>5

\* One turn of each loop below, from the value x before it.
Turn(loop, arg, i, x) ==
    CASE loop = "shift" -> x \div 16
      [] loop = "spell" -> 16 * x + arg[i]
      [] loop = "power" -> arg * x
      [] loop = "take" -> x - Digit(x, Size - i) * Place(Size - i)
      [] loop = "level" -> NextLevel(x)
      [] loop = "fold" -> Folded(x, arg[i])

Runs(f, loop, arg, first, N) ==
    f = [i \in 0 .. N |-> IF i = 0 THEN first ELSE Turn(loop, arg, i, f[i - 1])]

LEMMA LoopRuns ==
    ASSUME NEW loop, NEW arg, NEW first, NEW N \in Nat
    PROVE  \E f : Runs(f, loop, arg, first, N)
<1> DEFINE S == {n \in Nat : \E f : Runs(f, loop, arg, first, n)}
<1>1. 0 \in S
  <2>1. Runs([i \in 0 .. 0 |-> first], loop, arg, first, 0)
    BY DEF Runs
  <2> QED
    BY <2>1
<1>2. ASSUME NEW n \in 1 .. N, n - 1 \in S PROVE n \in S
  <2>1. n - 1 \in Nat /\ n \in Nat /\ n # 0 /\ n - 1 \in 0 .. n - 1
    OBVIOUS
  <2>2. PICK f : Runs(f, loop, arg, first, n - 1)
    BY <1>2
  <2> DEFINE last == Turn(loop, arg, n, f[n - 1])
             g == [i \in 0 .. n |-> IF i = n THEN last ELSE f[i]]
  <2>3. \A i \in 0 .. n - 1 : f[i] = IF i = 0 THEN first ELSE Turn(loop, arg, i, f[i - 1])
    BY <2>2 DEF Runs
  <2>4. /\ g = [i \in 0 .. n |-> g[i]]
        /\ g[n] = last
        /\ \A i \in 0 .. n - 1 : g[i] = f[i]
    <3> HIDE DEF last
    <3> QED
      BY <2>1
  <2> HIDE DEF g
  <2>5. \A i \in 0 .. n : g[i] = IF i = 0 THEN first ELSE Turn(loop, arg, i, g[i - 1])
    <3> SUFFICES ASSUME NEW i \in 0 .. n
                 PROVE  g[i] = IF i = 0 THEN first ELSE Turn(loop, arg, i, g[i - 1])
      OBVIOUS
    <3>1. CASE i = n
      <4>1. g[n - 1] = f[n - 1]
        BY <2>1, <2>4
      <4> QED
        BY <2>1, <2>4, <3>1, <4>1
    <3>2. CASE i # n
      <4>1. i \in 0 .. n - 1 /\ (i # 0 => i - 1 \in 0 .. n - 1)
        BY <2>1, <3>2
      <4> QED
        BY <2>3, <2>4, <4>1
    <3> QED
      BY <3>1, <3>2
  <2>6. Runs(g, loop, arg, first, n)
    <3>1. g = [i \in 0 .. n |-> IF i = 0 THEN first ELSE Turn(loop, arg, i, g[i - 1])]
      BY <2>4, <2>5
    <3> QED
      BY <3>1 DEF Runs
  <2> QED
    BY <2>1, <2>6
<1> HIDE DEF S
<1>3. N \in S
  <2>1. \A i \in 0 .. N : i \in S
    BY <1>1, <1>2, EveryTurn
  <2> QED
    BY <2>1
<1> QED
  BY <1>3 DEF S

-----------------------------------------------------------------------------
(* Products, quotients and powers. *)

\* The product grows with a factor.
LEMMA ProductGrows ==
    ASSUME NEW x \in Int, NEW y \in Int, NEW b \in Nat
    PROVE  /\ x * b \in Int /\ y * b \in Int
           /\ x <= y => x * b <= y * b
           /\ b > 0 /\ x * b <= y * b => x <= y
<1>1. x * b \in Int /\ y * b \in Int
  OBVIOUS
<1>2. x <= y => x * b <= y * b
  OBVIOUS
<1>3. b > 0 /\ x * b <= y * b => x <= y
  OBVIOUS
<1> QED
  BY <1>1, <1>2, <1>3

IsQuotient(q, a, b) == q \in Nat /\ q * b \in Nat /\ q * b <= a /\ a < q * b + b

LEMMA QuotientIs ==
    ASSUME NEW a \in Nat, NEW b \in Nat \ {0}
    PROVE  /\ IsQuotient(a \div b, a, b)
           /\ \A q : IsQuotient(q, a, b) => q = a \div b
<1>1. IsQuotient(a \div b, a, b)
  BY DEF IsQuotient
<1>2. ASSUME NEW q, IsQuotient(q, a, b) PROVE q = a \div b
  <2> DEFINE p == a \div b
  <2>1. /\ p \in Nat /\ p * b \in Nat /\ p * b <= a /\ a < p * b + b
        /\ q \in Nat /\ q * b \in Nat /\ q * b <= a /\ a < q * b + b
    BY <1>1, <1>2 DEF IsQuotient
  <2> HIDE DEF p
  <2>2. (p + 1) * b = p * b + b /\ (q + 1) * b = q * b + b
    BY <2>1
  <2>3. ~ (q + 1 <= p)
    <3>1. q + 1 <= p => (q + 1) * b <= p * b
      BY <2>1, ProductGrows
    <3> QED
      BY <2>1, <2>2, <3>1
  <2>4. ~ (p + 1 <= q)
    <3>1. p + 1 <= q => (p + 1) * b <= q * b
      BY <2>1, ProductGrows
    <3> QED
      BY <2>1, <2>2, <3>1
  <2> QED
    BY <2>1, <2>3, <2>4 DEF p
<1> QED
  BY <1>1, <1>2

Multiplying(f, b, N) == f = [i \in 0 .. N |-> IF i = 0 THEN 1 ELSE b * f[i - 1]]

LEMMA PowerIs ==
    ASSUME NEW b, NEW n \in Nat
    PROVE  \E f : f[0] = 1 /\ f[n] = Power(b, n) /\ \A i \in 1 .. n : f[i] = b * f[i - 1]
<1> DEFINE f == CHOOSE f : Multiplying(f, b, n)
<1>1. Power(b, n) = f[n]
  BY DEF Power, Multiplying
<1>2. Multiplying(f, b, n)
  <2>1. PICK g : Runs(g, "power", b, 1, n)
    BY LoopRuns
  <2>2. Multiplying(g, b, n)
    BY <2>1 DEF Runs, Turn, Multiplying
  <2> QED
    BY <2>2
<1> HIDE DEF f
<1>3. f[0] = 1 /\ \A i \in 1 .. n : f[i] = b * f[i - 1]
  BY <1>2 DEF Multiplying
<1> QED
  BY <1>1, <1>3

\* The next power is the base times the last.
IsPower(b, n) ==
    /\ Power(b, n) \in Nat \ {0}
    /\ Power(b, n + 1) = b * Power(b, n)

LEMMA Powers ==
    ASSUME NEW b \in Nat \ {0}
    PROVE  Power(b, 0) = 1 /\ \A n \in Nat : IsPower(b, n)
<1>1. Power(b, 0) = 1
  <2>1. PICK f : f[0] = 1 /\ f[0] = Power(b, 0)
    BY PowerIs
  <2> QED
    BY <2>1
<1>2. ASSUME NEW n \in Nat PROVE IsPower(b, n)
  <2>1. n + 1 \in Nat /\ n \in 0 .. n /\ n + 1 \in 1 .. n + 1 /\ (n + 1) - 1 = n
    OBVIOUS
  <2>2. PICK f : /\ f[0] = 1 /\ f[n] = Power(b, n)
                 /\ \A i \in 1 .. n : f[i] = b * f[i - 1]
    BY PowerIs
  <2> DEFINE m == n + 1
  <2>3. m \in Nat
    OBVIOUS
  <2> HIDE DEF m
  <2>4. PICK g : /\ g[0] = 1 /\ g[m] = Power(b, m)
                 /\ \A i \in 1 .. m : g[i] = b * g[i - 1]
    BY <2>3, PowerIs
  <2> DEFINE S == {i \in 0 .. n : f[i] = g[i] /\ f[i] \in Nat \ {0}}
  <2>5. 0 \in S
    BY <2>2, <2>4
  <2>6. ASSUME NEW i \in 1 .. n, i - 1 \in S PROVE i \in S
    <3>1. i \in 1 .. m
      BY DEF m
    <3>2. f[i] = b * f[i - 1] /\ g[i] = b * g[i - 1] /\ f[i - 1] = g[i - 1] /\ f[i - 1] \in Nat \ {0}
      BY <2>2, <2>4, <2>6, <3>1
    <3>3. b * f[i - 1] \in Nat \ {0}
      BY <3>2
    <3> QED
      BY <3>2, <3>3
  <2> HIDE DEF S
  <2>7. \A i \in 0 .. n : i \in S
    BY <2>5, <2>6, EveryTurn
  <2>8. f[n] = g[n] /\ f[n] \in Nat \ {0}
    BY <2>1, <2>7 DEF S
  <2>9. g[m] = b * g[n]
    BY <2>1, <2>4 DEF m
  <2> QED
    BY <2>2, <2>4, <2>8, <2>9 DEF IsPower, m
<1> QED
  BY <1>1, <1>2

\* A power of a sum is a product of powers.
IsPowerOfSum(b, m, n) == Power(b, m + n) = Power(b, m) * Power(b, n)

LEMMA PowerOfSum ==
    ASSUME NEW b \in Nat \ {0}, NEW m \in Nat, NEW n \in Nat
    PROVE  IsPowerOfSum(b, m, n)
<1> DEFINE S == {i \in Nat : IsPowerOfSum(b, m, i)}
<1>1. 0 \in S
  <2>1. Power(b, 0) = 1 /\ Power(b, m) \in Nat /\ m + 0 = m
    BY Powers DEF IsPower
  <2>2. Power(b, m + 0) = Power(b, m) /\ Power(b, m) * 1 = Power(b, m)
    BY <2>1
  <2> QED
    BY <2>1, <2>2 DEF IsPowerOfSum
<1>2. ASSUME NEW i \in 1 .. n, i - 1 \in S PROVE i \in S
  <2> DEFINE j == i - 1
             k == m + (i - 1)
  <2>1. j \in Nat /\ k \in Nat /\ i = j + 1 /\ m + i = k + 1
    OBVIOUS
  <2>2. Power(b, k) = Power(b, m) * Power(b, j)
    BY <1>2 DEF IsPowerOfSum
  <2> HIDE DEF j, k
  <2>3. /\ Power(b, k + 1) = b * Power(b, k) /\ Power(b, j + 1) = b * Power(b, j)
        /\ Power(b, m) \in Nat /\ Power(b, j) \in Nat
    BY <2>1, Powers DEF IsPower
  <2>4. b * (Power(b, m) * Power(b, j)) = Power(b, m) * (b * Power(b, j))
    BY <2>3
  <2>5. Power(b, k + 1) = Power(b, m) * Power(b, j + 1)
    BY <2>2, <2>3, <2>4
  <2>6. Power(b, m + i) = Power(b, m) * Power(b, i)
    BY <2>1, <2>5
  <2> QED
    BY <2>6 DEF IsPowerOfSum
<1> HIDE DEF S
<1>3. \A i \in 0 .. n : i \in S
  BY <1>1, <1>2, EveryTurn
<1> QED
  BY <1>3 DEF S

-----------------------------------------------------------------------------
(* The extranonce2. *)

Shifting(f, counter, N) == f = [i \in 0 .. N |-> IF i = 0 THEN counter ELSE f[i - 1] \div 16]
Spelling(f, text, N) == f = [i \in 0 .. N |-> IF i = 0 THEN 0 ELSE 16 * f[i - 1] + text[i]]

LEMMA LoopsOfTexts ==
    ASSUME NEW N \in Nat, NEW counter, NEW text
    PROVE  (\E f : Shifting(f, counter, N)) /\ (\E f : Spelling(f, text, N))
<1>1. \E f : Shifting(f, counter, N)
  <2>1. PICK f : Runs(f, "shift", text, counter, N)
    BY LoopRuns
  <2>2. Shifting(f, counter, N)
    BY <2>1 DEF Runs, Turn, Shifting
  <2> QED
    BY <2>2
<1>2. \E f : Spelling(f, text, N)
  <2>1. PICK f : Runs(f, "spell", text, 0, N)
    BY LoopRuns
  <2>2. Spelling(f, text, N)
    BY <2>1 DEF Runs, Turn, Spelling
  <2> QED
    BY <2>2
<1> QED
  BY <1>1, <1>2

\* The digits of a counter spell its low bytes.
IsExtranonce2(text, counter, size) ==
    /\ IsText(text) /\ IsBytes(text)
    /\ Len(text) = 2 * size
    /\ Spelled(text) = counter % Power(256, size)

LEMMA Extranonce2Is ==
    ASSUME NEW counter \in Nat, NEW size \in Nat
    PROVE  IsExtranonce2(extranonce2_hex(counter, size), counter, size)
<1> DEFINE N == 2*size
           S == CHOOSE f : Shifting(f, counter, N)
           t == [k \in 1 .. N |-> S[N - k] % 16]
           V == CHOOSE f : Spelling(f, t, Len(t))
           P == [i \in 0 .. size |-> Power(256, i)]
<1>1. N \in Nat
  OBVIOUS
<1>2. extranonce2_hex(counter, size) = t
  BY DEF extranonce2_hex, Shifting
<1>3. Spelled(t) = V[Len(t)]
  <2> HIDE DEF t
  <2> QED
    BY DEF Spelled, Spelling
<1>4. Power(256, size) = P[size]
  OBVIOUS
<1> HIDE DEF N
<1>5. /\ S[0] = counter
      /\ \A i \in 1 .. N : S[i] = S[i - 1] \div 16
  <2>1. Shifting(S, counter, N)
    <3>1. \E f : Shifting(f, counter, N)
      BY <1>1, LoopsOfTexts
    <3> QED
      BY <3>1
  <2> HIDE DEF S
  <2> QED
    BY <1>1, <2>1 DEF Shifting
<1> HIDE DEF S
<1>6. \A i \in 0 .. N : S[i] \in Nat
  <2> DEFINE G == {i \in 0 .. N : S[i] \in Nat}
  <2>1. 0 \in G
    BY <1>1, <1>5
  <2>2. ASSUME NEW i \in 1 .. N, i - 1 \in G PROVE i \in G
    <3>1. S[i - 1] \in Nat /\ S[i] = S[i - 1] \div 16 /\ i \in 0 .. N
      BY <1>5, <2>2
    <3>2. S[i] \in Nat
      BY <3>1
    <3> QED
      BY <3>1, <3>2
  <2> HIDE DEF G
  <2>3. \A i \in 0 .. N : i \in G
    BY <1>1, <2>1, <2>2, EveryTurn
  <2> QED
    BY <2>3 DEF G
<1>7. \A k \in 1 .. N : t[k] = S[N - k] % 16 /\ t[k] \in HexDigits
  <2> SUFFICES ASSUME NEW k \in 1 .. N PROVE t[k] = S[N - k] % 16 /\ t[k] \in HexDigits
    OBVIOUS
  <2>1. N - k \in 0 .. N
    BY <1>1
  <2>2. S[N - k] \in Nat
    BY <1>6, <2>1
  <2>3. S[N - k] % 16 \in 0..15
    BY <2>2
  <2> QED
    BY <2>3 DEF HexDigits
<1>8. t \in Seq(HexDigits) /\ Len(t) = N
  <2>1. IsList(t, N)
    BY <1>1 DEF IsList
  <2> HIDE DEF t
  <2>2. t = [i \in 1 .. N |-> t[i]] /\ \A i \in 1 .. N : t[i] \in HexDigits
    BY <1>7, <2>1 DEF IsList
  <2>3. [i \in 1 .. N |-> t[i]] \in Seq(HexDigits)
    BY <1>1, <2>2
  <2> QED
    BY <2>1, <2>2, <2>3, ListIsSeq
<1> HIDE DEF t
<1>9. /\ V[0] = 0
      /\ \A i \in 1 .. N : V[i] = 16 * V[i - 1] + t[i]
  <2>1. Spelling(V, t, N)
    <3>1. \E f : Spelling(f, t, N)
      BY <1>1, LoopsOfTexts
    <3> QED
      BY <1>8, <3>1
  <2> HIDE DEF V
  <2> QED
    BY <1>1, <2>1 DEF Spelling
<1>10. /\ P[0] = 1
       /\ \A i \in 1 .. size : P[i] = 256 * P[i - 1]
  <2> DEFINE b == 256
  <2>1. b \in Nat \ {0}
    OBVIOUS
  <2> HIDE DEF b
  <2>2. Power(b, 0) = 1 /\ \A i \in Nat : IsPower(b, i)
    BY <2>1, Powers
  <2>3. ASSUME NEW i \in 1 .. size PROVE P[i] = b * P[i - 1]
    <3> DEFINE j == i - 1
    <3>1. j \in Nat /\ j \in 0 .. size /\ i \in 0 .. size /\ i = j + 1
      OBVIOUS
    <3> HIDE DEF j
    <3>2. Power(b, j + 1) = b * Power(b, j)
      BY <2>2, <3>1 DEF IsPower
    <3>3. P[i] = Power(b, i) /\ P[j] = Power(b, j)
      BY <3>1 DEF b
    <3> HIDE DEF P
    <3> QED
      BY <3>1, <3>2, <3>3 DEF j
  <2>4. P[0] = Power(b, 0)
    BY DEF b
  <2> HIDE DEF P
  <2> QED
    BY <2>2, <2>3, <2>4 DEF b
<1> HIDE DEF V, P
<1> DEFINE last == S[N]
           Good(i) == /\ V[2*i] \in Nat /\ P[i] \in Nat /\ V[2*i] < P[i]
                      /\ V[2*i] + P[i] * last = S[N - 2*i]
<1>11. last \in Nat
  BY <1>1, <1>6
<1> HIDE DEF last
<1>12. Good(0)
  <2>1. 2*0 = 0 /\ N - 0 = N /\ 1 * last = last /\ 0 + last = last
    BY <1>1, <1>11
  <2> QED
    BY <1>9, <1>10, <2>1 DEF last
<1>13. ASSUME NEW i \in 1 .. size, Good(i - 1) PROVE Good(i)
  <2> DEFINE a == 2*(i - 1)
             b == 2*(i - 1) + 1
             c == 2*i
  <2>1. /\ a \in Nat /\ b \in 1 .. N /\ c \in 1 .. N /\ b - 1 = a /\ c - 1 = b
        /\ N - a \in 0 .. N /\ N - b \in 0 .. N /\ N - c \in 0 .. N
        /\ N - a \in 1 .. N /\ N - b \in 1 .. N /\ (N - a) - 1 = N - b /\ (N - b) - 1 = N - c
    BY DEF N
  <2>2. /\ V[a] \in Nat /\ P[i - 1] \in Nat /\ V[a] < P[i - 1]
        /\ V[a] + P[i - 1] * last = S[N - a]
    BY <1>13
  <2> HIDE DEF a, b, c
  <2>3. V[b] = 16 * V[a] + t[b] /\ V[c] = 16 * V[b] + t[c]
    BY <1>9, <2>1
  <2>4. /\ t[b] = S[N - b] % 16 /\ t[c] = S[N - c] % 16
        /\ t[b] \in 0..15 /\ t[c] \in 0..15
    BY <1>7, <2>1 DEF HexDigits
  <2>5. S[N - a] = S[N - b] \div 16 /\ S[N - b] = S[N - c] \div 16
    BY <1>5, <2>1
  <2>6. S[N - a] \in Nat /\ S[N - b] \in Nat /\ S[N - c] \in Nat
    BY <1>6, <2>1
  <2>7. P[i] = 256 * P[i - 1]
    BY <1>10
  <2> DEFINE q == P[i - 1] * last
             x == S[N - a]
             y == S[N - b]
             z == S[N - c]
  <2>8. q \in Nat /\ P[i] * last = 256 * q
    BY <1>11, <2>2, <2>7
  <2>9. V[a] + q = x
    BY <2>2
  <2> HIDE DEF q, x, y, z
  <2>10. y = 16 * x + t[b] /\ z = 16 * y + t[c]
    <3>1. x = y \div 16 /\ y = z \div 16 /\ x \in Nat /\ y \in Nat /\ z \in Nat
      BY <2>5, <2>6 DEF x, y, z
    <3>2. t[b] = y % 16 /\ t[c] = z % 16
      BY <2>4 DEF y, z
    <3>3. y = 16 * (y \div 16) + (y % 16) /\ z = 16 * (z \div 16) + (z % 16)
      BY <3>1
    <3> QED
      BY <3>1, <3>2, <3>3
  <2>11. V[b] \in Nat /\ V[c] \in Nat /\ P[i] \in Nat
    BY <2>2, <2>3, <2>4, <2>7
  <2>12. V[c] < P[i]
    BY <2>2, <2>3, <2>4, <2>7, <2>11
  <2>13. V[c] + 256 * q = z
    BY <2>2, <2>3, <2>4, <2>8, <2>9, <2>10, <2>11
  <2> QED
    BY <2>8, <2>11, <2>12, <2>13 DEF c, z
<1>14. Good(size)
  <2> DEFINE G == {i \in 0 .. size : Good(i)}
  <2>1. 0 \in G
    BY <1>12
  <2>2. ASSUME NEW i \in 1 .. size, i - 1 \in G PROVE i \in G
    <3>1. Good(i - 1) /\ i \in 0 .. size
      BY <2>2
    <3> HIDE DEF Good
    <3> QED
      BY <1>13, <3>1
  <2> HIDE DEF G
  <2>3. \A i \in 0 .. size : i \in G
    BY <2>1, <2>2, EveryTurn
  <2> QED
    BY <2>3 DEF G
<1>15. V[N] \in Nat /\ P[size] \in Nat /\ V[N] < P[size] /\ V[N] + P[size] * last = counter
  <2>1. 2*size = N /\ N - N = 0
    BY <1>1 DEF N
  <2> QED
    BY <1>5, <1>14, <2>1
<1> HIDE DEF Good
<1>16. V[N] = counter % P[size]
  <2> DEFINE v == V[N]
             p == P[size]
  <2> HIDE DEF v, p
  <2>1. v \in 0 .. p - 1 /\ p \in Nat \ {0} /\ counter = last * p + v
    BY <1>11, <1>15 DEF v, p
  <2>2. counter % p = v
    BY <1>11, <2>1
  <2> QED
    BY <2>2 DEF v, p
<1>17. IsText(t) /\ IsHex(t)
  <2>1. HexDigits \subseteq HexDigits \cup {NotHex}
    OBVIOUS
  <2> DEFINE W == HexDigits \cup {NotHex}
  <2> HIDE DEF W
  <2>2. t \in Seq(W)
    BY <1>8, <2>1 DEF W
  <2>3. IsText(t)
    BY <2>2, Zenon DEF IsText, W
  <2> QED
    BY <1>7, <1>8, <2>3 DEF IsHex
<1>18. Len(t) % 2 = 0 /\ Len(t) = 2 * size
  BY <1>8 DEF N
<1> QED
  BY <1>2, <1>3, <1>4, <1>8, <1>16, <1>17, <1>18 DEF IsExtranonce2, IsBytes

-----------------------------------------------------------------------------
(* The merkle tree. *)

IsLevel(s) == Len(s) \in Nat \ {0} /\ IsList(s, Len(s))
IsNext(t, s) ==
    /\ IsLevel(t)
    /\ Len(t) = (Len(s) + 1) \div 2
    /\ \A i \in 1 .. Len(t) :
           t[i] = PairHash(s[2*i - 1], IF 2*i <= Len(s) THEN s[2*i] ELSE s[2*i - 1])

LEMMA NextLevelIs ==
    ASSUME NEW s, IsLevel(s)
    PROVE  IsNext(NextLevel(s), s)
<1> DEFINE n == (Len(s) + 1) \div 2
           t == [i \in 1 .. n |->
                    PairHash(s[2*i - 1], IF 2*i <= Len(s) THEN s[2*i] ELSE s[2*i - 1])]
<1>1. Len(s) \in Nat \ {0} /\ n \in Nat \ {0}
  BY DEF IsLevel
<1>2. NextLevel(s) = t
  BY DEF NextLevel
<1>3. IsList(t, n)
  <2> HIDE DEF n
  <2> QED
    BY <1>1 DEF IsList
<1>4. Len(t) = n
  <2> HIDE DEF t, n
  <2> QED
    BY <1>3, ListIsSeq
<1>5. \A i \in 1 .. n : t[i] = PairHash(s[2*i - 1], IF 2*i <= Len(s) THEN s[2*i] ELSE s[2*i - 1])
  <2> HIDE DEF n
  <2> QED
    OBVIOUS
<1>6. IsLevel(t)
  <2> HIDE DEF t, n
  <2> QED
    BY <1>1, <1>3, <1>4 DEF IsLevel
<1> HIDE DEF t
<1> QED
  BY <1>2, <1>4, <1>5, <1>6 DEF IsNext

\* The levels of a tree of n leaves.
IsTree(A, leaves, n) ==
    /\ A[0] = leaves
    /\ \A d \in 0 .. n : IsLevel(A[d])
    /\ \A d \in 1 .. n : IsNext(A[d], A[d - 1])
Leveling(f, leaves) ==
    f = [d \in 0 .. Len(leaves) |-> IF d = 0 THEN leaves ELSE NextLevel(f[d - 1])]

LEMMA LevelsAre ==
    ASSUME NEW leaves, IsLevel(leaves)
    PROVE  IsTree(Levels(leaves), leaves, Len(leaves))
<1> DEFINE n == Len(leaves)
           A == CHOOSE f : Leveling(f, leaves)
<1>1. n \in Nat \ {0}
  BY DEF IsLevel
<1>2. Levels(leaves) = A
  BY DEF Levels, Leveling
<1>3. Leveling(A, leaves)
  <2>1. PICK f : Runs(f, "level", leaves, leaves, n)
    BY <1>1, LoopRuns
  <2>2. Leveling(f, leaves)
    BY <2>1 DEF Runs, Turn, Leveling
  <2> QED
    BY <2>2
<1> HIDE DEF A, n
<1>4. A = [d \in 0 .. n |-> IF d = 0 THEN leaves ELSE NextLevel(A[d - 1])]
  BY <1>3 DEF Leveling, n
<1>5. A[0] = leaves /\ \A d \in 1 .. n : A[d] = NextLevel(A[d - 1])
  BY <1>1, <1>4
<1>6. \A d \in 0 .. n : IsLevel(A[d])
  <2> DEFINE G == {d \in 0 .. n : IsLevel(A[d])}
  <2>1. 0 \in G
    BY <1>1, <1>5
  <2>2. ASSUME NEW d \in 1 .. n, d - 1 \in G PROVE d \in G
    <3>1. IsLevel(A[d - 1]) /\ A[d] = NextLevel(A[d - 1]) /\ d \in 0 .. n
      BY <1>5, <2>2
    <3>2. IsNext(NextLevel(A[d - 1]), A[d - 1])
      BY <3>1, NextLevelIs
    <3>3. IsLevel(A[d])
      BY <3>1, <3>2 DEF IsNext
    <3> QED
      BY <3>1, <3>3
  <2> HIDE DEF G
  <2>3. n \in Nat
    BY <1>1
  <2>4. \A d \in 0 .. n : d \in G
    BY <2>1, <2>2, <2>3, EveryTurn
  <2> QED
    BY <2>4 DEF G
<1>7. ASSUME NEW d \in 1 .. n PROVE IsNext(A[d], A[d - 1])
  <2>1. d - 1 \in 0 .. n
    BY <1>1
  <2>2. IsNext(NextLevel(A[d - 1]), A[d - 1])
    BY <1>6, <2>1, NextLevelIs
  <2> QED
    BY <1>5, <2>2
<1> QED
  BY <1>2, <1>5, <1>6, <1>7 DEF IsTree, n

\* The first level that is a single hash.
IsDepth(d, A, n) == d \in 0 .. n /\ Len(A[d]) = 1 /\ \A c \in 0 .. d - 1 : Len(A[c]) > 1

LEMMA DepthIs ==
    ASSUME NEW leaves, IsLevel(leaves)
    PROVE  IsDepth(Depth(leaves), Levels(leaves), Len(leaves))
<1> DEFINE n == Len(leaves)
           A == Levels(leaves)
<1>1. n \in Nat \ {0}
  BY DEF IsLevel
<1>2. IsTree(A, leaves, n)
  BY LevelsAre
<1>3. Depth(leaves) = CHOOSE d \in 0 .. n : Len(A[d]) = 1 /\ \A c \in 0 .. d - 1 : Len(A[c]) > 1
  BY DEF Depth
<1> HIDE DEF A
<1>4. /\ A[0] = leaves
      /\ \A d \in 0 .. n : Len(A[d]) \in Nat \ {0}
      /\ \A d \in 1 .. n : Len(A[d]) = (Len(A[d - 1]) + 1) \div 2
  BY <1>2 DEF IsTree, IsLevel, IsNext
<1>5. \A d \in 0 .. n : Len(A[d]) = 1 \/ Len(A[d]) <= n - d
  <2> DEFINE G == {d \in 0 .. n : Len(A[d]) = 1 \/ Len(A[d]) <= n - d}
  <2>1. 0 \in G
    BY <1>1, <1>4
  <2> HIDE DEF n
  <2>2. ASSUME NEW d \in 1 .. n, d - 1 \in G PROVE d \in G
    <3> DEFINE x == Len(A[d - 1])
               y == Len(A[d])
    <3>1. d - 1 \in 0 .. n /\ d \in 0 .. n
      BY <1>1
    <3>2. x \in Nat \ {0} /\ y = (x + 1) \div 2 /\ (x = 1 \/ x <= n - (d - 1))
      BY <1>4, <2>2, <3>1
    <3> HIDE DEF x, y
    <3>3. y = 1 \/ y <= n - d
      BY <1>1, <3>1, <3>2
    <3> QED
      BY <3>1, <3>3 DEF y
  <2> HIDE DEF G
  <2>3. n \in Nat
    BY <1>1
  <2>4. \A d \in 0 .. n : d \in G
    BY <2>1, <2>2, <2>3, EveryTurn
  <2> QED
    BY <2>4 DEF G
<1> HIDE DEF n
<1>6. Len(A[n]) = 1
  <2>1. n \in 0 .. n /\ n - n = 0
    BY <1>1
  <2>2. Len(A[n]) \in Nat \ {0} /\ (Len(A[n]) = 1 \/ Len(A[n]) <= n - n)
    BY <1>4, <1>5, <2>1
  <2> QED
    BY <2>1, <2>2
<1>7. \E d \in 0 .. n : Len(A[d]) = 1 /\ \A c \in 0 .. d - 1 : Len(A[c]) > 1
  <2> DEFINE Ones == {d \in 0 .. n : Len(A[d]) = 1}
  <2>1. PICK d \in Ones : \A c \in Ones : d <= c
    <3>1. Ones \subseteq Nat /\ n \in Ones
      BY <1>1, <1>6
    <3> HIDE DEF Ones
    <3> QED
      BY <3>1, LeastIndex
  <2>2. ASSUME NEW c \in 0 .. d - 1 PROVE Len(A[c]) > 1
    <3>1. c \in 0 .. n /\ ~ (d <= c)
      BY <1>1
    <3>2. c \notin Ones
      BY <2>1, <3>1
    <3> DEFINE x == Len(A[c])
    <3>3. x \in Nat \ {0} /\ x # 1
      BY <1>4, <3>1, <3>2
    <3> HIDE DEF x
    <3>4. x > 1
      BY <3>3
    <3> QED
      BY <3>4 DEF x
  <2> QED
    BY <2>2
<1> DEFINE D == CHOOSE d \in 0 .. n : Len(A[d]) = 1 /\ \A c \in 0 .. d - 1 : Len(A[c]) > 1
<1>8. D \in 0 .. n /\ Len(A[D]) = 1 /\ \A c \in 0 .. D - 1 : Len(A[c]) > 1
  BY <1>7
<1>9. Depth(leaves) = D
  BY <1>3 DEF n
<1> HIDE DEF D
<1>10. IsDepth(Depth(leaves), A, n)
  BY <1>8, <1>9 DEF IsDepth
<1> QED
  BY <1>10 DEF A, n

\* Two levels that are told apart by their first hash alone.
Alike(s, t) ==
    /\ IsLevel(s) /\ IsLevel(t) /\ Len(s) = Len(t)
    /\ \A i \in 2 .. Len(s) : s[i] = t[i]

LEMMA AlikeNext ==
    ASSUME NEW s, NEW t, Alike(s, t), NEW u, IsNext(u, s), NEW v, IsNext(v, t)
    PROVE  Alike(u, v)
<1> DEFINE n == Len(s)
           m == Len(u)
<1>1. /\ IsLevel(u) /\ IsLevel(v) /\ Len(t) = n /\ Len(v) = m /\ m = (n + 1) \div 2
      /\ n \in Nat \ {0} /\ m \in Nat \ {0}
      /\ \A i \in 2 .. n : s[i] = t[i]
      /\ \A i \in 1 .. m : u[i] = PairHash(s[2*i - 1], IF 2*i <= n THEN s[2*i] ELSE s[2*i - 1])
      /\ \A i \in 1 .. m : v[i] = PairHash(t[2*i - 1], IF 2*i <= n THEN t[2*i] ELSE t[2*i - 1])
  BY DEF Alike, IsNext, IsLevel
<1> HIDE DEF n, m
<1>2. ASSUME NEW i \in 2 .. m PROVE u[i] = v[i]
  <2> DEFINE a == 2*i - 1
             b == 2*i
  <2>1. i \in 1 .. m /\ a \in 2 .. n /\ (b <= n => b \in 2 .. n)
    BY <1>1
  <2>2. /\ u[i] = PairHash(s[a], IF b <= n THEN s[b] ELSE s[a])
        /\ v[i] = PairHash(t[a], IF b <= n THEN t[b] ELSE t[a])
    BY <1>1, <2>1
  <2> HIDE DEF a, b
  <2>3. s[a] = t[a] /\ (b <= n => s[b] = t[b])
    BY <1>1, <2>1
  <2> QED
    BY <2>2, <2>3
<1> QED
  BY <1>1, <1>2 DEF Alike, m

\* Trees of the same transactions under two coinbases: as deep, and alike on
\* every level.
LEMMA TreesAlike ==
    ASSUME NEW s, NEW t, Alike(s, t)
    PROVE  /\ Depth(s) = Depth(t)
           /\ \A d \in 0 .. Len(s) : Alike(Levels(s)[d], Levels(t)[d])
<1> DEFINE n == Len(s)
           A == Levels(s)
           B == Levels(t)
           D == Depth(s)
           E == Depth(t)
<1>1. IsLevel(s) /\ IsLevel(t) /\ Len(t) = n /\ n \in Nat
  BY DEF Alike, IsLevel
<1>2. IsTree(A, s, n) /\ IsTree(B, t, n)
  <2>1. IsTree(Levels(t), t, Len(t))
    BY <1>1, LevelsAre
  <2> QED
    BY <1>1, <2>1, LevelsAre
<1>3. IsDepth(D, A, n) /\ IsDepth(E, B, n)
  <2>1. IsDepth(Depth(t), Levels(t), Len(t))
    BY <1>1, DepthIs
  <2> QED
    BY <1>1, <2>1, DepthIs
<1> HIDE DEF A, B, D, E, n
<1>4. \A d \in 0 .. n : Alike(A[d], B[d])
  <2> DEFINE G == {d \in 0 .. n : Alike(A[d], B[d])}
  <2>1. 0 \in G
    BY <1>1, <1>2 DEF IsTree
  <2>2. ASSUME NEW d \in 1 .. n, d - 1 \in G PROVE d \in G
    <3>1. IsNext(A[d], A[d - 1]) /\ IsNext(B[d], B[d - 1]) /\ d \in 0 .. n
      BY <1>2 DEF IsTree
    <3>2. Alike(A[d - 1], B[d - 1])
      BY <2>2
    <3>3. Alike(A[d], B[d])
      BY <3>1, <3>2, AlikeNext
    <3> QED
      BY <3>1, <3>3
  <2> HIDE DEF G
  <2>3. \A d \in 0 .. n : d \in G
    BY <1>1, <2>1, <2>2, EveryTurn
  <2> QED
    BY <2>3 DEF G
<1>5. D = E
  <2>1. \A d \in 0 .. n : Len(A[d]) = Len(B[d])
    BY <1>4 DEF Alike
  <2>2. /\ D \in 0 .. n /\ Len(A[D]) = 1 /\ \A c \in 0 .. D - 1 : Len(A[c]) > 1
        /\ E \in 0 .. n /\ Len(B[E]) = 1 /\ \A c \in 0 .. E - 1 : Len(B[c]) > 1
    BY <1>3 DEF IsDepth
  <2>3. ~ (D < E)
    <3>1. SUFFICES ASSUME D < E PROVE FALSE
      OBVIOUS
    <3>2. D \in 0 .. E - 1 /\ Len(B[D]) = 1
      BY <1>1, <2>1, <2>2, <3>1
    <3>3. 1 > 1
      BY <2>2, <3>2
    <3> QED
      BY <3>3
  <2>4. ~ (E < D)
    <3>1. SUFFICES ASSUME E < D PROVE FALSE
      OBVIOUS
    <3>2. E \in 0 .. D - 1 /\ Len(A[E]) = 1
      BY <1>1, <2>1, <2>2, <3>1
    <3>3. 1 > 1
      BY <2>2, <3>2
    <3> QED
      BY <3>3
  <2> QED
    BY <1>1, <2>2, <2>3, <2>4
<1> QED
  BY <1>4, <1>5 DEF A, B, D, E, n

\* Folding the pool's branch into any coinbase gives the root of the tree with
\* that coinbase in it.
Folding(f, leaf, branch) ==
    f = [i \in 0 .. Len(branch) |-> IF i = 0 THEN leaf ELSE Folded(f[i - 1], branch[i])]

LEMMA RootIsTheTrees ==
    ASSUME NEW leaf, NEW txs, NEW m, IsList(txs, m)
    PROVE  build_merkle_root(leaf, PoolBranch(txs)) = TreeRoot(<<leaf>> \o txs)
<1> DEFINE tx0 == <<"tx", 0>>
           s == <<leaf>> \o txs
           t == <<tx0>> \o txs
           n == Len(s)
           A == Levels(s)
           B == Levels(t)
           D == Depth(s)
           branch == PoolBranch(txs)
           C == CHOOSE f : Folding(f, leaf, branch)
<1>1. build_merkle_root(leaf, branch) = C[Len(branch)] /\ TreeRoot(s) = A[D][1]
  BY DEF build_merkle_root, Folding, TreeRoot
<1>2. branch = [d \in 1 .. Depth(t) |-> B[d - 1][2]]
  BY DEF PoolBranch
<1>3. Alike(s, t) /\ s[1] = leaf
  <2>1. \A x : IsList(<<x>>, 1) /\ <<x>>[1] = x
    <3> SUFFICES ASSUME NEW x PROVE IsList(<<x>>, 1) /\ <<x>>[1] = x
      OBVIOUS
    <3>1. <<x>> = [i \in 1..1 |-> <<x>>[i]]
      OBVIOUS
    <3> QED
      BY <3>1 DEF IsList
  <2>2. Joins(s, <<leaf>>, 1, txs, m) /\ Joins(t, <<tx0>>, 1, txs, m)
    BY <2>1, Joined
  <2> HIDE DEF s, t
  <2>3. /\ m \in Nat /\ IsList(s, 1 + m) /\ Len(s) = 1 + m /\ IsList(t, 1 + m) /\ Len(t) = 1 + m
        /\ s[1] = <<leaf>>[1]
        /\ \A i \in 1 .. m : s[1 + i] = txs[i] /\ t[1 + i] = txs[i]
    BY <2>2 DEF Joins
  <2>4. ASSUME NEW i \in 2 .. Len(s) PROVE s[i] = t[i]
    <3> DEFINE j == i - 1
    <3>1. j \in 1 .. m /\ i = 1 + j
      BY <2>3
    <3> HIDE DEF j
    <3> QED
      BY <2>3, <3>1
  <2>5. IsLevel(s) /\ IsLevel(t)
    BY <2>3 DEF IsLevel
  <2> QED
    BY <2>1, <2>3, <2>4, <2>5 DEF Alike
<1> HIDE DEF s, t, branch
<1>4. Depth(t) = D /\ \A d \in 0 .. n : Alike(A[d], B[d])
  BY <1>3, TreesAlike
<1>5. IsTree(A, s, n) /\ IsDepth(D, A, n) /\ n \in Nat
  BY <1>3, LevelsAre, DepthIs DEF Alike, IsLevel
<1> HIDE DEF A, B, D, n
<1>6. D \in 0 .. n /\ \A c \in 0 .. D - 1 : Len(A[c]) > 1
  BY <1>5 DEF IsDepth
<1>7. Len(branch) = D /\ \A d \in 1 .. D : branch[d] = B[d - 1][2]
  <2>1. branch = [d \in 1 .. D |-> B[d - 1][2]]
    BY <1>2, <1>4
  <2>2. D \in Nat
    BY <1>5, <1>6
  <2>3. \A d \in 1 .. D : branch[d] = B[d - 1][2]
    BY <2>1
  <2>4. IsList(branch, D)
    BY <2>1, <2>2, <2>3 DEF IsList
  <2> QED
    BY <2>3, <2>4, ListIsSeq
<1>8. C[0] = leaf /\ \A i \in 1 .. D : C[i] = Folded(C[i - 1], branch[i])
  <2>1. Folding(C, leaf, branch)
    <3>1. PICK f : Runs(f, "fold", branch, leaf, D)
      BY <1>5, <1>6, LoopRuns
    <3>2. Folding(f, leaf, branch)
      BY <1>7, <3>1 DEF Runs, Turn, Folding
    <3> QED
      BY <3>2
  <2> HIDE DEF C
  <2>2. C = [i \in 0 .. D |-> IF i = 0 THEN leaf ELSE Folded(C[i - 1], branch[i])]
    BY <1>7, <2>1 DEF Folding
  <2> QED
    BY <1>5, <1>6, <2>2
<1> HIDE DEF C
<1>9. \A i \in 0 .. D : C[i] = A[i][1]
  <2> DEFINE G == {i \in 0 .. D : C[i] = A[i][1]}
  <2>1. 0 \in G
    BY <1>3, <1>5, <1>6, <1>8 DEF IsTree
  <2>2. ASSUME NEW i \in 1 .. D, i - 1 \in G PROVE i \in G
    <3> DEFINE x == A[i - 1]
               y == B[i - 1]
    <3>1. i \in 1 .. n /\ i - 1 \in 0 .. n /\ i - 1 \in 0 .. D - 1 /\ i \in 0 .. D
      BY <1>5, <1>6
    <3>2. Alike(x, y) /\ IsNext(A[i], x) /\ Len(x) > 1 /\ C[i - 1] = x[1]
      BY <1>4, <1>5, <1>6, <2>2, <3>1 DEF IsTree
    <3>3. C[i] = Folded(x[1], y[2])
      BY <1>7, <1>8, <3>2
    <3> HIDE DEF x, y
    <3>4. Len(x) \in Nat /\ 2 \in 2 .. Len(x)
      BY <3>2 DEF Alike, IsLevel
    <3>5. x[2] = y[2]
      BY <3>2, <3>4 DEF Alike
    <3>6. A[i][1] = PairHash(x[1], x[2])
      <4>1. 1 \in 1 .. Len(A[i]) /\ 2 * 1 = 2 /\ 2 * 1 - 1 = 1 /\ 2 <= Len(x)
        BY <3>2, <3>4 DEF IsNext, IsLevel
      <4>2. A[i][1] = PairHash(x[2 * 1 - 1], IF 2 * 1 <= Len(x) THEN x[2 * 1] ELSE x[2 * 1 - 1])
        BY <3>2, <4>1 DEF IsNext
      <4> QED
        BY <4>1, <4>2
    <3> QED
      BY <3>1, <3>3, <3>5, <3>6 DEF Folded
  <2> HIDE DEF G
  <2>3. D \in Nat
    BY <1>5, <1>6
  <2>4. \A i \in 0 .. D : i \in G
    BY <2>1, <2>2, <2>3, EveryTurn
  <2> QED
    BY <2>4 DEF G
<1>10. C[D] = A[D][1]
  <2>1. D \in 0 .. D
    BY <1>5, <1>6
  <2> QED
    BY <1>9, <2>1
<1>11. build_merkle_root(leaf, branch) = TreeRoot(s)
  BY <1>1, <1>7, <1>10
<1> QED
  BY <1>11 DEF branch, s

-----------------------------------------------------------------------------
(* The header, read as Bitcoin reads it. *)

\* Where the pieces of a header are.
IsHeader(h, version, prevhash, root, ntime, nbits) ==
    /\ IsList(h, 80)
    /\ \A i \in 1..4 : h[i] = HexBytes(version, 4)[5 - i]
    /\ \A i \in 1..32 : h[4 + i] = WordSwapped(HexBytes(prevhash, 32))[i]
    /\ \A i \in 1..32 : h[36 + i] = HashBytes(root)[i]
    /\ \A i \in 1..4 : h[68 + i] = HexBytes(ntime, 4)[5 - i]
    /\ \A i \in 1..4 : h[72 + i] = HexBytes(nbits, 4)[5 - i]

LEMMA HeaderIs ==
    ASSUME NEW version, NEW prevhash, NEW root, NEW ntime, NEW nbits
    PROVE  IsHeader(assemble_header(version, prevhash, root, ntime, nbits, 0).bytes,
                    version, prevhash, root, ntime, nbits)
<1> DEFINE v == Reversed(HexBytes(version, 4))
           p == WordSwapped(HexBytes(prevhash, 32))
           r == HashBytes(root)
           t == Reversed(HexBytes(ntime, 4))
           b == Reversed(HexBytes(nbits, 4))
           x == NonceBytes(0)
           h == v \o p \o r \o t \o b \o x
<1>1. \A text : \A n \in Nat : Len(HexBytes(text, n)) = n
  BY DEF HexBytes
<1>2. ASSUME NEW text
      PROVE  /\ IsList(Reversed(HexBytes(text, 4)), 4)
             /\ \A i \in 1..4 : Reversed(HexBytes(text, 4))[i] = HexBytes(text, 4)[5 - i]
  <2> DEFINE bytes == HexBytes(text, 4)
  <2>1. Len(bytes) = 4
    BY <1>1
  <2> HIDE DEF bytes
  <2>2. Reversed(bytes) = [i \in 1..4 |-> bytes[5 - i]]
    <3>1. \A i \in 1..4 : 4 + 1 - i = 5 - i
      OBVIOUS
    <3>2. Reversed(bytes) = [i \in 1..4 |-> bytes[4 + 1 - i]]
      BY <2>1 DEF Reversed
    <3> QED
      BY <3>1, <3>2
  <2> QED
    BY <2>2 DEF IsList, bytes
<1>3. /\ IsList(v, 4) /\ IsList(t, 4) /\ IsList(b, 4)
      /\ \A i \in 1..4 : v[i] = HexBytes(version, 4)[5 - i]
      /\ \A i \in 1..4 : t[i] = HexBytes(ntime, 4)[5 - i]
      /\ \A i \in 1..4 : b[i] = HexBytes(nbits, 4)[5 - i]
  BY <1>2
<1>4. IsList(p, 32)
  <2>1. Len(HexBytes(prevhash, 32)) = 32
    BY <1>1
  <2> QED
    BY <2>1 DEF WordSwapped, IsList
<1>5. IsList(r, 32) /\ IsList(x, 4)
  BY DEF HashBytes, NonceBytes, IsList
<1>6. assemble_header(version, prevhash, root, ntime, nbits, 0).bytes = h
  BY DEF assemble_header, NonceBytes
<1> DEFINE vp == v \o p
           vpr == vp \o r
           vprt == vpr \o t
           vprtb == vprt \o b
<1>7. h = vprtb \o x
  OBVIOUS
<1> HIDE DEF v, p, r, t, b, x, h
<1>8. Joins(vp, v, 4, p, 32)
  BY <1>3, <1>4, Joined
<1> HIDE DEF vp
<1>9. IsList(vp, 36) /\ (\A i \in 1..4 : vp[i] = v[i]) /\ (\A i \in 1..32 : vp[4 + i] = p[i])
  BY <1>8 DEF Joins
<1>10. Joins(vpr, vp, 36, r, 32)
  BY <1>5, <1>9, Joined
<1> HIDE DEF vpr
<1>11. IsList(vpr, 68) /\ (\A i \in 1..36 : vpr[i] = vp[i]) /\ (\A i \in 1..32 : vpr[36 + i] = r[i])
  BY <1>10 DEF Joins
<1>12. Joins(vprt, vpr, 68, t, 4)
  BY <1>3, <1>11, Joined
<1> HIDE DEF vprt
<1>13. IsList(vprt, 72) /\ (\A i \in 1..68 : vprt[i] = vpr[i]) /\ (\A i \in 1..4 : vprt[68 + i] = t[i])
  BY <1>12 DEF Joins
<1>14. Joins(vprtb, vprt, 72, b, 4)
  BY <1>3, <1>13, Joined
<1> HIDE DEF vprtb
<1>15. IsList(vprtb, 76) /\ (\A i \in 1..72 : vprtb[i] = vprt[i])
       /\ (\A i \in 1..4 : vprtb[72 + i] = b[i])
  BY <1>14 DEF Joins
<1>16. Joins(h, vprtb, 76, x, 4)
  BY <1>5, <1>7, <1>15, Joined
<1>17. IsList(h, 80) /\ (\A i \in 1..76 : h[i] = vprtb[i])
  BY <1>16 DEF Joins
<1>18. \A i \in 1..4 : h[i] = v[i]
  BY <1>9, <1>11, <1>13, <1>15, <1>17
<1>19. ASSUME NEW i \in 1..32 PROVE h[4 + i] = p[i]
  <2> DEFINE k == 4 + i
  <2>1. k \in 1..36 /\ k \in 1..68 /\ k \in 1..72 /\ k \in 1..76 /\ vp[k] = p[i]
    BY <1>9
  <2> HIDE DEF k
  <2>2. h[k] = p[i]
    BY <1>11, <1>13, <1>15, <1>17, <2>1
  <2> QED
    BY <2>2 DEF k
<1>20. ASSUME NEW i \in 1..32 PROVE h[36 + i] = r[i]
  <2> DEFINE k == 36 + i
  <2>1. k \in 1..68 /\ k \in 1..72 /\ k \in 1..76 /\ vpr[k] = r[i]
    BY <1>11
  <2> HIDE DEF k
  <2>2. h[k] = r[i]
    BY <1>13, <1>15, <1>17, <2>1
  <2> QED
    BY <2>2 DEF k
<1>21. ASSUME NEW i \in 1..4 PROVE h[68 + i] = t[i]
  <2> DEFINE k == 68 + i
  <2>1. k \in 1..72 /\ k \in 1..76 /\ vprt[k] = t[i]
    BY <1>13
  <2> HIDE DEF k
  <2>2. h[k] = t[i]
    BY <1>15, <1>17, <2>1
  <2> QED
    BY <2>2 DEF k
<1>22. ASSUME NEW i \in 1..4 PROVE h[72 + i] = b[i]
  <2> DEFINE k == 72 + i
  <2>1. k \in 1..76 /\ vprtb[k] = b[i]
    BY <1>15
  <2> HIDE DEF k
  <2>2. h[k] = b[i]
    BY <1>17, <2>1
  <2> QED
    BY <2>2 DEF k
<1>23. /\ \A i \in 1..32 : h[4 + i] = WordSwapped(HexBytes(prevhash, 32))[i]
       /\ \A i \in 1..32 : h[36 + i] = HashBytes(root)[i]
  BY <1>19, <1>20 DEF p, r
<1>24. /\ \A i \in 1..4 : h[i] = HexBytes(version, 4)[5 - i]
       /\ \A i \in 1..4 : h[68 + i] = HexBytes(ntime, 4)[5 - i]
       /\ \A i \in 1..4 : h[72 + i] = HexBytes(nbits, 4)[5 - i]
  BY <1>3, <1>18, <1>21, <1>22
<1> QED
  BY <1>6, <1>17, <1>23, <1>24 DEF IsHeader

\* A template holds the whole header: 64 bytes in the block of its midstate, the
\* others as its tail.
Held(template) == [k \in 1..64 |-> template.midstate[1][k - 1]] \o template.tail

LEMMA HeldIs ==
    ASSUME NEW h, IsList(h, 80), NEW template,
           template.midstate = sha256_midstate(SubSeq(h, 1, 64)),
           template.tail = SubSeq(h, 65, 80)
    PROVE  Held(template) = h
<1> DEFINE head == SubSeq(h, 1, 64)
           tail == SubSeq(h, 65, 80)
           x == [k \in 1..64 |-> template.midstate[1][k - 1]]
           u == x \o tail
<1>1. Held(template) = u
  BY DEF Held
<1>2. \A i \in 1..64 : head[i] = h[i]
  <2>1. IsPiece(SubSeq(h, 1, 64), h, 0, 64)
    BY ListPiece
  <2> QED
    BY <2>1 DEF IsPiece
<1>3. IsList(tail, 16) /\ \A i \in 1..16 : tail[i] = h[64 + i]
  <2>1. IsPiece(SubSeq(h, 65, 80), h, 64, 16)
    BY ListPiece
  <2> QED
    BY <2>1 DEF IsPiece
<1> HIDE DEF head, tail
<1>4. template.midstate[1] = [k \in BlockIndex |-> head[k + 1]]
  <2> DEFINE block == [k \in BlockIndex |-> head[k + 1]]
  <2>1. sha256_midstate(head) = Append(<<>>, block)
    BY DEF sha256_midstate, Compress
  <2> HIDE DEF block
  <2>2. Append(<<>>, block)[1] = block
    OBVIOUS
  <2> QED
    BY <2>1, <2>2 DEF block, head
<1>5. IsList(x, 64) /\ \A i \in 1..64 : x[i] = h[i]
  <2>1. ASSUME NEW i \in 1..64 PROVE x[i] = h[i]
    <3>1. i - 1 \in BlockIndex /\ (i - 1) + 1 = i
      BY DEF BlockIndex
    <3>2. template.midstate[1][i - 1] = head[(i - 1) + 1]
      BY <1>4, <3>1
    <3> QED
      BY <1>2, <3>1, <3>2
  <2> QED
    BY <2>1 DEF IsList
<1> HIDE DEF x
<1>6. Joins(u, x, 64, tail, 16)
  BY <1>3, <1>5, Joined
<1> HIDE DEF u
<1>7. /\ IsList(u, 80) /\ (\A i \in 1..64 : u[i] = x[i])
      /\ \A i \in 1..16 : u[64 + i] = tail[i]
  BY <1>6 DEF Joins
<1>8. ASSUME NEW i \in 1..80 PROVE u[i] = h[i]
  <2>1. CASE i <= 64
    BY <1>5, <1>7, <2>1
  <2>2. CASE ~ (i <= 64)
    <3> DEFINE k == i - 64
    <3>1. k \in 1..16 /\ i = 64 + k
      BY <2>2
    <3> HIDE DEF k
    <3> QED
      BY <1>3, <1>7, <3>1
  <2> QED
    BY <2>1, <2>2
<1>9. u = h
  BY <1>7, <1>8, SameList
<1> QED
  BY <1>1, <1>9

\* A number stored least significant byte first spells the text it was read from.
StoredAt(h, o, text) == \A c \in 1..4 : h[o + 4 - c] = Val(16 * text[2*c - 1] + text[2*c])

LEMMA WordDigitsAre ==
    ASSUME NEW h, NEW o \in Nat, NEW text, IsList(text, 8), \A i \in 1..8 : text[i] \in HexDigits,
           StoredAt(h, o, text)
    PROVE  WordDigits(h, o) = text
<1> DEFINE value(d) == h[o + 4 - ((d + 1) \div 2)][2]
<1>1. WordDigits(h, o) = [d \in 1..8 |-> IF d % 2 = 1 THEN value(d) \div 16 ELSE value(d) % 16]
  BY DEF WordDigits
<1>2. ASSUME NEW d \in 1..8
      PROVE  (IF d % 2 = 1 THEN value(d) \div 16 ELSE value(d) % 16) = text[d]
  <2> DEFINE c == (d + 1) \div 2
             a == 2*c - 1
             b == 2*c
  <2>1. c \in 1..4 /\ a \in 1..8 /\ b \in 1..8 /\ (d % 2 = 1 => d = a) /\ (d % 2 # 1 => d = b)
    OBVIOUS
  <2>2. value(d) = h[o + 4 - c][2]
    OBVIOUS
  <2>3. h[o + 4 - c] = Val(16 * text[a] + text[b])
    <3> HIDE DEF c
    <3> QED
      BY <2>1 DEF StoredAt
  <2> HIDE DEF value, c, a, b
  <2>4. text[a] \in 0..15 /\ text[b] \in 0..15
    BY <2>1 DEF HexDigits
  <2>5. value(d) = 16 * text[a] + text[b]
    BY <2>2, <2>3 DEF Val
  <2> DEFINE x == text[a]
             y == text[b]
  <2>6. x \in 0..15 /\ y \in 0..15 /\ value(d) = 16 * x + y
    BY <2>4, <2>5
  <2> HIDE DEF x, y
  <2>7. value(d) \div 16 = x /\ value(d) % 16 = y
    BY <2>6
  <2> QED
    BY <2>1, <2>7 DEF x, y
<1> HIDE DEF value
<1>3. WordDigits(h, o) = [d \in 1..8 |-> text[d]]
  BY <1>1, <1>2
<1> QED
  BY <1>3 DEF IsList

\* The three fields that are one number each.
FieldAt(h, o, text) == \A i \in 1..4 : h[o + i - 1] = HexBytes(text, 4)[5 - i]

LEMMA FieldDigits ==
    ASSUME NEW h, NEW o \in Nat, NEW text, IsText(text), Len(text) = 8, IsHex(text),
           FieldAt(h, o, text)
    PROVE  WordDigits(h, o) = text
<1>1. IsList(text, 8) /\ \A i \in 1..8 : text[i] \in HexDigits
  <2>1. IsList(text, Len(text))
    <3> DEFINE V == HexDigits \cup {NotHex}
    <3>1. text \in Seq(V)
      BY DEF IsText
    <3> HIDE DEF V
    <3> QED
      BY <3>1, SeqIsList
  <2> QED
    BY <2>1 DEF IsHex
<1>2. \A k \in 1..4 : HexBytes(text, 4)[k] = Val(16 * text[2*k - 1] + text[2*k])
  <2>1. IsBytesOf(HexBytes(text, 4), text, 4)
    <3> DEFINE n == 4
    <3>1. n \in Nat /\ Len(text) = 2*n
      OBVIOUS
    <3> HIDE DEF n
    <3>2. IsBytesOf(HexBytes(text, n), text, n)
      BY <3>1, HexBytesIs
    <3> QED
      BY <3>2 DEF n
  <2> QED
    BY <2>1 DEF IsBytesOf
<1>3. ASSUME NEW c \in 1..4 PROVE h[o + 4 - c] = Val(16 * text[2*c - 1] + text[2*c])
  <2> DEFINE i == 5 - c
  <2>1. i \in 1..4 /\ o + i - 1 = o + 4 - c /\ 5 - i = c
    OBVIOUS
  <2> HIDE DEF i
  <2>2. h[o + i - 1] = HexBytes(text, 4)[5 - i]
    BY <2>1 DEF FieldAt
  <2> QED
    BY <1>2, <2>1, <2>2
<1>4. StoredAt(h, o, text)
  BY <1>3 DEF StoredAt
<1> QED
  BY <1>1, <1>4, WordDigitsAre

\* The eight words of the previous hash.
WordsAt(h, prevhash) ==
    \A w \in 0..7 : WordDigits(h, 5 + 4*w) = SubSeq(prevhash, 8*w + 1, 8*w + 8)

LEMMA PrevhashDigits ==
    ASSUME NEW h, NEW prevhash, IsText(prevhash), Len(prevhash) = 64, IsHex(prevhash),
           \A i \in 1..32 : h[4 + i] = WordSwapped(HexBytes(prevhash, 32))[i]
    PROVE  WordsAt(h, prevhash)
<1> DEFINE X == HexBytes(prevhash, 32)
<1>1. IsList(prevhash, 64) /\ \A i \in 1..64 : prevhash[i] \in HexDigits
  <2>1. IsList(prevhash, Len(prevhash))
    <3> DEFINE V == HexDigits \cup {NotHex}
    <3>1. prevhash \in Seq(V)
      BY DEF IsText
    <3> HIDE DEF V
    <3> QED
      BY <3>1, SeqIsList
  <2> QED
    BY <2>1 DEF IsHex
<1>2. /\ Len(X) = 32
      /\ \A k \in 1..32 : X[k] = Val(16 * prevhash[2*k - 1] + prevhash[2*k])
  <2>1. IsBytesOf(X, prevhash, 32)
    <3> DEFINE n == 32
    <3>1. n \in Nat /\ Len(prevhash) = 2*n
      OBVIOUS
    <3> HIDE DEF n, X
    <3>2. IsBytesOf(HexBytes(prevhash, n), prevhash, n)
      BY <3>1, HexBytesIs
    <3> QED
      BY <3>2 DEF n, X
  <2>2. \A k \in 1..32 : X[k] = Val(16 * prevhash[2*k - 1] + prevhash[2*k])
    <3> HIDE DEF X
    <3> QED
      BY <2>1 DEF IsBytesOf
  <2>3. Len(X) = 32
    BY DEF HexBytes
  <2> HIDE DEF X
  <2> QED
    BY <2>2, <2>3
<1>3. \A i \in 1..32 : h[4 + i] = WordSwapped(X)[i]
  OBVIOUS
<1> HIDE DEF X
<1>4. \A i \in 1..32 : WordSwapped(X)[i] = X[4*((i - 1) \div 4) + 4 - ((i - 1) % 4)]
  BY <1>2 DEF WordSwapped
<1> SUFFICES ASSUME NEW w \in 0..7
             PROVE  WordDigits(h, 5 + 4*w) = SubSeq(prevhash, 8*w + 1, 8*w + 8)
  BY DEF WordsAt
<1> DEFINE o == 5 + 4*w
           a == 8*w
           e == 8*w + 8
           text == SubSeq(prevhash, a + 1, e)
<1>5. IsList(text, 8) /\ \A i \in 1..8 : text[i] = prevhash[a + i]
  <2>1. a \in Nat /\ e \in Nat /\ a <= e /\ e <= 64 /\ 8 = e - a
    OBVIOUS
  <2> DEFINE first == a + 1
  <2>2. first = a + 1
    OBVIOUS
  <2> HIDE DEF a, e, first
  <2>3. IsPiece(SubSeq(prevhash, first, e), prevhash, a, 8)
    BY <1>1, <2>1, <2>2, ListPiece
  <2> QED
    BY <2>3 DEF IsPiece, first
<1> HIDE DEF text
<1>6. \A i \in 1..8 : text[i] \in HexDigits
  <2>1. \A i \in 1..8 : a + i \in 1..64
    OBVIOUS
  <2> HIDE DEF a
  <2> QED
    BY <1>1, <1>5, <2>1
<1>7. ASSUME NEW c \in 1..4 PROVE h[o + 4 - c] = Val(16 * text[2*c - 1] + text[2*c])
  <2> DEFINE k == 4*w + c
             i == 4*w + 5 - c
             p == 2*c - 1
             q == 2*c
  <2>1. /\ i \in 1..32 /\ k \in 1..32 /\ o + 4 - c = 4 + i
        /\ 4*((i - 1) \div 4) + 4 - ((i - 1) % 4) = k
    <3>1. i - 1 = 4*w + (4 - c) /\ 4 - c \in 0..3
      OBVIOUS
    <3>2. (i - 1) \div 4 = w /\ (i - 1) % 4 = 4 - c
      BY <3>1
    <3> QED
      BY <3>2
  <2>2. p \in 1..8 /\ q \in 1..8 /\ 2*k - 1 = a + p /\ 2*k = a + q
    OBVIOUS
  <2> HIDE DEF i, k, p, q, a, o
  <2>3. h[4 + i] = X[k]
    BY <1>3, <1>4, <2>1
  <2>4. X[k] = Val(16 * prevhash[2*k - 1] + prevhash[2*k])
    BY <1>2, <2>1
  <2>5. text[p] = prevhash[a + p] /\ text[q] = prevhash[a + q]
    BY <1>5, <2>2
  <2>6. h[o + 4 - c] = Val(16 * text[p] + text[q])
    BY <2>1, <2>2, <2>3, <2>4, <2>5
  <2> QED
    BY <2>6 DEF p, q
<1>8. o \in Nat /\ StoredAt(h, o, text)
  BY <1>7 DEF StoredAt
<1> HIDE DEF o
<1>9. WordDigits(h, o) = text
  BY <1>5, <1>6, <1>8, WordDigitsAre
<1> QED
  BY <1>9 DEF o, text

\* A header whose fields are hex spells them, and holds the root it was given.
Spells(h, version, prevhash, root, ntime, nbits) ==
    /\ WordDigits(h, 1) = version
    /\ WordsAt(h, prevhash)
    /\ SubSeq(h, 37, 68) = HashBytes(root)
    /\ WordDigits(h, 69) = ntime
    /\ WordDigits(h, 73) = nbits

LEMMA HeaderSpells ==
    ASSUME NEW h, NEW version, NEW prevhash, NEW root, NEW ntime, NEW nbits,
           IsHeader(h, version, prevhash, root, ntime, nbits),
           IsText(version), Len(version) = 8, IsHex(version),
           IsText(prevhash), Len(prevhash) = 64, IsHex(prevhash),
           IsText(ntime), Len(ntime) = 8, IsHex(ntime),
           IsText(nbits), Len(nbits) = 8, IsHex(nbits)
    PROVE  Spells(h, version, prevhash, root, ntime, nbits)
<1>1. FieldAt(h, 1, version) /\ FieldAt(h, 69, ntime) /\ FieldAt(h, 73, nbits)
  <2>1. \A i \in 1..4 : 1 + i - 1 = i /\ 69 + i - 1 = 68 + i /\ 73 + i - 1 = 72 + i
    OBVIOUS
  <2>2. FieldAt(h, 1, version)
    BY <2>1 DEF FieldAt, IsHeader
  <2>3. FieldAt(h, 69, ntime)
    BY <2>1 DEF FieldAt, IsHeader
  <2>4. FieldAt(h, 73, nbits)
    BY <2>1 DEF FieldAt, IsHeader
  <2> QED
    BY <2>2, <2>3, <2>4
<1>2. WordDigits(h, 1) = version /\ WordDigits(h, 69) = ntime /\ WordDigits(h, 73) = nbits
  BY <1>1, FieldDigits
<1>3. WordsAt(h, prevhash)
  <2>1. \A i \in 1..32 : h[4 + i] = WordSwapped(HexBytes(prevhash, 32))[i]
    BY DEF IsHeader
  <2> QED
    BY <2>1, PrevhashDigits
<1>4. SubSeq(h, 37, 68) = HashBytes(root)
  <2> DEFINE s == SubSeq(h, 37, 68)
             r == HashBytes(root)
  <2>1. IsList(h, 80) /\ \A i \in 1..32 : h[36 + i] = r[i]
    BY DEF IsHeader
  <2>2. IsPiece(SubSeq(h, 37, 68), h, 36, 32)
    BY <2>1, ListPiece
  <2>3. IsList(s, 32) /\ \A i \in 1..32 : s[i] = h[36 + i]
    BY <2>2 DEF IsPiece
  <2>4. IsList(r, 32)
    BY DEF HashBytes, IsList
  <2> HIDE DEF s, r
  <2>5. \A i \in 1..32 : s[i] = r[i]
    BY <2>1, <2>3
  <2>6. s = r
    BY <2>3, <2>4, <2>5, SameList
  <2> QED
    BY <2>6 DEF s, r
<1> QED
  BY <1>2, <1>3, <1>4 DEF Spells

-----------------------------------------------------------------------------
(* Theorem about the calls: the template of a job. *)

\* The texts of a job and the counter it is built with.
AreInputs(b) ==
    /\ IsText(b.job.coinb1) /\ IsText(b.job.coinb2) /\ IsText(b.job.version)
    /\ IsText(b.job.prevhash) /\ IsText(b.job.ntime) /\ IsText(b.job.nbits)
    /\ IsText(b.extranonce1)
    /\ IsList(b.txs, Len(b.txs))
    /\ b.size \in Nat /\ b.counter \in Nat

\* What makes a job fit to be built, and what its template then is.
En2Of(b) == extranonce2_hex(b.counter, b.size)
TextOf(b) == b.job.coinb1 \o b.extranonce1 \o En2Of(b) \o b.job.coinb2
FieldsDecode(j) ==
    /\ Len(j.version) = 8 /\ IsHex(j.version)
    /\ Len(j.prevhash) = 64 /\ IsHex(j.prevhash)
    /\ Len(j.ntime) = 8 /\ IsHex(j.ntime)
    /\ Len(j.nbits) = 8 /\ IsHex(j.nbits)
CoinbaseFits(b) ==
    /\ IsBytes(b.job.coinb1) /\ IsBytes(b.extranonce1) /\ IsBytes(b.job.coinb2)
    /\ Len(TextOf(b)) <= 2*CoinbaseMax
RootOf(b) == TreeRoot(<<HashOf(CoinbaseOf(TextOf(b)))>> \o b.txs)
IsTemplate(template, b) ==
    /\ template.ready <=> FieldsDecode(b.job) /\ CoinbaseFits(b)
    /\ template.ready =>
           Spells(Held(template), b.job.version, b.job.prevhash, RootOf(b), b.job.ntime, b.job.nbits)

LEMMA FieldsAre ==
    ASSUME NEW b, AreInputs(b), NEW root
    PROVE  assemble_header(b.job.version, b.job.prevhash, root, b.job.ntime, b.job.nbits, 0).ok
               <=> FieldsDecode(b.job)
<1> DEFINE j == b.job
<1>1. IsText(j.version) /\ IsText(j.prevhash) /\ IsText(j.ntime) /\ IsText(j.nbits)
  BY DEF AreInputs
<1> HIDE DEF j
<1>2. \A text : IsText(text) => (HexDecodes(text, 4) <=> Len(text) = 8 /\ IsHex(text))
  <2> SUFFICES ASSUME NEW text, IsText(text)
               PROVE  HexDecodes(text, 4) <=> Len(text) = 8 /\ IsHex(text)
    OBVIOUS
  <2> DEFINE n == 4
  <2>1. n \in Nat /\ 2*n = 8
    OBVIOUS
  <2> HIDE DEF n
  <2>2. HexDecodes(text, n) <=> Len(text) = 2*n /\ IsHex(text)
    BY <2>1, DecodesHex
  <2> QED
    BY <2>1, <2>2 DEF n
<1>3. HexDecodes(j.prevhash, 32) <=> Len(j.prevhash) = 64 /\ IsHex(j.prevhash)
  <2> DEFINE n == 32
  <2>1. n \in Nat /\ 2*n = 64
    OBVIOUS
  <2> HIDE DEF n
  <2>2. HexDecodes(j.prevhash, n) <=> Len(j.prevhash) = 2*n /\ IsHex(j.prevhash)
    BY <1>1, <2>1, DecodesHex
  <2> QED
    BY <2>1, <2>2 DEF n
<1>4. assemble_header(j.version, j.prevhash, root, j.ntime, j.nbits, 0).ok
          <=> /\ HexDecodes(j.version, 4) /\ HexDecodes(j.prevhash, 32)
              /\ HexDecodes(j.ntime, 4) /\ HexDecodes(j.nbits, 4)
  BY DEF assemble_header
<1>5. assemble_header(j.version, j.prevhash, root, j.ntime, j.nbits, 0).ok <=> FieldsDecode(j)
  BY <1>1, <1>2, <1>3, <1>4 DEF FieldsDecode
<1> QED
  BY <1>5 DEF j

LEMMA CoinbaseFitsWhen ==
    ASSUME NEW b, AreInputs(b)
    PROVE  LET coinbase == coinbase_assemble(<<b.job.coinb1, b.extranonce1, En2Of(b), b.job.coinb2>>)
           IN  /\ coinbase.length >= 0 <=> CoinbaseFits(b)
               /\ CoinbaseFits(b) => coinbase.bytes = CoinbaseOf(TextOf(b))
<1> DEFINE p == b.job.coinb1
           q == b.extranonce1
           r == En2Of(b)
           s == b.job.coinb2
           coinbase == coinbase_assemble(<<p, q, r, s>>)
           text == p \o q \o r \o s
<1>1. IsText(p) /\ IsText(q) /\ IsText(s) /\ IsText(r) /\ IsBytes(r)
  <2>1. IsExtranonce2(r, b.counter, b.size)
    <3>1. b.counter \in Nat /\ b.size \in Nat
      BY DEF AreInputs
    <3> QED
      BY <3>1, Extranonce2Is DEF En2Of
  <2> QED
    BY <2>1 DEF IsExtranonce2, AreInputs
<1>2. TextOf(b) = text
  BY DEF TextOf
<1>3. CoinbaseFits(b) <=> IsBytes(p) /\ IsBytes(q) /\ IsBytes(s) /\ Len(text) <= 2*CoinbaseMax
  BY <1>2 DEF CoinbaseFits
<1> HIDE DEF p, q, r, s
<1>4. IsCoinbase(coinbase, p, q, r, s)
  BY <1>1, CoinbaseIs
<1>5. coinbase.length >= 0 <=> AllFit(p, q, r, s)
  BY <1>4 DEF IsCoinbase
<1>6. ASSUME IsBytes(p), IsBytes(q), IsBytes(s)
      PROVE  /\ AllFit(p, q, r, s) <=> Len(text) <= 2*CoinbaseMax
             /\ AllFit(p, q, r, s) => coinbase.bytes = CoinbaseOf(text)
  BY <1>1, <1>6, CoinbaseIsText
<1>7. AllFit(p, q, r, s) => IsBytes(p) /\ IsBytes(q) /\ IsBytes(s)
  BY DEF AllFit
<1> HIDE DEF coinbase, text
<1>8. AllFit(p, q, r, s) <=> CoinbaseFits(b)
  BY <1>3, <1>6, <1>7
<1>9. CoinbaseFits(b) => coinbase.bytes = CoinbaseOf(TextOf(b))
  BY <1>2, <1>3, <1>6, <1>8
<1> QED
  BY <1>5, <1>8, <1>9 DEF coinbase, p, q, r, s

LEMMA TemplateIs ==
    ASSUME NEW b, AreInputs(b)
    PROVE  IsTemplate(TemplateOf(b), b)
<1> DEFINE j == b.job
           coinbase == coinbase_assemble(<<j.coinb1, b.extranonce1, En2Of(b), j.coinb2>>)
           root == build_merkle_root(HashOf(coinbase.bytes), PoolBranch(b.txs))
           header == assemble_header(j.version, j.prevhash, root, j.ntime, j.nbits, 0)
           template == TemplateOf(b)
<1>1. /\ template.ready <=> coinbase.length >= 0 /\ header.ok
      /\ template.midstate = sha256_midstate(SubSeq(header.bytes, 1, 64))
      /\ template.tail = SubSeq(header.bytes, 65, 80)
  BY DEF TemplateOf, BuildTemplate, JobOf, En2Of
<1>2. header.ok <=> FieldsDecode(j)
  <2> HIDE DEF root
  <2> QED
    BY FieldsAre
<1>3. /\ coinbase.length >= 0 <=> CoinbaseFits(b)
      /\ CoinbaseFits(b) => coinbase.bytes = CoinbaseOf(TextOf(b))
  BY CoinbaseFitsWhen
<1>4. IsHeader(header.bytes, j.version, j.prevhash, root, j.ntime, j.nbits)
  <2> HIDE DEF root, j
  <2> QED
    BY HeaderIs
<1>5. CoinbaseFits(b) => root = RootOf(b)
  <2> SUFFICES ASSUME CoinbaseFits(b) PROVE root = RootOf(b)
    OBVIOUS
  <2> DEFINE leaf == HashOf(CoinbaseOf(TextOf(b)))
  <2>1. root = build_merkle_root(leaf, PoolBranch(b.txs))
    BY <1>3
  <2> HIDE DEF leaf
  <2>2. IsList(b.txs, Len(b.txs))
    BY DEF AreInputs
  <2>3. build_merkle_root(leaf, PoolBranch(b.txs)) = TreeRoot(<<leaf>> \o b.txs)
    BY <2>2, RootIsTheTrees
  <2> QED
    BY <2>1, <2>3 DEF RootOf, leaf
<1> HIDE DEF coinbase, root, header, template
<1>6. Held(template) = header.bytes
  <2> DEFINE h == header.bytes
  <2>1. IsList(h, 80)
    BY <1>4 DEF IsHeader
  <2>2. template.midstate = sha256_midstate(SubSeq(h, 1, 64)) /\ template.tail = SubSeq(h, 65, 80)
    BY <1>1
  <2> HIDE DEF h
  <2>3. Held(template) = h
    BY <2>1, <2>2, HeldIs
  <2> QED
    BY <2>3 DEF h
<1>7. template.ready <=> FieldsDecode(j) /\ CoinbaseFits(b)
  BY <1>1, <1>2, <1>3
<1>8. ASSUME FieldsDecode(j), CoinbaseFits(b)
      PROVE  Spells(Held(template), j.version, j.prevhash, RootOf(b), j.ntime, j.nbits)
  <2>1. IsText(j.version) /\ IsText(j.prevhash) /\ IsText(j.ntime) /\ IsText(j.nbits)
    BY DEF AreInputs
  <2> HIDE DEF j
  <2> DEFINE h == header.bytes
  <2>2. IsHeader(h, j.version, j.prevhash, root, j.ntime, j.nbits)
    BY <1>4
  <2> HIDE DEF h
  <2>3. Spells(h, j.version, j.prevhash, root, j.ntime, j.nbits)
    BY <1>8, <2>1, <2>2, HeaderSpells DEF FieldsDecode
  <2> QED
    BY <1>5, <1>6, <1>8, <2>3 DEF h
<1> QED
  BY <1>7, <1>8 DEF IsTemplate, template

\* A call that builds stands for the template of its job.
BuildsReturn == call.fn = "build" => call.arg \in Builds /\ result = TemplateOf(call.arg)

LEMMA BuildsReturned == Spec => []BuildsReturn
<1>1. Init => BuildsReturn
  BY DEF Init, Idle, BuildsReturn
<1>2. BuildsReturn /\ [Next]_vars => BuildsReturn'
  <2> SUFFICES ASSUME BuildsReturn, [Next]_vars PROVE BuildsReturn'
    OBVIOUS
  <2>1. CASE CallBuild
    <3>1. PICK b \in Builds : Returns("build", b, TemplateOf(b))
      BY <2>1 DEF CallBuild, TemplateOf
    <3> QED
      BY <3>1 DEF Returns, BuildsReturn
  <2>2. CASE CallBitsToTarget
    BY <2>2 DEF CallBitsToTarget, Returns, BuildsReturn
  <2>3. CASE CallDifficultyToTarget
    BY <2>3 DEF CallDifficultyToTarget, Returns, BuildsReturn
  <2>4. CASE CallSha256
    <3>1. call'.fn = "sha256_ref"
      BY <2>4 DEF CallSha256, Returns
    <3> QED
      BY <3>1 DEF BuildsReturn
  <2>5. CASE CallGrind
    <3>1. call'.fn = "grind"
      BY <2>5 DEF CallGrind, Returns
    <3> QED
      BY <3>1 DEF BuildsReturn
  <2>6. CASE Return
    BY <2>6 DEF Return, Idle, BuildsReturn
  <2>7. CASE UNCHANGED vars
    BY <2>7 DEF vars, BuildsReturn
  <2> QED
    BY <2>1, <2>2, <2>3, <2>4, <2>5, <2>6, <2>7 DEF Next
<1> QED
  BY <1>1, <1>2, PTL DEF Spec

LEMMA InputsAre ==
    ASSUME NEW b \in Builds
    PROVE  AreInputs(b)
<1>1. /\ IsText(b.job.coinb1) /\ IsText(b.job.coinb2) /\ IsText(b.job.version)
      /\ IsText(b.job.prevhash) /\ IsText(b.job.ntime) /\ IsText(b.job.nbits)
      /\ IsText(b.extranonce1) /\ b.size \in Nat /\ b.counter \in Nat
  BY BuildsAssumption
<1>2. IsList(b.txs, Len(b.txs))
  <2> DEFINE txs == b.txs
             V == {txs[i] : i \in DOMAIN txs}
  <2>1. txs \in Seq(V)
    BY BuildsAssumption
  <2> HIDE DEF V, txs
  <2>2. IsList(txs, Len(txs))
    BY <2>1, SeqIsList
  <2> QED
    BY <2>2 DEF txs
<1> QED
  BY <1>1, <1>2 DEF AreInputs

\* A job is built when and only when its fields decode and its coinbase fits, and
\* then the header holds the numbers the pool wrote, the root of the pool's own
\* tree and the coinbase with both extranonces, for every job, every number of
\* transactions, every extranonce2 size and every counter.
THEOREM TheMinerBuildsThePoolsHeader == Spec => []HeaderIsThePools
<1>1. BuildsReturn => HeaderIsThePools
  <2> SUFFICES ASSUME BuildsReturn, call.fn = "build"
               PROVE  LET b == call.arg
                          j == b.job
                          en2 == extranonce2_hex(b.counter, b.size)
                          text == j.coinb1 \o b.extranonce1 \o en2 \o j.coinb2
                          coinbase == [i \in 1 .. Len(text) \div 2 |->
                                         Val(16 * text[2*i - 1] + text[2*i])]
                          header == [k \in 1..64 |-> result.midstate[1][k - 1]] \o result.tail
                      IN  /\ result.ready <=>
                               /\ \A f \in {j.version, j.ntime, j.nbits} : Len(f) = 8 /\ IsHex(f)
                               /\ Len(j.prevhash) = 64 /\ IsHex(j.prevhash)
                               /\ \A f \in {j.coinb1, b.extranonce1, j.coinb2} :
                                      Len(f) % 2 = 0 /\ IsHex(f)
                               /\ Len(text) <= 2 * CoinbaseMax
                          /\ result.ready =>
                               /\ WordDigits(header, 1) = j.version
                               /\ \A w \in 0..7 : WordDigits(header, 5 + 4*w)
                                                    = SubSeq(j.prevhash, 8*w + 1, 8*w + 8)
                               /\ SubSeq(header, 37, 68)
                                    = HashBytes(TreeRoot(<<HashOf(coinbase)>> \o b.txs))
                               /\ WordDigits(header, 69) = j.ntime
                               /\ WordDigits(header, 73) = j.nbits
                               /\ Len(en2) = 2 * b.size
                               /\ Spelled(en2) = b.counter % Power(256, b.size)
    BY DEF HeaderIsThePools
  <2> DEFINE b == call.arg
             j == b.job
             en2 == extranonce2_hex(b.counter, b.size)
             text == j.coinb1 \o b.extranonce1 \o en2 \o j.coinb2
             coinbase == [i \in 1 .. Len(text) \div 2 |-> Val(16 * text[2*i - 1] + text[2*i])]
             header == [k \in 1..64 |-> result.midstate[1][k - 1]] \o result.tail
             root == TreeRoot(<<HashOf(coinbase)>> \o b.txs)
  <2>1. b \in Builds /\ result = TemplateOf(b)
    BY DEF BuildsReturn
  <2>2. AreInputs(b)
    <3> HIDE DEF b
    <3> QED
      BY <2>1, InputsAre
  <2>3. IsTemplate(result, b)
    <3> HIDE DEF b
    <3> QED
      BY <2>1, <2>2, TemplateIs
  <2>4. IsExtranonce2(en2, b.counter, b.size)
    <3>1. b.counter \in Nat /\ b.size \in Nat
      BY <2>2 DEF AreInputs
    <3> HIDE DEF b
    <3> QED
      BY <3>1, Extranonce2Is
  <2>5. Held(result) = header /\ TextOf(b) = text /\ RootOf(b) = root
    BY DEF Held, TextOf, En2Of, RootOf, CoinbaseOf
  <2>6. CoinbaseFits(b) <=> /\ IsBytes(j.coinb1) /\ IsBytes(b.extranonce1) /\ IsBytes(j.coinb2)
                            /\ Len(text) <= 2 * CoinbaseMax
    <3> HIDE DEF text
    <3> QED
      BY <2>5 DEF CoinbaseFits
  <2>7. /\ result.ready <=> FieldsDecode(j) /\ CoinbaseFits(b)
        /\ result.ready => Spells(header, j.version, j.prevhash, root, j.ntime, j.nbits)
    <3> HIDE DEF header, root
    <3> QED
      BY <2>3, <2>5 DEF IsTemplate
  <2> HIDE DEF b, en2, text, header, root
  <2>8. result.ready <=> /\ \A f \in {j.version, j.ntime, j.nbits} : Len(f) = 8 /\ IsHex(f)
                         /\ Len(j.prevhash) = 64 /\ IsHex(j.prevhash)
                         /\ \A f \in {j.coinb1, b.extranonce1, j.coinb2} :
                                Len(f) % 2 = 0 /\ IsHex(f)
                         /\ Len(text) <= 2 * CoinbaseMax
    <3> HIDE DEF j
    <3>1. FieldsDecode(j) <=> /\ \A f \in {j.version, j.ntime, j.nbits} : Len(f) = 8 /\ IsHex(f)
                              /\ Len(j.prevhash) = 64 /\ IsHex(j.prevhash)
      BY DEF FieldsDecode
    <3>2. IsBytes(j.coinb1) /\ IsBytes(b.extranonce1) /\ IsBytes(j.coinb2)
             <=> \A f \in {j.coinb1, b.extranonce1, j.coinb2} : Len(f) % 2 = 0 /\ IsHex(f)
      BY DEF IsBytes
    <3> QED
      BY <2>6, <2>7, <3>1, <3>2
  <2>9. result.ready =>
             /\ WordDigits(header, 1) = j.version
             /\ \A w \in 0..7 : WordDigits(header, 5 + 4*w)
                                  = SubSeq(j.prevhash, 8*w + 1, 8*w + 8)
             /\ SubSeq(header, 37, 68) = HashBytes(root)
             /\ WordDigits(header, 69) = j.ntime
             /\ WordDigits(header, 73) = j.nbits
    BY <2>7, Zenon DEF Spells, WordsAt
  <2>10. Len(en2) = 2 * b.size /\ Spelled(en2) = b.counter % Power(256, b.size)
    BY <2>4 DEF IsExtranonce2
  <2> QED
    BY <2>8, <2>9, <2>10, Zenon DEF b, en2, text, header, root
<1>2. Spec => []BuildsReturn
  BY BuildsReturned
<1> QED
  BY <1>1, <1>2, PTL

LEMMA QuotientsOfNumbers ==
    ASSUME NEW a \in Nat, NEW b \in Nat \ {0}, NEW c \in Nat \ {0}
    PROVE  /\ (a \div b) \div c = a \div (c * b)
           /\ (a * b) \div (c * b) = a \div c
           /\ \A n \in Nat : n <= a \div b <=> n * b <= a
<1> DEFINE p == a \div b
           q == p \div c
           r == a \div c
           d == c * b
<1>1. /\ p \in Nat /\ p * b \in Nat /\ p * b <= a /\ a < p * b + b
      /\ r \in Nat /\ r * c \in Nat /\ r * c <= a /\ a < r * c + c
  BY QuotientIs DEF IsQuotient
<1> HIDE DEF r
<1>2. q \in Nat /\ q * c \in Nat /\ q * c <= p /\ p < q * c + c
  <2> HIDE DEF p
  <2> QED
    BY <1>1, QuotientIs DEF IsQuotient
<1> HIDE DEF p, q
<1>3. d \in Nat \ {0}
  OBVIOUS
<1>4. q = a \div d
  <2>1. (q * c) * b <= p * b
    BY <1>1, <1>2, ProductGrows
  <2>2. (p + 1) * b <= (q * c + c) * b
    <3>1. p + 1 <= q * c + c /\ p + 1 \in Int /\ q * c + c \in Int
      BY <1>1, <1>2
    <3> QED
      BY <3>1, ProductGrows
  <2>3. (q * c) * b = q * d /\ (p + 1) * b = p * b + b /\ (q * c + c) * b = q * d + d
    BY <1>1, <1>2
  <2>4. q * d \in Nat
    BY <1>2, <1>3
  <2>5. IsQuotient(q, a, d)
    BY <1>1, <1>2, <1>3, <2>1, <2>2, <2>3, <2>4 DEF IsQuotient
  <2> HIDE DEF d
  <2> QED
    BY <1>3, <2>5, QuotientIs
<1>5. r = (a * b) \div d
  <2> DEFINE m == a * b
  <2>1. m \in Nat
    OBVIOUS
  <2>2. (r * c) * b <= a * b
    BY <1>1, ProductGrows
  <2>3. (a + 1) * b <= (r * c + c) * b
    <3>1. a + 1 <= r * c + c /\ a + 1 \in Int /\ r * c + c \in Int
      BY <1>1
    <3> QED
      BY <3>1, ProductGrows
  <2>4. (r * c) * b = r * d /\ (a + 1) * b = m + b /\ (r * c + c) * b = r * d + d
    BY <1>1
  <2>5. r * d \in Nat
    BY <1>1, <1>3
  <2>6. IsQuotient(r, m, d)
    BY <1>1, <2>1, <2>2, <2>3, <2>4, <2>5 DEF IsQuotient
  <2> HIDE DEF d, m
  <2>7. r = m \div d
    BY <1>3, <2>1, <2>6, QuotientIs
  <2> QED
    BY <2>7 DEF m
<1>6. ASSUME NEW n \in Nat PROVE n <= p <=> n * b <= a
  <2>1. n <= p => n * b <= p * b
    BY <1>1, ProductGrows
  <2>2. p + 1 <= n => (p + 1) * b <= n * b
    BY <1>1, ProductGrows
  <2>3. (p + 1) * b = p * b + b /\ n * b \in Nat
    BY <1>1
  <2> QED
    BY <1>1, <2>1, <2>2, <2>3
<1> QED
  BY <1>4, <1>5, <1>6 DEF p, q, r

LEMMA QuotientOfQuotient ==
    ASSUME NEW a \in Nat, NEW b \in Nat \ {0}, NEW c \in Nat \ {0}
    PROVE  (a \div b) \div c = a \div (c * b)
<1> QED
  BY QuotientsOfNumbers

-----------------------------------------------------------------------------
(* A number and its digits: a hash and a target are compared as numbers. *)

\* What holds at N and is handed down holds down to 0.
LEMMA EveryTurnDown ==
    ASSUME NEW N \in Nat, NEW S, N \in S, \A i \in 0 .. N - 1 : i + 1 \in S => i \in S
    PROVE  \A i \in 0 .. N : i \in S
<1> DEFINE T == {i \in 0 .. N : N - i \in S}
<1>1. 0 \in T
  OBVIOUS
<1>2. ASSUME NEW i \in 1 .. N, i - 1 \in T PROVE i \in T
  <2> DEFINE j == N - i
  <2>1. j \in 0 .. N - 1 /\ j + 1 = N - (i - 1)
    OBVIOUS
  <2>2. j + 1 \in S
    BY <1>2, <2>1
  <2>3. j \in S
    BY <2>1, <2>2
  <2> QED
    BY <2>3
<1> HIDE DEF T
<1>3. \A i \in 0 .. N : i \in T
  BY <1>1, <1>2, EveryTurn
<1>4. ASSUME NEW i \in 0 .. N PROVE i \in S
  <2>1. N - i \in 0 .. N /\ N - (N - i) = i
    OBVIOUS
  <2>2. N - i \in T
    BY <1>3, <2>1
  <2> QED
    BY <2>1, <2>2 DEF T
<1> QED
  BY <1>4

\* x[i] is the number above the i lowest digits of h.
Expands(x, h) ==
    /\ x[Size] = 0
    /\ \A i \in 0 .. Size : x[i] \in Nat
    /\ \A i \in Index : h[i] \in 0 .. Base - 1 /\ x[i] = Base * x[i + 1] + h[i]

\* One more digit, and the comparison of the numbers.
LEMMA OneDigit ==
    ASSUME NEW x \in Nat, NEW y \in Nat, NEW h \in 0 .. Base - 1, NEW t \in 0 .. Base - 1
    PROVE  /\ x < y => Base * x + h < Base * y + t
           /\ x = y => (Base * x + h <= Base * y + t <=> h <= t)
<1>1. Base \in Nat
  BY BaseAssumption
<1>2. x + 1 <= y => (x + 1) * Base <= y * Base
  BY <1>1, ProductGrows
<1>3. /\ (x + 1) * Base = Base * x + Base /\ y * Base = Base * y
      /\ Base * x \in Nat /\ Base * y \in Nat
  BY <1>1
<1> QED
  BY <1>1, <1>2, <1>3

LEMMA MeetsAsNumbers ==
    ASSUME NEW x, NEW h, Expands(x, h), NEW y, NEW t, Expands(y, t)
    PROVE  MeetsTarget(h, t) <=> x[0] <= y[0]
<1>1. /\ Size \in Nat /\ 0 \in 0 .. Size
      /\ \A i \in 0 .. Size - 1 : i \in Index /\ i \in 0 .. Size /\ i + 1 \in 0 .. Size
  BY SizeAssumption DEF Index
<1>2. /\ x[Size] = 0 /\ y[Size] = 0
      /\ \A i \in 0 .. Size : x[i] \in Nat /\ y[i] \in Nat
      /\ \A i \in Index : /\ h[i] \in 0 .. Base - 1 /\ x[i] = Base * x[i + 1] + h[i]
                          /\ t[i] \in 0 .. Base - 1 /\ y[i] = Base * y[i + 1] + t[i]
  BY DEF Expands
<1>3. ASSUME NEW i \in 0 .. Size - 1
      PROVE  /\ x[i + 1] < y[i + 1] => x[i] < y[i]
             /\ y[i + 1] < x[i + 1] => y[i] < x[i]
             /\ x[i + 1] = y[i + 1] => (x[i] <= y[i] <=> h[i] <= t[i])
             /\ x[i + 1] = y[i + 1] => (y[i] <= x[i] <=> t[i] <= h[i])
  <2>1. /\ x[i + 1] \in Nat /\ y[i + 1] \in Nat
        /\ h[i] \in 0 .. Base - 1 /\ t[i] \in 0 .. Base - 1
        /\ x[i] = Base * x[i + 1] + h[i] /\ y[i] = Base * y[i + 1] + t[i]
    BY <1>1, <1>2
  <2>2. /\ x[i + 1] < y[i + 1] => x[i] < y[i]
        /\ x[i + 1] = y[i + 1] => (x[i] <= y[i] <=> h[i] <= t[i])
    BY <2>1, OneDigit
  <2>3. /\ y[i + 1] < x[i + 1] => y[i] < x[i]
        /\ y[i + 1] = x[i + 1] => (y[i] <= x[i] <=> t[i] <= h[i])
    BY <2>1, OneDigit
  <2> QED
    BY <2>2, <2>3
<1> DEFINE Above(i) == \A j \in i .. Size - 1 : h[j] = t[j]
<1>4. \A i \in 0 .. Size : Above(i) => x[i] = y[i]
  <2> DEFINE S == {i \in 0 .. Size : Above(i) => x[i] = y[i]}
  <2>1. Size \in S
    BY <1>1, <1>2
  <2>2. ASSUME NEW i \in 0 .. Size - 1, i + 1 \in S PROVE i \in S
    <3>1. i \in 0 .. Size /\ x[i] \in Nat /\ y[i] \in Nat
      BY <1>1, <1>2
    <3>2. ASSUME Above(i) PROVE x[i] = y[i]
      <4>1. h[i] = t[i] /\ Above(i + 1)
        BY <1>1, <3>2
      <4>2. x[i + 1] = y[i + 1] /\ h[i] \in Int /\ h[i] <= t[i] /\ t[i] <= h[i]
        BY <1>1, <1>2, <2>2, <4>1
      <4> QED
        BY <1>3, <3>1, <4>2
    <3> QED
      BY <3>1, <3>2
  <2> HIDE DEF S
  <2>3. \A i \in 0 .. Size : i \in S
    BY <1>1, <2>1, <2>2, EveryTurnDown
  <2> QED
    BY <2>3 DEF S
<1>5. ASSUME x[0] <= y[0] PROVE MeetsTarget(h, t)
  <2> DEFINE S == {i \in 0 .. Size : x[i] <= y[i]}
  <2>1. 0 \in S
    BY <1>1, <1>5
  <2>2. ASSUME NEW i \in 1 .. Size, i - 1 \in S PROVE i \in S
    <3> DEFINE k == i - 1
    <3>1. k \in 0 .. Size - 1 /\ k + 1 = i /\ i \in 0 .. Size /\ k \in 0 .. Size
      BY <1>1
    <3>2. x[k] <= y[k] /\ x[k] \in Nat /\ y[k] \in Nat /\ x[i] \in Nat /\ y[i] \in Nat
      BY <1>2, <2>2, <3>1
    <3> HIDE DEF k
    <3>3. y[k + 1] < x[k + 1] => y[k] < x[k]
      BY <1>3, <3>1
    <3>4. x[i] <= y[i]
      BY <3>1, <3>2, <3>3
    <3> QED
      BY <3>1, <3>4
  <2> HIDE DEF S
  <2>3. \A i \in 0 .. Size : i \in S
    BY <1>1, <2>1, <2>2, EveryTurn
  <2>4. ASSUME NEW i \in Index, \A j \in i + 1 .. Size - 1 : h[j] = t[j] PROVE h[i] <= t[i]
    <3>1. i \in 0 .. Size - 1 /\ i \in 0 .. Size /\ i + 1 \in 0 .. Size
      BY <1>1 DEF Index
    <3>2. x[i + 1] = y[i + 1]
      BY <1>4, <2>4, <3>1
    <3>3. x[i] <= y[i]
      BY <2>3, <3>1 DEF S
    <3> QED
      BY <1>3, <3>1, <3>2, <3>3
  <2> QED
    BY <2>4 DEF MeetsTarget
<1>6. ASSUME MeetsTarget(h, t) PROVE x[0] <= y[0]
  <2> DEFINE S == {i \in 0 .. Size : x[i] < y[i] \/ (x[i] = y[i] /\ Above(i))}
  <2>1. Size \in S
    BY <1>1, <1>2
  <2>2. ASSUME NEW i \in 0 .. Size - 1, i + 1 \in S PROVE i \in S
    <3>1. i \in Index /\ i \in 0 .. Size /\ x[i] \in Nat /\ y[i] \in Nat
      BY <1>1, <1>2
    <3>2. CASE x[i + 1] < y[i + 1]
      BY <1>3, <3>1, <3>2
    <3>3. CASE x[i + 1] = y[i + 1] /\ Above(i + 1)
      <4>1. h[i] <= t[i] /\ h[i] \in Int /\ t[i] \in Int
        BY <1>2, <1>6, <3>1, <3>3 DEF MeetsTarget
      <4>2. CASE h[i] = t[i]
        <5>1. Above(i)
          <6>1. \A j \in i .. Size - 1 : j = i \/ j \in i + 1 .. Size - 1
            BY <1>1
          <6> QED
            BY <3>3, <4>2, <6>1
        <5>2. x[i] = y[i]
          BY <1>4, <3>1, <5>1
        <5> QED
          BY <3>1, <5>1, <5>2
      <4>3. CASE h[i] # t[i]
        <5>1. x[i] <= y[i] /\ ~ (y[i] <= x[i])
          BY <1>3, <3>3, <4>1, <4>3
        <5> QED
          BY <3>1, <5>1
      <4> QED
        BY <4>2, <4>3
    <3> QED
      BY <2>2, <3>2, <3>3
  <2> HIDE DEF S
  <2>3. \A i \in 0 .. Size : i \in S
    BY <1>1, <2>1, <2>2, EveryTurnDown
  <2>4. x[0] \in Nat /\ y[0] \in Nat /\ (x[0] < y[0] \/ x[0] = y[0])
    BY <1>1, <1>2, <2>3 DEF S
  <2> QED
    BY <2>4
<1> QED
  BY <1>5, <1>6

LEMMA RemainderIs ==
    ASSUME NEW v \in Nat, NEW b \in Nat \ {0}
    PROVE  /\ v % b \in 0 .. b - 1 /\ v = b * (v \div b) + (v % b)
           /\ \A u \in Nat : v = u * b => v % b = 0
<1>1. v % b \in 0 .. b - 1 /\ v = b * (v \div b) + (v % b)
  OBVIOUS
<1>2. ASSUME NEW u \in Nat, v = u * b PROVE v % b = 0
  <2>1. IsQuotient(u, v, b)
    BY <1>2 DEF IsQuotient
  <2>2. u = v \div b
    BY <2>1, QuotientIs
  <2>3. v = b * u + (v % b) /\ v % b \in Nat
    BY <1>1, <2>2
  <2> DEFINE r == v % b
  <2>4. b * u + r = b * u /\ r \in Nat /\ b * u \in Nat
    BY <1>2, <2>3
  <2> HIDE DEF r
  <2>5. r = 0
    BY <2>4
  <2> QED
    BY <2>5 DEF r
<1> QED
  BY <1>1, <1>2

IsNumber(a) == a \in Nat /\ a < Power(Base, Size)

LEMMA BaseIs ==
    /\ Base \in Nat \ {0} /\ Base >= 2 /\ Size \in Nat /\ Size >= 6
    /\ Power(Base, 0) = 1
    /\ \A i \in Nat : Power(Base, i) \in Nat \ {0} /\ Power(Base, i + 1) = Base * Power(Base, i)
<1>1. Base \in Nat \ {0} /\ Base >= 2
  BY BaseAssumption
<1>2. Power(Base, 0) = 1 /\ \A i \in Nat : IsPower(Base, i)
  BY <1>1, Powers
<1> QED
  BY <1>1, <1>2, SizeAssumption DEF IsPower

LEMMA BasePowerOfSum ==
    ASSUME NEW m \in Nat, NEW n \in Nat
    PROVE  Power(Base, m + n) = Power(Base, m) * Power(Base, n)
<1> QED
  BY BaseIs, PowerOfSum DEF IsPowerOfSum

LEMMA DigitsExpand ==
    ASSUME NEW a, IsNumber(a)
    PROVE  Expands([i \in 0 .. Size |-> a \div Power(Base, i)], DigitsOf(a))
<1> DEFINE x == [i \in 0 .. Size |-> a \div Power(Base, i)]
           h == DigitsOf(a)
<1>1. a \in Nat /\ a < Power(Base, Size)
  BY DEF IsNumber
<1>2. x[Size] = 0
  <2> DEFINE p == Power(Base, Size)
  <2>1. p \in Nat \ {0} /\ x[Size] = a \div p
    BY BaseIs
  <2>2. a < p
    BY <1>1
  <2> HIDE DEF p
  <2>3. IsQuotient(0, a, p)
    BY <1>1, <2>1, <2>2 DEF IsQuotient
  <2>4. 0 = a \div p
    BY <1>1, <2>1, <2>3, QuotientIs
  <2> QED
    BY <2>1, <2>4
<1>3. \A i \in 0 .. Size : x[i] \in Nat
  <2> SUFFICES ASSUME NEW i \in 0 .. Size PROVE x[i] \in Nat
    OBVIOUS
  <2> DEFINE p == Power(Base, i)
  <2>1. p \in Nat \ {0} /\ x[i] = a \div p
    BY BaseIs
  <2> HIDE DEF p
  <2>2. a \div p \in Nat
    BY <1>1, <2>1, QuotientIs DEF IsQuotient
  <2> QED
    BY <2>1, <2>2
<1>4. ASSUME NEW i \in Index PROVE h[i] \in 0 .. Base - 1 /\ x[i] = Base * x[i + 1] + h[i]
  <2> DEFINE p == Power(Base, i)
             q == a \div p
             next == Base * p
  <2>1. i \in Nat /\ i \in 0 .. Size /\ i + 1 \in 0 .. Size
    BY BaseIs DEF Index
  <2>2. p \in Nat \ {0} /\ next = Power(Base, i + 1)
    BY <2>1, BaseIs
  <2>3. x[i] = q /\ x[i + 1] = a \div next /\ h[i] = q % Base
    BY <2>1, <2>2 DEF DigitsOf
  <2>4. q \div Base = a \div next
    <3> DEFINE c == Base
    <3>1. c \in Nat \ {0}
      BY BaseIs
    <3> HIDE DEF p, c
    <3>2. (a \div p) \div c = a \div (c * p)
      BY <1>1, <2>2, <3>1, QuotientOfQuotient
    <3> QED
      BY <3>2 DEF c
  <2>5. q \in Nat
    BY <1>3, <2>1, <2>3
  <2> HIDE DEF q
  <2>6. q % Base \in 0 .. Base - 1 /\ q = Base * (q \div Base) + (q % Base)
    BY <2>5, BaseIs
  <2> QED
    BY <2>3, <2>4, <2>6
<1> HIDE DEF x, h
<1>5. Expands(x, h)
  BY <1>2, <1>3, <1>4 DEF Expands
<1> QED
  BY <1>5 DEF x, h

\* A hash meets a target if and only if it is at most as large.
LEMMA DigitsMeet ==
    ASSUME NEW a, IsNumber(a), NEW b, IsNumber(b)
    PROVE  MeetsTarget(DigitsOf(a), DigitsOf(b)) <=> a <= b
<1> DEFINE x == [i \in 0 .. Size |-> a \div Power(Base, i)]
           y == [i \in 0 .. Size |-> b \div Power(Base, i)]
<1>1. Expands(x, DigitsOf(a)) /\ Expands(y, DigitsOf(b))
  BY DigitsExpand
<1>2. x[0] = a /\ y[0] = b
  <2>1. a \div 1 = a /\ b \div 1 = b
    BY DEF IsNumber
  <2> QED
    BY <2>1, BaseIs
<1> HIDE DEF x, y
<1>3. MeetsTarget(DigitsOf(a), DigitsOf(b)) <=> x[0] <= y[0]
  BY <1>1, MeetsAsNumbers
<1> QED
  BY <1>2, <1>3

-----------------------------------------------------------------------------
(* The network target. *)

LEMMA PowersGrow ==
    ASSUME NEW m \in Nat, NEW n \in Nat, m <= n
    PROVE  Power(Base, m) <= Power(Base, n)
<1> DEFINE k == n - m
           p == Power(Base, m)
           q == Power(Base, k)
<1>1. k \in Nat /\ n = m + k
  OBVIOUS
<1> HIDE DEF k
<1>2. p \in Nat /\ q \in Nat /\ 1 <= q
  BY <1>1, BaseIs
<1>3. Power(Base, m + k) = p * q
  BY <1>1, BasePowerOfSum
<1> HIDE DEF p, q
<1>4. p <= p * q
  <2>1. 1 * p <= q * p
    BY <1>2, ProductGrows
  <2> QED
    BY <1>2, <2>1
<1> QED
  BY <1>1, <1>3, <1>4 DEF p

\* Three bytes put in their place are the digits of the shifted number.
LEMMA PlacedIs ==
    ASSUME NEW m \in Nat, m < Power(Base, 3), NEW o \in Nat, o + 3 <= Size
    PROVE  IsNumber(m * Power(Base, o)) /\ PlacedAt(m, o) = DigitsOf(m * Power(Base, o))
<1> DEFINE b == Power(Base, o)
           n == m * b
<1>1. b \in Nat \ {0} /\ n \in Nat
  BY BaseIs
<1>2. n < Power(Base, Size)
  <2>1. Power(Base, o + 3) = b * Power(Base, 3)
    BY BasePowerOfSum
  <2>2. Power(Base, o + 3) <= Power(Base, Size)
    BY BaseIs, PowersGrow
  <2> DEFINE c == Power(Base, 3)
             d == Power(Base, Size)
  <2>3. c \in Nat /\ d \in Nat /\ m + 1 <= c
    BY BaseIs
  <2> HIDE DEF b, c, d
  <2>4. (m + 1) * b <= c * b
    BY <1>1, <2>3, ProductGrows
  <2>5. (m + 1) * b = n + b /\ c * b = b * c
    BY <1>1, <2>3
  <2>6. b * c <= d /\ b * c \in Nat
    BY <1>1, <2>1, <2>2, <2>3 DEF c, d
  <2>7. n < d
    BY <1>1, <2>3, <2>4, <2>5, <2>6
  <2> QED
    BY <2>7 DEF d
<1>3. ASSUME NEW i \in Index
      PROVE  (n \div Power(Base, i)) % Base
                = IF i \in o .. o + 2 THEN (m \div Power(Base, i - o)) % Base ELSE 0
  <2>1. i \in Nat
    BY DEF Index
  <2>2. CASE i < o
    <3> DEFINE j == (o - i) - 1
               p == Power(Base, i)
               q == Power(Base, j)
    <3>1. j \in Nat /\ o = i + (j + 1) /\ j + 1 \in Nat
      BY <2>1, <2>2
    <3> HIDE DEF j
    <3>2. p \in Nat \ {0} /\ q \in Nat /\ Power(Base, j + 1) = Base * q
      BY <2>1, <3>1, BaseIs
    <3>3. Power(Base, i + (j + 1)) = p * Power(Base, j + 1)
      BY <2>1, <3>1, BasePowerOfSum
    <3>4. b = p * (Base * q)
      BY <3>1, <3>2, <3>3
    <3> HIDE DEF p, q, b
    <3> DEFINE u == m * q
    <3>5. u \in Nat /\ n = (Base * u) * p
      BY <3>2, <3>4, BaseIs
    <3> HIDE DEF u, n
    <3>6. n \div p = Base * u
      <4> DEFINE v == Base * u
      <4>1. v \in Nat /\ n = v * p
        BY <3>5, BaseIs
      <4> HIDE DEF v
      <4>2. IsQuotient(v, n, p)
        BY <1>1, <3>2, <4>1 DEF IsQuotient
      <4>3. v = n \div p
        BY <1>1, <3>2, <4>2, QuotientIs
      <4> QED
        BY <4>3 DEF v
    <3>7. (Base * u) % Base = 0
      <4> DEFINE v == Base * u
      <4>1. v \in Nat /\ v = u * Base
        BY <3>5, BaseIs
      <4> HIDE DEF v
      <4>2. v % Base = 0
        BY <3>5, <4>1, BaseIs, RemainderIs
      <4> QED
        BY <4>2 DEF v
    <3> QED
      BY <2>1, <2>2, <3>6, <3>7 DEF p
  <2>3. CASE o <= i
    <3> DEFINE j == i - o
               q == Power(Base, j)
    <3>1. j \in Nat /\ i = o + j
      BY <2>1, <2>3
    <3> HIDE DEF j
    <3>2. q \in Nat \ {0} /\ Power(Base, o + j) = b * q
      <4>1. q \in Nat \ {0}
        BY <3>1, BaseIs
      <4>2. Power(Base, o + j) = b * q
        BY <3>1, BasePowerOfSum
      <4> QED
        BY <4>1, <4>2
    <3>3. n \div Power(Base, i) = m \div q
      <4> HIDE DEF b, q
      <4>1. (m * b) \div (q * b) = m \div q
        BY <1>1, <3>2, QuotientsOfNumbers
      <4>2. q * b = b * q
        BY <1>1, <3>2
      <4> QED
        BY <3>1, <3>2, <4>1, <4>2
    <3>4. CASE i \in o .. o + 2
      BY <3>3, <3>4 DEF j
    <3>5. CASE i \notin o .. o + 2
      <4>1. 3 <= j
        BY <2>1, <2>3, <3>1, <3>5
      <4>2. Power(Base, 3) <= q
        BY <3>1, <4>1, PowersGrow
      <4>3. Power(Base, 3) \in Nat
        BY BaseIs
      <4> HIDE DEF q
      <4>4. m < q
        BY <3>2, <4>2, <4>3
      <4>5. IsQuotient(0, m, q)
        BY <3>2, <4>4 DEF IsQuotient
      <4>6. 0 = m \div q
        BY <3>2, <4>5, QuotientIs
      <4>7. 0 % Base = 0
        BY BaseIs
      <4> QED
        BY <3>3, <3>5, <4>6, <4>7
    <3> QED
      BY <3>4, <3>5
  <2> QED
    BY <2>1, <2>2, <2>3
<1>4. PlacedAt(m, o) = DigitsOf(n)
  <2> HIDE DEF n
  <2> QED
    BY <1>3 DEF PlacedAt, DigitsOf
<1> QED
  BY <1>1, <1>2, <1>4 DEF IsNumber

\* The number a mantissa and an exponent stand for, and its digits.
Stands(target, t, mantissa, e) ==
    /\ IsNumber(t) /\ target = DigitsOf(t)
    /\ \A n \in Nat : n <= t <=> n * Power(Base, 3) <= mantissa * Power(Base, e)

LEMMA ZeroStands ==
    ASSUME NEW e \in Nat
    PROVE  Stands(Zero, 0, 0, e)
<1>1. IsNumber(0) /\ 0 * Power(Base, e) = 0 /\ Power(Base, 3) \in Nat \ {0}
  BY BaseIs DEF IsNumber
<1>2. Zero = DigitsOf(0)
  <2>1. ASSUME NEW i \in Index PROVE (0 \div Power(Base, i)) % Base = 0
    <3> DEFINE p == Power(Base, i)
    <3>1. p \in Nat \ {0}
      BY BaseIs DEF Index
    <3> HIDE DEF p
    <3>2. IsQuotient(0, 0, p)
      BY <3>1 DEF IsQuotient
    <3>3. 0 = 0 \div p
      BY <3>1, <3>2, QuotientIs
    <3>4. 0 % Base = 0
      BY BaseIs
    <3> QED
      BY <3>3, <3>4 DEF p
  <2> QED
    BY <2>1 DEF Zero, DigitsOf
<1>3. ASSUME NEW n \in Nat PROVE n <= 0 <=> n * Power(Base, 3) <= 0
  <2> DEFINE c == Power(Base, 3)
  <2>1. c \in Nat \ {0}
    BY <1>1
  <2> HIDE DEF c
  <2>2. n * c <= 0 * c <=> n <= 0
    BY <2>1, ProductGrows
  <2>3. 0 * c = 0
    BY <2>1
  <2> QED
    BY <2>2, <2>3 DEF c
<1> QED
  BY <1>1, <1>2, <1>3 DEF Stands

LEMMA UnpackedStands ==
    ASSUME NEW m \in Nat, m < Power(Base, 3), NEW e \in Nat, e <= Size
    PROVE  \E t : Stands(Unpacked(m, e), t, m, e)
<1> DEFINE cube == Power(Base, 3)
<1>1. cube \in Nat \ {0}
  BY BaseIs
<1>2. CASE e <= 3
  <2> DEFINE k == 3 - e
             p == Power(Base, k)
             q == Power(Base, e)
             t == m \div p
  <2>1. k \in Nat /\ e + k = 3
    BY <1>2
  <2> HIDE DEF k
  <2>2. p \in Nat \ {0} /\ q \in Nat \ {0} /\ Power(Base, e + k) = q * p
    <3>1. p \in Nat \ {0} /\ q \in Nat \ {0}
      BY <2>1, BaseIs
    <3>2. Power(Base, e + k) = q * p
      BY <2>1, BasePowerOfSum
    <3> QED
      BY <3>1, <3>2
  <2>3. cube = q * p
    BY <2>1, <2>2
  <2> HIDE DEF p, q, cube
  <2>4. t \in Nat /\ t <= m
    <3>1. IsQuotient(t, m, p)
      BY <2>2, QuotientIs
    <3> HIDE DEF t
    <3>2. t \in Nat /\ t * p <= m /\ t * 1 <= t * p
      BY <2>2, <3>1, ProductGrows DEF IsQuotient
    <3> QED
      BY <2>2, <3>2
  <2>5. \A n \in Nat : n <= t <=> n * p <= m
    BY <2>2, QuotientsOfNumbers
  <2>6. \A n \in Nat : n * p <= m <=> n * cube <= m * q
    <3> SUFFICES ASSUME NEW n \in Nat PROVE n * p <= m <=> n * cube <= m * q
      OBVIOUS
    <3> DEFINE r == n * p
    <3>1. r \in Nat /\ n * cube = r * q
      BY <2>2, <2>3
    <3> HIDE DEF r
    <3>2. r <= m <=> r * q <= m * q
      BY <2>2, <3>1, ProductGrows
    <3> QED
      BY <3>1, <3>2 DEF r
  <2> HIDE DEF t
  <2>7. t < Power(Base, 3)
    BY <1>1, <2>4 DEF cube
  <2> DEFINE o == 0
  <2>8. o \in Nat /\ o + 3 <= Size
    BY BaseIs
  <2> HIDE DEF o
  <2>9. IsNumber(t * Power(Base, o)) /\ PlacedAt(t, o) = DigitsOf(t * Power(Base, o))
    BY <2>4, <2>7, <2>8, PlacedIs
  <2>10. t * Power(Base, o) = t
    BY <2>4, BaseIs DEF o
  <2>11. Unpacked(m, e) = PlacedAt(t, o)
    BY <1>2 DEF Unpacked, t, p, k, o
  <2>12. Stands(Unpacked(m, e), t, m, e)
    BY <2>5, <2>6, <2>9, <2>10, <2>11 DEF Stands, cube, q
  <2> QED
    BY <2>12
<1>3. CASE ~ (e <= 3)
  <2> DEFINE o == e - 3
             p == Power(Base, o)
             t == m * p
  <2>1. o \in Nat /\ o + 3 = e /\ o + 3 <= Size
    BY <1>3
  <2> HIDE DEF o
  <2>2. IsNumber(t) /\ PlacedAt(m, o) = DigitsOf(t)
    BY <2>1, PlacedIs
  <2>3. p \in Nat /\ t \in Nat /\ Power(Base, e) = p * cube
    <3>1. Power(Base, o + 3) = p * cube
      BY <2>1, BasePowerOfSum
    <3>2. p \in Nat
      BY <2>1, BaseIs
    <3> QED
      BY <2>1, <3>1, <3>2
  <2> HIDE DEF p, cube
  <2>4. m * Power(Base, e) = t * cube
    BY <1>1, <2>3
  <2>5. ASSUME NEW n \in Nat PROVE n <= t <=> n * cube <= t * cube
    <3> HIDE DEF t
    <3> QED
      BY <1>1, <2>3, ProductGrows
  <2>6. Unpacked(m, e) = PlacedAt(m, o)
    BY <1>3 DEF Unpacked, o
  <2> HIDE DEF t
  <2>7. Stands(Unpacked(m, e), t, m, e)
    BY <2>2, <2>4, <2>5, <2>6 DEF Stands, cube
  <2> QED
    BY <2>7
<1> QED
  BY <1>2, <1>3

LEMMA HalfMantissaIs ==
    HalfMantissa \in Nat \ {0} /\ 2 * HalfMantissa <= Power(Base, 3)
<1> DEFINE cube == Power(Base, 3)
<1>1. Power(Base, 1) = Base * Power(Base, 0) /\ Power(Base, 2) = Base * Power(Base, 1)
      /\ Power(Base, 3) = Base * Power(Base, 2)
  <2>1. 0 + 1 = 1 /\ 1 + 1 = 2 /\ 2 + 1 = 3
    OBVIOUS
  <2> QED
    BY <2>1, BaseIs
<1>2. Power(Base, 0) = 1 /\ Base \in Nat /\ Base >= 2
  BY BaseIs
<1>3. cube \in Nat /\ cube >= 2
  <2>1. Power(Base, 1) = Base
    BY <1>1, <1>2
  <2>2. Power(Base, 2) \in Nat /\ Power(Base, 2) >= 1 /\ cube = Power(Base, 2) * Base
    BY <1>1, <1>2, BaseIs
  <2>3. 1 * Base <= Power(Base, 2) * Base
    BY <1>2, <2>2, ProductGrows
  <2> QED
    BY <1>2, <2>2, <2>3, BaseIs
<1> HIDE DEF cube
<1>4. HalfMantissa = cube \div 2
  BY DEF HalfMantissa, cube
<1>5. HalfMantissa \in Nat \ {0} /\ 2 * HalfMantissa <= cube
  BY <1>3, <1>4
<1> QED
  BY <1>5 DEF cube

\* What bits_to_target returns.
IsCompact(r, e, low) ==
    /\ r.ok <=> low < HalfMantissa /\ (low = 0 \/ e <= Size)
    /\ ~ r.ok => r.target = Zero
    /\ r.ok => \E t : Stands(r.target, t, low, e)

LEMMA CompactIs ==
    ASSUME NEW e \in Nat, NEW low \in 0 .. Power(Base, 3) - 1
    PROVE  IsCompact(BitsToTarget(e, low), e, low)
<1> DEFINE r == BitsToTarget(e, low)
           half == HalfMantissa
           m == low % half
           fits == e <= Size /\ (e - 3) + 2 < Size
           ok == ~ (low >= half) /\ (m = 0 \/ e <= 3 \/ fits)
<1>1. r = [ok |-> ok, target |-> IF ok /\ m # 0 THEN Unpacked(m, e) ELSE Zero]
  BY DEF BitsToTarget
<1>2. /\ half \in Nat \ {0} /\ low \in Nat /\ low < Power(Base, 3)
      /\ Size \in Nat /\ Size >= 6
  BY HalfMantissaIs, BaseIs
<1>3. low < half => m = low
  <2> HIDE DEF half
  <2>1. low < half => low % half = low
    <3>1. SUFFICES ASSUME low < half PROVE low % half = low
      OBVIOUS
    <3>2. IsQuotient(0, low, half)
      BY <1>2, <3>1 DEF IsQuotient
    <3>3. 0 = low \div half
      BY <1>2, <3>2, QuotientIs
    <3>4. low = half * 0 + (low % half) /\ low % half \in Nat
      BY <1>2, <3>3, RemainderIs
    <3> QED
      BY <1>2, <3>4
  <2> QED
    BY <2>1
<1> HIDE DEF half, m
<1>4. ok <=> low < half /\ (low = 0 \/ e <= Size)
  <2>1. CASE low < half
    BY <1>2, <1>3, <2>1
  <2>2. CASE ~ (low < half)
    BY <1>2, <2>2
  <2> QED
    BY <2>1, <2>2
<1> HIDE DEF r, ok
<1>5. (r.ok <=> ok) /\ (~ ok => r.target = Zero)
      /\ (ok => r.target = IF m # 0 THEN Unpacked(m, e) ELSE Zero)
  BY <1>1
<1>6. ASSUME ok PROVE \E t : Stands(r.target, t, low, e)
  <2>1. m = low /\ (low = 0 \/ e <= Size)
    BY <1>3, <1>4, <1>6
  <2>2. CASE low = 0
    <3>1. r.target = Zero
      BY <1>5, <1>6, <2>1, <2>2
    <3> QED
      BY <2>2, <3>1, ZeroStands
  <2>3. CASE low # 0
    <3>1. r.target = Unpacked(low, e)
      BY <1>5, <1>6, <2>1, <2>3
    <3> QED
      BY <1>2, <2>1, <2>3, <3>1, UnpackedStands
  <2> QED
    BY <2>2, <2>3
<1>7. IsCompact(r, e, low)
  <2>1. r.ok => \E t : Stands(r.target, t, low, e)
    BY <1>5, <1>6
  <2> QED
    BY <1>4, <1>5, <2>1 DEF IsCompact, half
<1> QED
  BY <1>7 DEF r

\* Both conversions return what their definitions say.
TargetsReturn ==
    /\ call.fn = "bits_to_target" =>
           /\ call.arg \in CompactTargets
           /\ result = BitsToTarget(call.arg.exponent, call.arg.low)
    /\ call.fn = "difficulty_to_target" =>
           /\ call.arg \in Difficulties
           /\ result = DifficultyToTarget(call.arg.num, call.arg.den, OldTarget)

LEMMA TargetsReturned == Spec => []TargetsReturn
<1>1. Init => TargetsReturn
  BY DEF Init, Idle, TargetsReturn
<1>2. TargetsReturn /\ [Next]_vars => TargetsReturn'
  <2> SUFFICES ASSUME TargetsReturn, [Next]_vars PROVE TargetsReturn'
    OBVIOUS
  <2>1. CASE CallBitsToTarget
    <3>1. PICK c \in CompactTargets :
              Returns("bits_to_target", c, BitsToTarget(c.exponent, c.low))
      BY <2>1 DEF CallBitsToTarget
    <3> QED
      BY <3>1 DEF Returns, TargetsReturn
  <2>2. CASE CallDifficultyToTarget
    <3>1. PICK d \in Difficulties :
              Returns("difficulty_to_target", d, DifficultyToTarget(d.num, d.den, OldTarget))
      BY <2>2 DEF CallDifficultyToTarget
    <3> QED
      BY <3>1 DEF Returns, TargetsReturn
  <2>3. CASE CallSha256
    <3>1. call'.fn = "sha256_ref"
      BY <2>3 DEF CallSha256, Returns
    <3> QED
      BY <3>1 DEF TargetsReturn
  <2>4. CASE CallBuild
    <3>1. call'.fn = "build"
      BY <2>4 DEF CallBuild, Returns
    <3> QED
      BY <3>1 DEF TargetsReturn
  <2>5. CASE CallGrind
    <3>1. call'.fn = "grind"
      BY <2>5 DEF CallGrind, Returns
    <3> QED
      BY <3>1 DEF TargetsReturn
  <2>6. CASE Return
    BY <2>6 DEF Return, Idle, TargetsReturn
  <2>7. CASE UNCHANGED vars
    BY <2>7 DEF vars, TargetsReturn
  <2> QED
    BY <2>1, <2>2, <2>3, <2>4, <2>5, <2>6, <2>7 DEF Next
<1> QED
  BY <1>1, <1>2, PTL DEF Spec

\* bits_to_target: every compact target that is not negative and fits is
\* accepted, the others are refused, and the hashes that meet the target are those
\* up to the number it stands for, whatever the base and the size.
THEOREM NetworkTargetIsExact == Spec => []NetworkTargetExact
<1>1. TargetsReturn => NetworkTargetExact
  <2> SUFFICES ASSUME TargetsReturn, call.fn = "bits_to_target"
               PROVE  NetworkTargetExact
    BY DEF NetworkTargetExact
  <2> DEFINE e == call.arg.exponent
             m == call.arg.low
             Same(n) == MeetsTarget(DigitsOf(n), result.target)
                           <=> n * Power(Base, 3) <= m * Power(Base, e)
  <2>1. e \in Nat /\ m \in 0 .. Power(Base, 3) - 1 /\ result = BitsToTarget(e, m)
    BY CompactAssumption DEF TargetsReturn
  <2> HIDE DEF e, m
  <2>2. IsCompact(result, e, m)
    BY <2>1, CompactIs
  <2>3. /\ result.ok <=> m < HalfMantissa /\ (m = 0 \/ e <= Size)
        /\ ~ result.ok => result.target = Zero
    BY <2>2 DEF IsCompact
  <2>4. ASSUME result.ok, NEW q, NEW n \in Near(q) PROVE Same(n)
    <3>1. PICK t : Stands(result.target, t, m, e)
      BY <2>2, <2>4 DEF IsCompact
    <3>2. n \in Nat /\ IsNumber(n)
      <4>1. n \in 0 .. Power(Base, Size) - 1 /\ Power(Base, Size) \in Nat
        BY <2>4, BaseIs DEF Near
      <4> QED
        BY <4>1 DEF IsNumber
    <3>3. /\ IsNumber(t) /\ result.target = DigitsOf(t)
          /\ n <= t <=> n * Power(Base, 3) <= m * Power(Base, e)
      BY <3>1, <3>2 DEF Stands
    <3>4. MeetsTarget(DigitsOf(n), DigitsOf(t)) <=> n <= t
      BY <3>2, <3>3, DigitsMeet
    <3> QED
      BY <3>3, <3>4
  <2>5. result.ok => \A n \in Near((m * Power(Base, e)) \div Power(Base, 3)) : Same(n)
    BY <2>4
  <2> HIDE DEF Same
  <2> QED
    BY <2>3, <2>5 DEF NetworkTargetExact, Same, e, m
<1> QED
  BY <1>1, TargetsReturned, PTL

-----------------------------------------------------------------------------
(* The share target: the quotient. *)

UlpIs == Ulp \in Nat \ {0} /\ Ulp >= 1

LEMMA UlpIsPositive == UlpIs
<1> DEFINE b == 2
<1>1. b \in Nat \ {0}
  OBVIOUS
<1>2. Ulp = Power(b, Precision)
  BY DEF Ulp
<1> HIDE DEF b
<1>3. Ulp \in Nat \ {0}
  BY <1>1, <1>2, PrecisionAssumption, Powers DEF IsPower
<1> QED
  BY <1>3 DEF UlpIs

Doubles(f, p, n, d) == f[p] = IF n < d * p THEN p ELSE f[2*p]
Doubling(f, n, d) == f = [p \in 1 .. 2*n + 1 |-> IF n < d * p THEN p ELSE f[2*p]]

\* Doubling ends: once p exceeds n there is nothing left to double.
LEMMA DoublingStops ==
    ASSUME NEW n \in Nat, NEW d \in Nat \ {0}, NEW p \in Nat \ {0}
    PROVE  d * p \in Nat /\ (~ (n < d * p) => 2*p \in 1 .. 2*n + 1 /\ p < 2*p)
<1>1. d * p \in Nat
  OBVIOUS
<1>2. 1 * p <= d * p
  BY ProductGrows
<1>3. ~ (n < d * p) => p <= n
  BY <1>1, <1>2
<1> QED
  BY <1>1, <1>3

LEMMA DoublingExists ==
    ASSUME NEW n \in Nat, NEW d \in Nat \ {0}
    PROVE  \E f : Doubling(f, n, d)
<1> DEFINE M == 2*n + 1
           S == {i \in 0 .. M : \E f : \A p \in i + 1 .. M : Doubles(f, p, n, d)}
<1>1. M \in Nat /\ M = 2*n + 1
  OBVIOUS
<1> HIDE DEF M
<1>2. M \in S
  <2>1. M + 1 .. M = {}
    BY <1>1
  <2> QED
    BY <1>1, <2>1
<1>3. ASSUME NEW i \in 0 .. M - 1, i + 1 \in S PROVE i \in S
  <2> DEFINE q == i + 1
  <2>1. q \in 1 .. M /\ q \in Nat \ {0} /\ i \in 0 .. M
    BY <1>1
  <2>2. PICK f : \A p \in q + 1 .. M : Doubles(f, p, n, d)
    BY <1>3
  <2> DEFINE first == IF n < d * q THEN q ELSE f[2*q]
             g == [p \in 1 .. M |-> IF p = q THEN first ELSE f[p]]
  <2>3. g[q] = first /\ \A p \in 1 .. M : p # q => g[p] = f[p]
    <3> HIDE DEF first, q
    <3> QED
      BY <2>1
  <2> HIDE DEF g
  <2>4. ASSUME NEW p \in q .. M PROVE Doubles(g, p, n, d)
    <3>1. p \in Nat \ {0} /\ p \in 1 .. M /\ q <= p
      BY <1>1, <2>1
    <3>2. ~ (n < d * p) => 2*p \in 1 .. M /\ 2*p # q
      <4>1. ~ (n < d * p) => 2*p \in 1 .. M /\ p < 2*p
        BY <1>1, <3>1, DoublingStops
      <4> QED
        BY <2>1, <3>1, <4>1
    <3>3. ~ (n < d * p) => g[2*p] = f[2*p]
      BY <2>3, <3>2
    <3>4. CASE p = q
      BY <2>3, <3>3, <3>4 DEF Doubles
    <3>5. CASE p # q
      <4>1. p \in q + 1 .. M
        BY <2>1, <3>1, <3>5
      <4>2. g[p] = f[p] /\ f[p] = IF n < d * p THEN p ELSE f[2*p]
        BY <2>2, <2>3, <3>1, <3>5, <4>1 DEF Doubles
      <4> QED
        BY <3>3, <4>2 DEF Doubles
    <3> QED
      BY <3>4, <3>5
  <2> QED
    BY <2>1, <2>4
<1> HIDE DEF S
<1>4. \A i \in 0 .. M : i \in S
  BY <1>1, <1>2, <1>3, EveryTurnDown
<1>5. PICK f : \A p \in 1 .. M : Doubles(f, p, n, d)
  <2>1. 0 \in S
    BY <1>1, <1>4
  <2>2. 0 + 1 = 1
    OBVIOUS
  <2> QED
    BY <2>1, <2>2 DEF S
<1> DEFINE g == [p \in 1 .. M |-> f[p]]
<1>6. ASSUME NEW p \in 1 .. M PROVE g[p] = IF n < d * p THEN p ELSE g[2*p]
  <2>1. ~ (n < d * p) => 2*p \in 1 .. M
    BY <1>1, DoublingStops
  <2> QED
    BY <1>5, <2>1 DEF Doubles
<1>7. g = [p \in 1 .. M |-> g[p]]
  OBVIOUS
<1> HIDE DEF g
<1>8. g = [p \in 1 .. M |-> IF n < d * p THEN p ELSE g[2*p]]
  BY <1>6, <1>7
<1> QED
  BY <1>1, <1>8 DEF Doubling

\* The power of two the quotient is a multiple of.
Unit(n, d) == (CHOOSE f : Doubling(f, n, d))[1]
IsUnit(g, n, d) ==
    /\ g \in Nat \ {0} /\ d * g \in Nat \ {0} /\ n < d * g
    /\ d * g <= 2*n \/ g = 1

LEMMA UnitIs ==
    ASSUME NEW n \in Nat, NEW d \in Nat \ {0}
    PROVE  IsUnit(Unit(n, d), n, d)
<1> DEFINE f == CHOOSE f : Doubling(f, n, d)
           M == 2*n + 1
           Good(p) == /\ f[p] \in Nat \ {0} /\ d * f[p] \in Nat /\ n < d * f[p]
                      /\ d * f[p] <= 2*n \/ f[p] = p
<1>1. M \in Nat \ {0} /\ M = 2*n + 1
  OBVIOUS
<1>2. Doubling(f, n, d)
  BY DoublingExists
<1> HIDE DEF f
<1>3. \A p \in 1 .. M : f[p] = IF n < d * p THEN p ELSE f[2*p]
  BY <1>2 DEF Doubling
<1> HIDE DEF M
<1>4. ASSUME NEW p \in 1 .. M, \A q \in p + 1 .. M : Good(q) PROVE Good(p)
  <2>1. p \in Nat \ {0} /\ d * p \in Nat /\ (~ (n < d * p) => 2*p \in 1 .. M /\ p < 2*p)
    BY <1>1, DoublingStops
  <2>2. CASE n < d * p
    BY <1>3, <2>1, <2>2
  <2>3. CASE ~ (n < d * p)
    <3> DEFINE q == 2*p
    <3>1. q \in p + 1 .. M /\ f[p] = f[q]
      BY <1>1, <1>3, <2>1, <2>3
    <3>2. Good(q)
      BY <1>4, <3>1
    <3>3. d * q = 2 * (d * p)
      BY <2>1
    <3>4. d * q <= 2*n
      <4> DEFINE x == d * p
      <4>1. x \in Nat /\ x <= n
        BY <2>1, <2>3
      <4> HIDE DEF x
      <4>2. 2 * x <= 2*n
        BY <4>1
      <4> QED
        BY <3>3, <4>2 DEF x
    <3> HIDE DEF q
    <3> QED
      BY <3>1, <3>2, <3>4
  <2> QED
    BY <2>2, <2>3
<1> HIDE DEF Good
<1> DEFINE S == {i \in 0 .. M : \A q \in i + 1 .. M : Good(q)}
<1>5. M \in S
  <2>1. M + 1 .. M = {}
    BY <1>1
  <2> QED
    BY <1>1, <2>1
<1>6. ASSUME NEW i \in 0 .. M - 1, i + 1 \in S PROVE i \in S
  <2>1. i + 1 \in 1 .. M /\ i \in 0 .. M /\ \A q \in i + 1 .. M : q = i + 1 \/ q \in (i + 1) + 1 .. M
    BY <1>1
  <2>2. \A q \in (i + 1) + 1 .. M : Good(q)
    BY <1>6
  <2>3. Good(i + 1)
    BY <1>4, <2>1, <2>2
  <2> QED
    BY <2>1, <2>2, <2>3
<1> HIDE DEF S
<1>7. \A i \in 0 .. M : i \in S
  BY <1>1, <1>5, <1>6, EveryTurnDown
<1>8. Good(1)
  <2>1. 0 \in S /\ 1 \in 0 + 1 .. M
    BY <1>1, <1>7
  <2> QED
    BY <2>1 DEF S
<1>9. IsUnit(f[1], n, d)
  <2>1. f[1] \in Nat \ {0} /\ d * f[1] \in Nat /\ n < d * f[1] /\ (d * f[1] <= 2*n \/ f[1] = 1)
    BY <1>8 DEF Good
  <2>2. d * f[1] # 0
    BY <2>1
  <2> QED
    BY <2>1, <2>2 DEF IsUnit
<1> QED
  BY <1>9 DEF Unit, f

\* The quotient is the nearest multiple of that power of two: it is off by half of
\* it at most, which beside n is a unit in the last place.
IsRounded(q, n, d, e) ==
    /\ q \in Nat /\ e \in Nat
    /\ 2 * (n * Ulp) < 2 * (d * q) + e
    /\ 2 * (d * q) <= 2 * (n * Ulp) + e
    /\ e <= 2*n \/ (e = d /\ n < d)

LEMMA QuotientRounds ==
    ASSUME NEW n \in Nat, NEW d \in Nat \ {0}
    PROVE  \E e : IsRounded(Quotient(n, d), n, d, e)
<1> DEFINE g == Unit(n, d)
           e == d * g
           a == n * Ulp
           r == Nearest(a, e)
           q == g * r
<1>1. Quotient(n, d) = q
  BY DEF Quotient, Unit, Doubling
<1>2. IsUnit(g, n, d)
  BY UnitIs
<1>3. /\ g \in Nat \ {0} /\ e \in Nat \ {0} /\ n < e
      /\ e <= 2*n \/ g = 1
  BY <1>2 DEF IsUnit
<1>4. a \in Nat
  BY UlpIsPositive DEF UlpIs
<1> HIDE DEF g, a
<1>5. e = d * g
  OBVIOUS
<1> HIDE DEF e
<1>6. r \in Nat /\ 2 * (e * r) <= 2*a + e /\ 2*a < 2 * (e * r) + e /\ e * r \in Nat
  <2> DEFINE x == 2*a + e
             y == 2*e
  <2>1. x \in Nat /\ y \in Nat \ {0}
    BY <1>3, <1>4
  <2>2. r = x \div y
    BY DEF Nearest
  <2> HIDE DEF x, y, r
  <2>3. r \in Nat /\ r * y \in Nat /\ r * y <= x /\ x < r * y + y
    BY <2>1, <2>2, QuotientIs DEF IsQuotient
  <2>4. r * y = 2 * (e * r) /\ e * r \in Nat
    BY <1>3, <2>3 DEF y
  <2> DEFINE z == e * r
  <2>5. 2 * z <= 2*a + e /\ 2*a + e < 2 * z + 2*e /\ z \in Nat
    BY <2>3, <2>4 DEF x, y
  <2> HIDE DEF z
  <2>6. 2*a < 2 * z + e
    BY <1>3, <1>4, <2>5
  <2> QED
    BY <2>3, <2>5, <2>6 DEF z
<1> HIDE DEF r
<1>7. d * q = e * r /\ q \in Nat
  BY <1>3, <1>5, <1>6
<1> HIDE DEF q
<1>8. e <= 2*n \/ (e = d /\ n < d)
  BY <1>3, <1>5
<1>9. IsRounded(q, n, d, e)
  BY <1>3, <1>6, <1>7, <1>8 DEF IsRounded, a
<1> QED
  BY <1>1, <1>9

\* A number at most the rounded quotient is at most the true one, one unit in the
\* last place more allowed, and a larger one is not below it by as much.
WithinAnUlp(m, q, n, d) ==
    /\ m * Ulp <= q => m * d * Ulp <= n * (Ulp + 1)
    /\ ~ (m * Ulp <= q) => m * d * Ulp > n * (Ulp - 1)

LEMMA RoundedIsWithinAnUlp ==
    ASSUME NEW n \in Nat, NEW d \in Nat \ {0}, NEW q, NEW e, IsRounded(q, n, d, e),
           NEW m \in Nat
    PROVE  WithinAnUlp(m, q, n, d)
<1> DEFINE a == n * Ulp
           b == d * q
           c == m * Ulp
           x == d * c
<1>1. /\ q \in Nat /\ e \in Nat /\ 2*a < 2*b + e /\ 2*b <= 2*a + e
      /\ e <= 2*n \/ (e = d /\ n < d)
  BY DEF IsRounded
<1>2. Ulp \in Nat \ {0} /\ a \in Nat /\ b \in Nat /\ c \in Nat
  BY <1>1, UlpIsPositive DEF UlpIs
<1>3. m * d * Ulp = x /\ n * (Ulp + 1) = a + n /\ n * (Ulp - 1) = a - n
  BY <1>2
<1>4. c <= q => x <= b
  <2>1. c <= q => c * d <= q * d
    BY <1>1, <1>2, ProductGrows
  <2>2. c * d = x /\ q * d = b
    BY <1>1, <1>2
  <2> QED
    BY <2>1, <2>2
<1>5. ~ (c <= q) => b + d <= x
  <2>1. q + 1 <= c => (q + 1) * d <= c * d
    BY <1>1, <1>2, ProductGrows
  <2>2. c * d = x /\ (q + 1) * d = b + d
    BY <1>1, <1>2
  <2> QED
    BY <1>1, <1>2, <2>1, <2>2
<1>6. x \in Nat
  BY <1>2
<1>7. m = 0 => x = 0
  BY <1>2
<1>8. 2*n < d => 2*a <= d * Ulp - Ulp
  <2>1. 2*n + 1 <= d => (2*n + 1) * Ulp <= d * Ulp
    BY <1>2, ProductGrows
  <2>2. (2*n + 1) * Ulp = 2*a + Ulp /\ d * Ulp \in Nat
    BY <1>2
  <2> QED
    BY <1>2, <2>1, <2>2
<1>9. m # 0 => d * Ulp <= x
  <2>1. m # 0 => 1 * (d * Ulp) <= m * (d * Ulp)
    BY <1>2, ProductGrows
  <2>2. m * (d * Ulp) = x /\ 1 * (d * Ulp) = d * Ulp
    BY <1>2
  <2> QED
    BY <2>1, <2>2
<1> DEFINE u == Ulp
           v == d * u
<1>10. u \in Nat \ {0} /\ v \in Nat /\ d <= v
  <2>1. 1 * d <= Ulp * d
    BY <1>2, ProductGrows
  <2> QED
    BY <1>2, <2>1
<1>11. (2*n < d => 2*a <= v - u) /\ (m # 0 => v <= x)
  BY <1>8, <1>9
<1> HIDE DEF a, b, c, x, u, v
<1>12. c <= q => x <= a + n
  <2> SUFFICES ASSUME c <= q PROVE x <= a + n
    OBVIOUS
  <2>1. x <= b
    BY <1>4
  <2>2. CASE e <= 2*n
    BY <1>1, <1>2, <1>6, <2>1, <2>2
  <2>3. CASE 2*n < e /\ e = d /\ m # 0
    \* 2v <= 2x <= 2a + d <= v - u + d, which is less than 2v.
    <3>1. 2*x <= 2*a + d /\ 2*a <= v - u /\ v <= x
      BY <1>1, <1>2, <1>6, <1>11, <2>1, <2>3
    <3> QED
      BY <1>2, <1>6, <1>10, <3>1
  <2>4. CASE m = 0
    BY <1>2, <1>7, <2>4
  <2> QED
    BY <1>1, <2>2, <2>3, <2>4
<1>13. ~ (c <= q) => x > a - n
  BY <1>1, <1>2, <1>5, <1>6
<1> QED
  BY <1>3, <1>12, <1>13 DEF WithinAnUlp, c

-----------------------------------------------------------------------------
(* The share target: its digits. *)

Taking(f, q) ==
    f = [i \in Index |-> IF i = Size - 1 THEN q
                         ELSE f[i + 1] - Digit(f[i + 1], i + 1) * Place(i + 1)]
TakenFrom(q) == CHOOSE f : Taking(f, q)
DigitsTaken(q) == [i \in Index |-> Digit(TakenFrom(q)[i], i)]

LEMMA TakingExists ==
    ASSUME NEW q
    PROVE  \E f : Taking(f, q)
<1> DEFINE N == Size - 1
<1>1. N \in Nat /\ N >= 5 /\ Size = N + 1 /\ Index = 0 .. N
  BY BaseIs DEF Index
<1> HIDE DEF N
<1>2. PICK r : Runs(r, "take", q, q, N)
  BY <1>1, LoopRuns
<1>3. \A i \in 0 .. N : r[i] = IF i = 0 THEN q
                               ELSE r[i - 1] - Digit(r[i - 1], Size - i) * Place(Size - i)
  BY <1>2 DEF Runs, Turn
<1> DEFINE f == [i \in Index |-> r[N - i]]
<1>4. \A i \in 0 .. N : f[i] = r[N - i]
  BY <1>1
<1>5. f = [i \in Index |-> f[i]]
  OBVIOUS
<1> HIDE DEF f
<1>6. ASSUME NEW i \in Index
      PROVE  f[i] = IF i = Size - 1 THEN q
                    ELSE f[i + 1] - Digit(f[i + 1], i + 1) * Place(i + 1)
  <2>1. i \in 0 .. N /\ N - i \in 0 .. N /\ f[i] = r[N - i]
    BY <1>1, <1>4
  <2>2. CASE i = Size - 1
    <3>1. N - i = 0
      BY <1>1, <2>2
    <3>2. r[0] = q
      BY <1>1, <1>3
    <3> QED
      BY <2>1, <2>2, <3>1, <3>2
  <2>3. CASE i # Size - 1
    <3> DEFINE j == N - i
               k == i + 1
    <3>1. j \in 0 .. N /\ j # 0 /\ Size - j = k /\ j - 1 = N - k /\ k \in 0 .. N
      BY <1>1, <2>1, <2>3
    <3> HIDE DEF j, k
    <3>2. r[j] = r[j - 1] - Digit(r[j - 1], Size - j) * Place(Size - j)
      BY <1>3, <3>1
    <3>3. f[k] = r[j - 1]
      BY <1>4, <3>1
    <3>4. f[i] = f[k] - Digit(f[k], k) * Place(k)
      BY <2>1, <3>1, <3>2, <3>3 DEF j
    <3> QED
      BY <2>3, <3>4 DEF k
  <2> QED
    BY <2>2, <2>3
<1>7. Taking(f, q)
  BY <1>5, <1>6 DEF Taking
<1> QED
  BY <1>7

\* What is left at a digit, by what is left at the next higher one.
LEMMA TakenIs ==
    ASSUME NEW q
    PROVE  /\ TakenFrom(q)[Size - 1] = q
           /\ \A i \in 0 .. Size - 2 :
                  TakenFrom(q)[i] = TakenFrom(q)[i + 1]
                                       - Digit(TakenFrom(q)[i + 1], i + 1) * Place(i + 1)
<1> DEFINE f == TakenFrom(q)
<1>1. Taking(f, q)
  BY TakingExists DEF TakenFrom
<1> HIDE DEF f
<1>2. Size - 1 \in Index /\ \A i \in 0 .. Size - 2 : i \in Index /\ i # Size - 1
  BY BaseIs DEF Index
<1>3. /\ f[Size - 1] = q
      /\ \A i \in 0 .. Size - 2 : f[i] = f[i + 1] - Digit(f[i + 1], i + 1) * Place(i + 1)
  BY <1>1, <1>2 DEF Taking
<1> QED
  BY <1>3 DEF f

PlacesGrow(i) ==
    /\ Place(i) \in Nat \ {0}
    /\ Place(i + 1) = Base * Place(i)
    /\ Place(i) = Power(Base, i) * Ulp

LEMMA PlacesAre == Place(0) = Ulp /\ \A i \in Nat : PlacesGrow(i)
<1>1. Ulp \in Nat \ {0}
  BY UlpIsPositive DEF UlpIs
<1>2. Place(0) = Ulp
  BY <1>1, BaseIs DEF Place
<1>3. ASSUME NEW i \in Nat PROVE PlacesGrow(i)
  <2> DEFINE p == Power(Base, i)
  <2>1. p \in Nat \ {0} /\ Power(Base, i + 1) = Base * p /\ i + 1 \in Nat
    BY BaseIs
  <2>2. Place(i) = Ulp * p /\ Place(i + 1) = Ulp * (Base * p)
    BY <2>1 DEF Place
  <2> HIDE DEF p
  <2>3. Ulp * p \in Nat \ {0} /\ Ulp * p = p * Ulp /\ Ulp * (Base * p) = Base * (Ulp * p)
    BY <1>1, <2>1, BaseIs
  <2> QED
    BY <2>2, <2>3 DEF PlacesGrow, p
<1> QED
  BY <1>2, <1>3

\* One digit: where the number left is below the next place, the digit is its
\* quotient; where it is not, it is the highest.
LEMMA DigitIs ==
    ASSUME NEW v \in Nat, NEW i \in Nat
    PROVE  /\ v < Place(i + 1) => Digit(v, i) = v \div Place(i)
           /\ Place(i + 1) <= v => Digit(v, i) = Base - 1
<1> DEFINE p == Place(i)
           d == v \div p
<1>1. p \in Nat \ {0} /\ Place(i + 1) = Base * p /\ Base \in Nat
  BY PlacesAre, BaseIs DEF PlacesGrow
<1>2. Digit(v, i) = IF d > Base - 1 THEN Base - 1 ELSE d
  BY DEF Digit
<1> HIDE DEF p
<1>3. d \in Nat /\ (Base <= d <=> Base * p <= v)
  <2>1. Base <= d <=> Base * p <= v
    BY <1>1, QuotientsOfNumbers
  <2>2. d \in Nat
    BY <1>1, QuotientIs DEF IsQuotient
  <2> QED
    BY <2>1, <2>2
<1>4. Base * p \in Nat
  BY <1>1
<1> HIDE DEF d
<1>5. CASE v < Base * p
  <2>1. ~ (d > Base - 1)
    BY <1>1, <1>3, <1>4, <1>5
  <2> QED
    BY <1>1, <1>2, <1>4, <1>5, <2>1 DEF d, p
<1>6. CASE Base * p <= v
  <2>1. d > Base - 1
    BY <1>1, <1>3, <1>4, <1>6
  <2> QED
    BY <1>1, <1>2, <1>4, <1>6, <2>1
<1> QED
  BY <1>1, <1>4, <1>5, <1>6 DEF p

\* The digits of a quotient that does not fit are the highest.
LEMMA DigitsOfMuch ==
    ASSUME NEW q \in Nat, Place(Size) <= q
    PROVE  \A i \in Index : DigitsTaken(q)[i] = Base - 1
<1> DEFINE left == TakenFrom(q)
           N == Size - 1
           S == {i \in 0 .. N : left[i] \in Nat /\ Place(i + 1) <= left[i]}
<1>1. N \in Nat /\ N + 1 = Size /\ Index = 0 .. N /\ 0 .. N - 1 = 0 .. Size - 2
  BY BaseIs DEF Index
<1>2. left[N] = q /\ \A i \in 0 .. N - 1 :
                         left[i] = left[i + 1] - Digit(left[i + 1], i + 1) * Place(i + 1)
  BY <1>1, TakenIs
<1> HIDE DEF N, left
<1>3. N \in S
  BY <1>1, <1>2
<1>4. ASSUME NEW i \in 0 .. N - 1, i + 1 \in S PROVE i \in S
  <2> DEFINE k == i + 1
             v == left[k]
             p == Place(k)
  <2>1. k \in Nat /\ i \in 0 .. N /\ v \in Nat /\ Place(k + 1) <= v
    BY <1>1, <1>4
  <2>2. left[i] = v - Digit(v, k) * p
    BY <1>2
  <2> HIDE DEF v, k
  <2>3. Digit(v, k) = Base - 1
    BY <2>1, DigitIs
  <2>4. p \in Nat \ {0} /\ Place(k + 1) = Base * p
    BY <2>1, PlacesAre DEF PlacesGrow
  <2> HIDE DEF p
  <2>5. (Base - 1) * p = Base * p - p /\ Base * p \in Nat
    BY <2>4, BaseIs
  <2>6. left[i] = v - (Base * p - p) /\ Base * p <= v
    BY <2>1, <2>2, <2>3, <2>4, <2>5
  <2> DEFINE x == Base * p
  <2>7. left[i] = v - (x - p) /\ x <= v /\ x \in Nat
    BY <2>5, <2>6
  <2> HIDE DEF x
  <2>8. left[i] \in Nat /\ p <= left[i]
    BY <2>1, <2>4, <2>7
  <2> QED
    BY <2>1, <2>8 DEF p, k
<1> HIDE DEF S
<1>5. \A i \in 0 .. N : i \in S
  BY <1>1, <1>3, <1>4, EveryTurnDown
<1>6. ASSUME NEW i \in Index PROVE DigitsTaken(q)[i] = Base - 1
  <2>1. i \in Nat /\ left[i] \in Nat /\ Place(i + 1) <= left[i]
    BY <1>1, <1>5 DEF S
  <2>2. Digit(left[i], i) = Base - 1
    BY <2>1, DigitIs
  <2> QED
    BY <2>2 DEF DigitsTaken, left
<1> QED
  BY <1>6

\* The digits of one that fits are its own.
LEMMA DigitsOfFitting ==
    ASSUME NEW q \in Nat, q < Place(Size)
    PROVE  \A i \in Index : DigitsTaken(q)[i] = (q \div Place(i)) % Base
<1> DEFINE left == TakenFrom(q)
           N == Size - 1
           y(i) == q \div Place(i)
           S == {i \in 0 .. N : left[i] = q % Place(i + 1)}
<1>1. N \in Nat /\ N + 1 = Size /\ Index = 0 .. N /\ 0 .. N - 1 = 0 .. Size - 2
  BY BaseIs DEF Index
<1>2. left[N] = q /\ \A i \in 0 .. N - 1 :
                         left[i] = left[i + 1] - Digit(left[i + 1], i + 1) * Place(i + 1)
  BY <1>1, TakenIs
<1> HIDE DEF N, left
\* The digit of the remainder, and what it leaves.
<1>3. ASSUME NEW i \in Nat, NEW v, v = q % Place(i + 1)
      PROVE  Digit(v, i) = (q \div Place(i)) % Base /\ v - Digit(v, i) * Place(i) = q % Place(i)
  <2> DEFINE p == Place(i)
             P == Place(i + 1)
             a == q \div p
             c == a \div Base
             d == a % Base
             r == q % p
  <2>1. p \in Nat \ {0} /\ P \in Nat \ {0} /\ P = Base * p
    BY PlacesAre DEF PlacesGrow
  <2>2. c = q \div P
    <3> DEFINE b == Base
    <3>1. b \in Nat \ {0}
      BY BaseIs
    <3> HIDE DEF p, P, b
    <3>2. (q \div p) \div b = q \div (b * p)
      BY <2>1, <3>1, QuotientOfQuotient
    <3> QED
      BY <2>1, <3>2 DEF b
  <2> HIDE DEF p, P
  <2>3. a \in Nat /\ q = p * a + r /\ r \in 0 .. p - 1
    BY <2>1, QuotientIs, RemainderIs DEF IsQuotient
  <2>4. v \in 0 .. P - 1 /\ q = P * (q \div P) + v
    <3>1. v = q % P
      BY <1>3 DEF P
    <3> QED
      BY <2>1, <3>1, RemainderIs
  <2>5. c \in Nat /\ a = Base * c + d /\ d \in 0 .. Base - 1
    <3> HIDE DEF a
    <3> QED
      BY <2>3, BaseIs, QuotientIs, RemainderIs DEF IsQuotient
  <2> HIDE DEF a, c, d, r
  <2>6. v = d * p + r
    <3>1. q = P * c + v
      BY <2>2, <2>4
    <3>2. p * a = P * c + d * p
      <4>1. p * (Base * c + d) = (Base * p) * c + d * p
        BY <2>1, <2>5, BaseIs
      <4> QED
        BY <2>1, <2>5, <4>1
    <3>3. P * c \in Nat /\ d * p \in Nat
      BY <2>1, <2>5, BaseIs
    <3> DEFINE s == P * c
               t == d * p
    <3>4. q = s + v /\ q = (s + t) + r /\ s \in Nat /\ t \in Nat
      BY <2>3, <3>1, <3>2, <3>3
    <3> HIDE DEF s, t
    <3>5. v = t + r
      BY <2>3, <2>4, <3>4
    <3> QED
      BY <3>5 DEF t
  <2>7. v \div p = d
    <3>1. IsQuotient(d, v, p)
      BY <2>1, <2>3, <2>4, <2>5, <2>6 DEF IsQuotient
    <3> QED
      BY <2>1, <2>4, <3>1, QuotientIs
  <2>8. Digit(v, i) = d
    <3>1. v \in Nat /\ v < P
      BY <2>1, <2>4
    <3>2. Digit(v, i) = v \div p
      BY <3>1, DigitIs DEF P, p
    <3> QED
      BY <2>7, <3>2
  <2>9. v - d * p = r
    BY <2>1, <2>3, <2>5, <2>6
  <2> QED
    BY <2>8, <2>9 DEF a, d, r, p
<1>4. N \in S
  <2> DEFINE P == Place(Size)
  <2>1. P \in Nat \ {0} /\ q < P
    BY BaseIs, PlacesAre DEF PlacesGrow
  <2> HIDE DEF P
  <2>2. IsQuotient(0, q, P)
    BY <2>1 DEF IsQuotient
  <2>3. 0 = q \div P
    BY <2>1, <2>2, QuotientIs
  <2>4. q = P * 0 + (q % P) /\ q % P \in Nat
    BY <2>1, <2>3, RemainderIs
  <2>5. q = q % P
    BY <2>1, <2>4
  <2> QED
    BY <1>1, <1>2, <2>5 DEF P
<1>5. ASSUME NEW i \in 0 .. N - 1, i + 1 \in S PROVE i \in S
  <2> DEFINE k == i + 1
  <2>1. k \in Nat /\ i \in 0 .. N /\ left[k] = q % Place(k + 1)
    BY <1>1, <1>5
  <2>2. left[i] = left[k] - Digit(left[k], k) * Place(k)
    BY <1>2
  <2> HIDE DEF k
  <2>3. left[i] = q % Place(k)
    BY <1>3, <2>1, <2>2
  <2> QED
    BY <2>1, <2>3 DEF k
<1> HIDE DEF S
<1>6. \A i \in 0 .. N : i \in S
  BY <1>1, <1>4, <1>5, EveryTurnDown
<1>7. ASSUME NEW i \in Index PROVE DigitsTaken(q)[i] = (q \div Place(i)) % Base
  <2>1. i \in Nat /\ left[i] = q % Place(i + 1)
    BY <1>1, <1>6 DEF S
  <2>2. Digit(left[i], i) = (q \div Place(i)) % Base
    BY <1>3, <2>1
  <2> QED
    BY <2>2 DEF DigitsTaken, left
<1> QED
  BY <1>7

\* The hashes that meet the target: those up to the quotient, in whole units.
LEMMA TakenMeets ==
    ASSUME NEW q \in Nat, NEW n, IsNumber(n)
    PROVE  MeetsTarget(DigitsOf(n), DigitsTaken(q)) <=> n * Ulp <= q
<1> DEFINE h == DigitsTaken(q)
           top == Power(Base, Size)
           x == [i \in 0 .. Size |-> n \div Power(Base, i)]
<1>1. n \in Nat /\ n < top /\ Ulp \in Nat \ {0} /\ top \in Nat \ {0}
  BY UlpIsPositive, BaseIs DEF IsNumber, UlpIs
<1>2. Expands(x, DigitsOf(n)) /\ x[0] = n
  <2>1. n \div 1 = n /\ 0 \in 0 .. Size
    BY <1>1, BaseIs
  <2> QED
    BY <2>1, DigitsExpand, BaseIs
<1> HIDE DEF x
<1>3. CASE q < Place(Size)
  <2> DEFINE y == [i \in 0 .. Size |-> q \div Place(i)]
  <2>1. \A i \in Index : h[i] = (q \div Place(i)) % Base
    BY <1>3, DigitsOfFitting
  <2> HIDE DEF h
  <2>2. \A i \in 0 .. Size : y[i] \in Nat
    <3> SUFFICES ASSUME NEW i \in 0 .. Size PROVE y[i] \in Nat
      OBVIOUS
    <3> DEFINE p == Place(i)
    <3>1. p \in Nat \ {0} /\ y[i] = q \div p
      BY PlacesAre DEF PlacesGrow
    <3> HIDE DEF p
    <3> QED
      BY <3>1, QuotientIs DEF IsQuotient
  <2>3. y[Size] = 0
    <3> DEFINE P == Place(Size)
    <3>1. P \in Nat \ {0} /\ q < P /\ y[Size] = q \div P
      BY <1>3, BaseIs, PlacesAre DEF PlacesGrow
    <3> HIDE DEF P
    <3>2. IsQuotient(0, q, P)
      BY <3>1 DEF IsQuotient
    <3> QED
      BY <3>1, <3>2, QuotientIs
  <2>4. ASSUME NEW i \in Index PROVE h[i] \in 0 .. Base - 1 /\ y[i] = Base * y[i + 1] + h[i]
    <3> DEFINE p == Place(i)
               b == Base
               a == q \div p
    <3>1. i \in Nat /\ i \in 0 .. Size /\ i + 1 \in 0 .. Size
      BY BaseIs DEF Index
    <3>2. p \in Nat \ {0} /\ Place(i + 1) = b * p /\ b \in Nat \ {0}
      BY <3>1, PlacesAre, BaseIs DEF PlacesGrow
    <3>3. y[i] = a /\ y[i + 1] = q \div (b * p) /\ h[i] = a % b
      BY <2>1, <3>1, <3>2
    <3>4. a \in Nat
      BY <2>2, <3>1, <3>3
    <3>5. a \div b = q \div (b * p)
      <4> HIDE DEF p, b
      <4> QED
        BY <3>2, QuotientOfQuotient
    <3> HIDE DEF a, b
    <3>6. a % b \in 0 .. b - 1 /\ a = b * (a \div b) + (a % b)
      BY <3>2, <3>4, RemainderIs
    <3> QED
      BY <3>3, <3>5, <3>6 DEF b
  <2>5. y[0] = q \div Ulp
    BY PlacesAre, BaseIs
  <2> HIDE DEF y
  <2>6. Expands(y, h)
    BY <2>2, <2>3, <2>4 DEF Expands
  <2>7. MeetsTarget(DigitsOf(n), h) <=> x[0] <= y[0]
    BY <1>2, <2>6, MeetsAsNumbers
  <2>8. n <= q \div Ulp <=> n * Ulp <= q
    BY <1>1, QuotientsOfNumbers
  <2> QED
    BY <1>2, <2>5, <2>7, <2>8 DEF h
<1>4. CASE ~ (q < Place(Size))
  <2> DEFINE y == [i \in 0 .. Size |-> Power(Base, Size - i) - 1]
  <2>1. Place(Size) = top * Ulp /\ Place(Size) \in Nat
    BY BaseIs, PlacesAre DEF PlacesGrow
  <2>2. Place(Size) <= q
    BY <1>4, <2>1
  <2>3. \A i \in Index : h[i] = Base - 1
    BY <2>2, DigitsOfMuch
  <2> HIDE DEF h
  <2>4. \A i \in 0 .. Size : y[i] \in Nat
    <3> SUFFICES ASSUME NEW i \in 0 .. Size PROVE y[i] \in Nat
      OBVIOUS
    <3>1. Power(Base, Size - i) \in Nat \ {0}
      BY BaseIs
    <3> QED
      BY <3>1
  <2>5. y[Size] = 0 /\ y[0] = top - 1
    <3>1. Size - Size = 0 /\ Size - 0 = Size /\ Size \in 0 .. Size /\ 0 \in 0 .. Size
      BY BaseIs
    <3> QED
      BY <3>1, BaseIs
  <2>6. ASSUME NEW i \in Index PROVE h[i] \in 0 .. Base - 1 /\ y[i] = Base * y[i + 1] + h[i]
    <3> DEFINE j == Size - (i + 1)
               p == Power(Base, j)
    <3>1. i \in 0 .. Size /\ i + 1 \in 0 .. Size /\ j \in Nat /\ Size - i = j + 1
      BY BaseIs DEF Index
    <3>2. y[i] = Power(Base, j + 1) - 1 /\ y[i + 1] = p - 1
      BY <3>1
    <3> HIDE DEF j, y
    <3>3. p \in Nat \ {0} /\ Power(Base, j + 1) = Base * p
      BY <3>1, BaseIs
    <3> HIDE DEF p
    <3>4. Base * (p - 1) + (Base - 1) = Base * p - 1
      BY <3>3, BaseIs
    <3>5. y[i] = Base * y[i + 1] + (Base - 1)
      BY <3>2, <3>3, <3>4
    <3>6. Base - 1 \in 0 .. Base - 1
      BY BaseIs
    <3> QED
      BY <2>3, <3>5, <3>6
  <2> HIDE DEF y
  <2>7. Expands(y, h)
    BY <2>4, <2>5, <2>6 DEF Expands
  <2>8. MeetsTarget(DigitsOf(n), h) <=> x[0] <= y[0]
    BY <1>2, <2>7, MeetsAsNumbers
  <2> HIDE DEF top
  <2>9. n * Ulp <= top * Ulp
    BY <1>1, ProductGrows
  <2>10. n * Ulp <= q
    <3>1. n * Ulp \in Nat
      BY <1>1
    <3> QED
      BY <2>1, <2>2, <2>9, <3>1
  <2>11. x[0] <= y[0]
    BY <1>1, <1>2, <2>5
  <2> QED
    BY <2>8, <2>10, <2>11 DEF h
<1> QED
  BY <1>3, <1>4

LEMMA Diff1IsNumber == Diff1 \in Nat
<1> DEFINE p == Power(Base, 2)
           q == Power(Base, Size - 6)
<1>1. p \in Nat \ {0} /\ q \in Nat
  BY BaseIs
<1>2. Diff1 = (p - 1) * q
  BY DEF Diff1
<1> HIDE DEF p, q
<1> QED
  BY <1>1, <1>2

\* What difficulty_to_target returns.
IsShareTarget(r, num, den, target) ==
    /\ r.ok <=> num > 0
    /\ ~ r.ok => r.target = target
    /\ r.ok => \A n : IsNumber(n) =>
           IF MeetsTarget(DigitsOf(n), r.target) THEN n * num * Ulp <= Diff1 * den * (Ulp + 1)
                                                 ELSE n * num * Ulp > Diff1 * den * (Ulp - 1)

LEMMA ShareTargetIs ==
    ASSUME NEW num \in Int, NEW den \in Nat, NEW target
    PROVE  IsShareTarget(DifficultyToTarget(num, den, target), num, den, target)
<1> DEFINE N == Diff1 * den
           q == Quotient(N, num)
           r == DifficultyToTarget(num, den, target)
<1>1. r = IF num > 0 THEN [ok |-> TRUE, target |-> DigitsTaken(q)]
                     ELSE [ok |-> FALSE, target |-> target]
  BY DEF DifficultyToTarget, DigitsTaken, TakenFrom, Taking
<1>2. N \in Nat
  BY Diff1IsNumber
<1> HIDE DEF r
<1>3. ASSUME num > 0, NEW n, IsNumber(n)
      PROVE  IF MeetsTarget(DigitsOf(n), DigitsTaken(q)) THEN n * num * Ulp <= N * (Ulp + 1)
                                                         ELSE n * num * Ulp > N * (Ulp - 1)
  <2>1. num \in Nat \ {0} /\ n \in Nat
    BY <1>3 DEF IsNumber
  <2> HIDE DEF N
  <2>2. PICK e : IsRounded(q, N, num, e)
    BY <1>2, <2>1, QuotientRounds
  <2>3. q \in Nat
    BY <2>2 DEF IsRounded
  <2> HIDE DEF q
  <2>4. WithinAnUlp(n, q, N, num)
    BY <1>2, <2>1, <2>2, RoundedIsWithinAnUlp
  <2>5. MeetsTarget(DigitsOf(n), DigitsTaken(q)) <=> n * Ulp <= q
    BY <1>3, <2>3, TakenMeets
  <2> QED
    BY <2>4, <2>5 DEF WithinAnUlp
<1> HIDE DEF q
<1>4. CASE num > 0
  <2>1. r.ok = TRUE /\ r.target = DigitsTaken(q)
    BY <1>1, <1>4
  <2> QED
    BY <1>3, <1>4, <2>1 DEF IsShareTarget, N, r
<1>5. CASE ~ (num > 0)
  <2>1. r.ok = FALSE /\ r.target = target
    BY <1>1, <1>5
  <2> QED
    BY <1>5, <2>1 DEF IsShareTarget, r
<1> QED
  BY <1>4, <1>5

\* difficulty_to_target: the hashes that meet the target are those up to diff1 /
\* difficulty, give or take a unit in the last place of the long double, for every
\* fraction a difficulty can be, infinity and NaN included.
THEOREM ShareTargetIsExact == Spec => []ShareTargetExact
<1>1. TargetsReturn => ShareTargetExact
  <2> SUFFICES ASSUME TargetsReturn, call.fn = "difficulty_to_target"
               PROVE  ShareTargetExact
    BY DEF ShareTargetExact
  <2> DEFINE num == call.arg.num
             den == call.arg.den
             Right(n) == IF MeetsTarget(DigitsOf(n), result.target)
                         THEN n * num * Ulp <= Diff1 * den * (Ulp + 1)
                         ELSE n * num * Ulp > Diff1 * den * (Ulp - 1)
  <2>1. num \in Int /\ den \in Nat /\ result = DifficultyToTarget(num, den, OldTarget)
    BY DifficultiesAssumption DEF TargetsReturn
  <2> HIDE DEF num, den
  <2>2. IsShareTarget(result, num, den, OldTarget)
    BY <2>1, ShareTargetIs
  <2>3. /\ result.ok <=> num > 0
        /\ ~ result.ok => result.target = OldTarget
    BY <2>2 DEF IsShareTarget
  <2>4. ASSUME result.ok, NEW q, NEW n \in Near(q) PROVE Right(n)
    <3>1. IsNumber(n)
      <4>1. n \in 0 .. Power(Base, Size) - 1 /\ Power(Base, Size) \in Nat
        BY <2>4, BaseIs DEF Near
      <4> QED
        BY <4>1 DEF IsNumber
    <3> QED
      BY <2>2, <2>4, <3>1 DEF IsShareTarget
  <2>5. result.ok => \A q : \A n \in Near(q) : Right(n)
    BY <2>4
  <2> HIDE DEF Right
  <2>6. result.ok => \A n \in Near(IF num > 0 THEN (Diff1 * den) \div num ELSE 0) : Right(n)
    BY <2>5
  <2> QED
    BY <2>3, <2>6 DEF ShareTargetExact, Right, num, den
<1> QED
  BY <1>1, TargetsReturned, PTL
=============================================================================
