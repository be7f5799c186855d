------------------------- MODULE Sha256XtensaProofs -------------------------
(***************************************************************************)
(* The assembly computes what the C code computes, for every table K,      *)
(* every chaining state, every message and whatever the registers held.    *)
(* First, what the programs leave in the registers, instruction by         *)
(* instruction.  What is left is the order of a sum, the formula of the    *)
(* majority and the way a word is put together, so the rest is the algebra *)
(* of words: addition modulo 2^32 is commutative and associative, and the  *)
(* other formulas agree.                                                   *)
(***************************************************************************)
EXTENDS Sha256Xtensa, WellFoundedInduction, TLAPS

(***************************************************************************)
(* Carries                                                                 *)
(***************************************************************************)

\* Nothing carries into bit 0.
LEMMA CarryZero == ASSUME NEW x, NEW y PROVE 0 \notin Carry(x, y)
  BY DEF Carry

\* The full adder: bit i carries into bit i+1 when both operands have it, or one
\* has it and it received a carry itself.
LEMMA CarryStep ==
    ASSUME NEW x, NEW y, NEW i \in Nat, i + 1 \in Bits
    PROVE  i + 1 \in Carry(x, y) <=>
               (i \in x /\ i \in y) \/ ((i \in x \/ i \in y) /\ i \in Carry(x, y))
<1>1. i \in Bits
  BY DEF Bits, W
<1>2. ASSUME i + 1 \in Carry(x, y)
      PROVE  (i \in x /\ i \in y) \/ ((i \in x \/ i \in y) /\ i \in Carry(x, y))
  <2>1. PICK j \in 0..i : j \in x \cap y /\ \A k \in (j+1)..i : k \in x \cup y
    BY <1>2 DEF Carry
  <2>2. CASE j = i
    BY <2>1, <2>2
  <2>3. CASE j < i
    <3>1. j \in 0..(i-1) /\ i \in (j+1)..i
      BY <2>3
    <3>2. \A k \in (j+1)..(i-1) : k \in x \cup y
      BY <2>1
    <3> QED
      BY <1>1, <2>1, <3>1, <3>2 DEF Carry
  <2> QED
    BY <2>2, <2>3
<1>3. ASSUME i \in x, i \in y
      PROVE  i + 1 \in Carry(x, y)
  <2>1. i \in 0..(i + 1 - 1) /\ (i+1)..(i + 1 - 1) = {}
    OBVIOUS
  <2> QED
    BY <1>3, <2>1 DEF Carry
<1>4. ASSUME i \in x \/ i \in y, i \in Carry(x, y)
      PROVE  i + 1 \in Carry(x, y)
  <2>1. PICK j \in 0..(i-1) : j \in x \cap y /\ \A k \in (j+1)..(i-1) : k \in x \cup y
    BY <1>4 DEF Carry
  <2>2. j \in 0..(i + 1 - 1) /\ \A k \in (j+1)..(i + 1 - 1) : k = i \/ k \in (j+1)..(i-1)
    OBVIOUS
  <2> QED
    BY <1>4, <2>1, <2>2 DEF Carry
<1> QED
  BY <1>2, <1>3, <1>4

\* A word is summed bit by bit: the two operands and the carry.
LEMMA AddBit ==
    ASSUME NEW x, NEW y, NEW i
    PROVE  i \in Add(x, y) <=> ((i \in x <=> i \in y) <=> i \in Carry(x, y))
  BY DEF Add, Xor

LEMMA AddCommutative == ASSUME NEW x, NEW y PROVE Add(x, y) = Add(y, x)
<1>1. Carry(x, y) = Carry(y, x)
  BY DEF Carry
<1> QED
  BY <1>1 DEF Add, Xor

\* Summing three words in either order, the two carries that arrive at a bit are
\* the same number, though they may come from the other of the two additions.
SameCarries(x, y, z, i) ==
    /\ (i \in Carry(x, y) /\ i \in Carry(Add(x, y), z))
          <=> (i \in Carry(y, z) /\ i \in Carry(x, Add(y, z)))
    /\ (i \in Carry(x, y) \/ i \in Carry(Add(x, y), z))
          <=> (i \in Carry(y, z) \/ i \in Carry(x, Add(y, z)))

LEMMA SameCarriesStep ==
    ASSUME NEW x, NEW y, NEW z, NEW i \in Nat, i + 1 \in Bits, SameCarries(x, y, z, i)
    PROVE  SameCarries(x, y, z, i + 1)
<1> DEFINE a == i \in x
           b == i \in y
           c == i \in z
           p == i \in Carry(x, y)
           q == i \in Carry(Add(x, y), z)
           r == i \in Carry(y, z)
           s == i \in Carry(x, Add(y, z))
           ab == i \in Add(x, y)
           bc == i \in Add(y, z)
           pp == i + 1 \in Carry(x, y)
           qq == i + 1 \in Carry(Add(x, y), z)
           rr == i + 1 \in Carry(y, z)
           ss == i + 1 \in Carry(x, Add(y, z))
<1>1. ab <=> ((a <=> b) <=> p)
  BY AddBit
<1>2. bc <=> ((b <=> c) <=> r)
  BY AddBit
<1>3. pp <=> (a /\ b) \/ ((a \/ b) /\ p)
  BY CarryStep
<1>4. qq <=> (ab /\ c) \/ ((ab \/ c) /\ q)
  BY CarryStep
<1>5. rr <=> (b /\ c) \/ ((b \/ c) /\ r)
  BY CarryStep
<1>6. ss <=> (a /\ bc) \/ ((a \/ bc) /\ s)
  BY CarryStep
<1>7. ((p /\ q) <=> (r /\ s)) /\ ((p \/ q) <=> (r \/ s))
  BY DEF SameCarries
<1>8. ((pp /\ qq) <=> (rr /\ ss)) /\ ((pp \/ qq) <=> (rr \/ ss))
  <2> HIDE DEF a, b, c, p, q, r, s, ab, bc, pp, qq, rr, ss
  <2> QED
    BY <1>1, <1>2, <1>3, <1>4, <1>5, <1>6, <1>7
<1> QED
  BY <1>8 DEF SameCarries

\* Every non-empty set of naturals has a least element.
LEMMA LeastNatural ==
    ASSUME NEW S, S \subseteq Nat, S # {}
    PROVE  \E m \in S : \A n \in S : m <= n
<1> DEFINE R == OpToRel(<, Nat)
<1>1. IsWellFoundedOn(R, Nat)
  BY NatLessThanWellFounded
<1>2. \A m, n \in Nat : <<m, n>> \in R <=> m < n
  BY DEF OpToRel
<1>3. PICK m \in S : \A n \in S : <<n, m>> \notin R
  <2> HIDE DEF R
  <2> QED
    BY <1>1, WFMin, Zenon
<1>4. \A n \in S : ~ (n < m)
  <2> HIDE DEF R
  <2> QED
    BY <1>2, <1>3, Zenon
<1> HIDE DEF R
<1> QED
  BY <1>4

\* By the least bit at which it would fail.
LEMMA SameCarriesEverywhere ==
    ASSUME NEW x, NEW y, NEW z, NEW i \in Bits
    PROVE  SameCarries(x, y, z, i)
<1> DEFINE Bad == {n \in Bits : ~ SameCarries(x, y, z, n)}
<1>1. Bad \subseteq Nat
  BY DEF Bits
<1>2. Bad = {}
  <2> SUFFICES ASSUME Bad # {} PROVE FALSE
    OBVIOUS
  <2>1. PICK m \in Bad : \A n \in Bad : m <= n
    <3> HIDE DEF Bad
    <3> QED
      BY <1>1, LeastNatural, Zenon
  <2>2. m \in Bits /\ ~ SameCarries(x, y, z, m)
    OBVIOUS
  <2>3. m # 0
    BY <2>2, CarryZero DEF SameCarries
  <2>4. m - 1 \in Nat /\ m - 1 \in Bits /\ ~ (m <= m - 1)
    BY <2>2, <2>3 DEF Bits, W
  <2>5. SameCarries(x, y, z, m - 1)
    BY <2>1, <2>4
  <2>6. m - 1 + 1 = m
    BY <2>2 DEF Bits
  <2> QED
    BY <2>2, <2>4, <2>5, <2>6, SameCarriesStep
<1> QED
  BY <1>2

LEMMA AddAssociative ==
    ASSUME NEW x, NEW y, NEW z
    PROVE  Add(Add(x, y), z) = Add(x, Add(y, z))
<1>1. ASSUME NEW i, i \in Bits
      PROVE  i \in Add(Add(x, y), z) <=> i \in Add(x, Add(y, z))
  <2>1. /\ i \in Add(Add(x, y), z) <=> ((i \in Add(x, y) <=> i \in z) <=> i \in Carry(Add(x, y), z))
        /\ i \in Add(x, Add(y, z)) <=> ((i \in x <=> i \in Add(y, z)) <=> i \in Carry(x, Add(y, z)))
    BY AddBit
  <2>2. /\ i \in Add(x, y) <=> ((i \in x <=> i \in y) <=> i \in Carry(x, y))
        /\ i \in Add(y, z) <=> ((i \in y <=> i \in z) <=> i \in Carry(y, z))
    BY AddBit
  <2>3. SameCarries(x, y, z, i)
    BY <1>1, SameCarriesEverywhere
  <2> QED
    BY <2>1, <2>2, <2>3 DEF SameCarries
<1>2. ASSUME NEW i, i \notin Bits
      PROVE  i \in Add(Add(x, y), z) <=> i \in Add(x, Add(y, z))
  <2>1. \A r, s : i \notin Carry(r, s)
    BY <1>2 DEF Carry
  <2>2. \A r, s : i \in Add(r, s) <=> ~ (i \in r <=> i \in s)
    BY <2>1, AddBit
  <2> QED
    BY <2>2
<1> QED
  BY <1>1, <1>2

(***************************************************************************)
(* Programs                                                                *)
(***************************************************************************)

\* A content of the registers.
IsFile(r) == r = [n \in Registers |-> r[n]]

\* Execution up to the n-th instruction.
Trace(f, program, r, N) ==
    f = [n \in 0..N |-> IF n = 0 THEN r ELSE Exec(program[n], f[n - 1])]

LEMMA TraceExists ==
    ASSUME NEW program, NEW r, NEW N \in Nat
    PROVE  \E f : Trace(f, program, r, N)
<1> DEFINE S == {n \in Nat : ~ \E f : Trace(f, program, r, n)}
<1>1. 0 \notin S
  <2>1. Trace([n \in 0..0 |-> r], program, r, 0)
    BY DEF Trace
  <2> QED
    BY <2>1
<1>2. ASSUME NEW n \in S, \A m \in S : n <= m PROVE FALSE
  <2>1. n \in Nat /\ n # 0 /\ n - 1 \in Nat /\ n - 1 \notin S
    BY <1>1, <1>2
  <2>2. PICK f : Trace(f, program, r, n - 1)
    BY <2>1
  <2> DEFINE last == Exec(program[n], f[n - 1])
             g == [m \in 0..n |-> IF m = n THEN last ELSE f[m]]
  <2>3. \A m \in 0..(n - 1) : f[m] = IF m = 0 THEN r ELSE Exec(program[m], f[m - 1])
    BY <2>2 DEF Trace
  <2>4. g = [m \in 0..n |-> g[m]] /\ g[n] = last /\ \A m \in 0..(n - 1) : g[m] = f[m]
    <3> HIDE DEF last
    <3> QED
      BY <2>1
  <2> HIDE DEF g
  <2>5. ASSUME NEW m \in 0..n
        PROVE  g[m] = IF m = 0 THEN r ELSE Exec(program[m], g[m - 1])
    <3>1. CASE m = n
      <4>1. n - 1 \in 0..(n - 1)
        BY <2>1
      <4>2. g[n - 1] = f[n - 1]
        BY <2>4, <4>1
      <4> QED
        BY <2>1, <2>4, <3>1, <4>2
    <3>2. CASE m # n
      <4>1. m \in 0..(n - 1) /\ (m # 0 => m - 1 \in 0..(n - 1))
        BY <2>1, <3>2
      <4> QED
        BY <2>3, <2>4, <4>1
    <3> QED
      BY <3>1, <3>2
  <2>6. g = [m \in 0..n |-> IF m = 0 THEN r ELSE Exec(program[m], g[m - 1])]
    BY <2>4, <2>5
  <2>7. Trace(g, program, r, n)
    BY <2>6 DEF Trace
  <2> QED
    BY <1>2, <2>7
<1>3. S \in SUBSET Nat
  OBVIOUS
<1> HIDE DEF S
<1>4. S = {}
  BY <1>2, <1>3, LeastNatural
<1> QED
  BY <1>4 DEF S

\* Running a program is executing its N instructions in turn.
Executes(f, program, N, r, s) ==
    /\ f[0] = r /\ s = f[N]
    /\ \A n \in 1..N : f[n] = Exec(program[n], f[n - 1])

LEMMA RunIs ==
    ASSUME NEW program, NEW N \in Nat, Len(program) = N, NEW r
    PROVE  \E f : Executes(f, program, N, r, Run(program, r))
<1> DEFINE f == CHOOSE g : Trace(g, program, r, N)
<1>1. Run(program, r) = f[N]
  BY DEF Run, Trace
<1>2. Trace(f, program, r, N)
  BY TraceExists
<1> HIDE DEF f
<1>3. f[0] = r /\ \A n \in 1..N : f[n] = Exec(program[n], f[n - 1])
  BY <1>2 DEF Trace
<1>4. Executes(f, program, N, r, Run(program, r))
  BY <1>1, <1>3 DEF Executes
<1> QED
  BY <1>4

\* s is r with the word x in the register d.
Wrote(s, r, d, x) ==
    /\ s[d] = x
    /\ \A q \in Registers : q # d => s[q] = r[q]

LEMMA ExecWrites ==
    ASSUME NEW r, IsFile(r), NEW i, i[2] \in Registers
    PROVE  IsFile(Exec(i, r)) /\ Wrote(Exec(i, r), r, i[2], Value(i, r))
<1> DEFINE d == i[2]
           x == Value(i, r)
<1>1. Exec(i, r) = [r EXCEPT ![d] = x]
  BY DEF Exec
<1> HIDE DEF d, x
<1>2. [r EXCEPT ![d] = x] = [q \in Registers |-> IF q = d THEN x ELSE r[q]]
  BY DEF IsFile
<1>3. d \in Registers
  BY DEF d
<1>4. IsFile(Exec(i, r)) /\ Wrote(Exec(i, r), r, d, x)
  BY <1>1, <1>2, <1>3 DEF Wrote, IsFile
<1> QED
  BY <1>4 DEF d, x

\* s is what the instruction i leaves of r: the word x in the register d.
Does(i, s, r, d, x) == s = Exec(i, r) => IsFile(s) /\ Wrote(s, r, d, x)

\* The instruction set.
LEMMA Instructions ==
    ASSUME NEW r, IsFile(r), NEW d \in Registers, NEW s
    PROVE  /\ \A x : Does(<<"lit", d, x>>, s, r, d, x)
           /\ \A m : Does(<<"mov", d, m>>, s, r, d, r[m])
           /\ \A m, n : Does(<<"add", d, m, n>>, s, r, d, Add(r[m], r[n]))
           /\ \A m, n : Does(<<"and", d, m, n>>, s, r, d, r[m] \cap r[n])
           /\ \A m, n : Does(<<"or", d, m, n>>, s, r, d, r[m] \cup r[n])
           /\ \A m, n : Does(<<"xor", d, m, n>>, s, r, d, Xor(r[m], r[n]))
           /\ \A m, n : Does(<<"slli", d, m, n>>, s, r, d, Shl(r[m], n))
           /\ \A m, n : Does(<<"srli", d, m, n>>, s, r, d, Shr(r[m], n))
           /\ \A m, n : Does(<<"ror", d, m, n>>, s, r, d, Rotr(r[m], n))
<1>1. ASSUME NEW x
      PROVE  Does(<<"lit", d, x>>, s, r, d, x)
  <2> DEFINE i == <<"lit", d, x>>
  <2>1. i[2] = d /\ Value(i, r) = x
    BY DEF Value
  <2> HIDE DEF i
  <2>2. Does(i, s, r, d, x)
    BY <2>1, ExecWrites DEF Does
  <2> QED
    BY <2>2 DEF i
<1>2. ASSUME NEW m
      PROVE  Does(<<"mov", d, m>>, s, r, d, r[m])
  <2> DEFINE i == <<"mov", d, m>>
  <2>1. i[2] = d /\ Value(i, r) = r[m]
    BY DEF Value
  <2> HIDE DEF i
  <2>2. Does(i, s, r, d, r[m])
    BY <2>1, ExecWrites DEF Does
  <2> QED
    BY <2>2 DEF i
<1>3. ASSUME NEW m, NEW n
      PROVE  Does(<<"add", d, m, n>>, s, r, d, Add(r[m], r[n]))
  <2> DEFINE i == <<"add", d, m, n>>
  <2>1. i[2] = d /\ Value(i, r) = Add(r[m], r[n])
    BY DEF Value
  <2> HIDE DEF i
  <2>2. Does(i, s, r, d, Add(r[m], r[n]))
    BY <2>1, ExecWrites DEF Does
  <2> QED
    BY <2>2 DEF i
<1>4. ASSUME NEW m, NEW n
      PROVE  Does(<<"and", d, m, n>>, s, r, d, r[m] \cap r[n])
  <2> DEFINE i == <<"and", d, m, n>>
  <2>1. i[2] = d /\ Value(i, r) = r[m] \cap r[n]
    BY DEF Value
  <2> HIDE DEF i
  <2>2. Does(i, s, r, d, r[m] \cap r[n])
    BY <2>1, ExecWrites DEF Does
  <2> QED
    BY <2>2 DEF i
<1>5. ASSUME NEW m, NEW n
      PROVE  Does(<<"or", d, m, n>>, s, r, d, r[m] \cup r[n])
  <2> DEFINE i == <<"or", d, m, n>>
  <2>1. i[2] = d /\ Value(i, r) = r[m] \cup r[n]
    BY DEF Value
  <2> HIDE DEF i
  <2>2. Does(i, s, r, d, r[m] \cup r[n])
    BY <2>1, ExecWrites DEF Does
  <2> QED
    BY <2>2 DEF i
<1>6. ASSUME NEW m, NEW n
      PROVE  Does(<<"xor", d, m, n>>, s, r, d, Xor(r[m], r[n]))
  <2> DEFINE i == <<"xor", d, m, n>>
  <2>1. i[2] = d /\ Value(i, r) = Xor(r[m], r[n])
    BY DEF Value
  <2> HIDE DEF i
  <2>2. Does(i, s, r, d, Xor(r[m], r[n]))
    BY <2>1, ExecWrites DEF Does
  <2> QED
    BY <2>2 DEF i
<1>7. ASSUME NEW m, NEW n
      PROVE  Does(<<"slli", d, m, n>>, s, r, d, Shl(r[m], n))
  <2> DEFINE i == <<"slli", d, m, n>>
  <2>1. i[2] = d /\ Value(i, r) = Shl(r[m], n)
    BY DEF Value
  <2> HIDE DEF i
  <2>2. Does(i, s, r, d, Shl(r[m], n))
    BY <2>1, ExecWrites DEF Does
  <2> QED
    BY <2>2 DEF i
<1>8. ASSUME NEW m, NEW n
      PROVE  Does(<<"srli", d, m, n>>, s, r, d, Shr(r[m], n))
  <2> DEFINE i == <<"srli", d, m, n>>
  <2>1. i[2] = d /\ Value(i, r) = Shr(r[m], n)
    BY DEF Value
  <2> HIDE DEF i
  <2>2. Does(i, s, r, d, Shr(r[m], n))
    BY <2>1, ExecWrites DEF Does
  <2> QED
    BY <2>2 DEF i
<1>9. ASSUME NEW m, NEW n
      PROVE  Does(<<"ror", d, m, n>>, s, r, d, Rotr(r[m], n))
  <2> DEFINE i == <<"ror", d, m, n>>
  <2>1. i[2] = d /\ Value(i, r) = Rotr(r[m], n)
    BY DEF Value
  <2> HIDE DEF i
  <2>2. Does(i, s, r, d, Rotr(r[m], n))
    BY <2>1, ExecWrites DEF Does
  <2> QED
    BY <2>2 DEF i
<1> QED
  BY <1>1, <1>2, <1>3, <1>4, <1>5, <1>6, <1>7, <1>8, <1>9

(***************************************************************************)
(* The formulas the assembly rewrites                                      *)
(***************************************************************************)

\* What Load, Ext and AsmRound compute, as formulas.
LoadedWord(b, i) ==
    Shl(Shl(Shl(b[4*i + 1], 8) \cup b[4*i + 2], 8) \cup b[4*i + 3], 8) \cup b[4*i + 4]
ExtendedFrom(u, p) ==
    Add(Add(Add(SmallSigma1(u[p + 14]), u[p + 9]), SmallSigma0(u[p + 1])), u[p])
AsmT1(r, k, x) ==
    Add(Add(Add(Add(k, x), r[8]), BigSigma1(r[5])), Ch(r[5], r[6], r[7]))
Majority(x, y, z) == Xor(x \cap y, Xor(x, y) \cap z)
AsmT2(r) == Add(BigSigma0(r[1]), Majority(r[1], r[2], r[3]))
Rotated(r, t1, t2) ==
    <<Add(t2, t1), r[1], r[2], r[3], Add(r[4], t1), r[5], r[6], r[7]>>

\* The words of the instance are the same words.
LEMMA SameWords ==
    /\ \A x, y : C!Add(x, y) = Add(x, y)
    /\ \A x, n : C!Shl(x, n) = Shl(x, n)
    /\ \A x, y, z : C!Ch(x, y, z) = Ch(x, y, z) /\ C!Maj(x, y, z) = Maj(x, y, z)
    /\ \A x : C!BigSigma0(x) = BigSigma0(x) /\ C!BigSigma1(x) = BigSigma1(x)
    /\ \A x : C!SmallSigma0(x) = SmallSigma0(x) /\ C!SmallSigma1(x) = SmallSigma1(x)
<1>1. \A x, y : C!Xor(x, y) = Xor(x, y) /\ C!Not(x) = Not(x)
  BY DEF Xor, C!Xor, Not, C!Not, Bits, C!Bits, W, C!W
<1>2. \A x, n : C!Shl(x, n) = Shl(x, n) /\ C!Shr(x, n) = Shr(x, n) /\ C!Rotr(x, n) = Rotr(x, n)
  BY DEF Shl, C!Shl, Shr, C!Shr, Rotr, C!Rotr, Bits, C!Bits, W, C!W
<1>3. \A x, y : C!Carry(x, y) = Carry(x, y)
  BY DEF Carry, C!Carry, Bits, C!Bits, W, C!W
<1>4. \A x, y : C!Add(x, y) = Add(x, y)
  BY <1>1, <1>3 DEF Add, C!Add
<1> QED
  BY <1>1, <1>2, <1>4 DEF Ch, C!Ch, Maj, C!Maj, BigSigma0, C!BigSigma0, BigSigma1, C!BigSigma1,
     SmallSigma0, C!SmallSigma0, SmallSigma1, C!SmallSigma1

LEMMA ShlUnion == ASSUME NEW x, NEW y PROVE Shl(x \cup y, 8) = Shl(x, 8) \cup Shl(y, 8)
  BY DEF Shl

LEMMA ShlTwice ==
    ASSUME NEW x
    PROVE  Shl(Shl(x, 8), 8) = Shl(x, 16) /\ Shl(Shl(x, 16), 8) = Shl(x, 24)
  BY DEF Shl, Bits, W

\* A word shifted in byte by byte is the word of the four bytes.
LEMMA LoadedWordIsWordOf ==
    ASSUME NEW b, NEW i
    PROVE  LoadedWord(b, i) = C!WordOf(b, i)
<1> DEFINE p == b[4*i + 1]
           q == b[4*i + 2]
           r == b[4*i + 3]
           u == b[4*i + 4]
           p8 == Shl(p, 8)
           q8 == Shl(q, 8)
           p16 == Shl(p, 16)
           q16 == Shl(q, 16)
<1>1. LoadedWord(b, i) = Shl(Shl(p8 \cup q, 8) \cup r, 8) \cup u
  BY DEF LoadedWord
<1>2. Shl(p8 \cup q, 8) = p16 \cup q8
  <2>1. Shl(p8 \cup q, 8) = Shl(p8, 8) \cup q8
    BY ShlUnion
  <2>2. Shl(p8, 8) = p16
    BY ShlTwice
  <2> QED
    BY <2>1, <2>2
<1>3. Shl((p16 \cup q8) \cup r, 8) = (Shl(p, 24) \cup q16) \cup Shl(r, 8)
  <2>1. Shl((p16 \cup q8) \cup r, 8) = Shl(p16 \cup q8, 8) \cup Shl(r, 8)
    BY ShlUnion
  <2>2. Shl(p16 \cup q8, 8) = Shl(p16, 8) \cup Shl(q8, 8)
    BY ShlUnion
  <2>3. Shl(p16, 8) = Shl(p, 24) /\ Shl(q8, 8) = q16
    BY ShlTwice
  <2> QED
    BY <2>1, <2>2, <2>3
<1>4. C!WordOf(b, i) = ((Shl(p, 24) \cup q16) \cup Shl(r, 8)) \cup u
  BY SameWords DEF C!WordOf
<1> QED
  BY <1>1, <1>2, <1>3, <1>4

\* The majority of two bits and a third that only counts when they differ.
LEMMA MajorityIsMaj ==
    ASSUME NEW x, NEW y, NEW z
    PROVE  Majority(x, y, z) = Maj(x, y, z)
  BY DEF Majority, Maj, Xor

\* The five terms of t1, summed from the other end.
LEMMA AsmT1IsT1 ==
    ASSUME NEW r, NEW k, NEW x
    PROVE  AsmT1(r, k, x) = C!T1(r, k, x)
<1> DEFINE h == r[8]
           s == BigSigma1(r[5])
           c == Ch(r[5], r[6], r[7])
<1>1. \A p, q, u : Add(Add(p, q), u) = Add(Add(p, u), q)
  BY AddAssociative, AddCommutative
<1>2. AsmT1(r, k, x) = Add(Add(Add(Add(k, x), h), s), c)
  BY DEF AsmT1
<1>3. C!T1(r, k, x) = Add(Add(Add(Add(h, s), c), k), x)
  BY SameWords DEF C!T1
<1> HIDE DEF h, s, c
<1>4. Add(Add(Add(Add(k, x), h), s), c) = Add(Add(Add(Add(k, h), s), c), x)
  BY <1>1
<1>5. Add(k, h) = Add(h, k)
  BY AddCommutative
<1>6. Add(Add(Add(h, k), s), c) = Add(Add(Add(h, s), c), k)
  BY <1>1
<1> QED
  BY <1>2, <1>3, <1>4, <1>5, <1>6
\* Load leaves the word in a7.
LEMMA LoadRuns ==
    ASSUME NEW r, IsFile(r), NEW b, NEW i
    PROVE  LET s == Run(LoadWordProgram(b, i), r)
           IN  /\ IsFile(s)
               /\ s[7] = LoadedWord(b, i)
<1> DEFINE P == LoadWordProgram(b, i)
<1>1. Len(P) = 10 /\ 10 \in Nat
  BY DEF LoadWordProgram
<1> HIDE DEF P
<1>2. PICK f : Executes(f, P, 10, r, Run(P, r))
  BY <1>1, RunIs
<1>3. /\ f[0] = r /\ Run(P, r) = f[10]
      /\ \A n \in 1..10 : f[n] = Exec(P[n], f[n - 1])
  BY <1>2 DEF Executes
<1> USE DEF P
<1>4. {7, 8} \subseteq Registers
  BY DEF Registers, Spill
<1>5. /\ f[1] = Exec(<<"lit", 7, b[4*i + 1]>>, f[0])
      /\ f[2] = Exec(<<"lit", 8, b[4*i + 2]>>, f[1])
      /\ f[3] = Exec(<<"slli", 7, 7, 8>>, f[2])
      /\ f[4] = Exec(<<"or", 7, 7, 8>>, f[3])
      /\ f[5] = Exec(<<"lit", 8, b[4*i + 3]>>, f[4])
      /\ f[6] = Exec(<<"slli", 7, 7, 8>>, f[5])
      /\ f[7] = Exec(<<"or", 7, 7, 8>>, f[6])
      /\ f[8] = Exec(<<"lit", 8, b[4*i + 4]>>, f[7])
      /\ f[9] = Exec(<<"slli", 7, 7, 8>>, f[8])
      /\ f[10] = Exec(<<"or", 7, 7, 8>>, f[9])
  BY <1>3 DEF LoadWordProgram
<1> HIDE DEF P
<1>6. IsFile(f[1]) /\ Wrote(f[1], f[0], 7, b[4*i + 1])
  BY <1>4, <1>5, <1>3, Instructions DEF Does
<1>7. IsFile(f[2]) /\ Wrote(f[2], f[1], 8, b[4*i + 2])
  BY <1>4, <1>5, <1>6, Instructions DEF Does
<1>8. IsFile(f[3]) /\ Wrote(f[3], f[2], 7, Shl(f[2][7], 8))
  BY <1>4, <1>5, <1>7, Instructions DEF Does
<1>9. IsFile(f[4]) /\ Wrote(f[4], f[3], 7, f[3][7] \cup f[3][8])
  BY <1>4, <1>5, <1>8, Instructions DEF Does
<1>10. IsFile(f[5]) /\ Wrote(f[5], f[4], 8, b[4*i + 3])
  BY <1>4, <1>5, <1>9, Instructions DEF Does
<1>11. IsFile(f[6]) /\ Wrote(f[6], f[5], 7, Shl(f[5][7], 8))
  BY <1>4, <1>5, <1>10, Instructions DEF Does
<1>12. IsFile(f[7]) /\ Wrote(f[7], f[6], 7, f[6][7] \cup f[6][8])
  BY <1>4, <1>5, <1>11, Instructions DEF Does
<1>13. IsFile(f[8]) /\ Wrote(f[8], f[7], 8, b[4*i + 4])
  BY <1>4, <1>5, <1>12, Instructions DEF Does
<1>14. IsFile(f[9]) /\ Wrote(f[9], f[8], 7, Shl(f[8][7], 8))
  BY <1>4, <1>5, <1>13, Instructions DEF Does
<1>15. IsFile(f[10]) /\ Wrote(f[10], f[9], 7, f[9][7] \cup f[9][8])
  BY <1>4, <1>5, <1>14, Instructions DEF Does
<1>16. f[1][7] = b[4*i + 1]
  BY <1>3, <1>6 DEF Wrote, Registers, Spill
<1>17. /\ f[2][7] = b[4*i + 1]
      /\ f[2][8] = b[4*i + 2]
  BY <1>16, <1>7 DEF Wrote, Registers, Spill
<1>18. /\ f[3][7] = Shl(b[4*i + 1], 8)
      /\ f[3][8] = b[4*i + 2]
  BY <1>17, <1>8 DEF Wrote, Registers, Spill
<1>19. /\ f[4][7] = Shl(b[4*i + 1], 8) \cup b[4*i + 2]
      /\ f[4][8] = b[4*i + 2]
  BY <1>18, <1>9 DEF Wrote, Registers, Spill
<1>20. /\ f[5][7] = Shl(b[4*i + 1], 8) \cup b[4*i + 2]
      /\ f[5][8] = b[4*i + 3]
  BY <1>19, <1>10 DEF Wrote, Registers, Spill
<1>21. /\ f[6][7] = Shl(Shl(b[4*i + 1], 8) \cup b[4*i + 2], 8)
      /\ f[6][8] = b[4*i + 3]
  BY <1>20, <1>11 DEF Wrote, Registers, Spill
<1>22. /\ f[7][7] = Shl(Shl(b[4*i + 1], 8) \cup b[4*i + 2], 8) \cup b[4*i + 3]
      /\ f[7][8] = b[4*i + 3]
  BY <1>21, <1>12 DEF Wrote, Registers, Spill
<1>23. /\ f[8][7] = Shl(Shl(b[4*i + 1], 8) \cup b[4*i + 2], 8) \cup b[4*i + 3]
      /\ f[8][8] = b[4*i + 4]
  BY <1>22, <1>13 DEF Wrote, Registers, Spill
<1>24. /\ f[9][7] = Shl(Shl(Shl(b[4*i + 1], 8) \cup b[4*i + 2], 8) \cup b[4*i + 3], 8)
      /\ f[9][8] = b[4*i + 4]
  BY <1>23, <1>14 DEF Wrote, Registers, Spill
<1>25. /\ f[10][7] = Shl(Shl(Shl(b[4*i + 1], 8) \cup b[4*i + 2], 8) \cup b[4*i + 3], 8) \cup b[4*i + 4]
      /\ f[10][8] = b[4*i + 4]
  BY <1>24, <1>15 DEF Wrote, Registers, Spill
<1> QED
  BY <1>3, <1>15, <1>25 DEF P, LoadedWord

\* Ext leaves W[i] in a8.
LEMMA ExtRuns ==
    ASSUME NEW r, IsFile(r), NEW u, NEW p
    PROVE  LET s == Run(ExtProgram(u, p), r)
           IN  /\ IsFile(s)
               /\ s[8] = ExtendedFrom(u, p)
<1> DEFINE P == ExtProgram(u, p)
<1>1. Len(P) = 17 /\ 17 \in Nat
  BY DEF ExtProgram
<1> HIDE DEF P
<1>2. PICK f : Executes(f, P, 17, r, Run(P, r))
  BY <1>1, RunIs
<1>3. /\ f[0] = r /\ Run(P, r) = f[17]
      /\ \A n \in 1..17 : f[n] = Exec(P[n], f[n - 1])
  BY <1>2 DEF Executes
<1> USE DEF P
<1>4. {7, 8, 9, 10} \subseteq Registers
  BY DEF Registers, Spill
<1>5. /\ f[1] = Exec(<<"lit", 7, u[p + 14]>>, f[0])
      /\ f[2] = Exec(<<"ror", 8, 7, 17>>, f[1])
      /\ f[3] = Exec(<<"ror", 9, 7, 19>>, f[2])
      /\ f[4] = Exec(<<"xor", 8, 8, 9>>, f[3])
      /\ f[5] = Exec(<<"srli", 9, 7, 10>>, f[4])
      /\ f[6] = Exec(<<"xor", 8, 8, 9>>, f[5])
      /\ f[7] = Exec(<<"lit", 9, u[p + 9]>>, f[6])
      /\ f[8] = Exec(<<"add", 8, 8, 9>>, f[7])
      /\ f[9] = Exec(<<"lit", 7, u[p + 1]>>, f[8])
      /\ f[10] = Exec(<<"ror", 9, 7, 7>>, f[9])
      /\ f[11] = Exec(<<"ror", 10, 7, 18>>, f[10])
      /\ f[12] = Exec(<<"xor", 9, 9, 10>>, f[11])
      /\ f[13] = Exec(<<"srli", 10, 7, 3>>, f[12])
      /\ f[14] = Exec(<<"xor", 9, 9, 10>>, f[13])
      /\ f[15] = Exec(<<"add", 8, 8, 9>>, f[14])
      /\ f[16] = Exec(<<"lit", 9, u[p]>>, f[15])
      /\ f[17] = Exec(<<"add", 8, 8, 9>>, f[16])
  BY <1>3 DEF ExtProgram
<1> HIDE DEF P
<1>6. IsFile(f[1]) /\ Wrote(f[1], f[0], 7, u[p + 14])
  BY <1>4, <1>5, <1>3, Instructions DEF Does
<1>7. IsFile(f[2]) /\ Wrote(f[2], f[1], 8, Rotr(f[1][7], 17))
  BY <1>4, <1>5, <1>6, Instructions DEF Does
<1>8. IsFile(f[3]) /\ Wrote(f[3], f[2], 9, Rotr(f[2][7], 19))
  BY <1>4, <1>5, <1>7, Instructions DEF Does
<1>9. IsFile(f[4]) /\ Wrote(f[4], f[3], 8, Xor(f[3][8], f[3][9]))
  BY <1>4, <1>5, <1>8, Instructions DEF Does
<1>10. IsFile(f[5]) /\ Wrote(f[5], f[4], 9, Shr(f[4][7], 10))
  BY <1>4, <1>5, <1>9, Instructions DEF Does
<1>11. IsFile(f[6]) /\ Wrote(f[6], f[5], 8, Xor(f[5][8], f[5][9]))
  BY <1>4, <1>5, <1>10, Instructions DEF Does
<1>12. IsFile(f[7]) /\ Wrote(f[7], f[6], 9, u[p + 9])
  BY <1>4, <1>5, <1>11, Instructions DEF Does
<1>13. IsFile(f[8]) /\ Wrote(f[8], f[7], 8, Add(f[7][8], f[7][9]))
  BY <1>4, <1>5, <1>12, Instructions DEF Does
<1>14. IsFile(f[9]) /\ Wrote(f[9], f[8], 7, u[p + 1])
  BY <1>4, <1>5, <1>13, Instructions DEF Does
<1>15. IsFile(f[10]) /\ Wrote(f[10], f[9], 9, Rotr(f[9][7], 7))
  BY <1>4, <1>5, <1>14, Instructions DEF Does
<1>16. IsFile(f[11]) /\ Wrote(f[11], f[10], 10, Rotr(f[10][7], 18))
  BY <1>4, <1>5, <1>15, Instructions DEF Does
<1>17. IsFile(f[12]) /\ Wrote(f[12], f[11], 9, Xor(f[11][9], f[11][10]))
  BY <1>4, <1>5, <1>16, Instructions DEF Does
<1>18. IsFile(f[13]) /\ Wrote(f[13], f[12], 10, Shr(f[12][7], 3))
  BY <1>4, <1>5, <1>17, Instructions DEF Does
<1>19. IsFile(f[14]) /\ Wrote(f[14], f[13], 9, Xor(f[13][9], f[13][10]))
  BY <1>4, <1>5, <1>18, Instructions DEF Does
<1>20. IsFile(f[15]) /\ Wrote(f[15], f[14], 8, Add(f[14][8], f[14][9]))
  BY <1>4, <1>5, <1>19, Instructions DEF Does
<1>21. IsFile(f[16]) /\ Wrote(f[16], f[15], 9, u[p])
  BY <1>4, <1>5, <1>20, Instructions DEF Does
<1>22. IsFile(f[17]) /\ Wrote(f[17], f[16], 8, Add(f[16][8], f[16][9]))
  BY <1>4, <1>5, <1>21, Instructions DEF Does
<1> QED
  BY <1>3, <1>6, <1>7, <1>8, <1>9, <1>10, <1>11, <1>12, <1>13, <1>14, <1>15, <1>16, <1>17,
     <1>18, <1>19, <1>20, <1>21, <1>22 DEF P, Wrote, Registers, Spill, ExtendedFrom, SmallSigma0,
     SmallSigma1

\* In a round, a2 becomes K[i] + W[i] + h,
LEMMA SumRuns ==
    ASSUME NEW r, IsFile(r), NEW k, NEW x
    PROVE  LET s == Run(SumProgram(k, x), r)
           IN  /\ IsFile(s)
               /\ s[2] = Add(Add(k, x), r[11])
               /\ \A q \in 4..11 : s[q] = r[q]
<1> DEFINE P == SumProgram(k, x)
<1>1. Len(P) = 4 /\ 4 \in Nat
  BY DEF SumProgram
<1> HIDE DEF P
<1>2. PICK f : Executes(f, P, 4, r, Run(P, r))
  BY <1>1, RunIs
<1>3. /\ f[0] = r /\ Run(P, r) = f[4]
      /\ \A n \in 1..4 : f[n] = Exec(P[n], f[n - 1])
  BY <1>2 DEF Executes
<1> USE DEF P
<1>4. {2, 15} \subseteq Registers
  BY DEF Registers, Spill
<1>5. /\ f[1] = Exec(<<"lit", 2, k>>, f[0])
      /\ f[2] = Exec(<<"lit", 15, x>>, f[1])
      /\ f[3] = Exec(<<"add", 2, 2, 15>>, f[2])
      /\ f[4] = Exec(<<"add", 2, 2, 11>>, f[3])
  BY <1>3 DEF SumProgram
<1> HIDE DEF P
<1>6. IsFile(f[1]) /\ Wrote(f[1], f[0], 2, k)
  BY <1>4, <1>5, <1>3, Instructions DEF Does
<1>7. IsFile(f[2]) /\ Wrote(f[2], f[1], 15, x)
  BY <1>4, <1>5, <1>6, Instructions DEF Does
<1>8. IsFile(f[3]) /\ Wrote(f[3], f[2], 2, Add(f[2][2], f[2][15]))
  BY <1>4, <1>5, <1>7, Instructions DEF Does
<1>9. IsFile(f[4]) /\ Wrote(f[4], f[3], 2, Add(f[3][2], f[3][11]))
  BY <1>4, <1>5, <1>8, Instructions DEF Does
<1> QED
  BY <1>3, <1>6, <1>7, <1>8, <1>9 DEF P, Wrote, Registers, Spill

\* then with BSIG1(e),
LEMMA Sigma1Runs ==
    ASSUME NEW r, IsFile(r)
    PROVE  LET s == Run(Sigma1Program, r)
           IN  /\ IsFile(s)
               /\ s[2] = Add(r[2], BigSigma1(r[8]))
               /\ \A q \in 4..11 : s[q] = r[q]
<1> DEFINE P == Sigma1Program
<1>1. Len(P) = 6 /\ 6 \in Nat
  BY DEF Sigma1Program
<1> HIDE DEF P
<1>2. PICK f : Executes(f, P, 6, r, Run(P, r))
  BY <1>1, RunIs
<1>3. /\ f[0] = r /\ Run(P, r) = f[6]
      /\ \A n \in 1..6 : f[n] = Exec(P[n], f[n - 1])
  BY <1>2 DEF Executes
<1> USE DEF P
<1>4. {2, 3, 15} \subseteq Registers
  BY DEF Registers, Spill
<1>5. /\ f[1] = Exec(<<"ror", 15, 8, 6>>, f[0])
      /\ f[2] = Exec(<<"ror", 3, 8, 11>>, f[1])
      /\ f[3] = Exec(<<"xor", 15, 15, 3>>, f[2])
      /\ f[4] = Exec(<<"ror", 3, 8, 25>>, f[3])
      /\ f[5] = Exec(<<"xor", 15, 15, 3>>, f[4])
      /\ f[6] = Exec(<<"add", 2, 2, 15>>, f[5])
  BY <1>3 DEF Sigma1Program
<1> HIDE DEF P
<1>6. IsFile(f[1]) /\ Wrote(f[1], f[0], 15, Rotr(f[0][8], 6))
  BY <1>4, <1>5, <1>3, Instructions DEF Does
<1>7. IsFile(f[2]) /\ Wrote(f[2], f[1], 3, Rotr(f[1][8], 11))
  BY <1>4, <1>5, <1>6, Instructions DEF Does
<1>8. IsFile(f[3]) /\ Wrote(f[3], f[2], 15, Xor(f[2][15], f[2][3]))
  BY <1>4, <1>5, <1>7, Instructions DEF Does
<1>9. IsFile(f[4]) /\ Wrote(f[4], f[3], 3, Rotr(f[3][8], 25))
  BY <1>4, <1>5, <1>8, Instructions DEF Does
<1>10. IsFile(f[5]) /\ Wrote(f[5], f[4], 15, Xor(f[4][15], f[4][3]))
  BY <1>4, <1>5, <1>9, Instructions DEF Does
<1>11. IsFile(f[6]) /\ Wrote(f[6], f[5], 2, Add(f[5][2], f[5][15]))
  BY <1>4, <1>5, <1>10, Instructions DEF Does
<1> QED
  BY <1>3, <1>6, <1>7, <1>8, <1>9, <1>10, <1>11 DEF P, Wrote, Registers, Spill, BigSigma1

\* then with CH(e, f, g), and is spilled;
LEMMA ChoiceRuns ==
    ASSUME NEW r, IsFile(r), r[8] \in Word
    PROVE  LET s == Run(ChoiceProgram, r)
           IN  /\ IsFile(s)
               /\ s[Spill] = Add(r[2], Ch(r[8], r[9], r[10]))
               /\ \A q \in 4..11 : s[q] = r[q]
<1> DEFINE P == ChoiceProgram
<1>1. Len(P) = 7 /\ 7 \in Nat
  BY DEF ChoiceProgram
<1> HIDE DEF P
<1>2. PICK f : Executes(f, P, 7, r, Run(P, r))
  BY <1>1, RunIs
<1>3. /\ f[0] = r /\ Run(P, r) = f[7]
      /\ \A n \in 1..7 : f[n] = Exec(P[n], f[n - 1])
  BY <1>2 DEF Executes
<1> USE DEF P
<1>4. {2, 3, 15, Spill} \subseteq Registers
  BY DEF Registers, Spill
<1>5. /\ f[1] = Exec(<<"and", 15, 8, 9>>, f[0])
      /\ f[2] = Exec(<<"lit", 3, Bits>>, f[1])
      /\ f[3] = Exec(<<"xor", 3, 8, 3>>, f[2])
      /\ f[4] = Exec(<<"and", 3, 3, 10>>, f[3])
      /\ f[5] = Exec(<<"xor", 15, 15, 3>>, f[4])
      /\ f[6] = Exec(<<"add", 2, 2, 15>>, f[5])
      /\ f[7] = Exec(<<"mov", Spill, 2>>, f[6])
  BY <1>3 DEF ChoiceProgram
<1> HIDE DEF P
<1>6. IsFile(f[1]) /\ Wrote(f[1], f[0], 15, f[0][8] \cap f[0][9])
  BY <1>4, <1>5, <1>3, Instructions DEF Does
<1>7. IsFile(f[2]) /\ Wrote(f[2], f[1], 3, Bits)
  BY <1>4, <1>5, <1>6, Instructions DEF Does
<1>8. IsFile(f[3]) /\ Wrote(f[3], f[2], 3, Xor(f[2][8], f[2][3]))
  BY <1>4, <1>5, <1>7, Instructions DEF Does
<1>9. IsFile(f[4]) /\ Wrote(f[4], f[3], 3, f[3][3] \cap f[3][10])
  BY <1>4, <1>5, <1>8, Instructions DEF Does
<1>10. IsFile(f[5]) /\ Wrote(f[5], f[4], 15, Xor(f[4][15], f[4][3]))
  BY <1>4, <1>5, <1>9, Instructions DEF Does
<1>11. IsFile(f[6]) /\ Wrote(f[6], f[5], 2, Add(f[5][2], f[5][15]))
  BY <1>4, <1>5, <1>10, Instructions DEF Does
<1>12. IsFile(f[7]) /\ Wrote(f[7], f[6], Spill, f[6][2])
  BY <1>4, <1>5, <1>11, Instructions DEF Does
<1>13. /\ f[1][15] = r[8] \cap r[9]
      /\ \A q \in 4..11 : f[1][q] = r[q]
      /\ f[1][2] = r[2]
  BY <1>3, <1>6 DEF Wrote, Registers, Spill
<1>14. /\ f[2][15] = r[8] \cap r[9]
      /\ f[2][3] = Bits
      /\ \A q \in 4..11 : f[2][q] = r[q]
      /\ f[2][2] = r[2]
  BY <1>13, <1>7 DEF Wrote, Registers, Spill
<1>15. /\ f[3][15] = r[8] \cap r[9]
      /\ f[3][3] = Xor(r[8], Bits)
      /\ \A q \in 4..11 : f[3][q] = r[q]
      /\ f[3][2] = r[2]
  BY <1>14, <1>8 DEF Wrote, Registers, Spill
<1>16. /\ f[4][15] = r[8] \cap r[9]
      /\ f[4][3] = Xor(r[8], Bits) \cap r[10]
      /\ \A q \in 4..11 : f[4][q] = r[q]
      /\ f[4][2] = r[2]
  BY <1>15, <1>9 DEF Wrote, Registers, Spill
<1>17. /\ f[5][15] = Xor(r[8] \cap r[9], Xor(r[8], Bits) \cap r[10])
      /\ f[5][3] = Xor(r[8], Bits) \cap r[10]
      /\ \A q \in 4..11 : f[5][q] = r[q]
      /\ f[5][2] = r[2]
  BY <1>16, <1>10 DEF Wrote, Registers, Spill
<1>18. /\ f[6][15] = Xor(r[8] \cap r[9], Xor(r[8], Bits) \cap r[10])
      /\ f[6][3] = Xor(r[8], Bits) \cap r[10]
      /\ f[6][2] = Add(r[2], Xor(r[8] \cap r[9], Xor(r[8], Bits) \cap r[10]))
      /\ \A q \in 4..11 : f[6][q] = r[q]
  BY <1>17, <1>11 DEF Wrote, Registers, Spill
<1>19. /\ f[7][15] = Xor(r[8] \cap r[9], Xor(r[8], Bits) \cap r[10])
      /\ f[7][3] = Xor(r[8], Bits) \cap r[10]
      /\ f[7][2] = Add(r[2], Xor(r[8] \cap r[9], Xor(r[8], Bits) \cap r[10]))
      /\ f[7][Spill] = Add(r[2], Xor(r[8] \cap r[9], Xor(r[8], Bits) \cap r[10]))
      /\ \A q \in 4..11 : f[7][q] = r[q]
  BY <1>18, <1>12 DEF Wrote, Registers, Spill
<1>20. Xor(r[8], Bits) = Not(r[8])
  BY DEF Xor, Not, Word
<1> QED
  BY <1>20, <1>3, <1>12, <1>19 DEF P, Ch

\* a2 starts again with BSIG0(a),
LEMMA Sigma0Runs ==
    ASSUME NEW r, IsFile(r)
    PROVE  LET s == Run(Sigma0Program, r)
           IN  /\ IsFile(s)
               /\ s[2] = BigSigma0(r[4])
               /\ s[Spill] = r[Spill]
               /\ \A q \in 4..11 : s[q] = r[q]
<1> DEFINE P == Sigma0Program
<1>1. Len(P) = 5 /\ 5 \in Nat
  BY DEF Sigma0Program
<1> HIDE DEF P
<1>2. PICK f : Executes(f, P, 5, r, Run(P, r))
  BY <1>1, RunIs
<1>3. /\ f[0] = r /\ Run(P, r) = f[5]
      /\ \A n \in 1..5 : f[n] = Exec(P[n], f[n - 1])
  BY <1>2 DEF Executes
<1> USE DEF P
<1>4. {2, 3} \subseteq Registers
  BY DEF Registers, Spill
<1>5. /\ f[1] = Exec(<<"ror", 2, 4, 2>>, f[0])
      /\ f[2] = Exec(<<"ror", 3, 4, 13>>, f[1])
      /\ f[3] = Exec(<<"xor", 2, 2, 3>>, f[2])
      /\ f[4] = Exec(<<"ror", 3, 4, 22>>, f[3])
      /\ f[5] = Exec(<<"xor", 2, 2, 3>>, f[4])
  BY <1>3 DEF Sigma0Program
<1> HIDE DEF P
<1>6. IsFile(f[1]) /\ Wrote(f[1], f[0], 2, Rotr(f[0][4], 2))
  BY <1>4, <1>5, <1>3, Instructions DEF Does
<1>7. IsFile(f[2]) /\ Wrote(f[2], f[1], 3, Rotr(f[1][4], 13))
  BY <1>4, <1>5, <1>6, Instructions DEF Does
<1>8. IsFile(f[3]) /\ Wrote(f[3], f[2], 2, Xor(f[2][2], f[2][3]))
  BY <1>4, <1>5, <1>7, Instructions DEF Does
<1>9. IsFile(f[4]) /\ Wrote(f[4], f[3], 3, Rotr(f[3][4], 22))
  BY <1>4, <1>5, <1>8, Instructions DEF Does
<1>10. IsFile(f[5]) /\ Wrote(f[5], f[4], 2, Xor(f[4][2], f[4][3]))
  BY <1>4, <1>5, <1>9, Instructions DEF Does
<1> QED
  BY <1>3, <1>6, <1>7, <1>8, <1>9, <1>10 DEF P, Wrote, Registers, Spill, BigSigma0

\* then with MAJ(a, b, c),
LEMMA MajorityRuns ==
    ASSUME NEW r, IsFile(r)
    PROVE  LET s == Run(MajorityProgram, r)
           IN  /\ IsFile(s)
               /\ s[2] = Add(r[2], Majority(r[4], r[5], r[6]))
               /\ s[Spill] = r[Spill]
               /\ \A q \in 4..11 : s[q] = r[q]
<1> DEFINE P == MajorityProgram
<1>1. Len(P) = 5 /\ 5 \in Nat
  BY DEF MajorityProgram
<1> HIDE DEF P
<1>2. PICK f : Executes(f, P, 5, r, Run(P, r))
  BY <1>1, RunIs
<1>3. /\ f[0] = r /\ Run(P, r) = f[5]
      /\ \A n \in 1..5 : f[n] = Exec(P[n], f[n - 1])
  BY <1>2 DEF Executes
<1> USE DEF P
<1>4. {2, 3, 15} \subseteq Registers
  BY DEF Registers, Spill
<1>5. /\ f[1] = Exec(<<"xor", 3, 4, 5>>, f[0])
      /\ f[2] = Exec(<<"and", 3, 3, 6>>, f[1])
      /\ f[3] = Exec(<<"and", 15, 4, 5>>, f[2])
      /\ f[4] = Exec(<<"xor", 3, 15, 3>>, f[3])
      /\ f[5] = Exec(<<"add", 2, 2, 3>>, f[4])
  BY <1>3 DEF MajorityProgram
<1> HIDE DEF P
<1>6. IsFile(f[1]) /\ Wrote(f[1], f[0], 3, Xor(f[0][4], f[0][5]))
  BY <1>4, <1>5, <1>3, Instructions DEF Does
<1>7. IsFile(f[2]) /\ Wrote(f[2], f[1], 3, f[1][3] \cap f[1][6])
  BY <1>4, <1>5, <1>6, Instructions DEF Does
<1>8. IsFile(f[3]) /\ Wrote(f[3], f[2], 15, f[2][4] \cap f[2][5])
  BY <1>4, <1>5, <1>7, Instructions DEF Does
<1>9. IsFile(f[4]) /\ Wrote(f[4], f[3], 3, Xor(f[3][15], f[3][3]))
  BY <1>4, <1>5, <1>8, Instructions DEF Does
<1>10. IsFile(f[5]) /\ Wrote(f[5], f[4], 2, Add(f[4][2], f[4][3]))
  BY <1>4, <1>5, <1>9, Instructions DEF Does
<1>11. /\ f[1][3] = Xor(r[4], r[5])
      /\ \A q \in 4..11 : f[1][q] = r[q]
      /\ f[1][Spill] = r[Spill]
      /\ f[1][2] = r[2]
  BY <1>3, <1>6 DEF Wrote, Registers, Spill
<1>12. /\ f[2][3] = Xor(r[4], r[5]) \cap r[6]
      /\ \A q \in 4..11 : f[2][q] = r[q]
      /\ f[2][Spill] = r[Spill]
      /\ f[2][2] = r[2]
  BY <1>11, <1>7 DEF Wrote, Registers, Spill
<1>13. /\ f[3][3] = Xor(r[4], r[5]) \cap r[6]
      /\ f[3][15] = r[4] \cap r[5]
      /\ \A q \in 4..11 : f[3][q] = r[q]
      /\ f[3][Spill] = r[Spill]
      /\ f[3][2] = r[2]
  BY <1>12, <1>8 DEF Wrote, Registers, Spill
<1>14. /\ f[4][3] = Xor(r[4] \cap r[5], Xor(r[4], r[5]) \cap r[6])
      /\ f[4][15] = r[4] \cap r[5]
      /\ \A q \in 4..11 : f[4][q] = r[q]
      /\ f[4][Spill] = r[Spill]
      /\ f[4][2] = r[2]
  BY <1>13, <1>9 DEF Wrote, Registers, Spill
<1>15. /\ f[5][3] = Xor(r[4] \cap r[5], Xor(r[4], r[5]) \cap r[6])
      /\ f[5][15] = r[4] \cap r[5]
      /\ f[5][2] = Add(r[2], Xor(r[4] \cap r[5], Xor(r[4], r[5]) \cap r[6]))
      /\ \A q \in 4..11 : f[5][q] = r[q]
      /\ f[5][Spill] = r[Spill]
  BY <1>14, <1>10 DEF Wrote, Registers, Spill
<1> QED
  BY <1>3, <1>10, <1>15 DEF P, Majority

\* and all move up.
LEMMA MovesRuns ==
    ASSUME NEW r, IsFile(r)
    PROVE  LET s == Run(MovesProgram, r)
           IN  /\ IsFile(s)
               /\ s[4] = Add(r[2], r[Spill]) /\ s[5] = r[4] /\ s[6] = r[5] /\ s[7] = r[6]
               /\ s[8] = Add(r[7], r[Spill]) /\ s[9] = r[8] /\ s[10] = r[9] /\ s[11] = r[10]
<1> DEFINE P == MovesProgram
<1>1. Len(P) = 10 /\ 10 \in Nat
  BY DEF MovesProgram
<1> HIDE DEF P
<1>2. PICK f : Executes(f, P, 10, r, Run(P, r))
  BY <1>1, RunIs
<1>3. /\ f[0] = r /\ Run(P, r) = f[10]
      /\ \A n \in 1..10 : f[n] = Exec(P[n], f[n - 1])
  BY <1>2 DEF Executes
<1> USE DEF P
<1>4. {3, 4, 5, 6, 7, 8, 9, 10, 11, 15} \subseteq Registers
  BY DEF Registers, Spill
<1>5. /\ f[1] = Exec(<<"mov", 11, 10>>, f[0])
      /\ f[2] = Exec(<<"mov", 10, 9>>, f[1])
      /\ f[3] = Exec(<<"mov", 9, 8>>, f[2])
      /\ f[4] = Exec(<<"mov", 15, Spill>>, f[3])
      /\ f[5] = Exec(<<"add", 8, 7, 15>>, f[4])
      /\ f[6] = Exec(<<"mov", 7, 6>>, f[5])
      /\ f[7] = Exec(<<"mov", 6, 5>>, f[6])
      /\ f[8] = Exec(<<"mov", 5, 4>>, f[7])
      /\ f[9] = Exec(<<"add", 4, 2, 15>>, f[8])
      /\ f[10] = Exec(<<"lit", 3, {6}>>, f[9])
  BY <1>3 DEF MovesProgram
<1> HIDE DEF P
<1>6. IsFile(f[1]) /\ Wrote(f[1], f[0], 11, f[0][10])
  BY <1>4, <1>5, <1>3, Instructions DEF Does
<1>7. IsFile(f[2]) /\ Wrote(f[2], f[1], 10, f[1][9])
  BY <1>4, <1>5, <1>6, Instructions DEF Does
<1>8. IsFile(f[3]) /\ Wrote(f[3], f[2], 9, f[2][8])
  BY <1>4, <1>5, <1>7, Instructions DEF Does
<1>9. IsFile(f[4]) /\ Wrote(f[4], f[3], 15, f[3][Spill])
  BY <1>4, <1>5, <1>8, Instructions DEF Does
<1>10. IsFile(f[5]) /\ Wrote(f[5], f[4], 8, Add(f[4][7], f[4][15]))
  BY <1>4, <1>5, <1>9, Instructions DEF Does
<1>11. IsFile(f[6]) /\ Wrote(f[6], f[5], 7, f[5][6])
  BY <1>4, <1>5, <1>10, Instructions DEF Does
<1>12. IsFile(f[7]) /\ Wrote(f[7], f[6], 6, f[6][5])
  BY <1>4, <1>5, <1>11, Instructions DEF Does
<1>13. IsFile(f[8]) /\ Wrote(f[8], f[7], 5, f[7][4])
  BY <1>4, <1>5, <1>12, Instructions DEF Does
<1>14. IsFile(f[9]) /\ Wrote(f[9], f[8], 4, Add(f[8][2], f[8][15]))
  BY <1>4, <1>5, <1>13, Instructions DEF Does
<1>15. IsFile(f[10]) /\ Wrote(f[10], f[9], 3, {6})
  BY <1>4, <1>5, <1>14, Instructions DEF Does
<1> QED
  BY <1>3, <1>6, <1>7, <1>8, <1>9, <1>10, <1>11, <1>12, <1>13, <1>14, <1>15 DEF P, Wrote,
     Registers, Spill

\* A round leaves in a4..a11 the working variables of AsmT1 and AsmT2.
WorkingOf(r) == [i \in 1..8 |-> r[i + 3]]

LEMMA RoundRuns ==
    ASSUME NEW r, IsFile(r), r[8] \in Word, NEW k, NEW x
    PROVE  LET s == AfterRound(r, k, x)
               v == WorkingOf(r)
           IN  IsFile(s) /\ WorkingOf(s) = Rotated(v, AsmT1(v, k, x), AsmT2(v))
<1> DEFINE p == Run(SumProgram(k, x), r)
           q == Run(Sigma1Program, p)
           u == Run(ChoiceProgram, q)
           y == Run(Sigma0Program, u)
           z == Run(MajorityProgram, y)
           s == Run(MovesProgram, z)
           v == WorkingOf(r)
           t1 == AsmT1(v, k, x)
           t2 == AsmT2(v)
<1>1. /\ IsFile(p) /\ p[2] = Add(Add(k, x), r[11])
      /\ \A n \in 4..11 : p[n] = r[n]
  BY SumRuns
<1>2. /\ IsFile(q) /\ q[2] = Add(p[2], BigSigma1(p[8]))
      /\ \A n \in 4..11 : q[n] = p[n]
  <2> HIDE DEF p
  <2> QED
    BY <1>1, Sigma1Runs
<1>3. /\ IsFile(u) /\ u[Spill] = Add(q[2], Ch(q[8], q[9], q[10]))
      /\ \A n \in 4..11 : u[n] = q[n]
  <2>1. q[8] \in Word
    BY <1>1, <1>2
  <2> HIDE DEF q
  <2> QED
    BY <1>2, <2>1, ChoiceRuns
<1>4. /\ IsFile(y) /\ y[2] = BigSigma0(u[4]) /\ y[Spill] = u[Spill]
      /\ \A n \in 4..11 : y[n] = u[n]
  <2> HIDE DEF u
  <2> QED
    BY <1>3, Sigma0Runs
<1>5. /\ IsFile(z) /\ z[2] = Add(y[2], Majority(y[4], y[5], y[6])) /\ z[Spill] = y[Spill]
      /\ \A n \in 4..11 : z[n] = y[n]
  <2> HIDE DEF y
  <2> QED
    BY <1>4, MajorityRuns
<1>6. /\ IsFile(s)
      /\ s[4] = Add(z[2], z[Spill]) /\ s[5] = z[4] /\ s[6] = z[5] /\ s[7] = z[6]
      /\ s[8] = Add(z[7], z[Spill]) /\ s[9] = z[8] /\ s[10] = z[9] /\ s[11] = z[10]
  <2> HIDE DEF z
  <2> QED
    BY <1>5, MovesRuns
<1>7. AfterRound(r, k, x) = s
  BY DEF AfterRound
<1> HIDE DEF p, q, u, y, z, s
<1>8. \A n \in 4..11 : z[n] = r[n] /\ y[n] = r[n] /\ u[n] = r[n] /\ q[n] = r[n] /\ p[n] = r[n]
  BY <1>1, <1>2, <1>3, <1>4, <1>5
<1>9. \A i \in 1..8 : v[i] = r[i + 3]
  BY DEF WorkingOf
<1>10. z[Spill] = t1
  <2>1. z[Spill] = Add(Add(Add(Add(k, x), r[11]), BigSigma1(r[8])), Ch(r[8], r[9], r[10]))
    BY <1>1, <1>2, <1>3, <1>4, <1>5, <1>8
  <2> QED
    BY <2>1, <1>9 DEF AsmT1
<1>11. z[2] = t2
  <2>1. z[2] = Add(BigSigma0(r[4]), Majority(r[4], r[5], r[6]))
    BY <1>4, <1>5, <1>8
  <2> QED
    BY <2>1, <1>9 DEF AsmT2
<1> HIDE DEF t1, t2, v
<1>12. WorkingOf(s) = Rotated(v, t1, t2)
  <2>1. /\ s[4] = Add(t2, t1) /\ s[5] = v[1] /\ s[6] = v[2] /\ s[7] = v[3]
        /\ s[8] = Add(v[4], t1) /\ s[9] = v[5] /\ s[10] = v[6] /\ s[11] = v[7]
    BY <1>6, <1>8, <1>9, <1>10, <1>11
  <2> DEFINE o == Rotated(v, t1, t2)
  <2>2. /\ o = [i \in 1..8 |-> o[i]]
        /\ o[1] = s[4] /\ o[2] = s[5] /\ o[3] = s[6] /\ o[4] = s[7]
        /\ o[5] = s[8] /\ o[6] = s[9] /\ o[7] = s[10] /\ o[8] = s[11]
    BY <2>1 DEF Rotated
  <2> HIDE DEF o
  <2>3. \A i \in 1..8 : o[i] = s[i + 3]
    BY <2>2
  <2> QED
    BY <2>2, <2>3 DEF o, WorkingOf
<1> QED
  BY <1>6, <1>7, <1>12 DEF v, t1, t2

(***************************************************************************)
(* The refinement                                                          *)
(***************************************************************************)

LEMMA RotatedIsRoundOf ==
    ASSUME NEW r, NEW k, NEW x
    PROVE  Rotated(r, AsmT1(r, k, x), AsmT2(r)) = C!RoundOf(r, k, x)
<1>1. AsmT1(r, k, x) = C!T1(r, k, x)
  BY AsmT1IsT1
<1>2. AsmT2(r) = C!T2(r)
  BY MajorityIsMaj, SameWords DEF AsmT2, C!T2
<1>3. Add(C!T2(r), C!T1(r, k, x)) = Add(C!T1(r, k, x), C!T2(r))
  BY AddCommutative
<1> QED
  BY <1>1, <1>2, <1>3, SameWords DEF Rotated, C!RoundOf

\* What comes out of an operation on words is a word.
LEMMA WordsClosed ==
    /\ \A x \in Word, y \in Word : Add(x, y) \in Word /\ Xor(x, y) \in Word
    /\ \A x, n : Shl(x, n) \in Word /\ Shr(x, n) \in Word /\ Rotr(x, n) \in Word
    /\ \A x \in Word, y \in Word, z \in Word : Ch(x, y, z) \in Word
    /\ \A x : BigSigma0(x) \in Word /\ BigSigma1(x) \in Word
    /\ \A x : SmallSigma0(x) \in Word /\ SmallSigma1(x) \in Word
<1>1. \A x \in Word, y \in Word : Add(x, y) \in Word /\ Xor(x, y) \in Word
  BY DEF Add, Xor, Carry, Word
<1>2. \A x, n : Shl(x, n) \in Word /\ Shr(x, n) \in Word
  BY DEF Shl, Shr, Word
<1>3. \A x, n : Rotr(x, n) \in Word
  BY <1>2 DEF Rotr, Word
<1>4. \A x \in Word, y \in Word, z \in Word : Ch(x, y, z) \in Word
  BY DEF Ch, Xor, Not, Word
<1> QED
  BY <1>1, <1>2, <1>3, <1>4 DEF BigSigma0, BigSigma1, SmallSigma0, SmallSigma1

\* What the steps need of the length of W[], n words so far.
LEMMA Counts ==
    /\ \A n \in Nat : n < 16 => n \in 0..15
    /\ \A n \in 0..15 : 4*n + 4 \in 1..64 /\ n + 1 <= 64 /\ n # 64
    /\ \A n \in 16..63 : /\ n + 1 <= 64 /\ n # 64 /\ n # 0
                        /\ n - 15 \in 1..n /\ n - 15 + 9 \in 1..n
                        /\ n - 15 + 14 = n + 1 - 2 /\ n - 15 + 9 = n + 1 - 7
                        /\ n - 15 + 1 = n + 1 - 15 /\ n - 15 = n + 1 - 16
    /\ 0 <= 64 /\ 0 # 64
  OBVIOUS

\* What they need of sequences.
LEMMA Lengths ==
    /\ \A s \in Seq(Word) : Len(s) \in Nat
    /\ \A s \in Seq(Block) : s # <<>> => Head(s) \in Block /\ Tail(s) \in Seq(Block)
    /\ \A s \in Seq(Word), x \in Word : Append(s, x) \in Seq(Word) /\ Len(Append(s, x)) = Len(s) + 1
    /\ \A s \in Seq(Word) : \A i \in 1..Len(s) : s[i] \in Word
    /\ <<>> \in Seq(Word) /\ Len(<<>>) = 0
  OBVIOUS

\* The round index counts up to 64 and not past it: `bne a14, 64' would go on.
RoundsBounded == t \in 0..64

\* Types; the registers hold words from .Lround on, the index is 0 before it, and the
\* schedule belongs to a block.
AsmTypeInv ==
    /\ blocks \in Seq(Block) /\ state \in State
    /\ w \in Seq(Word) /\ Len(w) <= 64
    /\ w # <<>> => blocks # <<>>
    /\ IsFile(reg)
    /\ inRounds \in BOOLEAN
    /\ inRounds => Len(w) = 64 /\ \A q \in 4..11 : reg[q] \in Word
    /\ RoundsBounded
    /\ t # 0 => inRounds

\* Load appends a word, that of four bytes.
LEMMA LoadStep ==
    ASSUME AsmTypeInv, Load
    PROVE  AsmTypeInv' /\ C!LoadWord
<1> DEFINE b == Head(blocks)
           word == LoadedWord(b, Len(w))
<1>1. Len(w) \in 0..15 /\ ~ inRounds /\ b \in Block /\ IsFile(reg)
  <2>1. w \in Seq(Word) /\ Len(w) < 16 /\ blocks \in Seq(Block) /\ blocks # <<>>
    BY DEF AsmTypeInv, Load
  <2>2. Len(w) \in 0..15 /\ b \in Block
    BY <2>1, Counts, Lengths, Zenon
  <2>3. ~ inRounds
    BY <2>2, Counts, Zenon DEF AsmTypeInv
  <2> QED
    BY <2>2, <2>3 DEF AsmTypeInv
<1>2. IsFile(reg') /\ w' = Append(w, word)
  <2> HIDE DEF b
  <2> QED
    BY <1>1, LoadRuns DEF Load, b
<1>3. word \in Word
  <2>1. b[4*Len(w) + 4] \in Byte
    <3>1. Len(w) \in 0..15 /\ b \in [1..64 -> Byte]
      BY <1>1 DEF Block
    <3>2. 4*Len(w) + 4 \in 1..64
      BY <3>1, Counts, Zenon
    <3> HIDE DEF b
    <3> QED
      BY <3>1, <3>2
  <2> HIDE DEF b
  <2>2. b[4*Len(w) + 4] \subseteq Bits
    <3> DEFINE y == b[4*Len(w) + 4]
    <3>1. y \in Byte
      BY <2>1
    <3> HIDE DEF y
    <3>2. y \subseteq 0..7 /\ 0..7 \subseteq Bits
      BY <3>1 DEF Byte, Bits, W
    <3>3. y \subseteq Bits
      BY <3>2
    <3> QED
      BY <3>3 DEF y
  <2>3. \A x : Shl(x, 8) \subseteq Bits
    BY DEF Shl
  <2> QED
    BY <2>2, <2>3 DEF LoadedWord, Word
<1>4. word = C!WordOf(b, Len(w))
  BY LoadedWordIsWordOf
<1> HIDE DEF word, b
<1>5. w' \in Seq(Word) /\ Len(w') = Len(w) + 1
  BY <1>1, <1>2, <1>3, Lengths, Zenon DEF AsmTypeInv
<1>6. AsmTypeInv'
  <2>1. /\ UNCHANGED <<blocks, state, t>> /\ inRounds' = FALSE /\ t = 0 /\ blocks # <<>>
        /\ blocks \in Seq(Block) /\ state \in State
    BY <1>1 DEF AsmTypeInv, Load
  <2>2. Len(w') <= 64
    BY <1>1, <1>5, Counts, Zenon
  <2> QED
    BY <1>2, <1>5, <2>1, <2>2 DEF AsmTypeInv, RoundsBounded
<1>7. Working' = Working
  BY <1>1 DEF Load, Working
<1> QED
  BY <1>2, <1>4, <1>6, <1>7 DEF Load, C!LoadWord, b

\* Ext appends the word the C code expands.
LEMMA ExtStep ==
    ASSUME AsmTypeInv, Ext
    PROVE  AsmTypeInv' /\ C!ExpandWord
<1> DEFINE p == Len(w) - 15
           word == ExtendedFrom(w, p)
<1>1. Len(w) \in 16..63 /\ ~ inRounds /\ IsFile(reg) /\ w \in Seq(Word)
  <2>1. Len(w) \in 16..63
    BY DEF Ext
  <2>2. ~ inRounds
    BY <2>1, Counts, Zenon DEF AsmTypeInv
  <2> QED
    BY <2>1, <2>2 DEF AsmTypeInv
<1>2. IsFile(reg') /\ w' = Append(w, word)
  <2> HIDE DEF p
  <2> QED
    BY <1>1, ExtRuns DEF Ext, p
<1>3. word \in Word
  <2>1. w[p + 9] \in Word /\ w[p] \in Word
    <3>1. p + 9 \in 1..Len(w) /\ p \in 1..Len(w)
      BY <1>1, Counts, Zenon
    <3> HIDE DEF p
    <3> QED
      BY <1>1, <3>1, Lengths, Zenon
  <2> HIDE DEF p
  <2> QED
    BY <2>1, WordsClosed DEF ExtendedFrom
<1>4. word = C!Expanded(w)
  <2>1. /\ p + 14 = Len(w) + 1 - 2 /\ p + 9 = Len(w) + 1 - 7
        /\ p + 1 = Len(w) + 1 - 15 /\ p = Len(w) + 1 - 16
    BY <1>1, Counts, Zenon
  <2> HIDE DEF p
  <2> QED
    BY <2>1, SameWords DEF ExtendedFrom, C!Expanded
<1> HIDE DEF word
<1>5. w' \in Seq(Word) /\ Len(w') = Len(w) + 1
  BY <1>1, <1>2, <1>3, Lengths, Zenon
<1>6. AsmTypeInv'
  <2>1. /\ UNCHANGED <<blocks, state, t>> /\ inRounds' = FALSE /\ t = 0 /\ blocks # <<>>
        /\ blocks \in Seq(Block) /\ state \in State
    BY <1>1 DEF AsmTypeInv, Ext
  <2>2. Len(w') <= 64
    BY <1>1, <1>5, Counts, Zenon
  <2> QED
    BY <1>2, <1>5, <2>1, <2>2 DEF AsmTypeInv, RoundsBounded
<1>7. Working' = Working
  BY <1>1 DEF Ext, Working
<1> QED
  BY <1>2, <1>4, <1>6, <1>7 DEF Ext, C!ExpandWord

\* The registers take the chaining state.
LEMMA LoadStateStep ==
    ASSUME AsmTypeInv, LoadState
    PROVE  AsmTypeInv' /\ C!EnterRounds
<1>1. /\ IsFile(reg') /\ inRounds' = TRUE /\ ~ inRounds /\ Len(w) = 64
      /\ \A q \in 4..11 : reg'[q] = state[q - 3]
  BY DEF LoadState, IsFile, Registers, Spill
<1>2. state = [i \in 1..8 |-> state[i]] /\ \A i \in 1..8 : state[i] \in Word
  BY DEF AsmTypeInv, State
<1>3. Working = <<>> /\ Working' = state
  BY <1>1, <1>2 DEF Working
<1>4. AsmTypeInv'
  <2>1. \A q \in 4..11 : reg'[q] \in Word
    BY <1>1, <1>2
  <2>2. UNCHANGED <<blocks, state, w, t>>
    BY DEF LoadState
  <2> QED
    BY <1>1, <2>1, <2>2 DEF AsmTypeInv, RoundsBounded
<1> QED
  BY <1>1, <1>3, <1>4 DEF LoadState, C!EnterRounds

\* A round of the registers is a round of the working variables.
LEMMA RoundStep ==
    ASSUME AsmTypeInv, AsmRound
    PROVE  AsmTypeInv' /\ C!Round
<1> DEFINE k == K[t + 1]
           x == w[t + 1]
           v == WorkingOf(reg)
<1>1. /\ t \in 0..63 /\ inRounds /\ inRounds' /\ IsFile(reg) /\ Len(w) = 64
      /\ \A q \in 4..11 : reg[q] \in Word
  BY DEF AsmTypeInv, AsmRound, RoundsBounded
<1>2. k \in Word /\ x \in Word
  <2>1. t + 1 \in 1..64 /\ w \in Seq(Word) /\ 64 = Len(w)
    <3>1. t + 1 \in 1..64
      BY <1>1
    <3> QED
      BY <1>1, <3>1, Zenon DEF AsmTypeInv
  <2>2. K[t + 1] \in Word
    BY <2>1, KAssumption
  <2>3. w[t + 1] \in Word
    BY <2>1, Lengths, Zenon
  <2> QED
    BY <2>2, <2>3
<1> HIDE DEF k, x
<1>3. reg[8] \in Word /\ reg' = AfterRound(reg, k, x)
  BY <1>1 DEF AsmRound, k, x
<1>4. IsFile(reg') /\ WorkingOf(reg') = Rotated(v, AsmT1(v, k, x), AsmT2(v))
  BY <1>1, <1>3, RoundRuns
<1>5. \A i \in 1..8 : v[i] \in Word
  BY <1>1 DEF WorkingOf
<1>6. AsmT1(v, k, x) \in Word /\ AsmT2(v) \in Word
  <2>1. Ch(v[5], v[6], v[7]) \in Word /\ v[8] \in Word
    BY <1>5, WordsClosed
  <2>2. AsmT1(v, k, x) \in Word
    BY <1>2, <2>1, WordsClosed DEF AsmT1
  <2>3. Majority(v[1], v[2], v[3]) \in Word
    BY <1>5 DEF Majority, Xor, Word
  <2> QED
    BY <2>2, <2>3, WordsClosed DEF AsmT2
<1> DEFINE t1 == AsmT1(v, k, x)
           t2 == AsmT2(v)
           o == Rotated(v, t1, t2)
<1>7. \A i \in 1..8 : o[i] \in Word
  <2>1. Add(t2, t1) \in Word /\ Add(v[4], t1) \in Word
    BY <1>5, <1>6, WordsClosed
  <2> HIDE DEF t1, t2
  <2>2. v[1] \in Word /\ v[2] \in Word /\ v[3] \in Word /\ v[5] \in Word /\ v[6] \in Word
        /\ v[7] \in Word
    BY <1>5
  <2> HIDE DEF v
  <2> QED
    BY <2>1, <2>2 DEF Rotated
<1> HIDE DEF o, v
<1>8. \A q \in 4..11 : reg'[q] \in Word
  <2>1. \A i \in 1..8 : reg'[i + 3] = o[i]
    BY <1>4 DEF WorkingOf, o
  <2>2. \A q \in 4..11 : q - 3 \in 1..8 /\ (q - 3) + 3 = q
    OBVIOUS
  <2> QED
    BY <2>1, <2>2, <1>7
<1>9. AsmTypeInv'
  BY <1>1, <1>4, <1>8 DEF AsmTypeInv, AsmRound, RoundsBounded
<1>10. Working = v /\ Working' = C!RoundOf(v, k, x)
  BY <1>1, <1>4, RotatedIsRoundOf DEF Working, WorkingOf, v
<1>11. Working # <<>>
  <2>1. DOMAIN v = 1..8 /\ 1 \in 1..8 /\ 1 \notin DOMAIN <<>>
    BY DEF v, WorkingOf
  <2> QED
    BY <1>10, <2>1
<1> QED
  BY <1>1, <1>9, <1>10, <1>11 DEF AsmRound, C!Round, k, x

\* The feed-forward, and the registers of the next call.
LEMMA AddStateStep ==
    ASSUME AsmTypeInv, AddState
    PROVE  AsmTypeInv' /\ C!AddBack
<1>1. inRounds /\ Len(w) = 64 /\ blocks # <<>> /\ \A q \in 4..11 : reg[q] \in Word
  <2>1. inRounds
    BY DEF AsmTypeInv, AddState
  <2>2. Len(w) = 64 /\ \A q \in 4..11 : reg[q] \in Word
    BY <2>1 DEF AsmTypeInv
  <2>3. w # <<>>
    BY <2>2, Lengths, Counts, Zenon
  <2> QED
    BY <2>1, <2>2, <2>3 DEF AsmTypeInv
<1>2. \A i \in 1..8 : reg[i + 3] = Working[i] /\ Working[i] \in Word
  BY <1>1 DEF Working
<1>3. state' = [i \in 1..8 |-> C!Add(state[i], Working[i])]
  BY <1>2, SameWords DEF AddState
<1>4. state' \in State
  <2>1. \A i \in 1..8 : Add(state[i], Working[i]) \in Word
    BY <1>2, WordsClosed DEF AsmTypeInv, State
  <2> QED
    BY <1>3, <2>1, SameWords DEF State
<1>5. IsFile(reg')
  BY LeftoversAssumption DEF AddState, IsFile
<1>6. blocks' \in Seq(Block) /\ w' = <<>> /\ t' = 0 /\ inRounds' = FALSE
  BY <1>1 DEF AddState, AsmTypeInv
<1>7. AsmTypeInv'
  <2>1. w' \in Seq(Word) /\ Len(w') <= 64
    BY <1>6, Lengths, Counts
  <2>2. RoundsBounded'
    BY <1>6 DEF RoundsBounded
  <2> QED
    BY <1>4, <1>5, <1>6, <2>1, <2>2, Zenon DEF AsmTypeInv
<1>8. Working' = <<>>
  BY <1>6 DEF Working
<1> QED
  BY <1>3, <1>7, <1>8 DEF AddState, C!AddBack

LEMMA EntryTypes == Entry => AsmTypeInv /\ C!Init
<1> SUFFICES ASSUME Entry PROVE AsmTypeInv /\ C!Init
  OBVIOUS
<1>1. blocks \in Seq(Block) /\ state \in State
  BY InputsAssumption DEF Entry
<1>2. IsFile(reg)
  BY LeftoversAssumption DEF Entry, IsFile
<1>3. Working = <<>>
  BY DEF Entry, Working
<1>4. AsmTypeInv
  <2>1. w \in Seq(Word) /\ Len(w) <= 64 /\ w = <<>>
    BY Lengths, Counts DEF Entry
  <2>2. RoundsBounded /\ t = 0 /\ inRounds = FALSE
    BY DEF Entry, RoundsBounded
  <2> QED
    BY <1>1, <1>2, <2>1, <2>2, Zenon DEF AsmTypeInv
<1> QED
  BY <1>3, <1>4 DEF Entry, C!Init

\* Every step keeps the types and is one of the C code.
LEMMA AsmStep == AsmTypeInv /\ [AsmNext]_asmVars => AsmTypeInv' /\ [C!Next]_(C!vars)
<1> SUFFICES ASSUME AsmTypeInv, [AsmNext]_asmVars PROVE AsmTypeInv' /\ [C!Next]_(C!vars)
  OBVIOUS
<1>1. CASE Load
  BY <1>1, LoadStep DEF C!Next
<1>2. CASE Ext
  BY <1>2, ExtStep DEF C!Next
<1>3. CASE LoadState
  BY <1>3, LoadStateStep DEF C!Next
<1>4. CASE AsmRound
  BY <1>4, RoundStep DEF C!Next
<1>5. CASE AddState
  BY <1>5, AddStateStep DEF C!Next
<1>6. CASE UNCHANGED asmVars
  BY <1>6 DEF asmVars, AsmTypeInv, RoundsBounded, C!vars, Working
<1> QED
  BY <1>1, <1>2, <1>3, <1>4, <1>5, <1>6 DEF AsmNext

\* The round index of the assembly, which tests for equality with 64, never
\* passes it: the loop over K and W ends inside the two tables.
THEOREM AsmRoundsBounded == AsmSpec => []RoundsBounded
<1>1. AsmTypeInv => RoundsBounded
  BY DEF AsmTypeInv
<1> QED
  BY <1>1, EntryTypes, AsmStep, PTL DEF AsmSpec

\* The assembly of sha256_compress_xtensa.S implements the C code: every turn of
\* one of its loops, instruction after instruction on registers that are used again,
\* has the effect of the same turn in sha256_compress.c, for every input, table of
\* constants, chaining state and old contents of the registers.
THEOREM AsmImplementsC == AsmSpec => ImplementsC
  BY EntryTypes, AsmStep, PTL DEF AsmSpec, ImplementsC, C!Spec
=============================================================================
