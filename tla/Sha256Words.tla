---------------------------- MODULE Sha256Words ----------------------------
(***************************************************************************)
(* 32-bit words as the sets of their one bits, and the operations SHA-256  *)
(* makes on them (src/core/sha256_ref.c, and the macros of                 *)
(* src/core/sha256_compress.c, which are the same text).  With words as    *)
(* sets, & is \cap, | is \cup, and a rotation or a shift renumbers bits.   *)
(* The sum modulo 2^32 is defined by its carries, so that nothing here     *)
(* needs an integer of more than five bits.                                *)
(***************************************************************************)
EXTENDS Naturals

W == 32
Bits == 0..W-1
Word == SUBSET Bits

\* A byte keeps its bits in the positions 0..7; a message block is 64 of them, a
\* chaining state eight words.
Byte == SUBSET (0..7)
Block == [1..64 -> Byte]
State == [1..8 -> Word]

Xor(x, y) == (x \cup y) \ (x \cap y)
Not(x) == Bits \ x
Shl(x, n) == {i \in Bits : i >= n /\ i - n \in x}
Shr(x, n) == {i \in Bits : i + n \in x}
Rotr(x, n) == Shr(x, n) \cup Shl(x, W - n)

\* The positions that receive a carry when x and y are added: both words have
\* the bit at some lower position, and each position between passes it on.
Carry(x, y) ==
    {i \in Bits : \E j \in 0..(i-1) : j \in x \cap y /\ \A k \in (j+1)..(i-1) : k \in x \cup y}

\* Unsigned addition; what leaves the word at the top is lost.
Add(x, y) == Xor(Xor(x, y), Carry(x, y))

Ch(x, y, z) == Xor(x \cap y, Not(x) \cap z)
Maj(x, y, z) == Xor(Xor(x \cap y, x \cap z), y \cap z)

BigSigma0(x) == Xor(Xor(Rotr(x, 2), Rotr(x, 13)), Rotr(x, 22))
BigSigma1(x) == Xor(Xor(Rotr(x, 6), Rotr(x, 11)), Rotr(x, 25))
SmallSigma0(x) == Xor(Xor(Rotr(x, 7), Rotr(x, 18)), Shr(x, 3))
SmallSigma1(x) == Xor(Xor(Rotr(x, 17), Rotr(x, 19)), Shr(x, 10))
=============================================================================
