-------------------------- MODULE MCSha256Xtensa ---------------------------
(***************************************************************************)
(* The assembly on the padded blocks of the NIST messages of               *)
(* src/test/test_sha256.c (one, one and two blocks), and of one block on a *)
(* chaining state that is not the initial one.                             *)
(***************************************************************************)
EXTENDS Sha256Xtensa, Sha256Constants

BitsOfByte(n) == {i \in 0..7 : (n \div 2^i) % 2 = 1}

\* A block from its first bytes and its last two (the length in bits).
PaddedBlock(text, length) ==
    [i \in 1..64 |->
        BitsOfByte(CASE i <= Len(text) -> text[i]
                     [] i = 63 -> length \div 256
                     [] i = 64 -> length % 256
                     [] OTHER -> 0)]

\* abcdbcdecdef...nopq: 14 groups of four consecutive letters.
Letters == [i \in 1..56 |-> 97 + ((i - 1) \div 4) + ((i - 1) % 4)]

EmptyInput == [state |-> H0, blocks |-> <<PaddedBlock(<<128>>, 0)>>]
AbcInput == [state |-> H0, blocks |-> <<PaddedBlock(<<97, 98, 99, 128>>, 24)>>]
LongInput == [state |-> H0,
              blocks |-> <<PaddedBlock(Append(Letters, 128), 0), PaddedBlock(<<>>, 448)>>]
MidInput == [state |-> [i \in 1..8 |-> KTable[i]],
             blocks |-> <<PaddedBlock(<<255, 0, 1>>, 65535)>>]

MCInputs == {EmptyInput, AbcInput, LongInput, MidInput}

\* Registers all clear, and a word of its own in each.
MCLeftovers == {[n \in Registers |-> {}], [n \in Registers |-> {n - 2, 31}]}

EmptyDigest == WordsFrom(
    <<<<\he3b0, \hc442>>, <<\h98fc, \h1c14>>, <<\h9afb, \hf4c8>>, <<\h996f, \hb924>>,
      <<\h27ae, \h41e4>>, <<\h649b, \h934c>>, <<\ha495, \h991b>>, <<\h7852, \hb855>>>>)
AbcDigest == WordsFrom(
    <<<<\hba78, \h16bf>>, <<\h8f01, \hcfea>>, <<\h4141, \h40de>>, <<\h5dae, \h2223>>,
      <<\hb003, \h61a3>>, <<\h9617, \h7a9c>>, <<\hb410, \hff61>>, <<\hf200, \h15ad>>>>)
LongDigest == WordsFrom(
    <<<<\h248d, \h6a61>>, <<\hd206, \h38b8>>, <<\he5c0, \h2693>>, <<\h0c3e, \h6039>>,
      <<\ha33c, \he459>>, <<\h64ff, \h2167>>, <<\hf6ec, \hedd4>>, <<\h19db, \h06c1>>>>)

\* The published digests of src/test/test_sha256.c come out, so the rounds, the
\* constants and the word operations are SHA-256 and not merely consistent.
KnownAnswers ==
    blocks = <<>> =>
        /\ input = EmptyInput => state = EmptyDigest
        /\ input = AbcInput => state = AbcDigest
        /\ input = LongInput => state = LongDigest
=============================================================================
