---------------------------- MODULE HeaderBytes ----------------------------
(***************************************************************************)
(* From the text of a job to the 80 bytes that are hashed: hex decoding,   *)
(* the coinbase (src/core/coinbase.c), the merkle root (src/core/merkle.c) *)
(* and the header with its byte orders (src/core/header.c), in the order   *)
(* both miners call them (src/app_desktop/main.c, and the same code in     *)
(* src/app_esp32/main/main.c).                                             *)
(*                                                                         *)
(* A text is a sequence of characters: 0..15 is a hex digit of that value, *)
(* of either case, NotHex any other character.                             *)
(***************************************************************************)
EXTENDS Sha256Blocks, FiniteSets

CONSTANT CoinbaseMax    \* COINBASE_MAX_BYTES

ASSUME CoinbaseMaxAssumption == CoinbaseMax \in Nat

NotHex == 16
Terminator == 17

HexDigits == 0..15
CharAt(hex, i) == IF i < Len(hex) THEN hex[i + 1] ELSE Terminator

\* The two digits at i, high one first.
PairAt(hex, i) == 16 * CharAt(hex, 2*i) + CharAt(hex, 2*i + 1)
IsPairAt(hex, i) == CharAt(hex, 2*i) \in HexDigits /\ CharAt(hex, 2*i + 1) \in HexDigits

\* header.c: exactly nbytes bytes, and the end of the text after them.
HexDecodes(hex, nbytes) ==
    (\A i \in 0 .. nbytes - 1 : IsPairAt(hex, i)) /\ CharAt(hex, 2*nbytes) = Terminator
HexBytes(hex, nbytes) == [i \in 1..nbytes |-> Val(PairAt(hex, i - 1))]

\* coinbase.c: as many bytes as the text has; -1 for an odd or foreign character
\* and when out_size bytes do not hold them.
DecodedLength(hex, out_size) ==
    LET From[i \in 0..Len(hex)] ==
            IF CharAt(hex, 2*i) = Terminator THEN i
            ELSE IF i >= out_size \/ ~ IsPairAt(hex, i) THEN -1
            ELSE From[i + 1]
    IN  From[0]

\* The four parts one after the other, each into what the others left.
coinbase_assemble(parts) ==
    LET Total[p \in 0..4] ==
            IF p = 0 THEN 0
            ELSE LET total == Total[p - 1]
                     n == IF total < 0 THEN -1 ELSE DecodedLength(parts[p], CoinbaseMax - total)
                 IN  IF n < 0 THEN -1 ELSE total + n
        Bytes(p) == HexBytes(parts[p], Len(parts[p]) \div 2)
    IN  [length |-> Total[4],
         bytes |-> IF Total[4] < 0 THEN <<>> ELSE Bytes(1) \o Bytes(2) \o Bytes(3) \o Bytes(4)]

\* The low size_bytes bytes of the counter, most significant first.
extranonce2_hex(counter, size_bytes) ==
    LET Shifted[i \in 0 .. 2*size_bytes] == IF i = 0 THEN counter ELSE Shifted[i - 1] \div 16
    IN  [k \in 1 .. 2*size_bytes |-> Shifted[2*size_bytes - k] % 16]

\* The hash of a 64-byte pair of hashes, and of the coinbase, as one value.
HashOf(data) == <<"sha256d", data>>
PairHash(left, right) == <<"pair", left, right>>

\* The branch is folded in from the left: current || branch[i].
Folded(current, sibling) == PairHash(current, sibling)
build_merkle_root(leaf, branch) ==
    LET Current[i \in 0..Len(branch)] ==
            IF i = 0 THEN leaf ELSE Folded(Current[i - 1], branch[i])
    IN  Current[Len(branch)]

\* Bytes of a hash in the order SHA-256 writes them.
HashBytes(hash) == [k \in 1..32 |-> <<"hash", k, hash>>]

Reversed(bytes) == [i \in 1..Len(bytes) |-> bytes[Len(bytes) + 1 - i]]
\* Reversed within each word of four bytes, the words in place.  The other
\* reverses the hash as a whole, the way block explorers show it.
BugWordSwapped(bytes) == Reversed(bytes)
WordSwapped(bytes) == [i \in 1..Len(bytes) |-> bytes[4*((i - 1) \div 4) + 4 - ((i - 1) % 4)]]

assemble_header(version, prevhash, root, ntime, nbits, nonce) ==
    [ok |-> /\ HexDecodes(version, 4) /\ HexDecodes(prevhash, 32)
            /\ HexDecodes(ntime, 4) /\ HexDecodes(nbits, 4),
     bytes |-> Reversed(HexBytes(version, 4)) \o WordSwapped(HexBytes(prevhash, 32))
               \o HashBytes(root)
               \o Reversed(HexBytes(ntime, 4)) \o Reversed(HexBytes(nbits, 4))
               \o [k \in 1..4 |-> NonceByte(nonce, k - 1)]]

-----------------------------------------------------------------------------
\* Steps 2 of both main loops: what a job and an extranonce2 are made into, or
\* the reason to skip the job.
BuildTemplate(job, extranonce1, en2) ==
    LET coinbase == coinbase_assemble(<<job.coinb1, extranonce1, en2, job.coinb2>>)
        root == build_merkle_root(HashOf(coinbase.bytes), job.branch)
        header == assemble_header(job.version, job.prevhash, root, job.ntime, job.nbits, 0)
    IN  [ready |-> coinbase.length >= 0 /\ header.ok,
         midstate |-> sha256_midstate(SubSeq(header.bytes, 1, 64)),
         tail |-> SubSeq(header.bytes, 65, 80)]

\* The hash of one nonce of a template.
GrindOne(template, nonce) == sha256d_finish(template.midstate, Patched(template.tail, nonce))
=============================================================================
