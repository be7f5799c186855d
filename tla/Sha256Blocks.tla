---------------------------- MODULE Sha256Blocks ----------------------------
(***************************************************************************)
(* SHA-256 around the block compression: buffering, padding and length in  *)
(* src/core/sha256_ref.c, and the header-shaped double hash of             *)
(* src/core/sha256_fast.c.  The compression itself is in Sha256Compress    *)
(* and is symbolic here: a chaining state is the sequence of the blocks    *)
(* compressed into it, so two digests are equal when and only when the     *)
(* same bytes were compressed in the same order.                           *)
(*                                                                         *)
(* A byte is a tagged tuple, so that known values, bytes of a message,     *)
(* bytes of a digest and memory nobody wrote can be told apart.            *)
(***************************************************************************)
EXTENDS Integers, Sequences

Val(n) == <<"value", n>>
Junk(k) == <<"uninitialised", k>>
DigestByte(chain, k) == <<"digest", k, chain>>

BlockIndex == 0..63
Compress(chain, block) == Append(chain, block)

\* Byte j, from the least significant, of the 64 bits a length is written in.
LengthByte(n, j) ==
    LET Shifted[i \in 0..7] == IF i = 0 THEN n ELSE Shifted[i - 1] \div 256
    IN  Shifted[j] % 256

\* The buffer of a fresh context is whatever was on the stack.
sha256_ref_init ==
    [chain |-> <<>>, buffer |-> [k \in BlockIndex |-> Junk(k)], buffer_len |-> 0, bitlen |-> 0]

\* The turns of the loop up to the one that fills the buffer, or to the last: the
\* bytes go behind those already there, and a full buffer is compressed.
Room(ctx) == 64 - ctx.buffer_len
Fill(ctx, data) ==
    LET taken == IF Len(data) < Room(ctx) THEN Len(data) ELSE Room(ctx)
        end == ctx.buffer_len + taken
        buffer == [k \in BlockIndex |->
                     IF k \in ctx.buffer_len .. end - 1 THEN data[k - ctx.buffer_len + 1]
                                                        ELSE ctx.buffer[k]]
        full == end = 64
    IN  [chain |-> IF full THEN Compress(ctx.chain, buffer) ELSE ctx.chain,
         buffer |-> buffer,
         buffer_len |-> IF full THEN 0 ELSE end,
         bitlen |-> IF full THEN ctx.bitlen + 512 ELSE ctx.bitlen]

sha256_ref_update(ctx, data) ==
    LET Fills == Len(data) \div 64 + 2
        After[n \in 0..Fills] ==
            IF n = 0 THEN [ctx |-> ctx, rest |-> data]
            ELSE LET before == After[n - 1]
                 IN  [ctx |-> Fill(before.ctx, before.rest),
                      rest |-> SubSeq(before.rest, Room(before.ctx) + 1, Len(before.rest))]
    IN  After[Fills].ctx

\* Whether the 0x80, now before position i, has left no room for the length.
BugNoRoom(i) == i >= 56
NoRoom(i) == i > 56

sha256_ref_final(ctx) ==
    LET bits == ctx.bitlen + ctx.buffer_len * 8
        i == ctx.buffer_len + 1
        marked == [ctx.buffer EXCEPT ![ctx.buffer_len] = Val(128)]
        filled == [k \in BlockIndex |-> IF k >= i THEN Val(0) ELSE marked[k]]
        chain == IF NoRoom(i) THEN Compress(ctx.chain, filled) ELSE ctx.chain
        start == IF NoRoom(i) THEN 0 ELSE i
        buffer == IF NoRoom(i) THEN filled ELSE marked
        last == [k \in BlockIndex |->
                    IF k >= 56 THEN Val(LengthByte(bits, 63 - k))
                    ELSE IF k >= start THEN Val(0) ELSE buffer[k]]
    IN  Compress(chain, last)

\* The 32 bytes of a state, where one is hashed again; elsewhere a digest is the
\* state it is written out from.
DigestBytes(chain) == [k \in 1..32 |-> DigestByte(chain, k)]

sha256_ref(data) == sha256_ref_final(sha256_ref_update(sha256_ref_init, data))
sha256d_ref(data) == sha256_ref(DigestBytes(sha256_ref(data)))

-----------------------------------------------------------------------------
\* A block whose first bytes are `data', padded for a message of `bits' bits:
\* the two lengths are written out in the code, 0x0280 and 0x0100.
ClosedBlock(data, bits) ==
    [k \in BlockIndex |->
        CASE k < Len(data) -> data[k + 1]
          [] k = Len(data) -> Val(128)
          [] k = 62 -> Val(bits \div 256)
          [] k = 63 -> Val(bits % 256)
          [] OTHER -> Val(0)]

sha256_midstate(first) == Compress(<<>>, [k \in BlockIndex |-> first[k + 1]])

sha256d_finish(midstate, tail) ==
    LET s1 == Compress(midstate, ClosedBlock(tail, 640))
    IN  Compress(<<>>, ClosedBlock(DigestBytes(s1), 256))

\* The nonce is written over the last four bytes of the tail, least significant
\* first; the other writes it in the order of its hex digits.
NonceByte(nonce, k) == Val((nonce \div 256^k) % 256)
BugPatched(tail, nonce) == SubSeq(tail, 1, 12) \o [k \in 1..4 |-> NonceByte(nonce, 4 - k)]
Patched(tail, nonce) == SubSeq(tail, 1, 12) \o [k \in 1..4 |-> NonceByte(nonce, k - 1)]
=============================================================================
