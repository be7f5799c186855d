----------------------------- MODULE CoreCalls -----------------------------
(***************************************************************************)
(* The pure functions of src/core, called one at a time the way the two    *)
(* main loops and the tests call them, each compared with what it is       *)
(* supposed to compute: arithmetic on the numbers a target stands for, the *)
(* padding of FIPS 180-4, the reference double hash, and the header and    *)
(* the merkle tree the pool itself builds.                                 *)
(***************************************************************************)
EXTENDS HeaderBytes, TargetMath

CONSTANTS CompactTargets,   \* [exponent, low] of the nbits to expand
          Difficulties,     \* [num, den] of the doubles to convert
          Messages,         \* [length, cut] of the messages to hash in two updates
          Builds,           \* [job, txs, extranonce1, size, counter] of the templates
          GrindNonces       \* the nonces tried on a template

\* A job's fields and the pool's extranonce1 are texts, of any length.
IsText(text) == text \in Seq(HexDigits \cup {NotHex})

ASSUME BuildsAssumption ==
    \A b \in Builds :
        /\ \A f \in {b.job.coinb1, b.job.coinb2, b.job.version, b.job.prevhash, b.job.ntime,
                    b.job.nbits, b.extranonce1} : IsText(f)
        /\ b.txs \in Seq({b.txs[i] : i \in DOMAIN b.txs})
        /\ b.size \in Nat /\ b.counter \in Nat

ASSUME CompactAssumption ==
    \A c \in CompactTargets : c.exponent \in Nat /\ c.low \in 0 .. Power(Base, 3) - 1

ASSUME DifficultiesAssumption == \A d \in Difficulties : d.num \in Int /\ d.den \in Nat

ASSUME MessagesAssumption == \A m \in Messages : m.length \in Nat /\ m.cut \in 0 .. m.length

VARIABLES call,     \* the function called and its arguments
          result    \* what it returned

vars == <<call, result>>

Idle == [fn |-> "none"]
Init == call = Idle /\ result = "nothing"

Message(n) == [k \in 1..n |-> <<"message", k>>]

\* The target the previous set_difficulty left.
OldTarget == [i \in Index |-> Base - 1]

-----------------------------------------------------------------------------
\* What the pool does with the same job: it knows the transactions themselves.
NextLevel(level) ==
    [i \in 1 .. (Len(level) + 1) \div 2 |->
        PairHash(level[2*i - 1], IF 2*i <= Len(level) THEN level[2*i] ELSE level[2*i - 1])]
Levels(leaves) ==
    LET Level[d \in 0..Len(leaves)] == IF d = 0 THEN leaves ELSE NextLevel(Level[d - 1])
    IN  Level
Depth(leaves) ==
    CHOOSE d \in 0..Len(leaves) :
        Len(Levels(leaves)[d]) = 1 /\ \A c \in 0 .. d - 1 : Len(Levels(leaves)[c]) > 1

TreeRoot(leaves) == Levels(leaves)[Depth(leaves)][1]

\* The sibling on the leftmost path, level by level; the coinbase itself is not
\* needed for it.
PoolBranch(txs) ==
    LET leaves == <<<<"tx", 0>>>> \o txs
    IN  [d \in 1..Depth(leaves) |-> Levels(leaves)[d - 1][2]]

JobOf(b) == [coinb1 |-> b.job.coinb1, coinb2 |-> b.job.coinb2, version |-> b.job.version,
             prevhash |-> b.job.prevhash, ntime |-> b.job.ntime, nbits |-> b.job.nbits,
             branch |-> PoolBranch(b.txs)]

-----------------------------------------------------------------------------
Returns(fn, arg, value) ==
    /\ call' = [fn |-> fn, arg |-> arg]
    /\ result' = value

CallBitsToTarget ==
    /\ call = Idle
    /\ \E c \in CompactTargets : Returns("bits_to_target", c, BitsToTarget(c.exponent, c.low))

CallDifficultyToTarget ==
    /\ call = Idle
    /\ \E d \in Difficulties :
           Returns("difficulty_to_target", d, DifficultyToTarget(d.num, d.den, OldTarget))

\* Two updates of one context, then the final block or blocks.
CallSha256 ==
    /\ call = Idle
    /\ \E m \in Messages :
           LET data == Message(m.length)
               first == sha256_ref_update(sha256_ref_init, SubSeq(data, 1, m.cut))
               second == sha256_ref_update(first, SubSeq(data, m.cut + 1, m.length))
           IN  Returns("sha256_ref", m, sha256_ref_final(second))

CallBuild ==
    /\ call = Idle
    /\ \E b \in Builds :
           Returns("build", b, BuildTemplate(JobOf(b), b.extranonce1, extranonce2_hex(b.counter, b.size)))

CallGrind ==
    /\ call = Idle
    /\ \E b \in Builds, n \in GrindNonces :
           LET template == BuildTemplate(JobOf(b), b.extranonce1, extranonce2_hex(b.counter, b.size))
           IN  /\ template.ready
               /\ Returns("grind", [build |-> b, nonce |-> n], GrindOne(template, n))

Return == call # Idle /\ call' = Idle /\ result' = "nothing"

Next == CallBitsToTarget \/ CallDifficultyToTarget \/ CallSha256 \/ CallBuild \/ CallGrind \/ Return

Spec == Init /\ [][Next]_vars
-----------------------------------------------------------------------------
\* Numbers at which a comparison with q can go wrong.
Near(q) == {0, 1, q - 1, q, q + 1, Power(Base, Size) - 1} \cap (0 .. Power(Base, Size) - 1)
DigitsOf(n) == [i \in Index |-> (n \div Power(Base, i)) % Base]

\* bits_to_target accepts exactly the compact targets that are not negative and
\* whose mantissa lies below the 256th bit as a whole, and then a hash meets the
\* target if and only if it is at most mantissa * 256^(exponent - 3).
NetworkTargetExact ==
    call.fn = "bits_to_target" =>
        LET m == call.arg.low
            e == call.arg.exponent
        IN  /\ result.ok <=> m < HalfMantissa /\ (m = 0 \/ e <= Size)
            /\ ~ result.ok => result.target = Zero
            /\ result.ok =>
                 \A n \in Near((m * Power(Base, e)) \div Power(Base, 3)) :
                    MeetsTarget(DigitsOf(n), result.target)
                        <=> n * Power(Base, 3) <= m * Power(Base, e)

\* difficulty_to_target accepts the positive difficulties, infinity included, and
\* a hash meets the target if it is at most diff1 / difficulty, and only then, up
\* to the rounding of one long double division: also where a difficulty so small
\* that the quotient does not fit makes every hash meet it.  A rejected one
\* leaves the target in force.
ShareTargetExact ==
    call.fn = "difficulty_to_target" =>
        LET num == call.arg.num
            den == call.arg.den
            q == IF num > 0 THEN (Diff1 * den) \div num ELSE 0
        IN  /\ result.ok <=> num > 0
            /\ ~ result.ok => result.target = OldTarget
            /\ result.ok =>
                 \A n \in Near(q) :
                    IF MeetsTarget(DigitsOf(n), result.target)
                    THEN n * num * Ulp <= Diff1 * den * (Ulp + 1)
                    ELSE n * num * Ulp > Diff1 * den * (Ulp - 1)

\* FIPS 180-4: a one bit, zeros to 56 bytes of a block, the length in 8 bytes.
PaddedMessage(n) ==
    Message(n) \o <<Val(128)>> \o [k \in 1 .. (55 - n) % 64 |-> Val(0)]
               \o [k \in 1..8 |-> Val(LengthByte(8 * n, 8 - k))]

\* However a message is cut into updates, the blocks compressed are the padded
\* message and nothing else: no byte twice, none lost, none that was never
\* written, at every length around the end of a block and of its length field.
PaddedAsDefined ==
    call.fn = "sha256_ref" =>
        LET padded == PaddedMessage(call.arg.length)
        IN  result = [b \in 1 .. Len(padded) \div 64 |->
                        [k \in BlockIndex |-> padded[64 * (b - 1) + k + 1]]]

\* What the hot loop computes from a midstate and a patched tail is the reference
\* double hash of the header assembled with that nonce.
FinishIsReference ==
    call.fn = "grind" =>
        LET b == call.arg.build
            job == JobOf(b)
            coinbase == coinbase_assemble(<<job.coinb1, b.extranonce1,
                                            extranonce2_hex(b.counter, b.size), job.coinb2>>)
            root == build_merkle_root(HashOf(coinbase.bytes), job.branch)
        IN  result = sha256d_ref(assemble_header(job.version, job.prevhash, root, job.ntime,
                                                 job.nbits, call.arg.nonce).bytes)

\* The eight hex digits of the 32-bit number stored little-endian at byte o.
WordDigits(header, o) ==
    [d \in 1..8 |-> LET value == header[o + 4 - ((d + 1) \div 2)][2]
                    IN  IF d % 2 = 1 THEN value \div 16 ELSE value % 16]

\* An extranonce2 text names the counter it was made from.
Spelled(text) ==
    LET Value[i \in 0..Len(text)] == IF i = 0 THEN 0 ELSE 16 * Value[i - 1] + text[i]
    IN  Value[Len(text)]

IsHex(text) == \A i \in 1..Len(text) : text[i] \in HexDigits

\* The miner hashes the header the pool has in mind.  A job is built if and only
\* if its fields are hex of the right length and its coinbase fits; then every
\* number of the header, read as Bitcoin reads it, is the number the pool wrote,
\* the merkle root is the one of the pool's own transaction tree, and the
\* coinbase is the pool's text with the two extranonces inside.
HeaderIsThePools ==
    call.fn = "build" =>
        LET b == call.arg
            j == b.job
            en2 == extranonce2_hex(b.counter, b.size)
            text == j.coinb1 \o b.extranonce1 \o en2 \o j.coinb2
            coinbase == [i \in 1 .. Len(text) \div 2 |-> Val(16 * text[2*i - 1] + text[2*i])]
            header == [k \in 1..64 |-> result.midstate[1][k - 1]] \o result.tail
        IN  /\ result.ready <=>
                 /\ \A f \in {j.version, j.ntime, j.nbits} : Len(f) = 8 /\ IsHex(f)
                 /\ Len(j.prevhash) = 64 /\ IsHex(j.prevhash)
                 /\ \A f \in {j.coinb1, b.extranonce1, j.coinb2} : Len(f) % 2 = 0 /\ IsHex(f)
                 /\ Len(text) <= 2 * CoinbaseMax
            /\ result.ready =>
                 /\ WordDigits(header, 1) = j.version
                 /\ \A w \in 0..7 :
                        WordDigits(header, 5 + 4*w) = SubSeq(j.prevhash, 8*w + 1, 8*w + 8)
                 /\ SubSeq(header, 37, 68) = HashBytes(TreeRoot(<<HashOf(coinbase)>> \o b.txs))
                 /\ WordDigits(header, 69) = j.ntime
                 /\ WordDigits(header, 73) = j.nbits
                 /\ Len(en2) = 2 * b.size /\ Spelled(en2) = b.counter % Power(256, b.size)
=============================================================================
