--------------------------- MODULE Sha256Compress ---------------------------
(***************************************************************************)
(* SHA-256 block compression as the C code does it: sha256_compress()      *)
(* (src/core/sha256_compress.c) and, in the same words, sha256_ref_compress *)
(* () (src/core/sha256_ref.c).  One step per turn of a loop; the callers'  *)
(* chain of calls, block after block over one chaining state, is `blocks'. *)
(***************************************************************************)
EXTENDS Sha256Words, Sequences

CONSTANTS K,        \* the 64 round constants
          Inputs    \* what the callers hash: [state |-> eight words, blocks |-> blocks]

VARIABLES input,    \* the input being hashed
          blocks,   \* its blocks still to compress, the current one first
          state,    \* the chaining state, state[8]
          w,        \* the message schedule, filled up to Len(w)
          v,        \* the working variables a..h, <<>> outside the rounds
          t         \* rounds done

vars == <<input, blocks, state, w, v, t>>

Init ==
    /\ input \in Inputs
    /\ blocks = input.blocks
    /\ state = input.state
    /\ w = <<>> /\ v = <<>> /\ t = 0

\* Four bytes of the block, most significant first, whatever the machine's order.
WordOf(b, i) == Shl(b[4*i + 1], 24) \cup Shl(b[4*i + 2], 16) \cup Shl(b[4*i + 3], 8) \cup b[4*i + 4]

\* The first 16 words of the schedule come from the block.
LoadWord ==
    /\ blocks # <<>> /\ Len(w) < 16
    /\ w' = Append(w, WordOf(Head(blocks), Len(w)))
    /\ UNCHANGED <<input, blocks, state, v, t>>

\* w[i] for i = Len(u): TLA+ counts from 1, so w[i - 2] is u[Len(u) - 1].
Expanded(u) ==
    LET i == Len(u) + 1 IN
    Add(Add(Add(SmallSigma1(u[i - 2]), u[i - 7]), SmallSigma0(u[i - 15])), u[i - 16])

\* The other 48 words are expanded from the first 16.
ExpandWord ==
    /\ Len(w) \in 16..63
    /\ w' = Append(w, Expanded(w))
    /\ UNCHANGED <<input, blocks, state, v, t>>

\* a..h start from the chaining state.
EnterRounds ==
    /\ Len(w) = 64 /\ v = <<>>
    /\ v' = state
    /\ UNCHANGED <<input, blocks, state, w, t>>

T1(r, k, x) == Add(Add(Add(Add(r[8], BigSigma1(r[5])), Ch(r[5], r[6], r[7])), k), x)
T2(r) == Add(BigSigma0(r[1]), Maj(r[1], r[2], r[3]))
RoundOf(r, k, x) ==
    <<Add(T1(r, k, x), T2(r)), r[1], r[2], r[3], Add(r[4], T1(r, k, x)), r[5], r[6], r[7]>>

Round ==
    /\ v # <<>> /\ t < 64
    /\ v' = RoundOf(v, K[t + 1], w[t + 1])
    /\ t' = t + 1
    /\ UNCHANGED <<input, blocks, state, w>>

\* The feed-forward; then the call returns and the caller has its next block.
AddBack ==
    /\ t = 64
    /\ state' = [i \in 1..8 |-> Add(state[i], v[i])]
    /\ blocks' = Tail(blocks)
    /\ w' = <<>> /\ v' = <<>> /\ t' = 0
    /\ UNCHANGED input

Next == LoadWord \/ ExpandWord \/ EnterRounds \/ Round \/ AddBack

Spec == Init /\ [][Next]_vars
=============================================================================
