---------------------------- MODULE Sha256Xtensa ----------------------------
(***************************************************************************)
(* The same function in Xtensa assembly, which replaces the C one in the   *)
(* ESP32 build (src/core/sha256_compress_xtensa.S).  One step per turn of  *)
(* a loop; within a turn the instructions run one after another on the     *)
(* registers, so that a value overwritten too early is lost here as it is  *)
(* there.  W[] on the stack is w, the round index a14 is t; the other      *)
(* counters and the addresses are the lengths of what they have filled,    *)
(* and no program below writes a register that holds one.  ImplementsC     *)
(* says that the C code (Sha256Compress) does the same steps, and          *)
(* Sha256XtensaProofs proves it for every input.                           *)
(***************************************************************************)
EXTENDS Sha256Words, Sequences

CONSTANTS K,        \* the 64 round constants
          Inputs,   \* what the callers hash: [state |-> eight words, blocks |-> blocks]
          Leftovers \* what a call may find in the registers

\* The registers a2 to a15, and the word of the stack frame t1 is spilled to.
Spill == 16
Registers == 2..Spill

ASSUME KAssumption == K \in [1..64 -> Word]
ASSUME InputsAssumption == Inputs \subseteq [state : State, blocks : Seq(Block)]
ASSUME LeftoversAssumption == Leftovers \subseteq [Registers -> Word]

VARIABLES input,    \* the input being hashed
          blocks,   \* its blocks still to compress, the current one first
          state,    \* the chaining state, state[8]
          w,        \* W[], filled up to Len(w)
          reg,      \* the words in the registers
          inRounds, \* the program is at .Lround or behind it
          t         \* rounds done

asmVars == <<input, blocks, state, w, reg, inRounds, t>>
-----------------------------------------------------------------------------
(* Instructions: the operation, the register written, the operands.        *)

\* What an instruction writes.  "lit" is a load or movi, its value in place of the
\* address; "ror" is ssai and src with one register twice; -1 is the word Bits.
Value(i, r) ==
    CASE i[1] = "lit"  -> i[3]
      [] i[1] = "mov"  -> r[i[3]]
      [] i[1] = "add"  -> Add(r[i[3]], r[i[4]])
      [] i[1] = "and"  -> r[i[3]] \cap r[i[4]]
      [] i[1] = "or"   -> r[i[3]] \cup r[i[4]]
      [] i[1] = "xor"  -> Xor(r[i[3]], r[i[4]])
      [] i[1] = "slli" -> Shl(r[i[3]], i[4])
      [] i[1] = "srli" -> Shr(r[i[3]], i[4])
      [] i[1] = "ror"  -> Rotr(r[i[3]], i[4])

Exec(i, r) == [r EXCEPT ![i[2]] = Value(i, r)]

\* The registers after a program, one instruction after another.
Run(program, r) ==
    LET after[n \in 0..Len(program)] ==
            IF n = 0 THEN r ELSE Exec(program[n], after[n - 1])
    IN  after[Len(program)]
-----------------------------------------------------------------------------
(* The three loops.  An operator named Bug... is a plausible mistake in the *)
(* operator that follows it.                                                *)

\* The word grows in a7 from its top byte.
LoadWordProgram(b, i) ==
    << <<"lit", 7, b[4*i + 1]>>, <<"lit", 8, b[4*i + 2]>>, <<"slli", 7, 7, 8>>, <<"or", 7, 7, 8>>,
       <<"lit", 8, b[4*i + 3]>>, <<"slli", 7, 7, 8>>, <<"or", 7, 7, 8>>,
       <<"lit", 8, b[4*i + 4]>>, <<"slli", 7, 7, 8>>, <<"or", 7, 7, 8>> >>

\* a4 points at W[i-16], u[p] here: the offsets 56, 36, 4 and 0 are the words 14, 9, 1
\* and 0 behind it.  W[i] is in a8 in the end.
ExtProgram(u, p) ==
    << <<"lit", 7, u[p + 14]>>,
       <<"ror", 8, 7, 17>>, <<"ror", 9, 7, 19>>, <<"xor", 8, 8, 9>>, <<"srli", 9, 7, 10>>, <<"xor", 8, 8, 9>>,
       <<"lit", 9, u[p + 9]>>, <<"add", 8, 8, 9>>, <<"lit", 7, u[p + 1]>>,
       <<"ror", 9, 7, 7>>, <<"ror", 10, 7, 18>>, <<"xor", 9, 9, 10>>, <<"srli", 10, 7, 3>>, <<"xor", 9, 9, 10>>,
       <<"add", 8, 8, 9>>, <<"lit", 9, u[p]>>, <<"add", 8, 8, 9>> >>

\* A round, by its comments.  a2 = K[i] + W[i] + h.
SumProgram(k, x) ==
    << <<"lit", 2, k>>, <<"lit", 15, x>>, <<"add", 2, 2, 15>>, <<"add", 2, 2, 11>> >>

\* a2 = a2 + BSIG1(e).
Sigma1Program ==
    << <<"ror", 15, 8, 6>>, <<"ror", 3, 8, 11>>, <<"xor", 15, 15, 3>>,
       <<"ror", 3, 8, 25>>, <<"xor", 15, 15, 3>>, <<"add", 2, 2, 15>> >>

\* a2 = a2 + CH(e, f, g) = t1, to the spill slot as a2 is needed.  The slip spills
\* before the sum is complete.
BugChoiceProgram ==
    << <<"and", 15, 8, 9>>, <<"lit", 3, Bits>>, <<"xor", 3, 8, 3>>, <<"and", 3, 3, 10>>,
       <<"xor", 15, 15, 3>>, <<"mov", Spill, 2>>, <<"add", 2, 2, 15>> >>
ChoiceProgram ==
    << <<"and", 15, 8, 9>>, <<"lit", 3, Bits>>, <<"xor", 3, 8, 3>>, <<"and", 3, 3, 10>>,
       <<"xor", 15, 15, 3>>, <<"add", 2, 2, 15>>, <<"mov", Spill, 2>> >>

\* a2 = BSIG0(a).
Sigma0Program ==
    << <<"ror", 2, 4, 2>>, <<"ror", 3, 4, 13>>, <<"xor", 2, 2, 3>>,
       <<"ror", 3, 4, 22>>, <<"xor", 2, 2, 3>> >>

\* a2 = a2 + MAJ(a, b, c) = t2, with one operation less than in C.
MajorityProgram ==
    << <<"xor", 3, 4, 5>>, <<"and", 3, 3, 6>>, <<"and", 15, 4, 5>>, <<"xor", 3, 15, 3>>,
       <<"add", 2, 2, 3>> >>

\* The working variables move up; e and a take t1, back from its slot; a3 gets the bound
\* 64 of the loop.  The slip moves a before b has moved.
BugMovesProgram ==
    << <<"mov", 11, 10>>, <<"mov", 10, 9>>, <<"mov", 9, 8>>, <<"mov", 15, Spill>>, <<"add", 8, 7, 15>>,
       <<"mov", 7, 6>>, <<"mov", 5, 4>>, <<"mov", 6, 5>>, <<"add", 4, 2, 15>>, <<"lit", 3, {6}>> >>
MovesProgram ==
    << <<"mov", 11, 10>>, <<"mov", 10, 9>>, <<"mov", 9, 8>>, <<"mov", 15, Spill>>, <<"add", 8, 7, 15>>,
       <<"mov", 7, 6>>, <<"mov", 6, 5>>, <<"mov", 5, 4>>, <<"add", 4, 2, 15>>, <<"lit", 3, {6}>> >>

\* The registers behind a round with the constant k and the word x.
AfterRound(r, k, x) ==
    LET summed  == Run(Sigma1Program, Run(SumProgram(k, x), r))
        spilled == Run(ChoiceProgram, summed)
        second  == Run(MajorityProgram, Run(Sigma0Program, spilled))
    IN  Run(MovesProgram, second)
-----------------------------------------------------------------------------
\* entry: a frame, the state and block pointers from the caller, and registers that
\* hold whatever was in them.
Entry ==
    /\ input \in Inputs
    /\ blocks = input.blocks
    /\ state = input.state
    /\ w = <<>> /\ t = 0 /\ inRounds = FALSE
    /\ reg \in Leftovers

Load ==
    /\ blocks # <<>> /\ Len(w) < 16
    /\ reg' = Run(LoadWordProgram(Head(blocks), Len(w)), reg)
    /\ w' = Append(w, reg'[7])
    /\ UNCHANGED <<input, blocks, state, inRounds, t>>

Ext ==
    /\ Len(w) \in 16..63
    /\ reg' = Run(ExtProgram(w, Len(w) - 15), reg)
    /\ w' = Append(w, reg'[8])
    /\ UNCHANGED <<input, blocks, state, inRounds, t>>

\* a..h into the registers a4..a11, the round index to zero.
LoadState ==
    /\ Len(w) = 64 /\ ~inRounds
    /\ reg' = [n \in Registers |-> IF n \in 4..11 THEN state[n - 3] ELSE reg[n]]
    /\ inRounds' = TRUE
    /\ UNCHANGED <<input, blocks, state, w, t>>

AsmRound ==
    /\ inRounds /\ t # 64
    /\ reg' = AfterRound(reg, K[t + 1], w[t + 1])
    /\ t' = t + 1
    /\ UNCHANGED <<input, blocks, state, w, inRounds>>

\* The state pointer comes back from the frame; then retw, and the next call, in
\* another window of registers.
AddState ==
    /\ t = 64
    /\ state' = [i \in 1..8 |-> Add(state[i], reg[i + 3])]
    /\ blocks' = Tail(blocks)
    /\ w' = <<>> /\ t' = 0 /\ inRounds' = FALSE
    /\ reg' \in Leftovers
    /\ UNCHANGED input

AsmNext == Load \/ Ext \/ LoadState \/ AsmRound \/ AddState

AsmSpec == Entry /\ [][AsmNext]_asmVars
-----------------------------------------------------------------------------
\* The C code's working variables are the registers a4..a11, during the rounds.
Working == IF inRounds THEN [i \in 1..8 |-> reg[i + 3]] ELSE <<>>

C == INSTANCE Sha256Compress WITH v <- Working

\* Every step of the assembly is the step the C code makes: whatever the chaining
\* state, the constants, the message and the old contents of the registers, the two
\* compute the same schedule, working variables and state.
ImplementsC == C!Spec
=============================================================================
