----------------------------- MODULE MiningWork -----------------------------
(***************************************************************************)
(* The data both miners work on: the jobs a pool announces, the targets a  *)
(* hash is compared with, the block-header template a job and an           *)
(* extranonce2 give, and the share that is sent when a nonce is found.     *)
(*                                                                         *)
(* Hashing is abstract: Meets(t, n, g) says whether the double SHA-256 of  *)
(* template t with nonce n is at most target g.                            *)
(***************************************************************************)
EXTENDS Integers, Sequences

CONSTANTS
    Jobs,           \* the jobs the pool may announce
    NoJob,          \* the zeroed stratum_job_t before the first notify
    Targets,        \* the 256-bit targets the pool may set
    NoTarget,       \* the zeroed target before the first set_difficulty
    BadBranch,      \* jobs that parse but whose merkle branch is not hex
    Unbuildable,    \* jobs whose coinbase or header assembly fails
    NonceMax,       \* the last nonce of a template: 0xffffffff
    CounterMod,     \* en2_counter is a uint64_t: 2^64
    En2Space,       \* the extranonce2 strings of the agreed size: 256^size
    Meets(_, _, _)  \* template, nonce, target: does the hash meet the target

ASSUME JobsAssumption ==
    /\ NoJob \notin Jobs
    /\ BadBranch \subseteq Jobs
    /\ Unbuildable \subseteq Jobs

ASSUME TargetsAssumption == NoTarget \notin Targets

\* The extranonce2 has at most 8 bytes (a larger size is clamped), so the
\* number of strings divides the counter's range; a size of 0 leaves one string.
ASSUME SizesAssumption ==
    /\ NonceMax \in Nat
    /\ En2Space \in Nat \ {0}
    /\ CounterMod \in Nat \ {0}
    /\ En2Space <= CounterMod
    /\ CounterMod % En2Space = 0

Nonces == 0 .. NonceMax
Counters == 0 .. CounterMod - 1
Extranonce2s == 0 .. En2Space - 1

\* extranonce2_hex keeps the low `size' bytes of the counter.
extranonce2_hex(counter) == counter % En2Space

\* The search order: the pairs before <<e, n>>: all nonces of the
\* earlier extranonce2 strings, and the first n of e.
Covered(e, n) == ((0 .. e - 1) \X Nonces) \cup ({e} \X (0 .. n - 1))

(***************************************************************************)
(* A stratum_job_t is copied field by field, so it has two halves: its     *)
(* identifier, and the rest (prevhash, coinbase, branch, ntime...).        *)
(***************************************************************************)
StratumJob == [id : Jobs \cup {NoJob}, body : Jobs \cup {NoJob}]
Whole(j) == [id |-> j, body |-> j]
ZeroJob == Whole(NoJob)

\* The decoded merkle branch: of which job, and whether all of it decoded.
Branch == [job : Jobs \cup {NoJob}, whole : BOOLEAN]
ZeroBranch == [job |-> NoJob, whole |-> TRUE]

(***************************************************************************)
(* The bytes the nonce search works on (midstate and tail): the job whose  *)
(* coinbase, version, prevhash, ntime and nbits went in, the branch folded *)
(* into the merkle root, and the extranonce2 placed in the coinbase.       *)
(***************************************************************************)
Template == [job : Jobs \cup {NoJob}, branch : Branch, en2 : Extranonce2s]
ZeroTemplate == [job |-> NoJob, branch |-> ZeroBranch, en2 |-> 0]

\* mining.submit names a job, its ntime, an extranonce2 and a nonce. `target'
\* is a history field: the target the hash was compared with.
Share == [job_id : Jobs \cup {NoJob}, ntime : Jobs \cup {NoJob},
          extranonce2 : Extranonce2s, nonce : Nonces,
          target : Targets \cup {NoTarget}]

\* What the pool rebuilds from a share: it knows its own job, whole.
PoolTemplate(j, e) ==
    [job |-> j, branch |-> [job |-> j, whole |-> TRUE], en2 |-> e]

\* The pool finds the same solution when it rebuilds the header of the share.
ShareSolves(s) ==
    /\ s.ntime = s.job_id
    /\ Meets(PoolTemplate(s.job_id, s.extranonce2), s.nonce, s.target)
=============================================================================
