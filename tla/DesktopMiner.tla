---------------------------- MODULE DesktopMiner ----------------------------
(***************************************************************************)
(* The desktop miner after its handshake (app_desktop/main.c): one thread  *)
(* that drains the pool's lines, rebuilds the template when it must, and   *)
(* grinds a batch, sending a share as soon as it is found.                 *)
(*                                                                         *)
(* Where the ESP32 miner parses into a scratch job, this one parses into   *)
(* the job it is mining: a notify that fails half way leaves the live job  *)
(* with some of its fields, and nothing else is reset.                     *)
(***************************************************************************)
EXTENDS MiningWork

CONSTANTS
    NonceBatch, \* NONCE_BATCH, nonces tried between two looks at the socket
    Malformed   \* jobs whose notify may arrive malformed

ASSUME DesktopAssumption ==
    /\ NonceBatch \in Nat \ {0}
    /\ Malformed \subseteq Jobs

VARIABLES
    pc, job, share_target, have_job, have_target, branch,
    template_ready, template, en2_counter, nonce, b, wire,
    ground      \* history: what was hashed for the current job

jobVars    == <<job, have_job, branch>>
targetVars == <<share_target, have_target>>
searchVars == <<template_ready, template, en2_counter, nonce, ground>>
vars       == <<pc, jobVars, targetVars, searchVars, b, wire>>

TypeOK ==
    /\ pc \in {"drain", "work", "grind", "closed"}
    /\ job \in StratumJob
    /\ share_target \in Targets \cup {NoTarget}
    /\ have_job \in BOOLEAN /\ have_target \in BOOLEAN
    /\ branch \in Branch
    /\ template_ready \in BOOLEAN
    /\ template \in Template
    /\ en2_counter \in Counters
    /\ nonce \in Nonces
    /\ b \in 0 .. NonceBatch
    /\ wire \in Share \cup {<<>>}
    /\ ground \subseteq Extranonce2s \X Nonces

Init ==
    /\ pc = "drain"
    /\ job = ZeroJob /\ have_job = FALSE /\ branch = ZeroBranch
    /\ share_target = NoTarget /\ have_target = FALSE
    /\ template_ready = FALSE /\ template = ZeroTemplate
    /\ en2_counter = 0 /\ nonce = 0 /\ b = 0
    /\ wire = <<>>
    /\ ground = {}

-----------------------------------------------------------------------------
(* As in EspMiner, an operator named Bug... is a plausible mistake in the  *)
(* operator that follows it; no action uses it.                            *)

BugLastNonceSkipped == nonce + 1 >= NonceMax
LastNonce == nonce = NonceMax

BugKeepTemplate == UNCHANGED template_ready
DropTemplate == template_ready' = FALSE

BugAnyBranch(j) == TRUE
BranchDecodes(j) == j \notin BadBranch

BugSearchAgain ==
    template_ready' = FALSE /\ en2_counter' = 0 /\ nonce' = 0 /\ ground' = {}
SearchGoesOn == UNCHANGED <<template_ready, en2_counter, nonce, ground>>

BugRetryJob == UNCHANGED have_job
SkipJob == have_job' = FALSE

-----------------------------------------------------------------------------
(* Draining the pool's lines. *)

ReadDifficulty ==
    /\ pc = "drain"
    /\ \E t \in Targets : share_target' = t
    /\ have_target' = TRUE
    /\ SearchGoesOn
    /\ UNCHANGED <<pc, jobVars, template, b, wire>>

\* The nonces start again with the job; a job that does not decode is skipped.
ReadNotify ==
    /\ pc = "drain"
    /\ \E j \in Jobs :
          /\ job' = Whole(j)
          /\ have_job' = BranchDecodes(j)
          /\ branch' = [job |-> j, whole |-> BranchDecodes(j)]
    /\ DropTemplate
    /\ en2_counter' = 0
    /\ nonce' = 0
    /\ ground' = {}
    /\ UNCHANGED <<pc, targetVars, template, b, wire>>

\* stratum_parse_notify fails after the first field, or after all but the last.
ReadMalformed ==
    /\ pc = "drain"
    /\ \E j \in Malformed : job' \in {[job EXCEPT !.id = j], Whole(j)}
    /\ UNCHANGED <<pc, have_job, branch, targetVars, searchVars, b, wire>>

NoLine ==
    /\ pc = "drain"
    /\ pc' = "work"
    /\ UNCHANGED <<jobVars, targetVars, searchVars, b, wire>>

ConnectionClosed ==
    /\ pc = "drain"
    /\ pc' = "closed"
    /\ UNCHANGED <<jobVars, targetVars, searchVars, b, wire>>

-----------------------------------------------------------------------------
(* Building the template and grinding a batch. *)

Idle ==
    /\ pc = "work"
    /\ ~(have_job /\ have_target)
    /\ pc' = "drain"
    /\ UNCHANGED <<jobVars, targetVars, searchVars, b, wire>>

Resume ==
    /\ pc = "work"
    /\ have_job /\ have_target
    /\ template_ready
    /\ b' = 0
    /\ pc' = "grind"
    /\ UNCHANGED <<jobVars, targetVars, searchVars, wire>>

Build ==
    /\ pc = "work"
    /\ have_job /\ have_target
    /\ ~template_ready
    /\ job.body \notin Unbuildable
    /\ template' = [job |-> job.body, branch |-> branch,
                    en2 |-> extranonce2_hex(en2_counter)]
    /\ nonce' = 0
    /\ template_ready' = TRUE
    /\ b' = 0
    /\ pc' = "grind"
    /\ UNCHANGED <<jobVars, targetVars, en2_counter, ground, wire>>

BuildFails ==
    /\ pc = "work"
    /\ have_job /\ have_target
    /\ ~template_ready
    /\ job.body \in Unbuildable
    /\ SkipJob
    /\ pc' = "drain"
    /\ UNCHANGED <<job, branch, targetVars, searchVars, b, wire>>

FoundShare ==
    [job_id |-> job.id, extranonce2 |-> template.en2, ntime |-> job.body,
     nonce |-> nonce, target |-> share_target]

\* The result of net_send_line is not looked at: a failed write loses a share.
HashOne ==
    /\ pc = "grind"
    /\ b < NonceBatch
    /\ wire' \in (IF Meets(template, nonce, share_target)
                  THEN {FoundShare, wire} ELSE {wire})
    /\ UNCHANGED <<jobVars, targetVars, template>>

NonceNext ==
    /\ HashOne
    /\ ~LastNonce
    /\ nonce' = nonce + 1
    /\ b' = b + 1
    /\ ground' = ground \cup {<<template.en2, nonce>>}
    /\ UNCHANGED <<pc, template_ready, en2_counter>>

NonceLast ==
    /\ HashOne
    /\ LastNonce
    /\ en2_counter' = (en2_counter + 1) % CounterMod
    /\ DropTemplate
    /\ pc' = "drain"
    /\ ground' = IF extranonce2_hex(en2_counter') = 0
                 THEN {} ELSE ground \cup {<<template.en2, nonce>>}
    /\ UNCHANGED <<nonce, b>>

BatchEnd ==
    /\ pc = "grind"
    /\ b = NonceBatch
    /\ pc' = "drain"
    /\ UNCHANGED <<jobVars, targetVars, searchVars, b, wire>>

-----------------------------------------------------------------------------
ReadLine == ReadDifficulty \/ ReadNotify \/ ReadMalformed
Mine == Idle \/ Resume \/ Build \/ BuildFails \/ NonceNext \/ NonceLast \/ BatchEnd
Next == ReadLine \/ NoLine \/ ConnectionClosed \/ Mine

Spec == Init /\ [][Next]_vars

\* The thread runs, and the pool does not send lines without end.
FairSpec == Spec /\ WF_vars(Mine) /\ SF_vars(NoLine)

-----------------------------------------------------------------------------
(* Properties. *)

\* As in EspMiner: what was hashed for the job is exactly the nonces before the
\* current one, under this and all earlier extranonce2 strings, whatever lines
\* came between two batches (main.c:256-284).
GroundExactly ==
    ground = Covered(extranonce2_hex(en2_counter),
                     IF template_ready THEN nonce ELSE 0)

\* The desktop miner implements the same abstract miner, with nothing queued:
\* shares are of the job named last and of the target set last, and the pool can
\* rebuild them.  Only jobs of a malformed notify are excused.
Flow == INSTANCE ShareFlow WITH
    Capacity <- 1,
    Excused <- Malformed,
    announced <- [job |-> job.id, target |-> share_target],
    mining <- [job |-> job.id, target |-> share_target],
    outbox <- <<>>,
    wire <- wire
ImplementsShareFlow == Flow!FlowSpec

\* A job whose branch, coinbase or header cannot be built is skipped: no share
\* is sent for it, not even from the template of the job before it (main.c:
\* 184-186, 219-224, 238-244).
OnlyUsableJobsMined ==
    wire # <<>> =>
        wire.job_id \in Malformed \/ wire.job_id \notin BadBranch \cup Unbuildable

\* A new difficulty in the middle of a job lets the search go on where it is:
\* what was hashed is forgotten only for a new job, or when every pair of an
\* extranonce2 and a nonce has been hashed (sha256_fast.h:10-13, README 204-207).
SearchNotRepeated ==
    [][ \/ ground \subseteq ground'
        \/ ReadNotify
        \/ ground = Covered(En2Space - 1, NonceMax) ]_vars

\* A job and a target lead to hashing, unless the job is skipped or the pool
\* goes away: the drain loop gives the thread back and no error path spins.
SearchStarts ==
    (have_job /\ have_target) ~> (pc = "grind" \/ ~have_job \/ pc = "closed")

-----------------------------------------------------------------------------
(* A property that comments of the sources state and the code violates.    *)

\* A notify with a bad field is dropped whole (stratum_proto.c:8-13).  Here it
\* leaves its first fields in the job being mined, and shares go out under the
\* identifier of a job that was never accepted.
MalformedJobDropped == wire # <<>> => ShareSolves(wire)
=============================================================================
