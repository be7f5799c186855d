------------------------------ MODULE EspMiner ------------------------------
(***************************************************************************)
(* The ESP32 miner after its handshake (app_esp32/main/main.c): the        *)
(* network task on core 0 and the hash task on core 1, the work they share *)
(* under the mutex s_lock, and the queue s_shares between them.            *)
(*                                                                         *)
(* A task's program counter names the code it is about to run.  Shared     *)
(* state is written in more than one step under the lock, so a missing     *)
(* lock would show as a job with the halves of two jobs.  The pool is the  *)
(* environment: any line may arrive whenever the network task polls.       *)
(***************************************************************************)
EXTENDS MiningWork

CONSTANTS
    HashBatch,      \* HASH_BATCH, nonces tried between two looks at s_lock
    QueueLen,       \* the length of s_shares
    MaxGeneration   \* bound: jobs and targets taken in one connection

\* s_generation is a uint32_t; the bound keeps it from coming round.
ASSUME EspAssumption ==
    /\ HashBatch \in Nat \ {0}
    /\ QueueLen \in Nat \ {0}
    /\ MaxGeneration \in Nat

VARIABLES
    \* shared, guarded by s_lock
    lock, s_job, s_target, s_generation, s_have_job, s_have_target,
    \* the queue between the tasks
    s_shares,
    \* the network task
    netPc, scratch_job, scratch_target, wire,
    \* the hash task
    hashPc, job, target, local_gen, have_gen, have_template, branch,
    template, en2_counter, nonce, b,
    \* history: what was hashed for the current work, and how many nonces
    \* since that work was replaced
    ground, late

lockVars   == <<lock>>
sharedVars == <<s_job, s_target, s_generation, s_have_job, s_have_target>>
netVars    == <<netPc, scratch_job, scratch_target, wire>>
workVars   == <<job, target, local_gen, have_gen, branch>>
searchVars == <<have_template, template, en2_counter, nonce, b>>
history    == <<ground, late>>
hashVars   == <<hashPc, workVars, searchVars, history>>
vars       == <<lock, sharedVars, s_shares, netVars, hashVars>>

TypeOK ==
    /\ lock \in {"free", "net", "hash"}
    /\ s_job \in StratumJob
    /\ s_target \in Targets \cup {NoTarget}
    /\ s_generation \in 0 .. MaxGeneration
    /\ s_have_job \in BOOLEAN /\ s_have_target \in BOOLEAN
    /\ s_shares \in Seq(Share) /\ Len(s_shares) <= QueueLen
    /\ netPc \in {"drain", "gotTarget", "gotJob", "putTarget", "putJobHead",
                  "putJobTail", "send"}
    /\ scratch_job \in StratumJob
    /\ scratch_target \in Targets \cup {NoTarget}
    /\ wire \in Share \cup {<<>>}
    /\ hashPc \in {"poll", "pickup", "build", "grind"}
    /\ job \in StratumJob
    /\ target \in Targets \cup {NoTarget}
    /\ local_gen \in 0 .. MaxGeneration
    /\ have_gen \in BOOLEAN /\ have_template \in BOOLEAN
    /\ branch \in Branch
    /\ template \in Template
    /\ en2_counter \in Counters
    /\ nonce \in Nonces
    /\ b \in 0 .. HashBatch
    /\ ground \subseteq Extranonce2s \X Nonces
    /\ late \in Nat

Init ==
    /\ lock = "free"
    /\ s_job = ZeroJob /\ s_target = NoTarget /\ s_generation = 0
    /\ s_have_job = FALSE /\ s_have_target = FALSE
    /\ s_shares = <<>>
    /\ netPc = "drain" /\ scratch_job = ZeroJob /\ scratch_target = NoTarget
    /\ wire = <<>>
    /\ hashPc = "poll"
    /\ job = ZeroJob /\ target = NoTarget
    /\ local_gen = 0 /\ have_gen = FALSE
    /\ branch = ZeroBranch
    /\ have_template = FALSE /\ template = ZeroTemplate
    /\ en2_counter = 0 /\ nonce = 0 /\ b = 0
    /\ ground = {} /\ late = 0

-----------------------------------------------------------------------------
(* What both tasks do under the lock, and the loops' exit conditions.      *)
(* Each operator named Bug... is a plausible mistake in the operator that  *)
(* follows it; no action uses it, and a property of a run rules it out.    *)

\* xSemaphoreTake(s_lock, portMAX_DELAY): blocks while another task holds it.
BugAcquireHeld(task) == lock' = task
Acquire(task) == lock = "free" /\ lock' = task

Release == lock' = "free"

BugBumpForgotten == UNCHANGED s_generation
Bump == s_generation' = s_generation + 1

BugLastNonceSkipped == nonce + 1 >= NonceMax
BugLastNoncePassed == nonce > NonceMax
LastNonce == nonce = NonceMax

BugBatchTooLong == b > HashBatch
BatchDone == b = HashBatch

DropTemplate == have_template' = FALSE

-----------------------------------------------------------------------------
(* The network task: drain the pool's lines, then send the queued shares.  *)
(* A line that is neither a job nor a difficulty only writes the log.      *)

NetReadDifficulty ==
    /\ netPc = "drain"
    /\ s_generation < MaxGeneration
    /\ \E t \in Targets : scratch_target' = t
    /\ netPc' = "gotTarget"
    /\ UNCHANGED <<lock, sharedVars, s_shares, scratch_job, wire, hashVars>>

NetReadNotify ==
    /\ netPc = "drain"
    /\ s_generation < MaxGeneration
    /\ \E j \in Jobs : scratch_job' = Whole(j)
    /\ netPc' = "gotJob"
    /\ UNCHANGED <<lock, sharedVars, s_shares, scratch_target, wire, hashVars>>

\* stratum_parse_notify has written some fields when it finds the bad one.
NetReadMalformed ==
    /\ netPc = "drain"
    /\ \E j \in Jobs : scratch_job' = [scratch_job EXCEPT !.id = j]
    /\ UNCHANGED <<lock, sharedVars, s_shares, netPc, scratch_target, wire,
                   hashVars>>

NetTakeLock ==
    /\ Acquire("net")
    /\ \/ netPc = "gotTarget" /\ netPc' = "putTarget"
       \/ netPc = "gotJob" /\ netPc' = "putJobHead"
    /\ UNCHANGED <<sharedVars, s_shares, scratch_job, scratch_target, wire,
                   hashVars>>

NetPutTarget ==
    /\ netPc = "putTarget"
    /\ s_target' = scratch_target
    /\ s_have_target' = TRUE
    /\ Bump
    /\ Release
    /\ netPc' = "drain"
    /\ UNCHANGED <<s_job, s_have_job, s_shares, scratch_job, scratch_target,
                   wire, hashVars>>

NetPutJobHead ==
    /\ netPc = "putJobHead"
    /\ s_job' = [s_job EXCEPT !.id = scratch_job.id]
    /\ netPc' = "putJobTail"
    /\ UNCHANGED <<lock, s_target, s_generation, s_have_job, s_have_target,
                   s_shares, scratch_job, scratch_target, wire, hashVars>>

NetPutJobTail ==
    /\ netPc = "putJobTail"
    /\ s_job' = [s_job EXCEPT !.body = scratch_job.body]
    /\ s_have_job' = TRUE
    /\ Bump
    /\ Release
    /\ netPc' = "drain"
    /\ UNCHANGED <<s_target, s_have_target, s_shares, scratch_job,
                   scratch_target, wire, hashVars>>

NetNoLine ==
    /\ netPc = "drain"
    /\ netPc' = "send"
    /\ UNCHANGED <<lock, sharedVars, s_shares, scratch_job, scratch_target,
                   wire, hashVars>>

\* xQueuePeek instead of xQueueReceive.
BugTakeLeavesShare == UNCHANGED s_shares
TakeShare == s_shares' = Tail(s_shares)

\* The result of net_send_line is not looked at: a failed write loses a share.
NetSend ==
    /\ netPc = "send"
    /\ s_shares # <<>>
    /\ wire' \in {Head(s_shares), wire}
    /\ TakeShare
    /\ UNCHANGED <<lock, sharedVars, netPc, scratch_job, scratch_target,
                   hashVars>>

NetSendDone ==
    /\ netPc = "send"
    /\ s_shares = <<>>
    /\ netPc' = "drain"
    /\ UNCHANGED <<lock, sharedVars, s_shares, scratch_job, scratch_target,
                   wire, hashVars>>

\* Connection lost: esp_restart, whatever the hash task was doing.
NetRestart ==
    /\ netPc = "drain"
    /\ lock' = "free"
    /\ s_job' = ZeroJob /\ s_target' = NoTarget /\ s_generation' = 0
    /\ s_have_job' = FALSE /\ s_have_target' = FALSE
    /\ s_shares' = <<>>
    /\ netPc' = "drain" /\ scratch_job' = ZeroJob /\ scratch_target' = NoTarget
    /\ wire' = <<>>
    /\ hashPc' = "poll"
    /\ job' = ZeroJob /\ target' = NoTarget
    /\ local_gen' = 0 /\ have_gen' = FALSE
    /\ branch' = ZeroBranch
    /\ have_template' = FALSE /\ template' = ZeroTemplate
    /\ en2_counter' = 0 /\ nonce' = 0 /\ b' = 0
    /\ ground' = {} /\ late' = 0

-----------------------------------------------------------------------------
(* The hash task: look for new work, build the template, grind a batch.    *)

HashTake ==
    /\ hashPc = "poll"
    /\ Acquire("hash")
    /\ hashPc' = "pickup"
    /\ UNCHANGED <<sharedVars, s_shares, netVars, workVars, searchVars, history>>

ready == s_have_job /\ s_have_target

\* Looking for work only until the first was found.
BugChangedOnce == ready /\ ~have_gen
changed == ready /\ (~have_gen \/ s_generation # local_gen)

HashNotReady ==
    /\ hashPc = "pickup"
    /\ ~ready
    /\ Release
    /\ hashPc' = "poll"
    /\ UNCHANGED <<sharedVars, s_shares, netVars, workVars, searchVars, history>>

HashSameWork ==
    /\ hashPc = "pickup"
    /\ ready /\ ~changed
    /\ Release
    /\ hashPc' = IF have_template THEN "grind" ELSE "build"
    /\ b' = 0
    /\ UNCHANGED <<sharedVars, s_shares, netVars, workVars, have_template,
                   template, en2_counter, nonce, history>>

CopyWork ==
    /\ hashPc = "pickup"
    /\ changed
    /\ Release
    /\ job' = s_job
    /\ target' = s_target
    /\ local_gen' = s_generation
    /\ have_gen' = TRUE
    /\ late' = 0
    /\ UNCHANGED <<sharedVars, s_shares, netVars, template, nonce, b>>

HashNewWork ==
    /\ CopyWork
    /\ s_job.body \notin BadBranch
    /\ branch' = [job |-> s_job.body, whole |-> TRUE]
    /\ en2_counter' = 0
    /\ DropTemplate
    /\ ground' = {}
    /\ hashPc' = "build"

\* `continue' before the counter and the template are reset: the next rounds
\* go on with what the search had, under the new job's identifier and target.
HashBadBranch ==
    /\ CopyWork
    /\ s_job.body \in BadBranch
    /\ branch' = [job |-> s_job.body, whole |-> FALSE]
    /\ hashPc' = "poll"
    /\ UNCHANGED <<en2_counter, have_template, ground>>

HashBuild ==
    /\ hashPc = "build"
    /\ job.body \notin Unbuildable
    /\ template' = [job |-> job.body, branch |-> branch,
                    en2 |-> extranonce2_hex(en2_counter)]
    /\ nonce' = 0
    /\ have_template' = TRUE
    /\ b' = 0
    /\ hashPc' = "grind"
    /\ UNCHANGED <<lock, sharedVars, s_shares, netVars, workVars, en2_counter,
                   history>>

HashBuildFails ==
    /\ hashPc = "build"
    /\ job.body \in Unbuildable
    /\ hashPc' = "poll"
    /\ UNCHANGED <<lock, sharedVars, s_shares, netVars, workVars, searchVars,
                   history>>

\* Reading the shared job, without the lock, instead of the task's copy.
BugShareOfSharedJob ==
    [job_id |-> s_job.id, extranonce2 |-> template.en2, ntime |-> s_job.body,
     nonce |-> nonce, target |-> target]

FoundShare ==
    [job_id |-> job.id, extranonce2 |-> template.en2, ntime |-> job.body,
     nonce |-> nonce, target |-> target]

\* xQueueSend with a timeout of 0: a share that finds the queue full is lost.
Report ==
    s_shares' = IF Meets(template, nonce, target) /\ Len(s_shares) < QueueLen
                THEN Append(s_shares, FoundShare)
                ELSE s_shares

\* The nonce is hashed.  The history starts again when the extranonce2 strings
\* have all been used and the first one comes back.
HashOne ==
    /\ hashPc = "grind"
    /\ ~BatchDone
    /\ Report
    /\ late' = IF s_generation # local_gen THEN late + 1 ELSE late
    /\ UNCHANGED <<lock, sharedVars, netVars, workVars, template>>

HashNonceNext ==
    /\ HashOne
    /\ ~LastNonce
    /\ nonce' = nonce + 1
    /\ b' = b + 1
    /\ ground' = ground \cup {<<template.en2, nonce>>}
    /\ UNCHANGED <<hashPc, have_template, en2_counter>>

HashNonceLast ==
    /\ HashOne
    /\ LastNonce
    /\ en2_counter' = (en2_counter + 1) % CounterMod
    /\ DropTemplate
    /\ hashPc' = "poll"
    /\ ground' = IF extranonce2_hex(en2_counter') = 0
                 THEN {} ELSE ground \cup {<<template.en2, nonce>>}
    /\ UNCHANGED <<nonce, b>>

HashBatchEnd ==
    /\ hashPc = "grind"
    /\ BatchDone
    /\ hashPc' = "poll"
    /\ UNCHANGED <<lock, sharedVars, s_shares, netVars, workVars, searchVars,
                   history>>

-----------------------------------------------------------------------------
NetStep ==
    \/ NetReadDifficulty \/ NetReadNotify \/ NetReadMalformed \/ NetTakeLock
    \/ NetPutTarget \/ NetPutJobHead \/ NetPutJobTail
    \/ NetNoLine \/ NetSend \/ NetSendDone \/ NetRestart

HashStep ==
    \/ HashTake \/ HashNotReady \/ HashSameWork \/ HashNewWork \/ HashBadBranch
    \/ HashBuild \/ HashBuildFails
    \/ HashNonceNext \/ HashNonceLast \/ HashBatchEnd

Next == NetStep \/ HashStep

Spec == Init /\ [][Next]_vars

(***************************************************************************)
(* Both tasks are scheduled: each has its core, and each delays in every   *)
(* round.  A task that waits for s_lock gets it in the end (strong         *)
(* fairness: the other one gives it back again and again).  The pool does  *)
(* not send lines without end: again and again a poll finds no line.       *)
(***************************************************************************)
NetGoesOn ==
    NetPutTarget \/ NetPutJobHead \/ NetPutJobTail \/ NetSend \/ NetSendDone

Fairness ==
    /\ WF_vars(HashStep)
    /\ SF_vars(HashTake)
    /\ WF_vars(NetGoesOn)
    /\ SF_vars(NetTakeLock)
    /\ SF_vars(NetNoLine)

FairSpec == Spec /\ Fairness

-----------------------------------------------------------------------------
(* Properties. *)

\* The shares in the queue.
Queued == {s_shares[i] : i \in 1 .. Len(s_shares)}

\* The hash task never works under a job put together from two notifies, nor
\* queues or sends a share of one: every copy of s_job is made while nobody is
\* half way through writing it (main.c:136-147, 352-356).
NoTornWork ==
    /\ job.id = job.body
    /\ \A s \in Queued : s.job_id = s.ntime

\* A hash task that sees its own generation may keep its copies: as long as the
\* generation has not moved, they are the published job and target.  So every
\* write of either is followed by a bump before the lock is given back.
FreshWork ==
    (have_gen /\ local_gen = s_generation /\ lock # "net")
        => job = s_job /\ target = s_target

\* Whatever came in between (new work while a share waits, a new extranonce2, a
\* malformed notify), the four fields of a queued or sent share let the pool
\* rebuild a header that meets the target in force when it was found.  Jobs
\* whose branch does not decode are the exception (UndecodableJobNeverMined).
SharesReconstruct ==
    \A s \in Queued \cup ({wire} \ {<<>>}) :
        s.job_id \notin BadBranch => ShareSolves(s)

\* main.c:16-19: new work is noticed at the next batch boundary.  Counting from
\* the moment the generation moves, at most one batch is hashed on old work,
\* even when the move falls between the look at the generation and the batch.
StaleWorkBound == late <= HashBatch

\* The search leaves nothing out and repeats nothing: what was hashed for the
\* current work is exactly the nonces before the current one, under this and
\* all earlier extranonce2 strings (main.c:209-236, batches cut it anywhere).
GroundExactly ==
    ground = Covered(extranonce2_hex(en2_counter),
                     IF have_template THEN nonce ELSE 0)

\* Main.c implements the abstract miner: an unlocked or half-made copy of the
\* work, a share under another identifier or target, or shares out of order
\* would each be a step ShareFlow does not have.
Flow == INSTANCE ShareFlow WITH
    Capacity <- QueueLen,
    Excused <- BadBranch,
    announced <- [job |-> s_job.body, target |-> s_target],
    mining <- [job |-> job.body, target |-> target],
    outbox <- s_shares,
    wire <- wire
ImplementsShareFlow == Flow!FlowSpec

\* Work published while the connection lasts is picked up, or newer work is:
\* neither task keeps the lock, and the hash task keeps coming back for it.
NewWorkReached ==
    \A g \in 1 .. MaxGeneration :
        (ready /\ s_generation = g) ~> (ready => have_gen /\ local_gen >= g)

\* A full queue does not stay full: the network task comes to its send loop and
\* takes shares out, however lines and locks interleave (main.c:373-382).
FullQueueDrains == (Len(s_shares) = QueueLen) ~> (Len(s_shares) < QueueLen)

-----------------------------------------------------------------------------
(* A property that a comment of the sources states and the code violates.  *)

\* A job that does not decode is dropped (stratum_proto.c:8-13), as the desktop
\* miner does.  Here HashBadBranch keeps its identifier, ntime and target, and
\* grinds on with the template it had, or with half a branch.
UndecodableJobNeverMined == \A s \in Queued : s.job_id \notin BadBranch
=============================================================================
