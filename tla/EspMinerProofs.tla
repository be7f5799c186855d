--------------------------- MODULE EspMinerProofs ---------------------------
(***************************************************************************)
(* Proofs about EspMiner for every value of its constants: any number of   *)
(* jobs and targets, any nonce and extranonce2 range, batch and queue      *)
(* length.  Each theorem rests on the ones before it.                      *)
(***************************************************************************)
EXTENDS EspMiner, TLAPS

-----------------------------------------------------------------------------
(* The search order of MiningWork, for every number of nonces and extranonce2 *)
(* strings.                                                                   *)

\* Dividing by a positive number leaves a remainder below it.
LEMMA RemainderBound ==
    ASSUME NEW x \in Nat, NEW m \in Nat \ {0}
    PROVE  x % m \in 0 .. m - 1
OBVIOUS

\* extranonce2_hex yields one of the strings of the agreed size.
LEMMA Extranonce2InRange ==
    ASSUME NEW c \in Counters
    PROVE  extranonce2_hex(c) \in Extranonce2s
BY SizesAssumption, RemainderBound DEF Counters, Extranonce2s, extranonce2_hex

\* A quotient and a remainder in range determine the remainder.
LEMMA DivisionUnique ==
    ASSUME NEW x \in Nat, NEW m \in Nat \ {0}, NEW q \in Nat,
           NEW r \in 0 .. m - 1, x = q * m + r
    PROVE  x % m = r
OBVIOUS

\* Counting on by one moves the remainder by one, or round to 0.
LEMMA RemainderNext ==
    ASSUME NEW x \in Nat, NEW m \in Nat \ {0}
    PROVE  (x + 1) % m = IF (x % m) + 1 = m THEN 0 ELSE (x % m) + 1
<1> DEFINE q == x \div m
           r == x % m
<1>1. q \in Nat /\ r \in 0 .. m - 1 /\ x = q * m + r
  OBVIOUS
<1>2. CASE r + 1 = m
  <2>1. x + 1 = (q + 1) * m + 0
    BY <1>1, <1>2
  <2> QED
    BY <1>1, <1>2, <2>1, DivisionUnique
<1>3. CASE r + 1 # m
  <2>1. x + 1 = q * m + (r + 1) /\ r + 1 \in 0 .. m - 1
    BY <1>1, <1>3
  <2> HIDE DEF q, r
  <2>2. (x + 1) % m = r + 1
    BY <1>1, <2>1, DivisionUnique
  <2> QED
    BY <1>3, <2>2 DEF r
<1> QED
  BY <1>2, <1>3

\* The extranonce2 string after the counter's next step: the following one, or
\* the first again; the counter's own overflow changes nothing.
LEMMA Extranonce2Next ==
    ASSUME NEW c \in Counters
    PROVE  extranonce2_hex((c + 1) % CounterMod)
               = IF extranonce2_hex(c) + 1 = En2Space
                 THEN 0 ELSE extranonce2_hex(c) + 1
<1> USE DEF Counters, extranonce2_hex
<1>1. c \in Nat /\ CounterMod \in Nat \ {0} /\ En2Space \in Nat \ {0}
      /\ c <= CounterMod - 1
  BY SizesAssumption
<1>2. (c + 1) % En2Space = IF (c % En2Space) + 1 = En2Space
                           THEN 0 ELSE (c % En2Space) + 1
  BY <1>1, RemainderNext
<1>3. CASE c + 1 < CounterMod
  <2>1. (c + 1) % CounterMod = c + 1
    BY <1>1, <1>3, DivisionUnique, c + 1 = 0 * CounterMod + (c + 1)
  <2> QED
    BY <1>2, <2>1
<1>4. CASE c + 1 = CounterMod
  <2>1. (c + 1) % CounterMod = 0
    BY <1>1, <1>4, DivisionUnique, CounterMod = 1 * CounterMod + 0
  <2>2. (c + 1) % En2Space = 0
    BY <1>4, SizesAssumption
  <2>3. 0 % En2Space = 0
    BY <1>1, DivisionUnique, 0 = 0 * En2Space + 0
  <2>4. c % En2Space \in 0 .. En2Space - 1
    BY <1>1, RemainderBound
  <2> QED
    BY <1>1, <1>2, <2>1, <2>2, <2>3, <2>4
<1> QED
  BY <1>1, <1>3, <1>4

\* The first string is all zeros.
LEMMA Extranonce2First == extranonce2_hex(0) = 0
<1>1. En2Space \in Nat \ {0} /\ 0 = 0 * En2Space + 0
  BY SizesAssumption
<1> QED
  BY <1>1, DivisionUnique DEF extranonce2_hex

\* The covered pairs grow by the nonce just hashed, and a string whose last
\* nonce is hashed is covered whole.
LEMMA CoveredGrows ==
    ASSUME NEW e \in Nat
    PROVE  /\ \A n \in Nat : Covered(e, n) \cup {<<e, n>>} = Covered(e, n + 1)
           /\ Covered(e, NonceMax + 1) = Covered(e + 1, 0)
           /\ Covered(0, 0) = {}
<1>1. ASSUME NEW n \in Nat
      PROVE  Covered(e, n) \cup {<<e, n>>} = Covered(e, n + 1)
  <2>1. 0 .. (n + 1) - 1 = (0 .. n - 1) \cup {n}
    OBVIOUS
  <2> QED
    BY <2>1 DEF Covered
<1>2. Covered(e, NonceMax + 1) = Covered(e + 1, 0)
  <2>1. /\ 0 .. (NonceMax + 1) - 1 = Nonces
        /\ 0 .. (e + 1) - 1 = (0 .. e - 1) \cup {e}
        /\ 0 .. 0 - 1 = {}
    BY SizesAssumption DEF Nonces
  <2> QED
    BY <2>1 DEF Covered
<1>3. Covered(0, 0) = {}
  BY 0 .. 0 - 1 = {} DEF Covered
<1> QED
  BY <1>1, <1>2, <1>3

USE DEF lockVars, sharedVars, netVars, workVars, searchVars, history, hashVars,
        vars

-----------------------------------------------------------------------------
(* Helper lemmas. *)

\* A share appended to, or taken from, a queue of shares leaves a queue.
LEMMA QueueTypes ==
    ASSUME NEW q \in Seq(Share)
    PROVE  /\ \A s \in Share : /\ Append(q, s) \in Seq(Share)
                               /\ Len(Append(q, s)) = Len(q) + 1
           /\ q # <<>> => /\ Head(q) \in Share
                          /\ Tail(q) \in Seq(Share)
                          /\ Len(Tail(q)) = Len(q) - 1
OBVIOUS

-----------------------------------------------------------------------------
(* Mutual exclusion. *)

\* The lock is held by the task whose code is inside a critical section.
LockInv ==
    /\ lock \in {"free", "net", "hash"}
    /\ lock = "net" <=> netPc \in {"putTarget", "putJobHead", "putJobTail"}
    /\ lock = "hash" <=> hashPc = "pickup"

\* The network task never writes the shared work while the hash task copies it
\* (main.c:138-147 against 344-348 and 353-357).
MutualExclusion ==
    ~(hashPc = "pickup" /\ netPc \in {"putTarget", "putJobHead", "putJobTail"})

\* The mutex is held exactly by the task that is between its take and its give
\* (main.c:138-147, 345-349, 353-357).
THEOREM LockInvariant == Spec => []LockInv
<1>1. Init => LockInv
  BY DEF Init, LockInv
<1>2. LockInv /\ [Next]_vars => LockInv'
  <2> SUFFICES ASSUME LockInv, [Next]_vars PROVE LockInv'
    OBVIOUS
  <2> USE DEF LockInv
  <2>1. CASE NetStep
    BY <2>1 DEF NetStep, NetReadDifficulty, NetReadNotify, NetReadMalformed,
       NetTakeLock, NetPutTarget, NetPutJobHead, NetPutJobTail, NetNoLine,
       NetSend, NetSendDone, NetRestart, Acquire, Release
  <2>2. CASE HashStep
    BY <2>2 DEF HashStep, HashTake, HashNotReady, HashSameWork, HashNewWork,
       HashBadBranch, CopyWork, HashBuild, HashBuildFails, HashNonceNext,
       HashNonceLast, HashOne, HashBatchEnd, Acquire, Release
  <2>3. CASE UNCHANGED vars
    BY <2>3
  <2> QED
    BY <2>1, <2>2, <2>3 DEF Next
<1> QED
  BY <1>1, <1>2, PTL DEF Spec

\* The two critical sections exclude each other, in every interleaving.
THEOREM NoTwoTasksInside == Spec => []MutualExclusion
<1>1. LockInv => MutualExclusion
  BY DEF LockInv, MutualExclusion
<1> QED
  BY <1>1, LockInvariant, PTL

-----------------------------------------------------------------------------
(* Types. *)

\* Room is left for the generation a line in the network task's hands will
\* bring: only that task publishes work, one line at a time.
RoomInv == netPc \notin {"drain", "send"} => s_generation < MaxGeneration

TypeInv == TypeOK /\ RoomInv

\* The initial values are of the right types.
LEMMA InitTypes == Init => TypeInv
<1> SUFFICES ASSUME Init PROVE TypeInv
  OBVIOUS
<1>1. ZeroTemplate \in Template /\ ZeroBranch \in Branch
  BY SizesAssumption DEF ZeroTemplate, Template, ZeroBranch, Branch, Extranonce2s
<1>2. ZeroJob \in StratumJob
  BY DEF ZeroJob, Whole, StratumJob
<1>3. 0 \in Counters /\ 0 \in Nonces /\ 0 \in 0 .. HashBatch
      /\ 0 \in 0 .. MaxGeneration
  BY SizesAssumption, EspAssumption DEF Counters, Nonces
<1>4. <<>> \in Seq(Share) /\ Len(<<>>) <= QueueLen
  BY EspAssumption
<1> QED
  BY <1>1, <1>2, <1>3, <1>4 DEF Init, TypeInv, TypeOK, RoomInv

\* Every step of the network task keeps the types.
LEMMA NetTypes == TypeInv /\ NetStep => TypeInv'
<1> SUFFICES ASSUME TypeInv, NetStep PROVE TypeInv'
  OBVIOUS
<1> USE DEF TypeInv, TypeOK, RoomInv
<1>1. CASE NetReadDifficulty
  BY <1>1 DEF NetReadDifficulty
<1>2. CASE NetReadNotify
  BY <1>2 DEF NetReadNotify, Whole, StratumJob
<1>3. CASE NetReadMalformed
  BY <1>3 DEF NetReadMalformed, StratumJob
<1>4. CASE NetTakeLock
  BY <1>4 DEF NetTakeLock, Acquire
<1>5. CASE NetPutTarget
  BY <1>5, EspAssumption DEF NetPutTarget, Bump, Release
<1>6. CASE NetPutJobHead
  BY <1>6 DEF NetPutJobHead, StratumJob
<1>7. CASE NetPutJobTail
  BY <1>7, EspAssumption DEF NetPutJobTail, Bump, Release, StratumJob
<1>8. CASE NetNoLine
  BY <1>8 DEF NetNoLine
<1>9. CASE NetSend
  <2>1. s_shares' \in Seq(Share) /\ Len(s_shares') <= QueueLen
        /\ wire' \in Share \cup {<<>>}
    BY <1>9, QueueTypes, EspAssumption DEF NetSend, TakeShare
  <2> QED
    BY <1>9, <2>1 DEF NetSend
<1>10. CASE NetSendDone
  BY <1>10 DEF NetSendDone
<1>11. CASE NetRestart
  <2>1. Init'
    BY <1>11 DEF NetRestart, Init
  <2> QED
    BY <2>1, InitTypes, PTL
<1> QED
  BY <1>1, <1>2, <1>3, <1>4, <1>5, <1>6, <1>7, <1>8, <1>9, <1>10, <1>11
     DEF NetStep

\* A share the hash task reports is a share, and it goes in only if it fits.
LEMMA ReportTypes ==
    ASSUME TypeOK, Report
    PROVE  s_shares' \in Seq(Share) /\ Len(s_shares') <= QueueLen
<1>1. FoundShare \in Share
  BY DEF TypeOK, FoundShare, Share, StratumJob, Template
<1> QED
  BY <1>1, QueueTypes, EspAssumption DEF TypeOK, Report

\* Every step of the hash task keeps the types.
LEMMA HashTypes == TypeInv /\ HashStep => TypeInv'
<1> SUFFICES ASSUME TypeInv, HashStep PROVE TypeInv'
  OBVIOUS
<1> USE DEF TypeInv, TypeOK, RoomInv
<1>1. CASE HashTake
  BY <1>1 DEF HashTake, Acquire
<1>2. CASE HashNotReady
  BY <1>2 DEF HashNotReady, Release
<1>3. CASE HashSameWork
  BY <1>3, EspAssumption DEF HashSameWork, Release
<1>4. CASE HashNewWork
  <2>1. en2_counter' \in Counters /\ ground' \subseteq Extranonce2s \X Nonces
    BY <1>4, SizesAssumption DEF HashNewWork, Counters
  <2>2. branch' \in Branch
    BY <1>4 DEF HashNewWork, StratumJob, Branch
  <2> QED
    BY <1>4, <2>1, <2>2 DEF HashNewWork, CopyWork, Release, DropTemplate
<1>5. CASE HashBadBranch
  BY <1>5 DEF HashBadBranch, CopyWork, Release, StratumJob, Branch
<1>6. CASE HashBuild
  <2>1. template' \in Template
    BY <1>6, Extranonce2InRange DEF HashBuild, Template, StratumJob
  <2>2. nonce' \in Nonces /\ b' \in 0 .. HashBatch
    BY <1>6, SizesAssumption, EspAssumption DEF HashBuild, Nonces
  <2> QED
    BY <1>6, <2>1, <2>2 DEF HashBuild
<1>7. CASE HashBuildFails
  BY <1>7 DEF HashBuildFails
<1>8. CASE HashNonceNext
  <2>1. s_shares' \in Seq(Share) /\ Len(s_shares') <= QueueLen
    BY <1>8, ReportTypes DEF HashNonceNext, HashOne
  <2>2. nonce' \in Nonces /\ b' \in 0 .. HashBatch
    BY <1>8, SizesAssumption, EspAssumption
       DEF HashNonceNext, HashOne, LastNonce, BatchDone, Nonces
  <2>3. ground' \subseteq Extranonce2s \X Nonces
    BY <1>8 DEF HashNonceNext, Template
  <2>4. late' \in Nat
    BY <1>8 DEF HashNonceNext, HashOne
  <2> QED
    BY <1>8, <2>1, <2>2, <2>3, <2>4 DEF HashNonceNext, HashOne
<1>9. CASE HashNonceLast
  <2>1. s_shares' \in Seq(Share) /\ Len(s_shares') <= QueueLen
    BY <1>9, ReportTypes DEF HashNonceLast, HashOne
  <2>2. en2_counter' \in Counters
    BY <1>9, SizesAssumption, RemainderBound DEF HashNonceLast, Counters
  <2>3. ground' \subseteq Extranonce2s \X Nonces
    BY <1>9 DEF HashNonceLast, Template
  <2>4. late' \in Nat
    BY <1>9 DEF HashNonceLast, HashOne
  <2>5. have_template' \in BOOLEAN
    BY <1>9 DEF HashNonceLast, DropTemplate
  <2> QED
    BY <1>9, <2>1, <2>2, <2>3, <2>4, <2>5 DEF HashNonceLast, HashOne
<1>10. CASE HashBatchEnd
  BY <1>10 DEF HashBatchEnd
<1> QED
  BY <1>1, <1>2, <1>3, <1>4, <1>5, <1>6, <1>7, <1>8, <1>9, <1>10 DEF HashStep

\* Types and room together are inductive.
THEOREM TypesInvariant == Spec => []TypeInv
<1>1. TypeInv /\ UNCHANGED vars => TypeInv'
  BY DEF TypeInv, TypeOK, RoomInv
<1>2. TypeInv /\ [Next]_vars => TypeInv'
  BY <1>1, NetTypes, HashTypes DEF Next
<1> QED
  BY <1>2, InitTypes, PTL DEF Spec

\* TypeOK is an invariant of the two tasks: the queue never overflows, the
\* generation, the nonce, the counter and the batch index stay in their ranges.
THEOREM TypeCorrect == Spec => []TypeOK
<1>1. TypeInv => TypeOK
  BY DEF TypeInv
<1> QED
  BY <1>1, TypesInvariant, PTL

-----------------------------------------------------------------------------
(* The shared work and the hash task's copy of it. *)

\* Under the lock s_job may have the head of the job being written; outside it
\* is whole, and a copy of the current generation is a copy of what is there.
WorkInv ==
    /\ netPc \in {"gotJob", "putJobHead", "putJobTail"}
         => scratch_job.id = scratch_job.body
    /\ netPc # "putJobTail" => s_job.id = s_job.body
    /\ netPc = "putJobTail" => s_job.id = scratch_job.id
    /\ job.id = job.body
    /\ local_gen <= s_generation
    /\ FreshWork

\* What the two tasks' steps do to WorkInv, given the lock and the types.
LEMMA WorkStep ==
    ASSUME TypeInv, LockInv, WorkInv, [Next]_vars
    PROVE  WorkInv'
<1> USE DEF WorkInv, FreshWork
<1> USE DEF TypeInv, TypeOK, RoomInv, LockInv
<1>1. CASE NetReadDifficulty
  BY <1>1 DEF NetReadDifficulty
<1>2. CASE NetReadNotify
  BY <1>2 DEF NetReadNotify, Whole
<1>3. CASE NetReadMalformed
  BY <1>3 DEF NetReadMalformed
<1>4. CASE NetTakeLock
  BY <1>4 DEF NetTakeLock, Acquire
<1>5. CASE NetPutTarget
  BY <1>5, EspAssumption DEF NetPutTarget, Bump, Release
<1>6. CASE NetPutJobHead
  BY <1>6 DEF NetPutJobHead, StratumJob
<1>7. CASE NetPutJobTail
  BY <1>7, EspAssumption DEF NetPutJobTail, Bump, Release, StratumJob
<1>8. CASE NetNoLine
  BY <1>8 DEF NetNoLine
<1>9. CASE NetSend
  BY <1>9 DEF NetSend
<1>10. CASE NetSendDone
  BY <1>10 DEF NetSendDone
<1>11. CASE NetRestart
  BY <1>11 DEF NetRestart, ZeroJob, Whole
<1>12. CASE HashTake
  BY <1>12 DEF HashTake, Acquire
<1>13. CASE HashNotReady
  BY <1>13 DEF HashNotReady, Release
<1>14. CASE HashSameWork
  BY <1>14 DEF HashSameWork, Release
<1>15. CASE HashNewWork
  BY <1>15 DEF HashNewWork, CopyWork, Release
<1>16. CASE HashBadBranch
  BY <1>16 DEF HashBadBranch, CopyWork, Release
<1>17. CASE HashBuild
  BY <1>17 DEF HashBuild
<1>18. CASE HashBuildFails
  BY <1>18 DEF HashBuildFails
<1>19. CASE HashNonceNext
  BY <1>19 DEF HashNonceNext, HashOne
<1>20. CASE HashNonceLast
  BY <1>20 DEF HashNonceLast, HashOne
<1>21. CASE HashBatchEnd
  BY <1>21 DEF HashBatchEnd
<1>22. CASE UNCHANGED vars
  BY <1>22
<1> QED
  BY <1>1, <1>2, <1>3, <1>4, <1>5, <1>6, <1>7, <1>8, <1>9, <1>10, <1>11, <1>12,
     <1>13, <1>14, <1>15, <1>16, <1>17, <1>18, <1>19, <1>20, <1>21, <1>22
     DEF Next, NetStep, HashStep

\* The copy of the work is whole, and fresh as long as the generation is.
THEOREM WorkInvariant == Spec => []WorkInv
<1>1. Init => WorkInv
  BY DEF Init, WorkInv, FreshWork, ZeroJob, Whole
<1>2. TypeInv /\ LockInv /\ WorkInv /\ [Next]_vars => WorkInv'
  BY WorkStep
<1> QED
  BY <1>1, <1>2, TypesInvariant, LockInvariant, PTL DEF Spec

\* The generation counter is enough to know that the copies are fresh: every
\* write of the job or the target bumps it before the lock is free again.
THEOREM CopiesAreFresh == Spec => []FreshWork
<1>1. WorkInv => FreshWork
  BY DEF WorkInv
<1> QED
  BY <1>1, WorkInvariant, PTL

-----------------------------------------------------------------------------
(* Where the search stands. *)

\* What the hash task's place in its loop says about its template.
SearchInv ==
    /\ hashPc \in {"build", "grind"} => have_gen
    /\ have_template => have_gen
    /\ hashPc = "grind" => have_template
    /\ hashPc = "build" => ~have_template
    /\ have_template => template.en2 = extranonce2_hex(en2_counter)
    /\ have_gen /\ job.body \notin BadBranch
         => branch = [job |-> job.body, whole |-> TRUE]
    /\ have_template /\ job.body \notin BadBranch
         => template.job = job.body /\ template.branch = branch

\* Only the hash task moves its search; a restart starts it again.
LEMMA SearchStep ==
    ASSUME TypeInv, SearchInv, [Next]_vars
    PROVE  SearchInv'
<1> USE DEF SearchInv
<1>1. CASE NetRestart
  BY <1>1 DEF NetRestart
<1>2. CASE NetStep /\ ~NetRestart
  <2>1. UNCHANGED hashVars
    BY <1>2 DEF NetStep, NetReadDifficulty, NetReadNotify, NetReadMalformed,
       NetTakeLock, NetPutTarget, NetPutJobHead, NetPutJobTail, NetNoLine,
       NetSend, NetSendDone
  <2> QED
    BY <2>1
<1>3. CASE HashTake
  BY <1>3 DEF HashTake
<1>4. CASE HashNotReady
  BY <1>4 DEF HashNotReady
<1>5. CASE HashSameWork
  BY <1>5 DEF HashSameWork, ready, changed
<1>6. CASE HashNewWork
  BY <1>6 DEF HashNewWork, CopyWork, DropTemplate
<1>7. CASE HashBadBranch
  BY <1>7 DEF HashBadBranch, CopyWork
<1>8. CASE HashBuild
  BY <1>8 DEF HashBuild
<1>9. CASE HashBuildFails
  BY <1>9 DEF HashBuildFails
<1>10. CASE HashNonceNext
  BY <1>10 DEF HashNonceNext, HashOne
<1>11. CASE HashNonceLast
  BY <1>11 DEF HashNonceLast, HashOne, DropTemplate
<1>12. CASE HashBatchEnd
  BY <1>12 DEF HashBatchEnd
<1>13. CASE UNCHANGED vars
  BY <1>13
<1> QED
  BY <1>1, <1>2, <1>3, <1>4, <1>5, <1>6, <1>7, <1>8, <1>9, <1>10, <1>11, <1>12,
     <1>13 DEF Next, HashStep

\* The template is of the task's own job, branch and extranonce2, unless the
\* job's branch did not decode.
THEOREM SearchInvariant == Spec => []SearchInv
<1>1. Init => SearchInv
  BY DEF Init, SearchInv
<1>2. TypeInv /\ SearchInv /\ [Next]_vars => SearchInv'
  BY SearchStep
<1> QED
  BY <1>1, <1>2, TypesInvariant, PTL DEF Spec

-----------------------------------------------------------------------------
(* How long old work is searched. *)

\* Old work is only hashed inside the batch during which, or just before
\* which, the generation moved: the batch index bounds the count.
StaleInv ==
    /\ late <= HashBatch
    /\ ~have_gen \/ local_gen = s_generation => late = 0
    /\ hashPc = "build" => late = 0
    /\ hashPc = "grind" => late <= b

\* A step of either task keeps the count of nonces tried on old work within the
\* batch in which the generation moved.
LEMMA StaleStep ==
    ASSUME TypeInv, WorkInv, SearchInv, StaleInv, [Next]_vars
    PROVE  StaleInv'
<1>1. local_gen \in Nat /\ s_generation \in Nat /\ late \in Nat /\ b \in 0 .. HashBatch
      /\ local_gen <= s_generation /\ HashBatch \in Nat
  BY EspAssumption DEF TypeInv, TypeOK, WorkInv
<1> USE <1>1 DEF StaleInv
<1>2. CASE NetRestart
  BY <1>2 DEF NetRestart
<1>3. CASE NetPutTarget \/ NetPutJobTail
  BY <1>3 DEF NetPutTarget, NetPutJobTail, Bump
<1>4. CASE NetStep /\ ~(NetRestart \/ NetPutTarget \/ NetPutJobTail)
  <2>1. UNCHANGED <<s_generation, hashVars>>
    BY <1>4 DEF NetStep, NetReadDifficulty, NetReadNotify, NetReadMalformed,
       NetTakeLock, NetPutJobHead, NetNoLine, NetSend, NetSendDone
  <2> QED
    BY <2>1
<1>5. CASE HashTake \/ HashNotReady \/ HashBuildFails \/ HashBatchEnd
  BY <1>5 DEF HashTake, HashNotReady, HashBuildFails, HashBatchEnd
<1>6. CASE HashSameWork
  BY <1>6 DEF HashSameWork, ready, changed
<1>7. CASE HashNewWork \/ HashBadBranch
  BY <1>7 DEF HashNewWork, HashBadBranch, CopyWork
<1>8. CASE HashBuild
  BY <1>8 DEF HashBuild
<1>9. CASE HashNonceNext
  BY <1>9 DEF HashNonceNext, HashOne, BatchDone, SearchInv
<1>10. CASE HashNonceLast
  BY <1>10 DEF HashNonceLast, HashOne, BatchDone, SearchInv
<1>11. CASE UNCHANGED vars
  BY <1>11
<1> QED
  BY <1>2, <1>3, <1>4, <1>5, <1>6, <1>7, <1>8, <1>9, <1>10, <1>11
     DEF Next, HashStep

\* Work replaced while a batch runs has had no more nonces than the batch.
THEOREM StaleInvariant == Spec => []StaleInv
<1>1. Init => StaleInv
  BY EspAssumption DEF Init, StaleInv
<1>2. TypeInv /\ WorkInv /\ SearchInv /\ StaleInv /\ [Next]_vars => StaleInv'
  BY StaleStep
<1> QED
  BY <1>1, <1>2, TypesInvariant, WorkInvariant, SearchInvariant, PTL DEF Spec

\* Once the generation has moved, at most HASH_BATCH nonces are tried on old
\* work before the hash task turns to the new (main.c:16-19).
THEOREM OldWorkEndsWithinABatch == Spec => []StaleWorkBound
<1>1. StaleInv => StaleWorkBound
  BY DEF StaleInv, StaleWorkBound
<1> QED
  BY <1>1, StaleInvariant, PTL

-----------------------------------------------------------------------------
(* What the search has covered. *)

\* A step keeps what was hashed equal to the pairs before the current one.
LEMMA GroundStep ==
    ASSUME TypeInv, SearchInv, GroundExactly, [Next]_vars
    PROVE  GroundExactly'
<1> DEFINE en2 == extranonce2_hex(en2_counter)
<1>1. en2 \in Nat /\ en2 < En2Space /\ nonce \in Nat
  BY Extranonce2InRange, SizesAssumption
     DEF TypeInv, TypeOK, Extranonce2s, Nonces
<1>2. CASE UNCHANGED <<ground, en2_counter, have_template, nonce>>
  BY <1>2 DEF GroundExactly
<1>3. CASE NetRestart \/ HashNewWork
  <2>1. ground' = {} /\ en2_counter' = 0 /\ have_template' = FALSE
    BY <1>3 DEF NetRestart, HashNewWork, DropTemplate
  <2> QED
    BY <2>1, Extranonce2First, CoveredGrows DEF GroundExactly
<1>4. CASE HashBuild
  <2>1. ~have_template /\ nonce' = 0 /\ UNCHANGED <<ground, en2_counter>>
    BY <1>4 DEF HashBuild, SearchInv
  <2> QED
    BY <2>1 DEF GroundExactly
<1>5. CASE HashNonceNext
  <2>1. have_template /\ template.en2 = en2
    BY <1>5 DEF HashNonceNext, HashOne, SearchInv
  <2>2. /\ ground' = ground \cup {<<en2, nonce>>}
        /\ nonce' = nonce + 1
        /\ UNCHANGED <<en2_counter, have_template>>
    BY <1>5, <2>1 DEF HashNonceNext, HashOne
  <2>3. ground = Covered(en2, nonce)
    BY <2>1 DEF GroundExactly
  <2>4. ground' = Covered(en2, nonce + 1)
    BY <1>1, <2>2, <2>3, CoveredGrows
  <2> QED
    BY <2>1, <2>2, <2>4 DEF GroundExactly
<1>6. CASE HashNonceLast
  <2>1. have_template /\ template.en2 = en2 /\ nonce = NonceMax
    BY <1>6 DEF HashNonceLast, HashOne, LastNonce, SearchInv
  <2>2. have_template' = FALSE
    BY <1>6 DEF HashNonceLast, DropTemplate
  <2>3. extranonce2_hex(en2_counter')
          = IF en2 + 1 = En2Space THEN 0 ELSE en2 + 1
    BY <1>6, Extranonce2Next DEF HashNonceLast, TypeInv, TypeOK
  <2>4. ground' = IF extranonce2_hex(en2_counter') = 0
                  THEN {} ELSE ground \cup {<<en2, nonce>>}
    BY <1>6, <2>1 DEF HashNonceLast
  <2>5. ground = Covered(en2, nonce)
    BY <2>1 DEF GroundExactly
  <2>6. ground \cup {<<en2, nonce>>} = Covered(en2 + 1, 0)
    BY <1>1, <2>1, <2>5, CoveredGrows
  <2>7. ground' = Covered(extranonce2_hex(en2_counter'), 0)
    BY <1>1, <2>3, <2>4, <2>6, CoveredGrows
  <2> QED
    BY <2>2, <2>7 DEF GroundExactly
<1>7. CASE NetStep /\ ~NetRestart
  <2>1. UNCHANGED hashVars
    BY <1>7 DEF NetStep, NetReadDifficulty, NetReadNotify, NetReadMalformed,
       NetTakeLock, NetPutTarget, NetPutJobHead, NetPutJobTail, NetNoLine,
       NetSend, NetSendDone
  <2> QED
    BY <1>2, <2>1
<1>8. CASE \/ HashTake \/ HashNotReady \/ HashSameWork \/ HashBadBranch
           \/ HashBuildFails \/ HashBatchEnd
  <2>1. UNCHANGED <<ground, en2_counter, have_template, nonce>>
    BY <1>8 DEF HashTake, HashNotReady, HashSameWork, HashBadBranch, CopyWork,
       HashBuildFails, HashBatchEnd
  <2> QED
    BY <1>2, <2>1
<1>9. CASE UNCHANGED vars
  BY <1>2, <1>9
<1> QED
  BY <1>3, <1>4, <1>5, <1>6, <1>7, <1>8, <1>9 DEF Next, HashStep

\* For every nonce range, extranonce2 size and batch length, no nonce of the
\* work is passed over or tried twice before the strings run out.
THEOREM SearchIsExact == Spec => []GroundExactly
<1>1. Init => GroundExactly
  BY Extranonce2First, CoveredGrows DEF Init, GroundExactly
<1>2. TypeInv /\ SearchInv /\ GroundExactly /\ [Next]_vars => GroundExactly'
  BY GroundStep
<1> QED
  BY <1>1, <1>2, TypesInvariant, SearchInvariant, PTL DEF Spec

-----------------------------------------------------------------------------
(* Shares. *)

\* Every share in the queue or on the wire is of one job, and the pool's
\* rebuilt header solves it unless the job's branch did not decode.
GoodShare(s) ==
    /\ s.job_id = s.ntime
    /\ s.job_id \notin BadBranch => ShareSolves(s)

ShareInv == \A s \in Queued \cup ({wire} \ {<<>>}) : GoodShare(s)

\* What is in a queue after a share is appended or taken.
LEMMA QueueContents ==
    ASSUME NEW q \in Seq(Share), NEW s \in Share
    PROVE  /\ {Append(q, s)[i] : i \in 1 .. Len(Append(q, s))}
                \subseteq {q[i] : i \in 1 .. Len(q)} \cup {s}
           /\ q # <<>> =>
                /\ Head(q) \in {q[i] : i \in 1 .. Len(q)}
                /\ {Tail(q)[i] : i \in 1 .. Len(Tail(q))}
                     \subseteq {q[i] : i \in 1 .. Len(q)}
OBVIOUS

\* A share the hash task reports comes from its whole copy of the job and, when
\* the branch decoded, from the template the pool rebuilds.
LEMMA FoundShareIsGood ==
    ASSUME TypeInv, WorkInv, SearchInv, hashPc = "grind",
           Meets(template, nonce, target)
    PROVE  /\ FoundShare \in Share
           /\ GoodShare(FoundShare)
           /\ FoundShare.job_id = job.body /\ FoundShare.target = target
<1>1. FoundShare \in Share
  BY DEF TypeInv, TypeOK, FoundShare, Share, StratumJob, Template
<1>2. /\ FoundShare.job_id = job.body /\ FoundShare.ntime = job.body
      /\ FoundShare.extranonce2 = template.en2
      /\ FoundShare.nonce = nonce /\ FoundShare.target = target
  BY DEF FoundShare, WorkInv
<1>3. ASSUME job.body \notin BadBranch
      PROVE  template = PoolTemplate(job.body, template.en2)
  <2>1. template.job = job.body
        /\ template.branch = [job |-> job.body, whole |-> TRUE]
    BY <1>3 DEF SearchInv
  <2>2. template = [job |-> template.job, branch |-> template.branch,
                    en2 |-> template.en2]
    BY DEF TypeInv, TypeOK, Template
  <2> QED
    BY <2>1, <2>2 DEF PoolTemplate
<1> QED
  BY <1>1, <1>2, <1>3 DEF GoodShare, ShareSolves

\* A step adds to the queue and to the wire only shares that are good.
LEMMA ShareStep ==
    ASSUME TypeInv, WorkInv, SearchInv, ShareInv, [Next]_vars
    PROVE  ShareInv'
<1>0. s_shares \in Seq(Share)
  BY DEF TypeInv, TypeOK
<1>1. CASE UNCHANGED <<s_shares, wire>>
  BY <1>1 DEF ShareInv, Queued
<1>2. CASE NetRestart
  <2>1. Queued' = {} /\ wire' = <<>>
    BY <1>2 DEF NetRestart, Queued
  <2> QED
    BY <2>1 DEF ShareInv
<1>3. CASE NetSend
  <2>1. /\ wire' \in {Head(s_shares), wire} /\ s_shares # <<>>
        /\ s_shares' = Tail(s_shares)
    BY <1>3 DEF NetSend, TakeShare
  <2>2. Queued' \subseteq Queued /\ Head(s_shares) \in Queued
    <3>1. Head(s_shares) \in Share
      BY <1>0, <2>1
    <3> QED
      BY <1>0, <2>1, <3>1, QueueContents DEF Queued
  <2> QED
    BY <2>1, <2>2 DEF ShareInv
<1>4. CASE HashNonceNext \/ HashNonceLast
  <2>1. HashOne /\ hashPc = "grind" /\ Report /\ wire' = wire
    BY <1>4 DEF HashNonceNext, HashNonceLast, HashOne
  <2>2. CASE s_shares' = s_shares
    BY <1>1, <2>1, <2>2
  <2>3. CASE Meets(template, nonce, target)
             /\ s_shares' = Append(s_shares, FoundShare)
    <3>1. FoundShare \in Share /\ GoodShare(FoundShare)
      BY <2>1, <2>3, FoundShareIsGood
    <3>2. Queued' \subseteq Queued \cup {FoundShare}
      BY <1>0, <2>3, <3>1, QueueContents DEF Queued
    <3> QED
      BY <2>1, <3>1, <3>2 DEF ShareInv
  <2> QED
    BY <2>1, <2>2, <2>3 DEF Report
<1>5. CASE NetStep /\ ~(NetRestart \/ NetSend)
  <2>1. UNCHANGED <<s_shares, wire>>
    BY <1>5 DEF NetStep, NetReadDifficulty, NetReadNotify, NetReadMalformed,
       NetTakeLock, NetPutTarget, NetPutJobHead, NetPutJobTail, NetNoLine,
       NetSendDone
  <2> QED
    BY <1>1, <2>1
<1>6. CASE HashStep /\ ~(HashNonceNext \/ HashNonceLast)
  <2>1. UNCHANGED <<s_shares, wire>>
    BY <1>6 DEF HashStep, HashTake, HashNotReady, HashSameWork, HashNewWork,
       HashBadBranch, CopyWork, HashBuild, HashBuildFails, HashBatchEnd
  <2> QED
    BY <1>1, <2>1
<1>7. CASE UNCHANGED vars
  BY <1>1, <1>7
<1> QED
  BY <1>2, <1>3, <1>4, <1>5, <1>6, <1>7 DEF Next

\* Every share queued or sent is of one job, and of its template.
THEOREM ShareInvariant == Spec => []ShareInv
<1>1. Init => ShareInv
  <2> SUFFICES ASSUME Init PROVE ShareInv
    OBVIOUS
  <2>1. Queued = {} /\ wire = <<>>
    BY DEF Init, Queued
  <2> QED
    BY <2>1 DEF ShareInv
<1>2. TypeInv /\ WorkInv /\ SearchInv /\ ShareInv /\ [Next]_vars => ShareInv'
  BY ShareStep
<1> QED
  BY <1>1, <1>2, TypesInvariant, WorkInvariant, SearchInvariant, PTL DEF Spec

\* For jobs whose branch decodes, every share sent is one the pool can rebuild,
\* whatever the hash function, the interleaving and the pool's announcements.
THEOREM SharesAreRebuilt == Spec => []SharesReconstruct
<1>1. ShareInv => SharesReconstruct
  BY DEF ShareInv, SharesReconstruct, GoodShare
<1> QED
  BY <1>1, ShareInvariant, PTL

\* Neither the job being searched nor a queued share has the halves of two jobs.
THEOREM WorkIsNeverTorn == Spec => []NoTornWork
<1>1. WorkInv /\ ShareInv => NoTornWork
  BY DEF WorkInv, ShareInv, NoTornWork, GoodShare
<1> QED
  BY <1>1, WorkInvariant, ShareInvariant, PTL

-----------------------------------------------------------------------------
(* The two tasks implement the abstract miner. *)

\* What is published, or about to be, is a job or a target the pool sent.
PublishInv ==
    /\ netPc \in {"gotJob", "putJobHead", "putJobTail"} => scratch_job.body \in Jobs
    /\ netPc \in {"gotTarget", "putTarget"} => scratch_target \in Targets
    /\ s_have_job => s_job.body \in Jobs
    /\ s_have_target => s_target \in Targets

\* What is published as ready is a job and a target the pool sent.
THEOREM PublishInvariant == Spec => []PublishInv
<1>1. Init => PublishInv
  BY DEF Init, PublishInv
<1>2. TypeInv /\ PublishInv /\ [Next]_vars => PublishInv'
  <2> SUFFICES ASSUME TypeInv, PublishInv, [Next]_vars PROVE PublishInv'
    OBVIOUS
  <2> USE DEF PublishInv
  <2>1. CASE NetStep
    BY <2>1 DEF NetStep, NetReadDifficulty, NetReadNotify, NetReadMalformed,
       NetTakeLock, NetPutTarget, NetPutJobHead, NetPutJobTail, NetNoLine,
       NetSend, NetSendDone, NetRestart, Whole, TypeInv, TypeOK, StratumJob
  <2>2. CASE HashStep
    BY <2>2 DEF HashStep, HashTake, HashNotReady, HashSameWork, HashNewWork,
       HashBadBranch, CopyWork, HashBuild, HashBuildFails, HashNonceNext,
       HashNonceLast, HashOne, HashBatchEnd
  <2>3. CASE UNCHANGED vars
    BY <2>3
  <2> QED
    BY <2>1, <2>2, <2>3 DEF Next
<1> QED
  BY <1>1, <1>2, TypesInvariant, PTL DEF Spec

\* Each step is an abstract step, or leaves all that the abstract miner shows.
LEMMA FlowStep ==
    ASSUME TypeInv, WorkInv, SearchInv, PublishInv, [Next]_vars
    PROVE  [Flow!FlowNext]_(Flow!flowVars)
<1> USE DEF Flow!FlowNext, Flow!flowVars
<1>1. CASE NetPutTarget
  <2>1. Flow!Announce
    BY <1>1 DEF NetPutTarget, PublishInv, Flow!Announce
  <2> QED
    BY <2>1
<1>2. CASE NetPutJobTail
  <2>1. s_job'.body = scratch_job.body /\ scratch_job.body \in Jobs
    BY <1>2 DEF NetPutJobTail, PublishInv, TypeInv, TypeOK, StratumJob
  <2>2. Flow!Announce
    BY <1>2, <2>1 DEF NetPutJobTail, Flow!Announce
  <2> QED
    BY <2>2
<1>3. CASE NetPutJobHead
  <2>1. s_job'.body = s_job.body
    BY <1>3 DEF NetPutJobHead, TypeInv, TypeOK, StratumJob
  <2> QED
    BY <1>3, <2>1 DEF NetPutJobHead
<1>4. CASE NetSend
  <2>1. Flow!Submit
    BY <1>4 DEF NetSend, TakeShare, Flow!Submit
  <2> QED
    BY <2>1
<1>5. CASE NetRestart
  <2>1. Flow!Reset
    BY <1>5 DEF NetRestart, Flow!Reset, Flow!FlowInit, Flow!NoWork, ZeroJob, Whole
  <2> QED
    BY <2>1
<1>6. CASE \/ NetReadDifficulty \/ NetReadNotify \/ NetReadMalformed
           \/ NetTakeLock \/ NetNoLine \/ NetSendDone
  BY <1>6 DEF NetReadDifficulty, NetReadNotify, NetReadMalformed, NetTakeLock,
     NetNoLine, NetSendDone
<1>7. CASE HashNewWork \/ HashBadBranch
  <2>1. /\ ready
        /\ job' = s_job /\ target' = s_target
        /\ UNCHANGED <<s_job, s_target, s_shares, wire>>
    BY <1>7 DEF HashNewWork, HashBadBranch, CopyWork, changed
  <2>2. s_job.body # NoJob /\ s_target # NoTarget
    BY <2>1, JobsAssumption, TargetsAssumption DEF ready, PublishInv
  <2>3. Flow!Switch
    BY <2>1, <2>2 DEF Flow!Switch
  <2> QED
    BY <2>3
<1>8. CASE HashNonceNext \/ HashNonceLast
  <2>1. /\ hashPc = "grind" /\ Report
        /\ UNCHANGED <<s_job, s_target, job, target, wire>>
    BY <1>8 DEF HashNonceNext, HashNonceLast, HashOne
  <2>2. CASE s_shares' = s_shares
    BY <2>1, <2>2
  <2>3. CASE /\ Meets(template, nonce, target) /\ Len(s_shares) < QueueLen
             /\ s_shares' = Append(s_shares, FoundShare)
    <3>1. /\ FoundShare \in Share /\ GoodShare(FoundShare)
          /\ FoundShare.job_id = job.body /\ FoundShare.target = target
      BY <2>1, <2>3, FoundShareIsGood
    <3>2. Flow!Found(FoundShare)
      BY <3>1 DEF GoodShare, Flow!Found, ShareSolves, PoolTemplate,
         Flow!ShareSolves, Flow!PoolTemplate
    <3>3. FoundShare \in Flow!Share
      BY <3>1 DEF Share, Extranonce2s, Nonces, Flow!Share, Flow!Extranonce2s,
         Flow!Nonces
    <3>4. Flow!Find
      BY <2>1, <2>3, <3>2, <3>3 DEF Flow!Find
    <3> QED
      BY <3>4
  <2> QED
    BY <2>1, <2>2, <2>3 DEF Report
<1>9. CASE \/ HashTake \/ HashNotReady \/ HashSameWork \/ HashBuild
           \/ HashBuildFails \/ HashBatchEnd
  BY <1>9 DEF HashTake, HashNotReady, HashSameWork, HashBuild, HashBuildFails,
     HashBatchEnd
<1>10. CASE UNCHANGED vars
  BY <1>10
<1> QED
  BY <1>1, <1>2, <1>3, <1>4, <1>5, <1>6, <1>7, <1>8, <1>9, <1>10
     DEF Next, NetStep, HashStep

\* The miner with two tasks, a lock and a queue is an implementation of the
\* abstract miner, for every set of jobs and targets and every queue length.
THEOREM MinerImplementsShareFlow == Spec => ImplementsShareFlow
<1>1. Init => Flow!FlowInit
  BY DEF Init, Flow!FlowInit, Flow!NoWork, ZeroJob, Whole
<1>2. TypeInv /\ WorkInv /\ SearchInv /\ PublishInv /\ [Next]_vars
        => [Flow!FlowNext]_(Flow!flowVars)
  BY FlowStep
<1> QED
  BY <1>1, <1>2, TypesInvariant, WorkInvariant, SearchInvariant,
     PublishInvariant, PTL DEF Spec, ImplementsShareFlow, Flow!FlowSpec

\* Each pair of an extranonce2 and a nonce is hashed once since the hash task last
\* took over work it could build, until all have been: also while announcements come
\* in the middle of a batch, and after a job with a bad branch, which leaves the
\* search where it was (main.c:108-240).
NothingHashedTwice == [][HashOne => <<template.en2, nonce>> \notin ground]_vars

\* For every nonce range, extranonce2 size and batch length, and whatever the
\* network task does in between, the nonce about to be hashed is new to the work.
THEOREM EachPairIsHashedOnce == Spec => NothingHashedTwice
<1>1. ASSUME TypeInv, SearchInv, GroundExactly, HashOne
      PROVE  <<template.en2, nonce>> \notin ground
  <2>1. have_template /\ template.en2 = extranonce2_hex(en2_counter)
    BY <1>1 DEF SearchInv, HashOne
  <2>2. ground = Covered(template.en2, nonce)
    BY <1>1, <2>1 DEF GroundExactly
  <2>3. template.en2 \in Nat /\ nonce \in Nat
    BY <1>1, SizesAssumption DEF TypeInv, TypeOK, Template, Extranonce2s, Nonces
  <2> QED
    BY <2>2, <2>3 DEF Covered
<1>2. TypeInv /\ SearchInv /\ GroundExactly
        => [HashOne => <<template.en2, nonce>> \notin ground]_vars
  BY <1>1
<1> QED
  BY <1>2, TypesInvariant, SearchInvariant, SearchIsExact, PTL DEF NothingHashedTwice
=============================================================================
