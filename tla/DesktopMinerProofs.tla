-------------------------- MODULE DesktopMinerProofs --------------------------
(***************************************************************************)
(* Proofs about DesktopMiner for every value of its constants: any jobs,   *)
(* good, malformed, undecodable or unbuildable, any targets, and any nonce *)
(* and extranonce2 range and batch.                                        *)
(***************************************************************************)
EXTENDS DesktopMiner, TLAPS

-----------------------------------------------------------------------------
(* The search order of MiningWork, for every number of nonces and extranonce2 *)
(* strings.                                                                   *)

\* Dividing by a positive number leaves a remainder below it.
LEMMA RemainderBound ==
    ASSUME NEW x \in Nat, NEW m \in Nat \ {0}
    PROVE  x % m \in 0 .. m - 1
OBVIOUS

\* extranonce2_hex yields one of the strings of the agreed size.
LEMMA Extranonce2InRange ==
    ASSUME NEW c \in Counters
    PROVE  extranonce2_hex(c) \in Extranonce2s
BY SizesAssumption, RemainderBound DEF Counters, Extranonce2s, extranonce2_hex

\* A quotient and a remainder in range determine the remainder.
LEMMA DivisionUnique ==
    ASSUME NEW x \in Nat, NEW m \in Nat \ {0}, NEW q \in Nat,
           NEW r \in 0 .. m - 1, x = q * m + r
    PROVE  x % m = r
OBVIOUS

\* Counting on by one moves the remainder by one, or round to 0.
LEMMA RemainderNext ==
    ASSUME NEW x \in Nat, NEW m \in Nat \ {0}
    PROVE  (x + 1) % m = IF (x % m) + 1 = m THEN 0 ELSE (x % m) + 1
<1> DEFINE q == x \div m
           r == x % m
<1>1. q \in Nat /\ r \in 0 .. m - 1 /\ x = q * m + r
  OBVIOUS
<1>2. CASE r + 1 = m
  <2>1. x + 1 = (q + 1) * m + 0
    BY <1>1, <1>2
  <2> QED
    BY <1>1, <1>2, <2>1, DivisionUnique
<1>3. CASE r + 1 # m
  <2>1. x + 1 = q * m + (r + 1) /\ r + 1 \in 0 .. m - 1
    BY <1>1, <1>3
  <2> HIDE DEF q, r
  <2>2. (x + 1) % m = r + 1
    BY <1>1, <2>1, DivisionUnique
  <2> QED
    BY <1>3, <2>2 DEF r
<1> QED
  BY <1>2, <1>3

\* The extranonce2 string after the counter's next step: the following one, or
\* the first again; the counter's own overflow changes nothing.
LEMMA Extranonce2Next ==
    ASSUME NEW c \in Counters
    PROVE  extranonce2_hex((c + 1) % CounterMod)
               = IF extranonce2_hex(c) + 1 = En2Space
                 THEN 0 ELSE extranonce2_hex(c) + 1
<1> USE DEF Counters, extranonce2_hex
<1>1. c \in Nat /\ CounterMod \in Nat \ {0} /\ En2Space \in Nat \ {0}
      /\ c <= CounterMod - 1
  BY SizesAssumption
<1>2. (c + 1) % En2Space = IF (c % En2Space) + 1 = En2Space
                           THEN 0 ELSE (c % En2Space) + 1
  BY <1>1, RemainderNext
<1>3. CASE c + 1 < CounterMod
  <2>1. (c + 1) % CounterMod = c + 1
    BY <1>1, <1>3, DivisionUnique, c + 1 = 0 * CounterMod + (c + 1)
  <2> QED
    BY <1>2, <2>1
<1>4. CASE c + 1 = CounterMod
  <2>1. (c + 1) % CounterMod = 0
    BY <1>1, <1>4, DivisionUnique, CounterMod = 1 * CounterMod + 0
  <2>2. (c + 1) % En2Space = 0
    BY <1>4, SizesAssumption
  <2>3. 0 % En2Space = 0
    BY <1>1, DivisionUnique, 0 = 0 * En2Space + 0
  <2>4. c % En2Space \in 0 .. En2Space - 1
    BY <1>1, RemainderBound
  <2> QED
    BY <1>1, <1>2, <2>1, <2>2, <2>3, <2>4
<1> QED
  BY <1>1, <1>3, <1>4

\* The first string is all zeros.
LEMMA Extranonce2First == extranonce2_hex(0) = 0
<1>1. En2Space \in Nat \ {0} /\ 0 = 0 * En2Space + 0
  BY SizesAssumption
<1> QED
  BY <1>1, DivisionUnique DEF extranonce2_hex

\* The covered pairs grow by the nonce just hashed, and a string whose last
\* nonce is hashed is covered whole.
LEMMA CoveredGrows ==
    ASSUME NEW e \in Nat
    PROVE  /\ \A n \in Nat : Covered(e, n) \cup {<<e, n>>} = Covered(e, n + 1)
           /\ Covered(e, NonceMax + 1) = Covered(e + 1, 0)
           /\ Covered(0, 0) = {}
<1>1. ASSUME NEW n \in Nat
      PROVE  Covered(e, n) \cup {<<e, n>>} = Covered(e, n + 1)
  <2>1. 0 .. (n + 1) - 1 = (0 .. n - 1) \cup {n}
    OBVIOUS
  <2> QED
    BY <2>1 DEF Covered
<1>2. Covered(e, NonceMax + 1) = Covered(e + 1, 0)
  <2>1. /\ 0 .. (NonceMax + 1) - 1 = Nonces
        /\ 0 .. (e + 1) - 1 = (0 .. e - 1) \cup {e}
        /\ 0 .. 0 - 1 = {}
    BY SizesAssumption DEF Nonces
  <2> QED
    BY <2>1 DEF Covered
<1>3. Covered(0, 0) = {}
  BY 0 .. 0 - 1 = {} DEF Covered
<1> QED
  BY <1>1, <1>2, <1>3

USE DEF vars, jobVars, targetVars, searchVars

-----------------------------------------------------------------------------
(* Types. *)

\* A share the miner finds is a share.
LEMMA FoundShareType == TypeOK => FoundShare \in Share
BY DEF TypeOK, FoundShare, Share, StratumJob, Template

\* The initial values are of the right types.
LEMMA InitTypes == Init => TypeOK
<1> SUFFICES ASSUME Init PROVE TypeOK
  OBVIOUS
<1>1. ZeroTemplate \in Template /\ ZeroBranch \in Branch
  BY SizesAssumption DEF ZeroTemplate, Template, ZeroBranch, Branch, Extranonce2s
<1>2. ZeroJob \in StratumJob
  BY DEF ZeroJob, Whole, StratumJob
<1>3. 0 \in Counters /\ 0 \in Nonces /\ 0 \in 0 .. NonceBatch
  BY SizesAssumption, DesktopAssumption DEF Counters, Nonces
<1> QED
  BY <1>1, <1>2, <1>3 DEF Init, TypeOK

\* Every step keeps the types.
LEMMA TypeStep == TypeOK /\ [Next]_vars => TypeOK'
<1> SUFFICES ASSUME TypeOK, [Next]_vars PROVE TypeOK'
  OBVIOUS
<1> USE DEF TypeOK
<1>1. CASE ReadDifficulty
  BY <1>1 DEF ReadDifficulty, SearchGoesOn
<1>2. CASE ReadNotify
  <2>1. 0 \in Counters /\ 0 \in Nonces
    BY SizesAssumption DEF Counters, Nonces
  <2>2. job' \in StratumJob /\ branch' \in Branch /\ have_job' \in BOOLEAN
    BY <1>2 DEF ReadNotify, Whole, StratumJob, Branch, BranchDecodes
  <2> QED
    BY <1>2, <2>1, <2>2 DEF ReadNotify, DropTemplate
<1>3. CASE ReadMalformed
  BY <1>3, DesktopAssumption DEF ReadMalformed, Whole, StratumJob
<1>4. CASE NoLine \/ ConnectionClosed \/ Idle \/ BatchEnd
  BY <1>4 DEF NoLine, ConnectionClosed, Idle, BatchEnd
<1>5. CASE Resume
  BY <1>5, DesktopAssumption DEF Resume
<1>6. CASE Build
  <2>1. template' \in Template
    BY <1>6, Extranonce2InRange DEF Build, Template, StratumJob
  <2>2. nonce' \in Nonces /\ b' \in 0 .. NonceBatch
    BY <1>6, SizesAssumption, DesktopAssumption DEF Build, Nonces
  <2> QED
    BY <1>6, <2>1, <2>2 DEF Build
<1>7. CASE BuildFails
  BY <1>7 DEF BuildFails, SkipJob
<1>8. CASE NonceNext
  <2>1. wire' \in Share \cup {<<>>}
    BY <1>8, FoundShareType DEF NonceNext, HashOne
  <2>2. nonce' \in Nonces /\ b' \in 0 .. NonceBatch
    BY <1>8, SizesAssumption, DesktopAssumption DEF NonceNext, HashOne, LastNonce, Nonces
  <2>3. ground' \subseteq Extranonce2s \X Nonces
    BY <1>8 DEF NonceNext, Template
  <2> QED
    BY <1>8, <2>1, <2>2, <2>3 DEF NonceNext, HashOne
<1>9. CASE NonceLast
  <2>1. wire' \in Share \cup {<<>>}
    BY <1>9, FoundShareType DEF NonceLast, HashOne
  <2>2. en2_counter' \in Counters
    BY <1>9, SizesAssumption, RemainderBound DEF NonceLast, Counters
  <2>3. ground' \subseteq Extranonce2s \X Nonces
    BY <1>9 DEF NonceLast, Template
  <2> QED
    BY <1>9, <2>1, <2>2, <2>3 DEF NonceLast, HashOne, DropTemplate
<1>10. CASE UNCHANGED vars
  BY <1>10
<1> QED
  BY <1>1, <1>2, <1>3, <1>4, <1>5, <1>6, <1>7, <1>8, <1>9, <1>10
     DEF Next, ReadLine, Mine

\* The nonce, the counter and the batch index stay in their ranges, and all that
\* is sent has the form of a share (main.c:256-284 of app_desktop).
THEOREM DesktopTypes == Spec => []TypeOK
BY InitTypes, TypeStep, PTL DEF Spec

-----------------------------------------------------------------------------
(* The job, the template and what the search may assume of them. *)

\* The live job may be a mixture, but only after a malformed notify, whose
\* identifier it then has.  Otherwise what is mined is the job named last: its
\* branch decoded, and the template is the one the pool rebuilds.
MineInv ==
    /\ pc = "grind" => template_ready
    /\ template_ready => have_job /\ template.en2 = extranonce2_hex(en2_counter)
    /\ have_job => job.id \in Jobs
    /\ have_target => share_target \in Targets
    /\ job.id \notin Malformed =>
         /\ job.body = job.id
         /\ have_job => /\ job.id \notin BadBranch
                        /\ branch = [job |-> job.id, whole |-> TRUE]
         /\ template_ready => /\ job.id \notin Unbuildable
                              /\ template.job = job.id
                              /\ template.branch = branch

\* Each line and each part of the loop keeps it.
LEMMA MineStep ==
    ASSUME TypeOK, MineInv, [Next]_vars
    PROVE  MineInv'
<1> USE DEF MineInv
<1>1. CASE ReadDifficulty
  BY <1>1 DEF ReadDifficulty, SearchGoesOn
<1>2. CASE ReadNotify
  <2>1. PICK j \in Jobs : /\ job' = Whole(j)
                          /\ have_job' = (j \notin BadBranch)
                          /\ branch' = [job |-> j, whole |-> j \notin BadBranch]
    BY <1>2 DEF ReadNotify, BranchDecodes
  <2>2. job'.id = j /\ job'.body = j
    BY <2>1 DEF Whole
  <2>3. j \notin BadBranch => branch' = [job |-> j, whole |-> TRUE]
    <3>1. j \notin BadBranch => (j \notin BadBranch) = TRUE
      OBVIOUS
    <3> QED
      BY <2>1, <3>1, Zenon
  <2>4. /\ pc' = "drain" /\ template_ready' = FALSE
        /\ UNCHANGED <<share_target, have_target>>
    BY <1>2 DEF ReadNotify, DropTemplate
  <2> QED
    BY <2>1, <2>2, <2>3, <2>4
<1>3. CASE ReadMalformed
  <2>1. job'.id \in Malformed
    BY <1>3 DEF ReadMalformed, Whole, TypeOK, StratumJob
  <2> QED
    BY <1>3, <2>1, DesktopAssumption DEF ReadMalformed
<1>4. CASE NoLine \/ ConnectionClosed \/ Idle \/ BatchEnd
  BY <1>4 DEF NoLine, ConnectionClosed, Idle, BatchEnd
<1>5. CASE Resume
  BY <1>5 DEF Resume
<1>6. CASE Build
  BY <1>6 DEF Build
<1>7. CASE BuildFails
  BY <1>7 DEF BuildFails, SkipJob
<1>8. CASE NonceNext
  BY <1>8 DEF NonceNext, HashOne
<1>9. CASE NonceLast
  BY <1>9 DEF NonceLast, HashOne, DropTemplate
<1>10. CASE UNCHANGED vars
  BY <1>10
<1> QED
  BY <1>1, <1>2, <1>3, <1>4, <1>5, <1>6, <1>7, <1>8, <1>9, <1>10
     DEF Next, ReadLine, Mine

\* The live job is the one named last, whole, unless its notify was malformed.
THEOREM MineInvariant == Spec => []MineInv
<1>1. Init => MineInv
  BY DEF Init, MineInv, ZeroJob, Whole, ZeroBranch
<1>2. TypeOK /\ MineInv /\ [Next]_vars => MineInv'
  BY MineStep
<1> QED
  BY <1>1, <1>2, DesktopTypes, PTL DEF Spec

-----------------------------------------------------------------------------
(* Shares. *)

\* A share found is for the job named last and the target set last; unless the
\* job's notify was malformed it is for a usable job and the pool rebuilds it.
LEMMA FoundShareIsGood ==
    ASSUME TypeOK, MineInv, pc = "grind", Meets(template, nonce, share_target)
    PROVE  /\ FoundShare \in Share
           /\ FoundShare.job_id = job.id /\ FoundShare.target = share_target
           /\ FoundShare.job_id \notin Malformed =>
                /\ FoundShare.job_id \notin BadBranch \cup Unbuildable
                /\ ShareSolves(FoundShare)
<1>1. FoundShare \in Share
  BY FoundShareType
<1>2. /\ FoundShare.job_id = job.id /\ FoundShare.ntime = job.body
      /\ FoundShare.extranonce2 = template.en2
      /\ FoundShare.nonce = nonce /\ FoundShare.target = share_target
  BY DEF FoundShare
<1>3. ASSUME job.id \notin Malformed
      PROVE  /\ job.body = job.id /\ job.id \notin BadBranch \cup Unbuildable
             /\ template = PoolTemplate(job.id, template.en2)
  <2>1. /\ job.body = job.id /\ job.id \notin BadBranch \cup Unbuildable
        /\ template.job = job.id /\ template.branch = [job |-> job.id, whole |-> TRUE]
    BY <1>3 DEF MineInv
  <2>2. template = [job |-> template.job, branch |-> template.branch, en2 |-> template.en2]
    BY DEF TypeOK, Template
  <2> QED
    BY <2>1, <2>2 DEF PoolTemplate
<1> QED
  BY <1>1, <1>2, <1>3 DEF ShareSolves

\* What is on the wire changes only to a share found while grinding.
LEMMA WireStep ==
    ASSUME [Next]_vars, wire' # wire
    PROVE  /\ pc = "grind" /\ Meets(template, nonce, share_target)
           /\ wire' = FoundShare
           /\ UNCHANGED <<job, share_target>>
<1>1. CASE NonceNext \/ NonceLast
  BY <1>1 DEF NonceNext, NonceLast, HashOne
<1>2. CASE ~(NonceNext \/ NonceLast)
  BY <1>2 DEF Next, ReadLine, Mine, ReadDifficulty, ReadNotify, ReadMalformed, NoLine,
     ConnectionClosed, Idle, Resume, Build, BuildFails, BatchEnd
<1> QED
  BY <1>1, <1>2

\* No share is sent for a job whose branch, coinbase or header cannot be built,
\* not even from the template of the job before it, whatever lines come when.
THEOREM OnlyUsableJobsAreMined == Spec => []OnlyUsableJobsMined
<1>1. Init => OnlyUsableJobsMined
  BY DEF Init, OnlyUsableJobsMined
<1>2. ASSUME TypeOK, MineInv, OnlyUsableJobsMined, [Next]_vars
      PROVE  OnlyUsableJobsMined'
  <2>1. CASE wire' = wire
    BY <1>2, <2>1 DEF OnlyUsableJobsMined
  <2>2. CASE wire' # wire
    BY <1>2, <2>2, WireStep, FoundShareIsGood DEF OnlyUsableJobsMined
  <2> QED
    BY <2>1, <2>2
<1> QED
  BY <1>1, <1>2, DesktopTypes, MineInvariant, PTL DEF Spec

-----------------------------------------------------------------------------
(* What the search has covered. *)

\* Where an extranonce2 string ends: the pairs hashed are all up to it.
LEMMA LastNonceCovers ==
    ASSUME TypeOK, MineInv, GroundExactly, NonceLast
    PROVE  LET en2 == extranonce2_hex(en2_counter) IN
           /\ ground = Covered(en2, NonceMax)
           /\ template.en2 = en2 /\ nonce = NonceMax
           /\ extranonce2_hex(en2_counter') = IF en2 + 1 = En2Space THEN 0 ELSE en2 + 1
<1>1. template_ready /\ template.en2 = extranonce2_hex(en2_counter) /\ nonce = NonceMax
  BY DEF NonceLast, HashOne, LastNonce, MineInv
<1>2. ground = Covered(extranonce2_hex(en2_counter), NonceMax)
  BY <1>1 DEF GroundExactly
<1>3. extranonce2_hex(en2_counter')
        = IF extranonce2_hex(en2_counter) + 1 = En2Space
          THEN 0 ELSE extranonce2_hex(en2_counter) + 1
  BY Extranonce2Next DEF NonceLast, TypeOK
<1> QED
  BY <1>1, <1>2, <1>3

\* A step keeps what was hashed equal to the pairs before the current one.
LEMMA GroundStep ==
    ASSUME TypeOK, MineInv, GroundExactly, [Next]_vars
    PROVE  GroundExactly'
<1> DEFINE en2 == extranonce2_hex(en2_counter)
<1>1. en2 \in Nat /\ en2 < En2Space /\ nonce \in Nat
  BY Extranonce2InRange, SizesAssumption DEF TypeOK, Extranonce2s, Nonces
<1>2. CASE UNCHANGED <<ground, en2_counter, template_ready, nonce>>
  BY <1>2 DEF GroundExactly
<1>3. CASE ReadNotify
  <2>1. ground' = {} /\ en2_counter' = 0 /\ template_ready' = FALSE
    BY <1>3 DEF ReadNotify, DropTemplate
  <2> QED
    BY <2>1, Extranonce2First, CoveredGrows DEF GroundExactly
<1>4. CASE Build
  <2>1. ~template_ready /\ nonce' = 0 /\ UNCHANGED <<ground, en2_counter>>
    BY <1>4 DEF Build
  <2> QED
    BY <2>1 DEF GroundExactly
<1>5. CASE NonceNext
  <2>1. template_ready /\ template.en2 = en2
    BY <1>5 DEF NonceNext, HashOne, MineInv
  <2>2. /\ ground' = ground \cup {<<en2, nonce>>}
        /\ nonce' = nonce + 1
        /\ UNCHANGED <<en2_counter, template_ready>>
    BY <1>5, <2>1 DEF NonceNext, HashOne
  <2>3. ground' = Covered(en2, nonce + 1)
    <3>1. ground = Covered(en2, nonce)
      BY <2>1 DEF GroundExactly
    <3> QED
      BY <1>1, <2>2, <3>1, CoveredGrows
  <2> QED
    BY <2>1, <2>2, <2>3 DEF GroundExactly
<1>6. CASE NonceLast
  <2>1. /\ ground = Covered(en2, NonceMax) /\ template.en2 = en2 /\ nonce = NonceMax
        /\ extranonce2_hex(en2_counter') = IF en2 + 1 = En2Space THEN 0 ELSE en2 + 1
    BY <1>6, LastNonceCovers
  <2>2. /\ template_ready' = FALSE
        /\ ground' = IF extranonce2_hex(en2_counter') = 0
                     THEN {} ELSE ground \cup {<<en2, nonce>>}
    BY <1>6, <2>1 DEF NonceLast, DropTemplate
  <2>3. ground \cup {<<en2, nonce>>} = Covered(en2 + 1, 0)
    BY <1>1, <2>1, CoveredGrows
  <2>4. ground' = Covered(extranonce2_hex(en2_counter'), 0)
    BY <1>1, <2>1, <2>2, <2>3, CoveredGrows
  <2> QED
    BY <2>2, <2>4 DEF GroundExactly
<1>7. CASE \/ ReadDifficulty \/ ReadMalformed \/ NoLine \/ ConnectionClosed
           \/ Idle \/ Resume \/ BuildFails \/ BatchEnd \/ UNCHANGED vars
  <2>1. UNCHANGED <<ground, en2_counter, template_ready, nonce>>
    BY <1>7 DEF ReadDifficulty, SearchGoesOn, ReadMalformed, NoLine, ConnectionClosed,
       Idle, Resume, BuildFails, BatchEnd
  <2> QED
    BY <1>2, <2>1
<1> QED
  BY <1>3, <1>4, <1>5, <1>6, <1>7 DEF Next, ReadLine, Mine

\* For every nonce range, extranonce2 size and batch length, and whatever lines
\* come between two batches, no nonce of a job is passed over or tried twice
\* before its strings run out.
THEOREM DesktopSearchIsExact == Spec => []GroundExactly
<1>1. Init => GroundExactly
  BY Extranonce2First, CoveredGrows DEF Init, GroundExactly
<1>2. TypeOK /\ MineInv /\ GroundExactly /\ [Next]_vars => GroundExactly'
  BY GroundStep
<1> QED
  BY <1>1, <1>2, DesktopTypes, MineInvariant, PTL DEF Spec

\* Only a new job makes the search begin again, or the end of all pairs: a new
\* difficulty does not.
THEOREM SearchIsNotRepeated == Spec => SearchNotRepeated
<1> DEFINE Kept == \/ ground \subseteq ground'
                   \/ ReadNotify
                   \/ ground = Covered(En2Space - 1, NonceMax)
<1>1. ASSUME TypeOK, MineInv, GroundExactly, [Next]_vars
      PROVE  Kept
  <2>1. CASE NonceLast
    <3> DEFINE en2 == extranonce2_hex(en2_counter)
    <3>1. en2 \in Nat /\ En2Space \in Nat
      BY <1>1, Extranonce2InRange, SizesAssumption DEF TypeOK, Extranonce2s
    <3>2. /\ ground = Covered(en2, NonceMax)
          /\ extranonce2_hex(en2_counter') = IF en2 + 1 = En2Space THEN 0 ELSE en2 + 1
      BY <1>1, <2>1, LastNonceCovers
    <3>3. extranonce2_hex(en2_counter') # 0 => ground \subseteq ground'
      BY <2>1 DEF NonceLast
    <3>4. extranonce2_hex(en2_counter') = 0 => en2 = En2Space - 1
      BY <3>1, <3>2
    <3> QED
      BY <3>2, <3>3, <3>4
  <2>2. CASE NonceNext
    BY <2>2 DEF NonceNext
  <2>3. CASE ReadNotify
    BY <2>3
  <2>4. CASE ~(NonceLast \/ NonceNext \/ ReadNotify)
    <3>1. UNCHANGED ground
      BY <1>1, <2>4 DEF Next, ReadLine, Mine, ReadDifficulty, SearchGoesOn, ReadMalformed,
         NoLine, ConnectionClosed, Idle, Resume, Build, BuildFails, BatchEnd
    <3> QED
      BY <3>1
  <2> QED
    BY <2>1, <2>2, <2>3, <2>4
<1>2. TypeOK /\ MineInv /\ GroundExactly /\ [Next]_vars => [Kept]_vars
  BY <1>1
<1> QED
  BY <1>2, DesktopTypes, MineInvariant, DesktopSearchIsExact, PTL DEF Spec, SearchNotRepeated

-----------------------------------------------------------------------------
(* The desktop miner implements the abstract miner. *)

\* Each step is an abstract step, or leaves all that the abstract miner shows.
LEMMA FlowStep ==
    ASSUME TypeOK, MineInv, [Next]_vars
    PROVE  [Flow!FlowNext]_(Flow!flowVars)
<1> USE DEF Flow!FlowNext, Flow!flowVars
<1>1. CASE wire' # wire
  <2>1. /\ pc = "grind" /\ Meets(template, nonce, share_target) /\ wire' = FoundShare
        /\ UNCHANGED <<job, share_target>>
    BY <1>1, WireStep
  <2>2. /\ FoundShare \in Share
        /\ FoundShare.job_id = job.id /\ FoundShare.target = share_target
        /\ FoundShare.job_id \notin Malformed => ShareSolves(FoundShare)
    BY <2>1, FoundShareIsGood
  <2>3. Flow!Found(FoundShare)
    BY <2>2 DEF Flow!Found, ShareSolves, PoolTemplate, Flow!ShareSolves, Flow!PoolTemplate
  <2>4. FoundShare \in Flow!Share
    BY <2>2 DEF Share, Extranonce2s, Nonces, Flow!Share, Flow!Extranonce2s, Flow!Nonces
  <2>5. Flow!SubmitNow
    BY <2>1, <2>3, <2>4 DEF Flow!SubmitNow
  <2> QED
    BY <2>5
<1>2. CASE wire' = wire
  <2>1. CASE ReadDifficulty
    <3>1. Flow!Announce
      BY <1>2, <2>1 DEF ReadDifficulty, Flow!Announce
    <3> QED
      BY <3>1
  <2>2. CASE ReadNotify \/ ReadMalformed
    <3>1. \E j \in Jobs : job'.id = j /\ UNCHANGED share_target
      BY <2>2, DesktopAssumption
         DEF ReadNotify, ReadMalformed, Whole, TypeOK, StratumJob
    <3>2. Flow!Announce
      BY <1>2, <3>1 DEF Flow!Announce
    <3> QED
      BY <3>2
  <2>3. CASE ~(ReadDifficulty \/ ReadNotify \/ ReadMalformed)
    <3>1. UNCHANGED <<job, share_target>>
      BY <2>3 DEF Next, ReadLine, Mine, NoLine, ConnectionClosed, Idle, Resume, Build,
         BuildFails, BatchEnd, NonceNext, NonceLast, HashOne
    <3> QED
      BY <1>2, <3>1
  <2> QED
    BY <2>1, <2>2, <2>3
<1> QED
  BY <1>1, <1>2

\* The desktop program too implements the abstract miner, for every set of jobs
\* and targets: shares are of the work announced last, and the pool can rebuild
\* them unless the job came in a malformed notify.
THEOREM DesktopImplementsShareFlow == Spec => ImplementsShareFlow
<1>1. Init => Flow!FlowInit
  BY DEF Init, Flow!FlowInit, Flow!NoWork, ZeroJob, Whole
<1>2. TypeOK /\ MineInv /\ [Next]_vars => [Flow!FlowNext]_(Flow!flowVars)
  BY FlowStep
<1> QED
  BY <1>1, <1>2, DesktopTypes, MineInvariant, PTL
     DEF Spec, ImplementsShareFlow, Flow!FlowSpec

\* Each pair of an extranonce2 and a nonce is hashed once in a job, until all
\* have been: also over a new difficulty, and over batches cut anywhere.
NothingHashedTwice == [][HashOne => <<template.en2, nonce>> \notin ground]_vars

\* For every nonce range, extranonce2 size and batch length the nonce about to be
\* hashed is new to the job.
THEOREM EachPairIsHashedOnce == Spec => NothingHashedTwice
<1>1. ASSUME TypeOK, MineInv, GroundExactly, HashOne
      PROVE  <<template.en2, nonce>> \notin ground
  <2>1. template_ready /\ template.en2 = extranonce2_hex(en2_counter)
    BY <1>1 DEF MineInv, HashOne
  <2>2. ground = Covered(template.en2, nonce)
    BY <1>1, <2>1 DEF GroundExactly
  <2>3. template.en2 \in Nat /\ nonce \in Nat
    BY <1>1, SizesAssumption DEF TypeOK, Template, Extranonce2s, Nonces
  <2> QED
    BY <2>2, <2>3 DEF Covered
<1>2. TypeOK /\ MineInv /\ GroundExactly
        => [HashOne => <<template.en2, nonce>> \notin ground]_vars
  BY <1>1
<1> QED
  BY <1>2, DesktopTypes, MineInvariant, DesktopSearchIsExact, PTL DEF NothingHashedTwice

\* A share solves when the pool rebuilds its header, unless it goes out under the
\* identifier of a malformed notify: that is all that MalformedJobDropped misses.
OtherSharesSolve == wire # <<>> => wire.job_id \in Malformed \/ ShareSolves(wire)

\* However lines, batches and jobs interleave, no other share is wrong.
THEOREM OnlyMalformedSharesFail == Spec => []OtherSharesSolve
<1>1. Init => OtherSharesSolve
  BY DEF Init, OtherSharesSolve
<1>2. ASSUME TypeOK, MineInv, OtherSharesSolve, [Next]_vars
      PROVE  OtherSharesSolve'
  <2>1. CASE wire' = wire
    BY <1>2, <2>1 DEF OtherSharesSolve
  <2>2. CASE wire' # wire
    <3>1. /\ pc = "grind" /\ Meets(template, nonce, share_target) /\ wire' = FoundShare
      BY <1>2, <2>2, WireStep
    <3>2. FoundShare.job_id \notin Malformed => ShareSolves(FoundShare)
      BY <1>2, <3>1, FoundShareIsGood
    <3> QED
      BY <3>1, <3>2 DEF OtherSharesSolve, ShareSolves
  <2> QED
    BY <2>1, <2>2
<1> QED
  BY <1>1, <1>2, DesktopTypes, MineInvariant, PTL DEF Spec
=============================================================================
