------------------------ MODULE StratumSessionProofs ------------------------
(***************************************************************************)
(* Proofs about StratumSession, for every set of jobs, pushes and sessions *)
(* and every number of them: what the miner searches is what this pool     *)
(* asked for, and what it reports is what this pool answered.              *)
(***************************************************************************)
EXTENDS StratumSession, SequenceTheorems, FiniteSetTheorems, TLAPS

-----------------------------------------------------------------------------
(* Parsing into a buffer that holds another job. *)

\* A stratum_job_t, whatever is in it.
IsJob(job) ==
    /\ job = [texts |-> job.texts, merkle_branch |-> job.merkle_branch,
              merkle_count |-> job.merkle_count, clean_jobs |-> job.clean_jobs]
    /\ DOMAIN job.texts = 1..7
    /\ DOMAIN job.merkle_branch = 1..MaxBranches

\* The empty job is one.
LEMMA ZeroIsJob == IsJob(ZeroJob)
BY DEF IsJob, ZeroJob

\* Whatever is copied to a buffer of texts, it stays a buffer of as many texts.
LEMMA CopyKeepsDomain ==
    ASSUME NEW dst, NEW src
    PROVE  DOMAIN CopiedTo(dst, src) = DOMAIN dst
BY DEF CopiedTo

\* When all texts are good nothing of the old buffer is left in their place.
LEMMA CopyCoversAll ==
    ASSUME NEW dst, NEW src, NEW n \in Nat, Len(src) = n, Copied(n, src),
           1..n \subseteq DOMAIN dst
    PROVE  \A i \in 1..n : CopiedTo(dst, src)[i] = src[i].string
BY DEF CopiedTo, Copied

\* A buffer remains a job, whether the line was taken or refused.
LEMMA ParseKeepsJob ==
    ASSUME NEW line, NEW job, IsJob(job)
    PROVE  IsJob(stratum_parse_notify(line, job).job)
<1> DEFINE src == [i \in 1..7 |-> Item(line.params, Position[i])]
           branch == Item(line.params, 4)
           clean == Item(line.params, 8)
           filled == CopiedTo(job.texts, src)
           hashes == CopiedTo(job.merkle_branch, branch.array)
           n == Len(branch.array)
           ok == Copied(n, branch.array) /\ Is("bool", clean)
           count == BranchCount(job, Cardinality({i \in 1..n : Copied(i, branch.array)}))
<1>1. DOMAIN filled = 1..7 /\ DOMAIN hashes = 1..MaxBranches
  BY CopyKeepsDomain, Zenon DEF IsJob
<1>2. stratum_parse_notify(line, job).job \in
        {job, [job EXCEPT !.texts = filled],
         [texts |-> filled, merkle_branch |-> hashes, merkle_count |-> count,
          clean_jobs |-> IF ok THEN clean.bool ELSE job.clean_jobs]}
  BY DEF stratum_parse_notify
<1> HIDE DEF src, branch, clean, filled, hashes, n, ok, count
<1>3. [job EXCEPT !.texts = filled] =
        [texts |-> filled, merkle_branch |-> job.merkle_branch,
         merkle_count |-> job.merkle_count, clean_jobs |-> job.clean_jobs]
  BY DEF IsJob
<1> QED
  BY <1>1, <1>2, <1>3 DEF IsJob

\* The texts of a notification, its branch, and that nothing is wrong with it.
Source(line) == [i \in 1..7 |-> Item(line.params, Position[i])]
Branch(line) == Item(line.params, 4)
Count(line) == Len(Branch(line).array)
Clean(line) == Item(line.params, 8)
Framing(line) == ~ (~ IsCall(line, "mining.notify") \/ ~ ArrayOf(9, line.params))
Head7(line) == ~ (~ Copied(7, Source(line)) \/ ~ Is("array", Branch(line)) \/ Count(line) > MaxBranches)
Whole(line) ==
    Framing(line) /\ Head7(line) /\ Copied(Count(line), Branch(line).array) /\ Is("bool", Clean(line))
Hashes(line) == Cardinality({i \in 1..Count(line) : Copied(i, Branch(line).array)})

\* A whole line is what the parser takes, and the job it leaves.
LEMMA ParseWhole ==
    ASSUME NEW line, NEW job
    PROVE  /\ stratum_parse_notify(line, job).ok = Whole(line)
           /\ Whole(line) => stratum_parse_notify(line, job).job =
                [texts |-> CopiedTo(job.texts, Source(line)),
                 merkle_branch |-> CopiedTo(job.merkle_branch, Branch(line).array),
                 merkle_count |-> Hashes(line), clean_jobs |-> Clean(line).bool]
<1> DEFINE ok == Copied(Count(line), Branch(line).array) /\ Is("bool", Clean(line))
           filled == CopiedTo(job.texts, Source(line))
           hashes == CopiedTo(job.merkle_branch, Branch(line).array)
<1>1. stratum_parse_notify(line, job) =
        IF ~ Framing(line) THEN [ok |-> FALSE, job |-> job]
        ELSE IF ~ Head7(line) THEN [ok |-> FALSE, job |-> [job EXCEPT !.texts = filled]]
        ELSE [ok |-> ok,
              job |-> [texts |-> filled, merkle_branch |-> hashes, merkle_count |-> Hashes(line),
                       clean_jobs |-> IF ok THEN Clean(line).bool ELSE job.clean_jobs]]
  BY Zenon DEF stratum_parse_notify, BranchCount, Framing, Head7, Source, Branch, Count, Clean, Hashes
<1>2. Whole(line) = (Framing(line) /\ Head7(line) /\ ok)
  BY Zenon DEF Whole
<1>3. ok \in BOOLEAN /\ Framing(line) \in BOOLEAN /\ Head7(line) \in BOOLEAN
  BY Zenon DEF Framing, Head7
<1> HIDE DEF ok, filled, hashes
<1>4. CASE ~ Framing(line) \/ ~ Head7(line)
  <2>1. stratum_parse_notify(line, job).ok = FALSE
    BY <1>1, <1>4
  <2>2. Whole(line) = FALSE
    BY <1>2, <1>4, Zenon
  <2> QED
    BY <2>1, <2>2
<1>5. CASE Framing(line) /\ Head7(line)
  <2>1. stratum_parse_notify(line, job) =
          [ok |-> ok,
           job |-> [texts |-> filled, merkle_branch |-> hashes, merkle_count |-> Hashes(line),
                    clean_jobs |-> IF ok THEN Clean(line).bool ELSE job.clean_jobs]]
    BY <1>1, <1>5
  <2>2. Whole(line) = ok
    BY <1>2, <1>3, <1>5
  <2> QED
    BY <2>1, <2>2, <1>3 DEF filled, hashes
<1> QED
  BY <1>4, <1>5

\* Whether a line is taken does not depend on the buffer, and a line that is taken
\* leaves the same job, as the pool reads it, in every buffer.
LEMMA ParseForgets ==
    ASSUME NEW line, NEW old, NEW job, IsJob(old), IsJob(job),
           stratum_parse_notify(line, old).ok => Count(line) \in Nat
    PROVE  /\ stratum_parse_notify(line, job).ok = stratum_parse_notify(line, old).ok
           /\ stratum_parse_notify(line, old).ok =>
                AsPool(stratum_parse_notify(line, job).job)
                  = AsPool(stratum_parse_notify(line, old).job)
<1>1. stratum_parse_notify(line, job).ok = stratum_parse_notify(line, old).ok
  BY ParseWhole, Zenon
<1>2. ASSUME Whole(line), Count(line) \in Nat, NEW j, IsJob(j)
      PROVE  /\ CopiedTo(j.texts, Source(line)) = [i \in 1..7 |-> Source(line)[i].string]
             /\ \A i \in 1..Count(line) :
                   CopiedTo(j.merkle_branch, Branch(line).array)[i] = Branch(line).array[i].string
  <2>0. Count(line) <= MaxBranches
    BY <1>2, ProtoAssumption DEF Whole, Head7
  <2>1. Len(Source(line)) = 7
    <3>1. Source(line) \in [1..7 -> {Source(line)[i] : i \in 1..7}] /\ DOMAIN Source(line) = 1..7
      BY DEF Source
    <3>2. Source(line) \in Seq({Source(line)[i] : i \in 1..7})
      BY <3>1, SeqDef
    <3> QED
      BY <3>1, <3>2, LenProperties
  <2>2. DOMAIN CopiedTo(j.texts, Source(line)) = 1..7
        /\ CopiedTo(j.texts, Source(line)) = [i \in 1..7 |-> CopiedTo(j.texts, Source(line))[i]]
    BY <1>2 DEF IsJob, CopiedTo
  <2>3. \A i \in 1..7 : CopiedTo(j.texts, Source(line))[i] = Source(line)[i].string
    <3> DEFINE n == 7
    <3>1. 1..n \subseteq DOMAIN j.texts /\ Copied(n, Source(line)) /\ n \in Nat
          /\ Len(Source(line)) = n
      BY <1>2, <2>1 DEF Whole, Head7, IsJob
    <3> HIDE DEF n
    <3>2. \A i \in 1..n : CopiedTo(j.texts, Source(line))[i] = Source(line)[i].string
      BY <3>1, CopyCoversAll
    <3> QED
      BY <3>2 DEF n
  <2>4. \A i \in 1..Count(line) :
          CopiedTo(j.merkle_branch, Branch(line).array)[i] = Branch(line).array[i].string
    <3>1. 1..Count(line) \subseteq DOMAIN j.merkle_branch
      BY <1>2, <2>0, ProtoAssumption DEF IsJob
    <3>2. Copied(Count(line), Branch(line).array) /\ Len(Branch(line).array) = Count(line)
      BY <1>2 DEF Whole, Count
    <3> QED
      BY <1>2, <3>1, <3>2, CopyCoversAll
  <2> QED
    BY <2>2, <2>3, <2>4
<1>3. ASSUME Whole(line), Count(line) \in Nat PROVE Hashes(line) = Count(line)
  <2>1. {i \in 1..Count(line) : Copied(i, Branch(line).array)} = 1..Count(line)
    BY <1>3 DEF Whole, Copied
  <2>2. Cardinality(1..Count(line)) = Count(line)
    BY <1>3, FS_Interval
  <2> QED
    BY <2>1, <2>2 DEF Hashes
<1>4. CASE ~ Whole(line)
  BY <1>1, <1>4, ParseWhole
<1>5. CASE Whole(line)
  <2>1. Count(line) \in Nat
    BY <1>5, ParseWhole
  <2>2. Hashes(line) = Count(line) /\ Count(line) <= MaxBranches
    BY <1>3, <1>5, <2>1, ProtoAssumption DEF Whole, Head7
  <2>3. ASSUME NEW j, IsJob(j)
        PROVE  AsPool(stratum_parse_notify(line, j).job) =
                 [texts |-> [i \in 1..7 |-> Source(line)[i].string],
                  clean_jobs |-> Clean(line).bool,
                  merkle_branch |-> [i \in 1..Count(line) |-> Branch(line).array[i].string]]
    <3> DEFINE texts == [i \in 1..7 |-> Source(line)[i].string]
               hashes == CopiedTo(j.merkle_branch, Branch(line).array)
    <3>1. /\ CopiedTo(j.texts, Source(line)) = texts
          /\ \A i \in 1..Count(line) : hashes[i] = Branch(line).array[i].string
      BY <1>2, <1>5, <2>1, <2>3
    <3> HIDE DEF texts, hashes
    <3>2. stratum_parse_notify(line, j).job =
            [texts |-> texts, merkle_branch |-> hashes,
             merkle_count |-> Count(line), clean_jobs |-> Clean(line).bool]
      BY <1>5, <2>2, <3>1, ParseWhole DEF hashes
    <3>3. \A i \in 1..Count(line) : i <= MaxBranches
      BY <2>1, <2>2, ProtoAssumption
    <3>4. AsPool(stratum_parse_notify(line, j).job) =
            [texts |-> texts, clean_jobs |-> Clean(line).bool,
             merkle_branch |-> [i \in 1..Count(line) |-> Branch(line).array[i].string]]
      <4>1. [i \in 1..Count(line) |-> IF i <= MaxBranches THEN hashes[i] ELSE "past the end"]
              = [i \in 1..Count(line) |-> Branch(line).array[i].string]
        BY <3>1, <3>3
      <4> DEFINE left == stratum_parse_notify(line, j).job
      <4>2. /\ left.texts = texts /\ left.clean_jobs = Clean(line).bool
            /\ left.merkle_branch = hashes /\ left.merkle_count = Count(line)
        BY <3>2
      <4> HIDE DEF left
      <4>3. AsPool(left) =
              [texts |-> texts, clean_jobs |-> Clean(line).bool,
               merkle_branch |-> [i \in 1..Count(line) |-> Branch(line).array[i].string]]
        BY <4>1, <4>2, Zenon DEF AsPool
      <4> QED
        BY <4>3 DEF left
    <3> QED
      BY <3>4 DEF texts
  <2> QED
    BY <1>1, <2>3, Zenon
<1> QED
  BY <1>4, <1>5

\* A push carries the job the pool means, in whatever buffer it is read.
LEMMA PushParsed ==
    ASSUME NEW p \in Pushes, NEW job, IsJob(job)
    PROVE  /\ stratum_parse_notify(p, job).ok => p \in DOMAIN JobOf
           /\ stratum_parse_notify(p, job).ok =>
                AsPool(stratum_parse_notify(p, job).job) = JobOf[p]
<1>1. stratum_parse_notify(p, ZeroJob).ok <=> p \in DOMAIN JobOf
  BY PushesAssumption
<1>2. stratum_parse_notify(p, ZeroJob).ok =>
        AsPool(stratum_parse_notify(p, ZeroJob).job) = JobOf[p]
  BY PushesAssumption
<1>3. p \in DOMAIN JobOf => Count(p) \in Nat
  BY SessionAssumption DEF Count, Branch
<1>4. /\ stratum_parse_notify(p, job).ok = stratum_parse_notify(p, ZeroJob).ok
      /\ stratum_parse_notify(p, ZeroJob).ok =>
           AsPool(stratum_parse_notify(p, job).job) = AsPool(stratum_parse_notify(p, ZeroJob).job)
  BY <1>1, <1>3, ZeroIsJob, ParseForgets
<1> QED
  BY <1>1, <1>2, <1>4, Zenon

-----------------------------------------------------------------------------
(* The pool's answers, as the parsers see them. *)

\* The pool's answer to the subscribe request, and the lines it may answer with.
AssignedResult(s) == Array(<<Array(<<>>), Text(s.extranonce1), Number(s.size)>>)
OtherError == Array(<<Number(20), Text("Other/Unknown")>>)
AnswerLine(n, result, error) == Object(Number(n), Absent, Absent, result, error)
Results == {Null, Bool(TRUE), Bool(FALSE)} \cup {AssignedResult(s) : s \in Sessions}
Errors == {Null, OtherError}
Answers == {AnswerLine(n, result, error) : n \in Nat, result \in Results, error \in Errors}
SubOf(s) == [extranonce1 |-> s.extranonce1, extranonce2_size |-> s.size]

\* No answer is taken for a notification or a difficulty.
LEMMA AnswersAreNoCalls ==
    ASSUME NEW l \in Answers, NEW job
    PROVE  /\ ~ stratum_parse_set_difficulty(l).ok
           /\ ~ stratum_parse_notify(l, job).ok
<1>1. l.method = Absent
  <2>1. \E n, result, error : l = AnswerLine(n, result, error)
    BY DEF Answers
  <2> QED
    BY <2>1 DEF AnswerLine, Object
<1>2. ~ IsCall(l, "mining.notify") /\ ~ IsCall(l, "mining.set_difficulty")
  BY <1>1 DEF IsCall, Text, Absent
<1>3. ~ Whole(l)
  BY <1>2, Zenon DEF Whole, Framing
<1>4. stratum_parse_notify(l, job).ok = Whole(l)
  BY ParseWhole
<1> QED
  BY <1>2, <1>3, <1>4 DEF stratum_parse_set_difficulty

\* An acknowledgement is read with its id and its verdict.
LEMMA VerdictParsed ==
    ASSUME NEW n \in Nat, NEW accepted \in BOOLEAN
    PROVE  LET l == AnswerLine(n, Bool(accepted), Null)
           IN  /\ stratum_parse_result(l).id = n
               /\ stratum_parse_result(l).accepted = accepted
               /\ ~ stratum_parse_subscribe_result(l).ok
<1> DEFINE l == AnswerLine(n, Bool(accepted), Null)
<1>1. /\ l # NotJson /\ l.id = Number(n) /\ l.result = Bool(accepted)
  BY DEF AnswerLine, Object, NotJson
<1> HIDE DEF l
<1>2. Is("number", l.id) /\ Is("bool", l.result) /\ ~ Is("array", l.result)
      /\ l.id.number = n /\ l.result.bool = accepted
  BY <1>1 DEF Is, Number, Bool
<1>3. stratum_parse_result(l).id = n /\ stratum_parse_result(l).accepted = accepted
  BY <1>1, <1>2 DEF stratum_parse_result
<1>4. ~ stratum_parse_subscribe_result(l).ok
  BY <1>2 DEF stratum_parse_subscribe_result, ArrayOf
<1> QED
  BY <1>3, <1>4 DEF l

\* A refusal is neither an acknowledgement nor a reply to subscribe.
LEMMA RefusalParsed ==
    ASSUME NEW n \in Nat
    PROVE  LET l == AnswerLine(n, Null, OtherError)
           IN  ~ stratum_parse_result(l).ok /\ ~ stratum_parse_subscribe_result(l).ok
<1> DEFINE l == AnswerLine(n, Null, OtherError)
<1>1. ~ Is("bool", l.result) /\ ~ Is("array", l.result)
  BY DEF AnswerLine, Object, Is, Null
<1> HIDE DEF l
<1>2. ~ stratum_parse_result(l).ok
  BY <1>1 DEF stratum_parse_result
<1>3. ~ stratum_parse_subscribe_result(l).ok
  BY <1>1 DEF stratum_parse_subscribe_result, ArrayOf
<1> QED
  BY <1>2, <1>3 DEF l

\* The second and the third item of an array of three.
LEMMA SecondAndThird ==
    ASSUME NEW v, Len(v.array) = 3
    PROVE  Item(v, 1) = v.array[2] /\ Item(v, 2) = v.array[3]
<1>1. 1 < 3 /\ 1 + 1 = 2 /\ 2 < 3 /\ 2 + 1 = 3
  OBVIOUS
<1> QED
  BY <1>1 DEF Item

\* The reply to subscribe is no acknowledgement, and is read as what was assigned.
LEMMA SessionParsed ==
    ASSUME NEW n \in Nat, NEW s \in Sessions
    PROVE  LET l == AnswerLine(n, AssignedResult(s), Null)
           IN  /\ ~ stratum_parse_result(l).ok
               /\ stratum_parse_subscribe_result(l).ok =>
                    stratum_parse_subscribe_result(l).sub = SubOf(s)
<1> DEFINE l == AnswerLine(n, AssignedResult(s), Null)
           items == <<Array(<<>>), Text(s.extranonce1), Number(s.size)>>
<1>1. l.result = Array(items)
  BY DEF AnswerLine, Object, AssignedResult
<1>2. Len(items) = 3 /\ items[2] = Text(s.extranonce1) /\ items[3] = Number(s.size)
  OBVIOUS
<1> HIDE DEF l, items
<1>3. ~ Is("bool", l.result) /\ l.result.array = items
  BY <1>1 DEF Is, Array
<1>4. Item(l.result, 1).string = s.extranonce1 /\ Item(l.result, 2).number = s.size
  <2>1. Item(l.result, 1) = items[2] /\ Item(l.result, 2) = items[3]
    BY <1>2, <1>3, SecondAndThird
  <2>2. Text(s.extranonce1).string = s.extranonce1 /\ Number(s.size).number = s.size
    BY DEF Text, Number
  <2> QED
    BY <1>2, <2>1, <2>2
<1>5. ~ stratum_parse_result(l).ok
  BY <1>3 DEF stratum_parse_result
<1>6. stratum_parse_subscribe_result(l).ok => stratum_parse_subscribe_result(l).sub = SubOf(s)
  BY <1>4 DEF stratum_parse_subscribe_result, SubOf
<1> QED
  BY <1>5, <1>6 DEF l

-----------------------------------------------------------------------------
(* The requests, and the lines waiting for the miner. *)

SubRequest == stratum_serialize_subscribe(1, "agent")
AuthRequest == stratum_serialize_authorize(2, "address")
SuggestRequest == stratum_serialize_suggest_difficulty(3, 1)

\* Which request was sent under which id, and that it is not sent again.
AskedAs(q, n) ==
    /\ q.id = Number(n)
    /\ \/ n = 1 /\ q = SubRequest /\ phase # "subscribe"
       \/ n = 2 /\ q = AuthRequest /\ phase \notin {"subscribe", "reply", "authorize"}
       \/ /\ n = 3 /\ q = SuggestRequest
          /\ phase \notin {"subscribe", "reply", "authorize", "suggest"}
       \/ n >= 100 /\ n < submit_id /\ q.method = Text("mining.submit")

Waiting == {toMiner[i] : i \in 1..Len(toMiner)}

LinesInv ==
    /\ toMiner \in Seq(Pushes \cup Answers)
    /\ \A l \in Waiting : l \in Answers \/ l \in pushed
    /\ pushed \subseteq Pushes
SentInv ==
    /\ submit_id \in Nat /\ submit_id >= 100
    /\ owed \subseteq sent
    /\ \A q \in sent : \E n \in Nat : AskedAs(q, n)
    /\ \A q, r \in sent : q.id = r.id => q = r
BaseInv == LinesInv /\ SentInv /\ IsJob(scratch_job)

\* The ids and methods of the requests.
LEMMA RequestFields ==
    /\ SubRequest.id = Number(1) /\ SubRequest.method = Text("mining.subscribe")
    /\ AuthRequest.id = Number(2) /\ AuthRequest.method = Text("mining.authorize")
    /\ SuggestRequest.id = Number(3)
    /\ SuggestRequest.method = Text("mining.suggest_difficulty")
    /\ \A id, worker, job, en2, ntime, nonce :
          LET line == stratum_serialize_submit(id, worker, job, en2, ntime, nonce).line
          IN  line.id = Number(id) /\ line.method = Text("mining.submit")
BY DEF SubRequest, AuthRequest, SuggestRequest, Request, Object, stratum_serialize_subscribe,
       stratum_serialize_authorize, stratum_serialize_suggest_difficulty, stratum_serialize_submit

\* Two texts or two numbers are equal only as such.
LEMMA ValuesDiffer ==
    /\ \A a, b : Number(a) = Number(b) => a = b
    /\ \A a, b : Text(a) = Text(b) => a = b
<1>1. ASSUME NEW a, NEW b, Number(a) = Number(b) PROVE a = b
  <2>1. Number(a).number = a /\ Number(b).number = b
    BY DEF Number
  <2> QED
    BY <1>1, <2>1
<1>2. ASSUME NEW a, NEW b, Text(a) = Text(b) PROVE a = b
  <2>1. Text(a).string = a /\ Text(b).string = b
    BY DEF Text
  <2> QED
    BY <1>2, <2>1
<1> QED
  BY <1>1, <1>2

\* Taking a line off the front.
LEMMA WaitingShrinks ==
    ASSUME NEW S, toMiner \in Seq(S), toMiner # <<>>, toMiner' = Tail(toMiner)
    PROVE  toMiner' \in Seq(S) /\ Waiting' \subseteq Waiting /\ Head(toMiner) \in Waiting
<1>1. Len(toMiner) \in Nat \ {0}
  BY EmptySeq, LenProperties
<1>2. /\ toMiner' \in Seq(S) /\ Len(toMiner') = Len(toMiner) - 1
      /\ \A i \in 1..Len(toMiner') : toMiner'[i] = toMiner[i + 1]
  BY HeadTailProperties
<1>3. Head(toMiner) = toMiner[1]
  BY <1>1, HeadTailProperties
<1>4. \A i \in 1..Len(toMiner') : i + 1 \in 1..Len(toMiner)
  BY <1>1, <1>2
<1>5. Waiting' \subseteq Waiting
  BY <1>2, <1>4 DEF Waiting
<1> QED
  BY <1>1, <1>2, <1>3, <1>5 DEF Waiting

\* Putting a line behind the others.
LEMMA WaitingGrows ==
    ASSUME NEW S, toMiner \in Seq(S), NEW l \in S, toMiner' = Append(toMiner, l)
    PROVE  toMiner' \in Seq(S) /\ Waiting' = Waiting \cup {l}
<1>1. /\ toMiner' \in Seq(S) /\ Len(toMiner) \in Nat /\ Len(toMiner') = Len(toMiner) + 1
      /\ \A i \in 1..Len(toMiner) : toMiner'[i] = toMiner[i]
      /\ toMiner'[Len(toMiner) + 1] = l
  BY AppendProperties, LenProperties
<1>2. 1..Len(toMiner') = 1..Len(toMiner) \cup {Len(toMiner) + 1}
  BY <1>1
<1> QED
  BY <1>1, <1>2 DEF Waiting

\* A request has one id.
LEMMA AskedOnce ==
    ASSUME BaseInv, NEW q \in sent
    PROVE  \E n \in Nat : AskedAs(q, n) /\ \A m : q.id = Number(m) => m = n
BY ValuesDiffer DEF BaseInv, SentInv, AskedAs

\* A request is only sent while its id is free, so the ids stay apart.
LEMMA SendKeeps ==
    ASSUME BaseInv, NEW line, NEW n \in Nat, line.id = Number(n), Send(line),
           \A q \in sent : \A m \in Nat : AskedAs(q, m) => m # n /\ AskedAs(q, m)',
           AskedAs(line, n)'
    PROVE  /\ owed' \subseteq sent'
           /\ \A q \in sent' : \E m \in Nat : AskedAs(q, m)'
           /\ \A q, r \in sent' : q.id = r.id => q = r
<1>1. sent' = sent \cup {line} /\ owed' \subseteq owed \cup {line}
  BY DEF Send
<1>2. \A q \in sent : q.id # line.id
  BY ValuesDiffer DEF BaseInv, SentInv, AskedAs
<1>3. owed \subseteq sent
  BY DEF BaseInv, SentInv
<1>4. \A q \in sent' : \E m \in Nat : AskedAs(q, m)'
  <2>1. \A q \in sent : \E m \in Nat : AskedAs(q, m)
    BY DEF BaseInv, SentInv
  <2> HIDE DEF AskedAs
  <2> QED
    BY <1>1, <2>1
<1>5. \A q, r \in sent' : q.id = r.id => q = r
  BY <1>1, <1>2 DEF BaseInv, SentInv
<1> QED
  BY <1>1, <1>3, <1>4, <1>5

\* What one answer of the pool does: a verdict, a refusal, a session or nothing.
OneAnswer(q, n) ==
    \/ \E accepted \in BOOLEAN :
          /\ toMiner' = Append(toMiner, AnswerLine(n, Bool(accepted), Null))
          /\ verdicts' = verdicts \cup {[request |-> q, accepted |-> accepted]}
          /\ assigned' = assigned
    \/ /\ toMiner' = Append(toMiner, AnswerLine(n, Null, OtherError))
       /\ UNCHANGED <<verdicts, assigned>>
    \/ /\ q = SubRequest
       /\ \E s \in Sessions : /\ toMiner' = Append(toMiner, AnswerLine(n, AssignedResult(s), Null))
                              /\ assigned' = s
       /\ verdicts' = verdicts
    \/ UNCHANGED <<toMiner, verdicts, assigned>>

\* The pool's step is one of those, for a request it owes an answer.
LEMMA PoolAnswersOne ==
    ASSUME BaseInv, PoolAnswers
    PROVE  \E q \in owed : \E n \in Nat :
              AskedAs(q, n) /\ OneAnswer(q, n) /\ owed' = owed \ {q}
<1>1. PICK q \in owed : /\ AnswerSubscribe(q) \/ AnswerAsked(q) \/ AnswerSuggest(q)
                        /\ owed' = owed \ {q}
  BY DEF PoolAnswers
<1>2. PICK n \in Nat : AskedAs(q, n)
  BY DEF BaseInv, SentInv
<1>3. \A result, error : Answer(q, result, error) = AnswerLine(n, result, error)
  BY <1>2 DEF Answer, AnswerLine, AskedAs
<1>4. Refusal(q) = AnswerLine(n, Null, OtherError)
  BY <1>3 DEF Refusal, OtherError
<1>5. CASE AnswerSubscribe(q)
  <2>1. q = SubRequest
    BY <1>2, <1>5, RequestFields, ValuesDiffer DEF AskedAs, AnswerSubscribe
  <2>2. OneAnswer(q, n)
    BY <1>3, <1>4, <1>5, <2>1 DEF AnswerSubscribe, OneAnswer, Reply, AssignedResult
  <2> QED
    BY <1>1, <1>2, <2>2
<1>6. CASE AnswerAsked(q)
  <2>1. OneAnswer(q, n)
    BY <1>3, <1>4, <1>6 DEF AnswerAsked, Verdict, OneAnswer, Reply
  <2> QED
    BY <1>1, <1>2, <2>1
<1>7. CASE AnswerSuggest(q)
  <2>1. OneAnswer(q, n)
    BY <1>3, <1>4, <1>7 DEF AnswerSuggest, Verdict, OneAnswer, Reply
  <2> QED
    BY <1>1, <1>2, <2>1
<1> QED
  BY <1>1, <1>5, <1>6, <1>7

\* A step never goes back to a phase before that of a request already sent.
LEMMA AskedStays ==
    ASSUME BaseInv, [Next]_vars, NEW q, NEW n \in Nat, AskedAs(q, n)
    PROVE  AskedAs(q, n)'
<1>0. submit_id \in Nat /\ submit_id >= 100
  BY DEF BaseInv, SentInv
<1> SUFFICES /\ submit_id' \in Nat /\ submit_id' >= submit_id
             /\ phase # "subscribe" => phase' # "subscribe"
             /\ phase \notin {"subscribe", "reply", "authorize"} =>
                  phase' \notin {"subscribe", "reply", "authorize"}
             /\ phase \notin {"subscribe", "reply", "authorize", "suggest"} =>
                  phase' \notin {"subscribe", "reply", "authorize", "suggest"}
  BY <1>0 DEF AskedAs
<1> USE <1>0 DEF miner, pool, wires, history
<1>1. CASE SendSubscribe
  BY <1>1 DEF SendSubscribe, MustSend
<1>2. CASE RecvReply
  BY <1>2 DEF RecvReply
<1>3. CASE SendAuthorize
  BY <1>3 DEF SendAuthorize, MustSend
<1>4. CASE SendSuggest
  BY <1>4 DEF SendSuggest
<1>5. CASE PollLine
  BY <1>5 DEF PollLine
<1>6. CASE PollNothing \/ SeeClosed \/ EndWork
  BY <1>6 DEF PollNothing, SeeClosed, EndWork
<1>7. CASE FindShare
  <2>1. submit_id' = submit_id + 1 /\ phase' = phase
    BY <1>7 DEF FindShare, NextId
  <2> QED
    BY <2>1
<1>8. CASE PoolAnswers \/ PoolPushes \/ PoolLeaves
  BY <1>8 DEF PoolAnswers, PoolPushes, PoolLeaves
<1>9. CASE UNCHANGED vars
  BY <1>9 DEF vars
<1> QED
  BY <1>1, <1>2, <1>3, <1>4, <1>5, <1>6, <1>7, <1>8, <1>9 DEF Next, Miner

\* Every step keeps what is waiting among the pool's pushes and answers.
LEMMA LinesStep == BaseInv /\ [Next]_vars => LinesInv'
<1> SUFFICES ASSUME BaseInv, [Next]_vars PROVE LinesInv'
  OBVIOUS
<1> DEFINE L == Pushes \cup Answers
<1>0. /\ toMiner \in Seq(L) /\ \A l \in Waiting : l \in Answers \/ l \in pushed
      /\ pushed \subseteq Pushes
  BY DEF BaseInv, LinesInv
<1>1. ASSUME toMiner # <<>>, toMiner' = Tail(toMiner), pushed' = pushed PROVE LinesInv'
  <2>1. toMiner' \in Seq(L) /\ Waiting' \subseteq Waiting
    BY <1>0, <1>1, WaitingShrinks
  <2> QED
    BY <1>0, <1>1, <2>1 DEF LinesInv
<1>2. ASSUME UNCHANGED <<toMiner, pushed>> PROVE LinesInv'
  BY <1>0, <1>2 DEF LinesInv, Waiting
<1>3. ASSUME NEW l \in L, toMiner' = Append(toMiner, l), pushed \subseteq pushed',
             l \in Answers \/ l \in pushed', pushed' \subseteq Pushes
      PROVE  LinesInv'
  <2>1. toMiner' \in Seq(L) /\ Waiting' = Waiting \cup {l}
    BY <1>0, <1>3, WaitingGrows
  <2> QED
    BY <1>0, <1>3, <2>1 DEF LinesInv
<1>4. CASE RecvReply
  BY <1>1, <1>4 DEF RecvReply, AfterReply, history
<1>5. CASE PollLine
  BY <1>1, <1>5 DEF PollLine
<1>6. CASE PoolPushes
  <2>1. PICK l \in Pushes : toMiner' = Append(toMiner, l) /\ pushed' = pushed \cup {l}
    BY <1>6 DEF PoolPushes, Reply
  <2> QED
    BY <1>0, <1>3, <2>1
<1>7. CASE PoolAnswers
  <2>1. pushed' = pushed
    BY <1>7 DEF PoolAnswers
  <2>2. PICK q \in owed, n \in Nat : OneAnswer(q, n)
    BY <1>7, PoolAnswersOne
  <2>3. UNCHANGED toMiner \/ \E l \in Answers : toMiner' = Append(toMiner, l)
    <3>1. \A result \in Results, error \in Errors : AnswerLine(n, result, error) \in Answers
      BY DEF Answers
    <3>2. /\ Null \in Results /\ \A accepted \in BOOLEAN : Bool(accepted) \in Results
          /\ \A s \in Sessions : AssignedResult(s) \in Results
          /\ Null \in Errors /\ OtherError \in Errors
      BY DEF Results, Errors
    <3> QED
      BY <2>2, <3>1, <3>2 DEF OneAnswer
  <2> QED
    BY <1>0, <1>2, <1>3, <2>1, <2>3
<1>8. CASE SendSubscribe \/ SendAuthorize \/ SendSuggest
  BY <1>2, <1>8 DEF SendSubscribe, SendAuthorize, SendSuggest
<1>9. CASE PollNothing \/ SeeClosed \/ EndWork \/ FindShare \/ PoolLeaves
  BY <1>2, <1>9 DEF PollNothing, SeeClosed, EndWork, FindShare, PoolLeaves, wires, history
<1>10. CASE UNCHANGED vars
  BY <1>2, <1>10 DEF vars, wires, history
<1> QED
  BY <1>4, <1>5, <1>6, <1>7, <1>8, <1>9, <1>10 DEF Next, Miner

\* Every step keeps the ids of the requests apart.
LEMMA SentStep == BaseInv /\ [Next]_vars => SentInv'
<1> SUFFICES ASSUME BaseInv, [Next]_vars PROVE SentInv'
  OBVIOUS
<1>0. submit_id \in Nat /\ submit_id >= 100 /\ owed \subseteq sent
  BY DEF BaseInv, SentInv
<1>1. ASSUME sent' = sent, owed' \subseteq owed, submit_id' \in Nat, submit_id' >= submit_id
      PROVE  SentInv'
  <2>1. \A q \in sent : \E n \in Nat : AskedAs(q, n)'
    BY AskedStays DEF BaseInv, SentInv
  <2>2. \A q, r \in sent' : q.id = r.id => q = r
    BY <1>1 DEF BaseInv, SentInv
  <2> QED
    BY <1>0, <1>1, <2>1, <2>2 DEF SentInv
<1>2. ASSUME NEW line, NEW n \in Nat, line.id = Number(n), Send(line),
             \A q \in sent : \A m \in Nat : AskedAs(q, m) => m # n,
             AskedAs(line, n)', submit_id' \in Nat, submit_id' >= submit_id
      PROVE  SentInv'
  <2>1. \A q \in sent : \A m \in Nat : AskedAs(q, m) => m # n /\ AskedAs(q, m)'
    BY <1>2, AskedStays
  <2> QED
    BY <1>0, <1>2, <2>1, SendKeeps DEF SentInv
<1>3. CASE SendSubscribe
  <2>1. CASE Send(SubRequest) /\ phase' = "reply"
    <3>1. \A q \in sent : \A m \in Nat : AskedAs(q, m) => m # 1
      BY <1>3 DEF SendSubscribe, AskedAs
    <3>2. AskedAs(SubRequest, 1)' /\ submit_id' = submit_id
      BY <1>3, <2>1, RequestFields DEF SendSubscribe, AskedAs
    <3> QED
      BY <1>0, <1>2, <2>1, <3>1, <3>2, RequestFields
  <2>2. CASE UNCHANGED <<owed, sent>>
    BY <1>0, <1>1, <1>3, <2>2 DEF SendSubscribe
  <2> QED
    BY <1>3, <2>1, <2>2 DEF SendSubscribe, MustSend, SubRequest
<1>4. CASE SendAuthorize
  <2>1. CASE Send(AuthRequest) /\ phase' = "suggest"
    <3>1. \A q \in sent : \A m \in Nat : AskedAs(q, m) => m # 2
      BY <1>4 DEF SendAuthorize, AskedAs
    <3>2. AskedAs(AuthRequest, 2)' /\ submit_id' = submit_id
      BY <1>4, <2>1, RequestFields DEF SendAuthorize, AskedAs
    <3> QED
      BY <1>0, <1>2, <2>1, <3>1, <3>2, RequestFields
  <2>2. CASE UNCHANGED <<owed, sent>>
    BY <1>0, <1>1, <1>4, <2>2 DEF SendAuthorize
  <2> QED
    BY <1>4, <2>1, <2>2 DEF SendAuthorize, MustSend, AuthRequest
<1>5. CASE SendSuggest
  <2>1. Send(SuggestRequest) /\ phase' = "drain" /\ submit_id' = submit_id
    BY <1>5 DEF SendSuggest, SuggestRequest
  <2>2. \A q \in sent : \A m \in Nat : AskedAs(q, m) => m # 3
    BY <1>5 DEF SendSuggest, AskedAs
  <2>3. AskedAs(SuggestRequest, 3)'
    BY <2>1, RequestFields DEF AskedAs
  <2> QED
    BY <1>0, <1>2, <2>1, <2>2, <2>3, RequestFields
<1>6. CASE FindShare
  <2>1. submit_id' = submit_id + 1
    BY <1>6 DEF FindShare, NextId
  <2>2. (\E line : /\ line.id = Number(submit_id) /\ line.method = Text("mining.submit")
                   /\ Send(line))
        \/ UNCHANGED <<owed, sent>>
    BY <1>6, RequestFields DEF FindShare
  <2>3. CASE UNCHANGED <<owed, sent>>
    BY <1>0, <1>1, <2>1, <2>3
  <2>4. ASSUME NEW line, line.id = Number(submit_id), line.method = Text("mining.submit"),
               Send(line)
        PROVE  SentInv'
    <3> DEFINE n == submit_id
    <3>1. \A q \in sent : \A m \in Nat : AskedAs(q, m) => m # n
      BY <1>0 DEF AskedAs
    <3>2. \E k \in Nat : k = submit_id /\ AskedAs(line, k)'
      BY <1>0, <2>1, <2>4 DEF AskedAs
    <3> QED
      BY <1>0, <1>2, <2>1, <2>4, <3>1, <3>2
  <2> QED
    BY <2>2, <2>3, <2>4
<1>7. CASE PoolAnswers
  <2>1. sent' = sent /\ submit_id' = submit_id /\ owed' \subseteq owed
    BY <1>7 DEF PoolAnswers, miner
  <2> QED
    BY <1>0, <1>1, <2>1
<1>8. CASE RecvReply \/ PollLine \/ PollNothing \/ SeeClosed \/ EndWork
  <2>1. sent' = sent /\ submit_id' = submit_id /\ owed' = owed
    BY <1>8 DEF RecvReply, PollLine, PollNothing, SeeClosed, EndWork, pool, history
  <2> QED
    BY <1>0, <1>1, <2>1
<1>9. CASE PoolPushes \/ PoolLeaves \/ UNCHANGED vars
  <2>1. sent' = sent /\ submit_id' = submit_id /\ owed' \subseteq owed
    BY <1>9 DEF PoolPushes, PoolLeaves, vars, miner, pool, history
  <2> QED
    BY <1>0, <1>1, <2>1
<1> QED
  BY <1>3, <1>4, <1>5, <1>6, <1>7, <1>8, <1>9 DEF Next, Miner

\* Every step keeps the buffer of the notifications a job.
LEMMA BufferStep == IsJob(scratch_job) /\ [Next]_vars => IsJob(scratch_job)'
<1> SUFFICES ASSUME IsJob(scratch_job), [Next]_vars PROVE IsJob(scratch_job')
  BY DEF IsJob
<1>1. \A line : IsJob(stratum_parse_notify(line, scratch_job).job)
  BY ParseKeepsJob
<1> HIDE DEF IsJob
<1>2. CASE PollLine
  <2>1. scratch_job' = scratch_job
        \/ \E line : scratch_job' = stratum_parse_notify(line, scratch_job).job
    BY <1>2 DEF PollLine, TakeDifficulty, TakeNotify, TakeOther
  <2> QED
    BY <1>1, <2>1
<1>3. CASE ~ PollLine
  <2>1. scratch_job' = scratch_job
    BY <1>3 DEF Next, Miner, SendSubscribe, RecvReply, SendAuthorize, SendSuggest, PollNothing,
                SeeClosed, EndWork, FindShare, PoolAnswers, PoolPushes, PoolLeaves, vars, miner
  <2> QED
    BY <2>1
<1> QED
  BY <1>2, <1>3

\* The three together hold in every behaviour.
THEOREM BaseInvariant == Spec => []BaseInv
<1>1. Init => BaseInv
  <2> SUFFICES ASSUME Init PROVE BaseInv
    OBVIOUS
  <2>1. toMiner = <<>> /\ submit_id = 100 /\ owed = {} /\ sent = {} /\ pushed = {}
    BY DEF Init
  <2>2. IsJob(scratch_job)
    BY ZeroIsJob DEF Init
  <2>3. toMiner \in Seq(Pushes \cup Answers) /\ Len(toMiner) = 0
    BY <2>1, EmptySeq
  <2>4. Waiting = {}
    BY <2>3 DEF Waiting
  <2>5. LinesInv
    BY <2>1, <2>3, <2>4 DEF LinesInv
  <2>6. SentInv
    BY <2>1 DEF SentInv
  <2> QED
    BY <2>2, <2>5, <2>6 DEF BaseInv
<1>2. BaseInv /\ [Next]_vars => BaseInv'
  BY LinesStep, SentStep, BufferStep DEF BaseInv
<1> QED
  BY <1>1, <1>2, PTL DEF Spec

-----------------------------------------------------------------------------
(* Reports. *)

\* The pool gave this verdict on the request with this id.
Told(id, accepted) ==
    \E q \in sent : q.id = Number(id) /\ [request |-> q, accepted |-> accepted] \in verdicts

\* Every acknowledgement on its way is a verdict of the pool, and so is every report
\* of one; the id decides what it is reported as.
ReportInv ==
    /\ \A l \in Waiting : stratum_parse_result(l).ok =>
          Told(stratum_parse_result(l).id, stratum_parse_result(l).accepted)
    /\ \A r \in log : r.kind # "raw" =>
          Told(r.id, r.accepted) /\ (r.kind = "authorized" <=> r.id = 2)

\* What was told stays told.
LEMMA ToldStays ==
    ASSUME sent \subseteq sent', verdicts \subseteq verdicts', NEW id, NEW accepted,
           Told(id, accepted)
    PROVE  Told(id, accepted)'
BY DEF Told

\* Every step keeps the reports true.
LEMMA ReportStep == BaseInv /\ ReportInv /\ [Next]_vars => ReportInv'
<1> SUFFICES ASSUME BaseInv, ReportInv, [Next]_vars PROVE ReportInv'
  OBVIOUS
<1> DEFINE L == Pushes \cup Answers
           IsTold(l) == stratum_parse_result(l).ok =>
                          Told(stratum_parse_result(l).id, stratum_parse_result(l).accepted)
           IsTrue(r) == r.kind # "raw" =>
                          Told(r.id, r.accepted) /\ (r.kind = "authorized" <=> r.id = 2)
<1>0. /\ toMiner \in Seq(L) /\ \A l \in Waiting : IsTold(l)
      /\ \A r \in log : IsTrue(r)
  BY DEF BaseInv, LinesInv, ReportInv
<1>1. ASSUME sent \subseteq sent', verdicts \subseteq verdicts'
      PROVE  /\ \A l : IsTold(l) => IsTold(l)'
             /\ \A r : IsTrue(r) => IsTrue(r)'
  BY <1>1, ToldStays
<1> HIDE DEF IsTold, IsTrue
<1>2. ASSUME sent \subseteq sent', verdicts \subseteq verdicts', log' = log,
             \A l \in Waiting' : l \in Waiting \/ IsTold(l)'
      PROVE  ReportInv'
  <2>1. \A l \in Waiting' : IsTold(l)'
    BY <1>0, <1>1, <1>2
  <2>2. \A r \in log' : IsTrue(r)'
    BY <1>0, <1>1, <1>2
  <2> QED
    BY <2>1, <2>2 DEF ReportInv, IsTold, IsTrue
<1>3. CASE PollLine
  <2>1. Waiting' \subseteq Waiting /\ Head(toMiner) \in Waiting
    BY <1>0, <1>3, WaitingShrinks DEF PollLine
  <2>2. sent' = sent /\ verdicts' = verdicts
    BY <1>3 DEF PollLine
  <2>3. CASE log' = log
    BY <1>2, <2>1, <2>2, <2>3
  <2>4. CASE log' = log \cup {ReportOf(Head(toMiner))}
    <3>1. IsTrue(ReportOf(Head(toMiner)))
      <4> DEFINE answer == stratum_parse_result(Head(toMiner))
      <4>1. answer.ok => Told(answer.id, answer.accepted)
        BY <1>0, <2>1 DEF IsTold
      <4>2. CASE ~ answer.ok
        <5>1. ReportOf(Head(toMiner)).kind = "raw"
          BY <4>2 DEF ReportOf
        <5> QED
          BY <5>1 DEF IsTrue
      <4>3. CASE answer.ok
        <5>1. /\ ReportOf(Head(toMiner)).kind = IF answer.id = 2 THEN "authorized" ELSE "share"
              /\ ReportOf(Head(toMiner)).id = answer.id
              /\ ReportOf(Head(toMiner)).accepted = answer.accepted
          BY <4>3 DEF ReportOf
        <5> HIDE DEF answer
        <5> QED
          BY <4>1, <4>3, <5>1 DEF IsTrue
      <4> QED
        BY <4>2, <4>3
    <3>2. \A r \in log' : IsTrue(r)'
      BY <1>0, <1>1, <2>2, <2>4, <3>1
    <3>3. \A l \in Waiting' : IsTold(l)'
      BY <1>0, <1>1, <2>1, <2>2
    <3> QED
      BY <3>2, <3>3 DEF ReportInv, IsTold, IsTrue
  <2> QED
    BY <1>3, <2>3, <2>4 DEF PollLine, TakeDifficulty, TakeNotify, TakeOther
<1>4. CASE RecvReply
  <2>1. Waiting' \subseteq Waiting
    BY <1>0, <1>4, WaitingShrinks DEF RecvReply, AfterReply
  <2> QED
    BY <1>2, <1>4, <2>1 DEF RecvReply, history
<1>5. CASE PoolPushes
  <2>1. PICK l \in Pushes : toMiner' = Append(toMiner, l)
    BY <1>5 DEF PoolPushes, Reply
  <2>2. Waiting' = Waiting \cup {l}
    BY <1>0, <2>1, WaitingGrows
  <2>3. IsTold(l)'
    BY PushesAssumption DEF IsTold
  <2> QED
    BY <1>2, <1>5, <2>2, <2>3 DEF PoolPushes
<1>6. CASE PoolAnswers
  <2>0. sent' = sent /\ log' = log
    BY <1>6 DEF PoolAnswers
  <2>1. PICK q \in owed, n \in Nat : AskedAs(q, n) /\ OneAnswer(q, n)
    BY <1>6, PoolAnswersOne
  <2>2. q \in sent /\ q.id = Number(n)
    BY <2>1 DEF BaseInv, SentInv, AskedAs
  <2>3. \A result \in Results, error \in Errors : AnswerLine(n, result, error) \in L
    BY DEF Answers
  <2>4. /\ Null \in Results /\ \A accepted \in BOOLEAN : Bool(accepted) \in Results
        /\ \A s \in Sessions : AssignedResult(s) \in Results
        /\ Null \in Errors /\ OtherError \in Errors
    BY DEF Results, Errors
  <2>5. ASSUME NEW accepted \in BOOLEAN,
               toMiner' = Append(toMiner, AnswerLine(n, Bool(accepted), Null)),
               verdicts' = verdicts \cup {[request |-> q, accepted |-> accepted]}
        PROVE  ReportInv'
    <3> DEFINE l == AnswerLine(n, Bool(accepted), Null)
    <3>1. l \in L
      BY <2>3, <2>4
    <3>2. stratum_parse_result(l).id = n /\ stratum_parse_result(l).accepted = accepted
      BY VerdictParsed
    <3> HIDE DEF l
    <3>3. Waiting' = Waiting \cup {l}
      BY <1>0, <2>5, <3>1, WaitingGrows DEF l
    <3>4. Told(n, accepted)'
      BY <2>0, <2>2, <2>5 DEF Told
    <3>5. IsTold(l)'
      BY <3>2, <3>4 DEF IsTold
    <3> QED
      BY <1>2, <2>0, <2>5, <3>3, <3>5
  <2>6. ASSUME NEW l \in L, ~ stratum_parse_result(l).ok,
               toMiner' = Append(toMiner, l), verdicts' = verdicts
        PROVE  ReportInv'
    <3>1. Waiting' = Waiting \cup {l}
      BY <1>0, <2>6, WaitingGrows
    <3>2. IsTold(l)'
      BY <2>6 DEF IsTold
    <3> QED
      BY <1>2, <2>0, <2>6, <3>1, <3>2
  <2>7. ASSUME toMiner' = Append(toMiner, AnswerLine(n, Null, OtherError)), verdicts' = verdicts
        PROVE  ReportInv'
    BY <2>3, <2>4, <2>6, <2>7, RefusalParsed
  <2>8. ASSUME NEW s \in Sessions,
               toMiner' = Append(toMiner, AnswerLine(n, AssignedResult(s), Null)),
               verdicts' = verdicts
        PROVE  ReportInv'
    BY <2>3, <2>4, <2>6, <2>8, SessionParsed
  <2>9. ASSUME UNCHANGED <<toMiner, verdicts>> PROVE ReportInv'
    BY <1>2, <2>0, <2>9 DEF Waiting
  <2> QED
    BY <2>1, <2>5, <2>7, <2>8, <2>9 DEF OneAnswer
<1>7. CASE SendSubscribe \/ SendAuthorize \/ SendSuggest \/ FindShare
  <2>1. /\ toMiner' = toMiner /\ verdicts' = verdicts /\ log' = log
        /\ sent \subseteq sent'
    BY <1>7 DEF SendSubscribe, SendAuthorize, SendSuggest, FindShare, MustSend, Send
  <2> QED
    BY <1>2, <2>1 DEF Waiting
<1>8. CASE PollNothing \/ SeeClosed \/ EndWork \/ PoolLeaves \/ UNCHANGED vars
  <2>1. toMiner' = toMiner /\ verdicts' = verdicts /\ log' = log /\ sent' = sent
    BY <1>8 DEF PollNothing, SeeClosed, EndWork, PoolLeaves, vars, wires, history
  <2> QED
    BY <1>2, <2>1 DEF Waiting
<1> QED
  BY <1>3, <1>4, <1>5, <1>6, <1>7, <1>8 DEF Next, Miner

\* The log is true: each acknowledgement it reports is the pool's verdict on the one
\* request sent under that id (main.c:360-369, app_desktop/main.c:188-196).
THEOREM ReportsAreTheVerdicts == Spec => []ReportsAreTrue
<1>1. Init => ReportInv
  <2> SUFFICES ASSUME Init PROVE ReportInv
    OBVIOUS
  <2>1. log = {} /\ toMiner = <<>>
    BY DEF Init
  <2>2. Waiting = {}
    BY <2>1, EmptySeq DEF Waiting
  <2> QED
    BY <2>1, <2>2 DEF ReportInv
<1>2. BaseInv /\ ReportInv => ReportsAreTrue
  <2> SUFFICES ASSUME BaseInv, ReportInv, NEW r \in log, r.kind # "raw"
               PROVE  \E request \in sent :
                        /\ {q \in sent : q.id = Number(r.id)} = {request}
                        /\ [request |-> request, accepted |-> r.accepted] \in verdicts
                        /\ r.kind = "authorized" <=> request.method = Text("mining.authorize")
                        /\ request.method = Text("mining.submit") <=> r.id >= 100
    BY DEF ReportsAreTrue
  <2>1. r.kind = "authorized" <=> r.id = 2
    BY DEF ReportInv
  <2>2. PICK q \in sent : /\ q.id = Number(r.id)
                          /\ [request |-> q, accepted |-> r.accepted] \in verdicts
    BY DEF ReportInv, Told
  <2>3. {p \in sent : p.id = Number(r.id)} = {q}
    BY <2>2 DEF BaseInv, SentInv
  <2>4. PICK n \in Nat : AskedAs(q, n)
    BY DEF BaseInv, SentInv
  <2>5. r.id = n
    BY <2>2, <2>4, ValuesDiffer DEF AskedAs
  <2>6. /\ q.method = Text("mining.authorize") <=> n = 2
        /\ q.method = Text("mining.submit") <=> n >= 100
    BY <2>4, RequestFields, ValuesDiffer DEF AskedAs
  <2> QED
    BY <2>1, <2>2, <2>3, <2>5, <2>6
<1> QED
  BY <1>1, <1>2, BaseInvariant, ReportStep, PTL DEF Spec

-----------------------------------------------------------------------------
(* Work. *)

\* The miner's session is the one the pool assigned, once and for all.
AssignInv ==
    /\ assigned \in Sessions \cup {Unassigned}
    /\ SubRequest \in owed \/ phase = "subscribe" => assigned = Unassigned
    /\ \A l \in Waiting : stratum_parse_subscribe_result(l).ok =>
          assigned \in Sessions /\ stratum_parse_subscribe_result(l).sub = SubOf(assigned)
    /\ phase \in {"authorize", "suggest", "drain", "work"} =>
          assigned \in Sessions /\ sub = SubOf(assigned)

\* The jobs taken over are the pool's.
JobsInv == \A job \in taken : AsPool(job) \in PushedJobs

\* The lesser of two numbers.
LEMMA LesserOfTwo ==
    ASSUME NEW a \in Nat, NEW b \in Nat
    PROVE  Min({a, b}) = IF a > b THEN b ELSE a
<1>1. \E x \in {a, b} : \A y \in {a, b} : x <= y
  BY DEF Min
<1>2. Min({a, b}) \in {a, b} /\ \A y \in {a, b} : Min({a, b}) <= y
  BY <1>1, Zenon DEF Min
<1> QED
  BY <1>2

\* A session that was not assigned is none of the pool's.
LEMMA NotAssigned == Unassigned \notin Sessions
BY SessionAssumption DEF Unassigned

\* Every step keeps the session.
LEMMA AssignStep == BaseInv /\ AssignInv /\ [Next]_vars => AssignInv'
<1> SUFFICES ASSUME BaseInv, AssignInv, [Next]_vars PROVE AssignInv'
  OBVIOUS
<1> DEFINE L == Pushes \cup Answers
           IsSub(l) == stratum_parse_subscribe_result(l).ok =>
              assigned \in Sessions /\ stratum_parse_subscribe_result(l).sub = SubOf(assigned)
           Begun == phase \in {"authorize", "suggest", "drain", "work"} =>
                      assigned \in Sessions /\ sub = SubOf(assigned)
<1>0. /\ toMiner \in Seq(L) /\ \A l \in Waiting : IsSub(l)
      /\ assigned \in Sessions \cup {Unassigned} /\ Begun
      /\ SubRequest \in owed \/ phase = "subscribe" => assigned = Unassigned
  BY DEF BaseInv, LinesInv, AssignInv
<1>1. assigned' = assigned => \A l : IsSub(l) => IsSub(l)'
  OBVIOUS
<1>2. ASSUME UNCHANGED <<assigned, sub>>, owed' \subseteq owed, Waiting' \subseteq Waiting,
             \/ phase' \in {phase, "over"}
             \/ phase \in {"authorize", "suggest", "drain", "work"} /\ phase' # "subscribe"
      PROVE  AssignInv'
  <2>1. \A l \in Waiting' : IsSub(l)'
    BY <1>0, <1>1, <1>2
  <2>2. Begun'
    BY <1>0, <1>2
  <2>3. SubRequest \in owed' \/ phase' = "subscribe" => assigned' = Unassigned
    BY <1>0, <1>2
  <2> QED
    BY <1>0, <1>2, <2>1, <2>2, <2>3 DEF AssignInv
<1>3. ASSUME NEW l \in L, toMiner' = Append(toMiner, l), IsSub(l)',
             UNCHANGED <<assigned, sub, phase>>, owed' \subseteq owed
      PROVE  AssignInv'
  <2>1. Waiting' = Waiting \cup {l}
    BY <1>0, <1>3, WaitingGrows
  <2>2. \A k \in Waiting' : IsSub(k)'
    BY <1>0, <1>1, <1>3, <2>1
  <2> QED
    BY <1>0, <1>3, <2>2 DEF AssignInv
<1>4. CASE SendSubscribe
  <2>1. /\ phase = "subscribe" /\ phase' \in {"reply", "over"}
        /\ UNCHANGED <<assigned, sub, toMiner>>
    BY <1>4 DEF SendSubscribe, MustSend
  <2>2. Waiting' = Waiting
    BY <2>1 DEF Waiting
  <2>3. \A l \in Waiting' : IsSub(l)'
    BY <1>0, <1>1, <2>1, <2>2
  <2> QED
    BY <1>0, <2>1, <2>3 DEF AssignInv
<1>5. CASE RecvReply
  <2>1. Waiting' \subseteq Waiting /\ Head(toMiner) \in Waiting
    BY <1>0, <1>5, WaitingShrinks DEF RecvReply, AfterReply
  <2> DEFINE reply == stratum_parse_subscribe_result(Head(toMiner))
  <2>2. /\ sub' = reply.sub /\ phase' = IF reply.ok THEN "authorize" ELSE "over"
        /\ UNCHANGED <<assigned, owed>>
    BY <1>5 DEF RecvReply, pool
  <2>3. reply.ok => assigned \in Sessions /\ reply.sub = SubOf(assigned)
    BY <1>0, <2>1
  <2>4. \A l \in Waiting' : IsSub(l)'
    BY <1>0, <1>1, <2>1, <2>2
  <2> HIDE DEF reply
  <2>5. Begun' /\ phase' # "subscribe"
    BY <2>2, <2>3
  <2> QED
    BY <1>0, <2>2, <2>4, <2>5 DEF AssignInv
<1>6. CASE SendAuthorize \/ SendSuggest \/ FindShare
  <2>1. /\ phase \in {"authorize", "suggest", "work"} /\ phase' \in {"suggest", "drain", "work", "over"}
        /\ UNCHANGED <<assigned, sub, toMiner>>
    BY <1>6 DEF SendAuthorize, SendSuggest, FindShare, MustSend
  <2>2. Waiting' = Waiting
    BY <2>1 DEF Waiting
  <2>3. assigned \in Sessions /\ assigned # Unassigned
    BY <1>0, <2>1, NotAssigned
  <2>4. SubRequest \notin owed'
    <3>1. SubRequest \notin owed
      BY <1>0, <2>3
    <3>2. ASSUME NEW line, Send(line), line.method # Text("mining.subscribe")
          PROVE  SubRequest \notin owed'
      BY <3>1, <3>2, RequestFields DEF Send
    <3>3. /\ AuthRequest.method # Text("mining.subscribe")
          /\ SuggestRequest.method # Text("mining.subscribe")
          /\ Text("mining.submit") # Text("mining.subscribe")
      BY RequestFields, ValuesDiffer
    <3>4. owed' = owed \/ \E line : Send(line) /\ line.method # Text("mining.subscribe")
      <4>1. CASE SendAuthorize
        BY <3>3, <4>1 DEF SendAuthorize, MustSend, AuthRequest
      <4>2. CASE SendSuggest
        BY <3>3, <4>2 DEF SendSuggest, SuggestRequest
      <4>3. CASE FindShare
        BY <3>3, <4>3, RequestFields DEF FindShare
      <4> QED
        BY <1>6, <4>1, <4>2, <4>3
    <3> QED
      BY <3>1, <3>2, <3>4
  <2>5. \A l \in Waiting' : IsSub(l)'
    BY <1>0, <1>1, <2>1, <2>2
  <2>6. Begun' /\ phase' # "subscribe"
    BY <1>0, <2>1
  <2> QED
    BY <1>0, <2>1, <2>4, <2>5, <2>6 DEF AssignInv
<1>7. CASE PollLine
  <2>1. Waiting' \subseteq Waiting
    BY <1>0, <1>7, WaitingShrinks DEF PollLine
  <2> QED
    BY <1>2, <1>7, <2>1 DEF PollLine, pool
<1>8. CASE PollNothing \/ SeeClosed \/ EndWork
  <2>1. Waiting' = Waiting
    BY <1>8 DEF PollNothing, SeeClosed, EndWork, wires, Waiting
  <2> QED
    BY <1>2, <1>8, <2>1 DEF PollNothing, SeeClosed, EndWork, pool
<1>9. CASE PoolPushes
  <2>1. PICK l \in Pushes : toMiner' = Append(toMiner, l)
    BY <1>9 DEF PoolPushes, Reply
  <2>2. IsSub(l)'
    BY PushesAssumption
  <2> QED
    BY <1>3, <1>9, <2>1, <2>2 DEF PoolPushes, miner
<1>10. CASE PoolLeaves \/ UNCHANGED vars
  <2>1. Waiting' = Waiting
    BY <1>10 DEF PoolLeaves, vars, wires, Waiting
  <2>2. UNCHANGED <<assigned, sub, phase>> /\ owed' \subseteq owed
    BY <1>10 DEF PoolLeaves, vars, miner, pool
  <2> QED
    BY <1>2, <2>1, <2>2
<1>11. CASE PoolAnswers
  <2>0. UNCHANGED <<phase, sub>>
    BY <1>11 DEF PoolAnswers, miner
  <2>1. PICK q \in owed, n \in Nat : AskedAs(q, n) /\ OneAnswer(q, n) /\ owed' = owed \ {q}
    BY <1>11, PoolAnswersOne
  <2>2. \A result \in Results, error \in Errors : AnswerLine(n, result, error) \in L
    BY DEF Answers
  <2>3. /\ Null \in Results /\ \A accepted \in BOOLEAN : Bool(accepted) \in Results
        /\ \A s \in Sessions : AssignedResult(s) \in Results
        /\ Null \in Errors /\ OtherError \in Errors
    BY DEF Results, Errors
  <2>4. ASSUME NEW l \in L, ~ stratum_parse_subscribe_result(l).ok,
               toMiner' = Append(toMiner, l), assigned' = assigned
        PROVE  AssignInv'
    BY <1>3, <2>0, <2>1, <2>4
  <2>5. ASSUME NEW accepted \in BOOLEAN, assigned' = assigned,
               toMiner' = Append(toMiner, AnswerLine(n, Bool(accepted), Null))
        PROVE  AssignInv'
    BY <2>2, <2>3, <2>4, <2>5, VerdictParsed
  <2>6. ASSUME toMiner' = Append(toMiner, AnswerLine(n, Null, OtherError)), assigned' = assigned
        PROVE  AssignInv'
    BY <2>2, <2>3, <2>4, <2>6, RefusalParsed
  <2>7. ASSUME NEW s \in Sessions, q = SubRequest, assigned' = s,
               toMiner' = Append(toMiner, AnswerLine(n, AssignedResult(s), Null))
        PROVE  AssignInv'
    <3> DEFINE l == AnswerLine(n, AssignedResult(s), Null)
    <3>1. assigned = Unassigned /\ assigned \notin Sessions
      BY <1>0, <2>7, NotAssigned
    <3>2. phase # "subscribe"
      BY <2>1, <2>7, RequestFields, ValuesDiffer DEF AskedAs
    <3>3. Begun'
      BY <1>0, <2>0, <3>1
    <3>4. SubRequest \notin owed'
      BY <2>1, <2>7
    <3>5. l \in L
      BY <2>2, <2>3, <2>7
    <3>6. Waiting' = Waiting \cup {l}
      <4> HIDE DEF l
      <4> QED
        BY <1>0, <2>7, <3>5, WaitingGrows DEF l
    <3>7. IsSub(l)'
      BY <2>7, SessionParsed
    <3>8. \A k \in Waiting : IsSub(k)'
      BY <1>0, <3>1
    <3>9. \A k \in Waiting' : IsSub(k)'
      <4> HIDE DEF l, IsSub
      <4> QED
        BY <3>6, <3>7, <3>8
    <3>10. /\ assigned' \in Sessions \cup {Unassigned}
           /\ SubRequest \in owed' \/ phase' = "subscribe" => assigned' = Unassigned
      BY <2>0, <2>7, <3>2, <3>4
    <3>11. \A k \in Waiting' : stratum_parse_subscribe_result(k).ok =>
              /\ assigned' \in Sessions
              /\ stratum_parse_subscribe_result(k).sub = SubOf(assigned')
      BY <3>9
    <3> HIDE DEF l, IsSub
    <3> QED
      BY <2>0, <3>3, <3>10, <3>11 DEF AssignInv
  <2>8. ASSUME UNCHANGED <<toMiner, assigned>> PROVE AssignInv'
    <3>1. Waiting' = Waiting
      BY <2>8 DEF Waiting
    <3> QED
      BY <1>2, <2>0, <2>1, <2>8, <3>1
  <2> QED
    BY <2>1, <2>5, <2>6, <2>7, <2>8 DEF OneAnswer
<1> QED
  BY <1>4, <1>5, <1>6, <1>7, <1>8, <1>9, <1>10, <1>11 DEF Next, Miner

\* Every step keeps the jobs the pool's, whatever the buffer held before.
LEMMA JobsStep == BaseInv /\ JobsInv /\ [Next]_vars => JobsInv'
<1> SUFFICES ASSUME BaseInv, JobsInv, [Next]_vars PROVE JobsInv'
  OBVIOUS
<1>1. pushed \subseteq pushed'
  BY DEF Next, Miner, SendSubscribe, RecvReply, SendAuthorize, SendSuggest, PollLine, PollNothing,
         SeeClosed, EndWork, FindShare, PoolAnswers, PoolPushes, PoolLeaves, vars, history
<1>2. PushedJobs \subseteq PushedJobs'
  BY <1>1 DEF PushedJobs
<1>3. CASE PollLine
  <2> DEFINE line == Head(toMiner)
             parsed == stratum_parse_notify(line, scratch_job)
  <2>1. line \in Waiting
    BY <1>3, WaitingShrinks DEF PollLine, BaseInv, LinesInv
  <2>2. CASE taken' = taken
    BY <1>2, <2>2 DEF JobsInv
  <2>3. CASE parsed.ok /\ taken' = taken \cup {parsed.job}
    <3>1. line \in pushed /\ line \in Pushes
      BY <2>1, <2>3, AnswersAreNoCalls DEF BaseInv, LinesInv
    <3>2. line \in DOMAIN JobOf /\ AsPool(parsed.job) = JobOf[line]
      BY <2>3, <3>1, PushParsed DEF BaseInv
    <3>3. AsPool(parsed.job) \in PushedJobs
      BY <3>1, <3>2 DEF PushedJobs
    <3> QED
      BY <1>2, <2>3, <3>3 DEF JobsInv
  <2> QED
    BY <1>3, <2>2, <2>3 DEF PollLine, TakeDifficulty, TakeNotify, TakeOther
<1>4. CASE ~ PollLine
  <2>1. taken' = taken
    BY <1>4 DEF Next, Miner, SendSubscribe, RecvReply, SendAuthorize, SendSuggest, PollNothing,
                SeeClosed, EndWork, FindShare, PoolAnswers, PoolPushes, PoolLeaves, vars, miner
  <2> QED
    BY <1>2, <2>1 DEF JobsInv
<1> QED
  BY <1>3, <1>4

\* A share is made of a job taken and of the session, and both stay.
LEMMA SharesStep ==
    BaseInv /\ AssignInv /\ JobsInv /\ SharesAreThePools /\ [Next]_vars => SharesAreThePools'
<1> SUFFICES ASSUME BaseInv, AssignInv, JobsInv, SharesAreThePools, [Next]_vars
             PROVE  SharesAreThePools'
  OBVIOUS
<1> DEFINE Good(s) == /\ AsPool(s.job) \in PushedJobs
                      /\ assigned # Unassigned
                      /\ s.extranonce1 = assigned.extranonce1
                      /\ s.size = Min({assigned.size, 8})
<1>1. pushed \subseteq pushed'
  BY DEF Next, Miner, SendSubscribe, RecvReply, SendAuthorize, SendSuggest, PollLine, PollNothing,
         SeeClosed, EndWork, FindShare, PoolAnswers, PoolPushes, PoolLeaves, vars, history
<1>2. PushedJobs \subseteq PushedJobs'
  BY <1>1 DEF PushedJobs
<1>3. assigned' = assigned \/ assigned = Unassigned
  <2>1. CASE PoolAnswers
    BY <2>1, PoolAnswersOne DEF OneAnswer, AssignInv
  <2>2. CASE ~ PoolAnswers
    BY <2>2 DEF Next, Miner, SendSubscribe, RecvReply, SendAuthorize, SendSuggest, PollLine,
                PollNothing, SeeClosed, EndWork, FindShare, PoolPushes, PoolLeaves, vars, pool
  <2> QED
    BY <2>1, <2>2
<1>4. \A s \in shares : Good(s)'
  BY <1>2, <1>3 DEF SharesAreThePools
<1>5. CASE FindShare
  <2>1. PICK job \in taken : \E id, nonce :
          shares' = shares \cup {[id |-> id, job |-> job, nonce |-> nonce,
                                  extranonce1 |-> sub.extranonce1, size |-> En2Size]}
    BY <1>5 DEF FindShare
  <2>7. PICK new : /\ shares' = shares \cup {new} /\ new.job = job
                   /\ new.extranonce1 = sub.extranonce1 /\ new.size = En2Size
    <3>1. PICK id, nonce :
            shares' = shares \cup {[id |-> id, job |-> job, nonce |-> nonce,
                                    extranonce1 |-> sub.extranonce1, size |-> En2Size]}
      BY <2>1
    <3> DEFINE new == [id |-> id, job |-> job, nonce |-> nonce,
                       extranonce1 |-> sub.extranonce1, size |-> En2Size]
    <3>2. new.job = job /\ new.extranonce1 = sub.extranonce1 /\ new.size = En2Size
      OBVIOUS
    <3>3. shares' = shares \cup {new}
      BY <3>1
    <3> HIDE DEF new
    <3> QED
      BY <3>2, <3>3
  <2>2. assigned' = assigned /\ assigned \in Sessions /\ sub = SubOf(assigned)
    BY <1>5 DEF FindShare, AssignInv
  <2>3. assigned # Unassigned /\ assigned.size \in Nat
    BY <2>2, NotAssigned, SessionAssumption
  <2>4. sub.extranonce1 = assigned.extranonce1 /\ En2Size = Min({assigned.size, 8})
    <3>1. sub.extranonce1 = assigned.extranonce1 /\ sub.extranonce2_size = assigned.size
      BY <2>2 DEF SubOf
    <3> QED
      BY <2>3, <3>1, LesserOfTwo DEF En2Size
  <2>5. AsPool(job) \in PushedJobs'
    BY <1>2, <2>1 DEF JobsInv
  <2>6. \A s \in shares' : Good(s)'
    <3>1. Good(new)'
      BY <2>7, <2>2, <2>3, <2>4, <2>5
    <3> HIDE DEF Good
    <3> QED
      BY <1>4, <2>7, <3>1
  <2> QED
    BY <2>6 DEF SharesAreThePools
<1>6. CASE ~ FindShare
  <2>1. shares' = shares
    BY <1>6 DEF Next, Miner, SendSubscribe, RecvReply, SendAuthorize, SendSuggest, PollLine,
                PollNothing, SeeClosed, EndWork, PoolAnswers, PoolPushes, PoolLeaves, vars, history
  <2> QED
    BY <1>4, <2>1 DEF SharesAreThePools
<1> QED
  BY <1>5, <1>6

\* Every share is for a job this pool pushed, the whole of it, in the part of the
\* space it gave to this connection (main.c:254-292, 339-382).
THEOREM SharesBelongToThePool == Spec => []SharesAreThePools
<1>1. Init => AssignInv /\ JobsInv /\ SharesAreThePools
  <2> SUFFICES ASSUME Init PROVE AssignInv /\ JobsInv /\ SharesAreThePools
    OBVIOUS
  <2>1. /\ phase = "subscribe" /\ assigned = Unassigned /\ toMiner = <<>> /\ shares = {}
        /\ taken = {}
    BY DEF Init
  <2>2. Waiting = {}
    BY <2>1, EmptySeq DEF Waiting
  <2> QED
    BY <2>1, <2>2 DEF AssignInv, JobsInv, SharesAreThePools
<1> QED
  BY <1>1, BaseInvariant, AssignStep, JobsStep, SharesStep, PTL DEF Spec

-----------------------------------------------------------------------------
(* Nothing is dropped on the way. *)

\* A line off the front is the only one that no longer waits, and the two who take
\* one are PollLine and RecvReply.
LEMMA WaitingMoves ==
    ASSUME BaseInv, [Next]_vars
    PROVE  \/ Waiting \subseteq Waiting'
           \/ /\ PollLine \/ RecvReply
              /\ Waiting \subseteq Waiting' \cup {Head(toMiner)}
<1> DEFINE L == Pushes \cup Answers
<1>0. toMiner \in Seq(L)
  BY DEF BaseInv, LinesInv
<1>1. ASSUME toMiner # <<>>, toMiner' = Tail(toMiner)
      PROVE  Waiting \subseteq Waiting' \cup {Head(toMiner)}
  <2>1. Len(toMiner) \in Nat \ {0}
    BY <1>0, <1>1, EmptySeq, LenProperties
  <2>2. /\ Len(toMiner') = Len(toMiner) - 1
        /\ \A i \in 1..Len(toMiner') : toMiner'[i] = toMiner[i + 1]
        /\ Head(toMiner) = toMiner[1]
    BY <1>0, <1>1, <2>1, HeadTailProperties
  <2>3. ASSUME NEW i \in 1..Len(toMiner), i # 1 PROVE toMiner[i] \in Waiting'
    <3>1. i - 1 \in 1..Len(toMiner') /\ (i - 1) + 1 = i
      BY <2>1, <2>2, <2>3
    <3> QED
      BY <2>2, <3>1 DEF Waiting
  <2> QED
    BY <2>2, <2>3 DEF Waiting
<1>2. ASSUME toMiner' = toMiner PROVE Waiting \subseteq Waiting'
  BY <1>2 DEF Waiting
<1>3. CASE PollLine \/ RecvReply
  BY <1>1, <1>3 DEF PollLine, RecvReply, AfterReply
<1>4. CASE PoolAnswers
  <2>1. PICK q \in owed, n \in Nat : OneAnswer(q, n)
    BY <1>4, PoolAnswersOne
  <2>2. /\ Null \in Results /\ \A accepted \in BOOLEAN : Bool(accepted) \in Results
        /\ \A s \in Sessions : AssignedResult(s) \in Results
        /\ Null \in Errors /\ OtherError \in Errors
    BY DEF Results, Errors
  <2>3. \A result \in Results, error \in Errors : AnswerLine(n, result, error) \in L
    BY DEF Answers
  <2>4. UNCHANGED toMiner \/ \E l \in L : toMiner' = Append(toMiner, l)
    BY <2>1, <2>2, <2>3 DEF OneAnswer
  <2> QED
    BY <1>0, <1>2, <2>4, WaitingGrows
<1>5. CASE PoolPushes
  BY <1>0, <1>5, WaitingGrows DEF PoolPushes, Reply
<1>6. CASE SendSubscribe \/ SendAuthorize \/ SendSuggest \/ PollNothing \/ SeeClosed
           \/ EndWork \/ FindShare \/ PoolLeaves \/ UNCHANGED vars
  BY <1>2, <1>6 DEF SendSubscribe, SendAuthorize, SendSuggest, PollNothing, SeeClosed, EndWork,
                    FindShare, PoolLeaves, vars, wires
<1> QED
  BY <1>3, <1>4, <1>5, <1>6 DEF Next, Miner

\* What a step never takes back.
LEMMA StepsOnlyAdd ==
    ASSUME [Next]_vars
    PROVE  /\ pushed \subseteq pushed' /\ log \subseteq log' /\ taken \subseteq taken'
           /\ (open' => open)
           /\ (phase = "over" => phase' = "over")
<1> USE DEF miner, pool, wires, history
<1>1. CASE SendSubscribe
  BY <1>1 DEF SendSubscribe, MustSend
<1>2. CASE RecvReply
  BY <1>2 DEF RecvReply
<1>3. CASE SendAuthorize
  BY <1>3 DEF SendAuthorize, MustSend
<1>4. CASE SendSuggest
  BY <1>4 DEF SendSuggest
<1>5. CASE PollLine
  BY <1>5 DEF PollLine, TakeDifficulty, TakeNotify, TakeOther
<1>6. CASE PollNothing \/ SeeClosed \/ EndWork
  BY <1>6 DEF PollNothing, SeeClosed, EndWork
<1>7. CASE FindShare
  BY <1>7 DEF FindShare
<1>8. CASE PoolAnswers \/ PoolPushes \/ PoolLeaves
  BY <1>8 DEF PoolAnswers, PoolPushes, PoolLeaves
<1>9. CASE UNCHANGED vars
  BY <1>9 DEF vars
<1> QED
  BY <1>1, <1>2, <1>3, <1>4, <1>5, <1>6, <1>7, <1>8, <1>9 DEF Next, Miner

\* A push that carries a job is taken for nothing else.
LEMMA PushTaken ==
    ASSUME NEW p \in DOMAIN JobOf, NEW job, IsJob(job)
    PROVE  /\ stratum_parse_notify(p, job).ok
           /\ ~ stratum_parse_set_difficulty(p).ok
           /\ ~ stratum_parse_subscribe_result(p).ok
           /\ AsPool(stratum_parse_notify(p, job).job) = JobOf[p]
<1>1. p \in Pushes
  BY SessionAssumption
<1>2. stratum_parse_notify(p, ZeroJob).ok
  BY <1>1, PushesAssumption
<1>3. stratum_parse_notify(p, ZeroJob).ok => Count(p) \in Nat
  BY SessionAssumption DEF Count, Branch
<1>4. stratum_parse_notify(p, job).ok
  BY <1>2, <1>3, ZeroIsJob, ParseForgets
<1>5. Whole(p)
  BY <1>4, ParseWhole
<1>6. p.method = Text("mining.notify")
  BY <1>5, Zenon DEF Whole, Framing, IsCall
<1>7. ~ IsCall(p, "mining.set_difficulty")
  BY <1>6, ValuesDiffer DEF IsCall
<1> QED
  BY <1>1, <1>4, <1>7, PushParsed, PushesAssumption DEF stratum_parse_set_difficulty

\* A job the pool pushed waits in front of the miner or has been taken over, the whole
\* of it, unless the connection is over: none is lost between the replies of the
\* handshake, and none is read as something else.
JobsAreKept ==
    \A p \in pushed \cap DOMAIN JobOf :
        phase = "over" \/ p \in Waiting \/ \E job \in taken : AsPool(job) = JobOf[p]

\* The pool's line for a job is either still read or taken over (the safety core of
\* NothingIsLost: what remains of it is that the miner goes on reading).
THEOREM PushedJobsAreKept == Spec => []JobsAreKept
<1>1. Init => JobsAreKept
  BY DEF Init, JobsAreKept
<1>2. ASSUME BaseInv, JobsAreKept, [Next]_vars PROVE JobsAreKept'
  <2> SUFFICES ASSUME NEW p \in pushed' \cap DOMAIN JobOf, phase' # "over", p \notin Waiting'
               PROVE  \E job \in taken' : AsPool(job) = JobOf[p]
    BY DEF JobsAreKept
  <2>1. /\ pushed \subseteq pushed' /\ taken \subseteq taken' /\ phase # "over"
    BY <1>2, StepsOnlyAdd
  <2>2. p \in pushed
    <3>1. SUFFICES ASSUME p \notin pushed PROVE FALSE
      OBVIOUS
    <3>2. PoolPushes
      BY <1>2, <3>1 DEF Next, Miner, SendSubscribe, RecvReply, SendAuthorize, SendSuggest,
         PollLine, PollNothing, SeeClosed, EndWork, FindShare, PoolAnswers, PoolLeaves, vars, history
    <3>3. p \in Pushes /\ toMiner' = Append(toMiner, p)
      BY <3>1, <3>2 DEF PoolPushes, Reply
    <3>4. p \in Waiting'
      BY <1>2, <3>3, WaitingGrows DEF BaseInv, LinesInv
    <3> QED
      BY <3>4
  <2>3. CASE \E job \in taken : AsPool(job) = JobOf[p]
    BY <2>1, <2>3
  <2>4. CASE p \in Waiting
    <3>1. (PollLine \/ RecvReply) /\ p = Head(toMiner)
      BY <1>2, <2>4, WaitingMoves
    <3>2. /\ stratum_parse_notify(p, scratch_job).ok /\ ~ stratum_parse_set_difficulty(p).ok
          /\ ~ stratum_parse_subscribe_result(p).ok
          /\ AsPool(stratum_parse_notify(p, scratch_job).job) = JobOf[p]
      BY <1>2, PushTaken DEF BaseInv
    <3>3. ~ RecvReply
      BY <3>1, <3>2 DEF RecvReply
    <3>4. taken' = taken \cup {stratum_parse_notify(p, scratch_job).job}
      BY <3>1, <3>2, <3>3 DEF PollLine, TakeDifficulty, TakeNotify, TakeOther
    <3> QED
      BY <3>2, <3>4
  <2> QED
    BY <1>2, <2>1, <2>2, <2>3, <2>4 DEF JobsAreKept
<1> QED
  BY <1>1, <1>2, BaseInvariant, PTL DEF Spec

\* A verdict the pool gave waits in front of the miner or is reported, in the very
\* words of the log, also after the pool has left.
VerdictsAreKept ==
    \A v \in verdicts :
        LET line == Answer(v.request, Bool(v.accepted), Null)
        IN  line \in Waiting \/ ReportOf(line) \in log

\* A share that could be printed is, while the connection is up, with the pool, on its
\* way back as an answer, or answered on the log.
SharesAreKept ==
    \A s \in shares : open /\ JobId(s.job) \notin LongPrinted =>
        \/ \E q \in owed : q.id = Number(s.id)
        \/ \E l \in Waiting \cap Answers : l.id = Number(s.id)
        \/ Answered(s)

\* Nothing the loop waits for exists before the loop; every verdict is an answer, and
\* the ids of shares are the third kind.
TalkInv ==
    /\ submit_id > 100 \/ shares # {} => phase \in {"drain", "work", "over"}
    /\ verdicts # {} => phase \notin {"subscribe", "reply", "authorize"}
    /\ \A v \in verdicts : Answer(v.request, Bool(v.accepted), Null) \in Answers
    /\ \A s \in shares : s.id \in Nat /\ s.id >= 100

\* The lines of the pool's answers, by their fields.
LEMMA AnswerFields ==
    /\ \A n \in Nat, result \in Results, error \in Errors :
          /\ AnswerLine(n, result, error) \in Answers
          /\ AnswerLine(n, result, error).id = Number(n)
    /\ Null \in Results /\ \A accepted \in BOOLEAN : Bool(accepted) \in Results
    /\ \A s \in Sessions : AssignedResult(s) \in Results
    /\ Null \in Errors /\ OtherError \in Errors
    /\ \A l \in Answers : l # NotJson
<1>1. ASSUME NEW l \in Answers PROVE l # NotJson
  <2>1. PICK n, result, error : l = AnswerLine(n, result, error)
    BY DEF Answers
  <2>2. "id" \in DOMAIN l
    BY <2>1 DEF AnswerLine, Object
  <2>3. "id" \notin DOMAIN NotJson
    BY DEF NotJson
  <2> QED
    BY <2>2, <2>3
<1>2. \A n, result, error : AnswerLine(n, result, error).id = Number(n)
  BY DEF AnswerLine, Object
<1>3. \A n \in Nat, result \in Results, error \in Errors :
        AnswerLine(n, result, error) \in Answers
  BY DEF Answers
<1>4. /\ Null \in Results /\ \A accepted \in BOOLEAN : Bool(accepted) \in Results
      /\ \A s \in Sessions : AssignedResult(s) \in Results
      /\ Null \in Errors /\ OtherError \in Errors
  BY DEF Results, Errors
<1> QED
  BY <1>1, <1>2, <1>3, <1>4

\* Only the authorize, suggest and submit requests get a verdict, and a submit always
\* gets an answer.
LEMMA AnswersByMethod ==
    ASSUME BaseInv, PoolAnswers
    PROVE  \E q \in owed : \E n \in Nat :
              /\ AskedAs(q, n) /\ owed' = owed \ {q}
              /\ verdicts' # verdicts => q # SubRequest
              /\ \/ verdicts' = verdicts
                 \/ \E accepted \in BOOLEAN :
                      /\ verdicts' = verdicts \cup {[request |-> q, accepted |-> accepted]}
                      /\ toMiner' = Append(toMiner, AnswerLine(n, Bool(accepted), Null))
              /\ n >= 100 =>
                   \E l \in Answers : l.id = Number(n) /\ toMiner' = Append(toMiner, l)
<1>1. PICK q \in owed : /\ AnswerSubscribe(q) \/ AnswerAsked(q) \/ AnswerSuggest(q)
                        /\ owed' = owed \ {q}
  BY DEF PoolAnswers
<1>2. PICK n \in Nat : AskedAs(q, n)
  BY DEF BaseInv, SentInv
<1>3. \A result, error : Answer(q, result, error) = AnswerLine(n, result, error)
  BY <1>2 DEF Answer, AnswerLine, AskedAs
<1>4. Refusal(q) = AnswerLine(n, Null, OtherError)
  BY <1>3 DEF Refusal, OtherError
<1>5. CASE AnswerSubscribe(q)
  <2>1. n = 1 /\ verdicts' = verdicts
    BY <1>2, <1>5, RequestFields, ValuesDiffer DEF AskedAs, AnswerSubscribe
  <2> QED
    BY <1>1, <1>2, <2>1
<1>6. CASE AnswerAsked(q)
  <2>1. q # SubRequest
    BY <1>6, RequestFields, ValuesDiffer DEF AnswerAsked
  <2>2. \/ /\ verdicts' = verdicts
           /\ toMiner' = Append(toMiner, AnswerLine(n, Null, OtherError))
        \/ \E accepted \in BOOLEAN :
             /\ verdicts' = verdicts \cup {[request |-> q, accepted |-> accepted]}
             /\ toMiner' = Append(toMiner, AnswerLine(n, Bool(accepted), Null))
    BY <1>3, <1>4, <1>6 DEF AnswerAsked, Verdict, Reply
  <2>3. \E l \in Answers : l.id = Number(n) /\ toMiner' = Append(toMiner, l)
    BY <2>2, AnswerFields
  <2> QED
    BY <1>1, <1>2, <2>1, <2>2, <2>3
<1>7. CASE AnswerSuggest(q)
  <2>1. n = 3 /\ q # SubRequest
    BY <1>2, <1>7, RequestFields, ValuesDiffer DEF AskedAs, AnswerSuggest
  <2>2. \/ verdicts' = verdicts
        \/ \E accepted \in BOOLEAN :
             /\ verdicts' = verdicts \cup {[request |-> q, accepted |-> accepted]}
             /\ toMiner' = Append(toMiner, AnswerLine(n, Bool(accepted), Null))
    BY <1>3, <1>7 DEF AnswerSuggest, Verdict, Reply
  <2> QED
    BY <1>1, <1>2, <2>1, <2>2
<1> QED
  BY <1>1, <1>5, <1>6, <1>7

\* An answer the network loop takes goes to the log.
LEMMA AnswerLogged ==
    ASSUME PollLine, Head(toMiner) \in Answers
    PROVE  ReportOf(Head(toMiner)) \in log'
BY AnswersAreNoCalls DEF PollLine, TakeDifficulty, TakeNotify, TakeOther

\* Every step keeps the order of the conversation.
LEMMA TalkStep == BaseInv /\ TalkInv /\ [Next]_vars => TalkInv'
<1> SUFFICES ASSUME BaseInv, TalkInv, [Next]_vars PROVE TalkInv'
  OBVIOUS
<1>0. submit_id \in Nat /\ submit_id >= 100
  BY DEF BaseInv, SentInv
<1>1. ASSUME UNCHANGED <<shares, verdicts, submit_id>>,
             \/ phase' \in {phase, "over"}
             \/ phase \in {"suggest", "drain", "work"} /\ phase' \in {"drain", "work"}
             \/ shares = {} /\ verdicts = {} /\ ~ (submit_id > 100)
      PROVE  TalkInv'
  BY <1>1 DEF TalkInv
<1>2. CASE FindShare
  <2>1. phase = "work" /\ phase' = "work" /\ verdicts' = verdicts
        /\ \E s : s.id = submit_id /\ shares' = shares \cup {s}
    BY <1>2 DEF FindShare
  <2> QED
    BY <1>0, <2>1 DEF TalkInv
<1>3. CASE PoolAnswers
  <2>1. PICK q \in owed, n \in Nat :
          /\ AskedAs(q, n)
          /\ verdicts' # verdicts => q # SubRequest
          /\ \/ verdicts' = verdicts
             \/ \E accepted \in BOOLEAN :
                  verdicts' = verdicts \cup {[request |-> q, accepted |-> accepted]}
    BY <1>3, AnswersByMethod
  <2>2. phase' = phase /\ shares' = shares /\ submit_id' = submit_id
    BY <1>3 DEF PoolAnswers, miner
  <2>3. CASE verdicts' = verdicts
    BY <1>1, <2>2, <2>3
  <2>4. ASSUME NEW accepted \in BOOLEAN, verdicts' # verdicts,
               verdicts' = verdicts \cup {[request |-> q, accepted |-> accepted]}
        PROVE  TalkInv'
    <3>1. phase \notin {"subscribe", "reply", "authorize"}
      <4>1. CASE n >= 100 /\ n < submit_id
        <5>1. submit_id > 100
          BY <1>0, <4>1
        <5> QED
          BY <5>1 DEF TalkInv
      <4> QED
        BY <2>1, <2>4, <4>1 DEF AskedAs
    <3>2. Answer(q, Bool(accepted), Null) \in Answers
      <4>1. Answer(q, Bool(accepted), Null) = AnswerLine(n, Bool(accepted), Null)
        BY <2>1 DEF Answer, AnswerLine, AskedAs
      <4> QED
        BY <4>1, AnswerFields
    <3>3. \A v \in verdicts' : Answer(v.request, Bool(v.accepted), Null) \in Answers
      BY <2>4, <3>2 DEF TalkInv
    <3> QED
      BY <2>2, <3>1, <3>3 DEF TalkInv
  <2> QED
    BY <2>1, <2>3, <2>4
<1>4. CASE SendSubscribe \/ RecvReply \/ SendAuthorize
  <2>1. UNCHANGED <<shares, verdicts, submit_id>> /\ phase \in {"subscribe", "reply", "authorize"}
    BY <1>4 DEF SendSubscribe, RecvReply, SendAuthorize, history
  <2>2. shares = {} /\ verdicts = {} /\ ~ (submit_id > 100)
    BY <2>1 DEF TalkInv
  <2> QED
    BY <1>1, <2>1, <2>2
<1>5. CASE SendSuggest \/ PollLine \/ PollNothing \/ SeeClosed \/ EndWork
  BY <1>1, <1>5 DEF SendSuggest, PollLine, PollNothing, SeeClosed, EndWork, history
<1>6. CASE PoolPushes \/ PoolLeaves \/ UNCHANGED vars
  BY <1>1, <1>6 DEF PoolPushes, PoolLeaves, vars, miner, history
<1> QED
  BY <1>2, <1>3, <1>4, <1>5, <1>6 DEF Next, Miner

\* The conversation keeps its order in every behaviour.
LEMMA TalkInvariant == Spec => []TalkInv
<1>1. Init => TalkInv
  <2> SUFFICES ASSUME Init PROVE TalkInv
    OBVIOUS
  <2>1. submit_id = 100 /\ shares = {} /\ verdicts = {}
    BY DEF Init
  <2>2. ~ (submit_id > 100)
    BY <2>1
  <2> QED
    BY <2>1, <2>2 DEF TalkInv
<1> QED
  BY <1>1, BaseInvariant, TalkStep, PTL DEF Spec

\* Every verdict of the pool is waiting to be read or reported on the log, whatever
\* order the answers come in (main.c:360-369, app_desktop/main.c:188-196).
THEOREM PoolsVerdictsAreKept == Spec => []VerdictsAreKept
<1>1. Init => VerdictsAreKept
  BY DEF Init, VerdictsAreKept
<1>2. ASSUME BaseInv, TalkInv, VerdictsAreKept, [Next]_vars PROVE VerdictsAreKept'
  <2> DEFINE Line(v) == Answer(v.request, Bool(v.accepted), Null)
             Kept(v) == Line(v) \in Waiting \/ ReportOf(Line(v)) \in log
  <2>0. \A v \in verdicts : Line(v) \in Answers /\ Kept(v)
    BY <1>2 DEF TalkInv, VerdictsAreKept
  <2>1. log \subseteq log'
    BY <1>2, StepsOnlyAdd
  <2> SUFFICES ASSUME NEW v \in verdicts' PROVE Kept(v)'
    BY DEF VerdictsAreKept
  <2>2. CASE v \in verdicts
    <3>1. CASE ReportOf(Line(v)) \in log
      BY <2>1, <3>1
    <3>2. CASE Line(v) \in Waiting /\ Line(v) \notin Waiting'
      <4>1. (PollLine \/ RecvReply) /\ Line(v) = Head(toMiner)
        BY <1>2, <3>2, WaitingMoves
      <4>2. ~ RecvReply
        BY <1>2, <2>2 DEF TalkInv, RecvReply
      <4> QED
        BY <2>0, <2>2, <4>1, <4>2, AnswerLogged
    <3> QED
      BY <2>0, <2>2, <3>1, <3>2
  <2>3. CASE v \notin verdicts
    <3>1. PoolAnswers
      BY <1>2, <2>3 DEF Next, Miner, SendSubscribe, RecvReply, SendAuthorize, SendSuggest,
         PollLine, PollNothing, SeeClosed, EndWork, FindShare, PoolPushes, PoolLeaves, vars, history
    <3>2. PICK q \in owed, n \in Nat :
            /\ AskedAs(q, n)
            /\ \/ verdicts' = verdicts
               \/ \E accepted \in BOOLEAN :
                    /\ verdicts' = verdicts \cup {[request |-> q, accepted |-> accepted]}
                    /\ toMiner' = Append(toMiner, AnswerLine(n, Bool(accepted), Null))
      BY <1>2, <3>1, AnswersByMethod
    <3>3. PICK accepted \in BOOLEAN :
            /\ v = [request |-> q, accepted |-> accepted]
            /\ toMiner' = Append(toMiner, AnswerLine(n, Bool(accepted), Null))
      BY <2>3, <3>2
    <3>4. Line(v) = AnswerLine(n, Bool(accepted), Null) /\ Line(v) \in Answers
      <4>1. v.request = q /\ v.accepted = accepted
        BY <3>3
      <4>2. Line(v) = AnswerLine(n, Bool(accepted), Null)
        BY <3>2, <4>1 DEF Answer, AnswerLine, AskedAs
      <4> QED
        BY <4>2, AnswerFields
    <3>5. Line(v) \in Waiting'
      BY <1>2, <3>3, <3>4, WaitingGrows DEF BaseInv, LinesInv
    <3> QED
      BY <3>5
  <2> QED
    BY <2>2, <2>3
<1> QED
  BY <1>1, <1>2, BaseInvariant, TalkInvariant, PTL DEF Spec

\* An answer to a share that is logged answers it.
LEMMA LoggedAnswers ==
    ASSUME NEW l \in Answers, NEW s, s.id \in Nat, l.id = Number(s.id), ReportOf(l) \in log'
    PROVE  Answered(s)'
<1> DEFINE answer == stratum_parse_result(l)
<1>1. l # NotJson
  BY AnswerFields
<1>2. CASE answer.ok
  <2>1. answer.id = s.id
    <3>1. answer.id = l.id.number
      BY <1>2 DEF stratum_parse_result
    <3>2. Number(s.id).number = s.id
      BY DEF Number
    <3> QED
      BY <3>1, <3>2
  <2>2. ReportOf(l).kind # "raw" /\ ReportOf(l).id = s.id
    BY <1>2, <2>1 DEF ReportOf
  <2> QED
    BY <2>2 DEF Answered
<1>3. CASE ~ answer.ok
  <2>1. ReportOf(l).kind = "raw" /\ ReportOf(l).line = l
    BY <1>3 DEF ReportOf
  <2> QED
    BY <1>1, <2>1 DEF Answered
<1> QED
  BY <1>2, <1>3

\* No share is lost while the connection is up: it is with the pool, its answer is
\* waiting, or the log has it (the safety core of NothingIsLost: what remains of it is
\* that the pool answers and the miner goes on reading).
THEOREM FoundSharesAreKept == Spec => []SharesAreKept
<1>1. Init => SharesAreKept
  BY DEF Init, SharesAreKept
<1>2. ASSUME BaseInv, TalkInv, SharesAreKept, [Next]_vars PROVE SharesAreKept'
  <2> SUFFICES ASSUME NEW s \in shares', open', JobId(s.job) \notin LongPrinted
               PROVE  \/ \E q \in owed' : q.id = Number(s.id)
                      \/ \E l \in Waiting' \cap Answers : l.id = Number(s.id)
                      \/ Answered(s)'
    BY DEF SharesAreKept
  <2>1. open /\ log \subseteq log'
    BY <1>2, StepsOnlyAdd
  <2>2. CASE s \notin shares
    <3>1. FindShare
      BY <1>2, <2>2 DEF Next, Miner, SendSubscribe, RecvReply, SendAuthorize, SendSuggest,
         PollLine, PollNothing, SeeClosed, EndWork, PoolAnswers, PoolPushes, PoolLeaves, vars, history
    <3> DEFINE nonce == ToString(Cardinality(shares))
    <3>2. PICK job \in taken :
            /\ shares' = shares \cup {[id |-> submit_id, job |-> job, nonce |-> nonce,
                                       extranonce1 |-> sub.extranonce1, size |-> En2Size]}
            /\ LET msg == stratum_serialize_submit(submit_id, "address", JobId(job),
                                                   ToString(En2Size), Ntime(job), nonce)
               IN  msg.ok => Send(msg.line)
      BY <3>1 DEF FindShare
    <3>3. s.id = submit_id /\ s.job = job
      BY <2>2, <3>2
    <3> DEFINE msg == stratum_serialize_submit(submit_id, "address", JobId(job),
                                               ToString(En2Size), Ntime(job), nonce)
    <3>4. msg.ok /\ msg.line.id = Number(submit_id)
      <4>1. msg.ok = (JobId(job) \notin LongPrinted)
        BY DEF stratum_serialize_submit
      <4>2. JobId(job) \notin LongPrinted
        BY <3>3
      <4> QED
        BY <4>1, <4>2, RequestFields
    <3>5. owed' = owed \cup {msg.line}
      BY <2>1, <3>2, <3>4 DEF Send
    <3> QED
      BY <3>3, <3>4, <3>5
  <2>3. CASE s \in shares
    <3>0. s.id \in Nat /\ s.id >= 100
      BY <1>2, <2>3 DEF TalkInv
    <3>1. CASE Answered(s)
      BY <2>1, <3>1 DEF Answered
    <3>2. ASSUME NEW l \in Waiting \cap Answers, l.id = Number(s.id), l \notin Waiting'
          PROVE  Answered(s)'
      <4>1. (PollLine \/ RecvReply) /\ l = Head(toMiner)
        BY <1>2, <3>2, WaitingMoves
      <4>2. ~ RecvReply
        BY <1>2, <2>3 DEF TalkInv, RecvReply
      <4> QED
        BY <3>0, <3>2, <4>1, <4>2, AnswerLogged, LoggedAnswers
    <3>3. ASSUME NEW q \in owed, q.id = Number(s.id), q \notin owed'
          PROVE  \E l \in Waiting' \cap Answers : l.id = Number(s.id)
      <4>1. PoolAnswers
        BY <1>2, <2>1, <3>3 DEF Next, Miner, SendSubscribe, RecvReply, SendAuthorize, SendSuggest,
           MustSend, Send, PollLine, PollNothing, SeeClosed, EndWork, FindShare, PoolPushes,
           PoolLeaves, vars, pool
      <4>2. PICK r \in owed, n \in Nat :
              /\ AskedAs(r, n) /\ owed' = owed \ {r}
              /\ n >= 100 =>
                   \E l \in Answers : l.id = Number(n) /\ toMiner' = Append(toMiner, l)
        BY <1>2, <4>1, AnswersByMethod
      <4>3. r = q /\ n = s.id
        BY <3>3, <4>2, ValuesDiffer DEF AskedAs
      <4>4. PICK l \in Answers : l.id = Number(s.id) /\ toMiner' = Append(toMiner, l)
        BY <3>0, <4>2, <4>3
      <4>5. l \in Waiting'
        BY <1>2, <4>4, WaitingGrows DEF BaseInv, LinesInv
      <4> QED
        BY <4>4, <4>5
    <3>4. \/ \E q \in owed : q.id = Number(s.id)
          \/ \E l \in Waiting \cap Answers : l.id = Number(s.id)
          \/ Answered(s)
      BY <1>2, <2>1, <2>3 DEF SharesAreKept
    <3> QED
      BY <3>1, <3>2, <3>3, <3>4
  <2> QED
    BY <2>2, <2>3
<1> QED
  BY <1>1, <1>2, BaseInvariant, TalkInvariant, PTL DEF Spec
=============================================================================
