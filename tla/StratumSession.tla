--------------------------- MODULE StratumSession ---------------------------
(***************************************************************************)
(* One connection between the miner and a pool, as a conversation of       *)
(* whole lines: the handshake and the network loop that both mains share,  *)
(* and a pool that answers in any order, pushes when it likes and may      *)
(* leave.  How a share is found is EspMiner's and DesktopMiner's subject;  *)
(* here it is any work the miner has taken.                                *)
(***************************************************************************)
EXTENDS StratumProto, FiniteSetsExt, TLC

CONSTANTS
    PoolJobs,       \* the jobs of the pool, each as the pool knows it
    Pushes,         \* the lines the pool sends unasked, notifications of PoolJobs among them
    JobOf,          \* the job in a push, for the pushes that carry one
    Sessions,       \* [extranonce1, size], what the pool may assign
    MaxPushes,      \* bound: lines sent unasked
    MaxLines,       \* bound: lines on their way to the miner or in its buffer
    MaxShares       \* bound: shares found

\* The miner's copy of a job as the pool knows it: its branch is what the builder of
\* the merkle root reads, up to the count, even past the end of the array.
AsPool(job) ==
    [texts |-> job.texts, clean_jobs |-> job.clean_jobs,
     merkle_branch |-> [i \in 1 .. job.merkle_count |->
                          IF i <= MaxBranches THEN job.merkle_branch[i] ELSE "past the end"]]

\* Before the reply to subscribe.
Unassigned == [extranonce1 |-> "none", size |-> 0]

ASSUME SessionAssumption ==
    /\ MaxPushes \in Nat /\ MaxLines \in Nat /\ MaxShares \in Nat
    /\ Sessions \subseteq [extranonce1 : STRING, size : Nat] \ {Unassigned}
    /\ DOMAIN JobOf \subseteq Pushes
    /\ \A p \in DOMAIN JobOf : JobOf[p] \in PoolJobs /\ Len(Item(p.params, 4).array) \in Nat

\* What the pool sends unasked is no answer, and the job in it is what a reader with
\* a clean buffer finds.
ASSUME PushesAssumption ==
    \A p \in Pushes :
        LET parsed == stratum_parse_notify(p, ZeroJob)
        IN  /\ ~ stratum_parse_result(p).ok /\ ~ stratum_parse_subscribe_result(p).ok
            /\ parsed.ok <=> p \in DOMAIN JobOf
            /\ parsed.ok => AsPool(parsed.job) = JobOf[p]

VARIABLES
    \* the connection: lines on their way to the miner or in its buffer, and is
    \* it still up
    toMiner, open,
    \* the miner
    phase, sub, scratch_job, taken, have_target, submit_id,
    \* the pool: what it assigned, the requests on their way to it or
    \* unanswered, how many lines it has pushed
    assigned, owed, pushes,
    \* history: requests sent, the work behind each share, lines pushed, the
    \* pool's verdicts and the reports on the miner's log
    sent, shares, pushed, verdicts, log

wires   == <<toMiner, open>>
miner   == <<phase, sub, scratch_job, taken, have_target, submit_id>>
pool    == <<assigned, owed, pushes>>
history == <<sent, shares, pushed, verdicts, log>>
vars    == <<wires, miner, pool, history>>

Init ==
    /\ toMiner = <<>> /\ open = TRUE
    /\ phase = "subscribe"
    /\ sub = [extranonce1 |-> "", extranonce2_size |-> 0]
    /\ scratch_job = ZeroJob /\ taken = {} /\ have_target = FALSE
    /\ submit_id = 100
    /\ assigned = Unassigned /\ owed = {}
    /\ sent = {} /\ shares = {} /\ pushed = {} /\ pushes = 0 /\ verdicts = {} /\ log = {}

-----------------------------------------------------------------------------
(* The handshake. *)

\* A line to a pool that has left is lost; sometimes send says so.
Send(line) ==
    /\ owed' = IF open THEN owed \cup {line} ELSE owed
    /\ sent' = sent \cup {line}

\* A request whose failure ends the program.
MustSend(line, next) ==
    \/ Send(line) /\ phase' = next
    \/ ~ open /\ phase' = "over" /\ UNCHANGED <<owed, sent>>

SendSubscribe ==
    /\ phase = "subscribe"
    /\ MustSend(stratum_serialize_subscribe(1, "agent"), "reply")
    /\ UNCHANGED <<toMiner, open, sub, scratch_job, taken, have_target, submit_id, assigned, pushes,
                   shares, pushed, verdicts, log>>

\* The blocking net_recv_line takes one line and leaves the others in the buffer.
BugAfterReply(lines) == <<>>
AfterReply(lines) == Tail(lines)

RecvReply ==
    /\ phase = "reply"
    /\ toMiner # <<>>
    /\ LET reply == stratum_parse_subscribe_result(Head(toMiner))
       IN  /\ sub' = reply.sub
           /\ phase' = IF reply.ok THEN "authorize" ELSE "over"
           /\ open' = (open /\ reply.ok)
    /\ toMiner' = AfterReply(toMiner)
    /\ UNCHANGED <<scratch_job, taken, have_target, submit_id, pool, history>>

SendAuthorize ==
    /\ phase = "authorize"
    /\ MustSend(stratum_serialize_authorize(2, "address"), "suggest")
    /\ UNCHANGED <<toMiner, open, sub, scratch_job, taken, have_target, submit_id, assigned, pushes,
                   shares, pushed, verdicts, log>>

\* Nobody looks at whether this one was sent.
SendSuggest ==
    /\ phase = "suggest"
    /\ Send(stratum_serialize_suggest_difficulty(3, 1))
    /\ phase' = "drain"
    /\ UNCHANGED <<toMiner, open, sub, scratch_job, taken, have_target, submit_id, assigned, pushes,
                   shares, pushed, verdicts, log>>

-----------------------------------------------------------------------------
(* The network loop: drain the lines, then send what was found. *)

\* difficulty_to_target refuses what is not positive.
TakeDifficulty(line) ==
    /\ stratum_parse_set_difficulty(line).ok
    /\ have_target' = (have_target \/ stratum_parse_set_difficulty(line).difficulty > 0)
    /\ UNCHANGED <<scratch_job, taken, log>>

\* The parser fills a buffer of its own, which the next line finds as it is.
TakeNotify(line) ==
    /\ ~ stratum_parse_set_difficulty(line).ok
    /\ \E parsed \in {stratum_parse_notify(line, scratch_job)} :
           /\ parsed.ok
           /\ scratch_job' = parsed.job
           /\ taken' = taken \cup {parsed.job}
    /\ UNCHANGED <<have_target, log>>

\* What the log says of a line that is neither: a verdict or the line itself.
ReportOf(line) ==
    LET answer == stratum_parse_result(line)
    IN  IF ~ answer.ok THEN [kind |-> "raw", line |-> line]
        ELSE [kind |-> IF answer.id = 2 THEN "authorized" ELSE "share",
              id |-> answer.id, accepted |-> answer.accepted]

TakeOther(line) ==
    /\ ~ stratum_parse_set_difficulty(line).ok
    /\ \E parsed \in {stratum_parse_notify(line, scratch_job)} :
           ~ parsed.ok /\ scratch_job' = parsed.job
    /\ log' = log \cup {ReportOf(line)}
    /\ UNCHANGED <<taken, have_target>>

PollLine ==
    /\ phase = "drain"
    /\ toMiner # <<>>
    /\ LET line == Head(toMiner)
       IN  TakeDifficulty(line) \/ TakeNotify(line) \/ TakeOther(line)
    /\ toMiner' = Tail(toMiner)
    /\ UNCHANGED <<open, phase, sub, submit_id, pool, sent, shares, pushed, verdicts>>

PollNothing ==
    /\ phase = "drain"
    /\ toMiner = <<>> /\ open
    /\ phase' = "work"
    /\ UNCHANGED <<wires, sub, scratch_job, taken, have_target, submit_id, pool, history>>

\* The end of the stream: the desktop program exits, the board restarts and
\* begins another connection.
SeeClosed ==
    /\ phase \in {"reply", "drain"}
    /\ toMiner = <<>> /\ ~ open
    /\ phase' = "over"
    /\ UNCHANGED <<wires, sub, scratch_job, taken, have_target, submit_id, pool, history>>

\* What fits the buffer of the extranonce2 text.
En2Size == IF sub.extranonce2_size > 8 THEN 8 ELSE sub.extranonce2_size

\* submit_id++, whether or not the line can be printed.
BugNextId == submit_id
NextId == submit_id + 1

\* Shares are told apart by their nonce; it is spelled as the number of the share.
FindShare ==
    /\ phase = "work"
    /\ taken # {} /\ have_target
    /\ Cardinality(shares) < MaxShares
    /\ \E job \in taken :
           LET nonce == ToString(Cardinality(shares))
               msg == stratum_serialize_submit(submit_id, "address", JobId(job),
                                               ToString(En2Size), Ntime(job), nonce)
           IN  /\ shares' = shares \cup {[id |-> submit_id, job |-> job, nonce |-> nonce,
                                          extranonce1 |-> sub.extranonce1, size |-> En2Size]}
               /\ IF msg.ok THEN Send(msg.line) ELSE UNCHANGED <<owed, sent>>
    /\ submit_id' = NextId
    /\ UNCHANGED <<toMiner, open, phase, sub, scratch_job, taken, have_target, assigned, pushes,
                   pushed, verdicts, log>>

EndWork ==
    /\ phase = "work"
    /\ phase' = "drain"
    /\ UNCHANGED <<wires, sub, scratch_job, taken, have_target, submit_id, pool, history>>

-----------------------------------------------------------------------------
(* The pool (external). *)

Answer(request, result, error) == Object(request.id, Absent, Absent, result, error)
Refusal(request) == Answer(request, Null, Array(<<Number(20), Text("Other/Unknown")>>))

Reply(line) == toMiner' = Append(toMiner, line)

AnswerSubscribe(request) ==
    /\ request.method = Text("mining.subscribe")
    /\ \/ \E s \in Sessions :
              /\ assigned' = s
              /\ Reply(Answer(request, Array(<<Array(<<>>), Text(s.extranonce1),
                                               Number(s.size)>>), Null))
       \/ Reply(Refusal(request)) /\ UNCHANGED assigned
    /\ UNCHANGED verdicts

Verdict(request, accepted) ==
    /\ Reply(Answer(request, Bool(accepted), Null))
    /\ verdicts' = verdicts \cup {[request |-> request, accepted |-> accepted]}

\* Some pools say no with false, others with a result of null and an error.
AnswerAsked(request) ==
    /\ request.method \in {Text("mining.authorize"), Text("mining.submit")}
    /\ \/ \E accepted \in BOOLEAN : Verdict(request, accepted)
       \/ Reply(Refusal(request)) /\ UNCHANGED verdicts
    /\ UNCHANGED assigned

\* A pool honours suggest_difficulty or ignores it.
AnswerSuggest(request) ==
    /\ request.method = Text("mining.suggest_difficulty")
    /\ Verdict(request, TRUE) \/ UNCHANGED <<toMiner, verdicts>>
    /\ UNCHANGED assigned

PoolAnswers ==
    /\ open /\ Len(toMiner) < MaxLines
    /\ \E request \in owed :
           /\ AnswerSubscribe(request) \/ AnswerAsked(request) \/ AnswerSuggest(request)
           /\ owed' = owed \ {request}
    /\ UNCHANGED <<open, miner, pushes, sent, shares, pushed, log>>

PoolPushes ==
    /\ open /\ Len(toMiner) < MaxLines /\ pushes < MaxPushes
    /\ \E line \in Pushes :
           /\ Reply(line)
           /\ pushed' = pushed \cup {line}
    /\ pushes' = pushes + 1
    /\ UNCHANGED <<open, miner, assigned, owed, sent, shares, verdicts, log>>

\* What is still on its way to the pool is lost.
PoolLeaves ==
    /\ open
    /\ open' = FALSE /\ owed' = {}
    /\ UNCHANGED <<toMiner, miner, assigned, pushes, history>>

-----------------------------------------------------------------------------
Miner == \/ SendSubscribe \/ RecvReply \/ SendAuthorize \/ SendSuggest
         \/ PollLine \/ PollNothing \/ SeeClosed \/ EndWork
Next == Miner \/ FindShare \/ PoolAnswers \/ PoolPushes \/ PoolLeaves

\* The miner's loop keeps running; a pool that stays answers.  Nobody
\* has to find a share, push a line or leave.
Spec == Init /\ [][Next]_vars /\ WF_vars(Miner) /\ WF_vars(PoolAnswers)
-----------------------------------------------------------------------------
PushedJobs == {JobOf[p] : p \in pushed \cap DOMAIN JobOf}

\* The buffer notifications are parsed into is never cleared and keeps what a
\* refused line wrote.  All the same every share is for a job the pool pushed,
\* the whole of it, and searches the part of the space the pool gave to this
\* connection: its extranonce1, and its extranonce2 size up to the 8 bytes of
\* the counter.
SharesAreThePools ==
    \A s \in shares :
        /\ AsPool(s.job) \in PushedJobs
        /\ assigned # Unassigned
        /\ s.extranonce1 = assigned.extranonce1
        /\ s.size = Min({assigned.size, 8})

\* Answers come in any order and only their id says what they answer.  What is
\* logged as the authorize acknowledgement or as the verdict on a share is the
\* pool's verdict on the one request sent under that id.  The answer to
\* suggest_difficulty is told as one on a share, under id 3.
ReportsAreTrue ==
    \A r \in log : r.kind # "raw" =>
        \E request \in sent :
            /\ {q \in sent : q.id = Number(r.id)} = {request}
            /\ [request |-> request, accepted |-> r.accepted] \in verdicts
            /\ r.kind = "authorized" <=> request.method = Text("mining.authorize")
            /\ request.method = Text("mining.submit") <=> r.id >= 100

\* An answer to this share stands on the log, as a verdict or as a raw line.
Answered(s) ==
    \E r \in log : IF r.kind = "raw" THEN r.line # NotJson /\ r.line.id = Number(s.id)
                   ELSE r.id = s.id

\* Unless the connection ends, the handshake comes to an end, a job pushed at any
\* moment, also between the replies of the handshake, is taken over, and every
\* share that could be printed is answered on the log.
NothingIsLost ==
    /\ []<>(phase \in {"drain", "over"})
    /\ \A j \in PoolJobs :
         (j \in PushedJobs) ~> (phase = "over" \/ \E t \in taken : AsPool(t) = j)
    /\ \A id \in 100 .. 99 + MaxShares :
         (\E s \in shares : s.id = id /\ JobId(s.job) \notin LongPrinted)
            ~> (phase = "over" \/ \E s \in shares : s.id = id /\ Answered(s))
=============================================================================
