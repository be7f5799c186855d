---------------------------- MODULE StratumProto ----------------------------
(***************************************************************************)
(* The Stratum v1 messages (core/stratum_proto.c): requests to lines and   *)
(* lines to structs.  A JSON value is a record with one field named after  *)
(* its type; a line is NotJson or an object, in which a missing member is  *)
(* Absent.  A text is only told apart by whether it fits its buffer.       *)
(***************************************************************************)
EXTENDS Integers, Sequences, FiniteSets

CONSTANTS
    TooLong,        \* the texts that do not fit the field they are sent for
    LongPrinted,    \* the job ids whose escapes make a submit overflow msg[512]
    MaxBranches     \* STRATUM_MAX_MERKLE_BRANCHES

ASSUME ProtoAssumption == MaxBranches \in Nat

Number(n) == [number |-> n]
Bool(truth) == [bool |-> truth]
Text(s) == [string |-> s]
Array(items) == [array |-> items]
Null == [null |-> TRUE]
Absent == [absent |-> TRUE]

Is(type, value) == type \in DOMAIN value
ArrayOf(n, value) == Is("array", value) /\ Len(value.array) >= n
\* cJSON_GetArrayItem, from 0.
Item(value, i) == IF i < Len(value.array) THEN value.array[i + 1] ELSE Absent

NotJson == [garbage |-> TRUE]
Object(id, method, params, result, error) ==
    [id |-> id, method |-> method, params |-> params, result |-> result, error |-> error]

-----------------------------------------------------------------------------
(* The four requests. *)

Request(id, method, params) == Object(Number(id), Text(method), Array(params), Absent, Absent)

stratum_serialize_subscribe(id, agent) == Request(id, "mining.subscribe", <<Text(agent)>>)

stratum_serialize_authorize(id, address) ==
    Request(id, "mining.authorize", <<Text(address), Text("x")>>)

stratum_serialize_suggest_difficulty(id, difficulty) ==
    Request(id, "mining.suggest_difficulty", <<Number(difficulty)>>)

\* print_and_copy gives -1 and no line when the text does not fit.
stratum_serialize_submit(id, worker, job_id, extranonce2, ntime, nonce) ==
    [ok |-> job_id \notin LongPrinted,
     line |-> Request(id, "mining.submit", <<Text(worker), Text(job_id), Text(extranonce2),
                                             Text(ntime), Text(nonce)>>)]

-----------------------------------------------------------------------------
(* The four parsers.  Each takes only its own message, complete. *)

copy_str_field(value) == Is("string", value) /\ value.string \notin TooLong

IsCall(line, method) == line # NotJson /\ line.method = Text(method)

\* Where the texts of a mining.notify are, in the order they are copied: job_id,
\* prevhash, coinb1, coinb2, version, nbits, ntime.
Position == <<0, 1, 2, 3, 5, 6, 7>>

\* stratum_job_t, with those texts as one tuple.
ZeroJob == [texts |-> [i \in 1..7 |-> ""], merkle_branch |-> [i \in 1..MaxBranches |-> ""],
            merkle_count |-> 0, clean_jobs |-> FALSE]
JobId(job) == job.texts[1]
Ntime(job) == job.texts[7]

\* Texts are copied one by one up to the first that is refused.
Copied(i, src) == \A k \in 1..i : copy_str_field(src[k])
CopiedTo(dst, src) ==
    [i \in DOMAIN dst |-> IF i <= Len(src) /\ Copied(i, src) THEN src[i].string ELSE dst[i]]

BugBranchCount(job, n) == job.merkle_count + n
BranchCount(job, n) == n

\* What is left in *job: a refused line leaves the fields in front of the fault
\* written, and the branch count at the hashes copied.
stratum_parse_notify(line, job) ==
    IF ~ IsCall(line, "mining.notify") \/ ~ ArrayOf(9, line.params)
    THEN [ok |-> FALSE, job |-> job]
    ELSE
    LET src == [i \in 1..7 |-> Item(line.params, Position[i])]
        branch == Item(line.params, 4)
        clean == Item(line.params, 8)
        filled == CopiedTo(job.texts, src)
    IN  IF ~ Copied(7, src) \/ ~ Is("array", branch) \/ Len(branch.array) > MaxBranches
        THEN [ok |-> FALSE, job |-> [job EXCEPT !.texts = filled]]
        ELSE LET n == Len(branch.array)
                 ok == Copied(n, branch.array) /\ Is("bool", clean)
             IN  [ok |-> ok,
                  job |-> [texts |-> filled,
                           merkle_branch |-> CopiedTo(job.merkle_branch, branch.array),
                           merkle_count |-> BranchCount(job,
                                              Cardinality({i \in 1..n : Copied(i, branch.array)})),
                           clean_jobs |-> IF ok THEN clean.bool ELSE job.clean_jobs]]

stratum_parse_subscribe_result(line) ==
    LET ok == /\ line # NotJson
              /\ line.error \in {Absent, Null}
              /\ ArrayOf(3, line.result)
              /\ copy_str_field(Item(line.result, 1))
              /\ Is("number", Item(line.result, 2)) /\ Item(line.result, 2).number >= 0
    IN  [ok |-> ok,
         sub |-> IF ok THEN [extranonce1 |-> Item(line.result, 1).string,
                             extranonce2_size |-> Item(line.result, 2).number]
                 ELSE [extranonce1 |-> "", extranonce2_size |-> 0]]

stratum_parse_set_difficulty(line) ==
    LET ok == /\ IsCall(line, "mining.set_difficulty")
              /\ ArrayOf(1, line.params)
              /\ Is("number", Item(line.params, 0))
    IN  [ok |-> ok, difficulty |-> IF ok THEN Item(line.params, 0).number ELSE 0]

stratum_parse_result(line) ==
    LET ok == line # NotJson /\ Is("number", line.id) /\ Is("bool", line.result)
    IN  [ok |-> ok, id |-> IF ok THEN line.id.number ELSE 0,
         accepted |-> ok /\ line.result.bool]
=============================================================================
