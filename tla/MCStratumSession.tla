-------------------------- MODULE MCStratumSession --------------------------
(* A small instance of StratumSession for TLC. *)
EXTENDS StratumSession

\* Two jobs with branches of different length; a submit for the second cannot be
\* printed.
PoolJob(id, branch) == [texts |-> [i \in 1..7 |-> id], merkle_branch |-> branch,
                        clean_jobs |-> TRUE]
First == PoolJob("first", <<"left">>)
Second == PoolJob("\\second", <<"left", "right">>)
MCPoolJobs == {First, Second}

Texts(s) == Array([i \in DOMAIN s |-> Text(s[i])])
Notify(j, branch, clean) ==
    Object(Null, Text("mining.notify"),
           Array(Texts(SubSeq(j.texts, 1, 4)).array \o <<branch>>
                 \o Texts(SubSeq(j.texts, 5, 7)).array \o clean),
           Absent, Absent)
PushOf(j) == Notify(j, Texts(j.merkle_branch), <<Bool(j.clean_jobs)>>)

\* A branch of two whose second hash is too long, after a whole head.
HalfBranch == Notify(Second, Texts(<<"right", "long">>), <<Bool(TRUE)>>)
Difficulty(d) ==
    Object(Null, Text("mining.set_difficulty"), Array(<<Number(d)>>), Absent, Absent)

MCPushes == {PushOf(First), PushOf(Second), HalfBranch, Difficulty(1)}
MCJobOf == [p \in {PushOf(First), PushOf(Second)} |->
              IF p = PushOf(First) THEN First ELSE Second]

MCSessions == {[extranonce1 |-> "e1", size |-> 9], [extranonce1 |-> "long", size |-> 4]}
MCTooLong == {"long"}
MCLongPrinted == {"\\second"}
=============================================================================
