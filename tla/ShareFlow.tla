------------------------------ MODULE ShareFlow ------------------------------
(***************************************************************************)
(* What a miner promises its pool, with no task, lock, template or batch:  *)
(* it searches work the pool announced, whole; every share it queues names *)
(* the work being searched at that moment and solves it when the pool      *)
(* rebuilds the header; shares leave in the order they were found.         *)
(* The ESP32 miner and the desktop miner both implement it.                *)
(***************************************************************************)
EXTENDS MiningWork

CONSTANTS
    Capacity,   \* shares that may wait to be sent, a positive number
    Excused     \* jobs whose shares may be wrong, a subset of Jobs

VARIABLES
    announced,  \* the work the pool announced last
    mining,     \* the work being searched
    outbox,     \* shares found and not yet sent
    wire        \* the last share put on the wire; <<>> at first

flowVars == <<announced, mining, outbox, wire>>

Work == [job : Jobs \cup {NoJob}, target : Targets \cup {NoTarget}]
NoWork == [job |-> NoJob, target |-> NoTarget]

FlowInit ==
    /\ announced = NoWork
    /\ mining = NoWork
    /\ outbox = <<>>
    /\ wire = <<>>

\* The pool announces a job or a target, never both at once.
Announce ==
    /\ \/ \E j \in Jobs : announced' = [announced EXCEPT !.job = j]
       \/ \E t \in Targets : announced' = [announced EXCEPT !.target = t]
    /\ mining' \in {mining, announced'}
    /\ UNCHANGED <<outbox, wire>>

\* The search turns to the work announced last, both halves of it.
Switch ==
    /\ announced.job # NoJob
    /\ announced.target # NoTarget
    /\ mining' = announced
    /\ UNCHANGED <<announced, outbox, wire>>

Found(s) ==
    /\ s.job_id = mining.job
    /\ s.target = mining.target
    /\ ShareSolves(s) \/ s.job_id \in Excused

Find ==
    /\ Len(outbox) < Capacity
    /\ \E s \in Share : Found(s) /\ outbox' = Append(outbox, s)
    /\ UNCHANGED <<announced, mining, wire>>

\* The oldest share goes on the wire, or is lost with a failed write.
Submit ==
    /\ outbox # <<>>
    /\ wire' \in {Head(outbox), wire}
    /\ outbox' = Tail(outbox)
    /\ UNCHANGED <<announced, mining>>

\* A miner without a queue sends what it finds at once.
SubmitNow ==
    /\ \E s \in Share : Found(s) /\ wire' = s
    /\ UNCHANGED <<announced, mining, outbox>>

Reset == FlowInit'

FlowNext == Announce \/ Switch \/ Find \/ Submit \/ SubmitNow \/ Reset

FlowSpec == FlowInit /\ [][FlowNext]_flowVars
=============================================================================
