----------------------------- MODULE MCEspMiner -----------------------------
(* Small instances of EspMiner for TLC. *)
EXTENDS EspMiner

MCJobs == {1, 2, 3}
MCNoJob == 0
MCTargets == {1, 2}
MCNoTarget == 0
MCBadBranch == {3}
MCUnbuildable == {3}
MCNone == {}

\* A third of the nonces meet target 1, two thirds target 2, and which ones
\* depends on the job, on the extranonce2 and on the branch in the root.
MCMeets(t, n, g) ==
    (t.job + t.en2 + n + (IF t.branch.whole /\ t.branch.job = t.job THEN 0 ELSE 1)) % 3 < g
=============================================================================
