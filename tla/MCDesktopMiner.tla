--------------------------- MODULE MCDesktopMiner ---------------------------
(* Small instances of DesktopMiner for TLC. *)
EXTENDS DesktopMiner

MCJobs == {1, 2, 3, 4}
MCNoJob == 0
MCTargets == {1, 2}
MCNoTarget == 0
MCBadBranch == {3}
MCUnbuildable == {4}
MCMalformed == {2}

\* A third of the nonces meet target 1, two thirds target 2, and which ones
\* depends on the job, on the extranonce2 and on the branch in the root.
MCMeets(t, n, g) ==
    (t.job + t.en2 + n + (IF t.branch.whole /\ t.branch.job = t.job THEN 0 ELSE 1)) % 3 < g
=============================================================================
