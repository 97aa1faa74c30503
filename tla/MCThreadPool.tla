----------------------------- MODULE MCThreadPool -----------------------------
(***************************************************************************)
(* Instances of ThreadPool for TLC.                                        *)
(***************************************************************************)
EXTENDS ThreadPool

CONSTANTS w1, w2, j1, j2, j3

TwoWorkers == {w1, w2}
TwoJobs == {j1, j2}
ThreeJobs == {j1, j2, j3}

\* Wait for ever, not at all, or for two turns.
AllWaitTimes == {Infinite, 0, 2}
=============================================================================
