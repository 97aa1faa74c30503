-------------------------- MODULE MCCamControlServer --------------------------
(***************************************************************************)
(* Instances of CamControlServer for TLC.                                  *)
(***************************************************************************)
EXTENDS CamControlServer, TLC

CONSTANTS w1, w2

\* The server's own pool size (main.cpp:13).
TwoWorkers == {w1, w2}

\* Workers are interchangeable; used for safety only.
WorkerSymmetry == Permutations(Workers)
=============================================================================
