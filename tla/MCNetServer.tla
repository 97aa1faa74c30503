----------------------------- MODULE MCNetServer -----------------------------
(***************************************************************************)
(* Instances of NetServer for TLC.                                         *)
(***************************************************************************)
EXTENDS NetServer

CONSTANTS c1, c2, c3, p1, p2

ThreeConns == {c1, c2, c3}
TwoPorts == {p1, p2}
=============================================================================
