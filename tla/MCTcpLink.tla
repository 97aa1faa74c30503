------------------------------ MODULE MCTcpLink ------------------------------
(***************************************************************************)
(* Instances of TcpLink for TLC.                                           *)
(***************************************************************************)
EXTENDS TcpLink

CONSTANTS c1, c2

TwoCalls == {c1, c2}
=============================================================================
