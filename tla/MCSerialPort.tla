----------------------------- MODULE MCSerialPort -----------------------------
(***************************************************************************)
(* Instances of SerialPort for TLC.                                        *)
(***************************************************************************)
EXTENDS SerialPort

CONSTANTS s1, s2

FewFds == 3..6
TwoSessions == {s1, s2}
=============================================================================
