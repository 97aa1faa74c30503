----------------------------- MODULE MCServoLink -----------------------------
(***************************************************************************)
(* Instances of ServoLink for TLC.                                         *)
(***************************************************************************)
EXTENDS ServoLink

\* An ordinary position; the balance, which is also 'Y'; the position that is 'I'; and one the
\* board refuses.
EveryKind == {30, 73, 89, 210}
=============================================================================
