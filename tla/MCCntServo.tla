------------------------------ MODULE MCCntServo ------------------------------
(***************************************************************************)
(* Instances of CntServo for TLC.                                          *)
(***************************************************************************)
EXTENDS CntServo

AxisX == {"X"}

\* What sendPos returns besides that the link is down: the flags of both axes together give
\* workroutine the remaining case.
GoodOrBad == {{}, {"BADLINK"}}

\* From the balance 89 a speed of 89 stays in range upwards and just reaches the limit
\* downwards.  A balance that is set as 200 arrives as -56, and so does a position, which is
\* sent at most once, whichever it is.
OtherMid == {-56}
OneSpeed == {89}
OnePosition == {-56}

\* An illegal direction is kept like a legal one; workroutine treats it like STOP.
BothWays == {"STOP", "POSE", "NEGA"}
=============================================================================
