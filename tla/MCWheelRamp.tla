----------------------------- MODULE MCWheelRamp -----------------------------
(* Targets for one wheel in units of 0.01 rad/s: full speed both ways      *)
(* (MAX_VEL), and a quarter and an eighth of it.                           *)
EXTENDS WheelRamp

WheelGoals == {-3000, 0, 375, 750, 3000}

=============================================================================
