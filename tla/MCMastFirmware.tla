--------------------------- MODULE MCMastFirmware ---------------------------
(***************************************************************************)
(* Small masts for TLC.  AssertTicks, RelayTicks, ReleaseTicks, VelTicks   *)
(* and FdcTicks are 2, 10, 20, 300 and 10000 ms in the code.  Their small  *)
(* values keep that order where the properties of a run depend on it.      *)
(***************************************************************************)
EXTENDS MastFirmware

AllStarts == 0 .. Travel
MiddleStart == {Travel \div 2}
NoTargets == {}
SomeTargets == {-1, 1, 100}
=============================================================================
