------------------------------ MODULE MCTeleop -------------------------------
(* An operator who always holds a key: one of the base with the deadman,   *)
(* or the mast's with it or without.                                       *)
EXTENDS Teleop

SomeHands == {<<TRUE, "base">>, <<TRUE, "mast">>, <<FALSE, "mast">>}

=============================================================================
