---------------------------- MODULE EmergencyStop ----------------------------
(***************************************************************************)
(* What the base promises about its emergency stop (robot_agent.py, lines  *)
(* 40-43 and the comments of on_stop and on_reset), whatever its loop is   *)
(* doing when a stop or a reset arrives, and however these overlap:        *)
(*                                                                         *)
(*   - a stop latches at once, and then only takes the power off motors,   *)
(*     until none is left;                                                 *)
(*   - a reset unlatches, and then only powers motors, until none is       *)
(*     missing; it is the only way back to power, and sets nothing in      *)
(*     motion;                                                             *)
(*   - a motor without power does not turn;                                *)
(*   - an agent that ends, rather than being killed, leaves no power on;   *)
(*   - a stop, a reset or an end that meets a fault, or one that switches  *)
(*     the other way, may end before it is through, but the next one that  *)
(*     is undisturbed is.                                                  *)
(*                                                                         *)
(* BaseAgent.tla implements this specification.                            *)
(***************************************************************************)

CONSTANT Motors

VARIABLES
    mode,       \* "up", "closing", "down" or "killed"
    latched,
    cutting,    \* a stop is under way
    restoring,  \* a reset is
    sound,      \* the latest stop, reset or end has not been disturbed
    powered,    \* the motors that are
    turning     \* the motors that do

vars == <<mode, latched, cutting, restoring, sound, powered, turning>>

Init ==
    /\ mode = "up"
    /\ latched = FALSE /\ cutting = FALSE /\ restoring = FALSE
    /\ sound = TRUE
    /\ powered = Motors
    /\ turning = {}

Alive == mode \in {"up", "closing"}

-----------------------------------------------------------------------------

\* A stop that finds the latch set has nothing to do.
Stop ==
    /\ Alive /\ ~cutting
    /\ latched' = TRUE
    /\ cutting' = ~latched
    /\ sound' = IF latched \/ mode = "closing" THEN sound ELSE ~restoring
    /\ UNCHANGED <<mode, restoring, powered, turning>>

\* Less power, and none when an undisturbed stop is through.
Cut ==
    /\ Alive /\ cutting
    /\ powered' \in SUBSET powered
    /\ turning' = turning \cap powered'
    /\ cutting' \in BOOLEAN
    /\ ~cutting' /\ sound /\ mode = "up" => powered' = {}
    /\ UNCHANGED <<mode, latched, restoring, sound>>

Reset ==
    /\ Alive /\ ~restoring
    /\ latched' = FALSE
    /\ restoring' = TRUE
    /\ sound' = (mode = "up" /\ ~cutting)
    /\ UNCHANGED <<mode, cutting, powered, turning>>

\* More power, nothing that turns, and all when an undisturbed reset is through.
Restore ==
    /\ Alive /\ restoring
    /\ powered' \in SUBSET Motors /\ powered \subseteq powered'
    /\ restoring' \in BOOLEAN
    /\ ~restoring' /\ sound => powered' = Motors
    /\ UNCHANGED <<mode, latched, cutting, sound, turning>>

\* A fault ends a stop or a reset where it is.
Fault ==
    /\ Alive
    /\ \/ cutting /\ cutting' = FALSE /\ UNCHANGED restoring
       \/ restoring /\ restoring' = FALSE /\ UNCHANGED cutting
    /\ sound' = FALSE
    /\ UNCHANGED <<mode, latched, powered, turning>>

\* The loop drives what is powered.
Turn ==
    /\ mode = "up"
    /\ turning' \in SUBSET powered
    /\ UNCHANGED <<mode, latched, cutting, restoring, sound, powered>>

\* The end waits for nothing.
Close ==
    /\ mode = "up"
    /\ mode' = "closing"
    /\ sound' = ~restoring
    /\ UNCHANGED <<latched, cutting, restoring, powered, turning>>

\* Less power, and none when an undisturbed end is through.
Off ==
    /\ mode = "closing"
    /\ powered' \in SUBSET powered
    /\ turning' = turning \cap powered'
    /\ mode' \in {"closing", "down"}
    /\ sound' \in {sound, FALSE}
    /\ mode' = "down" /\ sound' => powered' = {}
    /\ UNCHANGED <<latched, cutting, restoring>>

Kill ==
    /\ Alive
    /\ mode' = "killed"
    /\ UNCHANGED <<latched, cutting, restoring, sound, powered, turning>>

Next == Stop \/ Cut \/ Reset \/ Restore \/ Fault \/ Turn \/ Close \/ Off \/ Kill

Spec == Init /\ [][Next]_vars

=============================================================================
