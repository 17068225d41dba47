--------------------------- MODULE BrakeInterlock ---------------------------
(***************************************************************************)
(* What the mast promises about its 24 V brake, whatever commands arrive   *)
(* and whatever the endstops read (firmware/mast/src/main.cpp, comments    *)
(* "Frein / moteur" and "Séquencement frein -> mouvement"):                *)
(*                                                                         *)
(*   - the motor turns only in the driving phase, which is entered only    *)
(*     after the brake has been released for RelayTicks;                   *)
(*   - a planned stop clamps the brake only after the motor has been still *)
(*     for RelayTicks; an emergency stop clamps it at once, in any phase;  *)
(*   - the brake is released by hand only at rest, and starting a movement *)
(*     or stopping ends the manual release.                                *)
(*                                                                         *)
(* MastFirmware.tla implements this specification.                         *)
(***************************************************************************)
EXTENDS Integers

CONSTANT RelayTicks    \* settling time of the brake relay, a natural number

VARIABLES
    phase,      \* "stopped", "releasing", "driving" or "settling"
    wait,       \* ticks spent in "releasing" or "settling", else 0
    released,   \* the brake is released
    manual,     \* it was released by hand
    load        \* where the carriage is

vars == <<phase, wait, released, manual, load>>

Phases == {"stopped", "releasing", "driving", "settling"}

Init ==
    /\ phase = "stopped"
    /\ wait = 0
    /\ released = FALSE
    /\ manual = FALSE
    /\ load \in Int

-----------------------------------------------------------------------------

\* A movement is accepted at rest: the brake opens first.
Release ==
    /\ phase = "stopped"
    /\ phase' = "releasing"
    /\ wait' = 0
    /\ released' = TRUE
    /\ manual' = FALSE
    /\ UNCHANGED load

\* Time passes while the relay settles.
Settling ==
    /\ phase \in {"releasing", "settling"}
    /\ wait < RelayTicks
    /\ wait' = wait + 1
    /\ UNCHANGED <<phase, released, manual, load>>

Engage ==
    /\ phase = "releasing"
    /\ wait = RelayTicks
    /\ phase' = "driving"
    /\ wait' = 0
    /\ UNCHANGED <<released, manual, load>>

Drive ==
    /\ phase = "driving"
    /\ load' \in Int
    /\ UNCHANGED <<phase, wait, released, manual>>

\* The movement is over, possibly with its last pulse, or is cancelled before
\* the motor ever turned.
Disengage ==
    /\ phase \in {"releasing", "driving"}
    /\ phase' = "settling"
    /\ wait' = 0
    /\ load' \in Int
    /\ phase = "releasing" => UNCHANGED load
    /\ UNCHANGED <<released, manual>>

Clamp ==
    /\ phase = "settling"
    /\ wait = RelayTicks
    /\ phase' = "stopped"
    /\ wait' = 0
    /\ released' = FALSE
    /\ UNCHANGED <<manual, load>>

Emergency ==
    /\ phase' = "stopped"
    /\ wait' = 0
    /\ released' = FALSE
    /\ manual' = FALSE
    /\ UNCHANGED load

ByHand ==
    /\ phase = "stopped"
    /\ released' = TRUE
    /\ manual' = TRUE
    /\ UNCHANGED <<phase, wait, load>>

Next == Release \/ Settling \/ Engage \/ Drive \/ Disengage \/ Clamp
            \/ Emergency \/ ByHand

Spec == Init /\ [][Next]_vars

=============================================================================
