------------------------------ MODULE WheelRamp ------------------------------
(***************************************************************************)
(* One wheel of the base in numbers: _drive of robot/robot_agent.py, which *)
(* every pass moves the wheel's velocity exponentially towards its target  *)
(* and snaps what is slower than VEL_SNAP_ZERO to zero.  BaseAgent has the *)
(* whole agent, with levels in the place of these numbers.                 *)
(*                                                                         *)
(* Velocities are integers, in some unit of rad/s.  A pass keeps Kept      *)
(* percent of the distance to the target, 0.5 ** (dt / RAMP_HALFLIFE) for  *)
(* the time dt since the last one, and rounds towards the target.          *)
(***************************************************************************)
EXTENDS Integers

CONSTANTS
    Goals,          \* the targets _mecanum_targets gives the wheel
    VEL_SNAP_ZERO,
    Kept            \* percents of the distance that a pass may keep

ASSUME Numbers ==
    /\ Goals \subseteq Int /\ 0 \in Goals
    /\ VEL_SNAP_ZERO \in Nat \ {0}
    /\ Kept \subseteq 0 .. 99

VARIABLES
    goal,
    smoothed        \* _smoothed[i]

vars == <<goal, smoothed>>

Abs(v) == IF v < 0 THEN -v ELSE v

\* k percent of a distance, rounded towards zero.
Part(k, distance) ==
    IF distance < 0 THEN -((-distance * k) \div 100) ELSE (distance * k) \div 100

Init == goal = 0 /\ smoothed = 0

Command(g) == goal' = g /\ UNCHANGED smoothed

\* Faulty variant: keeps what it should close and closes what it should keep.
Ramped_Swapped(k) == goal + Part(100 - k, smoothed - goal)

Ramped(k) == goal + Part(k, smoothed - goal)

\* Faulty variants: the sign is forgotten; the velocity holds near zero.
Snapped_Signed(v) == IF v < VEL_SNAP_ZERO THEN 0 ELSE v
Snapped_Holds(v) == IF Abs(v) < VEL_SNAP_ZERO THEN smoothed ELSE v

Snapped(v) == IF Abs(v) < VEL_SNAP_ZERO THEN 0 ELSE v

Pass ==
    /\ \E k \in Kept : smoothed' = Snapped(Ramped(k))
    /\ UNCHANGED goal

Next == Pass \/ \E g \in Goals : Command(g)

Spec == Init /\ [][Next]_vars

FairSpec == Spec /\ WF_vars(Pass)

-----------------------------------------------------------------------------
(* Properties.                                                             *)

\* What a pass that keeps k percent may close of a distance, rounded up.
Share(k, distance) == ((100 - k) * distance + 99) \div 100

\* "Protects the gearbox from a hard step in either direction" (lines 78-83): even
\* when a command reverses the wheel, one pass changes the velocity by no more
\* than its share of the distance between two targets, and the snap.
Gradual ==
    \E g, h \in Goals, k \in Kept :
        Abs(smoothed' - smoothed) <= Share(k, Abs(g - h)) + VEL_SNAP_ZERO

NoHardStep == [][Gradual]_smoothed

\* "snap to exact 0 below this" (line 85): a wheel whose target stays zero comes to
\* an exact stop, from either direction.
Stops == <>[](goal = 0) => <>[](smoothed = 0)

\* The targets that a pass from rest takes out of the snap.
LeavesSnap(g) == \A k \in Kept : Abs(g) - Part(k, Abs(g)) >= VEL_SNAP_ZERO

\* A target strong enough to leave the snap is reached.
FollowsStrong ==
    \A g \in Goals : LeavesSnap(g) => (<>[](goal = g) => <>[](smoothed = g))

=============================================================================
