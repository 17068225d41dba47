------------------------------ MODULE BaseAgent ------------------------------
(***************************************************************************)
(* The base agent, robot/robot_agent.py: the process on the robot that     *)
(* turns Zenoh messages into wheel speeds, and "the last line of defense": *)
(* its control loop stops the wheels when commands or the deadman go       *)
(* stale, and an emergency stop disables the motors until a reset.         *)
(*                                                                         *)
(* The control loop runs in the main thread, the subscribers' callbacks    *)
(* in threads of the Zenoh library.  State.lock makes the reads of one     *)
(* pass and the writes of one callback atomic; disable_all() and           *)
(* enable_all() work outside it, motor by motor, while the loop sends.     *)
(*                                                                         *)
(* One tick is CONTROL_PERIOD, spent in time.sleep(): the rest of a pass   *)
(* takes no time but is interleaved with the callbacks.  The five frames   *)
(* that disable_all() and enable_all() send to each motor are one.         *)
(*                                                                         *)
(* Python 3.10, which the annotations need, switches threads at calls and  *)
(* at the end of a loop's body: a statement without a call is one step.    *)
(*                                                                         *)
(* Speeds are levels of the exponential ramp: level k is k passes away     *)
(* from the snap to zero.  The drive commands modelled are those strong    *)
(* enough to leave the snap.  apply_arm_command and apply_gripper_command  *)
(* do nothing in this process, so their commands are left out.             *)
(*                                                                         *)
(* Each subscriber has a thread of its own, so a stop and a reset run side *)
(* by side, also while the session is being closed; frames to the adapter  *)
(* may raise, and the clock may be set back.  What holds only without some *)
(* of this says so itself, by the history variables lost and alone.        *)
(***************************************************************************)
EXTENDS Integers

CONSTANTS
    N,          \* the number of wheels
    Full,       \* the top level of the ramp
    Timeout,    \* CMD_TIMEOUT_SEC and DEADMAN_TIMEOUT_SEC
    Payloads,   \* what arrives on robot/cmd/base
    ClockStep,  \* by how much time.time() may step back, 0 for never
    Sigint      \* whether a SIGINT may come

ASSUME Parameters ==
    /\ {N, Full, Timeout} \subseteq Nat \ {0}
    /\ ClockStep \in Nat /\ Sigint \in BOOLEAN
    /\ Payloads \subseteq {"none", "rest", "drive", "bad"}

Wheels == 1 .. N
Speeds == 0 .. Full

VARIABLES
    \* class State
    base,           \* base_cmd: "none" (None, or null), "rest" or "drive", or
                    \* "bad", which is not a JSON object
    deadman, estop,
    baseAge,        \* passes since last_base_ts, and since last_deadman_ts
    deadAge,
    skew,           \* how far time.time() has since stepped back from each
    \* the main thread
    pc, wheel, goal,
    frame,          \* the velocity control_mit has been called with
    frozen,         \* _drive's dt is 1e-6: this pass ramps by nothing
    smoothed,       \* _smoothed
    lastTick,       \* _last_tick: "none", "past", or "future" of the clock
    \* the motors
    enabled,        \* those that obey control_mit
    speed,          \* the last speed each of them obeyed, 0 if disabled
    lost,           \* (history) those whose latest frame was lost
    \* the callbacks that take several steps
    stop,           \* on_stop: 0, or the motor disable_all() is at
    reset,          \* on_reset: 0, 1 before the ramp is cleared, or 1 + the motor
    running,        \* damiao.running, which no one waits on
    \* history
    idle,           \* passes, but for the frozen, since one that was authorised
                    \* to move within a timeout and the step the clock may take
    driven,         \* the loop has ramped towards motion since the last reset
    alone           \* the latest stop, reset or exit that had motors to switch met
                    \* no fault, and no other that switches them the other way

cmds    == <<base, deadman, baseAge, deadAge, skew>>
loopVars == <<pc, wheel, goal, frame, frozen>>
ramp    == <<smoothed, lastTick>>
motors  == <<enabled, speed, lost>>
calls   == <<stop, reset>>
history == <<running, idle, driven, alone>>
vars    == <<cmds, estop, loopVars, ramp, motors, calls, history>>

\* Ages and idle times are counted up to values past every comparison.
AgeCap  == Timeout + ClockStep
IdleCap == Full + 1

Init ==
    /\ base = "none" /\ deadman = FALSE /\ estop = FALSE
    /\ baseAge = AgeCap /\ deadAge = AgeCap /\ skew = [base |-> 0, dead |-> 0]
    /\ pc = "top" /\ wheel = 1 /\ goal = 0 /\ frame = 0 /\ frozen = FALSE
    /\ smoothed = [w \in Wheels |-> 0] /\ lastTick = "none"
    /\ enabled = Wheels /\ speed = [w \in Wheels |-> 0] /\ lost = {}
    /\ stop = 0 /\ reset = 0
    /\ running = TRUE /\ idle = IdleCap /\ driven = FALSE /\ alone = TRUE

-----------------------------------------------------------------------------
(* Callbacks, in threads that end with the process.                        *)

Ended == pc \in {"exited", "killed"}
Open  == pc \notin {"disable", "exited", "killed"}     \* the session is

\* A payload that is not JSON is dropped before the lock is taken.
on_base(p) ==
    /\ ~Ended
    /\ base' = p
    /\ baseAge' = 0
    /\ skew' = [skew EXCEPT !.base = 0]
    /\ UNCHANGED <<deadman, deadAge, estop, loopVars, ramp, motors, calls, history>>

on_deadman(held) ==
    /\ ~Ended
    /\ deadman' = held
    /\ deadAge' = 0
    /\ skew' = [skew EXCEPT !.dead = 0]
    /\ UNCHANGED <<base, baseAge, estop, loopVars, ramp, motors, calls, history>>

\* Only the first stop disables the motors.
on_stop ==
    /\ ~Ended
    /\ stop = 0
    /\ estop' = TRUE
    /\ stop' = IF estop THEN 0 ELSE 1
    /\ alone' = IF ~estop /\ Open THEN reset = 0 ELSE alone
    /\ UNCHANGED <<cmds, loopVars, ramp, motors, reset, running, idle, driven>>

\* Faulty variants: one motor too many, the last motor forgotten.
Next1_OneMore(at, last) == IF at > last THEN 0 ELSE at + 1
Next1_OneLess(at, last) == IF at + 1 >= last THEN 0 ELSE at + 1

Next1(at, last) == IF at = last THEN 0 ELSE at + 1

Power(w, on) ==
    /\ enabled' = IF on THEN enabled \cup {w} ELSE enabled \ {w}
    /\ speed' = [speed EXCEPT ![w] = 0]
    /\ lost' = lost \ {w}

\* disable_all(), in on_stop, motor by motor.
StopMotor ==
    /\ stop # 0 /\ ~Ended
    /\ Power(stop, FALSE)
    /\ stop' = Next1(stop, N)
    /\ UNCHANGED <<cmds, estop, loopVars, ramp, reset, history>>

\* The exception is printed and the callback ends: no one tries again.
StopFails ==
    /\ stop # 0 /\ ~Ended
    /\ stop' = 0
    /\ alone' = FALSE
    /\ UNCHANGED <<cmds, estop, loopVars, ramp, motors, reset, running, idle, driven>>

\* Faulty variant: only clears the latch.
on_reset_LatchOnly ==
    /\ ~Ended
    /\ reset = 0
    /\ estop' = FALSE
    /\ UNCHANGED <<cmds, loopVars, ramp, motors, calls, history>>

\* Faulty variant: keeps the latch.
on_reset_Latched ==
    /\ ~Ended
    /\ reset = 0
    /\ reset' = 1
    /\ alone' = (Open /\ stop = 0)
    /\ UNCHANGED <<cmds, estop, loopVars, ramp, motors, stop, running, idle, driven>>

on_reset ==
    /\ ~Ended
    /\ reset = 0
    /\ estop' = FALSE
    /\ reset' = 1
    /\ alone' = (Open /\ stop = 0)
    /\ UNCHANGED <<cmds, loopVars, ramp, motors, stop, running, idle, driven>>

\* Faulty variant: the ramp survives.
ClearRamp_Keeps ==
    /\ reset = 1 /\ ~Ended
    /\ driven' = FALSE
    /\ reset' = 2
    /\ UNCHANGED <<cmds, estop, loopVars, ramp, motors, stop, running, idle, alone>>

ClearRamp ==
    /\ reset = 1 /\ ~Ended
    /\ smoothed' = [w \in Wheels |-> 0]
    /\ driven' = FALSE
    /\ reset' = 2
    /\ UNCHANGED <<cmds, estop, loopVars, lastTick, motors, stop, running, idle, alone>>

\* enable_all(), motor by motor.  Enabling a motor that already obeys changes
\* nothing about it.
ResetMotor ==
    /\ reset > 1 /\ ~Ended
    /\ IF reset - 1 \in enabled THEN UNCHANGED motors ELSE Power(reset - 1, TRUE)
    /\ reset' = Next1(reset, N + 1)
    /\ UNCHANGED <<cmds, estop, loopVars, ramp, stop, history>>

ResetFails ==
    /\ reset > 1 /\ ~Ended
    /\ reset' = 0
    /\ alone' = FALSE
    /\ UNCHANGED <<cmds, estop, loopVars, ramp, motors, stop, running, idle, driven>>

Callback ==
    \/ \E p \in Payloads : on_base(p)
    \/ \E held \in BOOLEAN : on_deadman(held)
    \/ on_stop \/ StopMotor \/ StopFails
    \/ on_reset \/ ClearRamp \/ ResetMotor \/ ResetFails

-----------------------------------------------------------------------------
(* The control loop.                                                       *)

\* Faulty variant: a held deadman never goes stale.
deadman_ok_Held == deadman

\* The agent's view of freshness, by the wall clock.
fresh_cmd  == baseAge - skew.base < Timeout
deadman_ok == deadman /\ deadAge - skew.dead < Timeout
moving     == deadman_ok /\ fresh_cmd /\ ~estop /\ base # "none"

\* What it means to be true, by the clock of the world: within a time that a
\* message counts for, there was one that holds the deadman and one that drives.
AuthorisedWithin(time) ==
    /\ deadman /\ deadAge < time
    /\ base = "drive" /\ baseAge < time
    /\ ~estop

Authorised == AuthorisedWithin(Timeout)

\* The inputs of a pass are read under the lock.  A command that is no JSON
\* object raises when it is used, and the loop ends.
Snapshot ==
    /\ pc = "top"
    /\ wheel' = 1
    /\ goal' = IF moving /\ base = "drive" THEN Full ELSE 0
    /\ pc' = IF moving /\ base = "bad" THEN "lastDrive" ELSE "drive"
    /\ idle' = IF AuthorisedWithin(Timeout + ClockStep) THEN 0 ELSE idle
    /\ UNCHANGED <<cmds, estop, frame, frozen, ramp, motors, calls, running, driven, alone>>

\* The head of _drive reads the clock again.  If it was set back since the last
\* pass did, dt is clamped to next to nothing; before the first pass there is
\* nothing to compare with.
DriveTick ==
    /\ pc \in {"drive", "lastDrive"}
    /\ frozen' = (lastTick = "future")
    /\ lastTick' = "past"
    /\ pc' = IF pc = "drive" THEN "ramp" ELSE "lastRamp"
    /\ UNCHANGED <<cmds, estop, wheel, goal, frame, smoothed, motors, calls, history>>

\* One pass of the ramp from a level towards a goal: up by some levels, down by
\* one, or not at all in a pass of no length.
Ramp(s, g) ==
    IF frozen THEN {s}
    ELSE IF s < g THEN (s + 1) .. g
    ELSE IF s > g THEN {s - 1} ELSE {s}

\* _drive: the wheels in turn, each ramped ...
RampWheel ==
    /\ pc \in {"ramp", "lastRamp"}
    /\ \E s \in Ramp(smoothed[wheel], goal) : smoothed' = [smoothed EXCEPT ![wheel] = s]
    /\ pc' = IF pc = "ramp" THEN "call" ELSE "lastCall"
    /\ driven' = (driven \/ goal > 0)
    /\ UNCHANGED <<cmds, estop, wheel, goal, frame, frozen, lastTick, motors, calls, running,
                   idle, alone>>

\* ... passed, as it now is, to control_mit ...
CallWheel ==
    /\ pc \in {"call", "lastCall"}
    /\ frame' = smoothed[wheel]
    /\ pc' = IF pc = "call" THEN "send" ELSE "lastSend"
    /\ UNCHANGED <<cmds, estop, wheel, goal, frozen, ramp, motors, calls, history>>

\* ... and sent.  A disabled motor ignores the frame; an exception of the adapter
\* is caught, and the motor keeps to the frame before.
SendWheel ==
    /\ pc \in {"send", "lastSend"}
    /\ \/ /\ wheel \in enabled
          /\ speed' = [speed EXCEPT ![wheel] = frame]
          /\ lost' = lost \ {wheel}
       \/ /\ lost' = lost \cup ({wheel} \cap enabled)
          /\ UNCHANGED speed
    /\ frame' = 0
    /\ IF wheel < N
       THEN /\ wheel' = wheel + 1
            /\ pc' = IF pc = "send" THEN "ramp" ELSE "lastRamp"
       ELSE /\ wheel' = 1
            /\ pc' = IF pc = "send" THEN "sleep" ELSE "close"
    /\ UNCHANGED <<cmds, estop, goal, frozen, ramp, enabled, calls, history>>

Older(age) == IF age < AgeCap THEN age + 1 ELSE age

\* time.sleep(CONTROL_PERIOD).
Sleep ==
    /\ pc = "sleep"
    /\ pc' = "top"
    /\ baseAge' = Older(baseAge)
    /\ deadAge' = Older(deadAge)
    /\ idle' = IF idle < IdleCap /\ ~frozen THEN idle + 1 ELSE idle
    /\ frozen' = FALSE
    /\ UNCHANGED <<base, deadman, skew, estop, wheel, goal, frame, ramp, motors, calls,
                   running, driven, alone>>

\* The clock is set back, once between two messages of either kind.
ClockBack ==
    /\ ClockStep > 0 /\ Open
    /\ skew = [base |-> 0, dead |-> 0]
    /\ skew' = [base |-> ClockStep, dead |-> ClockStep]
    /\ lastTick' = IF lastTick = "none" THEN "none" ELSE "future"
    /\ UNCHANGED <<base, deadman, baseAge, deadAge, estop, loopVars, smoothed, motors,
                   calls, history>>

\* SIGINT.  Importing damiao replaces Python's handler by one that clears an
\* event, so main()'s `except KeyboardInterrupt` is not reached by it.
signal_handler ==
    /\ Sigint /\ ~Ended
    /\ running' = FALSE
    /\ UNCHANGED <<cmds, estop, loopVars, ramp, motors, calls, idle, driven, alone>>

\* stop_running() of start_robot.sh: SIGKILL, when a SIGINT has not ended the
\* process.
Kill ==
    /\ ~running /\ ~Ended
    /\ pc' = "killed"
    /\ UNCHANGED <<cmds, estop, wheel, goal, frame, frozen, ramp, motors, calls, history>>

\* Leaving `with zenoh.open(...)`, which does not wait for the callbacks.
CloseSession ==
    /\ pc = "close"
    /\ pc' = "disable"
    /\ alone' = (reset = 0)
    /\ UNCHANGED <<cmds, estop, wheel, goal, frame, frozen, ramp, motors, calls, running,
                   idle, driven>>

\* Faulty variant: the last motor is forgotten.
ExitMotor_OneLess ==
    /\ pc = "disable"
    /\ Power(wheel, FALSE)
    /\ wheel' = IF wheel + 1 >= N THEN wheel ELSE wheel + 1
    /\ pc' = IF wheel + 1 >= N THEN "exited" ELSE pc
    /\ UNCHANGED <<cmds, estop, goal, frame, frozen, ramp, calls, history>>

\* disable_all(), then os._exit().
ExitMotor ==
    /\ pc = "disable"
    /\ Power(wheel, FALSE)
    /\ wheel' = IF wheel = N THEN wheel ELSE wheel + 1
    /\ pc' = IF wheel = N THEN "exited" ELSE pc
    /\ UNCHANGED <<cmds, estop, goal, frame, frozen, ramp, calls, history>>

ExitFails ==
    /\ pc = "disable"
    /\ pc' = "exited"
    /\ alone' = FALSE
    /\ UNCHANGED <<cmds, estop, wheel, goal, frame, frozen, ramp, motors, calls, running,
                   idle, driven>>

Main == Snapshot \/ DriveTick \/ RampWheel \/ CallWheel \/ SendWheel \/ Sleep \/ CloseSession
            \/ ExitMotor \/ ExitFails

Next == Callback \/ Main \/ ClockBack \/ signal_handler \/ Kill

\* The main thread runs, and so does a callback that has begun.
Fairness ==
    /\ WF_vars(Main)
    /\ WF_vars(StopMotor)
    /\ WF_vars(ClearRamp \/ ResetMotor)

Spec == Init /\ [][Next]_vars

FairSpec == Spec /\ Fairness

-----------------------------------------------------------------------------
(* Properties.                                                             *)

Looping == pc \in {"top", "drive", "ramp", "call", "send", "sleep"}

\* Every variable stays within its type.
TypeOK ==
    /\ base \in {"none", "rest", "drive", "bad"}
    /\ deadman \in BOOLEAN /\ estop \in BOOLEAN
    /\ baseAge \in 0 .. AgeCap /\ deadAge \in 0 .. AgeCap
    /\ skew \in [base : {0, ClockStep}, dead : {0, ClockStep}]
    /\ pc \in {"top", "drive", "ramp", "call", "send", "sleep", "lastDrive", "lastRamp",
               "lastCall", "lastSend", "close", "disable", "exited", "killed"}
    /\ wheel \in Wheels /\ goal \in {0, Full} /\ frame \in Speeds /\ frozen \in BOOLEAN
    /\ smoothed \in [Wheels -> Speeds] /\ lastTick \in {"none", "past", "future"}
    /\ enabled \subseteq Wheels /\ speed \in [Wheels -> Speeds] /\ lost \subseteq Wheels
    /\ stop \in 0 .. N /\ reset \in 0 .. N + 1
    /\ running \in BOOLEAN /\ idle \in 0 .. IdleCap
    /\ driven \in BOOLEAN /\ alone \in BOOLEAN

\* The watchdog (docstring: "the robot must stop whenever it loses fresh,
\* deadman-authorized commands"): whatever the callbacks do between the read of
\* the inputs and the frames to the wheels, a robot that nothing has authorised
\* to move for the length of the ramp is commanded to stand still, but for a wheel
\* whose latest frame was lost.  A clock that is set back makes a message count
\* for longer by that step, and the ramp last one pass longer, and no more.
Halts == idle > Full => \A w \in Wheels \ lost : speed[w] = 0

\* The latch and the motors agree after every stop and every reset that met no
\* fault and did not cross with one of the other kind: the stop has disabled
\* every motor, the reset has enabled every one, whatever state an earlier
\* crossing or fault has left them in.
LatchMatchesMotors ==
    Open /\ alone /\ stop = 0 /\ reset = 0 => enabled = IF estop THEN {} ELSE Wheels

\* A process that ends by itself (lines 337-349) leaves no motor enabled, unless a
\* frame of its shutdown raised or a reset was at work beside it.
ExitDisables == pc = "exited" /\ alone => enabled = {}

\* "no stale ramp state" (line 255): after a reset the wheels start from rest,
\* even if the loop was in the middle of a pass when the ramp was cleared.
ResetClearsRamp == ~driven /\ reset = 0 => \A w \in Wheels : smoothed[w] = 0

\* The latest reset was handled by itself, frames arrive, and the clock goes on.
Undisturbed == alone /\ lost = {} /\ lastTick = "past"

\* A command that stays authorised drives the wheels, also after a stop and a
\* reset: on_reset "clears the E-stop latch and re-enables the motors" (line 249).
\* The docstring (line 36) and what on_stop prints (line 245) say that only a
\* restart does.
Rearms ==
    <>[](Authorised /\ Looping /\ reset = 0 /\ Undisturbed)
        => <>[](\A w \in Wheels : speed[w] = Full)

\* scripts/start_robot.sh, lines 195-197: the motors are disabled by the
\* "KeyboardInterrupt handler, which Python raises for SIGINT".  A process that got
\* one and is not killed ends, and leaves no motor enabled.
SigintDisables == ~running ~> pc = "killed" \/ (pc = "exited" /\ enabled = {})

-----------------------------------------------------------------------------
(* The agent implements the emergency stop.                                *)

Mode ==
    CASE pc = "disable" -> "closing"
      [] pc = "exited"  -> "down"
      [] pc = "killed"  -> "killed"
      [] OTHER          -> "up"

Turning == {w \in Wheels : speed[w] # 0}

Emergency == INSTANCE EmergencyStop WITH
    Motors    <- Wheels,
    mode      <- Mode,
    latched   <- estop,
    cutting   <- stop # 0,
    restoring <- reset # 0,
    sound     <- alone,
    powered   <- enabled,
    turning   <- Turning

\* Every behaviour of the agent is one that the emergency stop allows: the latch,
\* the motors and the frames of the loop stay in order while stops, resets, faults,
\* the loop and its end are interleaved.
ImplementsEmergencyStop == Emergency!Spec

=============================================================================
