---------------------------- MODULE MastFirmware ----------------------------
(***************************************************************************)
(* The mast controller, firmware/mast/src/main.cpp: a stepper carriage on  *)
(* a vertical screw with an electromagnetic brake and two endstops, driven *)
(* by text commands on a serial line.                                      *)
(*                                                                         *)
(* The build modelled is the one the file configures,                      *)
(* ENCODER_SUPERVISION 0 (line 151): supEnabled is FALSE and never         *)
(* written, so superviseStall and resyncOnEncoder do nothing, positionMm   *)
(* is stepMm, a movement ends in finishMove, and ST_CORRECT is never       *)
(* entered.                                                                *)
(*                                                                         *)
(* Units.  Distances are motor steps (millimetres and steps are the same   *)
(* here: their ratio is a constant of the machine).  One tick is one pass  *)
(* of loop(), and every duration counts passes.  The passes of the real    *)
(* loop between two ticks, in which no timer expires and no pulse is due,  *)
(* change nothing.  Whether micros() has reached nextStepDue is a free     *)
(* choice of each pass, which covers every speed profile.                  *)
(*                                                                         *)
(* Data that is written again before it is next read is 0 or "none" while  *)
(* it is dead: pendTarget outside ST_PRE, left outside a movement, hp,     *)
(* safety and toMax outside ST_HOMING, since in the states that time       *)
(* nothing.                                                                *)
(***************************************************************************)
EXTENDS Integers

CONSTANTS
    Travel,         \* the distance between the points where the endstops close
    Margin,         \* how far past an endstop the mechanical stop is
    Starts,         \* where the carriage may be at power-up
    MinSwitch,      \* the low endstop: "ok", "closed" or "open" (stuck)
    MaxSwitch,      \* the high endstop, likewise
    Commands,       \* the commands that arrive, by their keyword
    Targets,        \* the positions that POS: asks for
    Backoff,        \* BACKOFF_STEPS
    HomingMax,      \* HOMING_MAX_STEPS
    StepCap,        \* bound: H is not asked for with a step count beyond it
    PosTol,         \* POS_TOL_MM
    RelayTicks,     \* DELAI_RELAIS_MS
    VelTicks,       \* VEL_TIMEOUT_MS
    FdcTicks,       \* FDC_TEST_MS
    AssertTicks,    \* DEBOUNCE_ASSERT_MS
    ReleaseTicks    \* DEBOUNCE_RELEASE_MS

Keywords == {"STOP", "BRAKE", "POS", "VEL", "JOG", "H", "FDC"}
SwitchStates == {"ok", "closed", "open"}

ASSUME Parameters ==
    /\ {Travel, Margin, Backoff, HomingMax, PosTol} \subseteq Nat \ {0}
    /\ StepCap \in Nat
    /\ {RelayTicks, VelTicks, FdcTicks, AssertTicks, ReleaseTicks} \subseteq Nat
    /\ Starts \subseteq 0 .. Travel
    /\ Targets \subseteq Int
    /\ Commands \subseteq Keywords
    /\ {MinSwitch, MaxSwitch} \subseteq SwitchStates

VARIABLES
    state,          \* ST_IDLE ... ST_FDC
    pending,        \* what ST_PRE leads to
    since,          \* passes since preStart, postStart, fdcStart or velLastCmdMs
    pendTarget,     \* the target of a pending POS:
    dir,            \* pendJogDir, pendVelDir, jogDir, velDir or mv.dir
    left,           \* mv.total - mv.done, or homBackoffLeft
    hp,             \* the homing phase
    safety,         \* homSafety
    toMax,          \* homStepsToMax
    isHomed, course, stepCount,
    brakeReleased, manualBrake,
    esMin, esMax,   \* the debounced endstops
    pos,            \* where the carriage really is
    silence         \* history: passes since the last moving VEL: of this VEL run

job  == <<pendTarget, dir, left>>
home == <<hp, safety, toMax>>
ref  == <<isHomed, course, stepCount>>
brk  == <<brakeReleased, manualBrake>>
es   == <<esMin, esMax>>
vars == <<state, pending, since, job, home, ref, brk, es, pos, silence>>

UP   == 1
DOWN == -1

States      == {"idle", "pre", "move", "jog", "vel", "homing", "post", "fdc"}
Moving      == {"move", "jog", "vel", "homing"}
Pendings    == {"none", "move", "jog", "vel", "homing"}
HomingPhase == {"none", "seekMin", "backoff1", "seekMax", "returnMin", "backoff2"}

VelOn == state = "vel" \/ (state = "pre" /\ pending = "vel")

\* The longest time the mast may run on one VEL: command: the passes of ST_PRE,
\* of ages 0 to RelayTicks, and those of ST_VEL, of ages 0 to VelTicks.
SilenceBound == (RelayTicks + 1) + (VelTicks + 1)

-----------------------------------------------------------------------------
(* Endstops.                                                               *)

\* A switch bounces while the carriage is at the point where it closes.
Contact(switch, past) ==
    CASE switch = "closed" -> {TRUE}
      [] switch = "open"   -> {FALSE}
      [] OTHER             -> IF past > 0 THEN {TRUE}
                              ELSE IF past = 0 THEN BOOLEAN ELSE {FALSE}

\* pend is 0 when no change is pending, else the passes since it was first seen.
updateEndstop(e, raw) ==
    IF raw = e.active THEN [e EXCEPT !.pend = 0]
    ELSE IF e.pend > 0 /\ e.pend >= (IF raw THEN AssertTicks ELSE ReleaseTicks)
         THEN [active |-> raw, pend |-> 0]
         ELSE [e EXCEPT !.pend = @ + 1]

UpdateEndstops ==
    /\ \E raw \in Contact(MinSwitch, -pos) : esMin' = updateEndstop(esMin, raw)
    /\ \E raw \in Contact(MaxSwitch, pos - Travel) : esMax' = updateEndstop(esMax, raw)

\* Faulty variant: the movement sees the endstops of the pass before.
Hit_OnePassLate(d) == IF d = UP THEN esMax.active ELSE esMin.active

\* The endstop ahead of a movement, as this pass has just read it.
Hit(d) == IF d = UP THEN esMax'.active ELSE esMin'.active

BootSwitch == [active |-> FALSE, pend |-> 0]

\* setup() reads both endstops once.
Boot(p) ==
    /\ \E raw \in Contact(MinSwitch, -p) : esMin' = updateEndstop(BootSwitch, raw)
    /\ \E raw \in Contact(MaxSwitch, p - Travel) : esMax' = updateEndstop(BootSwitch, raw)

Init ==
    /\ state = "idle" /\ pending = "none" /\ since = 0
    /\ pendTarget = 0 /\ dir = UP /\ left = 0
    /\ hp = "none" /\ safety = 0 /\ toMax = 0
    /\ isHomed = FALSE /\ course = 0 /\ stepCount = 0
    /\ brakeReleased = FALSE /\ manualBrake = FALSE
    /\ pos \in Starts
    /\ \E raw \in Contact(MinSwitch, -pos) : esMin = updateEndstop(BootSwitch, raw)
    /\ \E raw \in Contact(MaxSwitch, pos - Travel) : esMax = updateEndstop(BootSwitch, raw)
    /\ silence = 0

-----------------------------------------------------------------------------
(* What the handlers share.                                                *)

\* One STEP pulse.  The carriage follows unless it is against a mechanical stop.
doPulse(d) ==
    /\ stepCount' = stepCount + d
    /\ pos' = IF pos + d \in -Margin .. Travel + Margin THEN pos + d ELSE pos

\* Entering a state: the data of the job before it is dead.
Enter(s) ==
    /\ state' = s
    /\ pending' = "none"
    /\ since' = 0
    /\ pendTarget' = 0

Forget == left' = 0 /\ hp' = "none" /\ safety' = 0 /\ toMax' = 0

enterPost == Enter("post") /\ Forget

\* Faulty variant: a manual release outlives the start of a movement.
startPre_KeepsManual(p) ==
    /\ UNCHANGED manualBrake
    /\ pending' = p
    /\ brakeReleased' = TRUE
    /\ since' = 0
    /\ state' = "pre"

startPre(p) ==
    /\ manualBrake' = FALSE
    /\ pending' = p
    /\ brakeReleased' = TRUE
    /\ since' = 0
    /\ state' = "pre"

emergencyStop ==
    /\ Enter("idle") /\ Forget
    /\ manualBrake' = FALSE
    /\ brakeReleased' = FALSE
    /\ UNCHANGED <<dir, ref, es, pos, silence>>

\* Faulty variant: no upper bound.
constrain_LowOnly(t) == IF t < 0 THEN 0 ELSE t

\* Arduino's constrain(target, 0.0, courseMm), its comparisons in their order.
constrain(t) == IF t < 0 THEN 0 ELSE IF t > course THEN course ELSE t

planMove(t) ==
    LET delta == constrain(t) - stepCount
        dist  == IF delta < 0 THEN -delta ELSE delta
    IN  IF dist < PosTol
        THEN enterPost /\ UNCHANGED dir
        ELSE /\ Enter("move")
             /\ dir' = IF delta > 0 THEN UP ELSE DOWN
             /\ left' = dist
             /\ UNCHANGED home

\* Faulty variants: the other end's position; and the movement not ended.
fdcAbort_OtherEnd(d) ==
    /\ enterPost
    /\ stepCount' = IF ~isHomed THEN stepCount ELSE IF d = UP THEN 0 ELSE course
    /\ UNCHANGED <<dir, isHomed, course, brk, pos>>

fdcAbort_KeepsState(d) ==
    UNCHANGED <<state, pending, since, job, home, ref, brk, pos>>

\* An endstop ends a movement: without a verified encoder, a homed mast takes
\* its position from the endstop it met.
fdcAbort(d) ==
    /\ enterPost
    /\ stepCount' = IF ~isHomed THEN stepCount ELSE IF d = UP THEN course ELSE 0
    /\ UNCHANGED <<dir, isHomed, course, brk, pos>>

-----------------------------------------------------------------------------
(* Commands, handled by pollSerial() at the start of a pass.  A refused    *)
(* command prints a message and changes nothing: it is a stuttering step.  *)

CmdStop == "STOP" \in Commands /\ emergencyStop

\* Whether cmdBrake takes the mast to be moving: ST_PRE and ST_POST count.
Busy == state \notin {"idle", "fdc"}

BrakeRelease ==
    /\ ~Busy
    /\ manualBrake' = TRUE
    /\ brakeReleased' = TRUE
    /\ UNCHANGED <<state, pending, since, job, home, ref, es, pos, silence>>

BrakeClamp ==
    /\ ~Busy
    /\ manualBrake' = FALSE
    /\ brakeReleased' = FALSE
    /\ UNCHANGED <<state, pending, since, job, home, ref, es, pos, silence>>

CmdBrake ==
    /\ "BRAKE" \in Commands
    /\ \/ BrakeRelease
       \/ BrakeClamp
       \/ Busy /\ emergencyStop

PosStart(t) ==
    /\ state = "idle"
    /\ startPre("move")
    /\ pendTarget' = t
    /\ UNCHANGED <<dir, left, home>>

PosRetarget(t) ==
    /\ state = "pre" /\ pending = "move"
    /\ pendTarget' = t
    /\ UNCHANGED <<state, pending, since, dir, left, home, brk>>

PosInFlight(t) ==
    /\ state = "move"
    /\ planMove(t)
    /\ UNCHANGED brk

CmdPos(t) ==
    /\ "POS" \in Commands
    /\ isHomed
    /\ PosStart(t) \/ PosRetarget(t) \/ PosInFlight(t)
    /\ UNCHANGED <<ref, es, pos, silence>>

JogStart(d) ==
    /\ state = "idle"
    /\ startPre("jog")
    /\ dir' = d

JogReverse(d) ==
    /\ state = "jog"
    /\ dir' = d
    /\ UNCHANGED <<state, pending, since, brk>>

CmdJog(d) ==
    /\ "JOG" \in Commands
    /\ JogStart(d) \/ JogReverse(d)
    /\ UNCHANGED <<pendTarget, left, home, ref, es, pos, silence>>

\* UP_STOP and DOWN_STOP alike.
CmdJogStop ==
    /\ "JOG" \in Commands
    /\ state = "jog" \/ (state = "pre" /\ pending = "jog")
    /\ enterPost
    /\ UNCHANGED <<dir, ref, brk, es, pos, silence>>

CmdHoming ==
    /\ "H" \in Commands
    /\ state = "idle"
    /\ stepCount \in -StepCap .. StepCap
    /\ startPre("homing")
    /\ UNCHANGED <<job, home, ref, es, pos, silence>>

\* A mast already in an endstop refuses a VEL: that leads further into it.
Blocked(d) == IF d = UP THEN esMax.active ELSE esMin.active

VelStart(d) ==
    /\ state = "idle"
    /\ ~Blocked(d)
    /\ startPre("vel")

\* While the brake is opening velLastCmdMs is refreshed too, but ST_PRE times
\* itself by preStart and refreshes it again on its way out.
VelUpdate ==
    /\ VelOn
    /\ since' = IF state = "vel" THEN 0 ELSE since
    /\ UNCHANGED <<state, pending, brk>>

CmdVel(d) ==
    /\ "VEL" \in Commands
    /\ VelStart(d) \/ VelUpdate
    /\ dir' = d
    /\ silence' = 0
    /\ UNCHANGED <<pendTarget, left, home, ref, es, pos>>

\* VEL: under VEL_MIN_MM_S in magnitude.
CmdVelZero ==
    /\ "VEL" \in Commands
    /\ VelOn
    /\ enterPost
    /\ UNCHANGED <<dir, ref, brk, es, pos, silence>>

CmdFdc ==
    /\ "FDC" \in Commands
    /\ state = "idle"
    /\ Enter("fdc")
    /\ UNCHANGED <<dir, left, home, ref, brk, es, pos, silence>>

handleCommand ==
    \/ CmdStop
    \/ CmdBrake
    \/ \E t \in Targets : CmdPos(t)
    \/ \E d \in {UP, DOWN} : CmdJog(d)
    \/ CmdJogStop
    \/ CmdHoming
    \/ \E d \in {UP, DOWN} : CmdVel(d)
    \/ CmdVelZero
    \/ CmdFdc

-----------------------------------------------------------------------------
(* runState(), after the endstops have been read.                          *)

\* A timer that has not expired, or a pulse that is not due.
Keep == UNCHANGED <<state, pending, pendTarget, dir, left, home, ref, brk, pos>>

Idle == state = "idle" /\ Keep /\ UNCHANGED since

PreWait == state = "pre" /\ since < RelayTicks /\ since' = since + 1 /\ Keep

\* Faulty variant: the relay is given no time.
PreExpired_AtOnce(p) == state = "pre" /\ pending = p

PreExpired(p) == state = "pre" /\ since >= RelayTicks /\ pending = p

PreMove ==
    /\ PreExpired("move")
    /\ planMove(pendTarget)
    /\ UNCHANGED <<ref, brk, pos>>

PreGo ==
    /\ PreExpired("jog") \/ PreExpired("vel")
    /\ Enter(pending)
    /\ UNCHANGED <<dir, left, home, ref, brk, pos>>

homingStart ==
    /\ PreExpired("homing")
    /\ Enter("homing")
    /\ isHomed' = FALSE
    /\ course' = 0
    /\ hp' = "seekMin"
    /\ safety' = 0
    /\ UNCHANGED <<dir, left, toMax, stepCount, brk, pos>>

\* In ST_MOVE, ST_JOG and ST_HOMING, and in ST_VEL while the watchdog is quiet.
NotDue ==
    /\ state \in {"move", "jog", "homing"}
    /\ Keep
    /\ UNCHANGED since

\* The endstop ahead is checked before every pulse, whatever asks for it.
Abort(d) == Hit(d) /\ fdcAbort(d)

MoveStep ==
    /\ state = "move"
    /\ \/ Abort(dir)
       \/ /\ ~Hit(dir)
          /\ doPulse(dir)
          /\ IF left <= 1
             THEN enterPost
             ELSE left' = left - 1 /\ UNCHANGED <<state, pending, since, pendTarget, home>>
          /\ UNCHANGED <<dir, isHomed, course, brk>>

JogStep ==
    /\ state = "jog"
    /\ \/ Abort(dir)
       \/ /\ ~Hit(dir)
          /\ doPulse(dir)
          /\ UNCHANGED <<state, pending, since, job, home, isHomed, course, brk>>

VelExpired == state = "vel" /\ since > VelTicks

VelTimeout ==
    /\ VelExpired
    /\ enterPost
    /\ UNCHANGED <<dir, ref, brk, pos>>

VelNotDue ==
    /\ state = "vel" /\ ~VelExpired
    /\ since' = since + 1
    /\ Keep

\* Faulty variant: a pulse refreshes the watchdog.
VelStep_Refreshes ==
    /\ state = "vel" /\ ~VelExpired
    /\ \/ Abort(dir)
       \/ /\ ~Hit(dir)
          /\ doPulse(dir)
          /\ since' = 0
          /\ UNCHANGED <<state, pending, job, home, isHomed, course, brk>>

VelStep ==
    /\ state = "vel" /\ ~VelExpired
    /\ \/ Abort(dir)
       \/ /\ ~Hit(dir)
          /\ doPulse(dir)
          /\ since' = since + 1
          /\ UNCHANGED <<state, pending, job, home, isHomed, course, brk>>

\* Faulty variants: one pulse too many; the limit taken for the contact; no limit.
Seek_OneMore(phase, d, counter) ==
    /\ hp = phase
    /\ ~Hit(d)
    /\ doPulse(d)
    /\ IF safety > HomingMax
       THEN enterPost /\ isHomed' = FALSE
       ELSE /\ safety' = safety + 1
            /\ toMax' = counter
            /\ UNCHANGED <<state, pending, since, pendTarget, left, hp, isHomed>>
    /\ UNCHANGED <<dir, course, brk>>

Seek_LimitIsContact(phase, d, counter) ==
    /\ hp = phase
    /\ ~Hit(d)
    /\ doPulse(d)
    /\ toMax' = counter
    /\ IF safety + 1 > HomingMax
       THEN hp' = "returnMin" /\ safety' = 0
       ELSE safety' = safety + 1 /\ UNCHANGED hp
    /\ UNCHANGED <<state, pending, since, pendTarget, left, isHomed, dir, course, brk>>

Seek_NoLimit(phase, d, counter) ==
    /\ hp = phase
    /\ ~Hit(d)
    /\ pos' = IF pos + d \in -Margin .. Travel + Margin THEN pos + d ELSE pos
    /\ UNCHANGED <<state, pending, since, job, home, ref, brk>>

\* A seek pulses until its endstop closes, then the next phase begins; it fails
\* after HomingMax pulses.
Seek(phase, d, counter) ==
    /\ hp = phase
    /\ ~Hit(d)
    /\ doPulse(d)
    /\ IF safety + 1 > HomingMax
       THEN enterPost /\ isHomed' = FALSE
       ELSE /\ safety' = safety + 1
            /\ toMax' = counter
            /\ UNCHANGED <<state, pending, since, pendTarget, left, hp, isHomed>>
    /\ UNCHANGED <<dir, course, brk>>

Found(phase, d, next, back) ==
    /\ hp = phase
    /\ Hit(d)
    /\ hp' = next
    /\ left' = back
    /\ safety' = 0
    /\ UNCHANGED <<state, pending, since, pendTarget, dir, toMax, ref, brk, pos>>

\* Moving off the low endstop: no endstop is looked at.
BackoffPulse(phase) ==
    /\ hp = phase
    /\ left > 1
    /\ doPulse(UP)
    /\ left' = left - 1
    /\ UNCHANGED <<state, pending, since, pendTarget, dir, home, isHomed, course, brk>>

BackoffOneDone ==
    /\ hp = "backoff1"
    /\ left <= 1
    /\ doPulse(UP)
    /\ hp' = "seekMax"
    /\ left' = 0 /\ safety' = 0 /\ toMax' = 0
    /\ UNCHANGED <<state, pending, since, pendTarget, dir, isHomed, course, brk>>

\* Faulty variants: the first backoff not deducted; homing not ended.
homingDone_WholeCourse ==
    /\ hp = "backoff2"
    /\ left <= 1
    /\ pos' = IF pos + UP <= Travel + Margin THEN pos + UP ELSE pos
    /\ course' = toMax
    /\ stepCount' = 0
    /\ isHomed' = TRUE
    /\ enterPost
    /\ UNCHANGED <<dir, brk>>

homingDone_KeepsState ==
    /\ hp = "backoff2"
    /\ left <= 1
    /\ pos' = IF pos + UP <= Travel + Margin THEN pos + UP ELSE pos
    /\ course' = toMax - Backoff
    /\ stepCount' = 0
    /\ isHomed' = TRUE
    /\ UNCHANGED <<state, pending, since, job, home, brk>>

\* The last pulse of the last backoff is where the machine zero is.
homingDone ==
    /\ hp = "backoff2"
    /\ left <= 1
    /\ pos' = IF pos + UP <= Travel + Margin THEN pos + UP ELSE pos
    /\ course' = toMax - Backoff
    /\ stepCount' = 0
    /\ isHomed' = TRUE
    /\ enterPost
    /\ UNCHANGED <<dir, brk>>

homingTick ==
    /\ state = "homing"
    /\ \/ Found("seekMin", DOWN, "backoff1", Backoff)
       \/ Seek("seekMin", DOWN, toMax)
       \/ BackoffPulse("backoff1")
       \/ BackoffOneDone
       \/ Found("seekMax", UP, "returnMin", 0)
       \/ Seek("seekMax", UP, toMax + 1)
       \/ Found("returnMin", DOWN, "backoff2", Backoff)
       \/ Seek("returnMin", DOWN, toMax)
       \/ BackoffPulse("backoff2")
       \/ homingDone

PostWait == state = "post" /\ since < RelayTicks /\ since' = since + 1 /\ Keep

PostEnd ==
    /\ state = "post" /\ since >= RelayTicks
    /\ brakeReleased' = IF manualBrake THEN brakeReleased ELSE FALSE
    /\ Enter("idle")
    /\ UNCHANGED <<dir, left, home, ref, manualBrake, pos>>

FdcWait == state = "fdc" /\ since < FdcTicks /\ since' = since + 1 /\ Keep

FdcEnd ==
    /\ state = "fdc" /\ since >= FdcTicks
    /\ Enter("idle")
    /\ UNCHANGED <<dir, left, home, ref, brk, pos>>

Pulse == MoveStep \/ JogStep \/ VelStep \/ homingTick

Timer == PreWait \/ PreMove \/ PreGo \/ homingStart \/ VelTimeout \/ VelNotDue
            \/ PostWait \/ PostEnd \/ FdcWait \/ FdcEnd

\* silence is counted up to the first value past its bound.
Tick ==
    silence' = IF ~VelOn' THEN 0
               ELSE IF silence > SilenceBound THEN silence ELSE silence + 1

\* One pass of loop(), its commands apart.
Pass(run) == UpdateEndstops /\ run /\ Tick

loop == Pass(Pulse) \/ Pass(Timer) \/ Pass(Idle \/ NotDue)

\* The Arduino resets: at power-up, and whenever the serial port is opened.
Reset ==
    /\ Enter("idle") /\ Forget
    /\ dir' = UP
    /\ isHomed' = FALSE /\ course' = 0 /\ stepCount' = 0
    /\ brakeReleased' = FALSE /\ manualBrake' = FALSE
    /\ silence' = 0
    /\ Boot(pos)
    /\ UNCHANGED pos

Next == handleCommand \/ loop \/ Reset

\* loop() runs for ever: timers expire, and a pulse that is waited for comes due.
Fairness ==
    /\ WF_vars(Pass(Timer))
    /\ WF_vars(Pass(Pulse))

Spec == Init /\ [][Next]_vars

FairSpec == Spec /\ Fairness

-----------------------------------------------------------------------------
(* Properties.                                                             *)

EndstopType == [active : BOOLEAN, pend : Nat]

\* Every variable stays within its type, whatever the commands.
TypeOK ==
    /\ state \in States
    /\ pending \in Pendings
    /\ since \in Nat
    /\ pendTarget \in Int
    /\ dir \in {UP, DOWN}
    /\ left \in Nat
    /\ hp \in HomingPhase
    /\ safety \in 0 .. HomingMax
    /\ toMax \in Nat
    /\ isHomed \in BOOLEAN
    /\ course \in Int
    /\ stepCount \in Int
    /\ brakeReleased \in BOOLEAN
    /\ manualBrake \in BOOLEAN
    /\ esMin \in EndstopType
    /\ esMax \in EndstopType
    /\ pos \in -Margin .. Travel + Margin
    /\ silence \in 0 .. SilenceBound + 1

\* The brake is open exactly while a movement is prepared, under way or being
\* wound down, or by hand: no sequence of commands, stops and endstop contacts
\* leaves the carriage unbraked at rest or driven against a closed brake.
BrakeDiscipline ==
    /\ brakeReleased <=> (Busy \/ manualBrake)
    /\ manualBrake => ~Busy

\* The dead-man of VEL: (lines 935-943): however commands and the opening of
\* the brake interleave, the mast does not stay in velocity mode longer than
\* one relay delay and one watchdog window after the last VEL: that moves it.
VelWatchdog == VelOn => silence <= SilenceBound

\* The debounce lets the carriage past a working endstop by a bounded number of
\* pulses, and no sequence of stops, reversals, new movements and resets makes
\* it creep further.
Overrun == AssertTicks + 1

NoOverrun == pos \in -Overrun .. Travel + Overrun

Abs(n) == IF n < 0 THEN -n ELSE n

\* A homed mast with working endstops knows where it is: from homing on, through
\* movements, retargets, jogs, stops and endstop contacts in any order, the step
\* count (zero at Backoff above the low endstop) stays within a backoff, an
\* overrun and a release window of the real position.  This is
\* what fdcAbort's "recale approximativement" (lines 473-476) amounts to.
PosError == Abs(pos - (Backoff + stepCount))

PosErrorBounded == isHomed => PosError <= Backoff + Overrun + ReleaseTicks

\* Homing measures the real course, or ends without a reference: an overrun too
\* much at each end, or less by what the carriage was off the low endstop when a
\* homing began that still took it for closed (DEBOUNCE_RELEASE_MS is longer than
\* the relay's time).
HomedCourse ==
    isHomed => course + 2 * Backoff \in Travel - ReleaseTicks .. Travel + 2 * Overrun

\* README section 4.3, "borné [0, course]": whatever POS: asked for, at rest, while
\* the brake opens or in flight, the movement under way ends within the measured
\* course.
MoveInCourse ==
    state = "move" => stepCount + dir * left \in 0 .. course

\* Once commands and resets cease, the mast comes to rest with its brake
\* clamped, or released by hand: every movement, homing and test ends.
Quiet == <>[][loop]_vars

Settles == Quiet => <>[](state = "idle" /\ (brakeReleased => manualBrake))

\* A homing that cannot find an endstop fails (homingFail): a mast with a stuck
\* open switch never takes a position for a reference.
OpenSwitchNoReference == "open" \in {MinSwitch, MaxSwitch} => ~isHomed

-----------------------------------------------------------------------------
(* The firmware implements the brake interlock.                            *)

Phase ==
    CASE state = "pre"     -> "releasing"
      [] state \in Moving  -> "driving"
      [] state = "post"    -> "settling"
      [] OTHER             -> "stopped"

Interlock == INSTANCE BrakeInterlock WITH
    phase    <- Phase,
    wait     <- IF state \in {"pre", "post"} THEN since ELSE 0,
    released <- brakeReleased,
    manual   <- manualBrake,
    load     <- pos

\* Every behaviour of the firmware is one the interlock allows.
ImplementsInterlock == Interlock!Spec

-----------------------------------------------------------------------------
(* The inductive invariant behind the safety properties.                   *)

\* Each timer stops at its limit.
Clocks ==
    /\ state \in {"pre", "post"} => since <= RelayTicks
    /\ state = "vel" => since <= VelTicks + 1

\* What a job needs is there while the job is, and only then.
Jobs ==
    /\ pending # "none" <=> state = "pre"
    /\ hp # "none" <=> state = "homing"

\* The silence of a velocity run, measured against the clocks that end it.
Silences ==
    /\ state = "pre" /\ pending = "vel" => silence <= since
    /\ state = "vel" => silence <= RelayTicks + 1 + since

\* Together with the types and the brake discipline these are preserved by
\* every handler and every pass; VelWatchdog and the interlock follow.
IInv == TypeOK /\ BrakeDiscipline /\ Clocks /\ Jobs /\ Silences

=============================================================================
