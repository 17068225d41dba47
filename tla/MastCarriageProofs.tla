-------------------------- MODULE MastCarriageProofs --------------------------
(***************************************************************************)
(* What the endstops of the mast are good for, for every course, every     *)
(* debounce and every set of commands.  With working ones the carriage     *)
(* passes them by the length of the debounce and no further (NoOverrun);   *)
(* with one that never closes no homing ends in a reference                *)
(* (OpenSwitchNoReference).  With working ones, and a course that the      *)
(* backoffs and the debounce fit in, a homed mast knows where it is        *)
(* (PosErrorBounded), has measured its course (HomedCourse) and moves      *)
(* within it (MoveInCourse).                                               *)
(***************************************************************************)
EXTENDS MastFirmwareProofs

Backoffs == {"backoff1", "backoff2"}

-----------------------------------------------------------------------------
(* What steps do to the carriage and to the homing.                        *)

\* A command moves nothing, and starts no movement but through ST_PRE.
Ordered ==
    /\ UNCHANGED <<es, pos, isHomed>>
    /\ state' = "pre" => \/ state = "pre" /\ since' = since
                         \/ state = "idle" /\ since' = 0
    /\ state' \in Moving => state \in Moving
    /\ hp' # "none" => hp' = hp /\ left' = left

\* A pass pulses towards an endstop that is not closed, or backs off the low one; a
\* movement starts when the relay's time is over.
Passed ==
    /\ \/ pos' = pos
       \/ \E d \in {UP, DOWN} : state \in Moving /\ ~Hit(d) /\ pos' = pos + d
       \/ hp \in Backoffs /\ pos' = pos + 1
    /\ state' = "pre" => state = "pre" /\ since' = since + 1
    /\ state' \in Moving => state \in Moving \/ (state = "pre" /\ since >= RelayTicks)
    /\ hp' \in Backoffs =>
        \/ hp \in Backoffs /\ left' = left /\ pos' = pos
        \/ hp \in Backoffs /\ left > 1 /\ left' = left - 1
        \/ esMin'.active /\ left' = Backoff /\ pos' = pos

\* The phases of a homing follow each other, past a closed endstop each time, and
\* only the last one ends in a reference.
Phased ==
    /\ \/ hp' \in {hp, "none", "seekMin"}
       \/ hp = "seekMin" /\ hp' = "backoff1" /\ esMin'.active
       \/ hp = "backoff1" /\ hp' = "seekMax"
       \/ hp = "seekMax" /\ hp' = "returnMin" /\ esMax'.active
       \/ hp = "returnMin" /\ hp' = "backoff2" /\ esMin'.active
    /\ isHomed' => isHomed \/ hp = "backoff2"

\* Commands are what Ordered says.
LEMMA CommandOrdered == ASSUME IInv, handleCommand PROVE Ordered
<1> USE DEF Ordered, es, ref, brk, job, home, Moving
<1>1. CASE emergencyStop
  BY <1>1 DEF emergencyStop, Enter, Forget
<1>2. CASE BrakeRelease \/ BrakeClamp
  BY <1>2 DEF BrakeRelease, BrakeClamp, Busy
<1>3. ASSUME NEW t \in Targets, CmdPos(t) PROVE Ordered
  <2>1. CASE PosStart(t)
    BY <1>3, <2>1 DEF CmdPos, PosStart, startPre
  <2>2. CASE PosRetarget(t)
    BY <1>3, <2>2 DEF CmdPos, PosRetarget
  <2>3. CASE PosInFlight(t)
    <3>1. state = "move" /\ hp = "none"
      BY <2>3 DEF PosInFlight, IInv, Jobs
    <3>2. state' \in {"post", "move"} /\ hp' = "none"
      BY <2>3, <3>1 DEF PosInFlight, planMove, enterPost, Enter, Forget
    <3> QED  BY <1>3, <3>1, <3>2 DEF CmdPos
  <2> QED  BY <1>3, <2>1, <2>2, <2>3 DEF CmdPos
<1>4. ASSUME NEW d \in {UP, DOWN}, CmdJog(d) PROVE Ordered
  BY <1>4 DEF CmdJog, JogStart, JogReverse, startPre
<1>5. CASE CmdJogStop \/ CmdVelZero
  BY <1>5 DEF CmdJogStop, CmdVelZero, enterPost, Enter, Forget
<1>6. CASE CmdHoming
  BY <1>6 DEF CmdHoming, startPre
<1>7. ASSUME NEW d \in {UP, DOWN}, CmdVel(d) PROVE Ordered
  BY <1>7 DEF CmdVel, VelStart, VelUpdate, VelOn, startPre
<1>8. CASE CmdFdc
  BY <1>8 DEF CmdFdc, Enter
<1> QED  BY <1>1, <1>2, <1>3, <1>4, <1>5, <1>6, <1>7, <1>8 DEF handleCommand, CmdStop, CmdBrake

\* Passes are what Passed and Phased say.
LEMMA LoopPassed == ASSUME IInv, loop PROVE Passed /\ Phased
<1> USE DEF Passed, Phased, ref, brk, job, home, Moving, Backoffs
<1>0. pos \in Int /\ since \in Nat /\ left \in Nat /\ dir \in {UP, DOWN} /\ isHomed \in BOOLEAN
  BY DEF IInv, TypeOK
<1>1. CASE Idle \/ PreWait \/ NotDue \/ VelNotDue \/ PostWait \/ FdcWait
  BY <1>0, <1>1 DEF Idle, PreWait, NotDue, VelNotDue, PostWait, FdcWait, Keep, IInv, Jobs
<1>2. CASE PreMove \/ PreGo \/ homingStart \/ PostEnd \/ FdcEnd \/ VelTimeout
  <2>1. CASE PreMove
    <3>1. hp = "none" /\ state = "pre" /\ since >= RelayTicks
      BY <2>1 DEF PreMove, PreExpired, IInv, Jobs
    <3>2. state' \in {"post", "move"} /\ hp' = "none" /\ pos' = pos /\ isHomed' = isHomed
      BY <2>1, <3>1 DEF PreMove, planMove, enterPost, Enter, Forget
    <3> QED  BY <3>1, <3>2
  <2>2. CASE PreGo \/ homingStart
    BY <2>2 DEF PreGo, homingStart, PreExpired, Enter, IInv, Jobs
  <2>3. CASE PostEnd \/ FdcEnd \/ VelTimeout
    <3>1. /\ state' \in {"idle", "post"} /\ pos' = pos /\ isHomed' = isHomed
          /\ hp' \in {hp, "none"} /\ state # "homing"
      BY <2>3 DEF PostEnd, FdcEnd, VelTimeout, VelExpired, enterPost, Enter, Forget
    <3>2. hp' = "none"
      BY <3>1 DEF IInv, Jobs
    <3> QED  BY <3>1, <3>2
  <2> QED  BY <1>2, <2>1, <2>2, <2>3
<1>3. ASSUME NEW d \in {UP, DOWN}, fdcAbort(d) PROVE Passed /\ Phased
  BY <1>3 DEF fdcAbort, enterPost, Enter, Forget
<1>4. CASE MoveStep \/ JogStep \/ VelStep
  <2>1. CASE Abort(dir)
    BY <1>0, <1>3, <2>1 DEF Abort
  <2>2. CASE ~Abort(dir)
    <3>1. ~Hit(dir) /\ doPulse(dir) /\ isHomed' = isHomed /\ state \in Moving /\ hp = "none"
      BY <1>4, <2>2 DEF MoveStep, JogStep, VelStep, IInv, Jobs
    <3>2. state' \in {"post", state} /\ hp' = "none"
      BY <1>4, <2>2, <3>1 DEF MoveStep, JogStep, VelStep, enterPost, Enter, Forget
    <3>3. pos' \in {pos, pos + dir}
      BY <3>1 DEF doPulse
    <3> QED  BY <1>0, <3>1, <3>2, <3>3
  <2> QED  BY <2>1, <2>2
<1>5. CASE homingTick
  <2>1. ASSUME NEW phase \in HomingPhase \ Backoffs, NEW d \in {UP, DOWN}, NEW counter,
               Seek(phase, d, counter), state = "homing"
        PROVE  Passed /\ Phased
    <3>1. ~Hit(d) /\ pos' \in {pos, pos + d} /\ hp = phase /\ hp \notin Backoffs
      BY <2>1 DEF Seek, doPulse
    <3>2. state' \in {"post", state} /\ hp' \in {"none", hp} /\ (isHomed' => isHomed)
      BY <2>1 DEF Seek, enterPost, Enter, Forget
    <3> QED  BY <2>1, <3>1, <3>2
  <2>2. CASE \/ Found("seekMin", DOWN, "backoff1", Backoff) \/ Found("seekMax", UP, "returnMin", 0)
             \/ Found("returnMin", DOWN, "backoff2", Backoff)
    BY <1>5, <2>2 DEF homingTick, Found, Hit, UP, DOWN
  <2>3. CASE BackoffPulse("backoff1") \/ BackoffPulse("backoff2")
    BY <1>5, <2>3 DEF homingTick, BackoffPulse, doPulse, UP
  <2>4. CASE BackoffOneDone \/ homingDone
    BY <1>5, <2>4 DEF homingTick, BackoffOneDone, homingDone, doPulse, UP, enterPost, Enter, Forget
  <2> QED
    BY <1>5, <2>1, <2>2, <2>3, <2>4 DEF homingTick, HomingPhase
<1> QED  BY <1>1, <1>2, <1>4, <1>5 DEF loop, Pass, Pulse, Timer

-----------------------------------------------------------------------------
(* An endstop that never closes.                                           *)

\* It is never taken for closed, so the homing does not get past it.
Blind ==
    /\ MaxSwitch = "open" => /\ esMax.active = FALSE /\ ~isHomed
                             /\ hp \notin {"returnMin", "backoff2"}
    /\ MinSwitch = "open" => /\ esMin.active = FALSE /\ ~isHomed
                             /\ hp \in {"none", "seekMin"}

\* The debounce of a switch that never closes never says so.
LEMMA StaysOpen ==
    ASSUME NEW e \in EndstopType, e.active = FALSE, NEW past, NEW raw \in Contact("open", past)
    PROVE  updateEndstop(e, raw).active = FALSE
BY DEF Contact, updateEndstop, EndstopType

\* The switches are as they were after a command, as they are read after a pass and
\* after a reset.
LEMMA BlindSwitches ==
    ASSUME IInv, Blind, [Next]_vars
    PROVE  /\ MaxSwitch = "open" => esMax'.active = FALSE
           /\ MinSwitch = "open" => esMin'.active = FALSE
<1>1. CASE handleCommand \/ UNCHANGED vars
  <2>1. UNCHANGED es
    BY <1>1, CommandOrdered DEF Ordered, vars, es
  <2> QED  BY <2>1 DEF es, Blind
<1>2. CASE loop
  <2>1. PICK low \in Contact(MinSwitch, -pos) : esMin' = updateEndstop(esMin, low)
    BY <1>2 DEF loop, Pass, UpdateEndstops
  <2>2. PICK high \in Contact(MaxSwitch, pos - Travel) : esMax' = updateEndstop(esMax, high)
    BY <1>2 DEF loop, Pass, UpdateEndstops
  <2>3. esMin \in EndstopType /\ esMax \in EndstopType
    BY DEF IInv, TypeOK
  <2> QED  BY <2>1, <2>2, <2>3, StaysOpen DEF Blind
<1>3. CASE Reset
  <2>1. PICK low \in Contact(MinSwitch, -pos) : esMin' = updateEndstop(BootSwitch, low)
    BY <1>3 DEF Reset, Boot
  <2>2. PICK high \in Contact(MaxSwitch, pos - Travel) : esMax' = updateEndstop(BootSwitch, high)
    BY <1>3 DEF Reset, Boot
  <2>3. BootSwitch \in EndstopType /\ BootSwitch.active = FALSE
    BY DEF BootSwitch, EndstopType
  <2> QED  BY <2>1, <2>2, <2>3, StaysOpen
<1> QED  BY <1>1, <1>2, <1>3 DEF Next

\* Every step keeps the homing before the endstop it cannot find.
LEMMA NextBlind == ASSUME IInv, Blind, [Next]_vars PROVE Blind'
<1>1. /\ MaxSwitch = "open" => esMax'.active = FALSE
      /\ MinSwitch = "open" => esMin'.active = FALSE
  BY BlindSwitches
<1>2. CASE handleCommand
  BY <1>1, <1>2, CommandOrdered DEF Ordered, Blind
<1>3. CASE loop
  BY <1>1, <1>3, LoopPassed DEF Phased, Blind
<1>4. CASE Reset
  BY <1>1, <1>4 DEF Reset, Forget, Blind
<1>5. CASE UNCHANGED vars
  BY <1>5 DEF vars, es, ref, home, Blind
<1> QED  BY <1>2, <1>3, <1>4, <1>5 DEF Next

\* A mast with an endstop that never closes never takes a position for its reference,
\* whatever is asked of it.
THEOREM NoFalseReference == Spec => []OpenSwitchNoReference
<1>1. Init => Blind
  <2> SUFFICES ASSUME Init PROVE Blind  OBVIOUS
  <2>1. PICK low \in Contact(MinSwitch, -pos) : esMin = updateEndstop(BootSwitch, low)
    BY DEF Init
  <2>2. PICK high \in Contact(MaxSwitch, pos - Travel) : esMax = updateEndstop(BootSwitch, high)
    BY DEF Init
  <2>3. BootSwitch \in EndstopType /\ BootSwitch.active = FALSE
    BY DEF BootSwitch, EndstopType
  <2>4. isHomed = FALSE /\ hp = "none"
    BY DEF Init
  <2> QED  BY <2>1, <2>2, <2>3, <2>4, StaysOpen DEF Blind
<1>2. IInv /\ Blind /\ [Next]_vars => Blind'
  BY NextBlind
<1>3. Blind => OpenSwitchNoReference
  BY DEF Blind, OpenSwitchNoReference
<1> QED  BY <1>1, <1>2, <1>3, Invariance, PTL DEF Spec

-----------------------------------------------------------------------------
(* Endstops that work.                                                     *)

\* What makes them enough: a debounce that ends before the brake is open, and a
\* course that a backoff from the low endstop stays in.
Sound ==
    /\ MinSwitch = "ok" /\ MaxSwitch = "ok"
    /\ 1 <= AssertTicks /\ AssertTicks <= RelayTicks
    /\ Backoff + ReleaseTicks + 2 <= Travel

\* A carriage that is past an endstop is further only by what the debounce has
\* counted, unless a reset has begun it anew; then the debounce ends before a movement
\* can begin.
Near(e, past, s, t) ==
    /\ past <= Overrun
    /\ past > 0 /\ ~e.active =>
        \/ past <= e.pend + 1
        \/ s \notin Moving \cup {"pre"} /\ e.pend >= 1
        \/ s = "pre" /\ e.pend > t
        \/ s \in Moving /\ e.pend >= AssertTicks

\* The low endstop is not taken for closed far above it, and so a backoff ends within
\* the course.
Low ==
    /\ esMin.active => pos <= esMin.pend + 1 /\ esMin.pend <= ReleaseTicks + 1
    /\ hp \in Backoffs => left >= 1 /\ pos + left <= Travel

Carriage ==
    /\ Near(esMin, -pos, state, since)
    /\ Near(esMax, pos - Travel, state, since)
    /\ Low

\* The constants, one by one.
LEMMA Lengths ==
    /\ AssertTicks \in Nat /\ ReleaseTicks \in Nat /\ RelayTicks \in Nat
    /\ Travel \in Nat /\ Backoff \in Nat /\ Backoff >= 1
    /\ Overrun = AssertTicks + 1
<1>1. {RelayTicks, AssertTicks, ReleaseTicks} \subseteq Nat
  BY Parameters
<1> QED  BY <1>1, Sizes DEF Overrun

\* What a working switch reads.
LEMMA Works ==
    ASSUME NEW past \in Int, NEW raw \in Contact("ok", past)
    PROVE  raw \in BOOLEAN /\ (past > 0 => raw) /\ (past < 0 => ~raw)
<1>1. Contact("ok", past) = IF past > 0 THEN {TRUE} ELSE IF past = 0 THEN BOOLEAN ELSE {FALSE}
  BY DEF Contact
<1>2. CASE past > 0
  <2>1. raw \in {TRUE}  BY <1>1, <1>2
  <2> QED  BY <2>1, <1>2
<1>3. CASE past = 0
  <2>1. raw \in BOOLEAN  BY <1>1, <1>3
  <2>2. ~(past > 0) /\ ~(past < 0)  BY <1>3
  <2> QED  BY <2>1, <2>2
<1>4. CASE past < 0
  <2>1. ~(past > 0) /\ past # 0  BY <1>4
  <2>2. raw \in {FALSE}  BY <1>1, <2>1
  <2> QED  BY <2>1, <2>2
<1> QED  BY <1>2, <1>3, <1>4

\* A pass brings the carriage no nearer to a stop than the debounce allows.
LEMMA PassNear ==
    ASSUME Sound, NEW e \in EndstopType, NEW f \in EndstopType,
           NEW past \in Int, NEW next \in Int, NEW raw \in BOOLEAN,
           NEW s, NEW s1, NEW t \in Nat, NEW t1 \in Nat,
           Near(e, past, s, t), f = updateEndstop(e, raw), past > 0 => raw,
           \/ next <= past
           \/ next = past + 1 /\ s \in Moving /\ ~f.active
           \/ next <= 0,
           s1 = "pre" => s = "pre" /\ t1 = t + 1,
           s1 \in Moving => s \in Moving \/ (s = "pre" /\ t >= RelayTicks)
    PROVE  Near(f, next, s1, t1)
<1>0. f.active \in BOOLEAN /\ f.pend \in Nat  BY DEF EndstopType
<1>01. next <= 0 \/ next <= past + 1
  <2>1. next <= past => next <= past + 1  OBVIOUS
  <2> QED  BY <2>1
<1>02. s \notin Moving => next <= past \/ next <= 0
  OBVIOUS
<1>1. CASE next <= 0
  <2>1. next <= Overrun /\ ~(next > 0)  BY <1>1, Lengths
  <2> QED  BY <2>1 DEF Near
<1>2. CASE next > 0 /\ past <= 0
  <2>1. next = 1  BY <1>2
  <2>2. next <= Overrun /\ next <= f.pend + 1  BY <1>0, <2>1, Lengths
  <2> QED  BY <2>2 DEF Near
<1>3. CASE next > 0 /\ past > 0 /\ f.active
  <2>1. next <= past /\ past <= Overrun  BY <1>3 DEF Near
  <2>2. next <= Overrun  BY <2>1, Lengths
  <2> QED  BY <2>2, <1>3 DEF Near
<1>4. CASE next > 0 /\ past > 0 /\ ~f.active
  <2>1. raw = TRUE  BY <1>4
  <2>2. /\ e.active = FALSE /\ f.pend = e.pend + 1 /\ e.pend \in Nat
        /\ ~(e.pend > 0 /\ e.pend >= AssertTicks)
    BY <1>4, <2>1 DEF updateEndstop, EndstopType
  <2>3. f.pend <= AssertTicks
    BY <2>2, Lengths DEF Sound
  <2>4. CASE past <= e.pend + 1
    <3>1. next <= past + 1  BY <1>01, <1>4
    <3>2. next <= f.pend + 1 /\ next <= Overrun
      BY <3>1, <2>2, <2>3, <2>4, Lengths
    <3> QED  BY <3>2 DEF Near
  <2>5. CASE s \notin Moving \cup {"pre"} /\ e.pend >= 1
    <3>1. next <= past  BY <1>02, <1>4, <2>5
    <3>2. s1 \notin Moving \cup {"pre"} /\ f.pend >= 1
      BY <2>2, <2>5
    <3> QED  BY <3>1, <3>2, Lengths DEF Near
  <2>6. CASE s = "pre" /\ e.pend > t
    <3>1. s \notin Moving  BY <2>6 DEF Moving
    <3>2. next <= past  BY <1>02, <1>4, <3>1
    <3>3. s1 \notin Moving
      BY <2>2, <2>6, <3>1, Lengths DEF Sound
    <3>4. f.pend >= 1 /\ (s1 = "pre" => f.pend > t1)
      BY <2>2, <2>6
    <3> QED  BY <3>2, <3>3, <3>4, Lengths DEF Near
  <2>7. ~(s \in Moving /\ e.pend >= AssertTicks)
    BY <2>2, Lengths DEF Sound
  <2> QED  BY <1>4, <2>2, <2>4, <2>5, <2>6, <2>7 DEF Near
<1> QED  BY <1>1, <1>2, <1>3, <1>4 DEF EndstopType

\* What the low endstop says after a pass that leaves the carriage where it is, or one
\* pulse away.
LEMMA PassLow ==
    ASSUME Sound, NEW e \in EndstopType, NEW f \in EndstopType,
           NEW p \in Int, NEW p1 \in Int, NEW raw \in BOOLEAN,
           e.active => p <= e.pend + 1 /\ e.pend <= ReleaseTicks + 1,
           f = updateEndstop(e, raw), p > 0 => ~raw, p1 <= p + 1, f.active
    PROVE  p1 <= f.pend + 1 /\ f.pend <= ReleaseTicks + 1
<1>1. e.pend \in Nat /\ e.active \in BOOLEAN
  BY DEF EndstopType
<1>2. CASE raw
  <2>1. f.pend = 0 /\ ~(p > 0)
    BY <1>1, <1>2 DEF updateEndstop, EndstopType
  <2> QED  BY <2>1, Lengths
<1>3. CASE ~raw
  <2>1. e.active /\ f.pend = e.pend + 1 /\ ~(e.pend > 0 /\ e.pend >= ReleaseTicks)
    BY <1>1, <1>3 DEF updateEndstop, EndstopType
  <2>2. p <= e.pend + 1
    BY <2>1
  <2> QED  BY <1>1, <2>1, <2>2, Lengths
<1> QED  BY <1>2, <1>3

\* Commands keep the invariant: what they start has the brake to wait for.
LEMMA CommandCarriage == ASSUME IInv, Carriage, Sound, Ordered PROVE Carriage'
<1>1. /\ esMin' = esMin /\ esMax' = esMax /\ pos' = pos
      /\ esMin \in EndstopType /\ esMax \in EndstopType
  BY DEF Ordered, es, IInv, TypeOK
<1>2. ASSUME NEW e \in EndstopType, NEW past \in Int, Near(e, past, state, since)
      PROVE  Near(e, past, state', since')
  <2>1. past <= Overrun /\ e.pend \in Nat /\ since \in Nat
    BY <1>2 DEF Near, EndstopType, IInv, TypeOK
  <2>2. CASE past > 0 /\ ~e.active /\ ~(past <= e.pend + 1)
    <3>1. \/ state \notin Moving \cup {"pre"} /\ e.pend >= 1
          \/ state = "pre" /\ e.pend > since
          \/ state \in Moving /\ e.pend >= AssertTicks
      BY <1>2, <2>2 DEF Near
    <3>2. e.pend >= 1
      BY <2>1, <3>1, Lengths DEF Sound
    <3>3. CASE state' \in Moving
      <4>1. state \in Moving /\ state # "pre"
        BY <3>3 DEF Ordered, Moving
      <4>2. e.pend >= AssertTicks
        BY <3>1, <4>1
      <4> QED  BY <2>1, <3>3, <4>2 DEF Near
    <3>4. CASE state' = "pre"
      <4>1. CASE state = "idle" /\ since' = 0
        <5>1. e.pend > since'  BY <2>1, <3>2, <4>1
        <5> QED  BY <2>1, <3>4, <5>1 DEF Near
      <4>2. CASE state = "pre" /\ since' = since
        <5>1. e.pend > since'  BY <3>1, <4>2 DEF Moving
        <5> QED  BY <2>1, <3>4, <5>1 DEF Near
      <4> QED  BY <3>4, <4>1, <4>2 DEF Ordered
    <3>5. CASE state' \notin Moving \cup {"pre"}
      BY <2>1, <3>2, <3>5 DEF Near
    <3> QED  BY <3>3, <3>4, <3>5
  <2> QED  BY <2>1, <2>2 DEF Near
<1>3. -pos \in Int /\ pos - Travel \in Int
  BY Lengths DEF IInv, TypeOK
<1>4. Near(esMin, -pos, state', since') /\ Near(esMax, pos - Travel, state', since')
  BY <1>1, <1>2, <1>3 DEF Carriage
<1>5. Low'
  BY <1>1 DEF Carriage, Low, Ordered, Backoffs
<1> QED  BY <1>1, <1>4, <1>5 DEF Carriage

\* A pulse of a backoff gives its length back.
LEMMA OnePulse ==
    ASSUME NEW p \in Int, NEW p1 \in Int, NEW l \in Int, NEW t \in Int, p1 <= p + 1, p + l <= t
    PROVE  p1 + (l - 1) <= t
OBVIOUS

\* A pass keeps it: pulses stop at an endstop that is taken for closed, and those of a
\* backoff stay within the course.
LEMMA LoopCarriage ==
    ASSUME IInv, IInv', Carriage, Sound, UpdateEndstops, Passed
    PROVE  Carriage'
<1>1. /\ esMin \in EndstopType /\ esMax \in EndstopType
      /\ esMin' \in EndstopType /\ esMax' \in EndstopType
      /\ pos \in Int /\ pos' \in Int /\ since \in Nat /\ since' \in Nat
      /\ left \in Nat /\ left' \in Nat
  BY DEF IInv, TypeOK
<1>2. -pos \in Int /\ pos - Travel \in Int /\ -pos' \in Int /\ pos' - Travel \in Int
  BY <1>1, Lengths
<1>3. PICK low \in Contact("ok", -pos) : esMin' = updateEndstop(esMin, low)
  BY DEF UpdateEndstops, Sound
<1>4. PICK high \in Contact("ok", pos - Travel) : esMax' = updateEndstop(esMax, high)
  BY DEF UpdateEndstops, Sound
<1>5. /\ low \in BOOLEAN /\ (-pos > 0 => low) /\ (-pos < 0 => ~low)
      /\ high \in BOOLEAN /\ (pos - Travel > 0 => high)
  BY <1>2, <1>3, <1>4, Works
<1>6. /\ state' = "pre" => state = "pre" /\ since' = since + 1
      /\ state' \in Moving => state \in Moving \/ (state = "pre" /\ since >= RelayTicks)
  BY DEF Passed
<1>7. \/ pos' = pos
      \/ state \in Moving /\ ~esMax'.active /\ pos' = pos + 1
      \/ state \in Moving /\ ~esMin'.active /\ pos' = pos - 1
      \/ hp \in Backoffs /\ pos' = pos + 1
  BY <1>1 DEF Passed, Hit, UP, DOWN
<1>8. hp \in Backoffs => left >= 1 /\ pos + left <= Travel
  BY DEF Carriage, Low
<1>9. Near(esMin', -pos', state', since')
  <2>1. Near(esMin, -pos, state, since)
    BY DEF Carriage
  <2>2. \/ -pos' <= -pos
        \/ -pos' = -pos + 1 /\ state \in Moving /\ ~esMin'.active
        \/ -pos' <= 0
    <3>1. CASE pos' = pos
      BY <1>1, <3>1
    <3>2. CASE pos' = pos + 1
      <4>1. -pos' <= -pos  BY <1>1, <3>2
      <4> QED  BY <4>1
    <3>3. CASE state \in Moving /\ ~esMin'.active /\ pos' = pos - 1
      <4>1. -pos' = -pos + 1  BY <1>1, <3>3
      <4> QED  BY <4>1, <3>3
    <3> QED  BY <1>7, <3>1, <3>2, <3>3
  <2> QED  BY <1>1, <1>2, <1>3, <1>5, <1>6, <2>1, <2>2, PassNear
<1>10. Near(esMax', pos' - Travel, state', since')
  <2> DEFINE past == pos - Travel
             next == pos' - Travel
  <2>1. Near(esMax, past, state, since)
    BY DEF Carriage
  <2>2. \/ next <= past
        \/ next = past + 1 /\ state \in Moving /\ ~esMax'.active
        \/ next <= 0
    <3>1. CASE pos' = pos
      BY <1>1, <3>1, Lengths
    <3>2. CASE pos' = pos - 1
      <4>1. next <= past  BY <1>1, <3>2, Lengths
      <4> QED  BY <4>1
    <3>3. CASE state \in Moving /\ ~esMax'.active /\ pos' = pos + 1
      <4>1. next = past + 1  BY <1>1, <3>3, Lengths
      <4> QED  BY <4>1, <3>3
    <3>4. CASE hp \in Backoffs /\ pos' = pos + 1
      <4>1. next <= 0  BY <1>1, <1>8, <3>4, Lengths
      <4> QED  BY <4>1
    <3> QED  BY <1>7, <3>1, <3>2, <3>3, <3>4
  <2>3. past \in Int /\ next \in Int /\ high \in Contact("ok", past) /\ (past > 0 => high)
    BY <1>2, <1>5
  <2> HIDE DEF past, next
  <2>4. Near(esMax', next, state', since')
    BY <1>1, <1>4, <1>5, <1>6, <2>1, <2>2, <2>3, PassNear
  <2> QED  BY <2>4 DEF next
<1>11. Low'
  <2>1. pos' <= pos + 1
    BY <1>1, <1>7
  <2>2. pos > 0 => ~low
    BY <1>1, <1>5
  <2>3. esMin'.active => pos' <= esMin'.pend + 1 /\ esMin'.pend <= ReleaseTicks + 1
    BY <1>1, <1>3, <1>5, <2>1, <2>2, PassLow DEF Carriage, Low
  <2>4. ASSUME hp' \in Backoffs PROVE left' >= 1 /\ pos' + left' <= Travel
    <3>1. CASE hp \in Backoffs /\ left' = left /\ pos' = pos
      BY <1>8, <3>1
    <3>2. CASE hp \in Backoffs /\ left > 1 /\ left' = left - 1
      <4>1. pos + left <= Travel  BY <1>8, <3>2
      <4>2. left' = left - 1  BY <3>2
      <4>3. pos \in Int /\ pos' \in Int /\ left \in Int /\ Travel \in Int
        BY <1>1, Lengths
      <4>5. pos' + (left - 1) <= Travel  BY <2>1, <4>1, <4>3, OnePulse
      <4>6. left' >= 1  BY <3>2, <4>3
      <4> QED  BY <4>2, <4>5, <4>6
    <3>3. CASE esMin'.active /\ left' = Backoff /\ pos' = pos
      <4>1. esMin'.pend \in Nat  BY <1>1 DEF EndstopType
      <4> QED  BY <1>1, <2>3, <3>3, <4>1, Lengths DEF Sound
    <3> QED  BY <2>4, <3>1, <3>2, <3>3 DEF Passed
  <2> QED  BY <2>3, <2>4 DEF Low
<1> QED  BY <1>9, <1>10, <1>11 DEF Carriage

\* A reset begins the debounce anew, with the carriage at rest.
LEMMA ResetCarriage == ASSUME IInv, Carriage, Sound, Reset PROVE Carriage'
<1>1. pos \in Int /\ pos' = pos /\ state' = "idle" /\ hp' = "none"
  BY DEF Reset, Enter, Forget, IInv, TypeOK
<1>2. PICK low \in Contact("ok", -pos) : esMin' = updateEndstop(BootSwitch, low)
  BY DEF Reset, Boot, Sound
<1>3. PICK high \in Contact("ok", pos - Travel) : esMax' = updateEndstop(BootSwitch, high)
  BY DEF Reset, Boot, Sound
<1>4. -pos \in Int /\ pos - Travel \in Int
  BY <1>1, Lengths
<1>5. low \in BOOLEAN /\ high \in BOOLEAN /\ (-pos > 0 => low) /\ (pos - Travel > 0 => high)
  BY <1>2, <1>3, <1>4, Works
<1>6. ASSUME NEW raw \in BOOLEAN
      PROVE  /\ updateEndstop(BootSwitch, raw).active = FALSE
             /\ raw => updateEndstop(BootSwitch, raw).pend = 1
  <2>1. CASE raw = FALSE
    BY <2>1 DEF updateEndstop, BootSwitch
  <2>2. CASE raw = TRUE
    <3>1. updateEndstop(BootSwitch, raw) = [BootSwitch EXCEPT !.pend = @ + 1]
      BY <2>2 DEF updateEndstop, BootSwitch
    <3>2. BootSwitch \in [active : BOOLEAN, pend : Nat] /\ BootSwitch.pend = 0
      BY DEF BootSwitch
    <3>3. BootSwitch.active = FALSE
      BY DEF BootSwitch
    <3> QED  BY <3>1, <3>2, <3>3, <2>2
  <2> QED  BY <2>1, <2>2
<1>7. Near(esMin', -pos', state', since')
  <2>1. -pos > 0 => esMin'.pend = 1
    BY <1>2, <1>5, <1>6
  <2>2. -pos <= Overrun  BY DEF Carriage, Near
  <2> QED  BY <1>1, <2>1, <2>2 DEF Near, Moving
<1>8. Near(esMax', pos' - Travel, state', since')
  <2>1. pos - Travel > 0 => esMax'.pend = 1
    BY <1>3, <1>5, <1>6
  <2>2. pos - Travel <= Overrun  BY DEF Carriage, Near
  <2> QED  BY <1>1, <2>1, <2>2 DEF Near, Moving
<1>9. Low'
  BY <1>1, <1>2, <1>5, <1>6 DEF Low, Backoffs
<1> QED  BY <1>7, <1>8, <1>9 DEF Carriage

\* Every step keeps it.
LEMMA NextCarriage == IInv /\ IInv' /\ Carriage /\ [Next]_vars => (Sound => Carriage')
<1> SUFFICES ASSUME IInv, IInv', Carriage, [Next]_vars, Sound PROVE Carriage'
  OBVIOUS
<1>1. CASE handleCommand
  BY <1>1, CommandOrdered, CommandCarriage
<1>2. CASE loop
  BY <1>2, LoopPassed, LoopCarriage DEF loop, Pass
<1>3. CASE Reset
  BY <1>3, ResetCarriage
<1>4. CASE UNCHANGED vars
  BY <1>4 DEF vars, es, job, home, Carriage, Near, Low
<1> QED  BY <1>1, <1>2, <1>3, <1>4 DEF Next

\* It holds at power-up.
LEMMA InitCarriage == ASSUME Sound PROVE Init => Carriage
<1> SUFFICES ASSUME Init PROVE Carriage  OBVIOUS
<1>1. pos \in Int /\ -pos <= 0 /\ pos - Travel <= 0
  BY Lengths, Parameters DEF Init
<1>2. PICK low \in Contact("ok", -pos) : esMin = updateEndstop(BootSwitch, low)
  BY DEF Init, Sound
<1>3. low \in BOOLEAN
  BY <1>1, <1>2, Works
<1>4. esMin.active = FALSE
  BY <1>2, <1>3 DEF updateEndstop, BootSwitch
<1>5. hp = "none"
  BY DEF Init
<1> QED  BY <1>1, <1>4, <1>5, Lengths DEF Carriage, Near, Low, Backoffs

\* So it always holds.
LEMMA CarriageHolds == ASSUME Sound PROVE Spec => []Carriage
<1>1. Init => Carriage
  BY InitCarriage
<1>2. IInv /\ IInv' /\ Carriage /\ [Next]_vars => Carriage'
  BY NextCarriage
<1> QED  BY <1>1, <1>2, Invariance, PTL DEF Spec

\* No sequence of commands, contacts, bounces and resets brings the carriage further
\* past a working endstop than its debounce lasts.
THEOREM Bounded == ASSUME Sound PROVE Spec => []NoOverrun
<1>1. Spec => []Carriage
  BY CarriageHolds
<1>2. IInv /\ Carriage => NoOverrun
  BY Lengths DEF IInv, TypeOK, Carriage, Near, NoOverrun
<1> QED  BY <1>1, <1>2, Invariance, PTL

-----------------------------------------------------------------------------
(* The position of a homed mast.                                           *)

\* What makes it exact: mechanical stops beyond the overrun, so that no pulse is
\* lost, a release that takes time, and a course that two backoffs and two release
\* windows fit in.
Exact ==
    /\ Sound
    /\ Overrun < Margin
    /\ 1 <= ReleaseTicks
    /\ Overrun <= 2 * Backoff
    /\ 2 * Backoff + 2 * ReleaseTicks <= Travel

\* Where the first backoff ends, and the length from there to the high endstop with
\* that backoff: the overruns, and a low endstop that was still to be released.
FirstZero == Backoff - Overrun .. Backoff + ReleaseTicks
Length    == Travel - ReleaseTicks .. Travel + 2 * Overrun

\* The high endstop is not taken for closed far below it.
High == esMax.active => Travel - pos <= esMax.pend + 1

\* What each phase of the homing knows of where it is.
Homing ==
    /\ hp = "backoff1" => pos + left \in FirstZero
    /\ hp = "seekMax" => pos - toMax \in FirstZero /\ (esMax.active => pos >= Travel)
    /\ hp \in {"returnMin", "backoff2"} => toMax + Backoff \in Length
    /\ hp = "returnMin" => (esMin.active => pos <= 0)
    /\ hp = "backoff2" => pos + left \in Backoff - Overrun .. Backoff

\* Only a homed mast moves to a position.
Moves == state = "move" \/ pending = "move" => isHomed

Referred  == HomedCourse /\ PosErrorBounded
InCourse  == Moves /\ MoveInCourse
Reference == High /\ Homing /\ Referred /\ InCourse

\* What a pass has read when it acts: an endstop that is taken for closed is no
\* further than its release takes, and one that a seek has found is reached.
Seen ==
    /\ esMin'.active => pos <= ReleaseTicks
    /\ esMax'.active => Travel - pos <= ReleaseTicks
    /\ hp = "seekMax" /\ esMax'.active => pos >= Travel
    /\ hp = "returnMin" /\ esMin'.active => pos <= 0
    /\ -Overrun <= pos /\ pos <= Travel + Overrun

\* A pulse that the carriage follows.
Pulsed(d) == pos' = pos + d /\ stepCount' = stepCount + d

\* The bound of the position error, without the absolute value.
LEMMA AbsBound ==
    ASSUME NEW n \in Int, NEW b \in Int
    PROVE  Abs(n) <= b <=> -b <= n /\ n <= b
BY DEF Abs

\* The lengths of Exact, one by one.
LEMMA ExactLengths ==
    ASSUME Exact
    PROVE  /\ Travel \in Nat /\ Backoff \in Nat /\ ReleaseTicks \in Nat /\ Overrun \in Nat
           /\ Margin \in Nat
           /\ 1 <= Backoff /\ 1 <= ReleaseTicks /\ 2 <= Overrun /\ Overrun < Margin
           /\ Overrun <= 2 * Backoff /\ 2 * Backoff + 2 * ReleaseTicks <= Travel
BY Sizes, Lengths DEF Exact, Sound

\* The variables that the position is about.
LEMMA Numbers ==
    ASSUME IInv
    PROVE  /\ pos \in Int /\ stepCount \in Int /\ course \in Int /\ left \in Nat /\ toMax \in Nat
           /\ isHomed \in BOOLEAN /\ dir \in {UP, DOWN}
BY DEF IInv, TypeOK

\* The debounce of one endstop, seen from how far the carriage is from it: one that is
\* still taken for closed has counted at least that far.
LEMMA Held ==
    ASSUME NEW e \in EndstopType, NEW f \in EndstopType,
           NEW p \in Int, NEW raw \in BOOLEAN, 1 <= ReleaseTicks,
           e.active => p <= e.pend + 1,
           f = updateEndstop(e, raw), p > 0 => ~raw, f.active
    PROVE  p <= f.pend /\ f.pend <= ReleaseTicks
<1>1. e.pend \in Nat /\ e.active \in BOOLEAN
  BY DEF EndstopType
<1>2. CASE raw
  <2>1. f.pend = 0 /\ ~(p > 0)
    BY <1>1, <1>2 DEF updateEndstop, EndstopType
  <2> QED  BY <2>1, Lengths
<1>3. CASE ~raw
  <2>1. e.active /\ f.pend = e.pend + 1 /\ ~(e.pend > 0 /\ e.pend >= ReleaseTicks)
    BY <1>1, <1>3 DEF updateEndstop, EndstopType
  <2>2. p <= e.pend + 1
    BY <2>1
  <2> QED  BY <1>1, <2>1, <2>2, Lengths
<1> QED  BY <1>2, <1>3

\* One that a pass takes for closed, and that was not before, is reached.
LEMMA Fresh ==
    ASSUME NEW e \in EndstopType, NEW p \in Int, NEW raw \in BOOLEAN,
           e.active => p <= 0, p > 0 => ~raw, updateEndstop(e, raw).active
    PROVE  p <= 0
<1>1. CASE raw
  BY <1>1
<1>2. CASE ~raw
  <2>1. e.active
    BY <1>2 DEF updateEndstop, EndstopType
  <2> QED  BY <2>1
<1> QED  BY <1>1, <1>2

\* Every pass reads the endstops as Seen says.
LEMMA PassSeen ==
    ASSUME IInv, IInv', Carriage, Reference, Exact, UpdateEndstops
    PROVE  Seen
<1>1. /\ esMin \in EndstopType /\ esMax \in EndstopType
      /\ esMin' \in EndstopType /\ esMax' \in EndstopType /\ pos \in Int
  BY DEF IInv, TypeOK
<1>2. -pos \in Int /\ pos - Travel \in Int /\ Travel - pos \in Int
  BY <1>1, ExactLengths
<1>3. PICK low \in Contact("ok", -pos) : esMin' = updateEndstop(esMin, low)
  BY DEF UpdateEndstops, Sound, Exact
<1>4. PICK high \in Contact("ok", pos - Travel) : esMax' = updateEndstop(esMax, high)
  BY DEF UpdateEndstops, Sound, Exact
<1>5. low \in BOOLEAN /\ high \in BOOLEAN /\ (-pos < 0 => ~low) /\ (pos - Travel < 0 => ~high)
  BY <1>2, <1>3, <1>4, Works
<1>6. (pos > 0 => ~low) /\ (Travel - pos > 0 => ~high)
  BY <1>1, <1>5, ExactLengths
<1>7. ASSUME esMin'.active PROVE pos <= ReleaseTicks
  <2>1. esMin.active => pos <= esMin.pend + 1
    BY DEF Carriage, Low
  <2>2. pos <= esMin'.pend /\ esMin'.pend <= ReleaseTicks
    BY <1>1, <1>3, <1>5, <1>6, <1>7, <2>1, ExactLengths, Held
  <2>3. esMin'.pend \in Nat
    BY <1>1 DEF EndstopType
  <2> QED  BY <1>1, <2>2, <2>3, ExactLengths
<1>8. ASSUME esMax'.active PROVE Travel - pos <= ReleaseTicks
  <2> DEFINE past == Travel - pos
  <2>1. esMax.active => past <= esMax.pend + 1
    BY DEF Reference, High
  <2>2. past \in Int /\ (past > 0 => ~high)
    BY <1>2, <1>6
  <2> HIDE DEF past
  <2>3. past <= esMax'.pend /\ esMax'.pend <= ReleaseTicks
    BY <1>1, <1>4, <1>5, <1>8, <2>1, <2>2, ExactLengths, Held
  <2>4. esMax'.pend \in Nat
    BY <1>1 DEF EndstopType
  <2>5. past <= ReleaseTicks
    BY <2>2, <2>3, <2>4, ExactLengths
  <2> QED  BY <2>5 DEF past
<1>9. ASSUME hp = "seekMax", esMax'.active PROVE pos >= Travel
  <2> DEFINE past == Travel - pos
  <2>1. esMax.active => past <= 0
    <3>1. esMax.active => pos >= Travel
      BY <1>9 DEF Reference, Homing
    <3> QED  BY <1>1, <3>1, ExactLengths
  <2>2. past \in Int /\ (past > 0 => ~high)
    BY <1>2, <1>6
  <2> HIDE DEF past
  <2>3. past <= 0
    BY <1>1, <1>4, <1>5, <1>9, <2>1, <2>2, Fresh
  <2> QED  BY <1>1, <2>3, ExactLengths DEF past
<1>10. ASSUME hp = "returnMin", esMin'.active PROVE pos <= 0
  <2>1. esMin.active => pos <= 0
    BY <1>10 DEF Reference, Homing
  <2> QED  BY <1>1, <1>3, <1>5, <1>6, <1>10, <2>1, Fresh
<1>11. -Overrun <= pos /\ pos <= Travel + Overrun
  <2>1. -pos <= Overrun /\ pos - Travel <= Overrun
    BY DEF Carriage, Near
  <2> QED  BY <1>1, <2>1, ExactLengths
<1> QED  BY <1>7, <1>8, <1>9, <1>10, <1>11 DEF Seen

\* The mechanical stops are out of reach: no pulse is lost.
LEMMA NoPulseLost ==
    ASSUME IInv, Seen, Exact, NEW d \in {UP, DOWN},
           pos' = IF pos + d \in -Margin .. Travel + Margin THEN pos + d ELSE pos
    PROVE  pos' = pos + d
<1>1. d = 1 \/ d = -1
  BY DEF UP, DOWN
<1>2. pos \in Int /\ -Overrun <= pos /\ pos <= Travel + Overrun
  BY Numbers DEF Seen
<1>3. pos + d \in -Margin .. Travel + Margin
  BY <1>1, <1>2, ExactLengths
<1> QED  BY <1>3

\* A pass keeps the high endstop to its release, as it does the low one.
LEMMA HighKept ==
    ASSUME IInv, IInv', Reference, Exact, UpdateEndstops, Passed
    PROVE  High'
<1>1. esMax \in EndstopType /\ esMax' \in EndstopType /\ pos \in Int /\ pos' \in Int
  BY DEF IInv, TypeOK
<1>2. pos - Travel \in Int
  BY <1>1, ExactLengths
<1>3. PICK high \in Contact("ok", pos - Travel) : esMax' = updateEndstop(esMax, high)
  BY DEF UpdateEndstops, Sound, Exact
<1>4. high \in BOOLEAN /\ (pos - Travel < 0 => ~high)
  BY <1>2, <1>3, Works
<1>5. pos - 1 <= pos'
  BY <1>1 DEF Passed, UP, DOWN
<1>6. ASSUME esMax'.active PROVE Travel - pos' <= esMax'.pend + 1
  <2> DEFINE past == Travel - pos
  <2>1. esMax.active => past <= esMax.pend + 1
    BY DEF Reference, High
  <2>2. past \in Int /\ (past > 0 => ~high)
    BY <1>1, <1>4, ExactLengths
  <2> HIDE DEF past
  <2>3. past <= esMax'.pend
    BY <1>1, <1>3, <1>4, <1>6, <2>1, <2>2, ExactLengths, Held
  <2>4. esMax'.pend \in Nat
    BY <1>1 DEF EndstopType
  <2>5. Travel - pos <= esMax'.pend
    BY <2>3 DEF past
  <2> QED  BY <1>1, <1>5, <2>4, <2>5, ExactLengths
<1> QED  BY <1>6 DEF High

-----------------------------------------------------------------------------
(* What changes the reference, and what does not.                          *)

\* The error and the course stay when the carriage and the count move together.
Together == isHomed /\ course' = course /\ pos' - stepCount' = pos - stepCount

LEMMA SameReference ==
    ASSUME IInv, IInv', Referred, isHomed' => Together
    PROVE  Referred'
<1> SUFFICES ASSUME isHomed' PROVE Referred'
  BY DEF Referred, HomedCourse, PosErrorBounded
<1>1. Together
  OBVIOUS
<1>2. pos' - (Backoff + stepCount') = pos - (Backoff + stepCount)
  <2>1. pos \in Int /\ stepCount \in Int /\ pos' \in Int /\ stepCount' \in Int
    BY DEF IInv, TypeOK
  <2>2. Backoff \in Int
    BY Sizes
  <2>3. pos' - stepCount' = pos - stepCount
    BY <1>1 DEF Together
  <2> DEFINE p1 == pos'
             n1 == stepCount'
  <2>4. p1 \in Int /\ n1 \in Int /\ p1 - n1 = pos - stepCount
    BY <2>1, <2>3
  <2> HIDE DEF p1, n1
  <2>5. p1 - (Backoff + n1) = pos - (Backoff + stepCount)
    BY <2>1, <2>2, <2>4
  <2> QED  BY <2>5 DEF p1, n1
<1>3. PosError' = PosError
  BY <1>2 DEF PosError
<1> QED  BY <1>1, <1>3 DEF Together, Referred, HomedCourse, PosErrorBounded

\* A new reference, within the bounds of an old one.
LEMMA NewReference ==
    ASSUME IInv', Exact,
           course' + 2 * Backoff \in Length,
           -(Backoff + Overrun + ReleaseTicks) <= pos' - (Backoff + stepCount'),
           pos' - (Backoff + stepCount') <= Backoff + Overrun + ReleaseTicks
    PROVE  Referred'
<1> DEFINE error == pos' - (Backoff + stepCount')
           bound == Backoff + Overrun + ReleaseTicks
<1>1. error \in Int /\ bound \in Int
  <2>1. pos' \in Int /\ stepCount' \in Int
    BY DEF IInv, TypeOK
  <2> QED  BY <2>1, ExactLengths
<1>2. -bound <= error /\ error <= bound
  OBVIOUS
<1> HIDE DEF error, bound
<1>3. Abs(error) <= bound
  BY <1>1, <1>2, AbsBound
<1>4. PosError' <= Backoff + Overrun + ReleaseTicks
  BY <1>3 DEF error, bound, PosError
<1> QED  BY <1>4 DEF Referred, HomedCourse, PosErrorBounded, Length

\* A homed mast that an endstop stops takes its position from there: the error begins
\* anew, with the overrun, the release, and what the course is off.
LEMMA AbortReferred ==
    ASSUME IInv, IInv', Referred, Seen, Exact, NEW d \in {UP, DOWN}, Hit(d), fdcAbort(d)
    PROVE  Referred'
<1>1. CASE ~isHomed
  BY <1>1, SameReference DEF Together, fdcAbort
<1>2. CASE isHomed
  <2>1. /\ course' = course /\ pos' = pos
        /\ pos \in Int /\ course \in Int
        /\ -Overrun <= pos /\ pos <= Travel + Overrun
    BY Numbers DEF fdcAbort, Seen
  <2>2. course + 2 * Backoff \in Length
    BY <1>2 DEF Referred, HomedCourse, Length
  <2>3. Travel - ReleaseTicks <= course + 2 * Backoff /\ course + 2 * Backoff <= Travel + 2 * Overrun
    BY <2>1, <2>2, ExactLengths DEF Length
  <2>4. CASE d = UP
    <3>1. stepCount' = course /\ Travel - pos <= ReleaseTicks
      BY <1>2, <2>4 DEF fdcAbort, Hit, Seen
    <3>2. /\ -(Backoff + Overrun + ReleaseTicks) <= pos - (Backoff + course)
          /\ pos - (Backoff + course) <= Backoff + Overrun + ReleaseTicks
      BY <2>1, <2>3, <3>1, ExactLengths
    <3> QED  BY <2>1, <2>2, <3>1, <3>2, NewReference
  <2>5. CASE d = DOWN
    <3>1. stepCount' = 0 /\ pos <= ReleaseTicks
      BY <1>2, <2>5 DEF fdcAbort, Hit, Seen, UP, DOWN
    <3>2. /\ -(Backoff + Overrun + ReleaseTicks) <= pos - (Backoff + 0)
          /\ pos - (Backoff + 0) <= Backoff + Overrun + ReleaseTicks
      BY <2>1, <3>1, ExactLengths
    <3> QED  BY <2>1, <2>2, <3>1, <3>2, NewReference
  <2> QED  BY <2>4, <2>5
<1> QED  BY <1>1, <1>2 DEF IInv, TypeOK

\* A phase of the homing that a step leaves alone still knows where it is.
LEMMA HomingStays ==
    ASSUME Homing, Seen, pos' = pos,
           hp' \in {"none", "seekMin"} \/ (hp' = hp /\ left' = left /\ toMax' = toMax)
    PROVE  Homing'
<1>1. CASE hp' \in {"none", "seekMin"}
  BY <1>1 DEF Homing
<1>2. CASE hp' = hp /\ left' = left /\ toMax' = toMax
  BY <1>2 DEF Homing, Seen
<1> QED  BY <1>1, <1>2

-----------------------------------------------------------------------------
(* The phases of the homing.                                               *)

\* Each pulse of a seek is counted where the count is used.
LEMMA SeekHoming ==
    ASSUME IInv, IInv', Reference, Seen, Exact,
           NEW d \in {UP, DOWN}, NEW phase, NEW counter \in Int, Seek(phase, d, counter),
           \/ phase = "seekMin" /\ counter = toMax
           \/ phase = "seekMax" /\ d = UP /\ counter = toMax + 1
           \/ phase = "returnMin" /\ d = DOWN /\ counter = toMax
    PROVE  Homing' /\ Referred'
<1>1. hp = phase /\ ~Hit(d) /\ pos' = pos + d /\ stepCount' = stepCount + d /\ course' = course
  BY NoPulseLost DEF Seek, doPulse
<1>2. isHomed' => isHomed
  BY DEF Seek
<1>3. Referred'
  <2>1. pos' - stepCount' = pos - stepCount
    BY <1>1, Numbers DEF UP, DOWN
  <2> QED  BY <1>1, <1>2, <2>1, SameReference DEF Together, Reference
<1>4. CASE hp' = "none"
  BY <1>3, <1>4 DEF Homing
<1>5. CASE hp' = hp /\ toMax' = counter
  <2>1. CASE phase = "seekMin"
    BY <1>1, <1>3, <1>5, <2>1 DEF Homing
  <2>2. CASE phase = "seekMax"
    <3>1. d = UP /\ counter = toMax + 1
      BY <2>2
    <3>2. ~esMax'.active
      BY <1>1, <3>1 DEF Hit
    <3>3. pos' - toMax' = pos - toMax
      BY <1>1, <1>5, <3>1, Numbers DEF UP
    <3>4. pos - toMax \in FirstZero
      BY <1>1, <2>2 DEF Reference, Homing
    <3> QED  BY <1>1, <1>3, <1>5, <2>2, <3>2, <3>3, <3>4 DEF Homing
  <2>3. CASE phase = "returnMin"
    <3>1. d = DOWN /\ counter = toMax
      BY <2>3
    <3>2. ~esMin'.active
      BY <1>1, <3>1 DEF Hit, UP, DOWN
    <3>3. toMax + Backoff \in Length
      BY <1>1, <2>3 DEF Reference, Homing
    <3> QED  BY <1>1, <1>3, <1>5, <2>3, <3>1, <3>2, <3>3 DEF Homing
  <2> QED  BY <1>3, <2>1, <2>2, <2>3
<1>6. hp' = "none" \/ (hp' = hp /\ toMax' = counter)
  BY DEF Seek, enterPost, Enter, Forget
<1> QED  BY <1>3, <1>4, <1>5, <1>6

\* The endstop that a phase ends at says where the next one begins.
LEMMA FoundHoming ==
    ASSUME IInv, IInv', Reference, Seen, Exact,
           \/ Found("seekMin", DOWN, "backoff1", Backoff)
           \/ Found("seekMax", UP, "returnMin", 0)
           \/ Found("returnMin", DOWN, "backoff2", Backoff)
    PROVE  Homing' /\ Referred'
<1>1. UNCHANGED <<toMax, ref, pos>>
  BY DEF Found
<1>2. Referred'
  BY <1>1, SameReference DEF Together, Reference, ref
<1>3. /\ pos \in Int /\ pos' = pos /\ toMax' = toMax /\ toMax \in Int
      /\ -Overrun <= pos /\ pos <= Travel + Overrun
  BY <1>1, Numbers DEF Seen
<1>4. CASE Found("seekMin", DOWN, "backoff1", Backoff)
  <2>1. hp' = "backoff1" /\ left' = Backoff /\ esMin'.active
    BY <1>4 DEF Found, Hit, UP, DOWN
  <2>2. pos <= ReleaseTicks
    BY <2>1 DEF Seen
  <2>3. pos' + left' \in FirstZero
    BY <1>3, <2>1, <2>2, ExactLengths DEF FirstZero
  <2> QED  BY <1>2, <2>1, <2>3 DEF Homing
<1>5. CASE Found("seekMax", UP, "returnMin", 0)
  <2>1. hp = "seekMax" /\ hp' = "returnMin" /\ esMax'.active
    BY <1>5 DEF Found, Hit
  <2>2. Travel <= pos
    BY <1>3, <2>1, ExactLengths DEF Seen
  <2>3. Backoff - Overrun <= pos - toMax /\ pos - toMax <= Backoff + ReleaseTicks
    <3>1. pos - toMax \in FirstZero
      BY <2>1 DEF Reference, Homing
    <3> QED  BY <1>3, <3>1, ExactLengths DEF FirstZero
  <2>4. toMax' + Backoff \in Length
    BY <1>3, <2>2, <2>3, ExactLengths DEF Length
  <2>5. ~esMin'.active
    BY <1>3, <2>2, ExactLengths DEF Seen
  <2> QED  BY <1>2, <2>1, <2>4, <2>5 DEF Homing
<1>6. CASE Found("returnMin", DOWN, "backoff2", Backoff)
  <2>1. hp = "returnMin" /\ hp' = "backoff2" /\ left' = Backoff /\ esMin'.active
    BY <1>6 DEF Found, Hit, UP, DOWN
  <2>2. pos <= 0
    BY <2>1 DEF Seen
  <2>3. pos' + left' \in Backoff - Overrun .. Backoff
    BY <1>3, <2>1, <2>2, ExactLengths
  <2>4. toMax' + Backoff \in Length
    BY <1>3, <2>1 DEF Reference, Homing
  <2> QED  BY <1>2, <2>1, <2>3, <2>4 DEF Homing
<1> QED  BY <1>4, <1>5, <1>6

\* The pulses of a backoff go where it was to end.
LEMMA BackoffHoming ==
    ASSUME IInv, IInv', Reference, Seen, Exact,
           NEW phase \in Backoffs, BackoffPulse(phase)
    PROVE  Homing' /\ Referred'
<1>1. /\ hp = phase /\ hp' = phase /\ left' = left - 1 /\ toMax' = toMax
      /\ pos' = pos + UP /\ stepCount' = stepCount + UP /\ course' = course /\ isHomed' = isHomed
  BY NoPulseLost DEF BackoffPulse, doPulse, home
<1>2. /\ pos \in Int /\ stepCount \in Int /\ left \in Int /\ pos' = pos + 1
      /\ stepCount' = stepCount + 1
  BY <1>1, Numbers DEF UP
<1>3. pos' + left' = pos + left
  BY <1>1, <1>2
<1>4. Referred'
  <2>1. pos' - stepCount' = pos - stepCount
    BY <1>2
  <2> QED  BY <1>1, <2>1, SameReference DEF Together, Reference
<1>5. Homing'
  BY <1>1, <1>3 DEF Reference, Homing, Backoffs
<1> QED  BY <1>4, <1>5

\* The course is counted from where the first backoff has ended, with the high endstop
\* still open.
LEMMA BackoffOneHoming ==
    ASSUME IInv, IInv', Carriage, Reference, Seen, Exact, BackoffOneDone
    PROVE  Homing' /\ Referred'
<1>1. /\ hp = "backoff1" /\ left <= 1 /\ hp' = "seekMax" /\ toMax' = 0
      /\ pos' = pos + UP /\ stepCount' = stepCount + UP /\ course' = course /\ isHomed' = isHomed
  BY NoPulseLost DEF BackoffOneDone, doPulse
<1>2. /\ pos \in Int /\ stepCount \in Int /\ left \in Int /\ pos' = pos + 1
      /\ stepCount' = stepCount + 1
  BY <1>1, Numbers DEF UP
<1>3. left = 1
  <2>1. left >= 1
    BY <1>1 DEF Carriage, Low, Backoffs
  <2> QED  BY <1>1, <1>2, <2>1
<1>4. Referred'
  <2>1. pos' - stepCount' = pos - stepCount
    BY <1>2
  <2> QED  BY <1>1, <2>1, SameReference DEF Together, Reference
<1>5. pos' - toMax' = pos + left
  BY <1>1, <1>2, <1>3
<1>6. pos + left \in FirstZero
  BY <1>1 DEF Reference, Homing
<1>7. ~esMax'.active
  <2>1. pos + left <= Backoff + ReleaseTicks
    BY <1>6 DEF FirstZero
  <2>2. ~(Travel - pos <= ReleaseTicks)
    BY <1>2, <1>3, <2>1, ExactLengths
  <2> QED  BY <2>2 DEF Seen
<1> QED  BY <1>1, <1>4, <1>5, <1>6, <1>7 DEF Homing

\* The reference: the machine zero is a backoff above where the low endstop closed, and
\* the course is what the pulses between the endstops have counted.
LEMMA HomingDoneReferred ==
    ASSUME IInv, IInv', Carriage, Reference, Seen, Exact, homingDone
    PROVE  Homing' /\ Referred'
<1>1. /\ hp = "backoff2" /\ left <= 1 /\ hp' = "none"
      /\ stepCount' = 0 /\ course' = toMax - Backoff
  BY DEF homingDone, enterPost, Enter, Forget
<1>2. /\ pos \in Int /\ left \in Int /\ toMax \in Int
      /\ -Overrun <= pos /\ pos <= Travel + Overrun
  BY Numbers DEF Seen
<1>3. pos' = pos + 1
  <2>1. pos + 1 <= Travel + Margin
    BY <1>2, ExactLengths
  <2> QED  BY <2>1 DEF homingDone, UP
<1>4. left = 1
  <2>1. left >= 1
    BY <1>1 DEF Carriage, Low, Backoffs
  <2> QED  BY <1>1, <1>2, <2>1
<1>5. Backoff - Overrun <= pos' /\ pos' <= Backoff
  <2>1. pos + left \in Backoff - Overrun .. Backoff
    BY <1>1 DEF Reference, Homing
  <2> QED  BY <1>2, <1>3, <1>4, <2>1, ExactLengths
<1>6. course' + 2 * Backoff \in Length
  <2>1. toMax + Backoff \in Length
    BY <1>1 DEF Reference, Homing
  <2>2. course' + 2 * Backoff = toMax + Backoff
    BY <1>1, <1>2, ExactLengths
  <2> QED  BY <2>1, <2>2
<1>7. Referred'
  <2>1. pos' \in Int
    BY <1>2, <1>3
  <2>2. /\ -(Backoff + Overrun + ReleaseTicks) <= pos' - (Backoff + 0)
        /\ pos' - (Backoff + 0) <= Backoff + Overrun + ReleaseTicks
    BY <1>5, <2>1, ExactLengths
  <2> QED  BY <1>1, <1>6, <2>2, NewReference
<1> QED  BY <1>1, <1>7 DEF Homing

-----------------------------------------------------------------------------
(* The movements.                                                          *)

\* What is left of a movement ends where constrain has put its target, which lies in
\* the course as that is not negative.
LEMMA PlanInCourse ==
    ASSUME IInv, Referred, Exact, isHomed, NEW t \in Int, planMove(t), UNCHANGED ref
    PROVE  InCourse'
<1> DEFINE to    == constrain(t)
           delta == to - stepCount
           dist  == IF delta < 0 THEN -delta ELSE delta
<1>1. stepCount \in Int /\ course \in Int /\ Backoff \in Nat
  BY Numbers, ExactLengths
<1>2. 0 <= course
  <2>1. Travel - ReleaseTicks <= course + 2 * Backoff
    BY DEF Referred, HomedCourse
  <2> QED  BY <1>1, <2>1, ExactLengths
<1>3. to \in Int /\ 0 <= to /\ to <= course
  BY <1>1, <1>2 DEF constrain
<1>4. \/ enterPost
      \/ /\ Enter("move") /\ left' = dist
         /\ dir' = IF delta > 0 THEN UP ELSE DOWN
  BY DEF planMove
<1>5. isHomed' /\ stepCount' = stepCount /\ course' = course
  BY DEF ref
<1> HIDE DEF to
<1>6. CASE enterPost
  BY <1>6 DEF enterPost, Enter, InCourse, Moves, MoveInCourse
<1>7. CASE Enter("move") /\ left' = dist /\ dir' = IF delta > 0 THEN UP ELSE DOWN
  <2>1. stepCount + dir' * left' = to
    <3>1. CASE delta > 0
      <4>1. dir' = 1 /\ left' = to - stepCount
        BY <1>1, <1>3, <1>7, <3>1 DEF UP
      <4> QED  BY <1>1, <1>3, <4>1
    <3>2. CASE ~(delta > 0)
      <4>1. dir' = -1 /\ left' = -(to - stepCount)
        BY <1>1, <1>3, <1>7, <3>2 DEF DOWN
      <4> QED  BY <1>1, <1>3, <4>1
    <3> QED  BY <3>1, <3>2
  <2>2. stepCount' + dir' * left' \in 0 .. course'
    BY <1>1, <1>3, <1>5, <2>1
  <2> QED  BY <1>5, <2>2 DEF InCourse, Moves, MoveInCourse
<1> QED  BY <1>4, <1>6, <1>7

\* A pulse of a movement brings it one nearer.
LEMMA MoveInCourseKept ==
    ASSUME IInv, IInv', InCourse, Seen, Exact, MoveStep
    PROVE  InCourse'
<1>1. state = "move" /\ pending = "none" /\ isHomed
  BY DEF MoveStep, InCourse, Moves, IInv, Jobs
<1>2. CASE state' = "post"
  BY <1>2 DEF IInv, Jobs, InCourse, Moves, MoveInCourse
<1>3. CASE state' # "post"
  <2>1. /\ ~Abort(dir) /\ doPulse(dir) /\ left' = left - 1
        /\ UNCHANGED <<state, pending, dir, isHomed, course>>
    BY <1>3 DEF MoveStep, Abort, fdcAbort, enterPost, Enter
  <2>2. stepCount' = stepCount + dir
    BY <2>1 DEF doPulse
  <2>3. stepCount \in Int /\ left \in Int /\ course \in Int /\ (dir = 1 \/ dir = -1)
    BY Numbers DEF UP, DOWN
  <2>4. stepCount + dir * left \in 0 .. course
    BY <1>1 DEF InCourse, MoveInCourse
  <2>5. stepCount' + dir' * left' = stepCount + dir * left
    BY <2>1, <2>2, <2>3
  <2>6. stepCount' + dir' * left' \in 0 .. course'
    BY <2>1, <2>4, <2>5
  <2> QED  BY <1>1, <2>1, <2>6 DEF InCourse, Moves, MoveInCourse
<1> QED  BY <1>2, <1>3

\* Steps that begin no movement and keep the one under way, if there is one.
LEMMA InCourseStays ==
    ASSUME InCourse,
           state' = "move" => state = "move" /\ UNCHANGED <<left, dir, stepCount, course, isHomed>>,
           pending' = "move" => pending = "move" /\ isHomed' = isHomed
    PROVE  InCourse'
BY DEF InCourse, Moves, MoveInCourse

-----------------------------------------------------------------------------
(* Every step.                                                             *)

\* Commands leave the reference alone; POS: plans within the course.
LEMMA CommandReference == ASSUME IInv, Reference, Exact, handleCommand PROVE Reference'
<1> USE DEF es, ref, brk, job, home
<1>1. InCourse /\ Referred
  BY DEF Reference
<1>2. UNCHANGED <<course, stepCount>> /\ (hp' # "none" => toMax' = toMax) /\ InCourse'
  <2>1. CASE emergencyStop
    BY <1>1, <2>1, InCourseStays DEF emergencyStop, Enter, Forget
  <2>2. CASE BrakeRelease \/ BrakeClamp
    BY <1>1, <2>2, InCourseStays DEF BrakeRelease, BrakeClamp
  <2>3. ASSUME NEW t \in Targets, CmdPos(t)
        PROVE  UNCHANGED <<course, stepCount>> /\ (hp' # "none" => toMax' = toMax) /\ InCourse'
    <3>1. t \in Int /\ isHomed /\ UNCHANGED ref
      BY <2>3, Parameters DEF CmdPos
    <3>2. CASE PosStart(t)
      BY <3>1, <3>2 DEF PosStart, startPre, InCourse, Moves, MoveInCourse
    <3>3. CASE PosRetarget(t)
      BY <1>1, <3>1, <3>3, InCourseStays DEF PosRetarget
    <3>4. CASE PosInFlight(t)
      <4>1. planMove(t)
        BY <3>4 DEF PosInFlight
      <4>2. hp' # "none" => toMax' = toMax
        BY <4>1 DEF planMove, enterPost, Enter, Forget
      <4> QED  BY <1>1, <3>1, <4>1, <4>2, PlanInCourse
    <3> QED  BY <2>3, <3>2, <3>3, <3>4 DEF CmdPos
  <2>4. ASSUME NEW d \in {UP, DOWN}, CmdJog(d)
        PROVE  UNCHANGED <<course, stepCount>> /\ (hp' # "none" => toMax' = toMax) /\ InCourse'
    BY <1>1, <2>4, InCourseStays DEF CmdJog, JogStart, JogReverse, startPre
  <2>5. CASE CmdJogStop \/ CmdVelZero
    BY <1>1, <2>5, InCourseStays DEF CmdJogStop, CmdVelZero, enterPost, Enter, Forget
  <2>6. CASE CmdHoming
    BY <1>1, <2>6, InCourseStays DEF CmdHoming, startPre
  <2>7. ASSUME NEW d \in {UP, DOWN}, CmdVel(d)
        PROVE  UNCHANGED <<course, stepCount>> /\ (hp' # "none" => toMax' = toMax) /\ InCourse'
    BY <1>1, <2>7, InCourseStays DEF CmdVel, VelStart, VelUpdate, VelOn, startPre
  <2>8. CASE CmdFdc
    BY <1>1, <2>8, InCourseStays DEF CmdFdc, Enter
  <2> QED  BY <2>1, <2>2, <2>3, <2>4, <2>5, <2>6, <2>7, <2>8 DEF handleCommand, CmdStop, CmdBrake
<1>3. UNCHANGED <<es, pos, isHomed>> /\ (hp' # "none" => hp' = hp /\ left' = left)
  BY CommandOrdered DEF Ordered
<1>4. High'
  BY <1>3 DEF Reference, High
<1>5. Homing'
  BY <1>2, <1>3 DEF Reference, Homing
<1>6. Referred'
  BY <1>1, <1>2, <1>3 DEF Referred, HomedCourse, PosErrorBounded, PosError
<1> QED  BY <1>2, <1>4, <1>5, <1>6 DEF Reference

\* A pulse outside a homing.
LEMMA PulseReferred ==
    ASSUME IInv, IInv', Reference, Seen, Exact, MoveStep \/ JogStep \/ VelStep
    PROVE  Homing' /\ Referred'
<1>1. hp = "none" /\ dir \in {UP, DOWN}
  BY Numbers DEF MoveStep, JogStep, VelStep, IInv, Jobs
<1>2. CASE Abort(dir)
  <2>1. Referred'
    BY <1>1, <1>2, AbortReferred DEF Abort, Reference
  <2>2. hp' = "none"
    BY <1>2 DEF Abort, fdcAbort, enterPost, Forget
  <2> QED  BY <2>1, <2>2 DEF Homing
<1>3. CASE ~Abort(dir)
  <2>1. doPulse(dir) /\ isHomed' = isHomed /\ course' = course
    BY <1>3 DEF MoveStep, JogStep, VelStep
  <2>2. pos' = pos + dir /\ stepCount' = stepCount + dir
    BY <1>1, <2>1, NoPulseLost DEF doPulse
  <2>3. pos' - stepCount' = pos - stepCount
    BY <2>2, Numbers DEF UP, DOWN
  <2>4. Referred'
    BY <2>1, <2>3, SameReference DEF Together, Reference
  <2>5. hp' = "none"
    BY <1>1, <1>3 DEF MoveStep, JogStep, VelStep, enterPost, Forget, home
  <2> QED  BY <2>4, <2>5 DEF Homing
<1> QED  BY <1>2, <1>3

\* A pass of a homing.
LEMMA HomingReferred ==
    ASSUME IInv, IInv', Carriage, Reference, Seen, Exact, homingTick
    PROVE  Homing' /\ Referred'
<1>1. toMax \in Int /\ toMax + 1 \in Int
  BY Numbers
<1>2. CASE Seek("seekMin", DOWN, toMax) \/ Seek("returnMin", DOWN, toMax)
  BY <1>1, <1>2, SeekHoming
<1>3. CASE Seek("seekMax", UP, toMax + 1)
  BY <1>1, <1>3, SeekHoming
<1>4. CASE \/ Found("seekMin", DOWN, "backoff1", Backoff)
           \/ Found("seekMax", UP, "returnMin", 0)
           \/ Found("returnMin", DOWN, "backoff2", Backoff)
  BY <1>4, FoundHoming
<1>5. CASE BackoffPulse("backoff1") \/ BackoffPulse("backoff2")
  BY <1>5, BackoffHoming DEF Backoffs
<1>6. CASE BackoffOneDone \/ homingDone
  BY <1>6, BackoffOneHoming, HomingDoneReferred
<1> QED  BY <1>2, <1>3, <1>4, <1>5, <1>6 DEF homingTick

\* Passes keep the reference, or make it.
LEMMA LoopReference ==
    ASSUME IInv, IInv', Carriage, Reference, Exact, loop
    PROVE  Reference'
<1>1. UpdateEndstops
  BY DEF loop, Pass
<1>2. Seen
  BY <1>1, PassSeen
<1>3. High'
  BY <1>1, LoopPassed, HighKept
<1>4. InCourse /\ Homing /\ Referred
  BY DEF Reference
<1>5. CASE Idle \/ PreWait \/ NotDue \/ VelNotDue \/ PostWait \/ FdcWait
  <2>1. UNCHANGED <<state, pending, left, dir, stepCount, course, isHomed, pos, hp, toMax>>
    BY <1>5 DEF Idle, PreWait, NotDue, VelNotDue, PostWait, FdcWait, Keep, home, ref
  <2>2. InCourse'
    BY <1>4, <2>1, InCourseStays
  <2>3. Homing'
    BY <1>2, <1>4, <2>1, HomingStays
  <2>4. Referred'
    BY <1>4, <2>1 DEF Referred, HomedCourse, PosErrorBounded, PosError
  <2> QED  BY <1>3, <2>2, <2>3, <2>4 DEF Reference
<1>6. CASE PreMove
  <2>1. planMove(pendTarget) /\ UNCHANGED ref /\ pos' = pos /\ pending = "move" /\ state = "pre"
    BY <1>6 DEF PreMove, PreExpired
  <2>2. pendTarget \in Int /\ isHomed /\ hp = "none"
    BY <1>4, <2>1 DEF IInv, TypeOK, Jobs, InCourse, Moves
  <2>3. InCourse'
    BY <1>4, <2>1, <2>2, PlanInCourse
  <2>4. hp' = "none"
    BY <2>1, <2>2 DEF planMove, enterPost, Forget, home
  <2>5. Referred'
    BY <1>4, <2>1 DEF ref, Referred, HomedCourse, PosErrorBounded, PosError
  <2> QED  BY <1>3, <2>3, <2>4, <2>5 DEF Reference, Homing
<1>7. CASE PreGo \/ PostEnd \/ FdcEnd \/ VelTimeout
  <2>1. /\ UNCHANGED <<ref, pos>> /\ pending' = "none" /\ state' # "move"
        /\ hp' \in {"none", "seekMin"} \/ (hp' = hp /\ left' = left /\ toMax' = toMax)
    BY <1>7 DEF PreGo, PostEnd, FdcEnd, VelTimeout, PreExpired, enterPost, Enter, Forget, home
  <2>2. InCourse'
    BY <2>1 DEF InCourse, Moves, MoveInCourse
  <2>3. Homing'
    BY <1>2, <1>4, <2>1, HomingStays
  <2>4. Referred'
    BY <1>4, <2>1 DEF ref, Referred, HomedCourse, PosErrorBounded, PosError
  <2> QED  BY <1>3, <2>2, <2>3, <2>4 DEF Reference
<1>8. CASE homingStart
  <2>1. hp' = "seekMin" /\ isHomed' = FALSE /\ state' = "homing" /\ pending' = "none"
    BY <1>8 DEF homingStart, Enter
  <2> QED
    BY <1>3, <2>1 DEF Reference, Homing, Referred, HomedCourse, PosErrorBounded, InCourse, Moves, MoveInCourse
<1>9. CASE MoveStep \/ JogStep \/ VelStep
  <2>1. Homing' /\ Referred'
    BY <1>2, <1>9, PulseReferred
  <2>2. InCourse'
    <3>1. CASE MoveStep
      BY <1>2, <1>4, <3>1, MoveInCourseKept
    <3>2. CASE JogStep \/ VelStep
      <4>1. state' # "move" /\ pending' # "move"
        BY <3>2 DEF JogStep, VelStep, Abort, fdcAbort, enterPost, Enter, IInv, Jobs
      <4> QED  BY <4>1 DEF InCourse, Moves, MoveInCourse
    <3> QED  BY <1>9, <3>1, <3>2
  <2> QED  BY <1>3, <2>1, <2>2 DEF Reference
<1>10. CASE homingTick
  <2>1. Homing' /\ Referred'
    BY <1>2, <1>10, HomingReferred
  <2>2. state' # "move" /\ pending' # "move"
    BY <1>10 DEF homingTick, Found, Seek, BackoffPulse, BackoffOneDone, homingDone, enterPost, Enter,
                 IInv, Jobs
  <2> QED  BY <1>3, <2>1, <2>2 DEF Reference, InCourse, Moves, MoveInCourse
<1> QED  BY <1>5, <1>6, <1>7, <1>8, <1>9, <1>10 DEF loop, Pass, Pulse, Timer

\* A reset begins with both endstops open and no reference.
LEMMA ResetReference == ASSUME IInv, Exact, Reset PROVE Reference'
<1>1. hp' = "none" /\ isHomed' = FALSE /\ state' = "idle" /\ pending' = "none"
  BY DEF Reset, Enter, Forget
<1>2. PICK high \in Contact("ok", pos - Travel) : esMax' = updateEndstop(BootSwitch, high)
  BY DEF Reset, Boot, Sound, Exact
<1>3. high \in BOOLEAN
  <2>1. pos - Travel \in Int
    BY Numbers, ExactLengths
  <2> QED  BY <1>2, <2>1, Works
<1>4. esMax'.active = FALSE
  BY <1>2, <1>3 DEF updateEndstop, BootSwitch
<1> QED
  BY <1>1, <1>4 DEF Reference, High, Homing, Referred, HomedCourse, PosErrorBounded, InCourse, Moves, MoveInCourse

\* Every step keeps it.
LEMMA NextReference ==
    IInv /\ IInv' /\ Carriage /\ Reference /\ [Next]_vars => (Exact => Reference')
<1> SUFFICES ASSUME IInv, IInv', Carriage, Reference, [Next]_vars, Exact PROVE Reference'
  OBVIOUS
<1>1. CASE handleCommand
  BY <1>1, CommandReference
<1>2. CASE loop
  BY <1>2, LoopReference
<1>3. CASE Reset
  BY <1>3, ResetReference
<1>4. CASE UNCHANGED vars
  BY <1>4 DEF vars, es, job, home, ref, Reference, High, Homing, Referred, HomedCourse,
              PosErrorBounded, PosError, InCourse, Moves, MoveInCourse
<1> QED  BY <1>1, <1>2, <1>3, <1>4 DEF Next

\* At power-up there is no reference, and the endstops are taken for open.
LEMMA InitReference == ASSUME Exact PROVE Init => Reference
<1> SUFFICES ASSUME Init PROVE Reference  OBVIOUS
<1>1. hp = "none" /\ isHomed = FALSE /\ state = "idle" /\ pending = "none"
  BY DEF Init
<1>2. PICK high \in Contact("ok", pos - Travel) : esMax = updateEndstop(BootSwitch, high)
  BY DEF Init, Sound, Exact
<1>3. high \in BOOLEAN
  <2>1. pos - Travel \in Int
    BY ExactLengths, Parameters DEF Init
  <2> QED  BY <1>2, <2>1, Works
<1>4. esMax.active = FALSE
  BY <1>2, <1>3 DEF updateEndstop, BootSwitch
<1> QED
  BY <1>1, <1>4 DEF Reference, High, Homing, Referred, HomedCourse, PosErrorBounded, InCourse, Moves, MoveInCourse

\* So what is said of the reference always holds.
LEMMA ReferenceHolds == ASSUME Exact PROVE Spec => []Reference
<1>1. Init => Reference
  BY InitReference
<1>2. IInv /\ IInv' /\ Carriage /\ Reference /\ [Next]_vars => Reference'
  BY NextReference
<1>3. Spec => []Carriage
  BY CarriageHolds DEF Exact
<1> QED  BY <1>1, <1>2, <1>3, Invariance, PTL DEF Spec

\* A homed mast knows its position to within a backoff, an overrun and a release,
\* whatever movements, jogs, stops, contacts and bounces come after the homing.
THEOREM PositionKnown == ASSUME Exact PROVE Spec => []PosErrorBounded
<1>1. Spec => []Reference
  BY ReferenceHolds
<1>2. Reference => PosErrorBounded
  BY DEF Reference, Referred
<1> QED  BY <1>1, <1>2, PTL

\* The course a homing ends with is the real one, to within two overruns and a release.
THEOREM CourseMeasured == ASSUME Exact PROVE Spec => []HomedCourse
<1>1. Spec => []Reference
  BY ReferenceHolds
<1>2. Reference => HomedCourse
  BY DEF Reference, Referred
<1> QED  BY <1>1, <1>2, PTL

\* Every movement to a position ends within the measured course, whatever POS: asks for
\* and whenever.
THEOREM MovesInCourse == ASSUME Exact PROVE Spec => []MoveInCourse
<1>1. Spec => []Reference
  BY ReferenceHolds
<1>2. Reference => MoveInCourse
  BY DEF Reference, InCourse
<1> QED  BY <1>1, <1>2, PTL

=============================================================================
