------------------------- MODULE MastFirmwareProofs -------------------------
(***************************************************************************)
(* What holds of the mast firmware for every travel, backoff, tolerance,   *)
(* debounce, relay and watchdog time, every set of commands, and endstops  *)
(* that work or are stuck.  IInv is inductive; the brake discipline is a   *)
(* part of it, the bound of the dead-man and the steps of the interlock    *)
(* follow from it.                                                         *)
(***************************************************************************)
EXTENDS MastFirmware, TLAPS

\* The constants, one by one.
LEMMA Sizes ==
    /\ Travel \in Nat /\ Margin \in Nat /\ Backoff \in Nat /\ Backoff >= 1
    /\ HomingMax \in Nat /\ HomingMax >= 1 /\ PosTol \in Nat /\ PosTol >= 1
    /\ RelayTicks \in Nat /\ VelTicks \in Nat /\ FdcTicks \in Nat
    /\ SilenceBound \in Nat
    /\ SilenceBound = RelayTicks + VelTicks + 2
<1>1. {Travel, Margin, Backoff, HomingMax, PosTol} \subseteq Nat \ {0}
  BY Parameters
<1>2. {RelayTicks, VelTicks, FdcTicks} \subseteq Nat
  BY Parameters
<1> QED  BY <1>1, <1>2 DEF SilenceBound

-----------------------------------------------------------------------------
(* The endstops.                                                           *)

\* An endstop reads TRUE or FALSE, stuck or not.
LEMMA ContactIsBoolean ==
    ASSUME NEW switch, NEW past \in Int
    PROVE  Contact(switch, past) \subseteq BOOLEAN
BY DEF Contact

\* The debounce of one endstop keeps its type.
LEMMA DebounceType ==
    ASSUME NEW e \in EndstopType, NEW raw \in BOOLEAN
    PROVE  updateEndstop(e, raw) \in EndstopType
BY DEF updateEndstop, EndstopType

\* So does a pass for both endstops.
LEMMA EndstopsType ==
    ASSUME pos \in Int, esMin \in EndstopType, esMax \in EndstopType, UpdateEndstops
    PROVE  esMin' \in EndstopType /\ esMax' \in EndstopType
<1>1. PICK raw \in Contact(MinSwitch, -pos) : esMin' = updateEndstop(esMin, raw)
  BY DEF UpdateEndstops
<1>2. PICK cooked \in Contact(MaxSwitch, pos - Travel) : esMax' = updateEndstop(esMax, cooked)
  BY DEF UpdateEndstops
<1>3. Travel \in Int  BY Sizes
<1>4. raw \in BOOLEAN  BY <1>1, ContactIsBoolean
<1>5. cooked \in BOOLEAN  BY <1>2, <1>3, ContactIsBoolean
<1> QED  BY <1>1, <1>2, <1>4, <1>5, DebounceType

\* And a reset.
LEMMA BootType ==
    ASSUME NEW p \in Int, Boot(p)
    PROVE  esMin' \in EndstopType /\ esMax' \in EndstopType
<1>1. PICK raw \in Contact(MinSwitch, -p) : esMin' = updateEndstop(BootSwitch, raw)
  BY DEF Boot
<1>2. PICK cooked \in Contact(MaxSwitch, p - Travel) : esMax' = updateEndstop(BootSwitch, cooked)
  BY DEF Boot
<1>3. Travel \in Int  BY Sizes
<1>4. BootSwitch \in EndstopType  BY DEF BootSwitch, EndstopType
<1>5. raw \in BOOLEAN  BY <1>1, ContactIsBoolean
<1>6. cooked \in BOOLEAN  BY <1>2, <1>3, ContactIsBoolean
<1> QED  BY <1>1, <1>2, <1>4, <1>5, <1>6, DebounceType

\* A pulse keeps the carriage between the mechanical stops.
LEMMA PulseType ==
    ASSUME TypeOK, NEW d \in {UP, DOWN}, doPulse(d)
    PROVE  stepCount' \in Int /\ pos' \in -Margin .. Travel + Margin
BY DEF TypeOK, doPulse, UP, DOWN

-----------------------------------------------------------------------------

\* The invariant holds at power-up.
LEMMA InitIInv == Init => IInv
<1> SUFFICES ASSUME Init PROVE IInv  OBVIOUS
<1>1. PICK raw \in Contact(MinSwitch, -pos) : esMin = updateEndstop(BootSwitch, raw)
  BY DEF Init
<1>2. PICK cooked \in Contact(MaxSwitch, pos - Travel) : esMax = updateEndstop(BootSwitch, cooked)
  BY DEF Init
<1>3. Travel \in Nat /\ Margin \in Nat /\ pos \in 0 .. Travel
  BY Sizes, Parameters DEF Init
<1>4. raw \in BOOLEAN /\ cooked \in BOOLEAN
  BY <1>1, <1>2, <1>3, ContactIsBoolean
<1>5. esMin \in EndstopType /\ esMax \in EndstopType
  BY <1>1, <1>2, <1>4, DebounceType DEF BootSwitch, EndstopType
<1>6. TypeOK
  <2>1. pos \in -Margin .. Travel + Margin  BY <1>3
  <2>2. safety \in 0 .. HomingMax /\ silence \in 0 .. SilenceBound + 1
    BY Sizes DEF Init
  <2>3. /\ state \in States /\ pending \in Pendings /\ hp \in HomingPhase
        /\ dir \in {UP, DOWN}
    BY DEF Init, States, Pendings, HomingPhase
  <2>4. /\ since \in Nat /\ left \in Nat /\ toMax \in Nat
        /\ pendTarget \in Int /\ course \in Int /\ stepCount \in Int
    BY DEF Init
  <2>5. isHomed \in BOOLEAN /\ brakeReleased \in BOOLEAN /\ manualBrake \in BOOLEAN
    BY DEF Init
  <2> QED  BY <1>5, <2>1, <2>2, <2>3, <2>4, <2>5 DEF TypeOK
<1>7. BrakeDiscipline /\ Clocks /\ Jobs /\ Silences
  BY DEF Init, BrakeDiscipline, Busy, Clocks, Jobs, Silences
<1> QED  BY <1>6, <1>7 DEF IInv

-----------------------------------------------------------------------------
(* The ways from one state to another that the handlers share.             *)

\* Position, endstops and history have their types after the step.
WorldType ==
    /\ isHomed \in BOOLEAN /\ course \in Int /\ stepCount \in Int
    /\ dir \in {UP, DOWN}
    /\ esMin \in EndstopType /\ esMax \in EndstopType
    /\ pos \in -Margin .. Travel + Margin
    /\ silence \in 0 .. SilenceBound + 1

\* enterPost ends any job: the brake stays as it was until ST_POST is over.
LEMMA PostKeeps ==
    ASSUME IInv, Busy, enterPost, WorldType', UNCHANGED brk
    PROVE  IInv'
<1> USE DEF enterPost, Enter, Forget, brk
<1>1. TypeOK'
  <2>1. safety' \in 0 .. HomingMax
    BY Sizes
  <2>2. state' \in States /\ pending' \in Pendings /\ hp' \in HomingPhase
    BY DEF States, Pendings, HomingPhase
  <2>3. since' \in Nat /\ pendTarget' \in Int /\ left' \in Nat /\ toMax' \in Nat
    OBVIOUS
  <2>4. brakeReleased' \in BOOLEAN /\ manualBrake' \in BOOLEAN
    BY DEF IInv, TypeOK
  <2> QED  BY <2>1, <2>2, <2>3, <2>4 DEF TypeOK, WorldType
<1>2. BrakeDiscipline'
  BY DEF IInv, BrakeDiscipline, Busy
<1>3. Clocks' /\ Jobs' /\ Silences'
  BY Sizes DEF Clocks, Jobs, Silences
<1> QED  BY <1>1, <1>2, <1>3 DEF IInv

\* startPre opens the brake for a job that is accepted at rest.
LEMMA StartKeeps ==
    ASSUME IInv, state = "idle",
           NEW p \in {"move", "jog", "vel", "homing"}, startPre(p),
           pendTarget' \in Int, UNCHANGED <<left, home>>, WorldType',
           p = "vel" => silence' = 0
    PROVE  IInv'
<1> USE DEF startPre, home
<1>1. TypeOK'
  <2>1. state' \in States /\ pending' \in Pendings
    BY DEF States, Pendings
  <2>2. brakeReleased' \in BOOLEAN /\ manualBrake' \in BOOLEAN
    OBVIOUS
  <2>3. /\ hp' \in HomingPhase /\ since' \in Nat /\ pendTarget' \in Int
        /\ left' \in Nat /\ safety' \in 0 .. HomingMax /\ toMax' \in Nat
    BY DEF IInv, TypeOK
  <2> QED  BY <2>1, <2>2, <2>3 DEF TypeOK, WorldType
<1>2. BrakeDiscipline'
  BY DEF BrakeDiscipline, Busy
<1>3. Clocks' /\ Jobs' /\ Silences'
  BY Sizes DEF IInv, Clocks, Jobs, Silences
<1> QED  BY <1>1, <1>2, <1>3 DEF IInv

-----------------------------------------------------------------------------
(* Commands.                                                               *)

\* STOP, from any state.
LEMMA StopKeeps == IInv /\ emergencyStop => IInv'
<1> SUFFICES ASSUME IInv, emergencyStop PROVE IInv'  OBVIOUS
<1> USE DEF emergencyStop, Enter, Forget, es, ref
<1>1. TypeOK'
  <2>1. safety' \in 0 .. HomingMax
    BY Sizes
  <2>2. state' \in States /\ pending' \in Pendings /\ hp' \in HomingPhase
    BY DEF States, Pendings, HomingPhase
  <2>3. brakeReleased' \in BOOLEAN /\ manualBrake' \in BOOLEAN
    OBVIOUS
  <2>4. /\ since' \in Nat /\ pendTarget' \in Int /\ left' \in Nat /\ toMax' \in Nat
        /\ dir' \in {UP, DOWN} /\ isHomed' \in BOOLEAN /\ course' \in Int /\ stepCount' \in Int
    BY DEF IInv, TypeOK
  <2>5. /\ esMin' \in EndstopType /\ esMax' \in EndstopType
        /\ pos' \in -Margin .. Travel + Margin /\ silence' \in 0 .. SilenceBound + 1
    BY DEF IInv, TypeOK
  <2> QED  BY <2>1, <2>2, <2>3, <2>4, <2>5 DEF TypeOK
<1>2. BrakeDiscipline' /\ Clocks' /\ Jobs' /\ Silences'
  BY DEF BrakeDiscipline, Busy, Clocks, Jobs, Silences
<1> QED  BY <1>1, <1>2 DEF IInv

\* BRAKE: at rest, and as a stop.
LEMMA BrakeKeeps == IInv /\ CmdBrake => IInv'
<1> SUFFICES ASSUME IInv, CmdBrake PROVE IInv'  OBVIOUS
<1>1. CASE BrakeRelease \/ BrakeClamp
  <2> USE <1>1 DEF BrakeRelease, BrakeClamp, job, home, ref, es
  <2>1. TypeOK'
    BY DEF IInv, TypeOK
  <2>2. BrakeDiscipline' /\ Clocks' /\ Jobs' /\ Silences'
    BY DEF IInv, BrakeDiscipline, Busy, Clocks, Jobs, Silences
  <2> QED  BY <2>1, <2>2 DEF IInv
<1>2. CASE Busy /\ emergencyStop
  BY <1>2, StopKeeps
<1> QED  BY <1>1, <1>2 DEF CmdBrake

\* planMove starts a movement, or ends one that has nowhere to go.
LEMMA PlanKeeps ==
    ASSUME IInv, NEW t \in Int, planMove(t),
           state = "move" \/ PreExpired("move"),
           UNCHANGED <<ref, brk, pos>>,
           esMin' \in EndstopType, esMax' \in EndstopType,
           silence' \in 0 .. SilenceBound + 1
    PROVE  IInv'
<1> DEFINE delta == constrain(t) - stepCount
           dist  == IF delta < 0 THEN -delta ELSE delta
<1>1. delta \in Int /\ dist \in Nat
  BY DEF IInv, TypeOK, constrain
<1> HIDE DEF delta, dist
<1>2. \/ enterPost /\ UNCHANGED dir
      \/ /\ Enter("move") /\ left' = dist /\ UNCHANGED home
         /\ dir' = IF delta > 0 THEN UP ELSE DOWN
  BY DEF planMove, delta, dist
<1>3. WorldType'
  BY <1>2 DEF IInv, TypeOK, WorldType, ref
<1>4. Busy /\ brakeReleased /\ ~manualBrake /\ hp = "none"
  BY DEF IInv, BrakeDiscipline, Busy, Jobs, PreExpired
<1>5. CASE enterPost
  BY <1>3, <1>4, <1>5, PostKeeps
<1>6. CASE Enter("move") /\ left' = dist /\ UNCHANGED home
  <2> USE <1>6 DEF Enter, home, brk
  <2>1. TypeOK'
    <3>1. state' \in States /\ pending' \in Pendings
      BY DEF States, Pendings
    <3>2. /\ hp' \in HomingPhase /\ since' \in Nat /\ pendTarget' \in Int
          /\ left' \in Nat /\ safety' \in 0 .. HomingMax /\ toMax' \in Nat
      BY <1>1 DEF IInv, TypeOK
    <3>3. brakeReleased' \in BOOLEAN /\ manualBrake' \in BOOLEAN
      BY DEF IInv, TypeOK
    <3> QED  BY <1>3, <3>1, <3>2, <3>3 DEF TypeOK, WorldType
  <2>2. BrakeDiscipline' /\ Clocks' /\ Jobs' /\ Silences'
    BY <1>4 DEF BrakeDiscipline, Busy, Clocks, Jobs, Silences
  <2> QED  BY <2>1, <2>2 DEF IInv
<1> QED  BY <1>2, <1>5, <1>6

\* POS: at rest, while the brake opens, and in flight.
LEMMA PosKeeps == ASSUME IInv, NEW t \in Targets, CmdPos(t) PROVE IInv'
<1>1. t \in Int  BY Parameters
<1>2. /\ esMin' \in EndstopType /\ esMax' \in EndstopType
      /\ silence' \in 0 .. SilenceBound + 1
      /\ UNCHANGED <<ref, es, pos, silence>>
  BY DEF CmdPos, es, IInv, TypeOK
<1>3. CASE PosStart(t)
  BY <1>1, <1>2, <1>3, StartKeeps DEF PosStart, IInv, TypeOK, WorldType, ref
<1>4. CASE PosRetarget(t)
  <2> USE <1>4 DEF PosRetarget, home, brk
  <2>1. TypeOK'
    BY <1>1, <1>2 DEF IInv, TypeOK, ref
  <2>2. BrakeDiscipline' /\ Clocks' /\ Jobs' /\ Silences'
    BY <1>2 DEF IInv, BrakeDiscipline, Busy, Clocks, Jobs, Silences
  <2> QED  BY <2>1, <2>2 DEF IInv
<1>5. CASE PosInFlight(t)
  BY <1>1, <1>2, <1>5, PlanKeeps DEF PosInFlight
<1> QED  BY <1>3, <1>4, <1>5 DEF CmdPos

\* UP_START and DOWN_START start a jog or turn it round.
LEMMA JogKeeps == ASSUME IInv, NEW d \in {UP, DOWN}, CmdJog(d) PROVE IInv'
<1>1. UNCHANGED <<pendTarget, left, home, ref, es, pos, silence>> /\ dir' = d
  BY DEF CmdJog, JogStart, JogReverse
<1>2. WorldType'
  BY <1>1 DEF IInv, TypeOK, WorldType, ref, es
<1>3. CASE JogStart(d)
  BY <1>1, <1>2, <1>3, StartKeeps DEF JogStart, IInv, TypeOK
<1>4. CASE JogReverse(d)
  <2> USE <1>4 DEF JogReverse, home, brk
  <2>1. TypeOK'
    BY <1>1, <1>2 DEF IInv, TypeOK, WorldType
  <2>2. BrakeDiscipline' /\ Clocks' /\ Jobs' /\ Silences'
    BY <1>1 DEF IInv, BrakeDiscipline, Busy, Clocks, Jobs, Silences
  <2> QED  BY <2>1, <2>2 DEF IInv
<1> QED  BY <1>3, <1>4 DEF CmdJog

\* UP_STOP and DOWN_STOP end a jog, running or still waiting for the brake.
LEMMA JogStopKeeps == ASSUME IInv, CmdJogStop PROVE IInv'
<1>1. WorldType'
  BY DEF CmdJogStop, IInv, TypeOK, WorldType, ref, es
<1> QED  BY <1>1, PostKeeps DEF CmdJogStop, Busy

\* H opens the brake.
LEMMA HomingKeeps == ASSUME IInv, CmdHoming PROVE IInv'
<1>1. WorldType' /\ pendTarget' \in Int
  BY DEF CmdHoming, IInv, TypeOK, WorldType, job, ref, es
<1> QED  BY <1>1, StartKeeps DEF CmdHoming, job

\* A VEL: that moves the mast, whether it starts a run or continues one.
LEMMA VelKeeps == ASSUME IInv, NEW d \in {UP, DOWN}, CmdVel(d) PROVE IInv'
<1>1. /\ UNCHANGED <<pendTarget, left, home, ref, es, pos>>
      /\ dir' = d /\ silence' = 0
  BY DEF CmdVel
<1>2. 0 \in 0 .. SilenceBound + 1
  BY Sizes
<1>3. WorldType'
  BY <1>1, <1>2 DEF IInv, TypeOK, WorldType, ref, es
<1>4. CASE VelStart(d)
  BY <1>1, <1>3, <1>4, StartKeeps DEF VelStart, IInv, TypeOK
<1>5. CASE VelUpdate
  <2> USE <1>5 DEF VelUpdate, home, brk
  <2>1. since' \in Nat
    BY DEF IInv, TypeOK
  <2>2. TypeOK'
    BY <1>1, <1>3, <2>1 DEF IInv, TypeOK, WorldType
  <2>3. BrakeDiscipline' /\ Jobs'
    BY <1>1 DEF IInv, BrakeDiscipline, Busy, Jobs
  <2>4. Clocks' /\ Silences'
    <3>1. CASE state = "vel"
      <4>1. state' = "vel" /\ since' = 0  BY <3>1
      <4> QED  BY <4>1, <1>1, Sizes DEF Clocks, Silences
    <3>2. CASE state = "pre"
      <4>1. state' = "pre" /\ since' = since  BY <3>2
      <4> QED  BY <4>1, <3>2, <2>1, <1>1 DEF IInv, Clocks, Silences
    <3> QED  BY <3>1, <3>2 DEF VelOn
  <2> QED  BY <2>2, <2>3, <2>4 DEF IInv
<1> QED  BY <1>4, <1>5 DEF CmdVel

\* VEL: under the lowest speed is a stop.
LEMMA VelZeroKeeps == ASSUME IInv, CmdVelZero PROVE IInv'
<1>1. WorldType'
  BY DEF CmdVelZero, IInv, TypeOK, WorldType, ref, es
<1> QED  BY <1>1, PostKeeps DEF CmdVelZero, VelOn, Busy

\* FDC starts the endstop test at rest and leaves the brake alone.
LEMMA FdcKeeps == ASSUME IInv, CmdFdc PROVE IInv'
<1> USE DEF CmdFdc, Enter, home, ref, brk, es
<1>1. TypeOK'
  <2>1. WorldType'
    BY DEF IInv, TypeOK, WorldType
  <2>2. state' \in States /\ pending' \in Pendings
    BY DEF States, Pendings
  <2>3. /\ since' \in Nat /\ pendTarget' \in Int
        /\ hp' \in HomingPhase /\ left' \in Nat /\ safety' \in 0 .. HomingMax /\ toMax' \in Nat
        /\ brakeReleased' \in BOOLEAN /\ manualBrake' \in BOOLEAN
    BY DEF IInv, TypeOK
  <2> QED  BY <2>1, <2>2, <2>3 DEF TypeOK, WorldType
<1>2. BrakeDiscipline' /\ Clocks' /\ Jobs' /\ Silences'
  BY DEF IInv, BrakeDiscipline, Busy, Clocks, Jobs, Silences
<1> QED  BY <1>1, <1>2 DEF IInv

\* No command breaks the invariant.
LEMMA CommandKeeps == ASSUME IInv, handleCommand PROVE IInv'
BY StopKeeps, BrakeKeeps, PosKeeps, JogKeeps, JogStopKeeps, HomingKeeps,
   VelKeeps, VelZeroKeeps, FdcKeeps DEF handleCommand, CmdStop

-----------------------------------------------------------------------------
(* Passes of loop().                                                       *)

\* The endstops and the history keep their types over a pass, and a velocity
\* run grows older by at most one pass.
LEMMA PassWorld ==
    ASSUME IInv, UpdateEndstops, Tick
    PROVE  /\ esMin' \in EndstopType /\ esMax' \in EndstopType
           /\ silence' \in 0 .. SilenceBound + 1
           /\ VelOn' => silence' <= silence + 1
<1>1. pos \in Int /\ esMin \in EndstopType /\ esMax \in EndstopType
  BY DEF IInv, TypeOK
<1>2. esMin' \in EndstopType /\ esMax' \in EndstopType
  BY <1>1, EndstopsType
<1>3. silence \in 0 .. SilenceBound + 1 /\ SilenceBound \in Nat
  BY Sizes DEF IInv, TypeOK
<1>4. silence' = IF ~VelOn' THEN 0
                 ELSE IF silence > SilenceBound THEN silence ELSE silence + 1
  BY DEF Tick
<1>5. silence' \in 0 .. SilenceBound + 1 /\ (VelOn' => silence' <= silence + 1)
  BY <1>3, <1>4
<1> QED  BY <1>2, <1>5

\* A step that stays in its state and lets its timer run no further than its
\* limit.
LEMMA StayKeeps ==
    ASSUME IInv, UNCHANGED <<state, pending, brk>>, WorldType', Tick,
           VelOn' => silence' <= silence + 1,
           hp' \in HomingPhase, hp = "none" <=> hp' = "none",
           pendTarget' \in Int, left' \in Nat, safety' \in 0 .. HomingMax, toMax' \in Nat,
           \/ since' = since /\ state \notin {"pre", "vel"}
           \/ /\ since' = since + 1
              /\ state \in {"pre", "post"} => since < RelayTicks
              /\ state = "vel" => since <= VelTicks
    PROVE  IInv'
<1> USE DEF brk
<1>1. TypeOK'
  BY DEF IInv, TypeOK, WorldType
<1>2. BrakeDiscipline' /\ Jobs'
  BY DEF IInv, BrakeDiscipline, Busy, Jobs
<1>3. since \in Nat /\ since' \in Nat /\ silence \in Int /\ silence' \in Int
  BY <1>1 DEF IInv, TypeOK
<1>4. Clocks'
  BY <1>3, Sizes DEF IInv, Clocks
<1>5. Silences'
  <2>1. CASE state \in {"pre", "vel"}
    <3>1. since' = since + 1  BY <2>1
    <3>2. VelOn' <=> VelOn  BY DEF VelOn
    <3>3. VelOn => silence' <= silence + 1  BY <3>2
    <3> QED  BY <1>3, <3>1, <3>3, Sizes DEF IInv, Silences, VelOn
  <2>2. CASE state \notin {"pre", "vel"}
    BY <2>2 DEF Silences
  <2> QED  BY <2>1, <2>2
<1> QED  BY <1>1, <1>2, <1>4, <1>5 DEF IInv

\* Passes in which only time goes by.
LEMMA WaitKeeps ==
    ASSUME IInv, UpdateEndstops, Tick,
           Idle \/ PreWait \/ NotDue \/ VelNotDue \/ PostWait \/ FdcWait
    PROVE  IInv'
<1>1. /\ UNCHANGED <<state, pending, pendTarget, dir, left, home, ref, brk, pos>>
      /\ \/ since' = since /\ state \notin {"pre", "vel"}
         \/ /\ since' = since + 1
            /\ state \in {"pre", "post"} => since < RelayTicks
            /\ state = "vel" => ~(since > VelTicks)
  BY DEF Idle, PreWait, NotDue, VelNotDue, VelExpired, PostWait, FdcWait, Keep
<1>2. \/ since' = since /\ state \notin {"pre", "vel"}
      \/ /\ since' = since + 1
         /\ state \in {"pre", "post"} => since < RelayTicks
         /\ state = "vel" => since <= VelTicks
  BY <1>1, Sizes DEF IInv, TypeOK
<1>3. WorldType' /\ (VelOn' => silence' <= silence + 1)
  BY <1>1, PassWorld DEF IInv, TypeOK, WorldType, ref
<1>4. /\ hp' \in HomingPhase /\ (hp = "none" <=> hp' = "none")
      /\ pendTarget' \in Int /\ left' \in Nat /\ safety' \in 0 .. HomingMax /\ toMax' \in Nat
  BY <1>1 DEF IInv, TypeOK, home
<1> QED  BY <1>1, <1>2, <1>3, <1>4, StayKeeps

\* An endstop contact, in any movement.
LEMMA AbortKeeps ==
    ASSUME IInv, UpdateEndstops, Tick, Busy, NEW d, fdcAbort(d)
    PROVE  IInv'
<1>1. WorldType'
  BY PassWorld DEF fdcAbort, IInv, TypeOK, WorldType
<1> QED  BY <1>1, PostKeeps DEF fdcAbort

\* The world after a pulse.
LEMMA PulseWorld ==
    ASSUME IInv, UpdateEndstops, Tick, NEW d \in {UP, DOWN}, doPulse(d),
           dir' = dir, isHomed' \in BOOLEAN, course' = course
    PROVE  WorldType'
BY PassWorld, PulseType DEF IInv, TypeOK, WorldType

\* A pulse of a POS: movement, its last one included.
LEMMA MoveKeeps == ASSUME IInv, UpdateEndstops, Tick, MoveStep PROVE IInv'
<1> USE DEF MoveStep
<1>1. CASE Abort(dir)
  BY <1>1, AbortKeeps DEF Abort, Busy
<1>2. CASE ~Abort(dir)
  <2>1. doPulse(dir) /\ dir' = dir /\ isHomed' = isHomed /\ course' = course /\ UNCHANGED brk
    BY <1>2
  <2>2. WorldType'
    BY <2>1, PulseWorld DEF IInv, TypeOK
  <2>3. CASE enterPost
    BY <2>1, <2>2, <2>3, PostKeeps DEF Busy
  <2>4. CASE left > 1 /\ left' = left - 1 /\ UNCHANGED <<state, pending, since, pendTarget, home>>
    <3>1. /\ hp' = hp /\ left' \in Nat
          /\ pendTarget' \in Int /\ hp' \in HomingPhase
          /\ safety' \in 0 .. HomingMax /\ toMax' \in Nat
      BY <2>4 DEF IInv, TypeOK, home
    <3>2. VelOn' => silence' <= silence + 1
      BY PassWorld
    <3> QED  BY <2>1, <2>2, <2>4, <3>1, <3>2, StayKeeps
  <2>5. left > 1 \/ left <= 1
    BY DEF IInv, TypeOK
  <2> QED  BY <1>2, <2>3, <2>4, <2>5
<1> QED  BY <1>1, <1>2

\* A pulse of a jog.
LEMMA JogPulseKeeps == ASSUME IInv, UpdateEndstops, Tick, JogStep PROVE IInv'
<1> USE DEF JogStep
<1>1. CASE Abort(dir)
  BY <1>1, AbortKeeps DEF Abort, Busy
<1>2. CASE ~Abort(dir)
  <2>1. /\ doPulse(dir)
        /\ UNCHANGED <<state, pending, since, job, home, isHomed, course, brk>>
    BY <1>2
  <2>2. WorldType'
    BY <2>1, PulseWorld DEF IInv, TypeOK, job
  <2>3. /\ hp' = hp /\ left' \in Nat
        /\ pendTarget' \in Int /\ hp' \in HomingPhase
        /\ safety' \in 0 .. HomingMax /\ toMax' \in Nat
    BY <2>1 DEF IInv, TypeOK, home, job
  <2>4. VelOn' => silence' <= silence + 1
    BY PassWorld
  <2> QED  BY <2>1, <2>2, <2>3, <2>4, StayKeeps
<1> QED  BY <1>1, <1>2

\* A pulse of velocity mode, whose watchdog grows older with it.
LEMMA VelPulseKeeps == ASSUME IInv, UpdateEndstops, Tick, VelStep PROVE IInv'
<1> USE DEF VelStep
<1>1. CASE Abort(dir)
  BY <1>1, AbortKeeps DEF Abort, Busy
<1>2. CASE ~Abort(dir)
  <2>1. /\ doPulse(dir) /\ state = "vel" /\ since' = since + 1 /\ ~(since > VelTicks)
        /\ UNCHANGED <<state, pending, job, home, isHomed, course, brk>>
    BY <1>2 DEF VelExpired
  <2>2. since <= VelTicks
    BY <2>1, Sizes DEF IInv, TypeOK
  <2>3. WorldType'
    BY <2>1, PulseWorld DEF IInv, TypeOK, job
  <2>4. /\ hp' = hp /\ left' \in Nat
        /\ pendTarget' \in Int /\ hp' \in HomingPhase
        /\ safety' \in 0 .. HomingMax /\ toMax' \in Nat
    BY <2>1 DEF IInv, TypeOK, home, job
  <2>5. VelOn' => silence' <= silence + 1
    BY PassWorld
  <2> QED  BY <2>1, <2>2, <2>3, <2>4, <2>5, StayKeeps
<1> QED  BY <1>1, <1>2

-----------------------------------------------------------------------------
(* Homing.                                                                 *)

\* A seek pulses on, or fails at its limit.
LEMMA SeekKeeps ==
    ASSUME IInv, UpdateEndstops, Tick, state = "homing",
           NEW phase \in HomingPhase, NEW d \in {UP, DOWN}, NEW counter \in Nat,
           phase # "none", Seek(phase, d, counter)
    PROVE  IInv'
<1>1. doPulse(d) /\ dir' = dir /\ course' = course /\ UNCHANGED brk
  BY DEF Seek
<1>2. isHomed' \in BOOLEAN
  BY DEF Seek, IInv, TypeOK
<1>3. WorldType'
  BY <1>1, <1>2, PulseWorld
<1>4. CASE enterPost
  BY <1>1, <1>3, <1>4, PostKeeps DEF Busy
<1>5. CASE /\ ~(safety + 1 > HomingMax) /\ safety' = safety + 1 /\ toMax' = counter
           /\ UNCHANGED <<state, pending, since, pendTarget, left, hp>>
  <2>1. safety' \in 0 .. HomingMax
    BY <1>5, Sizes DEF IInv, TypeOK
  <2>2. /\ hp' \in HomingPhase /\ (hp = "none" <=> hp' = "none")
        /\ pendTarget' \in Int /\ left' \in Nat /\ toMax' \in Nat
    BY <1>5 DEF IInv, TypeOK
  <2>3. VelOn' => silence' <= silence + 1
    BY PassWorld
  <2> QED  BY <1>1, <1>3, <1>5, <2>1, <2>2, <2>3, StayKeeps
<1> QED  BY <1>4, <1>5 DEF Seek

\* The endstop that was sought begins the next phase.
LEMMA FoundKeeps ==
    ASSUME IInv, UpdateEndstops, Tick, state = "homing",
           NEW phase \in HomingPhase, NEW next \in HomingPhase, NEW d, NEW back \in Nat,
           phase # "none", next # "none", Found(phase, d, next, back)
    PROVE  IInv'
<1> USE DEF Found, ref
<1>1. WorldType'
  BY PassWorld DEF IInv, TypeOK, WorldType
<1>2. safety' \in 0 .. HomingMax
  BY Sizes
<1>3. /\ hp' \in HomingPhase /\ (hp = "none" <=> hp' = "none")
      /\ pendTarget' \in Int /\ left' \in Nat /\ toMax' \in Nat
  BY DEF IInv, TypeOK
<1>4. VelOn' => silence' <= silence + 1
  BY PassWorld
<1>5. UNCHANGED <<state, pending, since, brk>>
  OBVIOUS
<1> QED  BY <1>1, <1>2, <1>3, <1>4, <1>5, StayKeeps

\* A pulse off the low endstop, the last one of the first backoff included.
LEMMA BackoffKeeps ==
    ASSUME IInv, UpdateEndstops, Tick, state = "homing",
           BackoffPulse("backoff1") \/ BackoffPulse("backoff2") \/ BackoffOneDone
    PROVE  IInv'
<1>1. /\ doPulse(UP)
      /\ UNCHANGED <<state, pending, since, pendTarget, dir, isHomed, course, brk>>
  BY DEF BackoffPulse, BackoffOneDone
<1>2. WorldType'
  BY <1>1, PulseWorld DEF IInv, TypeOK
<1>3. /\ left' \in Nat /\ pendTarget' \in Int /\ toMax' \in Nat
      /\ hp' \in HomingPhase /\ (hp = "none" <=> hp' = "none")
  BY DEF BackoffPulse, BackoffOneDone, IInv, TypeOK, home, HomingPhase
<1>4. safety' \in 0 .. HomingMax
  BY Sizes DEF BackoffPulse, BackoffOneDone, IInv, TypeOK, home
<1>5. VelOn' => silence' <= silence + 1
  BY PassWorld
<1> QED  BY <1>1, <1>2, <1>3, <1>4, <1>5, StayKeeps

\* The end of homing: the machine zero and the course.
LEMMA HomingDoneKeeps ==
    ASSUME IInv, UpdateEndstops, Tick, state = "homing", homingDone
    PROVE  IInv'
<1>1. pos' \in -Margin .. Travel + Margin /\ course' \in Int
  BY Sizes DEF homingDone, IInv, TypeOK, UP
<1>2. WorldType'
  BY <1>1, PassWorld DEF homingDone, IInv, TypeOK, WorldType
<1> QED  BY <1>2, PostKeeps DEF homingDone, Busy

\* A pass of homing, whichever its phase.
LEMMA HomingTickKeeps == ASSUME IInv, UpdateEndstops, Tick, homingTick PROVE IInv'
<1>1. state = "homing" /\ Backoff \in Nat /\ toMax \in Nat /\ toMax + 1 \in Nat
  BY Sizes DEF homingTick, IInv, TypeOK
<1>2. CASE \/ Seek("seekMin", DOWN, toMax)
           \/ Seek("seekMax", UP, toMax + 1)
           \/ Seek("returnMin", DOWN, toMax)
  BY <1>1, <1>2, SeekKeeps DEF HomingPhase
<1>3. CASE \/ Found("seekMin", DOWN, "backoff1", Backoff)
           \/ Found("seekMax", UP, "returnMin", 0)
           \/ Found("returnMin", DOWN, "backoff2", Backoff)
  BY <1>1, <1>3, FoundKeeps DEF HomingPhase
<1>4. CASE BackoffPulse("backoff1") \/ BackoffPulse("backoff2") \/ BackoffOneDone
  BY <1>1, <1>4, BackoffKeeps
<1>5. CASE homingDone
  BY <1>1, <1>5, HomingDoneKeeps
<1> QED  BY <1>2, <1>3, <1>4, <1>5 DEF homingTick

-----------------------------------------------------------------------------
(* Timers that expire.                                                     *)

\* The brake is open: a jog or a velocity run begins, with a fresh watchdog.
LEMMA GoKeeps == ASSUME IInv, UpdateEndstops, Tick, PreGo PROVE IInv'
<1> USE DEF PreGo, Enter, home, ref, brk
<1>1. state = "pre" /\ pending \in {"jog", "vel"} /\ since >= RelayTicks
  BY DEF PreExpired
<1>2. /\ state' = pending /\ pending' = "none" /\ since' = 0
      /\ UNCHANGED <<hp, brakeReleased, manualBrake>>
  OBVIOUS
<1>3. WorldType'
  BY PassWorld DEF IInv, TypeOK, WorldType
<1>4. TypeOK'
  <2>1. state' \in States /\ pending' \in Pendings
    BY <1>1, <1>2 DEF States, Pendings
  <2>2. /\ since' \in Nat /\ pendTarget' \in Int
        /\ hp' \in HomingPhase /\ left' \in Nat /\ safety' \in 0 .. HomingMax /\ toMax' \in Nat
        /\ brakeReleased' \in BOOLEAN /\ manualBrake' \in BOOLEAN
    BY DEF IInv, TypeOK
  <2> QED  BY <1>3, <2>1, <2>2 DEF TypeOK, WorldType
<1>5. BrakeDiscipline' /\ Jobs'
  BY <1>1, <1>2 DEF IInv, BrakeDiscipline, Busy, Jobs
<1>6. Clocks'
  BY <1>1, <1>2, Sizes DEF Clocks
<1>7. Silences'
  <2>1. CASE pending = "vel"
    <3>1. silence <= since /\ since <= RelayTicks
      BY <1>1, <2>1 DEF IInv, Silences, Clocks
    <3>2. silence' <= silence + 1
      BY <1>2, <2>1, PassWorld DEF VelOn
    <3>3. since \in Nat /\ silence \in Int /\ silence' \in Int /\ RelayTicks \in Nat
      BY <1>4, Sizes DEF IInv, TypeOK
    <3>4. silence' <= RelayTicks + 1 + since'
      BY <1>2, <3>1, <3>2, <3>3
    <3> QED  BY <1>2, <2>1, <3>4 DEF Silences
  <2>2. CASE pending = "jog"
    BY <1>2, <2>2 DEF Silences
  <2> QED  BY <1>1, <2>1, <2>2
<1> QED  BY <1>4, <1>5, <1>6, <1>7 DEF IInv

\* The brake is open: homing begins, and the old reference is gone.
LEMMA HomingStartKeeps == ASSUME IInv, UpdateEndstops, Tick, homingStart PROVE IInv'
<1> USE DEF homingStart, Enter, brk
<1>1. state = "pre"
  BY DEF PreExpired
<1>2. WorldType'
  <2>1. isHomed' = FALSE /\ course' = 0
    OBVIOUS
  <2>2. stepCount' \in Int /\ dir' \in {UP, DOWN} /\ pos' \in -Margin .. Travel + Margin
    BY DEF IInv, TypeOK
  <2>3. isHomed' \in BOOLEAN
    BY <2>1
  <2>4. course' \in Int
    BY <2>1
  <2>5. /\ esMin' \in EndstopType /\ esMax' \in EndstopType
        /\ silence' \in 0 .. SilenceBound + 1
    BY PassWorld
  <2> HIDE DEF homingStart
  <2> QED  BY <2>2, <2>3, <2>4, <2>5 DEF WorldType
<1>3. TypeOK'
  <2>1. state' \in States /\ pending' \in Pendings /\ hp' \in HomingPhase
    BY DEF States, Pendings, HomingPhase
  <2>2. safety' \in 0 .. HomingMax
    BY Sizes
  <2>3. /\ since' \in Nat /\ pendTarget' \in Int /\ left' \in Nat /\ toMax' \in Nat
        /\ brakeReleased' \in BOOLEAN /\ manualBrake' \in BOOLEAN
    BY DEF IInv, TypeOK
  <2> QED  BY <1>2, <2>1, <2>2, <2>3 DEF TypeOK, WorldType
<1>4. BrakeDiscipline' /\ Clocks' /\ Jobs' /\ Silences'
  BY <1>1 DEF IInv, BrakeDiscipline, Busy, Clocks, Jobs, Silences
<1> QED  BY <1>3, <1>4 DEF IInv

\* The motor has settled: the brake closes.  A test of the endstops ends.
LEMMA RestKeeps == ASSUME IInv, UpdateEndstops, Tick, PostEnd \/ FdcEnd PROVE IInv'
<1>1. /\ Enter("idle") /\ UNCHANGED <<dir, left, home, ref, manualBrake, pos>>
      /\ state \in {"post", "fdc"}
  BY DEF PostEnd, FdcEnd, brk
<1>2. /\ state = "post" => brakeReleased' = IF manualBrake THEN brakeReleased ELSE FALSE
      /\ state = "fdc" => brakeReleased' = brakeReleased
  BY DEF PostEnd, FdcEnd, brk
<1> USE DEF Enter, home, ref
<1>3. TypeOK'
  <2>1. WorldType'
    BY <1>1, PassWorld DEF IInv, TypeOK, WorldType
  <2>2. state' \in States /\ pending' \in Pendings
    BY <1>1 DEF States, Pendings
  <2>3. /\ since' \in Nat /\ pendTarget' \in Int /\ left' \in Nat /\ toMax' \in Nat
        /\ hp' \in HomingPhase /\ safety' \in 0 .. HomingMax
    BY <1>1 DEF IInv, TypeOK
  <2>4. brakeReleased' \in BOOLEAN /\ manualBrake' \in BOOLEAN
    BY <1>1, <1>2 DEF IInv, TypeOK
  <2> QED  BY <2>1, <2>2, <2>3, <2>4 DEF TypeOK, WorldType
<1>4. BrakeDiscipline'
  <2>1. state' = "idle" /\ manualBrake' = manualBrake  BY <1>1
  <2>2. CASE state = "post"
    <3>1. brakeReleased /\ ~manualBrake  BY <2>2 DEF IInv, BrakeDiscipline, Busy
    <3>2. brakeReleased' = FALSE  BY <1>2, <2>2, <3>1
    <3> QED  BY <2>1, <3>1, <3>2 DEF BrakeDiscipline, Busy
  <2>3. CASE state = "fdc"
    <3>1. brakeReleased' = brakeReleased  BY <1>2, <2>3
    <3> QED  BY <2>1, <2>3, <3>1 DEF IInv, BrakeDiscipline, Busy
  <2> QED  BY <1>1, <2>2, <2>3
<1>5. Clocks' /\ Jobs' /\ Silences'
  BY <1>1 DEF IInv, Clocks, Jobs, Silences
<1> QED  BY <1>3, <1>4, <1>5 DEF IInv

\* No pass of loop() breaks the invariant.
LEMMA LoopKeeps == ASSUME IInv, loop PROVE IInv'
<1>1. UpdateEndstops /\ Tick
  BY DEF loop, Pass
<1>2. CASE Pulse
  BY <1>1, <1>2, MoveKeeps, JogPulseKeeps, VelPulseKeeps, HomingTickKeeps DEF Pulse
<1>3. CASE Idle \/ PreWait \/ NotDue \/ VelNotDue \/ PostWait \/ FdcWait
  BY <1>1, <1>3, WaitKeeps
<1>4. CASE PreMove
  BY <1>1, <1>4, PlanKeeps, PassWorld DEF PreMove, IInv, TypeOK
<1>5. CASE PreGo \/ homingStart \/ PostEnd \/ FdcEnd
  BY <1>1, <1>5, GoKeeps, HomingStartKeeps, RestKeeps
<1>6. CASE VelTimeout
  <2>1. WorldType'
    BY <1>1, <1>6, PassWorld DEF VelTimeout, IInv, TypeOK, WorldType, ref
  <2> QED  BY <1>6, <2>1, PostKeeps DEF VelTimeout, VelExpired, Busy
<1> QED  BY <1>2, <1>3, <1>4, <1>5, <1>6 DEF loop, Pass, Timer

\* Nor does a reset of the controller.
LEMMA ResetKeeps == ASSUME IInv, Reset PROVE IInv'
<1> USE DEF Reset, Enter, Forget
<1>1. TypeOK'
  <2>1. esMin' \in EndstopType /\ esMax' \in EndstopType
    BY BootType DEF IInv, TypeOK
  <2>2. state' \in States /\ pending' \in Pendings /\ hp' \in HomingPhase /\ dir' \in {UP, DOWN}
    BY DEF States, Pendings, HomingPhase
  <2>3. safety' \in 0 .. HomingMax /\ silence' \in 0 .. SilenceBound + 1
    BY Sizes
  <2>4. /\ since' \in Nat /\ pendTarget' \in Int /\ left' \in Nat /\ toMax' \in Nat
        /\ course' \in Int /\ stepCount' \in Int
    OBVIOUS
  <2>5. isHomed' \in BOOLEAN /\ brakeReleased' \in BOOLEAN /\ manualBrake' \in BOOLEAN
    OBVIOUS
  <2>6. pos' \in -Margin .. Travel + Margin
    BY DEF IInv, TypeOK
  <2> QED  BY <2>1, <2>2, <2>3, <2>4, <2>5, <2>6 DEF TypeOK
<1>2. BrakeDiscipline' /\ Clocks' /\ Jobs' /\ Silences'
  BY DEF BrakeDiscipline, Busy, Clocks, Jobs, Silences
<1> QED  BY <1>1, <1>2 DEF IInv

\* Nor, of course, a step that changes nothing.
LEMMA StutterKeeps == ASSUME IInv, UNCHANGED vars PROVE IInv'
BY DEF vars, job, home, ref, brk, es, IInv, TypeOK, BrakeDiscipline, Busy, Clocks,
       Jobs, Silences

\* Every step preserves the invariant.
LEMMA NextIInv == IInv /\ [Next]_vars => IInv'
BY CommandKeeps, LoopKeeps, ResetKeeps, StutterKeeps DEF Next

\* IInv holds in every reachable state.
THEOREM Invariance == Spec => []IInv
BY InitIInv, NextIInv, PTL DEF Spec

-----------------------------------------------------------------------------
(* What follows.                                                           *)

\* Every variable keeps its type.
THEOREM TypeCorrect == Spec => []TypeOK
BY Invariance, PTL DEF IInv

\* The brake is open exactly while it has to be.
THEOREM BrakeSafe == Spec => []BrakeDiscipline
BY Invariance, PTL DEF IInv

\* The clocks of a velocity run bound its silence.
LEMMA IInvWatchdog == IInv => VelWatchdog
<1> SUFFICES ASSUME IInv, VelOn PROVE silence <= SilenceBound
  BY DEF VelWatchdog
<1>1. since \in Nat /\ silence \in Int
  BY DEF IInv, TypeOK
<1>2. CASE state = "pre" /\ pending = "vel"
  BY <1>1, <1>2, Sizes DEF IInv, Clocks, Silences
<1>3. CASE state = "vel"
  BY <1>1, <1>3, Sizes DEF IInv, Clocks, Silences
<1> QED  BY <1>2, <1>3 DEF VelOn

\* The dead-man: no velocity run outlives its last command by more than a relay
\* delay and a watchdog window.
THEOREM DeadMan == Spec => []VelWatchdog
BY Invariance, IInvWatchdog, PTL

-----------------------------------------------------------------------------
(* The interlock: each command, pass and reset is a step of BrakeInterlock *)
(* under the mapping of MastFirmware, or leaves its variables alone.       *)

WaitNow == IF state \in {"pre", "post"} THEN since ELSE 0

\* The abstract phase and clock of each concrete state.
LEMMA PhaseOf ==
    ASSUME state \in States
    PROVE  /\ state = "pre" => Phase = "releasing" /\ WaitNow = since
           /\ state = "post" => Phase = "settling" /\ WaitNow = since
           /\ state \in Moving => Phase = "driving" /\ WaitNow = 0
           /\ state \in {"idle", "fdc"} => Phase = "stopped" /\ WaitNow = 0
BY DEF Phase, WaitNow, Moving, States

\* And those after a step.
LEMMA PhaseNext ==
    ASSUME state' \in States
    PROVE  /\ state' = "pre" => Phase' = "releasing" /\ WaitNow' = since'
           /\ state' = "post" => Phase' = "settling" /\ WaitNow' = since'
           /\ state' \in Moving => Phase' = "driving" /\ WaitNow' = 0
           /\ state' \in {"idle", "fdc"} => Phase' = "stopped" /\ WaitNow' = 0
BY DEF Phase, WaitNow, Moving, States

\* The steps of the interlock, in the variables of the firmware.
IStep == Interlock!Next \/ UNCHANGED <<Phase, WaitNow, brakeReleased, manualBrake, pos>>

\* IStep is a step of the interlock under the refinement mapping.
LEMMA IStepIsStep == IStep <=> [Interlock!Next]_(Interlock!vars)
BY DEF IStep, Interlock!vars, WaitNow

\* An immediate stop.
LEMMA EmergencyStep ==
    ASSUME state' \in {"idle", "fdc"}, since' \in Nat,
           brakeReleased' = FALSE, manualBrake' = FALSE, UNCHANGED pos
    PROVE  IStep
<1>1. Phase' = "stopped" /\ WaitNow' = 0
  BY PhaseNext DEF States
<1>2. Interlock!Emergency
  BY <1>1 DEF Interlock!Emergency, WaitNow
<1> QED  BY <1>2 DEF IStep, Interlock!Next

\* A movement accepted at rest.
LEMMA ReleaseStep ==
    ASSUME state = "idle", NEW p, startPre(p), UNCHANGED pos
    PROVE  IStep
<1>1. Phase = "stopped"
  BY PhaseOf DEF States
<1>2. Phase' = "releasing" /\ WaitNow' = 0
  BY PhaseNext DEF States, startPre
<1>3. Interlock!Release
  BY <1>1, <1>2 DEF Interlock!Release, WaitNow, startPre
<1> QED  BY <1>3 DEF IStep, Interlock!Next

\* A movement that ends, or is cancelled before it began.
LEMMA DisengageStep ==
    ASSUME state \in Moving \cup {"pre"}, state' = "post", since' = 0, pos' \in Int,
           state = "pre" => UNCHANGED pos, UNCHANGED brk
    PROVE  IStep
<1>1. Phase \in {"releasing", "driving"} /\ (Phase = "releasing" => state = "pre")
  BY PhaseOf DEF States, Moving
<1>2. Phase' = "settling" /\ WaitNow' = 0
  BY PhaseNext DEF States
<1>3. Interlock!Disengage
  BY <1>1, <1>2 DEF Interlock!Disengage, WaitNow, brk
<1> QED  BY <1>3 DEF IStep, Interlock!Next

\* The brake has opened: the motor is engaged.
LEMMA EngageStep ==
    ASSUME IInv, state = "pre", since >= RelayTicks, state' \in Moving,
           UNCHANGED <<brk, pos>>
    PROVE  IStep
<1>1. since = RelayTicks
  BY Sizes DEF IInv, Clocks, TypeOK
<1>2. Phase = "releasing" /\ WaitNow = RelayTicks
  BY <1>1, PhaseOf DEF States
<1>3. Phase' = "driving" /\ WaitNow' = 0
  BY PhaseNext DEF States, Moving
<1>4. Interlock!Engage
  BY <1>2, <1>3 DEF Interlock!Engage, WaitNow, brk
<1> QED  BY <1>4 DEF IStep, Interlock!Next

\* A pulse.
LEMMA DriveStep ==
    ASSUME state \in Moving, state' \in Moving, pos' \in Int, UNCHANGED brk
    PROVE  IStep
<1>1. Phase = "driving" /\ WaitNow = 0 /\ Phase' = "driving" /\ WaitNow' = 0
  BY PhaseOf, PhaseNext DEF States, Moving
<1>2. Interlock!Drive
  BY <1>1 DEF Interlock!Drive, WaitNow, brk
<1> QED  BY <1>2 DEF IStep, Interlock!Next

\* A relay that is settling.
LEMMA SettlingStep ==
    ASSUME IInv, state \in {"pre", "post"}, since < RelayTicks, since' = since + 1,
           UNCHANGED <<state, brk, pos>>
    PROVE  IStep
<1>1. /\ Phase \in {"releasing", "settling"} /\ WaitNow = since
      /\ Phase' = Phase /\ WaitNow' = since + 1
  BY PhaseOf, PhaseNext DEF States, Phase
<1>2. Interlock!Settling
  BY <1>1 DEF Interlock!Settling, WaitNow, brk
<1> QED  BY <1>2 DEF IStep, Interlock!Next

\* The motor has settled: the brake closes.
LEMMA ClampStep ==
    ASSUME IInv, UNCHANGED pos, PostEnd
    PROVE  IStep
<1>1. state = "post" /\ since = RelayTicks /\ ~manualBrake
  BY Sizes DEF PostEnd, IInv, Clocks, TypeOK, BrakeDiscipline, Busy
<1>2. Phase = "settling" /\ WaitNow = RelayTicks
  BY <1>1, PhaseOf DEF States
<1>3. /\ Phase' = "stopped" /\ WaitNow' = 0
      /\ brakeReleased' = FALSE /\ manualBrake' = manualBrake
  BY <1>1, PhaseNext DEF PostEnd, Enter, States
<1>4. Interlock!Clamp
  BY <1>2, <1>3 DEF Interlock!Clamp, WaitNow
<1> QED  BY <1>4 DEF IStep, Interlock!Next

\* What the interlock does not see.
LEMMA SilentStep ==
    ASSUME UNCHANGED <<state, brk, pos>>, state \in {"pre", "post"} => UNCHANGED since
    PROVE  IStep
BY DEF IStep, Phase, WaitNow, brk

-----------------------------------------------------------------------------

\* planMove, brake open: the motor is engaged or kept engaged, or the movement
\* ends where it is.
LEMMA PlanStep ==
    ASSUME IInv, NEW t, planMove(t), UNCHANGED <<brk, pos>>,
           state = "move" \/ PreExpired("move")
    PROVE  IStep
<1>1. pos' \in Int
  BY Sizes DEF IInv, TypeOK
<1>2. state = "move" \/ (state = "pre" /\ since >= RelayTicks)
  BY DEF PreExpired
<1>3. CASE state' = "post" /\ since' = 0
  BY <1>1, <1>2, <1>3, DisengageStep DEF Moving
<1>4. CASE state' = "move"
  BY <1>1, <1>2, <1>4, EngageStep, DriveStep DEF Moving
<1> QED  BY <1>3, <1>4 DEF planMove, enterPost, Enter

\* A command starts, ends or leaves alone what the interlock sees.
LEMMA CommandStep == ASSUME IInv, handleCommand PROVE IStep
<1>1. pos \in Int
  BY Sizes DEF IInv, TypeOK
<1>2. CASE emergencyStop
  BY <1>2, EmergencyStep DEF emergencyStop, Enter
<1>3. CASE BrakeClamp
  BY <1>3, EmergencyStep DEF BrakeClamp, Busy, IInv, TypeOK, States
<1>4. CASE BrakeRelease
  <2>1. Phase = "stopped" /\ UNCHANGED <<Phase, WaitNow, pos>>
    BY <1>4, PhaseOf DEF BrakeRelease, Busy, IInv, TypeOK, States, Phase, WaitNow
  <2>2. Interlock!ByHand
    BY <1>4, <2>1 DEF Interlock!ByHand, BrakeRelease, WaitNow
  <2> QED  BY <2>2 DEF IStep, Interlock!Next
<1>5. ASSUME NEW t \in Targets, CmdPos(t) PROVE IStep
  <2>1. UNCHANGED pos /\ (PosStart(t) \/ PosRetarget(t) \/ PosInFlight(t))
    BY <1>5 DEF CmdPos
  <2>2. CASE PosStart(t)
    BY <2>1, <2>2, ReleaseStep DEF PosStart
  <2>3. CASE PosRetarget(t)
    BY <2>1, <2>3, SilentStep DEF PosRetarget
  <2>4. CASE PosInFlight(t)
    BY <2>1, <2>4, PlanStep DEF PosInFlight
  <2> QED  BY <2>1, <2>2, <2>3, <2>4
<1>6. ASSUME NEW d \in {UP, DOWN}, CmdJog(d) PROVE IStep
  <2>1. UNCHANGED pos /\ (JogStart(d) \/ JogReverse(d))
    BY <1>6 DEF CmdJog
  <2>2. CASE JogStart(d)
    BY <2>1, <2>2, ReleaseStep DEF JogStart
  <2>3. CASE JogReverse(d)
    BY <2>1, <2>3, SilentStep DEF JogReverse
  <2> QED  BY <2>1, <2>2, <2>3
<1>7. CASE CmdJogStop \/ CmdVelZero
  BY <1>1, <1>7, DisengageStep
     DEF CmdJogStop, CmdVelZero, VelOn, enterPost, Enter, Moving
<1>8. CASE CmdHoming
  BY <1>8, ReleaseStep DEF CmdHoming
<1>9. ASSUME NEW d \in {UP, DOWN}, CmdVel(d) PROVE IStep
  <2>1. UNCHANGED pos /\ (VelStart(d) \/ VelUpdate)
    BY <1>9 DEF CmdVel
  <2>2. CASE VelStart(d)
    BY <2>1, <2>2, ReleaseStep DEF VelStart
  <2>3. CASE VelUpdate
    BY <2>1, <2>3, SilentStep DEF VelUpdate
  <2> QED  BY <2>1, <2>2, <2>3
<1>10. CASE CmdFdc
  <2>1. Phase = "stopped" /\ Phase' = "stopped" /\ WaitNow = 0 /\ WaitNow' = 0
    BY <1>10, PhaseOf, PhaseNext DEF CmdFdc, Enter, States
  <2> QED  BY <1>10, <2>1 DEF IStep, CmdFdc, brk
<1> QED
  BY <1>2, <1>3, <1>4, <1>5, <1>6, <1>7, <1>8, <1>9, <1>10
     DEF handleCommand, CmdStop, CmdBrake

\* The pulses of every kind of movement.
LEMMA PulseStep == ASSUME IInv, UpdateEndstops, Tick, Pulse PROVE IStep
<1>1. pos' \in Int
  <2>1. IInv'
    BY LoopKeeps DEF loop, Pass
  <2> QED  BY <2>1, Sizes DEF IInv, TypeOK
<1>2. state \in Moving /\ UNCHANGED brk
  BY DEF Pulse, MoveStep, JogStep, VelStep, homingTick, Moving, Abort, fdcAbort,
         Seek, Found, BackoffPulse, BackoffOneDone, homingDone, brk
<1>3. state' = state \/ (state' = "post" /\ since' = 0)
  BY DEF Pulse, MoveStep, JogStep, VelStep, homingTick, Abort, fdcAbort, enterPost,
         Enter, Seek, Found, BackoffPulse, BackoffOneDone, homingDone
<1>4. CASE state' = state
  BY <1>1, <1>2, <1>4, DriveStep
<1>5. CASE state' = "post" /\ since' = 0
  BY <1>1, <1>2, <1>5, DisengageStep DEF Moving
<1> QED  BY <1>3, <1>4, <1>5

\* The passes in which a timer runs or expires.
LEMMA TimerStep == ASSUME IInv, Timer PROVE IStep
<1>1. pos \in Int
  BY Sizes DEF IInv, TypeOK
<1>2. CASE PreWait \/ PostWait
  BY <1>2, SettlingStep DEF PreWait, PostWait, Keep
<1>3. CASE PreMove
  BY <1>3, PlanStep DEF PreMove, IInv, TypeOK
<1>4. CASE PreGo \/ homingStart
  BY <1>4, EngageStep DEF PreGo, homingStart, PreExpired, Enter, Moving
<1>5. CASE VelTimeout
  BY <1>1, <1>5, DisengageStep DEF VelTimeout, VelExpired, enterPost, Enter, Moving
<1>6. CASE VelNotDue \/ FdcWait
  BY <1>6, SilentStep DEF VelNotDue, FdcWait, Keep
<1>7. CASE PostEnd
  BY <1>7, ClampStep DEF PostEnd
<1>8. CASE FdcEnd
  <2>1. Phase = "stopped" /\ Phase' = "stopped" /\ WaitNow = 0 /\ WaitNow' = 0
    BY <1>8, PhaseOf, PhaseNext DEF FdcEnd, Enter, States
  <2> QED  BY <1>8, <2>1 DEF IStep, FdcEnd, brk
<1> QED  BY <1>2, <1>3, <1>4, <1>5, <1>6, <1>7, <1>8 DEF Timer

\* Every step of the firmware is a step of the interlock.
LEMMA NextStep == IInv /\ [Next]_vars => IStep
<1> SUFFICES ASSUME IInv, [Next]_vars PROVE IStep  OBVIOUS
<1>1. CASE handleCommand
  BY <1>1, CommandStep
<1>2. CASE Pass(Pulse)
  BY <1>2, PulseStep DEF Pass
<1>3. CASE Pass(Timer)
  BY <1>3, TimerStep DEF Pass
<1>4. CASE Pass(Idle \/ NotDue)
  BY <1>4, SilentStep DEF Pass, Idle, NotDue, Keep
<1>5. CASE Reset
  BY <1>5, EmergencyStep DEF Reset, Enter
<1>6. CASE UNCHANGED vars
  BY <1>6, SilentStep DEF vars
<1> QED  BY <1>1, <1>2, <1>3, <1>4, <1>5, <1>6 DEF Next, loop

\* The firmware starts where the interlock does.
LEMMA InitStart == Init => Interlock!Init
<1> SUFFICES ASSUME Init PROVE Interlock!Init  OBVIOUS
<1>1. Phase = "stopped" /\ WaitNow = 0
  BY PhaseOf DEF Init, States
<1>2. pos \in Int
  BY Parameters, Sizes DEF Init
<1> QED  BY <1>1, <1>2 DEF Init, Interlock!Init, WaitNow

\* Every behaviour of the firmware is a behaviour of the interlock.
THEOREM Implementation == Spec => ImplementsInterlock
<1>1. Init => Interlock!Init
  BY InitStart
<1>2. IInv /\ [Next]_vars => [Interlock!Next]_(Interlock!vars)
  BY NextStep, IStepIsStep
<1> QED  BY <1>1, <1>2, Invariance, PTL DEF Spec, ImplementsInterlock, Interlock!Spec

=============================================================================
