--------------------------- MODULE BaseAgentProofs ---------------------------
(***************************************************************************)
(* What holds of the base agent for every number of wheels, every length   *)
(* of the ramp, every timeout and every set of payloads.                   *)
(*                                                                         *)
(* Nothing is assumed of the callbacks, the adapter, the clock and the     *)
(* signals.                                                                *)
(***************************************************************************)
EXTENDS BaseAgent, TLAPS

\* The constants, one by one.
LEMMA Sizes ==
    /\ N \in Nat /\ N >= 1 /\ Full \in Nat /\ Full >= 1 /\ Timeout \in Nat /\ Timeout >= 1
    /\ ClockStep \in Nat
    /\ AgeCap \in Nat /\ IdleCap \in Nat /\ IdleCap = Full + 1
    /\ Payloads \subseteq {"none", "rest", "drive", "bad"}
<1>1. {N, Full, Timeout} \subseteq Nat \ {0} /\ ClockStep \in Nat
  BY Parameters
<1> QED  BY <1>1, Parameters DEF AgeCap, IdleCap

-----------------------------------------------------------------------------
(* Types.                                                                  *)

\* Every variable has its type at the start.
LEMMA InitType == Init => TypeOK
<1> SUFFICES ASSUME Init PROVE TypeOK  OBVIOUS
<1> USE DEF Init
<1>1. 0 \in Speeds /\ 1 \in Wheels
  BY Sizes DEF Speeds, Wheels
<1>2. smoothed \in [Wheels -> Speeds] /\ speed \in [Wheels -> Speeds]
  BY <1>1
<1>3. /\ baseAge \in 0 .. AgeCap /\ deadAge \in 0 .. AgeCap /\ idle \in 0 .. IdleCap
      /\ stop \in 0 .. N /\ reset \in 0 .. N + 1
  BY Sizes
<1>4. skew \in [base : {0, ClockStep}, dead : {0, ClockStep}]
  OBVIOUS
<1> QED  BY <1>1, <1>2, <1>3, <1>4 DEF TypeOK

\* The ramp stays among the levels.
LEMMA RampType ==
    ASSUME NEW s \in Speeds, NEW g \in {0, Full}
    PROVE  Ramp(s, g) \subseteq Speeds
BY Sizes DEF Ramp, Speeds

\* Turning one motor on or off keeps the types of both.
LEMMA PowerType ==
    ASSUME TypeOK, NEW w \in Wheels, NEW on \in BOOLEAN, Power(w, on)
    PROVE  enabled' \subseteq Wheels /\ speed' \in [Wheels -> Speeds] /\ lost' \subseteq Wheels
BY Sizes DEF Power, TypeOK, Speeds

\* So does every callback.
LEMMA CallbackType == ASSUME TypeOK, Callback PROVE TypeOK'
<1> USE Sizes DEF TypeOK, cmds, loopVars, ramp, motors, calls, history
<1>1. ASSUME NEW p \in Payloads, on_base(p) PROVE TypeOK'
  BY <1>1 DEF on_base
<1>2. ASSUME NEW held \in BOOLEAN, on_deadman(held) PROVE TypeOK'
  BY <1>2 DEF on_deadman
<1>3. CASE on_stop
  <2>1. stop' \in 0 .. N /\ estop' \in BOOLEAN
    BY <1>3 DEF on_stop
  <2>2. alone' = (reset = 0) \/ alone' = alone
    BY <1>3 DEF on_stop
  <2>3. alone' \in BOOLEAN
    BY <2>2
  <2>4. UNCHANGED <<cmds, loopVars, ramp, motors, reset, running, idle, driven>>
    BY <1>3 DEF on_stop
  <2> QED  BY <2>1, <2>3, <2>4
<1>4. CASE StopMotor
  <2>1. stop \in Wheels /\ FALSE \in BOOLEAN
    BY <1>4 DEF StopMotor, Wheels
  <2>2. enabled' \subseteq Wheels /\ speed' \in [Wheels -> Speeds] /\ lost' \subseteq Wheels
    BY <1>4, <2>1, PowerType DEF StopMotor
  <2>3. stop' \in 0 .. N
    BY <1>4, <2>1 DEF StopMotor, Next1, Wheels
  <2> QED  BY <1>4, <2>2, <2>3 DEF StopMotor
<1>5. CASE StopFails \/ ResetFails \/ on_reset
  <2>1. stop' \in {0, stop} /\ reset' \in {0, 1, reset} /\ estop' \in {FALSE, estop}
    BY <1>5 DEF StopFails, ResetFails, on_reset
  <2>2. stop' \in 0 .. N /\ reset' \in 0 .. N + 1
    BY <2>1
  <2>3. estop' \in BOOLEAN
    BY <2>1
  <2>4. UNCHANGED <<cmds, loopVars, ramp, motors, running, idle, driven>>
    BY <1>5 DEF StopFails, ResetFails, on_reset
  <2>5. alone' \in BOOLEAN
    BY <1>5 DEF StopFails, ResetFails, on_reset
  <2> HIDE <1>5
  <2> QED  BY <2>2, <2>3, <2>4, <2>5
<1>6. CASE ClearRamp
  <2>1. 0 \in Speeds /\ reset' \in 0 .. N + 1
    BY <1>6 DEF ClearRamp, Speeds
  <2>2. smoothed' \in [Wheels -> Speeds]
    BY <1>6, <2>1 DEF ClearRamp
  <2>3. /\ UNCHANGED <<cmds, estop, loopVars, lastTick, motors, stop, running, idle, alone>>
        /\ driven' \in BOOLEAN
    BY <1>6 DEF ClearRamp
  <2> QED  BY <2>1, <2>2, <2>3
<1>7. CASE ResetMotor
  <2>1. reset - 1 \in Wheels /\ TRUE \in BOOLEAN
    BY <1>7 DEF ResetMotor, Wheels
  <2>2. enabled' \subseteq Wheels /\ speed' \in [Wheels -> Speeds] /\ lost' \subseteq Wheels
    BY <1>7, <2>1, PowerType DEF ResetMotor
  <2>3. reset' \in 0 .. N + 1
    BY <1>7, <2>1 DEF ResetMotor, Next1, Wheels
  <2> QED  BY <1>7, <2>2, <2>3 DEF ResetMotor
<1> QED  BY <1>1, <1>2, <1>3, <1>4, <1>5, <1>6, <1>7 DEF Callback

\* And the loop, its end and what happens to it.
LEMMA MainType == ASSUME TypeOK, Main \/ ClockBack \/ signal_handler \/ Kill PROVE TypeOK'
<1> USE Sizes DEF TypeOK, cmds, loopVars, ramp, motors, calls, history
<1>1. CASE Snapshot
  BY <1>1 DEF Snapshot, Wheels
<1>10. CASE DriveTick
  BY <1>10 DEF DriveTick
<1>2. CASE RampWheel
  <2>1. PICK s \in Ramp(smoothed[wheel], goal) : smoothed' = [smoothed EXCEPT ![wheel] = s]
    BY <1>2 DEF RampWheel
  <2>2. s \in Speeds
    BY <2>1, RampType
  <2>3. smoothed' \in [Wheels -> Speeds]
    BY <2>1, <2>2
  <2>4. pc' \in {"call", "lastCall"} /\ driven' \in BOOLEAN
    BY <1>2 DEF RampWheel
  <2> QED  BY <1>2, <2>3, <2>4 DEF RampWheel
<1>3. CASE CallWheel
  BY <1>3 DEF CallWheel
<1>4. CASE SendWheel
  <2>1. speed' \in [Wheels -> Speeds] /\ lost' \subseteq Wheels
    BY <1>4 DEF SendWheel
  <2>2. wheel' \in Wheels /\ pc' \in {"ramp", "lastRamp", "sleep", "close"} /\ frame' \in Speeds
    BY <1>4 DEF SendWheel, Wheels, Speeds
  <2>3. UNCHANGED <<cmds, estop, goal, frozen, ramp, enabled, calls, history>>
    BY <1>4 DEF SendWheel
  <2> QED  BY <2>1, <2>2, <2>3
<1>5. CASE Sleep
  <2>1. baseAge' \in 0 .. AgeCap /\ deadAge' \in 0 .. AgeCap
    BY <1>5 DEF Sleep, Older
  <2>2. idle' = idle \/ (idle < IdleCap /\ idle' = idle + 1)
    BY <1>5 DEF Sleep
  <2>3. idle' \in 0 .. IdleCap
    BY <2>2
  <2>4. /\ pc' = "top" /\ frozen' = FALSE
        /\ UNCHANGED <<base, deadman, skew, estop, wheel, goal, frame, ramp, motors, calls,
                       running, driven, alone>>
    BY <1>5 DEF Sleep
  <2> QED  BY <2>1, <2>3, <2>4
<1>6. CASE CloseSession \/ ExitFails
  BY <1>6 DEF CloseSession, ExitFails
<1>7. CASE ExitMotor
  <2>1. enabled' \subseteq Wheels /\ speed' \in [Wheels -> Speeds] /\ lost' \subseteq Wheels
    BY <1>7, PowerType DEF ExitMotor
  <2>2. wheel' \in Wheels /\ pc' \in {"disable", "exited"}
    BY <1>7 DEF ExitMotor, Wheels
  <2> QED  BY <1>7, <2>1, <2>2 DEF ExitMotor
<1>8. CASE ClockBack
  <2>1. /\ lastTick' \in {"none", "past", "future"}
        /\ skew' \in [base : {0, ClockStep}, dead : {0, ClockStep}]
    BY <1>8 DEF ClockBack
  <2>2. UNCHANGED <<base, deadman, baseAge, deadAge, estop, loopVars, smoothed, motors, calls,
                    history>>
    BY <1>8 DEF ClockBack
  <2> QED  BY <2>1, <2>2
<1>9. CASE signal_handler \/ Kill
  <2>1. pc' \in {pc, "killed"} /\ running' \in {running, FALSE}
    BY <1>9 DEF signal_handler, Kill
  <2>2. UNCHANGED <<cmds, estop, wheel, goal, frame, frozen, ramp, motors, calls, idle,
                    driven, alone>>
    BY <1>9 DEF signal_handler, Kill
  <2>3. running' \in BOOLEAN
    BY <2>1
  <2>4. pc' = pc \/ pc' = "killed"
    BY <2>1
  <2> HIDE <1>9, <2>1
  <2> QED  BY <2>2, <2>3, <2>4
<1> QED  BY <1>1, <1>2, <1>3, <1>4, <1>5, <1>6, <1>7, <1>8, <1>9, <1>10 DEF Main

\* Every step keeps the types.
LEMMA NextType == TypeOK /\ [Next]_vars => TypeOK'
<1>1. ASSUME TypeOK, UNCHANGED vars PROVE TypeOK'
  BY <1>1 DEF TypeOK, vars, cmds, loopVars, ramp, motors, calls, history
<1> QED  BY <1>1, CallbackType, MainType DEF Next

\* Every variable keeps its type, whatever the faults.
THEOREM TypeCorrect == Spec => []TypeOK
BY InitType, NextType, PTL DEF Spec

-----------------------------------------------------------------------------
(* The watchdog.                                                           *)

\* The highest level a wheel may still have in a pass, before its turn and after.
Before == IF idle = 0 THEN Full ELSE Full + 1 - idle
After  ==
    IF frozen THEN Before
    ELSE IF idle > Full THEN 0 ELSE Full - idle

\* A wheel whose latest frame was not lost turns no faster than a level.
Slow(w, level) == w \in lost \/ speed[w] <= level

\* Every pass without an authorisation, unless it is frozen, takes each wheel, and
\* each motor that obeys, one level down.
Levels ==
    /\ frame <= Before
    /\ \A w \in Wheels : smoothed[w] <= Before /\ Slow(w, Before)
    /\ \A w \in Wheels : w \notin enabled => speed[w] = 0
    /\ pc \in {"drive", "ramp", "call", "send"} /\ goal = Full => idle = 0
    /\ pc \in {"lastDrive", "lastRamp", "lastCall", "lastSend"} => goal = 0
    /\ pc \in {"drive", "lastDrive"} => wheel = 1
    /\ pc \in {"ramp", "call", "send"} =>
          \A w \in Wheels : w < wheel => smoothed[w] <= After /\ Slow(w, After)
    /\ pc \in {"call", "send"} => smoothed[wheel] <= After
    /\ pc = "send" => frame <= After
    /\ pc = "sleep" => /\ frame = 0
                       /\ \A w \in Wheels : smoothed[w] <= After /\ Slow(w, After)

\* The two levels are what their names say.
LEMMA LevelBounds ==
    ASSUME TypeOK
    PROVE  /\ Before \in Nat /\ After \in Nat /\ After <= Before /\ Before <= Full
           /\ idle = 0 => After = Full
           /\ Before <= After + 1 /\ (frozen => After = Before)
           /\ \A w \in Wheels : smoothed[w] \in 0 .. Full /\ speed[w] \in 0 .. Full
BY Sizes DEF TypeOK, Before, After, Speeds

\* At the start all is at rest.
LEMMA InitLevels == Init => Levels
<1> SUFFICES ASSUME Init PROVE Levels  OBVIOUS
<1>1. Before = 0
  BY Sizes DEF Init, Before
<1> QED  BY <1>1 DEF Init, Levels, Slow

\* What a step that lowers speeds and clears the ramp does to the levels.
LEMMA LowerLevels ==
    ASSUME TypeOK, TypeOK', Levels, UNCHANGED <<loopVars, idle>>,
           \A w \in Wheels : smoothed'[w] <= smoothed[w] /\ speed'[w] <= speed[w],
           \A w \in Wheels : w \notin lost' => w \notin lost \/ speed'[w] = 0,
           \A w \in Wheels : w \notin enabled' => speed'[w] = 0
    PROVE  Levels'
<1>1. Before' = Before /\ After' = After
  BY DEF Before, After, loopVars
<1>2. wheel \in Wheels
  BY DEF TypeOK
<1>3. \A w \in Wheels, b \in {Before, After} :
        /\ smoothed[w] <= b => smoothed'[w] <= b
        /\ Slow(w, b) => (w \in lost' \/ speed'[w] <= b)
  <2>1. \A w \in Wheels : /\ smoothed[w] \in Int /\ smoothed'[w] \in Int
                          /\ speed[w] \in Int /\ speed'[w] \in Int
    BY LevelBounds, Sizes DEF TypeOK, Speeds
  <2> QED  BY <2>1, LevelBounds DEF Slow
<1> QED  BY <1>1, <1>2, <1>3 DEF Levels, Slow, loopVars

\* Callbacks only take motors to rest.
LEMMA CallbackLevels == ASSUME TypeOK, TypeOK', Levels, Callback PROVE Levels'
<1>1. UNCHANGED <<loopVars, idle>>
  BY DEF Callback, on_base, on_deadman, on_stop, StopMotor, StopFails, on_reset, ClearRamp,
         ResetMotor, ResetFails, history
<1>2. \A w \in Wheels : smoothed[w] \in 0 .. Full /\ speed[w] \in 0 .. Full
  BY LevelBounds
<1>3. \A w \in Wheels : smoothed'[w] <= smoothed[w]
  <2>1. UNCHANGED smoothed \/ smoothed' = [w \in Wheels |-> 0]
    BY DEF Callback, on_base, on_deadman, on_stop, StopMotor, StopFails, on_reset, ClearRamp,
           ResetMotor, ResetFails, ramp
  <2> QED  BY <1>2, <2>1
<1>4. \/ UNCHANGED motors
      \/ StopMotor /\ Power(stop, FALSE)
      \/ ResetMotor /\ Power(reset - 1, TRUE)
  BY DEF Callback, on_base, on_deadman, on_stop, StopMotor, StopFails, on_reset, ClearRamp,
         ResetMotor, ResetFails
<1>5. /\ \A w \in Wheels : speed'[w] <= speed[w]
      /\ \A w \in Wheels : w \notin lost' => w \notin lost \/ speed'[w] = 0
      /\ \A w \in Wheels : w \notin enabled' => speed'[w] = 0
  BY <1>2, <1>4 DEF Power, Levels, motors, TypeOK
<1> QED  BY <1>1, <1>3, <1>5, LowerLevels

\* What the loop takes for authorised is, but for the step of the clock.
LEMMA FreshIsAuthorised ==
    ASSUME TypeOK, moving, base = "drive"
    PROVE  AuthorisedWithin(Timeout + ClockStep)
<1>1. /\ skew.base \in {0, ClockStep} /\ skew.dead \in {0, ClockStep}
      /\ baseAge \in Int /\ deadAge \in Int
  BY Sizes DEF TypeOK
<1> QED  BY <1>1, Sizes DEF moving, deadman_ok, fresh_cmd, AuthorisedWithin

\* The main thread: the inputs, the wheels in turn, and the sleep.
LEMMA MainLevels ==
    ASSUME TypeOK, TypeOK', Levels, Main
    PROVE  Levels'
<1> USE LevelBounds
<1>1. CASE Snapshot
  <2>1. /\ wheel' = 1 /\ pc' \in {"drive", "lastDrive"}
        /\ UNCHANGED <<frame, smoothed, enabled, speed, lost>>
    BY <1>1 DEF Snapshot, motors, ramp
  <2>2. pc' = "lastDrive" => goal' = 0
    BY <1>1 DEF Snapshot
  <2>3. goal' = Full => idle' = 0
    BY <1>1, FreshIsAuthorised, Sizes DEF Snapshot
  <2>4. idle' = 0 \/ idle' = idle
    BY <1>1 DEF Snapshot
  <2>5. Before' = Full \/ Before' = Before
    BY <2>4 DEF Before
  <2>6. /\ frame' <= Before'
        /\ \A w \in Wheels : smoothed'[w] <= Before' /\ Slow(w, Before)'
    BY <2>1, <2>5, Sizes DEF Levels, Slow, TypeOK, Speeds
  <2> QED  BY <2>1, <2>2, <2>3, <2>6 DEF Levels
<1>2. CASE DriveTick
  <2>1. /\ UNCHANGED <<wheel, goal, frame, smoothed, enabled, speed, lost, idle>>
        /\ (pc = "drive" /\ pc' = "ramp") \/ (pc = "lastDrive" /\ pc' = "lastRamp")
    BY <1>2 DEF DriveTick, motors, history
  <2>2. wheel = 1
    BY <2>1 DEF Levels
  <2>3. \A w \in Wheels : ~(w < 1)
    BY DEF Wheels
  <2>4. Before' = Before
    BY <2>1 DEF Before
  <2> QED  BY <2>1, <2>2, <2>3, <2>4 DEF Levels, Slow
<1>3. CASE RampWheel
  <2>1. PICK s \in Ramp(smoothed[wheel], goal) : smoothed' = [smoothed EXCEPT ![wheel] = s]
    BY <1>3 DEF RampWheel
  <2>2. Before' = Before /\ After' = After
    BY <1>3 DEF RampWheel, Before, After
  <2>3. wheel \in Wheels /\ goal \in {0, Full} /\ smoothed[wheel] \in 0 .. Full
    BY DEF TypeOK
  <2>4. smoothed[wheel] <= Before
    BY <2>3 DEF Levels
  <2>5. goal = 0 => s <= After
    <3> SUFFICES ASSUME goal = 0 PROVE s <= After
      OBVIOUS
    <3>1. CASE frozen
      BY <2>1, <2>4, <3>1 DEF Ramp
    <3>2. CASE ~frozen
      <4>1. s = 0 \/ s = smoothed[wheel] - 1
        BY <2>1, <2>3, <3>2 DEF Ramp
      <4> QED  BY <2>3, <2>4, <4>1
    <3> QED  BY <3>1, <3>2
  <2>6. pc = "ramp" => s <= After
    <3>1. CASE goal = Full /\ pc = "ramp"
      <4>1. idle = 0
        BY <3>1 DEF Levels
      <4> QED  BY <2>1, <2>3, <4>1, RampType, Sizes DEF Speeds
    <3> QED  BY <2>3, <2>5, <3>1
  <2>7. s \in 0 .. Full
    BY <2>1, <2>3, RampType DEF Speeds
  <2>8. s <= Before
    <3>1. pc = "lastRamp" => goal = 0
      BY DEF Levels
    <3>2. s <= After
      BY <1>3, <2>5, <2>6, <3>1 DEF RampWheel
    <3> QED  BY <2>7, <3>2
  <2>9. \A w \in Wheels : smoothed'[w] = IF w = wheel THEN s ELSE smoothed[w]
    BY <2>1 DEF TypeOK
  <2>10. \A w \in Wheels : w < wheel => w # wheel
    BY <2>3 DEF Wheels
  <2>11. /\ UNCHANGED <<frame, speed, enabled, lost, wheel, goal, idle>>
         /\ (pc = "ramp" /\ pc' = "call") \/ (pc = "lastRamp" /\ pc' = "lastCall")
    BY <1>3 DEF RampWheel, motors
  <2> QED  BY <2>2, <2>3, <2>6, <2>8, <2>9, <2>10, <2>11 DEF Levels, Slow
<1>4. CASE CallWheel
  <2>1. Before' = Before /\ After' = After /\ wheel \in Wheels
    BY <1>4 DEF CallWheel, history, Before, After, TypeOK
  <2>2. /\ UNCHANGED <<smoothed, speed, enabled, lost, wheel, goal, idle>>
        /\ frame' = smoothed[wheel]
        /\ (pc = "call" /\ pc' = "send") \/ (pc = "lastCall" /\ pc' = "lastSend")
    BY <1>4 DEF CallWheel, motors, history, ramp
  <2> QED  BY <2>1, <2>2 DEF Levels, Slow
<1>5. CASE SendWheel
  <2>1. Before' = Before /\ After' = After /\ wheel \in Wheels
    BY <1>5 DEF SendWheel, history, Before, After, TypeOK
  <2>2. /\ UNCHANGED <<smoothed, enabled, goal, idle>> /\ frame' = 0
        /\ \/ /\ wheel \in enabled /\ speed' = [speed EXCEPT ![wheel] = frame]
              /\ lost' = lost \ {wheel}
           \/ lost' = lost \cup ({wheel} \cap enabled) /\ UNCHANGED speed
    BY <1>5 DEF SendWheel, history, ramp
  <2>3. \A w \in Wheels :
          /\ w # wheel => speed'[w] = speed[w] /\ (w \in lost' <=> w \in lost)
          /\ w = wheel => w \in lost' \/ speed'[w] = frame \/ speed'[w] = 0
          /\ w \notin enabled => speed'[w] = 0
    <3>1. CASE /\ wheel \in enabled /\ speed' = [speed EXCEPT ![wheel] = frame]
               /\ lost' = lost \ {wheel}
      BY <2>1, <3>1 DEF Levels, TypeOK
    <3>2. CASE lost' = lost \cup ({wheel} \cap enabled) /\ UNCHANGED speed
      BY <2>1, <3>2 DEF Levels
    <3> QED  BY <2>2, <3>1, <3>2
  <2>4. /\ 0 <= Before /\ 0 <= After /\ frame <= Before
        /\ pc = "send" => frame <= After /\ smoothed[wheel] <= After
        /\ \A w \in Wheels : Slow(w, Before)
    BY DEF Levels
  <2>5. \A w \in Wheels : Slow(w, Before)'
    BY <2>1, <2>4, <2>3 DEF Slow
  <2>6. pc = "send" => /\ smoothed[wheel] <= After
                       /\ wheel \in lost' \/ speed'[wheel] <= After
    BY <2>4, <2>1, <2>3
  <2>7. \A w \in Wheels : w # wheel /\ Slow(w, After) => Slow(w, After)'
    BY <2>1, <2>3 DEF Slow
  <2>8. CASE wheel < N
    <3>1. /\ wheel' = wheel + 1
          /\ (pc = "send" /\ pc' = "ramp") \/ (pc = "lastSend" /\ pc' = "lastRamp")
      BY <1>5, <2>8 DEF SendWheel
    <3>2. \A w \in Wheels : w < wheel + 1 => w < wheel \/ w = wheel
      BY <2>1 DEF Wheels
    <3>3. pc = "send" => \A w \in Wheels : w < wheel' => smoothed'[w] <= After /\ Slow(w, After)'
      <4> SUFFICES ASSUME pc = "send", NEW w \in Wheels, w < wheel'
                   PROVE  smoothed'[w] <= After /\ Slow(w, After)'
        OBVIOUS
      <4>1. CASE w < wheel
        <5>1. w # wheel  BY <4>1, <2>1 DEF Wheels
        <5> QED  BY <4>1, <5>1, <2>2, <2>7 DEF Levels
      <4>2. CASE w = wheel
        BY <4>2, <2>1, <2>2, <2>6 DEF Slow
      <4> QED  BY <3>1, <3>2, <4>1, <4>2
    <3>4. /\ 0 <= Before /\ (pc' = "ramp" /\ goal' = Full => idle' = 0)
          /\ pc' = "lastRamp" => goal' = 0
      BY <3>1, <2>2 DEF Levels
    <3> QED  BY <2>1, <2>2, <2>3, <2>5, <3>1, <3>3, <3>4 DEF Levels
  <2>9. CASE ~(wheel < N)
    <3>1. (pc = "send" /\ pc' = "sleep") \/ (pc = "lastSend" /\ pc' = "close")
      BY <1>5, <2>9 DEF SendWheel
    <3>2. \A w \in Wheels : w < wheel \/ w = wheel
      BY <2>1, <2>9, Sizes DEF Wheels
    <3>3. pc = "send" => \A w \in Wheels : smoothed'[w] <= After /\ Slow(w, After)'
      <4> SUFFICES ASSUME pc = "send", NEW w \in Wheels
                   PROVE  smoothed'[w] <= After /\ Slow(w, After)'
        OBVIOUS
      <4>1. CASE w < wheel
        <5>1. w # wheel  BY <4>1, <2>1 DEF Wheels
        <5> QED  BY <4>1, <5>1, <2>2, <2>7 DEF Levels
      <4>2. CASE w = wheel
        BY <4>2, <2>1, <2>2, <2>6 DEF Slow
      <4> QED  BY <3>2, <4>1, <4>2
    <3> QED  BY <2>1, <2>2, <2>3, <2>5, <3>1, <3>3 DEF Levels
  <2> QED  BY <2>8, <2>9
<1>6. CASE Sleep
  <2>1. UNCHANGED <<frame, smoothed, enabled, speed, lost>> /\ pc' = "top" /\ pc = "sleep"
    BY <1>6 DEF Sleep, motors, ramp
  <2>2. Before' = After
    BY <1>6, Sizes DEF Sleep, Before, After, TypeOK
  <2>3. frame <= After
    BY <1>6 DEF Sleep, Levels
  <2> QED  BY <2>1, <2>2, <2>3 DEF Levels, Slow
<1>7. CASE CloseSession \/ ExitFails
  <2>1. /\ UNCHANGED <<frame, smoothed, enabled, speed, lost, idle>>
        /\ pc' \in {"disable", "exited"}
    BY <1>7 DEF CloseSession, ExitFails, motors, ramp
  <2> QED  BY <2>1 DEF Levels, Before, Slow
<1>8. CASE ExitMotor
  <2>1. /\ UNCHANGED <<frame, smoothed, idle>> /\ pc' \in {"disable", "exited"}
        /\ Power(wheel, FALSE)
    BY <1>8 DEF ExitMotor, history, ramp
  <2>2. \A w \in Wheels : /\ speed'[w] = IF w = wheel THEN 0 ELSE speed[w]
                          /\ w # wheel => (w \in lost' <=> w \in lost)
    BY <2>1 DEF Power, TypeOK
  <2>3. \A w \in Wheels : w \notin enabled' => w \notin enabled \/ w = wheel
    BY <2>1 DEF Power
  <2> QED  BY <2>1, <2>2, <2>3 DEF Levels, Before, Slow
<1> QED  BY <1>1, <1>2, <1>3, <1>4, <1>5, <1>6, <1>7, <1>8 DEF Main

\* The clock, and the signals.
LEMMA EventLevels ==
    ASSUME TypeOK, TypeOK', Levels, ClockBack \/ signal_handler \/ Kill PROVE Levels'
<1>1. CASE ClockBack
  BY <1>1, LevelBounds, LowerLevels DEF ClockBack, Levels, TypeOK, Speeds, motors, history
<1>2. CASE signal_handler \/ Kill
  <2>1. /\ UNCHANGED <<smoothed, speed, enabled, lost, idle, frame, frozen, goal, wheel>>
        /\ pc' \in {pc, "killed"}
    BY <1>2 DEF signal_handler, Kill, loopVars, ramp, motors, history
  <2> QED  BY <2>1, LevelBounds DEF Levels, Slow, Before, After
<1> QED  BY <1>1, <1>2

\* Every step keeps the levels.
LEMMA NextLevels ==
    ASSUME TypeOK, Levels, [Next]_vars PROVE Levels'
<1>1. TypeOK'
  BY NextType
<1>2. CASE UNCHANGED vars
  BY <1>2 DEF vars, loopVars, ramp, motors, history, Levels, Slow, Before, After
<1> QED  BY <1>1, <1>2, CallbackLevels, MainLevels, EventLevels DEF Next

\* The watchdog: a robot that nothing has authorised to move for the length of the
\* ramp stands still, but for a wheel whose latest frame was lost, whatever the
\* callbacks do and with a clock that is set back.
THEOREM Watchdog == Spec => []Halts
<1>1. TypeOK /\ Levels => Halts
  <2> SUFFICES ASSUME TypeOK, Levels, idle > Full, NEW w \in Wheels \ lost PROVE speed[w] = 0
    BY DEF Halts
  <2>1. Before = 0
    BY Sizes DEF Before, TypeOK
  <2> QED  BY <2>1, LevelBounds DEF Levels, Slow
<1>2. TypeOK /\ Levels /\ [Next]_vars => Levels'
  BY NextLevels
<1> QED  BY <1>1, <1>2, InitLevels, TypeCorrect, PTL DEF Spec

-----------------------------------------------------------------------------
(* The latch.                                                              *)

\* What the motors are while an undisturbed stop or reset is under way, and when
\* none is.  What they were before it does not matter.
Latch ==
    /\ stop = 0 \/ reset = 0
    /\ stop # 0 => estop /\ enabled \subseteq stop .. N
    /\ reset # 0 => ~estop
    /\ reset > 1 => 1 .. reset - 2 \subseteq enabled
    /\ stop = 0 /\ reset = 0 => enabled = IF estop THEN {} ELSE Wheels

\* This is so while the session is open.
Latched == Open /\ alone => Latch

\* A stop disables motor by motor, from the first to the last.
LEMMA StopLatch ==
    ASSUME TypeOK, Latched, Open, on_stop \/ StopMotor \/ StopFails
    PROVE  Latched'
<1> SUFFICES ASSUME alone' PROVE Latch'  BY DEF Latched
<1>1. CASE on_stop /\ estop
  <2>1. UNCHANGED <<alone, estop, stop, reset, enabled>>
    BY <1>1 DEF on_stop, motors, TypeOK
  <2> QED  BY <2>1 DEF Latched, Latch
<1>2. CASE on_stop /\ ~estop
  <2>1. reset = 0 /\ reset' = 0 /\ estop' /\ stop' = 1 /\ enabled' = enabled
    BY <1>2 DEF on_stop, motors
  <2>2. enabled \subseteq 1 .. N
    BY DEF TypeOK, Wheels
  <2> QED  BY <2>1, <2>2 DEF Latch
<1>3. CASE StopMotor
  <2>1. alone /\ Latch
    BY <1>3 DEF StopMotor, history, Latched
  <2>2. /\ stop # 0 /\ reset = 0 /\ reset' = 0 /\ estop' = estop /\ estop
        /\ stop' = IF stop = N THEN 0 ELSE stop + 1
        /\ enabled' = enabled \ {stop} /\ enabled \subseteq stop .. N
    BY <1>3, <2>1 DEF StopMotor, Latch, Power, Next1
  <2>3. stop \in 1 .. N
    BY <2>2 DEF TypeOK
  <2>4. enabled' \subseteq stop + 1 .. N
    BY <2>2, <2>3, Sizes
  <2>5. stop = N => enabled' = {}
    BY <2>3, <2>4, Sizes
  <2> QED  BY <2>2, <2>3, <2>4, <2>5, Sizes DEF Latch
<1> QED  BY <1>1, <1>2, <1>3 DEF StopFails

\* A reset enables motor by motor, whether they were disabled or not.
LEMMA ResetLatch ==
    ASSUME TypeOK, Latched, Open, on_reset \/ ClearRamp \/ ResetMotor \/ ResetFails
    PROVE  Latched'
<1> SUFFICES ASSUME alone' PROVE Latch'  BY DEF Latched
<1>1. CASE on_reset
  <2>1. stop = 0 /\ stop' = 0 /\ reset' = 1 /\ ~estop'
    BY <1>1 DEF on_reset
  <2> QED  BY <2>1 DEF Latch
<1>2. CASE ClearRamp
  <2>1. alone /\ Latch
    BY <1>2 DEF ClearRamp, Latched
  <2>2. stop = 0 /\ stop' = 0 /\ reset' = 2 /\ ~estop /\ estop' = estop
    BY <1>2, <2>1 DEF ClearRamp, Latch
  <2>3. 1 .. reset' - 2 = {}
    BY <2>2
  <2> QED  BY <2>2, <2>3 DEF Latch
<1>3. CASE ResetMotor
  <2>1. alone /\ Latch
    BY <1>3 DEF ResetMotor, history, Latched
  <2>2. reset \in 0 .. N + 1 /\ enabled \subseteq Wheels
    BY DEF TypeOK
  <2>3. /\ reset > 1 /\ UNCHANGED <<stop, estop>>
        /\ reset' = IF reset = N + 1 THEN 0 ELSE reset + 1
        /\ enabled' = enabled \cup {reset - 1}
    BY <1>3 DEF ResetMotor, Power, Next1, motors
  <2>4. stop = 0 /\ ~estop /\ 1 .. reset - 2 \subseteq enabled
    BY <2>1, <2>2, <2>3 DEF Latch
  <2>5. 1 .. reset - 1 \subseteq enabled' /\ enabled' \subseteq Wheels
    BY <2>2, <2>3, <2>4, Sizes DEF Wheels
  <2>6. reset = N + 1 => enabled' = Wheels
    <3>1. reset = N + 1 => reset - 1 = N
      BY Sizes
    <3>2. reset = N + 1 => 1 .. N \subseteq enabled'
      BY <2>5, <3>1
    <3> QED  BY <2>5, <3>2 DEF Wheels
  <2>7. reset # N + 1 => reset' > 1 /\ 1 .. reset' - 2 = 1 .. reset - 1
    BY <2>2, <2>3, Sizes
  <2>8. stop' = 0 /\ ~estop'
    BY <2>3, <2>4
  <2>9. CASE reset = N + 1
    BY <2>3, <2>6, <2>8, <2>9 DEF Latch
  <2>10. CASE reset # N + 1
    <3>1. reset' > 1 /\ 1 .. reset' - 2 = 1 .. reset - 1
      BY <2>7, <2>10
    <3>2. 1 .. reset' - 2 \subseteq enabled'
      BY <2>5, <3>1 DEF Wheels
    <3>3. reset' # 0
      BY <3>1
    <3> QED  BY <2>8, <3>1, <3>2, <3>3 DEF Latch
  <2> QED  BY <2>9, <2>10
<1> QED  BY <1>1, <1>2, <1>3 DEF ResetFails

\* Nothing else touches the latch before the session is closed.
LEMMA NextLatch == ASSUME TypeOK, Latched, [Next]_vars PROVE Latched'
<1> SUFFICES ASSUME Open' PROVE Latched'  BY DEF Latched
<1>1. CASE UNCHANGED <<estop, enabled, stop, reset, alone>> /\ Open
  BY <1>1 DEF Latched, Latch
<1>2. CASE /\ Open
           /\ \/ on_stop \/ StopMotor \/ StopFails
              \/ on_reset \/ ClearRamp \/ ResetMotor \/ ResetFails
  BY <1>2, StopLatch, ResetLatch
<1>3. Open
  BY DEF Open, Next, vars, Callback, on_base, on_deadman, on_stop, StopMotor, StopFails,
         on_reset, ClearRamp, ResetMotor, ResetFails, Main, Snapshot, DriveTick, RampWheel,
         CallWheel, SendWheel, Sleep, CloseSession, ExitMotor, ExitFails, ClockBack,
         signal_handler, Kill, loopVars
<1>4. \/ UNCHANGED <<estop, enabled, stop, reset, alone>>
      \/ on_stop \/ StopMotor \/ StopFails
      \/ on_reset \/ ClearRamp \/ ResetMotor \/ ResetFails
  BY <1>3 DEF Open, Next, vars, Callback, on_base, on_deadman, Main, Snapshot, DriveTick,
         RampWheel, CallWheel, SendWheel, Sleep, CloseSession, ExitMotor, ExitFails,
         ClockBack, signal_handler, Kill, motors, calls, history
<1> QED  BY <1>1, <1>2, <1>3, <1>4

\* The latch: a stop that neither a fault nor a reset disturbs leaves no motor
\* enabled, and such a reset leaves none disabled, whatever was before.
THEOREM LatchHolds == Spec => []LatchMatchesMotors
<1>1. Init => Latched
  BY DEF Init, Latch, Latched
<1>2. TypeOK /\ Latched /\ [Next]_vars => Latched'
  BY NextLatch
<1>3. Latched => LatchMatchesMotors
  BY DEF Latch, Latched, LatchMatchesMotors
<1> QED  BY <1>1, <1>2, <1>3, TypeCorrect, PTL DEF Spec

-----------------------------------------------------------------------------
(* The exit.                                                               *)

\* The shutdown disables motor by motor; a stop beside it does no harm.
Exits ==
    /\ pc = "close" => wheel = 1
    /\ pc = "disable" /\ alone => reset = 0 /\ enabled \subseteq wheel .. N
    /\ pc = "exited" /\ alone => enabled = {}

\* The callbacks do not disturb the shutdown, unless alone says so.
LEMMA CallbackExits == ASSUME TypeOK, Exits, Callback PROVE Exits'
<1>1. UNCHANGED <<pc, wheel>> /\ ~Ended
  BY DEF Callback, on_base, on_deadman, on_stop, StopMotor, StopFails, on_reset, ClearRamp,
         ResetMotor, ResetFails, loopVars
<1>2. CASE pc = "disable" /\ alone'
  <2>1. ~Open
    BY <1>2 DEF Open
  <2>2. ~on_reset /\ ~StopFails /\ ~ResetFails
    BY <1>2, <2>1 DEF on_reset, StopFails, ResetFails
  <2>3. alone
    BY <1>2, <2>1, <2>2 DEF Callback, on_base, on_deadman, on_stop, StopMotor, ClearRamp,
           ResetMotor, history
  <2>4. reset = 0 /\ enabled \subseteq wheel .. N
    BY <1>2, <2>3 DEF Exits
  <2>5. reset' = 0 /\ enabled' \subseteq enabled
    BY <2>2, <2>4 DEF Callback, on_base, on_deadman, on_stop, StopMotor, ClearRamp,
           ResetMotor, Power, motors, calls
  <2> QED  BY <1>1, <1>2, <2>4, <2>5 DEF Exits
<1>3. CASE ~(pc = "disable" /\ alone')
  BY <1>1, <1>3 DEF Exits, Ended
<1> QED  BY <1>2, <1>3

\* The loop, the shutdown and the signals.
LEMMA MainExits ==
    ASSUME TypeOK, Exits, Main \/ ClockBack \/ signal_handler \/ Kill
    PROVE  Exits'
<1> USE DEF cmds, loopVars, ramp, motors, calls, history
<1>1. CASE Snapshot
  BY <1>1 DEF Snapshot, Exits
<1>2. CASE DriveTick \/ RampWheel \/ CallWheel
  BY <1>2 DEF DriveTick, RampWheel, CallWheel, Exits
<1>3. CASE SendWheel
  BY <1>3 DEF SendWheel, Exits
<1>4. CASE Sleep
  BY <1>4 DEF Sleep, Exits
<1>5. CASE CloseSession
  <2>1. enabled' \subseteq wheel' .. N
    BY <1>5 DEF CloseSession, Exits, TypeOK, Wheels
  <2> QED  BY <1>5, <2>1 DEF CloseSession, Exits
<1>6. CASE ExitMotor
  <2>1. /\ pc = "disable" /\ UNCHANGED <<alone, reset>>
        /\ wheel' = IF wheel = N THEN wheel ELSE wheel + 1
        /\ pc' = IF wheel = N THEN "exited" ELSE pc
    BY <1>6 DEF ExitMotor
  <2>2. CASE alone
    <3>1. /\ wheel \in 1 .. N /\ enabled \subseteq wheel .. N /\ enabled' = enabled \ {wheel}
          /\ reset = 0
      BY <1>6, <2>2 DEF ExitMotor, Power, Exits, TypeOK, Wheels
    <3>2. wheel # N => enabled' \subseteq wheel + 1 .. N
      BY <3>1, Sizes
    <3>3. wheel = N => enabled' = {}
      BY <3>1, Sizes
    <3> QED  BY <2>1, <3>1, <3>2, <3>3 DEF Exits
  <2>3. CASE ~alone
    BY <2>1, <2>3 DEF Exits
  <2> QED  BY <2>2, <2>3
<1>7. CASE ExitFails
  BY <1>7 DEF ExitFails, Exits
<1>8. CASE ClockBack \/ signal_handler \/ Kill
  BY <1>8 DEF ClockBack, signal_handler, Kill, Exits
<1> QED  BY <1>1, <1>2, <1>3, <1>4, <1>5, <1>6, <1>7, <1>8 DEF Main

\* Every step keeps this.
LEMMA NextExits == ASSUME TypeOK, Exits, [Next]_vars PROVE Exits'
<1>1. ASSUME UNCHANGED vars PROVE Exits'
  BY <1>1 DEF vars, cmds, loopVars, ramp, motors, calls, history, Exits
<1> QED  BY <1>1, CallbackExits, MainExits DEF Next

\* The exit: a process whose loop ends leaves no motor enabled, unless its shutdown
\* met a fault or a reset.
THEOREM ExitSafe == Spec => []ExitDisables
<1>1. Init => Exits
  BY DEF Init, Exits
<1>2. TypeOK /\ Exits /\ [Next]_vars => Exits'
  BY NextExits
<1>3. Exits => ExitDisables
  BY DEF Exits, ExitDisables
<1> QED  BY <1>1, <1>2, <1>3, TypeCorrect, PTL DEF Spec

-----------------------------------------------------------------------------
(* The emergency stop: each step of the agent is a step of EmergencyStop   *)
(* under the mapping of BaseAgent, or leaves its variables alone.          *)

\* What a stop, a reset and the end have in order, and which motors may turn.
Ordered ==
    /\ Latched
    /\ Exits
    /\ \A w \in Wheels : w \notin enabled => speed[w] = 0

\* A step of the emergency stop, in the variables of the agent.
EStep == Emergency!Next
            \/ UNCHANGED <<Mode, estop, stop # 0, reset # 0, alone, enabled, Turning>>

\* EStep is a step under the refinement mapping.
LEMMA EStepIsStep == EStep <=> [Emergency!Next]_(Emergency!vars)
BY DEF EStep, Emergency!vars

\* The abstract mode of each concrete state, and of the next one.
LEMMA ModeOf ==
    /\ Open => Mode = "up"
    /\ pc = "disable" => Mode = "closing"
    /\ pc = "exited" => Mode = "down"
    /\ pc = "killed" => Mode = "killed"
    /\ Open' => Mode' = "up"
    /\ pc' = "disable" => Mode' = "closing"
    /\ pc' = "exited" => Mode' = "down"
    /\ pc' = "killed" => Mode' = "killed"
BY DEF Mode, Open

\* Callbacks run in a process that is alive, and leave its mode alone.
LEMMA AliveOf ==
    ASSUME ~Ended, UNCHANGED pc
    PROVE  /\ Emergency!Alive /\ UNCHANGED Mode
           /\ Mode = "up" <=> Open
           /\ Mode = "closing" <=> ~Open
<1>1. Open \/ pc = "disable"
  BY DEF Ended, Open
<1>2. pc = "disable" => ~Open
  BY DEF Open
<1> QED  BY <1>1, <1>2, ModeOf DEF Emergency!Alive, Mode

\* A motor that is switched is at rest, and the others turn as they did.
LEMMA PowerTurning ==
    ASSUME TypeOK, NEW w \in Wheels, NEW on \in BOOLEAN, Power(w, on)
    PROVE  Turning' = Turning \ {w}
<1>1. \A v \in Wheels : speed'[v] = IF v = w THEN 0 ELSE speed[v]
  BY DEF Power, TypeOK
<1> QED  BY <1>1 DEF Turning

\* Switching a motor off takes it from those that turn, and those without power do
\* not.
LEMMA OffTurning ==
    ASSUME TypeOK, Ordered, NEW w \in Wheels, Power(w, FALSE)
    PROVE  /\ enabled' = enabled \ {w} /\ enabled' \in SUBSET enabled
           /\ Turning' = Turning \cap enabled'
<1>1. enabled' = enabled \ {w}
  BY DEF Power
<1>2. Turning' = Turning \ {w}
  BY PowerTurning
<1>3. Turning \subseteq enabled
  BY DEF Turning, Ordered
<1> QED  BY <1>1, <1>2, <1>3

\* A stop, and the motors it disables.
LEMMA StopStep ==
    ASSUME TypeOK, Ordered, Ordered', on_stop \/ StopMotor
    PROVE  EStep
<1>1. CASE on_stop
  <2>1. /\ ~Ended /\ stop = 0 /\ UNCHANGED <<pc, reset, enabled, speed>>
        /\ estop' = TRUE /\ stop' = IF estop THEN 0 ELSE 1
        /\ alone' = IF ~estop /\ Open THEN reset = 0 ELSE alone
    BY <1>1 DEF on_stop, loopVars, motors
  <2>2. UNCHANGED Turning
    BY <2>1 DEF Turning
  <2>3. (stop' # 0) = ~estop
    BY <2>1 DEF TypeOK
  <2>4. alone' = IF estop \/ Mode = "closing" THEN alone ELSE ~(reset # 0)
    BY <2>1, AliveOf DEF TypeOK
  <2>5. (reset # 0)' = (reset # 0) /\ ~(stop # 0)
    BY <2>1
  <2>6. Emergency!Stop
    BY <2>1, <2>2, <2>3, <2>4, <2>5, AliveOf DEF Emergency!Stop
  <2> QED  BY <2>6 DEF EStep, Emergency!Next
<1>2. CASE StopMotor
  <2>1. /\ ~Ended /\ stop # 0 /\ UNCHANGED <<pc, estop, reset, alone>>
        /\ Power(stop, FALSE)
    BY <1>2 DEF StopMotor, loopVars, history
  <2>2. stop \in Wheels
    BY <2>1 DEF TypeOK, Wheels
  <2>3. enabled' \in SUBSET enabled /\ Turning' = Turning \cap enabled'
    BY <2>1, <2>2, OffTurning
  <2>4. ~(stop' # 0) /\ alone /\ Mode = "up" => enabled' = {}
    <3> SUFFICES ASSUME stop' = 0, alone, Open PROVE enabled' = {}
      BY <2>1, AliveOf
    <3>1. Latch /\ Latch'
      BY <2>1 DEF Ordered, Latched, Open
    <3>2. estop' /\ reset' = 0
      BY <2>1, <3>1 DEF Latch
    <3> QED  BY <3>1, <3>2 DEF Latch
  <2>5. (reset # 0)' = (reset # 0) /\ (stop' # 0) \in BOOLEAN
    BY <2>1
  <2>6. Emergency!Cut
    BY <2>1, <2>3, <2>4, <2>5, AliveOf DEF Emergency!Cut
  <2> QED  BY <2>6 DEF EStep, Emergency!Next
<1> QED  BY <1>1, <1>2

\* A reset, and the motors it powers.
LEMMA ResetStep ==
    ASSUME TypeOK, Ordered, Ordered', on_reset \/ ClearRamp \/ ResetMotor
    PROVE  EStep
<1>1. CASE on_reset
  <2>1. /\ ~Ended /\ reset = 0 /\ UNCHANGED <<pc, stop, enabled, speed>>
        /\ estop' = FALSE /\ reset' = 1 /\ alone' = (Open /\ stop = 0)
    BY <1>1 DEF on_reset, loopVars, motors
  <2>2. UNCHANGED Turning
    BY <2>1 DEF Turning
  <2>3. alone' = (Mode = "up" /\ ~(stop # 0))
    BY <2>1, AliveOf
  <2>4. (stop # 0)' = (stop # 0) /\ ~(reset # 0) /\ (reset' # 0) = TRUE
    BY <2>1
  <2>5. Emergency!Reset
    BY <2>1, <2>2, <2>3, <2>4, AliveOf DEF Emergency!Reset
  <2> QED  BY <2>5 DEF EStep, Emergency!Next
<1>2. CASE ClearRamp
  <2>1. UNCHANGED <<pc, estop, stop, enabled, speed, alone>> /\ reset = 1 /\ reset' = 2
    BY <1>2 DEF ClearRamp, loopVars, motors
  <2>2. UNCHANGED <<Mode, Turning, stop # 0, reset # 0>>
    BY <2>1 DEF Mode, Turning
  <2> QED  BY <2>1, <2>2 DEF EStep
<1>3. CASE ResetMotor
  <2>1. /\ ~Ended /\ reset > 1 /\ UNCHANGED <<pc, estop, stop, alone>>
        /\ IF reset - 1 \in enabled THEN UNCHANGED motors ELSE Power(reset - 1, TRUE)
    BY <1>3 DEF ResetMotor, loopVars, history
  <2>2. reset - 1 \in Wheels /\ TRUE \in BOOLEAN
    BY <2>1, Sizes DEF TypeOK, Wheels
  <2>3. enabled' \in SUBSET Wheels /\ enabled \subseteq enabled' /\ Turning' = Turning
    <3>1. CASE reset - 1 \in enabled
      BY <2>1, <3>1 DEF motors, Turning, TypeOK
    <3>2. CASE reset - 1 \notin enabled
      <4>1. Turning' = Turning \ {reset - 1}
        BY <2>1, <2>2, <3>2, PowerTurning
      <4>2. enabled' = enabled \cup {reset - 1}
        BY <2>1, <3>2 DEF Power
      <4>3. reset - 1 \notin Turning
        BY <2>2, <3>2 DEF Ordered, Turning
      <4> QED  BY <2>2, <4>1, <4>2, <4>3 DEF TypeOK
    <3> QED  BY <3>1, <3>2
  <2>4. ~(reset' # 0) /\ alone => enabled' = Wheels
    <3> SUFFICES ASSUME reset' = 0, alone PROVE enabled' = Wheels
      OBVIOUS
    <3>1. reset # 0
      BY <2>1 DEF TypeOK
    <3>2. Open
      BY <2>1, <3>1 DEF Ordered, Exits, Ended, Open
    <3>3. Latch /\ Latch'
      BY <2>1, <3>2 DEF Ordered, Latched, Open
    <3>4. ~estop' /\ stop' = 0
      BY <2>1, <3>1, <3>3 DEF Latch
    <3> QED  BY <3>3, <3>4 DEF Latch
  <2>5. (stop # 0)' = (stop # 0) /\ (reset' # 0) \in BOOLEAN /\ reset # 0
    BY <2>1 DEF TypeOK
  <2>6. Emergency!Restore
    BY <2>1, <2>3, <2>4, <2>5, AliveOf DEF Emergency!Restore
  <2> QED  BY <2>6 DEF EStep, Emergency!Next
<1> QED  BY <1>1, <1>2, <1>3

\* A frame of a stop or of a reset raises.
LEMMA FaultStep == ASSUME TypeOK, StopFails \/ ResetFails PROVE EStep
<1>1. /\ ~Ended /\ UNCHANGED <<pc, estop, enabled, speed>> /\ alone' = FALSE
  BY DEF StopFails, ResetFails, loopVars, motors
<1>2. UNCHANGED Turning
  BY <1>1 DEF Turning
<1>3. \/ (stop # 0) /\ (stop' # 0) = FALSE /\ (reset' # 0) = (reset # 0)
      \/ (reset # 0) /\ (reset' # 0) = FALSE /\ (stop' # 0) = (stop # 0)
  BY DEF StopFails, ResetFails, TypeOK
<1>4. Emergency!Fault
  BY <1>1, <1>2, <1>3, AliveOf DEF Emergency!Fault
<1> QED  BY <1>4 DEF EStep, Emergency!Next

\* The frames of the loop turn only motors that are powered.
LEMMA SendStep == ASSUME TypeOK, Ordered, SendWheel PROVE EStep
<1>1. Open /\ Open' /\ UNCHANGED <<estop, stop, reset, alone, enabled>>
  BY DEF SendWheel, Open, calls, history
<1>2. \A w \in Wheels : w \notin enabled => speed'[w] = 0
  <2>1. CASE wheel \in enabled /\ speed' = [speed EXCEPT ![wheel] = frame]
    BY <2>1 DEF Ordered, TypeOK
  <2>2. CASE UNCHANGED speed
    BY <2>2 DEF Ordered
  <2> QED  BY <2>1, <2>2 DEF SendWheel
<1>3. Turning' \in SUBSET enabled
  BY <1>2 DEF Turning
<1>4. Emergency!Turn
  BY <1>1, <1>3, ModeOf DEF Emergency!Turn
<1> QED  BY <1>4 DEF EStep, Emergency!Next

\* The end.
LEMMA EndStep ==
    ASSUME TypeOK, Ordered, Ordered', CloseSession \/ ExitMotor \/ ExitFails \/ Kill
    PROVE  EStep
<1>1. CASE CloseSession
  <2>1. /\ Open /\ pc' = "disable" /\ alone' = (reset = 0)
        /\ UNCHANGED <<estop, stop, reset, enabled, speed>>
    BY <1>1 DEF CloseSession, Open, motors, calls
  <2>2. UNCHANGED Turning
    BY <2>1 DEF Turning
  <2>3. alone' = ~(reset # 0)
    BY <2>1
  <2>4. Emergency!Close
    BY <2>1, <2>2, <2>3, ModeOf DEF Emergency!Close
  <2> QED  BY <2>4 DEF EStep, Emergency!Next
<1>2. CASE ExitMotor
  <2>1. /\ pc = "disable" /\ Power(wheel, FALSE) /\ wheel \in Wheels
        /\ UNCHANGED <<estop, stop, reset, alone>> /\ pc' \in {"disable", "exited"}
    BY <1>2 DEF ExitMotor, TypeOK, calls, history
  <2>2. enabled' \in SUBSET enabled /\ Turning' = Turning \cap enabled'
    BY <2>1, OffTurning
  <2>3. Mode = "closing" /\ Mode' \in {"closing", "down"}
    BY <2>1, ModeOf
  <2>4. Mode' = "down" /\ alone' => enabled' = {}
    <3>1. pc' = "disable" => Mode' = "closing"
      BY ModeOf
    <3> QED  BY <2>1, <3>1 DEF Ordered, Exits
  <2>5. Emergency!Off
    BY <2>1, <2>2, <2>3, <2>4 DEF Emergency!Off
  <2> QED  BY <2>5 DEF EStep, Emergency!Next
<1>3. CASE ExitFails
  <2>1. /\ pc = "disable" /\ pc' = "exited" /\ alone' = FALSE
        /\ UNCHANGED <<estop, stop, reset, enabled, speed>>
    BY <1>3 DEF ExitFails, motors, calls
  <2>2. Turning' = Turning \cap enabled'
    BY <2>1 DEF Turning, Ordered
  <2>3. Mode = "closing" /\ Mode' = "down"
    BY <2>1, ModeOf
  <2>4. Emergency!Off
    BY <2>1, <2>2, <2>3 DEF Emergency!Off
  <2> QED  BY <2>4 DEF EStep, Emergency!Next
<1>4. CASE Kill
  <2>1. pc' = "killed" /\ ~Ended /\ UNCHANGED <<estop, stop, reset, alone, enabled, speed>>
    BY <1>4 DEF Kill, motors, calls, history
  <2>2. UNCHANGED Turning
    BY <2>1 DEF Turning
  <2>3. Mode \in {"up", "closing"}
    BY <2>1, ModeOf DEF Ended, Open
  <2>4. Emergency!Kill
    BY <2>1, <2>2, <2>3, ModeOf DEF Emergency!Kill, Emergency!Alive
  <2> QED  BY <2>4 DEF EStep, Emergency!Next
<1> QED  BY <1>1, <1>2, <1>3, <1>4

\* What the emergency stop does not see.
LEMMA UnseenStep ==
    ASSUME \/ UNCHANGED vars
           \/ \E p \in Payloads : on_base(p)
           \/ \E held \in BOOLEAN : on_deadman(held)
           \/ Snapshot \/ DriveTick \/ RampWheel \/ CallWheel \/ Sleep \/ ClockBack
           \/ signal_handler
    PROVE  EStep
<1>1. UNCHANGED <<estop, stop, reset, alone, enabled, speed>>
  BY DEF vars, on_base, on_deadman, Snapshot, DriveTick, RampWheel, CallWheel, Sleep,
         ClockBack, signal_handler, motors, calls, history
<1>2. \/ UNCHANGED pc
      \/ Open /\ Open'
  BY DEF vars, on_base, on_deadman, Snapshot, DriveTick, RampWheel, CallWheel, Sleep,
         ClockBack, signal_handler, loopVars, Open
<1>3. UNCHANGED <<Mode, Turning>>
  BY <1>1, <1>2, ModeOf DEF Mode, Turning
<1> QED  BY <1>1, <1>3 DEF EStep

\* Every behaviour of the agent is one of the emergency stop: at every moment of a
\* stop, a reset and the end, whatever they meet, with the loop anywhere in a pass.
THEOREM Implementation == Spec => ImplementsEmergencyStop
<1>1. Init => Emergency!Init
  <2> SUFFICES ASSUME Init PROVE Emergency!Init  OBVIOUS
  <2>1. Mode = "up" /\ Turning = {}
    BY ModeOf DEF Init, Open, Turning
  <2> QED  BY <2>1 DEF Init, Emergency!Init
<1>2. Init => Levels /\ Latched /\ Exits
  BY InitLevels DEF Init, Latched, Latch, Exits
<1>3. TypeOK /\ Levels /\ Latched /\ Exits /\ [Next]_vars
        => Levels' /\ Latched' /\ Exits'
  BY NextLevels, NextLatch, NextExits
<1>4. TypeOK /\ Levels /\ Latched /\ Exits /\ [Next]_vars
        => [Emergency!Next]_(Emergency!vars)
  <2> SUFFICES ASSUME TypeOK, Levels, Latched, Exits, [Next]_vars PROVE EStep
    BY EStepIsStep
  <2>1. Ordered /\ Ordered'
    BY <1>3 DEF Ordered, Levels
  <2> QED  BY <2>1, StopStep, ResetStep, FaultStep, SendStep, EndStep, UnseenStep
           DEF Next, Callback, Main
<1> QED  BY <1>1, <1>2, <1>3, <1>4, TypeCorrect, PTL
         DEF Spec, ImplementsEmergencyStop, Emergency!Spec

-----------------------------------------------------------------------------
(* The ramp.                                                               *)

\* A ramp that has not been driven since the last reset is at rest.
Cleared == ~driven => \A w \in Wheels : smoothed[w] = 0

\* Every step keeps this, wherever in a pass a reset clears the ramp.
LEMMA NextCleared == ASSUME TypeOK, Cleared, [Next]_vars PROVE Cleared'
<1> USE Sizes DEF Cleared, TypeOK, history, ramp
<1>1. CASE RampWheel
  <2>1. driven' = (driven \/ goal > 0) /\ wheel \in Wheels
        /\ \E s \in Ramp(smoothed[wheel], goal) : smoothed' = [smoothed EXCEPT ![wheel] = s]
    BY <1>1 DEF RampWheel
  <2>2. CASE driven \/ goal > 0
    BY <2>1, <2>2
  <2>3. CASE ~driven /\ ~(goal > 0)
    <3>1. goal = 0 /\ smoothed[wheel] = 0
      BY <2>1, <2>3
    <3>2. Ramp(smoothed[wheel], goal) = {0}
      BY <3>1 DEF Ramp
    <3>3. smoothed' = [smoothed EXCEPT ![wheel] = 0]
      BY <2>1, <3>2
    <3> QED  BY <2>3, <3>3
  <2> QED  BY <2>2, <2>3
<1>2. CASE ClearRamp
  BY <1>2 DEF ClearRamp
<1>3. ASSUME ~RampWheel, ~ClearRamp PROVE UNCHANGED <<driven, smoothed>>
  BY <1>3 DEF vars, Next, Callback, Main, on_base, on_deadman, on_stop, StopMotor, StopFails,
      on_reset, ResetMotor, ResetFails, Snapshot, CallWheel, SendWheel, Sleep, ClockBack,
      signal_handler, Kill, CloseSession, ExitMotor, ExitFails, DriveTick
<1>4. CASE UNCHANGED <<driven, smoothed>>
  BY <1>4
<1> QED  BY <1>1, <1>2, <1>3, <1>4

\* After a reset the wheels start from rest, with callbacks in parallel, frames lost
\* and clocks that step back.
THEOREM RampCleared == Spec => []ResetClearsRamp
<1>1. Init => Cleared
  BY DEF Init, Cleared
<1>2. TypeOK /\ Cleared /\ [Next]_vars => Cleared'
  BY NextCleared
<1>3. Cleared => ResetClearsRamp
  BY DEF Cleared, ResetClearsRamp
<1> QED  BY <1>1, <1>2, <1>3, TypeCorrect, PTL DEF Spec

=============================================================================
