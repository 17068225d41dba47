---------------------------- MODULE ArmAgentProofs ----------------------------
(***************************************************************************)
(* What holds of the arm agent for every set of positions.                 *)
(*                                                                         *)
(* The types, the single action after a stop (OneStrayAction) and the      *)
(* exit (ExitReleases) need nothing.  That a stop takes the torque away    *)
(* (Released) needs stops and resets that wait for the loop: the run       *)
(* arm_hurried shows what others can do.                                   *)
(***************************************************************************)
EXTENDS ArmAgent, TLAPS

-----------------------------------------------------------------------------
(* Types.                                                                  *)

\* The callbacks and the leader's way to the agent keep the types.
LEMMA InputType ==
    ASSUME TypeOK,
           \/ on_stop \/ on_reset \/ Configured
           \/ Operator \/ read_gello_raw_line \/ _run \/ send_raw_line \/ _accept_loop
    PROVE  TypeOK'
<1> USE DEF TypeOK, loop, arm, input, link
<1>1. CASE on_stop
  <2>1. noticed' \in BOOLEAN
    BY <1>1, Zenon DEF on_stop
  <2>2. stray' \in 0 .. 2
    BY <1>1 DEF on_stop
  <2> QED  BY <1>1, <2>1, <2>2 DEF on_stop
<1>2. CASE on_reset
  <2>1. stop_event' \in BOOLEAN /\ noticed' \in BOOLEAN /\ configuring' \in BOOLEAN
    BY <1>2, Zenon DEF on_reset
  <2>2. UNCHANGED <<loop, ready, arm, link, stray>>
    BY <1>2 DEF on_reset
  <2> QED  BY <2>1, <2>2
<1>3. CASE Configured
  <2>1. PICK ok \in {port, FALSE} : torque' = (torque \/ ok) /\ failed' = ~ok
    BY <1>3 DEF Configured
  <2>2. torque' \in BOOLEAN /\ failed' \in BOOLEAN
    BY <2>1, Zenon
  <2>3. configuring' \in BOOLEAN /\ UNCHANGED <<loop, stop_event, ready, port, goal, cut, link, noticed, stray>>
    BY <1>3, Zenon DEF Configured
  <2> HIDE <1>3
  <2> QED  BY <2>2, <2>3
<1>4. CASE Operator
  <2>1. hand' \in Positions /\ gello' \in {"unopened", "open", "dead", "failed"} /\ reach' \in BOOLEAN
    BY <1>4 DEF Operator
  <2> QED  BY <1>4, <2>1 DEF Operator
<1>5. CASE read_gello_raw_line
  BY <1>5 DEF read_gello_raw_line
<1>6. CASE _run
  BY <1>6 DEF _run
<1>7. CASE send_raw_line
  <2>1. raw' \in {raw, latest_line} /\ bridge' \in {"none", bridge} /\ _ws' \in BOOLEAN
    BY <1>7 DEF send_raw_line, _ws_server, feed_line
  <2>2. raw' \in Positions \cup {NoLine} /\ (ready => raw' # NoLine)
    BY <1>7, <2>1 DEF send_raw_line
  <2>3. bridge' \in {"none", "dialled", "listed", "closed"}
    BY <2>1
  <2> QED  BY <1>7, <2>1, <2>2, <2>3 DEF send_raw_line
<1>8. CASE _accept_loop
  BY <1>8 DEF _accept_loop
<1> QED  BY <1>1, <1>2, <1>3, <1>4, <1>5, <1>6, <1>7, <1>8

\* So do the loop, its beginning and its end.
LEMMA MainType == ASSUME TypeOK, Main \/ Interrupt PROVE TypeOK'
<1> USE DEF TypeOK, loop, arm, input, link
<1>1. CASE Connect
  <2>1. torque' \in BOOLEAN /\ port' \in BOOLEAN
    BY <1>1, Zenon DEF Connect
  <2>2. pc' \in {"leader", "closing"} /\ bridge' \in {"dialled", bridge}
    BY <1>1 DEF Connect
  <2>3. UNCHANGED <<estopped, was_stopped, stop_event, ready, configuring, goal, failed, cut,
                    input, raw, noticed, stray>>
    BY <1>1 DEF Connect
  <2> HIDE <1>1
  <2> QED  BY <2>1, <2>2, <2>3
<1>2. CASE Leader
  <2>1. UNCHANGED <<estopped, was_stopped, stop_event, configuring, arm, link, noticed, stray>>
    BY <1>2 DEF Leader
  <2>2. ready' \in BOOLEAN
    BY <1>2, Zenon DEF Leader
  <2>3. pc' \in {"ready", "closing"}
    BY <1>2 DEF Leader
  <2>4. ready' => raw # NoLine
    BY <1>2 DEF Leader, Connected
  <2> QED  BY <2>1, <2>2, <2>3, <2>4
<1>3. CASE Observe
  BY <1>3 DEF Observe
<1>4. CASE Read
  BY <1>4 DEF Read
<1>5. CASE Stopped
  <2>1. torque' \in BOOLEAN /\ failed' \in BOOLEAN /\ UNCHANGED <<port, goal, cut>>
    BY <1>5, Zenon DEF Stopped, Disable
  <2>2. noticed' \in BOOLEAN
    BY <1>5 DEF Stopped
  <2> QED  BY <1>5, <2>1, <2>2 DEF Stopped
<1>6. CASE Send
  <2>1. goal' \in Positions \cup {NoLine} /\ stray' \in 0 .. 2 /\ pc' \in {"observe", "finally"}
    BY <1>6 DEF Send, Action
  <2>2. was_stopped' \in BOOLEAN /\ noticed' \in BOOLEAN
    BY <1>6 DEF Send, Rearmed
  <2> QED  BY <1>6, <2>1, <2>2 DEF Send
<1>7. CASE Finally
  <2>1. pc' \in {"release", "closing"} /\ bridge' = "closed"
    BY <1>7 DEF Finally, close
  <2>2. cut' \in BOOLEAN
    BY <1>7, Zenon DEF Finally
  <2>3. UNCHANGED <<estopped, was_stopped, stop_event, ready, configuring, torque, port, goal,
                    failed, input, raw, noticed, stray>>
    BY <1>7 DEF Finally
  <2> HIDE <1>7
  <2> QED  BY <2>1, <2>2, <2>3
<1>8. CASE Release
  <2>1. torque' \in BOOLEAN /\ port' \in BOOLEAN /\ cut' \in BOOLEAN /\ pc' = "closing"
    BY <1>8, Zenon DEF Release, Disconnected, HalfDisconnected
  <2>2. UNCHANGED <<estopped, was_stopped, stop_event, ready, configuring, goal, failed, link,
                    noticed, stray>>
    BY <1>8 DEF Release
  <2> QED  BY <2>1, <2>2
<1>9. CASE Interrupt
  <2>1. cut' \in BOOLEAN
    BY <1>9, Zenon DEF Interrupt
  <2>2. pc' \in {"finally", "closing"}
    BY <1>9 DEF Interrupt
  <2>3. UNCHANGED <<estopped, was_stopped, stop_event, ready, configuring, torque, port, goal,
                    failed, link, noticed, stray>>
    BY <1>9 DEF Interrupt
  <2> HIDE <1>9
  <2> QED  BY <2>1, <2>2, <2>3
<1>10. CASE Begin \/ Exit
  BY <1>10 DEF Begin, Exit
<1> QED  BY <1>1, <1>2, <1>3, <1>4, <1>5, <1>6, <1>7, <1>8, <1>9, <1>10 DEF Main

\* Every variable keeps its type, and the loop has a line to send as soon as it runs.
THEOREM TypeCorrect == Spec => []TypeOK
<1>1. Init => TypeOK
  <2>1. Init => stray \in 0 .. 2
    BY DEF Init
  <2> QED  BY <2>1, Zenon DEF Init, TypeOK
<1>2. TypeOK /\ [Next]_vars => TypeOK'
  <2>1. ASSUME TypeOK, UNCHANGED vars PROVE TypeOK'
    BY <2>1 DEF TypeOK, vars, loop, arm, input, link
  <2> QED  BY <2>1, InputType, MainType DEF Next
<1> QED  BY <1>1, <1>2, PTL DEF Spec

-----------------------------------------------------------------------------
(* The action that a stop finds on its way.                                *)

\* After an action has been sent under a stop, the loop reads the latch before it
\* can send another.
Stray == stop_event => stray <= 1 /\ (stray = 1 /\ pc = "act" => estopped)

\* Every step keeps this.
LEMMA NextStray == ASSUME TypeOK, Stray, [Next]_vars PROVE Stray'
<1> USE DEF TypeOK, Stray
<1>1. CASE on_stop
  BY <1>1 DEF on_stop, loop
<1>2. CASE on_reset
  BY <1>2 DEF on_reset
<1>3. CASE Read
  BY <1>3 DEF Read
<1>4. CASE Send
  BY <1>4 DEF Send, Stopping
<1>5. CASE Stopped
  BY <1>5 DEF Stopped
<1>6. CASE \/ Connect \/ Leader \/ Begin \/ Observe \/ Finally \/ Release \/ Exit
           \/ Interrupt
  <2>1. pc' # "act" /\ UNCHANGED <<stop_event, stray>>
    BY <1>6 DEF Connect, Leader, Begin, Observe, Finally, Release, Exit, Interrupt
  <2> QED  BY <2>1
<1>7. CASE \/ UNCHANGED vars \/ Configured \/ Operator \/ read_gello_raw_line
           \/ _run \/ send_raw_line \/ _accept_loop
  <2>1. UNCHANGED <<pc, estopped, stop_event, stray>>
    BY <1>7 DEF vars, loop, Configured, Operator, read_gello_raw_line, _run, send_raw_line,
           _accept_loop
  <2> QED  BY <2>1
<1> QED  BY <1>1, <1>2, <1>3, <1>4, <1>5, <1>6, <1>7 DEF Next, Main

\* A stop lets one action at most through, for whatever threads do.
THEOREM OneStray == Spec => []OneStrayAction
<1>1. Init => Stray
  BY DEF Init, Stray
<1>2. Stray => OneStrayAction
  BY DEF Stray, OneStrayAction
<1>3. TypeOK /\ Stray /\ [Next]_vars => Stray'
  BY NextStray
<1> QED  BY <1>1, <1>2, <1>3, TypeCorrect, PTL DEF Spec

-----------------------------------------------------------------------------
(* The exit.                                                               *)

\* An ending that nothing cuts short has closed the follower's port, after which no
\* configure() can switch the torque on again.
Exits ==
    /\ pc \in {"connect", "leader"} => ~ready
    /\ pc \in {"closing", "exited"} /\ ready /\ ~cut => ~port /\ ~torque

\* Every step keeps this.
LEMMA NextExits == ASSUME TypeOK, Exits, [Next]_vars PROVE Exits'
<1> USE DEF TypeOK, Exits
<1>1. CASE Configured
  <2>1. UNCHANGED <<pc, ready, port, cut>> /\ (~port => torque' = torque)
    BY <1>1 DEF Configured, loop
  <2> QED  BY <2>1
<1>2. CASE Leader
  BY <1>2 DEF Leader, arm
<1>3. CASE Stopped
  BY <1>3 DEF Stopped
<1>4. CASE Connect \/ Begin \/ Observe \/ Read \/ Send \/ Finally
  BY <1>4 DEF Connect, Begin, Observe, Read, Send, Finally, arm
<1>5. CASE Release
  BY <1>5 DEF Release, Disconnected, HalfDisconnected
<1>6. CASE Exit
  BY <1>6 DEF Exit, arm
<1>7. CASE Interrupt
  <2>1. pc' = "finally" \/ (pc = "leader" /\ ~ready') \/ cut'
    BY <1>7 DEF Interrupt, Looping
  <2>2. pc' \in {"finally", "closing"}
    BY <1>7 DEF Interrupt
  <2> QED  BY <2>1, <2>2
<1>8. CASE \/ UNCHANGED vars \/ on_stop \/ on_reset \/ Operator \/ read_gello_raw_line
           \/ _run \/ send_raw_line \/ _accept_loop
  <2>1. UNCHANGED <<pc, ready, torque, port, cut>>
    BY <1>8 DEF vars, loop, arm, on_stop, on_reset, Operator, read_gello_raw_line, _run,
           send_raw_line, _accept_loop
  <2> QED  BY <2>1
<1> QED  BY <1>1, <1>2, <1>3, <1>4, <1>5, <1>6, <1>7, <1>8 DEF Next, Main

\* Whatever ends the loop, a finally clause that is not cut short leaves the follower
\* without torque.
THEOREM ExitSafe == Spec => []ExitReleases
<1>1. Init => Exits
  BY DEF Init, Exits
<1>2. TypeOK /\ Exits /\ [Next]_vars => Exits'
  BY NextExits
<1>3. Exits => ExitReleases
  BY DEF Exits, ExitReleases
<1> QED  BY <1>1, <1>2, <1>3, TypeCorrect, PTL DEF Spec

-----------------------------------------------------------------------------
(* The stop.                                                               *)

\* What the loop knows of the latch: when noticed says so, it has dealt with the
\* stop or the reset, and what it has not yet dealt with is no stop that it takes
\* for an earlier one; a reset that is under way keeps stops away.
Latch ==
    /\ ~ready => ~was_stopped /\ ~configuring
    /\ pc \in {"connect", "leader", "ready"} => ~was_stopped
    /\ pc \in {"ready", "observe", "read", "act"} => ready
    /\ configuring => ~stop_event
    /\ ready /\ noticed /\ was_stopped => stop_event
    /\ was_stopped /\ stop_event => noticed
    /\ was_stopped /\ stop_event /\ ~configuring => ~torque \/ failed

\* The callbacks keep this.
LEMMA CallbackLatch ==
    ASSUME ~Hurried, TypeOK, Latch, on_stop \/ on_reset \/ Configured PROVE Latch'
<1> USE DEF TypeOK, Latch, loop, arm
<1>1. CASE on_stop
  BY <1>1 DEF on_stop, Callable
<1>2. CASE on_reset
  BY <1>2 DEF on_reset, Callable
<1>3. CASE Configured
  BY <1>3 DEF Configured
<1> QED  BY <1>1, <1>2, <1>3

\* So does the loop.
LEMMA MainLatch == ASSUME ~Hurried, TypeOK, Latch, Main \/ Interrupt PROVE Latch'
<1> USE DEF TypeOK, Latch, arm
<1>1. CASE Connect
  BY <1>1 DEF Connect
<1>2. CASE Leader
  BY <1>2 DEF Leader
<1>3. CASE Begin \/ Observe \/ Read \/ Finally \/ Exit
  BY <1>3 DEF Begin, Observe, Read, Finally, Exit
<1>4. CASE Stopped
  BY <1>4 DEF Stopped, Stopping, Disable
<1>5. CASE Send
  BY <1>5 DEF Send, Stopping, Rearmed
<1>6. CASE Release
  BY <1>6 DEF Release, Disconnected, HalfDisconnected
<1>7. CASE Interrupt
  BY <1>7 DEF Interrupt
<1> QED  BY <1>1, <1>2, <1>3, <1>4, <1>5, <1>6, <1>7 DEF Main

\* A stop that the loop has dealt with leaves the follower without torque, if stops
\* and resets wait for the loop and disable_torque() works.
THEOREM StopReleases ==
    ASSUME ~Hurried
    PROVE  Spec => []Released
<1>1. Init => Latch
  BY DEF Init, Latch
<1>2. TypeOK /\ Latch /\ [Next]_vars => Latch'
  <2>1. ASSUME Latch,
               \/ UNCHANGED vars \/ Operator \/ read_gello_raw_line \/ _run
               \/ send_raw_line \/ _accept_loop
        PROVE  Latch'
    <3>1. UNCHANGED <<loop, stop_event, ready, configuring, arm, noticed>>
      BY <2>1 DEF vars, loop, arm, Operator, read_gello_raw_line, _run, send_raw_line,
             _accept_loop
    <3> QED  BY <2>1, <3>1 DEF Latch, loop, arm
  <2> QED  BY <2>1, CallbackLatch, MainLatch DEF Next
<1>3. Latch => Released
  BY DEF Latch, Released
<1> QED  BY <1>1, <1>2, <1>3, TypeCorrect, PTL DEF Spec

=============================================================================
