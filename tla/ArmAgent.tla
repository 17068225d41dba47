------------------------------- MODULE ArmAgent -------------------------------
(***************************************************************************)
(* The arm agent: robot/arm_agent.py, the Zenoh callbacks and the hooks,   *)
(* around run_teleoperation() of robot/start_teleoperationV2.py, the loop  *)
(* that repeats the leader's position to the follower arm.                 *)
(*                                                                         *)
(* The loop runs in the main thread.  Zenoh calls on_stop and on_reset in  *)
(* threads of its own; on_reset calls robot.configure() there, next to the *)
(* loop.  A third thread runs the WebSocket server, which feeds the lines  *)
(* of the operator's GELLO to the SerialBridge, and a fourth accepts the   *)
(* leader's connection to that bridge.  On the operator's PC, a thread of  *)
(* gello_reader.py keeps the last line of the GELLO, and the loop of       *)
(* input_agent.py sends it on, over and over.                              *)
(*                                                                         *)
(* The follower and the leader are lerobot's: connect() and configure()    *)
(* switch the torque on, disable_torque() and disconnect() off, and the    *)
(* leader repeats the last line it has read.  Each call is one step, but   *)
(* that a configure() which meets disconnect() may leave the torque on;    *)
(* after disconnect() it raises.  The heartbeat of _on_tick, which nothing *)
(* here reads, is left out.                                                *)
(***************************************************************************)
EXTENDS Naturals

CONSTANTS
    Positions,  \* of the operator's leader arm
    Hurried     \* a stop or reset may follow another before the loop saw it

ASSUME Hurry == Hurried \in BOOLEAN

CONSTANT NoLine \* the leader has read nothing yet
ASSUME NoPosition == NoLine \notin Positions

VARIABLES
    pc, estopped, was_stopped,  \* run_teleoperation()
    stop_event, ready,          \* the latch; whether _robot_holder has the robot
    configuring,                \* on_reset is in robot.configure()
    torque, port,               \* of the follower: powered; its port is open
    hand,                       \* where the operator's leader arm is
    gello,                      \* the serial port it is read from: not yet opened,
                                \* "open", "dead" when unplugged, or "failed"
    latest_line,                \* of the GelloReader
    _ws, reach,                 \* the ArmLink has a connection; the network is up
    bridge,                     \* the leader's connection to the SerialBridge
    raw, goal,                  \* the last line of the leader, the last action
    \* history
    noticed,                    \* the loop has acted on the present stop_event
    failed,                     \* the last attempt to switch the torque failed
    stray,                      \* actions sent since the latch was set
    cut                         \* the ending, once the robot is held, failed, was
                                \* interrupted or met a configure()

loop    == <<pc, estopped, was_stopped>>
arm     == <<torque, port, goal, failed, cut>>
input   == <<hand, gello, latest_line, _ws, reach>>
link    == <<input, bridge, raw>>
vars    == <<loop, stop_event, ready, configuring, arm, link, noticed, stray>>

Looping == pc \in {"observe", "read", "act"}

Init ==
    /\ pc = "connect" /\ estopped = FALSE /\ was_stopped = FALSE
    /\ stop_event = FALSE /\ ready = FALSE /\ configuring = FALSE
    /\ torque = FALSE /\ port = FALSE /\ hand \in Positions
    /\ gello = "unopened" /\ latest_line = NoLine /\ _ws = FALSE /\ reach = FALSE
    /\ bridge = "none" /\ raw = NoLine /\ goal = NoLine
    /\ noticed = TRUE /\ failed = FALSE /\ stray = 0 /\ cut = FALSE

-----------------------------------------------------------------------------
(* The Zenoh callbacks.                                                    *)

\* Whether a callback can come now: until main() has closed the session.
Callable == pc # "exited" /\ (Hurried \/ ((noticed \/ ~ready) /\ ~configuring))

on_stop ==
    /\ Callable
    /\ stop_event' = TRUE
    /\ noticed' = (noticed /\ stop_event)
    /\ stray' = IF stop_event THEN stray ELSE 0
    /\ UNCHANGED <<loop, ready, configuring, arm, link>>

on_reset ==
    /\ Callable /\ ~configuring
    /\ stop_event' = FALSE
    /\ configuring' = ready
    /\ noticed' = (noticed /\ ~stop_event)
    /\ UNCHANGED <<loop, ready, arm, link, stray>>

\* robot.configure() returns, or raises: always after robot.disconnect().
Configured ==
    /\ configuring
    /\ configuring' = FALSE
    /\ \E ok \in {port, FALSE} :
        /\ torque' = (torque \/ ok)
        /\ failed' = ~ok
    /\ UNCHANGED <<loop, stop_event, ready, port, goal, cut, link, noticed, stray>>

-----------------------------------------------------------------------------
(* The operator's leader arm and its way to the agent.                     *)

\* The operator moves or unplugs it, the network goes or comes back.
Operator ==
    /\ \/ hand' \in Positions /\ UNCHANGED <<gello, reach>>
       \/ gello = "open" /\ gello' = "dead" /\ UNCHANGED <<hand, reach>>
       \/ reach' = ~reach /\ UNCHANGED <<hand, gello>>
    /\ UNCHANGED <<loop, stop_event, ready, configuring, arm, latest_line, _ws, bridge, raw,
                   noticed, stray>>

\* The first call opens the port; a failure is final.
read_gello_raw_line ==
    /\ gello = "unopened"
    /\ gello' \in {"open", "failed"}
    /\ UNCHANGED <<loop, stop_event, ready, configuring, arm, hand, latest_line, _ws, reach,
                   bridge, raw, noticed, stray>>

\* GelloReader._run: a port that is dead raises, and is read on.
_run ==
    /\ gello = "open"
    /\ latest_line' = hand
    /\ UNCHANGED <<loop, stop_event, ready, configuring, arm, hand, gello, _ws, reach, bridge,
                   raw, noticed, stray>>

\* A line is dropped while the bridge has no client; a client that is closed is
\* taken off the list at the next line.
feed_line(line) ==
    /\ raw' = IF bridge = "listed" THEN line ELSE raw
    /\ bridge' = IF bridge = "closed" THEN "none" ELSE bridge

\* What reaches the agent's WebSocket is fed to the bridge.
_ws_server(line) == IF reach THEN feed_line(line) ELSE UNCHANGED <<bridge, raw>>

\* A connection that has failed is closed and its line lost; the next call opens
\* another one.
send_raw_line ==
    /\ gello \in {"open", "dead"} /\ latest_line # NoLine
    /\ _ws' = reach
    /\ _ws_server(latest_line)
    /\ UNCHANGED <<loop, stop_event, ready, configuring, arm, hand, gello, latest_line, reach,
                   noticed, stray>>

_accept_loop ==
    /\ bridge = "dialled"
    /\ bridge' = "listed"
    /\ UNCHANGED <<loop, stop_event, ready, configuring, arm, input, raw, noticed, stray>>

-----------------------------------------------------------------------------
(* run_teleoperation().                                                    *)

\* robot.connect(), which may raise, and the start of teleop.connect().
Connect ==
    /\ pc = "connect"
    /\ \/ /\ torque' = TRUE /\ port' = TRUE
          /\ bridge' = "dialled"
          /\ pc' = "leader"
       \/ /\ torque' \in BOOLEAN /\ port' \in BOOLEAN
          /\ pc' = "closing"
          /\ UNCHANGED bridge
    /\ UNCHANGED <<estopped, was_stopped, stop_event, ready, configuring, goal, failed, cut,
                   input, raw, noticed, stray>>

\* Faulty variant: does not wait for the first line.
Connected_AtOnce == pc = "leader"

Connected == pc = "leader" /\ raw # NoLine

\* teleop.connect() returns at the first line.  Until then the agent has not
\* reached its try clause: an exception ends it as it is.
Leader ==
    /\ pc = "leader"
    /\ \/ /\ Connected
          /\ pc' = "ready" /\ ready' = TRUE
       \/ /\ pc' = "closing" /\ UNCHANGED ready
    /\ UNCHANGED <<estopped, was_stopped, stop_event, configuring, arm, link, noticed, stray>>

\* The try clause begins.
Begin ==
    /\ pc = "ready"
    /\ pc' = "observe"
    /\ UNCHANGED <<estopped, was_stopped, stop_event, ready, configuring, arm, link, noticed, stray>>

\* robot.get_observation() returns or raises; stop_event is read after it.
Observe ==
    /\ pc = "observe"
    /\ pc' \in {"read", "finally"}
    /\ UNCHANGED <<estopped, was_stopped, stop_event, ready, configuring, arm, link, noticed, stray>>

Read ==
    /\ pc = "read"
    /\ estopped' = stop_event
    /\ pc' = "act"
    /\ UNCHANGED <<was_stopped, stop_event, ready, configuring, arm, link, noticed, stray>>

\* The first pass that finds the latch set; an exception is only printed.
Disable ==
    /\ \E ok \in BOOLEAN :
        /\ torque' = (torque /\ ~ok)
        /\ failed' = ~ok
    /\ UNCHANGED <<port, goal, cut>>

\* Faulty variant: only the edge is a stop.
Stopping_EdgeOnly == estopped /\ ~was_stopped

Stopping == estopped

Stopped ==
    /\ pc = "act" /\ Stopping
    /\ IF was_stopped THEN UNCHANGED arm ELSE Disable
    /\ was_stopped' = TRUE
    /\ noticed' = (stop_event = estopped)
    /\ pc' = "observe"
    /\ UNCHANGED <<estopped, stop_event, ready, configuring, link, stray>>

\* Faulty variants: the edge is never re-armed; the action is the first one again.
Rearmed_Never == was_stopped
Action_First == IF goal = NoLine THEN raw ELSE goal

Rearmed == FALSE
Action == raw

\* get_action() and send_action(), which may raise.
Send ==
    /\ pc = "act" /\ ~Stopping
    /\ was_stopped' = Rearmed
    /\ noticed' = (stop_event = estopped)
    /\ \/ /\ goal' = Action
          /\ stray' = IF stop_event /\ stray < 2 THEN stray + 1 ELSE stray
          /\ pc' = "observe"
       \/ /\ pc' = "finally"
          /\ UNCHANGED <<goal, stray>>
    /\ UNCHANGED <<estopped, stop_event, ready, configuring, torque, port, failed, cut, link>>

\* SIGINT: inside the try clause it leads to the finally clause, between on_ready
\* and the try clause past it.
Interrupt ==
    /\ pc \in {"leader", "ready"} \/ Looping
    /\ pc' = IF Looping THEN "finally" ELSE "closing"
    /\ cut' = (cut \/ pc = "ready")
    /\ UNCHANGED <<estopped, was_stopped, stop_event, ready, configuring, torque, port, goal,
                   failed, link, noticed, stray>>

\* SerialBridge.close().
close == bridge' = "closed"

\* teleop.disconnect(): the leader's connection goes, here or in bridge.close().  An
\* exception, or another SIGINT, skips robot.disconnect().
Finally ==
    /\ pc = "finally"
    /\ close
    /\ \/ pc' = "release" /\ UNCHANGED cut
       \/ pc' = "closing" /\ cut' = TRUE
    /\ UNCHANGED <<estopped, was_stopped, stop_event, ready, configuring, torque, port, goal,
                   failed, input, raw, noticed, stray>>

\* robot.disconnect(): what it leaves when it has returned, and when it has raised, was
\* interrupted or met a configure().
Disconnected(on) == torque' = on /\ port' = FALSE /\ cut' = cut
HalfDisconnected == torque' \in {torque \/ configuring, FALSE} /\ port' \in BOOLEAN /\ cut' = TRUE

\* Faulty variant: a stopped arm is taken for released.
Release_UnlessStopped ==
    /\ pc = "release"
    /\ (~configuring /\ Disconnected(torque /\ was_stopped)) \/ HalfDisconnected
    /\ pc' = "closing"
    /\ UNCHANGED <<estopped, was_stopped, stop_event, ready, configuring, goal, failed, link,
                   noticed, stray>>

Release ==
    /\ pc = "release"
    /\ (~configuring /\ Disconnected(FALSE)) \/ HalfDisconnected
    /\ pc' = "closing"
    /\ UNCHANGED <<estopped, was_stopped, stop_event, ready, configuring, goal, failed, link,
                   noticed, stray>>

\* main() closes the session.
Exit ==
    /\ pc = "closing"
    /\ pc' = "exited"
    /\ UNCHANGED <<estopped, was_stopped, stop_event, ready, configuring, arm, link, noticed, stray>>

Main ==
    \/ Connect \/ Leader \/ Begin \/ Observe \/ Read \/ Stopped \/ Send
    \/ Finally \/ Release \/ Exit

Next ==
    \/ on_stop \/ on_reset \/ Configured
    \/ Operator \/ read_gello_raw_line \/ _run \/ send_raw_line \/ _accept_loop
    \/ Main \/ Interrupt

Spec == Init /\ [][Next]_vars

\* Calls return, and the threads and the input agent's loop run.
FairSpec ==
    /\ Spec
    /\ WF_vars(Main) /\ WF_vars(Configured) /\ WF_vars(_accept_loop)
    /\ WF_vars(read_gello_raw_line) /\ WF_vars(_run) /\ WF_vars(send_raw_line)

-----------------------------------------------------------------------------
(* Properties.                                                             *)

TypeOK ==
    /\ pc \in {"connect", "leader", "ready", "observe", "read", "act", "finally", "release",
              "closing", "exited"}
    /\ estopped \in BOOLEAN /\ was_stopped \in BOOLEAN /\ stop_event \in BOOLEAN
    /\ ready \in BOOLEAN /\ configuring \in BOOLEAN /\ torque \in BOOLEAN
    /\ hand \in Positions
    /\ latest_line \in Positions \cup {NoLine}
    /\ raw \in Positions \cup {NoLine} /\ goal \in Positions \cup {NoLine}
    /\ gello \in {"unopened", "open", "dead", "failed"}
    /\ ready => raw # NoLine
    /\ bridge \in {"none", "dialled", "listed", "closed"}
    /\ _ws \in BOOLEAN /\ reach \in BOOLEAN
    /\ port \in BOOLEAN /\ cut \in BOOLEAN
    /\ noticed \in BOOLEAN /\ failed \in BOOLEAN /\ stray \in 0 .. 2

\* "robot/cmd/stop coupe le bras" (README.md:568): once the loop has dealt with a
\* stop, and no configure() is under way, the torque is off, unless
\* disable_torque() itself has failed.
Released == stop_event /\ was_stopped /\ pc = "observe" /\ ~configuring => ~torque \/ failed

\* "while set, it stops calling send_action()" (arm_agent.py:81): of the actions
\* that a stop finds on their way, one at most is still sent.
OneStrayAction == stop_event => stray <= 1

\* The finally clause (start_teleoperationV2.py:263-266): whatever ended the loop, an
\* exception of the arm, a SIGINT or a latched stop, and whatever callbacks still come
\* before the session is closed, the follower is left without torque.  The clause is
\* three calls in a row: it promises nothing when one of the first two raises or is
\* interrupted in its turn, when a reset is in configure() next to it, or when a SIGINT
\* falls between on_ready and the try clause (216-226).
ExitReleases == pc = "exited" /\ ready /\ ~cut => ~torque

\* "resume correctly on reset" (arm_agent.py:83-84): when no stop is latched any
\* more, and the GELLO stays plugged in and the network up, the arm is powered and
\* sent where the leader is, unless the agent ends or the follower has refused.
Follows ==
    \A p \in Positions :
        <>[](~stop_event /\ gello = "open" /\ reach /\ hand = p) =>
            \/ <>[](goal = p /\ torque)
            \/ <>[]failed
            \/ <>(pc = "exited")

=============================================================================
