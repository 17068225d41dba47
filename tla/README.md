# Roby: models, checks and proofs

Roby is a teleoperated robot: a mecanum base, a seven-joint arm and a mast with
a vertical carriage, driven by an operator through a browser or a joystick.
This directory holds TLA+ models of the parts of it that keep it safe, the TLC
runs that check them on small instances, and proofs, checked by TLAPS, of what
holds of them for every value of their parameters.

Contents: [inventory](#inventory), [plan](#plan), [modules](#modules),
[runs](#runs), [bounds](#bounds), [fairness](#fairness), [proofs](#proofs),
[disagreements](#where-the-code-and-what-is-said-of-it-differ),
[limits](#what-is-not-modelled). The machine-readable side (which definition
models which lines, which fault each property detects) is in `PROJECT.json`.

    tlc -config MastTeleop.cfg MCMastFirmware.tla     # a run
    tlapm MastFirmwareProofs.tla                      # the proofs of a module


## Inventory

                      operator PC                              robot PC
    browser ──ws──> web_server ──┐                  ┌──> robot_agent ──USB-CAN──> wheels
    (control.js)                 ├── Zenoh router ──┼──> mast_serial_bridge ──serial──> mast firmware
    input_agent (joystick) ──────┘                  └──> arm_agent (stop, reset) ──> arm
    browser (gello.js) ──ws, raw lines of the leader──> arm_agent
    camera server ──ws, JPEG──> browser (camera.js)

All the processes of the robot PC are started by `scripts/start_robot.sh`, which
ends them all when one ends. Nothing is persisted but preferences of the
browser: a process that restarts starts from its initial state.

**Mast firmware** (`firmware/mast/src/main.cpp`, an Arduino). *State*: the state
machine `ST_IDLE … ST_FDC` with the pending job, the timers, the step count, the
homed flag and measured course, the brake relay and its manual release, two
debounced endstops. *Operations*: the commands `STOP`, `BRAKE:`, `POS:`, `VEL:`,
`UP_START/STOP`, `DOWN_START/STOP`, `H`, `FDC`, and one pass of `loop()` in each
state. *Interaction*: text lines in, telemetry and acknowledgements out; a reset
each time the serial port is opened. *Hard*: five routes open and close the
brake; timers, endstop contacts and commands meet in every order; a movement may
be retargeted, reversed, stopped or reset anywhere. *Correct when*: the brake is
open only while it has to be and the motor is driven only against an open brake;
a velocity run ends when its commands do; the carriage stays near its course;
the position it reports after homing is its position; every movement ends.

**Base agent** (`robot/robot_agent.py`, with `robot/damiao.py`). *State*: the
last base command and deadman with their arrival times, the E-stop latch, the
per-wheel ramp, the motors themselves. *Operations*: callbacks on
`robot/cmd/base`, `operator/deadman`, `robot/cmd/stop`, `robot/cmd/reset`, the
100 Hz control loop, the shutdown, and the SIGINT handler that `damiao` installs.
*Interaction*: Zenoh threads and the main thread share `state` under a lock;
`disable_all`/`enable_all` run outside it, motor by motor. *Hard*: the loop acts
on a snapshot; a stop meets a reset; a frame fails half way; a signal; a wall
clock that steps back. *Correct when*: a robot nobody authorises stands still
after the ramp; a stop disables every motor and a reset enables every one, if nothing
disturbs it, whatever was disturbed before; no motor stays enabled after the exit; the
ramp is gradual and ends at its target.

**Arm agent** (`robot/arm_agent.py`, `robot/start_teleoperationV2.py`). *State*:
`stop_event`, `was_stopped` in the loop, torque of the follower, the leader's last
line and its connections. *Operations*: stop, reset (`configure()`), the steps of
`run_teleoperation`, the WebSocket feed, the bridge's accept loop. *Hard*: stop and
reset within one tick, in either order; a failing `disable_torque`; a leader that
comes late, goes or never comes; a reset that outlives the loop; a `finally` clause
that fails or is interrupted in its turn. *Correct when*: a stop takes the torque off
and lets at most one action through; an exit that is not cut short leaves the
follower without torque; after a reset the arm follows again.

**Mast serial bridge** (`robot/mast_serial_bridge.py`). *State*: the serial handle
under `ser_lock`, the published link state. *Operations*: `on_command`,
`open_serial`, `close_serial`, the read loop with its silence timeout. *Hard*: a
command written while the port is being closed or was reopened; a write that
blocks with the lock held; an interrupt in any of these; a link state published
only on a change, and noted before it is published. *Correct when*: no command is written to a handle that has been
closed; the link state tells the truth; the port is reopened.

**Web server** (`operator/web_server.py`). *State*: the last states received, one
coroutine per socket. *Operations*: relay of each message type, staleness of the
status, stop on disconnection. *Hard*: the stop of an old connection after a new
one took over; a link state missed before the start. *Correct when*: losing the
client stops base and mast; the pages show what is there.

**Browser control** (`control.js`, `net.js`), **input mapping** (`joystick.js`,
`config.js`) and **input agent** (`operator/input_agent.py`, `gello_reader.py`).
*State*: keys, deadman, `mastMmSPrev`, the opt-in toggle; the reconnecting socket.
*Operations*: input events, the control tick, the passes of the joystick's loop.
*Hard*: a frame sent while the socket is down is dropped, also the one `mm_s:0`; two
sources of the same topics; a button that was read before a stall and is published
after it.
*Correct when*: when nobody holds a deadman everything stops in time, and who holds
one is obeyed.

**Camera server** (`uvc_camera_server.py`, `camera_pub.py`). *State*: `cameras`, a
capture thread per camera with `alive` and its latest frame, the pass of the
discovery, what a client was sent. *Hard*: reaping a camera whose thread still
holds it; frame ids that begin again. *Correct when*: an index has one capture; a
camera that is there is streamed; the list the client was sent is true.

**GELLO relay of the browser** (`gello.js`, `armLink.js`), **browser video**
(`videoMux.js`, `camera*.js`, `popoutCanvas.js`), **views** (`status.js`,
`birdview.js`, …): display and relay without state of their own. **Start scripts**:
which processes get which signal. **Zenoh configuration**, **bench tools**,
**legacy**: no state of the running system.


## Plan

The order is that of the harm a fault does, nearest to the actuators first. All of
it is done but the last row.

| # | module(s) | what | theorems |
|---|-----------|------|----------|
| 1 | `MastFirmware`, `BrakeInterlock` | the firmware, and what it promises of its brake | invariant, brake, dead-man, overrun, reference, position, course, refinement |
| 2 | `BaseAgent`, `EmergencyStop`, `WheelRamp` | the base agent, and what it promises of its stop; one wheel in numbers | types, watchdog, latch, ramp, exit, refinement; the gradual ramp |
| 3 | `ArmAgent` | the arm's loop, its callbacks and the way of the leader's lines to it | types, stop, stray action, exit |
| 4 | `MastBridge` | threads around `ser_lock`, reopening, the link state up to the pages | types, handle, link |
| 5 | `Teleop` | browser, web server and input agent up to the watchdogs of the robot | types, hands off ⇒ halt |
| 6 | `Cameras` | discovery, capture, stream | types, one capture |
| 7 | `MastSupervised` | *planned*: the build with `ENCODER_SUPERVISION 1` (`superviseStall`, `ST_CORRECT`) | brake discipline of that build |

What `start_robot.sh` does to processes is part of the modules of the processes
it does it to (`Kill` in `BaseAgent` and `MastBridge`). The list of runs is kept
short, one for each question.


## Modules

`MastFirmware` follows `main.cpp` handler by handler: `CmdStop`, `CmdBrake`,
`CmdPos`, `CmdJog`, `CmdJogStop`, `CmdHoming`, `CmdVel`, `CmdVelZero`, `CmdFdc`
are the branches of `handleCommand`, and a pass of `loop()` is
`UpdateEndstops /\ (Pulse \/ Timer \/ Idle \/ NotDue) /\ Tick`: the endstops are
read first and what `runState` does sees the values just read (`Hit` is primed).
`startPre`, `enterPost`, `emergencyStop`, `fdcAbort`, `planMove`, `doPulse` keep
their names. `state` is `state`; `dir`, `left` and `since` each stand for the
variables of the job under way (`jogDir`, `velDir`, `mv.dir`; `mv.total - mv.done`,
`homBackoffLeft`; `preStart`, `postStart`, `fdcStart`, `velLastCmdMs`), which are
never alive together. `pos`, where the carriage is, and `silence`, the age of the last `VEL:` that moves it, are not in the
code. A refused command changes nothing and is a stuttering step. The endstops
bounce at the point where they close, or are stuck. A serial line is atomic: the
loop calls `handleCommand` only on a full line.

`BrakeInterlock` is the abstract specification: stopped → releasing → driving →
settling → stopped, each relay delay respected, an emergency stop from anywhere,
manual release at rest only. `MastFirmware!Interlock` instantiates it with the
refinement mapping (`Phase`), and `ImplementsInterlock` is both checked and proved.

`BaseAgent` has the steps of the threads interleaved: `Snapshot` (the inputs read
under the lock), `DriveTick` (the head of `_drive`, which reads the clock again),
`RampWheel`, `CallWheel`, `SendWheel` for each wheel, `Sleep`; the
callbacks `on_base`, `on_deadman` in one step, `on_stop` as latch then
`StopMotor` motor by motor, `on_reset` as unlatch, `ClearRamp`, `ResetMotor` motor
by motor; `CloseSession`, `ExitMotor` for the `finally` clauses of
`main`, reached by an exception of the loop. A stop and a reset run side by side, and
beside the exit: nothing in `main` waits for a callback. A frame of `disable_all` or
`enable_all` may raise (`StopFails`, `ResetFails`, `ExitFails`), and one of the loop may
be lost, which leaves the motor at the speed before (`SendWheel`). `signal_handler` is
the handler `damiao.py` installs for SIGINT, and `Kill` what `start_robot.sh` does to a
process that survives it. Speeds are levels: one level is one pass of the ramp. A clock
that was set back since the last pass makes `dt` 1e-6: that pass ramps by nothing
(`frozen`). Python (3.10, which
the annotations need) switches threads at calls, so the value given to
`control_mit` (`frame`) may be older than the ramp. What the model leaves to
constants: by how much the wall clock may step back (`ClockStep`), whether a SIGINT may
come (`Sigint`), which payloads arrive (`Payloads`; `"bad"` is JSON that is no object).

Two variables are history. `lost`: the motors whose latest frame was lost. `alone`:
the latest stop, reset or exit that had motors to switch met no fault, and none that
switches them the other way. The properties about the motors have them as premises, as
nothing else is true of the code: a stop that crosses with a reset leaves some motors
enabled under the latch, and a frame that raises does too. What they promise is that this
ends with the next stop or reset that is undisturbed, whatever it finds.

`EmergencyStop` is the abstract specification of the stop: it latches, then only takes
power off, until none is left; a reset unlatches, then only gives power, until none is
missing, and sets nothing in motion; both may be under way at a time; a motor without
power does not turn; an end that is no kill leaves none powered; a fault ends any of
these where it is. `sound` says whether the latest of them has been undisturbed, which
is when it has to be complete. `BaseAgent!Emergency` instantiates it, `cutting` and
`restoring` being the place of `disable_all` and `enable_all` in their loops, and who
turns being read off the motors' speeds. `ImplementsEmergencyStop` is checked and proved.

`WheelRamp` is `_drive` for one wheel in integers: `goal + (smoothed - goal) *
decay`, then the snap to zero. It justifies the levels of `BaseAgent`.

`ArmAgent` has `run_teleoperation` in the steps between which another thread can
come: `Connect`, `Leader` (the wait for the first line, outside the `try`), `Begin`
(after `on_ready`, up to the `try`), `Observe`, `Read` (the one look at `stop_event` of a
tick), `Stopped` or `Send`, `Finally` (`teleop.disconnect()`), `Release`
(`robot.disconnect()`), and `Exit`, the end of the session, until which callbacks come.
Any of the calls may raise, the last two included, and `Interrupt` may come anywhere; a
second one in the `finally` clause is what an exception there is: it skips the rest.
`cut` is the history of that. `on_stop` and `on_reset` come from Zenoh; `Configured` is
the end of the `configure()` that a reset runs beside the loop, which fails once the
follower's port is closed (`port`). The way of a line is
`_run` (the GELLO's reader), `send_raw_line` (the operator's `ArmLink`, a network
that comes and goes, `_ws_server`, `feed_line`), `_accept_loop`. `Hurried` says
whether a stop or reset may follow another one before the loop has seen it.

`MastBridge` has the main thread's `Begin`, `Open`, `Opened`, `Publish`, `ReadLine`,
`ReadNothing`, `ReadError`, `Lost`, `Closing`, `Tell`, `Sleep`, where `Opened` and `Lost`
are what happens under `ser_lock`, the callback's `on_command` and `Written` (which need
not come: a write has no timeout), and the ends of the process. `set_connected` is two
steps, the assignment (in `Opened` and `Tell`) and `Publish`; an `Interrupt` between them
makes the `finally` clause take the change for published. `Abort` is an interrupt that no
`finally` clause makes up for, before the `try` or a second one; `cut` is the history of
all these. `Kill` is a kill.
`translate_command` is what it makes of a request, by its action and how well formed
its argument is. The Arduino can be unplugged, hang, and starts anew when its port
is opened. Composed with it is what `web_server.py` keeps of the mast: `_mast_linked`,
`_mast_state`, and `lifespan`, a server that is started again.

`Teleop` composes the operator's side: `control.js` (`Operate`, `toggle`, `tick`)
over `net.js` (`send`, `connect`, `onclose`), the web server's `_handle_control` and
`Gone` (the `finally` of a connection), `Restart`, and the input agent's `Press`,
`Read` (the button), `Pass` (what was read is published, up to `Stall` later, as
`send_raw_line` may wait for a robot without its arm agent), `End`. Of the robot it has what the watchdogs of `BaseAgent` and `MastFirmware`
make of the topics: for how long each one's last value still counts (`left`). A frame
that drives takes at most `Delay` (one that stops may take for ever); several connections
may be served at a time.

`Cameras` has the discovery's pass (`Reap`, then `Skip` or `Start` and `Insert` for
each index; `Glitch` for an exception), the capture thread (`Opening`, `Frame`,
`Lose`, `Raise`, `ReleaseHandle`) and the stream to a client (`Top`, `Pick`,
`Forget`). `last_sent` is not a number but how it compares with `latest_id`, as ids
begin again with each capture.

`MCMastFirmware`, `MCWheelRamp`, `MCMastBridge` and `MCTeleop` give constants their
values; the modules that need only numbers and model values are checked as they are. Operators named
`X_Something`, marked as faulty variants, are plausible bugs of `X`: substituted
for it, they make the property they belong to fail, which shows that the property
says something about the code.


## Runs

| run | instance | checks | shows |
|-----|----------|--------|-------|
| `mast_teleop` | course of 4, any start, endstops bouncing, all manual commands, resets | `IInv` `BrakeDiscipline` `VelWatchdog` `NoOverrun` `Settles` `ImplementsInterlock` | the brake, the dead-man and the overrun hold in manual driving; every movement ends at rest; the interlock is implemented |
| `mast_homing` | course of 14, backoff 2, a release longer than the relay, homing, targets below, inside and beyond the course, jogs, stops, resets | `PosErrorBounded` `HomedCourse` `MoveInCourse` `Settles` | homing measures the course, also one that begins where the low endstop is still taken for closed, and the position stays known through retargets and endstop contacts |
| `mast_open_switch` | high endstop never closes | `TypeOK` `OpenSwitchNoReference` `Settles` | homing gives up at its limit and leaves no reference |
| `base_agent` | 2 wheels, parallel stops and resets, frames that raise or are lost, a payload that ends the loop | `TypeOK` `LatchMatchesMotors` `ExitDisables` `Rearms` `ImplementsEmergencyStop` | after any crossing or fault the next undisturbed stop, reset or exit puts every motor right; a reset re-arms; the emergency stop is implemented |
| `base_clock` | 1 wheel, a ramp of two levels, a clock set back, lost frames, signals | `Halts` `ResetClearsRamp` | the watchdog holds to the pass, with the frozen one not counted; a reset leaves no ramp behind |
| `base_sigint` | 1 wheel, a SIGINT | `SigintDisables` *violated* | SIGINT neither ends the agent nor disables its motors |
| `wheel_ramp` | targets −30, 0, 3.75, 7.5, 30 rad/s, passes of 10 and 20 ms | `NoHardStep` `Stops` `FollowsStrong` | the ramp is gradual, stops exactly, reaches strong targets |
| `arm` | two positions, stops and resets that wait for the loop, GELLO and network that come and go, exceptions and interrupts, in the `finally` clause too | `TypeOK` `Released` `OneStrayAction` `ExitReleases` `Follows` | torque off after a stop, one action at most, a safe exit unless it is cut short, and the leader followed after a reset |
| `arm_hurried` | the same with stops and resets at any time | `Released` *violated* | a reset and a stop within a tick leave the torque on under the latch |
| `mast_bridge` | every kind of request, blocking writes, cables, an Arduino that hangs, interrupts anywhere, a web server started again | `TypeOK` `HandleSafe` `LinkHonest` `LinkFollows` | the lock keeps the handle, the link is true but for one gap, the port is found again and the pages show it |
| `teleop` | two connections, frames delayed by a unit, a joystick beside the page that stalls for two, timeouts of two | `TypeOK` `Halts` `Obeys` | nothing moves when nobody holds, once delay, stall and timeout have passed; who holds is obeyed |
| `cameras` | two indices, one pulled and plugged at any moment | `TypeOK` `OneCapture` `Streams` `ListFollows` | one capture for an index; what is plugged in is streamed and listed |

`CHECK_DEADLOCK FALSE` stands in the Base and Arm configurations, where the process
ends and the model with it. In those of the bridge, of `Teleop` and of `Cameras` no
component is bound to act: a bridge may stay ended, an operator may do nothing, a
camera may never come, and what remains then are steps that change nothing.


## Bounds

*Mast.* Distances are pulses, times are passes. The course is long enough for a
carriage that is at neither endstop when a movement starts and meets one, or the
other after a reversal, before it ends; in the runs that check `NoOverrun`, the margin to the
mechanical stop is larger than the overrun, so `NoOverrun` is not held up by the
stop. Debounce times are 1 to assert and 2 to 5 to release: both branches of the
debounce and an interrupted one occur. The relay takes 2 passes, so commands
arrive before, at and after its expiry; in `mast_homing` it takes 1, well under the
release, as 10 ms are under 20 ms, so that a homing can begin beside an endstop that
is still taken for closed. `HomingMax` is larger than the course in
`mast_homing`, so it is not hit there, and is what ends the seek in
`mast_open_switch`. `StepCap` bounds the step count with which `H` is asked for:
only failed homings and resets lose the reference, and the count does not
influence homing. The order of the times is that of the code where a property
depends on it; `VelTicks`, `RelayTicks` and `ReleaseTicks` may otherwise change
places, which the proofs, made for every value, confirm for the safety part.

*Base.* In `base_agent` two wheels are enough for a stop and a reset to be at different
motors, for a fault between two of them and for a pass to be cut between wheels; the
ramp has one level, as what is checked there is who is enabled and who turns; `"bad"` is
how the loop ends. In `base_clock` one wheel has two levels of ramp, so that it can be neither
stopped nor at speed, and `ClockStep` is 1, half the timeout: a message that counts once
more after it had grown old, and one that has grown too old for that. `Timeout` 2 gives
fresh, last fresh and stale commands in both. `AgeCap` and `IdleCap` count
past every comparison and no further. `base_sigint` is the smallest instance that drives.
SIGINT is left out of `base_agent`, where it would only add the `Kill` that
`base_clock` and `base_sigint` have. The theorems lift `N`, `Full`, `Timeout`, `Payloads`,
`ClockStep` and `Sigint`.

*Wheel.* Velocities are in units of 0.01 rad/s with the code's `MAX_VEL` and
`VEL_SNAP_ZERO`; the percentages are those of a pass of one and of two control
periods.

*Arm.* Two positions tell an action of the present leader from an older one;
`stray` counts to 2, one past what is promised.

*Bridge.* `BootTime` = `Silence` = 2 ticks: an Arduino that has just been reset
sends its first line at the last moment at which it is not yet taken for lost. All
combinations of an action and a kind of argument arrive.

*Teleop.* With two connections an old one can be served, and end, after a new one
has taken over; three only repeat this. `Delay` 1 and `Timeout` 2 let a frame
arrive at once or late and a value be fresh, old and gone; `Stall` 2, longer than the
delay, as the 1.0 s of `ARM_WS_OPEN_TIMEOUT` are longer than a relay. With the delay in
the place of the stall TLC finds `Halts` violated. `Both` is `FALSE`: the operator uses
browser and joystick one after the other, while the process of the other still publishes.
The frames of one tick
are under way at a time, which is what the page's 50 ms and a short delay give.
`ReleasedCap` is the first value past the bound of `Halts`. The operator holds a key
of the base with the deadman, or the mast's with or without it; without the deadman every key
gives the frames of none. The theorem lifts connections, delay, stall, timeout
and `Both`.

*Cameras.* Two indices: one whose camera comes and goes, and one that stays, which
the same pass must skip. The theorem lifts the number of indices.


## Fairness

*Mast.* `WF(Pass(Timer))`: `loop()` runs for ever and `millis()` advances, so a
timer that runs comes to its end. `WF(Pass(Pulse))`: `micros()` reaches
`nextStepDue`. Weak fairness is enough as neither is disabled by waiting. Commands,
resets and the choice of endstop readings are not fair; `Settles` is about
behaviours in which commands and resets cease.

*Base.* `WF(Main)`: the main thread is scheduled. `WF(StopMotor)` and
`WF(ClearRamp \/ ResetMotor)`: a callback that has begun goes on. Messages and
signals are not fair: `Rearms` assumes that the command stays authorised, and, from some
time on, an undisturbed reset, frames that arrive and a clock that goes on.

*Wheel.* `WF(Pass)`: the loop passes.

*Arm.* Weak fairness of the main thread, of a `configure()` under way, of the
accept loop, of the GELLO's reader and of the input agent's loop: calls of lerobot
return and threads are scheduled. `Follows` assumes that the GELLO stays plugged
in, the network up and the stop released.

*Bridge.* `WF(Main)`, and strong fairness of `Lost` and `Opened`: the main thread
waits for a lock that is free again and again, and Python's lock gives it to a
waiting thread in the end. `SF(ReadLine(TRUE))`: not every position is lost. Nothing
is assumed of a write; `LinkFollows` has it as a premise.

*Teleop.* Weak fairness of the page's timer, and of the server's handling of what each
connection has received: an interval and a coroutine that are not starved. Neither
reconnection nor time nor the joystick is fair: `Halts` needs no fairness and `Obeys`
assumes a connection that lasts and that the joystick's process has ended.

*Cameras.* Weak fairness of each thread, of the discovery and of the stream;
`SF(Start /\ at = i)`, a probe that can succeed does at some time, as a `Glitch` may
end any one pass; `SF(Top(TRUE))`, the check of the list falls due.


## Proofs

All for every value of the constants that the module's `ASSUME` admits.

`MastFirmwareProofs`. The invariant is `IInv`: the types, the brake discipline
(`brakeReleased` iff busy or manual, and manual only at rest), `Clocks` (a relay
timer never passes its limit, the watchdog by one), `Jobs` (a pending job exists
exactly in `ST_PRE`, a homing phase exactly in `ST_HOMING`) and `Silences` (the
silence of a velocity run against the timer that runs). `BrakeDiscipline` alone is
not inductive, since whether a command is accepted depends on `pending`, and
`VelWatchdog` is not either: that the silence ends within `RelayTicks + VelTicks +
2` passes follows only from what each timer has counted. One lemma for each
handler, and one for each of the ways they share (`PostKeeps`, `StartKeeps`,
`StayKeeps`). Results: `Invariance`, `TypeCorrect`, `BrakeSafe`, `DeadMan`.

`Implementation`, in the same module: every behaviour of the firmware is one of
`BrakeInterlock`. Each command, pass and reset is mapped to a step of the
interlock or a stutter, from `IInv` (which says that a relay that has expired is
exactly at its limit, and that no manual release survives into a movement).

`MastCarriageProofs`. First what the steps do to the carriage and to the homing
(`Ordered`, `Passed`, `Phased`), so that what follows does not go through the
handlers again. `NoFalseReference` (`OpenSwitchNoReference`): an endstop that never
closes is never taken for closed, so the phases of the homing do not get past it
(`Blind`). `Bounded` (`NoOverrun`), for working endstops: `Near` ties how far the carriage
is past an endstop to what its debounce has counted. A reset breaks that tie, since
it begins the debounce anew wherever the carriage is; what replaces it is that the
debounce then ends before the relay lets a movement begin. So the theorem assumes
`AssertTicks <= RelayTicks` (2 and 10 ms in the code), and, as the pulses of a backoff look at no
endstop, a course longer than a backoff and the time the low endstop takes to
release.

Last the homed mast: `PositionKnown` (`PosErrorBounded`), `CourseMeasured`
(`HomedCourse`), `MovesInCourse` (`MoveInCourse`), from one invariant, `Reference`, of
four parts. `High`: the high endstop is not taken for closed from further below than
its debounce has counted. `Homing`: what each phase knows of where the zero will be;
the position, the pulses left and those counted up to the high endstop add up to it.
`Referred`: what a homing leaves, which `fdcAbort` may replace by either end. `InCourse`:
only a homed mast moves to a position, and to one that was constrained. None is inductive
without `Near`, which says that a contact that is seen is a contact that was reached.
The assumption, `Exact`, adds to that of `NoOverrun`: the mechanical stops are beyond
the overrun (else pulses are counted that move nothing), an overrun is no longer than two
backoffs, and the course has room for two backoffs and two releases. In the code's
numbers, with the fastest pulse (130 µs) for a pass: an overrun of 16 steps, backoffs
of 160, a release of 154 and a course of some 37,000; that the stops lie more than
0.3 mm behind the switches is taken from the machine.

`BaseAgentProofs`. Nothing is assumed: callbacks are in any number of threads, frames
raise or are lost, the clock is set back. `TypeCorrect`. `RampCleared`
(`ResetClearsRamp`): `Cleared` says that a ramp which has not been driven since the last
reset is at rest. `Watchdog` (`Halts`): `Levels` says how
high a wheel, a motor whose latest frame was not lost and a frame under way can be,
before and after the wheel's turn in a pass, for each number of passes since the last
authorised one; a frozen pass neither counts nor takes anything down.
`LatchHolds` (`LatchMatchesMotors`): `Latch` says which motors are enabled while a stop
or a reset is at motor k, and `Latched` that this is so while `alone`. What makes it hold
after any disturbance is that a stop or a reset which begins alone needs to know nothing
of what is enabled: it goes over all motors. `ExitSafe` (`ExitDisables`): `Exits` says
the same of the exit, beside which a stop does no harm.
`Implementation` (`ImplementsEmergencyStop`): each step of a callback,
of the loop and of the end is mapped to one of `EmergencyStop` or to a stutter. It
needs `Latched` and `Exits`, which tell which motor comes last, and from `Levels` that a
disabled motor has no speed.

`WheelRampProofs`. `GearboxSafe` (`NoHardStep`), for every set of targets, every decay
and snap: `Between` says that a wheel is between two of its targets, and the rest is the
arithmetic of one pass, rounded as the model rounds it.

`ArmAgentProofs`. `TypeCorrect`, `OneStray` (after an action under a stop the loop
reads the latch before the next: `Stray`) and `ExitSafe` (`ExitReleases`) assume nothing.
`Exits`: a robot that is held and whose ending is not cut has left the loop through the
release, with no `configure()` beside it, and its port is closed; so that a reset which
still comes finds no follower to power. `StopReleases`
(`Released`) assumes `~Hurried`: `Latch` ties what the loop has noticed to the latch.

`MastBridgeProofs`. Nothing is assumed. `Count`: the silence is past its limit only
when that has been noticed. `Handle`: whoever writes or reads has a handle, and a
handle's port is not closed; the lock keeps it when the handle is taken away.
`Told`: what was published last is what the bridge believes, but between the two steps of
`set_connected`, and fits where it is, unless the ending was cut.

`TeleopProofs`. Nothing is assumed. `Flight`: a frame on its way that drives was
sent when a deadman was held, so `released` is at most its age. `Sampled`: the same of a
button that was read as held and is not yet published, with the time of the stall.
`Kept`: how long a topic still drives and how long ago a deadman was held add up to at most
`Latest + Timeout`, where `Latest` is the longer of delay and stall for the topics the
joystick publishes, and the delay for the mast. Every relay keeps that sum, time adds to
one side what it takes from the other, and `HandsOffHalts` follows.

`CamerasProofs`. `Recorded`: a capture whose thread has not said that it ends is
alive and, but between its start and its insertion, in `cameras`. `Passed`: what is
in `cameras` during a pass was claimed when it began, or the pass has been there.
So no index is opened twice (`OpenedOnce`).

Assumed are `Exact` and its like for the carriage, which are numbers of the machine, and
`~Hurried` in `StopReleases`, which `arm_hurried` shows to be needed: an operator is quick.
The premises `alone`, `lost` and `cut` of the properties are no assumptions on the
environment: crossings, faults and interrupts happen in the runs and in the proofs, and the
premises say for how long a property is off. What the code does then is in the list below.

Only model-checked: liveness (`Settles`, `Rearms`, `Stops`, `FollowsStrong`,
`Follows`, `LinkFollows`, `Obeys`, `Streams`, `ListFollows`), which needs fairness, out
of this prover's reach. Every other property of a passing run is a theorem.


## Where the code and what is said of it differ

With a run (quoted in `PROJECT.json`, "findings"):

- `base_sigint`: `robot/damiao.py:645` installs a SIGINT handler as it is imported,
  so the `KeyboardInterrupt` that `start_robot.sh:195-197` counts on is never raised
  in the base agent, and the SIGKILL that follows leaves the motors enabled.
- `arm_hurried`: `start_teleoperationV2.py:232` looks at the latch once per tick; a
  reset and a stop between two looks leave on the torque that `configure()` has
  switched on.

Observed while modelling, without a run of their own. Where a property of a passing run
says otherwise than a document or leaves the case out, it is named.

*Mast.*

- A high endstop stuck closed ends `HP_SEEK_MAX` at once and homing accepts the
  negative course (`main.cpp:503`), against "borné `[0, course]`"
  (`firmware/mast/README.md:187`).
- `firmware/mast/README.md:214-215` has a jog refused in an endstop; `cmdJog` looks at
  no endstop, so the brake opens and the first pass ends the movement.
- The backoff phases of homing pulse upwards without reading the high endstop.
- The endstops release after 20 ms and the relay opens the brake after 10: a homing asked
  for just after a stop beside the low endstop finds it still closed, backs off from
  where it is, and measures the course shorter by that distance (`HomedCourse` allows
  for it; `PosErrorBounded` too).
- `silence` can reach one relay delay more than `VEL_TIMEOUT_MS`, as `ST_PRE` waits
  for the relay and restarts the watchdog.

*Base.*

- `robot_agent.py:36` calls a stop a "latching emergency stop (requires restart)", and
  `on_stop` prints "Restart robot_agent.py to clear." (line 245). But `on_reset`
  (lines 248-261) clears the latch and enables the motors without a restart, as its own
  comment and `README.md:525` and `557` of the repository say: `Rearms` holds, and it is
  exactly the case that lines 36 and 245 exclude.
- A stop that comes during a reset, as each has a thread of its own, leaves motors
  enabled under the latch (`robot_agent.py:239`), against "moteurs désactivés jusqu'à
  `robot/cmd/reset`" (`README.md:556-557` of the repository); a frame that fails does too,
  and no stop tries again (`robot_agent.py:234`): the premise `alone`. Only a reset, and then
  a stop, put them right.
- A reset during the exit enables motors that the exit has disabled, since the session's
  end does not wait for callbacks (`robot_agent.py:335-341`), and a frame that raises there
  leaves the rest enabled, against "motors are already safely stopped" (lines 343-346).
- A frame of the loop that raises is only printed (`robot_agent.py:157-158`): the motor
  keeps its last speed until a later frame arrives (the premise of `Halts`), and if that is the last
  one of a pass that ends the loop, only `disable_all` stops it.
- A clock that is set back makes the next pass's `dt` 1e-6 (`robot_agent.py:145`): the
  ramp stands still for it, and the base turns one pass longer than the ramp takes.
- A reset while driving clears the ramp under enabled motors (`robot_agent.py:255`),
  the jolt that the ramp is there to prevent (`robot_agent.py:78-80`).
- A target too weak to leave the snap (below about 5.3 rad/s) never starts a wheel at rest
  (`robot_agent.py:153`, described as a snap while stopping in lines 78-85).
- A velocity of zero is encoded as `int(2047.5)` = 2047 in 12 bits, which the motor
  decodes as slightly negative.
- Freshness in `robot_agent.py` is measured by `time.time()`: a clock set back
  keeps a stale command fresh for as long, and no longer (`Halts`, where what
  authorises is looked for within the timeout and that step).
- A stop and a reset between `control_mit`'s call and its frame deliver one frame
  of the old ramp to a motor just enabled; the next pass replaces it.

*Arm.*

- `arm_agent.py:67-68`: a reset "doesn't itself cause motion", but the next tick sends
  the follower to where the leader is by then.
- A stop before the leader has connected has no effect, and an agent whose leader
  fails there leaves the torque on (`start_teleoperationV2.py:209-217`): hence the
  `ready` in `ExitReleases`.
- The `finally` clause is three calls in a row (`start_teleoperationV2.py:264-266`): when
  `teleop.disconnect()` raises or a second Ctrl-C falls into it, `robot.disconnect()` is
  never called, and the torque stays on; the same after an interrupt between `on_ready`
  (line 217) and the `try` (226), although the robot is connected. `start_robot.sh:195-197`
  says that the arm agent's `KeyboardInterrupt` path disables the torque: `~cut` in
  `ExitReleases`.
- `input_agent.py:200-201` relies on a "robot-side watchdog on the arm link's
  freshness"; `arm_agent.py:86-88` says that there is none, and the last line is repeated
  for ever. So it is when the GELLO's port dies.
- `ArmLink`'s timeout for opening (1.0 s) is longer than the deadman's (0.3 s): an
  arm agent that is down makes the base stop and go, against `input_agent.py:124-131`. The
  button is read before that wait (line 195) and published after it (222-229): a base whose
  button was released meanwhile is still told to move a second later, for as long as the
  deadman's timeout. `Halts` has this stall in its bound.

*Bridge, relay, scripts.*

- Background jobs of a non-interactive shell ignore SIGINT, and Python then installs
  no handler: the mast bridge is killed instead, and `robot/mast/link` stays
  "Connected", against `web_server.py:170-174`.
- `set_connected` notes a change (`mast_serial_bridge.py:358`) before it publishes it (360):
  an interrupt between them makes the call from the `finally` clause return early
  (355-357), and "Connected" stays published by a process that has ended. A second
  interrupt inside the `finally` clause does the same: `~cut` in `LinkHonest`.
- A huge number in a `position` or `velocity` request raises `OverflowError`, which
  `on_command` does not catch: no `REFUS_BRIDGE` is published.
- A web server that starts after the bridge has connected shows no mast until the
  next change.
- The status compares the robot's clock with the operator's (`web_server.py:168`, `175`).
- `net.js:40` drops what is sent while the socket is down, an E-stop included.
- A page that only watches still publishes a release when it goes (`web_server.py`'s
  `finally`), against "just watching the camera" being safe (`control.js:178-179`): it
  interrupts whoever drives for one pass.

*Cameras, tools.*

- A capture thread that ends by an exception leaves `alive` set: its index stays
  claimed and the camera never comes back (hence the exception in `Streams`).
- A recording is not finalised by a killed process.
- `calibrate_arm_limits.py` imports `JOINT_IDS` and calls `get_action`, which
  `gello_reader.py` no longer has.


## What is not modelled

The components without a module are listed in `PROJECT.json` with the reason: the
browser's GELLO relay repeats what `ArmAgent` has of the joystick's process, the video
and the views only display, the mapping of a gamepad is a numeric function without state, the
configuration is read once, the tools are not part of the running system.

In the modelled ones: acknowledgements, telemetry and wording; `pollSerial` character
by character; speed profiles of a movement (whether a pulse is due is free, which
covers them all); floats (a `NaN` velocity is listed as a hazard); a carriage that
slips while the brake is released by hand; the supervised build of the firmware;
the mix of the mecanum wheels (`WheelRamp` takes its targets as given) and the directions of the stick; the five
repetitions of each enable and disable frame, which are one; the parameter access,
the other control modes and the decoding of feedback in `damiao.py`, which nothing
here calls; the arm's heartbeat; recordings, the snapshot page and `stop()` of the camera
server; the relay of stop and reset by the web server, as both agents take them from
anywhere at any time; arguments, logs and checks of the start scripts.
