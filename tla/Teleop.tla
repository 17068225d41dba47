-------------------------------- MODULE Teleop --------------------------------
(***************************************************************************)
(* The operator's side of the base and the mast, from the hand to the      *)
(* robot: the control page of the browser (control.js over net.js), the    *)
(* web server that relays its frames to Zenoh (operator/web_server.py),    *)
(* and the joystick's process (operator/input_agent.py), which publishes   *)
(* on the same topics.  Neither the relay nor the robot looks at the time  *)
(* a command was given: the robot keeps the last value of each topic, and  *)
(* stops when it grows old (BaseAgent, MastFirmware).                      *)
(*                                                                         *)
(* Every topic carries a Boolean here: the deadman is held, the base is    *)
(* to move, the mast is to move.  Of a topic's last value and its age,     *)
(* the model keeps for how long the robot still takes it for TRUE.         *)
(***************************************************************************)
EXTENDS Integers, Sequences

CONSTANTS
    Hands,      \* what the operator may hold at the browser: deadman and key
    Conns,      \* WebSocket connections the server may have open at a time
    Delay,      \* time units a frame that drives may take from the browser to the robot
    Stall,      \* and the joystick's button from being read to the robot, in a
                \* pass that waits for ARM_WS_OPEN_TIMEOUT
    Timeout     \* DEADMAN_TIMEOUT_SEC, CMD_TIMEOUT_SEC, the mast's watchdog

ASSUME Units == Delay \in Nat /\ Stall \in Nat /\ Timeout \in Nat

CONSTANT Both   \* the operator may use the joystick and the browser at a time

CONSTANT NoConn
ASSUME NoConnection == NoConn \notin Conns

Topics == {"deadman", "base", "mast"}

ASSUME Holds == Hands \subseteq BOOLEAN \X {"none", "base", "mast"}

VARIABLES
    \* the browser
    deadman, key,           \* what the operator holds
    browserControl,         \* the opt-in
    mastMmSPrev,            \* the last tick sent a moving mast
    sock,                   \* the connection that is alive
    \* the web server
    served,                 \* connections whose control_ws runs
    wire, late,             \* each one's frames on their way, and the age of what
                            \* drives among them
    \* the input agent
    agent,                  \* "reading", "publishing" or "ended"
    button, stalled,        \* what this pass has read, and how long ago if it is
                            \* held
    joystick,               \* its deadman button is held
    \* the robot
    left,                   \* of each topic: 0 if its last value is FALSE or too
                            \* old, or the time until it is
    \* history
    released                \* time units since some deadman was held

browser == <<deadman, key, browserControl, mastMmSPrev>>
server  == <<sock, served, wire, late>>
input   == <<agent, button, stalled, joystick>>
vars    == <<browser, server, input, left, released>>

\* How old what is published on a topic may be when it arrives.
Latest(topic) == IF topic = "mast" \/ Delay > Stall THEN Delay ELSE Stall

ReleasedCap == Latest("base") + Timeout

Init ==
    /\ \E h \in Hands : ~h[1] /\ deadman = h[1] /\ key = h[2]
    /\ browserControl = FALSE /\ mastMmSPrev = FALSE
    /\ sock = NoConn /\ served = {} /\ wire = [c \in Conns |-> <<>>] /\ late = [c \in Conns |-> 0]
    /\ agent \in {"reading", "ended"} /\ button = FALSE /\ stalled = 0 /\ joystick = FALSE
    /\ left = [t \in Topics |-> 0]
    /\ released = ReleasedCap

-----------------------------------------------------------------------------
(* Topics.                                                                 *)

\* Faulty variants: a value lasts until the next one; a timeout that a frame on its
\* way outlasts.
Last_ForEver(v) == IF v THEN Timeout + 1 ELSE 0
Last_TooShort(v) == IF v THEN Timeout - 1 ELSE 0

Last(v) == IF v THEN Timeout ELSE 0

\* What is left of a value after one time unit.
Older(l) == IF l = 0 \/ l > Timeout THEN l ELSE l - 1

Publish(values) ==
    left' = [t \in Topics |-> IF t \in DOMAIN values THEN Last(values[t]) ELSE left[t]]

\* What everyone who leaves publishes: nobody holds, nothing moves.
Release(topics) == Publish([t \in topics |-> FALSE])

-----------------------------------------------------------------------------
(* The browser.                                                            *)

\* The operator presses or releases; a page that loses the focus releases all.
Operate ==
    /\ \E h \in Hands : deadman' = h[1] /\ key' = h[2]
    /\ released' = IF deadman' /\ browserControl THEN 0 ELSE released
    /\ UNCHANGED <<browserControl, mastMmSPrev, server, input, left>>

\* send() drops what it is given while the socket is not alive.  The model has the
\* frames of one tick at a time on their way: the next tick waits for them.
send(frames) ==
    IF sock = NoConn THEN UNCHANGED <<wire, late>>
    ELSE /\ wire[sock] = <<>>
         /\ wire' = [wire EXCEPT ![sock] = frames]
         /\ late' = [late EXCEPT ![sock] = 0]

Frame(t, v) == <<t, v>>

Drives(frames) == \E i \in 1 .. Len(frames) : frames[i][2]

\* The opt-in; opting out sends a last release.
toggle ==
    /\ Both \/ browserControl \/ ~joystick
    /\ browserControl' = ~browserControl
    /\ IF browserControl
       THEN /\ send(<<Frame("deadman", FALSE), Frame("base", FALSE), Frame("mast", FALSE)>>)
            /\ mastMmSPrev' = FALSE
            /\ UNCHANGED released
       ELSE /\ released' = IF deadman THEN 0 ELSE released
            /\ UNCHANGED <<wire, late, mastMmSPrev>>
    /\ UNCHANGED <<deadman, key, sock, served, input, left>>

activeDeadman == deadman /\ browserControl

\* Faulty variant: the mast is not gated by the deadman.
MastHeld_Ungated == browserControl /\ key = "mast"

MastHeld == activeDeadman /\ key = "mast"

\* The mast's frame is sent while it moves and once more when it is released.
tick ==
    /\ IF browserControl
       THEN send(<<Frame("deadman", activeDeadman), Frame("base", activeDeadman /\ key = "base")>>
                 \o IF MastHeld \/ mastMmSPrev THEN <<Frame("mast", MastHeld)>> ELSE <<>>)
       ELSE UNCHANGED <<wire, late>>
    /\ mastMmSPrev' = MastHeld
    /\ UNCHANGED <<deadman, key, browserControl, sock, served, input, left, released>>

\* net.js opens a new socket some time after the last one has closed.
connect ==
    /\ sock = NoConn
    /\ \E c \in Conns \ served : sock' = c /\ served' = served \cup {c}
    /\ UNCHANGED <<browser, wire, late, input, left, released>>

\* The socket closes, or the page; the last frames may be lost with it.
onclose ==
    /\ sock # NoConn
    /\ \E n \in 0 .. Len(wire[sock]) :
        /\ wire' = [wire EXCEPT ![sock] = SubSeq(@, 1, n)]
        /\ late' = [late EXCEPT ![sock] = IF Drives(wire'[sock]) THEN @ ELSE 0]
    /\ sock' = NoConn
    /\ UNCHANGED <<browser, served, input, left, released>>

-----------------------------------------------------------------------------
(* The web server.                                                         *)

_handle_control(c) ==
    /\ wire[c] # <<>>
    /\ LET frame == Head(wire[c]) IN Publish([t \in {frame[1]} |-> frame[2]])
    /\ wire' = [wire EXCEPT ![c] = Tail(@)]
    /\ late' = [late EXCEPT ![c] = IF Drives(wire'[c]) THEN @ ELSE 0]
    /\ UNCHANGED <<browser, sock, served, input, released>>

\* The finally clause of control_ws, when the server has noticed: possibly long
\* after the browser has a new connection.
Gone(c) ==
    /\ c \in served /\ c # sock /\ wire[c] = <<>>
    /\ served' = served \ {c}
    /\ Release(Topics)
    /\ UNCHANGED <<browser, sock, wire, late, input, released>>

\* The server ends, through lifespan's finally clause or without it, and is
\* started again.
Restart ==
    /\ served # {}
    /\ served' = {} /\ sock' = NoConn
    /\ wire' = [c \in Conns |-> <<>>] /\ late' = [c \in Conns |-> 0]
    /\ Release(Topics) \/ UNCHANGED left
    /\ UNCHANGED <<browser, input, released>>

-----------------------------------------------------------------------------
(* The input agent.                                                        *)

Press ==
    /\ agent # "ended"
    /\ Both \/ joystick \/ ~browserControl
    /\ joystick' = ~joystick
    /\ released' = IF joystick' THEN 0 ELSE released
    /\ UNCHANGED <<browser, server, agent, button, stalled, left>>

Button == joystick

\* A pass reads the button first.
Read ==
    /\ agent = "reading"
    /\ agent' = "publishing" /\ button' = Button /\ stalled' = 0
    /\ UNCHANGED <<browser, server, joystick, left, released>>

\* It publishes what it has read, with a stick that is out of its dead zone, after
\* ArmLink.send_raw_line, in which a robot without its arm agent holds it up.
Pass ==
    /\ agent = "publishing"
    /\ Publish([t \in {"deadman", "base"} |-> button])
    /\ agent' = "reading" /\ button' = FALSE /\ stalled' = 0
    /\ UNCHANGED <<browser, server, joystick, released>>

\* main()'s finally clause; a process that is killed leaves without.
End ==
    /\ agent # "ended"
    /\ agent' = "ended" /\ button' = FALSE /\ stalled' = 0 /\ joystick' = FALSE
    /\ Release({"deadman", "base"}) \/ UNCHANGED left
    /\ UNCHANGED <<browser, server, released>>

-----------------------------------------------------------------------------
(* Time.                                                                   *)

Held == activeDeadman \/ joystick

Time ==
    /\ \A c \in Conns : Drives(wire[c]) => late[c] < Delay
    /\ button => stalled < Stall
    /\ stalled' = IF button THEN stalled + 1 ELSE 0
    /\ late' = [c \in Conns |-> IF Drives(wire[c]) THEN late[c] + 1 ELSE 0]
    /\ left' = [t \in Topics |-> Older(left[t])]
    /\ released' = IF Held THEN 0 ELSE IF released < ReleasedCap THEN released + 1 ELSE ReleasedCap
    /\ UNCHANGED <<browser, sock, served, wire, agent, button, joystick>>

Next ==
    \/ Operate \/ toggle \/ tick \/ connect \/ onclose
    \/ \E c \in Conns : _handle_control(c) \/ Gone(c)
    \/ Restart
    \/ Press \/ Read \/ Pass \/ End
    \/ Time

Spec == Init /\ [][Next]_vars

\* The page's timer and the server's coroutines run.
FairSpec == Spec /\ WF_vars(tick) /\ \A c \in Conns : WF_vars(_handle_control(c))

-----------------------------------------------------------------------------
(* Properties.                                                             *)

TypeOK ==
    /\ deadman \in BOOLEAN /\ browserControl \in BOOLEAN /\ mastMmSPrev \in BOOLEAN
    /\ joystick \in BOOLEAN
    /\ key \in {"none", "base", "mast"}
    /\ sock \in served \cup {NoConn} /\ served \subseteq Conns
    /\ wire \in [Conns -> Seq(Topics \X BOOLEAN)] /\ late \in [Conns -> 0 .. Delay]
    /\ \A c \in Conns : wire[c] # <<>> => c \in served
    /\ agent \in {"reading", "publishing", "ended"}
    /\ button \in BOOLEAN /\ stalled \in 0 .. Stall
    /\ left \in [Topics -> 0 .. Timeout]
    /\ released \in 0 .. ReleasedCap

BaseMoves == left["deadman"] > 0 /\ left["base"] > 0
MastMoves == left["mast"] > 0

\* End to end: when nobody holds a deadman any more, neither the base nor the mast
\* is driven once what is on its way has arrived and the timeouts have passed,
\* whatever is lost, closed, stalled, killed or started again meanwhile.  A pass of
\* the joystick's loop that is held up keeps the base going for longer than a frame.
Halts ==
    /\ released >= Latest("base") + Timeout => ~BaseMoves
    /\ released >= Latest("mast") + Timeout => ~MastMoves

\* The base obeys an operator who keeps holding the deadman of a browser that is in
\* control, over a connection that lasts, however many were lost before it; the
\* joystick's process must have ended, since it would publish its own deadman.
Obeys ==
    <>[](activeDeadman /\ key = "base" /\ sock # NoConn /\ agent = "ended") => []<>BaseMoves

=============================================================================
