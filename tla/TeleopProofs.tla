----------------------------- MODULE TeleopProofs -----------------------------
(***************************************************************************)
(* The end-to-end promise of the operator's side, for every number of      *)
(* connections, every delay and every timeout: when nobody holds a deadman *)
(* any more, everything that still drives the robot grows old in time.     *)
(***************************************************************************)
EXTENDS Teleop, SequenceTheorems, TLAPS

Value == Topics \X BOOLEAN

-----------------------------------------------------------------------------
(* Frames and topics.                                                      *)

\* What a frame is made of.
LEMMA FrameParts ==
    ASSUME NEW t \in Topics, NEW v \in BOOLEAN
    PROVE  Frame(t, v) \in Value /\ Frame(t, v)[1] = t /\ Frame(t, v)[2] = v
BY DEF Frame, Value

\* The frames of a tick: one of them drives only if one of its values does.
LEMMA TickFrames ==
    ASSUME NEW a \in BOOLEAN, NEW b \in BOOLEAN, NEW m \in BOOLEAN, NEW mast \in BOOLEAN,
           NEW s, s = <<Frame("deadman", a), Frame("base", b)>>
                      \o IF mast THEN <<Frame("mast", m)>> ELSE <<>>
    PROVE  s \in Seq(Value) /\ \A i \in 1 .. Len(s) : s[i][2] => a \/ b \/ m
<1> DEFINE first == <<Frame("deadman", a), Frame("base", b)>>
           last == IF mast THEN <<Frame("mast", m)>> ELSE <<>>
<1>1. /\ Frame("deadman", a) \in Value /\ Frame("deadman", a)[2] = a
      /\ Frame("base", b) \in Value /\ Frame("base", b)[2] = b
      /\ Frame("mast", m) \in Value /\ Frame("mast", m)[2] = m
  BY FrameParts DEF Topics
<1>2. /\ first \in Seq(Value) /\ Len(first) = 2
      /\ \A i \in 1 .. Len(first) : first[i][2] => a \/ b \/ m
  BY <1>1
<1>3. /\ last \in Seq(Value)
      /\ \A i \in 1 .. Len(last) : last[i][2] => a \/ b \/ m
  BY <1>1
<1>4. s = first \o last
  OBVIOUS
<1> HIDE DEF first, last
<1>5. /\ s \in Seq(Value) /\ Len(s) = Len(first) + Len(last)
      /\ \A i \in 1 .. Len(first) + Len(last) :
            s[i] = IF i <= Len(first) THEN first[i] ELSE last[i - Len(first)]
  BY <1>2, <1>3, <1>4, ConcatProperties
<1>6. Len(first) \in Nat /\ Len(last) \in Nat
  BY <1>2, <1>3, LenProperties
<1>7. ASSUME NEW i \in 1 .. Len(s), s[i][2] PROVE a \/ b \/ m
  <2>1. CASE i <= Len(first)
    BY <1>2, <1>5, <1>6, <1>7, <2>1
  <2>2. CASE i > Len(first)
    <3>1. i - Len(first) \in 1 .. Len(last) /\ s[i] = last[i - Len(first)]
      BY <1>5, <1>6, <2>2
    <3> QED  BY <1>3, <1>7, <3>1
  <2> QED  BY <1>6, <2>1, <2>2
<1> QED  BY <1>5, <1>7

\* The frames of the release when the page opts out: none of them drives.
LEMMA ReleaseFrames ==
    ASSUME NEW v \in BOOLEAN, ~v,
           NEW s, s = <<Frame("deadman", v), Frame("base", v), Frame("mast", v)>>
    PROVE  s \in Seq(Value) /\ \A i \in 1 .. Len(s) : ~s[i][2]
<1> DEFINE first == Frame("deadman", v)
           second == Frame("base", v)
           third == Frame("mast", v)
<1>2. /\ first \in Value /\ ~first[2]
      /\ second \in Value /\ ~second[2]
      /\ third \in Value /\ ~third[2]
  BY FrameParts DEF Topics
<1>3. s = <<first, second, third>>
  OBVIOUS
<1> HIDE DEF first, second, third
<1>4. s \in Seq(Value) /\ Len(s) = 3 /\ s[1] = first /\ s[2] = second /\ s[3] = third
  BY <1>2, <1>3
<1>5. \A i \in 1 .. 3 : i = 1 \/ i = 2 \/ i = 3
  OBVIOUS
<1> QED  BY <1>2, <1>4, <1>5

\* A topic drives after a publication only if it did before or is told to.
LEMMA Published ==
    ASSUME left \in [Topics -> 0 .. Timeout],
           NEW S, NEW values \in [S -> BOOLEAN], Publish(values)
    PROVE  /\ left' \in [Topics -> 0 .. Timeout]
           /\ \A t \in Topics : \/ left'[t] = left[t] \/ left'[t] = 0
                                \/ t \in S /\ values[t] /\ left'[t] = Timeout
<1>1. \A t \in Topics : left'[t] = IF t \in S THEN Last(values[t]) ELSE left[t]
  BY DEF Publish
<1>2. \A v \in BOOLEAN : Last(v) = (IF v THEN Timeout ELSE 0) /\ Last(v) \in 0 .. Timeout
  BY Units DEF Last
<1>3. left' = [t \in Topics |-> left'[t]]
  BY DEF Publish
<1>4. \A t \in Topics : left'[t] \in 0 .. Timeout
  BY <1>1, <1>2
<1> QED  BY <1>1, <1>2, <1>3, <1>4

\* A release drives nothing.
LEMMA Released ==
    ASSUME left \in [Topics -> 0 .. Timeout], NEW S, Release(S)
    PROVE  /\ left' \in [Topics -> 0 .. Timeout]
           /\ \A t \in Topics : left'[t] = left[t] \/ left'[t] = 0
<1> DEFINE none == [t \in S |-> FALSE]
<1>1. none \in [S -> BOOLEAN] /\ \A t \in S : ~none[t]
  OBVIOUS
<1>2. Publish(none)
  BY DEF Release
<1> HIDE DEF none
<1> QED  BY <1>1, <1>2, Published

\* How late a topic may be.
LEMMA Lateness ==
    /\ \A t \in Topics : Latest(t) \in Nat /\ Delay <= Latest(t)
    /\ Latest("mast") = Delay /\ Stall <= Latest("base") /\ Stall <= Latest("deadman")
    /\ Latest("deadman") = Latest("base")
    /\ ReleasedCap \in Nat /\ ReleasedCap = Latest("base") + Timeout
BY Units DEF Latest, ReleasedCap, Topics

-----------------------------------------------------------------------------
(* Types.                                                                  *)

\* The invariant of the wires.
Wires ==
    /\ wire \in [Conns -> Seq(Value)]
    /\ late \in [Conns -> 0 .. Delay]
    /\ \A c \in Conns : wire[c] # <<>> => c \in served

\* Giving frames to the socket keeps this.
LEMMA SendWires ==
    ASSUME TypeOK, NEW s \in Seq(Value), send(s), UNCHANGED served
    PROVE  Wires'
<1> USE Units DEF TypeOK, Wires, Value
<1>1. CASE sock = NoConn
  BY <1>1 DEF send
<1>2. CASE sock # NoConn
  <2>1. sock \in Conns /\ sock \in served
    BY <1>2
  <2>2. wire' = [wire EXCEPT ![sock] = s] /\ late' = [late EXCEPT ![sock] = 0]
    BY <1>2 DEF send
  <2> QED  BY <2>1, <2>2
<1> QED  BY <1>1, <1>2

\* The browser keeps the types.
LEMMA BrowserType ==
    ASSUME TypeOK, Operate \/ toggle \/ tick \/ connect \/ onclose
    PROVE  TypeOK'
<1> USE Units, Holds, NoConnection, Lateness DEF TypeOK, browser, server, input
<1>1. CASE Operate
  <2>1. PICK h \in Hands : deadman' = h[1] /\ key' = h[2]
    BY <1>1 DEF Operate
  <2>2. deadman' \in BOOLEAN /\ key' \in {"none", "base", "mast"}
    BY <2>1
  <2>3. released' \in 0 .. ReleasedCap
    BY <1>1 DEF Operate
  <2>4. UNCHANGED <<browserControl, mastMmSPrev, server, input, left>>
    BY <1>1 DEF Operate
  <2> HIDE <1>1
  <2> QED  BY <2>2, <2>3, <2>4
<1>2. CASE toggle
  <2>1. browserControl' \in BOOLEAN /\ mastMmSPrev' \in BOOLEAN
    BY <1>2, Zenon DEF toggle
  <2>2. released' \in 0 .. ReleasedCap
    BY <1>2 DEF toggle
  <2>3. UNCHANGED <<deadman, key, sock, served, input, left>>
    BY <1>2 DEF toggle
  <2>4. Wires'
    <3>1. CASE browserControl
      <4>1. PICK s : s = <<Frame("deadman", FALSE), Frame("base", FALSE), Frame("mast", FALSE)>>
        OBVIOUS
      <4>2. FALSE \in BOOLEAN
        OBVIOUS
      <4>3. s \in Seq(Value)
        BY <4>1, <4>2, ReleaseFrames
      <4>4. send(s)
        BY <1>2, <3>1, <4>1 DEF toggle
      <4> QED  BY <2>3, <4>3, <4>4, SendWires
    <3>2. CASE ~browserControl
      BY <1>2, <3>2 DEF toggle, Wires, Value
    <3> QED  BY <3>1, <3>2
  <2> HIDE <1>2
  <2> QED  BY <2>1, <2>2, <2>3, <2>4 DEF Wires, Value
<1>3. CASE tick
  <2>1. mastMmSPrev' \in BOOLEAN
    BY <1>3, Zenon DEF tick, MastHeld, activeDeadman
  <2>2. UNCHANGED <<deadman, key, browserControl, sock, served, input, left, released>>
    BY <1>3 DEF tick
  <2>3. Wires'
    <3>1. CASE browserControl
      <4>1. /\ activeDeadman \in BOOLEAN /\ (activeDeadman /\ key = "base") \in BOOLEAN
            /\ MastHeld \in BOOLEAN /\ (MastHeld \/ mastMmSPrev) \in BOOLEAN
        BY Zenon DEF MastHeld, activeDeadman
      <4>2. PICK s : s = <<Frame("deadman", activeDeadman),
                           Frame("base", activeDeadman /\ key = "base")>>
                         \o IF MastHeld \/ mastMmSPrev THEN <<Frame("mast", MastHeld)>> ELSE <<>>
        OBVIOUS
      <4>3. s \in Seq(Value)
        BY <4>1, <4>2, TickFrames
      <4>4. send(s)
        BY <1>3, <3>1, <4>2 DEF tick
      <4> QED  BY <2>2, <4>3, <4>4, SendWires
    <3>2. CASE ~browserControl
      BY <1>3, <3>2 DEF tick, Wires, Value
    <3> QED  BY <3>1, <3>2
  <2> HIDE <1>3
  <2> QED  BY <2>1, <2>2, <2>3 DEF Wires, Value
<1>4. CASE connect
  BY <1>4 DEF connect
<1>5. CASE onclose
  <2>1. PICK n \in 0 .. Len(wire[sock]) :
           /\ wire' = [wire EXCEPT ![sock] = SubSeq(@, 1, n)]
           /\ late' = [late EXCEPT ![sock] = IF Drives(wire'[sock]) THEN @ ELSE 0]
    BY <1>5 DEF onclose
  <2>2. sock \in Conns /\ wire[sock] \in Seq(Value)
    BY <1>5 DEF onclose, Value
  <2>3. SubSeq(wire[sock], 1, n) \in Seq(Value)
    BY <2>2, SubSeqProperties
  <2>4. Len(SubSeq(wire[sock], 1, n)) = n
    BY <2>2, SubSeqProperties
  <2>5. wire[sock] = <<>> => n = 0
    BY <2>1
  <2>6. SubSeq(wire[sock], 1, n) # <<>> => wire[sock] # <<>>
    BY <2>2, <2>4, <2>5, EmptySeq
  <2>7. sock' = NoConn /\ UNCHANGED <<browser, served, input, left, released>>
    BY <1>5 DEF onclose
  <2>8. Wires'
    BY <2>1, <2>2, <2>3, <2>6, <2>7 DEF Wires, Value
  <2> HIDE <1>5
  <2> QED  BY <2>7, <2>8 DEF Wires, Value
<1> QED  BY <1>1, <1>2, <1>3, <1>4, <1>5

\* The web server keeps the types.
LEMMA RelayType ==
    ASSUME TypeOK, NEW c \in Conns, _handle_control(c) \/ Gone(c)
    PROVE  TypeOK'
<1> USE Units DEF TypeOK, browser, server, input
<1>1. CASE _handle_control(c)
  <2>1. wire[c] \in Seq(Value) /\ wire[c] # <<>>
    BY <1>1 DEF _handle_control, Value
  <2>2. /\ Head(wire[c]) \in Value /\ Tail(wire[c]) \in Seq(Value)
        /\ Len(Tail(wire[c])) = Len(wire[c]) - 1
    BY <2>1, HeadTailProperties
  <2>3. [t \in {Head(wire[c])[1]} |-> Head(wire[c])[2]] \in [{Head(wire[c])[1]} -> BOOLEAN]
    BY <2>2 DEF Value
  <2>4. left' \in [Topics -> 0 .. Timeout]
    BY <1>1, <2>3, Published DEF _handle_control
  <2>5. wire' \in [Conns -> Seq(Value)] /\ \A d \in Conns : wire'[d] # <<>> => wire[d] # <<>>
    BY <1>1, <2>1, <2>2 DEF _handle_control, Value
  <2>6. late' \in [Conns -> 0 .. Delay]
    BY <1>1 DEF _handle_control
  <2>7. UNCHANGED <<browser, sock, served, input, released>>
    BY <1>1 DEF _handle_control
  <2> HIDE <1>1
  <2> QED  BY <2>4, <2>5, <2>6, <2>7 DEF Value
<1>2. CASE Gone(c)
  <2>1. left' \in [Topics -> 0 .. Timeout]
    BY <1>2, Released DEF Gone
  <2>2. /\ c # sock /\ wire[c] = <<>> /\ served' = served \ {c}
        /\ UNCHANGED <<browser, sock, wire, late, input, released>>
    BY <1>2 DEF Gone
  <2> HIDE <1>2
  <2> QED  BY <2>1, <2>2
<1> QED  BY <1>1, <1>2

\* So do a new server, the input agent and time.
LEMMA RestType ==
    ASSUME TypeOK, Restart \/ Press \/ Read \/ Pass \/ End \/ Time
    PROVE  TypeOK'
<1> USE Units, Lateness DEF TypeOK, browser, server, input
<1>1. CASE Restart
  <2>1. left' \in [Topics -> 0 .. Timeout]
    BY <1>1, Released DEF Restart
  <2>2. /\ served' = {} /\ sock' = NoConn
        /\ wire' = [d \in Conns |-> <<>>] /\ late' = [d \in Conns |-> 0]
        /\ UNCHANGED <<browser, input, released>>
    BY <1>1 DEF Restart
  <2>3. wire' \in [Conns -> Seq(Topics \X BOOLEAN)] /\ \A d \in Conns : wire'[d] = <<>>
    BY <2>2
  <2> HIDE <1>1
  <2> QED  BY <2>1, <2>2, <2>3
<1>2. CASE Press
  <2>1. joystick' \in BOOLEAN
    BY <1>2, Zenon DEF Press
  <2>2. released' \in 0 .. ReleasedCap
    BY <1>2 DEF Press
  <2>3. UNCHANGED <<browser, server, agent, button, stalled, left>>
    BY <1>2 DEF Press
  <2> HIDE <1>2
  <2> QED  BY <2>1, <2>2, <2>3
<1>3. CASE Pass
  <2> DEFINE values == [t \in {"deadman", "base"} |-> button]
  <2>1. values \in [{"deadman", "base"} -> BOOLEAN]
    OBVIOUS
  <2>2. left' \in [Topics -> 0 .. Timeout]
    BY <1>3, <2>1, Published DEF Pass
  <2>3. button' \in BOOLEAN
    BY <1>3, Zenon DEF Pass
  <2>4. /\ agent' = "reading" /\ stalled' = 0
        /\ UNCHANGED <<browser, server, joystick, released>>
    BY <1>3 DEF Pass
  <2> HIDE <1>3
  <2> QED  BY <2>2, <2>3, <2>4
<1>4. CASE End
  <2>1. left' \in [Topics -> 0 .. Timeout]
    BY <1>4, Released DEF End
  <2>2. joystick' \in BOOLEAN /\ button' \in BOOLEAN
    BY <1>4, Zenon DEF End
  <2>3. agent' = "ended" /\ stalled' = 0 /\ UNCHANGED <<browser, server, released>>
    BY <1>4 DEF End
  <2> HIDE <1>4
  <2> QED  BY <2>1, <2>2, <2>3
<1>5. CASE Read
  <2>1. button' \in BOOLEAN
    BY <1>5, Zenon DEF Read, Button
  <2>2. /\ agent' = "publishing" /\ stalled' = 0
        /\ UNCHANGED <<browser, server, joystick, left, released>>
    BY <1>5 DEF Read
  <2> HIDE <1>5
  <2> QED  BY <2>1, <2>2
<1>6. CASE Time
  <2>1. left' \in [Topics -> 0 .. Timeout]
    BY <1>6 DEF Time, Older
  <2>2. late' \in [Conns -> 0 .. Delay]
    BY <1>6 DEF Time
  <2>3. released' \in 0 .. ReleasedCap
    BY <1>6 DEF Time
  <2>4. stalled' \in 0 .. Stall
    BY <1>6 DEF Time
  <2>5. UNCHANGED <<browser, sock, served, wire, agent, button, joystick>>
    BY <1>6 DEF Time
  <2> HIDE <1>6
  <2> QED  BY <2>1, <2>2, <2>3, <2>4, <2>5
<1> QED  BY <1>1, <1>2, <1>3, <1>4, <1>5, <1>6

\* Every variable keeps its type: no frame that drives is older than the delay, and frames are
\* under way only on connections the server has open.
THEOREM TypeCorrect == Spec => []TypeOK
<1>1. Init => TypeOK
  <2> SUFFICES ASSUME Init PROVE TypeOK  OBVIOUS
  <2>1. deadman \in BOOLEAN /\ key \in {"none", "base", "mast"}
    BY Holds DEF Init
  <2>2. browserControl \in BOOLEAN /\ mastMmSPrev \in BOOLEAN /\ joystick \in BOOLEAN
        /\ button \in BOOLEAN
    BY Zenon DEF Init
  <2>3. /\ wire \in [Conns -> Seq(Topics \X BOOLEAN)] /\ late \in [Conns -> 0 .. Delay]
        /\ \A c \in Conns : wire[c] = <<>>
    BY Units DEF Init
  <2>4. left \in [Topics -> 0 .. Timeout] /\ released \in 0 .. ReleasedCap
    BY Units, Lateness DEF Init
  <2>5. /\ sock = NoConn /\ served = {} /\ agent \in {"reading", "ended"}
        /\ stalled \in 0 .. Stall
    BY Units DEF Init
  <2> QED  BY <2>1, <2>2, <2>3, <2>4, <2>5 DEF TypeOK
<1>2. TypeOK /\ [Next]_vars => TypeOK'
  <2>1. ASSUME TypeOK, UNCHANGED vars PROVE TypeOK'
    BY <2>1 DEF TypeOK, vars, browser, server, input
  <2> QED  BY <2>1, BrowserType, RelayType, RestType DEF Next
<1> QED  BY <1>1, <1>2, PTL DEF Spec

-----------------------------------------------------------------------------
(* What still drives the robot.                                            *)

\* A frame that drives was sent when a deadman was held, and a topic that drives
\* runs out in time: the delay and the timeout bound both ages together.
Flight ==
    \A c \in Conns : \A i \in 1 .. Len(wire[c]) : wire[c][i][2] => released <= late[c]

Kept == \A t \in Topics : left[t] > 0 => released + left[t] <= Latest(t) + Timeout

\* A button that was read as held was so no longer ago than the pass is held up.
Sampled == button => released <= stalled

Recent == Held => released = 0

Ages == Recent /\ Flight /\ Kept /\ Sampled

\* Frames of which none drives, or that are sent while a deadman is held.
LEMMA SendFlight ==
    ASSUME TypeOK, Flight, NEW s \in Seq(Value), send(s), released' = released,
           \A i \in 1 .. Len(s) : s[i][2] => released = 0
    PROVE  Flight'
<1>1. CASE sock = NoConn
  BY <1>1 DEF send, Flight
<1>2. CASE sock # NoConn
  <2>1. sock \in Conns
    BY <1>2 DEF TypeOK
  <2>2. wire' = [wire EXCEPT ![sock] = s] /\ late' = [late EXCEPT ![sock] = 0]
    BY <1>2 DEF send
  <2>3. ASSUME NEW c \in Conns, NEW i \in 1 .. Len(wire'[c]), wire'[c][i][2]
        PROVE  released' <= late'[c]
    <3>1. CASE c = sock
      <4>1. wire'[c] = s /\ late'[c] = 0
        BY <2>1, <2>2, <3>1 DEF TypeOK
      <4>2. released = 0
        BY <2>3, <4>1
      <4> QED  BY <4>1, <4>2
    <3>2. CASE c # sock
      <4>1. wire'[c] = wire[c] /\ late'[c] = late[c]
        BY <2>2, <3>2 DEF TypeOK
      <4> QED  BY <2>3, <4>1 DEF Flight
    <3> QED  BY <3>1, <3>2
  <2> QED  BY <2>3 DEF Flight
<1> QED  BY <1>1, <1>2

\* Whoever takes frames off a wire keeps the age of what drives among the rest.
LEMMA ShorterFlight ==
    ASSUME TypeOK, Flight, released' = released,
           \A c \in Conns : \A i \in 1 .. Len(wire'[c]) : wire'[c][i][2] =>
                /\ late'[c] = late[c]
                /\ \E j \in 1 .. Len(wire[c]) : wire'[c][i] = wire[c][j]
    PROVE  Flight'
BY DEF Flight

\* Nothing is driven for longer by who holds or by what stays as it is.
LEMMA EarlierAges ==
    ASSUME TypeOK, Flight, Kept, Sampled, released' \in {0, released},
           UNCHANGED <<wire, late, left, button, stalled>>
    PROVE  Flight' /\ Kept' /\ Sampled'
<1>1. released \in Nat /\ stalled \in Nat /\ released' <= released
  BY Units, Lateness DEF TypeOK
<1>2. Flight' /\ Sampled'
  BY <1>1 DEF TypeOK, Flight, Sampled
<1>3. Kept'
  BY <1>1, Lateness, Units DEF TypeOK, Kept
<1> QED  BY <1>2, <1>3

\* The browser.
LEMMA BrowserAges ==
    ASSUME TypeOK, Ages, Operate \/ toggle \/ tick \/ connect \/ onclose
    PROVE  Ages'
<1> USE DEF Ages
<1>1. CASE Operate
  <2>1. /\ released' = (IF deadman' /\ browserControl THEN 0 ELSE released)
        /\ UNCHANGED <<browserControl, mastMmSPrev, server, input, left>>
    BY <1>1 DEF Operate
  <2>2. Flight' /\ Kept' /\ Sampled'
    BY <2>1, EarlierAges DEF server, input
  <2>3. Recent'
    BY <2>1 DEF Recent, Held, activeDeadman, input
  <2> QED  BY <2>2, <2>3
<1>2. CASE toggle
  <2>1. UNCHANGED <<deadman, key, sock, served, input, left>> /\ browserControl' = ~browserControl
    BY <1>2 DEF toggle
  <2>2. CASE browserControl
    <3>1. PICK s : s = <<Frame("deadman", FALSE), Frame("base", FALSE), Frame("mast", FALSE)>>
      OBVIOUS
    <3>2. FALSE \in BOOLEAN
      OBVIOUS
    <3>3. s \in Seq(Value) /\ \A i \in 1 .. Len(s) : ~s[i][2]
      BY <3>1, <3>2, ReleaseFrames
    <3>4. send(s) /\ UNCHANGED released
      BY <1>2, <2>2, <3>1 DEF toggle
    <3>5. Flight'
      BY <3>3, <3>4, SendFlight
    <3>6. Recent' /\ Kept' /\ Sampled'
      BY <2>1, <2>2, <3>4 DEF Recent, Kept, Sampled, Held, activeDeadman, input
    <3> QED  BY <3>5, <3>6
  <2>3. CASE ~browserControl
    <3>1. /\ released' = (IF deadman THEN 0 ELSE released)
          /\ UNCHANGED <<wire, late, mastMmSPrev>>
      BY <1>2, <2>3 DEF toggle
    <3>2. Flight' /\ Kept' /\ Sampled'
      BY <2>1, <3>1, EarlierAges DEF input
    <3>3. Recent'
      BY <2>1, <3>1 DEF Recent, Held, activeDeadman, input
    <3> QED  BY <3>2, <3>3
  <2> QED  BY <2>2, <2>3
<1>3. CASE tick
  <2>1. UNCHANGED <<deadman, key, browserControl, sock, served, input, left, released>>
    BY <1>3 DEF tick
  <2>2. Recent' /\ Kept' /\ Sampled'
    BY <2>1 DEF Recent, Kept, Sampled, Held, activeDeadman, input
  <2>3. Flight'
    <3>1. CASE browserControl
      <4>1. /\ activeDeadman \in BOOLEAN /\ (activeDeadman /\ key = "base") \in BOOLEAN
            /\ MastHeld \in BOOLEAN /\ (MastHeld \/ mastMmSPrev) \in BOOLEAN
        BY Zenon DEF MastHeld, activeDeadman, TypeOK
      <4>2. PICK s : s = <<Frame("deadman", activeDeadman),
                           Frame("base", activeDeadman /\ key = "base")>>
                         \o IF MastHeld \/ mastMmSPrev THEN <<Frame("mast", MastHeld)>> ELSE <<>>
        OBVIOUS
      <4>3. /\ s \in Seq(Value)
            /\ \A i \in 1 .. Len(s) :
                  s[i][2] => activeDeadman \/ (activeDeadman /\ key = "base") \/ MastHeld
        BY <4>1, <4>2, TickFrames
      <4>4. send(s)
        BY <1>3, <3>1, <4>2 DEF tick
      <4>5. activeDeadman \/ (activeDeadman /\ key = "base") \/ MastHeld => released = 0
        BY DEF Recent, Held, MastHeld
      <4> QED  BY <2>1, <4>3, <4>4, <4>5, SendFlight
    <3>2. CASE ~browserControl
      BY <1>3, <2>1, <3>2 DEF tick, Flight
    <3> QED  BY <3>1, <3>2
  <2> QED  BY <2>2, <2>3
<1>4. CASE connect
  BY <1>4 DEF connect, browser, input, Recent, Flight, Kept, Sampled, Held, activeDeadman
<1>5. CASE onclose
  <2>1. UNCHANGED <<browser, served, input, left, released>>
    BY <1>5 DEF onclose
  <2>2. Recent' /\ Kept' /\ Sampled'
    BY <2>1 DEF Recent, Kept, Sampled, Held, activeDeadman, browser, input
  <2>3. sock \in Conns /\ wire[sock] \in Seq(Value)
    BY <1>5 DEF onclose, TypeOK, Value
  <2>4. PICK n \in 0 .. Len(wire[sock]) :
           /\ wire' = [wire EXCEPT ![sock] = SubSeq(@, 1, n)]
           /\ late' = [late EXCEPT ![sock] = IF Drives(wire'[sock]) THEN @ ELSE 0]
    BY <1>5 DEF onclose
  <2>5. /\ Len(SubSeq(wire[sock], 1, n)) = n
        /\ \A i \in 1 .. n : SubSeq(wire[sock], 1, n)[i] = wire[sock][i]
    BY <2>3, SubSeqProperties
  <2>6. ASSUME NEW c \in Conns, NEW i \in 1 .. Len(wire'[c]), wire'[c][i][2]
        PROVE  /\ late'[c] = late[c]
               /\ \E j \in 1 .. Len(wire[c]) : wire'[c][i] = wire[c][j]
    <3>1. CASE c = sock
      <4>1. wire'[c] = SubSeq(wire[sock], 1, n) /\ i \in 1 .. n
        BY <2>3, <2>4, <2>5, <2>6, <3>1 DEF TypeOK
      <4>2. late'[c] = late[c]
        BY <2>3, <2>4, <2>6, <3>1 DEF TypeOK, Drives
      <4>3. i \in 1 .. Len(wire[c]) /\ wire'[c][i] = wire[c][i]
        BY <2>3, <2>5, <3>1, <4>1
      <4> QED  BY <4>2, <4>3
    <3>2. CASE c # sock
      <4>1. wire'[c] = wire[c] /\ late'[c] = late[c]
        BY <2>4, <3>2 DEF TypeOK
      <4> QED  BY <2>6, <4>1
    <3> QED  BY <3>1, <3>2
  <2>7. Flight'
    BY <2>1, <2>6, ShorterFlight
  <2> QED  BY <2>2, <2>7
<1> QED  BY <1>1, <1>2, <1>3, <1>4, <1>5

\* A release makes nothing last longer.
LEMMA ReleaseKept ==
    ASSUME TypeOK, Kept, NEW S, Release(S), released' = released
    PROVE  Kept'
<1>1. \A t \in Topics : left'[t] = left[t] \/ left'[t] = 0
  BY Released DEF TypeOK
<1> QED  BY <1>1 DEF Kept

\* The web server delivers a frame before it is older than the delay.
LEMMA RelayAges ==
    ASSUME TypeOK, Ages, NEW c \in Conns, _handle_control(c) \/ Gone(c)
    PROVE  Ages'
<1> USE DEF Ages
<1>1. CASE _handle_control(c)
  <2>1. UNCHANGED <<browser, sock, served, input, released>>
    BY <1>1 DEF _handle_control
  <2>2. Recent' /\ Sampled'
    BY <2>1 DEF Recent, Sampled, Held, activeDeadman, browser, input
  <2>3. wire[c] \in Seq(Value) /\ wire[c] # <<>>
    BY <1>1 DEF _handle_control, TypeOK, Value
  <2>4. Len(wire[c]) \in Nat \ {0}
    BY <2>3, EmptySeq
  <2>5. /\ Head(wire[c]) \in Value /\ Head(wire[c]) = wire[c][1]
        /\ Len(Tail(wire[c])) = Len(wire[c]) - 1
        /\ \A i \in 1 .. Len(Tail(wire[c])) : Tail(wire[c])[i] = wire[c][i + 1]
    BY <2>3, HeadTailProperties
  <2>6. Kept'
    <3> DEFINE head == Head(wire[c])
               values == [t \in {head[1]} |-> head[2]]
    <3>1. values \in [{head[1]} -> BOOLEAN] /\ values[head[1]] = head[2]
      BY <2>5 DEF Value
    <3>2. Publish(values)
      BY <1>1 DEF _handle_control
    <3>3. head[2] => released <= late[c]
      BY <2>4, <2>5 DEF Flight
    <3> HIDE DEF values
    <3>4. ASSUME NEW t \in Topics, left'[t] > 0
          PROVE  released' + left'[t] <= Latest(t) + Timeout
      <4>1. \/ left'[t] = left[t] \/ left'[t] = 0
            \/ t = head[1] /\ values[t] /\ left'[t] = Timeout
        BY <3>1, <3>2, Published DEF TypeOK
      <4>2. CASE left'[t] = left[t]
        BY <2>1, <3>4, <4>2 DEF Kept
      <4>3. CASE t = head[1] /\ values[t] /\ left'[t] = Timeout
        <5>1. released <= late[c]
          BY <3>1, <3>3, <4>3
        <5>2. late[c] \in 0 .. Delay /\ released \in Nat /\ released' = released
          BY <2>1, Lateness DEF TypeOK
        <5> QED  BY <4>3, <5>1, <5>2, Units, Lateness
      <4> QED  BY <3>4, <4>1, <4>2, <4>3
    <3> QED  BY <3>4 DEF Kept
  <2>7. /\ wire' = [wire EXCEPT ![c] = Tail(@)]
        /\ late' = [late EXCEPT ![c] = IF Drives(wire'[c]) THEN @ ELSE 0]
    BY <1>1 DEF _handle_control
  <2>8. ASSUME NEW d \in Conns, NEW i \in 1 .. Len(wire'[d]), wire'[d][i][2]
        PROVE  /\ late'[d] = late[d]
               /\ \E j \in 1 .. Len(wire[d]) : wire'[d][i] = wire[d][j]
    <3>1. CASE d = c
      <4>1. wire'[d] = Tail(wire[c])
        BY <2>7, <3>1 DEF TypeOK
      <4>2. i \in 1 .. Len(wire[c]) - 1 /\ wire'[d][i] = wire[c][i + 1]
        BY <2>5, <2>8, <4>1
      <4>3. late'[d] = late[d]
        BY <2>7, <2>8, <3>1 DEF TypeOK, Drives
      <4>4. i + 1 \in 1 .. Len(wire[c])
        BY <2>4, <4>2
      <4> QED  BY <3>1, <4>2, <4>3, <4>4
    <3>2. CASE d # c
      <4>1. wire'[d] = wire[d] /\ late'[d] = late[d]
        BY <2>7, <3>2 DEF TypeOK
      <4> QED  BY <2>8, <4>1
    <3> QED  BY <3>1, <3>2
  <2>9. Flight'
    BY <2>1, <2>8, ShorterFlight
  <2> QED  BY <2>2, <2>6, <2>9
<1>2. CASE Gone(c)
  <2>1. UNCHANGED <<browser, sock, wire, late, input, released>> /\ Release(Topics)
    BY <1>2 DEF Gone
  <2>2. Kept'
    BY <2>1, ReleaseKept
  <2>3. Recent' /\ Flight' /\ Sampled'
    BY <2>1 DEF Recent, Flight, Sampled, Held, activeDeadman, browser, input
  <2> QED  BY <2>2, <2>3
<1> QED  BY <1>1, <1>2

\* A new server, the input agent, and time, which makes everything older alike.
LEMMA RestAges ==
    ASSUME TypeOK, Ages, Restart \/ Press \/ Read \/ Pass \/ End \/ Time
    PROVE  Ages'
<1> USE DEF Ages
<1>1. CASE Restart
  <2>1. UNCHANGED <<browser, input, released>> /\ wire' = [c \in Conns |-> <<>>]
    BY <1>1 DEF Restart
  <2>2. Kept'
    <3>1. CASE Release(Topics)
      BY <2>1, <3>1, ReleaseKept
    <3>2. CASE UNCHANGED left
      BY <2>1, <3>2 DEF Kept
    <3> QED  BY <1>1, <3>1, <3>2 DEF Restart
  <2>3. Recent' /\ Flight' /\ Sampled'
    BY <2>1 DEF Recent, Flight, Sampled, Held, activeDeadman, browser, input
  <2> QED  BY <2>2, <2>3
<1>2. CASE Press
  <2>1. /\ joystick' = ~joystick /\ released' = (IF joystick' THEN 0 ELSE released)
        /\ UNCHANGED <<browser, server, agent, button, stalled, left>>
    BY <1>2 DEF Press
  <2>2. Flight' /\ Kept' /\ Sampled'
    BY <2>1, EarlierAges DEF server
  <2>3. Recent'
    BY <2>1 DEF Recent, Held, activeDeadman, browser
  <2> QED  BY <2>2, <2>3
<1>3. CASE Pass
  <2> DEFINE values == [t \in {"deadman", "base"} |-> button]
  <2>1. /\ values \in [{"deadman", "base"} -> BOOLEAN]
        /\ \A t \in {"deadman", "base"} : values[t] <=> button
    BY DEF TypeOK
  <2>2. Publish(values) /\ UNCHANGED <<browser, server, joystick, released>>
    BY <1>3 DEF Pass
  <2>3. ~button'
    BY <1>3, Zenon DEF Pass
  <2> HIDE DEF values
  <2>4. ASSUME NEW t \in Topics, left'[t] > 0
        PROVE  released' + left'[t] <= Latest(t) + Timeout
    <3>1. \/ left'[t] = left[t] \/ left'[t] = 0
          \/ t \in {"deadman", "base"} /\ button /\ left'[t] = Timeout
      <4>1. left \in [Topics -> 0 .. Timeout]
        BY DEF TypeOK
      <4>2. \/ left'[t] = left[t] \/ left'[t] = 0
            \/ t \in {"deadman", "base"} /\ values[t] /\ left'[t] = Timeout
        BY <2>1, <2>2, <4>1, Published
      <4> QED  BY <2>1, <4>2, Zenon
    <3>2. CASE t \in {"deadman", "base"} /\ button /\ left'[t] = Timeout
      <4>1. released <= stalled /\ stalled \in 0 .. Stall /\ released \in Nat
        BY <3>2, Lateness DEF Sampled, TypeOK
      <4>2. Stall <= Latest(t) /\ Latest(t) \in Nat
        BY <3>2, Lateness
      <4> QED  BY <2>2, <3>2, <4>1, <4>2, Units
    <3> QED  BY <2>2, <2>4, <3>1, <3>2 DEF Kept
  <2>5. Kept'
    BY <2>4 DEF Kept
  <2>6. Recent' /\ Flight' /\ Sampled'
    BY <2>2, <2>3 DEF Recent, Flight, Sampled, Held, activeDeadman, browser, server
  <2> QED  BY <2>5, <2>6
<1>4. CASE End
  <2>1. ~joystick' /\ ~button' /\ UNCHANGED <<browser, server, released>>
    BY <1>4, Zenon DEF End
  <2>2. Kept'
    <3>1. CASE Release({"deadman", "base"})
      BY <2>1, <3>1, ReleaseKept
    <3>2. CASE UNCHANGED left
      BY <2>1, <3>2 DEF Kept
    <3> QED  BY <1>4, <3>1, <3>2 DEF End
  <2>3. Recent' /\ Flight' /\ Sampled'
    BY <2>1 DEF Recent, Flight, Sampled, Held, activeDeadman, browser, server
  <2> QED  BY <2>2, <2>3
<1>5. CASE Read
  <2>1. (button' <=> joystick) /\ stalled' = 0
    BY <1>5 DEF Read, Button, TypeOK
  <2>2. UNCHANGED <<browser, server, joystick, left, released>>
    BY <1>5 DEF Read
  <2>3. joystick => released = 0
    BY DEF Recent, Held
  <2> HIDE <1>5
  <2>4. Sampled'
    BY <2>1, <2>2, <2>3 DEF Sampled
  <2>5. Recent' /\ Flight' /\ Kept'
    BY <2>2 DEF Recent, Flight, Kept, Held, activeDeadman, browser, server
  <2> QED  BY <2>4, <2>5
<1>6. CASE Time
  <2>1. /\ late' = [c \in Conns |-> IF Drives(wire[c]) THEN late[c] + 1 ELSE 0]
        /\ stalled' = IF button THEN stalled + 1 ELSE 0
        /\ \A t \in Topics : left'[t] = Older(left[t])
        /\ UNCHANGED <<browser, sock, served, wire, agent, button, joystick>>
    BY <1>6 DEF Time
  <2>2. released' = IF Held THEN 0 ELSE IF released < ReleasedCap THEN released + 1 ELSE ReleasedCap
    BY <1>6 DEF Time
  <2>3. released' \in Nat /\ released' <= released + 1 /\ released \in Nat
    BY <2>2, Lateness DEF TypeOK
  <2>4. Recent'
    BY <2>1, <2>2 DEF Recent, Held, activeDeadman, browser
  <2>5. Flight'
    <3>1. ASSUME NEW c \in Conns, NEW i \in 1 .. Len(wire[c]), wire[c][i][2]
          PROVE  released' <= late'[c]
      <4>1. released <= late[c]
        BY <3>1 DEF Flight
      <4>2. Drives(wire[c])
        BY <3>1 DEF Drives
      <4>3. late'[c] = late[c] + 1 /\ late[c] \in Nat
        BY <2>1, <4>2, Units DEF TypeOK
      <4> QED  BY <2>3, <4>1, <4>3
    <3> QED  BY <2>1, <3>1 DEF Flight
  <2>6. Kept'
    <3>1. ASSUME NEW t \in Topics, left'[t] > 0
          PROVE  released' + left'[t] <= Latest(t) + Timeout
      <4>1. left[t] \in 0 .. Timeout
        BY DEF TypeOK
      <4>2. left[t] > 0 /\ left'[t] = left[t] - 1
        BY <2>1, <3>1, <4>1, Units DEF Older
      <4> QED  BY <2>3, <4>1, <4>2, Units, Lateness DEF Kept
    <3> QED  BY <3>1 DEF Kept
  <2>7. Sampled'
    <3>1. button => released' <= stalled'
      BY <2>1, <2>3, Units DEF Sampled, TypeOK
    <3> QED  BY <2>1, <3>1 DEF Sampled
  <2> QED  BY <2>4, <2>5, <2>6, <2>7
<1> QED  BY <1>1, <1>2, <1>3, <1>4, <1>5, <1>6

\* When nobody holds a deadman any more, neither the base nor the mast is driven once
\* the longest delay or stall and the timeout have passed, through lost and overlapping
\* connections, a relay that is started again and a joystick's process that ends.
THEOREM HandsOffHalts == Spec => []Halts
<1>1. Init => Ages
  <2> SUFFICES ASSUME Init PROVE Ages  OBVIOUS
  <2>1. ~deadman
    BY DEF Init
  <2>2. Recent /\ Flight /\ Kept /\ Sampled
    BY <2>1 DEF Init, Recent, Flight, Kept, Sampled, Held, activeDeadman
  <2> QED  BY <2>2 DEF Ages
<1>2. TypeOK /\ Ages /\ [Next]_vars => Ages'
  <2>1. ASSUME Ages, UNCHANGED vars PROVE Ages'
    BY <2>1 DEF vars, browser, server, input, Ages, Recent, Flight, Kept, Sampled, Held, activeDeadman
  <2> QED  BY <2>1, BrowserAges, RelayAges, RestAges DEF Next
<1>3. TypeOK /\ Ages => Halts
  <2> SUFFICES ASSUME TypeOK, Ages PROVE Halts  OBVIOUS
  <2>1. ASSUME NEW t \in Topics, released >= Latest(t) + Timeout PROVE ~(left[t] > 0)
    BY <2>1, Lateness, Units DEF TypeOK, Ages, Kept
  <2>2. "base" \in Topics /\ "mast" \in Topics
    BY DEF Topics
  <2> QED  BY <2>1, <2>2 DEF Halts, BaseMoves, MastMoves
<1> QED  BY <1>1, <1>2, <1>3, TypeCorrect, PTL DEF Spec

=============================================================================
