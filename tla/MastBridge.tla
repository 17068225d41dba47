------------------------------ MODULE MastBridge ------------------------------
(***************************************************************************)
(* The serial bridge of the mast, robot/mast_serial_bridge.py, between     *)
(* Zenoh and the Arduino of MastFirmware.                                  *)
(*                                                                         *)
(* The main thread opens the port, reads it and closes it when the port    *)
(* fails or stays silent.  A thread of Zenoh runs on_command, one command  *)
(* at a time, and holds ser_lock while it writes.  A write has no timeout. *)
(*                                                                         *)
(* At the other end, operator/web_server.py keeps the last link state and  *)
(* the last position it has received, and shows them to its pages.  Link   *)
(* states are sent reliably and received at once, positions may be lost.   *)
(*                                                                         *)
(* A tick is the read timeout, and as long as a position counts as recent  *)
(* (STALE_AFTER).  Acknowledgements, which pass unchanged, are left out.   *)
(***************************************************************************)
EXTENDS Naturals

CONSTANTS
    Requests,   \* what arrives on robot/mast/cmd: an action and how well formed
                \* its argument is
    BootTime,   \* ticks until an Arduino that has been reset sends telemetry
    Silence     \* --silence-timeout, in ticks

ASSUME Times == BootTime \in Nat /\ Silence \in Nat /\ BootTime <= Silence

VARIABLES
    \* the main thread
    pc, ending,         \* run(); whether it is in its finally clause
    silent,             \* ticks since last_rx
    ser, connected,     \* self.ser is a handle; self.connected
    \* the callback
    held,               \* on_command holds ser_lock and writes
    \* the environment
    port,               \* the handle: "closed", "open", or "dead" when unplugged
    arduino, boot,      \* its state, and what is left of its start
    link, event,        \* what was published last on robot/mast/link, .../event
    \* the web server
    _mast_linked,       \* the last link state, or FALSE
    _mast_state,        \* the last position: "none", "fresh" or "stale"
    \* history
    heard,              \* this web server has received a link state
    cut                 \* an interrupt came where nothing makes up for it

main    == <<pc, ending, silent, ser, connected, cut>>
device  == <<port, arduino, boot>>
topics  == <<link, event>>
server  == <<_mast_linked, _mast_state, heard>>
vars    == <<main, held, device, topics, server>>

-----------------------------------------------------------------------------
(* translate_command: the keyword of the line, or why there is none.       *)

Words == [home |-> "H", stop |-> "STOP", fdc |-> "FDC", position |-> "POS", velocity |-> "VEL",
          jog |-> "JOG", brake |-> "BRAKE", raw |-> "any", line |-> "any"]

\* float() of an integer beyond the floats raises no ValueError, and on_command
\* catches no other exception.
translate_command(r) ==
    IF \/ r.action \notin DOMAIN Words
       \/ r.action \in {"position", "velocity", "jog", "brake", "raw"} /\ r.arg = "missing"
       \/ r.action \in {"position", "velocity", "jog"} /\ r.arg = "malformed"
    THEN "ValueError"
    ELSE IF r.action \in {"position", "velocity"} /\ r.arg = "huge" THEN "OverflowError"
    ELSE Words[r.action]

-----------------------------------------------------------------------------
(* on_command and write_command.                                           *)

\* A refusal is published; a command without a port is too.
on_command(r) ==
    /\ ~held /\ pc \notin {"exited", "killed"}
    /\ LET line == translate_command(r) IN
        /\ held' = (line \notin {"ValueError", "OverflowError"} /\ ser)
        /\ event' = CASE line = "ValueError" -> "REFUS_BRIDGE"
                      [] line \in {Words[a] : a \in DOMAIN Words} /\ ~ser -> "SERIE_DECONNECTEE"
                      [] OTHER -> event
    /\ UNCHANGED <<main, device, link, server>>

\* write() and flush() return, or raise, which is only printed.
Written ==
    /\ held
    /\ held' = FALSE
    /\ UNCHANGED <<main, device, topics, server>>

-----------------------------------------------------------------------------
(* The web server.                                                         *)

on_mast_link(message) ==
    /\ _mast_linked' = (message = "Connected")
    /\ heard' = TRUE

on_mast_state(delivered) == _mast_state' = IF delivered THEN "fresh" ELSE _mast_state

\* What status_ws takes for recent ages.
Aged == IF _mast_state = "fresh" THEN "stale" ELSE _mast_state

\* The web server is started again, and subscribes to what is published from then
\* on.
lifespan ==
    /\ _mast_linked' = FALSE /\ _mast_state' = "none" /\ heard' = FALSE
    /\ UNCHANGED <<main, held, device, topics>>

-----------------------------------------------------------------------------
(* run().                                                                  *)

\* Where the main thread goes from set_connected.
Onward(state) == IF state THEN "read" ELSE IF ending THEN "exited" ELSE "sleep"

\* Published only if it is a change, after self.connected has been set.
set_connected(state) ==
    /\ connected' = state
    /\ pc' = IF connected = state THEN Onward(state) ELSE "publish"

\* Faulty variant: the age of the last line is kept from before.
Fresh_Kept == silent

Fresh == 0

\* pub_link.put, and what follows a port that has been opened.
Publish ==
    /\ pc = "publish"
    /\ link' = IF connected THEN "Connected" ELSE "Disconnected"
    /\ on_mast_link(link')
    /\ silent' = IF connected THEN Fresh ELSE silent
    /\ pc' = Onward(connected)
    /\ UNCHANGED <<ending, cut, ser, connected, held, device, event, _mast_state>>

Init ==
    /\ pc = "killed" /\ ending = FALSE /\ silent = 0 /\ ser = FALSE /\ connected = FALSE
    /\ held = FALSE /\ port = "closed"
    /\ arduino \in {"unplugged", "up"} /\ boot = 0
    /\ link \in {"Connected", "Disconnected"} /\ event = "none"
    /\ _mast_linked = FALSE /\ _mast_state = "none" /\ heard = FALSE
    /\ cut = FALSE

\* The process starts.
Start ==
    /\ pc \in {"exited", "killed"}
    /\ pc' = "begin" /\ ending' = FALSE /\ cut' = FALSE /\ connected' = FALSE
    /\ UNCHANGED <<silent, ser, held, device, topics, server>>

\* Before its try clause, it publishes that it is not connected.
Begin ==
    /\ pc = "begin"
    /\ link' = "Disconnected"
    /\ on_mast_link(link')
    /\ pc' = "open"
    /\ UNCHANGED <<ending, cut, silent, ser, connected, held, device, event, _mast_state>>

\* stop_running() of start_robot.sh, on a process that SIGINT has not ended, or that
\* crashes: nobody says so.
Kill ==
    /\ pc \notin {"exited", "killed"}
    /\ pc' = "killed"
    /\ ser' = FALSE /\ held' = FALSE /\ port' = "closed"
    /\ UNCHANGED <<ending, cut, silent, connected, arduino, boot, topics, server>>

\* Opening the port resets the Arduino.
Open ==
    /\ pc = "open"
    /\ IF arduino = "unplugged"
       THEN pc' = "sleep" /\ UNCHANGED device
       ELSE pc' = "opened" /\ port' = "open" /\ arduino' = "booting" /\ boot' = BootTime
    /\ UNCHANGED <<ending, cut, silent, ser, connected, held, topics, server>>

\* Faulty variant: the main thread takes no lock.
Free_Always == TRUE

Free == ~held

Opened ==
    /\ pc = "opened" /\ Free
    /\ ser' = TRUE
    /\ set_connected(TRUE)
    /\ UNCHANGED <<ending, cut, silent, held, device, topics, server>>

\* Faulty variant: one tick too soon.
TooLong_Early(ticks) == ticks >= Silence

TooLong(ticks) == ticks > Silence

\* readline() with a line, at its timeout, and on a handle that is dead.
ReadLine(delivered) ==
    /\ pc = "read" /\ port = "open" /\ arduino = "up"
    /\ silent' = 0
    /\ on_mast_state(delivered)
    /\ UNCHANGED <<pc, ending, cut, ser, connected, held, device, topics, _mast_linked, heard>>

ReadNothing ==
    /\ pc = "read" /\ port = "open" /\ arduino # "up"
    /\ silent' = silent + 1
    /\ pc' = IF TooLong(silent + 1) THEN "lost" ELSE "read"
    /\ boot' = IF arduino = "booting" /\ boot > 0 THEN boot - 1 ELSE boot
    /\ arduino' = IF arduino = "booting" /\ boot <= 1 THEN "up" ELSE arduino
    /\ _mast_state' = Aged
    /\ UNCHANGED <<ending, cut, ser, connected, held, port, topics, _mast_linked, heard>>

ReadError ==
    /\ pc = "read" /\ port = "dead"
    /\ pc' = "lost"
    /\ UNCHANGED <<ending, cut, silent, ser, connected, held, device, topics, server>>

\* close_serial: the handle is taken away under the lock, closed outside it, and
\* the link is published.
Lost ==
    /\ pc = "lost" /\ Free
    /\ ser' = FALSE
    /\ pc' = IF ser THEN "closing" ELSE "tell"
    /\ UNCHANGED <<ending, cut, silent, connected, held, device, topics, server>>

Closing ==
    /\ pc = "closing"
    /\ port' = "closed"
    /\ pc' = "tell"
    /\ UNCHANGED <<ending, cut, silent, ser, connected, held, arduino, boot, topics, server>>

\* Faulty variant: only what was open to the end is reported.
Tell_Unended ==
    /\ pc = "tell"
    /\ IF ending THEN pc' = "exited" /\ UNCHANGED connected ELSE set_connected(FALSE)
    /\ UNCHANGED <<ending, cut, silent, ser, held, device, topics, server>>

Tell ==
    /\ pc = "tell"
    /\ set_connected(FALSE)
    /\ UNCHANGED <<ending, cut, silent, ser, held, device, topics, server>>

Sleep ==
    /\ pc = "sleep"
    /\ pc' = "open"
    /\ _mast_state' = Aged
    /\ UNCHANGED <<ending, cut, silent, ser, connected, held, device, topics, _mast_linked, heard>>

\* KeyboardInterrupt, or an exception that run() does not catch, at any point of its
\* try clause: the finally clause calls close_serial again.  A change that
\* set_connected has noted, and not yet published, it takes for published.
Interrupt ==
    /\ ~ending /\ pc \notin {"begin", "exited", "killed"}
    /\ pc' = "lost" /\ ending' = TRUE
    /\ cut' = (pc = "publish" /\ ~connected)
    /\ UNCHANGED <<silent, ser, connected, held, device, topics, server>>

\* One before the try clause or in the finally clause ends the process as it is.
Abort ==
    /\ pc = "begin" \/ ending
    /\ pc \notin {"exited", "killed"}
    /\ pc' = "exited" /\ cut' = TRUE
    /\ ser' = FALSE /\ held' = FALSE /\ port' = "closed"
    /\ UNCHANGED <<ending, silent, connected, arduino, boot, topics, server>>

-----------------------------------------------------------------------------
(* The Arduino and its cable.                                              *)

Unplug ==
    /\ arduino # "unplugged"
    /\ arduino' = "unplugged"
    /\ port' = IF port = "open" THEN "dead" ELSE port
    /\ UNCHANGED <<main, held, boot, topics, server>>

Plug ==
    /\ arduino = "unplugged"
    /\ arduino' = "up"
    /\ UNCHANGED <<main, held, port, boot, topics, server>>

\* It stops sending, until it is reset.
Hang ==
    /\ arduino = "up"
    /\ arduino' = "mute"
    /\ UNCHANGED <<main, held, port, boot, topics, server>>

Main ==
    \/ Begin \/ Open \/ Opened \/ Publish
    \/ ReadNothing \/ ReadError \/ \E delivered \in BOOLEAN : ReadLine(delivered)
    \/ Lost \/ Closing \/ Tell \/ Sleep

Next ==
    \/ \E r \in Requests : on_command(r)
    \/ Written \/ Start \/ Main \/ Interrupt \/ Abort \/ Kill \/ lifespan
    \/ Unplug \/ Plug \/ Hang

Spec == Init /\ [][Next]_vars

\* The main thread runs, and gets a lock that is free again and again; not every
\* position is lost.  Nothing is assumed of a write.
FairSpec ==
    Spec /\ WF_vars(Main) /\ SF_vars(Lost) /\ SF_vars(Opened) /\ SF_vars(ReadLine(TRUE))

-----------------------------------------------------------------------------
(* Properties.                                                             *)

Running == pc \notin {"exited", "killed"}

TypeOK ==
    /\ pc \in {"begin", "open", "opened", "publish", "read", "lost", "closing", "tell", "sleep",
              "exited", "killed"}
    /\ ending \in BOOLEAN /\ cut \in BOOLEAN
    /\ ser \in BOOLEAN /\ connected \in BOOLEAN /\ held \in BOOLEAN
    /\ _mast_linked \in BOOLEAN /\ heard \in BOOLEAN
    /\ silent \in 0 .. Silence + 1 /\ boot \in 0 .. BootTime
    /\ port \in {"closed", "open", "dead"}
    /\ arduino \in {"unplugged", "booting", "up", "mute"}
    /\ link \in {"Connected", "Disconnected"}
    /\ event \in {"none", "REFUS_BRIDGE", "SERIE_DECONNECTEE"}
    /\ _mast_state \in {"none", "fresh", "stale"}

\* ser_lock "protège l'accès concurrent au handle série" (lines 316-317): a command
\* is never written to a handle that the main thread has closed, and the handle that
\* is being read is never taken away.
HandleSafe == (held => port # "closed") /\ (pc = "read" => ser /\ port # "closed")

\* robot/mast/link is "publié uniquement au changement d'état" (lines 20-22) and yet
\* tells the truth: no port is read while it says Disconnected, and neither waiting for the
\* port nor ending leaves it at Connected, wherever an interrupt ended the try clause.
\* The exceptions: an interrupt between the assignment of set_connected and its
\* publication (lines 358-360), which makes the second call return early, another one in
\* the finally clause, and one before the try clause, which leaves what a killed process
\* has published.
LinkHonest ==
    /\ pc = "read" => link = "Connected"
    /\ pc \in {"open", "sleep"} => link = "Disconnected"
    /\ pc = "exited" /\ ~cut => link = "Disconnected"

\* As long as writes return and the process is not ended, the bridge finds an
\* Arduino that is plugged in and keeps on running, however often it was lost
\* before; opening it, which resets it, does not make it look lost.  The pages then
\* show recent positions again and again, and a linked mast unless the web server
\* was started after it was; and they show that an Arduino is gone.
LinkFollows ==
    []<>~held /\ <>[]Running =>
        /\ <>[](arduino \in {"booting", "up"}) =>
                /\ []<>(_mast_state = "fresh") \/ []<><<lifespan>>_vars
                /\ <>[](_mast_linked) \/ []<>~heard
        /\ <>[](arduino = "unplugged") => <>[](~_mast_linked /\ _mast_state # "fresh")

=============================================================================
