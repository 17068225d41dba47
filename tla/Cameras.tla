------------------------------- MODULE Cameras --------------------------------
(***************************************************************************)
(* The camera server, robot/uvc_camera_server.py: a discovery thread that  *)
(* reaps dead captures and probes the unclaimed /dev/video* indices, one   *)
(* capture thread per camera, and the coroutine that streams the newest    *)
(* frame of every live camera, and their list, to a client.                *)
(*                                                                         *)
(* A device that one thread holds delivers nothing to another, and a       *)
(* handle is dead once its device has been unplugged.  Of the frame ids,   *)
(* the model keeps how the client's last_sent compares with the latest.    *)
(* Recordings, and stop(), which runs as the process ends, are left out.   *)
(***************************************************************************)
EXTENDS Naturals

CONSTANTS
    LastIndex,  \* max_probe_index, counted from 1
    Loose       \* the indices where a camera may come and go; the others have one

Indices == 1 .. LastIndex

ASSUME SomeIndex == LastIndex \in Nat \ {0} /\ Loose \subseteq Indices

VARIABLES
    plugged,            \* the indices that have a camera
    \* the capture that was started last at each index
    thread,             \* its _loop
    dead, alive, jpeg,  \* indices whose handle is dead, whose alive is set, which
                        \* have a latest_jpeg
    \* _discover_once
    cameras,            \* the keys of self.cameras
    at, claimed,        \* where the pass is, 0 between passes
    found,              \* a capture has been started and is not yet in cameras
    \* one client's _stream
    phase, todo, live_ids,
    replaced,           \* of todo, those that a new capture has succeeded
    last_sent,          \* "none", the "same" as latest_id, "older", or the id of an
                        \* "other" capture
    shown               \* the camera_list it was sent

captures  == <<thread, dead, alive, jpeg>>
discovery == <<cameras, at, claimed, found>>
ticking   == <<phase, todo, live_ids>>
client    == <<ticking, replaced, last_sent, shown>>
vars      == <<plugged, captures, discovery, client>>

Init ==
    /\ plugged \in {Indices \ away : away \in SUBSET Loose}
    /\ thread = [i \in Indices |-> "ended"] /\ dead = {} /\ alive = {} /\ jpeg = {}
    /\ cameras = {} /\ at = 0 /\ claimed = {} /\ found = FALSE
    /\ phase = "top" /\ todo = {} /\ live_ids = {} /\ replaced = {}
    /\ last_sent = [i \in Indices |-> "none"] /\ shown = {}

-----------------------------------------------------------------------------
(* Devices.                                                                *)

Unplug(i) ==
    /\ i \in plugged \cap Loose
    /\ plugged' = plugged \ {i}
    /\ dead' = IF thread[i] = "reading" THEN dead \cup {i} ELSE dead
    /\ UNCHANGED <<thread, alive, jpeg, discovery, client>>

Plug(i) ==
    /\ i \notin plugged
    /\ plugged' = plugged \cup {i}
    /\ UNCHANGED <<captures, discovery, client>>

-----------------------------------------------------------------------------
(* CameraCapture._loop.                                                    *)

\* Faulty variant: a capture that cannot open its camera stays alive.
Open_Kept(i) ==
    /\ thread' = [thread EXCEPT ![i] = IF i \in plugged THEN "reading" ELSE "ended"]
    /\ UNCHANGED alive

Open(i) ==
    \/ /\ i \in plugged
       /\ thread' = [thread EXCEPT ![i] = "reading"] /\ UNCHANGED alive
    \/ /\ i \notin plugged
       /\ thread' = [thread EXCEPT ![i] = "ended"] /\ alive' = alive \ {i}

Opening(i) ==
    /\ thread[i] = "opening"
    /\ Open(i)
    /\ UNCHANGED <<plugged, dead, jpeg, discovery, client>>

\* A frame has the next id, which may be one that an earlier capture had.
Frame(i) ==
    /\ thread[i] = "reading" /\ i \notin dead
    /\ jpeg' = jpeg \cup {i}
    /\ \E l \in CASE last_sent[i] = "same" -> {"older"}
                  [] last_sent[i] = "other" -> {"other", "same"}
                  [] OTHER -> {last_sent[i]} :
            last_sent' = [last_sent EXCEPT ![i] = l]
    /\ UNCHANGED <<plugged, thread, dead, alive, discovery, ticking, replaced, shown>>

\* Faulty variant: the thread ends and says nothing.
Without_Kept(i) == alive

Without(i) == alive \ {i}

\* No frame for lost_after_sec: alive is cleared before the handle is released.
Lose(i) ==
    /\ thread[i] = "reading" /\ i \in dead
    /\ alive' = Without(i)
    /\ thread' = [thread EXCEPT ![i] = "releasing"]
    /\ UNCHANGED <<plugged, dead, jpeg, discovery, client>>

\* imencode or the recording raises: the handle is released, alive stays as it is.
Raise(i) ==
    /\ thread[i] = "reading"
    /\ thread' = [thread EXCEPT ![i] = "raised"]
    /\ UNCHANGED <<plugged, dead, alive, jpeg, discovery, client>>

ReleaseHandle(i) ==
    /\ thread[i] = "releasing"
    /\ thread' = [thread EXCEPT ![i] = "ended"]
    /\ UNCHANGED <<plugged, dead, alive, jpeg, discovery, client>>

-----------------------------------------------------------------------------
(* CameraManager.                                                          *)

active_captures == cameras \cap alive

\* Faulty variant: a capture that has no frame yet does not count.
Claimed_Seen == active_captures \cap jpeg

Claimed == active_captures

Reap ==
    /\ at = 0
    /\ cameras' = active_captures
    /\ claimed' = Claimed
    /\ at' = 1
    /\ UNCHANGED <<plugged, captures, found, client>>

Probed == at \in Indices \ claimed /\ ~found

\* Whether _probe_index would see a frame.
Delivers(i) == i \in plugged /\ thread[i] \notin {"reading", "releasing"}

\* Faulty variant: the range of the indices is one too long.
Following_Past == IF at > LastIndex THEN 0 ELSE at + 1

Following == IF at = LastIndex THEN 0 ELSE at + 1

Skip ==
    /\ at \in Indices /\ ~found
    /\ at \in claimed \/ ~Delivers(at)
    /\ at' = Following
    /\ UNCHANGED <<plugged, captures, cameras, claimed, found, client>>

\* An exception of a probe ends the pass.
Glitch ==
    /\ Probed
    /\ at' = 0
    /\ UNCHANGED <<plugged, captures, cameras, claimed, found, client>>

\* The capture is started before it is put into cameras.
Start ==
    /\ Probed /\ Delivers(at)
    /\ found' = TRUE
    /\ thread' = [thread EXCEPT ![at] = "opening"]
    /\ dead' = dead \ {at} /\ alive' = alive \cup {at} /\ jpeg' = jpeg \ {at}
    /\ replaced' = replaced \cup (todo \cap {at})
    /\ last_sent' = [last_sent EXCEPT ![at] = IF @ = "none" THEN @ ELSE "other"]
    /\ UNCHANGED <<plugged, cameras, at, claimed, ticking, shown>>

Insert ==
    /\ found
    /\ cameras' = cameras \cup {at}
    /\ found' = FALSE
    /\ at' = Following
    /\ UNCHANGED <<plugged, captures, claimed, client>>

-----------------------------------------------------------------------------
(* MultiCameraServer._stream.                                              *)

\* The list is sent when the check is due and it has changed.
Top(due) ==
    /\ phase = "top"
    /\ phase' = "send"
    /\ todo' = active_captures /\ live_ids' = active_captures
    /\ shown' = IF due THEN active_captures ELSE shown
    /\ UNCHANGED <<plugged, captures, discovery, replaced, last_sent>>

\* The cameras of the tick, in any order.  One that has been succeeded since still
\* has its last frame, and that frame's id.
New(i) == IF i \in replaced THEN {TRUE, FALSE} ELSE {(i \in jpeg /\ last_sent[i] # "same")}

Pick(i, new) ==
    /\ i \in todo /\ new \in New(i)
    /\ todo' = todo \ {i} /\ replaced' = replaced \ {i}
    /\ last_sent' = IF new THEN [last_sent EXCEPT ![i] = IF i \in replaced THEN "other" ELSE "same"]
                    ELSE last_sent
    /\ UNCHANGED <<plugged, captures, discovery, phase, live_ids, shown>>

\* Of last_sent, what is forgotten after a tick.
Forgotten == Indices \ live_ids

Forget ==
    /\ phase = "send" /\ todo = {}
    /\ phase' = "top"
    /\ last_sent' = [i \in Indices |-> IF i \in Forgotten THEN "none" ELSE last_sent[i]]
    /\ UNCHANGED <<plugged, captures, discovery, todo, live_ids, replaced, shown>>

Next ==
    \/ \E i \in Indices :
        \/ Unplug(i) \/ Plug(i)
        \/ Opening(i) \/ Frame(i) \/ Lose(i) \/ Raise(i) \/ ReleaseHandle(i)
        \/ \E new \in BOOLEAN : Pick(i, new)
    \/ Reap \/ Skip \/ Glitch \/ Start \/ Insert
    \/ \E due \in BOOLEAN : Top(due)
    \/ Forget

Spec == Init /\ [][Next]_vars

Stream == Top(FALSE) \/ Forget \/ \E i \in Indices, new \in BOOLEAN : Pick(i, new)

\* Threads and the coroutine run, the client reads, the check of the list falls due
\* again and again, and a camera is not refused by the probe for ever.
FairSpec ==
    /\ Spec
    /\ \A i \in Indices : /\ WF_vars(Opening(i)) /\ WF_vars(Frame(i))
                          /\ WF_vars(Lose(i)) /\ WF_vars(ReleaseHandle(i))
    /\ WF_vars(Reap \/ Skip \/ Insert)
    /\ \A i \in Indices : SF_vars(Start /\ at = i)
    /\ WF_vars(Stream) /\ SF_vars(Top(TRUE))

-----------------------------------------------------------------------------
(* Properties.                                                             *)

TypeOK ==
    /\ thread \in [Indices -> {"ended", "opening", "reading", "releasing", "raised"}]
    /\ plugged \subseteq Indices /\ dead \subseteq Indices /\ alive \subseteq Indices
    /\ jpeg \subseteq Indices /\ cameras \subseteq Indices /\ claimed \subseteq Indices
    /\ at \in 0 .. LastIndex /\ found \in BOOLEAN
    /\ phase \in {"top", "send"} /\ live_ids \subseteq Indices /\ shown \subseteq Indices
    /\ replaced \subseteq todo /\ todo \subseteq live_ids
    /\ last_sent \in [Indices -> {"none", "same", "older", "other"}]

\* "there's no possibility of two probes racing for the same index" (lines 36-38): a
\* capture is started only where no other one runs, has a handle or is streamed.
OneCapture ==
    [][found' /\ ~found => thread[at] = "ended" /\ at \notin active_captures]_vars

\* A camera that stays plugged in is streamed to a client that stays, whatever was
\* unplugged and plugged in again before and however its frames are numbered, unless
\* its _loop raises.
Streams ==
    \A i \in Loose :
        <>[](i \in plugged) => []<><<Pick(i, TRUE)>>_vars \/ <>(thread[i] = "raised")

\* "sent on connect and again whenever the active set changes" (lines 394-395): the
\* list a client has been sent becomes, and stays, what is plugged in, unless a _loop
\* raises.
ListFollows ==
    \A i \in Loose :
        \/ <>[](i \in plugged <=> i \in shown)
        \/ []<>(i \in plugged) /\ []<>(i \notin plugged)
        \/ <>(thread[i] = "raised")

=============================================================================
