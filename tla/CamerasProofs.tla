---------------------------- MODULE CamerasProofs -----------------------------
(***************************************************************************)
(* What keeps the camera server from opening a camera twice, for every     *)
(* number of indices: a capture that runs is alive and in cameras until    *)
(* its thread is about to end, and a pass of the discovery leaves alone    *)
(* what was so when it began, and what it has started itself.              *)
(***************************************************************************)
EXTENDS Cameras, TLAPS

-----------------------------------------------------------------------------
(* Types.                                                                  *)

\* A capture that has been found is the one the pass is at; a tick of the stream
\* begins with nothing left to send.
Types == TypeOK /\ (found => at \in Indices) /\ (phase = "top" => todo = {})

\* Devices and capture threads keep the types.
LEMMA CaptureType ==
    ASSUME Types, NEW i \in Indices,
           Unplug(i) \/ Plug(i) \/ Opening(i) \/ Frame(i) \/ Lose(i) \/ Raise(i) \/ ReleaseHandle(i)
    PROVE  Types'
<1> USE SomeIndex DEF Types, TypeOK, captures, discovery, client, ticking
<1>1. CASE Unplug(i) \/ Plug(i)
  BY <1>1 DEF Unplug, Plug
<1>2. CASE Opening(i)
  BY <1>2 DEF Opening, Open
<1>3. CASE Frame(i)
  <2>1. PICK l \in {"none", "same", "older", "other"} : last_sent' = [last_sent EXCEPT ![i] = l]
    BY <1>3 DEF Frame
  <2>2. /\ jpeg' \subseteq Indices
        /\ UNCHANGED <<plugged, thread, dead, alive, discovery, ticking, replaced, shown>>
    BY <1>3 DEF Frame
  <2> HIDE <1>3
  <2> QED  BY <2>1, <2>2
<1>4. CASE Lose(i)
  BY <1>4 DEF Lose, Without
<1>5. CASE Raise(i) \/ ReleaseHandle(i)
  BY <1>5 DEF Raise, ReleaseHandle
<1> QED  BY <1>1, <1>2, <1>3, <1>4, <1>5

\* So does the discovery.
LEMMA DiscoveryType ==
    ASSUME Types, Reap \/ Skip \/ Glitch \/ Start \/ Insert
    PROVE  Types'
<1> USE SomeIndex DEF Types, TypeOK, captures, client, ticking, Indices
<1>1. CASE Reap
  <2>1. at' = 1 /\ cameras' \subseteq Indices /\ claimed' \subseteq Indices
    BY <1>1 DEF Reap, Claimed, active_captures
  <2>2. UNCHANGED <<plugged, captures, found, client>>
    BY <1>1 DEF Reap
  <2>3. found => at = 0
    BY <1>1 DEF Reap
  <2> HIDE <1>1
  <2> QED  BY <2>1, <2>2, <2>3
<1>2. CASE Skip
  BY <1>2 DEF Skip, Following
<1>3. CASE Glitch
  BY <1>3 DEF Glitch, Probed
<1>4. CASE Start
  <2>1. at \in Indices
    BY <1>4 DEF Start, Probed
  <2>2. found' \in BOOLEAN
    BY <1>4, Zenon DEF Start
  <2>3. thread' \in [Indices -> {"ended", "opening", "reading", "releasing", "raised"}]
    BY <1>4 DEF Start
  <2>4. dead' \subseteq Indices /\ alive' \subseteq Indices /\ jpeg' \subseteq Indices
    BY <1>4, <2>1 DEF Start
  <2>5. /\ replaced' \subseteq todo
        /\ last_sent' \in [Indices -> {"none", "same", "older", "other"}]
    BY <1>4 DEF Start
  <2>6. UNCHANGED <<plugged, cameras, at, claimed, ticking, shown>>
    BY <1>4 DEF Start
  <2> HIDE <1>4
  <2> QED  BY <2>1, <2>2, <2>3, <2>4, <2>5, <2>6
<1>5. CASE Insert
  <2>1. at \in Indices /\ cameras' = cameras \cup {at} /\ at' \in 0 .. LastIndex
    BY <1>5 DEF Insert, Following
  <2>2. found' \in BOOLEAN /\ ~found'
    BY <1>5, Zenon DEF Insert
  <2>3. UNCHANGED <<plugged, captures, claimed, client>>
    BY <1>5 DEF Insert
  <2> HIDE <1>5
  <2> QED  BY <2>1, <2>2, <2>3
<1> QED  BY <1>1, <1>2, <1>3, <1>4, <1>5

\* And so does the stream.
LEMMA StreamType ==
    ASSUME Types, \/ \E due \in BOOLEAN : Top(due)
                  \/ \E i \in Indices : \E new \in BOOLEAN : Pick(i, new)
                  \/ Forget
    PROVE  Types'
<1> USE SomeIndex DEF Types, TypeOK, captures, discovery, Indices
<1>1. ASSUME NEW due \in BOOLEAN, Top(due) PROVE Types'
  <2>1. active_captures \subseteq Indices
    BY DEF active_captures
  <2>2. todo' = active_captures /\ live_ids' = active_captures /\ shown' \in {active_captures, shown}
    BY <1>1 DEF Top
  <2>3. phase' = "send" /\ phase = "top"
        /\ UNCHANGED <<plugged, captures, discovery, replaced, last_sent>>
    BY <1>1 DEF Top
  <2> HIDE <1>1
  <2> QED  BY <2>1, <2>2, <2>3
<1>2. ASSUME NEW i \in Indices, NEW new \in BOOLEAN, Pick(i, new) PROVE Types'
  <2>1. /\ todo' = todo \ {i} /\ replaced' = replaced \ {i}
        /\ last_sent' \in [Indices -> {"none", "same", "older", "other"}]
        /\ UNCHANGED <<plugged, captures, discovery, phase, live_ids, shown>>
    BY <1>2 DEF Pick
  <2> HIDE <1>2
  <2> QED  BY <2>1
<1>3. CASE Forget
  BY <1>3 DEF Forget
<1> QED  BY <1>1, <1>2, <1>3

\* Every step keeps the types.
LEMMA NextType == Types /\ [Next]_vars => Types'
<1>1. ASSUME Types, UNCHANGED vars PROVE Types'
  BY <1>1 DEF Types, TypeOK, vars, captures, discovery, client, ticking
<1> QED  BY <1>1, CaptureType, DiscoveryType, StreamType DEF Next

\* They hold from the start.
LEMMA AlwaysTypes == Spec => []Types
<1>1. Init => Types
  <2> SUFFICES ASSUME Init PROVE Types  OBVIOUS
  <2>1. plugged \subseteq Indices /\ found \in BOOLEAN /\ ~found
    BY Zenon DEF Init
  <2> QED  BY <2>1, SomeIndex DEF Init, Types, TypeOK
<1> QED  BY <1>1, NextType, PTL DEF Spec

\* Every variable keeps its type, and the client is only behind with cameras of the
\* tick it is being sent.
THEOREM TypeCorrect == Spec => []TypeOK
BY AlwaysTypes, PTL DEF Types

-----------------------------------------------------------------------------
(* One capture for an index.                                               *)

\* A capture whose thread has not said that it ends is alive and, but for the moment
\* between its start and its insertion, in cameras.
Recorded ==
    \A i \in Indices :
        thread[i] \in {"opening", "reading", "raised"} =>
            i \in alive /\ (i \in cameras \/ (found /\ i = at))

\* What is in cameras during a pass was claimed at its beginning, or the pass has
\* been there.
Passed == at # 0 => \A i \in cameras : i \in claimed \/ i < at

Known == Recorded /\ Passed

\* Devices and capture threads keep this.
LEMMA CaptureKnown ==
    ASSUME Types, Known, NEW i \in Indices,
           Unplug(i) \/ Plug(i) \/ Opening(i) \/ Frame(i) \/ Lose(i) \/ Raise(i) \/ ReleaseHandle(i)
    PROVE  Known'
<1> USE DEF Known, Types, TypeOK, discovery
<1>1. UNCHANGED discovery
  BY DEF Unplug, Plug, Opening, Frame, Lose, Raise, ReleaseHandle
<1>2. Passed'
  BY <1>1 DEF Passed
<1>3. CASE Unplug(i) \/ Plug(i) \/ Frame(i)
  <2>1. UNCHANGED <<thread, alive>>
    BY <1>3 DEF Unplug, Plug, Frame, captures
  <2> QED  BY <1>1, <1>2, <2>1 DEF Recorded
<1>4. CASE Opening(i)
  <2>1. /\ thread[i] = "opening"
        /\ \/ thread' = [thread EXCEPT ![i] = "reading"] /\ alive' = alive
           \/ thread' = [thread EXCEPT ![i] = "ended"] /\ alive' = alive \ {i}
    BY <1>4 DEF Opening, Open
  <2>2. Recorded'
    BY <1>1, <2>1 DEF Recorded
  <2> QED  BY <1>2, <2>2
<1>5. CASE Lose(i) \/ Raise(i) \/ ReleaseHandle(i)
  <2>1. \/ thread' = [thread EXCEPT ![i] = "releasing"] /\ alive' = alive \ {i}
        \/ thread[i] = "reading" /\ thread' = [thread EXCEPT ![i] = "raised"] /\ alive' = alive
        \/ thread' = [thread EXCEPT ![i] = "ended"] /\ alive' = alive
    BY <1>5 DEF Lose, Raise, ReleaseHandle, Without
  <2>2. Recorded'
    BY <1>1, <2>1 DEF Recorded
  <2> QED  BY <1>2, <2>2
<1> QED  BY <1>3, <1>4, <1>5

\* So does the discovery: what it reaps has ended or is about to.
LEMMA DiscoveryKnown ==
    ASSUME Types, Known, Reap \/ Skip \/ Glitch \/ Start \/ Insert
    PROVE  Known'
<1> USE SomeIndex DEF Known, Types, TypeOK, Indices
<1>1. CASE Reap
  <2>1. /\ ~found /\ cameras' = cameras \cap alive /\ claimed' = cameras \cap alive
        /\ UNCHANGED <<thread, alive, found>>
    BY <1>1 DEF Reap, Claimed, active_captures, captures
  <2>2. Recorded' /\ Passed'
    BY <2>1 DEF Recorded, Passed
  <2> QED  BY <2>2
<1>2. CASE Skip \/ Glitch
  <2>1. /\ ~found /\ (at' = 0 \/ (at' = at + 1 /\ at # 0))
        /\ UNCHANGED <<thread, alive, cameras, claimed, found>>
    BY <1>2 DEF Skip, Glitch, Probed, Following, captures
  <2>2. Recorded' /\ Passed'
    BY <2>1 DEF Recorded, Passed
  <2> QED  BY <2>2
<1>3. CASE Start
  <2>1. /\ thread' = [thread EXCEPT ![at] = "opening"] /\ alive' = alive \cup {at}
        /\ found' /\ ~found /\ UNCHANGED <<cameras, at, claimed>>
    BY <1>3 DEF Start, Probed
  <2>2. Recorded' /\ Passed'
    BY <2>1 DEF Recorded, Passed
  <2> QED  BY <2>2
<1>4. CASE Insert
  <2>1. /\ at \in Indices /\ cameras' = cameras \cup {at} /\ (at' = 0 \/ at' = at + 1)
        /\ UNCHANGED <<thread, alive, claimed>>
    BY <1>4 DEF Insert, Following, captures
  <2>2. Recorded' /\ Passed'
    BY <2>1 DEF Recorded, Passed
  <2> QED  BY <2>2
<1> QED  BY <1>1, <1>2, <1>3, <1>4

\* The stream changes none of this, and so every step keeps it.
LEMMA NextKnown == Types /\ Known /\ [Next]_vars => Known'
<1>1. ASSUME Known,
             \/ \E due \in BOOLEAN : Top(due)
             \/ \E i \in Indices : \E new \in BOOLEAN : Pick(i, new)
             \/ Forget \/ UNCHANGED vars
      PROVE  Known'
  <2>1. UNCHANGED <<thread, alive, discovery>>
    BY <1>1 DEF Top, Pick, Forget, captures, vars
  <2> QED  BY <1>1, <2>1 DEF Known, Recorded, Passed, discovery
<1> QED  BY <1>1, CaptureKnown, DiscoveryKnown DEF Next

\* A capture is started only where no thread of an earlier one runs or holds the
\* device, and nothing is streamed from: no camera is opened twice.
THEOREM OpenedOnce == Spec => OneCapture
<1>1. Init => Known
  BY DEF Init, Known, Recorded, Passed
<1>2. Types /\ Known /\ [Next]_vars =>
          (found' /\ ~found => thread[at] = "ended" /\ at \notin active_captures)
  <2> SUFFICES ASSUME Types, Known, [Next]_vars, found', ~found
               PROVE  thread[at] = "ended" /\ at \notin active_captures
    OBVIOUS
  <2>1. Start
    BY DEF Next, Unplug, Plug, Opening, Frame, Lose, Raise, ReleaseHandle, Pick, Reap, Skip,
           Glitch, Insert, Top, Forget, vars, discovery
  <2>2. at \in Indices /\ at \notin claimed /\ thread[at] \notin {"reading", "releasing"} /\ at # 0
    BY <2>1, SomeIndex DEF Start, Probed, Delivers, Indices
  <2>3. at \notin cameras
    BY <2>2, SomeIndex DEF Known, Passed, Indices
  <2>4. thread[at] \notin {"opening", "raised"}
    BY <2>2, <2>3 DEF Known, Recorded
  <2>5. thread[at] = "ended"
    BY <2>2, <2>4 DEF Types, TypeOK
  <2> QED  BY <2>3, <2>5 DEF active_captures
<1>3. Spec => []Known
  BY <1>1, NextKnown, AlwaysTypes, PTL DEF Spec
<1> QED  BY <1>2, <1>3, AlwaysTypes, PTL DEF Spec, OneCapture

=============================================================================
