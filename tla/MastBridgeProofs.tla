--------------------------- MODULE MastBridgeProofs ---------------------------
(***************************************************************************)
(* What holds of the serial bridge of the mast for every set of requests   *)
(* and every timeout, with writes that never return, cables that come and  *)
(* go, and a process that is interrupted or killed anywhere: the lock      *)
(* keeps the handle safe, and the link that is published tells the truth,  *)
(* but for the interrupts that LinkHonest names.                           *)
(***************************************************************************)
EXTENDS MastBridge, TLAPS

\* Actions other than those of the main thread that touch none of its variables.
Elsewhere == Unplug \/ Plug \/ Hang \/ lifespan

-----------------------------------------------------------------------------
(* Types.                                                                  *)

\* The age of the last line is past the timeout only when that has been noticed, and
\* a port that is looked for is not taken for connected.
Count ==
    /\ TypeOK
    /\ pc = "read" => silent <= Silence
    /\ pc \in {"begin", "open", "opened", "sleep"} => ~connected

\* Publishing the state of the link keeps the types.
LEMMA PublishType ==
    ASSUME on_mast_link(link'), link' \in {"Connected", "Disconnected"}
    PROVE  _mast_linked' \in BOOLEAN /\ heard' \in BOOLEAN
BY Zenon DEF on_mast_link

\* The callback and the environment keep the types.
LEMMA OtherType ==
    ASSUME Count,
           (\E r \in Requests : on_command(r)) \/ Written \/ Elsewhere \/ Kill \/ Interrupt \/ Abort
    PROVE  Count'
<1> USE Times DEF Count, TypeOK, main, device, topics, server
<1>1. ASSUME NEW r \in Requests, on_command(r) PROVE Count'
  <2>1. /\ held' \in BOOLEAN
        /\ UNCHANGED <<main, device, link, server>>
    BY <1>1, Zenon DEF on_command
  <2>2. event' \in {"none", "REFUS_BRIDGE", "SERIE_DECONNECTEE"}
    BY <1>1 DEF on_command
  <2> HIDE <1>1
  <2> QED  BY <2>1, <2>2
<1>2. CASE Written
  <2>1. held' \in BOOLEAN /\ UNCHANGED <<main, device, topics, server>>
    BY <1>2, Zenon DEF Written
  <2> QED  BY <2>1
<1>3. CASE Unplug \/ Plug \/ Hang
  BY <1>3 DEF Unplug, Plug, Hang
<1>4. CASE lifespan
  <2>1. _mast_linked' \in BOOLEAN /\ heard' \in BOOLEAN
    BY <1>4, Zenon DEF lifespan
  <2>2. _mast_state' = "none" /\ UNCHANGED <<main, held, device, topics>>
    BY <1>4 DEF lifespan
  <2> QED  BY <2>1, <2>2
<1>5. CASE Kill
  <2>1. ser' \in BOOLEAN /\ held' \in BOOLEAN
    BY <1>5, Zenon DEF Kill
  <2>2. /\ pc' = "killed" /\ port' = "closed"
        /\ UNCHANGED <<ending, cut, silent, connected, arduino, boot, topics, server>>
    BY <1>5 DEF Kill
  <2> QED  BY <2>1, <2>2
<1>6. CASE Interrupt
  <2>1. ending' \in BOOLEAN /\ cut' \in BOOLEAN
    BY <1>6, Zenon DEF Interrupt
  <2>2. pc' = "lost" /\ UNCHANGED <<silent, ser, connected, held, device, topics, server>>
    BY <1>6 DEF Interrupt
  <2> QED  BY <2>1, <2>2
<1>7. CASE Abort
  <2>1. ser' \in BOOLEAN /\ held' \in BOOLEAN /\ cut' \in BOOLEAN
    BY <1>7, Zenon DEF Abort
  <2>2. /\ pc' = "exited" /\ port' = "closed"
        /\ UNCHANGED <<ending, silent, connected, arduino, boot, topics, server>>
    BY <1>7 DEF Abort
  <2> QED  BY <2>1, <2>2
<1> QED  BY <1>1, <1>2, <1>3, <1>4, <1>5, <1>6, <1>7 DEF Elsewhere

\* So does the main thread.
LEMMA MainType == ASSUME Count, Start \/ Main PROVE Count'
<1> USE Times DEF Count, TypeOK, device, topics, server
<1>1. CASE Start
  <2>1. ending' \in BOOLEAN /\ cut' \in BOOLEAN /\ connected' \in BOOLEAN /\ ~connected'
    BY <1>1, Zenon DEF Start
  <2>2. pc' = "begin" /\ UNCHANGED <<silent, ser, held, device, topics, server>>
    BY <1>1 DEF Start
  <2> QED  BY <2>1, <2>2
<1>2. CASE Open
  BY <1>2 DEF Open
<1>3. CASE Opened
  <2>1. set_connected(TRUE)
    BY <1>3 DEF Opened
  <2>2. ser' \in BOOLEAN
    BY <1>3, Zenon DEF Opened
  <2>3. pc = "opened" /\ UNCHANGED <<ending, cut, silent, held, device, topics, server>>
    BY <1>3 DEF Opened
  <2>4. connected' \in BOOLEAN
    BY <2>1, Zenon DEF set_connected
  <2>5. pc' = "publish"
    BY <2>3, <2>1 DEF set_connected
  <2> HIDE <1>3
  <2> QED  BY <2>2, <2>3, <2>4, <2>5
<1>4. ASSUME NEW delivered \in BOOLEAN, ReadLine(delivered) PROVE Count'
  BY <1>4 DEF ReadLine, on_mast_state
<1>5. CASE ReadNothing
  <2>1. /\ silent' = silent + 1 /\ silent <= Silence
        /\ pc' = IF silent + 1 > Silence THEN "lost" ELSE "read"
    BY <1>5 DEF ReadNothing, TooLong
  <2>2. silent' \in 0 .. Silence + 1 /\ (pc' = "read" => silent' <= Silence)
        /\ pc' \in {"lost", "read"}
    BY <2>1
  <2>3. boot' \in 0 .. BootTime /\ arduino' \in {"unplugged", "booting", "up", "mute"}
    BY <1>5 DEF ReadNothing
  <2>4. _mast_state' \in {"none", "fresh", "stale"}
    BY <1>5 DEF ReadNothing, Aged
  <2>5. UNCHANGED <<ending, cut, ser, connected, held, port, topics, _mast_linked, heard>>
    BY <1>5 DEF ReadNothing
  <2> HIDE <1>5
  <2> QED  BY <2>2, <2>3, <2>4, <2>5
<1>6. CASE ReadError \/ Closing
  BY <1>6 DEF ReadError, Closing
<1>7. CASE Lost
  <2>1. ser' \in BOOLEAN
    BY <1>7, Zenon DEF Lost
  <2>2. pc' \in {"closing", "tell"}
        /\ UNCHANGED <<ending, cut, silent, connected, held, device, topics, server>>
    BY <1>7 DEF Lost
  <2> QED  BY <2>1, <2>2
<1>8. CASE Tell
  <2>1. set_connected(FALSE)
    BY <1>8 DEF Tell
  <2>2. UNCHANGED <<ending, cut, silent, ser, held, device, topics, server>>
    BY <1>8 DEF Tell
  <2>3. connected' \in BOOLEAN /\ ~connected'
    BY <2>1, Zenon DEF set_connected
  <2>4. pc' \in {"exited", "sleep", "publish"}
    BY <2>1 DEF set_connected, Onward
  <2> HIDE <1>8
  <2> QED  BY <2>2, <2>3, <2>4
<1>9. CASE Sleep
  BY <1>9 DEF Sleep, Aged
<1>10. CASE Begin
  <2>1. pc' = "open" /\ link' = "Disconnected" /\ on_mast_link(link')
        /\ UNCHANGED <<ending, cut, silent, ser, connected, held, device, event, _mast_state>>
    BY <1>10 DEF Begin
  <2>2. _mast_linked' \in BOOLEAN /\ heard' \in BOOLEAN
    BY <2>1, PublishType
  <2>3. ~connected
    BY <1>10 DEF Begin
  <2> HIDE <1>10
  <2> QED  BY <2>1, <2>2, <2>3
<1>11. CASE Publish
  <2>1. link' \in {"Connected", "Disconnected"} /\ on_mast_link(link')
        /\ UNCHANGED <<ending, cut, ser, connected, held, device, event, _mast_state>>
    BY <1>11 DEF Publish
  <2>2. _mast_linked' \in BOOLEAN /\ heard' \in BOOLEAN
    BY <2>1, PublishType
  <2>3. /\ pc' \in {"read", "exited", "sleep"}
        /\ pc' = "read" => connected
        /\ pc' = "sleep" => ~connected
    BY <1>11 DEF Publish, Onward
  <2>4. silent' = IF connected THEN 0 ELSE silent
    BY <1>11 DEF Publish, Fresh
  <2>5. silent' \in 0 .. Silence + 1 /\ (pc' = "read" => silent' <= Silence)
    BY <2>3, <2>4
  <2> HIDE <1>11
  <2> QED  BY <2>1, <2>2, <2>3, <2>5
<1> QED  BY <1>1, <1>2, <1>3, <1>4, <1>5, <1>6, <1>7, <1>8, <1>9, <1>10, <1>11 DEF Main

\* The types hold with the bound on the age.
LEMMA Counts == Spec => []Count
<1>1. Init => Count
  <2> SUFFICES ASSUME Init PROVE Count  OBVIOUS
  <2>1. silent \in 0 .. Silence + 1 /\ boot \in 0 .. BootTime
    BY Times DEF Init
  <2> QED  BY <2>1, Zenon DEF Init, Count, TypeOK
<1>2. Count /\ [Next]_vars => Count'
  <2>1. ASSUME Count, UNCHANGED vars PROVE Count'
    BY <2>1 DEF Count, TypeOK, vars, main, device, topics, server
  <2> QED  BY <2>1, OtherType, MainType DEF Next, Elsewhere
<1> QED  BY <1>1, <1>2, PTL DEF Spec

\* Every variable keeps its type; the silence never outlasts its timeout.
THEOREM TypeCorrect == Spec => []TypeOK
BY Counts, PTL DEF Count

-----------------------------------------------------------------------------
(* The handle.                                                             *)

\* Whoever writes or reads has a handle, and a handle's port is not closed.
Handle ==
    /\ held => ser
    /\ ser => port # "closed"
    /\ pc = "read" => ser
    /\ pc = "opened" => port # "closed"
    /\ pc = "publish" => (ser <=> connected)
    /\ pc \notin {"publish", "read", "lost"} => ~ser

\* Every step keeps this: the lock is what keeps it when the handle is taken away.
LEMMA NextHandle == ASSUME TypeOK, Handle, [Next]_vars PROVE Handle'
<1> USE DEF TypeOK, Handle, main, device
<1>1. ASSUME NEW r \in Requests, on_command(r) PROVE Handle'
  <2>1. (held' => ser) /\ UNCHANGED <<pc, ser, connected, port>>
    BY <1>1 DEF on_command
  <2> QED  BY <2>1
<1>2. CASE Written
  BY <1>2 DEF Written
<1>3. CASE Start \/ Begin \/ Interrupt \/ ReadError
  <2>1. /\ pc' \in {"begin", "open", "lost"} /\ UNCHANGED <<held, ser, port>>
        /\ pc' # "lost" => pc \in {"begin", "exited", "killed"}
    BY <1>3 DEF Start, Begin, Interrupt, ReadError
  <2> QED  BY <2>1
<1>4. CASE Kill \/ Abort
  <2>1. ~ser' /\ ~held'
    BY <1>4, Zenon DEF Kill, Abort
  <2>2. pc' \in {"killed", "exited"}
    BY <1>4 DEF Kill, Abort
  <2> QED  BY <2>1, <2>2
<1>5. CASE Open
  BY <1>5 DEF Open
<1>6. CASE Opened
  <2>1. ser' /\ connected' /\ pc' \in {"read", "publish"} /\ port' = port /\ pc = "opened"
    BY <1>6 DEF Opened, set_connected, Onward
  <2> QED  BY <2>1
<1>7. CASE Lost
  <2>1. ~held' /\ ~ser' /\ pc' \in {"closing", "tell"}
    BY <1>7 DEF Lost, Free
  <2> QED  BY <2>1
<1>8. CASE Closing \/ Tell \/ Sleep \/ Publish
  <2>1. CASE Closing \/ Sleep
    <3>1. /\ pc \in {"closing", "sleep"} /\ pc' \in {"tell", "open"}
          /\ UNCHANGED <<held, ser>>
      BY <2>1 DEF Closing, Sleep
    <3> QED  BY <3>1
  <2>2. CASE Tell
    <3>1. /\ pc = "tell" /\ pc' \in {"publish", "exited", "sleep"} /\ ~connected'
          /\ UNCHANGED <<held, ser>>
      BY <2>2 DEF Tell, set_connected, Onward
    <3> QED  BY <3>1
  <2>3. CASE Publish
    <3>1. /\ pc = "publish" /\ UNCHANGED <<held, ser, port, connected>>
          /\ pc' = IF connected THEN "read" ELSE IF ending THEN "exited" ELSE "sleep"
      BY <2>3 DEF Publish, Onward
    <3> QED  BY <3>1
  <2> QED  BY <1>8, <2>1, <2>2, <2>3
<1>9. CASE ReadNothing \/ \E delivered \in BOOLEAN : ReadLine(delivered)
  BY <1>9 DEF ReadNothing, ReadLine
<1>10. CASE Unplug
  BY <1>10 DEF Unplug
<1>11. CASE UNCHANGED vars \/ Plug \/ Hang \/ lifespan
  BY <1>11 DEF vars, Plug, Hang, lifespan
<1> QED  BY <1>1, <1>2, <1>3, <1>4, <1>5, <1>6, <1>7, <1>8, <1>9, <1>10, <1>11 DEF Next, Main

\* A command is never written to a closed handle, and the handle that is read is
\* never taken away, however long a write takes.
THEOREM HandleIsSafe == Spec => []HandleSafe
<1>1. Init => Handle
  BY DEF Init, Handle
<1>2. TypeOK /\ Handle /\ [Next]_vars => Handle'
  BY NextHandle
<1>3. Handle => HandleSafe
  BY DEF Handle, HandleSafe
<1> QED  BY <1>1, <1>2, <1>3, TypeCorrect, PTL DEF Spec

-----------------------------------------------------------------------------
(* The link.                                                               *)

\* What was published last is no more than what the bridge believes, unless it is about
\* to publish or an interrupt took it from there.
Told ==
    /\ cut => ending \/ pc = "exited"
    /\ pc \in {"begin", "open", "opened", "read", "sleep"} => ~ending
    /\ pc = "publish" /\ connected => ~ending
    /\ pc \in {"begin", "open", "opened", "sleep"} => ~connected
    /\ pc = "exited" /\ ~cut => ~connected
    /\ pc = "read" => link = "Connected"
    /\ pc \notin {"begin", "publish", "killed"} /\ ~cut /\ link = "Connected" => connected

\* Every step keeps this.
LEMMA NextTold == ASSUME TypeOK, Told, [Next]_vars PROVE Told'
<1> USE DEF TypeOK, Told, main, topics
<1>1. CASE Opened
  <2>1. pc = "opened" /\ pc' = "publish" /\ connected' /\ UNCHANGED <<ending, cut>>
    BY <1>1 DEF Opened, set_connected
  <2> QED  BY <2>1
<1>2. CASE Publish
  <2>1. /\ pc = "publish" /\ UNCHANGED <<ending, cut, connected>>
        /\ link' = IF connected THEN "Connected" ELSE "Disconnected"
        /\ pc' = IF connected THEN "read" ELSE IF ending THEN "exited" ELSE "sleep"
    BY <1>2 DEF Publish, Onward
  <2> QED  BY <2>1
<1>3. CASE Tell
  <2>1. /\ pc = "tell" /\ ~connected' /\ UNCHANGED <<ending, cut, link>>
        /\ \/ connected /\ pc' = "publish"
           \/ ~connected /\ pc' = IF ending THEN "exited" ELSE "sleep"
    BY <1>3 DEF Tell, set_connected, Onward
  <2> QED  BY <2>1
<1>4. CASE Start \/ Begin
  BY <1>4 DEF Start, Begin
<1>5. CASE Interrupt
  <2>1. /\ pc \notin {"begin", "exited", "killed"} /\ ~ending /\ UNCHANGED <<connected, link>>
        /\ pc' = "lost" /\ ending' /\ (pc = "publish" /\ ~connected => cut')
    BY <1>5 DEF Interrupt
  <2> QED  BY <2>1
<1>6. CASE Abort
  <2>1. pc' = "exited" /\ cut'
    BY <1>6 DEF Abort
  <2> QED  BY <2>1
<1>7. CASE Kill
  <2>1. pc # "exited" /\ pc' = "killed" /\ UNCHANGED <<ending, cut>>
    BY <1>7 DEF Kill
  <2> QED  BY <2>1
<1>8. CASE \/ Open \/ ReadNothing \/ ReadError \/ Lost \/ Closing \/ Sleep
           \/ \E delivered \in BOOLEAN : ReadLine(delivered)
  <2>1. UNCHANGED <<ending, cut, connected, link>>
    BY <1>8 DEF Open, ReadNothing, ReadError, Lost, Closing, Sleep, ReadLine
  <2>2. /\ pc \notin {"begin", "publish", "exited", "killed"}
        /\ \/ pc' = pc \/ pc' \in {"lost", "closing", "tell"}
           \/ pc = "open" /\ pc' \in {"opened", "sleep"}
           \/ pc = "sleep" /\ pc' = "open"
    BY <1>8 DEF Open, ReadNothing, ReadError, Lost, Closing, Sleep, ReadLine
  <2> QED  BY <2>1, <2>2
<1>9. CASE \/ UNCHANGED vars \/ \E r \in Requests : on_command(r)
           \/ Written \/ Unplug \/ Plug \/ Hang \/ lifespan
  <2>1. UNCHANGED <<pc, ending, cut, connected, link>>
    BY <1>9 DEF vars, on_command, Written, Unplug, Plug, Hang, lifespan
  <2> QED  BY <2>1
<1> QED  BY <1>1, <1>2, <1>3, <1>4, <1>5, <1>6, <1>7, <1>8, <1>9 DEF Next, Main

\* The published link tells the truth where the bridge reads, waits or has ended,
\* wherever one interrupt ended the try clause but before an overdue publication;
\* only that, an interrupt outside the clause and a killed process leave it unchanged.
THEOREM LinkIsHonest == Spec => []LinkHonest
<1>1. Init => Told
  BY DEF Init, Told
<1>2. TypeOK /\ Told /\ [Next]_vars => Told'
  BY NextTold
<1>3. TypeOK /\ Told => LinkHonest
  BY DEF TypeOK, Told, LinkHonest
<1> QED  BY <1>1, <1>2, <1>3, TypeCorrect, PTL DEF Spec

=============================================================================
