------------------------ MODULE SidewalkAppProofs ------------------------
(***************************************************************************)
(* Proofs of SidewalkApp, for every size of the queue and of the heap, all  *)
(* bounds and, where no hypothesis says otherwise, every set of failing     *)
(* calls.                                                                   *)
(***************************************************************************)
EXTENDS SidewalkApp, SequenceTheorems, TLAPS

\* The answers of a call are Booleans.
LEMMA SucceedsBoolean == \A call : Succeeds(call) \subseteq BOOLEAN
  BY DEF Succeeds

\* The events that are sent are events.
LEMMA NewEventType ==
    ASSUME NEW h \in Handlers, NEW ctx \in SUBSET Blocks, NEW s \in 0 .. MaxStimuli
    PROVE  /\ NewEvent(h, ctx, s) \in Events
           /\ NewEvent(h, ctx, s).handler = h
           /\ NewEvent(h, ctx, s).ctx = ctx
           /\ NewEvent(h, ctx, s).status = s
  BY DEF NewEvent, Events

-----------------------------------------------------------------------------
(* What the message queue does. *)

\* k_msgq_put at the end of the queue.
Puts(e) ==
    /\ queue' \in Seq(Events) /\ Len(queue') <= QueueSize
    /\ Len(queue') = Len(queue) + 1
    /\ \A i \in 1 .. Len(queue) : queue'[i] = queue[i]
    /\ queue'[Len(queue) + 1] = e
    /\ UNCHANGED waiting

\* The producer waits for room.
Waits(p, e) ==
    /\ waiting[p] = NoEvent
    /\ waiting' = [waiting EXCEPT ![p] = e]
    /\ UNCHANGED queue

\* A put with room appends.
LEMMA RoomPuts ==
    ASSUME TypeOK, NEW e \in Events, Room, queue' = Enqueue(queue, e), UNCHANGED waiting
    PROVE  Puts(e)
<1>1. Len(queue) \in Nat
  BY LenProperties DEF TypeOK
<1>2. queue' = Append(queue, e)
  BY DEF Enqueue
<1>3. /\ queue' \in Seq(Events) /\ Len(queue') = Len(queue) + 1
      /\ \A i \in 1 .. Len(queue) : queue'[i] = queue[i]
      /\ queue'[Len(queue) + 1] = e
  BY <1>2, AppendProperties DEF TypeOK
<1> QED
  BY <1>1, <1>3, SizesAssumption DEF Room, Puts

\* From a thread that may wait.
LEMMA SendOrWaitDoes ==
    ASSUME TypeOK, NEW p \in Producers, NEW e \in Events, SendOrWait(p, e)
    PROVE  Puts(e) \/ Waits(p, e)
  BY RoomPuts DEF SendOrWait, Waits

\* From an interrupt or a callback.
LEMMA SendOrDropDoes ==
    ASSUME TypeOK, NEW e \in Events, SendOrDrop(e)
    PROVE  \/ Room /\ Puts(e)
           \/ ~Room /\ UNCHANGED <<queue, waiting>>
  BY RoomPuts DEF SendOrDrop

\* k_msgq_get takes the head, and puts the event of one producer that waits.
Takes ==
    /\ Len(queue) >= 1
    /\ event' = queue[1]
    /\ queue' \in Seq(Events) /\ Len(queue') <= QueueSize
    /\ \/ /\ Len(queue') = Len(queue) - 1
          /\ \A i \in 1 .. Len(queue) - 1 : queue'[i] = queue[i + 1]
          /\ UNCHANGED waiting
       \/ \E p \in Producers :
             /\ waiting[p] \in Events /\ waiting' = [waiting EXCEPT ![p] = NoEvent]
             /\ Len(queue') = Len(queue)
             /\ \A i \in 1 .. Len(queue) - 1 : queue'[i] = queue[i + 1]
             /\ queue'[Len(queue)] = waiting[p]

\* ThreadGet does that.
LEMMA GetTakes == ASSUME TypeOK, ThreadGet PROVE Takes
<1>1. queue \in Seq(Events) /\ queue # <<>> /\ Len(queue) <= QueueSize
  BY DEF TypeOK, ThreadGet
<1>2. /\ Head(queue) = queue[1] /\ Tail(queue) \in Seq(Events)
      /\ Len(Tail(queue)) = Len(queue) - 1
      /\ \A i \in 1 .. Len(Tail(queue)) : Tail(queue)[i] = queue[i + 1]
  BY <1>1, HeadTailProperties
<1>3. Len(queue) \in Nat /\ Len(queue) >= 1
  BY <1>1, LenProperties, EmptySeq
<1>4. event' = queue[1]
  BY <1>2 DEF ThreadGet
<1>5. CASE queue' = Tail(queue) /\ UNCHANGED waiting
  <2>1. /\ queue' \in Seq(Events) /\ Len(queue') = Len(queue) - 1
        /\ \A i \in 1 .. Len(queue) - 1 : queue'[i] = queue[i + 1]
    BY <1>2, <1>5
  <2>2. Len(queue') <= QueueSize
    BY <1>1, <1>3, <2>1, SizesAssumption
  <2> QED
    BY <1>3, <1>4, <1>5, <2>1, <2>2 DEF Takes
<1>6. ASSUME NEW p \in Producers, waiting[p] # NoEvent,
             queue' = Enqueue(Tail(queue), waiting[p]),
             waiting' = [waiting EXCEPT ![p] = NoEvent]
      PROVE  Takes
  <2>1. waiting[p] \in Events
    BY <1>6 DEF TypeOK
  <2>2. /\ queue' \in Seq(Events) /\ Len(queue') = Len(Tail(queue)) + 1
        /\ \A i \in 1 .. Len(Tail(queue)) : queue'[i] = Tail(queue)[i]
        /\ queue'[Len(Tail(queue)) + 1] = waiting[p]
    BY <1>2, <1>6, <2>1, AppendProperties DEF Enqueue
  <2>3. Len(queue') = Len(queue) /\ queue'[Len(queue)] = waiting[p]
    BY <1>2, <1>3, <2>2
  <2>4. \A i \in 1 .. Len(queue) - 1 : queue'[i] = queue[i + 1]
    BY <1>2, <1>3, <2>2
  <2> QED
    BY <1>1, <1>3, <1>4, <1>6, <2>1, <2>2, <2>3, <2>4 DEF Takes
<1> QED
  BY <1>5, <1>6 DEF ThreadGet

-----------------------------------------------------------------------------
(* The heap. *)

\* sid_hal_malloc returns a block that is not allocated.
LEMMA FreeBlockIsFree ==
    FreeBlocks # {} => SomeFreeBlock \in Blocks /\ SomeFreeBlock \notin heap
  BY DEF SomeFreeBlock, FreeBlocks

\* The two blocks of a message were not allocated.
LEMMA MessageBlocksFree == MessageBlocks \subseteq Blocks /\ MessageBlocks \cap heap = {}
<1>1. CASE \A b, c \in FreeBlocks : b = c
  BY <1>1 DEF MessageBlocks
<1>2. CASE ~ \A b, c \in FreeBlocks : b = c
  <2>1. PICK d \in FreeBlocks : d # SomeFreeBlock
    BY <1>2
  <2> DEFINE second == CHOOSE b \in FreeBlocks : b # SomeFreeBlock
  <2>2. second \in FreeBlocks
    BY <2>1
  <2>3. MessageBlocks = {SomeFreeBlock, second}
    BY <1>2 DEF MessageBlocks
  <2> QED
    BY <2>1, <2>2, <2>3, FreeBlockIsFree DEF FreeBlocks
<1> QED
  BY <1>1, <1>2

-----------------------------------------------------------------------------
(***************************************************************************)
(* A step as the owners of contexts and the order of statuses see it.       *)
(***************************************************************************)

\* The thread goes on, and no status is reported or applied.
Calm ==
    /\ thread' = "handle" => thread = "handle"
    /\ thread' \in {"none", "idle"} => thread \in {"none", "idle"}
    /\ thread' = "restart" => thread = "restart" \/ event.handler = "link_switch"
    /\ last_status' = last_status /\ lib'.status = lib.status
    /\ UNCHANGED event

\* Nothing is sent, taken or freed.
Keeps == UNCHANGED <<queue, waiting, heap, leaked>> /\ Calm

\* The thread applies a status.
Applies ==
    /\ UNCHANGED <<queue, waiting, event, heap, leaked>>
    /\ thread = "handle" /\ event.handler = "new_status" /\ thread' = "free"
    /\ last_status' = NewStatus /\ lib'.status = lib.status

\* A request without a context is sent.
Requests ==
    /\ \E p \in Producers, h \in Handlers \ {"new_status"} :
          Puts(NewEvent(h, {}, 0)) \/ Waits(p, NewEvent(h, {}, 0))
    /\ UNCHANGED <<heap, leaked>> /\ Calm

\* A message is sent.
Messages ==
    /\ \/ Puts(NewEvent("send_msg", MessageBlocks, 0))
       \/ Waits("buttons", NewEvent("send_msg", MessageBlocks, 0))
    /\ heap' = heap \cup MessageBlocks
    /\ UNCHANGED leaked /\ Calm

\* The library reports a status.
Reports(new) ==
    /\ new \subseteq Blocks \ heap
    /\ heap' = heap \cup new
    /\ lib'.status = lib.status + 1 /\ lib.status + 1 \in 0 .. MaxStimuli
    /\ \/ /\ UNCHANGED leaked
          /\ Puts(NewEvent("new_status", new, IF new = {} THEN 0 ELSE lib.status + 1))
       \/ UNCHANGED <<queue, waiting>> /\ leaked' = leaked \cup new
    /\ UNCHANGED <<event, thread, last_status>>

\* A producer gives up.
GivesUp(p) ==
    /\ waiting' = [waiting EXCEPT ![p] = NoEvent]
    /\ heap' = heap \ waiting[p].ctx
    /\ UNCHANGED <<queue, leaked>> /\ Calm

\* The thread gets an event.
Gets ==
    /\ Takes
    /\ thread = "idle" /\ thread' = "handle"
    /\ UNCHANGED <<heap, leaked, last_status>> /\ lib'.status = lib.status

\* The thread frees the context of its event.
Frees ==
    /\ heap' = heap \ event.ctx
    /\ event' = NoEvent /\ thread' = "idle"
    /\ UNCHANGED <<queue, waiting, leaked, last_status>> /\ lib'.status = lib.status

\* The device is reset.
Resets ==
    /\ queue' = <<>> /\ waiting' = [p \in Producers |-> NoEvent] /\ event' = NoEvent
    /\ heap' = {} /\ leaked' = {} /\ thread' = "none"
    /\ last_status' = 0 /\ lib' = LibDown /\ reboots' = reboots + 1

Moves ==
    \/ Keeps \/ Applies \/ Requests \/ Messages
    \/ \E new \in SUBSET Blocks : Reports(new)
    \/ \E p \in Producers : GivesUp(p)
    \/ Gets \/ Frees \/ Resets

\* Every step is one of these.
LEMMA StepMoves == ASSUME TypeOK, LibKnown, LoopKnown, Next PROVE Moves
<1> USE DEF appVars, sidVars, memVars, libVars, boundVars
<1>0. ASSUME NEW h \in Handlers PROVE NewEvent(h, {}, 0) \in Events
  BY NewEventType, BoundsAssumption
<1>1. CASE MainStart
  BY <1>1 DEF MainStart, Moves, Keeps, Calm, TypeOK, LibStates, LoopKnown
<1>2. CASE MainSend
  <2>1. Calm /\ UNCHANGED <<heap, leaked>>
    BY <1>2 DEF MainSend, Calm, TypeOK, LibStates
  <2>2. main \in Handlers \ {"new_status"} /\ SendOrWait("main", NewEvent(main, {}, 0))
    BY <1>2 DEF MainSend, Handlers
  <2>3. /\ main \in Handlers \ {"new_status"}
        /\ Puts(NewEvent(main, {}, 0)) \/ Waits("main", NewEvent(main, {}, 0))
    BY <1>0, <2>2, SendOrWaitDoes DEF Handlers, Producers
  <2> QED
    BY <2>1, <2>3 DEF Moves, Requests, Keeps, Handlers, Producers
<1>3. CASE app_btn_send_msg
  <2>1. Calm /\ UNCHANGED leaked
    BY <1>3 DEF app_btn_send_msg, Calm
  <2>2. CASE MessageBlocks = {}
    BY <1>3, <2>1, <2>2 DEF app_btn_send_msg, Moves, Keeps
  <2>3. CASE MessageBlocks # {}
    <3>1. NewEvent("send_msg", MessageBlocks, 0) \in Events
      BY MessageBlocksFree, NewEventType, BoundsAssumption DEF Handlers
    <3>2. /\ SendOrWait("buttons", NewEvent("send_msg", MessageBlocks, 0))
          /\ heap' = heap \cup MessageBlocks
      BY <1>3, <2>3 DEF app_btn_send_msg, MessageHeap
    <3> QED
      BY <2>1, <3>1, <3>2, SendOrWaitDoes DEF Moves, Messages, Producers
  <2> QED
    BY <2>2, <2>3
<1>4. CASE app_btn_request
  <2>1. Calm /\ UNCHANGED <<heap, leaked>>
    BY <1>4 DEF app_btn_request, Press, Calm, TypeOK, LibStates
  <2>2. \E h \in {"connect", "factory_reset", "link_switch"} :
          SendOrWait("buttons", NewEvent(h, {}, 0))
    BY <1>4 DEF app_btn_request, Press
  <2>3. \E h \in {"connect", "factory_reset", "link_switch"} :
          Puts(NewEvent(h, {}, 0)) \/ Waits("buttons", NewEvent(h, {}, 0))
    BY <1>0, <2>2, SendOrWaitDoes DEF Handlers, Producers
  <2> QED
    BY <2>1, <2>3 DEF Moves, Requests, Keeps, Handlers, Producers
<1>5. CASE on_sidewalk_event_isr
  <2>1. Calm /\ UNCHANGED <<heap, leaked>>
    BY <1>5 DEF on_sidewalk_event_isr, LibEvent, RequestProcess, Calm, TypeOK, LibStates
  <2>2. SendOrDrop(NewEvent("process", {}, 0))
    BY <1>5 DEF on_sidewalk_event_isr, LibEvent, RequestProcess
  <2>3. Puts(NewEvent("process", {}, 0)) \/ UNCHANGED <<queue, waiting>>
    BY <1>0, <2>2, SendOrDropDoes DEF Handlers, Producers
  <2> QED
    BY <2>1, <2>3 DEF Moves, Requests, Keeps, Handlers, Producers
<1>6. CASE on_sidewalk_event_thread
  <2>1. Calm /\ UNCHANGED <<heap, leaked>>
    BY <1>6 DEF on_sidewalk_event_thread, LibEvent, Calm, TypeOK, LibStates
  <2>2. SendOrWait("bt", NewEvent("process", {}, 0))
    BY <1>6 DEF on_sidewalk_event_thread, LibEvent
  <2>3. Puts(NewEvent("process", {}, 0)) \/ Waits("bt", NewEvent("process", {}, 0))
    BY <1>0, <2>2, SendOrWaitDoes DEF Handlers, Producers
  <2> QED
    BY <2>1, <2>3 DEF Moves, Requests, Keeps, Handlers, Producers
<1>7. ASSUME NEW p \in Producers, SendTimeout(p) PROVE Moves
  BY <1>7 DEF SendTimeout, FreeUnsent, Moves, GivesUp, Calm
<1>8. CASE ThreadGet
  BY <1>8, GetTakes DEF ThreadGet, Moves, Gets
<1>9. CASE sidewalk_event_platform_init
  BY <1>9
     DEF sidewalk_event_platform_init, Handling, Return, OutsideThread, Moves, Keeps, Calm,
         TypeOK, LibStates
<1>10. CASE sidewalk_event_autostart
  BY <1>10
     DEF sidewalk_event_autostart, Handling, Return, OutsideThread, Moves, Keeps, Calm,
         TypeOK, LibStates, LibStart, LibInit
<1>11. CASE sidewalk_event_process
  BY <1>11
     DEF sidewalk_event_process, Handling, Return, OutsideThread, SidProcess, Moves, Keeps,
         Calm, TypeOK, LibStates
<1>12. CASE sidewalk_event_factory_reset
  <2>1. Calm /\ UNCHANGED <<heap, leaked>>
    BY <1>12
       DEF sidewalk_event_factory_reset, Handling, Return, RequestProcess, Calm, TypeOK,
           LibStates
  <2>2. SendOrDrop(NewEvent("process", {}, 0)) \/ UNCHANGED <<queue, waiting>>
    BY <1>12 DEF sidewalk_event_factory_reset, Handling, Return, RequestProcess
  <2>3. Puts(NewEvent("process", {}, 0)) \/ UNCHANGED <<queue, waiting>>
    BY <1>0, <2>2, SendOrDropDoes DEF Handlers, Producers
  <2> QED
    BY <2>1, <2>3 DEF Moves, Requests, Keeps, Handlers, Producers
<1>13. CASE sidewalk_event_new_status
  BY <1>13
     DEF sidewalk_event_new_status, Handling, Return, OutsideThread, NewStatus, Moves, Applies
<1>14. CASE sidewalk_event_send_msg
  BY <1>14
     DEF sidewalk_event_send_msg, Handling, Return, OutsideThread, Moves, Keeps, Calm, TypeOK,
         LibStates
<1>15. CASE sidewalk_event_connect
  BY <1>15
     DEF sidewalk_event_connect, Handling, Return, OutsideThread, Moves, Keeps, Calm, TypeOK,
         LibStates
<1>16. CASE sidewalk_event_link_switch
  BY <1>16
     DEF sidewalk_event_link_switch, Handling, Return, OutsideThread, SidProcess, SavedMask,
         Moves, Keeps, Calm, TypeOK, LibStates
<1>17. CASE ProcessReturn
  BY <1>17 DEF ProcessReturn, OutsideThread, Moves, Keeps, Calm, TypeOK, LibStates
<1>18. CASE LinkRestart
  BY <1>18
     DEF LinkRestart, Return, OutsideThread, Moves, Keeps, Calm, TypeOK, LibStates, LibDeinit,
         LibStart, LibInit, LibDown
<1>19. CASE ThreadFree
  BY <1>19 DEF ThreadFree, Moves, Frees
<1>20. CASE on_sidewalk_factory_reset
  BY <1>20 DEF on_sidewalk_factory_reset, Callback, Reboot, Moves, Resets
<1>21. CASE on_sidewalk_status_changed
  <2> DEFINE new == IF FreeBlocks = {} THEN {} ELSE {SomeFreeBlock}
             e == NewEvent("new_status", new, IF new = {} THEN 0 ELSE lib.status + 1)
  <2>1. new \in SUBSET Blocks /\ new \subseteq Blocks \ heap
    BY FreeBlockIsFree
  <2>2. lib.status + 1 \in 0 .. MaxStimuli
    BY <1>21, BoundsAssumption DEF on_sidewalk_status_changed, LibKnown, TypeOK, LibStates
  <2>3. e \in Events
    BY <2>1, <2>2, NewEventType, BoundsAssumption DEF Handlers
  <2>4. /\ lib' = [lib EXCEPT !.status = lib.status + 1]
        /\ heap' = heap \cup new /\ SendOrDrop(e)
        /\ leaked' = IF Room THEN leaked ELSE leaked \cup new
        /\ UNCHANGED <<event, thread, last_status>>
    BY <1>21 DEF on_sidewalk_status_changed
  <2>5. lib'.status = lib.status + 1
    BY <2>4 DEF TypeOK, LibStates
  <2>6. \/ UNCHANGED leaked /\ Puts(e)
        \/ UNCHANGED <<queue, waiting>> /\ leaked' = leaked \cup new
    BY <2>3, <2>4, SendOrDropDoes
  <2>7. Reports(new)
    BY <2>1, <2>2, <2>4, <2>5, <2>6 DEF Reports
  <2> QED
    BY <2>1, <2>7 DEF Moves
<1>22. CASE on_sidewalk_msg_received
  <2>1. Calm /\ UNCHANGED leaked
    BY <1>22 DEF on_sidewalk_msg_received, Calm
  <2>2. CASE MessageBlocks = {}
    BY <1>22, <2>1, <2>2 DEF on_sidewalk_msg_received, Moves, Keeps
  <2>3. CASE MessageBlocks # {}
    <3>1. NewEvent("send_msg", MessageBlocks, 0) \in Events
      BY MessageBlocksFree, NewEventType, BoundsAssumption DEF Handlers
    <3>2. /\ SendOrDrop(NewEvent("send_msg", MessageBlocks, 0))
          /\ heap' = IF Room THEN heap \cup MessageBlocks ELSE heap
      BY <1>22, <2>3 DEF on_sidewalk_msg_received, EchoHeap
    <3> QED
      BY <2>1, <3>1, <3>2, SendOrDropDoes DEF Moves, Messages, Keeps
  <2> QED
    BY <2>2, <2>3
<1>23. CASE PowerCycle
  BY <1>23 DEF PowerCycle, Reboot, Moves, Resets
<1> QED
  BY <1>1, <1>2, <1>3, <1>4, <1>5, <1>6, <1>7, <1>8, <1>9, <1>10, <1>11, <1>12, <1>13,
     <1>14, <1>15, <1>16, <1>17, <1>18, <1>19, <1>20, <1>21, <1>22, <1>23
     DEF Next, Thread, Handler

\* app_start creates the thread, and nothing else does.
LEMMA NoThreadStep ==
    ASSUME main = "start" => thread = "none", Next
    PROVE  (main = "start" => thread = "none")'
<1> USE DEF appVars, sidVars, memVars, libVars, boundVars
<1>1. CASE MainStart
  BY <1>1 DEF MainStart
<1>2. CASE MainSend
  BY <1>2 DEF MainSend
<1>3. CASE app_btn_send_msg
  BY <1>3 DEF app_btn_send_msg, Press, MessageHeap
<1>4. CASE app_btn_request
  BY <1>4 DEF app_btn_request, Press
<1>5. CASE on_sidewalk_event_isr
  BY <1>5 DEF on_sidewalk_event_isr, LibEvent, RequestProcess
<1>6. CASE on_sidewalk_event_thread
  BY <1>6 DEF on_sidewalk_event_thread, LibEvent
<1>7. ASSUME NEW p \in Producers, SendTimeout(p) PROVE (main = "start" => thread = "none")'
  BY <1>7 DEF SendTimeout, FreeUnsent
<1>8. CASE ThreadGet
  BY <1>8 DEF ThreadGet
<1>9. CASE sidewalk_event_platform_init
  BY <1>9 DEF sidewalk_event_platform_init, Handling, Return, OutsideThread
<1>10. CASE sidewalk_event_autostart
  BY <1>10 DEF sidewalk_event_autostart, Handling, Return, OutsideThread
<1>11. CASE sidewalk_event_process
  BY <1>11 DEF sidewalk_event_process, Handling, Return, OutsideThread, SidProcess
<1>12. CASE sidewalk_event_factory_reset
  BY <1>12 DEF sidewalk_event_factory_reset, Handling, Return, RequestProcess
<1>13. CASE sidewalk_event_new_status
  BY <1>13 DEF sidewalk_event_new_status, Handling, Return, OutsideThread, NewStatus
<1>14. CASE sidewalk_event_send_msg
  BY <1>14 DEF sidewalk_event_send_msg, Handling, Return, OutsideThread
<1>15. CASE sidewalk_event_connect
  BY <1>15 DEF sidewalk_event_connect, Handling, Return, OutsideThread
<1>16. CASE sidewalk_event_link_switch
  BY <1>16
     DEF sidewalk_event_link_switch, Handling, Return, OutsideThread, SidProcess, SavedMask
<1>17. CASE ProcessReturn
  BY <1>17 DEF ProcessReturn, OutsideThread
<1>18. CASE LinkRestart
  BY <1>18 DEF LinkRestart, Return, OutsideThread
<1>19. CASE ThreadFree
  BY <1>19 DEF ThreadFree
<1>20. CASE on_sidewalk_factory_reset
  BY <1>20 DEF on_sidewalk_factory_reset, Callback, Reboot
<1>21. CASE on_sidewalk_status_changed
  BY <1>21 DEF on_sidewalk_status_changed, Callback
<1>22. CASE on_sidewalk_msg_received
  BY <1>22 DEF on_sidewalk_msg_received, Callback, EchoHeap
<1>23. CASE PowerCycle
  BY <1>23 DEF PowerCycle, Reboot
<1> QED
  BY <1>1, <1>2, <1>3, <1>4, <1>5, <1>6, <1>7, <1>8, <1>9, <1>10, <1>11, <1>12, <1>13,
     <1>14, <1>15, <1>16, <1>17, <1>18, <1>19, <1>20, <1>21, <1>22, <1>23
     DEF Next, Thread, Handler

-----------------------------------------------------------------------------
(* Types. *)

\* No event.
LEMMA NoEventShape ==
    NoEvent.handler = "none" /\ NoEvent.ctx = {} /\ NoEvent \notin Events
  BY DEF NoEvent, Events, Handlers

QueueTypes ==
    /\ queue \in Seq(Events) /\ Len(queue) <= QueueSize
    /\ waiting \in [Producers -> Events \cup {NoEvent}]
    /\ event \in Events \cup {NoEvent}
    /\ heap \subseteq Blocks /\ leaked \subseteq Blocks

\* Every step keeps events events.
LEMMA QueueTypesStep == ASSUME TypeOK, Moves PROVE QueueTypes'
<1> USE DEF QueueTypes
<1>1. CASE Keeps
  BY <1>1 DEF Keeps, Calm, TypeOK
<1>2. CASE Applies
  BY <1>2 DEF Applies, TypeOK
<1>3. CASE Requests
  <2>1. PICK p \in Producers, h \in Handlers :
          Puts(NewEvent(h, {}, 0)) \/ Waits(p, NewEvent(h, {}, 0))
    BY <1>3 DEF Requests
  <2>2. NewEvent(h, {}, 0) \in Events
    BY NewEventType, BoundsAssumption
  <2> QED
    BY <1>3, <2>1, <2>2 DEF Requests, Puts, Waits, Calm, TypeOK
<1>4. CASE Messages
  <2>1. NewEvent("send_msg", MessageBlocks, 0) \in Events /\ "buttons" \in Producers
    BY MessageBlocksFree, NewEventType, BoundsAssumption DEF Handlers, Producers
  <2>2. queue' \in Seq(Events) /\ Len(queue') <= QueueSize
    BY <1>4 DEF Messages, Puts, Waits, TypeOK
  <2>3. waiting' \in [Producers -> Events \cup {NoEvent}]
    BY <1>4, <2>1 DEF Messages, Puts, Waits, TypeOK
  <2>4. heap' \subseteq Blocks
    BY <1>4, MessageBlocksFree DEF Messages, TypeOK
  <2> QED
    BY <1>4, <2>2, <2>3, <2>4 DEF Messages, Calm, TypeOK
<1>5. ASSUME NEW new \in SUBSET Blocks, Reports(new) PROVE QueueTypes'
  BY <1>5 DEF Reports, Puts, TypeOK
<1>6. ASSUME NEW p \in Producers, GivesUp(p) PROVE QueueTypes'
  BY <1>6 DEF GivesUp, Calm, TypeOK
<1>7. CASE Gets
  <2>1. event' \in Events
    BY <1>7, ElementOfSeq DEF Gets, Takes, TypeOK
  <2>2. waiting' \in [Producers -> Events \cup {NoEvent}]
    BY <1>7 DEF Gets, Takes, TypeOK
  <2> QED
    BY <1>7, <2>1, <2>2 DEF Gets, Takes, TypeOK
<1>8. CASE Frees
  BY <1>8 DEF Frees, TypeOK
<1>9. CASE Resets
  BY <1>9, SizesAssumption DEF Resets
<1> QED
  BY <1>1, <1>2, <1>3, <1>4, <1>5, <1>6, <1>7, <1>8, <1>9 DEF Moves

-----------------------------------------------------------------------------
(* Owners. *)

\* Every step keeps the contexts apart.
LEMMA ApartStep == ASSUME OwnInv, Moves PROVE Apart'
<1> USE DEF OwnInv
<1>0. queue \in Seq(Events) /\ Len(queue) \in Nat
  BY LenProperties DEF TypeOK
<1>1. CASE Keeps
  BY <1>1 DEF Keeps, Calm, Apart
<1>2. CASE Applies
  BY <1>2 DEF Applies, Apart
<1>3. CASE Requests
  <2>1. PICK p \in Producers, h \in Handlers :
          Puts(NewEvent(h, {}, 0)) \/ Waits(p, NewEvent(h, {}, 0))
    BY <1>3 DEF Requests
  <2>2. NewEvent(h, {}, 0).ctx = {}
    BY NewEventType, BoundsAssumption
  <2>3. UNCHANGED event
    BY <1>3 DEF Requests, Calm
  <2>4. CASE Puts(NewEvent(h, {}, 0))
    BY <1>0, <2>2, <2>3, <2>4 DEF Puts, Apart
  <2>5. CASE Waits(p, NewEvent(h, {}, 0))
    BY <2>2, <2>3, <2>5, NoEventShape DEF Waits, Apart, TypeOK, Producers
  <2> QED
    BY <2>1, <2>4, <2>5
<1>4. CASE Messages
  <2> DEFINE e == NewEvent("send_msg", MessageBlocks, 0)
  <2>1. e.ctx = MessageBlocks
    BY MessageBlocksFree, NewEventType, BoundsAssumption DEF Handlers
  <2>2. /\ \A i \in 1 .. Len(queue) : queue[i].ctx \cap MessageBlocks = {}
        /\ event.ctx \cap MessageBlocks = {} /\ waiting["buttons"].ctx \cap MessageBlocks = {}
    BY MessageBlocksFree DEF Accounted, HasOwner
  <2>3. UNCHANGED event
    BY <1>4 DEF Messages, Calm
  <2>4. CASE Puts(e)
    BY <1>0, <2>1, <2>2, <2>3, <2>4 DEF Puts, Apart
  <2>5. CASE Waits("buttons", e)
    BY <2>1, <2>2, <2>3, <2>5, NoEventShape DEF Waits, Apart, TypeOK, Producers
  <2> QED
    BY <1>4, <2>4, <2>5 DEF Messages
<1>5. ASSUME NEW new \in SUBSET Blocks, Reports(new) PROVE Apart'
  <2> DEFINE e == NewEvent("new_status", new, IF new = {} THEN 0 ELSE lib.status + 1)
  <2>1. e.ctx = new
    BY <1>5, NewEventType, BoundsAssumption DEF Handlers, Reports
  <2>2. /\ \A i \in 1 .. Len(queue) : queue[i].ctx \cap new = {}
        /\ event.ctx \cap new = {} /\ waiting["buttons"].ctx \cap new = {}
    BY <1>5 DEF Accounted, HasOwner, Reports
  <2>3. UNCHANGED event
    BY <1>5 DEF Reports
  <2>4. CASE Puts(e)
    BY <1>0, <2>1, <2>2, <2>3, <2>4 DEF Puts, Apart
  <2>5. CASE UNCHANGED <<queue, waiting>>
    BY <2>3, <2>5 DEF Apart
  <2> QED
    BY <1>5, <2>4, <2>5 DEF Reports
<1>6. ASSUME NEW p \in Producers, GivesUp(p) PROVE Apart'
  BY <1>6, NoEventShape DEF GivesUp, Calm, Apart, TypeOK, Producers
<1>7. CASE Gets
  <2>1. event = NoEvent
    BY <1>7 DEF Gets, LoopKnown
  <2>2. event' = queue[1] /\ Len(queue) >= 1
    BY <1>7 DEF Gets, Takes
  <2>3. CASE /\ Len(queue') = Len(queue) - 1
             /\ \A i \in 1 .. Len(queue) - 1 : queue'[i] = queue[i + 1]
             /\ UNCHANGED waiting
    BY <1>0, <2>2, <2>3 DEF Apart
  <2>4. ASSUME NEW p \in Producers, waiting' = [waiting EXCEPT ![p] = NoEvent],
               Len(queue') = Len(queue),
               \A i \in 1 .. Len(queue) - 1 : queue'[i] = queue[i + 1],
               queue'[Len(queue)] = waiting[p]
        PROVE  Apart'
    <3>1. /\ waiting'["main"].ctx = {} /\ waiting'["bt"].ctx = {}
          /\ waiting'["buttons"].ctx = IF p = "buttons" THEN {} ELSE waiting["buttons"].ctx
          /\ waiting[p].ctx = IF p = "buttons" THEN waiting["buttons"].ctx ELSE {}
      BY <2>4, NoEventShape DEF Apart, TypeOK, Producers
    <3>2. \A i, j \in 1 .. Len(queue') : i # j => queue'[i].ctx \cap queue'[j].ctx = {}
      BY <1>0, <2>2, <2>4, <3>1 DEF Apart
    <3>3. \A i \in 1 .. Len(queue') :
             queue'[i].ctx \cap (event'.ctx \cup waiting'["buttons"].ctx) = {}
      BY <1>0, <2>2, <2>4, <3>1 DEF Apart
    <3>4. event'.ctx \cap waiting'["buttons"].ctx = {}
      BY <1>0, <2>2, <3>1 DEF Apart
    <3> QED
      BY <3>1, <3>2, <3>3, <3>4 DEF Apart
  <2> QED
    BY <1>7, <2>3, <2>4 DEF Gets, Takes
<1>8. CASE Frees
  BY <1>8, NoEventShape DEF Frees, Apart
<1>9. CASE Resets
  BY <1>9, NoEventShape DEF Resets, Apart, Producers
<1> QED
  BY <1>1, <1>2, <1>3, <1>4, <1>5, <1>6, <1>7, <1>8, <1>9 DEF Moves

\* Every step keeps the blocks of the contexts, and no others, allocated.
LEMMA AccountedStep == ASSUME OwnInv, Moves PROVE Accounted'
<1> USE DEF OwnInv
<1>0. queue \in Seq(Events) /\ Len(queue) \in Nat
  BY LenProperties DEF TypeOK
<1>1. CASE Keeps
  BY <1>1 DEF Keeps, Calm, Accounted, HasOwner
<1>2. CASE Applies
  BY <1>2 DEF Applies, Accounted, HasOwner
<1>3. CASE Requests
  <2>1. PICK p \in Producers, h \in Handlers :
          Puts(NewEvent(h, {}, 0)) \/ Waits(p, NewEvent(h, {}, 0))
    BY <1>3 DEF Requests
  <2>2. NewEvent(h, {}, 0).ctx = {}
    BY NewEventType, BoundsAssumption
  <2>3. UNCHANGED <<event, heap, leaked>>
    BY <1>3 DEF Requests, Calm
  <2>4. CASE Puts(NewEvent(h, {}, 0))
    <3>1. \A b \in Blocks : HasOwner(b)' <=> HasOwner(b)
      BY <1>0, <2>2, <2>3, <2>4 DEF Puts, HasOwner
    <3> QED
      BY <2>3, <3>1 DEF Accounted
  <2>5. CASE Waits(p, NewEvent(h, {}, 0))
    <3>1. \A b \in Blocks : HasOwner(b)' <=> HasOwner(b)
      BY <2>2, <2>3, <2>5, NoEventShape DEF Waits, HasOwner, TypeOK, Producers
    <3> QED
      BY <2>3, <3>1 DEF Accounted
  <2> QED
    BY <2>1, <2>4, <2>5
<1>4. CASE Messages
  <2> DEFINE e == NewEvent("send_msg", MessageBlocks, 0)
  <2>1. e.ctx = MessageBlocks
    BY MessageBlocksFree, NewEventType, BoundsAssumption DEF Handlers
  <2>2. UNCHANGED <<event, leaked>> /\ heap' = heap \cup MessageBlocks
    BY <1>4 DEF Messages, Calm
  <2>3. \A b \in Blocks : HasOwner(b)' <=> HasOwner(b) \/ b \in MessageBlocks
    <3>1. CASE Puts(e)
      BY <1>0, <2>1, <2>2, <3>1 DEF Puts, HasOwner
    <3>2. CASE Waits("buttons", e)
      BY <2>1, <2>2, <3>2, NoEventShape DEF Waits, HasOwner, TypeOK, Producers
    <3> QED
      BY <1>4, <3>1, <3>2 DEF Messages
  <2> QED
    BY <2>2, <2>3, MessageBlocksFree DEF Accounted
<1>5. ASSUME NEW new \in SUBSET Blocks, Reports(new) PROVE Accounted'
  <2> DEFINE e == NewEvent("new_status", new, IF new = {} THEN 0 ELSE lib.status + 1)
  <2>1. e.ctx = new
    BY <1>5, NewEventType, BoundsAssumption DEF Handlers, Reports
  <2>2. UNCHANGED event /\ heap' = heap \cup new /\ new \cap heap = {}
    BY <1>5 DEF Reports
  <2>3. CASE Puts(e) /\ UNCHANGED leaked
    <3>1. \A b \in Blocks : HasOwner(b)' <=> HasOwner(b) \/ b \in new
      BY <1>0, <2>1, <2>2, <2>3 DEF Puts, HasOwner
    <3> QED
      BY <2>2, <2>3, <3>1 DEF Accounted
  <2>4. CASE UNCHANGED <<queue, waiting>> /\ leaked' = leaked \cup new
    <3>1. \A b \in Blocks : HasOwner(b)' <=> HasOwner(b)
      BY <2>2, <2>4 DEF HasOwner
    <3> QED
      BY <2>2, <2>4, <3>1 DEF Accounted
  <2> QED
    BY <1>5, <2>3, <2>4 DEF Reports
<1>6. ASSUME NEW p \in Producers, GivesUp(p) PROVE Accounted'
  <2>1. /\ UNCHANGED <<queue, event, leaked>> /\ heap' = heap \ waiting[p].ctx
        /\ waiting' = [waiting EXCEPT ![p] = NoEvent]
    BY <1>6 DEF GivesUp, Calm
  <2>2. CASE p = "buttons"
    <3>1. waiting'["buttons"].ctx = {}
      BY <2>1, <2>2, NoEventShape DEF TypeOK, Producers
    <3>2. \A b \in Blocks : HasOwner(b)' <=> HasOwner(b) /\ b \notin waiting["buttons"].ctx
      BY <2>1, <3>1 DEF HasOwner, Apart
    <3>3. waiting["buttons"].ctx \subseteq Blocks
      BY NoEventShape DEF TypeOK, Producers, Events
    <3> QED
      BY <2>1, <2>2, <3>2, <3>3 DEF Accounted, HasOwner
  <2>3. CASE p # "buttons"
    <3>1. waiting[p].ctx = {} /\ waiting'["buttons"] = waiting["buttons"]
      BY <2>1, <2>3 DEF Apart, TypeOK, Producers
    <3>2. \A b \in Blocks : HasOwner(b)' <=> HasOwner(b)
      BY <2>1, <3>1 DEF HasOwner
    <3> QED
      BY <2>1, <3>1, <3>2 DEF Accounted
  <2> QED
    BY <2>2, <2>3
<1>7. CASE Gets
  <2>1. event.ctx = {}
    BY <1>7, NoEventShape DEF Gets, LoopKnown
  <2>2. event' = queue[1] /\ Len(queue) >= 1 /\ UNCHANGED <<heap, leaked>>
    BY <1>7 DEF Gets, Takes
  <2>3. CASE /\ Len(queue') = Len(queue) - 1
             /\ \A i \in 1 .. Len(queue) - 1 : queue'[i] = queue[i + 1]
             /\ UNCHANGED waiting
    <3>1. ASSUME NEW b \in Blocks, HasOwner(b) PROVE HasOwner(b)'
      <4>1. ASSUME NEW i \in 1 .. Len(queue), b \in queue[i].ctx PROVE HasOwner(b)'
        <5>1. i = 1 \/ (i - 1 \in 1 .. Len(queue') /\ queue'[i - 1] = queue[i])
          BY <1>0, <2>3
        <5> QED
          BY <2>2, <4>1, <5>1 DEF HasOwner
      <4> QED
        BY <2>1, <2>3, <3>1, <4>1 DEF HasOwner
    <3>2. ASSUME NEW b \in Blocks, HasOwner(b)' PROVE HasOwner(b)
      BY <1>0, <2>2, <2>3, <3>2 DEF HasOwner
    <3> QED
      BY <2>2, <3>1, <3>2 DEF Accounted
  <2>4. ASSUME NEW p \in Producers, waiting' = [waiting EXCEPT ![p] = NoEvent],
               Len(queue') = Len(queue),
               \A i \in 1 .. Len(queue) - 1 : queue'[i] = queue[i + 1],
               queue'[Len(queue)] = waiting[p]
        PROVE  Accounted'
    <3>0. /\ waiting'["buttons"].ctx = IF p = "buttons" THEN {} ELSE waiting["buttons"].ctx
          /\ waiting[p].ctx = IF p = "buttons" THEN waiting["buttons"].ctx ELSE {}
      BY <2>4, NoEventShape DEF Apart, TypeOK, Producers
    <3>1. ASSUME NEW b \in Blocks, HasOwner(b) PROVE HasOwner(b)'
      <4>1. ASSUME NEW i \in 1 .. Len(queue), b \in queue[i].ctx PROVE HasOwner(b)'
        <5>1. i = 1 \/ (i - 1 \in 1 .. Len(queue') /\ queue'[i - 1] = queue[i])
          BY <1>0, <2>4
        <5> QED
          BY <2>2, <4>1, <5>1 DEF HasOwner
      <4>2. CASE b \in waiting["buttons"].ctx
        <5>1. Len(queue) \in 1 .. Len(queue')
          BY <1>0, <2>2, <2>4
        <5> QED
          BY <2>4, <3>0, <4>2, <5>1 DEF HasOwner
      <4> QED
        BY <2>1, <3>1, <4>1, <4>2 DEF HasOwner
    <3>2. ASSUME NEW b \in Blocks, HasOwner(b)' PROVE HasOwner(b)
      <4>1. ASSUME NEW i \in 1 .. Len(queue'), b \in queue'[i].ctx PROVE HasOwner(b)
        <5>1. \/ i + 1 \in 1 .. Len(queue) /\ queue'[i] = queue[i + 1]
              \/ queue'[i] = waiting[p]
          BY <1>0, <2>4
        <5> QED
          BY <3>0, <4>1, <5>1 DEF HasOwner
      <4>2. 1 \in 1 .. Len(queue)
        BY <1>0, <2>2
      <4> QED
        BY <2>2, <3>0, <3>2, <4>1, <4>2 DEF HasOwner
    <3> QED
      BY <2>2, <3>1, <3>2 DEF Accounted
  <2> QED
    BY <1>7, <2>3, <2>4 DEF Gets, Takes
<1>8. CASE Frees
  <2>1. UNCHANGED <<queue, waiting, leaked>> /\ event'.ctx = {} /\ heap' = heap \ event.ctx
    BY <1>8, NoEventShape DEF Frees
  <2>2. event.ctx \subseteq Blocks
    BY NoEventShape DEF TypeOK, Events
  <2>3. \A b \in Blocks : HasOwner(b)' <=> HasOwner(b) /\ b \notin event.ctx
    BY <2>1 DEF HasOwner, Apart
  <2> QED
    BY <2>1, <2>2, <2>3 DEF Accounted, HasOwner
<1>9. CASE Resets
  BY <1>9, NoEventShape DEF Resets, Accounted, HasOwner, Producers
<1> QED
  BY <1>1, <1>2, <1>3, <1>4, <1>5, <1>6, <1>7, <1>8, <1>9 DEF Moves

\* Every step keeps the thread and its event together.
LEMMA LoopKnownStep == ASSUME TypeOK, LoopKnown, Moves, Next PROVE LoopKnown'
<1>1. (main = "start" => thread = "none")'
  BY NoThreadStep DEF LoopKnown
<1>2. /\ (thread \in {"none", "idle"} => event = NoEvent)'
      /\ (thread = "restart" => event.handler = "link_switch")'
  BY DEF Moves, Keeps, Applies, Requests, Messages, Reports, GivesUp, Gets, Frees, Resets,
         Calm, LoopKnown
<1> QED
  BY <1>1, <1>2 DEF LoopKnown

-----------------------------------------------------------------------------
(* The order of the statuses. *)

\* Events in the queue have a status.
LEMMA QueueStatus ==
    ASSUME TypeOK, NEW i \in 1 .. Len(queue)
    PROVE  queue[i] \in Events /\ queue[i].status \in Nat
<1>1. queue[i] \in Events
  BY ElementOfSeq DEF TypeOK
<1> QED
  BY <1>1, BoundsAssumption DEF Events

\* A step that neither reports nor takes an event leaves statuses in order.
LEMMA SameQueueOrder ==
    ASSUME TypeOK, StatusesOrdered, UNCHANGED <<queue, event>>,
           \A p \in Producers : waiting'[p].handler # "new_status",
           last_status' = last_status, lib'.status = lib.status,
           thread' = "handle" => thread = "handle"
    PROVE  StatusesOrdered'
  BY DEF StatusesOrdered, IsStatus

\* A status at the end of the queue is the newest, other events do not matter.
LEMMA PutOrder ==
    ASSUME TypeOK, StatusesOrdered, NEW e \in Events, Puts(e), UNCHANGED event,
           last_status' = last_status, thread' = "handle" => thread = "handle",
           lib'.status \in Nat, lib.status <= lib'.status, IsStatus(e) => e.status = lib'.status
    PROVE  StatusesOrdered'
<1>0. Len(queue) \in Nat /\ lib.status \in Nat /\ last_status \in Nat
  BY LenProperties DEF TypeOK, LibStates
<1>1. \A i \in 1 .. Len(queue) : queue[i].status \in Nat
  BY QueueStatus
<1>2. event.status \in Nat
  BY DEF TypeOK, Events, NoEvent
<1>3. \A i \in 1 .. Len(queue') : \/ i \in 1 .. Len(queue) /\ queue'[i] = queue[i]
                                  \/ i = Len(queue) + 1 /\ queue'[i] = e
  BY <1>0 DEF Puts
<1>4. (last_status <= lib.status)'
  BY <1>0 DEF StatusesOrdered
<1>5. (\A p \in Producers : waiting[p].handler # "new_status")'
  BY DEF StatusesOrdered, Puts
<1>6. (\A i \in 1 .. Len(queue) : IsStatus(queue[i]) =>
          last_status <= queue[i].status /\ queue[i].status <= lib.status)'
  BY <1>0, <1>1, <1>3 DEF StatusesOrdered, IsStatus
<1>7. (\A i, j \in 1 .. Len(queue) : i < j /\ IsStatus(queue[i]) /\ IsStatus(queue[j]) =>
          queue[i].status <= queue[j].status)'
  <2> SUFFICES ASSUME NEW i \in 1 .. Len(queue'), NEW j \in 1 .. Len(queue'), i < j,
                      IsStatus(queue'[i]), IsStatus(queue'[j])
               PROVE  queue'[i].status <= queue'[j].status
    BY DEF IsStatus
  <2>1. i \in 1 .. Len(queue) /\ queue'[i] = queue[i]
    BY <1>0, <1>3
  <2>2. CASE j \in 1 .. Len(queue) /\ queue'[j] = queue[j]
    BY <2>1, <2>2 DEF StatusesOrdered
  <2>3. CASE queue'[j] = e
    <3>1. queue[i].status <= lib.status
      BY <2>1 DEF StatusesOrdered
    <3> QED
      BY <1>0, <1>1, <2>1, <2>3, <3>1
  <2> QED
    BY <1>3, <2>2, <2>3
<1>8. (thread = "handle" /\ IsStatus(event) =>
          /\ last_status <= event.status /\ event.status <= lib.status
          /\ \A i \in 1 .. Len(queue) : IsStatus(queue[i]) => event.status <= queue[i].status)'
  BY <1>0, <1>1, <1>2, <1>3 DEF StatusesOrdered, IsStatus
<1> QED
  BY <1>4, <1>5, <1>6, <1>7, <1>8 DEF StatusesOrdered

\* Every step keeps the statuses in order, and the last one never goes back but for a reset.
LEMMA StatusesOrderedStep ==
    ASSUME TypeOK, LoopKnown, StatusesOrdered, Moves
    PROVE  StatusesOrdered' /\ (last_status' >= last_status \/ reboots' # reboots)
<1>0. /\ Len(queue) \in Nat /\ lib.status \in Nat /\ last_status \in Nat /\ event.status \in Nat
      /\ reboots \in Nat
  BY LenProperties, BoundsAssumption DEF TypeOK, LibStates, Events, NoEvent
<1>1. CASE Keeps
  BY <1>0, <1>1, SameQueueOrder DEF Keeps, Calm, StatusesOrdered
<1>2. CASE Applies
  <2>1. last_status' = last_status \/ (IsStatus(event) /\ last_status' = event.status)
    BY <1>2 DEF Applies, NewStatus, IsStatus
  <2>2. last_status' \in Nat /\ last_status' >= last_status /\ last_status' <= lib.status
    BY <1>0, <1>2, <2>1 DEF Applies, StatusesOrdered
  <2>3. \A i \in 1 .. Len(queue) : IsStatus(queue[i]) => last_status' <= queue[i].status
    BY <1>2, <2>1 DEF Applies, StatusesOrdered
  <2> QED
    BY <1>2, <2>2, <2>3 DEF Applies, StatusesOrdered, IsStatus
<1>3. CASE Requests
  <2>1. PICK p \in Producers, h \in Handlers \ {"new_status"} :
          Puts(NewEvent(h, {}, 0)) \/ Waits(p, NewEvent(h, {}, 0))
    BY <1>3 DEF Requests
  <2> DEFINE e == NewEvent(h, {}, 0)
  <2>2. e \in Events /\ ~IsStatus(e) /\ e.handler # "new_status"
    BY NewEventType, BoundsAssumption DEF IsStatus
  <2>3. CASE Puts(e)
    BY <1>0, <1>3, <2>2, <2>3, PutOrder DEF Requests, Calm
  <2>4. CASE Waits(p, e)
    <3>1. \A r \in Producers : waiting'[r].handler # "new_status"
      BY <2>2, <2>4 DEF Waits, StatusesOrdered, TypeOK
    <3> QED
      BY <1>0, <1>3, <2>4, <3>1, SameQueueOrder DEF Waits, Requests, Calm
  <2> QED
    BY <2>1, <2>3, <2>4
<1>4. CASE Messages
  <2> DEFINE e == NewEvent("send_msg", MessageBlocks, 0)
  <2>1. e \in Events /\ ~IsStatus(e) /\ e.handler # "new_status"
    BY NewEventType, MessageBlocksFree, BoundsAssumption DEF Handlers, IsStatus
  <2>2. CASE Puts(e)
    BY <1>0, <1>4, <2>1, <2>2, PutOrder DEF Messages, Calm
  <2>3. CASE Waits("buttons", e)
    <3>1. \A r \in Producers : waiting'[r].handler # "new_status"
      BY <2>1, <2>3 DEF Waits, StatusesOrdered, TypeOK
    <3> QED
      BY <1>0, <1>4, <2>3, <3>1, SameQueueOrder DEF Waits, Messages, Calm
  <2> QED
    BY <1>4, <2>2, <2>3 DEF Messages
<1>5. ASSUME NEW new \in SUBSET Blocks, Reports(new)
      PROVE  StatusesOrdered' /\ (last_status' >= last_status \/ reboots' # reboots)
  <2> DEFINE e == NewEvent("new_status", new, IF new = {} THEN 0 ELSE lib.status + 1)
  <2>0. /\ lib'.status = lib.status + 1 /\ lib.status + 1 \in 0 .. MaxStimuli
        /\ UNCHANGED <<event, thread, last_status>>
    BY <1>5 DEF Reports
  <2>1. e \in Events /\ (IsStatus(e) => e.status = lib'.status)
    BY <2>0, NewEventType, BoundsAssumption DEF Handlers, IsStatus
  <2>2. CASE Puts(e)
    BY <1>0, <2>0, <2>1, <2>2, PutOrder
  <2>3. CASE UNCHANGED <<queue, waiting>>
    <3>1. \A i \in 1 .. Len(queue) : queue[i].status \in Nat
      BY QueueStatus
    <3>2. \A n \in Nat : n <= lib.status => n <= lib'.status
      BY <1>0, <2>0
    <3>3. (last_status <= lib.status)'
      BY <1>0, <2>0, <3>2 DEF StatusesOrdered
    <3>4. (\A i \in 1 .. Len(queue) : IsStatus(queue[i]) =>
              last_status <= queue[i].status /\ queue[i].status <= lib.status)'
      BY <2>0, <2>3, <3>1, <3>2 DEF StatusesOrdered, IsStatus
    <3>5. (thread = "handle" /\ IsStatus(event) =>
              /\ last_status <= event.status /\ event.status <= lib.status
              /\ \A i \in 1 .. Len(queue) :
                    IsStatus(queue[i]) => event.status <= queue[i].status)'
      BY <1>0, <2>0, <2>3, <3>2 DEF StatusesOrdered, IsStatus
    <3>6. /\ (\A p \in Producers : waiting[p].handler # "new_status")'
          /\ (\A i, j \in 1 .. Len(queue) : i < j /\ IsStatus(queue[i]) /\ IsStatus(queue[j]) =>
                 queue[i].status <= queue[j].status)'
      BY <2>3 DEF StatusesOrdered, IsStatus
    <3>7. StatusesOrdered'
      BY <3>3, <3>4, <3>5, <3>6 DEF StatusesOrdered
    <3> QED
      BY <1>0, <2>0, <3>7
  <2> QED
    BY <1>5, <2>2, <2>3 DEF Reports
<1>6. ASSUME NEW p \in Producers, GivesUp(p)
      PROVE  StatusesOrdered' /\ (last_status' >= last_status \/ reboots' # reboots)
  <2>1. \A r \in Producers : waiting'[r].handler # "new_status"
    BY <1>6, NoEventShape DEF GivesUp, StatusesOrdered, TypeOK
  <2> QED
    BY <1>0, <1>6, <2>1, SameQueueOrder DEF GivesUp, Calm
<1>7. CASE Gets
  <2>0. /\ event' = queue[1] /\ 1 \in 1 .. Len(queue)
        /\ last_status' = last_status /\ lib'.status = lib.status
    BY <1>0, <1>7 DEF Gets, Takes
  <2>1. \A i \in 1 .. Len(queue') :
           \/ i + 1 \in 1 .. Len(queue) /\ queue'[i] = queue[i + 1]
           \/ ~IsStatus(queue'[i])
    <3>1. CASE /\ Len(queue') = Len(queue) - 1
               /\ \A i \in 1 .. Len(queue) - 1 : queue'[i] = queue[i + 1]
      BY <1>0, <3>1
    <3>2. ASSUME NEW p \in Producers, Len(queue') = Len(queue),
                 \A i \in 1 .. Len(queue) - 1 : queue'[i] = queue[i + 1],
                 queue'[Len(queue)] = waiting[p]
          PROVE  \A i \in 1 .. Len(queue') :
                    \/ i + 1 \in 1 .. Len(queue) /\ queue'[i] = queue[i + 1]
                    \/ ~IsStatus(queue'[i])
      <4>1. ~IsStatus(waiting[p])
        BY DEF StatusesOrdered, IsStatus
      <4>2. \A i \in 1 .. Len(queue') : i = Len(queue) \/ i \in 1 .. Len(queue) - 1
        BY <1>0, <3>2
      <4>3. \A i \in 1 .. Len(queue) - 1 : i + 1 \in 1 .. Len(queue)
        BY <1>0
      <4> QED
        BY <3>2, <4>1, <4>2, <4>3
    <3> QED
      BY <1>7, <3>1, <3>2 DEF Gets, Takes
  <2>2. (\A p \in Producers : waiting[p].handler # "new_status")'
    BY <1>7, NoEventShape DEF Gets, Takes, StatusesOrdered, TypeOK
  <2>3. (\A i \in 1 .. Len(queue) : IsStatus(queue[i]) =>
            last_status <= queue[i].status /\ queue[i].status <= lib.status)'
    BY <2>0, <2>1 DEF StatusesOrdered, IsStatus
  <2>4. (\A i, j \in 1 .. Len(queue) : i < j /\ IsStatus(queue[i]) /\ IsStatus(queue[j]) =>
            queue[i].status <= queue[j].status)'
    <3> SUFFICES ASSUME NEW i \in 1 .. Len(queue'), NEW j \in 1 .. Len(queue'), i < j,
                        IsStatus(queue'[i]), IsStatus(queue'[j])
                 PROVE  queue'[i].status <= queue'[j].status
      BY DEF IsStatus
    <3>1. /\ i + 1 \in 1 .. Len(queue) /\ queue'[i] = queue[i + 1]
          /\ j + 1 \in 1 .. Len(queue) /\ queue'[j] = queue[j + 1] /\ i + 1 < j + 1
      BY <2>1
    <3> QED
      BY <3>1 DEF StatusesOrdered
  <2>5. (thread = "handle" /\ IsStatus(event) =>
            /\ last_status <= event.status /\ event.status <= lib.status
            /\ \A i \in 1 .. Len(queue) :
                  IsStatus(queue[i]) => event.status <= queue[i].status)'
    <3> SUFFICES ASSUME IsStatus(queue[1])
                 PROVE  /\ last_status <= queue[1].status /\ queue[1].status <= lib.status
                        /\ \A i \in 1 .. Len(queue') :
                              IsStatus(queue'[i]) => queue[1].status <= queue'[i].status
      BY <2>0 DEF IsStatus
    <3>1. last_status <= queue[1].status /\ queue[1].status <= lib.status
      BY <2>0 DEF StatusesOrdered
    <3>2. ASSUME NEW i \in 1 .. Len(queue'), IsStatus(queue'[i])
          PROVE  queue[1].status <= queue'[i].status
      <4>1. i + 1 \in 1 .. Len(queue) /\ queue'[i] = queue[i + 1] /\ 1 < i + 1
        BY <2>1, <3>2
      <4> QED
        BY <2>0, <3>2, <4>1 DEF StatusesOrdered
    <3> QED
      BY <3>1, <3>2
  <2> QED
    BY <1>0, <2>0, <2>2, <2>3, <2>4, <2>5 DEF StatusesOrdered
<1>8. CASE Frees
  BY <1>0, <1>8, NoEventShape DEF Frees, StatusesOrdered, IsStatus
<1>9. CASE Resets
  <2>1. lib'.status = 0 /\ last_status' = 0 /\ Len(queue') = 0 /\ thread' = "none"
    BY <1>9 DEF Resets, LibDown
  <2>2. \A p \in Producers : waiting'[p].handler # "new_status"
    BY <1>9, NoEventShape DEF Resets
  <2>3. reboots' # reboots
    BY <1>0, <1>9 DEF Resets
  <2> QED
    BY <2>1, <2>2, <2>3 DEF StatusesOrdered
<1> QED
  BY <1>1, <1>2, <1>3, <1>4, <1>5, <1>6, <1>7, <1>8, <1>9 DEF Moves

-----------------------------------------------------------------------------
(* The library, the handle and the bounds. *)

\* The library before sid_init.
LEMMA LibDownType == LibDown \in LibStates /\ ~LibDown.up /\ ~LibDown.started /\ ~LibDown.work
  BY BoundsAssumption DEF LibDown, LibStates, Masks

\* sid_init and sid_start bring the library that is down up on the links of a mask.
Started(l, mask) ==
    \E start \in BOOLEAN :
        /\ lib' = [l EXCEPT !.up = TRUE, !.started = start, !.mask = mask]
        /\ lib'.started \in BOOLEAN /\ lib'.up = TRUE /\ lib'.mask = mask
        /\ lib'.work = l.work /\ lib'.resetting = l.resetting /\ lib'.status = l.status

\* What they return, in fields.
LEMMA StartOutcome ==
    ASSUME NEW l \in LibStates, ~l.up, NEW mask \in Masks, NEW start \in BOOLEAN,
           lib' = LibStart(LibInit(l, mask, TRUE), start)
    PROVE  Started(l, mask) /\ lib' \in LibStates
<1>1. LibInit(l, mask, TRUE) = [l EXCEPT !.up = TRUE, !.started = FALSE, !.mask = mask]
  BY DEF LibInit
<1>2. lib' = [l EXCEPT !.up = TRUE, !.started = start, !.mask = mask]
  BY <1>1 DEF LibStart, LibStates
<1> QED
  BY <1>2 DEF Started, LibStates

\* sidewalk_event_autostart: nothing, a failed sid_init, or a library that is up.
AutostartDoes ==
    \/ UNCHANGED <<handle, link_mask, flash_mask, lib>>
    \/ /\ handle = FALSE /\ link_mask' = StartMask
       /\ flash_mask' = IF flash_mask = Unset THEN DefaultMask ELSE flash_mask
       /\ \/ handle' = FALSE /\ UNCHANGED lib
          \/ handle' = TRUE /\ ~lib.up /\ Started(lib, StartMask) /\ lib' \in LibStates

\* A mask to start with.
LEMMA StartMaskType == TypeOK => StartMask \in Masks
  BY MaskAssumption DEF TypeOK, StartMask, Masks

\* It does one of these.
LEMMA AutostartOutcome == ASSUME TypeOK, sidewalk_event_autostart PROVE AutostartDoes
<1>1. PICK mfg \in BOOLEAN, init \in BOOLEAN, start \in BOOLEAN :
        IF handle \/ ~mfg
        THEN UNCHANGED <<handle, link_mask, flash_mask, lib>>
        ELSE /\ link_mask' = StartMask
             /\ flash_mask' = IF flash_mask = Unset THEN DefaultMask ELSE flash_mask
             /\ handle' = (init /\ ~lib.up)
             /\ lib' = IF handle'
                       THEN LibStart(LibInit(lib, link_mask', init), start)
                       ELSE lib
  BY SucceedsBoolean DEF sidewalk_event_autostart
<1>2. lib \in LibStates /\ handle \in BOOLEAN
  BY DEF TypeOK
<1>3. CASE handle \/ ~mfg
  BY <1>1, <1>3 DEF AutostartDoes
<1>4. CASE ~(handle \/ ~mfg)
  <2>1. /\ link_mask' = StartMask /\ handle = FALSE
        /\ flash_mask' = IF flash_mask = Unset THEN DefaultMask ELSE flash_mask
    BY <1>1, <1>2, <1>4
  <2>2. CASE init /\ ~lib.up
    <3>1. handle' = TRUE /\ lib' = LibStart(LibInit(lib, StartMask, TRUE), start)
      BY <1>1, <1>4, <2>2
    <3> QED
      BY <1>2, <2>1, <2>2, <3>1, StartOutcome, StartMaskType DEF AutostartDoes
  <2>3. CASE ~(init /\ ~lib.up)
    <3>1. handle' = FALSE /\ UNCHANGED lib
      BY <1>1, <1>4, <2>3
    <3> QED
      BY <2>1, <3>1 DEF AutostartDoes
  <2> QED
    BY <2>2, <2>3
<1> QED
  BY <1>3, <1>4

\* LinkRestart: the library is up on the new mask, or was only stopped, or not even that.
RestartDoes ==
    /\ handle' \in BOOLEAN /\ lib' \in LibStates
    /\ lib'.status = lib.status
    /\ \/ handle' = FALSE /\ ~DeinitWorks /\ lib' = lib
       \/ handle' = FALSE /\ ~lib'.up /\ ~lib'.started /\ ~lib'.work
       \/ /\ handle' = TRUE /\ lib'.up /\ lib'.mask = link_mask
          /\ lib'.work => lib.work /\ ~lib.up

\* It does one of these.
LEMMA RestartOutcome == ASSUME TypeOK, LibKnown, LinkRestart PROVE RestartDoes
<1>1. PICK deinit \in Succeeds("sid_deinit"), init \in BOOLEAN, start \in BOOLEAN :
        /\ handle' = (init /\ ~LibDeinit(deinit).up)
        /\ lib' = IF handle'
                  THEN LibStart(LibInit(LibDeinit(deinit), link_mask, init), start)
                  ELSE LibDeinit(deinit)
  BY SucceedsBoolean DEF LinkRestart
<1>2. lib \in LibStates /\ link_mask \in Masks
  BY DEF TypeOK
<1> DEFINE down == [LibDown EXCEPT !.status = lib.status]
<1>3. /\ down \in LibStates /\ ~down.up /\ ~down.started /\ ~down.work
      /\ down.status = lib.status
  BY <1>2, LibDownType DEF LibStates
<1> HIDE DEF down
<1>4. \/ LibDeinit(deinit) = down
      \/ LibDeinit(deinit) = lib /\ ~DeinitWorks
  BY DEF LibDeinit, DeinitWorks, Succeeds, down
<1> DEFINE l == LibDeinit(deinit)
<1>5. l \in LibStates /\ l.status = lib.status
  BY <1>2, <1>3, <1>4
<1>6. CASE init /\ ~l.up
  <2>1. handle' = TRUE /\ lib' = LibStart(LibInit(l, link_mask, TRUE), start)
    BY <1>1, <1>6
  <2>2. Started(l, link_mask) /\ lib' \in LibStates
    BY <1>2, <1>5, <1>6, <2>1, StartOutcome
  <2>3. lib'.work => lib.work /\ ~lib.up
    BY <1>3, <1>4, <1>6, <2>2 DEF Started
  <2> QED
    BY <1>5, <2>1, <2>2, <2>3 DEF Started, RestartDoes
<1>7. CASE ~(init /\ ~l.up)
  <2>1. handle' = FALSE /\ lib' = l
    BY <1>1, <1>7
  <2>2. \/ ~DeinitWorks /\ lib' = lib
        \/ ~lib'.up /\ ~lib'.started /\ ~lib'.work
    BY <1>3, <1>4, <2>1
  <2> QED
    BY <1>5, <2>1, <2>2 DEF RestartDoes
<1> QED
  BY <1>6, <1>7

LibTypes ==
    /\ lib \in LibStates
    /\ handle \in BOOLEAN
    /\ missed \in BOOLEAN

\* Every step keeps the library's state one.
LEMMA LibTypesStep == ASSUME TypeOK, LibKnown, Next PROVE LibTypes'
<1> USE SucceedsBoolean
   DEF LibTypes, TypeOK, LibStates, appVars, sidVars, memVars, libVars, boundVars
<1>1. CASE MainStart
  BY <1>1 DEF MainStart
<1>2. CASE MainSend
  BY <1>2 DEF MainSend
<1>3. CASE app_btn_send_msg
  BY <1>3 DEF app_btn_send_msg, Press, MessageHeap
<1>4. CASE app_btn_request
  BY <1>4 DEF app_btn_request, Press
<1>5. CASE on_sidewalk_event_isr
  BY <1>5 DEF on_sidewalk_event_isr, LibEvent, RequestProcess
<1>6. CASE on_sidewalk_event_thread
  BY <1>6 DEF on_sidewalk_event_thread, LibEvent
<1>7. ASSUME NEW p \in Producers, SendTimeout(p) PROVE LibTypes'
  BY <1>7 DEF SendTimeout, FreeUnsent
<1>8. CASE ThreadGet
  BY <1>8 DEF ThreadGet
<1>9. CASE sidewalk_event_platform_init
  BY <1>9 DEF sidewalk_event_platform_init, Handling, Return, OutsideThread
<1>10. CASE sidewalk_event_autostart
  <2>1. UNCHANGED missed
    BY <1>10 DEF sidewalk_event_autostart
  <2> QED
    BY <1>10, <2>1, AutostartOutcome DEF AutostartDoes
<1>11. CASE sidewalk_event_process
  BY <1>11 DEF sidewalk_event_process, Handling, Return, OutsideThread, SidProcess
<1>12. CASE sidewalk_event_factory_reset
  <2>1. UNCHANGED handle
    BY <1>12 DEF sidewalk_event_factory_reset
  <2>2. missed' \in BOOLEAN
    BY <1>12 DEF sidewalk_event_factory_reset, RequestProcess
  <2>3. lib' \in LibStates
    BY <1>12 DEF sidewalk_event_factory_reset
  <2> QED
    BY <2>1, <2>2, <2>3
<1>13. CASE sidewalk_event_new_status
  BY <1>13 DEF sidewalk_event_new_status, Handling, Return, OutsideThread, NewStatus
<1>14. CASE sidewalk_event_send_msg
  BY <1>14 DEF sidewalk_event_send_msg, Handling, Return, OutsideThread
<1>15. CASE sidewalk_event_connect
  BY <1>15 DEF sidewalk_event_connect, Handling, Return, OutsideThread
<1>16. CASE sidewalk_event_link_switch
  BY <1>16
     DEF sidewalk_event_link_switch, Handling, Return, OutsideThread, SidProcess, SavedMask
<1>17. CASE ProcessReturn
  BY <1>17 DEF ProcessReturn, OutsideThread
<1>18. CASE LinkRestart
  <2>1. missed' = FALSE
    BY <1>18 DEF LinkRestart
  <2> QED
    BY <1>18, <2>1, RestartOutcome DEF RestartDoes
<1>19. CASE ThreadFree
  BY <1>19 DEF ThreadFree
<1>20. CASE on_sidewalk_factory_reset
  BY <1>20, LibDownType DEF on_sidewalk_factory_reset, Callback, Reboot
<1>21. CASE on_sidewalk_status_changed
  <2>1. lib' = [lib EXCEPT !.status = lib.status + 1] /\ UNCHANGED <<handle, missed>>
    BY <1>21 DEF on_sidewalk_status_changed
  <2>2. lib.status + 1 \in 0 .. MaxStimuli
    BY <1>21, BoundsAssumption DEF on_sidewalk_status_changed, LibKnown
  <2> QED
    BY <2>1, <2>2
<1>22. CASE on_sidewalk_msg_received
  BY <1>22 DEF on_sidewalk_msg_received, Callback, EchoHeap
<1>23. CASE PowerCycle
  BY <1>23, LibDownType DEF PowerCycle, Reboot
<1> QED
  BY <1>1, <1>2, <1>3, <1>4, <1>5, <1>6, <1>7, <1>8, <1>9, <1>10, <1>11, <1>12, <1>13,
     <1>14, <1>15, <1>16, <1>17, <1>18, <1>19, <1>20, <1>21, <1>22, <1>23
     DEF Next, Thread, Handler

MaskTypes == link_mask \in Masks /\ flash_mask \in Masks \cup {Unset}

\* Every step keeps the masks masks.
LEMMA MaskTypesStep == ASSUME TypeOK, Next PROVE MaskTypes'
<1> USE MaskAssumption DEF MaskTypes, TypeOK, Masks, Unset, sidVars
<1>1. CASE MainStart
  BY <1>1 DEF MainStart
<1>2. CASE MainSend
  BY <1>2 DEF MainSend
<1>3. CASE app_btn_send_msg
  BY <1>3 DEF app_btn_send_msg, Press, MessageHeap
<1>4. CASE app_btn_request
  BY <1>4 DEF app_btn_request, Press
<1>5. CASE on_sidewalk_event_isr
  BY <1>5 DEF on_sidewalk_event_isr, LibEvent, RequestProcess
<1>6. CASE on_sidewalk_event_thread
  BY <1>6 DEF on_sidewalk_event_thread, LibEvent
<1>7. ASSUME NEW p \in Producers, SendTimeout(p) PROVE MaskTypes'
  BY <1>7 DEF SendTimeout, FreeUnsent
<1>8. CASE ThreadGet
  BY <1>8 DEF ThreadGet
<1>9. CASE sidewalk_event_platform_init
  BY <1>9 DEF sidewalk_event_platform_init, Handling, Return, OutsideThread
<1>10. CASE sidewalk_event_autostart
  BY <1>10 DEF sidewalk_event_autostart, Handling, Return, OutsideThread, StartMask
<1>11. CASE sidewalk_event_process
  BY <1>11 DEF sidewalk_event_process, Handling, Return, OutsideThread, SidProcess
<1>12. CASE sidewalk_event_factory_reset
  BY <1>12 DEF sidewalk_event_factory_reset, Handling, Return, RequestProcess
<1>13. CASE sidewalk_event_new_status
  BY <1>13 DEF sidewalk_event_new_status, Handling, Return, OutsideThread, NewStatus
<1>14. CASE sidewalk_event_send_msg
  BY <1>14 DEF sidewalk_event_send_msg, Handling, Return, OutsideThread
<1>15. CASE sidewalk_event_connect
  BY <1>15 DEF sidewalk_event_connect, Handling, Return, OutsideThread
<1>16. CASE sidewalk_event_link_switch
  BY <1>16
     DEF sidewalk_event_link_switch, Handling, Return, OutsideThread, SidProcess, SavedMask,
         NextMask
<1>17. CASE ProcessReturn
  BY <1>17 DEF ProcessReturn, OutsideThread
<1>18. CASE LinkRestart
  BY <1>18 DEF LinkRestart, Return, OutsideThread
<1>19. CASE ThreadFree
  BY <1>19 DEF ThreadFree
<1>20. CASE on_sidewalk_factory_reset
  BY <1>20 DEF on_sidewalk_factory_reset, Callback, Reboot
<1>21. CASE on_sidewalk_status_changed
  BY <1>21 DEF on_sidewalk_status_changed, Callback
<1>22. CASE on_sidewalk_msg_received
  BY <1>22 DEF on_sidewalk_msg_received, Callback, EchoHeap
<1>23. CASE PowerCycle
  BY <1>23 DEF PowerCycle, Reboot
<1> QED
  BY <1>1, <1>2, <1>3, <1>4, <1>5, <1>6, <1>7, <1>8, <1>9, <1>10, <1>11, <1>12, <1>13,
     <1>14, <1>15, <1>16, <1>17, <1>18, <1>19, <1>20, <1>21, <1>22, <1>23
     DEF Next, Thread, Handler

OtherTypes ==
    /\ main \in {"start", "platform_init", "autostart", "done"}
    /\ thread \in {"none", "idle", "handle", "sid_process", "restart", "free"}
    /\ stimuli \in 0 .. MaxStimuli /\ reboots \in 0 .. MaxReboots

\* Every step keeps the bounds.
LEMMA OtherTypesStep == ASSUME TypeOK, Next PROVE OtherTypes'
<1> USE BoundsAssumption DEF OtherTypes, TypeOK, appVars, sidVars, memVars, libVars, boundVars
<1>1. CASE MainStart
  BY <1>1 DEF MainStart
<1>2. CASE MainSend
  BY <1>2 DEF MainSend
<1>3. CASE app_btn_send_msg
  BY <1>3 DEF app_btn_send_msg, Press, MessageHeap
<1>4. CASE app_btn_request
  BY <1>4 DEF app_btn_request, Press
<1>5. CASE on_sidewalk_event_isr
  BY <1>5 DEF on_sidewalk_event_isr, LibEvent, RequestProcess
<1>6. CASE on_sidewalk_event_thread
  BY <1>6 DEF on_sidewalk_event_thread, LibEvent
<1>7. ASSUME NEW p \in Producers, SendTimeout(p) PROVE OtherTypes'
  BY <1>7 DEF SendTimeout, FreeUnsent
<1>8. CASE ThreadGet
  BY <1>8 DEF ThreadGet
<1>9. CASE sidewalk_event_platform_init
  BY <1>9 DEF sidewalk_event_platform_init, Handling, Return, OutsideThread
<1>10. CASE sidewalk_event_autostart
  BY <1>10 DEF sidewalk_event_autostart, Handling, Return, OutsideThread
<1>11. CASE sidewalk_event_process
  BY <1>11 DEF sidewalk_event_process, Handling, Return, OutsideThread, SidProcess
<1>12. CASE sidewalk_event_factory_reset
  BY <1>12 DEF sidewalk_event_factory_reset, Handling, Return, RequestProcess
<1>13. CASE sidewalk_event_new_status
  BY <1>13 DEF sidewalk_event_new_status, Handling, Return, OutsideThread, NewStatus
<1>14. CASE sidewalk_event_send_msg
  BY <1>14 DEF sidewalk_event_send_msg, Handling, Return, OutsideThread
<1>15. CASE sidewalk_event_connect
  BY <1>15 DEF sidewalk_event_connect, Handling, Return, OutsideThread
<1>16. CASE sidewalk_event_link_switch
  BY <1>16
     DEF sidewalk_event_link_switch, Handling, Return, OutsideThread, SidProcess, SavedMask
<1>17. CASE ProcessReturn
  BY <1>17 DEF ProcessReturn, OutsideThread
<1>18. CASE LinkRestart
  BY <1>18 DEF LinkRestart, Return, OutsideThread
<1>19. CASE ThreadFree
  BY <1>19 DEF ThreadFree
<1>20. CASE on_sidewalk_factory_reset
  BY <1>20 DEF on_sidewalk_factory_reset, Callback, Reboot
<1>21. CASE on_sidewalk_status_changed
  BY <1>21 DEF on_sidewalk_status_changed, Callback
<1>22. CASE on_sidewalk_msg_received
  BY <1>22 DEF on_sidewalk_msg_received, Callback, EchoHeap
<1>23. CASE PowerCycle
  BY <1>23 DEF PowerCycle, Reboot
<1> QED
  BY <1>1, <1>2, <1>3, <1>4, <1>5, <1>6, <1>7, <1>8, <1>9, <1>10, <1>11, <1>12, <1>13,
     <1>14, <1>15, <1>16, <1>17, <1>18, <1>19, <1>20, <1>21, <1>22, <1>23
     DEF Next, Thread, Handler

\* Every step leaves what the thread knows of the library true.
LEMMA LibKnownStep == ASSUME TypeOK, LibKnown, Next PROVE LibKnown'
<1> USE SucceedsBoolean, BoundsAssumption
   DEF LibKnown, TypeOK, LibStates, appVars, sidVars, memVars, libVars, boundVars
<1>1. CASE MainStart
  BY <1>1 DEF MainStart
<1>2. CASE MainSend
  BY <1>2 DEF MainSend
<1>3. CASE app_btn_send_msg
  BY <1>3 DEF app_btn_send_msg, Press, MessageHeap
<1>4. CASE app_btn_request
  BY <1>4 DEF app_btn_request, Press
<1>5. CASE on_sidewalk_event_isr
  BY <1>5 DEF on_sidewalk_event_isr, LibEvent, RequestProcess
<1>6. CASE on_sidewalk_event_thread
  BY <1>6 DEF on_sidewalk_event_thread, LibEvent
<1>7. ASSUME NEW p \in Producers, SendTimeout(p) PROVE LibKnown'
  BY <1>7 DEF SendTimeout, FreeUnsent
<1>8. CASE ThreadGet
  BY <1>8 DEF ThreadGet
<1>9. CASE sidewalk_event_platform_init
  BY <1>9 DEF sidewalk_event_platform_init, Handling, Return, OutsideThread
<1>10. CASE sidewalk_event_autostart
  <2>1. UNCHANGED stimuli
    BY <1>10 DEF sidewalk_event_autostart, OutsideThread
  <2>2. CASE UNCHANGED <<handle, lib>>
    BY <2>1, <2>2
  <2>3. CASE handle' = FALSE /\ UNCHANGED lib
    BY <2>1, <2>3
  <2>4. CASE ~lib.up /\ Started(lib, StartMask)
    <3>1. lib'.up = TRUE /\ lib'.status = lib.status
      BY <2>4 DEF Started
    <3> QED
      BY <2>1, <3>1
  <2> QED
    BY <1>10, <2>2, <2>3, <2>4, AutostartOutcome DEF AutostartDoes
<1>11. CASE sidewalk_event_process
  BY <1>11 DEF sidewalk_event_process, Handling, Return, OutsideThread, SidProcess
<1>12. CASE sidewalk_event_factory_reset
  BY <1>12 DEF sidewalk_event_factory_reset, Handling, Return, RequestProcess
<1>13. CASE sidewalk_event_new_status
  BY <1>13 DEF sidewalk_event_new_status, Handling, Return, OutsideThread, NewStatus
<1>14. CASE sidewalk_event_send_msg
  BY <1>14 DEF sidewalk_event_send_msg, Handling, Return, OutsideThread
<1>15. CASE sidewalk_event_connect
  BY <1>15 DEF sidewalk_event_connect, Handling, Return, OutsideThread
<1>16. CASE sidewalk_event_link_switch
  BY <1>16
     DEF sidewalk_event_link_switch, Handling, Return, OutsideThread, SidProcess, SavedMask
<1>17. CASE ProcessReturn
  BY <1>17 DEF ProcessReturn, OutsideThread
<1>18. CASE LinkRestart
  <2>1. UNCHANGED stimuli
    BY <1>18 DEF LinkRestart, OutsideThread
  <2> QED
    BY <1>18, <2>1, RestartOutcome DEF RestartDoes
<1>19. CASE ThreadFree
  BY <1>19 DEF ThreadFree
<1>20. CASE on_sidewalk_factory_reset
  BY <1>20, LibDownType DEF on_sidewalk_factory_reset, Callback, Reboot, LibDown
<1>21. CASE on_sidewalk_status_changed
  BY <1>21 DEF on_sidewalk_status_changed, Callback
<1>22. CASE on_sidewalk_msg_received
  BY <1>22 DEF on_sidewalk_msg_received, Callback, EchoHeap
<1>23. CASE PowerCycle
  BY <1>23, LibDownType DEF PowerCycle, Reboot, LibDown
<1> QED
  BY <1>1, <1>2, <1>3, <1>4, <1>5, <1>6, <1>7, <1>8, <1>9, <1>10, <1>11, <1>12, <1>13,
     <1>14, <1>15, <1>16, <1>17, <1>18, <1>19, <1>20, <1>21, <1>22, <1>23
     DEF Next, Thread, Handler

\* Every step keeps the types.
LEMMA TypeOKStep ==
    ASSUME TypeOK, LibKnown, LoopKnown, StatusesOrdered, StatusesOrdered', Next
    PROVE  TypeOK'
<1>1. QueueTypes' /\ LibTypes' /\ MaskTypes' /\ OtherTypes'
  BY StepMoves, QueueTypesStep, LibTypesStep, MaskTypesStep, OtherTypesStep
<1>2. last_status' \in 0 .. MaxStimuli
  <2>1. last_status' <= lib'.status /\ lib'.status <= MaxStimuli
    BY <1>1 DEF StatusesOrdered, LibTypes, LibStates
  <2>2. last_status' \in Nat
    BY StepMoves, BoundsAssumption
       DEF Moves, Keeps, Applies, Requests, Messages, Reports, GivesUp, Gets, Frees, Resets,
           Calm, TypeOK, NewStatus, Events, NoEvent
  <2> QED
    BY <1>1, <2>1, <2>2, BoundsAssumption DEF LibTypes, LibStates
<1> QED
  BY <1>1, <1>2 DEF TypeOK, QueueTypes, LibTypes, MaskTypes, OtherTypes

\* With a sid_deinit that works every step keeps the handle and the library together.
LEMMA HandleStep ==
    ASSUME DeinitWorks, TypeOK, LibKnown, HandleIffUp, Next PROVE HandleIffUp'
<1> USE SucceedsBoolean
   DEF HandleIffUp, TypeOK, LibStates, appVars, sidVars, memVars, libVars, boundVars
<1>1. CASE MainStart
  BY <1>1 DEF MainStart
<1>2. CASE MainSend
  BY <1>2 DEF MainSend
<1>3. CASE app_btn_send_msg
  BY <1>3 DEF app_btn_send_msg, Press, MessageHeap
<1>4. CASE app_btn_request
  BY <1>4 DEF app_btn_request, Press
<1>5. CASE on_sidewalk_event_isr
  BY <1>5 DEF on_sidewalk_event_isr, LibEvent, RequestProcess
<1>6. CASE on_sidewalk_event_thread
  BY <1>6 DEF on_sidewalk_event_thread, LibEvent
<1>7. ASSUME NEW p \in Producers, SendTimeout(p) PROVE HandleIffUp'
  BY <1>7 DEF SendTimeout, FreeUnsent
<1>8. CASE ThreadGet
  BY <1>8 DEF ThreadGet
<1>9. CASE sidewalk_event_platform_init
  BY <1>9 DEF sidewalk_event_platform_init, Handling, Return, OutsideThread
<1>10. CASE sidewalk_event_autostart
  BY <1>10, AutostartOutcome DEF AutostartDoes, Started
<1>11. CASE sidewalk_event_process
  BY <1>11 DEF sidewalk_event_process, Handling, Return, OutsideThread, SidProcess
<1>12. CASE sidewalk_event_factory_reset
  BY <1>12 DEF sidewalk_event_factory_reset, Handling, Return, RequestProcess
<1>13. CASE sidewalk_event_new_status
  BY <1>13 DEF sidewalk_event_new_status, Handling, Return, OutsideThread, NewStatus
<1>14. CASE sidewalk_event_send_msg
  BY <1>14 DEF sidewalk_event_send_msg, Handling, Return, OutsideThread
<1>15. CASE sidewalk_event_connect
  BY <1>15 DEF sidewalk_event_connect, Handling, Return, OutsideThread
<1>16. CASE sidewalk_event_link_switch
  BY <1>16
     DEF sidewalk_event_link_switch, Handling, Return, OutsideThread, SidProcess, SavedMask
<1>17. CASE ProcessReturn
  BY <1>17 DEF ProcessReturn, OutsideThread
<1>18. CASE LinkRestart
  BY <1>18, RestartOutcome DEF RestartDoes, DeinitWorks
<1>19. CASE ThreadFree
  BY <1>19 DEF ThreadFree
<1>20. CASE on_sidewalk_factory_reset
  BY <1>20, LibDownType DEF on_sidewalk_factory_reset, Callback, Reboot
<1>21. CASE on_sidewalk_status_changed
  BY <1>21 DEF on_sidewalk_status_changed, Callback
<1>22. CASE on_sidewalk_msg_received
  BY <1>22 DEF on_sidewalk_msg_received, Callback, EchoHeap
<1>23. CASE PowerCycle
  BY <1>23, LibDownType DEF PowerCycle, Reboot
<1> QED
  BY <1>1, <1>2, <1>3, <1>4, <1>5, <1>6, <1>7, <1>8, <1>9, <1>10, <1>11, <1>12, <1>13,
     <1>14, <1>15, <1>16, <1>17, <1>18, <1>19, <1>20, <1>21, <1>22, <1>23
     DEF Next, Thread, Handler

-----------------------------------------------------------------------------
(* Requests for sid_process. *)

\* A request that is queued or with a producer that waits.
QueuePending ==
    \/ \E i \in 1 .. Len(queue) : queue[i].handler \in {"process", "link_switch"}
    \/ \E p \in Producers : waiting[p].handler = "process"

\* The request of ProcessPending is such a one or the thread has it.
LEMMA PendingParts ==
    TypeOK => (ProcessPending <=> \/ QueuePending
                                  \/ /\ thread = "handle"
                                     /\ event.handler \in {"process", "link_switch"})
<1> SUFFICES ASSUME TypeOK
             PROVE  ProcessPending <=> \/ QueuePending
                                       \/ /\ thread = "handle"
                                          /\ event.handler \in {"process", "link_switch"}
  OBVIOUS
<1>1. DOMAIN queue = 1 .. Len(queue)
  BY LenProperties DEF TypeOK
<1> QED
  BY <1>1 DEF ProcessPending, QueuePending

\* A put and a producer that waits keep the requests there are, and add theirs.
LEMMA PutPending ==
    ASSUME TypeOK, NEW e \in Events, Puts(e)
    PROVE  QueuePending' <=> QueuePending \/ e.handler \in {"process", "link_switch"}
<1>1. Len(queue) \in Nat
  BY LenProperties DEF TypeOK
<1> QED
  BY <1>1 DEF Puts, QueuePending

\* The same for a producer that waits.
LEMMA WaitPending ==
    ASSUME TypeOK, NEW p \in Producers, NEW e \in Events, Waits(p, e)
    PROVE  (QueuePending \/ e.handler = "process") => QueuePending'
<1>1. \A q \in Producers : q # p => waiting'[q] = waiting[q]
  BY DEF Waits, TypeOK
<1>2. waiting'[p] = e /\ waiting[p].handler # "process"
  BY NoEventShape DEF Waits, TypeOK
<1>3. UNCHANGED queue
  BY DEF Waits
<1> QED
  BY <1>1, <1>2, <1>3 DEF QueuePending

\* What SendOrWait does to them.
LEMMA SendOrWaitPending ==
    ASSUME TypeOK, NEW p \in Producers, NEW e \in Events, SendOrWait(p, e)
    PROVE  (QueuePending \/ e.handler = "process") => QueuePending'
  BY SendOrWaitDoes, PutPending, WaitPending

\* What SendOrDrop does to them.
LEMMA SendOrDropPending ==
    ASSUME TypeOK, NEW e \in Events, SendOrDrop(e)
    PROVE  /\ QueuePending => QueuePending'
           /\ Room /\ e.handler = "process" => QueuePending'
<1>1. CASE Room /\ Puts(e)
  BY <1>1, PutPending
<1>2. CASE ~Room /\ UNCHANGED <<queue, waiting>>
  BY <1>2 DEF QueuePending
<1> QED
  BY <1>1, <1>2, SendOrDropDoes

\* Taking an event keeps the others.
LEMMA GetPending ==
    ASSUME TypeOK, ThreadGet, ProcessPending PROVE ProcessPending'
<1>0. Takes /\ thread = "idle" /\ thread' = "handle" /\ Len(queue) \in Nat
  BY GetTakes, LenProperties DEF ThreadGet, TypeOK
<1>1. TypeOK' \/ ~TypeOK'
  OBVIOUS
<1>2. queue' \in Seq(Events) /\ DOMAIN queue' = 1 .. Len(queue') /\ DOMAIN queue = 1 .. Len(queue)
  BY <1>0, LenProperties DEF Takes, TypeOK
<1>3. ASSUME NEW i \in 1 .. Len(queue), queue[i].handler \in {"process", "link_switch"}
      PROVE  ProcessPending'
  <2>1. CASE i = 1
    BY <1>0, <1>3, <2>1 DEF Takes, ProcessPending
  <2>2. CASE i # 1
    <3>1. i - 1 \in 1 .. Len(queue') /\ queue'[i - 1] = queue[i]
      BY <1>0, <2>2 DEF Takes
    <3> QED
      BY <1>2, <1>3, <3>1 DEF ProcessPending
  <2> QED
    BY <2>1, <2>2
<1>4. ASSUME NEW p \in Producers, waiting[p].handler = "process" PROVE ProcessPending'
  <2>1. CASE waiting'[p] = waiting[p]
    BY <1>4, <2>1 DEF ProcessPending
  <2>2. CASE waiting'[p] # waiting[p]
    <3>1. Len(queue') = Len(queue) /\ queue'[Len(queue)] = waiting[p]
      BY <1>0, <2>2 DEF Takes, TypeOK
    <3>2. Len(queue) \in 1 .. Len(queue')
      BY <1>0, <3>1 DEF Takes
    <3> QED
      BY <1>2, <1>4, <3>1, <3>2 DEF ProcessPending
  <2> QED
    BY <2>1, <2>2
<1> QED
  BY <1>0, <1>2, <1>3, <1>4 DEF ProcessPending

\* Every step leaves the library's work to a request, or has lost one.
LEMMA WorkStep ==
    ASSUME TypeOK, TypeOK', LibKnown, LoopKnown, WorkIsScheduled, Next PROVE WorkIsScheduled'
<1>0. ASSUME NEW h \in Handlers
      PROVE  NewEvent(h, {}, 0) \in Events /\ NewEvent(h, {}, 0).handler = h
  BY NewEventType, BoundsAssumption
<1> DEFINE Mine == thread = "handle" /\ event.handler \in {"process", "link_switch"}
<1>p. /\ ProcessPending <=> QueuePending \/ Mine
      /\ (ProcessPending <=> QueuePending \/ Mine)'
  <2>1. DOMAIN queue' = 1 .. Len(queue')
    BY LenProperties DEF TypeOK
  <2> QED
    BY <2>1, PendingParts DEF ProcessPending, QueuePending
<1> USE DEF LibStates, WorkIsScheduled, appVars, sidVars, memVars, libVars, boundVars
<1>s. UNCHANGED <<queue, waiting>> => (QueuePending' <=> QueuePending)
  BY DEF QueuePending
<1>1. CASE MainStart
  <2>1. UNCHANGED <<lib, handle, missed>> /\ (Mine => Mine')
    BY <1>1 DEF MainStart, LoopKnown
  <2>2. QueuePending => QueuePending'
    BY <1>1, <1>s DEF MainStart
  <2> QED
    BY <1>p, <2>1, <2>2
<1>2. CASE MainSend
  <2>1. UNCHANGED <<lib, handle, missed>> /\ (Mine => Mine')
    BY <1>2 DEF MainSend
  <2>2. main \in Handlers /\ SendOrWait("main", NewEvent(main, {}, 0))
    BY <1>2 DEF MainSend, Handlers
  <2>3. QueuePending => QueuePending'
    BY <1>0, <2>2, SendOrWaitPending DEF Producers
  <2> QED
    BY <1>p, <2>1, <2>3
<1>3. CASE app_btn_send_msg
  <2>1. UNCHANGED <<lib, handle, missed>> /\ (Mine => Mine')
    BY <1>3 DEF app_btn_send_msg
  <2>2. NewEvent("send_msg", MessageBlocks, 0) \in Events
    BY MessageBlocksFree, NewEventType, BoundsAssumption DEF Handlers
  <2>3. \/ UNCHANGED <<queue, waiting>>
        \/ SendOrWait("buttons", NewEvent("send_msg", MessageBlocks, 0))
    BY <1>3 DEF app_btn_send_msg
  <2>4. QueuePending => QueuePending'
    BY <1>s, <2>2, <2>3, SendOrWaitPending DEF Producers
  <2> QED
    BY <1>p, <2>1, <2>4
<1>4. CASE app_btn_request
  <2>1. UNCHANGED <<lib, handle, missed>> /\ (Mine => Mine')
    BY <1>4 DEF app_btn_request
  <2>2. PICK h \in Handlers : SendOrWait("buttons", NewEvent(h, {}, 0))
    BY <1>4 DEF app_btn_request, Handlers
  <2>3. QueuePending => QueuePending'
    BY <1>0, <2>2, SendOrWaitPending DEF Producers
  <2> QED
    BY <1>p, <2>1, <2>3
<1>5. CASE on_sidewalk_event_isr
  <2>1. SendOrDrop(NewEvent("process", {}, 0)) /\ (missed' <=> missed \/ ~Room)
    BY <1>5 DEF on_sidewalk_event_isr, RequestProcess
  <2>2. Room => QueuePending'
    BY <1>0, <2>1, SendOrDropPending DEF Handlers
  <2> QED
    BY <1>p, <2>1, <2>2
<1>6. CASE on_sidewalk_event_thread
  <2>1. SendOrWait("bt", NewEvent("process", {}, 0))
    BY <1>6 DEF on_sidewalk_event_thread
  <2>2. QueuePending'
    BY <1>0, <2>1, SendOrWaitPending DEF Handlers, Producers
  <2> QED
    BY <1>p, <2>2
<1>7. ASSUME NEW p \in Producers, SendTimeout(p) PROVE WorkIsScheduled'
  <2>1. /\ UNCHANGED <<lib, handle, queue>> /\ (Mine => Mine')
        /\ missed' <=> missed \/ waiting[p].handler = "process"
        /\ waiting' = [waiting EXCEPT ![p] = NoEvent]
    BY <1>7 DEF SendTimeout
  <2>2. waiting[p].handler # "process" => (QueuePending => QueuePending')
    BY <2>1 DEF QueuePending, TypeOK
  <2> QED
    BY <1>p, <2>1, <2>2
<1>8. CASE ThreadGet
  <2>1. UNCHANGED <<lib, handle, missed>>
    BY <1>8 DEF ThreadGet
  <2> QED
    BY <1>8, <2>1, GetPending
<1>9. CASE sidewalk_event_platform_init
  <2>1. UNCHANGED <<lib, handle, missed>> /\ (Mine => Mine')
    BY <1>9 DEF sidewalk_event_platform_init, Handling, Return, OutsideThread
  <2>2. QueuePending => QueuePending'
    BY <1>9, <1>s DEF sidewalk_event_platform_init, Handling, Return, OutsideThread
  <2> QED
    BY <1>p, <2>1, <2>2
<1>10. CASE sidewalk_event_autostart
  <2>1. UNCHANGED <<queue, waiting, missed>> /\ ~Mine
    BY <1>10 DEF sidewalk_event_autostart, OutsideThread, Handling
  <2>2. CASE UNCHANGED <<handle, lib>>
    BY <1>p, <1>s, <2>1, <2>2
  <2>3. CASE handle' = FALSE
    BY <2>3
  <2>4. CASE ~lib.up /\ Started(lib, StartMask)
    BY <2>4 DEF Started, LibKnown, TypeOK
  <2> QED
    BY <1>10, <2>2, <2>3, <2>4, AutostartOutcome DEF AutostartDoes
<1>11. CASE sidewalk_event_process
  <2>1. CASE handle
    BY <1>11, <2>1 DEF sidewalk_event_process, SidProcess, TypeOK
  <2>2. CASE ~handle
    BY <1>11, <2>2 DEF sidewalk_event_process
  <2> QED
    BY <2>1, <2>2
<1>12. CASE sidewalk_event_factory_reset
  <2>1. ~Mine /\ UNCHANGED handle
    BY <1>12 DEF sidewalk_event_factory_reset, Handling
  <2>2. CASE RequestProcess
    <3>1. SendOrDrop(NewEvent("process", {}, 0)) /\ (missed' <=> missed \/ ~Room)
      BY <2>2 DEF RequestProcess
    <3>2. Room => QueuePending'
      BY <1>0, <3>1, SendOrDropPending DEF Handlers
    <3> QED
      BY <1>p, <3>1, <3>2
  <2>3. CASE UNCHANGED <<queue, waiting, missed>> /\ lib'.work = lib.work
    BY <1>p, <1>s, <2>1, <2>3
  <2>4. lib'.work = lib.work \/ RequestProcess
    BY <1>12, SucceedsBoolean DEF sidewalk_event_factory_reset, TypeOK
  <2> QED
    BY <1>12, <2>2, <2>3, <2>4 DEF sidewalk_event_factory_reset
<1>13. CASE sidewalk_event_new_status
  <2>1. UNCHANGED <<lib, handle, missed>> /\ (Mine => Mine')
    BY <1>13 DEF sidewalk_event_new_status, Handling, Return, OutsideThread, NewStatus
  <2>2. QueuePending => QueuePending'
    BY <1>13, <1>s DEF sidewalk_event_new_status, Handling, Return, OutsideThread, NewStatus
  <2> QED
    BY <1>p, <2>1, <2>2
<1>14. CASE sidewalk_event_send_msg
  <2>1. UNCHANGED <<lib, handle, missed>> /\ (Mine => Mine')
    BY <1>14 DEF sidewalk_event_send_msg, Handling, Return, OutsideThread
  <2>2. QueuePending => QueuePending'
    BY <1>14, <1>s DEF sidewalk_event_send_msg, Handling, Return, OutsideThread
  <2> QED
    BY <1>p, <2>1, <2>2
<1>15. CASE sidewalk_event_connect
  <2>1. UNCHANGED <<lib, handle, missed>> /\ (Mine => Mine')
    BY <1>15 DEF sidewalk_event_connect, Handling, Return, OutsideThread
  <2>2. QueuePending => QueuePending'
    BY <1>15, <1>s DEF sidewalk_event_connect, Handling, Return, OutsideThread
  <2> QED
    BY <1>p, <2>1, <2>2
<1>16. CASE sidewalk_event_link_switch
  <2>1. CASE handle
    BY <1>16, <2>1 DEF sidewalk_event_link_switch, SidProcess, TypeOK
  <2>2. CASE ~handle
    BY <1>16, <2>2 DEF sidewalk_event_link_switch
  <2> QED
    BY <2>1, <2>2
<1>17. CASE ProcessReturn
  <2>1. UNCHANGED <<lib, handle, missed>> /\ (Mine => Mine')
    BY <1>17 DEF ProcessReturn, OutsideThread
  <2>2. QueuePending => QueuePending'
    BY <1>17, <1>s DEF ProcessReturn, OutsideThread
  <2> QED
    BY <1>p, <2>1, <2>2
<1>18. CASE LinkRestart
  BY <1>18, RestartOutcome DEF RestartDoes, LibKnown
<1>19. CASE ThreadFree
  <2>1. UNCHANGED <<lib, handle, missed>> /\ (Mine => Mine')
    BY <1>19 DEF ThreadFree
  <2>2. QueuePending => QueuePending'
    BY <1>19, <1>s DEF ThreadFree
  <2> QED
    BY <1>p, <2>1, <2>2
<1>20. CASE on_sidewalk_factory_reset
  BY <1>20 DEF on_sidewalk_factory_reset, Callback, Reboot
<1>21. CASE on_sidewalk_status_changed
  <2>1. UNCHANGED <<handle, missed>> /\ lib'.work = lib.work /\ (Mine => Mine')
    BY <1>21 DEF on_sidewalk_status_changed, TypeOK
  <2> DEFINE new == IF FreeBlocks = {} THEN {} ELSE {SomeFreeBlock}
             e == NewEvent("new_status", new, IF new = {} THEN 0 ELSE lib.status + 1)
  <2>2. lib.status + 1 \in 0 .. MaxStimuli
    BY <1>21, BoundsAssumption DEF on_sidewalk_status_changed, LibKnown, TypeOK
  <2>3. e \in Events
    BY <2>2, FreeBlockIsFree, NewEventType, BoundsAssumption DEF Handlers
  <2>4. SendOrDrop(e)
    BY <1>21 DEF on_sidewalk_status_changed
  <2>5. QueuePending => QueuePending'
    BY <2>3, <2>4, SendOrDropPending
  <2> QED
    BY <1>p, <2>1, <2>5
<1>22. CASE on_sidewalk_msg_received
  <2>1. UNCHANGED <<lib, handle, missed>> /\ (Mine => Mine')
    BY <1>22 DEF on_sidewalk_msg_received
  <2>2. NewEvent("send_msg", MessageBlocks, 0) \in Events
    BY MessageBlocksFree, NewEventType, BoundsAssumption DEF Handlers
  <2>3. \/ UNCHANGED <<queue, waiting>>
        \/ SendOrDrop(NewEvent("send_msg", MessageBlocks, 0))
    BY <1>22 DEF on_sidewalk_msg_received
  <2>4. QueuePending => QueuePending'
    BY <1>s, <2>2, <2>3, SendOrDropPending
  <2> QED
    BY <1>p, <2>1, <2>4
<1>23. CASE PowerCycle
  BY <1>23 DEF PowerCycle, Reboot
<1> QED
  BY <1>1, <1>2, <1>3, <1>4, <1>5, <1>6, <1>7, <1>8, <1>9, <1>10, <1>11, <1>12, <1>13,
     <1>14, <1>15, <1>16, <1>17, <1>18, <1>19, <1>20, <1>21, <1>22, <1>23
     DEF Next, Thread, Handler

-----------------------------------------------------------------------------
(* The links. *)

\* Saving the default mask does not change what a restart uses.
LEMMA DefaultSaved ==
    ASSUME flash_mask' = IF flash_mask = Unset THEN DefaultMask ELSE flash_mask
    PROVE  StartMask' = StartMask
  BY MaskAssumption DEF StartMask, Unset

\* Every step keeps what a restart uses and what the library runs on the same, outside
\* link switches and factory resets.
LEMMA LinksStep ==
    ASSUME DeinitWorks, SettingsWork, TypeOK, LoopKnown, LibKnown, HandleIffUp, LinksKnown, Next
    PROVE  LinksKnown'
<1> USE
   DEF LinksKnown, RestartsOnSameLinks, Switching, appVars, sidVars, memVars, libVars,
       boundVars
<1>s. UNCHANGED flash_mask => StartMask' = StartMask
  BY DEF StartMask
<1>1. CASE MainStart
  BY <1>1, <1>s DEF MainStart, LoopKnown
<1>2. CASE MainSend
  BY <1>2, <1>s DEF MainSend, LoopKnown
<1>3. CASE app_btn_send_msg
  BY <1>3, <1>s DEF app_btn_send_msg, Press, MessageHeap, LoopKnown
<1>4. CASE app_btn_request
  BY <1>4, <1>s DEF app_btn_request, Press, LoopKnown
<1>5. CASE on_sidewalk_event_isr
  <2>1. /\ lib'.mask = lib.mask /\ lib'.started = lib.started
        /\ lib.resetting => lib'.resetting
    BY <1>5 DEF on_sidewalk_event_isr, LibEvent, RequestProcess, TypeOK, LibStates
  <2>2. UNCHANGED <<flash_mask, link_mask>> /\ (Switching' <=> Switching)
    BY <1>5 DEF on_sidewalk_event_isr, LibEvent, RequestProcess
  <2> QED
    BY <1>s, <2>1, <2>2
<1>6. CASE on_sidewalk_event_thread
  <2>1. /\ lib'.mask = lib.mask /\ lib'.started = lib.started
        /\ lib.resetting => lib'.resetting
    BY <1>6 DEF on_sidewalk_event_thread, LibEvent, TypeOK, LibStates
  <2>2. UNCHANGED <<flash_mask, link_mask>> /\ (Switching' <=> Switching)
    BY <1>6 DEF on_sidewalk_event_thread, LibEvent
  <2> QED
    BY <1>s, <2>1, <2>2
<1>7. ASSUME NEW p \in Producers, SendTimeout(p) PROVE LinksKnown'
  BY <1>7, <1>s DEF SendTimeout, FreeUnsent
<1>8. CASE ThreadGet
  BY <1>8, <1>s DEF ThreadGet, LoopKnown
<1>9. CASE sidewalk_event_platform_init
  BY <1>9, <1>s DEF sidewalk_event_platform_init, Handling, Return, OutsideThread, LoopKnown
<1>10. CASE sidewalk_event_autostart
  <2>1. ~Switching' /\ ~Switching
    BY <1>10 DEF sidewalk_event_autostart, Handling, Return
  <2>2. StartMask' = StartMask
    BY <1>10, <1>s, AutostartOutcome, DefaultSaved DEF AutostartDoes
  <2>3. UNCHANGED lib \/ lib'.mask = StartMask
    BY <1>10, AutostartOutcome DEF AutostartDoes, Started
  <2> QED
    BY <2>1, <2>2, <2>3
<1>11. CASE sidewalk_event_process
  <2>1. /\ lib'.mask = lib.mask /\ lib'.started = lib.started
        /\ lib.resetting => lib'.resetting
    BY <1>11
       DEF sidewalk_event_process, Handling, Return, OutsideThread, SidProcess, TypeOK,
           LibStates
  <2>2. UNCHANGED <<flash_mask, link_mask>> /\ (Switching' <=> Switching)
    BY <1>11 DEF sidewalk_event_process, Handling, Return, OutsideThread, SidProcess
  <2> QED
    BY <1>s, <2>1, <2>2
<1>12. CASE sidewalk_event_factory_reset
  <2>1. ~Switching' /\ ~Switching
    BY <1>12 DEF sidewalk_event_factory_reset, Handling, Return
  <2>2. CASE handle
    <3>1. lib' = [lib EXCEPT !.resetting = @ \/ TRUE, !.work = @ \/ TRUE]
      BY <1>12, <2>2 DEF sidewalk_event_factory_reset, Succeeds, SettingsWork
    <3>2. lib'.resetting
      BY <3>1 DEF TypeOK, LibStates
    <3> QED
      BY <2>1, <3>2
  <2>3. CASE ~handle
    BY <1>12, <1>s, <2>1, <2>3 DEF sidewalk_event_factory_reset
  <2> QED
    BY <2>2, <2>3
<1>13. CASE sidewalk_event_new_status
  BY <1>13, <1>s
     DEF sidewalk_event_new_status, Handling, Return, OutsideThread, NewStatus, LoopKnown
<1>14. CASE sidewalk_event_send_msg
  BY <1>14, <1>s DEF sidewalk_event_send_msg, Handling, Return, OutsideThread, LoopKnown
<1>15. CASE sidewalk_event_connect
  BY <1>15, <1>s DEF sidewalk_event_connect, Handling, Return, OutsideThread, LoopKnown
<1>16. CASE sidewalk_event_link_switch
  <2>1. CASE handle
    <3>1. link_mask' = NextMask(link_mask) /\ flash_mask' = NextMask(link_mask)
      BY <1>16, <2>1 DEF sidewalk_event_link_switch, Succeeds, SettingsWork, SavedMask
    <3>2. NextMask(link_mask) # {} /\ NextMask(link_mask) # Unset
      BY DEF NextMask, Unset
    <3>3. StartMask' = link_mask'
      BY <3>1, <3>2 DEF StartMask
    <3>4. Switching'
      BY <1>16, <2>1 DEF sidewalk_event_link_switch, SidProcess, Handling, OutsideThread
    <3> QED
      BY <3>3, <3>4
  <2>2. CASE ~handle
    BY <1>16, <1>s, <2>2 DEF sidewalk_event_link_switch, Handling, Return, OutsideThread
  <2> QED
    BY <2>1, <2>2
<1>17. CASE ProcessReturn
  BY <1>17, <1>s DEF ProcessReturn, OutsideThread, LoopKnown
<1>18. CASE LinkRestart
  <2>1. UNCHANGED <<flash_mask, link_mask>> /\ ~Switching' /\ Switching
    BY <1>18 DEF LinkRestart, Return, LoopKnown
  <2>2. lib'.started => lib'.mask = link_mask
    BY <1>18, RestartOutcome DEF RestartDoes, DeinitWorks
  <2> QED
    BY <1>s, <2>1, <2>2
<1>19. CASE ThreadFree
  BY <1>19, <1>s DEF ThreadFree, LoopKnown
<1>20. CASE on_sidewalk_factory_reset
  BY <1>20, LibDownType DEF on_sidewalk_factory_reset, Reboot
<1>21. CASE on_sidewalk_status_changed
  <2>1. /\ lib'.mask = lib.mask /\ lib'.started = lib.started
        /\ lib.resetting => lib'.resetting
    BY <1>21 DEF on_sidewalk_status_changed, Callback, TypeOK, LibStates
  <2>2. UNCHANGED <<flash_mask, link_mask>> /\ (Switching' <=> Switching)
    BY <1>21 DEF on_sidewalk_status_changed, Callback
  <2> QED
    BY <1>s, <2>1, <2>2
<1>22. CASE on_sidewalk_msg_received
  BY <1>22, <1>s DEF on_sidewalk_msg_received, Callback, EchoHeap, LoopKnown
<1>23. CASE PowerCycle
  BY <1>23, LibDownType DEF PowerCycle, Reboot
<1> QED
  BY <1>1, <1>2, <1>3, <1>4, <1>5, <1>6, <1>7, <1>8, <1>9, <1>10, <1>11, <1>12, <1>13,
     <1>14, <1>15, <1>16, <1>17, <1>18, <1>19, <1>20, <1>21, <1>22, <1>23
     DEF Next, Thread, Handler

-----------------------------------------------------------------------------
(* The theorems. *)

CoreInv == TypeOK /\ LibKnown /\ LoopKnown /\ StatusesOrdered

\* The initial state.
LEMMA InvInit ==
    Init => CoreInv /\ Apart /\ Accounted /\ HandleIffUp /\ WorkIsScheduled /\ LinksKnown
<1> SUFFICES ASSUME Init
             PROVE  CoreInv /\ Apart /\ Accounted /\ HandleIffUp /\ WorkIsScheduled /\ LinksKnown
  OBVIOUS
<1>1. /\ queue = <<>> /\ Len(queue) = 0 /\ event = NoEvent /\ lib = LibDown /\ thread = "none"
      /\ handle = FALSE /\ heap = {} /\ leaked = {} /\ last_status = 0
      /\ \A p \in Producers : waiting[p] = NoEvent
  BY DEF Init
<1>2. TypeOK
  <2>1. queue \in Seq(Events) /\ Len(queue) <= QueueSize
    BY <1>1, SizesAssumption
  <2>2. waiting \in [Producers -> Events \cup {NoEvent}] /\ link_mask \in Masks
    BY DEF Init, Masks
  <2>3. /\ last_status \in 0 .. MaxStimuli /\ stimuli \in 0 .. MaxStimuli
        /\ reboots \in 0 .. MaxReboots
    BY BoundsAssumption DEF Init
  <2> QED
    BY <1>1, <2>1, <2>2, <2>3, LibDownType DEF Init, TypeOK
<1>3. LibKnown /\ HandleIffUp /\ WorkIsScheduled
  BY <1>1, LibDownType, BoundsAssumption
     DEF Init, LibKnown, HandleIffUp, WorkIsScheduled, LibDown
<1>4. LoopKnown
  BY DEF Init, LoopKnown
<1>5. StatusesOrdered
  BY <1>1, NoEventShape DEF StatusesOrdered, LibDown
<1>6. Apart /\ Accounted
  BY <1>1, NoEventShape DEF Apart, Accounted, HasOwner, Producers
<1>7. LinksKnown
  BY <1>1, LibDownType DEF LinksKnown, RestartsOnSameLinks, Switching
<1> QED
  BY <1>2, <1>3, <1>4, <1>5, <1>6, <1>7 DEF CoreInv

\* A step that changes nothing.
LEMMA Stutter ==
    ASSUME UNCHANGED vars
    PROVE  /\ CoreInv => CoreInv'
           /\ Apart /\ Accounted => Apart' /\ Accounted'
           /\ HandleIffUp => HandleIffUp'
           /\ WorkIsScheduled => WorkIsScheduled'
           /\ LinksKnown => LinksKnown'
<1> USE DEF vars, appVars, sidVars, memVars, libVars, boundVars
<1>1. CoreInv => CoreInv'
  BY DEF CoreInv, TypeOK, LibKnown, LoopKnown, StatusesOrdered, IsStatus
<1>2. Apart /\ Accounted => Apart' /\ Accounted'
  BY DEF Apart, Accounted, HasOwner
<1>3. WorkIsScheduled => WorkIsScheduled'
  BY DEF WorkIsScheduled, ProcessPending
<1>4. (HandleIffUp => HandleIffUp') /\ (LinksKnown => LinksKnown')
  BY DEF HandleIffUp, LinksKnown, RestartsOnSameLinks, Switching, StartMask
<1> QED
  BY <1>1, <1>2, <1>3, <1>4

\* A step keeps the part of the invariant that all of the properties need.
LEMMA CoreStep == CoreInv /\ [Next]_vars => CoreInv'
<1> SUFFICES ASSUME CoreInv, Next PROVE CoreInv'
  BY Stutter
<1> USE DEF CoreInv
<1>1. Moves
  BY StepMoves
<1>2. StatusesOrdered'
  BY <1>1, StatusesOrderedStep
<1>3. TypeOK'
  BY <1>2, TypeOKStep
<1> QED
  BY <1>1, <1>2, <1>3, LibKnownStep, LoopKnownStep

\* The types, and the library's state as the thread knows it, for every set of faults.
THEOREM TypesAlwaysHold == Spec => []TypeOK
<1>1. CoreInv => TypeOK
  BY DEF CoreInv
<1>2. Init => CoreInv
  BY InvInit
<1> QED
  BY <1>1, <1>2, CoreStep, PTL DEF Spec

\* The contexts that are apart are those of the events in flight.
LEMMA OwnersInFlight == OwnInv => ContextsOwned
<1> SUFFICES ASSUME OwnInv PROVE ContextsOwned
  OBVIOUS
<1> USE DEF OwnInv
<1> DEFINE n == Len(queue)
           four == <<event, waiting["main"], waiting["buttons"], waiting["bt"]>>
           E == Events \cup {NoEvent}
<1>0. "main" \in Producers /\ "buttons" \in Producers /\ "bt" \in Producers
  BY DEF Producers
<1>1. queue \in Seq(E) /\ four \in Seq(E) /\ n \in Nat /\ Len(four) = 4
  <2>1. queue \in Seq(E)
    BY SeqMonotonic DEF TypeOK
  <2>2. event \in E /\ waiting["main"] \in E /\ waiting["buttons"] \in E /\ waiting["bt"] \in E
    BY <1>0 DEF TypeOK
  <2> QED
    BY <2>1, <2>2, LenProperties
<1>2. /\ Len(InFlight) = n + 4 /\ DOMAIN InFlight = 1 .. n + 4
      /\ \A i \in 1 .. n + 4 : InFlight[i] = IF i <= n THEN queue[i] ELSE four[i - n]
  BY <1>1, ConcatProperties DEF InFlight
<1>3. /\ \A i \in 1 .. n : InFlight[i] = queue[i]
      /\ InFlight[n + 1] = event /\ InFlight[n + 2] = waiting["main"]
      /\ InFlight[n + 3] = waiting["buttons"] /\ InFlight[n + 4] = waiting["bt"]
  <2>1. \A i \in 1 .. n : i \in 1 .. n + 4 /\ i <= n
    BY <1>1
  <2>2. \A k \in 1 .. 4 : n + k \in 1 .. n + 4 /\ ~(n + k <= n) /\ (n + k) - n = k
    BY <1>1
  <2>3. \A i \in 1 .. n : InFlight[i] = queue[i]
    BY <1>2, <2>1
  <2>4. \A k \in 1 .. 4 : InFlight[n + k] = four[k]
    BY <1>2, <2>2
  <2> QED
    BY <2>3, <2>4
<1>4. \A i \in DOMAIN InFlight :
         \/ i \in 1 .. n /\ InFlight[i].ctx = queue[i].ctx
         \/ i = n + 1 /\ InFlight[i].ctx = event.ctx
         \/ i = n + 3 /\ InFlight[i].ctx = waiting["buttons"].ctx
         \/ i \in {n + 2, n + 4} /\ InFlight[i].ctx = {}
  <2> SUFFICES ASSUME NEW i \in 1 .. n + 4
               PROVE  \/ i \in 1 .. n /\ InFlight[i].ctx = queue[i].ctx
                      \/ i = n + 1 /\ InFlight[i].ctx = event.ctx
                      \/ i = n + 3 /\ InFlight[i].ctx = waiting["buttons"].ctx
                      \/ i \in {n + 2, n + 4} /\ InFlight[i].ctx = {}
    BY <1>2
  <2>1. i \in 1 .. n \/ i = n + 1 \/ i = n + 2 \/ i = n + 3 \/ i = n + 4
    BY <1>1
  <2> QED
    BY <1>3, <2>1 DEF Apart
<1>5. \A i, j \in DOMAIN InFlight : i # j => InFlight[i].ctx \cap InFlight[j].ctx = {}
  BY <1>1, <1>4 DEF Apart
<1>6. \A b : b \in OwnedBlocks <=> HasOwner(b)
  <2>1. n + 1 \in DOMAIN InFlight /\ n + 3 \in DOMAIN InFlight /\ 1 .. n \subseteq DOMAIN InFlight
    BY <1>1, <1>2
  <2>2. ASSUME NEW b, b \in OwnedBlocks PROVE HasOwner(b)
    BY <1>4, <2>2 DEF OwnedBlocks, HasOwner
  <2>3. ASSUME NEW b, HasOwner(b) PROVE b \in OwnedBlocks
    BY <1>3, <2>1, <2>3 DEF OwnedBlocks, HasOwner
  <2> QED
    BY <2>2, <2>3
<1>7. \A b : HasOwner(b) => b \in Blocks
  <2>1. event.ctx \subseteq Blocks /\ waiting["buttons"].ctx \subseteq Blocks
    BY <1>0, NoEventShape DEF TypeOK, Events
  <2>2. \A i \in 1 .. n : queue[i].ctx \subseteq Blocks
    BY QueueStatus DEF Events
  <2> QED
    BY <2>1, <2>2 DEF HasOwner
<1>8. OwnedBlocks \subseteq heap \ leaked /\ heap = OwnedBlocks \cup leaked
  <2>1. heap \subseteq Blocks /\ leaked \subseteq heap
    BY DEF TypeOK, Accounted
  <2> QED
    BY <1>6, <1>7, <2>1 DEF Accounted
<1> QED
  BY <1>5, <1>8 DEF ContextsOwned, ContextsOwnedOnce, OnlyStatusesLeak

(* On every path of the producers, the queue and the thread, whichever      *)
(* calls fail and however small queue and heap are, a context has one       *)
(* owner, its blocks are allocated until that owner frees them, and only    *)
(* statuses that could not be queued leak.                                  *)
THEOREM ContextsAlwaysOwned == Spec => []ContextsOwned
<1> DEFINE I == CoreInv /\ Apart /\ Accounted
<1>1. Init => I
  BY InvInit
<1>2. I /\ [Next]_vars => I'
  <2> SUFFICES ASSUME I, Next PROVE I'
    BY Stutter
  <2>1. Moves /\ OwnInv
    BY StepMoves DEF CoreInv, OwnInv
  <2> QED
    BY <2>1, CoreStep, ApartStep, AccountedStep
<1>3. I => ContextsOwned
  BY OwnersInFlight DEF CoreInv, OwnInv
<1> QED
  BY <1>1, <1>2, <1>3, PTL DEF Spec

(* Whichever calls fail, while the library has work and there is a handle,  *)
(* a request for sid_process is on its way or one was lost to a full queue. *)
THEOREM WorkAlwaysScheduled == Spec => []WorkIsScheduled
<1> DEFINE I == CoreInv /\ WorkIsScheduled
<1>1. Init => I
  BY InvInit
<1>2. I /\ [Next]_vars => I'
  <2> SUFFICES ASSUME I, Next PROVE I'
    BY Stutter
  <2> QED
    BY CoreStep, WorkStep DEF CoreInv
<1> QED
  BY <1>1, <1>2, PTL DEF Spec

(* The statuses the thread applies never go back, whatever is dropped or    *)
(* not allocated in between, but for a reset of the device.                 *)
THEOREM StatusRegressesNever == Spec => StatusNeverRegresses
<1>1. CoreInv /\ [Next]_vars => [last_status' >= last_status \/ reboots' # reboots]_vars
  BY StepMoves, StatusesOrderedStep DEF CoreInv
<1>2. Init => CoreInv
  BY InvInit
<1> QED
  BY <1>1, <1>2, CoreStep, PTL DEF Spec, StatusNeverRegresses

(* If sid_deinit works, the thread has a handle exactly while the library   *)
(* is initialised, over failed starts, link switches and resets.            *)
THEOREM HandleAlwaysIffUp == ASSUME DeinitWorks PROVE Spec => []HandleIffUp
<1> DEFINE I == CoreInv /\ HandleIffUp
<1>1. Init => I
  BY InvInit
<1>2. I /\ [Next]_vars => I'
  <2> SUFFICES ASSUME I, Next PROVE I'
    BY Stutter
  <2> QED
    BY DeinitWorks, CoreStep, HandleStep DEF CoreInv
<1> QED
  BY <1>1, <1>2, PTL DEF Spec

(* If the settings and the factory reset request work, too, a restart       *)
(* outside a link switch or a factory reset uses the links in use.          *)
THEOREM AlwaysRestartsOnSameLinks ==
    ASSUME DeinitWorks, SettingsWork PROVE Spec => []RestartsOnSameLinks
<1> DEFINE I == CoreInv /\ HandleIffUp /\ LinksKnown
<1>1. Init => I
  BY InvInit
<1>2. I /\ [Next]_vars => I'
  <2> SUFFICES ASSUME I, Next PROVE I'
    BY Stutter
  <2> QED
    BY DeinitWorks, SettingsWork, CoreStep, HandleStep, LinksStep DEF CoreInv
<1>3. I => RestartsOnSameLinks
  BY DEF LinksKnown
<1> QED
  BY <1>1, <1>2, <1>3, PTL DEF Spec
=============================================================================
