----------------------------- MODULE SidewalkApp -----------------------------
(***************************************************************************)
(* The Sidewalk thread of the end device sample: sidewalk.c (the event      *)
(* queue and the thread that drains it), sidewalk_events.c (the handlers)   *)
(* and the producers of hello/app.c (library callbacks and buttons).        *)
(*                                                                         *)
(* The thread owns the Sidewalk handle; everyone else talks to it through   *)
(* the bounded message queue.  A producer that finds the queue full waits   *)
(* CONFIG_SIDEWALK_THREAD_QUEUE_TIMEOUT_VALUE ms, except in an interrupt,   *)
(* where it fails at once.  The callbacks of sid_process run on the thread  *)
(* that drains the queue, so nobody can make room while one of them waits:  *)
(* on a full queue they always fail.                                        *)
(*                                                                         *)
(* An event's context is the set of heap blocks it owns ({} is NULL); a     *)
(* status carries its sequence number.  The Sidewalk library is external:   *)
(* lib is what sid_api.h says of it.  LED and log output (state notifier)   *)
(* and the DFU events (module NordicDfu) are left out.                      *)
(***************************************************************************)
EXTENDS Integers, Sequences

CONSTANTS
    QueueSize,      \* CONFIG_SIDEWALK_THREAD_QUEUE_SIZE
    HeapSize,       \* blocks sid_hal_malloc can hand out
    DefaultMask,    \* DEFAULT_LM
    Faults,         \* the calls that may fail
    CloudReset,     \* may the cloud factory reset the device?
    MaxStimuli,     \* bound on library events, callbacks and button presses
    MaxReboots      \* bound on resets of the device

Unset == {"unset"}                      \* no link mask in the settings
Masks == {{}, {"BLE"}, {"FSK"}, {"LoRa"}, {"BLE", "LoRa"}}
Blocks == 1 .. HeapSize
Producers == {"main", "buttons", "bt"}  \* the threads that may wait for room

ASSUME SizesAssumption == QueueSize \in Nat \ {0} /\ HeapSize \in Nat
ASSUME MaskAssumption == DefaultMask \in {{"BLE"}, {"FSK"}, {"LoRa"}}
ASSUME BoundsAssumption == MaxStimuli \in Nat /\ MaxReboots \in Nat

Handlers == {"platform_init", "autostart", "process", "factory_reset",
             "new_status", "send_msg", "connect", "link_switch"}
Events == [handler : Handlers, ctx : SUBSET Blocks, status : 0 .. MaxStimuli]
NoEvent == [handler |-> "none", ctx |-> {}, status |-> 0]

VARIABLES
    queue,          \* sidewalk_thread_msgq
    waiting,        \* the event each producer is blocked on in k_msgq_put
    main,           \* how far app_start has come
    thread,         \* where the Sidewalk thread is in its loop
    event,          \* the event it is serving
    handle,         \* sid->handle: is it other than NULL?
    link_mask,      \* sid->config.link_mask
    last_status,    \* sid->last_status
    flash_mask,     \* the persistent link mask, or Unset
    heap,           \* allocated blocks
    lib,            \* the Sidewalk library
    leaked,         \* history: blocks of statuses that could not be queued
    missed,         \* history: was a request for sid_process lost since it last ran?
    stimuli, reboots

appVars == <<queue, waiting, main, thread, event>>
sidVars == <<handle, link_mask, last_status>>
memVars == <<heap, leaked>>
libVars == <<lib, missed>>
boundVars == <<stimuli, reboots>>
vars == <<appVars, sidVars, flash_mask, memVars, libVars, boundVars>>

(* up: initialised; started; work: events wait for sid_process; resetting: *)
(* a factory reset is to be notified; status: the status last reported.    *)
LibStates == [up : BOOLEAN, started : BOOLEAN, mask : Masks, work : BOOLEAN,
              resetting : BOOLEAN, status : 0 .. MaxStimuli]
LibDown == [up |-> FALSE, started |-> FALSE, mask |-> {}, work |-> FALSE,
            resetting |-> FALSE, status |-> 0]

Init ==
    /\ queue = <<>>
    /\ waiting = [p \in Producers |-> NoEvent]
    /\ main = "start"
    /\ thread = "none"
    /\ event = NoEvent
    /\ handle = FALSE
    /\ link_mask = {}
    /\ last_status = 0
    /\ flash_mask = Unset
    /\ heap = {}
    /\ lib = LibDown
    /\ leaked = {}
    /\ missed = FALSE
    /\ stimuli = 0
    /\ reboots = 0

(* The outcomes of a call that fails only if it is listed in Faults. *)
Succeeds(call) == IF call \in Faults THEN BOOLEAN ELSE {TRUE}

----------------------------------------------------------------------------
(* sid_hal_malloc: some free block, or none left. *)
FreeBlocks == Blocks \ heap
SomeFreeBlock == CHOOSE b \in FreeBlocks : TRUE

(* A message is a context and its data; when the second allocation fails   *)
(* the first is freed.                                                      *)
MessageBlocks ==
    IF \A b, c \in FreeBlocks : b = c
    THEN {}
    ELSE {SomeFreeBlock, CHOOSE b \in FreeBlocks : b # SomeFreeBlock}

----------------------------------------------------------------------------
(* sidewalk_event_send. *)
Room == Len(queue) < QueueSize
NewEvent(h, ctx, s) == [handler |-> h, ctx |-> ctx, status |-> s]
\* Mutant: events are put in front of the queue.
MutEnqueue(q, e) == <<e>> \o q
Enqueue(q, e) == Append(q, e)

(* From a thread other than the one that drains the queue. *)
SendOrWait(p, e) ==
    /\ waiting[p] = NoEvent
    /\ IF Room
       THEN queue' = Enqueue(queue, e) /\ UNCHANGED waiting
       ELSE waiting' = [waiting EXCEPT ![p] = e] /\ UNCHANGED queue

(* From an interrupt, or from the draining thread itself.                  *)
SendOrDrop(e) ==
    /\ queue' = IF Room THEN Enqueue(queue, e) ELSE queue
    /\ UNCHANGED waiting

(* A blocked put gives up; app_btn_send_msg then frees the message.  The   *)
(* other events producers wait with have no context.                       *)
FreeUnsent(e) == heap \ e.ctx

SendTimeout(p) ==
    /\ waiting[p] # NoEvent
    /\ heap' = FreeUnsent(waiting[p])
    /\ waiting' = [waiting EXCEPT ![p] = NoEvent]
    /\ missed' = (missed \/ waiting[p].handler = "process")
    /\ UNCHANGED <<queue, main, thread, event, sidVars, flash_mask, leaked, lib, boundVars>>

----------------------------------------------------------------------------
(* app_start. *)
MainStart ==
    /\ main = "start"
    /\ \E ok \in Succeeds("bt_gatt_authorization_cb_register") :
          /\ main' = IF ok THEN "platform_init" ELSE "done"
          /\ thread' = IF ok THEN "idle" ELSE "none"
    /\ UNCHANGED <<queue, waiting, event, sidVars, flash_mask, memVars, libVars, boundVars>>

MainSend ==
    /\ main \in {"platform_init", "autostart"}
    /\ SendOrWait("main", NewEvent(main, {}, 0))
    /\ main' = IF main = "platform_init" THEN "autostart" ELSE "done"
    /\ UNCHANGED <<thread, event, sidVars, flash_mask, memVars, libVars, boundVars>>

----------------------------------------------------------------------------
(* Buttons; their work queue item runs one at a time.  They are live from  *)
(* app_buttons_init on, before the thread exists.                          *)
Press ==
    /\ stimuli < MaxStimuli
    /\ stimuli' = stimuli + 1
    /\ waiting["buttons"] = NoEvent

\* Mutant: the message is freed when it could not be queued at once.
MutMessageHeap(hello) == IF Room THEN heap \cup hello ELSE heap
MessageHeap(hello) == heap \cup hello

app_btn_send_msg ==
    /\ Press
    /\ IF MessageBlocks = {}
       THEN UNCHANGED <<queue, waiting, heap>>
       ELSE /\ SendOrWait("buttons", NewEvent("send_msg", MessageBlocks, 0))
            /\ heap' = MessageHeap(MessageBlocks)
    /\ UNCHANGED <<main, thread, event, sidVars, flash_mask, leaked, libVars, reboots>>

app_btn_request ==
    /\ Press
    /\ \E h \in {"connect", "factory_reset", "link_switch"} :
          SendOrWait("buttons", NewEvent(h, {}, 0))
    /\ UNCHANGED <<main, thread, event, sidVars, flash_mask, memVars, libVars, reboots>>

----------------------------------------------------------------------------
(* on_sidewalk_event: the library has something for sid_process to do.     *)
LibEvent ==
    /\ lib.started
    /\ stimuli < MaxStimuli
    /\ stimuli' = stimuli + 1
    /\ \E cloud \in (IF CloudReset THEN BOOLEAN ELSE {FALSE}) :
          lib' = [lib EXCEPT !.work = TRUE, !.resetting = @ \/ cloud]
    /\ UNCHANGED <<main, thread, event, sidVars, flash_mask, memVars, reboots>>

\* Mutant: no request is queued while sid_process runs.
MutRequestProcess ==
    /\ queue' = IF Room /\ thread # "sid_process"
                THEN Enqueue(queue, NewEvent("process", {}, 0)) ELSE queue
    /\ missed' = (missed \/ ~Room)
    /\ UNCHANGED waiting
RequestProcess ==
    /\ SendOrDrop(NewEvent("process", {}, 0))
    /\ missed' = (missed \/ ~Room)

on_sidewalk_event_isr ==
    /\ LibEvent
    /\ RequestProcess

on_sidewalk_event_thread ==
    /\ LibEvent
    /\ SendOrWait("bt", NewEvent("process", {}, 0))
    /\ UNCHANGED missed

----------------------------------------------------------------------------
(* The thread's loop.  k_msgq_get takes the head of the queue and lets one *)
(* blocked producer put its event.                                         *)
ThreadGet ==
    /\ thread = "idle"
    /\ queue # <<>>
    /\ event' = Head(queue)
    /\ thread' = "handle"
    /\ IF \A p \in Producers : waiting[p] = NoEvent
       THEN queue' = Tail(queue) /\ UNCHANGED waiting
       ELSE \E p \in Producers :
              /\ waiting[p] # NoEvent
              /\ queue' = Enqueue(Tail(queue), waiting[p])
              /\ waiting' = [waiting EXCEPT ![p] = NoEvent]
    /\ UNCHANGED <<main, sidVars, flash_mask, memVars, libVars, boundVars>>

ThreadFree ==
    /\ thread = "free"
    /\ heap' = heap \ event.ctx
    /\ event' = NoEvent
    /\ thread' = "idle"
    /\ UNCHANGED <<queue, waiting, main, sidVars, flash_mask, leaked, libVars, boundVars>>

(* The part common to every handler: it is called, and returns.            *)
Handling(h) == thread = "handle" /\ event.handler = h
Return == thread' = "free"
OutsideThread == UNCHANGED <<queue, waiting, main, event, memVars, boundVars>>

(* sid_process takes what the library has to do; its callbacks follow.     *)
SidProcess ==
    /\ thread' = "sid_process"
    /\ lib' = [lib EXCEPT !.work = FALSE]
    /\ missed' = FALSE

sidewalk_event_process ==
    /\ Handling("process")
    /\ IF handle
       THEN SidProcess
       ELSE Return /\ UNCHANGED libVars
    /\ UNCHANGED <<sidVars, flash_mask>>
    /\ OutsideThread

(* Only the platform is touched: the radio and the manufacturing data.     *)
sidewalk_event_platform_init ==
    /\ Handling("platform_init")
    /\ Return
    /\ UNCHANGED <<sidVars, flash_mask, libVars>>
    /\ OutsideThread

(* sid_init: fails if it is in Faults or if the library is still up.       *)
LibInit(l, mask, ok) ==
    IF ok /\ ~l.up
    THEN [l EXCEPT !.up = TRUE, !.started = FALSE, !.mask = mask]
    ELSE l
LibStart(l, ok) == [l EXCEPT !.started = ok]

(* settings_utils_link_mask_get, and the default for an unset mask.        *)
StartMask == IF flash_mask \in {Unset, {}} THEN DefaultMask ELSE flash_mask

sidewalk_event_autostart ==
    /\ Handling("autostart")
    /\ Return
    /\ \E mfg \in Succeeds("app_mfg_cfg"), init \in Succeeds("sid_init"),
          start \in Succeeds("sid_start") :
          IF handle \/ ~mfg
          THEN UNCHANGED <<handle, link_mask, flash_mask, lib>>
          ELSE /\ link_mask' = StartMask
               /\ flash_mask' = IF flash_mask = Unset THEN DefaultMask ELSE flash_mask
               /\ handle' = (init /\ ~lib.up)
               /\ lib' = IF handle'
                         THEN LibStart(LibInit(lib, link_mask', init), start)
                         ELSE lib
    /\ UNCHANGED <<last_status, missed>>
    /\ OutsideThread

sidewalk_event_factory_reset ==
    /\ Handling("factory_reset")
    /\ Return
    /\ IF handle
       THEN \E ok \in Succeeds("sid_set_factory_reset") :
              /\ flash_mask' = {}
              /\ lib' = [lib EXCEPT !.resetting = @ \/ ok, !.work = @ \/ ok]
              /\ IF ok THEN RequestProcess ELSE UNCHANGED <<queue, waiting, missed>>
       ELSE UNCHANGED <<flash_mask, libVars, queue, waiting>>
    /\ UNCHANGED <<main, event, sidVars, memVars, boundVars>>

\* Mutant: statuses are ignored while there is no handle.
MutNewStatusNoHandle ==
    IF event.ctx = {} \/ ~handle THEN last_status ELSE event.status
NewStatus == IF event.ctx = {} THEN last_status ELSE event.status

sidewalk_event_new_status ==
    /\ Handling("new_status")
    /\ Return
    /\ last_status' = NewStatus
    /\ UNCHANGED <<handle, link_mask, flash_mask, libVars>>
    /\ OutsideThread

(* sid_put_msg copies the message; sid_ble_bcn_connection_request asks for *)
(* a connection.  Neither changes what is modelled, whatever it returns.   *)
sidewalk_event_send_msg ==
    /\ Handling("send_msg")
    /\ Return
    /\ UNCHANGED <<sidVars, flash_mask, libVars>>
    /\ OutsideThread

sidewalk_event_connect ==
    /\ Handling("connect")
    /\ Return
    /\ UNCHANGED <<sidVars, flash_mask, libVars>>
    /\ OutsideThread

NextMask(mask) ==
    CASE mask = {"BLE"} -> {"FSK"}
      [] mask = {"FSK"} -> {"BLE", "LoRa"}
      [] OTHER -> {"BLE"}

\* Mutant: the mask in use before the switch is persisted.
MutSavedMask(saved) == IF saved THEN link_mask ELSE flash_mask
SavedMask(saved) == IF saved THEN NextMask(link_mask) ELSE flash_mask

(* sidewalk_event_link_switch up to its sid_process ... *)
sidewalk_event_link_switch ==
    /\ Handling("link_switch")
    /\ IF handle
       THEN \E saved \in Succeeds("settings_save") :
              /\ link_mask' = NextMask(link_mask)
              /\ flash_mask' = SavedMask(saved)
              /\ SidProcess
       ELSE Return /\ UNCHANGED <<link_mask, flash_mask, libVars>>
    /\ UNCHANGED <<handle, last_status>>
    /\ OutsideThread

\* Mutant: the library is stopped but not deinitialised.
MutLibDeinit(ok) == [lib EXCEPT !.started = FALSE]
LibDeinit(ok) == IF ok THEN [LibDown EXCEPT !.status = lib.status] ELSE lib

(* ... and from sid_deinit on.  The result of sid_init is only logged, and *)
(* sid_start called on the handle sid_init set to NULL when it failed.     *)
LinkRestart ==
    /\ thread = "restart"
    /\ Return
    /\ \E deinit \in Succeeds("sid_deinit"), init \in Succeeds("sid_init"),
          start \in Succeeds("sid_start") :
          LET stopped == LibDeinit(deinit)
          IN  /\ handle' = (init /\ ~stopped.up)
              /\ lib' = IF handle'
                        THEN LibStart(LibInit(stopped, link_mask, init), start)
                        ELSE stopped
    /\ missed' = FALSE
    /\ UNCHANGED <<link_mask, last_status, flash_mask>>
    /\ OutsideThread

----------------------------------------------------------------------------
(* The callbacks of sid_process, on the Sidewalk thread.                   *)
Callback == thread = "sid_process" /\ lib.started

(* on_sidewalk_status_changed: a status that cannot be queued is not freed. *)
on_sidewalk_status_changed ==
    /\ Callback
    /\ stimuli < MaxStimuli
    /\ stimuli' = stimuli + 1
    /\ LET new_status == IF FreeBlocks = {} THEN {} ELSE {SomeFreeBlock}
           s == lib.status + 1     \* what memcpy finds in status, if there is a copy
       IN  /\ lib' = [lib EXCEPT !.status = s]
           /\ heap' = heap \cup new_status
           /\ SendOrDrop(NewEvent("new_status", new_status,
                                   IF new_status = {} THEN 0 ELSE s))
           /\ leaked' = IF Room THEN leaked ELSE leaked \cup new_status
    /\ UNCHANGED <<main, thread, event, sidVars, flash_mask, missed, reboots>>

\* Mutant: the echo of a failed send is not freed.
MutEchoHeap(echo) == heap \cup echo
EchoHeap(echo) == IF Room THEN heap \cup echo ELSE heap

(* on_sidewalk_msg_received, for the messages that are echoed.             *)
on_sidewalk_msg_received ==
    /\ Callback
    /\ stimuli < MaxStimuli
    /\ stimuli' = stimuli + 1
    /\ IF MessageBlocks = {}
       THEN UNCHANGED <<queue, waiting, heap>>
       ELSE /\ SendOrDrop(NewEvent("send_msg", MessageBlocks, 0))
            /\ heap' = EchoHeap(MessageBlocks)
    /\ UNCHANGED <<main, thread, event, sidVars, flash_mask, leaked, libVars, reboots>>

ProcessReturn ==
    /\ thread = "sid_process"
    /\ ~(lib.started /\ lib.resetting /\ reboots < MaxReboots)
    /\ thread' = IF event.handler = "link_switch" THEN "restart" ELSE "free"
    /\ UNCHANGED <<sidVars, flash_mask, libVars>>
    /\ OutsideThread

(* A reset of the device, warm or by power: only the settings survive.     *)
Reboot ==
    /\ reboots < MaxReboots
    /\ reboots' = reboots + 1
    /\ queue' = <<>>
    /\ waiting' = [p \in Producers |-> NoEvent]
    /\ main' = "start"
    /\ thread' = "none"
    /\ event' = NoEvent
    /\ handle' = FALSE
    /\ link_mask' = {}
    /\ last_status' = 0
    /\ heap' = {}
    /\ leaked' = {}
    /\ lib' = LibDown
    /\ missed' = FALSE
    /\ UNCHANGED <<flash_mask, stimuli>>

(* on_sidewalk_factory_reset: sid_hal_reset. *)
on_sidewalk_factory_reset ==
    /\ Callback
    /\ lib.resetting
    /\ Reboot

PowerCycle ==
    /\ main # "start"
    /\ Reboot

----------------------------------------------------------------------------
Handler ==
    \/ sidewalk_event_platform_init \/ sidewalk_event_autostart
    \/ sidewalk_event_process \/ sidewalk_event_factory_reset
    \/ sidewalk_event_new_status \/ sidewalk_event_send_msg
    \/ sidewalk_event_connect \/ sidewalk_event_link_switch

Thread ==
    \/ ThreadGet \/ Handler \/ ProcessReturn \/ LinkRestart \/ ThreadFree
    \/ on_sidewalk_factory_reset

Next ==
    \/ MainStart \/ MainSend
    \/ app_btn_send_msg \/ app_btn_request
    \/ on_sidewalk_event_isr \/ on_sidewalk_event_thread
    \/ \E p \in Producers : SendTimeout(p)
    \/ Thread
    \/ on_sidewalk_status_changed \/ on_sidewalk_msg_received
    \/ PowerCycle

Spec == Init /\ [][Next]_vars

(* The Sidewalk thread and main are scheduled, sid_process returns after   *)
(* finitely many callbacks.                                                *)
FairSpec == Spec /\ WF_vars(MainStart \/ MainSend) /\ WF_vars(Thread)

----------------------------------------------------------------------------
TypeOK ==
    /\ queue \in Seq(Events) /\ Len(queue) <= QueueSize
    /\ waiting \in [Producers -> Events \cup {NoEvent}]
    /\ main \in {"start", "platform_init", "autostart", "done"}
    /\ thread \in {"none", "idle", "handle", "sid_process", "restart", "free"}
    /\ event \in Events \cup {NoEvent}
    /\ handle \in BOOLEAN
    /\ link_mask \in Masks
    /\ last_status \in 0 .. MaxStimuli
    /\ flash_mask \in Masks \cup {Unset}
    /\ heap \subseteq Blocks /\ leaked \subseteq Blocks
    /\ lib \in LibStates
    /\ missed \in BOOLEAN
    /\ stimuli \in 0 .. MaxStimuli /\ reboots \in 0 .. MaxReboots

----------------------------------------------------------------------------
(* Every event whose context is still to be freed: queued, being served,   *)
(* or held by a blocked producer.                                          *)
InFlight == queue \o <<event, waiting["main"], waiting["buttons"], waiting["bt"]>>
OwnedBlocks == UNION {InFlight[i].ctx : i \in DOMAIN InFlight}

(* No block belongs to two events, none has been freed under an event that *)
(* still uses it: the free functions run once per context.                 *)
ContextsOwnedOnce ==
    /\ \A i, j \in DOMAIN InFlight :
          i # j => InFlight[i].ctx \cap InFlight[j].ctx = {}
    /\ OwnedBlocks \subseteq heap \ leaked

(* What is allocated is owned by an event in flight, except the statuses   *)
(* on_sidewalk_status_changed could not queue.                             *)
OnlyStatusesLeak == heap = OwnedBlocks \cup leaked

(* Both: on every path of the producers, the queue and the thread a context *)
(* has one owner, and only a status that could not be queued has none.      *)
ContextsOwned == ContextsOwnedOnce /\ OnlyStatusesLeak

(* The thread holds a handle exactly while the library is initialised,     *)
(* through link switches whose sid_init or sid_start fails.                *)
HandleIffUp == handle <=> lib.up

ProcessPending ==
    \/ \E i \in DOMAIN queue : queue[i].handler \in {"process", "link_switch"}
    \/ \E p \in Producers : waiting[p].handler = "process"
    \/ thread = "handle" /\ event.handler \in {"process", "link_switch"}

(* While the library has work the thread will call sid_process, unless a   *)
(* request was lost to a full queue.                                       *)
WorkIsScheduled == lib.work /\ handle => ProcessPending \/ missed

Switching == event.handler = "link_switch" /\ thread \in {"sid_process", "restart"}

(* A device reset outside a link switch or a factory reset comes back on   *)
(* the links in use: the persistent mask is the running one.               *)
RestartsOnSameLinks ==
    lib.started => \/ StartMask = lib.mask
                   \/ Switching
                   \/ lib.resetting

(* Statuses are applied in the order the library reported them, whatever   *)
(* else is queued, dropped or not allocated in between.                    *)
StatusNeverRegresses == [][last_status' >= last_status \/ reboots' # reboots]_vars

StatusInFlight(s) ==
    \E i \in DOMAIN InFlight :
        InFlight[i].handler = "new_status" /\ InFlight[i].status = s

(* A status that was queued becomes the last status, or a later one does,  *)
(* or the device is reset.                                                 *)
StatusApplied ==
    \A s \in 1 .. MaxStimuli :
        StatusInFlight(s) ~> (last_status >= s \/ lib.status < s)

----------------------------------------------------------------------------
(***************************************************************************)
(* The inductive invariant behind the properties above, in parts: what the *)
(* thread knows of the library, ...                                        *)
(***************************************************************************)
LibKnown ==
    /\ handle => lib.up
    /\ ~lib.up => ~lib.started /\ ~lib.work
    /\ lib.status <= stimuli

(* ... where the thread is in its loop, ... *)
LoopKnown ==
    /\ main = "start" => thread = "none"
    /\ thread \in {"none", "idle"} => event = NoEvent
    /\ thread = "restart" => event.handler = "link_switch"

(* ... that contexts in the queue, at the thread and with a blocked button  *)
(* are apart from each other, and those of other producers empty, ...       *)
Apart ==
    /\ \A i, j \in 1 .. Len(queue) : i # j => queue[i].ctx \cap queue[j].ctx = {}
    /\ \A i \in 1 .. Len(queue) :
          queue[i].ctx \cap (event.ctx \cup waiting["buttons"].ctx) = {}
    /\ event.ctx \cap waiting["buttons"].ctx = {}
    /\ waiting["main"].ctx = {} /\ waiting["bt"].ctx = {}

HasOwner(b) ==
    \/ \E i \in 1 .. Len(queue) : b \in queue[i].ctx
    \/ b \in event.ctx
    \/ b \in waiting["buttons"].ctx

(* ... that they, and no others, are allocated and not leaked, ...          *)
Accounted ==
    /\ leaked \subseteq heap
    /\ \A b \in Blocks : HasOwner(b) <=> b \in heap \ leaked

OwnInv == TypeOK /\ LoopKnown /\ Apart /\ Accounted

IsStatus(e) == e.handler = "new_status" /\ e.ctx # {}

(* ... that statuses are queued in their order, none is newer than the      *)
(* library's or older than the last one, and no producer waits with one, ... *)
StatusesOrdered ==
    /\ last_status <= lib.status
    /\ \A p \in Producers : waiting[p].handler # "new_status"
    /\ \A i \in 1 .. Len(queue) : IsStatus(queue[i]) =>
          last_status <= queue[i].status /\ queue[i].status <= lib.status
    /\ \A i, j \in 1 .. Len(queue) : i < j /\ IsStatus(queue[i]) /\ IsStatus(queue[j]) =>
          queue[i].status <= queue[j].status
    /\ thread = "handle" /\ IsStatus(event) =>
          /\ last_status <= event.status /\ event.status <= lib.status
          /\ \A i \in 1 .. Len(queue) : IsStatus(queue[i]) => event.status <= queue[i].status

(* ... and that a link switch has saved the links it starts the library on. *)
LinksKnown == RestartsOnSameLinks /\ (Switching => StartMask = link_mask)

(* The calls that have to work: sid_deinit for the handle to say whether    *)
(* the library is up, and saving the mask and asking for the factory reset  *)
(* for the settings to say which links a restart uses.                      *)
DeinitWorks == "sid_deinit" \notin Faults
SettingsWork == "settings_save" \notin Faults /\ "sid_set_factory_reset" \notin Faults
=============================================================================
