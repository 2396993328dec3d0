----------------------------- MODULE NordicDfu -----------------------------
(***************************************************************************)
(* Firmware update over BLE, nordic_dfu.c, with what it shares: the enable  *)
(* count of the Bluetooth host (bt_app_callbacks.c), which the Sidewalk BLE *)
(* adapter counts up and down too, and the button of hello/app.c that       *)
(* enters and leaves DFU mode through the Sidewalk thread.                  *)
(*                                                                         *)
(* Two actors run this code: the Sidewalk thread ("sid": the button's       *)
(* events and the adapter) and the system work queue ("work": the end of a  *)
(* session by timeout, the restart of advertising after a disconnection).   *)
(* They meet between and in calls of the Bluetooth host, which block.  The  *)
(* work queue is cooperative and of higher priority: it may run between any *)
(* two instructions of the thread, the thread only while the queue waits.   *)
(***************************************************************************)
EXTENDS Integers, Sequences

CONSTANTS
    Faults,         \* the calls that may fail
    MaxPresses,     \* bound on button presses
    MaxUploads,     \* bound on uploads that extend a session
    MaxFailed       \* bound on failed calls

ASSUME BoundsAssumption == {MaxPresses, MaxUploads, MaxFailed} \subseteq Nat

Actors == {"sid", "work"}

VARIABLES
    bt,                 \* the Bluetooth host: "off", "starting", "on", "stopping"
    bt_enable_count,
    who, seen,          \* whose enable or disable the thread is in, and the
                        \* count it has looked at
    adapter,            \* is the Sidewalk BLE adapter initialised?
    adv,                \* the SMP advertising set: "null", "created" or "on"
    in_dfu_mode,
    exit_timer, led_timer,  \* running?
    exit_dfu, adv_work,     \* submitted to the work queue?
    central,            \* is a central connected to the SMP service?
    callbacks,          \* are the connection callbacks registered?
    go_to_dfu_state,    \* what the next long press asks for
    events,             \* the DFU events in the Sidewalk thread's queue
    pc,                 \* where each actor is
    failed,             \* history: enables kept by a failed init or start, lost sets
    stop_raced,         \* history: did the end by timeout overlap the thread's
                        \* own start or stop?
    count_raced,        \* history: did the two meet in the count or its host call?
    timers_broken,      \* history: was a running timer initialised again?
    presses, uploads

btVars == <<bt, bt_enable_count, who, seen, adapter>>
timerVars == <<exit_timer, led_timer>>
workVars == <<exit_dfu, adv_work>>
linkVars == <<central, callbacks>>
appVars == <<go_to_dfu_state, events, presses>>
histVars == <<stop_raced, count_raced, timers_broken>>
dfu_vars == <<btVars, adv, in_dfu_mode, timerVars, workVars, linkVars, appVars,
              pc, failed, histVars, uploads>>

DfuInit ==
    /\ bt = "off" /\ bt_enable_count = 0 /\ adapter = FALSE
    /\ who = "dfu" /\ seen = 0
    /\ adv = "null" /\ in_dfu_mode = FALSE
    /\ exit_timer = FALSE /\ led_timer = FALSE
    /\ exit_dfu = FALSE /\ adv_work = FALSE
    /\ central = FALSE /\ callbacks = FALSE
    /\ go_to_dfu_state = TRUE /\ events = <<>> /\ presses = 0
    /\ pc = [a \in Actors |-> "idle"]
    /\ failed = 0 /\ uploads = 0
    /\ stop_raced = FALSE /\ count_raced = FALSE /\ timers_broken = FALSE

Succeeds(call) == IF call \in Faults /\ failed < MaxFailed THEN BOOLEAN ELSE {TRUE}
Goto(a, l) == pc' = [pc EXCEPT ![a] = l]

(* A call of the host about a set: refused unless the host is on.          *)
Answers(call) == IF bt = "on" THEN Succeeds(call) ELSE {FALSE}

----------------------------------------------------------------------------
(* sid_ble_bt_enable, on the Sidewalk thread only: a look at the count,    *)
(* then either the increment of the value seen (the build loads it once) or *)
(* bt_enable, which blocks; the count is incremented after its answer.      *)
OfCount == UNCHANGED <<who, adv, in_dfu_mode, workVars, appVars, failed, stop_raced,
                       timers_broken, uploads>>

(* 0 and -EALREADY are taken for success; a start registers its callbacks. *)
EnableReturn(ok) ==
    /\ Goto("sid", IF ok THEN "id" ELSE "idle")
    /\ callbacks' = (callbacks \/ (ok /\ who = "dfu"))

EnableLook ==
    /\ pc["sid"] = "enable"
    /\ seen' = bt_enable_count
    /\ Goto("sid", "enable_count")
    /\ OfCount
    /\ UNCHANGED <<bt, bt_enable_count, adapter, timerVars, linkVars, count_raced>>

EnableMore ==
    /\ pc["sid"] = "enable_count" /\ seen > 0
    /\ bt_enable_count' = seen + 1
    /\ count_raced' = (count_raced \/ seen # bt_enable_count)
    /\ EnableReturn(TRUE)
    /\ OfCount
    /\ UNCHANGED <<bt, seen, adapter, timerVars, central>>

(* bt_enable: a host that is on, or on its way off, is EALREADY.           *)
EnableHost ==
    /\ pc["sid"] = "enable_count" /\ seen = 0
    /\ IF bt = "off"
       THEN /\ bt' = "starting"
            /\ Goto("sid", "enabling")
            /\ UNCHANGED <<callbacks, count_raced>>
       ELSE /\ EnableReturn(TRUE)
            /\ count_raced' = (count_raced \/ bt = "stopping")
            /\ UNCHANGED bt
    /\ OfCount
    /\ UNCHANGED <<bt_enable_count, seen, adapter, timerVars, central>>

\* Mutant: a failed enable is counted too.
MutEnabledCount(ok) == bt_enable_count + 1
EnabledCount(ok) == IF ok THEN bt_enable_count + 1 ELSE bt_enable_count

EnableAnswer ==
    /\ pc["sid"] = "enabling"
    /\ \E ok \in Succeeds("bt_enable") :
          /\ bt' = IF ok THEN "on" ELSE "off"
          /\ bt_enable_count' = EnabledCount(ok)
          /\ EnableReturn(ok)
    /\ OfCount
    /\ UNCHANGED <<seen, adapter, timerVars, central, count_raced>>

Enable == EnableLook \/ EnableMore \/ EnableHost \/ EnableAnswer

----------------------------------------------------------------------------
(* sid_ble_bt_disable, by either actor: only the last user switches the    *)
(* host off, and the count is 0 before bt_disable begins to.  The result is *)
(* negative, the remaining count, or 0; DFU mode takes a remaining count    *)
(* for an error and lets its timers go on.                                 *)
DisableReturn(a, result) ==
    /\ Goto(a, "idle")
    /\ IF result = 0 /\ (a = "sid" => who = "dfu")
       THEN exit_timer' = FALSE /\ led_timer' = FALSE
       ELSE UNCHANGED timerVars

\* Mutant: the host is switched off with every user.
MutSwitchesOff(n) == n >= 1
SwitchesOff(n) == n = 1

(* n is the count as a has seen it.                                        *)
Disable(a, n) ==
    /\ bt_enable_count' = IF n = 0 \/ SwitchesOff(n) THEN 0 ELSE n - 1
    /\ IF SwitchesOff(n) /\ bt = "on"
       THEN /\ bt' = "stopping"
            /\ Goto(a, "disabling")
            /\ UNCHANGED timerVars
       ELSE /\ DisableReturn(a, IF n <= 1 THEN -1 ELSE n - 1)
            /\ UNCHANGED bt
    /\ OfCount
    /\ UNCHANGED <<seen, adapter, linkVars>>

DisableLook ==
    /\ pc["sid"] = "disable"
    /\ seen' = bt_enable_count
    /\ Goto("sid", "disable_count")
    /\ OfCount
    /\ UNCHANGED <<bt, bt_enable_count, adapter, timerVars, linkVars, count_raced>>

SidDisable ==
    /\ pc["sid"] = "disable_count"
    /\ Disable("sid", seen)
    /\ count_raced' = (count_raced \/ seen # bt_enable_count)

(* Nothing preempts the work queue between its look and its decrement.     *)
WorkDisable ==
    /\ pc["work"] = "disable"
    /\ Disable("work", bt_enable_count)
    /\ UNCHANGED count_raced

DisableAnswer(a) ==
    /\ pc[a] = "disabling"
    /\ \E ok \in Succeeds("bt_disable") :
          /\ bt' = IF ok THEN "off" ELSE "on"
          /\ central' = (central /\ ~ok)
          /\ DisableReturn(a, IF ok THEN 0 ELSE -1)
    /\ OfCount
    /\ UNCHANGED <<bt_enable_count, seen, adapter, callbacks, count_raced>>

----------------------------------------------------------------------------
(* The Sidewalk BLE adapter; its calls of the count are those above.       *)
OfAdapter == UNCHANGED <<bt, bt_enable_count, seen, adv, in_dfu_mode, timerVars, workVars,
                         linkVars, appVars, failed, histVars, uploads>>

ble_adapter_init ==
    /\ pc["sid"] = "idle"
    /\ ~adapter
    /\ who' = "adapter"
    /\ Goto("sid", "enable")
    /\ OfAdapter
    /\ UNCHANGED adapter

ble_adapter_deinit ==
    /\ pc["sid"] = "idle"
    /\ adapter
    /\ adapter' = FALSE
    /\ who' = "adapter"
    /\ Goto("sid", "disable")
    /\ OfAdapter

(* create_ble_id, for either user.  Its failure does not undo the enable.  *)
CreateId ==
    /\ pc["sid"] = "id"
    /\ \E ok \in Succeeds("bt_id_create") :
          /\ adapter' = IF who = "adapter" THEN ok ELSE adapter
          /\ failed' = IF ok THEN failed ELSE failed + 1
          /\ Goto("sid", IF ok /\ who = "dfu" THEN "create" ELSE "idle")
    /\ UNCHANGED <<bt, bt_enable_count, who, seen, adv, in_dfu_mode, timerVars, workVars,
                   linkVars, appVars, histVars, uploads>>

----------------------------------------------------------------------------
(* nordic_dfu_ble_start, on the Sidewalk thread, from its advertising set  *)
(* on.  Its error returns keep the enable and the set.                     *)
OfStart == UNCHANGED <<btVars, workVars, linkVars, appVars, stop_raced, count_raced, uploads>>

(* A set that a failed stop left behind is forgotten, or leaves no room    *)
(* for another.                                                            *)
StartCreate ==
    /\ pc["sid"] = "create"
    /\ \E ok \in IF adv = "null" \/ bt # "on" THEN Answers("bt_le_ext_adv_create")
                                              ELSE BOOLEAN :
          /\ adv' = IF ok THEN "created" ELSE adv
          /\ failed' = IF ok /\ adv = "null" THEN failed ELSE failed + 1
          /\ Goto("sid", IF ok THEN "data" ELSE "idle")
    /\ OfStart
    /\ UNCHANGED <<in_dfu_mode, timerVars, timers_broken>>

(* The set may have been deleted by the end by timeout.                    *)
StartData ==
    /\ pc["sid"] = "data"
    /\ \E ok \in Answers("bt_le_ext_adv_set_data") :
          Goto("sid", IF ok /\ adv # "null" THEN "advertise" ELSE "idle")
    /\ OfStart
    /\ UNCHANGED <<adv, in_dfu_mode, timerVars, timers_broken, failed>>

(* The host refuses a set that is advertising, by a late pending_adv_start.*)
StartAdvertise ==
    /\ pc["sid"] = "advertise"
    /\ \E ok \in Answers("bt_le_ext_adv_start") :
          IF ok /\ adv = "created"
          THEN adv' = "on" /\ Goto("sid", "timers")
          ELSE Goto("sid", "idle") /\ UNCHANGED adv
    /\ OfStart
    /\ UNCHANGED <<in_dfu_mode, timerVars, timers_broken, failed>>

\* Mutant: the exit timer is not started.
MutExitTimerStart == exit_timer
ExitTimerStart == TRUE

(* k_timer_init of a timer that runs clears its node in the kernel's list  *)
(* of timeouts, and k_timer_start links it there again: from then on the    *)
(* kernel may lose it.                                                     *)
StartTimers ==
    /\ pc["sid"] = "timers"
    /\ in_dfu_mode' = TRUE
    /\ exit_timer' = ExitTimerStart
    /\ led_timer' = TRUE
    /\ timers_broken' = (timers_broken \/ exit_timer \/ led_timer)
    /\ Goto("sid", "idle")
    /\ OfStart
    /\ UNCHANGED <<adv, failed>>

----------------------------------------------------------------------------
(* nordic_dfu_ble_stop, on the Sidewalk thread or the work queue.          *)
OfStop == UNCHANGED <<btVars, timerVars, workVars, central, appVars, failed, histVars, uploads>>

(* A stop without a set passes NULL to the host; it is taken to fail.      *)
StopAdv(a) ==
    /\ pc[a] = "stop"
    /\ in_dfu_mode' = FALSE
    /\ callbacks' = FALSE
    /\ \E ok \in IF adv = "on" THEN Answers("bt_le_ext_adv_stop") ELSE {adv = "created"} :
          IF ok
          THEN adv' = "created" /\ Goto(a, "delete")
          ELSE Goto(a, "idle") /\ UNCHANGED adv
    /\ OfStop

(* A set that is on again, or gone, is not deleted. *)
StopDelete(a) ==
    /\ pc[a] = "delete"
    /\ \E ok \in Answers("bt_le_ext_adv_delete") :
          IF ok /\ adv = "created"
          THEN adv' = "null" /\ Goto(a, "disable")
          ELSE Goto(a, "idle") /\ UNCHANGED adv
    /\ OfStop
    /\ UNCHANGED <<in_dfu_mode, callbacks>>

----------------------------------------------------------------------------
(* app_btn_dfu_state: the state flips even if the event is not queued.     *)
app_btn_dfu_state ==
    /\ presses < MaxPresses
    /\ presses' = presses + 1
    /\ \E sent \in Succeeds("sidewalk_event_send") :
          events' = IF sent
                    THEN Append(events, IF go_to_dfu_state THEN "start" ELSE "stop")
                    ELSE events
    /\ go_to_dfu_state' = ~go_to_dfu_state
    /\ UNCHANGED <<btVars, adv, in_dfu_mode, timerVars, workVars, linkVars,
                   pc, failed, histVars, uploads>>

(* app_event_enter_dfu_mode, app_event_exit_dfu_mode. *)
app_event_dfu_mode ==
    /\ pc["sid"] = "idle"
    /\ events # <<>>
    /\ Goto("sid", IF Head(events) = "start" THEN "enable" ELSE "stop")
    /\ who' = "dfu"
    /\ events' = Tail(events)
    /\ stop_raced' = (stop_raced \/ pc["work"] # "idle")
    /\ UNCHANGED <<bt, bt_enable_count, seen, adapter, adv, in_dfu_mode, timerVars, workVars,
                   linkVars, go_to_dfu_state, presses, failed, count_raced, timers_broken,
                   uploads>>

----------------------------------------------------------------------------
(* The exit timer and its work item. *)
exit_dfu_mode ==
    /\ exit_timer
    /\ exit_timer' = FALSE
    /\ exit_dfu' = TRUE
    /\ UNCHANGED <<btVars, adv, in_dfu_mode, led_timer, adv_work, linkVars, appVars,
                   pc, failed, histVars, uploads>>

deinit_nordic_dfu ==
    /\ exit_dfu
    /\ pc["work"] = "idle"
    /\ exit_dfu' = FALSE
    /\ Goto("work", "stop")
    /\ stop_raced' = (stop_raced \/ pc["sid"] # "idle")
    /\ UNCHANGED <<btVars, adv, in_dfu_mode, timerVars, adv_work, linkVars, appVars,
                   failed, count_raced, timers_broken, uploads>>

(* A central connects, which ends advertising, and disconnects, which      *)
(* schedules its restart.                                                  *)
connected ==
    /\ adv = "on" /\ bt = "on" /\ ~central
    /\ central' = TRUE
    /\ adv' = "created"
    /\ UNCHANGED <<btVars, in_dfu_mode, timerVars, workVars, callbacks, appVars,
                   pc, failed, histVars, uploads>>

disconnected ==
    /\ central
    /\ central' = FALSE
    /\ adv_work' = (adv_work \/ callbacks)
    /\ UNCHANGED <<btVars, adv, in_dfu_mode, timerVars, exit_dfu, callbacks, appVars,
                   pc, failed, histVars, uploads>>

pending_adv_start ==
    /\ adv_work
    /\ pc["work"] = "idle"
    /\ adv_work' = FALSE
    /\ \E ok \in Answers("bt_le_ext_adv_start") :
          adv' = IF ok /\ adv # "null" THEN "on" ELSE adv
    /\ UNCHANGED <<btVars, in_dfu_mode, timerVars, exit_dfu, linkVars, appVars,
                   pc, failed, histVars, uploads>>

(* dfu_mode_cb: an upload starts, which restarts the exit timer, or ends,  *)
(* which reboots the device.                                               *)
dfu_started ==
    /\ central /\ callbacks
    /\ uploads < MaxUploads
    /\ uploads' = uploads + 1
    /\ exit_timer' = TRUE /\ led_timer' = TRUE
    /\ UNCHANGED <<btVars, adv, in_dfu_mode, workVars, linkVars, appVars, pc, failed, histVars>>

dfu_stopped ==
    /\ central /\ callbacks
    /\ uploads > 0
    /\ bt' = "off" /\ bt_enable_count' = 0 /\ adapter' = FALSE
    /\ who' = "dfu" /\ seen' = 0
    /\ adv' = "null" /\ in_dfu_mode' = FALSE
    /\ exit_timer' = FALSE /\ led_timer' = FALSE
    /\ exit_dfu' = FALSE /\ adv_work' = FALSE
    /\ central' = FALSE /\ callbacks' = FALSE
    /\ go_to_dfu_state' = TRUE /\ events' = <<>>
    /\ pc' = [a \in Actors |-> "idle"]
    /\ failed' = 0
    /\ stop_raced' = FALSE /\ count_raced' = FALSE /\ timers_broken' = FALSE
    /\ UNCHANGED <<presses, uploads>>

Stop(a) == StopAdv(a) \/ StopDelete(a) \/ DisableAnswer(a)
Sid ==
    \/ Enable \/ DisableLook \/ SidDisable
    \/ CreateId \/ StartCreate \/ StartData \/ StartAdvertise \/ StartTimers
    \/ Stop("sid")
Work == deinit_nordic_dfu \/ pending_adv_start \/ WorkDisable \/ Stop("work")

DfuNext ==
    \/ ble_adapter_init \/ ble_adapter_deinit
    \/ app_btn_dfu_state \/ app_event_dfu_mode \/ Sid
    \/ exit_dfu_mode \/ Work
    \/ connected \/ disconnected \/ dfu_started \/ dfu_stopped

DfuSpec == DfuInit /\ [][DfuNext]_dfu_vars

(* Timers expire as long as none was initialised while it ran, the work    *)
(* queue serves its items, and both threads go on from call to call.       *)
DfuFairSpec ==
    /\ DfuSpec
    /\ WF_dfu_vars(~timers_broken /\ exit_dfu_mode)
    /\ WF_dfu_vars(deinit_nordic_dfu)
    /\ WF_dfu_vars(pending_adv_start)
    /\ WF_dfu_vars(WorkDisable \/ Stop("work"))
    /\ WF_dfu_vars(Sid)

----------------------------------------------------------------------------
Places ==
    {"idle", "enable", "enable_count", "enabling", "id", "create", "data", "advertise",
     "timers", "stop", "delete", "disable", "disable_count", "disabling"}

DfuTypeOK ==
    /\ bt \in {"off", "starting", "on", "stopping"}
    /\ bt_enable_count \in Nat /\ seen \in Nat
    /\ who \in {"adapter", "dfu"} /\ adapter \in BOOLEAN
    /\ adv \in {"null", "created", "on"} /\ in_dfu_mode \in BOOLEAN
    /\ exit_timer \in BOOLEAN /\ led_timer \in BOOLEAN
    /\ exit_dfu \in BOOLEAN /\ adv_work \in BOOLEAN
    /\ central \in BOOLEAN /\ callbacks \in BOOLEAN
    /\ go_to_dfu_state \in BOOLEAN
    /\ stop_raced \in BOOLEAN /\ count_raced \in BOOLEAN /\ timers_broken \in BOOLEAN
    /\ events \in Seq({"start", "stop"})
    /\ pc \in [Actors -> Places]
    /\ failed \in Nat /\ presses \in Nat /\ uploads \in Nat

(* The Bluetooth host is not switched off under a user: while the Sidewalk *)
(* adapter is initialised or an SMP set exists it is on, whoever counts     *)
(* down.  Excepted is what follows when the work queue counts down between  *)
(* the thread's look at the count and its use, or the thread's enable meets *)
(* the host on its way off.                                                *)
HostOnForUsers == adapter \/ adv # "null" => bt = "on" \/ count_raced

Idle == \A a \in Actors : pc[a] = "idle"

(* When the adapter and DFU mode are both gone the count is back to zero   *)
(* and the host off, unless an init or a start failed half way or the two   *)
(* actors met as above.                                                    *)
HostOffWhenUnused ==
    Idle /\ ~adapter /\ adv = "null" /\ failed = 0 /\ ~count_raced =>
        bt_enable_count = 0 /\ bt = "off"

(* Both: the counting of sid_ble_bt_enable and sid_ble_bt_disable keeps the *)
(* host on for each of its users and off when the last one is gone, through *)
(* every failure and every meeting but those two.                          *)
HostFollowsUsers == HostOnForUsers /\ HostOffWhenUnused

(* DFU mode ends by itself when nobody ends it: the exit timer does, over  *)
(* connections, extended uploads and failed starts, unless a stop by        *)
(* timeout met the thread's own start or stop, or a start initialised a     *)
(* timer that was running.                                                 *)
DfuModeEnds == in_dfu_mode ~> (~in_dfu_mode \/ stop_raced \/ timers_broken)

----------------------------------------------------------------------------
(***************************************************************************)
(* The inductive invariant of the counting.  The adapter, an SMP set, an   *)
(* init or start that has not got that far and a stop that has deleted its  *)
(* set but not counted down yet each account for one enable.               *)
(***************************************************************************)
One(holds) == IF holds THEN 1 ELSE 0

Enables ==
    One(adapter) + One(adv # "null") + One(pc["sid"] \in {"id", "create"})
      + One(pc["sid"] \in {"disable", "disable_count"}) + One(pc["work"] = "disable")

(* Only the actor in a call of the host is changing it; an init or deinit  *)
(* of the adapter under way finds it uninitialised.                        *)
HostBusy ==
    /\ bt = "starting" <=> pc["sid"] = "enabling"
    /\ bt = "stopping" <=> \E a \in Actors : pc[a] = "disabling"
    /\ pc["sid"] # "disabling" \/ pc["work"] # "disabling"
    /\ pc["work"] \in {"idle", "stop", "delete", "disable", "disabling"}
    /\ who = "adapter" /\ pc["sid"] # "idle" => ~adapter

(* A host that bt_disable could not switch off is on and not counted; from *)
(* then on nothing switches it off.                                        *)
Uncounted == bt = "on" /\ bt_enable_count = 0

(* The count covers what accounts for it, and the host is on while it is   *)
(* counted; a count the thread has seen can only have gone down since.     *)
Counted ==
    /\ bt = "on" <=> bt_enable_count > 0
    /\ Enables <= bt_enable_count
    /\ pc["sid"] \in {"enable_count", "disable_count"} => seen >= bt_enable_count

CountCovers == count_raced \/ Uncounted \/ Counted
Covered == HostBusy /\ CountCovers

(* What it counts beyond that is left by an init or a start that failed.   *)
NothingExtra == count_raced \/ (~Uncounted /\ bt_enable_count <= Enables + failed)

(* The enables are counted without an answer that bt_disable failed.       *)
DisableWorks == "bt_disable" \notin Faults

CInv == DfuTypeOK /\ Covered
DfuIInv == CInv /\ NothingExtra
=============================================================================
