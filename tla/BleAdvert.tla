----------------------------- MODULE BleAdvert -----------------------------
(***************************************************************************)
(* BLE advertising of the Sidewalk service, sid_ble_advert.c: one extended  *)
(* advertising set of the Bluetooth host, started fast, replaced by a slow  *)
(* one by a delayed work item, stopped or deleted on request.               *)
(*                                                                         *)
(* Two actors: the caller (the Sidewalk thread, through the BLE adapter)    *)
(* and the system work queue that runs adv_interval_change.  Every call of  *)
(* the Bluetooth host waits for the controller, so the other actor may run  *)
(* before and after it.  adv_set and adv_state are shared without a lock;   *)
(* only k_work_cancel_delayable_sync waits for a running work item.         *)
(***************************************************************************)
EXTENDS Integers, FiniteSets

CONSTANTS
    MaxSets,        \* CONFIG_BT_EXT_ADV_MAX_ADV_SET
    Params,         \* the parameters sid_ble_advert_params_set is called with
    Faults,         \* the calls of the Bluetooth host that may fail, and "update"
    MayOverlap,     \* the operations that may run while the work item does
    MaxData         \* bound on updates of the advertising data

ASSUME SetsAssumption == MaxSets \in Nat \ {0}
ASSUME ParamsAssumption ==
    Params \subseteq [fast_enabled : BOOLEAN, slow_enabled : BOOLEAN,
                      fast_timeout : BOOLEAN, slow_timeout : BOOLEAN]
ASSUME BoundAssumption == MaxData \in Nat

Sets == 1 .. MaxSets
None == 0
Actors == {"caller", "work"}
Modes == {"disable", "fast", "slow"}

VARIABLES
    adv_set,        \* a set, or None
    adv_state,      \* BLE_ADV_DISABLE, BLE_ADV_FAST or BLE_ADV_SLOW
    advert_params,
    ad,             \* the manufacturer data: the number of updates so far
    host,           \* the advertising sets of the Bluetooth host
    scheduled,      \* is change_adv_work scheduled?
    pc, job,        \* where each actor is; what it is about to start
    op,             \* the operation the caller is in
    stale,          \* history: what adv_state still names after deinit deleted the set
    bad_use         \* history: was the host called with a NULL or deleted set?

vars == <<adv_set, adv_state, advert_params, ad, host, scheduled, pc, job, op, stale, bad_use>>

HostSets == [st : {"free", "idle", "on"}, mode : Modes, data : 0 .. MaxData]
FreeSet == [st |-> "free", mode |-> "disable", data |-> 0]
NoJob == [mode |-> "disable", timeout |-> FALSE]

Init ==
    /\ adv_set = None
    /\ adv_state = "disable"
    /\ advert_params \in Params
    /\ ad = 0
    /\ host = [s \in Sets |-> FreeSet]
    /\ scheduled = FALSE
    /\ pc = [a \in Actors |-> "idle"]
    /\ job = [a \in Actors |-> NoJob]
    /\ op = "none"
    /\ stale = "disable"
    /\ bad_use = FALSE

Succeeds(call) == IF call \in Faults THEN BOOLEAN ELSE {TRUE}
Goto(a, l) == pc' = [pc EXCEPT ![a] = l]
Created(s) == s # None /\ host[s].st # "free"

(* atomic_set of adv_state: from now on it names the set there is.         *)
SetState(m) == adv_state' = m /\ stale' = "disable"

----------------------------------------------------------------------------
(* adv_start_with_param, for either actor.  An error of the work item      *)
(* leaves advertising disabled, the caller returns it.                     *)
Failed(a) ==
    /\ Goto(a, "idle")
    /\ job' = [job EXCEPT ![a] = NoJob]
    /\ op' = IF a = "caller" THEN "none" ELSE op
    /\ IF a = "work" THEN SetState("disable") ELSE UNCHANGED <<adv_state, stale>>

AdvCreate(a) ==
    /\ pc[a] = "create"
    /\ \E ok \in Succeeds("bt_le_ext_adv_create") :
          IF ok /\ \E s \in Sets : host[s].st = "free"
          THEN /\ \E s \in Sets :
                    /\ host[s].st = "free"
                    /\ \A t \in 1 .. s - 1 : host[t].st # "free"
                    /\ adv_set' = s
                    /\ host' = [host EXCEPT ![s] =
                                  [st |-> "idle", mode |-> job[a].mode, data |-> 0]]
               /\ Goto(a, "data")
               /\ UNCHANGED <<adv_state, stale, job, op>>
          ELSE Failed(a) /\ UNCHANGED <<adv_set, host>>
    /\ UNCHANGED <<advert_params, ad, scheduled, bad_use>>

(* The error path of set_data and start deletes the set.                   *)
DeleteFailed(a) ==
    /\ Failed(a)
    /\ host' = [host EXCEPT ![adv_set] = FreeSet]
    /\ adv_set' = None

(* A NULL or deleted set given to the host. *)
BadUse(a) ==
    /\ bad_use' = TRUE
    /\ Failed(a)
    /\ UNCHANGED <<adv_set, host>>

AdvSetData(a) ==
    /\ pc[a] = "data"
    /\ IF Created(adv_set)
       THEN /\ \E ok \in Succeeds("bt_le_ext_adv_set_data") :
                 IF ok
                 THEN /\ host' = [host EXCEPT ![adv_set].data = ad]
                      /\ Goto(a, "start")
                      /\ UNCHANGED <<adv_set, adv_state, stale, job, op>>
                 ELSE DeleteFailed(a)
            /\ UNCHANGED bad_use
       ELSE BadUse(a)
    /\ UNCHANGED <<advert_params, ad, scheduled>>

AdvStart(a) ==
    /\ pc[a] = "start"
    /\ IF Created(adv_set)
       THEN /\ \E ok \in Succeeds("bt_le_ext_adv_start") :
                 IF ok
                 THEN /\ host' = [host EXCEPT ![adv_set].st = "on"]
                      /\ Goto(a, "started")
                      /\ UNCHANGED <<adv_set, adv_state, stale, job, op>>
                 ELSE DeleteFailed(a)
            /\ UNCHANGED bad_use
       ELSE BadUse(a)
    /\ UNCHANGED <<advert_params, ad, scheduled>>

\* Mutant: the caller's start does not schedule the work item.
MutReschedule(a) == scheduled \/ (a = "work" /\ job[a].timeout)
Reschedule(a) == scheduled \/ job[a].timeout

\* Mutant: the state is left as it was.
MutStartedState(a) == adv_state
StartedState(a) == job[a].mode

AdvStarted(a) ==
    /\ pc[a] = "started"
    /\ SetState(StartedState(a))
    /\ scheduled' = Reschedule(a)
    /\ Goto(a, "idle")
    /\ job' = [job EXCEPT ![a] = NoJob]
    /\ op' = IF a = "caller" THEN "none" ELSE op
    /\ UNCHANGED <<adv_set, advert_params, ad, host, bad_use>>

----------------------------------------------------------------------------
(* adv_interval_change, on the work queue. *)
WorkBegin ==
    /\ scheduled
    /\ pc["work"] = "idle"
    /\ op \in MayOverlap \cup {"none"}
    /\ scheduled' = FALSE
    /\ Goto("work", "check")
    /\ UNCHANGED <<adv_set, adv_state, stale, advert_params, ad, host, job, op, bad_use>>

(* bt_le_ext_adv_stop, of a set that may already be off after a connection. *)
WorkStop ==
    /\ pc["work"] = "check"
    /\ \E ok \in Succeeds("bt_le_ext_adv_stop") :
          CASE adv_set = None ->
                 Goto("work", "idle") /\ UNCHANGED <<adv_state, stale, host, bad_use>>
            [] adv_set # None /\ ~Created(adv_set) ->
                 Goto("work", "idle") /\ bad_use' = TRUE /\ UNCHANGED <<adv_state, stale, host>>
            [] Created(adv_set) /\ ok ->
                 /\ Goto("work", "delete")
                 /\ host' = [host EXCEPT ![adv_set].st = "idle"]
                 /\ UNCHANGED <<adv_state, stale, bad_use>>
            [] OTHER ->
                 /\ Goto("work", "idle")
                 /\ SetState("disable")
                 /\ UNCHANGED <<host, bad_use>>
    /\ UNCHANGED <<adv_set, advert_params, ad, scheduled, job, op>>

(* bt_le_ext_adv_delete refuses a set that is advertising. *)
WorkDelete ==
    /\ pc["work"] = "delete"
    /\ \E ok \in Succeeds("bt_le_ext_adv_delete") :
          CASE ~Created(adv_set) ->
                 Goto("work", "idle") /\ bad_use' = TRUE
                 /\ UNCHANGED <<adv_set, adv_state, stale, host>>
            [] Created(adv_set) /\ ok /\ host[adv_set].st # "on" ->
                 /\ Goto("work", "decide")
                 /\ host' = [host EXCEPT ![adv_set] = FreeSet]
                 /\ adv_set' = None
                 /\ UNCHANGED <<adv_state, stale, bad_use>>
            [] OTHER ->
                 /\ Goto("work", "idle")
                 /\ SetState("disable")
                 /\ UNCHANGED <<adv_set, host, bad_use>>
    /\ UNCHANGED <<advert_params, ad, scheduled, job, op>>

AfterFast == "disable"

WorkDecide ==
    /\ pc["work"] = "decide"
    /\ IF adv_state = "fast" /\ advert_params.slow_enabled
       THEN /\ Goto("work", "create")
            /\ job' = [job EXCEPT !["work"] =
                         [mode |-> "slow", timeout |-> advert_params.slow_timeout]]
            /\ UNCHANGED <<adv_state, stale>>
       ELSE Goto("work", "idle") /\ SetState(AfterFast) /\ UNCHANGED job
    /\ UNCHANGED <<adv_set, advert_params, ad, host, scheduled, op, bad_use>>

----------------------------------------------------------------------------
(* The caller's operations. *)
MayBegin(o) ==
    /\ pc["caller"] = "idle"
    /\ pc["work"] = "idle" \/ o \in MayOverlap
Begin(o) == MayBegin(o) /\ op' = o

(* k_work_cancel_delayable_sync: returns once the work item does not run.  *)
\* Mutant: the running work item is not waited for.
MutCancelSync == scheduled' = FALSE
CancelSync ==
    /\ pc["work"] = "idle"
    /\ scheduled' = FALSE

sid_ble_advert_start ==
    /\ Begin("start")
    /\ Goto("caller", IF adv_set # None THEN "cancel" ELSE "choose")
    /\ UNCHANGED <<adv_set, adv_state, stale, advert_params, ad, host, scheduled, job, bad_use>>

StartCancel ==
    /\ pc["caller"] = "cancel"
    /\ CancelSync
    /\ Goto("caller", "replace")
    /\ UNCHANGED <<adv_set, adv_state, stale, advert_params, ad, host, job, op, bad_use>>

(* Both results are ignored: a set that could not be deleted stays.        *)
\* Mutant: the set is stopped and not deleted.
MutReplaced(stopped, deleted) == [host EXCEPT ![adv_set].st = "idle"]
Replaced(stopped, deleted) ==
    IF deleted /\ (stopped \/ host[adv_set].st # "on")
    THEN [host EXCEPT ![adv_set] = FreeSet]
    ELSE host

StartReplace ==
    /\ pc["caller"] = "replace"
    /\ Goto("caller", "choose")
    /\ adv_set' = None
    /\ SetState("disable")
    /\ IF adv_set = None
       THEN bad_use' = TRUE /\ UNCHANGED host
       ELSE \E stopped \in Succeeds("bt_le_ext_adv_stop"),
               deleted \in Succeeds("bt_le_ext_adv_delete") :
              /\ host' = Replaced(stopped, deleted)
              /\ UNCHANGED bad_use
    /\ UNCHANGED <<advert_params, ad, scheduled, job, op>>

StartChoose ==
    /\ pc["caller"] = "choose"
    /\ LET p == advert_params
       IN  IF p.fast_enabled \/ p.slow_enabled
           THEN /\ Goto("caller", "create")
                /\ job' = [job EXCEPT !["caller"] =
                             IF p.fast_enabled
                             THEN [mode |-> "fast", timeout |-> p.fast_timeout]
                             ELSE [mode |-> "slow", timeout |-> p.slow_timeout]]
                /\ UNCHANGED op
           ELSE Goto("caller", "idle") /\ op' = "none" /\ UNCHANGED job
    /\ UNCHANGED <<adv_set, adv_state, stale, advert_params, ad, host, scheduled, bad_use>>

(* sid_ble_advert_update: the state is read first, the set used after it.  *)
sid_ble_advert_update ==
    /\ Begin("update")
    /\ ad < MaxData
    /\ Goto("caller", IF adv_state = "disable" THEN "copy" ELSE "copy_set")
    /\ UNCHANGED <<adv_set, adv_state, stale, advert_params, ad, host, scheduled, job, bad_use>>

adv_manuf_data_copy == ad + 1

\* Mutant: the advertised set is not given the new data.
MutUpdatedHost(ok) == host
UpdatedHost(ok) ==
    IF pc["caller"] = "copy_set" /\ Created(adv_set) /\ ok
    THEN [host EXCEPT ![adv_set].data = adv_manuf_data_copy]
    ELSE host

UpdateData ==
    /\ pc["caller"] \in {"copy", "copy_set"}
    /\ ad' = adv_manuf_data_copy
    /\ \E ok \in Succeeds("update") : host' = UpdatedHost(ok)
    /\ bad_use' = (bad_use \/ (pc["caller"] = "copy_set"
                               /\ ~Created(adv_set) /\ stale = "disable"))
    /\ Goto("caller", "idle")
    /\ op' = "none"
    /\ UNCHANGED <<adv_set, adv_state, stale, advert_params, scheduled, job>>

sid_ble_advert_stop ==
    /\ Begin("stop")
    /\ Goto("caller", "stop_cancel")
    /\ UNCHANGED <<adv_set, adv_state, stale, advert_params, ad, host, scheduled, job, bad_use>>

StopCancel ==
    /\ pc["caller"] = "stop_cancel"
    /\ CancelSync
    /\ Goto("caller", IF adv_set = None THEN "stopped" ELSE "stop")
    /\ UNCHANGED <<adv_set, adv_state, stale, advert_params, ad, host, job, op, bad_use>>

StopDone ==
    /\ pc["caller"] \in {"stopped", "stop"}
    /\ Goto("caller", "idle")
    /\ op' = "none"
    /\ \E ok \in Succeeds("bt_le_ext_adv_stop") :
          CASE pc["caller"] = "stopped" ->
                 SetState("disable") /\ UNCHANGED <<host, bad_use>>
            [] pc["caller"] = "stop" /\ ~Created(adv_set) ->
                 bad_use' = TRUE /\ UNCHANGED <<adv_state, stale, host>>
            [] pc["caller"] = "stop" /\ Created(adv_set) /\ ok ->
                 /\ SetState("disable")
                 /\ host' = [host EXCEPT ![adv_set].st = "idle"]
                 /\ UNCHANGED bad_use
            [] OTHER -> UNCHANGED <<adv_state, stale, host, bad_use>>
    /\ UNCHANGED <<adv_set, advert_params, ad, scheduled, job>>

(* Nothing stops the set or cancels the work item, and adv_state keeps its *)
(* value: the host refuses to delete a set that is on, and deletes one that *)
(* a connection has taken off the air.                                     *)
sid_ble_advert_deinit ==
    /\ MayBegin("deinit")
    /\ \E ok \in Succeeds("bt_le_ext_adv_delete") :
          IF ok /\ Created(adv_set) /\ host[adv_set].st # "on"
          THEN /\ host' = [host EXCEPT ![adv_set] = FreeSet]
               /\ adv_set' = None
               /\ stale' = adv_state
          ELSE UNCHANGED <<host, adv_set, stale>>
    /\ bad_use' = (bad_use \/ (adv_set # None /\ ~Created(adv_set)))
    /\ UNCHANGED <<adv_state, advert_params, ad, scheduled, pc, job, op>>

sid_ble_advert_params_set ==
    /\ MayBegin("params_set")
    /\ advert_params' \in Params
    /\ UNCHANGED <<adv_set, adv_state, stale, ad, host, scheduled, pc, job, op, bad_use>>

----------------------------------------------------------------------------
(* A central connects: the host stops the set, and the connection callback, *)
(* run to this point by the same thread, cancels the work item if it does   *)
(* not run yet.                                                             *)
sid_ble_advert_notify_connection == scheduled' = FALSE

Connect ==
    /\ \E s \in Sets :
          /\ host[s].st = "on"
          /\ host' = [host EXCEPT ![s].st = "idle"]
    /\ sid_ble_advert_notify_connection
    /\ UNCHANGED <<adv_set, adv_state, stale, advert_params, ad, pc, job, op, bad_use>>

AdvStep(a) == AdvCreate(a) \/ AdvSetData(a) \/ AdvStart(a) \/ AdvStarted(a)
Work == WorkStop \/ WorkDelete \/ WorkDecide \/ AdvStep("work")
Caller ==
    \/ StartCancel \/ StartReplace \/ StartChoose \/ AdvStep("caller")
    \/ UpdateData \/ StopCancel \/ StopDone

Next ==
    \/ sid_ble_advert_start \/ sid_ble_advert_update \/ sid_ble_advert_stop
    \/ sid_ble_advert_deinit \/ sid_ble_advert_params_set
    \/ Caller
    \/ WorkBegin \/ Work
    \/ Connect

Spec == Init /\ [][Next]_vars

(* The work queue runs what is due, and the caller finishes an operation   *)
(* it has begun.  The caller leaves the work queue time between operations.*)
FairSpec == Spec /\ SF_vars(WorkBegin) /\ WF_vars(Work) /\ WF_vars(Caller)

----------------------------------------------------------------------------
TypeOK ==
    /\ adv_set \in Sets \cup {None}
    /\ adv_state \in Modes
    /\ advert_params \in Params
    /\ ad \in 0 .. MaxData
    /\ host \in [Sets -> HostSets]
    /\ scheduled \in BOOLEAN
    /\ pc \in [Actors -> {"idle", "create", "data", "start", "started", "check",
                          "delete", "decide", "cancel", "replace", "choose",
                          "copy", "copy_set", "stop_cancel", "stop", "stopped"}]
    /\ job \in [Actors -> [mode : Modes, timeout : BOOLEAN]]
    /\ op \in {"none", "start", "update", "stop"}
    /\ stale \in Modes
    /\ bad_use \in BOOLEAN
    /\ pc["caller"] \in {"copy", "copy_set"} => ad < MaxData

Quiet == \A a \in Actors : pc[a] = "idle"

(* The host never holds a set the module has lost track of: at most one    *)
(* exists, and adv_set is it.                                              *)
NoSetLost == {s \in Sets : host[s].st # "free"} = {adv_set} \ {None}

(* Calls of the host are made with a set that exists; excepted is the      *)
(* update after a deinit that left adv_state naming the set it deleted.    *)
UpdatesCurrentSet == ~bad_use

(* Both: adv_set is the host's set whenever the caller, the work item, a    *)
(* connection and a deinit in any state interleave, and no call of the host *)
(* gets another one, but for that update.                                   *)
SetsTracked == NoSetLost /\ UpdatesCurrentSet

(* Between operations the radio does what adv_state says: nothing is on    *)
(* while it is disabled, and what is on has the interval it names.         *)
AdvertisesState ==
    Quiet => \A s \in Sets : host[s].st = "on" => host[s].mode = adv_state

(* Between operations what is advertised is the data of the last update.   *)
AdvertisesNewestData ==
    Quiet => \A s \in Sets : host[s].st = "on" => host[s].data = ad

(* Both: what is on the air has the interval adv_state names and the data   *)
(* of the last update, also after failed starts and cancelled work.         *)
AirMatchesState == AdvertisesState /\ AdvertisesNewestData

FastOn == \E s \in Sets : host[s].st = "on" /\ host[s].mode = "fast"

(* If the parameters limit fast advertising it ends: by the switch to slow, *)
(* a stop, a connection or a restart, over every cancelled and rescheduled  *)
(* work item.                                                               *)
FastIsLimited ==
    FastOn /\ (\A p \in Params : p.fast_enabled => p.fast_timeout) ~> ~FastOn

----------------------------------------------------------------------------
(***************************************************************************)
(* The conditions under which the properties above hold: while the work    *)
(* item runs only a stop and a change of parameters begin, and the host     *)
(* stops a set, and deletes one that is off, when it is told to.            *)
(***************************************************************************)
Orderly ==
    /\ MayOverlap \subseteq {"stop", "params_set"}
    /\ {"bt_le_ext_adv_stop", "bt_le_ext_adv_delete"} \cap Faults = {}

(* The host also takes an update of the advertising data.                  *)
UpdateWorks == "update" \notin Faults

(* The inductive invariant.  The caller is outside of an operation, or     *)
(* waits in a stop, while the work item runs.                              *)
Turns ==
    /\ pc["work"] \in {"idle", "check", "delete", "decide", "create", "data", "start", "started"}
    /\ op = "none" => pc["caller"] = "idle"
    /\ op = "start" => pc["caller"] \in {"cancel", "replace", "choose", "create", "data", "start",
                                        "started"}
    /\ op = "update" => pc["caller"] \in {"copy", "copy_set"}
    /\ op = "stop" => pc["caller"] \in {"stop_cancel", "stop", "stopped"}
    /\ pc["work"] # "idle" => pc["caller"] \in {"idle", "stop_cancel"}
    /\ pc["caller"] \in {"stop", "stopped"} => ~scheduled

(* adv_set is the host's one set, and each actor knows whether it exists.  *)
SetKnown ==
    /\ \A s \in Sets : host[s].st # "free" <=> s = adv_set
    /\ pc["caller"] \in {"cancel", "replace", "stop"} => adv_set # None
    /\ pc["caller"] = "copy_set" => adv_set # None \/ stale # "disable"
    /\ pc["caller"] \in {"choose", "stopped"} => adv_set = None
    /\ pc["work"] = "decide" => adv_set = None
    /\ pc["work"] = "delete" => adv_set # None /\ host[adv_set].st = "idle"
    /\ \A a \in Actors : pc[a] = "create" => adv_set = None
    /\ \A a \in Actors : pc[a] \in {"data", "start", "started"} => adv_set # None
    /\ ~bad_use

(* adv_state is not disabled while there is no set, except between the     *)
(* work item's deletion of one and its decision on another, and after such  *)
(* a deinit until adv_state is set again.                                  *)
StateKnown ==
    /\ adv_state # "disable" /\ pc["work"] \notin {"decide", "create"} =>
           adv_set # None \/ stale # "disable"
    /\ pc["caller"] = "copy" => adv_state = "disable"
    /\ pc["caller"] \in {"choose", "create", "data", "start", "started"} =>
           adv_state = "disable" \/ stale # "disable"

SetInv == TypeOK /\ Turns /\ SetKnown /\ StateKnown

(* The interval of the set is what its starter asked for, then adv_state.  *)
ModeKnown ==
    /\ \A a \in Actors : pc[a] \in {"create", "data", "start", "started"} => job[a].mode # "disable"
    /\ \A a \in Actors : pc[a] \in {"data", "start"} => host[adv_set].st = "idle"
    /\ \A a \in Actors : pc[a] \in {"data", "start", "started"} => host[adv_set].mode = job[a].mode
    /\ adv_set # None => host[adv_set].mode # "disable"
    /\ adv_set # None /\ host[adv_set].st = "on" /\ (\A a \in Actors : pc[a] # "started") =>
           host[adv_set].mode = adv_state

(* Its data are the newest once they are set.                              *)
DataKnown ==
    /\ \A a \in Actors : pc[a] \in {"start", "started"} => host[adv_set].data = ad
    /\ adv_set # None /\ host[adv_set].st = "on" => host[adv_set].data = ad

AirInv == SetInv /\ ModeKnown /\ DataKnown
=============================================================================
