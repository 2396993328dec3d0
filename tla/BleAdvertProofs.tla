------------------------- MODULE BleAdvertProofs -------------------------
(***************************************************************************)
(* Proofs of BleAdvert, for every number of advertising sets, parameters    *)
(* and bound: adv_set is the Bluetooth host's one set, no call gets another *)
(* one, and what is on the air has the interval of adv_state and the newest *)
(* data.  The hypotheses are Orderly and UpdateWorks.                       *)
(***************************************************************************)
EXTENDS BleAdvert, TLAPS

\* The answers of a call are Booleans.
LEMMA SucceedsBoolean == \A call : Succeeds(call) \subseteq BOOLEAN
  BY DEF Succeeds

-----------------------------------------------------------------------------
(* What an action does to the host's sets is one of two things. *)

\* No set is left.
Gone ==
    /\ adv_set' = None
    /\ host' \in [Sets -> HostSets]
    /\ \A s \in Sets : host'[s].st = "free"

\* One set is there, and adv_set is it.
HostIs(st, mode, data) ==
    /\ adv_set' \in Sets /\ adv_set' # None
    /\ host' \in [Sets -> HostSets]
    /\ \A s \in Sets : host'[s].st # "free" <=> s = adv_set'
    /\ host'[adv_set'].st = st /\ host'[adv_set'].mode = mode /\ host'[adv_set'].data = data

\* Deleting the set of adv_set leaves none.
LEMMA DeleteGone ==
    ASSUME TypeOK, SetKnown, adv_set # None, adv_set' = None,
           host' = [host EXCEPT ![adv_set] = FreeSet]
    PROVE  Gone
<1>1. FreeSet \in HostSets
  BY BoundAssumption DEF FreeSet, HostSets, Modes
<1>2. host' \in [Sets -> HostSets]
  BY <1>1 DEF TypeOK
<1>3. ASSUME NEW s \in Sets PROVE host'[s].st = "free"
  BY DEF TypeOK, SetKnown, FreeSet
<1> QED
  BY <1>2, <1>3 DEF Gone

\* Changing a field of the set of adv_set leaves it the only one.
LEMMA FieldsChange ==
    ASSUME TypeOK, SetKnown, adv_set # None, adv_set' = adv_set,
           NEW st \in {"idle", "on"}, NEW data \in 0 .. MaxData,
           \/ host' = [host EXCEPT ![adv_set].st = st] /\ data = host[adv_set].data
           \/ host' = [host EXCEPT ![adv_set].data = data] /\ st = host[adv_set].st
    PROVE  HostIs(st, host[adv_set].mode, data)
<1>1. adv_set \in Sets
  BY DEF TypeOK
<1>2. host[adv_set] \in HostSets
  BY <1>1 DEF TypeOK
<1> DEFINE h == [st |-> st, mode |-> host[adv_set].mode, data |-> data]
<1>3. h \in HostSets
  BY <1>2 DEF HostSets
<1>4. host' = [host EXCEPT ![adv_set] = h]
  BY <1>1, <1>2 DEF TypeOK, HostSets
<1>5. host' \in [Sets -> HostSets] /\ host'[adv_set] = h
  BY <1>1, <1>3, <1>4 DEF TypeOK
<1>6. ASSUME NEW s \in Sets PROVE host'[s].st # "free" <=> s = adv_set
  BY <1>1, <1>4, <1>5 DEF TypeOK, SetKnown
<1> QED
  BY <1>1, <1>5, <1>6 DEF HostIs

\* bt_le_ext_adv_create takes a free set.
LEMMA CreateHost ==
    ASSUME TypeOK, SetKnown, adv_set = None, NEW s \in Sets, NEW m \in Modes, adv_set' = s,
           host' = [host EXCEPT ![s] = [st |-> "idle", mode |-> m, data |-> 0]]
    PROVE  HostIs("idle", m, 0)
<1> DEFINE h == [st |-> "idle", mode |-> m, data |-> 0]
<1>1. h \in HostSets
  BY BoundAssumption DEF HostSets
<1>2. s # None
  BY SetsAssumption DEF Sets, None
<1>3. host' \in [Sets -> HostSets] /\ host'[s] = h
  BY <1>1 DEF TypeOK
<1>4. ASSUME NEW t \in Sets PROVE host'[t].st # "free" <=> t = s
  <2>1. t # None
    BY SetsAssumption DEF Sets, None
  <2> QED
    BY <1>3, <2>1 DEF TypeOK, SetKnown
<1> QED
  BY <1>2, <1>3, <1>4 DEF HostIs

\* A set that is known exists.
LEMMA SetExists ==
    ASSUME TypeOK, SetKnown
    PROVE  /\ Created(adv_set) <=> adv_set # None
           /\ adv_set # None =>
                  host[adv_set].st \in {"idle", "on"} /\ host[adv_set].data \in 0 .. MaxData
<1>1. adv_set # None => adv_set \in Sets
  BY DEF TypeOK
<1> QED
  BY <1>1 DEF TypeOK, SetKnown, Created, HostSets

-----------------------------------------------------------------------------
(* The outcomes of the actions that call the host, when the invariant holds. *)

\* deinit deletes the set that exists, or leaves everything.
DeinitDoes ==
    /\ \/ Gone /\ stale' = adv_state
       \/ UNCHANGED <<host, adv_set, stale>>
    /\ bad_use' = FALSE
    /\ pc["caller"] = "idle" /\ pc["work"] = "idle"
    /\ UNCHANGED <<adv_state, advert_params, ad, scheduled, pc, job, op>>

\* It is called between operations, whatever adv_state is.
LEMMA DeinitOutcome ==
    ASSUME SetInv, Orderly, sid_ble_advert_deinit PROVE DeinitDoes
<1> USE DEF SetInv
<1>1. PICK ok \in Succeeds("bt_le_ext_adv_delete") :
        IF ok /\ Created(adv_set) /\ host[adv_set].st # "on"
        THEN /\ host' = [host EXCEPT ![adv_set] = FreeSet] /\ adv_set' = None
             /\ stale' = adv_state
        ELSE UNCHANGED <<host, adv_set, stale>>
  BY DEF sid_ble_advert_deinit
<1>2. \/ Gone /\ stale' = adv_state
      \/ UNCHANGED <<host, adv_set, stale>>
  BY <1>1, SetExists, DeleteGone
<1>3. bad_use' = FALSE
  BY SetExists DEF sid_ble_advert_deinit, TypeOK, SetKnown
<1>4. pc["caller"] = "idle" /\ pc["work"] = "idle"
  BY DEF sid_ble_advert_deinit, Orderly, MayBegin
<1> QED
  BY <1>2, <1>3, <1>4 DEF sid_ble_advert_deinit, DeinitDoes

\* A start over a set that exists stops and deletes it.
StartReplaceDoes ==
    /\ pc["caller"] = "replace"
    /\ Gone /\ SetState("disable") /\ Goto("caller", "choose")
    /\ UNCHANGED <<advert_params, ad, scheduled, job, op, bad_use>>

\* Neither call fails when the host is orderly.
LEMMA ReplaceOutcome ==
    ASSUME SetInv, Orderly, StartReplace PROVE StartReplaceDoes
<1> USE DEF SetInv
<1>1. adv_set # None /\ adv_set' = None
  BY DEF StartReplace, SetKnown
<1>2. host' = Replaced(TRUE, TRUE) /\ UNCHANGED bad_use
  BY <1>1 DEF StartReplace, Succeeds, Orderly
<1>3. Gone
  BY <1>1, <1>2, DeleteGone DEF Replaced
<1> QED
  BY <1>2, <1>3 DEF StartReplace, StartReplaceDoes

\* bt_le_ext_adv_create makes the one set, or the start returns an error.
AdvCreateDoes(a) ==
    /\ pc[a] = "create"
    /\ \/ /\ HostIs("idle", job[a].mode, 0)
          /\ Goto(a, "data") /\ UNCHANGED <<adv_state, stale, job, op>>
       \/ Failed(a) /\ UNCHANGED <<adv_set, host>>
    /\ UNCHANGED <<advert_params, ad, scheduled, bad_use>>

\* There is no set when a start or the work item creates one.
LEMMA CreateOutcome ==
    ASSUME SetInv, NEW a \in Actors, AdvCreate(a) PROVE AdvCreateDoes(a)
<1> USE DEF SetInv
<1>1. adv_set = None /\ job[a].mode \in Modes
  BY DEF AdvCreate, SetKnown, TypeOK
<1>2. CASE Failed(a) /\ UNCHANGED <<adv_set, host>>
  BY <1>2 DEF AdvCreate, AdvCreateDoes
<1>3. CASE /\ \E s \in Sets :
                /\ adv_set' = s
                /\ host' = [host EXCEPT ![s] = [st |-> "idle", mode |-> job[a].mode, data |-> 0]]
           /\ Goto(a, "data") /\ UNCHANGED <<adv_state, stale, job, op>>
  <2>1. HostIs("idle", job[a].mode, 0)
    BY <1>1, <1>3, CreateHost
  <2> QED
    BY <1>3, <2>1 DEF AdvCreate, AdvCreateDoes
<1> QED
  BY <1>2, <1>3 DEF AdvCreate

\* bt_le_ext_adv_set_data gives the set the data, or the set is deleted.
AdvSetDataDoes(a) ==
    /\ pc[a] = "data"
    /\ adv_set # None
    /\ \/ /\ HostIs(host[adv_set].st, host[adv_set].mode, ad) /\ adv_set' = adv_set
          /\ Goto(a, "start") /\ UNCHANGED <<adv_state, stale, job, op>>
       \/ Gone /\ Failed(a)
    /\ UNCHANGED <<advert_params, ad, scheduled, bad_use>>

\* The set that was created is still there.
LEMMA SetDataOutcome ==
    ASSUME SetInv, NEW a \in Actors, AdvSetData(a) PROVE AdvSetDataDoes(a)
<1> USE DEF SetInv
<1>1. adv_set # None /\ Created(adv_set)
  BY SetExists DEF AdvSetData, SetKnown
<1>2. CASE DeleteFailed(a) /\ UNCHANGED bad_use
  BY <1>1, <1>2, DeleteGone DEF AdvSetData, DeleteFailed, AdvSetDataDoes
<1>3. CASE /\ host' = [host EXCEPT ![adv_set].data = ad]
           /\ Goto(a, "start") /\ UNCHANGED <<adv_set, adv_state, stale, job, op, bad_use>>
  <2>1. HostIs(host[adv_set].st, host[adv_set].mode, ad)
    BY <1>1, <1>3, SetExists, FieldsChange DEF TypeOK
  <2> QED
    BY <1>1, <1>3, <2>1 DEF AdvSetData, AdvSetDataDoes
<1> QED
  BY <1>1, <1>2, <1>3 DEF AdvSetData

\* bt_le_ext_adv_start puts the set on the air, or the set is deleted.
AdvStartDoes(a) ==
    /\ pc[a] = "start"
    /\ adv_set # None
    /\ \/ /\ HostIs("on", host[adv_set].mode, host[adv_set].data) /\ adv_set' = adv_set
          /\ Goto(a, "started") /\ UNCHANGED <<adv_state, stale, job, op>>
       \/ Gone /\ Failed(a)
    /\ UNCHANGED <<advert_params, ad, scheduled, bad_use>>

\* The set whose data were set is still there.
LEMMA StartOutcome ==
    ASSUME SetInv, NEW a \in Actors, AdvStart(a) PROVE AdvStartDoes(a)
<1> USE DEF SetInv
<1>1. adv_set # None /\ Created(adv_set)
  BY SetExists DEF AdvStart, SetKnown
<1>2. CASE DeleteFailed(a) /\ UNCHANGED bad_use
  BY <1>1, <1>2, DeleteGone DEF AdvStart, DeleteFailed, AdvStartDoes
<1>3. CASE /\ host' = [host EXCEPT ![adv_set].st = "on"]
           /\ Goto(a, "started") /\ UNCHANGED <<adv_set, adv_state, stale, job, op, bad_use>>
  <2>1. HostIs("on", host[adv_set].mode, host[adv_set].data)
    BY <1>1, <1>3, SetExists, FieldsChange
  <2> QED
    BY <1>1, <1>3, <2>1 DEF AdvStart, AdvStartDoes
<1> QED
  BY <1>1, <1>2, <1>3 DEF AdvStart

\* An update gives the set that exists the new data.
UpdateDataDoes ==
    /\ \/ pc["caller"] = "copy" /\ UNCHANGED host
       \/ pc["caller"] = "copy_set" /\ adv_set = None /\ UNCHANGED host
       \/ /\ pc["caller"] = "copy_set" /\ adv_set # None
          /\ \/ HostIs(host[adv_set].st, host[adv_set].mode, ad + 1)
             \/ ~UpdateWorks /\ UNCHANGED host
    /\ ad' = ad + 1
    /\ ad' \in 0 .. MaxData
    /\ Goto("caller", "idle")
    /\ op' = "none"
    /\ UNCHANGED <<adv_set, adv_state, stale, advert_params, scheduled, job, bad_use>>

\* The set found when adv_state was read still exists, if there was one.
LEMMA UpdateOutcome ==
    ASSUME SetInv, UpdateData PROVE UpdateDataDoes
<1> USE DEF SetInv
<1>1. ad' = ad + 1 /\ ad' \in 0 .. MaxData
  BY BoundAssumption DEF UpdateData, TypeOK, adv_manuf_data_copy
<1>2. pc["caller"] = "copy" => UNCHANGED <<host, bad_use>>
  BY DEF UpdateData, UpdatedHost, TypeOK
<1>3. pc["caller"] = "copy_set" =>
        (adv_set # None => Created(adv_set)) /\ UNCHANGED bad_use
  BY SetExists DEF UpdateData, SetKnown, TypeOK
<1>5. CASE pc["caller"] = "copy_set" /\ adv_set = None
  <2>1. UNCHANGED host
    BY <1>5 DEF UpdateData, UpdatedHost, Created
  <2> QED
    BY <1>1, <1>3, <1>5, <2>1 DEF UpdateData, UpdateDataDoes
<1>4. CASE pc["caller"] = "copy_set" /\ adv_set # None
  <2>1. PICK ok \in Succeeds("update") : host' = UpdatedHost(ok)
    BY DEF UpdateData
  <2>2. CASE ok
    <3>1. host' = [host EXCEPT ![adv_set].data = ad + 1]
      BY <1>3, <1>4, <2>1, <2>2 DEF UpdatedHost, adv_manuf_data_copy
    <3>2. HostIs(host[adv_set].st, host[adv_set].mode, ad + 1)
      BY <1>1, <1>3, <1>4, <3>1, SetExists, FieldsChange DEF UpdateData
    <3> QED
      BY <1>1, <1>3, <1>4, <3>2 DEF UpdateData, UpdateDataDoes
  <2>3. CASE ~ok
    <3>1. UNCHANGED host
      BY <2>1, <2>3 DEF UpdatedHost
    <3>2. ~UpdateWorks
      BY <2>1, <2>3 DEF UpdateWorks, Succeeds
    <3> QED
      BY <1>1, <1>3, <1>4, <3>1, <3>2 DEF UpdateData, UpdateDataDoes
  <2> QED
    BY <2>2, <2>3
<1> QED
  BY <1>1, <1>2, <1>4, <1>5 DEF UpdateData, UpdateDataDoes

\* A stop takes the set that exists off the air.
StopDoneDoes ==
    /\ \/ pc["caller"] = "stopped" /\ UNCHANGED host
       \/ /\ pc["caller"] = "stop" /\ adv_set # None
          /\ HostIs("idle", host[adv_set].mode, host[adv_set].data)
    /\ SetState("disable")
    /\ Goto("caller", "idle")
    /\ op' = "none"
    /\ UNCHANGED <<adv_set, advert_params, ad, scheduled, job, bad_use>>

\* The set found after the work item was cancelled still exists.
LEMMA StopOutcome ==
    ASSUME SetInv, Orderly, StopDone PROVE StopDoneDoes
<1> USE DEF SetInv
<1>1. CASE pc["caller"] = "stopped"
  <2>1. SetState("disable") /\ UNCHANGED <<host, bad_use>>
    BY <1>1 DEF StopDone
  <2> QED
    BY <1>1, <2>1 DEF StopDone, StopDoneDoes
<1>2. CASE pc["caller"] = "stop"
  <2>1. adv_set # None /\ Created(adv_set)
    BY <1>2, SetExists DEF SetKnown
  <2>2. /\ SetState("disable") /\ UNCHANGED <<adv_set, bad_use>>
        /\ host' = [host EXCEPT ![adv_set].st = "idle"]
    BY <1>2, <2>1 DEF StopDone, Succeeds, Orderly
  <2>3. HostIs("idle", host[adv_set].mode, host[adv_set].data)
    BY <2>1, <2>2, SetExists, FieldsChange
  <2> QED
    BY <1>2, <2>1, <2>2, <2>3 DEF StopDone, StopDoneDoes
<1> QED
  BY <1>1, <1>2 DEF StopDone

\* The work item stops the set, if there is one.
WorkStopDoes ==
    /\ pc["work"] = "check"
    /\ \/ adv_set = None /\ Goto("work", "idle") /\ UNCHANGED host
       \/ /\ adv_set # None /\ Goto("work", "delete")
          /\ HostIs("idle", host[adv_set].mode, host[adv_set].data)
    /\ UNCHANGED <<adv_set, adv_state, stale, advert_params, ad, scheduled, job, op, bad_use>>

\* The caller is not in an operation that deletes it.
LEMMA WorkStopOutcome ==
    ASSUME SetInv, Orderly, WorkStop PROVE WorkStopDoes
<1> USE DEF SetInv
<1>1. CASE adv_set = None
  <2>1. Goto("work", "idle") /\ UNCHANGED <<adv_state, stale, host, bad_use>>
    BY <1>1, SetExists DEF WorkStop
  <2> QED
    BY <1>1, <2>1 DEF WorkStop, WorkStopDoes
<1>2. CASE adv_set # None
  <2>1. Created(adv_set)
    BY <1>2, SetExists
  <2>2. /\ Goto("work", "delete") /\ UNCHANGED <<adv_set, adv_state, stale, bad_use>>
        /\ host' = [host EXCEPT ![adv_set].st = "idle"]
    BY <1>2, <2>1 DEF WorkStop, Succeeds, Orderly
  <2>3. HostIs("idle", host[adv_set].mode, host[adv_set].data)
    BY <1>2, <2>2, SetExists, FieldsChange
  <2> QED
    BY <1>2, <2>2, <2>3 DEF WorkStop, WorkStopDoes
<1> QED
  BY <1>1, <1>2

\* The work item deletes the set it stopped.
WorkDeleteDoes ==
    /\ pc["work"] = "delete"
    /\ Gone /\ Goto("work", "decide")
    /\ UNCHANGED <<adv_state, stale, advert_params, ad, scheduled, job, op, bad_use>>

\* The set is still there and off.
LEMMA WorkDeleteOutcome ==
    ASSUME SetInv, Orderly, WorkDelete PROVE WorkDeleteDoes
<1> USE DEF SetInv
<1>1. adv_set # None /\ Created(adv_set) /\ host[adv_set].st # "on"
  BY SetExists DEF WorkDelete, SetKnown
<1>2. /\ Goto("work", "decide") /\ adv_set' = None /\ UNCHANGED <<adv_state, stale, bad_use>>
      /\ host' = [host EXCEPT ![adv_set] = FreeSet]
  BY <1>1 DEF WorkDelete, Succeeds, Orderly
<1>3. Gone
  BY <1>1, <1>2, DeleteGone
<1> QED
  BY <1>2, <1>3 DEF WorkDelete, WorkDeleteDoes

\* A connection takes the set that is on the air off it.
ConnectDoes ==
    /\ adv_set # None /\ HostIs("idle", host[adv_set].mode, host[adv_set].data)
    /\ host[adv_set].st = "on"
    /\ scheduled' = FALSE
    /\ UNCHANGED <<adv_set, adv_state, stale, advert_params, ad, pc, job, op, bad_use>>

\* That set is the one of adv_set.
LEMMA ConnectOutcome ==
    ASSUME SetInv, Connect PROVE ConnectDoes
<1> USE DEF SetInv
<1>1. PICK s \in Sets : host[s].st = "on" /\ host' = [host EXCEPT ![s].st = "idle"]
  BY DEF Connect
<1>2. s = adv_set /\ s # None
  BY <1>1, SetsAssumption DEF SetKnown, Sets, None
<1>3. HostIs("idle", host[adv_set].mode, host[adv_set].data)
  BY <1>1, <1>2, SetExists, FieldsChange DEF Connect
<1> QED
  BY <1>1, <1>2, <1>3 DEF Connect, ConnectDoes, sid_ble_advert_notify_connection

-----------------------------------------------------------------------------
(* The conjuncts of the invariant, one step per action. *)

\* The types of what a step of adv_start_with_param leaves for its actor.
StepTypes ==
    /\ pc' \in [Actors -> {"idle", "create", "data", "start", "started", "check",
                          "delete", "decide", "cancel", "replace", "choose",
                          "copy", "copy_set", "stop_cancel", "stop", "stopped"}]
    /\ pc'["caller"] \in {"copy", "copy_set"} => pc["caller"] \in {"copy", "copy_set"}
    /\ job' \in [Actors -> [mode : Modes, timeout : BOOLEAN]]
    /\ op' \in {"none", "start", "update", "stop"}
    /\ adv_state' \in Modes /\ stale' \in Modes

\* An error return keeps the types.
LEMMA FailedTypes == ASSUME TypeOK, NEW a \in Actors, Failed(a) PROVE StepTypes
<1>1. NoJob \in [mode : Modes, timeout : BOOLEAN]
  BY DEF NoJob, Modes
<1>2. job' \in [Actors -> [mode : Modes, timeout : BOOLEAN]]
  BY <1>1 DEF Failed, TypeOK
<1>3. op' \in {"none", "start", "update", "stop"} /\ adv_state' \in Modes /\ stale' \in Modes
  BY DEF Failed, SetState, TypeOK, Modes
<1>4. pc' = [pc EXCEPT ![a] = "idle"]
  BY DEF Failed, Goto
<1> QED
  BY <1>2, <1>3, <1>4 DEF TypeOK, StepTypes, Actors

\* So does going on to the next call.
LEMMA GotoTypes ==
    ASSUME TypeOK, NEW a \in Actors, NEW l \in {"data", "start", "started"}, Goto(a, l),
           UNCHANGED <<adv_state, stale, job, op>>
    PROVE  StepTypes
  BY DEF Goto, TypeOK, StepTypes, Actors

\* Every step preserves the types.
LEMMA TypeOKStep == ASSUME SetInv, Orderly, Next PROVE TypeOK'
<1> USE SucceedsBoolean, ParamsAssumption, SetsAssumption, BoundAssumption
   DEF SetInv, TypeOK, Sets, None, Modes, Actors, Turns, SetKnown, StateKnown, SetState
<1>1. CASE sid_ble_advert_start
  BY <1>1 DEF sid_ble_advert_start, Begin, MayBegin, Goto
<1>2. CASE sid_ble_advert_update
  BY <1>2 DEF sid_ble_advert_update, Begin, MayBegin, Goto
<1>3. CASE sid_ble_advert_stop
  BY <1>3 DEF sid_ble_advert_stop, Begin, MayBegin, Goto
<1>4. CASE sid_ble_advert_deinit
  BY <1>4, DeinitOutcome DEF Gone, HostIs, DeinitDoes, Goto
<1>5. CASE sid_ble_advert_params_set
  BY <1>5 DEF sid_ble_advert_params_set, MayBegin
<1>6. CASE StartCancel
  BY <1>6 DEF StartCancel, CancelSync, Goto
<1>7. CASE StartReplace
  BY <1>7, ReplaceOutcome DEF Gone, HostIs, StartReplaceDoes, Goto
<1>8. CASE StartChoose
  BY <1>8 DEF StartChoose, Goto
<1>9. ASSUME NEW a \in Actors, AdvCreate(a) PROVE TypeOK'
  <2>1. \/ Failed(a)
        \/ Goto(a, "data") /\ UNCHANGED <<adv_state, stale, job, op>>
    BY <1>9, CreateOutcome DEF AdvCreateDoes
  <2>2. StepTypes
    BY <2>1, FailedTypes, GotoTypes
  <2>3. adv_set' \in Sets \cup {None} /\ host' \in [Sets -> HostSets]
    BY <1>9, CreateOutcome DEF AdvCreateDoes, Gone, HostIs
  <2>4. UNCHANGED <<advert_params, ad, scheduled, bad_use>>
    BY <1>9, CreateOutcome DEF AdvCreateDoes
  <2> QED
    BY <2>2, <2>3, <2>4 DEF StepTypes
<1>10. ASSUME NEW a \in Actors, AdvSetData(a) PROVE TypeOK'
  <2>1. \/ Failed(a)
        \/ Goto(a, "start") /\ UNCHANGED <<adv_state, stale, job, op>>
    BY <1>10, SetDataOutcome DEF AdvSetDataDoes
  <2>2. StepTypes
    BY <2>1, FailedTypes, GotoTypes
  <2>3. adv_set' \in Sets \cup {None} /\ host' \in [Sets -> HostSets]
    BY <1>10, SetDataOutcome DEF AdvSetDataDoes, Gone, HostIs
  <2>4. UNCHANGED <<advert_params, ad, scheduled, bad_use>>
    BY <1>10, SetDataOutcome DEF AdvSetDataDoes
  <2> QED
    BY <2>2, <2>3, <2>4 DEF StepTypes
<1>11. ASSUME NEW a \in Actors, AdvStart(a) PROVE TypeOK'
  <2>1. \/ Failed(a)
        \/ Goto(a, "started") /\ UNCHANGED <<adv_state, stale, job, op>>
    BY <1>11, StartOutcome DEF AdvStartDoes
  <2>2. StepTypes
    BY <2>1, FailedTypes, GotoTypes
  <2>3. adv_set' \in Sets \cup {None} /\ host' \in [Sets -> HostSets]
    BY <1>11, StartOutcome DEF AdvStartDoes, Gone, HostIs
  <2>4. UNCHANGED <<advert_params, ad, scheduled, bad_use>>
    BY <1>11, StartOutcome DEF AdvStartDoes
  <2> QED
    BY <2>2, <2>3, <2>4 DEF StepTypes
<1>12. ASSUME NEW a \in Actors, AdvStarted(a) PROVE TypeOK'
  BY <1>12 DEF AdvStarted, Goto, NoJob, StartedState, Reschedule
<1>13. CASE UpdateData
  BY <1>13, UpdateOutcome DEF Gone, HostIs, UpdateDataDoes, Goto
<1>14. CASE StopCancel
  BY <1>14 DEF StopCancel, CancelSync, Goto
<1>15. CASE StopDone
  BY <1>15, StopOutcome DEF Gone, HostIs, StopDoneDoes, Goto
<1>16. CASE WorkBegin
  BY <1>16 DEF WorkBegin, Goto
<1>17. CASE WorkStop
  BY <1>17, WorkStopOutcome DEF Gone, HostIs, WorkStopDoes, Goto
<1>18. CASE WorkDelete
  BY <1>18, WorkDeleteOutcome DEF Gone, HostIs, WorkDeleteDoes, Goto
<1>19. CASE WorkDecide
  BY <1>19 DEF WorkDecide, Goto, AfterFast
<1>20. CASE Connect
  BY <1>20, ConnectOutcome DEF Gone, HostIs, ConnectDoes, Goto
<1> QED
    BY <1>1, <1>2, <1>3, <1>4, <1>5, <1>6, <1>7, <1>8, <1>9, <1>10, <1>11, <1>12, <1>13,
     <1>14, <1>15, <1>16, <1>17, <1>18, <1>19, <1>20
     DEF Next, Caller, Work, AdvStep, Actors

\* Every step keeps the caller out of the work item's way.
LEMMA TurnsStep == ASSUME SetInv, Orderly, Next PROVE Turns'
<1> USE SucceedsBoolean, ParamsAssumption, SetsAssumption, BoundAssumption
   DEF SetInv, TypeOK, Actors, Turns, Orderly, SetState
<1>1. CASE sid_ble_advert_start
  BY <1>1 DEF sid_ble_advert_start, Begin, MayBegin, Goto
<1>2. CASE sid_ble_advert_update
  BY <1>2 DEF sid_ble_advert_update, Begin, MayBegin, Goto
<1>3. CASE sid_ble_advert_stop
  BY <1>3 DEF sid_ble_advert_stop, Begin, MayBegin, Goto
<1>4. CASE sid_ble_advert_deinit
  BY <1>4, DeinitOutcome DEF Gone, HostIs, DeinitDoes, Goto
<1>5. CASE sid_ble_advert_params_set
  BY <1>5 DEF sid_ble_advert_params_set, MayBegin
<1>6. CASE StartCancel
  BY <1>6 DEF StartCancel, CancelSync, Goto
<1>7. CASE StartReplace
  BY <1>7, ReplaceOutcome DEF Gone, HostIs, StartReplaceDoes, Goto
<1>8. CASE StartChoose
  BY <1>8 DEF StartChoose, Goto
<1>9. ASSUME NEW a \in Actors, AdvCreate(a) PROVE Turns'
  BY <1>9, CreateOutcome DEF Gone, HostIs, AdvCreateDoes, Goto, Failed, NoJob
<1>10. ASSUME NEW a \in Actors, AdvSetData(a) PROVE Turns'
  BY <1>10, SetDataOutcome DEF Gone, HostIs, AdvSetDataDoes, Goto, Failed, NoJob
<1>11. ASSUME NEW a \in Actors, AdvStart(a) PROVE Turns'
  BY <1>11, StartOutcome DEF Gone, HostIs, AdvStartDoes, Goto, Failed, NoJob
<1>12. ASSUME NEW a \in Actors, AdvStarted(a) PROVE Turns'
  BY <1>12 DEF AdvStarted, Goto, NoJob, StartedState, Reschedule
<1>13. CASE UpdateData
  BY <1>13, UpdateOutcome DEF Gone, HostIs, UpdateDataDoes, Goto
<1>14. CASE StopCancel
  BY <1>14 DEF StopCancel, CancelSync, Goto
<1>15. CASE StopDone
  BY <1>15, StopOutcome DEF Gone, HostIs, StopDoneDoes, Goto
<1>16. CASE WorkBegin
  BY <1>16 DEF WorkBegin, Goto
<1>17. CASE WorkStop
  BY <1>17, WorkStopOutcome DEF Gone, HostIs, WorkStopDoes, Goto
<1>18. CASE WorkDelete
  BY <1>18, WorkDeleteOutcome DEF Gone, HostIs, WorkDeleteDoes, Goto
<1>19. CASE WorkDecide
  BY <1>19 DEF WorkDecide, Goto, AfterFast
<1>20. CASE Connect
  BY <1>20, ConnectOutcome DEF Gone, HostIs, ConnectDoes, Goto
<1> QED
    BY <1>1, <1>2, <1>3, <1>4, <1>5, <1>6, <1>7, <1>8, <1>9, <1>10, <1>11, <1>12, <1>13,
     <1>14, <1>15, <1>16, <1>17, <1>18, <1>19, <1>20
     DEF Next, Caller, Work, AdvStep, Actors

\* Every step leaves adv_set the host's one set.
LEMMA SetKnownStep == ASSUME SetInv, Orderly, Next PROVE SetKnown'
<1> USE SucceedsBoolean, ParamsAssumption, SetsAssumption, BoundAssumption
   DEF SetInv, TypeOK, Sets, None, Actors, Turns, SetKnown, StateKnown, Orderly, SetState
<1>1. CASE sid_ble_advert_start
  BY <1>1 DEF sid_ble_advert_start, Begin, MayBegin, Goto
<1>2. CASE sid_ble_advert_update
  BY <1>2 DEF sid_ble_advert_update, Begin, MayBegin, Goto
<1>3. CASE sid_ble_advert_stop
  BY <1>3 DEF sid_ble_advert_stop, Begin, MayBegin, Goto
<1>4. CASE sid_ble_advert_deinit
  <2>1. DeinitDoes
    BY <1>4, DeinitOutcome
  <2>2. CASE Gone
    BY <2>1, <2>2 DEF DeinitDoes, Gone
  <2>3. CASE UNCHANGED <<host, adv_set>>
    BY <2>1, <2>3 DEF DeinitDoes
  <2> QED
    BY <2>1, <2>2, <2>3 DEF DeinitDoes
<1>5. CASE sid_ble_advert_params_set
  BY <1>5 DEF sid_ble_advert_params_set, MayBegin
<1>6. CASE StartCancel
  BY <1>6 DEF StartCancel, CancelSync, Goto
<1>7. CASE StartReplace
  BY <1>7, ReplaceOutcome DEF Gone, HostIs, StartReplaceDoes, Goto
<1>8. CASE StartChoose
  BY <1>8 DEF StartChoose, Goto
<1>9. ASSUME NEW a \in Actors, AdvCreate(a) PROVE SetKnown'
  BY <1>9, CreateOutcome DEF Gone, HostIs, AdvCreateDoes, Goto, Failed, NoJob
<1>10. ASSUME NEW a \in Actors, AdvSetData(a) PROVE SetKnown'
  BY <1>10, SetDataOutcome DEF Gone, HostIs, AdvSetDataDoes, Goto, Failed, NoJob
<1>11. ASSUME NEW a \in Actors, AdvStart(a) PROVE SetKnown'
  BY <1>11, StartOutcome DEF Gone, HostIs, AdvStartDoes, Goto, Failed, NoJob
<1>12. ASSUME NEW a \in Actors, AdvStarted(a) PROVE SetKnown'
  BY <1>12 DEF AdvStarted, Goto, NoJob, StartedState, Reschedule
<1>13. CASE UpdateData
  BY <1>13, UpdateOutcome DEF Gone, HostIs, UpdateDataDoes, Goto
<1>14. CASE StopCancel
  BY <1>14 DEF StopCancel, CancelSync, Goto
<1>15. CASE StopDone
  BY <1>15, StopOutcome DEF Gone, HostIs, StopDoneDoes, Goto
<1>16. CASE WorkBegin
  BY <1>16 DEF WorkBegin, Goto
<1>17. CASE WorkStop
  BY <1>17, WorkStopOutcome DEF Gone, HostIs, WorkStopDoes, Goto
<1>18. CASE WorkDelete
  BY <1>18, WorkDeleteOutcome DEF Gone, HostIs, WorkDeleteDoes, Goto
<1>19. CASE WorkDecide
  BY <1>19 DEF WorkDecide, Goto, AfterFast
<1>20. CASE Connect
  <2>1. ConnectDoes
    BY <1>20, ConnectOutcome
  <2>2. \A s \in Sets : host'[s].st # "free" <=> s = adv_set'
    BY <2>1 DEF ConnectDoes, HostIs
  <2>3. adv_set' # None /\ host'[adv_set'].st = "idle"
    BY <2>1 DEF ConnectDoes, HostIs
  <2>4. UNCHANGED <<adv_set, pc, bad_use>>
    BY <2>1 DEF ConnectDoes
  <2> QED
    BY <2>2, <2>3, <2>4
<1> QED
    BY <1>1, <1>2, <1>3, <1>4, <1>5, <1>6, <1>7, <1>8, <1>9, <1>10, <1>11, <1>12, <1>13,
     <1>14, <1>15, <1>16, <1>17, <1>18, <1>19, <1>20
     DEF Next, Caller, Work, AdvStep, Actors

\* Every step keeps adv_state and the set together.
LEMMA StateKnownStep == ASSUME SetInv, Orderly, Next PROVE StateKnown'
<1> USE SucceedsBoolean, ParamsAssumption, SetsAssumption, BoundAssumption
   DEF SetInv, TypeOK, Actors, Turns, SetKnown, StateKnown, Orderly, SetState
<1>1. CASE sid_ble_advert_start
  BY <1>1 DEF sid_ble_advert_start, Begin, MayBegin, Goto
<1>2. CASE sid_ble_advert_update
  BY <1>2 DEF sid_ble_advert_update, Begin, MayBegin, Goto
<1>3. CASE sid_ble_advert_stop
  BY <1>3 DEF sid_ble_advert_stop, Begin, MayBegin, Goto
<1>4. CASE sid_ble_advert_deinit
  BY <1>4, DeinitOutcome DEF Gone, HostIs, DeinitDoes, Goto
<1>5. CASE sid_ble_advert_params_set
  BY <1>5 DEF sid_ble_advert_params_set, MayBegin
<1>6. CASE StartCancel
  BY <1>6 DEF StartCancel, CancelSync, Goto
<1>7. CASE StartReplace
  BY <1>7, ReplaceOutcome DEF Gone, HostIs, StartReplaceDoes, Goto
<1>8. CASE StartChoose
  BY <1>8 DEF StartChoose, Goto
<1>9. ASSUME NEW a \in Actors, AdvCreate(a) PROVE StateKnown'
  BY <1>9, CreateOutcome DEF Gone, HostIs, AdvCreateDoes, Goto, Failed, NoJob
<1>10. ASSUME NEW a \in Actors, AdvSetData(a) PROVE StateKnown'
  BY <1>10, SetDataOutcome DEF Gone, HostIs, AdvSetDataDoes, Goto, Failed, NoJob
<1>11. ASSUME NEW a \in Actors, AdvStart(a) PROVE StateKnown'
  BY <1>11, StartOutcome DEF Gone, HostIs, AdvStartDoes, Goto, Failed, NoJob
<1>12. ASSUME NEW a \in Actors, AdvStarted(a) PROVE StateKnown'
  BY <1>12 DEF AdvStarted, Goto, NoJob, StartedState, Reschedule
<1>13. CASE UpdateData
  BY <1>13, UpdateOutcome DEF Gone, HostIs, UpdateDataDoes, Goto
<1>14. CASE StopCancel
  BY <1>14 DEF StopCancel, CancelSync, Goto
<1>15. CASE StopDone
  BY <1>15, StopOutcome DEF Gone, HostIs, StopDoneDoes, Goto
<1>16. CASE WorkBegin
  BY <1>16 DEF WorkBegin, Goto
<1>17. CASE WorkStop
  BY <1>17, WorkStopOutcome DEF Gone, HostIs, WorkStopDoes, Goto
<1>18. CASE WorkDelete
  BY <1>18, WorkDeleteOutcome DEF Gone, HostIs, WorkDeleteDoes, Goto
<1>19. CASE WorkDecide
  BY <1>19 DEF WorkDecide, Goto, AfterFast
<1>20. CASE Connect
  BY <1>20, ConnectOutcome DEF Gone, HostIs, ConnectDoes, Goto
<1> QED
    BY <1>1, <1>2, <1>3, <1>4, <1>5, <1>6, <1>7, <1>8, <1>9, <1>10, <1>11, <1>12, <1>13,
     <1>14, <1>15, <1>16, <1>17, <1>18, <1>19, <1>20
     DEF Next, Caller, Work, AdvStep, Actors

\* Every step leaves the set the interval that was asked for.
LEMMA ModeKnownStep == ASSUME AirInv, Orderly, UpdateWorks, Next PROVE ModeKnown'
<1> USE SucceedsBoolean
   DEF AirInv, SetInv, TypeOK, Sets, None, Actors, Turns, SetKnown, StateKnown, ModeKnown, SetState
<1>1. CASE sid_ble_advert_start
  BY <1>1 DEF sid_ble_advert_start, Begin, MayBegin, Goto
<1>2. CASE sid_ble_advert_update
  BY <1>2 DEF sid_ble_advert_update, Begin, MayBegin, Goto
<1>3. CASE sid_ble_advert_stop
  BY <1>3 DEF sid_ble_advert_stop, Begin, MayBegin, Goto
<1>4. CASE sid_ble_advert_deinit
  BY <1>4, DeinitOutcome DEF Gone, HostIs, DeinitDoes, Goto
<1>5. CASE sid_ble_advert_params_set
  BY <1>5 DEF sid_ble_advert_params_set, MayBegin
<1>6. CASE StartCancel
  BY <1>6 DEF StartCancel, CancelSync, Goto
<1>7. CASE StartReplace
  BY <1>7, ReplaceOutcome DEF Gone, HostIs, StartReplaceDoes, Goto
<1>8. CASE StartChoose
  BY <1>8 DEF StartChoose, Goto
<1>9. ASSUME NEW a \in Actors, AdvCreate(a) PROVE ModeKnown'
  BY <1>9, CreateOutcome DEF Gone, HostIs, AdvCreateDoes, Goto, Failed, NoJob
<1>10. ASSUME NEW a \in Actors, AdvSetData(a) PROVE ModeKnown'
  BY <1>10, SetDataOutcome DEF Gone, HostIs, AdvSetDataDoes, Goto, Failed, NoJob
<1>11. ASSUME NEW a \in Actors, AdvStart(a) PROVE ModeKnown'
  BY <1>11, StartOutcome DEF Gone, HostIs, AdvStartDoes, Goto, Failed, NoJob
<1>12. ASSUME NEW a \in Actors, AdvStarted(a) PROVE ModeKnown'
  BY <1>12 DEF AdvStarted, Goto, NoJob, StartedState, Reschedule
<1>13. CASE UpdateData
  BY <1>13, ZenonT(60), UpdateOutcome DEF Gone, HostIs, UpdateDataDoes, Goto
<1>14. CASE StopCancel
  BY <1>14 DEF StopCancel, CancelSync, Goto
<1>15. CASE StopDone
  BY <1>15, StopOutcome DEF Gone, HostIs, StopDoneDoes, Goto
<1>16. CASE WorkBegin
  BY <1>16 DEF WorkBegin, Goto
<1>17. CASE WorkStop
  BY <1>17, WorkStopOutcome DEF Gone, HostIs, WorkStopDoes, Goto
<1>18. CASE WorkDelete
  BY <1>18, WorkDeleteOutcome DEF Gone, HostIs, WorkDeleteDoes, Goto
<1>19. CASE WorkDecide
  BY <1>19 DEF WorkDecide, Goto, AfterFast
<1>20. CASE Connect
  BY <1>20, ConnectOutcome DEF Gone, HostIs, ConnectDoes, Goto
<1> QED
    BY <1>1, <1>2, <1>3, <1>4, <1>5, <1>6, <1>7, <1>8, <1>9, <1>10, <1>11, <1>12, <1>13,
     <1>14, <1>15, <1>16, <1>17, <1>18, <1>19, <1>20
     DEF Next, Caller, Work, AdvStep, Actors

\* Every step leaves what is on the air the newest data.
LEMMA DataKnownStep == ASSUME AirInv, Orderly, UpdateWorks, Next PROVE DataKnown'
<1> USE SucceedsBoolean
   DEF AirInv, SetInv, TypeOK, Sets, None, Actors, Turns, SetKnown, StateKnown, ModeKnown,
       DataKnown, UpdateWorks, SetState
<1>1. CASE sid_ble_advert_start
  BY <1>1 DEF sid_ble_advert_start, Begin, MayBegin, Goto
<1>2. CASE sid_ble_advert_update
  BY <1>2 DEF sid_ble_advert_update, Begin, MayBegin, Goto
<1>3. CASE sid_ble_advert_stop
  BY <1>3 DEF sid_ble_advert_stop, Begin, MayBegin, Goto
<1>4. CASE sid_ble_advert_deinit
  BY <1>4, DeinitOutcome DEF Gone, HostIs, DeinitDoes, Goto
<1>5. CASE sid_ble_advert_params_set
  BY <1>5 DEF sid_ble_advert_params_set, MayBegin
<1>6. CASE StartCancel
  BY <1>6 DEF StartCancel, CancelSync, Goto
<1>7. CASE StartReplace
  BY <1>7, ReplaceOutcome DEF Gone, HostIs, StartReplaceDoes, Goto
<1>8. CASE StartChoose
  BY <1>8 DEF StartChoose, Goto
<1>9. ASSUME NEW a \in Actors, AdvCreate(a) PROVE DataKnown'
  BY <1>9, CreateOutcome DEF Gone, HostIs, AdvCreateDoes, Goto, Failed, NoJob
<1>10. ASSUME NEW a \in Actors, AdvSetData(a) PROVE DataKnown'
  BY <1>10, SetDataOutcome DEF Gone, HostIs, AdvSetDataDoes, Goto, Failed, NoJob
<1>11. ASSUME NEW a \in Actors, AdvStart(a) PROVE DataKnown'
  BY <1>11, StartOutcome DEF Gone, HostIs, AdvStartDoes, Goto, Failed, NoJob
<1>12. ASSUME NEW a \in Actors, AdvStarted(a) PROVE DataKnown'
  BY <1>12 DEF AdvStarted, Goto, NoJob, StartedState, Reschedule
<1>13. CASE UpdateData
  BY <1>13, UpdateOutcome DEF Gone, HostIs, UpdateDataDoes, Goto
<1>14. CASE StopCancel
  BY <1>14 DEF StopCancel, CancelSync, Goto
<1>15. CASE StopDone
  BY <1>15, StopOutcome DEF Gone, HostIs, StopDoneDoes, Goto
<1>16. CASE WorkBegin
  BY <1>16 DEF WorkBegin, Goto
<1>17. CASE WorkStop
  BY <1>17, WorkStopOutcome DEF Gone, HostIs, WorkStopDoes, Goto
<1>18. CASE WorkDelete
  BY <1>18, WorkDeleteOutcome DEF Gone, HostIs, WorkDeleteDoes, Goto
<1>19. CASE WorkDecide
  BY <1>19 DEF WorkDecide, Goto, AfterFast
<1>20. CASE Connect
  BY <1>20, ConnectOutcome DEF Gone, HostIs, ConnectDoes, Goto
<1> QED
    BY <1>1, <1>2, <1>3, <1>4, <1>5, <1>6, <1>7, <1>8, <1>9, <1>10, <1>11, <1>12, <1>13,
     <1>14, <1>15, <1>16, <1>17, <1>18, <1>19, <1>20
     DEF Next, Caller, Work, AdvStep, Actors

-----------------------------------------------------------------------------
\* The initial state.
LEMMA InvInit == Init => AirInv
<1> SUFFICES ASSUME Init PROVE AirInv
  OBVIOUS
<1>1. FreeSet \in HostSets /\ NoJob \in [mode : Modes, timeout : BOOLEAN]
  BY BoundAssumption DEF FreeSet, HostSets, Modes, NoJob
<1>2. TypeOK
  <2>1. host \in [Sets -> HostSets] /\ job \in [Actors -> [mode : Modes, timeout : BOOLEAN]]
    BY <1>1 DEF Init
  <2>2. ad \in 0 .. MaxData /\ adv_state \in Modes /\ adv_set \in Sets \cup {None}
    BY BoundAssumption DEF Init, Modes
  <2>3. pc = [a \in Actors |-> "idle"] /\ pc["caller"] = "idle"
    BY DEF Init, Actors
  <2> QED
    BY <2>1, <2>2, <2>3 DEF Init, TypeOK
<1>3. \A s \in Sets : host[s].st # "free" <=> s = adv_set
  BY SetsAssumption DEF Init, FreeSet, Sets, None
<1>4. Turns /\ SetKnown /\ StateKnown
  BY <1>3 DEF Init, Turns, SetKnown, StateKnown, Actors
<1>5. ModeKnown /\ DataKnown
  BY DEF Init, ModeKnown, DataKnown, Actors
<1> QED
  BY <1>2, <1>4, <1>5 DEF AirInv, SetInv

\* A step that changes nothing keeps the invariant.
LEMMA Stutter == ASSUME AirInv, UNCHANGED vars PROVE AirInv'
  BY DEF vars, AirInv, SetInv, TypeOK, Turns, SetKnown, StateKnown, ModeKnown, DataKnown,
         Created

\* A step that changes nothing keeps the part about the set.
LEMMA StutterSet == ASSUME SetInv, UNCHANGED vars PROVE SetInv'
  BY DEF vars, SetInv, TypeOK, Turns, SetKnown, StateKnown

(* However the caller, the work item and connections interleave, and        *)
(* whichever creations, starts and updates fail, adv_set is the one set of  *)
(* the Bluetooth host and no call of the host gets another one.             *)
THEOREM SetsAlwaysTracked ==
    ASSUME Orderly
    PROVE  Spec => []SetsTracked
<1>1. Init => SetInv
  BY InvInit DEF AirInv
<1>2. SetInv /\ [Next]_vars => SetInv'
  BY Orderly, TypeOKStep, TurnsStep, SetKnownStep, StateKnownStep, StutterSet DEF SetInv
<1>3. SetInv => SetsTracked
  <2> SUFFICES ASSUME SetInv PROVE SetsTracked
    OBVIOUS
  <2>1. \A s : s \in {t \in Sets : host[t].st # "free"} <=> s \in {adv_set} \ {None}
    BY SetsAssumption DEF SetInv, TypeOK, SetKnown, Sets, None
  <2>2. NoSetLost
    BY <2>1 DEF NoSetLost
  <2>3. UpdatesCurrentSet
    BY DEF SetInv, SetKnown, UpdatesCurrentSet
  <2> QED
    BY <2>2, <2>3 DEF SetsTracked
<1> QED
  BY <1>1, <1>2, <1>3, PTL DEF Spec

(* If the host also takes every update, what is on the air between two      *)
(* operations has the interval adv_state names and the newest data, over    *)
(* failed starts, cancelled work and connections.                           *)
THEOREM AirAlwaysMatchesState ==
    ASSUME Orderly, UpdateWorks
    PROVE  Spec => []AirMatchesState
<1>1. AirInv /\ [Next]_vars => AirInv'
  BY Orderly, UpdateWorks, TypeOKStep, TurnsStep, SetKnownStep, StateKnownStep, ModeKnownStep,
     DataKnownStep, Stutter DEF AirInv, SetInv
<1>2. AirInv => AirMatchesState
  <2> SUFFICES ASSUME AirInv, Quiet, NEW s \in Sets, host[s].st = "on"
               PROVE  host[s].mode = adv_state /\ host[s].data = ad
    BY DEF AirMatchesState, AdvertisesState, AdvertisesNewestData
  <2>1. s = adv_set /\ adv_set # None
    BY SetsAssumption DEF AirInv, SetInv, SetKnown, Sets, None
  <2> QED
    BY <2>1 DEF AirInv, ModeKnown, DataKnown, Quiet, Actors
<1> QED
  BY InvInit, <1>1, <1>2, PTL DEF Spec
=============================================================================
