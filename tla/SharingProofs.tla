---------------------------- MODULE SharingProofs ----------------------------
(***************************************************************************)
(* Proofs about the three modules in which Sidewalk shares a radio: its    *)
(* connection with the threads of the Bluetooth host (BleConnection), that  *)
(* host with the firmware update (NordicDfu) and the LR11xx with the        *)
(* location engine (Lr11xxRadio). The three have no state in common.        *)
(***************************************************************************)
EXTENDS BleConnection, NordicDfu, Lr11xxRadio, TLAPS

-----------------------------------------------------------------------------
(***************************************************************************)
(* BleConnection. The invariant IInv says what the host's callback and the  *)
(* Sidewalk thread's operation each know of conn_data between two of their  *)
(* steps; the four properties follow from it.                               *)
(***************************************************************************)


(* Initially nothing is connected and nobody runs. *)
LEMMA IInvInit == Init => IInv
<1> SUFFICES ASSUME Init PROVE IInv
  OBVIOUS
<1> USE NullAssumption DEF Init, HostIdle, SidIdle
<1>1. TypeOK
  <2>1. sid \in Operations
    BY DEF Operations
  <2>2. id \in [Conns -> Ids] /\ refs \in [Conns -> 0 .. 1]
    BY DEF Ids
  <2> QED
    BY <2>1, <2>2 DEF TypeOK
<1>2. HostKnows /\ ReferencesBalanced /\ DataKnown
  BY DEF HostKnows, ReferencesBalanced, DataKnown
<1>3. SidKnows /\ ParamsKnown /\ NoNullUse
  BY DEF SidKnows, ParamsKnown, NoNullUse, Target
<1> QED
  BY <1>1, <1>2, <1>3 DEF IInv

(* The end of a connection marks the operation it ends inside of. *)
LEMMA DisconnectEndTypes == IInv /\ DisconnectEnd => sid' \in Operations
<1> SUFFICES ASSUME IInv, DisconnectEnd PROVE sid' \in Operations
  OBVIOUS
<1> DEFINE running == sid # SidIdle
<1>1. sid' = sid \/ sid' = [sid EXCEPT !.cleared = running]
  BY DEF DisconnectEnd, TellEnd, DropReference
<1>2. running \in BOOLEAN
  OBVIOUS
<1> HIDE DEF running
<1> QED
  BY <1>1, <1>2 DEF IInv, TypeOK, Operations

(* The steps of the Sidewalk thread that change a Boolean keep the types. *)
LEMMA SidTypes ==
    ASSUME TypeOK,
           \/ AdapterDeinit
           \/ \E p \in Params : UpdateCheck(p)
           \/ get_srv_params
    PROVE  TypeOK'
<1> USE DEF TypeOK, hostVars, dataVars, paramVars, historyVars
<1>1. CASE AdapterDeinit
  BY <1>1, ZenonT(60) DEF AdapterDeinit
<1>2. ASSUME NEW p \in Params, UpdateCheck(p) PROVE TypeOK'
  <2>1. sid' \in Operations
    BY <1>2 DEF UpdateCheck, Enter, Operations
  <2> QED
    BY <1>2, <2>1, ZenonT(60) DEF UpdateCheck
<1>3. CASE get_srv_params
  <2>1. sid' \in Operations
    BY <1>3 DEF get_srv_params, Operations
  <2> QED
    BY <1>3, <2>1 DEF get_srv_params
<1> QED
  BY <1>1, <1>2, <1>3

(* Every step of either thread preserves the invariant. *)
LEMMA IInvNext == IInv /\ [Next]_vars => IInv'
<1> SUFFICES ASSUME IInv, [Next]_vars PROVE IInv'
  OBVIOUS
<1> USE NullAssumption DEF IInv, TypeOK, HostKnows, ReferencesBalanced, DataKnown, SidKnows,
        ParamsKnown, NoNullUse, Target, HostIdle, SidIdle, hostVars, dataVars, paramVars,
        historyVars
<1>1. ASSUME NEW c \in Conns, NEW p \in Peers, NEW i \in Ids, Connect(c, p, i) PROVE IInv'
  <2>1. TypeOK'
    BY <1>1 DEF Connect, Ids
  <2>2. HostKnows'
    BY <1>1 DEF Connect, Ids
  <2>3. ReferencesBalanced'
    BY <1>1 DEF Connect, Ids
  <2>4. DataKnown'
    BY <1>1 DEF Connect, Ids
  <2>5. SidKnows'
    BY <1>1 DEF Connect, Ids
  <2>6. ParamsKnown'
    BY <1>1 DEF Connect, Ids
  <2>7. NoNullUse'
    BY <1>1 DEF Connect, Ids
  <2> QED
    BY <2>1, <2>2, <2>3, <2>4, <2>5, <2>6, <2>7
<1>2. ASSUME NEW c \in Conns, LinkLost(c) PROVE IInv'
  BY <1>2, SMTT(30) DEF LinkLost, Operations
<1>3. ASSUME NEW c \in Conns, ReportLost(c) PROVE IInv'
  BY <1>3, SMTT(30) DEF ReportLost, Operations
<1>4. CASE ConnectAddress
  <2>1. TypeOK'
    BY <1>4 DEF ConnectAddress, At, HostGoes, ble_conn_is_valid, PeerAddress
  <2>2. HostKnows'
    BY <1>4 DEF ConnectAddress, At, HostGoes, ble_conn_is_valid, PeerAddress
  <2>3. ReferencesBalanced'
    BY <1>4 DEF ConnectAddress, At, HostGoes, ble_conn_is_valid, PeerAddress
  <2>4. DataKnown'
    BY <1>4 DEF ConnectAddress, At, HostGoes, ble_conn_is_valid, PeerAddress
  <2>5. SidKnows'
    BY <1>4 DEF ConnectAddress, At, HostGoes, ble_conn_is_valid, PeerAddress
  <2>6. ParamsKnown'
    BY <1>4 DEF ConnectAddress, At, HostGoes, ble_conn_is_valid, PeerAddress
  <2>7. NoNullUse'
    BY <1>4 DEF ConnectAddress, At, HostGoes, ble_conn_is_valid, PeerAddress
  <2> QED
    BY <2>1, <2>2, <2>3, <2>4, <2>5, <2>6, <2>7
<1>5. CASE ConnectReference
  <2>1. TypeOK'
    BY <1>5 DEF ConnectReference, At, HostGoes, Updating
  <2>2. HostKnows'
    BY <1>5 DEF ConnectReference, At, HostGoes, Updating
  <2>3. ReferencesBalanced'
    BY <1>5 DEF ConnectReference, At, HostGoes, Updating
  <2>4. DataKnown'
    BY <1>5 DEF ConnectReference, At, HostGoes, Updating
  <2>5. SidKnows'
    BY <1>5 DEF ConnectReference, At, HostGoes, Updating
  <2>6. ParamsKnown'
    BY <1>5 DEF ConnectReference, At, HostGoes, Updating
  <2>7. NoNullUse'
    BY <1>5 DEF ConnectReference, At, HostGoes, Updating
  <2> QED
    BY <2>1, <2>2, <2>3, <2>4, <2>5, <2>6, <2>7
<1>6. CASE ConnectParams
  <2>1. TypeOK'
    BY <1>6 DEF ConnectParams, At, Updating, bt_conn_le_param_update
  <2>2. HostKnows'
    BY <1>6 DEF ConnectParams, At, Updating, bt_conn_le_param_update
  <2>3. ReferencesBalanced'
    BY <1>6 DEF ConnectParams, At, Updating, bt_conn_le_param_update
  <2>4. DataKnown'
    BY <1>6 DEF ConnectParams, At, Updating, bt_conn_le_param_update
  <2>5. SidKnows'
    BY <1>6 DEF ConnectParams, At, Updating, bt_conn_le_param_update
  <2>6. ParamsKnown'
    <3>1. /\ host.c \in Conns /\ conn = host.c /\ conn' = conn /\ sid' = sid
          /\ asked' = asked /\ conn_params_next' = conn_params_next
      BY <1>6 DEF ConnectParams, At
    <3>2. request' = "taken" => params'[conn] = conn_params_next
      BY <1>6, <3>1 DEF ConnectParams, bt_conn_le_param_update
    <3>3. ~raced' => sid.op # "update"
      BY <1>6 DEF ConnectParams, Updating
    <3>4. sid.at = "memcpy" => sid.op = "update"
      OBVIOUS
    <3> QED
      BY <3>1, <3>2, <3>3, <3>4
  <2>7. NoNullUse'
    BY <1>6 DEF ConnectParams, At, Updating, bt_conn_le_param_update
  <2> QED
    BY <2>1, <2>2, <2>3, <2>4, <2>5, <2>6, <2>7
<1>7. CASE DisconnectCheck
  <2>1. TypeOK'
    BY <1>7 DEF DisconnectCheck, At, HostGoes, ble_conn_is_valid
  <2>2. HostKnows'
    BY <1>7 DEF DisconnectCheck, At, HostGoes, ble_conn_is_valid
  <2>3. ReferencesBalanced'
    BY <1>7 DEF DisconnectCheck, At, HostGoes, ble_conn_is_valid
  <2>4. DataKnown'
    BY <1>7 DEF DisconnectCheck, At, HostGoes, ble_conn_is_valid
  <2>5. SidKnows'
    BY <1>7 DEF DisconnectCheck, At, HostGoes, ble_conn_is_valid
  <2>6. ParamsKnown'
    BY <1>7 DEF DisconnectCheck, At, HostGoes, ble_conn_is_valid
  <2>7. NoNullUse'
    BY <1>7 DEF DisconnectCheck, At, HostGoes, ble_conn_is_valid
  <2> QED
    BY <2>1, <2>2, <2>3, <2>4, <2>5, <2>6, <2>7
<1>8. CASE DisconnectEnd
  <2>1. TypeOK'
    <3>1. sid' \in Operations
      BY <1>8, DisconnectEndTypes
    <3>2. refs' \in [Conns -> 0 .. 1] /\ conn' \in Conns \cup {NULL}
      BY <1>8 DEF DisconnectEnd, At, TellEnd, DropReference, Unref
    <3> QED
      BY <1>8, <3>1, <3>2 DEF DisconnectEnd, At, HostGoes, TellEnd, DropReference
  <2>2. HostKnows'
    BY <1>8 DEF DisconnectEnd, At, HostGoes, TellEnd, DropReference, Unref
  <2>3. ReferencesBalanced'
    BY <1>8 DEF DisconnectEnd, At, HostGoes, TellEnd, DropReference, Unref
  <2>4. DataKnown'
    BY <1>8 DEF DisconnectEnd, At, HostGoes, TellEnd, DropReference, Unref
  <2>5. SidKnows'
    <3>1. CASE At("tell")
      BY <1>8, <3>1 DEF DisconnectEnd, At, TellEnd
    <3>2. CASE At("unref") /\ sid = SidIdle
      BY <1>8, <3>2, DisconnectEndTypes DEF DisconnectEnd, At, DropReference, Operations
    <3>3. CASE At("unref") /\ sid # SidIdle
      BY <1>8, <3>3, DisconnectEndTypes DEF DisconnectEnd, At, DropReference, Operations
    <3> QED
      BY <1>8, <3>1, <3>2, <3>3 DEF DisconnectEnd
  <2>6. ParamsKnown'
    <3>1. sid'.op = sid.op /\ sid'.p = sid.p /\ sid'.at = sid.at
      BY <1>8, Zenon DEF DisconnectEnd, TellEnd, DropReference, Operations
    <3>2. UNCHANGED <<paramVars, asked, request, raced>> /\ conn' \in {conn, NULL}
      BY <1>8 DEF DisconnectEnd, TellEnd, DropReference
    <3>3. At("tell") => state' = state
      BY <1>8 DEF DisconnectEnd, At
    <3>4. At("unref") => conn' = NULL
      BY <1>8 DEF DisconnectEnd, At, DropReference
    <3> QED
      BY <1>8, <3>1, <3>2, <3>3, <3>4 DEF DisconnectEnd, At
  <2>7. NoNullUse'
    BY <1>8 DEF DisconnectEnd, At, HostGoes, TellEnd, DropReference, Unref
  <2> QED
    BY <2>1, <2>2, <2>3, <2>4, <2>5, <2>6, <2>7
<1>9. CASE AdapterInit
  BY <1>9, SMTT(30) DEF AdapterInit, Operations
<1>10. CASE AdapterDeinit
  <2>1. TypeOK'
    BY <1>10, SidTypes
  <2>2. (HostKnows /\ ReferencesBalanced /\ DataKnown)'
    BY <1>10 DEF AdapterDeinit
  <2>3. (SidKnows /\ ParamsKnown /\ NoNullUse)'
    BY <1>10 DEF AdapterDeinit
  <2> QED
    BY <2>1, <2>2, <2>3
<1>11. ASSUME NEW on \in BOOLEAN, AdapterAdvertise(on) PROVE IInv'
  BY <1>11, SMTT(30) DEF AdapterAdvertise, Operations
<1>12. ASSUME NEW p \in Params, UpdateCheck(p) PROVE IInv'
  <2>1. TypeOK'
    BY <1>12, SidTypes
  <2>2. (HostKnows /\ ReferencesBalanced /\ DataKnown)'
    BY <1>12 DEF UpdateCheck, Enter
  <2>3. (SidKnows /\ ParamsKnown /\ NoNullUse)'
    BY <1>12 DEF UpdateCheck, Enter
  <2> QED
    BY <2>1, <2>2, <2>3
<1>13. ASSUME NEW query \in {"get", "disconnect", "handle"}, Check(query) PROVE IInv'
  BY <1>13, SMTT(30) DEF Check, Enter, Operations
<1>14. CASE SendData
  BY <1>14, SMTT(30) DEF SendData, Enter, Operations
<1>15. CASE get_srv_params
  <2>1. TypeOK'
    BY <1>15, SidTypes
  <2>2. (HostKnows /\ ReferencesBalanced /\ DataKnown)'
    BY <1>15 DEF get_srv_params
  <2>3. (SidKnows /\ ParamsKnown /\ NoNullUse)'
    BY <1>15 DEF get_srv_params
  <2> QED
    BY <2>1, <2>2, <2>3
<1>16. CASE UseNull
  BY <1>16, SMTT(30) DEF UseNull, Updating, Operations
<1>17. CASE UseUpdate
  BY <1>17, SMTT(30) DEF UseUpdate, bt_conn_le_param_update, Operations
<1>18. CASE UpdateMemcpy
  BY <1>18, SMTT(30) DEF UpdateMemcpy, Kept, Operations
<1>19. CASE UseGet
  BY <1>19, SMTT(30) DEF UseGet, Operations
<1>20. CASE UseDisconnect
  BY <1>20, SMTT(30) DEF UseDisconnect, Operations
<1>21. CASE UseSend
  BY <1>21, SMTT(30) DEF UseSend, Operations
<1>22. CASE UNCHANGED vars
  BY <1>22 DEF vars
<1> QED
  BY <1>1, <1>2, <1>3, <1>4, <1>5, <1>6, <1>7, <1>8, <1>9, <1>10, <1>11, <1>12, <1>13, <1>14,
       <1>15, <1>16, <1>17, <1>18, <1>19, <1>20, <1>21, <1>22 DEF Next, HostCallbacks, SidUses

(* The invariant holds throughout. *)
LEMMA Invariant == Spec => []IInv
  BY IInvInit, IInvNext, PTL DEF Spec

\* The module's state is well typed, and no object has more than one reference of
\* sid_ble_connection.c.
THEOREM ConnectionTypes == Spec => []TypeOK
<1>1. IInv => TypeOK
  BY DEF IInv
<1> QED
  BY Invariant, <1>1, PTL

\* Between the callbacks of sid_ble_connection.c the library knows exactly the central
\* that is connected, and hears of its end with the address it heard of its begin.
THEOREM LibraryKnowsPeerAlways == Spec => []LibraryKnowsPeer
<1>1. IInv => LibraryKnowsPeer
  BY NullAssumption DEF IInv, HostKnows, DataKnown, HostIdle, LibraryKnowsPeer
<1> QED
  BY Invariant, <1>1, PTL

\* The one reference is on the connection of conn_data: ble_connect_cb and
\* ble_disconnect_cb are balanced however the host reuses its objects.
THEOREM ReferencesAlwaysBalanced == Spec => []ReferencesBalanced
<1>1. IInv => ReferencesBalanced
  BY DEF IInv
<1> QED
  BY Invariant, <1>1, PTL

\* An operation of the adapter hands NULL to the host only if the connection ended
\* inside of it.
THEOREM NeverNullUse == Spec => []NoNullUse
<1>1. IInv => NoNullUse
  BY DEF IInv
<1> QED
  BY Invariant, <1>1, PTL

\* The parameters last asked for of sid_ble_conn_param_update are kept for the next
\* connection, and a link runs on them, unless the host refused the last request or
\* connecting met the update.
THEOREM ParamsAlwaysApplied == Spec => []ParamsApplied
<1>1. IInv => ParamsApplied
  BY DEF IInv, ParamsKnown, HostIdle, SidIdle, ParamsApplied
<1> QED
  BY Invariant, <1>1, PTL

-----------------------------------------------------------------------------
(***************************************************************************)
(* NordicDfu: the counting of sid_ble_bt_enable and sid_ble_bt_disable       *)
(* keeps the Bluetooth host on for the Sidewalk adapter and for DFU mode,   *)
(* and switches it off after the last of them. The argument counts the      *)
(* enables: each belongs to the adapter, to the SMP set, or to a start or a *)
(* stop under way.                                                          *)
(***************************************************************************)

\* The answers of a call are Booleans.
LEMMA SucceedsBoolean ==
    \A call : Succeeds(call) \subseteq BOOLEAN /\ Answers(call) \subseteq BOOLEAN
  BY DEF Succeeds, Answers

\* Every step preserves the types.
LEMMA DfuTypeStep == DfuTypeOK /\ DfuNext => DfuTypeOK'
<1> SUFFICES ASSUME DfuTypeOK, DfuNext PROVE DfuTypeOK'
  OBVIOUS
<1> USE SucceedsBoolean
    DEF DfuTypeOK, Places, Actors, btVars, timerVars, workVars, linkVars, appVars, histVars
<1>1. CASE EnableLook
  BY <1>1 DEF EnableLook, OfCount, Goto
<1>2. CASE EnableMore
  BY <1>2 DEF EnableMore, OfCount, EnableReturn, Goto
<1>3. CASE EnableHost
  <2>1. count_raced' \in BOOLEAN /\ callbacks' \in BOOLEAN
    BY <1>3, ZenonT(60) DEF EnableHost, EnableReturn
  <2>2. bt' \in {"off", "starting", "on", "stopping"}
    BY <1>3 DEF EnableHost
  <2>3. \E l \in {"enabling", "id"} : pc' = [pc EXCEPT !["sid"] = l]
    BY <1>3 DEF EnableHost, EnableReturn, Goto
  <2> QED
    BY <1>3, <2>1, <2>2, <2>3 DEF EnableHost, OfCount
<1>4. CASE EnableAnswer
  BY <1>4 DEF EnableAnswer, OfCount, EnableReturn, EnabledCount, Goto
<1>5. CASE DisableLook
  BY <1>5 DEF DisableLook, OfCount, Goto
<1>6. CASE SidDisable
  BY <1>6 DEF SidDisable, Disable, DisableReturn, SwitchesOff, OfCount, Goto
<1>7. CASE WorkDisable
  BY <1>7 DEF WorkDisable, Disable, DisableReturn, SwitchesOff, OfCount, Goto
<1>8. ASSUME NEW a \in Actors, DisableAnswer(a) PROVE DfuTypeOK'
  <2>1. bt' \in {"off", "on"} /\ central' \in BOOLEAN
    BY <1>8, ZenonT(60) DEF DisableAnswer
  <2>2. Goto(a, "idle")
    BY <1>8 DEF DisableAnswer, DisableReturn
  <2>3. exit_timer' \in BOOLEAN /\ led_timer' \in BOOLEAN
    BY <1>8, ZenonT(60) DEF DisableAnswer, DisableReturn
  <2> QED
    BY <1>8, <2>1, <2>2, <2>3 DEF DisableAnswer, OfCount, Goto
<1>9. CASE ble_adapter_init
  BY <1>9 DEF ble_adapter_init, OfAdapter, Goto
<1>10. CASE ble_adapter_deinit
  <2>1. adapter' \in BOOLEAN /\ who' = "adapter"
    BY <1>10 DEF ble_adapter_deinit
  <2>2. pc' \in [Actors -> Places]
    BY <1>10 DEF ble_adapter_deinit, OfAdapter, Goto
  <2>3. UNCHANGED <<bt, bt_enable_count, seen, adv, in_dfu_mode, exit_timer, led_timer,
                    exit_dfu, adv_work, central, callbacks, go_to_dfu_state, stop_raced,
                    count_raced, timers_broken, events, failed, presses, uploads>>
    BY <1>10 DEF ble_adapter_deinit, OfAdapter, Goto
  <2> QED
    BY <2>1, <2>2, <2>3
<1>11. CASE CreateId
  BY <1>11 DEF CreateId, Goto
<1>12. CASE StartCreate
  BY <1>12 DEF StartCreate, OfStart, Goto
<1>13. CASE StartData
  BY <1>13 DEF StartData, OfStart, Goto
<1>14. CASE StartAdvertise
  BY <1>14 DEF StartAdvertise, OfStart, Goto
<1>15. CASE StartTimers
  BY <1>15 DEF StartTimers, OfStart, Goto, ExitTimerStart
<1>16. ASSUME NEW a \in Actors, StopAdv(a) PROVE DfuTypeOK'
  <2>1. pc' \in [Actors -> Places]
    BY <1>16 DEF StopAdv, OfStop, Goto
  <2>2. adv' \in {"null", "created", "on"}
    BY <1>16 DEF StopAdv
  <2> QED
    BY <1>16, <2>1, <2>2, ZenonT(60) DEF StopAdv, OfStop, Goto
<1>17. ASSUME NEW a \in Actors, StopDelete(a) PROVE DfuTypeOK'
  BY <1>17 DEF StopDelete, OfStop, Goto
<1>18. CASE app_btn_dfu_state
  BY <1>18 DEF app_btn_dfu_state
<1>19. CASE app_event_dfu_mode
  BY <1>19 DEF app_event_dfu_mode, Goto
<1>20. CASE exit_dfu_mode
  <2>1. exit_timer' \in BOOLEAN /\ exit_dfu' \in BOOLEAN
    BY <1>20 DEF exit_dfu_mode
  <2>2. pc' \in [Actors -> Places]
    BY <1>20 DEF exit_dfu_mode, Goto
  <2>3. UNCHANGED <<bt, bt_enable_count, seen, who, adapter, adv, in_dfu_mode, led_timer,
                    adv_work, central, callbacks, go_to_dfu_state, stop_raced, count_raced,
                    timers_broken, events, failed, presses, uploads>>
    BY <1>20 DEF exit_dfu_mode, Goto
  <2> QED
    BY <2>1, <2>2, <2>3
<1>21. CASE deinit_nordic_dfu
  <2>1. exit_dfu' \in BOOLEAN /\ stop_raced' \in BOOLEAN
    BY <1>21 DEF deinit_nordic_dfu
  <2>2. pc' \in [Actors -> Places]
    BY <1>21 DEF deinit_nordic_dfu, Goto
  <2>3. UNCHANGED <<bt, bt_enable_count, seen, who, adapter, adv, in_dfu_mode, exit_timer,
                    led_timer, adv_work, central, callbacks, go_to_dfu_state, count_raced,
                    timers_broken, events, failed, presses, uploads>>
    BY <1>21 DEF deinit_nordic_dfu, Goto
  <2> QED
    BY <2>1, <2>2, <2>3
<1>22. CASE connected
  BY <1>22 DEF connected
<1>23. CASE disconnected
  <2>1. central' \in BOOLEAN /\ adv_work' \in BOOLEAN
    BY <1>23 DEF disconnected
  <2>2. pc' \in [Actors -> Places]
    BY <1>23 DEF disconnected, Goto
  <2>3. UNCHANGED <<bt, bt_enable_count, seen, who, adapter, adv, in_dfu_mode, exit_timer,
                    led_timer, exit_dfu, callbacks, go_to_dfu_state, stop_raced, count_raced,
                    timers_broken, events, failed, presses, uploads>>
    BY <1>23 DEF disconnected, Goto
  <2> QED
    BY <2>1, <2>2, <2>3
<1>24. CASE pending_adv_start
  <2>1. adv_work' \in BOOLEAN /\ adv' \in {"null", "created", "on"}
    BY <1>24 DEF pending_adv_start
  <2>2. pc' \in [Actors -> Places]
    BY <1>24 DEF pending_adv_start, Goto
  <2>3. UNCHANGED <<bt, bt_enable_count, seen, who, adapter, in_dfu_mode, exit_timer,
                    led_timer, exit_dfu, central, callbacks, go_to_dfu_state, stop_raced,
                    count_raced, timers_broken, events, failed, presses, uploads>>
    BY <1>24 DEF pending_adv_start, Goto
  <2> QED
    BY <2>1, <2>2, <2>3
<1>25. CASE dfu_started
  BY <1>25 DEF dfu_started
<1>26. CASE dfu_stopped
  <2>1. pc' \in [Actors -> {"idle"}] /\ events' \in Seq({"start", "stop"})
    BY <1>26 DEF dfu_stopped
  <2> QED
    BY <1>26, <2>1 DEF dfu_stopped
<1> QED
  BY <1>1, <1>2, <1>3, <1>4, <1>5, <1>6, <1>7, <1>8, <1>9, <1>10, <1>11, <1>12, <1>13, <1>14,
     <1>15, <1>16, <1>17, <1>18, <1>19, <1>20, <1>21, <1>22, <1>23, <1>24, <1>25, <1>26
     DEF DfuNext, Sid, Work, Stop, Enable

\* Every step leaves the host changing exactly while an actor waits for it.
LEMMA BusyStep == DfuTypeOK /\ HostBusy /\ DfuNext => HostBusy'
<1> SUFFICES ASSUME DfuTypeOK, HostBusy, DfuNext PROVE HostBusy'
  OBVIOUS
<1> USE SucceedsBoolean DEF DfuTypeOK, HostBusy, Actors, btVars
<1>1. CASE EnableLook
  BY <1>1 DEF EnableLook, OfCount, Goto
<1>2. CASE EnableMore
  BY <1>2 DEF EnableMore, OfCount, EnableReturn, Goto
<1>3. CASE EnableHost
  BY <1>3 DEF EnableHost, OfCount, EnableReturn, Goto
<1>4. CASE EnableAnswer
  BY <1>4 DEF EnableAnswer, OfCount, EnableReturn, EnabledCount, Goto
<1>5. CASE DisableLook
  BY <1>5 DEF DisableLook, OfCount, Goto
<1>6. CASE SidDisable
  BY <1>6 DEF SidDisable, Disable, DisableReturn, SwitchesOff, OfCount, Goto
<1>7. CASE WorkDisable
  BY <1>7 DEF WorkDisable, Disable, DisableReturn, SwitchesOff, OfCount, Goto
<1>8. ASSUME NEW a \in Actors, DisableAnswer(a) PROVE HostBusy'
  BY <1>8 DEF DisableAnswer, DisableReturn, OfCount, Goto
<1>9. CASE ble_adapter_init
  BY <1>9 DEF ble_adapter_init, OfAdapter, Goto
<1>10. CASE ble_adapter_deinit
  BY <1>10 DEF ble_adapter_deinit, OfAdapter, Goto
<1>11. CASE CreateId
  BY <1>11 DEF CreateId, Goto
<1>12. CASE StartCreate
  BY <1>12 DEF StartCreate, OfStart, Goto
<1>13. CASE StartData
  BY <1>13 DEF StartData, OfStart, Goto
<1>14. CASE StartAdvertise
  BY <1>14 DEF StartAdvertise, OfStart, Goto
<1>15. CASE StartTimers
  BY <1>15 DEF StartTimers, OfStart, Goto, ExitTimerStart
<1>16. ASSUME NEW a \in Actors, StopAdv(a) PROVE HostBusy'
  BY <1>16 DEF StopAdv, OfStop, Goto
<1>17. ASSUME NEW a \in Actors, StopDelete(a) PROVE HostBusy'
  BY <1>17 DEF StopDelete, OfStop, Goto
<1>18. CASE app_btn_dfu_state
  BY <1>18 DEF app_btn_dfu_state
<1>19. CASE app_event_dfu_mode
  BY <1>19 DEF app_event_dfu_mode, Goto
<1>20. CASE exit_dfu_mode
  BY <1>20 DEF exit_dfu_mode
<1>21. CASE deinit_nordic_dfu
  BY <1>21 DEF deinit_nordic_dfu, Goto
<1>22. CASE connected
  BY <1>22 DEF connected
<1>23. CASE disconnected
  BY <1>23 DEF disconnected
<1>24. CASE pending_adv_start
  BY <1>24 DEF pending_adv_start
<1>25. CASE dfu_started
  BY <1>25 DEF dfu_started
<1>26. CASE dfu_stopped
  <2>1. pc'["sid"] = "idle" /\ pc'["work"] = "idle"
    BY <1>26 DEF dfu_stopped
  <2>2. bt' = "off" /\ ~adapter' /\ adv' = "null" /\ bt_enable_count' = 0 /\ failed' = 0
    BY <1>26 DEF dfu_stopped
  <2> QED
    BY <2>1, <2>2
<1> QED
  BY <1>1, <1>2, <1>3, <1>4, <1>5, <1>6, <1>7, <1>8, <1>9, <1>10, <1>11, <1>12, <1>13, <1>14,
     <1>15, <1>16, <1>17, <1>18, <1>19, <1>20, <1>21, <1>22, <1>23, <1>24, <1>25, <1>26
     DEF DfuNext, Sid, Work, Stop, Enable

\* Every step keeps the host on for what accounts for it, whatever fails.
LEMMA CoveredStep == DfuTypeOK /\ Covered /\ DfuNext => CountCovers'
<1> SUFFICES ASSUME DfuTypeOK, HostBusy, CountCovers, DfuNext PROVE CountCovers'
  BY DEF Covered
<1> USE SucceedsBoolean
    DEF DfuTypeOK, HostBusy, CountCovers, Counted, Uncounted, Enables, One, Actors, btVars, histVars
<1>1. CASE EnableLook
  BY <1>1 DEF EnableLook, OfCount, Goto
<1>2. CASE EnableMore
  <2>1. count_raced' <=> count_raced \/ seen # bt_enable_count
    BY <1>2 DEF EnableMore
  <2>2. CASE count_raced \/ seen # bt_enable_count
    BY <2>1, <2>2
  <2>3. CASE ~count_raced /\ seen = bt_enable_count
    <3>1. Uncounted' \/ Counted'
      BY <1>2, <2>3 DEF EnableMore, OfCount, EnableReturn, Goto
    <3> QED
      BY <3>1
  <2> QED
    BY <2>2, <2>3
<1>3. CASE EnableHost
  <2>1. CASE bt # "off" /\ bt # "on"
    BY <1>3, <2>1 DEF EnableHost
  <2>2. CASE bt = "off" \/ bt = "on"
    <3>1. Uncounted \/ Counted => Uncounted' \/ Counted'
      BY <1>3, <2>2 DEF EnableHost, OfCount, EnableReturn, Goto
    <3>2. count_raced => count_raced'
      BY <1>3, Zenon DEF EnableHost
    <3> QED
      BY <3>1, <3>2
  <2> QED
    BY <2>1, <2>2
<1>4. CASE EnableAnswer
  BY <1>4 DEF EnableAnswer, OfCount, EnableReturn, EnabledCount, Goto
<1>5. CASE DisableLook
  BY <1>5 DEF DisableLook, OfCount, Goto
<1>6. CASE SidDisable
  <2>1. count_raced' <=> count_raced \/ seen # bt_enable_count
    BY <1>6 DEF SidDisable
  <2>2. CASE count_raced \/ seen # bt_enable_count
    BY <2>1, <2>2
  <2>3. CASE ~count_raced /\ seen = bt_enable_count
    <3>1. Uncounted' \/ Counted'
      BY <1>6, <2>3 DEF SidDisable, Disable, DisableReturn, SwitchesOff, OfCount, Goto
    <3> QED
      BY <3>1
  <2> QED
    BY <2>2, <2>3
<1>7. CASE WorkDisable
  BY <1>7 DEF WorkDisable, Disable, DisableReturn, SwitchesOff, OfCount, Goto
<1>8. ASSUME NEW a \in Actors, DisableAnswer(a) PROVE CountCovers'
  BY <1>8 DEF DisableAnswer, DisableReturn, OfCount, Goto
<1>9. CASE ble_adapter_init
  BY <1>9 DEF ble_adapter_init, OfAdapter, Goto
<1>10. CASE ble_adapter_deinit
  BY <1>10 DEF ble_adapter_deinit, OfAdapter, Goto
<1>11. CASE CreateId
  BY <1>11 DEF CreateId, Goto
<1>12. CASE StartCreate
  BY <1>12 DEF StartCreate, OfStart, Goto
<1>13. CASE StartData
  BY <1>13 DEF StartData, OfStart, Goto
<1>14. CASE StartAdvertise
  BY <1>14 DEF StartAdvertise, OfStart, Goto
<1>15. CASE StartTimers
  BY <1>15 DEF StartTimers, OfStart, Goto, ExitTimerStart
<1>16. ASSUME NEW a \in Actors, StopAdv(a) PROVE CountCovers'
  BY <1>16 DEF StopAdv, OfStop, Goto
<1>17. ASSUME NEW a \in Actors, StopDelete(a) PROVE CountCovers'
  BY <1>17 DEF StopDelete, OfStop, Goto
<1>18. CASE app_btn_dfu_state
  BY <1>18 DEF app_btn_dfu_state
<1>19. CASE app_event_dfu_mode
  BY <1>19 DEF app_event_dfu_mode, Goto
<1>20. CASE exit_dfu_mode
  BY <1>20 DEF exit_dfu_mode
<1>21. CASE deinit_nordic_dfu
  BY <1>21 DEF deinit_nordic_dfu, Goto
<1>22. CASE connected
  BY <1>22 DEF connected
<1>23. CASE disconnected
  BY <1>23 DEF disconnected
<1>24. CASE pending_adv_start
  BY <1>24 DEF pending_adv_start
<1>25. CASE dfu_started
  BY <1>25 DEF dfu_started
<1>26. CASE dfu_stopped
  <2>1. pc'["sid"] = "idle" /\ pc'["work"] = "idle"
    BY <1>26 DEF dfu_stopped
  <2>2. bt' = "off" /\ ~adapter' /\ adv' = "null" /\ bt_enable_count' = 0 /\ failed' = 0
    BY <1>26 DEF dfu_stopped
  <2> QED
    BY <2>1, <2>2
<1> QED
  BY <1>1, <1>2, <1>3, <1>4, <1>5, <1>6, <1>7, <1>8, <1>9, <1>10, <1>11, <1>12, <1>13, <1>14,
     <1>15, <1>16, <1>17, <1>18, <1>19, <1>20, <1>21, <1>22, <1>23, <1>24, <1>25, <1>26
     DEF DfuNext, Sid, Work, Stop, Enable

\* If bt_disable works, every step that leaves an enable to nobody is counted as failed.
LEMMA ExtraStep == DfuIInv /\ DisableWorks /\ DfuNext => NothingExtra'
<1> SUFFICES ASSUME DfuTypeOK, HostBusy, CountCovers, NothingExtra, DisableWorks,
                    DfuNext
             PROVE  NothingExtra'
  BY DEF DfuIInv, CInv, Covered
<1> USE SucceedsBoolean
    DEF DfuTypeOK, HostBusy, CountCovers, Counted, NothingExtra, DisableWorks, Succeeds, Answers,
        Uncounted, Enables, One, Actors, btVars, histVars
<1>1. CASE EnableLook
  BY <1>1 DEF EnableLook, OfCount, Goto
<1>2. CASE EnableMore
  <2>1. count_raced' <=> count_raced \/ seen # bt_enable_count
    BY <1>2 DEF EnableMore
  <2>2. CASE count_raced \/ seen # bt_enable_count
    BY <2>1, <2>2
  <2>3. CASE ~count_raced /\ seen = bt_enable_count
    <3>1. ~Uncounted' /\ bt_enable_count' <= Enables' + failed'
      BY <1>2, <2>3 DEF EnableMore, OfCount, EnableReturn, Goto
    <3> QED
      BY <3>1
  <2> QED
    BY <2>2, <2>3
<1>3. CASE EnableHost
  BY <1>3 DEF EnableHost, OfCount, EnableReturn, Goto
<1>4. CASE EnableAnswer
  BY <1>4 DEF EnableAnswer, OfCount, EnableReturn, EnabledCount, Goto
<1>5. CASE DisableLook
  BY <1>5 DEF DisableLook, OfCount, Goto
<1>6. CASE SidDisable
  <2>1. count_raced' <=> count_raced \/ seen # bt_enable_count
    BY <1>6 DEF SidDisable
  <2>2. CASE count_raced \/ seen # bt_enable_count
    BY <2>1, <2>2
  <2>3. CASE ~count_raced /\ seen = bt_enable_count
    <3>1. ~Uncounted' /\ bt_enable_count' <= Enables' + failed'
      BY <1>6, <2>3 DEF SidDisable, Disable, DisableReturn, SwitchesOff, OfCount, Goto
    <3> QED
      BY <3>1
  <2> QED
    BY <2>2, <2>3
<1>7. CASE WorkDisable
  BY <1>7 DEF WorkDisable, Disable, DisableReturn, SwitchesOff, OfCount, Goto
<1>8. ASSUME NEW a \in Actors, DisableAnswer(a) PROVE NothingExtra'
  BY <1>8 DEF DisableAnswer, DisableReturn, OfCount, Goto
<1>9. CASE ble_adapter_init
  BY <1>9 DEF ble_adapter_init, OfAdapter, Goto
<1>10. CASE ble_adapter_deinit
  BY <1>10 DEF ble_adapter_deinit, OfAdapter, Goto
<1>11. CASE CreateId
  <2>1. PICK ok \in BOOLEAN :
           /\ adapter' = IF who = "adapter" THEN ok ELSE adapter
           /\ failed' = IF ok THEN failed ELSE failed + 1
           /\ Goto("sid", IF ok /\ who = "dfu" THEN "create" ELSE "idle")
    BY <1>11 DEF CreateId
  <2>2. /\ pc["sid"] = "id"
        /\ UNCHANGED <<bt, bt_enable_count, adv, count_raced>>
    BY <1>11 DEF CreateId
  <2>3. CASE ok
    BY <2>1, <2>2, <2>3 DEF Goto
  <2>4. CASE ~ok
    BY <2>1, <2>2, <2>4 DEF Goto
  <2> QED
    BY <2>3, <2>4
<1>12. CASE StartCreate
  BY <1>12 DEF StartCreate, OfStart, Goto
<1>13. CASE StartData
  BY <1>13 DEF StartData, OfStart, Goto
<1>14. CASE StartAdvertise
  BY <1>14 DEF StartAdvertise, OfStart, Goto
<1>15. CASE StartTimers
  BY <1>15 DEF StartTimers, OfStart, Goto, ExitTimerStart
<1>16. ASSUME NEW a \in Actors, StopAdv(a) PROVE NothingExtra'
  BY <1>16 DEF StopAdv, OfStop, Goto
<1>17. ASSUME NEW a \in Actors, StopDelete(a) PROVE NothingExtra'
  BY <1>17 DEF StopDelete, OfStop, Goto
<1>18. CASE app_btn_dfu_state
  BY <1>18 DEF app_btn_dfu_state
<1>19. CASE app_event_dfu_mode
  BY <1>19 DEF app_event_dfu_mode, Goto
<1>20. CASE exit_dfu_mode
  BY <1>20 DEF exit_dfu_mode
<1>21. CASE deinit_nordic_dfu
  BY <1>21 DEF deinit_nordic_dfu, Goto
<1>22. CASE connected
  BY <1>22 DEF connected
<1>23. CASE disconnected
  BY <1>23 DEF disconnected
<1>24. CASE pending_adv_start
  BY <1>24 DEF pending_adv_start
<1>25. CASE dfu_started
  BY <1>25 DEF dfu_started
<1>26. CASE dfu_stopped
  <2>1. pc'["sid"] = "idle" /\ pc'["work"] = "idle"
    BY <1>26 DEF dfu_stopped
  <2>2. bt' = "off" /\ ~adapter' /\ adv' = "null" /\ bt_enable_count' = 0 /\ failed' = 0
    BY <1>26 DEF dfu_stopped
  <2> QED
    BY <2>1, <2>2
<1> QED
  BY <1>1, <1>2, <1>3, <1>4, <1>5, <1>6, <1>7, <1>8, <1>9, <1>10, <1>11, <1>12, <1>13, <1>14,
     <1>15, <1>16, <1>17, <1>18, <1>19, <1>20, <1>21, <1>22, <1>23, <1>24, <1>25, <1>26
     DEF DfuNext, Sid, Work, Stop, Enable

\* Initially the host is off and nobody uses it.
LEMMA DfuIInvInit == DfuInit => DfuIInv
<1> SUFFICES ASSUME DfuInit PROVE DfuIInv
  OBVIOUS
<1>1. pc["sid"] = "idle" /\ pc["work"] = "idle"
  BY DEF DfuInit, Actors
<1>2. DfuTypeOK
  <2>1. pc \in [Actors -> {"idle"}] /\ events \in Seq({"start", "stop"})
    BY DEF DfuInit
  <2>2. /\ failed \in Nat /\ presses \in Nat /\ uploads \in Nat
        /\ bt_enable_count \in Nat /\ seen \in Nat
    BY DEF DfuInit
  <2> QED
    BY <2>1, <2>2 DEF DfuInit, DfuTypeOK, Places
<1>3. bt_enable_count = 0 /\ bt = "off" /\ ~adapter /\ adv = "null" /\ failed = 0
  BY DEF DfuInit
<1>4. HostBusy
  BY <1>1, <1>3 DEF HostBusy, Actors
<1>5. Counted /\ ~Uncounted /\ bt_enable_count <= Enables + failed
  BY <1>1, <1>3 DEF Counted, Uncounted, Enables, One
<1> QED
  BY <1>2, <1>4, <1>5 DEF DfuIInv, CInv, Covered, CountCovers, NothingExtra

\* What both invariants keep over a step that changes nothing.
LEMMA DfuStutter == UNCHANGED dfu_vars => (CInv => CInv') /\ (DfuIInv => DfuIInv')
  BY DEF dfu_vars, btVars, timerVars, workVars, linkVars, appVars, histVars, CInv, DfuIInv,
         DfuTypeOK, Covered, CountCovers, HostBusy, Counted, NothingExtra, Uncounted, Enables, One

\* The variables have their types and the enables of the host cover its users, for every
\* set of failing calls, until the two actors meet in the count.
THEOREM EnablesCovered == DfuSpec => []CInv
<1>1. DfuInit => CInv
  BY DfuIInvInit DEF DfuIInv
<1>2. CInv /\ [DfuNext]_dfu_vars => CInv'
  BY DfuTypeStep, BusyStep, CoveredStep, DfuStutter DEF CInv, Covered
<1> QED
  BY <1>1, <1>2, PTL DEF DfuSpec

\* While the Sidewalk adapter or an SMP set exists the Bluetooth host is on, whichever calls
\* of the host fail and however the work queue and the Sidewalk thread interleave between and
\* in them, until the queue counts down between the thread's look at the count and its use,
\* or the thread's enable meets the host on its way off.
THEOREM HostAlwaysOnForUsers == DfuSpec => []HostOnForUsers
<1>1. CInv => HostOnForUsers
  BY DEF CInv, DfuTypeOK, Covered, CountCovers, Counted, Uncounted, Enables, One, HostOnForUsers
<1> QED
  BY EnablesCovered, <1>1, PTL

\* If bt_disable works the host is off, too, once the adapter and DFU mode are gone, unless
\* an init or a start failed half way or the two actors met as above.
THEOREM HostAlwaysFollowsUsers ==
    ASSUME DisableWorks
    PROVE  DfuSpec => []HostFollowsUsers
<1>1. DfuIInv /\ [DfuNext]_dfu_vars => DfuIInv'
  BY DfuTypeStep, BusyStep, CoveredStep, ExtraStep, DfuStutter, DisableWorks
     DEF DfuIInv, CInv, Covered
<1>2. DfuIInv => HostOnForUsers
  BY DEF DfuIInv, CInv, DfuTypeOK, Covered, CountCovers, Counted, Uncounted, Enables, One,
         HostOnForUsers
<1>3. DfuIInv => HostOffWhenUnused
  BY DEF DfuIInv, CInv, DfuTypeOK, Covered, CountCovers, Counted, HostBusy, NothingExtra,
         Uncounted, Enables, One, Idle, Actors, HostOffWhenUnused
<1>4. DfuIInv => HostFollowsUsers
  BY <1>2, <1>3 DEF HostFollowsUsers
<1> QED
  BY DfuIInvInit, <1>1, <1>4, PTL DEF DfuSpec

-----------------------------------------------------------------------------
(***************************************************************************)
(* LR11xx: the variables other than the driver.                            *)
(***************************************************************************)
\* The types of the variables other than d.
OthersTyped ==
    /\ bh \in {"idle", "UNKNOWN", "RX_TIMEOUT", "TX_DONE"}
    /\ loc \in {"idle", "asking"} \cup Holding
    /\ op \in Ops \cup {"none"}
    /\ lost \in BOOLEAN
    /\ deaf \in {"no", "asleep", "refused"}

\* t is s after a driver function that leaves the hold, the packet type and the mask.
LrKeeps(s, t) ==
    /\ t \in Drivers
    /\ t.modem = s.modem /\ t.packets = s.packets /\ t.mask = s.mask
    /\ t.state = "SCAN" <=> s.state = "SCAN"
    /\ t.mode # s.mode => t.mode # "scan"
    /\ s.state = "SCAN" => t.mode = s.mode /\ t.causes = s.causes

\* The chip is set up for Sidewalk and location does not hold it.
OfSidewalk(s) ==
    /\ s \in Drivers
    /\ s.state # "SCAN"
    /\ s.packets \in {s.modem, "none"}
    /\ s.mode # "scan"
    /\ s.mask # "SCAN"

-----------------------------------------------------------------------------
(* The driver's functions. *)

\* radio_clear_irq_status_all leaves the state and the mode of the chip.
LEMMA ClearKeeps ==
    ASSUME NEW s \in Drivers
    PROVE  /\ LrKeeps(s, radio_clear_irq_status_all(s))
           /\ radio_clear_irq_status_all(s).state = s.state
           /\ radio_clear_irq_status_all(s).mode = s.mode
  BY DEF Drivers, LrKeeps, radio_clear_irq_status_all

\* Arming the software timer leaves the chip alone.
LEMMA SimKeeps ==
    ASSUME NEW s \in Drivers, NEW kind \in {"RX", "TX"}
    PROVE  /\ LrKeeps(s, start_timeout_sim(s, kind))
           /\ start_timeout_sim(s, kind).state = s.state
  BY DEF Drivers, LrKeeps, start_timeout_sim

\* Outside of a hold the chip and the state may go to any operation other than a scan.
LEMMA ModeSets ==
    ASSUME NEW s \in Drivers, s.state # "SCAN",
           NEW c \in Drivers,
           c.modem = s.modem, c.packets = s.packets, c.mask = s.mask,
           NEW m \in Modes \ {"scan"}, NEW st \in States \ {"SCAN"}
    PROVE  LrKeeps(s, [c EXCEPT !.mode = m, !.state = st])
<1> DEFINE t == [c EXCEPT !.mode = m, !.state = st]
<1>1. t \in Drivers
  BY DEF Drivers
<1>2. /\ t.state = st /\ t.mode = m
      /\ t.modem = c.modem /\ t.packets = c.packets /\ t.mask = c.mask
  BY DEF Drivers
<1> HIDE DEF t
<1>3. LrKeeps(s, t)
  BY <1>1, <1>2 DEF LrKeeps
<1> QED
  BY <1>3 DEF t

\* So it may after another function of the driver.
LEMMA ModeKeeps ==
    ASSUME NEW s \in Drivers, NEW c, LrKeeps(s, c), s.state # "SCAN",
           NEW m \in Modes \ {"scan"}, NEW st \in States \ {"SCAN"}
    PROVE  LrKeeps(s, [c EXCEPT !.mode = m, !.state = st])
<1>1. c \in Drivers /\ c.modem = s.modem /\ c.packets = s.packets /\ c.mask = s.mask
  BY DEF LrKeeps
<1> QED
  BY <1>1, ModeSets

\* start_tx and start_rx neither begin nor end a hold, and leave a held chip alone.
LEMMA StartsKeep ==
    ASSUME NEW s \in Drivers
    PROVE  LrKeeps(s, start_tx(s)) /\ LrKeeps(s, start_rx(s))
<1> DEFINE c == radio_clear_irq_status_all(s)
<1>1. LrKeeps(s, c)
  BY ClearKeeps
<1> HIDE DEF c
<1>2. ASSUME NEW m \in {"tx", "rx"}, NEW st \in {"TX", "RX"}, s.state # "SCAN"
      PROVE  LrKeeps(s, [c EXCEPT !.mode = m, !.state = st])
  BY <1>1, <1>2, ModeKeeps DEF States, Modes
<1>3. LrKeeps(s, start_timeout_sim(s, "TX")) /\ LrKeeps(s, start_timeout_sim(s, "RX"))
  BY SimKeeps
<1>4. s.state = "SCAN" => LrKeeps(s, [s EXCEPT !.deferred = TRUE])
  BY DEF LrKeeps, Drivers
<1>5. LrKeeps(s, start_tx(s))
  BY <1>2, <1>3 DEF start_tx, c
<1>6. LrKeeps(s, start_rx(s))
  BY <1>2, <1>3, <1>4 DEF start_rx, c
<1> QED
  BY <1>5, <1>6

\* A wake-up by the HAL moves a sleeping chip to standby and changes nothing else.
LEMMA WakeKeeps ==
    ASSUME NEW s \in Drivers
    PROVE  /\ lr11xx_hal_wakeup(s) \in Drivers
           /\ \A f \in DOMAIN s \ {"mode"} : lr11xx_hal_wakeup(s)[f] = s[f]
           /\ lr11xx_hal_wakeup(s).mode = s.mode
                \/ (s.mode = "sleep" /\ lr11xx_hal_wakeup(s).mode = "standby")
  BY DEF Drivers, Modes, lr11xx_hal_wakeup

\* The standby call neither begins nor ends a hold, and leaves a held chip alone.
LEMMA StandbyKeeps ==
    ASSUME NEW s \in Drivers
    PROVE  LrKeeps(s, standby(s)) /\ (standby(s).state = "SLEEP" => s.state = "SLEEP")
<1>1. CASE s.state \in {"SCAN", "STANDBY"}
  BY <1>1 DEF standby, LrKeeps
<1>2. CASE s.state \notin {"SCAN", "STANDBY"}
  <2> DEFINE w == IF s.state = "SLEEP"
                     THEN [lr11xx_hal_wakeup(s) EXCEPT !.causes = {}, !.pin = TRUE]
                     ELSE s
             c == radio_clear_irq_status_all(w)
  <2>1. /\ w \in Drivers /\ w.modem = s.modem /\ w.packets = s.packets
        /\ w.mask = s.mask /\ w.state = s.state
    <3> DEFINE k == lr11xx_hal_wakeup(s)
    <3>1. /\ k \in Drivers /\ k.modem = s.modem /\ k.packets = s.packets
          /\ k.mask = s.mask /\ k.state = s.state
      BY WakeKeeps DEF Drivers
    <3> HIDE DEF k
    <3>2. LET v == [k EXCEPT !.causes = {}, !.pin = TRUE]
          IN  /\ v \in Drivers /\ v.modem = s.modem /\ v.packets = s.packets
              /\ v.mask = s.mask /\ v.state = s.state
      BY <3>1 DEF Drivers
    <3> QED
      BY <3>2 DEF k
  <2> HIDE DEF w
  <2>2. LrKeeps(w, c)
    BY <2>1, ClearKeeps
  <2> HIDE DEF c
  <2>3. LrKeeps(s, [c EXCEPT !.mode = "standby", !.state = "STANDBY"])
    <3>1. /\ c \in Drivers /\ c.modem = s.modem /\ c.packets = s.packets
          /\ c.mask = s.mask
      BY <2>1, <2>2 DEF LrKeeps
    <3> QED
      BY <1>2, <3>1, ModeSets DEF Modes, States
  <2>4. standby(s) = [c EXCEPT !.mode = "standby", !.state = "STANDBY"]
    BY <1>2 DEF standby, c, w
  <2>5. standby(s).state = "STANDBY"
    BY <2>2, <2>4 DEF LrKeeps, Drivers
  <2> QED
    BY <2>3, <2>4, <2>5
<1> QED
  BY <1>1, <1>2

\* The sleep call does the same.
LEMMA SleepKeeps ==
    ASSUME NEW s \in Drivers
    PROVE  LrKeeps(s, sleep(s))
<1> DEFINE c == radio_clear_irq_status_all(s)
<1>1. LrKeeps(s, c)
  BY ClearKeeps
<1> HIDE DEF c
<1> DEFINE p == [c EXCEPT !.pin = FALSE]
<1>2. LrKeeps(s, p)
  BY <1>1 DEF LrKeeps, Drivers
<1> HIDE DEF p
<1>3. s.state # "SCAN" => LrKeeps(s, [p EXCEPT !.mode = "sleep", !.state = "SLEEP"])
  BY <1>2, ModeKeeps DEF Modes, States
<1>4. [p EXCEPT !.mode = "sleep", !.state = "SLEEP"]
        = [c EXCEPT !.pin = FALSE, !.mode = "sleep", !.state = "SLEEP"]
  BY DEF p
<1> QED
  BY <1>3, <1>4 DEF sleep, LrKeeps, c

\* Outside of a hold a started transmission is the state of the driver.
LEMMA StartTxState ==
    ASSUME NEW s \in Drivers, s.state # "SCAN"
    PROVE  start_tx(s).state = "TX"
<1> DEFINE c == radio_clear_irq_status_all(s)
<1>1. c \in Drivers
  BY ClearKeeps DEF LrKeeps
<1> HIDE DEF c
<1>2. [c EXCEPT !.mode = "tx", !.state = "TX"].state = "TX"
  BY <1>1 DEF Drivers
<1> QED
  BY <1>2 DEF start_tx, c

\* Two functions in a row keep what each of them keeps.
LEMMA KeepsTransitive ==
    ASSUME NEW s \in Drivers, NEW t, NEW u, LrKeeps(s, t), LrKeeps(t, u)
    PROVE  LrKeeps(s, u)
  BY DEF LrKeeps

\* Bookkeeping of the driver's context leaves the chip alone.
LEMMA FieldsKeep ==
    ASSUME NEW s \in Drivers
    PROVE  /\ LrKeeps(s, [s EXCEPT !.sim = "OFF"])
           /\ LrKeeps(s, [s EXCEPT !.deferred = FALSE])
           /\ LrKeeps(s, [s EXCEPT !.exit = "NONE"])
           /\ LrKeeps(s, [s EXCEPT !.exit = "CS_LBT"])
           /\ LrKeeps(s, [s EXCEPT !.due = FALSE])
           /\ LrKeeps(s, [s EXCEPT !.armed = FALSE, !.due = TRUE])
  BY DEF LrKeeps, Drivers

\* The first part of the bottom half, the simulated end, leaves a held chip alone.
LEMMA SimulatedKeeps ==
    ASSUME NEW s \in Drivers
    PROVE  /\ LrKeeps(s, Simulated(s).s)
           /\ Simulated(s).event \in {"UNKNOWN", "RX_TIMEOUT", "TX_DONE"}
<1> DEFINE off == [s EXCEPT !.sim = "OFF"]
           rearmed == [start_timeout_sim(off, "RX") EXCEPT !.deferred = FALSE]
           again == IF s.deferred THEN rearmed ELSE off
           talk == start_tx([again EXCEPT !.exit = "NONE"])
<1>1. LrKeeps(s, off) /\ off \in Drivers
  BY FieldsKeep DEF LrKeeps
<1>2. LrKeeps(s, rearmed)
  <2> HIDE DEF off
  <2> DEFINE t == start_timeout_sim(off, "RX")
  <2>1. LrKeeps(off, t) /\ t \in Drivers
    BY <1>1, SimKeeps DEF LrKeeps
  <2> HIDE DEF t
  <2>2. LrKeeps(t, [t EXCEPT !.deferred = FALSE])
    BY <2>1, FieldsKeep
  <2> QED
    BY <1>1, <2>1, <2>2, KeepsTransitive DEF t
<1>3. LrKeeps(s, again) /\ again \in Drivers
  BY <1>1, <1>2 DEF LrKeeps
<1>4. LrKeeps(s, talk)
  <2> HIDE DEF again
  <2> DEFINE n == [again EXCEPT !.exit = "NONE"]
  <2>1. LrKeeps(again, n) /\ n \in Drivers
    BY <1>3, FieldsKeep DEF LrKeeps
  <2> HIDE DEF n
  <2>2. LrKeeps(n, start_tx(n))
    BY <2>1, StartsKeep
  <2>3. LrKeeps(s, n)
    BY <1>3, <2>1, KeepsTransitive
  <2> QED
    BY <2>2, <2>3, KeepsTransitive DEF n
<1>5. LrKeeps(s, s)
  BY DEF LrKeeps
<1>6. /\ Simulated(s).s \in {s, off, again, talk}
      /\ Simulated(s).event \in {"UNKNOWN", "RX_TIMEOUT", "TX_DONE"}
  BY DEF Simulated, Drivers
<1> QED
  BY <1>1, <1>3, <1>4, <1>5, <1>6

\* A function that keeps the hold leaves a chip of Sidewalk to it.
LEMMA KeepsOfSidewalk ==
    ASSUME NEW s, NEW t, OfSidewalk(s), LrKeeps(s, t)
    PROVE  OfSidewalk(t)
  BY DEF OfSidewalk, LrKeeps

\* The interrupt line only asks for the bottom half.
LEMMA IrqLine ==
    ASSUME NEW b, NEW s \in Drivers
    PROVE  LET t == radio_irq(b, s)
           IN  /\ t \in Drivers
               /\ t.state = s.state /\ t.modem = s.modem /\ t.packets = s.packets
               /\ t.mask = s.mask /\ t.mode = s.mode /\ t.causes = s.causes
<1>1. radio_irq(b, s) \in {s, [s EXCEPT !.due = TRUE]}
  BY DEF radio_irq
<1> QED
  BY <1>1 DEF Drivers

\* Disabling and enabling the interrupts changes the mask, and wakes the chip.
LEMMA MaskSets ==
    ASSUME NEW s, OfSidewalk(s)
    PROVE  /\ OfSidewalk(radio_disable_irq(s)) /\ radio_disable_irq(s).state = s.state
           /\ OfSidewalk(radio_enable_irq(s)) /\ radio_enable_irq(s).state = s.state
           /\ radio_enable_irq(s).mask = "DEFAULT"
<1> DEFINE w == lr11xx_hal_wakeup(s)
           m == [s EXCEPT !.mask = "DEFAULT"]
<1>1. /\ w \in Drivers /\ w.state = s.state /\ w.packets = s.packets
      /\ w.modem = s.modem /\ w.mode # "scan"
  BY WakeKeeps DEF OfSidewalk, Drivers
<1> HIDE DEF w
<1>2. OfSidewalk([w EXCEPT !.mask = "NONE"]) /\ [w EXCEPT !.mask = "NONE"].state = s.state
  BY <1>1 DEF OfSidewalk, Drivers, Masks
<1>3. OfSidewalk(m) /\ m.state = s.state /\ m.mask = "DEFAULT"
  BY DEF OfSidewalk, Drivers, Masks
<1> HIDE DEF m
<1>4. LET t == radio_irq(s, m) IN OfSidewalk(t) /\ t.state = s.state /\ t.mask = "DEFAULT"
  BY <1>3, IrqLine DEF OfSidewalk
<1> QED
  BY <1>2, <1>4 DEF radio_disable_irq, radio_enable_irq, w, m

\* Receiving for good leaves the chip to Sidewalk.
LEMMA ContinuousKeeps ==
    ASSUME NEW s \in Drivers, s.state # "SCAN"
    PROVE  LrKeeps(s, start_continuous_rx(s))
<1> DEFINE c == radio_clear_irq_status_all(s)
<1>1. LrKeeps(s, c)
  BY ClearKeeps
<1> HIDE DEF c
<1>2. LrKeeps(s, [c EXCEPT !.mode = "continuous", !.state = "RX"])
  BY <1>1, ModeKeeps DEF States, Modes
<1> QED
  BY <1>2 DEF start_continuous_rx, c

\* So do both measurements, carried out or refused.
LEMMA MeasurementsKeep ==
    ASSUME NEW s, OfSidewalk(s), NEW t \in get_chan_noise(s) \cup is_channel_free(s)
    PROVE  OfSidewalk(t)
<1>a. ASSUME NEW u, OfSidewalk(u)
      PROVE  /\ OfSidewalk(standby(u)) /\ OfSidewalk(start_continuous_rx(u))
             /\ OfSidewalk(radio_disable_irq(u)) /\ OfSidewalk(radio_enable_irq(u))
  BY <1>a, StandbyKeeps, ContinuousKeeps, KeepsOfSidewalk, MaskSets DEF OfSidewalk
<1>1. CASE t \in get_chan_noise(s)
  BY <1>1, <1>a DEF get_chan_noise
<1>2. CASE t \in is_channel_free(s)
  BY <1>2, <1>a DEF is_channel_free
<1> QED
  BY <1>1, <1>2

\* What the bottom half makes of the causes leaves the chip set up for Sidewalk.
LEMMA DecodedReady ==
    ASSUME NEW s, OfSidewalk(s), NEW c, NEW event, NEW r \in Decoded(s, c, event)
    PROVE  OfSidewalk(r.s) /\ (r.s.state = "SLEEP" => s.state = "SLEEP")
<1> DEFINE n == [s EXCEPT !.exit = "NONE"]
           b == [s EXCEPT !.state = "BUSY", !.packets = s.modem]
           Good(t) == OfSidewalk(t) /\ (t.state = "SLEEP" => s.state = "SLEEP")
<1>0. s \in Drivers /\ s.state # "SCAN"
  BY DEF OfSidewalk
<1>1. Good(s)
  OBVIOUS
<1>2. n \in Drivers /\ n.state = s.state /\ OfSidewalk(n)
  BY <1>0 DEF Drivers, OfSidewalk
<1>3. Good(n)
  BY <1>2
<1>4. Good(b)
  BY DEF Drivers, States, OfSidewalk
<1> HIDE DEF n, b
<1>5. Good(start_tx(n)) /\ Good(standby(n))
  BY <1>0, <1>2, StartsKeep, StartTxState, StandbyKeeps, KeepsOfSidewalk
<1>6. Good([start_tx(s) EXCEPT !.exit = "NONE"])
  <2> DEFINE t == start_tx(s)
  <2>1. OfSidewalk(t) /\ t.state = "TX"
    BY <1>0, StartsKeep, StartTxState, KeepsOfSidewalk
  <2> HIDE DEF t
  <2>2. Good([t EXCEPT !.exit = "NONE"])
    BY <2>1 DEF OfSidewalk, Drivers
  <2> QED
    BY <2>2 DEF t
<1>7. r.s \in {s, n, b, start_tx(n), standby(n), [start_tx(s) EXCEPT !.exit = "NONE"]}
  <2>1. ScanDone(s, c) \in {s, b}
    BY DEF ScanDone, b
  <2> QED
    BY <2>1 DEF Decoded, Decode, n
<1> HIDE DEF Good
<1>8. Good(r.s)
  BY <1>1, <1>3, <1>4, <1>5, <1>6, <1>7
<1> QED
  BY <1>8 DEF Good

-----------------------------------------------------------------------------
(* The three kinds of steps. *)

\* Outside of a hold the chip is Sidewalk's.
LEMMA FreeChip ==
    ASSUME LrIInv, d.state # "SCAN"
    PROVE  OfSidewalk(d) /\ (d.mask = "NONE" => deaf # "no")
  BY DEF OfSidewalk, LrIInv, LrTypeOK, ScanIsHold, ChipOfSidewalk, ChipOfLocation, Holding

\* A step outside of a hold that leaves the chip set up for Sidewalk.
LEMMA StepOutside ==
    ASSUME LrIInv, OthersTyped', loc' = loc, d.state # "SCAN",
           OfSidewalk(d'), d'.mask = "NONE" => deaf' # "no"
    PROVE  LrIInv' /\ LeavesScan
  BY DEF OfSidewalk, LrIInv, LrTypeOK, OthersTyped, ScanIsHold, ChipOfSidewalk,
     ChipOfLocation, LeavesScan, Holding

\* A step inside of a hold that leaves the packet type, the mask and the scan alone.
LEMMA StepInside ==
    ASSUME LrIInv, OthersTyped', loc' = loc, bh' = "idle",
           d.state = "SCAN", d' \in Drivers, d'.state = "SCAN",
           d'.modem = d.modem, d'.packets = d.packets, d'.mask = d.mask,
           "SCAN_DONE" \in d'.causes <=> "SCAN_DONE" \in d.causes,
           d'.mode = d.mode
               \/ (d.mode \notin {"sleep", "standby", "scan"} /\ d'.mode # "scan")
    PROVE  LrIInv' /\ LeavesScan
<1>1. LrIInv'
  BY DEF LrIInv, LrTypeOK, OthersTyped, ScanIsHold, ChipOfSidewalk,
     ChipOfLocation, Holding
<1>2. LeavesScan
  BY DEF LrIInv, ChipOfLocation, LeavesScan, Holding
<1> QED
  BY <1>1, <1>2

\* A driver function that keeps the hold is a step of one of these two kinds.
LEMMA KeepsStep ==
    ASSUME LrIInv, OthersTyped', loc' = loc, bh' = bh, deaf' = deaf, LrKeeps(d, d')
    PROVE  LrIInv' /\ LeavesScan
<1>1. CASE d.state = "SCAN"
  <2>1. bh' = "idle"
    BY <1>1 DEF LrIInv, ScanIsHold
  <2> QED
    BY <1>1, <2>1, StepInside DEF LrKeeps
<1>2. CASE d.state # "SCAN"
  <2>1. OfSidewalk(d) /\ (d.mask = "NONE" => deaf # "no")
    BY <1>2, FreeChip
  <2>2. OfSidewalk(d') /\ d'.mask = d.mask
    BY <2>1, KeepsOfSidewalk DEF LrKeeps
  <2> QED
    BY <1>2, <2>1, <2>2, StepOutside
<1> QED
  BY <1>1, <1>2

\* The calls of the protocol.
LEMMA LrProtocolStep == LrIInv /\ Protocol => LrIInv' /\ LeavesScan
<1> SUFFICES ASSUME LrIInv, Protocol PROVE LrIInv' /\ LeavesScan
  OBVIOUS
<1>0. /\ d \in Drivers /\ OthersTyped
      /\ d.state # "SCAN" => OfSidewalk(d)
  BY FreeChip DEF LrIInv, LrTypeOK, OthersTyped
<1>a. ASSUME NEW s, Call(s)
      PROVE  OthersTyped' /\ d' = s /\ loc' = loc /\ bh' = bh /\ deaf' = deaf
  BY <1>0, <1>a DEF Call, OthersTyped
<1>b. ASSUME NEW o \in Ops, NEW s, Begin(o, s)
      PROVE  OthersTyped' /\ d' = s /\ loc' = loc /\ bh' = bh /\ deaf' = deaf
  <2>1. lost' \in BOOLEAN /\ op' \in Ops \cup {"none"}
    BY <1>b DEF Begin
  <2> QED
    BY <1>0, <1>b, <2>1 DEF Begin, OthersTyped
<1>c. ASSUME Abandon PROVE OthersTyped' /\ loc' = loc /\ bh' = bh /\ deaf' = deaf
  BY <1>0, <1>c DEF Abandon, OthersTyped
<1>d. LrKeeps(d, d)
  BY <1>0 DEF LrKeeps
<1>e. ASSUME NEW left \in {"no", "asleep", "refused"}, NEW s, Sets(s, left),
             d.state # "SCAN", OfSidewalk(s), s.mask = "NONE" => left # "no"
      PROVE  LrIInv' /\ LeavesScan
  <2>1. OthersTyped' /\ d' = s /\ loc' = loc /\ deaf' = left
    BY <1>0, <1>e DEF Sets, OthersTyped
  <2> QED
    BY <1>e, <2>1, StepOutside
<1>f. ASSUME d.state # "SCAN",
             NEW s \in get_chan_noise(d) \cup is_channel_free(d), Sets(s, Masked(s))
      PROVE  LrIInv' /\ LeavesScan
  <2>1. OfSidewalk(s)
    BY <1>0, <1>f, MeasurementsKeep
  <2>2. /\ Masked(s) \in {"no", "asleep", "refused"}
        /\ s.mask = "NONE" => Masked(s) # "no"
    BY <1>0 DEF Masked, OthersTyped
  <2> QED
    BY <1>e, <1>f, <2>1, <2>2
<1>g. ASSUME NEW m \in Modes \ {"scan"}, NEW st \in States \ {"SCAN"}, d.state # "SCAN",
             Call([radio_clear_irq_status_all(d) EXCEPT !.mode = m, !.state = st])
      PROVE  LrIInv' /\ LeavesScan
  <2> DEFINE c == radio_clear_irq_status_all(d)
             s == [c EXCEPT !.mode = m, !.state = st]
  <2>1. LrKeeps(d, c)
    BY <1>0, ClearKeeps
  <2> HIDE DEF c
  <2>2. LrKeeps(d, s)
    BY <1>0, <1>g, <2>1, ModeKeeps
  <2>3. Call(s)
    BY <1>g DEF c
  <2> HIDE DEF s
  <2> QED
    BY <1>a, <2>2, <2>3, KeepsStep
<1>1. ASSUME NEW m \in Modems, sid_pal_radio_set_modem_mode(m)
      PROVE  LrIInv' /\ LeavesScan
  <2>1. CASE d.state = "SCAN"
    BY <1>1, <1>a, <1>d, <2>1, KeepsStep DEF sid_pal_radio_set_modem_mode
  <2>2. CASE d.state # "SCAN"
    <3> DEFINE s == [d EXCEPT !.packets = m, !.modem = m, !.mask = "DEFAULT"]
               t == radio_irq(d, s)
    <3>1. OfSidewalk(s) /\ s.mask = "DEFAULT"
      BY <1>0, <2>2 DEF OfSidewalk, Drivers, Masks
    <3>2. Sets(t, "no")
      BY <1>1, <2>2 DEF sid_pal_radio_set_modem_mode
    <3> HIDE DEF s
    <3>3. OfSidewalk(t) /\ t.mask = "DEFAULT"
      BY <3>1, IrqLine DEF OfSidewalk
    <3> HIDE DEF t
    <3> QED
      BY <1>e, <2>2, <3>2, <3>3
  <2> QED
    BY <2>1, <2>2
<1>2. CASE sid_pal_radio_standby
  BY <1>0, <1>2, <1>c, StandbyKeeps, KeepsStep DEF sid_pal_radio_standby
<1>3. CASE sid_pal_set_radio_busy
  <2>1. LrKeeps(d, [d EXCEPT !.state = "BUSY"])
    BY <1>0, <1>3 DEF sid_pal_set_radio_busy, LrKeeps, Drivers, States
  <2> QED
    BY <1>3, <1>a, <2>1, KeepsStep DEF sid_pal_set_radio_busy
<1>4. CASE sid_pal_radio_sleep
  BY <1>0, <1>4, <1>c, SleepKeeps, KeepsStep DEF sid_pal_radio_sleep
<1>5. CASE sid_pal_radio_start_tx
  BY <1>0, <1>5, <1>a, <1>b, <1>d, StartsKeep, KeepsStep DEF sid_pal_radio_start_tx, Ops
<1>6. CASE sid_pal_radio_start_rx
  BY <1>0, <1>6, <1>a, <1>b, StartsKeep, KeepsStep DEF sid_pal_radio_start_rx, Ops
<1>7. ASSUME NEW e \in {"NONE", "CS_LBT"}, sid_pal_radio_start_carrier_sense(e)
      PROVE  LrIInv' /\ LeavesScan
  <2> DEFINE c == radio_clear_irq_status_all(d)
             s == [c EXCEPT !.mask = "ALL", !.mode = "rx", !.state = "RX", !.exit = e]
  <2>1. d.state # "SCAN" /\ OfSidewalk(c)
    BY <1>0, <1>7, ClearKeeps, KeepsOfSidewalk DEF sid_pal_radio_start_carrier_sense
  <2>2. Begin("sense", radio_irq(d, s))
    BY <1>7 DEF sid_pal_radio_start_carrier_sense
  <2> HIDE DEF c
  <2>3. OfSidewalk(s) /\ s.mask = "ALL"
    <3>1. "ALL" \in Masks /\ "rx" \in Modes /\ "RX" \in States
      BY DEF Masks, Modes, States
    <3>2. c \in Drivers /\ c.packets \in {c.modem, "none"}
      BY <2>1 DEF OfSidewalk
    <3>3. /\ s \in Drivers /\ s.state = "RX" /\ s.mode = "rx" /\ s.mask = "ALL"
          /\ s.packets = c.packets /\ s.modem = c.modem
      BY <3>1, <3>2 DEF Drivers
    <3> QED
      BY <3>2, <3>3 DEF OfSidewalk
  <2> HIDE DEF s
  <2>4. OfSidewalk(d') /\ d'.mask = "ALL"
    BY <2>2, <2>3, <1>b, IrqLine DEF Ops, OfSidewalk
  <2> QED
    BY <1>b, <2>1, <2>2, <2>4, StepOutside DEF Ops
<1>8. ASSUME NEW mode \in {"cad", "cad_rx", "cad_tx"}, sid_pal_radio_lora_start_cad(mode)
      PROVE  LrIInv' /\ LeavesScan
  <2> DEFINE n == sid_pal_radio_set_lora_cad_params(d, mode)
             c == radio_clear_irq_status_all(n)
             s == [c EXCEPT !.mode = mode, !.state = "CAD"]
             o == IF mode = "cad_rx" THEN "cad_rx" ELSE "cad"
  <2>1. LrKeeps(d, n) /\ n \in Drivers /\ d.state # "SCAN"
    <3>1. n \in {[d EXCEPT !.exit = "NONE"], [d EXCEPT !.exit = "CS_LBT"]}
      BY DEF sid_pal_radio_set_lora_cad_params
    <3>2. LrKeeps(d, n)
      BY <1>0, <3>1, FieldsKeep
    <3> QED
      BY <1>8, <3>2 DEF sid_pal_radio_lora_start_cad, LrKeeps
  <2>2. Begin(o, s) /\ o \in Ops
    BY <1>8 DEF sid_pal_radio_lora_start_cad, Ops
  <2> HIDE DEF n, o
  <2>3. LrKeeps(n, c)
    BY <2>1, ClearKeeps
  <2> HIDE DEF c
  <2>4. LrKeeps(d, c)
    BY <1>0, <2>1, <2>3, KeepsTransitive
  <2>5. LrKeeps(d, s)
    BY <1>0, <2>1, <2>4, ModeKeeps DEF States, Modes
  <2> HIDE DEF s
  <2> QED
    BY <1>b, <2>2, <2>5, KeepsStep
<1>9. CASE sid_pal_radio_start_continuous_rx
  BY <1>9, <1>g DEF sid_pal_radio_start_continuous_rx, start_continuous_rx, States, Modes
<1>10. CASE sid_pal_radio_set_rx_duty_cycle
  BY <1>10, <1>g DEF sid_pal_radio_set_rx_duty_cycle, States, Modes
<1>11. CASE sid_pal_radio_set_tx_continuous_wave
  BY <1>11, <1>g DEF sid_pal_radio_set_tx_continuous_wave, States, Modes
<1>12. CASE sid_pal_radio_init
  <2> DEFINE s == [d EXCEPT !.state = "STANDBY", !.modem = "LORA", !.deferred = FALSE,
                            !.pin = TRUE, !.mode = "standby", !.packets = "none",
                            !.mask = "DEFAULT", !.causes = {}]
  <2>1. Sets(s, "no") /\ d.state # "SCAN"
    BY <1>12 DEF sid_pal_radio_init
  <2>2. OfSidewalk(s) /\ s.mask = "DEFAULT"
    <3>1. /\ "DEFAULT" \in Masks /\ "standby" \in Modes /\ "STANDBY" \in States
          /\ "LORA" \in Modems
      BY DEF Masks, Modes, States, Modems
    <3>2. /\ s.state = "STANDBY" /\ s.mode = "standby" /\ s.mask = "DEFAULT"
          /\ s.packets = "none"
      BY <1>0 DEF Drivers
    <3>3. s \in Drivers
      BY <1>0, <3>1 DEF Drivers
    <3> QED
      BY <3>2, <3>3 DEF OfSidewalk
  <2> HIDE DEF s
  <2> QED
    BY <1>e, <2>1, <2>2
<1>13. CASE sid_pal_radio_get_chan_noise
  BY <1>13, <1>f DEF sid_pal_radio_get_chan_noise
<1>14. CASE sid_pal_radio_is_channel_free
  BY <1>14, <1>f DEF sid_pal_radio_is_channel_free
<1>15. CASE sid_pal_radio_random
  <2> DEFINE t == radio_enable_irq(radio_disable_irq(d))
  <2>1. Call(t) /\ d.state # "SCAN"
    BY <1>15 DEF sid_pal_radio_random
  <2>2. OfSidewalk(t) /\ t.mask = "DEFAULT"
    BY <1>0, <2>1, MaskSets
  <2> HIDE DEF t
  <2> QED
    BY <1>a, <2>1, <2>2, StepOutside
<1> QED
  BY <1>1, <1>2, <1>3, <1>4, <1>5, <1>6, <1>7, <1>8, <1>9, <1>10, <1>11, <1>12, <1>13,
     <1>14, <1>15 DEF Protocol

\* The chip and the timer.
LEMMA LrChipStep ==
    LrIInv /\ (ChipEnds \/ ChipHears \/ lr_timer_cb) => LrIInv' /\ LeavesScan
<1> SUFFICES ASSUME LrIInv, ChipEnds \/ ChipHears \/ lr_timer_cb
             PROVE  LrIInv' /\ LeavesScan
  OBVIOUS
<1>0. /\ d \in Drivers /\ OthersTyped
      /\ d.state = "SCAN" => bh = "idle"
      /\ d.state # "SCAN" => OfSidewalk(d) /\ (d.mask = "NONE" => deaf # "no")
  BY FreeChip DEF LrIInv, LrTypeOK, OthersTyped, ScanIsHold
<1>1. ASSUME NEW c \in SUBSET (Causes \ {"SCAN_DONE"}), NEW m \in Modes, Raise(c, m),
             d.mode \notin {"sleep", "standby", "scan"}, m # "scan"
      PROVE  LrIInv' /\ LeavesScan
  <2> DEFINE e == c \cap Enabled(d)
             s == [d EXCEPT !.causes = @ \cup e, !.mode = m]
  <2>0. e \in SUBSET Causes /\ "SCAN_DONE" \notin e
    BY <1>1
  <2> HIDE DEF e
  <2>1. /\ s \in Drivers /\ s.state = d.state /\ s.modem = d.modem
        /\ s.packets = d.packets
        /\ s.mask = d.mask /\ s.mode = m /\ s.causes = d.causes \cup e
    BY <1>0, <2>0 DEF Drivers
  <2>2. d' = radio_irq(d, s) /\ UNCHANGED <<bh, loc, op, lost, deaf>>
    BY <1>1 DEF Raise, e
  <2> HIDE DEF s
  <2>3. /\ d' \in Drivers /\ d'.state = d.state /\ d'.modem = d.modem
        /\ d'.packets = d.packets /\ d'.mask = d.mask /\ d'.mode = m
        /\ d'.causes = d.causes \cup e
    BY <2>1, <2>2, IrqLine
  <2>4. OthersTyped'
    BY <1>0, <2>2 DEF OthersTyped
  <2>5. CASE d.state = "SCAN"
    <3>1. "SCAN_DONE" \in d'.causes <=> "SCAN_DONE" \in d.causes
      BY <2>0, <2>3
    <3> QED
      BY <1>0, <1>1, <2>2, <2>3, <2>4, <2>5, <3>1, StepInside
  <2>6. CASE d.state # "SCAN"
    <3>1. OfSidewalk(d')
      BY <1>0, <1>1, <2>3, <2>6 DEF OfSidewalk
    <3> QED
      BY <1>0, <2>2, <2>3, <2>4, <2>6, <3>1, StepOutside
  <2> QED
    BY <2>5, <2>6
<1>2. CASE ChipEnds
  BY <1>1, <1>2 DEF ChipEnds, Causes, Modes
<1>3. CASE ChipHears
  BY <1>1, <1>3 DEF ChipHears, Causes, Modes
<1>4. CASE lr_timer_cb
  <2>1. LrKeeps(d, d')
    BY <1>0, <1>4, FieldsKeep DEF lr_timer_cb
  <2>2. OthersTyped' /\ UNCHANGED <<loc, bh, deaf>>
    BY <1>0, <1>4 DEF lr_timer_cb, OthersTyped
  <2> QED
    BY <2>1, <2>2, KeepsStep
<1> QED
  BY <1>2, <1>3, <1>4

\* The bottom half.
LEMMA BottomHalfStep == LrIInv /\ BottomHalf => LrIInv' /\ LeavesScan
<1> SUFFICES ASSUME LrIInv, BottomHalf PROVE LrIInv' /\ LeavesScan
  OBVIOUS
<1>0. /\ d \in Drivers /\ OthersTyped
      /\ d.state = "SCAN" => bh = "idle"
      /\ d.state # "SCAN" => OfSidewalk(d) /\ (d.mask = "NONE" => deaf # "no")
  BY FreeChip DEF LrIInv, LrTypeOK, OthersTyped, ScanIsHold
<1>a. ASSUME NEW event, NEW b, report_radio_event(event, b)
      PROVE  op' \in Ops \cup {"none"} /\ lost' \in BOOLEAN
  <2>1. op' \in {op, "none"}
    BY <1>a DEF report_radio_event
  <2>2. lost' \in BOOLEAN
    BY <1>a DEF report_radio_event
  <2> QED
    BY <1>0, <2>1, <2>2 DEF OthersTyped
<1>1. CASE IrqSimulated
  <2> DEFINE n == [d EXCEPT !.due = FALSE]
             r == Simulated(n)
  <2>1. LrKeeps(d, n) /\ n \in Drivers
    BY <1>0, FieldsKeep DEF LrKeeps
  <2>2. /\ d' = r.s /\ bh' = (IF r.s.state = "SCAN" THEN "idle" ELSE r.event)
        /\ loc' = loc /\ deaf' = deaf
        /\ op' \in Ops \cup {"none"} /\ lost' \in BOOLEAN
    BY <1>1, <1>a DEF IrqSimulated
  <2> HIDE DEF n
  <2>3. LrKeeps(n, r.s) /\ r.event \in {"UNKNOWN", "RX_TIMEOUT", "TX_DONE"}
    BY <2>1, SimulatedKeeps
  <2> HIDE DEF r
  <2>4. LrKeeps(d, d')
    BY <1>0, <2>1, <2>2, <2>3, KeepsTransitive
  <2>5. OthersTyped'
    BY <1>0, <2>2, <2>3 DEF OthersTyped
  <2>6. CASE d.state = "SCAN"
    BY <2>2, <2>4, <2>5, <2>6, StepInside DEF LrKeeps
  <2>7. CASE d.state # "SCAN"
    <3>1. OfSidewalk(d') /\ d'.mask = d.mask
      BY <1>0, <2>4, <2>7, KeepsOfSidewalk DEF LrKeeps
    <3> QED
      BY <1>0, <2>2, <2>5, <2>7, <3>1, StepOutside
  <2> QED
    BY <2>6, <2>7
<1>2. CASE IrqChip
  <2> DEFINE k == radio_disable_irq(d)
             m == [k EXCEPT !.causes = {}]
  <2>1. bh # "idle" /\ d.state # "SCAN"
    BY <1>0, <1>2 DEF IrqChip
  <2>2. PICK r \in Decoded(m, d.causes, bh) :
          d' = Unmasked(r.s) /\ report_radio_event(r.event, Unreported)
    BY <1>2 DEF IrqChip
  <2>3. OfSidewalk(k) /\ k.state = d.state
    BY <1>0, <2>1, MaskSets
  <2> HIDE DEF k
  <2>4. OfSidewalk(m) /\ m.state = d.state
    BY <2>3 DEF OfSidewalk, Drivers
  <2> HIDE DEF m
  <2>5. OfSidewalk(r.s) /\ (r.s.state = "SLEEP" => d.state = "SLEEP")
    BY <2>4, DecodedReady
  <2>6. OfSidewalk(d') /\ (d'.mask = "NONE" => d.state = "SLEEP")
    <3> DEFINE t == r.s
    <3> HIDE DEF t
    <3>1. OfSidewalk(t) /\ (t.state = "SLEEP" => d.state = "SLEEP")
      BY <2>5 DEF t
    <3>2. OfSidewalk(Unmasked(t)) /\ (Unmasked(t).mask = "NONE" => d.state = "SLEEP")
      BY <3>1 DEF Unmasked, OfSidewalk, Drivers, Masks
    <3> QED
      BY <2>2, <3>2 DEF t
  <2>7. /\ bh' = "idle" /\ loc' = loc
        /\ deaf' = IF d.state = "SLEEP" THEN "asleep" ELSE deaf
    BY <1>2 DEF IrqChip
  <2>8. deaf' \in {"no", "asleep", "refused"} /\ (d'.mask = "NONE" => deaf' # "no")
    BY <1>0, <2>6, <2>7 DEF OthersTyped
  <2>9. op' \in Ops \cup {"none"} /\ lost' \in BOOLEAN
    BY <2>2, <1>a
  <2>10. OthersTyped'
    BY <1>0, <2>7, <2>8, <2>9 DEF OthersTyped
  <2> QED
    BY <2>1, <2>6, <2>7, <2>8, <2>10, StepOutside
<1> QED
  BY <1>1, <1>2 DEF BottomHalf

\* The location engine.
LEMMA LocationStep == LrIInv /\ Location => LrIInv' /\ LeavesScan
<1> SUFFICES ASSUME LrIInv, Location PROVE LrIInv' /\ LeavesScan
  OBVIOUS
<1> USE DEF LrIInv, LrTypeOK, ScanIsHold, ChipOfSidewalk, ChipOfLocation,
            LeavesScan, Holding, Located
<1>1. CASE HoldClear
  <2> DEFINE c == radio_clear_irq_status_all(d)
  <2>1. LrKeeps(d, c)
    BY ClearKeeps
  <2>2. /\ d' = c /\ loc = "idle" /\ loc' = "asking" /\ lost' \in BOOLEAN
        /\ UNCHANGED <<bh, op, deaf>>
    BY <1>1 DEF HoldClear
  <2> HIDE DEF c
  <2> QED
    BY <2>1, <2>2 DEF LrKeeps
<1>2. CASE HoldTake
  <2>1. lost' \in BOOLEAN
    BY <1>2 DEF HoldTake
  <2>2. CASE InUse(d)
    BY <1>2, <2>1, <2>2 DEF HoldTake
  <2>3. CASE ~InUse(d)
    <3>1. /\ d' = [d EXCEPT !.state = "SCAN", !.pin = TRUE]
          /\ loc = "asking" /\ loc' = "held" /\ bh = "idle" /\ UNCHANGED <<bh, op, deaf>>
      BY <1>2, <2>3 DEF HoldTake
    <3>2. d' \in Drivers /\ d'.state = "SCAN" /\ d'.mode = d.mode
      BY <3>1 DEF Drivers, States
    <3> QED
      BY <2>1, <3>1, <3>2
  <2> QED
    BY <2>2, <2>3
<1>3. CASE Scan
  <2>1. "SCAN" \in Masks /\ "scan" \in Modes
    BY DEF Masks, Modes
  <2>2. /\ d' \in Drivers /\ d'.mode = "scan" /\ d'.packets = "scan" /\ d'.mask = "SCAN"
        /\ d'.causes = {} /\ d'.state = d.state
    BY <1>3, <2>1 DEF Scan, Drivers
  <2>3. /\ loc = "held" /\ loc' = "held" /\ bh = "idle" /\ d.mode # "scan"
        /\ UNCHANGED <<bh, op, deaf, lost>>
    BY <1>3 DEF Scan
  <2> QED
    BY <2>2, <2>3
<1>4. CASE ScanEnds
  <2>1. PICK c \in {{}, {"SCAN_DONE"}} :
          Located([d EXCEPT !.mode = "standby", !.causes = c], loc)
    BY <1>4 DEF ScanEnds
  <2>2. /\ loc = "held" /\ loc' = "held" /\ bh = "idle" /\ d.mode = "scan"
        /\ UNCHANGED <<bh, op, deaf, lost>>
    BY <1>4, <2>1 DEF ScanEnds
  <2>3. /\ d' \in Drivers /\ d'.mode = "standby"
        /\ d'.state = d.state /\ d'.packets = d.packets /\ d'.mask = d.mask
    BY <2>1 DEF Drivers, Modes, Causes
  <2> QED
    BY <2>2, <2>3
<1>5. CASE ReleaseCheck
  BY <1>5 DEF ReleaseCheck
<1>6. CASE ReleaseRestore
  <2> DEFINE w == lr11xx_hal_wakeup(d)
  <2>1. /\ w \in Drivers /\ w.state = d.state /\ w.modem = d.modem /\ w.causes = d.causes
        /\ w.mode \in {d.mode, "standby"}
    BY WakeKeeps DEF Drivers
  <2>2. /\ d' = [w EXCEPT !.packets = d.modem, !.mask = "DEFAULT"]
        /\ loc = "restoring" /\ loc' = "restored" /\ bh = "idle" /\ deaf' = "no"
        /\ UNCHANGED <<bh, op, lost>>
    BY <1>6 DEF ReleaseRestore, Restored
  <2> HIDE DEF w
  <2>3. /\ d' \in Drivers /\ d'.state = d.state /\ d'.modem = d.modem
        /\ d'.causes = d.causes
        /\ d'.mode \in {d.mode, "standby"} /\ d'.packets = d'.modem /\ d'.mask = "DEFAULT"
    BY <2>1, <2>2 DEF Drivers, Masks
  <2> QED
    BY <2>2, <2>3
<1>7. CASE ReleaseScan
  BY <1>7 DEF ReleaseScan, ReleaseEnd, Drivers, States
<1> QED
  BY <1>1, <1>2, <1>3, <1>4, <1>5, <1>6, <1>7 DEF Location

-----------------------------------------------------------------------------
(* The invariant and the properties. *)

\* sid_pal_radio_init leaves the chip to Sidewalk.
LEMMA LrIInvInit == LrInit => LrIInv
<1> SUFFICES ASSUME LrInit PROVE LrIInv
  OBVIOUS
<1>1. d \in Drivers
  BY DEF LrInit, Drivers, States, Modes, Modems, Masks
<1>2. LrTypeOK
  BY <1>1 DEF LrInit, LrTypeOK, Ops
<1>3. /\ d.state = "STANDBY"
      /\ d.packets = "none"
      /\ d.mask = "DEFAULT"
      /\ d.mode = "standby"
  BY DEF LrInit
<1>4. loc = "idle" /\ bh = "idle"
  BY DEF LrInit
<1> QED
  BY <1>2, <1>3, <1>4 DEF LrIInv, ScanIsHold, ChipOfSidewalk, ChipOfLocation,
     Holding

\* Every step preserves the invariant and leaves a running scan alone.
LEMMA LrIInvStep == LrIInv /\ [LrNext]_lr_vars => LrIInv' /\ [LeavesScan]_lr_vars
<1>1. LrIInv /\ LrNext => LrIInv' /\ LeavesScan
  BY LrProtocolStep, LrChipStep, BottomHalfStep, LocationStep DEF LrNext
<1>2. LrIInv /\ UNCHANGED lr_vars => LrIInv'
  BY DEF lr_vars, LrIInv, LrTypeOK, ScanIsHold, ChipOfSidewalk, ChipOfLocation
<1> QED
  BY <1>1, <1>2

\* The inductive invariant holds in every reachable state.
LEMMA LrInvariant == LrSpec => []LrIInv
<1>1. LrIInv /\ [LrNext]_lr_vars => LrIInv'
  BY LrIInvStep
<1> QED
  BY LrIInvInit, <1>1, PTL DEF LrSpec

\* The driver's context and the chip are well typed.
THEOREM RadioTypes == LrSpec => []LrTypeOK
<1>1. LrIInv => LrTypeOK
  BY DEF LrIInv
<1> QED
  BY LrInvariant, <1>1, PTL

\* Outside of a scan the chip has the packet type of the driver's modem, or none after
\* sid_pal_radio_init, and not the scan's interrupt mask, whatever the protocol called during
\* the scan and however sid_pal_radio_release_scan was interrupted; its interrupts are
\* disabled only if a bottom half met the radio asleep or a measurement was refused since.
THEOREM RadioAlwaysReturned == LrSpec => []RadioReturned
<1>1. LrIInv => RadioReturned
  BY DEF LrIInv, ChipOfSidewalk, RadioReturned
<1> QED
  BY LrInvariant, <1>1, PTL

\* From sid_pal_radio_hold_scan to the end of release no call of the protocol, bottom
\* half or simulated timeout takes the chip from the location engine.
THEOREM ScanNeverDisturbed == LrSpec => ScanUndisturbed
<1>1. LrIInv /\ [LrNext]_lr_vars => [LeavesScan]_lr_vars
  BY LrIInvStep
<1> QED
  BY LrInvariant, <1>1, PTL DEF LrSpec, ScanUndisturbed
=============================================================================
