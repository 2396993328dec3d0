---------------------------- MODULE MCBleAdvert ----------------------------
(***************************************************************************)
(* An instance of BleAdvert for TLC: two advertising sets, so a second one *)
(* can exist, and parameters that enable fast, slow or both.               *)
(***************************************************************************)
EXTENDS BleAdvert

Param(fast, slow, fastTimeout, slowTimeout) ==
    [fast_enabled |-> fast, slow_enabled |-> slow,
     fast_timeout |-> fastTimeout, slow_timeout |-> slowTimeout]

AllParams == {Param(TRUE, TRUE, TRUE, FALSE), Param(TRUE, TRUE, TRUE, TRUE),
              Param(TRUE, FALSE, TRUE, FALSE), Param(FALSE, TRUE, FALSE, TRUE),
              Param(FALSE, FALSE, FALSE, FALSE)}

(* Failures that leave no set behind. *)
StartFaults == {"bt_le_ext_adv_create", "bt_le_ext_adv_set_data", "bt_le_ext_adv_start"}

(* Operations that may begin while the work item runs. *)
Synchronised == {"stop", "params_set"}
=============================================================================
