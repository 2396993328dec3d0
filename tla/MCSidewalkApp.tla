--------------------------- MODULE MCSidewalkApp ---------------------------
(***************************************************************************)
(* Instances of SidewalkApp for TLC: a queue of two events, which three    *)
(* stimuli fill, and a heap that two messages exhaust.                     *)
(***************************************************************************)
EXTENDS SidewalkApp

BLE == {"BLE"}

(* Failures the sample handles without losing track of the library.        *)
HandledFaults == {"app_mfg_cfg", "sid_init", "sid_start",
                  "bt_gatt_authorization_cb_register"}
=============================================================================
