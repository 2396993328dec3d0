---------------------------- MODULE MCNordicDfu ----------------------------
(***************************************************************************)
(* An instance of NordicDfu for TLC: two sessions by the button, uploads   *)
(* that extend them, the adapter coming and going at any time.             *)
(***************************************************************************)
EXTENDS NordicDfu

HostFaults == {"bt_enable", "bt_id_create", "bt_le_ext_adv_create", "bt_le_ext_adv_set_data",
               "bt_le_ext_adv_start", "bt_le_ext_adv_stop", "bt_le_ext_adv_delete"}
=============================================================================
