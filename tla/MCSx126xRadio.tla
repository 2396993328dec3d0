---------------------------- MODULE MCSx126xRadio ----------------------------
(* Sx126xRadio for TLC. *)
EXTENDS Sx126xRadio
=============================================================================
