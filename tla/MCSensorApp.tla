---------------------------- MODULE MCSensorApp ----------------------------
(* Instances of SensorApp for TLC. *)
EXTENDS SensorApp
=============================================================================
