---------------------------- MODULE MCLr11xxRadio ----------------------------
(***************************************************************************)
(* The state of Lr11xxRadio is finite by itself and needs no bounds.       *)
(***************************************************************************)
EXTENDS Lr11xxRadio
=============================================================================
