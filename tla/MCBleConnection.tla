-------------------------- MODULE MCBleConnection --------------------------
(***************************************************************************)
(* An instance of BleConnection for TLC: the two connection objects of a    *)
(* build with DFU, two centrals and two sets of parameters.                 *)
(***************************************************************************)
EXTENDS BleConnection

CONSTANTS c1, c2, p1, p2, fast, slow

TwoConns == {c1, c2}
TwoPeers == {p1, p2}
TwoParams == {fast, slow}
=============================================================================
