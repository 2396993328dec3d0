-------------------------- MODULE MCFileTransfer --------------------------
(***************************************************************************)
(* Instances of FileTransfer for TLC: two files of two chunks, every        *)
(* liberty of the library and every failing call.                           *)
(***************************************************************************)
EXTENDS FileTransfer

CONSTANTS f1, f2

TwoFiles == {f1, f2}
AllLiberties == {"parallel", "early"}
AllFaults == {"img_init", "write", "schedule", "malloc"}
=============================================================================
