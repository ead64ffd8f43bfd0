---------------------------- MODULE MCKrbMonitor ----------------------------
(* Three contents that parse, and a watch that holds three events. *)
EXTENDS KrbMonitor

CONSTANTS f1, f2, f3

ThreeContents == {f1, f2, f3}
=============================================================================
