------------------------------- MODULE MCHive -------------------------------
(***************************************************************************)
(* Instances of Hive for TLC.                                              *)
(***************************************************************************)
EXTENDS Hive

CONSTANTS t1, t2, t3
=============================================================================
