---------------------------- MODULE MCConnection ----------------------------
(***************************************************************************)
(* Instances of Connection for TLC.  Connections do not share anything but *)
(* the Hive's flag, so one connection shows what can happen to each.       *)
(***************************************************************************)
EXTENDS Connection

CONSTANT c1

\* Calls of Recv: one for some bytes, one for exactly two, one more for some.
AsksMixed == <<0, 2>>
AsksSome == <<0>>
AsksNone == <<>>
=============================================================================
