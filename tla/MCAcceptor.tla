----------------------------- MODULE MCAcceptor -----------------------------
(***************************************************************************)
(* Instances of Acceptor for TLC.                                          *)
(***************************************************************************)
EXTENDS Acceptor, TLC

CONSTANTS c1, c2

AsksSome == <<0>>
AsksNone == <<>>
Symmetry == Permutations(Conns)
=============================================================================
