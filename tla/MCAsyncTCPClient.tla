-------------------------- MODULE MCAsyncTCPClient --------------------------
(***************************************************************************)
(* Instances of AsyncTCPClient for TLC.                                    *)
(***************************************************************************)
EXTENDS AsyncTCPClient

CONSTANTS s1, s2, k1, k2
=============================================================================
