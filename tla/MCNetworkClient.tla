-------------------------- MODULE MCNetworkClient ---------------------------
(***************************************************************************)
(* Small instances of NetworkClient.                                       *)
(***************************************************************************)
EXTENDS NetworkClient

CONSTANTS s1, c1
=============================================================================
