------------------------------ MODULE MCClient ------------------------------
(***************************************************************************)
(* Small instances of Client.                                              *)
(***************************************************************************)
EXTENDS Client

CONSTANTS a1, a2
=============================================================================
