------------------------------ MODULE MCPacing ------------------------------
(***************************************************************************)
(* Small instances of Pacing.                                              *)
(***************************************************************************)
EXTENDS Pacing

CONSTANTS c1, c2, w1
=============================================================================
