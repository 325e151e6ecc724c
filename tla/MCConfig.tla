------------------------------ MODULE MCConfig ------------------------------
(***************************************************************************)
(* Config on the values beside the limits.                                 *)
(***************************************************************************)
EXTENDS Config

MCPorts == {0, 50000, 65536, 70000}
MCBatchSizes == {0, 1, 11, 10001}
MCIntervals == {49, 99, 100, 199, 60001, 300001}
=============================================================================
