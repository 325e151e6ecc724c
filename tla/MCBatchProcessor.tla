-------------------------- MODULE MCBatchProcessor --------------------------
(***************************************************************************)
(* Small instances of BatchProcessor: a batch of one item and one of two.  *)
(***************************************************************************)
EXTENDS BatchProcessor

CONSTANTS t1, t2

MCSize == <<1, 2>>
=============================================================================
