---------------------------- MODULE MCConnection ----------------------------
(***************************************************************************)
(* Small instances of Connection: callers and payloads are alike.          *)
(***************************************************************************)
EXTENDS Connection, TLC

CONSTANTS t1, t2, p1, p2

MCSymmetry == Permutations({t1, t2}) \union Permutations({p1, p2})
=============================================================================
