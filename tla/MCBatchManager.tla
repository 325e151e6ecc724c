--------------------------- MODULE MCBatchManager ---------------------------
(***************************************************************************)
(* Small instances of BatchManager for TLC.  Four items: three events, one *)
(* of which is larger than a whole batch may be, and a log.                *)
(***************************************************************************)
EXTENDS BatchManager, TLC

CONSTANTS t1, t2, e1, e2, big, l1

MCItems == {e1, e2, big, l1}
MCKind == [i \in MCItems |-> IF i = l1 THEN "log" ELSE "event"]
MCSize == [i \in MCItems |-> IF i = big THEN 4 ELSE IF i = l1 THEN 2 ELSE 1]
MCBatchSize == [k \in {"event", "log"} |-> 2]
MCInterval == [k \in {"event", "log"} |-> IF k = "event" THEN 2 ELSE 1]

\* e1 and e2 are alike, and so are the two threads when both control.
MCSymmetry == Permutations({t1, t2}) \union Permutations({e1, e2})
=============================================================================
