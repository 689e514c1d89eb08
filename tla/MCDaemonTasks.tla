--------------------------- MODULE MCDaemonTasks ---------------------------
(* DaemonTasks on small instances: with one runtime, or with a row on each   *)
(* of two.                                                                   *)
EXTENDS DaemonTasks

CONSTANTS r1, r2, t1, t2

OneRuntime == [t \in Rows |-> r1]
TwoRuntimes == [t \in {t1, t2} |-> IF t = t2 THEN r2 ELSE r1]
=============================================================================
