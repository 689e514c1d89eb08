--------------------------- MODULE MCFailedTasks ---------------------------
(* FailedTasks on small instances.                                           *)
EXTENDS FailedTasks, TLC

Symmetry == Permutations(TaskIds) \cup Permutations(Agents) \cup Permutations(Handlers)
=============================================================================
