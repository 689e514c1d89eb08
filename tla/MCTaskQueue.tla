---------------------------- MODULE MCTaskQueue ----------------------------
(* TaskQueue on small instances: the values the .cfg files cannot write.     *)
EXTENDS TaskQueue, TLC

BoundEverywhere == [a \in Agents |-> Runtimes]

TaskSymmetry == Permutations(TaskIds)
FleetSymmetry == Permutations(TaskIds) \cup Permutations(Runtimes)
=============================================================================
