---------------------------- MODULE MCCronLease ----------------------------
(* CronLease on small instances.                                             *)
EXTENDS CronLease, TLC

Symmetry == Permutations(Runners)
=============================================================================
