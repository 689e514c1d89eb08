-------------------------- MODULE MCDesktopDaemon --------------------------
(* DesktopDaemon on small instances.                                         *)
EXTENDS DesktopDaemon, TLC

Symmetry == Permutations(Users) \cup Permutations(Pats) \cup Permutations(Calls)
=============================================================================
