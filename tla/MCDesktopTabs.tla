--------------------------- MODULE MCDesktopTabs ---------------------------
(* DesktopTabs on small instances: one workspace of two pages, one of one.   *)
EXTENDS DesktopTabs

CONSTANTS wa, wb

MCPages == [w \in {wa, wb} |-> IF w = wa THEN {"issues", "inbox"} ELSE {"issues"}]

Symmetry == Permutations(TabIds)
=============================================================================
