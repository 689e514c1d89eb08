\* Two users, two calls in flight in a session.
CONSTANTS
  None = None
  Users = {u1, u2}
  Pats = {p1, p2}
  Calls = {c1, c2}
  Overlap = FALSE
SPECIFICATION Spec
SYMMETRY Symmetry
INVARIANTS OneOperation ReuseOnlyOwn
PROPERTY DroppedForGood
