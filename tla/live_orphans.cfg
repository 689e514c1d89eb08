CONSTANTS
  None = None
  Abandoned = Abandoned
  r1 = r1
  r2 = r2
  t1 = t1
  t2 = t2
  Runtimes = {r1, r2}
  Rows = {t1, t2}
  Slots = {0, 1}
  RuntimeOf <- TwoRuntimes
  Pinned = {t1, t2}
SPECIFICATION Spec
INVARIANT OrphansAreDead
