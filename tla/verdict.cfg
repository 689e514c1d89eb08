\* Two rows, two overlapping claims, Redis failing at will.
CONSTANTS
  None = None
  Rows = {t1, t2}
  Claims = {c1, c2}
  RedisFails = TRUE
SPECIFICATION FairSpec
INVARIANTS TypeOK NeverHidden
PROPERTY QueuedIsClaimed
