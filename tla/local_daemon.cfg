CONSTANTS
  None = None
  Abandoned = Abandoned
  r1 = r1
  r2 = r2
  t1 = t1
  t2 = t2
  Runtimes = {r1}
  Rows = {t1, t2}
  Slots = {0, 1}
  RuntimeOf <- OneRuntime
  Pinned = {t1, t2}
SPECIFICATION FairSpec
INVARIANTS
  TypeOK
  BarrierHolds
  SlotsConserved
  OneHolder
  NotAbandoned
PROPERTIES
  RunsAreCancelled
  ParkedGetOn
