\* r1 keeps to its times; r2 may be paused at any point and for any time.
CONSTANTS
  Runners = {r1, r2}
  Steady = {r1}
  TickLag = 1
  RunTimeout = 1
  StaleTimeout = 2
  Backoff = 1
  MaxAttempts = 2
  AllowStaleReentry = TRUE
  CatchUp = "every_plan"
  CatchUpWindow = 4
  MaxPlansPerTick = 2
  MaxTime = 3
SPECIFICATION Spec
INVARIANTS TypeOK OneHolder NoUnrecordedRun SteadyKeepsLease
PROPERTY SuccessIsFinal
