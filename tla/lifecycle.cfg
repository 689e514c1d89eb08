\* Two agents on one issue: retries, reruns, cancels and sweeps beside routed
\* comments whose deferred fallback is a2.
CONSTANTS
  None = None
  Agents = {a1, a2}
  Runtimes = {r1}
  TaskIds = {t1, t2, t3}
  Issues = {i1}
  Chats = {}
  QuickCreates = {}
  RunOnly = {}
  MaxAttempts = 2
  MaxConcurrent = 1
  Bound <- BoundEverywhere
  FallbackAgents = {a2}
SPECIFICATION Spec
SYMMETRY TaskSymmetry
INVARIANTS
  SingleRetry
  BusyIsShown
  IdleIsShown
PROPERTIES
  FinalIsFinal
  ActivatedByClaim
