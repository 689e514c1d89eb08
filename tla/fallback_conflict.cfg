\* A fallback comes due while its agent already has a pending row on the issue.
CONSTANTS
  None = None
  Agents = {a1, a2}
  Runtimes = {r1}
  TaskIds = {t1, t2, t3}
  Issues = {i1}
  Chats = {}
  QuickCreates = {}
  RunOnly = {}
  MaxAttempts = 1
  MaxConcurrent = 1
  Bound <- BoundEverywhere
  FallbackAgents = {a2}
SPECIFICATION Spec
SYMMETRY TaskSymmetry
INVARIANT QueuedIsClaimable
