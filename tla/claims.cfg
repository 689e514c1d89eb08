\* One agent served by two runtimes: the claim protocol, chat targets (which no
\* unique index protects) and unserialized autopilot rows.
CONSTANTS
  None = None
  Agents = {a1}
  Runtimes = {r1, r2}
  TaskIds = {t1, t2, t3}
  Issues = {}
  Chats = {chat}
  QuickCreates = {}
  RunOnly = {auto}
  MaxAttempts = 1
  MaxConcurrent = 2
  Bound <- BoundEverywhere
  FallbackAgents = {}
SPECIFICATION Spec
SYMMETRY FleetSymmetry
INVARIANTS
  TypeOK
  ClaimSerialized
  CapacityRespected
  CountStaysTrue
PROPERTY KeepsContract
