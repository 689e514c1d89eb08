\* Two runtimes, one agent bound to both, two rows on one chat; no symmetry.
CONSTANTS
  None = None
  Agents = {a1}
  Runtimes = {r1, r2}
  TaskIds = {t1, t2}
  Issues = {}
  Chats = {chat}
  QuickCreates = {}
  RunOnly = {}
  MaxAttempts = 1
  MaxConcurrent = 1
  Bound <- BoundEverywhere
  FallbackAgents = {}
SPECIFICATION FairSpec
PROPERTY QueuedIsServed
