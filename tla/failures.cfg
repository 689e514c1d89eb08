\* Two batches and daemon reports fail rows of one issue side by side.
CONSTANTS
  None = None
  Agents = {a1, a2}
  Runtimes = {r1}
  TaskIds = {t1, t2, t3, t4}
  Issues = {i1}
  Chats = {}
  QuickCreates = {}
  RunOnly = {}
  MaxAttempts = 2
  Handlers = {h1, h2}
SPECIFICATION Spec
SYMMETRY Symmetry
CHECK_DEADLOCK FALSE
INVARIANTS
  RetriedOnce
  RetryNotLost
  NotStuck
