# A TLA+ verification of Oh My Agent Team

The repository is a platform on which people and AI agents work on issues side
by side: a Go server over Postgres (and, optionally, Redis), a local daemon that
runs command-line agents, and web, desktop and mobile clients.  This directory
models the server's scheduling core, which decides who works on what (the task
queue, the cache in front of it, the handling of failures, the scheduler of
periodic jobs), the local daemon that does the work, and the three parts of the
clients that have a protocol of their own: the desktop's tabs, its management of
the local daemon, and the issue cache.  Paths below are relative to `src/`; `task.go` without a directory is
`server/internal/service/task.go`.

`PROJECT.json` is the index: components, runs, mutants, the source lines behind
every definition, findings, hazards and theorems.

## 1. Inventory

### Modelled

**Task service and task queue** (`task.go`, `server/pkg/db/queries/agent.sql`).
*State*: table `agent_task_queue` (status, agent, target, runtime, attempt,
parent, escalation, prepare lease, failure reason), `agent.status`, the row lock
of an agent.  *Operations*: enqueue, routed comment with a deferred fallback,
promotion, re-delivery, claim, start, wait for a directory, extend lease,
complete, fail, automatic retry, cancel, rerun, reconcile.  *Interactions*:
enqueues come from issue, comment, chat and autopilot handlers; claims and
reports from daemons over HTTP; failures from sweeper and orphan recovery.
*Hard*: service functions are several SQL statements with anything in between;
each runtime has its own poller; responses are lost; reports are late or
repeated.  *Correct when*: one agent never runs one target twice or exceeds its
capacity, final rows stay final, a failed run is retried once, the shown status
is right, nothing queued is forgotten.

**Empty-claim cache** (`server/internal/service/empty_claim_cache.go`).
*State*: two Redis keys per runtime, verdict and version.  *Operations*:
IsEmpty, CurrentVersion, MarkEmpty, Bump, two TTLs.  *Hard*: read, SELECT and
write of a claim are separate; every Redis command may fail.  *Correct when* a
bumped row is never hidden and an unbumped one not for ever.

**Failure handling** (`HandleFailedTasks`, `FailTask`, `MaybeRetryFailedTask`
in `task.go`; callers in `server/cmd/server/runtime_sweeper.go` and
`server/internal/handler/task_lifecycle.go`).  *State*: rows, `issue.status`,
local sets of the batch loop.  *Hard*: check-then-act across statements, two
batches at once, batches beside reports.  *Correct when* no issue is left in
progress without a worker and no retryable run is dropped, but where a statement
about it failed.

**Execution-record scheduler** (`server/internal/scheduler`).  *State*: table
`sys_cron_executions`, and per replica a tick, a plan list and a handler with a
lease.  *Operations*: stale sweep, planning, claim, steal, heartbeat, terminal
writes.  *Hard*: replicas pause or crash, heartbeats are lost, clock readings
age.  *Correct when* a lost lease cannot write, success is final, and a healthy
replica keeps its plan.

**Local daemon** (`server/internal/daemon/`: `daemon.go`, `auto_update.go`,
`local_directory.go`).  *State*: per runtime a poller, a semaphore of execution
slots, one `handleTask` per slot, the mutex of a user's directory with its waiter
goroutines, `claimsInFlight`, `activeTasks`, `pauseClaims`, the tracked runtimes and
the slot of their re-registration.  *Operations*: claim, hand off, wait for the
directory, start, watch for cancellation, report, update and restart, notice a
deleted runtime, register again, recover orphans.  *Interactions*: HTTP calls to
the task service, agents as child processes.  *Hard*: calls and answers are lost, rows
are delivered twice, waiters are cancelled while they win, updates race with
claims, runtimes vanish on the server while their runs are alive.  *Correct when*
no work runs behind the update barrier, slots and directory have one holder each,
a run whose row is over ends, and no row stays running with nobody at work.

**Desktop tabs** (`apps/desktop/src/renderer/src/`: `stores/tab-store.ts`,
`platform/navigation.tsx`, `hooks/use-tab-router-sync.ts`,
`components/workspace-route-layout.tsx`, `App.tsx`).  *State*: per workspace a
list of tabs and the one it shows, the workspace in front, and per tab a place in
the store and one in its router.  *Operations*: open, switch, close, pin, drag,
reload, push and replace, validate against the workspace list, reset, persist
and rehydrate.  *Interactions*: pages push through the adapter, whenever a request
of theirs settles; the list comes from the query cache.  *Hard*: a page may push
after its tab was hidden or closed; two effects validate the store; the same place
is kept twice.  *Correct when* every group can be shown, pinned tabs lead, and a
restart comes back to where the user was.

**Desktop daemon manager** (`apps/desktop/src/main/daemon-manager.ts`,
`App.tsx`, `platform/daemon-reauth.ts`).  *State*: `config.json` (the daemon's
token), a sidecar file (whose token it is), the daemon process, `currentState`,
`operationInProgress`, the flags of the auth probe.  *Operations*: sync, clear
and replace credentials, start, stop, restart, auto-start, version check, poll.
*Interactions*: IPC calls of the renderer, the CLI, /health, /api/me.  *Hard*:
every operation awaits several times and only three of the callers are guarded;
the daemon and the app may end anywhere; two files are one fact.  *Correct when*
guarded operations exclude one another, no session uses another user's token,
and a token that was dropped is never loaded again.

**Issue cache** (`packages/core/issues/`, `packages/core/realtime/use-realtime-sync.ts`).
*State*: cached lists (cards and totals per status column), details, which of
them are stale, mounted or being fetched; the mutation in flight with its
snapshots; the socket's events.  *Operations*: optimistic update, create and
delete, their answers and rollbacks, three event handlers, load more, reconnect.
*Interactions*: REST answers and socket events of the same commit, in either
order; TanStack Query.  *Hard*: lists are patched and not fetched, so that a wrong
patch is never repaired; membership in a filtered list is decided by the client.
*Correct when* a settled list is what the server would answer.

### Not modelled

| component | state and operations | hard behaviour | a property it should have | status |
|---|---|---|---|---|
| managed sessions (`service/managed_session.go`) | sessions, threads, waves | AttachTask after the insert, last-thread transition | a wave starts once, after its predecessor | planned |
| autopilot (`service/autopilot.go`) | runs, planned-run key | retry of a dispatch, run against task completion | one run per occurrence | planned |
| runtime registry (`handler/daemon.go`, `runtime.sql`) | runtimes, heartbeats | merge and deregistration in several statements | no task lost with its runtime | planned |
| channel supervisor (`integrations/`) | connection lease | two replicas, lease expiry | one live connection | candidate |
| realtime (`realtime/`, `daemonws/`) | subscriptions, relay cursors | subscribe against broadcast, duplicates | no event lost between snapshot and stream | candidate |
| issue and comment handlers | trigger computation | - | data for the queue | candidate (operators) |
| repository cache, workspaces, agent backends | files, child processes | - | - | out: I/O |
| rest of the clients (`packages/views`, `apps/web`, `apps/mobile`) | views, forms, translations; caches of inbox, chat, projects | the pattern of the issue cache | - | out |
| auth, mail, storage, metrics, CLI, migrations, backfills, docs | - | - | - | out: no protocol, or third-party |

*Why the map stays a small share of the source.*  Most of the repository's
TypeScript is views, translations and an HTTP client with one method per
endpoint: lines that render, translate or call, with no state that two actors
share.  The program's logic is in the Go server, of which the task service and
the scheduler are modelled, in the local daemon and in the three client parts above.  A component is
"partly" modelled when some operation of it that changes state is left out;
`PROJECT.json` says which.

## 2. Modules

| module | models | extends |
|---|---|---|
| `TaskTable` | the table, one operator per shared SQL statement, the unique index | - |
| `TaskQueue` | the life of a task: `task.go` over the table | `TaskTable` |
| `AgentWork` | abstract: what the queue promises those who give work | - |
| `FailedTasks` | what a failure does to the issue | `TaskTable` |
| `EmptyClaimCache` | the cached verdict and its users | - |
| `CronLease` | scheduler replicas over one job and scope | - |
| `DaemonTasks` | one local daemon, from claim to report, and its runtimes | - |
| `DesktopTabs` | the tab store and everything that writes it | - |
| `DesktopDaemon` | credentials and life of the local daemon | - |
| `IssueCache` | one client's issue lists and details beside the server's | - |
| `MC*` | the values a `.cfg` cannot write, and symmetry sets | the module they name |
| `*Proofs` | theorems, one module per component | the module they name, `TLAPS` |

`TaskQueue` and `FailedTasks` compose a process each with the same table: both
are built from `TaskTable`'s statements, so a WHERE clause is written once.
`EmptyClaimCache` is the layer in front of `TaskQueue!PollList`: its property is
that the layer may stand in for the SELECT (nothing bumped is hidden), which is
why `PollList` always reads the table.  `TaskQueue` implements `AgentWork` under
the mapping `WorkOf`: a queued or deferred row is waiting work, a dispatched,
waiting or running one is taken, a final one finished; attempts, leases, polls,
retries and agent status disappear.  `IssueCache` composes client, socket and
server: the server's part is only what it commits, answers and announces.
`DaemonTasks` is the other end of `TaskQueue`: where `TaskQueue` lets a daemon call
anything about a row it was handed, `DaemonTasks` says what it does call, and has
of the server only the guard of each statement (which status it asks for).

### Correspondence to the code

*Atomicity.*  A step is one SQL statement, or one transaction whose inside no
one can see.  A service function with several statements is several steps, and
the duty to run the later ones is state: in `TaskQueue` `debt`
(`ReconcileAgentStatus`), `retrying` (`MaybeRetryFailedTask`), `starting` (cancel
of fallbacks), `escalating` (insert of a fallback) and `reruns`; in
`EmptyClaimCache` `bumping`; in `FailedTasks` `job` and `report`.  `ClaimTask` is
two steps, count under the row lock and take, so that exclusion between pollers
comes from the lock.  A unique violation disables an insert or promotion: the
guard `PendingUnique(tbl')`.

*Time* is nondeterminism in the queue modules: leases lapse, fallbacks come due,
sweeper deadlines pass and TTLs fire whenever they can.  `CronLease` has a
clock, in units of the job's cadence, because its properties compare times.

*Daemons* may call anything about any row they were ever handed, any number of
times: late reports, HTTP retries and double deliveries need no action of their own.

*Data.*  A row's target is one field for four foreign keys; failure reasons are
"retryable" or not; `prepare_lease_expires_at` is null, live or lapsed; the lease
token of `CronLease` is the attempt number (each claim rotates the one and counts
the other).

*Simplifications.*
- Refreshing an agent's status is one UPDATE in the code and one step here.
- Identities are never reused, so `TaskIds` bounds history, not only concurrency.
- Pending duties are delayed at will but never lost: a server crash between two
  statements of one call is not in `TaskQueue` (it is in `CronLease`).
- `CancelDeferredEscalationsForTask` is owed only for a row that has, or may
  still get, a fallback; otherwise the statement changes nothing.
- INSERT ON CONFLICT and the stealing UPDATE of `tryClaim` are one step: rows
  are never deleted, so both see the same answer to "is there a row".
- `FailedTasks` claims and starts in one step, and only agents at work and the
  handlers move an issue: statuses set by people are left out.  A retry may end in an
  error (a managed session with no runtime online, `task.go:3165-3189`; a failed lookup
  or insert, `:3187-3188`, `:3221-3227`), which both callers drop; the history variable
  `stranded` has those runs, and `ended` says "erred" of an issue whose reset failed.
  Managed sessions are only that error and the choice of the retry's runtime: the turn
  that `ResumeWaitingSessionsForRuntime` (`task.go:715-770`) gives a parked session once
  a runtime is back is a new row without a parent, an `Enqueue` here.
- One job and scope in `CronLease`; `TickLag` stands for the work on the others.
- `DesktopTabs`: a path is a workspace and a page, a store method a function from
  store to store, so that a handler that calls two is their composition.  A page
  pushes from its own tab, from a hidden one or from one that is gone.  An id is
  taken again once nothing shows it.  Order in `Object.keys` and sets of slugs is
  any order.
- `DaemonTasks`: an HTTP call is one step, and a variant of it whose answer is lost;
  retries inside the client are that same step.  A claim whose answer is lost leaves
  the row dispatched, and it is offered again, as is any dispatched row, since each
  extension of its lease can fail.  The deferred calls at the end of `handleTask`
  (directory, slot, counts) are one step: in between, the barrier is refused by a
  count that is still up.  `sync.Mutex` is `path`; a waiter goroutine is its run until
  the run gives up, and then one of `queue`.  The server's rows have the statuses a
  daemon can tell apart; deleting a row and ending it are the same to it.  One workspace,
  one directory.  The variables `unreported` and, in `DesktopDaemon`, `owner` and `dropped`
  are history.
- `DesktopDaemon`: one step per await.  Reading a file and stating that a daemon
  is alive are steps, so that what was read can be old when it is used.  /health may
  go unanswered by a live daemon at every probe (`Answers`): a timeout or a status
  other than 2xx is null for `fetchHealthAtPort`.  `daemon stop` may succeed or fail
  with the daemon gone or alive either way, because the CLI exits 0 where /health does
  not answer it and where the daemon is "still stopping" (`cmd_daemon.go:516-524`,
  `:564-565`); so may `daemon start`.  A PAT is minted again once nothing holds it; it
  then stands for a new one.  The renderer's token is a JWT: that syncToken writes a
  renderer's token that is a PAT already straight through (`daemon-manager.ts:682-683`)
  is left out, as are a missing CLI and daemons that are not this app's own.
- `IssueCache`: columns are fetched one by one (`Promise.all`), each answered from
  the server as it then is.  An issue's position is its number.  The flags of an event
  are those of the server (`Flags`, `handler/issue.go:3032-3034`): a request that
  unassigns carries two nulls, which count as no field, so that its event says that the
  assignee has not changed.  `drift` and `refetched` are history variables that name the
  three causes for which a list is known to be out of step; no action reads them but to
  keep them.  A socket is lost only while something can be missed by it.  `setQueryData`
  takes a query for fresh and `invalidateQueries` fetches what is mounted, as
  TanStack Query 5 does; that library is external.

## 3. Runs

| run | question | instance |
|---|---|---|
| `claims` | Can two pollers break serialization or capacity? Is the queue an `AgentWork`? | 1 agent on 2 runtimes, 3 rows, limit 2, a chat and a run-only target; 663k states |
| `lifecycle` | Do retries, reruns, cancels, sweeps and fallbacks keep rows and shown status right? | 2 agents, 1 issue, 3 rows, 2 attempts; 1.4M states |
| `served` | Is every queued row finished, without the sweeper? | 2 runtimes, 1 agent, 2 rows on one chat, fairness |
| `verdict` | Can a verdict hide a row? For ever? | 2 rows, 2 overlapping claims, failing Redis, fairness |
| `failures` | Can an issue get stuck, a retry be doubled or dropped? | 2 batches, reports, 2 agents, 4 rows, failing statements; 885k states |
| `cron` | Can a lost lease write, or a healthy one be lost? | 1 steady and 1 paused replica, clock to 3; 2.3M states |
| `tabs` | Can a group become unshowable, an order break, a place be forgotten? | 2 workspaces, one with 2 pages, 3 tabs; 793k states |
| `daemon` | Can guarded operations overlap, a dropped token come back, a session use another's? | 2 users, 2 tokens, 2 calls in flight, unanswered probes, crashes; 2.8M states |
| `issue_cache` | Is a patched list what the server would answer? | board and my:assigned, 2 issues, 3 assignees, pages of 1 card, 2 changes; 2.4M states |
| `local_daemon` | Does the daemon lose a slot, a row, a waiter or its barrier? Do dead runs end? | 1 runtime, 2 slots, 2 rows on one directory, fairness; 148k states |
| `fallback_conflict`, `live_orphans` | statements of comments that the code does not keep | section 6 |

*What the properties say.*  `ClaimSerialized`: no two active rows of an agent
share an issue, a chat or the quick-create slot.  Chats are used in `claims`
since no unique index protects them; only the claim's NOT EXISTS does.
`CapacityRespected`, and `CountStaysTrue`: a count made under the row lock is
still below the limit when the row is taken.  `SingleRetry`: one retry per failed
row, with the next attempt.  `BusyIsShown` and `IdleIsShown`: once nothing that
touches an agent is in flight, its status is right, whichever refresh came last
(`IdleIsShown` leaves out agents that answer as fallbacks, see Observations).
`FinalIsFinal`, `ActivatedByClaim`: what no step may do to a row.
`QueuedIsServed`, `QueuedIsClaimed`: liveness.  `NeverHidden`: a bumped row makes
the verdict invalid.  `NotStuck`: no issue is in progress and deserted after a
batch failed its last row, unless a statement about that issue failed; `RetriedOnce`
and `RetryNotLost`: the retry is made once, or a row of the same agent on the same
issue stands in for it, or an error ended it.
`OneHolder`, `NoUnrecordedRun`: fencing.  `SteadyKeepsLease`: a replica that keeps
to its times holds its lease while its handler runs.  `SuccessIsFinal`: a plan
that succeeded is never changed.  `KeepsContract`: the queue is an `AgentWork`.

`GroupsAreShowable`: the workspace in front has tabs, and every group shows one
of its own.  `PinnedFirst`, `TabsAreApart`: pinning, dragging and closing keep the
order and neither lose nor double a tab.  `SomewhereToBe`: with a workspace to go
to, one is in front, whichever effect validated last.  `StoredIsShown` and
`RestartResumes`: the two copies of a tab's place agree where it matters, and a
restart shows the page that was in front.

`OneOperation`: one guarded operation, and the guard is closed exactly while it
lasts, over crashes of the app too.  `DroppedForGood`: a token that a logout or a
re-authentication took out of `config.json` is never loaded by a daemon again,
although guarded and unguarded starts, torn syncs and crashes come in between (a daemon
that still runs on it may go on, see Observations).  `ReuseOnlyOwn`: a session writes a token of another
user only if the app had ended between the two writes of the sync that brought it.

`BarrierHolds`: behind the update barrier no claim is in flight and no task in
hand, and the two counts it relies on are right at every moment.  `SlotsConserved`: a slot is
in one place.  `OneHolder`: one run in the directory.  `NotAbandoned`: a row shown as
waiting or running is in a run's hand, unless the daemon could not tell the server
how it ended.  `RunsAreCancelled`: the run of a row that is over ends, also when it is
parked before the directory and whatever its agent does.  `ParkedGetOn`: if agents
end, every parked run gets on, although waiters before it may have given up.

`ListsSettle`: when a change, its answer, its event and the fetches they asked
for are through, every cached list has the right members, cards and totals
(`total` of the list with hidden statuses counts its cards, as the code does).  Three
causes that put a list out of step are known, and the list is set apart until it is
fetched: a mark that was cleared ("missed"), a creation counted twice ("twice"), and an
unassigned issue whose event says otherwise ("unassigned"), see Observations.
`DetailsSettle`: the same of the details, which are the base the next change is
measured by.

A module's type invariant is checked in `claims`, `verdict`, `cron` and
`local_daemon`; those of `FailedTasks`, `DesktopTabs`, `DesktopDaemon` and
`IssueCache` hold on the instances of their runs, which do not list them (the first
two are theorems; of the last two the proofs carry the parts they need).

*Bounds.*  Every property speaks about at most two rows of one agent or one
issue, and a third one is there to interfere: two compete for a slot while a
third is pending, swept, retried or rerun.  Two attempts reach "retryable" and
"exhausted".  Two pollers, two batches, two claims and two replicas are enough
for every pairwise race; the theorems cover more.  `served` has two rows because
liveness rules out symmetry; two on one chat suffice for waiting, loss and wrong
delivery.  In `cron` the clock reaches 3 with StaleTimeout 2: a lease can go stale,
be swept and be retried, and a third plan come due.  `CHECK_DEADLOCK FALSE` stands
only in `failures`: with all identities used and all rows final nothing is left
to do there.  The clock of `CronLease` stops at `MaxTime`, but its replicas go on
ticking.

In `tabs` three ids give a group of three or two groups at once, and a close that
reseeds; two pages in both workspaces were also explored (1.1M states), without a
violation.  In `daemon` two calls give every pair of operations; `Overlap = FALSE`
only keeps two credential calls apart, which the renderer issues one after another
unless users switch within seconds (where two overlap, the last writer of each file
wins).  In `local_daemon` two slots and two rows make every pair of runs, of one row
twice or of two rows, meet at the directory; the safety invariants were also explored with
three rows (1.3M states) and, as `live_orphans`, with two runtimes (1.0M), without a
violation.  Boots are not bounded.  In
`issue_cache` two changes give a mutation and another's change, or a change to a
list already patched; pages of one card make load more, windows and totals
matter.  No status is hidden there, and the third list, of every status, is not
mounted: with three assignees the instance would be too large, and `ListsSafe` covers
both.  Issues start out at "me" or "other" (`Initially`): what is done with one of nobody
depends on the assignee it gets, as for one of somebody else.  `MaxChanges`, `Opened`
and the length of `events` are bounds; `Overlap = FALSE` starts a change only when the last
one has settled, because what overlapping changes do is not ordered by anything
(Observations).

*Fairness.*  `TaskQueue!FairSpec`: weak fairness of each runtime's poller (a
daemon polls on a timer and on wakeups), of lease expiry, of a daemon starting
and completing a row that it was handed; strong fairness of a re-delivery that
arrives, since a response can be lost again and again but not always (the code
re-delivers without a cap).  Nothing is asked of users, of the sweeper or of the
duties.  `DaemonTasks!FairSpec`: weak fairness of what a run does by itself (its
goroutine is not suspended for ever, and each call returns or times out) and of its
status poll, which repeats every five seconds; strong fairness of a waiter taking the
directory, because Go's mutex lets no waiter starve; weak fairness of the goroutines of
waiters that gave up.  Nothing is asked of agents, users, updates or the process:
`ParkedGetOn` assumes in its own statement that agents end.  `EmptyClaimCache!FairSpec`: claims go on, the verdict's key expires, and an
agent with room for a task turns up again and again (strong fairness of a SELECT
that claims a row; a full agent makes the loop come back empty-handed).

## 4. Theorems

All are checked by TLAPS for every value of the constants that satisfies the
named assumptions.

**`TaskQueueProofs`** (from `TableAssumption`: finite identities, disjoint
target kinds, at least one attempt; and `QueueAssumption`).  `TypeCorrect`:
`TypeOK`, including NOT NULL columns and the attempt budget.  `ClaimSafe`:
`ClaimSerialized`, `CapacityRespected`, `CountStaysTrue` (the last two also alone,
`CapacitySafe` and `CountSafe`).  `FinalRowsStay`:
`FinalIsFinal`.
The invariant is `TypeOK` with the claim invariant.  Serialization and capacity
alone are not inductive: a `take` step relies on a count made earlier, hence
`CountStaysTrue`.  A step is *calm* when it activates no row.  Every step but
`ClaimTake` is calm, and calm steps only shrink the active sets, which keeps
serialization, capacity and other pollers' counts.  `ClaimTake` adds one row,
whose slot is free by the NOT EXISTS, to an agent whose count was below the
limit; no other poller holds a count for that agent, since the lock is exclusive.
`ClaimActivates`: `ActivatedByClaim`.  `RetrySafe` (`SingleRetry`), `BusyShown` and
`IdleShown` rest on a second invariant, `LinkedInv`.  `LinksInv`: rows that are not
inserted yet name no parent and no escalation, only fallback agents' rows are
escalations, and the parent of a retry no longer waits for one.  `StatusInv`: every
agent's status is what its rows say, or somebody owes it a refresh (`Owed`: a claim
at its refresh, a failed row about to be retried, or a call between its last
statement and its reconcile), in whatever order these come.
`ImplementsAgentWork`: `KeepsContract`, the refinement of `AgentWork`, for every
fleet.  The initial table maps to no work.  A calm step maps to `Settle`, row by
row: rows keep agent and target, never go back to wait and are blank until they are
inserted (`Blank`, the only strengthening needed beyond the claim invariant).
`ClaimTake` maps to `Take`: the count under the lock is still true, and the row is
excluded by no active one.

**`FailedTasksProofs`** (from `TableAssumption`).
`TypeCorrect`; `RetrySafe` (`RetriedOnce`): the row a retry is made for is failed
and in the hand of one handler, and a row that has a retry is in none; `RetryKept`
(`RetryNotLost`): a retryable failed row is waiting in a batch or a report, or has
its retry, or a conflicting row of its agent stands in for it, or its retry ended in an
error (`stranded`); `NobodyStuck` (`NotStuck`): an issue in progress without a row at
work is one that a handler still has to look at, or one whose reset failed ("erred").  All four for any number of batches.  The invariants are `Places` and
`RowInv` (where a failed row is, and what its retry says of it) and `Watched`.

**`EmptyClaimCacheProofs`**.  `CacheTyped`: `TypeOK`.  `VerdictSafe`: `NeverHidden` for any number of rows
and claims.  Strengthening `VersionInv`: no stored or sampled version is ahead
of the counter, and while an announced row waits, no claim about to write a
verdict carries the current version, because it sampled before that row's bump.
`VersionExpires` needs its guard (no claim in flight and no verdict) for the
first part: a reset counter could meet an old stamp again.

**`CronLeaseProofs`** (from `JobAssumption`, which contains RunTimeout <
StaleTimeout as `JobSpec.validate` does).  `CronTyped`; `LeaseFenced`:
`OneHolder` and `NoUnrecordedRun`, with no timing assumption (also alone:
`OneHolderSafe`, `RunsAreRecorded`); `SuccessFinal`.
`SteadyLease` and `SteadyExclusive` add TickLag + RunTimeout <= StaleTimeout:
the invariant `Undisturbed` says that ticks never read ahead of the clock, that
steady replicas keep to their times, and that a steady replica's lease is its own
and lasts StaleTimeout from its tick's reading.  The arithmetic (`NeverStale`) is
that no tick of anyone can then find it stale.  Heartbeats are not needed.  The
code does not enforce the added inequality, see Observations.

**`DesktopDaemonProofs`** (from `DaemonAssumption`).  `GuardSafe`: `OneOperation` for
any number of calls.  The guard alone is not inductive, since a call decides by
what kind it is and how far it has come whether its return opens the guard.
`Way` says which steps each kind of call can be at, and `Held` that the guard is
closed exactly when some call holds it and that no two do.  Calls without the guard
never pass a step at which they would hold it; those that hold it keep it until
they return.

`ReuseSafe` (`ReuseOnlyOwn`) and `NeverLoadedAgain` (`DroppedForGood`) assume
~ Overlap: where credential calls overlap, nothing orders their writes (section 3).
Their invariant, `CredentialInv`, has four parts: one call at most is at the files
(`Sole`), it goes on with what it read (`Fits`), the sidecar names the user of the
stored token except while it is about to be written (`Paired`), and a dropped token is
neither in the file nor in the hand of a call that could write it there (`Gone`).  The
last two are where the calls' order matters: a wipe finds no other call with a token in
hand.  A daemon loads only what the file has (`DaemonTyped`).

**`DesktopTabsProofs`** (from `TabAssumption`).  `TypeCorrect`, `AlwaysShowable`,
`PinnedLead`, `OnePlace`, `Somewhere`, `ShownIsStored` and `Resumes` (the action
property `RestartResumes`) for any workspaces, pages and ids.  The argument follows
the store's methods: each one takes a good store to a good store, and a handler that
calls two composes them.  Lists are what the proofs are about, and recursion over
them is out of the prover's reach: `Filter` and `Pinned` are therefore defined by
rank (an element's place is the number of kept elements up to it) and not with
`SelectSeq`, which is recursive.

**`DaemonTasksProofs`** (from `TasksAssumption`).  `TypeCorrect`, `SlotsSafe`,
`BarrierSafe`, `DirectorySafe`, `RowsKept` for any number of runtimes, rows and
slots, and `OneAgentSafe`: a row that is delivered twice never has two agents at
once.  The invariants build on one another.  `Typed`: `TypeOK`, and that a
poller holds a slot exactly while it claims.  `SlotsApart`: a slot is in the channel,
with one poller or with a run; it makes the slot of a hand-off free of a run.
`Counted`: `activeTasks` and `claimsInFlight` are the cardinalities of runs and
pollers, one step of cardinality arithmetic per action; the barrier follows, as both
counts are zero when it closes and neither can grow behind it.  `Locked`: a run
between winning the directory and returning is the holder of the mutex, which gives
one holder, since a waiter's cleanup frees only what `Abandoned` holds.  `Exclusive`: a
row at an agent in one run is not dispatched, so that the other run of a double
delivery cannot start it.  `Quiet` and `Kept`: before the process is up nobody
works; once it is, a row shown as waiting or running is in a run's hand, and while it
starts the row's runtime is still to be recovered.  `OneAgentPerRow` is in no run: no single definition of the model can be broken
such that it fails on the instance of `local_daemon`, where the directory already keeps
two runs of one row apart.

**`IssueCacheProofs`** (from `CacheAssumption`, and ~ Overlap).  `DetailsSafe`
(`DetailsSettle`): a detail is ahead of the server only until its own update is
answered, and behind it only while an event about it is under way (`DetailsInv`);
the event is true (`Truthful`), because nobody commits while it is on its way.
`ListsSafe` (`ListsSettle`), for any issues, columns, page size and number of
changes: every cached list is at all times coherent with *some* server (the one
there is, the one a sent update will make, or the one before a commit that is yet
to be told), unless it is being fetched or an answer or event is bound to ask for it
(`ListsInv`).  The property itself is about rest only, and says nothing of the way
there.  A list that an unassigned issue left is set apart until it is fetched; the board
is never one of them, so what later changes are measured by is unharmed (`Steady`,
`Said`).  `ChangeApplied` is the heart: whatever the coordinator's verdict, a list
that was coherent before a change is coherent after it, or asked for again.  It
needs what the verdict is measured by (`Measured`: the detail, else the board's
card, is the issue as it was), and cardinalities of one column at a time (`Leaves`,
`Joins`, `Stays`, `Untouched`).  The model has `Spread` for `{...a, ...b}`, where TLC's
`@@` would do, because the prover does not know `@@`, and `NoOp`, a record, for "no
mutation", so that its kind can be compared.  `CacheAssumption` says that statuses
are listed once and that `None` is nothing else (no entity, no list).

*Only model-checked*: liveness (`QueuedIsServed`, `QueuedIsClaimed`,
`RunsAreCancelled`, `ParkedGetOn`).  Liveness under fairness and ENABLED are out of
the prover's reach and stay with TLC.  Every other property of a passing run is a
theorem; each inductive invariant was checked by TLC on its run before it was proved.

## 5. Hazards

`PROJECT.json` lists each with its line.  Those without a property name the
module that would state it (section 7), or are observations (section 6).

## 6. Disagreements between code and documentation

Each of these is a run whose property quotes a comment and which TLC refutes.

1. `fallback_conflict`: a due fallback whose agent has a pending row on the issue
   makes the promoting UPDATE fail as a whole, and with it every claim of that
   runtime while the pending row stays (`task.go:2584` against
   `task.go:2469-2471`).
2. `live_orphans`: one of a workspace's runtimes is deleted on the server; registering
   again returns the surviving ones too, and RecoverOrphans fails their rows although
   their runs are alive in this process (`daemon.go:625` against `daemon.go:616-619` and
   `agent.sql:582-584`; the comment at `daemon.go:1403-1414` calls the same call a
   "catastrophic false positive" where profiles drift).

### Observations

Met while modelling; behaviours of the models that no run asks about.  The first three
are documented otherwise, and are what `DroppedForGood` leaves open, and `ListsSettle`
and `RetryNotLost` set apart.

- A re-authentication may report success and leave the daemon on the old credential.
  `daemon-manager.ts:763-766` says that it "restarts the daemon so it loads the new
  credential".  With the daemon up on p1: `clearToken` wipes p1, `syncToken` writes a
  fresh p2, `restartDaemon` runs `daemon stop`; its /health request is not answered
  within two seconds, it says "not running" and exits 0 (`cmd_daemon.go:516-524`), or the
  daemon drains a task for longer than five seconds and it exits 0 with "still stopping"
  (`:564-565`); `startDaemon` then gets an answer of the old process and returns
  `success: true` (`daemon-manager.ts:829-834`), so that `reauthenticate` answers `ok`.
  In the model: `StopReturns` with the daemon as it was, then `FindsDaemon`.  Likewise a
  user switch whose probe is not answered leaves the daemon on the other user's token
  (`RestartOnSwitch`).
- An issue that somebody unassigns stays in the others' my:assigned lists.  The picker
  sends `{assignee_type: null, assignee_id: null}` (`assignee-picker.tsx:142`); the
  server asks whether either id is there at all, and announces `assignee_changed` false
  (`handler/issue.go:3032-3033`; `:3702-3703` for batches).  `ws-updaters.ts:47-51` calls
  the flags 'authoritative "did this write move a membership dimension" signals', and
  `:86-87` prefers them to its own comparison.  In the model: `mine` is mounted and holds
  issue 2; `Remote` unassigns it (cause "unassigned" in `drift`); `OnIssueUpdated` patches
  the card to nobody and leaves it there, neither stale nor fetched again.
- A run that may be retried is dropped for good when its retry ends in an error:
  `HandleFailedTasks` discards the error (`task.go:3407`), `FailTask` only asks
  whether it is that of a parked managed session (`:3023-3024`), and only such a
  session gets a turn of its own later (`:715-770`).  An issue whose reset failed
  stays in progress for the same reason (`:3429-3444`).
- A fallback promoted and claimed before its primary starts is cancelled by that
  start and nobody reconciles its agent, which stays "working" until its next task
  (`task.go:2647`; `agent.sql:309-313` asks callers to reconcile).
- A primary that starts before its fallback row is inserted is still followed by
  the fallback (`handler/comment.go:1560`).
- `FailTask` never resets the issue, although `task.go:3390-3392` lists it among the
  callers of the common handler; and within one batch an issue can be reset first
  and retried afterwards (`task.go:3407`, against `:3405-3406`).
- A tick claims with a clock reading taken before the handlers of earlier plans ran;
  after more than StaleTimeout the lease is stale at birth and two replicas run
  one plan (`manager.go:125`; the timing assumption of `SteadyExclusive`).
- An occurrence still in backoff is passed when the next one comes first, and
  never retried (`jobs_autopilot.go:288`).  The stale sweep leaves `next_retry_at`
  NULL, so that a job with AllowStaleReentry false would be retried at once, against
  `spec.go:144-148` (no job sets it to false).
- An enqueue whose AttachTask fails leaves a verdict standing until its TTL
  (`task.go:1686`, action `AttachTaskFails`).
- Whether a push opens a new tab is decided by the tab in front, not by the one
  that pushes: a hidden pinned tab is navigated away by its own late push, and after
  a logout a late push creates a group again (`navigation.tsx:122-139`).  A link in
  a page's text opens a path of another workspace inside the group in front
  (`desktop-layout.tsx:133-145`); the tab is dropped at the next restart, which is
  the exception in `RestartResumes`.
- A logout whose stop is refused by the guard, or whose stop fails, leaves the
  daemon up under the user who left (`daemon-manager.ts:797-800`; `App.tsx`
  ignores the answer).
- The app ends after syncToken wrote the new user's token to `config.json` and before
  it wrote the user to the sidecar; the previous user's next login takes that token
  for his own (`daemon-manager.ts:700` against `:660-662`; the exception in
  `ReuseOnlyOwn`).
- An event marks an inactive board for fetching, a created issue is then patched into
  it, which clears the mark, and the next mount shows the board as it is
  (`ws-updaters.ts:26` against `cache-coordinator.ts:204-206` and
  `use-realtime-sync.ts:362-364`; the cause "missed" that `ListsSettle` sets apart).
- When only some runtimes of a workspace are deleted and registering again fails,
  nothing tries again: the sync loop does so only for a workspace without any runtime
  (`daemon.go:1784`, `:333`; `:383-385` says it "retries independently").
- A row that was delivered twice: the second run's StartTask is refused, and its
  FailTask then ends the row that the first run executes (`daemon.go:3653`, `:2948`).
- `triggerRestart` returns early when the executable cannot be resolved; the barrier
  of the automatic update stays closed and the daemon claims nothing more
  (`daemon.go:2438`, `auto_update.go:173-175`).  The model has no such failure.
- A manual update asks for no barrier and interrupts running tasks
  (`daemon.go:2255-2300`): `Stop` of `DaemonTasks`, enabled with runs in hand.
- With overlapping changes (`Overlap = TRUE`) a rollback restores whole lists over
  what an event has patched since, a fetch answered before a commit overwrites the
  patch of its event, and a response older than another user's event wins over it.
  An issue created by somebody else, whose event comes after an own refetch that
  counted it, is counted twice when it is not on the loaded page ("twice" in
  `drift`; the dedup of `use-realtime-sync.ts:631-634` sees only loaded cards).

## 7. Plan

In order of importance, each with an MC module and as few runs as its questions:

1. `Sessions`: threads and waves over `TaskTable`, AttachTask after the insert,
   completion against failure.  Properties: waves in order, the session's status
   agrees with its threads.
2. `PlannedRuns`: autopilot dispatch from a `CronLease` handler that is retried;
   one run per occurrence, and the run follows its task.
3. `RuntimeRegistry`: register, heartbeat, sweep, merge, deregister; no row of a
   deleted runtime is left behind.
4. An abstract `Lease`, implemented by `CronLease`.
5. A crash of the server between statements in `TaskQueue`, and which properties
   survive it; a liveness property of `CronLease`; the server's part of a deleted
   runtime, which joins `DaemonTasks` with module 3.
6. Proofs: the abstract `Lease` of 4, as a theorem; that the queue behind the
   empty-claim cache is the queue without it.
