----------------------------- MODULE TaskQueue -----------------------------
(***************************************************************************)
(* The life of a task: enqueue, claim by a runtime's poller, start, wait,  *)
(* complete, fail, cancel, rerun, automatic retry, deferred fallback.      *)
(* Sources: server/internal/service/task.go over the table of TaskTable.   *)
(*                                                                         *)
(* Grain of atomicity: one step is one SQL statement, or one transaction   *)
(* no other transaction can see into.  A service function that issues      *)
(* several statements is therefore several steps, and the obligation to    *)
(* run the later ones is state:                                            *)
(*   debt       agents whose ReconcileAgentStatus is still to run          *)
(*   retrying   failed rows whose MaybeRetryFailedTask is still to run     *)
(*   starting   started rows whose fallbacks are still to be cancelled     *)
(*   escalating routed primaries whose fallback is still to be inserted    *)
(*   reruns     reruns that cancelled the old rows and must insert the new *)
(* The claim transaction, which the row lock of its agent serializes, is   *)
(* two steps (lock and count, take and commit), so that the lock and not   *)
(* the model keeps two pollers apart.                                      *)
(*                                                                         *)
(* A daemon may call about any row it was ever handed, at any time and as  *)
(* often as it likes: late callbacks, HTTP retries and a row handed over   *)
(* twice are all included.  Time is nondeterminism: leases lapse, fallback *)
(* rows come due and the sweeper's deadlines pass at any moment.           *)
(***************************************************************************)
EXTENDS TaskTable

CONSTANTS
  MaxConcurrent,   \* agent.max_concurrent_tasks
  Bound,           \* the runtimes an agent is, or ever was, bound to
  FallbackAgents   \* assignees a routed comment may fall back to

ASSUME QueueAssumption ==
  /\ MaxConcurrent \in Nat
  /\ Bound \in [Agents -> SUBSET Runtimes]
  /\ FallbackAgents \subseteq Agents

VARIABLES
  tbl,          \* agent_task_queue
  agentStatus,  \* agent.status
  rowLock,      \* the poller whose claim transaction holds the agent's row
  poller,       \* one ClaimTaskForRuntime call per runtime
  handed,       \* rows a claim response delivered to a daemon
  due,          \* deferred rows whose fire_at has passed
  debt, retrying, starting, escalating, reruns

vars == <<tbl, agentStatus, rowLock, poller, handed, due, debt, retrying,
          starting, escalating, reruns>>

claimVars == <<rowLock, poller>>
dutyVars == <<debt, retrying, starting, escalating, reruns>>

PollerState ==
  [pc    : {"idle", "reclaim", "loop", "take", "refresh"},
   todo  : SUBSET Agents,               \* agents of the candidate list, untried
   agent : Agents \cup {None},          \* the agent of the ClaimTask call
   task  : TaskIds \cup {None}]         \* the row it took

Idle == [pc |-> "idle", todo |-> {}, agent |-> None, task |-> None]

\* The NOT NULL columns of a row that exists.
Filled(row) ==
  row.status # "absent" =>
    row.agent \in Agents /\ row.rt \in Runtimes /\ row.target \in Targets

TypeOK ==
  /\ tbl \in [TaskIds -> Row]
  /\ \A t \in TaskIds : Filled(tbl[t])
  /\ agentStatus \in [Agents -> {"idle", "working"}]
  /\ rowLock \in [Agents -> Runtimes \cup {None}]
  /\ poller \in [Runtimes -> PollerState]
  /\ \A r \in Runtimes :
       /\ poller[r].pc \in {"take", "refresh"} => poller[r].agent \in Agents
       /\ poller[r].pc = "refresh" => poller[r].task \in TaskIds
  /\ handed \subseteq TaskIds
  /\ due \subseteq TaskIds
  /\ debt \subseteq Agents
  /\ retrying \subseteq TaskIds
  /\ starting \subseteq TaskIds
  /\ escalating \subseteq TaskIds
  /\ reruns \subseteq Agents \X Issues
  /\ \A t \in starting \cup escalating : tbl[t].status # "absent"
  /\ \A t \in retrying : Retryable(tbl, t)

Init ==
  /\ tbl = [t \in TaskIds |-> Absent]
  /\ agentStatus = [a \in Agents |-> "idle"]
  /\ rowLock = [a \in Agents |-> None]
  /\ poller = [r \in Runtimes |-> Idle]
  /\ handed = {} /\ due = {}
  /\ debt = {} /\ retrying = {} /\ starting = {}
  /\ escalating = {} /\ reruns = {}

AgentsOf(S) == {tbl[t].agent : t \in S}

\* RefreshAgentStatusFromTasks, one UPDATE
RefreshedStatus(a) ==
  [agentStatus EXCEPT ![a] = IF ActiveOf(tbl, a) = {} THEN "idle" ELSE "working"]

-----------------------------------------------------------------------------
(* Enqueue                                                                 *)

\* The INSERT of a queued row; the unique index rejects it when the agent
\* already has a pending row on the issue, and the caller only logs.
EnqueueTask(a, x, r, t) ==
  /\ tbl[t].status = "absent"
  /\ r \in Bound[a]
  /\ tbl' = Insert(tbl, t, NewRow(a, x, r))
  /\ PendingUnique(tbl')
  /\ UNCHANGED <<agentStatus, claimVars, handed, due, dutyVars>>

\* enqueueCommentAgentTriggers, thread-parent and conversation branches: the
\* primary is inserted first, its fallback by a later statement.
EnqueueRouted(a, i, r, t) ==
  /\ FallbackAgents \ {a} # {}
  /\ tbl[t].status = "absent"
  /\ r \in Bound[a]
  /\ tbl' = Insert(tbl, t, NewRow(a, i, r))
  /\ PendingUnique(tbl')
  /\ escalating' = escalating \cup {t}
  /\ UNCHANGED <<agentStatus, claimVars, handed, due, debt, retrying, starting,
                 reruns>>

EnqueueDeferredAssigneeFallback(p, a, r, t) ==
  /\ p \in escalating
  /\ tbl[t].status = "absent"
  /\ a \in FallbackAgents \ {tbl[p].agent}
  /\ r \in Bound[a]
  /\ tbl' = Insert(tbl, t, [NewRow(a, tbl[p].target, r) EXCEPT
                              !.status = "deferred", !.esc = p])
  /\ escalating' = escalating \ {p}
  /\ UNCHANGED <<agentStatus, claimVars, handed, due, debt, retrying, starting,
                 reruns>>

\* fire_at passes
FallbackComesDue(t) ==
  /\ tbl[t].status = "deferred"
  /\ t \notin due
  /\ due' = due \cup {t}
  /\ UNCHANGED <<tbl, agentStatus, claimVars, handed, dutyVars>>

-----------------------------------------------------------------------------
(* ClaimTaskForRuntime                                                     *)

DueOn(r) == {t \in due : tbl[t].rt = r /\ tbl[t].status = "deferred"}

\* mutant: promotes past the queue
PromotedPastQueue(r) == SetStatus(tbl, DueOn(r), "dispatched", "live")

Promoted(r) == SetStatus(tbl, DueOn(r), "queued", "null")

\* A unique violation fails the whole UPDATE and with it the whole call, so
\* the poller gets no further than this step.
PollPromote(r) ==
  /\ poller[r].pc = "idle"
  /\ PendingUnique(Promoted(r))
  /\ tbl' = Promoted(r)
  /\ due' = due \ DueOn(r)
  /\ poller' = [poller EXCEPT ![r].pc = "reclaim"]
  /\ UNCHANGED <<agentStatus, rowLock, handed, dutyVars>>

\* mutant: rows with a prepare lease are left to the sweeper
StaleWithoutLease(r) ==
  {t \in TaskIds : tbl[t].rt = r /\ tbl[t].status = "dispatched" /\ tbl[t].lease = "null"}

StaleDispatched(r) ==
  {t \in TaskIds : /\ tbl[t].rt = r
                   /\ tbl[t].status = "dispatched"
                   /\ tbl[t].lease # "live"}

\* The response of a claim reaches the daemon or is lost on the way.
Deliver(t) == handed' \in {handed, handed \cup {t}}

PollReclaim(r) ==
  /\ poller[r].pc = "reclaim"
  /\ \E t \in StaleDispatched(r) :
       /\ tbl' = SetStatus(tbl, {t}, "dispatched", "live")
       /\ Deliver(t)
  /\ poller' = [poller EXCEPT ![r] = Idle]
  /\ UNCHANGED <<agentStatus, rowLock, due, dutyVars>>

\* Nothing to re-deliver: ListQueuedClaimCandidatesByRuntime.  (EmptyClaimCache
\* models the cached verdict that may stand in for this read.)
PollList(r) ==
  /\ poller[r].pc = "reclaim"
  /\ StaleDispatched(r) = {}
  /\ poller' = [poller EXCEPT ![r].pc = "loop",
                              ![r].todo = AgentsOf(QueuedOn(tbl, r))]
  /\ UNCHANGED <<tbl, agentStatus, rowLock, handed, due, dutyVars>>

\* mutant: the count is taken without the row lock
ClaimWithoutLock(r, a) ==
  /\ poller[r].pc = "loop" /\ a \in poller[r].todo
  /\ Cardinality(ActiveOf(tbl, a)) < MaxConcurrent
  /\ rowLock' = [rowLock EXCEPT ![a] = r]
  /\ poller' = [poller EXCEPT ![r].pc = "take", ![r].agent = a,
                              ![r].todo = @ \ {a}]
  /\ UNCHANGED <<tbl, agentStatus, handed, due, dutyVars>>

\* mutant: running <= max_concurrent_tasks
ClaimOneTooMany(r, a) ==
  /\ poller[r].pc = "loop" /\ a \in poller[r].todo
  /\ rowLock[a] = None
  /\ Cardinality(ActiveOf(tbl, a)) <= MaxConcurrent
  /\ rowLock' = [rowLock EXCEPT ![a] = r]
  /\ poller' = [poller EXCEPT ![r].pc = "take", ![r].agent = a,
                              ![r].todo = @ \ {a}]
  /\ UNCHANGED <<tbl, agentStatus, handed, due, dutyVars>>

\* ClaimTask: SELECT agent FOR UPDATE, then CountRunningTasks under the lock
ClaimLock(r, a) ==
  /\ poller[r].pc = "loop" /\ a \in poller[r].todo
  /\ rowLock[a] = None
  /\ Cardinality(ActiveOf(tbl, a)) < MaxConcurrent
  /\ rowLock' = [rowLock EXCEPT ![a] = r]
  /\ poller' = [poller EXCEPT ![r].pc = "take", ![r].agent = a,
                              ![r].todo = @ \ {a}]
  /\ UNCHANGED <<tbl, agentStatus, handed, due, dutyVars>>

ClaimNoCapacity(r, a) ==
  /\ poller[r].pc = "loop" /\ a \in poller[r].todo
  /\ rowLock[a] = None
  /\ Cardinality(ActiveOf(tbl, a)) >= MaxConcurrent
  /\ poller' = [poller EXCEPT ![r].todo = @ \ {a}]
  /\ UNCHANGED <<tbl, agentStatus, rowLock, handed, due, dutyVars>>

\* ClaimAgentTask and COMMIT.  Priority and age pick one claimable row; both
\* are data here, so any claimable row may be the one.
ClaimTake(r) ==
  LET a == poller[r].agent IN
  /\ poller[r].pc = "take"
  /\ \E t \in TaskIds :
       /\ Claimable(tbl, a, t)
       /\ tbl' = SetStatus(tbl, {t}, "dispatched", "live")
       /\ poller' = [poller EXCEPT ![r].pc = "refresh", ![r].task = t]
  /\ rowLock' = [rowLock EXCEPT ![a] = None]
  /\ UNCHANGED <<agentStatus, handed, due, dutyVars>>

ClaimNoTask(r) ==
  LET a == poller[r].agent IN
  /\ poller[r].pc = "take"
  /\ \A t \in TaskIds : ~ Claimable(tbl, a, t)
  /\ rowLock' = [rowLock EXCEPT ![a] = None]
  /\ poller' = [poller EXCEPT ![r].pc = "loop", ![r].agent = None]
  /\ UNCHANGED <<tbl, agentStatus, handed, due, dutyVars>>

\* mutant: answers without ReconcileAgentStatus
ClaimReturnUnreconciled(r) ==
  /\ poller[r].pc = "refresh" /\ tbl[poller[r].task].rt = r
  /\ Deliver(poller[r].task)
  /\ poller' = [poller EXCEPT ![r] = Idle]
  /\ UNCHANGED <<tbl, agentStatus, rowLock, due, dutyVars>>

\* ReconcileAgentStatus, then the answer.  A row of another runtime (the
\* agent moved while it was queued) is dropped: it stays dispatched.
ClaimReturn(r) ==
  LET t == poller[r].task IN
  /\ poller[r].pc = "refresh"
  /\ agentStatus' = RefreshedStatus(poller[r].agent)
  /\ IF tbl[t].rt = r
       THEN Deliver(t) /\ poller' = [poller EXCEPT ![r] = Idle]
       ELSE /\ UNCHANGED handed
            /\ poller' = [poller EXCEPT ![r] = [Idle EXCEPT !.pc = "loop",
                                                 !.todo = poller[r].todo]]
  /\ UNCHANGED <<tbl, rowLock, due, dutyVars>>

PollDone(r) ==
  /\ poller[r].pc = "loop" /\ poller[r].todo = {}
  /\ poller' = [poller EXCEPT ![r] = Idle]
  /\ UNCHANGED <<tbl, agentStatus, rowLock, handed, due, dutyVars>>

-----------------------------------------------------------------------------
(* Calls of the daemon about a row it was handed                           *)

ExtendTaskPrepareLease(t) ==
  /\ t \in handed
  /\ tbl[t].status \in {"dispatched", "waiting_local_directory"}
  /\ tbl[t].lease # "live"
  /\ tbl' = SetStatus(tbl, {t}, tbl[t].status, "live")
  /\ UNCHANGED <<agentStatus, claimVars, handed, due, dutyVars>>

MarkTaskWaitingLocalDirectory(t) ==
  /\ t \in handed
  /\ tbl[t].status = "dispatched"
  /\ tbl' = SetStatus(tbl, {t}, "waiting_local_directory", "live")
  /\ UNCHANGED <<agentStatus, claimVars, handed, due, dutyVars>>

\* A fallback of t exists or may still be inserted.
MayHaveFallback(t) == t \in escalating \/ \E s \in TaskIds : tbl[s].esc = t

\* mutant: WHERE status IN (...) forgotten
StartWhateverItIs(t) ==
  /\ t \in handed
  /\ tbl' = SetStatus(tbl, {t}, "running", "null")
  /\ starting' = starting \cup {p \in {t} : MayHaveFallback(p)}
  /\ UNCHANGED <<agentStatus, claimVars, handed, due, debt, retrying,
                 escalating, reruns>>

\* Without one, the second statement of StartTask changes nothing.
StartTask(t) ==
  /\ t \in handed
  /\ tbl[t].status \in {"dispatched", "waiting_local_directory"}
  /\ tbl' = SetStatus(tbl, {t}, "running", "null")
  /\ starting' = starting \cup {p \in {t} : MayHaveFallback(p)}
  /\ UNCHANGED <<agentStatus, claimVars, handed, due, debt, retrying,
                 escalating, reruns>>

\* mutant: no status guard
EscalationsEvenFinal(p) == {t \in TaskIds : tbl[t].esc = p}

Escalations(p) ==
  {t \in TaskIds :
     /\ tbl[t].esc = p
     /\ tbl[t].status \in {"deferred", "queued", "dispatched",
                           "waiting_local_directory"}}

\* The second statement of StartTask.  It reconciles no agent.
CancelDeferredEscalationsForTask(t) ==
  /\ t \in starting
  /\ tbl' = Cancel(tbl, Escalations(t))
  /\ starting' = starting \ {t}
  /\ UNCHANGED <<agentStatus, claimVars, handed, due, debt, retrying,
                 escalating, reruns>>

\* An agent's comment acknowledges every routed primary it ran on the issue.
CancelDeferredEscalationsForIssueAgent(a, i) ==
  LET acked == {p \in TaskIds : tbl[p].agent = a /\ tbl[p].target = i}
      S == UNION {Escalations(p) : p \in acked}
  IN /\ S # {} /\ acked \cap handed # {}
     /\ tbl' = Cancel(tbl, S)
     /\ UNCHANGED <<agentStatus, claimVars, handed, due, dutyVars>>

\* mutant: forgets ReconcileAgentStatus
CompleteUnreconciled(t) ==
  /\ t \in handed
  /\ tbl[t].status = "running"
  /\ tbl' = SetStatus(tbl, {t}, "completed", "null")
  /\ UNCHANGED <<agentStatus, claimVars, handed, due, dutyVars>>

\* Zero rows is "already finalized", an idempotent success.
CompleteTask(t) ==
  /\ t \in handed
  /\ tbl[t].status = "running"
  /\ tbl' = SetStatus(tbl, {t}, "completed", "null")
  /\ debt' = debt \cup {tbl[t].agent}
  /\ UNCHANGED <<agentStatus, claimVars, handed, due, retrying, starting,
                 escalating, reruns>>

\* Every row an UPDATE fails at once; MaybeRetryFailedTask and
\* ReconcileAgentStatus follow.  Its early returns touch nothing, so a row it
\* will not retry goes straight to the reconciliation.
FailRows(S, reason) ==
  /\ S # {}
  /\ tbl' = Fail(tbl, S, reason)
  /\ LET R == {t \in S : Retryable(tbl', t)}
     IN /\ retrying' = retrying \cup R
        /\ debt' = debt \cup AgentsOf(S \ R)
  /\ UNCHANGED <<agentStatus, claimVars, handed, due, starting, escalating,
                 reruns>>

\* The reason is the daemon's; zero rows is "already finalized".
FailTask(t, reason) ==
  /\ t \in handed
  /\ tbl[t].status \in ActiveStatuses
  /\ FailRows({t}, reason)

-----------------------------------------------------------------------------
(* Sweeps                                                                  *)

ActiveOn(r) == {t \in TaskIds : tbl[t].rt = r /\ tbl[t].status \in ActiveStatuses}

LeaseLapses(t) ==
  /\ tbl[t].status = "dispatched" /\ tbl[t].lease = "live"
  /\ tbl' = SetStatus(tbl, {t}, "dispatched", "lapsed")
  /\ UNCHANGED <<agentStatus, claimVars, handed, due, dutyVars>>

RecoverOrphanedTasksForRuntime(r) == FailRows(ActiveOn(r), "retryable")

\* R is the set of offline runtimes.
FailTasksForOfflineRuntimes(R) ==
  FailRows(UNION {ActiveOn(r) : r \in R}, "retryable")

\* The deadlines differ per row, so any set of rows may be past theirs.
FailStaleTasks ==
  \E S \in SUBSET {t \in TaskIds : \/ tbl[t].status = "running"
                                   \/ /\ tbl[t].status = "dispatched"
                                      /\ tbl[t].lease # "live"} :
    FailRows(S, "retryable")

ExpireStaleQueuedTasks ==
  \E S \in SUBSET {t \in TaskIds : tbl[t].status = "queued"} :
    FailRows(S, "permanent")

\* mutant: a retry that may be made again
RetryAgain(p, t) ==
  /\ p \in retrying
  /\ tbl[t].status = "absent"
  /\ tbl' = Insert(tbl, t, RetryRow(tbl, p, tbl[p].rt))
  /\ PendingUnique(tbl')
  /\ debt' = debt \cup {tbl[p].agent}
  /\ UNCHANGED <<agentStatus, claimVars, handed, due, retrying, starting,
                 escalating, reruns>>

\* A managed session fails over to another bound runtime.  Without a child: a
\* unique violation, which is logged, or a managed session none of whose
\* runtimes is online, which waits for one.
MaybeRetryFailedTask(p, t) ==
  /\ p \in retrying
  /\ tbl[t].status = "absent"
  /\ \/ \E r \in {tbl[p].rt} \cup Bound[tbl[p].agent] :
          /\ tbl' = Insert(tbl, t, RetryRow(tbl, p, r))
          /\ PendingUnique(tbl')
     \/ UNCHANGED tbl
  /\ retrying' = retrying \ {p}
  /\ debt' = debt \cup {tbl[p].agent}
  /\ UNCHANGED <<agentStatus, claimVars, handed, due, starting, escalating,
                 reruns>>

-----------------------------------------------------------------------------
(* Cancellation and rerun                                                  *)

CancelRows(S) ==
  /\ S # {}
  /\ tbl' = Cancel(tbl, S)
  /\ debt' = debt \cup AgentsOf(S)
  /\ UNCHANGED <<agentStatus, claimVars, handed, due, retrying, starting,
                 escalating>>

CancellableRows == {t \in TaskIds : tbl[t].status \in CancellableStatuses}

CancelTask(t) ==
  CancelRows(CancellableRows \cap {t}) /\ UNCHANGED reruns

CancelTasksForIssue(i) ==
  /\ CancelRows({t \in CancellableRows : tbl[t].target = i})
  /\ UNCHANGED reruns

CancelTasksForAgent(a) ==
  /\ CancelRows({t \in CancellableRows : tbl[t].agent = a})
  /\ UNCHANGED reruns

\* RerunIssue: CancelAgentTasksByIssueAndAgent ...
RerunCancel(a, i) ==
  /\ CancelRows({t \in CancellableRows : tbl[t].agent = a /\ tbl[t].target = i})
  /\ reruns' = reruns \cup {<<a, i>>}

\* ... then, in a statement of its own, the fresh row.
RerunEnqueue(a, i, r, t) ==
  /\ <<a, i>> \in reruns
  /\ tbl[t].status = "absent" /\ r \in Bound[a]
  /\ LET fresh == Insert(tbl, t, NewRow(a, i, r))
     IN tbl' = IF PendingUnique(fresh) THEN fresh ELSE tbl
  /\ reruns' = reruns \ {<<a, i>>}
  /\ UNCHANGED <<agentStatus, claimVars, handed, due, debt, retrying, starting,
                 escalating>>

ReconcileAgentStatus(a) ==
  /\ a \in debt
  /\ agentStatus' = RefreshedStatus(a)
  /\ debt' = debt \ {a}
  /\ UNCHANGED <<tbl, claimVars, handed, due, retrying, starting, escalating,
                 reruns>>

-----------------------------------------------------------------------------
Enqueue ==
  \E t \in TaskIds, a \in Agents, r \in Runtimes :
    \/ \E x \in Targets : EnqueueTask(a, x, r, t)
    \/ \E i \in Issues : EnqueueRouted(a, i, r, t)
    \/ \E p \in TaskIds : EnqueueDeferredAssigneeFallback(p, a, r, t)
    \/ \E i \in Issues : RerunEnqueue(a, i, r, t)

Poll(r) ==
  \/ PollPromote(r) \/ PollReclaim(r) \/ PollList(r) \/ PollDone(r)
  \/ \E a \in Agents : ClaimLock(r, a) \/ ClaimNoCapacity(r, a)
  \/ ClaimTake(r) \/ ClaimNoTask(r) \/ ClaimReturn(r)

Daemon(t) ==
  \/ ExtendTaskPrepareLease(t) \/ MarkTaskWaitingLocalDirectory(t)
  \/ StartTask(t) \/ CompleteTask(t)
  \/ \E reason \in FailureReasons : FailTask(t, reason)

Duty ==
  \/ \E t \in TaskIds : CancelDeferredEscalationsForTask(t)
  \/ \E p, t \in TaskIds : MaybeRetryFailedTask(p, t)
  \/ \E a \in Agents : ReconcileAgentStatus(a)

Sweep ==
  \/ \E r \in Runtimes : RecoverOrphanedTasksForRuntime(r)
  \/ \E R \in SUBSET Runtimes : FailTasksForOfflineRuntimes(R)
  \/ FailStaleTasks
  \/ ExpireStaleQueuedTasks

User ==
  \/ \E t \in TaskIds : CancelTask(t)
  \/ \E i \in Issues : CancelTasksForIssue(i)
  \/ \E a \in Agents : CancelTasksForAgent(a)
  \/ \E a \in Agents, i \in Issues : RerunCancel(a, i)
  \/ \E a \in Agents, i \in Issues : CancelDeferredEscalationsForIssueAgent(a, i)

Clock == \E t \in TaskIds : FallbackComesDue(t) \/ LeaseLapses(t)

Next ==
  \/ Enqueue
  \/ \E r \in Runtimes : Poll(r)
  \/ \E t \in TaskIds : Daemon(t)
  \/ Duty \/ Sweep \/ User \/ Clock

Spec == Init /\ [][Next]_vars

\* What the server and a live daemon schedule: every runtime is polled (loop
\* or wakeup), a lease that nobody renews runs out, a row that was handed over
\* is started and reported, and a claim response that is sent again and again
\* arrives at last.  Nothing is asked of users or of the sweeper.
Fairness ==
  /\ \A r \in Runtimes :
       WF_vars(Poll(r)) /\ SF_vars(PollReclaim(r) /\ handed' # handed)
  /\ \A t \in TaskIds :
       /\ WF_vars(LeaseLapses(t)) /\ WF_vars(StartTask(t))
       /\ WF_vars(CompleteTask(t))

FairSpec == Spec /\ Fairness

-----------------------------------------------------------------------------
(* Properties                                                              *)

\* Per-(agent, target) serialization promised by ClaimAgentTask: however many
\* pollers claim for an agent, and whatever is cancelled, failed, retried or
\* rerun meanwhile, no two active rows of one agent share an issue, a chat
\* session or the quick-create slot.
ClaimSerialized ==
  \A s, t \in TaskIds :
    /\ tbl[s].status \in ActiveStatuses
    /\ tbl[t].status \in ActiveStatuses
    /\ SameSlot(tbl, s, t)
    => s = t

\* ClaimTask: an agent never has more active rows than max_concurrent_tasks,
\* although the rows are counted in one statement and taken in another.
CapacityRespected ==
  \A a \in Agents : Cardinality(ActiveOf(tbl, a)) <= MaxConcurrent

\* ClaimTask takes its row on the strength of a count made in an earlier
\* statement: until it commits, the agent's row lock is still its own and the
\* count is still below the limit, whatever the rest of the server does.
CountStaysTrue ==
  \A r \in Runtimes :
    poller[r].pc = "take" =>
      /\ rowLock[poller[r].agent] = r
      /\ Cardinality(ActiveOf(tbl, poller[r].agent)) < MaxConcurrent

\* Automatic retry forks nothing: a row has at most one retry, made from a
\* failed row with the next attempt number, so the sweeper, an orphan
\* recovery and a late FailTask that all fail the same run spawn one child.
SingleRetry ==
  \A s \in TaskIds :
    LET p == tbl[s].parent IN
    p # None =>
      /\ tbl[p].status = "failed"
      /\ tbl[s].attempt = tbl[p].attempt + 1
      /\ \A t \in TaskIds : tbl[t].parent = p => t = s

\* Nothing that still has to touch agent a's status is in flight.
Settled(a) ==
  /\ a \notin debt
  /\ \A r \in Runtimes : poller[r].pc = "refresh" => poller[r].agent # a
  /\ \A t \in retrying \cup starting : tbl[t].agent # a

\* ReconcileAgentStatus: an agent with a dispatched, running or waiting row is
\* shown "working" as soon as the calls that changed its rows have returned.
BusyIsShown ==
  \A a \in Agents :
    Settled(a) /\ ActiveOf(tbl, a) # {} => agentStatus[a] = "working"

\* An agent without active rows is shown "idle" once the calls that changed its
\* rows have returned, whichever refresh ran last.  (An agent that answers as a
\* fallback may stay "working": cancelDeferredEscalationsForTask reconciles none.)
IdleIsShown ==
  \A a \in Agents \ FallbackAgents :
    Settled(a) /\ ActiveOf(tbl, a) = {} => agentStatus[a] = "idle"

\* task.go:2467-2471, "a queued task becomes claimable on the next call".  The
\* call starts with PromoteDueDeferredTasksForRuntime, and stops there when
\* that statement fails.
QueuedIsClaimable ==
  \A r \in Runtimes : QueuedOn(tbl, r) # {} => PendingUnique(Promoted(r))

\* The claim path loses no task: whatever response is lost, whichever runtime
\* claims a row of an agent that moved, and whoever else is claiming, a queued
\* row is finished in the end, without help from the sweeper's deadlines.
QueuedIsServed ==
  \A t \in TaskIds :
    tbl[t].status = "queued" ~> tbl[t].status \in FinalStatuses

\* A finalized row is never touched again: a late CompleteTask, FailTask,
\* StartTask, sweep, retry or cancel neither revives it nor relabels it.
FinalIsFinal ==
  [][\A t \in TaskIds : tbl[t].status \in FinalStatuses => tbl'[t] = tbl[t]]_vars

\* A row that lost its claim race is never started behind the table's back: a
\* row only becomes running out of a claim (dispatched, possibly waiting), and
\* only enters the active set from the queue.
ActivatedByClaim ==
  [][\A t \in TaskIds :
       /\ tbl'[t].status = "running" /\ tbl[t].status # "running"
            => tbl[t].status \in {"dispatched", "waiting_local_directory"}
       /\ tbl'[t].status \in ActiveStatuses /\ tbl[t].status \notin ActiveStatuses
            => /\ tbl[t].status = "queued"
               /\ \E r \in Runtimes : rowLock[tbl[t].agent] = r]_vars

\* What AgentWork sees of a row.
StateOf(status) ==
  CASE status = "absent" -> "unknown"
    [] status \in {"queued", "deferred"} -> "waiting"
    [] status \in ActiveStatuses -> "taken"
    [] OTHER -> "finished"

WorkOf(row) == [state |-> StateOf(row.status), owner |-> row.agent, place |-> row.target]

Contract == INSTANCE AgentWork
  WITH Works <- TaskIds, Owners <- Agents, Places <- Targets, Parallel <- RunOnly,
       Limit <- MaxConcurrent, Nobody <- None,
       work <- [t \in TaskIds |-> WorkOf(tbl[t])]

\* task.go's contract with those who enqueue: whatever is claimed, lost, reclaimed,
\* swept, retried, promoted or rerun, a row is taken once, under the limit and
\* alone on its target, and finished once: the table implements AgentWork.
KeepsContract == Contract!Spec

=============================================================================
