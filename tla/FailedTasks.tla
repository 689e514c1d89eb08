---------------------------- MODULE FailedTasks ----------------------------
(***************************************************************************)
(* What happens to an issue when tasks on it fail: HandleFailedTasks, run  *)
(* by the sweeper and by orphan recovery on every batch an UPDATE failed,  *)
(* and FailTask, the daemon's own report (server/internal/service/task.go).*)
(* Both retry; only HandleFailedTasks gives the issue back.                *)
(*                                                                         *)
(* Each statement of the batch loop is a step: the retry, the read of the  *)
(* issue, the check for other active tasks, and the write.  Each of them   *)
(* may fail; the error is logged and the batch goes on.  Handlers run      *)
(* beside each other, beside enqueues and beside agents at work.           *)
(*                                                                         *)
(* The claim protocol is TaskQueue's.  Here a queued row is claimed and    *)
(* started in one step, and an issue is moved only by an agent at work on  *)
(* it and by these handlers: statuses set by people are left out.          *)
(***************************************************************************)
EXTENDS TaskTable

CONSTANT
  Handlers  \* batches in progress at once: sweeper tick, orphan recovery

VARIABLES
  tbl,      \* agent_task_queue
  issue,    \* issue.status
  job,      \* one HandleFailedTasks call per handler
  report,   \* rows whose FailTask has yet to call MaybeRetryFailedTask
  ended,    \* how the last row that left each issue's active set ended, or
            \* that a batch's statement about the issue failed since
  stranded  \* rows due for a retry that an error took from them

vars == <<tbl, issue, job, report, ended, stranded>>

IssueStatuses == {"todo", "in_progress", "in_review"}

Endings == {"never", "swept", "reported", "otherwise", "erred"}

Job == [pc      : {"idle", "retry", "issue", "active", "update"},
        tasks   : SUBSET TaskIds,            \* of the batch, still to visit
        task    : TaskIds \cup {None},
        retried : SUBSET Issues,             \* retriedIssues
        seen    : SUBSET Issues]             \* processedIssues

NoJob == [pc |-> "idle", tasks |-> {}, task |-> None, retried |-> {}, seen |-> {}]

TypeOK ==
  /\ tbl \in [TaskIds -> Row]
  /\ issue \in [Issues -> IssueStatuses]
  /\ job \in [Handlers -> Job]
  /\ report \subseteq TaskIds
  /\ ended \in [Issues -> Endings]
  /\ stranded \subseteq TaskIds

Init ==
  /\ tbl = [t \in TaskIds |-> Absent]
  /\ issue = [i \in Issues |-> "todo"]
  /\ job = [h \in Handlers |-> NoJob]
  /\ report = {}
  /\ ended = [i \in Issues |-> "never"]
  /\ stranded = {}

TargetsOf(S) == {tbl[t].target : t \in S}

Ends(S, how) ==
  ended' = [i \in Issues |-> IF i \in TargetsOf(S) THEN how ELSE ended[i]]

-----------------------------------------------------------------------------
(* The rest of the server, as far as it moves rows and issues              *)

Enqueue(a, i, r, t) ==
  /\ tbl[t].status = "absent"
  /\ tbl' = Insert(tbl, t, NewRow(a, i, r))
  /\ PendingUnique(tbl')
  /\ UNCHANGED <<issue, job, report, ended, stranded>>

ClaimAndStart(t) ==
  /\ Claimable(tbl, tbl[t].agent, t)
  /\ tbl' = SetStatus(tbl, {t}, "running", "null")
  /\ UNCHANGED <<issue, job, report, ended, stranded>>

\* The agent moves its issue with the CLI while its task runs.
AgentSetsStatus(t, s) ==
  /\ tbl[t].status = "running"
  /\ issue' = [issue EXCEPT ![tbl[t].target] = s]
  /\ UNCHANGED <<tbl, job, report, ended, stranded>>

CompleteTask(t) ==
  /\ tbl[t].status = "running"
  /\ tbl' = SetStatus(tbl, {t}, "completed", "null")
  /\ Ends({t}, "otherwise")
  /\ UNCHANGED <<issue, job, report, stranded>>

CancelTask(t) ==
  /\ tbl[t].status \in CancellableStatuses
  /\ tbl' = Cancel(tbl, {t})
  /\ Ends({t}, "otherwise")
  /\ UNCHANGED <<issue, job, report, stranded>>

-----------------------------------------------------------------------------
(* MaybeRetryFailedTask, as both paths call it                             *)

\* mutant: the index does not look at the agent
ConflictOfAnyAgent(p) ==
  \E s \in TaskIds : /\ tbl[s].status \in PendingStatuses
                     /\ tbl[s].target = tbl[p].target

\* The unique index already has a row of p's agent pending on p's issue.
Conflict(p) ==
  \E s \in TaskIds : /\ tbl[s].status \in PendingStatuses
                     /\ tbl[s].agent = tbl[p].agent
                     /\ tbl[s].target = tbl[p].target

\* Whether the retry of p was made.  A managed session may fail over to another
\* runtime.  When none is online its thread is parked to wait for one, and the
\* retry ends in an error, as it does when a lookup or the insert fails: both
\* callers drop the error and neither comes back to p.
MaybeRetryFailedTask(p, made) ==
  \/ /\ made /\ Retryable(tbl, p) /\ ~ Conflict(p)
     /\ \E t \in TaskIds, r \in Runtimes \cup {tbl[p].rt} :
          /\ tbl[t].status = "absent"
          /\ tbl' = Insert(tbl, t, RetryRow(tbl, p, r))
     /\ UNCHANGED stranded
  \/ /\ ~ made /\ (~ Retryable(tbl, p) \/ Conflict(p))
     /\ UNCHANGED <<tbl, stranded>>
  \/ /\ ~ made /\ Retryable(tbl, p)
     /\ stranded' = stranded \cup {p}
     /\ UNCHANGED tbl

-----------------------------------------------------------------------------
(* HandleFailedTasks                                                       *)

\* sweepStaleTasks, FailTasksForOfflineRuntimes, RecoverOrphanedTasks: one
\* UPDATE fails the rows it selects, and its RETURNING list is the batch.
\* The queue TTL fails queued rows, with a reason that is never retried.
Sweep(h, S, reason) ==
  /\ job[h].pc = "idle" /\ S # {}
  /\ \A t \in S : IF reason = "retryable" THEN tbl[t].status \in ActiveStatuses
                                          ELSE tbl[t].status = "queued"
  /\ tbl' = Fail(tbl, S, reason)
  /\ job' = [job EXCEPT ![h] = [NoJob EXCEPT !.pc = "retry", !.tasks = S]]
  /\ Ends(S, "swept")
  /\ UNCHANGED <<issue, report, stranded>>

NextTask(h, j) ==
  job' = [job EXCEPT ![h] = [j EXCEPT !.pc = IF j.tasks = {} THEN "idle" ELSE "retry"]]

\* mutant: counts the issue as retried whether or not the retry was made
BatchAlwaysRetried(h, p, made) ==
  LET i == tbl[p].target IN
  /\ job[h].pc = "retry" /\ p \in job[h].tasks
  /\ MaybeRetryFailedTask(p, made)
  /\ job' = [job EXCEPT
       ![h].pc = "issue", ![h].task = p, ![h].tasks = @ \ {p},
       ![h].retried = @ \cup {i}]
  /\ UNCHANGED <<issue, report, ended>>

\* RETURNING has no order: any task of the batch may be visited next.
BatchRetry(h, p, made) ==
  LET i == tbl[p].target IN
  /\ job[h].pc = "retry" /\ p \in job[h].tasks
  /\ MaybeRetryFailedTask(p, made)
  /\ job' = [job EXCEPT
       ![h].pc = "issue", ![h].task = p, ![h].tasks = @ \ {p},
       ![h].retried = IF made THEN @ \cup {i} ELSE @]
  /\ UNCHANGED <<issue, report, ended>>

\* GetIssue, and the conditions evaluated on what it returned
GetIssue(h) ==
  LET i == tbl[job[h].task].target IN
  /\ job[h].pc = "issue"
  /\ IF issue[i] = "in_progress" /\ i \notin job[h].seen \cup job[h].retried
       THEN job' = [job EXCEPT ![h].pc = "active", ![h].seen = @ \cup {i}]
       ELSE NextTask(h, job[h])
  /\ UNCHANGED <<tbl, issue, report, ended, stranded>>

CheckActive(h) ==
  /\ job[h].pc = "active"
  /\ IF HasActiveTaskForIssue(tbl, tbl[job[h].task].target)
       THEN NextTask(h, job[h])
       ELSE job' = [job EXCEPT ![h].pc = "update"]
  /\ UNCHANGED <<tbl, issue, report, ended, stranded>>

\* UpdateIssueStatus tests nothing but the id.
UpdateIssueStatus(h) ==
  LET i == tbl[job[h].task].target IN
  /\ job[h].pc = "update"
  /\ issue' = [issue EXCEPT ![i] = "todo"]
  /\ NextTask(h, job[h])
  /\ UNCHANGED <<tbl, report, ended, stranded>>

\* GetIssue, HasActiveTaskForIssue or UpdateIssueStatus fails.
ResetFails(h) ==
  /\ job[h].pc \in {"issue", "active", "update"}
  /\ NextTask(h, job[h])
  /\ Ends({job[h].task}, "erred")
  /\ UNCHANGED <<tbl, issue, report, stranded>>

-----------------------------------------------------------------------------
(* FailTask: the daemon reports, the server retries, nobody asks the issue *)

\* mutant: fails a failed row again
FailTaskAgain(t, reason) ==
  /\ tbl[t].status \in ActiveStatuses \cup {"failed"}
  /\ tbl' = Fail(tbl, {t}, reason)
  /\ report' = report \cup {t}
  /\ Ends({t}, "reported")
  /\ UNCHANGED <<issue, job, stranded>>

FailTask(t, reason) ==
  /\ tbl[t].status \in ActiveStatuses
  /\ tbl' = Fail(tbl, {t}, reason)
  /\ report' = report \cup {t}
  /\ Ends({t}, "reported")
  /\ UNCHANGED <<issue, job, stranded>>

ReportRetry(p) ==
  /\ p \in report
  /\ \E made \in BOOLEAN : MaybeRetryFailedTask(p, made)
  /\ report' = report \ {p}
  /\ UNCHANGED <<issue, job, ended>>

-----------------------------------------------------------------------------
Work(t) ==
  \/ ClaimAndStart(t) \/ CompleteTask(t) \/ CancelTask(t)
  \/ \E s \in IssueStatuses : AgentSetsStatus(t, s)
  \/ \E reason \in FailureReasons : FailTask(t, reason)
  \/ ReportRetry(t)

Batch(h) ==
  \/ \E S \in SUBSET TaskIds, reason \in FailureReasons : Sweep(h, S, reason)
  \/ \E p \in TaskIds, made \in BOOLEAN : BatchRetry(h, p, made)
  \/ GetIssue(h) \/ CheckActive(h) \/ UpdateIssueStatus(h) \/ ResetFails(h)

Next ==
  \/ \E a \in Agents, i \in Issues, r \in Runtimes, t \in TaskIds :
       Enqueue(a, i, r, t)
  \/ \E t \in TaskIds : Work(t)
  \/ \E h \in Handlers : Batch(h)

Spec == Init /\ [][Next]_vars

-----------------------------------------------------------------------------
(* Properties                                                              *)

\* A failure of task t is still being handled.
Handling(i) ==
  \/ \E h \in Handlers : /\ job[h].pc # "idle"
                         /\ i \in TargetsOf(job[h].tasks \cup ({job[h].task} \ {None}))
  \/ \E t \in report : tbl[t].target = i

Abandoned(i) ==
  /\ issue[i] = "in_progress"
  /\ ~ HasActiveTaskForIssue(tbl, i)
  /\ ~ Handling(i)

\* "recover-orphans ... issue stuck at in_progress" (task_lifecycle.go:20-23):
\* once a batch has failed the last task on an issue and has been handled, the
\* issue is not left in progress with nobody working on it, whatever batches and
\* reports ran beside it and whichever of them found the other's task active.
\* An issue is set apart only after a statement about it failed: the batch logs
\* the error and nobody asks again.
NotStuck == \A i \in Issues : ended[i] = "swept" => ~ Abandoned(i)

\* MaybeRetryFailedTask, reached from batches and from daemon reports at once:
\* a failed run is retried at most once, ...
RetriedOnce ==
  \A s, t \in TaskIds : tbl[s].parent # None /\ tbl[s].parent = tbl[t].parent => s = t

\* ... and a run that may be retried is dropped only where an error ended its
\* retry (a managed session with no runtime online, a failed lookup or insert):
\* elsewhere, once its failure has been visited there is its retry, or the row of
\* the same agent on the same issue that the unique index preferred to it.
RetryNotLost ==
  \A p \in TaskIds \ stranded :
    /\ Retryable(tbl, p)
    /\ p \notin report /\ \A h \in Handlers : p \notin job[h].tasks
    => \E t \in TaskIds \ {p} : /\ tbl[t].agent = tbl[p].agent
                               /\ tbl[t].target = tbl[p].target
=============================================================================
