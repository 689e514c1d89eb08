----------------------------- MODULE TaskTable -----------------------------
(***************************************************************************)
(* The agent_task_queue table: the rows every service of the server reads  *)
(* and writes, and the SQL statements several of them share.  One operator *)
(* is one statement, taken from server/pkg/db/queries/{agent,runtime}.sql. *)
(*                                                                         *)
(* A row is keyed by an identity of TaskIds; ids that were never inserted  *)
(* have status "absent", which no statement's WHERE clause selects.  The   *)
(* four optional foreign keys issue_id, chat_session_id, autopilot_run_id  *)
(* and "none of them" (quick create) are one field, the row's target: no   *)
(* statement asks which target a row has, only of which kind it is and     *)
(* whether two rows share it.                                              *)
(***************************************************************************)
EXTENDS Naturals, FiniteSets

CONSTANTS
  Agents, Runtimes,
  TaskIds,        \* identities available for rows: the bound on history
  Issues,         \* targets with an issue_id: covered by the unique index
  Chats,          \* targets with a chat_session_id
  QuickCreates,   \* the "no link" target of quick-create rows
  RunOnly,        \* autopilot runs without an issue: never serialized
  MaxAttempts,    \* agent_task_queue.max_attempts
  None

Targets == Issues \cup Chats \cup QuickCreates \cup RunOnly

ASSUME TableAssumption ==
  /\ IsFiniteSet(TaskIds) /\ None \notin TaskIds
  /\ None \notin Agents /\ None \notin Runtimes
  /\ MaxAttempts \in Nat \ {0}
  /\ Issues \cap (Chats \cup QuickCreates \cup RunOnly) = {}
  /\ Chats \cap (QuickCreates \cup RunOnly) = {}
  /\ QuickCreates \cap RunOnly = {}

-----------------------------------------------------------------------------
(* Statuses and rows                                                       *)

ActiveStatuses == {"dispatched", "running", "waiting_local_directory"}
PendingStatuses == {"queued", "dispatched"}
CancellableStatuses == ActiveStatuses \cup {"queued", "deferred"}
FinalStatuses == {"completed", "failed", "cancelled"}
Statuses == {"absent"} \cup CancellableStatuses \cup FinalStatuses

\* failure_reason, by the only question the server asks of it: is it one of
\* retryableReasons (runtime_offline, runtime_recovery, timeout,
\* codex_semantic_inactivity) or not (agent_error, queued_expired, ...).
FailureReasons == {"retryable", "permanent"}

\* prepare_lease_expires_at: NULL, in the future, or in the past together with
\* a dispatched_at older than the recovery window.
Leases == {"null", "live", "lapsed"}

Row == [status  : Statuses,
        agent   : Agents \cup {None},
        target  : Targets \cup {None},
        rt      : Runtimes \cup {None},
        attempt : 0 .. MaxAttempts,
        parent  : TaskIds \cup {None},   \* parent_task_id
        esc     : TaskIds \cup {None},   \* escalation_for_task_id
        lease   : Leases,
        reason  : FailureReasons \cup {"none"}]

Absent == [status |-> "absent", agent |-> None, target |-> None, rt |-> None,
           attempt |-> 0, parent |-> None, esc |-> None, lease |-> "null",
           reason |-> "none"]

NewRow(a, x, r) ==
  [Absent EXCEPT !.status = "queued", !.agent = a, !.target = x, !.rt = r,
                 !.attempt = 1]

-----------------------------------------------------------------------------
(* Queries                                                                 *)

ActiveOf(tbl, a) ==
  {t \in TaskIds : tbl[t].agent = a /\ tbl[t].status \in ActiveStatuses}

QueuedOn(tbl, r) == {t \in TaskIds : tbl[t].rt = r /\ tbl[t].status = "queued"}

HasActiveTaskForIssue(tbl, i) ==
  \E t \in TaskIds : /\ tbl[t].target = i
                     /\ tbl[t].status \in ActiveStatuses \cup {"queued"}

\* Two rows the claim must never have active together: one agent, one target.
SameSlot(tbl, s, t) ==
  /\ tbl[s].agent = tbl[t].agent
  /\ tbl[s].target = tbl[t].target
  /\ tbl[t].target \notin RunOnly

\* mutant: NOT EXISTS forgotten
ClaimableInAnySlot(tbl, a, t) == tbl[t].agent = a /\ tbl[t].status = "queued"

Claimable(tbl, a, t) ==
  /\ tbl[t].agent = a
  /\ tbl[t].status = "queued"
  /\ \A s \in ActiveOf(tbl, a) : ~ SameSlot(tbl, s, t)

\* idx_one_pending_task_per_issue_agent: a statement whose result breaks it
\* is rolled back with a unique violation.
PendingUnique(tbl) ==
  \A s, t \in TaskIds :
    /\ tbl[s].status \in PendingStatuses
    /\ tbl[t].status \in PendingStatuses
    /\ tbl[s].target \in Issues
    /\ tbl[s].target = tbl[t].target
    /\ tbl[s].agent = tbl[t].agent
    => s = t

-----------------------------------------------------------------------------
(* Statements                                                              *)

Insert(tbl, t, row) == [tbl EXCEPT ![t] = row]

\* UPDATE ... SET status = st, prepare_lease_expires_at = l WHERE id IN S
SetStatus(tbl, S, st, l) ==
  [t \in TaskIds |->
     IF t \in S THEN [tbl[t] EXCEPT !.status = st, !.lease = l] ELSE tbl[t]]

Cancel(tbl, S) == SetStatus(tbl, S, "cancelled", "null")

Fail(tbl, S, reason) ==
  [t \in TaskIds |->
     IF t \in S
       THEN [tbl[t] EXCEPT !.status = "failed", !.lease = "null", !.reason = reason]
       ELSE tbl[t]]

\* mutant: attempt <= max_attempts
RetryableOnceMore(tbl, t) ==
  /\ tbl[t].status = "failed"
  /\ tbl[t].reason = "retryable"
  /\ tbl[t].attempt <= MaxAttempts
  /\ tbl[t].target \in Issues \cup Chats

\* MaybeRetryFailedTask's early returns, for the failed row t.
Retryable(tbl, t) ==
  /\ tbl[t].status = "failed"
  /\ tbl[t].reason = "retryable"
  /\ tbl[t].attempt < MaxAttempts
  /\ tbl[t].target \in Issues \cup Chats

\* CreateRetryTask: the child clones its parent with the next attempt number.
\* It stays on the parent's runtime unless a managed session fails over.
RetryRow(tbl, p, r) ==
  [NewRow(tbl[p].agent, tbl[p].target, r) EXCEPT
     !.attempt = tbl[p].attempt + 1, !.parent = p]
=============================================================================
