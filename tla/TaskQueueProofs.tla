-------------------------- MODULE TaskQueueProofs --------------------------
(***************************************************************************)
(* TaskQueue keeps its type, never runs two tasks of one agent on one      *)
(* target and never exceeds an agent's capacity: for every set of agents,  *)
(* runtimes and targets, and every finite set of row identities.           *)
(*                                                                         *)
(* The argument: a step is calm when it activates no row.  Every step but  *)
(* ClaimTake is calm, and calm steps can only shrink the sets of active    *)
(* rows.  ClaimTake adds one row, holds the lock of its agent, and, since  *)
(* other steps were calm for that agent, still knows the count it made.    *)
(* The same two kinds of steps give the refinement of AgentWork, at the    *)
(* end of this module.                                                     *)
(***************************************************************************)
EXTENDS TaskQueue, TLAPS, FiniteSetTheorems

-----------------------------------------------------------------------------
(* The statements of TaskTable keep the type of the table                  *)

LEMMA AbsentIsRow == Absent \in Row
  BY TableAssumption DEF Absent, Row, Statuses, Leases

LEMMA NewRowIsRow ==
  ASSUME NEW a \in Agents, NEW x \in Targets, NEW r \in Runtimes
  PROVE  /\ NewRow(a, x, r) \in Row
         /\ NewRow(a, x, r).status = "queued"
         /\ NewRow(a, x, r).agent = a
         /\ NewRow(a, x, r).target = x
         /\ NewRow(a, x, r).rt = r
  <1>1. 1 \in 0 .. MaxAttempts BY TableAssumption
  <1>2. "queued" \in Statuses BY DEF Statuses, CancellableStatuses
  <1> QED BY <1>1, <1>2, AbsentIsRow DEF NewRow, Absent, Row

\* What every statement leaves behind: rows of the right type, none of them
\* without its NOT NULL columns.
Table(T) == T \in [TaskIds -> Row] /\ \A t \in TaskIds : Filled(T[t])

LEMMA RetryRowIsRow ==
  ASSUME NEW T, Table(T), NEW p \in TaskIds, NEW r \in Runtimes,
         Retryable(T, p)
  PROVE  /\ RetryRow(T, p, r) \in Row /\ Filled(RetryRow(T, p, r))
         /\ RetryRow(T, p, r).status = "queued"
  <1>1. /\ T[p] \in Row /\ T[p].agent \in Agents /\ T[p].target \in Targets
    BY DEF Table, Filled, Retryable
  <1>2. T[p].attempt + 1 \in 0 .. MaxAttempts
    BY <1>1, TableAssumption DEF Row, Retryable
  <1>3. /\ NewRow(T[p].agent, T[p].target, r) \in Row
        /\ Filled(NewRow(T[p].agent, T[p].target, r))
        /\ NewRow(T[p].agent, T[p].target, r).status = "queued"
    BY <1>1, NewRowIsRow DEF Filled
  <1> QED BY <1>2, <1>3 DEF RetryRow, Row, Filled

\* T is what a statement found and U what it left behind.  Every row active in U
\* was active in T, with the same agent and target ...
Calm(T, U) ==
  \A t \in TaskIds :
    U[t].status \in ActiveStatuses =>
      /\ T[t].status \in ActiveStatuses
      /\ U[t].agent = T[t].agent
      /\ U[t].target = T[t].target

\* ... and no row is deleted, given to another agent or target, linked to other
\* rows, put back to wait once it is active, or touched once it is final; a new
\* row waits, and a running row was claimed.
Keeps(T, U) ==
  \A t \in TaskIds :
    /\ T[t].status # "absent" => /\ U[t].status # "absent"
                                /\ U[t].agent = T[t].agent
                                /\ U[t].target = T[t].target
                                /\ U[t].attempt = T[t].attempt
                                /\ U[t].parent = T[t].parent
                                /\ U[t].esc = T[t].esc
    /\ T[t].status \in FinalStatuses => U[t] = T[t]
    /\ U[t].status = "running" =>
         T[t].status \in {"running", "dispatched", "waiting_local_directory"}
    /\ T[t].status \in ActiveStatuses => U[t].status \notin {"queued", "deferred"}
    /\ T[t].status = "absent" => U[t] = T[t] \/ U[t].status \in {"queued", "deferred"}

Sound(T, U) == Table(U) /\ Keeps(T, U)

LEMMA SameSound ==
  ASSUME NEW T, Table(T)
  PROVE  Sound(T, T) /\ Calm(T, T)
  BY DEF Sound, Keeps, Calm, ActiveStatuses

LEMMA InsertSound ==
  ASSUME NEW T, Table(T), NEW t \in TaskIds, T[t].status = "absent",
         NEW row \in Row, Filled(row), row.status \in {"queued", "deferred"}
  PROVE  Sound(T, Insert(T, t, row)) /\ Calm(T, Insert(T, t, row))
  BY DEF Insert, Table, Sound, Keeps, Calm, ActiveStatuses, FinalStatuses

LEMMA SetStatusSound ==
  ASSUME NEW T, Table(T), NEW S \in SUBSET TaskIds,
         \A t \in S : T[t].status \in CancellableStatuses,
         NEW st \in Statuses \ {"absent"}, NEW l \in Leases,
         st \in {"queued", "deferred"} => \A t \in S : T[t].status \notin ActiveStatuses,
         st = "running" =>
           \A t \in S : T[t].status \in {"dispatched", "waiting_local_directory"}
  PROVE  /\ Sound(T, SetStatus(T, S, st, l))
         /\ (st \in ActiveStatuses =>
                \A t \in S : T[t].status \in ActiveStatuses)
              => Calm(T, SetStatus(T, S, st, l))
  <1>1. \A t \in TaskIds :
          LET row == [T[t] EXCEPT !.status = st, !.lease = l]
          IN /\ row \in Row /\ (T[t].status # "absent" => Filled(row))
             /\ row.status = st
             /\ row.agent = T[t].agent /\ row.target = T[t].target
             /\ row.attempt = T[t].attempt /\ row.parent = T[t].parent
             /\ row.esc = T[t].esc
    BY DEF Row, Filled, Table
  <1>2. \A t \in S : T[t].status \notin FinalStatuses /\ T[t].status # "absent"
    BY DEF CancellableStatuses, ActiveStatuses, FinalStatuses
  <1>3. ActiveStatuses \cap {"queued", "deferred"} = {} BY DEF ActiveStatuses
  <1> QED BY <1>1, <1>2, <1>3 DEF SetStatus, Table, Sound, Keeps, Calm

LEMMA FailSound ==
  ASSUME NEW T, Table(T), NEW S \in SUBSET TaskIds,
         \A t \in S : T[t].status \in CancellableStatuses,
         NEW reason \in FailureReasons
  PROVE  Sound(T, Fail(T, S, reason)) /\ Calm(T, Fail(T, S, reason))
  <1>1. "failed" \in Statuses /\ "null" \in Leases
    BY DEF Statuses, FinalStatuses, Leases
  <1>2. \A t \in TaskIds :
          LET row == [T[t] EXCEPT !.status = "failed", !.lease = "null",
                                  !.reason = reason]
          IN /\ row \in Row /\ (T[t].status # "absent" => Filled(row))
             /\ row.status = "failed"
             /\ row.agent = T[t].agent /\ row.target = T[t].target
             /\ row.attempt = T[t].attempt /\ row.parent = T[t].parent
             /\ row.esc = T[t].esc
    BY <1>1 DEF Row, Filled, Table
  <1>3. \A t \in S : T[t].status \notin FinalStatuses /\ T[t].status # "absent"
    BY DEF CancellableStatuses, ActiveStatuses, FinalStatuses
  <1> QED BY <1>2, <1>3 DEF Fail, Table, Sound, Keeps, Calm, ActiveStatuses

LEMMA CalmActiveOf ==
  ASSUME NEW T, NEW U, Calm(T, U), NEW a \in Agents
  PROVE  /\ ActiveOf(U, a) \subseteq ActiveOf(T, a)
         /\ IsFiniteSet(ActiveOf(T, a))
         /\ Cardinality(ActiveOf(U, a)) <= Cardinality(ActiveOf(T, a))
         /\ Cardinality(ActiveOf(U, a)) \in Nat
         /\ Cardinality(ActiveOf(T, a)) \in Nat
  <1>1. ActiveOf(U, a) \subseteq ActiveOf(T, a) BY DEF ActiveOf, Calm
  <1>2. IsFiniteSet(ActiveOf(T, a)) /\ IsFiniteSet(ActiveOf(U, a))
    <2>1. ActiveOf(T, a) \subseteq TaskIds /\ ActiveOf(U, a) \subseteq TaskIds
      BY DEF ActiveOf
    <2> QED BY <2>1, FS_Subset, TableAssumption
  <1>3. Cardinality(ActiveOf(U, a)) <= Cardinality(ActiveOf(T, a))
    BY <1>1, <1>2, FS_Subset
  <1> QED BY <1>1, <1>2, <1>3, FS_CardinalityType

-----------------------------------------------------------------------------
(* Calls that change the table and the duties, but no claim                *)

\* The shape shared by every step outside the claim protocol.
TableStep ==
  /\ Sound(tbl, tbl') /\ Calm(tbl, tbl')
  /\ UNCHANGED claimVars

LEMMA TypeHasTable == TypeOK => Table(tbl)
  BY DEF TypeOK, Table

\* Whatever the statement, the rows duties refer to stay as they must be.
LEMMA DutiesStay ==
  ASSUME TypeOK, Keeps(tbl, tbl')
  PROVE  /\ \A t \in starting \cup escalating : tbl'[t].status # "absent"
         /\ \A t \in retrying : Retryable(tbl', t)
  BY DEF TypeOK, Keeps, Retryable, FinalStatuses

LEMMA EnqueueSteps ==
  ASSUME TypeOK, NEW t \in TaskIds, NEW a \in Agents, NEW r \in Runtimes
  PROVE  /\ \A x \in Targets : EnqueueTask(a, x, r, t) => TypeOK' /\ TableStep
         /\ \A i \in Issues : EnqueueRouted(a, i, r, t) => TypeOK' /\ TableStep
         /\ \A p \in TaskIds : EnqueueDeferredAssigneeFallback(p, a, r, t)
                                => TypeOK' /\ TableStep
         /\ \A i \in Issues : RerunEnqueue(a, i, r, t) => TypeOK' /\ TableStep
  <1>0. Table(tbl) BY TypeHasTable
  <1>1. ASSUME NEW x \in Targets, tbl[t].status = "absent"
        PROVE  /\ Sound(tbl, Insert(tbl, t, NewRow(a, x, r)))
               /\ Calm(tbl, Insert(tbl, t, NewRow(a, x, r)))
               /\ Insert(tbl, t, NewRow(a, x, r))[t].status # "absent"
    <2>1. NewRow(a, x, r) \in Row /\ Filled(NewRow(a, x, r))
          /\ NewRow(a, x, r).status = "queued"
      BY NewRowIsRow DEF Filled
    <2> QED BY <1>0, <1>1, <2>1, InsertSound DEF Insert, Table
  <1>2. Issues \subseteq Targets BY DEF Targets
  <1>3. Calm(tbl, tbl) /\ Sound(tbl, tbl) BY <1>0, SameSound
  <1>4. ASSUME NEW x \in Targets, EnqueueTask(a, x, r, t)
        PROVE  TypeOK' /\ TableStep
    BY <1>1, <1>4, DutiesStay
       DEF EnqueueTask, TypeOK, Table, Sound, TableStep, claimVars, dutyVars
  <1>5. ASSUME NEW i \in Issues, EnqueueRouted(a, i, r, t)
        PROVE  TypeOK' /\ TableStep
    BY <1>1, <1>2, <1>5, DutiesStay
       DEF EnqueueRouted, TypeOK, Table, Sound, TableStep, claimVars
  <1>6. ASSUME NEW p \in TaskIds, EnqueueDeferredAssigneeFallback(p, a, r, t)
        PROVE  TypeOK' /\ TableStep
    <2>1. p \in escalating /\ tbl[p].status # "absent"
          /\ tbl[p].target \in Targets
      BY <1>6 DEF EnqueueDeferredAssigneeFallback, TypeOK, Filled
    <2> DEFINE new == NewRow(a, tbl[p].target, r)
               row == [new EXCEPT !.status = "deferred", !.esc = p]
    <2>2. new \in Row /\ Filled(new) /\ new.status = "queued"
      BY <2>1, NewRowIsRow DEF Filled
    <2>3. "deferred" \in Statuses BY DEF Statuses, CancellableStatuses
    <2>4. row \in Row /\ Filled(row) /\ row.status = "deferred"
      BY <2>2, <2>3 DEF Row, Filled
    <2>5. tbl' = Insert(tbl, t, row) /\ tbl[t].status = "absent"
      BY <1>6 DEF EnqueueDeferredAssigneeFallback
    <2> HIDE DEF row
    <2>6. Sound(tbl, tbl') /\ Calm(tbl, tbl')
      BY <1>0, <2>4, <2>5, InsertSound
    <2> QED BY <1>6, <2>6, DutiesStay
            DEF EnqueueDeferredAssigneeFallback, TypeOK, Table, Sound, TableStep,
                claimVars
  <1>7. ASSUME NEW i \in Issues, RerunEnqueue(a, i, r, t)
        PROVE  TypeOK' /\ TableStep
    <2>1. Sound(tbl, tbl') /\ Calm(tbl, tbl')
      BY <1>1, <1>2, <1>3, <1>7 DEF RerunEnqueue
    <2> QED BY <2>1, <1>7, DutiesStay
            DEF RerunEnqueue, TypeOK, Table, Sound, TableStep, claimVars
  <1> QED BY <1>4, <1>5, <1>6, <1>7

LEMMA StatusesBasic ==
  /\ ActiveStatuses \subseteq CancellableStatuses
  /\ CancellableStatuses \subseteq Statuses \ {"absent"}
  /\ FinalStatuses \subseteq Statuses \ {"absent"}
  /\ Leases = {"null", "live", "lapsed"}
  BY DEF ActiveStatuses, CancellableStatuses, FinalStatuses, Statuses, Leases

\* A statement that changes rows without activating any.
LEMMA UpdateStep ==
  ASSUME TypeOK, NEW S \in SUBSET TaskIds,
         \A t \in S : tbl[t].status \in CancellableStatuses,
         NEW st \in Statuses \ {"absent"}, NEW l \in Leases,
         st \in {"queued", "deferred"} => \A t \in S : tbl[t].status \notin ActiveStatuses,
         st \in ActiveStatuses => \A t \in S : tbl[t].status \in ActiveStatuses,
         st = "running" =>
           \A t \in S : tbl[t].status \in {"dispatched", "waiting_local_directory"},
         tbl' = SetStatus(tbl, S, st, l)
  PROVE  Sound(tbl, tbl') /\ Calm(tbl, tbl')
  BY TypeHasTable, SetStatusSound

LEMMA DaemonSteps ==
  ASSUME TypeOK, NEW t \in TaskIds,
         \/ ExtendTaskPrepareLease(t) \/ MarkTaskWaitingLocalDirectory(t)
         \/ StartTask(t) \/ CompleteTask(t) \/ LeaseLapses(t)
  PROVE  TypeOK' /\ TableStep
  <1>1. CASE ExtendTaskPrepareLease(t)
    <2>1. Sound(tbl, tbl') /\ Calm(tbl, tbl')
      BY <1>1, UpdateStep, StatusesBasic DEF ExtendTaskPrepareLease, ActiveStatuses
    <2> QED BY <1>1, <2>1, DutiesStay
            DEF ExtendTaskPrepareLease, TypeOK, Table, Sound, TableStep, claimVars,
                dutyVars
  <1>2. CASE MarkTaskWaitingLocalDirectory(t)
    <2>1. Sound(tbl, tbl') /\ Calm(tbl, tbl')
      BY <1>2, UpdateStep, StatusesBasic
         DEF MarkTaskWaitingLocalDirectory, ActiveStatuses
    <2> QED BY <1>2, <2>1, DutiesStay
            DEF MarkTaskWaitingLocalDirectory, TypeOK, Table, Sound, TableStep,
                claimVars, dutyVars
  <1>3. CASE StartTask(t)
    <2>1. Sound(tbl, tbl') /\ Calm(tbl, tbl')
      BY <1>3, UpdateStep, StatusesBasic DEF StartTask, ActiveStatuses
    <2>2. tbl'[t].status # "absent"
      BY <1>3, <2>1 DEF StartTask, Sound, Keeps
    <2> QED BY <1>3, <2>1, <2>2, DutiesStay
            DEF StartTask, TypeOK, Table, Sound, TableStep, claimVars
  <1>4. CASE CompleteTask(t)
    <2>1. Sound(tbl, tbl') /\ Calm(tbl, tbl')
      BY <1>4, UpdateStep, StatusesBasic
         DEF CompleteTask, ActiveStatuses, FinalStatuses
    <2>2. tbl[t].agent \in Agents BY <1>4 DEF CompleteTask, TypeOK, Filled
    <2> QED BY <1>4, <2>1, <2>2, DutiesStay
            DEF CompleteTask, TypeOK, Table, Sound, TableStep, claimVars
  <1>5. CASE LeaseLapses(t)
    <2>1. Sound(tbl, tbl') /\ Calm(tbl, tbl')
      BY <1>5, UpdateStep, StatusesBasic DEF LeaseLapses, ActiveStatuses
    <2> QED BY <1>5, <2>1, DutiesStay
            DEF LeaseLapses, TypeOK, Table, Sound, TableStep, claimVars, dutyVars
  <1> QED BY <1>1, <1>2, <1>3, <1>4, <1>5

LEMMA CancelStep ==
  ASSUME TypeOK, NEW S \in SUBSET CancellableRows, tbl' = Cancel(tbl, S)
  PROVE  Sound(tbl, tbl') /\ Calm(tbl, tbl')
  BY UpdateStep, StatusesBasic
     DEF Cancel, CancellableRows, FinalStatuses, ActiveStatuses

LEMMA CancelRowsStep ==
  ASSUME TypeOK, NEW S \in SUBSET CancellableRows, CancelRows(S),
         reruns' \subseteq Agents \X Issues
  PROVE  TypeOK' /\ TableStep
  <1>1. Sound(tbl, tbl') /\ Calm(tbl, tbl') BY CancelStep DEF CancelRows
  <1>2. AgentsOf(S) \subseteq Agents
    BY StatusesBasic DEF AgentsOf, CancellableRows, TypeOK, Filled
  <1> QED BY <1>1, <1>2, DutiesStay
          DEF CancelRows, TypeOK, Table, Sound, TableStep, claimVars

LEMMA UserSteps == TypeOK /\ User => TypeOK' /\ TableStep
  <1> SUFFICES ASSUME TypeOK, User PROVE TypeOK' /\ TableStep
    OBVIOUS
  <1>0. reruns \subseteq Agents \X Issues BY DEF TypeOK
  <1>1. CASE \E t \in TaskIds : CancelTask(t)
    BY <1>0, <1>1, CancelRowsStep DEF CancelTask
  <1>2. CASE \E i \in Issues : CancelTasksForIssue(i)
    BY <1>0, <1>2, CancelRowsStep DEF CancelTasksForIssue
  <1>3. CASE \E a \in Agents : CancelTasksForAgent(a)
    BY <1>0, <1>3, CancelRowsStep DEF CancelTasksForAgent
  <1>4. CASE \E a \in Agents, i \in Issues : RerunCancel(a, i)
    BY <1>0, <1>4, CancelRowsStep DEF RerunCancel
  <1>5. CASE \E a \in Agents, i \in Issues :
               CancelDeferredEscalationsForIssueAgent(a, i)
    <2>1. PICK a \in Agents, i \in Issues :
            CancelDeferredEscalationsForIssueAgent(a, i)
      BY <1>5
    <2>2. \A p \in TaskIds : Escalations(p) \subseteq CancellableRows
      BY DEF Escalations, CancellableRows, CancellableStatuses, ActiveStatuses
    <2>3. Sound(tbl, tbl') /\ Calm(tbl, tbl')
      BY <2>1, <2>2, CancelStep DEF CancelDeferredEscalationsForIssueAgent
    <2> QED BY <2>1, <2>3, DutiesStay
            DEF CancelDeferredEscalationsForIssueAgent, TypeOK, Table, Sound,
                TableStep, claimVars, dutyVars
  <1> QED BY <1>1, <1>2, <1>3, <1>4, <1>5 DEF User

LEMMA FailRowsStep ==
  ASSUME TypeOK, NEW S \in SUBSET CancellableRows,
         NEW reason \in FailureReasons, FailRows(S, reason)
  PROVE  TypeOK' /\ TableStep
  <1>1. Sound(tbl, tbl') /\ Calm(tbl, tbl')
    BY TypeHasTable, FailSound DEF FailRows, CancellableRows
  <1>2. AgentsOf(S) \subseteq Agents
    BY StatusesBasic DEF AgentsOf, CancellableRows, TypeOK, Filled
  <1>3. /\ debt' \subseteq Agents
        /\ retrying' \subseteq TaskIds
        /\ \A t \in retrying' : Retryable(tbl', t)
    <2>1. \A R : AgentsOf(S \ R) \subseteq AgentsOf(S) BY DEF AgentsOf
    <2>2. S \subseteq TaskIds BY DEF CancellableRows
    <2> QED BY <1>1, <1>2, <2>1, <2>2, DutiesStay DEF FailRows, TypeOK, Sound
  <1> QED BY <1>1, <1>3, DutiesStay
          DEF FailRows, TypeOK, Table, Sound, TableStep, claimVars

LEMMA FailingSteps ==
  ASSUME TypeOK,
         \/ Sweep
         \/ \E t \in TaskIds, reason \in FailureReasons : FailTask(t, reason)
  PROVE  TypeOK' /\ TableStep
  <1>1. "retryable" \in FailureReasons /\ "permanent" \in FailureReasons
    BY DEF FailureReasons
  <1>2. CASE \E t \in TaskIds, reason \in FailureReasons : FailTask(t, reason)
    BY <1>2, FailRowsStep, StatusesBasic DEF FailTask, CancellableRows
  <1>3. \A r \in Runtimes : ActiveOn(r) \subseteq CancellableRows
    BY StatusesBasic DEF ActiveOn, CancellableRows
  <1>4. CASE \E r \in Runtimes : RecoverOrphanedTasksForRuntime(r)
    BY <1>1, <1>3, <1>4, FailRowsStep DEF RecoverOrphanedTasksForRuntime
  <1>5. CASE \E R \in SUBSET Runtimes : FailTasksForOfflineRuntimes(R)
    <2>1. PICK R \in SUBSET Runtimes : FailTasksForOfflineRuntimes(R) BY <1>5
    <2>2. UNION {ActiveOn(r) : r \in R} \subseteq CancellableRows BY <1>3
    <2> QED BY <1>1, <2>1, <2>2, FailRowsStep DEF FailTasksForOfflineRuntimes
  <1>6. CASE FailStaleTasks
    BY <1>1, <1>6, FailRowsStep
       DEF FailStaleTasks, CancellableRows, CancellableStatuses, ActiveStatuses
  <1>7. CASE ExpireStaleQueuedTasks
    BY <1>1, <1>7, FailRowsStep
       DEF ExpireStaleQueuedTasks, CancellableRows, CancellableStatuses
  <1> QED BY <1>2, <1>4, <1>5, <1>6, <1>7 DEF Sweep

LEMMA DutySteps == TypeOK /\ Duty => TypeOK' /\ TableStep
  <1> SUFFICES ASSUME TypeOK, Duty PROVE TypeOK' /\ TableStep
    OBVIOUS
  <1>1. CASE \E t \in TaskIds : CancelDeferredEscalationsForTask(t)
    <2>1. PICK t \in TaskIds : CancelDeferredEscalationsForTask(t) BY <1>1
    <2>2. Escalations(t) \subseteq CancellableRows
      BY DEF Escalations, CancellableRows, CancellableStatuses, ActiveStatuses
    <2>3. Sound(tbl, tbl') /\ Calm(tbl, tbl')
      BY <2>1, <2>2, CancelStep DEF CancelDeferredEscalationsForTask
    <2> QED BY <2>1, <2>3, DutiesStay
            DEF CancelDeferredEscalationsForTask, TypeOK, Table, Sound,
                TableStep, claimVars
  <1>2. CASE \E p, t \in TaskIds : MaybeRetryFailedTask(p, t)
    <2>1. PICK p \in TaskIds, t \in TaskIds : MaybeRetryFailedTask(p, t)
      BY <1>2
    <2>2. /\ p \in retrying /\ Retryable(tbl, p) /\ tbl[t].status = "absent"
          /\ tbl[p].agent \in Agents /\ tbl[p].rt \in Runtimes
      BY <2>1 DEF MaybeRetryFailedTask, TypeOK, Filled, Retryable
    <2>3. {tbl[p].rt} \cup Bound[tbl[p].agent] \subseteq Runtimes
      BY <2>2, QueueAssumption
    <2>4. ASSUME NEW r \in {tbl[p].rt} \cup Bound[tbl[p].agent]
          PROVE  /\ Sound(tbl, Insert(tbl, t, RetryRow(tbl, p, r)))
                 /\ Calm(tbl, Insert(tbl, t, RetryRow(tbl, p, r)))
      <3>1. /\ RetryRow(tbl, p, r) \in Row /\ Filled(RetryRow(tbl, p, r))
            /\ RetryRow(tbl, p, r).status = "queued"
        BY <2>2, <2>3, TypeHasTable, RetryRowIsRow
      <3> QED BY <2>2, <3>1, TypeHasTable, InsertSound
    <2>5. Sound(tbl, tbl) /\ Calm(tbl, tbl)
      BY TypeHasTable, SameSound
    <2>6. Sound(tbl, tbl') /\ Calm(tbl, tbl')
      BY <2>1, <2>4, <2>5 DEF MaybeRetryFailedTask
    <2> QED BY <2>1, <2>2, <2>6, DutiesStay
            DEF MaybeRetryFailedTask, TypeOK, Table, Sound, TableStep, claimVars
  <1>3. CASE \E a \in Agents : ReconcileAgentStatus(a)
    <2>1. Sound(tbl, tbl) /\ Calm(tbl, tbl)
      BY TypeHasTable, SameSound
    <2> QED BY <1>3, <2>1
            DEF ReconcileAgentStatus, RefreshedStatus, TypeOK, TableStep, claimVars
  <1> QED BY <1>1, <1>2, <1>3 DEF Duty

LEMMA DueSteps ==
  ASSUME TypeOK, NEW t \in TaskIds, FallbackComesDue(t)
  PROVE  TypeOK' /\ TableStep
  <1>1. Sound(tbl, tbl) /\ Calm(tbl, tbl)
    BY TypeHasTable, SameSound
  <1> QED BY <1>1 DEF FallbackComesDue, TypeOK, TableStep, claimVars, dutyVars

-----------------------------------------------------------------------------
(* The claim protocol                                                      *)

\* Every claim transaction open after the step was open before it, and still
\* holds the lock of its agent.
LocksKept ==
  \A r \in Runtimes :
    poller'[r].pc = "take" =>
      /\ poller[r].pc = "take"
      /\ poller'[r].agent = poller[r].agent
      /\ rowLock'[poller[r].agent] = r

CalmStep == TypeOK' /\ Sound(tbl, tbl') /\ Calm(tbl, tbl') /\ LocksKept

LEMMA TableStepIsCalm ==
  TypeOK' /\ CountStaysTrue /\ TableStep => CalmStep
  BY DEF CountStaysTrue, TableStep, CalmStep, LocksKept, claimVars

LEMMA StatusStays ==
  ASSUME TypeOK, NEW a \in Agents
  PROVE  RefreshedStatus(a) \in [Agents -> {"idle", "working"}]
  BY DEF RefreshedStatus, TypeOK

\* A poller moves to a well-formed state other than "take".
LEMMA PollerMove ==
  ASSUME TypeOK, CountStaysTrue, NEW r \in Runtimes, NEW next \in PollerState,
         next.pc # "take",
         next.pc = "refresh" => next.agent \in Agents /\ next.task \in TaskIds,
         poller' = [poller EXCEPT ![r] = next],
         \A q \in Runtimes \ {r} : poller[q].pc = "take" =>
           rowLock'[poller[q].agent] = rowLock[poller[q].agent]
  PROVE  /\ poller' \in [Runtimes -> PollerState]
         /\ \A q \in Runtimes :
              /\ poller'[q].pc \in {"take", "refresh"} => poller'[q].agent \in Agents
              /\ poller'[q].pc = "refresh" => poller'[q].task \in TaskIds
         /\ LocksKept
  <1>1. poller'[r] = next /\ \A q \in Runtimes \ {r} : poller'[q] = poller[q]
    BY DEF TypeOK
  <1>2. poller' \in [Runtimes -> PollerState] BY DEF TypeOK
  <1> QED BY <1>1, <1>2 DEF TypeOK, LocksKept, CountStaysTrue

LEMMA IdleIsState == Idle \in PollerState /\ Idle.pc = "idle"
  BY DEF Idle, PollerState

LEMMA PollTableSteps ==
  ASSUME TypeOK, CountStaysTrue, NEW r \in Runtimes,
         PollPromote(r) \/ PollReclaim(r)
  PROVE  CalmStep
  <1>1. CASE PollPromote(r)
    <2>1. Sound(tbl, tbl') /\ Calm(tbl, tbl')
      <3>1. DueOn(r) \subseteq TaskIds
            /\ \A t \in DueOn(r) : /\ tbl[t].status \in CancellableStatuses
                                 /\ tbl[t].status \notin ActiveStatuses
        BY DEF DueOn, TypeOK, CancellableStatuses, ActiveStatuses
      <3>2. "queued" \in Statuses \ {"absent"} /\ "queued" \notin ActiveStatuses
        BY DEF Statuses, CancellableStatuses, ActiveStatuses
      <3> QED BY <1>1, <3>1, <3>2, UpdateStep, StatusesBasic
              DEF PollPromote, Promoted
    <2>2. poller' = [poller EXCEPT ![r] = [poller[r] EXCEPT !.pc = "reclaim"]]
          /\ rowLock' = rowLock
      BY <1>1 DEF PollPromote
    <2>3. [poller[r] EXCEPT !.pc = "reclaim"] \in PollerState
          /\ [poller[r] EXCEPT !.pc = "reclaim"].pc = "reclaim"
      BY DEF TypeOK, PollerState
    <2> QED BY <1>1, <2>1, <2>2, <2>3, PollerMove, DutiesStay
            DEF PollPromote, TypeOK, Table, Sound, CalmStep, dutyVars
  <1>2. CASE PollReclaim(r)
    <2>1. Sound(tbl, tbl') /\ Calm(tbl, tbl') /\ handed' \subseteq TaskIds
      BY <1>2, UpdateStep, StatusesBasic
         DEF PollReclaim, StaleDispatched, ActiveStatuses, Deliver, TypeOK
    <2> QED BY <1>2, <2>1, IdleIsState, PollerMove, DutiesStay
            DEF PollReclaim, TypeOK, Table, Sound, CalmStep, dutyVars
  <1> QED BY <1>1, <1>2

LEMMA PollQuietSteps ==
  ASSUME TypeOK, CountStaysTrue, NEW r \in Runtimes,
         \/ PollList(r) \/ PollDone(r) \/ ClaimNoTask(r) \/ ClaimReturn(r)
         \/ \E a \in Agents : ClaimNoCapacity(r, a)
  PROVE  CalmStep
  <1>0. Sound(tbl, tbl) /\ Calm(tbl, tbl)
    BY TypeHasTable, SameSound
  <1>1. CASE PollList(r)
    <2>1. AgentsOf(QueuedOn(tbl, r)) \subseteq Agents
      BY DEF AgentsOf, QueuedOn, TypeOK, Filled
    <2> DEFINE next == [poller[r] EXCEPT !.pc = "loop",
                                         !.todo = AgentsOf(QueuedOn(tbl, r))]
    <2>2. poller' = [poller EXCEPT ![r] = next] BY <1>1 DEF PollList
    <2>3. next \in PollerState /\ next.pc = "loop" BY <2>1 DEF TypeOK, PollerState
    <2> HIDE DEF next
    <2> QED BY <1>0, <1>1, <2>2, <2>3, PollerMove
            DEF PollList, TypeOK, CalmStep, dutyVars
  <1>2. CASE PollDone(r)
    BY <1>0, <1>2, IdleIsState, PollerMove DEF PollDone, TypeOK, CalmStep, dutyVars
  <1>3. CASE ClaimNoTask(r)
    <2> DEFINE next == [poller[r] EXCEPT !.pc = "loop", !.agent = None]
    <2>1. poller' = [poller EXCEPT ![r] = next] BY <1>3 DEF ClaimNoTask
    <2>2. next \in PollerState /\ next.pc = "loop" BY DEF TypeOK, PollerState
    <2> HIDE DEF next
    <2>3. rowLock' = [rowLock EXCEPT ![poller[r].agent] = None]
          /\ poller[r].agent \in Agents /\ rowLock[poller[r].agent] = r
      BY <1>3 DEF ClaimNoTask, TypeOK, CountStaysTrue
    <2>4. \A q \in Runtimes \ {r} : poller[q].pc = "take" =>
            rowLock'[poller[q].agent] = rowLock[poller[q].agent]
      BY <2>3 DEF CountStaysTrue, TypeOK
    <2>5. rowLock' \in [Agents -> Runtimes \cup {None}] BY <2>3 DEF TypeOK
    <2> QED BY <1>0, <1>3, <2>1, <2>2, <2>4, <2>5, PollerMove
            DEF ClaimNoTask, TypeOK, CalmStep, dutyVars
  <1>4. CASE ClaimReturn(r)
    <2>1. poller[r].agent \in Agents /\ poller[r].task \in TaskIds
      BY <1>4 DEF ClaimReturn, TypeOK
    <2>2. PICK next \in PollerState :
            next.pc \in {"idle", "loop"} /\ poller' = [poller EXCEPT ![r] = next]
      <3> DEFINE next == [Idle EXCEPT !.pc = "loop", !.todo = poller[r].todo]
      <3>1. next \in PollerState /\ next.pc = "loop"
        BY IdleIsState DEF TypeOK, PollerState
      <3>2. \/ poller' = [poller EXCEPT ![r] = next]
            \/ poller' = [poller EXCEPT ![r] = Idle]
        BY <1>4 DEF ClaimReturn
      <3> HIDE DEF next
      <3> QED BY <3>1, <3>2, IdleIsState
    <2>3. handed' \subseteq TaskIds BY <1>4, <2>1 DEF ClaimReturn, Deliver, TypeOK
    <2> QED BY <1>0, <1>4, <2>1, <2>2, <2>3, StatusStays, PollerMove
            DEF ClaimReturn, TypeOK, CalmStep, dutyVars
  <1>5. CASE \E a \in Agents : ClaimNoCapacity(r, a)
    <2>1. PICK a \in Agents : ClaimNoCapacity(r, a) BY <1>5
    <2> DEFINE next == [poller[r] EXCEPT !.todo = poller[r].todo \ {a}]
    <2>2. poller' = [poller EXCEPT ![r] = next] BY <2>1 DEF ClaimNoCapacity
    <2>3. next \in PollerState /\ next.pc = "loop"
      BY <2>1 DEF ClaimNoCapacity, TypeOK, PollerState
    <2> HIDE DEF next
    <2> QED BY <1>0, <2>1, <2>2, <2>3, PollerMove
            DEF ClaimNoCapacity, TypeOK, CalmStep, dutyVars
  <1> QED BY <1>1, <1>2, <1>3, <1>4, <1>5

ClaimInv == CountStaysTrue /\ CapacityRespected /\ ClaimSerialized

LEMMA CalmKeepsClaims ==
  ASSUME TypeOK, TypeOK', ClaimInv, Calm(tbl, tbl'), LocksKept
  PROVE  ClaimInv'
  <1>1. ASSUME NEW a \in Agents
        PROVE  /\ Cardinality(ActiveOf(tbl', a)) <= Cardinality(ActiveOf(tbl, a))
               /\ Cardinality(ActiveOf(tbl', a)) \in Nat
               /\ Cardinality(ActiveOf(tbl, a)) \in Nat
    BY CalmActiveOf
  <1>2. CountStaysTrue'
    <2> SUFFICES ASSUME NEW r \in Runtimes, poller'[r].pc = "take"
                 PROVE  /\ rowLock'[poller'[r].agent] = r
                        /\ Cardinality(ActiveOf(tbl', poller'[r].agent))
                             < MaxConcurrent
      BY DEF CountStaysTrue
    <2>1. /\ poller'[r].agent \in Agents /\ rowLock'[poller'[r].agent] = r
          /\ Cardinality(ActiveOf(tbl, poller'[r].agent)) < MaxConcurrent
      BY DEF LocksKept, ClaimInv, CountStaysTrue, TypeOK
    <2> QED BY <1>1, <2>1, QueueAssumption
  <1>3. CapacityRespected'
    BY <1>1, QueueAssumption DEF ClaimInv, CapacityRespected
  <1>4. ClaimSerialized'
    BY DEF ClaimInv, ClaimSerialized, Calm, SameSlot
  <1> QED BY <1>2, <1>3, <1>4 DEF ClaimInv

LEMMA ClaimLockStep ==
  ASSUME TypeOK, ClaimInv, NEW r \in Runtimes, NEW a \in Agents, ClaimLock(r, a)
  PROVE  TypeOK' /\ Sound(tbl, tbl') /\ ClaimInv'
  <1>0. Sound(tbl, tbl) BY TypeHasTable, SameSound
  <1> DEFINE next == [poller[r] EXCEPT !.pc = "take", !.agent = a,
                                       !.todo = poller[r].todo \ {a}]
  <1>1. poller' = [poller EXCEPT ![r] = next] /\ tbl' = tbl
        /\ rowLock' = [rowLock EXCEPT ![a] = r] /\ rowLock[a] = None
        /\ Cardinality(ActiveOf(tbl, a)) < MaxConcurrent
    BY DEF ClaimLock
  <1>2. next \in PollerState /\ next.pc = "take" /\ next.agent = a
    BY DEF TypeOK, PollerState
  <1> HIDE DEF next
  <1>3. poller'[r] = next /\ \A q \in Runtimes \ {r} : poller'[q] = poller[q]
    BY <1>1 DEF TypeOK
  <1>4. TypeOK'
    <2>1. poller' \in [Runtimes -> PollerState]
      BY <1>1, <1>2 DEF TypeOK
    <2>2. rowLock' \in [Agents -> Runtimes \cup {None}] BY <1>1 DEF TypeOK
    <2> QED BY <1>2, <1>3, <2>1, <2>2 DEF ClaimLock, TypeOK, dutyVars
  <1>5. CountStaysTrue'
    <2> SUFFICES ASSUME NEW q \in Runtimes, poller'[q].pc = "take"
                 PROVE  /\ rowLock'[poller'[q].agent] = q
                        /\ Cardinality(ActiveOf(tbl', poller'[q].agent))
                             < MaxConcurrent
      BY DEF CountStaysTrue
    <2>1. CASE q = r BY <1>1, <1>2, <1>3, <2>1 DEF TypeOK
    <2>2. CASE q # r
      <3>1. poller'[q] = poller[q] /\ rowLock[poller[q].agent] = q
            /\ Cardinality(ActiveOf(tbl, poller[q].agent)) < MaxConcurrent
        BY <1>3, <2>2 DEF ClaimInv, CountStaysTrue
      <3>2. poller[q].agent # a BY <1>1, <3>1, TableAssumption
      <3> QED BY <1>1, <3>1, <3>2 DEF TypeOK
    <2> QED BY <2>1, <2>2
  <1>6. CapacityRespected' /\ ClaimSerialized'
    BY <1>1 DEF ClaimInv, CapacityRespected, ClaimSerialized
  <1> QED BY <1>0, <1>1, <1>4, <1>5, <1>6 DEF ClaimInv

LEMMA ClaimTakeStep ==
  ASSUME TypeOK, ClaimInv, NEW r \in Runtimes, ClaimTake(r)
  PROVE  TypeOK' /\ Sound(tbl, tbl') /\ ClaimInv'
  <1> DEFINE a == poller[r].agent
  <1>1. PICK t \in TaskIds :
          /\ Claimable(tbl, a, t)
          /\ tbl' = SetStatus(tbl, {t}, "dispatched", "live")
          /\ poller' = [poller EXCEPT ![r].pc = "refresh", ![r].task = t]
    BY DEF ClaimTake
  <1>2. /\ a \in Agents /\ rowLock[a] = r /\ poller[r].pc = "take"
        /\ Cardinality(ActiveOf(tbl, a)) < MaxConcurrent
        /\ rowLock' = [rowLock EXCEPT ![a] = None]
    BY DEF ClaimTake, TypeOK, ClaimInv, CountStaysTrue
  <1> HIDE DEF a
  <1>3. Sound(tbl, tbl')
    <2>1. "dispatched" \in Statuses \ {"absent"} /\ "live" \in Leases
      BY DEF Statuses, CancellableStatuses, ActiveStatuses, Leases
    <2>2. tbl[t].status \in CancellableStatuses
      BY <1>1 DEF Claimable, CancellableStatuses
    <2> QED BY <1>1, <2>1, <2>2, TypeHasTable, SetStatusSound
  \* what the statement did, row by row
  <1>4. /\ tbl[t].status = "queued" /\ tbl[t].agent = a
        /\ tbl'[t].agent = a /\ tbl'[t].target = tbl[t].target
        /\ \A s \in TaskIds \ {t} : tbl'[s] = tbl[s]
    BY <1>1 DEF Claimable, SetStatus, TypeOK, Row
  <1> DEFINE next == [poller[r] EXCEPT !.pc = "refresh", !.task = t]
  <1>5. /\ next \in PollerState /\ next.pc = "refresh" /\ next.task = t
        /\ next.agent = a
    BY DEF TypeOK, PollerState, a
  <1>6. poller' = [poller EXCEPT ![r] = next] BY <1>1
  <1> HIDE DEF next
  <1>7. TypeOK'
    <2>1. /\ poller'[r] = next /\ \A q \in Runtimes \ {r} : poller'[q] = poller[q]
          /\ poller' \in [Runtimes -> PollerState]
      BY <1>5, <1>6 DEF TypeOK
    <2>2. rowLock' \in [Agents -> Runtimes \cup {None}] BY <1>2 DEF TypeOK
    <2> QED BY <1>2, <1>3, <1>5, <2>1, <2>2, DutiesStay
            DEF ClaimTake, TypeOK, Sound, Table, dutyVars
  <1>8. CountStaysTrue'
    <2> SUFFICES ASSUME NEW q \in Runtimes, poller'[q].pc = "take"
                 PROVE  /\ rowLock'[poller'[q].agent] = q
                        /\ Cardinality(ActiveOf(tbl', poller'[q].agent))
                             < MaxConcurrent
      BY DEF CountStaysTrue
    <2>1. q # r /\ poller'[q] = poller[q] BY <1>5, <1>6 DEF TypeOK
    <2>2. rowLock[poller[q].agent] = q /\ poller[q].agent \in Agents
          /\ Cardinality(ActiveOf(tbl, poller[q].agent)) < MaxConcurrent
      BY <2>1 DEF ClaimInv, CountStaysTrue, TypeOK
    <2>3. poller[q].agent # a BY <1>2, <2>1, <2>2
    <2>4. ActiveOf(tbl', poller[q].agent) = ActiveOf(tbl, poller[q].agent)
      BY <1>4, <2>3 DEF ActiveOf
    <2> QED BY <1>2, <2>1, <2>2, <2>3, <2>4 DEF TypeOK
  <1>9. CapacityRespected'
    <2> SUFFICES ASSUME NEW b \in Agents
                 PROVE  Cardinality(ActiveOf(tbl', b)) <= MaxConcurrent
      BY DEF CapacityRespected
    <2>1. IsFiniteSet(ActiveOf(tbl, b)) /\ Cardinality(ActiveOf(tbl, b)) \in Nat
      BY CalmActiveOf DEF Calm
    <2>2. CASE b = a
      <3>1. t \notin ActiveOf(tbl, a) BY <1>4 DEF ActiveOf, ActiveStatuses
      <3>2. ActiveOf(tbl', a) \subseteq ActiveOf(tbl, a) \cup {t}
        BY <1>4 DEF ActiveOf
      <3>3. Cardinality(ActiveOf(tbl, a) \cup {t}) = Cardinality(ActiveOf(tbl, a)) + 1
            /\ IsFiniteSet(ActiveOf(tbl, a) \cup {t})
        BY <2>1, <2>2, <3>1, FS_AddElement
      <3>4. Cardinality(ActiveOf(tbl', a)) <= Cardinality(ActiveOf(tbl, a)) + 1
            /\ Cardinality(ActiveOf(tbl', a)) \in Nat
        BY <3>2, <3>3, FS_Subset, FS_CardinalityType
      <3> QED BY <1>2, <2>1, <2>2, <3>4, QueueAssumption
    <2>3. CASE b # a
      <3>1. ActiveOf(tbl', b) = ActiveOf(tbl, b) BY <1>4, <2>3 DEF ActiveOf
      <3> QED BY <3>1 DEF ClaimInv, CapacityRespected
    <2> QED BY <2>2, <2>3
  <1>10. ClaimSerialized'
    <2> SUFFICES ASSUME NEW s \in TaskIds, NEW u \in TaskIds,
                        tbl'[s].status \in ActiveStatuses,
                        tbl'[u].status \in ActiveStatuses,
                        SameSlot(tbl', s, u), s # u
                 PROVE  FALSE
      BY DEF ClaimSerialized
    <2>1. \A q \in TaskIds : /\ tbl'[q].agent = tbl[q].agent
                            /\ tbl'[q].target = tbl[q].target
      BY <1>4
    <2>2. SameSlot(tbl, s, u) /\ SameSlot(tbl, u, s) BY <2>1 DEF SameSlot
    <2>3. \A q \in ActiveOf(tbl, a) : ~ SameSlot(tbl, q, t)
      BY <1>1 DEF Claimable
    <2>4. CASE s = t
      BY <1>4, <2>2, <2>3, <2>4 DEF ActiveOf, SameSlot
    <2>5. CASE u = t
      BY <1>4, <2>2, <2>3, <2>5 DEF ActiveOf, SameSlot
    <2>6. CASE s # t /\ u # t
      BY <1>4, <2>2, <2>6 DEF ClaimInv, ClaimSerialized
    <2> QED BY <2>4, <2>5, <2>6
  <1> QED BY <1>3, <1>7, <1>8, <1>9, <1>10 DEF ClaimInv

-----------------------------------------------------------------------------
IInv == TypeOK /\ ClaimInv

\* Every step is calm or takes a row.
LEMMA StepLemma ==
  ASSUME IInv, Next
  PROVE  /\ IInv' /\ Sound(tbl, tbl')
         /\ Calm(tbl, tbl') \/ \E r \in Runtimes : ClaimTake(r)
  <1> USE DEF IInv
  <1>1. ASSUME CalmStep PROVE IInv' /\ Sound(tbl, tbl') /\ Calm(tbl, tbl')
    BY <1>1, CalmKeepsClaims DEF CalmStep
  <1>2. ASSUME TypeOK', TableStep PROVE IInv' /\ Sound(tbl, tbl') /\ Calm(tbl, tbl')
    BY <1>1, <1>2, TableStepIsCalm DEF ClaimInv
  <1>3. CASE Enqueue BY <1>2, <1>3, EnqueueSteps DEF Enqueue
  <1>4. CASE \E r \in Runtimes : Poll(r)
    <2>1. PICK r \in Runtimes : Poll(r) BY <1>4
    <2>2. CASE PollPromote(r) \/ PollReclaim(r)
      BY <1>1, <2>2, PollTableSteps DEF ClaimInv
    <2>3. CASE \/ PollList(r) \/ PollDone(r) \/ ClaimNoTask(r) \/ ClaimReturn(r)
               \/ \E a \in Agents : ClaimNoCapacity(r, a)
      BY <1>1, <2>3, PollQuietSteps DEF ClaimInv
    <2>4. CASE \E a \in Agents : ClaimLock(r, a)
      BY <2>4, ClaimLockStep, TypeHasTable, SameSound DEF ClaimLock
    <2>5. CASE ClaimTake(r) BY <2>5, ClaimTakeStep
    <2> QED BY <2>1, <2>2, <2>3, <2>4, <2>5 DEF Poll
  <1>5. CASE \E t \in TaskIds : Daemon(t)
    BY <1>2, <1>5, DaemonSteps, FailingSteps DEF Daemon
  <1>6. CASE Duty BY <1>2, <1>6, DutySteps
  <1>7. CASE Sweep BY <1>2, <1>7, FailingSteps
  <1>8. CASE User BY <1>2, <1>8, UserSteps
  <1>9. CASE Clock BY <1>2, <1>9, DaemonSteps, DueSteps DEF Clock
  <1> QED BY <1>3, <1>4, <1>5, <1>6, <1>7, <1>8, <1>9 DEF Next

LEMMA StutterLemma ==
  ASSUME IInv, UNCHANGED vars
  PROVE  IInv' /\ Sound(tbl, tbl')
  <1> USE DEF vars, claimVars, dutyVars
  <1>1. TypeOK' BY DEF IInv, TypeOK
  <1>2. ClaimInv'
    BY DEF IInv, ClaimInv, CountStaysTrue, CapacityRespected, ClaimSerialized
  <1>3. Sound(tbl, tbl) BY TypeHasTable, SameSound DEF IInv
  <1> QED BY <1>1, <1>2, <1>3 DEF IInv

LEMMA InitLemma == Init => IInv
  <1> SUFFICES ASSUME Init PROVE IInv OBVIOUS
  <1>1. TypeOK
    <2>1. Idle \in PollerState /\ Idle.pc = "idle" BY IdleIsState
    <2>2. \A t \in TaskIds : Filled(Absent) BY DEF Filled, Absent
    <2> QED BY <2>1, <2>2, AbsentIsRow DEF Init, TypeOK
  <1>2. \A t \in TaskIds : tbl[t].status \notin ActiveStatuses
    BY DEF Init, Absent, ActiveStatuses
  <1>3. CountStaysTrue BY IdleIsState DEF Init, CountStaysTrue
  <1>4. CapacityRespected
    <2>1. \A a \in Agents : ActiveOf(tbl, a) = {} BY <1>2 DEF ActiveOf
    <2> QED BY <2>1, FS_EmptySet, QueueAssumption DEF CapacityRespected
  <1>5. ClaimSerialized BY <1>2 DEF ClaimSerialized
  <1> QED BY <1>1, <1>3, <1>4, <1>5 DEF IInv, ClaimInv

-----------------------------------------------------------------------------
(* Retries, and the status an agent is shown with                          *)

\* What SingleRetry needs beside itself: a row that waits for its retry has no
\* child yet.  And what the shown status needs: fallbacks run on fallback agents.
LinksInv ==
  /\ \A t \in TaskIds :
       /\ tbl[t].status = "absent" => tbl[t].parent = None /\ tbl[t].esc = None
       /\ tbl[t].esc # None => tbl[t].agent \in FallbackAgents
       /\ tbl[t].parent # None => tbl[t].parent \notin retrying
  /\ SingleRetry

\* A call in flight will still refresh the status of a.
Owed(a) ==
  \/ a \in debt
  \/ \E r \in Runtimes : poller[r].pc = "refresh" /\ poller[r].agent = a
  \/ \E t \in retrying : tbl[t].agent = a

Shown(a) ==
  /\ ActiveOf(tbl, a) # {} => agentStatus[a] = "working"
  /\ a \notin FallbackAgents /\ ActiveOf(tbl, a) = {} => agentStatus[a] = "idle"

StatusInv == \A a \in Agents : Owed(a) \/ Shown(a)

\* A step that makes no retry: new rows have no parent, and only rows that fail
\* in this step begin to wait for theirs.
NoRetryMade ==
  /\ \A t \in TaskIds :
       tbl[t].status = "absent" =>
         /\ tbl'[t].parent = None
         /\ tbl'[t].esc # None => tbl'[t].agent \in FallbackAgents
  /\ retrying' \subseteq retrying \cup CancellableRows

RefreshesKept ==
  \A r \in Runtimes : poller[r].pc = "refresh" => poller'[r] = poller[r]

\* A step that refreshes nobody: what was owed still is, and whoever loses an
\* active row is owed a refresh, or answers as a fallback.
NoneRefreshed ==
  /\ agentStatus' = agentStatus
  /\ \A a \in Agents : Owed(a) => Owed(a)'
  /\ \A t \in TaskIds :
       tbl[t].status \in ActiveStatuses /\ tbl'[t].status \notin ActiveStatuses
         => tbl[t].agent \in FallbackAgents \/ Owed(tbl[t].agent)'

LEMMA OwedStays ==
  ASSUME TypeOK, Keeps(tbl, tbl'), debt \subseteq debt', retrying \subseteq retrying',
         RefreshesKept, NEW a \in Agents, Owed(a)
  PROVE  Owed(a)'
  <1>1. \A t \in retrying : tbl'[t] = tbl[t]
    BY DEF TypeOK, Retryable, Keeps, FinalStatuses
  <1> QED BY <1>1 DEF Owed, RefreshesKept

\* The rows of S, none of them new, are all a statement may change.
LEMMA StatementLinks ==
  ASSUME TypeOK, LinksInv, Keeps(tbl, tbl'), NEW S \in SUBSET TaskIds,
         \A t \in S : tbl[t].status # "absent",
         \A t \in TaskIds \ S : tbl'[t] = tbl[t],
         debt \subseteq debt', retrying \subseteq retrying',
         retrying' \subseteq retrying \cup CancellableRows,
         agentStatus' = agentStatus, RefreshesKept,
         \A t \in S :
           tbl[t].status \in ActiveStatuses /\ tbl'[t].status \notin ActiveStatuses
             => \/ tbl[t].agent \in FallbackAgents \cup debt'
                \/ t \in retrying'
  PROVE  NoRetryMade /\ NoneRefreshed
  <1>1. NoRetryMade BY DEF NoRetryMade, LinksInv
  <1>2. \A a \in Agents : Owed(a) => Owed(a)' BY OwedStays
  <1>3. ASSUME NEW t \in TaskIds, tbl[t].status \in ActiveStatuses,
               tbl'[t].status \notin ActiveStatuses
        PROVE  tbl[t].agent \in FallbackAgents \/ Owed(tbl[t].agent)'
    <2>1. t \in S BY <1>3
    <2>2. tbl'[t].agent = tbl[t].agent BY <2>1 DEF Keeps
    <2> QED BY <1>3, <2>1, <2>2 DEF Owed
  <1> QED BY <1>1, <1>2, <1>3 DEF NoneRefreshed

LEMMA SameLinks ==
  ASSUME TypeOK, LinksInv, tbl' = tbl, UNCHANGED <<debt, retrying, agentStatus>>,
         RefreshesKept
  PROVE  NoRetryMade /\ NoneRefreshed
  <1>1. NoRetryMade BY DEF NoRetryMade, LinksInv
  <1>2. \A a \in Agents : Owed(a) => Owed(a)' BY DEF Owed, RefreshesKept
  <1> QED BY <1>1, <1>2 DEF NoneRefreshed

LEMMA InsertLinks ==
  ASSUME TypeOK, LinksInv, Keeps(tbl, tbl'), NEW t \in TaskIds,
         tbl[t].status = "absent", NEW row, tbl' = Insert(tbl, t, row),
         row.parent = None, row.esc # None => row.agent \in FallbackAgents,
         UNCHANGED <<agentStatus, debt, retrying, poller>>
  PROVE  NoRetryMade /\ NoneRefreshed
  <1>1. tbl'[t] = row /\ \A s \in TaskIds \ {t} : tbl'[s] = tbl[s]
    BY DEF Insert, TypeOK
  <1>2. NoRetryMade BY <1>1 DEF NoRetryMade, LinksInv
  <1>3. \A a \in Agents : Owed(a) => Owed(a)' BY OwedStays DEF RefreshesKept
  <1>4. tbl[t].status \notin ActiveStatuses BY DEF ActiveStatuses
  <1> QED BY <1>1, <1>2, <1>3, <1>4 DEF NoneRefreshed

LEMMA EnqueueLinks ==
  ASSUME TypeOK, LinksInv, Keeps(tbl, tbl'), Enqueue
  PROVE  NoRetryMade /\ NoneRefreshed
  <1>1. PICK t \in TaskIds, a \in Agents, r \in Runtimes :
          \/ \E x \in Targets : EnqueueTask(a, x, r, t)
          \/ \E i \in Issues : EnqueueRouted(a, i, r, t)
          \/ \E p \in TaskIds : EnqueueDeferredAssigneeFallback(p, a, r, t)
          \/ \E i \in Issues : RerunEnqueue(a, i, r, t)
    BY DEF Enqueue
  <1>2. \A x : NewRow(a, x, r).parent = None /\ NewRow(a, x, r).esc = None
    BY DEF NewRow, Absent
  <1>3. CASE \E x \in Targets : EnqueueTask(a, x, r, t)
    BY <1>2, <1>3, InsertLinks DEF EnqueueTask, claimVars, dutyVars
  <1>4. CASE \E i \in Issues : EnqueueRouted(a, i, r, t)
    BY <1>2, <1>4, InsertLinks DEF EnqueueRouted, claimVars
  <1>5. CASE \E p \in TaskIds : EnqueueDeferredAssigneeFallback(p, a, r, t)
    <2>1. PICK p \in TaskIds : EnqueueDeferredAssigneeFallback(p, a, r, t) BY <1>5
    <2> DEFINE row == [NewRow(a, tbl[p].target, r) EXCEPT !.status = "deferred", !.esc = p]
    <2>2. row.parent = None /\ row.agent = a BY DEF NewRow, Absent
    <2>3. a \in FallbackAgents /\ tbl' = Insert(tbl, t, row)
          /\ tbl[t].status = "absent"
          /\ UNCHANGED <<agentStatus, debt, retrying, poller>>
      BY <2>1 DEF EnqueueDeferredAssigneeFallback, claimVars
    <2> HIDE DEF row
    <2> QED BY <2>2, <2>3, InsertLinks
  <1>6. CASE \E i \in Issues : RerunEnqueue(a, i, r, t)
    <2>1. PICK i \in Issues : RerunEnqueue(a, i, r, t) BY <1>6
    <2>2. CASE tbl' = tbl
      <3>1. /\ debt' = debt /\ retrying' = retrying /\ agentStatus' = agentStatus
            /\ RefreshesKept
        BY <2>1 DEF RerunEnqueue, claimVars, RefreshesKept
      <3> QED BY <2>2, <3>1, SameLinks
    <2>3. CASE tbl' = Insert(tbl, t, NewRow(a, i, r))
      BY <1>2, <2>1, <2>3, InsertLinks DEF RerunEnqueue, claimVars
    <2> QED BY <2>1, <2>2, <2>3 DEF RerunEnqueue
  <1> QED BY <1>1, <1>3, <1>4, <1>5, <1>6

\* SetStatus changes nothing outside its set and gives its status inside.
LEMMA SetStatusAt ==
  ASSUME TypeOK, NEW S \in SUBSET TaskIds, NEW st, NEW l
  PROVE  /\ \A t \in S : SetStatus(tbl, S, st, l)[t].status = st
         /\ \A t \in TaskIds \ S : SetStatus(tbl, S, st, l)[t] = tbl[t]
  <1> DEFINE row(t) == [tbl[t] EXCEPT !.status = st, !.lease = l]
  <1>1. \A t \in S : row(t).status = st BY DEF TypeOK, Row
  <1>2. SetStatus(tbl, S, st, l) =
          [t \in TaskIds |-> IF t \in S THEN row(t) ELSE tbl[t]]
    BY DEF SetStatus
  <1> HIDE DEF row
  <1> QED BY <1>1, <1>2

LEMMA CancellableExist ==
  \A t \in CancellableRows : t \in TaskIds /\ tbl[t].status # "absent"
  BY StatusesBasic DEF CancellableRows

\* Statements after which the rows they change are active, or were not before.
LEMMA CalmLinks ==
  ASSUME TypeOK, LinksInv, Keeps(tbl, tbl'), NEW S \in SUBSET CancellableRows,
         NEW st, NEW l, tbl' = SetStatus(tbl, S, st, l),
         st \in ActiveStatuses \/ \A t \in S : tbl[t].status \notin ActiveStatuses,
         debt' = debt, retrying' = retrying, agentStatus' = agentStatus, RefreshesKept
  PROVE  NoRetryMade /\ NoneRefreshed
  <1>1. S \in SUBSET TaskIds /\ \A t \in S : tbl[t].status # "absent"
    BY CancellableExist
  <1>2. /\ \A t \in S : tbl'[t].status = st
        /\ \A t \in TaskIds \ S : tbl'[t] = tbl[t]
    BY <1>1, SetStatusAt
  <1> QED BY <1>1, <1>2, StatementLinks

\* Statements that end rows whose agents are owed a refresh, or are fallbacks.
LEMMA EndLinks ==
  ASSUME TypeOK, LinksInv, Keeps(tbl, tbl'), NEW S \in SUBSET CancellableRows,
         NEW st, NEW l, tbl' = SetStatus(tbl, S, st, l), debt \subseteq debt',
         \A t \in S : tbl[t].agent \in FallbackAgents \cup debt',
         retrying' = retrying, agentStatus' = agentStatus, RefreshesKept
  PROVE  NoRetryMade /\ NoneRefreshed
  <1>1. S \in SUBSET TaskIds /\ \A t \in S : tbl[t].status # "absent"
    BY CancellableExist
  <1>2. \A t \in TaskIds \ S : tbl'[t] = tbl[t]
    BY <1>1, SetStatusAt
  <1> QED BY <1>1, <1>2, StatementLinks

LEMMA FailLinks ==
  ASSUME TypeOK, LinksInv, Keeps(tbl, tbl'), NEW S \in SUBSET CancellableRows,
         NEW reason, FailRows(S, reason)
  PROVE  NoRetryMade /\ NoneRefreshed
  <1>1. S \in SUBSET TaskIds /\ \A t \in S : tbl[t].status # "absent"
    BY CancellableExist
  <1>2. \A t \in TaskIds \ S : tbl'[t] = tbl[t]
    BY <1>1 DEF FailRows, Fail, TypeOK
  <1>3. /\ debt \subseteq debt' /\ retrying \subseteq retrying'
        /\ retrying' \subseteq retrying \cup CancellableRows
        /\ agentStatus' = agentStatus /\ RefreshesKept
        /\ \A t \in S : tbl[t].agent \in debt' \/ t \in retrying'
    BY DEF FailRows, AgentsOf, claimVars, RefreshesKept
  <1> QED BY <1>1, <1>2, <1>3, StatementLinks

LEMMA DaemonLinks ==
  ASSUME TypeOK, LinksInv, Keeps(tbl, tbl'), NEW t \in TaskIds,
         Daemon(t) \/ LeaseLapses(t) \/ FallbackComesDue(t)
  PROVE  NoRetryMade /\ NoneRefreshed
  <1>1. ASSUME UNCHANGED <<agentStatus, claimVars, debt, retrying>>,
               tbl[t].status \in ActiveStatuses,
               NEW st \in ActiveStatuses, NEW l, tbl' = SetStatus(tbl, {t}, st, l)
        PROVE  NoRetryMade /\ NoneRefreshed
    <2>1. {t} \in SUBSET CancellableRows BY <1>1, StatusesBasic DEF CancellableRows
    <2>2. RefreshesKept BY <1>1 DEF claimVars, RefreshesKept
    <2> QED BY <1>1, <2>1, <2>2, CalmLinks
  <1>2. CASE ExtendTaskPrepareLease(t)
    BY <1>1, <1>2 DEF ExtendTaskPrepareLease, ActiveStatuses, dutyVars
  <1>3. CASE MarkTaskWaitingLocalDirectory(t)
    BY <1>1, <1>3 DEF MarkTaskWaitingLocalDirectory, ActiveStatuses, dutyVars
  <1>4. CASE StartTask(t) BY <1>1, <1>4 DEF StartTask, ActiveStatuses
  <1>5. CASE LeaseLapses(t) BY <1>1, <1>5 DEF LeaseLapses, ActiveStatuses, dutyVars
  <1>6. CASE CompleteTask(t)
    <2>1. {t} \in SUBSET CancellableRows
      BY <1>6 DEF CompleteTask, CancellableRows, CancellableStatuses, ActiveStatuses
    <2>2. /\ RefreshesKept /\ retrying' = retrying /\ agentStatus' = agentStatus
          /\ debt \subseteq debt' /\ tbl[t].agent \in debt'
          /\ tbl' = SetStatus(tbl, {t}, "completed", "null")
      BY <1>6 DEF CompleteTask, claimVars, RefreshesKept
    <2> QED BY <2>1, <2>2, EndLinks
  <1>7. CASE \E reason \in FailureReasons : FailTask(t, reason)
    <2>1. {t} \in SUBSET CancellableRows
      BY <1>7, StatusesBasic DEF FailTask, CancellableRows
    <2> QED BY <1>7, <2>1, FailLinks DEF FailTask
  <1>8. CASE FallbackComesDue(t)
    <2>1. /\ tbl' = tbl /\ debt' = debt /\ retrying' = retrying
          /\ agentStatus' = agentStatus /\ RefreshesKept
      BY <1>8 DEF FallbackComesDue, claimVars, dutyVars, RefreshesKept
    <2> QED BY <2>1, SameLinks
  <1> QED BY <1>2, <1>3, <1>4, <1>5, <1>6, <1>7, <1>8 DEF Daemon

LEMMA EscalationRows ==
  ASSUME TypeOK, LinksInv, NEW p \in TaskIds
  PROVE  /\ Escalations(p) \subseteq CancellableRows
         /\ \A t \in Escalations(p) : tbl[t].agent \in FallbackAgents
  <1>1. p # None BY TableAssumption
  <1> QED BY <1>1 DEF Escalations, CancellableRows, CancellableStatuses, ActiveStatuses,
                      LinksInv

LEMMA UserLinks ==
  ASSUME TypeOK, LinksInv, Keeps(tbl, tbl'), User
  PROVE  NoRetryMade /\ NoneRefreshed
  <1>1. ASSUME NEW S \in SUBSET CancellableRows, CancelRows(S)
        PROVE  NoRetryMade /\ NoneRefreshed
    <2>1. /\ RefreshesKept /\ retrying' = retrying /\ agentStatus' = agentStatus
          /\ debt \subseteq debt' /\ \A t \in S : tbl[t].agent \in debt'
          /\ tbl' = SetStatus(tbl, S, "cancelled", "null")
      BY <1>1 DEF CancelRows, Cancel, AgentsOf, claimVars, RefreshesKept
    <2> QED BY <2>1, EndLinks
  <1>2. CASE \E t \in TaskIds : CancelTask(t) BY <1>1, <1>2 DEF CancelTask
  <1>3. CASE \E i \in Issues : CancelTasksForIssue(i)
    BY <1>1, <1>3 DEF CancelTasksForIssue
  <1>4. CASE \E a \in Agents : CancelTasksForAgent(a)
    BY <1>1, <1>4 DEF CancelTasksForAgent
  <1>5. CASE \E a \in Agents, i \in Issues : RerunCancel(a, i)
    BY <1>1, <1>5 DEF RerunCancel
  <1>6. CASE \E a \in Agents, i \in Issues :
               CancelDeferredEscalationsForIssueAgent(a, i)
    <2>1. PICK a \in Agents, i \in Issues :
            CancelDeferredEscalationsForIssueAgent(a, i)
      BY <1>6
    <2> DEFINE S == UNION {Escalations(p) :
                             p \in {q \in TaskIds : tbl[q].agent = a /\ tbl[q].target = i}}
    <2>2. S \in SUBSET CancellableRows /\ \A t \in S : tbl[t].agent \in FallbackAgents
      BY EscalationRows
    <2>3. /\ tbl' = SetStatus(tbl, S, "cancelled", "null")
          /\ debt' = debt /\ retrying' = retrying /\ agentStatus' = agentStatus
          /\ RefreshesKept
      BY <2>1 DEF CancelDeferredEscalationsForIssueAgent, Cancel, claimVars, dutyVars,
                  RefreshesKept
    <2> HIDE DEF S
    <2> QED BY <2>2, <2>3, EndLinks
  <1> QED BY <1>2, <1>3, <1>4, <1>5, <1>6 DEF User

LEMMA SweepLinks ==
  ASSUME TypeOK, LinksInv, Keeps(tbl, tbl'), Sweep
  PROVE  NoRetryMade /\ NoneRefreshed
  <1>1. \A r \in Runtimes : ActiveOn(r) \subseteq CancellableRows
    BY StatusesBasic DEF ActiveOn, CancellableRows
  <1>2. CASE \E r \in Runtimes : RecoverOrphanedTasksForRuntime(r)
    BY <1>1, <1>2, FailLinks DEF RecoverOrphanedTasksForRuntime
  <1>3. CASE \E R \in SUBSET Runtimes : FailTasksForOfflineRuntimes(R)
    <2>1. PICK R \in SUBSET Runtimes : FailTasksForOfflineRuntimes(R) BY <1>3
    <2>2. UNION {ActiveOn(r) : r \in R} \subseteq CancellableRows BY <1>1
    <2> QED BY <2>1, <2>2, FailLinks DEF FailTasksForOfflineRuntimes
  <1>4. CASE FailStaleTasks
    BY <1>4, FailLinks
       DEF FailStaleTasks, CancellableRows, CancellableStatuses, ActiveStatuses
  <1>5. CASE ExpireStaleQueuedTasks
    BY <1>5, FailLinks DEF ExpireStaleQueuedTasks, CancellableRows, CancellableStatuses
  <1> QED BY <1>2, <1>3, <1>4, <1>5 DEF Sweep

\* The steps of a poller that is not about to refresh.
LEMMA PollLinks ==
  ASSUME TypeOK, LinksInv, Keeps(tbl, tbl'), NEW r \in Runtimes,
         Poll(r), ~ ClaimTake(r), ~ ClaimReturn(r)
  PROVE  NoRetryMade /\ NoneRefreshed
  <1>1. ASSUME NEW next, poller' = [poller EXCEPT ![r] = next], poller[r].pc # "refresh"
        PROVE  RefreshesKept
    BY <1>1 DEF RefreshesKept, TypeOK
  <1>2. CASE PollPromote(r)
    <2>1. DueOn(r) \in SUBSET CancellableRows
          /\ \A t \in DueOn(r) : tbl[t].status \notin ActiveStatuses
      BY DEF DueOn, TypeOK, CancellableRows, CancellableStatuses, ActiveStatuses
    <2>2. /\ tbl' = SetStatus(tbl, DueOn(r), "queued", "null") /\ debt' = debt
          /\ retrying' = retrying /\ agentStatus' = agentStatus
      BY <1>2 DEF PollPromote, Promoted, dutyVars
    <2>3. RefreshesKept BY <1>1, <1>2 DEF PollPromote
    <2> QED BY <2>1, <2>2, <2>3, CalmLinks
  <1>3. CASE PollReclaim(r)
    <2>1. PICK t \in StaleDispatched(r) : tbl' = SetStatus(tbl, {t}, "dispatched", "live")
      BY <1>3 DEF PollReclaim
    <2>2. {t} \in SUBSET CancellableRows /\ "dispatched" \in ActiveStatuses
      BY DEF StaleDispatched, CancellableRows, CancellableStatuses, ActiveStatuses
    <2>3. debt' = debt /\ retrying' = retrying /\ agentStatus' = agentStatus
      BY <1>3 DEF PollReclaim, dutyVars
    <2>4. RefreshesKept BY <1>1, <1>3 DEF PollReclaim
    <2> QED BY <2>1, <2>2, <2>3, <2>4, CalmLinks
  <1>4. ASSUME UNCHANGED <<tbl, agentStatus, dutyVars>>, RefreshesKept
        PROVE  NoRetryMade /\ NoneRefreshed
    BY <1>4, SameLinks DEF dutyVars
  <1>5. CASE PollList(r) BY <1>1, <1>4, <1>5 DEF PollList
  <1>6. CASE PollDone(r) BY <1>1, <1>4, <1>6 DEF PollDone
  <1>7. CASE ClaimNoTask(r) BY <1>1, <1>4, <1>7 DEF ClaimNoTask
  <1>8. CASE \E a \in Agents : ClaimLock(r, a) \/ ClaimNoCapacity(r, a)
    BY <1>1, <1>4, <1>8 DEF ClaimLock, ClaimNoCapacity
  <1> QED BY <1>2, <1>3, <1>5, <1>6, <1>7, <1>8 DEF Poll

\* The retry itself, whether the child is inserted or not.
LEMMA RetryDuty ==
  ASSUME TypeOK, LinksInv, Keeps(tbl, tbl'), NEW p \in TaskIds, NEW t \in TaskIds,
         MaybeRetryFailedTask(p, t)
  PROVE  NoneRefreshed
  <1>1. /\ tbl[t].status = "absent" /\ \A s \in TaskIds \ {t} : tbl'[s] = tbl[s]
        /\ agentStatus' = agentStatus /\ poller' = poller
        /\ retrying' = retrying \ {p} /\ debt' = debt \cup {tbl[p].agent}
    BY DEF MaybeRetryFailedTask, Insert, TypeOK, claimVars
  <1>2. \A s \in retrying : tbl'[s] = tbl[s]
    BY DEF TypeOK, Retryable, Keeps, FinalStatuses
  <1>3. \A a \in Agents : Owed(a) => Owed(a)' BY <1>1, <1>2 DEF Owed
  <1>4. tbl[t].status \notin ActiveStatuses BY <1>1 DEF ActiveStatuses
  <1> QED BY <1>1, <1>3, <1>4 DEF NoneRefreshed

LEMMA DutyLinks ==
  ASSUME TypeOK, LinksInv, Keeps(tbl, tbl'), NEW t \in TaskIds,
         CancelDeferredEscalationsForTask(t)
  PROVE  NoRetryMade /\ NoneRefreshed
  <1>1. /\ tbl' = SetStatus(tbl, Escalations(t), "cancelled", "null")
        /\ debt' = debt /\ retrying' = retrying /\ agentStatus' = agentStatus
        /\ RefreshesKept
    BY DEF CancelDeferredEscalationsForTask, Cancel, claimVars, RefreshesKept
  <1>2. /\ Escalations(t) \in SUBSET CancellableRows
        /\ \A s \in Escalations(t) : tbl[s].agent \in FallbackAgents
    BY EscalationRows
  <1> QED BY <1>1, <1>2, EndLinks

LEMMA LinksStay ==
  ASSUME TypeOK, LinksInv, Keeps(tbl, tbl'), NoRetryMade
  PROVE  LinksInv'
  <1>1. \A t \in TaskIds : tbl'[t].parent # None =>
          /\ tbl[t].status # "absent" /\ tbl'[t].parent = tbl[t].parent
          /\ tbl'[t].attempt = tbl[t].attempt
    BY DEF NoRetryMade, Keeps
  <1>2. \A t \in TaskIds : tbl[t].parent # None =>
          /\ tbl[t].parent \in TaskIds /\ tbl[tbl[t].parent].status = "failed"
          /\ tbl'[tbl[t].parent] = tbl[tbl[t].parent]
          /\ tbl[t].parent \notin CancellableRows
    BY DEF LinksInv, SingleRetry, TypeOK, Row, Keeps, FinalStatuses, CancellableRows,
           CancellableStatuses, ActiveStatuses
  <1>3. ASSUME NEW t \in TaskIds
        PROVE  /\ tbl'[t].status = "absent" => tbl'[t].parent = None /\ tbl'[t].esc = None
               /\ tbl'[t].esc # None => tbl'[t].agent \in FallbackAgents
               /\ tbl'[t].parent # None => tbl'[t].parent \notin retrying'
    <2>1. tbl'[t].status = "absent" => tbl'[t].parent = None /\ tbl'[t].esc = None
      BY DEF Keeps, LinksInv
    <2>2. tbl'[t].esc # None => tbl'[t].agent \in FallbackAgents
      BY DEF Keeps, LinksInv, NoRetryMade
    <2>3. tbl'[t].parent # None => tbl'[t].parent \notin retrying'
      BY <1>1, <1>2 DEF LinksInv, NoRetryMade
    <2> QED BY <2>1, <2>2, <2>3
  <1>4. SingleRetry'
    <2> SUFFICES ASSUME NEW s \in TaskIds, tbl'[s].parent # None
                 PROVE  LET p == tbl'[s].parent
                        IN /\ tbl'[p].status = "failed"
                           /\ tbl'[s].attempt = tbl'[p].attempt + 1
                           /\ \A t \in TaskIds : tbl'[t].parent = p => t = s
      BY DEF SingleRetry
    <2>1. /\ tbl[tbl[s].parent].status = "failed"
          /\ tbl[s].attempt = tbl[tbl[s].parent].attempt + 1
          /\ \A t \in TaskIds : tbl[t].parent = tbl[s].parent => t = s
      BY <1>1 DEF LinksInv, SingleRetry
    <2>2. \A t \in TaskIds : tbl'[t].parent = tbl'[s].parent => t = s
      BY <1>1, <2>1
    <2> QED BY <1>1, <1>2, <2>1, <2>2
  <1> QED BY <1>3, <1>4 DEF LinksInv

LEMMA RetryLinks ==
  ASSUME TypeOK, LinksInv, Keeps(tbl, tbl'), NEW p \in TaskIds, NEW t \in TaskIds,
         MaybeRetryFailedTask(p, t)
  PROVE  LinksInv'
  <1>1. /\ p \in retrying /\ tbl[p].status = "failed" /\ tbl[p].agent \in Agents
        /\ tbl[t].status = "absent" /\ retrying' = retrying \ {p} /\ t # p
    BY DEF MaybeRetryFailedTask, TypeOK, Retryable, Filled
  <1>2. CASE tbl' = tbl
    BY <1>1, <1>2 DEF LinksInv, SingleRetry
  <1>3. CASE tbl' # tbl
    <2>1. PICK r \in {tbl[p].rt} \cup Bound[tbl[p].agent] :
            tbl' = Insert(tbl, t, RetryRow(tbl, p, r))
      BY <1>3 DEF MaybeRetryFailedTask
    <2> DEFINE row == RetryRow(tbl, p, r)
    <2>2. /\ row.status = "queued" /\ row.parent = p /\ row.esc = None
          /\ row.attempt = tbl[p].attempt + 1
      BY DEF RetryRow, NewRow, Absent
    <2> HIDE DEF row
    <2>3. tbl'[t] = row /\ \A s \in TaskIds \ {t} : tbl'[s] = tbl[s]
      BY <2>1 DEF Insert, TypeOK, row
    <2>4. p # None /\ tbl'[p] = tbl[p] BY <1>1, <2>3, TableAssumption
    \* p waited, so nobody was its retry
    <2>5. \A s \in TaskIds : tbl[s].parent # p BY <1>1, <2>4 DEF LinksInv
    \* nobody is the retry of a row that did not exist
    <2>6. \A s \in TaskIds : tbl[s].parent # t
      BY <1>1, TableAssumption DEF LinksInv, SingleRetry
    <2>7. ASSUME NEW s \in TaskIds
          PROVE  /\ tbl'[s].status = "absent" => tbl'[s].parent = None /\ tbl'[s].esc = None
                 /\ tbl'[s].esc # None => tbl'[s].agent \in FallbackAgents
                 /\ tbl'[s].parent # None => tbl'[s].parent \notin retrying'
      <3>1. CASE s = t BY <1>1, <2>2, <2>3, <3>1
      <3>2. CASE s # t BY <1>1, <2>3, <3>2 DEF LinksInv
      <3> QED BY <3>1, <3>2
    <2>8. SingleRetry'
      <3> SUFFICES ASSUME NEW s \in TaskIds, tbl'[s].parent # None
                   PROVE  LET q == tbl'[s].parent
                          IN /\ tbl'[q].status = "failed"
                             /\ tbl'[s].attempt = tbl'[q].attempt + 1
                             /\ \A u \in TaskIds : tbl'[u].parent = q => u = s
        BY DEF SingleRetry
      <3>1. CASE s = t
        <4>1. tbl'[s].parent = p /\ tbl'[s].attempt = tbl[p].attempt + 1
          BY <2>2, <2>3, <3>1
        <4>2. \A u \in TaskIds : tbl'[u].parent = p => u = s
          BY <2>3, <2>5, <3>1
        <4> QED BY <1>1, <2>4, <4>1, <4>2
      <3>2. CASE s # t
        <4>1. tbl'[s] = tbl[s] BY <2>3, <3>2
        <4>2. /\ tbl[tbl[s].parent].status = "failed"
              /\ tbl[s].attempt = tbl[tbl[s].parent].attempt + 1
              /\ \A u \in TaskIds : tbl[u].parent = tbl[s].parent => u = s
          BY <4>1 DEF LinksInv, SingleRetry
        <4>3. tbl[s].parent \in TaskIds /\ tbl[s].parent # p /\ tbl[s].parent # t
          BY <2>5, <2>6, <4>1 DEF TypeOK, Row
        <4>4. tbl'[tbl[s].parent] = tbl[tbl[s].parent] BY <2>3, <4>3
        <4>5. \A u \in TaskIds : tbl'[u].parent = tbl[s].parent => u = s
          BY <2>2, <2>3, <4>2, <4>3
        <4> QED BY <4>1, <4>2, <4>4, <4>5
      <3> QED BY <3>1, <3>2
    <2> QED BY <2>7, <2>8 DEF LinksInv
  <1> QED BY <1>2, <1>3

\* Who was shown right is shown right, or is owed a refresh again.
LEMMA StatusKept ==
  ASSUME TypeOK, StatusInv, Calm(tbl, tbl'), Keeps(tbl, tbl'), NoneRefreshed
  PROVE  StatusInv'
  <1> SUFFICES ASSUME NEW a \in Agents, ~ Owed(a)' PROVE Shown(a)'
    BY DEF StatusInv
  <1>1. Shown(a) BY DEF StatusInv, NoneRefreshed
  <1>2. ActiveOf(tbl', a) \subseteq ActiveOf(tbl, a) BY DEF ActiveOf, Calm
  <1>3. ActiveOf(tbl', a) = {} /\ a \notin FallbackAgents => ActiveOf(tbl, a) = {}
    <2> SUFFICES ASSUME ActiveOf(tbl', a) = {}, a \notin FallbackAgents,
                        NEW t \in ActiveOf(tbl, a)
                 PROVE  FALSE
      OBVIOUS
    <2>1. t \in TaskIds /\ tbl[t].agent = a /\ tbl[t].status \in ActiveStatuses
      BY DEF ActiveOf
    <2>2. tbl'[t].agent = a BY <2>1 DEF Keeps, ActiveStatuses
    <2>3. tbl'[t].status \notin ActiveStatuses BY <2>1, <2>2 DEF ActiveOf
    <2>4. tbl[t].agent \in FallbackAgents \/ Owed(tbl[t].agent)'
      BY <2>1, <2>3 DEF NoneRefreshed
    <2>5. Owed(tbl[t].agent)' <=> Owed(a)' BY <2>2 DEF Owed
    <2> QED BY <2>1, <2>4, <2>5
  <1> QED BY <1>1, <1>2, <1>3 DEF Shown, NoneRefreshed

\* RefreshAgentStatusFromTasks puts one agent right; a claim owes it a refresh.
LEMMA StatusRefreshed ==
  ASSUME TypeOK, StatusInv, NEW a \in Agents, tbl' = tbl,
         agentStatus' = RefreshedStatus(a), retrying' = retrying, debt \ {a} \subseteq debt',
         \A r \in Runtimes : poller[r].pc = "refresh" /\ poller[r].agent # a =>
           poller'[r] = poller[r]
  PROVE  StatusInv'
  <1> SUFFICES ASSUME NEW b \in Agents, ~ Owed(b)' PROVE Shown(b)'
    BY DEF StatusInv
  <1>1. CASE b = a
    BY <1>1 DEF RefreshedStatus, Shown, TypeOK
  <1>2. CASE b # a
    <2>1. ~ Owed(b) BY <1>2 DEF Owed
    <2>2. agentStatus'[b] = agentStatus[b] BY <1>2 DEF RefreshedStatus, TypeOK
    <2> QED BY <2>1, <2>2 DEF StatusInv, Shown
  <1> QED BY <1>1, <1>2

LEMMA StatusClaimed ==
  ASSUME TypeOK, LinksInv, StatusInv, Keeps(tbl, tbl'), NEW r \in Runtimes, ClaimTake(r)
  PROVE  StatusInv' /\ NoRetryMade
  <1> DEFINE a == poller[r].agent
  <1>1. PICK t \in TaskIds :
          /\ Claimable(tbl, a, t)
          /\ tbl' = SetStatus(tbl, {t}, "dispatched", "live")
          /\ poller' = [poller EXCEPT ![r].pc = "refresh", ![r].task = t]
    BY DEF ClaimTake
  <1>2. /\ tbl[t].agent = a /\ tbl[t].status = "queued"
        /\ \A s \in TaskIds \ {t} : tbl'[s] = tbl[s]
    <2>1. \A s \in TaskIds \ {t} : SetStatus(tbl, {t}, "dispatched", "live")[s] = tbl[s]
      BY SetStatusAt
    <2> QED BY <1>1, <2>1 DEF Claimable
  <1>3. /\ poller'[r].pc = "refresh" /\ poller'[r].agent = a
        /\ \A q \in Runtimes \ {r} : poller'[q] = poller[q]
    BY <1>1 DEF TypeOK, PollerState
  <1>4. agentStatus' = agentStatus /\ debt' = debt /\ retrying' = retrying
        /\ poller[r].pc = "take"
    BY DEF ClaimTake, dutyVars
  <1> HIDE DEF a
  <1>5. NoRetryMade
    BY <1>2, <1>4 DEF NoRetryMade, LinksInv
  <1>6. StatusInv'
    <2> SUFFICES ASSUME NEW b \in Agents, ~ Owed(b)' PROVE Shown(b)'
      BY DEF StatusInv
    <2>1. b # a BY <1>3 DEF Owed
    <2>2. RefreshesKept BY <1>3, <1>4 DEF RefreshesKept
    <2>3. ~ Owed(b) BY <1>4, <2>2, OwedStays
    <2>4. ActiveOf(tbl', b) = ActiveOf(tbl, b)
      BY <1>2, <2>1 DEF ActiveOf, Keeps
    <2> QED BY <1>4, <2>3, <2>4 DEF StatusInv, Shown
  <1> QED BY <1>5, <1>6

LEMMA LinksInit == Init => LinksInv /\ StatusInv
  <1> SUFFICES ASSUME Init PROVE LinksInv /\ StatusInv OBVIOUS
  <1>1. \A t \in TaskIds : /\ tbl[t].parent = None /\ tbl[t].esc = None
                           /\ tbl[t].status = "absent"
    BY DEF Init, Absent
  <1>2. LinksInv BY <1>1 DEF LinksInv, SingleRetry
  <1>3. ASSUME NEW a \in Agents PROVE Shown(a)
    <2>1. ActiveOf(tbl, a) = {} BY <1>1 DEF ActiveOf, ActiveStatuses
    <2>2. agentStatus[a] = "idle" BY DEF Init
    <2> QED BY <2>1, <2>2 DEF Shown
  <1> QED BY <1>2, <1>3 DEF StatusInv

\* Every step keeps the links between rows and the shown status.
LEMMA LinksStep ==
  ASSUME IInv, LinksInv, StatusInv, Next
  PROVE  LinksInv' /\ StatusInv'
  <1>1. TypeOK /\ Keeps(tbl, tbl') /\ (Calm(tbl, tbl') \/ \E r \in Runtimes : ClaimTake(r))
    BY StepLemma DEF IInv, Sound
  <1>2. CASE \E r \in Runtimes : ClaimTake(r)
    BY <1>1, <1>2, StatusClaimed, LinksStay
  <1>3. ASSUME NoRetryMade, NoneRefreshed, Calm(tbl, tbl')
        PROVE  LinksInv' /\ StatusInv'
    BY <1>1, <1>3, LinksStay, StatusKept
  <1>4. ASSUME UNCHANGED <<tbl, retrying>> PROVE LinksInv'
    BY <1>4 DEF LinksInv, SingleRetry
  <1>5. CASE Calm(tbl, tbl') /\ ~ \E r \in Runtimes : ClaimTake(r)
    <2>1. CASE Enqueue BY <1>1, <1>3, <1>5, <2>1, EnqueueLinks
    <2>2. CASE \E r \in Runtimes : Poll(r)
      <3>1. PICK r \in Runtimes : Poll(r) BY <2>2
      <3>2. CASE ~ ClaimReturn(r) BY <1>1, <1>3, <1>5, <3>1, <3>2, PollLinks
      <3>3. CASE ClaimReturn(r)
        <4>1. /\ poller[r].agent \in Agents /\ tbl' = tbl
              /\ agentStatus' = RefreshedStatus(poller[r].agent)
              /\ retrying' = retrying /\ debt' = debt
              /\ \A q \in Runtimes : poller[q].pc = "refresh"
                   /\ poller[q].agent # poller[r].agent => poller'[q] = poller[q]
          BY <1>1, <3>3 DEF ClaimReturn, TypeOK, dutyVars
        <4>2. debt \ {poller[r].agent} \subseteq debt' BY <4>1
        <4> QED BY <1>1, <1>4, <4>1, <4>2, StatusRefreshed
      <3> QED BY <3>2, <3>3
    <2>3. CASE (\E t \in TaskIds : Daemon(t)) \/ Clock
      <3>1. PICK t \in TaskIds : Daemon(t) \/ LeaseLapses(t) \/ FallbackComesDue(t)
        BY <2>3 DEF Clock
      <3> QED BY <1>1, <1>3, <1>5, <3>1, DaemonLinks
    <2>4. CASE \E t \in TaskIds : CancelDeferredEscalationsForTask(t)
      BY <1>1, <1>3, <1>5, <2>4, DutyLinks
    <2>5. CASE \E p, t \in TaskIds : MaybeRetryFailedTask(p, t)
      <3>1. PICK p \in TaskIds, t \in TaskIds : MaybeRetryFailedTask(p, t) BY <2>5
      <3>2. NoneRefreshed BY <1>1, <3>1, RetryDuty
      <3>3. LinksInv' BY <1>1, <3>1, RetryLinks
      <3>4. StatusInv' BY <1>1, <1>5, <3>2, StatusKept
      <3> QED BY <3>3, <3>4
    <2>6. CASE \E a \in Agents : ReconcileAgentStatus(a)
      <3>1. PICK a \in Agents : ReconcileAgentStatus(a) BY <2>6
      <3>2. /\ tbl' = tbl /\ agentStatus' = RefreshedStatus(a) /\ poller' = poller
            /\ retrying' = retrying /\ debt \ {a} \subseteq debt'
        BY <3>1 DEF ReconcileAgentStatus, claimVars
      <3> QED BY <1>1, <1>4, <3>2, StatusRefreshed
    <2>7. CASE Sweep BY <1>1, <1>3, <1>5, <2>7, SweepLinks
    <2>8. CASE User BY <1>1, <1>3, <1>5, <2>8, UserLinks
    <2> QED BY <2>1, <2>2, <2>3, <2>4, <2>5, <2>6, <2>7, <2>8 DEF Next, Duty
  <1> QED BY <1>1, <1>2, <1>5

LinkedInv == IInv /\ LinksInv /\ StatusInv

LEMMA LinkedSafe == Spec => []LinkedInv
  <1>1. Init => LinkedInv BY InitLemma, LinksInit DEF LinkedInv
  <1>2. LinkedInv /\ [Next]_vars => LinkedInv'
    <2> SUFFICES ASSUME LinkedInv, [Next]_vars PROVE LinkedInv' OBVIOUS
    <2>1. CASE Next BY <2>1, StepLemma, LinksStep DEF LinkedInv
    <2>2. CASE UNCHANGED vars
      <3>1. IInv' BY <2>2, StutterLemma DEF LinkedInv
      <3>2. LinksInv' /\ StatusInv'
        BY <2>2 DEF vars, claimVars, dutyVars, LinkedInv, LinksInv, StatusInv,
                    SingleRetry, Owed, Shown
      <3> QED BY <3>1, <3>2 DEF LinkedInv
    <2> QED BY <2>1, <2>2
  <1> QED BY <1>1, <1>2, PTL DEF Spec

-----------------------------------------------------------------------------
(* The theorems                                                            *)

\* The table, the pollers and the outstanding duties of the server have their
\* types in every reachable state: no statement produces a row without its
\* NOT NULL columns, and no duty names a row that does not exist.
THEOREM TypeCorrect == Spec => []TypeOK
  <1>1. IInv /\ [Next]_vars => IInv' BY StepLemma, StutterLemma
  <1>2. IInv => TypeOK BY DEF IInv
  <1> QED BY InitLemma, <1>1, <1>2, PTL DEF Spec

\* The claim protocol is safe for any fleet: no two active rows of one agent
\* share a target, no agent runs more than max_concurrent_tasks rows, and the
\* count a claim was made on is still true when it commits.
THEOREM ClaimSafe ==
  Spec => [](CountStaysTrue /\ CapacityRespected /\ ClaimSerialized)
  <1>1. IInv /\ [Next]_vars => IInv' BY StepLemma, StutterLemma
  <1>2. IInv => CountStaysTrue /\ CapacityRespected /\ ClaimSerialized
    BY DEF IInv, ClaimInv
  <1> QED BY InitLemma, <1>1, <1>2, PTL DEF Spec

\* An agent never has more active rows than max_concurrent_tasks.
THEOREM CapacitySafe == Spec => []CapacityRespected
  <1>1. CountStaysTrue /\ CapacityRespected /\ ClaimSerialized => CapacityRespected
    OBVIOUS
  <1> QED BY ClaimSafe, <1>1, PTL

\* What a claim transaction has counted holds until it commits.
THEOREM CountSafe == Spec => []CountStaysTrue
  <1>1. CountStaysTrue /\ CapacityRespected /\ ClaimSerialized => CountStaysTrue
    OBVIOUS
  <1> QED BY ClaimSafe, <1>1, PTL

\* No handler, sweep, retry or cancel ever touches a completed, failed or
\* cancelled row again, however late or often a daemon calls.
THEOREM FinalRowsStay == Spec => FinalIsFinal
  <1>1. IInv /\ [Next]_vars => IInv' BY StepLemma, StutterLemma
  <1>2. IInv /\ [Next]_vars =>
          [\A t \in TaskIds : tbl[t].status \in FinalStatuses => tbl'[t] = tbl[t]]_vars
    BY StepLemma, StutterLemma DEF Sound, Keeps
  <1> QED BY InitLemma, <1>1, <1>2, PTL DEF Spec, FinalIsFinal

\* Retries do not fork: a run that the sweeper, an orphan recovery and a late
\* FailTask all fail has one retry, with the next attempt number.
THEOREM RetrySafe == Spec => []SingleRetry
  <1>1. LinkedInv => SingleRetry BY DEF LinkedInv, LinksInv
  <1> QED BY LinkedSafe, <1>1, PTL

\* ReconcileAgentStatus: an agent at work is shown "working" once the calls that
\* changed its rows have returned, although each call changes rows and status in
\* statements of its own.
THEOREM BusyShown == Spec => []BusyIsShown
  <1>1. LinkedInv => BusyIsShown
    <2> SUFFICES ASSUME LinkedInv, NEW a \in Agents, Settled(a), ActiveOf(tbl, a) # {}
                 PROVE  agentStatus[a] = "working"
      BY DEF BusyIsShown
    <2>1. ~ Owed(a) BY DEF Settled, Owed
    <2> QED BY <2>1 DEF LinkedInv, StatusInv, Shown
  <1> QED BY LinkedSafe, <1>1, PTL

\* ... and one without active rows "idle", unless it answers as a fallback.
THEOREM IdleShown == Spec => []IdleIsShown
  <1>1. LinkedInv => IdleIsShown
    <2> SUFFICES ASSUME LinkedInv, NEW a \in Agents \ FallbackAgents, Settled(a),
                        ActiveOf(tbl, a) = {}
                 PROVE  agentStatus[a] = "idle"
      BY DEF IdleIsShown
    <2>1. ~ Owed(a) BY DEF Settled, Owed
    <2> QED BY <2>1 DEF LinkedInv, StatusInv, Shown
  <1> QED BY LinkedSafe, <1>1, PTL

\* ClaimAgentTask is the only way into work: a row becomes active from "queued",
\* while the claiming transaction holds the agent's row lock, and runs only after
\* it was dispatched.
THEOREM ClaimActivates == Spec => ActivatedByClaim
  <1>1. IInv /\ [Next]_vars => IInv' BY StepLemma, StutterLemma
  <1>2. ASSUME IInv, [Next]_vars, NEW t \in TaskIds,
               tbl'[t].status = "running", tbl[t].status # "running"
        PROVE  tbl[t].status \in {"dispatched", "waiting_local_directory"}
    BY <1>2, StepLemma, StutterLemma DEF Sound, Keeps
  <1>3. ASSUME IInv, [Next]_vars, NEW t \in TaskIds,
               tbl'[t].status \in ActiveStatuses, tbl[t].status \notin ActiveStatuses
        PROVE  /\ tbl[t].status = "queued"
               /\ \E r \in Runtimes : rowLock[tbl[t].agent] = r
    <2>1. Next BY <1>3 DEF vars
    <2>2. PICK r \in Runtimes : ClaimTake(r)
      BY <1>3, <2>1, StepLemma DEF Calm
    <2>3. PICK s \in TaskIds : /\ Claimable(tbl, poller[r].agent, s)
                               /\ tbl' = SetStatus(tbl, {s}, "dispatched", "live")
      BY <2>2 DEF ClaimTake
    <2>4. \A q \in TaskIds \ {s} : SetStatus(tbl, {s}, "dispatched", "live")[q] = tbl[q]
      BY <1>3, SetStatusAt DEF IInv
    <2>5. t = s BY <1>3, <2>3, <2>4
    <2>6. tbl[t].status = "queued" /\ tbl[t].agent = poller[r].agent
      BY <2>3, <2>5 DEF Claimable
    <2>7. rowLock[poller[r].agent] = r
      BY <1>3, <2>2 DEF ClaimTake, IInv, ClaimInv, CountStaysTrue
    <2> QED BY <2>6, <2>7
  <1>4. IInv /\ [Next]_vars =>
          [\A t \in TaskIds :
             /\ tbl'[t].status = "running" /\ tbl[t].status # "running"
                  => tbl[t].status \in {"dispatched", "waiting_local_directory"}
             /\ tbl'[t].status \in ActiveStatuses /\ tbl[t].status \notin ActiveStatuses
                  => /\ tbl[t].status = "queued"
                     /\ \E r \in Runtimes : rowLock[tbl[t].agent] = r]_vars
    BY <1>2, <1>3
  <1> QED BY InitLemma, <1>1, <1>4, PTL DEF Spec, ActivatedByClaim
-----------------------------------------------------------------------------
(* The refinement of AgentWork: calm steps are steps of Settle, row by row,*)
(* because rows keep their agent and target, never go back to wait and are *)
(* blank until they are inserted.  ClaimTake is Take: what it counted under*)
(* the row lock is still true, and what it chose is not excluded by any    *)
(* active row.                                                             *)

\* A row that was never inserted has no agent and no target.
Blank == \A t \in TaskIds :
  tbl[t].status = "absent" => tbl[t].agent = None /\ tbl[t].target = None

LEMMA BlankStays ==
  ASSUME Blank, Sound(tbl, tbl')
  PROVE  Blank'
  BY DEF Blank, Sound, Keeps

\* The states AgentWork tells apart.
LEMMA StatesOf ==
  /\ \A st \in ActiveStatuses : StateOf(st) = "taken"
  /\ \A st \in FinalStatuses : StateOf(st) = "finished"
  /\ \A st \in {"queued", "deferred"} : StateOf(st) = "waiting"
  /\ StateOf("absent") = "unknown"
  /\ \A st \in Statuses : \/ st = "absent"
                          \/ st \in {"queued", "deferred"}
                          \/ st \in ActiveStatuses
                          \/ st \in FinalStatuses
  BY DEF StateOf, Statuses, ActiveStatuses, FinalStatuses, CancellableStatuses

\* What AgentWork sees of a row that exists, and of one that does not.
LEMMA SeenRows ==
  ASSUME NEW T, Table(T), NEW t \in TaskIds
  PROVE  /\ T[t].status # "absent" => WorkOf(T[t]) \in Contract!Piece
         /\ T[t].status = "absent" /\ T[t].agent = None /\ T[t].target = None
              => WorkOf(T[t]) = Contract!Unknown
  <1>1. T[t] \in Row /\ Filled(T[t]) BY DEF Table
  <1>2. T[t].status \in Statuses BY <1>1 DEF Row
  <1> QED BY <1>1, <1>2, StatesOf DEF Filled, WorkOf, Contract!Piece, Contract!Unknown

LEMMA RowSettles ==
  ASSUME Table(tbl), Blank, Sound(tbl, tbl'), Calm(tbl, tbl'), NEW t \in TaskIds
  PROVE  \/ WorkOf(tbl'[t]) = WorkOf(tbl[t])
         \/ /\ WorkOf(tbl[t]) = Contract!Unknown
            /\ WorkOf(tbl'[t]) \in Contract!Piece
            /\ WorkOf(tbl'[t]).state = "waiting"
         \/ /\ WorkOf(tbl[t]).state \in {"waiting", "taken"}
            /\ WorkOf(tbl'[t]) = [WorkOf(tbl[t]) EXCEPT !.state = "finished"]
  <1>1. Table(tbl') /\ Keeps(tbl, tbl') BY DEF Sound
  <1>2. tbl[t].status \in Statuses /\ tbl'[t].status \in Statuses
    BY <1>1 DEF Table, Row
  <1>3. CASE tbl[t].status = "absent"
    <2>1. WorkOf(tbl[t]) = Contract!Unknown BY <1>3, SeenRows DEF Blank
    <2>2. CASE tbl'[t] = tbl[t] BY <2>2
    <2>3. CASE tbl'[t].status \in {"queued", "deferred"}
      <3>1. WorkOf(tbl'[t]).state = "waiting" BY <2>3, StatesOf DEF WorkOf
      <3>2. tbl'[t].status # "absent" BY <2>3
      <3> QED BY <1>1, <2>1, <3>1, <3>2, SeenRows
    <2> QED BY <1>1, <1>3, <2>2, <2>3 DEF Keeps
  <1>4. CASE tbl[t].status \in FinalStatuses
    BY <1>1, <1>4 DEF Keeps
  <1>5. CASE tbl[t].status \in {"queued", "deferred"} \cup ActiveStatuses
    <2>1. /\ tbl[t].status # "absent"
          /\ tbl[t].status \in {"queued", "deferred"} => tbl[t].status \notin ActiveStatuses
      BY <1>5 DEF ActiveStatuses
    <2>2. /\ tbl'[t].status # "absent"
          /\ tbl'[t].agent = tbl[t].agent /\ tbl'[t].target = tbl[t].target
      BY <1>1, <2>1 DEF Keeps
    <2>3. CASE tbl'[t].status \in FinalStatuses
      <3>1. StateOf(tbl'[t].status) = "finished" BY <2>3, StatesOf
      <3>2. StateOf(tbl[t].status) \in {"waiting", "taken"} BY <1>5, StatesOf
      <3> QED BY <2>2, <3>1, <3>2 DEF WorkOf
    <2>4. CASE tbl'[t].status \in ActiveStatuses
      <3>1. tbl[t].status \in ActiveStatuses BY <2>4 DEF Calm
      <3> QED BY <2>2, <2>4, <3>1, StatesOf DEF WorkOf
    <2>5. CASE tbl'[t].status \in {"queued", "deferred"}
      <3>1. tbl[t].status \in {"queued", "deferred"} BY <1>1, <1>5, <2>5 DEF Keeps
      <3> QED BY <2>2, <2>5, <3>1, StatesOf DEF WorkOf
    <2> QED BY <1>2, <2>2, <2>3, <2>4, <2>5, StatesOf
  <1> QED BY <1>2, <1>3, <1>4, <1>5, StatesOf

LEMMA CalmSettles ==
  ASSUME TypeOK, Blank, Sound(tbl, tbl'), Calm(tbl, tbl')
  PROVE  Contract!Settle
  <1>1. Table(tbl) /\ Table(tbl') /\ Blank' BY TypeHasTable, BlankStays DEF Sound
  <1>2. \A t \in TaskIds : WorkOf(tbl'[t]) \in Contract!Piece \cup {Contract!Unknown}
    BY <1>1, SeenRows DEF Blank
  <1>3. ASSUME NEW t \in TaskIds
        PROVE  \/ WorkOf(tbl'[t]) = WorkOf(tbl[t])
               \/ Contract!Admitted(t)
               \/ Contract!Finished(t)
    BY <1>1, RowSettles DEF Contract!Admitted, Contract!Finished
  <1> QED BY <1>2, <1>3 DEF Contract!Settle

LEMMA TakenByIsActive ==
  ASSUME TypeOK, NEW a \in Agents
  PROVE  Contract!TakenBy(a) = ActiveOf(tbl, a)
  <1>1. \A t \in TaskIds : tbl[t].status \in Statuses BY DEF TypeOK, Row
  <1>2. \A st \in Statuses : StateOf(st) = "taken" <=> st \in ActiveStatuses
    BY StatesOf
  <1> QED BY <1>1, <1>2 DEF Contract!TakenBy, WorkOf, ActiveOf

\* The contract counts as the table does.
LEMMA SameCount == \A a : Contract!Cardinality(ActiveOf(tbl, a)) = Cardinality(ActiveOf(tbl, a))
  BY DEF Contract!Cardinality, Cardinality

LEMMA ClaimTakes ==
  ASSUME TypeOK, ClaimInv, NEW r \in Runtimes, ClaimTake(r)
  PROVE  \E t \in TaskIds : Contract!Take(t)
  <1> DEFINE a == poller[r].agent
  <1>1. PICK t \in TaskIds :
          Claimable(tbl, a, t) /\ tbl' = SetStatus(tbl, {t}, "dispatched", "live")
    BY DEF ClaimTake
  <1>2. a \in Agents /\ Cardinality(ActiveOf(tbl, a)) < MaxConcurrent
    BY DEF ClaimTake, TypeOK, ClaimInv, CountStaysTrue
  <1> HIDE DEF a
  <1>3. tbl[t].status = "queued" /\ tbl[t].agent = a BY <1>1 DEF Claimable
  <1>4. Contract!TakenBy(a) = ActiveOf(tbl, a) BY <1>2, TakenByIsActive
  <1>5. \A s \in ActiveOf(tbl, a) : ~ Contract!Exclude(s, t)
    BY <1>1 DEF Claimable, SameSlot, Contract!Exclude, WorkOf, ActiveOf
  <1>6. /\ tbl'[t].status = "dispatched"
        /\ tbl'[t].agent = tbl[t].agent /\ tbl'[t].target = tbl[t].target
        /\ \A s \in TaskIds \ {t} : tbl'[s] = tbl[s]
    BY <1>1 DEF SetStatus, TypeOK, Row
  <1>7. /\ WorkOf(tbl'[t]) = [WorkOf(tbl[t]) EXCEPT !.state = "taken"]
        /\ WorkOf(tbl[t]).state = "waiting" /\ WorkOf(tbl[t]).owner = a
    BY <1>3, <1>6, StatesOf DEF WorkOf, ActiveStatuses
  <1> DEFINE seen == [s \in TaskIds |-> WorkOf(tbl[s])]
             seenNext == [s \in TaskIds |-> WorkOf(tbl'[s])]
  <1>8. seenNext = [seen EXCEPT ![t] = [seen[t] EXCEPT !.state = "taken"]]
    BY <1>6, <1>7
  <1>9. seen[t].state = "waiting" /\ seen[t].owner = a BY <1>7
  <1> HIDE DEF seen, seenNext
  <1>10. Cardinality(Contract!TakenBy(a)) < MaxConcurrent BY <1>2, <1>4
  <1>11. Contract!Cardinality(Contract!TakenBy(a)) < MaxConcurrent
    BY <1>4, <1>10, SameCount
  <1>12. \A s \in Contract!TakenBy(a) : ~ Contract!Exclude(s, t) BY <1>4, <1>5
  <1>13. Contract!Take(t) BY <1>8, <1>9, <1>11, <1>12 DEF Contract!Take, seen, seenNext
  <1> QED BY <1>13

-----------------------------------------------------------------------------
\* The task table, read through WorkOf, is an AgentWork: every step of the
\* server is a step of the contract or none at all.
THEOREM ImplementsAgentWork == Spec => KeepsContract
  <1>1. Init => Contract!Init /\ Blank
    BY StatesOf DEF Init, Absent, Blank, WorkOf, Contract!Init, Contract!Unknown
  <1>2. ASSUME IInv, Blank, [Next]_vars
        PROVE  /\ IInv' /\ Blank'
               /\ [Contract!Next]_([t \in TaskIds |-> WorkOf(tbl[t])])
    <2>1. IInv' /\ Sound(tbl, tbl') BY <1>2, StepLemma, StutterLemma
    <2>2. CASE UNCHANGED vars BY <1>2, <2>1, <2>2, BlankStays DEF vars
    <2>3. CASE Calm(tbl, tbl')
      BY <1>2, <2>1, <2>3, BlankStays, CalmSettles DEF IInv, Contract!Next
    <2>4. CASE \E r \in Runtimes : ClaimTake(r)
      BY <1>2, <2>1, <2>4, BlankStays, ClaimTakes DEF IInv, Contract!Next
    <2> QED BY <1>2, <2>2, <2>3, <2>4, StepLemma
  <1> QED BY InitLemma, <1>1, <1>2, PTL DEF Spec, KeepsContract, Contract!Spec
=============================================================================
