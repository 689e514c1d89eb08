------------------------- MODULE FailedTasksProofs -------------------------
(***************************************************************************)
(* However many batches and daemon reports fail rows beside each other, a  *)
(* failed run gets at most one retry, none that is due is forgotten unless *)
(* an error took it, and a batch none of whose statements failed leaves no *)
(* issue in progress with nobody working on it: for every set of agents,   *)
(* issues and handlers, and every set of row identities.                   *)
(*                                                                         *)
(* The argument for the retries: a failed row waits in exactly one place,  *)
(* a batch or a report, from the statement that failed it to the one visit *)
(* that retries it, and has no child before that.  Every action moves the  *)
(* rows and the waiting set in one of three ways (Quiet, Fails, Visits),   *)
(* and each of the three keeps the invariant of the rows.                  *)
(*                                                                         *)
(* The argument for the issues: the last row to leave an issue's active    *)
(* set either was not swept, or some batch has yet to take its decision on *)
(* that issue, because a batch starts without memory of any issue and a    *)
(* retry it makes puts an active row back.                                 *)
(***************************************************************************)
EXTENDS FailedTasks, TLAPS

-----------------------------------------------------------------------------
(* The invariants                                                          *)

\* Rows that failed and whose retry is still to be decided.
Waiting == report \cup UNION {job[h].tasks : h \in Handlers}

FilledRow(row) ==
  row.status # "absent" => row.agent \in Agents /\ row.target \in Issues

\* A row waits in one place only, and a batch in the middle of a visit knows
\* which row it visits.
Places ==
  /\ \A h \in Handlers :
       /\ job[h].pc = "idle" => job[h].tasks = {}
       /\ job[h].tasks \cap report = {}
       /\ \A g \in Handlers \ {h} : job[h].tasks \cap job[g].tasks = {}
       /\ job[h].pc \in {"issue", "active", "update"} =>
            job[h].task \in TaskIds /\ tbl[job[h].task].status = "failed"

\* A retry was made from a failed row, and that row waits no longer.
Children ==
  \A s \in TaskIds :
    tbl[s].parent # None =>
      /\ tbl[s].status # "absent"
      /\ tbl[tbl[s].parent].status = "failed"
      /\ tbl[s].parent \notin Waiting

\* A visited row that may be retried, and not for an error, has company that
\* exists.
Replaced(p) ==
  \E t \in TaskIds \ {p} : /\ tbl[t].status # "absent"
                           /\ tbl[t].agent = tbl[p].agent
                           /\ tbl[t].target = tbl[p].target

RowInv ==
  /\ tbl \in [TaskIds -> Row]
  /\ \A t \in TaskIds : FilledRow(tbl[t])
  /\ \A t \in Waiting : t \in TaskIds /\ tbl[t].status = "failed"
  /\ Children
  /\ RetriedOnce
  /\ \A p \in TaskIds \ stranded :
       Retryable(tbl, p) /\ p \notin Waiting => Replaced(p)

RetryInv == TypeOK /\ Places /\ RowInv

\* Batch h has yet to decide on issue i: it will visit a row of i, or is
\* visiting one, and remembers no decision on i and no retry.
Decides(h, i) ==
  LET j == job[h] IN
  \/ j.pc # "idle" /\ i \notin j.seen \cup j.retried
     /\ \E t \in j.tasks : tbl[t].target = i
  \/ j.pc = "issue" /\ i \notin j.seen \cup j.retried /\ tbl[j.task].target = i
  \/ j.pc \in {"active", "update"} /\ tbl[j.task].target = i

Watched ==
  \A i \in Issues :
    /\ ended[i] = "swept" /\ issue[i] = "in_progress"
    /\ ~ HasActiveTaskForIssue(tbl, i)
    => \E h \in Handlers : Decides(h, i)

IInv == RetryInv /\ Watched

-----------------------------------------------------------------------------
(* What the statements do to rows                                          *)

Rows(T) == T \in [TaskIds -> Row] /\ \A t \in TaskIds : FilledRow(T[t])

\* No row is deleted, re-assigned or re-parented, and a failed row stays as it is.
Keeps(T, U) ==
  \A t \in TaskIds :
    /\ T[t].status # "absent" =>
         /\ U[t].status # "absent"
         /\ U[t].agent = T[t].agent /\ U[t].target = T[t].target
         /\ U[t].parent = T[t].parent
    /\ T[t].status = "failed" => U[t] = T[t]

\* The rows of S, and no others, change: to the given status, on their target.
Become(T, U, S, st) ==
  /\ \A t \in S : U[t].status = st /\ U[t].target = T[t].target
  /\ \A t \in TaskIds \ S : U[t] = T[t]

LEMMA NewRowIsRow ==
  ASSUME NEW a \in Agents, NEW i \in Issues, NEW r \in Runtimes \cup {None}
  PROVE  /\ NewRow(a, i, r) \in Row /\ FilledRow(NewRow(a, i, r))
         /\ NewRow(a, i, r).status = "queued" /\ NewRow(a, i, r).parent = None
  <1>1. 1 \in 0 .. MaxAttempts /\ i \in Targets BY TableAssumption DEF Targets
  <1>2. "queued" \in Statuses /\ "null" \in Leases
    BY DEF Statuses, CancellableStatuses, Leases
  <1> QED BY <1>1, <1>2 DEF NewRow, Absent, Row, FilledRow

LEMMA RetryRowIsRow ==
  ASSUME NEW T, Rows(T), NEW p \in TaskIds, Retryable(T, p),
         NEW r \in Runtimes \cup {T[p].rt}
  PROVE  LET row == RetryRow(T, p, r)
         IN /\ row \in Row /\ FilledRow(row)
            /\ row.status = "queued" /\ row.parent = p
            /\ row.agent = T[p].agent /\ row.target = T[p].target
  <1>1. /\ T[p] \in Row /\ T[p].agent \in Agents /\ T[p].target \in Issues
    BY DEF Rows, FilledRow, Retryable
  <1>2. T[p].attempt + 1 \in 0 .. MaxAttempts /\ r \in Runtimes \cup {None}
    BY <1>1, TableAssumption DEF Row, Retryable
  <1> DEFINE new == NewRow(T[p].agent, T[p].target, r)
  <1>3. new \in Row /\ FilledRow(new) /\ new.status = "queued"
    BY <1>1, <1>2, NewRowIsRow
  <1>4. new.agent = T[p].agent /\ new.target = T[p].target
    BY DEF NewRow, Absent
  <1>5. RetryRow(T, p, r) =
          [new EXCEPT !.attempt = T[p].attempt + 1, !.parent = p]
    BY DEF RetryRow
  <1> HIDE DEF new
  <1> QED BY <1>2, <1>3, <1>4, <1>5 DEF Row, FilledRow

LEMMA InsertKeeps ==
  ASSUME NEW T, Rows(T), NEW t \in TaskIds, T[t].status = "absent",
         NEW row \in Row, FilledRow(row), row.status = "queued"
  PROVE  /\ Rows(Insert(T, t, row)) /\ Keeps(T, Insert(T, t, row))
         /\ Insert(T, t, row)[t] = row
         /\ \A s \in TaskIds \ {t} : Insert(T, t, row)[s] = T[s]
  BY DEF Rows, Insert, Keeps

LEMMA SetStatusKeeps ==
  ASSUME NEW T, Rows(T), NEW t \in TaskIds,
         T[t].status \notin {"absent", "failed"},
         NEW st \in Statuses, st \notin {"absent", "failed"},
         NEW U, U = SetStatus(T, {t}, st, "null")
  PROVE  Rows(U) /\ Keeps(T, U) /\ Become(T, U, {t}, st)
  <1> DEFINE row == [T[t] EXCEPT !.status = st, !.lease = "null"]
  <1>1. T[t] \in Row /\ "null" \in Leases BY DEF Rows, Leases
  <1>2. /\ row \in Row /\ FilledRow(row) /\ row.status = st
        /\ row.agent = T[t].agent /\ row.target = T[t].target
        /\ row.parent = T[t].parent
    BY <1>1 DEF Row, FilledRow, Rows
  <1>3. /\ U = [s \in TaskIds |-> IF s = t THEN row ELSE T[s]]
    BY DEF SetStatus
  <1> HIDE DEF row
  <1>4. Rows(U) /\ Keeps(T, U) BY <1>2, <1>3 DEF Rows, Keeps
  <1> QED BY <1>2, <1>3, <1>4 DEF Become

LEMMA FailKeeps ==
  ASSUME NEW T, Rows(T), NEW S, S \subseteq TaskIds,
         \A t \in S : T[t].status \in CancellableStatuses,
         NEW reason \in FailureReasons, NEW U, U = Fail(T, S, reason)
  PROVE  Rows(U) /\ Keeps(T, U) /\ Become(T, U, S, "failed")
  <1> DEFINE row(t) == [T[t] EXCEPT !.status = "failed", !.lease = "null",
                                    !.reason = reason]
  <1>1. "failed" \in Statuses /\ "null" \in Leases
    BY DEF Statuses, FinalStatuses, Leases
  <1>2. \A t \in S : T[t].status \notin {"absent", "failed"}
    BY DEF CancellableStatuses, ActiveStatuses
  <1>3. \A t \in S : /\ row(t) \in Row /\ FilledRow(row(t))
                     /\ row(t).status = "failed"
                     /\ row(t).agent = T[t].agent /\ row(t).target = T[t].target
                     /\ row(t).parent = T[t].parent
    BY <1>1, <1>2 DEF Row, FilledRow, Rows
  <1>4. U = [t \in TaskIds |-> IF t \in S THEN row(t) ELSE T[t]] BY DEF Fail
  <1> HIDE DEF row
  <1>5. Rows(U) /\ Keeps(T, U) BY <1>2, <1>3, <1>4 DEF Rows, Keeps
  <1> QED BY <1>3, <1>4, <1>5 DEF Become

-----------------------------------------------------------------------------
(* The two ways in which rows and waiting rows move                        *)

\* The rows of S fail and start to wait; new rows are nobody's retry.
Moves(S) ==
  /\ Rows(tbl') /\ Keeps(tbl, tbl') /\ UNCHANGED stranded
  /\ Waiting' = Waiting \cup S
  /\ \A t \in S : /\ t \in TaskIds /\ tbl'[t].status = "failed"
                  /\ tbl[t].status \notin {"absent", "failed"}
  /\ \A t \in TaskIds :
       /\ tbl'[t].status = "failed" => tbl[t].status = "failed" \/ t \in S
       /\ tbl[t].status = "absent" => tbl'[t].parent = None

\* A waiting row is visited.
Visits(p) ==
  /\ p \in Waiting
  /\ Waiting' = Waiting \ {p}
  /\ \E made \in BOOLEAN : MaybeRetryFailedTask(p, made)

LEMMA RowInvHasRows == RowInv => Rows(tbl)
  BY DEF RowInv, Rows

LEMMA KeepsReplaced ==
  ASSUME Keeps(tbl, tbl'), NEW p \in TaskIds, tbl[p].status # "absent", Replaced(p)
  PROVE  Replaced(p)'
  BY DEF Replaced, Keeps

LEMMA MovesStep ==
  ASSUME RowInv, NEW S, Moves(S)
  PROVE  RowInv'
  <1> USE DEF Moves
  <1>1. \A t \in Waiting' : t \in TaskIds /\ tbl'[t].status = "failed"
    BY DEF RowInv, Keeps
  <1>2. \A s \in TaskIds : tbl'[s].parent # None =>
          tbl[s].status # "absent" /\ tbl'[s].parent = tbl[s].parent
    BY DEF Keeps
  <1>3. Children'
    <2> SUFFICES ASSUME NEW s \in TaskIds, tbl'[s].parent # None
                 PROVE  /\ tbl'[s].status # "absent"
                        /\ tbl'[tbl'[s].parent].status = "failed"
                        /\ tbl'[s].parent \notin Waiting'
      BY DEF Children
    <2>1. /\ tbl'[s].parent = tbl[s].parent /\ tbl[s].parent \in TaskIds
          /\ tbl[s].status # "absent"
          /\ tbl[tbl[s].parent].status = "failed" /\ tbl[s].parent \notin Waiting
      BY <1>2 DEF RowInv, Children, Row
    <2> QED BY <2>1 DEF Keeps
  <1>4. RetriedOnce' BY <1>2 DEF RowInv, RetriedOnce
  <1>5. ASSUME NEW p \in TaskIds \ stranded', Retryable(tbl', p), p \notin Waiting'
        PROVE  Replaced(p)'
    <2>1. tbl[p].status = "failed" /\ tbl'[p] = tbl[p] /\ p \notin Waiting
      BY <1>5 DEF Retryable, Keeps
    <2>2. Retryable(tbl, p) BY <1>5, <2>1 DEF Retryable
    <2> QED BY <2>1, <2>2, KeepsReplaced DEF RowInv
  <1> QED BY <1>1, <1>3, <1>4, <1>5 DEF RowInv, Rows

LEMMA VisitsStep ==
  ASSUME RowInv, NEW p, Visits(p)
  PROVE  RowInv' /\ Rows(tbl') /\ Keeps(tbl, tbl')
  <1>1. p \in TaskIds /\ tbl[p].status = "failed" BY DEF Visits, RowInv
  <1>4. stranded \subseteq stranded' BY DEF Visits, MaybeRetryFailedTask
  <1>2. CASE tbl' = tbl
    <2>1. Retryable(tbl, p) /\ p \notin stranded' => Replaced(p)
      <3> SUFFICES ASSUME Retryable(tbl, p), p \notin stranded' PROVE Replaced(p) OBVIOUS
      <3>1. CASE \E t \in TaskIds, r \in Runtimes \cup {tbl[p].rt} :
                   /\ tbl[t].status = "absent"
                   /\ tbl' = Insert(tbl, t, RetryRow(tbl, p, r))
        <4>1. PICK t \in TaskIds, r \in Runtimes \cup {tbl[p].rt} :
                /\ tbl[t].status = "absent"
                /\ tbl' = Insert(tbl, t, RetryRow(tbl, p, r))
          BY <3>1
        <4>2. /\ RetryRow(tbl, p, r) \in Row /\ FilledRow(RetryRow(tbl, p, r))
              /\ RetryRow(tbl, p, r).status = "queued"
          BY <1>1, RowInvHasRows, RetryRowIsRow
        <4>3. tbl'[t] = RetryRow(tbl, p, r)
          BY <4>1, <4>2, RowInvHasRows, InsertKeeps
        <4> QED BY <1>2, <4>1, <4>2, <4>3
      <3>2. CASE Conflict(p)
        BY <1>1, <3>2 DEF Conflict, Replaced, PendingStatuses
      <3> QED BY <3>1, <3>2 DEF Visits, MaybeRetryFailedTask
    <2>2. Replaced(p)' <=> Replaced(p) BY <1>2 DEF Replaced
    <2>3. \A q \in TaskIds : Replaced(q)' <=> Replaced(q) BY <1>2 DEF Replaced
    <2>4. Children' BY <1>2 DEF Children, RowInv, Visits
    <2>5. RetriedOnce' BY <1>2 DEF RetriedOnce, RowInv
    <2>6. \A q \in TaskIds \ stranded' :
            Retryable(tbl', q) /\ q \notin Waiting' => Replaced(q)'
      BY <1>2, <1>4, <2>1, <2>3 DEF RowInv, Visits
    <2>7. Rows(tbl') /\ Keeps(tbl, tbl') BY <1>2, RowInvHasRows DEF Keeps
    <2> QED BY <1>2, <2>4, <2>5, <2>6, <2>7 DEF RowInv, Visits
  <1>3. CASE tbl' # tbl
    <2>1. PICK t \in TaskIds, r \in Runtimes \cup {tbl[p].rt} :
            /\ Retryable(tbl, p) /\ tbl[t].status = "absent"
            /\ tbl' = Insert(tbl, t, RetryRow(tbl, p, r))
      BY <1>3 DEF Visits, MaybeRetryFailedTask
    <2>2. /\ Rows(tbl') /\ Keeps(tbl, tbl')
          /\ tbl'[t].status = "queued" /\ tbl'[t].parent = p
          /\ tbl'[t].agent = tbl[p].agent /\ tbl'[t].target = tbl[p].target
          /\ \A s \in TaskIds \ {t} : tbl'[s] = tbl[s]
      BY <1>1, <2>1, RowInvHasRows, RetryRowIsRow, InsertKeeps
    <2>3. t # p BY <1>1, <2>1
    <2>4. \A q \in Waiting' : q \in TaskIds /\ tbl'[q].status = "failed"
      BY <2>2 DEF Visits, RowInv, Keeps
    \* p waited, so nobody was its retry
    <2>5. \A s \in TaskIds : tbl[s].parent # p
      BY <1>1, TableAssumption DEF RowInv, Children, Visits
    <2>6. Children'
      <3> SUFFICES ASSUME NEW s \in TaskIds, tbl'[s].parent # None
                   PROVE  /\ tbl'[s].status # "absent"
                          /\ tbl'[tbl'[s].parent].status = "failed"
                          /\ tbl'[s].parent \notin Waiting'
        BY DEF Children
      <3>1. CASE s = t
        <4>1. tbl'[p].status = "failed" BY <1>1, <2>2, <2>3
        <4> QED BY <2>2, <3>1, <4>1 DEF Visits
      <3>2. CASE s # t
        <4>1. /\ tbl'[s] = tbl[s] /\ tbl[s].parent \in TaskIds
              /\ tbl[s].status # "absent"
              /\ tbl[tbl[s].parent].status = "failed" /\ tbl[s].parent \notin Waiting
          BY <2>2, <3>2 DEF RowInv, Children, Row
        <4> QED BY <2>2, <4>1 DEF Keeps, Visits
      <3> QED BY <3>1, <3>2
    <2>7. RetriedOnce'
      BY <2>2, <2>5 DEF RowInv, RetriedOnce
    <2>8. ASSUME NEW q \in TaskIds \ stranded', Retryable(tbl', q), q \notin Waiting'
          PROVE  Replaced(q)'
      <3>1. q # t /\ tbl'[q] = tbl[q] BY <2>2, <2>8 DEF Retryable
      <3>2. CASE q = p BY <2>2, <2>3, <3>1, <3>2 DEF Replaced
      <3>3. CASE q # p
        <4>1. Retryable(tbl, q) /\ q \notin Waiting /\ q \notin stranded
          BY <1>4, <2>8, <3>1, <3>3 DEF Retryable, Visits
        <4> QED BY <2>2, <4>1, KeepsReplaced DEF RowInv, Retryable
      <3> QED BY <3>2, <3>3
    <2> QED BY <2>2, <2>4, <2>6, <2>7, <2>8 DEF RowInv, Rows
  <1> QED BY <1>2, <1>3
-----------------------------------------------------------------------------
(* Every action moves rows in one of the two ways                          *)

\* The work done beside the handlers.
LEMMA QuietSteps ==
  ASSUME RetryInv,
         \/ \E a \in Agents, i \in Issues, r \in Runtimes, t \in TaskIds :
              Enqueue(a, i, r, t)
         \/ \E t \in TaskIds : \/ ClaimAndStart(t) \/ CompleteTask(t) \/ CancelTask(t)
                               \/ \E s \in IssueStatuses : AgentSetsStatus(t, s)
  PROVE  TypeOK' /\ Places' /\ Moves({})
  <1>0. Rows(tbl) BY RowInvHasRows DEF RetryInv
  <1>1. ASSUME UNCHANGED <<job, report, stranded>>, Rows(tbl'), Keeps(tbl, tbl'),
               issue' \in [Issues -> IssueStatuses],
               ended' \in [Issues -> Endings],
               \A t \in TaskIds :
                 /\ tbl'[t].status = "failed" => tbl[t].status = "failed"
                 /\ tbl[t].status = "absent" => tbl'[t].parent = None
        PROVE  TypeOK' /\ Places' /\ Moves({})
    <2>1. TypeOK' BY <1>1 DEF RetryInv, TypeOK, Rows
    <2>2. Places' BY <1>1 DEF RetryInv, Places, Keeps
    <2>3. Waiting' = Waiting BY <1>1 DEF Waiting
    <2> QED BY <1>1, <2>1, <2>2, <2>3 DEF Moves
  <1>2. \A t \in TaskIds : tbl[t].status = "absent" => tbl[t].parent = None
    BY DEF RetryInv, RowInv, Children
  <1>3. ASSUME NEW S
        PROVE  Ends(S, "otherwise") =>
                 ended' \in [Issues -> Endings]
    BY DEF Ends, Endings, RetryInv, TypeOK
  <1>4. ASSUME NEW a \in Agents, NEW i \in Issues, NEW r \in Runtimes,
               NEW t \in TaskIds, Enqueue(a, i, r, t)
        PROVE  TypeOK' /\ Places' /\ Moves({})
    <2>1. /\ NewRow(a, i, r) \in Row /\ FilledRow(NewRow(a, i, r))
          /\ NewRow(a, i, r).status = "queued" /\ NewRow(a, i, r).parent = None
      BY NewRowIsRow
    <2>2. /\ Rows(tbl') /\ Keeps(tbl, tbl') /\ tbl'[t] = NewRow(a, i, r)
          /\ \A s \in TaskIds \ {t} : tbl'[s] = tbl[s]
      BY <1>0, <1>4, <2>1, InsertKeeps DEF Enqueue
    <2> QED BY <1>1, <1>2, <1>4, <2>1, <2>2 DEF Enqueue, RetryInv, TypeOK
  <1>5. ASSUME NEW t \in TaskIds, NEW st \in {"running", "completed", "cancelled"},
               tbl[t].status \in CancellableStatuses,
               tbl' = SetStatus(tbl, {t}, st, "null"),
               UNCHANGED <<issue, job, report, stranded>>,
               ended' \in [Issues -> Endings]
        PROVE  TypeOK' /\ Places' /\ Moves({})
    <2>1. tbl[t].status \notin {"absent", "failed"} /\ st \in Statuses \ {"absent", "failed"}
      BY <1>5 DEF CancellableStatuses, ActiveStatuses, Statuses, FinalStatuses
    <2>2. /\ Rows(tbl') /\ Keeps(tbl, tbl') /\ tbl'[t].status = st
          /\ \A s \in TaskIds \ {t} : tbl'[s] = tbl[s]
      <3>1. tbl[t].status \notin {"absent", "failed"} BY <2>1
      <3>2. st \in Statuses /\ st \notin {"absent", "failed"} BY <2>1
      <3>3. tbl' = SetStatus(tbl, {t}, st, "null") BY <1>5
      <3>4. Rows(tbl') /\ Keeps(tbl, tbl') /\ Become(tbl, tbl', {t}, st)
        BY <1>0, <3>1, <3>2, <3>3, SetStatusKeeps
      <3> QED BY <3>4 DEF Become
    <2> QED BY <1>1, <1>2, <1>5, <2>1, <2>2 DEF RetryInv, TypeOK
  <1>6. ASSUME NEW t \in TaskIds, ClaimAndStart(t)
        PROVE  TypeOK' /\ Places' /\ Moves({})
    BY <1>5, <1>6 DEF ClaimAndStart, Claimable, CancellableStatuses, RetryInv, TypeOK
  <1>7. ASSUME NEW t \in TaskIds, CompleteTask(t)
        PROVE  TypeOK' /\ Places' /\ Moves({})
    BY <1>3, <1>5, <1>7 DEF CompleteTask, CancellableStatuses, ActiveStatuses
  <1>8. ASSUME NEW t \in TaskIds, CancelTask(t)
        PROVE  TypeOK' /\ Places' /\ Moves({})
    BY <1>3, <1>5, <1>8 DEF CancelTask, Cancel
  <1>9. ASSUME NEW t \in TaskIds, NEW s \in IssueStatuses, AgentSetsStatus(t, s)
        PROVE  TypeOK' /\ Places' /\ Moves({})
    <2>1. Keeps(tbl, tbl) BY DEF Keeps
    <2> QED BY <1>0, <1>1, <1>2, <1>9, <2>1 DEF AgentSetsStatus, RetryInv, TypeOK
  <1> QED BY <1>4, <1>6, <1>7, <1>8, <1>9

\* Rows that fail: each of them starts to wait in one place.
LEMMA FailTaskStep ==
  ASSUME RetryInv, NEW t \in TaskIds, NEW reason \in FailureReasons, FailTask(t, reason)
  PROVE  TypeOK' /\ Places' /\ Moves({t})
  <1>0. Rows(tbl) /\ Places BY RowInvHasRows DEF RetryInv
  <1>1. tbl[t].status \in CancellableStatuses /\ tbl[t].status \notin {"absent", "failed"}
    BY DEF FailTask, CancellableStatuses, ActiveStatuses
  <1>2. /\ Rows(tbl') /\ Keeps(tbl, tbl') /\ tbl'[t].status = "failed"
        /\ \A s \in TaskIds \ {t} : tbl'[s] = tbl[s]
    <2>1. {t} \in SUBSET TaskIds /\ \A s \in {t} : tbl[s].status \in CancellableStatuses
      BY <1>1
    <2>2. tbl' = Fail(tbl, {t}, reason) BY DEF FailTask
    <2>3. Rows(tbl') /\ Keeps(tbl, tbl') /\ Become(tbl, tbl', {t}, "failed")
      BY <1>0, <2>1, <2>2, FailKeeps
    <2> QED BY <2>3 DEF Become
  <1>3. t \notin Waiting BY <1>1 DEF RetryInv, RowInv
  <1>4. Waiting' = Waiting \cup {t} BY DEF FailTask, Waiting
  <1>5. TypeOK' BY <1>2 DEF FailTask, Ends, Endings, RetryInv, TypeOK, Rows
  <1>6. Places'
    <2>1. \A h \in Handlers : t \notin job[h].tasks BY <1>3 DEF Waiting
    <2>2. job' = job /\ report' = report \cup {t} BY DEF FailTask
    <2> QED BY <1>0, <1>2, <2>1, <2>2 DEF Places, Keeps
  <1>7. \A s \in TaskIds : tbl[s].status = "absent" => tbl'[s].parent = None
    BY <1>1, <1>2 DEF RetryInv, RowInv, Children
  <1> QED BY <1>1, <1>2, <1>4, <1>5, <1>6, <1>7 DEF Moves, FailTask

LEMMA NoJobIsJob == NoJob \in Job /\ NoJob.tasks = {} /\ NoJob.pc = "idle"
                    /\ NoJob.seen = {} /\ NoJob.retried = {}
  BY DEF NoJob, Job

LEMMA SweepStep ==
  ASSUME RetryInv, NEW h \in Handlers, NEW S \in SUBSET TaskIds,
         NEW reason \in FailureReasons, Sweep(h, S, reason)
  PROVE  TypeOK' /\ Places' /\ Moves(S)
  <1>0. Rows(tbl) /\ Places BY RowInvHasRows DEF RetryInv
  <1>1. \A t \in S : /\ tbl[t].status \in CancellableStatuses
                     /\ tbl[t].status \notin {"absent", "failed"}
    BY DEF Sweep, CancellableStatuses, ActiveStatuses
  <1>2. /\ Rows(tbl') /\ Keeps(tbl, tbl') /\ \A t \in S : tbl'[t].status = "failed"
        /\ \A s \in TaskIds \ S : tbl'[s] = tbl[s]
    <2>1. \A t \in S : tbl[t].status \in CancellableStatuses BY <1>1
    <2>2. tbl' = Fail(tbl, S, reason) BY DEF Sweep
    <2>3. Rows(tbl') /\ Keeps(tbl, tbl') /\ Become(tbl, tbl', S, "failed")
      BY <1>0, <2>1, <2>2, FailKeeps
    <2> QED BY <2>3 DEF Become
  <1>3. S \cap Waiting = {} BY <1>1 DEF RetryInv, RowInv
  <1> DEFINE new == [NoJob EXCEPT !.pc = "retry", !.tasks = S]
  <1>4. new \in Job /\ new.tasks = S /\ new.pc = "retry" BY NoJobIsJob DEF Job
  <1>5. job' = [job EXCEPT ![h] = new] /\ job[h].tasks = {} /\ report' = report
    BY <1>0 DEF Sweep, Places
  <1> HIDE DEF new
  <1>6. /\ job'[h] = new /\ \A g \in Handlers \ {h} : job'[g] = job[g]
        /\ job' \in [Handlers -> Job]
    BY <1>4, <1>5 DEF RetryInv, TypeOK
  <1>7. Waiting' = Waiting \cup S
    BY <1>4, <1>5, <1>6 DEF Waiting
  <1>8. TypeOK' BY <1>2, <1>6 DEF Sweep, Ends, Endings, RetryInv, TypeOK, Rows
  <1>9. Places'
    <2>1. \A g \in Handlers : job[g].tasks \cap S = {} /\ report \cap S = {}
      BY <1>3 DEF Waiting
    <2> QED BY <1>0, <1>2, <1>4, <1>5, <1>6, <2>1 DEF Places, Keeps
  <1>10. \A s \in TaskIds : tbl[s].status = "absent" => tbl'[s].parent = None
    BY <1>1, <1>2 DEF RetryInv, RowInv, Children
  <1> QED BY <1>1, <1>2, <1>7, <1>8, <1>9, <1>10 DEF Moves, Sweep

\* The two visits.
LEMMA ReportRetryStep ==
  ASSUME RetryInv, NEW p \in TaskIds, ReportRetry(p)
  PROVE  TypeOK' /\ Places' /\ Visits(p)
  <1>1. p \in Waiting /\ Waiting' = Waiting \ {p}
    BY DEF ReportRetry, RetryInv, Places, Waiting
  <1>2. Visits(p) BY <1>1 DEF ReportRetry, Visits
  <1>3. Rows(tbl') /\ Keeps(tbl, tbl') BY <1>2, VisitsStep DEF RetryInv
  <1>4. TypeOK' BY <1>3 DEF ReportRetry, MaybeRetryFailedTask, RetryInv, TypeOK, Rows
  <1>5. Places' BY <1>3 DEF ReportRetry, RetryInv, Places, Keeps
  <1> QED BY <1>2, <1>4, <1>5

LEMMA BatchRetryStep ==
  ASSUME RetryInv, NEW h \in Handlers, NEW p \in TaskIds, NEW made \in BOOLEAN,
         BatchRetry(h, p, made)
  PROVE  TypeOK' /\ Places' /\ Visits(p)
  <1>0. Places /\ tbl[p].status = "failed" /\ p \in Waiting
    BY DEF BatchRetry, RetryInv, RowInv, Waiting
  <1> DEFINE i == tbl[p].target
             next == [job[h] EXCEPT !.pc = "issue", !.task = p,
                        !.tasks = job[h].tasks \ {p},
                        !.retried = IF made THEN job[h].retried \cup {i}
                                            ELSE job[h].retried]
  <1>1. i \in Issues BY <1>0 DEF RetryInv, RowInv, FilledRow
  <1>2. /\ next \in Job /\ next.pc = "issue" /\ next.task = p
        /\ next.tasks = job[h].tasks \ {p}
    BY <1>1 DEF RetryInv, TypeOK, Job
  <1>3. job' = [job EXCEPT ![h] = next] /\ report' = report /\ p \in job[h].tasks
    BY DEF BatchRetry
  <1> HIDE DEF next
  <1>4. /\ job'[h] = next /\ \A g \in Handlers \ {h} : job'[g] = job[g]
        /\ job' \in [Handlers -> Job]
    BY <1>2, <1>3 DEF RetryInv, TypeOK
  <1>5. Waiting' = Waiting \ {p}
    <2>1. p \notin report /\ \A g \in Handlers \ {h} : p \notin job[g].tasks
      BY <1>0, <1>3 DEF Places
    <2> QED BY <1>2, <1>3, <1>4, <2>1 DEF Waiting
  <1>6. Visits(p) BY <1>0, <1>5 DEF BatchRetry, Visits
  <1>7. Rows(tbl') /\ Keeps(tbl, tbl') BY <1>6, VisitsStep DEF RetryInv
  <1>8. TypeOK' BY <1>4, <1>7 DEF BatchRetry, MaybeRetryFailedTask, RetryInv, TypeOK, Rows
  <1>9. Places'
    <2>1. tbl'[p].status = "failed" BY <1>0, <1>7 DEF Keeps
    <2> QED BY <1>0, <1>2, <1>3, <1>4, <1>7, <2>1 DEF Places, Keeps
  <1> QED BY <1>6, <1>8, <1>9
\* A batch goes on with its next question; no row moves.
LEMMA JobMove ==
  ASSUME RetryInv, NEW h \in Handlers, NEW next \in Job,
         UNCHANGED <<tbl, report, stranded>>, ended' \in [Issues -> Endings],
         issue' \in [Issues -> IssueStatuses],
         job' = [job EXCEPT ![h] = next], next.tasks = job[h].tasks,
         next.pc = "idle" => next.tasks = {},
         next.pc \in {"issue", "active", "update"} =>
           job[h].pc \in {"issue", "active", "update"} /\ next.task = job[h].task
  PROVE  TypeOK' /\ Places' /\ Moves({})
  <1>1. /\ job'[h] = next /\ \A g \in Handlers \ {h} : job'[g] = job[g]
        /\ job' \in [Handlers -> Job]
    BY DEF RetryInv, TypeOK
  <1>2. \A g \in Handlers : job'[g].tasks = job[g].tasks BY <1>1
  <1>3. Waiting' = Waiting BY <1>2 DEF Waiting
  <1>4. TypeOK' BY <1>1 DEF RetryInv, TypeOK
  <1>5. Places'
    <2> SUFFICES ASSUME NEW g \in Handlers
                 PROVE  /\ job'[g].pc = "idle" => job'[g].tasks = {}
                        /\ job'[g].pc \in {"issue", "active", "update"} =>
                             /\ job'[g].task \in TaskIds
                             /\ tbl'[job'[g].task].status = "failed"
      BY <1>2 DEF Places, RetryInv
    <2>1. CASE g = h BY <1>1, <2>1 DEF RetryInv, Places
    <2>2. CASE g # h BY <1>1, <2>2 DEF RetryInv, Places
    <2> QED BY <2>1, <2>2
  <1>6. Rows(tbl') /\ Keeps(tbl, tbl')
    BY RowInvHasRows DEF RetryInv, Keeps
  <1>7. \A t \in TaskIds : tbl[t].status = "absent" => tbl'[t].parent = None
    BY DEF RetryInv, RowInv, Children
  <1> QED BY <1>3, <1>4, <1>5, <1>6, <1>7 DEF Moves

\* What NextTask makes of a job.
Advanced(j) == [j EXCEPT !.pc = IF j.tasks = {} THEN "idle" ELSE "retry"]

LEMMA AdvancedIsJob ==
  ASSUME NEW j \in Job
  PROVE  /\ Advanced(j) \in Job /\ Advanced(j).tasks = j.tasks
         /\ Advanced(j).pc = IF j.tasks = {} THEN "idle" ELSE "retry"
         /\ Advanced(j).seen = j.seen /\ Advanced(j).retried = j.retried
  BY DEF Advanced, Job

\* The issue a batch asks about exists.
LEMMA AskedIssue ==
  ASSUME RetryInv, NEW h \in Handlers, job[h].pc \in {"issue", "active", "update"}
  PROVE  /\ job[h].task \in TaskIds /\ job[h] \in Job
         /\ tbl[job[h].task].target \in Issues
  BY DEF RetryInv, Places, RowInv, FilledRow, TypeOK

LEMMA AskSteps ==
  ASSUME RetryInv, NEW h \in Handlers,
         GetIssue(h) \/ CheckActive(h) \/ UpdateIssueStatus(h) \/ ResetFails(h)
  PROVE  TypeOK' /\ Places' /\ Moves({})
  <1> DEFINE i == tbl[job[h].task].target
             asked == [job[h] EXCEPT !.pc = "active", !.seen = job[h].seen \cup {i}]
             alone == [job[h] EXCEPT !.pc = "update"]
  <1>1. /\ job[h] \in Job /\ i \in Issues
        /\ job[h].pc \in {"issue", "active", "update"}
    BY AskedIssue DEF GetIssue, CheckActive, UpdateIssueStatus, ResetFails
  <1>2. /\ asked \in Job /\ asked.tasks = job[h].tasks
        /\ asked.pc = "active" /\ asked.task = job[h].task
        /\ alone \in Job /\ alone.tasks = job[h].tasks
        /\ alone.pc = "update" /\ alone.task = job[h].task
    BY <1>1 DEF Job
  <1>3. \/ job' = [job EXCEPT ![h] = asked] \/ job' = [job EXCEPT ![h] = alone]
        \/ job' = [job EXCEPT ![h] = Advanced(job[h])]
    BY DEF GetIssue, CheckActive, UpdateIssueStatus, ResetFails, NextTask, Advanced
  <1>4. UNCHANGED <<tbl, report, stranded>> /\ issue' \in [Issues -> IssueStatuses]
    BY <1>1 DEF GetIssue, CheckActive, UpdateIssueStatus, ResetFails, RetryInv,
                TypeOK, IssueStatuses
  <1>8. ended' \in [Issues -> Endings]
    BY DEF GetIssue, CheckActive, UpdateIssueStatus, ResetFails, Ends, Endings,
           RetryInv, TypeOK
  <1> HIDE DEF asked, alone, i
  <1>5. CASE job' = [job EXCEPT ![h] = asked] BY <1>1, <1>2, <1>4, <1>8, <1>5, JobMove
  <1>6. CASE job' = [job EXCEPT ![h] = alone] BY <1>1, <1>2, <1>4, <1>8, <1>6, JobMove
  <1>7. CASE job' = [job EXCEPT ![h] = Advanced(job[h])]
    BY <1>1, <1>4, <1>7, <1>8, AdvancedIsJob, JobMove
  <1> QED BY <1>3, <1>5, <1>6, <1>7

\* Together: the invariant of the rows is inductive.
LEMMA RetryStep ==
  ASSUME RetryInv, [Next]_vars
  PROVE  RetryInv' /\ Rows(tbl') /\ Keeps(tbl, tbl')
  <1>1. ASSUME TypeOK', Places', NEW S, Moves(S)
        PROVE  RetryInv' /\ Rows(tbl') /\ Keeps(tbl, tbl')
    BY <1>1, MovesStep DEF RetryInv, Moves
  <1>2. ASSUME TypeOK', Places', NEW p, Visits(p)
        PROVE  RetryInv' /\ Rows(tbl') /\ Keeps(tbl, tbl')
    BY <1>2, VisitsStep DEF RetryInv
  <1>3. CASE UNCHANGED vars
    <2>1. RetryInv'
      BY <1>3 DEF vars, RetryInv, TypeOK, Places, RowInv, Children, RetriedOnce,
                  Waiting, Replaced
    <2>2. Rows(tbl') /\ Keeps(tbl, tbl')
      BY <1>3, RowInvHasRows DEF vars, RetryInv, Keeps
    <2> QED BY <2>1, <2>2
  <1>4. CASE \E a \in Agents, i \in Issues, r \in Runtimes, t \in TaskIds :
               Enqueue(a, i, r, t)
    BY <1>1, <1>4, QuietSteps
  <1>5. CASE \E t \in TaskIds : Work(t)
    <2>1. PICK t \in TaskIds : Work(t) BY <1>5
    <2>2. CASE \/ ClaimAndStart(t) \/ CompleteTask(t) \/ CancelTask(t)
               \/ \E s \in IssueStatuses : AgentSetsStatus(t, s)
      BY <1>1, <2>2, QuietSteps
    <2>3. CASE \E reason \in FailureReasons : FailTask(t, reason)
      BY <1>1, <2>3, FailTaskStep
    <2>4. CASE ReportRetry(t) BY <1>2, <2>4, ReportRetryStep
    <2> QED BY <2>1, <2>2, <2>3, <2>4 DEF Work
  <1>6. CASE \E h \in Handlers : Batch(h)
    <2>1. PICK h \in Handlers : Batch(h) BY <1>6
    <2>2. CASE \E S \in SUBSET TaskIds, reason \in FailureReasons : Sweep(h, S, reason)
      BY <1>1, <2>2, SweepStep
    <2>3. CASE \E p \in TaskIds, made \in BOOLEAN : BatchRetry(h, p, made)
      BY <1>2, <2>3, BatchRetryStep
    <2>4. CASE GetIssue(h) \/ CheckActive(h) \/ UpdateIssueStatus(h) \/ ResetFails(h)
      BY <1>1, <2>4, AskSteps
    <2> QED BY <2>1, <2>2, <2>3, <2>4 DEF Batch
  <1> QED BY <1>3, <1>4, <1>5, <1>6 DEF Next
-----------------------------------------------------------------------------
(* A swept issue is watched                                                *)

Active(T, i) == HasActiveTaskForIssue(T, i)

Busy(row) == row.status \in ActiveStatuses \cup {"queued"}

\* A batch that does not move keeps its decision: the rows it refers to have
\* failed, and a failed row stays.
LEMMA DecisionStays ==
  ASSUME RetryInv, Keeps(tbl, tbl'), NEW h \in Handlers, job'[h] = job[h],
         NEW i \in Issues, Decides(h, i)
  PROVE  Decides(h, i)'
  <1>1. \A t \in job[h].tasks : tbl'[t] = tbl[t]
    BY DEF RetryInv, RowInv, Waiting, Keeps
  <1>2. job[h].pc \in {"issue", "active", "update"} =>
          tbl'[job[h].task] = tbl[job[h].task]
    BY DEF RetryInv, Places, Keeps
  <1> QED BY <1>1, <1>2 DEF Decides

\* Nothing needs to be watched where rows stay busy, and what was watched is
\* while the batches do not move.
LEMMA WatchedStays ==
  ASSUME RetryInv, Watched, Keeps(tbl, tbl'), UNCHANGED job, NEW i \in Issues,
         ended'[i] = ended[i],
         issue'[i] = issue[i] \/ Active(tbl', i),
         \A s \in TaskIds : tbl[s].target = i /\ Busy(tbl[s]) =>
           tbl'[s].target = i /\ Busy(tbl'[s]),
         ended'[i] = "swept", issue'[i] = "in_progress", ~ Active(tbl', i)
  PROVE  \E h \in Handlers : Decides(h, i)'
  <1>1. ~ HasActiveTaskForIssue(tbl, i)
    BY DEF Active, HasActiveTaskForIssue, Busy
  <1>2. PICK h \in Handlers : Decides(h, i) BY <1>1 DEF Watched
  <1> QED BY <1>2, DecisionStays

LEMMA WatchedQuiet ==
  ASSUME RetryInv, Watched, Keeps(tbl, tbl'),
         \/ \E a \in Agents, i \in Issues, r \in Runtimes, t \in TaskIds :
              Enqueue(a, i, r, t)
         \/ \E t \in TaskIds :
              \/ ClaimAndStart(t) \/ CompleteTask(t) \/ CancelTask(t)
              \/ \E s \in IssueStatuses : AgentSetsStatus(t, s)
              \/ \E reason \in FailureReasons : FailTask(t, reason)
              \/ ReportRetry(t)
  PROVE  Watched'
  <1>0. Rows(tbl) /\ TypeOK BY RowInvHasRows DEF RetryInv
  <1> SUFFICES ASSUME NEW i \in Issues, ended'[i] = "swept",
                      issue'[i] = "in_progress", ~ Active(tbl', i)
               PROVE  \E h \in Handlers : Decides(h, i)'
    BY DEF Watched, Active
  \* a row appears
  <1>1. ASSUME NEW t \in TaskIds, tbl[t].status = "absent",
               \A s \in TaskIds \ {t} : tbl'[s] = tbl[s],
               UNCHANGED <<issue, job, ended>>
        PROVE  \E h \in Handlers : Decides(h, i)'
    <2>1. \A s \in TaskIds : Busy(tbl[s]) => tbl'[s] = tbl[s]
      BY <1>1 DEF Busy, ActiveStatuses
    <2> QED BY <1>1, <2>1, WatchedStays
  \* a row ends, and not by a sweep
  <1>2. ASSUME NEW t \in TaskIds, NEW how \in {"reported", "otherwise"},
               Ends({t}, how), UNCHANGED job,
               \A s \in TaskIds \ {t} : tbl'[s] = tbl[s],
               issue' = issue
        PROVE  \E h \in Handlers : Decides(h, i)'
    <2>1. ended'[i] = IF i = tbl[t].target THEN how ELSE ended[i]
      BY <1>2 DEF Ends, TargetsOf
    <2>2. ended'[i] = ended[i] /\ tbl[t].target # i BY <1>2, <2>1
    <2> QED BY <1>2, <2>2, WatchedStays
  <1>3. ASSUME NEW a \in Agents, NEW x \in Issues, NEW r \in Runtimes,
               NEW t \in TaskIds, Enqueue(a, x, r, t)
        PROVE  \E h \in Handlers : Decides(h, i)'
    <2>1. \A s \in TaskIds \ {t} : tbl'[s] = tbl[s] BY <1>0, <1>3 DEF Enqueue, Insert, Rows
    <2> QED BY <1>1, <1>3, <2>1 DEF Enqueue
  <1>4. ASSUME NEW t \in TaskIds, ClaimAndStart(t)
        PROVE  \E h \in Handlers : Decides(h, i)'
    <2>1. /\ tbl' = SetStatus(tbl, {t}, "running", "null")
          /\ tbl[t].status = "queued" /\ tbl[t].status \notin {"absent", "failed"}
          /\ "running" \in Statuses /\ UNCHANGED <<issue, job, report, ended>>
      BY <1>4 DEF ClaimAndStart, Claimable, Statuses, CancellableStatuses, ActiveStatuses
    <2>2. Become(tbl, tbl', {t}, "running")
      BY <1>0, <2>1, SetStatusKeeps
    <2>3. \A s \in TaskIds : tbl[s].target = i /\ Busy(tbl[s]) =>
            tbl'[s].target = i /\ Busy(tbl'[s])
      BY <2>2 DEF Become, Busy, ActiveStatuses
    <2> QED BY <2>1, <2>3, WatchedStays
  <1>5. ASSUME NEW t \in TaskIds, CompleteTask(t)
        PROVE  \E h \in Handlers : Decides(h, i)'
    <2>1. \A s \in TaskIds \ {t} : tbl'[s] = tbl[s]
      BY <1>0, <1>5 DEF CompleteTask, SetStatus, Rows
    <2> QED BY <1>2, <1>5, <2>1 DEF CompleteTask
  <1>6. ASSUME NEW t \in TaskIds, CancelTask(t)
        PROVE  \E h \in Handlers : Decides(h, i)'
    <2>1. \A s \in TaskIds \ {t} : tbl'[s] = tbl[s]
      BY <1>0, <1>6 DEF CancelTask, Cancel, SetStatus, Rows
    <2> QED BY <1>2, <1>6, <2>1 DEF CancelTask
  <1>7. ASSUME NEW t \in TaskIds, NEW reason \in FailureReasons, FailTask(t, reason)
        PROVE  \E h \in Handlers : Decides(h, i)'
    <2>1. \A s \in TaskIds \ {t} : tbl'[s] = tbl[s]
      BY <1>0, <1>7 DEF FailTask, Fail, Rows
    <2> QED BY <1>2, <1>7, <2>1 DEF FailTask
  <1>8. ASSUME NEW t \in TaskIds, NEW s \in IssueStatuses, AgentSetsStatus(t, s)
        PROVE  \E h \in Handlers : Decides(h, i)'
    <2>1. CASE tbl[t].target = i
      BY <1>8, <2>1 DEF AgentSetsStatus, Active, HasActiveTaskForIssue, ActiveStatuses
    <2>2. CASE tbl[t].target # i
      <3>1. issue'[i] = issue[i] BY <1>0, <1>8, <2>2 DEF AgentSetsStatus, TypeOK
      <3> QED BY <1>8, <3>1, WatchedStays DEF AgentSetsStatus
    <2> QED BY <2>1, <2>2
  <1>9. ASSUME NEW p \in TaskIds, ReportRetry(p)
        PROVE  \E h \in Handlers : Decides(h, i)'
    <2>1. CASE tbl' = tbl BY <1>9, <2>1, WatchedStays DEF ReportRetry
    <2>2. CASE tbl' # tbl
      <3>1. PICK t \in TaskIds, r \in Runtimes \cup {tbl[p].rt} :
              /\ tbl[t].status = "absent"
              /\ tbl' = Insert(tbl, t, RetryRow(tbl, p, r))
        BY <1>9, <2>2 DEF ReportRetry, MaybeRetryFailedTask
      <3>2. \A s \in TaskIds \ {t} : tbl'[s] = tbl[s] BY <1>0, <3>1 DEF Insert, Rows
      <3> QED BY <1>1, <1>9, <3>1, <3>2 DEF ReportRetry
    <2> QED BY <2>1, <2>2
  <1> QED BY <1>3, <1>4, <1>5, <1>6, <1>7, <1>8, <1>9

\* A batch that begins remembers nothing, so it decides on every issue it failed
\* a row of; the rows of the others did not move.
LEMMA WatchedSweep ==
  ASSUME RetryInv, Watched, Keeps(tbl, tbl'), NEW h \in Handlers,
         NEW S \in SUBSET TaskIds, NEW reason \in FailureReasons, Sweep(h, S, reason)
  PROVE  Watched'
  <1>0. Rows(tbl) /\ TypeOK BY RowInvHasRows DEF RetryInv
  <1> SUFFICES ASSUME NEW i \in Issues, ended'[i] = "swept",
                      issue'[i] = "in_progress", ~ Active(tbl', i)
               PROVE  \E g \in Handlers : Decides(g, i)'
    BY DEF Watched, Active
  <1> DEFINE new == [NoJob EXCEPT !.pc = "retry", !.tasks = S]
  <1>1. /\ new.tasks = S /\ new.pc = "retry" /\ new.seen = {} /\ new.retried = {}
    BY NoJobIsJob DEF NoJob
  <1>2. job' = [job EXCEPT ![h] = new] BY DEF Sweep
  <1> HIDE DEF new
  <1>3. job'[h] = new /\ \A g \in Handlers \ {h} : job'[g] = job[g]
    BY <1>0, <1>2 DEF TypeOK
  <1>4. \A t \in S : tbl[t].status # "absent" /\ tbl'[t].target = tbl[t].target
    BY DEF Sweep, ActiveStatuses, Keeps
  <1>5. CASE i \in TargetsOf(S)
    <2>1. \E t \in S : tbl'[t].target = i BY <1>4, <1>5 DEF TargetsOf
    <2>2. Decides(h, i)' BY <1>1, <1>3, <2>1 DEF Decides
    <2> QED BY <2>2
  <1>6. CASE i \notin TargetsOf(S)
    <2>1. ended[i] = "swept" /\ issue[i] = "in_progress"
      BY <1>6 DEF Sweep, Ends
    <2>2. \A t \in TaskIds : tbl[t].target = i => tbl'[t] = tbl[t]
      BY <1>0, <1>6 DEF TargetsOf, Sweep, Fail, Rows
    <2>3. ~ HasActiveTaskForIssue(tbl, i)
      BY <2>2 DEF Active, HasActiveTaskForIssue
    <2>4. PICK g \in Handlers : Decides(g, i) BY <2>1, <2>3 DEF Watched
    <2>5. g # h BY <2>4 DEF Sweep, Decides
    <2> QED BY <1>3, <2>4, <2>5, DecisionStays
  <1> QED BY <1>5, <1>6

\* The batch that moves is the one to look at; the others keep their decisions.
LEMMA WatchedMove ==
  ASSUME RetryInv, Watched, Keeps(tbl, tbl'), NEW h \in Handlers,
         \A g \in Handlers \ {h} : job'[g] = job[g],
         \A i \in Issues : ended'[i] = "swept" => ended[i] = "swept",
         \A s \in TaskIds : Busy(tbl[s]) => tbl'[s] = tbl[s],
         \A i \in Issues :
           /\ issue'[i] = "in_progress" => issue[i] = "in_progress"
           /\ /\ Decides(h, i) /\ ended'[i] = "swept"
              /\ issue'[i] = "in_progress" /\ ~ Active(tbl', i)
              => Decides(h, i)'
  PROVE  Watched'
  <1> SUFFICES ASSUME NEW i \in Issues, ended'[i] = "swept",
                      issue'[i] = "in_progress", ~ Active(tbl', i)
               PROVE  \E g \in Handlers : Decides(g, i)'
    BY DEF Watched, Active
  <1>1. ~ HasActiveTaskForIssue(tbl, i)
    BY DEF Active, HasActiveTaskForIssue, Busy
  <1>2. PICK g \in Handlers : Decides(g, i) BY <1>1 DEF Watched
  <1>3. CASE g = h BY <1>2, <1>3
  <1>4. CASE g # h BY <1>2, <1>4, DecisionStays
  <1> QED BY <1>3, <1>4
LEMMA WatchedBatchRetry ==
  ASSUME RetryInv, Watched, Keeps(tbl, tbl'), NEW h \in Handlers,
         NEW p \in TaskIds, NEW made \in BOOLEAN, BatchRetry(h, p, made)
  PROVE  Watched'
  <1>0. Rows(tbl) /\ TypeOK BY RowInvHasRows DEF RetryInv
  <1> DEFINE x == tbl[p].target
             next == [job[h] EXCEPT !.pc = "issue", !.task = p,
                        !.tasks = job[h].tasks \ {p},
                        !.retried = IF made THEN job[h].retried \cup {x}
                                            ELSE job[h].retried]
  <1>1. /\ next.pc = "issue" /\ next.task = p /\ next.seen = job[h].seen
        /\ next.tasks = job[h].tasks \ {p}
        /\ next.retried = IF made THEN job[h].retried \cup {x} ELSE job[h].retried
    BY <1>0 DEF TypeOK, Job
  <1>2. job' = [job EXCEPT ![h] = next] BY DEF BatchRetry
  <1> HIDE DEF next
  <1>3. job'[h] = next /\ \A g \in Handlers \ {h} : job'[g] = job[g]
    BY <1>0, <1>2 DEF TypeOK
  <1>4. /\ job[h].pc = "retry" /\ p \in job[h].tasks /\ UNCHANGED <<issue, ended>>
    BY DEF BatchRetry
  <1>5. \A t \in job[h].tasks : tbl'[t] = tbl[t]
    BY DEF RetryInv, RowInv, Waiting, Keeps
  <1>6. /\ \A s \in TaskIds : Busy(tbl[s]) => tbl'[s] = tbl[s]
        /\ made => \E t \in TaskIds : Busy(tbl'[t]) /\ tbl'[t].target = x
    <2>1. CASE made
      <3>1. PICK t \in TaskIds, r \in Runtimes \cup {tbl[p].rt} :
              /\ Retryable(tbl, p) /\ tbl[t].status = "absent"
              /\ tbl' = Insert(tbl, t, RetryRow(tbl, p, r))
        BY <2>1 DEF BatchRetry, MaybeRetryFailedTask
      <3>2. /\ tbl'[t].status = "queued" /\ tbl'[t].target = x
            /\ \A s \in TaskIds \ {t} : tbl'[s] = tbl[s]
        BY <1>0, <3>1, RetryRowIsRow, InsertKeeps
      <3> QED BY <3>1, <3>2 DEF Busy, ActiveStatuses
    <2>2. CASE ~ made BY <2>2 DEF BatchRetry, MaybeRetryFailedTask
    <2> QED BY <2>1, <2>2
  <1>7. ASSUME NEW i \in Issues, Decides(h, i), ~ Active(tbl', i)
        PROVE  Decides(h, i)'
    <2>1. PICK t \in job[h].tasks : tbl[t].target = i
      BY <1>4, <1>7 DEF Decides
    <2>2. i \notin job[h].seen \cup job[h].retried
      BY <1>4, <1>7 DEF Decides
    <2>3. ~ (made /\ i = x)
      BY <1>6, <1>7 DEF Active, HasActiveTaskForIssue, Busy
    <2>4. i \notin next.seen \cup next.retried BY <1>1, <2>2, <2>3
    <2>5. CASE t = p
      BY <1>1, <1>3, <1>4, <1>5, <2>1, <2>4, <2>5 DEF Decides
    <2>6. CASE t # p
      BY <1>1, <1>3, <1>5, <2>1, <2>4, <2>6 DEF Decides
    <2> QED BY <2>5, <2>6
  <1> QED BY <1>3, <1>4, <1>6, <1>7, WatchedMove

LEMMA WatchedAsk ==
  ASSUME RetryInv, Watched, Keeps(tbl, tbl'), NEW h \in Handlers,
         GetIssue(h) \/ CheckActive(h) \/ UpdateIssueStatus(h) \/ ResetFails(h)
  PROVE  Watched'
  <1>0. TypeOK BY DEF RetryInv
  <1> DEFINE x == tbl[job[h].task].target
             asked == [job[h] EXCEPT !.pc = "active", !.seen = job[h].seen \cup {x}]
             alone == [job[h] EXCEPT !.pc = "update"]
  <1>1. /\ job[h] \in Job /\ x \in Issues
        /\ job[h].pc \in {"issue", "active", "update"}
    BY AskedIssue DEF GetIssue, CheckActive, UpdateIssueStatus, ResetFails
  <1>2. /\ asked.tasks = job[h].tasks /\ asked.pc = "active"
        /\ asked.task = job[h].task /\ asked.seen = job[h].seen \cup {x}
        /\ asked.retried = job[h].retried
        /\ alone.tasks = job[h].tasks /\ alone.pc = "update"
        /\ alone.task = job[h].task /\ alone.seen = job[h].seen
        /\ alone.retried = job[h].retried
    BY <1>1 DEF Job
  <1>3. tbl' = tbl BY DEF GetIssue, CheckActive, UpdateIssueStatus, ResetFails
  <1>9. \A i \in Issues : ended'[i] = IF ResetFails(h) /\ i = x
                                        THEN "erred" ELSE ended[i]
    BY <1>0, <1>1 DEF GetIssue, CheckActive, UpdateIssueStatus, ResetFails, Ends,
                      TargetsOf, TypeOK
  <1>4. \A i \in Issues : issue'[i] = IF UpdateIssueStatus(h) /\ i = x
                                        THEN "todo" ELSE issue[i]
    BY <1>0, <1>1 DEF GetIssue, CheckActive, UpdateIssueStatus, ResetFails, TypeOK
  \* which decision is still open after each answer
  <1>5. \/ job' = [job EXCEPT ![h] = asked] /\ job[h].pc = "issue"
        \/ job' = [job EXCEPT ![h] = alone] /\ job[h].pc = "active"
        \/ /\ job' = [job EXCEPT ![h] = Advanced(job[h])]
           /\ \/ UpdateIssueStatus(h)
              \/ ResetFails(h)
              \/ Active(tbl, x) /\ job[h].pc = "active"
              \/ /\ job[h].pc = "issue"
                 /\ issue[x] # "in_progress" \/ x \in job[h].seen \cup job[h].retried
    BY DEF GetIssue, CheckActive, UpdateIssueStatus, ResetFails, NextTask, Advanced, Active
  <1>6. ASSUME NEW i \in Issues, Decides(h, i), ended'[i] = "swept",
               issue'[i] = "in_progress", ~ Active(tbl', i)
        PROVE  Decides(h, i)'
    <2>1. i = x \/ /\ i \notin job[h].seen \cup job[h].retried
                   /\ \E t \in job[h].tasks : tbl[t].target = i
      BY <1>1, <1>6 DEF Decides
    <2>2. CASE job' = [job EXCEPT ![h] = asked] /\ job[h].pc = "issue"
      <3>1. job'[h] = asked BY <1>0, <2>2 DEF TypeOK
      <3> HIDE DEF asked
      <3> QED BY <1>2, <1>3, <2>1, <3>1 DEF Decides
    <2>3. CASE job' = [job EXCEPT ![h] = alone] /\ job[h].pc = "active"
      <3>1. job'[h] = alone BY <1>0, <2>3 DEF TypeOK
      <3> HIDE DEF alone
      <3> QED BY <1>2, <1>3, <2>1, <3>1 DEF Decides
    <2>4. CASE /\ job' = [job EXCEPT ![h] = Advanced(job[h])]
               /\ \/ UpdateIssueStatus(h)
                  \/ ResetFails(h)
                  \/ Active(tbl, x) /\ job[h].pc = "active"
                  \/ /\ job[h].pc = "issue"
                     /\ \/ issue[x] # "in_progress"
                        \/ x \in job[h].seen \cup job[h].retried
      <3>1. job'[h] = Advanced(job[h]) BY <1>0, <2>4 DEF TypeOK
      <3>2. ~ (i = x /\ i \notin job[h].seen \cup job[h].retried /\ job[h].pc = "issue")
            /\ ~ (i = x /\ job[h].pc \in {"active", "update"})
        BY <1>3, <1>4, <1>6, <1>9, <2>4 DEF UpdateIssueStatus
      <3>3. /\ i \notin job[h].seen \cup job[h].retried
            /\ \E t \in job[h].tasks : tbl[t].target = i
        BY <1>1, <1>6, <3>2 DEF Decides
      <3> QED BY <1>1, <1>3, <3>1, <3>3, AdvancedIsJob DEF Decides
    <2> QED BY <1>5, <2>2, <2>3, <2>4
  <1>7. \A g \in Handlers \ {h} : job'[g] = job[g] BY <1>0, <1>5 DEF TypeOK
  <1>8. \A i \in Issues : issue'[i] = "in_progress" => issue[i] = "in_progress"
    BY <1>4
  <1> HIDE DEF asked, alone, x
  <1>10. \A i \in Issues : ended'[i] = "swept" => ended[i] = "swept" BY <1>9
  <1> QED BY <1>3, <1>6, <1>7, <1>8, <1>10, WatchedMove

LEMMA WatchedStep ==
  ASSUME RetryInv, Watched, [Next]_vars
  PROVE  Watched'
  <1>0. Keeps(tbl, tbl') BY RetryStep
  <1>1. CASE UNCHANGED vars
    BY <1>1 DEF vars, Watched, HasActiveTaskForIssue, Decides
  <1>2. CASE \E a \in Agents, i \in Issues, r \in Runtimes, t \in TaskIds :
               Enqueue(a, i, r, t)
    BY <1>0, <1>2, WatchedQuiet
  <1>3. CASE \E t \in TaskIds : Work(t)
    BY <1>0, <1>3, WatchedQuiet DEF Work
  <1>4. CASE \E h \in Handlers : Batch(h)
    BY <1>0, <1>4, WatchedSweep, WatchedBatchRetry, WatchedAsk DEF Batch
  <1> QED BY <1>1, <1>2, <1>3, <1>4 DEF Next

-----------------------------------------------------------------------------
(* The theorems                                                            *)

LEMMA InitInv == Init => IInv
  <1> SUFFICES ASSUME Init PROVE IInv OBVIOUS
  <1>1. /\ Absent \in Row /\ Absent.status = "absent" /\ Absent.parent = None
    BY TableAssumption DEF Absent, Row, Statuses, Leases
  <1>2. TypeOK BY <1>1, NoJobIsJob DEF Init, TypeOK, IssueStatuses, Endings
  <1>3. Places BY NoJobIsJob DEF Init, Places
  <1>4. Waiting = {} BY NoJobIsJob DEF Init, Waiting
  <1>5. RowInv
    BY <1>1, <1>2, <1>4
       DEF Init, RowInv, TypeOK, FilledRow, Children, RetriedOnce, Retryable
  <1>6. Watched BY DEF Init, Watched
  <1> QED BY <1>2, <1>3, <1>5, <1>6 DEF IInv, RetryInv

LEMMA StepInv == IInv /\ [Next]_vars => IInv'
  BY RetryStep, WatchedStep DEF IInv

\* Rows, batches and reports have their types in every reachable state.
THEOREM TypeCorrect == Spec => []TypeOK
  <1>1. IInv => TypeOK BY DEF IInv, RetryInv
  <1> QED BY InitInv, StepInv, <1>1, PTL DEF Spec

\* MaybeRetryFailedTask makes at most one retry of a run, however many batches
\* and daemon reports fail rows and visit them beside each other.
THEOREM RetrySafe == Spec => []RetriedOnce
  <1>1. IInv => RetriedOnce BY DEF IInv, RetryInv, RowInv
  <1> QED BY InitInv, StepInv, <1>1, PTL DEF Spec

\* MaybeRetryFailedTask drops a failed run that may be retried only in one of its
\* error returns: after any other visit another row of its agent on its issue
\* exists.
THEOREM RetryKept == Spec => []RetryNotLost
  <1>1. IInv => RetryNotLost
    BY DEF IInv, RetryInv, RowInv, RetryNotLost, Replaced, Waiting
  <1> QED BY InitInv, StepInv, <1>1, PTL DEF Spec

\* HandleFailedTasks leaves no issue in progress without a worker: when the last
\* active row of an issue was swept, a batch still has the decision to take.
THEOREM NobodyStuck == Spec => []NotStuck
  <1>1. IInv => NotStuck
    <2> SUFFICES ASSUME IInv, NEW i \in Issues, ended[i] = "swept", Abandoned(i)
                 PROVE  FALSE
      BY DEF NotStuck
    <2>1. PICK h \in Handlers : Decides(h, i)
      BY DEF IInv, Watched, Abandoned
    <2>2. job[h].pc # "idle" BY <2>1 DEF Decides
    <2>3. job[h].pc \in {"issue", "active", "update"} =>
            job[h].task \in TaskIds /\ job[h].task # None
      BY TableAssumption DEF IInv, RetryInv, Places
    <2>4. i \in TargetsOf(job[h].tasks \cup ({job[h].task} \ {None}))
      BY <2>1, <2>3 DEF Decides, TargetsOf
    <2> QED BY <2>2, <2>4 DEF Abandoned, Handling
  <1> QED BY InitInv, StepInv, <1>1, PTL DEF Spec
=============================================================================
