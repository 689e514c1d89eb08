----------------------------- MODULE CronLease -----------------------------
(***************************************************************************)
(* The execution-record scheduler: server/internal/scheduler/{manager,     *)
(* db_ops,spec}.go over the table sys_cron_executions.  Every server       *)
(* replica ticks the same job; a row per planned time is lease and audit   *)
(* log in one.  One job and one scope: rows of others never interact.      *)
(*                                                                         *)
(* Time is a clock in units of the job's cadence, so plan times are the    *)
(* naturals.  A tick reads the clock ONCE and uses that reading to close   *)
(* stale leases, to plan and to claim, however long the handlers it runs   *)
(* in between take; heartbeats and terminal writes read the clock anew.    *)
(*                                                                         *)
(* The lease token is rotated by every claim, and every claim counts one   *)
(* attempt, so the attempt number stands for the token.                    *)
(***************************************************************************)
EXTENDS Integers, FiniteSets

CONSTANTS
  Runners,            \* server replicas
  Steady,             \* replicas that are not paused: their handlers keep to
                      \* RunTimeout and their ticks to TickLag
  TickLag,            \* from a tick's clock reading to its last claim
  RunTimeout, StaleTimeout, Backoff, MaxAttempts, AllowStaleReentry,
  CatchUp,            \* how plan times are chosen
  CatchUpWindow, MaxPlansPerTick,
  MaxTime             \* bound: the clock stops there

Modes == {"latest_only", "every_plan", "trigger"}

ASSUME JobAssumption ==
  /\ Steady \subseteq Runners
  /\ TickLag \in Nat /\ RunTimeout \in Nat \ {0} /\ Backoff \in Nat
  /\ StaleTimeout \in Nat /\ RunTimeout < StaleTimeout   \* JobSpec.validate
  /\ MaxAttempts \in Nat \ {0}
  /\ AllowStaleReentry \in BOOLEAN
  /\ CatchUp \in Modes
  /\ CatchUpWindow \in Nat /\ MaxPlansPerTick \in Nat \ {0}
  /\ MaxTime \in Nat

Plans == 0 .. MaxTime

VARIABLES clock, row, runner

vars == <<clock, row, runner>>

\* next_retry_at is 0 for NULL: both mean "due".
Execution ==
  [status     : {"absent", "RUNNING", "SUCCESS", "FAILED"},
   attempt    : 0 .. MaxAttempts,
   staleAfter : Nat,
   retryAt    : Nat,
   error      : {"none", "stale_timeout", "handler_error"}]

Process ==
  [pc      : {"idle", "sweep", "plan", "claim", "run"},
   now     : 0 .. MaxTime,         \* the tick's reading of the clock
   todo    : SUBSET Plans,         \* planned and not yet processed
   plan    : Plans,                \* of the handler that runs
   attempt : 0 .. MaxAttempts,     \* its lease token
   started : 0 .. MaxTime]

Resting == [pc |-> "idle", now |-> 0, todo |-> {}, plan |-> 0, attempt |-> 0,
            started |-> 0]

TypeOK ==
  /\ clock \in 0 .. MaxTime
  /\ row \in [Plans -> Execution]
  /\ \A p \in Plans : row[p].status = "absent" <=> row[p].attempt = 0
  /\ runner \in [Runners -> Process]

Init ==
  /\ clock = 0
  /\ row = [p \in Plans |-> [status |-> "absent", attempt |-> 0, staleAfter |-> 0,
                             retryAt |-> 0, error |-> "none"]]
  /\ runner = [r \in Runners |-> Resting]

-----------------------------------------------------------------------------
(* Planning                                                                *)

Known == {p \in Plans : row[p].status # "absent"}

IsLatest(p) == p \in Known /\ \A q \in Known : q <= p

RetryEligible(p, now) ==
  /\ row[p].status = "FAILED"
  /\ row[p].attempt < MaxAttempts
  /\ row[p].retryAt <= now

\* Where the cursor resumes: at the latest plan if it may be retried now, else
\* after it.  Without history it starts with the latest plan.
Resume(now) ==
  IF Known = {} THEN now
  ELSE LET last == CHOOSE p \in Known : IsLatest(p)
       IN IF RetryEligible(last, now) THEN last ELSE last + 1

\* CatchUpLatestOnly, CatchUpEveryPlan, and the hook of the autopilot triggers
\* (autopilotPlansForScope), which keeps the retry and the latest occurrence.
PlansForTick(now) ==
  LET start == Resume(now)
      first == IF start < now - CatchUpWindow THEN now - CatchUpWindow ELSE start
      due == {p \in Plans : start <= p /\ p <= now}
  IN CASE CatchUp = "latest_only" -> {now}
       [] CatchUp = "every_plan" ->
            {p \in due : first <= p /\ p < first + MaxPlansPerTick}
       [] CatchUp = "trigger" ->
            IF start \in Known THEN {start} ELSE {p \in due : p = now}

-----------------------------------------------------------------------------
(* One tick                                                                *)

\* RunOnce: dbNow
TickStart(r) ==
  /\ runner[r].pc = "idle"
  /\ runner' = [runner EXCEPT ![r] = [Resting EXCEPT !.pc = "sweep", !.now = clock]]
  /\ UNCHANGED <<clock, row>>

\* mutant: stale at the deadline instead of after it
StaleAtDeadline(p, now) == row[p].status = "RUNNING" /\ row[p].staleAfter <= now

\* mutant: status = 'RUNNING' forgotten
StaleWhenOld(p, now) == row[p].status # "absent" /\ row[p].staleAfter < now

Stale(p, now) == row[p].status = "RUNNING" /\ row[p].staleAfter < now

\* next_retry_at stays what it was, and RUNNING rows have none.
MarkStaleAsFailed(r) ==
  /\ runner[r].pc = "sweep"
  /\ row' = [p \in Plans |->
       IF Stale(p, runner[r].now)
         THEN [row[p] EXCEPT !.status = "FAILED", !.error = "stale_timeout"]
         ELSE row[p]]
  /\ runner' = [runner EXCEPT ![r].pc = "plan"]
  /\ UNCHANGED clock

Plan(r) ==
  /\ runner[r].pc = "plan"
  /\ runner' = [runner EXCEPT ![r].pc = "claim",
                              ![r].todo = PlansForTick(runner[r].now)]
  /\ UNCHANGED <<clock, row>>

\* mutant: attempt < max_attempts forgotten
FreeForEver(p, now) ==
  \/ row[p].status = "absent"
  \/ row[p].status = "FAILED" /\ row[p].retryAt <= now
  \/ AllowStaleReentry /\ Stale(p, now)

\* tryClaim.  INSERT ... ON CONFLICT DO NOTHING, then the stealing UPDATE: rows
\* are never deleted, so both statements see the same of "does a row exist".
Free(p, now) ==
  \/ row[p].status = "absent"
  \/ /\ row[p].attempt < MaxAttempts
     /\ \/ row[p].status = "FAILED" /\ row[p].retryAt <= now
        \/ AllowStaleReentry /\ Stale(p, now)

IsNext(r, p) == p \in runner[r].todo /\ \A q \in runner[r].todo : p <= q

\* mutant: lease_token not rotated by a retry
ClaimSameToken(r, p) ==
  LET n == IF row[p].attempt = 0 THEN 1 ELSE row[p].attempt IN
  /\ runner[r].pc = "claim" /\ IsNext(r, p)
  /\ Free(p, runner[r].now)
  /\ row' = [row EXCEPT ![p] = [status |-> "RUNNING", attempt |-> n,
                                staleAfter |-> runner[r].now + StaleTimeout,
                                retryAt |-> 0, error |-> "none"]]
  /\ runner' = [runner EXCEPT ![r].pc = "run", ![r].todo = @ \ {p},
                              ![r].plan = p, ![r].attempt = n, ![r].started = clock]
  /\ UNCHANGED clock

\* mutant: a retry starts the count again
ClaimFromOne(r, p) ==
  /\ runner[r].pc = "claim" /\ IsNext(r, p)
  /\ Free(p, runner[r].now)
  /\ row' = [row EXCEPT ![p] = [status |-> "RUNNING", attempt |-> 1,
                                staleAfter |-> runner[r].now + StaleTimeout,
                                retryAt |-> 0, error |-> "none"]]
  /\ runner' = [runner EXCEPT ![r].pc = "run", ![r].todo = @ \ {p},
                              ![r].plan = p, ![r].attempt = row[p].attempt + 1,
                              ![r].started = clock]
  /\ UNCHANGED clock

Claim(r, p) ==
  /\ runner[r].pc = "claim" /\ IsNext(r, p)
  /\ Free(p, runner[r].now)
  /\ row' = [row EXCEPT ![p] = [status     |-> "RUNNING",
                                attempt    |-> row[p].attempt + 1,
                                staleAfter |-> runner[r].now + StaleTimeout,
                                retryAt    |-> 0,
                                error      |-> "none"]]
  /\ runner' = [runner EXCEPT ![r].pc = "run", ![r].todo = @ \ {p},
                              ![r].plan = p, ![r].attempt = row[p].attempt + 1,
                              ![r].started = clock]
  /\ UNCHANGED clock

\* The plan is another runner's, done, not due for retry or out of attempts.
Conflicted(r, p) ==
  /\ runner[r].pc = "claim" /\ IsNext(r, p)
  /\ ~ Free(p, runner[r].now)
  /\ runner' = [runner EXCEPT ![r].todo = @ \ {p}]
  /\ UNCHANGED <<clock, row>>

TickDone(r) ==
  /\ runner[r].pc = "claim" /\ runner[r].todo = {}
  /\ runner' = [runner EXCEPT ![r] = Resting]
  /\ UNCHANGED <<clock, row>>

-----------------------------------------------------------------------------
(* The handler and its lease                                               *)

\* WHERE id = $1 AND lease_token = $2 AND status = 'RUNNING'
HoldsLease(r) ==
  /\ runner[r].pc = "run"
  /\ row[runner[r].plan].status = "RUNNING"
  /\ row[runner[r].plan].attempt = runner[r].attempt

Heartbeat(r) ==
  /\ HoldsLease(r)
  /\ row[runner[r].plan].staleAfter < clock + StaleTimeout
  /\ row' = [row EXCEPT ![runner[r].plan].staleAfter = clock + StaleTimeout]
  /\ UNCHANGED <<clock, runner>>

\* The handler has returned; the tick goes on with its next plan.
HandlerDone(r) ==
  /\ runner[r].pc = "run"
  /\ runner' = [runner EXCEPT ![r] = [Resting EXCEPT !.pc = "claim",
                                        !.now = runner[r].now, !.todo = runner[r].todo]]
  /\ UNCHANGED clock

FinishSuccess(r) ==
  /\ HandlerDone(r) /\ HoldsLease(r)
  /\ row' = [row EXCEPT ![runner[r].plan].status = "SUCCESS",
                        ![runner[r].plan].error = "none"]

FinishFailure(r) ==
  /\ HandlerDone(r) /\ HoldsLease(r)
  /\ row' = [row EXCEPT
       ![runner[r].plan].status = "FAILED",
       ![runner[r].plan].error = "handler_error",
       ![runner[r].plan].retryAt =
          IF runner[r].attempt < MaxAttempts THEN clock + Backoff ELSE 0]

\* The terminal write matches no row (ErrLeaseLost) or fails: logged.
FinishIgnored(r) == HandlerDone(r) /\ UNCHANGED row

Crash(r) ==
  /\ runner[r].pc # "idle"
  /\ runner' = [runner EXCEPT ![r] = Resting]
  /\ UNCHANGED <<clock, row>>

\* A runner that still has a claim ahead of it in its tick.
Claiming(r) == runner[r].pc \in {"sweep", "plan"} \/ runner[r].todo # {}

Tick ==
  /\ clock < MaxTime
  /\ \A r \in Steady :
       /\ Claiming(r) => clock < runner[r].now + TickLag
       /\ runner[r].pc = "run" => clock < runner[r].started + RunTimeout
  /\ clock' = clock + 1
  /\ UNCHANGED <<row, runner>>

Run(r) ==
  \/ TickStart(r) \/ MarkStaleAsFailed(r) \/ Plan(r) \/ TickDone(r)
  \/ \E p \in Plans : Claim(r, p) \/ Conflicted(r, p)
  \/ Heartbeat(r) \/ FinishSuccess(r) \/ FinishFailure(r) \/ FinishIgnored(r)
  \/ Crash(r)

Next == Tick \/ \E r \in Runners : Run(r)

Spec == Init /\ [][Next]_vars

-----------------------------------------------------------------------------
(* Properties                                                              *)

\* A runner that lost its lease "cannot rewrite a newer attempt's state"
\* (113_sys_cron_executions.up.sql:21-26): one attempt of one plan is never in
\* the hands of two runners, however leases are stolen, swept and retried.
OneHolder ==
  \A r, s \in Runners :
    /\ runner[r].pc = "run" /\ runner[s].pc = "run"
    /\ runner[r].plan = runner[s].plan
    /\ runner[r].attempt = runner[s].attempt
    => r = s

\* No handler runs ahead of the record: the row counts its attempt or a later
\* one, so a fenced runner always sees a row that is newer than its claim.
NoUnrecordedRun ==
  \A r \in Runners :
    runner[r].pc = "run" =>
      /\ row[runner[r].plan].status # "absent"
      /\ runner[r].attempt <= row[runner[r].plan].attempt

\* A plan that succeeded is never run, swept or relabelled again, although
\* late finishes, sweeps and planners with an old clock reading still come by.
SuccessIsFinal ==
  [][\A p \in Plans : row[p].status = "SUCCESS" => row'[p] = row[p]]_vars

\* A steady runner keeps its lease until its handler returns: no sweep and no
\* claim takes it away before the handler's timeout, whether or not a heartbeat
\* ever gets through and whatever paused replicas do.
SteadyKeepsLease == \A r \in Steady : runner[r].pc = "run" => HoldsLease(r)

\* spec.go:4-9, "only one instance wins the lease for a given plan; losers
\* no-op silently": of two replicas that are not paused, one runs a plan.
OneInstancePerPlan ==
  \A r, s \in Steady :
    /\ runner[r].pc = "run" /\ runner[s].pc = "run"
    /\ runner[r].plan = runner[s].plan
    => r = s
=============================================================================
