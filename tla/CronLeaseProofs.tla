-------------------------- MODULE CronLeaseProofs --------------------------
(* What CronLease promises for every number of replicas, every timeout and   *)
(* every bound on time.                                                      *)
EXTENDS CronLease, TLAPS

-----------------------------------------------------------------------------
(* Types                                                                     *)

\* Whatever the catch-up mode, a tick only plans times of the grid.
LEMMA PlansAreTyped ==
  ASSUME TypeOK, NEW now \in 0 .. MaxTime
  PROVE  PlansForTick(now) \in SUBSET Plans
<1>1. {now} \in SUBSET Plans  BY DEF Plans
<1>2. Known \in SUBSET Plans  BY DEF Known
<1>3. CatchUp \in Modes  BY JobAssumption
<1> DEFINE start == Resume(now)
           due == {p \in Plans : start <= p /\ p <= now}
<1>4. CASE CatchUp = "latest_only"
  BY <1>1, <1>4 DEF PlansForTick
<1>5. CASE CatchUp = "every_plan"
  <2> HIDE DEF start
  <2> QED  BY <1>5 DEF PlansForTick, start
<1>6. CASE CatchUp = "trigger"
  <2>1. PlansForTick(now) = IF start \in Known THEN {start} ELSE {p \in due : p = now}
    BY <1>6 DEF PlansForTick
  <2> HIDE DEF start
  <2> QED  BY <1>2, <2>1
<1> QED
  BY <1>3, <1>4, <1>5, <1>6 DEF Modes

LEMMA TypeInit == Init => TypeOK
  BY JobAssumption DEF Init, TypeOK, Execution, Process, Resting, Plans

LEMMA TypeNext == TypeOK /\ [Next]_vars => TypeOK'
<1> SUFFICES ASSUME TypeOK, [Next]_vars PROVE TypeOK'
  OBVIOUS
<1> USE JobAssumption DEF TypeOK
<1>1. CASE UNCHANGED vars
  BY <1>1 DEF vars
<1>2. CASE Tick
  BY <1>2 DEF Tick
<1>3. ASSUME NEW r \in Runners, Run(r) PROVE TypeOK'
  <2>0. /\ Resting \in Process
        /\ runner[r] \in Process
    BY DEF Resting, Process, Plans
  <2>1. CASE TickStart(r)
    <3>1. [Resting EXCEPT !.pc = "sweep", !.now = clock] \in Process
      BY <2>0 DEF Process, Resting
    <3> QED  BY <2>1, <3>1 DEF TickStart
  <2>2. CASE MarkStaleAsFailed(r)
    <3>1. row' \in [Plans -> Execution]
      BY <2>2 DEF MarkStaleAsFailed, Execution
    <3>2. runner' \in [Runners -> Process]
      <4>1. [runner[r] EXCEPT !.pc = "plan"] \in Process
        BY <2>0 DEF Process
      <4> QED  BY <2>2, <4>1 DEF MarkStaleAsFailed
    <3>3. \A p \in Plans : row'[p].status = "absent" <=> row'[p].attempt = 0
      BY <2>2 DEF MarkStaleAsFailed, Stale, Execution
    <3> QED  BY <2>2, <3>1, <3>2, <3>3 DEF MarkStaleAsFailed
  <2>3. CASE Plan(r)
    <3>1. PlansForTick(runner[r].now) \in SUBSET Plans
      BY <2>0, PlansAreTyped DEF Process
    <3>2. runner' \in [Runners -> Process]
      <4>1. \A T \in SUBSET Plans :
              [runner[r] EXCEPT !.pc = "claim", !.todo = T] \in Process
        BY <2>0 DEF Process
      <4>2. [runner[r] EXCEPT !.pc = "claim", !.todo = PlansForTick(runner[r].now)]
              \in Process
        BY <3>1, <4>1
      <4> QED  BY <2>3, <4>2 DEF Plan
    <3> QED  BY <2>3, <3>2 DEF Plan
  <2>4. ASSUME NEW p \in Plans, Claim(r, p) PROVE TypeOK'
    <3>1. row[p].attempt \in 0 .. MaxAttempts /\ row[p].attempt < MaxAttempts
      BY <2>4 DEF Claim, Free, Execution
    <3>2. row' \in [Plans -> Execution]
      <4>1. runner[r].now + StaleTimeout \in Nat
        BY <2>0 DEF Process
      <4> QED  BY <2>4, <3>1, <4>1 DEF Claim, Execution
    <3>3. runner' \in [Runners -> Process]
      <4>1. row[p].attempt + 1 \in 0 .. MaxAttempts /\ clock \in 0 .. MaxTime
        BY <3>1
      <4>2. runner[r].todo \ {p} \in SUBSET Plans
        BY <2>0 DEF Process
      <4>3. \A n \in 0 .. MaxAttempts, c \in 0 .. MaxTime, T \in SUBSET Plans :
              [runner[r] EXCEPT !.pc = "run", !.todo = T, !.plan = p,
                                !.attempt = n, !.started = c] \in Process
        BY <2>0 DEF Process
      <4>4. [runner[r] EXCEPT !.pc = "run", !.todo = runner[r].todo \ {p}, !.plan = p,
               !.attempt = row[p].attempt + 1, !.started = clock] \in Process
        BY <4>1, <4>2, <4>3
      <4> QED  BY <2>4, <4>4 DEF Claim
    <3>4. \A q \in Plans : row'[q].status = "absent" <=> row'[q].attempt = 0
      BY <2>4, <3>1 DEF Claim, Execution
    <3> QED  BY <2>4, <3>2, <3>3, <3>4 DEF Claim
  <2>5. ASSUME NEW p \in Plans, Conflicted(r, p) PROVE TypeOK'
    BY <2>5 DEF Conflicted, Process
  <2>6. CASE TickDone(r)
    BY <2>0, <2>6 DEF TickDone
  <2>7. CASE Heartbeat(r)
    <3>1. runner[r].plan \in Plans /\ clock + StaleTimeout \in Nat
      BY <2>0 DEF Process
    <3>2. row' \in [Plans -> Execution]
      BY <2>7, <3>1 DEF Heartbeat, Execution
    <3>3. \A q \in Plans : row'[q].status = "absent" <=> row'[q].attempt = 0
      BY <2>7, <3>1 DEF Heartbeat, Execution
    <3> QED  BY <2>7, <3>2, <3>3 DEF Heartbeat
  <2>8. ASSUME HandlerDone(r) PROVE runner' \in [Runners -> Process] /\ clock' = clock
    <3>1. [Resting EXCEPT !.pc = "claim", !.now = runner[r].now,
                          !.todo = runner[r].todo] \in Process
      BY <2>0 DEF Process, Resting
    <3> QED  BY <2>8, <3>1 DEF HandlerDone
  <2>9. CASE FinishSuccess(r)
    <3>1. runner[r].plan \in Plans
      BY <2>0 DEF Process
    <3>2. row' \in [Plans -> Execution]
      BY <2>9, <3>1 DEF FinishSuccess, Execution
    <3>3. \A q \in Plans : row'[q].status = "absent" <=> row'[q].attempt = 0
      BY <2>9, <3>1 DEF FinishSuccess, HoldsLease, Execution
    <3> QED  BY <2>8, <2>9, <3>2, <3>3 DEF FinishSuccess
  <2>10. CASE FinishFailure(r)
    <3>1. /\ runner[r].plan \in Plans
          /\ (IF runner[r].attempt < MaxAttempts THEN clock + Backoff ELSE 0) \in Nat
      BY <2>0 DEF Process
    <3>2. row' \in [Plans -> Execution]
      BY <2>10, <3>1 DEF FinishFailure, Execution
    <3>3. \A q \in Plans : row'[q].status = "absent" <=> row'[q].attempt = 0
      BY <2>10, <3>1 DEF FinishFailure, HoldsLease, Execution
    <3> QED  BY <2>8, <2>10, <3>2, <3>3 DEF FinishFailure
  <2>11. CASE FinishIgnored(r)
    BY <2>8, <2>11 DEF FinishIgnored
  <2>12. CASE Crash(r)
    BY <2>0, <2>12 DEF Crash
  <2> QED
    BY <1>3, <2>1, <2>2, <2>3, <2>4, <2>5, <2>6, <2>7, <2>9, <2>10, <2>11, <2>12
       DEF Run
<1> QED
  BY <1>1, <1>2, <1>3 DEF Next

\* Every reachable state is typed; in particular no plan is attempted more than
\* MaxAttempts times (113_sys_cron_executions.up.sql, chk_sys_cron_attempt).
THEOREM CronTyped == Spec => []TypeOK
<1> QED
  BY TypeInit, TypeNext, PTL DEF Spec

-----------------------------------------------------------------------------
(* Fencing: an attempt has one holder, and a finished plan is left alone     *)

Fenced == TypeOK /\ NoUnrecordedRun /\ OneHolder

\* A step that leaves every row's attempt where it was or raises it, makes no
\* runner run that did not, and changes no running runner's claim keeps Fenced.
LEMMA FencedByRest ==
  ASSUME Fenced, TypeOK',
         \A p \in Plans : row[p].attempt <= row'[p].attempt,
         \A s \in Runners : runner'[s].pc = "run" =>
           /\ runner[s].pc = "run"
           /\ runner'[s].plan = runner[s].plan
           /\ runner'[s].attempt = runner[s].attempt
  PROVE  Fenced'
<1>1. \A s \in Runners : runner[s] \in Process
  BY DEF Fenced, TypeOK
<1>2. \A p \in Plans : row[p] \in Execution /\ row'[p] \in Execution
  BY DEF Fenced, TypeOK
<1>3. NoUnrecordedRun'
  <2> SUFFICES ASSUME NEW s \in Runners, runner'[s].pc = "run"
               PROVE  /\ row'[runner'[s].plan].status # "absent"
                      /\ runner'[s].attempt <= row'[runner'[s].plan].attempt
    BY DEF NoUnrecordedRun
  <2> DEFINE p == runner[s].plan
  <2>1. /\ p \in Plans /\ runner'[s].plan = p
        /\ runner[s].attempt \in Int /\ row[p].attempt \in Nat /\ row'[p].attempt \in Nat
    BY <1>1, <1>2, JobAssumption DEF Process, Execution
  <2>2. row[p].status # "absent" /\ runner[s].attempt <= row[p].attempt
    BY DEF Fenced, NoUnrecordedRun
  <2>3. row[p].attempt # 0
    BY <2>1, <2>2 DEF Fenced, TypeOK
  <2>4. row'[p].attempt # 0
    BY <2>1, <2>3
  <2>5. row'[p].status # "absent"
    BY <2>1, <2>4 DEF TypeOK
  <2> QED  BY <2>1, <2>2, <2>5
<1>4. OneHolder'
  BY DEF OneHolder, Fenced
<1> QED
  BY <1>3, <1>4 DEF Fenced

\* A claim takes an attempt number nobody has.
LEMMA FencedByClaim ==
  ASSUME Fenced, TypeOK', NEW r \in Runners, NEW p \in Plans, Claim(r, p)
  PROVE  Fenced'
<1>1. /\ \A s \in Runners : runner[s] \in Process
      /\ \A q \in Plans : row[q] \in Execution
  BY DEF Fenced, TypeOK
<1>2. /\ row'[p].attempt = row[p].attempt + 1 /\ row'[p].status = "RUNNING"
      /\ \A q \in Plans : q # p => row'[q] = row[q]
  BY DEF Claim, Fenced, TypeOK
<1>3. /\ runner'[r].pc = "run" /\ runner'[r].plan = p
      /\ runner'[r].attempt = row[p].attempt + 1
      /\ \A s \in Runners : s # r => runner'[s] = runner[s]
  BY <1>1 DEF Claim, Fenced, TypeOK, Process
<1>4. \A s \in Runners : runner[s].pc = "run" /\ runner[s].plan = p
        => runner[s].attempt \in Int /\ runner[s].attempt <= row[p].attempt
  BY <1>1 DEF Fenced, NoUnrecordedRun, Process
<1>5. row[p].attempt \in Int
  BY <1>1 DEF Execution
<1>6. NoUnrecordedRun'
  <2> SUFFICES ASSUME NEW s \in Runners, runner'[s].pc = "run"
               PROVE  /\ row'[runner'[s].plan].status # "absent"
                      /\ runner'[s].attempt <= row'[runner'[s].plan].attempt
    BY DEF NoUnrecordedRun
  <2>1. CASE s = r
    BY <1>2, <1>3, <1>5, <2>1
  <2>2. CASE s # r /\ runner[s].plan = p
    BY <1>2, <1>3, <1>4, <1>5, <2>2
  <2>3. CASE s # r /\ runner[s].plan # p
    <3>1. runner[s].plan \in Plans
      BY <1>1 DEF Process
    <3> QED  BY <1>2, <1>3, <2>3, <3>1 DEF Fenced, NoUnrecordedRun
  <2> QED  BY <2>1, <2>2, <2>3
<1>7. OneHolder'
  BY <1>3, <1>4, <1>5 DEF OneHolder, Fenced
<1> QED
  BY <1>6, <1>7 DEF Fenced

LEMMA FencedNext == Fenced /\ [Next]_vars => Fenced'
<1> SUFFICES ASSUME Fenced, [Next]_vars PROVE Fenced'
  OBVIOUS
<1>0. TypeOK /\ TypeOK'
  BY TypeNext DEF Fenced
<1>1. \A p \in Plans : row[p] \in Execution /\ row[p].attempt \in Int
  BY <1>0 DEF TypeOK, Execution
<1>2. \A s \in Runners : runner[s] \in Process
  BY <1>0 DEF TypeOK
<1>3. ASSUME UNCHANGED row, \A s \in Runners : runner'[s].pc = "run" =>
               /\ runner[s].pc = "run"
               /\ runner'[s].plan = runner[s].plan
               /\ runner'[s].attempt = runner[s].attempt
      PROVE  Fenced'
  BY <1>0, <1>1, <1>3, FencedByRest
<1>4. CASE UNCHANGED vars
  BY <1>3, <1>4 DEF vars
<1>5. CASE Tick
  BY <1>3, <1>5 DEF Tick
<1>6. ASSUME NEW r \in Runners, Run(r) PROVE Fenced'
  <2>1. CASE TickStart(r)
    BY <1>0, <1>3, <2>1 DEF TickStart, Resting, TypeOK, Process
  <2>2. CASE MarkStaleAsFailed(r)
    <3>1. \A p \in Plans : row'[p].attempt = row[p].attempt
      BY <1>1, <2>2 DEF MarkStaleAsFailed, Execution
    <3>2. \A s \in Runners : runner'[s].pc = "run" =>
            runner[s].pc = "run" /\ runner'[s] = runner[s]
      BY <1>0, <1>2, <2>2 DEF MarkStaleAsFailed, TypeOK, Process
    <3> QED  BY <1>0, <1>1, <3>1, <3>2, FencedByRest
  <2>3. CASE Plan(r)
    BY <1>0, <1>2, <1>3, <2>3 DEF Plan, TypeOK, Process
  <2>4. ASSUME NEW p \in Plans, Claim(r, p) PROVE Fenced'
    BY <1>0, <2>4, FencedByClaim
  <2>5. ASSUME NEW p \in Plans, Conflicted(r, p) PROVE Fenced'
    BY <1>0, <1>2, <1>3, <2>5 DEF Conflicted, TypeOK, Process
  <2>6. CASE TickDone(r)
    BY <1>0, <1>3, <2>6 DEF TickDone, Resting, TypeOK, Process
  <2>7. CASE Heartbeat(r)
    <3>1. \A p \in Plans : row'[p].attempt = row[p].attempt
      BY <1>0, <1>1, <1>2, <2>7 DEF Heartbeat, TypeOK, Execution, Process
    <3> QED  BY <1>0, <1>1, <2>7, <3>1, FencedByRest DEF Heartbeat
  <2>8. ASSUME HandlerDone(r)
        PROVE  \A s \in Runners : runner'[s].pc = "run" =>
                 runner[s].pc = "run" /\ runner'[s] = runner[s]
    BY <1>0, <1>2, <2>8 DEF HandlerDone, Resting, TypeOK, Process
  <2>9. CASE FinishSuccess(r)
    <3>1. runner[r].plan \in Plans /\ row[runner[r].plan] \in Execution
      BY <1>1, <1>2 DEF Process
    <3>2. \A p \in Plans : p # runner[r].plan => row'[p] = row[p]
      BY <1>0, <2>9, <3>1 DEF FinishSuccess, TypeOK
    <3>3. row'[runner[r].plan].attempt = row[runner[r].plan].attempt
      BY <1>0, <2>9, <3>1 DEF FinishSuccess, TypeOK, Execution
    <3>4. \A p \in Plans : row'[p].attempt = row[p].attempt
      BY <3>2, <3>3
    <3>5. \A p \in Plans : row[p].attempt <= row'[p].attempt
      BY <1>1, <3>4
    <3>6. HandlerDone(r)
      BY <2>9 DEF FinishSuccess
    <3> QED  BY <1>0, <2>8, <3>5, <3>6, FencedByRest
  <2>10. CASE FinishFailure(r)
    <3>1. runner[r].plan \in Plans /\ row[runner[r].plan] \in Execution
      BY <1>1, <1>2 DEF Process
    <3>2. \A p \in Plans : p # runner[r].plan => row'[p] = row[p]
      BY <1>0, <2>10, <3>1 DEF FinishFailure, TypeOK
    <3>3. row'[runner[r].plan].attempt = row[runner[r].plan].attempt
      BY <1>0, <2>10, <3>1 DEF FinishFailure, TypeOK, Execution
    <3>4. \A p \in Plans : row'[p].attempt = row[p].attempt
      BY <3>2, <3>3
    <3>5. \A p \in Plans : row[p].attempt <= row'[p].attempt
      BY <1>1, <3>4
    <3>6. HandlerDone(r)
      BY <2>10 DEF FinishFailure
    <3> QED  BY <1>0, <2>8, <3>5, <3>6, FencedByRest
  <2>11. CASE FinishIgnored(r)
    BY <1>3, <2>8, <2>11 DEF FinishIgnored
  <2>12. CASE Crash(r)
    BY <1>0, <1>3, <2>12 DEF Crash, Resting, TypeOK, Process
  <2> QED
    BY <1>6, <2>1, <2>2, <2>3, <2>4, <2>5, <2>6, <2>7, <2>9, <2>10, <2>11, <2>12
       DEF Run
<1> QED
  BY <1>4, <1>5, <1>6 DEF Next

LEMMA FencedInit == Init => Fenced
<1> SUFFICES ASSUME Init PROVE Fenced
  OBVIOUS
<1>1. \A r \in Runners : runner[r].pc # "run"
  BY DEF Init, Resting
<1> QED
  BY <1>1, TypeInit DEF Fenced, NoUnrecordedRun, OneHolder

\* The lease token fences: an attempt is never in two runners' hands, and no
\* handler runs ahead of the record.
THEOREM LeaseFenced == Spec => [](OneHolder /\ NoUnrecordedRun)
<1>1. Fenced => OneHolder /\ NoUnrecordedRun
  BY DEF Fenced
<1> QED
  BY <1>1, FencedInit, FencedNext, PTL DEF Spec

\* One attempt of one plan has one holder.
THEOREM OneHolderSafe == Spec => []OneHolder
<1>1. OneHolder /\ NoUnrecordedRun => OneHolder
  OBVIOUS
<1> QED
  BY <1>1, LeaseFenced, PTL

\* No handler runs ahead of its plan's row.
THEOREM RunsAreRecorded == Spec => []NoUnrecordedRun
<1>1. OneHolder /\ NoUnrecordedRun => NoUnrecordedRun
  OBVIOUS
<1> QED
  BY <1>1, LeaseFenced, PTL

-----------------------------------------------------------------------------
(* SUCCESS is final                                                          *)

LEMMA SuccessStays ==
  ASSUME TypeOK, [Next]_vars, NEW p \in Plans, row[p].status = "SUCCESS"
  PROVE  row'[p] = row[p]
<1>1. CASE UNCHANGED vars
  BY <1>1 DEF vars
<1>2. CASE Tick
  BY <1>2 DEF Tick
<1>3. ASSUME NEW r \in Runners, Run(r) PROVE row'[p] = row[p]
  <2>1. CASE MarkStaleAsFailed(r)
    BY <2>1 DEF MarkStaleAsFailed, Stale
  <2>2. ASSUME NEW q \in Plans, Claim(r, q) PROVE row'[p] = row[p]
    <3>1. p # q
      BY <2>2 DEF Claim, Free, Stale
    <3> QED  BY <2>2, <3>1 DEF Claim, TypeOK
  <2>3. CASE Heartbeat(r)
    <3>1. p # runner[r].plan
      BY <2>3 DEF Heartbeat, HoldsLease
    <3> QED  BY <2>3, <3>1 DEF Heartbeat, TypeOK
  <2>4. CASE FinishSuccess(r)
    <3>1. p # runner[r].plan
      BY <2>4 DEF FinishSuccess, HoldsLease
    <3> QED  BY <2>4, <3>1 DEF FinishSuccess, TypeOK
  <2>5. CASE FinishFailure(r)
    <3>1. p # runner[r].plan
      BY <2>5 DEF FinishFailure, HoldsLease
    <3> QED  BY <2>5, <3>1 DEF FinishFailure, TypeOK
  <2>6. CASE UNCHANGED row
    BY <2>6
  <2> QED
    BY <1>3, <2>1, <2>2, <2>3, <2>4, <2>5, <2>6
       DEF Run, TickStart, Plan, Conflicted, TickDone, FinishIgnored, Crash
<1> QED
  BY <1>1, <1>2, <1>3 DEF Next

\* A plan that succeeded is never run, swept or relabelled again.
THEOREM SuccessFinal == Spec => SuccessIsFinal
<1>1. TypeOK /\ [Next]_vars
        => [\A p \in Plans : row[p].status = "SUCCESS" => row'[p] = row[p]]_vars
  BY SuccessStays
<1> QED
  BY <1>1, CronTyped, PTL DEF Spec, SuccessIsFinal

-----------------------------------------------------------------------------
(* Exclusion of steady runners                                               *)

\* A tick is never ahead of the clock.
ReadsPast == \A r \in Runners : runner[r].pc # "idle" => runner[r].now <= clock

\* Ticks and handlers of steady runners keep to their times.
OnTime ==
  \A r \in Steady :
    /\ Claiming(r) => clock <= runner[r].now + TickLag
    /\ runner[r].pc = "run" => /\ clock <= runner[r].started + RunTimeout
                               /\ runner[r].started <= runner[r].now + TickLag

\* A steady runner's lease is its own and lasts StaleTimeout from its tick.
Leased ==
  \A r \in Steady :
    runner[r].pc = "run" =>
      /\ HoldsLease(r)
      /\ runner[r].now + StaleTimeout <= row[runner[r].plan].staleAfter

Undisturbed == Fenced /\ ReadsPast /\ OnTime /\ Leased

\* The arithmetic of it: while a steady runner runs a plan, no tick of any
\* runner has read a clock that makes the plan's lease stale.
LEMMA NeverStale ==
  ASSUME Undisturbed, TickLag + RunTimeout <= StaleTimeout,
         NEW r \in Steady, runner[r].pc = "run",
         NEW s \in Runners, runner[s].pc # "idle"
  PROVE  ~ Stale(runner[r].plan, runner[s].now)
<1>1. /\ runner[r] \in Process /\ runner[s] \in Process
      /\ clock \in 0 .. MaxTime
  BY JobAssumption DEF Undisturbed, Fenced, TypeOK
<1>2. row[runner[r].plan].staleAfter \in Nat
  BY <1>1 DEF Undisturbed, Fenced, TypeOK, Process, Execution
<1>3. /\ clock <= runner[r].started + RunTimeout
      /\ runner[r].started <= runner[r].now + TickLag
  BY DEF Undisturbed, OnTime
<1>4. runner[r].now + StaleTimeout <= row[runner[r].plan].staleAfter
  BY DEF Undisturbed, Leased
<1>5. runner[s].now <= clock
  BY DEF Undisturbed, ReadsPast
<1>6. /\ runner[r].now \in Nat /\ runner[r].started \in Nat
      /\ runner[s].now \in Nat /\ clock \in Nat
  BY <1>1, JobAssumption DEF Process
<1>7. runner[s].now <= row[runner[r].plan].staleAfter
  BY <1>2, <1>3, <1>4, <1>5, <1>6, JobAssumption
<1> QED
  BY <1>2, <1>6, <1>7 DEF Stale

LEMMA UndisturbedInit == Init => Undisturbed
<1> SUFFICES ASSUME Init PROVE Undisturbed
  OBVIOUS
<1>1. \A r \in Runners : runner[r].pc = "idle" /\ runner[r].todo = {}
  BY DEF Init, Resting
<1> QED
  BY <1>1, FencedInit, JobAssumption
     DEF Undisturbed, ReadsPast, OnTime, Leased, Claiming

\* What each runner's own step does to its timing.
LEMMA TimingNext ==
  ASSUME Undisturbed, [Next]_vars
  PROVE  ReadsPast' /\ OnTime'
<1>0. /\ clock \in 0 .. MaxTime
      /\ \A s \in Runners : runner[s] \in Process
      /\ Steady \subseteq Runners
  BY JobAssumption DEF Undisturbed, Fenced, TypeOK
<1>1. CASE UNCHANGED vars
  BY <1>1 DEF vars, Undisturbed, ReadsPast, OnTime, Claiming
<1>2. CASE Tick
  <2>1. ReadsPast'
    BY <1>0, <1>2, JobAssumption DEF Tick, Undisturbed, ReadsPast, Process
  <2>2. OnTime'
    BY <1>0, <1>2, JobAssumption DEF Tick, Undisturbed, OnTime, Claiming, Process
  <2> QED  BY <2>1, <2>2
<1>3. ASSUME NEW r \in Runners, Run(r) PROVE ReadsPast' /\ OnTime'
  <2>1. /\ clock' = clock
        /\ \A s \in Runners : s # r => runner'[s] = runner[s]
    BY <1>0, <1>3 DEF Run, TickStart, MarkStaleAsFailed, Plan, TickDone, Claim,
       Conflicted, Heartbeat, FinishSuccess, FinishFailure, FinishIgnored,
       HandlerDone, Crash, Undisturbed, Fenced, TypeOK
  <2>2. /\ runner'[r].pc # "idle" => runner'[r].now <= clock
        /\ r \in Steady =>
             /\ Claiming(r)' => clock <= runner'[r].now + TickLag
             /\ runner'[r].pc = "run" =>
                  /\ clock <= runner'[r].started + RunTimeout
                  /\ runner'[r].started <= runner'[r].now + TickLag
    <3>0. /\ runner[r] \in Process /\ runner \in [Runners -> Process]
          /\ clock \in Nat /\ TickLag \in Nat /\ RunTimeout \in Nat
      BY <1>0, JobAssumption DEF Undisturbed, Fenced, TypeOK
    <3>1. CASE TickStart(r)
      <4>1. runner'[r].pc = "sweep" /\ runner'[r].now = clock
        BY <3>0, <3>1 DEF TickStart, Resting
      <4> QED  BY <3>0, <4>1
    <3>2. CASE MarkStaleAsFailed(r) \/ Plan(r)
      <4>1. /\ runner[r].pc \in {"sweep", "plan"} /\ runner'[r].pc \in {"plan", "claim"}
            /\ runner'[r].now = runner[r].now
        <5>1. CASE MarkStaleAsFailed(r)
          BY <3>0, <5>1 DEF MarkStaleAsFailed, Process
        <5>2. CASE Plan(r)
          BY <3>0, <5>2 DEF Plan, Process
        <5> QED  BY <3>2, <5>1, <5>2
      <4> QED  BY <3>0, <4>1 DEF Undisturbed, ReadsPast, OnTime, Claiming
    <3>3. ASSUME NEW p \in Plans, Conflicted(r, p) PROVE <2>2!1 /\ <2>2!2
      <4>1. /\ runner[r].pc = "claim" /\ runner'[r].pc = "claim"
            /\ runner'[r].now = runner[r].now
            /\ runner[r].todo # {}
        BY <3>0, <3>3 DEF Conflicted, IsNext, Process
      <4> QED  BY <3>0, <4>1 DEF Undisturbed, ReadsPast, OnTime, Claiming
    <3>4. ASSUME NEW p \in Plans, Claim(r, p) PROVE <2>2!1 /\ <2>2!2
      <4>1. /\ runner[r].pc = "claim" /\ runner'[r].pc = "run"
            /\ runner'[r].now = runner[r].now /\ runner'[r].started = clock
            /\ runner[r].todo # {}
        BY <3>0, <3>4 DEF Claim, IsNext, Process
      <4> QED  BY <3>0, <4>1 DEF Undisturbed, ReadsPast, OnTime, Claiming
    <3>5. CASE TickDone(r) \/ Crash(r)
      <4>1. runner'[r].pc = "idle" /\ runner'[r].todo = {}
        BY <3>0, <3>5 DEF TickDone, Crash, Resting
      <4> QED  BY <4>1 DEF Claiming
    <3>6. CASE Heartbeat(r)
      BY <3>6, <1>0 DEF Heartbeat, Undisturbed, ReadsPast, OnTime, Claiming
    <3>7. ASSUME HandlerDone(r) PROVE <2>2!1 /\ <2>2!2
      <4>1. /\ runner[r].pc = "run" /\ runner'[r].pc = "claim"
            /\ runner'[r].now = runner[r].now /\ runner'[r].todo = runner[r].todo
        BY <3>0, <3>7 DEF HandlerDone, Resting
      <4> QED  BY <3>0, <4>1 DEF Undisturbed, ReadsPast, OnTime, Claiming
    <3> QED
      BY <1>3, <3>1, <3>2, <3>3, <3>4, <3>5, <3>6, <3>7
         DEF Run, FinishSuccess, FinishFailure, FinishIgnored
  <2> QED
    BY <2>1, <2>2, <1>0 DEF Undisturbed, ReadsPast, OnTime, Claiming
<1> QED
  BY <1>1, <1>2, <1>3 DEF Next

\* Another runner's step leaves a steady runner's lease alone: it can neither
\* sweep it nor steal it nor finish it.
LEMMA LeaseUntouched ==
  ASSUME Undisturbed, TickLag + RunTimeout <= StaleTimeout,
         NEW r \in Steady, runner[r].pc = "run",
         NEW s \in Runners, s # r, Run(s)
  PROVE  LET p == runner[r].plan IN
         /\ row'[p].status = "RUNNING" /\ row'[p].attempt = row[p].attempt
         /\ row'[p].staleAfter = row[p].staleAfter
<1> DEFINE p == runner[r].plan
<1>0. /\ r \in Runners /\ TypeOK /\ OneHolder
      /\ runner[r] \in Process /\ runner[s] \in Process
      /\ p \in Plans /\ row[p] \in Execution
  BY JobAssumption DEF Undisturbed, Fenced, TypeOK, Process
<1>1. row[p].status = "RUNNING" /\ row[p].attempt = runner[r].attempt
  BY DEF Undisturbed, Leased, HoldsLease
<1>2. runner[s].pc # "idle" => ~ Stale(p, runner[s].now)
  BY NeverStale
<1>3. CASE MarkStaleAsFailed(s)
  <2>1. row'[p] = row[p]
    BY <1>0, <1>2, <1>3 DEF MarkStaleAsFailed
  <2> QED  BY <1>1, <2>1
<1>4. ASSUME NEW q \in Plans, Claim(s, q) PROVE row'[p] = row[p]
  <2>1. q # p
    BY <1>1, <1>2, <1>4 DEF Claim, Free
  <2> QED  BY <1>0, <1>4, <2>1 DEF Claim, TypeOK
<1>5. HoldsLease(s) => runner[s].plan # p
  BY <1>0, <1>1 DEF HoldsLease, OneHolder
<1>6. CASE Heartbeat(s)
  <2>1. row'[p] = row[p]
    BY <1>0, <1>5, <1>6 DEF Heartbeat, TypeOK
  <2> QED  BY <1>1, <2>1
<1>7. CASE FinishSuccess(s)
  <2>1. row'[p] = row[p]
    BY <1>0, <1>5, <1>7 DEF FinishSuccess, TypeOK
  <2> QED  BY <1>1, <2>1
<1>8. CASE FinishFailure(s)
  <2>1. row'[p] = row[p]
    BY <1>0, <1>5, <1>8 DEF FinishFailure, TypeOK
  <2> QED  BY <1>1, <2>1
<1>9. CASE UNCHANGED row
  BY <1>1, <1>9
<1> QED
  BY <1>1, <1>3, <1>4, <1>6, <1>7, <1>8, <1>9
     DEF Run, TickStart, Plan, Conflicted, TickDone, FinishIgnored, Crash

LEMMA LeasedNext ==
  ASSUME Undisturbed, [Next]_vars, TickLag + RunTimeout <= StaleTimeout
  PROVE  Leased'
<1> SUFFICES ASSUME NEW r \in Steady, runner'[r].pc = "run"
             PROVE  /\ HoldsLease(r)'
                    /\ runner'[r].now + StaleTimeout <= row'[runner'[r].plan].staleAfter
  BY DEF Leased
<1>0. /\ r \in Runners /\ TypeOK /\ StaleTimeout \in Nat
      /\ runner \in [Runners -> Process] /\ runner[r] \in Process
      /\ runner[r].plan \in Plans /\ row[runner[r].plan] \in Execution
      /\ clock \in Nat /\ runner[r].now \in Nat
      /\ row \in [Plans -> Execution]
  BY JobAssumption DEF Undisturbed, Fenced, TypeOK, Process
<1>1. ASSUME UNCHANGED <<row, runner>> PROVE HoldsLease(r)'
        /\ runner'[r].now + StaleTimeout <= row'[runner'[r].plan].staleAfter
  BY <1>1 DEF Undisturbed, Leased, HoldsLease
<1>2. CASE UNCHANGED vars \/ Tick
  BY <1>1, <1>2 DEF vars, Tick
<1>3. ASSUME NEW s \in Runners, Run(s), s # r PROVE HoldsLease(r)'
        /\ runner'[r].now + StaleTimeout <= row'[runner'[r].plan].staleAfter
  <2>1. runner'[r] = runner[r]
    BY <1>0, <1>3 DEF Run, TickStart, MarkStaleAsFailed, Plan, TickDone, Claim,
       Conflicted, Heartbeat, FinishSuccess, FinishFailure, FinishIgnored,
       HandlerDone, Crash
  <2>2. runner[r].pc = "run"
    BY <2>1
  <2> QED
    BY <1>3, <2>1, <2>2, LeaseUntouched DEF Undisturbed, Leased, HoldsLease
<1>4. ASSUME Run(r) PROVE HoldsLease(r)'
        /\ runner'[r].now + StaleTimeout <= row'[runner'[r].plan].staleAfter
  <2>1. ASSUME NEW p \in Plans, Claim(r, p) PROVE HoldsLease(r)'
        /\ runner'[r].now + StaleTimeout <= row'[runner'[r].plan].staleAfter
    <3>1. /\ runner'[r].plan = p /\ runner'[r].now = runner[r].now
          /\ runner'[r].attempt = row[p].attempt + 1
      BY <1>0, <2>1 DEF Claim, Process
    <3>2. /\ row'[p].status = "RUNNING" /\ row'[p].attempt = row[p].attempt + 1
          /\ row'[p].staleAfter = runner[r].now + StaleTimeout
      BY <1>0, <2>1 DEF Claim
    <3> QED  BY <1>0, <3>1, <3>2 DEF HoldsLease
  <2>2. CASE Heartbeat(r)
    <3>1. /\ runner' = runner /\ runner[r].pc = "run"
          /\ row[runner[r].plan].status = "RUNNING"
          /\ row[runner[r].plan].attempt = runner[r].attempt
      BY <2>2 DEF Heartbeat, HoldsLease
    <3>2. row'[runner[r].plan] =
            [row[runner[r].plan] EXCEPT !.staleAfter = clock + StaleTimeout]
      BY <1>0, <2>2 DEF Heartbeat
    <3>3. /\ row'[runner[r].plan].status = "RUNNING"
          /\ row'[runner[r].plan].attempt = runner[r].attempt
          /\ row'[runner[r].plan].staleAfter = clock + StaleTimeout
      BY <1>0, <3>1, <3>2 DEF Execution
    <3>4. runner[r].now <= clock
      BY <1>0, <3>1 DEF Undisturbed, ReadsPast
    <3> QED  BY <1>0, <3>1, <3>3, <3>4 DEF HoldsLease
  <2>3. CASE TickStart(r) \/ MarkStaleAsFailed(r) \/ Plan(r) \/ TickDone(r) \/ Crash(r)
    <3>1. CASE TickStart(r) \/ TickDone(r) \/ Crash(r)
      <4>1. runner'[r].pc \in {"sweep", "idle"}
        <5>1. CASE TickStart(r)
          BY <1>0, <5>1 DEF TickStart, Resting
        <5>2. CASE TickDone(r) \/ Crash(r)
          BY <1>0, <5>2 DEF TickDone, Crash, Resting
        <5> QED  BY <3>1, <5>1, <5>2
      <4> QED  BY <4>1
    <3>2. CASE MarkStaleAsFailed(r)
      BY <1>0, <3>2 DEF MarkStaleAsFailed, Process
    <3>3. CASE Plan(r)
      <4>1. runner'[r].pc = "claim"
        BY <1>0, <3>3 DEF Plan, Process
      <4> QED  BY <4>1
    <3> QED  BY <2>3, <3>1, <3>2, <3>3
  <2>4. ASSUME NEW p \in Plans, Conflicted(r, p) PROVE FALSE
    BY <1>0, <2>4 DEF Conflicted, Process
  <2>5. CASE HandlerDone(r)
    BY <1>0, <2>5 DEF HandlerDone, Resting
  <2> QED
    BY <1>4, <2>1, <2>2, <2>3, <2>4, <2>5
       DEF Run, FinishSuccess, FinishFailure, FinishIgnored
<1> QED
  BY <1>2, <1>3, <1>4 DEF Next

LEMMA UndisturbedNext ==
  ASSUME TickLag + RunTimeout <= StaleTimeout
  PROVE  Undisturbed /\ [Next]_vars => Undisturbed'
<1> QED
  BY FencedNext, TimingNext, LeasedNext DEF Undisturbed

\* When a tick's last claim and a handler's timeout fit into StaleTimeout, a
\* replica that keeps to them keeps its lease while its handler runs, whatever
\* paused, crashed or late replicas do: the timing JobSpec.validate only checks
\* half of.
THEOREM SteadyLease ==
  ASSUME TickLag + RunTimeout <= StaleTimeout
  PROVE  Spec => []SteadyKeepsLease
<1>1. Undisturbed => SteadyKeepsLease
  BY DEF Undisturbed, Leased, SteadyKeepsLease
<1>2. Undisturbed /\ [Next]_vars => Undisturbed'
  BY UndisturbedNext
<1> QED
  BY <1>1, <1>2, UndisturbedInit, PTL DEF Spec

\* With that timing, two replicas that keep to it never run one plan at once.
THEOREM SteadyExclusive ==
  ASSUME TickLag + RunTimeout <= StaleTimeout
  PROVE  Spec => []OneInstancePerPlan
<1>1. Undisturbed => OneInstancePerPlan
  <2> SUFFICES ASSUME Undisturbed, NEW r \in Steady, NEW s \in Steady,
                      runner[r].pc = "run", runner[s].pc = "run",
                      runner[r].plan = runner[s].plan
               PROVE  r = s
    BY DEF OneInstancePerPlan
  <2>1. r \in Runners /\ s \in Runners
    BY JobAssumption
  <2>2. runner[r].attempt = runner[s].attempt
    BY DEF Undisturbed, Leased, HoldsLease
  <2> QED
    BY <2>1, <2>2 DEF Undisturbed, Fenced, OneHolder
<1>2. Undisturbed /\ [Next]_vars => Undisturbed'
  BY UndisturbedNext
<1> QED
  BY <1>1, <1>2, UndisturbedInit, PTL DEF Spec
=============================================================================
