------------------------- MODULE DaemonTasksProofs -------------------------
(* What DaemonTasks promises for any number of runtimes, rows and slots.     *)
EXTENDS DaemonTasks, FiniteSetTheorems, TLAPS

-----------------------------------------------------------------------------
(* Types                                                                     *)

\* A poller that claims holds a slot, an idle one nothing.
PollersOwn ==
  \A r \in Runtimes :
    IF poller[r].pc = "idle" THEN poller[r] = Unclaimed ELSE poller[r].slot \in Slots

Typed == TypeOK /\ PollersOwn

\* The empty records are of their type.
LEMMA EmptyTyped == Unclaimed \in PollerState /\ NoRun \in RunState
  BY DEF Unclaimed, PollerState, NoRun, RunState

LEMMA TypedInit == Init => Typed
<1> SUFFICES ASSUME Init PROVE Typed
  OBVIOUS
<1>1. /\ poller \in [Runtimes -> PollerState]
      /\ run \in [Slots -> RunState]
      /\ \A s \in Slots : run[s].pc = "none"
      /\ PollersOwn
  <2>1. NoRun.pc = "none" /\ Unclaimed.pc = "idle"
    BY DEF NoRun, Unclaimed
  <2> QED  BY <2>1, EmptyTyped DEF Init, PollersOwn
<1>2. registering \in BOOLEAN /\ pauseClaims \in BOOLEAN
  BY Zenon DEF Init
<1> QED  BY <1>1, <1>2 DEF Init, Typed, TypeOK, Statuses

\* What is left of TypeOK when a run moves on or returns.
RunsOK ==
  /\ run \in [Slots -> RunState]
  /\ \A q \in Slots : run[q].pc # "none" => run[q].row \in Rows

LEMMA GotoTyped ==
  ASSUME RunsOK, NEW s \in Slots, InHand(s), NEW pc, Goto(s, pc),
         pc \in {"taken", "park", "wait", "prepare", "agent", "fail", "report"}
  PROVE  RunsOK'
<1>1. [run[s] EXCEPT !.pc = pc] \in RunState
  BY DEF RunsOK, RunState
<1>2. \A q \in Slots : run'[q] = IF q = s THEN [run[s] EXCEPT !.pc = pc] ELSE run[q]
  BY DEF RunsOK, Goto
<1>3. run' \in [Slots -> RunState]
  BY <1>1 DEF RunsOK, Goto
<1>4. run'[s].row = run[s].row
  BY <1>2 DEF RunsOK, RunState
<1> QED  BY <1>2, <1>3, <1>4 DEF RunsOK, InHand

LEMMA SeenTyped ==
  ASSUME RunsOK, NEW s \in Slots, InHand(s), NEW b \in BOOLEAN,
         NEW pc \in {"wait", "prepare", "agent"},
         run' = [run EXCEPT ![s].pc = pc, ![s].seen = b]
  PROVE  RunsOK'
<1> DEFINE new == [[run[s] EXCEPT !.pc = pc] EXCEPT !.seen = b]
<1>1. new \in RunState /\ new.row = run[s].row
  BY DEF RunsOK, RunState
<1>2. \A q \in Slots : run'[q] = IF q = s THEN new ELSE run[q]
  BY DEF RunsOK
<1>3. run' \in [Slots -> RunState]
  BY <1>1 DEF RunsOK
<1> HIDE DEF new
<1> QED  BY <1>1, <1>2, <1>3 DEF RunsOK, InHand

LEMMA ReturnTyped ==
  ASSUME Typed, NEW s \in Slots, Return(s)
  PROVE  /\ RunsOK'
         /\ sem' \subseteq Slots
         /\ activeTasks' \in Int /\ claimsInFlight' \in Int
<1>1. RunsOK'
  BY EmptyTyped DEF Typed, TypeOK, RunsOK, Return, NoRun
<1> QED  BY <1>1 DEF Typed, TypeOK, Return

\* What is left of Typed when only a poller moves.
PollersOK == poller \in [Runtimes -> PollerState] /\ PollersOwn

LEMMA PollerTyped ==
  ASSUME PollersOK, NEW r \in Runtimes, NEW p \in PollerState,
         poller' = [poller EXCEPT ![r] = p],
         IF p.pc = "idle" THEN p = Unclaimed ELSE p.slot \in Slots
  PROVE  PollersOK'
<1>1. \A q \in Runtimes : poller'[q] = IF q = r THEN p ELSE poller[q]
  BY DEF PollersOK
<1> QED  BY <1>1 DEF PollersOK, PollersOwn

LEMMA TypedNext == Typed /\ [Next]_vars => Typed'
<1> SUFFICES ASSUME Typed, [Next]_vars PROVE Typed'
  OBVIOUS
<1> USE TasksAssumption DEF Typed
<1>1. CASE UNCHANGED vars
  BY <1>1 DEF vars, TypeOK, PollersOwn, serverVars, recoveryVars, countVars, lockVars
<1>0. /\ PollersOK /\ (PollersOK' => poller' \in [Runtimes -> PollerState] /\ PollersOwn')
      /\ RunsOK /\ (RunsOK' => /\ run' \in [Slots -> RunState]
                              /\ \A q \in Slots : run'[q].pc # "none" => run'[q].row \in Rows)
  BY DEF PollersOK, RunsOK, TypeOK
<1>2. CASE Process
  <2> USE DEF serverVars, recoveryVars, countVars, lockVars
  <2>1. CASE ProcessEnds
    <3>1. NoRun.pc = "none" /\ Unclaimed.pc = "idle"
      BY DEF NoRun, Unclaimed
    <3>2. PollersOK' /\ RunsOK'
      BY <2>1, <3>1, EmptyTyped DEF ProcessEnds, PollersOK, PollersOwn, RunsOK
    <3>3. registering' \in BOOLEAN /\ pauseClaims' \in BOOLEAN
      BY <2>1, Zenon DEF ProcessEnds
    <3> QED  BY <1>0, <2>1, <3>2, <3>3 DEF ProcessEnds, TypeOK
  <2>2. CASE Boot \/ BootDone \/ Stop \/ AutoRestart \/ TrySetClaimBarrier
             \/ ReleaseClaimBarrier
    BY <2>2 DEF Boot, BootDone, Stop, TrySetClaimBarrier, ReleaseClaimBarrier,
       AutoRestart, CancelRoot, TypeOK, PollersOwn
  <2>3. CASE SyncWorkspace \/ Reregister \/ ReregisterFails \/ GrantAbandoned
             \/ ReleaseAbandoned
    <3>1. registering' \in BOOLEAN
      BY <2>3, Zenon DEF SyncWorkspace, Reregister, ReregisterFails, GrantAbandoned,
         ReleaseAbandoned, TypeOK
    <3> QED  BY <2>3, <3>1 DEF SyncWorkspace, Reregister, ReregisterFails, GrantAbandoned,
         ReleaseAbandoned, TypeOK, PollersOwn
  <2> QED  BY <1>2, <2>1, <2>2, <2>3 DEF Process
<1>3. ASSUME NEW r \in Runtimes, OfRuntime(r) PROVE Typed'
  <2> DEFINE p == poller[r]
  <2>0. p \in PollerState
    BY <1>0 DEF PollersOK
  <2>1. CASE EnterClaim(r)
    <3>1. PICK s \in sem : /\ sem' = sem \ {s}
                           /\ poller' = [poller EXCEPT ![r].pc = "claim", ![r].slot = s]
      BY <2>1 DEF EnterClaim
    <3>2. s \in Slots
      BY DEF TypeOK
    <3> DEFINE n == [[p EXCEPT !.pc = "claim"] EXCEPT !.slot = s]
    <3>3. n \in PollerState /\ n.pc = "claim" /\ n.slot = s
      BY <2>0, <3>2 DEF PollerState
    <3>4. poller' = [poller EXCEPT ![r] = n]
      BY <1>0, <3>1 DEF PollersOK
    <3> HIDE DEF n
    <3>5. PollersOK'
      BY <1>0, <3>2, <3>3, <3>4, PollerTyped
    <3> QED  BY <1>0, <2>1, <3>1, <3>5
                DEF EnterClaim, TypeOK, serverVars, recoveryVars, lockVars
  <2>2. CASE ClaimTask(r) \/ ClaimEmpty(r)
    <3>1. PICK a \in Rows \cup {None} :
            \/ poller' = [poller EXCEPT ![r].pc = "answer", ![r].row = a]
            \/ poller' = [poller EXCEPT ![r].pc = "answer"]
      BY <2>2 DEF ClaimTask, ClaimEmpty, Offered
    <3>2. \A n \in {[[p EXCEPT !.pc = "answer"] EXCEPT !.row = a],
                    [p EXCEPT !.pc = "answer"]} :
            n \in PollerState /\ n.pc = "answer" /\ n.slot = p.slot
      BY <2>0 DEF PollerState
    <3>3. PICK n : n \in PollerState /\ n.pc = "answer" /\ n.slot = p.slot
                   /\ poller' = [poller EXCEPT ![r] = n]
      BY <3>1, <3>2
    <3>4. p.slot \in Slots
      BY <1>0, <2>2 DEF ClaimTask, ClaimEmpty, PollersOK, PollersOwn
    <3>5. PollersOK'
      BY <1>0, <3>3, <3>4, PollerTyped
    <3>6. status' \in [Rows -> Statuses]
      BY <2>2 DEF ClaimTask, ClaimEmpty, TypeOK, Statuses, serverVars
    <3> QED  BY <1>0, <2>2, <3>5, <3>6
                DEF ClaimTask, ClaimEmpty, TypeOK, serverVars, recoveryVars, countVars, lockVars
  <2>3. CASE ExitClaim(r) \/ HandOff(r)
    <3>1. p.slot \in Slots
      BY <1>0, <2>3 DEF ExitClaim, HandOff, PollersOK, PollersOwn
    <3>2. PollersOK'
      <4>1. Unclaimed.pc = "idle"
        BY DEF Unclaimed
      <4> QED  BY <1>0, <2>3, <4>1, EmptyTyped, PollerTyped DEF ExitClaim, HandOff
    <3>3. RunsOK'
      <4>1. CASE ExitClaim(r)
        BY <1>0, <4>1 DEF ExitClaim, RunsOK
      <4>2. CASE HandOff(r)
        <5> DEFINE n == [NoRun EXCEPT !.pc = "taken", !.row = p.row]
        <5>1. p.row \in Rows
          BY <2>0, <4>2 DEF HandOff, PollerState
        <5>2. n \in RunState /\ n.row = p.row
          BY <5>1 DEF RunState, NoRun
        <5>3. run' = [run EXCEPT ![p.slot] = n]
          BY <4>2 DEF HandOff
        <5> HIDE DEF n
        <5> QED  BY <1>0, <5>1, <5>2, <5>3 DEF RunsOK
      <4> QED  BY <2>3, <4>1, <4>2
    <3> QED  BY <1>0, <2>3, <3>1, <3>2, <3>3
                DEF ExitClaim, HandOff, TypeOK, serverVars, recoveryVars, lockVars
  <2>4. CASE DeleteRuntime(r) \/ HandleRuntimeGone(r) \/ RecoverOrphans(r)
             \/ RecoverOrphansFails(r)
    BY <2>4 DEF DeleteRuntime, HandleRuntimeGone, RecoverOrphans, RecoverOrphansFails,
       Finalized, Stranded, TypeOK, PollersOwn, Statuses, serverVars, recoveryVars,
       countVars, lockVars
  <2> QED  BY <1>3, <2>1, <2>2, <2>3, <2>4 DEF OfRuntime, Poll
<1>4. ASSUME NEW s \in Slots, OfSlot(s) PROVE Typed'
  <2> USE DEF PollersOwn, serverVars, recoveryVars, countVars, lockVars
  <2>0. RunsOK /\ (RunsOK' => /\ run' \in [Slots -> RunState]
                              /\ \A q \in Slots : run'[q].pc # "none" => run'[q].row \in Rows)
    BY DEF RunsOK, TypeOK
  <2>1. CASE TakePath(s) \/ PathInvalid(s) \/ PathBusy(s)
    <3>1. RunsOK'
      BY <2>0, <2>1, GotoTyped DEF TakePath, PathInvalid, PathBusy, InHand
    <3> QED  BY <2>0, <2>1, <3>1 DEF TakePath, PathInvalid, PathBusy, TypeOK
  <2>2. CASE MarkTaskWaitingLocalDirectory(s) \/ StartTask(s)
    <3>1. RunsOK'
      BY <2>0, <2>2, GotoTyped DEF MarkTaskWaitingLocalDirectory, StartTask, InHand
    <3> QED  BY <2>0, <2>2, <3>1 DEF MarkTaskWaitingLocalDirectory, StartTask, TypeOK, Statuses
  <2>3. CASE WaitWon(s)
    <3>1. RunsOK'
      BY <2>0, <2>3, SeenTyped DEF WaitWon, InHand
    <3> QED  BY <2>0, <2>3, <3>1 DEF WaitWon, TypeOK
  <2>4. CASE WatchTaskCancellation(s)
    <3>0. \A b \in BOOLEAN : [run[s] EXCEPT !.seen = b] \in RunState
                             /\ [run[s] EXCEPT !.seen = b].row = run[s].row
      BY <2>0 DEF RunsOK, RunState
    <3>1. [run[s] EXCEPT !.seen = TRUE] \in RunState
          /\ [run[s] EXCEPT !.seen = TRUE].row = run[s].row
      BY <3>0
    <3>2. RunsOK'
      BY <2>0, <2>4, <3>1 DEF RunsOK, WatchTaskCancellation
    <3> QED  BY <2>0, <2>4, <3>2 DEF WatchTaskCancellation, TypeOK
  <2>5. CASE GrantPath(s)
    BY <2>5 DEF GrantPath, TypeOK
  <2>6. CASE WaitGivenUp(s)
    BY <2>0, <2>6, ReturnTyped DEF WaitGivenUp, TypeOK
  <2>7. CASE RunTaskFails(s) \/ FailInstead(s) \/ AgentEnds(s)
    <3>1. RunsOK'
      BY <2>0, <2>7, GotoTyped DEF RunTaskFails, FailInstead, AgentEnds, InHand
    <3> QED  BY <2>0, <2>7, <3>1 DEF RunTaskFails, FailInstead, AgentEnds, TypeOK
  <2>8. CASE RunInterrupted(s) \/ CheckStatus(s) \/ CallLost(s)
    <3>1. run[s].row \in Rows
      BY <2>8 DEF RunInterrupted, CheckStatus, CallLost, TypeOK
    <3> QED  BY <2>0, <2>8, <3>1, ReturnTyped
                DEF RunInterrupted, CheckStatus, CallLost, ReturnPath, TypeOK
  <2>9. CASE CompleteTask(s) \/ FailTask(s)
    BY <2>0, <2>9, ReturnTyped
       DEF CompleteTask, FailTask, ReturnPath, Finalized, Statuses, TypeOK
  <2> QED
    BY <1>4, <2>1, <2>2, <2>3, <2>4, <2>5, <2>6, <2>7, <2>8, <2>9 DEF OfSlot, Handle
<1>5. ASSUME NEW t \in Rows, ServerEndsRow(t) PROVE Typed'
  BY <1>5 DEF ServerEndsRow, Finalized, TypeOK, PollersOwn, Statuses, serverVars,
     recoveryVars, countVars, lockVars
<1> QED  BY <1>1, <1>2, <1>3, <1>4, <1>5 DEF Next

LEMMA AlwaysTyped == Spec => []Typed
  BY TypedInit, TypedNext, PTL DEF Spec

\* The daemon's state keeps its type: a run in hand has a row, a claim a slot.
THEOREM TypeCorrect == Spec => []TypeOK
<1>1. Typed => TypeOK
  BY DEF Typed
<1> QED  BY <1>1, AlwaysTyped, PTL

-----------------------------------------------------------------------------
(* Slots and the barrier.  Both depend on the state through three values: the *)
(* slot of each poller, the slots in hand and the semaphore.                  *)

slotOf == [r \in Runtimes |-> poller[r].slot]
hands == {s \in Slots : InHand(s)}
callers == {r \in Runtimes : slotOf[r] # None}

slotVars == <<slotOf, hands, sem, activeTasks, claimsInFlight, pauseClaims>>

LEMMA CallersClaim ==
  ASSUME Typed
  PROVE  \A r \in Runtimes : /\ Claiming(r) <=> slotOf[r] # None
                             /\ Claiming(r) <=> slotOf[r] \in Slots
<1>1. Unclaimed.slot = None
  BY DEF Unclaimed
<1>2. \A r \in Runtimes : poller[r].pc \in {"idle", "claim", "answer"}
  BY DEF Typed, TypeOK, PollerState
<1> QED  BY <1>1, <1>2, TasksAssumption DEF Typed, PollersOwn, slotOf, Claiming

Enters(r, s) ==
  /\ s \in sem /\ slotOf[r] = None /\ ~ pauseClaims
  /\ slotOf' = [slotOf EXCEPT ![r] = s] /\ sem' = sem \ {s}
  /\ claimsInFlight' = claimsInFlight + 1
  /\ UNCHANGED <<hands, activeTasks, pauseClaims>>

Exits(r) ==
  /\ slotOf[r] \in Slots
  /\ slotOf' = [slotOf EXCEPT ![r] = None] /\ sem' = sem \cup {slotOf[r]}
  /\ claimsInFlight' = claimsInFlight - 1
  /\ UNCHANGED <<hands, activeTasks, pauseClaims>>

HandsOff(r) ==
  /\ slotOf[r] \in Slots
  /\ slotOf' = [slotOf EXCEPT ![r] = None] /\ hands' = hands \cup {slotOf[r]}
  /\ activeTasks' = activeTasks + 1
  /\ UNCHANGED <<sem, claimsInFlight, pauseClaims>>

Returns(s) ==
  /\ s \in hands
  /\ hands' = hands \ {s} /\ sem' = sem \cup {s}
  /\ activeTasks' = activeTasks - 1 /\ claimsInFlight' = claimsInFlight - 1
  /\ UNCHANGED <<slotOf, pauseClaims>>

Closes ==
  /\ pauseClaims' => activeTasks = 0 /\ claimsInFlight = 0
  /\ UNCHANGED <<slotOf, hands, sem, activeTasks, claimsInFlight>>

Restarts ==
  /\ slotOf' = [r \in Runtimes |-> None] /\ hands' = {} /\ sem' = Slots
  /\ activeTasks' = 0 /\ claimsInFlight' = 0 /\ pauseClaims' = FALSE

LEMMA PollsInSlots ==
  ASSUME Typed, NEW r \in Runtimes, Poll(r)
  PROVE  UNCHANGED slotVars \/ (\E s \in Slots : Enters(r, s)) \/ Exits(r) \/ HandsOff(r)
<1> DEFINE p == poller[r]
<1>0. /\ poller \in [Runtimes -> PollerState] /\ run \in [Slots -> RunState]
      /\ p \in PollerState
  BY DEF Typed, TypeOK
<1>1. CASE EnterClaim(r)
  <2>1. PICK s \in sem : /\ sem' = sem \ {s}
                         /\ poller' = [poller EXCEPT ![r].pc = "claim", ![r].slot = s]
    BY <1>1 DEF EnterClaim
  <2>2. s \in Slots
    BY DEF Typed, TypeOK
  <2>3. slotOf' = [slotOf EXCEPT ![r] = s]
    BY <1>0, <2>1 DEF slotOf, PollerState
  <2>4. slotOf[r] = None
    BY <1>1, CallersClaim DEF EnterClaim, Idle, Claiming
  <2>5. hands' = hands
    BY <1>1 DEF EnterClaim, hands, InHand
  <2> QED  BY <1>1, <2>1, <2>2, <2>3, <2>4, <2>5 DEF EnterClaim, Enters
<1>2. CASE ClaimTask(r) \/ ClaimEmpty(r)
  <2>1. PICK a : \/ poller' = [poller EXCEPT ![r].pc = "answer", ![r].row = a]
                 \/ poller' = [poller EXCEPT ![r].pc = "answer"]
    BY <1>2 DEF ClaimTask, ClaimEmpty
  <2>2. slotOf' = slotOf
    BY <1>0, <2>1 DEF slotOf, PollerState
  <2> QED  BY <1>2, <2>2 DEF ClaimTask, ClaimEmpty, slotVars, hands, InHand, countVars
<1>3. CASE ExitClaim(r) \/ HandOff(r)
  <2>1. slotOf' = [slotOf EXCEPT ![r] = None]
    <3>1. poller' = [poller EXCEPT ![r] = Unclaimed] /\ Unclaimed.slot = None
      BY <1>3 DEF ExitClaim, HandOff, Unclaimed
    <3> QED  BY <1>0, <3>1 DEF slotOf
  <2>2. slotOf[r] \in Slots /\ slotOf[r] = p.slot
    BY <1>3, CallersClaim DEF ExitClaim, HandOff, Claiming, slotOf
  <2>3. CASE ExitClaim(r)
    BY <2>1, <2>2, <2>3 DEF ExitClaim, Exits, hands, InHand
  <2>4. CASE HandOff(r)
    <3>1. [NoRun EXCEPT !.pc = "taken", !.row = p.row].pc = "taken"
      BY DEF NoRun
    <3>2. hands' = hands \cup {slotOf[r]}
      BY <1>0, <2>2, <2>4, <3>1 DEF HandOff, hands, InHand
    <3> QED  BY <2>1, <2>2, <2>4, <3>2 DEF HandOff, HandsOff
  <2> QED  BY <1>3, <2>3, <2>4
<1> QED  BY <1>1, <1>2, <1>3 DEF Poll

LEMMA RunsInSlots ==
  ASSUME Typed, NEW s \in Slots, OfSlot(s)
  PROVE  UNCHANGED slotVars \/ Returns(s)
<1>0. run \in [Slots -> RunState]
  BY DEF Typed, TypeOK
<1> USE DEF slotVars, countVars
<1>1. ASSUME NEW pc, pc # "none", Goto(s, pc), InHand(s) PROVE hands' = hands
  BY <1>0, <1>1 DEF Goto, hands, InHand, RunState
<1>2. ASSUME Return(s), InHand(s), UNCHANGED <<poller, pauseClaims>> PROVE Returns(s)
  <2>1. NoRun.pc = "none"
    BY DEF NoRun
  <2>2. hands' = hands \ {s}
    BY <1>0, <1>2, <2>1 DEF Return, hands, InHand
  <2> QED  BY <1>2, <2>2 DEF Return, Returns, hands, slotOf
<1>3. CASE TakePath(s) \/ PathInvalid(s) \/ PathBusy(s) \/ MarkTaskWaitingLocalDirectory(s)
           \/ StartTask(s) \/ RunTaskFails(s) \/ FailInstead(s) \/ AgentEnds(s)
  <2>1. hands' = hands
    BY <1>1, <1>3 DEF TakePath, PathInvalid, PathBusy, MarkTaskWaitingLocalDirectory,
       StartTask, RunTaskFails, FailInstead, AgentEnds, InHand
  <2> QED  BY <1>3, <2>1 DEF slotOf, TakePath, PathInvalid, PathBusy,
       MarkTaskWaitingLocalDirectory, StartTask, RunTaskFails, FailInstead, AgentEnds
<1>4. CASE WaitWon(s) \/ WatchTaskCancellation(s)
  <2>1. hands' = hands
    BY <1>0, <1>4 DEF WaitWon, WatchTaskCancellation, hands, InHand, RunState
  <2> QED  BY <1>4, <2>1 DEF slotOf, WaitWon, WatchTaskCancellation
<1>5. CASE GrantPath(s)
  BY <1>5 DEF GrantPath, slotOf, hands, InHand
<1>6. CASE WaitGivenUp(s) \/ RunInterrupted(s) \/ CheckStatus(s) \/ CallLost(s)
           \/ CompleteTask(s) \/ FailTask(s)
  BY <1>2, <1>6 DEF WaitGivenUp, RunInterrupted, CheckStatus, CallLost, CompleteTask,
     FailTask, ReturnPath, InHand
<1> QED  BY <1>3, <1>4, <1>5, <1>6 DEF OfSlot, Handle

\* What a step may do to slots, counts and barrier.
LEMMA SlotSteps ==
  ASSUME Typed, [Next]_vars
  PROVE  \/ UNCHANGED slotVars \/ Closes \/ Restarts
         \/ \E r \in Runtimes : (\E s \in Slots : Enters(r, s)) \/ Exits(r) \/ HandsOff(r)
         \/ \E s \in Slots : Returns(s)
<1> USE DEF slotVars, countVars, serverVars
<1>1. CASE UNCHANGED vars
  BY <1>1 DEF vars, slotOf, hands, InHand
<1>2. CASE Process
  <2>1. CASE ProcessEnds
    <3>1. NoRun.pc = "none" /\ Unclaimed.slot = None
      BY DEF NoRun, Unclaimed
    <3> QED  BY <2>1, <3>1 DEF ProcessEnds, Restarts, slotOf, hands, InHand
  <2>2. CASE TrySetClaimBarrier \/ ReleaseClaimBarrier
    BY <2>2 DEF TrySetClaimBarrier, ReleaseClaimBarrier, Closes, slotOf, hands, InHand
  <2>3. CASE Boot \/ BootDone \/ Stop \/ AutoRestart \/ SyncWorkspace \/ Reregister
             \/ ReregisterFails \/ GrantAbandoned \/ ReleaseAbandoned
    BY <2>3 DEF Boot, BootDone, Stop, AutoRestart, CancelRoot, SyncWorkspace, Reregister,
       ReregisterFails, GrantAbandoned, ReleaseAbandoned, slotOf, hands, InHand
  <2> QED  BY <1>2, <2>1, <2>2, <2>3 DEF Process
<1>3. ASSUME NEW r \in Runtimes, OfRuntime(r)
      PROVE  UNCHANGED slotVars \/ (\E s \in Slots : Enters(r, s)) \/ Exits(r) \/ HandsOff(r)
  <2>1. CASE Poll(r)
    BY <2>1, PollsInSlots
  <2>2. CASE DeleteRuntime(r) \/ HandleRuntimeGone(r) \/ RecoverOrphans(r)
             \/ RecoverOrphansFails(r)
    BY <2>2 DEF DeleteRuntime, HandleRuntimeGone, RecoverOrphans, RecoverOrphansFails,
       slotOf, hands, InHand
  <2> QED  BY <1>3, <2>1, <2>2 DEF OfRuntime
<1>4. ASSUME NEW t \in Rows, ServerEndsRow(t) PROVE UNCHANGED slotVars
  BY <1>4 DEF ServerEndsRow, slotOf, hands, InHand
<1> HIDE DEF slotVars
<1> QED  BY <1>1, <1>2, <1>3, <1>4, RunsInSlots DEF Next

\* Every slot is in exactly one place.
SlotsApart ==
  /\ sem \cap hands = {}
  /\ \A r \in Runtimes : slotOf[r] \notin sem \cup hands
  /\ \A r, q \in Runtimes : slotOf[r] = slotOf[q] /\ slotOf[r] \in Slots => r = q
  /\ \A s \in Slots : s \in sem \cup hands \/ \E r \in Runtimes : slotOf[r] = s

LEMMA ApartInit == Init => SlotsApart
<1>1. NoRun.pc = "none" /\ Unclaimed.slot = None
  BY DEF NoRun, Unclaimed
<1> QED  BY <1>1, TasksAssumption DEF Init, SlotsApart, slotOf, hands, InHand

LEMMA ApartNext == Typed /\ SlotsApart /\ [Next]_vars => SlotsApart'
<1> SUFFICES ASSUME Typed, SlotsApart, [Next]_vars PROVE SlotsApart'
  OBVIOUS
<1>0. /\ slotOf = [r \in Runtimes |-> slotOf[r]]
      /\ hands \subseteq Slots /\ sem \subseteq Slots /\ None \notin Slots
  BY TasksAssumption DEF slotOf, hands, Typed, TypeOK
<1>1. CASE UNCHANGED slotVars \/ Closes
  BY <1>1 DEF slotVars, Closes, SlotsApart
<1>2. CASE Restarts
  BY <1>0, <1>2 DEF Restarts, SlotsApart
<1>3. ASSUME NEW r \in Runtimes, NEW s \in Slots, Enters(r, s) PROVE SlotsApart'
  BY <1>0, <1>3 DEF Enters, SlotsApart
<1>4. ASSUME NEW r \in Runtimes, Exits(r) PROVE SlotsApart'
  BY <1>0, <1>4 DEF Exits, SlotsApart
<1>5. ASSUME NEW r \in Runtimes, HandsOff(r) PROVE SlotsApart'
  BY <1>0, <1>5 DEF HandsOff, SlotsApart
<1>6. ASSUME NEW s \in Slots, Returns(s) PROVE SlotsApart'
  BY <1>0, <1>6 DEF Returns, SlotsApart
<1> QED  BY <1>1, <1>2, <1>3, <1>4, <1>5, <1>6, SlotSteps

LEMMA AlwaysApart == Spec => []SlotsApart
  BY AlwaysTyped, ApartInit, ApartNext, PTL DEF Spec

\* The slots taken out of the channel, by pollers or by runs, are all there are
\* outside it, and none is in two places.
THEOREM SlotsSafe == Spec => []SlotsConserved
<1>1. ASSUME Typed, SlotsApart PROVE SlotsConserved
  <2> SUFFICES ASSUME NEW s \in Slots
               PROVE  LET holders == {r \in Runtimes : poller[r].slot = s} IN
                      Cardinality(holders) + (IF s \in sem THEN 1 ELSE 0)
                        + (IF InHand(s) THEN 1 ELSE 0) = 1
    BY DEF SlotsConserved
  <2> DEFINE holders == {r \in Runtimes : poller[r].slot = s}
  <2>1. CASE \E r \in Runtimes : slotOf[r] = s
    <3>1. PICK r \in Runtimes : slotOf[r] = s
      BY <2>1
    <3>2. holders = {r} /\ s \notin sem /\ ~ InHand(s)
      BY <1>1, <3>1 DEF SlotsApart, slotOf, hands
    <3>3. Cardinality(holders) = 1
      BY <3>2, FS_Singleton
    <3> QED  BY <3>2, <3>3
  <2>2. CASE ~ \E r \in Runtimes : slotOf[r] = s
    <3>1. holders = {} /\ (s \in sem <=> ~ InHand(s))
      BY <1>1, <2>2 DEF SlotsApart, slotOf, hands
    <3>2. Cardinality(holders) = 0
      BY <3>1, FS_EmptySet
    <3> QED  BY <3>1, <3>2
  <2> QED  BY <2>1, <2>2
<1> QED  BY <1>1, AlwaysApart, AlwaysTyped, PTL

\* The counts are those of the runs and calls there are, and behind the barrier
\* there are none.
Counted ==
  /\ activeTasks = Cardinality(hands)
  /\ claimsInFlight = activeTasks + Cardinality(callers)
  /\ pauseClaims => hands = {} /\ callers = {}

LEMMA CountedInit == Init => Counted
<1> SUFFICES ASSUME Init PROVE Counted
  OBVIOUS
<1>1. NoRun.pc = "none" /\ Unclaimed.slot = None
  BY DEF NoRun, Unclaimed
<1>2. hands = {} /\ callers = {}
  BY <1>1 DEF Init, hands, callers, slotOf, InHand
<1>3. Cardinality(hands) = 0 /\ Cardinality(callers) = 0
  BY <1>2, FS_EmptySet
<1> QED  BY <1>2, <1>3 DEF Init, Counted

LEMMA CountedNext == Typed /\ SlotsApart /\ Counted /\ [Next]_vars => Counted'
<1> SUFFICES ASSUME Typed, SlotsApart, Counted, [Next]_vars PROVE Counted'
  OBVIOUS
<1>0. /\ slotOf = [r \in Runtimes |-> slotOf[r]]
      /\ None \notin Slots
      /\ activeTasks \in Int /\ claimsInFlight \in Int
  BY TasksAssumption DEF slotOf, Typed, TypeOK
<1>1. IsFiniteSet(hands) /\ IsFiniteSet(callers)
  BY TasksAssumption, FS_Subset DEF hands, callers
<1>2. Cardinality(hands) \in Nat /\ Cardinality(callers) \in Nat
  BY <1>1, FS_CardinalityType
<1>3. CASE UNCHANGED slotVars
  BY <1>3 DEF slotVars, Counted, callers
<1>4. CASE Closes
  <2>1. hands' = hands /\ callers' = callers
    BY <1>4 DEF Closes, callers
  <2>2. pauseClaims' => hands = {} /\ callers = {}
    BY <1>1, <1>2, <1>4, FS_EmptySet DEF Closes, Counted
  <2> QED  BY <1>4, <2>1, <2>2 DEF Closes, Counted
<1>5. CASE Restarts
  <2>1. hands' = {} /\ callers' = {}
    BY <1>5 DEF Restarts, callers
  <2>2. Cardinality(hands') = 0 /\ Cardinality(callers') = 0
    BY <2>1, FS_EmptySet
  <2> QED  BY <1>5, <2>1, <2>2 DEF Restarts, Counted
<1>6. ASSUME NEW r \in Runtimes, NEW s \in Slots, Enters(r, s) PROVE Counted'
  <2>1. callers' = callers \cup {r} /\ r \notin callers
    BY <1>0, <1>6 DEF Enters, callers
  <2>2. Cardinality(callers') = Cardinality(callers) + 1
    BY <1>1, <2>1, FS_AddElement
  <2> QED  BY <1>0, <1>2, <1>6, <2>2 DEF Enters, Counted
<1>7. ASSUME NEW r \in Runtimes, Exits(r) \/ HandsOff(r) PROVE Counted'
  <2>1. callers' = callers \ {r} /\ r \in callers
    BY <1>0, <1>7 DEF Exits, HandsOff, callers
  <2>2. Cardinality(callers') = Cardinality(callers) - 1 /\ ~ pauseClaims
    BY <1>1, <2>1, FS_RemoveElement DEF Counted
  <2>3. CASE Exits(r)
    BY <1>0, <1>2, <2>2, <2>3 DEF Exits, Counted
  <2>4. CASE HandsOff(r)
    <3>1. Cardinality(hands') = Cardinality(hands) + 1
      BY <1>1, <2>4, FS_AddElement DEF HandsOff, SlotsApart
    <3> QED  BY <1>0, <1>2, <2>2, <2>4, <3>1 DEF HandsOff, Counted
  <2> QED  BY <1>7, <2>3, <2>4
<1>8. ASSUME NEW s \in Slots, Returns(s) PROVE Counted'
  <2>1. callers' = callers
    BY <1>8 DEF Returns, callers
  <2>2. Cardinality(hands') = Cardinality(hands) - 1 /\ ~ pauseClaims
    BY <1>1, <1>8, FS_RemoveElement DEF Returns, Counted
  <2> QED  BY <1>0, <1>2, <1>8, <2>1, <2>2 DEF Returns, Counted
<1> QED  BY <1>3, <1>4, <1>5, <1>6, <1>7, <1>8, SlotSteps

\* Behind the barrier no claim is in flight and no task in hand, because the counts
\* that opened it are exact in every state.
THEOREM BarrierSafe == Spec => []BarrierHolds
<1>1. ASSUME Typed, Counted PROVE BarrierHolds
  <2>1. callers = {r \in Runtimes : Claiming(r)}
    BY <1>1, CallersClaim DEF callers
  <2> QED  BY <1>1, <2>1 DEF Counted, BarrierHolds, hands
<1>2. Spec => []Counted
  BY AlwaysApart, AlwaysTyped, CountedInit, CountedNext, PTL DEF Spec
<1> QED  BY <1>1, <1>2, AlwaysTyped, PTL

-----------------------------------------------------------------------------
(* The directory                                                             *)

\* Whoever works in the directory has its mutex.
Locked == \A s \in Slots : AtWork(s) /\ run[s].row \in Pinned => path = s

\* A step of one run, and a delivery, leave the other runs alone.
LEMMA OneRunMoves ==
  ASSUME Typed, NEW s \in Slots, OfSlot(s)
  PROVE  \A q \in Slots \ {s} : run'[q] = run[q]
BY DEF Typed, TypeOK, OfSlot, Handle, TakePath, PathInvalid, PathBusy,
   MarkTaskWaitingLocalDirectory, WaitWon, WaitGivenUp, StartTask, RunTaskFails,
   RunInterrupted, CheckStatus, CallLost, CompleteTask, FailInstead, FailTask, GrantPath,
   WatchTaskCancellation, AgentEnds, Goto, Return, ReturnPath

\* A delivery fills a slot that was in no run's hand.
LEMMA HandOffFills ==
  ASSUME Typed, SlotsApart, NEW r \in Runtimes, HandOff(r)
  PROVE  \E s \in Slots : /\ ~ InHand(s) /\ run'[s].pc = "taken" /\ ~ run'[s].seen
                          /\ run'[s].row \in Rows
                          /\ \A q \in Slots \ {s} : run'[q] = run[q]
<1>0. poller[r] \in PollerState /\ run \in [Slots -> RunState]
  BY DEF Typed, TypeOK
<1> DEFINE s == poller[r].slot
           n == [NoRun EXCEPT !.pc = "taken", !.row = poller[r].row]
<1>1. s \in Slots
  BY DEF Typed, PollersOwn, HandOff
<1>2. n.pc = "taken" /\ ~ n.seen /\ n.row \in Rows
  BY <1>0 DEF NoRun, HandOff, PollerState
<1>3. run' = [run EXCEPT ![s] = n]
  BY DEF HandOff
<1>4. ~ InHand(s)
  BY <1>1 DEF SlotsApart, slotOf, hands
<1> HIDE DEF s, n
<1>5. run'[s] = n /\ \A q \in Slots \ {s} : run'[q] = run[q]
  BY <1>0, <1>1, <1>3
<1> QED  BY <1>1, <1>2, <1>4, <1>5

LEMMA LockedNext == Typed /\ SlotsApart /\ Locked /\ [Next]_vars => Locked'
<1> SUFFICES ASSUME Typed, SlotsApart, Locked, [Next]_vars PROVE Locked'
  OBVIOUS
<1>0. /\ run \in [Slots -> RunState]
      /\ None \notin Slots /\ Abandoned \notin Slots /\ None # Abandoned
  BY TasksAssumption DEF Typed, TypeOK
<1> USE DEF Locked, AtWork, serverVars, recoveryVars, countVars, lockVars
<1>1. CASE UNCHANGED vars
  BY <1>1 DEF vars
<1>2. CASE Process
  <2>1. CASE ProcessEnds
    BY <2>1 DEF ProcessEnds, NoRun
  <2>2. CASE GrantAbandoned \/ ReleaseAbandoned
    BY <1>0, <2>2 DEF GrantAbandoned, ReleaseAbandoned
  <2>3. CASE Boot \/ BootDone \/ Stop \/ AutoRestart \/ TrySetClaimBarrier
             \/ ReleaseClaimBarrier \/ SyncWorkspace \/ Reregister \/ ReregisterFails
    BY <2>3 DEF Boot, BootDone, Stop, AutoRestart, CancelRoot, TrySetClaimBarrier,
       ReleaseClaimBarrier, SyncWorkspace, Reregister, ReregisterFails
  <2> QED  BY <1>2, <2>1, <2>2, <2>3 DEF Process
<1>3. ASSUME NEW r \in Runtimes, OfRuntime(r) PROVE Locked'
  <2>1. CASE HandOff(r)
    BY <2>1, HandOffFills DEF HandOff
  <2>2. CASE ~ HandOff(r)
    BY <1>3, <2>2 DEF OfRuntime, Poll, EnterClaim, ClaimTask, ClaimEmpty, ExitClaim,
       DeleteRuntime, HandleRuntimeGone, RecoverOrphans, RecoverOrphansFails
  <2> QED  BY <2>1, <2>2
<1>4. ASSUME NEW s \in Slots, OfSlot(s) PROVE Locked'
  <2>0. \A q \in Slots \ {s} : run'[q] = run[q]
    BY <1>4, OneRunMoves
  <2>1. CASE TakePath(s)
    <3>1. run'[s].row = run[s].row
      BY <1>0, <2>1 DEF TakePath, Goto, RunState
    <3> QED  BY <1>0, <2>0, <2>1, <3>1 DEF TakePath
  <2>2. CASE GrantPath(s)
    BY <1>0, <2>2 DEF GrantPath
  <2>3. CASE WaitWon(s)
    BY <1>0, <2>0, <2>3 DEF WaitWon
  <2>4. CASE PathInvalid(s) \/ PathBusy(s) \/ MarkTaskWaitingLocalDirectory(s)
             \/ RunTaskFails(s) \/ FailInstead(s)
    <3>1. ~ AtWork(s)'
      BY <1>0, <2>4 DEF PathInvalid, PathBusy, MarkTaskWaitingLocalDirectory,
         RunTaskFails, FailInstead, Goto, RunState
    <3> QED  BY <2>0, <2>4, <3>1 DEF PathInvalid, PathBusy, MarkTaskWaitingLocalDirectory,
                RunTaskFails, FailInstead
  <2>5. CASE StartTask(s) \/ AgentEnds(s) \/ WatchTaskCancellation(s)
    <3>1. run'[s].row = run[s].row /\ (AtWork(s)' => AtWork(s))
      BY <1>0, <2>5 DEF StartTask, AgentEnds, WatchTaskCancellation, Goto, RunState
    <3> QED  BY <2>0, <2>5, <3>1 DEF StartTask, AgentEnds, WatchTaskCancellation
  <2>6. CASE WaitGivenUp(s)
    <3>1. ~ AtWork(s)'
      BY <1>0, <2>6 DEF WaitGivenUp, Return, NoRun
    <3> QED  BY <2>0, <2>6, <3>1 DEF WaitGivenUp
  <2>7. CASE RunInterrupted(s) \/ CheckStatus(s) \/ CallLost(s) \/ CompleteTask(s)
             \/ FailTask(s)
    <3>1. ~ AtWork(s)' /\ path' = IF path = s THEN None ELSE path
      BY <1>0, <2>7 DEF RunInterrupted, CheckStatus, CallLost, CompleteTask, FailTask,
         ReturnPath, Return, NoRun
    <3> QED  BY <2>0, <3>1
  <2> QED  BY <1>4, <2>1, <2>2, <2>3, <2>4, <2>5, <2>6, <2>7 DEF OfSlot, Handle
<1>5. ASSUME NEW t \in Rows, ServerEndsRow(t) PROVE Locked'
  BY <1>5 DEF ServerEndsRow
<1> QED  BY <1>1, <1>2, <1>3, <1>4, <1>5 DEF Next

\* At most one run works in the directory, also when waiting runs give up while the
\* mutex is on its way to them.
THEOREM DirectorySafe == Spec => []OneHolder
<1>1. Init => Locked
  BY DEF Init, Locked, AtWork, NoRun
<1>2. Typed /\ Locked => OneHolder
  BY DEF Locked, OneHolder
<1>3. Spec => []Locked
  BY <1>1, LockedNext, AlwaysTyped, AlwaysApart, PTL DEF Spec
<1> QED  BY <1>2, <1>3, AlwaysTyped, PTL

-----------------------------------------------------------------------------
(* Rows and their runs                                                       *)

\* A row with an agent was started, and a watcher speaks the truth.
AgentsStarted ==
  \A s \in Slots :
    /\ run[s].pc = "agent" => status[run[s].row] \in {"running", "final"}
    /\ InHand(s) /\ run[s].seen => status[run[s].row] = "final"

Exclusive == AgentsStarted /\ OneAgentPerRow

\* Only a start takes a row out of "dispatched" and "waiting" to "running", and
\* nothing takes it back.
LEMMA StatusSteps ==
  ASSUME Typed, [Next]_vars
  PROVE  \A t \in Rows :
           /\ status[t] = "final" => status'[t] = "final"
           /\ status[t] = "running" => status'[t] \in {"running", "final"}
<1> USE DEF Typed, TypeOK, Statuses, InFlight, Finalized, serverVars
<1>1. CASE UNCHANGED vars
  BY <1>1 DEF vars
<1>2. CASE Process
  BY <1>2 DEF Process, ProcessEnds, GrantAbandoned, ReleaseAbandoned, Boot, BootDone, Stop,
     AutoRestart, CancelRoot, TrySetClaimBarrier, ReleaseClaimBarrier, SyncWorkspace,
     Reregister, ReregisterFails
<1>3. ASSUME NEW r \in Runtimes, OfRuntime(r)
      PROVE  \A t \in Rows : /\ status[t] = "final" => status'[t] = "final"
                             /\ status[t] = "running" => status'[t] \in {"running", "final"}
  BY <1>3 DEF OfRuntime, Poll, EnterClaim, ClaimTask, ClaimEmpty, ExitClaim, HandOff,
     Offered, DeleteRuntime, HandleRuntimeGone, RecoverOrphans, RecoverOrphansFails
<1>4. ASSUME NEW s \in Slots, OfSlot(s)
      PROVE  \A t \in Rows : /\ status[t] = "final" => status'[t] = "final"
                             /\ status[t] = "running" => status'[t] \in {"running", "final"}
  BY <1>4 DEF OfSlot, Handle, TakePath, PathInvalid, PathBusy,
     MarkTaskWaitingLocalDirectory, WaitWon, WaitGivenUp, StartTask, RunTaskFails,
     RunInterrupted, CheckStatus, CallLost, CompleteTask, FailInstead, FailTask, GrantPath,
     WatchTaskCancellation, AgentEnds
<1>5. ASSUME NEW t \in Rows, ServerEndsRow(t)
      PROVE  \A u \in Rows : /\ status[u] = "final" => status'[u] = "final"
                             /\ status[u] = "running" => status'[u] \in {"running", "final"}
  BY <1>5 DEF ServerEndsRow
<1> QED  BY <1>1, <1>2, <1>3, <1>4, <1>5 DEF Next

\* What a step may do to the runs: end them all, deliver a row, or move one run.
RunStep(s) ==
  /\ \A q \in Slots \ {s} : run'[q] = run[q]
  /\ \/ run'[s].pc = "none"
     \/ run'[s].pc = "taken" /\ ~ run'[s].seen
     \/ /\ run'[s].row = run[s].row /\ InHand(s)
        /\ run'[s].seen => run[s].seen \/ status[run[s].row] = "final"
        /\ \/ run'[s].pc # "agent"
           \/ run[s].pc = "agent"
           \/ /\ status[run[s].row] \in {"dispatched", "waiting"}
              /\ status'[run[s].row] = "running"

LEMMA RunSteps ==
  ASSUME Typed, SlotsApart, [Next]_vars
  PROVE  \/ run' = run
         \/ \A s \in Slots : run'[s].pc = "none"
         \/ \E s \in Slots : RunStep(s)
<1>0. run \in [Slots -> RunState] /\ status \in [Rows -> Statuses]
      /\ \A s \in Slots : InHand(s) => run[s].row \in Rows
  BY DEF Typed, TypeOK, InHand
<1>1. CASE UNCHANGED vars
  BY <1>1 DEF vars
<1>2. CASE Process
  BY <1>2 DEF Process, ProcessEnds, NoRun, GrantAbandoned, ReleaseAbandoned, Boot, BootDone,
     Stop, AutoRestart, CancelRoot, TrySetClaimBarrier, ReleaseClaimBarrier, SyncWorkspace,
     Reregister, ReregisterFails
<1>3. ASSUME NEW r \in Runtimes, OfRuntime(r)
      PROVE  run' = run \/ \E s \in Slots : RunStep(s)
  <2>1. CASE HandOff(r)
    BY <2>1, HandOffFills DEF RunStep
  <2>2. CASE ~ HandOff(r)
    BY <1>3, <2>2 DEF OfRuntime, Poll, EnterClaim, ClaimTask, ClaimEmpty, ExitClaim,
       DeleteRuntime, HandleRuntimeGone, RecoverOrphans, RecoverOrphansFails
  <2> QED  BY <2>1, <2>2
<1>4. ASSUME NEW s \in Slots, OfSlot(s)
      PROVE  run' = run \/ RunStep(s)
  <2>0. \A q \in Slots \ {s} : run'[q] = run[q]
    BY <1>4, OneRunMoves
  <2>1. CASE GrantPath(s)
    BY <2>1 DEF GrantPath
  <2>2. CASE StartTask(s)
    BY <1>0, <2>0, <2>2 DEF StartTask, RunStep, Goto, RunState, InHand
  <2>3. CASE TakePath(s) \/ PathInvalid(s) \/ PathBusy(s)
             \/ MarkTaskWaitingLocalDirectory(s) \/ RunTaskFails(s) \/ FailInstead(s)
             \/ AgentEnds(s)
    BY <1>0, <2>0, <2>3 DEF TakePath, PathInvalid, PathBusy, MarkTaskWaitingLocalDirectory,
       RunTaskFails, FailInstead, AgentEnds, RunStep, Goto, RunState, InHand
  <2>4. CASE WaitWon(s) \/ WatchTaskCancellation(s)
    BY <1>0, <2>0, <2>4 DEF WaitWon, WatchTaskCancellation, RunStep, RunState, InHand
  <2>5. CASE WaitGivenUp(s) \/ RunInterrupted(s) \/ CheckStatus(s) \/ CallLost(s)
             \/ CompleteTask(s) \/ FailTask(s)
    <3>1. run'[s].pc = "none"
      BY <1>0, <2>5 DEF WaitGivenUp, RunInterrupted, CheckStatus, CallLost, CompleteTask,
         FailTask, ReturnPath, Return, NoRun
    <3> QED  BY <2>0, <3>1 DEF RunStep
  <2> QED  BY <1>4, <2>1, <2>2, <2>3, <2>4, <2>5 DEF OfSlot, Handle
<1>5. ASSUME NEW t \in Rows, ServerEndsRow(t) PROVE run' = run
  BY <1>5 DEF ServerEndsRow
<1> QED  BY <1>1, <1>2, <1>3, <1>4, <1>5 DEF Next

LEMMA ExclusiveNext == Typed /\ Typed' /\ SlotsApart /\ Exclusive /\ [Next]_vars => Exclusive'
<1> SUFFICES ASSUME Typed, Typed', SlotsApart, Exclusive, [Next]_vars PROVE Exclusive'
  OBVIOUS
<1>0. \A t \in Rows : /\ status[t] = "final" => status'[t] = "final"
                      /\ status[t] = "running" => status'[t] \in {"running", "final"}
  BY StatusSteps
<1>1. \A s \in Slots : InHand(s) => run[s].row \in Rows
  BY DEF Typed, TypeOK, InHand
<1> USE DEF Exclusive, AgentsStarted, OneAgentPerRow, InHand
<1>2. CASE run' = run
  BY <1>0, <1>1, <1>2
<1>3. CASE \A s \in Slots : run'[s].pc = "none"
  BY <1>3
<1>4. ASSUME NEW s \in Slots, RunStep(s) PROVE Exclusive'
  <2>1. AgentsStarted'
    BY <1>0, <1>1, <1>4 DEF RunStep
  <2>2. OneAgentPerRow'
    BY <1>1, <1>4 DEF RunStep
  <2> QED  BY <2>1, <2>2
<1> QED  BY <1>2, <1>3, <1>4, RunSteps

LEMMA AlwaysExclusive == Spec => []Exclusive
<1>1. Init => Exclusive
  BY DEF Init, Exclusive, AgentsStarted, OneAgentPerRow, InHand, NoRun
<1> QED  BY <1>1, ExclusiveNext, AlwaysTyped, AlwaysApart, PTL DEF Spec

\* A row delivered twice has one agent at most: the start of the second run is
\* refused, whatever the order of the two.
THEOREM OneAgentSafe == Spec => []OneAgentPerRow
<1>1. Exclusive => OneAgentPerRow
  BY DEF Exclusive
<1> QED  BY <1>1, AlwaysExclusive, PTL

\* A process that has not finished its start has claimed nothing.
Quiet ==
  phase \in {"down", "boot"} =>
    /\ \A r \in Runtimes : poller[r].pc = "idle"
    /\ \A s \in Slots : ~ InHand(s)

LEMMA QuietNext == Typed /\ Quiet /\ [Next]_vars => Quiet'
<1> SUFFICES ASSUME Typed, Quiet, [Next]_vars PROVE Quiet'
  OBVIOUS
<1> USE DEF Quiet, InHand, serverVars, recoveryVars, countVars, lockVars
<1>1. CASE UNCHANGED vars
  BY <1>1 DEF vars
<1>2. CASE Process
  <2>1. CASE ProcessEnds
    BY <2>1 DEF ProcessEnds, NoRun, Unclaimed
  <2>2. CASE ~ ProcessEnds
    BY <1>2, <2>2 DEF Process, GrantAbandoned, ReleaseAbandoned, Boot, BootDone, Stop,
       AutoRestart, CancelRoot, TrySetClaimBarrier, ReleaseClaimBarrier, SyncWorkspace,
       Reregister, ReregisterFails
  <2> QED  BY <2>1, <2>2
<1>3. ASSUME NEW r \in Runtimes, OfRuntime(r) PROVE Quiet'
  <2>1. CASE Poll(r)
    <3>1. phase' \notin {"down", "boot"}
      BY <2>1 DEF Poll, EnterClaim, Idle, ClaimTask, ClaimEmpty, ExitClaim, HandOff
    <3> QED  BY <3>1
  <2>2. CASE ~ Poll(r)
    BY <1>3, <2>2 DEF OfRuntime, DeleteRuntime, HandleRuntimeGone, RecoverOrphans,
       RecoverOrphansFails
  <2> QED  BY <2>1, <2>2
<1>4. ASSUME NEW s \in Slots, OfSlot(s) PROVE Quiet'
  <2>1. phase' \notin {"down", "boot"}
    BY <1>4 DEF OfSlot, Handle, TakePath, PathInvalid, PathBusy,
       MarkTaskWaitingLocalDirectory, WaitWon, WaitGivenUp, StartTask, RunTaskFails,
       RunInterrupted, CheckStatus, CallLost, CompleteTask, FailInstead, FailTask,
       GrantPath, WatchTaskCancellation, AgentEnds
  <2> QED  BY <2>1
<1>5. ASSUME NEW t \in Rows, ServerEndsRow(t) PROVE Quiet'
  BY <1>5 DEF ServerEndsRow
<1> QED  BY <1>1, <1>2, <1>3, <1>4, <1>5 DEF Next

\* Rows the server shows as waiting or running and has not lost the end of
Shown == {t \in Rows : status[t] \in {"waiting", "running"} /\ t \notin unreported}
InHands(t) == \E s \in Slots : InHand(s) /\ run[s].row = t

Kept ==
  /\ phase = "up" => \A t \in Shown : InHands(t)
  /\ phase = "boot" => \A t \in Shown : RuntimeOf[t] \in orphans

LEMMA KeptNext ==
  Typed /\ SlotsApart /\ Quiet /\ Exclusive /\ Kept /\ [Next]_vars => Kept'
<1> SUFFICES ASSUME Typed, SlotsApart, Quiet, Exclusive, Kept, [Next]_vars PROVE Kept'
  OBVIOUS
<1>0. /\ run \in [Slots -> RunState] /\ status \in [Rows -> Statuses]
      /\ \A s \in Slots : InHand(s) => run[s].row \in Rows
  BY DEF Typed, TypeOK, InHand
<1> USE DEF Kept, Shown, InHands, serverVars, recoveryVars, countVars, lockVars
<1>1. CASE UNCHANGED vars
  BY <1>1 DEF vars, InHand
<1>2. CASE Process
  <2>1. CASE ProcessEnds \/ Stop \/ AutoRestart
    BY <2>1 DEF ProcessEnds, Stop, AutoRestart, CancelRoot
  <2>2. CASE Boot
    BY <2>2, TasksAssumption DEF Boot
  <2>3. CASE BootDone
    BY <2>3 DEF BootDone
  <2>4. CASE Reregister
    BY <2>4, TasksAssumption DEF Reregister, InHand
  <2>5. CASE GrantAbandoned \/ ReleaseAbandoned \/ TrySetClaimBarrier
             \/ ReleaseClaimBarrier \/ SyncWorkspace \/ ReregisterFails
    BY <2>5 DEF GrantAbandoned, ReleaseAbandoned, TrySetClaimBarrier, ReleaseClaimBarrier,
       SyncWorkspace, ReregisterFails, InHand
  <2> QED  BY <1>2, <2>1, <2>2, <2>3, <2>4, <2>5 DEF Process
<1>3. ASSUME NEW r \in Runtimes, OfRuntime(r) PROVE Kept'
  <2>1. CASE HandOff(r)
    <3>1. phase = "up" \/ phase = "stopping"
      BY <2>1 DEF HandOff, Quiet, Typed, TypeOK
    <3>2. PICK s \in Slots : /\ ~ InHand(s)
                             /\ \A q \in Slots \ {s} : run'[q] = run[q]
      BY <2>1, HandOffFills
    <3>3. \A q \in Slots : InHand(q) => InHand(q)' /\ run'[q].row = run[q].row
      BY <3>2 DEF InHand
    <3>4. UNCHANGED <<status, unreported, phase>>
      BY <2>1 DEF HandOff
    <3> QED  BY <3>1, <3>3, <3>4
  <2>2. CASE ClaimTask(r)
    BY <1>0, <2>2 DEF ClaimTask, InHand
  <2>3. CASE EnterClaim(r) \/ ClaimEmpty(r) \/ ExitClaim(r) \/ HandleRuntimeGone(r)
    BY <2>3 DEF EnterClaim, ClaimEmpty, ExitClaim, HandleRuntimeGone, InHand
  <2>4. CASE DeleteRuntime(r)
    BY <1>0, <2>4 DEF DeleteRuntime, Finalized, InHand
  <2>5. CASE RecoverOrphans(r) \/ RecoverOrphansFails(r)
    BY <1>0, <2>5 DEF RecoverOrphans, RecoverOrphansFails, Stranded, InFlight, Finalized,
       InHand
  <2> QED  BY <1>3, <2>1, <2>2, <2>3, <2>4, <2>5 DEF OfRuntime, Poll
<1>4. ASSUME NEW s \in Slots, OfSlot(s) PROVE Kept'
  <2>0. \A q \in Slots \ {s} : run'[q] = run[q]
    BY <1>4, OneRunMoves
  <2>1. InHand(s) /\ phase \in {"up", "stopping"} /\ phase' = phase
    BY <1>4 DEF Quiet, InHand, Typed, TypeOK, OfSlot, Handle, TakePath, PathInvalid,
       PathBusy, MarkTaskWaitingLocalDirectory, WaitWon, WaitGivenUp, StartTask,
       RunTaskFails, RunInterrupted, CheckStatus, CallLost, CompleteTask, FailInstead,
       FailTask, GrantPath, WatchTaskCancellation, AgentEnds
  <2>2. CASE TakePath(s) \/ PathInvalid(s) \/ PathBusy(s) \/ RunTaskFails(s)
             \/ FailInstead(s) \/ AgentEnds(s) \/ MarkTaskWaitingLocalDirectory(s)
             \/ StartTask(s) \/ WaitWon(s) \/ WatchTaskCancellation(s) \/ GrantPath(s)
    <3>1. InHand(s)' /\ run'[s].row = run[s].row
      BY <1>0, <2>1, <2>2 DEF TakePath, PathInvalid, PathBusy, RunTaskFails, FailInstead,
         AgentEnds, MarkTaskWaitingLocalDirectory, StartTask, WaitWon,
         WatchTaskCancellation, GrantPath, Goto, RunState, InHand
    <3>2. unreported' = unreported /\ \A t \in Rows \ {run[s].row} : status'[t] = status[t]
      BY <1>0, <2>2 DEF TakePath, PathInvalid, PathBusy, RunTaskFails, FailInstead,
         AgentEnds, MarkTaskWaitingLocalDirectory, StartTask, WaitWon,
         WatchTaskCancellation, GrantPath
    <3> QED  BY <2>0, <2>1, <3>1, <3>2 DEF InHand
  <2>3. CASE WaitGivenUp(s) \/ RunInterrupted(s) \/ CheckStatus(s) \/ CallLost(s)
             \/ CompleteTask(s) \/ FailTask(s)
    <3>1. phase = "up" => run[s].row \notin Shown'
      BY <1>0, <2>1, <2>3 DEF WaitGivenUp, RunInterrupted, CheckStatus, CallLost,
         CompleteTask, FailTask, Cancelled, Exclusive, AgentsStarted, InHand, InFlight,
         Finalized
    <3>2. /\ unreported \subseteq unreported'
          /\ \A t \in Rows \ {run[s].row} : status'[t] = status[t]
      BY <1>0, <2>3 DEF WaitGivenUp, RunInterrupted, CheckStatus, CallLost,
         CompleteTask, FailTask, Finalized
    <3> QED  BY <1>0, <2>0, <2>1, <3>1, <3>2 DEF InHand
  <2> QED  BY <1>4, <2>2, <2>3 DEF OfSlot, Handle
<1>5. ASSUME NEW t \in Rows, ServerEndsRow(t) PROVE Kept'
  BY <1>0, <1>5 DEF ServerEndsRow, Finalized, InHand
<1> QED  BY <1>1, <1>2, <1>3, <1>4, <1>5 DEF Next

\* No row is left shown as waiting or running without a run, across crashes and
\* restarts, other than by a call that could not be made.
THEOREM RowsKept == Spec => []NotAbandoned
<1>1. Init => Quiet /\ Kept
  BY DEF Init, Quiet, Kept, InHand, NoRun, Unclaimed
<1>2. Typed /\ Kept => NotAbandoned
  BY DEF Kept, Shown, InHands, NotAbandoned
<1>3. Spec => []Quiet
  BY <1>1, QuietNext, AlwaysTyped, PTL DEF Spec
<1>4. Spec => []Kept
  BY <1>1, <1>3, KeptNext, AlwaysTyped, AlwaysApart, AlwaysExclusive, PTL DEF Spec
<1> QED  BY <1>2, <1>4, AlwaysTyped, PTL
=============================================================================
