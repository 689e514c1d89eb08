---------------------------- MODULE DaemonTasks ----------------------------
(***************************************************************************)
(* One local daemon: pollers that claim rows for its runtimes, a run in    *)
(* each execution slot, the mutex of a user's directory, updates that end  *)
(* the process, and the recovery of runtimes deleted on the server.        *)
(* Sources: server/internal/daemon/{daemon,auto_update,local_directory}.go.*)
(* The server's side of a call is the statement it comes down to, which    *)
(* TaskQueue models in full; here only the states of a row that the daemon *)
(* can tell apart are kept ("final": completed, failed, cancelled or       *)
(* deleted, all of which end a run).                                       *)
(*                                                                         *)
(* A call may not reach the server, or its answer may be lost.  A prepare  *)
(* lease may lapse at any moment, because each of its extensions can fail. *)
(* The process may end at any moment.  A run is named by its slot.         *)
(***************************************************************************)
EXTENDS Integers, FiniteSets

CONSTANTS
  Runtimes,   \* the runtimes of the daemon's one workspace
  Rows,       \* rows of agent_task_queue
  Slots,      \* 0 .. MaxConcurrentTasks - 1
  RuntimeOf,  \* the runtime of each row
  Pinned,     \* rows whose project is pinned to the one local directory
  None,
  Abandoned   \* holds the directory: a waiter goroutine whose run gave up

ASSUME TasksAssumption ==
  /\ IsFiniteSet(Runtimes) /\ IsFiniteSet(Slots)
  /\ RuntimeOf \in [Rows -> Runtimes]
  /\ Pinned \subseteq Rows
  /\ None \notin Rows \cup Slots
  /\ Abandoned \notin Slots \cup {None}

VARIABLES
  status,          \* status of each row on the server
  gone,            \* runtimes deleted on the server and not registered again
  phase,           \* of the process
  tracked,         \* workspaceState.runtimeIDs
  registering,     \* a re-registration holds the slot of tryClaimRegisterSlot
  orphans,         \* runtimes whose RecoverOrphans call is still to come
  sem,             \* the slots in the semaphore channel
  poller,          \* one runRuntimePoller per runtime
  run,             \* handleTask by slot
  path,            \* who holds the directory's mutex
  queue,           \* goroutines of runs that gave up, still waiting for it
  claimsInFlight, activeTasks, pauseClaims,
  unreported       \* history: rows whose end could not be told to the server

serverVars == <<status, gone>>
recoveryVars == <<tracked, registering, orphans>>
countVars == <<claimsInFlight, activeTasks>>
lockVars == <<path, queue>>

vars == <<serverVars, phase, recoveryVars, sem, poller, run, lockVars,
          countVars, pauseClaims, unreported>>

Unclaimed == [pc |-> "idle", slot |-> None, row |-> None]
NoRun == [pc |-> "none", row |-> None, seen |-> FALSE]

Statuses == {"queued", "dispatched", "waiting", "running", "final"}
InFlight == {"dispatched", "waiting", "running"}

PollerState ==
  [pc : {"idle", "claim", "answer"},
   slot : Slots \cup {None}, row : Rows \cup {None}]

RunState ==
  [pc : {"none", "taken", "park", "wait", "prepare", "agent", "fail", "report"},
   row : Rows \cup {None},
   seen : BOOLEAN]          \* cancelledByPoll is closed

TypeOK ==
  /\ status \in [Rows -> Statuses]
  /\ gone \subseteq Runtimes /\ tracked \subseteq Runtimes /\ orphans \subseteq Runtimes
  /\ phase \in {"down", "boot", "up", "stopping"}
  /\ registering \in BOOLEAN /\ pauseClaims \in BOOLEAN
  /\ sem \subseteq Slots
  /\ poller \in [Runtimes -> PollerState]
  /\ run \in [Slots -> RunState]
  /\ \A s \in Slots : run[s].pc # "none" => run[s].row \in Rows
  /\ path \in Slots \cup {None, Abandoned}
  /\ queue \in Nat
  /\ claimsInFlight \in Int /\ activeTasks \in Int
  /\ unreported \subseteq Rows

Init ==
  /\ status = [t \in Rows |-> "queued"]
  /\ gone = {} /\ phase = "down" /\ unreported = {}
  /\ tracked = {} /\ registering = FALSE /\ orphans = {}
  /\ sem = Slots
  /\ poller = [r \in Runtimes |-> Unclaimed]
  /\ run = [s \in Slots |-> NoRun]
  /\ path = None /\ queue = 0
  /\ claimsInFlight = 0 /\ activeTasks = 0
  /\ pauseClaims = FALSE

InHand(s) == run[s].pc # "none"

\* A run's context ends with the process's root context.
Cancelled(s) == run[s].seen \/ phase = "stopping"

\* A statement of the server that ends rows
Finalized(S) == [t \in Rows |-> IF t \in S THEN "final" ELSE status[t]]

-----------------------------------------------------------------------------
(* The server                                                              *)

\* A user cancels, the issue goes away, a sweeper gives up on the row.
ServerEndsRow(t) ==
  /\ status[t] # "final"
  /\ status' = Finalized({t})
  /\ UNCHANGED <<gone, phase, recoveryVars, sem, poller, run, lockVars,
                 countVars, pauseClaims, unreported>>

\* The rows of a deleted runtime go with it (ON DELETE CASCADE), so that the fresh
\* id a later registration gives it can be the same r.
DeleteRuntime(r) ==
  /\ phase \in {"boot", "up"} /\ r \notin gone
  /\ gone' = gone \cup {r}
  /\ status' = Finalized({t \in Rows : RuntimeOf[t] = r})
  /\ UNCHANGED <<phase, recoveryVars, sem, poller, run, lockVars, countVars,
                 pauseClaims, unreported>>

-----------------------------------------------------------------------------
(* The process                                                             *)

\* Run up to preflightAuth: the first workspace sync registers every runtime
\* and recovers its orphans before a poller starts.
Boot ==
  /\ phase = "down"
  /\ phase' = "boot"
  /\ tracked' = Runtimes /\ orphans' = Runtimes /\ gone' = {}
  /\ UNCHANGED <<status, registering, sem, poller, run, lockVars, countVars,
                 pauseClaims, unreported>>

BootDone ==
  /\ phase = "boot" /\ orphans = {}
  /\ phase' = "up"
  /\ UNCHANGED <<serverVars, recoveryVars, sem, poller, run, lockVars,
                 countVars, pauseClaims, unreported>>

\* The root context is cancelled, and with it the calls of a recovery.
CancelRoot ==
  /\ phase = "up" /\ phase' = "stopping"
  /\ registering' = FALSE /\ orphans' = {}
  /\ UNCHANGED <<serverVars, tracked, sem, poller, run, lockVars, countVars,
                 pauseClaims, unreported>>

\* A signal, or the restart at the end of handleUpdate, which asks for no barrier.
Stop == ~ pauseClaims /\ CancelRoot

\* The process ends: after pollLoop's wait of 30 seconds, or by a crash.
ProcessEnds ==
  /\ phase # "down"
  /\ phase' = "down"
  /\ tracked' = {} /\ registering' = FALSE /\ orphans' = {}
  /\ sem' = Slots
  /\ poller' = [r \in Runtimes |-> Unclaimed]
  /\ run' = [s \in Slots |-> NoRun]
  /\ path' = None /\ queue' = 0
  /\ claimsInFlight' = 0 /\ activeTasks' = 0
  /\ pauseClaims' = FALSE
  /\ UNCHANGED <<serverVars, unreported>>

-----------------------------------------------------------------------------
(* runRuntimePoller                                                        *)

\* The poller of a tracked runtime is between two claims.
Idle(r) == phase = "up" /\ r \in tracked /\ poller[r].pc = "idle"

\* waitForTaskSlot, then tryEnterClaim.  Refused, the poller gives the slot back
\* and sleeps, which leaves no trace.
EnterClaim(r) ==
  /\ Idle(r) /\ ~ pauseClaims
  /\ claimsInFlight' = claimsInFlight + 1
  /\ \E s \in sem :
       /\ sem' = sem \ {s}
       /\ poller' = [poller EXCEPT ![r].pc = "claim", ![r].slot = s]
  /\ UNCHANGED <<serverVars, phase, recoveryVars, run, lockVars, activeTasks,
                 pauseClaims, unreported>>

\* A queued row, or a dispatched one whose lease lapsed (it is delivered again).
Offered(r) == {t \in Rows : RuntimeOf[t] = r /\ status[t] \in {"queued", "dispatched"}}

\* The server claims, and its answer arrives or is lost.
ClaimTask(r) ==
  /\ poller[r].pc = "claim"
  /\ r \notin gone
  /\ \E t \in Offered(r) :
       /\ status' = [status EXCEPT ![t] = "dispatched"]
       /\ \E answer \in {None} \cup {x \in {t} : phase = "up" /\ r \in tracked} :
            poller' = [poller EXCEPT ![r].pc = "answer", ![r].row = answer]
  /\ UNCHANGED <<gone, phase, recoveryVars, sem, run, lockVars, countVars,
                 pauseClaims, unreported>>

\* Nothing to claim, an error, or a context that was cancelled.
ClaimEmpty(r) ==
  /\ poller[r].pc = "claim"
  /\ poller' = [poller EXCEPT ![r].pc = "answer"]
  /\ UNCHANGED <<serverVars, phase, recoveryVars, sem, run, lockVars,
                 countVars, pauseClaims, unreported>>

\* mutant: an empty answer keeps the slot
ExitWithSlot(r) ==
  /\ poller[r].pc = "answer" /\ poller[r].row = None
  /\ claimsInFlight' = claimsInFlight - 1
  /\ poller' = [poller EXCEPT ![r] = Unclaimed]
  /\ UNCHANGED <<serverVars, phase, recoveryVars, sem, run, lockVars,
                 activeTasks, pauseClaims, unreported>>

ExitClaim(r) ==
  /\ poller[r].pc = "answer" /\ poller[r].row = None
  /\ claimsInFlight' = claimsInFlight - 1
  /\ sem' = sem \cup {poller[r].slot}
  /\ poller' = [poller EXCEPT ![r] = Unclaimed]
  /\ UNCHANGED <<serverVars, phase, recoveryVars, run, lockVars, activeTasks,
                 pauseClaims, unreported>>

\* mutant: an empty answer is handed off like a row
HandOffAny(r) ==
  /\ poller[r].pc = "answer"
  /\ activeTasks' = activeTasks + 1
  /\ run' = [run EXCEPT ![poller[r].slot] =
               [NoRun EXCEPT !.pc = "taken", !.row = poller[r].row]]
  /\ poller' = [poller EXCEPT ![r] = Unclaimed]
  /\ UNCHANGED <<serverVars, phase, recoveryVars, sem, lockVars,
                 claimsInFlight, pauseClaims, unreported>>

\* The claim stays in flight and the slot taken until handleTask returns.
HandOff(r) ==
  /\ poller[r].pc = "answer" /\ poller[r].row # None
  /\ activeTasks' = activeTasks + 1
  /\ run' = [run EXCEPT ![poller[r].slot] =
               [NoRun EXCEPT !.pc = "taken", !.row = poller[r].row]]
  /\ poller' = [poller EXCEPT ![r] = Unclaimed]
  /\ UNCHANGED <<serverVars, phase, recoveryVars, sem, lockVars,
                 claimsInFlight, pauseClaims, unreported>>

-----------------------------------------------------------------------------
(* handleTask: the directory                                               *)

Goto(s, pc) == run' = [run EXCEPT ![s].pc = pc]

\* handleTask returns.  Its deferred calls free the directory, the slot and the
\* two counts, in this order; the barrier stays open until the counts are down.
Return(s) ==
  /\ run' = [run EXCEPT ![s] = NoRun]
  /\ sem' = sem \cup {s}
  /\ activeTasks' = activeTasks - 1
  /\ claimsInFlight' = claimsInFlight - 1

\* The same, with the callback of Acquire.
ReturnPath(s) ==
  /\ Return(s)
  /\ path' = IF path = s THEN None ELSE path

\* No directory, or the fast path of Acquire.
TakePath(s) ==
  /\ run[s].pc = "taken"
  /\ \/ run[s].row \notin Pinned /\ UNCHANGED path
     \/ run[s].row \in Pinned /\ path = None /\ path' = s
  /\ Goto(s, "prepare")
  /\ UNCHANGED <<serverVars, phase, recoveryVars, sem, poller, queue, countVars,
                 pauseClaims, unreported>>

PathInvalid(s) ==
  /\ run[s].pc = "taken" /\ run[s].row \in Pinned
  /\ Goto(s, "fail")
  /\ UNCHANGED <<serverVars, phase, recoveryVars, sem, poller, lockVars,
                 countVars, pauseClaims, unreported>>

PathBusy(s) ==
  /\ run[s].pc = "taken" /\ run[s].row \in Pinned
  /\ path # None
  /\ Goto(s, "park")
  /\ UNCHANGED <<serverVars, phase, recoveryVars, sem, poller, lockVars,
                 countVars, pauseClaims, unreported>>

\* onWait: the call may fail, the run waits all the same.  Only then does the
\* watcher of the wait start, and the goroutine that takes the mutex.
MarkTaskWaitingLocalDirectory(s) ==
  LET t == run[s].row IN
  /\ run[s].pc = "park"
  /\ \/ UNCHANGED status
     \/ /\ status[t] = "dispatched"
        /\ status' = [status EXCEPT ![t] = "waiting"]
  /\ Goto(s, "wait")
  /\ UNCHANGED <<gone, phase, recoveryVars, sem, poller, lockVars, countVars,
                 pauseClaims, unreported>>

\* The waiter goroutine gets the mutex; its run has not yet noticed.
GrantPath(s) ==
  /\ run[s].pc = "wait" /\ path = None
  /\ path' = s
  /\ UNCHANGED <<serverVars, phase, recoveryVars, sem, poller, run, queue,
                 countVars, pauseClaims, unreported>>

GrantAbandoned ==
  /\ path = None /\ queue > 0
  /\ path' = Abandoned /\ queue' = queue - 1
  /\ UNCHANGED <<serverVars, phase, recoveryVars, sem, poller, run, countVars,
                 pauseClaims, unreported>>

\* mutant: nobody unlocks for a run that gave up
KeepAbandoned ==
  /\ path = Abandoned
  /\ UNCHANGED vars

ReleaseAbandoned ==
  /\ path = Abandoned
  /\ path' = None
  /\ UNCHANGED <<serverVars, phase, recoveryVars, sem, poller, run, queue,
                 countVars, pauseClaims, unreported>>

\* The select of Acquire, acquired: a new watcher starts with the run itself.
WaitWon(s) ==
  /\ run[s].pc = "wait" /\ path = s
  /\ run' = [run EXCEPT ![s].pc = "prepare", ![s].seen = FALSE]
  /\ UNCHANGED <<serverVars, phase, recoveryVars, sem, poller, lockVars,
                 countVars, pauseClaims, unreported>>

\* mutant: the cleanup unlocks at once instead of after its own acquire
GiveUpEagerly(s) ==
  /\ run[s].pc = "wait" /\ Cancelled(s)
  /\ path' = None
  /\ Return(s)
  /\ UNCHANGED <<serverVars, phase, recoveryVars, poller, queue, pauseClaims,
                 unreported>>

\* The select of Acquire, cancelled, even if the goroutine has won by now: the
\* mutex or the place in its queue is left to the cleanup goroutine.
WaitGivenUp(s) ==
  /\ run[s].pc = "wait" /\ Cancelled(s)
  /\ IF path = s THEN path' = Abandoned /\ UNCHANGED queue
                 ELSE queue' = queue + 1 /\ UNCHANGED path
  /\ Return(s)
  /\ UNCHANGED <<serverVars, phase, recoveryVars, poller, pauseClaims, unreported>>

-----------------------------------------------------------------------------
(* handleTask: the run                                                     *)

\* mutant: the watcher only starts once the directory is locked
WatchRunOnly(s) ==
  /\ run[s].pc \in {"prepare", "agent"} /\ ~ run[s].seen
  /\ status[run[s].row] = "final"
  /\ run' = [run EXCEPT ![s].seen = TRUE]
  /\ UNCHANGED <<serverVars, phase, recoveryVars, sem, poller, lockVars,
                 countVars, pauseClaims, unreported>>

\* watchTaskCancellation: a poll that gets through and sees a final status.
WatchTaskCancellation(s) ==
  /\ run[s].pc \in {"wait", "prepare", "agent"} /\ ~ run[s].seen
  /\ status[run[s].row] = "final"
  /\ run' = [run EXCEPT ![s].seen = TRUE]
  /\ UNCHANGED <<serverVars, phase, recoveryVars, sem, poller, lockVars,
                 countVars, pauseClaims, unreported>>

\* The answer, when it is lost, makes runTask return an error.
StartTask(s) ==
  LET t == run[s].row IN
  /\ run[s].pc = "prepare" /\ status[t] \in {"dispatched", "waiting"}
  /\ status' = [status EXCEPT ![t] = "running"]
  /\ \E pc \in {"agent", "fail"} : Goto(s, pc)
  /\ UNCHANGED <<gone, phase, recoveryVars, sem, poller, lockVars, countVars,
                 pauseClaims, unreported>>

\* The environment cannot be prepared, or the start is refused or not sent.
RunTaskFails(s) ==
  /\ run[s].pc = "prepare"
  /\ Goto(s, "fail")
  /\ UNCHANGED <<serverVars, phase, recoveryVars, sem, poller, lockVars,
                 countVars, pauseClaims, unreported>>

\* The agent ends by itself: with a result, or with an error.
AgentEnds(s) ==
  /\ run[s].pc = "agent"
  /\ \E pc \in {"report", "fail"} : Goto(s, pc)
  /\ UNCHANGED <<serverVars, phase, recoveryVars, sem, poller, lockVars,
                 countVars, pauseClaims, unreported>>

\* runCtx is cancelled: the result is discarded, or cannot be reported because
\* the root context is gone too.
RunInterrupted(s) ==
  /\ run[s].pc \in {"prepare", "agent"} /\ Cancelled(s)
  /\ ReturnPath(s)
  /\ UNCHANGED <<serverVars, phase, recoveryVars, poller, queue, pauseClaims,
                 unreported>>

\* The last look before the report finds the row final.  (When it does not, or
\* fails, the report follows, whatever happens to the row in between.)
CheckStatus(s) ==
  /\ run[s].pc = "report" /\ status[run[s].row] = "final"
  /\ ReturnPath(s)
  /\ UNCHANGED <<serverVars, phase, recoveryVars, poller, queue, pauseClaims,
                 unreported>>

\* Retries exhausted or the root context cancelled: nothing else is tried.
CallLost(s) ==
  /\ run[s].pc \in {"report", "fail"}
  /\ unreported' = unreported \cup {t \in {run[s].row} : phase = "up" /\ status[t] # "final"}
  /\ ReturnPath(s)
  /\ UNCHANGED <<serverVars, phase, recoveryVars, poller, queue, pauseClaims>>

\* mutant: a result that cannot be delivered is not the run's affair
CompleteAnyhow(s) ==
  /\ run[s].pc = "report"
  /\ ReturnPath(s)
  /\ UNCHANGED <<serverVars, phase, recoveryVars, poller, queue, pauseClaims,
                 unreported>>

\* The server answers "completed" for a row that is already final, too.
CompleteTask(s) ==
  LET t == run[s].row IN
  /\ run[s].pc = "report" /\ status[t] \in {"running", "final"}
  /\ status' = [status EXCEPT ![t] = "final"]
  /\ ReturnPath(s)
  /\ UNCHANGED <<gone, phase, recoveryVars, poller, queue, pauseClaims,
                 unreported>>

\* A result that is no success, or a completion refused for good.
FailInstead(s) ==
  /\ run[s].pc = "report"
  /\ Goto(s, "fail")
  /\ UNCHANGED <<serverVars, phase, recoveryVars, sem, poller, lockVars,
                 countVars, pauseClaims, unreported>>

FailTask(s) ==
  LET t == run[s].row IN
  /\ run[s].pc = "fail"
  /\ status' = IF status[t] \in InFlight THEN Finalized({t}) ELSE status
  /\ ReturnPath(s)
  /\ UNCHANGED <<gone, phase, recoveryVars, poller, queue, pauseClaims,
                 unreported>>

-----------------------------------------------------------------------------
(* Updates                                                                 *)

\* mutant: only running tasks keep the barrier open
BarrierOverClaims ==
  /\ phase = "up" /\ ~ pauseClaims
  /\ activeTasks = 0
  /\ pauseClaims' = TRUE
  /\ UNCHANGED <<serverVars, phase, recoveryVars, sem, poller, run, lockVars,
                 countVars, unreported>>

\* tryAutoUpdate.  Its checks before the release fetch only spare the fetch:
\* trySetClaimBarrier decides, on what it reads under its lock.
TrySetClaimBarrier ==
  /\ phase = "up" /\ ~ pauseClaims
  /\ claimsInFlight = 0 /\ activeTasks = 0
  /\ pauseClaims' = TRUE
  /\ UNCHANGED <<serverVars, phase, recoveryVars, sem, poller, run, lockVars,
                 countVars, unreported>>

ReleaseClaimBarrier ==
  /\ pauseClaims /\ phase = "up"
  /\ pauseClaims' = FALSE
  /\ UNCHANGED <<serverVars, phase, recoveryVars, sem, poller, run, lockVars,
                 countVars, unreported>>

\* triggerRestart, the barrier still held
AutoRestart == pauseClaims /\ CancelRoot

-----------------------------------------------------------------------------
(* Runtimes deleted on the server                                          *)

\* handleRuntimeGone: prune, and register again unless somebody else is at it.
HandleRuntimeGone(r) ==
  /\ phase = "up" /\ r \in gone \cap tracked
  /\ tracked' = tracked \ {r}
  /\ registering' = (registering \/ orphans = {})
  /\ UNCHANGED <<serverVars, phase, orphans, sem, poller, run, lockVars,
                 countVars, pauseClaims, unreported>>

\* workspaceSyncLoop, for a workspace without any runtime
SyncWorkspace ==
  /\ phase = "up" /\ tracked = {} /\ ~ registering /\ orphans = {}
  /\ registering' = TRUE
  /\ UNCHANGED <<serverVars, phase, tracked, orphans, sem, poller, run,
                 lockVars, countVars, pauseClaims, unreported>>

\* The response names every configured runtime, the surviving ones included.
Reregister ==
  /\ registering
  /\ registering' = FALSE
  /\ tracked' = Runtimes /\ gone' = {} /\ orphans' = Runtimes
  /\ UNCHANGED <<status, phase, sem, poller, run, lockVars, countVars,
                 pauseClaims, unreported>>

ReregisterFails ==
  /\ registering
  /\ registering' = FALSE
  /\ UNCHANGED <<serverVars, phase, tracked, orphans, sem, poller, run,
                 lockVars, countVars, pauseClaims, unreported>>

Stranded(r) == {t \in Rows : RuntimeOf[t] = r /\ status[t] \in InFlight}

RecoverOrphans(r) ==
  /\ r \in orphans
  /\ orphans' = orphans \ {r}
  /\ status' = Finalized(Stranded(r))
  /\ UNCHANGED <<gone, phase, tracked, registering, sem, poller, run, lockVars,
                 countVars, pauseClaims, unreported>>

RecoverOrphansFails(r) ==
  /\ r \in orphans
  /\ orphans' = orphans \ {r}
  /\ unreported' = unreported \cup Stranded(r)
  /\ UNCHANGED <<serverVars, phase, tracked, registering, sem, poller, run,
                 lockVars, countVars, pauseClaims>>

-----------------------------------------------------------------------------
Poll(r) ==
  EnterClaim(r) \/ ClaimTask(r) \/ ClaimEmpty(r) \/ ExitClaim(r) \/ HandOff(r)

\* What a run does without waiting for its agent or for the directory.
Handle(s) ==
  \/ TakePath(s) \/ PathInvalid(s) \/ PathBusy(s)
  \/ MarkTaskWaitingLocalDirectory(s) \/ WaitWon(s) \/ WaitGivenUp(s)
  \/ StartTask(s) \/ RunTaskFails(s) \/ RunInterrupted(s) \/ CheckStatus(s)
  \/ CallLost(s) \/ CompleteTask(s) \/ FailInstead(s) \/ FailTask(s)

Process ==
  \/ Boot \/ BootDone \/ Stop \/ ProcessEnds
  \/ TrySetClaimBarrier \/ ReleaseClaimBarrier \/ AutoRestart
  \/ SyncWorkspace \/ Reregister \/ ReregisterFails
  \/ GrantAbandoned \/ ReleaseAbandoned

OfRuntime(r) ==
  \/ Poll(r) \/ DeleteRuntime(r) \/ HandleRuntimeGone(r)
  \/ RecoverOrphans(r) \/ RecoverOrphansFails(r)

OfSlot(s) ==
  Handle(s) \/ GrantPath(s) \/ WatchTaskCancellation(s) \/ AgentEnds(s)

Next ==
  \/ Process
  \/ \E r \in Runtimes : OfRuntime(r)
  \/ \E s \in Slots : OfSlot(s)
  \/ \E t \in Rows : ServerEndsRow(t)

Spec == Init /\ [][Next]_vars

\* A run that is neither at its agent nor waiting goes on, polls get through
\* sooner or later, and the mutex of Go lets no waiter starve.  Nothing is asked
\* of agents, which may run for ever, nor of users, updates and the process.
FairSpec ==
  /\ Spec
  /\ \A s \in Slots : WF_vars(Handle(s)) /\ WF_vars(WatchTaskCancellation(s))
                      /\ SF_vars(GrantPath(s))
  /\ WF_vars(GrantAbandoned) /\ WF_vars(ReleaseAbandoned)

-----------------------------------------------------------------------------
Claiming(r) == poller[r].pc \in {"claim", "answer"}
AtWork(s) == run[s].pc \in {"prepare", "agent", "report"}
HoldsDead(s) == InHand(s) /\ status[run[s].row] = "final"

\* daemon.go:2411, "closes the race where a task slips in": behind the barrier no
\* claim is in flight and no task in hand, until the process has ended; and the
\* counts the barrier relies on are those of the calls and runs there are.
BarrierHolds ==
  /\ pauseClaims => /\ \A r \in Runtimes : ~ Claiming(r)
                    /\ \A s \in Slots : ~ InHand(s)
  /\ activeTasks = Cardinality({s \in Slots : InHand(s)})
  /\ claimsInFlight = activeTasks + Cardinality({r \in Runtimes : Claiming(r)})

\* newTaskSlotSemaphore: a slot is in the channel, with a poller or with a run, and
\* in one place only (agents read it as an index of shared resources).
SlotsConserved ==
  \A s \in Slots :
    LET holders == {r \in Runtimes : poller[r].slot = s} IN
    Cardinality(holders) + (IF s \in sem THEN 1 ELSE 0) + (IF InHand(s) THEN 1 ELSE 0) = 1

\* local_directory.go:346, LocalPathLocker: at most one run works in the directory.
OneHolder ==
  \A s, q \in Slots :
    s # q /\ AtWork(s) /\ AtWork(q) => ~ {run[s].row, run[q].row} \subseteq Pinned

\* A row that is delivered twice is never run by two agents at once, although
\* both deliveries prepare for it.
OneAgentPerRow ==
  \A s, q \in Slots :
    s # q /\ run[s].pc = "agent" /\ run[q].pc = "agent" => run[s].row # run[q].row

\* A row the server shows as waiting or running is in a run's hand, unless the
\* daemon could not tell the server how it ended.
NotAbandoned ==
  phase = "up" =>
    \A t \in Rows : status[t] \in {"waiting", "running"} /\ t \notin unreported =>
      \E s \in Slots : InHand(s) /\ run[s].row = t

\* daemon.go:2777, and 3038-3044 for a parked run, "so the daemon slot isn't pinned
\* by a phantom waiter": the run of a final row comes to an end, whatever its agent
\* and the holder of its directory do.
RunsAreCancelled ==
  \A s \in Slots : HoldsDead(s) ~> ~ HoldsDead(s)

\* local_directory.go:431-438: runs that gave up do not keep others out. If agents
\* end, every parked run gets on.
ParkedGetOn ==
  (\A s \in Slots : []<>(run[s].pc # "agent")) =>
    \A s \in Slots : run[s].pc = "wait" ~> run[s].pc # "wait"

\* agent.sql:581-587, RecoverOrphans is for rows "that the prior incarnation of this
\* runtime owned": a runtime about to be recovered has no run in hand.
OrphansAreDead ==
  \A r \in orphans, s \in Slots :
    InHand(s) /\ status[run[s].row] \in InFlight => RuntimeOf[run[s].row] # r
=============================================================================
