--------------------------- MODULE DesktopDaemon ---------------------------
(***************************************************************************)
(* The desktop app as keeper of the local daemon and of its credentials:   *)
(* apps/desktop/src/main/daemon-manager.ts and the renderer's callers      *)
(* (App.tsx: login, logout; platform/daemon-reauth.ts).                    *)
(*                                                                         *)
(* The daemon reads its PAT from the profile's config.json when it starts; *)
(* a sidecar file says for which user that PAT was minted.  Every IPC call *)
(* is a sequence of awaits, one step each, between which the other calls,  *)
(* the poll of /health, the daemon itself and the end of the app may fall. *)
(* Only start, stop and restart out of the renderer take the guard.        *)
(***************************************************************************)
EXTENDS Naturals, FiniteSets

CONSTANTS
  Users,
  Pats,      \* personal access tokens; one is minted again only when unused
  Calls,     \* IPC calls in flight
  Overlap,   \* may credential calls run at the same time?
  None

ASSUME DaemonAssumption ==
  /\ Overlap \in BOOLEAN
  /\ None \notin Users \cup Pats

VARIABLES
  user,      \* the renderer's session
  config,    \* the token of config.json
  sidecar,   \* .desktop-user-id
  owner,     \* history: the user each PAT was minted for, None if a sync was torn
  dropped,   \* history: the tokens that clearToken took out of config.json
  daemon,    \* the daemon process: its phase, the PAT it loaded, an old binary?
  call,      \* the calls in flight
  poll,      \* the poll whose auth probe is in flight, and what that will say
  guard,     \* operationInProgress
  app        \* currentState, pendingVersionRestart and the auth probe's flags

vars == <<user, config, sidecar, owner, dropped, daemon, call, poll, guard, app>>
files == <<config, sidecar>>

Idle == [pc |-> "idle", kind |-> "none", user |-> None, pat |-> None, changed |-> FALSE]
Down == [phase |-> "down", pat |-> None, old |-> FALSE]

Kinds == {"login", "logout", "reauth", "switch", "version", "start", "stop", "restart"}
Steps == {"read", "owner", "mint", "config", "sidecar", "switch", "auto", "probe", "version",
          "clear", "wipe", "forget", "guard", "stop", "kill", "start", "spawn", "spawned"}
Credential == {"read", "owner", "mint", "config", "sidecar", "switch",
               "clear", "wipe", "forget"}
States == {"stopped", "starting", "running", "stopping", "auth_expired"}

TypeOK ==
  /\ user \in Users \cup {None} /\ sidecar \in Users \cup {None}
  /\ config \in Pats \cup {None}
  /\ owner \in [Pats -> Users \cup {None}] /\ dropped \subseteq Pats
  /\ daemon \in [phase : {"down", "booting", "up"}, pat : Pats \cup {None}, old : BOOLEAN]
  /\ call \in [Calls -> [pc : Steps \cup {"idle"}, kind : Kinds \cup {"none"},
                         user : Users \cup {None}, pat : Pats \cup {None}, changed : BOOLEAN]]
  /\ poll \in {"idle", "probes: valid", "probes: expired"}
  /\ guard \in BOOLEAN
  /\ app \in [state : States, pending : BOOLEAN, attempt : BOOLEAN,
              probeDone : BOOLEAN, authExpired : BOOLEAN]

FreshApp == [state |-> "stopped", pending |-> FALSE, attempt |-> FALSE,
             probeDone |-> FALSE, authExpired |-> FALSE]

Init ==
  /\ user = None /\ config = None /\ sidecar = None
  /\ owner = [p \in Pats |-> None] /\ dropped = {}
  /\ daemon = Down
  /\ call = [c \in Calls |-> Idle] /\ poll = "idle"
  /\ guard = FALSE /\ app = FreshApp

Quiet == \A c \in Calls : call[c] = Idle
Settled == Overlap \/ \A c \in Calls : call[c].pc \notin Credential
Free == {c \in Calls : call[c] = Idle}
Alive == daemon.phase # "down"

\* fetchHealthAtPort: a live daemon that answers late, or with an error, is none.
Answers == {"none"} \cup (IF Alive THEN {daemon.phase} ELSE {})

UnusedPats == Pats \ ({config, daemon.pat} \cup {call[c].pat : c \in Calls})

\* The owners of the tokens that a session may still write
Remembered(S) == [p \in Pats |-> IF p \in S THEN owner[p] ELSE None]

-----------------------------------------------------------------------------
(* Calls: begin, go on, end                                                *)

Guarded == {"start", "stop", "restart"}

Call(kind, u, pc) == [Idle EXCEPT !.kind = kind, !.user = u, !.pc = pc]
Goto(c, pc) == call' = [call EXCEPT ![c].pc = pc]
AtStep(c, pc) == call[c].pc = pc

\* mutant: any call that returns opens the guard
ReturnOpens(c, holds) ==
  /\ call' = [call EXCEPT ![c] = Idle]
  /\ guard' = FALSE

\* The call returns; withGuard's finally opens the guard if the call held it.
Return(c, holds) ==
  /\ call' = [call EXCEPT ![c] = Idle]
  /\ guard' = (guard /\ ~ holds)

HoldsGuard(c) ==
  \/ call[c].kind \in Guarded
  \/ call[c].kind = "logout" /\ call[c].pc \in {"stop", "kill"}

Begin(kind, u, pc) == \E c \in Free : call' = [call EXCEPT ![c] = Call(kind, u, pc)]

\* App.tsx, the effect on [user]: syncToken, then autoStart.  A deep link brings
\* a user while another is signed in; a refreshed profile is the same user again.
Login(u) ==
  /\ Settled
  /\ user' = u
  /\ Begin("login", u, "read")
  /\ UNCHANGED <<files, owner, dropped, daemon, poll, guard, app>>

\* handleDaemonLogout: clearToken, then stop through the guard.
Logout ==
  /\ user # None /\ Settled
  /\ user' = None
  /\ Begin("logout", None, "clear")
  /\ UNCHANGED <<files, owner, dropped, daemon, poll, guard, app>>

\* The runtime card, and the first workspace of a session (App.tsx).
Click(kind) ==
  /\ user # None /\ ~ guard
  /\ guard' = TRUE
  /\ Begin(kind, None, IF kind = "start" THEN "start" ELSE "stop")
  /\ UNCHANGED <<user, files, owner, dropped, daemon, poll, app>>

ClickReauthenticate ==
  /\ user # None /\ app.state = "auth_expired" /\ Settled
  /\ Begin("reauth", user, "clear")
  /\ UNCHANGED <<user, files, owner, dropped, daemon, poll, guard, app>>

-----------------------------------------------------------------------------
(* syncToken                                                               *)

ReadConfig(c) ==
  /\ AtStep(c, "read")
  /\ call' = [call EXCEPT ![c].pat = config, ![c].pc = "owner"]
  /\ UNCHANGED <<user, files, owner, dropped, daemon, poll, guard, app>>

\* mutant: whatever token the file holds is reused
ReusableAny(c) == call[c].pat # None

Reusable(c) == sidecar = call[c].user /\ call[c].pat # None

\* The sidecar is read; a cached PAT of this user is reused.
ReadSidecar(c) ==
  /\ AtStep(c, "owner")
  /\ call' = [call EXCEPT
       ![c].changed = sidecar \notin {None, call[c].user},
       ![c].pat = IF Reusable(c) THEN @ ELSE None,
       ![c].pc = IF Reusable(c) THEN "config" ELSE "mint"]
  /\ UNCHANGED <<user, files, owner, dropped, daemon, poll, guard, app>>

\* POST /api/tokens answers with a token that is nowhere yet.
MintPat(c) ==
  /\ AtStep(c, "mint")
  /\ \E p \in UnusedPats :
       /\ dropped' = dropped \ {p}
       /\ owner' = [Remembered({config} \cup {call[d].pat : d \in Calls}) EXCEPT ![p] = call[c].user]
       /\ call' = [call EXCEPT ![c].pat = p, ![c].pc = "config"]
  /\ UNCHANGED <<user, files, daemon, poll, guard, app>>

\* A mint that throws ends the login before autoStart.  Out of a
\* re-authentication, a 401 signs the user out.
MintFails(c) ==
  /\ AtStep(c, "mint")
  /\ \/ Return(c, FALSE) /\ UNCHANGED user
     \/ /\ call[c].kind = "reauth" /\ user = call[c].user
        /\ user' = None
        /\ call' = [call EXCEPT ![c] = Call("logout", None, "clear")]
        /\ UNCHANGED guard
  /\ UNCHANGED <<files, owner, dropped, daemon, poll, app>>

WriteConfig(c) ==
  /\ AtStep(c, "config")
  /\ config' = call[c].pat
  /\ Goto(c, "sidecar")
  /\ owner' = Remembered({call[d].pat : d \in Calls})
  /\ UNCHANGED <<user, sidecar, dropped, daemon, poll, guard, app>>

WriteSidecar(c) ==
  /\ AtStep(c, "sidecar")
  /\ sidecar' = call[c].user
  /\ Goto(c, "switch")
  /\ UNCHANGED <<user, config, owner, dropped, daemon, poll, guard, app>>

AfterSync(c) == IF call[c].kind = "login" THEN "auto" ELSE "stop"

\* A daemon that answers, under another user's PAT, is restarted without the
\* guard and without waiting for it; one that does not answer is left running.
RestartOnSwitch(c) ==
  /\ AtStep(c, "switch")
  /\ LET next == [call EXCEPT ![c] = [@ EXCEPT !.user = None, !.pat = None, !.changed = FALSE,
                                                 !.pc = AfterSync(c)]]
     IN \/ call' = next
        \/ /\ call[c].changed /\ Alive
           /\ \E d \in Free : call' = [next EXCEPT ![d] = Call("switch", None, "stop")]
  /\ UNCHANGED <<user, files, owner, dropped, daemon, poll, guard, app>>

-----------------------------------------------------------------------------
(* clearToken                                                              *)

ClearReads(c) ==
  /\ AtStep(c, "clear")
  /\ Goto(c, IF config = None THEN "forget" ELSE "wipe")
  /\ UNCHANGED <<user, files, owner, dropped, daemon, poll, guard, app>>

\* mutant: only the sidecar is dropped, the token stays in the file
ClearKeepsToken(c) ==
  /\ AtStep(c, "wipe")
  /\ dropped' = dropped \cup ({config} \ {None})
  /\ Goto(c, "forget")
  /\ UNCHANGED <<user, files, owner, daemon, poll, guard, app>>

ClearWrites(c) ==
  /\ AtStep(c, "wipe")
  /\ config' = None
  /\ dropped' = dropped \cup ({config} \ {None})
  /\ Goto(c, "forget")
  /\ owner' = Remembered({call[d].pat : d \in Calls})
  /\ UNCHANGED <<user, sidecar, daemon, poll, guard, app>>

ClearForgets(c) ==
  /\ AtStep(c, "forget")
  /\ sidecar' = None
  /\ Goto(c, IF call[c].kind = "logout" THEN "guard" ELSE "read")
  /\ UNCHANGED <<user, config, owner, dropped, daemon, poll, guard, app>>

\* The logout's stop: another operation in progress turns it away.
WithGuard(c) ==
  /\ AtStep(c, "guard")
  /\ \/ ~ guard /\ guard' = TRUE /\ Goto(c, "stop")
     \/ guard /\ Return(c, FALSE)
  /\ UNCHANGED <<user, files, owner, dropped, daemon, poll, app>>

-----------------------------------------------------------------------------
(* startDaemon, stopDaemon, restartDaemon                                  *)

\* startDaemon asks /health first: a daemon that answers is the success.
FindsDaemon(c) ==
  /\ AtStep(c, "start") /\ Alive
  /\ Return(c, HoldsGuard(c))
  /\ UNCHANGED <<user, files, owner, dropped, daemon, poll, app>>

\* None answers, or the live one does not in time.
StartBegins(c) ==
  /\ AtStep(c, "start")
  /\ app' = [app EXCEPT !.state = "starting", !.attempt = TRUE,
                        !.probeDone = FALSE, !.authExpired = FALSE]
  /\ Goto(c, "spawn")
  /\ UNCHANGED <<user, files, owner, dropped, daemon, poll, guard>>

\* `daemon start`: the process gives up where a live one has the port, or config.json
\* no token.
Spawn(c) ==
  /\ AtStep(c, "spawn")
  /\ daemon' = IF Alive \/ config = None THEN daemon
               ELSE [phase |-> "booting", pat |-> config, old |-> FALSE]
  /\ Goto(c, "spawned")
  /\ UNCHANGED <<user, files, owner, dropped, poll, guard, app>>

\* The CLI returns, or fails or times out whatever became of the process.
StartReturns(c) ==
  /\ AtStep(c, "spawned")
  /\ app' \in {app, [app EXCEPT !.state = "stopped"]}
  /\ Return(c, HoldsGuard(c))
  /\ UNCHANGED <<user, files, owner, dropped, daemon, poll>>

StopBegins(c) ==
  /\ AtStep(c, "stop")
  /\ app' = [app EXCEPT !.state = "stopping", !.attempt = FALSE, !.authExpired = FALSE]
  /\ Goto(c, "kill")
  /\ UNCHANGED <<user, files, owner, dropped, daemon, poll, guard>>

StopOnly == {"stop", "logout"}

\* `daemon stop` succeeds or fails, with the daemon gone or alive either way: the
\* CLI exits 0 where /health does not answer it and where the daemon is still
\* stopping.  A restart goes on after a success only.
StopReturns(c) ==
  /\ AtStep(c, "kill")
  /\ app' = [app EXCEPT !.state = "stopped"]
  /\ daemon' \in {daemon, Down}
  /\ \/ Return(c, HoldsGuard(c))
     \/ call[c].kind \notin StopOnly /\ Goto(c, "start") /\ UNCHANGED guard
  /\ UNCHANGED <<user, files, owner, dropped, poll>>

-----------------------------------------------------------------------------
(* fetchHealth, the poll, auto-start and the version check                 *)

MayProbe == app.state = "starting" /\ ~ app.authExpired /\ ~ app.probeDone /\ app.attempt

\* probeTokenValidity: no token says expired; of a token the server may have
\* revoked it meanwhile (401), and a request that fails says nothing.
Verdicts(p) == IF p = None THEN {TRUE} ELSE BOOLEAN

Reported(a, health) ==
  IF health = "up" THEN "running"
  ELSE IF a.authExpired THEN "auth_expired"
  ELSE IF health = "booting" \/ a.state = "starting" THEN "starting"
  ELSE "stopped"

Learned(health) ==
  IF health = "up" THEN [app EXCEPT !.authExpired = FALSE, !.attempt = FALSE] ELSE app

\* pollOnce goes on: currentState is assigned, a deferred version check retried.
Assigns(a, health) ==
  /\ app' = [a EXCEPT !.state = Reported(a, health)]
  /\ IF a.pending /\ health = "up" THEN Begin("version", None, "version") ELSE UNCHANGED call

\* The renderer's daemon:get-status assigns nothing.
Reports(a) == app' = a /\ UNCHANGED call

PollAnswered ==
  /\ poll = "idle"
  /\ \E health \in Answers : Assigns(Learned(health), health) \/ Reports(Learned(health))
  /\ UNCHANGED <<user, files, owner, dropped, daemon, poll, guard>>

PollProbes ==
  /\ poll = "idle" /\ MayProbe
  /\ app' = [app EXCEPT !.probeDone = TRUE]
  /\ \E expired \in Verdicts(config) :
       poll' = IF expired THEN "probes: expired" ELSE "probes: valid"
  /\ UNCHANGED <<user, files, owner, dropped, daemon, call, guard>>

\* What /health had said is what is reported, whatever became of the daemon.
ProbeReturns ==
  /\ poll # "idle"
  /\ poll' = "idle"
  /\ LET a == [app EXCEPT !.authExpired = @ \/ poll = "probes: expired"]
     IN Assigns(a, "none") \/ Assigns(a, "booting") \/ Reports(a)
  /\ UNCHANGED <<user, files, owner, dropped, daemon, guard>>

\* daemon:auto-start reads the prefs, then asks fetchHealth.
AutoStart(c) ==
  /\ AtStep(c, "auto")
  /\ \/ Return(c, FALSE) /\ UNCHANGED app
     \/ /\ "up" \in Answers
        /\ app' = Learned("up")
        /\ Goto(c, "version")
        /\ UNCHANGED guard
     \/ Goto(c, "start") /\ UNCHANGED <<guard, app>>
     \/ /\ MayProbe
        /\ app' = [app EXCEPT !.probeDone = TRUE]
        /\ \E expired \in Verdicts(config) :
             call' = [call EXCEPT ![c].changed = expired, ![c].pc = "probe"]
        /\ UNCHANGED guard
  /\ UNCHANGED <<user, files, owner, dropped, daemon, poll>>

AutoStartProbed(c) ==
  /\ AtStep(c, "probe")
  /\ app' = [app EXCEPT !.authExpired = @ \/ call[c].changed]
  /\ call' = [call EXCEPT ![c].changed = FALSE, ![c].pc = "start"]
  /\ UNCHANGED <<user, files, owner, dropped, daemon, poll, guard>>

\* ensureRunningDaemonVersionMatches: an old daemon is restarted when idle, and
\* looked at again by the polls while it has tasks; none that answers is let be.
VersionCheck(c) ==
  /\ AtStep(c, "version")
  /\ \/ /\ app' = [app EXCEPT !.pending = FALSE]
        /\ Return(c, FALSE)
     \/ /\ daemon.phase = "up" /\ daemon.old
        /\ \/ app' = [app EXCEPT !.pending = TRUE] /\ Return(c, FALSE)
           \/ app' = [app EXCEPT !.pending = FALSE] /\ Goto(c, "stop") /\ UNCHANGED guard
  /\ UNCHANGED <<user, files, owner, dropped, daemon, poll>>

-----------------------------------------------------------------------------
(* The daemon, and the end of the app                                      *)

DaemonBoots ==
  /\ daemon.phase = "booting"
  /\ daemon' = [daemon EXCEPT !.phase = "up"]
  /\ UNCHANGED <<user, files, owner, dropped, call, poll, guard, app>>

DaemonDies ==
  /\ Alive
  /\ daemon' = Down
  /\ UNCHANGED <<user, files, owner, dropped, call, poll, guard, app>>

\* The tokens in config.json whose user the sidecar does not name yet
Torn == {call[c].pat : c \in {d \in Calls : AtStep(d, "sidecar") /\ sidecar # call[d].user}}

\* The app ends anywhere, by a crash or a quit (one that stops the daemon has
\* DaemonDies before it), and is started again, perhaps with a newer CLI beside the
\* daemon left running.  The session is in localStorage.
AppRestarts ==
  /\ daemon' \in {daemon, [daemon EXCEPT !.old = Alive]}
  /\ app' = FreshApp /\ guard' = FALSE /\ poll' = "idle"
  /\ \E c \in Calls :
       call' = [d \in Calls |-> IF d = c /\ user # None THEN Call("login", user, "read") ELSE Idle]
  /\ owner' = Remembered({config} \ Torn)
  /\ UNCHANGED <<user, files, dropped>>

SyncToken(c) ==
  \/ ReadConfig(c) \/ ReadSidecar(c) \/ MintPat(c) \/ MintFails(c)
  \/ WriteConfig(c) \/ WriteSidecar(c) \/ RestartOnSwitch(c)
ClearToken(c) == ClearReads(c) \/ ClearWrites(c) \/ ClearForgets(c)
Lifecycle(c) ==
  \/ WithGuard(c) \/ FindsDaemon(c) \/ StartBegins(c) \/ Spawn(c) \/ StartReturns(c)
  \/ StopBegins(c) \/ StopReturns(c)
  \/ AutoStart(c) \/ AutoStartProbed(c) \/ VersionCheck(c)
Poll == PollAnswered \/ PollProbes \/ ProbeReturns

Next ==
  \/ \E u \in Users : Login(u)
  \/ Logout \/ ClickReauthenticate
  \/ \E kind \in Guarded : Click(kind)
  \/ \E c \in Calls : SyncToken(c) \/ ClearToken(c) \/ Lifecycle(c)
  \/ Poll \/ DaemonBoots \/ DaemonDies \/ AppRestarts

Spec == Init /\ [][Next]_vars

-----------------------------------------------------------------------------
(* Properties                                                              *)

\* daemon-manager.ts:746-748, "treated as a fresh mint, not a reuse of a stale cached
\* PAT": a token that a logout or a re-authentication took out of config.json is never
\* loaded by a daemon again, whatever starts, restarts, syncs and crashes follow.
DroppedForGood == [][daemon'.pat \in dropped => daemon'.pat = daemon.pat]_vars

\* At most one call out of the renderer's buttons and its logout is inside a
\* lifecycle operation, and the guard is up while it is.
OneOperation ==
  /\ Cardinality({c \in Calls : HoldsGuard(c)}) <= 1
  /\ guard <=> \E c \in Calls : HoldsGuard(c)

\* daemon-manager.ts:660-662, "without it, a previous user's PAT would be used by a
\* new session": a session writes only PATs that were minted for its user, with one
\* exception, a PAT whose sync was torn by the end of the app.
ReuseOnlyOwn ==
  \A c \in Calls : AtStep(c, "config") => owner[call[c].pat] \in {None, call[c].user}
=============================================================================
