-------------------------- MODULE EmptyClaimCache --------------------------
(***************************************************************************)
(* The cached verdict "this runtime has no queued task" that lets an idle  *)
(* poll skip Postgres: server/internal/service/empty_claim_cache.go and    *)
(* its two users in task.go, ClaimTaskForRuntime and notifyTaskAvailable.  *)
(* One runtime, since the two Redis keys are the runtime's own.            *)
(*                                                                         *)
(* A claim reads the verdict and the version in one MGET, samples the      *)
(* version, SELECTs, and only then writes a verdict: four steps between    *)
(* which enqueues and other claims may fall.  An enqueue is its INSERT and *)
(* a later Bump.  Claims of one runtime overlap: the poll loop, a wakeup   *)
(* and an HTTP request the daemon gave up on.                              *)
(***************************************************************************)
EXTENDS Naturals

CONSTANTS
  Rows,        \* rows that will be enqueued for the runtime
  Claims,      \* ClaimTaskForRuntime calls that may be in flight together
  RedisFails,  \* may a Redis command fail?  every caller logs and goes on
  None

ASSUME CacheAssumption == RedisFails \in BOOLEAN /\ None \notin Nat

VARIABLES
  row,       \* "new", "queued" or "gone" (claimed, cancelled, expired)
  bumping,   \* rows inserted whose notifyTaskAvailable is still to run
  missed,    \* rows inserted whose Bump will never take effect
  moved,     \* rows brought here from a merged runtime
  version,   \* mul:claim:runtime:version, 0 when the key is absent
  empty,     \* mul:claim:runtime:empty, None when the key is absent
  pc, seen   \* per claim: the next step, and the version it sampled

vars == <<row, bumping, missed, moved, version, empty, pc, seen>>
redis == <<version, empty>>
marks == <<missed, moved>>

TypeOK ==
  /\ row \in [Rows -> {"new", "queued", "gone"}]
  /\ bumping \subseteq Rows /\ missed \subseteq Rows /\ moved \subseteq Rows
  /\ version \in Nat
  /\ empty \in Nat \cup {None}
  /\ pc \in [Claims -> {"idle", "check", "version", "select", "mark"}]
  /\ seen \in [Claims -> Nat]

Init ==
  /\ row = [t \in Rows |-> "new"]
  /\ bumping = {} /\ missed = {} /\ moved = {}
  /\ version = 0 /\ empty = None
  /\ pc = [c \in Claims |-> "idle"]
  /\ seen = [c \in Claims |-> 0]

-----------------------------------------------------------------------------
(* Enqueue                                                                 *)

Insert(t) ==
  /\ row[t] = "new"
  /\ row' = [row EXCEPT ![t] = "queued"]
  /\ bumping' = bumping \cup {t}
  /\ UNCHANGED <<marks, redis, pc, seen>>

Bump(t) ==
  /\ t \in bumping
  /\ bumping' = bumping \ {t}
  /\ version' = version + 1
  /\ UNCHANGED <<row, marks, empty, pc, seen>>

\* The INCR fails; the enqueue goes on.
BumpFails(t) ==
  /\ RedisFails /\ t \in bumping
  /\ bumping' = bumping \ {t}
  /\ missed' = missed \cup {t}
  /\ UNCHANGED <<row, moved, redis, pc, seen>>

\* enqueueIssueTask and enqueueMentionTask return when AttachTask fails, with
\* the row committed and queued and nothing notified.
AttachTaskFails(t) ==
  /\ t \in bumping
  /\ bumping' = bumping \ {t}
  /\ missed' = missed \cup {t}
  /\ UNCHANGED <<row, moved, redis, pc, seen>>

\* mergeLegacyRuntimes: ReassignTasksToRuntime brings a queued row of another
\* runtime here, and notifies nobody.
ReassignTasksToRuntime(t) ==
  /\ row[t] = "new"
  /\ row' = [row EXCEPT ![t] = "queued"]
  /\ moved' = moved \cup {t}
  /\ UNCHANGED <<bumping, missed, redis, pc, seen>>

\* A queued row leaves the queue by another hand: a claim of the same agent on
\* another runtime, a cancel, the queue TTL.
Leave(t) ==
  /\ row[t] = "queued"
  /\ row' = [row EXCEPT ![t] = "gone"]
  /\ UNCHANGED <<bumping, marks, redis, pc, seen>>

-----------------------------------------------------------------------------
(* ClaimTaskForRuntime, after its promotion and its re-delivery            *)

Verdict == empty = version

Call(c) ==
  /\ pc[c] = "idle"
  /\ pc' = [pc EXCEPT ![c] = "check"]
  /\ UNCHANGED <<row, bumping, marks, redis, seen>>

\* A failing MGET is a miss.
IsEmpty(c) ==
  /\ pc[c] = "check"
  /\ \/ /\ Verdict
        /\ pc' = [pc EXCEPT ![c] = "idle"]
     \/ /\ ~ Verdict \/ RedisFails
        /\ pc' = [pc EXCEPT ![c] = "version"]
  /\ UNCHANGED <<row, bumping, marks, redis, seen>>

\* mutant: a failing GET reads nothing
VersionOrNone(c) ==
  /\ pc[c] = "version"
  /\ \E v \in {version} \cup (IF RedisFails THEN {None} ELSE {}) :
       seen' = [seen EXCEPT ![c] = v]
  /\ pc' = [pc EXCEPT ![c] = "select"]
  /\ UNCHANGED <<row, bumping, marks, redis>>

\* A failing GET reads 0.
CurrentVersion(c) ==
  /\ pc[c] = "version"
  /\ \E v \in {version} \cup (IF RedisFails THEN {0} ELSE {}) :
       seen' = [seen EXCEPT ![c] = v]
  /\ pc' = [pc EXCEPT ![c] = "select"]
  /\ UNCHANGED <<row, bumping, marks, redis>>

Queued == {t \in Rows : row[t] = "queued"}

\* The SELECT and the claim loop.  The loop may come back with nothing (its
\* agents are at capacity), but only an empty SELECT is remembered.
ListQueuedClaimCandidates(c) ==
  /\ pc[c] = "select"
  /\ \/ /\ Queued = {}
        /\ pc' = [pc EXCEPT ![c] = "mark"]
        /\ UNCHANGED row
     \/ /\ \E t \in Queued : row' = [row EXCEPT ![t] = "gone"]
        /\ pc' = [pc EXCEPT ![c] = "idle"]
     \/ /\ Queued # {}
        /\ pc' = [pc EXCEPT ![c] = "idle"]
        /\ UNCHANGED row
  /\ UNCHANGED <<bumping, marks, redis, seen>>

\* mutant: stamps the verdict with the version of now
MarkEmptyNow(c) ==
  /\ pc[c] = "mark"
  /\ empty' = version
  /\ pc' = [pc EXCEPT ![c] = "idle"]
  /\ UNCHANGED <<row, bumping, marks, version, seen>>

MarkEmpty(c) ==
  /\ pc[c] = "mark"
  /\ \/ empty' = seen[c]
     \/ RedisFails /\ UNCHANGED empty
  /\ pc' = [pc EXCEPT ![c] = "idle"]
  /\ UNCHANGED <<row, bumping, marks, version, seen>>

\* mutant: the verdict is written without a TTL
VerdictStays == FALSE /\ UNCHANGED vars

\* EmptyClaimCacheTTL
VerdictExpires ==
  /\ empty # None
  /\ empty' = None
  /\ UNCHANGED <<row, bumping, marks, version, pc, seen>>

\* emptyClaimVersionTTL slides with every Bump and every CurrentVersion: after
\* 24 hours without either, no claim is in flight and no verdict, which lives
\* three minutes, is left.
VersionExpires ==
  /\ version # 0 /\ empty = None
  /\ \A c \in Claims : pc[c] = "idle"
  /\ version' = 0
  /\ UNCHANGED <<row, bumping, marks, empty, pc, seen>>

Enqueue(t) ==
  \/ Insert(t) \/ Bump(t) \/ BumpFails(t) \/ AttachTaskFails(t)
  \/ ReassignTasksToRuntime(t) \/ Leave(t)

Claim(c) ==
  \/ Call(c) \/ IsEmpty(c) \/ CurrentVersion(c)
  \/ ListQueuedClaimCandidates(c) \/ MarkEmpty(c)

Next ==
  \/ \E t \in Rows : Enqueue(t)
  \/ \E c \in Claims : Claim(c)
  \/ VerdictExpires \/ VersionExpires

Spec == Init /\ [][Next]_vars

\* The daemon polls for ever, keys expire, and an agent with room for a task
\* turns up again and again.
Fairness ==
  /\ \A c \in Claims : WF_vars(Claim(c))
  /\ \A c \in Claims : SF_vars(ListQueuedClaimCandidates(c) /\ row' # row)
  /\ WF_vars(VerdictExpires)

FairSpec == Spec /\ Fairness

-----------------------------------------------------------------------------
(* Properties                                                              *)

\* empty_claim_cache.go:10-33: once an enqueue has bumped the version, no
\* claim is turned away by a verdict while that row is queued, even when a slow
\* claim that saw an empty queue writes its verdict afterwards.
NeverHidden ==
  \A t \in Rows : row[t] = "queued" /\ t \notin bumping \cup missed \cup moved => ~ Verdict

\* A missed invalidation is bounded by the verdict's TTL: whatever happens to
\* its Bump, a queued row leaves the queue.
QueuedIsClaimed == \A t \in Rows : row[t] = "queued" ~> row[t] = "gone"
=============================================================================
