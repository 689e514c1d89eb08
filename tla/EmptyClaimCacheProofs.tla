----------------------- MODULE EmptyClaimCacheProofs -----------------------
(***************************************************************************)
(* The version tag closes the race between a slow claim and an enqueue for *)
(* any number of rows and of overlapping claims.                           *)
(***************************************************************************)
EXTENDS EmptyClaimCache, TLAPS

\* Rows whose enqueue has done all it promised, and that still wait.
Announced ==
  {t \in Rows : row[t] = "queued" /\ t \notin bumping \cup missed \cup moved}

\* Versions only grow while anything remembers one, and a claim about to write
\* a verdict sampled its version before the last row in the queue was bumped.
VersionInv ==
  /\ empty # None => empty <= version
  /\ \A c \in Claims : pc[c] \in {"select", "mark"} => seen[c] <= version
  /\ Announced # {} =>
       \A c \in Claims : pc[c] = "mark" => seen[c] # version

IInv == TypeOK /\ VersionInv /\ NeverHidden

USE CacheAssumption DEF TypeOK, redis, marks

LEMMA EnqueueStep ==
  ASSUME IInv, NEW t \in Rows, Enqueue(t)
  PROVE  IInv'
  <1> USE DEF IInv, VersionInv, NeverHidden, Announced, Verdict
  <1>1. CASE Insert(t) BY <1>1 DEF Insert
  <1>2. CASE Bump(t)
    <2>1. version' = version + 1 /\ empty' = empty /\ seen' = seen /\ pc' = pc
      BY <1>2 DEF Bump
    <2>2. \A c \in Claims : pc'[c] = "mark" => seen'[c] # version' BY <2>1
    <2>3. empty' # version' BY <2>1
    <2> QED BY <1>2, <2>1, <2>2, <2>3 DEF Bump
  <1>3. CASE BumpFails(t) \/ AttachTaskFails(t)
    BY <1>3 DEF BumpFails, AttachTaskFails
  <1>4. CASE ReassignTasksToRuntime(t) BY <1>4 DEF ReassignTasksToRuntime
  <1>5. CASE Leave(t) BY <1>5 DEF Leave
  <1> QED BY <1>1, <1>2, <1>3, <1>4, <1>5 DEF Enqueue

LEMMA ClaimStep ==
  ASSUME IInv, NEW c \in Claims, Claim(c)
  PROVE  IInv'
  <1> USE DEF IInv, VersionInv, NeverHidden, Announced, Verdict
  <1>1. CASE Call(c) BY <1>1 DEF Call
  <1>2. CASE IsEmpty(c) BY <1>2 DEF IsEmpty
  <1>3. CASE CurrentVersion(c)
    <2>1. seen'[c] \in Nat /\ seen'[c] <= version
      BY <1>3 DEF CurrentVersion
    <2> QED BY <1>3, <2>1 DEF CurrentVersion
  <1>4. CASE ListQueuedClaimCandidates(c)
    BY <1>4 DEF ListQueuedClaimCandidates, Queued
  <1>5. CASE MarkEmpty(c)
    BY <1>5 DEF MarkEmpty
  <1> QED BY <1>1, <1>2, <1>3, <1>4, <1>5 DEF Claim

LEMMA ExpiryStep ==
  ASSUME IInv, VerdictExpires \/ VersionExpires
  PROVE  IInv'
  <1> USE DEF IInv, VersionInv, NeverHidden, Announced, Verdict
  <1>1. CASE VerdictExpires BY <1>1 DEF VerdictExpires
  <1>2. CASE VersionExpires BY <1>2 DEF VersionExpires
  <1> QED BY <1>1, <1>2

LEMMA InitLemma == Init => IInv
  BY DEF Init, IInv, VersionInv, NeverHidden, Announced, Verdict

LEMMA StepLemma == IInv /\ [Next]_vars => IInv'
  <1> SUFFICES ASSUME IInv, [Next]_vars PROVE IInv' OBVIOUS
  <1>1. CASE \E t \in Rows : Enqueue(t) BY <1>1, EnqueueStep
  <1>2. CASE \E c \in Claims : Claim(c) BY <1>2, ClaimStep
  <1>3. CASE VerdictExpires \/ VersionExpires BY <1>3, ExpiryStep
  <1>4. CASE UNCHANGED vars
    BY <1>4 DEF vars, IInv, VersionInv, NeverHidden, Announced, Verdict
  <1> QED BY <1>1, <1>2, <1>3, <1>4 DEF Next

\* Rows, versions and claims have their types in every reachable state, whichever
\* Redis commands fail.
THEOREM CacheTyped == Spec => []TypeOK
  <1>1. IInv => TypeOK BY DEF IInv
  <1> QED BY InitLemma, StepLemma, <1>1, PTL DEF Spec

\* empty_claim_cache.go:10-33, for any number of rows and overlapping claims: a
\* row whose enqueue bumped the version is never hidden behind a verdict, even
\* when Redis commands fail, claims are slow and keys expire.
THEOREM VerdictSafe == Spec => []NeverHidden
  <1>1. IInv => NeverHidden BY DEF IInv
  <1> QED BY InitLemma, StepLemma, <1>1, PTL DEF Spec
=============================================================================
