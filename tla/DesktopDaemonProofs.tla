------------------------ MODULE DesktopDaemonProofs ------------------------
(***************************************************************************)
(* The guard of the desktop's daemon manager, and the credentials it       *)
(* writes, for any number of calls in flight, of users and of tokens.      *)
(*                                                                         *)
(* The guard: a step moves one call.  Only Click and WithGuard take the    *)
(* guard, and only while it is open; a call that holds it holds it until   *)
(* it returns, and its Return opens it.  Two facts make that inductive:    *)
(* the steps a call of each kind can be at (Way), and that the guard is up *)
(* exactly while one call holds it (Held).                                 *)
(*                                                                         *)
(* The credentials: config.json and its sidecar are written in two steps,  *)
(* and read in two.  While credential calls follow one another (Sole), the *)
(* sidecar names the owner of the token beside it whenever no write is     *)
(* between the two (Paired), and a call goes on with what it read (Fits).  *)
(* A token that clearToken took out of the file is neither in it again nor *)
(* in a call that could write it there (Gone), so no daemon loads it.      *)
(***************************************************************************)
EXTENDS DesktopDaemon, TLAPS, FiniteSetTheorems

CallState ==
  [pc : Steps \cup {"idle"}, kind : Kinds \cup {"none"}, user : Users \cup {None},
   pat : Pats \cup {None}, changed : BOOLEAN]

Inside == {"stop", "kill"}
Before == {"clear", "wipe", "forget", "guard"}
Holds(r) == r.kind \in Guarded \/ (r.kind = "logout" /\ r.pc \in Inside)

\* The steps of a call that holds the guard or will ask for it.
Way(r) ==
  /\ r.kind \in Guarded => r.pc \in Inside \cup {"start", "spawn", "spawned"}
  /\ r.kind = "logout" => r.pc \in Inside \cup Before
  /\ r.pc = "guard" => r.kind = "logout"

Typed ==
  /\ user \in Users \cup {None} /\ config \in Pats \cup {None}
  /\ call \in [Calls -> CallState]

Held ==
  /\ guard \in BOOLEAN
  /\ \A c, d \in Calls : Holds(call[c]) /\ Holds(call[d]) => c = d
  /\ guard <=> \E c \in Calls : Holds(call[c])

IInv == Typed /\ (\A c \in Calls : Way(call[c])) /\ Held

FileTypes == user \in Users \cup {None} /\ config \in Pats \cup {None}

-----------------------------------------------------------------------------
(* What a step does to the calls                                           *)

LEMMA IdleCall == Idle \in CallState /\ ~ Holds(Idle) /\ Way(Idle) /\ Idle.kind = "none"
  BY DEF Idle, CallState, Holds, Way, Guarded

LEMMA NewCall ==
  ASSUME NEW kind \in Kinds, NEW u \in Users \cup {None}, NEW pc \in Steps
  PROVE  /\ Call(kind, u, pc) \in CallState
         /\ Call(kind, u, pc).kind = kind /\ Call(kind, u, pc).pc = pc
  BY DEF Call, CallState, Idle

\* A call goes on, and holds the guard as before.
LEMMA GoesOn ==
  ASSUME IInv, FileTypes', NEW c \in Calls, NEW r \in CallState,
         call' = [call EXCEPT ![c] = r], guard' = guard,
         Way(r), Holds(r) <=> Holds(call[c])
  PROVE  IInv'
  <1>1. /\ call' \in [Calls -> CallState]
        /\ \A d \in Calls : call'[d] = IF d = c THEN r ELSE call[d]
    BY DEF IInv, Typed
  <1>2. \A d \in Calls : Way(call'[d]) BY <1>1 DEF IInv
  <1>3. \A d \in Calls : Holds(call'[d]) <=> Holds(call[d]) BY <1>1
  <1>4. Held' BY <1>1, <1>3 DEF IInv, Held
  <1> QED BY <1>1, <1>2, <1>4 DEF IInv, Typed, FileTypes

\* A call returns, and opens the guard if it held it.
LEMMA Ends ==
  ASSUME IInv, FileTypes', NEW c \in Calls, NEW holds,
         holds <=> Holds(call[c]), holds \in BOOLEAN, Return(c, holds)
  PROVE  IInv'
  <1>1. /\ call' \in [Calls -> CallState]
        /\ \A d \in Calls : call'[d] = IF d = c THEN Idle ELSE call[d]
        /\ guard' = (guard /\ ~ holds)
    BY IdleCall DEF IInv, Typed, Return
  <1>2. \A d \in Calls : Way(call'[d]) BY <1>1, IdleCall DEF IInv
  <1>3. \A d \in Calls : Holds(call'[d]) <=> d # c /\ Holds(call[d]) BY <1>1, IdleCall
  <1>4. Held'
    <2>1. CASE holds BY <2>1, <1>1, <1>3 DEF IInv, Held
    <2>2. CASE ~ holds BY <2>2, <1>1, <1>3 DEF IInv, Held
    <2> QED BY <2>1, <2>2
  <1> QED BY <1>1, <1>2, <1>4 DEF IInv, Typed, FileTypes

\* A call takes the open guard.
LEMMA Takes ==
  ASSUME IInv, FileTypes', NEW c \in Calls, NEW r \in CallState,
         call' = [call EXCEPT ![c] = r], ~ guard, guard' = TRUE, Way(r), Holds(r)
  PROVE  IInv'
  <1>1. /\ call' \in [Calls -> CallState]
        /\ \A d \in Calls : call'[d] = IF d = c THEN r ELSE call[d]
    BY DEF IInv, Typed
  <1>2. \A d \in Calls : Way(call'[d]) BY <1>1 DEF IInv
  <1>3. \A d \in Calls : Holds(call'[d]) <=> d = c BY <1>1 DEF IInv, Held
  <1>4. Held' BY <1>3 DEF Held
  <1> QED BY <1>1, <1>2, <1>4 DEF IInv, Typed, FileTypes

\* A new call that does not hold the guard begins.
LEMMA Begins ==
  ASSUME IInv, FileTypes', NEW kind \in Kinds \ Guarded, NEW u \in Users \cup {None},
         NEW pc \in Steps \ {"guard"}, kind = "logout" => pc = "clear",
         Begin(kind, u, pc), guard' = guard
  PROVE  IInv'
  <1> PICK c \in Free : call' = [call EXCEPT ![c] = Call(kind, u, pc)] BY DEF Begin
  <1>1. c \in Calls /\ call[c] = Idle BY DEF Free
  <1>2. /\ Call(kind, u, pc) \in CallState
        /\ Call(kind, u, pc).kind = kind /\ Call(kind, u, pc).pc = pc
    BY NewCall
  <1>3. Way(Call(kind, u, pc)) /\ ~ Holds(Call(kind, u, pc))
    BY <1>2 DEF Way, Holds, Guarded, Inside, Before
  <1> QED BY <1>1, <1>2, <1>3, IdleCall, GoesOn

\* A call moves to a step that changes nothing about the guard.
LEMMA Jumps ==
  ASSUME IInv, FileTypes', NEW c \in Calls, NEW pc \in Steps, Goto(c, pc), guard' = guard,
         pc = "guard" => call[c].kind = "logout",
         \/ call[c].kind \notin Guarded \cup {"logout"}
         \/ /\ call[c].kind = "logout"
            /\ \/ call[c].pc \in Before /\ pc \in Before
               \/ call[c].pc \in Inside /\ pc \in Inside
         \/ call[c].kind \in Guarded /\ pc \in Inside \cup {"start", "spawn", "spawned"}
  PROVE  IInv'
  <1> DEFINE r == [call[c] EXCEPT !.pc = pc]
  <1>0. call[c] \in CallState BY DEF IInv, Typed
  <1>1. r \in CallState /\ r.kind = call[c].kind /\ r.pc = pc BY <1>0 DEF CallState
  <1>2. call' = [call EXCEPT ![c] = r] BY DEF Goto
  <1>3. Way(r) /\ (Holds(r) <=> Holds(call[c]))
    <2> HIDE DEF r
    <2> QED BY <1>1 DEF Way, Holds, Guarded, Inside, Before
  <1> HIDE DEF r
  <1> QED BY <1>1, <1>2, <1>3, GoesOn

-----------------------------------------------------------------------------
(* The steps                                                               *)

LEMMA InitOk == Init => IInv
  BY IdleCall DEF Init, IInv, Typed, Held

LEMMA AtWay ==
  ASSUME IInv, NEW c \in Calls
  PROVE  /\ call[c] \in CallState /\ call[c].kind \in Kinds \cup {"none"}
         /\ Way(call[c]) /\ (HoldsGuard(c) <=> Holds(call[c])) /\ HoldsGuard(c) \in BOOLEAN
  BY DEF IInv, Typed, CallState, HoldsGuard, Holds, Inside

LEMMA EndsHolding ==
  ASSUME IInv, FileTypes', NEW c \in Calls, Return(c, HoldsGuard(c))
  PROVE  IInv'
  <1> DEFINE holds == HoldsGuard(c)
  <1>1. (holds <=> Holds(call[c])) /\ holds \in BOOLEAN BY AtWay
  <1>2. Return(c, holds) OBVIOUS
  <1> HIDE DEF holds
  <1> QED BY <1>1, <1>2, Ends

LEMMA SyncStep ==
  ASSUME IInv, NEW c \in Calls, SyncToken(c)
  PROVE  IInv'
  <1>0. /\ call[c] \in CallState /\ Way(call[c])
        /\ user \in Users \cup {None} /\ config \in Pats \cup {None}
    BY AtWay DEF IInv, Typed
  <1> DEFINE Apart == call[c].kind \notin Guarded \cup {"logout"}
  <1>1. ASSUME call[c].pc \in {"read", "owner", "mint", "config", "sidecar", "switch"}
        PROVE  Apart /\ ~ Holds(call[c])
    BY <1>0, <1>1 DEF Way, Inside, Before, Guarded, Holds
  <1>2. CASE ReadConfig(c)
    <2> DEFINE r == [call[c] EXCEPT !.pat = config, !.pc = "owner"]
    <2>1. r \in CallState /\ r.kind = call[c].kind /\ r.pc # "guard"
      BY <1>0 DEF CallState, Steps
    <2>2. call' = [call EXCEPT ![c] = r] /\ guard' = guard /\ FileTypes'
      BY <1>0, <1>2 DEF ReadConfig, files, FileTypes
    <2> HIDE DEF r
    <2>3. Apart /\ ~ Holds(call[c]) BY <1>1, <1>2 DEF ReadConfig, AtStep
    <2>4. Way(r) /\ ~ Holds(r) BY <2>1, <2>3 DEF Way, Holds, Guarded
    <2> QED BY <2>1, <2>2, <2>3, <2>4, GoesOn
  <1>3. CASE ReadSidecar(c)
    <2> DEFINE r == [call[c] EXCEPT
                       !.changed = sidecar \notin {None, call[c].user},
                       !.pat = IF Reusable(c) THEN @ ELSE None,
                       !.pc = IF Reusable(c) THEN "config" ELSE "mint"]
    <2>1. r \in CallState /\ r.kind = call[c].kind /\ r.pc # "guard"
      BY <1>0 DEF CallState, Steps
    <2>2. call' = [call EXCEPT ![c] = r] /\ guard' = guard /\ FileTypes'
      BY <1>0, <1>3 DEF ReadSidecar, files, FileTypes
    <2> HIDE DEF r
    <2>3. Apart /\ ~ Holds(call[c]) BY <1>1, <1>3 DEF ReadSidecar, AtStep
    <2>4. Way(r) /\ ~ Holds(r) BY <2>1, <2>3 DEF Way, Holds, Guarded
    <2> QED BY <2>1, <2>2, <2>3, <2>4, GoesOn
  <1>4. CASE MintPat(c)
    <2> PICK p \in UnusedPats : call' = [call EXCEPT ![c].pat = p, ![c].pc = "config"]
      BY <1>4 DEF MintPat
    <2> DEFINE r == [call[c] EXCEPT !.pat = p, !.pc = "config"]
    <2>0. p \in Pats BY DEF UnusedPats
    <2>1. r \in CallState /\ r.kind = call[c].kind /\ r.pc # "guard"
      BY <1>0, <2>0 DEF CallState, Steps
    <2>2. call' = [call EXCEPT ![c] = r] /\ guard' = guard /\ FileTypes'
      BY <1>0, <1>4 DEF MintPat, files, FileTypes
    <2> HIDE DEF r
    <2>3. Apart /\ ~ Holds(call[c]) BY <1>1, <1>4 DEF MintPat, AtStep
    <2>4. Way(r) /\ ~ Holds(r) BY <2>1, <2>3 DEF Way, Holds, Guarded
    <2> QED BY <2>1, <2>2, <2>3, <2>4, GoesOn
  <1>5. CASE MintFails(c)
    <2>1. Apart /\ ~ Holds(call[c]) BY <1>1, <1>5 DEF MintFails, AtStep
    <2>2. FileTypes' BY <1>0, <1>5 DEF MintFails, files, FileTypes
    <2>3. CASE Return(c, FALSE) BY <2>1, <2>2, <2>3, Ends
    <2>4. CASE call' = [call EXCEPT ![c] = Call("logout", None, "clear")] /\ guard' = guard
      <3>1. /\ Call("logout", None, "clear") \in CallState
            /\ Call("logout", None, "clear").kind = "logout"
            /\ Call("logout", None, "clear").pc = "clear"
        BY NewCall DEF Kinds, Steps
      <3>2. Way(Call("logout", None, "clear")) /\ ~ Holds(Call("logout", None, "clear"))
        BY <3>1 DEF Way, Holds, Guarded, Inside, Before
      <3> QED BY <2>1, <2>2, <2>4, <3>1, <3>2, GoesOn
    <2> QED BY <1>5, <2>3, <2>4 DEF MintFails
  <1>6. CASE WriteConfig(c)
    <2>1. Apart BY <1>1, <1>6 DEF WriteConfig, AtStep
    <2>2. FileTypes' BY <1>0, <1>6 DEF WriteConfig, FileTypes, CallState
    <2> QED BY <1>6, <2>1, <2>2, Jumps DEF WriteConfig, Steps
  <1>7. CASE WriteSidecar(c)
    <2>1. Apart BY <1>1, <1>7 DEF WriteSidecar, AtStep
    <2>2. FileTypes' BY <1>0, <1>7 DEF WriteSidecar, FileTypes
    <2> QED BY <1>7, <2>1, <2>2, Jumps DEF WriteSidecar, Steps
  <1>8. CASE RestartOnSwitch(c)
    <2> DEFINE r == [call[c] EXCEPT !.user = None, !.pat = None, !.changed = FALSE,
                                    !.pc = AfterSync(c)]
               next == [call EXCEPT ![c] = r]
               s == Call("switch", None, "stop")
    <2>1. r \in CallState /\ r.kind = call[c].kind /\ r.pc # "guard"
      <3>1. AfterSync(c) \in Steps \ {"guard"} BY DEF AfterSync, Steps
      <3> QED BY <1>0, <3>1 DEF CallState
    <2>2. Apart /\ ~ Holds(call[c]) BY <1>1, <1>8 DEF RestartOnSwitch, AtStep
    <2>3. guard' = guard /\ FileTypes' BY <1>0, <1>8 DEF RestartOnSwitch, files, FileTypes
    <2>4. \/ call' = next
          \/ \E d \in Free : call' = [next EXCEPT ![d] = s]
      BY <1>8 DEF RestartOnSwitch
    <2> HIDE DEF r
    <2>5. Way(r) /\ ~ Holds(r) BY <2>1, <2>2 DEF Way, Holds, Guarded
    <2>6. CASE call' = next BY <2>1, <2>2, <2>3, <2>5, <2>6, GoesOn
    <2>7. CASE \E d \in Free : call' = [next EXCEPT ![d] = s]
      <3> PICK d \in Free : call' = [next EXCEPT ![d] = s] BY <2>7
      <3>1. d \in Calls /\ call[d] = Idle /\ d # c
        BY <1>8, <1>1, IdleCall DEF Free, Idle, RestartOnSwitch, AtStep
      <3>2. s \in CallState /\ s.kind = "switch" /\ s.pc = "stop"
        BY NewCall DEF Kinds, Steps
      <3> HIDE DEF s
      <3>3. Way(s) /\ ~ Holds(s) BY <3>2 DEF Way, Holds, Guarded
      <3>4. /\ call' \in [Calls -> CallState]
            /\ \A e \in Calls : call'[e] = IF e = d THEN s ELSE IF e = c THEN r ELSE call[e]
        BY <2>1, <3>1, <3>2 DEF IInv, Typed
      <3>5. \A e \in Calls : Way(call'[e]) BY <3>4, <2>5, <3>3 DEF IInv
      <3>6. \A e \in Calls : Holds(call'[e]) <=> Holds(call[e])
        BY <3>4, <2>2, <2>5, <3>1, <3>3, IdleCall
      <3>7. Held' BY <2>3, <3>6 DEF IInv, Held
      <3> QED BY <2>3, <3>4, <3>5, <3>7 DEF IInv, Typed, FileTypes
    <2> QED BY <2>4, <2>6, <2>7
  <1> QED BY <1>2, <1>3, <1>4, <1>5, <1>6, <1>7, <1>8 DEF SyncToken

LEMMA ClearStep ==
  ASSUME IInv, NEW c \in Calls, ClearToken(c)
  PROVE  IInv'
  <1>0. /\ call[c] \in CallState /\ Way(call[c])
        /\ user \in Users \cup {None} /\ config \in Pats \cup {None}
    BY AtWay DEF IInv, Typed
  <1>1. ASSUME call[c].pc \in {"clear", "wipe", "forget"}
        PROVE  call[c].kind \notin Guarded /\ call[c].pc \in Before /\ ~ Holds(call[c])
    BY <1>0, <1>1 DEF Way, Inside, Before, Guarded, Holds
  <1>2. CASE ClearReads(c)
    <2>1. call[c].kind \notin Guarded /\ call[c].pc \in Before
      BY <1>1, <1>2 DEF ClearReads, AtStep
    <2>2. /\ FileTypes' /\ guard' = guard
          /\ Goto(c, IF config = None THEN "forget" ELSE "wipe")
      BY <1>0, <1>2 DEF ClearReads, files, FileTypes
    <2>3. CASE config = None BY <2>1, <2>2, <2>3, Jumps DEF Steps, Before
    <2>4. CASE config # None BY <2>1, <2>2, <2>4, Jumps DEF Steps, Before
    <2> QED BY <2>3, <2>4
  <1>3. CASE ClearWrites(c)
    <2>1. call[c].kind \notin Guarded /\ call[c].pc \in Before
      BY <1>1, <1>3 DEF ClearWrites, AtStep
    <2>2. FileTypes' /\ guard' = guard /\ Goto(c, "forget")
      BY <1>0, <1>3 DEF ClearWrites, FileTypes
    <2> QED BY <2>1, <2>2, Jumps DEF Steps, Before
  <1>4. CASE ClearForgets(c)
    <2>1. call[c].kind \notin Guarded /\ call[c].pc \in Before
      BY <1>1, <1>4 DEF ClearForgets, AtStep
    <2>2. /\ FileTypes' /\ guard' = guard
          /\ Goto(c, IF call[c].kind = "logout" THEN "guard" ELSE "read")
      BY <1>0, <1>4 DEF ClearForgets, FileTypes
    <2>3. CASE call[c].kind = "logout" BY <2>1, <2>2, <2>3, Jumps DEF Steps, Before
    <2>4. CASE call[c].kind # "logout" BY <2>1, <2>2, <2>4, Jumps DEF Steps
    <2> QED BY <2>3, <2>4
  <1> QED BY <1>2, <1>3, <1>4 DEF ClearToken

LEMMA LifecycleStep ==
  ASSUME IInv, NEW c \in Calls, Lifecycle(c)
  PROVE  IInv'
  <1>0. /\ call[c] \in CallState /\ Way(call[c])
        /\ HoldsGuard(c) <=> Holds(call[c]) /\ HoldsGuard(c) \in BOOLEAN
        /\ user \in Users \cup {None} /\ config \in Pats \cup {None}
    BY AtWay DEF IInv, Typed
  <1>a. FileTypes'
    BY <1>0 DEF Lifecycle, WithGuard, FindsDaemon, StartBegins, Spawn, StartReturns, StopBegins,
                StopReturns, AutoStart, AutoStartProbed, VersionCheck, files, FileTypes
  <1>1. CASE WithGuard(c)
    <2>1. call[c].pc = "guard" /\ ~ Holds(call[c]) /\ call[c].kind \notin Guarded
      BY <1>0, <1>1 DEF WithGuard, AtStep, Way, Holds, Inside
    <2>2. CASE guard /\ Return(c, FALSE) BY <1>a, <2>1, <2>2, Ends
    <2>3. CASE ~ guard /\ guard' = TRUE /\ Goto(c, "stop")
      <3>0. call[c].kind = "logout" BY <1>0, <2>1 DEF Way
      <3> DEFINE r == [call[c] EXCEPT !.pc = "stop"]
      <3>1. /\ r \in CallState /\ r.kind = call[c].kind /\ r.pc = "stop"
            /\ call' = [call EXCEPT ![c] = r]
        BY <1>0, <2>3 DEF CallState, Steps, Goto
      <3> HIDE DEF r
      <3>2. Way(r) /\ Holds(r) BY <3>0, <3>1, <2>1 DEF Way, Holds, Inside
      <3> QED BY <1>a, <2>3, <3>1, <3>2, Takes
    <2> QED BY <1>1, <2>2, <2>3 DEF WithGuard
  <1>2. ASSUME NEW pc \in Steps, Goto(c, pc), guard' = guard,
               call[c].pc \in Inside \cup {"start", "spawn", "spawned"},
               \/ pc \in Inside
               \/ call[c].kind # "logout" /\ pc \in {"start", "spawn", "spawned"}
        PROVE  IInv'
    <2>1. /\ pc # "guard"
          /\ call[c].kind = "logout" => call[c].pc \in Inside /\ pc \in Inside
          /\ call[c].kind \in Guarded => pc \in Inside \cup {"start", "spawn", "spawned"}
      BY <1>0, <1>2 DEF Way, Inside, Before
    <2> QED BY <1>a, <1>2, <2>1, Jumps
  <1>3. CASE FindsDaemon(c)
    <2>1. Return(c, HoldsGuard(c)) BY <1>3 DEF FindsDaemon
    <2> QED BY <1>a, <2>1, EndsHolding
  <1>4. CASE Spawn(c)
    <2>1. call[c].pc = "spawn" /\ call[c].kind # "logout"
      BY <1>0, <1>4 DEF Spawn, AtStep, Way, Inside, Before
    <2>2. Goto(c, "spawned") /\ guard' = guard BY <1>4 DEF Spawn
    <2> QED BY <1>2, <2>1, <2>2 DEF Steps
  <1>5. CASE StartReturns(c)
    <2>1. Return(c, HoldsGuard(c)) BY <1>5 DEF StartReturns
    <2> QED BY <1>a, <2>1, EndsHolding
  <1>6. CASE StopBegins(c)
    <2>1. call[c].pc = "stop" /\ Goto(c, "kill") /\ guard' = guard
      BY <1>6 DEF StopBegins, AtStep
    <2> QED BY <1>2, <2>1 DEF Steps, Inside
  <1>7. CASE StopReturns(c)
    <2>1. CASE Return(c, HoldsGuard(c)) BY <1>a, <2>1, EndsHolding
    <2>2. CASE call[c].kind \notin StopOnly /\ Goto(c, "start") /\ guard' = guard
      <3>1. call[c].pc = "kill" BY <1>7 DEF StopReturns, AtStep
      <3>2. call[c].kind # "logout" BY <2>2 DEF StopOnly
      <3> QED BY <1>2, <2>2, <3>1, <3>2 DEF Steps, Inside
    <2> QED BY <1>7, <2>1, <2>2 DEF StopReturns
  <1>8. ASSUME call[c].pc \in {"auto", "probe", "version"}
        PROVE  call[c].kind \notin Guarded \cup {"logout"} /\ ~ Holds(call[c])
    BY <1>0, <1>8 DEF Way, Inside, Before, Guarded, Holds
  <1>9. CASE AutoStart(c)
    <2>1. call[c].kind \notin Guarded \cup {"logout"} /\ ~ Holds(call[c])
      BY <1>8, <1>9 DEF AutoStart, AtStep
    <2>2. CASE Return(c, FALSE) BY <1>a, <2>1, <2>2, Ends
    <2>3. CASE (Goto(c, "version") \/ Goto(c, "start")) /\ guard' = guard
      BY <1>a, <2>1, <2>3, Jumps DEF Steps
    <2>4. CASE /\ \E expired \in Verdicts(config) :
                     call' = [call EXCEPT ![c].changed = expired, ![c].pc = "probe"]
               /\ guard' = guard
      <3> PICK expired \in Verdicts(config) :
                     call' = [call EXCEPT ![c].changed = expired, ![c].pc = "probe"]
        BY <2>4
      <3> DEFINE r == [call[c] EXCEPT !.changed = expired, !.pc = "probe"]
      <3>1. expired \in BOOLEAN BY DEF Verdicts
      <3>2. r \in CallState /\ r.kind = call[c].kind /\ r.pc # "guard"
        BY <1>0, <3>1 DEF CallState, Steps
      <3>3. call' = [call EXCEPT ![c] = r] OBVIOUS
      <3> HIDE DEF r
      <3>4. Way(r) /\ ~ Holds(r) BY <2>1, <3>2 DEF Way, Holds, Guarded
      <3> QED BY <1>a, <2>1, <2>4, <3>2, <3>3, <3>4, GoesOn
    <2> QED BY <1>9, <2>2, <2>3, <2>4 DEF AutoStart
  <1>10. CASE AutoStartProbed(c)
    <2> DEFINE r == [call[c] EXCEPT !.changed = FALSE, !.pc = "start"]
    <2>1. r \in CallState /\ r.kind = call[c].kind /\ r.pc # "guard"
      BY <1>0 DEF CallState, Steps
    <2>2. call' = [call EXCEPT ![c] = r] /\ guard' = guard BY <1>10 DEF AutoStartProbed
    <2> HIDE DEF r
    <2>3. call[c].kind \notin Guarded \cup {"logout"} /\ ~ Holds(call[c])
      BY <1>8, <1>10 DEF AutoStartProbed, AtStep
    <2>4. Way(r) /\ ~ Holds(r) BY <2>1, <2>3 DEF Way, Holds, Guarded
    <2> QED BY <1>a, <2>1, <2>2, <2>3, <2>4, GoesOn
  <1>11. CASE VersionCheck(c)
    <2>1. call[c].kind \notin Guarded \cup {"logout"} /\ ~ Holds(call[c])
      BY <1>8, <1>11 DEF VersionCheck, AtStep
    <2>2. CASE Return(c, FALSE) BY <1>a, <2>1, <2>2, Ends
    <2>3. CASE Goto(c, "stop") /\ guard' = guard BY <1>a, <2>1, <2>3, Jumps DEF Steps
    <2> QED BY <1>11, <2>2, <2>3 DEF VersionCheck
  <1>12. CASE StartBegins(c)
    <2>1. call[c].pc = "start" /\ call[c].kind # "logout"
      BY <1>0, <1>12 DEF StartBegins, AtStep, Way, Inside, Before
    <2>2. Goto(c, "spawn") /\ guard' = guard BY <1>12 DEF StartBegins
    <2> QED BY <1>2, <2>1, <2>2 DEF Steps
  <1> QED BY <1>1, <1>3, <1>4, <1>5, <1>6, <1>7, <1>9, <1>10, <1>11, <1>12 DEF Lifecycle

\* A step that moves no call and leaves the guard.
LEMMA StaysPut ==
  ASSUME IInv, FileTypes', UNCHANGED <<call, guard>>
  PROVE  IInv'
  BY DEF IInv, Typed, FileTypes, Held

LEMMA PollStep ==
  ASSUME IInv, Poll
  PROVE  IInv'
  <1>1. FileTypes' /\ guard' = guard
    BY DEF Poll, PollAnswered, PollProbes, ProbeReturns, files, FileTypes, IInv, Typed
  <1>2. CASE call' = call BY <1>1, <1>2, StaysPut
  <1>3. CASE Begin("version", None, "version")
    BY <1>1, <1>3, Begins DEF Kinds, Guarded, Steps
  <1> QED BY <1>2, <1>3 DEF Poll, PollAnswered, PollProbes, ProbeReturns, Assigns, Reports

LEMMA ClickStep ==
  ASSUME IInv, NEW kind \in Guarded, Click(kind)
  PROVE  IInv'
  <1>1. FileTypes' /\ ~ guard /\ guard' = TRUE
    BY DEF Click, files, FileTypes, IInv, Typed
  <1> DEFINE pc == IF kind = "start" THEN "start" ELSE "stop"
             r == Call(kind, None, pc)
  <1> PICK c \in Free : call' = [call EXCEPT ![c] = r] BY DEF Click, Begin
  <1>2. c \in Calls BY DEF Free
  <1>3. r \in CallState /\ r.kind = kind /\ r.pc = pc
    BY NewCall DEF Guarded, Kinds, Steps
  <1> HIDE DEF r
  <1>4. Way(r) /\ Holds(r) BY <1>3 DEF Way, Holds, Guarded, Inside
  <1> QED BY <1>1, <1>2, <1>3, <1>4, Takes

\* The app ends: every call is gone but the login of the session it finds.
LEMMA RestartStep ==
  ASSUME IInv, AppRestarts
  PROVE  IInv'
  <1>1. FileTypes' /\ guard' = FALSE /\ user \in Users \cup {None}
    BY DEF AppRestarts, files, FileTypes, IInv, Typed
  <1> DEFINE r == Call("login", user, "read")
  <1> PICK c \in Calls :
         call' = [d \in Calls |-> IF d = c /\ user # None THEN r ELSE Idle]
    BY DEF AppRestarts
  <1>2. r \in CallState /\ r.kind = "login" /\ r.pc = "read"
    BY <1>1, NewCall DEF Kinds, Steps
  <1> HIDE DEF r
  <1>3. Way(r) /\ ~ Holds(r) BY <1>2 DEF Way, Holds, Guarded
  <1>4. \A d \in Calls : Way(call'[d]) /\ ~ Holds(call'[d]) BY <1>3, IdleCall
  <1>5. call' \in [Calls -> CallState] BY <1>2, IdleCall
  <1>6. Held' BY <1>1, <1>4 DEF Held
  <1> QED BY <1>1, <1>4, <1>5, <1>6 DEF IInv, Typed, FileTypes

LEMMA StepOk == IInv /\ [Next]_vars => IInv'
  <1> SUFFICES ASSUME IInv, [Next]_vars PROVE IInv' OBVIOUS
  <1>0. user \in Users \cup {None} /\ config \in Pats \cup {None} BY DEF IInv, Typed
  <1>1. ASSUME NEW u \in Users, Login(u) PROVE IInv'
    <2>1. FileTypes' /\ guard' = guard /\ Begin("login", u, "read")
      BY <1>0, <1>1 DEF Login, files, FileTypes
    <2> QED BY <2>1, Begins DEF Kinds, Guarded, Steps
  <1>2. CASE Logout
    <2>1. FileTypes' /\ guard' = guard /\ Begin("logout", None, "clear")
      BY <1>0, <1>2 DEF Logout, files, FileTypes
    <2> QED BY <2>1, Begins DEF Kinds, Guarded, Steps
  <1>3. CASE ClickReauthenticate
    <2>1. FileTypes' /\ guard' = guard /\ Begin("reauth", user, "clear")
      BY <1>0, <1>3 DEF ClickReauthenticate, files, FileTypes
    <2> QED BY <1>0, <2>1, Begins DEF Kinds, Guarded, Steps
  <1>4. CASE DaemonBoots \/ DaemonDies
    BY <1>0, <1>4, StaysPut DEF DaemonBoots, DaemonDies, files, FileTypes
  <1>5. CASE UNCHANGED vars BY <1>0, <1>5, StaysPut DEF vars, FileTypes
  <1> QED
    BY <1>1, <1>2, <1>3, <1>4, <1>5, ClickStep, SyncStep, ClearStep, LifecycleStep, PollStep,
       RestartStep
    DEF Next

\* What IInv says of the guard is what OneOperation says.
LEMMA HeldIsOne == IInv => OneOperation
  <1> SUFFICES ASSUME IInv PROVE OneOperation OBVIOUS
  <1> DEFINE H == {c \in Calls : HoldsGuard(c)}
  <1>1. \A c \in Calls : HoldsGuard(c) <=> Holds(call[c]) BY AtWay
  <1>2. guard <=> \E c \in Calls : HoldsGuard(c) BY <1>1 DEF IInv, Held
  <1>3. Cardinality(H) <= 1
    <2>1. CASE H = {} BY <2>1, FS_EmptySet
    <2>2. CASE H # {}
      <3> PICK c \in H : TRUE BY <2>2
      <3>1. H = {c} BY <1>1 DEF IInv, Held
      <3> QED BY <3>1, FS_Singleton
    <2> QED BY <2>1, <2>2
  <1> QED BY <1>2, <1>3 DEF OneOperation

-----------------------------------------------------------------------------
(* Whose token a session writes, and where a dropped one is                 *)

Syncing == {"read", "owner", "mint", "config", "sidecar", "switch"}

\* The user and the tokens a call at each step carries.
Shape(r) ==
  /\ r.pat # None => r.pc \in {"owner", "config", "sidecar", "switch"}
  /\ r.pc \in {"config", "sidecar"} => r.pat # None
  /\ r.pc \in Syncing => r.user # None
  /\ r.pc \in {"clear", "wipe", "forget"} => r.kind = "logout" \/ r.user # None

\* Credential calls wait for each other: nobody else writes the two files ...
Sole ==
  \A c, d \in Calls : call[c].pc \in Credential /\ call[d].pc \in Credential => c = d

\* ... while a call that has read config.json goes on with what it read.
Fits(r) ==
  /\ r.pc = "owner" => r.pat = config
  /\ r.pc \in {"config", "sidecar"} => owner[r.pat] \in {None, r.user}
  /\ r.pc = "sidecar" => r.pat = config

\* The sidecar names the user of config.json's token, or nobody, unless it is
\* about to be written.
Paired ==
  \/ \E c \in Calls : call[c].pc = "sidecar"
  \/ None \in {config, sidecar}
  \/ owner[config] \in {None, sidecar}

\* A token that was dropped is not in the file, nor on its way there.
Gone ==
  /\ dropped \subseteq Pats /\ config \notin dropped
  /\ \A c \in Calls : call[c].pat \notin dropped

SyncInv ==
  /\ IInv
  /\ \A c \in Calls : Shape(call[c]) /\ Fits(call[c])
  /\ Sole /\ Paired /\ Gone

\* A call takes no token from anywhere but the file.
Follows(r, s) == s.pat \in {None, config, r.pat}

LEMMA GoneStays ==
  ASSUME Gone, config' = config, dropped' = dropped,
         \A c \in Calls : Follows(call[c], call'[c])
  PROVE  Gone'
  <1>1. None \notin dropped BY DaemonAssumption DEF Gone
  <1> QED BY <1>1 DEF Gone, Follows

\* A step that leaves the files: every call moves to a state it may be in.
LEMMA FilesLeft ==
  ASSUME SyncInv, IInv', Sole', UNCHANGED <<config, sidecar, owner, dropped>>,
         \A c \in Calls : /\ Shape(call'[c]) /\ Fits(call'[c]) /\ Follows(call[c], call'[c])
                          /\ call[c].pc = "sidecar" => call'[c].pc = "sidecar"
  PROVE  SyncInv'
  <1>1. \A c \in Calls : Shape(call'[c]) /\ Fits(call[c])'
    BY DEF Fits
  <1>2. Paired' BY DEF SyncInv, Paired
  <1>3. Gone' BY GoneStays DEF SyncInv
  <1> QED BY <1>1, <1>2, <1>3 DEF SyncInv, Shape

\* One call moves.
LEMMA OneMoves ==
  ASSUME SyncInv, IInv', UNCHANGED <<config, sidecar, owner, dropped>>,
         NEW c \in Calls, NEW r, call' = [call EXCEPT ![c] = r],
         Shape(r), Fits(r), Follows(call[c], r), call[c].pc # "sidecar",
         r.pc \in Credential =>
           call[c].pc \in Credential \/ \A d \in Calls : call[d].pc \notin Credential
  PROVE  SyncInv'
  <1>1. \A d \in Calls : call'[d] = IF d = c THEN r ELSE call[d]
    BY DEF SyncInv, IInv, Typed
  <1>2. Sole' BY <1>1 DEF SyncInv, Sole
  <1>3. ASSUME NEW d \in Calls
        PROVE  /\ Shape(call'[d]) /\ Fits(call'[d]) /\ Follows(call[d], call'[d])
               /\ call[d].pc = "sidecar" => call'[d].pc = "sidecar"
    <2>1. CASE d = c BY <1>1, <2>1
    <2>2. CASE d # c
      <3>1. call'[d] = call[d] BY <1>1, <2>2
      <3>2. Follows(call[d], call[d])
        BY <3>1 DEF Follows
      <3>3. Shape(call[d]) /\ Fits(call[d]) BY DEF SyncInv
      <3> QED BY <3>1, <3>2, <3>3
    <2> QED BY <2>1, <2>2
  <1> QED BY <1>2, <1>3, FilesLeft

\* Steps at which a call carries no token and touches no file.
Away == (Steps \cup {"idle"}) \ Credential

LEMMA AwayFits ==
  ASSUME NEW r, r.pc \in Away
  PROVE  Fits(r) /\ r.pc \notin Credential /\ r.pc \notin {"wipe", "clear", "sidecar"} \cup Syncing
  BY DEF Away, Fits, Credential, Syncing

LEMMA IdleFits == /\ Idle.pc \in Away /\ Shape(Idle) /\ Idle.pat = None
  BY DEF Idle, Away, Shape, Syncing, Credential

LEMMA NewFits ==
  ASSUME NEW kind, NEW u, NEW pc
  PROVE  /\ Call(kind, u, pc).kind = kind /\ Call(kind, u, pc).pc = pc
         /\ Call(kind, u, pc).user = u /\ Call(kind, u, pc).pat = None
  BY DEF Call, Idle

\* A call away from the credentials goes on, or returns.
LEMMA Jumped ==
  ASSUME SyncInv, IInv', UNCHANGED <<config, sidecar, owner, dropped>>,
         NEW c \in Calls, call[c].pc \in Away, NEW pc \in Away, Goto(c, pc)
  PROVE  SyncInv'
  <1> DEFINE r == [call[c] EXCEPT !.pc = pc]
  <1>0. call[c] \in CallState /\ Shape(call[c]) BY DEF SyncInv, IInv, Typed
  <1>1. /\ r.pc = pc /\ r.kind = call[c].kind /\ r.user = call[c].user
        /\ r.pat = call[c].pat
        /\ call' = [call EXCEPT ![c] = r]
    BY <1>0 DEF CallState, Goto
  <1> HIDE DEF r
  <1>2. Fits(r) /\ Fits(call[c]) /\ r.pc \notin Credential /\ call[c].pc # "wipe"
        /\ call[c].pc # "sidecar" /\ r.pc \notin {"wipe", "clear", "sidecar"} \cup Syncing
        /\ call[c].pc \notin Syncing
    BY <1>1, AwayFits
  <1>3. Shape(r)
    <2>1. r.pat = None BY <1>0, <1>1, <1>2 DEF Shape, Syncing
    <2>2. r.pc \notin Syncing /\ r.pc \notin {"clear", "wipe"} BY <1>2
    <2>3. r.pc # "forget" BY <1>2 DEF Credential
    <2> QED BY <1>0, <1>1, <2>1, <2>2, <2>3 DEF Shape, Syncing
  <1>4. Follows(call[c], r) BY <1>1 DEF Follows
  <1> QED BY <1>1, <1>2, <1>3, <1>4, OneMoves

LEMMA Returned ==
  ASSUME SyncInv, IInv', UNCHANGED <<config, sidecar, owner, dropped>>,
         NEW c \in Calls, call[c].pc # "sidecar", call' = [call EXCEPT ![c] = Idle]
  PROVE  SyncInv'
  <1>1. Fits(Idle) /\ Shape(Idle) /\ Idle.pc \notin Credential BY IdleFits, AwayFits
  <1>2. Follows(call[c], Idle) BY IdleFits DEF Follows
  <1> QED BY <1>1, <1>2, OneMoves

\* A call begins, in the place of another one or of none.
LEMMA Begun ==
  ASSUME SyncInv, IInv', UNCHANGED <<config, sidecar, owner, dropped>>,
         NEW c \in Calls, call[c].pc # "sidecar", NEW kind, NEW u, NEW pc,
         call' = [call EXCEPT ![c] = Call(kind, u, pc)],
         \/ pc \in {"start", "stop", "version"}
         \/ /\ pc \in {"read", "clear"} /\ ((kind = "logout" /\ pc = "clear") \/ u # None)
            /\ call[c].pc \in Credential \/ \A d \in Calls : call[d].pc \notin Credential
  PROVE  SyncInv'
  <1> DEFINE r == Call(kind, u, pc)
  <1>1. r.kind = kind /\ r.pc = pc /\ r.user = u /\ r.pat = None
    BY NewFits
  <1> HIDE DEF r
  <1>2. Shape(r) /\ Fits(r) /\ Follows(call[c], r)
    BY <1>1 DEF Shape, Fits, Follows, Syncing
  <1>3. pc \in {"start", "stop", "version"} => pc \notin Credential BY DEF Credential
  <1>4. call' = [call EXCEPT ![c] = r] BY DEF r
  <1> QED BY <1>1, <1>2, <1>3, <1>4, OneMoves

LEMMA OwnersRemembered ==
  ASSUME NEW S, NEW p \in S, p \in Pats
  PROVE  Remembered(S)[p] = owner[p]
  BY DEF Remembered

\* What SyncInv and IInv say of one call.
LEMMA AtSync ==
  ASSUME SyncInv, NEW c \in Calls
  PROVE  call[c] \in CallState /\ Shape(call[c]) /\ Fits(call[c]) /\ config \in Pats \cup {None}
  BY DEF SyncInv, IInv, Typed

\* Nobody else is at a credential step.
LEMMA Alone ==
  ASSUME SyncInv, NEW c \in Calls, call[c].pc \in Credential, NEW d \in Calls, d # c
  PROVE  /\ call[d].pc \notin Credential /\ call[d].pat = None
         /\ call[d].pc \notin {"owner", "config", "sidecar"}
  <1>1. call[d].pc \notin Credential BY DEF SyncInv, Sole
  <1>2. Shape(call[d]) BY AtSync
  <1> QED BY <1>1, <1>2 DEF Shape, Credential

\* The reads and the mint of syncToken.
LEMMA SyncReads ==
  ASSUME SyncInv, IInv', NEW c \in Calls, ReadConfig(c) \/ ReadSidecar(c)
  PROVE  SyncInv'
  <1>0. call[c] \in CallState /\ Shape(call[c]) /\ Fits(call[c]) BY AtSync
  <1>a. UNCHANGED <<config, sidecar, owner, dropped>>
    BY DEF ReadConfig, ReadSidecar, files
  <1>1. CASE ReadConfig(c)
    <2> DEFINE r == [call[c] EXCEPT !.pat = config, !.pc = "owner"]
    <2>1. /\ call[c].pc = "read" /\ call' = [call EXCEPT ![c] = r]
          /\ r.pc = "owner" /\ r.pat = config /\ r.user = call[c].user
          /\ r.kind = call[c].kind
      BY <1>0, <1>1 DEF ReadConfig, AtStep, CallState
    <2> HIDE DEF r
    <2>2. Shape(r) BY <1>0, <2>1 DEF Shape, Syncing
    <2>3. Fits(r) /\ Follows(call[c], r) BY <2>1 DEF Fits, Follows
    <2>4. call[c].pc \in Credential BY <2>1 DEF Credential
    <2> QED BY <1>a, <2>1, <2>2, <2>3, <2>4, OneMoves
  <1>2. CASE ReadSidecar(c)
    <2> DEFINE ch == sidecar \notin {None, call[c].user}
               pt == IF Reusable(c) THEN call[c].pat ELSE None
               nx == IF Reusable(c) THEN "config" ELSE "mint"
               r == [call[c] EXCEPT !.changed = ch, !.pat = pt, !.pc = nx]
    <2>1. /\ call[c].pc = "owner" /\ call' = [call EXCEPT ![c] = r]
          /\ r.pc = nx /\ r.pat = pt /\ r.user = call[c].user
          /\ r.kind = call[c].kind
      BY <1>0, <1>2 DEF ReadSidecar, AtStep, CallState
    <2> HIDE DEF r
    <2>2. call[c].pc \in Credential BY <2>1 DEF Credential
    <2>3. Shape(r) BY <1>0, <2>1 DEF Shape, Syncing, Reusable
    <2>4. Follows(call[c], r) BY <2>1 DEF Follows
    <2>5. Fits(r)
      <3>1. CASE ~ Reusable(c) BY <2>1, <3>1 DEF Fits
      <3>2. CASE Reusable(c)
        <4>1. call[c].pat = config /\ config # None /\ sidecar = call[c].user
              /\ sidecar # None
          BY <1>0, <2>1, <3>2 DEF Reusable, Fits, Shape, Syncing
        <4>2. \A d \in Calls : call[d].pc # "sidecar"
          BY <2>1, <2>2, Alone
        <4>3. owner[config] \in {None, sidecar}
          BY <4>1, <4>2 DEF SyncInv, Paired
        <4> QED BY <2>1, <3>2, <4>1, <4>3 DEF Fits
      <3> QED BY <3>1, <3>2
    <2> QED BY <1>a, <2>1, <2>2, <2>3, <2>4, <2>5, OneMoves
  <1> QED BY <1>1, <1>2

LEMMA SyncMints ==
  ASSUME SyncInv, IInv', NEW c \in Calls, MintPat(c)
  PROVE  SyncInv'
  <1>0. call[c] \in CallState /\ Shape(call[c]) /\ config \in Pats \cup {None} BY AtSync
  <1>1. PICK p \in UnusedPats :
          /\ dropped' = dropped \ {p}
          /\ owner' = [Remembered({config} \cup {call[d].pat : d \in Calls})
                         EXCEPT ![p] = call[c].user]
          /\ call' = [call EXCEPT ![c].pat = p, ![c].pc = "config"]
    BY DEF MintPat
  <1> DEFINE r == [call[c] EXCEPT !.pat = p, !.pc = "config"]
  <1>2. /\ p \in Pats /\ p # None /\ p # config /\ p # daemon.pat
        /\ \A d \in Calls : p # call[d].pat
    BY DaemonAssumption DEF UnusedPats
  <1>3. /\ call[c].pc = "mint" /\ r.pc = "config" /\ r.pat = p /\ r.user = call[c].user
        /\ r.kind = call[c].kind
        /\ \A d \in Calls : call'[d] = IF d = c THEN r ELSE call[d]
    BY <1>0, <1>1 DEF MintPat, AtStep, CallState, SyncInv, IInv, Typed
  <1> HIDE DEF r
  <1>4. config' = config /\ sidecar' = sidecar
    BY DEF MintPat, files
  <1>5. owner'[p] = call[c].user /\ (config # None => owner'[config] = owner[config])
    BY <1>0, <1>1, <1>2 DEF Remembered
  <1>6. call[c].pc \in Credential BY <1>3 DEF Credential
  <1>7. \A d \in Calls : d # c => /\ call[d].pc \notin Credential
                                 /\ call[d].pc \notin {"owner", "config", "sidecar"}
    BY <1>6, Alone
  <1>8. ASSUME NEW d \in Calls PROVE Shape(call'[d]) /\ Fits(call[d])'
    <2>1. CASE d = c
      <3>1. Shape(r) BY <1>0, <1>2, <1>3 DEF Shape, Syncing
      <3>2. call'[d] = r BY <1>3, <2>1
      <3>3. Fits(call[d])' BY <1>3, <1>5, <3>2 DEF Fits
      <3> QED BY <3>1, <3>2, <3>3
    <2>2. CASE d # c
      <3>1. call'[d] = call[d] BY <1>3, <2>2
      <3>2. Shape(call[d]) BY AtSync
      <3>3. Fits(call[d])' BY <1>7, <2>2, <3>1 DEF Fits
      <3> QED BY <3>1, <3>2, <3>3
    <2> QED BY <2>1, <2>2
  <1>9. Sole' BY <1>3, <1>7 DEF Sole
  <1>10. Paired'
    <2>1. \A d \in Calls : call[d].pc # "sidecar" BY <1>3, <1>7
    <2> QED BY <1>4, <1>5, <2>1 DEF SyncInv, Paired
  <1>11. Gone'
    <2>1. dropped' = dropped \ {p} BY <1>1
    <2> QED BY <1>3, <1>4, <2>1 DEF SyncInv, Gone
  <1> QED BY <1>8, <1>9, <1>10, <1>11 DEF SyncInv, Shape

\* The writes of syncToken and of clearToken.
LEMMA SyncWrites ==
  ASSUME SyncInv, IInv', NEW c \in Calls,
         WriteConfig(c) \/ WriteSidecar(c) \/ ClearWrites(c) \/ ClearForgets(c)
  PROVE  SyncInv'
  <1>0. /\ call[c] \in CallState /\ Shape(call[c]) /\ Fits(call[c])
        /\ config \in Pats \cup {None}
    BY AtSync
  <1>1. PICK pc \in {"sidecar", "switch", "forget", "guard", "read"} :
          /\ Goto(c, pc)
          /\ \/ WriteConfig(c) /\ pc = "sidecar"
             \/ WriteSidecar(c) /\ pc = "switch"
             \/ ClearWrites(c) /\ pc = "forget"
             \/ /\ ClearForgets(c)
                /\ pc = IF call[c].kind = "logout" THEN "guard" ELSE "read"
    BY DEF WriteConfig, WriteSidecar, ClearWrites, ClearForgets
  <1> DEFINE r == [call[c] EXCEPT !.pc = pc]
  <1>2. /\ r.pc = pc /\ r.pat = call[c].pat /\ r.user = call[c].user
        /\ r.kind = call[c].kind
        /\ \A d \in Calls : call'[d] = IF d = c THEN r ELSE call[d]
    BY <1>0, <1>1 DEF Goto, CallState, SyncInv, IInv, Typed
  <1> HIDE DEF r
  <1>3. call[c].pc \in {"config", "sidecar", "wipe", "forget"}
    BY DEF WriteConfig, WriteSidecar, ClearWrites, ClearForgets, AtStep
  <1>4. call[c].pc \in Credential BY <1>3 DEF Credential
  <1>5. \A d \in Calls : d # c => /\ call[d].pc \notin Credential /\ call[d].pat = None
                                 /\ call[d].pc \notin {"owner", "config", "sidecar"}
    BY <1>4, Alone
  <1>6. Sole' BY <1>2, <1>5 DEF Sole
  <1>7. Shape(r)
    <2>1. CASE WriteConfig(c) /\ pc = "sidecar"
      BY <1>0, <1>2, <2>1 DEF Shape, Syncing, WriteConfig, AtStep
    <2>2. CASE WriteSidecar(c) /\ pc = "switch"
      BY <1>0, <1>2, <2>2 DEF Shape, Syncing, WriteSidecar, AtStep
    <2>3. CASE ClearWrites(c) /\ pc = "forget"
      BY <1>0, <1>2, <2>3 DEF Shape, Syncing, ClearWrites, AtStep
    <2>4. CASE ClearForgets(c) /\ pc = IF call[c].kind = "logout" THEN "guard" ELSE "read"
      BY <1>0, <1>2, <2>4 DEF Shape, Syncing, ClearForgets, AtStep
    <2> QED BY <1>1, <2>1, <2>2, <2>3, <2>4
  <1>8. ASSUME NEW d \in Calls, d # c PROVE Shape(call'[d]) /\ Fits(call[d])'
    <2>1. call'[d] = call[d] BY <1>2, <1>8
    <2>2. Shape(call[d]) BY AtSync
    <2> QED BY <1>5, <1>8, <2>1, <2>2 DEF Fits
  <1>9. Fits(call[c])' /\ Paired'
    <2>0. call'[c] = r BY <1>2
    <2>1. CASE WriteConfig(c) /\ pc = "sidecar"
      <3>1. /\ config' = call[c].pat /\ call[c].pat \in Pats /\ sidecar' = sidecar
            /\ owner' = Remembered({call[d].pat : d \in Calls})
        BY <1>0, <2>1 DEF WriteConfig, AtStep, Shape, CallState
      <3>2. owner'[call[c].pat] = owner[call[c].pat] BY <3>1, OwnersRemembered
      <3>3. owner[call[c].pat] \in {None, call[c].user}
        BY <1>0, <2>1 DEF WriteConfig, AtStep, Fits
      <3>4. Paired' BY <1>2, <2>0, <2>1 DEF Paired
      <3> QED BY <1>2, <2>0, <3>1, <3>2, <3>3, <3>4 DEF Fits
    <2>2. CASE WriteSidecar(c) /\ pc = "switch"
      <3>1. /\ sidecar' = call[c].user /\ config' = config /\ owner' = owner
            /\ owner[call[c].pat] \in {None, call[c].user} /\ call[c].pat = config
        BY <1>0, <2>2 DEF WriteSidecar, AtStep, Fits
      <3>2. Paired'
        <4>1. CASE owner[config] = None
          <5>1. (owner[config] \in {None, sidecar})' BY <3>1, <4>1
          <5> QED BY <5>1 DEF Paired
        <4>2. CASE owner[config] = call[c].user
          <5>1. (owner[config] \in {None, sidecar})' BY <3>1, <4>2
          <5> QED BY <5>1 DEF Paired
        <4> QED BY <3>1, <4>1, <4>2
      <3>3. Fits(call[c])' BY <1>2, <2>0, <2>2 DEF Fits
      <3> QED BY <3>2, <3>3
    <2>3. CASE ClearWrites(c) /\ pc = "forget"
      <3>1. config' = None BY <2>3 DEF ClearWrites
      <3> QED BY <1>2, <2>0, <2>3, <3>1 DEF Fits, Paired
    <2>4. CASE ClearForgets(c) /\ pc = IF call[c].kind = "logout" THEN "guard" ELSE "read"
      <3>1. sidecar' = None BY <2>4 DEF ClearForgets
      <3> QED BY <1>2, <2>0, <2>4, <3>1 DEF Fits, Paired
    <2> QED BY <1>1, <2>1, <2>2, <2>3, <2>4
  <1>10. Gone'
    <2>1. \A d \in Calls : call'[d].pat = call[d].pat BY <1>2
    <2>2. CASE ClearWrites(c)
      <3>1. config' = None /\ dropped' = dropped \cup ({config} \ {None})
        BY <2>2 DEF ClearWrites
      <3>2. call[c].pat = None BY <1>0, <2>2 DEF Shape, ClearWrites, AtStep
      <3>3. \A d \in Calls : call'[d].pat = None BY <1>5, <2>1, <3>2
      <3>4. None \notin dropped' /\ dropped' \subseteq Pats
        BY <1>0, <3>1, DaemonAssumption DEF SyncInv, Gone
      <3> QED BY <3>1, <3>3, <3>4 DEF Gone
    <2>3. CASE WriteConfig(c) \/ WriteSidecar(c) \/ ClearForgets(c)
      <3>1. config' \in {config, call[c].pat} /\ dropped' = dropped
        BY <2>3 DEF WriteConfig, WriteSidecar, ClearForgets
      <3> QED BY <2>1, <3>1 DEF SyncInv, Gone
    <2> QED BY <2>2, <2>3
  <1> QED BY <1>2, <1>6, <1>7, <1>8, <1>9, <1>10 DEF SyncInv, Shape

\* RestartOnSwitch drops the token, and may begin a restart.
LEMMA SyncSwitches ==
  ASSUME SyncInv, IInv', NEW c \in Calls, RestartOnSwitch(c)
  PROVE  SyncInv'
  <1> DEFINE r == [call[c] EXCEPT !.user = None, !.pat = None, !.changed = FALSE,
                                  !.pc = AfterSync(c)]
             next == [call EXCEPT ![c] = r]
             s == Call("switch", None, "stop")
  <1>0. call[c] \in CallState /\ Shape(call[c]) BY AtSync
  <1>1. /\ call[c].pc = "switch" /\ r.pc = AfterSync(c) /\ r.pat = None
        /\ r.kind = call[c].kind
    BY <1>0 DEF RestartOnSwitch, AtStep, CallState
  <1>2. s.pc = "stop" /\ s.pat = None BY NewFits
  <1>3. UNCHANGED <<config, sidecar, owner, dropped>>
    BY DEF RestartOnSwitch, files
  <1>4. call' = next \/ \E d \in Free : call' = [next EXCEPT ![d] = s]
    BY DEF RestartOnSwitch
  <1> HIDE DEF r, s
  <1>5. Shape(r) /\ Fits(r) /\ Follows(call[c], r) /\ r.pc \notin Credential
    <2>1. r.pc \in {"auto", "stop"}
      BY <1>1 DEF AfterSync
    <2>2. r.pc \notin Credential BY <2>1 DEF Credential
    <2>3. Shape(r) BY <1>0, <1>1, <2>1 DEF Shape, Syncing
    <2>4. Fits(r) /\ Follows(call[c], r) BY <1>1, <2>1 DEF Fits, Follows
    <2> QED BY <2>2, <2>3, <2>4
  <1>6. Shape(s) /\ Fits(s) /\ s.pc \notin Credential
    BY <1>2 DEF Shape, Fits, Syncing, Credential
  <1>7. CASE call' = next BY <1>1, <1>3, <1>5, <1>7, OneMoves
  <1>8. CASE \E d \in Free : call' = [next EXCEPT ![d] = s]
    <2> PICK d \in Free : call' = [next EXCEPT ![d] = s] BY <1>8
    <2>1. d \in Calls /\ call[d] = Idle /\ d # c
      BY <1>1, IdleFits DEF Free, Away, Credential
    <2>2. \A e \in Calls : call'[e] = IF e = d THEN s ELSE IF e = c THEN r ELSE call[e]
      BY <2>1 DEF SyncInv, IInv, Typed
    <2>3. Follows(call[d], s) BY <1>2 DEF Follows
    <2>4. ASSUME NEW e \in Calls
          PROVE  /\ Shape(call'[e]) /\ Fits(call'[e]) /\ Follows(call[e], call'[e])
                 /\ call[e].pc = "sidecar" => call'[e].pc = "sidecar"
      <3>1. CASE e = d
        <4>1. call[d].pc # "sidecar" BY <2>1, IdleFits DEF Away, Credential
        <4> QED BY <1>6, <2>2, <2>3, <3>1, <4>1
      <3>2. CASE e = c BY <1>1, <1>5, <2>1, <2>2, <3>2
      <3>3. CASE e # c /\ e # d
        <4>1. call'[e] = call[e] BY <2>2, <3>3
        <4>2. Follows(call[e], call[e]) BY DEF Follows
        <4> QED BY <4>1, <4>2, AtSync
      <3> QED BY <3>1, <3>2, <3>3
    <2>5. Sole' BY <1>5, <1>6, <2>2 DEF SyncInv, Sole
    <2> QED BY <1>3, <2>4, <2>5, FilesLeft
  <1> QED BY <1>4, <1>7, <1>8

LEMMA SyncReturns ==
  ASSUME SyncInv, IInv', NEW c \in Calls, MintFails(c)
  PROVE  SyncInv'
  <1>0. /\ call[c].pc = "mint" /\ call[c].pc # "sidecar" /\ call[c].pc \in Credential
        /\ UNCHANGED <<config, sidecar, owner, dropped>>
    BY DEF MintFails, AtStep, Credential, files
  <1>1. CASE Return(c, FALSE) BY <1>0, <1>1, Returned DEF Return
  <1>2. CASE call' = [call EXCEPT ![c] = Call("logout", None, "clear")]
    BY <1>0, <1>2, Begun
  <1> QED BY <1>1, <1>2 DEF MintFails

LEMMA SyncClears ==
  ASSUME SyncInv, IInv', NEW c \in Calls, ClearReads(c)
  PROVE  SyncInv'
  <1> DEFINE next == IF config = None THEN "forget" ELSE "wipe"
             r == [call[c] EXCEPT !.pc = next]
  <1>0. call[c] \in CallState /\ Shape(call[c]) BY AtSync
  <1>1. /\ call[c].pc = "clear" /\ call' = [call EXCEPT ![c] = r]
        /\ r.pc = next /\ r.pat = call[c].pat
        /\ r.user = call[c].user /\ r.kind = call[c].kind
    BY <1>0 DEF ClearReads, Goto, AtStep, CallState
  <1>2. UNCHANGED <<config, sidecar, owner, dropped>> BY DEF ClearReads, files
  <1> HIDE DEF r
  <1>3. Shape(r) /\ Fits(r) BY <1>0, <1>1 DEF Shape, Fits, Syncing
  <1>4. Follows(call[c], r) BY <1>1 DEF Follows
  <1>5. call[c].pc \in Credential /\ call[c].pc # "sidecar" BY <1>1 DEF Credential
  <1> QED BY <1>1, <1>2, <1>3, <1>4, <1>5, OneMoves

LEMMA SyncLifecycle ==
  ASSUME SyncInv, IInv', NEW c \in Calls, Lifecycle(c)
  PROVE  SyncInv'
  <1>0. call[c] \in CallState /\ Shape(call[c]) BY AtSync
  <1>1. /\ UNCHANGED <<config, sidecar, owner, dropped>>
        /\ call[c].pc \in {"guard", "start", "spawn", "spawned", "stop", "kill", "auto",
                           "probe", "version"}
    BY DEF Lifecycle, WithGuard, FindsDaemon, StartBegins, Spawn, StartReturns, StopBegins,
           StopReturns, AutoStart, AutoStartProbed, VersionCheck, files, AtStep
  <1>2. call[c].pc \in Away /\ call[c].pc # "sidecar"
    BY <1>1 DEF Away, Steps, Credential
  <1>3. ASSUME call' = [call EXCEPT ![c] = Idle] PROVE SyncInv'
    BY <1>1, <1>2, <1>3, Returned
  <1>4. ASSUME NEW pc \in {"stop", "kill", "version", "start", "spawn", "spawned"}, Goto(c, pc)
        PROVE  SyncInv'
    <2>1. pc \in Away BY DEF Away, Steps, Credential
    <2> QED BY <1>1, <1>2, <1>4, <2>1, Jumped
  <1>5. ASSUME NEW r, call' = [call EXCEPT ![c] = r], r.pc \in {"probe", "start"},
               r.pat = call[c].pat
        PROVE  SyncInv'
    <2>1. r.pat = None BY <1>0, <1>1, <1>5 DEF Shape
    <2>2. Shape(r) /\ Fits(r) /\ r.pc \notin Credential /\ Follows(call[c], r)
      BY <1>5, <2>1 DEF Shape, Fits, Syncing, Credential, Follows
    <2> QED BY <1>1, <1>2, <1>5, <2>2, OneMoves
  <1>6. CASE AutoStart(c)
    <2>1. CASE Return(c, FALSE) BY <1>3, <2>1 DEF Return
    <2>2. CASE Goto(c, "version") \/ Goto(c, "start") BY <1>4, <2>2
    <2>3. CASE \E expired \in Verdicts(config) :
                 call' = [call EXCEPT ![c].changed = expired, ![c].pc = "probe"]
      <3> PICK expired \in Verdicts(config) :
                 call' = [call EXCEPT ![c].changed = expired, ![c].pc = "probe"]
        BY <2>3
      <3> DEFINE r == [call[c] EXCEPT !.changed = expired, !.pc = "probe"]
      <3>1. r.pc = "probe" /\ r.pat = call[c].pat /\ call' = [call EXCEPT ![c] = r]
        BY <1>0 DEF CallState
      <3> HIDE DEF r
      <3> QED BY <1>5, <3>1
    <2> QED BY <1>6, <2>1, <2>2, <2>3 DEF AutoStart
  <1>7. CASE AutoStartProbed(c)
    <2> DEFINE r == [call[c] EXCEPT !.changed = FALSE, !.pc = "start"]
    <2>1. r.pc = "start" /\ r.pat = call[c].pat /\ call' = [call EXCEPT ![c] = r]
      BY <1>0, <1>7 DEF AutoStartProbed, CallState
    <2> HIDE DEF r
    <2> QED BY <1>5, <2>1
  <1>8. CASE WithGuard(c) BY <1>3, <1>4, <1>8 DEF WithGuard, Return
  <1>9. CASE FindsDaemon(c) \/ StartReturns(c)
    BY <1>3, <1>9 DEF FindsDaemon, StartReturns, Return
  <1>10. CASE StartBegins(c) \/ Spawn(c) \/ StopBegins(c)
    BY <1>4, <1>10 DEF StartBegins, Spawn, StopBegins
  <1>11. CASE StopReturns(c) BY <1>3, <1>4, <1>11 DEF StopReturns, Return
  <1>12. CASE VersionCheck(c) BY <1>3, <1>4, <1>12 DEF VersionCheck, Return
  <1> QED BY <1>6, <1>7, <1>8, <1>9, <1>10, <1>11, <1>12 DEF Lifecycle

\* A step that moves no call.
LEMMA SyncStays ==
  ASSUME SyncInv, IInv', UNCHANGED <<config, sidecar, owner, dropped, call>>
  PROVE  SyncInv'
  <1>1. \A c \in Calls : Fits(call[c]) /\ Shape(call[c]) /\ Follows(call[c], call[c])
    BY AtSync DEF Follows
  <1>2. Sole' BY DEF SyncInv, Sole
  <1> QED BY <1>1, <1>2, FilesLeft

LEMMA SyncPolls ==
  ASSUME SyncInv, IInv', Poll
  PROVE  SyncInv'
  <1>1. UNCHANGED <<config, sidecar, owner, dropped>>
    BY DEF Poll, PollAnswered, PollProbes, ProbeReturns, files
  <1>2. CASE call' = call BY <1>1, <1>2, SyncStays
  <1>3. CASE Begin("version", None, "version")
    <2>1. PICK c \in Free : call' = [call EXCEPT ![c] = Call("version", None, "version")]
      BY <1>3 DEF Begin
    <2>2. c \in Calls /\ call[c].pc # "sidecar"
      BY IdleFits DEF Free, Away, Credential
    <2> QED BY <1>1, <2>1, <2>2, Begun
  <1> QED BY <1>2, <1>3 DEF Poll, PollAnswered, PollProbes, ProbeReturns, Assigns, Reports

\* The renderer begins a call: a credential call waits for the one before it.
LEMMA SyncBegins ==
  ASSUME ~ Overlap, SyncInv, IInv',
         \/ \E u \in Users : Login(u)
         \/ Logout \/ ClickReauthenticate
         \/ \E kind \in Guarded : Click(kind)
  PROVE  SyncInv'
  <1>1. UNCHANGED <<config, sidecar, owner, dropped>>
    BY DEF Login, Logout, ClickReauthenticate, Click, files
  <1>2. \A c \in Free : c \in Calls /\ call[c].pc # "sidecar"
    BY IdleFits DEF Free, Away, Credential
  <1>3. Settled => \A d \in Calls : call[d].pc \notin Credential BY DEF Settled
  <1>4. ASSUME NEW kind, NEW u, NEW pc, Begin(kind, u, pc),
               \/ pc \in {"start", "stop"}
               \/ /\ pc \in {"read", "clear"} /\ ((kind = "logout" /\ pc = "clear") \/ u # None)
                  /\ Settled
        PROVE  SyncInv'
    <2>1. PICK c \in Free : call' = [call EXCEPT ![c] = Call(kind, u, pc)]
      BY <1>4 DEF Begin
    <2> QED BY <1>1, <1>2, <1>3, <1>4, <2>1, Begun
  <1>5. ASSUME NEW u \in Users, Login(u) PROVE SyncInv'
    <2>1. u # None BY DaemonAssumption
    <2> QED BY <1>4, <1>5, <2>1 DEF Login
  <1>6. CASE Logout BY <1>4, <1>6 DEF Logout
  <1>7. CASE ClickReauthenticate BY <1>4, <1>7 DEF ClickReauthenticate
  <1>8. ASSUME NEW kind \in Guarded, Click(kind) PROVE SyncInv'
    BY <1>4, <1>8 DEF Click
  <1> QED BY <1>5, <1>6, <1>7, <1>8

\* The app ends: a token whose sidecar was not written yet is nobody's.
LEMMA SyncRestarts ==
  ASSUME SyncInv, IInv', AppRestarts
  PROVE  SyncInv'
  <1> DEFINE r == Call("login", user, "read")
  <1>0. config \in Pats \cup {None} BY DEF SyncInv, IInv, Typed
  <1>1. PICK c \in Calls :
          call' = [d \in Calls |-> IF d = c /\ user # None THEN r ELSE Idle]
    BY DEF AppRestarts
  <1>2. r.pc = "read" /\ r.user = user /\ r.pat = None BY NewFits
  <1> HIDE DEF r
  <1>3. user # None => Shape(r) BY <1>2 DEF Shape, Syncing
  <1>4. ASSUME NEW d \in Calls
        PROVE  /\ Shape(call'[d]) /\ Fits(call[d])' /\ call'[d].pat = None
               /\ call'[d].pc \in Credential => d = c
               /\ call'[d].pc # "sidecar"
    <2>1. CASE d = c /\ user # None
      <3>1. call'[d] = r BY <1>1, <2>1
      <3> QED BY <1>2, <1>3, <2>1, <3>1 DEF Fits
    <2>2. CASE ~ (d = c /\ user # None)
      <3>1. call'[d] = Idle BY <1>1, <2>2
      <3>2. Idle.pc = "idle" BY DEF Idle
      <3>3. Fits(call[d])' BY <3>1, <3>2 DEF Fits
      <3> QED BY <3>1, <3>2, <3>3, IdleFits DEF Credential
    <2> QED BY <2>1, <2>2
  <1>5. Sole' BY <1>4 DEF Sole
  <1>6. Gone'
    <2>1. dropped' = dropped /\ config' = config BY DEF AppRestarts, files
    <2> QED BY <1>4, <2>1, DaemonAssumption DEF SyncInv, Gone
  <1>7. config' = config /\ sidecar' = sidecar /\ owner' = Remembered({config} \ Torn)
    BY DEF AppRestarts, files
  <1>8. Paired'
    <2>1. SUFFICES ASSUME config # None, sidecar # None,
                          owner'[config] \notin {None, sidecar}
                   PROVE  FALSE
      BY <1>7 DEF Paired
    <2>2. config \notin Torn /\ owner'[config] = owner[config]
      BY <1>0, <1>7, <2>1 DEF Remembered
    <2>3. PICK d \in Calls : call[d].pc = "sidecar"
      BY <2>1, <2>2 DEF SyncInv, Paired
    <2>4. call[d].pat = config /\ owner[config] \in {None, call[d].user}
      BY <2>3, AtSync DEF Fits
    <2>5. sidecar = call[d].user BY <2>2, <2>3, <2>4 DEF Torn, AtStep
    <2> QED BY <2>1, <2>2, <2>4, <2>5
  <1> QED BY <1>4, <1>5, <1>6, <1>8 DEF SyncInv, Shape

DaemonState ==
  [phase : {"down", "booting", "up"}, pat : Pats \cup {None}, old : BOOLEAN]

\* A daemon that starts loads the token of the file; nothing else gives it one.
LEMMA DaemonTyped ==
  ASSUME IInv, daemon \in DaemonState, [Next]_vars
  PROVE  daemon' \in DaemonState /\ daemon'.pat \in {None, config, daemon.pat}
  <1> DEFINE Loads == daemon' \in DaemonState /\ daemon'.pat \in {None, config, daemon.pat}
  <1>1. config \in Pats \cup {None} BY DEF IInv, Typed
  <1>2. Down \in DaemonState /\ Down.pat = None BY DEF Down, DaemonState
  <1>3. ASSUME NEW c \in Calls, Lifecycle(c) PROVE Loads
    <2>1. CASE Spawn(c) BY <1>1, <2>1 DEF Spawn, DaemonState
    <2>2. daemon' \in {daemon, Down} \/ Spawn(c)
      BY <1>3 DEF Lifecycle, WithGuard, FindsDaemon, StartBegins, StartReturns, StopBegins,
                  StopReturns, AutoStart, AutoStartProbed, VersionCheck
    <2> QED BY <1>2, <2>1, <2>2
  <1>4. ASSUME NEW c \in Calls, SyncToken(c) \/ ClearToken(c) PROVE daemon' = daemon
    BY <1>4 DEF SyncToken, ReadConfig, ReadSidecar, MintPat, MintFails, WriteConfig,
                WriteSidecar, RestartOnSwitch, ClearToken, ClearReads, ClearWrites, ClearForgets
  <1>5. CASE DaemonBoots \/ DaemonDies BY <1>2, <1>5 DEF DaemonBoots, DaemonDies, DaemonState
  <1>6. CASE AppRestarts BY <1>6 DEF AppRestarts, Alive, DaemonState
  <1>7. CASE \/ \E u \in Users : Login(u)
             \/ Logout \/ ClickReauthenticate
             \/ \E kind \in Guarded : Click(kind)
    BY <1>7 DEF Login, Logout, ClickReauthenticate, Click
  <1>8. CASE Poll BY <1>8 DEF Poll, PollAnswered, PollProbes, ProbeReturns
  <1>9. CASE UNCHANGED vars BY <1>9 DEF vars
  <1> QED BY <1>3, <1>4, <1>5, <1>6, <1>7, <1>8, <1>9 DEF Next

CredentialInv == SyncInv /\ daemon \in DaemonState

LEMMA SyncInit == Init => CredentialInv
  <1> SUFFICES ASSUME Init PROVE CredentialInv OBVIOUS
  <1>1. \A c \in Calls : call[c] = Idle BY DEF Init
  <1>2. Idle.pc = "idle" BY DEF Idle
  <1>3. \A c \in Calls : Shape(call[c]) /\ Fits(call[c])
    BY <1>1, <1>2, IdleFits DEF Fits
  <1>4. Sole BY <1>1, <1>2 DEF Sole, Credential
  <1>5. Paired BY DEF Init, Paired
  <1>6. Gone BY DEF Init, Gone
  <1>7. daemon \in DaemonState BY DEF Init, Down, DaemonState
  <1> QED BY <1>3, <1>4, <1>5, <1>6, <1>7, InitOk DEF CredentialInv, SyncInv

LEMMA SyncNext ==
  ASSUME ~ Overlap
  PROVE  CredentialInv /\ [Next]_vars => CredentialInv'
  <1> SUFFICES ASSUME SyncInv, daemon \in DaemonState, [Next]_vars PROVE SyncInv'
    BY DaemonTyped DEF CredentialInv, SyncInv
  <1>1. IInv' BY StepOk DEF SyncInv
  <1>2. CASE UNCHANGED vars BY <1>1, <1>2, SyncStays DEF vars, files
  <1>3. ASSUME NEW c \in Calls, SyncToken(c) \/ ClearToken(c) PROVE SyncInv'
    BY <1>1, <1>3, SyncReads, SyncMints, SyncReturns, SyncWrites, SyncSwitches, SyncClears
       DEF SyncToken, ClearToken
  <1>4. CASE DaemonBoots \/ DaemonDies
    BY <1>1, <1>4, SyncStays DEF DaemonBoots, DaemonDies, files
  <1> QED
    BY <1>1, <1>2, <1>3, <1>4, SyncBegins, SyncLifecycle, SyncPolls, SyncRestarts DEF Next

-----------------------------------------------------------------------------
(* The theorems                                                            *)

\* At most one of the renderer's buttons and its logout is inside a lifecycle
\* operation, and the guard is up exactly while one is (daemon-manager.ts:
\* withGuard), whatever runs beside them without it and wherever the app ends.
THEOREM GuardSafe == Spec => []OneOperation
  <1>1. Init => IInv BY InitOk
  <1>2. IInv /\ [Next]_vars => IInv' BY StepOk
  <1>3. IInv => OneOperation BY HeldIsOne
  <1> QED BY <1>1, <1>2, <1>3, PTL DEF Spec

\* daemon-manager.ts:660-662: where credential calls follow one another, a session
\* writes a token of its own user into config.json; only a token whose sync was torn
\* by the end of the app may be of unknown origin.
THEOREM ReuseSafe ==
  ASSUME ~ Overlap
  PROVE  Spec => []ReuseOnlyOwn
  <1>1. CredentialInv => ReuseOnlyOwn BY DEF CredentialInv, SyncInv, Fits, ReuseOnlyOwn, AtStep
  <1> QED BY SyncInit, SyncNext, <1>1, PTL DEF Spec

\* daemon-manager.ts:746-748: where credential calls follow one another, a token that a
\* logout or a re-authentication dropped is never loaded by a daemon again, whichever
\* guarded or unguarded starts and restarts and whichever ends of the app follow.
THEOREM NeverLoadedAgain ==
  ASSUME ~ Overlap
  PROVE  Spec => DroppedForGood
  <1>1. CredentialInv /\ [Next]_vars
          => [daemon'.pat \in dropped => daemon'.pat = daemon.pat]_vars
    <2> SUFFICES ASSUME CredentialInv, [Next]_vars, daemon'.pat \in dropped
                 PROVE  daemon'.pat = daemon.pat
      OBVIOUS
    <2>1. daemon'.pat \in {None, config, daemon.pat} BY DaemonTyped DEF CredentialInv, SyncInv
    <2>2. None \notin dropped /\ config \notin dropped
      BY DaemonAssumption DEF CredentialInv, SyncInv, Gone
    <2> QED BY <2>1, <2>2
  <1> QED BY SyncInit, SyncNext, <1>1, PTL DEF Spec, DroppedForGood
=============================================================================
