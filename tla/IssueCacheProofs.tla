------------------------- MODULE IssueCacheProofs -------------------------
(***************************************************************************)
(* What the client shows once a change has settled, for any issues,        *)
(* columns, page size and number of changes, as long as a change begins    *)
(* when the last one has settled (~ Overlap).                              *)
(*                                                                         *)
(* Details.  DetailsInv: a detail is ahead of the server only until its    *)
(* own update is answered, and behind it only while an event about it is   *)
(* under way; the snapshot of a mutation is what the server has.           *)
(*                                                                         *)
(* Lists.  Every list is at all times coherent with some server: the one   *)
(* there is, the one it will be when a sent update is committed (Ahead),   *)
(* or the one it was before a commit that is yet to be told (Was), unless  *)
(* it is being fetched or somebody is bound to ask for it.  Coherence is   *)
(* a matter of single columns (Right), so that a change of one issue is    *)
(* four lemmas about a column: it leaves, joins, stays or is not touched.  *)
(* ChangeApplied puts them together: whatever the coordinator's verdict,   *)
(* a list that was coherent with the server before the change is coherent  *)
(* with the server after it, or asked for again.  It is used when an       *)
(* update is sent, when it is answered and when anybody's event comes, of  *)
(* which it needs that it says (Said) what the list depends on.            *)
(***************************************************************************)
EXTENDS IssueCache, TLAPS, FiniteSetTheorems

-----------------------------------------------------------------------------
(* Entities and patches                                                    *)

\* A whole entity replaces another one.
LEMMA Whole ==
  ASSUME NEW base \in Entity, NEW patch \in Entity
  PROVE  Spread(base, patch) = patch
  BY DEF Entity, Spread

\* A patch of an entity gives an entity.
LEMMA Part ==
  ASSUME NEW base \in Entity, NEW patch \in Patches
  PROVE  Spread(base, patch) \in Entity
  BY DEF Patches, Entity, Spread

\* A queue of one event.
LEMMA One ==
  ASSUME NEW e
  PROVE  /\ Append(<< >>, e) = <<e>> /\ Head(<<e>>) = e
         /\ Tail(<<e>>) = << >> /\ <<e>> # << >>
  OBVIOUS

-----------------------------------------------------------------------------
(* The details                                                             *)

Settled(i) == detail[i] \in {None, server[i]}

\* An event says what the server has.
Truthful(e) ==
  /\ e.kind \in {"updated", "created", "deleted"} /\ e.id \in Issues
  /\ e.kind \in {"updated", "created"} => e.issue \in Entity /\ server[e.id] = e.issue
  /\ e.kind = "updated" => e.changed \subseteq {"status", "assignee"}
  /\ e.kind = "deleted" => server[e.id] = None

EventsInv ==
  /\ socket \in BOOLEAN
  /\ events = << >> \/ \E e : events = <<e>> /\ Truthful(e)
  /\ ~ socket => events = << >>

OpFields == {"kind", "id", "patch", "pc", "prevDetail", "issue", "prevLists", "stale"}

Unanswered == op # NoOp /\ op.pc # "committed"
Committed == op # NoOp /\ op.pc = "committed"

\* The mutation in flight: until it is committed no event is under way, then the
\* server has what it returned, and the event is its own.
OpInv ==
  op # NoOp =>
    /\ OpFields \subseteq DOMAIN op
    /\ op.id \in Issues /\ op.kind \in {"update", "create", "delete"}
    /\ op.pc \in {"sent", "committed", "rejected"}
    /\ op.kind = "update" => op.patch \in Patches
    /\ op.kind = "create" => op.patch \in Entity
    /\ op.prevDetail \in Entity \cup {None}
    /\ op.pc # "committed" => events = << >>
    /\ op.pc # "committed" /\ op.kind = "create" => server[op.id] = None
    /\ op.pc = "committed" => op.issue = server[op.id]
    /\ op.pc = "committed" /\ op.kind # "delete" => op.issue \in Entity
    /\ events # << >> =>
         /\ Head(events).id = op.id
         /\ <<op.kind, Head(events).kind>> \in
              {<<"update", "updated">>, <<"create", "created">>, <<"delete", "deleted">>}

\* A detail may be ahead of the server until its own update is answered, and
\* behind it while an event about it is under way.
Loose(i) ==
  \/ Unanswered /\ op.kind = "update" /\ op.id = i
  \/ events # << >> /\ Head(events).id = i /\ Head(events).kind # "created"

DetailsInv ==
  /\ \A i \in Issues : Loose(i) \/ Settled(i)
  /\ Unanswered =>
       /\ op.prevDetail \in {None, server[op.id]}
       /\ op.prevDetail = None => detail[op.id] = None
  /\ Unanswered /\ op.kind = "update" /\ op.pc = "sent" /\ server[op.id] # None =>
       detail[op.id] \in {None, Spread(server[op.id], op.patch)}
  /\ op # NoOp /\ op.kind # "update" => detail[op.id] = None
  /\ Committed => Settled(op.id)

DInv ==
  /\ server \in [Issues -> Entity \cup {None}]
  /\ detail \in [Issues -> Entity \cup {None}]
  /\ EventsInv /\ OpInv /\ (socket => DetailsInv)

\* The invariant of the details: at the start, and over each kind of step.
LEMMA DetailsStart == Init => DInv
  <1> SUFFICES ASSUME Init PROVE DInv
    OBVIOUS
  <1>1. server \in [Issues -> Entity \cup {None}]
    <2>1. [status : Statuses, assignee : Initially] \subseteq Entity
      BY CacheAssumption DEF Entity
    <2> QED BY <2>1 DEF Init
  <1> QED BY <1>1 DEF Init, DInv, EventsInv, OpInv, DetailsInv, Settled, Unanswered, Committed

\* One change at a time: a step that needs the client to be at rest finds it so.
LEMMA Rest == ASSUME ~ Overlap, May PROVE op = NoOp /\ events = << >>
  BY DEF May, Quiet

\* What a change makes of the details.
LEMMA DetailPatched ==
  ASSUME NEW i \in Issues, NEW patch, NEW changed, NEW base
  PROVE  ApplyIssueChange(i, patch, changed, base).detail
           = IF detail[i] = None THEN detail
             ELSE [detail EXCEPT ![i] = Spread(@, patch)]
  BY DEF ApplyIssueChange

\* Steps that leave server, details, mutation and events alone.
LEMMA DetailsIdle ==
  ASSUME DInv, UNCHANGED <<server, detail, op, events, socket>>
  PROVE  DInv'
  BY DEF DInv, EventsInv, OpInv, DetailsInv, Settled, Loose, Unanswered, Committed, Truthful

LEMMA ScreenKeepsDetails ==
  ASSUME ~ Overlap, DInv, Screen
  PROVE  DInv'
  <1>1. ASSUME NEW l \in Lists, Mount(l) \/ Unmount(l) \/ Expire(l) PROVE DInv'
    BY <1>1, DetailsIdle DEF Mount, Unmount, Expire, world
  <1>2. ASSUME NEW l \in Lists, NEW s \in Shown, ColumnAnswered(l, s) \/ LoadMore(l, s)
        PROVE  DInv'
    BY <1>2, DetailsIdle DEF ColumnAnswered, LoadMore, world
  <1>3. ASSUME NEW i \in Opened, OpenDetail(i) \/ CloseDetail(i) PROVE DInv'
    <2>1. i \in Issues BY CacheAssumption
    <2>2. op = NoOp /\ events = << >> BY <1>3, Rest DEF OpenDetail, CloseDetail
    <2>3. PICK d \in {None, server[i]} : detail' = [detail EXCEPT ![i] = d]
      BY <1>3 DEF OpenDetail, CloseDetail
    <2>4. UNCHANGED <<server, op, events, socket>>
      BY <1>3 DEF OpenDetail, CloseDetail, world
    <2> QED BY <2>1, <2>2, <2>3, <2>4
         DEF DInv, EventsInv, OpInv, DetailsInv, Settled, Loose, Unanswered, Committed
  <1> QED BY <1>1, <1>2, <1>3 DEF Screen

\* A commit changes one issue, and an event says so if the socket is up.
Commits(i, x, e) ==
  /\ server' = [server EXCEPT ![i] = x]
  /\ events' = IF socket THEN <<e>> ELSE << >>
  /\ e.id = i

Update(i, patch, e) ==
  /\ e.kind = "updated" /\ e.issue = Spread(server[i], patch) /\ e.issue \in Entity
  /\ e.changed = Flags(i, patch)

\* The server's three ways to commit, with the event each one tells.
LEMMA UpdateCommits ==
  ASSUME server \in [Issues -> Entity \cup {None}], events = << >>, NEW i \in Live,
         NEW patch \in Patches, Updated(i, patch)
  PROVE  \E e : Update(i, patch, e) /\ Commits(i, Spread(server[i], patch), e)
  <1> DEFINE x == Spread(server[i], patch)
             changed == Flags(i, patch)
             e == [kind |-> "updated", id |-> i, issue |-> x, changed |-> changed]
  <1>1. x \in Entity BY Part DEF Live
  <1>2. server' = [server EXCEPT ![i] = x] /\ Tell(e) BY DEF Updated
  <1>3. e.kind = "updated" /\ e.id = i /\ e.issue = x /\ e.changed = changed OBVIOUS
  <1> HIDE DEF e
  <1>4. events' = IF socket THEN <<e>> ELSE << >> BY <1>2, One DEF Tell
  <1> QED BY <1>1, <1>2, <1>3, <1>4 DEF Update, Commits

LEMMA CreateCommits ==
  ASSUME events = << >>, NEW i \in Issues, NEW x, CreatedIssue(i, x)
  PROVE  \E e : e.kind = "created" /\ e.issue = x /\ Commits(i, x, e)
  <1> DEFINE e == [kind |-> "created", id |-> i, issue |-> x]
  <1>1. server' = [server EXCEPT ![i] = x] /\ Tell(e) BY DEF CreatedIssue
  <1>2. e.kind = "created" /\ e.id = i /\ e.issue = x OBVIOUS
  <1> HIDE DEF e
  <1>3. events' = IF socket THEN <<e>> ELSE << >> BY <1>1, One DEF Tell
  <1> QED BY <1>1, <1>2, <1>3 DEF Commits

LEMMA DeleteCommits ==
  ASSUME events = << >>, NEW i \in Issues, Deleted(i)
  PROVE  \E e : e.kind = "deleted" /\ Commits(i, None, e)
  <1> DEFINE e == [kind |-> "deleted", id |-> i]
  <1>1. server' = [server EXCEPT ![i] = None] /\ Tell(e) BY DEF Deleted
  <1>2. e.kind = "deleted" /\ e.id = i OBVIOUS
  <1> HIDE DEF e
  <1>3. events' = IF socket THEN <<e>> ELSE << >> BY <1>1, One DEF Tell
  <1> QED BY <1>1, <1>2, <1>3 DEF Commits

\* What another user may do to an issue, and what it does to the history.
Others(i, x, e) ==
  \/ /\ x = e.issue /\ i \in Live
     /\ \E patch \in Patches :
          Update(i, patch, e) /\ drift' = drift \cup Left(i, patch) \X {"unassigned"}
  \/ e.kind = "created" /\ x = e.issue /\ x \in Entity /\ i \notin Live
  \/ e.kind = "deleted" /\ x = None /\ i \in Live

\* The commit of another user, or of this client's mutation.
LEMMA RemoteCommits ==
  ASSUME ~ Overlap, DInv, Remote
  PROVE  /\ op = NoOp /\ events = << >> /\ UNCHANGED <<socket, detail, op>>
         /\ drift \subseteq drift'
         /\ \E i \in Issues : \E x, e :
              Commits(i, x, e) /\ Others(i, x, e)
  <1>1. /\ op = NoOp /\ events = << >> /\ server \in [Issues -> Entity \cup {None}]
        /\ UNCHANGED <<socket, detail, op>>
    BY Rest DEF Remote, Change, DInv
  <1> DEFINE Goal == \E i \in Issues : \E x, e :
              Commits(i, x, e) /\ Others(i, x, e)
  <1>2. ASSUME NEW i \in Live, NEW patch \in Patches, Updated(i, patch),
               drift' = drift \cup Left(i, patch) \X {"unassigned"}
        PROVE  Goal
    <2>1. i \in Issues BY DEF Live
    <2>2. PICK e : Update(i, patch, e) /\ Commits(i, Spread(server[i], patch), e)
      BY <1>1, <1>2, UpdateCommits
    <2>3. e.issue = Spread(server[i], patch) BY <2>2 DEF Update
    <2>4. Others(i, e.issue, e) BY <1>2, <2>2 DEF Others
    <2> QED BY <2>1, <2>2, <2>3, <2>4
  <1>3. ASSUME NEW i \in Issues \ Live, NEW x \in Entity, CreatedIssue(i, x) PROVE Goal
    <2>1. PICK e : e.kind = "created" /\ e.issue = x /\ Commits(i, x, e)
      BY <1>1, <1>3, CreateCommits
    <2> QED BY <2>1 DEF Others
  <1>4. ASSUME NEW i \in Live, Deleted(i) PROVE Goal
    <2>1. i \in Issues BY DEF Live
    <2>2. PICK e : e.kind = "deleted" /\ Commits(i, None, e)
      BY <1>1, <1>4, <2>1, DeleteCommits
    <2> QED BY <2>1, <2>2 DEF Others
  <1>5. drift \subseteq drift' BY DEF Remote
  <1> QED BY <1>1, <1>2, <1>3, <1>4, <1>5 DEF Remote

\* The commit of this client's mutation, which stays in flight.
LEMMA OwnCommits ==
  ASSUME DInv, Commit
  PROVE  /\ op # NoOp /\ op.pc = "sent" /\ events = << >> /\ UNCHANGED <<socket, detail>>
         /\ OpFields \subseteq DOMAIN op' /\ op' # NoOp
         /\ \A f \in OpFields \ {"pc", "issue"} : op'[f] = op[f]
         /\ op'.pc = "committed" /\ op'.issue = server'[op.id]
         /\ \E e, x :
              /\ Commits(op.id, x, e)
              /\ \/ op.kind = "update" /\ Update(op.id, op.patch, e) /\ x = e.issue
                    /\ op.id \in Live
                 \/ op.kind = "create" /\ e.kind = "created" /\ x = e.issue /\ x \in Entity
                 \/ op.kind = "delete" /\ e.kind = "deleted" /\ x = None
  <1>1. /\ op # NoOp /\ op.pc = "sent" /\ UNCHANGED <<socket, detail>>
        /\ op' = [op EXCEPT !.pc = "committed", !.issue = server'[op.id]]
    BY DEF Commit, Sent, NoOp
  <1>2. op.id \in Issues /\ events = << >> /\ server \in [Issues -> Entity \cup {None}]
    BY <1>1 DEF DInv, OpInv
  <1>3. /\ OpFields \subseteq DOMAIN op' /\ op' # NoOp
        /\ \A f \in OpFields \ {"pc", "issue"} : op'[f] = op[f]
        /\ op'.pc = "committed" /\ op'.issue = server'[op.id]
    BY <1>1 DEF DInv, OpInv, OpFields, NoOp
  <1> DEFINE Goal == \E e, x :
              /\ Commits(op.id, x, e)
              /\ \/ op.kind = "update" /\ Update(op.id, op.patch, e) /\ x = e.issue
                    /\ op.id \in Live
                 \/ op.kind = "create" /\ e.kind = "created" /\ x = e.issue /\ x \in Entity
                 \/ op.kind = "delete" /\ e.kind = "deleted" /\ x = None
  <1>4. ASSUME Sent("update") /\ op.id \in Live /\ Updated(op.id, op.patch) PROVE Goal
    <2>1. op.patch \in Patches /\ op.kind = "update"
      BY <1>1, <1>4 DEF DInv, OpInv, Sent
    <2>2. PICK e : Update(op.id, op.patch, e) /\ Commits(op.id, Spread(server[op.id], op.patch), e)
      BY <1>2, <1>4, <2>1, UpdateCommits
    <2>3. Commits(op.id, e.issue, e) BY <2>2 DEF Update
    <2> QED BY <1>4, <2>1, <2>2, <2>3
  <1>5. ASSUME Sent("create") /\ CreatedIssue(op.id, op.patch) PROVE Goal
    <2>1. op.patch \in Entity /\ op.kind = "create" BY <1>1, <1>5 DEF DInv, OpInv, Sent
    <2>2. PICK e : e.kind = "created" /\ e.issue = op.patch /\ Commits(op.id, op.patch, e)
      BY <1>2, <1>5, CreateCommits
    <2> QED BY <2>1, <2>2
  <1>6. ASSUME Sent("delete") /\ op.id \in Live /\ Deleted(op.id) PROVE Goal
    <2>1. PICK e : e.kind = "deleted" /\ Commits(op.id, None, e)
      BY <1>2, <1>6, DeleteCommits
    <2> QED BY <1>6, <2>1 DEF Sent
  <1>7. Goal BY <1>4, <1>5, <1>6 DEF Commit
  <1> QED BY <1>1, <1>2, <1>3, <1>7

LEMMA RemoteKeepsDetails ==
  ASSUME ~ Overlap, DInv, Remote
  PROVE  DInv'
  <1>1. op = NoOp /\ events = << >> /\ UNCHANGED <<socket, detail, op>>
    BY RemoteCommits
  <1>2a. PICK i \in Issues : \E x, e :
          Commits(i, x, e) /\ Others(i, x, e)
    BY RemoteCommits
  <1>2. PICK x, e :
          Commits(i, x, e) /\ Others(i, x, e)
    BY <1>2a
  <1>3. /\ server' = [server EXCEPT ![i] = x] /\ e.id = i /\ x \in Entity \cup {None}
        /\ server'[i] = x /\ \A j \in Issues \ {i} : server'[j] = server[j]
        /\ events' = IF socket THEN <<e>> ELSE << >>
    BY <1>2 DEF Commits, Others, Update, DInv
  <1>4. Truthful(e)'
    <2>1. e.kind = "updated" => e.changed \subseteq {"status", "assignee"}
      BY <1>2 DEF Others, Update, Flags, Patches
    <2> QED BY <1>2, <1>3, <2>1 DEF Truthful, Others, Update
  <1>5. EventsInv' BY <1>1, <1>3, <1>4, One DEF EventsInv, DInv
  <1>6. socket => \A j \in Issues : Settled(j)
    BY <1>1 DEF DInv, DetailsInv, Loose, Unanswered
  <1>7. socket /\ e.kind = "created" => detail[i] = None
    BY <1>2, <1>6 DEF Settled, Live, Others, Update
  <1>8. socket => DetailsInv'
    <2>1. SUFFICES ASSUME socket PROVE \A j \in Issues : (Loose(j) \/ Settled(j))'
      BY <1>1 DEF DetailsInv, Unanswered, Committed
    <2>2. events' # << >> /\ Head(events') = e BY <1>3, <2>1, One
    <2>3. Loose(i)' \/ Settled(i)' BY <1>1, <1>3, <1>7, <2>1, <2>2 DEF Loose, Settled
    <2>4. ASSUME NEW j \in Issues \ {i} PROVE Settled(j)'
      BY <1>1, <1>3, <1>6, <2>1 DEF Settled
    <2> QED BY <2>3, <2>4
  <1> QED BY <1>1, <1>3, <1>5, <1>8 DEF DInv, OpInv

LEMMA SocketKeepsDetails ==
  ASSUME ~ Overlap, DInv, Disconnect \/ Reconnect
  PROVE  DInv'
  <1>1. CASE Disconnect
    BY <1>1 DEF Disconnect, DInv, EventsInv, OpInv, DetailsInv
  <1>2. CASE Reconnect
    <2>1. op = NoOp /\ events = << >> /\ socket' = TRUE /\ UNCHANGED <<server, events, op>>
      BY <1>2, Rest DEF Reconnect
    <2>2. detail' = [i \in Issues |-> IF detail[i] = None THEN None ELSE server[i]]
      BY <1>2 DEF Reconnect
    <2> QED BY <2>1, <2>2 DEF DInv, EventsInv, OpInv, DetailsInv, Settled, Loose, Unanswered, Committed
  <1> QED BY <1>1, <1>2

LEMMA SendKeepsDetails ==
  ASSUME ~ Overlap, DInv, NEW i \in Issues,
         \/ \E patch \in Patches : UpdateIssue(i, patch)
         \/ \E e \in Entity : CreateIssue(i, e)
         \/ DeleteIssue(i)
  PROVE  DInv'
  <1>1. op = NoOp /\ events = << >> /\ UNCHANGED <<server, events, socket>>
    BY Rest DEF UpdateIssue, CreateIssue, DeleteIssue, Change
  <1>2. socket => Settled(i) BY <1>1 DEF DInv, DetailsInv, Loose, Unanswered, Committed
  <1>3. ASSUME NEW patch \in Patches, UpdateIssue(i, patch) PROVE DInv'
    <2> DEFINE c == ApplyIssueChange(i, patch, IssueChangedDims(patch, detail[i]), detail[i])
    <2>1. /\ detail' = c.detail
          /\ op' = [kind |-> "update", id |-> i, patch |-> patch, pc |-> "sent",
                    prevLists |-> c.prevLists, prevDetail |-> detail[i], stale |-> c.stale,
                    issue |-> None]
      BY <1>3 DEF UpdateIssue
    <2>2. c.detail = IF detail[i] = None THEN detail
                     ELSE [detail EXCEPT ![i] = Spread(@, patch)]
      BY DetailPatched
    <2> HIDE DEF c
    <2>3. detail[i] # None => Spread(detail[i], patch) \in Entity BY Part DEF DInv
    <2>4. detail' \in [Issues -> Entity \cup {None}]
      BY <2>1, <2>2, <2>3 DEF DInv
    <2>5. /\ OpFields \subseteq DOMAIN op'
          /\ op'.id = i /\ op'.patch = patch /\ op'.pc = "sent" /\ op'.prevDetail = detail[i]
          /\ op'.kind = "update" /\ op' # NoOp
      BY <2>1 DEF OpFields, NoOp
    <2>6. \A j \in Issues \ {i} : detail'[j] = detail[j]
      BY <2>1, <2>2 DEF DInv
    <2>7. detail[i] = None => detail'[i] = None BY <2>1, <2>2
    <2>8. OpInv' BY <1>1, <2>5 DEF OpInv, DInv
    <2>9. socket => DetailsInv'
      <3>1. SUFFICES ASSUME socket PROVE DetailsInv' OBVIOUS
      <3>2. \A j \in Issues : Settled(j)
        BY <1>1, <3>1 DEF DInv, DetailsInv, Loose, Unanswered
      <3>3. detail'[i] \in {None, Spread(server[i], patch)}
        BY <2>1, <2>2, <3>2 DEF Settled, DInv
      <3> QED BY <1>1, <2>5, <2>6, <2>7, <3>2, <3>3
           DEF DetailsInv, Loose, Settled, Unanswered, Committed
    <2> QED BY <1>1, <2>4, <2>8, <2>9 DEF DInv, EventsInv, Truthful
  <1>4. ASSUME NEW e \in Entity, CreateIssue(i, e) PROVE DInv'
    <2>1. /\ op' = [kind |-> "create", id |-> i, patch |-> e, pc |-> "sent",
                    prevLists |-> NoLists, prevDetail |-> None, stale |-> {}, issue |-> None]
          /\ detail' = detail /\ i \notin Live
      BY <1>4 DEF CreateIssue
    <2>2. OpFields \subseteq DOMAIN op' /\ op' # NoOp BY <2>1 DEF OpFields, NoOp
    <2>3. socket => detail[i] = None BY <1>2, <2>1 DEF Settled, Live
    <2>4. OpInv' BY <1>1, <2>1, <2>2 DEF OpInv, Live
    <2>5. socket => DetailsInv'
      BY <1>1, <2>1, <2>2, <2>3 DEF DInv, DetailsInv, Loose, Settled, Unanswered, Committed
    <2> QED BY <1>1, <2>1, <2>4, <2>5 DEF DInv, EventsInv, Truthful
  <1>5. ASSUME DeleteIssue(i) PROVE DInv'
    <2>1. /\ op' = [kind |-> "delete", id |-> i, patch |-> None, pc |-> "sent",
                    prevLists |-> [l \in Cached |-> lists[l]], prevDetail |-> detail[i],
                    stale |-> {}, issue |-> None]
          /\ detail' = [detail EXCEPT ![i] = None]
      BY <1>5 DEF DeleteIssue
    <2>2. OpFields \subseteq DOMAIN op' /\ op' # NoOp BY <2>1 DEF OpFields, NoOp
    <2>3. /\ op'.kind = "delete" /\ op'.id = i /\ op'.pc = "sent" /\ op'.prevDetail = detail[i]
      BY <2>1
    <2>4. OpInv' BY <1>1, <2>2, <2>3 DEF OpInv, DInv
    <2>5. socket => DetailsInv'
      BY <1>1, <1>2, <2>1, <2>2, <2>3
         DEF DInv, DetailsInv, Loose, Settled, Unanswered, Committed
    <2> QED BY <1>1, <2>1, <2>4, <2>5 DEF DInv, EventsInv, Truthful
  <1> QED BY <1>3, <1>4, <1>5

\* The answer: the commit, or the refusal.
LEMMA ServerKeepsDetails ==
  ASSUME DInv, Commit \/ Reject
  PROVE  DInv'
  <1>1. CASE Reject
    <2>1. /\ op # NoOp /\ op.pc = "sent" /\ op' = [op EXCEPT !.pc = "rejected"]
          /\ UNCHANGED <<server, detail, events, socket>>
      BY <1>1 DEF Reject, world
    <2>2. /\ OpFields \subseteq DOMAIN op' /\ op'.kind = op.kind /\ op'.id = op.id
          /\ op'.pc = "rejected" /\ op'.patch = op.patch /\ op'.prevDetail = op.prevDetail
          /\ op' # NoOp
      BY <2>1 DEF DInv, OpInv, OpFields, NoOp
    <2>3. OpInv' BY <2>1, <2>2 DEF DInv, OpInv
    <2>4. socket => DetailsInv'
      BY <2>1, <2>2 DEF DInv, OpInv, DetailsInv, Settled, Loose, Unanswered, Committed
    <2> QED BY <2>1, <2>3, <2>4 DEF DInv, EventsInv, Truthful
  <1>2. CASE Commit
    <2>1. /\ op # NoOp /\ op.pc = "sent" /\ events = << >> /\ UNCHANGED <<socket, detail>>
          /\ OpFields \subseteq DOMAIN op' /\ op' # NoOp
          /\ \A f \in OpFields \ {"pc", "issue"} : op'[f] = op[f]
          /\ op'.pc = "committed" /\ op'.issue = server'[op.id]
      BY <1>2, OwnCommits
    <2> PICK i \in Issues : i = op.id BY <2>1 DEF DInv, OpInv
    <2>2. PICK e, x :
            /\ Commits(i, x, e)
            /\ \/ op.kind = "update" /\ Update(i, op.patch, e) /\ x = e.issue /\ i \in Live
               \/ op.kind = "create" /\ e.kind = "created" /\ x = e.issue /\ x \in Entity
               \/ op.kind = "delete" /\ e.kind = "deleted" /\ x = None
      BY <1>2, OwnCommits
    <2>3. /\ server' = [server EXCEPT ![i] = x] /\ e.id = i /\ x \in Entity \cup {None}
          /\ server'[i] = x /\ \A j \in Issues \ {i} : server'[j] = server[j]
          /\ events' = IF socket THEN <<e>> ELSE << >>
      BY <2>2 DEF Commits, Update, DInv
    <2>4. /\ op'.kind = op.kind /\ op'.id = i /\ op'.patch = op.patch
          /\ op'.prevDetail = op.prevDetail
      BY <2>1 DEF OpFields
    <2>5. Truthful(e)'
      <3>1. op.kind = "update" => op.patch \in Patches BY <2>1 DEF DInv, OpInv
      <3>2. e.kind = "updated" => e.changed \subseteq {"status", "assignee"}
        BY <2>2, <3>1 DEF Update, Flags, Patches
      <3> QED BY <2>2, <2>3, <3>2 DEF Truthful, Update
    <2>6. EventsInv' BY <2>1, <2>3, <2>5, One DEF EventsInv, DInv
    <2>7. OpInv'
      <3>1. events' # << >> => Head(events') = e BY <2>3, One
      <3>2. <<op.kind, e.kind>> \in
              {<<"update", "updated">>, <<"create", "created">>, <<"delete", "deleted">>}
        BY <2>2 DEF Update
      <3>3. op'.kind # "delete" => op'.issue \in Entity BY <2>1, <2>2, <2>3, <2>4 DEF Update
      <3> QED BY <2>1, <2>3, <2>4, <3>1, <3>2, <3>3 DEF OpInv, DInv
    <2>8. socket => DetailsInv'
      <3>1. SUFFICES ASSUME socket PROVE DetailsInv' OBVIOUS
      <3>2. Settled(i)'
        <4>1. CASE op.kind = "update"
          <5>1. detail[i] \in {None, Spread(server[i], op.patch)}
            BY <2>1, <2>2, <3>1, <4>1 DEF DInv, DetailsInv, Unanswered, Live
          <5> QED BY <2>1, <2>2, <2>3, <4>1, <5>1 DEF Settled, Update
        <4>2. CASE op.kind # "update"
          <5>1. detail[i] = None BY <2>1, <3>1, <4>2 DEF DInv, DetailsInv
          <5> QED BY <2>1, <5>1 DEF Settled
        <4> QED BY <4>1, <4>2
      <3>3. ASSUME NEW j \in Issues \ {i} PROVE Settled(j)'
        <4>1. Settled(j) BY <2>1, <3>1 DEF DInv, DetailsInv, Loose
        <4> QED BY <2>1, <2>3, <4>1 DEF Settled
      <3>4. op'.kind # "update" => detail'[i] = None
        BY <2>1, <2>4, <3>1 DEF DInv, DetailsInv
      <3> QED BY <2>1, <2>4, <3>2, <3>3, <3>4 DEF DetailsInv, Unanswered, Committed
    <2>9. server' \in [Issues -> Entity \cup {None}] BY <2>3 DEF DInv
    <2> QED BY <2>1, <2>6, <2>7, <2>8, <2>9 DEF DInv
  <1> QED BY <1>1, <1>2

\* The end of a mutation whose id's detail is as the server has it or was put back.
LEMMA EndKeepsDetails ==
  ASSUME DInv, op # NoOp, op' = NoOp, UNCHANGED <<server, events, socket>>,
         NEW d \in Entity \cup {None}, detail' = [detail EXCEPT ![op.id] = d],
         socket => d \in {None, server[op.id]}
  PROVE  DInv'
  <1>1. op.id \in Issues BY DEF DInv, OpInv
  <1>2. \A j \in Issues \ {op.id} : detail'[j] = detail[j] BY DEF DInv
  <1>3. detail'[op.id] = d BY <1>1 DEF DInv
  <1>4. detail' \in [Issues -> Entity \cup {None}] BY DEF DInv
  <1>5. socket => DetailsInv'
    BY <1>1, <1>2, <1>3 DEF DInv, DetailsInv, Settled, Loose, Unanswered, Committed
  <1> QED BY <1>4, <1>5 DEF DInv, EventsInv, OpInv, Truthful

LEMMA AnswerKeepsDetails ==
  ASSUME DInv, UpdateSucceeded \/ UpdateFailed \/ CreateSucceeded \/ DeleteSucceeded \/ OtherFailed
  PROVE  DInv'
  <1> DEFINE i == op.id
  <1>1. /\ op.kind \in {"update", "create", "delete"} /\ op # NoOp /\ op' = NoOp
        /\ UNCHANGED <<server, events, socket>>
    BY DEF UpdateSucceeded, UpdateFailed, CreateSucceeded, DeleteSucceeded, OtherFailed,
           Answered, world, NoOp
  <1>2. i \in Issues /\ detail \in [Issues -> Entity \cup {None}]
    BY <1>1 DEF DInv, OpInv
  <1>3. detail = [detail EXCEPT ![i] = detail[i]] BY <1>2
  <1>4. CASE UpdateSucceeded
    <2>1. op.kind = "update" /\ op.pc = "committed" BY <1>4 DEF UpdateSucceeded, Answered
    <2>2. op.issue \in Entity /\ op.issue = server[i] BY <1>1, <2>1 DEF DInv, OpInv
    <2>3. detail' = IF detail[i] = None THEN detail
                    ELSE [detail EXCEPT ![i] = Spread(@, op.issue)]
      <3> DEFINE c == ApplyIssueChange(op.id, op.issue, IssueChangedDims(op.patch, op.issue),
                                       op.issue)
      <3>1. detail' = c.detail BY <1>4 DEF UpdateSucceeded
      <3>2. c.detail = IF detail[i] = None THEN detail
                       ELSE [detail EXCEPT ![i] = Spread(@, op.issue)]
        BY DEF ApplyIssueChange
      <3> HIDE DEF c
      <3> QED BY <3>1, <3>2
    <2>4. detail[i] # None => Spread(detail[i], op.issue) = op.issue BY <1>2, <2>2, Whole
    <2>5. \E d \in {None, op.issue} : detail' = [detail EXCEPT ![i] = d]
      BY <1>2, <1>3, <2>3, <2>4
    <2> QED BY <1>1, <2>2, <2>5, EndKeepsDetails
  <1>5. CASE UpdateFailed \/ OtherFailed
    <2>1. op.pc = "rejected" BY <1>5 DEF UpdateFailed, OtherFailed, Answered
    <2>2. detail' = IF op.prevDetail = None THEN detail
                    ELSE [detail EXCEPT ![i] = op.prevDetail]
      BY <1>5 DEF UpdateFailed, OtherFailed
    <2>3. /\ op.prevDetail \in Entity \cup {None}
          /\ socket => /\ op.prevDetail \in {None, server[i]}
                       /\ op.prevDetail = None => detail[i] = None
      BY <1>1, <2>1 DEF DInv, OpInv, DetailsInv, Unanswered
    <2>4. CASE op.prevDetail = None
      <3>1. detail' = [detail EXCEPT ![i] = detail[i]] BY <1>3, <2>2, <2>4
      <3> QED BY <1>1, <1>2, <2>3, <2>4, <3>1, EndKeepsDetails
    <2>5. CASE op.prevDetail # None
      BY <1>1, <2>2, <2>3, <2>5, EndKeepsDetails
    <2> QED BY <2>4, <2>5
  <1>6. CASE CreateSucceeded
    <2>1. op.kind = "create" /\ op.pc = "committed" /\ detail' = detail
      BY <1>6 DEF CreateSucceeded, Answered
    <2>2. socket => detail[i] \in {None, server[i]}
      BY <1>1, <2>1 DEF DInv, DetailsInv
    <2>3. detail' = [detail EXCEPT ![i] = detail[i]] BY <1>3, <2>1
    <2> QED BY <1>1, <1>2, <2>2, <2>3, EndKeepsDetails
  <1>7. CASE DeleteSucceeded
    <2>1. detail' = [detail EXCEPT ![i] = None] BY <1>7 DEF DeleteSucceeded, Cleanup
    <2> QED BY <1>1, <2>1, EndKeepsDetails
  <1> QED BY <1>4, <1>5, <1>6, <1>7


LEMMA EventKeepsDetails ==
  ASSUME DInv, Event
  PROVE  DInv'
  <1>1. PICK e : events = <<e>> /\ Truthful(e)
    BY DEF Event, OnIssueUpdated, OnIssueCreated, OnIssueDeleted, Received, DInv, EventsInv
  <1>2. e = Head(events) /\ events # << >> /\ Tail(events) = << >> BY <1>1, One
  <1> DEFINE i == e.id
  <1>3. i \in Issues /\ events' = << >> /\ UNCHANGED <<server, socket, op>>
    BY <1>1, <1>2
       DEF Event, OnIssueUpdated, OnIssueCreated, OnIssueDeleted, Received, Truthful
  <1>4. PICK d \in {None, server[i], detail[i]} :
          /\ detail' = [detail EXCEPT ![i] = d]
          /\ detail[i] = None => d = None
          /\ d \in {None, server[i]} \/ e.kind = "created"
    <2>1. CASE OnIssueUpdated
      <3> DEFINE c == ApplyIssueChange(i, e.issue, e.changed, CachedIssue(i))
      <3>1. e.kind = "updated" /\ detail' = c.detail
        BY <1>2, <2>1 DEF OnIssueUpdated, Received
      <3>2. c.detail = IF detail[i] = None THEN detail
                       ELSE [detail EXCEPT ![i] = Spread(@, e.issue)]
        BY <1>3, DetailPatched
      <3> HIDE DEF c
      <3>3. e.issue \in Entity /\ server[i] = e.issue BY <1>1, <3>1 DEF Truthful
      <3>4. detail[i] # None => Spread(detail[i], e.issue) = e.issue
        BY <1>3, <3>3, Whole DEF DInv
      <3>5. CASE detail[i] = None
        <4>1. detail' = [detail EXCEPT ![i] = None] BY <3>1, <3>2, <3>5 DEF DInv
        <4> QED BY <4>1
      <3>6. CASE detail[i] # None
        <4>1. detail' = [detail EXCEPT ![i] = server[i]]
          BY <3>1, <3>2, <3>3, <3>4, <3>6 DEF DInv
        <4> QED BY <3>6, <4>1
      <3> QED BY <3>5, <3>6
    <2>2. CASE OnIssueCreated
      <3>1. e.kind = "created" /\ detail' = detail
        BY <1>2, <2>2 DEF OnIssueCreated, Received
      <3>2. detail' = [detail EXCEPT ![i] = detail[i]] BY <1>3, <3>1 DEF DInv
      <3> QED BY <3>1, <3>2
    <2>3. CASE OnIssueDeleted
      <3>1. detail' = [detail EXCEPT ![i] = None]
        BY <1>2, <2>3 DEF OnIssueDeleted, Cleanup
      <3> QED BY <3>1
    <2> QED BY <2>1, <2>2, <2>3 DEF Event
  <1>5. socket /\ e.kind = "created" => Loose(i) \/ Settled(i)
    BY <1>3 DEF DInv, DetailsInv
  <1>6. \A j \in Issues \ {i} : detail'[j] = detail[j] BY <1>4 DEF DInv
  <1>7. detail'[i] = d BY <1>3, <1>4 DEF DInv
  <1>8. detail' \in [Issues -> Entity \cup {None}] BY <1>3, <1>4 DEF DInv
  <1>9. socket => DetailsInv'
    BY <1>1, <1>2, <1>3, <1>4, <1>5, <1>6, <1>7
       DEF DInv, DetailsInv, OpInv, Settled, Loose, Unanswered, Committed
  <1> QED BY <1>3, <1>8, <1>9 DEF DInv, EventsInv, OpInv, Truthful

LEMMA DetailsKept ==
  ASSUME ~ Overlap
  PROVE  DInv /\ [Next]_vars => DInv'
  <1>1. CASE UNCHANGED vars
    BY <1>1, DetailsIdle DEF vars
  <1>2. ASSUME DInv, Mutation PROVE DInv'
    BY <1>2, SendKeepsDetails, ServerKeepsDetails, AnswerKeepsDetails DEF Mutation
  <1> QED
    BY <1>1, <1>2, ScreenKeepsDetails, EventKeepsDetails, RemoteKeepsDetails,
       SocketKeepsDetails DEF Next

\* The detail of an issue, which is the base that lists are measured by, is what
\* the server has once a change has settled, in whatever order its response and
\* its event came, although it was patched and not fetched.
THEOREM DetailsSafe ==
  ASSUME ~ Overlap
  PROVE  Spec => []DetailsSettle
  <1>1. DInv => DetailsSettle
    BY DEF DInv, DetailsInv, DetailsSettle, Quiet, Loose, Settled, Unanswered
  <1> QED BY DetailsStart, DetailsKept, <1>1, PTL DEF Spec
-----------------------------------------------------------------------------
(* Columns, with respect to any issues                                     *)

\* Issue j is an issue of column s of list l.
In(srv, l, s, j) ==
  /\ srv[j] # None /\ srv[j].status = s
  /\ \/ l = "board"
     \/ srv[j].assignee = "me"
     \/ l = "all" /\ j \in Created

Of(srv, l, s) == {j \in Issues : In(srv, l, s, j)}

\* Coherent, of one column and of a list.
Right(srv, l, s, b) ==
  /\ b \in Bucket
  /\ b.total = IF l = "all" THEN Cardinality(b.cards) ELSE Cardinality(Of(srv, l, s))
  /\ \A x \in b.cards : In(srv, l, s, x.id) /\ x = Card(x.id, srv[x.id])

Coh(srv, l, data) ==
  data \in [Shown -> Bucket] /\ \A s \in Shown : Right(srv, l, s, data[s])

OnlyAt(srv, new, i) == \A j \in Issues \ {i} : new[j] = srv[j]

\* Finite sets of issues and cards.
LEMMA Count == ASSUME NEW S, IsFiniteSet(S) PROVE Cardinality(S) \in Nat
  BY FS_CardinalityType

LEMMA OfFinite ==
  ASSUME NEW srv, NEW l, NEW s
  PROVE  IsFiniteSet(Of(srv, l, s)) /\ Cardinality(Of(srv, l, s)) \in Nat
  <1>1. Of(srv, l, s) \subseteq Issues BY DEF Of
  <1>2. IsFiniteSet(Of(srv, l, s)) BY <1>1, CacheAssumption, FS_Subset
  <1> QED BY <1>2, Count

LEMMA CardsFinite ==
  ASSUME NEW srv, NEW l, NEW s, NEW b, Right(srv, l, s, b)
  PROVE  IsFiniteSet(b.cards) /\ Cardinality(b.cards) \in Nat
  <1> DEFINE f == [x \in b.cards |-> x.id]
  <1>1. \A x \in b.cards : x.id \in Issues /\ x = Card(x.id, srv[x.id])
    BY DEF Right, Bucket, CardSet
  <1>2. \A x, y \in b.cards : x.id = y.id => x = y BY <1>1
  <1>3. f \in Injection(b.cards, Issues) BY <1>1, <1>2 DEF Injection, IsInjective
  <1>4. IsFiniteSet(b.cards) BY <1>3, CacheAssumption, FS_Injection
  <1> QED BY <1>4, Count

\* Columns and cards are what they are made of.
LEMMA BucketFields ==
  ASSUME NEW C \in SUBSET CardSet, NEW n \in Nat
  PROVE  /\ [cards |-> C, total |-> n] \in Bucket
         /\ [cards |-> C, total |-> n].cards = C /\ [cards |-> C, total |-> n].total = n
  BY DEF Bucket

LEMMA CardFields ==
  ASSUME NEW i \in Issues, NEW e \in Entity, e.status \in Shown
  PROVE  Card(i, e) \in CardSet /\ Card(i, e).id = i
  BY DEF Card, CardSet, Entity

\* A change of one issue leaves the others where they are.
LEMMA Elsewhere ==
  ASSUME NEW srv, NEW new, NEW i, OnlyAt(srv, new, i), NEW l, NEW s, NEW j \in Issues \ {i}
  PROVE  In(new, l, s, j) <=> In(srv, l, s, j)
  BY DEF OnlyAt, In

LEMMA CardsElsewhere ==
  ASSUME NEW srv, NEW new, NEW i, OnlyAt(srv, new, i), NEW l, NEW s, NEW b,
         Right(srv, l, s, b), NEW x \in b.cards \ CardsOf(b, i)
  PROVE  In(new, l, s, x.id) /\ x = Card(x.id, new[x.id])
  <1>1. x.id \in Issues \ {i} BY DEF Right, Bucket, CardSet, CardsOf
  <1>2. In(srv, l, s, x.id) /\ x = Card(x.id, srv[x.id]) BY DEF Right
  <1>3. new[x.id] = srv[x.id] BY <1>1 DEF OnlyAt
  <1> QED BY <1>1, <1>2, <1>3, Elsewhere

\* The issues of a column after a change of one.
LEMMA OfChanges ==
  ASSUME NEW srv, NEW new, NEW i \in Issues, OnlyAt(srv, new, i), NEW l, NEW s
  PROVE  Of(new, l, s) = IF In(new, l, s, i) THEN Of(srv, l, s) \cup {i}
                         ELSE Of(srv, l, s) \ {i}
  <1>1. \A j \in Issues \ {i} : In(new, l, s, j) <=> In(srv, l, s, j) BY Elsewhere
  <1> QED BY <1>1 DEF Of

\* A column that a change of an issue it does not show does not concern.
LEMMA Untouched ==
  ASSUME NEW srv, NEW new, NEW i \in Issues, OnlyAt(srv, new, i), NEW l, NEW s, NEW b,
         Right(srv, l, s, b), In(new, l, s, i) <=> In(srv, l, s, i), CardsOf(b, i) = {}
  PROVE  Right(new, l, s, b)
  <1>1. Of(new, l, s) = Of(srv, l, s) BY OfChanges DEF Of
  <1>2. \A x \in b.cards : In(new, l, s, x.id) /\ x = Card(x.id, new[x.id])
    BY CardsElsewhere
  <1> QED BY <1>1, <1>2 DEF Right

\* A right column has one card of an issue it shows.
LEMMA TheCard ==
  ASSUME NEW srv, NEW i, NEW l, NEW s, NEW b, Right(srv, l, s, b), CardsOf(b, i) # {}
  PROVE  CardsOf(b, i) = {Card(i, srv[i])} /\ In(srv, l, s, i) /\ Card(i, srv[i]) \in b.cards
  BY DEF Right, CardsOf

\* An issue leaves a column: its card and its place in the total.
LEMMA Leaves ==
  ASSUME NEW srv, NEW new, NEW i \in Issues, OnlyAt(srv, new, i), NEW l, NEW s, NEW b,
         Right(srv, l, s, b), In(srv, l, s, i), ~ In(new, l, s, i),
         l # "all" \/ CardsOf(b, i) # {}
  PROVE  Right(new, l, s, [cards |-> b.cards \ CardsOf(b, i), total |-> Less(b.total)])
  <1> DEFINE C == b.cards \ CardsOf(b, i)
             O == Of(srv, l, s)
  <1>1. IsFiniteSet(b.cards) /\ Cardinality(b.cards) \in Nat BY CardsFinite
  <1>2. IsFiniteSet(O) /\ Cardinality(O) \in Nat BY OfFinite
  <1>3. i \in O BY DEF Of
  <1>4. Of(new, l, s) = O \ {i} BY OfChanges
  <1> HIDE DEF O
  <1>5. Cardinality(O \ {i}) = Cardinality(O) - 1 BY <1>2, <1>3, FS_RemoveElement
  <1>6. Cardinality(O \ {i}) \in Nat
    <2>1. IsFiniteSet(O \ {i}) BY <1>2, FS_RemoveElement
    <2> QED BY <2>1, Count
  <1>7. \A x \in C : In(new, l, s, x.id) /\ x = Card(x.id, new[x.id]) BY CardsElsewhere
  <1>8. C \in SUBSET CardSet /\ b.total \in Nat BY DEF Right, Bucket
  <1>9. Less(b.total) \in Nat BY <1>8 DEF Less
  <1>10. Less(b.total) = IF l = "all" THEN Cardinality(C) ELSE Cardinality(Of(new, l, s))
    <2>1. CASE l # "all"
      <3>1. b.total = Cardinality(O) BY <2>1 DEF Right, O
      <3> QED BY <1>2, <1>4, <1>5, <1>6, <2>1, <3>1 DEF Less
    <2>2. CASE l = "all"
      <3> DEFINE x == Card(i, srv[i])
      <3>1. CardsOf(b, i) = {x} /\ x \in b.cards BY <2>2, TheCard
      <3> HIDE DEF x
      <3>2. Cardinality(b.cards \ {x}) = Cardinality(b.cards) - 1
        BY <1>1, <3>1, FS_RemoveElement
      <3>3. Cardinality(b.cards \ {x}) \in Nat
        <4>1. IsFiniteSet(b.cards \ {x}) BY <1>1, FS_RemoveElement
        <4> QED BY <4>1, Count
      <3>4. b.total = Cardinality(b.cards) BY <2>2 DEF Right
      <3> QED BY <1>1, <2>2, <3>1, <3>2, <3>3, <3>4 DEF Less
    <2> QED BY <2>1, <2>2
  <1> HIDE DEF C
  <1>11. [cards |-> C, total |-> Less(b.total)] \in Bucket BY <1>8, <1>9, BucketFields
  <1> QED BY <1>7, <1>10, <1>11 DEF Right, C

\* An issue joins a column: its card and its place in the total.
LEMMA Joins ==
  ASSUME NEW srv, NEW new, NEW i \in Issues, OnlyAt(srv, new, i), NEW l, NEW s \in Shown, NEW b,
         Right(srv, l, s, b), ~ In(srv, l, s, i), In(new, l, s, i), new[i] \in Entity
  PROVE  Right(new, l, s, [cards |-> b.cards \cup {Card(i, new[i])}, total |-> b.total + 1])
  <1> DEFINE x == Card(i, new[i])
             C == b.cards \cup {x}
             O == Of(srv, l, s)
  <1>1. IsFiniteSet(b.cards) /\ Cardinality(b.cards) \in Nat BY CardsFinite
  <1>2. IsFiniteSet(O) /\ Cardinality(O) \in Nat BY OfFinite
  <1>3. i \notin O BY DEF Of
  <1>4. Of(new, l, s) = O \cup {i} BY OfChanges
  <1> HIDE DEF O
  <1>5. Cardinality(O \cup {i}) = Cardinality(O) + 1 BY <1>2, <1>3, FS_AddElement
  <1>6. x \in CardSet /\ x.id = i BY CardFields DEF In
  <1>7. CardsOf(b, i) = {} BY TheCard
  <1>8. x \notin b.cards BY <1>6, <1>7 DEF CardsOf
  <1>9. \A y \in b.cards : In(new, l, s, y.id) /\ y = Card(y.id, new[y.id])
    BY <1>7, CardsElsewhere
  <1>10. C \in SUBSET CardSet /\ b.total \in Nat BY <1>6 DEF Right, Bucket
  <1>11. \A y \in C : In(new, l, s, y.id) /\ y = Card(y.id, new[y.id]) BY <1>6, <1>9
  <1> HIDE DEF x
  <1>12. Cardinality(C) = Cardinality(b.cards) + 1 BY <1>1, <1>8, FS_AddElement
  <1>13. b.total + 1 = IF l = "all" THEN Cardinality(C) ELSE Cardinality(Of(new, l, s))
    BY <1>4, <1>5, <1>12 DEF Right, O
  <1> HIDE DEF C
  <1>14. [cards |-> C, total |-> b.total + 1] \in Bucket BY <1>10, BucketFields
  <1> QED BY <1>11, <1>13, <1>14 DEF Right, C, x

\* An issue of a column is patched in it.
LEMMA Stays ==
  ASSUME NEW srv, NEW new, NEW i \in Issues, OnlyAt(srv, new, i), NEW l, NEW s \in Shown, NEW b,
         Right(srv, l, s, b), In(new, l, s, i), new[i] \in Entity, CardsOf(b, i) # {}
  PROVE  Right(new, l, s,
               [b EXCEPT !.cards = (b.cards \ CardsOf(b, i)) \cup {Card(i, new[i])}])
  <1> DEFINE x == Card(i, srv[i])
             y == Card(i, new[i])
             D == b.cards \ {x}
             C == D \cup {y}
  <1>1. IsFiniteSet(b.cards) /\ Cardinality(b.cards) \in Nat BY CardsFinite
  <1>2. CardsOf(b, i) = {x} /\ In(srv, l, s, i) /\ x \in b.cards BY TheCard
  <1>3. Of(new, l, s) = Of(srv, l, s) BY <1>2, OfChanges DEF Of
  <1>4. y \in CardSet /\ y.id = i BY CardFields DEF In
  <1>5. y \notin D BY <1>2, <1>4 DEF CardsOf
  <1>6. \A z \in D : In(new, l, s, z.id) /\ z = Card(z.id, new[z.id])
    BY <1>2, CardsElsewhere
  <1>7. C \in SUBSET CardSet /\ b \in Bucket BY <1>4 DEF Right, Bucket
  <1>8. \A z \in C : In(new, l, s, z.id) /\ z = Card(z.id, new[z.id]) BY <1>4, <1>6
  <1> HIDE DEF x, y
  <1>9. IsFiniteSet(D) /\ Cardinality(D) = Cardinality(b.cards) - 1
    BY <1>1, <1>2, FS_RemoveElement
  <1> HIDE DEF D
  <1>10. Cardinality(C) = Cardinality(D) + 1 BY <1>5, <1>9, FS_AddElement
  <1>11. Cardinality(C) = Cardinality(b.cards) BY <1>1, <1>9, <1>10
  <1>12. b.total = IF l = "all" THEN Cardinality(C) ELSE Cardinality(Of(new, l, s))
    BY <1>3, <1>11 DEF Right
  <1> HIDE DEF C
  <1> DEFINE c == [b EXCEPT !.cards = C]
  <1>13. c \in Bucket /\ c.cards = C /\ c.total = b.total BY <1>7 DEF Bucket
  <1> HIDE DEF c
  <1>14. Right(new, l, s, c) BY <1>8, <1>12, <1>13 DEF Right
  <1> QED BY <1>2, <1>14 DEF c, C, D, x, y

-----------------------------------------------------------------------------
(* A change, applied to a coherent list                                    *)

\* A coherent list has an issue, at most once, where the issue belongs.
LEMMA Here ==
  ASSUME NEW srv, NEW i \in Issues, srv[i] \in Entity, NEW l, NEW data, Coh(srv, l, data),
         Loaded(data, i)
  PROVE  /\ srv[i].status \in Shown /\ Location(data, i) = srv[i].status
         /\ In(srv, l, srv[i].status, i)
         /\ CardsOf(data[srv[i].status], i) = {Card(i, srv[i])}
         /\ CardIn(data, i) = Card(i, srv[i])
         /\ \A s \in Shown \ {srv[i].status} : CardsOf(data[s], i) = {}
  <1> DEFINE t == srv[i].status
             K == {k \in DOMAIN Columns : CardsOf(data[Columns[k]], i) # {}}
  <1>1. \A s \in Shown : CardsOf(data[s], i) # {} =>
          s = t /\ In(srv, l, s, i) /\ CardsOf(data[s], i) = {Card(i, srv[i])}
    <2>1. ASSUME NEW s \in Shown, CardsOf(data[s], i) # {}
          PROVE  s = t /\ In(srv, l, s, i) /\ CardsOf(data[s], i) = {Card(i, srv[i])}
      <3>1. Right(srv, l, s, data[s]) BY DEF Coh
      <3>2. CardsOf(data[s], i) = {Card(i, srv[i])} /\ In(srv, l, s, i) BY <2>1, <3>1, TheCard
      <3> QED BY <3>2 DEF In
    <2> QED BY <2>1
  <1>2. t \in Shown /\ CardsOf(data[t], i) # {} BY <1>1 DEF Loaded
  <1>3. PICK k \in DOMAIN Columns : Columns[k] = t BY <1>2 DEF Shown
  <1>4. K = {k}
    <2>1. k \in K BY <1>2, <1>3
    <2>2. \A j \in K : Columns[j] = t BY <1>1 DEF Shown
    <2> QED BY <1>3, <2>1, <2>2, CacheAssumption
  <1>5. k \in Nat BY CacheAssumption
  <1>6. Min({k}) = k BY <1>5 DEF Min
  <1>7. Location(data, i) = t BY <1>3, <1>4, <1>6 DEF Location
  <1>8. CardIn(data, i) = Card(i, srv[i]) BY <1>1, <1>2, <1>7 DEF CardIn
  <1> QED BY <1>1, <1>2, <1>7, <1>8

\* Whom the issue is assigned to makes no difference to a list.
Alike(l, i, old, new) ==
  \/ l = "board"
  \/ l = "mine" /\ (old.assignee = "me" <=> new.assignee = "me")
  \/ l = "all" /\ (i \in Created \/ (old.assignee = "me" <=> new.assignee = "me"))

\* A change says what a list needs to know about the assignee.
Said(l, i, old, new, changed) == "assignee" \in changed \/ Alike(l, i, old, new)

LEMMA SameAssignee ==
  ASSUME NEW l \in Lists, NEW i, NEW old, NEW new, old.assignee = new.assignee
  PROVE  Alike(l, i, old, new)
  BY CacheAssumption DEF Alike

\* What a change may be measured by and say: a status that differs is named.
Apt(srv, new, i, patch, changed, base) ==
  /\ OnlyAt(srv, new, i)
  /\ srv[i] \in Entity /\ new[i] \in Entity /\ new[i] = Spread(srv[i], patch)
  /\ patch \in Patches \cup Entity
  /\ base \in {None, srv[i]}
  /\ changed \subseteq DOMAIN patch \cap {"status", "assignee"}
  /\ srv[i].status # new[i].status => "status" \in changed

\* The patched card is the card of the patched entity.
LEMMA CardPatched ==
  ASSUME NEW i, NEW old \in Entity, NEW patch \in Patches \cup Entity
  PROVE  Spread(Card(i, old), patch) = Card(i, Spread(old, patch))
  <1>1. CASE patch \in Entity BY <1>1 DEF Spread, Card, Entity
  <1>2. CASE patch \in Patches BY <1>2 DEF Spread, Card, Entity, Patches
  <1> QED BY <1>1, <1>2

\* A list that merges relations does not count what it has not loaded.
LEMMA UntouchedAll ==
  ASSUME NEW srv, NEW new, NEW i \in Issues, OnlyAt(srv, new, i), NEW s, NEW b,
         Right(srv, "all", s, b), CardsOf(b, i) = {}
  PROVE  Right(new, "all", s, b)
  <1>1. \A x \in b.cards : In(new, "all", s, x.id) /\ x = Card(x.id, new[x.id])
    BY CardsElsewhere
  <1> QED BY <1>1 DEF Right

\* Taken off a list it no longer matches.
LEMMA Removed ==
  ASSUME NEW srv, NEW new, NEW i \in Issues, OnlyAt(srv, new, i), srv[i] \in Entity, NEW l,
         NEW data, Coh(srv, l, data), Loaded(data, i),
         \A s \in Shown : ~ In(new, l, s, i)
  PROVE  Coh(new, l, RemoveIssueFromBuckets(data, i))
  <1> DEFINE t == srv[i].status
             d == RemoveIssueFromBuckets(data, i)
  <1>1. /\ t \in Shown /\ Location(data, i) = t /\ In(srv, l, t, i) /\ CardsOf(data[t], i) # {}
        /\ \A s \in Shown \ {t} : CardsOf(data[s], i) = {}
    BY Here
  <1>2. data \in [Shown -> Bucket] BY DEF Coh
  <1>3. /\ DOMAIN d = Shown
        /\ d[t] = [cards |-> data[t].cards \ CardsOf(data[t], i), total |-> Less(data[t].total)]
        /\ \A s \in Shown \ {t} : d[s] = data[s]
    BY <1>1, <1>2 DEF RemoveIssueFromBuckets
  <1>4. d = [s \in Shown |-> d[s]] BY <1>1, <1>2 DEF RemoveIssueFromBuckets
  <1> HIDE DEF d
  <1>5. Right(new, l, t, d[t])
    <2>1. Right(srv, l, t, data[t]) BY <1>1 DEF Coh
    <2> QED BY <1>1, <1>3, <2>1, Leaves
  <1>6. ASSUME NEW s \in Shown \ {t} PROVE Right(new, l, s, d[s])
    <2>1. Right(srv, l, s, data[s]) BY DEF Coh
    <2>2. ~ In(srv, l, s, i) BY DEF In
    <2>3. CardsOf(data[s], i) = {} BY <1>1
    <2>4. Right(new, l, s, data[s]) BY <2>1, <2>2, <2>3, Untouched
    <2> QED BY <1>3, <2>4
  <1>7. \A s \in Shown : Right(new, l, s, d[s]) BY <1>5, <1>6
  <1>8. \A s \in Shown : d[s] \in Bucket BY <1>7 DEF Right
  <1>9. d \in [Shown -> Bucket] BY <1>4, <1>8
  <1> QED BY <1>7, <1>9 DEF Coh, d

\* Patched where it is, or moved to another column.
LEMMA Repainted ==
  ASSUME NEW srv, NEW new, NEW i \in Issues, NEW patch, NEW changed, NEW base,
         Apt(srv, new, i, patch, changed, base), NEW l,
         NEW data, Coh(srv, l, data), Loaded(data, i), In(new, l, new[i].status, i)
  PROVE  Coh(new, l, PatchIssueInBuckets(data, i, patch))
  <1> DEFINE t == srv[i].status
             u == new[i].status
             d == PatchIssueInBuckets(data, i, patch)
             card == Card(i, new[i])
  <1>0. srv[i] \in Entity BY DEF Apt
  <1>1. /\ OnlyAt(srv, new, i) /\ new[i] \in Entity /\ Spread(Card(i, srv[i]), patch) = card
    BY CardPatched DEF Apt
  <1>2. /\ t \in Shown /\ Location(data, i) = t /\ In(srv, l, t, i) /\ CardsOf(data[t], i) # {}
        /\ CardIn(data, i) = Card(i, srv[i])
        /\ \A s \in Shown \ {t} : CardsOf(data[s], i) = {}
    BY <1>0, Here
  <1>3. card.status = u BY DEF Card
  <1>4. d = [s \in Shown |->
        IF s = t /\ s = u
        THEN [data[s] EXCEPT !.cards = (@ \ CardsOf(data[s], i)) \cup {card}]
        ELSE IF s = t
        THEN [cards |-> data[s].cards \ CardsOf(data[s], i), total |-> Less(data[s].total)]
        ELSE IF s = u
        THEN [cards |-> data[s].cards \cup {card}, total |-> data[s].total + 1]
        ELSE data[s]]
    BY <1>1, <1>2, <1>3 DEF PatchIssueInBuckets
  <1> HIDE DEF d
  <1>5. ASSUME NEW s \in Shown PROVE Right(new, l, s, d[s])
    <2>1. Right(srv, l, s, data[s]) BY DEF Coh
    <2>2. In(srv, l, s, i) <=> s = t BY <1>2 DEF In
    <2>3. In(new, l, s, i) <=> s = u BY DEF In
    <2>4. CASE s = t /\ s = u
      <3>1. Right(new, l, s, [data[s] EXCEPT !.cards = (data[s].cards \ CardsOf(data[s], i)) \cup {card}])
        BY <1>1, <1>2, <2>1, <2>3, <2>4, Stays
      <3>2. d[s] = [data[s] EXCEPT !.cards = (@ \ CardsOf(data[s], i)) \cup {card}]
        BY <1>4, <2>4
      <3> QED BY <3>1, <3>2
    <2>5. CASE s = t /\ s # u
      <3>1. Right(new, l, s, [cards |-> data[s].cards \ CardsOf(data[s], i), total |-> Less(data[s].total)])
        BY <1>1, <1>2, <2>1, <2>2, <2>3, <2>5, Leaves
      <3> QED BY <1>4, <2>5, <3>1
    <2>6. CASE s # t /\ s = u
      <3>1. Right(new, l, s, [cards |-> data[s].cards \cup {card}, total |-> data[s].total + 1])
        BY <1>1, <2>1, <2>2, <2>3, <2>6, Joins
      <3> QED BY <1>4, <2>6, <3>1
    <2>7. CASE s # t /\ s # u
      <3>1. CardsOf(data[s], i) = {} BY <1>2, <2>7
      <3>2. Right(new, l, s, data[s]) BY <1>1, <2>1, <2>2, <2>3, <2>7, <3>1, Untouched
      <3> QED BY <1>4, <2>7, <3>2
    <2> QED BY <2>4, <2>5, <2>6, <2>7
  <1>6. \A s \in Shown : d[s] \in Bucket BY <1>5 DEF Right
  <1>7. d \in [Shown -> Bucket] BY <1>4, <1>6
  <1> QED BY <1>5, <1>7 DEF Coh, d

\* Not on the list, and nothing about the list depends on what has changed.
LEMMA Absent ==
  ASSUME NEW srv, NEW new, NEW i \in Issues, OnlyAt(srv, new, i), NEW l,
         NEW data, Coh(srv, l, data), ~ Loaded(data, i),
         l = "all" \/ \A s \in Shown : In(new, l, s, i) <=> In(srv, l, s, i)
  PROVE  Coh(new, l, data)
  <1>1. ASSUME NEW s \in Shown PROVE Right(new, l, s, data[s])
    <2>1. Right(srv, l, s, data[s]) /\ CardsOf(data[s], i) = {} BY DEF Coh, Loaded
    <2>2. CASE l = "all" BY <2>1, <2>2, UntouchedAll
    <2>3. CASE l # "all"
      <3>1. In(new, l, s, i) <=> In(srv, l, s, i) BY <2>3
      <3> QED BY <2>1, <3>1, Untouched
    <2> QED BY <2>2, <2>3
  <1> QED BY <1>1 DEF Coh

\* Counted beyond the loaded window, and gone from the list.
LEMMA LeftUnseen ==
  ASSUME NEW srv, NEW new, NEW i \in Issues, OnlyAt(srv, new, i), srv[i] \in Entity,
         NEW l, l # "all", NEW data, Coh(srv, l, data), ~ Loaded(data, i),
         In(srv, l, srv[i].status, i), \A s \in Shown : ~ In(new, l, s, i)
  PROVE  Coh(new, l, DecrementBucketTotal(data, srv[i].status))
  <1> DEFINE t == srv[i].status
             d == DecrementBucketTotal(data, t)
  <1>1. data \in [Shown -> Bucket] BY DEF Coh
  <1>2. /\ d \in [Shown -> Bucket]
        /\ \A s \in Shown : d[s] = IF s = t THEN [data[s] EXCEPT !.total = Less(@)] ELSE data[s]
    <2>1. \A s \in Shown : [data[s] EXCEPT !.total = Less(@)] \in Bucket
      BY <1>1 DEF Bucket, Less
    <2>2. CASE t \in Shown BY <1>1, <2>1, <2>2 DEF DecrementBucketTotal
    <2>3. CASE t \notin Shown BY <1>1, <2>3 DEF DecrementBucketTotal
    <2> QED BY <2>2, <2>3
  <1> HIDE DEF d
  <1>3. ASSUME NEW s \in Shown PROVE Right(new, l, s, d[s])
    <2>1. Right(srv, l, s, data[s]) /\ CardsOf(data[s], i) = {} BY DEF Coh, Loaded
    <2>2. ~ In(new, l, s, i) OBVIOUS
    <2>3. CASE s = t
      <3>1. Right(new, l, s, [cards |-> data[s].cards \ CardsOf(data[s], i),
                              total |-> Less(data[s].total)])
        BY <2>1, <2>2, <2>3, Leaves
      <3>2. [data[s] EXCEPT !.total = Less(@)]
              = [cards |-> data[s].cards \ CardsOf(data[s], i), total |-> Less(data[s].total)]
        BY <1>1, <2>1 DEF Bucket
      <3> QED BY <1>2, <2>3, <3>1, <3>2
    <2>4. CASE s # t
      <3>1. ~ In(srv, l, s, i) BY <2>4 DEF In
      <3>2. Right(new, l, s, data[s]) BY <2>1, <2>2, <3>1, Untouched
      <3> QED BY <1>2, <2>4, <3>2
    <2> QED BY <2>3, <2>4
  <1> QED BY <1>2, <1>3 DEF Coh, d

\* Moving totals moves no card.
LEMMA MovedUnseen ==
  ASSUME NEW data \in [Shown -> Bucket], NEW from, NEW to, NEW i, ~ Loaded(data, i)
  PROVE  ~ Loaded(MoveBucketTotal(data, from, to), i)
  <1> DEFINE d == MoveBucketTotal(data, from, to)
  <1>1. ASSUME NEW s \in Shown PROVE d[s].cards = data[s].cards
    BY DEF MoveBucketTotal, Bucket
  <1> HIDE DEF d
  <1>2. \A s \in Shown : CardsOf(d[s], i) = CardsOf(data[s], i) BY <1>1 DEF CardsOf
  <1> QED BY <1>2 DEF Loaded, d

\* A status that is not named has not changed, a named one is as patched.
LEMMA StatusApart ==
  ASSUME NEW srv, NEW new, NEW i, NEW patch, NEW changed, NEW base,
         Apt(srv, new, i, patch, changed, base)
  PROVE  /\ "status" \notin changed => new[i].status = srv[i].status
         /\ "status" \in changed => new[i].status = patch.status
  BY DEF Apt, Spread, Entity

\* A verdict holds what it says of a loaded issue ...
LEMMA LoadedVerdict ==
  ASSUME NEW srv, NEW new, NEW i \in Issues, NEW patch, NEW changed, NEW base,
         Apt(srv, new, i, patch, changed, base), NEW l \in {"board", "mine", "all"},
         Said(l, i, srv[i], new[i], changed), NEW data, Coh(srv, l, data), Loaded(data, i)
  PROVE  LET v == Verdict(data, l, i, patch, changed, base) IN
         \/ v \in {"remove", "patch"} /\ Coh(new, l, Rewritten(data, v, i, patch, base))
         \/ v = "patch" /\ l = "all" /\ ListFilterDependsOn(l, changed)
  <1> DEFINE touched == ListFilterDependsOn(l, changed)
             v == Verdict(data, l, i, patch, changed, base)
  <1>1. srv[i] \in Entity /\ OnlyAt(srv, new, i) /\ new[i] \in Entity BY DEF Apt
  <1>2. CardIn(data, i) = Card(i, srv[i]) /\ In(srv, l, srv[i].status, i) BY <1>1, Here
  <1>3. Spread(CardIn(data, i), patch) = Card(i, new[i]) BY <1>2, CardPatched DEF Apt
  <1>4. v = IF touched /\ Matches(Card(i, new[i]), l) = "no" THEN "remove" ELSE "patch"
    BY <1>3 DEF Verdict
  <1>5. Matches(Card(i, new[i]), l) = "no" <=> l = "mine" /\ new[i].assignee # "me"
    BY DEF Matches, Card
  <1> HIDE DEF v
  <1>6. CASE touched /\ l = "mine" /\ new[i].assignee # "me"
    <2>1. \A s \in Shown : ~ In(new, l, s, i) BY <1>6 DEF In
    <2>2. Coh(new, l, RemoveIssueFromBuckets(data, i)) BY <1>1, <2>1, Removed
    <2>3. v = "remove" BY <1>4, <1>5, <1>6
    <2>4. Rewritten(data, v, i, patch, base) = RemoveIssueFromBuckets(data, i)
      BY <2>3 DEF Rewritten
    <2> QED BY <2>2, <2>3, <2>4 DEF v
  <1>7. CASE ~ (touched /\ l = "mine" /\ new[i].assignee # "me")
    <2>1. v = "patch" BY <1>4, <1>5, <1>7
    <2>2. CASE l = "all" /\ touched BY <2>1, <2>2 DEF v
    <2>3. CASE ~ (l = "all" /\ touched)
      <3>1. ~ touched => Alike(l, i, srv[i], new[i])
        BY DEF ListFilterDependsOn, Said, Alike
      <3>2. touched => l # "board" BY DEF ListFilterDependsOn
      <3>3. In(new, l, new[i].status, i)
        BY <1>1, <1>2, <1>7, <2>3, <3>1, <3>2, CacheAssumption DEF In, Alike
      <3>4. Coh(new, l, PatchIssueInBuckets(data, i, patch)) BY <3>3, Repainted
      <3>5. Rewritten(data, v, i, patch, base) = PatchIssueInBuckets(data, i, patch)
        BY <2>1 DEF Rewritten
      <3> QED BY <2>1, <3>4, <3>5 DEF v
    <2> QED BY <2>2, <2>3
  <1> QED BY <1>6, <1>7

\* ... and of one that is not.
LEMMA UnseenVerdict ==
  ASSUME NEW srv, NEW new, NEW i \in Issues, NEW patch, NEW changed, NEW base,
         Apt(srv, new, i, patch, changed, base), NEW l \in {"board", "mine", "all"},
         Said(l, i, srv[i], new[i], changed), NEW data, Coh(srv, l, data), ~ Loaded(data, i)
  PROVE  LET v == Verdict(data, l, i, patch, changed, base) IN
         \/ v \in {"skip", "leave"} /\ Coh(new, l, Rewritten(data, v, i, patch, base))
         \/ v \in {"refetch", "move"} /\ ~ Loaded(Rewritten(data, v, i, patch, base), i)
  <1> DEFINE touched == ListFilterDependsOn(l, changed)
             v == Verdict(data, l, i, patch, changed, base)
             was == IF base = None THEN "unknown" ELSE Matches(base, l)
             is == Matches(Over(patch, base), l)
             R == Rewritten(data, v, i, patch, base)
  <1>1. srv[i] \in Entity /\ OnlyAt(srv, new, i) /\ new[i] \in Entity
        /\ changed \subseteq DOMAIN patch
    BY DEF Apt
  <1>2. v = IF ~ touched /\ "status" \notin changed THEN "skip"
            ELSE IF was = "no" /\ is = "no" THEN "skip"
            ELSE IF was = "yes" /\ is = "yes"
            THEN IF "status" \in changed /\ base.status # patch.status THEN "move" ELSE "skip"
            ELSE IF was = "yes" /\ is = "no" THEN "leave"
            ELSE "refetch"
    BY DEF Verdict
  <1>3. was \in {"yes", "no"} => l # "all" /\ base = srv[i] /\ Over(patch, base) = new[i]
    BY DEF Matches, Over, Apt
  <1>4. was \in {"yes", "no"} =>
          /\ was = "yes" <=> l = "board" \/ srv[i].assignee = "me"
          /\ is = "yes" <=> l = "board" \/ new[i].assignee = "me"
          /\ is \in {"yes", "no"}
    BY <1>1, <1>3 DEF Matches, Entity
  <1>5. "status" \notin changed => new[i].status = srv[i].status BY StatusApart
  <1>6. "status" \in changed => new[i].status = patch.status BY StatusApart
  <1>7. ~ touched => Alike(l, i, srv[i], new[i])
    BY DEF ListFilterDependsOn, Said, Alike
  <1> HIDE DEF v, was, is
  <1>8. CASE v = "skip"
    <2>1. l = "all" \/ \A s \in Shown : In(new, l, s, i) <=> In(srv, l, s, i)
      <3>1. CASE ~ touched /\ "status" \notin changed
        <4>1. new[i].status = srv[i].status BY <1>5, <3>1
        <4>2. Alike(l, i, srv[i], new[i]) BY <1>7, <3>1
        <4> QED BY <1>1, <4>1, <4>2, CacheAssumption DEF In, Alike
      <3>2. CASE was = "no" /\ is = "no"
        <4>1. l # "all" /\ l # "board" /\ srv[i].assignee # "me" /\ new[i].assignee # "me"
          BY <1>3, <1>4, <3>2
        <4> QED BY <4>1 DEF In
      <3>3. CASE was = "yes" /\ is = "yes" /\ ~ ("status" \in changed /\ base.status # patch.status)
        <4>1. new[i].status = srv[i].status BY <1>3, <1>5, <1>6, <3>3
        <4>2. l = "board" \/ (srv[i].assignee = "me" /\ new[i].assignee = "me")
          BY <1>4, <3>3
        <4> QED BY <1>1, <4>1, <4>2, CacheAssumption DEF In
      <3> QED BY <1>2, <1>8, <3>1, <3>2, <3>3
    <2>2. Coh(new, l, data) BY <1>1, <2>1, Absent
    <2>3. R = data BY <1>8 DEF Rewritten
    <2> QED BY <1>8, <2>2, <2>3 DEF v
  <1>9. CASE v = "leave"
    <2>1. was = "yes" /\ is = "no" BY <1>2, <1>9
    <2>2. l = "mine" /\ base = srv[i] /\ srv[i].assignee = "me" /\ new[i].assignee # "me"
      BY <1>3, <1>4, <2>1
    <2>3. In(srv, l, srv[i].status, i) /\ \A s \in Shown : ~ In(new, l, s, i)
      BY <1>1, <2>2, CacheAssumption DEF In
    <2>4. Coh(new, l, DecrementBucketTotal(data, srv[i].status))
      BY <1>1, <2>2, <2>3, LeftUnseen
    <2>5. R = DecrementBucketTotal(data, srv[i].status) BY <1>9, <2>2 DEF Rewritten
    <2> QED BY <1>9, <2>4, <2>5 DEF v
  <1>10. CASE v = "refetch"
    <2>1. R = data BY <1>10 DEF Rewritten
    <2> QED BY <1>10, <2>1 DEF v
  <1>11. CASE v = "move"
    <2>1. R = MoveBucketTotal(data, base.status, patch.status) BY <1>11 DEF Rewritten
    <2>2. ~ Loaded(MoveBucketTotal(data, base.status, patch.status), i)
      BY MovedUnseen DEF Coh
    <2> QED BY <1>11, <2>1, <2>2 DEF v
  <1> QED BY <1>2, <1>8, <1>9, <1>10, <1>11

\* What applyIssueChange leaves in one list, and whether it asks for it again.
LEMMA Applied ==
  ASSUME NEW i, NEW patch, NEW changed, NEW base, NEW l \in Lists, lists[l] # None,
         DOMAIN lists = Lists
  PROVE  LET c == ApplyIssueChange(i, patch, changed, base)
             v == Verdict(lists[l], l, i, patch, changed, base) IN
         /\ Spread(lists, c.lists)[l] = Rewritten(lists[l], v, i, patch, base)
         /\ v \in {"refetch", "move"} => l \in c.stale
         /\ v = "patch" /\ l = "all" /\ ListFilterDependsOn(l, changed) => l \in c.stale
  <1> DEFINE c == ApplyIssueChange(i, patch, changed, base)
             cached == {m \in Lists : lists[m] # None}
             verdict == [m \in cached |-> Verdict(lists[m], m, i, patch, changed, base)]
             touched == {m \in cached : verdict[m] \notin {"skip", "refetch"}}
             v == Verdict(lists[l], l, i, patch, changed, base)
  <1>1. /\ c.lists = [m \in touched |-> Rewritten(lists[m], verdict[m], i, patch, base)]
        /\ c.stale = {m \in cached :
                   verdict[m] \in {"refetch", "move"}
                     \/ (verdict[m] = "patch" /\ m = "all" /\ ListFilterDependsOn(m, changed))}
    BY DEF ApplyIssueChange
  <1>2. l \in cached /\ verdict[l] = v OBVIOUS
  <1> HIDE DEF c, verdict, v, cached
  <1>3. Spread(lists, c.lists)[l] = IF l \in touched THEN Rewritten(lists[l], v, i, patch, base)
                                    ELSE lists[l]
    BY <1>1, <1>2 DEF Spread
  <1>4. l \notin touched => Rewritten(lists[l], v, i, patch, base) = lists[l]
    BY <1>2 DEF Rewritten
  <1>5. Spread(lists, c.lists)[l] = Rewritten(lists[l], v, i, patch, base)
    BY <1>3, <1>4
  <1> QED BY <1>1, <1>2, <1>5 DEF c, v

\* A change makes no list of one that is not cached.
LEMMA NotCached ==
  ASSUME NEW i, NEW patch, NEW changed, NEW base, NEW l \in Lists, lists[l] = None,
         DOMAIN lists = Lists
  PROVE  Spread(lists, ApplyIssueChange(i, patch, changed, base).lists)[l] = None
  BY DEF ApplyIssueChange, Spread

\* A change rewrites cached lists only, and keeps what they were.
LEMMA AppliedDomain ==
  ASSUME NEW i, NEW patch, NEW changed, NEW base, DOMAIN lists = Lists
  PROVE  LET c == ApplyIssueChange(i, patch, changed, base) IN
         /\ DOMAIN c.lists \subseteq Lists /\ DOMAIN c.prevLists = DOMAIN c.lists
         /\ c.stale \subseteq Lists
         /\ DOMAIN Spread(lists, c.lists) = Lists
         /\ \A l \in DOMAIN c.prevLists : c.prevLists[l] = lists[l] /\ lists[l] # None
         /\ \A l \in Lists \ DOMAIN c.prevLists : Spread(lists, c.lists)[l] = lists[l]
  BY DEF ApplyIssueChange, Spread

\* A change that is applied to a coherent list leaves it coherent with the server
\* the change makes, or asks for it again; and the board then does not show the
\* issue at all.
LEMMA ChangeApplied ==
  ASSUME NEW srv, NEW new, NEW i \in Issues, NEW patch, NEW changed, NEW base,
         Apt(srv, new, i, patch, changed, base), DOMAIN lists = Lists,
         NEW l \in Lists, Said(l, i, srv[i], new[i], changed),
         lists[l] # None, Coh(srv, l, lists[l])
  PROVE  LET c == ApplyIssueChange(i, patch, changed, base)
             d == Spread(lists, c.lists)[l] IN
         /\ l \in c.stale \/ Coh(new, l, d)
         /\ l = "board" => Coh(new, l, d) \/ ~ Loaded(d, i)
  <1> DEFINE c == ApplyIssueChange(i, patch, changed, base)
             v == Verdict(lists[l], l, i, patch, changed, base)
             d == Spread(lists, c.lists)[l]
  <1>1. l \in {"board", "mine", "all"} BY CacheAssumption
  <1>2. d = Rewritten(lists[l], v, i, patch, base) BY Applied
  <1>3. /\ v \in {"refetch", "move"} => l \in c.stale
        /\ v = "patch" /\ l = "all" /\ ListFilterDependsOn(l, changed) => l \in c.stale
    BY Applied
  <1>4. \/ Coh(new, l, Rewritten(lists[l], v, i, patch, base))
        \/ v \in {"refetch", "move"} /\ ~ Loaded(Rewritten(lists[l], v, i, patch, base), i)
        \/ v = "patch" /\ l = "all" /\ ListFilterDependsOn(l, changed)
    <2>1. CASE Loaded(lists[l], i) BY <1>1, <2>1, LoadedVerdict
    <2>2. CASE ~ Loaded(lists[l], i) BY <1>1, <2>2, UnseenVerdict
    <2> QED BY <2>1, <2>2
  <1> HIDE DEF c, v, d
  <1> QED BY <1>2, <1>3, <1>4 DEF c, d

\* The board skips an update that says what it measured by.
LEMMA BoardSkips ==
  ASSUME NEW i, NEW e \in Entity, NEW changed, DOMAIN lists = Lists, "board" \in Lists,
         lists["board"] # None, ~ Loaded(lists["board"], i)
  PROVE  Spread(lists, ApplyIssueChange(i, e, changed, e).lists)["board"] = lists["board"]
  <1> DEFINE v == Verdict(lists["board"], "board", i, e, changed, e)
  <1>1. v = "skip" BY CacheAssumption DEF Verdict, Matches, ListFilterDependsOn
  <1>2. Rewritten(lists["board"], v, i, e, e) = lists["board"] BY <1>1 DEF Rewritten
  <1> QED BY <1>2, Applied

-----------------------------------------------------------------------------
(* What the server answers is coherent                                     *)

Typed(srv) == srv \in [Issues -> Entity \cup {None}]

\* The server's members of a column, as the proofs have them.
LEMMA MembersOf ==
  ASSUME Typed(server), NEW l \in Lists, NEW s
  PROVE  Members(l, s) = Of(server, l, s)
  <1>1. l \in {"board", "mine", "all"} BY CacheAssumption
  <1>2. \A i \in Issues : i \in InColumn(Issues, s) <=> server[i] # None /\ server[i].status = s
    BY DEF InColumn, Live
  <1>3. Members(l, s) \subseteq Issues BY DEF Members, InColumn
  <1>4. ASSUME NEW i \in Issues PROVE i \in Members(l, s) <=> In(server, l, s, i)
    <2>1. i \in Members(l, s) <=> server[i] # None /\ server[i].status = s /\ InList(l, i)
      BY <1>2 DEF Members, InColumn
    <2>2. CASE l = "board" BY <2>1, <2>2 DEF InList, In
    <2>3. CASE l = "mine" BY <2>1, <2>3 DEF InList, In
    <2>4. CASE l = "all" BY <2>1, <2>4 DEF InList, In
    <2> QED BY <1>1, <2>2, <2>3, <2>4
  <1> QED BY <1>3, <1>4 DEF Of

\* The cards of some issues of a column: as many as the issues.
LEMMA CardsOfIssues ==
  ASSUME Typed(server), NEW l, NEW s \in Shown, NEW I, I \subseteq Of(server, l, s)
  PROVE  LET C == {Card(i, server[i]) : i \in I} IN
         /\ C \in SUBSET CardSet
         /\ \A x \in C : In(server, l, s, x.id) /\ x = Card(x.id, server[x.id])
         /\ IsFiniteSet(I) /\ IsFiniteSet(C) /\ Cardinality(C) = Cardinality(I)
  <1> DEFINE C == {Card(i, server[i]) : i \in I}
             f == [i \in I |-> Card(i, server[i])]
  <1>1. \A i \in I : /\ i \in Issues /\ In(server, l, s, i)
                     /\ server[i] \in Entity /\ server[i].status = s
    BY DEF Of, In, Typed
  <1>2. \A i \in I : Card(i, server[i]) \in CardSet /\ Card(i, server[i]).id = i
    BY <1>1, CardFields
  <1>3. \A x \in C : In(server, l, s, x.id) /\ x = Card(x.id, server[x.id])
    BY <1>1, <1>2
  <1>4. f \in Bijection(I, C)
    BY <1>2 DEF Bijection, Injection, Surjection, IsInjective
  <1>5. IsFiniteSet(I)
    <2>1. I \subseteq Issues BY <1>1
    <2> QED BY <2>1, CacheAssumption, FS_Subset
  <1>6. ExistsBijection(I, C) BY <1>4 DEF ExistsBijection
  <1> HIDE DEF C
  <1>7. IsFiniteSet(C) /\ Cardinality(C) = Cardinality(I) BY <1>5, <1>6, FS_Bijection
  <1> QED BY <1>2, <1>3, <1>5, <1>7 DEF C

\* The first page of a column, with its total.
LEMMA AnswerRight ==
  ASSUME Typed(server), NEW l \in Lists, NEW s \in Shown
  PROVE  Right(server, l, s, Answer(l, s))
  <1> DEFINE assigned == {i \in InColumn(Issues, s) : server[i].assignee = "me"}
             merged == Page(assigned, PageSize) \cup Page(InColumn(Created, s), PageSize)
             ids == IF l = "all" THEN merged ELSE Page(Members(l, s), PageSize)
             C == {Card(i, server[i]) : i \in ids}
             n == IF l = "all" THEN Cardinality(merged) ELSE Cardinality(Members(l, s))
  <1>1. Answer(l, s) = [cards |-> C, total |-> n] BY DEF Answer
  <1>2. ids \subseteq Of(server, l, s)
    <2>1. CASE l = "all"
      <3>1. \A i \in merged : i \in Issues /\ server[i] # None /\ server[i].status = s
              /\ (server[i].assignee = "me" \/ i \in Created)
        BY CacheAssumption DEF Page, InColumn, Live
      <3> QED BY <2>1, <3>1 DEF Of, In
    <2>2. CASE l # "all"
      <3>1. Members(l, s) = Of(server, l, s) BY MembersOf
      <3> QED BY <2>2, <3>1 DEF Page
    <2> QED BY <2>1, <2>2
  <1>3. l # "all" => n = Cardinality(Of(server, l, s)) BY MembersOf
  <1>4. l = "all" => n = Cardinality(ids) OBVIOUS
  <1> HIDE DEF ids, n
  <1>5. /\ C \in SUBSET CardSet
        /\ \A x \in C : In(server, l, s, x.id) /\ x = Card(x.id, server[x.id])
        /\ IsFiniteSet(ids) /\ Cardinality(C) = Cardinality(ids)
    BY <1>2, CardsOfIssues
  <1> HIDE DEF C
  <1>6. Cardinality(ids) \in Nat BY <1>5, Count
  <1>7. n \in Nat BY <1>3, <1>4, <1>6, OfFinite
  <1>8. /\ [cards |-> C, total |-> n] \in Bucket
        /\ [cards |-> C, total |-> n].cards = C /\ [cards |-> C, total |-> n].total = n
    BY <1>5, <1>7, BucketFields
  <1> QED BY <1>1, <1>3, <1>4, <1>5, <1>8 DEF Right

\* A fetch that has all its columns.
LEMMA Fetched ==
  ASSUME Typed(server), NEW l \in Lists, NEW got, DOMAIN got = Shown,
         got = [s \in DOMAIN got |-> got[s]], \A s \in Shown : got[s] = Answer(l, s)
  PROVE  Coh(server, l, got)
  <1>1. \A s \in Shown : Right(server, l, s, got[s]) BY AnswerRight
  <1>2. \A s \in Shown : got[s] \in Bucket BY <1>1 DEF Right
  <1>3. got \in [Shown -> Bucket] BY <1>2
  <1> QED BY <1>1, <1>3 DEF Coh

\* Another page of a column.
LEMMA MorePages ==
  ASSUME Typed(server), NEW l \in Lists, l # "all", NEW s \in Shown, NEW data,
         Coh(server, l, data), NEW I, I \subseteq Members(l, s)
  PROVE  Coh(server, l,
             [data EXCEPT ![s] = [cards |-> data[s].cards \cup {Card(i, server[i]) : i \in I},
                                  total |-> Cardinality(Members(l, s))]])
  <1> DEFINE C == {Card(i, server[i]) : i \in I}
             D == data[s].cards \cup C
             n == Cardinality(Members(l, s))
             b == [cards |-> D, total |-> n]
             d == [data EXCEPT ![s] = b]
  <1>1. Members(l, s) = Of(server, l, s) /\ I \subseteq Of(server, l, s) BY MembersOf
  <1>2. /\ C \in SUBSET CardSet
        /\ \A x \in C : In(server, l, s, x.id) /\ x = Card(x.id, server[x.id])
    BY <1>1, CardsOfIssues
  <1>3. Right(server, l, s, data[s]) /\ data \in [Shown -> Bucket] BY DEF Coh
  <1> HIDE DEF C
  <1>4. D \in SUBSET CardSet BY <1>2, <1>3 DEF Right, Bucket
  <1>5. \A x \in D : In(server, l, s, x.id) /\ x = Card(x.id, server[x.id])
    BY <1>2, <1>3 DEF Right
  <1>6. n \in Nat BY <1>1, OfFinite
  <1> HIDE DEF D, n
  <1>7. b \in Bucket /\ b.cards = D /\ b.total = n BY <1>4, <1>6, BucketFields
  <1> HIDE DEF b
  <1>8. Right(server, l, s, b) BY <1>1, <1>5, <1>7 DEF Right, n
  <1>9. d \in [Shown -> Bucket] BY <1>3, <1>7
  <1>10. \A t \in Shown : Right(server, l, t, d[t])
    BY <1>3, <1>8 DEF Coh
  <1> HIDE DEF d
  <1>11. Coh(server, l, d) BY <1>9, <1>10 DEF Coh
  <1> QED BY <1>11 DEF d, b, C, D, n

-----------------------------------------------------------------------------
(* The lists                                                               *)

Fetching(l) == fetch[l] # None
\* Nothing has put a list out of step; an unassignment takes nothing off the board.
Steady(l) ==
  \A cause \in {"missed", "twice", "unassigned"} :
    <<l, cause>> \in drift => l = "board" /\ cause = "unassigned"
Told(l) == lists[l] # None /\ Steady(l)
Good(l) == Coh(server, l, lists[l])

\* What a fetch has got so far is what the server would answer now; none is under
\* way while a mutation is unanswered.
FetchInv ==
  \A l \in Lists : Fetching(l) =>
    /\ ~ Unanswered
    /\ DOMAIN fetch[l] \subseteq Shown
    /\ fetch[l] = [s \in DOMAIN fetch[l] |-> fetch[l][s]]
    /\ \A s \in DOMAIN fetch[l] : fetch[l][s] = Answer(l, s)

\* What the lists can be put back to.
Restorable ==
  \A l \in Lists : Steady(l) =>
    /\ l \in DOMAIN op.prevLists => Coh(server, l, op.prevLists[l])
    /\ l \notin DOMAIN op.prevLists /\ lists[l] # None => Good(l)

\* What they are once a sent update is committed.
Ahead ==
  LET srv == [server EXCEPT ![op.id] = Spread(@, op.patch)]
  IN \A l \in Lists : Told(l) =>
       /\ l \in op.stale \/ Coh(srv, l, lists[l])
       /\ l = "board" => Coh(srv, l, lists[l]) \/ ~ Loaded(lists[l], op.id)

Was(i, old) == [server EXCEPT ![i] = old]

\* An update of an issue that was old is yet to be told: the lists have it as it
\* was, or will be fetched, and what is told is what they need to know.
Untold(i, old, changed) ==
  /\ old.status # server[i].status => "status" \in changed
  /\ \A l \in Lists : Told(l) => Said(l, i, old, server[i], changed)
  /\ detail[i] \in {None, old}
  /\ old # server[i] => op = NoOp /\ \A l \in Lists : ~ Fetching(l)
  /\ \A l \in Lists : Told(l) =>
       \/ Fetching(l) \/ Coh(Was(i, old), l, lists[l])
       \/ Committed /\ l \in op.stale
  /\ "board" \in Lists /\ Told("board") =>
       Coh(Was(i, old), "board", lists["board"]) \/ ~ Loaded(lists["board"], i)

\* A creation is yet to be told.
Unborn(i) ==
  "board" \in Lists /\ Told("board") =>
    \/ Fetching("board")
    \/ Coh(Was(i, None), "board", lists["board"])
    \/ Good("board") /\ "board" \in refetched

Pending ==
  events # << >> =>
    /\ Head(events).kind = "updated" =>
         \E old \in Entity : Untold(Head(events).id, old, Head(events).changed)
    /\ Head(events).kind = "created" => Unborn(Head(events).id)

\* Lists that the answer to this client's mutation will see to.
Excused(l) ==
  /\ Committed
  /\ \/ op.kind = "update" /\ l \in op.stale
     \/ op.kind = "create" /\ l = "board"
     \/ op.kind = "delete"

AtRest == \A l \in Lists : Told(l) => Fetching(l) \/ Good(l) \/ Excused(l)

Shape ==
  /\ DOMAIN lists = Lists /\ DOMAIN fetch = Lists
  /\ op # NoOp => DOMAIN op.prevLists \subseteq Lists
  /\ op # NoOp /\ op.kind = "create" => op.prevLists = NoLists

ListsInv ==
  /\ FetchInv
  /\ Unanswered => Restorable
  /\ Unanswered /\ op.kind = "update" /\ op.pc = "sent" /\ server[op.id] # None => Ahead
  /\ Pending
  /\ events = << >> /\ ~ Unanswered => AtRest

LInv == DInv /\ Shape /\ (socket => ListsInv)

\* The invariant of the lists at the start, and facts its steps share.
LEMMA ListsStart == Init => LInv
  <1> SUFFICES ASSUME Init PROVE Shape /\ ListsInv
    BY DetailsStart DEF LInv
  <1>1. \A l \in Lists : lists[l] = None /\ fetch[l] = None BY DEF Init
  <1>2. op = NoOp /\ events = << >> BY DEF Init
  <1>3. ~ Unanswered BY <1>2 DEF Unanswered
  <1> QED BY <1>1, <1>2, <1>3
       DEF Init, Shape, ListsInv, FetchInv, Pending, AtRest, Fetching, Told

LEMMA NoColumns ==
  /\ DOMAIN NoLists = {} /\ NoLists = [s \in DOMAIN NoLists |-> NoLists[s]]
  BY DEF NoLists

LEMMA AnswerSame ==
  ASSUME server' = server, NEW l, NEW s
  PROVE  Answer(l, s)' = Answer(l, s)
  BY DEF Answer, InColumn, Members, InList, Live

LEMMA GoodSame ==
  ASSUME server' = server, NEW l, lists'[l] = lists[l], Good(l)
  PROVE  Good(l)'
  BY DEF Good

LEMMA Unanswerable == ASSUME Quiet PROVE ~ Unanswered /\ ~ Committed
  BY DEF Quiet, Unanswered, Committed

\* Fetches that go on, begin or are given up.
LEMMA FetchKept ==
  ASSUME FetchInv, server' = server, ~ Unanswered',
         \A l \in Lists : fetch'[l] \in {fetch[l], NoLists, None}
  PROVE  FetchInv'
  <1> SUFFICES ASSUME NEW l \in Lists, fetch'[l] # None
               PROVE  /\ DOMAIN fetch'[l] \subseteq Shown
                      /\ fetch'[l] = [s \in DOMAIN fetch'[l] |-> fetch'[l][s]]
                      /\ \A s \in DOMAIN fetch'[l] : fetch'[l][s] = Answer(l, s)'
    BY DEF FetchInv, Fetching
  <1>1. CASE fetch'[l] = NoLists BY <1>1, NoColumns
  <1>2. CASE fetch'[l] = fetch[l]
    <2>1. \A s : Answer(l, s)' = Answer(l, s) BY AnswerSame
    <2> QED BY <1>2, <2>1 DEF FetchInv, Fetching
  <1> QED BY <1>1, <1>2

\* A step that begins with everything at rest finds every list right.
LEMMA QuietLists ==
  ASSUME Quiet, ListsInv
  PROVE  \A l \in Lists : ~ Fetching(l) /\ (Told(l) => Good(l))
  BY Unanswerable DEF ListsInv, AtRest, Excused, Quiet, Fetching

LEMMA QuietlyKept ==
  ASSUME ListsInv, events' = << >>, ~ Unanswered', FetchInv', AtRest'
  PROVE  ListsInv'
  BY DEF ListsInv, Pending

\* A fetch and what it fetched.
LEMMA Got ==
  ASSUME Typed(server), FetchInv, NEW l \in Lists, Fetching(l), NEW s \in Shown
  PROVE  LET got == Spread(fetch[l], [c \in {s} |-> Answer(l, c)]) IN
         /\ DOMAIN got \subseteq Shown /\ got = [t \in DOMAIN got |-> got[t]]
         /\ \A t \in DOMAIN got : got[t] = Answer(l, t)
         /\ got # None
         /\ DOMAIN got = Shown => Coh(server, l, got)
  <1> DEFINE got == Spread(fetch[l], [c \in {s} |-> Answer(l, c)])
  <1>1. /\ DOMAIN got \subseteq Shown /\ got = [t \in DOMAIN got |-> got[t]]
        /\ \A t \in DOMAIN got : got[t] = Answer(l, t)
    BY DEF FetchInv, Spread
  <1> HIDE DEF got
  <1>2. \A t \in DOMAIN got : got[t] \in Bucket
    <2>1. \A t \in Shown : Answer(l, t) \in Bucket BY AnswerRight DEF Right
    <2> QED BY <1>1, <2>1
  <1>3. got \in [DOMAIN got -> Bucket] BY <1>1, <1>2
  <1>4. got # None BY <1>1, <1>3, CacheAssumption
  <1>5. DOMAIN got = Shown => Coh(server, l, got) BY <1>1, Fetched
  <1> QED BY <1>1, <1>4, <1>5 DEF got

\* A column is answered: the last one makes the list, from answers that are all
\* of the server as it is.
LEMMA ColumnKeepsLists ==
  ASSUME LInv, NEW m \in Lists, NEW s \in Shown, ColumnAnswered(m, s)
  PROVE  Shape' /\ (socket' => ListsInv')
  <1> DEFINE got == Spread(fetch[m], [c \in {s} |-> Answer(m, c)])
  <1>1. /\ Fetching(m) /\ UNCHANGED <<server, events, socket, changes, mounted, detail, op>>
    BY DEF ColumnAnswered, world, Fetching
  <1>2. \/ /\ DOMAIN got # Shown /\ fetch' = [fetch EXCEPT ![m] = got]
           /\ UNCHANGED <<lists, stale, refetched, drift>>
        \/ /\ DOMAIN got = Shown /\ fetch' = [fetch EXCEPT ![m] = None]
           /\ lists' = [lists EXCEPT ![m] = got]
           /\ refetched' = IF events = << >> THEN {} ELSE refetched \cup {m}
           /\ drift' = IF m \in mounted THEN {d \in drift : d[1] # m} ELSE drift
    BY DEF ColumnAnswered
  <1>3. Shape' BY <1>1, <1>2 DEF LInv, Shape
  <1> SUFFICES ASSUME socket PROVE ListsInv'
    BY <1>1, <1>3
  <1>4. FetchInv /\ ~ Unanswered /\ Pending /\ (events = << >> => AtRest)
        /\ Typed(server) /\ DOMAIN lists = Lists /\ DOMAIN fetch = Lists
    BY <1>1 DEF LInv, ListsInv, FetchInv, DInv, Typed, Shape
  <1>5. /\ DOMAIN got \subseteq Shown /\ got = [t \in DOMAIN got |-> got[t]]
        /\ \A t \in DOMAIN got : got[t] = Answer(m, t)
        /\ got # None
        /\ DOMAIN got = Shown => Coh(server, m, got)
    BY <1>1, <1>4, Got
  <1> HIDE DEF got
  <1>6. ~ Unanswered' /\ Committed' = Committed BY <1>1, <1>4 DEF Unanswered, Committed
  <1>7. FetchInv'
    <2>1. \A l, t : Answer(l, t)' = Answer(l, t) BY <1>1, AnswerSame
    <2>2. fetch'[m] \in {got, None} BY <1>2, <1>4
    <2>3. \A l \in Lists \ {m} : fetch'[l] = fetch[l] BY <1>2, <1>4
    <2> QED BY <1>4, <1>5, <1>6, <2>1, <2>2, <2>3 DEF FetchInv, Fetching
  <1>8. CASE DOMAIN got # Shown
    <2>1. \A l \in Lists : Fetching(l) => Fetching(l)'
      BY <1>2, <1>4, <1>5, <1>8 DEF Fetching
    <2>2. \A l \in Lists : Fetching(l)' => Fetching(l)
      BY <1>1, <1>2, <1>4, <1>8 DEF Fetching
    <2>3. UNCHANGED <<server, events, detail, op, lists, refetched, drift>> BY <1>1, <1>2, <1>8
    <2>4. Pending'
      BY <1>4, <2>1, <2>2, <2>3 DEF Pending, Untold, Unborn, Told, Steady, Good, Was, Committed
    <2>5. events' = << >> => AtRest'
      BY <1>4, <2>1, <2>3 DEF AtRest, Told, Steady, Good, Excused, Committed
    <2> QED BY <1>6, <1>7, <2>4, <2>5 DEF ListsInv
  <1>9. CASE DOMAIN got = Shown
    <2>1. Good(m)' BY <1>1, <1>2, <1>4, <1>5, <1>9 DEF Good
    <2>2. ASSUME NEW l \in Lists \ {m}
          PROVE  /\ lists'[l] = lists[l] /\ fetch'[l] = fetch[l]
                 /\ Told(l)' => Told(l)
                 /\ Fetching(l)' <=> Fetching(l)
                 /\ Good(l)' <=> Good(l)
      <3>1. lists'[l] = lists[l] /\ fetch'[l] = fetch[l] BY <1>2, <1>4, <1>9
      <3>2. Steady(l)' => Steady(l) BY <1>2, <1>9 DEF Steady
      <3> QED BY <1>1, <3>1, <3>2 DEF Told, Fetching, Good
    <2>3. ~ Fetching(m)' BY <1>2, <1>4, <1>9 DEF Fetching
    <2>4. events' = << >> => AtRest'
      BY <1>1, <1>4, <2>1, <2>2 DEF AtRest, Excused, Committed
    <2>5. ASSUME NEW i \in Issues, NEW old \in Entity, NEW changed, Untold(i, old, changed)
          PROVE  Untold(i, old, changed)'
      <3>1. old = server[i] BY <1>1, <2>5 DEF Untold
      <3>2. Was(i, old) = server BY <1>4, <3>1 DEF Was, Typed
      <3>3. \A l \in Lists : Told(l)' =>
              Fetching(l)' \/ Coh(server, l, lists'[l]) \/ (Committed /\ l \in op.stale)
        BY <1>1, <2>1, <2>2, <2>5, <3>2 DEF Untold, Good
      <3>4. "board" \in Lists /\ Told("board")' =>
              Coh(server, "board", lists'["board"]) \/ ~ Loaded(lists'["board"], i)
        BY <1>1, <2>1, <2>2, <2>5, <3>2 DEF Untold, Good
      <3>5. Was(i, old)' = server BY <1>1, <3>2 DEF Was
      <3>6. \A l \in Lists : Said(l, i, old, server[i], changed)
        BY <3>1, SameAssignee DEF Said
      <3> QED BY <1>1, <1>6, <2>5, <3>1, <3>3, <3>4, <3>5, <3>6 DEF Untold, Typed
    <2>6. ASSUME NEW i, events # << >>, Unborn(i) PROVE Unborn(i)'
      <3>1. refetched' = refetched \cup {m} BY <1>2, <1>9, <2>6
      <3>2. Was(i, None)' = Was(i, None) BY <1>1 DEF Was
      <3>3. CASE m = "board" BY <2>1, <3>1, <3>3 DEF Unborn
      <3>4. CASE m # "board" BY <2>2, <2>6, <3>1, <3>2, <3>4 DEF Unborn
      <3> QED BY <3>3, <3>4
    <2>7. events # << >> => Head(events).id \in Issues
      BY One DEF LInv, DInv, EventsInv, Truthful
    <2>8. Pending'
      BY <1>1, <1>4, <2>5, <2>6, <2>7 DEF Pending
    <2> QED BY <1>6, <1>7, <2>4, <2>8 DEF ListsInv
  <1> QED BY <1>8, <1>9

\* A stutter.
LEMMA ListsIdle ==
  ASSUME LInv, UNCHANGED vars
  PROVE  Shape' /\ (socket' => ListsInv')
  <1>1. UNCHANGED <<server, events, socket, lists, fetch, detail, op, refetched, drift>>
    BY DEF vars
  <1>2. Shape' BY <1>1 DEF LInv, Shape
  <1> SUFFICES ASSUME socket PROVE ListsInv'
    BY <1>1, <1>2
  <1>3. ListsInv BY DEF LInv
  <1>4. FetchInv'
    <2>1. \A l, t : Answer(l, t)' = Answer(l, t) BY <1>1, AnswerSame
    <2> QED BY <1>1, <1>3, <2>1 DEF ListsInv, FetchInv, Fetching, Unanswered
  <1>5. Pending'
    BY <1>1, <1>3
       DEF ListsInv, Pending, Untold, Unborn, Told, Steady, Good, Was, Committed, Fetching
  <1>6. Restorable => Restorable' BY <1>1 DEF Restorable, Steady, Good
  <1>7. Ahead => Ahead' BY <1>1 DEF Ahead, Told, Steady
  <1>8. AtRest => AtRest' BY <1>1 DEF AtRest, Told, Steady, Fetching, Good, Excused, Committed
  <1> QED BY <1>1, <1>3, <1>4, <1>5, <1>6, <1>7, <1>8 DEF ListsInv, Unanswered

\* A step of the screen while everything is at rest.
LEMMA ScreenRests ==
  ASSUME LInv, Quiet, UNCHANGED <<server, events, socket, op>>, Shape',
         \A l \in Lists : fetch'[l] \in {fetch[l], NoLists, None},
         socket => \A l \in Lists : Told(l)' => Fetching(l)' \/ Good(l)'
  PROVE  Shape' /\ (socket' => ListsInv')
  <1> SUFFICES ASSUME socket PROVE ListsInv'
    OBVIOUS
  <1>1. ListsInv BY DEF LInv
  <1>2. events' = << >> /\ ~ Unanswered' BY DEF Quiet, Unanswered
  <1>3. FetchInv' BY <1>1, <1>2, FetchKept DEF ListsInv
  <1>4. AtRest' BY DEF AtRest
  <1> QED BY <1>1, <1>2, <1>3, <1>4, QuietlyKept

LEMMA Peaceful == ASSUME ~ Overlap, May PROVE Quiet
  BY DEF May

\* The other steps of the screen happen at rest.
LEMMA MountKeepsLists ==
  ASSUME ~ Overlap, LInv, NEW m \in Lists, Mount(m) \/ Unmount(m)
  PROVE  Shape' /\ (socket' => ListsInv')
  <1>1. Quiet /\ UNCHANGED <<server, events, socket, op, lists, drift>>
    BY Peaceful DEF Mount, Unmount, world
  <1>2. DOMAIN fetch' = Lists /\ \A l \in Lists : fetch'[l] \in {fetch[l], NoLists}
    BY DEF Mount, Unmount, LInv, Shape
  <1>3. Shape' BY <1>1, <1>2 DEF LInv, Shape
  <1>4. socket => \A l \in Lists : Told(l)' => Good(l)'
    BY <1>1, QuietLists DEF LInv, Told, Steady, Good
  <1> QED BY <1>1, <1>2, <1>3, <1>4, ScreenRests

LEMMA ExpireKeepsLists ==
  ASSUME LInv, NEW m \in Lists, Expire(m)
  PROVE  Shape' /\ (socket' => ListsInv')
  <1>1. Quiet /\ UNCHANGED <<server, events, socket, op, fetch>>
    BY DEF Expire, world
  <1>2. lists' = [lists EXCEPT ![m] = None] /\ drift' = {d \in drift : d[1] # m}
    BY DEF Expire
  <1>3. Shape' BY <1>1, <1>2 DEF LInv, Shape
  <1>4. socket => \A l \in Lists : Told(l)' => Good(l)'
    <2> SUFFICES ASSUME socket, NEW l \in Lists, Told(l)' PROVE Good(l)'
      OBVIOUS
    <2>1. l # m /\ lists'[l] = lists[l] BY <1>2 DEF Told, LInv, Shape
    <2>2. Steady(l) BY <1>2, <2>1 DEF Told, Steady
    <2>3. Good(l) BY <1>1, <2>1, <2>2, QuietLists DEF LInv, Told
    <2> QED BY <1>1, <2>1, <2>3, GoodSame
  <1> QED BY <1>1, <1>3, <1>4, ScreenRests

LEMMA LoadMoreKeepsLists ==
  ASSUME ~ Overlap, LInv, NEW m \in Lists, NEW s \in Shown, LoadMore(m, s)
  PROVE  Shape' /\ (socket' => ListsInv')
  <1> DEFINE b == lists[m][s]
             next == Page(Members(m, s), Cardinality(b.cards) + PageSize)
                       \ Page(Members(m, s), Cardinality(b.cards))
             I == {j \in next : CardsOf(b, j) = {}}
             C == {Card(i, server[i]) : i \in I}
  <1>1. Quiet /\ UNCHANGED <<server, events, socket, op, fetch, drift>> /\ lists[m] # None
    BY Peaceful DEF LoadMore, world, Cached
  <1>2. /\ Cardinality(b.cards) < b.total
        /\ lists' = [lists EXCEPT ![m][s] = [cards |-> b.cards \cup C,
                                             total |-> Cardinality(Members(m, s))]]
    BY DEF LoadMore
  <1>3. I \subseteq Members(m, s) BY DEF Page
  <1> HIDE DEF I
  <1>4. DOMAIN lists = Lists BY DEF LInv, Shape
  <1>5. Shape' BY <1>1, <1>2, <1>4 DEF LInv, Shape
  <1>6. socket => \A l \in Lists : Told(l)' => Good(l)'
    <2> SUFFICES ASSUME socket, NEW l \in Lists, Told(l)' PROVE Good(l)'
      OBVIOUS
    <2>1. l # m => lists'[l] = lists[l] BY <1>2, <1>4
    <2>2. Good(l)
      BY <1>1, <2>1, QuietLists DEF LInv, Told, Steady
    <2>3. CASE l # m BY <1>1, <2>1, <2>2, <2>3, GoodSame
    <2>4. CASE l = m
      <3>1. Right(server, m, s, b) BY <2>2, <2>4 DEF Good, Coh
      <3>2. Cardinality(b.cards) \in Nat BY <3>1, CardsFinite
      <3>3. m # "all" BY <1>2, <3>1, <3>2 DEF Right
      <3>4. Typed(server) BY DEF LInv, DInv, Typed
      <3>5. lists'[m] = [lists[m] EXCEPT ![s] = [cards |-> b.cards \cup C,
                                                 total |-> Cardinality(Members(m, s))]]
        BY <1>2, <1>4
      <3>6. Coh(server, m, lists[m]) BY <2>2, <2>4 DEF Good
      <3>7. Coh(server, m, lists'[m])
        BY <1>3, <3>3, <3>4, <3>5, <3>6, MorePages
      <3> QED BY <1>1, <2>4, <3>7 DEF Good
    <2> QED BY <2>3, <2>4
  <1> QED BY <1>1, <1>5, <1>6, ScreenRests

LEMMA DetailKeepsLists ==
  ASSUME ~ Overlap, LInv, NEW i, OpenDetail(i) \/ CloseDetail(i)
  PROVE  Shape' /\ (socket' => ListsInv')
  <1>1. Quiet /\ UNCHANGED <<server, events, socket, op, lists, fetch, drift>>
    BY Peaceful DEF OpenDetail, CloseDetail, world
  <1>2. Shape' BY <1>1 DEF LInv, Shape
  <1>3. socket => \A l \in Lists : Told(l)' => Good(l)'
    BY <1>1, QuietLists DEF LInv, Told, Steady, Good
  <1> QED BY <1>1, <1>2, <1>3, ScreenRests

LEMMA ScreenKeepsLists ==
  ASSUME ~ Overlap, LInv, Screen
  PROVE  Shape' /\ (socket' => ListsInv')
  BY MountKeepsLists, ExpireKeepsLists, ColumnKeepsLists, LoadMoreKeepsLists, DetailKeepsLists
     DEF Screen

\* A mutation is sent: no fetch is under way, and what its lists were is kept.
LEMMA SendKeepsLists ==
  ASSUME ~ Overlap, LInv, NEW i \in Issues,
         \/ \E patch \in Patches : UpdateIssue(i, patch)
         \/ \E e \in Entity : CreateIssue(i, e)
         \/ DeleteIssue(i)
  PROVE  Shape' /\ (socket' => ListsInv')
  <1>1. Quiet /\ UNCHANGED <<server, events, socket, drift>>
    BY Peaceful DEF UpdateIssue, CreateIssue, DeleteIssue, Change
  <1>2. DOMAIN lists = Lists /\ DOMAIN fetch = Lists BY DEF LInv, Shape
  <1>3. DOMAIN fetch' = Lists /\ \A l \in Lists : fetch'[l] = None
    BY <1>1, <1>2 DEF UpdateIssue, CreateIssue, DeleteIssue, CancelQueries, Quiet
  <1>4. socket => \A l \in Lists : Told(l) => Good(l) BY <1>1, QuietLists DEF LInv
  <1>5. FetchInv' BY <1>3 DEF FetchInv, Fetching
  <1>6. events' = << >> BY <1>1 DEF Quiet
  <1>7. ASSUME NEW patch \in Patches, UpdateIssue(i, patch) PROVE Shape' /\ (socket' => ListsInv')
    <2> DEFINE changed == IssueChangedDims(patch, detail[i])
               c == ApplyIssueChange(i, patch, changed, detail[i])
    <2>1. /\ lists' = Spread(lists, c.lists)
          /\ op' = [kind |-> "update", id |-> i, patch |-> patch, pc |-> "sent",
                    prevLists |-> c.prevLists, prevDetail |-> detail[i], stale |-> c.stale,
                    issue |-> None]
      BY <1>7 DEF UpdateIssue
    <2>2. /\ DOMAIN c.prevLists \subseteq Lists /\ DOMAIN Spread(lists, c.lists) = Lists
          /\ \A l \in DOMAIN c.prevLists : c.prevLists[l] = lists[l] /\ lists[l] # None
          /\ \A l \in Lists \ DOMAIN c.prevLists : Spread(lists, c.lists)[l] = lists[l]
      BY <1>2, AppliedDomain
    <2>3. op'.id = i /\ op'.patch = patch /\ op'.kind = "update" /\ op'.pc = "sent"
          /\ op'.prevLists = c.prevLists /\ op'.stale = c.stale
      BY <2>1
    <2>4. Shape' BY <1>3, <2>1, <2>2, <2>3 DEF Shape
    <2>5. ASSUME socket PROVE Restorable'
      BY <1>1, <1>4, <2>1, <2>2, <2>3, <2>5 DEF Restorable, Told, Steady, Good
    <2>6. ASSUME socket, server[i] # None PROVE Ahead'
      <3> DEFINE srv == [server EXCEPT ![i] = Spread(server[i], patch)]
      <3>1. /\ server[i] \in Entity /\ Spread(server[i], patch) \in Entity
            /\ server \in [Issues -> Entity \cup {None}]
        BY <2>6, Part DEF LInv, DInv
      <3>2. detail[i] \in {None, server[i]}
        BY <1>1, <2>6, Unanswerable DEF LInv, DInv, DetailsInv, Loose, Settled, Quiet
      <3>3. OnlyAt(server, srv, i) /\ srv[i] = Spread(server[i], patch)
        BY <3>1 DEF OnlyAt
      <3>4. changed \subseteq DOMAIN patch \cap {"status", "assignee"}
        BY DEF IssueChangedDims
      <3>5. \A f \in {"status", "assignee"} : server[i][f] # srv[i][f] => f \in changed
        BY <3>1, <3>2, <3>3, CacheAssumption DEF IssueChangedDims, Spread, Entity
      <3> HIDE DEF changed, srv
      <3>6. Apt(server, srv, i, patch, changed, detail[i])
        BY <3>1, <3>2, <3>3, <3>4, <3>5 DEF Apt
      <3>6a. \A l \in Lists : Said(l, i, server[i], srv[i], changed)
        BY <3>5, SameAssignee DEF Said
      <3>7. ASSUME NEW l \in Lists, Told(l)'
            PROVE  /\ l \in c.stale \/ Coh(srv, l, lists'[l])
                   /\ l = "board" => Coh(srv, l, lists'[l]) \/ ~ Loaded(lists'[l], i)
        <4>1. Steady(l) BY <1>1, <3>7 DEF Told, Steady
        <4>2. lists[l] # None BY <1>2, <2>1, <3>7, NotCached DEF Told
        <4>3. Coh(server, l, lists[l]) BY <1>4, <2>6, <4>1, <4>2 DEF Told, Good
        <4> QED BY <1>2, <2>1, <3>6, <3>6a, <4>2, <4>3, ChangeApplied
      <3>8. [server' EXCEPT ![op'.id] = Spread(@, op'.patch)] = srv BY <1>1, <2>3 DEF srv
      <3> HIDE DEF c
      <3> QED BY <2>3, <3>7, <3>8 DEF Ahead
    <2> HIDE DEF c
    <2>7. op' # NoOp /\ Unanswered' BY <2>3 DEF NoOp, Unanswered
    <2> QED BY <1>1, <1>5, <1>6, <2>3, <2>4, <2>5, <2>6, <2>7 DEF ListsInv, Pending
  <1>8. ASSUME NEW e \in Entity, CreateIssue(i, e) PROVE Shape' /\ (socket' => ListsInv')
    <2>1. /\ UNCHANGED lists
          /\ op'.kind = "create" /\ op'.pc = "sent" /\ op'.prevLists = NoLists
      BY <1>8 DEF CreateIssue
    <2>2. Shape' BY <1>2, <1>3, <2>1, NoColumns DEF Shape
    <2>3. ASSUME socket PROVE Restorable'
      BY <1>1, <1>4, <2>1, <2>3, NoColumns DEF Restorable, Told, Steady, Good
    <2>4. Unanswered' BY <2>1 DEF NoOp, Unanswered
    <2> QED BY <1>1, <1>5, <1>6, <2>1, <2>2, <2>3, <2>4 DEF ListsInv, Pending
  <1>9. ASSUME DeleteIssue(i) PROVE Shape' /\ (socket' => ListsInv')
    <2>1. /\ lists' = Spread(lists, Pruned(i))
          /\ op'.kind = "delete" /\ op'.pc = "sent"
          /\ op'.prevLists = [l \in Cached |-> lists[l]]
      BY <1>9 DEF DeleteIssue
    <2>2. DOMAIN Pruned(i) = Cached /\ Cached \subseteq Lists BY DEF Pruned, Cached
    <2>3. DOMAIN lists' = Lists /\ \A l \in Lists \ Cached : lists'[l] = lists[l]
      BY <1>2, <2>1, <2>2 DEF Spread
    <2>4. Shape' BY <1>3, <2>1, <2>2, <2>3 DEF Shape
    <2>5. ASSUME socket PROVE Restorable'
      BY <1>1, <1>4, <2>1, <2>3, <2>5 DEF Restorable, Told, Steady, Good, Cached
    <2>6. Unanswered' BY <2>1 DEF NoOp, Unanswered
    <2> QED BY <1>1, <1>5, <1>6, <2>1, <2>4, <2>5, <2>6 DEF ListsInv, Pending
  <1> QED BY <1>7, <1>8, <1>9

\* A refusal ends what the client is ahead by; the snapshots stay good.
LEMMA RejectKeepsLists ==
  ASSUME LInv, Reject
  PROVE  Shape' /\ (socket' => ListsInv')
  <1>1. /\ Unanswered /\ op' = [op EXCEPT !.pc = "rejected"]
        /\ UNCHANGED <<server, events, socket, lists, fetch, drift>>
    BY DEF Reject, world, Unanswered
  <1>2. /\ OpFields \subseteq DOMAIN op /\ events = << >>
    BY <1>1 DEF LInv, DInv, OpInv, Unanswered
  <1>3. /\ op'.pc = "rejected" /\ op'.kind = op.kind /\ op'.prevLists = op.prevLists
    BY <1>1, <1>2 DEF OpFields
  <1>4. op # NoOp /\ (op' # NoOp) BY <1>1, <1>2 DEF Unanswered, NoOp, OpFields
  <1>5. Shape' BY <1>1, <1>3, <1>4 DEF LInv, Shape
  <1> SUFFICES ASSUME socket PROVE ListsInv'
    BY <1>1, <1>5
  <1>6. \A l \in Lists : fetch[l] = None BY <1>1 DEF LInv, ListsInv, FetchInv, Fetching
  <1>7. FetchInv' BY <1>1, <1>6 DEF FetchInv, Fetching
  <1>8. Restorable BY <1>1 DEF LInv, ListsInv
  <1>9. Restorable' BY <1>1, <1>3, <1>8 DEF Restorable, Steady, Good
  <1>10. Unanswered' BY <1>3, <1>4 DEF Unanswered
  <1> QED BY <1>1, <1>2, <1>3, <1>7, <1>9, <1>10 DEF ListsInv, Pending

\* Undoing one change of the server.
LEMMA Back ==
  ASSUME Typed(server), NEW i \in Issues, NEW x, server' = [server EXCEPT ![i] = x]
  PROVE  /\ server'[i] = x /\ Was(i, x)' = server'
         /\ \A old : old = server[i] => Was(i, old)' = server
  BY DEF Typed, Was

\* The server commits this client's mutation and tells: of an update, the lists
\* have it already.
LEMMA CommitKeepsLists ==
  ASSUME LInv, Commit
  PROVE  Shape' /\ (socket' => ListsInv')
  <1> PICK i : i = op.id OBVIOUS
  <1>1. /\ op # NoOp /\ op.pc = "sent" /\ events = << >> /\ UNCHANGED <<socket, detail>>
        /\ op' # NoOp /\ op'.pc = "committed"
        /\ \A f \in OpFields \ {"pc", "issue"} : op'[f] = op[f]
    BY OwnCommits DEF LInv
  <1>2. UNCHANGED <<lists, fetch, drift>> BY DEF Commit
  <1>3. /\ op'.kind = op.kind /\ op'.prevLists = op.prevLists /\ op'.stale = op.stale
        /\ op'.id = i
    BY <1>1 DEF OpFields
  <1>4. Shape' BY <1>1, <1>2, <1>3 DEF LInv, Shape
  <1> SUFFICES ASSUME socket PROVE ListsInv'
    BY <1>1, <1>4
  <1>5. /\ ListsInv /\ Unanswered /\ i \in Issues /\ Typed(server)
        /\ Committed' /\ ~ Unanswered'
    BY <1>1 DEF LInv, DInv, OpInv, Unanswered, Committed, Typed
  <1>6. \A l \in Lists : fetch[l] = None BY <1>5 DEF ListsInv, FetchInv, Fetching
  <1>7. FetchInv' BY <1>2, <1>6 DEF FetchInv, Fetching
  <1>8. Restorable BY <1>5 DEF ListsInv
  <1>9. PICK e, x :
          /\ Commits(op.id, x, e)
          /\ \/ op.kind = "update" /\ Update(op.id, op.patch, e) /\ x = e.issue
                /\ op.id \in Live
             \/ op.kind = "create" /\ e.kind = "created" /\ x = e.issue /\ x \in Entity
             \/ op.kind = "delete" /\ e.kind = "deleted" /\ x = None
    BY OwnCommits DEF LInv
  <1>10. server' = [server EXCEPT ![i] = x] /\ events' = <<e>> /\ e.id = i
    BY <1>9 DEF Commits
  <1>11. Head(events') = e /\ events' # << >> BY <1>10, One
  <1>12. /\ server'[i] = x /\ Was(i, x)' = server'
         /\ server[i] = None => Was(i, None)' = server
    BY <1>5, <1>10, Back
  <1>13. ASSUME e.kind = "updated" PROVE Untold(i, x, e.changed)' /\ x \in Entity
    <2>1. /\ op.kind = "update" /\ server[i] # None
          /\ x = Spread(server[i], op.patch) /\ x \in Entity
      BY <1>9, <1>13 DEF Update, Live
    <2>2. detail[i] \in {None, x}
      BY <1>1, <1>5, <2>1 DEF LInv, DInv, DetailsInv, Unanswered
    <2>3. Ahead BY <1>1, <1>5, <2>1 DEF ListsInv
    <2>4. [server EXCEPT ![op.id] = Spread(@, op.patch)] = server'
      BY <1>10, <2>1
    <2>5. \A l \in Lists : Told(l) =>
            /\ l \in op.stale \/ Coh(server', l, lists[l])
            /\ l = "board" => Coh(server', l, lists[l]) \/ ~ Loaded(lists[l], i)
      BY <2>3, <2>4 DEF Ahead
    <2>6. \A l : Told(l)' => Told(l) BY <1>2 DEF Told, Steady
    <2>7. \A l \in Lists : Said(l, i, x, server'[i], e.changed)
      BY <1>12, SameAssignee DEF Said
    <2> QED BY <1>1, <1>2, <1>3, <1>5, <1>12, <2>1, <2>2, <2>5, <2>6, <2>7 DEF Untold
  <1>14. ASSUME e.kind = "created" PROVE Unborn(i)'
    <2>1. op.kind = "create" BY <1>9, <1>14 DEF Update
    <2>2. server[i] = None BY <1>1, <2>1 DEF LInv, DInv, OpInv
    <2>3. op.prevLists = NoLists BY <1>1, <2>1 DEF LInv, Shape
    <2>4. "board" \in Lists /\ Told("board") => Coh(server, "board", lists["board"])
      BY <1>8, <2>3, NoColumns DEF Restorable, Told, Good
    <2>5. Told("board")' => Told("board") BY <1>2 DEF Told, Steady
    <2> QED BY <1>2, <1>12, <2>2, <2>4, <2>5 DEF Unborn
  <1>15. Pending' BY <1>10, <1>11, <1>13, <1>14 DEF Pending
  <1> QED BY <1>5, <1>7, <1>11, <1>15 DEF ListsInv

\* Somebody else's change.
LEMMA RemoteKeepsLists ==
  ASSUME ~ Overlap, LInv, Remote
  PROVE  Shape' /\ (socket' => ListsInv')
  <1>1. /\ op = NoOp /\ events = << >> /\ UNCHANGED <<socket, detail, op, lists, fetch>>
        /\ drift \subseteq drift' /\ Quiet
    BY RemoteCommits, Peaceful DEF LInv, Remote, Change
  <1>2. Shape' BY <1>1 DEF LInv, Shape
  <1> SUFFICES ASSUME socket PROVE ListsInv'
    BY <1>1, <1>2
  <1>3. ListsInv /\ Typed(server) /\ ~ Unanswered' /\ ~ Unanswered
    BY <1>1 DEF LInv, DInv, Typed, Unanswered
  <1>4. \A l \in Lists : ~ Fetching(l) /\ (Told(l) => Good(l)) BY <1>1, <1>3, QuietLists
  <1>5. FetchInv' BY <1>1, <1>4 DEF FetchInv, Fetching
  <1>6a. PICK i \in Issues : \E x, e :
          Commits(i, x, e) /\ Others(i, x, e)
    BY RemoteCommits DEF LInv
  <1>6. PICK x, e :
          Commits(i, x, e) /\ Others(i, x, e)
    BY <1>6a
  <1>7. server' = [server EXCEPT ![i] = x] /\ events' = <<e>> /\ e.id = i
    BY <1>6 DEF Commits
  <1>8. Head(events') = e /\ events' # << >> BY <1>7, One
  <1> PICK old : old = server[i] OBVIOUS
  <1>9. server'[i] = x /\ Was(i, old)' = server BY <1>3, <1>7, Back
  <1>10. \A l \in Lists : Told(l)' => Coh(server, l, lists[l])
    BY <1>1, <1>4 DEF Told, Steady, Good
  <1>11. ASSUME e.kind = "updated"
         PROVE  Untold(i, old, e.changed)' /\ old \in Entity
    <2>1. PICK patch \in Patches :
            /\ Update(i, patch, e) /\ x = e.issue /\ i \in Live
            /\ drift' = drift \cup Left(i, patch) \X {"unassigned"}
      BY <1>6, <1>11 DEF Others
    <2>2. old \in Entity /\ x = Spread(old, patch) BY <1>3, <2>1 DEF Live, Typed, Update
    <2>3. old.status # server'[i].status => "status" \in e.changed
      BY <1>9, <2>1, <2>2 DEF Update, Flags, Spread, Entity
    <2>3a. ASSUME NEW l \in Lists, Told(l)' PROVE Said(l, i, old, server'[i], e.changed)
      <3>1. CASE x.assignee # "nobody"
        <4>1. old.assignee = x.assignee \/ "assignee" \in e.changed
          BY <2>1, <2>2, <3>1 DEF Update, Flags, Spread, Entity
        <4> QED BY <1>9, <4>1, SameAssignee DEF Said
      <3>2. CASE x.assignee = "nobody"
        <4>1. l \in Cached BY <1>1, <2>3a DEF Told, Cached
        <4>2. l = "board" \/ l \notin Left(i, patch) BY <2>1, <2>3a DEF Told, Steady
        <4>3. l = "board" \/ (InList(l, i) => InList(l, i)')
          BY <2>2, <3>2, <4>1, <4>2 DEF Left
        <4>4. Alike(l, i, old, x) BY <1>9, <3>2, <4>3, CacheAssumption DEF InList, Alike
        <4> QED BY <1>9, <4>4 DEF Said
      <3> QED BY <3>1, <3>2
    <2>4. detail[i] \in {None, old}
      BY <1>1, <1>3 DEF LInv, DInv, DetailsInv, Loose, Settled
    <2>5. op' = NoOp /\ \A l \in Lists : ~ Fetching(l)' BY <1>1, <1>4 DEF Fetching
    <2> QED BY <1>1, <1>9, <1>10, <2>2, <2>3, <2>3a, <2>4, <2>5 DEF Untold
  <1>12. ASSUME e.kind = "created" PROVE Unborn(i)'
    <2>1. old = None BY <1>6, <1>12 DEF Live, Others, Update
    <2> QED BY <1>1, <1>9, <1>10, <2>1 DEF Unborn
  <1>13. Pending' BY <1>7, <1>8, <1>11, <1>12 DEF Pending
  <1> QED BY <1>3, <1>5, <1>8, <1>13 DEF ListsInv

\* A lost socket leaves nothing to rely on, a new one asks for everything.
LEMMA SocketKeepsLists ==
  ASSUME ~ Overlap, LInv, Disconnect \/ Reconnect
  PROVE  Shape' /\ (socket' => ListsInv')
  <1>1. CASE Disconnect BY <1>1 DEF Disconnect, LInv, Shape
  <1>2. CASE Reconnect
    <2>1. Quiet /\ UNCHANGED <<server, events, op, mounted>> /\ Write(NoLists, Known)
          /\ drift' = drift \cup Unseen(Cached, "missed")
      BY <1>2, Peaceful DEF Reconnect
    <2>2. DOMAIN lists = Lists /\ DOMAIN fetch = Lists BY DEF LInv, Shape
    <2>3. /\ DOMAIN lists' = Lists /\ \A l \in Lists : lists'[l] = lists[l]
          /\ fetch' = [l \in Lists |-> IF l \in Known \cap mounted THEN NoLists ELSE fetch[l]]
      BY <2>1, <2>2, NoColumns DEF Write, Spread
    <2>4. Shape' BY <2>1, <2>3 DEF LInv, Shape
    <2>5. op' = NoOp /\ events' = << >> /\ ~ Unanswered' BY <2>1 DEF Quiet, Unanswered
    <2>6. FetchInv' BY <2>1, <2>3, <2>5, NoColumns DEF Quiet, FetchInv, Fetching
    <2>7. ASSUME NEW l \in Lists, Told(l)' PROVE Fetching(l)'
      <3>1. l \in Cached /\ l \in Known BY <2>3, <2>7 DEF Told, Cached, Known
      <3>2. l \in mounted BY <2>1, <2>7, <3>1 DEF Told, Steady, Unseen
      <3>3. fetch'[l] = NoLists BY <2>3, <3>1, <3>2
      <3> QED BY <3>3, CacheAssumption DEF Fetching
    <2> QED BY <2>4, <2>5, <2>6, <2>7 DEF ListsInv, Pending, AtRest
  <1> QED BY <1>1, <1>2

\* What writing the lists and asking for some of them does.
LEMMA Written ==
  ASSUME Shape, NEW new, NEW S, Write(new, S), DOMAIN new \subseteq Lists
  PROVE  /\ DOMAIN lists' = Lists /\ DOMAIN fetch' = Lists
         /\ \A l \in Lists : /\ lists'[l] = IF l \in DOMAIN new THEN new[l] ELSE lists[l]
                             /\ fetch'[l] \in {fetch[l], NoLists, None}
                             /\ Fetching(l) => Fetching(l)'
                             /\ l \in S /\ l \in mounted => Fetching(l)'
  BY CacheAssumption DEF Shape, Write, Spread, Fetching

\* A list that is asked for is fetched, or known to have drifted.
LEMMA Asked ==
  ASSUME Shape, NEW new, NEW S, Write(new, S), DOMAIN new \subseteq Lists,
         NEW l \in Lists, l \in S, NEW U, Unseen(U, "missed") \subseteq drift', l \in U
  PROVE  Told(l)' => Fetching(l)'
  <1>1. l \in mounted => Fetching(l)' BY Written
  <1>2. l \notin mounted => ~ Steady(l)' BY DEF Unseen, Steady
  <1> QED BY <1>1, <1>2 DEF Told

\* A deletion asks for every list.
LEMMA CleanedUp ==
  ASSUME Shape, NEW i, Cleanup(i)
  PROVE  /\ DOMAIN lists' = Lists /\ DOMAIN fetch' = Lists
         /\ \A l \in Lists : /\ fetch'[l] \in {fetch[l], NoLists, None}
                             /\ Told(l)' => Fetching(l)'
  <1>1. Write(Pruned(i), Known) /\ drift' = drift \cup Unseen(Cached, "missed")
    BY DEF Cleanup
  <1>2. DOMAIN Pruned(i) = Cached /\ Cached \subseteq Known /\ Cached \subseteq Lists
    BY DEF Pruned, Cached, Known
  <1>3. /\ DOMAIN lists' = Lists /\ DOMAIN fetch' = Lists
        /\ \A l \in Lists : /\ l \notin DOMAIN Pruned(i) => lists'[l] = lists[l]
                            /\ fetch'[l] \in {fetch[l], NoLists, None}
    BY <1>1, <1>2, Written
  <1>4. ASSUME NEW l \in Lists, Told(l)' PROVE Fetching(l)'
    <2>1. l \in Cached BY <1>2, <1>3, <1>4 DEF Told, Cached
    <2>2. Unseen(Cached, "missed") \subseteq drift' BY <1>1
    <2>3. l \in Known BY <1>2, <2>1
    <2>4. DOMAIN Pruned(i) \subseteq Lists BY <1>2
    <2> QED BY <1>1, <1>4, <2>1, <2>2, <2>3, <2>4, Asked
  <1> QED BY <1>3, <1>4

\* The snapshots are put back.
LEMMA FailureKeepsLists ==
  ASSUME LInv, UpdateFailed \/ OtherFailed
  PROVE  Shape' /\ (socket' => ListsInv')
  <1>1. /\ Unanswered /\ op' = NoOp /\ UNCHANGED <<server, events, socket>>
        /\ \E S : Write(op.prevLists, S)
        /\ drift \subseteq drift'
    BY DEF UpdateFailed, OtherFailed, Answered, Unanswered, world, NoOp
  <1>2. events = << >> /\ Shape /\ DOMAIN op.prevLists \subseteq Lists
    BY <1>1 DEF LInv, DInv, OpInv, Shape, Unanswered
  <1>3. /\ DOMAIN lists' = Lists /\ DOMAIN fetch' = Lists
        /\ \A l \in Lists :
             /\ lists'[l] = IF l \in DOMAIN op.prevLists THEN op.prevLists[l] ELSE lists[l]
             /\ fetch'[l] \in {fetch[l], NoLists, None}
    BY <1>1, <1>2, Written
  <1>4. Shape' BY <1>1, <1>3 DEF Shape
  <1> SUFFICES ASSUME socket PROVE ListsInv'
    BY <1>1, <1>4
  <1>5. ListsInv /\ Restorable /\ FetchInv BY <1>1 DEF LInv, ListsInv
  <1>6. ~ Unanswered' BY <1>1 DEF Unanswered
  <1>7. FetchInv' BY <1>1, <1>3, <1>5, <1>6, FetchKept
  <1>8. AtRest'
    <2> SUFFICES ASSUME NEW l \in Lists, Told(l)' PROVE Coh(server', l, lists'[l])
      BY DEF AtRest, Good
    <2>1. Steady(l) BY <1>1 DEF Told, Steady
    <2>2. lists'[l] # None BY DEF Told
    <2> QED BY <1>1, <1>3, <1>5, <2>1, <2>2 DEF Restorable, Good
  <1> QED BY <1>1, <1>2, <1>5, <1>6, <1>7, <1>8, QuietlyKept

\* A creation or a deletion is answered.
LEMMA CreateKeepsLists ==
  ASSUME LInv, CreateSucceeded
  PROVE  Shape' /\ (socket' => ListsInv')
  <1> DEFINE new == IF "board" \in Cached
                    THEN [l \in {"board"} |-> AddIssueToBuckets(lists[l], op.id, op.issue)]
                    ELSE NoLists
             S == Known \cap {"board"}
  <1>1. /\ Committed /\ op.kind = "create" /\ op' = NoOp /\ UNCHANGED <<server, events, socket>>
        /\ Write(new, S) /\ drift' = drift \cup Unseen(Cached \cap {"board"}, "missed")
    BY DEF CreateSucceeded, Answered, Committed, world, NoOp
  <1>2. Shape /\ DOMAIN new \subseteq Cached \cap {"board"} /\ Cached \subseteq Lists
    BY NoColumns DEF LInv, Cached
  <1> HIDE DEF new
  <1>3. /\ DOMAIN lists' = Lists /\ DOMAIN fetch' = Lists
        /\ \A l \in Lists : /\ l \notin DOMAIN new => lists'[l] = lists[l]
                            /\ fetch'[l] \in {fetch[l], NoLists, None}
                            /\ Fetching(l) => Fetching(l)'
    BY <1>1, <1>2, Written
  <1>4. Shape' BY <1>1, <1>3 DEF Shape
  <1> SUFFICES ASSUME socket PROVE ListsInv'
    BY <1>1, <1>4
  <1>5. ListsInv /\ FetchInv /\ ~ Unanswered /\ ~ Unanswered'
    BY <1>1 DEF LInv, ListsInv, Unanswered, Committed
  <1>6. FetchInv' BY <1>1, <1>3, <1>5, FetchKept
  <1>7. ASSUME "board" \in Lists, Told("board")' PROVE Fetching("board")'
    <2>1. "board" \in Cached BY <1>2, <1>3, <1>7 DEF Told, Cached
    <2>2. "board" \in S BY <2>1 DEF Known, Cached
    <2>3. Unseen(Cached \cap {"board"}, "missed") \subseteq drift' BY <1>1
    <2>4. DOMAIN new \subseteq Lists /\ "board" \in Cached \cap {"board"} BY <1>2, <2>1
    <2> HIDE DEF S
    <2> QED BY <1>1, <1>2, <1>7, <2>2, <2>3, <2>4, Asked
  <1>8. CASE events = << >>
    <2>1. AtRest BY <1>5, <1>8 DEF ListsInv
    <2>2. ASSUME NEW l \in Lists, l # "board", Told(l)' PROVE Fetching(l)' \/ Good(l)'
      <3>1. lists'[l] = lists[l] BY <1>2, <1>3, <2>2
      <3>2. Told(l) BY <1>1, <2>2, <3>1 DEF Told, Steady
      <3>3. Fetching(l) \/ Good(l) BY <1>1, <2>1, <2>2, <3>2 DEF AtRest, Excused
      <3> QED BY <1>1, <1>3, <3>1, <3>3, GoodSame
    <2>3. AtRest' BY <1>7, <2>2 DEF AtRest
    <2> QED BY <1>1, <1>5, <1>6, <1>8, <2>3, QuietlyKept
  <1>9. CASE events # << >>
    <2>1. Head(events).kind = "created" BY <1>1, <1>9 DEF LInv, DInv, OpInv, Committed
    <2>2. \A i : Unborn(i)' BY <1>7 DEF Unborn
    <2>3. Pending' BY <1>1, <2>1, <2>2 DEF Pending
    <2> QED BY <1>1, <1>5, <1>6, <1>9, <2>3 DEF ListsInv
  <1> QED BY <1>8, <1>9

LEMMA DeleteKeepsLists ==
  ASSUME LInv, DeleteSucceeded
  PROVE  Shape' /\ (socket' => ListsInv')
  <1>1. /\ Committed /\ op.kind = "delete" /\ op' = NoOp /\ UNCHANGED <<server, events, socket>>
        /\ Cleanup(op.id)
    BY DEF DeleteSucceeded, Answered, Committed, world, NoOp
  <1>2. /\ DOMAIN lists' = Lists /\ DOMAIN fetch' = Lists
        /\ \A l \in Lists : /\ fetch'[l] \in {fetch[l], NoLists, None}
                            /\ Told(l)' => Fetching(l)'
    BY <1>1, CleanedUp DEF LInv
  <1>3. Shape' BY <1>1, <1>2 DEF Shape
  <1> SUFFICES ASSUME socket PROVE ListsInv'
    BY <1>1, <1>3
  <1>4. FetchInv /\ ~ Unanswered' BY <1>1 DEF LInv, ListsInv, Unanswered
  <1>5. FetchInv' BY <1>1, <1>2, <1>4, FetchKept
  <1>6. AtRest' BY <1>2 DEF AtRest
  <1>7. events # << >> => Head(events).kind = "deleted"
    BY <1>1 DEF LInv, DInv, OpInv, Committed
  <1>8. Pending' BY <1>1, <1>7 DEF Pending
  <1> QED BY <1>4, <1>5, <1>6, <1>8 DEF ListsInv

\* An issue that is what the server has may be measured by itself.
LEMMA AptSame ==
  ASSUME NEW i \in Issues, NEW e \in Entity, server[i] = e, NEW changed,
         changed \subseteq {"status", "assignee"}
  PROVE  Apt(server, server, i, e, changed, e)
  <1>1. Spread(e, e) = e BY Whole
  <1>2. changed \subseteq DOMAIN e \cap {"status", "assignee"} BY DEF Entity
  <1> QED BY <1>1, <1>2 DEF Apt, OnlyAt

\* An update is answered, before its event or after it: what the server
\* returned is measured by itself, which changes no list that is right.
LEMMA UpdateKeepsLists ==
  ASSUME LInv, DInv', UpdateSucceeded
  PROVE  Shape' /\ (socket' => ListsInv')
  <1> PICK i, e : i = op.id /\ e = op.issue OBVIOUS
  <1> DEFINE changed == IssueChangedDims(op.patch, e)
             c == ApplyIssueChange(i, e, changed, e)
             drifted == c.stale \cup op.stale
  <1>1. /\ Committed /\ op.kind = "update" /\ op' = NoOp /\ UNCHANGED <<server, events, socket>>
        /\ Write(c.lists, drifted) /\ detail' = c.detail
        /\ drift' = drift \cup Unseen(drifted, "missed")
    BY DEF UpdateSucceeded, Answered, Committed, world, NoOp
  <1>2. /\ Shape /\ DOMAIN lists = Lists /\ i \in Issues /\ e \in Entity /\ server[i] = e
        /\ Typed(server)
    BY <1>1 DEF LInv, Shape, DInv, OpInv, Committed, Typed
  <1>3. DOMAIN c.lists \subseteq Lists /\ DOMAIN Spread(lists, c.lists) = Lists
    BY <1>2, AppliedDomain
  <1>4. changed \subseteq {"status", "assignee"} BY DEF IssueChangedDims
  <1>5. detail' = IF detail[i] = None THEN detail ELSE [detail EXCEPT ![i] = Spread(@, e)]
    BY <1>1, <1>2, DetailPatched
  <1>6. \A l \in Lists : lists[l] = None => Spread(lists, c.lists)[l] = None
    BY <1>2, NotCached
  <1>7. Apt(server, server, i, e, changed, e) BY <1>2, <1>4, AptSame
  <1>8. \A l \in Lists : lists[l] # None /\ Coh(server, l, lists[l]) =>
          LET d == Spread(lists, c.lists)[l] IN
          /\ l \in c.stale \/ Coh(server, l, d)
          /\ l = "board" => Coh(server, l, d) \/ ~ Loaded(d, i)
    <2>1. \A l \in Lists : Said(l, i, server[i], server[i], changed)
      BY SameAssignee DEF Said
    <2> QED BY <1>2, <1>7, <2>1, ChangeApplied
  <1>9. "board" \in Lists /\ lists["board"] # None /\ ~ Loaded(lists["board"], i) =>
          Spread(lists, c.lists)["board"] = lists["board"]
    BY <1>2, BoardSkips
  <1> HIDE DEF c, changed
  <1>10. lists' = Spread(lists, c.lists) BY <1>1 DEF Write
  <1>11. /\ DOMAIN lists' = Lists /\ DOMAIN fetch' = Lists
         /\ \A l \in Lists : /\ fetch'[l] \in {fetch[l], NoLists, None}
                             /\ Fetching(l) => Fetching(l)'
    BY <1>1, <1>2, <1>3, Written
  <1>12. Shape' BY <1>1, <1>11 DEF Shape
  <1> SUFFICES ASSUME socket PROVE ListsInv'
    BY <1>1, <1>12
  <1>13. ListsInv /\ FetchInv /\ ~ Unanswered /\ ~ Unanswered'
    BY <1>1 DEF LInv, ListsInv, Unanswered, Committed
  <1>14. FetchInv' BY <1>1, <1>11, <1>13, FetchKept
  <1>15. \A l \in Lists : Told(l)' => Told(l)
    BY <1>1, <1>6, <1>10 DEF Told, Steady
  <1>16. ASSUME NEW l \in Lists, Told(l)', l \in drifted PROVE Fetching(l)'
    <2>1. Unseen(drifted, "missed") \subseteq drift' BY <1>1
    <2> HIDE DEF drifted
    <2> QED BY <1>1, <1>2, <1>3, <1>16, <2>1, Asked
  <1>17. ASSUME NEW l \in Lists, Told(l)',
                Fetching(l) \/ Good(l) \/ (Committed /\ l \in op.stale)
         PROVE  Fetching(l)' \/ Good(l)'
    <2>1. CASE Fetching(l) BY <1>11, <2>1
    <2>2. CASE l \in op.stale BY <1>16, <1>17, <2>2
    <2>3. CASE Good(l)
      <3>1. l \in c.stale \/ Coh(server, l, lists'[l])
        BY <1>8, <1>10, <1>15, <1>17, <2>3 DEF Good, Told
      <3> QED BY <1>1, <1>16, <1>17, <3>1 DEF Good
    <2> QED BY <1>17, <2>1, <2>2, <2>3
  <1>18. CASE events = << >>
    <2>1. AtRest BY <1>13, <1>18 DEF ListsInv
    <2>2. AtRest' BY <1>1, <1>15, <1>17, <2>1 DEF AtRest, Excused
    <2> QED BY <1>1, <1>13, <1>14, <1>18, <2>2, QuietlyKept
  <1>19. CASE events # << >>
    <2>1. Head(events).kind = "updated" /\ Head(events).id = i
      BY <1>1, <1>19 DEF LInv, DInv, OpInv, Committed
    <2> PICK ch : ch = Head(events).changed OBVIOUS
    <2>2. PICK old \in Entity : Untold(i, old, ch)
      BY <1>13, <1>19, <2>1 DEF ListsInv, Pending
    <2>3. old = e BY <1>1, <1>2, <2>2 DEF Untold, Committed
    <2>4. Was(i, old) = server /\ Was(i, old)' = server
      BY <1>1, <1>2, <2>3 DEF Was, Typed
    <2>5. \A l \in Lists : Told(l)' => Fetching(l)' \/ Coh(server, l, lists'[l])
      BY <1>1, <1>15, <1>17, <2>2, <2>4 DEF Untold, Good
    <2>6. ASSUME "board" \in Lists, Told("board")'
          PROVE  Coh(server, "board", lists'["board"]) \/ ~ Loaded(lists'["board"], i)
      <3>1. Told("board") BY <1>15, <2>6
      <3>2. Coh(server, "board", lists["board"]) \/ ~ Loaded(lists["board"], i)
        BY <2>2, <2>4, <2>6, <3>1 DEF Untold
      <3> QED BY <1>8, <1>9, <1>10, <2>6, <3>1, <3>2 DEF Told
    <2>7. detail'[i] \in {None, old}
      <3>1. detail[i] \in {None, e} /\ detail \in [Issues -> Entity \cup {None}]
        BY <1>1, <1>2 DEF LInv, DInv, DetailsInv, Settled
      <3>2. Spread(e, e) = e BY <1>2, Whole
      <3> QED BY <1>2, <1>5, <2>3, <3>1, <3>2
    <2>8. Untold(i, old, ch)'
      BY <1>1, <1>2, <1>15, <2>2, <2>3, <2>4, <2>5, <2>6, <2>7 DEF Untold
    <2>9. Pending' BY <1>1, <2>1, <2>8 DEF Pending
    <2> QED BY <1>1, <1>13, <1>14, <1>19, <2>9 DEF ListsInv
  <1> QED BY <1>18, <1>19

\* The event at hand, which is the only one under way.
LEMMA TheEvent ==
  ASSUME LInv, NEW kind, Received(kind)
  PROVE  /\ events # << >> /\ Head(events).kind = kind /\ Truthful(Head(events))
         /\ events' = << >> /\ UNCHANGED <<server, socket, op, mounted>>
         /\ ~ Unanswered /\ ~ Unanswered' /\ Committed' = Committed
  <1>1. PICK e : events = <<e>> /\ Truthful(e)
    BY DEF Received, LInv, DInv, EventsInv
  <1>2. Head(events) = e /\ events # << >> /\ Tail(events) = << >> BY <1>1, One
  <1>3. ~ Unanswered BY <1>2 DEF LInv, DInv, OpInv, Unanswered
  <1> QED BY <1>1, <1>2, <1>3 DEF Received, Unanswered, Committed

\* The three events.
LEMMA DeletedKeepsLists ==
  ASSUME LInv, OnIssueDeleted
  PROVE  Shape' /\ (socket' => ListsInv')
  <1>1. Received("deleted") /\ Cleanup(Head(events).id) BY DEF OnIssueDeleted
  <1>2. events' = << >> /\ UNCHANGED <<server, socket, op>> /\ ~ Unanswered /\ ~ Unanswered'
    BY <1>1, TheEvent
  <1>3. /\ DOMAIN lists' = Lists /\ DOMAIN fetch' = Lists
        /\ \A l \in Lists : /\ fetch'[l] \in {fetch[l], NoLists, None}
                            /\ Told(l)' => Fetching(l)'
    BY <1>1, CleanedUp DEF LInv
  <1>4. Shape' BY <1>2, <1>3 DEF LInv, Shape
  <1> SUFFICES ASSUME socket PROVE ListsInv'
    BY <1>2, <1>4
  <1>5. ListsInv /\ FetchInv BY DEF LInv, ListsInv
  <1>6. FetchInv' BY <1>2, <1>3, <1>5, FetchKept
  <1>7. AtRest' BY <1>3 DEF AtRest
  <1> QED BY <1>2, <1>5, <1>6, <1>7, QuietlyKept

\* A new issue joins its column of the board.
LEMMA AddedToBoard ==
  ASSUME NEW srv, NEW new, NEW i \in Issues, OnlyAt(srv, new, i), srv[i] = None,
         new[i] \in Entity, NEW data, Coh(srv, "board", data)
  PROVE  Coh(new, "board", AddIssueToBuckets(data, i, new[i]))
  <1> DEFINE t == new[i].status
             d == AddIssueToBuckets(data, i, new[i])
  <1>1. data \in [Shown -> Bucket] BY DEF Coh
  <1>2. ASSUME NEW s \in Shown
        PROVE  /\ Right(srv, "board", s, data[s]) /\ CardsOf(data[s], i) = {}
               /\ ~ In(srv, "board", s, i)
    <2>1. Right(srv, "board", s, data[s]) /\ ~ In(srv, "board", s, i) BY DEF Coh, In
    <2> QED BY <2>1, TheCard
  <1>3. d = IF t \notin Shown THEN data
            ELSE [data EXCEPT ![t] = [cards |-> data[t].cards \cup {Card(i, new[i])},
                                      total |-> data[t].total + 1]]
    BY <1>2 DEF AddIssueToBuckets
  <1>4. \A s \in Shown :
          d[s] = IF s = t THEN [cards |-> data[s].cards \cup {Card(i, new[i])},
                                total |-> data[s].total + 1]
                 ELSE data[s]
    BY <1>1, <1>3
  <1>5. DOMAIN d = Shown /\ d = [s \in Shown |-> d[s]] BY <1>1, <1>3
  <1> HIDE DEF d
  <1>6. ASSUME NEW s \in Shown PROVE Right(new, "board", s, d[s])
    <2>1. new[i] # None BY CacheAssumption
    <2>2. CASE s = t
      <3>1. In(new, "board", s, i) BY <2>1, <2>2 DEF In
      <3>2. Right(new, "board", s, [cards |-> data[s].cards \cup {Card(i, new[i])},
                                    total |-> data[s].total + 1])
        BY <1>2, <3>1, Joins
      <3> QED BY <1>4, <2>2, <3>2
    <2>3. CASE s # t
      <3>1. ~ In(new, "board", s, i) BY <2>3 DEF In
      <3>2. Right(new, "board", s, data[s]) BY <1>2, <3>1, Untouched
      <3> QED BY <1>4, <2>3, <3>2
    <2> QED BY <2>2, <2>3
  <1>7. \A s \in Shown : d[s] \in Bucket BY <1>6 DEF Right
  <1>8. d \in [Shown -> Bucket] BY <1>5, <1>7
  <1> QED BY <1>6, <1>8 DEF Coh, d

\* A created issue that a refetch has brought is not added again.
LEMMA AlreadyThere ==
  ASSUME NEW srv, NEW i \in Issues, srv[i] \in Entity, NEW l, NEW data, Coh(srv, l, data),
         Loaded(data, i)
  PROVE  AddIssueToBuckets(data, i, srv[i]) = data
  <1>1. CardsOf(data[srv[i].status], i) # {} BY Here
  <1> QED BY <1>1 DEF AddIssueToBuckets

LEMMA CreatedKeepsLists ==
  ASSUME LInv, OnIssueCreated
  PROVE  Shape' /\ (socket' => ListsInv')
  <1> PICK e, i : e = Head(events) /\ i = e.id OBVIOUS
  <1> DEFINE new == IF "board" \in Cached
                    THEN [l \in {"board"} |-> AddIssueToBuckets(lists[l], e.id, e.issue)]
                    ELSE NoLists
             S == Known \ {"board"}
             again == "board" \in Cached \cap refetched /\ ~ Loaded(lists["board"], e.id)
  <1>1. /\ Received("created") /\ Write(new, S)
        /\ drift' = drift \cup Unseen(Cached \ {"board"}, "missed")
                      \cup IF again THEN {<<"board", "twice">>} ELSE {}
    BY DEF OnIssueCreated
  <1>2. /\ e.kind = "created" /\ Truthful(e) /\ events # << >>
        /\ events' = << >> /\ UNCHANGED <<server, socket, op>> /\ ~ Unanswered /\ ~ Unanswered'
    BY <1>1, TheEvent
  <1>3. /\ Shape /\ DOMAIN new \subseteq Cached \cap {"board"} /\ Cached \subseteq Lists
        /\ "board" \in Cached => new["board"] = AddIssueToBuckets(lists["board"], i, e.issue)
    BY NoColumns DEF LInv, Cached
  <1> HIDE DEF new
  <1>4. /\ DOMAIN lists' = Lists /\ DOMAIN fetch' = Lists
        /\ \A l \in Lists : /\ lists'[l] = IF l \in DOMAIN new THEN new[l] ELSE lists[l]
                            /\ fetch'[l] \in {fetch[l], NoLists, None}
                            /\ Fetching(l) => Fetching(l)'
    BY <1>1, <1>3, Written
  <1>5. Shape' BY <1>2, <1>4 DEF LInv, Shape
  <1> SUFFICES ASSUME socket PROVE ListsInv'
    BY <1>2, <1>5
  <1>6. ListsInv /\ FetchInv /\ Unborn(i) BY <1>2 DEF LInv, ListsInv, Pending
  <1>7. FetchInv' BY <1>2, <1>4, <1>6, FetchKept
  <1>8. ASSUME NEW l \in Lists, l # "board", Told(l)' PROVE Fetching(l)'
    <2>1. l \in Cached BY <1>3, <1>4, <1>8 DEF Told, Cached
    <2>2. l \in S /\ l \in Cached \ {"board"} BY <1>8, <2>1 DEF Known, Cached
    <2>3. Unseen(Cached \ {"board"}, "missed") \subseteq drift' BY <1>1
    <2>4. DOMAIN new \subseteq Lists BY <1>3
    <2> HIDE DEF S
    <2> QED BY <1>1, <1>3, <1>8, <2>2, <2>3, <2>4, Asked
  <1>9. ASSUME "board" \in Lists, Told("board")' PROVE Fetching("board")' \/ Good("board")'
    <2>1. "board" \in Cached /\ lists["board"] # None BY <1>3, <1>4, <1>9 DEF Told, Cached
    <2>2. Told("board") /\ ~ again BY <1>1, <1>9, <2>1 DEF Told, Steady
    <2>3. lists'["board"] = AddIssueToBuckets(lists["board"], i, e.issue)
      <3>1. "board" \in DOMAIN new BY <1>1, <2>1 DEF new
      <3> QED BY <1>3, <1>4, <1>9, <2>1, <3>1
    <2>4. i \in Issues /\ e.issue \in Entity /\ server[i] = e.issue
      BY <1>2 DEF Truthful
    <2>5. CASE Fetching("board") BY <1>4, <1>9, <2>5
    <2>6. CASE Coh(Was(i, None), "board", lists["board"])
      <3>1. OnlyAt(Was(i, None), server, i) /\ Was(i, None)[i] = None
        BY <2>4 DEF Was, OnlyAt, LInv, DInv
      <3>2. Coh(server, "board", AddIssueToBuckets(lists["board"], i, server[i]))
        BY <2>4, <2>6, <3>1, AddedToBoard
      <3> QED BY <1>2, <2>3, <2>4, <3>2 DEF Good
    <2>7. CASE Good("board") /\ "board" \in refetched
      <3>1. Loaded(lists["board"], i) BY <2>1, <2>2, <2>7
      <3>2. AddIssueToBuckets(lists["board"], i, server[i]) = lists["board"]
        BY <2>4, <2>7, <3>1, AlreadyThere DEF Good
      <3> QED BY <1>2, <2>3, <2>4, <2>7, <3>2, GoodSame
    <2> QED BY <1>6, <1>9, <2>2, <2>5, <2>6, <2>7 DEF Unborn
  <1>10. AtRest' BY <1>8, <1>9 DEF AtRest
  <1> QED BY <1>2, <1>6, <1>7, <1>10, QuietlyKept

\* Unless the board is known to be out of step, what an update is measured by is
\* the issue as the client has it.
LEMMA Measured ==
  ASSUME NEW i \in Issues, NEW old \in Entity, NEW changed, Untold(i, old, changed),
         ~ OutOfStep(i), Typed(server)
  PROVE  CachedIssue(i) \in {None, old}
  <1>1. CASE detail[i] # None BY <1>1 DEF CachedIssue, Untold
  <1>2. CASE detail[i] = None /\ "board" \in Cached /\ Loaded(lists["board"], i)
    <2>1. Told("board") /\ "board" \in Lists BY <1>2 DEF OutOfStep, Told, Steady, Cached
    <2>2. Coh(Was(i, old), "board", lists["board"]) BY <1>2, <2>1 DEF Untold
    <2>3. Was(i, old)[i] = old BY DEF Was, Typed
    <2>4. CardIn(lists["board"], i) = Card(i, old) BY <1>2, <2>2, <2>3, Here
    <2>5. CachedIssue(i) = [status |-> old.status, assignee |-> old.assignee]
      BY <1>2, <2>4 DEF CachedIssue, Card
    <2> QED BY <2>5 DEF Entity
  <1>3. CASE detail[i] = None /\ ~ ("board" \in Cached /\ Loaded(lists["board"], i))
    BY <1>3 DEF CachedIssue
  <1> QED BY <1>1, <1>2, <1>3

\* An update is told: lists that have the issue as it was get it as it is.
LEMMA UpdatedKeepsLists ==
  ASSUME LInv, OnIssueUpdated
  PROVE  Shape' /\ (socket' => ListsInv')
  <1> PICK e, i, base : e = Head(events) /\ i = e.id /\ base = CachedIssue(i) OBVIOUS
  <1> DEFINE c == ApplyIssueChange(i, e.issue, e.changed, base)
  <1>1. /\ Received("updated") /\ Write(c.lists, c.stale)
        /\ drift' = drift \cup Unseen(c.stale, "missed")
                      \cup IF OutOfStep(i) THEN Cached \X {"missed"} ELSE {}
    BY DEF OnIssueUpdated
  <1>2. /\ e.kind = "updated" /\ Truthful(e) /\ events # << >>
        /\ events' = << >> /\ UNCHANGED <<server, socket, op>> /\ ~ Unanswered /\ ~ Unanswered'
        /\ Committed' = Committed
    BY <1>1, TheEvent
  <1>3. /\ Shape /\ DOMAIN lists = Lists /\ Typed(server)
        /\ i \in Issues /\ e.issue \in Entity /\ server[i] = e.issue
        /\ e.changed \subseteq {"status", "assignee"}
    BY <1>2 DEF LInv, Shape, DInv, Typed, Truthful
  <1>4. DOMAIN c.lists \subseteq Lists BY <1>3, AppliedDomain
  <1>5. /\ DOMAIN lists' = Lists /\ DOMAIN fetch' = Lists
        /\ \A l \in Lists : /\ fetch'[l] \in {fetch[l], NoLists, None}
                            /\ Fetching(l) => Fetching(l)'
    BY <1>1, <1>3, <1>4, Written
  <1>6. Shape' BY <1>2, <1>5 DEF LInv, Shape
  <1> SUFFICES ASSUME socket PROVE ListsInv'
    BY <1>2, <1>6
  <1>7. ListsInv /\ FetchInv BY DEF LInv, ListsInv
  <1>8. FetchInv' BY <1>2, <1>5, <1>7, FetchKept
  <1>9. PICK old \in Entity : Untold(i, old, e.changed)
    BY <1>2, <1>7 DEF ListsInv, Pending
  <1> DEFINE srv == Was(i, old)
  <1>10. OnlyAt(srv, server, i) /\ srv[i] = old BY <1>3 DEF Was, OnlyAt, Typed
  <1>11. ASSUME ~ OutOfStep(i) PROVE Apt(srv, server, i, e.issue, e.changed, base)
    <2>1. base \in {None, old} BY <1>3, <1>9, <1>11, Measured
    <2>2. Spread(old, e.issue) = e.issue BY <1>3, Whole
    <2>3. e.changed \subseteq DOMAIN e.issue \cap {"status", "assignee"} BY <1>3 DEF Entity
    <2>4. old.status # server[i].status => "status" \in e.changed BY <1>9 DEF Untold
    <2> HIDE DEF srv
    <2> QED BY <1>3, <1>10, <2>1, <2>2, <2>3, <2>4 DEF Apt
  <1>12. ASSUME NEW l \in Lists, Told(l)' PROVE Fetching(l)' \/ Good(l)' \/ Excused(l)'
    <2>1. lists' = Spread(lists, c.lists) BY <1>1 DEF Write
    <2>2. lists[l] # None BY <1>3, <1>12, <2>1, NotCached DEF Told
    <2>3. Told(l) /\ ~ OutOfStep(i) BY <1>1, <1>12, <2>2 DEF Told, Steady, Cached
    <2>4. Unseen(c.stale, "missed") \subseteq drift' BY <1>1
    <2>5. CASE Fetching(l) BY <1>5, <2>5
    <2>6. CASE Coh(srv, l, lists[l])
      <3>1. Apt(srv, server, i, e.issue, e.changed, base) BY <1>11, <2>3
      <3>1a. Said(l, i, srv[i], server[i], e.changed) BY <1>9, <1>10, <2>3 DEF Untold
      <3> HIDE DEF srv
      <3>2. l \in c.stale \/ Coh(server, l, Spread(lists, c.lists)[l])
        BY <1>3, <2>2, <2>6, <3>1, <3>1a, ChangeApplied
      <3>3. CASE l \in c.stale
        <4> HIDE DEF c
        <4> QED BY <1>1, <1>3, <1>4, <1>12, <2>4, <3>3, Asked
      <3>4. CASE Coh(server, l, lists'[l]) BY <1>2, <3>4 DEF Good
      <3> QED BY <2>1, <3>2, <3>3, <3>4
    <2>7. CASE Committed /\ l \in op.stale
      <3>1. op.kind = "update" BY <1>2, <2>7 DEF LInv, DInv, OpInv, Committed
      <3> QED BY <1>2, <2>7, <3>1 DEF Excused
    <2> QED BY <1>9, <2>3, <2>5, <2>6, <2>7 DEF Untold
  <1>13. AtRest' BY <1>12 DEF AtRest
  <1> QED BY <1>2, <1>7, <1>8, <1>13, QuietlyKept

\* Every step.
LEMMA ListsKept ==
  ASSUME ~ Overlap
  PROVE  LInv /\ [Next]_vars => LInv'
  <1> SUFFICES ASSUME LInv, [Next]_vars PROVE Shape' /\ (socket' => ListsInv')
    BY DetailsKept DEF LInv
  <1>1. DInv' BY DetailsKept DEF LInv
  <1>2. CASE UNCHANGED vars BY <1>2, ListsIdle
  <1>3. ASSUME Mutation PROVE Shape' /\ (socket' => ListsInv')
    BY <1>1, <1>3, SendKeepsLists, CommitKeepsLists, RejectKeepsLists, UpdateKeepsLists,
       FailureKeepsLists, CreateKeepsLists, DeleteKeepsLists DEF Mutation
  <1>4. ASSUME Event PROVE Shape' /\ (socket' => ListsInv')
    BY <1>4, UpdatedKeepsLists, CreatedKeepsLists, DeletedKeepsLists DEF Event
  <1> QED
    BY <1>2, <1>3, <1>4, ScreenKeepsLists, RemoteKeepsLists, SocketKeepsLists DEF Next

\* Once a change has settled, with its response, its event and the refetches it
\* asked for in any order, every cached list that no known cause has put out of
\* step shows issues that belong to it, as they are, and counts them right,
\* although it was patched and not fetched.
THEOREM ListsSafe ==
  ASSUME ~ Overlap
  PROVE  Spec => []ListsSettle
  <1>1. LInv => ListsSettle
    <2> SUFFICES ASSUME LInv, Quiet, socket, NEW l \in Cached, Steady(l) PROVE Coherent(l)
      BY DEF ListsSettle, Steady
    <2>1. l \in Lists /\ Good(l) /\ Typed(server)
      BY QuietLists DEF LInv, DInv, Typed, Told, Cached
    <2>2. \A s \in Shown : Members(l, s) = Of(server, l, s) BY <2>1, MembersOf
    <2> QED BY <2>1, <2>2 DEF Coherent, Good, Coh, Right, Bucket, CardSet, Of
  <1> QED BY ListsStart, ListsKept, <1>1, PTL DEF Spec

=============================================================================
