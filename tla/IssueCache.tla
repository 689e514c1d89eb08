---------------------------- MODULE IssueCache ----------------------------
(***************************************************************************)
(* The client's cache of issue lists and details, patched instead of       *)
(* refetched: packages/core/issues (cache-coordinator.ts, cache-helpers.ts,*)
(* surface/membership.ts, mutations.ts, ws-updaters.ts, delete-cache.ts)   *)
(* and realtime/use-realtime-sync.ts, over the query client of TanStack    *)
(* Query with staleTime: Infinity.                                         *)
(*                                                                         *)
(* A list holds, per status column, the cards of its loaded window and the *)
(* server's total.  One change is followed through everything it sets off: *)
(* the optimistic patch, the commit, the event and the response in either  *)
(* order, the rollback, the refetches, column by column.                   *)
(***************************************************************************)
EXTENDS Naturals, Sequences, FiniteSets, FiniteSetsExt

CONSTANTS
  Lists,      \* of "board" (the workspace), "mine" (my:assigned) and "all" (my:all)
  Issues,     \* numbered by position
  Columns,    \* PAGINATED_STATUSES, in order
  Hidden,     \* statuses no list shows (cancelled)
  Created,    \* the issues this user created
  Initially,  \* bound on the assignees that issues have at the start
  Opened,     \* bound on the issues whose page is opened
  PageSize,   \* ISSUE_PAGE_SIZE
  MaxChanges, \* bound on the changes anybody makes
  Overlap,    \* may a change begin before the last one has settled?
  None        \* no such issue, not cached, not fetching

Shown == {Columns[k] : k \in DOMAIN Columns}
Statuses == Shown \cup Hidden
Assignees == {"me", "other", "nobody"}
Entity == [status : Statuses, assignee : Assignees]
Patches == [status : Statuses] \cup [assignee : Assignees]
CardSet == [id : Issues, status : Shown, assignee : Assignees]
Bucket == [cards : SUBSET CardSet, total : Nat]
NoLists == << >>
NoOp == [kind |-> "none"]

ASSUME CacheAssumption ==
  /\ Lists \subseteq {"board", "mine", "all"}
  /\ Issues \subseteq Nat \ {0} /\ IsFiniteSet(Issues)
  /\ Created \subseteq Issues /\ Opened \subseteq Issues
  /\ Initially \subseteq Assignees
  /\ PageSize \in Nat \ {0}
  /\ MaxChanges \in Nat
  /\ Overlap \in BOOLEAN
  /\ DOMAIN Columns \subseteq Nat
  /\ \A j, k \in DOMAIN Columns : Columns[j] = Columns[k] => j = k
  /\ None \notin Entity /\ None # NoLists
  /\ \A S \in SUBSET Shown : None \notin [S -> Bucket]

\* { ...base, ...patch }
Spread(base, patch) ==
  [f \in DOMAIN base \cup DOMAIN patch |-> IF f \in DOMAIN patch THEN patch[f] ELSE base[f]]

VARIABLES
  server,     \* the issues as committed
  lists,      \* the cached lists
  stale,      \* lists whose query is invalidated
  fetch,      \* per list, the columns the server has answered; or not fetching
  mounted,    \* lists on the screen
  detail,     \* the cached details
  op,         \* this client's mutation in flight
  events,     \* issue events on the socket
  socket,     \* is the socket connected?
  refetched,  \* (history) lists fetched since the last commit
  changes,    \* (bound) changes begun
  drift       \* (history) lists that three known causes have put out of step

vars == <<server, events, socket, lists, stale, fetch, mounted, detail, op, changes, refetched, drift>>
world == <<server, events, socket, changes>>

TypeOK ==
  /\ server \in [Issues -> Entity \cup {None}]
  /\ \A l \in Lists : lists[l] # None =>
       \A s \in Shown : /\ lists[l][s].total \in 0..Cardinality(Issues) + 1
                        /\ \A x \in lists[l][s].cards : x.id \in Issues /\ x.status = s
  /\ stale \subseteq Lists /\ mounted \subseteq Lists
  /\ \A l \in Lists : fetch[l] # None => DOMAIN fetch[l] \subseteq Shown
  /\ \A i \in Issues : detail[i] = None \/ detail[i] \in Entity
  /\ changes \in 0..MaxChanges
  /\ op = NoOp \/ op.kind \in {"update", "create", "delete"}
  /\ socket \in BOOLEAN
  /\ refetched \subseteq Lists /\ drift \subseteq Lists \X {"missed", "twice", "unassigned"}

-----------------------------------------------------------------------------
(* Lists (cache-helpers.ts)                                                *)

Card(i, e) == [id |-> i, status |-> e.status, assignee |-> e.assignee]
CardsOf(b, i) == {x \in b.cards : x.id = i}

Loaded(data, i) == \E s \in Shown : CardsOf(data[s], i) # {}
\* findIssueLocation: the first column that has the issue
Location(data, i) ==
  Columns[Min({k \in DOMAIN Columns : CardsOf(data[Columns[k]], i) # {}})]
CardIn(data, i) == CHOOSE x \in CardsOf(data[Location(data, i)], i) : TRUE

Less(n) == IF n = 0 THEN 0 ELSE n - 1

RemoveIssueFromBuckets(data, i) ==
  [data EXCEPT ![Location(data, i)] =
     [cards |-> @.cards \ CardsOf(@, i), total |-> Less(@.total)]]

AddIssueToBuckets(data, i, e) ==
  IF e.status \notin Shown \/ CardsOf(data[e.status], i) # {} THEN data
  ELSE [data EXCEPT ![e.status] =
          [cards |-> @.cards \cup {Card(i, e)}, total |-> @.total + 1]]

\* The totals of one issue beyond the window that went from one column to another.
MoveBucketTotal(data, from, to) ==
  [s \in Shown |-> IF from = to THEN data[s]
                   ELSE IF s = from THEN [data[s] EXCEPT !.total = Less(@)]
                   ELSE IF s = to THEN [data[s] EXCEPT !.total = @ + 1]
                   ELSE data[s]]

DecrementBucketTotal(data, s) ==
  IF s \in Shown THEN [data EXCEPT ![s].total = Less(@)] ELSE data

PatchIssueInBuckets(data, i, patch) ==
  LET from == Location(data, i)
      card == Spread(CardIn(data, i), patch)
  IN [s \in Shown |->
        IF s = from /\ s = card.status
        THEN [data[s] EXCEPT !.cards = (@ \ CardsOf(data[s], i)) \cup {card}]
        ELSE IF s = from
        THEN [cards |-> data[s].cards \ CardsOf(data[s], i), total |-> Less(data[s].total)]
        ELSE IF s = card.status
        THEN [cards |-> data[s].cards \cup {card}, total |-> data[s].total + 1]
        ELSE data[s]]

-----------------------------------------------------------------------------
(* What the server answers                                                 *)

Live == {i \in Issues : server[i] # None}
InList(l, i) ==
  CASE l = "board" -> TRUE
    [] l = "mine" -> server[i].assignee = "me"
    [] l = "all" -> server[i].assignee = "me" \/ i \in Created

\* The first n of a set of positions.
Page(S, n) == {i \in S : Cardinality({j \in S : j < i}) < n}

InColumn(S, s) == {i \in S \cap Live : server[i].status = s}
Members(l, s) == {i \in InColumn(Issues, s) : InList(l, i)}

\* fetchFirstPages, one request per column.  my:all merges the first pages of
\* its relations, and counts what it has merged.
Answer(l, s) ==
  LET assigned == {i \in InColumn(Issues, s) : server[i].assignee = "me"}
      merged == Page(assigned, PageSize) \cup Page(InColumn(Created, s), PageSize)
      ids == IF l = "all" THEN merged ELSE Page(Members(l, s), PageSize)
  IN [cards |-> {Card(i, server[i]) : i \in ids},
      total |-> IF l = "all" THEN Cardinality(merged) ELSE Cardinality(Members(l, s))]

-----------------------------------------------------------------------------
(* Membership and the coordinator's rules                                  *)

\* issueMatchesListFilter, of an entity that may lack fields
Matches(e, l) ==
  CASE l = "board" -> "yes"
    [] l = "mine" -> IF "assignee" \notin DOMAIN e THEN "unknown"
                     ELSE IF e.assignee = "me" THEN "yes" ELSE "no"
    [] l = "all" -> "unknown"

ListFilterDependsOn(l, changed) == l # "board" /\ "assignee" \in changed

\* The fields of a patch that differ from the base, all of them without one.
IssueChangedDims(patch, base) ==
  {f \in DOMAIN patch \cap {"status", "assignee"} : base = None \/ base[f] # patch[f]}

Over(patch, base) == IF base = None THEN patch ELSE Spread(base, patch)

\* mutant: an issue that left a list beyond its window is not taken off the total
VerdictKeepsTotal(data, l, i, patch, changed, base) ==
  LET touched == ListFilterDependsOn(l, changed)
      was == IF base = None THEN "unknown" ELSE Matches(base, l)
      is == Matches(Over(patch, base), l)
  IN IF Loaded(data, i)
     THEN IF touched /\ Matches(Spread(CardIn(data, i), patch), l) = "no" THEN "remove" ELSE "patch"
     ELSE IF ~ touched /\ "status" \notin changed THEN "skip"
     ELSE IF is = "no" THEN "skip"
     ELSE IF was = "yes" /\ is = "yes"
     THEN IF "status" \in changed /\ base.status # patch.status THEN "move" ELSE "skip"
     ELSE "refetch"

\* applyIssueChange, for one list: what becomes of it.
Verdict(data, l, i, patch, changed, base) ==
  LET touched == ListFilterDependsOn(l, changed)
      was == IF base = None THEN "unknown" ELSE Matches(base, l)
      is == Matches(Over(patch, base), l)
  IN IF Loaded(data, i)
     THEN IF touched /\ Matches(Spread(CardIn(data, i), patch), l) = "no" THEN "remove" ELSE "patch"
     ELSE IF ~ touched /\ "status" \notin changed THEN "skip"
     ELSE IF was = "no" /\ is = "no" THEN "skip"
     ELSE IF was = "yes" /\ is = "yes"
     THEN IF "status" \in changed /\ base.status # patch.status THEN "move" ELSE "skip"
     ELSE IF was = "yes" /\ is = "no" THEN "leave"
     ELSE "refetch"

Rewritten(data, verdict, i, patch, base) ==
  CASE verdict = "remove" -> RemoveIssueFromBuckets(data, i)
    [] verdict = "patch" -> PatchIssueInBuckets(data, i, patch)
    [] verdict = "move" -> MoveBucketTotal(data, base.status, patch.status)
    [] verdict = "leave" -> DecrementBucketTotal(data, base.status)
    [] OTHER -> data

\* applyIssueChange: the lists it rewrites, with what they were, and those whose
\* server result it cannot know.
ApplyIssueChange(i, patch, changed, base) ==
  LET cached == {l \in Lists : lists[l] # None}
      verdict == [l \in cached |-> Verdict(lists[l], l, i, patch, changed, base)]
      touched == {l \in cached : verdict[l] \notin {"skip", "refetch"}}
  IN [lists |-> [l \in touched |-> Rewritten(lists[l], verdict[l], i, patch, base)],
      prevLists |-> [l \in touched |-> lists[l]],
      stale |-> {l \in cached :
                   verdict[l] \in {"refetch", "move"}
                     \/ (verdict[l] = "patch" /\ l = "all" /\ ListFilterDependsOn(l, changed))},
      detail |-> IF detail[i] = None THEN detail
                 ELSE [detail EXCEPT ![i] = Spread(@, patch)]]

-----------------------------------------------------------------------------
(* The query client                                                        *)

Cached == {l \in Lists : lists[l] # None}
Known == {l \in Lists : lists[l] # None \/ fetch[l] # None}
Unseen(S, cause) == (S \ mounted) \X {cause}

\* setQueryData on the lists of new, which takes them for fresh, then
\* invalidateQueries of S: a list on the screen is fetched (again), another one
\* only marked.
Write(new, S) ==
  /\ lists' = Spread(lists, new)
  /\ stale' = (stale \ DOMAIN new) \cup S
  /\ fetch' = [l \in Lists |-> IF l \in S \cap mounted THEN NoLists ELSE fetch[l]]

Quiet == op = NoOp /\ events = << >> /\ \A l \in Lists : fetch[l] = None
May == Quiet \/ (Overlap /\ Len(events) < 2)

Change == May /\ changes < MaxChanges /\ changes' = changes + 1

\* A query is cancelled: what it fetched is lost, the mark stays.
CancelQueries == fetch' = [l \in Lists |-> None]

Mount(l) ==
  /\ May /\ l \notin mounted
  /\ mounted' = mounted \cup {l}
  /\ fetch' = IF l \in Cached \ stale THEN fetch ELSE [fetch EXCEPT ![l] = NoLists]
  /\ UNCHANGED <<world, lists, stale, detail, op, refetched, drift>>

Unmount(l) ==
  /\ May /\ l \in mounted
  /\ mounted' = mounted \ {l}
  /\ UNCHANGED <<world, lists, stale, fetch, detail, op, refetched, drift>>

\* gcTime, which is minutes
Expire(l) ==
  /\ Quiet /\ l \in Cached \ mounted
  /\ lists' = [lists EXCEPT ![l] = None]
  /\ stale' = stale \ {l}
  /\ drift' = {d \in drift : d[1] # l}
  /\ UNCHANGED <<world, fetch, mounted, detail, op, refetched>>

ColumnAnswered(l, s) ==
  /\ fetch[l] # None /\ s \in Shown \ DOMAIN fetch[l]
  /\ LET got == Spread(fetch[l], [c \in {s} |-> Answer(l, c)])
     IN IF DOMAIN got # Shown
        THEN /\ fetch' = [fetch EXCEPT ![l] = got]
             /\ UNCHANGED <<lists, stale, refetched, drift>>
        ELSE /\ fetch' = [fetch EXCEPT ![l] = None]
             /\ lists' = [lists EXCEPT ![l] = got]
             /\ stale' = stale \ {l}
             /\ refetched' = IF events = << >> THEN {} ELSE refetched \cup {l}
             /\ drift' = IF l \in mounted THEN {d \in drift : d[1] # l} ELSE drift
  /\ UNCHANGED <<world, mounted, detail, op>>

\* useLoadMoreByStatus: the next page, after as many cards as are loaded.
LoadMore(l, s) ==
  /\ May /\ l \in mounted \cap Cached
  /\ LET b == lists[l][s]
         next == Page(Members(l, s), Cardinality(b.cards) + PageSize)
                   \ Page(Members(l, s), Cardinality(b.cards))
         new == {Card(i, server[i]) : i \in {j \in next : CardsOf(b, j) = {}}}
     IN /\ Cardinality(b.cards) < b.total
        /\ lists' = [lists EXCEPT ![l][s] = [cards |-> b.cards \cup new,
                                             total |-> Cardinality(Members(l, s))]]
        /\ stale' = stale \ {l}
  /\ UNCHANGED <<world, fetch, mounted, detail, op, refetched, drift>>

\* An issue's page is opened, or left for longer than gcTime.
OpenDetail(i) ==
  /\ May /\ detail[i] = None /\ i \in Live
  /\ detail' = [detail EXCEPT ![i] = server[i]]
  /\ UNCHANGED <<world, lists, stale, fetch, mounted, op, refetched, drift>>

CloseDetail(i) ==
  /\ May /\ detail[i] # None
  /\ detail' = [detail EXCEPT ![i] = None]
  /\ UNCHANGED <<world, lists, stale, fetch, mounted, op, refetched, drift>>

-----------------------------------------------------------------------------
(* The server commits and tells                                            *)

Tell(event) == events' = IF socket THEN Append(events, event) ELSE events

\* assignee_changed and status_changed: the fields the request carries, and that
\* differ now.  A request that unassigns (both ids null) counts as one without
\* the field.
Flags(i, patch) ==
  {f \in DOMAIN patch : /\ patch[f] # server[i][f]
                        /\ f = "assignee" => patch[f] # "nobody"}

Updated(i, patch) ==
  LET e == Spread(server[i], patch)
  IN /\ server' = [server EXCEPT ![i] = e]
     /\ Tell([kind |-> "updated", id |-> i, issue |-> e, changed |-> Flags(i, patch)])
CreatedIssue(i, e) ==
  /\ server' = [server EXCEPT ![i] = e]
  /\ Tell([kind |-> "created", id |-> i, issue |-> e])
Deleted(i) ==
  /\ server' = [server EXCEPT ![i] = None]
  /\ Tell([kind |-> "deleted", id |-> i])

\* The cached lists that an unassigned issue leaves, untold.
Left(i, patch) ==
  IF Spread(server[i], patch).assignee # "nobody" THEN {}
  ELSE {l \in Cached : InList(l, i) /\ ~ InList(l, i)'}

\* Somebody else, an agent or another tab.
Remote ==
  /\ Change
  /\ \/ \E i \in Live, patch \in Patches :
          Updated(i, patch) /\ drift' = drift \cup Left(i, patch) \X {"unassigned"}
     \/ /\ \/ \E i \in Issues \ (Live \cup Created), e \in Entity : CreatedIssue(i, e)
           \/ \E i \in Live : Deleted(i)
        /\ UNCHANGED drift
  /\ refetched' = {}
  /\ UNCHANGED <<socket, lists, stale, fetch, mounted, detail, op>>

\* Only while it can cost something: a change is still to come, or under way.
Disconnect ==
  /\ socket /\ (changes < MaxChanges \/ op # NoOp \/ events # << >>)
  /\ socket' = FALSE /\ events' = << >> /\ refetched' = {}
  /\ UNCHANGED <<server, changes, lists, stale, fetch, mounted, detail, op, drift>>

\* onReconnect: everything of the workspace is invalidated.
Reconnect ==
  /\ May /\ ~ socket
  /\ socket' = TRUE
  /\ Write(NoLists, Known)
  /\ drift' = drift \cup Unseen(Cached, "missed")
  /\ detail' = [i \in Issues |-> IF detail[i] = None THEN None ELSE server[i]]
  /\ UNCHANGED <<server, events, changes, mounted, op, refetched>>

-----------------------------------------------------------------------------
(* Mutations (mutations.ts)                                                *)

Seen(i) == detail[i] # None \/ \E l \in mounted \cap Cached : Loaded(lists[l], i)

\* useUpdateIssue, onMutate
UpdateIssue(i, patch) ==
  /\ Change /\ op = NoOp /\ Seen(i)
  /\ LET c == ApplyIssueChange(i, patch, IssueChangedDims(patch, detail[i]), detail[i])
     IN /\ lists' = Spread(lists, c.lists)
        /\ stale' = stale \ DOMAIN c.lists
        /\ detail' = c.detail
        /\ op' = [kind |-> "update", id |-> i, patch |-> patch, pc |-> "sent",
                  prevLists |-> c.prevLists, prevDetail |-> detail[i], stale |-> c.stale,
                  issue |-> None]
  /\ CancelQueries
  /\ UNCHANGED <<server, events, socket, mounted, refetched, drift>>

\* useCreateIssue: nothing is shown before the server has answered.
CreateIssue(i, e) ==
  /\ Change /\ op = NoOp /\ i \in Created \ Live
  /\ op' = [kind |-> "create", id |-> i, patch |-> e, pc |-> "sent",
            prevLists |-> NoLists, prevDetail |-> None, stale |-> {}, issue |-> None]
  /\ UNCHANGED <<server, events, socket, lists, stale, fetch, mounted, detail, refetched, drift>>

Pruned(i) ==
  [l \in Cached |-> IF Loaded(lists[l], i) THEN RemoveIssueFromBuckets(lists[l], i) ELSE lists[l]]

\* useDeleteIssue, onMutate
DeleteIssue(i) ==
  /\ Change /\ op = NoOp /\ Seen(i)
  /\ lists' = Spread(lists, Pruned(i))
  /\ stale' = stale \ Cached
  /\ detail' = [detail EXCEPT ![i] = None]
  /\ op' = [kind |-> "delete", id |-> i, patch |-> None, pc |-> "sent",
            prevLists |-> [l \in Cached |-> lists[l]], prevDetail |-> detail[i], stale |-> {},
            issue |-> None]
  /\ CancelQueries
  /\ UNCHANGED <<server, events, socket, mounted, refetched, drift>>

Sent(kind) == op.kind = kind /\ op.pc = "sent"
Answered(kind, pc) == op.kind = kind /\ op.pc = pc

Commit ==
  /\ \/ Sent("update") /\ op.id \in Live /\ Updated(op.id, op.patch)
     \/ Sent("create") /\ CreatedIssue(op.id, op.patch)
     \/ Sent("delete") /\ op.id \in Live /\ Deleted(op.id)
  /\ op' = [op EXCEPT !.pc = "committed", !.issue = server'[op.id]]
  /\ refetched' = {}
  /\ UNCHANGED <<socket, changes, lists, stale, fetch, mounted, detail, drift>>

Reject ==
  /\ op # NoOp /\ op.pc = "sent"
  /\ op' = [op EXCEPT !.pc = "rejected"]
  /\ UNCHANGED <<world, lists, stale, fetch, mounted, detail, refetched, drift>>

\* onSuccess and onSettled of an update: the card is patched with what the
\* server returned.
UpdateSucceeded ==
  /\ Answered("update", "committed")
  /\ LET c == ApplyIssueChange(op.id, op.issue, IssueChangedDims(op.patch, op.issue), op.issue)
         drifted == c.stale \cup op.stale
     IN /\ Write(c.lists, drifted)
        /\ detail' = c.detail
        /\ drift' = drift \cup Unseen(drifted, "missed")
  /\ op' = NoOp
  /\ UNCHANGED <<world, mounted, refetched>>

\* mutant: the detail keeps the optimistic patch
UpdateFailedKeepsDetail ==
  /\ Answered("update", "rejected")
  /\ Write(op.prevLists, op.stale)
  /\ detail' = detail
  /\ drift' = drift \cup Unseen(op.stale, "missed")
  /\ op' = NoOp
  /\ UNCHANGED <<world, mounted, refetched>>

\* onError and onSettled: the snapshots are put back.
UpdateFailed ==
  /\ Answered("update", "rejected")
  /\ Write(op.prevLists, op.stale)
  /\ detail' = IF op.prevDetail = None THEN detail ELSE [detail EXCEPT ![op.id] = op.prevDetail]
  /\ drift' = drift \cup Unseen(op.stale, "missed")
  /\ op' = NoOp
  /\ UNCHANGED <<world, mounted, refetched>>

CreateSucceeded ==
  /\ Answered("create", "committed")
  /\ Write(IF "board" \in Cached
           THEN [l \in {"board"} |-> AddIssueToBuckets(lists[l], op.id, op.issue)] ELSE NoLists,
           Known \cap {"board"})
  /\ drift' = drift \cup Unseen(Cached \cap {"board"}, "missed")
  /\ op' = NoOp
  /\ UNCHANGED <<world, mounted, detail, refetched>>

\* cleanupDeletedIssueCaches
Cleanup(i) ==
  /\ Write(Pruned(i), Known)
  /\ detail' = [detail EXCEPT ![i] = None]
  /\ drift' = drift \cup Unseen(Cached, "missed")

DeleteSucceeded ==
  /\ Answered("delete", "committed")
  /\ Cleanup(op.id)
  /\ op' = NoOp
  /\ UNCHANGED <<world, mounted, refetched>>

\* A create or a delete that fails puts back what it took.
OtherFailed ==
  /\ Answered("create", "rejected") \/ Answered("delete", "rejected")
  /\ Write(op.prevLists, Known \cap {"board"})
  /\ detail' = IF op.prevDetail = None THEN detail ELSE [detail EXCEPT ![op.id] = op.prevDetail]
  /\ drift' = drift \cup Unseen(Cached \cap {"board"}, "missed")
  /\ op' = NoOp
  /\ UNCHANGED <<world, mounted, refetched>>

-----------------------------------------------------------------------------
(* Events (ws-updaters.ts)                                                 *)

Received(kind) ==
  /\ events # << >> /\ Head(events).kind = kind
  /\ events' = Tail(events)
  /\ refetched' = IF events' = << >> THEN {} ELSE refetched
  /\ UNCHANGED <<server, socket, changes, mounted, op>>

\* The cached copy an update is measured against: the detail, else the board's card.
CachedIssue(i) ==
  IF detail[i] # None THEN detail[i]
  ELSE IF "board" \in Cached /\ Loaded(lists["board"], i)
  THEN LET x == CardIn(lists["board"], i) IN [status |-> x.status, assignee |-> x.assignee]
  ELSE None

\* Measured against a card of a board that is out of step, nothing is known.
OutOfStep(i) == detail[i] = None /\ \E cause \in {"missed", "twice"} : <<"board", cause>> \in drift

OnIssueUpdated ==
  /\ Received("updated")
  /\ LET e == Head(events)
         c == ApplyIssueChange(e.id, e.issue, e.changed, CachedIssue(e.id))
     IN /\ Write(c.lists, c.stale)
        /\ detail' = c.detail
        /\ drift' = drift \cup Unseen(c.stale, "missed")
                      \cup IF OutOfStep(e.id) THEN Cached \X {"missed"} ELSE {}

OnIssueCreated ==
  /\ Received("created")
  /\ LET e == Head(events)
         again == "board" \in Cached \cap refetched /\ ~ Loaded(lists["board"], e.id)
     IN /\ Write(IF "board" \in Cached
                 THEN [l \in {"board"} |-> AddIssueToBuckets(lists[l], e.id, e.issue)]
                 ELSE NoLists, Known \ {"board"})
        /\ drift' = drift \cup Unseen(Cached \ {"board"}, "missed")
                      \cup IF again THEN {<<"board", "twice">>} ELSE {}
  /\ UNCHANGED detail

OnIssueDeleted ==
  /\ Received("deleted")
  /\ Cleanup(Head(events).id)

-----------------------------------------------------------------------------
Init ==
  /\ server \in [Issues -> [status : Statuses, assignee : Initially] \cup {None}]
  /\ lists = [l \in Lists |-> None] /\ stale = {} /\ mounted = {}
  /\ fetch = [l \in Lists |-> None]
  /\ detail = [i \in Issues |-> None]
  /\ op = NoOp /\ events = << >> /\ socket = TRUE /\ changes = 0
  /\ refetched = {} /\ drift = {}

Screen ==
  \/ \E l \in Lists : Mount(l) \/ Unmount(l) \/ Expire(l)
  \/ \E l \in Lists, s \in Shown : ColumnAnswered(l, s) \/ LoadMore(l, s)
  \/ \E i \in Opened : OpenDetail(i) \/ CloseDetail(i)
Mutation ==
  \/ \E i \in Issues, patch \in Patches : UpdateIssue(i, patch)
  \/ \E i \in Issues, e \in Entity : CreateIssue(i, e)
  \/ \E i \in Issues : DeleteIssue(i)
  \/ Commit \/ Reject
  \/ UpdateSucceeded \/ UpdateFailed \/ CreateSucceeded \/ DeleteSucceeded \/ OtherFailed
Event == OnIssueUpdated \/ OnIssueCreated \/ OnIssueDeleted

Next == Screen \/ Mutation \/ Event \/ Remote \/ Disconnect \/ Reconnect

Spec == Init /\ [][Next]_vars

-----------------------------------------------------------------------------
(* Properties                                                              *)

Coherent(l) ==
  \A s \in Shown :
    /\ lists[l][s].total = IF l = "all" THEN Cardinality(lists[l][s].cards)
                           ELSE Cardinality(Members(l, s))
    /\ \A x \in lists[l][s].cards :
         x.id \in Members(l, s) /\ x = Card(x.id, server[x.id])

\* cache-coordinator.ts: one change at a time, once its response, its event and
\* the refetches it asked for have come, every cached list shows issues that
\* belong to it, as they are, and counts them right, although it was patched and
\* not fetched.  Three known causes of a drift are set apart: the two that come
\* of missed and repeated news, and the unassignment that the server announces
\* without saying that the assignee changed.
ListsSettle ==
  Quiet /\ socket =>
    \A l \in Cached :
      (\A cause \in {"missed", "twice", "unassigned"} : <<l, cause>> \notin drift) => Coherent(l)

\* The same of an issue's detail, which is the base other lists are measured by.
DetailsSettle == Quiet /\ socket => \A i \in Issues : detail[i] \in {None, server[i]}
=============================================================================
