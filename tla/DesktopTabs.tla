---------------------------- MODULE DesktopTabs ----------------------------
(***************************************************************************)
(* The desktop client's tabs: stores/tab-store.ts, the navigation adapter  *)
(* that every page pushes through (platform/navigation.tsx), the effect    *)
(* that copies a tab's router into the store (hooks/use-tab-router-sync)   *)
(* and the callers that validate, reset and rehydrate the store (App.tsx,  *)
(* workspace-route-layout.tsx).                                            *)
(*                                                                         *)
(* The store is one record, and each of its methods a function from the    *)
(* store to the store: a handler that calls two of them is a composition.  *)
(* A page may push after it was hidden or closed, because its callbacks    *)
(* run when a request settles (delete an issue, archive a squad, leave a   *)
(* workspace); only the visible tab's effects are mounted.                 *)
(***************************************************************************)
EXTENDS Naturals, FiniteSets, SequencesExt

CONSTANTS
  Workspaces,   \* slugs
  Pages,        \* of each workspace the pages that are visited, "issues" among them
  TabIds,       \* tab ids; one is taken again only when nothing shows it
  None

ASSUME TabAssumption ==
  /\ \A w \in Workspaces : "issues" \in Pages[w]
  /\ None \notin Workspaces \cup TabIds

VARIABLES
  store,   \* useTabStore
  shown,   \* the tab whose effects are mounted, None while there is none
  list     \* the cached workspace list, Unfetched until it has arrived

vars == <<store, shown, list>>

Unfetched == None
Place == UNION {[ws : {w}, page : Pages[w]] : w \in Workspaces}
Root == [ws |-> None, page |-> None]       \* "/", the route that renders nothing

DefaultPath(w) == [ws |-> w, page |-> "issues"]

MakeTab(p) == [path |-> p, at |-> p, pinned |-> FALSE]
Gone == MakeTab(Root)
Empty == [active  |-> None,
          tabs    |-> [w \in Workspaces |-> <<>>],
          current |-> [w \in Workspaces |-> None],
          tab     |-> [t \in TabIds |-> Gone]]

Groups(s) == {w \in Workspaces : s.tabs[w] # <<>>}
InGroup(s, w) == ToSet(s.tabs[w])
Live(s) == UNION {InGroup(s, w) : w \in Workspaces}
OwnerOf(s, t) == CHOOSE w \in Workspaces : t \in InGroup(s, w)
GetActiveTab(s) == IF s.active = None THEN None ELSE s.current[s.active]
Unused == TabIds \ (Live(store) \cup {shown})

\* createId; which of the unused ids it gives is all one.
Fresh == IF Unused = {} THEN {} ELSE {CHOOSE t \in Unused : TRUE}

\* Array.filter: what K holds of ts, in its order.
Filter(ts, K) ==
  LET kept == {i \in DOMAIN ts : ts[i] \in K}
      rank(i) == Cardinality({j \in kept : j <= i})
  IN [n \in 1 .. Cardinality(kept) |-> ts[CHOOSE i \in kept : rank(i) = n]]

Pinned(s) == {t \in TabIds : s.tab[t].pinned}

KeepOnly(s, keep) ==
  [active  |-> s.active,
   tabs    |-> [w \in Workspaces |-> Filter(s.tabs[w], keep)],
   current |-> [w \in Workspaces |-> IF InGroup(s, w) \cap keep = {} THEN None ELSE s.current[w]],
   tab     |-> [t \in TabIds |-> IF t \in keep THEN s.tab[t] ELSE Gone]]

TypeOK ==
  /\ store.active \in Workspaces \cup {None}
  /\ store.tabs \in [Workspaces -> Seq(TabIds)]
  /\ store.current \in [Workspaces -> TabIds \cup {None}]
  /\ store.tab \in [TabIds -> [path : Place \cup {Root}, at : Place \cup {Root}, pinned : BOOLEAN]]
  /\ shown \in TabIds \cup {None}
  /\ list = Unfetched \/ list \subseteq Workspaces

Init == store = Empty /\ shown = None /\ list = Unfetched

-----------------------------------------------------------------------------
(* The methods of the store.  n is the id of the tab they may create.      *)

Append1(s, w, n, p) ==
  [s EXCEPT !.tabs[w] = Append(@, n), !.tab[n] = MakeTab(p)]

At(s, w, p) == {t \in InGroup(s, w) : s.tab[t].path = p}
FirstAt(s, w, p) == s.tabs[w][SelectInSeq(s.tabs[w], LAMBDA t : t \in At(s, w, p))]

SwitchWorkspace(s, w, p, n) ==
  IF At(s, w, p) # {}
  THEN [s EXCEPT !.active = w, !.current[w] = FirstAt(s, w, p)]
  ELSE [Append1(s, w, n, p) EXCEPT !.active = w, !.current[w] = n]

OpenTab(s, p, n) ==
  IF s.active = None THEN s
  ELSE IF At(s, s.active, p) # {}
  THEN [s EXCEPT !.current[s.active] = FirstAt(s, s.active, p)]
  ELSE Append1(s, s.active, n, p)

OpenedId(s, p, n) ==
  IF s.active = None THEN None
  ELSE IF At(s, s.active, p) # {} THEN FirstAt(s, s.active, p) ELSE n

SetActiveTab(s, t) ==
  IF t \notin Live(s) THEN s
  ELSE LET w == OwnerOf(s, t) IN [s EXCEPT !.active = w, !.current[w] = t]

\* mutant: the group goes on showing the tab that was closed
CloseTabStillShown(s, t, n) ==
  IF t \notin Live(s) THEN s
  ELSE LET w == OwnerOf(s, t)
           rest == KeepOnly(s, Live(s) \ {t})
       IN IF Len(s.tabs[w]) = 1
          THEN [Append1(rest, w, n, DefaultPath(w)) EXCEPT !.current[w] = n]
          ELSE rest

CloseTab(s, t, n) ==
  IF t \notin Live(s) THEN s
  ELSE LET w == OwnerOf(s, t)
           i == SelectInSeq(s.tabs[w], LAMBDA u : u = t)
           left == Filter(s.tabs[w], TabIds \ {t})
           next == left[IF i < Len(left) THEN i ELSE Len(left)]
           rest == KeepOnly(s, Live(s) \ {t})
       IN IF Len(s.tabs[w]) = 1
          THEN [Append1(rest, w, n, DefaultPath(w)) EXCEPT !.current[w] = n]
          ELSE [rest EXCEPT !.current[w] = IF @ = t THEN next ELSE @]

\* pinnedBoundary: the number of pinned tabs that lead the group.
PinnedBoundary(s, ts) ==
  Cardinality({i \in DOMAIN ts : \A j \in 1 .. i : s.tab[ts[j]].pinned})

\* mutant: a tab goes where it is dropped
DroppedAt(s, ts, i, j) == j

\* The destination, from the index a drop asks for, stays in the tab's zone.
ClampedTo(s, ts, i, j) ==
  IF s.tab[ts[i]].pinned
  THEN IF j < PinnedBoundary(s, ts) THEN j ELSE PinnedBoundary(s, ts)
  ELSE IF j > PinnedBoundary(s, ts) THEN j ELSE PinnedBoundary(s, ts) + 1

MoveTab(s, i, j) ==
  LET w == s.active
      ts == s.tabs[w]
  IN [s EXCEPT !.tabs[w] = InsertAt(RemoveAt(ts, i), ClampedTo(s, ts, i, j), ts[i])]

\* mutant: the tab is put in its new place and stays in the old one
TogglePinTwice(s, t) ==
  LET w == OwnerOf(s, t)
  IN [s EXCEPT !.tabs[w] = InsertAt(s.tabs[w], PinnedBoundary(s, s.tabs[w]) + 1, t),
               !.tab[t].pinned = ~ @]

TogglePin(s, t) ==
  LET w == OwnerOf(s, t)
      without == Filter(s.tabs[w], TabIds \ {t})
  IN [s EXCEPT !.tabs[w] = InsertAt(without, PinnedBoundary(s, without) + 1, t),
               !.tab[t].pinned = ~ @]

\* A reload opens a new router where the store last saw the old one.
ReloadActiveTab(s) ==
  [s EXCEPT !.tab[GetActiveTab(s)].at = s.tab[GetActiveTab(s)].path]

\* mutant: no group is made when none is left
ValidateOnlyKept(s, valid, n) ==
  LET kept == KeepOnly(s, UNION {InGroup(s, w) : w \in valid})
  IN IF s.active \in valid THEN {kept}
     ELSE IF Groups(kept) # {}
     THEN {[kept EXCEPT !.active = w] : w \in Groups(kept)}
     ELSE {[kept EXCEPT !.active = None]}

\* validateWorkspaceSlugs, one store per choice of the next active workspace:
\* Object.keys()[0] and Set.values() are taken as any of their members.
ValidateWorkspaceSlugs(s, valid, n) ==
  LET kept == KeepOnly(s, UNION {InGroup(s, w) : w \in valid})
  IN IF s.active \in valid THEN {kept}
     ELSE IF Groups(kept) # {}
     THEN {[kept EXCEPT !.active = w] : w \in Groups(kept)}
     ELSE IF valid # {}
     THEN {[Append1(kept, w, n, DefaultPath(w)) EXCEPT !.active = w, !.current[w] = n] : w \in valid}
     ELSE {[kept EXCEPT !.active = None]}

\* mutant: every group comes back on its first tab
MergeAtFirst(s) ==
  LET own == {t \in Live(s) : s.tab[t].path.ws = OwnerOf(s, t)}
      kept == KeepOnly(s, own)
      sorted(w) == Filter(kept.tabs[w], Pinned(s)) \o Filter(kept.tabs[w], TabIds \ Pinned(s))
      back == [kept EXCEPT
                 !.tabs = [w \in Workspaces |-> sorted(w)],
                 !.current = [w \in Workspaces |->
                    IF sorted(w) = <<>> THEN None ELSE sorted(w)[1]],
                 !.tab = [t \in TabIds |-> [kept.tab[t] EXCEPT !.at = kept.tab[t].path]]]
  IN IF s.active \in Groups(back) THEN {back}
     ELSE IF Groups(back) = {} THEN {[back EXCEPT !.active = None]}
     ELSE {[back EXCEPT !.active = w] : w \in Groups(back)}

\* partialize, then merge in the next run of the program: routers start at the
\* stored path, and a tab whose path is not of its group is dropped.
Merge(s) ==
  LET own == {t \in Live(s) : s.tab[t].path.ws = OwnerOf(s, t)}
      kept == KeepOnly(s, own)
      sorted(w) == Filter(kept.tabs[w], Pinned(s)) \o Filter(kept.tabs[w], TabIds \ Pinned(s))
      back == [kept EXCEPT
                 !.tabs = [w \in Workspaces |-> sorted(w)],
                 !.current = [w \in Workspaces |->
                    IF sorted(w) = <<>> THEN None
                    ELSE IF s.current[w] \in own THEN s.current[w] ELSE sorted(w)[1]],
                 !.tab = [t \in TabIds |-> [kept.tab[t] EXCEPT !.at = kept.tab[t].path]]]
  IN IF s.active \in Groups(back) THEN {back}
     ELSE IF Groups(back) = {} THEN {[back EXCEPT !.active = None]}
     ELSE {[back EXCEPT !.active = w] : w \in Groups(back)}

-----------------------------------------------------------------------------
(* The navigation adapter                                                  *)

\* mutant: the store is not told
NavigateUnseen(s, t, p) == IF t = None THEN s ELSE [s EXCEPT !.tab[t].at = p]

\* router.navigate; the subscription of the mounted tab copies it to the store.
Navigate(s, t, p) ==
  IF t = None THEN s
  ELSE [s EXCEPT !.tab[t].at = p, !.tab[t].path = IF shown = t THEN p ELSE @]

\* tryRouteToPinnedNewTab asks whether the tab in front is pinned.
RoutesToNewTab(s, p) ==
  LET v == GetActiveTab(s) IN v # None /\ s.tab[v].pinned /\ s.tab[v].at # p

PushFrom(s, t, p, n) ==
  IF t # None /\ s.tab[t].at = p THEN s
  ELSE IF p.ws # s.active THEN SwitchWorkspace(s, p.ws, p, n)
  ELSE IF RoutesToNewTab(s, p)
  THEN SetActiveTab(OpenTab(s, p, n), OpenedId(s, p, n))
  ELSE Navigate(s, t, p)

ReplaceFrom(s, t, p, n) ==
  IF p.ws # s.active THEN SwitchWorkspace(s, p.ws, p, n) ELSE Navigate(s, t, p)

\* A page that pushes: the one in front, the one of a hidden tab, or one of a
\* tab that is gone (None).
Pushers == Live(store) \cup {None}

\* A call that changes nothing is a stutter.
Step(s) == s # store /\ store' = s /\ UNCHANGED <<shown, list>>

Push(t, p, n) == Step(PushFrom(store, t, p, n))
Replace(t, p, n) == Step(ReplaceFrom(store, t, p, n))

\* push("/workspaces/new"): the overlay opens, the tab is parked on "/".
PushNewWorkspace(t) == t # None /\ Step(Navigate(store, t, Root))

OpenInNewTab(p, activate, n) ==
  IF p.ws # store.active THEN Step(SwitchWorkspace(store, p.ws, p, n))
  ELSE Step(LET opened == OpenTab(store, p, n)
            IN IF activate THEN SetActiveTab(opened, OpenedId(store, p, n)) ELSE opened)

\* useInternalLinkHandler: a link in the text of the page in front, to any path.
InternalLink(p, n) ==
  /\ shown # None /\ shown = GetActiveTab(store)
  /\ Step(SetActiveTab(OpenTab(store, p, n), OpenedId(store, p, n)))

-----------------------------------------------------------------------------
(* The tab bar, the error page, the menu                                   *)

ActiveTabs == IF store.active = None THEN <<>> ELSE store.tabs[store.active]

ClickTab(t) == t \in ToSet(ActiveTabs) /\ Step(SetActiveTab(store, t))

ClickClose(t, n) ==
  /\ t \in ToSet(ActiveTabs) /\ Len(ActiveTabs) > 1 /\ ~ store.tab[t].pinned
  /\ Step(CloseTab(store, t, n))

\* closeActiveTab: the error page, and Cmd+W when there are more tabs.
CloseActiveTab(n) ==
  /\ ActiveTabs # <<>>
  /\ Step(CloseTab(store, GetActiveTab(store), n))

ClickPin(t) == t \in ToSet(ActiveTabs) /\ Step(TogglePin(store, t))

Drag(i, j) ==
  /\ {i, j} \subseteq DOMAIN ActiveTabs /\ i # j
  /\ Step(MoveTab(store, i, j))

NewTab(n) ==
  /\ store.active # None
  /\ Step(SetActiveTab(Append1(store, store.active, n, DefaultPath(store.active)), n))

Reload ==
  /\ GetActiveTab(store) # None
  /\ store' = ReloadActiveTab(store)
  /\ shown' = None
  /\ UNCHANGED list

-----------------------------------------------------------------------------
(* Effects, the workspace list, logout and restart                         *)

\* React mounts the effects of the tab in front: its router's place is copied
\* to the store, and WorkspaceRouteLayout drops the groups of workspaces that
\* are not in the list when the one this tab is at is not, unless its layout has
\* seen it there (useWorkspaceSeen): then its group is gone, the tab in another.
Mount ==
  /\ shown # GetActiveTab(store)
  /\ shown' = GetActiveTab(store)
  /\ UNCHANGED list
  /\ IF shown' = None THEN UNCHANGED store
     ELSE LET synced == [store EXCEPT !.tab[shown'].path = store.tab[shown'].at]
              w == store.tab[shown'].at.ws
          IN IF list = Unfetched \/ w = None \/ w \in list THEN store' = synced
             ELSE \/ w # OwnerOf(store, shown') /\ store' = synced
                  \/ \E n \in Fresh : store' \in ValidateWorkspaceSlugs(synced, list, n)

\* The list arrives or changes, and App's layout effect validates the store.
ListArrives(valid, n) ==
  /\ list' = valid
  /\ store' \in ValidateWorkspaceSlugs(store, valid, n)
  /\ UNCHANGED shown

Logout ==
  /\ store' = Empty
  /\ list' = Unfetched
  /\ UNCHANGED shown

Restart ==
  /\ shown' = None /\ list' = Unfetched
  /\ store' \in Merge(store)

\* What may create a tab, n.
Creates(n) ==
  \/ \E t \in Pushers, p \in Place : Push(t, p, n) \/ Replace(t, p, n)
  \/ \E p \in Place, activate \in BOOLEAN : OpenInNewTab(p, activate, n)
  \/ \E p \in Place : InternalLink(p, n)
  \/ \E t \in TabIds : ClickClose(t, n)
  \/ CloseActiveTab(n) \/ NewTab(n)
  \/ \E valid \in SUBSET Workspaces : ListArrives(valid, n)

Next ==
  \/ \E n \in Fresh : Creates(n)
  \/ \E t \in Pushers : PushNewWorkspace(t)
  \/ \E t \in TabIds : ClickTab(t) \/ ClickPin(t)
  \/ \E i, j \in 1 .. Cardinality(TabIds) : Drag(i, j)
  \/ Reload \/ Mount \/ Logout \/ Restart

Spec == Init /\ [][Next]_vars

-----------------------------------------------------------------------------
(* Properties                                                              *)

\* tab-store.ts:33-37: whatever was closed, dropped or restored, the active
\* workspace has a group and every group shows one of its own tabs.
GroupsAreShowable ==
  /\ store.active \in Groups(store) \cup {None}
  /\ \A w \in Groups(store) : store.current[w] \in InGroup(store, w)

\* tab-store.ts:29-31: in every group the pinned tabs come first.
PinnedFirst ==
  \A w \in Workspaces : \A i, j \in DOMAIN store.tabs[w] :
    i < j /\ store.tab[store.tabs[w][j]].pinned => store.tab[store.tabs[w][i]].pinned

\* A tab is in one place of one group: a tab id names one tab.
TabsAreApart ==
  /\ \A w \in Workspaces : IsInjective(store.tabs[w])
  /\ \A v, w \in Workspaces : v # w => InGroup(store, v) \cap InGroup(store, w) = {}

\* Once the list is known and not empty, some workspace is in front.
SomewhereToBe == list \notin {Unfetched, {}} => store.active # None

\* What would be restored is what is on the screen: the stored path of the tab
\* in front, once its effects are mounted, is its router's place.
StoredIsShown ==
  shown # None /\ shown = GetActiveTab(store) => store.tab[shown].path = store.tab[shown].at

\* A restart comes back to the page that was in front, unless that page is not
\* of the workspace in front.
RestartResumes ==
  [][ shown # None /\ shown = GetActiveTab(store)
        /\ store.tab[shown].at.ws = store.active /\ Restart
      => /\ GetActiveTab(store') = shown
         /\ store'.tab[shown].at = store.tab[shown].at ]_vars
=============================================================================
