----------------------------- MODULE AgentWork -----------------------------
(***************************************************************************)
(* What the task queue promises those who give work to agents, without     *)
(* rows, leases, polls, retries or sweeps: work is admitted, taken by its  *)
(* agent under the agent's limit and never beside other work on the same   *)
(* target, and finished once.  TaskQueue implements it.                    *)
(***************************************************************************)
EXTENDS Naturals, FiniteSets

CONSTANTS
  Works,      \* identities of pieces of work
  Owners,     \* who does them
  Places,     \* what they are about
  Parallel,   \* the places where several may be done side by side
  Limit,      \* how much one owner does at a time
  Nobody      \* owner and place of work that was not admitted

VARIABLE work

Unknown == [state |-> "unknown", owner |-> Nobody, place |-> Nobody]

Piece == [state : {"waiting", "taken", "finished"}, owner : Owners, place : Places]

\* Work on one place that one owner may not do side by side.
Exclude(v, w) ==
  /\ work[v].owner = work[w].owner
  /\ work[v].place = work[w].place
  /\ work[w].place \notin Parallel

TakenBy(o) == {w \in Works : work[w].owner = o /\ work[w].state = "taken"}

Init == work = [w \in Works |-> Unknown]

\* New work, with an owner and a place it keeps.
Admitted(w) == work[w] = Unknown /\ work'[w] \in Piece /\ work'[w].state = "waiting"

\* Completed, failed or cancelled, taken or not, and never anything else again.
Finished(w) ==
  /\ work[w].state \in {"waiting", "taken"}
  /\ work'[w] = [work[w] EXCEPT !.state = "finished"]

\* A statement may admit or finish several at once.
Settle ==
  /\ work' \in [Works -> Piece \cup {Unknown}]
  /\ \A w \in Works : work'[w] = work[w] \/ Admitted(w) \/ Finished(w)

Take(w) ==
  /\ work[w].state = "waiting"
  /\ Cardinality(TakenBy(work[w].owner)) < Limit
  /\ \A v \in TakenBy(work[w].owner) : ~ Exclude(v, w)
  /\ work' = [work EXCEPT ![w].state = "taken"]

Next == Settle \/ \E w \in Works : Take(w)

Spec == Init /\ [][Next]_work
=============================================================================
