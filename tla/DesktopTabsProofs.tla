------------------------- MODULE DesktopTabsProofs -------------------------
(***************************************************************************)
(* Whatever pages push, tabs are closed, pinned and dragged, and workspaces*)
(* come and go: each group of tabs can be shown and leads with its pinned  *)
(* tabs, no tab is in two groups, and a restart comes back to the page that*)
(* was in front.  For every set of workspaces, pages and tab identities.   *)
(*                                                                         *)
(* The argument goes by the methods of the store, not by the actions: each *)
(* method takes a good store (Good) to a good one and keeps the path of    *)
(* every tab that is where its router is (Becomes), and an action applies  *)
(* one or two of them.  Under the methods are three operations on a group: *)
(* an insertion where a pinned or an unpinned tab may come (MayCome), a    *)
(* removal, and the filter of a set of tabs.  Merge, which rebuilds the    *)
(* store at a restart, sorts each group anew.                              *)
(***************************************************************************)
EXTENDS DesktopTabs, TLAPS, FiniteSetTheorems, SequenceTheorems

-----------------------------------------------------------------------------
(* Sequences                                                               *)

Rank(I, i) == Cardinality({j \in I : j <= i})

LEMMA RankRises ==
  ASSUME NEW I \in SUBSET Nat, IsFiniteSet(I), NEW i \in I
  PROVE  /\ Rank(I, i) \in 1 .. Cardinality(I)
         /\ \A k \in I : i < k => Rank(I, i) < Rank(I, k)
  <1> DEFINE A == {j \in I : j <= i}
  <1>1. A \subseteq I /\ i \in A OBVIOUS
  <1>2. IsFiniteSet(A) /\ Cardinality(A) <= Cardinality(I) BY <1>1, FS_Subset
  <1>3. Cardinality(A) # 0 /\ Cardinality(A) \in Nat /\ Cardinality(I) \in Nat
    <2> HIDE DEF A
    <2>1. Cardinality(A) \in Nat /\ Cardinality(I) \in Nat
      BY <1>2, FS_CardinalityType
    <2>2. A # {} BY <1>1
    <2>3. Cardinality(A) # 0 BY <1>2, <2>2, FS_EmptySet
    <2> QED BY <2>1, <2>3
  <1>4. ASSUME NEW k \in I, i < k PROVE Cardinality(A) < Rank(I, k)
    <2> DEFINE B == {j \in I : j <= k}
    <2>0. i \in Nat /\ k \in Nat /\ \A j \in I : j \in Nat OBVIOUS
    <2>1. B \subseteq I /\ A \subseteq B /\ k \in B \ A
      <3>1. ASSUME NEW j \in A PROVE j \in B
        <4>1. j \in I /\ j <= i /\ j \in Nat BY <2>0
        <4>2. j <= k BY <1>4, <2>0, <4>1
        <4> QED BY <4>1, <4>2
      <3>2. k \in B /\ k \notin A BY <1>4, <2>0
      <3> QED BY <3>1, <3>2
    <2> HIDE DEF A, B
    <2>2. IsFiniteSet(B) /\ Cardinality(A) <= Cardinality(B) /\ A # B
          /\ (Cardinality(A) = Cardinality(B) => A = B)
      BY <2>1, FS_Subset
    <2>3. Cardinality(B) \in Nat BY <2>2, FS_CardinalityType
    <2>4. Rank(I, k) = Cardinality(B) BY DEF Rank, B
    <2> QED BY <1>3, <2>2, <2>3, <2>4
  <1>5. Rank(I, i) = Cardinality(A) BY DEF Rank
  <1> HIDE DEF A
  <1> QED BY <1>2, <1>3, <1>4, <1>5

\* A finite set of numbers is counted through by rank.
LEMMA RankOnto ==
  ASSUME NEW I \in SUBSET Nat, IsFiniteSet(I), NEW n \in 1 .. Cardinality(I)
  PROVE  \E i \in I : Rank(I, i) = n
  <1> DEFINE f == [i \in I |-> Rank(I, i)]
             N == 1 .. Cardinality(I)
  <1>1. \A i \in I : Rank(I, i) \in N BY RankRises
  <1>2. \A i, k \in I : Rank(I, i) = Rank(I, k) => i = k
    <2> SUFFICES ASSUME NEW i \in I, NEW k \in I, Rank(I, i) = Rank(I, k), i # k
                 PROVE  FALSE
      OBVIOUS
    <2>1. i < k \/ k < i OBVIOUS
    <2>2. Rank(I, i) \in Nat BY <1>1
    <2> QED BY <2>1, <2>2, RankRises
  <1>3. f \in Injection(I, N) BY <1>1, <1>2 DEF Injection, IsInjective
  <1>4. Cardinality(I) \in Nat BY FS_CardinalityType
  <1>5. IsFiniteSet(N) /\ Cardinality(N) = Cardinality(I) BY <1>4, FS_Interval
  <1>6. f \in Surjection(I, N) BY <1>3, <1>5, FS_Injection
  <1> QED BY <1>6 DEF Surjection

LEMMA Least ==
  ASSUME NEW I \in SUBSET Nat, IsFiniteSet(I), I # {}
  PROVE  Min(I) \in I /\ \A j \in I : Min(I) <= j
  <1>1. Cardinality(I) \in Nat /\ Cardinality(I) # 0
    <2>1. Cardinality(I) \in Nat BY FS_CardinalityType
    <2>2. Cardinality(I) # 0 BY FS_EmptySet
    <2> QED BY <2>1, <2>2
  <1>0. 1 \in 1 .. Cardinality(I) BY <1>1
  <1>2. PICK i \in I : Rank(I, i) = 1 BY <1>0, RankOnto
  <1>3. ASSUME NEW j \in I PROVE i <= j
    <2>1. j < i => Rank(I, j) < Rank(I, i) BY RankRises
    <2>2. Rank(I, j) \in 1 .. Cardinality(I) BY RankRises
    <2>3. i \in Nat /\ j \in Nat OBVIOUS
    <2> QED BY <1>1, <1>2, <2>1, <2>2, <2>3
  <1> QED BY <1>3 DEF Min

\* Where a sequence of the members of K, in their order, finds them in ts.
Picks(p, f, ts, K) ==
  /\ p \in [1 .. Len(f) -> DOMAIN ts]
  /\ \A n \in 1 .. Len(f) : f[n] = ts[p[n]] /\ ts[p[n]] \in K
  /\ \A m, n \in 1 .. Len(f) : m < n => p[m] < p[n]
  /\ \A i \in DOMAIN ts : ts[i] \in K => \E n \in 1 .. Len(f) : p[n] = i

LEMMA FilterPicks ==
  ASSUME NEW S, NEW ts \in Seq(S), NEW K
  PROVE  /\ Filter(ts, K) \in Seq(S)
         /\ \E p : Picks(p, Filter(ts, K), ts, K)
  <1> DEFINE I == {i \in DOMAIN ts : ts[i] \in K}
             at(n) == CHOOSE i \in I : Rank(I, i) = n
             p == [n \in 1 .. Cardinality(I) |-> at(n)]
             F == Filter(ts, K)
  <1>1. DOMAIN ts = 1 .. Len(ts) /\ Len(ts) \in Nat /\ \A i \in 1 .. Len(ts) : ts[i] \in S
    BY LenProperties, ElementOfSeq
  <1>2. I \in SUBSET Nat /\ IsFiniteSet(I)
    <2>1. IsFiniteSet(1 .. Len(ts)) BY <1>1, FS_Interval
    <2> QED BY <1>1, <2>1, FS_Subset
  <1>3. Cardinality(I) \in Nat BY <1>2, FS_CardinalityType
  <1>4. F = [n \in 1 .. Cardinality(I) |-> ts[at(n)]] BY DEF Filter, Rank
  <1>5. \A n \in 1 .. Cardinality(I) : at(n) \in I /\ Rank(I, at(n)) = n
    <2> HIDE DEF I
    <2> QED BY <1>2, RankOnto
  <1>6. \A i \in I : Rank(I, i) \in 1 .. Cardinality(I)
                     /\ \A k \in I : i < k => Rank(I, i) < Rank(I, k)
    <2> HIDE DEF I
    <2> QED BY <1>2, RankRises
  <1>7. \A i \in I : i \in DOMAIN ts /\ i \in Nat /\ ts[i] \in S /\ ts[i] \in K BY <1>1
  <1>8. \A i \in DOMAIN ts : ts[i] \in K => i \in I OBVIOUS
  <1> HIDE DEF F, I, at
  <1>9. F \in Seq(S) /\ Len(F) = Cardinality(I) BY <1>3, <1>4, <1>5, <1>7
  <1>10. \A i, k \in I : Rank(I, i) = Rank(I, k) => i = k
    <2> SUFFICES ASSUME NEW i \in I, NEW k \in I, Rank(I, i) = Rank(I, k), i # k
                 PROVE  FALSE
      OBVIOUS
    <2>1. i < k \/ k < i BY <1>7
    <2> QED BY <1>6, <2>1
  <1>11. Picks(p, F, ts, K)
    <2>1. p \in [1 .. Len(F) -> DOMAIN ts] BY <1>5, <1>7, <1>9
    <2>2. \A n \in 1 .. Len(F) : F[n] = ts[p[n]] /\ ts[p[n]] \in K
      BY <1>4, <1>5, <1>7, <1>9
    <2>3. ASSUME NEW m \in 1 .. Len(F), NEW n \in 1 .. Len(F), m < n PROVE p[m] < p[n]
      <3>1. p[m] \in I /\ p[n] \in I /\ Rank(I, p[m]) = m /\ Rank(I, p[n]) = n
        BY <1>5, <1>9
      <3>2. p[m] \in Nat /\ p[n] \in Nat BY <1>7, <3>1
      <3>3. p[n] < p[m] => n < m BY <1>6, <3>1
      <3> HIDE DEF p
      <3> QED BY <1>3, <1>9, <2>3, <3>1, <3>2, <3>3
    <2>4. ASSUME NEW i \in DOMAIN ts, ts[i] \in K PROVE \E n \in 1 .. Len(F) : p[n] = i
      <3>1. i \in I /\ Rank(I, i) \in 1 .. Len(F) BY <1>6, <1>8, <1>9, <2>4
      <3>2. p[Rank(I, i)] = i BY <1>5, <1>9, <1>10, <3>1
      <3> QED BY <3>1, <3>2
    <2> QED BY <2>1, <2>2, <2>3, <2>4 DEF Picks
  <1> QED BY <1>9, <1>11 DEF F

LEMMA FilterSet ==
  ASSUME NEW S, NEW ts \in Seq(S), NEW K
  PROVE  ToSet(Filter(ts, K)) = ToSet(ts) \cap K
  <1> DEFINE F == Filter(ts, K)
  <1>1. F \in Seq(S) BY FilterPicks
  <1>2. PICK p : Picks(p, F, ts, K) BY FilterPicks
  <1> HIDE DEF F
  <1>3. DOMAIN F = 1 .. Len(F) BY <1>1, LenProperties
  <1>4. ASSUME NEW t \in ToSet(F) PROVE t \in ToSet(ts) \cap K
    BY <1>2, <1>3 DEF ToSet, Picks
  <1>5. ASSUME NEW t \in ToSet(ts) \cap K PROVE t \in ToSet(F)
    <2>1. PICK i \in DOMAIN ts : ts[i] = t BY DEF ToSet
    <2>2. PICK n \in 1 .. Len(F) : p[n] = i BY <1>2, <2>1 DEF Picks
    <2> QED BY <1>2, <1>3, <2>1, <2>2 DEF ToSet, Picks
  <1> QED BY <1>4, <1>5 DEF F

-----------------------------------------------------------------------------
(* A group: no tab twice, and the tabs of P, the pinned ones, first.       *)

PinnedFront(P, ts) == \A i, j \in DOMAIN ts : i < j /\ ts[j] \in P => ts[i] \in P
Group(P, ts) == ts \in Seq(TabIds) /\ IsInjective(ts) /\ PinnedFront(P, ts)

\* The first b tabs are the pinned ones.
Zone(P, ts, b) == b \in 0 .. Len(ts) /\ \A i \in DOMAIN ts : ts[i] \in P <=> i <= b

LEMMA FilterGroup ==
  ASSUME NEW P, NEW ts, Group(P, ts), NEW K
  PROVE  Group(P, Filter(ts, K))
  <1> DEFINE F == Filter(ts, K)
  <1>0. ts \in Seq(TabIds) /\ IsInjective(ts) /\ PinnedFront(P, ts) BY DEF Group
  <1>1. F \in Seq(TabIds) BY <1>0, FilterPicks
  <1>2. PICK p : Picks(p, F, ts, K) BY <1>0, FilterPicks
  <1> HIDE DEF F
  <1>3. DOMAIN F = 1 .. Len(F) /\ Len(F) \in Nat /\ DOMAIN ts = 1 .. Len(ts) /\ Len(ts) \in Nat
    BY <1>0, <1>1, LenProperties
  <1>4. \A n \in 1 .. Len(F) : p[n] \in DOMAIN ts /\ p[n] \in Nat /\ F[n] = ts[p[n]]
    BY <1>2, <1>3 DEF Picks
  <1>5. \A m, n \in 1 .. Len(F) : m < n => p[m] < p[n] BY <1>2 DEF Picks
  <1>6. IsInjective(F)
    <2> SUFFICES ASSUME NEW m \in 1 .. Len(F), NEW n \in 1 .. Len(F), F[m] = F[n], m # n
                 PROVE  FALSE
      BY <1>3 DEF IsInjective
    <2>1. p[m] = p[n] BY <1>0, <1>4 DEF IsInjective
    <2>2. m < n \/ n < m BY <1>3
    <2> QED BY <1>4, <1>5, <2>1, <2>2
  <1>7. PinnedFront(P, F)
    <2> SUFFICES ASSUME NEW m \in 1 .. Len(F), NEW n \in 1 .. Len(F), m < n, F[n] \in P
                 PROVE  F[m] \in P
      BY <1>3 DEF PinnedFront
    <2> QED BY <1>0, <1>4, <1>5 DEF PinnedFront
  <1> QED BY <1>1, <1>6, <1>7 DEF Group, F

\* Merge's order of a group: what is pinned, then the rest.
Sorted(ts, P) == Filter(ts, P) \o Filter(ts, TabIds \ P)

LEMMA SortedGroup ==
  ASSUME NEW Q, NEW ts, Group(Q, ts), NEW P
  PROVE  Group(P, Sorted(ts, P)) /\ ToSet(Sorted(ts, P)) = ToSet(ts)
  <1> DEFINE A == Filter(ts, P)
             B == Filter(ts, TabIds \ P)
             C == Sorted(ts, P)
  <1>1. ts \in Seq(TabIds) BY DEF Group
  <1>2. ToSet(A) = ToSet(ts) \cap P /\ ToSet(B) = ToSet(ts) \cap (TabIds \ P)
    BY <1>1, FilterSet
  <1>3. /\ A \in Seq(TabIds) /\ IsInjective(A)
        /\ B \in Seq(TabIds) /\ IsInjective(B)
    BY FilterGroup DEF Group
  <1>4. C = A \o B BY DEF Sorted
  <1> HIDE DEF A, B, C
  <1>5. /\ DOMAIN A = 1 .. Len(A) /\ Len(A) \in Nat
        /\ DOMAIN B = 1 .. Len(B) /\ Len(B) \in Nat
    BY <1>3, LenProperties
  <1>6. /\ C \in Seq(TabIds) /\ Len(C) = Len(A) + Len(B)
        /\ \A i \in 1 .. Len(A) + Len(B) : C[i] = IF i <= Len(A) THEN A[i] ELSE B[i - Len(A)]
    BY <1>3, <1>4, ConcatProperties
  <1>7. DOMAIN C = 1 .. Len(A) + Len(B) BY <1>6, LenProperties
  <1>8. \A i \in 1 .. Len(A) : A[i] \in P BY <1>2, <1>5 DEF ToSet
  <1>9. \A i \in 1 .. Len(B) : B[i] \notin P BY <1>2, <1>5 DEF ToSet
  <1>10. \A i \in DOMAIN C : \/ i \in 1 .. Len(A) /\ C[i] = A[i]
                             \/ i - Len(A) \in 1 .. Len(B) /\ C[i] = B[i - Len(A)] /\ i > Len(A)
    BY <1>5, <1>6, <1>7
  <1>11. IsInjective(C)
    <2> SUFFICES ASSUME NEW i \in DOMAIN C, NEW j \in DOMAIN C, C[i] = C[j]
                 PROVE  i = j
      BY DEF IsInjective
    <2>1. i \in Nat /\ j \in Nat BY <1>5, <1>7
    <2>2. C[i] \in P <=> i <= Len(A) BY <1>5, <1>8, <1>9, <1>10, <2>1
    <2>3. C[j] \in P <=> j <= Len(A) BY <1>5, <1>8, <1>9, <1>10, <2>1
    <2>4. CASE i <= Len(A) /\ j <= Len(A)
      <3>1. i \in DOMAIN A /\ j \in DOMAIN A /\ A[i] = A[j]
        BY <1>5, <1>10, <2>1, <2>4
      <3> QED BY <1>3, <3>1 DEF IsInjective
    <2>5. CASE ~ (i <= Len(A)) /\ ~ (j <= Len(A))
      <3>1. i - Len(A) \in DOMAIN B /\ j - Len(A) \in DOMAIN B /\ B[i - Len(A)] = B[j - Len(A)]
        BY <1>5, <1>10, <2>1, <2>5
      <3>2. i - Len(A) = j - Len(A) BY <1>3, <3>1 DEF IsInjective
      <3> QED BY <1>5, <2>1, <3>2
    <2> QED BY <2>2, <2>3, <2>4, <2>5
  <1>12. PinnedFront(P, C)
    <2> SUFFICES ASSUME NEW i \in DOMAIN C, NEW j \in DOMAIN C, i < j, C[j] \in P
                 PROVE  C[i] \in P
      BY DEF PinnedFront
    <2>1. i \in Nat /\ j \in Nat BY <1>5, <1>7
    <2>2. j <= Len(A) BY <1>5, <1>9, <1>10, <2>1
    <2> QED BY <1>5, <1>8, <1>10, <2>1, <2>2
  <1>13. ToSet(C) = ToSet(ts)
    <2>1. ASSUME NEW t \in ToSet(C) PROVE t \in ToSet(A) \cup ToSet(B)
      <3>1. PICK i \in DOMAIN C : C[i] = t BY DEF ToSet
      <3> QED BY <1>5, <1>10, <3>1 DEF ToSet
    <2>2. ASSUME NEW t \in ToSet(A) PROVE t \in ToSet(C)
      <3>1. PICK i \in 1 .. Len(A) : A[i] = t BY <1>5 DEF ToSet
      <3>2. i \in DOMAIN C /\ C[i] = t BY <1>5, <1>6, <1>7, <3>1
      <3> QED BY <3>2 DEF ToSet
    <2>3. ASSUME NEW t \in ToSet(B) PROVE t \in ToSet(C)
      <3>1. PICK i \in 1 .. Len(B) : B[i] = t BY <1>5 DEF ToSet
      <3>2. i + Len(A) \in DOMAIN C /\ C[i + Len(A)] = B[i + Len(A) - Len(A)]
        BY <1>5, <1>6, <1>7, <3>1
      <3>3. i + Len(A) - Len(A) = i BY <1>5
      <3> QED BY <3>1, <3>2, <3>3 DEF ToSet
    <2>4. \A t \in ToSet(ts) : t \in TabIds
      <3>1. DOMAIN ts = 1 .. Len(ts) BY <1>1, LenProperties
      <3> QED BY <1>1, <3>1, ElementOfSeq DEF ToSet
    <2>5. ToSet(A) \cup ToSet(B) = ToSet(ts) BY <1>2, <2>4
    <2> QED BY <2>1, <2>2, <2>3, <2>5
  <1> QED BY <1>6, <1>11, <1>12, <1>13 DEF Group, C

\* out is ts with e put at k.
Inserted(out, ts, k, e) ==
  /\ out \in Seq(TabIds) /\ Len(out) = Len(ts) + 1
  /\ \A m \in 1 .. Len(ts) + 1 :
       out[m] = IF m < k THEN ts[m] ELSE IF m = k THEN e ELSE ts[m - 1]

LEMMA InsertAtInserts ==
  ASSUME NEW ts \in Seq(TabIds), NEW e \in TabIds, NEW k \in 1 .. Len(ts) + 1
  PROVE  Inserted(InsertAt(ts, k, e), ts, k, e)
  <1> DEFINE A == SubSeq(ts, 1, k - 1)
             B == SubSeq(ts, k, Len(ts))
             C == A \o <<e>>
             D == C \o B
  <1>8. InsertAt(ts, k, e) = D BY DEF InsertAt
  <1>1. Len(ts) \in Nat /\ \A i \in 1 .. Len(ts) : ts[i] \in TabIds
    BY LenProperties, ElementOfSeq
  <1>2. /\ A \in Seq(TabIds) /\ Len(A) = k - 1
        /\ \A i \in 1 .. k - 1 : A[i] = ts[i]
    <2>1. \A i \in 1 .. k - 1 : ts[i] \in TabIds BY <1>1
    <2>2. /\ A \in Seq(TabIds)
          /\ Len(A) = IF 1 <= k - 1 THEN k - 1 - 1 + 1 ELSE 0
          /\ \A i \in 1 .. k - 1 - 1 + 1 : A[i] = ts[1 + i - 1]
      BY <2>1, SubSeqProperties
    <2> HIDE DEF A
    <2>3. Len(A) = k - 1 BY <1>1, <2>2
    <2>4. \A i \in 1 .. k - 1 : A[i] = ts[i] BY <1>1, <2>2
    <2> QED BY <2>2, <2>3, <2>4
  <1>3. /\ B \in Seq(TabIds) /\ Len(B) = Len(ts) - k + 1
        /\ \A i \in 1 .. Len(ts) - k + 1 : B[i] = ts[k + i - 1]
    <2>1. \A i \in k .. Len(ts) : ts[i] \in TabIds BY <1>1
    <2>2. /\ B \in Seq(TabIds)
          /\ Len(B) = IF k <= Len(ts) THEN Len(ts) - k + 1 ELSE 0
          /\ \A i \in 1 .. Len(ts) - k + 1 : B[i] = ts[k + i - 1]
      BY <1>1, <2>1, SubSeqProperties
    <2> HIDE DEF B
    <2>3. Len(B) = Len(ts) - k + 1 BY <1>1, <2>2
    <2> QED BY <2>2, <2>3
  <1>4. <<e>> \in Seq(TabIds) /\ Len(<<e>>) = 1 /\ <<e>>[1] = e OBVIOUS
  <1> HIDE DEF A, B
  <1>5. /\ C \in Seq(TabIds) /\ Len(C) = Len(A) + Len(<<e>>)
        /\ \A i \in 1 .. Len(A) + Len(<<e>>) :
             C[i] = IF i <= Len(A) THEN A[i] ELSE <<e>>[i - Len(A)]
    BY <1>2, <1>4, ConcatProperties
  <1> HIDE DEF C
  <1>6. /\ Len(C) = k /\ C[k] = e
        /\ \A i \in 1 .. k - 1 : C[i] = ts[i]
    BY <1>1, <1>2, <1>4, <1>5
  <1>7. /\ D \in Seq(TabIds) /\ Len(D) = Len(C) + Len(B)
        /\ \A i \in 1 .. Len(C) + Len(B) : D[i] = IF i <= Len(C) THEN C[i] ELSE B[i - Len(C)]
    <2>1. B \in Seq(TabIds) /\ C \in Seq(TabIds) BY <1>3, <1>5
    <2> QED BY <2>1, ConcatProperties
  <1> HIDE DEF D
  <1>9. Len(D) = Len(ts) + 1 BY <1>1, <1>3, <1>6, <1>7
  <1>10. ASSUME NEW m \in 1 .. Len(ts) + 1
         PROVE  D[m] = IF m < k THEN ts[m] ELSE IF m = k THEN e ELSE ts[m - 1]
    <2>1. CASE m <= k BY <1>1, <1>3, <1>6, <1>7, <2>1
    <2>2. CASE m > k
      <3>1. D[m] = B[m - k] BY <1>1, <1>3, <1>6, <1>7, <2>2
      <3>2. m - k \in 1 .. Len(ts) - k + 1 BY <1>1, <2>2
      <3>3. B[m - k] = ts[k + (m - k) - 1] BY <1>3, <3>2
      <3>4. k + (m - k) - 1 = m - 1 BY <1>1
      <3> QED BY <1>1, <2>2, <3>1, <3>3, <3>4
    <2> QED BY <1>1, <2>1, <2>2
  <1> QED BY <1>7, <1>8, <1>9, <1>10 DEF Inserted

LEMMA AppendInserts ==
  ASSUME NEW ts \in Seq(TabIds), NEW e \in TabIds
  PROVE  Inserted(Append(ts, e), ts, Len(ts) + 1, e)
  BY AppendProperties, LenProperties DEF Inserted

\* A tab may come to k: a pinned one among the b pinned, another one behind
\* them.  Q is what is pinned before, P after.
MayCome(Q, P, ts, b, e, k) ==
  /\ Group(Q, ts) /\ Zone(Q, ts, b)
  /\ e \in TabIds \ ToSet(ts) /\ P \ {e} = Q \ {e}
  /\ k \in 1 .. Len(ts) + 1 /\ IF e \in P THEN k <= b + 1 ELSE k >= b + 1

LEMMA InsertedGroup ==
  ASSUME NEW Q, NEW P, NEW ts, NEW b, NEW e, NEW k, MayCome(Q, P, ts, b, e, k),
         NEW out, Inserted(out, ts, k, e)
  PROVE  /\ Group(P, out) /\ out # <<>>
         /\ ToSet(out) = ToSet(ts) \cup {e}
  <1> USE DEF MayCome
  <1>1. ts \in Seq(TabIds) /\ IsInjective(ts) BY DEF Group
  <1>2. DOMAIN ts = 1 .. Len(ts) /\ Len(ts) \in Nat BY <1>1, LenProperties
  <1>3. out \in Seq(TabIds) /\ DOMAIN out = 1 .. Len(ts) + 1 /\ out # <<>>
    BY <1>2, LenProperties, EmptySeq DEF Inserted
  <1>4. b \in Nat /\ \A i \in DOMAIN ts : ts[i] \in P <=> i <= b
    BY <1>2 DEF Zone, ToSet
  <1>5. \A i \in DOMAIN ts : ts[i] # e BY DEF ToSet
  <1>6. ASSUME NEW m \in DOMAIN out
        PROVE  \/ m < k /\ m \in DOMAIN ts /\ out[m] = ts[m]
               \/ m = k /\ out[m] = e
               \/ m > k /\ m - 1 \in DOMAIN ts /\ out[m] = ts[m - 1]
    BY <1>2, <1>3 DEF Inserted
  <1>7. ASSUME NEW i \in DOMAIN out, NEW j \in DOMAIN out, out[i] = out[j] PROVE i = j
    <2>1. i \in Nat /\ j \in Nat /\ k \in Nat BY <1>2, <1>3
    <2>2. \A g, h \in DOMAIN ts : ts[g] = ts[h] => g = h BY <1>1 DEF IsInjective
    <2>3. CASE i < k
      <3>1. i \in DOMAIN ts /\ out[i] = ts[i] BY <1>6, <2>1, <2>3
      <3>2. j # k
        <4>1. j = k => out[j] = e BY <1>6, <2>1
        <4> QED BY <1>5, <1>7, <3>1, <4>1
      <3>3. CASE j < k
        <4>1. j \in DOMAIN ts /\ out[j] = ts[j] BY <1>6, <2>1, <3>3
        <4> QED BY <1>7, <2>2, <3>1, <4>1
      <3>4. CASE j > k
        <4>1. j - 1 \in DOMAIN ts /\ out[j] = ts[j - 1] BY <1>6, <2>1, <3>4
        <4>2. i = j - 1 BY <1>7, <2>2, <3>1, <4>1
        <4> QED BY <1>2, <2>1, <2>3, <3>4, <4>2
      <3> QED BY <1>2, <2>1, <3>2, <3>3, <3>4
    <2>4. CASE i = k BY <1>5, <1>6, <1>7, <2>1, <2>4
    <2>5. CASE i > k
      <3>1. i - 1 \in DOMAIN ts /\ out[i] = ts[i - 1] BY <1>6, <2>1, <2>5
      <3>2. j # k
        <4>1. j = k => out[j] = e BY <1>6, <2>1
        <4> QED BY <1>5, <1>7, <3>1, <4>1
      <3>3. CASE j < k
        <4>1. j \in DOMAIN ts /\ out[j] = ts[j] BY <1>6, <2>1, <3>3
        <4>2. i - 1 = j BY <1>7, <2>2, <3>1, <4>1
        <4> QED BY <1>2, <2>1, <2>5, <3>3, <4>2
      <3>4. CASE j > k
        <4>1. j - 1 \in DOMAIN ts /\ out[j] = ts[j - 1] BY <1>6, <2>1, <3>4
        <4>2. i - 1 = j - 1 BY <1>7, <2>2, <3>1, <4>1
        <4> QED BY <2>1, <4>2
      <3> QED BY <1>2, <2>1, <3>2, <3>3, <3>4
    <2> QED BY <1>2, <2>1, <2>3, <2>4, <2>5
  <1>8. ASSUME NEW i \in DOMAIN out, NEW j \in DOMAIN out, i < j, out[j] \in P
        PROVE  out[i] \in P
    <2>1. i \in Nat /\ j \in Nat /\ k \in Nat BY <1>2, <1>3
    <2>2. e \in P => k <= b + 1 OBVIOUS
    <2>3. e \notin P => k >= b + 1 OBVIOUS
    <2>4. j < k => j <= b BY <1>4, <1>6, <1>8, <2>1
    <2>5. j > k => j - 1 <= b BY <1>4, <1>6, <1>8, <2>1
    <2>6. j = k => e \in P BY <1>6, <1>8, <2>1
    <2>7. i < k => i <= b BY <1>4, <1>8, <2>1, <2>2, <2>4, <2>5, <2>6
    <2>8. i = k => e \in P BY <1>4, <1>8, <2>1, <2>3, <2>5
    <2>9. i > k => i - 1 <= b BY <1>4, <1>8, <2>1, <2>5
    <2>10. CASE i < k BY <1>4, <1>6, <2>1, <2>7, <2>10
    <2>11. CASE i = k BY <1>6, <2>1, <2>8, <2>11
    <2>12. CASE i > k
      <3>1. i - 1 \in DOMAIN ts /\ out[i] = ts[i - 1] BY <1>6, <2>1, <2>12
      <3> QED BY <1>4, <2>9, <2>12, <3>1
    <2> QED BY <2>1, <2>10, <2>11, <2>12
  <1>9. ToSet(out) = ToSet(ts) \cup {e}
    <2>1. ASSUME NEW t \in ToSet(out) PROVE t \in ToSet(ts) \cup {e}
      BY <1>6 DEF ToSet
    <2>2. ASSUME NEW t \in ToSet(ts) PROVE t \in ToSet(out)
      <3>1. PICK i \in DOMAIN ts : ts[i] = t BY DEF ToSet
      <3>2. i < k => i \in DOMAIN out /\ out[i] = t BY <1>2, <1>3, <3>1 DEF Inserted
      <3>3. ~ (i < k) => i + 1 \in DOMAIN out /\ out[i + 1] = t
        <4>1. i + 1 \in DOMAIN out /\ i + 1 - 1 = i BY <1>2, <1>3
        <4> QED BY <1>2, <1>3, <3>1, <4>1 DEF Inserted
      <3> QED BY <3>2, <3>3 DEF ToSet
    <2>3. e \in ToSet(out) BY <1>2, <1>3 DEF Inserted, ToSet
    <2> QED BY <2>1, <2>2, <2>3
  <1> QED BY <1>3, <1>7, <1>8, <1>9 DEF Group, IsInjective, PinnedFront

LEMMA RemoveAtRemoves ==
  ASSUME NEW ts \in Seq(TabIds), NEW i \in DOMAIN ts
  PROVE  /\ RemoveAt(ts, i) \in Seq(TabIds) /\ Len(RemoveAt(ts, i)) = Len(ts) - 1
         /\ \A m \in 1 .. Len(ts) - 1 : RemoveAt(ts, i)[m] = IF m < i THEN ts[m] ELSE ts[m + 1]
  <1> DEFINE A == SubSeq(ts, 1, i - 1)
             B == SubSeq(ts, i + 1, Len(ts))
             C == RemoveAt(ts, i)
  <1>0. C = A \o B BY DEF RemoveAt
  <1>1. /\ Len(ts) \in Nat /\ DOMAIN ts = 1 .. Len(ts)
        /\ \A h \in 1 .. Len(ts) : ts[h] \in TabIds
    BY LenProperties, ElementOfSeq
  <1>2. A \in Seq(TabIds) /\ Len(A) = i - 1 /\ \A h \in 1 .. i - 1 : A[h] = ts[h]
    <2>1. \A h \in 1 .. i - 1 : ts[h] \in TabIds BY <1>1
    <2>2. /\ A \in Seq(TabIds)
          /\ Len(A) = IF 1 <= i - 1 THEN i - 1 - 1 + 1 ELSE 0
          /\ \A h \in 1 .. i - 1 - 1 + 1 : A[h] = ts[1 + h - 1]
      BY <1>1, <2>1, SubSeqProperties
    <2> HIDE DEF A
    <2> QED BY <1>1, <2>2
  <1>3. /\ B \in Seq(TabIds) /\ Len(B) = Len(ts) - i
        /\ \A h \in 1 .. Len(ts) - i : B[h] = ts[i + h]
    <2>1. \A h \in i + 1 .. Len(ts) : ts[h] \in TabIds BY <1>1
    <2>2. /\ B \in Seq(TabIds)
          /\ Len(B) = IF i + 1 <= Len(ts) THEN Len(ts) - (i + 1) + 1 ELSE 0
          /\ \A h \in 1 .. Len(ts) - (i + 1) + 1 : B[h] = ts[i + 1 + h - 1]
      BY <1>1, <2>1, SubSeqProperties
    <2> HIDE DEF B
    <2>3. Len(B) = Len(ts) - i BY <1>1, <2>2
    <2>4. ASSUME NEW h \in 1 .. Len(ts) - i PROVE B[h] = ts[i + h]
      <3>1. h \in 1 .. Len(ts) - (i + 1) + 1 /\ i + 1 + h - 1 = i + h BY <1>1
      <3> QED BY <2>2, <3>1
    <2> QED BY <2>2, <2>3, <2>4
  <1> HIDE DEF A, B, C
  <1>4. /\ C \in Seq(TabIds) /\ Len(C) = Len(A) + Len(B)
        /\ \A h \in 1 .. Len(A) + Len(B) : C[h] = IF h <= Len(A) THEN A[h] ELSE B[h - Len(A)]
    BY <1>0, <1>2, <1>3, ConcatProperties
  <1>5. Len(C) = Len(ts) - 1 BY <1>1, <1>2, <1>3, <1>4
  <1>6. ASSUME NEW m \in 1 .. Len(ts) - 1 PROVE C[m] = IF m < i THEN ts[m] ELSE ts[m + 1]
    <2>1. CASE m < i BY <1>1, <1>2, <1>3, <1>4, <2>1
    <2>2. CASE ~ (m < i)
      <3>1. C[m] = B[m - (i - 1)] BY <1>1, <1>2, <1>3, <1>4, <2>2
      <3>2. m - (i - 1) \in 1 .. Len(ts) - i BY <1>1, <2>2
      <3>3. B[m - (i - 1)] = ts[i + (m - (i - 1))] BY <1>3, <3>2
      <3>4. i + (m - (i - 1)) = m + 1 BY <1>1
      <3> QED BY <2>2, <3>1, <3>3, <3>4
    <2> QED BY <2>1, <2>2
  <1> QED BY <1>4, <1>5, <1>6 DEF C

LEMMA RemovedGroup ==
  ASSUME NEW P, NEW ts, Group(P, ts), NEW b, Zone(P, ts, b), NEW i \in DOMAIN ts
  PROVE  /\ Group(P, RemoveAt(ts, i)) /\ Len(RemoveAt(ts, i)) = Len(ts) - 1
         /\ ToSet(RemoveAt(ts, i)) = ToSet(ts) \ {ts[i]}
         /\ Zone(P, RemoveAt(ts, i), IF i <= b THEN b - 1 ELSE b)
  <1> DEFINE R == RemoveAt(ts, i)
             c == IF i <= b THEN b - 1 ELSE b
             of(m) == IF m < i THEN m ELSE m + 1
  <1>1. ts \in Seq(TabIds) /\ IsInjective(ts) BY DEF Group
  <1>2. DOMAIN ts = 1 .. Len(ts) /\ Len(ts) \in Nat BY <1>1, LenProperties
  <1>3. /\ R \in Seq(TabIds) /\ Len(R) = Len(ts) - 1
        /\ \A m \in 1 .. Len(ts) - 1 : R[m] = IF m < i THEN ts[m] ELSE ts[m + 1]
    BY <1>1, RemoveAtRemoves
  <1>4. b \in 0 .. Len(ts) /\ \A h \in DOMAIN ts : ts[h] \in P <=> h <= b BY DEF Zone
  <1> HIDE DEF R
  <1>5. DOMAIN R = 1 .. Len(ts) - 1 BY <1>3, LenProperties
  <1>6. \A m \in DOMAIN R : m \in Nat /\ of(m) \in DOMAIN ts /\ of(m) # i /\ R[m] = ts[of(m)]
    BY <1>2, <1>3, <1>5
  <1>7. ASSUME NEW m \in DOMAIN R, NEW n \in DOMAIN R, R[m] = R[n] PROVE m = n
    <2>1. of(m) = of(n)
      <3> HIDE DEF of
      <3> QED BY <1>1, <1>6, <1>7 DEF IsInjective
    <2> QED BY <1>2, <1>5, <2>1
  <1>8. c \in 0 .. Len(R) /\ \A m \in DOMAIN R : R[m] \in P <=> m <= c
    <2>1. c \in 0 .. Len(R) BY <1>2, <1>3, <1>4
    <2>2. ASSUME NEW m \in DOMAIN R PROVE R[m] \in P <=> m <= c
      <3>1. R[m] \in P <=> of(m) <= b
        <4> HIDE DEF of
        <4> QED BY <1>4, <1>6
      <3>2. of(m) <= b <=> m <= c BY <1>2, <1>4, <1>5
      <3> QED BY <3>1, <3>2
    <2> QED BY <2>1, <2>2
  <1>9. PinnedFront(P, R)
    <2> SUFFICES ASSUME NEW m \in DOMAIN R, NEW n \in DOMAIN R, m < n, R[n] \in P
                 PROVE  R[m] \in P
      BY DEF PinnedFront
    <2>1. m \in Nat /\ n \in Nat BY <1>6
    <2>2. n <= c /\ c \in Nat BY <1>3, <1>8
    <2> QED BY <1>8, <2>1, <2>2
  <1>10. ToSet(R) = ToSet(ts) \ {ts[i]}
    <2>1. ASSUME NEW t \in ToSet(R) PROVE t \in ToSet(ts) \ {ts[i]}
      <3>1. PICK m \in DOMAIN R : R[m] = t BY DEF ToSet
      <3>2. of(m) \in DOMAIN ts /\ of(m) # i /\ t = ts[of(m)] BY <1>6, <3>1
      <3> HIDE DEF of
      <3> QED BY <1>1, <3>2 DEF ToSet, IsInjective
    <2>2. ASSUME NEW t \in ToSet(ts) \ {ts[i]} PROVE t \in ToSet(R)
      <3>1. PICK h \in DOMAIN ts : ts[h] = t BY DEF ToSet
      <3>2. h < i => h \in DOMAIN R /\ R[h] = t BY <1>2, <1>3, <1>5, <3>1
      <3>3. h # i BY <3>1
      <3>4. h > i => h - 1 \in DOMAIN R /\ R[h - 1] = t
        <4>1. h > i => h - 1 \in 1 .. Len(ts) - 1 /\ h - 1 + 1 = h /\ ~ (h - 1 < i)
          BY <1>2
        <4> QED BY <1>3, <1>5, <3>1, <4>1
      <3>5. h \in Nat /\ i \in Nat BY <1>2
      <3>6. h < i \/ h > i BY <3>3, <3>5
      <3> QED BY <3>2, <3>4, <3>6 DEF ToSet
    <2> QED BY <2>1, <2>2
  <1>11. Group(P, R) BY <1>3, <1>7, <1>9 DEF Group, IsInjective
  <1>12. Zone(P, R, c) BY <1>8 DEF Zone
  <1> QED BY <1>3, <1>10, <1>11, <1>12 DEF R

\* pinnedBoundary counts the pinned tabs.
LEMMA Boundary ==
  ASSUME NEW s, NEW ts, Group(Pinned(s), ts)
  PROVE  Zone(Pinned(s), ts, PinnedBoundary(s, ts))
  <1> DEFINE P == Pinned(s)
             I == {i \in DOMAIN ts : \A j \in 1 .. i : s.tab[ts[j]].pinned}
             C == DOMAIN ts \ I
  <1>1. ts \in Seq(TabIds) /\ PinnedFront(P, ts) BY DEF Group
  <1>2. /\ DOMAIN ts = 1 .. Len(ts) /\ Len(ts) \in Nat
        /\ \A i \in 1 .. Len(ts) : ts[i] \in TabIds
    BY <1>1, LenProperties, ElementOfSeq
  <1>3. PinnedBoundary(s, ts) = Cardinality(I) BY DEF PinnedBoundary
  <1>4. \A i \in DOMAIN ts : s.tab[ts[i]].pinned <=> ts[i] \in P BY <1>2 DEF Pinned
  <1>5. ASSUME NEW i \in DOMAIN ts PROVE i \in I <=> ts[i] \in P
    <2>1. i \in I => ts[i] \in P BY <1>2, <1>4
    <2>2. ASSUME ts[i] \in P, NEW j \in 1 .. i PROVE s.tab[ts[j]].pinned
      <3>1. j \in DOMAIN ts /\ j \in Nat /\ i \in Nat BY <1>2
      <3>2. ts[j] \in P BY <1>1, <2>2, <3>1 DEF PinnedFront
      <3> QED BY <1>4, <3>1, <3>2
    <2> QED BY <2>1, <2>2
  <1>6. \A i \in I, j \in DOMAIN ts : j <= i => j \in I
    <2> SUFFICES ASSUME NEW i \in I, NEW j \in DOMAIN ts, j <= i PROVE j \in I OBVIOUS
    <2>1. j \in Nat /\ i \in Nat BY <1>2
    <2>2. \A h \in 1 .. j : h \in 1 .. i BY <2>1
    <2> QED BY <2>2
  <1>7. I \subseteq DOMAIN ts OBVIOUS
  <1> HIDE DEF I, P
  <1>8. CASE C = {}
    <2>1. I = 1 .. Len(ts) BY <1>2, <1>7, <1>8
    <2>2. Cardinality(I) = Len(ts) BY <1>2, <2>1, FS_Interval
    <2>3. \A i \in DOMAIN ts : ts[i] \in P <=> i <= Len(ts) BY <1>2, <1>5, <2>1
    <2> QED BY <1>2, <1>3, <2>2, <2>3 DEF Zone, P
  <1>9. CASE C # {}
    <2>1. IsFiniteSet(1 .. Len(ts)) BY <1>2, FS_Interval
    <2>2. C \in SUBSET Nat /\ IsFiniteSet(C)
      <3>1. C \subseteq 1 .. Len(ts) BY <1>2
      <3> QED BY <1>2, <2>1, <3>1, FS_Subset
    <2> HIDE DEF C
    <2>3. PICK m \in C : \A j \in C : m <= j BY <1>9, <2>2, Least
    <2>4. m \in 1 .. Len(ts) /\ m \in Nat /\ \A i \in C : i \in Nat BY <2>2, <2>3 DEF C
    <2>5. \A i \in DOMAIN ts : i \in I <=> i \notin C BY <1>7 DEF C
    <2>6. ASSUME NEW i \in DOMAIN ts PROVE i \in I <=> i <= m - 1
      <3>1. i \in Nat /\ m \in DOMAIN ts BY <1>2, <2>4
      <3>2. i \in C => m <= i BY <2>3
      <3>3. i \in I /\ m <= i => m \in I BY <1>6, <3>1
      <3>4. m \notin I BY <2>3, <2>5, <3>1
      <3> QED BY <2>4, <2>5, <3>1, <3>2, <3>3, <3>4
    <2>7. I = 1 .. m - 1
      <3>1. ASSUME NEW i \in I PROVE i \in 1 .. m - 1
        <4>1. i \in 1 .. Len(ts) /\ i <= m - 1 BY <1>2, <1>7, <2>6
        <4> QED BY <2>4, <4>1
      <3>2. ASSUME NEW i \in 1 .. m - 1 PROVE i \in I
        <4>1. i \in 1 .. Len(ts) BY <1>2, <2>4
        <4> QED BY <1>2, <2>6, <4>1
      <3> QED BY <3>1, <3>2
    <2>8. Cardinality(I) = m - 1
      <3>1. 1 \in Int /\ m - 1 \in Int BY <2>4
      <3>2. Cardinality(1 .. m - 1) = IF 1 > m - 1 THEN 0 ELSE m - 1 - 1 + 1
        BY <3>1, FS_Interval
      <3> QED BY <2>4, <2>7, <3>2
    <2>9. \A i \in DOMAIN ts : ts[i] \in P <=> i <= m - 1 BY <1>5, <2>6
    <2>10. m - 1 \in 0 .. Len(ts) BY <1>2, <2>4
    <2> QED BY <1>3, <2>8, <2>9, <2>10 DEF Zone, P
  <1> QED BY <1>8, <1>9

\* What is looked for in a sequence and is there, is found.
LEMMA Found ==
  ASSUME NEW S, NEW ts \in Seq(S), NEW K, ToSet(ts) \cap K # {}
  PROVE  /\ SelectInSeq(ts, LAMBDA t : t \in K) \in DOMAIN ts
         /\ ts[SelectInSeq(ts, LAMBDA t : t \in K)] \in K \cap ToSet(ts)
  <1> DEFINE I == {i \in 1 .. Len(ts) : ts[i] \in K}
  <1>1. DOMAIN ts = 1 .. Len(ts) /\ Len(ts) \in Nat BY LenProperties
  <1>2. I # {} BY <1>1 DEF ToSet
  <1>3. I \in SUBSET Nat /\ IsFiniteSet(I)
    <2>1. IsFiniteSet(1 .. Len(ts)) BY <1>1, FS_Interval
    <2>2. I \subseteq 1 .. Len(ts) OBVIOUS
    <2> QED BY <1>1, <2>1, <2>2, FS_Subset
  <1>4. SelectInSeq(ts, LAMBDA t : t \in K) = Min(I) BY <1>2 DEF SelectInSeq
  <1>5. \A i \in I : i \in DOMAIN ts /\ ts[i] \in K BY <1>1
  <1> HIDE DEF I
  <1>6. Min(I) \in I BY <1>2, <1>3, Least
  <1>7. Min(I) \in DOMAIN ts /\ ts[Min(I)] \in K \cap ToSet(ts)
    BY <1>5, <1>6 DEF ToSet
  <1> QED BY <1>4, <1>7

-----------------------------------------------------------------------------
(* Stores                                                                  *)

Tab == [path : Place \cup {Root}, at : Place \cup {Root}, pinned : BOOLEAN]
Store == [active  : Workspaces \cup {None},
          tabs    : [Workspaces -> Seq(TabIds)],
          current : [Workspaces -> TabIds \cup {None}],
          tab     : [TabIds -> Tab]]

\* The groups are in order and no tab is in two of them.
Neat(s) ==
  /\ s \in Store
  /\ \A w \in Workspaces : Group(Pinned(s), s.tabs[w])
  /\ \A v, w \in Workspaces : v # w => InGroup(s, v) \cap InGroup(s, w) = {}

\* As Good, but what group w shows is about to be chosen.
GoodBut(s, w) ==
  /\ Neat(s)
  /\ s.active \in Groups(s) \cup {None, w}
  /\ \A v \in Groups(s) \ {w} : s.current[v] \in InGroup(s, v)

Good(s) ==
  /\ Neat(s)
  /\ s.active \in Groups(s) \cup {None}
  /\ \A w \in Groups(s) : s.current[w] \in InGroup(s, w)

\* The stored path of t is where its router is.
AtPath(s, t) == s.tab[t].path = s.tab[t].at

\* r is a store that a method may make of s, n the tab it may create: no router
\* leaves its path, and nothing is left without a workspace in front.
KeepsPaths(s, r, n) == \A t \in TabIds \ {n} : AtPath(s, t) => AtPath(r, t)
Kept(s, r, n) == (s.active # None => r.active # None) /\ KeepsPaths(s, r, n)
Becomes(s, r, n) == Good(r) /\ Kept(s, r, n)

LEMMA Fields ==
  ASSUME NEW s \in Store
  PROVE  /\ s.active \in Workspaces \cup {None}
         /\ s.tabs \in [Workspaces -> Seq(TabIds)]
         /\ s.current \in [Workspaces -> TabIds \cup {None}]
         /\ s.tab \in [TabIds -> Tab]
         /\ \A a \in Workspaces \cup {None} : [s EXCEPT !.active = a] \in Store
         /\ s = [active |-> s.active, tabs |-> s.tabs, current |-> s.current, tab |-> s.tab]
  BY DEF Store

\* What is in a sequence is one of its set.
LEMMA Members ==
  ASSUME NEW ts \in Seq(TabIds)
  PROVE  /\ ToSet(ts) \subseteq TabIds
         /\ ts = <<>> <=> ToSet(ts) = {}
         /\ \A i \in DOMAIN ts : ts[i] \in ToSet(ts)
  <1>1. DOMAIN ts = 1 .. Len(ts) /\ Len(ts) \in Nat BY LenProperties
  <1>2. \A i \in DOMAIN ts : ts[i] \in TabIds BY <1>1, ElementOfSeq
  <1>3. ts # <<>> => 1 \in DOMAIN ts BY <1>1, EmptySeq
  <1>4. ts = <<>> => DOMAIN ts = {} BY <1>1, EmptySeq
  <1> QED BY <1>2, <1>3, <1>4 DEF ToSet

LEMMA InGroups ==
  ASSUME NEW s, Neat(s)
  PROVE  /\ \A w \in Workspaces : InGroup(s, w) \subseteq TabIds /\ InGroup(s, w) \subseteq Live(s)
         /\ \A w \in Workspaces : w \in Groups(s) <=> InGroup(s, w) # {}
         /\ Live(s) \subseteq TabIds
         /\ \A t \in Live(s) : OwnerOf(s, t) \in Workspaces /\ t \in InGroup(s, OwnerOf(s, t))
         /\ \A w \in Workspaces : \A t \in InGroup(s, w) : OwnerOf(s, t) = w
  <1>1. \A w \in Workspaces : s.tabs[w] \in Seq(TabIds) BY DEF Neat, Group
  <1>2. \A w \in Workspaces : InGroup(s, w) \subseteq TabIds BY <1>1, Members DEF InGroup
  <1>3. \A w \in Workspaces : w \in Groups(s) <=> InGroup(s, w) # {}
    BY <1>1, Members DEF InGroup, Groups
  <1>4. \A w \in Workspaces : InGroup(s, w) \subseteq Live(s) BY DEF Live
  <1>5. Live(s) \subseteq TabIds BY <1>2 DEF Live
  <1>6. \A t \in Live(s) : \E w \in Workspaces : t \in InGroup(s, w) BY DEF Live
  <1>7. ASSUME NEW t \in Live(s)
        PROVE  OwnerOf(s, t) \in Workspaces /\ t \in InGroup(s, OwnerOf(s, t))
    BY <1>6 DEF OwnerOf
  <1>8. ASSUME NEW w \in Workspaces, NEW t \in InGroup(s, w) PROVE OwnerOf(s, t) = w
    <2>1. t \in Live(s) BY <1>4
    <2>2. OwnerOf(s, t) \in Workspaces /\ t \in InGroup(s, OwnerOf(s, t)) BY <1>7, <2>1
    <2>3. \A v, u \in Workspaces : v # u => InGroup(s, v) \cap InGroup(s, u) = {} BY DEF Neat
    <2> QED BY <2>2, <2>3
  <1> QED BY <1>2, <1>3, <1>4, <1>5, <1>7, <1>8

LEMMA GoodGoodBut ==
  ASSUME NEW s, Good(s), NEW w
  PROVE  GoodBut(s, w)
  BY DEF Good, GoodBut

\* A group's order is a matter of its own tabs' pins.
LEMMA GroupOf ==
  ASSUME NEW P, NEW Q, NEW ts, Group(P, ts), \A t \in ToSet(ts) : t \in P <=> t \in Q
  PROVE  Group(Q, ts)
  <1>1. ts \in Seq(TabIds) /\ IsInjective(ts) BY DEF Group
  <1>2. \A i \in DOMAIN ts : ts[i] \in P <=> ts[i] \in Q BY DEF ToSet
  <1> QED BY <1>1, <1>2 DEF Group, PinnedFront

\* The group of w gets another sequence, of tabs of no other group.
LEMMA Regroup ==
  ASSUME NEW s, Neat(s), NEW w \in Workspaces, NEW r \in Store, NEW ts,
         r.tabs = [s.tabs EXCEPT ![w] = ts], Group(Pinned(r), ts),
         \A t \in Live(s) \ InGroup(s, w) :
           t \notin ToSet(ts) /\ (t \in Pinned(r) <=> t \in Pinned(s))
  PROVE  /\ Neat(r)
         /\ InGroup(r, w) = ToSet(ts)
         /\ \A v \in Workspaces \ {w} : InGroup(r, v) = InGroup(s, v) /\ r.tabs[v] = s.tabs[v]
  <1>1. s.tabs \in [Workspaces -> Seq(TabIds)] BY Fields DEF Neat
  <1>2. r.tabs[w] = ts /\ \A v \in Workspaces \ {w} : r.tabs[v] = s.tabs[v] BY <1>1
  <1>3. /\ InGroup(r, w) = ToSet(ts)
        /\ \A v \in Workspaces \ {w} : InGroup(r, v) = InGroup(s, v)
    BY <1>2 DEF InGroup
  <1>4. \A v \in Workspaces \ {w} : InGroup(s, v) \subseteq Live(s) \ InGroup(s, w)
    BY DEF Neat, Live
  <1>5. ASSUME NEW v \in Workspaces PROVE Group(Pinned(r), r.tabs[v])
    <2>1. CASE v = w BY <1>2, <2>1
    <2>2. CASE v # w
      <3>1. Group(Pinned(s), s.tabs[v]) BY DEF Neat
      <3>2. \A t \in ToSet(s.tabs[v]) : t \in Pinned(s) <=> t \in Pinned(r)
        BY <1>4, <2>2 DEF InGroup
      <3> QED BY <1>2, <2>2, <3>1, <3>2, GroupOf
    <2> QED BY <2>1, <2>2
  <1>6. ASSUME NEW u \in Workspaces, NEW v \in Workspaces, u # v
        PROVE  InGroup(r, u) \cap InGroup(r, v) = {}
    <2>1. CASE u = w BY <1>3, <1>4, <1>6, <2>1
    <2>2. CASE v = w BY <1>3, <1>4, <1>6, <2>2
    <2>3. CASE u # w /\ v # w BY <1>3, <1>6, <2>3 DEF Neat
    <2> QED BY <2>1, <2>2, <2>3
  <1>7. Neat(r) BY <1>5, <1>6 DEF Neat
  <1> QED BY <1>2, <1>3, <1>7

\* A group chooses one of its tabs, and may come to the front.
LEMMA Focus ==
  ASSUME NEW s, NEW w \in Workspaces, GoodBut(s, w), NEW t \in InGroup(s, w),
         NEW r, r.tabs = s.tabs, r.tab = s.tab, r \in Store,
         r.current = [s.current EXCEPT ![w] = t], r.active \in {s.active, w}
  PROVE  Good(r)
  <1>1. Neat(s) BY DEF GoodBut
  <1>2. s.current \in [Workspaces -> TabIds \cup {None}] BY <1>1, Fields DEF Neat
  <1>3. Pinned(r) = Pinned(s) /\ \A v : InGroup(r, v) = InGroup(s, v)
    BY DEF Pinned, InGroup
  <1>4. Groups(r) = Groups(s) /\ w \in Groups(s)
    BY <1>1, InGroups DEF Groups
  <1>5. Neat(r) BY <1>1, <1>3 DEF Neat
  <1>6. r.active \in Groups(r) \cup {None} BY <1>4 DEF GoodBut
  <1>7. ASSUME NEW v \in Groups(r) PROVE r.current[v] \in InGroup(r, v)
    <2>1. v \in Workspaces BY DEF Groups
    <2>2. CASE v = w BY <1>2, <1>3, <2>2
    <2>3. CASE v # w BY <1>2, <1>3, <1>4, <2>1, <2>3 DEF GoodBut
    <2> QED BY <2>2, <2>3
  <1> QED BY <1>5, <1>6, <1>7 DEF Good

-----------------------------------------------------------------------------
(* The methods that open, show and look for tabs                           *)

LEMMA Places ==
  ASSUME NEW w \in Workspaces
  PROVE  DefaultPath(w) \in Place
  BY TabAssumption DEF DefaultPath, Place

LEMMA NewTabs ==
  ASSUME NEW p \in Place \cup {Root}
  PROVE  MakeTab(p) \in Tab /\ ~ MakeTab(p).pinned /\ MakeTab(p).path = MakeTab(p).at
  BY DEF MakeTab, Tab

LEMMA Appended ==
  ASSUME NEW s, Neat(s), NEW w \in Workspaces, NEW n \in TabIds \ Live(s),
         NEW p \in Place \cup {Root}, NEW r, r = Append1(s, w, n, p)
  PROVE  /\ Neat(r) /\ r.active = s.active /\ r.current = s.current
         /\ InGroup(r, w) = InGroup(s, w) \cup {n}
         /\ \A v \in Workspaces \ {w} : InGroup(r, v) = InGroup(s, v)
         /\ \A t \in TabIds \ {n} : r.tab[t] = s.tab[t]
  <1>1. s \in Store BY DEF Neat
  <1> DEFINE ts == Append(s.tabs[w], n)
  <1>2. /\ s.tabs \in [Workspaces -> Seq(TabIds)] /\ s.tab \in [TabIds -> Tab]
        /\ s.active \in Workspaces \cup {None}
        /\ s.current \in [Workspaces -> TabIds \cup {None}]
    BY <1>1, Fields
  <1>3. s = [active |-> s.active, tabs |-> s.tabs, current |-> s.current, tab |-> s.tab]
    BY <1>1, Fields
  <1>4. /\ r.active = s.active /\ r.current = s.current
        /\ r.tabs = [s.tabs EXCEPT ![w] = ts]
        /\ r.tab = [s.tab EXCEPT ![n] = MakeTab(p)]
        /\ r = [active |-> r.active, tabs |-> r.tabs, current |-> r.current, tab |-> r.tab]
    BY <1>3 DEF Append1
  <1>5. Group(Pinned(s), s.tabs[w]) /\ s.tabs[w] \in Seq(TabIds) BY <1>2 DEF Neat
  <1>6. n \notin ToSet(s.tabs[w]) BY <1>1, InGroups DEF InGroup
  <1>7. ts \in Seq(TabIds) BY <1>5, AppendProperties
  <1> HIDE DEF ts
  <1>8. r \in Store
    <2>1. r.tabs \in [Workspaces -> Seq(TabIds)] BY <1>2, <1>4, <1>7
    <2>2. r.tab \in [TabIds -> Tab] BY <1>2, <1>4, NewTabs
    <2> QED BY <1>2, <1>4, <2>1, <2>2 DEF Store
  <1>9. Pinned(r) = Pinned(s) \ {n} /\ \A t \in TabIds \ {n} : r.tab[t] = s.tab[t]
    <2>1. r.tab[n] = MakeTab(p) /\ \A t \in TabIds \ {n} : r.tab[t] = s.tab[t]
      BY <1>2, <1>4
    <2> QED BY <2>1, NewTabs DEF Pinned
  <1>10. Group(Pinned(r), ts) /\ ToSet(ts) = ToSet(s.tabs[w]) \cup {n}
    <2>1. Zone(Pinned(s), s.tabs[w], PinnedBoundary(s, s.tabs[w])) BY <1>5, Boundary
    <2>2. Inserted(ts, s.tabs[w], Len(s.tabs[w]) + 1, n) BY <1>5, AppendInserts DEF ts
    <2>3. Len(s.tabs[w]) \in Nat /\ PinnedBoundary(s, s.tabs[w]) \in 0 .. Len(s.tabs[w])
      BY <1>5, <2>1, LenProperties DEF Zone
    <2>4. Pinned(r) \ {n} = Pinned(s) \ {n} /\ n \notin Pinned(r) BY <1>9
    <2>5. Len(s.tabs[w]) + 1 \in 1 .. Len(s.tabs[w]) + 1
          /\ (IF n \in Pinned(r)
              THEN Len(s.tabs[w]) + 1 <= PinnedBoundary(s, s.tabs[w]) + 1
              ELSE Len(s.tabs[w]) + 1 >= PinnedBoundary(s, s.tabs[w]) + 1)
      BY <2>3, <2>4
    <2>6. MayCome(Pinned(s), Pinned(r), s.tabs[w], PinnedBoundary(s, s.tabs[w]), n,
                  Len(s.tabs[w]) + 1)
      BY <1>5, <1>6, <2>1, <2>4, <2>5 DEF MayCome
    <2> QED BY <2>2, <2>6, InsertedGroup
  <1>11. \A t \in Live(s) \ InGroup(s, w) :
           t \notin ToSet(ts) /\ (t \in Pinned(r) <=> t \in Pinned(s))
    BY <1>9, <1>10 DEF InGroup
  <1>12. /\ Neat(r) /\ InGroup(r, w) = ToSet(ts)
         /\ \A v \in Workspaces \ {w} : InGroup(r, v) = InGroup(s, v)
    <2>1. r.tabs = [s.tabs EXCEPT ![w] = ts] /\ Group(Pinned(r), ts) BY <1>4, <1>10
    <2> QED BY <1>8, <1>11, <2>1, Regroup
  <1> QED BY <1>4, <1>9, <1>10, <1>12 DEF InGroup

LEMMA AppendedGroups ==
  ASSUME NEW s, NEW w \in Workspaces, GoodBut(s, w), NEW n \in TabIds \ Live(s),
         NEW p \in Place \cup {Root}
  PROVE  LET r == Append1(s, w, n, p)
         IN /\ GoodBut(r, w) /\ n \in InGroup(r, w) /\ Kept(s, r, n)
            /\ Good(s) /\ w \in Groups(s) => Good(r)
  <1> DEFINE r == Append1(s, w, n, p)
  <1>0. Neat(s) BY DEF GoodBut
  <1>1. /\ Neat(r) /\ r.active = s.active /\ r.current = s.current
        /\ InGroup(r, w) = InGroup(s, w) \cup {n}
        /\ \A v \in Workspaces \ {w} : InGroup(r, v) = InGroup(s, v)
        /\ \A t \in TabIds \ {n} : r.tab[t] = s.tab[t]
    BY <1>0, Appended
  <1> HIDE DEF r
  <1>2. Groups(r) = Groups(s) \cup {w}
    <2>1. \A v \in Workspaces : v \in Groups(r) <=> InGroup(r, v) # {} BY <1>1, InGroups
    <2>2. \A v \in Workspaces : v \in Groups(s) <=> InGroup(s, v) # {} BY <1>0, InGroups
    <2>3. Groups(r) \subseteq Workspaces /\ Groups(s) \subseteq Workspaces BY DEF Groups
    <2>4. \A v \in Workspaces : v \in Groups(r) <=> v \in Groups(s) \cup {w}
      BY <1>1, <2>1, <2>2
    <2> QED BY <2>3, <2>4
  <1>3. GoodBut(r, w)
    <2>1. \A v \in Groups(r) \ {w} : v \in Groups(s) /\ v \in Workspaces \ {w}
      BY <1>2 DEF Groups
    <2> QED BY <1>1, <1>2, <2>1 DEF GoodBut
  <1>4. Kept(s, r, n) BY <1>1 DEF Kept, KeepsPaths, AtPath
  <1>5. ASSUME Good(s), w \in Groups(s) PROVE Good(r)
    <2>1. r.active \in Groups(r) \cup {None} BY <1>1, <1>2, <1>5 DEF Good
    <2>2. r.current[w] \in InGroup(r, w) BY <1>1, <1>5 DEF Good
    <2> QED BY <1>1, <1>3, <2>1, <2>2 DEF Good, GoodBut
  <1> QED BY <1>1, <1>3, <1>4, <1>5 DEF r

\* The first tab at p, when there is one, is of the group.
LEMMA FirstAtIsThere ==
  ASSUME NEW s, Neat(s), NEW w \in Workspaces, NEW p, At(s, w, p) # {}
  PROVE  FirstAt(s, w, p) \in InGroup(s, w)
  <1>1. s.tabs[w] \in Seq(TabIds) BY DEF Neat, Group
  <1>2. ToSet(s.tabs[w]) \cap At(s, w, p) # {} BY DEF At, InGroup
  <1> DEFINE K == At(s, w, p)
  <1>3. FirstAt(s, w, p) = s.tabs[w][SelectInSeq(s.tabs[w], LAMBDA t : t \in K)]
    BY DEF FirstAt
  <1>5. ToSet(s.tabs[w]) \cap K # {} BY <1>2
  <1> HIDE DEF K
  <1>4. s.tabs[w][SelectInSeq(s.tabs[w], LAMBDA t : t \in K)] \in K \cap ToSet(s.tabs[w])
    BY <1>1, <1>5, Found
  <1> QED BY <1>3, <1>4 DEF InGroup

\* r differs from s in what the group of w shows, and it may be in front.
Refocuses(s, r, w, t) ==
  /\ r \in Store /\ r.tabs = s.tabs /\ r.tab = s.tab
  /\ r.active \in {s.active, w} /\ r.current = [s.current EXCEPT ![w] = t]

LEMMA Refocused ==
  ASSUME NEW s \in Store, NEW w \in Workspaces, NEW t \in TabIds, NEW r,
         r = [s EXCEPT !.active = w, !.current[w] = t] \/ r = [s EXCEPT !.current[w] = t]
  PROVE  Refocuses(s, r, w, t)
  <1>1. s = [active |-> s.active, tabs |-> s.tabs, current |-> s.current, tab |-> s.tab]
    BY Fields
  <1>2. /\ s.current \in [Workspaces -> TabIds \cup {None}] /\ s.tab \in [TabIds -> Tab]
        /\ s.tabs \in [Workspaces -> Seq(TabIds)] /\ s.active \in Workspaces \cup {None}
    BY Fields
  <1>3. /\ r.active \in {s.active, w} /\ r.tabs = s.tabs /\ r.tab = s.tab
        /\ r.current = [s.current EXCEPT ![w] = t]
        /\ r = [active |-> r.active, tabs |-> r.tabs, current |-> r.current, tab |-> r.tab]
    <2>1. CASE r = [s EXCEPT !.active = w, !.current[w] = t] BY <1>1, <2>1
    <2>2. CASE r = [s EXCEPT !.current[w] = t] BY <1>1, <2>2
    <2> QED BY <2>1, <2>2
  <1>4. [s.current EXCEPT ![w] = t] \in [Workspaces -> TabIds \cup {None}] BY <1>2
  <1>5. r \in Store BY <1>2, <1>3, <1>4 DEF Store
  <1> QED BY <1>3, <1>5 DEF Refocuses

\* A group chooses one of its tabs.
LEMMA Chosen ==
  ASSUME NEW s, NEW w \in Workspaces, GoodBut(s, w), NEW t \in InGroup(s, w), NEW n, NEW r,
         r = [s EXCEPT !.active = w, !.current[w] = t] \/ r = [s EXCEPT !.current[w] = t]
  PROVE  Becomes(s, r, n)
  <1>1. s \in Store /\ t \in TabIds BY InGroups DEF GoodBut, Neat
  <1>2. Refocuses(s, r, w, t) BY <1>1, Refocused
  <1>3. Good(r) BY <1>2, Focus DEF Refocuses
  <1>4. w # None BY TabAssumption
  <1>5. Kept(s, r, n) BY <1>2, <1>4 DEF Kept, KeepsPaths, AtPath, Refocuses
  <1> QED BY <1>3, <1>5 DEF Becomes

LEMMA Stays ==
  ASSUME NEW s, Good(s), NEW n
  PROVE  Becomes(s, s, n)
  BY DEF Becomes, Kept, KeepsPaths

LEMMA Then ==
  ASSUME NEW s, NEW r, NEW q, NEW n, Kept(s, r, n), Becomes(r, q, n)
  PROVE  Becomes(s, q, n)
  BY DEF Becomes, Kept, KeepsPaths

LEMMA SwitchWorkspaceGood ==
  ASSUME NEW s, Good(s), NEW w \in Workspaces, NEW n \in TabIds \ Live(s), NEW p \in Place
  PROVE  Becomes(s, SwitchWorkspace(s, w, p, n), n)
  <1>1. GoodBut(s, w) BY GoodGoodBut
  <1>2. CASE At(s, w, p) # {}
    <2>1. FirstAt(s, w, p) \in InGroup(s, w) BY <1>1, <1>2, FirstAtIsThere DEF GoodBut
    <2>2. SwitchWorkspace(s, w, p, n)
            = [s EXCEPT !.active = w, !.current[w] = FirstAt(s, w, p)]
      BY <1>2 DEF SwitchWorkspace
    <2> QED BY <1>1, <2>1, <2>2, Chosen
  <1>3. CASE At(s, w, p) = {}
    <2> DEFINE r == Append1(s, w, n, p)
    <2>1. GoodBut(r, w) /\ n \in InGroup(r, w) /\ Kept(s, r, n) BY <1>1, AppendedGroups
    <2>2. SwitchWorkspace(s, w, p, n) = [r EXCEPT !.active = w, !.current[w] = n]
      BY <1>3 DEF SwitchWorkspace
    <2> HIDE DEF r
    <2>3. Becomes(r, SwitchWorkspace(s, w, p, n), n) BY <2>1, <2>2, Chosen
    <2> QED BY <2>1, <2>3, Then
  <1> QED BY <1>2, <1>3

LEMMA OpenTabGood ==
  ASSUME NEW s, Good(s), NEW n \in TabIds \ Live(s), NEW p \in Place
  PROVE  Becomes(s, OpenTab(s, p, n), n)
  <1>0. CASE s.active = None
    <2>1. OpenTab(s, p, n) = s BY <1>0 DEF OpenTab
    <2> QED BY <2>1, Stays
  <1> DEFINE w == s.active
  <1>1. CASE w # None /\ At(s, w, p) # {}
    <2>0. w \in Workspaces /\ GoodBut(s, w) BY <1>1, GoodGoodBut, Fields DEF Good, Neat
    <2>1. FirstAt(s, w, p) \in InGroup(s, w) BY <1>1, <2>0, FirstAtIsThere DEF GoodBut
    <2>2. OpenTab(s, p, n) = [s EXCEPT !.current[w] = FirstAt(s, w, p)]
      BY <1>1 DEF OpenTab
    <2> HIDE DEF w
    <2> QED BY <2>0, <2>1, <2>2, Chosen
  <1>2. CASE w # None /\ At(s, w, p) = {}
    <2>0. w \in Workspaces /\ GoodBut(s, w) /\ w \in Groups(s)
      BY <1>2, GoodGoodBut, Fields DEF Good, Neat
    <2>1. OpenTab(s, p, n) = Append1(s, w, n, p) BY <1>2 DEF OpenTab
    <2> HIDE DEF w
    <2> QED BY <2>0, <2>1, AppendedGroups DEF Becomes
  <1> QED BY <1>0, <1>1, <1>2

LEMMA SetActiveTabGood ==
  ASSUME NEW s, Good(s), NEW t, NEW n
  PROVE  Becomes(s, SetActiveTab(s, t), n)
  <1>1. CASE t \notin Live(s)
    <2>1. SetActiveTab(s, t) = s BY <1>1 DEF SetActiveTab
    <2> QED BY <2>1, Stays
  <1>2. CASE t \in Live(s)
    <2> DEFINE w == OwnerOf(s, t)
    <2>1. w \in Workspaces /\ t \in InGroup(s, w) BY <1>2, InGroups DEF Good
    <2>2. GoodBut(s, w) BY GoodGoodBut
    <2>3. SetActiveTab(s, t) = [s EXCEPT !.active = w, !.current[w] = t]
      BY <1>2 DEF SetActiveTab
    <2> HIDE DEF w
    <2> QED BY <2>1, <2>2, <2>3, Chosen
  <1> QED BY <1>1, <1>2

LEMMA OpenAndShowGood ==
  ASSUME NEW s, Good(s), NEW n \in TabIds \ Live(s), NEW p \in Place, NEW t
  PROVE  Becomes(s, SetActiveTab(OpenTab(s, p, n), t), n)
  <1> DEFINE r == OpenTab(s, p, n)
  <1>1. Good(r) /\ Kept(s, r, n) BY OpenTabGood DEF Becomes
  <1> HIDE DEF r
  <1>2. Becomes(r, SetActiveTab(r, t), n) BY <1>1, SetActiveTabGood
  <1>3. Becomes(s, SetActiveTab(r, t), n) BY <1>1, <1>2, Then
  <1> QED BY <1>3 DEF r

-----------------------------------------------------------------------------
(* The methods that pin, move and navigate                                 *)

\* The groups keep their tabs, whatever their order.
LEMMA SameGroups ==
  ASSUME NEW s, Good(s), NEW r, Neat(r), r.active = s.active, r.current = s.current,
         \A w \in Workspaces : InGroup(r, w) = InGroup(s, w)
  PROVE  Good(r)
  <1>1. \A w \in Workspaces : w \in Groups(r) <=> w \in Groups(s)
    <2>1. \A w \in Workspaces : w \in Groups(r) <=> InGroup(r, w) # {} BY InGroups
    <2>2. \A w \in Workspaces : w \in Groups(s) <=> InGroup(s, w) # {}
      BY InGroups DEF Good
    <2> QED BY <2>1, <2>2
  <1>2. Groups(r) = Groups(s) /\ Groups(r) \subseteq Workspaces BY <1>1 DEF Groups
  <1> QED BY <1>2 DEF Good

\* Paths and routers change, pins do not.
LEMMA Routed ==
  ASSUME NEW s, Good(s), NEW r \in Store, r.active = s.active, r.current = s.current,
         r.tabs = s.tabs, \A t \in TabIds : r.tab[t].pinned = s.tab[t].pinned
  PROVE  Good(r)
  <1>1. Pinned(r) = Pinned(s) BY DEF Pinned
  <1>2. \A w \in Workspaces : InGroup(r, w) = InGroup(s, w) BY DEF InGroup
  <1>3. Neat(r) BY <1>1, <1>2 DEF Neat, Good
  <1> QED BY <1>2, <1>3, SameGroups

\* r differs from s in path and router of tab t.
Routes(s, r, t) ==
  /\ r.active = s.active /\ r.current = s.current /\ r.tabs = s.tabs
  /\ r = [active |-> r.active, tabs |-> r.tabs, current |-> r.current, tab |-> r.tab]
  /\ r.tab \in [TabIds -> Tab] /\ r.tab[t].pinned = s.tab[t].pinned
  /\ \A u \in TabIds \ {t} : r.tab[u] = s.tab[u]

LEMMA RoutedTab ==
  ASSUME NEW s, Good(s), NEW t \in TabIds, NEW r, Routes(s, r, t)
  PROVE  Good(r)
  <1>1. s \in Store BY DEF Good, Neat
  <1>2. r \in Store
    <2>1. /\ s.active \in Workspaces \cup {None} /\ s.tabs \in [Workspaces -> Seq(TabIds)]
          /\ s.current \in [Workspaces -> TabIds \cup {None}]
      BY <1>1, Fields
    <2> QED BY <2>1 DEF Routes, Store
  <1>3. \A u \in TabIds : r.tab[u].pinned = s.tab[u].pinned BY DEF Routes
  <1> QED BY <1>2, <1>3, Routed DEF Routes

\* r is s with path b and router at a in tab t, as a method writes it.
Writes(s, r, t, a, b) ==
  \/ r = [s EXCEPT !.tab[t].at = a, !.tab[t].path = b]
  \/ r = [s EXCEPT !.tab[t].at = a] /\ b = s.tab[t].path
  \/ r = [s EXCEPT !.tab[t].path = b] /\ a = s.tab[t].at

LEMMA Rewritten ==
  ASSUME NEW s \in Store, NEW t \in TabIds, NEW a \in Place \cup {Root}, NEW b \in Place \cup {Root},
         NEW r, Writes(s, r, t, a, b)
  PROVE  Routes(s, r, t) /\ r.tab[t].at = a /\ r.tab[t].path = b
  <1>1. s = [active |-> s.active, tabs |-> s.tabs, current |-> s.current, tab |-> s.tab]
    BY Fields
  <1>2. s.tab \in [TabIds -> Tab] /\ s.tab[t] \in Tab BY Fields
  <1> DEFINE x == [path |-> b, at |-> a, pinned |-> s.tab[t].pinned]
  <1>3. x \in Tab /\ x.at = a /\ x.path = b /\ x.pinned = s.tab[t].pinned BY <1>2 DEF Tab
  <1>4. s.tab[t] = [path |-> s.tab[t].path, at |-> s.tab[t].at, pinned |-> s.tab[t].pinned]
    BY <1>2 DEF Tab
  <1>5. /\ r.active = s.active /\ r.current = s.current /\ r.tabs = s.tabs
        /\ r = [active |-> r.active, tabs |-> r.tabs, current |-> r.current, tab |-> r.tab]
    BY <1>1 DEF Writes
  <1>6. r.tab = [s.tab EXCEPT ![t] = x]
    <2>1. CASE r = [s EXCEPT !.tab[t].at = a, !.tab[t].path = b]
      <3>1. r.tab = [s.tab EXCEPT ![t].at = a, ![t].path = b] BY <1>1, <2>1
      <3>2. [[s.tab[t] EXCEPT !.at = a] EXCEPT !.path = b] = x
        <4> DEFINE y == [s.tab[t] EXCEPT !.at = a]
        <4>1. y = [path |-> s.tab[t].path, at |-> a, pinned |-> s.tab[t].pinned] BY <1>4
        <4> HIDE DEF y
        <4>2. [y EXCEPT !.path = b] = x BY <4>1
        <4> QED BY <4>2 DEF y
      <3> QED BY <1>2, <3>1, <3>2
    <2>2. CASE r = [s EXCEPT !.tab[t].at = a] /\ b = s.tab[t].path
      <3>1. r.tab = [s.tab EXCEPT ![t].at = a] BY <1>1, <2>2
      <3>2. [s.tab[t] EXCEPT !.at = a] = x BY <1>4, <2>2
      <3> QED BY <1>2, <3>1, <3>2
    <2>3. CASE r = [s EXCEPT !.tab[t].path = b] /\ a = s.tab[t].at
      <3>1. r.tab = [s.tab EXCEPT ![t].path = b] BY <1>1, <2>3
      <3>2. [s.tab[t] EXCEPT !.path = b] = x BY <1>4, <2>3
      <3> QED BY <1>2, <3>1, <3>2
    <2> QED BY <2>1, <2>2, <2>3 DEF Writes
  <1> HIDE DEF x
  <1> QED BY <1>2, <1>3, <1>5, <1>6 DEF Routes

\* What a page or a click makes of the store, as the mounted tab sees it.
Fits(s, r) ==
  /\ Good(r)
  /\ s.active # None => r.active # None
  /\ shown # None /\ AtPath(s, shown) => AtPath(r, shown)

LEMMA BecomesFits ==
  ASSUME NEW s, NEW r, NEW n, Becomes(s, r, n), shown \in TabIds \cup {None}, n # shown
  PROVE  Fits(s, r)
  BY DEF Becomes, Fits, Kept, KeepsPaths

LEMMA NavigateFits ==
  ASSUME NEW s, Good(s), NEW t \in TabIds \cup {None}, NEW p \in Place \cup {Root},
         shown \in TabIds \cup {None}
  PROVE  Fits(s, Navigate(s, t, p))
  <1>1. CASE t = None
    <2>1. Navigate(s, t, p) = s BY <1>1 DEF Navigate
    <2> QED BY <2>1 DEF Fits
  <1>2. CASE t # None
    <2> DEFINE b == IF shown = t THEN p ELSE s.tab[t].path
               r == Navigate(s, t, p)
    <2>1. s \in Store /\ t \in TabIds BY <1>2 DEF Good, Neat
    <2>2. b \in Place \cup {Root} BY <2>1, Fields DEF Tab
    <2>3. r = [s EXCEPT !.tab[t].at = p, !.tab[t].path = b]
      <3>1. s = [active |-> s.active, tabs |-> s.tabs, current |-> s.current, tab |-> s.tab]
        BY <2>1, Fields
      <3>2. s.tab \in [TabIds -> Tab] /\ s.tab[t] \in Tab BY <2>1, Fields
      <3>3. [s.tab[t] EXCEPT !.at = p].path = s.tab[t].path BY <3>2 DEF Tab
      <3> QED BY <1>2, <2>1, <3>1, <3>2, <3>3 DEF Navigate
    <2>4. b = IF shown = t THEN p ELSE s.tab[t].path OBVIOUS
    <2>0. Writes(s, r, t, p, b) BY <2>3 DEF Writes
    <2> HIDE DEF b, r
    <2>5. Routes(s, r, t) /\ r.tab[t].at = p /\ r.tab[t].path = b
      BY <2>0, <2>1, <2>2, Rewritten
    <2>6. Good(r) BY <2>1, <2>5, RoutedTab
    <2>7. ASSUME shown # None, AtPath(s, shown) PROVE AtPath(r, shown)
      BY <2>4, <2>5, <2>7 DEF AtPath, Routes
    <2> QED BY <2>5, <2>6, <2>7 DEF Fits, Routes, r
  <1> QED BY <1>1, <1>2

\* A group comes back in another order, with its tab t pinned or not.
LEMMA Reordered ==
  ASSUME NEW s, Good(s), NEW w \in Workspaces, NEW r \in Store, NEW ts,
         r.active = s.active, r.current = s.current, r.tabs = [s.tabs EXCEPT ![w] = ts],
         Group(Pinned(r), ts), ToSet(ts) = InGroup(s, w),
         \A t \in Live(s) \ InGroup(s, w) : t \in Pinned(r) <=> t \in Pinned(s)
  PROVE  Good(r)
  <1>1. Neat(s) BY DEF Good
  <1>2. /\ Neat(r) /\ InGroup(r, w) = ToSet(ts)
        /\ \A v \in Workspaces \ {w} : InGroup(r, v) = InGroup(s, v)
    BY <1>1, Regroup
  <1>3. \A v \in Workspaces : InGroup(r, v) = InGroup(s, v) BY <1>2
  <1> QED BY <1>2, <1>3, SameGroups

LEMMA TogglePinGood ==
  ASSUME NEW s, Good(s), NEW t \in Live(s), NEW n
  PROVE  Becomes(s, TogglePin(s, t), n)
  <1> DEFINE w == OwnerOf(s, t)
             ts == s.tabs[w]
             without == Filter(ts, TabIds \ {t})
             k == PinnedBoundary(s, without) + 1
             out == InsertAt(without, k, t)
             r == TogglePin(s, t)
  <1>1. Neat(s) /\ s \in Store BY DEF Good, Neat
  <1>2. w \in Workspaces /\ t \in InGroup(s, w) /\ t \in TabIds BY <1>1, InGroups
  <1>3. /\ s.tabs \in [Workspaces -> Seq(TabIds)] /\ s.tab \in [TabIds -> Tab]
        /\ s.active \in Workspaces \cup {None}
        /\ s.current \in [Workspaces -> TabIds \cup {None}]
        /\ s = [active |-> s.active, tabs |-> s.tabs, current |-> s.current, tab |-> s.tab]
    BY <1>1, Fields
  <1>0. r = [s EXCEPT !.tabs[w] = out, !.tab[t].pinned = ~ @] BY DEF TogglePin
  <1>5. Group(Pinned(s), ts) /\ ts \in Seq(TabIds) /\ ToSet(ts) = InGroup(s, w)
    BY <1>1, <1>2 DEF Neat, Group, InGroup
  <1> HIDE DEF w, ts, out, r
  <1>4. /\ r.active = s.active /\ r.current = s.current /\ r.tabs = [s.tabs EXCEPT ![w] = out]
        /\ r.tab = [s.tab EXCEPT ![t].pinned = ~ @]
        /\ r = [active |-> r.active, tabs |-> r.tabs, current |-> r.current, tab |-> r.tab]
    BY <1>0, <1>3
  <1>6. Group(Pinned(s), without) /\ ToSet(without) = ToSet(ts) \cap (TabIds \ {t})
    BY <1>5, FilterGroup, FilterSet
  <1> HIDE DEF without
  <1>7. Zone(Pinned(s), without, PinnedBoundary(s, without)) BY <1>6, Boundary
  <1>8. k \in 1 .. Len(without) + 1 /\ PinnedBoundary(s, without) \in Nat
        /\ k <= PinnedBoundary(s, without) + 1 /\ k >= PinnedBoundary(s, without) + 1
    <2>1. without \in Seq(TabIds) /\ Len(without) \in Nat
      BY <1>6, LenProperties DEF Group
    <2> QED BY <1>7, <2>1 DEF Zone
  <1> HIDE DEF k
  <1>9. Inserted(out, without, k, t)
    BY <1>2, <1>6, <1>8, InsertAtInserts DEF out, Group
  <1>10. r.tab \in [TabIds -> Tab] /\ \A u \in TabIds \ {t} : r.tab[u] = s.tab[u]
    <2>1. s.tab[t] \in Tab BY <1>2, <1>3
    <2>2. [s.tab[t] EXCEPT !.pinned = ~ s.tab[t].pinned] \in Tab BY <2>1 DEF Tab
    <2> QED BY <1>2, <1>3, <1>4, <2>2
  <1>11. r.tab[t].path = s.tab[t].path /\ r.tab[t].at = s.tab[t].at
    <2>1. s.tab[t] \in Tab BY <1>2, <1>3
    <2> QED BY <1>2, <1>3, <1>4, <2>1 DEF Tab
  <1>12. Pinned(r) \ {t} = Pinned(s) \ {t} BY <1>10 DEF Pinned
  <1>13. t \in TabIds \ ToSet(without) BY <1>2, <1>6
  <1>14. Group(Pinned(r), out) /\ ToSet(out) = ToSet(without) \cup {t}
    <2>1. IF t \in Pinned(r) THEN k <= PinnedBoundary(s, without) + 1
                             ELSE k >= PinnedBoundary(s, without) + 1
      BY <1>8
    <2>2. MayCome(Pinned(s), Pinned(r), without, PinnedBoundary(s, without), t, k)
      BY <1>6, <1>7, <1>8, <1>12, <1>13, <2>1 DEF MayCome
    <2> QED BY <1>9, <2>2, InsertedGroup
  <1>15. ToSet(out) = InGroup(s, w)
    <2>1. ToSet(ts) \subseteq TabIds BY <1>5, Members
    <2> QED BY <1>2, <1>5, <1>6, <1>14, <2>1
  <1>16. r \in Store
    <2>1. out \in Seq(TabIds) BY <1>14 DEF Group
    <2>2. r.tabs \in [Workspaces -> Seq(TabIds)] BY <1>3, <1>4, <2>1
    <2> QED BY <1>3, <1>4, <1>10, <2>2 DEF Store
  <1>17. \A u \in Live(s) \ InGroup(s, w) : u \in Pinned(r) <=> u \in Pinned(s)
    BY <1>2, <1>12
  <1>18. Good(r) BY <1>2, <1>4, <1>14, <1>15, <1>16, <1>17, Reordered
  <1>19. Kept(s, r, n) BY <1>4, <1>10, <1>11 DEF Kept, KeepsPaths, AtPath
  <1> QED BY <1>18, <1>19 DEF Becomes, r

LEMMA MoveTabGood ==
  ASSUME NEW s, Good(s), s.active # None, NEW i \in DOMAIN s.tabs[s.active],
         NEW j \in DOMAIN s.tabs[s.active], NEW n
  PROVE  Becomes(s, MoveTab(s, i, j), n)
  <1> DEFINE w == s.active
             ts == s.tabs[w]
             P == Pinned(s)
             b == PinnedBoundary(s, ts)
             c == ClampedTo(s, ts, i, j)
             R == RemoveAt(ts, i)
             out == InsertAt(R, c, ts[i])
             r == MoveTab(s, i, j)
  <1>1. Neat(s) /\ s \in Store BY DEF Good, Neat
  <1>2. /\ s.tabs \in [Workspaces -> Seq(TabIds)] /\ s.tab \in [TabIds -> Tab]
        /\ w \in Workspaces
        /\ s.current \in [Workspaces -> TabIds \cup {None}]
        /\ s = [active |-> s.active, tabs |-> s.tabs, current |-> s.current, tab |-> s.tab]
    BY <1>1, Fields
  <1>0. r = [s EXCEPT !.tabs[w] = out] BY DEF MoveTab
  <1>4. Group(P, ts) /\ ts \in Seq(TabIds) /\ ToSet(ts) = InGroup(s, w)
    BY <1>1, <1>2 DEF Neat, Group, InGroup
  <1>5. i \in DOMAIN ts /\ j \in DOMAIN ts OBVIOUS
  <1>6. Zone(P, ts, b) BY <1>4, Boundary
  <1>7. c = IF s.tab[ts[i]].pinned THEN IF j < b THEN j ELSE b ELSE IF j > b THEN j ELSE b + 1
    BY DEF ClampedTo
  <1> HIDE DEF ts, b, c, out, r, R
  <1>3. /\ r.active = s.active /\ r.current = s.current /\ r.tabs = [s.tabs EXCEPT ![w] = out]
        /\ r.tab = s.tab
        /\ r = [active |-> r.active, tabs |-> r.tabs, current |-> r.current, tab |-> r.tab]
    BY <1>0, <1>2
  <1>8. Pinned(r) = P BY <1>3 DEF Pinned
  <1> HIDE DEF w, P
  <1>9. DOMAIN ts = 1 .. Len(ts) /\ Len(ts) \in Nat BY <1>4, LenProperties
  <1>10. ts[i] \in TabIds /\ ts[i] \in ToSet(ts) BY <1>4, <1>5, Members
  <1>11. s.tab[ts[i]].pinned <=> ts[i] \in P BY <1>10 DEF Pinned, P
  <1>12. b \in 0 .. Len(ts) /\ (ts[i] \in P <=> i <= b) BY <1>5, <1>6 DEF Zone
  <1> DEFINE d == IF i <= b THEN b - 1 ELSE b
  <1>13. /\ Group(P, R) /\ Len(R) = Len(ts) - 1
         /\ ToSet(R) = ToSet(ts) \ {ts[i]} /\ Zone(P, R, d)
    BY <1>4, <1>5, <1>6, RemovedGroup DEF R
  <1>14. c \in 1 .. Len(R) + 1
    BY <1>5, <1>7, <1>9, <1>11, <1>12, <1>13
  <1>15. IF ts[i] \in P THEN c <= d + 1 ELSE c >= d + 1
    BY <1>5, <1>7, <1>9, <1>11, <1>12
  <1> HIDE DEF d
  <1>16. Inserted(out, R, c, ts[i])
    BY <1>10, <1>13, <1>14, InsertAtInserts DEF out, Group
  <1>17. Group(P, out) /\ ToSet(out) = ToSet(R) \cup {ts[i]}
    <2>1. ts[i] \in TabIds \ ToSet(R) BY <1>10, <1>13
    <2>2. MayCome(P, P, R, d, ts[i], c) BY <1>13, <1>14, <1>15, <2>1 DEF MayCome
    <2> QED BY <1>16, <2>2, InsertedGroup
  <1>18. ToSet(out) = InGroup(s, w) BY <1>4, <1>10, <1>13, <1>17
  <1>19. r \in Store
    <2>1. out \in Seq(TabIds) BY <1>17 DEF Group
    <2>2. r.tabs \in [Workspaces -> Seq(TabIds)] BY <1>2, <1>3, <2>1
    <2>3. s.active \in Workspaces \cup {None} BY <1>1, Fields
    <2> QED BY <1>2, <1>3, <2>2, <2>3 DEF Store
  <1>20. Good(r)
    <2>1. \A u \in Live(s) \ InGroup(s, w) : u \in Pinned(r) <=> u \in Pinned(s)
      BY <1>8 DEF P
    <2>2. Group(Pinned(r), out) BY <1>8, <1>17
    <2> QED BY <1>2, <1>3, <1>18, <1>19, <2>1, <2>2, Reordered
  <1>21. Kept(s, r, n) BY <1>3 DEF Kept, KeepsPaths, AtPath
  <1> QED BY <1>20, <1>21 DEF Becomes, r

-----------------------------------------------------------------------------
(* The methods that close and drop tabs                                    *)

LEMMA GoneIsTab == Gone \in Tab /\ Gone.path = Gone.at /\ ~ Gone.pinned
  BY DEF Gone, MakeTab, Tab

LEMMA Keeping ==
  ASSUME NEW s, Neat(s), NEW K, NEW r, r = KeepOnly(s, K), NEW n
  PROVE  /\ Neat(r) /\ r.active = s.active /\ KeepsPaths(s, r, n)
         /\ \A w \in Workspaces : InGroup(r, w) = InGroup(s, w) \cap K
         /\ \A w \in Workspaces : InGroup(r, w) # {} => r.current[w] = s.current[w]
         /\ \A t \in TabIds \cap K : r.tab[t] = s.tab[t]
  <1>1. s \in Store BY DEF Neat
  <1>2. /\ s.tabs \in [Workspaces -> Seq(TabIds)] /\ s.tab \in [TabIds -> Tab]
        /\ s.active \in Workspaces \cup {None}
        /\ s.current \in [Workspaces -> TabIds \cup {None}]
    BY <1>1, Fields
  <1>3. /\ r.active = s.active
        /\ r.tabs = [w \in Workspaces |-> Filter(s.tabs[w], K)]
        /\ r.current = [w \in Workspaces |-> IF InGroup(s, w) \cap K = {} THEN None
                                             ELSE s.current[w]]
        /\ r.tab = [t \in TabIds |-> IF t \in K THEN s.tab[t] ELSE Gone]
        /\ r = [active |-> r.active, tabs |-> r.tabs, current |-> r.current, tab |-> r.tab]
    BY DEF KeepOnly
  <1>4. \A w \in Workspaces : Group(Pinned(s), s.tabs[w]) /\ s.tabs[w] \in Seq(TabIds)
    BY <1>2 DEF Neat
  <1>5. ASSUME NEW w \in Workspaces
        PROVE  /\ Group(Pinned(s), r.tabs[w])
               /\ ToSet(r.tabs[w]) = ToSet(s.tabs[w]) \cap K
    <2>1. r.tabs[w] = Filter(s.tabs[w], K) BY <1>3
    <2>2. Group(Pinned(s), Filter(s.tabs[w], K)) BY <1>4, FilterGroup
    <2>3. ToSet(Filter(s.tabs[w], K)) = ToSet(s.tabs[w]) \cap K BY <1>4, FilterSet
    <2> QED BY <2>1, <2>2, <2>3
  <1>6. Pinned(r) = Pinned(s) \cap K BY <1>2, <1>3, GoneIsTab DEF Pinned
  <1>7. \A w \in Workspaces : InGroup(r, w) = InGroup(s, w) \cap K
    BY <1>5 DEF InGroup
  <1>8. ASSUME NEW w \in Workspaces PROVE Group(Pinned(r), r.tabs[w])
    <2>1. \A t \in ToSet(r.tabs[w]) : t \in Pinned(s) <=> t \in Pinned(r)
      BY <1>5, <1>6
    <2>2. Group(Pinned(s), r.tabs[w]) BY <1>5
    <2> QED BY <2>1, <2>2, GroupOf
  <1>9. r \in Store
    <2>1. r.tabs \in [Workspaces -> Seq(TabIds)] BY <1>3, <1>5 DEF Group
    <2>2. r.current \in [Workspaces -> TabIds \cup {None}] BY <1>2, <1>3
    <2>3. r.tab \in [TabIds -> Tab] BY <1>2, <1>3, GoneIsTab
    <2> QED BY <1>2, <1>3, <2>1, <2>2, <2>3 DEF Store
  <1>10. Neat(r) BY <1>7, <1>8, <1>9 DEF Neat
  <1>11. \A w \in Workspaces : InGroup(r, w) # {} => r.current[w] = s.current[w]
    BY <1>3, <1>7
  <1>12. KeepsPaths(s, r, n) BY <1>2, <1>3, GoneIsTab DEF KeepsPaths, AtPath
  <1>13. \A t \in TabIds \cap K : r.tab[t] = s.tab[t] BY <1>3
  <1> QED BY <1>3, <1>7, <1>10, <1>11, <1>12, <1>13

\* Where a tab is found in its group.
LEMMA FoundTab ==
  ASSUME NEW ts \in Seq(TabIds), NEW t \in ToSet(ts)
  PROVE  SelectInSeq(ts, LAMBDA u : u = t) \in DOMAIN ts
  <1> DEFINE I == {i \in 1 .. Len(ts) : ts[i] = t}
  <1>1. DOMAIN ts = 1 .. Len(ts) /\ Len(ts) \in Nat BY LenProperties
  <1>2. I # {} BY <1>1 DEF ToSet
  <1>3. I \in SUBSET Nat /\ IsFiniteSet(I)
    <2>1. IsFiniteSet(1 .. Len(ts)) BY <1>1, FS_Interval
    <2>2. I \subseteq 1 .. Len(ts) OBVIOUS
    <2> QED BY <1>1, <2>1, <2>2, FS_Subset
  <1>4. SelectInSeq(ts, LAMBDA u : u = t) = Min(I) BY <1>2 DEF SelectInSeq
  <1>5. \A i \in I : i \in DOMAIN ts BY <1>1
  <1> HIDE DEF I
  <1>6. Min(I) \in I BY <1>2, <1>3, Least
  <1> QED BY <1>4, <1>5, <1>6

LEMMA CloseTabGood ==
  ASSUME NEW s, Good(s), NEW t, NEW n \in TabIds \ Live(s)
  PROVE  Becomes(s, CloseTab(s, t, n), n)
  <1>0. CASE t \notin Live(s)
    <2>1. CloseTab(s, t, n) = s BY <1>0 DEF CloseTab
    <2> QED BY <2>1, Stays
  <1>1. CASE t \in Live(s)
    <2> DEFINE w == OwnerOf(s, t)
               ts == s.tabs[w]
               i == SelectInSeq(ts, LAMBDA u : u = t)
               left == Filter(ts, TabIds \ {t})
               next == left[IF i < Len(left) THEN i ELSE Len(left)]
               rest == KeepOnly(s, Live(s) \ {t})
               u == IF rest.current[w] = t THEN next ELSE rest.current[w]
               r == CloseTab(s, t, n)
    <2>0. r = IF Len(ts) = 1
              THEN [Append1(rest, w, n, DefaultPath(w)) EXCEPT !.current[w] = n]
              ELSE [rest EXCEPT !.current[w] = IF @ = t THEN next ELSE @]
      BY <1>1 DEF CloseTab
    <2>1. Neat(s) /\ s \in Store BY DEF Good, Neat
    <2>2. w \in Workspaces /\ t \in InGroup(s, w) /\ t \in TabIds BY <1>1, <2>1, InGroups
    <2>3. Group(Pinned(s), ts) /\ ts \in Seq(TabIds) /\ ToSet(ts) = InGroup(s, w)
      BY <2>1, <2>2 DEF Neat, Group, InGroup
    <2> HIDE DEF r, w, ts
    <2>4. /\ Neat(rest) /\ rest.active = s.active /\ KeepsPaths(s, rest, n)
          /\ \A v \in Workspaces : InGroup(rest, v) = InGroup(s, v) \cap (Live(s) \ {t})
          /\ \A v \in Workspaces : InGroup(rest, v) # {} => rest.current[v] = s.current[v]
      BY <2>1, Keeping
    <2> HIDE DEF rest
    <2>5. \A v \in Workspaces \ {w} : InGroup(rest, v) = InGroup(s, v)
      <3> SUFFICES ASSUME NEW v \in Workspaces \ {w} PROVE InGroup(rest, v) = InGroup(s, v)
        OBVIOUS
      <3>1. InGroup(s, v) \subseteq Live(s) BY <2>1, InGroups
      <3>2. t \notin InGroup(s, v) BY <2>1, <2>2 DEF Neat
      <3> QED BY <2>4, <3>1, <3>2
    <2>6. InGroup(rest, w) = InGroup(s, w) \ {t}
      <3>1. InGroup(s, w) \subseteq Live(s) BY <2>1, <2>2, InGroups
      <3> QED BY <2>2, <2>4, <3>1
    <2>7. GoodBut(rest, w)
      <3>1. \A v \in Workspaces \ {w} : v \in Groups(rest) <=> v \in Groups(s)
        <4>1. \A v \in Workspaces : v \in Groups(rest) <=> InGroup(rest, v) # {}
          BY <2>4, InGroups
        <4>2. \A v \in Workspaces : v \in Groups(s) <=> InGroup(s, v) # {}
          BY <2>1, InGroups
        <4> QED BY <2>5, <4>1, <4>2
      <3>2. Groups(rest) \subseteq Workspaces /\ Groups(s) \subseteq Workspaces
        BY DEF Groups
      <3>3. rest.active \in Groups(rest) \cup {None, w} BY <2>4, <3>1, <3>2 DEF Good
      <3>4. ASSUME NEW v \in Groups(rest) \ {w} PROVE rest.current[v] \in InGroup(rest, v)
        <4>1. v \in Workspaces \ {w} /\ v \in Groups(s) BY <3>1, <3>2
        <4>2. s.current[v] \in InGroup(s, v) BY <4>1 DEF Good
        <4> QED BY <2>4, <2>5, <4>1, <4>2
      <3> QED BY <2>4, <3>3, <3>4 DEF GoodBut
    <2>8. Kept(s, rest, n) BY <2>4 DEF Kept
    <2>9. CASE Len(ts) = 1
      <3> DEFINE q == Append1(rest, w, n, DefaultPath(w))
      <3>1. n \in TabIds \ Live(rest)
        <4>1. Live(rest) \subseteq Live(s) BY <2>4 DEF Live
        <4> QED BY <4>1
      <3>2. DefaultPath(w) \in Place \cup {Root} BY <2>2, Places
      <3>3. GoodBut(q, w) /\ n \in InGroup(q, w) /\ Kept(rest, q, n)
        BY <2>2, <2>7, <3>1, <3>2, AppendedGroups
      <3>4. r = [q EXCEPT !.current[w] = n] BY <2>0, <2>9
      <3> HIDE DEF q
      <3>5. Becomes(q, r, n) BY <2>2, <3>3, <3>4, Chosen
      <3>6. Becomes(rest, r, n) BY <3>3, <3>5, Then
      <3>7. Becomes(s, r, n) BY <2>8, <3>6, Then
      <3> QED BY <3>7 DEF r
    <2>10. CASE Len(ts) # 1
      <3>1. left \in Seq(TabIds) /\ ToSet(left) = ToSet(ts) \cap (TabIds \ {t})
        BY <2>3, FilterPicks, FilterSet
      <3>2. i \in DOMAIN ts
        <4>1. t \in ToSet(ts) BY <2>2, <2>3
        <4>2. SelectInSeq(ts, LAMBDA v : v = t) \in DOMAIN ts BY <2>3, <4>1, FoundTab
        <4> QED BY <4>2
      <3>3. DOMAIN ts = 1 .. Len(ts) /\ Len(ts) \in Nat BY <2>3, LenProperties
      <3> HIDE DEF left, i
      <3>4. PICK h \in DOMAIN ts : h # i
        <4>1. 1 \in DOMAIN ts /\ 2 \in DOMAIN ts BY <2>10, <3>2, <3>3
        <4> QED BY <4>1
      <3>5. InGroup(rest, w) # {}
        <4>1. ts[h] # ts[i] /\ ts[h] \in ToSet(ts) /\ ts[i] \in ToSet(ts)
          BY <2>3, <3>2, <3>4, Members DEF Group, IsInjective
        <4> QED BY <2>3, <2>6, <4>1
      <3>6. rest.current[w] = s.current[w] /\ s.current[w] \in InGroup(s, w)
        <4>1. w \in Groups(s) BY <2>1, <2>2, InGroups
        <4> QED BY <2>2, <2>4, <3>5, <4>1 DEF Good
      <3>7. ToSet(left) = InGroup(rest, w)
        <4>1. ToSet(ts) \subseteq TabIds BY <2>3, Members
        <4> QED BY <2>3, <2>6, <3>1, <4>1
      <3>13. next = left[IF i < Len(left) THEN i ELSE Len(left)] OBVIOUS
      <3>8. next \in InGroup(rest, w)
        <4>1. left # <<>> BY <3>1, <3>5, <3>7, Members
        <4>2. DOMAIN left = 1 .. Len(left) /\ Len(left) \in Nat /\ Len(left) # 0
          BY <3>1, <4>1, LenProperties, EmptySeq
        <4>3. (IF i < Len(left) THEN i ELSE Len(left)) \in DOMAIN left
          BY <3>2, <3>3, <4>2
        <4>4. \A k \in DOMAIN left : left[k] \in ToSet(left) BY <3>1, Members
        <4> QED BY <3>7, <3>13, <4>3, <4>4
      <3> HIDE DEF next
      <3>9. u \in InGroup(rest, w) BY <2>6, <3>6, <3>8
      <3>10. r = [rest EXCEPT !.current[w] = u]
        <4>1. r = [rest EXCEPT !.current[w] = IF @ = t THEN next ELSE @]
          BY <2>0, <2>10
        <4> QED BY <4>1
      <3> HIDE DEF u
      <3>11. Becomes(rest, r, n) BY <2>2, <2>7, <3>9, <3>10, Chosen
      <3>12. Becomes(s, r, n) BY <2>8, <3>11, Then
      <3> QED BY <3>12 DEF r
    <2> QED BY <2>9, <2>10
  <1> QED BY <1>0, <1>1

\* Another workspace comes to the front, none of the groups changes.
LEMMA Fronted ==
  ASSUME NEW s, Neat(s), \A w \in Groups(s) : s.current[w] \in InGroup(s, w),
         NEW a \in Groups(s) \cup {None}, NEW r, r = [s EXCEPT !.active = a], NEW n
  PROVE  Good(r) /\ r.active = a /\ KeepsPaths(s, r, n)
  <1>1. s \in Store /\ a \in Workspaces \cup {None} BY DEF Neat, Groups
  <1>2. s = [active |-> s.active, tabs |-> s.tabs, current |-> s.current, tab |-> s.tab]
    BY <1>1, Fields
  <1>3. r \in Store BY <1>1, Fields
  <1>4. r.active = a /\ r.tabs = s.tabs /\ r.tab = s.tab /\ r.current = s.current
    BY <1>2
  <1>5. /\ Pinned(r) = Pinned(s) /\ Groups(r) = Groups(s)
        /\ \A w \in Workspaces : InGroup(r, w) = InGroup(s, w)
    BY <1>4 DEF Pinned, Groups, InGroup
  <1>6. Neat(r) BY <1>3, <1>4, <1>5 DEF Neat
  <1>7. \A w \in Groups(r) : r.current[w] \in InGroup(r, w)
    BY <1>4, <1>5 DEF Groups
  <1>8. Good(r) BY <1>4, <1>5, <1>6, <1>7 DEF Good
  <1> QED BY <1>4, <1>8 DEF KeepsPaths, AtPath

\* Whatever slugs are left, and whichever group comes to the front.
LEMMA ValidateGood ==
  ASSUME NEW s, Good(s), NEW valid \in SUBSET Workspaces, NEW n \in TabIds \ Live(s),
         NEW r \in ValidateWorkspaceSlugs(s, valid, n)
  PROVE  Good(r) /\ KeepsPaths(s, r, n) /\ (valid # {} => r.active # None)
  <1> DEFINE K == UNION {InGroup(s, w) : w \in valid}
             kept == KeepOnly(s, K)
  <1>1. Neat(s) BY DEF Good
  <1>3. r \in IF s.active \in valid THEN {kept}
              ELSE IF Groups(kept) # {}
              THEN {[kept EXCEPT !.active = w] : w \in Groups(kept)}
              ELSE IF valid # {}
              THEN {[Append1(kept, w, n, DefaultPath(w)) EXCEPT !.active = w, !.current[w] = n]
                    : w \in valid}
              ELSE {[kept EXCEPT !.active = None]}
    BY DEF ValidateWorkspaceSlugs
  <1>4. \A w \in valid : InGroup(s, w) \subseteq K OBVIOUS
  <1>5. \A w \in Workspaces \ valid : InGroup(s, w) \cap K = {} BY <1>1 DEF Neat
  <1>0. kept = KeepOnly(s, K) OBVIOUS
  <1> HIDE DEF K, kept
  <1>2. /\ Neat(kept) /\ kept.active = s.active /\ KeepsPaths(s, kept, n)
        /\ \A w \in Workspaces : InGroup(kept, w) = InGroup(s, w) \cap K
        /\ \A w \in Workspaces : InGroup(kept, w) # {} => kept.current[w] = s.current[w]
    BY <1>0, <1>1, Keeping
  <1>6. /\ \A w \in Workspaces : w \in Groups(kept) <=> InGroup(kept, w) # {}
        /\ \A w \in Workspaces : w \in Groups(s) <=> InGroup(s, w) # {}
        /\ Groups(kept) \subseteq Workspaces /\ Groups(s) \subseteq Workspaces
    <2>1. Groups(kept) \subseteq Workspaces /\ Groups(s) \subseteq Workspaces
      BY DEF Groups
    <2> QED BY <1>1, <1>2, <2>1, InGroups
  <1>7. \A w \in Groups(kept) : w \in valid /\ InGroup(kept, w) = InGroup(s, w)
    BY <1>2, <1>4, <1>5, <1>6
  <1>8. \A w \in Groups(kept) : kept.current[w] \in InGroup(kept, w)
    <2> SUFFICES ASSUME NEW w \in Groups(kept) PROVE kept.current[w] \in InGroup(kept, w)
      OBVIOUS
    <2>1. w \in Groups(s) BY <1>6, <1>7
    <2>2. s.current[w] \in InGroup(s, w) BY <2>1 DEF Good
    <2> QED BY <1>2, <1>6, <1>7, <2>2
  <1>9. CASE s.active \in valid
    <2>1. r = kept BY <1>3, <1>9
    <2>2. s.active \in Groups(s) BY <1>9, TabAssumption DEF Good
    <2>3. s.active \in Groups(kept) BY <1>2, <1>4, <1>6, <1>9, <2>2
    <2>4. Good(kept) BY <1>2, <1>8, <2>3 DEF Good
    <2> QED BY <1>2, <1>9, <2>1, <2>4, TabAssumption
  <1>10. CASE s.active \notin valid /\ Groups(kept) # {}
    <2>1. PICK w \in Groups(kept) : r = [kept EXCEPT !.active = w] BY <1>3, <1>10
    <2>2. Good(r) /\ r.active = w /\ KeepsPaths(kept, r, n) BY <1>2, <1>8, <2>1, Fronted
    <2>3. KeepsPaths(s, r, n) BY <1>2, <2>2 DEF KeepsPaths
    <2> QED BY <1>6, <2>2, <2>3, TabAssumption
  <1>11. CASE s.active \notin valid /\ Groups(kept) = {} /\ valid # {}
    <2>1. PICK w \in valid : r = [Append1(kept, w, n, DefaultPath(w)) EXCEPT
                                   !.active = w, !.current[w] = n]
      BY <1>3, <1>11
    <2> DEFINE q == Append1(kept, w, n, DefaultPath(w))
    <2>2. w \in Workspaces /\ w # None BY TabAssumption
    <2>3. n \in TabIds \ Live(kept)
      <3>1. Live(kept) \subseteq Live(s) BY <1>2 DEF Live
      <3> QED BY <3>1
    <2>4. DefaultPath(w) \in Place \cup {Root} BY <2>2, Places
    <2>5. /\ Neat(q) /\ InGroup(q, w) = InGroup(kept, w) \cup {n}
          /\ \A v \in Workspaces \ {w} : InGroup(q, v) = InGroup(kept, v)
          /\ \A t \in TabIds \ {n} : q.tab[t] = kept.tab[t]
      BY <1>2, <2>2, <2>3, <2>4, Appended
    <2>6. Refocuses(q, r, w, n) /\ r.active = w
      <3>1. q \in Store BY <2>5 DEF Neat
      <3> HIDE DEF q
      <3>2. r = [q EXCEPT !.active = w, !.current[w] = n] BY <2>1 DEF q
      <3>3. Refocuses(q, r, w, n) BY <2>2, <3>1, <3>2, Refocused
      <3>4. q = [active |-> q.active, tabs |-> q.tabs, current |-> q.current, tab |-> q.tab]
        BY <3>1, Fields
      <3>5. r.active = w BY <3>2, <3>4
      <3> QED BY <3>3, <3>5
    <2> HIDE DEF q
    <2>7. Groups(q) = {w}
      <3>1. \A v \in Workspaces : v \in Groups(q) <=> InGroup(q, v) # {}
        BY <2>5, InGroups
      <3>2. Groups(q) \subseteq Workspaces BY DEF Groups
      <3>3. \A v \in Workspaces \ {w} : InGroup(q, v) = {} BY <1>6, <1>11, <2>5
      <3>4. InGroup(q, w) # {} BY <2>5
      <3> QED BY <2>2, <3>1, <3>2, <3>3, <3>4
    <2>8. Good(r)
      <3>1. Pinned(r) = Pinned(q) /\ Groups(r) = Groups(q)
            /\ \A v \in Workspaces : InGroup(r, v) = InGroup(q, v)
        BY <2>6 DEF Refocuses, Pinned, Groups, InGroup
      <3>2. Neat(r) BY <2>5, <2>6, <3>1 DEF Neat, Refocuses
      <3>3. q.current \in [Workspaces -> TabIds \cup {None}] BY <2>5, Fields DEF Neat
      <3>4. r.current[w] = n BY <2>2, <2>6, <3>3 DEF Refocuses
      <3> QED BY <2>2, <2>5, <2>6, <2>7, <3>1, <3>2, <3>4 DEF Good
    <2>9. KeepsPaths(s, r, n) BY <1>2, <2>5, <2>6 DEF KeepsPaths, AtPath, Refocuses
    <2> QED BY <2>2, <2>6, <2>8, <2>9
  <1>12. CASE s.active \notin valid /\ Groups(kept) = {} /\ valid = {}
    <2>1. r = [kept EXCEPT !.active = None] BY <1>3, <1>12
    <2>2. Good(r) /\ KeepsPaths(kept, r, n) BY <1>2, <1>8, <2>1, Fronted
    <2>3. KeepsPaths(s, r, n) BY <1>2, <2>2 DEF KeepsPaths
    <2> QED BY <1>12, <2>2, <2>3
  <1> QED BY <1>9, <1>10, <1>11, <1>12

-----------------------------------------------------------------------------
(* What comes back at a start                                              *)

Own(s) == {t \in Live(s) : s.tab[t].path.ws = OwnerOf(s, t)}
SortedOf(s, w) == Sorted(KeepOnly(s, Own(s)).tabs[w], Pinned(s))

\* b is what merge makes of s, but for the workspace in front.
Back(s, b) ==
  /\ b = [active |-> b.active, tabs |-> b.tabs, current |-> b.current, tab |-> b.tab]
  /\ b.active = s.active
  /\ b.tabs = [w \in Workspaces |-> SortedOf(s, w)]
  /\ b.current = [w \in Workspaces |->
                    IF SortedOf(s, w) = <<>> THEN None
                    ELSE IF s.current[w] \in Own(s) THEN s.current[w] ELSE SortedOf(s, w)[1]]
  /\ b.tab = [t \in TabIds |-> b.tab[t]]
  /\ \A t \in TabIds :
       LET k == KeepOnly(s, Own(s)).tab[t] IN b.tab[t] = [k EXCEPT !.at = k.path]

Rebuilds(q, k, T, C, X) == q = [k EXCEPT !.tabs = T, !.current = C, !.tab = X]

LEMMA Rebuilt ==
  ASSUME NEW a, NEW b, NEW c, NEW d, NEW T, NEW C, NEW X, NEW k,
         k = [active |-> a, tabs |-> b, current |-> c, tab |-> d],
         NEW q, Rebuilds(q, k, T, C, X)
  PROVE  q = [active |-> a, tabs |-> T, current |-> C, tab |-> X]
  <1> DEFINE k1 == [k EXCEPT !.tabs = T]
             k2 == [k1 EXCEPT !.current = C]
             k3 == [k2 EXCEPT !.tab = X]
  <1>1. q = k3 BY DEF Rebuilds
  <1>2. k1 = [active |-> a, tabs |-> T, current |-> c, tab |-> d] OBVIOUS
  <1> HIDE DEF k1
  <1>3. k2 = [active |-> a, tabs |-> T, current |-> C, tab |-> d] BY <1>2
  <1> HIDE DEF k2
  <1>4. k3 = [active |-> a, tabs |-> T, current |-> C, tab |-> X] BY <1>3
  <1> HIDE DEF k3
  <1> QED BY <1>1, <1>4

LEMMA MergeComesBack ==
  ASSUME NEW s, NEW r \in Merge(s)
  PROVE  \E b : Back(s, b) /\ r \in IF s.active \in Groups(b) THEN {b}
                                    ELSE IF Groups(b) = {} THEN {[b EXCEPT !.active = None]}
                                    ELSE {[b EXCEPT !.active = w] : w \in Groups(b)}
  <1> DEFINE kept == KeepOnly(s, Own(s))
             T == [w \in Workspaces |-> SortedOf(s, w)]
             C == [w \in Workspaces |->
                     IF SortedOf(s, w) = <<>> THEN None
                     ELSE IF s.current[w] \in Own(s) THEN s.current[w] ELSE SortedOf(s, w)[1]]
             X == [t \in TabIds |-> [kept.tab[t] EXCEPT !.at = kept.tab[t].path]]
             back == [kept EXCEPT !.tabs = T, !.current = C, !.tab = X]
  <1>1. r \in IF s.active \in Groups(back) THEN {back}
              ELSE IF Groups(back) = {} THEN {[back EXCEPT !.active = None]}
              ELSE {[back EXCEPT !.active = w] : w \in Groups(back)}
    BY DEF Merge, SortedOf, Sorted, Own
  <1>2. /\ kept = [active |-> kept.active, tabs |-> kept.tabs, current |-> kept.current,
                   tab |-> kept.tab]
        /\ kept.active = s.active
    BY DEF KeepOnly
  <1>3. /\ X = [t \in TabIds |-> X[t]]
        /\ \A t \in TabIds : X[t] = [kept.tab[t] EXCEPT !.at = kept.tab[t].path]
    OBVIOUS
  <1>4. kept = KeepOnly(s, Own(s)) OBVIOUS
  <1> HIDE DEF kept, T, C, X
  <1>5. /\ back.active = s.active /\ back.tabs = T /\ back.current = C /\ back.tab = X
        /\ back = [active |-> back.active, tabs |-> back.tabs, current |-> back.current,
                   tab |-> back.tab]
    <2> DEFINE g == [active |-> s.active, tabs |-> T, current |-> C, tab |-> X]
    <2>1. back = g
      <3>1. kept = [active |-> s.active, tabs |-> kept.tabs, current |-> kept.current,
                    tab |-> kept.tab]
        BY <1>2
      <3>2. Rebuilds(back, kept, T, C, X) BY DEF Rebuilds
      <3> HIDE DEF back
      <3> QED BY <3>1, <3>2, Rebuilt
    <2>2. /\ g.active = s.active /\ g.tabs = T /\ g.current = C /\ g.tab = X
          /\ g = [active |-> g.active, tabs |-> g.tabs, current |-> g.current, tab |-> g.tab]
      BY <1>2
    <2> HIDE DEF back, g
    <2> QED BY <2>1, <2>2
  <1> HIDE DEF back
  <1>6. Back(s, back)
    <2>1. back.tabs = [w \in Workspaces |-> SortedOf(s, w)] BY <1>5 DEF T
    <2>2. back.current = [w \in Workspaces |->
                     IF SortedOf(s, w) = <<>> THEN None
                     ELSE IF s.current[w] \in Own(s) THEN s.current[w] ELSE SortedOf(s, w)[1]]
      BY <1>5 DEF C
    <2>3. back.tab = [t \in TabIds |-> back.tab[t]] BY <1>3, <1>5
    <2>4. \A t \in TabIds :
            LET k == KeepOnly(s, Own(s)).tab[t] IN back.tab[t] = [k EXCEPT !.at = k.path]
      BY <1>3, <1>4, <1>5
    <2> QED BY <1>5, <2>1, <2>2, <2>3, <2>4 DEF Back
  <1> QED BY <1>1, <1>6

LEMMA BackGood ==
  ASSUME NEW s, Good(s), NEW b, Back(s, b)
  PROVE  /\ Neat(b)
         /\ \A w \in Groups(b) : b.current[w] \in InGroup(b, w)
         /\ \A w \in Workspaces : InGroup(b, w) = InGroup(s, w) \cap Own(s)
         /\ \A t \in TabIds \cap Own(s) : b.tab[t].at = s.tab[t].path
  <1> DEFINE K == Own(s)
             kept == KeepOnly(s, K)
  <1>1. Neat(s) BY DEF Good
  <1>0. kept = KeepOnly(s, K) OBVIOUS
  <1>2. /\ b = [active |-> b.active, tabs |-> b.tabs, current |-> b.current, tab |-> b.tab]
        /\ b.active = s.active
        /\ b.tabs = [w \in Workspaces |-> SortedOf(s, w)]
        /\ b.current = [w \in Workspaces |->
                    IF SortedOf(s, w) = <<>> THEN None
                    ELSE IF s.current[w] \in K THEN s.current[w] ELSE SortedOf(s, w)[1]]
        /\ b.tab = [t \in TabIds |-> b.tab[t]]
        /\ \A t \in TabIds : b.tab[t] = [kept.tab[t] EXCEPT !.at = kept.tab[t].path]
    BY DEF Back
  <1>3. \A w \in Workspaces : SortedOf(s, w) = Sorted(kept.tabs[w], Pinned(s))
    BY DEF SortedOf
  <1> HIDE DEF K, kept
  <1>4. /\ Neat(kept) /\ KeepsPaths(s, kept, None)
        /\ \A w \in Workspaces : InGroup(kept, w) = InGroup(s, w) \cap K
        /\ \A t \in TabIds \cap K : kept.tab[t] = s.tab[t]
    BY <1>0, <1>1, Keeping
  <1>5. ASSUME NEW w \in Workspaces
        PROVE  /\ Group(Pinned(s), SortedOf(s, w)) /\ b.tabs[w] = SortedOf(s, w)
               /\ ToSet(SortedOf(s, w)) = InGroup(s, w) \cap K
    <2>1. Group(Pinned(kept), kept.tabs[w]) BY <1>4 DEF Neat
    <2>2. /\ Group(Pinned(s), Sorted(kept.tabs[w], Pinned(s)))
          /\ ToSet(Sorted(kept.tabs[w], Pinned(s))) = ToSet(kept.tabs[w])
      BY <2>1, SortedGroup
    <2>3. ToSet(kept.tabs[w]) = InGroup(s, w) \cap K BY <1>4 DEF InGroup
    <2> QED BY <1>2, <1>3, <2>2, <2>3
  <1>6. \A w \in Workspaces : InGroup(b, w) = InGroup(s, w) \cap K BY <1>5 DEF InGroup
  <1>7. ASSUME NEW t \in TabIds
        PROVE  /\ b.tab[t] \in Tab /\ b.tab[t].at = kept.tab[t].path
               /\ b.tab[t].pinned = kept.tab[t].pinned
    <2>1. kept.tab[t] \in Tab BY <1>4, Fields DEF Neat
    <2>2. b.tab[t] = [kept.tab[t] EXCEPT !.at = kept.tab[t].path] BY <1>2
    <2> QED BY <2>1, <2>2 DEF Tab
  <1>8. b \in Store
    <2>1. \A w \in Workspaces : SortedOf(s, w) \in Seq(TabIds) BY <1>5 DEF Group
    <2>2. b.tabs \in [Workspaces -> Seq(TabIds)] BY <1>2, <2>1
    <2>3. s.current \in [Workspaces -> TabIds \cup {None}]
          /\ s.active \in Workspaces \cup {None}
      BY <1>1, Fields DEF Neat
    <2>4. b.current \in [Workspaces -> TabIds \cup {None}]
      <3>1. ASSUME NEW w \in Workspaces, SortedOf(s, w) # <<>>
            PROVE  SortedOf(s, w)[1] \in TabIds
        <4>1. 1 \in 1 .. Len(SortedOf(s, w)) BY <2>1, <3>1, EmptySeq
        <4> QED BY <2>1, <4>1, ElementOfSeq
      <3> QED BY <1>2, <2>3, <3>1
    <2>5. b.tab \in [TabIds -> Tab] BY <1>2, <1>7
    <2> QED BY <1>2, <2>2, <2>3, <2>4, <2>5 DEF Store
  <1>9. Neat(b)
    <2>1. ASSUME NEW w \in Workspaces PROVE Group(Pinned(b), b.tabs[w])
      <3>1. \A t \in ToSet(SortedOf(s, w)) : t \in Pinned(s) <=> t \in Pinned(b)
        <4> SUFFICES ASSUME NEW t \in ToSet(SortedOf(s, w))
                     PROVE  t \in Pinned(s) <=> t \in Pinned(b)
          OBVIOUS
        <4>1. t \in TabIds \cap K BY <1>1, <1>5, InGroups
        <4> QED BY <1>4, <1>7, <4>1 DEF Pinned
      <3> QED BY <1>5, <3>1, GroupOf
    <2>2. \A v, w \in Workspaces : v # w => InGroup(b, v) \cap InGroup(b, w) = {}
      BY <1>1, <1>6 DEF Neat
    <2> QED BY <1>8, <2>1, <2>2 DEF Neat
  <1>10. ASSUME NEW w \in Groups(b) PROVE b.current[w] \in InGroup(b, w)
    <2>0. w \in Workspaces /\ SortedOf(s, w) # <<>> BY <1>5 DEF Groups
    <2>1. SortedOf(s, w) \in Seq(TabIds) /\ ToSet(SortedOf(s, w)) = InGroup(b, w)
      BY <1>5, <1>6, <2>0 DEF Group
    <2>2. CASE s.current[w] \in K
      <3>1. InGroup(s, w) # {} BY <1>6, <2>0, <2>1, Members
      <3>2. w \in Groups(s) BY <1>1, <2>0, <3>1, InGroups
      <3>3. s.current[w] \in InGroup(s, w) BY <3>2 DEF Good
      <3> QED BY <1>2, <1>6, <2>0, <2>2, <3>3
    <2>3. CASE s.current[w] \notin K
      <3>1. 1 \in DOMAIN SortedOf(s, w) BY <2>0, <2>1, LenProperties, EmptySeq
      <3>2. SortedOf(s, w)[1] \in InGroup(b, w) BY <2>1, <3>1, Members
      <3> QED BY <1>2, <2>0, <2>3, <3>2
    <2> QED BY <2>2, <2>3
  <1>11. \A t \in TabIds \cap K : b.tab[t].at = s.tab[t].path BY <1>4, <1>7
  <1> QED BY <1>6, <1>9, <1>10, <1>11 DEF K

LEMMA MergeGood ==
  ASSUME NEW s, Good(s), NEW r \in Merge(s)
  PROVE  Good(r)
  <1>1. PICK b : /\ Back(s, b)
                 /\ r \in IF s.active \in Groups(b) THEN {b}
                          ELSE IF Groups(b) = {} THEN {[b EXCEPT !.active = None]}
                          ELSE {[b EXCEPT !.active = w] : w \in Groups(b)}
    BY MergeComesBack
  <1>2. Neat(b) /\ \A w \in Groups(b) : b.current[w] \in InGroup(b, w)
    BY <1>1, BackGood
  <1>3. CASE s.active \in Groups(b)
    <2>1. r = b BY <1>1, <1>3
    <2>2. b.active = s.active BY <1>1 DEF Back
    <2> QED BY <1>2, <1>3, <2>1, <2>2 DEF Good
  <1>4. CASE s.active \notin Groups(b)
    <2>1. PICK a \in Groups(b) \cup {None} : r = [b EXCEPT !.active = a]
      BY <1>1, <1>4
    <2> QED BY <1>2, <2>1, Fronted
  <1> QED BY <1>3, <1>4

-----------------------------------------------------------------------------
(* The inductive invariant.  The tab whose effects are mounted is at its   *)
(* stored path even when it is no longer in front, or gone: it may come    *)
(* back to the front before the next render.                               *)

Synced == shown # None => AtPath(store, shown)

IInv ==
  /\ Good(store)
  /\ shown \in TabIds \cup {None}
  /\ list = Unfetched \/ list \subseteq Workspaces
  /\ Synced
  /\ SomewhereToBe

LEMMA Free ==
  ASSUME Good(store), NEW n \in Fresh
  PROVE  n \in TabIds \ Live(store) /\ n # shown
  <1>1. Unused # {} /\ n = CHOOSE t \in Unused : TRUE BY DEF Fresh
  <1>2. n \in Unused BY <1>1
  <1> QED BY <1>2 DEF Unused

LEMMA Pushes ==
  ASSUME IInv, NEW t \in Pushers, NEW p \in Place, NEW n \in Fresh
  PROVE  Fits(store, PushFrom(store, t, p, n)) /\ Fits(store, ReplaceFrom(store, t, p, n))
  <1>1. Good(store) /\ shown \in TabIds \cup {None} BY DEF IInv
  <1>2. n \in TabIds \ Live(store) /\ n # shown BY <1>1, Free
  <1>3. p.ws \in Workspaces BY DEF Place
  <1>4. t \in TabIds \cup {None} BY <1>1, InGroups DEF Pushers, Good
  <1>5. Fits(store, store) BY <1>1 DEF Fits
  <1>6. Fits(store, SwitchWorkspace(store, p.ws, p, n))
    BY <1>1, <1>2, <1>3, SwitchWorkspaceGood, BecomesFits
  <1>7. Fits(store, SetActiveTab(OpenTab(store, p, n), OpenedId(store, p, n)))
    BY <1>1, <1>2, OpenAndShowGood, BecomesFits
  <1>8. Fits(store, Navigate(store, t, p)) BY <1>1, <1>4, NavigateFits
  <1>9. Fits(store, PushFrom(store, t, p, n)) BY <1>5, <1>6, <1>7, <1>8 DEF PushFrom
  <1>10. Fits(store, ReplaceFrom(store, t, p, n)) BY <1>6, <1>8 DEF ReplaceFrom
  <1> QED BY <1>9, <1>10

LEMMA StepKeeps ==
  ASSUME IInv, NEW r, Fits(store, r), Step(r)
  PROVE  IInv'
  <1>1. store' = r /\ shown' = shown /\ list' = list BY DEF Step
  <1>2. Good(store') BY <1>1 DEF Fits
  <1>3. Synced' BY <1>1 DEF IInv, Synced, Fits, AtPath
  <1>4. SomewhereToBe' BY <1>1 DEF IInv, SomewhereToBe, Fits
  <1>5. Good(store)' BY <1>2
  <1> QED BY <1>1, <1>3, <1>4, <1>5 DEF IInv

LEMMA EmptyGood == Good(Empty)
  <1>1. /\ Empty.active = None
        /\ Empty.tabs = [w \in Workspaces |-> <<>>]
        /\ Empty.current = [w \in Workspaces |-> None]
        /\ Empty.tab = [t \in TabIds |-> Gone]
        /\ Empty = [active |-> Empty.active, tabs |-> Empty.tabs,
                    current |-> Empty.current, tab |-> Empty.tab]
    BY DEF Empty
  <1>2. Empty \in Store
    <2>1. Empty.tabs \in [Workspaces -> Seq(TabIds)] BY <1>1, EmptySeq
    <2>2. Empty.tab \in [TabIds -> Tab] BY <1>1, GoneIsTab
    <2>3. Empty.current \in [Workspaces -> TabIds \cup {None}] BY <1>1
    <2> QED BY <1>1, <2>1, <2>2, <2>3 DEF Store
  <1>3. DOMAIN <<>> = {} BY EmptySeq
  <1>4. \A w \in Workspaces : InGroup(Empty, w) = {} BY <1>1, <1>3 DEF InGroup, ToSet
  <1>5. \A w \in Workspaces : Group(Pinned(Empty), Empty.tabs[w])
    <2> SUFFICES ASSUME NEW w \in Workspaces PROVE Group(Pinned(Empty), <<>>) BY <1>1
    <2>1. <<>> \in Seq(TabIds) BY EmptySeq
    <2> QED BY <1>3, <2>1 DEF Group, IsInjective, PinnedFront
  <1>6. Neat(Empty) BY <1>2, <1>4, <1>5 DEF Neat
  <1>7. Groups(Empty) = {} BY <1>1 DEF Groups
  <1> QED BY <1>1, <1>6, <1>7 DEF Good

LEMMA Start == Init => IInv
  <1> SUFFICES ASSUME Init PROVE IInv OBVIOUS
  <1>1. store = Empty /\ shown = None /\ list = Unfetched BY DEF Init
  <1>2. Good(store) BY <1>1, EmptyGood
  <1> QED BY <1>1, <1>2 DEF IInv, Synced, SomewhereToBe

\* Whatever is made of the store when a render mounts the effects of a tab.
LEMMA Mounts ==
  ASSUME IInv, Mount
  PROVE  IInv'
  <1> DEFINE v == GetActiveTab(store)
  <1>1. Good(store) /\ Neat(store) /\ store \in Store BY DEF IInv, Good, Neat
  <1>2. shown' = v /\ list' = list BY DEF Mount
  <1>3. v \in TabIds \cup {None}
    BY <1>1, Fields DEF GetActiveTab
  <1>4. CASE v = None
    <2>1. store' = store BY <1>2, <1>4 DEF Mount
    <2> QED BY <1>2, <1>4, <2>1 DEF IInv, Synced, SomewhereToBe
  <1>5. CASE v # None
    <2> DEFINE r == [store EXCEPT !.tab[v].path = store.tab[v].at]
    <2>0. v \in TabIds BY <1>3, <1>5
    <2>1. \/ store' = r
          \/ list # Unfetched /\ \E n \in Fresh : store' \in ValidateWorkspaceSlugs(r, list, n)
      BY <1>2, <1>5 DEF Mount
    <2>2. Writes(store, r, v, store.tab[v].at, store.tab[v].at) BY DEF Writes
    <2>3. store.tab[v].at \in Place \cup {Root} BY <1>1, <2>0, Fields DEF Tab
    <2> HIDE DEF v, r
    <2>4. /\ Routes(store, r, v)
          /\ r.tab[v].at = store.tab[v].at /\ r.tab[v].path = store.tab[v].at
      BY <1>1, <2>0, <2>2, <2>3, Rewritten
    <2>5. Good(r) BY <1>1, <2>0, <2>4, RoutedTab
    <2>6. AtPath(r, v) /\ r.active = store.active BY <2>4 DEF AtPath, Routes
    <2>7. CASE store' = r
      <3>1. Good(store)' BY <2>5, <2>7
      <3>2. Synced' BY <1>2, <2>6, <2>7 DEF Synced, AtPath
      <3>3. SomewhereToBe' BY <1>2, <2>6, <2>7 DEF IInv, SomewhereToBe
      <3> QED BY <1>2, <1>3, <3>1, <3>2, <3>3 DEF IInv
    <2>8. ASSUME list # Unfetched, NEW n \in Fresh,
                 store' \in ValidateWorkspaceSlugs(r, list, n)
          PROVE  IInv'
      <3>1. list \in SUBSET Workspaces BY <2>8 DEF IInv
      <3>2. n \in TabIds \ Live(store) BY <1>1, Free
      <3>3. Live(r) = Live(store) BY <2>4 DEF Live, InGroup, Routes
      <3>4. Good(store') /\ KeepsPaths(r, store', n) /\ (list # {} => store'.active # None)
        BY <2>5, <2>8, <3>1, <3>2, <3>3, ValidateGood
      <3>5. n # v
        <4>1. store.active # None /\ v = store.current[store.active]
          BY <1>5 DEF v, GetActiveTab
        <4>2. store.active \in Groups(store) /\ store.active \in Workspaces
          BY <1>1, <4>1 DEF Good, Groups
        <4>3. v \in InGroup(store, store.active) BY <1>1, <4>1, <4>2 DEF Good
        <4>4. v \in Live(store) BY <1>1, <4>2, <4>3, InGroups
        <4> QED BY <3>2, <4>4
      <3>6. AtPath(store', v) BY <2>0, <2>6, <3>4, <3>5 DEF KeepsPaths
      <3>7. Synced' BY <1>2, <3>6 DEF Synced, AtPath
      <3>8. SomewhereToBe' BY <1>2, <3>4 DEF SomewhereToBe
      <3>9. Good(store)' BY <3>4
      <3> QED BY <1>2, <1>3, <3>1, <3>7, <3>8, <3>9 DEF IInv
    <2> QED BY <2>1, <2>7, <2>8
  <1> QED BY <1>4, <1>5

LEMMA Keeps == IInv /\ [Next]_vars => IInv'
  <1> SUFFICES ASSUME IInv, [Next]_vars PROVE IInv' OBVIOUS
  <1>1. Good(store) /\ Neat(store) /\ store \in Store /\ shown \in TabIds \cup {None}
    BY DEF IInv, Good, Neat
  <1>2. store.active # None => /\ store.active \in Workspaces
                               /\ store.active \in Groups(store)
    BY <1>1 DEF Good, Groups
  <1>3. ASSUME NEW n \in Fresh, Creates(n) PROVE IInv'
    <2>1. n \in TabIds \ Live(store) /\ n # shown BY <1>1, Free
    <2>2. ASSUME NEW t \in Pushers, NEW p \in Place, Push(t, p, n) \/ Replace(t, p, n)
          PROVE  IInv'
      BY <2>2, Pushes, StepKeeps DEF Push, Replace
    <2>3. ASSUME NEW p \in Place, NEW activate \in BOOLEAN, OpenInNewTab(p, activate, n)
          PROVE  IInv'
      <3>1. p.ws \in Workspaces BY DEF Place
      <3>2. Fits(store, SwitchWorkspace(store, p.ws, p, n))
        BY <1>1, <2>1, <3>1, SwitchWorkspaceGood, BecomesFits
      <3>3. Fits(store, SetActiveTab(OpenTab(store, p, n), OpenedId(store, p, n)))
        BY <1>1, <2>1, OpenAndShowGood, BecomesFits
      <3>4. Fits(store, OpenTab(store, p, n)) BY <1>1, <2>1, OpenTabGood, BecomesFits
      <3>5. \/ Step(SwitchWorkspace(store, p.ws, p, n))
            \/ Step(SetActiveTab(OpenTab(store, p, n), OpenedId(store, p, n)))
            \/ Step(OpenTab(store, p, n))
        BY <2>3 DEF OpenInNewTab
      <3> QED BY <3>2, <3>3, <3>4, <3>5, StepKeeps
    <2>4. ASSUME NEW p \in Place, InternalLink(p, n) PROVE IInv'
      <3>1. Fits(store, SetActiveTab(OpenTab(store, p, n), OpenedId(store, p, n)))
        BY <1>1, <2>1, OpenAndShowGood, BecomesFits
      <3> QED BY <2>4, <3>1, StepKeeps DEF InternalLink
    <2>5. ASSUME NEW t, Step(CloseTab(store, t, n)) PROVE IInv'
      <3>1. Fits(store, CloseTab(store, t, n)) BY <1>1, <2>1, CloseTabGood, BecomesFits
      <3> QED BY <2>5, <3>1, StepKeeps
    <2>6. ASSUME NewTab(n) PROVE IInv'
      <3> DEFINE w == store.active
                 q == Append1(store, w, n, DefaultPath(w))
      <3>1. w \in Workspaces /\ w \in Groups(store) BY <1>2, <2>6 DEF NewTab
      <3>2. DefaultPath(w) \in Place \cup {Root} BY <3>1, Places
      <3>3. GoodBut(store, w) BY <1>1, GoodGoodBut
      <3>4. Step(SetActiveTab(q, n)) BY <2>6 DEF NewTab
      <3> HIDE DEF w
      <3>5. Good(q) /\ Kept(store, q, n) BY <1>1, <2>1, <3>1, <3>2, <3>3, AppendedGroups
      <3> HIDE DEF q
      <3>6. Becomes(q, SetActiveTab(q, n), n) BY <3>5, SetActiveTabGood
      <3>7. Becomes(store, SetActiveTab(q, n), n) BY <3>5, <3>6, Then
      <3>8. Fits(store, SetActiveTab(q, n)) BY <1>1, <2>1, <3>7, BecomesFits
      <3> QED BY <3>4, <3>8, StepKeeps
    <2>7. ASSUME NEW valid \in SUBSET Workspaces, ListArrives(valid, n) PROVE IInv'
      <3>1. store' \in ValidateWorkspaceSlugs(store, valid, n) /\ list' = valid
            /\ shown' = shown
        BY <2>7 DEF ListArrives
      <3>2. Good(store') /\ KeepsPaths(store, store', n) /\ (valid # {} => store'.active # None)
        BY <1>1, <2>1, <3>1, ValidateGood
      <3>3. Synced' BY <1>1, <2>1, <3>1, <3>2 DEF IInv, Synced, KeepsPaths, AtPath
      <3>4. SomewhereToBe' BY <3>1, <3>2 DEF SomewhereToBe
      <3>5. Good(store)' BY <3>2
      <3> QED BY <1>1, <3>1, <3>3, <3>4, <3>5 DEF IInv
    <2> QED BY <1>3, <2>2, <2>3, <2>4, <2>5, <2>6, <2>7
      DEF Creates, ClickClose, CloseActiveTab
  <1>4. ASSUME NEW t \in Pushers, PushNewWorkspace(t) PROVE IInv'
    <2>1. t \in TabIds \cup {None} BY <1>1, InGroups DEF Pushers
    <2>2. Fits(store, Navigate(store, t, Root)) BY <1>1, <2>1, NavigateFits
    <2> QED BY <1>4, <2>2, StepKeeps DEF PushNewWorkspace
  <1>0. PICK n \in BOOLEAN : n # shown OBVIOUS
  <1>5. ASSUME NEW t \in TabIds, ClickTab(t) \/ ClickPin(t) PROVE IInv'
    <2>1. Fits(store, SetActiveTab(store, t))
      BY <1>0, <1>1, SetActiveTabGood, BecomesFits
    <2>2. ASSUME ClickPin(t) PROVE Fits(store, TogglePin(store, t))
      <3>1. t \in Live(store)
        <4>1. store.active # None
          <5> SUFFICES ASSUME store.active = None PROVE FALSE OBVIOUS
          <5>1. t \in ToSet(<<>>) BY <2>2 DEF ClickPin, ActiveTabs
          <5>2. DOMAIN <<>> = {} BY EmptySeq
          <5> QED BY <5>1, <5>2 DEF ToSet
        <4>2. t \in InGroup(store, store.active)
          BY <2>2, <4>1 DEF ClickPin, ActiveTabs, InGroup
        <4> QED BY <1>2, <4>1, <4>2 DEF Live
      <3> QED BY <1>0, <1>1, <3>1, TogglePinGood, BecomesFits
    <2>3. CASE ClickTab(t) BY <2>1, <2>3, StepKeeps DEF ClickTab
    <2>4. CASE ClickPin(t) BY <2>2, <2>4, StepKeeps DEF ClickPin
    <2> QED BY <1>5, <2>3, <2>4
  <1>6. ASSUME NEW i \in 1 .. Cardinality(TabIds), NEW j \in 1 .. Cardinality(TabIds),
               Drag(i, j)
        PROVE  IInv'
    <2>1. i \in DOMAIN ActiveTabs /\ j \in DOMAIN ActiveTabs /\ Step(MoveTab(store, i, j))
      BY <1>6 DEF Drag
    <2>2. store.active # None
      <3>1. DOMAIN <<>> = {} BY EmptySeq
      <3> QED BY <2>1, <3>1 DEF ActiveTabs
    <2>3. i \in DOMAIN store.tabs[store.active] /\ j \in DOMAIN store.tabs[store.active]
      BY <2>1, <2>2 DEF ActiveTabs
    <2>4. Becomes(store, MoveTab(store, i, j), n) BY <1>1, <2>2, <2>3, MoveTabGood
    <2>5. Fits(store, MoveTab(store, i, j)) BY <1>0, <1>1, <2>4, BecomesFits
    <2> QED BY <2>1, <2>5, StepKeeps
  <1>7. ASSUME Reload PROVE IInv'
    <2> DEFINE v == GetActiveTab(store)
               r == ReloadActiveTab(store)
    <2>1. v # None /\ store' = r /\ shown' = None /\ list' = list BY <1>7 DEF Reload
    <2>2. v \in TabIds BY <1>1, <2>1, Fields DEF GetActiveTab
    <2>3. Writes(store, r, v, store.tab[v].path, store.tab[v].path)
      BY DEF ReloadActiveTab, Writes
    <2>4. store.tab[v].path \in Place \cup {Root} BY <1>1, <2>2, Fields DEF Tab
    <2> HIDE DEF v, r
    <2>5. Routes(store, r, v) BY <1>1, <2>2, <2>3, <2>4, Rewritten
    <2>6. Good(r) /\ r.active = store.active BY <1>1, <2>2, <2>5, RoutedTab DEF Routes
    <2>7. Good(store)' BY <2>1, <2>6
    <2>8. SomewhereToBe' BY <2>1, <2>6 DEF IInv, SomewhereToBe
    <2> QED BY <2>1, <2>7, <2>8 DEF IInv, Synced
  <1>8. ASSUME Logout PROVE IInv'
    <2>1. Good(Empty) BY EmptyGood
    <2>2. store' = Empty /\ list' = Unfetched /\ shown' = shown BY <1>8 DEF Logout
    <2>3. Good(store)' BY <2>1, <2>2
    <2>4. Synced' BY <1>1, <2>2, GoneIsTab DEF Synced, AtPath, Empty
    <2>5. SomewhereToBe' BY <2>2 DEF SomewhereToBe
    <2> QED BY <1>1, <2>2, <2>3, <2>4, <2>5 DEF IInv
  <1>9. ASSUME Restart PROVE IInv'
    <2>1. store' \in Merge(store) /\ shown' = None /\ list' = Unfetched
      BY <1>9 DEF Restart
    <2>2. Good(store') BY <1>1, <2>1, MergeGood
    <2>3. Good(store)' BY <2>2
    <2> QED BY <2>1, <2>3 DEF IInv, Synced, SomewhereToBe
  <1>10. CASE UNCHANGED vars
    <2>1. store' = store /\ shown' = shown /\ list' = list BY <1>10 DEF vars
    <2> QED BY <2>1 DEF IInv, Synced, SomewhereToBe
  <1>11. CASE Next
    BY <1>3, <1>4, <1>5, <1>6, <1>7, <1>8, <1>9, <1>11, Mounts DEF Next
  <1> QED BY <1>10, <1>11

LEMMA Inductive == Spec => []IInv
  BY Start, Keeps, PTL DEF Spec

-----------------------------------------------------------------------------

\* Every variable keeps its type: store, mounted tab, list.
THEOREM TypeCorrect == Spec => []TypeOK
  <1>1. IInv => TypeOK
    <2> SUFFICES ASSUME IInv PROVE TypeOK OBVIOUS
    <2>1. store \in Store BY DEF IInv, Good, Neat
    <2> QED BY <2>1, Fields DEF IInv, TypeOK, Tab
  <1> QED BY <1>1, Inductive, PTL

\* Whatever was closed, dropped or restored, the active workspace has a group,
\* and every group shows one of its own tabs (tab-store.ts:33-37).
THEOREM AlwaysShowable == Spec => []GroupsAreShowable
  <1>1. IInv => GroupsAreShowable BY DEF IInv, Good, GroupsAreShowable
  <1> QED BY <1>1, Inductive, PTL

\* Opening, dragging, pinning and restoring leave the pinned tabs of a group
\* before the others (tab-store.ts:29-31).
THEOREM PinnedLead == Spec => []PinnedFirst
  <1>1. IInv => PinnedFirst
    <2> SUFFICES ASSUME IInv, NEW w \in Workspaces, NEW i \in DOMAIN store.tabs[w],
                        NEW j \in DOMAIN store.tabs[w], i < j,
                        store.tab[store.tabs[w][j]].pinned
                 PROVE  store.tab[store.tabs[w][i]].pinned
      BY DEF PinnedFirst
    <2>1. Group(Pinned(store), store.tabs[w]) BY DEF IInv, Good, Neat
    <2>2. \A k \in DOMAIN store.tabs[w] : store.tabs[w][k] \in TabIds
      BY <2>1, Members DEF Group
    <2> QED BY <2>1, <2>2 DEF Group, PinnedFront, Pinned
  <1> QED BY <1>1, Inductive, PTL

\* A tab is in one place of one group, whichever of the methods put it there.
THEOREM OnePlace == Spec => []TabsAreApart
  <1>1. IInv => TabsAreApart BY DEF IInv, Good, Neat, Group, TabsAreApart
  <1> QED BY <1>1, Inductive, PTL

\* Once the list of workspaces is known and not empty, one of them is in front.
THEOREM Somewhere == Spec => []SomewhereToBe
  <1>1. IInv => SomewhereToBe BY DEF IInv
  <1> QED BY <1>1, Inductive, PTL

\* What would be restored is what is on the screen: the effect that copies the
\* mounted tab's router into the store is never behind.
THEOREM ShownIsStored == Spec => []StoredIsShown
  <1>1. IInv => StoredIsShown BY DEF IInv, Synced, AtPath, StoredIsShown
  <1> QED BY <1>1, Inductive, PTL

\* A restart comes back to the page in front when it is of the workspace in front.
THEOREM Resumes == Spec => RestartResumes
  <1> DEFINE v == shown
             w == store.active
             Back1 == GetActiveTab(store') = shown
                      /\ store'.tab[shown].at = store.tab[shown].at
  <1>1. ASSUME IInv, shown # None, shown = GetActiveTab(store),
               store.tab[shown].at.ws = store.active, Restart
        PROVE  Back1
    <2>1. Good(store) /\ Neat(store) /\ store \in Store BY <1>1 DEF IInv, Good, Neat
    <2>2. w # None /\ v = store.current[w] BY <1>1 DEF GetActiveTab
    <2>3. w \in Workspaces /\ w \in Groups(store) BY <2>1, <2>2 DEF Good, Groups
    <2>4. v \in InGroup(store, w) BY <2>1, <2>2, <2>3 DEF Good
    <2>5. v \in TabIds /\ v \in Live(store) /\ OwnerOf(store, v) = w
      BY <2>1, <2>3, <2>4, InGroups
    <2>6. store.tab[v].path = store.tab[v].at BY <1>1 DEF IInv, Synced, AtPath
    <2>7. v \in Own(store) BY <1>1, <2>5, <2>6 DEF Own
    <2>8. PICK b : /\ Back(store, b)
                   /\ store' \in IF store.active \in Groups(b) THEN {b}
                                 ELSE IF Groups(b) = {} THEN {[b EXCEPT !.active = None]}
                                 ELSE {[b EXCEPT !.active = u] : u \in Groups(b)}
      <3>1. store' \in Merge(store) BY <1>1 DEF Restart
      <3> QED BY <3>1, MergeComesBack
    <2>9. /\ Neat(b)
          /\ \A u \in Groups(b) : b.current[u] \in InGroup(b, u)
          /\ \A u \in Workspaces : InGroup(b, u) = InGroup(store, u) \cap Own(store)
          /\ \A t \in TabIds \cap Own(store) : b.tab[t].at = store.tab[t].path
      BY <2>1, <2>8, BackGood
    <2>10. v \in InGroup(b, w) BY <2>3, <2>4, <2>7, <2>9
    <2>11. w \in Groups(b) BY <2>3, <2>9, <2>10, InGroups
    <2>12. store' = b BY <2>8, <2>11
    <2>13. b.current[w] = v
      <3>1. SortedOf(store, w) # <<>> BY <2>3, <2>8, <2>11 DEF Back, Groups
      <3> QED BY <2>2, <2>3, <2>7, <2>8, <3>1 DEF Back
    <2>14. b.active = w BY <2>8 DEF Back
    <2>15. b.tab[v].at = store.tab[v].at BY <2>5, <2>6, <2>7, <2>9
    <2> QED BY <2>2, <2>12, <2>13, <2>14, <2>15 DEF GetActiveTab
  <1>2. IInv /\ [Next]_vars
        => [shown # None /\ shown = GetActiveTab(store)
              /\ store.tab[shown].at.ws = store.active /\ Restart => Back1]_vars
    BY <1>1
  <1> QED BY <1>2, Inductive, PTL DEF Spec, RestartResumes
=============================================================================
