----------------------------- MODULE ShellProofs -----------------------------
(***************************************************************************)
(* Proofs about the shell of the window, Workspace, and about the consoles *)
(* that its console tabs hold, Console, for any number of connections,     *)
(* databases, keys, tabs, consoles, lines and calls in flight.             *)
(*                                                                         *)
(* The tabs: every operation of the store takes each tab over once, or     *)
(* adds one whose identity and view none has, so that what makes the list  *)
(* good is passed on.  A rename in flight comes from the tab of a key and  *)
(* so cannot make two equal views of the other kinds.                      *)
(*                                                                         *)
(* The consoles: a pending confirmation is written by the check only,      *)
(* together with the record of what was checked, and the clock ages both   *)
(* alike; the list of a popup is replaced together with its selection, and *)
(* the recalled history together with the position in it.                  *)
(***************************************************************************)
EXTENDS Workspace, Console, FiniteSetTheorems, TLAPS

-----------------------------------------------------------------------------
(* filter keeps the chosen elements, all of them, and their order.          *)

Below(I, i) == {j \in I : j <= i}
Rank(I, i) == Cardinality(Below(I, i))

LEMMA RankType ==
  ASSUME NEW I \in SUBSET Nat, IsFiniteSet(I), NEW i \in I
  PROVE  /\ i \in Nat
         /\ IsFiniteSet(Below(I, i)) /\ Below(I, i) \in SUBSET I /\ i \in Below(I, i)
         /\ Cardinality(I) \in Nat /\ Rank(I, i) \in 1..Cardinality(I)
<1>1. i \in Nat /\ Below(I, i) \in SUBSET I /\ i \in Below(I, i)
  BY DEF Below
<1>2. IsFiniteSet(Below(I, i)) /\ Cardinality(Below(I, i)) <= Cardinality(I)
  BY <1>1, FS_Subset
<1>3. Cardinality(I) \in Nat /\ Cardinality(Below(I, i)) \in Nat
  BY <1>2, FS_CardinalityType
<1>4. Cardinality(Below(I, i)) # 0
  BY <1>1, <1>2, FS_EmptySet
<1>. QED
  BY <1>1, <1>2, <1>3, <1>4 DEF Rank

LEMMA RankGrows ==
  ASSUME NEW I \in SUBSET Nat, IsFiniteSet(I), NEW h \in I, NEW i \in I, h < i
  PROVE  Rank(I, h) < Rank(I, i)
<1>1. \A j \in I : j \in Nat
  OBVIOUS
<1>2. Below(I, h) \in SUBSET Below(I, i) /\ i \in Below(I, i) /\ i \notin Below(I, h)
  <2>1. \A j \in I : j <= h => j <= i
    BY <1>1
  <2>2. i <= i /\ ~(i <= h)
    BY <1>1
  <2>. QED
    BY <2>1, <2>2 DEF Below
<1>3. IsFiniteSet(Below(I, i)) /\ Rank(I, h) \in Nat /\ Rank(I, i) \in Nat
  BY RankType
<1>4. Rank(I, h) <= Rank(I, i) /\ Rank(I, h) # Rank(I, i)
  BY <1>2, <1>3, FS_Subset DEF Rank
<1>. QED
  BY <1>3, <1>4

\* No two elements have the same rank.
LEMMA RankIsInjective ==
  ASSUME NEW I \in SUBSET Nat, IsFiniteSet(I), NEW h \in I, NEW i \in I,
         Rank(I, h) = Rank(I, i)
  PROVE  h = i
<1>1. h \in Nat /\ i \in Nat /\ Rank(I, h) \in Nat /\ Rank(I, i) \in Nat
  BY RankType
<1>2. ~(h < i) /\ ~(i < h)
  BY <1>1, RankGrows
<1>. QED
  BY <1>1, <1>2

\* Every number up to the size of the set is the rank of one element.
LEMMA RankIsOnto ==
  ASSUME NEW I \in SUBSET Nat, IsFiniteSet(I), NEW k \in 1..Cardinality(I)
  PROVE  \E i \in I : Rank(I, i) = k
<1>. DEFINE n == Cardinality(I)
            f == [i \in I |-> Rank(I, i)]
            T == (1..n) \ {k}
<1>0. n \in Nat
  BY FS_CardinalityType
<1>1. IsFiniteSet(T) /\ Cardinality(T) < Cardinality(I)
  <2>1. IsFiniteSet(1..n) /\ Cardinality(1..n) = n
    BY <1>0, FS_Interval
  <2>2. IsFiniteSet(T) /\ Cardinality(T) = Cardinality(1..n) - 1
    BY <2>1, FS_RemoveElement
  <2>. QED
    BY <1>0, <2>1, <2>2
<1>2. SUFFICES ASSUME \A i \in I : Rank(I, i) # k PROVE FALSE
  OBVIOUS
<1>3. f \in [I -> T]
  BY <1>2, RankType
<1>4. PICK x \in I, y \in I : x # y /\ f[x] = f[y]
  <2>. HIDE DEF f, T, n
  <2>. QED
    BY <1>1, <1>3, FS_PigeonHole
<1>. QED
  BY <1>4, RankIsInjective

LEMMA NthFact ==
  ASSUME NEW I \in SUBSET Nat, IsFiniteSet(I)
  PROVE  /\ \A k \in 1..Cardinality(I) : Nth(I, k) \in I /\ Rank(I, Nth(I, k)) = k
         /\ \A i \in I : Rank(I, i) \in 1..Cardinality(I) /\ Nth(I, Rank(I, i)) = i
         /\ \A k, m \in 1..Cardinality(I) : k < m => Nth(I, k) < Nth(I, m)
<1>1. ASSUME NEW k \in 1..Cardinality(I)
      PROVE  Nth(I, k) \in I /\ Rank(I, Nth(I, k)) = k
  BY RankIsOnto DEF Nth, Rank, Below
<1>2. ASSUME NEW i \in I
      PROVE  Rank(I, i) \in 1..Cardinality(I) /\ Nth(I, Rank(I, i)) = i
  <2>1. Rank(I, i) \in 1..Cardinality(I)
    BY RankType
  <2>2. Nth(I, Rank(I, i)) \in I /\ Rank(I, Nth(I, Rank(I, i))) = Rank(I, i)
    BY <1>1, <2>1
  <2>3. \A h \in I : Rank(I, h) = Rank(I, i) => h = i
    BY RankIsInjective
  <2>4. Nth(I, Rank(I, i)) = i
    BY <2>2, <2>3, Zenon
  <2>. QED
    BY <2>1, <2>4
<1>3. ASSUME NEW k \in 1..Cardinality(I), NEW m \in 1..Cardinality(I), k < m
      PROVE  Nth(I, k) < Nth(I, m)
  <2>1. /\ Nth(I, k) \in I /\ Nth(I, m) \in I /\ Nth(I, k) \in Nat /\ Nth(I, m) \in Nat
        /\ Rank(I, Nth(I, k)) = k /\ Rank(I, Nth(I, m)) = m
    BY <1>1
  <2>2. k \in Nat /\ m \in Nat
    BY FS_CardinalityType
  <2>3. ~(Nth(I, m) < Nth(I, k)) /\ Nth(I, m) # Nth(I, k)
    BY <1>3, <2>1, <2>2, RankGrows
  <2>. QED
    BY <2>1, <2>3
<1>. QED
  BY <1>1, <1>2, <1>3

\* The first one is the smallest.
LEMMA SmallestFact ==
  ASSUME NEW I \in SUBSET Nat, IsFiniteSet(I), I # {}
  PROVE  \E i \in I : \A j \in I : i <= j
<1>1. Cardinality(I) \in Nat /\ Cardinality(I) # 0
  BY FS_CardinalityType, FS_EmptySet
<1>2. 1 \in 1..Cardinality(I) /\ Nth(I, 1) \in I
  BY <1>1, NthFact
<1>3. ASSUME NEW j \in I PROVE Nth(I, 1) <= j
  <2>1. Rank(I, j) \in 1..Cardinality(I) /\ Nth(I, Rank(I, j)) = j
    BY NthFact
  <2>2. CASE Rank(I, j) = 1
    BY <2>1, <2>2
  <2>3. CASE 1 < Rank(I, j)
    <3>1. \A k \in 1..Cardinality(I) : 1 < k => Nth(I, 1) < Nth(I, k)
      BY <1>2, NthFact
    <3>2. Nth(I, 1) < j
      BY <2>1, <2>3, <3>1, Zenon
    <3>3. j \in Nat /\ Nth(I, 1) \in Nat
      BY <1>2
    <3>. QED
      BY <3>2, <3>3
  <2>. QED
    BY <2>1, <2>2, <2>3
<1>. QED
  BY <1>2, <1>3

\* The positions of a sequence: what filter chooses is finite.
LEMMA Positions ==
  ASSUME NEW S, NEW s \in Seq(S), NEW I \in SUBSET (DOMAIN s)
  PROVE  I \in SUBSET Nat /\ IsFiniteSet(I) /\ Cardinality(I) \in Nat
<1>1. DOMAIN s = 1..Len(s) /\ Len(s) \in Nat
  OBVIOUS
<1>2. IsFiniteSet(1..Len(s))
  BY <1>1, FS_Interval
<1>. QED
  BY <1>1, <1>2, FS_Subset, FS_CardinalityType

LEMMA KeepFact ==
  ASSUME NEW S, NEW s \in Seq(S), NEW I \in SUBSET (DOMAIN s)
  PROVE  /\ Keep(s, I) \in Seq(S)
         /\ DOMAIN Keep(s, I) = 1..Cardinality(I)
         /\ \A k \in DOMAIN Keep(s, I) : Nth(I, k) \in I /\ Keep(s, I)[k] = s[Nth(I, k)]
         /\ \A k, m \in DOMAIN Keep(s, I) : k < m => Nth(I, k) < Nth(I, m)
         /\ \A i \in I : \E k \in DOMAIN Keep(s, I) : Nth(I, k) = i
<1>1. I \in SUBSET Nat /\ IsFiniteSet(I) /\ Cardinality(I) \in Nat
  BY Positions
<1>2. \A k \in 1..Cardinality(I) : s[Nth(I, k)] \in S
  BY <1>1, NthFact
<1>3. Keep(s, I) \in Seq(S)
  BY <1>1, <1>2 DEF Keep
<1>4. DOMAIN Keep(s, I) = 1..Cardinality(I)
  BY DEF Keep
<1>. QED
  BY <1>1, <1>3, <1>4, NthFact DEF Keep

\* A stretch of numbers is numbered from its beginning.
LEMMA NthOfInterval ==
  ASSUME NEW m \in Nat, NEW n \in Nat, m <= n
  PROVE  /\ Cardinality((m + 1)..n) = n - m
         /\ \A k \in 1..(n - m) : Nth((m + 1)..n, k) = m + k
<1>1. IsFiniteSet((m + 1)..n) /\ Cardinality((m + 1)..n) = n - m
  <2>. DEFINE a == m + 1
  <2>1. a \in Int /\ n \in Int /\ (IF a > n THEN 0 ELSE n - a + 1) = n - m
    OBVIOUS
  <2>. HIDE DEF a
  <2>2. IsFiniteSet(a..n) /\ Cardinality(a..n) = IF a > n THEN 0 ELSE n - a + 1
    BY <2>1, FS_Interval
  <2>. QED
    BY <2>1, <2>2 DEF a
<1>2. ASSUME NEW k \in 1..(n - m) PROVE Nth((m + 1)..n, k) = m + k
  <2>1. Below((m + 1)..n, m + k) = (m + 1)..(m + k)
    BY DEF Below
  <2>2. Rank((m + 1)..n, m + k) = k
    BY <2>1, FS_Interval DEF Rank
  <2>. QED
    BY <1>1, <2>2, NthFact, m + k \in (m + 1)..n
<1>. QED
  BY <1>1, <1>2

\* Keeping everything changes nothing.
LEMMA KeepAll == ASSUME NEW S, NEW s \in Seq(S) PROVE Keep(s, DOMAIN s) = s
<1>1. DOMAIN s = 1..Len(s) /\ Len(s) \in Nat
  OBVIOUS
<1>2. /\ Cardinality(1..Len(s)) = Len(s)
      /\ \A k \in 1..Len(s) : Nth(1..Len(s), k) = k
  BY <1>1, NthOfInterval, 0 + 1 = 1
<1>3. Keep(s, 1..Len(s)) = [k \in 1..Len(s) |-> s[k]]
  BY <1>1, <1>2 DEF Keep
<1>. QED
  BY <1>1, <1>3

-----------------------------------------------------------------------------
(* Lists of tabs.                                                           *)

Distinct(ts) == \A i, j \in DOMAIN ts : i # j => ts[i].id # ts[j].id
InOrder(ts) == \A i, j \in DOMAIN ts : i < j /\ ts[j].pinned => ts[i].pinned
Once(ts) == \A i, j \in DOMAIN ts : i # j /\ ts[i].type # "key-detail" => ~SameView(ts[i], ts[j])
OfKeys(ts, id) == \A i \in DOMAIN ts : ts[i].id = id => ts[i].type = "key-detail"

\* The elements of us are elements of ts, each taken once.
Within(us, ts) ==
  \E f \in [DOMAIN us -> DOMAIN ts] :
    /\ \A k, m \in DOMAIN us : k # m => f[k] # f[m]
    /\ \A k \in DOMAIN us : us[k] = ts[f[k]]

LEMMA WithinKeeps ==
  ASSUME NEW us, NEW ts, Within(us, ts)
  PROVE  /\ Distinct(ts) => Distinct(us)
         /\ Once(ts) => Once(us)
         /\ \A id : OfKeys(ts, id) => OfKeys(us, id)
<1>1. PICK f \in [DOMAIN us -> DOMAIN ts] :
             /\ \A k, m \in DOMAIN us : k # m => f[k] # f[m]
             /\ \A k \in DOMAIN us : us[k] = ts[f[k]]
  BY DEF Within
<1>2. Distinct(ts) => Distinct(us)
  BY <1>1 DEF Distinct
<1>3. Once(ts) => Once(us)
  BY <1>1 DEF Once
<1>4. ASSUME NEW id, OfKeys(ts, id) PROVE OfKeys(us, id)
  BY <1>1, <1>4 DEF OfKeys
<1>. QED
  BY <1>2, <1>3, <1>4

LEMMA KeepTabs ==
  ASSUME NEW ts \in Seq(Tab), NEW I \in SUBSET (DOMAIN ts)
  PROVE  /\ Within(Keep(ts, I), ts)
         /\ InOrder(ts) => InOrder(Keep(ts, I))
<1>. DEFINE us == Keep(ts, I)
            f == [k \in DOMAIN us |-> Nth(I, k)]
<1>1. /\ \A k \in DOMAIN us : Nth(I, k) \in DOMAIN ts /\ us[k] = ts[Nth(I, k)]
      /\ \A k, m \in DOMAIN us : k < m => Nth(I, k) < Nth(I, m)
      /\ DOMAIN us = 1..Cardinality(I) /\ Cardinality(I) \in Nat
      /\ DOMAIN ts \in SUBSET Nat
  BY KeepFact, Positions
<1>. HIDE DEF us
<1>2. f \in [DOMAIN us -> DOMAIN ts]
  BY <1>1
<1>3. ASSUME NEW k \in DOMAIN us, NEW m \in DOMAIN us, k # m PROVE f[k] # f[m]
  <2>1. k < m \/ m < k
    BY <1>1, <1>3
  <2>2. f[k] \in Nat /\ f[m] \in Nat
    BY <1>1
  <2>. QED
    BY <1>1, <2>1, <2>2
<1>4. Within(us, ts)
  BY <1>1, <1>2, <1>3 DEF Within
<1>5. InOrder(ts) => InOrder(us)
  BY <1>1 DEF InOrder
<1>. QED
  BY <1>4, <1>5 DEF us

-----------------------------------------------------------------------------
(* The pinned tabs first.                                                   *)

LEMMA PinnedFirstFact ==
  ASSUME NEW ts \in Seq(Tab)
  PROVE  /\ PinnedFirst(ts) \in Seq(Tab)
         /\ Within(PinnedFirst(ts), ts)
         /\ InOrder(PinnedFirst(ts))
         /\ \A i \in DOMAIN ts : \E k \in DOMAIN PinnedFirst(ts) : PinnedFirst(ts)[k] = ts[i]
<1>. DEFINE P == Pinned(ts)
            L == DOMAIN ts \ P
            a == Keep(ts, P)
            b == Keep(ts, L)
            us == PinnedFirst(ts)
            f == [k \in DOMAIN us |-> IF k <= Len(a) THEN Nth(P, k) ELSE Nth(L, k - Len(a))]
<1>1. /\ P \in SUBSET (DOMAIN ts) /\ L \in SUBSET (DOMAIN ts)
      /\ P \cap L = {} /\ P \cup L = DOMAIN ts
      /\ DOMAIN ts \in SUBSET Nat
  <2>1. P \in SUBSET (DOMAIN ts)
    BY DEF Pinned
  <2>2. DOMAIN ts \in SUBSET Nat
    OBVIOUS
  <2>. HIDE DEF P
  <2>. QED
    BY <2>1, <2>2
<1>2. \A i \in P : ts[i].pinned
  BY DEF Pinned
<1>3. \A i \in L : ~ts[i].pinned
  BY DEF Pinned
<1>. HIDE DEF P, L
<1>4. /\ a \in Seq(Tab) /\ DOMAIN a = 1..Len(a) /\ Len(a) \in Nat
      /\ \A k \in DOMAIN a : Nth(P, k) \in P /\ a[k] = ts[Nth(P, k)]
      /\ \A k, m \in DOMAIN a : k < m => Nth(P, k) < Nth(P, m)
      /\ \A i \in P : \E k \in DOMAIN a : Nth(P, k) = i
  BY <1>1, KeepFact
<1>5. /\ b \in Seq(Tab) /\ DOMAIN b = 1..Len(b) /\ Len(b) \in Nat
      /\ \A k \in DOMAIN b : Nth(L, k) \in L /\ b[k] = ts[Nth(L, k)]
      /\ \A k, m \in DOMAIN b : k < m => Nth(L, k) < Nth(L, m)
      /\ \A i \in L : \E k \in DOMAIN b : Nth(L, k) = i
  BY <1>1, KeepFact
<1>6. us = a \o b
  BY DEF PinnedFirst, P, L
<1>. HIDE DEF a, b, us
<1>7. /\ us \in Seq(Tab) /\ DOMAIN us = 1..(Len(a) + Len(b))
      /\ \A k \in DOMAIN us : us[k] = IF k <= Len(a) THEN a[k] ELSE b[k - Len(a)]
  BY <1>4, <1>5, <1>6
<1>8. ASSUME NEW k \in DOMAIN us
      PROVE  IF k <= Len(a)
             THEN k \in DOMAIN a /\ f[k] = Nth(P, k) /\ f[k] \in P /\ us[k] = ts[f[k]]
             ELSE k - Len(a) \in DOMAIN b /\ f[k] = Nth(L, k - Len(a)) /\ f[k] \in L /\ us[k] = ts[f[k]]
  BY <1>4, <1>5, <1>7
<1>9. f \in [DOMAIN us -> DOMAIN ts] /\ \A k \in DOMAIN us : us[k] = ts[f[k]]
  BY <1>1, <1>8
<1>10. ASSUME NEW k \in DOMAIN us, NEW m \in DOMAIN us, k < m PROVE f[k] # f[m]
  <2>1. CASE m <= Len(a)
    <3>1. k <= Len(a)
      BY <1>7, <1>10, <2>1, <1>4, <1>5
    <3>2. Nth(P, k) < Nth(P, m) /\ Nth(P, k) \in Nat /\ Nth(P, m) \in Nat
      BY <1>1, <1>4, <1>8, <1>10, <2>1, <3>1
    <3>. QED
      BY <1>8, <2>1, <3>1, <3>2
  <2>2. CASE ~(m <= Len(a)) /\ k <= Len(a)
    BY <1>1, <1>8, <2>2
  <2>3. CASE ~(k <= Len(a))
    <3>1. ~(m <= Len(a)) /\ k - Len(a) < m - Len(a)
      BY <1>7, <1>10, <2>3, <1>4, <1>5
    <3>2. /\ Nth(L, k - Len(a)) < Nth(L, m - Len(a))
          /\ Nth(L, k - Len(a)) \in Nat /\ Nth(L, m - Len(a)) \in Nat
      BY <1>1, <1>5, <1>8, <2>3, <3>1
    <3>. QED
      BY <1>8, <2>3, <3>1, <3>2
  <2>. QED
    BY <2>1, <2>2, <2>3
<1>11. \A k, m \in DOMAIN us : k # m => f[k] # f[m]
  BY <1>7, <1>10, <1>4, <1>5
<1>12. Within(us, ts)
  BY <1>9, <1>11 DEF Within
<1>13. ASSUME NEW k \in DOMAIN us, NEW m \in DOMAIN us, k < m, us[m].pinned
       PROVE  us[k].pinned
  <2>1. m <= Len(a)
    BY <1>3, <1>8, <1>13
  <2>2. k <= Len(a)
    BY <1>7, <1>13, <2>1, <1>4, <1>5
  <2>. QED
    BY <1>2, <1>8, <2>2
<1>14. InOrder(us)
  BY <1>13 DEF InOrder
<1>15. ASSUME NEW i \in DOMAIN ts PROVE \E k \in DOMAIN us : us[k] = ts[i]
  <2>1. CASE i \in P
    <3>1. PICK k \in DOMAIN a : Nth(P, k) = i
      BY <1>4, <2>1
    <3>2. k \in DOMAIN us /\ us[k] = a[k] /\ a[k] = ts[i]
      BY <1>4, <1>5, <1>7, <3>1
    <3>. QED
      BY <3>2
  <2>2. CASE i \in L
    <3>1. PICK k \in DOMAIN b : Nth(L, k) = i
      BY <1>5, <2>2
    <3>2. k + Len(a) \in DOMAIN us /\ us[k + Len(a)] = b[k] /\ b[k] = ts[i]
      BY <1>4, <1>5, <1>7, <3>1
    <3>. QED
      BY <3>2
  <2>. QED
    BY <1>1, <2>1, <2>2
<1>. QED
  BY <1>7, <1>12, <1>14, <1>15 DEF us

\* Tabs that are in order already stay where they are.
LEMMA PinnedFirstSame ==
  ASSUME NEW ts \in Seq(Tab), InOrder(ts)
  PROVE  PinnedFirst(ts) = ts
<1>. DEFINE P == Pinned(ts)
            n == Len(ts)
            p == Cardinality(P)
            a == Keep(ts, P)
            b == Keep(ts, DOMAIN ts \ P)
<1>1. DOMAIN ts = 1..n /\ n \in Nat /\ P \in SUBSET (1..n)
  BY DEF Pinned
<1>2. P \in SUBSET Nat /\ IsFiniteSet(P) /\ p \in Nat
  BY <1>1, Positions
<1>3. ASSUME NEW i \in P PROVE Rank(P, i) = i
  <2>1. \A j \in 1..i : j \in P
    BY <1>1, <1>3 DEF InOrder, Pinned
  <2>2. Below(P, i) = 1..i
    BY <1>1, <2>1 DEF Below
  <2>3. i \in Nat /\ 1 <= i
    BY <1>1
  <2>. QED
    BY <2>2, <2>3, FS_Interval DEF Rank
<1>4. ASSUME NEW k \in 1..p PROVE Nth(P, k) = k /\ k \in P
  BY <1>2, <1>3, NthFact
<1>5. P = 1..p
  <2>1. \A i \in P : i \in 1..p
    BY <1>2, <1>3, RankType
  <2>. QED
    BY <1>4, <2>1
<1>6. p <= n
  BY <1>1, <1>2, <1>5
<1>7. DOMAIN ts \ P = (p + 1)..n
  BY <1>1, <1>2, <1>5, <1>6
<1>8. a = [k \in 1..p |-> ts[k]]
  BY <1>4 DEF Keep
<1>9. b = [k \in 1..(n - p) |-> ts[p + k]]
  <2>1. /\ Cardinality((p + 1)..n) = n - p
        /\ \A k \in 1..(n - p) : Nth((p + 1)..n, k) = p + k
    BY <1>1, <1>2, <1>6, NthOfInterval
  <2>2. b = [k \in 1..Cardinality((p + 1)..n) |-> ts[Nth((p + 1)..n, k)]]
    BY <1>7 DEF Keep
  <2>. HIDE DEF p, n, b
  <2>. QED
    BY <2>1, <2>2
<1>10. a \in Seq(Tab) /\ b \in Seq(Tab) /\ Len(a) = p /\ Len(b) = n - p
  <2>1. a \in Seq(Tab) /\ b \in Seq(Tab)
    BY <1>1, KeepFact
  <2>. HIDE DEF p, n, a, b
  <2>. QED
    BY <2>1, <1>1, <1>2, <1>6, <1>8, <1>9
<1>11. PinnedFirst(ts) = a \o b
  BY DEF PinnedFirst
<1>. HIDE DEF P, n, p, a, b
<1>12. /\ DOMAIN (a \o b) = 1..n /\ a \o b \in Seq(Tab)
       /\ \A k \in 1..n : (a \o b)[k] = ts[k]
  BY <1>1, <1>2, <1>6, <1>8, <1>9, <1>10
<1>. QED
  BY <1>1, <1>11, <1>12

-----------------------------------------------------------------------------
(* What the operations of the tab store leave behind.                       *)

ActiveIsOpen == IF tabs = << >> THEN active = None ELSE active \in Ids(tabs)

TabsGood ==
  /\ tabs \in Seq(Tab) /\ Distinct(tabs) /\ InOrder(tabs) /\ Once(tabs)
  /\ ActiveIsOpen

Shown == [type : View \cup {"key-detail"}, conn : Connection, db : Db, key : Key \cup {None}]

LEMMA KeepStep ==
  ASSUME TabsGood, NEW I \in SUBSET (DOMAIN tabs), tabs' = Keep(tabs, I)
  PROVE  /\ tabs' \in Seq(Tab) /\ Distinct(tabs)' /\ InOrder(tabs)' /\ Once(tabs)'
         /\ \A id : OfKeys(tabs, id) => OfKeys(tabs', id)
<1>1. tabs' \in Seq(Tab) /\ Within(tabs', tabs) /\ InOrder(tabs')
  BY KeepFact, KeepTabs DEF TabsGood
<1>. QED
  BY <1>1, WithinKeeps DEF TabsGood

\* An element that was kept still has its identity among the tabs.
LEMMA KeptId ==
  ASSUME tabs \in Seq(Tab), NEW I \in SUBSET (DOMAIN tabs), tabs' = Keep(tabs, I), NEW i \in I
  PROVE  tabs[i].id \in Ids(tabs')
<1>1. PICK k \in DOMAIN tabs' : tabs'[k] = tabs[i]
  BY KeepFact
<1>. QED
  BY <1>1 DEF Ids

LEMMA EmptyFact ==
  ASSUME NEW ts \in Seq(Tab)
  PROVE  /\ ts = << >> <=> Ids(ts) = {}
         /\ ts # << >> => 1 \in DOMAIN ts
         /\ Ids(ts) \subseteq TabId
         /\ None \notin Ids(ts)
<1>1. ts # << >> => 1 \in DOMAIN ts
  OBVIOUS
<1>2. ts = << >> => DOMAIN ts = {}
  OBVIOUS
<1>3. \A i \in DOMAIN ts : ts[i].id \in TabId
  <2>1. \A i \in DOMAIN ts : ts[i] \in Tab
    OBVIOUS
  <2>2. \A t \in Tab : t.id \in TabId
    BY DEF Tab
  <2>. QED
    BY <2>1, <2>2
<1>4. Ids(ts) \subseteq TabId
  BY <1>3, Zenon DEF Ids
<1>5. ts = << >> <=> Ids(ts) = {}
  BY <1>1, <1>2, Zenon DEF Ids
<1>. QED
  BY <1>1, <1>4, <1>5, WorkspaceAssumption

LEMMA LastIsOpen ==
  ASSUME NEW ts \in Seq(Tab), ts # << >>
  PROVE  Last(ts).id \in Ids(ts) /\ Head(ts).id \in Ids(ts)
<1>1. 1 \in DOMAIN ts /\ Len(ts) \in DOMAIN ts /\ Last(ts) = ts[Len(ts)] /\ Head(ts) = ts[1]
  BY DEF Last
<1>. QED
  BY <1>1 DEF Ids

LEMMA RemoveTabStep ==
  ASSUME TabsGood, NEW id, RemoveTab(id)
  PROVE  /\ TabsGood'
         /\ \A x : OfKeys(tabs, x) => OfKeys(tabs', x)
<1>. DEFINE I == {i \in DOMAIN tabs : tabs[i].id # id}
<1>1. I \in SUBSET (DOMAIN tabs) /\ tabs' = Keep(tabs, I)
  BY DEF RemoveTab, Without
<1>2. active' = IF active # id THEN active ELSE IF tabs' = << >> THEN None ELSE Last(tabs').id
  BY DEF RemoveTab
<1>3. ActiveIsOpen'
  <2>1. CASE active # id /\ tabs # << >>
    <3>1. PICK i \in DOMAIN tabs : tabs[i].id = active
      BY <2>1 DEF TabsGood, ActiveIsOpen, Ids
    <3>2. active \in Ids(tabs')
      BY <1>1, <2>1, <3>1, KeptId DEF TabsGood
    <3>3. tabs' # << >>
      BY <3>2 DEF Ids
    <3>. QED
      BY <1>2, <2>1, <3>2, <3>3 DEF ActiveIsOpen
  <2>2. CASE active # id /\ tabs = << >>
    <3>1. tabs' = << >>
      <4>1. I = {}
        BY <2>2
      <4>2. Cardinality(I) = 0
        BY <4>1, FS_EmptySet
      <4>3. tabs' \in Seq(Tab) /\ DOMAIN tabs' = 1..0
        BY <1>1, <4>2, KeepFact DEF TabsGood
      <4>. QED
        BY <4>3
    <3>. QED
      BY <1>2, <2>2, <3>1 DEF ActiveIsOpen, TabsGood
  <2>3. CASE active = id
    BY <1>1, <1>2, <2>3, KeepStep, LastIsOpen DEF ActiveIsOpen
  <2>. QED
    BY <2>1, <2>2, <2>3
<1>. QED
  BY <1>1, <1>3, KeepStep DEF TabsGood

\* An update that leaves identities, views of its tab and types alone.
LEMMA ReorderStep ==
  ASSUME NEW ts \in Seq(Tab), Distinct(ts), Once(ts), tabs' = PinnedFirst(ts)
  PROVE  /\ tabs' \in Seq(Tab) /\ Distinct(tabs)' /\ InOrder(tabs)' /\ Once(tabs)'
         /\ \A id : OfKeys(ts, id) => OfKeys(tabs', id)
         /\ Ids(tabs') = Ids(ts)
<1>1. /\ tabs' \in Seq(Tab) /\ Within(tabs', ts) /\ InOrder(tabs')
      /\ \A i \in DOMAIN ts : \E k \in DOMAIN tabs' : tabs'[k] = ts[i]
  BY PinnedFirstFact
<1>2. \A k \in DOMAIN tabs' : \E i \in DOMAIN ts : tabs'[k] = ts[i]
  BY <1>1 DEF Within
<1>. QED
  BY <1>1, <1>2, WithinKeeps DEF Ids

LEMMA AddTabStep ==
  ASSUME TabsGood, NEW v \in Shown, AddTab(v)
  PROVE  /\ TabsGood'
         /\ \A s \in DOMAIN calls : OfKeys(tabs, calls[s].tab) => OfKeys(tabs', calls[s].tab)
<1>. DEFINE same == {i \in DOMAIN tabs : SameView(tabs[i], v)}
            used == Ids(tabs) \cup {calls[s].tab : s \in DOMAIN calls} \cup {lastSync}
            New(id) == [id |-> id, type |-> v.type, conn |-> v.conn, db |-> v.db,
                        key |-> v.key, pinned |-> FALSE]
<1>1. CASE /\ same # {} /\ UNCHANGED tabs
           /\ active' = tabs[CHOOSE i \in same : \A j \in same : i <= j].id
  <2>1. \E i \in same : \A j \in same : i <= j
    <3>1. same \in SUBSET (DOMAIN tabs)
      OBVIOUS
    <3>2. same \in SUBSET Nat /\ IsFiniteSet(same)
      BY <3>1, Positions DEF TabsGood
    <3>. QED
      BY <1>1, <3>2, SmallestFact
  <2>. QED
    BY <1>1, <2>1 DEF TabsGood, ActiveIsOpen, Ids
<1>2. ASSUME same = {}, NEW id \in TabId \ used,
             tabs' = PinnedFirst(Append(tabs, New(id))), active' = id
      PROVE  /\ TabsGood'
             /\ \A s \in DOMAIN calls : OfKeys(tabs, calls[s].tab) => OfKeys(tabs', calls[s].tab)
  <2>. DEFINE ts == Append(tabs, New(id))
              n == Len(tabs) + 1
  <2>1. New(id) \in Tab
    BY <1>2 DEF Tab, Shown
  <2>. HIDE DEF New
  <2>2. /\ ts \in Seq(Tab) /\ DOMAIN ts = 1..n /\ DOMAIN tabs = 1..(n - 1) /\ n \in Nat \ {0}
        /\ \A i \in 1..(n - 1) : ts[i] = tabs[i]
        /\ ts[n] = New(id)
    BY <2>1 DEF TabsGood
  <2>3. New(id).id = id /\ SameView(New(id), v)
    BY DEF New, SameView
  <2>. HIDE DEF ts, n
  <2>4. \A i \in 1..(n - 1) : ts[i].id # id /\ ~SameView(ts[i], v)
    BY <1>2, <2>2 DEF Ids
  <2>5. Distinct(ts)
    BY <2>2, <2>3, <2>4 DEF Distinct, TabsGood
  <2>6. ASSUME NEW i \in DOMAIN ts, NEW j \in DOMAIN ts, i # j, ts[i].type # "key-detail"
        PROVE  ~SameView(ts[i], ts[j])
    BY <2>2, <2>3, <2>4, <2>6 DEF Once, TabsGood, SameView
  <2>7. Once(ts)
    BY <2>6 DEF Once
  <2>8. \A s \in DOMAIN calls : OfKeys(tabs, calls[s].tab) => OfKeys(ts, calls[s].tab)
    BY <1>2, <2>2, <2>3 DEF OfKeys
  <2>9. id \in Ids(ts)
    <3>1. n \in DOMAIN ts /\ ts[n].id = id
      BY <2>2, <2>3
    <3>. QED
      BY <3>1, Zenon DEF Ids
  <2>10. tabs' = PinnedFirst(ts)
    BY <1>2 DEF ts
  <2>11. /\ tabs' \in Seq(Tab) /\ Distinct(tabs)' /\ InOrder(tabs)' /\ Once(tabs)'
         /\ \A x : OfKeys(ts, x) => OfKeys(tabs', x)
         /\ Ids(tabs') = Ids(ts)
    BY <2>2, <2>5, <2>7, <2>10, ReorderStep
  <2>12. ActiveIsOpen'
    BY <1>2, <2>9, <2>11 DEF ActiveIsOpen, Ids
  <2>. QED
    BY <2>8, <2>11, <2>12 DEF TabsGood
<1>. QED
  BY <1>1, <1>2, Zenon DEF AddTab

LEMMA CloseAllStep ==
  ASSUME TabsGood, tabs' = Keep(tabs, Pinned(tabs)),
         active' = IF active = None \/ active \in Ids(tabs') THEN active
                   ELSE IF tabs' = << >> THEN None ELSE Head(tabs').id
  PROVE  TabsGood' /\ \A id : OfKeys(tabs, id) => OfKeys(tabs', id)
<1>1. Pinned(tabs) \in SUBSET (DOMAIN tabs)
  BY DEF Pinned
<1>2. /\ tabs' \in Seq(Tab) /\ Distinct(tabs)' /\ InOrder(tabs)' /\ Once(tabs)'
      /\ \A id : OfKeys(tabs, id) => OfKeys(tabs', id)
  BY <1>1, KeepStep
<1>3. ActiveIsOpen'
  <2>1. CASE tabs' = << >>
    <3>1. Ids(tabs') = {}
      BY <2>1 DEF Ids
    <3>. QED
      BY <2>1, <3>1 DEF ActiveIsOpen
  <2>2. CASE tabs' # << >>
    <3>1. tabs # << >> /\ active # None
      <4>1. PICK k \in DOMAIN tabs' : TRUE
        BY <1>2, <2>2, EmptyFact
      <4>2. Nth(Pinned(tabs), k) \in DOMAIN tabs
        BY <1>1, KeepFact DEF TabsGood
      <4>3. tabs # << >>
        BY <4>2
      <4>. QED
        BY <4>3, EmptyFact DEF TabsGood, ActiveIsOpen
    <3>. QED
      BY <1>2, <2>2, <3>1, LastIsOpen DEF ActiveIsOpen
  <2>. QED
    BY <2>1, <2>2
<1>. QED
  BY <1>2, <1>3 DEF TabsGood

LEMMA CloseOthersStep ==
  ASSUME TabsGood, NEW id \in Ids(tabs), active' = id,
         tabs' = Keep(tabs, Pinned(tabs) \cup {i \in DOMAIN tabs : tabs[i].id = id})
  PROVE  TabsGood' /\ \A x : OfKeys(tabs, x) => OfKeys(tabs', x)
<1>. DEFINE I == Pinned(tabs) \cup {i \in DOMAIN tabs : tabs[i].id = id}
<1>1. I \in SUBSET (DOMAIN tabs)
  BY DEF Pinned
<1>2. PICK i \in I : tabs[i].id = id
  BY DEF Ids
<1>. HIDE DEF I
<1>3. tabs' = Keep(tabs, I)
  BY DEF I
<1>4. active' \in Ids(tabs')
  BY <1>1, <1>2, <1>3, KeptId DEF TabsGood
<1>5. /\ tabs' \in Seq(Tab) /\ Distinct(tabs)' /\ InOrder(tabs)' /\ Once(tabs)'
      /\ \A x : OfKeys(tabs, x) => OfKeys(tabs', x)
  BY <1>1, <1>3, KeepStep
<1>6. ActiveIsOpen'
  BY <1>4, <1>5, EmptyFact DEF ActiveIsOpen
<1>. QED
  BY <1>5, <1>6 DEF TabsGood

\* An update of one tab that leaves its identity alone, and its view or that
\* it is a key's.
LEMMA UpdateTabStep ==
  ASSUME TabsGood, NEW ts \in Seq(Tab), DOMAIN ts = DOMAIN tabs,
         \A i \in DOMAIN ts :
           /\ ts[i].id = tabs[i].id /\ ts[i].type = tabs[i].type
           /\ ts[i].type = "key-detail" \/ SameView(ts[i], tabs[i]),
         tabs' = PinnedFirst(ts), active' = active
  PROVE  TabsGood' /\ \A x : OfKeys(tabs, x) => OfKeys(tabs', x)
<1>1. Distinct(ts)
  BY DEF Distinct, TabsGood
<1>2. Once(ts)
  BY DEF Once, TabsGood, SameView
<1>3. /\ tabs' \in Seq(Tab) /\ Distinct(tabs)' /\ InOrder(tabs)' /\ Once(tabs)'
      /\ \A id : OfKeys(ts, id) => OfKeys(tabs', id)
      /\ Ids(tabs') = Ids(ts)
  BY <1>1, <1>2, ReorderStep
<1>4. \A x : OfKeys(tabs, x) => OfKeys(ts, x)
  BY DEF OfKeys
<1>5. Ids(ts) = Ids(tabs)
  BY DEF Ids
<1>6. ActiveIsOpen'
  <2>1. CASE tabs = << >>
    <3>1. tabs' = << >>
      <4>1. Ids(tabs') = {}
        BY <1>3, <1>5, <2>1, EmptyFact DEF TabsGood
      <4>. QED
        BY <1>3, <4>1, EmptyFact
    <3>. QED
      BY <2>1, <3>1 DEF ActiveIsOpen, TabsGood
  <2>2. CASE tabs # << >>
    <3>1. active' \in Ids(tabs')
      BY <1>3, <1>5, <2>2 DEF ActiveIsOpen, TabsGood
    <3>. QED
      BY <3>1 DEF ActiveIsOpen, Ids
  <2>. QED
    BY <2>1, <2>2
<1>. QED
  BY <1>3, <1>4, <1>6 DEF TabsGood

LEMMA TogglePinStep ==
  ASSUME TabsGood, NEW id, TogglePin(id)
  PROVE  TabsGood' /\ \A x : OfKeys(tabs, x) => OfKeys(tabs', x)
<1>. DEFINE Toggled(t) == [t EXCEPT !.pinned = ~@]
            ts == [i \in DOMAIN tabs |-> IF tabs[i].id = id THEN Toggled(tabs[i]) ELSE tabs[i]]
<1>1. tabs' = PinnedFirst(ts) /\ active' = active
  BY DEF TogglePin, UpdateTab
<1>2. ASSUME NEW t \in Tab
      PROVE  Toggled(t) \in Tab /\ Toggled(t).id = t.id /\ Toggled(t).type = t.type /\ SameView(Toggled(t), t)
  BY DEF Tab, SameView
<1>3. DOMAIN tabs = 1..Len(tabs) /\ Len(tabs) \in Nat /\ \A i \in DOMAIN tabs : tabs[i] \in Tab
  BY DEF TabsGood
<1>. HIDE DEF Toggled
<1>4. ts \in Seq(Tab)
  BY <1>2, <1>3
<1>5. \A i \in DOMAIN ts : /\ ts[i].id = tabs[i].id /\ ts[i].type = tabs[i].type
                           /\ SameView(ts[i], tabs[i])
  BY <1>2, <1>3 DEF SameView
<1>. HIDE DEF ts
<1>6. DOMAIN ts = DOMAIN tabs
  BY DEF ts
<1>. QED
  BY <1>1, <1>4, <1>5, <1>6, UpdateTabStep

-----------------------------------------------------------------------------
(* The invariant.                                                           *)

Asked == [op : Op, conn : Connection, db : Db, tab : TabId \cup {None},
          key : Key \cup {None}, on : BOOLEAN]

\* What a call was started with; a rename comes from the tab of a key.
CallsGood ==
  \A s \in DOMAIN calls :
    /\ calls[s] \in Asked
    /\ calls[s].op = "rename" => OfKeys(tabs, calls[s].tab)

WInv ==
  /\ TabsGood /\ CallsGood /\ here \in Target
  /\ ask # None => ask \in Asked /\ ask.op # "rename"

LEMMA InitWInv == Init => WInv
<1>. SUFFICES ASSUME Init PROVE WInv
  OBVIOUS
<1>1. tabs = << >> /\ tabs \in Seq(Tab) /\ DOMAIN tabs = {} /\ DOMAIN calls = {}
  BY DEF Init
<1>2. TabsGood
  BY <1>1 DEF Init, TabsGood, Distinct, InOrder, Once, ActiveIsOpen
<1>. QED
  BY <1>1, <1>2, WorkspaceAssumption DEF Init, WInv, CallsGood, Target

LEMMA EndStep ==
  ASSUME CallsGood, NEW s, End(s),
         \A x \in DOMAIN calls : OfKeys(tabs, calls[x].tab) => OfKeys(tabs', calls[x].tab)
  PROVE  CallsGood'
BY DEF CallsGood, End

LEMMA StartStep ==
  ASSUME CallsGood, NEW r \in Asked, Start(r), r.op = "rename" => OfKeys(tabs, r.tab),
         tabs' = tabs
  PROVE  CallsGood'
BY DEF CallsGood, Start

LEMMA SameCalls ==
  ASSUME CallsGood, calls' = calls,
         \A x : OfKeys(tabs, x) => OfKeys(tabs', x)
  PROVE  CallsGood'
BY DEF CallsGood

LEMMA AskType ==
  ASSUME NEW op \in Op, NEW c \in Connection, NEW d \in Db, NEW id \in TabId \cup {None},
         NEW k \in Key \cup {None}
  PROVE  Ask(op, c, d, id, k) \in Asked /\ Ask(op, c, d, id, k).op = op
         /\ Ask(op, c, d, id, k).tab = id
BY DEF Ask, Asked

\* The active tab, when there is one.
LEMMA ActiveTab ==
  ASSUME TabsGood, active # None
  PROVE  /\ active \in TabId /\ active \in Ids(tabs)
         /\ TabOf(active) \in Tab /\ TabOf(active).id = active
         /\ TabOf(active).type = "key-detail" => OfKeys(tabs, active)
<1>1. active \in Ids(tabs) /\ active \in TabId
  BY EmptyFact DEF TabsGood, ActiveIsOpen
<1>2. PICK i \in DOMAIN tabs : tabs[i].id = active
  BY <1>1 DEF Ids
<1>3. ToSet(tabs) = {tabs[j] : j \in DOMAIN tabs}
  BY DEF ToSet
<1>4. TabOf(active) \in ToSet(tabs) /\ TabOf(active).id = active
  BY <1>2, <1>3, Zenon DEF TabOf
<1>5. PICK j \in DOMAIN tabs : tabs[j] = TabOf(active)
  BY <1>3, <1>4
<1>6. \A h \in DOMAIN tabs : tabs[h].id = active => h = j
  BY <1>4, <1>5 DEF TabsGood, Distinct
<1>. QED
  BY <1>1, <1>4, <1>5, <1>6 DEF TabsGood, OfKeys

-----------------------------------------------------------------------------
(* Every step preserves it.                                                 *)

LEMMA HandSteps ==
  ASSUME WInv, NEW id, SetActiveTab(id) \/ CloseTab(id) \/ TogglePin(id) \/ CloseOthers(id) \/ CloseAll
  PROVE  WInv'
<1>1. TabsGood' /\ \A x : OfKeys(tabs, x) => OfKeys(tabs', x)
  <2>1. CASE SetActiveTab(id)
    <3>1. tabs' = tabs /\ active' = id /\ id \in Ids(tabs)
      BY <2>1 DEF SetActiveTab
    <3>2. ActiveIsOpen'
      BY <3>1, EmptyFact DEF WInv, TabsGood, ActiveIsOpen
    <3>. QED
      BY <3>1, <3>2 DEF WInv, TabsGood
  <2>2. CASE CloseTab(id)
    BY <2>2, RemoveTabStep DEF CloseTab, WInv
  <2>3. CASE TogglePin(id)
    BY <2>3, TogglePinStep DEF WInv
  <2>4. CASE CloseOthers(id)
    BY <2>4, CloseOthersStep DEF CloseOthers, WInv
  <2>5. CASE CloseAll
    BY <2>5, CloseAllStep DEF CloseAll, WInv
  <2>. QED
    BY <2>1, <2>2, <2>3, <2>4, <2>5
<1>2. UNCHANGED <<here, calls, ask>>
  BY DEF SetActiveTab, CloseTab, TogglePin, CloseOthers, CloseAll, place
<1>. QED
  BY <1>1, <1>2, SameCalls DEF WInv

LEMMA PlaceSteps ==
  ASSUME WInv, Sync \/ \E p \in {"/connections", "/browser"} : ShowPanel(p)
  PROVE  WInv'
<1>1. CASE Sync
  <2>1. here' \in Target
    BY <1>1, ActiveTab DEF Sync, WInv, Target, Tab
  <2>2. UNCHANGED <<tabs, active, calls, ask>>
    BY <1>1 DEF Sync, shell
  <2>. QED
    BY <2>1, <2>2 DEF WInv, TabsGood, ActiveIsOpen, CallsGood
<1>2. ASSUME NEW p, ShowPanel(p) PROVE WInv'
  <2>1. /\ UNCHANGED <<tabs, active, here, ask>>
        /\ calls' = [s \in DOMAIN calls |->
             [calls[s] EXCEPT !.on = @ /\ (calls[s].op \in Lock => p = "/browser")]]
    BY <1>2 DEF ShowPanel, shell
  <2>2. ASSUME NEW r \in Asked, NEW b \in BOOLEAN
        PROVE  [r EXCEPT !.on = @ /\ b] \in Asked /\ [r EXCEPT !.on = @ /\ b].op = r.op
               /\ [r EXCEPT !.on = @ /\ b].tab = r.tab
    BY DEF Asked
  <2>3. DOMAIN calls' = DOMAIN calls
    BY <2>1
  <2>4. ASSUME NEW s \in DOMAIN calls
        PROVE  calls'[s] \in Asked /\ calls'[s].op = calls[s].op /\ calls'[s].tab = calls[s].tab
    <3>. DEFINE b == calls[s].op \in Lock => p = "/browser"
    <3>1. calls'[s] = [calls[s] EXCEPT !.on = @ /\ b]
      BY <2>1
    <3>2. calls[s] \in Asked /\ b \in BOOLEAN
      BY DEF WInv, CallsGood
    <3>. HIDE DEF b
    <3>. QED
      BY <2>2, <3>1, <3>2
  <2>5. CallsGood'
    BY <2>1, <2>3, <2>4 DEF WInv, CallsGood
  <2>. QED
    BY <2>1, <2>5 DEF WInv, TabsGood, ActiveIsOpen
<1>. QED
  BY <1>1, <1>2

LEMMA StartSteps ==
  ASSUME WInv,
         \/ \E c \in Connection, d \in Db : Connect(c, d)
         \/ \E c \in Connection : Disconnect(c)
         \/ \E d \in Db : ChangeDbIdx(d)
         \/ ToggleReadOnly
         \/ \E k \in Key : Rename(k)
  PROVE  WInv'
<1>1. UNCHANGED <<tabs, active, here, ask>>
  BY DEF Connect, Disconnect, ChangeDbIdx, ToggleReadOnly, Rename, shell, place
<1>2. ASSUME NEW r \in Asked, Start(r), r.op # "rename" PROVE CallsGood'
  BY <1>1, <1>2, StartStep DEF WInv
<1>3. CallsGood'
  <2>1. ASSUME NEW c \in Connection, NEW d \in Db, Connect(c, d) PROVE CallsGood'
    BY <1>2, <2>1, AskType DEF Connect, Op
  <2>2. ASSUME NEW c \in Connection, Disconnect(c) PROVE CallsGood'
    BY <1>2, <2>2, AskType, WorkspaceAssumption DEF Disconnect, Op
  <2>3. ASSUME NEW d \in Db, ChangeDbIdx(d) PROVE CallsGood'
    <3>1. PICK c \in Connection : Start(Ask("list", c, d, None, None))
      BY <2>3 DEF ChangeDbIdx, WInv, Target
    <3>2. Ask("list", c, d, None, None) \in Asked /\ Ask("list", c, d, None, None).op = "list"
      BY AskType DEF Op
    <3>. QED
      BY <1>2, <3>1, <3>2
  <2>4. CASE ToggleReadOnly
    <3>1. PICK op \in {"unlock", "lock"} : Start(Ask(op, here.conn, here.db, None, None))
      BY <2>4 DEF ToggleReadOnly
    <3>2. here.conn \in Connection /\ here.db \in Db
      BY <2>4 DEF ToggleReadOnly, Browsing, WInv, Target
    <3>. QED
      BY <1>2, <3>1, <3>2, AskType DEF Op
  <2>5. ASSUME NEW k \in Key, Rename(k) PROVE CallsGood'
    <3>. DEFINE t == TabOf(active)
    <3>1. /\ active # None /\ t.type = "key-detail"
          /\ Start(Ask("rename", t.conn, t.db, active, k))
      BY <2>5 DEF Rename, KeyTab
    <3>2. active \in TabId /\ t \in Tab /\ OfKeys(tabs, active)
      BY <3>1, ActiveTab DEF WInv
    <3>3. t.conn \in Connection /\ t.db \in Db
      BY <3>2 DEF Tab
    <3>. QED
      BY <1>1, <3>1, <3>2, <3>3, AskType, StartStep DEF Op, WInv
  <2>. QED
    BY <2>1, <2>2, <2>3, <2>4, <2>5
<1>. QED
  BY <1>1, <1>3 DEF WInv, TabsGood, ActiveIsOpen

LEMMA AskSteps ==
  ASSUME WInv, AskDeleteKey \/ Confirm \/ \E c \in Connection : AskDeleteConnection(c)
  PROVE  WInv'
<1>1. UNCHANGED <<tabs, active, here>>
  BY DEF AskDeleteKey, Confirm, AskDeleteConnection, shell, place
<1>2. CASE AskDeleteKey
  <2>1. /\ active # None /\ calls' = calls
        /\ ask' = Ask("deleteKey", TabOf(active).conn, TabOf(active).db, active, TabOf(active).key)
    BY <1>2 DEF AskDeleteKey, KeyTab
  <2>2. active \in TabId /\ TabOf(active) \in Tab
    BY <2>1, ActiveTab DEF WInv
  <2>3. ask' \in Asked /\ ask'.op # "rename"
    BY <2>1, <2>2, AskType DEF Tab, Op
  <2>. QED
    BY <1>1, <2>1, <2>3 DEF WInv, TabsGood, ActiveIsOpen, CallsGood
<1>3. ASSUME NEW c \in Connection, AskDeleteConnection(c) PROVE WInv'
  <2>1. calls' = calls /\ ask' = Ask("deleteConn", c, 0, None, None)
    BY <1>3 DEF AskDeleteConnection
  <2>2. ask' \in Asked /\ ask'.op # "rename"
    BY <2>1, AskType, WorkspaceAssumption DEF Op
  <2>. QED
    BY <1>1, <2>1, <2>2 DEF WInv, TabsGood, ActiveIsOpen, CallsGood
<1>4. CASE Confirm
  <2>1. ask # None /\ ask' = None /\ (Start(ask) \/ calls' = calls)
    BY <1>4 DEF Confirm
  <2>2. CallsGood'
    BY <1>1, <2>1, StartStep, SameCalls DEF WInv
  <2>. QED
    BY <1>1, <2>1, <2>2 DEF WInv, TabsGood, ActiveIsOpen
<1>. QED
  BY <1>2, <1>3, <1>4

LEMMA OpenSteps ==
  ASSUME WInv, (\E type \in View : OpenView(type)) \/ (\E k \in Key : SelectKey(k))
  PROVE  WInv'
<1>1. UNCHANGED <<here, calls, ask>>
  BY DEF OpenView, SelectKey, place
<1>2. \E v \in Shown : AddTab(v)
  <2>1. ASSUME NEW type \in View, OpenView(type) PROVE \E v \in Shown : AddTab(v)
    <3>. DEFINE v == [type |-> type, conn |-> here.conn, db |-> here.db, key |-> None]
    <3>1. v \in Shown /\ AddTab(v)
      BY <2>1 DEF OpenView, Browsing, WInv, Target, Shown
    <3>. QED
      BY <3>1
  <2>2. ASSUME NEW k \in Key, SelectKey(k) PROVE \E v \in Shown : AddTab(v)
    <3>1. CASE /\ Browsing
               /\ AddTab([type |-> "key-detail", conn |-> here.conn, db |-> here.db, key |-> k])
      BY <3>1 DEF Browsing, WInv, Target, Shown
    <3>2. CASE /\ active # None
               /\ AddTab([type |-> "key-detail", conn |-> TabOf(active).conn,
                          db |-> TabOf(active).db, key |-> k])
      <4>1. TabOf(active) \in Tab
        BY <3>2, ActiveTab DEF WInv
      <4>2. TabOf(active).conn \in Connection /\ TabOf(active).db \in Db
        BY <4>1 DEF Tab
      <4>. QED
        BY <3>2, <4>2 DEF Shown
    <3>. QED
      BY <2>2, <3>1, <3>2 DEF SelectKey
  <2>. QED
    BY <2>1, <2>2
<1>3. TabsGood' /\ \A s \in DOMAIN calls : OfKeys(tabs, calls[s].tab) => OfKeys(tabs', calls[s].tab)
  BY <1>2, AddTabStep DEF WInv
<1>4. CallsGood'
  BY <1>1, <1>3 DEF CallsGood, WInv
<1>. QED
  BY <1>1, <1>3, <1>4 DEF WInv

LEMMA ConnectSteps ==
  ASSUME WInv, NEW s \in Call,
         ListAnswered(s) \/ ConnectAnswered(s) \/ Disconnected(s)
  PROVE  WInv'
<1>0. s \in DOMAIN calls /\ calls[s] \in Asked /\ ask' = ask
  BY DEF WInv, CallsGood, ListAnswered, ConnectAnswered, Disconnected, InFlight
<1>1. CASE ListAnswered(s)
  <2>1. /\ UNCHANGED <<tabs, active, here>>
        /\ calls' = [calls EXCEPT ![s].op = "change"] \/ End(s)
    BY <1>1 DEF ListAnswered, shell, place
  <2>2. CASE calls' = [calls EXCEPT ![s].op = "change"]
    <3>1. ASSUME NEW r \in Asked
          PROVE  [r EXCEPT !.op = "change"] \in Asked /\ [r EXCEPT !.op = "change"].op = "change"
      BY DEF Asked, Op
    <3>2. /\ DOMAIN calls' = DOMAIN calls
          /\ calls'[s] = [calls[s] EXCEPT !.op = "change"]
          /\ \A x \in DOMAIN calls \ {s} : calls'[x] = calls[x]
      BY <1>0, <2>2
    <3>3. CallsGood'
      BY <1>0, <2>1, <3>1, <3>2 DEF WInv, CallsGood
    <3>. QED
      BY <1>0, <2>1, <3>3 DEF WInv, TabsGood, ActiveIsOpen
  <2>3. CASE End(s)
    BY <1>0, <2>1, <2>3, EndStep DEF WInv, TabsGood, ActiveIsOpen
  <2>. QED
    BY <2>1, <2>2, <2>3
<1>2. CASE ConnectAnswered(s)
  <2>1. CASE /\ here' = [conn |-> calls[s].conn, db |-> calls[s].db]
             /\ AddTab(General(calls[s].conn, calls[s].db))
    <3>1. General(calls[s].conn, calls[s].db) \in Shown /\ here' \in Target
      BY <1>0, <2>1, WorkspaceAssumption DEF General, Shown, Asked, Target
    <3>2. /\ TabsGood'
          /\ \A x \in DOMAIN calls : OfKeys(tabs, calls[x].tab) => OfKeys(tabs', calls[x].tab)
      BY <2>1, <3>1, AddTabStep DEF WInv
    <3>. QED
      BY <1>0, <1>2, <3>1, <3>2, EndStep DEF WInv, ConnectAnswered
  <2>2. CASE /\ here' = IF calls[s].op = "change" THEN [here EXCEPT !.db = calls[s].db] ELSE here
             /\ UNCHANGED shell
    <3>1. here' \in Target
      BY <1>0, <2>2 DEF WInv, Target, Asked
    <3>2. UNCHANGED <<tabs, active>>
      BY <2>2 DEF shell
    <3>. QED
      BY <1>0, <1>2, <3>1, <3>2, EndStep DEF WInv, ConnectAnswered, TabsGood, ActiveIsOpen
  <2>. QED
    BY <1>2, <2>1, <2>2 DEF ConnectAnswered
<1>3. CASE Disconnected(s)
  <2>1. UNCHANGED <<tabs, active>> /\ End(s)
    BY <1>3 DEF Disconnected, shell
  <2>2. here' \in Target
    BY <1>3, WorkspaceAssumption DEF Disconnected, WInv, Target
  <2>. QED
    BY <1>0, <2>1, <2>2, EndStep DEF WInv, TabsGood, ActiveIsOpen
<1>. QED
  BY <1>1, <1>2, <1>3

\* A rename writes the name of one tab, and the order stays.
LEMMA RenameFact ==
  ASSUME WInv, NEW s, Renamed(s)
  PROVE  /\ TabsGood' /\ active' = active
         /\ \A x : OfKeys(tabs, x) => OfKeys(tabs', x)
         /\ Without(tabs', calls[s].tab) = Without(tabs, calls[s].tab)
<1>. DEFINE id == calls[s].tab
            Renaming(t) == [t EXCEPT !.key = calls[s].key]
            ts == [i \in DOMAIN tabs |-> IF tabs[i].id = id THEN Renaming(tabs[i]) ELSE tabs[i]]
<1>0. /\ s \in DOMAIN calls /\ calls[s] \in Asked /\ OfKeys(tabs, id)
      /\ active' = active
      /\ tabs' = PinnedFirst(ts) \/ tabs' = tabs
  BY DEF WInv, CallsGood, Renamed, InFlight, UpdateTab
<1>1. CASE tabs' = tabs
  BY <1>0, <1>1 DEF WInv, TabsGood, ActiveIsOpen
<1>2. CASE tabs' = PinnedFirst(ts)
  <2>1. ASSUME NEW t \in Tab
        PROVE  /\ Renaming(t) \in Tab /\ Renaming(t).id = t.id /\ Renaming(t).type = t.type
               /\ Renaming(t).pinned = t.pinned
    BY <1>0 DEF Tab, Asked
  <2>2. DOMAIN tabs = 1..Len(tabs) /\ Len(tabs) \in Nat /\ \A i \in DOMAIN tabs : tabs[i] \in Tab
    BY DEF WInv, TabsGood
  <2>. HIDE DEF Renaming
  <2>3. ts \in Seq(Tab) /\ DOMAIN ts = DOMAIN tabs
    BY <2>1, <2>2
  <2>4. \A i \in DOMAIN ts :
          /\ ts[i].id = tabs[i].id /\ ts[i].type = tabs[i].type /\ ts[i].pinned = tabs[i].pinned
          /\ ts[i].type = "key-detail" \/ SameView(ts[i], tabs[i])
    BY <1>0, <2>1, <2>2 DEF OfKeys, SameView
  <2>5. \A i \in DOMAIN tabs : tabs[i].id # id => ts[i] = tabs[i]
    OBVIOUS
  <2>. HIDE DEF ts
  <2>6. TabsGood' /\ \A x : OfKeys(tabs, x) => OfKeys(tabs', x)
    BY <1>0, <1>2, <2>3, <2>4, UpdateTabStep DEF WInv
  <2>7. InOrder(ts)
    BY <2>3, <2>4 DEF InOrder, WInv, TabsGood
  <2>8. tabs' = ts
    BY <1>2, <2>3, <2>7, PinnedFirstSame
  <2>9. Without(ts, id) = Without(tabs, id)
    <3>. DEFINE I == {i \in DOMAIN tabs : tabs[i].id # id}
    <3>1. {i \in DOMAIN ts : ts[i].id # id} = I
      BY <2>3, <2>4
    <3>2. \A k \in 1..Cardinality(I) : ts[Nth(I, k)] = tabs[Nth(I, k)]
      <4>1. I \in SUBSET Nat /\ IsFiniteSet(I)
        BY Positions DEF WInv, TabsGood
      <4>2. \A k \in 1..Cardinality(I) : Nth(I, k) \in I
        BY <4>1, NthFact
      <4>. QED
        BY <2>5, <4>2
    <3>3. Keep(ts, I) = Keep(tabs, I)
      BY <3>2 DEF Keep
    <3>. QED
      BY <3>1, <3>3 DEF Without
  <2>. QED
    BY <1>0, <2>6, <2>8, <2>9
<1>. QED
  BY <1>0, <1>1, <1>2

\* Taking out what was taken out changes nothing more.
LEMMA WithoutTwice ==
  ASSUME NEW ts \in Seq(Tab), NEW id
  PROVE  Without(Without(ts, id), id) = Without(ts, id)
<1>. DEFINE I == {i \in DOMAIN ts : ts[i].id # id}
            us == Keep(ts, I)
<1>1. us \in Seq(Tab) /\ \A k \in DOMAIN us : us[k].id # id
  <2>1. I \in SUBSET (DOMAIN ts)
    OBVIOUS
  <2>2. us \in Seq(Tab) /\ \A k \in DOMAIN us : Nth(I, k) \in I /\ us[k] = ts[Nth(I, k)]
    BY <2>1, KeepFact
  <2>. QED
    BY <2>2
<1>2. Without(ts, id) = us
  BY DEF Without
<1>. HIDE DEF us
<1>3. {k \in DOMAIN us : us[k].id # id} = DOMAIN us
  BY <1>1
<1>4. Keep(us, {k \in DOMAIN us : us[k].id # id}) = us
  BY <1>1, <1>3, KeepAll
<1>5. Without(us, id) = us
  BY <1>4 DEF Without
<1>. QED
  BY <1>2, <1>5

LEMMA KeySteps ==
  ASSUME WInv, NEW s \in Call,
         ReadOnlySet(s) \/ Renamed(s) \/ KeyDeleted(s) \/ ConnectionDeleted(s)
  PROVE  WInv'
<1>0. End(s) /\ UNCHANGED <<here, ask>>
  BY DEF ReadOnlySet, Renamed, KeyDeleted, ConnectionDeleted, place
<1>1. TabsGood' /\ \A x : OfKeys(tabs, x) => OfKeys(tabs', x)
  <2>1. CASE Renamed(s)
    BY <2>1, RenameFact
  <2>2. CASE KeyDeleted(s) /\ RemoveTab(calls[s].tab)
    BY <2>2, RemoveTabStep DEF WInv
  <2>3. CASE UNCHANGED <<tabs, active>>
    BY <2>3 DEF WInv, TabsGood, ActiveIsOpen
  <2>. QED
    BY <2>1, <2>2, <2>3 DEF ReadOnlySet, KeyDeleted, ConnectionDeleted, shell
<1>. QED
  BY <1>0, <1>1, EndStep DEF WInv

LEMMA NextWInv == WInv /\ [Next]_vars => WInv'
<1>. SUFFICES ASSUME WInv, [Next]_vars PROVE WInv'
  OBVIOUS
<1>1. CASE UNCHANGED vars
  BY <1>1 DEF vars, shell, place, WInv, TabsGood, ActiveIsOpen, CallsGood
<1>2. CASE Next
  <2>1. ASSUME NEW id, SetActiveTab(id) \/ CloseTab(id) \/ TogglePin(id) \/ CloseOthers(id) \/ CloseAll
        PROVE  WInv'
    BY <2>1, HandSteps
  <2>. QED
    BY <1>2, <2>1, PlaceSteps, StartSteps, AskSteps, OpenSteps, ConnectSteps, KeySteps DEF Next
<1>. QED
  BY <1>1, <1>2

\* The inductive invariant: besides the order of the tabs, every call in
\* flight was made for a connection and a database, and a rename from the tab
\* of a key, which stays one for as long as it is open.
THEOREM Inductive == Spec => []WInv
BY InitWInv, NextWInv, PTL DEF Spec

\* However clicks and answers follow each other, the tabs have identities of
\* their own, no view of a database is open twice, pinned ones come first, and
\* what is active is open (tab.store.ts 31-123).
THEOREM TabsAreInOrder == Spec => []TabsInOrder
<1>1. WInv => OneTabPerView
  BY DEF WInv, TabsGood, Once, OneTabPerView
<1>2. WInv => TabsInOrder
  BY <1>1 DEF WInv, TabsGood, Distinct, InOrder, ActiveIsOpen, TabsInOrder
<1>. QED
  BY <1>2, Inductive, PTL

\* A call that was in flight and is not any more has been answered.
LEMMA Answered ==
  ASSUME Next, NEW s \in DOMAIN calls \ DOMAIN calls'
  PROVE  \/ \E x \in Call : x = s /\ (Renamed(x) \/ KeyDeleted(x))
         \/ calls[s].op \notin {"rename", "deleteKey"}
<1>1. ASSUME NEW x, End(x) PROVE x = s
  BY <1>1 DEF End
<1>2. ASSUME NEW r, Start(r) PROVE FALSE
  BY <1>2 DEF Start
<1>3. ASSUME calls' = calls \/ DOMAIN calls' = DOMAIN calls PROVE FALSE
  BY <1>3
<1>4. ASSUME NEW x \in Call, ListAnswered(x) \/ ConnectAnswered(x) \/ Disconnected(x)
                             \/ ReadOnlySet(x) \/ ConnectionDeleted(x)
      PROVE  calls[s].op \notin {"rename", "deleteKey"}
  <2>1. calls' = [calls EXCEPT ![x].op = "change"] \/ End(x)
    BY <1>4 DEF ListAnswered, ConnectAnswered, Disconnected, ReadOnlySet, ConnectionDeleted
  <2>2. x = s
    BY <1>1, <1>3, <2>1
  <2>. QED
    BY <1>4, <2>2 DEF ListAnswered, ConnectAnswered, Disconnected, ReadOnlySet, ConnectionDeleted,
       InFlight, Lock
<1>5. ASSUME NEW x \in Call, Renamed(x) \/ KeyDeleted(x) PROVE x = s
  BY <1>1, <1>5 DEF Renamed, KeyDeleted
<1>6. ASSUME NEW id, SetActiveTab(id) \/ CloseTab(id) \/ TogglePin(id) \/ CloseOthers(id) \/ CloseAll
      PROVE  FALSE
  BY <1>3, <1>6 DEF SetActiveTab, CloseTab, TogglePin, CloseOthers, CloseAll
<1>7. CASE Sync \/ AskDeleteKey \/ (\E c \in Connection : AskDeleteConnection(c))
           \/ (\E type \in View : OpenView(type)) \/ \E k \in Key : SelectKey(k)
  BY <1>3, <1>7 DEF Sync, AskDeleteKey, AskDeleteConnection, OpenView, SelectKey
<1>8. CASE ToggleReadOnly \/ (\E c \in Connection, d \in Db : Connect(c, d))
           \/ (\E c \in Connection : Disconnect(c)) \/ (\E d \in Db : ChangeDbIdx(d))
           \/ \E k \in Key : Rename(k)
  BY <1>2, <1>8 DEF ToggleReadOnly, Connect, Disconnect, ChangeDbIdx, Rename
<1>9. CASE Confirm
  BY <1>2, <1>3, <1>9 DEF Confirm
<1>10. ASSUME NEW p, ShowPanel(p) PROVE FALSE
  BY <1>3, <1>10 DEF ShowPanel
<1>. QED
  BY <1>4, <1>5, <1>6, <1>7, <1>8, <1>9, <1>10 DEF Next

\* Whatever is answered late, a rename or a deletion changes its own tab only
\* (connection-detail-tab-key-detail.tsx, tab.store.ts 64-123).
THEOREM AnswersTouchTheirTab == Spec => AnswerTouchesItsTab
<1>. DEFINE A == \A s \in DOMAIN calls \ DOMAIN calls' :
                   calls[s].op \in {"rename", "deleteKey"} =>
                     /\ Without(tabs', calls[s].tab) = Without(tabs, calls[s].tab)
                     /\ active # calls[s].tab => active' = active
<1>1. WInv /\ [Next]_vars => [A]_vars
  <2>. SUFFICES ASSUME WInv, Next, NEW s \in DOMAIN calls \ DOMAIN calls',
                       calls[s].op \in {"rename", "deleteKey"}
                PROVE  /\ Without(tabs', calls[s].tab) = Without(tabs, calls[s].tab)
                       /\ active # calls[s].tab => active' = active
    OBVIOUS
  <2>1. Renamed(s) \/ KeyDeleted(s)
    BY Answered
  <2>2. CASE Renamed(s)
    BY <2>2, RenameFact
  <2>3. CASE KeyDeleted(s) /\ UNCHANGED shell
    BY <2>3 DEF shell
  <2>4. CASE KeyDeleted(s) /\ RemoveTab(calls[s].tab)
    BY <2>4, WithoutTwice DEF RemoveTab, WInv, TabsGood
  <2>. QED
    BY <2>1, <2>2, <2>3, <2>4 DEF KeyDeleted
<1>. QED
  BY <1>1, Inductive, PTL DEF Spec, AnswerTouchesItsTab

-----------------------------------------------------------------------------
(* A dangerous command is sent right after its warning.                     *)

Pending == [line : Dangerous \cup {Blank}, age : Nat]
Warning(p) == [line |-> p.line, warned |-> TRUE, age |-> p.age]

WarnInv ==
  /\ pending \in [Conn -> Pending]
  /\ DOMAIN checked = Conn
  /\ \A k \in Conn : pending[k].line # Blank => checked[k] = Warning(pending[k])

LEMMA InitWarnInv == ConsoleInit => WarnInv
BY DEF ConsoleInit, WarnInv, Pending, Nothing

\* What the check leaves behind is a warning, or nothing is pending.
LEMMA NextPendingWarns ==
  ASSUME NEW c \in Console, NEW l
  PROVE  /\ NextPending(c, l) \in Pending
         /\ NextPending(c, l).line # Blank =>
              [line |-> l, warned |-> NextPending(c, l) # Nothing, age |-> 0]
                = Warning(NextPending(c, l))
<1>. DEFINE n == NextPending(c, l)
<1>1. CASE l \in Dangerous /\ Current(ConnOf[c]) = Nothing
  <2>1. n = [line |-> l, age |-> 0]
    BY <1>1 DEF NextPending
  <2>2. n.line = l /\ n.age = 0 /\ l # Blank
    BY ConsoleAssumption, <1>1, <2>1
  <2>3. n # Nothing
    BY <2>2 DEF Nothing
  <2>4. n \in Pending
    BY <1>1, <2>1 DEF Pending
  <2>5. (n # Nothing) = TRUE
    BY <2>3
  <2>6. [line |-> l, warned |-> n # Nothing, age |-> 0] = Warning(n)
    BY <2>2, <2>5 DEF Warning
  <2>. QED
    BY <2>4, <2>6
<1>2. CASE ~(l \in Dangerous /\ Current(ConnOf[c]) = Nothing)
  BY <1>2 DEF NextPending, Nothing, Pending
<1>. QED
  BY <1>1, <1>2

LEMMA CheckStep ==
  ASSUME WarnInv, NEW c \in Console, NEW l, Check(c, l)
  PROVE  WarnInv'
<1>1. ConnOf[c] \in Conn
  BY ConsoleAssumption
<1>2. /\ pending'[ConnOf[c]] = NextPending(c, l)
      /\ checked'[ConnOf[c]] = [line |-> l, warned |-> NextPending(c, l) # Nothing, age |-> 0]
      /\ \A k \in Conn \ {ConnOf[c]} : pending'[k] = pending[k] /\ checked'[k] = checked[k]
      /\ DOMAIN checked' = Conn
  BY <1>1 DEF Check, WarnInv
<1>3. pending' \in [Conn -> Pending]
  BY <1>1, NextPendingWarns DEF Check, WarnInv
<1>. QED
  BY <1>2, <1>3, NextPendingWarns DEF WarnInv

LEMMA ExecuteStep ==
  ASSUME WarnInv, NEW c \in Console, NEW l, Execute(c, l)
  PROVE  WarnInv'
<1>1. CASE UNCHANGED <<pending, checked>>
  BY <1>1 DEF WarnInv
<1>2. CASE Check(c, l)
  BY <1>2, CheckStep
<1>. QED
  BY <1>1, <1>2 DEF Execute

LEMMA Aged ==
  ASSUME NEW a, NEW w, NEW b, NEW d
  PROVE  [[line |-> a, warned |-> w, age |-> b] EXCEPT !.age = d]
           = [line |-> a, warned |-> w, age |-> d]
OBVIOUS

\* The clock ages a warning and what it is a warning for alike.
LEMMA TickStep == ASSUME WarnInv, Tick PROVE WarnInv'
<1>1. /\ pending' = [k \in Conn |-> IF pending[k] = Nothing THEN Nothing ELSE Older(pending[k])]
      /\ checked' = [k \in Conn |-> IF checked[k].warned THEN Older(checked[k]) ELSE checked[k]]
  BY DEF Tick
<1>2. \A p \in Pending : Older(p) \in Pending /\ Older(p).line = p.line
  BY DEF Older, Pending
<1>3. Nothing \in Pending /\ Nothing.line = Blank
  BY DEF Nothing, Pending
<1>4. pending' \in [Conn -> Pending]
  BY <1>1, <1>2, <1>3 DEF WarnInv
<1>5. ASSUME NEW k \in Conn, pending'[k].line # Blank
      PROVE  checked'[k] = Warning(pending'[k])
  <2>1. pending[k] # Nothing /\ pending'[k] = Older(pending[k])
    BY <1>1, <1>3, <1>5
  <2>2. pending[k] \in Pending /\ pending[k].line # Blank
    BY <1>2, <1>5, <2>1 DEF WarnInv
  <2>3. checked[k] = Warning(pending[k]) /\ checked'[k] = Older(checked[k])
    BY <1>1, <2>2 DEF WarnInv, Warning
  <2>4. \A p \in Pending : Older(Warning(p)) = Warning(Older(p))
    <3>. SUFFICES ASSUME NEW p \in Pending PROVE Older(Warning(p)) = Warning(Older(p))
      OBVIOUS
    <3>1. Warning(p).age = p.age /\ Warning(p).line = p.line /\ Warning(p).warned = TRUE
      BY DEF Warning
    <3>2. p = [line |-> p.line, age |-> p.age]
      BY DEF Pending
    <3>3. CASE p.age > Timeout
      BY <3>1, <3>2, <3>3 DEF Older, Warning
    <3>4. CASE ~(p.age > Timeout)
      <4>1. Older(p) = [line |-> p.line, age |-> p.age + 1]
        BY <3>2, <3>4 DEF Older
      <4>2. Older(Warning(p)) = [Warning(p) EXCEPT !.age = p.age + 1]
        BY <3>1, <3>4 DEF Older
      <4>3. [Warning(p) EXCEPT !.age = p.age + 1]
              = [line |-> p.line, warned |-> TRUE, age |-> p.age + 1]
        BY Aged DEF Warning
      <4>. QED
        BY <4>1, <4>2, <4>3 DEF Warning
    <3>. QED
      BY <3>3, <3>4
  <2>. QED
    BY <2>1, <2>2, <2>3, <2>4
<1>. QED
  BY <1>1, <1>4, <1>5 DEF WarnInv

\* Only an Enter that reaches the engine and the clock touch the two.
LEMMA EnterStep == ASSUME WarnInv, NEW c \in Console, Enter(c) PROVE WarnInv'
<1>1. CASE UNCHANGED <<stream, pending, checked>>
  BY <1>1 DEF WarnInv
<1>2. CASE Execute(c, line[c])
  BY <1>2, ExecuteStep
<1>. QED
  BY <1>1, <1>2 DEF Enter

LEMMA OtherSteps ==
  ASSUME ConsoleNext
  PROVE  \/ \E c \in Console : Enter(c)
         \/ Tick
         \/ /\ UNCHANGED <<pending, checked>>
            /\ DOMAIN stream' \subseteq DOMAIN stream
<1>1. ASSUME NEW c \in Console,
             \/ Imported(c) \/ Opened(c) \/ Rebuild(c)
             \/ Edit(c) \/ Escape(c) \/ Resize(c) \/ Select(c) \/ Up(c) \/ Down(c)
             \/ Complete(c) \/ ClickTooEarly(c) \/ FetchSuggestions(c) \/ KeysFound(c)
      PROVE  UNCHANGED <<pending, checked>> /\ DOMAIN stream' = DOMAIN stream
  BY <1>1 DEF engine, Imported, Opened, Rebuild, Edit, Escape, Resize, Select,
     Up, Down, Recall,
     Complete, ClickTooEarly, FetchSuggestions, KeysFound
<1>2. ASSUME NEW s \in Stream, Finish(s)
      PROVE  UNCHANGED <<pending, checked>> /\ DOMAIN stream' \subseteq DOMAIN stream
  BY <1>2 DEF Finish
<1>3. ASSUME NEW k \in Conn, SetReadOnly(k)
      PROVE  UNCHANGED <<pending, checked>> /\ stream' = stream
  BY <1>3 DEF SetReadOnly
<1>. QED
  BY <1>1, <1>2, <1>3 DEF ConsoleNext

LEMMA NextWarnInv ==
  WarnInv /\ [ConsoleNext]_consoleVars => WarnInv'
<1>. SUFFICES ASSUME WarnInv, [ConsoleNext]_consoleVars PROVE WarnInv'
  OBVIOUS
<1>1. CASE UNCHANGED consoleVars
  BY <1>1 DEF consoleVars, engine, WarnInv
<1>2. ASSUME UNCHANGED <<pending, checked>> PROVE WarnInv'
  BY <1>2 DEF WarnInv
<1>. QED
  BY <1>1, <1>2, OtherSteps, EnterStep, TickStep

\* The inductive invariant: a pending confirmation is the last line checked on
\* its connection, was answered with the warning and is as old as the record.
THEOREM WarningsInductive == ConsoleSpec => []WarnInv
<1>1. ConsoleInit => WarnInv
  BY InitWarnInv
<1>2. WarnInv /\ [ConsoleNext]_consoleVars => WarnInv'
  BY NextWarnInv
<1>. QED
  BY <1>1, <1>2, PTL DEF ConsoleSpec

\* A command the engine lets through is the pending confirmation, if dangerous.
LEMMA EnterConfirmed ==
  ASSUME WarnInv, NEW c \in Console, Enter(c), NEW s \in DOMAIN stream' \ DOMAIN stream,
         stream'[s].line \in Dangerous
  PROVE  LET last == checked[ConnOf[stream'[s].con]]
         IN  last.line = stream'[s].line /\ last.warned /\ last.age <= Timeout
<1>. DEFINE l == line[c]
            k == ConnOf[c]
<1>1. Execute(c, l) /\ stream' # stream
  BY DEF Enter
<1>2. MayRun(c, l) /\ \E r \in Stream \ DOMAIN stream :
          stream' = [t \in DOMAIN stream \cup {r} |->
                       IF t = r THEN [con |-> c, line |-> l, live |-> TRUE] ELSE stream[t]]
  BY <1>1 DEF Execute
<1>3. stream'[s] = [con |-> c, line |-> l, live |-> TRUE]
  BY <1>2
<1>4. l \in Dangerous /\ l # Blank /\ k \in Conn
  BY ConsoleAssumption, <1>3
<1>5. Current(k).line = l
  BY <1>2, <1>3 DEF MayRun, Confirmed
<1>6. Valid(pending[k]) /\ pending[k].line = l
  BY <1>4, <1>5 DEF Current, Nothing
<1>7. checked[k] = Warning(pending[k])
  BY <1>4, <1>6 DEF WarnInv
<1>. QED
  BY <1>3, <1>6, <1>7 DEF Valid, Warning

\* A dangerous command is sent only right after its own warning on the same
\* connection, within CONFIRM_TIMEOUT (dangerous-command.ts 20-58).
THEOREM DangerousNeedsItsWarning == ConsoleSpec => DangerousIsConfirmed
<1>. DEFINE A == \A s \in DOMAIN stream' \ DOMAIN stream :
                   stream'[s].line \in Dangerous =>
                     LET last == checked[ConnOf[stream'[s].con]]
                     IN  last.line = stream'[s].line /\ last.warned /\ last.age <= Timeout
<1>1. WarnInv /\ [ConsoleNext]_consoleVars => [A]_consoleVars
  <2>. SUFFICES ASSUME WarnInv, ConsoleNext PROVE A
    OBVIOUS
  <2>1. CASE Tick \/ DOMAIN stream' \subseteq DOMAIN stream
    BY <2>1 DEF Tick
  <2>2. CASE \E c \in Console : Enter(c)
    BY <2>2, EnterConfirmed
  <2>. QED
    BY <2>1, <2>2, OtherSteps
<1>2. ConsoleSpec => []WarnInv
  BY WarningsInductive
<1>. QED
  BY <1>1, <1>2, PTL DEF ConsoleSpec, DangerousIsConfirmed

-----------------------------------------------------------------------------
(* The selection in the popup and the position in the history.              *)

Entry == [con : Console, line : Line]
Running == [con : Console, line : Line, live : BOOLEAN]

InRange(p) == p.size > 0 => p.index < p.size

RInv ==
  /\ TypeOK
  /\ DOMAIN at = Console
  /\ \A c \in Console : InRange(popup[c])

LEMMA InitRInv ==
  ConsoleInit => RInv
<1>. SUFFICES ASSUME ConsoleInit PROVE RInv
  OBVIOUS
<1>1. /\ Closed \in [size : 0..MaxList, index : 0..MaxList] /\ InRange(Closed)
      /\ Nothing \in [line : Dangerous \cup {Blank}, age : 0..(Timeout + 1)]
      /\ Unchecked \in [line : Line \cup {Blank}, warned : BOOLEAN, age : 0..(Timeout + 1)]
  BY ConsoleAssumption DEF Closed, Nothing, Unchecked, InRange
<1>2. << >> \in Seq(Line) /\ << >> \in Seq(Entry) /\ Len(<< >>) = 0 /\ DOMAIN << >> = {}
  OBVIOUS
<1>3. term \in [Console -> {"loading", "opening", "ready", "failed"}]
      /\ line \in [Console -> Line \cup {Blank}]
      /\ timer \in [Console -> BOOLEAN]
      /\ asking \in [Console -> 0..MaxAsking]
      /\ readOnly \in [Conn -> BOOLEAN] /\ keys \in 0..MaxKeys
  BY ConsoleAssumption DEF ConsoleInit
<1>4. popup \in [Console -> [size : 0..MaxList, index : 0..MaxList]]
      /\ \A c \in Console : InRange(popup[c])
  BY <1>1 DEF ConsoleInit
<1>5. recall \in [Console -> Seq(Line)] /\ DOMAIN at = Console /\ \A c \in Console : at[c] \in 0..Len(recall[c])
  BY <1>2 DEF ConsoleInit
<1>6. /\ DOMAIN stream \subseteq Stream /\ \A s \in DOMAIN stream : stream[s] \in Running
      /\ history \in Seq(Entry) /\ Len(history) <= MaxHistory
  BY ConsoleAssumption, <1>2 DEF ConsoleInit
<1>7. pending \in [Conn -> [line : Dangerous \cup {Blank}, age : 0..(Timeout + 1)]]
      /\ checked \in [Conn ->
                   [line : Line \cup {Blank}, warned : BOOLEAN, age : 0..(Timeout + 1)]]
  BY <1>1 DEF ConsoleInit
<1>. QED
  BY <1>3, <1>4, <1>5, <1>6, <1>7 DEF RInv, TypeOK, Entry, Running

LEMMA HistoryType ==
  ASSUME history \in Seq(Entry), NEW c
  PROVE  HistoryOf(c) \in Seq(Line)
<1>. DEFINE mine == Keep(history, {i \in DOMAIN history : history[i].con = c})
<1>1. mine \in Seq(Entry)
  BY KeepFact
<1>2. HistoryOf(c) = [i \in DOMAIN mine |-> mine[Len(mine) + 1 - i].line]
  BY DEF HistoryOf
<1>. HIDE DEF mine
<1>3. \A i \in DOMAIN mine : mine[Len(mine) + 1 - i] \in Entry
  BY <1>1
<1>4. \A i \in DOMAIN mine : mine[Len(mine) + 1 - i].line \in Line
  BY <1>3 DEF Entry
<1>. QED
  BY <1>1, <1>2, <1>4

LEMMA AddHistoryType ==
  ASSUME history \in Seq(Entry), NEW c \in Console, NEW l \in Line, AddHistory(c, l)
  PROVE  history' \in Seq(Entry) /\ Len(history') <= MaxHistory
<1>. DEFINE new == <<[con |-> c, line |-> l]>> \o history
            n == IF Len(new) < MaxHistory THEN Len(new) ELSE MaxHistory
<1>1. [con |-> c, line |-> l] \in Entry
  BY DEF Entry
<1>2. new \in Seq(Entry)
  BY <1>1
<1>3. history' = SubSeq(new, 1, n)
  BY DEF AddHistory
<1>. HIDE DEF new
<1>4. n \in Nat /\ n <= Len(new) /\ n <= MaxHistory
  BY ConsoleAssumption, <1>2
<1>. HIDE DEF n
<1>. QED
  BY ConsoleAssumption, <1>2, <1>3, <1>4

PopupType == [size : 0..MaxList, index : 0..MaxList]
PendingType == [line : Dangerous \cup {Blank}, age : 0..(Timeout + 1)]
CheckedType == [line : Line \cup {Blank}, warned : BOOLEAN, age : 0..(Timeout + 1)]

PromptOK ==
  /\ term \in [Console -> {"loading", "opening", "ready", "failed"}]
  /\ line \in [Console -> Line \cup {Blank}]
  /\ timer \in [Console -> BOOLEAN]
  /\ asking \in [Console -> 0..MaxAsking]
  /\ keys \in 0..MaxKeys
PopupOK ==
  /\ popup \in [Console -> PopupType]
  /\ \A c \in Console : InRange(popup[c])
RecallOK ==
  /\ recall \in [Console -> Seq(Line)] /\ DOMAIN at = Console
  /\ \A c \in Console : at[c] \in 0..Len(recall[c])
StreamOK ==
  /\ DOMAIN stream \subseteq Stream
  /\ \A s \in DOMAIN stream : stream[s] \in Running
HistoryOK == history \in Seq(Entry) /\ Len(history) <= MaxHistory
CheckOK ==
  /\ readOnly \in [Conn -> BOOLEAN]
  /\ pending \in [Conn -> PendingType]
  /\ checked \in [Conn -> CheckedType]

LEMMA Parts == RInv <=> PromptOK /\ PopupOK /\ RecallOK /\ StreamOK /\ HistoryOK /\ CheckOK
BY DEF RInv, TypeOK, PromptOK, PopupOK, RecallOK, StreamOK, HistoryOK, CheckOK, Entry, Running,
   PopupType, PendingType, CheckedType

LEMMA PartsPrimed ==
  RInv' <=> PromptOK' /\ PopupOK' /\ RecallOK' /\ StreamOK' /\ HistoryOK' /\ CheckOK'
BY DEF RInv, TypeOK, PromptOK, PopupOK, RecallOK, StreamOK, HistoryOK, CheckOK, Entry, Running,
   PopupType, PendingType, CheckedType

LEMMA TypedFact == ASSUME keys \in 0..MaxKeys, Typed PROVE keys' \in 0..MaxKeys
BY ConsoleAssumption DEF Typed

LEMMA PopupFact ==
  ASSUME NEW n \in 0..MaxList
  PROVE  Popup(n) \in PopupType /\ InRange(Popup(n)) /\ Closed \in PopupType /\ InRange(Closed)
BY ConsoleAssumption DEF Popup, PopupType, InRange, Closed

LEMMA SetPopup ==
  ASSUME PopupOK, NEW c \in Console, NEW p \in PopupType, InRange(p),
         popup' = [popup EXCEPT ![c] = p]
  PROVE  PopupOK'
BY DEF PopupOK

LEMMA ClosePopupStep ==
  ASSUME PopupOK, NEW c \in Console, ClosePopup(c)
  PROVE  PopupOK'
<1>1. 0 \in 0..MaxList
  BY ConsoleAssumption
<1>. QED
  BY <1>1, PopupFact, SetPopup DEF ClosePopup

\* The life of a terminal.
LEMMA TerminalStep ==
  ASSUME RInv, NEW c \in Console, Imported(c) \/ Opened(c) \/ Rebuild(c)
  PROVE  RInv'
<1>1. PromptOK /\ PopupOK /\ RecallOK /\ StreamOK /\ HistoryOK /\ CheckOK
  BY Parts
<1>2. PromptOK'
  BY <1>1 DEF PromptOK, Imported, Opened, Rebuild
<1>3. PopupOK' /\ HistoryOK' /\ CheckOK'
  BY <1>1 DEF PopupOK, HistoryOK, CheckOK, Imported, Opened, Rebuild, engine
<1>4. RecallOK'
  <2>1. CASE Rebuild(c)
    <3>1. HistoryOf(c) \in Seq(Line)
      BY <1>1, HistoryType DEF HistoryOK
    <3>2. Len(HistoryOf(c)) \in 0..Len(HistoryOf(c))
      BY <3>1
    <3>. QED
      BY <1>1, <2>1, <3>1, <3>2 DEF RecallOK, Rebuild
  <2>2. CASE UNCHANGED <<recall, at>>
    BY <1>1, <2>2 DEF RecallOK
  <2>. QED
    BY <2>1, <2>2 DEF Imported, Opened
<1>5. StreamOK'
  <2>1. CASE Rebuild(c)
    <3>1. stream' = [s \in DOMAIN stream |-> [stream[s] EXCEPT !.live = @ /\ stream[s].con # c]]
      BY <2>1 DEF Rebuild
    <3>2. \A r \in Running : \A b \in BOOLEAN : [r EXCEPT !.live = @ /\ b] \in Running
      BY DEF Running
    <3>. QED
      BY <1>1, <3>1, <3>2 DEF StreamOK
  <2>2. CASE stream' = stream
    BY <1>1, <2>2 DEF StreamOK
  <2>. QED
    BY <2>1, <2>2 DEF Imported, Opened, engine
<1>. QED
  BY <1>2, <1>3, <1>4, <1>5, PartsPrimed

\* Keys and clicks at the prompt.
LEMMA PromptStep ==
  ASSUME RInv, NEW c \in Console, Edit(c) \/ Complete(c) \/ ClickTooEarly(c) \/ Escape(c) \/ Resize(c)
  PROVE  RInv'
<1>1. PromptOK /\ PopupOK /\ RecallOK /\ StreamOK /\ HistoryOK /\ CheckOK
  BY Parts
<1>2. PromptOK'
  BY <1>1, TypedFact DEF PromptOK, Edit, Complete, ClickTooEarly, Escape, Resize,
     ArmTimer
<1>3. RecallOK' /\ StreamOK' /\ HistoryOK' /\ CheckOK'
  BY <1>1 DEF RecallOK, StreamOK, HistoryOK, CheckOK, Edit, Complete, ClickTooEarly, Escape,
     Resize, engine
<1>4. PopupOK'
  <2>1. ClosePopup(c) \/ popup' = popup
    BY DEF Edit, Complete, ClickTooEarly, Escape, Resize
  <2>. QED
    BY <1>1, <2>1, ClosePopupStep DEF PopupOK
<1>. QED
  BY <1>2, <1>3, <1>4, PartsPrimed

\* Arrow keys: in the popup ...
LEMMA SelectStep ==
  ASSUME RInv, NEW c \in Console, Select(c)
  PROVE  RInv'
<1>1. PromptOK /\ PopupOK /\ RecallOK /\ StreamOK /\ HistoryOK /\ CheckOK
  BY Parts
<1>2. UNCHANGED <<term, line, timer, asking, recall, at, engine, keys>>
  BY DEF Select
<1>3. PromptOK' /\ RecallOK' /\ StreamOK' /\ HistoryOK' /\ CheckOK'
  BY <1>1, <1>2 DEF PromptOK, RecallOK, StreamOK, HistoryOK, CheckOK, engine
<1>4. PopupOK'
  <2>. DEFINE p == popup[c]
  <2>1. p \in PopupType /\ p.size > 0 /\ p.index < p.size
    BY <1>1 DEF PopupOK, InRange, Select, IsOpen
  <2>2. PICK d \in {p.index - 1, p.index + 1} :
          /\ popup' = [popup EXCEPT ![c] = [p EXCEPT !.index = d]]
          /\ d \in 0..(p.size - 1)
    BY <1>1, <2>1 DEF Select, PopupOK, PopupType
  <2>3. [p EXCEPT !.index = d] \in PopupType /\ InRange([p EXCEPT !.index = d])
    BY ConsoleAssumption, <2>1, <2>2 DEF PopupType, InRange
  <2>. QED
    BY <1>1, <2>2, <2>3, SetPopup
<1>. QED
  BY <1>3, <1>4, PartsPrimed

\* ... and in the history.
LEMMA RecallStep ==
  ASSUME RInv, NEW c \in Console, Up(c) \/ Down(c)
  PROVE  RInv'
<1>1. PromptOK /\ PopupOK /\ RecallOK /\ StreamOK /\ HistoryOK /\ CheckOK
  BY Parts
<1>. DEFINE n == Len(recall[c])
<1>2. n \in Nat /\ recall[c] \in Seq(Line) /\ at[c] \in 0..n
  BY <1>1 DEF RecallOK
<1>3. PICK i \in 0..n : Recall(c, i)
  <2>1. CASE Up(c)
    BY <1>2, <2>1 DEF Up
  <2>2. CASE Down(c)
    BY <1>2, <2>2 DEF Down
  <2>. QED
    BY <2>1, <2>2
<1>4. /\ at' = [at EXCEPT ![c] = i] /\ UNCHANGED <<term, popup, timer, asking, recall, engine>>
      /\ line' = [line EXCEPT ![c] = IF i = n THEN Blank ELSE recall[c][i + 1]]
      /\ Typed
  BY <1>3 DEF Recall
<1>5. i # n => recall[c][i + 1] \in Line
  BY <1>2
<1>6. PromptOK'
  BY <1>1, <1>4, <1>5, TypedFact DEF PromptOK
<1>7. RecallOK'
  BY <1>1, <1>2, <1>4 DEF RecallOK
<1>8. PopupOK' /\ StreamOK' /\ HistoryOK' /\ CheckOK'
  BY <1>1, <1>4 DEF PopupOK, StreamOK, HistoryOK, CheckOK, engine
<1>. QED
  BY <1>6, <1>7, <1>8, PartsPrimed

\* Suggestions are fetched and answered.
LEMMA SuggestStep ==
  ASSUME RInv, NEW c \in Console, FetchSuggestions(c) \/ KeysFound(c)
  PROVE  RInv'
<1>1. PromptOK /\ PopupOK /\ RecallOK /\ StreamOK /\ HistoryOK /\ CheckOK
  BY Parts
<1>2. PromptOK'
  <2>1. asking' \in [Console -> 0..MaxAsking]
    BY ConsoleAssumption, <1>1 DEF PromptOK, FetchSuggestions, KeysFound
  <2>. QED
    BY <1>1, <2>1 DEF PromptOK, FetchSuggestions, KeysFound
<1>3. RecallOK' /\ StreamOK' /\ HistoryOK' /\ CheckOK'
  BY <1>1 DEF RecallOK, StreamOK, HistoryOK, CheckOK, FetchSuggestions, KeysFound, engine
<1>4. PopupOK'
  <2>1. popup' = popup \/ \E n \in 0..MaxList : popup' = [popup EXCEPT ![c] = Popup(n)]
    BY ConsoleAssumption DEF FetchSuggestions, KeysFound
  <2>. QED
    BY <1>1, <2>1, PopupFact, SetPopup DEF PopupOK
<1>. QED
  BY <1>2, <1>3, <1>4, PartsPrimed

\* What the check writes.
LEMMA CheckType ==
  ASSUME RInv, NEW c \in Console, NEW l \in Line, Check(c, l), readOnly' = readOnly
  PROVE  CheckOK'
<1>1. CheckOK /\ ConnOf[c] \in Conn
  BY ConsoleAssumption, Parts
<1>2. 0 \in 0..(Timeout + 1)
  BY ConsoleAssumption
<1>3. NextPending(c, l) \in PendingType
  BY <1>2 DEF NextPending, PendingType, Nothing
<1>4. [line |-> l, warned |-> NextPending(c, l) # Nothing, age |-> 0] \in CheckedType
  BY <1>2 DEF CheckedType
<1>5. pending' \in [Conn -> PendingType]
  BY <1>1, <1>3 DEF Check, CheckOK
<1>. DEFINE e == [line |-> l, warned |-> NextPending(c, l) # Nothing, age |-> 0]
<1>6. checked' = [checked EXCEPT ![ConnOf[c]] = e]
  BY DEF Check
<1>. HIDE DEF e
<1>7. checked' \in [Conn -> CheckedType]
  BY <1>1, <1>4, <1>6 DEF CheckOK, e
<1>. QED
  BY <1>1, <1>5, <1>7 DEF CheckOK

LEMMA EnterType ==
  ASSUME RInv, NEW c \in Console, Enter(c)
  PROVE  RInv'
<1>1. PromptOK /\ PopupOK /\ RecallOK /\ StreamOK /\ HistoryOK /\ CheckOK
  BY Parts
<1>2. /\ line' = [line EXCEPT ![c] = Blank]
      /\ UNCHANGED <<term, popup, timer, asking, recall, at, history, readOnly, keys>>
  BY DEF Enter
<1>3. PromptOK' /\ PopupOK' /\ RecallOK' /\ HistoryOK'
  BY <1>1, <1>2 DEF PromptOK, PopupOK, RecallOK, HistoryOK
<1>4. CASE UNCHANGED <<stream, pending, checked>>
  BY <1>1, <1>2, <1>3, <1>4, PartsPrimed DEF StreamOK, CheckOK
<1>5. CASE line[c] \in Line /\ Execute(c, line[c])
  <2>. DEFINE l == line[c]
  <2>1. CASE UNCHANGED <<stream, pending, checked>>
    BY <1>4, <2>1
  <2>2. CASE Check(c, l)
    <3>1. CheckOK'
      BY <1>2, <1>5, <2>2, CheckType
    <3>2. StreamOK'
      <4>1. CASE stream' = stream
        BY <1>1, <4>1 DEF StreamOK
      <4>2. ASSUME NEW s \in Stream \ DOMAIN stream,
                   stream' = [t \in DOMAIN stream \cup {s} |->
                       IF t = s THEN [con |-> c, line |-> l, live |-> TRUE] ELSE stream[t]]
            PROVE  StreamOK'
        <5>1. [con |-> c, line |-> l, live |-> TRUE] \in Running
          BY <1>5 DEF Running
        <5>. QED
          BY <1>1, <4>2, <5>1 DEF StreamOK
      <4>. QED
        BY <1>5, <4>1, <4>2 DEF Execute
    <3>. QED
      BY <1>3, <3>1, <3>2, PartsPrimed
  <2>. QED
    BY <1>5, <2>1, <2>2 DEF Execute
<1>6. line[c] \in Line \cup {Blank}
  BY <1>1 DEF PromptOK
<1>. QED
  BY <1>4, <1>5, <1>6 DEF Enter

LEMMA FinishType ==
  ASSUME RInv, NEW s \in Stream, Finish(s)
  PROVE  RInv'
<1>. DEFINE c == stream[s].con
            l == stream[s].line
<1>1. PromptOK /\ PopupOK /\ RecallOK /\ StreamOK /\ HistoryOK /\ CheckOK
  BY Parts
<1>2. /\ UNCHANGED <<term, line, popup, timer, asking, readOnly, pending, checked, keys>>
      /\ stream' = [t \in DOMAIN stream \ {s} |-> stream[t]]
      /\ s \in DOMAIN stream
  BY DEF Finish
<1>3. PromptOK' /\ PopupOK' /\ CheckOK' /\ StreamOK'
  BY <1>1, <1>2 DEF PromptOK, PopupOK, CheckOK, StreamOK
<1>4. c \in Console /\ l \in Line
  BY <1>1, <1>2 DEF StreamOK, Running
<1>5. history' = history \/ AddHistory(c, l)
  BY DEF Finish
<1>6. \/ UNCHANGED <<recall, at>>
      \/ /\ recall' = [recall EXCEPT ![c] = Append(recall[c], l)]
         /\ at' = [at EXCEPT ![c] = Len(recall[c]) + 1]
  BY DEF Finish
<1>. HIDE DEF c, l
<1>7. HistoryOK'
  BY <1>1, <1>4, <1>5, AddHistoryType DEF HistoryOK
<1>8. RecallOK'
  <2>1. CASE UNCHANGED <<recall, at>>
    BY <1>1, <2>1 DEF RecallOK
  <2>2. CASE /\ recall' = [recall EXCEPT ![c] = Append(recall[c], l)]
             /\ at' = [at EXCEPT ![c] = Len(recall[c]) + 1]
    <3>1. /\ Append(recall[c], l) \in Seq(Line)
          /\ Len(recall[c]) + 1 \in 0..Len(Append(recall[c], l))
      BY <1>1, <1>4 DEF RecallOK
    <3>. QED
      BY <1>1, <1>4, <2>2, <3>1 DEF RecallOK
  <2>. QED
    BY <1>6, <2>1, <2>2
<1>. QED
  BY <1>3, <1>7, <1>8, PartsPrimed

LEMMA ClockType ==
  ASSUME RInv, Tick \/ \E k \in Conn : SetReadOnly(k)
  PROVE  RInv'
<1>1. PromptOK /\ PopupOK /\ RecallOK /\ StreamOK /\ HistoryOK /\ CheckOK
  BY Parts
<1>2. UNCHANGED <<screen, stream, history, keys>>
  BY DEF Tick, SetReadOnly
<1>3. PromptOK' /\ PopupOK' /\ RecallOK' /\ StreamOK' /\ HistoryOK'
  BY <1>1, <1>2 DEF PromptOK, PopupOK, RecallOK, StreamOK, HistoryOK, screen
<1>4. ASSUME NEW p \in PendingType PROVE Older(p) \in PendingType
  BY ConsoleAssumption DEF Older, PendingType
<1>5. ASSUME NEW p \in CheckedType PROVE Older(p) \in CheckedType
  BY ConsoleAssumption DEF Older, CheckedType
<1>6. Nothing \in PendingType
  BY ConsoleAssumption DEF Nothing, PendingType
<1>7. CASE Tick
  <2>1. pending' \in [Conn -> PendingType]
    BY <1>1, <1>4, <1>6, <1>7 DEF Tick, CheckOK
  <2>2. checked' \in [Conn -> CheckedType]
    BY <1>1, <1>5, <1>7 DEF Tick, CheckOK
  <2>3. readOnly' = readOnly
    BY <1>7 DEF Tick
  <2>. QED
    BY <1>1, <1>3, <2>1, <2>2, <2>3, PartsPrimed DEF CheckOK
<1>8. CASE \E k \in Conn : SetReadOnly(k)
  <2>1. CheckOK'
    BY <1>1, <1>8 DEF SetReadOnly, CheckOK
  <2>. QED
    BY <1>3, <2>1, PartsPrimed
<1>. QED
  BY <1>7, <1>8

LEMMA NextRInv ==
  RInv /\ [ConsoleNext]_consoleVars => RInv'
<1>. SUFFICES ASSUME RInv, [ConsoleNext]_consoleVars PROVE RInv'
  OBVIOUS
<1>1. CASE UNCHANGED consoleVars
  <2>1. PromptOK /\ PopupOK /\ RecallOK /\ StreamOK /\ HistoryOK /\ CheckOK
    BY Parts
  <2>2. PromptOK' /\ PopupOK' /\ RecallOK' /\ StreamOK' /\ HistoryOK' /\ CheckOK'
    BY <1>1, <2>1 DEF PromptOK, PopupOK, RecallOK, StreamOK, HistoryOK, CheckOK, consoleVars,
       screen, engine
  <2>. QED
    BY <2>2, PartsPrimed
<1>2. CASE ConsoleNext
  BY <1>2, TerminalStep, PromptStep, SelectStep, RecallStep, SuggestStep, EnterType, FinishType,
     ClockType DEF ConsoleNext
<1>. QED
  BY <1>1, <1>2

\* Every variable keeps its type, whatever is typed, answered and rebuilt.
THEOREM ConsoleTypes == ConsoleSpec => []TypeOK
<1>1. RInv => TypeOK
  BY DEF RInv
<1>2. ConsoleInit => RInv
  BY InitRInv
<1>3. RInv /\ [ConsoleNext]_consoleVars => RInv'
  BY NextRInv
<1>. QED
  BY <1>1, <1>2, <1>3, PTL DEF ConsoleSpec

\* The selected suggestion is one of the list that is shown, and the position
\* in the history lies inside it (connection-detail-tab-console.tsx).
THEOREM SelectionStays == ConsoleSpec => []SelectionInRange
<1>1. RInv => SelectionInRange
  BY DEF RInv, TypeOK, InRange, SelectionInRange, IsOpen
<1>2. ConsoleInit => RInv
  BY InitRInv
<1>3. RInv /\ [ConsoleNext]_consoleVars => RInv'
  BY NextRInv
<1>. QED
  BY <1>1, <1>2, <1>3, PTL DEF ConsoleSpec
=============================================================================
