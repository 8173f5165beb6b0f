--------------------------- MODULE KeyEditingProofs ---------------------------
(***************************************************************************)
(* Proofs about KeyEditing, for any words, any number of requests in       *)
(* flight, rows in an editor, and steps of the user and of others.         *)
(***************************************************************************)
EXTENDS KeyEditing, FiniteSetTheorems, SequenceTheorems, WellFoundedInduction, TLAPS

-----------------------------------------------------------------------------
(* Requests in flight.                                                      *)

Op == {"delete", "update", "insert", "create", "text"}
Stage == {"check", "mark", "set", "add", "remove", "write", "done", "error"}

\* What a request carries never changes, so any values will do.
IsCall(r) == r \in [op : Op, id : {r.id}, val : {r.val}, new : {r.new},
                    step : Stage, unseen : BOOLEAN, raced : BOOLEAN]

CallsGood == DOMAIN calls \subseteq Call /\ \A c \in DOMAIN calls : IsCall(calls[c])

SameAsked(q, r) == q.op = r.op /\ q.id = r.id /\ q.val = r.val /\ q.new = r.new

LEMMA CallFields ==
  ASSUME NEW r, IsCall(r)
  PROVE  /\ r.op \in Op /\ r.step \in Stage /\ r.unseen \in BOOLEAN /\ r.raced \in BOOLEAN
BY DEF IsCall

LEMMA RequestIsCall ==
  ASSUME NEW op \in Op, NEW id, NEW val, NEW new, NEW first \in Stage
  PROVE  IsCall(Request(op, id, val, new, first))
BY DEF Request, IsCall

\* A request that goes out stands beside those in flight.
LEMMA StartFact ==
  ASSUME CallsGood, NEW r, IsCall(r), Start(r)
  PROVE  /\ CallsGood'
         /\ \A d \in DOMAIN calls : d \in DOMAIN calls' /\ calls'[d] = calls[d]
         /\ \A d \in DOMAIN calls' \ DOMAIN calls : calls'[d] = r
BY DEF Start, CallsGood

\* A step of one request and the race it means for the others.
LEMMA WriteFact ==
  ASSUME CallsGood, NEW c \in DOMAIN calls, NEW content, NEW next \in Stage,
         Write(c, content, next)
  PROVE  /\ stored' = content /\ CallsGood' /\ DOMAIN calls' = DOMAIN calls
         /\ calls'[c].step = next /\ calls'[c].unseen = TRUE /\ calls'[c].raced = calls[c].raced
         /\ \A d \in DOMAIN calls : SameAsked(calls'[d], calls[d])
         /\ \A d \in DOMAIN calls \ {c} :
              /\ calls'[d].step = calls[d].step /\ calls'[d].unseen = calls[d].unseen
              /\ calls'[d].raced = (calls[d].raced \/ Pending(calls[d]))
<1>. DEFINE one(r) == [r EXCEPT !.raced = @ \/ Pending(r)]
            hit(r) == [r EXCEPT !.step = next, !.unseen = TRUE]
<1>1. ASSUME NEW r, IsCall(r)
      PROVE  /\ IsCall(one(r)) /\ SameAsked(one(r), r) /\ one(r).step = r.step
             /\ one(r).unseen = r.unseen /\ one(r).raced = (r.raced \/ Pending(r))
  <2>1. (r.raced \/ Pending(r)) \in BOOLEAN
    OBVIOUS
  <2>. QED
    BY <1>1, <2>1 DEF IsCall, SameAsked
<1>2. ASSUME NEW r, IsCall(r)
      PROVE  /\ IsCall(hit(r)) /\ SameAsked(hit(r), r) /\ hit(r).step = next
             /\ hit(r).unseen = TRUE /\ hit(r).raced = r.raced
  BY <1>2 DEF IsCall, SameAsked
<1>3. /\ stored' = content /\ DOMAIN calls' = DOMAIN calls
      /\ calls'[c] = hit(calls[c])
      /\ \A d \in DOMAIN calls \ {c} : calls'[d] = one(calls[d])
  BY DEF Write, Raced
<1>. HIDE DEF one, hit
<1>4. IsCall(hit(calls[c])) /\ \A d \in DOMAIN calls \ {c} : IsCall(one(calls[d]))
  BY <1>1, <1>2 DEF CallsGood
<1>5. CallsGood'
  BY <1>3, <1>4 DEF CallsGood
<1>6. /\ calls'[c].step = next /\ calls'[c].unseen = TRUE /\ calls'[c].raced = calls[c].raced
      /\ SameAsked(calls'[c], calls[c])
  <2>1. IsCall(calls[c]) /\ calls'[c] = hit(calls[c])
    BY <1>3 DEF CallsGood
  <2>. QED
    BY <1>2, <2>1
<1>7. ASSUME NEW d \in DOMAIN calls \ {c}
      PROVE  /\ SameAsked(calls'[d], calls[d])
             /\ calls'[d].step = calls[d].step /\ calls'[d].unseen = calls[d].unseen
             /\ calls'[d].raced = (calls[d].raced \/ Pending(calls[d]))
  <2>1. IsCall(calls[d]) /\ calls'[d] = one(calls[d])
    BY <1>3 DEF CallsGood
  <2>. QED
    BY <1>1, <2>1
<1>. QED
  BY <1>3, <1>5, <1>6, <1>7

\* A step that writes nothing moves one request on.
LEMMA LookFact ==
  ASSUME CallsGood, NEW c \in DOMAIN calls, NEW next \in Stage,
         calls' = [calls EXCEPT ![c].step = next]
  PROVE  /\ CallsGood' /\ DOMAIN calls' = DOMAIN calls
         /\ calls'[c].step = next
         /\ \A d \in DOMAIN calls : /\ SameAsked(calls'[d], calls[d])
                                    /\ calls'[d].unseen = calls[d].unseen
                                    /\ calls'[d].raced = calls[d].raced
         /\ \A d \in DOMAIN calls \ {c} : calls'[d] = calls[d]
<1>. DEFINE hit(r) == [r EXCEPT !.step = next]
<1>1. ASSUME NEW r, IsCall(r)
      PROVE  /\ IsCall(hit(r)) /\ SameAsked(hit(r), r) /\ hit(r).step = next
             /\ hit(r).unseen = r.unseen /\ hit(r).raced = r.raced
  BY <1>1 DEF IsCall, SameAsked
<1>2. /\ DOMAIN calls' = DOMAIN calls /\ calls'[c] = hit(calls[c])
      /\ \A d \in DOMAIN calls \ {c} : calls'[d] = calls[d]
  OBVIOUS
<1>. HIDE DEF hit
<1>. QED
  BY <1>1, <1>2 DEF CallsGood, SameAsked

\* Another client's write.
LEMMA RacedFact ==
  ASSUME CallsGood, calls' = Raced(calls, None)
  PROVE  /\ CallsGood' /\ DOMAIN calls' = DOMAIN calls
         /\ \A d \in DOMAIN calls :
              /\ SameAsked(calls'[d], calls[d])
              /\ calls'[d].step = calls[d].step /\ calls'[d].unseen = calls[d].unseen
              /\ calls'[d].raced = (calls[d].raced \/ Pending(calls[d]))
<1>. DEFINE one(r) == [r EXCEPT !.raced = @ \/ Pending(r)]
<1>1. ASSUME NEW r, IsCall(r)
      PROVE  /\ IsCall(one(r)) /\ SameAsked(one(r), r) /\ one(r).step = r.step
             /\ one(r).unseen = r.unseen /\ one(r).raced = (r.raced \/ Pending(r))
  <2>1. (r.raced \/ Pending(r)) \in BOOLEAN
    OBVIOUS
  <2>. QED
    BY <1>1, <2>1 DEF IsCall, SameAsked
<1>2. DOMAIN calls' = DOMAIN calls /\ \A d \in DOMAIN calls : calls'[d] = one(calls[d])
  BY KeyEditingAssumption DEF Raced, CallsGood
<1>. HIDE DEF one
<1>3. CallsGood'
  BY <1>1, <1>2 DEF CallsGood
<1>4. ASSUME NEW d \in DOMAIN calls
      PROVE  /\ SameAsked(calls'[d], calls[d])
             /\ calls'[d].step = calls[d].step /\ calls'[d].unseen = calls[d].unseen
             /\ calls'[d].raced = (calls[d].raced \/ Pending(calls[d]))
  <2>1. IsCall(calls[d]) /\ calls'[d] = one(calls[d])
    BY <1>2 DEF CallsGood
  <2>. QED
    BY <1>1, <2>1
<1>. QED
  BY <1>2, <1>3, <1>4

\* The server reads the key: whatever was written so far is seen.
LEMMA ReadFact ==
  ASSUME CallsGood, Read
  PROVE  /\ CallsGood' /\ DOMAIN calls' = DOMAIN calls
         /\ \A d \in DOMAIN calls :
              /\ SameAsked(calls'[d], calls[d])
              /\ calls'[d].step = calls[d].step /\ calls'[d].raced = calls[d].raced
<1>. DEFINE seen(r) == [r EXCEPT !.unseen = FALSE]
<1>1. ASSUME NEW r, IsCall(r)
      PROVE  IsCall(seen(r)) /\ SameAsked(seen(r), r) /\ seen(r).step = r.step /\ seen(r).raced = r.raced
  BY <1>1 DEF IsCall, SameAsked
<1>2. DOMAIN calls' = DOMAIN calls /\ \A d \in DOMAIN calls : calls'[d] = seen(calls[d])
  BY DEF Read
<1>. HIDE DEF seen
<1>3. \A d \in DOMAIN calls : IsCall(calls[d])
  BY DEF CallsGood
<1>4. \A d \in DOMAIN calls :
         /\ IsCall(calls'[d]) /\ SameAsked(calls'[d], calls[d])
         /\ calls'[d].step = calls[d].step /\ calls'[d].raced = calls[d].raced
  BY <1>1, <1>2, <1>3
<1>. QED
  BY <1>2, <1>4 DEF CallsGood

\* An answer takes its request away.
LEMMA OverFact ==
  ASSUME CallsGood, NEW c, NEW op, Over(c, op)
  PROVE  CallsGood' /\ DOMAIN calls' = DOMAIN calls \ {c} /\ \A d \in DOMAIN calls' : calls'[d] = calls[d]
BY DEF Over, CallsGood

-----------------------------------------------------------------------------
(* What the tab shows.                                                      *)

\* Something was written that no read has seen yet, and an answer is to come.
Dirty == \E c \in DOMAIN calls : calls[c].unseen

ShownInv ==
  /\ CallsGood
  /\ fetch \in {"idle", "asked", "read", "gone"} /\ behind \in BOOLEAN
  /\ fetch = "idle" /\ ~behind => shown = stored \/ Dirty
  /\ fetch = "read" /\ ~behind => got = stored \/ Dirty

LEMMA InitShownInv == Init => ShownInv
<1>. SUFFICES ASSUME Init PROVE ShownInv
  OBVIOUS
<1>1. DOMAIN calls = {} /\ fetch = "asked" /\ behind = FALSE
  BY DEF Init
<1>. QED
  BY <1>1 DEF ShownInv, CallsGood

\* Steps that leave the query and what is stored, and take no request away.
LEMMA ShownFrame ==
  ASSUME ShownInv, CallsGood', UNCHANGED <<shown, fetch, got, behind, stored>>,
         \A c \in DOMAIN calls : c \in DOMAIN calls' /\ calls'[c].unseen = calls[c].unseen
  PROVE  ShownInv'
<1>1. Dirty => Dirty'
  BY DEF Dirty
<1>. QED
  BY <1>1 DEF ShownInv

LEMMA ShownWrite ==
  ASSUME ShownInv, CallsGood', NEW c \in DOMAIN calls', calls'[c].unseen = TRUE,
         UNCHANGED <<fetch, behind>>
  PROVE  ShownInv'
<1>1. Dirty'
  BY DEF Dirty
<1>. QED
  BY <1>1 DEF ShownInv

\* What becomes stale is asked for again, or known to be behind.
LEMMA ShownRefresh ==
  ASSUME ShownInv, NEW c \in DOMAIN calls, NEW op, Over(c, op), Refresh(c)
  PROVE  ShownInv'
<1>1. /\ CallsGood' /\ DOMAIN calls' = DOMAIN calls \ {c}
      /\ \A d \in DOMAIN calls' : calls'[d] = calls[d]
      /\ stored' = stored
  BY OverFact DEF ShownInv, Over, server
<1>2. CASE calls[c].step = "done"
  BY <1>1, <1>2 DEF ShownInv, Refresh, Invalidate
<1>3. CASE calls[c].step # "done"
  <2>1. behind' = (behind \/ calls[c].unseen) /\ UNCHANGED <<shown, loaded, fetch, got>>
    BY <1>3 DEF Refresh
  <2>2. calls[c].unseen \in BOOLEAN
    BY CallFields DEF ShownInv, CallsGood
  <2>3. Dirty /\ ~calls[c].unseen => Dirty'
    BY <1>1 DEF Dirty
  <2>. QED
    BY <1>1, <2>1, <2>2, <2>3 DEF ShownInv
<1>. QED
  BY <1>2, <1>3

-----------------------------------------------------------------------------
(* Lists: what SequencesExt's and Lists' operators return.                  *)

\* A set of numbers has a smallest one.
LEMMA SmallestIn == ASSUME NEW I \in SUBSET Nat, I # {} PROVE Min(I) \in I
<1>1. PICK x \in I : \A y \in I : ~(<<y, x>> \in OpToRel(<, Nat))
  BY NatLessThanWellFounded, WFMin, Zenon
<1>2. \A y \in I : ~(y < x)
  <2>. SUFFICES ASSUME NEW y \in I, y < x PROVE FALSE
    OBVIOUS
  <2>1. <<y, x>> \in Nat \X Nat /\ <<y, x>>[1] = y /\ <<y, x>>[2] = x
    OBVIOUS
  <2>2. <<y, x>> \in OpToRel(<, Nat)
    BY <2>1 DEF OpToRel
  <2>. QED
    BY <1>1, <2>2
<1>3. \A y \in I : x <= y
  BY <1>2
<1>. QED
  BY <1>3 DEF Min

LEMMA RemoveAtFact ==
  ASSUME NEW S, NEW s \in Seq(S), NEW p \in 1..Len(s)
  PROVE  /\ RemoveAt(s, p) \in Seq(S) /\ Len(RemoveAt(s, p)) = Len(s) - 1
         /\ \A i \in 1..(p - 1) : RemoveAt(s, p)[i] = s[i]
         /\ \A i \in (p + 1)..Len(s) : RemoveAt(s, p)[i - 1] = s[i]
<1>. DEFINE n == Len(s)  l == SubSeq(s, 1, p - 1)  r == SubSeq(s, p + 1, n)
<1>1. n \in Nat /\ p \in Nat /\ 1 <= p /\ p <= n /\ \A i \in 1..n : s[i] \in S
  OBVIOUS
<1>. HIDE DEF n
<1>2. /\ l \in Seq(S) /\ Len(l) = IF 1 <= p - 1 THEN p - 1 - 1 + 1 ELSE 0
      /\ \A i \in 1..(p - 1 - 1 + 1) : l[i] = s[1 + i - 1]
  BY <1>1, SubSeqProperties, 1 \in Int, p - 1 \in Int, \A i \in 1..(p - 1) : s[i] \in S
<1>3. /\ r \in Seq(S) /\ Len(r) = IF p + 1 <= n THEN n - (p + 1) + 1 ELSE 0
      /\ \A i \in 1..(n - (p + 1) + 1) : r[i] = s[p + 1 + i - 1]
  BY <1>1, SubSeqProperties, p + 1 \in Int, n \in Int, \A i \in (p + 1)..n : s[i] \in S
<1>. HIDE DEF l, r
<1>4. /\ l \o r \in Seq(S) /\ Len(l \o r) = Len(l) + Len(r)
      /\ \A i \in 1..(Len(l) + Len(r)) : (l \o r)[i] = IF i <= Len(l) THEN l[i] ELSE r[i - Len(l)]
  BY <1>2, <1>3, ConcatProperties
<1>5. RemoveAt(s, p) = l \o r
  BY DEF RemoveAt, l, r, n
<1>6. Len(l) = p - 1 /\ Len(r) = n - p
  BY <1>1, <1>2, <1>3
<1>7. ASSUME NEW i \in 1..(p - 1) PROVE (l \o r)[i] = s[i]
  BY <1>1, <1>2, <1>4, <1>6
<1>8. ASSUME NEW i \in (p + 1)..n PROVE (l \o r)[i - 1] = s[i]
  <2>1. i - 1 \in 1..(Len(l) + Len(r)) /\ ~(i - 1 <= Len(l)) /\ i - 1 - Len(l) = i - p
    BY <1>1, <1>6
  <2>2. r[i - p] = s[p + 1 + (i - p) - 1] /\ p + 1 + (i - p) - 1 = i
    BY <1>1, <1>3
  <2>. QED
    BY <1>4, <2>1, <2>2
<1>9. Len(l \o r) = n - 1 /\ n = Len(s)
  BY <1>1, <1>4, <1>6 DEF n
<1>. QED
  BY <1>4, <1>5, <1>7, <1>8, <1>9, Zenon

LEMMA InsertAtFact ==
  ASSUME NEW S, NEW s \in Seq(S), NEW p \in 1..(Len(s) + 1), NEW e \in S
  PROVE  InsertAt(s, p, e) \in Seq(S) /\ Len(InsertAt(s, p, e)) = Len(s) + 1
<1>. DEFINE n == Len(s)  l == SubSeq(s, 1, p - 1)  r == SubSeq(s, p, n)
<1>1. n \in Nat /\ p \in Nat /\ 1 <= p /\ p <= n + 1 /\ \A i \in 1..n : s[i] \in S
  OBVIOUS
<1>. HIDE DEF n
<1>2. l \in Seq(S) /\ Len(l) = IF 1 <= p - 1 THEN p - 1 - 1 + 1 ELSE 0
  BY <1>1, SubSeqProperties, 1 \in Int, p - 1 \in Int, \A i \in 1..(p - 1) : s[i] \in S
<1>3. r \in Seq(S) /\ Len(r) = IF p <= n THEN n - p + 1 ELSE 0
  BY <1>1, SubSeqProperties, p \in Int, n \in Int, \A i \in p..n : s[i] \in S
<1>4. << e >> \in Seq(S) /\ Len(<< e >>) = 1
  OBVIOUS
<1>. HIDE DEF l, r
<1>5. l \o << e >> \in Seq(S) /\ Len(l \o << e >>) = Len(l) + 1
  BY <1>2, <1>4, ConcatProperties
<1>6. (l \o << e >>) \o r \in Seq(S) /\ Len((l \o << e >>) \o r) = Len(l) + 1 + Len(r)
  BY <1>3, <1>5, ConcatProperties
<1>7. Len(l) = p - 1 /\ Len(r) = n - p + 1
  BY <1>1, <1>2, <1>3
<1>8. InsertAt(s, p, e) = (l \o << e >>) \o r
  BY DEF InsertAt, l, r, n
<1>. QED
  BY <1>1, <1>6, <1>7, <1>8 DEF n

LEMMA RemoveFirstFact ==
  ASSUME NEW S, NEW s \in Seq(S), NEW e
  PROVE  \/ RemoveFirst(s, e) = s
         \/ \E p \in 1..Len(s) : s[p] = e /\ RemoveFirst(s, e) = RemoveAt(s, p)
<1>. DEFINE I == {i \in 1..Len(s) : s[i] = e}
<1>1. CASE I = {}
  BY <1>1 DEF RemoveFirst
<1>2. CASE I # {}
  <2>1. Min(I) \in I
    BY <1>2, SmallestIn, I \in SUBSET Nat
  <2>2. RemoveFirst(s, e) = RemoveAt(s, Min(I))
    BY <1>2 DEF RemoveFirst, SelectInSeq
  <2>. QED
    BY <2>1, <2>2
<1>. QED
  BY <1>1, <1>2

LEMMA ReverseFact ==
  ASSUME NEW S, NEW s \in Seq(S)
  PROVE  Reverse(s) \in Seq(S) /\ Len(Reverse(s)) = Len(s)
BY DEF Reverse

\* Keeping everything changes nothing.
LEMMA KeepAll == ASSUME NEW S, NEW s \in Seq(S) PROVE Keep(s, DOMAIN s) = s
<1>. DEFINE n == Len(s)
<1>1. n \in Nat /\ DOMAIN s = 1..n
  OBVIOUS
<1>. HIDE DEF n
<1>2. Cardinality(1..n) = n
  BY <1>1, FS_Interval
<1>3. ASSUME NEW i \in 1..n PROVE Cardinality({j \in 1..n : j <= i}) = i
  <2>1. {j \in 1..n : j <= i} = 1..i
    BY <1>1
  <2>2. i \in Nat /\ 1 \in Int /\ i \in Int /\ 1 <= i
    BY <1>1
  <2>3. Cardinality(1..i) = i
    BY <2>2, FS_Interval
  <2>. QED
    BY <2>1, <2>3, Zenon
<1>4. \A k \in 1..n : Nth(1..n, k) = k
  BY <1>3, Zenon DEF Nth
<1>5. Keep(s, 1..n) = [k \in 1..n |-> s[k]]
  BY <1>2, <1>4 DEF Keep
<1>. QED
  BY <1>1, <1>5

\* A sequence, of whatever elements.
IsList(s) == s \in Seq({s[i] : i \in DOMAIN s})

LEMMA IsListFact ==
  ASSUME NEW s
  PROVE  /\ \A S : s \in Seq(S) => IsList(s)
         /\ IsList(s) => Len(s) \in Nat /\ DOMAIN s = 1..Len(s)
<1>1. ASSUME NEW S, s \in Seq(S) PROVE IsList(s)
  BY <1>1 DEF IsList
<1>2. IsList(s) => Len(s) \in Nat /\ DOMAIN s = 1..Len(s)
  BY DEF IsList
<1>. QED
  BY <1>1, <1>2

\* If every place of v in s has one of its own in t, t has as many of them.
LEMMA CountAtMost ==
  ASSUME NEW s, IsList(s), NEW t, IsList(t), NEW v,
         NEW f \in [{i \in DOMAIN s : s[i] = v} -> {i \in DOMAIN t : t[i] = v}],
         \A i, j \in {i \in DOMAIN s : s[i] = v} : i # j => f[i] # f[j]
  PROVE  ~(Count(s, v) > Count(t, v))
<1>. DEFINE A == {i \in DOMAIN s : s[i] = v}
            B == {i \in DOMAIN t : t[i] = v}
<1>1. DOMAIN t = 1..Len(t) /\ Len(t) \in Nat
  BY IsListFact
<1>2. IsFiniteSet(1..Len(t))
  BY <1>1, FS_Interval, 1 \in Int, Len(t) \in Int
<1>3. IsFiniteSet(B)
  BY <1>1, <1>2, FS_Subset, B \in SUBSET (1..Len(t))
<1>4. f \in Injection(A, B)
  BY Zenon DEF Injection, IsInjective
<1>. HIDE DEF A, B
<1>5. IsFiniteSet(A) /\ Cardinality(A) <= Cardinality(B)
  BY <1>3, <1>4, FS_Injection
<1>6. Cardinality(A) \in Nat /\ Cardinality(B) \in Nat
  BY <1>3, <1>5, FS_CardinalityType
<1>. QED
  BY <1>5, <1>6 DEF Count, A, B

\* Setting one element loses at most the one that was there.
LEMMA ReplaceLoses ==
  ASSUME NEW s, IsList(s), NEW p \in DOMAIN s, NEW x
  PROVE  /\ IsList([s EXCEPT ![p] = x])
         /\ \A v : v # s[p] => ~(Count(s, v) > Count([s EXCEPT ![p] = x], v))
<1>. DEFINE t == [s EXCEPT ![p] = x]  S == {s[i] : i \in DOMAIN s} \cup {x}
<1>1. s \in Seq(S)
  BY DEF IsList
<1>2. t \in Seq(S)
  BY <1>1
<1>3. IsList(t)
  BY <1>2, IsListFact
<1>4. ASSUME NEW v, v # s[p] PROVE ~(Count(s, v) > Count(t, v))
  <2>. DEFINE f == [i \in {i \in DOMAIN s : s[i] = v} |-> i]
  <2>1. f \in [{i \in DOMAIN s : s[i] = v} -> {i \in DOMAIN t : t[i] = v}]
    BY <1>4
  <2>2. \A i, j \in {i \in DOMAIN s : s[i] = v} : i # j => f[i] # f[j]
    OBVIOUS
  <2>. HIDE DEF f, t
  <2>. QED
    BY <1>3, <2>1, <2>2, CountAtMost
<1>. QED
  BY <1>3, <1>4

\* Removing one element loses only that.
LEMMA RemoveLoses ==
  ASSUME NEW s, IsList(s), NEW p \in DOMAIN s
  PROVE  /\ IsList(RemoveAt(s, p))
         /\ \A v : v # s[p] => ~(Count(s, v) > Count(RemoveAt(s, p), v))
<1>. DEFINE t == RemoveAt(s, p)  S == {s[i] : i \in DOMAIN s}
<1>1. s \in Seq(S) /\ Len(s) \in Nat /\ DOMAIN s = 1..Len(s) /\ p \in 1..Len(s)
  BY IsListFact DEF IsList
<1>2. /\ t \in Seq(S) /\ Len(t) = Len(s) - 1
      /\ \A i \in 1..(p - 1) : t[i] = s[i]
      /\ \A i \in (p + 1)..Len(s) : t[i - 1] = s[i]
  BY <1>1, RemoveAtFact
<1>. HIDE DEF t
<1>3. IsList(t) /\ DOMAIN t = 1..(Len(s) - 1)
  BY <1>2, IsListFact
<1>4. ASSUME NEW v, v # s[p] PROVE ~(Count(s, v) > Count(t, v))
  <2>. DEFINE f == [i \in {i \in DOMAIN s : s[i] = v} |-> IF i < p THEN i ELSE i - 1]
  <2>1. ASSUME NEW i \in DOMAIN s, s[i] = v
        PROVE  (IF i < p THEN i ELSE i - 1) \in {k \in DOMAIN t : t[k] = v}
    <3>1. CASE i < p
      <4>1. i \in 1..(p - 1) /\ i \in 1..(Len(s) - 1)
        BY <1>1, <2>1, <3>1
      <4>. QED
        BY <1>2, <1>3, <2>1, <3>1, <4>1
    <3>2. CASE ~(i < p)
      <4>1. i \in (p + 1)..Len(s) /\ i - 1 \in 1..(Len(s) - 1)
        BY <1>1, <1>4, <2>1, <3>2
      <4>. QED
        BY <1>2, <1>3, <2>1, <3>2, <4>1
    <3>. QED
      BY <3>1, <3>2
  <2>2. f \in [{i \in DOMAIN s : s[i] = v} -> {i \in DOMAIN t : t[i] = v}]
    BY <2>1
  <2>3. \A i, j \in {i \in DOMAIN s : s[i] = v} : i # j => f[i] # f[j]
    BY <1>1, <1>4
  <2>. HIDE DEF f
  <2>. QED
    BY <1>3, <2>2, <2>3, CountAtMost
<1>. QED
  BY <1>3, <1>4 DEF t

\* Rows that are put in front lose nothing.
LEMMA PrependLoses ==
  ASSUME NEW s, IsList(s), NEW t, IsList(t)
  PROVE  IsList(t \o s) /\ \A v : ~(Count(s, v) > Count(t \o s, v))
<1>. DEFINE S == {s[i] : i \in DOMAIN s} \cup {t[i] : i \in DOMAIN t}  n == Len(t)
<1>1. s \in Seq(S) /\ t \in Seq(S) /\ Len(s) \in Nat /\ DOMAIN s = 1..Len(s) /\ n \in Nat
  BY IsListFact DEF IsList
<1>. HIDE DEF S
<1>2. /\ t \o s \in Seq(S) /\ Len(t \o s) = n + Len(s)
      /\ \A i \in 1..(n + Len(s)) : (t \o s)[i] = IF i <= n THEN t[i] ELSE s[i - n]
  BY <1>1, ConcatProperties
<1>3. IsList(t \o s) /\ DOMAIN (t \o s) = 1..(n + Len(s))
  BY <1>2, IsListFact
<1>. HIDE DEF n
<1>4. ASSUME NEW v PROVE ~(Count(s, v) > Count(t \o s, v))
  <2>. DEFINE f == [i \in {i \in DOMAIN s : s[i] = v} |-> i + n]
  <2>1. f \in [{i \in DOMAIN s : s[i] = v} -> {i \in DOMAIN (t \o s) : (t \o s)[i] = v}]
    <3>1. ASSUME NEW i \in 1..Len(s)
          PROVE  i + n \in 1..(n + Len(s)) /\ (t \o s)[i + n] = s[i]
      BY <1>1, <1>2
    <3>. QED
      BY <1>1, <1>3, <3>1
  <2>2. \A i, j \in {i \in DOMAIN s : s[i] = v} : i # j => f[i] # f[j]
    BY <1>1
  <2>. HIDE DEF f
  <2>. QED
    BY <1>3, <2>1, <2>2, CountAtMost
<1>. QED
  BY <1>3, <1>4

LEMMA NothingIsLess == ASSUME NEW s, IsList(s), NEW v PROVE ~(Count(s, v) > Count(s, v))
<1>. DEFINE A == {i \in DOMAIN s : s[i] = v}  f == [i \in A |-> i]
<1>1. f \in [A -> A] /\ \A i, j \in A : i # j => f[i] # f[j]
  OBVIOUS
<1>. HIDE DEF f
<1>. QED
  BY <1>1, CountAtMost

\* LREM of e loses nothing else.
LEMMA RemoveFirstLoses ==
  ASSUME NEW s, IsList(s), NEW e
  PROVE  /\ IsList(RemoveFirst(s, e))
         /\ \A v : v # e => ~(Count(s, v) > Count(RemoveFirst(s, e), v))
<1>1. \A v : ~(Count(s, v) > Count(s, v))
  BY NothingIsLess
<1>2. s \in Seq({s[i] : i \in DOMAIN s}) /\ DOMAIN s = 1..Len(s)
  BY IsListFact DEF IsList
<1>3. \/ RemoveFirst(s, e) = s
      \/ \E p \in 1..Len(s) : s[p] = e /\ RemoveFirst(s, e) = RemoveAt(s, p)
  BY <1>2, RemoveFirstFact, Zenon
<1>. QED
  BY <1>1, <1>2, <1>3, RemoveLoses

-----------------------------------------------------------------------------
(* The steps, for ShownIsStored.                                            *)

\* Whoever starts a request leaves the query and what is stored.
LEMMA StartShown ==
  ASSUME ShownInv, NEW r, IsCall(r), Start(r), UNCHANGED <<server, query>>
  PROVE  ShownInv'
<1>1. CallsGood' /\ \A d \in DOMAIN calls : d \in DOMAIN calls' /\ calls'[d] = calls[d]
  BY StartFact DEF ShownInv
<1>. QED
  BY <1>1, ShownFrame DEF server, query

LEMMA QuietShown ==
  ASSUME ShownInv, UNCHANGED <<server, query, calls>>
  PROVE  ShownInv'
BY ShownFrame DEF server, query, ShownInv, CallsGood

LEMMA UserShown == ASSUME ShownInv, User PROVE ShownInv'
<1>1. CASE Reload
  BY <1>1 DEF ShownInv, CallsGood, Reload, Invalidate, Dirty, server
<1>2. CASE \/ Dismiss \/ ConfirmedForNothing \/ CloseDrawer
           \/ \E id \in DOMAIN shown : AskDelete(id) \/ Edit(id)
           \/ InsertDrawer \/ \E v \in Word \cup {Blank} : Type(v)
  <2>1. UNCHANGED <<server, query, calls>>
    BY <1>2, Zenon DEF Dismiss, ConfirmedForNothing, CloseDrawer, AskDelete, Edit, InsertDrawer,
                OpenInsert, CloseInsert, EditGrid, Type
  <2>. QED
    BY <2>1, QuietShown
<1>3. CASE \E first \in {"check", "remove"} : DeleteRequest(first)
  <2>1. PICK first \in {"check", "remove"} : DeleteRequest(first)
    BY <1>3
  <2>2. IsCall(Request("delete", ask.id, ask.val, None, first))
    BY RequestIsCall, Zenon DEF Op, Stage
  <2>. QED
    BY <2>1, <2>2, StartShown DEF DeleteRequest
<1>4. CASE \E name, v : Save(name, v)
  <2>1. PICK val, new, first : first \in {"check", "set"} /\ SaveRequest(val, new, first)
    BY <1>4, Zenon DEF Save
  <2>2. IsCall(Request("update", drawer.id, val, new, first))
    BY <2>1, RequestIsCall, Zenon DEF Op, Stage
  <2>. QED
    BY <2>1, <2>2, StartShown DEF SaveRequest
<1>5. CASE Insert
  <2>1. IsCall(Request("insert", None, Sent(kind, grid.form), None, "write"))
    BY RequestIsCall, Zenon DEF Op, Stage
  <2>. QED
    BY <1>5, <2>1, StartShown DEF Insert
<1>6. CASE AddKey
  <2>1. PICK val, new : Start(Request("create", None, val, new, "write"))
    BY <1>6, Zenon DEF AddKey
  <2>2. IsCall(Request("create", None, val, new, "write"))
    BY RequestIsCall, Zenon DEF Op, Stage
  <2>. QED
    BY <1>6, <2>1, <2>2, StartShown DEF AddKey
<1>7. CASE SaveText
  <2>1. IsCall(Request("text", Text, text.value, None, "write"))
    BY RequestIsCall, Zenon DEF Op, Stage
  <2>. QED
    BY <1>7, <2>1, StartShown DEF SaveText
<1>. QED
  BY <1>1, <1>2, <1>3, <1>4, <1>5, <1>6, <1>7, Zenon
     DEF User, ItemDel, FieldDel, MemberDel, ZsetMemberDel, EntryDel,
         ListRow, HashRow, SetRow, ZsetRow, StreamRow,
         ListDrawer, HashDrawer, SetDrawer, ZsetDrawer, StreamDrawer,
         ListSubmit, HashSubmit, SetSubmit, ZsetSubmit, StreamSubmit

\* What the commands of a request do to it, and to what is stored.
WritesOrLooks(c) ==
  \/ \E content, next : next \in Stage /\ Write(c, content, next)
  \/ UNCHANGED stored /\ \E next : next \in Stage /\ calls' = [calls EXCEPT ![c].step = next]

LEMMA LookLooks ==
  ASSUME NEW c, NEW good, NEW next \in Stage, Look(c, good, next)
  PROVE  WritesOrLooks(c)
<1>. DEFINE to == IF good THEN next ELSE "error"
<1>1. to \in Stage
  BY DEF Stage
<1>2. calls' = [calls EXCEPT ![c].step = to] /\ UNCHANGED stored
  BY DEF Look
<1>. QED
  BY <1>1, <1>2, Zenon DEF WritesOrLooks

LEMMA WriteWrites ==
  ASSUME NEW c, NEW content, NEW next \in Stage, Write(c, content, next)
  PROVE  WritesOrLooks(c)
BY DEF WritesOrLooks

LEMMA StageValues ==
  /\ "check" \in Stage /\ "mark" \in Stage /\ "set" \in Stage /\ "add" \in Stage
  /\ "remove" \in Stage /\ "write" \in Stage /\ "done" \in Stage /\ "error" \in Stage
BY DEF Stage

LEMMA SetItemWritesOrLooks ==
  ASSUME NEW c, NEW v, NEW next \in Stage, SetItem(c, v, next)
  PROVE  WritesOrLooks(c)
BY LookLooks, WriteWrites, StageValues, Zenon DEF SetItem

LEMMA ServerWritesOrLooks ==
  ASSUME NEW c \in DOMAIN calls,
         \/ ListItemDel(c) \/ RowDel(c) \/ ListItemUpdate(c) \/ RowUpdate(c)
         \/ KeyCreate(c) \/ KeyCreateOther(c) \/ KeyValueUpdate(c) \/ WrongType(c)
  PROVE  WritesOrLooks(c) /\ UNCHANGED query
<1>1. ASSUME ListItemDel(c) PROVE WritesOrLooks(c)
  BY <1>1, LookLooks, WriteWrites, SetItemWritesOrLooks, StageValues, Zenon DEF ListItemDel
<1>2. ASSUME RowDel(c) PROVE WritesOrLooks(c)
  BY <1>2, LookLooks, WriteWrites, StageValues, Zenon DEF RowDel
<1>3. ASSUME ListItemUpdate(c) PROVE WritesOrLooks(c)
  BY <1>3, LookLooks, SetItemWritesOrLooks, StageValues, Zenon DEF ListItemUpdate
<1>4. ASSUME RowUpdate(c) PROVE WritesOrLooks(c)
  <2>1. (IF calls[c].new = calls[c].id THEN "done" ELSE "add") \in Stage
    BY StageValues, Zenon
  <2>. QED
    BY <1>4, <2>1, LookLooks, WriteWrites, StageValues, Zenon DEF RowUpdate
<1>5. ASSUME KeyCreate(c) PROVE WritesOrLooks(c)
  BY <1>5, LookLooks, WriteWrites, StageValues, Zenon DEF KeyCreate
<1>6. ASSUME KeyValueUpdate(c) PROVE WritesOrLooks(c)
  BY <1>6, WriteWrites, StageValues, Zenon DEF KeyValueUpdate
<1>7. ASSUME KeyCreateOther(c) PROVE WritesOrLooks(c)
  BY <1>7, LookLooks, WriteWrites, StageValues, Zenon DEF KeyCreateOther
<1>8. ASSUME WrongType(c) PROVE WritesOrLooks(c)
  BY <1>8, LookLooks, StageValues, Zenon DEF WrongType
<1>9. UNCHANGED query
  BY Zenon DEF ListItemDel, RowDel, ListItemUpdate, RowUpdate, KeyCreate, KeyCreateOther,
       KeyValueUpdate, WrongType, ServerStep, ServerOnly
<1>. QED
  BY <1>1, <1>2, <1>3, <1>4, <1>5, <1>6, <1>7, <1>8, <1>9, Zenon

LEMMA ServerShown == ASSUME ShownInv, Server PROVE ShownInv'
<1>1. CASE Read
  <2>1. CallsGood'
    BY <1>1, ReadFact DEF ShownInv
  <2>. QED
    BY <1>1, <2>1 DEF ShownInv, Read, server
<1>2. CASE Another
  <2>1. CallsGood'
    BY <1>2, RacedFact DEF ShownInv, Another
  <2>. QED
    BY <1>2, <2>1 DEF ShownInv, Another
<1>3. ASSUME NEW c \in DOMAIN calls, WritesOrLooks(c), UNCHANGED query PROVE ShownInv'
  <2>1. CASE \E content, next : next \in Stage /\ Write(c, content, next)
    <3>1. CallsGood' /\ c \in DOMAIN calls' /\ calls'[c].unseen = TRUE
      BY <2>1, WriteFact, Zenon DEF ShownInv
    <3>. QED
      BY <1>3, <3>1, ShownWrite DEF query
  <2>2. CASE UNCHANGED stored /\ \E next : next \in Stage /\ calls' = [calls EXCEPT ![c].step = next]
    <3>1. CallsGood' /\ \A d \in DOMAIN calls : d \in DOMAIN calls' /\ calls'[d].unseen = calls[d].unseen
      BY <2>2, LookFact, Zenon DEF ShownInv
    <3>. QED
      BY <1>3, <2>2, <3>1, ShownFrame DEF query
  <2>. QED
    BY <1>3, <2>1, <2>2 DEF WritesOrLooks
<1>4. ASSUME NEW c \in DOMAIN calls, CallFails(c) PROVE WritesOrLooks(c) /\ UNCHANGED query
  BY <1>4, StageValues, Zenon DEF CallFails, WritesOrLooks, server
<1>. QED
  BY <1>1, <1>2, <1>3, <1>4, ServerWritesOrLooks, Zenon DEF Server

LEMMA AnswersShown == ASSUME ShownInv, Answers PROVE ShownInv'
<1>1. CASE Fetched
  BY <1>1 DEF ShownInv, CallsGood, Fetched, Dirty, server
<1>2. CASE FetchFailed \/ Retyped
  BY <1>2 DEF ShownInv, CallsGood, FetchFailed, Retyped, Dirty, server
<1>3. ASSUME NEW c \in DOMAIN calls,
             \/ Deleted(c) \/ Saved(c) \/ InsertSaved(c) \/ Created(c) \/ TextSaved(c)
      PROVE  ShownInv'
  BY <1>3, ShownRefresh, Zenon DEF Deleted, Saved, InsertSaved, Created, TextSaved
<1>. QED
  BY <1>1, <1>2, <1>3, Zenon DEF Answers

\* ShownInv holds in every reachable state: between a write a handler of
\* internal/logic/key has made and the refetch its answer starts in
\* connection-detail-tab-key-detail.tsx, the tab is dirty.
THEOREM ShownInductive == Spec => []ShownInv
<1>1. ASSUME ShownInv, UNCHANGED vars PROVE ShownInv'
  BY <1>1, QuietShown, Zenon DEF vars
<1>2. ShownInv /\ [Next]_vars => ShownInv'
  BY <1>1, UserShown, ServerShown, AnswersShown, Zenon DEF Next
<1>. QED
  BY <1>2, InitShownInv, PTL DEF Spec

\* With nothing in flight nothing is dirty, so what a tab that is not behind
\* shows is what the server holds.
THEOREM ShownHolds == Spec => []ShownIsStored
<1>1. ShownInv => ShownIsStored
  <2>1. calls = << >> => ~Dirty
    BY DEF Dirty
  <2>. QED
    BY <2>1 DEF ShownInv, ShownIsStored
<1>. QED
  BY <1>1, ShownInductive, PTL

-----------------------------------------------------------------------------
(* The editors.                                                             *)

Cell == Word \cup {Blank, Space, Object, Undefined}
GridRow == [a : Cell, b : Cell]

\* The one row of a form that nothing was inserted into holds no undefined
\* field, and is the row of the inputs once a value was typed into it.  The
\* inputs of a stream always are its form.
Whole(g) ==
  /\ DOMAIN g.form = {1}
  /\ Undefined \notin {g.form[1].a, g.form[1].b}
  /\ g.screen[1].b # Blank => g.screen[1] = g.form[1]

GridGood(k, g) ==
  /\ g \in [form : Seq(GridRow), screen : Seq(GridRow), moved : BOOLEAN]
  /\ Len(g.form) = Len(g.screen) /\ Len(g.form) > 0
  /\ ~g.moved => Whole(g)
  /\ k = "stream" =>
       /\ g.screen = g.form
       /\ \A i \in DOMAIN g.form : Undefined \notin {g.form[i].a, g.form[i].b}

TextGood(t) ==
  /\ t \in [screen : {t.screen}, value : {t.value}, changed : BOOLEAN,
            loading : BOOLEAN, apart : BOOLEAN]
  /\ ~t.apart => t.value = t.screen

EditorsInv == kind \in Kind /\ (~IsText => GridGood(kind, grid)) /\ TextGood(text)

-----------------------------------------------------------------------------
(* What is lost.                                                            *)

\* The stage a request is in says what it has seen, unless it was overtaken.
InStage(k, content, r) ==
  /\ r.op = "text" => k \in {"string", "rejson-rl"}
  /\ k = "list" /\ r.op \in {"insert", "create"} => IsList(r.val)
  /\ k = "list" /\ r.step \in {"mark", "set"} /\ ~r.raced =>
       r.id \in DOMAIN content /\ content[r.id] = r.val
  /\ k # "list" /\ r.op = "update" /\ r.step \in {"add", "remove"} => r.new # r.id
  /\ k # "list" /\ r.op = "update" /\ r.step = "remove" /\ ~r.raced => r.new \in DOMAIN content

LostInv ==
  /\ CallsGood /\ steps \in Nat
  /\ kind = "list" => IsList(stored)
  /\ IsText => DOMAIN stored \subseteq {Text}
  /\ \A c \in DOMAIN calls : InStage(kind, stored, calls[c])

-----------------------------------------------------------------------------
(* The operations of the editors.                                           *)

RowKind == {"list", "hash", "set", "zset", "stream"}

LEMMA EditorFact ==
  ASSUME NEW k \in RowKind
  PROVE  /\ EditorOf(k).start \in GridRow /\ EditorOf(k).blank \in GridRow
         /\ EditorOf(k).first
         /\ (k = "stream" => EditorOf(k).second) /\ (k # "stream" => ~EditorOf(k).second)
         /\ Undefined \notin {EditorOf(k).start.a, EditorOf(k).start.b}
         /\ k = "stream" => Undefined \notin {EditorOf(k).blank.a, EditorOf(k).blank.b}
<1>1. \A a, b \in Cell : Row(a, b) \in GridRow /\ Row(a, b).a = a /\ Row(a, b).b = b
  BY DEF Row, GridRow
<1>2. /\ Blank \in Cell /\ Space \in Cell /\ Object \in Cell /\ Undefined \in Cell
      /\ Undefined \notin {Blank, Space}
  BY GridAssumption DEF Cell
<1>3. CASE k = "list" \/ k = "set"
  <2>1. EditorOf(k) = ListEditor
    BY <1>3 DEF EditorOf, ListEditor, SetEditor
  <2>2. EditorOf(k).first /\ ~EditorOf(k).second /\ k # "stream"
    BY <1>3, <2>1 DEF ListEditor
  <2>3. EditorOf(k).start = Row(Blank, Space) /\ EditorOf(k).blank = Row(Blank, Object)
    BY <2>1 DEF ListEditor
  <2>4. /\ EditorOf(k).start \in GridRow /\ EditorOf(k).blank \in GridRow
        /\ Undefined \notin {EditorOf(k).start.a, EditorOf(k).start.b}
        /\ k = "stream" => Undefined \notin {EditorOf(k).blank.a, EditorOf(k).blank.b}
    BY <1>1, <1>2, <1>3, <2>3
  <2>. QED
    BY <2>2, <2>4, Zenon
<1>4. CASE k = "hash"
  <2>1. EditorOf(k).first /\ ~EditorOf(k).second /\ k # "stream"
    BY <1>4 DEF EditorOf, HashEditor
  <2>2. EditorOf(k).start = Row(Blank, Blank) /\ EditorOf(k).blank = Row(Blank, Blank)
    BY <1>4 DEF EditorOf, HashEditor
  <2>3. /\ EditorOf(k).start \in GridRow /\ EditorOf(k).blank \in GridRow
        /\ Undefined \notin {EditorOf(k).start.a, EditorOf(k).start.b}
        /\ k = "stream" => Undefined \notin {EditorOf(k).blank.a, EditorOf(k).blank.b}
    BY <1>1, <1>2, <1>4, <2>2
  <2>. QED
    BY <2>1, <2>3, Zenon
<1>5. CASE k = "zset"
  <2>1. EditorOf(k).first /\ ~EditorOf(k).second /\ k # "stream"
    BY <1>5 DEF EditorOf, ZsetEditor
  <2>2. EditorOf(k).start = Row(Blank, Blank) /\ EditorOf(k).blank = Row(Undefined, Undefined)
    BY <1>5 DEF EditorOf, ZsetEditor
  <2>3. /\ EditorOf(k).start \in GridRow /\ EditorOf(k).blank \in GridRow
        /\ Undefined \notin {EditorOf(k).start.a, EditorOf(k).start.b}
        /\ k = "stream" => Undefined \notin {EditorOf(k).blank.a, EditorOf(k).blank.b}
    BY <1>1, <1>2, <1>5, <2>2
  <2>. QED
    BY <2>1, <2>3, Zenon
<1>6. CASE k = "stream"
  <2>1. EditorOf(k).first /\ EditorOf(k).second
    BY <1>6 DEF EditorOf, StreamEditor
  <2>2. EditorOf(k).start = Row(Blank, Blank) /\ EditorOf(k).blank = Row(Blank, Blank)
    BY <1>6 DEF EditorOf, StreamEditor
  <2>3. /\ EditorOf(k).start \in GridRow /\ EditorOf(k).blank \in GridRow
        /\ Undefined \notin {EditorOf(k).start.a, EditorOf(k).start.b}
        /\ k = "stream" => Undefined \notin {EditorOf(k).blank.a, EditorOf(k).blank.b}
    BY <1>1, <1>2, <2>2
  <2>. QED
    BY <1>6, <2>1, <2>3, Zenon
<1>. QED
  BY <1>3, <1>4, <1>5, <1>6 DEF RowKind

LEMMA RedrawFact ==
  ASSUME NEW k \in RowKind, NEW form \in Seq(GridRow), NEW old \in Seq(GridRow)
  PROVE  /\ Redraw(k, form, old) \in Seq(GridRow) /\ Len(Redraw(k, form, old)) = Len(form)
         /\ k = "stream" /\ (\A i \in DOMAIN form : Undefined \notin {form[i].a, form[i].b})
              => Redraw(k, form, old) = form
<1>. DEFINE was(i) == IF i \in DOMAIN old THEN old[i] ELSE Row(Blank, Blank)
            row(i) == Row(GridInput(EditorOf(k).first, form[i].a, was(i).a),
                          GridInput(EditorOf(k).second, form[i].b, was(i).b))
<1>1. Redraw(k, form, old) = [i \in DOMAIN form |-> row(i)]
  BY DEF Redraw
<1>2. DOMAIN form = 1..Len(form) /\ Len(form) \in Nat /\ \A i \in DOMAIN form : form[i] \in GridRow
  OBVIOUS
<1>3. ASSUME NEW i \in DOMAIN form PROVE row(i) \in GridRow
  <2>1. was(i) \in GridRow
    <3>1. Row(Blank, Blank) \in GridRow
      BY DEF Row, GridRow, Cell
    <3>2. i \in DOMAIN old => old[i] \in GridRow
      OBVIOUS
    <3>. QED
      BY <3>1, <3>2
  <2>. HIDE DEF was
  <2>. QED
    BY <1>2, <2>1 DEF GridInput, Row, GridRow
<1>4. ASSUME k = "stream", NEW i \in DOMAIN form, Undefined \notin {form[i].a, form[i].b}
      PROVE  row(i) = form[i]
  <2>1. row(i) = Row(form[i].a, form[i].b)
    BY <1>4, EditorFact DEF GridInput
  <2>2. form[i] \in GridRow
    BY <1>2
  <2>. QED
    BY <2>1, <2>2 DEF Row, GridRow
<1>. HIDE DEF row
<1>5. [i \in DOMAIN form |-> row(i)] \in Seq(GridRow)
  BY <1>2, <1>3
<1>6. k = "stream" /\ (\A i \in DOMAIN form : Undefined \notin {form[i].a, form[i].b})
        => [i \in DOMAIN form |-> row(i)] = form
  BY <1>2, <1>4
<1>. QED
  BY <1>1, <1>2, <1>5, <1>6

\* Rows drawn anew, moved or with an untouched form.
LEMMA RowsGood ==
  ASSUME NEW k \in RowKind, NEW form \in Seq(GridRow), NEW old \in Seq(GridRow), Len(form) > 0,
         k = "stream" => \A i \in DOMAIN form : Undefined \notin {form[i].a, form[i].b}
  PROVE  GridGood(k, Rows(k, form, old, TRUE))
BY RedrawFact, Zenon DEF GridGood, Rows

\* An editor as it first appears: nothing shows but what the user will type.
LEMMA FreshGood == ASSUME NEW k \in RowKind PROVE GridGood(k, FreshGrid(k))
<1>. DEFINE start == EditorOf(k).start  form == << start >>  g == FreshGrid(k)
<1>1. /\ start \in GridRow /\ EditorOf(k).first
      /\ (k = "stream" => EditorOf(k).second) /\ (k # "stream" => ~EditorOf(k).second)
      /\ Undefined \notin {start.a, start.b}
  BY EditorFact
<1>. HIDE DEF start
<1>2. form \in Seq(GridRow) /\ << >> \in Seq(GridRow) /\ Len(form) = 1 /\ DOMAIN form = {1} /\ form[1] = start
  BY <1>1
<1>3. g = [form |-> form, screen |-> Redraw(k, form, << >>), moved |-> FALSE]
  BY DEF FreshGrid, Rows, start
<1>4. /\ Redraw(k, form, << >>) \in Seq(GridRow) /\ Len(Redraw(k, form, << >>)) = 1
      /\ k = "stream" => Redraw(k, form, << >>) = form
  <2>1. \A i \in DOMAIN form : Undefined \notin {form[i].a, form[i].b}
    BY <1>1, <1>2
  <2>. HIDE DEF form
  <2>. QED
    BY <1>2, <2>1, RedrawFact
<1>5. Redraw(k, form, << >>)[1] = Row(start.a, IF k = "stream" THEN start.b ELSE Blank)
  BY <1>1, <1>2 DEF Redraw, GridInput, Row
<1>. HIDE DEF form, g
<1>6. Whole(g)
  <2>1. Row(start.a, Blank).b = Blank
    BY DEF Row
  <2>2. Redraw(k, form, << >>)[1].b # Blank => Redraw(k, form, << >>)[1] = form[1]
    BY <1>2, <1>4, <1>5, <2>1
  <2>3. g.form = form /\ g.screen = Redraw(k, form, << >>)
    BY <1>3
  <2>. QED
    BY <1>1, <1>2, <2>2, <2>3 DEF Whole
<1>. DEFINE screen == Redraw(k, form, << >>)
<1>7. /\ g.form = form /\ g.screen = screen /\ g.moved = FALSE
      /\ g = [form |-> form, screen |-> screen, moved |-> FALSE]
  BY <1>3
<1>8. screen \in Seq(GridRow) /\ Len(screen) = 1 /\ (k = "stream" => screen = form)
  BY <1>4
<1>. HIDE DEF screen
<1>9. g \in [form : Seq(GridRow), screen : Seq(GridRow), moved : BOOLEAN]
  BY <1>2, <1>7, <1>8
<1>10. /\ Len(g.form) = Len(g.screen) /\ Len(g.form) > 0
       /\ \A i \in DOMAIN g.form : Undefined \notin {g.form[i].a, g.form[i].b}
       /\ k = "stream" => g.screen = g.form
  BY <1>1, <1>2, <1>7, <1>8
<1>. QED
  BY <1>6, <1>9, <1>10, Zenon DEF GridGood, g

LEMMA RemountedGood ==
  ASSUME NEW k \in RowKind, NEW g, GridGood(k, g)
  PROVE  GridGood(k, Remounted(k, g))
<1>1. << >> \in Seq(GridRow)
  OBVIOUS
<1>2. CASE g.form = FreshGrid(k).form
  <2>1. FreshGrid(k).form = << EditorOf(k).start >>
    BY DEF FreshGrid, Rows
  <2>2. Remounted(k, g) = FreshGrid(k)
    BY <1>2, <2>1 DEF Remounted, FreshGrid
  <2>. QED
    BY <2>2, FreshGood
<1>3. CASE g.form # FreshGrid(k).form
  <2>1. Remounted(k, g) = Rows(k, g.form, << >>, TRUE)
    BY <1>3 DEF Remounted
  <2>2. /\ g.form \in Seq(GridRow) /\ Len(g.form) > 0
        /\ k = "stream" => \A i \in DOMAIN g.form : Undefined \notin {g.form[i].a, g.form[i].b}
    BY DEF GridGood
  <2>. QED
    BY <1>1, <2>1, <2>2, RowsGood
<1>. QED
  BY <1>2, <1>3

LEMMA TypedGood ==
  ASSUME NEW k \in RowKind, NEW g, GridGood(k, g), NEW i \in DOMAIN g.form,
         NEW name \in Word \cup {Blank}, NEW v \in Word \cup {Blank}
  PROVE  GridGood(k, Typed(g, i, name, v))
<1>. DEFINE over(r) == Row(name, IF v = Blank THEN r.b ELSE v)
            t == Typed(g, i, name, v)
<1>1. /\ g \in [form : Seq(GridRow), screen : Seq(GridRow), moved : BOOLEAN]
      /\ Len(g.form) = Len(g.screen) /\ Len(g.form) > 0
      /\ i \in 1..Len(g.form) /\ DOMAIN g.form = DOMAIN g.screen
  BY DEF GridGood
<1>2. /\ t.form = [g.form EXCEPT ![i] = over(g.form[i])]
      /\ t.screen = [g.screen EXCEPT ![i] = over(g.screen[i])]
      /\ t.moved = g.moved
      /\ t.form \in Seq(GridRow) /\ t.screen \in Seq(GridRow)
           => t \in [form : Seq(GridRow), screen : Seq(GridRow), moved : BOOLEAN]
  <2>1. ASSUME NEW f, NEW s
        PROVE  /\ [g EXCEPT !.form = f, !.screen = s].form = f
               /\ [g EXCEPT !.form = f, !.screen = s].screen = s
               /\ [g EXCEPT !.form = f, !.screen = s].moved = g.moved
               /\ f \in Seq(GridRow) /\ s \in Seq(GridRow)
                    => [g EXCEPT !.form = f, !.screen = s]
                         \in [form : Seq(GridRow), screen : Seq(GridRow), moved : BOOLEAN]
    BY <1>1
  <2>. DEFINE form == [g.form EXCEPT ![i] = over(g.form[i])]
              screen == [g.screen EXCEPT ![i] = over(g.screen[i])]
              u == [g EXCEPT !.form = form, !.screen = screen]
  <2>2. t = u
    BY Zenon DEF Typed
  <2>. HIDE DEF t, over, form, screen
  <2>3. /\ u.form = form /\ u.screen = screen /\ u.moved = g.moved
        /\ form \in Seq(GridRow) /\ screen \in Seq(GridRow)
             => u \in [form : Seq(GridRow), screen : Seq(GridRow), moved : BOOLEAN]
    BY <2>1
  <2>4. /\ form = [g.form EXCEPT ![i] = over(g.form[i])]
        /\ screen = [g.screen EXCEPT ![i] = over(g.screen[i])]
    BY DEF form, screen
  <2>. HIDE DEF u
  <2>. QED
    BY <2>2, <2>3, <2>4
<1>3. \A r \in GridRow : /\ over(r) \in GridRow /\ over(r).a = name
                         /\ over(r).b = IF v = Blank THEN r.b ELSE v
  BY DEF Row, GridRow, Cell
<1>4. Undefined \notin Word \cup {Blank}
  BY GridAssumption
<1>. HIDE DEF over, t
<1>5. g.form[i] \in GridRow /\ g.screen[i] \in GridRow
  BY <1>1
<1>6. /\ t.form \in Seq(GridRow) /\ t.screen \in Seq(GridRow)
      /\ Len(t.form) = Len(g.form) /\ Len(t.screen) = Len(g.screen)
      /\ DOMAIN t.form = DOMAIN g.form
      /\ t.form[i] = over(g.form[i]) /\ t.screen[i] = over(g.screen[i])
      /\ \A j \in DOMAIN g.form \ {i} : t.form[j] = g.form[j]
  BY <1>1, <1>2, <1>3, <1>5
<1>7. ASSUME ~t.moved PROVE Whole(t)
  <2>1. Whole(g) /\ i = 1
    BY <1>2, <1>7 DEF GridGood, Whole
  <2>2. Undefined \notin {t.form[1].a, t.form[1].b}
    BY <1>3, <1>4, <1>5, <1>6, <2>1 DEF Whole
  <2>3. ASSUME t.screen[1].b # Blank PROVE t.screen[1] = t.form[1]
    <3>1. CASE v = Blank
      <4>1. g.screen[1].b # Blank
        BY <1>3, <1>5, <1>6, <2>1, <2>3, <3>1
      <4>. QED
        BY <1>6, <2>1, <4>1 DEF Whole
    <3>2. CASE v # Blank
      BY <1>6, <2>1, <3>2 DEF over
    <3>. QED
      BY <3>1, <3>2
  <2>. QED
    BY <1>6, <2>1, <2>2, <2>3 DEF Whole
<1>8. ASSUME k = "stream"
      PROVE  /\ t.screen = t.form
             /\ \A j \in DOMAIN t.form : Undefined \notin {t.form[j].a, t.form[j].b}
  <2>1. g.screen = g.form /\ \A j \in DOMAIN g.form : Undefined \notin {g.form[j].a, g.form[j].b}
    BY <1>8 DEF GridGood
  <2>2. Undefined \notin {t.form[i].a, t.form[i].b}
    BY <1>3, <1>4, <1>5, <1>6, <2>1
  <2>. QED
    BY <1>2, <1>6, <2>1, <2>2
<1>9. t \in [form : Seq(GridRow), screen : Seq(GridRow), moved : BOOLEAN]
  BY <1>1, <1>2, <1>6
<1>. QED
  BY <1>1, <1>6, <1>7, <1>8, <1>9 DEF GridGood, t

LEMMA InsertedGood ==
  ASSUME NEW k \in RowKind, NEW g, GridGood(k, g), NEW i \in DOMAIN g.form, NEW below \in BOOLEAN
  PROVE  GridGood(k, InsertRow(k, g, i, below))
<1>. DEFINE p == IF below THEN i + 1 ELSE i  e == EditorOf(k).blank  form == InsertAt(g.form, p, e)
<1>1. /\ g.form \in Seq(GridRow) /\ g.screen \in Seq(GridRow)
      /\ k = "stream" => \A j \in DOMAIN g.form : Undefined \notin {g.form[j].a, g.form[j].b}
  BY DEF GridGood
<1>2. p \in 1..(Len(g.form) + 1)
  BY <1>1
<1>3. e \in GridRow /\ (k = "stream" => Undefined \notin {e.a, e.b})
  BY EditorFact
<1>. HIDE DEF p, e
<1>4. form \in Seq(GridRow) /\ Len(form) = Len(g.form) + 1
  BY <1>1, <1>2, <1>3, InsertAtFact
<1>5. ASSUME k = "stream" PROVE \A j \in DOMAIN form : Undefined \notin {form[j].a, form[j].b}
  <2>. DEFINE S == {r \in GridRow : Undefined \notin {r.a, r.b}}
  <2>1. g.form \in Seq(S) /\ e \in S
    BY <1>1, <1>3, <1>5
  <2>. HIDE DEF S
  <2>2. form \in Seq(S)
    BY <1>2, <2>1, InsertAtFact
  <2>. QED
    BY <2>2 DEF S
<1>6. Len(form) > 0
  BY <1>1, <1>4
<1>7. InsertRow(k, g, i, below) = Rows(k, form, g.screen, TRUE)
  BY DEF InsertRow, p, e
<1>. HIDE DEF form
<1>. QED
  BY <1>1, <1>4, <1>5, <1>6, <1>7, RowsGood

LEMMA DeletedGood ==
  ASSUME NEW k \in RowKind, NEW g, GridGood(k, g), NEW i \in DOMAIN g.form
  PROVE  GridGood(k, DeleteRow(k, g, i))
<1>. DEFINE e == EditorOf(k).blank  rest == RemoveAt(g.form, i)
            form == IF rest = << >> THEN << e >> ELSE rest
            S == {r \in GridRow : k = "stream" => Undefined \notin {r.a, r.b}}
<1>1. g.form \in Seq(S) /\ g.screen \in Seq(GridRow) /\ i \in 1..Len(g.form)
  BY DEF GridGood
<1>2. e \in S
  BY EditorFact
<1>. HIDE DEF e, S
<1>3. rest \in Seq(S)
  BY <1>1, RemoveAtFact
<1>4. DeleteRow(k, g, i) = Rows(k, form, g.screen, TRUE)
  BY DEF DeleteRow, e
<1>. HIDE DEF rest
<1>5. form \in Seq(S) /\ Len(form) > 0
  BY <1>2, <1>3
<1>. HIDE DEF form
<1>6. /\ form \in Seq(GridRow)
      /\ k = "stream" => \A j \in DOMAIN form : Undefined \notin {form[j].a, form[j].b}
  BY <1>5 DEF S
<1>. QED
  BY <1>1, <1>4, <1>5, <1>6, RowsGood

LEMMA TextSet ==
  ASSUME NEW t, TextGood(t), NEW v, NEW w, NEW b \in BOOLEAN, NEW a \in BOOLEAN, a \/ w = v
  PROVE  TextGood([t EXCEPT !.screen = v, !.changed = b, !.value = w, !.apart = a])
<1>. DEFINE u == [t EXCEPT !.screen = v, !.changed = b, !.value = w, !.apart = a]
<1>1. t \in [screen : {t.screen}, value : {t.value}, changed : BOOLEAN,
             loading : BOOLEAN, apart : BOOLEAN]
  BY DEF TextGood
<1>2. /\ u.screen = v /\ u.value = w /\ u.apart = a
      /\ u \in [screen : {v}, value : {w}, changed : BOOLEAN, loading : BOOLEAN, apart : BOOLEAN]
  BY <1>1
<1>. HIDE DEF u
<1>3. TextGood(u)
  BY <1>2 DEF TextGood
<1>. QED
  BY <1>3 DEF u

LEMMA TextLoads ==
  ASSUME NEW t, TextGood(t), NEW l \in BOOLEAN
  PROVE  TextGood([t EXCEPT !.loading = l])
<1>. DEFINE u == [t EXCEPT !.loading = l]
<1>1. t \in [screen : {t.screen}, value : {t.value}, changed : BOOLEAN,
             loading : BOOLEAN, apart : BOOLEAN]
  BY DEF TextGood
<1>2. /\ u.screen = t.screen /\ u.value = t.value /\ u.apart = t.apart
      /\ u \in [screen : {t.screen}, value : {t.value}, changed : BOOLEAN,
                loading : BOOLEAN, apart : BOOLEAN]
  BY <1>1
<1>. HIDE DEF u
<1>3. TextGood(u)
  BY <1>2 DEF TextGood
<1>. QED
  BY <1>3 DEF u

LEMMA FollowGood == ASSUME TextGood(text), NEW v, Follow(v) PROVE TextGood(text')
<1>1. CASE v = shown
  BY <1>1, Zenon DEF Follow
<1>2. CASE v # shown
  <2>. DEFINE b == text.changed \/ text.loading
              w == IF text.loading /\ v[Text] # Blank THEN v[Text] ELSE text.value
              a == ~text.loading \/ v[Text] = Blank
  <2>1. b \in BOOLEAN /\ a \in BOOLEAN
    OBVIOUS
  <2>2. a \/ w = v[Text]
    OBVIOUS
  <2>3. text' = [text EXCEPT !.screen = v[Text], !.changed = b, !.value = w, !.apart = a]
    BY <1>2, Zenon DEF Follow
  <2>. HIDE DEF a, b, w
  <2>. QED
    BY <2>1, <2>2, <2>3, TextSet, Zenon
<1>. QED
  BY <1>1, <1>2

LEMMA TypeGood == ASSUME TextGood(text), NEW v, Type(v) PROVE TextGood(text')
<1>. DEFINE kept == kind = "string" /\ v = Blank
            w == IF kept THEN text.value ELSE v
<1>1. kept \in BOOLEAN /\ (kept \/ w = v) /\ TRUE \in BOOLEAN
  OBVIOUS
<1>2. text' = [text EXCEPT !.screen = v, !.changed = TRUE, !.value = w, !.apart = kept]
  BY Zenon DEF Type
<1>. HIDE DEF kept, w
<1>. QED
  BY <1>1, <1>2, TextSet, Zenon

LEMMA EditorsQuiet ==
  ASSUME EditorsInv, UNCHANGED <<kind, grid, text>>
  PROVE  EditorsInv'
BY Zenon DEF EditorsInv, IsText, GridGood, TextGood

LEMMA EditorsGrid ==
  ASSUME EditorsInv, UNCHANGED <<kind, text>>, kind \in RowKind => GridGood(kind, grid')
  PROVE  EditorsInv'
<1>1. ~IsText => kind \in RowKind
  BY KeyEditingAssumption DEF EditorsInv, IsText, RowKind
<1>. QED
  BY <1>1, Zenon DEF EditorsInv, IsText, GridGood, TextGood

LEMMA EditorsText ==
  ASSUME EditorsInv, UNCHANGED <<kind, grid>>, TextGood(text')
  PROVE  EditorsInv'
BY Zenon DEF EditorsInv, IsText, GridGood, TextGood

LEMMA InitEditors == Init => EditorsInv
<1>. SUFFICES ASSUME Init PROVE EditorsInv
  OBVIOUS
<1>1. kind \in Kind /\ (~IsText => kind \in RowKind /\ grid = FreshGrid(kind))
  BY KeyEditingAssumption DEF Init, IsText, RowKind
<1>2. TextGood(text)
  BY DEF Init, TextGood
<1>. QED
  BY <1>1, <1>2, FreshGood, Zenon DEF EditorsInv

LEMMA UserEditors == ASSUME EditorsInv, User PROVE EditorsInv'
<1>1. CASE \/ Reload \/ Dismiss \/ ConfirmedForNothing \/ CloseDrawer \/ AddKey \/ CloseInsert \/ Insert
           \/ \E id \in DOMAIN shown : AskDelete(id) \/ Edit(id)
           \/ \E first : DeleteRequest(first)
           \/ \E name, v : Save(name, v)
  <2>1. UNCHANGED <<kind, grid, text>>
    BY <1>1, Zenon DEF Reload, Dismiss, ConfirmedForNothing, CloseDrawer, AddKey, CloseInsert, Insert,
         AskDelete, Edit, DeleteRequest, Save, SaveRequest, drawers, world
  <2>. QED
    BY <2>1, EditorsQuiet
<1>2. CASE OpenInsert
  <2>1. UNCHANGED <<kind, text>> /\ grid' = Remounted(kind, grid) /\ ~IsText
    BY <1>2 DEF OpenInsert, world
  <2>2. kind \in RowKind => GridGood(kind, grid')
    BY <2>1, RemountedGood, Zenon DEF EditorsInv
  <2>. QED
    BY <2>1, <2>2, EditorsGrid
<1>3. CASE EditGrid /\ ~IsText
  <2>1. UNCHANGED <<kind, text>>
    BY <1>3 DEF EditGrid, world
  <2>2. GridGood(kind, grid)
    BY <1>3 DEF EditorsInv
  <2>3. PICK i \in DOMAIN grid.form :
          \/ \E name \in Word, v \in Word \cup {Blank} :
               grid' = Typed(grid, i, IF Named THEN name ELSE Blank, v)
          \/ \E below \in BOOLEAN : grid' = InsertRow(kind, grid, i, below)
          \/ grid' = DeleteRow(kind, grid, i)
    BY <1>3, Zenon DEF EditGrid
  <2>4. ASSUME kind \in RowKind, NEW name \in Word, NEW v \in Word \cup {Blank},
               grid' = Typed(grid, i, IF Named THEN name ELSE Blank, v)
        PROVE  GridGood(kind, grid')
    <3>. DEFINE typed == IF Named THEN name ELSE Blank
    <3>1. typed \in Word \cup {Blank} /\ grid' = Typed(grid, i, typed, v)
      BY <2>4
    <3>. HIDE DEF typed
    <3>. QED
      BY <2>2, <2>4, <3>1, TypedGood, Zenon
  <2>5. kind \in RowKind => GridGood(kind, grid')
    BY <2>2, <2>3, <2>4, InsertedGood, DeletedGood, Zenon
  <2>. QED
    BY <2>1, <2>5, EditorsGrid
<1>4. CASE \E v : Type(v)
  BY <1>4, TypeGood, EditorsText, Zenon DEF Type, world, drawers, EditorsInv
<1>5. CASE SaveText
  <2>1. TextGood(text')
    BY <1>5, TextLoads, TRUE \in BOOLEAN, Zenon DEF SaveText, EditorsInv
  <2>. QED
    BY <1>5, <2>1, EditorsText, Zenon DEF SaveText, world, drawers
<1>6. kind \in {"list", "hash", "set", "zset", "stream"} => ~IsText
  BY DEF IsText
<1>. QED
  BY <1>1, <1>2, <1>3, <1>4, <1>5, <1>6, Zenon
     DEF User, ItemDel, FieldDel, MemberDel, ZsetMemberDel, EntryDel,
         ListRow, HashRow, SetRow, ZsetRow, StreamRow, InsertDrawer,
         ListDrawer, HashDrawer, SetDrawer, ZsetDrawer, StreamDrawer,
         ListSubmit, HashSubmit, SetSubmit, ZsetSubmit, StreamSubmit

LEMMA OthersEditors == ASSUME EditorsInv, Server \/ Answers PROVE EditorsInv'
<1>1. CASE \/ Read \/ Another \/ FetchFailed \/ Retyped
           \/ \E c \in DOMAIN calls :
                \/ ListItemDel(c) \/ RowDel(c) \/ ListItemUpdate(c) \/ RowUpdate(c)
                \/ KeyCreate(c) \/ KeyCreateOther(c) \/ KeyValueUpdate(c)
                \/ WrongType(c) \/ CallFails(c)
                \/ Deleted(c) \/ Saved(c) \/ Created(c)
  <2>1. UNCHANGED <<kind, grid, text>>
    BY <1>1, Zenon DEF Read, Another, FetchFailed, Retyped, ListItemDel, RowDel, ListItemUpdate,
         RowUpdate, KeyCreate, KeyCreateOther, KeyValueUpdate, WrongType, CallFails, Deleted, Saved,
         Created, Over, ServerStep, ServerOnly, world, drawers
  <2>. QED
    BY <2>1, EditorsQuiet
<1>2. CASE Fetched
  <2>1. UNCHANGED <<kind, grid>> /\ (UNCHANGED text \/ Follow(got))
    BY <1>2, Zenon DEF Fetched, world, drawers
  <2>2. TextGood(text')
    BY <2>1, FollowGood, Zenon DEF EditorsInv
  <2>. QED
    BY <2>1, <2>2, EditorsText
<1>3. CASE \E c : InsertSaved(c)
  <2>1. UNCHANGED <<kind, text>> /\ (grid' = FreshGrid(kind) \/ grid' = grid)
    BY <1>3, Zenon DEF InsertSaved, Over, world
  <2>2. kind \in RowKind => GridGood(kind, grid')
    <3>1. kind \in RowKind => ~IsText
      BY DEF IsText, RowKind
    <3>. QED
      BY <2>1, <3>1, FreshGood, Zenon DEF EditorsInv
  <2>. QED
    BY <2>1, <2>2, EditorsGrid
<1>4. CASE \E c : TextSaved(c)
  <2>1. TextGood(text')
    BY <1>4, TextLoads, FALSE \in BOOLEAN, Zenon DEF TextSaved, EditorsInv
  <2>. QED
    BY <1>4, <2>1, EditorsText, Zenon DEF TextSaved, Over, world, drawers
<1>. QED
  BY <1>1, <1>2, <1>3, <1>4, Zenon DEF Server, Answers

\* EditorsInv holds in every reachable state: in the row editors of
\* key-add/*.tsx the form and the inputs stay in step as far as the property
\* below needs it.
THEOREM EditorsInductive == Spec => []EditorsInv
<1>1. ASSUME EditorsInv, UNCHANGED vars PROVE EditorsInv'
  BY <1>1, EditorsQuiet, Zenon DEF vars, world, drawers
<1>2. EditorsInv /\ [Next]_vars => EditorsInv'
  BY <1>1, UserEditors, OthersEditors, Zenon DEF Next
<1>. QED
  BY <1>2, InitEditors, PTL DEF Spec

-----------------------------------------------------------------------------
(* What is sent.                                                            *)

\* But for a stream all rows of an editor are sent, as a list.
LEMMA SentList ==
  ASSUME NEW k, k # "stream", NEW form \in Seq(GridRow)
  PROVE  IsList(Sent(k, form))
<1>. DEFINE txt(v) == IF v = Undefined THEN Blank ELSE v
            s == [i \in DOMAIN form |-> Row(txt(form[i].a), txt(form[i].b))]
<1>1. Sent(k, form) = s
  BY Zenon DEF Sent
<1>. HIDE DEF txt
<1>2. s \in Seq({s[i] : i \in DOMAIN form}) /\ DOMAIN s = DOMAIN form
  <2>. DEFINE n == Len(form)
  <2>1. n \in Nat /\ DOMAIN form = 1..n
    OBVIOUS
  <2>2. DOMAIN s = 1..n /\ s \in [1..n -> {s[i] : i \in DOMAIN form}]
    BY <2>1
  <2>. HIDE DEF n, s
  <2>. QED
    BY <2>1, <2>2
<1>. QED
  BY <1>1, <1>2 DEF IsList

LEMMA SentOne ==
  ASSUME NEW k, k # "stream", NEW form \in Seq(GridRow), DOMAIN form = {1},
         Undefined \notin {form[1].a, form[1].b}
  PROVE  \A i \in DOMAIN Sent(k, form) : i = 1 /\ Sent(k, form)[i] = form[1]
<1>. DEFINE txt(v) == IF v = Undefined THEN Blank ELSE v
            s == [i \in DOMAIN form |-> Row(txt(form[i].a), txt(form[i].b))]
<1>1. Sent(k, form) = s
  BY Zenon DEF Sent
<1>2. form[1] \in GridRow /\ Row(txt(form[1].a), txt(form[1].b)) = form[1]
  <2>1. form[1] \in GridRow
    OBVIOUS
  <2>2. Row(form[1].a, form[1].b) = form[1]
    BY <2>1 DEF Row, GridRow
  <2>. QED
    BY <2>1, <2>2
<1>. HIDE DEF txt
<1>. QED
  BY <1>1, <1>2

\* The object a stream sends: of rows of one field the last is the one it has.
LEMMA EntryFact ==
  ASSUME NEW form \in Seq(GridRow)
  PROVE  EntryOf(form, Entry(form))
<1>. DEFINE Names == {form[i].a : i \in DOMAIN form} \ {Blank}
            Is(x, i) == form[i].a = x /\ \A j \in DOMAIN form : form[j].a = x => j <= i
            At1(x) == CHOOSE i \in DOMAIN form : Is(x, i)
<1>1. Entry(form) = [x \in Names |-> form[At1(x)].b]
  BY DEF Entry
<1>2. ASSUME NEW i \in DOMAIN form, LastOfItsField(form, i)
      PROVE  At1(form[i].a) = i
  <2>. DEFINE x == form[i].a
  <2>1. Is(x, i)
    BY <1>2 DEF LastOfItsField
  <2>2. At1(x) \in DOMAIN form /\ Is(x, At1(x))
    <3>. HIDE DEF Is, x
    <3>. QED
      BY <2>1, Zenon
  <2>3. At1(x) <= i /\ i <= At1(x)
    <3>. HIDE DEF At1
    <3>. QED
      BY <2>1, <2>2
  <2>4. i \in Nat /\ At1(x) \in Nat
    <3>. HIDE DEF At1
    <3>. QED
      BY <2>2
  <2>. HIDE DEF At1
  <2>. QED
    BY <2>3, <2>4
<1>. HIDE DEF At1
<1>3. DOMAIN Entry(form) = Names
  BY <1>1
<1>4. ASSUME NEW i \in DOMAIN form, form[i].a # Blank, LastOfItsField(form, i)
      PROVE  Entry(form)[form[i].a] = form[i].b
  <2>1. form[i].a \in Names
    BY <1>4
  <2>. QED
    BY <1>1, <1>2, <1>4, <2>1
<1>. QED
  BY <1>3, <1>4 DEF EntryOf

\* What a request that goes out holds of what is on the screen.
AsShown(r) ==
  /\ r.op = "text" /\ ~text.apart => r.val = text.screen
  /\ r.op = "insert" /\ kind = "stream" => EntryOf(grid.screen, r.val)
  /\ r.op = "insert" /\ kind # "stream" /\ ~grid.moved =>
       \A i \in DOMAIN r.val : grid.screen[i].b # Blank => r.val[i] = grid.screen[i]

SendsStep == \A c \in DOMAIN calls' \ DOMAIN calls : AsShown(calls'[c])

LEMMA RequestFields ==
  ASSUME NEW op, NEW id, NEW val, NEW new, NEW first
  PROVE  /\ Request(op, id, val, new, first).op = op
         /\ Request(op, id, val, new, first).id = id
         /\ Request(op, id, val, new, first).val = val
         /\ Request(op, id, val, new, first).new = new
         /\ Request(op, id, val, new, first).step = first
         /\ Request(op, id, val, new, first).raced = FALSE
BY DEF Request

LEMMA StartSends ==
  ASSUME NEW r, Start(r), AsShown(r)
  PROVE  SendsStep
<1>1. \A d \in DOMAIN calls' \ DOMAIN calls : calls'[d] = r
  BY DEF Start
<1>. QED
  BY <1>1, Zenon DEF SendsStep

LEMMA OtherSends ==
  ASSUME NEW op \in {"delete", "update", "create"}, NEW id, NEW val, NEW new, NEW first,
         Start(Request(op, id, val, new, first))
  PROVE  SendsStep
<1>1. AsShown(Request(op, id, val, new, first))
  BY RequestFields DEF AsShown
<1>. QED
  BY <1>1, StartSends

LEMMA NothingSent == ASSUME DOMAIN calls' \subseteq DOMAIN calls PROVE SendsStep
BY DEF SendsStep

LEMMA InsertSends == ASSUME EditorsInv, ~IsText, Insert PROVE SendsStep
<1>. DEFINE sent == Sent(kind, grid.form)  r == Request("insert", None, sent, None, "write")
<1>1. Start(r)
  BY DEF Insert
<1>2. r.op = "insert" /\ r.val = sent
  <2>. HIDE DEF sent
  <2>. QED
    BY DEF Request
<1>3. GridGood(kind, grid)
  BY DEF EditorsInv
<1>4. kind = "stream" => EntryOf(grid.screen, sent)
  <2>. SUFFICES ASSUME kind = "stream" PROVE EntryOf(grid.screen, sent)
    OBVIOUS
  <2>1. grid.screen = grid.form /\ grid.form \in Seq(GridRow)
    BY <1>3 DEF GridGood
  <2>2. sent = Entry(grid.form)
    BY Zenon DEF Sent
  <2>. HIDE DEF sent
  <2>. QED
    BY <2>1, <2>2, EntryFact
<1>5. ASSUME kind # "stream", ~grid.moved, NEW i \in DOMAIN sent, grid.screen[i].b # Blank
      PROVE  sent[i] = grid.screen[i]
  <2>1. Whole(grid) /\ grid.form \in Seq(GridRow)
    BY <1>3, <1>5 DEF GridGood
  <2>2. i = 1 /\ sent[i] = grid.form[1]
    <3>1. DOMAIN grid.form = {1} /\ Undefined \notin {grid.form[1].a, grid.form[1].b}
      BY <2>1 DEF Whole
    <3>. QED
      BY <1>5, <2>1, <3>1, SentOne, Zenon
  <2>. QED
    BY <1>5, <2>1, <2>2 DEF Whole
<1>. HIDE DEF r, sent
<1>6. AsShown(r)
  BY <1>2, <1>4, <1>5 DEF AsShown
<1>. QED
  BY <1>1, <1>6, StartSends

LEMMA TextSends == ASSUME EditorsInv, SaveText PROVE SendsStep
<1>. DEFINE r == Request("text", Text, text.value, None, "write")
<1>1. Start(r)
  BY DEF SaveText
<1>2. r.op = "text" /\ r.val = text.value
  BY DEF Request
<1>3. ~text.apart => text.value = text.screen
  BY DEF EditorsInv, TextGood
<1>. HIDE DEF r
<1>4. AsShown(r)
  BY <1>2, <1>3 DEF AsShown
<1>. QED
  BY <1>1, <1>4, StartSends

LEMMA NextSends == ASSUME ShownInv, EditorsInv, [Next]_vars PROVE SendsStep
<1>1. CASE \/ Reload \/ Dismiss \/ ConfirmedForNothing \/ CloseDrawer
           \/ \E id \in DOMAIN shown : AskDelete(id) \/ Edit(id)
           \/ InsertDrawer \/ \E v \in Word \cup {Blank} : Type(v)
           \/ Fetched \/ FetchFailed \/ Retyped \/ UNCHANGED vars
  <2>1. UNCHANGED calls
    BY <1>1, Zenon DEF Reload, Dismiss, ConfirmedForNothing, CloseDrawer, AskDelete, Edit,
         InsertDrawer, OpenInsert, CloseInsert, EditGrid, Type, Fetched, FetchFailed, Retyped, vars
  <2>. QED
    BY <2>1, NothingSent
<1>2. CASE \E first : DeleteRequest(first)
  BY <1>2, OtherSends, Zenon DEF DeleteRequest
<1>3. CASE \E name, v : Save(name, v)
  <2>1. PICK val, new, first : SaveRequest(val, new, first)
    BY <1>3, Zenon DEF Save
  <2>. QED
    BY <2>1, OtherSends, Zenon DEF SaveRequest
<1>4. CASE AddKey
  <2>1. PICK val, new : Start(Request("create", None, val, new, "write"))
    BY <1>4, Zenon DEF AddKey
  <2>. QED
    BY <2>1, OtherSends, Zenon
<1>5. CASE Insert /\ ~IsText
  BY <1>5, InsertSends
<1>6. CASE SaveText
  BY <1>6, TextSends
<1>7. CASE Read \/ Another
  <2>1. DOMAIN calls' = DOMAIN calls
    BY <1>7, ReadFact, RacedFact, Zenon DEF ShownInv, Another
  <2>. QED
    BY <2>1, NothingSent
<1>8. ASSUME NEW c \in DOMAIN calls,
             \/ ListItemDel(c) \/ RowDel(c) \/ ListItemUpdate(c) \/ RowUpdate(c)
             \/ KeyCreate(c) \/ KeyCreateOther(c) \/ KeyValueUpdate(c)
             \/ WrongType(c) \/ CallFails(c)
      PROVE  SendsStep
  <2>1. DOMAIN calls' = DOMAIN calls
    <3>1. WritesOrLooks(c) \/ calls' = [calls EXCEPT ![c].step = "error"]
      BY <1>8, ServerWritesOrLooks, Zenon DEF CallFails
    <3>. QED
      BY <3>1, WriteFact, LookFact, StageValues, Zenon DEF WritesOrLooks, ShownInv
  <2>. QED
    BY <2>1, NothingSent
<1>9. ASSUME NEW c \in DOMAIN calls,
             \/ Deleted(c) \/ Saved(c) \/ InsertSaved(c) \/ Created(c) \/ TextSaved(c)
      PROVE  SendsStep
  <2>1. DOMAIN calls' \subseteq DOMAIN calls
    BY <1>9 DEF Deleted, Saved, InsertSaved, Created, TextSaved, Over
  <2>. QED
    BY <2>1, NothingSent
<1>10. kind \in {"list", "hash", "set", "zset", "stream"} => ~IsText
  BY DEF IsText
<1>. QED
  BY <1>1, <1>2, <1>3, <1>4, <1>5, <1>6, <1>7, <1>8, <1>9, <1>10, Zenon
     DEF Next, User, Server, Answers, ItemDel, FieldDel, MemberDel, ZsetMemberDel, EntryDel,
         ListRow, HashRow, SetRow, ZsetRow, StreamRow,
         ListDrawer, HashDrawer, SetDrawer, ZsetDrawer, StreamDrawer,
         ListSubmit, HashSubmit, SetSubmit, ZsetSubmit, StreamSubmit

\* Every request holds what was on the screen when it went out: a text that
\* is not apart, every field of a stream, the one row of an untouched form.
THEOREM SendsHolds == Spec => SendsWhatIsShown
<1>1. SendsStep =>
        \A c \in DOMAIN calls' \ DOMAIN calls :
          LET r == calls'[c]
          IN /\ r.op = "text" /\ ~text.apart => r.val = text.screen
             /\ r.op = "insert" /\ kind = "stream" => EntryOf(grid.screen, r.val)
             /\ r.op = "insert" /\ kind # "stream" /\ ~grid.moved =>
                  \A i \in DOMAIN r.val : grid.screen[i].b # Blank => r.val[i] = grid.screen[i]
  BY Zenon DEF SendsStep, AsShown
<1>. QED
  BY <1>1, NextSends, ShownInductive, EditorsInductive, PTL DEF SendsWhatIsShown, Spec

-----------------------------------------------------------------------------
(* The steps, for OnlyTheSeenIsLost.                                        *)

\* The step of c accounts for a row that is lost.
Accounts(c, lost) ==
  /\ calls[c].step # calls'[c].step
  /\ \/ Overwrites(calls[c])
     \/ kind = "list" /\ (calls[c].val = lost \/ calls[c].raced)
     \/ /\ kind # "list" /\ calls[c].id = lost
        /\ calls[c].op = "update" => calls[c].new \in DOMAIN stored' \/ calls[c].raced

LostStep == \A lost \in Lost(stored, stored') : \E c \in DOMAIN calls : Accounts(c, lost)

LEMMA NothingLost ==
  ASSUME kind = "list" => IsList(stored), UNCHANGED stored
  PROVE  LostStep
<1>1. CASE kind = "list"
  <2>1. \A v : ~(Count(stored, v) > Count(stored, v))
    BY <1>1, NothingIsLess
  <2>. QED
    BY <1>1, <2>1 DEF LostStep, Lost
<1>2. CASE kind # "list"
  BY <1>2 DEF LostStep, Lost
<1>. QED
  BY <1>1, <1>2

\* A step that writes nothing.  Who goes on to write has seen what it should.
LEMMA LookStage ==
  ASSUME LostInv, NEW c \in DOMAIN calls, NEW next \in Stage,
         calls' = [calls EXCEPT ![c].step = next],
         UNCHANGED <<kind, stored>>, steps' \in Nat,
         kind = "list" /\ next \in {"mark", "set"} => AsSeen(calls[c]),
         kind # "list" /\ calls[c].op = "update" /\ next \in {"add", "remove"}
           => next = "add" /\ calls[c].new # calls[c].id
  PROVE  LostInv' /\ LostStep
<1>1. /\ CallsGood' /\ DOMAIN calls' = DOMAIN calls /\ calls'[c].step = next
      /\ \A d \in DOMAIN calls : SameAsked(calls'[d], calls[d])
      /\ \A d \in DOMAIN calls \ {c} : calls'[d] = calls[d]
  BY LookFact, Zenon DEF LostInv
<1>2. \A d \in DOMAIN calls \ {c} : InStage(kind, stored, calls'[d])
  BY <1>1, Zenon DEF LostInv
<1>3. InStage(kind, stored, calls'[c])
  <2>. DEFINE r == calls[c]  q == calls'[c]
  <2>1. InStage(kind, stored, r) /\ SameAsked(q, r) /\ q.step = next
    BY <1>1 DEF LostInv
  <2>2. kind = "list" /\ next \in {"mark", "set"} => r.id \in DOMAIN stored /\ stored[r.id] = r.val
    BY DEF AsSeen
  <2>3. kind # "list" /\ r.op = "update" /\ next \in {"add", "remove"} => next = "add" /\ r.new # r.id
    OBVIOUS
  <2>. HIDE DEF r, q
  <2>4. InStage(kind, stored, q)
    BY <2>1, <2>2, <2>3 DEF InStage, SameAsked
  <2>. QED
    BY <2>4 DEF q
<1>4. LostInv'
  <2>1. \A d \in DOMAIN calls' : InStage(kind', stored', calls'[d])
    BY <1>1, <1>2, <1>3
  <2>. QED
    BY <1>1, <2>1 DEF LostInv, IsText
<1>. QED
  BY <1>4, NothingLost DEF LostInv

\* A write: whoever has looked before it is overtaken.
LEMMA WriteStage ==
  ASSUME LostInv, NEW c \in DOMAIN calls, NEW content, NEW next \in {"remove", "done"},
         Write(c, content, next), UNCHANGED <<kind, steps>>,
         kind = "list" => IsList(content),
         IsText => DOMAIN content \subseteq {Text},
         kind # "list" /\ calls[c].op = "update" /\ next = "remove"
           => calls[c].new # calls[c].id /\ calls[c].new \in DOMAIN content
  PROVE  LostInv' /\ stored' = content /\ calls'[c].step = next
<1>0. next \in Stage /\ CallsGood
  BY StageValues DEF LostInv
<1>1. /\ stored' = content /\ CallsGood' /\ DOMAIN calls' = DOMAIN calls
      /\ calls'[c].step = next
      /\ \A d \in DOMAIN calls : SameAsked(calls'[d], calls[d])
  <2>0. stored' = content
    BY DEF Write
  <2>1. calls'[c].step = next
    <3>1. calls'[c] = [calls[c] EXCEPT !.step = next, !.unseen = TRUE]
      BY DEF Write, Raced
    <3>2. IsCall(calls[c])
      BY <1>0 DEF CallsGood
    <3>. QED
      BY <3>1, <3>2 DEF IsCall
  <2>2. CallsGood' /\ DOMAIN calls' = DOMAIN calls
    BY <1>0, WriteFact, Zenon
  <2>3. \A d \in DOMAIN calls : SameAsked(calls'[d], calls[d])
    BY <1>0, WriteFact, Zenon
  <2>. QED
    BY <2>0, <2>1, <2>2, <2>3
<1>1a. ASSUME NEW d \in DOMAIN calls \ {c}
       PROVE  /\ calls'[d].step = calls[d].step
              /\ calls'[d].raced = (calls[d].raced \/ Pending(calls[d]))
  BY <1>0, WriteFact, Zenon
<1>2. ASSUME NEW d \in DOMAIN calls \ {c} PROVE InStage(kind, content, calls'[d])
  <2>. DEFINE r == calls[d]  q == calls'[d]
  <2>1. /\ InStage(kind, stored, r) /\ SameAsked(q, r) /\ q.step = r.step
        /\ q.raced = (r.raced \/ Pending(r))
    BY <1>1, <1>1a DEF LostInv
  <2>. HIDE DEF r, q
  <2>2. q.step \in {"mark", "set"} => q.raced
    BY <2>1 DEF Pending
  <2>3. q.op = "update" /\ q.step = "remove" => q.raced
    BY <2>1 DEF Pending, SameAsked
  <2>4. InStage(kind, content, q)
    BY <2>1, <2>2, <2>3 DEF InStage, SameAsked
  <2>. QED
    BY <2>4 DEF q
<1>3. InStage(kind, content, calls'[c])
  <2>. DEFINE r == calls[c]  q == calls'[c]
  <2>1. InStage(kind, stored, r) /\ SameAsked(q, r) /\ q.step = next
    BY <1>1 DEF LostInv
  <2>2. kind # "list" /\ r.op = "update" /\ next = "remove" => r.new # r.id /\ r.new \in DOMAIN content
    OBVIOUS
  <2>. HIDE DEF r, q
  <2>3. InStage(kind, content, q)
    BY <2>1, <2>2 DEF InStage, SameAsked
  <2>. QED
    BY <2>3 DEF q
<1>4. \A d \in DOMAIN calls' : InStage(kind', stored', calls'[d])
  BY <1>1, <1>2, <1>3
<1>. QED
  BY <1>1, <1>4 DEF LostInv, IsText

\* The commands that look: their outcome is next, or an error.
LEMMA LookLost ==
  ASSUME LostInv, NEW c \in DOMAIN calls, NEW good, NEW next \in {"mark", "set", "add", "done", "error"},
         Look(c, good, next), UNCHANGED <<kind, steps>>,
         kind = "list" /\ next \in {"mark", "set"} /\ good => AsSeen(calls[c]),
         kind # "list" /\ calls[c].op = "update" /\ next = "add" /\ good => calls[c].new # calls[c].id
  PROVE  LostInv' /\ LostStep
<1>. DEFINE to == IF good THEN next ELSE "error"
<1>1. to \in Stage /\ ((to = next /\ good) \/ to = "error")
  BY DEF Stage
<1>2. calls' = [calls EXCEPT ![c].step = to] /\ UNCHANGED stored /\ steps' \in Nat
  BY DEF Look, LostInv
<1>. HIDE DEF to
<1>3. kind = "list" /\ to \in {"mark", "set"} => AsSeen(calls[c])
  BY <1>1
<1>4. kind # "list" /\ calls[c].op = "update" /\ to \in {"add", "remove"}
        => to = "add" /\ calls[c].new # calls[c].id
  BY <1>1
<1>. QED
  BY <1>1, <1>2, <1>3, <1>4, LookStage

\* A write to a list that loses nothing but v, by a request that accounts for it.
LEMMA ListWriteLost ==
  ASSUME LostInv, kind = "list", NEW c \in DOMAIN calls, NEW content, NEW next \in {"remove", "done"},
         Write(c, content, next), UNCHANGED <<kind, steps>>, calls[c].step # next, IsList(content),
         \A v \in Word \cup {Blank, Space} :
           calls[c].val = v \/ calls[c].raced \/ ~(Count(stored, v) > Count(content, v))
  PROVE  LostInv' /\ LostStep
<1>1. LostInv' /\ stored' = content /\ calls'[c].step = next
  BY WriteStage DEF IsText
<1>. QED
  BY <1>1 DEF LostStep, Lost, Accounts

LEMMA SetItemLost ==
  ASSUME LostInv, kind = "list", NEW c \in DOMAIN calls, NEW v, NEW next \in {"remove", "done"},
         SetItem(c, v, next), UNCHANGED <<kind, steps>>, calls[c].step \in {"mark", "set"}
  PROVE  LostInv' /\ LostStep
<1>1. CASE calls[c].id \in DOMAIN stored
  <2>. DEFINE p == calls[c].id  content == [stored EXCEPT ![p] = v]
  <2>1. Write(c, content, next)
    BY <1>1 DEF SetItem
  <2>2. /\ IsList(content)
        /\ \A x : x # stored[p] => ~(Count(stored, x) > Count(content, x))
    BY <1>1, ReplaceLoses DEF LostInv
  <2>3. calls[c].raced \/ stored[p] = calls[c].val
    BY DEF LostInv, InStage
  <2>. HIDE DEF content, p
  <2>4. \A x \in Word \cup {Blank, Space} :
          calls[c].val = x \/ calls[c].raced \/ ~(Count(stored, x) > Count(content, x))
    BY <2>2, <2>3
  <2>. QED
    BY <2>1, <2>2, <2>4, ListWriteLost
<1>2. CASE calls[c].id \notin DOMAIN stored
  <2>1. Look(c, FALSE, "error")
    BY <1>2 DEF SetItem
  <2>. QED
    BY <2>1, LookLost
<1>. QED
  BY <1>1, <1>2

LEMMA ListItemDelLost ==
  ASSUME LostInv, NEW c \in DOMAIN calls, ListItemDel(c) PROVE LostInv' /\ LostStep
<1>1. kind = "list" /\ UNCHANGED <<kind, steps>>
  BY DEF ListItemDel, ServerStep, ServerOnly, world
<1>2. CASE Look(c, AsSeen(calls[c]), "mark")
  BY <1>1, <1>2, LookLost, Zenon
<1>3. CASE calls[c].step = "mark" /\ SetItem(c, Marker(c), "remove")
  BY <1>1, <1>3, SetItemLost
<1>4. CASE calls[c].step = "remove" /\ Write(c, RemoveFirst(stored, Marker(c)), "done")
  <2>. DEFINE content == RemoveFirst(stored, Marker(c))
  <2>1. /\ IsList(content)
        /\ \A v : v # Marker(c) => ~(Count(stored, v) > Count(content, v))
    BY <1>1, RemoveFirstLoses DEF LostInv
  <2>2. Marker(c) \notin Word \cup {Blank, Space}
    BY KeyEditingAssumption DEF Marker, LostInv, CallsGood
  <2>3. Write(c, content, "done")
    BY <1>4
  <2>. HIDE DEF content
  <2>4. \A v \in Word \cup {Blank, Space} : ~(Count(stored, v) > Count(content, v))
    BY <2>1, <2>2
  <2>. QED
    BY <1>1, <1>4, <2>1, <2>3, <2>4, ListWriteLost
<1>. QED
  BY <1>2, <1>3, <1>4 DEF ListItemDel

LEMMA ListItemUpdateLost ==
  ASSUME LostInv, NEW c \in DOMAIN calls, ListItemUpdate(c) PROVE LostInv' /\ LostStep
<1>1. kind = "list" /\ UNCHANGED <<kind, steps>>
  BY DEF ListItemUpdate, ServerStep, ServerOnly, world
<1>2. CASE Look(c, AsSeen(calls[c]), "set")
  BY <1>1, <1>2, LookLost, Zenon
<1>3. CASE calls[c].step = "set" /\ SetItem(c, calls[c].new, "done")
  BY <1>1, <1>3, SetItemLost
<1>. QED
  BY <1>2, <1>3 DEF ListItemUpdate

\* A write to another key that keeps all rows, or all but the one it is about.
LEMMA RowWriteLost ==
  ASSUME LostInv, kind # "list", NEW c \in DOMAIN calls, NEW content, NEW next \in {"remove", "done"},
         Write(c, content, next), UNCHANGED <<kind, steps>>, calls[c].step # next,
         IsText => DOMAIN content \subseteq {Text},
         calls[c].op = "update" /\ next = "remove"
           => calls[c].new # calls[c].id /\ calls[c].new \in DOMAIN content,
         DOMAIN stored \ {calls[c].id} \subseteq DOMAIN content,
         \/ DOMAIN stored \subseteq DOMAIN content
         \/ calls[c].op = "update" => calls[c].new \in DOMAIN content \/ calls[c].raced
  PROVE  LostInv' /\ LostStep
<1>1. LostInv' /\ stored' = content /\ calls'[c].step = next
  BY WriteStage
<1>. QED
  BY <1>1 DEF LostStep, Lost, Accounts

LEMMA RowDelLost ==
  ASSUME LostInv, NEW c \in DOMAIN calls, RowDel(c) PROVE LostInv' /\ LostStep
<1>. DEFINE content == Drop(stored, calls[c].id)
<1>1. /\ kind # "list" /\ UNCHANGED <<kind, steps>>
      /\ calls[c].op = "delete" /\ calls[c].step = "remove"
      /\ Write(c, content, "done") \/ Look(c, FALSE, "error")
  BY DEF RowDel, ServerStep, ServerOnly, world
<1>2. DOMAIN content = DOMAIN stored \ {calls[c].id}
  BY <1>1 DEF Drop
<1>3. IsText => DOMAIN stored \subseteq {Text}
  BY DEF LostInv
<1>. HIDE DEF content
<1>4. CASE Write(c, content, "done")
  BY <1>1, <1>2, <1>3, <1>4, RowWriteLost
<1>5. CASE Look(c, FALSE, "error")
  BY <1>1, <1>5, LookLost
<1>. QED
  BY <1>1, <1>4, <1>5

LEMMA RowUpdateLost ==
  ASSUME LostInv, NEW c \in DOMAIN calls, RowUpdate(c) PROVE LostInv' /\ LostStep
<1>. DEFINE r == calls[c]
            legal == stored # << >> /\ r.id # Blank /\ (kind = "set" => r.new # Blank)
            good == legal /\ (r.new = r.id \/ ((kind = "set" => r.id \in DOMAIN stored)
                                               /\ r.new \notin DOMAIN stored))
<1>1. /\ kind \in {"hash", "zset", "set"} /\ kind # "list" /\ ~IsText
      /\ UNCHANGED <<kind, steps>> /\ r.op = "update"
  BY DEF RowUpdate, ServerStep, ServerOnly, world, IsText
<1>2. \/ r.step = "set" /\ Write(c, Put(stored, r.id, r.val), "done")
      \/ Look(c, FALSE, "error")
      \/ r.new = r.id /\ Look(c, good, "done")
      \/ r.new # r.id /\ Look(c, good, "add")
      \/ r.step = "add" /\ Write(c, Put(stored, r.new, r.val), "remove")
      \/ r.step = "remove" /\ Write(c, Drop(stored, r.id), "done")
  BY Zenon DEF RowUpdate
<1>3. \A id, v : DOMAIN Put(stored, id, v) = DOMAIN stored \cup {id}
  BY DEF Put
<1>4. /\ r.step \in {"add", "remove"} => r.new # r.id
      /\ r.step = "remove" /\ ~r.raced => r.new \in DOMAIN stored
  BY <1>1, Zenon DEF LostInv, InStage
<1>. HIDE DEF good
<1>5. CASE r.step = "set" /\ Write(c, Put(stored, r.id, r.val), "done")
  <2>. DEFINE content == Put(stored, r.id, r.val)
  <2>1. Write(c, content, "done") /\ DOMAIN stored \subseteq DOMAIN content
    BY <1>3, <1>5
  <2>. HIDE DEF content
  <2>. QED
    BY <1>1, <1>5, <2>1, RowWriteLost
<1>6. CASE Look(c, FALSE, "error")
  BY <1>1, <1>6, LookLost
<1>7. CASE Look(c, good, "done")
  BY <1>1, <1>7, LookLost
<1>8. CASE r.new # r.id /\ Look(c, good, "add")
  BY <1>1, <1>8, LookLost
<1>9. CASE r.step = "add" /\ Write(c, Put(stored, r.new, r.val), "remove")
  <2>. DEFINE content == Put(stored, r.new, r.val)
  <2>0. DOMAIN content = DOMAIN stored \cup {r.new}
    BY <1>3, Zenon
  <2>1. Write(c, content, "remove") /\ DOMAIN stored \subseteq DOMAIN content /\ r.new \in DOMAIN content
    <3>. HIDE DEF r
    <3>. QED
      BY <1>9, <2>0
  <2>. HIDE DEF content
  <2>. QED
    BY <1>1, <1>4, <1>9, <2>1, RowWriteLost
<1>10. CASE r.step = "remove" /\ Write(c, Drop(stored, r.id), "done")
  <2>. DEFINE content == Drop(stored, r.id)
  <2>1. Write(c, content, "done") /\ DOMAIN content = DOMAIN stored \ {r.id}
    BY <1>1, <1>10 DEF Drop
  <2>. HIDE DEF content
  <2>. QED
    BY <1>1, <1>4, <1>10, <2>1, RowWriteLost
<1>. QED
  BY <1>2, <1>5, <1>6, <1>7, <1>8, <1>9, <1>10

LEMMA KeyCreateLost ==
  ASSUME LostInv, NEW c \in DOMAIN calls, KeyCreate(c) PROVE LostInv' /\ LostStep
<1>. DEFINE content == Inserted(calls[c])  r == calls[c]
<1>1. /\ UNCHANGED <<kind, steps>> /\ r.op \in {"insert", "create"} /\ r.step = "write"
      /\ Write(c, content, "done") \/ Look(c, FALSE, "error")
  BY DEF KeyCreate, ServerStep, ServerOnly, world
<1>2. CASE kind = "list" /\ Write(c, content, "done")
  <2>. DEFINE vals == [i \in DOMAIN r.val |-> r.val[i].b]
  <2>1. content = Reverse(vals) \o stored
    <3>1. kind = "list"
      BY <1>2
    <3>. QED
      BY <3>1 DEF Inserted, IsText
  <2>2. IsList(r.val) /\ IsList(stored)
    BY <1>1, <1>2, Zenon DEF LostInv, InStage
  <2>3. IsList(Reverse(vals))
    <3>. DEFINE n == Len(r.val)  S == {vals[i] : i \in DOMAIN r.val}
    <3>1. n \in Nat /\ DOMAIN r.val = 1..n
      BY <2>2, IsListFact
    <3>2. vals \in [1..n -> S]
      BY <3>1
    <3>. HIDE DEF vals, n, S
    <3>3. vals \in Seq(S)
      BY <3>1, <3>2
    <3>. QED
      BY <3>3, ReverseFact, IsListFact
  <2>4. IsList(content) /\ \A v : ~(Count(stored, v) > Count(content, v))
    BY <2>1, <2>2, <2>3, PrependLoses, Zenon
  <2>. HIDE DEF content
  <2>. QED
    BY <1>1, <1>2, <2>4, ListWriteLost
<1>3. CASE kind # "list" /\ Write(c, content, "done")
  <2>2. DOMAIN stored \subseteq DOMAIN content /\ (IsText => DOMAIN content \subseteq {Text})
    <3>1. IsText => DOMAIN stored \subseteq {Text}
      BY DEF LostInv
    <3>. QED
      BY <1>3, <3>1 DEF Inserted, IsText, Put
  <2>. HIDE DEF content
  <2>. QED
    BY <1>1, <1>3, <2>2, RowWriteLost
<1>4. CASE Look(c, FALSE, "error")
  BY <1>1, <1>4, LookLost
<1>. QED
  BY <1>1, <1>2, <1>3, <1>4

\* A create of another kind: a text takes the place of all rows, and accounts
\* for them; any other finds none, or fails.
LEMMA KeyCreateOtherLost ==
  ASSUME LostInv, NEW c \in DOMAIN calls, KeyCreateOther(c) PROVE LostInv' /\ LostStep
<1>. DEFINE r == calls[c]
<1>1. /\ UNCHANGED <<kind, steps>> /\ r.op = "create" /\ r.step = "write"
      /\ \/ (r.new = "text" \/ stored = << >>) /\ Write(c, << >>, "done")
         \/ Look(c, FALSE, "error")
  BY Zenon DEF KeyCreateOther, ServerOnly, world
<1>2. CASE (r.new = "text" \/ stored = << >>) /\ Write(c, << >>, "done")
  <2>1. IsList(<< >>) /\ DOMAIN << >> = {}
    BY DEF IsList
  <2>2. LostInv' /\ stored' = << >> /\ calls'[c].step = "done"
    BY <1>1, <1>2, <2>1, WriteStage
  <2>3. CASE r.new = "text"
    <3>1. \A lost : Accounts(c, lost)
      BY <1>1, <2>2, <2>3 DEF Accounts, Overwrites
    <3>. QED
      BY <2>2, <3>1, Zenon DEF LostStep
  <2>4. CASE stored = << >>
    BY <2>2, <2>4, NothingLost DEF LostInv
  <2>. QED
    BY <1>2, <2>3, <2>4
<1>3. CASE Look(c, FALSE, "error")
  BY <1>1, <1>3, LookLost
<1>. QED
  BY <1>1, <1>2, <1>3

LEMMA WrongTypeLost ==
  ASSUME LostInv, NEW c \in DOMAIN calls, WrongType(c) PROVE LostInv' /\ LostStep
<1>1. UNCHANGED <<kind, steps>> /\ Look(c, FALSE, "error")
  BY Zenon DEF WrongType, ServerOnly, world
<1>. QED
  BY <1>1, LookLost

LEMMA KeyValueUpdateLost ==
  ASSUME LostInv, NEW c \in DOMAIN calls, KeyValueUpdate(c) PROVE LostInv' /\ LostStep
<1>. DEFINE content == [x \in {Text} |-> calls[c].val]
<1>1. /\ UNCHANGED <<kind, steps>> /\ calls[c].op = "text" /\ calls[c].step = "write"
      /\ Write(c, content, "done")
  BY DEF KeyValueUpdate, ServerStep, ServerOnly, world
<1>2. IsText /\ kind # "list" /\ DOMAIN stored \subseteq {Text}
  BY <1>1 DEF LostInv, InStage, IsText
<1>3. DOMAIN content = {Text}
  OBVIOUS
<1>. HIDE DEF content
<1>. QED
  BY <1>1, <1>2, <1>3, RowWriteLost

\* A request that goes out has seen nothing yet.
LEMMA StartLost ==
  ASSUME LostInv, NEW r, IsCall(r), Start(r), InStage(kind, stored, r),
         UNCHANGED <<kind, stored>>, steps' \in Nat
  PROVE  LostInv' /\ LostStep
<1>1. CallsGood' /\ \A d \in DOMAIN calls : d \in DOMAIN calls' /\ calls'[d] = calls[d]
  BY StartFact DEF LostInv
<1>2. \A d \in DOMAIN calls' \ DOMAIN calls : calls'[d] = r
  BY DEF Start
<1>3. \A d \in DOMAIN calls' : InStage(kind', stored', calls'[d])
  BY <1>1, <1>2 DEF LostInv
<1>4. LostInv'
  BY <1>1, <1>3 DEF LostInv, IsText
<1>. QED
  BY <1>4, NothingLost DEF LostInv

LEMMA RequestLost ==
  ASSUME LostInv, NEW op \in Op, NEW id, NEW val, NEW new, NEW first \in {"check", "set", "remove", "write"},
         Start(Request(op, id, val, new, first)), UNCHANGED <<kind, stored>>, steps' \in Nat,
         op = "text" => IsText,
         kind = "list" /\ op \in {"insert", "create"} => IsList(val),
         kind = "list" => first # "set",
         op = "update" => first # "remove"
  PROVE  LostInv' /\ LostStep
<1>. DEFINE r == Request(op, id, val, new, first)
<1>1. first \in Stage
  BY DEF Stage
<1>2. IsCall(r)
  BY <1>1, RequestIsCall, Zenon
<1>3. /\ r.op = op /\ r.id = id /\ r.val = val /\ r.new = new /\ r.step = first
  BY DEF Request
<1>4. Start(r)
  OBVIOUS
<1>. HIDE DEF r
<1>5. InStage(kind, stored, r)
  BY <1>3 DEF InStage, IsText
<1>. QED
  BY <1>2, <1>4, <1>5, StartLost

LEMMA QuietLost ==
  ASSUME LostInv, UNCHANGED <<kind, stored>>, CallsGood', DOMAIN calls' \subseteq DOMAIN calls,
         \A d \in DOMAIN calls' :
           /\ SameAsked(calls'[d], calls[d])
           /\ calls'[d].step = calls[d].step /\ calls'[d].raced = calls[d].raced,
         steps' \in Nat
  PROVE  LostInv' /\ LostStep
<1>1. ASSUME NEW d \in DOMAIN calls' PROVE InStage(kind', stored', calls'[d])
  <2>. DEFINE r == calls[d]  q == calls'[d]
  <2>1. /\ InStage(kind, stored, r) /\ SameAsked(q, r)
        /\ q.step = r.step /\ q.raced = r.raced
    BY DEF LostInv
  <2>. HIDE DEF r, q
  <2>2. InStage(kind, stored, q)
    BY <2>1 DEF InStage, SameAsked
  <2>. QED
    BY <2>2 DEF q
<1>2. LostInv'
  BY <1>1 DEF LostInv, IsText
<1>. QED
  BY <1>2, NothingLost DEF LostInv

LEMMA UnchangedLost ==
  ASSUME LostInv, UNCHANGED <<kind, stored, calls>>, steps' \in Nat
  PROVE  LostInv' /\ LostStep
<1>1. CallsGood' /\ \A d \in DOMAIN calls' : SameAsked(calls'[d], calls[d])
  BY DEF LostInv, CallsGood, SameAsked
<1>. QED
  BY <1>1, QuietLost

LEMMA StepFact == ASSUME LostInv, Step \/ UNCHANGED steps PROVE steps' \in Nat
BY DEF LostInv, Step

LEMMA UserLost == ASSUME LostInv, EditorsInv, User PROVE LostInv' /\ LostStep
<1>1. CASE \/ Reload \/ Dismiss \/ ConfirmedForNothing \/ CloseDrawer
           \/ \E id \in DOMAIN shown : AskDelete(id) \/ Edit(id)
           \/ InsertDrawer \/ \E v \in Word \cup {Blank} : Type(v)
  <2>1. UNCHANGED <<kind, stored, calls>> /\ (Step \/ UNCHANGED steps)
    BY <1>1, Zenon DEF Reload, Dismiss, ConfirmedForNothing, CloseDrawer, AskDelete, Edit, Click,
         InsertDrawer, OpenInsert, CloseInsert, EditGrid, Type, world, server
  <2>. QED
    BY <2>1, StepFact, UnchangedLost
<1>2. CASE \E first \in {"check", "remove"} : DeleteRequest(first)
  <2>1. PICK first \in {"check", "remove"} : DeleteRequest(first)
    BY <1>2
  <2>2. UNCHANGED <<kind, stored>> /\ steps' \in Nat /\ Start(Request("delete", ask.id, ask.val, None, first))
    BY <2>1, StepFact DEF DeleteRequest, world, server
  <2>3. "delete" \in Op /\ first \in {"check", "set", "remove", "write"} /\ first # "set"
    BY DEF Op
  <2>. QED
    BY <2>2, <2>3, RequestLost
<1>3. CASE \E name, v : Save(name, v)
  <2>1. PICK val, new, first :
          /\ SaveRequest(val, new, first) /\ first \in {"check", "set"}
          /\ kind = "list" => first = "check"
    BY <1>3, Zenon DEF Save
  <2>2. UNCHANGED <<kind, stored>> /\ steps' \in Nat /\ Start(Request("update", drawer.id, val, new, first))
    BY <2>1, StepFact DEF SaveRequest, world, server
  <2>3. "update" \in Op
    BY DEF Op
  <2>. QED
    BY <2>1, <2>2, <2>3, RequestLost
<1>4. CASE Insert /\ ~IsText
  <2>. DEFINE val == Sent(kind, grid.form)
  <2>1. UNCHANGED <<kind, stored>> /\ steps' \in Nat /\ Start(Request("insert", None, val, None, "write"))
    BY <1>4, StepFact DEF Insert, world, server
  <2>2. kind = "list" => IsList(val)
    <3>1. grid.form \in Seq(GridRow)
      BY <1>4 DEF EditorsInv, GridGood
    <3>. QED
      BY <3>1, SentList
  <2>3. "insert" \in Op
    BY DEF Op
  <2>. HIDE DEF val
  <2>. QED
    BY <2>1, <2>2, <2>3, RequestLost
<1>5. CASE AddKey
  <2>1. PICK val, new :
          /\ Start(Request("create", None, val, new, "write"))
          /\ (\E w \in Word : val = Added(w)) \/ val = << >>
    BY <1>5, Zenon DEF AddKey
  <2>2. UNCHANGED <<kind, stored>> /\ steps' \in Nat
    BY <1>5, StepFact DEF AddKey, Click, world, server
  <2>3. kind = "list" => IsList(val)
    <3>. SUFFICES ASSUME kind = "list" PROVE IsList(val)
      OBVIOUS
    <3>1. IsList(<< >>)
      BY DEF IsList
    <3>2. ASSUME NEW w \in Word PROVE IsList(Added(w))
      <4>1. Added(w) = << Row(w, w) >>
        BY DEF Added, IsText
      <4>2. << Row(w, w) >> \in Seq({Row(w, w)})
        OBVIOUS
      <4>. QED
        BY <4>1, <4>2, IsListFact
    <3>. QED
      BY <2>1, <3>1, <3>2
  <2>4. "create" \in Op
    BY DEF Op
  <2>. QED
    BY <2>1, <2>2, <2>3, <2>4, RequestLost
<1>6. CASE SaveText
  <2>1. /\ UNCHANGED <<kind, stored>> /\ steps' \in Nat /\ IsText
        /\ Start(Request("text", Text, text.value, None, "write"))
    BY <1>6, StepFact DEF SaveText, Click, world, server
  <2>2. "text" \in Op
    BY DEF Op
  <2>. QED
    BY <2>1, <2>2, RequestLost
<1>7. kind \in {"list", "hash", "set", "zset", "stream"} => ~IsText
  BY DEF IsText
<1>. QED
  BY <1>1, <1>2, <1>3, <1>4, <1>5, <1>6, <1>7, Zenon
     DEF User, ItemDel, FieldDel, MemberDel, ZsetMemberDel, EntryDel,
         ListRow, HashRow, SetRow, ZsetRow, StreamRow,
         ListDrawer, HashDrawer, SetDrawer, ZsetDrawer, StreamDrawer,
         ListSubmit, HashSubmit, SetSubmit, ZsetSubmit, StreamSubmit

\* Another client takes away what it likes, but not in a step of this one.
LEMMA AnotherLost == ASSUME LostInv, Another PROVE LostInv' /\ steps' # steps
<1>1. /\ kind' = kind /\ steps' = steps + 1 /\ steps \in Nat
      /\ calls' = Raced(calls, None) /\ CallsGood
  BY DEF Another, Step, world, LostInv
<1>2. /\ CallsGood' /\ DOMAIN calls' = DOMAIN calls
      /\ \A d \in DOMAIN calls :
           /\ SameAsked(calls'[d], calls[d]) /\ calls'[d].step = calls[d].step
           /\ calls'[d].raced = (calls[d].raced \/ Pending(calls[d]))
  BY <1>1, RacedFact, Zenon
<1>3. ASSUME NEW d \in DOMAIN calls PROVE InStage(kind, stored', calls'[d])
  <2>. DEFINE r == calls[d]  q == calls'[d]
  <2>1. /\ InStage(kind, stored, r) /\ SameAsked(q, r) /\ q.step = r.step
        /\ q.raced = (r.raced \/ Pending(r))
    BY <1>2 DEF LostInv
  <2>. HIDE DEF r, q
  <2>2. q.step \in {"mark", "set"} => q.raced
    BY <2>1 DEF Pending
  <2>3. q.op = "update" /\ q.step = "remove" => q.raced
    BY <2>1 DEF Pending, SameAsked
  <2>4. InStage(kind, stored', q)
    BY <2>1, <2>2, <2>3 DEF InStage, SameAsked
  <2>. QED
    BY <2>4 DEF q
<1>4. kind = "list" => IsList(stored')
  <2>. SUFFICES ASSUME kind = "list" PROVE IsList(stored')
    OBVIOUS
  <2>1. ~IsText /\ IsList(stored)
    BY DEF IsText, LostInv
  <2>2. \/ \E v \in Word : stored' = << v >> \o stored
        \/ stored # << >> /\ stored' = Tail(stored)
    BY <2>1, Zenon DEF Another
  <2>3. ASSUME NEW v \in Word PROVE IsList(<< v >> \o stored)
    <3>1. << v >> \in Seq({v})
      OBVIOUS
    <3>. QED
      BY <2>1, <3>1, IsListFact, PrependLoses
  <2>4. stored # << >> => IsList(Tail(stored))
    <3>1. stored # << >> => Tail(stored) \in Seq({stored[i] : i \in DOMAIN stored})
      <4>. DEFINE S == {stored[i] : i \in DOMAIN stored}
      <4>1. stored \in Seq(S)
        BY <2>1 DEF IsList
      <4>. HIDE DEF S
      <4>2. stored # << >> => Tail(stored) \in Seq(S)
        BY <4>1
      <4>. QED
        BY <4>2 DEF S
    <3>. QED
      BY <3>1, IsListFact
  <2>. QED
    BY <2>2, <2>3, <2>4
<1>5. IsText => DOMAIN stored' \subseteq {Text}
  <2>. SUFFICES ASSUME IsText PROVE DOMAIN stored' \subseteq {Text}
    OBVIOUS
  <2>1. kind \notin {"list", "hash", "zset", "set"} /\ DOMAIN stored \subseteq {Text}
    BY DEF IsText, LostInv
  <2>2. \/ \E x \in DOMAIN stored : stored' = Drop(stored, x)
        \/ \E v \in Word : stored' = [x \in {Text} |-> v]
    BY <2>1 DEF Another
  <2>3. \A x : DOMAIN Drop(stored, x) = DOMAIN stored \ {x}
    BY <2>1 DEF Drop
  <2>. QED
    BY <2>1, <2>2, <2>3
<1>. QED
  BY <1>1, <1>2, <1>3, <1>4, <1>5 DEF LostInv, IsText

LEMMA ServerLost == ASSUME LostInv, Server PROVE LostInv' /\ (steps' = steps => LostStep)
<1>1. CASE Read
  <2>1. /\ CallsGood' /\ DOMAIN calls' = DOMAIN calls
        /\ \A d \in DOMAIN calls' :
             /\ SameAsked(calls'[d], calls[d])
             /\ calls'[d].step = calls[d].step /\ calls'[d].raced = calls[d].raced
    BY <1>1, ReadFact DEF LostInv
  <2>2. UNCHANGED <<kind, stored>> /\ steps' \in Nat
    BY <1>1, StepFact DEF Read, world, server
  <2>. QED
    BY <2>1, <2>2, QuietLost
<1>2. CASE Another
  BY <1>2, AnotherLost
<1>3. ASSUME NEW c \in DOMAIN calls, CallFails(c) PROVE LostInv' /\ LostStep
  <2>1. /\ calls' = [calls EXCEPT ![c].step = "error"]
        /\ UNCHANGED <<kind, stored>> /\ steps' \in Nat
    BY <1>3, StepFact DEF CallFails, world, server
  <2>. QED
    BY <2>1, StageValues, LookStage
<1>. QED
  BY <1>1, <1>2, <1>3, ListItemDelLost, RowDelLost, ListItemUpdateLost, RowUpdateLost,
     KeyCreateLost, KeyCreateOtherLost, KeyValueUpdateLost, WrongTypeLost, Zenon DEF Server

LEMMA AnswersLost == ASSUME LostInv, Answers PROVE LostInv' /\ LostStep
<1>1. CASE Fetched \/ FetchFailed \/ Retyped
  <2>1. UNCHANGED <<kind, stored, calls>> /\ (Step \/ UNCHANGED steps)
    BY <1>1, Zenon DEF Fetched, FetchFailed, Retyped, world, server
  <2>. QED
    BY <2>1, StepFact, UnchangedLost
<1>2. ASSUME NEW c \in DOMAIN calls, NEW op, Over(c, op) PROVE LostInv' /\ LostStep
  <2>1. CallsGood' /\ DOMAIN calls' \subseteq DOMAIN calls /\ \A d \in DOMAIN calls' : calls'[d] = calls[d]
    BY <1>2, OverFact DEF LostInv
  <2>2. UNCHANGED <<kind, stored>> /\ steps' \in Nat
    BY <1>2, StepFact DEF Over, world, server
  <2>. QED
    BY <2>1, <2>2, QuietLost DEF SameAsked
<1>. QED
  BY <1>1, <1>2, Zenon DEF Answers, Deleted, Saved, InsertSaved, Created, TextSaved

LEMMA InitLost == Init => LostInv
<1>. SUFFICES ASSUME Init PROVE LostInv
  OBVIOUS
<1>1. DOMAIN calls = {} /\ steps = 0 /\ stored \in Contents
  BY DEF Init
<1>2. kind = "list" => IsList(stored)
  <2>. SUFFICES ASSUME kind = "list" PROVE IsList(stored)
    OBVIOUS
  <2>1. stored \in {<< v >> : v \in Word} \cup {<< v, w >> : v \in Word, w \in Word}
    <3>1. Contents = {<< v >> : v \in Word} \cup {<< v, w >> : v \in Word, w \in Word}
      BY DEF Contents
    <3>. QED
      BY <1>1, <3>1
  <2>2. stored \in Seq(Word)
    <3>1. \A v \in Word : << v >> \in Seq(Word)
      OBVIOUS
    <3>2. \A v, w \in Word : << v, w >> \in Seq(Word)
      OBVIOUS
    <3>3. CASE \E v \in Word : stored = << v >>
      BY <3>1, <3>3
    <3>4. CASE \E v, w \in Word : stored = << v, w >>
      BY <3>2, <3>4
    <3>. QED
      BY <2>1, <3>3, <3>4
  <2>. QED
    BY <2>2, IsListFact
<1>3. IsText => DOMAIN stored \subseteq {Text}
  <2>. SUFFICES ASSUME IsText PROVE DOMAIN stored \subseteq {Text}
    OBVIOUS
  <2>1. stored \in {[x \in {Text} |-> v] : v \in Word}
    <3>1. kind = "string" \/ kind = "rejson-rl"
      BY DEF IsText
    <3>2. Contents = {[x \in {Text} |-> v] : v \in Word}
      BY <3>1 DEF Contents
    <3>. QED
      BY <1>1, <3>2, Zenon
  <2>. QED
    BY <2>1
<1>. QED
  BY <1>1, <1>2, <1>3 DEF LostInv, CallsGood

\* LostInv holds in every reachable state: what a handler of several commands
\* (list_item_del_logic.go, set_member_update_logic.go) has checked still holds when
\* it goes on, unless another writer came between.
THEOREM LostInductive == Spec => []LostInv
<1>1. ASSUME LostInv, UNCHANGED vars PROVE LostInv'
  <2>1. UNCHANGED <<kind, stored, calls>> /\ steps' \in Nat
    BY <1>1, StepFact DEF vars, world, server
  <2>. QED
    BY <1>1, <2>1, UnchangedLost
<1>2. LostInv /\ EditorsInv /\ [Next]_vars => LostInv'
  BY <1>1, UserLost, ServerLost, AnswersLost, Zenon DEF Next
<1>. QED
  BY <1>2, InitLost, EditorsInductive, PTL DEF Spec

\* A row of a list is lost only to a request about the value that was seen,
\* or one that was overtaken; any other row only to a deletion of that row,
\* or a renaming whose new row is there, or one that was overtaken; and any of
\* them to a text the add key dialog sends under the name of the key.
THEOREM OnlyTheSeenHolds == Spec => OnlyTheSeenIsLost
<1>1. LostInv /\ EditorsInv /\ [Next]_vars
        => UNCHANGED vars \/ (steps' = steps => LostStep)
  BY UserLost, ServerLost, AnswersLost, Zenon DEF Next
<1>2. LostStep =>
        \A lost \in Lost(stored, stored') :
          \E c \in DOMAIN calls :
            /\ calls[c].step # calls'[c].step
            /\ \/ Overwrites(calls[c])
               \/ kind = "list" /\ (calls[c].val = lost \/ calls[c].raced)
               \/ /\ kind # "list" /\ calls[c].id = lost
                  /\ calls[c].op = "update" =>
                       calls[c].new \in DOMAIN stored' \/ calls[c].raced
  BY Zenon DEF LostStep, Accounts
<1>. QED
  BY <1>1, <1>2, LostInductive, EditorsInductive, PTL DEF OnlyTheSeenIsLost, Spec
=============================================================================
