--------------------------- MODULE SearchProofs ---------------------------
(***************************************************************************)
(* Proofs about the key search: KeysSearch, for any keyspace, filters,     *)
(* limit and number of runs that overlap, and KeyFilter, for any clauses   *)
(* and keys.                                                               *)
(*                                                                         *)
(* The search: only the current run has a goroutine that goes on, and all  *)
(* its frames are of the filters it was started with.  What the list       *)
(* shows, with what is on its way to it, covers every page before the      *)
(* cursor that comes with it.                                              *)
(*                                                                         *)
(* The filter: what globMatch and the reading of a class compute is given  *)
(* by functions that look further on in the pattern.  Induction from the   *)
(* end of the pattern shows that these functions exist, and from there     *)
(* that a plain head and an asterisk match exactly what begins with the    *)
(* head.                                                                   *)
(***************************************************************************)
EXTENDS KeysSearch, KeyFilter, FiniteSetTheorems, TLAPS

\* No page reaches the limit of a run on its own.
ShortPages == \A l \in Layouts : \A n \in DOMAIN l : \A i \in DOMAIN l[n] : Len(l[n][i]) < Limit

EventFrame == [kind : {"event"}, keys : SUBSET Key, cursor : Cursor, done : BOOLEAN,
               truncated : BOOLEAN]
Frame == EventFrame \cup {End, Error}
CallType == [at : {"open", "closed"}, bulk : BOOLEAN, flt : SUBSET Key, more : BOOLEAN,
             gained : BOOLEAN, from : Cursor]
ServerType == [on : BOOLEAN, cur : Cursor, batch : SUBSET Key, matched : 0 .. Limit - 1]

TypeInv ==
  /\ layout \in Layouts /\ filter \in Filters /\ shown \subseteq Key /\ cursorRef \in Cursor
  /\ hasMore \in BOOLEAN /\ isLoading \in BOOLEAN /\ failed \in BOOLEAN /\ revived \in BOOLEAN
  /\ current \in Run \cup {None} /\ cancelled \subseteq Run
  /\ call \in [Run -> CallType]
  /\ server \in [Run -> ServerType]
  /\ wire \in [Run -> Seq(Frame)]

\* One cursor is further than another.
Later(a, b) == a.node > b.node \/ (a.node = b.node /\ a.pos > b.pos)

\* A run in itself: its frames are of its filters, it has moved on from where it
\* began unless it has found nothing yet, and a last event comes before the end.
RunOK(c, s, w) ==
  /\ c.at = "closed" => w = << >> /\ ~s.on
  /\ s.on => /\ s.batch \subseteq c.flt
             /\ Later(s.cur, c.from) \/ (s.cur = c.from /\ s.matched = 0)
             /\ \A i \in DOMAIN w : w[i].kind = "event" /\ ~w[i].done
  /\ \A i \in DOMAIN w : w[i].kind = "event" =>
       /\ w[i].keys \subseteq c.flt
       /\ ShortPages /\ w[i].truncated => Later(w[i].cursor, c.from)
  /\ \A i \in DOMAIN w : w[i].kind = "end" /\ i > 1 => w[i - 1].kind = "event" /\ w[i - 1].done

\* The runs together: only the current one goes on.
OnlyCurrent ==
  /\ isLoading => current # None /\ call[current].at = "open" /\ current \notin cancelled
  /\ current # None /\ call[current].at = "open" => isLoading
  /\ \A r \in Run :
       /\ server[r].on => isLoading /\ r = current
       /\ call[r].at = "closed" => r \notin cancelled

\* The list and the current run are of the filters of the form.
OfFilters ==
  ~revived => shown \subseteq filter /\ (isLoading => call[current].flt = filter)

Base ==
  /\ TypeInv /\ OnlyCurrent /\ OfFilters
  /\ \A r \in Run : RunOK(call[r], server[r], wire[r])

-----------------------------------------------------------------------------
(* What has been looked at.                                                 *)

Before(n, i, cur) == n - 1 < cur.node \/ (n - 1 = cur.node /\ i - 1 < cur.pos)

\* S has all matches of the pages before a cursor, or of all pages.
Covered(l, S, cur, f) ==
  \A n \in DOMAIN l : \A i \in DOMAIN l[n] : Before(n, i, cur) => ToSet(l[n][i]) \cap f \subseteq S
All(l, S, f) == \A n \in DOMAIN l : \A i \in DOMAIN l[n] : ToSet(l[n][i]) \cap f \subseteq S

\* The list once the first i frames have arrived.
Sent(S, w, i) == S \cup UNION {w[j].keys : j \in {k \in 1 .. i : w[k].kind = "event"}}

Honest(l, f, S, s, w) ==
  /\ \A i \in DOMAIN w : w[i].kind = "event" =>
       /\ Covered(l, Sent(S, w, i), w[i].cursor, f)
       /\ w[i].done /\ ~w[i].truncated => All(l, Sent(S, w, i), f)
  /\ s.on => Covered(l, Sent(S, w, Len(w)) \cup s.batch, s.cur, f)

NothingMissed ==
  ~revived =>
    /\ Covered(layout, shown, cursorRef, filter)
    /\ isLoading => /\ Honest(layout, filter, shown, server[current], wire[current])
                    /\ wire[current] # << >> /\ Head(wire[current]).kind = "end" =>
                         hasMore \/ All(layout, shown, filter)
    /\ ~isLoading /\ current # None /\ ~failed => hasMore \/ All(layout, shown, filter)

-----------------------------------------------------------------------------
(* Cursors and pages.                                                       *)

LEMMA Cursors ==
  /\ Start \in Cursor /\ Done \notin Cursor /\ Printed(Done) = Start
  /\ \A c \in Cursor : Printed(c) = c /\ ~Later(Start, c)
  /\ \A a, b, c \in Cursor : Later(a, b) /\ Later(b, c) => Later(a, c)
BY DEF Start, Done, Cursor, Printed, Later

\* The keyspace is made of pages of keys.
LEMMA LayoutIs ==
  ASSUME TypeInv
  PROVE  /\ layout \in Seq(Seq(Seq(Key))) /\ DOMAIN layout = 1 .. Len(layout)
         /\ \A n \in DOMAIN layout : layout[n] \in Seq(Seq(Key)) /\ DOMAIN layout[n] = 1 .. Len(layout[n])
         /\ \A n \in DOMAIN layout : \A i \in DOMAIN layout[n] : layout[n][i] \in Seq(Key)
<1>1. layout \in Seq(Seq(Seq(Key)))
  BY LayoutAssumption DEF TypeInv
<1>2. DOMAIN layout = 1 .. Len(layout) /\ \A n \in DOMAIN layout : layout[n] \in Seq(Seq(Key))
  BY <1>1
<1>3. \A n \in DOMAIN layout : DOMAIN layout[n] = 1 .. Len(layout[n])
  BY <1>2
<1>4. \A n \in DOMAIN layout : \A i \in DOMAIN layout[n] : layout[n][i] \in Seq(Key)
  BY <1>2
<1>. QED
  BY <1>1, <1>2, <1>3, <1>4

\* The walk is over some of the masters, or over all.
LEMMA MastersAre ==
  ASSUME TypeInv, NEW nodes \in Masters
  PROVE  /\ nodes \in Seq(DOMAIN layout)
         /\ ~LostAppends => Len(nodes) = Len(layout) /\ \A n \in DOMAIN layout : nodes[n] = n
<1>1. DOMAIN layout = 1 .. Len(layout) /\ Len(layout) \in Nat
  BY LayoutIs
<1>2. CASE LostAppends
  <2>1. PICK m \in 1 .. Len(layout) : nodes \in [1 .. m -> DOMAIN layout]
    BY <1>1, <1>2 DEF Masters
  <2>. QED
    BY <1>1, <1>2, <2>1
<1>3. CASE ~LostAppends
  <2>1. nodes = [n \in 1 .. Len(layout) |-> n]
    BY <1>1, <1>3 DEF Masters
  <2>. QED
    BY <1>1, <2>1
<1>. QED
  BY <1>2, <1>3

\* A reply is a page of the keyspace or nothing, and the walk goes forward.
LEMMA PageIs ==
  ASSUME TypeInv, NEW nodes \in Masters, NEW cur \in Cursor
  PROVE  LET p == Page(cur, nodes) IN
         /\ p.keys \in Seq(Key)
         /\ ShortPages => Len(p.keys) < Limit
         /\ p.next = Done \/ (p.next \in Cursor /\ Later(p.next, cur))
<1>. DEFINE p == Page(cur, nodes)
<1>1. nodes \in Seq(DOMAIN layout) /\ cur.node \in Nat /\ cur.pos \in Nat
  BY MastersAre DEF Cursor
<1>0. Limit \in Nat /\ Limit > 0
  BY LimitAssumption
<1>2. CASE cur.node >= Len(nodes)
  <2>1. p = [keys |-> << >>, next |-> Done]
    BY <1>2 DEF Page
  <2>. QED
    BY <1>0, <2>1
<1>3. CASE cur.node < Len(nodes)
  <2>. DEFINE n == nodes[cur.node + 1]
              pages == layout[n]
  <2>1. n \in DOMAIN layout /\ Len(nodes) \in Nat
    BY <1>1, <1>3
  <2>2. /\ p.keys = IF cur.pos < Len(pages) THEN pages[cur.pos + 1] ELSE << >>
        /\ p.next = IF cur.pos + 1 < Len(pages) THEN [cur EXCEPT !.pos = cur.pos + 1]
                    ELSE IF cur.node + 1 < Len(nodes) THEN [node |-> cur.node + 1, pos |-> 0]
                    ELSE Done
    BY <1>1, <1>3, <2>1 DEF Page
  <2>3. pages \in Seq(Seq(Key)) /\ DOMAIN pages = 1 .. Len(pages) /\ Len(pages) \in Nat
    BY <2>1, LayoutIs
  <2>. HIDE DEF pages
  <2>4. cur.pos < Len(pages) => cur.pos + 1 \in DOMAIN pages /\ pages[cur.pos + 1] \in Seq(Key)
    BY <1>1, <2>3
  <2>5. p.keys \in Seq(Key)
    BY <2>2, <2>4
  <2>6. ShortPages => Len(p.keys) < Limit
    <3>1. CASE cur.pos < Len(pages)
      BY <2>1, <2>2, <2>4, <3>1 DEF ShortPages, TypeInv, pages
    <3>2. CASE ~(cur.pos < Len(pages))
      BY <1>0, <2>2, <3>2
    <3>. QED
      BY <3>1, <3>2
  <2>7. p.next = Done \/ (p.next \in Cursor /\ Later(p.next, cur))
    BY <1>1, <2>2 DEF Cursor, Later
  <2>. QED
    BY <2>5, <2>6, <2>7
<1>. QED
  BY <1>1, <1>2, <1>3

\* When no master is lost, what lies before the next cursor is what lay before
\* the last one and the page between.
LEMMA PageCovers ==
  ASSUME TypeInv, ~LostAppends, NEW nodes \in Masters, NEW cur \in Cursor,
         NEW S, NEW T, NEW f, Covered(layout, S, cur, f),
         ToSet(Page(cur, nodes).keys) \cap f \subseteq T
  PROVE  LET p == Page(cur, nodes) IN
         /\ p.next # Done => Covered(layout, S \cup T, p.next, f)
         /\ p.next = Done => All(layout, S \cup T, f)
<1>. DEFINE p == Page(cur, nodes)
<1>1. /\ Len(nodes) = Len(layout) /\ \A n \in DOMAIN layout : nodes[n] = n
      /\ cur.node \in Nat /\ cur.pos \in Nat
      /\ DOMAIN layout = 1 .. Len(layout) /\ Len(layout) \in Nat
  BY MastersAre, LayoutIs DEF Cursor
<1>2. ASSUME NEW n \in DOMAIN layout, NEW i \in DOMAIN layout[n],
             n = cur.node + 1, i = cur.pos + 1
      PROVE  ToSet(layout[n][i]) \cap f \subseteq T
  <2>1. DOMAIN layout[n] = 1 .. Len(layout[n]) /\ Len(layout[n]) \in Nat
    BY LayoutIs
  <2>2. p.keys = layout[n][i]
    BY <1>1, <1>2, <2>1 DEF Page
  <2>. QED
    BY <2>2
<1>3. ASSUME NEW n \in DOMAIN layout, NEW i \in DOMAIN layout[n],
             p.next = Done \/ Before(n, i, p.next)
      PROVE  Before(n, i, cur) \/ (n = cur.node + 1 /\ i = cur.pos + 1)
  <2>1. DOMAIN layout[n] = 1 .. Len(layout[n]) /\ Len(layout[n]) \in Nat
    BY LayoutIs
  <2>2. CASE cur.node >= Len(nodes)
    BY <1>1, <2>1, <2>2 DEF Before
  <2>3. CASE cur.node < Len(nodes)
    <3>. DEFINE pages == layout[cur.node + 1]
    <3>1. cur.node + 1 \in DOMAIN layout /\ nodes[cur.node + 1] = cur.node + 1
      BY <1>1, <2>3
    <3>2. p.next = IF cur.pos + 1 < Len(pages) THEN [cur EXCEPT !.pos = cur.pos + 1]
                   ELSE IF cur.node + 1 < Len(nodes) THEN [node |-> cur.node + 1, pos |-> 0]
                   ELSE Done
      BY <1>1, <2>3, <3>1 DEF Page
    <3>3. n = cur.node + 1 => pages = layout[n]
      OBVIOUS
    <3>4. Len(pages) \in Nat
      BY <3>1, LayoutIs
    <3>. HIDE DEF pages, p
    <3>5. CASE cur.pos + 1 < Len(pages)
      <4>1. p.next.node = cur.node /\ p.next.pos = cur.pos + 1 /\ p.next # Done
        BY <1>1, <3>2, <3>5 DEF Cursor, Done
      <4>. QED
        BY <1>1, <1>3, <2>1, <4>1 DEF Before
    <3>6. CASE ~(cur.pos + 1 < Len(pages)) /\ cur.node + 1 < Len(nodes)
      <4>1. p.next.node = cur.node + 1 /\ p.next.pos = 0 /\ p.next # Done
        BY <1>1, <3>2, <3>6 DEF Done
      <4>. QED
        BY <1>1, <1>3, <2>1, <3>3, <3>4, <3>6, <4>1 DEF Before
    <3>7. CASE ~(cur.pos + 1 < Len(pages)) /\ ~(cur.node + 1 < Len(nodes))
      BY <1>1, <2>1, <2>3, <3>3, <3>4, <3>7 DEF Before
    <3>. QED
      BY <3>5, <3>6, <3>7
  <2>. QED
    BY <1>1, <2>2, <2>3
<1>4. ASSUME NEW n \in DOMAIN layout, NEW i \in DOMAIN layout[n],
             p.next = Done \/ Before(n, i, p.next)
      PROVE  ToSet(layout[n][i]) \cap f \subseteq S \cup T
  BY <1>2, <1>3, <1>4 DEF Covered
<1>. QED
  BY <1>4 DEF Covered, All

-----------------------------------------------------------------------------
(* One run.                                                                 *)

LEMMA Kinds ==
  /\ End \in Frame /\ Error \in Frame /\ End.kind = "end" /\ Error.kind = "error"
  /\ \A e \in EventFrame : e \in Frame /\ e.kind = "event"
  /\ \A e \in Frame : e.kind = "event" => e \in EventFrame
BY DEF Frame, EventFrame, End, Error

LEMMA ClosedOK == Closed \in CallType /\ Off \in ServerType /\ RunOK(Closed, Off, << >>)
BY LimitAssumption, Cursors DEF Closed, Off, CallType, ServerType, RunOK

\* Nothing is lost of a run by its goroutine's end.
LEMMA HungUpOK ==
  ASSUME NEW c, NEW s, NEW w, RunOK(c, s, w)
  PROVE  RunOK(c, Off, w)
BY DEF RunOK, Off

LEMMA BegunOK ==
  ASSUME NEW c \in CallType, c.at = "open"
  PROVE  RunOK(c, [Off EXCEPT !.on = TRUE, !.cur = c.from], << >>)
<1>. DEFINE s == [Off EXCEPT !.on = TRUE, !.cur = c.from]
<1>1. s.batch = {} /\ s.cur = c.from /\ s.matched = 0
  BY DEF Off
<1>. HIDE DEF s
<1>2. RunOK(c, s, << >>)
  BY <1>1 DEF RunOK
<1>. QED
  BY <1>2 DEF s

LEMMA TailIs ==
  ASSUME NEW w \in Seq(Frame), w # << >>
  PROVE  /\ Tail(w) \in Seq(Frame) /\ DOMAIN Tail(w) = 1 .. Len(w) - 1 /\ Len(Tail(w)) = Len(w) - 1
         /\ DOMAIN w = 1 .. Len(w) /\ Len(w) \in Nat \ {0} /\ Head(w) = w[1] /\ w[1] \in Frame
         /\ \A i \in 1 .. Len(w) - 1 : Tail(w)[i] = w[i + 1]
OBVIOUS

LEMMA ReceivedOK ==
  ASSUME NEW c, NEW d, NEW s, NEW w \in Seq(Frame), w # << >>, RunOK(c, s, w),
         d.at = c.at, d.flt = c.flt, d.from = c.from
  PROVE  RunOK(d, s, Tail(w))
<1>. DEFINE t == Tail(w)
<1>1. /\ DOMAIN t = 1 .. Len(w) - 1 /\ DOMAIN w = 1 .. Len(w) /\ Len(w) \in Nat \ {0}
      /\ \A i \in DOMAIN t : t[i] = w[i + 1] /\ i + 1 \in DOMAIN w
  BY TailIs
<1>. HIDE DEF t
<1>2. d.at # "closed"
  BY DEF RunOK
<1>3. \A i \in DOMAIN t : t[i].kind = "end" /\ i > 1 => t[i - 1].kind = "event" /\ t[i - 1].done
  <2>. SUFFICES ASSUME NEW i \in DOMAIN t, t[i].kind = "end", i > 1
                PROVE  t[i - 1].kind = "event" /\ t[i - 1].done
    OBVIOUS
  <2>1. t[i] = w[i + 1] /\ i - 1 \in DOMAIN t /\ t[i - 1] = w[i] /\ i + 1 \in DOMAIN w /\ i + 1 > 1
    BY <1>1
  <2>2. \A j \in DOMAIN w : w[j].kind = "end" /\ j > 1 => w[j - 1].kind = "event" /\ w[j - 1].done
    BY DEF RunOK
  <2>3. (i + 1) - 1 = i
    BY <1>1
  <2>. QED
    BY <2>1, <2>2, <2>3
<1>4. RunOK(d, s, t)
  BY <1>1, <1>2, <1>3 DEF RunOK
<1>. QED
  BY <1>4 DEF t

LEMMA MoreIs ==
  ASSUME NEW w \in Seq(Frame), NEW e \in Frame
  PROVE  LET v == Append(w, e) IN
         /\ v \in Seq(Frame) /\ DOMAIN v = 1 .. Len(w) + 1 /\ DOMAIN w = 1 .. Len(w) /\ Len(w) \in Nat
         /\ Len(v) = Len(w) + 1
         /\ v[Len(w) + 1] = e /\ \A i \in 1 .. Len(w) : v[i] = w[i]
OBVIOUS

LEMMA TwoMoreIs ==
  ASSUME NEW w \in Seq(Frame), NEW e \in Frame
  PROVE  LET v == w \o <<e, End>> IN
         /\ v \in Seq(Frame) /\ DOMAIN v = 1 .. Len(w) + 2 /\ DOMAIN w = 1 .. Len(w) /\ Len(w) \in Nat
         /\ v[Len(w) + 1] = e /\ v[Len(w) + 2] = End /\ \A i \in 1 .. Len(w) : v[i] = w[i]
<1>1. <<e, End>> \in Seq(Frame) /\ Len(<<e, End>>) = 2
  BY Kinds
<1>. QED
  BY <1>1

\* An event that is not the last, ...
LEMMA ProgressOK ==
  ASSUME NEW c \in CallType, NEW s, NEW t, NEW w \in Seq(Frame), s.on, RunOK(c, s, w),
         NEW e \in EventFrame, ~e.done, ~e.truncated, e.keys \subseteq c.flt,
         t.batch \subseteq c.flt, Later(t.cur, c.from)
  PROVE  RunOK(c, t, Append(w, e))
<1>. DEFINE v == Append(w, e)
<1>1. /\ DOMAIN v = 1 .. Len(w) + 1 /\ DOMAIN w = 1 .. Len(w) /\ Len(w) \in Nat
      /\ v[Len(w) + 1] = e /\ \A i \in 1 .. Len(w) : v[i] = w[i]
  BY Kinds, MoreIs
<1>2. e.kind = "event" /\ c.at # "closed"
  BY Kinds DEF RunOK
<1>. HIDE DEF v
<1>3. \A i \in DOMAIN v : v[i].kind = "event" /\ ~v[i].done
  BY <1>1, <1>2 DEF RunOK
<1>4. RunOK(c, t, v)
  BY <1>1, <1>2, <1>3 DEF RunOK
<1>. QED
  BY <1>4 DEF v

\* ... none, and the next page, ...
LEMMA SilentOK ==
  ASSUME NEW c, NEW s, NEW t, NEW w, s.on, RunOK(c, s, w),
         t.batch \subseteq c.flt, Later(t.cur, c.from)
  PROVE  RunOK(c, t, w)
BY DEF RunOK

\* ... the last event and the end, ...
LEMMA FinishOK ==
  ASSUME NEW c \in CallType, NEW s, NEW w \in Seq(Frame), s.on, RunOK(c, s, w),
         NEW e \in EventFrame, e.done, e.keys \subseteq c.flt,
         ShortPages /\ e.truncated => Later(e.cursor, c.from)
  PROVE  RunOK(c, Off, w \o <<e, End>>)
<1>. DEFINE v == w \o <<e, End>>
<1>1. /\ DOMAIN v = 1 .. Len(w) + 2 /\ DOMAIN w = 1 .. Len(w) /\ Len(w) \in Nat
      /\ v[Len(w) + 1] = e /\ v[Len(w) + 2] = End /\ \A i \in 1 .. Len(w) : v[i] = w[i]
  BY Kinds, TwoMoreIs
<1>2. e.kind = "event" /\ c.at # "closed" /\ End.kind = "end" /\ ~Off.on
  BY Kinds DEF RunOK, Off
<1>. HIDE DEF v
<1>3. \A i \in DOMAIN w : v[i].kind = "event"
  BY <1>1 DEF RunOK
<1>4. \A i \in DOMAIN v : i \in DOMAIN w \/ i = Len(w) + 1 \/ i = Len(w) + 2
  BY <1>1
<1>5. \A i \in DOMAIN v : v[i].kind = "end" => i = Len(w) + 2 /\ i - 1 = Len(w) + 1
  BY <1>1, <1>2, <1>3, <1>4
<1>6. \A i \in DOMAIN v : v[i].kind = "event" =>
        /\ v[i].keys \subseteq c.flt
        /\ ShortPages /\ v[i].truncated => Later(v[i].cursor, c.from)
  BY <1>1, <1>2, <1>4 DEF RunOK
<1>7. RunOK(c, Off, v)
  BY <1>1, <1>2, <1>5, <1>6 DEF RunOK
<1>. QED
  BY <1>7 DEF v

\* ... or an error.
LEMMA ErrorOK ==
  ASSUME NEW c, NEW s, NEW w \in Seq(Frame), s.on, RunOK(c, s, w)
  PROVE  RunOK(c, Off, Append(w, Error))
<1>. DEFINE v == Append(w, Error)
<1>1. /\ DOMAIN v = 1 .. Len(w) + 1 /\ DOMAIN w = 1 .. Len(w) /\ Len(w) \in Nat
      /\ v[Len(w) + 1] = Error /\ \A i \in 1 .. Len(w) : v[i] = w[i]
  BY Kinds, MoreIs
<1>2. Error.kind = "error" /\ c.at # "closed" /\ ~Off.on
  BY Kinds DEF RunOK, Off
<1>. HIDE DEF v
<1>3. \A i \in DOMAIN v : v[i].kind # "end"
  BY <1>1, <1>2 DEF RunOK
<1>4. RunOK(c, Off, v)
  BY <1>1, <1>2, <1>3 DEF RunOK
<1>. QED
  BY <1>4 DEF v

\* What one turn of the loop finds.
LEMMA TurnIs ==
  ASSUME TypeInv, NEW r \in Run, NEW nodes \in Masters
  PROVE  LET s == server[r]
             p == Page(s.cur, nodes)
             hits == {i \in DOMAIN p.keys : p.keys[i] \in call[r].flt}
             matched(i) == s.matched + Cardinality({j \in hits : j <= i})
             cut == s.matched + Cardinality(hits) >= Limit
             new == {p.keys[i] : i \in {j \in hits : matched(j) <= Limit}} IN
         /\ new \subseteq ToSet(p.keys) \cap call[r].flt /\ new \subseteq Key
         /\ ~cut => new = ToSet(p.keys) \cap call[r].flt
         /\ ~cut => s.matched + Cardinality(hits) \in 0 .. Limit - 1
         /\ ShortPages /\ cut => s.matched # 0
<1>. DEFINE s == server[r]
            p == Page(s.cur, nodes)
            hits == {i \in DOMAIN p.keys : p.keys[i] \in call[r].flt}
            matched(i) == s.matched + Cardinality({j \in hits : j <= i})
            new == {p.keys[i] : i \in {j \in hits : matched(j) <= Limit}}
<1>1. /\ s.cur \in Cursor /\ s.matched \in 0 .. Limit - 1 /\ Limit \in Nat
  BY LimitAssumption DEF TypeInv, ServerType
<1>2. p.keys \in Seq(Key) /\ (ShortPages => Len(p.keys) < Limit)
  BY <1>1, PageIs
<1>3. DOMAIN p.keys = 1 .. Len(p.keys) /\ Len(p.keys) \in Nat
  BY <1>2
<1>. HIDE DEF p
<1>4. IsFiniteSet(DOMAIN p.keys) /\ Cardinality(DOMAIN p.keys) = Len(p.keys)
  BY <1>3, FS_Interval
<1>5. /\ IsFiniteSet(hits) /\ Cardinality(hits) \in Nat /\ Cardinality(hits) <= Len(p.keys)
  BY <1>4, FS_Subset, FS_CardinalityType
<1>6. ASSUME NEW i \in hits
      PROVE  Cardinality({j \in hits : j <= i}) \in Nat /\ Cardinality({j \in hits : j <= i}) <= Cardinality(hits)
  BY <1>5, FS_Subset, FS_CardinalityType
<1>. HIDE DEF matched
<1>7. new \subseteq ToSet(p.keys) \cap call[r].flt /\ new \subseteq Key
  <2>1. \A i \in hits : p.keys[i] \in ToSet(p.keys) \cap call[r].flt /\ p.keys[i] \in Key
    BY <1>2, <1>3 DEF ToSet
  <2>. QED
    BY Zenon, <2>1
<1>8. ASSUME ~(s.matched + Cardinality(hits) >= Limit)
      PROVE  /\ new = ToSet(p.keys) \cap call[r].flt
             /\ s.matched + Cardinality(hits) \in 0 .. Limit - 1
  <2>1. ASSUME NEW i \in hits PROVE matched(i) <= Limit
    <3>. DEFINE m == Cardinality({j \in hits : j <= i})
    <3>1. m \in Nat /\ m <= Cardinality(hits) /\ matched(i) = s.matched + m
      BY <1>6 DEF matched
    <3>. HIDE DEF m, hits
    <3>. QED
      BY <1>1, <1>5, <1>8, <3>1
  <2>2. {j \in hits : matched(j) <= Limit} = hits
    BY <2>1
  <2>. QED
    BY <1>1, <1>5, <1>8, <2>2 DEF ToSet
<1>9. ShortPages /\ s.matched + Cardinality(hits) >= Limit => s.matched # 0
  BY <1>1, <1>2, <1>3, <1>5
<1>. QED
  BY <1>7, <1>8, <1>9 DEF p, matched

-----------------------------------------------------------------------------
(* The runs together: the steps of the view.                                *)

LEMMA SilenceOK == ASSUME NEW s, ~s.on PROVE RunOK(Closed, s, << >>)
BY DEF RunOK, Closed

\* The run that is displaced is the only one that goes on.
LEMMA HungUpIs ==
  ASSUME Base
  PROVE  /\ Displaced \subseteq Run
         /\ \A q \in Displaced : call[q].at = "open"
         /\ \A q \in Run : HungUp[q] \in ServerType /\ ~HungUp[q].on
                           /\ (HungUp[q] = Off \/ HungUp[q] = server[q])
         /\ HungUp = [q \in Run |-> HungUp[q]]
<1>1. Displaced \subseteq Run /\ \A q \in Displaced : call[q].at = "open"
  BY DEF Base, TypeInv, OnlyCurrent, Displaced, CallType
<1>2. ASSUME NEW q \in Run
      PROVE  /\ HungUp[q] \in ServerType /\ ~HungUp[q].on
             /\ HungUp[q] = Off \/ HungUp[q] = server[q]
  <2>1. HungUp[q] = IF q \in Displaced THEN Off ELSE server[q]
    BY DEF HungUp
  <2>2. server[q].on => q \in Displaced
    BY DEF Base, OnlyCurrent, Displaced
  <2>3. ~Off.on /\ Off \in ServerType /\ server[q] \in ServerType
    BY ClosedOK DEF Off, Base, TypeInv
  <2>. QED
    BY <2>1, <2>2, <2>3
<1>3. HungUp = [q \in Run |-> HungUp[q]]
  BY DEF HungUp
<1>. QED
  BY <1>1, <1>2, <1>3

\* The call and the goroutine of a run that begins at a cursor.
Opened(flt, cursor, bulk) ==
  [Closed EXCEPT !.at = "open", !.bulk = bulk, !.flt = flt, !.from = cursor]
Begun(cursor) == [Off EXCEPT !.on = TRUE, !.cur = cursor]

LEMMA BegunIs ==
  ASSUME NEW cursor \in Cursor
  PROVE  /\ Begun(cursor) \in ServerType /\ Begun(cursor).on
         /\ Begun(cursor).batch = {} /\ Begun(cursor).cur = cursor
<1>1. Off \in ServerType /\ Off.batch = {}
  BY ClosedOK DEF Off
<1>. QED
  BY <1>1 DEF ServerType, Begun

LEMMA OpenedIs ==
  ASSUME NEW flt \in SUBSET Key, NEW cursor \in Cursor, NEW bulk \in BOOLEAN
  PROVE  LET c == Opened(flt, cursor, bulk) IN
         c \in CallType /\ c.at = "open" /\ c.flt = flt /\ c.from = cursor /\ c.bulk = bulk /\ ~c.more
BY DEF Opened, Closed, CallType

\* What StartRun does to each run.
Started(r, old, flt, cursor, bulk) ==
  /\ call'[r] = Opened(flt, cursor, bulk) /\ server'[r] = Begun(cursor) /\ wire'[r] = << >>
  /\ \A q \in Run \ {r} : /\ call'[q] = IF q = old THEN Closed ELSE call[q]
                          /\ server'[q] = HungUp[q]
                          /\ wire'[q] = IF q = old THEN << >> ELSE wire[q]
  /\ call' = [q \in Run |-> call'[q]] /\ server' = [q \in Run |-> server'[q]]
  /\ wire' = [q \in Run |-> wire'[q]]

LEMMA StartRunIs ==
  ASSUME NEW r \in Run, NEW old, NEW flt, NEW cursor, NEW reset, NEW bulk,
         StartRun(r, old, flt, cursor, reset, bulk)
  PROVE  Started(r, old, flt, cursor, bulk)
<1>1. call' = [q \in Run |->
                 CASE q = r -> [Closed EXCEPT !.at = "open", !.bulk = bulk, !.flt = flt, !.from = cursor]
                   [] q # r /\ q = old -> Closed
                   [] OTHER -> call[q]]
  BY DEF StartRun
<1>2. server' = [HungUp EXCEPT ![r] = [Off EXCEPT !.on = TRUE, !.cur = cursor]]
  BY DEF StartRun
<1>3. wire' = [q \in Run |-> IF q \in {r, old} THEN << >> ELSE wire[q]]
  BY DEF StartRun
<1>4. DOMAIN HungUp = Run
  BY DEF HungUp
<1>5. \A q \in Run \ {r} : call'[q] = IF q = old THEN Closed ELSE call[q]
  BY <1>1
<1>6. server'[r] = Begun(cursor) /\ \A q \in Run \ {r} : server'[q] = HungUp[q]
  BY <1>2, <1>4 DEF Begun
<1>7. call'[r] = Opened(flt, cursor, bulk)
  BY <1>1 DEF Opened
<1>8. wire'[r] = << >> /\ \A q \in Run \ {r} : wire'[q] = IF q = old THEN << >> ELSE wire[q]
  BY <1>3
<1>9. /\ call' = [q \in Run |-> call'[q]] /\ server' = [q \in Run |-> server'[q]]
      /\ wire' = [q \in Run |-> wire'[q]]
  BY <1>1, <1>2, <1>3, <1>4
<1>. QED
  BY Zenon, <1>5, <1>6, <1>7, <1>8, <1>9 DEF Started

LEMMA StartRunBase ==
  ASSUME Base, NEW r \in Run, NEW old \in Run \cup {None}, NEW flt \in SUBSET Key,
         NEW cursor \in Cursor, NEW reset \in BOOLEAN, NEW bulk \in BOOLEAN,
         StartRun(r, old, flt, cursor, reset, bulk),
         filter' \in Filters, cursorRef' \in Cursor, revived' \in BOOLEAN,
         ~revived' => flt = filter' /\ (reset \/ (~revived /\ filter' = filter))
  PROVE  Base'
<1>0. Started(r, old, flt, cursor, bulk)
  BY StartRunIs
<1>1. /\ call'[r] = Opened(flt, cursor, bulk) /\ server'[r] = Begun(cursor) /\ wire'[r] = << >>
      /\ \A q \in Run \ {r} : /\ call'[q] = IF q = old THEN Closed ELSE call[q]
                              /\ server'[q] = HungUp[q]
                              /\ wire'[q] = IF q = old THEN << >> ELSE wire[q]
      /\ call' = [q \in Run |-> call'[q]] /\ server' = [q \in Run |-> server'[q]]
      /\ wire' = [q \in Run |-> wire'[q]]
  BY Zenon, <1>0 DEF Started
<1>2. /\ current' = r /\ isLoading' = TRUE /\ failed' = FALSE
      /\ shown' = IF reset THEN {} ELSE shown
      /\ cancelled' = Displaced \ {r, old} /\ UNCHANGED <<layout, hasMore>>
  BY DEF StartRun
<1>3. /\ Opened(flt, cursor, bulk) \in CallType /\ Opened(flt, cursor, bulk).at = "open"
      /\ Opened(flt, cursor, bulk).flt = flt /\ Opened(flt, cursor, bulk).from = cursor
  BY OpenedIs
<1>4. Begun(cursor) \in ServerType
  BY BegunIs
<1>5. r # None
  BY NoneAssumption
<1>6. TypeInv'
  <2>1. call' \in [Run -> CallType]
    BY <1>1, <1>3, ClosedOK DEF Base, TypeInv
  <2>2. server' \in [Run -> ServerType]
    BY <1>1, <1>4, HungUpIs
  <2>3. wire' \in [Run -> Seq(Frame)]
    <3>1. << >> \in Seq(Frame) /\ \A q \in Run : wire[q] \in Seq(Frame)
      BY DEF Base, TypeInv
    <3>2. \A q \in Run : wire'[q] \in Seq(Frame)
      BY Zenon, <1>1, <3>1
    <3>. QED
      BY Zenon, <1>1, <3>2
  <2>. QED
    BY <1>2, <2>1, <2>2, <2>3, HungUpIs DEF Base, TypeInv
<1>7. OnlyCurrent'
  <2>1. \A q \in Run : server'[q].on => q = r
    BY <1>1, HungUpIs
  <2>2. \A q \in Run : call'[q].at = "closed" => q \notin cancelled'
    BY <1>1, <1>2, <1>3, HungUpIs
  <2>. QED
    BY <1>1, <1>2, <1>3, <1>5, <2>1, <2>2 DEF OnlyCurrent
<1>8. OfFilters'
  BY <1>1, <1>2, <1>3 DEF Base, OfFilters
<1>9. ASSUME NEW q \in Run PROVE RunOK(call'[q], server'[q], wire'[q])
  <2>1. CASE q = r
    BY <1>1, <1>3, <2>1, BegunOK DEF Begun
  <2>2. CASE q # r /\ q = old
    BY <1>1, <2>2, HungUpIs, SilenceOK
  <2>3. CASE q # r /\ q # old
    BY <1>1, <2>3, HungUpIs, HungUpOK DEF Base
  <2>. QED
    BY <2>1, <2>2, <2>3
<1>. QED
  BY <1>6, <1>7, <1>8, <1>9 DEF Base

LEMMA CancelBase ==
  ASSUME Base, Cancel
  PROVE  Base'
<1>1. /\ UNCHANGED <<layout, filter, shown, cursorRef, failed, call, wire, revived>>
      /\ cancelled' = Displaced /\ server' = HungUp /\ current' = None
      /\ isLoading' = FALSE /\ hasMore' = TRUE
  BY DEF Cancel
<1>2. server' \in [Run -> ServerType] /\ \A q \in Run : ~server'[q].on
  BY <1>1, HungUpIs
<1>3. TypeInv'
  BY <1>1, <1>2, HungUpIs DEF Base, TypeInv
<1>4. OnlyCurrent'
  BY <1>1, <1>2, HungUpIs DEF OnlyCurrent
<1>5. OfFilters'
  BY <1>1 DEF Base, OfFilters
<1>6. \A q \in Run : RunOK(call'[q], server'[q], wire'[q])
  BY <1>1, HungUpIs, HungUpOK DEF Base
<1>. QED
  BY <1>3, <1>4, <1>5, <1>6 DEF Base

LEMMA CloseBase ==
  ASSUME Base, NEW r \in Run, Close(r), ~server[r].on,
         UNCHANGED <<layout, filter, shown, cursorRef, current, server, revived>>,
         hasMore' \in BOOLEAN, failed' \in BOOLEAN, isLoading' = (isLoading /\ r # current)
  PROVE  Base'
<1>1. /\ call' \in [Run -> CallType] /\ call'[r] = Closed
      /\ \A q \in Run \ {r} : call'[q] = call[q]
  BY ClosedOK DEF Close, Base, TypeInv
<1>2. /\ wire' \in [Run -> Seq(Frame)] /\ wire'[r] = << >>
      /\ \A q \in Run \ {r} : wire'[q] = wire[q]
  <2>1. << >> \in Seq(Frame) /\ wire \in [Run -> Seq(Frame)]
    BY DEF Base, TypeInv
  <2>. QED
    BY <2>1 DEF Close
<1>3. cancelled' = cancelled \ {r} /\ Closed.at = "closed"
  BY DEF Close, Closed
<1>4. TypeInv'
  BY <1>1, <1>2, <1>3 DEF Base, TypeInv
<1>5. OnlyCurrent'
  BY <1>1, <1>3 DEF Base, TypeInv, OnlyCurrent
<1>6. OfFilters'
  BY <1>1 DEF Base, TypeInv, OnlyCurrent, OfFilters
<1>7. ASSUME NEW q \in Run PROVE RunOK(call'[q], server'[q], wire'[q])
  BY <1>1, <1>2, SilenceOK DEF Base
<1>. QED
  BY <1>4, <1>5, <1>6, <1>7 DEF Base

\* A run whose end, whose error or whose cancellation the view sees is silent.
LEMMA OverIs ==
  ASSUME Base, NEW r \in Run,
         Arrived(r, "end") \/ Arrived(r, "error") \/ r \in cancelled \/ r # current
  PROVE  ~server[r].on
<1>1. RunOK(call[r], server[r], wire[r]) /\ wire[r] \in Seq(Frame)
  BY DEF Base, TypeInv
<1>2. CASE Arrived(r, "end") \/ Arrived(r, "error")
  <2>1. wire[r] # << >> /\ Head(wire[r]) = wire[r][1] /\ 1 \in DOMAIN wire[r]
    BY <1>1, <1>2 DEF Arrived
  <2>2. wire[r][1].kind # "event"
    BY <1>2, <2>1 DEF Arrived
  <2>. QED
    BY <1>1, <2>1, <2>2 DEF RunOK
<1>. QED
  BY <1>2 DEF Base, OnlyCurrent

\* An event of the current run arrives.
LEMMA ReceiveIs ==
  ASSUME Base, NEW r \in Run, Receive(r)
  PROVE  /\ r = current /\ isLoading /\ call[r].at = "open"
         /\ wire[r] \in Seq(Frame) /\ wire[r] # << >> /\ wire[r][1] \in EventFrame
         /\ wire[r][1].keys \subseteq call[r].flt /\ 1 \in DOMAIN wire[r]
         /\ shown' = shown \cup wire[r][1].keys /\ cursorRef' = wire[r][1].cursor
         /\ hasMore' = IF wire[r][1].done THEN wire[r][1].truncated ELSE hasMore
         /\ call' \in [Run -> CallType]
         /\ \A q \in Run \ {r} : call'[q] = call[q]
         /\ call'[r].at = call[r].at /\ call'[r].flt = call[r].flt
         /\ call'[r].from = call[r].from /\ call'[r].bulk = call[r].bulk
         /\ call'[r].more = (wire[r][1].done /\ wire[r][1].truncated)
         /\ wire' \in [Run -> Seq(Frame)] /\ wire'[r] = Tail(wire[r])
         /\ \A q \in Run \ {r} : wire'[q] = wire[q]
<1>1. wire[r] \in Seq(Frame) /\ wire[r] # << >> /\ call[r].at = "open" /\ r = current
  BY DEF Receive, Arrived, Base, TypeInv
<1>2. Head(wire[r]) = wire[r][1] /\ wire[r][1] \in Frame /\ Tail(wire[r]) \in Seq(Frame) /\ 1 \in DOMAIN wire[r]
  BY <1>1, TailIs
<1>3. wire[r][1].kind = "event"
  BY <1>2 DEF Receive, Arrived
<1>4. wire[r][1] \in EventFrame
  BY <1>2, <1>3, Kinds
<1>5. wire[r][1].keys \subseteq call[r].flt
  BY <1>2, <1>3 DEF Base, RunOK
<1>6. isLoading
  BY <1>1, NoneAssumption DEF Base, OnlyCurrent
<1>7. /\ wire' \in [Run -> Seq(Frame)] /\ wire'[r] = Tail(wire[r])
      /\ \A q \in Run \ {r} : wire'[q] = wire[q]
  BY <1>2 DEF Receive, Base, TypeInv
<1>8. /\ shown' = shown \cup wire[r][1].keys /\ cursorRef' = wire[r][1].cursor
      /\ hasMore' = IF wire[r][1].done THEN wire[r][1].truncated ELSE hasMore
  BY Zenon, <1>2 DEF Receive
<1>9. call' = [call EXCEPT ![r] = [call[r] EXCEPT
                 !.more = wire[r][1].done /\ wire[r][1].truncated,
                 !.gained = call[r].gained \/ ~(wire[r][1].keys \subseteq shown)]]
  BY Zenon, <1>2 DEF Receive
<1>10. call \in [Run -> CallType] /\ call[r] \in CallType
  BY DEF Base, TypeInv
<1>. DEFINE more == wire[r][1].done /\ wire[r][1].truncated
            gained == call[r].gained \/ ~(wire[r][1].keys \subseteq shown)
            d == [call[r] EXCEPT !.more = more, !.gained = gained]
<1>11. more \in BOOLEAN /\ gained \in BOOLEAN
  OBVIOUS
<1>12. call' = [call EXCEPT ![r] = d]
  BY Zenon, <1>9
<1>. HIDE DEF more, gained
<1>13. /\ d \in CallType /\ d.at = call[r].at /\ d.flt = call[r].flt /\ d.from = call[r].from
       /\ d.bulk = call[r].bulk /\ d.more = more
  BY <1>10, <1>11 DEF CallType
<1>. HIDE DEF d
<1>14. call' \in [Run -> CallType] /\ call'[r] = d /\ \A q \in Run \ {r} : call'[q] = call[q]
  BY <1>10, <1>12, <1>13
<1>. QED
  BY <1>1, <1>2, <1>4, <1>5, <1>6, <1>7, <1>8, <1>13, <1>14 DEF more

LEMMA ReceiveBase ==
  ASSUME Base, NEW r \in Run, Receive(r)
  PROVE  Base'
<1>. DEFINE e == wire[r][1]
<1>1. /\ r = current /\ isLoading /\ call[r].at = "open"
      /\ wire[r] \in Seq(Frame) /\ wire[r] # << >> /\ e \in EventFrame
      /\ e.keys \subseteq call[r].flt
      /\ shown' = shown \cup e.keys /\ cursorRef' = e.cursor
      /\ hasMore' = IF e.done THEN e.truncated ELSE hasMore
      /\ call' \in [Run -> CallType]
      /\ \A q \in Run \ {r} : call'[q] = call[q]
      /\ call'[r].at = call[r].at /\ call'[r].flt = call[r].flt /\ call'[r].from = call[r].from
      /\ wire' \in [Run -> Seq(Frame)] /\ wire'[r] = Tail(wire[r])
      /\ \A q \in Run \ {r} : wire'[q] = wire[q]
  BY Zenon, ReceiveIs
<1>2. UNCHANGED <<layout, filter, isLoading, failed, current, server, cancelled, revived>>
  BY DEF Receive
<1>3. TypeInv'
  BY <1>1, <1>2 DEF Base, TypeInv, EventFrame
<1>4. OnlyCurrent'
  BY <1>1, <1>2 DEF Base, OnlyCurrent
<1>5. OfFilters'
  BY <1>1, <1>2 DEF Base, OfFilters
<1>6. ASSUME NEW q \in Run PROVE RunOK(call'[q], server'[q], wire'[q])
  <2>1. RunOK(call[q], server[q], wire[q])
    BY DEF Base
  <2>2. RunOK(call'[r], server[r], Tail(wire[r]))
    BY <1>1, ReceivedOK DEF Base
  <2>3. server'[q] = server[q]
    BY <1>2
  <2>4. CASE q = r
    BY Zenon, <1>1, <2>2, <2>3, <2>4
  <2>5. CASE q # r
    BY <1>1, <2>1, <2>3, <2>5
  <2>. QED
    BY <2>4, <2>5
<1>. QED
  BY <1>3, <1>4, <1>5, <1>6 DEF Base

-----------------------------------------------------------------------------
(* The runs together: the steps of the server.                              *)

\* What one turn of the loop of r does: the last event, which looks at the last
\* page again or has all of it, or a turn to the next page, with an event or
\* without.  b is what the run has to send by then.
LastIs(r, p, b, e) ==
  LET s == server[r]
      full == b = s.batch \cup (ToSet(p.keys) \cap call[r].flt) IN
  /\ e \in EventFrame /\ e.done /\ e.keys = b
  /\ \/ e.truncated /\ e.cursor = s.cur /\ s.batch \subseteq b /\ (ShortPages => s.matched # 0)
     \/ ~e.truncated /\ p.next = Done /\ e.cursor = Start /\ full
     \/ e.truncated /\ p.next # Done /\ e.cursor = p.next /\ full
  /\ server'[r] = Off /\ wire'[r] = wire[r] \o <<e, End>>

GoesOn(r, p, b, e) ==
  LET s == server[r] IN
  /\ e \in EventFrame /\ ~e.done /\ ~e.truncated /\ e.keys = b /\ e.cursor = p.next
  /\ p.next # Done /\ b = s.batch \cup (ToSet(p.keys) \cap call[r].flt)
  /\ server'[r] \in ServerType /\ server'[r].on /\ server'[r].cur = p.next
  /\ \/ wire'[r] = Append(wire[r], e) /\ server'[r].batch = {}
     \/ wire'[r] = wire[r] /\ server'[r].batch = b

OnlyOf(r) ==
  /\ server' \in [Run -> ServerType] /\ wire' \in [Run -> Seq(Frame)]
  /\ \A q \in Run \ {r} : server'[q] = server[q] /\ wire'[q] = wire[q]
  /\ UNCHANGED <<layout, filter, shown, cursorRef, hasMore, isLoading, failed, current, call,
                 cancelled, revived>>

LEMMA EventIs ==
  ASSUME NEW b \in SUBSET Key, NEW cur \in Cursor \cup {Done}, NEW d \in BOOLEAN, NEW t \in BOOLEAN
  PROVE  LET e == Event(b, cur, d, t) IN
         /\ e \in EventFrame /\ e \in Frame /\ e.keys = b /\ e.done = d /\ e.truncated = t
         /\ cur # Done => e.cursor = cur
         /\ cur = Done => e.cursor = Start
<1>1. Printed(cur) \in Cursor /\ (cur # Done => Printed(cur) = cur) /\ (cur = Done => Printed(cur) = Start)
  BY Cursors
<1>2. Event(b, cur, d, t) = [kind |-> "event", keys |-> b, cursor |-> Printed(cur), done |-> d,
                             truncated |-> t]
  BY DEF Event
<1>. QED
  BY <1>1, <1>2, Kinds DEF EventFrame, Frame

LEMMA EventsAre ==
  ASSUME NEW b \in SUBSET Key, NEW cur \in Cursor \cup {Done}
  PROVE  /\ Event(b, cur, TRUE, TRUE) \in EventFrame /\ Event(b, cur, TRUE, TRUE).done
         /\ Event(b, cur, TRUE, TRUE).truncated
         /\ Event(b, cur, TRUE, FALSE) \in EventFrame /\ Event(b, cur, TRUE, FALSE).done
         /\ ~Event(b, cur, TRUE, FALSE).truncated
         /\ Event(b, cur, FALSE, FALSE) \in EventFrame /\ ~Event(b, cur, FALSE, FALSE).done
         /\ ~Event(b, cur, FALSE, FALSE).truncated
         /\ \A d, t \in BOOLEAN : LET e == Event(b, cur, d, t) IN
              /\ e \in Frame /\ e.keys = b
              /\ cur # Done => e.cursor = cur
              /\ cur = Done => e.cursor = Start
<1>1. \A d, t \in BOOLEAN : LET e == Event(b, cur, d, t) IN
        /\ e \in EventFrame /\ e \in Frame /\ e.keys = b /\ e.done = d /\ e.truncated = t
        /\ cur # Done => e.cursor = cur
        /\ cur = Done => e.cursor = Start
  BY EventIs
<1>2. TRUE \in BOOLEAN /\ FALSE \in BOOLEAN
  OBVIOUS
<1>. QED
  BY Zenon, <1>1, <1>2

\* A goroutine that returns.
LEMMA FinishIs ==
  ASSUME Base, NEW r \in Run, NEW e \in Frame, Finish(r, e),
         UNCHANGED <<layout, filter, shown, cursorRef, hasMore, isLoading, failed, current, call,
                     cancelled, revived>>
  PROVE  OnlyOf(r) /\ server'[r] = Off /\ wire'[r] = wire[r] \o <<e, End>>
<1>1. wire \in [Run -> Seq(Frame)] /\ server \in [Run -> ServerType]
  BY DEF Base, TypeInv
<1>2. wire[r] \o <<e, End>> \in Seq(Frame)
  BY <1>1, TwoMoreIs
<1>3. server' = [server EXCEPT ![r] = Off] /\ wire' = [wire EXCEPT ![r] = wire[r] \o <<e, End>>]
  BY DEF Finish
<1>. QED
  BY <1>1, <1>2, <1>3, ClosedOK DEF OnlyOf

\* One that turns to the next page.
LEMMA TurnsIs ==
  ASSUME Base, NEW r \in Run, NEW t \in ServerType, NEW w \in Seq(Frame),
         server' = [server EXCEPT ![r] = t], wire' = [wire EXCEPT ![r] = w],
         UNCHANGED <<layout, filter, shown, cursorRef, hasMore, isLoading, failed, current, call,
                     cancelled, revived>>
  PROVE  OnlyOf(r) /\ server'[r] = t /\ wire'[r] = w
BY DEF OnlyOf, Base, TypeInv

LEMMA RoundIs ==
  ASSUME Base, NEW r \in Run, Round(r)
  PROVE  /\ OnlyOf(r) /\ server[r].on
         /\ \E nodes \in Masters, b \in SUBSET Key, e \in EventFrame :
              LET p == Page(server[r].cur, nodes) IN
              /\ b \subseteq server[r].batch \cup (ToSet(p.keys) \cap call[r].flt)
              /\ LastIs(r, p, b, e) \/ GoesOn(r, p, b, e)
<1>. DEFINE s == server[r]
            still == UNCHANGED <<layout, filter, shown, cursorRef, hasMore, isLoading, failed,
                                 current, call, cancelled, revived>>
<1>0. s.on /\ still
  BY DEF Round
<1>1. PICK nodes \in Masters :
       LET p == Page(s.cur, nodes)
           hits == {i \in DOMAIN p.keys : p.keys[i] \in call[r].flt}
           matched(i) == s.matched + Cardinality({j \in hits : j <= i})
           cut == s.matched + Cardinality(hits) >= Limit
           batch == s.batch \cup {p.keys[i] : i \in {j \in hits : matched(j) <= Limit}}
       IN
       \/ cut /\ Finish(r, Event(batch, RoundCursor(s.cur, p.next), TRUE, TRUE))
       \/ ~cut /\ p.next = Done /\ Finish(r, Event(batch, Done, TRUE, FALSE))
       \/ ~cut /\ p.next # Done /\ Finish(r, Event(batch, p.next, TRUE, TRUE))
       \/ /\ ~cut /\ p.next # Done
          /\ \E emit \in BOOLEAN :
               /\ wire' = IF emit
                            THEN [wire EXCEPT ![r] = Append(wire[r], Event(batch, p.next, FALSE, FALSE))]
                            ELSE wire
               /\ server' = [server EXCEPT
                    ![r] = [on |-> TRUE, cur |-> p.next, matched |-> s.matched + Cardinality(hits),
                            batch |-> IF emit THEN {} ELSE batch]]
  BY DEF Round
<1>. DEFINE p == Page(s.cur, nodes)
            hits == {i \in DOMAIN p.keys : p.keys[i] \in call[r].flt}
            total == s.matched + Cardinality(hits)
            cut == total >= Limit
            new == {p.keys[i] : i \in {j \in hits : s.matched + Cardinality({k \in hits : k <= j}) <= Limit}}
            batch == s.batch \cup new
<1>2. (cut /\ Finish(r, Event(batch, RoundCursor(s.cur, p.next), TRUE, TRUE)))
      \/ (~cut /\ p.next = Done /\ Finish(r, Event(batch, Done, TRUE, FALSE)))
      \/ (~cut /\ p.next # Done /\ Finish(r, Event(batch, p.next, TRUE, TRUE)))
      \/ (/\ ~cut /\ p.next # Done
          /\ \E emit \in BOOLEAN :
               /\ wire' = IF emit
                            THEN [wire EXCEPT ![r] = Append(wire[r], Event(batch, p.next, FALSE, FALSE))]
                            ELSE wire
               /\ server' = [server EXCEPT
                    ![r] = [on |-> TRUE, cur |-> p.next, matched |-> total,
                            batch |-> IF emit THEN {} ELSE batch]])
  BY Zenon, <1>1
<1>3. TypeInv /\ s \in ServerType /\ s.cur \in Cursor /\ s.batch \in SUBSET Key
  BY DEF Base, TypeInv, ServerType
<1>4. /\ new \subseteq ToSet(p.keys) \cap call[r].flt /\ new \subseteq Key
      /\ ~cut => new = ToSet(p.keys) \cap call[r].flt
      /\ ~cut => total \in 0 .. Limit - 1
      /\ ShortPages /\ cut => s.matched # 0
  BY <1>3, TurnIs
<1>5. p.next = Done \/ p.next \in Cursor
  BY <1>3, PageIs
<1>6. s.cur # Done
  BY <1>3, Cursors
<1>7. batch \in SUBSET Key /\ s.batch \subseteq batch /\ batch \subseteq s.batch \cup (ToSet(p.keys) \cap call[r].flt)
      /\ (~cut => batch = s.batch \cup (ToSet(p.keys) \cap call[r].flt))
  BY <1>3, <1>4
<1>. HIDE DEF batch, cut, total, p, new, hits, s
<1>8. CASE cut /\ Finish(r, Event(batch, RoundCursor(s.cur, p.next), TRUE, TRUE))
  <2>. DEFINE e == Event(batch, s.cur, TRUE, TRUE)
  <2>1. e \in EventFrame /\ e \in Frame /\ e.keys = batch /\ e.done /\ e.truncated /\ e.cursor = s.cur
    BY Zenon, <1>3, <1>6, <1>7, EventsAre
  <2>2. Finish(r, e)
    BY <1>8 DEF RoundCursor
  <2>. HIDE DEF e
  <2>3. OnlyOf(r) /\ server'[r] = Off /\ wire'[r] = wire[r] \o <<e, End>>
    BY <1>0, <2>1, <2>2, FinishIs
  <2>4. LastIs(r, p, batch, e)
    BY <1>4, <1>7, <1>8, <2>1, <2>3 DEF LastIs, s
  <2>. QED
    BY <1>0, <1>7, <2>1, <2>3, <2>4 DEF p, s
<1>9. CASE ~cut /\ p.next = Done /\ Finish(r, Event(batch, Done, TRUE, FALSE))
  <2>. DEFINE e == Event(batch, Done, TRUE, FALSE)
  <2>1. e \in EventFrame /\ e \in Frame /\ e.keys = batch /\ e.done /\ ~e.truncated /\ e.cursor = Start
    <3>1. Done \in Cursor \cup {Done}
      OBVIOUS
    <3>. QED
      BY Zenon, <1>7, <3>1, EventsAre
  <2>2. Finish(r, e)
    BY <1>9
  <2>. HIDE DEF e
  <2>3. OnlyOf(r) /\ server'[r] = Off /\ wire'[r] = wire[r] \o <<e, End>>
    BY <1>0, <2>1, <2>2, FinishIs
  <2>4. LastIs(r, p, batch, e)
    BY <1>7, <1>9, <2>1, <2>3 DEF LastIs, s
  <2>. QED
    BY <1>0, <1>7, <2>1, <2>3, <2>4 DEF p, s
<1>10. CASE ~cut /\ p.next # Done /\ Finish(r, Event(batch, p.next, TRUE, TRUE))
  <2>. DEFINE e == Event(batch, p.next, TRUE, TRUE)
  <2>1. e \in EventFrame /\ e \in Frame /\ e.keys = batch /\ e.done /\ e.truncated /\ e.cursor = p.next
    BY Zenon, <1>5, <1>7, <1>10, EventsAre
  <2>2. Finish(r, e)
    BY <1>10
  <2>. HIDE DEF e
  <2>3. OnlyOf(r) /\ server'[r] = Off /\ wire'[r] = wire[r] \o <<e, End>>
    BY <1>0, <2>1, <2>2, FinishIs
  <2>4. LastIs(r, p, batch, e)
    BY <1>7, <1>10, <2>1, <2>3 DEF LastIs, s
  <2>. QED
    BY <1>0, <1>7, <2>1, <2>3, <2>4 DEF p, s
<1>11. ASSUME ~cut, p.next # Done, NEW emit \in BOOLEAN,
              wire' = IF emit
                        THEN [wire EXCEPT ![r] = Append(wire[r], Event(batch, p.next, FALSE, FALSE))]
                        ELSE wire,
              server' = [server EXCEPT
                ![r] = [on |-> TRUE, cur |-> p.next, matched |-> total,
                        batch |-> IF emit THEN {} ELSE batch]]
       PROVE  OnlyOf(r) /\ \E e \in EventFrame : GoesOn(r, p, batch, e)
  <2>. DEFINE e == Event(batch, p.next, FALSE, FALSE)
              t == [on |-> TRUE, cur |-> p.next, matched |-> total,
                    batch |-> IF emit THEN {} ELSE batch]
              w == IF emit THEN Append(wire[r], e) ELSE wire[r]
  <2>1. e \in EventFrame /\ e \in Frame /\ e.keys = batch /\ ~e.done /\ ~e.truncated /\ e.cursor = p.next
    BY Zenon, <1>5, <1>7, <1>11, EventsAre
  <2>2. t \in ServerType /\ t.on /\ t.cur = p.next /\ t.batch = IF emit THEN {} ELSE batch
    BY <1>4, <1>5, <1>7, <1>11 DEF ServerType
  <2>. HIDE DEF e
  <2>3. wire[r] \in Seq(Frame) /\ wire \in [Run -> Seq(Frame)]
    BY DEF Base, TypeInv
  <2>4. w \in Seq(Frame)
    BY <2>1, <2>3
  <2>5. wire' = [wire EXCEPT ![r] = w]
    BY <1>11, <2>3 DEF e
  <2>6. server' = [server EXCEPT ![r] = t]
    BY <1>11
  <2>. HIDE DEF t
  <2>7. OnlyOf(r) /\ server'[r] = t /\ wire'[r] = w
    BY <1>0, <2>2, <2>4, <2>5, <2>6, TurnsIs
  <2>8. GoesOn(r, p, batch, e)
    BY <1>7, <1>11, <2>1, <2>2, <2>7 DEF GoesOn, s
  <2>. QED
    BY <2>1, <2>7, <2>8
<1>12. CASE ~cut /\ p.next # Done
            /\ \E emit \in BOOLEAN :
                 /\ wire' = IF emit
                              THEN [wire EXCEPT ![r] = Append(wire[r], Event(batch, p.next, FALSE, FALSE))]
                              ELSE wire
                 /\ server' = [server EXCEPT
                      ![r] = [on |-> TRUE, cur |-> p.next, matched |-> total,
                              batch |-> IF emit THEN {} ELSE batch]]
  <2>1. OnlyOf(r) /\ \E e \in EventFrame : GoesOn(r, p, batch, e)
    BY <1>11, <1>12
  <2>. QED
    BY <1>0, <1>7, <2>1 DEF p, s
<1>. QED
  BY Zenon, <1>2, <1>8, <1>9, <1>10, <1>12

LEMMA RoundBase ==
  ASSUME Base, NEW r \in Run, Round(r)
  PROVE  Base'
<1>1. OnlyOf(r) /\ server[r].on
  BY RoundIs
<1>2. PICK nodes \in Masters, b \in SUBSET Key, e \in EventFrame :
        LET p == Page(server[r].cur, nodes) IN
        /\ b \subseteq server[r].batch \cup (ToSet(p.keys) \cap call[r].flt)
        /\ LastIs(r, p, b, e) \/ GoesOn(r, p, b, e)
  BY Zenon, RoundIs
<1>. DEFINE p == Page(server[r].cur, nodes)
<1>3. /\ b \subseteq server[r].batch \cup (ToSet(p.keys) \cap call[r].flt)
      /\ LastIs(r, p, b, e) \/ GoesOn(r, p, b, e)
  BY Zenon, <1>2
<1>4. /\ RunOK(call[r], server[r], wire[r]) /\ wire[r] \in Seq(Frame) /\ call[r] \in CallType
      /\ server[r] \in ServerType /\ server[r].cur \in Cursor /\ call[r].from \in Cursor /\ TypeInv
      /\ server[r].matched \in Nat
  BY LimitAssumption DEF Base, TypeInv, ServerType, CallType
<1>5. p.next = Done \/ (p.next \in Cursor /\ Later(p.next, server[r].cur))
  BY <1>4, PageIs
<1>. HIDE DEF p
<1>6. /\ server[r].batch \subseteq call[r].flt /\ b \subseteq call[r].flt
      /\ Later(server[r].cur, call[r].from) \/ (server[r].cur = call[r].from /\ server[r].matched = 0)
  BY <1>1, <1>3, <1>4 DEF RunOK
<1>7. p.next # Done => Later(p.next, call[r].from)
  BY <1>4, <1>5, <1>6, Cursors
<1>8. RunOK(call[r], server'[r], wire'[r])
  <2>1. CASE LastIs(r, p, b, e)
    <3>1. e.done /\ e.keys = b /\ server'[r] = Off /\ wire'[r] = wire[r] \o <<e, End>>
      BY <2>1 DEF LastIs
    <3>2. ShortPages /\ e.truncated => Later(e.cursor, call[r].from)
      BY <1>6, <1>7, <2>1 DEF LastIs
    <3>. QED
      BY <1>1, <1>4, <1>6, <3>1, <3>2, FinishOK
  <2>2. CASE GoesOn(r, p, b, e)
    <3>1. /\ ~e.done /\ ~e.truncated /\ e.keys = b /\ server'[r].cur = p.next /\ p.next # Done
          /\ server'[r].batch \subseteq call[r].flt
          /\ wire'[r] = Append(wire[r], e) \/ wire'[r] = wire[r]
      BY <1>6, <2>2 DEF GoesOn
    <3>2. Later(server'[r].cur, call[r].from)
      BY <1>7, <3>1
    <3>. QED
      BY <1>1, <1>4, <1>6, <3>1, <3>2, ProgressOK, SilentOK
  <2>. QED
    BY <1>3, <2>1, <2>2
<1>9. /\ UNCHANGED <<layout, filter, shown, cursorRef, hasMore, isLoading, failed, current, call,
                     cancelled, revived>>
      /\ server' \in [Run -> ServerType] /\ wire' \in [Run -> Seq(Frame)]
      /\ \A q \in Run \ {r} : server'[q] = server[q] /\ wire'[q] = wire[q]
  BY <1>1 DEF OnlyOf
<1>. QED
  BY <1>1, <1>8, <1>9 DEF Base, TypeInv, OnlyCurrent, OfFilters

LEMMA RoundFailsBase ==
  ASSUME Base, NEW r \in Run, RoundFails(r)
  PROVE  Base'
<1>1. /\ RunOK(call[r], server[r], wire[r]) /\ wire[r] \in Seq(Frame) /\ server[r].on
      /\ wire \in [Run -> Seq(Frame)] /\ server \in [Run -> ServerType]
  BY DEF Base, TypeInv, RoundFails
<1>2. Append(wire[r], Error) \in Seq(Frame)
  BY <1>1, Kinds
<1>3. /\ server' = [server EXCEPT ![r] = Off] /\ wire' = [wire EXCEPT ![r] = Append(wire[r], Error)]
      /\ UNCHANGED <<layout, filter, shown, cursorRef, hasMore, isLoading, failed, current, call,
                     cancelled, revived>>
  BY DEF RoundFails
<1>4. /\ server' \in [Run -> ServerType] /\ wire' \in [Run -> Seq(Frame)]
      /\ server'[r] = Off /\ wire'[r] = Append(wire[r], Error)
      /\ \A q \in Run \ {r} : server'[q] = server[q] /\ wire'[q] = wire[q]
  BY <1>1, <1>2, <1>3, ClosedOK
<1>5. RunOK(call[r], server'[r], wire'[r])
  BY <1>1, <1>4, ErrorOK
<1>6. ~Off.on
  BY DEF Off
<1>. QED
  BY <1>3, <1>4, <1>5, <1>6 DEF Base, TypeInv, OnlyCurrent, OfFilters

-----------------------------------------------------------------------------
(* The runs together.                                                       *)

LEMMA InitBase == Init => Base
<1>. SUFFICES ASSUME Init PROVE Base
  OBVIOUS
<1>1. /\ call = [r \in Run |-> Closed] /\ server = [r \in Run |-> Off] /\ wire = [r \in Run |-> << >>]
      /\ shown = {} /\ ~isLoading /\ current = None /\ cancelled = {} /\ ~revived
  BY DEF Init
<1>2. << >> \in Seq(Frame) /\ ~Off.on /\ Closed.at = "closed"
  BY DEF Off, Closed
<1>3. TypeInv
  BY <1>1, <1>2, ClosedOK, Cursors DEF Init, TypeInv
<1>4. OnlyCurrent
  BY <1>1, <1>2 DEF OnlyCurrent
<1>5. OfFilters
  BY <1>1 DEF OfFilters
<1>. QED
  BY <1>1, <1>3, <1>4, <1>5, ClosedOK DEF Base

LEMMA BaseStep == Base /\ [Next]_vars => Base'
<1>. SUFFICES ASSUME Base, [Next]_vars PROVE Base'
  OBVIOUS
<1>1. /\ filter \in Filters /\ filter \in SUBSET Key /\ cursorRef \in Cursor /\ isLoading \in BOOLEAN
      /\ hasMore \in BOOLEAN /\ failed \in BOOLEAN /\ revived \in BOOLEAN
      /\ \A q \in Run : call[q].flt \in SUBSET Key
  BY FiltersAssumption DEF Base, TypeInv, CallType
<1>2. ASSUME NEW r \in Run, NEW f \in Filters, Restart(r, f) PROVE Base'
  <2>1. /\ StartRun(r, None, f, Start, TRUE, FALSE) /\ filter' = f /\ cursorRef' = Start
        /\ revived' = FALSE
    BY <1>2 DEF Restart
  <2>2. f \in SUBSET Key /\ Start \in Cursor /\ TRUE \in BOOLEAN /\ FALSE \in BOOLEAN /\ None \in Run \cup {None}
    BY FiltersAssumption, Cursors
  <2>. QED
    BY <2>1, <2>2, StartRunBase
<1>3. ASSUME NEW r \in Run, NEW bulk \in BOOLEAN, Continue(r, bulk) PROVE Base'
  <2>1. /\ StartRun(r, None, filter, cursorRef, FALSE, bulk)
        /\ UNCHANGED <<filter, cursorRef, revived>>
    BY <1>3 DEF Continue
  <2>2. FALSE \in BOOLEAN /\ None \in Run \cup {None}
    OBVIOUS
  <2>. QED
    BY <1>1, <2>1, <2>2, StartRunBase
<1>4. CASE Cancel
  BY <1>4, CancelBase
<1>5. ASSUME NEW r \in Run, Receive(r) PROVE Base'
  BY <1>5, ReceiveBase
<1>6. ASSUME NEW r \in Run, ReceiveStale(r) PROVE Base'
  <2>1. /\ Close(r) /\ r # current
        /\ UNCHANGED <<layout, filter, shown, cursorRef, hasMore, isLoading, failed, current, server,
                       revived>>
    BY <1>6 DEF ReceiveStale
  <2>2. ~server[r].on /\ isLoading' = (isLoading /\ r # current)
    BY <1>1, <2>1, OverIs
  <2>. QED
    BY <1>1, <2>1, <2>2, CloseBase
<1>7. ASSUME NEW r \in Run, Return(r) PROVE Base'
  <2>1. /\ Close(r) /\ isLoading' = (isLoading /\ r # current)
        /\ Arrived(r, "end") \/ r \in cancelled
        /\ UNCHANGED <<layout, filter, shown, cursorRef, hasMore, failed, current, server, revived>>
    BY <1>7 DEF Return, Ends
  <2>2. ~server[r].on
    BY <2>1, OverIs
  <2>. QED
    BY <1>1, <2>1, <2>2, CloseBase
<1>8. ASSUME NEW r \in Run, Throws(r) PROVE Base'
  <2>1. /\ Close(r)
        /\ Arrived(r, "error") \/ r \in cancelled
        /\ IF r = current
             THEN failed' = TRUE /\ hasMore' = FALSE /\ isLoading' = FALSE
             ELSE UNCHANGED <<failed, hasMore, isLoading>>
        /\ UNCHANGED <<layout, filter, shown, cursorRef, current, server, revived>>
    BY <1>8 DEF Throws
  <2>2. ~server[r].on
    BY <2>1, OverIs
  <2>3. isLoading' = (isLoading /\ r # current) /\ hasMore' \in BOOLEAN /\ failed' \in BOOLEAN
    BY <1>1, <2>1
  <2>. QED
    BY <2>1, <2>2, <2>3, CloseBase
<1>9. ASSUME NEW r \in Run, NEW q \in Run, LoadAllGoesOn(r, q) PROVE Base'
  <2>1. /\ StartRun(q, r, call[r].flt, cursorRef, FALSE, TRUE)
        /\ revived' = (revived \/ r # current) /\ UNCHANGED <<filter, cursorRef>>
        /\ call[r].at = "open"
    BY <1>9 DEF LoadAllGoesOn, Ends
  <2>2. ~revived' => ~revived /\ call[r].flt = filter
    BY <2>1, NoneAssumption DEF Base, OnlyCurrent, OfFilters
  <2>3. revived' \in BOOLEAN /\ FALSE \in BOOLEAN /\ TRUE \in BOOLEAN
    BY <1>1, <2>1
  <2>. QED
    BY <1>1, <2>1, <2>2, <2>3, StartRunBase
<1>10. ASSUME NEW r \in Run, Round(r) PROVE Base'
  BY <1>10, RoundBase
<1>11. ASSUME NEW r \in Run, RoundFails(r) PROVE Base'
  BY <1>11, RoundFailsBase
<1>12. CASE UNCHANGED vars
  BY <1>12 DEF vars, Base, TypeInv, OnlyCurrent, OfFilters
<1>. QED
  BY Zenon, <1>2, <1>3, <1>4, <1>5, <1>6, <1>7, <1>8, <1>9, <1>10, <1>11, <1>12
     DEF Next, User, Deliver

LEMMA BaseHolds == Spec => []Base
<1>. QED
  BY InitBase, BaseStep, PTL DEF Spec

\* The list never shows a key of other filters than the form's, however many
\* runs end, are cancelled or replaced, and whenever their events arrive
\* (keys-search.ts 65-70, 90).
THEOREM OnlyMatches == Spec => []ShowsOnlyMatches
<1>1. Base => ShowsOnlyMatches
  BY DEF Base, OfFilters, ShowsOnlyMatches
<1>. QED
  BY <1>1, BaseHolds, PTL

-----------------------------------------------------------------------------
(* A run gets on.                                                           *)

LEMMA MoreStep ==
  ASSUME Base, [Next]_vars, NEW r \in Run, call[r].at = "open", ~call[r].more, call'[r].more
  PROVE  Receive(r)
<1>1. ASSUME NEW q \in Run, NEW old, NEW flt \in SUBSET Key, NEW cursor \in Cursor, NEW reset,
             NEW bulk \in BOOLEAN, StartRun(q, old, flt, cursor, reset, bulk)
      PROVE  FALSE
  <2>1. Started(q, old, flt, cursor, bulk) /\ ~Opened(flt, cursor, bulk).more
    BY <1>1, StartRunIs, OpenedIs
  <2>2. call'[q] = Opened(flt, cursor, bulk)
        /\ \A p \in Run \ {q} : call'[p] = IF p = old THEN Closed ELSE call[p]
    BY Zenon, <2>1 DEF Started
  <2>3. ~Closed.more
    BY DEF Closed
  <2>. QED
    BY <2>1, <2>2, <2>3
<1>2. ASSUME NEW q \in Run, Close(q) PROVE FALSE
  BY <1>2 DEF Close, Closed, Base, TypeInv
<1>3. /\ filter \in SUBSET Key /\ cursorRef \in Cursor /\ Start \in Cursor
      /\ \A f \in Filters : f \in SUBSET Key
      /\ \A q \in Run : call[q].flt \in SUBSET Key
  BY FiltersAssumption, Cursors DEF Base, TypeInv, CallType
<1>4. ASSUME NEW q \in Run, NEW f \in Filters, Restart(q, f) PROVE FALSE
  BY <1>1, <1>3, <1>4 DEF Restart
<1>5. ASSUME NEW q \in Run, NEW bulk \in BOOLEAN, Continue(q, bulk) PROVE FALSE
  BY <1>1, <1>3, <1>5 DEF Continue
<1>6. ASSUME NEW q \in Run, NEW p \in Run, LoadAllGoesOn(q, p) PROVE FALSE
  BY <1>1, <1>3, <1>6 DEF LoadAllGoesOn
<1>7. ASSUME NEW q \in Run, Receive(q) PROVE q = r
  BY <1>7, ReceiveIs
<1>8. ASSUME NEW q \in Run, ReceiveStale(q) \/ Return(q) \/ Throws(q) PROVE FALSE
  BY <1>2, <1>8 DEF ReceiveStale, Return, Throws
<1>9. ~Cancel /\ ~(UNCHANGED vars)
  BY DEF Cancel, vars
<1>10. ASSUME NEW q \in Run PROVE ~Round(q) /\ ~RoundFails(q)
  BY DEF Round, RoundFails
<1>. QED
  BY Zenon, <1>4, <1>5, <1>6, <1>7, <1>8, <1>9, <1>10 DEF Next, User, Deliver

\* When no page reaches the limit on its own, a run that stops early has moved
\* the cursor, so that "load more" gets somewhere (keys-search.ts 17, 31).
THEOREM GetsSomewhere == ShortPages /\ Spec => Progress
<1>. SUFFICES ASSUME ShortPages PROVE Spec => Progress
  OBVIOUS
<1>1. ASSUME Base, [Next]_vars, NEW r \in Run,
             call[r].at = "open", ~call[r].more, call'[r].more
      PROVE  cursorRef' # call[r].from \/ call'[r].gained
  <2>1. Receive(r)
    BY <1>1, MoreStep
  <2>2. /\ wire[r][1].done /\ wire[r][1].truncated /\ cursorRef' = wire[r][1].cursor
        /\ 1 \in DOMAIN wire[r] /\ wire[r][1] \in EventFrame
    BY <1>1, <2>1, ReceiveIs
  <2>3. Later(wire[r][1].cursor, call[r].from)
    BY <1>1, <2>2, Kinds DEF Base, RunOK
  <2>4. call[r].from \in Cursor
    BY <1>1 DEF Base, TypeInv, CallType
  <2>. QED
    BY <2>2, <2>3, <2>4 DEF Later, Cursor
<1>2. ASSUME Base, [Next]_vars
      PROVE  [\A r \in Run : (call[r].at = "open" /\ ~call[r].more /\ call'[r].more)
                => cursorRef' # call[r].from \/ call'[r].gained]_vars
  BY <1>1, <1>2
<1>. QED
  BY <1>2, BaseHolds, PTL DEF Spec, Progress

-----------------------------------------------------------------------------
(* Nothing is missed.                                                       *)

LEMMA SentIs ==
  ASSUME NEW S, NEW w, NEW i
  PROVE  \A x : x \in Sent(S, w, i) <=> x \in S \/ \E k \in 1 .. i : w[k].kind = "event" /\ x \in w[k].keys
BY DEF Sent

LEMMA MoreCovered ==
  ASSUME NEW l, NEW S, NEW T, NEW cur, NEW f, S \subseteq T
  PROVE  (Covered(l, S, cur, f) => Covered(l, T, cur, f)) /\ (All(l, S, f) => All(l, T, f))
BY DEF Covered, All

LEMMA StartCovered ==
  ASSUME TypeInv, NEW S, NEW f
  PROVE  Covered(layout, S, Start, f)
<1>1. ASSUME NEW n \in DOMAIN layout, NEW i \in DOMAIN layout[n] PROVE ~Before(n, i, Start)
  BY LayoutIs DEF Before, Start
<1>. QED
  BY <1>1 DEF Covered

\* An event arrives, ...
LEMMA HonestTail ==
  ASSUME NEW l, NEW f, NEW S, NEW s, NEW w \in Seq(Frame), w # << >>, w[1].kind = "event",
         Honest(l, f, S, s, w)
  PROVE  /\ Honest(l, f, S \cup w[1].keys, s, Tail(w))
         /\ Covered(l, S \cup w[1].keys, w[1].cursor, f)
         /\ w[1].done /\ ~w[1].truncated => All(l, S \cup w[1].keys, f)
<1>. DEFINE t == Tail(w)
            T == S \cup w[1].keys
<1>1. /\ DOMAIN t = 1 .. Len(w) - 1 /\ Len(t) = Len(w) - 1
      /\ DOMAIN w = 1 .. Len(w) /\ Len(w) \in Nat \ {0}
      /\ \A i \in 1 .. Len(w) - 1 : t[i] = w[i + 1]
  BY TailIs
<1>. HIDE DEF t
<1>2. ASSUME NEW i \in 0 .. Len(w) - 1 PROVE Sent(S, w, i + 1) \subseteq Sent(T, t, i)
  <2>. SUFFICES ASSUME NEW x \in Sent(S, w, i + 1) PROVE x \in Sent(T, t, i)
    OBVIOUS
  <2>1. CASE x \in S
    BY <2>1, SentIs
  <2>2. ASSUME NEW k \in 1 .. i + 1, w[k].kind = "event", x \in w[k].keys PROVE x \in Sent(T, t, i)
    <3>1. CASE k = 1
      BY <2>2, <3>1, SentIs
    <3>2. CASE k # 1
      <4>1. k - 1 \in 1 .. i /\ k - 1 \in 1 .. Len(w) - 1 /\ (k - 1) + 1 = k
        BY <1>1, <3>2
      <4>2. t[k - 1] = w[k]
        BY <1>1, <4>1
      <4>. QED
        BY <2>2, <4>1, <4>2, SentIs
    <3>. QED
      BY <3>1, <3>2
  <2>. QED
    BY <2>1, <2>2, SentIs
<1>3. Sent(S, w, 1) \subseteq T
  BY SentIs
<1>4. /\ \A i \in DOMAIN w : w[i].kind = "event" =>
           /\ Covered(l, Sent(S, w, i), w[i].cursor, f)
           /\ w[i].done /\ ~w[i].truncated => All(l, Sent(S, w, i), f)
      /\ s.on => Covered(l, Sent(S, w, Len(w)) \cup s.batch, s.cur, f)
  BY DEF Honest
<1>5. ASSUME NEW i \in DOMAIN t, t[i].kind = "event"
      PROVE  /\ Covered(l, Sent(T, t, i), t[i].cursor, f)
             /\ t[i].done /\ ~t[i].truncated => All(l, Sent(T, t, i), f)
  <2>1. t[i] = w[i + 1] /\ i + 1 \in DOMAIN w /\ i \in 0 .. Len(w) - 1
    BY <1>1
  <2>2. Sent(S, w, i + 1) \subseteq Sent(T, t, i)
    BY <1>2, <2>1
  <2>. HIDE DEF T
  <2>. QED
    BY <1>4, <1>5, <2>1, <2>2, MoreCovered
<1>6. s.on => Covered(l, Sent(T, t, Len(t)) \cup s.batch, s.cur, f)
  <2>1. Len(w) - 1 \in 0 .. Len(w) - 1 /\ (Len(w) - 1) + 1 = Len(w)
    BY <1>1
  <2>2. Sent(S, w, Len(w)) \cup s.batch \subseteq Sent(T, t, Len(t)) \cup s.batch
    BY <1>1, <1>2, <2>1
  <2>. HIDE DEF T
  <2>. QED
    BY <1>4, <2>2, MoreCovered
<1>7. Honest(l, f, T, s, t)
  BY <1>5, <1>6 DEF Honest
<1>8. 1 \in DOMAIN w
  BY <1>1
<1>. QED
  BY <1>3, <1>4, <1>7, <1>8, MoreCovered DEF t

\* ... is sent, ...
LEMMA HonestMore ==
  ASSUME NEW l, NEW f, NEW S, NEW s, NEW w \in Seq(Frame), NEW v \in Seq(Frame),
         DOMAIN w = 1 .. Len(w), Len(w) \in Nat, Len(w) + 1 \in DOMAIN v,
         \A i \in 1 .. Len(w) : v[i] = w[i],
         v[Len(w) + 1].kind = "event",
         Honest(l, f, S, s, w)
  PROVE  /\ \A i \in DOMAIN w : v[i].kind = "event" =>
              /\ Covered(l, Sent(S, v, i), v[i].cursor, f)
              /\ v[i].done /\ ~v[i].truncated => All(l, Sent(S, v, i), f)
         /\ Sent(S, w, Len(w)) \cup v[Len(w) + 1].keys \subseteq Sent(S, v, Len(w) + 1)
<1>1. ASSUME NEW i \in 0 .. Len(w) PROVE Sent(S, w, i) \subseteq Sent(S, v, i)
  <2>1. \A k \in 1 .. i : v[k] = w[k]
    OBVIOUS
  <2>. QED
    BY <2>1, SentIs
<1>2. \A i \in DOMAIN w : v[i].kind = "event" =>
        /\ Covered(l, Sent(S, v, i), v[i].cursor, f)
        /\ v[i].done /\ ~v[i].truncated => All(l, Sent(S, v, i), f)
  BY <1>1, MoreCovered DEF Honest
<1>3. Sent(S, v, Len(w)) \subseteq Sent(S, v, Len(w) + 1)
  <2>1. 1 .. Len(w) \subseteq 1 .. Len(w) + 1
    OBVIOUS
  <2>. QED
    BY <2>1, SentIs
<1>4. v[Len(w) + 1].keys \subseteq Sent(S, v, Len(w) + 1)
  BY SentIs
<1>. QED
  BY <1>1, <1>2, <1>3, <1>4

\* ... or fails to be.
LEMMA HonestOff ==
  ASSUME NEW l, NEW f, NEW S, NEW s, NEW w, Honest(l, f, S, s, w)
  PROVE  Honest(l, f, S, Off, w)
BY DEF Honest, Off

\* The last event of a run tells what has been looked at, ...
LEMMA HonestLast ==
  ASSUME NEW l, NEW f, NEW S, NEW s, NEW w \in Seq(Frame), NEW e \in EventFrame, Honest(l, f, S, s, w),
         Covered(l, Sent(S, w, Len(w)) \cup e.keys, e.cursor, f),
         e.done /\ ~e.truncated => All(l, Sent(S, w, Len(w)) \cup e.keys, f)
  PROVE  Honest(l, f, S, Off, w \o <<e, End>>)
<1>. DEFINE v == w \o <<e, End>>
            R == Sent(S, w, Len(w)) \cup e.keys
<1>1. /\ v \in Seq(Frame) /\ DOMAIN v = 1 .. Len(w) + 2 /\ DOMAIN w = 1 .. Len(w) /\ Len(w) \in Nat
      /\ v[Len(w) + 1] = e /\ v[Len(w) + 2] = End /\ \A i \in 1 .. Len(w) : v[i] = w[i]
  BY Kinds, TwoMoreIs
<1>2. e.kind = "event" /\ End.kind = "end" /\ ~Off.on
  BY Kinds DEF Off
<1>. HIDE DEF v
<1>3. /\ \A i \in DOMAIN w : v[i].kind = "event" =>
              /\ Covered(l, Sent(S, v, i), v[i].cursor, f)
              /\ v[i].done /\ ~v[i].truncated => All(l, Sent(S, v, i), f)
      /\ R \subseteq Sent(S, v, Len(w) + 1)
  BY <1>1, <1>2, HonestMore
<1>. HIDE DEF R
<1>4. /\ Covered(l, Sent(S, v, Len(w) + 1), e.cursor, f)
      /\ e.done /\ ~e.truncated => All(l, Sent(S, v, Len(w) + 1), f)
  BY <1>3, MoreCovered DEF R
<1>5. \A i \in DOMAIN v : i \in DOMAIN w \/ i = Len(w) + 1 \/ i = Len(w) + 2
  BY <1>1
<1>6. Honest(l, f, S, Off, v)
  BY <1>1, <1>2, <1>3, <1>4, <1>5 DEF Honest
<1>. QED
  BY <1>6 DEF v

\* ... and so does one on the way, ...
LEMMA HonestProgress ==
  ASSUME NEW l, NEW f, NEW S, NEW s, NEW t, NEW w \in Seq(Frame), NEW e \in EventFrame,
         Honest(l, f, S, s, w), ~e.done,
         Covered(l, Sent(S, w, Len(w)) \cup e.keys, e.cursor, f), t.cur = e.cursor
  PROVE  Honest(l, f, S, t, Append(w, e))
<1>. DEFINE v == Append(w, e)
            R == Sent(S, w, Len(w)) \cup e.keys
<1>1. /\ v \in Seq(Frame) /\ DOMAIN v = 1 .. Len(w) + 1 /\ DOMAIN w = 1 .. Len(w) /\ Len(w) \in Nat
      /\ v[Len(w) + 1] = e /\ \A i \in 1 .. Len(w) : v[i] = w[i] /\ Len(v) = Len(w) + 1
  BY Kinds, MoreIs
<1>2. e.kind = "event" /\ Len(v) = Len(w) + 1
  BY Kinds, MoreIs
<1>. HIDE DEF v
<1>3. /\ \A i \in DOMAIN w : v[i].kind = "event" =>
              /\ Covered(l, Sent(S, v, i), v[i].cursor, f)
              /\ v[i].done /\ ~v[i].truncated => All(l, Sent(S, v, i), f)
      /\ R \subseteq Sent(S, v, Len(w) + 1)
  BY <1>1, <1>2, HonestMore
<1>. HIDE DEF R
<1>4. /\ Covered(l, Sent(S, v, Len(w) + 1), e.cursor, f)
      /\ Covered(l, Sent(S, v, Len(w) + 1) \cup t.batch, e.cursor, f)
  BY <1>3, MoreCovered DEF R
<1>5. \A i \in DOMAIN v : i \in DOMAIN w \/ i = Len(w) + 1
  BY <1>1
<1>6. Honest(l, f, S, t, v)
  BY <1>1, <1>2, <1>3, <1>4, <1>5 DEF Honest
<1>. QED
  BY <1>6 DEF v

\* ... and the error tells nothing.
LEMMA HonestError ==
  ASSUME NEW l, NEW f, NEW S, NEW s, NEW w \in Seq(Frame), Honest(l, f, S, s, w)
  PROVE  Honest(l, f, S, Off, Append(w, Error))
<1>. DEFINE v == Append(w, Error)
<1>1. /\ DOMAIN v = 1 .. Len(w) + 1 /\ DOMAIN w = 1 .. Len(w) /\ Len(w) \in Nat
      /\ v[Len(w) + 1] = Error /\ \A i \in 1 .. Len(w) : v[i] = w[i]
  BY Kinds, MoreIs
<1>2. Error.kind = "error" /\ ~Off.on
  BY Kinds DEF Off
<1>. HIDE DEF v
<1>3. ASSUME NEW i \in DOMAIN w PROVE Sent(S, w, i) \subseteq Sent(S, v, i)
  <2>1. \A k \in 1 .. i : v[k] = w[k]
    BY <1>1
  <2>. QED
    BY <2>1, SentIs
<1>4. \A i \in DOMAIN v : i \in DOMAIN w \/ i = Len(w) + 1
  BY <1>1
<1>5. \A i \in DOMAIN w : v[i].kind = "event" =>
        /\ Covered(l, Sent(S, v, i), v[i].cursor, f)
        /\ v[i].done /\ ~v[i].truncated => All(l, Sent(S, v, i), f)
  BY <1>1, <1>3, MoreCovered DEF Honest
<1>6. Honest(l, f, S, Off, v)
  BY <1>1, <1>2, <1>4, <1>5 DEF Honest
<1>. QED
  BY <1>6 DEF v

\* A run that begins with what the list has covered.
LEMMA HonestBegun ==
  ASSUME NEW l, NEW f, NEW S, NEW cursor \in Cursor, Covered(l, S, cursor, f)
  PROVE  Honest(l, f, S, Begun(cursor), << >>)
<1>1. Begun(cursor).cur = cursor /\ S \subseteq Sent(S, << >>, 0) \cup Begun(cursor).batch
  BY BegunIs, SentIs
<1>2. Covered(l, Sent(S, << >>, 0) \cup Begun(cursor).batch, cursor, f)
  BY <1>1, MoreCovered
<1>. QED
  BY <1>1, <1>2 DEF Honest

\* What a turn of the loop of the current run says is so.
LEMMA RoundHonest ==
  ASSUME Base, ~LostAppends, NEW r \in Run, Round(r), NEW S, NEW f, call[r].flt = f,
         Honest(layout, f, S, server[r], wire[r])
  PROVE  /\ Honest(layout, f, S, server'[r], wire'[r])
         /\ wire'[r] # << >> /\ Head(wire'[r]).kind = "end" => wire[r] # << >> /\ Head(wire[r]).kind = "end"
<1>1. OnlyOf(r) /\ server[r].on
  BY RoundIs
<1>2. PICK nodes \in Masters, b \in SUBSET Key, e \in EventFrame :
        LET p == Page(server[r].cur, nodes) IN
        /\ b \subseteq server[r].batch \cup (ToSet(p.keys) \cap call[r].flt)
        /\ LastIs(r, p, b, e) \/ GoesOn(r, p, b, e)
  BY Zenon, RoundIs
<1>. DEFINE p == Page(server[r].cur, nodes)
            R == Sent(S, wire[r], Len(wire[r]))
            hit == ToSet(p.keys) \cap f
<1>3. LastIs(r, p, b, e) \/ GoesOn(r, p, b, e)
  BY Zenon, <1>2
<1>4. wire[r] \in Seq(Frame) /\ server[r] \in ServerType /\ server[r].cur \in Cursor /\ TypeInv
  BY DEF Base, TypeInv, ServerType
<1>5. Covered(layout, R \cup server[r].batch, server[r].cur, f)
  BY <1>1 DEF Honest
<1>6. /\ p.next # Done => Covered(layout, (R \cup server[r].batch) \cup hit, p.next, f)
      /\ p.next = Done => All(layout, (R \cup server[r].batch) \cup hit, f)
  BY <1>4, <1>5, PageCovers
<1>7. Covered(layout, R \cup (server[r].batch \cup hit), Start, f)
  BY <1>4, StartCovered
<1>8. (R \cup server[r].batch) \cup hit = R \cup (server[r].batch \cup hit)
  OBVIOUS
<1>. HIDE DEF p, R
<1>9. /\ p.next # Done => Covered(layout, R \cup (server[r].batch \cup hit), p.next, f)
      /\ p.next = Done => All(layout, R \cup (server[r].batch \cup hit), f)
  BY <1>6, <1>8
<1>10. CASE LastIs(r, p, b, e)
  <2>1. /\ e.done /\ e.keys = b /\ server'[r] = Off /\ wire'[r] = wire[r] \o <<e, End>>
        /\ \/ e.truncated /\ e.cursor = server[r].cur /\ server[r].batch \subseteq b
           \/ ~e.truncated /\ p.next = Done /\ e.cursor = Start /\ b = server[r].batch \cup hit
           \/ e.truncated /\ p.next # Done /\ e.cursor = p.next /\ b = server[r].batch \cup hit
    BY <1>10 DEF LastIs
  <2>. HIDE DEF hit
  <2>2. Covered(layout, R \cup e.keys, e.cursor, f)
    <3>1. CASE server[r].batch \subseteq b /\ e.cursor = server[r].cur
      <4>1. R \cup server[r].batch \subseteq R \cup e.keys
        BY <2>1, <3>1
      <4>2. Covered(layout, R \cup server[r].batch, e.cursor, f)
        BY <1>5, <3>1 DEF R
      <4>. QED
        BY <4>1, <4>2, MoreCovered
    <3>2. CASE ~(server[r].batch \subseteq b /\ e.cursor = server[r].cur)
      BY <1>7, <1>9, <2>1, <3>2
    <3>. QED
      BY <3>1, <3>2
  <2>3. e.done /\ ~e.truncated => All(layout, R \cup e.keys, f)
    BY <1>9, <2>1
  <2>4. Honest(layout, f, S, Off, wire[r] \o <<e, End>>)
    BY <1>4, <2>2, <2>3, HonestLast DEF R
  <2>5. (wire[r] \o <<e, End>>)[1] = IF wire[r] = << >> THEN e ELSE wire[r][1]
    BY <1>4
  <2>6. Head(wire[r] \o <<e, End>>).kind = "end" => wire[r] # << >> /\ Head(wire[r]).kind = "end"
    <3>1. e.kind = "event"
      BY Kinds
    <3>. QED
      BY <1>4, <2>5, <3>1
  <2>. QED
    BY <2>1, <2>4, <2>6
<1>11. CASE GoesOn(r, p, b, e)
  <2>1. /\ ~e.done /\ e.keys = b /\ e.cursor = p.next /\ p.next # Done
        /\ b = server[r].batch \cup hit /\ server'[r].cur = p.next
        /\ (wire'[r] = Append(wire[r], e) \/ (wire'[r] = wire[r] /\ server'[r].batch = b))
    BY <1>11 DEF GoesOn
  <2>. HIDE DEF hit
  <2>2. Covered(layout, R \cup e.keys, e.cursor, f)
    BY <1>9, <2>1
  <2>3. CASE wire'[r] = Append(wire[r], e)
    <3>1. Honest(layout, f, S, server'[r], Append(wire[r], e))
      BY <1>4, <2>1, <2>2, HonestProgress DEF R
    <3>2. e.kind = "event" /\ Append(wire[r], e)[1] = IF wire[r] = << >> THEN e ELSE wire[r][1]
      BY <1>4, Kinds
    <3>. QED
      BY <1>4, <2>3, <3>1, <3>2
  <2>4. CASE wire'[r] = wire[r] /\ server'[r].batch = b
    BY <2>1, <2>2, <2>4 DEF Honest, R
  <2>. QED
    BY <2>1, <2>3, <2>4
<1>. QED
  BY <1>3, <1>10, <1>11

\* A run begins where the list stops, or with an empty list.
LEMMA StartRunMisses ==
  ASSUME Base, Base', NEW r \in Run, NEW old \in Run \cup {None}, NEW flt \in SUBSET Key,
         NEW cursor \in Cursor, NEW reset, NEW bulk \in BOOLEAN,
         StartRun(r, old, flt, cursor, reset, bulk), cursorRef' = cursor,
         ~revived' => Covered(layout, shown', cursor, filter')
  PROVE  NothingMissed'
<1>. SUFFICES ASSUME ~revived' PROVE NothingMissed'
  BY DEF NothingMissed
<1>1. server'[r] = Begun(cursor) /\ wire'[r] = << >>
  <2>1. Started(r, old, flt, cursor, bulk)
    BY StartRunIs
  <2>. QED
    BY Zenon, <2>1 DEF Started
<1>2. current' = r /\ isLoading' = TRUE /\ layout' = layout
  BY DEF StartRun
<1>3. Honest(layout, filter', shown', server'[r], wire'[r])
  BY <1>1, HonestBegun
<1>. QED
  BY <1>1, <1>2, <1>3 DEF NothingMissed

\* An event of the current run arrives.
LEMMA ReceiveMisses ==
  ASSUME Base, NothingMissed, NEW r \in Run, Receive(r)
  PROVE  NothingMissed'
<1>. DEFINE e == wire[r][1]
            T == shown \cup e.keys
<1>1. /\ r = current /\ isLoading
      /\ wire[r] \in Seq(Frame) /\ wire[r] # << >> /\ e \in EventFrame
      /\ shown' = T /\ cursorRef' = e.cursor
      /\ hasMore' = IF e.done THEN e.truncated ELSE hasMore
      /\ wire'[r] = Tail(wire[r])
  BY Zenon, ReceiveIs
<1>2. UNCHANGED <<layout, filter, isLoading, failed, current, server, cancelled, revived>>
  BY DEF Receive
<1>. SUFFICES ASSUME ~revived PROVE NothingMissed'
  BY <1>2 DEF NothingMissed
<1>3. Honest(layout, filter, shown, server[r], wire[r])
  BY <1>1 DEF NothingMissed
<1>4. /\ Honest(layout, filter, T, server[r], Tail(wire[r]))
      /\ Covered(layout, T, e.cursor, filter)
      /\ e.done /\ ~e.truncated => All(layout, T, filter)
  BY <1>1, <1>3, Kinds, HonestTail
<1>5. ASSUME Tail(wire[r]) # << >>, Head(Tail(wire[r])).kind = "end"
      PROVE  e.done
  <2>1. 2 \in DOMAIN wire[r] /\ wire[r][2].kind = "end"
    BY <1>1, <1>5
  <2>2. wire[r][2 - 1].done
    BY <2>1 DEF Base, RunOK
  <2>. QED
    BY <2>2
<1>. HIDE DEF T, e
<1>6. Tail(wire[r]) # << >> /\ Head(Tail(wire[r])).kind = "end" => hasMore' \/ All(layout, T, filter)
  BY <1>1, <1>4, <1>5
<1>. QED
  BY <1>1, <1>2, <1>4, <1>6 DEF NothingMissed

\* A call returns or throws.
LEMMA CloseMisses ==
  ASSUME Base, NothingMissed, NEW r \in Run, Close(r),
         UNCHANGED <<layout, filter, shown, cursorRef, current, server, revived>>,
         isLoading' = (isLoading /\ r # current),
         r # current => UNCHANGED <<hasMore, failed>>,
         r = current => failed' \/ (hasMore' = hasMore /\ Arrived(r, "end") /\ isLoading)
  PROVE  NothingMissed'
<1>. SUFFICES ASSUME ~revived PROVE NothingMissed'
  BY DEF NothingMissed
<1>1. \A q \in Run \ {r} : wire'[q] = wire[q]
  BY DEF Close, Base, TypeInv
<1>2. isLoading => current \in Run
  BY DEF Base, TypeInv, OnlyCurrent
<1>3. CASE r # current
  <2>1. isLoading => wire'[current] = wire[current] /\ server'[current] = server[current]
    BY <1>1, <1>2, <1>3
  <2>2. isLoading' = isLoading
    BY <1>3 DEF Base, TypeInv
  <2>. QED
    BY <1>3, <2>1, <2>2 DEF NothingMissed
<1>4. CASE r = current
  BY <1>4 DEF NothingMissed, Arrived
<1>. QED
  BY <1>3, <1>4

LEMMA RoundMisses ==
  ASSUME Base, ~LostAppends, NothingMissed, NEW r \in Run, Round(r)
  PROVE  NothingMissed'
<1>1. OnlyOf(r) /\ server[r].on
  BY RoundIs
<1>2. UNCHANGED <<layout, filter, shown, cursorRef, hasMore, isLoading, failed, current, call,
                  cancelled, revived>>
  BY <1>1 DEF OnlyOf
<1>. SUFFICES ASSUME ~revived PROVE NothingMissed'
  BY <1>2 DEF NothingMissed
<1>3. isLoading /\ r = current /\ call[r].flt = filter
  BY <1>1 DEF Base, OnlyCurrent, OfFilters
<1>4. Honest(layout, filter, shown, server[r], wire[r])
  BY <1>3 DEF NothingMissed
<1>5. /\ Honest(layout, filter, shown, server'[r], wire'[r])
      /\ wire'[r] # << >> /\ Head(wire'[r]).kind = "end" => wire[r] # << >> /\ Head(wire[r]).kind = "end"
  BY <1>3, <1>4, RoundHonest
<1>. QED
  BY <1>2, <1>3, <1>5 DEF NothingMissed

LEMMA RoundFailsMisses ==
  ASSUME Base, NothingMissed, NEW r \in Run, RoundFails(r)
  PROVE  NothingMissed'
<1>1. /\ UNCHANGED <<layout, filter, shown, cursorRef, hasMore, isLoading, failed, current, call,
                     cancelled, revived>>
      /\ server'[r] = Off /\ wire'[r] = Append(wire[r], Error)
      /\ wire[r] \in Seq(Frame) /\ server[r].on
  BY DEF RoundFails, Base, TypeInv
<1>. SUFFICES ASSUME ~revived PROVE NothingMissed'
  BY <1>1 DEF NothingMissed
<1>2. isLoading /\ r = current
  BY <1>1 DEF Base, OnlyCurrent
<1>3. Honest(layout, filter, shown, Off, Append(wire[r], Error))
  BY <1>1, <1>2, HonestError DEF NothingMissed
<1>4. Append(wire[r], Error)[1] = IF wire[r] = << >> THEN Error ELSE wire[r][1]
  BY <1>1, Kinds
<1>5. Head(wire'[r]).kind = "end" => wire[r] # << >> /\ Head(wire[r]).kind = "end"
  BY <1>1, <1>4, Kinds
<1>. QED
  BY <1>1, <1>2, <1>3, <1>5 DEF NothingMissed

LEMMA MissesStep ==
  ASSUME ~LostAppends, Base, Base', NothingMissed, [Next]_vars
  PROVE  NothingMissed'
<1>1. /\ filter \in Filters /\ filter \in SUBSET Key /\ cursorRef \in Cursor /\ isLoading \in BOOLEAN
      /\ \A q \in Run : call[q].flt \in SUBSET Key
  BY FiltersAssumption DEF Base, TypeInv, CallType
<1>2. ASSUME NEW r \in Run, NEW f \in Filters, Restart(r, f) PROVE NothingMissed'
  <2>1. /\ StartRun(r, None, f, Start, TRUE, FALSE) /\ filter' = f /\ cursorRef' = Start
    BY <1>2 DEF Restart
  <2>2. f \in SUBSET Key /\ Start \in Cursor /\ FALSE \in BOOLEAN /\ None \in Run \cup {None}
    BY FiltersAssumption, Cursors
  <2>3. Covered(layout, shown', Start, filter')
    BY StartCovered DEF Base
  <2>. QED
    BY <2>1, <2>2, <2>3, StartRunMisses
<1>3. ASSUME NEW r \in Run, NEW bulk \in BOOLEAN, Continue(r, bulk) PROVE NothingMissed'
  <2>1. /\ StartRun(r, None, filter, cursorRef, FALSE, bulk)
        /\ UNCHANGED <<filter, cursorRef, revived>>
    BY <1>3 DEF Continue
  <2>2. shown' = shown
    BY <2>1 DEF StartRun
  <2>3. ~revived' => Covered(layout, shown', cursorRef, filter')
    BY <2>1, <2>2 DEF NothingMissed
  <2>4. None \in Run \cup {None}
    OBVIOUS
  <2>. QED
    BY <1>1, <2>1, <2>3, <2>4, StartRunMisses
<1>4. ASSUME NEW r \in Run, NEW q \in Run, LoadAllGoesOn(r, q) PROVE NothingMissed'
  <2>1. /\ StartRun(q, r, call[r].flt, cursorRef, FALSE, TRUE)
        /\ revived' = (revived \/ r # current) /\ UNCHANGED <<filter, cursorRef>>
    BY <1>4 DEF LoadAllGoesOn
  <2>2. shown' = shown
    BY <2>1 DEF StartRun
  <2>3. ~revived' => Covered(layout, shown', cursorRef, filter')
    BY <2>1, <2>2 DEF NothingMissed
  <2>4. TRUE \in BOOLEAN
    OBVIOUS
  <2>. QED
    BY <1>1, <2>1, <2>3, <2>4, StartRunMisses
<1>5. CASE Cancel
  <2>1. /\ UNCHANGED <<layout, filter, shown, cursorRef, revived>>
        /\ current' = None /\ isLoading' = FALSE
    BY <1>5 DEF Cancel
  <2>. QED
    BY <2>1 DEF NothingMissed
<1>6. ASSUME NEW r \in Run, Receive(r) PROVE NothingMissed'
  BY <1>6, ReceiveMisses
<1>7. ASSUME NEW r \in Run, ReceiveStale(r) PROVE NothingMissed'
  <2>1. /\ Close(r) /\ r # current
        /\ UNCHANGED <<layout, filter, shown, cursorRef, hasMore, isLoading, failed, current, server,
                       revived>>
    BY <1>7 DEF ReceiveStale
  <2>2. isLoading' = (isLoading /\ r # current)
    BY <1>1, <2>1
  <2>. QED
    BY <2>1, <2>2, CloseMisses
<1>8. ASSUME NEW r \in Run, Return(r) PROVE NothingMissed'
  <2>1. /\ Close(r) /\ isLoading' = (isLoading /\ r # current) /\ call[r].at = "open"
        /\ Arrived(r, "end") \/ r \in cancelled
        /\ UNCHANGED <<layout, filter, shown, cursorRef, hasMore, failed, current, server, revived>>
    BY <1>8 DEF Return, Ends
  <2>2. r = current => isLoading /\ Arrived(r, "end")
    BY <2>1, NoneAssumption DEF Base, OnlyCurrent
  <2>. QED
    BY <2>1, <2>2, CloseMisses
<1>9. ASSUME NEW r \in Run, Throws(r) PROVE NothingMissed'
  <2>1. /\ Close(r)
        /\ IF r = current
             THEN failed' = TRUE /\ hasMore' = FALSE /\ isLoading' = FALSE
             ELSE UNCHANGED <<failed, hasMore, isLoading>>
        /\ UNCHANGED <<layout, filter, shown, cursorRef, current, server, revived>>
    BY <1>9 DEF Throws
  <2>2. isLoading' = (isLoading /\ r # current)
    BY <1>1, <2>1
  <2>. QED
    BY <2>1, <2>2, CloseMisses
<1>10. ASSUME NEW r \in Run, Round(r) PROVE NothingMissed'
  BY <1>10, RoundMisses
<1>11. ASSUME NEW r \in Run, RoundFails(r) PROVE NothingMissed'
  BY <1>11, RoundFailsMisses
<1>12. CASE UNCHANGED vars
  BY <1>12 DEF vars, NothingMissed
<1>. QED
  BY Zenon, <1>2, <1>3, <1>4, <1>5, <1>6, <1>7, <1>8, <1>9, <1>10, <1>11, <1>12
     DEF Next, User, Deliver

\* When no master is lost, a search that says there is nothing more shows every
\* key that matches, however many runs, limits, cancellations and restarts it
\* took (keys-search.ts 17, keys_search_logic.go 156-165, redisscan.go 94-100).
THEOREM FindsEverything == ~LostAppends /\ Spec => []CompleteWhenDone
<1>. SUFFICES ASSUME ~LostAppends PROVE Spec => []CompleteWhenDone
  OBVIOUS
<1>1. Init => NothingMissed
  <2>. SUFFICES ASSUME Init PROVE NothingMissed
    OBVIOUS
  <2>1. TypeInv /\ cursorRef = Start /\ ~isLoading /\ current = None
    BY InitBase DEF Init, Base
  <2>. QED
    BY <2>1, StartCovered DEF NothingMissed
<1>2. Base /\ Base' /\ NothingMissed /\ [Next]_vars => NothingMissed'
  BY MissesStep
<1>3. NothingMissed => CompleteWhenDone
  BY DEF NothingMissed, CompleteWhenDone, All
<1>. QED
  BY <1>1, <1>2, <1>3, BaseHolds, PTL DEF Spec

\* Every variable keeps its type, and the search is loading exactly while the
\* call of the current run is open (keys-search.ts 65-75, 109-119).
THEOREM TypeCorrect == Spec => []TypeOK
<1>1. ASSUME Base PROVE TypeOK
  <2>1. ASSUME NEW r \in Run
        PROVE  /\ call[r].at \in {"open", "closed"}
               /\ {call[r].bulk, call[r].more, call[r].gained} \subseteq BOOLEAN
               /\ call[r].flt \subseteq Key
               /\ server[r].cur \in Cursor /\ server[r].batch \subseteq Key
               /\ server[r].matched \in 0 .. Limit - 1
               /\ \A i \in DOMAIN wire[r] : wire[r][i].kind \in {"event", "end", "error"}
    <3>1. call[r] \in CallType /\ server[r] \in ServerType /\ wire[r] \in Seq(Frame)
      BY <1>1 DEF Base, TypeInv
    <3>2. \A i \in DOMAIN wire[r] : wire[r][i].kind \in {"event", "end", "error"}
      BY <3>1 DEF Frame, EventFrame, End, Error
    <3>. QED
      BY <3>1, <3>2 DEF CallType, ServerType
  <2>. QED
    BY <1>1, <2>1 DEF Base, TypeInv, OnlyCurrent, TypeOK
<1>. QED
  BY <1>1, BaseHolds, PTL

-----------------------------------------------------------------------------
(* Induction.                                                               *)

\* A set of numbers with 0 and every successor has them all: otherwise the
\* successor would map a finite part of it into that part without 0.
LEMMA Numbers ==
  ASSUME NEW S \in SUBSET Nat, 0 \in S, \A n \in S : n + 1 \in S
  PROVE  S = Nat
<1>. SUFFICES ASSUME NEW k \in Nat, k \notin S PROVE FALSE
  OBVIOUS
<1>. DEFINE T == {n \in S : n < k}
            f == [n \in T |-> n + 1]
<1>1. T \in SUBSET Nat /\ (\A n \in T : n <= k)
  <2>1. ASSUME NEW n \in T PROVE n \in Nat /\ n <= k
    OBVIOUS
  <2>. QED
    BY <2>1
<1>2. IsFiniteSet(T) /\ Cardinality(T) \in Nat
  BY <1>1, FS_BoundedSetOfNaturals, FS_CardinalityType
<1>3. 0 \in T
  OBVIOUS
<1>4. ASSUME NEW n \in T PROVE n + 1 \in T \ {0}
  <2>1. n \in Nat /\ n < k /\ n + 1 \in S
    OBVIOUS
  <2>. QED
    BY <2>1
<1>5. f \in Injection(T, T \ {0})
  <2>1. f \in [T -> T \ {0}]
    BY <1>4
  <2>2. \A x, y \in T : f[x] = f[y] => x = y
    BY <1>1
  <2>. QED
    BY <2>1, <2>2 DEF Injection, IsInjective
<1>. HIDE DEF T, f
<1>6. IsFiniteSet(T \ {0}) /\ Cardinality(T \ {0}) = Cardinality(T) - 1
  BY <1>2, <1>3, FS_RemoveElement
<1>7. Cardinality(T) <= Cardinality(T \ {0})
  BY <1>5, <1>6, FS_Injection
<1>. QED
  BY <1>2, <1>6, <1>7

\* The same from above.
LEMMA Downwards ==
  ASSUME NEW N \in Nat, NEW S,
         \A p \in 1..N : (\A q \in (p + 1)..N : q \in S) => p \in S
  PROVE  \A p \in 1..N : p \in S
<1>. DEFINE T == {j \in Nat : \A p \in 1..N : p > N - j => p \in S}
<1>1. 0 \in T
  OBVIOUS
<1>2. ASSUME NEW j \in T PROVE j + 1 \in T
  <2>. SUFFICES ASSUME NEW p \in 1..N, p > N - (j + 1) PROVE p \in S
    OBVIOUS
  <2>1. \A q \in (p + 1)..N : q \in 1..N /\ q > N - j
    OBVIOUS
  <2>2. \A q \in (p + 1)..N : q \in S
    BY <2>1
  <2>. QED
    BY <2>2
<1>3. T = Nat
  <2>. HIDE DEF T
  <2>1. T \in SUBSET Nat
    BY DEF T
  <2>. QED
    BY <1>1, <1>2, <2>1, Numbers
<1>. SUFFICES ASSUME NEW p \in 1..N PROVE p \in S
  OBVIOUS
<1>4. N \in T
  <2>. HIDE DEF T
  <2>. QED
    BY <1>3
<1>5. p > N - N
  OBVIOUS
<1>. QED
  BY <1>4, <1>5

\* A set of numbers that has an upper bound has a largest.
LEMMA Largest ==
  ASSUME NEW T \in SUBSET Nat, T # {}, NEW n \in Nat, \A t \in T : t <= n
  PROVE  \E x \in T : \A y \in T : y <= x
<1>. SUFFICES ASSUME \A x \in T : \E y \in T : y > x PROVE FALSE
  OBVIOUS
<1>. DEFINE S == {j \in Nat : \E x \in T : x >= j}
<1>1. 0 \in S
  <2>1. PICK x \in T : TRUE
    OBVIOUS
  <2>2. x \in Nat /\ x >= 0
    OBVIOUS
  <2>. QED
    BY <2>2
<1>2. ASSUME NEW j \in S PROVE j + 1 \in S
  <2>1. PICK x \in T : x >= j
    OBVIOUS
  <2>2. PICK y \in T : y > x
    OBVIOUS
  <2>. QED
    BY <2>1, <2>2
<1>3. S \in SUBSET Nat
  OBVIOUS
<1>4. S = Nat
  <2>. HIDE DEF S
  <2>. QED
    BY <1>1, <1>2, <1>3, Numbers
<1>5. n + 1 \in S
  BY <1>4
<1>. QED
  BY <1>5

\* A set of numbers has a smallest.
LEMMA Smallest ==
  ASSUME NEW T \in SUBSET Nat, T # {}
  PROVE  \E x \in T : \A y \in T : x <= y
<1>. SUFFICES ASSUME \A x \in T : \E y \in T : y < x PROVE FALSE
  OBVIOUS
<1>. DEFINE S == {j \in Nat : \A x \in T : x >= j}
<1>1. 0 \in S
  OBVIOUS
<1>2. ASSUME NEW j \in S PROVE j + 1 \in S
  <2>1. j \notin T
    OBVIOUS
  <2>. QED
    BY <2>1
<1>3. S \in SUBSET Nat
  OBVIOUS
<1>4. S = Nat
  <2>. HIDE DEF S
  <2>. QED
    BY <1>1, <1>2, <1>3, Numbers
<1>5. PICK x \in T : TRUE
  OBVIOUS
<1>6. x + 1 \in S
  BY <1>4
<1>. QED
  BY <1>6

\* Finitely many numbers have a largest.
LEMMA LargestOf ==
  ASSUME NEW N \in Nat, NEW w \in [1..N -> Nat], NEW I \in SUBSET (1..N), I # {}
  PROVE  \E i \in I : \A j \in I : w[j] <= w[i]
<1>. DEFINE S == {n \in Nat : \E b \in Nat : \A j \in 1..N : j <= n => w[j] <= b}
<1>1. 0 \in S
  OBVIOUS
<1>2. ASSUME NEW n \in S PROVE n + 1 \in S
  <2>1. PICK b \in Nat : \A j \in 1..N : j <= n => w[j] <= b
    OBVIOUS
  <2>2. CASE n + 1 \in 1..N
    <3>. DEFINE c == IF w[n + 1] > b THEN w[n + 1] ELSE b
    <3>1. c \in Nat /\ c >= b /\ c >= w[n + 1]
      BY <2>2
    <3>2. ASSUME NEW j \in 1..N, j <= n + 1 PROVE w[j] <= c
      <4>1. w[j] \in Nat /\ (j <= n \/ j = n + 1)
        BY <3>2
      <4>. HIDE DEF c
      <4>. QED
        BY <2>1, <3>1, <4>1
    <3>. HIDE DEF c
    <3>. QED
      BY <3>1, <3>2
  <2>3. CASE n + 1 \notin 1..N
    BY <2>1, <2>3
  <2>. QED
    BY <2>2, <2>3
<1>3. S = Nat
  <2>1. S \in SUBSET Nat
    OBVIOUS
  <2>. HIDE DEF S
  <2>. QED
    BY <1>1, <1>2, <2>1, Numbers
<1>4. PICK b \in Nat : \A j \in 1..N : w[j] <= b
  <2>1. N \in S
    BY <1>3
  <2>. QED
    BY <2>1
<1>. DEFINE T == {w[i] : i \in I}
<1>5. T \in SUBSET Nat /\ T # {} /\ \A t \in T : t <= b
  BY <1>4
<1>. HIDE DEF T
<1>6. PICK x \in T : \A y \in T : y <= x
  BY <1>5, Largest
<1>. QED
  BY <1>6 DEF T

-----------------------------------------------------------------------------
(* Recursion.                                                               *)

\* A function each of whose values is made of those behind it is there.
LooksBehind(N, V, step) ==
  /\ step \in [1..N -> [[1..N -> V] -> V]]
  /\ \A p \in 1..N : \A g, h \in [1..N -> V] :
       (\A q \in (p + 1)..N : g[q] = h[q]) => step[p][g] = step[p][h]

\* So a function that is given by what it is further on can be computed with.
LEMMA Recursion ==
  ASSUME NEW N \in Nat, NEW V, NEW v0 \in V, NEW step, LooksBehind(N, V, step)
  PROVE  \E g \in [1..N -> V] : \A p \in 1..N : g[p] = step[p][g]
<1>. DEFINE S == {j \in Nat : \E g \in [1..N -> V] :
                    \A p \in 1..N : p > N - j => g[p] = step[p][g]}
<1>0. /\ step \in [1..N -> [[1..N -> V] -> V]]
      /\ \A p \in 1..N : \A g, h \in [1..N -> V] :
           (\A q \in (p + 1)..N : g[q] = h[q]) => step[p][g] = step[p][h]
  BY DEF LooksBehind
<1>1. 0 \in S
  <2>1. [p \in 1..N |-> v0] \in [1..N -> V] /\ \A p \in 1..N : ~(p > N - 0)
    OBVIOUS
  <2>. QED
    BY <2>1
<1>2. ASSUME NEW j \in S PROVE j + 1 \in S
  <2>1. PICK g \in [1..N -> V] : \A p \in 1..N : p > N - j => g[p] = step[p][g]
    OBVIOUS
  <2>2. CASE N - j \notin 1..N
    BY <2>1, <2>2
  <2>3. CASE N - j \in 1..N
    <3>. DEFINE h == [g EXCEPT ![N - j] = step[N - j][g]]
    <3>1. step[N - j] \in [[1..N -> V] -> V]
      BY <1>0, <2>3
    <3>2. step[N - j][g] \in V
      BY <3>1
    <3>3. h \in [1..N -> V] /\ h[N - j] = step[N - j][g]
          /\ \A p \in 1..N : p # N - j => h[p] = g[p]
      BY <2>3, <3>2
    <3>. HIDE DEF h
    <3>4. ASSUME NEW p \in 1..N, p > N - (j + 1) PROVE h[p] = step[p][h]
      <4>1. \A q \in (p + 1)..N : g[q] = h[q]
        BY <3>3, <3>4
      <4>2. step[p][g] = step[p][h]
        BY <1>0, <4>1, <3>3
      <4>3. CASE p = N - j
        BY <4>2, <4>3, <3>3
      <4>4. CASE p # N - j
        BY <2>1, <3>3, <3>4, <4>2, <4>4
      <4>. QED
        BY <4>3, <4>4
    <3>. QED
      BY <3>3, <3>4
  <2>. QED
    BY <2>2, <2>3
<1>3. S = Nat
  <2>1. S \in SUBSET Nat
    OBVIOUS
  <2>. HIDE DEF S
  <2>. QED
    BY <1>1, <1>2, <2>1, Numbers
<1>4. N \in S
  BY <1>3
<1>. QED
  BY <1>4

-----------------------------------------------------------------------------
(* globMatch.                                                               *)

Byte == 0..255
Read == [BOOLEAN -> [close : Nat, hit : BOOLEAN]]
PastEnd(pattern) == Len(pattern) + 1
ClassRow(pattern, b, f, q) == [hit \in BOOLEAN |-> ClassFrom(pattern, b, f, q, hit)]

\* The reading of a class ends here, or goes on behind.
ClosesAt(pattern, b, q, hit, c) == \A f : ClassFrom(pattern, b, f, q, hit) = [close |-> c, hit |-> hit]
GoesOnAt(pattern, b, q, hit, r, h) == \A f : ClassFrom(pattern, b, f, q, hit) = f[r][h]

\* One step of the reading of a class closes it or goes on further on.
LEMMA ClassCases ==
  ASSUME NEW pattern \in Seq(Byte), NEW b, NEW q \in 1..PastEnd(pattern), NEW hit \in BOOLEAN
  PROVE  \/ q = PastEnd(pattern) /\ ClosesAt(pattern, b, q, hit, Len(pattern))
         \/ q <= Len(pattern) /\ ClosesAt(pattern, b, q, hit, q)
         \/ \E r \in (q + 1)..PastEnd(pattern), h \in BOOLEAN : GoesOnAt(pattern, b, q, hit, r, h)
<1>. DEFINE n == Len(pattern)
            isRange == /\ q + 2 <= n /\ pattern[q] \notin {Backslash, CloseBracket}
                       /\ pattern[q + 1] = Dash /\ pattern[q + 2] # CloseBracket
<1>0. n \in Nat /\ (q <= n => pattern[q] \in Byte)
  BY DEF PastEnd
<1>1. CASE q > n
  BY <1>0, <1>1 DEF ClassFrom, PastEnd, ClosesAt
<1>2. CASE q < n /\ pattern[q] = Backslash
  <2>. DEFINE h == (hit \/ pattern[q + 1] = b)
  <2>1. h \in BOOLEAN /\ q + 2 \in (q + 1)..PastEnd(pattern)
    BY <1>0, <1>2 DEF PastEnd
  <2>2. \A f : ClassFrom(pattern, b, f, q, hit) = f[q + 2][h]
    BY <1>0, <1>2 DEF ClassFrom, Backslash, CloseBracket
  <2>. HIDE DEF h
  <2>. QED
    BY <2>1, <2>2 DEF GoesOnAt
<1>3. CASE q <= n /\ pattern[q] = CloseBracket
  BY <1>0, <1>3 DEF ClassFrom, Backslash, CloseBracket, ClosesAt
<1>4. CASE isRange
  <2>. DEFINE h == (hit \/ b \in Min({pattern[q], pattern[q + 2]})..Max({pattern[q], pattern[q + 2]}))
  <2>1. h \in BOOLEAN /\ q + 3 \in (q + 1)..PastEnd(pattern)
    BY <1>0, <1>4 DEF PastEnd
  <2>2. \A f : ClassFrom(pattern, b, f, q, hit) = f[q + 3][h]
    BY <1>0, <1>4 DEF ClassFrom
  <2>. HIDE DEF h
  <2>. QED
    BY <2>1, <2>2 DEF GoesOnAt
<1>5. CASE /\ ~(q > n) /\ ~(q < n /\ pattern[q] = Backslash)
           /\ ~(q <= n /\ pattern[q] = CloseBracket) /\ ~isRange
  <2>. DEFINE h == (hit \/ pattern[q] = b)
  <2>1. h \in BOOLEAN /\ q + 1 \in (q + 1)..PastEnd(pattern)
    BY <1>0, <1>5 DEF PastEnd
  <2>2. \A f : ClassFrom(pattern, b, f, q, hit) = f[q + 1][h]
    BY <1>0, <1>5 DEF ClassFrom
  <2>. HIDE DEF h
  <2>. QED
    BY <2>1, <2>2 DEF GoesOnAt
<1>. QED
  BY <1>1, <1>2, <1>3, <1>4, <1>5

\* The function that globMatch reads a class with exists, and closes it not
\* before where it is read from.
Scan(pattern, b) ==
  CHOOSE scan : scan = [q \in 1..(Len(pattern) + 1) |-> ClassRow(pattern, b, scan, q)]

\* A row of the reading of a class is made from rows of its type,
LEMMA ClassFromIs ==
  ASSUME NEW pattern \in Seq(Byte), NEW b, NEW q \in 1..PastEnd(pattern),
         NEW g \in [1..PastEnd(pattern) -> Read]
  PROVE  ClassRow(pattern, b, g, q) \in Read
<1>1. Len(pattern) \in Nat /\ q \in Nat
  BY DEF PastEnd
<1>3. ASSUME NEW hit \in BOOLEAN
      PROVE  ClassFrom(pattern, b, g, q, hit) \in [close : Nat, hit : BOOLEAN]
  <2>1. CASE ClosesAt(pattern, b, q, hit, Len(pattern)) \/ ClosesAt(pattern, b, q, hit, q)
    BY <1>1, <2>1 DEF ClosesAt
  <2>2. ASSUME NEW r \in (q + 1)..PastEnd(pattern), NEW h \in BOOLEAN, GoesOnAt(pattern, b, q, hit, r, h)
        PROVE  ClassFrom(pattern, b, g, q, hit) \in [close : Nat, hit : BOOLEAN]
    <3>1. r \in 1..PastEnd(pattern) /\ ClassFrom(pattern, b, g, q, hit) = g[r][h]
      BY <1>1, <2>2 DEF GoesOnAt, PastEnd
    <3>2. g[r] \in Read
      BY <3>1
    <3>. QED
      BY <3>1, <3>2 DEF Read
  <2>. QED
    BY <2>1, <2>2, ClassCases
<1>. QED
  BY <1>3 DEF Read, ClassRow

\* and only from those further on.
LEMMA ClassFromSame ==
  ASSUME NEW pattern \in Seq(Byte), NEW b, NEW q \in 1..PastEnd(pattern),
         NEW g, NEW h, \A r \in (q + 1)..PastEnd(pattern) : g[r] = h[r]
  PROVE  ClassRow(pattern, b, g, q) = ClassRow(pattern, b, h, q)
<1>1. ASSUME NEW hit \in BOOLEAN
      PROVE  ClassFrom(pattern, b, g, q, hit) = ClassFrom(pattern, b, h, q, hit)
  <2>1. ASSUME NEW c, ClosesAt(pattern, b, q, hit, c)
        PROVE  ClassFrom(pattern, b, g, q, hit) = ClassFrom(pattern, b, h, q, hit)
    BY <2>1 DEF ClosesAt
  <2>2. ASSUME NEW r \in (q + 1)..PastEnd(pattern), NEW k \in BOOLEAN, GoesOnAt(pattern, b, q, hit, r, k)
        PROVE  ClassFrom(pattern, b, g, q, hit) = ClassFrom(pattern, b, h, q, hit)
    BY <2>2 DEF GoesOnAt
  <2>. QED
    BY <2>1, <2>2, ClassCases
<1>. QED
  BY <1>1, Zenon DEF ClassRow

\* The function with which a class is read is what its definition says.
LEMMA ScanIs ==
  ASSUME NEW pattern \in Seq(Byte), NEW b
  PROVE  \A q \in 1..PastEnd(pattern), hit \in BOOLEAN :
           Scan(pattern, b)[q][hit] = ClassFrom(pattern, b, Scan(pattern, b), q, hit)
<1>. DEFINE N == PastEnd(pattern)
            step == [q \in 1..N |-> [g \in [1..N -> Read] |-> ClassRow(pattern, b, g, q)]]
            Table == [1..N -> Read]
            v0 == [hit \in BOOLEAN |-> [close |-> 0, hit |-> hit]]
<1>1. N \in Nat
  BY DEF PastEnd
<1>2. step \in [1..N -> [Table -> Read]]
  BY ClassFromIs
<1>3. ASSUME NEW q \in 1..N, NEW g \in Table, NEW h \in Table, \A r \in (q + 1)..N : g[r] = h[r]
      PROVE  step[q][g] = step[q][h]
  BY <1>3, ClassFromSame
<1>4. v0 \in Read
  BY DEF Read
<1>5. \A q \in 1..N, g \in Table : step[q][g] = ClassRow(pattern, b, g, q)
  OBVIOUS
<1>. HIDE DEF step, v0
<1>6. LooksBehind(N, Read, step)
  BY <1>2, <1>3 DEF LooksBehind
<1>7. PICK g \in Table : \A q \in 1..N : g[q] = step[q][g]
  BY <1>1, <1>4, <1>6, Recursion
<1>8. \A q \in 1..N : g[q] = ClassRow(pattern, b, g, q)
  BY <1>5, <1>7
<1>9. g = [q \in 1..(Len(pattern) + 1) |-> ClassRow(pattern, b, g, q)]
  BY <1>8 DEF PastEnd
<1>. DEFINE scan == Scan(pattern, b)
<1>10. scan = [q \in 1..(Len(pattern) + 1) |-> ClassRow(pattern, b, scan, q)]
  BY <1>9, Zenon DEF Scan
<1>. HIDE DEF scan
<1>11. ASSUME NEW q \in 1..N, NEW hit \in BOOLEAN PROVE scan[q][hit] = ClassFrom(pattern, b, scan, q, hit)
  <2>1. scan[q] = ClassRow(pattern, b, scan, q)
    BY <1>10 DEF PastEnd
  <2>. QED
    BY <2>1, Zenon DEF ClassRow
<1>. QED
  BY <1>11 DEF scan

\* A class that is read from q closes just before q or later, in the pattern.
LEMMA ScanCloses ==
  ASSUME NEW pattern \in Seq(Byte), NEW b, NEW q \in 1..PastEnd(pattern), NEW hit \in BOOLEAN
  PROVE  Scan(pattern, b)[q][hit].close \in (q - 1)..Len(pattern)
<1>. DEFINE N == PastEnd(pattern)
            scan == Scan(pattern, b)
            Right == {p \in 1..N : \A k \in BOOLEAN : scan[p][k].close \in (p - 1)..Len(pattern)}
<1>1. N \in Nat /\ Len(pattern) \in Nat /\ N = Len(pattern) + 1
  BY DEF PastEnd
<1>2. \A p \in 1..N, k \in BOOLEAN : scan[p][k] = ClassFrom(pattern, b, scan, p, k)
  BY ScanIs
<1>. HIDE DEF scan
<1>3. ASSUME NEW p \in 1..N, \A r \in (p + 1)..N : r \in Right
      PROVE  p \in Right
  <2>. SUFFICES ASSUME NEW k \in BOOLEAN PROVE scan[p][k].close \in (p - 1)..Len(pattern)
    OBVIOUS
  <2>1. CASE p = N /\ ClosesAt(pattern, b, p, k, Len(pattern))
    BY <1>1, <1>2, <2>1 DEF ClosesAt
  <2>2. CASE p <= Len(pattern) /\ ClosesAt(pattern, b, p, k, p)
    <3>1. scan[p][k] = [close |-> p, hit |-> k]
      BY <1>2, <2>2 DEF ClosesAt
    <3>. QED
      BY <1>1, <2>2, <3>1
  <2>3. ASSUME NEW r \in (p + 1)..N, NEW h \in BOOLEAN, GoesOnAt(pattern, b, p, k, r, h)
        PROVE  scan[p][k].close \in (p - 1)..Len(pattern)
    <3>1. scan[p][k] = scan[r][h]
      BY <1>2, <2>3 DEF GoesOnAt
    <3>2. scan[r][h].close \in (r - 1)..Len(pattern)
      BY <1>3
    <3>3. p \in Nat /\ r \in Nat /\ r > p
      BY <1>1
    <3>. HIDE DEF N
    <3>. QED
      BY <1>1, <3>1, <3>2, <3>3
  <2>. QED
    BY <2>1, <2>2, <2>3, ClassCases
<1>4. \A p \in 1..N : p \in Right
  <2>. HIDE DEF N, Right
  <2>. QED
    BY <1>1, <1>3, Downwards
<1>. QED
  BY <1>4 DEF scan

\* A class that opens at p closes at p or later, in the pattern.
LEMMA ClassIs ==
  ASSUME NEW pattern \in Seq(Byte), NEW p \in 1..Len(pattern), NEW b
  PROVE  Class(pattern, p, b).close \in p..Len(pattern)
<1>. DEFINE q == IF p < Len(pattern) /\ pattern[p + 1] = Caret THEN p + 2 ELSE p + 1
<1>1. Class(pattern, p, b).close = Scan(pattern, b)[q][FALSE].close
  BY Zenon DEF Class, Scan, ClassRow
<1>2. Len(pattern) \in Nat /\ p \in Nat /\ p <= Len(pattern) /\ q \in {p + 1, p + 2}
      /\ q \in 1..PastEnd(pattern)
  BY DEF PastEnd
<1>. HIDE DEF q
<1>3. Scan(pattern, b)[q][FALSE].close \in (q - 1)..Len(pattern)
  BY <1>2, ScanCloses
<1>4. \A c : c \in (q - 1)..Len(pattern) => c \in p..Len(pattern)
  BY <1>2
<1>. QED
  BY <1>1, <1>3, <1>4

\* The steps of the loop: what the pattern from p makes of s from k.
Stars(pattern, q) == \A r \in q..Len(pattern) : pattern[r] = Asterisk
MatchRow(pattern, s, f, p) == [k \in 1..(Len(s) + 1) |-> MatchFrom(pattern, s, f, p, k)]
Goes(pattern, s, f, q, k) == IF k = Len(s) THEN Stars(pattern, q) ELSE f[q][k + 1]

\* What the pattern makes of s from p depends on what is behind p only.
LEMMA MatchFromSame ==
  ASSUME NEW pattern \in Seq(Byte), NEW s \in Seq(Byte), NEW p \in 1..PastEnd(pattern),
         NEW g, NEW h, \A r \in (p + 1)..PastEnd(pattern) : g[r] = h[r]
  PROVE  MatchRow(pattern, s, g, p) = MatchRow(pattern, s, h, p)
<1>. DEFINE n == Len(pattern)
            m == Len(s)
<1>1. n \in Nat /\ m \in Nat /\ PastEnd(pattern) = n + 1 /\ p \in Nat
  BY DEF PastEnd
<1>2. ASSUME NEW k, NEW q \in (p + 1)..(n + 1)
      PROVE  Goes(pattern, s, g, q, k) = Goes(pattern, s, h, q, k)
  <2>1. g[q] = h[q]
    BY <1>1, <1>2
  <2>. QED
    BY <2>1, Zenon DEF Goes
<1>3. ASSUME NEW k \in 1..(m + 1)
      PROVE  MatchFrom(pattern, s, g, p, k) = MatchFrom(pattern, s, h, p, k)
  <2>1. p <= n => p + 1 \in (p + 1)..(n + 1) /\ g[p + 1] = h[p + 1]
    BY <1>1
  <2>2. p < n => p + 2 \in (p + 1)..(n + 1)
    BY <1>1
  <2>3. p <= n => Class(pattern, p, s[k]).close + 1 \in (p + 1)..(n + 1)
    <3>. SUFFICES ASSUME p <= n PROVE Class(pattern, p, s[k]).close + 1 \in (p + 1)..(n + 1)
      OBVIOUS
    <3>1. Class(pattern, p, s[k]).close \in p..n
      BY <1>1, ClassIs
    <3>. QED
      BY <1>1, <3>1
  <2>4. p <= n => /\ Goes(pattern, s, g, p + 1, k) = Goes(pattern, s, h, p + 1, k)
                  /\ Goes(pattern, s, g, Class(pattern, p, s[k]).close + 1, k)
                       = Goes(pattern, s, h, Class(pattern, p, s[k]).close + 1, k)
    BY <1>2, <2>1, <2>3
  <2>5. p < n => Goes(pattern, s, g, p + 1 + 1, k) = Goes(pattern, s, h, p + 1 + 1, k)
    BY <1>1, <1>2, <2>2
  <2>6. p <= n => ((\E i \in Reach(s, k) : g[p + 1][i]) = (\E i \in Reach(s, k) : h[p + 1][i]))
    BY <2>1, Zenon
  <2>7. p < n => p <= n
    BY <1>1
  <2>. HIDE DEF n, m
  <2>. QED
    BY <2>4, <2>5, <2>6, <2>7, Zenon DEF MatchFrom, Goes, Stars, n, m
<1>. QED
  BY <1>3, Zenon DEF MatchRow

\* The function that globMatch is computed with exists.
Matcher(pattern, s) ==
  CHOOSE f : f = [p \in 1..(Len(pattern) + 1) |-> MatchRow(pattern, s, f, p)]

\* That function is what its definition says,
LEMMA MatcherIs ==
  ASSUME NEW pattern \in Seq(Byte), NEW s \in Seq(Byte)
  PROVE  \A p \in 1..PastEnd(pattern), k \in 1..(Len(s) + 1) :
           Matcher(pattern, s)[p][k] = MatchFrom(pattern, s, Matcher(pattern, s), p, k)
<1>. DEFINE N == PastEnd(pattern)
            Row == [1..(Len(s) + 1) -> BOOLEAN]
            Table == [1..N -> Row]
            step == [p \in 1..N |-> [g \in Table |-> MatchRow(pattern, s, g, p)]]
            v0 == [k \in 1..(Len(s) + 1) |-> FALSE]
            m == Matcher(pattern, s)
<1>1. N \in Nat
  BY DEF PastEnd
<1>2. ASSUME NEW p \in 1..N, NEW g \in Table PROVE MatchRow(pattern, s, g, p) \in Row
  <2>1. ASSUME NEW k \in 1..(Len(s) + 1) PROVE MatchFrom(pattern, s, g, p, k) \in BOOLEAN
    BY Zenon DEF MatchFrom
  <2>. QED
    BY <2>1, Zenon DEF MatchRow
<1>3. step \in [1..N -> [Table -> Row]]
  BY <1>2
<1>4. ASSUME NEW p \in 1..N, NEW g \in Table, NEW h \in Table, \A r \in (p + 1)..N : g[r] = h[r]
      PROVE  step[p][g] = step[p][h]
  <2>1. MatchRow(pattern, s, g, p) = MatchRow(pattern, s, h, p)
    BY <1>4, MatchFromSame
  <2>. HIDE DEF Table
  <2>. QED
    BY <2>1
<1>5. v0 \in Row
  OBVIOUS
<1>6. \A p \in 1..N, g \in Table : step[p][g] = MatchRow(pattern, s, g, p)
  OBVIOUS
<1>. HIDE DEF step, v0, m
<1>7. LooksBehind(N, Row, step)
  <2>. HIDE DEF Row, N
  <2>. QED
    BY <1>3, <1>4 DEF LooksBehind
<1>8. PICK g \in Table : \A p \in 1..N : g[p] = step[p][g]
  <2>. HIDE DEF Row, N
  <2>. QED
    BY <1>1, <1>5, <1>7, Recursion
<1>9. g = [p \in 1..(Len(pattern) + 1) |-> MatchRow(pattern, s, g, p)]
  BY <1>6, <1>8 DEF PastEnd
<1>10. m = [p \in 1..(Len(pattern) + 1) |-> MatchRow(pattern, s, m, p)]
  BY <1>9, Zenon DEF Matcher, m
<1>11. ASSUME NEW p \in 1..N, NEW k \in 1..(Len(s) + 1)
       PROVE  m[p][k] = MatchFrom(pattern, s, m, p, k)
  <2>1. m[p] = MatchRow(pattern, s, m, p)
    BY <1>10 DEF PastEnd
  <2>. QED
    BY <2>1, Zenon DEF MatchRow
<1>. QED
  BY <1>11, Zenon DEF m

\* and its first value is what globMatch returns.
LEMMA GlobMatchIs ==
  ASSUME NEW pattern, NEW s
  PROVE  globMatch(pattern, s) = Matcher(pattern, s)[1][1]
BY Zenon DEF globMatch, Matcher, MatchRow

-----------------------------------------------------------------------------
(* Heads.                                                                   *)

Begins(head, s) == Len(head) <= Len(s) /\ \A i \in 1..Len(head) : head[i] = s[i]
PlainText(head) == \A i \in 1..Len(head) : head[i] \notin globMeta

\* The literal run of a pattern is a head of it without a special character.
LEMMA LiteralRunIs ==
  ASSUME NEW t \in Seq(Byte), NEW meta, globMeta \subseteq meta
  PROVE  /\ literalRun(t, meta) \in Seq(Byte) /\ Begins(literalRun(t, meta), t)
         /\ PlainText(literalRun(t, meta))
<1>. DEFINE stops == {i \in DOMAIN t : t[i] \in meta}
<1>1. CASE stops = {}
  BY <1>1 DEF literalRun, Begins, PlainText
<1>2. CASE stops # {}
  <2>1. stops \in SUBSET Nat
    OBVIOUS
  <2>2. \E x \in stops : \A y \in stops : x <= y
    <3>. HIDE DEF stops
    <3>. QED
      BY <1>2, <2>1, Smallest
  <2>. DEFINE x == Min(stops)
  <2>3. x \in stops /\ \A y \in stops : x <= y
    BY <2>2, Zenon DEF Min
  <2>4. literalRun(t, meta) = SubSeq(t, 1, x - 1)
    BY <1>2 DEF literalRun
  <2>. HIDE DEF x
  <2>5. x \in 1..Len(t)
    BY <2>3
  <2>6. ASSUME NEW i \in 1..Len(t), i < x PROVE t[i] \notin meta
    <3>1. i \notin stops
      <4>. HIDE DEF stops
      <4>. QED
        BY <2>1, <2>3, <2>5, <2>6
    <3>. QED
      BY <3>1
  <2>. HIDE DEF stops
  <2>7. SubSeq(t, 1, x - 1) \in Seq(Byte) /\ Len(SubSeq(t, 1, x - 1)) = x - 1
        /\ \A i \in 1..(x - 1) : SubSeq(t, 1, x - 1)[i] = t[i]
    BY <2>5
  <2>8. \A i \in 1..(x - 1) : i \in 1..Len(t) /\ i < x
    BY <2>5
  <2>9. \A i \in 1..(x - 1) : t[i] \notin globMeta
    BY <2>6, <2>8
  <2>10. x - 1 <= Len(t)
    BY <2>5
  <2>. QED
    BY <2>4, <2>7, <2>9, <2>10 DEF Begins, PlainText
<1>. QED
  BY <1>1, <1>2

\* A pattern that is a plain head and an asterisk matches what begins with it.
LEMMA HeadMatches ==
  ASSUME NEW head \in Seq(Byte), NEW s \in Seq(Byte), PlainText(head), Begins(head, s)
  PROVE  globMatch(head \o <<Asterisk>>, s)
<1>. DEFINE t == head \o <<Asterisk>>
            n == Len(t)
            f == Matcher(t, s)
            Matches == {p \in 1..n : MatchFrom(t, s, f, p, p)}
<1>1. /\ t \in Seq(Byte) /\ n = Len(head) + 1 /\ t[n] = Asterisk
      /\ \A i \in 1..Len(head) : t[i] = head[i]
  BY DEF Byte, Asterisk
<1>2. Len(head) \in Nat /\ Len(s) \in Nat /\ n \in Nat /\ n <= Len(s) + 1 /\ PastEnd(t) = n + 1
  BY <1>1 DEF Begins, PastEnd
<1>. HIDE DEF t
<1>3. ASSUME NEW p \in 1..n PROVE f[p][p] = MatchFrom(t, s, f, p, p)
  <2>1. p \in 1..PastEnd(t) /\ p \in 1..(Len(s) + 1)
    BY <1>2
  <2>. QED
    BY <1>1, <2>1, MatcherIs
<1>. HIDE DEF f
<1>4. Stars(t, n)
  BY <1>1, <1>2 DEF Stars
<1>5. ASSUME NEW p \in 1..n, \A q \in (p + 1)..n : q \in Matches
      PROVE  p \in Matches
  <2>1. CASE p = n
    <3>1. t[p] = Asterisk /\ p <= Len(t) /\ Stars(t, p)
      BY <1>1, <1>2, <1>4, <2>1
    <3>. QED
      BY <3>1, Zenon DEF MatchFrom, Stars
  <2>2. CASE p < n
    <3>1. t[p] = s[p] /\ p <= Len(s) /\ t[p] \notin globMeta
      BY <1>1, <1>2, <2>2 DEF Begins, PlainText
    <3>2. Goes(t, s, f, p + 1, p)
      <4>1. CASE p = Len(s)
        <5>1. p + 1 = n
          BY <1>2, <2>2, <4>1
        <5>. QED
          BY <1>4, <4>1, <5>1 DEF Goes
      <4>2. CASE p # Len(s)
        <5>1. p + 1 \in 1..n /\ p + 1 \in Matches
          BY <1>2, <1>5, <2>2
        <5>2. f[p + 1][p + 1]
          BY <1>3, <5>1, Zenon
        <5>. QED
          BY <4>2, <5>2, Zenon DEF Goes
      <4>. QED
        BY <4>1, <4>2
    <3>3. p <= n /\ t[p] \notin {Asterisk, Question, OpenBracket, Backslash}
      BY <2>2, <3>1 DEF globMeta
    <3>4. MatchFrom(t, s, f, p, p)
      BY <3>1, <3>2, <3>3, Zenon DEF MatchFrom, Goes, Stars
    <3>. QED
      BY <3>4
  <2>. QED
    BY <1>2, <2>1, <2>2
<1>6. \A p \in 1..n : p \in Matches
  <2>. HIDE DEF n, Matches
  <2>. QED
    BY <1>2, <1>5, Downwards
<1>7. f[1][1]
  <2>1. 1 \in 1..n
    BY <1>1, <1>2
  <2>. QED
    BY <1>3, <1>6, <2>1, Zenon
<1>. QED
  BY <1>7, GlobMatchIs DEF t, f

\* What a glob matches begins with its literal head.
LEMMA GlobBegins ==
  ASSUME NEW t \in Seq(Byte), NEW s \in Seq(Byte), globMatch(t, s)
  PROVE  Begins(literalRun(t, globMeta), s)
<1>. DEFINE n == Len(t)
            m == Len(s)
            head == literalRun(t, globMeta)
            f == Matcher(t, s)
            Reached == {j \in Nat : j < Len(head) => j <= m /\ MatchFrom(t, s, f, j + 1, j + 1)}
<1>1. head \in Seq(Byte) /\ Begins(head, t) /\ PlainText(head)
  BY LiteralRunIs
<1>2. n \in Nat /\ m \in Nat /\ PastEnd(t) = n + 1
  BY DEF PastEnd
<1>3. \A p \in 1..(n + 1), k \in 1..(m + 1) : f[p][k] = MatchFrom(t, s, f, p, k)
  BY <1>2, MatcherIs
<1>4. f[1][1]
  BY GlobMatchIs
<1>. HIDE DEF head, f
<1>5. Len(head) \in Nat /\ Len(head) <= n /\ \A i \in 1..Len(head) : head[i] = t[i] /\ t[i] \notin globMeta
  BY <1>1 DEF Begins, PlainText
<1>6. ASSUME NEW p \in 1..Len(head), p <= m + 1, MatchFrom(t, s, f, p, p)
      PROVE  p <= m /\ t[p] = s[p] /\ Goes(t, s, f, p + 1, p)
  <2>1. p <= n /\ ~(p > n) /\ t[p] \notin {Asterisk, Question, OpenBracket, Backslash}
    BY <1>2, <1>5 DEF globMeta
  <2>. QED
    BY <1>6, <2>1, Zenon DEF MatchFrom, Goes, Stars
<1>7. 0 \in Reached
  <2>1. 1 \in 1..(n + 1) /\ 1 \in 1..(m + 1)
    BY <1>2
  <2>2. MatchFrom(t, s, f, 1, 1)
    BY <1>3, <1>4, <2>1, Zenon
  <2>3. 0 + 1 = 1 /\ 0 <= m
    BY <1>2
  <2>. QED
    BY <2>2, <2>3
<1>8. ASSUME NEW j \in Reached PROVE j + 1 \in Reached
  <2>. SUFFICES ASSUME j + 1 < Len(head)
                PROVE  j + 1 <= m /\ MatchFrom(t, s, f, j + 1 + 1, j + 1 + 1)
    OBVIOUS
  <2>1. j \in Nat /\ j + 1 \in 1..Len(head) /\ j + 2 \in 1..Len(head) /\ j <= m
    BY <1>5
  <2>2. j + 1 <= m /\ Goes(t, s, f, j + 1 + 1, j + 1)
    BY <1>5, <1>6, <2>1
  <2>3. ~Stars(t, j + 1 + 1)
    <3>1. j + 2 \in (j + 1 + 1)..n /\ t[j + 2] # Asterisk
      BY <1>2, <1>5, <2>1 DEF globMeta
    <3>. QED
      BY <3>1 DEF Stars
  <2>4. f[j + 1 + 1][j + 1 + 1]
    BY <2>2, <2>3, Zenon DEF Goes
  <2>5. j + 1 + 1 \in 1..(n + 1) /\ (j + 1 # m => j + 1 + 1 \in 1..(m + 1))
    BY <1>2, <1>5, <2>1, <2>2
  <2>6. j + 1 # m
    BY <2>2, <2>3, Zenon DEF Goes
  <2>. QED
    BY <1>3, <2>2, <2>4, <2>5, <2>6, Zenon
<1>9. Reached = Nat
  <2>1. Reached \in SUBSET Nat
    OBVIOUS
  <2>. HIDE DEF Reached
  <2>. QED
    BY <1>7, <1>8, <2>1, Numbers
<1>10. ASSUME NEW i \in 1..Len(head) PROVE i <= m /\ head[i] = s[i]
  <2>1. i - 1 + 1 = i /\ i - 1 < Len(head) /\ i - 1 \in Nat
    BY <1>5
  <2>2. MatchFrom(t, s, f, i, i) /\ i - 1 <= m
    <3>1. i - 1 \in Reached
      <4>. HIDE DEF Reached
      <4>. QED
        BY <1>9, <2>1
    <3>. QED
      BY <2>1, <3>1
  <2>. QED
    BY <1>2, <1>5, <1>6, <2>1, <2>2
<1>11. Len(head) <= m
  BY <1>2, <1>5, <1>10
<1>. QED
  BY <1>10, <1>11 DEF Begins, head

\* What an expression with a literal head finds begins with the head.
LEMMA RegexBegins ==
  ASSUME NEW c \in Typed, c.mode = "regex", c.valid, c.text # <<>>, Head(c.text) = Caret,
         ~LooseHead(c.text), NEW s \in Seq(Byte), Finds(c.says, s, FALSE)
  PROVE  Begins(literalRun(Tail(c.text), regexMeta), s)
<1>. DEFINE head == literalRun(Tail(c.text), regexMeta)
<1>1. \A a \in c.says :
        /\ a.fromStart /\ Len(a.items) >= Len(head)
        /\ \A i \in DOMAIN head :
             /\ a.items[i].bytes = {head[i]} /\ ~a.items[i].negate /\ a.items[i].least = 1
             /\ a.items[i].many => i = Len(head)
  BY HeadAssumption, Zenon
<1>2. head \in Seq(Byte)
  <2>1. Tail(c.text) \in Seq(Byte) /\ globMeta \subseteq regexMeta
    BY TypedAssumption DEF Clauses, Byte, regexMeta
  <2>. QED
    BY <2>1, LiteralRunIs
<1>. HIDE DEF head
<1>3. PICK a \in c.says, j \in 0..Len(s) : Spells(a.items, SubSeq(s, 1, j), FALSE)
  <2>1. PICK a \in c.says : \E i \in 0..Len(s) : \E j \in i..Len(s) :
          (a.fromStart => i = 0) /\ Spells(a.items, SubSeq(s, i + 1, j), FALSE)
    BY Zenon DEF Finds
  <2>2. PICK i \in 0..Len(s) : \E j \in i..Len(s) :
          (a.fromStart => i = 0) /\ Spells(a.items, SubSeq(s, i + 1, j), FALSE)
    BY <2>1
  <2>3. i = 0 /\ i + 1 = 1
    BY <1>1, <2>2
  <2>. QED
    BY <2>2, <2>3
<1>. DEFINE w == SubSeq(s, 1, j)
            L == Len(head)
<1>4. w \in Seq(Byte) /\ Len(w) = j /\ (\A i \in 1..j : w[i] = s[i]) /\ j <= Len(s)
      /\ j \in Nat /\ L \in Nat /\ Len(s) \in Nat /\ DOMAIN head = 1..L
  BY <1>2
<1>. HIDE DEF w
<1>5. PICK cut \in [0..Len(a.items) -> 0..Len(w)] :
        /\ cut[0] = 0
        /\ \A i \in 1..Len(a.items) :
             LET it == a.items[i]
                 n == cut[i] - cut[i-1]
             IN /\ n >= it.least
                /\ it.many \/ n <= 1
                /\ \A k \in (cut[i-1] + 1)..cut[i] : Fits(it, w[k], FALSE)
  BY <1>3, Zenon DEF Spells, w
<1>6. Len(a.items) \in Nat /\ Len(a.items) >= L /\ a.items \in Seq(Item)
  <2>1. a \in Alternative
    BY TypedAssumption DEF Clauses
  <2>. QED
    BY <1>1, <2>1 DEF Alternative
<1>7. \A i \in 0..L : cut[i] \in 0..j
  <2>. SUFFICES ASSUME NEW i \in 0..L PROVE cut[i] \in 0..j
    OBVIOUS
  <2>1. i \in 0..Len(a.items)
    BY <1>4, <1>6
  <2>. HIDE DEF L
  <2>2. cut[i] \in 0..Len(w)
    BY <1>5, <2>1
  <2>. QED
    BY <1>4, <2>2
<1>8. ASSUME NEW i \in 1..L
      PROVE  /\ cut[i] - cut[i - 1] >= 1
             /\ i < L => cut[i] - cut[i - 1] <= 1
             /\ \A k \in (cut[i - 1] + 1)..cut[i] : head[i] = w[k]
  <2>1. i \in 1..Len(a.items) /\ i \in DOMAIN head
    BY <1>4, <1>6
  <2>2. /\ a.items[i].bytes = {head[i]} /\ ~a.items[i].negate /\ a.items[i].least = 1
        /\ a.items[i].many => i = L
    BY <1>1, <2>1
  <2>3. /\ cut[i] - cut[i - 1] >= a.items[i].least
        /\ a.items[i].many \/ cut[i] - cut[i - 1] <= 1
        /\ \A k \in (cut[i - 1] + 1)..cut[i] : Fits(a.items[i], w[k], FALSE)
    BY <1>5, <2>1
  <2>4. ASSUME NEW b, Fits(a.items[i], b, FALSE) PROVE head[i] = b
    <3>1. a.items[i].negate = FALSE
      BY <1>6, <2>1, <2>2 DEF Item
    <3>2. (\E x \in a.items[i].bytes : x = b) # FALSE
      BY <2>4, <3>1, Zenon DEF Fits
    <3>. QED
      BY <2>2, <3>2
  <2>5. \A k \in (cut[i - 1] + 1)..cut[i] : head[i] = w[k]
    BY <2>3, <2>4
  <2>6. cut[i] \in Int /\ cut[i - 1] \in Int
    <3>1. i \in 0..L /\ i - 1 \in 0..L
      BY <1>4
    <3>. HIDE DEF L
    <3>. QED
      BY <1>4, <1>7, <3>1
  <2>7. i < L => ~a.items[i].many
    <3>1. i < L => i # L
      <4>1. i \in Int /\ L \in Int
        BY <1>4
      <4>. HIDE DEF L
      <4>. QED
        BY <4>1
    <3>. QED
      BY <2>2, <3>1, Zenon
  <2>. QED
    BY <2>2, <2>3, <2>5, <2>6, <2>7
<1>. DEFINE Cut == {i \in Nat : i < L => cut[i] = i}
<1>9. 0 \in Cut
  BY <1>5
<1>10. ASSUME NEW i \in Cut PROVE i + 1 \in Cut
  <2>. SUFFICES ASSUME i + 1 < L PROVE cut[i + 1] = i + 1
    OBVIOUS
  <2>1. i + 1 \in 1..L /\ i + 1 - 1 = i /\ cut[i] = i /\ i \in Nat /\ cut[i + 1] \in Int
    BY <1>4, <1>7
  <2>. QED
    BY <1>8, <2>1
<1>11. Cut = Nat
  <2>1. Cut \in SUBSET Nat
    OBVIOUS
  <2>. HIDE DEF Cut
  <2>. QED
    BY <1>9, <1>10, <2>1, Numbers
<1>12. ASSUME NEW i \in 1..L PROVE i <= j /\ head[i] = s[i]
  <2>1. i - 1 \in Nat /\ i - 1 < L /\ i \in 0..L
    BY <1>4
  <2>2. cut[i - 1] = i - 1
    BY <1>11, <2>1
  <2>3. cut[i] \in 0..j /\ cut[i] >= i
    BY <1>4, <1>7, <1>8, <2>1, <2>2
  <2>4. i \in (cut[i - 1] + 1)..cut[i] /\ i \in 1..j
    BY <1>4, <2>2, <2>3
  <2>. QED
    BY <1>4, <1>8, <2>4
<1>13. L <= Len(s)
  BY <1>4, <1>12
<1>. QED
  BY <1>12, <1>13 DEF Begins, head

-----------------------------------------------------------------------------
(* The pattern.                                                             *)

\* A clause that has been compiled and asks for its head.
Firm(c) ==
  c \in Typed /\ c.text # <<>> /\ (c.mode = "regex" => c.valid /\ ~LooseHead(c.text))

\* The prefix of a clause that matches a key is plain, and the key begins with it.
LEMMA PrefixHolds ==
  ASSUME NEW c, Firm(c), NEW key \in Seq(Byte), NEW folded, match(c, key, folded)
  PROVE  /\ literalPrefix(c) \in Seq(Byte) /\ PlainText(literalPrefix(c))
         /\ Begins(literalPrefix(c), key)
<1>. DEFINE p == literalPrefix(c)
<1>1. /\ c.text \in Seq(Byte) /\ c.text # <<>> /\ c.mode \in {"glob", "substring", "regex"}
      /\ c.ignoreCase \in BOOLEAN /\ c \in Typed
  BY TypedAssumption DEF Firm, Clauses, Byte
<1>2. CASE p = <<>>
  <2>1. Len(<<>>) = 0 /\ <<>> \in Seq(Byte) /\ Len(key) \in Nat
    OBVIOUS
  <2>. HIDE DEF p
  <2>. QED
    BY <1>2, <2>1 DEF p, PlainText, Begins
<1>3. CASE ~c.ignoreCase /\ c.mode = "glob"
  <2>1. p = literalRun(c.text, globMeta)
    BY <1>3, Zenon DEF literalPrefix
  <2>2. globMatch(c.text, key)
    BY <1>3, Zenon DEF match
  <2>. QED
    BY <1>1, <2>1, <2>2, LiteralRunIs, GlobBegins
<1>4. CASE ~c.ignoreCase /\ c.mode = "regex" /\ Head(c.text) = Caret
  <2>1. p = literalRun(Tail(c.text), regexMeta)
    BY <1>4 DEF literalPrefix
  <2>2. Finds(c.says, key, FALSE)
    BY <1>1, <1>4 DEF match
  <2>3. Tail(c.text) \in Seq(Byte) /\ globMeta \subseteq regexMeta
    BY <1>1 DEF regexMeta
  <2>4. p \in Seq(Byte) /\ PlainText(p)
    BY <2>1, <2>3, LiteralRunIs
  <2>5. Begins(p, key)
    BY <1>1, <1>4, <2>1, <2>2, RegexBegins DEF Firm
  <2>. QED
    BY <2>4, <2>5
<1>5. CASE c.ignoreCase \/ c.mode = "substring" \/ (c.mode = "regex" /\ Head(c.text) # Caret)
  <2>1. p = <<>>
    BY <1>1, <1>5 DEF literalPrefix
  <2>. QED
    BY <1>2, <2>1
<1>. QED
  BY <1>1, <1>3, <1>4, <1>5

\* It is a sequence of bytes for every clause.
LEMMA PrefixIs ==
  ASSUME NEW c, Firm(c)
  PROVE  literalPrefix(c) \in Seq(Byte)
<1>1. /\ c.text \in Seq(Byte) /\ c.text # <<>> /\ c.mode \in {"glob", "substring", "regex"}
      /\ c.ignoreCase \in BOOLEAN
  BY TypedAssumption DEF Firm, Clauses, Byte
<1>2. literalRun(c.text, globMeta) \in Seq(Byte) /\ literalRun(Tail(c.text), regexMeta) \in Seq(Byte)
  <2>1. Tail(c.text) \in Seq(Byte) /\ globMeta \subseteq regexMeta
    BY <1>1 DEF regexMeta
  <2>. QED
    BY <1>1, <2>1, LiteralRunIs
<1>3. <<>> \in Seq(Byte)
  OBVIOUS
<1>. QED
  BY <1>1, <1>2, <1>3 DEF literalPrefix

\* The clauses in the bar are empty or were typed.
FilterInv ==
  /\ filters \in Seq(Clauses)
  /\ \A i \in DOMAIN filters : filters[i].text # <<>> => filters[i] \in Typed
  /\ matchAll \in BOOLEAN

\* Those of a filter that is not rejected ask for their heads.
LEMMA GivenIsFirm ==
  ASSUME FilterInv, ~Rejected(filters), ~Loose(filters), NEW i \in Given(filters)
  PROVE  Firm(filters[i]) /\ i \in DOMAIN filters
BY DEF FilterInv, Rejected, Loose, Given, Firm

\* The longest head there is.
LEMMA LongestIs ==
  ASSUME FilterInv, NEW I \in SUBSET DOMAIN filters, I # {},
         \A i \in I : literalPrefix(filters[i]) \in Seq(Byte)
  PROVE  LET prefixes == {literalPrefix(filters[i]) : i \in I} IN
         (CHOOSE p \in prefixes : \A q \in prefixes : Len(q) <= Len(p)) \in prefixes
<1>. DEFINE n == Len(filters)
            Weight(i) == IF i \in I THEN Len(literalPrefix(filters[i])) ELSE 0
            w == [i \in 1..n |-> Weight(i)]
            prefixes == {literalPrefix(filters[i]) : i \in I}
<1>1. n \in Nat /\ I \in SUBSET (1..n)
  BY DEF FilterInv
<1>2. w \in [1..n -> Nat]
  OBVIOUS
<1>. HIDE DEF w
<1>3. PICK i \in I : \A j \in I : w[j] <= w[i]
  BY <1>1, <1>2, LargestOf
<1>4. \A j \in I : w[j] = Len(literalPrefix(filters[j]))
  BY <1>1 DEF w
<1>5. literalPrefix(filters[i]) \in prefixes
      /\ \A q \in prefixes : Len(q) <= Len(literalPrefix(filters[i]))
  BY <1>3, <1>4
<1>. HIDE DEF prefixes
<1>. QED
  BY <1>5, Zenon DEF prefixes

\* Their common prefix is a beginning of each of the prefixes.
LEMMA CommonIs ==
  ASSUME NEW S, NEW p \in S, \A q \in S : q \in Seq(Byte)
  PROVE  /\ LongestCommonPrefix(S) \in Seq(Byte) /\ Begins(LongestCommonPrefix(S), p)
<1>. DEFINE C == CommonPrefixes(S)
            T == {Len(x) : x \in C}
<1>1. ASSUME NEW x \in C PROVE x \in Seq(Byte) /\ Begins(x, p)
  <2>1. PICK q \in S : x \in Prefixes(q)
    BY Zenon DEF CommonPrefixes
  <2>2. IsPrefix(x, p)
    BY Zenon DEF CommonPrefixes
  <2>3. q \in Seq(Byte) /\ p \in Seq(Byte)
    OBVIOUS
  <2>4. x \in Seq(Byte)
    BY <2>1, <2>3 DEF Prefixes
  <2>5. Len(x) <= Len(p) /\ SubSeq(x, 1, Len(x)) = SubSeq(p, 1, Len(x))
    BY <2>2, Zenon DEF IsPrefix
  <2>6. ASSUME NEW i \in 1..Len(x) PROVE x[i] = p[i]
    <3>1. SubSeq(x, 1, Len(x))[i] = x[i] /\ SubSeq(p, 1, Len(x))[i] = p[i]
      BY <2>3, <2>4, <2>5
    <3>. QED
      BY <2>5, <3>1
  <2>. QED
    BY <2>4, <2>5, <2>6 DEF Begins
<1>2. <<>> \in C
  <2>1. p \in Seq(Byte) /\ Len(p) \in Nat
    OBVIOUS
  <2>2. SubSeq(p, 1, 0) = <<>> /\ 0 \in 0..Len(p)
    BY <2>1
  <2>3. <<>> \in Prefixes(p)
    BY <2>2 DEF Prefixes
  <2>4. \A q \in S : IsPrefix(<<>>, q)
    <3>. SUFFICES ASSUME NEW q \in S PROVE IsPrefix(<<>>, q)
      OBVIOUS
    <3>1. q \in Seq(Byte) /\ Len(<<>>) = 0 /\ Len(q) \in Nat
      OBVIOUS
    <3>2. SubSeq(q, 1, 0) = <<>> /\ SubSeq(<<>>, 1, 0) = <<>>
      BY <3>1
    <3>. QED
      BY <3>1, <3>2 DEF IsPrefix
  <2>. QED
    BY <2>3, <2>4, Zenon DEF CommonPrefixes
<1>3. T \in SUBSET Nat /\ T # {} /\ (\A t \in T : t <= Len(p)) /\ Len(p) \in Nat
  <2>. HIDE DEF C
  <2>1. p \in Seq(Byte)
    OBVIOUS
  <2>2. ASSUME NEW x \in C PROVE Len(x) \in Nat /\ Len(x) <= Len(p)
    <3>1. x \in Seq(Byte) /\ Begins(x, p)
      BY <1>1
    <3>. QED
      BY <3>1 DEF Begins
  <2>3. Len(<<>>) \in T
    BY <1>2
  <2>. QED
    BY <2>1, <2>2, <2>3
<1>4. PICK x \in T : \A y \in T : y <= x
  <2>. HIDE DEF T
  <2>. QED
    BY <1>3, Largest
<1>5. PICK c \in C : \A d \in C : Len(d) <= Len(c)
  <2>. HIDE DEF C
  <2>. QED
    BY <1>4
<1>6. LongestCommonPrefix(S) \in C
  BY <1>5, Zenon DEF LongestCommonPrefix
<1>. QED
  BY <1>1, <1>6

\* What begins with more begins with less.
LEMMA BeginsTransitive ==
  ASSUME NEW x \in Seq(Byte), NEW y \in Seq(Byte), NEW z \in Seq(Byte), Begins(x, y)
  PROVE  /\ Begins(y, z) => Begins(x, z)
         /\ PlainText(y) => PlainText(x)
BY DEF Begins, PlainText

\* A key that the filter admits is matched by the pattern that goes with it.
LEMMA PushdownHolds ==
  ASSUME FilterInv, ~Rejected(filters), ~Loose(filters),
         NEW key \in Seq(Byte), Match(filters, matchAll, key)
  PROVE  globMatch(Pushdown(filters, matchAll), key)
<1>. DEFINE fs == filters
            I == Includes(fs)
            folded == IF anyFold(fs) THEN ToLower(key) ELSE <<>>
            hits == {i \in Given(fs) : match(fs[i], key, folded)}
            prefixes == {literalPrefix(fs[i]) : i \in I}
            single == CHOOSE i \in I : TRUE
            longest == CHOOSE p \in prefixes : \A q \in prefixes : Len(q) <= Len(p)
<1>1. I \subseteq Given(fs) /\ I \in SUBSET DOMAIN fs
  BY DEF Includes, Given
<1>2. \/ I = {}
      \/ IF matchAll THEN I \subseteq hits ELSE I \cap hits # {}
  BY Zenon DEF Match, Admits
<1>3. ASSUME NEW i \in I, i \in hits
      PROVE  /\ literalPrefix(fs[i]) \in Seq(Byte) /\ PlainText(literalPrefix(fs[i]))
             /\ Begins(literalPrefix(fs[i]), key)
  <2>1. Firm(fs[i]) /\ match(fs[i], key, folded)
    BY <1>1, <1>3, GivenIsFirm
  <2>. HIDE DEF folded
  <2>. QED
    BY <2>1, PrefixHolds
<1>. HIDE DEF folded
<1>4. CASE I = {}
  <2>1. Pushdown(fs, matchAll) = <<Asterisk>>
    BY <1>4, Zenon DEF Pushdown
  <2>2. <<>> \o <<Asterisk>> = <<Asterisk>>
    BY DEF Asterisk
  <2>3. <<>> \in Seq(Byte) /\ PlainText(<<>>) /\ Begins(<<>>, key)
    BY DEF PlainText, Begins
  <2>4. globMatch(<<>> \o <<Asterisk>>, key)
    BY <2>3, HeadMatches
  <2>. QED
    BY <2>1, <2>2, <2>4
<1>5. CASE I = {single} /\ fs[single].mode = "glob" /\ ~fs[single].ignoreCase
  <2>1. Pushdown(fs, matchAll) = fs[single].text
    <3>1. I # {}
      BY <1>5
    <3>. QED
      BY <1>5, <3>1, Zenon DEF Pushdown
  <2>2. single \in hits
    <3>. HIDE DEF hits, single, I
    <3>. QED
      BY <1>2, <1>5
  <2>3. match(fs[single], key, folded)
    BY <2>2
  <2>4. globMatch(fs[single].text, key)
    BY <1>5, <2>3, Zenon DEF match
  <2>. QED
    BY <2>1, <2>4
<1>6. CASE I # {} /\ ~(I = {single} /\ fs[single].mode = "glob" /\ ~fs[single].ignoreCase)
  <2>1. Pushdown(fs, matchAll)
          = (IF matchAll THEN longest ELSE LongestCommonPrefix(prefixes)) \o <<Asterisk>>
    BY <1>6, Zenon DEF Pushdown
  <2>2. CASE matchAll
    <3>1. I \subseteq hits
      BY <1>2, <1>6, <2>2
    <3>2. \A i \in I : /\ literalPrefix(fs[i]) \in Seq(Byte) /\ PlainText(literalPrefix(fs[i]))
                       /\ Begins(literalPrefix(fs[i]), key)
      <4>. HIDE DEF hits, I
      <4>. QED
        BY <1>3, <3>1
    <3>3. longest \in prefixes
      <4>. HIDE DEF I
      <4>. QED
        BY <1>1, <1>6, <3>2, LongestIs
    <3>4. longest \in Seq(Byte) /\ PlainText(longest) /\ Begins(longest, key)
      <4>. HIDE DEF longest, I
      <4>. QED
        BY <3>2, <3>3
    <3>5. globMatch(longest \o <<Asterisk>>, key)
      <4>. HIDE DEF longest
      <4>. QED
        BY <3>4, HeadMatches
    <3>. QED
      BY <2>1, <2>2, <3>5
  <2>3. CASE ~matchAll
    <3>1. PICK i \in I : i \in hits
      <4>. HIDE DEF hits, I
      <4>. QED
        BY <1>2, <1>6, <2>3
    <3>. DEFINE p == literalPrefix(fs[i])
                common == LongestCommonPrefix(prefixes)
    <3>2. p \in Seq(Byte) /\ PlainText(p) /\ Begins(p, key) /\ p \in prefixes
      BY <1>3, <3>1
    <3>3. \A q \in prefixes : q \in Seq(Byte)
      <4>. SUFFICES ASSUME NEW j \in I PROVE literalPrefix(fs[j]) \in Seq(Byte)
        OBVIOUS
      <4>1. Firm(fs[j])
        BY <1>1, GivenIsFirm
      <4>. QED
        BY <4>1, PrefixIs
    <3>. HIDE DEF p, prefixes
    <3>4. common \in Seq(Byte) /\ Begins(common, p)
      BY <3>2, <3>3, CommonIs
    <3>. HIDE DEF common
    <3>5. PlainText(common) /\ Begins(common, key)
      BY <3>2, <3>4, BeginsTransitive
    <3>6. globMatch(common \o <<Asterisk>>, key)
      BY <3>4, <3>5, HeadMatches
    <3>. QED
      BY <2>1, <2>3, <3>6 DEF common
  <2>. QED
    BY <2>2, <2>3
<1>. QED
  BY <1>4, <1>5, <1>6

-----------------------------------------------------------------------------
(* The bar.                                                                 *)

\* The empty bar has one clause without a text.
LEMMA BarInit == FilterInit => FilterInv
<1>. DEFINE b == Blank("substring", TRUE)
<1>1. b \in Clauses /\ b.text = <<>>
  BY DEF Blank, Clauses
<1>. HIDE DEF b
<1>2. ASSUME FilterInit PROVE FilterInv
  <2>1. filters = <<b>> /\ matchAll = FALSE
    BY <1>2, Zenon DEF FilterInit, b
  <2>2. \A i \in DOMAIN filters : filters[i] = b
    BY <2>1
  <2>3. filters \in Seq(Clauses)
    BY <1>1, <2>1
  <2>4. \A i \in DOMAIN filters : filters[i].text # <<>> => filters[i] \in Typed
    BY <1>1, <2>2
  <2>. QED
    BY <2>1, <2>3, <2>4 DEF FilterInv
<1>. QED
  BY <1>2

\* An edit puts a typed clause or an empty one in, or takes one out.
LEMMA BarNext == FilterInv /\ [FilterNext]_filterVars => FilterInv'
<1>. SUFFICES ASSUME FilterInv, [FilterNext]_filterVars
              PROVE  FilterInv'
  OBVIOUS
<1>0. /\ filters \in Seq(Clauses) /\ matchAll \in BOOLEAN
      /\ \A i \in DOMAIN filters : filters[i].text # <<>> => filters[i] \in Typed
  BY DEF FilterInv
<1>1. ASSUME NEW i \in DOMAIN filters, RemoveClause(i) PROVE FilterInv'
  <2>1. filters' = RemoveAt(filters, i) /\ matchAll' = matchAll
    BY <1>1 DEF RemoveClause
  <2>2. i \in 1..Len(filters)
    BY <1>0
  <2>3. filters' = SubSeq(filters, 1, i - 1) \o SubSeq(filters, i + 1, Len(filters))
    BY <2>1, Zenon DEF RemoveAt
  <2>. DEFINE before == SubSeq(filters, 1, i - 1)
              after == SubSeq(filters, i + 1, Len(filters))
  <2>4. /\ before \in Seq(Clauses) /\ after \in Seq(Clauses)
        /\ \A j \in DOMAIN before : j \in DOMAIN filters /\ before[j] = filters[j]
        /\ \A j \in DOMAIN after : i + j \in DOMAIN filters /\ after[j] = filters[i + j]
    BY <1>0, <2>2
  <2>. HIDE DEF before, after
  <2>5. filters' \in Seq(Clauses)
    BY <2>3, <2>4 DEF before, after
  <2>6. ASSUME NEW j \in DOMAIN filters'
        PROVE  \E k \in DOMAIN filters : filters'[j] = filters[k]
    <3>1. filters' = before \o after
      BY <2>3 DEF before, after
    <3>2. CASE j <= Len(before)
      BY <2>4, <2>6, <3>1, <3>2
    <3>3. CASE j > Len(before)
      <4>1. j - Len(before) \in DOMAIN after /\ filters'[j] = after[j - Len(before)]
        BY <2>4, <2>6, <3>1, <3>3
      <4>. QED
        BY <2>4, <4>1
    <3>. QED
      BY <2>4, <2>6, <3>1, <3>2, <3>3
  <2>. QED
    BY <1>0, <2>1, <2>5, <2>6 DEF FilterInv
<1>2. ASSUME NEW i \in DOMAIN filters, NEW c \in Typed, Patch(i, c)
      PROVE  FilterInv'
  <2>1. filters' = [filters EXCEPT ![i] = c] /\ matchAll' = matchAll
    BY <1>2 DEF Patch
  <2>2. c \in Clauses
    BY TypedAssumption
  <2>. QED
    BY <1>0, <2>1, <2>2 DEF FilterInv
<1>3. CASE AddClause
  <2>. DEFINE b == Blank("glob", FALSE)
  <2>1. b \in Clauses /\ b.text = <<>>
    BY DEF Blank, Clauses
  <2>2. filters' = Append(filters, b) /\ matchAll' = matchAll
    BY <1>3, Zenon DEF AddClause
  <2>. HIDE DEF b
  <2>. QED
    BY <1>0, <2>1, <2>2 DEF FilterInv
<1>4. CASE MatchAllChange
  BY <1>0, <1>4 DEF MatchAllChange, FilterInv
<1>5. CASE UNCHANGED filterVars
  BY <1>0, <1>5 DEF filterVars, FilterInv
<1>. QED
  BY <1>1, <1>2, <1>3, <1>4, <1>5 DEF FilterNext

\* No key that the filter admits is withheld by the pattern that Pushdown makes of
\* it for SCAN, whatever clauses are in the bar, unless one is an anchored expression
\* with alternatives or with a head whose last byte is optional: a single glob goes
\* over as it is, and otherwise the pattern is a plain head with which every key that
\* has matched begins.
THEOREM NothingIsWithheld == FilterSpec => []PushdownIsASuperset
<1>1. FilterInv => PushdownIsASuperset
  <2>. SUFFICES ASSUME FilterInv, ~Rejected(filters), ~Loose(filters),
                       NEW key \in KeyName, Match(filters, matchAll, key)
                PROVE  globMatch(Pushdown(filters, matchAll), key)
    BY Zenon DEF PushdownIsASuperset
  <2>1. key \in Seq(Byte)
    BY TypedAssumption DEF Byte
  <2>. QED
    BY <2>1, PushdownHolds
<1>. QED
  BY <1>1, BarInit, BarNext, PTL DEF FilterSpec

-----------------------------------------------------------------------------
(* What the code makes of a pattern.                                        *)

\* The rest of a pattern that matches the end of the key is asterisks.
LEMMA AtTheEnd ==
  ASSUME NEW t \in Seq(Byte), NEW s \in Seq(Byte)
  PROVE  \A q \in 1..PastEnd(t) : Matcher(t, s)[q][Len(s) + 1] = Stars(t, q)
<1>. DEFINE n == Len(t)
            m == Len(s)
            f == Matcher(t, s)
            Right == {q \in 1..PastEnd(t) : f[q][m + 1] = Stars(t, q)}
<1>1. n \in Nat /\ m \in Nat /\ PastEnd(t) = n + 1 /\ m + 1 \in 1..(m + 1)
  BY DEF PastEnd
<1>2. \A q \in 1..(n + 1) : f[q][m + 1] = MatchFrom(t, s, f, q, m + 1)
  BY <1>1, MatcherIs
<1>. HIDE DEF f
<1>3. ASSUME NEW q \in 1..PastEnd(t), \A r \in (q + 1)..PastEnd(t) : r \in Right
      PROVE  q \in Right
  <2>1. CASE q = n + 1
    <3>1. Stars(t, q)
      BY <1>1, <2>1 DEF Stars
    <3>2. q > n /\ m + 1 > m
      BY <1>1, <2>1
    <3>3. MatchFrom(t, s, f, q, m + 1)
      BY <3>2, Zenon DEF MatchFrom
    <3>4. f[q][m + 1] = TRUE
      BY <1>1, <1>2, <3>3, Zenon DEF MatchFrom
    <3>. QED
      BY <3>1, <3>4
  <2>2. CASE q # n + 1
    <3>1. q <= n /\ q + 1 \in (q + 1)..PastEnd(t) /\ q \in 1..(n + 1) /\ ~(q > n) /\ ~(m + 1 <= m)
      BY <1>1, <2>2
    <3>2. f[q + 1][m + 1] = Stars(t, q + 1)
      BY <1>3, <3>1
    <3>3. Reach(s, m + 1) = {m + 1}
      BY <1>1 DEF Reach
    <3>4. Stars(t, q) <=> t[q] = Asterisk /\ Stars(t, q + 1)
      BY <1>1, <3>1 DEF Stars
    <3>5. (\E i \in Reach(s, m + 1) : f[q + 1][i]) <=> Stars(t, q + 1)
      BY <3>2, <3>3, Zenon
    <3>6. MatchFrom(t, s, f, q, m + 1) <=> t[q] = Asterisk /\ (Stars(t, q) \/ Stars(t, q + 1))
      BY <3>1, <3>5, Zenon DEF MatchFrom, Stars
    <3>7. f[q][m + 1] = MatchFrom(t, s, f, q, m + 1) /\ MatchFrom(t, s, f, q, m + 1) \in BOOLEAN
      BY <1>2, <3>1, Zenon DEF MatchFrom
    <3>8. Stars(t, q) => Stars(t, q + 1)
      BY <3>4
    <3>9. MatchFrom(t, s, f, q, m + 1) <=> Stars(t, q)
      BY <3>4, <3>6, <3>8
    <3>10. Stars(t, q) \in BOOLEAN
      BY Zenon DEF Stars
    <3>11. MatchFrom(t, s, f, q, m + 1) = Stars(t, q)
      BY <3>7, <3>9, <3>10
    <3>. QED
      BY <3>7, <3>11
  <2>. QED
    BY <2>1, <2>2
<1>4. \A q \in 1..PastEnd(t) : q \in Right
  <2>1. PastEnd(t) \in Nat
    BY <1>1
  <2>. HIDE DEF Right
  <2>. QED
    BY <1>3, <2>1, Downwards
<1>. QED
  BY <1>4 DEF f

LEMMA GoesIs ==
  ASSUME NEW t \in Seq(Byte), NEW s \in Seq(Byte), NEW q \in 1..PastEnd(t), NEW k \in 1..Len(s)
  PROVE  Goes(t, s, Matcher(t, s), q, k) = Matcher(t, s)[q][k + 1]
BY AtTheEnd DEF Goes

-----------------------------------------------------------------------------
(* Classes.                                                                 *)

\* The range between two numbers, whichever is less.
LEMMA RangeIs ==
  ASSUME NEW x \in Nat, NEW y \in Nat
  PROVE  Min({x, y})..Max({x, y}) = Between(x, y)
<1>1. CASE x <= y
  <2>1. Min({x, y}) = x
    <3>1. \A z \in {x, y} : (\A w \in {x, y} : z <= w) => z = x
      BY <1>1
    <3>2. x \in {x, y} /\ \A w \in {x, y} : x <= w
      BY <1>1
    <3>. QED
      BY <3>1, <3>2, Zenon DEF Min
  <2>2. Max({x, y}) = y
    <3>1. \A z \in {x, y} : (\A w \in {x, y} : z >= w) => z = y
      BY <1>1
    <3>2. y \in {x, y} /\ \A w \in {x, y} : y >= w
      BY <1>1
    <3>. QED
      BY <3>1, <3>2, Zenon DEF Max
  <2>. QED
    BY <1>1, <2>1, <2>2 DEF Between
<1>2. CASE y < x
  <2>1. Min({x, y}) = y
    <3>1. \A z \in {x, y} : (\A w \in {x, y} : z <= w) => z = y
      BY <1>2
    <3>2. y \in {x, y} /\ \A w \in {x, y} : y <= w
      BY <1>2
    <3>. QED
      BY <3>1, <3>2, Zenon DEF Min
  <2>2. Max({x, y}) = x
    <3>1. \A z \in {x, y} : (\A w \in {x, y} : z >= w) => z = x
      BY <1>2
    <3>2. x \in {x, y} /\ \A w \in {x, y} : x >= w
      BY <1>2
    <3>. QED
      BY <3>1, <3>2, Zenon DEF Max
  <2>. QED
    BY <1>2, <2>1, <2>2 DEF Between
<1>. QED
  BY <1>1, <1>2

\* An element of a class is read over.
LEMMA ElementIs ==
  ASSUME NEW t \in Seq(Byte), NEW e \in 1..Len(t), t[e] # CloseBracket, NEW b, NEW hit \in BOOLEAN, NEW g
  PROVE  /\ ClassFrom(t, b, g, e, hit) = g[Behind(t, e)][hit \/ b \in BytesAt(t, e)]
         /\ Behind(t, e) \in (e + 1)..PastEnd(t)
<1>. DEFINE n == Len(t)
            isRange == /\ e + 2 <= n /\ t[e] \notin {Backslash, CloseBracket}
                       /\ t[e + 1] = Dash /\ t[e + 2] # CloseBracket
<1>1. n \in Nat /\ e \in Nat /\ ~(e > n) /\ PastEnd(t) = n + 1 /\ t[e] \in Byte
  BY DEF PastEnd
<1>2. CASE e < n /\ t[e] = Backslash
  <2>1. ~isRange /\ ~RangeAt(t, e) /\ EscapeAt(t, e)
    BY <1>2 DEF RangeAt, EscapeAt
  <2>2. Behind(t, e) = e + 2 /\ BytesAt(t, e) = {t[e + 1]}
    BY <2>1 DEF Behind, BytesAt
  <2>3. ClassFrom(t, b, g, e, hit) = g[e + 2][hit \/ t[e + 1] = b]
    BY <1>1, <1>2, <2>1 DEF ClassFrom, Backslash, CloseBracket
  <2>4. (hit \/ t[e + 1] = b) = (hit \/ b \in {t[e + 1]})
    OBVIOUS
  <2>. QED
    BY <1>1, <1>2, <2>2, <2>3, <2>4
<1>3. CASE isRange
  <2>1. RangeAt(t, e)
    BY <1>3 DEF RangeAt
  <2>2. Behind(t, e) = e + 3 /\ BytesAt(t, e) = Between(t[e], t[e + 2])
    BY <2>1 DEF Behind, BytesAt
  <2>3. Min({t[e], t[e + 2]})..Max({t[e], t[e + 2]}) = Between(t[e], t[e + 2])
    <3>1. e + 2 \in 1..n
      BY <1>1, <1>3
    <3>2. t[e] \in Byte /\ t[e + 2] \in Byte
      BY <3>1
    <3>3. t[e] \in Nat /\ t[e + 2] \in Nat
      <4>1. \A x \in Byte : x \in Nat
        BY DEF Byte
      <4>. QED
        BY <3>2, <4>1
    <3>. QED
      BY <3>3, RangeIs
  <2>4. ClassFrom(t, b, g, e, hit)
          = g[e + 3][hit \/ b \in Min({t[e], t[e + 2]})..Max({t[e], t[e + 2]})]
    BY <1>1, <1>3 DEF ClassFrom
  <2>5. Behind(t, e) \in (e + 1)..PastEnd(t)
    BY <1>1, <1>3, <2>2
  <2>. QED
    BY <2>2, <2>3, <2>4, <2>5, Zenon
<1>4. CASE ~(e < n /\ t[e] = Backslash) /\ ~isRange
  <2>1. ~RangeAt(t, e) /\ ~EscapeAt(t, e)
    BY <1>4 DEF RangeAt, EscapeAt
  <2>2. Behind(t, e) = e + 1 /\ BytesAt(t, e) = {t[e]}
    BY <2>1 DEF Behind, BytesAt
  <2>3. ClassFrom(t, b, g, e, hit) = g[e + 1][hit \/ t[e] = b]
    BY <1>1, <1>4 DEF ClassFrom
  <2>4. (hit \/ t[e] = b) = (hit \/ b \in {t[e]})
    OBVIOUS
  <2>. QED
    BY <1>1, <2>2, <2>3, <2>4
<1>. QED
  BY <1>2, <1>3, <1>4

\* The same, with a name for what has been admitted by then.
LEMMA ElementRead ==
  ASSUME NEW t \in Seq(Byte), NEW e \in 1..Len(t), t[e] # CloseBracket, NEW b,
         NEW hit \in BOOLEAN, NEW h \in BOOLEAN, h <=> hit \/ b \in BytesAt(t, e), NEW g
  PROVE  /\ ClassFrom(t, b, g, e, hit) = g[Behind(t, e)][h]
         /\ Behind(t, e) \in (e + 1)..PastEnd(t)
<1>1. h = (hit \/ b \in BytesAt(t, e))
  OBVIOUS
<1>2. /\ ClassFrom(t, b, g, e, hit) = g[Behind(t, e)][hit \/ b \in BytesAt(t, e)]
      /\ Behind(t, e) \in (e + 1)..PastEnd(t)
  BY ElementIs
<1>. QED
  BY <1>1, <1>2

\* The elements of a class from first on start at starts, and end before last.
Elements(t, first, last, starts) ==
  /\ first \in 1..PastEnd(t) /\ last \in first..PastEnd(t)
  /\ starts \in SUBSET (first..last) /\ first \in starts /\ last \in starts
  /\ \A e \in starts \ {last} :
       /\ t[e] # CloseBracket /\ Behind(t, e) \in starts
       /\ starts \cap (e + 1)..(Behind(t, e) - 1) = {}
  /\ last <= Len(t) => t[last] = CloseBracket

\* An element from e on admits b.
Admitting(t, b, starts, last, e) == \E d \in starts : d >= e /\ d # last /\ b \in BytesAt(t, d)

\* What is read from a start of an element on: the class closes at last, and
\* has admitted what the elements from here on admit.
LEMMA ElementsAre ==
  ASSUME NEW t \in Seq(Byte), NEW b, NEW first, NEW last, NEW starts,
         Elements(t, first, last, starts)
  PROVE  Scan(t, b)[first][FALSE] =
           [close |-> IF last <= Len(t) THEN last ELSE Len(t),
            hit |-> Admitting(t, b, starts, last, first)]
<1>0. /\ first \in 1..PastEnd(t) /\ last \in first..PastEnd(t)
      /\ starts \in SUBSET (first..last) /\ first \in starts /\ last \in starts
      /\ \A e \in starts \ {last} :
           /\ t[e] # CloseBracket /\ Behind(t, e) \in starts
           /\ starts \cap (e + 1)..(Behind(t, e) - 1) = {}
      /\ last <= Len(t) => t[last] = CloseBracket
  BY DEF Elements
<1>. DEFINE n == Len(t)
            scan == Scan(t, b)
            close == IF last <= n THEN last ELSE n
            Admitted(e) == \E d \in starts : d >= e /\ d # last /\ b \in BytesAt(t, d)
            Right == {e \in 1..PastEnd(t) : e \in starts =>
                        \A hit \in BOOLEAN : scan[e][hit] = [close |-> close, hit |-> hit \/ Admitted(e)]}
<1>1. n \in Nat /\ PastEnd(t) = n + 1 /\ first \in Nat /\ last \in Nat /\ last <= n + 1 /\ first >= 1
      /\ starts \subseteq 1..PastEnd(t) /\ PastEnd(t) \in Nat
      /\ \A d \in starts : d \in Nat /\ d <= last
  BY <1>0 DEF PastEnd
<1>2. \A q \in 1..PastEnd(t), hit \in BOOLEAN : scan[q][hit] = ClassFrom(t, b, scan, q, hit)
  BY ScanIs
<1>. HIDE DEF scan
<1>3. ASSUME NEW e \in 1..PastEnd(t), \A r \in (e + 1)..PastEnd(t) : r \in Right
      PROVE  e \in Right
  <2>. SUFFICES ASSUME e \in starts, NEW hit \in BOOLEAN
                PROVE  scan[e][hit] = [close |-> close, hit |-> hit \/ Admitted(e)]
    BY Zenon
  <2>1. CASE e = last
    <3>1. ~Admitted(e)
      BY <1>1, <2>1
    <3>2. ClassFrom(t, b, scan, e, hit) = [close |-> close, hit |-> hit]
      <4>1. CASE last <= n
        <5>1. t[e] = CloseBracket /\ ~(e > n) /\ e <= n
          BY <1>0, <1>1, <2>1, <4>1
        <5>2. close = e
          BY <2>1, <4>1
        <5>. HIDE DEF close
        <5>. QED
          BY <5>1, <5>2 DEF ClassFrom, CloseBracket, Backslash
      <4>2. CASE last > n
        <5>1. e > n /\ close = n
          BY <1>1, <2>1, <4>2
        <5>. HIDE DEF close
        <5>. QED
          BY <1>1, <5>1 DEF ClassFrom
      <4>. QED
        BY <1>1, <4>1, <4>2
    <3>3. (hit \/ Admitted(e)) = hit
      BY <3>1
    <3>. QED
      BY <1>2, <3>2, <3>3
  <2>2. CASE e # last
    <3>. DEFINE r == Behind(t, e)
                h == (hit \/ b \in BytesAt(t, e))
    <3>1. e \in 1..n /\ t[e] # CloseBracket /\ r \in starts /\ starts \cap (e + 1)..(r - 1) = {}
      BY <1>0, <1>1, <2>2
    <3>2. ClassFrom(t, b, scan, e, hit) = scan[r][h] /\ r \in (e + 1)..PastEnd(t)
      <4>1. e \in 1..Len(t) /\ t[e] # CloseBracket
        BY <3>1
      <4>2. h \in BOOLEAN /\ (h <=> hit \/ b \in BytesAt(t, e))
        BY Zenon
      <4>. HIDE DEF h
      <4>. QED
        BY <4>1, <4>2, ElementRead
    <3>3. r \in Right
      BY <1>3, <3>2
    <3>4. scan[r][h] = [close |-> close, hit |-> h \/ Admitted(r)]
      BY <3>1, <3>3
    <3>5. (h \/ Admitted(r)) <=> (hit \/ Admitted(e))
      <4>1. Admitted(r) => Admitted(e)
        BY <1>1, <3>2
      <4>2. b \in BytesAt(t, e) => Admitted(e)
        BY <1>1, <2>2
      <4>3. ASSUME Admitted(e) PROVE b \in BytesAt(t, e) \/ Admitted(r)
        <5>1. PICK d \in starts : d >= e /\ d # last /\ b \in BytesAt(t, d)
          BY <4>3
        <5>2. d = e \/ d >= r
          <6>1. d \in Nat /\ e \in Nat /\ r \in Nat
            BY <1>1, <3>1
          <6>2. d \notin (e + 1)..(r - 1)
            BY <3>1
          <6>. HIDE DEF r
          <6>. QED
            BY <5>1, <6>1, <6>2
        <5>. QED
          BY <5>1, <5>2
      <4>. QED
        BY <4>1, <4>2, <4>3
    <3>6. (h \/ Admitted(r)) = (hit \/ Admitted(e))
      BY <3>5
    <3>7. scan[e][hit] = scan[r][h]
      BY <1>2, <3>2, Zenon
    <3>. QED
      BY <3>4, <3>6, <3>7, Zenon
  <2>. QED
    BY <2>1, <2>2
<1>4. \A e \in 1..PastEnd(t) : e \in Right
  <2>. HIDE DEF Right
  <2>. QED
    BY <1>1, <1>3, Downwards
<1>5. scan[first][FALSE] = [close |-> close, hit |-> FALSE \/ Admitted(first)]
  <2>1. first \in Right
    BY <1>0, <1>4, Zenon
  <2>. QED
    BY <1>0, <2>1, Zenon
<1>. QED
  BY <1>5, Zenon DEF scan, Admitting

\* What the class of a bracket admits, and where it closes.
LEMMA ClassReadIs ==
  ASSUME NEW t \in Seq(Byte), NEW p \in 1..Len(t), NEW q, NEW it, ClassReads(t, p, q, it), NEW b
  PROVE  /\ q = Class(t, p, b).close + 1 /\ q \in (p + 1)..PastEnd(t)
         /\ it.least = 1 /\ it.many = FALSE
         /\ Class(t, p, b).admits = Fits(it, b, FALSE)
<1>. DEFINE n == Len(t)
            negate == p < n /\ t[p + 1] = Caret
            first == IF negate THEN p + 2 ELSE p + 1
            Says(starts, last) == UNION {BytesAt(t, e) : e \in starts \ {last}}
<1>1. PICK last \in first..(n + 1) : \E starts \in SUBSET (first..last) :
        /\ first \in starts /\ last \in starts
        /\ \A e \in starts \ {last} :
             /\ t[e] # CloseBracket /\ Behind(t, e) \in starts
             /\ starts \cap (e + 1)..(Behind(t, e) - 1) = {}
        /\ \/ last <= n /\ t[last] = CloseBracket /\ q = last + 1
           \/ last = n + 1 /\ q = last
        /\ it = OneOf(Says(starts, last), negate)
  BY Zenon DEF ClassReads
<1>2. PICK starts \in SUBSET (first..last) :
        /\ first \in starts /\ last \in starts
        /\ \A e \in starts \ {last} :
             /\ t[e] # CloseBracket /\ Behind(t, e) \in starts
             /\ starts \cap (e + 1)..(Behind(t, e) - 1) = {}
        /\ \/ last <= n /\ t[last] = CloseBracket /\ q = last + 1
           \/ last = n + 1 /\ q = last
        /\ it = OneOf(Says(starts, last), negate)
  BY <1>1, Zenon
<1>. DEFINE bytes == Says(starts, last)
            hit == \E d \in starts : d >= first /\ d # last /\ b \in BytesAt(t, d)
            close == IF last <= n THEN last ELSE n
<1>3. n \in Nat /\ p \in Nat /\ p <= n /\ PastEnd(t) = n + 1 /\ first \in 1..PastEnd(t) /\ first > p
      /\ last \in first..PastEnd(t) /\ first \in Nat /\ last \in Nat /\ last <= n + 1
      /\ \A d \in starts : d >= first
  BY DEF PastEnd
<1>4. it.least = 1 /\ it.many = FALSE /\ it.negate = negate /\ it.bytes = bytes
  <2>. HIDE DEF bytes, negate
  <2>. QED
    BY <1>2 DEF OneOf, bytes
<1>5. q = close + 1 /\ q \in (p + 1)..PastEnd(t)
  BY <1>2, <1>3
<1>6. Scan(t, b)[first][FALSE] = [close |-> close, hit |-> hit]
  <2>1. last <= n => t[last] = CloseBracket
    BY <1>2, <1>3
  <2>2. Elements(t, first, last, starts)
    BY <1>2, <1>3, <2>1, Zenon DEF Elements
  <2>3. Scan(t, b)[first][FALSE] = [close |-> IF last <= Len(t) THEN last ELSE Len(t),
                                    hit |-> Admitting(t, b, starts, last, first)]
    <3>. HIDE DEF first
    <3>. QED
      BY <2>2, ElementsAre
  <2>. QED
    BY <2>3, Zenon DEF Admitting
<1>7. hit <=> b \in bytes
  <2>. HIDE DEF first
  <2>. QED
    BY <1>3
<1>8. Class(t, p, b) = [close |-> close, admits |-> hit # negate]
  <2>. HIDE DEF hit, close
  <2>1. Class(t, p, b) = [close |-> Scan(t, b)[first][FALSE].close,
                          admits |-> Scan(t, b)[first][FALSE].hit # negate]
    BY Zenon DEF Class, Scan, ClassRow
  <2>. HIDE DEF first, negate
  <2>. QED
    BY <1>6, <2>1
<1>9. Fits(it, b, FALSE) = (hit # negate)
  <2>1. Fits(it, b, FALSE) = ((\E x \in it.bytes : x = b) # it.negate)
    BY Zenon DEF Fits
  <2>2. (\E x \in it.bytes : x = b) = hit
    <3>1. (\E x \in it.bytes : x = b) <=> hit
      <4>. HIDE DEF hit, bytes
      <4>. QED
        BY <1>4, <1>7
    <3>. QED
      BY <3>1, Zenon
  <2>. HIDE DEF hit, negate
  <2>. QED
    BY <1>4, <2>1, <2>2
<1>10. Class(t, p, b).close = close /\ Class(t, p, b).admits = (hit # negate)
  <2>. HIDE DEF hit, negate, close
  <2>. QED
    BY <1>8
<1>. QED
  BY <1>4, <1>5, <1>9, <1>10, Zenon

-----------------------------------------------------------------------------
(* Pieces.                                                                  *)

\* The bytes of s from k up to before l are a run that the item stands for.
Covers(it, s, k, l) ==
  /\ l - k >= it.least
  /\ it.many \/ l - k <= 1
  /\ \A j \in k..(l - 1) : Fits(it, s[j], FALSE)

\* What the loop does at each kind of piece.
LEMMA MatchFromAt ==
  ASSUME NEW t \in Seq(Byte), NEW s \in Seq(Byte), NEW f, NEW p \in 1..Len(t),
         NEW k \in 1..(Len(s) + 1)
  PROVE  /\ t[p] = Asterisk =>
              (MatchFrom(t, s, f, p, k)
                 <=> Stars(t, p) \/ \E i \in k..(Len(s) + 1) : f[p + 1][i])
         /\ t[p] = Question =>
              (MatchFrom(t, s, f, p, k) <=> k <= Len(s) /\ Goes(t, s, f, p + 1, k))
         /\ t[p] = OpenBracket =>
              (MatchFrom(t, s, f, p, k)
                 <=> /\ k <= Len(s) /\ Class(t, p, s[k]).admits
                     /\ Goes(t, s, f, Class(t, p, s[k]).close + 1, k))
         /\ EscapeAt(t, p) =>
              (MatchFrom(t, s, f, p, k)
                 <=> k <= Len(s) /\ t[p + 1] = s[k] /\ Goes(t, s, f, p + 1 + 1, k))
         /\ t[p] \notin {Asterisk, Question, OpenBracket} /\ ~EscapeAt(t, p) =>
              (MatchFrom(t, s, f, p, k)
                 <=> k <= Len(s) /\ t[p] = s[k] /\ Goes(t, s, f, p + 1, k))
<1>1. p <= Len(t) /\ ~(p > Len(t))
  OBVIOUS
<1>2. /\ Asterisk # Question /\ Asterisk # OpenBracket /\ Question # OpenBracket
      /\ Backslash \notin {Asterisk, Question, OpenBracket}
  BY DEF Asterisk, Question, OpenBracket, Backslash
<1>3. Reach(s, k) = k..(Len(s) + 1)
  BY Zenon DEF Reach
<1>4. t[p] = Asterisk =>
        (MatchFrom(t, s, f, p, k) <=> Stars(t, p) \/ \E i \in k..(Len(s) + 1) : f[p + 1][i])
  BY <1>1, <1>2, <1>3, Zenon DEF MatchFrom, Stars
<1>5. t[p] = Question =>
        (MatchFrom(t, s, f, p, k) <=> k <= Len(s) /\ Goes(t, s, f, p + 1, k))
  BY <1>1, <1>2, Zenon DEF MatchFrom, Stars, Goes
<1>6. t[p] = OpenBracket =>
        (MatchFrom(t, s, f, p, k)
           <=> /\ k <= Len(s) /\ Class(t, p, s[k]).admits
               /\ Goes(t, s, f, Class(t, p, s[k]).close + 1, k))
  BY <1>1, <1>2, Zenon DEF MatchFrom, Stars, Goes
<1>7. EscapeAt(t, p) =>
        (MatchFrom(t, s, f, p, k)
           <=> k <= Len(s) /\ t[p + 1] = s[k] /\ Goes(t, s, f, p + 1 + 1, k))
  BY <1>1, <1>2, Zenon DEF MatchFrom, Stars, Goes, EscapeAt
<1>8. t[p] \notin {Asterisk, Question, OpenBracket} /\ ~EscapeAt(t, p) =>
        (MatchFrom(t, s, f, p, k) <=> k <= Len(s) /\ t[p] = s[k] /\ Goes(t, s, f, p + 1, k))
  BY <1>1, <1>2, Zenon DEF MatchFrom, Stars, Goes, EscapeAt
<1>. QED
  BY <1>4, <1>5, <1>6, <1>7, <1>8

\* An item that stands for one byte covers one.
LEMMA CoversOne ==
  ASSUME NEW it, it.least = 1, it.many = FALSE, NEW s \in Seq(Byte),
         NEW k \in 1..(Len(s) + 1), NEW g
  PROVE  (\E l \in k..(Len(s) + 1) : Covers(it, s, k, l) /\ g[l])
           <=> k <= Len(s) /\ Fits(it, s[k], FALSE) /\ g[k + 1]
<1>1. \A l \in k..(Len(s) + 1) : Covers(it, s, k, l) <=> l = k + 1 /\ Fits(it, s[k], FALSE)
  <2>. TAKE l \in k..(Len(s) + 1)
  <2>1. Covers(it, s, k, l)
          <=> l - k >= 1 /\ l - k <= 1 /\ \A j \in k..(l - 1) : Fits(it, s[j], FALSE)
    BY Zenon DEF Covers
  <2>2. l - k >= 1 /\ l - k <= 1 <=> l = k + 1
    OBVIOUS
  <2>3. l = k + 1 => \A j : j \in k..(l - 1) <=> j = k
    OBVIOUS
  <2>. QED
    BY <2>1, <2>2, <2>3, Zenon
<1>2. k + 1 \in k..(Len(s) + 1) <=> k <= Len(s)
  OBVIOUS
<1>. QED
  BY <1>1, <1>2, Zenon

\* The loop gets from a piece to the next over what its item covers.
LEMMA PieceIs ==
  ASSUME NEW t \in Seq(Byte), NEW s \in Seq(Byte), NEW p \in 1..Len(t), NEW q, NEW it,
         PieceReads(t, p, q, it)
  PROVE  /\ q \in (p + 1)..PastEnd(t) /\ it.least \in Nat
         /\ \A k \in 1..(Len(s) + 1) :
              Matcher(t, s)[p][k]
                <=> \E l \in k..(Len(s) + 1) : Covers(it, s, k, l) /\ Matcher(t, s)[q][l]
<1>. DEFINE n == Len(t)
            m == Len(s)
            f == Matcher(t, s)
            Gets(k) == \E l \in k..(m + 1) : Covers(it, s, k, l) /\ f[q][l]
<1>0. n \in Nat /\ m \in Nat /\ PastEnd(t) = n + 1 /\ p <= n /\ p \in 1..PastEnd(t)
  BY DEF PastEnd
<1>1. \A k \in 1..(m + 1) : f[p][k] = MatchFrom(t, s, f, p, k)
  BY <1>0, MatcherIs
<1>2. \A r \in 1..PastEnd(t), k \in 1..m : Goes(t, s, f, r, k) = f[r][k + 1]
  BY GoesIs
<1>. HIDE DEF f
<1>3. CASE t[p] = Asterisk /\ q = p + 1 /\ it = AnyRun
  <2>1. it.least = 0 /\ it.many = TRUE /\ it.bytes = {} /\ it.negate = TRUE
    BY <1>3 DEF AnyRun
  <2>2. \A b : Fits(it, b, FALSE)
    BY <2>1 DEF Fits
  <2>3. ASSUME NEW k \in 1..(m + 1) PROVE f[p][k] <=> Gets(k)
    <3>1. \A l \in k..(m + 1) : Covers(it, s, k, l)
      <4>1. \A l \in k..(m + 1) : l - k >= it.least
        BY <2>1
      <4>. QED
        BY <2>1, <2>2, <4>1, Zenon DEF Covers
    <3>2. f[p][k] <=> Stars(t, p) \/ \E i \in k..(m + 1) : f[p + 1][i]
      BY <1>1, <1>3, MatchFromAt
    <3>3. Stars(t, p) => f[p + 1][m + 1]
      <4>1. Stars(t, p) => Stars(t, p + 1)
        BY <1>0 DEF Stars
      <4>2. p + 1 \in 1..PastEnd(t)
        BY <1>0
      <4>. QED
        BY <4>1, <4>2, AtTheEnd DEF f
    <3>4. m + 1 \in k..(m + 1)
      OBVIOUS
    <3>. QED
      BY <1>3, <3>1, <3>2, <3>3, <3>4, Zenon
  <2>. QED
    BY <1>0, <1>3, <2>1, <2>3 DEF f
<1>4. ASSUME it.least = 1, it.many = FALSE, q \in (p + 1)..PastEnd(t),
             \A k \in 1..m : MatchFrom(t, s, f, p, k)
                              <=> Fits(it, s[k], FALSE) /\ Goes(t, s, f, q, k),
             ~MatchFrom(t, s, f, p, m + 1)
      PROVE  /\ q \in (p + 1)..PastEnd(t) /\ it.least \in Nat
             /\ \A k \in 1..(m + 1) : f[p][k] <=> Gets(k)
  <2>1. ASSUME NEW k \in 1..(m + 1) PROVE f[p][k] <=> Gets(k)
    <3>1. Gets(k) <=> k <= m /\ Fits(it, s[k], FALSE) /\ f[q][k + 1]
      <4>. DEFINE g == f[q]
      <4>1. (\E l \in k..(Len(s) + 1) : Covers(it, s, k, l) /\ g[l])
              <=> k <= Len(s) /\ Fits(it, s[k], FALSE) /\ g[k + 1]
        <5>. HIDE DEF g
        <5>. QED
          BY <1>4, CoversOne
      <4>. QED
        BY <4>1, Zenon
    <3>2. CASE k <= m
      <4>1. k \in 1..m /\ q \in 1..PastEnd(t)
        BY <1>0, <1>4, <3>2
      <4>. QED
        BY <1>1, <1>2, <1>4, <2>1, <3>1, <3>2, <4>1, Zenon
    <3>3. CASE k = m + 1
      <4>1. ~(k <= m)
        BY <1>0, <3>3
      <4>. QED
        BY <1>1, <1>4, <2>1, <3>1, <3>3, <4>1, Zenon
    <3>. QED
      BY <1>0, <3>2, <3>3
  <2>. QED
    BY <1>4, <2>1
<1>5. m + 1 \in 1..(m + 1) /\ ~(m + 1 <= m) /\ \A k \in 1..m : k \in 1..(m + 1) /\ k <= m
  BY <1>0
<1>6. CASE t[p] = Question /\ q = p + 1 /\ it = AnyByte
  <2>1. it.least = 1 /\ it.many = FALSE /\ it.bytes = {} /\ it.negate = TRUE
    BY <1>6 DEF AnyByte, OneOf
  <2>2. \A b : Fits(it, b, FALSE)
    BY <2>1 DEF Fits
  <2>3. q \in (p + 1)..PastEnd(t)
    BY <1>0, <1>6
  <2>4. \A k \in 1..(m + 1) : MatchFrom(t, s, f, p, k) <=> k <= m /\ Goes(t, s, f, q, k)
    BY <1>6, MatchFromAt
  <2>. QED
    BY <1>4, <1>5, <2>1, <2>2, <2>3, <2>4 DEF f
<1>7. CASE t[p] = OpenBracket /\ ClassReads(t, p, q, it)
  <2>1. \A b : /\ q = Class(t, p, b).close + 1 /\ q \in (p + 1)..PastEnd(t)
               /\ it.least = 1 /\ it.many = FALSE
               /\ Class(t, p, b).admits = Fits(it, b, FALSE)
    BY <1>7, ClassReadIs
  <2>2. \A k \in 1..(m + 1) : MatchFrom(t, s, f, p, k)
          <=> /\ k <= m /\ Class(t, p, s[k]).admits
              /\ Goes(t, s, f, Class(t, p, s[k]).close + 1, k)
    BY <1>7, MatchFromAt
  <2>3. \A k \in 1..(m + 1) : MatchFrom(t, s, f, p, k)
          <=> k <= m /\ Fits(it, s[k], FALSE) /\ Goes(t, s, f, q, k)
    BY <2>1, <2>2
  <2>. QED
    BY <1>4, <1>5, <2>1, <2>3 DEF f
<1>8. CASE EscapeAt(t, p) /\ q = p + 2 /\ it = One({t[p + 1]})
  <2>1. it.least = 1 /\ it.many = FALSE /\ it.bytes = {t[p + 1]} /\ it.negate = FALSE
    BY <1>8 DEF One, OneOf
  <2>2. \A b : Fits(it, b, FALSE) <=> t[p + 1] = b
    BY <2>1 DEF Fits
  <2>3. q \in (p + 1)..PastEnd(t) /\ q = p + 1 + 1
    BY <1>0, <1>8 DEF EscapeAt
  <2>4. \A k \in 1..(m + 1) :
          MatchFrom(t, s, f, p, k) <=> k <= m /\ t[p + 1] = s[k] /\ Goes(t, s, f, q, k)
    <3>. TAKE k \in 1..(m + 1)
    <3>1. MatchFrom(t, s, f, p, k)
            <=> k <= Len(s) /\ t[p + 1] = s[k] /\ Goes(t, s, f, p + 1 + 1, k)
      BY <1>8, MatchFromAt, Zenon
    <3>. QED
      BY <2>3, <3>1, Zenon
  <2>. QED
    BY <1>4, <1>5, <2>1, <2>2, <2>3, <2>4 DEF f
<1>9. CASE /\ t[p] \notin {Asterisk, Question, OpenBracket} /\ ~EscapeAt(t, p)
           /\ q = p + 1 /\ it = One({t[p]})
  <2>1. it.least = 1 /\ it.many = FALSE /\ it.bytes = {t[p]} /\ it.negate = FALSE
    BY <1>9 DEF One, OneOf
  <2>2. \A b : Fits(it, b, FALSE) <=> t[p] = b
    BY <2>1 DEF Fits
  <2>3. q \in (p + 1)..PastEnd(t)
    BY <1>0, <1>9
  <2>4. \A k \in 1..(m + 1) :
          MatchFrom(t, s, f, p, k) <=> k <= m /\ t[p] = s[k] /\ Goes(t, s, f, q, k)
    <3>. TAKE k \in 1..(m + 1)
    <3>1. MatchFrom(t, s, f, p, k) <=> k <= Len(s) /\ t[p] = s[k] /\ Goes(t, s, f, p + 1, k)
      BY <1>9, MatchFromAt, Zenon
    <3>. QED
      BY <1>9, <3>1, Zenon
  <2>. QED
    BY <1>4, <1>5, <2>1, <2>2, <2>3, <2>4 DEF f
<1>. QED
  BY <1>3, <1>6, <1>7, <1>8, <1>9 DEF PieceReads

-----------------------------------------------------------------------------
(* Whole patterns.                                                          *)

\* Items stand for s if each covers the run that the cut gives it.
LEMMA SpellsIs ==
  ASSUME NEW s \in Seq(Byte), NEW items \in Seq(Item)
  PROVE  Spells(items, s, FALSE) <=>
           \E cut \in [0..Len(items) -> 0..Len(s)] :
             /\ cut[0] = 0 /\ cut[Len(items)] = Len(s)
             /\ \A i \in 1..Len(items) : Covers(items[i], s, cut[i-1] + 1, cut[i] + 1)
<1>1. ASSUME NEW cut \in [0..Len(items) -> 0..Len(s)], NEW i \in 1..Len(items)
      PROVE  Covers(items[i], s, cut[i-1] + 1, cut[i] + 1)
               <=> /\ cut[i] - cut[i-1] >= items[i].least
                   /\ items[i].many \/ cut[i] - cut[i-1] <= 1
                   /\ \A j \in (cut[i-1] + 1)..cut[i] : Fits(items[i], s[j], FALSE)
  <2>1. cut[i] \in 0..Len(s) /\ cut[i-1] \in 0..Len(s)
    BY <1>1
  <2>2. (cut[i] + 1) - (cut[i-1] + 1) = cut[i] - cut[i-1] /\ (cut[i] + 1) - 1 = cut[i]
    <3>1. \A x, y \in 0..Len(s) : (x + 1) - (y + 1) = x - y /\ (x + 1) - 1 = x
      OBVIOUS
    <3>. QED
      BY <2>1, <3>1, Zenon
  <2>. QED
    BY <2>2, Zenon DEF Covers
<1>. QED
  BY <1>1, Zenon DEF Spells

\* Behind its end a pattern matches the end of the key only.
LEMMA BehindTheEnd ==
  ASSUME NEW t \in Seq(Byte), NEW s \in Seq(Byte), NEW k \in 1..(Len(s) + 1)
  PROVE  Matcher(t, s)[Len(t) + 1][k] <=> k = Len(s) + 1
<1>1. Len(t) + 1 \in 1..PastEnd(t) /\ Len(t) + 1 > Len(t) /\ ~(Len(t) + 1 <= Len(t))
      /\ ~(Len(t) + 1 < Len(t)) /\ (k > Len(s) <=> k = Len(s) + 1)
  BY DEF PastEnd
<1>2. Matcher(t, s)[Len(t) + 1][k] = MatchFrom(t, s, Matcher(t, s), Len(t) + 1, k)
  BY <1>1, MatcherIs
<1>3. MatchFrom(t, s, Matcher(t, s), Len(t) + 1, k) <=> k > Len(s)
  BY <1>1, Zenon DEF MatchFrom
<1>. QED
  BY <1>1, <1>2, <1>3

\* A glob matches the keys that its items stand for.
LEMMA GlobIs ==
  ASSUME NEW t \in Seq(Byte), NEW s \in Seq(Byte), NEW items \in Seq(Item), GlobReads(t, items)
  PROVE  globMatch(t, s) <=> Spells(items, s, FALSE)
<1>. DEFINE n == Len(t)
            m == Len(s)
            L == Len(items)
            f == Matcher(t, s)
<1>1. n \in Nat /\ m \in Nat /\ L \in Nat /\ PastEnd(t) = n + 1
  BY DEF PastEnd
<1>2. PICK at \in [0..L -> 1..(n + 1)] :
        /\ at[0] = 1 /\ at[L] = n + 1
        /\ \A i \in 1..L : at[i-1] <= n /\ PieceReads(t, at[i-1], at[i], items[i])
  BY Zenon DEF GlobReads
<1>. DEFINE Cut(i, cut) ==
              cut[0] = 0 /\ \A j \in 1..i : Covers(items[j], s, cut[j-1] + 1, cut[j] + 1)
<1>3. ASSUME NEW i \in 1..L
      PROVE  /\ items[i].least \in Nat
             /\ \A k \in 1..(m + 1) :
                  f[at[i-1]][k] <=> \E l \in k..(m + 1) : Covers(items[i], s, k, l) /\ f[at[i]][l]
  <2>1. at[i-1] \in 1..n /\ PieceReads(t, at[i-1], at[i], items[i])
    <3>1. i - 1 \in 0..L
      BY <1>1
    <3>2. at[i-1] \in 1..(n + 1)
      BY <1>2, <3>1
    <3>. QED
      BY <1>1, <1>2, <3>2
  <2>. DEFINE p == at[i-1]
              q == at[i]
              it == items[i]
  <2>2. p \in 1..Len(t) /\ PieceReads(t, p, q, it)
    BY <2>1
  <2>3. /\ it.least \in Nat
        /\ \A k \in 1..(Len(s) + 1) :
             Matcher(t, s)[p][k]
               <=> \E l \in k..(Len(s) + 1) : Covers(it, s, k, l) /\ Matcher(t, s)[q][l]
    <3>. HIDE DEF p, q, it
    <3>. QED
      BY <2>2, PieceIs
  <2>. QED
    BY <2>3, Zenon
<1>4. \A k \in 1..(m + 1) : f[n + 1][k] <=> k = m + 1
  BY BehindTheEnd
<1>5. globMatch(t, s) = f[1][1]
  BY GlobMatchIs
<1>. HIDE DEF f
<1>6. ASSUME f[1][1] PROVE Spells(items, s, FALSE)
  <2>. DEFINE Got(i) == \E cut \in [0..i -> 0..m] : Cut(i, cut) /\ f[at[i]][cut[i] + 1]
              T == {i \in Nat : i <= L => Got(i)}
  <2>1. 0 \in T
    <3>. DEFINE cut == [j \in 0..0 |-> 0]
    <3>1. cut \in [0..0 -> 0..m] /\ cut[0] = 0 /\ cut[0] + 1 = 1
      BY <1>1
    <3>2. 1..0 = {}
      OBVIOUS
    <3>. HIDE DEF cut
    <3>3. Got(0)
      BY <1>2, <1>6, <3>1, <3>2, Zenon
    <3>. QED
      BY <3>3
  <2>2. ASSUME NEW i \in T PROVE i + 1 \in T
    <3>0. i \in Nat /\ i + 1 \in Nat /\ (i <= L => Got(i))
      <4>. HIDE DEF Got
      <4>. QED
        OBVIOUS
    <3>. SUFFICES ASSUME i + 1 <= L PROVE Got(i + 1)
      <4>. HIDE DEF Got
      <4>. QED
        BY <3>0
    <3>1. i \in Nat /\ i + 1 \in 1..L /\ (i + 1) - 1 = i /\ i <= L
      BY <1>1, <3>0
    <3>2. PICK cut \in [0..i -> 0..m] : Cut(i, cut) /\ f[at[i]][cut[i] + 1]
      BY <3>0, <3>1, Zenon
    <3>3. cut[i] \in 0..m /\ cut[i] + 1 \in 1..(m + 1)
      BY <1>1, <3>1
    <3>4. PICK l \in (cut[i] + 1)..(m + 1) :
            Covers(items[i + 1], s, cut[i] + 1, l) /\ f[at[i + 1]][l]
      <4>1. \A k \in 1..(m + 1) :
              f[at[i]][k] <=> \E l \in k..(m + 1) : Covers(items[i + 1], s, k, l) /\ f[at[i + 1]][l]
        <5>. DEFINE j == i + 1
        <5>1. j \in 1..L /\ j - 1 = i
          BY <3>1
        <5>2. \A k \in 1..(m + 1) :
                f[at[j - 1]][k] <=> \E l \in k..(m + 1) : Covers(items[j], s, k, l) /\ f[at[j]][l]
          <6>. HIDE DEF j
          <6>. QED
            BY <1>3, <5>1
        <5>. QED
          BY <5>1, <5>2, Zenon
      <4>. QED
        BY <3>2, <3>3, <4>1, Zenon
    <3>5. l - 1 \in 0..m /\ (l - 1) + 1 = l
      BY <1>1, <3>3
    <3>. DEFINE new == [j \in 0..(i + 1) |-> IF j <= i THEN cut[j] ELSE l - 1]
    <3>6. /\ new \in [0..(i + 1) -> 0..m] /\ new[i + 1] = l - 1
          /\ \A j \in 0..i : new[j] = cut[j]
      BY <3>1, <3>5
    <3>. HIDE DEF new
    <3>7. Cut(i + 1, new)
      <4>1. new[0] = 0
        <5>1. 0 \in 0..i
          BY <3>1
        <5>. QED
          BY <3>2, <3>6, <5>1
      <4>2. ASSUME NEW j \in 1..(i + 1) PROVE Covers(items[j], s, new[j-1] + 1, new[j] + 1)
        <5>1. CASE j = i + 1
          <6>1. i \in 0..i
            BY <3>1
          <6>. QED
            BY <3>1, <3>4, <3>5, <3>6, <5>1, <6>1, Zenon
        <5>2. CASE j # i + 1
          <6>1. j \in 1..i /\ j \in 0..i /\ j - 1 \in 0..i
            BY <3>1, <5>2
          <6>. QED
            BY <3>2, <3>6, <6>1, Zenon
        <5>. QED
          BY <5>1, <5>2
      <4>. QED
        BY <4>1, <4>2, Zenon
    <3>8. f[at[i + 1]][new[i + 1] + 1]
      BY <3>4, <3>5, <3>6
    <3>. QED
      BY <3>6, <3>7, <3>8, Zenon
  <2>3. Got(L)
    <3>1. T \subseteq Nat
      OBVIOUS
    <3>2. L \in T
      <4>. HIDE DEF T
      <4>. QED
        BY <1>1, <2>1, <2>2, <3>1, Numbers
    <3>. QED
      BY <1>1, <3>2
  <2>4. PICK cut \in [0..L -> 0..m] : Cut(L, cut) /\ f[at[L]][cut[L] + 1]
    BY <2>3, Zenon
  <2>5. cut[L] = m
    <3>1. cut[L] \in 0..m /\ cut[L] + 1 \in 1..(m + 1)
      BY <1>1
    <3>2. cut[L] + 1 = m + 1
      BY <1>2, <1>4, <2>4, <3>1
    <3>. QED
      BY <1>1, <3>1, <3>2
  <2>. QED
    BY <2>4, <2>5, SpellsIs, Zenon
<1>7. ASSUME Spells(items, s, FALSE) PROVE f[1][1]
  <2>1. PICK cut \in [0..L -> 0..m] : Cut(L, cut) /\ cut[L] = m
    BY <1>7, SpellsIs, Zenon
  <2>. DEFINE S == {p \in 1..(L + 1) : f[at[p-1]][cut[p-1] + 1]}
  <2>2. ASSUME NEW p \in 1..(L + 1), \A q \in (p + 1)..(L + 1) : q \in S
        PROVE  p \in S
    <3>1. CASE p = L + 1
      <4>1. p - 1 = L /\ m + 1 \in 1..(m + 1)
        BY <1>1, <3>1
      <4>2. f[at[p-1]][cut[p-1] + 1]
        BY <1>2, <1>4, <2>1, <4>1, Zenon
      <4>. QED
        BY <4>2
    <3>2. CASE p # L + 1
      <4>1. p \in 1..L /\ p + 1 \in (p + 1)..(L + 1) /\ (p + 1) - 1 = p /\ p \in 0..L /\ p - 1 \in 0..L
        BY <1>1, <3>2
      <4>2. f[at[p]][cut[p] + 1]
        <5>1. p + 1 \in S
          BY <2>2, <4>1
        <5>. QED
          BY <4>1, <5>1
      <4>3. Covers(items[p], s, cut[p-1] + 1, cut[p] + 1)
        BY <2>1, <4>1, Zenon
      <4>4. cut[p] \in 0..m /\ cut[p-1] \in 0..m
        BY <4>1
      <4>5. cut[p-1] + 1 \in 1..(m + 1) /\ cut[p] + 1 \in (cut[p-1] + 1)..(m + 1)
        <5>1. (cut[p] + 1) - (cut[p-1] + 1) >= items[p].least
          BY <4>3, Zenon DEF Covers
        <5>. QED
          BY <1>1, <1>3, <4>1, <4>4, <5>1
      <4>6. f[at[p-1]][cut[p-1] + 1]
        <5>1. \A k \in 1..(m + 1) :
                f[at[p-1]][k] <=> \E l \in k..(m + 1) : Covers(items[p], s, k, l) /\ f[at[p]][l]
          BY <1>3, <4>1
        <5>. QED
          BY <4>2, <4>3, <4>5, <5>1, Zenon
      <4>. QED
        BY <4>6
    <3>. QED
      BY <3>1, <3>2
  <2>3. \A p \in 1..(L + 1) : p \in S
    <3>1. L + 1 \in Nat
      BY <1>1
    <3>. HIDE DEF S
    <3>. QED
      BY <2>2, <3>1, Downwards
  <2>4. 1 \in 1..(L + 1) /\ 1 - 1 = 0
    BY <1>1
  <2>5. f[at[0]][cut[0] + 1]
    BY <2>3, <2>4
  <2>6. cut[0] + 1 = 1
    BY <2>1
  <2>. QED
    BY <1>2, <2>5, <2>6
<1>. QED
  BY <1>5, <1>6, <1>7

\* A glob is about the whole key.
LEMMA WholeKey ==
  ASSUME NEW a \in Alternative, a.fromStart, a.toEnd, NEW s \in Seq(Byte), NEW fold
  PROVE  Finds({a}, s, fold) <=> Spells(a.items, s, fold)
<1>1. Len(s) \in Nat /\ 0 \in 0..Len(s) /\ Len(s) \in 0..Len(s) /\ SubSeq(s, 0 + 1, Len(s)) = s
  BY DEF Byte
<1>. QED
  BY <1>1, Zenon DEF Finds

-----------------------------------------------------------------------------
(* Case.                                                                    *)

Lowered(it) == [it EXCEPT !.bytes = {Lower(x) : x \in @}]
AllLowered(items) == [i \in DOMAIN items |-> Lowered(items[i])]

\* Folding an item folds its bytes.
LEMMA LoweredItem ==
  ASSUME NEW bytes, NEW negate, NEW least, NEW many
  PROVE  Lowered([bytes |-> bytes, negate |-> negate, least |-> least, many |-> many]) =
           [bytes |-> {Lower(x) : x \in bytes}, negate |-> negate, least |-> least, many |-> many]
BY DEF Lowered

LEMMA LoweredIs ==
  ASSUME NEW bytes, NEW negate
  PROVE  Lowered(OneOf(bytes, negate)) = OneOf({Lower(x) : x \in bytes}, negate)
BY LoweredItem, Zenon DEF OneOf

LEMMA LoweredPieces ==
  /\ Lowered(AnyRun) = AnyRun /\ Lowered(AnyByte) = AnyByte
  /\ \A b : Lowered(One({b})) = One({Lower(b)})
<1>1. {Lower(x) : x \in {}} = {}
  OBVIOUS
<1>2. Lowered(AnyRun) = AnyRun
  BY <1>1, LoweredItem, Zenon DEF AnyRun
<1>3. Lowered(AnyByte) = AnyByte
  BY <1>1, LoweredIs, Zenon DEF AnyByte
<1>4. ASSUME NEW b PROVE Lowered(One({b})) = One({Lower(b)})
  <2>1. {Lower(x) : x \in {b}} = {Lower(b)}
    OBVIOUS
  <2>. QED
    BY <2>1, LoweredIs, Zenon DEF One
<1>. QED
  BY <1>2, <1>3, <1>4

\* Folding leaves alone what means something in a glob.
LEMMA LowerIs ==
  ASSUME NEW b \in Byte
  PROVE  /\ Lower(b) \in Byte
         /\ \A c \in {Asterisk, Question, OpenBracket, CloseBracket, Backslash, Caret, Dash} :
              Lower(b) = c <=> b = c
BY DEF Lower, Byte, Asterisk, Question, OpenBracket, CloseBracket, Backslash, Caret, Dash

\* The folded item fits the folded bytes that the item fits when case is ignored.
LEMMA FoldFits ==
  ASSUME NEW it \in Item, NEW b
  PROVE  /\ Fits(Lowered(it), Lower(b), FALSE) = Fits(it, b, TRUE)
         /\ Lowered(it) \in Item
         /\ Lowered(it).least = it.least /\ Lowered(it).many = it.many
<1>1. /\ Lowered(it).bytes = {Lower(x) : x \in it.bytes} /\ Lowered(it).negate = it.negate
      /\ Lowered(it).least = it.least /\ Lowered(it).many = it.many
  BY DEF Lowered, Item
<1>2. Lowered(it) \in Item
  <2>1. {Lower(x) : x \in it.bytes} \in SUBSET (0..255)
    <3>1. \A x \in Byte : Lower(x) \in Byte
      BY LowerIs
    <3>2. it.bytes \subseteq Byte
      BY DEF Item, Byte
    <3>. QED
      BY <3>1, <3>2 DEF Byte
  <2>. QED
    BY <2>1 DEF Lowered, Item
<1>3. (\E x \in Lowered(it).bytes : x = Lower(b)) <=> \E x \in it.bytes : Lower(x) = Lower(b)
  BY <1>1, Zenon
<1>4. Fits(Lowered(it), Lower(b), FALSE) = Fits(it, b, TRUE)
  BY <1>1, <1>3, Zenon DEF Fits
<1>. QED
  BY <1>1, <1>2, <1>4

\* A folded sequence has the length of the sequence, and its bytes folded.
LEMMA FoldIs ==
  ASSUME NEW s \in Seq(Byte)
  PROVE  /\ ToLower(s) \in Seq(Byte) /\ Len(ToLower(s)) = Len(s)
         /\ \A i \in 1..Len(s) : ToLower(s)[i] = Lower(s[i])
<1>1. DOMAIN s = 1..Len(s) /\ Len(s) \in Nat /\ \A i \in 1..Len(s) : s[i] \in Byte
  OBVIOUS
<1>2. \A i \in 1..Len(s) : Lower(s[i]) \in Byte
  BY <1>1, LowerIs
<1>3. ToLower(s) = [i \in 1..Len(s) |-> Lower(s[i])]
  BY <1>1, Zenon DEF ToLower
<1>. QED
  BY <1>1, <1>2, <1>3

\* So folded items stand for the folded keys that the items stand for.
LEMMA FoldSpells ==
  ASSUME NEW items \in Seq(Item), NEW s \in Seq(Byte)
  PROVE  Spells(AllLowered(items), ToLower(s), FALSE) <=> Spells(items, s, TRUE)
<1>1. /\ Len(ToLower(s)) = Len(s)
      /\ \A i \in 1..Len(s) : ToLower(s)[i] = Lower(s[i])
  BY FoldIs
<1>2. Len(items) \in Nat /\ \A i \in 1..Len(items) : items[i] \in Item
  OBVIOUS
<1>3. /\ Len(AllLowered(items)) = Len(items)
      /\ \A i \in 1..Len(items) : AllLowered(items)[i] = Lowered(items[i])
  BY DEF AllLowered
<1>4. ASSUME NEW cut \in [0..Len(items) -> 0..Len(s)], NEW i \in 1..Len(items),
             NEW j \in (cut[i-1] + 1)..cut[i]
      PROVE  Fits(AllLowered(items)[i], ToLower(s)[j], FALSE) = Fits(items[i], s[j], TRUE)
  <2>1. cut[i] \in 0..Len(s) /\ cut[i-1] \in 0..Len(s)
    BY <1>2
  <2>2. j \in 1..Len(s)
    BY <2>1
  <2>3. Fits(Lowered(items[i]), Lower(s[j]), FALSE) = Fits(items[i], s[j], TRUE)
    BY <1>2, FoldFits
  <2>. QED
    BY <1>1, <1>3, <2>2, <2>3, Zenon
<1>5. \A i \in 1..Len(items) :
        AllLowered(items)[i].least = items[i].least /\ AllLowered(items)[i].many = items[i].many
  <2>1. \A i \in 1..Len(items) :
          Lowered(items[i]).least = items[i].least /\ Lowered(items[i]).many = items[i].many
    BY <1>2, FoldFits
  <2>. QED
    BY <1>3, <2>1, Zenon
<1>6. ASSUME NEW cut \in [0..Len(items) -> 0..Len(s)], NEW i \in 1..Len(items)
      PROVE  (/\ cut[i] - cut[i-1] >= AllLowered(items)[i].least
              /\ AllLowered(items)[i].many \/ cut[i] - cut[i-1] <= 1
              /\ \A j \in (cut[i-1] + 1)..cut[i] : Fits(AllLowered(items)[i], ToLower(s)[j], FALSE))
             <=> (/\ cut[i] - cut[i-1] >= items[i].least
                  /\ items[i].many \/ cut[i] - cut[i-1] <= 1
                  /\ \A j \in (cut[i-1] + 1)..cut[i] : Fits(items[i], s[j], TRUE))
  <2>1. (\A j \in (cut[i-1] + 1)..cut[i] : Fits(AllLowered(items)[i], ToLower(s)[j], FALSE))
          <=> \A j \in (cut[i-1] + 1)..cut[i] : Fits(items[i], s[j], TRUE)
    BY <1>4
  <2>2. AllLowered(items)[i].least = items[i].least /\ AllLowered(items)[i].many = items[i].many
    BY <1>5
  <2>. QED
    BY <2>1, <2>2, Zenon
<1>7. ASSUME NEW cut \in [0..Len(items) -> 0..Len(s)]
      PROVE  (\A i \in 1..Len(items) :
                /\ cut[i] - cut[i-1] >= AllLowered(items)[i].least
                /\ AllLowered(items)[i].many \/ cut[i] - cut[i-1] <= 1
                /\ \A j \in (cut[i-1] + 1)..cut[i] : Fits(AllLowered(items)[i], ToLower(s)[j], FALSE))
             <=> \A i \in 1..Len(items) :
                   /\ cut[i] - cut[i-1] >= items[i].least
                   /\ items[i].many \/ cut[i] - cut[i-1] <= 1
                   /\ \A j \in (cut[i-1] + 1)..cut[i] : Fits(items[i], s[j], TRUE)
  BY <1>6, Zenon
<1>. QED
  BY <1>1, <1>3, <1>7, Zenon DEF Spells

\* Folding a glob moves no element of a class.
LEMMA FoldElements ==
  ASSUME NEW t \in Seq(Byte), NEW e \in 1..Len(t)
  PROVE  /\ RangeAt(ToLower(t), e) <=> RangeAt(t, e)
         /\ EscapeAt(ToLower(t), e) <=> EscapeAt(t, e)
         /\ Behind(ToLower(t), e) = Behind(t, e)
<1>. DEFINE u == ToLower(t)
<1>1. Len(u) = Len(t) /\ \A i \in 1..Len(t) : u[i] = Lower(t[i]) /\ t[i] \in Byte
  BY FoldIs
<1>2. \A i \in 1..Len(t) :
        \A c \in {Asterisk, Question, OpenBracket, CloseBracket, Backslash, Caret, Dash} :
          u[i] = c <=> t[i] = c
  BY <1>1, LowerIs
<1>. HIDE DEF u
<1>3. EscapeAt(u, e) <=> EscapeAt(t, e)
  BY <1>1, <1>2 DEF EscapeAt
<1>4. RangeAt(u, e) <=> RangeAt(t, e)
  <2>1. CASE e + 2 <= Len(t)
    <3>1. e \in 1..Len(t) /\ e + 1 \in 1..Len(t) /\ e + 2 \in 1..Len(t)
      BY <2>1
    <3>. QED
      BY <1>1, <1>2, <3>1 DEF RangeAt
  <2>2. CASE ~(e + 2 <= Len(t))
    BY <1>1, <2>2 DEF RangeAt
  <2>. QED
    BY <2>1, <2>2
<1>. QED
  BY <1>3, <1>4, Zenon DEF Behind, u

\* A range is folded if it is all capital letters or has none.
LEMMA FoldRange ==
  ASSUME NEW x \in Byte, NEW y \in Byte,
         Between(x, y) \cap Capital = {} \/ Between(x, y) \subseteq Capital
  PROVE  Between(Lower(x), Lower(y)) = {Lower(z) : z \in Between(x, y)}
<1>1. x \in Between(x, y) /\ y \in Between(x, y)
  BY DEF Between, Byte
<1>2. CASE Between(x, y) \cap Capital = {}
  <2>1. \A z \in Between(x, y) : Lower(z) = z
    BY <1>2 DEF Lower, Capital
  <2>. QED
    BY <1>1, <2>1
<1>3. CASE Between(x, y) \subseteq Capital
  <2>1. \A z \in Between(x, y) : z \in Capital /\ Lower(z) = z + 32
    BY <1>3 DEF Lower, Capital
  <2>2. Lower(x) = x + 32 /\ Lower(y) = y + 32
    BY <1>1, <2>1
  <2>3. Between(x + 32, y + 32) = {z + 32 : z \in Between(x, y)}
    <3>1. ASSUME NEW w \in Between(x + 32, y + 32)
          PROVE  \E z \in Between(x, y) : w = z + 32
      <4>1. w - 32 \in Between(x, y) /\ w = (w - 32) + 32
        BY <3>1 DEF Between, Byte
      <4>. QED
        BY <4>1, Zenon
    <3>2. ASSUME NEW z \in Between(x, y) PROVE z + 32 \in Between(x + 32, y + 32)
      BY <3>2 DEF Between, Byte
    <3>. QED
      BY <3>1, <3>2
  <2>4. {z + 32 : z \in Between(x, y)} = {Lower(z) : z \in Between(x, y)}
    BY <2>1
  <2>. QED
    BY <2>2, <2>3, <2>4
<1>. QED
  BY <1>2, <1>3

\* So an element is folded, unless it is a range that folding skews.
LEMMA FoldBytes ==
  ASSUME NEW t \in Seq(Byte), NEW e \in 1..Len(t),
         RangeAt(t, e) => BytesAt(t, e) \cap Capital = {} \/ BytesAt(t, e) \subseteq Capital
  PROVE  BytesAt(ToLower(t), e) = {Lower(x) : x \in BytesAt(t, e)}
<1>. DEFINE u == ToLower(t)
<1>1. \A i \in 1..Len(t) : u[i] = Lower(t[i]) /\ t[i] \in Byte
  BY FoldIs
<1>2. (RangeAt(u, e) <=> RangeAt(t, e)) /\ (EscapeAt(u, e) <=> EscapeAt(t, e))
  BY FoldElements
<1>. HIDE DEF u
<1>3. CASE RangeAt(t, e)
  <2>1. e + 2 \in 1..Len(t)
    BY <1>3 DEF RangeAt
  <2>2. BytesAt(t, e) = Between(t[e], t[e + 2]) /\ BytesAt(u, e) = Between(u[e], u[e + 2])
    BY <1>2, <1>3 DEF BytesAt
  <2>3. Between(Lower(t[e]), Lower(t[e + 2])) = {Lower(z) : z \in Between(t[e], t[e + 2])}
    BY <1>1, <1>3, <2>1, <2>2, FoldRange
  <2>. QED
    BY <1>1, <2>1, <2>2, <2>3, Zenon DEF u
<1>4. CASE ~RangeAt(t, e) /\ EscapeAt(t, e)
  <2>1. e + 1 \in 1..Len(t)
    BY <1>4 DEF EscapeAt
  <2>2. BytesAt(t, e) = {t[e + 1]} /\ BytesAt(u, e) = {u[e + 1]}
    BY <1>2, <1>4 DEF BytesAt
  <2>. QED
    BY <1>1, <2>1, <2>2 DEF u
<1>5. CASE ~RangeAt(t, e) /\ ~EscapeAt(t, e)
  <2>1. BytesAt(t, e) = {t[e]} /\ BytesAt(u, e) = {u[e]}
    BY <1>2, <1>5 DEF BytesAt
  <2>. QED
    BY <1>1, <2>1 DEF u
<1>. QED
  BY <1>3, <1>4, <1>5

\* A folded class admits the folded bytes.
LEMMA FoldClass ==
  ASSUME NEW t \in Seq(Byte), NEW p \in 1..Len(t), NEW q, NEW it,
         ~Skewed(t), t[p] = OpenBracket, ClassReads(t, p, q, it)
  PROVE  ClassReads(ToLower(t), p, q, Lowered(it))
<1>. DEFINE n == Len(t)
            u == ToLower(t)
            negate == p < n /\ t[p + 1] = Caret
            first == IF negate THEN p + 2 ELSE p + 1
            Marks(v, starts, last) ==
              /\ first \in starts /\ last \in starts
              /\ \A e \in starts \ {last} :
                   /\ v[e] # CloseBracket /\ Behind(v, e) \in starts
                   /\ starts \cap (e + 1)..(Behind(v, e) - 1) = {}
              /\ \/ last <= n /\ v[last] = CloseBracket /\ q = last + 1
                 \/ last = n + 1 /\ q = last
            Says(v, starts, last) == UNION {BytesAt(v, e) : e \in starts \ {last}}
<1>1. PICK last \in first..(n + 1) : \E starts \in SUBSET (first..last) :
        Marks(t, starts, last) /\ it = OneOf(Says(t, starts, last), negate)
  BY Zenon DEF ClassReads
<1>2. PICK starts \in SUBSET (first..last) :
        Marks(t, starts, last) /\ it = OneOf(Says(t, starts, last), negate)
  BY <1>1, Zenon
<1>3. /\ Len(u) = n /\ n \in Nat
      /\ \A i \in 1..n : \A c \in {CloseBracket, Caret} : u[i] = c <=> t[i] = c
  <2>1. \A i \in 1..n : t[i] \in Byte /\ u[i] = Lower(t[i])
    BY FoldIs
  <2>. QED
    BY <2>1, FoldIs, LowerIs
<1>4. negate <=> p < Len(u) /\ u[p + 1] = Caret
  <2>1. p < n => p + 1 \in 1..n
    BY <1>3
  <2>. QED
    BY <1>3, <2>1
<1>5. ASSUME NEW e \in starts \ {last}
      PROVE  /\ e \in 1..n /\ Behind(u, e) = Behind(t, e)
             /\ BytesAt(u, e) = {Lower(x) : x \in BytesAt(t, e)}
  <2>1. e \in (p + 1)..n /\ e \in 1..n
    BY <1>3
  <2>2. RangeAt(t, e) => BytesAt(t, e) \cap Capital = {} \/ BytesAt(t, e) \subseteq Capital
    <3>1. p \in DOMAIN t /\ e \in (p + 1)..Len(t)
      BY <2>1
    <3>. QED
      BY <3>1, Zenon DEF Skewed
  <2>. QED
    BY <2>1, <2>2, FoldBytes, FoldElements
<1>6. Marks(u, starts, last)
  <2>1. last <= n => last \in 1..n
    BY <1>3
  <2>. HIDE DEF first, u
  <2>. QED
    BY <1>2, <1>3, <1>5, <2>1
<1>7. Says(u, starts, last) = {Lower(x) : x \in Says(t, starts, last)}
  <2>. HIDE DEF first, u
  <2>. QED
    BY <1>5
<1>8. Lowered(it) = OneOf(Says(u, starts, last), negate)
  <2>. DEFINE B == Says(t, starts, last)
              C == Says(u, starts, last)
  <2>1. it = OneOf(B, negate) /\ C = {Lower(x) : x \in B}
    BY <1>2, <1>7
  <2>. HIDE DEF B, C, negate
  <2>2. Lowered(it) = OneOf(C, negate)
    BY <2>1, LoweredIs, Zenon
  <2>. QED
    BY <2>2 DEF C
<1>9. /\ first = (IF p < Len(u) /\ u[p + 1] = Caret THEN p + 2 ELSE p + 1)
      /\ negate = (p < Len(u) /\ u[p + 1] = Caret)
  BY <1>4
<1>. HIDE DEF u, first, negate
<1>. QED
  BY <1>2, <1>3, <1>6, <1>8, <1>9, Zenon DEF ClassReads, u

\* So a glob, folded, says its items, folded.
LEMMA FoldReads ==
  ASSUME NEW t \in Seq(Byte), ~Skewed(t), NEW items \in Seq(Item), GlobReads(t, items)
  PROVE  GlobReads(ToLower(t), AllLowered(items)) /\ AllLowered(items) \in Seq(Item)
<1>. DEFINE n == Len(t)
            u == ToLower(t)
            L == Len(items)
<1>1. /\ Len(u) = n /\ n \in Nat /\ L \in Nat
      /\ \A i \in 1..n : t[i] \in Byte /\ u[i] = Lower(t[i])
  BY FoldIs
<1>2. \A i \in 1..n : \A c \in {Asterisk, Question, OpenBracket} : u[i] = c <=> t[i] = c
  BY <1>1, LowerIs
<1>3. ASSUME NEW p \in 1..n, NEW q, NEW it, PieceReads(t, p, q, it)
      PROVE  PieceReads(u, p, q, Lowered(it))
  <2>1. EscapeAt(u, p) <=> EscapeAt(t, p)
    BY FoldElements
  <2>2. /\ Lowered(AnyRun) = AnyRun /\ Lowered(AnyByte) = AnyByte
        /\ \A b : Lowered(One({b})) = One({Lower(b)})
    BY LoweredPieces
  <2>4. t[p] = OpenBracket /\ ClassReads(t, p, q, it) => ClassReads(u, p, q, Lowered(it))
    BY FoldClass
  <2>5. EscapeAt(t, p) => p + 1 \in 1..n
    BY DEF EscapeAt
  <2>. HIDE DEF u
  <2>. QED
    BY <1>1, <1>2, <1>3, <2>1, <2>2, <2>4, <2>5 DEF PieceReads
<1>4. /\ AllLowered(items) \in Seq(Item) /\ Len(AllLowered(items)) = L
      /\ \A i \in 1..L : AllLowered(items)[i] = Lowered(items[i])
  <2>1. \A i \in 1..L : items[i] \in Item
    OBVIOUS
  <2>2. \A i \in 1..L : Lowered(items[i]) \in Item
    BY <2>1, FoldFits
  <2>. QED
    BY <1>1, <2>2 DEF AllLowered
<1>5. PICK at \in [0..L -> 1..(n + 1)] :
        /\ at[0] = 1 /\ at[L] = n + 1
        /\ \A i \in 1..L : at[i-1] <= n /\ PieceReads(t, at[i-1], at[i], items[i])
  BY Zenon DEF GlobReads
<1>6. ASSUME NEW i \in 1..L PROVE PieceReads(u, at[i-1], at[i], AllLowered(items)[i])
  <2>1. at[i-1] \in 1..(n + 1)
    <3>1. i - 1 \in 0..L
      BY <1>1
    <3>. QED
      BY <1>5, <3>1
  <2>2. at[i-1] \in 1..n /\ PieceReads(t, at[i-1], at[i], items[i])
    BY <1>1, <1>5, <2>1
  <2>. QED
    BY <1>3, <1>4, <2>2, Zenon
<1>. QED
  BY <1>1, <1>4, <1>5, <1>6, Zenon DEF GlobReads

-----------------------------------------------------------------------------
(* Substrings.                                                              *)

Letters(text) == [i \in DOMAIN text |-> One({text[i]})]
Folded(fold, s) == IF fold THEN ToLower(s) ELSE s

\* The letters of a word stand for the word alone.
LEMMA LettersSpell ==
  ASSUME NEW text \in Seq(Byte), NEW s \in Seq(Byte), NEW fold \in BOOLEAN
  PROVE  Spells(Letters(text), s, fold) <=> Folded(fold, s) = Folded(fold, text)
<1>. DEFINE L == Len(text)
            m == Len(s)
            items == Letters(text)
            Same(x, y) == IF fold THEN Lower(x) = Lower(y) ELSE x = y
<1>1. L \in Nat /\ m \in Nat /\ DOMAIN text = 1..L /\ Len(items) = L
  BY DEF Letters
<1>2. ASSUME NEW i \in 1..L
      PROVE  /\ items[i].least = 1 /\ items[i].many = FALSE
             /\ \A b : Fits(items[i], b, fold) <=> Same(text[i], b)
  <2>1. items[i] = One({text[i]})
    BY <1>1 DEF Letters
  <2>2. /\ items[i].least = 1 /\ items[i].many = FALSE /\ items[i].bytes = {text[i]}
        /\ items[i].negate = FALSE
    BY <2>1 DEF One, OneOf
  <2>. HIDE DEF items
  <2>. QED
    BY <2>2 DEF Fits
<1>3. Folded(fold, s) = Folded(fold, text) <=> m = L /\ \A i \in 1..L : Same(text[i], s[i])
  <2>1. CASE fold
    <3>1. /\ ToLower(s) \in Seq(Byte) /\ Len(ToLower(s)) = m
          /\ \A i \in 1..m : ToLower(s)[i] = Lower(s[i])
      BY FoldIs
    <3>2. /\ ToLower(text) \in Seq(Byte) /\ Len(ToLower(text)) = L
          /\ \A i \in 1..L : ToLower(text)[i] = Lower(text[i])
      BY FoldIs
    <3>3. ToLower(s) = ToLower(text) <=> m = L /\ \A i \in 1..L : ToLower(s)[i] = ToLower(text)[i]
      BY <3>1, <3>2
    <3>. QED
      BY <2>1, <3>1, <3>2, <3>3 DEF Folded
  <2>2. CASE ~fold
    <3>1. s = text <=> m = L /\ \A i \in 1..L : s[i] = text[i]
      OBVIOUS
    <3>. QED
      BY <2>2, <3>1 DEF Folded
  <2>. QED
    BY <2>1, <2>2
<1>4. Spells(items, s, fold) <=>
        \E cut \in [0..L -> 0..m] :
          /\ cut[0] = 0 /\ cut[L] = m
          /\ \A i \in 1..L :
               /\ cut[i] - cut[i-1] >= items[i].least
               /\ items[i].many \/ cut[i] - cut[i-1] <= 1
               /\ \A j \in (cut[i-1] + 1)..cut[i] : Fits(items[i], s[j], fold)
  <2>. HIDE DEF items
  <2>. QED
    BY <1>1, Zenon DEF Spells
<1>5. ASSUME NEW cut \in [0..L -> 0..m], NEW i \in 1..L
      PROVE  (/\ cut[i] - cut[i-1] >= items[i].least
              /\ items[i].many \/ cut[i] - cut[i-1] <= 1
              /\ \A j \in (cut[i-1] + 1)..cut[i] : Fits(items[i], s[j], fold))
             <=> cut[i] = cut[i-1] + 1 /\ Same(text[i], s[cut[i]])
  <2>1. cut[i] \in 0..m /\ cut[i-1] \in 0..m
    BY <1>1
  <2>. DEFINE x == cut[i-1]
              y == cut[i]
              it == items[i]
              F(b) == Fits(it, b, fold)
  <2>2. x \in Nat /\ y \in Nat
    BY <2>1
  <2>3. it.least = 1 /\ ~it.many /\ \A b : F(b) <=> Same(text[i], b)
    BY <1>2, Zenon
  <2>. HIDE DEF x, y, it, F, items, Same
  <2>4. y - x >= 1 /\ y - x <= 1 <=> y = x + 1
    BY <2>2
  <2>5. y = x + 1 => \A j : j \in (x + 1)..y <=> j = y
    BY <2>2
  <2>6. (/\ y - x >= it.least /\ (it.many \/ y - x <= 1) /\ \A j \in (x + 1)..y : F(s[j]))
          <=> y = x + 1 /\ Same(text[i], s[y])
    BY <2>3, <2>4, <2>5, Zenon
  <2>. QED
    BY <2>6, Zenon DEF x, y, it, F
<1>6. Spells(items, s, fold) <=>
        \E cut \in [0..L -> 0..m] :
          /\ cut[0] = 0 /\ cut[L] = m
          /\ \A i \in 1..L : cut[i] = cut[i-1] + 1 /\ Same(text[i], s[cut[i]])
  <2>. HIDE DEF items, Same
  <2>. QED
    BY <1>4, <1>5, Zenon
<1>. HIDE DEF items
<1>7. ASSUME Spells(items, s, fold) PROVE m = L /\ \A i \in 1..L : Same(text[i], s[i])
  <2>1. PICK cut \in [0..L -> 0..m] :
          /\ cut[0] = 0 /\ cut[L] = m
          /\ \A i \in 1..L : cut[i] = cut[i-1] + 1 /\ Same(text[i], s[cut[i]])
    BY <1>6, <1>7, Zenon
  <2>. DEFINE T == {i \in Nat : i <= L => cut[i] = i}
  <2>2. 0 \in T
    BY <2>1
  <2>3. ASSUME NEW i \in T PROVE i + 1 \in T
    <3>. SUFFICES ASSUME i + 1 <= L PROVE cut[i + 1] = i + 1
      OBVIOUS
    <3>1. i \in Nat /\ i + 1 \in 1..L /\ (i + 1) - 1 = i /\ cut[i] = i
      BY <1>1
    <3>2. cut[i + 1] = cut[(i + 1) - 1] + 1
      BY <2>1, <3>1, Zenon
    <3>. QED
      BY <3>1, <3>2
  <2>4. \A i \in 0..L : cut[i] = i
    <3>1. T \subseteq Nat
      OBVIOUS
    <3>2. T = Nat
      <4>. HIDE DEF T
      <4>. QED
        BY <2>2, <2>3, <3>1, Numbers
    <3>. QED
      BY <1>1, <3>2
  <2>5. \A i \in 1..L : cut[i] = i
    BY <1>1, <2>4
  <2>6. cut[L] = L
    BY <1>1, <2>4
  <2>. QED
    BY <2>1, <2>5, <2>6, Zenon
<1>8. ASSUME m = L, \A i \in 1..L : Same(text[i], s[i]) PROVE Spells(items, s, fold)
  <2>. DEFINE cut == [i \in 0..L |-> i]
  <2>1. /\ cut \in [0..L -> 0..m] /\ cut[0] = 0 /\ cut[L] = m
        /\ \A i \in 1..L : cut[i] = i /\ cut[i] = cut[i-1] + 1
    BY <1>1, <1>8
  <2>. HIDE DEF cut, Same
  <2>2. \A i \in 1..L : cut[i] = cut[i-1] + 1 /\ Same(text[i], s[cut[i]])
    BY <1>8, <2>1
  <2>. QED
    BY <1>6, <2>1, <2>2, Zenon
<1>. QED
  BY <1>3, <1>7, <1>8, Zenon DEF items

\* A substring occurs where its letters are found.
LEMMA OccursIs ==
  ASSUME NEW text \in Seq(Byte), NEW s \in Seq(Byte), NEW fold \in BOOLEAN
  PROVE  Occurs(Folded(fold, text), Folded(fold, s))
           <=> Finds({[fromStart |-> FALSE, toEnd |-> FALSE, items |-> Letters(text)]}, s, fold)
<1>. DEFINE L == Len(text)
            m == Len(s)
            a == [fromStart |-> FALSE, toEnd |-> FALSE, items |-> Letters(text)]
            u == Folded(fold, text)
            w == Folded(fold, s)
<1>1. /\ L \in Nat /\ m \in Nat /\ u \in Seq(Byte) /\ w \in Seq(Byte) /\ Len(u) = L /\ Len(w) = m
      /\ ~a.fromStart /\ ~a.toEnd /\ a.items = Letters(text)
  BY FoldIs DEF Folded
<1>2. ASSUME NEW i \in 0..m, NEW j \in i..m
      PROVE  /\ SubSeq(s, i + 1, j) \in Seq(Byte)
             /\ Folded(fold, SubSeq(s, i + 1, j)) = SubSeq(w, i + 1, j)
             /\ Len(SubSeq(w, i + 1, j)) = j - i
  <2>. DEFINE r == SubSeq(s, i + 1, j)
  <2>1. /\ r \in Seq(Byte) /\ Len(r) = j - i /\ j - i \in Nat
        /\ \A k \in 1..(j - i) : r[k] = s[i + k] /\ i + k \in 1..m
    BY <1>1
  <2>2. /\ SubSeq(w, i + 1, j) \in Seq(Byte) /\ Len(SubSeq(w, i + 1, j)) = j - i
        /\ \A k \in 1..(j - i) : SubSeq(w, i + 1, j)[k] = w[i + k]
    BY <1>1
  <2>. HIDE DEF r
  <2>3. CASE fold
    <3>1. /\ ToLower(r) \in Seq(Byte) /\ Len(ToLower(r)) = j - i
          /\ \A k \in 1..(j - i) : ToLower(r)[k] = Lower(r[k])
      BY <2>1, FoldIs
    <3>2. \A k \in 1..m : w[k] = Lower(s[k])
      BY <2>3, FoldIs DEF Folded
    <3>3. \A k \in 1..(j - i) : ToLower(r)[k] = SubSeq(w, i + 1, j)[k]
      BY <2>1, <2>2, <3>1, <3>2
    <3>4. ToLower(r) = SubSeq(w, i + 1, j)
      <4>. DEFINE v == SubSeq(w, i + 1, j)
                  l == j - i
      <4>1. /\ v \in Seq(Byte) /\ ToLower(r) \in Seq(Byte) /\ Len(v) = l /\ Len(ToLower(r)) = l
            /\ \A k \in 1..l : ToLower(r)[k] = v[k]
        BY <2>1, <2>2, <3>1, <3>3
      <4>. HIDE DEF v, l
      <4>2. ToLower(r) = v
        BY <4>1
      <4>. QED
        BY <4>2 DEF v
    <3>. QED
      BY <2>1, <2>2, <2>3, <3>4 DEF r, Folded
  <2>4. CASE ~fold
    BY <2>1, <2>2, <2>4 DEF r, Folded
  <2>. QED
    BY <2>3, <2>4
<1>3. ASSUME NEW i \in 0..m, NEW j \in i..m
      PROVE  Spells(a.items, SubSeq(s, i + 1, j), fold) <=> SubSeq(w, i + 1, j) = u
  <2>1. SubSeq(s, i + 1, j) \in Seq(Byte) /\ Folded(fold, SubSeq(s, i + 1, j)) = SubSeq(w, i + 1, j)
    BY <1>2
  <2>2. Spells(Letters(text), SubSeq(s, i + 1, j), fold)
          <=> Folded(fold, SubSeq(s, i + 1, j)) = Folded(fold, text)
    BY <2>1, LettersSpell
  <2>. QED
    BY <1>1, <2>1, <2>2, Zenon
<1>. HIDE DEF u, w, a
<1>4. ASSUME NEW i \in 0..m, NEW j \in i..m, SubSeq(w, i + 1, j) = u
      PROVE  i \in 0..(m - L) /\ j = i + L
  <2>1. j - i = L
    BY <1>1, <1>2, <1>4 DEF w
  <2>. QED
    BY <1>1, <2>1
<1>5. \A i \in 0..(m - L) : i \in 0..m /\ i + L \in i..m
  BY <1>1
<1>6. Occurs(u, w) <=> \E i \in 0..(m - L) : SubSeq(w, i + 1, i + L) = u
  BY <1>1, Zenon DEF Occurs
<1>7. Finds({a}, s, fold) <=> \E i \in 0..m : \E j \in i..m : Spells(a.items, SubSeq(s, i + 1, j), fold)
  BY <1>1, Zenon DEF Finds
<1>8. Finds({a}, s, fold) <=> \E i \in 0..m : \E j \in i..m : SubSeq(w, i + 1, j) = u
  BY <1>3, <1>7, Zenon DEF w, u
<1>. QED
  BY <1>4, <1>5, <1>6, <1>8, Zenon DEF u, w, a

-----------------------------------------------------------------------------
(* Clauses.                                                                 *)

\* What the code makes of a clause is what it says.
LEMMA ClauseIs ==
  ASSUME FilterInv, ~Rejected(filters), ~Askew(filters), NEW i \in Given(filters),
         NEW key \in KeyName
  PROVE  LET folded == IF anyFold(filters) THEN ToLower(key) ELSE <<>> IN
         match(filters[i], key, folded) <=> Finds(filters[i].says, key, filters[i].ignoreCase)
<1>. DEFINE c == filters[i]
            folded == IF anyFold(filters) THEN ToLower(key) ELSE <<>>
            word == IF c.ignoreCase THEN folded ELSE key
            text == IF c.ignoreCase THEN ToLower(c.text) ELSE c.text
<1>1. /\ c \in Typed /\ c.text # <<>> /\ c.text \in Seq(Byte) /\ key \in Seq(Byte)
      /\ c.ignoreCase \in BOOLEAN /\ c.says \subseteq Alternative
      /\ c.mode \in {"glob", "substring", "regex"}
  BY TypedAssumption DEF FilterInv, Given, Clauses, Byte
<1>2. c.mode \in {"glob", "substring"} =>
        word = Folded(c.ignoreCase, key) /\ text = Folded(c.ignoreCase, c.text)
  BY DEF anyFold, Folded
<1>. HIDE DEF word, text
<1>3. CASE c.mode = "regex"
  BY <1>3, Zenon DEF match
<1>4. CASE c.mode = "substring"
  <2>1. match(c, key, folded) <=> Occurs(text, word)
    <3>1. "substring" # "regex"
      OBVIOUS
    <3>. QED
      BY <1>4, <3>1, Zenon DEF match, text, word
  <2>2. c.says = {[fromStart |-> FALSE, toEnd |-> FALSE, items |-> Letters(c.text)]}
    BY <1>1, <1>4, SubstringAssumption, Zenon DEF Letters
  <2>3. Occurs(Folded(c.ignoreCase, c.text), Folded(c.ignoreCase, key))
          <=> Finds({[fromStart |-> FALSE, toEnd |-> FALSE, items |-> Letters(c.text)]}, key, c.ignoreCase)
    <3>. DEFINE t == c.text
                fold == c.ignoreCase
    <3>1. t \in Seq(Byte) /\ fold \in BOOLEAN
      BY <1>1
    <3>. HIDE DEF t, fold
    <3>2. Occurs(Folded(fold, t), Folded(fold, key))
            <=> Finds({[fromStart |-> FALSE, toEnd |-> FALSE, items |-> Letters(t)]}, key, fold)
      BY <1>1, <3>1, OccursIs
    <3>. QED
      BY <3>2 DEF t, fold
  <2>. QED
    BY <1>2, <1>4, <2>1, <2>2, <2>3, Zenon
<1>5. CASE c.mode = "glob"
  <2>1. match(c, key, folded) <=> globMatch(text, word)
    <3>1. "glob" # "regex" /\ "glob" # "substring"
      OBVIOUS
    <3>. QED
      BY <1>5, <3>1, Zenon DEF match, text, word
  <2>2. PICK a \in c.says : c.says = {a} /\ a.fromStart /\ a.toEnd /\ GlobReads(c.text, a.items)
    BY <1>1, <1>5, GlobAssumption, Zenon
  <2>3. a \in Alternative /\ a.items \in Seq(Item)
    BY <1>1, <2>2 DEF Alternative
  <2>4. Finds(c.says, key, c.ignoreCase) <=> Spells(a.items, key, c.ignoreCase)
    <3>1. Finds({a}, key, c.ignoreCase) <=> Spells(a.items, key, c.ignoreCase)
      <4>. DEFINE fold == c.ignoreCase
      <4>. HIDE DEF fold
      <4>1. Finds({a}, key, fold) <=> Spells(a.items, key, fold)
        BY <1>1, <2>2, <2>3, WholeKey
      <4>. QED
        BY <4>1 DEF fold
    <3>. QED
      BY <2>2, <3>1, Zenon
  <2>. DEFINE t == c.text
              items == a.items
  <2>5. t \in Seq(Byte) /\ items \in Seq(Item) /\ GlobReads(t, items)
    BY <1>1, <2>2, <2>3
  <2>6. c.ignoreCase => ~Skewed(t)
    BY <1>5, Zenon DEF Askew
  <2>. HIDE DEF t, items
  <2>7. CASE c.ignoreCase
    <3>1. GlobReads(ToLower(t), AllLowered(items)) /\ AllLowered(items) \in Seq(Item)
      BY <2>5, <2>6, <2>7, FoldReads
    <3>2. ToLower(t) \in Seq(Byte) /\ ToLower(key) \in Seq(Byte)
      BY <1>1, <2>5, FoldIs
    <3>3. globMatch(ToLower(t), ToLower(key)) <=> Spells(AllLowered(items), ToLower(key), FALSE)
      BY <3>1, <3>2, GlobIs
    <3>4. Spells(AllLowered(items), ToLower(key), FALSE) <=> Spells(items, key, TRUE)
      BY <1>1, <2>5, FoldSpells
    <3>5. c.ignoreCase = TRUE /\ text = ToLower(t) /\ word = ToLower(key)
      BY <1>1, <1>2, <1>5, <2>7 DEF Folded, t
    <3>. QED
      BY <1>5, <2>1, <2>4, <3>3, <3>4, <3>5, Zenon DEF items
  <2>8. CASE ~c.ignoreCase
    <3>1. globMatch(t, key) <=> Spells(items, key, FALSE)
      BY <1>1, <2>5, GlobIs
    <3>2. c.ignoreCase = FALSE /\ text = t /\ word = key
      BY <1>1, <1>2, <1>5, <2>8 DEF Folded, t
    <3>. QED
      BY <1>5, <2>1, <2>4, <3>1, <3>2, Zenon DEF items
  <2>. QED
    BY <2>7, <2>8
<1>. QED
  BY <1>1, <1>3, <1>4, <1>5

\* A key is admitted exactly if the clauses, read in the languages of their modes,
\* admit it, whatever is in the bar.
THEOREM FiltersMeanWhatTheySay == FilterSpec => []MatchesAsMeant
<1>1. FilterInv => MatchesAsMeant
  <2>. SUFFICES ASSUME FilterInv, ~Rejected(filters), ~Askew(filters), NEW key \in KeyName
                PROVE  Match(filters, matchAll, key) <=>
                         Admits(filters, matchAll,
                                {i \in Given(filters) : Finds(filters[i].says, key, filters[i].ignoreCase)})
    BY Zenon DEF MatchesAsMeant
  <2>. DEFINE folded == IF anyFold(filters) THEN ToLower(key) ELSE <<>>
  <2>1. \A i \in Given(filters) :
          match(filters[i], key, folded) <=> Finds(filters[i].says, key, filters[i].ignoreCase)
    BY ClauseIs, Zenon
  <2>2. {i \in Given(filters) : match(filters[i], key, folded)}
          = {i \in Given(filters) : Finds(filters[i].says, key, filters[i].ignoreCase)}
    <3>. HIDE DEF folded
    <3>. QED
      BY <2>1
  <2>. QED
    BY <2>2, Zenon DEF Match
<1>. QED
  BY <1>1, BarInit, BarNext, PTL DEF FilterSpec
=============================================================================
