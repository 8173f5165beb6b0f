---------------------------- MODULE ProfilesProofs ----------------------------
(***************************************************************************)
(* Proofs about Profiles, for any rows, contents, secrets and number of    *)
(* requests in flight.                                                     *)
(*                                                                         *)
(* A save finds its row in one statement and writes it in another.  What   *)
(* it has found is still what is stored unless another request for that    *)
(* row was in flight meanwhile, and then the row is among the crossed.     *)
(*                                                                         *)
(* At the end, proofs about Secrets: how the same rows are sealed, for any *)
(* tables, keys and number of requests.                                    *)
(***************************************************************************)
EXTENDS Profiles, Secrets, SequenceTheorems, TLAPS

Req == [op : {"save", "delete"}, id : Id, val : Content, secret : Content,
        form : {"this", "gone", "dead"}, found : Content \cup {None},
        at : {"sent", "found", "done"}]
Row == [at : {"none", "live", "deleted"}, val : Content, secret : Content]
Item == [id : Id \cup {None}, val : Content, old : BOOLEAN]
Form == [val : Content, secret : Content]
IsList(f) == DOMAIN f \subseteq Id /\ \A id \in DOMAIN f : f[id] \in Content

TypeInv ==
  /\ rows \in [Id -> Row] /\ given \in [Id -> Content] /\ crossed \subseteq Id
  /\ IsList(listed) /\ IsList(got)
  /\ item # None => item \in Item
  /\ form \in Form
  /\ calls \in Seq(Req)

\* Two requests for one row are noticed.
AloneUnlessCrossed ==
  \A i, j \in DOMAIN calls :
    calls[i].id = calls[j].id /\ i # j => calls[i].id \in crossed

FoundIsStored ==
  \A i \in DOMAIN calls :
    calls[i].at = "found" /\ calls[i].found # None /\ calls[i].id \notin crossed =>
      rows[calls[i].id].at = "live" /\ rows[calls[i].id].secret = calls[i].found

Safe == AloneUnlessCrossed /\ FoundIsStored /\ SecretKept
IInv == TypeInv /\ Safe

-----------------------------------------------------------------------------
(* Types.                                                                   *)

LEMMA BlankIs == Blank \in Content /\ NoForm \in Form /\ Absent \in Row /\ Deleted \in Row
BY Zenon DEF Content, NoForm, Form, Absent, Deleted, Row

LEMMA InitTypeInv == Init => TypeInv
<1>. SUFFICES ASSUME Init PROVE TypeInv
  OBVIOUS
<1>1. [at : {"live"}, val : Word, secret : Secret] \subseteq Row
  BY DEF Content, Secret, Row
<1>3. rows \in [Id -> Row]
  BY Zenon, <1>1, BlankIs DEF Init
<1>4. given \in [Id -> Content]
  BY <1>3 DEF Init, Row
<1>5. IsList(listed) /\ got = << >>
  BY <1>3 DEF Init, IsList, Contents, Live, Row
<1>6. IsList(got)
  BY <1>5 DEF IsList
<1>. QED
  BY <1>3, <1>4, <1>5, <1>6, BlankIs DEF Init, TypeInv

\* What is shown of a row is one of the contents.
LEMMA FieldsAre == ASSUME NEW it, it.val \in Content PROVE Fields(it) \in Form
BY BlankIs DEF Fields, Form

LEMMA RequestIs ==
  ASSUME NEW op \in {"save", "delete"}, NEW id \in Id, NEW f \in Form,
         NEW whose \in {"this", "gone", "dead"}
  PROVE  LET r == Request(op, id, f, whose)
         IN  r \in Req /\ r.id = id /\ r.at = "sent"
BY DEF Request, Req, Form

\* A list of requests after one has gone, or has changed within its type.
LEMMA RemoveAtIs ==
  ASSUME NEW cs \in Seq(Req), NEW i \in DOMAIN cs
  PROVE  LET ds == RemoveAt(cs, i)
         IN  /\ ds \in Seq(Req) /\ DOMAIN ds = 1..(Len(cs) - 1)
             /\ \A j \in DOMAIN ds : ds[j] = cs[IF j < i THEN j ELSE j + 1]
<1>. DEFINE u == SubSeq(cs, 1, i - 1)
            w == SubSeq(cs, i + 1, Len(cs))
<1>1. i \in 1..Len(cs) /\ Len(cs) \in Nat
  OBVIOUS
<1>2. /\ u \in Seq(Req) /\ Len(u) = i - 1
      /\ \A j \in 1..(i - 1) : u[j] = cs[j]
  BY <1>1
<1>3. /\ w \in Seq(Req) /\ Len(w) = Len(cs) - i
      /\ \A j \in 1..(Len(cs) - i) : w[j] = cs[i + j]
  BY <1>1
<1>. HIDE DEF u, w
<1>4. /\ u \o w \in Seq(Req) /\ Len(u \o w) = Len(cs) - 1
      /\ \A j \in 1..(Len(cs) - 1) :
           (u \o w)[j] = IF j <= i - 1 THEN u[j] ELSE w[j - (i - 1)]
  BY <1>1, <1>2, <1>3
<1>5. \A j \in 1..(Len(cs) - 1) : (u \o w)[j] = cs[IF j < i THEN j ELSE j + 1]
  <2>. SUFFICES ASSUME NEW j \in 1..(Len(cs) - 1)
                PROVE  (u \o w)[j] = cs[IF j < i THEN j ELSE j + 1]
    OBVIOUS
  <2>1. CASE j < i
    BY <1>1, <1>2, <1>4, <2>1
  <2>2. CASE ~(j < i)
    <3>1. j - (i - 1) \in 1..(Len(cs) - i) /\ i + (j - (i - 1)) = j + 1 /\ ~(j <= i - 1)
      BY <1>1, <2>2
    <3>2. (u \o w)[j] = w[j - (i - 1)]
      BY <1>4, <3>1
    <3>3. w[j - (i - 1)] = cs[j + 1]
      BY <1>3, <3>1
    <3>. QED
      BY <2>2, <3>2, <3>3
  <2>. QED
    BY <2>1, <2>2
<1>6. RemoveAt(cs, i) = u \o w
  BY DEF RemoveAt, u, w
<1>7. DOMAIN (u \o w) = 1..(Len(cs) - 1)
  BY <1>4
<1>. QED
  BY Zenon, <1>4, <1>5, <1>6, <1>7

LEMMA ChangedIs ==
  ASSUME NEW cs \in Seq(Req), NEW i \in DOMAIN cs, NEW r \in Req
  PROVE  LET ds == [cs EXCEPT ![i] = r]
         IN  /\ ds \in Seq(Req) /\ DOMAIN ds = DOMAIN cs
             /\ ds[i] = r /\ \A j \in DOMAIN cs \ {i} : ds[j] = cs[j]
OBVIOUS

-----------------------------------------------------------------------------
(* Requests that go on.                                                     *)

\* ds are requests of cs, each at most once and as far as it was, but for
\* request i, which is not between its two statements.
Follows(ds, cs, i) ==
  \E m \in [DOMAIN ds -> DOMAIN cs] :
    /\ \A j, k \in DOMAIN ds : j # k => m[j] # m[k]
    /\ \A j \in DOMAIN ds :
         /\ ds[j].id = cs[m[j]].id
         /\ ds[j].at = "found" =>
              m[j] # i /\ cs[m[j]].at = "found" /\ ds[j].found = cs[m[j]].found

LEMMA RemoveAtFollows ==
  ASSUME NEW cs \in Seq(Req), NEW i \in DOMAIN cs
  PROVE  Follows(RemoveAt(cs, i), cs, i)
<1>. DEFINE ds == RemoveAt(cs, i)
            m == [j \in DOMAIN ds |-> IF j < i THEN j ELSE j + 1]
<1>1. /\ DOMAIN ds = 1..(Len(cs) - 1)
      /\ \A j \in DOMAIN ds : ds[j] = cs[IF j < i THEN j ELSE j + 1]
  BY RemoveAtIs
<1>2. i \in 1..Len(cs) /\ DOMAIN cs = 1..Len(cs) /\ Len(cs) \in Nat
  OBVIOUS
<1>. HIDE DEF ds
<1>3. m \in [DOMAIN ds -> DOMAIN cs]
  BY <1>1, <1>2
<1>4. \A j, k \in DOMAIN ds : j # k => m[j] # m[k]
  BY <1>1, <1>2
<1>5. \A j \in DOMAIN ds : m[j] # i /\ ds[j] = cs[m[j]]
  BY <1>1, <1>2
<1>. HIDE DEF m
<1>6. Follows(ds, cs, i)
  BY <1>3, <1>4, <1>5 DEF Follows
<1>. QED
  BY <1>6 DEF ds

LEMMA ChangedFollows ==
  ASSUME NEW cs \in Seq(Req), NEW i \in DOMAIN cs, NEW r \in Req,
         r.id = cs[i].id, r.at # "found"
  PROVE  Follows([cs EXCEPT ![i] = r], cs, i)
<1>. DEFINE ds == [cs EXCEPT ![i] = r]
            m == [j \in DOMAIN ds |-> j]
<1>1. DOMAIN ds = DOMAIN cs /\ ds[i] = r /\ \A j \in DOMAIN cs \ {i} : ds[j] = cs[j]
  BY ChangedIs
<1>. HIDE DEF ds
<1>2. m \in [DOMAIN ds -> DOMAIN cs] /\ \A j \in DOMAIN ds : m[j] = j
  BY <1>1
<1>. HIDE DEF m
<1>3. Follows(ds, cs, i)
  BY <1>1, <1>2 DEF Follows
<1>. QED
  BY <1>3 DEF ds

\* The same requests, whosoever they are by now.
LEMMA SameFollows ==
  ASSUME NEW cs, NEW ds, NEW es, NEW i, Follows(ds, cs, i), DOMAIN es = DOMAIN ds,
         \A j \in DOMAIN ds : es[j].id = ds[j].id /\ es[j].at = ds[j].at /\ es[j].found = ds[j].found
  PROVE  Follows(es, cs, i)
BY DEF Follows

LEMMA ItselfFollows ==
  ASSUME NEW cs \in Seq(Req)
  PROVE  Follows(cs, cs, 0)
<1>. DEFINE m == [j \in DOMAIN cs |-> j]
<1>1. m \in [DOMAIN cs -> DOMAIN cs] /\ \A j \in DOMAIN cs : m[j] = j /\ j # 0
  OBVIOUS
<1>. HIDE DEF m
<1>. QED
  BY <1>1 DEF Follows

\* Left and the death of a page change whose a request is.
LEMMA ReformIs ==
  ASSUME NEW cs \in Seq(Req), NEW ds, DOMAIN ds = DOMAIN cs,
         \A i \in DOMAIN cs : \E w \in {"this", "gone", "dead"} :
           ds[i] = [cs[i] EXCEPT !.form = w],
         ds = [i \in DOMAIN cs |-> ds[i]]
  PROVE  /\ ds \in Seq(Req)
         /\ \A i \in DOMAIN cs :
              ds[i].id = cs[i].id /\ ds[i].at = cs[i].at /\ ds[i].found = cs[i].found
<1>1. ASSUME NEW i \in DOMAIN cs
      PROVE  /\ ds[i] \in Req
             /\ ds[i].id = cs[i].id /\ ds[i].at = cs[i].at /\ ds[i].found = cs[i].found
  <2>1. PICK w \in {"this", "gone", "dead"} : ds[i] = [cs[i] EXCEPT !.form = w]
    BY <1>1
  <2>2. cs[i] \in Req
    BY <1>1
  <2>. QED
    BY <2>1, <2>2 DEF Req
<1>2. ds \in Seq(Req)
  <2>1. DOMAIN cs = 1..Len(cs) /\ Len(cs) \in Nat
    OBVIOUS
  <2>2. ds \in [1..Len(cs) -> Req]
    BY <1>1, <2>1
  <2>. QED
    BY <2>1, <2>2
<1>. QED
  BY <1>1, <1>2

LEMMA LeftIs ==
  ASSUME NEW cs \in Seq(Req)
  PROVE  /\ Left(cs) \in Seq(Req) /\ DOMAIN Left(cs) = DOMAIN cs
         /\ \A i \in DOMAIN cs :
              Left(cs)[i].id = cs[i].id /\ Left(cs)[i].at = cs[i].at /\ Left(cs)[i].found = cs[i].found
<1>1. ASSUME NEW i \in DOMAIN cs
      PROVE \E w \in {"this", "gone", "dead"} : Left(cs)[i] = [cs[i] EXCEPT !.form = w]
  <2>1. Left(cs)[i] = [cs[i] EXCEPT !.form = IF cs[i].form = "this" THEN "gone" ELSE cs[i].form]
    BY Zenon, <1>1 DEF Left
  <2>2. cs[i].form \in {"this", "gone", "dead"}
    <3>1. cs[i] \in Req
      BY <1>1
    <3>. QED
      BY <3>1 DEF Req
  <2>. QED
    BY Zenon, <2>1, <2>2
<1>2. DOMAIN Left(cs) = DOMAIN cs /\ Left(cs) = [i \in DOMAIN cs |-> Left(cs)[i]]
  BY Zenon DEF Left
<1>. QED
  BY Zenon, <1>1, <1>2, ReformIs

\* A page that dies.
Dead(cs) == [i \in DOMAIN cs |-> [cs[i] EXCEPT !.form = "dead"]]

LEMMA DeadIs ==
  ASSUME NEW cs \in Seq(Req)
  PROVE  /\ Dead(cs) \in Seq(Req) /\ DOMAIN Dead(cs) = DOMAIN cs
         /\ \A i \in DOMAIN cs :
              Dead(cs)[i].id = cs[i].id /\ Dead(cs)[i].at = cs[i].at /\ Dead(cs)[i].found = cs[i].found
<1>1. ASSUME NEW i \in DOMAIN cs
      PROVE \E w \in {"this", "gone", "dead"} : Dead(cs)[i] = [cs[i] EXCEPT !.form = w]
  BY Zenon, <1>1 DEF Dead
<1>2. DOMAIN Dead(cs) = DOMAIN cs /\ Dead(cs) = [i \in DOMAIN cs |-> Dead(cs)[i]]
  BY Zenon DEF Dead
<1>. QED
  BY Zenon, <1>1, <1>2, ReformIs

-----------------------------------------------------------------------------
(* What the steps do to the table and the requests.                         *)

LEMMA RequestsGoOn ==
  ASSUME Safe, NEW i, Follows(calls', calls, i), UNCHANGED table
  PROVE  Safe'
<1>1. UNCHANGED <<rows, given, crossed>>
  BY DEF table
<1>2. PICK m \in [DOMAIN calls' -> DOMAIN calls] :
        /\ \A j, k \in DOMAIN calls' : j # k => m[j] # m[k]
        /\ \A j \in DOMAIN calls' :
             /\ calls'[j].id = calls[m[j]].id
             /\ calls'[j].at = "found" =>
                  m[j] # i /\ calls[m[j]].at = "found" /\ calls'[j].found = calls[m[j]].found
  BY Zenon DEF Follows
<1>3. \A j \in DOMAIN calls' : m[j] \in DOMAIN calls
  BY <1>2
<1>4. AloneUnlessCrossed'
  BY <1>1, <1>2, <1>3 DEF Safe, AloneUnlessCrossed
<1>5. FoundIsStored'
  BY <1>1, <1>2, <1>3 DEF Safe, FoundIsStored
<1>6. SecretKept'
  BY <1>1 DEF Safe, SecretKept, Live
<1>. QED
  BY <1>4, <1>5, <1>6 DEF Safe

\* A request is sent; one that goes to a row another is on its way to makes
\* that row a crossed one.
LEMMA RequestSent ==
  ASSUME TypeInv, Safe, UNCHANGED <<rows, given>>,
         NEW cs \in Seq(Req), DOMAIN cs = DOMAIN calls,
         \A i \in DOMAIN calls :
           cs[i].id = calls[i].id /\ cs[i].at = calls[i].at /\ cs[i].found = calls[i].found,
         NEW r \in Req, r.at = "sent", calls' = Append(cs, r),
         crossed' = IF \E i \in DOMAIN calls : calls[i].id = r.id THEN crossed \cup {r.id}
                    ELSE crossed
  PROVE  Safe' /\ crossed' \subseteq Id /\ calls' \in Seq(Req)
<1>. DEFINE n == Len(calls) + 1
<1>1. calls \in Seq(Req) /\ Len(calls) \in Nat /\ DOMAIN calls = 1..Len(calls) /\ Len(cs) = Len(calls)
  <2>1. calls \in Seq(Req)
    BY DEF TypeInv
  <2>. QED
    BY <2>1
<1>2. /\ calls' \in Seq(Req) /\ DOMAIN calls' = 1..n
      /\ calls'[n] = r /\ \A j \in DOMAIN calls : calls'[j] = cs[j]
  BY <1>1
<1>3. crossed \subseteq crossed' /\ crossed' \subseteq Id
  BY DEF TypeInv, Req
<1>4. \A j \in DOMAIN calls' : j \in DOMAIN calls \/ j = n
  BY <1>1, <1>2
<1>5. AloneUnlessCrossed'
  <2>. SUFFICES ASSUME NEW j \in DOMAIN calls', NEW k \in DOMAIN calls',
                       calls'[j].id = calls'[k].id, j # k
                PROVE  calls'[j].id \in crossed'
    BY DEF AloneUnlessCrossed
  <2>1. CASE j \in DOMAIN calls /\ k \in DOMAIN calls
    BY <1>2, <1>3, <2>1 DEF Safe, AloneUnlessCrossed
  <2>2. CASE j = n /\ k \in DOMAIN calls
    BY <1>2, <2>2
  <2>3. CASE k = n /\ j \in DOMAIN calls
    BY <1>2, <2>3
  <2>. QED
    BY <1>4, <2>1, <2>2, <2>3
<1>6. FoundIsStored'
  BY <1>2, <1>3, <1>4 DEF Safe, FoundIsStored
<1>7. SecretKept'
  BY <1>3 DEF Safe, SecretKept, Live
<1>. QED
  BY <1>2, <1>3, <1>5, <1>6, <1>7 DEF Safe

\* The row of request i is written, and what else was found stays stored.
LEMMA RowWritten ==
  ASSUME TypeInv, Safe, NEW i \in DOMAIN calls, Follows(calls', calls, i),
         crossed' = crossed, NEW row \in Row, NEW g \in Content,
         rows' = [rows EXCEPT ![calls[i].id] = row],
         given' = [given EXCEPT ![calls[i].id] = g],
         row.at = "live" /\ calls[i].id \notin crossed => row.secret = g
  PROVE  Safe' /\ rows' \in [Id -> Row] /\ given' \in [Id -> Content]
<1>. DEFINE id == calls[i].id
<1>1. id \in Id
  <2>1. calls[i] \in Req
    BY DEF TypeInv
  <2>. QED
    BY <2>1 DEF Req
<1>2. /\ rows' \in [Id -> Row] /\ rows'[id] = row
      /\ \A x \in Id \ {id} : rows'[x] = rows[x]
      /\ given' \in [Id -> Content] /\ given'[id] = g
      /\ \A x \in Id \ {id} : given'[x] = given[x]
  BY <1>1 DEF TypeInv
<1>3. PICK m \in [DOMAIN calls' -> DOMAIN calls] :
        /\ \A j, k \in DOMAIN calls' : j # k => m[j] # m[k]
        /\ \A j \in DOMAIN calls' :
             /\ calls'[j].id = calls[m[j]].id
             /\ calls'[j].at = "found" =>
                  m[j] # i /\ calls[m[j]].at = "found" /\ calls'[j].found = calls[m[j]].found
  BY Zenon DEF Follows
<1>4. \A j \in DOMAIN calls' : m[j] \in DOMAIN calls /\ calls[m[j]].id \in Id
  <2>1. \A j \in DOMAIN calls : calls[j] \in Req
    BY DEF TypeInv
  <2>. QED
    BY <1>3, <2>1 DEF Req
<1>5. AloneUnlessCrossed'
  BY <1>3, <1>4 DEF Safe, AloneUnlessCrossed
<1>6. FoundIsStored'
  <2>. SUFFICES ASSUME NEW j \in DOMAIN calls', calls'[j].at = "found", calls'[j].found # None,
                       calls'[j].id \notin crossed
                PROVE  /\ rows'[calls'[j].id].at = "live"
                       /\ rows'[calls'[j].id].secret = calls'[j].found
    BY DEF FoundIsStored
  <2>1. calls[m[j]].id # id
    BY <1>3, <1>4 DEF Safe, AloneUnlessCrossed
  <2>. QED
    BY <1>2, <1>3, <1>4, <2>1 DEF Safe, FoundIsStored
<1>7. SecretKept'
  BY <1>1, <1>2 DEF Safe, SecretKept, Live
<1>. QED
  BY <1>2, <1>5, <1>6, <1>7 DEF Safe

-----------------------------------------------------------------------------
(* The list and the dialogs.                                                *)

LEMMA ViewStep ==
  ASSUME IInv, UNCHANGED <<table, calls>>, IsList(listed'), IsList(got'),
         item' # None => item' \in Item, form' \in Form
  PROVE  IInv'
<1>1. calls \in Seq(Req) /\ calls' = calls
  BY DEF IInv, TypeInv
<1>2. Follows(calls', calls, 0)
  BY <1>1, ItselfFollows
<1>3. Safe'
  BY <1>2, RequestsGoOn DEF IInv
<1>4. TypeInv'
  BY DEF IInv, TypeInv, IsList, table
<1>. QED
  BY <1>3, <1>4 DEF IInv

LEMMA EmptyIsList == IsList(<< >>)
BY DEF IsList

LEMMA ReadStep == ASSUME IInv, Read PROVE IInv'
<1>1. IsList(Contents)
  BY DEF IInv, TypeInv, IsList, Contents, Live, Row
<1>. QED
  BY <1>1, ViewStep DEF Read, dialog, IInv, TypeInv

LEMMA AskStep == ASSUME IInv, Refetch \/ Remount \/ FetchFailed PROVE IInv'
<1>1. UNCHANGED <<table, calls, listed, item, form>>
  BY Zenon DEF Refetch, Remount, FetchFailed, Invalidate, dialog
<1>2. got' \in {got, << >>}
  BY DEF Refetch, Remount, FetchFailed, Invalidate
<1>. QED
  BY <1>1, <1>2, EmptyIsList, ViewStep DEF IInv, TypeInv

LEMMA FetchedStep == ASSUME IInv, Fetched PROVE IInv'
BY EmptyIsList, ViewStep DEF Fetched, KeepsForm, IInv, TypeInv

LEMMA ItemStep ==
  ASSUME IInv, UNCHANGED <<table, query, calls>>, NEW it \in Item, item' = it,
         form' = form \/ form' = Fields(it)
  PROVE  IInv'
<1>1. it.val \in Content
  BY DEF Item
<1>2. form' \in Form
  BY <1>1, FieldsAre DEF IInv, TypeInv
<1>. QED
  BY <1>2, ViewStep DEF query, IInv, TypeInv

LEMMA CreateStep == ASSUME IInv, Create PROVE IInv'
<1>. DEFINE it == [id |-> None, val |-> Blank, old |-> FALSE]
<1>1. it \in Item
  BY BlankIs DEF Item
<1>2. item' = it /\ form' = Fields(it) /\ UNCHANGED <<table, query, calls>>
  BY DEF Create
<1>. QED
  BY <1>1, <1>2, ItemStep

LEMMA EditStep == ASSUME IInv, NEW id \in Id, Edit(id) PROVE IInv'
<1>. DEFINE it == [id |-> id, val |-> listed[id], old |-> TRUE]
<1>1. it \in Item
  BY DEF Edit, IInv, TypeInv, IsList, Item
<1>2. item' = it /\ form' = Fields(it) /\ UNCHANGED <<table, query, calls>>
  BY DEF Edit
<1>. QED
  BY <1>1, <1>2, ItemStep

LEMMA AddStep == ASSUME IInv, NEW id \in Id, Add(id) PROVE IInv'
<1>. DEFINE it == [id |-> id, val |-> Blank, old |-> FALSE]
<1>1. it \in Item
  BY BlankIs DEF Item
<1>2. item' = it /\ form' = Fields(it) /\ UNCHANGED <<table, query, calls>>
  BY DEF Add
<1>. QED
  BY <1>1, <1>2, ItemStep

LEMMA SelectStep == ASSUME IInv, NEW id \in Id, Select(id) PROVE IInv'
<1>. DEFINE it == [id |-> id, val |-> listed[id], old |-> TRUE]
<1>1. it \in Item
  BY DEF Select, IInv, TypeInv, IsList, Item
<1>2. /\ item' = it /\ UNCHANGED <<table, query, calls>>
      /\ form' = form \/ form' = Fields(it)
  BY DEF Select
<1>. QED
  BY <1>1, <1>2, ItemStep

LEMMA OpenListStep == ASSUME IInv, OpenList PROVE IInv'
<1>1. form' \in Form
  <2>1. CASE item = None
    BY <2>1, BlankIs DEF OpenList
  <2>2. CASE item # None
    <3>1. item.val \in Content
      BY <2>2 DEF IInv, TypeInv, Item
    <3>. QED
      BY <2>2, <3>1, FieldsAre DEF OpenList
  <2>. QED
    BY <2>1, <2>2
<1>. QED
  BY <1>1, ViewStep DEF OpenList, query, IInv, TypeInv

LEMMA TypeStep == ASSUME IInv, Type PROVE IInv'
<1>1. form' \in Form
  BY BlankIs DEF Type, Secret, Form
<1>. QED
  BY <1>1, ViewStep DEF Type, query, IInv, TypeInv

LEMMA CloseStep == ASSUME IInv, Close PROVE IInv'
<1>1. calls \in Seq(Req) /\ calls' = Left(calls)
  BY DEF Close, IInv, TypeInv
<1>2. Follows(calls', calls, 0) /\ calls' \in Seq(Req)
  BY <1>1, ItselfFollows, LeftIs, SameFollows
<1>3. Safe'
  BY <1>2, RequestsGoOn DEF Close, IInv
<1>4. TypeInv'
  BY <1>2, BlankIs DEF Close, IInv, TypeInv, IsList, table, query
<1>. QED
  BY <1>3, <1>4 DEF IInv

-----------------------------------------------------------------------------
(* Requests.                                                                *)

LEMMA SendStep ==
  ASSUME IInv, NEW r \in Req, r.at = "sent", Send(r), UNCHANGED <<query, dialog>>
  PROVE  IInv'
<1>1. calls \in Seq(Req)
  BY DEF IInv, TypeInv
<1>2. Safe' /\ crossed' \subseteq Id /\ calls' \in Seq(Req)
  BY <1>1, RequestSent DEF Send, IInv
<1>. QED
  BY <1>2 DEF Send, IInv, TypeInv, IsList, query, dialog

LEMMA SaveStep == ASSUME IInv, Save PROVE IInv'
<1>1. PICK id \in Id : Send(Request("save", id, form, "this"))
  BY DEF Save
<1>2. form \in Form
  BY DEF IInv, TypeInv
<1>3. Request("save", id, form, "this") \in Req /\ Request("save", id, form, "this").at = "sent"
  BY <1>2, RequestIs
<1>. QED
  BY <1>1, <1>3, SendStep DEF Save

LEMMA DeleteStep == ASSUME IInv, NEW id \in Id, Delete(id) PROVE IInv'
<1>1. PICK whose \in {"this", "gone", "dead"} : Send(Request("delete", id, NoForm, whose))
  BY DEF Delete
<1>2. Request("delete", id, NoForm, whose) \in Req /\ Request("delete", id, NoForm, whose).at = "sent"
  BY BlankIs, RequestIs
<1>. QED
  BY <1>1, <1>2, SendStep DEF Delete

LEMMA ReturnReloadsStep == ASSUME IInv, ReturnReloads PROVE IInv'
<1>1. calls \in Seq(Req) /\ form \in Form
  BY DEF IInv, TypeInv
<1>2. /\ item' = None /\ form' = NoForm /\ listed' = << >> /\ got' = << >>
      /\ UNCHANGED <<rows, given>>
  BY DEF ReturnReloads, table
<1>3. CASE calls' = Dead(calls) /\ UNCHANGED table
  <2>1. Follows(calls', calls, 0) /\ calls' \in Seq(Req)
    BY <1>1, <1>3, ItselfFollows, DeadIs, SameFollows
  <2>2. Safe'
    BY <1>3, <2>1, RequestsGoOn DEF IInv
  <2>. QED
    BY <1>2, <1>3, <2>1, <2>2, BlankIs, EmptyIsList DEF IInv, TypeInv, IsList, table
<1>4. ASSUME NEW id \in Id, calls' = Append(Dead(calls), Request("save", id, form, "dead")),
             crossed' = IF \E i \in DOMAIN calls : calls[i].id = id THEN crossed \cup {id}
                        ELSE crossed
      PROVE  IInv'
  <2>. DEFINE r == Request("save", id, form, "dead")
  <2>1. r \in Req /\ r.id = id /\ r.at = "sent"
    BY <1>1, RequestIs
  <2>. HIDE DEF r
  <2>2. /\ Dead(calls) \in Seq(Req) /\ DOMAIN Dead(calls) = DOMAIN calls
        /\ \A i \in DOMAIN calls :
             /\ Dead(calls)[i].id = calls[i].id /\ Dead(calls)[i].at = calls[i].at
             /\ Dead(calls)[i].found = calls[i].found
    BY <1>1, DeadIs
  <2>3. calls' = Append(Dead(calls), r)
    BY <1>4 DEF r
  <2>4. crossed' = IF \E i \in DOMAIN calls : calls[i].id = r.id THEN crossed \cup {r.id}
                   ELSE crossed
    BY <1>4, <2>1
  <2>5. Safe' /\ crossed' \subseteq Id /\ calls' \in Seq(Req)
    BY <1>2, <2>1, <2>2, <2>3, <2>4, RequestSent DEF IInv
  <2>. QED
    BY <1>2, <2>5, BlankIs, EmptyIsList DEF IInv, TypeInv, IsList
<1>5. \/ calls' = Dead(calls) /\ UNCHANGED table
      \/ \E id \in Id :
           /\ calls' = Append(Dead(calls), Request("save", id, form, "dead"))
           /\ crossed' = IF \E i \in DOMAIN calls : calls[i].id = id THEN crossed \cup {id}
                         ELSE crossed
  BY Zenon DEF ReturnReloads, Dead
<1>. QED
  BY <1>3, <1>4, <1>5

-----------------------------------------------------------------------------
(* The handlers.                                                            *)

LEMMA CallIs ==
  ASSUME TypeInv, NEW i \in DOMAIN calls
  PROVE  calls \in Seq(Req) /\ calls[i] \in Req /\ calls[i].id \in Id
<1>1. calls \in Seq(Req) /\ calls[i] \in Req
  BY DEF TypeInv
<1>. QED
  BY <1>1 DEF Req

\* A request is over, or waits to be answered.
LEMMA GoneIs ==
  ASSUME TypeInv, NEW i \in DOMAIN calls, Done(i) \/ Refused(i)
  PROVE  calls' \in Seq(Req) /\ Follows(calls', calls, i)
<1>1. CASE calls' = RemoveAt(calls, i)
  BY <1>1, CallIs, RemoveAtIs, RemoveAtFollows
<1>2. CASE calls' = [calls EXCEPT ![i].at = "done"]
  <2>. DEFINE r == [calls[i] EXCEPT !.at = "done"]
  <2>1. r \in Req /\ r.id = calls[i].id /\ r.at # "found"
    BY CallIs DEF Req
  <2>. HIDE DEF r
  <2>2. calls' = [calls EXCEPT ![i] = r]
    BY Zenon, <1>2 DEF r
  <2>. QED
    BY <2>1, <2>2, CallIs, ChangedIs, ChangedFollows
<1>. QED
  BY <1>1, <1>2 DEF Done, Refused

LEMMA FindStep == ASSUME IInv, NEW i \in DOMAIN calls, Find(i) PROVE IInv'
<1>. DEFINE found == IF calls[i].id \in Live THEN rows[calls[i].id].secret ELSE None
            r == [calls[i] EXCEPT !.at = "found", !.found = found]
<1>1. calls \in Seq(Req) /\ calls[i] \in Req /\ calls[i].id \in Id
  BY CallIs DEF IInv
<1>2. found \in Content \cup {None}
  BY <1>1 DEF IInv, TypeInv, Row
<1>3. r \in Req /\ r.id = calls[i].id /\ r.found = found
  BY Zenon, <1>1, <1>2 DEF Req
<1>4. calls' = [calls EXCEPT ![i] = r]
  BY Zenon DEF Find
<1>. HIDE DEF r
<1>5. /\ calls' \in Seq(Req) /\ DOMAIN calls' = DOMAIN calls
      /\ calls'[i] = r /\ \A j \in DOMAIN calls \ {i} : calls'[j] = calls[j]
  BY <1>1, <1>3, <1>4, ChangedIs
<1>6. UNCHANGED <<rows, given, crossed, listed, got, item, form>>
  BY DEF Find, table, query, dialog
<1>7. AloneUnlessCrossed'
  BY <1>3, <1>5, <1>6 DEF IInv, Safe, AloneUnlessCrossed
<1>8. FoundIsStored'
  <2>. SUFFICES ASSUME NEW j \in DOMAIN calls', calls'[j].at = "found", calls'[j].found # None,
                       calls'[j].id \notin crossed
                PROVE  /\ rows[calls'[j].id].at = "live"
                       /\ rows[calls'[j].id].secret = calls'[j].found
    BY <1>6 DEF FoundIsStored
  <2>1. CASE j = i
    BY <1>3, <1>5, <2>1 DEF Live
  <2>2. CASE j # i
    BY <1>5, <2>2 DEF IInv, Safe, FoundIsStored
  <2>. QED
    BY <2>1, <2>2
<1>9. SecretKept'
  BY <1>6 DEF IInv, Safe, SecretKept, Live
<1>. QED
  BY <1>5, <1>6, <1>7, <1>8, <1>9 DEF IInv, Safe, TypeInv, IsList

\* A request that fails leaves the table alone.
LEMMA RefusedStep ==
  ASSUME IInv, NEW i \in DOMAIN calls, Refused(i),
         UNCHANGED <<table, listed, got, dialog>>
  PROVE  IInv'
<1>1. calls' \in Seq(Req) /\ Follows(calls', calls, i)
  BY GoneIs DEF IInv
<1>2. Safe'
  BY <1>1, RequestsGoOn DEF IInv
<1>. QED
  BY <1>1, <1>2 DEF IInv, TypeInv, IsList, table, dialog

\* What the two statements of a save store, if they do.
LEMMA StoredIs ==
  ASSUME IInv, NEW i \in DOMAIN calls, calls[i].at = "found"
  PROVE  /\ Stored(calls[i]) \in Content
         /\ calls[i].id \notin crossed =>
              Stored(calls[i]) = IF calls[i].secret = Blank /\ calls[i].found # None
                                 THEN given[calls[i].id] ELSE calls[i].secret
<1>1. calls[i] \in Req /\ calls[i].id \in Id
  BY CallIs DEF IInv
<1>2. Stored(calls[i]) \in Content
  BY <1>1 DEF Stored, Req
<1>3. ASSUME calls[i].id \notin crossed, calls[i].secret = Blank, calls[i].found # None
      PROVE  calls[i].found = given[calls[i].id]
  <2>1. /\ rows[calls[i].id].at = "live"
        /\ rows[calls[i].id].secret = calls[i].found
    BY <1>3 DEF IInv, Safe, FoundIsStored
  <2>. QED
    BY <1>1, <1>3, <2>1 DEF IInv, Safe, SecretKept, Live
<1>. QED
  BY <1>2, <1>3 DEF Stored

LEMMA WriteStep == ASSUME IInv, NEW i \in DOMAIN calls, Write(i) PROVE IInv'
<1>. DEFINE r == calls[i]
            row == [at |-> "live", val |-> r.val, secret |-> Stored(r)]
            g == IF r.secret = Blank /\ r.found # None THEN given[r.id] ELSE r.secret
<1>1. calls[i] \in Req /\ r.id \in Id /\ r.at = "found"
  BY CallIs DEF Write, IInv
<1>2. UNCHANGED <<crossed, listed, got, dialog>>
  BY DEF Write
<1>3. CASE rows' = rows /\ given' = given /\ Refused(i)
  BY <1>2, <1>3, RefusedStep DEF table
<1>4. CASE rows' = [rows EXCEPT ![r.id] = row] /\ given' = [given EXCEPT ![r.id] = g] /\ Done(i)
  <2>1. row \in Row /\ g \in Content /\ (r.id \notin crossed => row.secret = g)
    <3>1. Stored(r) \in Content /\ (r.id \notin crossed => Stored(r) = g)
      BY <1>1, StoredIs
    <3>2. r.val \in Content /\ g \in Content
      BY <1>1 DEF Req, IInv, TypeInv
    <3>. QED
      BY <3>1, <3>2 DEF Row
  <2>2. calls' \in Seq(Req) /\ Follows(calls', calls, i)
    BY <1>4, GoneIs DEF IInv
  <2>. HIDE DEF row, g
  <2>3. Safe' /\ rows' \in [Id -> Row] /\ given' \in [Id -> Content]
    BY <1>2, <1>4, <2>1, <2>2, RowWritten DEF IInv
  <2>. QED
    BY <1>2, <2>2, <2>3 DEF IInv, TypeInv, IsList, dialog
<1>5. \/ rows' = rows /\ given' = given /\ Refused(i)
      \/ rows' = [rows EXCEPT ![r.id] = row] /\ given' = [given EXCEPT ![r.id] = g] /\ Done(i)
  BY Zenon DEF Write
<1>. QED
  BY <1>3, <1>4, <1>5

LEMMA MarkStep == ASSUME IInv, NEW i \in DOMAIN calls, Mark(i) PROVE IInv'
<1>. DEFINE id == calls[i].id
            row == IF rows[id] = Absent THEN Absent ELSE Deleted
<1>1. calls[i] \in Req /\ id \in Id
  BY CallIs DEF IInv
<1>2. UNCHANGED <<crossed, listed, got, dialog>> /\ Done(i)
  BY DEF Mark
<1>3. rows' = [rows EXCEPT ![id] = row] /\ given' = [given EXCEPT ![id] = Blank]
  <2>1. rows' = IF rows[id] = Absent THEN rows ELSE [rows EXCEPT ![id] = Deleted]
    BY Zenon DEF Mark
  <2>2. rows[id] = Absent => rows = [rows EXCEPT ![id] = Absent]
    BY <1>1 DEF IInv, TypeInv
  <2>3. given' = [given EXCEPT ![id] = Blank]
    BY Zenon DEF Mark
  <2>. QED
    BY <2>1, <2>2, <2>3
<1>4. row \in Row /\ row.at # "live"
  BY Zenon, BlankIs DEF Absent, Deleted
<1>5. calls' \in Seq(Req) /\ Follows(calls', calls, i)
  BY <1>2, GoneIs DEF IInv
<1>. HIDE DEF row
<1>6. Safe' /\ rows' \in [Id -> Row] /\ given' \in [Id -> Content]
  BY <1>2, <1>3, <1>4, <1>5, BlankIs, RowWritten DEF IInv
<1>. QED
  BY <1>2, <1>5, <1>6 DEF IInv, TypeInv, IsList, dialog

LEMMA FailStep == ASSUME IInv, NEW i \in DOMAIN calls, Fail(i) PROVE IInv'
BY RefusedStep DEF Fail

LEMMA AnswerStep == ASSUME IInv, NEW i \in DOMAIN calls, Answer(i) PROVE IInv'
<1>. DEFINE rest == RemoveAt(calls, i)
<1>1. calls \in Seq(Req)
  BY DEF IInv, TypeInv
<1>2. rest \in Seq(Req) /\ Follows(rest, calls, i)
  BY <1>1, RemoveAtIs, RemoveAtFollows
<1>3. calls' = rest \/ calls' = Left(rest)
  BY Zenon DEF Answer
<1>. HIDE DEF rest
<1>4. calls' \in Seq(Req) /\ Follows(calls', calls, i)
  BY <1>2, <1>3, LeftIs, SameFollows
<1>5. Safe'
  BY <1>4, RequestsGoOn DEF Answer, IInv
<1>6. UNCHANGED <<listed, got>> /\ UNCHANGED table
  BY DEF Answer, Invalidate
<1>7. (item' = item \/ item' = None) /\ (form' = form \/ form' = NoForm)
  BY DEF Answer, dialog
<1>. QED
  BY <1>4, <1>5, <1>6, <1>7, BlankIs DEF IInv, TypeInv, IsList, table

-----------------------------------------------------------------------------
(* The invariant and what follows from it.                                  *)

LEMMA InitIInv == Init => IInv
<1>. SUFFICES ASSUME Init PROVE IInv
  OBVIOUS
<1>1. TypeInv
  BY InitTypeInv
<1>2. calls = << >> /\ \A id \in Id : given[id] = rows[id].secret
  BY DEF Init
<1>3. SecretKept
  BY <1>2 DEF SecretKept, Live
<1>. QED
  BY <1>1, <1>2, <1>3 DEF IInv, Safe, AloneUnlessCrossed, FoundIsStored

LEMMA NextIInv == IInv /\ [Next]_vars => IInv'
<1>. SUFFICES ASSUME IInv, [Next]_vars PROVE IInv'
  OBVIOUS
<1>1. CASE UNCHANGED vars
  BY <1>1, ViewStep DEF vars, query, dialog, IInv, TypeInv
<1>2. CASE Read \/ Fetched \/ Create \/ OpenList \/ Type \/ Close \/ Save \/ ReturnReloads
  BY <1>2, ReadStep, FetchedStep, CreateStep, OpenListStep, TypeStep, CloseStep, SaveStep,
     ReturnReloadsStep
<1>5. CASE Refetch \/ Remount \/ FetchFailed
  BY <1>5, AskStep
<1>3. CASE \E id \in Id : Edit(id) \/ Add(id) \/ Select(id) \/ Delete(id)
  BY <1>3, EditStep, AddStep, SelectStep, DeleteStep
<1>4. CASE \E i \in DOMAIN calls : Find(i) \/ Write(i) \/ Mark(i) \/ Fail(i) \/ Answer(i)
  BY <1>4, FindStep, WriteStep, MarkStep, FailStep, AnswerStep
<1>. QED
  BY <1>1, <1>2, <1>3, <1>4, <1>5, Zenon DEF Next

\* What a save has found is what is stored, unless a second request for the
\* row was in flight: find-then-write in the Upsert handlers.
THEOREM Inductive == Spec => []IInv
BY InitIInv, NextIInv, PTL DEF Spec

\* A blank secret field keeps the secret that was given last: the Upsert
\* handlers copy it from the row they have found.
THEOREM BlankKeepsTheSecret == Spec => []SecretKept
<1>1. IInv => SecretKept
  BY DEF IInv, Safe
<1>. QED
  BY Inductive, <1>1, PTL

\* Only a write can bring a row back, and it finds the row or its key taken.
LEMMA StaysDeleted ==
  ASSUME IInv, [Next]_vars, NEW id \in Id \ crossed, rows[id].at = "deleted"
  PROVE  rows'[id].at = "deleted"
<1>1. CASE rows' = rows
  BY <1>1
<1>2. ASSUME NEW i \in DOMAIN calls, Write(i) PROVE rows'[id].at = "deleted"
  <2>1. CASE rows' = rows
    BY <2>1
  <2>2. CASE calls[i].id = id /\ rows' # rows
    <3>1. calls[i].found = None => FreeKey(id)
      BY <1>2, <2>2 DEF Write
    <3>2. rows[id] # Absent
      BY DEF Absent
    <3>3. calls[i].at = "found" /\ calls[i].found # None
      BY <1>2, <3>1, <3>2 DEF Write, FreeKey
    <3>4. rows[id].at = "live"
      BY <2>2, <3>3 DEF IInv, Safe, FoundIsStored
    <3>. QED
      BY <3>4
  <2>3. CASE calls[i].id # id /\ rows' # rows
    <3>1. PICK row : rows' = [rows EXCEPT ![calls[i].id] = row]
      BY Zenon, <1>2, <2>3 DEF Write
    <3>2. rows'[id] = rows[id]
      BY Zenon, <2>3, <3>1 DEF IInv, TypeInv
    <3>. QED
      BY <3>2
  <2>. QED
    BY <2>1, <2>2, <2>3
<1>3. ASSUME NEW i \in DOMAIN calls, Mark(i) PROVE rows'[id].at = "deleted"
  <2>1. calls[i].id \in Id /\ Deleted.at = "deleted" /\ rows[id] # Absent
    BY CallIs DEF Absent, Deleted, IInv
  <2>. QED
    BY <1>3, <2>1 DEF Mark, IInv, TypeInv
<1>4. CASE UNCHANGED vars
  BY <1>4, <1>1 DEF vars, table
<1>5. CASE Read \/ Fetched \/ Create \/ OpenList \/ Type \/ Close \/ Save \/ ReturnReloads
  BY <1>5, <1>1 DEF Read, Fetched, Create, OpenList, Type, Close, Save, ReturnReloads, Send, table
<1>6. CASE \E x \in Id : Edit(x) \/ Add(x) \/ Select(x) \/ Delete(x)
  BY <1>6, <1>1 DEF Edit, Add, Select, Delete, Send, table
<1>7. CASE \E i \in DOMAIN calls : Find(i) \/ Fail(i) \/ Answer(i)
  BY <1>7, <1>1 DEF Find, Fail, Answer, table
<1>8. CASE Refetch \/ Remount \/ FetchFailed
  BY <1>8, <1>1 DEF Refetch, Remount, FetchFailed, table
<1>. QED
  BY <1>2, <1>3, <1>4, <1>5, <1>6, <1>7, <1>8, Zenon DEF Next

\* What was deleted stays deleted, whatever lists and forms still show it and
\* are saved later: FindOne leaves out the marked rows and Insert fails on
\* their primary key.
THEOREM DeletedRowsStay == Spec => DeletedStays
<1>1. IInv /\ [Next]_vars =>
        [\A id \in Id \ crossed : rows[id].at = "deleted" => rows'[id].at = "deleted"]_vars
  BY StaysDeleted
<1>. QED
  BY Inductive, <1>1, PTL DEF Spec, DeletedStays

-----------------------------------------------------------------------------
(* The list and the tree of the sidebar.                                    *)

\* A write that has not been answered is going to have the list asked for.
Unanswered == \E i \in DOMAIN calls : calls[i].at = "done"

\* What the list shows, or its request has read, is stored, unless something
\* was written since.
ListFollows ==
  /\ fetch \in {"idle", "asked", "read", "failed"}
  /\ fetch = "idle" => loaded
  /\ ~Unanswered /\ ~behind =>
       /\ fetch = "idle" => listed = Contents
       /\ fetch = "read" => got = Contents

\* A step that writes nothing, answers nothing and asks for no list.
LEMMA ListUntouched ==
  ASSUME ListFollows, UNCHANGED <<rows, query>>, Unanswered => Unanswered'
  PROVE  ListFollows'
BY DEF ListFollows, query, Contents, Live

LEMMA DoneStays ==
  ASSUME NEW cs, DOMAIN calls \subseteq DOMAIN cs, calls' = cs,
         \A i \in DOMAIN calls : cs[i].at = calls[i].at
  PROVE  Unanswered => Unanswered'
BY DEF Unanswered

LEMMA AppendIs ==
  ASSUME NEW cs \in Seq(Req), NEW r \in Req
  PROVE  /\ DOMAIN cs \subseteq DOMAIN Append(cs, r)
         /\ \A i \in DOMAIN cs : Append(cs, r)[i] = cs[i]
OBVIOUS

LEMMA SendKeepsDone ==
  ASSUME TypeInv, NEW r \in Req, Send(r)
  PROVE  Unanswered => Unanswered'
<1>1. calls \in Seq(Req) /\ calls' = Append(calls, r)
  BY DEF TypeInv, Send
<1>. QED
  BY <1>1, AppendIs DEF Unanswered

\* A request that was not answered yet goes, the others are where they were.
LEMMA RefusedKeepsDone ==
  ASSUME TypeInv, NEW i \in DOMAIN calls, calls' = RemoveAt(calls, i), calls[i].at # "done"
  PROVE  Unanswered => Unanswered'
<1>. DEFINE ds == RemoveAt(calls, i)
<1>1. /\ calls \in Seq(Req) /\ DOMAIN ds = 1..(Len(calls) - 1)
      /\ \A j \in DOMAIN ds : ds[j] = calls[IF j < i THEN j ELSE j + 1]
  BY CallIs, RemoveAtIs
<1>2. DOMAIN calls = 1..Len(calls) /\ Len(calls) \in Nat
  BY <1>1
<1>. HIDE DEF ds
<1>3. ASSUME NEW k \in DOMAIN calls, calls[k].at = "done"
      PROVE  \E j \in DOMAIN ds : ds[j].at = "done"
  <2>1. CASE k < i
    <3>1. k \in DOMAIN ds /\ ds[k] = calls[k]
      BY <1>1, <1>2, <2>1
    <3>. QED
      BY <1>3, <3>1
  <2>2. CASE k > i
    <3>1. k - 1 \in DOMAIN ds /\ ds[k - 1] = calls[IF k - 1 < i THEN k - 1 ELSE (k - 1) + 1]
      BY <1>1, <1>2, <2>2
    <3>2. ds[k - 1] = calls[k]
      BY <1>2, <2>2, <3>1
    <3>. QED
      BY <1>3, <3>1, <3>2
  <2>3. k # i
    BY <1>3
  <2>. QED
    BY <1>2, <2>1, <2>2, <2>3
<1>. QED
  BY <1>3 DEF Unanswered, ds

\* Something is written: the page that is there will be told, one that is not
\* notes it.
LEMMA WrittenList ==
  ASSUME ListFollows, TypeInv, NEW i \in DOMAIN calls, Done(i), UNCHANGED <<listed, loaded, fetch, got>>
  PROVE  ListFollows'
<1>1. CASE calls' = [calls EXCEPT ![i].at = "done"]
  <2>1. calls \in Seq(Req) /\ calls[i] \in Req
    BY CallIs
  <2>2. i \in DOMAIN calls' /\ calls'[i].at = "done"
    BY <1>1, <2>1 DEF Req
  <2>. QED
    BY <2>2 DEF ListFollows, Unanswered
<1>2. CASE behind' = (behind \/ fetch # "asked")
  BY <1>2 DEF ListFollows
<1>. QED
  BY <1>1, <1>2 DEF Done

LEMMA ListStep == ASSUME IInv, ListFollows, [Next]_vars PROVE ListFollows'
<1>. USE DEF IInv
<1>0. calls \in Seq(Req) /\ form \in Form
  BY DEF TypeInv
<1>1. CASE Read
  BY <1>1 DEF Read, ListFollows, Contents, Live, table, Unanswered
<1>2. CASE Fetched
  BY <1>2 DEF Fetched, ListFollows, Contents, Live, table, Unanswered
<1>16. CASE Remount \/ FetchFailed
  BY <1>16 DEF Remount, FetchFailed, ListFollows, Contents, Live, table, Unanswered
<1>17. CASE Refetch
  <2>1. Invalidate("refetch") /\ UNCHANGED <<rows, calls>>
    BY <1>17 DEF Refetch, table
  <2>. QED
    BY <2>1 DEF Invalidate, ListFollows, Contents, Live, Unanswered
<1>3. CASE Create \/ OpenList \/ Type \/ \E id \in Id : Edit(id) \/ Add(id) \/ Select(id)
  <2>1. UNCHANGED <<rows, query, calls>>
    BY <1>3 DEF Create, OpenList, Type, Edit, Add, Select, table
  <2>. QED
    BY <2>1, ListUntouched DEF Unanswered
<1>4. CASE Close
  <2>1. Unanswered => Unanswered'
    BY <1>0, <1>4, LeftIs DEF Close, Unanswered
  <2>. QED
    BY <1>4, <2>1, ListUntouched DEF Close, table
<1>5. ASSUME NEW r \in Req, Send(r), UNCHANGED query PROVE ListFollows'
  BY <1>5, SendKeepsDone, ListUntouched DEF Send
<1>6. CASE Save
  <2>1. PICK id \in Id : Send(Request("save", id, form, "this"))
    BY <1>6 DEF Save
  <2>2. Request("save", id, form, "this") \in Req
    BY <1>0, RequestIs
  <2>. QED
    BY <1>5, <1>6, <2>1, <2>2 DEF Save
<1>7. ASSUME NEW id \in Id, Delete(id) PROVE ListFollows'
  <2>1. PICK whose \in {"this", "gone", "dead"} : Send(Request("delete", id, NoForm, whose))
    BY <1>7 DEF Delete
  <2>2. Request("delete", id, NoForm, whose) \in Req
    BY BlankIs, RequestIs
  <2>. QED
    BY <1>5, <1>7, <2>1, <2>2 DEF Delete
<1>8. CASE ReturnReloads
  BY <1>8 DEF ReturnReloads, ListFollows
<1>9. ASSUME NEW i \in DOMAIN calls, Find(i) PROVE ListFollows'
  <2>1. \A j \in DOMAIN calls : j \in DOMAIN calls' /\ (j # i => calls'[j] = calls[j])
    BY <1>0, <1>9 DEF Find
  <2>2. calls[i].at # "done"
    BY <1>9 DEF Find
  <2>. QED
    BY <1>9, <2>1, <2>2, ListUntouched DEF Find, table, Unanswered
<1>10. ASSUME NEW i \in DOMAIN calls, Refused(i), calls[i].at # "done",
              UNCHANGED <<rows, listed, loaded, fetch, got>>
       PROVE  ListFollows'
  BY <1>10, RefusedKeepsDone, ListUntouched DEF Refused, query
<1>11. ASSUME NEW i \in DOMAIN calls, Fail(i) PROVE ListFollows'
  BY <1>10, <1>11 DEF Fail, table
<1>12. ASSUME NEW i \in DOMAIN calls, Write(i) PROVE ListFollows'
  <2>1. calls[i].at = "found" /\ UNCHANGED <<listed, loaded, fetch, got>>
    BY <1>12 DEF Write
  <2>2. Done(i) \/ (rows' = rows /\ Refused(i))
    BY <1>12 DEF Write
  <2>. QED
    BY <1>10, <2>1, <2>2, WrittenList
<1>13. ASSUME NEW i \in DOMAIN calls, Mark(i) PROVE ListFollows'
  BY <1>13, WrittenList DEF Mark
<1>14. ASSUME NEW i \in DOMAIN calls, Answer(i) PROVE ListFollows'
  <2>1. Invalidate(calls[i].op) /\ UNCHANGED rows
    BY <1>14 DEF Answer, table
  <2>. QED
    BY <2>1 DEF Invalidate, ListFollows, Contents, Live
<1>15. CASE UNCHANGED vars
  BY <1>15, ListUntouched DEF vars, table, Unanswered
<1>. QED
  BY <1>1, <1>2, <1>3, <1>4, <1>6, <1>7, <1>8, <1>9, <1>11, <1>12, <1>13, <1>14, <1>15, <1>16, <1>17, Zenon DEF Next

\* When nothing is under way, the last request for the list did not fail, and no
\* page was lost with an answer on its way to it, the list is what is stored, and the tree of the sidebar lacks exactly
\* the connections whose group was deleted.
THEOREM SidebarHolds == Spec => []SidebarShowsWhatIsStored
<1>1. Init => ListFollows
  BY DEF Init, ListFollows
<1>2. IInv /\ ListFollows /\ [Next]_vars => ListFollows'
  BY ListStep
<1>3. ListFollows => SidebarShowsWhatIsStored
  <2>. SUFFICES ASSUME ListFollows, calls = << >>, fetch = "idle", ~behind
                PROVE  /\ listed = Contents
                       /\ Member \ InTree = {m \in Member : GroupOf[m] \notin Live \cup {None}}
    BY DEF SidebarShowsWhatIsStored
  <2>1. listed = Contents
    BY DEF ListFollows, Unanswered
  <2>2. DOMAIN listed = Live
    BY <2>1 DEF Contents
  <2>. QED
    BY <2>1, <2>2 DEF InTree
<1>. QED
  BY Inductive, <1>1, <1>2, <1>3, PTL DEF Spec

-----------------------------------------------------------------------------
(* What is typed.                                                           *)

\* No list that arrives, no request that goes out, is found, written, marked or
\* refused, and no answer but that of a save of a connection or a group and of
\* a deletion of a profile takes away what was typed into a form.
THEOREM EditsHold == Spec => EditsSurvive
<1>. DEFINE Excused ==
       \/ Type \/ Close \/ ReturnReloads
       \/ \E id \in Id : Add(id) \/ Select(id)
       \/ \E i \in DOMAIN calls : Answer(i) /\ (calls[i].op = "save") = Single
<1>1. [Next]_vars => [Typed /\ (form' # form \/ ~Mounted') => Excused]_vars
  <2>. SUFFICES ASSUME [Next]_vars, Typed, form' # form \/ ~Mounted'
                PROVE  Excused
    OBVIOUS
  <2>1. open /\ item # None
    BY DEF Typed, Mounted
  <2>2. ~UNCHANGED dialog
    BY <2>1 DEF dialog, Mounted
  <2>3. ~Read /\ ~Save /\ ~UNCHANGED vars
    BY <2>2 DEF Read, Save, vars
  <2>4. ~Fetched /\ ~Refetch /\ ~Remount /\ ~FetchFailed
    BY <2>2 DEF Fetched, KeepsForm, Refetch, Remount, FetchFailed, dialog
  <2>5. ~Create /\ ~OpenList
    BY <2>1 DEF Create, OpenList
  <2>6. ASSUME NEW id \in Id, Edit(id) \/ Delete(id) PROVE FALSE
    BY <2>1, <2>2, <2>6 DEF Edit, Delete
  <2>7. ASSUME NEW i \in DOMAIN calls, Find(i) \/ Write(i) \/ Mark(i) \/ Fail(i) PROVE FALSE
    BY <2>2, <2>7 DEF Find, Write, Mark, Fail
  <2>8. ASSUME NEW i \in DOMAIN calls, Answer(i) PROVE (calls[i].op = "save") = Single
    BY <2>2, <2>8 DEF Answer, Single
  <2>. QED
    BY <2>3, <2>4, <2>5, <2>6, <2>7, <2>8 DEF Next
<1>. QED
  BY <1>1, PTL DEF Spec, EditsSurvive

-----------------------------------------------------------------------------
(* Secrets.  The rows before the one at work are sealed: those of the       *)
(* tables that are done, those of this table that are written back, and all *)
(* of them from the flag on.  A row that no handler has written since it    *)
(* was read is as it was read.  No layer is put on another one, so that a   *)
(* value opens as a whole or not at all.                                    *)

Layers == Seq(MasterKey)
StoredRow == [at : {"none", "live", "deleted"}, word : Plain, layers : Layers]
ReadRow == [entry : Entry, word : Plain, layers : Layers]
Stage == {"schema", "check", "read", "write", "flag", "over"}

SecretsTypeInv ==
  /\ stored \in [Entry -> StoredRow] /\ column \in BOOLEAN /\ flag \in BOOLEAN
  /\ codec \in MasterKey /\ stage \in Stage /\ tableNo \in 1..Tables
  /\ todo \subseteq ReadRow /\ raced \subseteq Entry
  /\ \A h \in DOMAIN held : held[h] \in ReadRow

Alive(e) == stored[e].at = "live"
Waiting == {c.entry : c \in todo}

Behind(e) ==
  \/ stage \in {"read", "write"} /\ TableOf[e] < tableNo
  \/ stage = "write" /\ TableOf[e] = tableNo /\ e \notin Waiting
  \/ stage = "flag"
  \/ flag

LayersOfOneKey ==
  /\ OpensWithOneKey
  /\ \A c \in todo : OneKey(c.layers)
  /\ \A h \in DOMAIN held : OneKey(held[h].layers)
HasColumn == (stage \in {"write", "flag"} \/ tableNo > 1 \/ flag) => column
SealedBehind == \A e \in Entry : Behind(e) /\ Alive(e) => IsEncrypted(stored[e].layers)
ReadIsStored == \A c \in todo : c.entry \notin raced => Alive(c.entry) /\ Opened(c.entry) = c
WaitingInWrite == todo # {} => stage = "write"

SecretsIInv ==
  /\ SecretsTypeInv /\ LayersOfOneKey /\ HasColumn /\ SealedBehind /\ ReadIsStored
  /\ WaitingInWrite

-----------------------------------------------------------------------------
(* What sealing and opening do.                                             *)

LEMMA NoLayers == << >> \in Layers /\ OneKey(<< >>)
BY DEF Layers, OneKey

\* A value under seals of one key is opened as a whole, or left as it is.
LEMMA OpensAll ==
  ASSUME NEW key \in MasterKey, NEW layers \in Layers, OneKey(layers)
  PROVE  openSecret(key, layers) = IF layers # << >> /\ layers[1] = key THEN << >> ELSE layers
<1> DEFINE Stuck(n) == /\ \A i \in (n + 1)..Len(layers) : layers[i] = key
                       /\ n > 0 => layers[n] # key
           top == CHOOSE n \in 0..Len(layers) : Stuck(n)
           left == IF layers # << >> /\ layers[1] = key THEN 0 ELSE Len(layers)
<1>1. /\ layers \in Seq(MasterKey) /\ Len(layers) \in Nat
      /\ DOMAIN layers = 1..Len(layers) /\ (layers = << >> <=> Len(layers) = 0)
  BY DEF Layers
<1>2. \A i, j \in 1..Len(layers) : layers[i] = layers[j]
  BY <1>1 DEF OneKey
<1>3. left \in 0..Len(layers) /\ Stuck(left)
  BY <1>1, <1>2
<1>4. top \in 0..Len(layers) /\ Stuck(top)
  <2>. HIDE DEF left
  <2>. QED
    BY <1>3
<1>5. top = left
  <2>. HIDE DEF top
  <2>1. CASE layers # << >> /\ layers[1] = key
    <3>1. ~(top > 0)
      BY <1>1, <1>2, <1>4, <2>1
    <3>. QED
      BY <1>4, <2>1, <3>1
  <2>2. CASE layers = << >>
    BY <1>1, <1>4, <2>2
  <2>3. CASE layers # << >> /\ layers[1] # key
    <3>1. ~(top < Len(layers))
      <4>. SUFFICES ASSUME top < Len(layers) PROVE FALSE
        OBVIOUS
      <4>1. Len(layers) \in (top + 1)..Len(layers) /\ 1 \in 1..Len(layers) /\ Len(layers) \in 1..Len(layers)
        BY <1>1, <1>4
      <4>2. layers[Len(layers)] = key
        BY <1>4, <4>1
      <4>. QED
        BY <1>2, <2>3, <4>1, <4>2
    <3>2. top = Len(layers)
      <4>1. top \in 0..Len(layers) /\ Len(layers) \in Nat
        BY <1>1, <1>4
      <4>. HIDE DEF Stuck, left
      <4>. QED
        BY <3>1, <4>1
    <3>. QED
      BY <2>3, <3>2
  <2>. QED
    BY <2>1, <2>2, <2>3
<1>6. openSecret(key, layers) = SubSeq(layers, 1, top)
  BY DEF openSecret
<1>7. SubSeq(layers, 1, Len(layers)) = layers
  BY <1>1, SubSeqFull
<1>8. SubSeq(layers, 1, 0) = << >>
  BY SubSeqEmpty
<1>9. SubSeq(layers, 1, left) = IF layers # << >> /\ layers[1] = key THEN << >> ELSE layers
  BY <1>7, <1>8
<1>. QED
  <2>. HIDE DEF top, left
  <2>. QED
    BY <1>5, <1>6, <1>9

\* What is written is sealed, under one key, and opens to what was to be written.
LEMMA SealIs ==
  ASSUME NEW key \in MasterKey, NEW layers \in Layers, OneKey(layers)
  PROVE  /\ sealSecret(key, layers) \in Layers /\ OneKey(sealSecret(key, layers))
         /\ IsEncrypted(sealSecret(key, layers))
<1>1. <<key>> \in Layers /\ <<key>> # << >> /\ OneKey(<<key>>)
  BY DEF Layers, OneKey
<1>. QED
  BY <1>1 DEF sealSecret, IsEncrypted

LEMMA OpenIs ==
  ASSUME NEW key \in MasterKey, NEW layers \in Layers, OneKey(layers)
  PROVE  /\ openSecret(key, layers) \in Layers /\ OneKey(openSecret(key, layers))
         /\ openSecret(key, sealSecret(key, openSecret(key, layers))) = openSecret(key, layers)
<1>1. << >> \in Layers /\ OneKey(<< >>)
  BY NoLayers
<1>2. openSecret(key, layers) = << >> \/ openSecret(key, layers) = layers
  BY OpensAll
<1>3. CASE openSecret(key, layers) = << >>
  <2>1. sealSecret(key, << >>) = <<key>>
    BY DEF sealSecret, IsEncrypted
  <2>2. <<key>> \in Layers /\ OneKey(<<key>>) /\ <<key>> # << >> /\ <<key>>[1] = key
    BY DEF Layers, OneKey
  <2>3. openSecret(key, <<key>>) = << >>
    BY <2>2, OpensAll
  <2>. QED
    BY <1>1, <1>3, <2>1, <2>3
<1>4. CASE openSecret(key, layers) = layers /\ layers # << >>
  BY <1>4 DEF sealSecret, IsEncrypted
<1>. QED
  BY <1>2, <1>3, <1>4

\* What has been read of a row, and what writing it does.
LEMMA OpenedIs ==
  ASSUME SecretsTypeInv, OpensWithOneKey, NEW e \in Entry
  PROVE  Opened(e) \in ReadRow /\ OneKey(Opened(e).layers) /\ Opened(e).entry = e
<1>1. codec \in MasterKey /\ stored[e].word \in Plain /\ stored[e].layers \in Layers /\ OneKey(stored[e].layers)
  BY DEF SecretsTypeInv, OpensWithOneKey, StoredRow
<1>2. openSecret(codec, stored[e].layers) \in Layers /\ OneKey(openSecret(codec, stored[e].layers))
  BY <1>1, OpenIs
<1>. QED
  BY <1>1, <1>2 DEF Opened, ReadRow

Put(copy) == [at |-> "live", word |-> copy.word, layers |-> sealSecret(codec, copy.layers)]

LEMMA PutIs ==
  ASSUME SecretsTypeInv, NEW copy \in ReadRow, OneKey(copy.layers)
  PROVE  /\ Put(copy) \in StoredRow /\ Put(copy).at = "live"
         /\ Put(copy).word = copy.word
         /\ Put(copy).layers = sealSecret(codec, copy.layers)
         /\ OneKey(Put(copy).layers) /\ IsEncrypted(Put(copy).layers)
<1>1. codec \in MasterKey /\ copy.layers \in Layers /\ copy.word \in Plain
  BY DEF ReadRow, SecretsTypeInv
<1>2. /\ sealSecret(codec, copy.layers) \in Layers /\ OneKey(sealSecret(codec, copy.layers))
      /\ IsEncrypted(sealSecret(codec, copy.layers))
  BY <1>1, SealIs
<1>. QED
  BY <1>1, <1>2 DEF Put, StoredRow

Puts(copy) ==
  /\ copy \in ReadRow /\ OneKey(copy.layers)
  /\ stored' \in [Entry -> StoredRow]
  /\ stored'[copy.entry] = Put(copy)
  /\ \A e \in Entry \ {copy.entry} : stored'[e] = stored[e]

LEMMA WrittenIs ==
  ASSUME SecretsTypeInv, NEW copy \in ReadRow, OneKey(copy.layers), stored' = Written(copy)
  PROVE  Puts(copy)
<1>1. copy.entry \in Entry /\ stored \in [Entry -> StoredRow] /\ Put(copy) \in StoredRow
  BY PutIs DEF ReadRow, SecretsTypeInv
<1>2. stored' = [stored EXCEPT ![copy.entry] = Put(copy)]
  BY DEF Written, Put
<1>. QED
  BY <1>1, <1>2 DEF Puts

-----------------------------------------------------------------------------
(* The steps.  Which row a step writes, and that it is a row.               *)

LEMMA SaveRowPuts ==
  ASSUME SecretsTypeInv, LayersOfOneKey, NEW h \in Handler, SaveRow(h)
  PROVE  \E copy \in ReadRow : copy.entry = held[h].entry /\ Puts(copy)
<1>1. held[h] \in ReadRow /\ OneKey(held[h].layers)
  BY DEF SaveRow, SecretsTypeInv, LayersOfOneKey
<1>2. PICK copy \in {held[h]} \cup {[held[h] EXCEPT !.word = w, !.layers = << >>] : w \in Plain} :
        stored' = Written(copy)
  BY DEF SaveRow
<1>3. << >> \in Layers /\ OneKey(<< >>)
  BY NoLayers
<1>4. copy \in ReadRow /\ OneKey(copy.layers) /\ copy.entry = held[h].entry
  <2>1. CASE copy = held[h]
    BY <1>1, <2>1
  <2>2. ASSUME NEW w \in Plain, copy = [held[h] EXCEPT !.word = w, !.layers = << >>]
        PROVE  copy \in ReadRow /\ OneKey(copy.layers) /\ copy.entry = held[h].entry
    <3>1. copy = [entry |-> held[h].entry, word |-> w, layers |-> << >>]
      BY <1>1, <2>2 DEF ReadRow
    <3>2. held[h].entry \in Entry
      BY <1>1 DEF ReadRow
    <3>3. copy \in ReadRow
      BY <1>3, <3>1, <3>2 DEF ReadRow
    <3>4. copy.layers = << >> /\ copy.entry = held[h].entry
      BY <3>1
    <3>. QED
      BY <1>3, <3>3, <3>4
  <2>. QED
    BY <2>1, <2>2
<1>. QED
  BY <1>2, <1>4, WrittenIs

LEMMA InsertRowPuts ==
  ASSUME SecretsTypeInv, NEW e \in Entry, InsertRow(e)
  PROVE  \E copy \in ReadRow : copy.entry = e /\ Puts(copy)
<1>1. PICK w \in Plain : stored' = Written([entry |-> e, word |-> w, layers |-> << >>])
  BY DEF InsertRow
<1>2. << >> \in Layers /\ OneKey(<< >>)
  BY NoLayers
<1> DEFINE copy == [entry |-> e, word |-> w, layers |-> << >>]
<1>3. copy \in ReadRow /\ copy.layers = << >> /\ copy.entry = e
  BY <1>2 DEF ReadRow
<1>4. stored' = Written(copy)
  BY <1>1
<1>. HIDE DEF copy
<1>5. Puts(copy)
  BY <1>2, <1>3, <1>4, WrittenIs
<1>. QED
  BY <1>3, <1>5

LEMMA ResealPuts ==
  ASSUME SecretsTypeInv, LayersOfOneKey, NEW copy \in todo, Reseal(copy)
  PROVE  copy \in ReadRow /\ Puts(copy)
<1>1. copy \in ReadRow /\ OneKey(copy.layers)
  BY DEF SecretsTypeInv, LayersOfOneKey
<1>. QED
  BY <1>1, WrittenIs DEF Reseal

LEMMA DeleteRowIs ==
  ASSUME SecretsTypeInv, NEW e \in Entry, DeleteRow(e)
  PROVE  /\ stored' \in [Entry -> StoredRow]
         /\ stored'[e].at = "deleted" /\ stored'[e].layers = stored[e].layers
         /\ \A f \in Entry \ {e} : stored'[f] = stored[f]
<1>1. stored[e] \in StoredRow /\ stored \in [Entry -> StoredRow]
  BY DEF SecretsTypeInv
<1>2. /\ [stored[e] EXCEPT !.at = "deleted"] \in StoredRow
      /\ [stored[e] EXCEPT !.at = "deleted"].at = "deleted"
      /\ [stored[e] EXCEPT !.at = "deleted"].layers = stored[e].layers
  BY <1>1 DEF StoredRow
<1>3. stored' = [stored EXCEPT ![e] = [stored[e] EXCEPT !.at = "deleted"]]
  BY DEF DeleteRow
<1> DEFINE row == [stored[e] EXCEPT !.at = "deleted"]
<1>4. stored' = [stored EXCEPT ![e] = row] /\ row \in StoredRow
  BY <1>2, <1>3
<1>5. row.at = "deleted" /\ row.layers = stored[e].layers
  BY <1>2
<1>. HIDE DEF row
<1>6. /\ stored' \in [Entry -> StoredRow] /\ stored'[e] = row
      /\ \A f \in Entry \ {e} : stored'[f] = stored[f]
  BY <1>1, <1>4
<1>. QED
  BY <1>5, <1>6

LEMMA FindAllRowsIs ==
  ASSUME SecretsTypeInv, OpensWithOneKey, FindAllRows
  PROVE  /\ todo' \subseteq ReadRow
         /\ \A c \in todo' : OneKey(c.layers) /\ Alive(c.entry) /\ Opened(c.entry) = c
         /\ \A e \in Entry : TableOf[e] = tableNo /\ Alive(e) => Opened(e) \in todo'
<1> DEFINE Of == {d \in Entry : TableOf[d] = tableNo /\ Visible(d)}
<1>1. todo' = {Opened(e) : e \in Of}
  BY DEF FindAllRows
<1>2. ASSUME NEW c \in todo'
      PROVE  c \in ReadRow /\ OneKey(c.layers) /\ Alive(c.entry) /\ Opened(c.entry) = c
  <2>1. PICK e \in Of : c = Opened(e)
    BY <1>1
  <2>2. e \in Entry /\ Alive(e)
    BY DEF Visible, Alive
  <2>3. Opened(e) \in ReadRow /\ OneKey(Opened(e).layers) /\ Opened(e).entry = e
    BY <2>2, OpenedIs
  <2>. QED
    BY Zenon, <2>1, <2>2, <2>3
<1>3. ASSUME NEW e \in Entry, TableOf[e] = tableNo, Alive(e) PROVE Opened(e) \in todo'
  <2>1. Visible(e)
    BY <1>3 DEF Visible, Usable, Alive, FindAllRows
  <2>2. e \in Of
    BY <1>3, <2>1
  <2>. QED
    BY <1>1, <2>2
<1>. QED
  BY <1>2, <1>3

\* Each step keeps the types.
LEMMA SecretsTypesKept == SecretsIInv /\ [SecretsNext]_secretsVars => SecretsTypeInv'
<1>. SUFFICES ASSUME SecretsIInv, [SecretsNext]_secretsVars PROVE SecretsTypeInv'
  OBVIOUS
<1>. USE DEF SecretsIInv
<1>1. ASSUME NEW h \in Handler, SaveRow(h) PROVE SecretsTypeInv'
  <2>1. stored' \in [Entry -> StoredRow] /\ held[h].entry \in Entry
    BY <1>1, SaveRowPuts DEF Puts, SaveRow, SecretsTypeInv, ReadRow
  <2>2. raced' \subseteq Entry
    BY <1>1 DEF SaveRow, Racing, SecretsTypeInv, ReadRow
  <2>3. \A g \in DOMAIN held' : held'[g] \in ReadRow
    BY <1>1 DEF SaveRow, Restrict, SecretsTypeInv
  <2>. QED
    BY <1>1, <2>1, <2>2, <2>3 DEF SaveRow, SecretsTypeInv
<1>2. ASSUME NEW h \in Handler, GiveUp(h) PROVE SecretsTypeInv'
  <2>1. \A g \in DOMAIN held' : held'[g] \in ReadRow
    BY <1>2 DEF GiveUp, Restrict, SecretsTypeInv
  <2>. QED
    BY <1>2, <2>1 DEF GiveUp, SecretsTypeInv, database, migration
<1>3. ASSUME NEW h \in Handler, NEW e \in Entry, FindRow(h, e) PROVE SecretsTypeInv'
  <2>1. Opened(e) \in ReadRow
    BY OpenedIs DEF LayersOfOneKey
  <2>2. \A g \in DOMAIN held' : held'[g] \in ReadRow
    BY <1>3, <2>1 DEF FindRow, SecretsTypeInv
  <2>. QED
    BY <1>3, <2>2 DEF FindRow, SecretsTypeInv, database, migration
<1>4. ASSUME NEW e \in Entry, InsertRow(e) PROVE SecretsTypeInv'
  <2>1. stored' \in [Entry -> StoredRow]
    BY <1>4, InsertRowPuts DEF Puts
  <2>. QED
    BY <1>4, <2>1 DEF InsertRow, SecretsTypeInv, migration
<1>5. ASSUME NEW e \in Entry, DeleteRow(e) PROVE SecretsTypeInv'
  <2>1. stored' \in [Entry -> StoredRow]
    BY <1>5, DeleteRowIs
  <2>2. raced' \subseteq Entry
    BY <1>5 DEF DeleteRow, Racing, SecretsTypeInv, ReadRow
  <2>. QED
    BY <1>5, <2>1, <2>2 DEF DeleteRow, SecretsTypeInv
<1>6. CASE MigrateSchema
  BY <1>6 DEF MigrateSchema, SecretsTypeInv, Stage
<1>7. CASE CheckFlag
  BY <1>7, SecretsAssumption DEF CheckFlag, SecretsTypeInv, Stage, database
<1>8. CASE FindAllRows
  <2>1. todo' \subseteq ReadRow
    BY <1>8, FindAllRowsIs DEF LayersOfOneKey
  <2>. QED
    BY <1>8, <2>1 DEF FindAllRows, SecretsTypeInv, Stage, database
<1>9. CASE NextTable
  <2>1. tableNo' \in 1..Tables /\ stage' \in Stage
    BY <1>9, SecretsAssumption DEF NextTable, SecretsTypeInv, Stage
  <2>. QED
    BY <1>9, <2>1 DEF NextTable, SecretsTypeInv, database
<1>10. CASE InsertFlag
  BY <1>10 DEF InsertFlag, SecretsTypeInv, Stage
<1>11. CASE MigrationFails
  BY <1>11 DEF MigrationFails, SecretsTypeInv, Stage, database
<1>12. ASSUME NEW copy \in todo, Reseal(copy) PROVE SecretsTypeInv'
  <2>1. stored' \in [Entry -> StoredRow]
    BY <1>12, ResealPuts DEF Puts
  <2>. QED
    BY <1>12, <2>1 DEF Reseal, SecretsTypeInv
<1>13. CASE Restart
  <2>1. DOMAIN held' = {}
    BY <1>13 DEF Restart
  <2>. QED
    BY <1>13, <2>1, SecretsAssumption DEF Restart, SecretsTypeInv, Stage, database
<1>14. CASE UNCHANGED secretsVars
  BY <1>14 DEF secretsVars, database, migration, SecretsTypeInv
<1>. QED
  BY <1>1, <1>2, <1>3, <1>4, <1>5, <1>6, <1>7, <1>8, <1>9, <1>10, <1>11, <1>12, <1>13, <1>14
     DEF SecretsNext, Serve, Migrate

-----------------------------------------------------------------------------
(* Where the migration is: what is read waits in "write" only, and whoever  *)
(* is past the connections has found the column.                            *)

LEMMA WaitingKept == SecretsIInv /\ [SecretsNext]_secretsVars => WaitingInWrite' /\ HasColumn'
<1>. SUFFICES ASSUME SecretsIInv, [SecretsNext]_secretsVars PROVE WaitingInWrite' /\ HasColumn'
  OBVIOUS
<1>. USE DEF SecretsIInv, WaitingInWrite, HasColumn
<1>1. CASE Serve
  <2>1. /\ UNCHANGED <<column, flag, stage, tableNo, todo>>
    BY <1>1 DEF Serve, SaveRow, GiveUp, FindRow, InsertRow, DeleteRow, database, migration
  <2>. QED
    BY <2>1
<1>2. CASE MigrateSchema
  <2>1. column' = TRUE \/ column' = column
    BY <1>2 DEF MigrateSchema
  <2>2. tableNo' = tableNo /\ flag' = flag /\ todo' = todo /\ stage = "schema" /\ stage' = "check"
    BY <1>2 DEF MigrateSchema
  <2>. QED
    BY <2>1, <2>2
<1>3. CASE CheckFlag
  BY <1>3 DEF CheckFlag, database
<1>4. CASE FindAllRows
  <2>1. column
    BY <1>4 DEF FindAllRows, SecretsTypeInv
  <2>. QED
    BY <1>4, <2>1 DEF FindAllRows, database
<1>5. CASE NextTable
  BY <1>5 DEF NextTable, database
<1>6. CASE InsertFlag
  BY <1>6 DEF InsertFlag
<1>7. CASE MigrationFails
  BY <1>7 DEF MigrationFails, database
<1>8. ASSUME NEW copy \in todo, Reseal(copy) PROVE WaitingInWrite' /\ HasColumn'
  BY <1>8 DEF Reseal
<1>9. CASE Restart
  BY <1>9 DEF Restart, database
<1>10. CASE UNCHANGED secretsVars
  BY <1>10 DEF secretsVars, database, migration
<1>. QED
  BY <1>1, <1>2, <1>3, <1>4, <1>5, <1>6, <1>7, <1>8, <1>9, <1>10 DEF SecretsNext, Migrate

-----------------------------------------------------------------------------
(* One key for all the layers of a value.                                   *)

LEMMA PutKeepsOneKey ==
  ASSUME OpensWithOneKey, SecretsTypeInv, NEW copy, Puts(copy)
  PROVE  OpensWithOneKey'
<1>1. OneKey(stored'[copy.entry].layers)
  BY PutIs DEF Puts
<1>2. \A e \in Entry : e # copy.entry => OneKey(stored'[e].layers)
  BY DEF Puts, OpensWithOneKey
<1>. QED
  BY Zenon, <1>1, <1>2 DEF OpensWithOneKey

LEMMA LayersKept == SecretsIInv /\ [SecretsNext]_secretsVars => LayersOfOneKey'
<1>. SUFFICES ASSUME SecretsIInv, [SecretsNext]_secretsVars PROVE LayersOfOneKey'
  OBVIOUS
<1>. USE DEF SecretsIInv, LayersOfOneKey
<1>1. ASSUME NEW h \in Handler, SaveRow(h) PROVE LayersOfOneKey'
  <2>1. OpensWithOneKey'
    BY <1>1, SaveRowPuts, PutKeepsOneKey
  <2>. QED
    BY <1>1, <2>1 DEF SaveRow, Restrict
<1>2. ASSUME NEW h \in Handler, GiveUp(h) PROVE LayersOfOneKey'
  BY <1>2 DEF GiveUp, Restrict, OpensWithOneKey, database, migration
<1>3. ASSUME NEW h \in Handler, NEW e \in Entry, FindRow(h, e) PROVE LayersOfOneKey'
  <2>1. OneKey(Opened(e).layers)
    BY OpenedIs
  <2>. QED
    BY <1>3, <2>1 DEF FindRow, OpensWithOneKey, database, migration
<1>4. ASSUME NEW e \in Entry, InsertRow(e) PROVE LayersOfOneKey'
  <2>1. OpensWithOneKey'
    BY <1>4, InsertRowPuts, PutKeepsOneKey
  <2>. QED
    BY <1>4, <2>1 DEF InsertRow, migration
<1>5. ASSUME NEW e \in Entry, DeleteRow(e) PROVE LayersOfOneKey'
  <2>1. OpensWithOneKey'
    BY <1>5, DeleteRowIs DEF OpensWithOneKey
  <2>. QED
    BY <1>5, <2>1 DEF DeleteRow
<1>6. CASE FindAllRows
  <2>1. \A c \in todo' : OneKey(c.layers)
    BY <1>6, FindAllRowsIs
  <2>. QED
    BY <1>6, <2>1 DEF FindAllRows, OpensWithOneKey, database
<1>7. ASSUME NEW copy \in todo, Reseal(copy) PROVE LayersOfOneKey'
  <2>1. OpensWithOneKey'
    BY <1>7, ResealPuts, PutKeepsOneKey
  <2>. QED
    BY <1>7, <2>1 DEF Reseal
<1>8. CASE MigrateSchema \/ CheckFlag \/ NextTable \/ InsertFlag
  BY <1>8 DEF MigrateSchema, CheckFlag, NextTable, InsertFlag, OpensWithOneKey, database
<1>9. CASE MigrationFails
  BY <1>9 DEF MigrationFails, OpensWithOneKey, database
<1>10. CASE Restart
  <2>1. DOMAIN held' = {} /\ todo' = {} /\ stored' = stored
    BY <1>10 DEF Restart, database
  <2>. QED
    BY <2>1 DEF OpensWithOneKey
<1>11. CASE UNCHANGED secretsVars
  BY <1>11 DEF secretsVars, OpensWithOneKey, database, migration
<1>. QED
  BY <1>1, <1>2, <1>3, <1>4, <1>5, <1>6, <1>7, <1>8, <1>9, <1>10, <1>11
     DEF SecretsNext, Serve, Migrate

-----------------------------------------------------------------------------
(* What is behind the migration is sealed.                                  *)

LEMMA PutKeepsSealed ==
  ASSUME SecretsTypeInv, SealedBehind, NEW copy, Puts(copy),
         \A e \in Entry : e # copy.entry /\ Behind(e)' => Behind(e)
  PROVE  SealedBehind'
<1>. SUFFICES ASSUME NEW e \in Entry, Behind(e)', Alive(e)' PROVE IsEncrypted(stored'[e].layers)
  BY DEF SealedBehind, IsEncrypted
<1>1. CASE e = copy.entry
  BY <1>1, PutIs DEF Puts
<1>2. CASE e # copy.entry
  <2>1. stored'[e] = stored[e] /\ Behind(e)
    BY <1>2 DEF Puts
  <2>. QED
    BY <2>1 DEF SealedBehind, Alive
<1>. QED
  BY <1>1, <1>2

LEMMA SameRowsSealed ==
  ASSUME SealedBehind, stored' = stored,
         \A e \in Entry : Alive(e) /\ Behind(e)' => Behind(e)
  PROVE  SealedBehind'
BY DEF SealedBehind, Alive, IsEncrypted

LEMMA SealedKept == SecretsIInv /\ [SecretsNext]_secretsVars => SealedBehind'
<1>. SUFFICES ASSUME SecretsIInv, [SecretsNext]_secretsVars PROVE SealedBehind'
  OBVIOUS
<1>. USE DEF SecretsIInv
<1>1. ASSUME NEW h \in Handler, SaveRow(h) PROVE SealedBehind'
  <2>1. \A e \in Entry : Behind(e)' => Behind(e)
    BY <1>1 DEF SaveRow, Behind, Waiting
  <2>. QED
    BY <1>1, <2>1, SaveRowPuts, PutKeepsSealed
<1>2. ASSUME NEW h \in Handler, GiveUp(h) \/ \E e \in Entry : FindRow(h, e) PROVE SealedBehind'
  <2>1. UNCHANGED <<stored, flag, stage, tableNo, todo>>
    BY <1>2 DEF GiveUp, FindRow, database, migration
  <2>2. \A e \in Entry : Behind(e)' => Behind(e)
    BY <2>1 DEF Behind, Waiting
  <2>. QED
    BY <2>1, <2>2, SameRowsSealed
<1>3. ASSUME NEW e \in Entry, InsertRow(e) PROVE SealedBehind'
  <2>1. \A f \in Entry : Behind(f)' => Behind(f)
    BY <1>3 DEF InsertRow, Behind, Waiting, migration
  <2>. QED
    BY <1>3, <2>1, InsertRowPuts, PutKeepsSealed
<1>4. ASSUME NEW e \in Entry, DeleteRow(e) PROVE SealedBehind'
  <2>1. \A f \in Entry : Behind(f)' => Behind(f)
    BY <1>4 DEF DeleteRow, Behind, Waiting
  <2>2. \A f \in Entry : Alive(f)' => f # e /\ stored'[f] = stored[f]
    BY <1>4, DeleteRowIs DEF Alive
  <2>. QED
    BY <2>1, <2>2 DEF SealedBehind, Alive, IsEncrypted
<1>5. CASE MigrateSchema
  <2>1. \A f \in Entry : Behind(f)' => Behind(f)
    BY <1>5 DEF MigrateSchema, Behind
  <2>. QED
    BY <1>5, <2>1, SameRowsSealed DEF MigrateSchema
<1>6. CASE CheckFlag
  <2>1. \A f \in Entry : Behind(f)' => Behind(f)
    BY <1>6, SecretsAssumption DEF CheckFlag, Behind, database
  <2>. QED
    BY <1>6, <2>1, SameRowsSealed DEF CheckFlag, database
<1>7. CASE FindAllRows
  <2>1. /\ stage = "read" /\ stage' = "write"
        /\ UNCHANGED <<stored, tableNo, flag>>
    BY <1>7 DEF FindAllRows, database
  <2>2. ASSUME NEW f \in Entry, Alive(f), Behind(f)' PROVE Behind(f)
    <3>1. TableOf[f] # tableNo \/ f \in Waiting'
      <4>. SUFFICES ASSUME TableOf[f] = tableNo PROVE f \in Waiting'
        OBVIOUS
      <4>1. Opened(f) \in todo' /\ Opened(f).entry = f
        BY <1>7, <2>2, FindAllRowsIs, OpenedIs DEF LayersOfOneKey
      <4>. QED
        BY <4>1 DEF Waiting
    <3>. QED
      BY <2>1, <2>2, <3>1 DEF Behind
  <2>. QED
    BY <2>1, <2>2, SameRowsSealed
<1>8. ASSUME NEW copy \in todo, Reseal(copy) PROVE SealedBehind'
  <2>1. \A f \in Entry : f # copy.entry /\ f \in Waiting => f \in Waiting'
    BY <1>8 DEF Reseal, Waiting
  <2>2. \A f \in Entry : f # copy.entry /\ Behind(f)' => Behind(f)
    BY <1>8, <2>1 DEF Reseal, Behind
  <2>. QED
    BY <1>8, <2>2, ResealPuts, PutKeepsSealed
<1>9. CASE NextTable
  <2>1. stage = "write" /\ Waiting = {} /\ UNCHANGED <<stored, flag>>
    BY <1>9 DEF NextTable, Waiting, database
  <2>2. \/ tableNo' = tableNo + 1 /\ stage' = "read"
        \/ tableNo = Tables /\ stage' = "flag"
    BY <1>9, SecretsAssumption DEF NextTable, SecretsTypeInv
  <2>3. \A f \in Entry : TableOf[f] \in Nat /\ TableOf[f] <= Tables
    BY SecretsAssumption
  <2>4. tableNo \in Nat
    BY SecretsAssumption DEF SecretsTypeInv
  <2>5. \A f \in Entry : Behind(f)' => Behind(f)
    BY <2>1, <2>2, <2>3, <2>4 DEF Behind
  <2>. QED
    BY <2>1, <2>5, SameRowsSealed
<1>10. CASE InsertFlag
  <2>1. \A f \in Entry : Behind(f)' => Behind(f)
    BY <1>10 DEF InsertFlag, Behind
  <2>. QED
    BY <1>10, <2>1, SameRowsSealed DEF InsertFlag
<1>11. CASE MigrationFails
  <2>1. \A f \in Entry : Behind(f)' => Behind(f)
    BY <1>11 DEF MigrationFails, Behind, database
  <2>. QED
    BY <1>11, <2>1, SameRowsSealed DEF MigrationFails, database
<1>12. CASE Restart
  <2>1. \A f \in Entry : Behind(f)' => Behind(f)
    BY <1>12 DEF Restart, Behind, database
  <2>. QED
    BY <1>12, <2>1, SameRowsSealed DEF Restart, database
<1>13. CASE UNCHANGED secretsVars
  <2>1. \A f \in Entry : Behind(f)' => Behind(f)
    BY <1>13 DEF secretsVars, Behind, Waiting, database, migration
  <2>. QED
    BY <1>13, <2>1, SameRowsSealed DEF secretsVars, database
<1>. QED
  BY <1>1, <1>2, <1>3, <1>4, <1>5, <1>6, <1>7, <1>8, <1>9, <1>10, <1>11, <1>12, <1>13
     DEF SecretsNext, Serve, Migrate

-----------------------------------------------------------------------------
(* What was read of a row is what is stored, unless a handler wrote it.     *)

LEMMA OpenedSame ==
  ASSUME NEW e \in Entry, stored'[e] = stored[e], codec' = codec
  PROVE  Opened(e)' = Opened(e) /\ Alive(e)' = Alive(e)
BY DEF Opened, Alive

LEMMA SameRowsRead ==
  ASSUME SecretsTypeInv, ReadIsStored, todo' \subseteq todo, raced \subseteq raced', codec' = codec,
         \A c \in todo' : c.entry \in raced' \/ stored'[c.entry] = stored[c.entry]
  PROVE  ReadIsStored'
<1>. SUFFICES ASSUME NEW c \in todo', c.entry \notin raced'
              PROVE  Alive(c.entry)' /\ Opened(c.entry)' = c
  BY Zenon DEF ReadIsStored
<1>1. Alive(c.entry) /\ Opened(c.entry) = c
  BY DEF ReadIsStored
<1>2. c.entry \in Entry /\ stored'[c.entry] = stored[c.entry]
  BY DEF SecretsTypeInv, ReadRow
<1>3. Opened(c.entry)' = Opened(c.entry) /\ Alive(c.entry)' = Alive(c.entry)
  BY <1>2, OpenedSame
<1>. QED
  BY <1>1, <1>3

LEMMA ReadKept == SecretsIInv /\ [SecretsNext]_secretsVars => ReadIsStored'
<1>. SUFFICES ASSUME SecretsIInv, [SecretsNext]_secretsVars PROVE ReadIsStored'
  OBVIOUS
<1>. USE DEF SecretsIInv
<1>1. ASSUME NEW h \in Handler, SaveRow(h) PROVE ReadIsStored'
  <2>1. todo' = todo /\ codec' = codec /\ raced \subseteq raced'
    BY <1>1 DEF SaveRow, Racing
  <2>2. \A c \in todo : c.entry = held[h].entry => c.entry \in raced'
    BY <1>1 DEF SaveRow, Racing
  <2>3. \A e \in Entry : e # held[h].entry => stored'[e] = stored[e]
    BY <1>1, SaveRowPuts DEF Puts
  <2>4. \A c \in todo : c.entry \in Entry
    BY DEF SecretsTypeInv, ReadRow
  <2>. QED
    BY <2>1, <2>2, <2>3, <2>4, SameRowsRead
<1>2. ASSUME NEW h \in Handler, GiveUp(h) \/ \E e \in Entry : FindRow(h, e) PROVE ReadIsStored'
  <2>1. UNCHANGED <<stored, codec, todo, raced>>
    BY <1>2 DEF GiveUp, FindRow, database, migration
  <2>. QED
    BY <2>1, SameRowsRead
<1>3. ASSUME NEW e \in Entry, InsertRow(e) PROVE ReadIsStored'
  <2>1. /\ UNCHANGED <<codec, todo, raced>> /\ ~ Alive(e)
        /\ \A f \in Entry : f # e => stored'[f] = stored[f]
    BY <1>3, InsertRowPuts DEF InsertRow, Puts, Alive, migration
  <2>2. \A c \in todo : c.entry \in raced \/ c.entry # e
    BY <2>1 DEF ReadIsStored
  <2>3. \A c \in todo : c.entry \in Entry
    BY DEF SecretsTypeInv, ReadRow
  <2>. QED
    BY <2>1, <2>2, <2>3, SameRowsRead
<1>4. ASSUME NEW e \in Entry, DeleteRow(e) PROVE ReadIsStored'
  <2>1. todo' = todo /\ codec' = codec /\ raced \subseteq raced'
    BY <1>4 DEF DeleteRow, Racing
  <2>2. \A c \in todo : c.entry = e => c.entry \in raced'
    BY <1>4 DEF DeleteRow, Racing
  <2>3. \A f \in Entry : f # e => stored'[f] = stored[f]
    BY <1>4, DeleteRowIs
  <2>4. \A c \in todo : c.entry \in Entry
    BY DEF SecretsTypeInv, ReadRow
  <2>. QED
    BY <2>1, <2>2, <2>3, <2>4, SameRowsRead
<1>5. CASE MigrateSchema \/ CheckFlag \/ NextTable \/ InsertFlag
  <2>1. UNCHANGED <<stored, codec, todo, raced>>
    BY <1>5 DEF MigrateSchema, CheckFlag, NextTable, InsertFlag, database
  <2>. QED
    BY <2>1, SameRowsRead
<1>6. CASE FindAllRows
  <2>1. stored' = stored /\ codec' = codec
    BY <1>6 DEF FindAllRows, database
  <2>2. ASSUME NEW c \in todo' PROVE Alive(c.entry)' /\ Opened(c.entry)' = c
    <3>1. c \in ReadRow /\ Alive(c.entry) /\ Opened(c.entry) = c
      BY <1>6, FindAllRowsIs DEF LayersOfOneKey
    <3>2. c.entry \in Entry
      BY <3>1 DEF ReadRow
    <3>3. Opened(c.entry)' = Opened(c.entry) /\ Alive(c.entry)' = Alive(c.entry)
      BY <2>1, <3>2, OpenedSame
    <3>. QED
      BY <3>1, <3>3
  <2>. QED
    BY Zenon, <2>2 DEF ReadIsStored
<1>7. ASSUME NEW copy \in todo, Reseal(copy) PROVE ReadIsStored'
  <2>1. todo' = todo \ {copy} /\ codec' = codec /\ raced' = raced
    BY <1>7 DEF Reseal
  <2>2. \A f \in Entry : f # copy.entry => stored'[f] = stored[f]
    BY <1>7, ResealPuts DEF Puts
  <2>3. \A c \in todo' : c.entry \in raced \/ c.entry # copy.entry
    <3>. SUFFICES ASSUME NEW c \in todo', c.entry \notin raced, c.entry = copy.entry PROVE FALSE
      OBVIOUS
    <3>1. Opened(c.entry) = c /\ Opened(copy.entry) = copy
      BY <2>1 DEF ReadIsStored
    <3>. QED
      BY <2>1, <3>1
  <2>4. \A c \in todo : c.entry \in Entry
    BY DEF SecretsTypeInv, ReadRow
  <2>. QED
    BY <2>1, <2>2, <2>3, <2>4, SameRowsRead
<1>8. CASE MigrationFails \/ Restart
  <2>1. todo' = {}
    BY <1>8 DEF MigrationFails, Restart
  <2>. QED
    BY <2>1 DEF ReadIsStored
<1>9. CASE UNCHANGED secretsVars
  <2>1. UNCHANGED <<stored, codec, todo, raced>>
    BY <1>9 DEF secretsVars, database, migration
  <2>. QED
    BY <2>1, SameRowsRead
<1>. QED
  BY <1>1, <1>2, <1>3, <1>4, <1>5, <1>6, <1>7, <1>8, <1>9 DEF SecretsNext, Serve, Migrate

-----------------------------------------------------------------------------
(* The theorems.                                                            *)

LEMMA SecretsInitially == SecretsInit => SecretsIInv
<1>. SUFFICES ASSUME SecretsInit PROVE SecretsIInv
  OBVIOUS
<1> DEFINE Old == {<< >>} \cup {<<k>> : k \in MasterKey} \cup {<<k, k>> : k \in MasterKey}
<1>1. \A layers \in Old : layers \in Layers /\ OneKey(layers)
  <2>1. ASSUME NEW k \in MasterKey
        PROVE  /\ <<k>> \in Layers /\ OneKey(<<k>>)
               /\ <<k, k>> \in Layers /\ OneKey(<<k, k>>)
    <3>1. /\ <<k>> \in Seq(MasterKey) /\ DOMAIN <<k>> = {1} /\ <<k>>[1] = k
      OBVIOUS
    <3>2. /\ <<k, k>> \in Seq(MasterKey) /\ DOMAIN <<k, k>> = {1, 2}
          /\ <<k, k>>[1] = k /\ <<k, k>>[2] = k
      OBVIOUS
    <3>. QED
      BY <3>1, <3>2 DEF Layers, OneKey
  <2>. QED
    BY NoLayers, <2>1
<1>2. stored \in [Entry -> [at : {"none", "live", "deleted"}, word : Plain, layers : Old]]
  BY DEF SecretsInit
<1>. HIDE DEF Old
<1>3. stored \in [Entry -> StoredRow]
  BY <1>1, <1>2 DEF StoredRow
<1>4. \A e \in Entry : stored[e].layers \in Old
  BY <1>2
<1>5. OpensWithOneKey
  BY <1>1, <1>4 DEF OpensWithOneKey
<1>6. DOMAIN held = {}
  BY DEF SecretsInit
<1>7. tableNo = 1 /\ 1 \in 1..Tables
  BY SecretsAssumption DEF SecretsInit
<1>8. SecretsTypeInv
  BY <1>3, <1>6, <1>7 DEF SecretsInit, SecretsTypeInv, Stage
<1>9. LayersOfOneKey
  BY <1>5, <1>6 DEF SecretsInit, LayersOfOneKey
<1>10. HasColumn /\ ReadIsStored /\ WaitingInWrite /\ SealedBehind
  BY <1>7 DEF SecretsInit, HasColumn, ReadIsStored, WaitingInWrite, SealedBehind, Behind
<1>. QED
  BY <1>8, <1>9, <1>10 DEF SecretsIInv

\* The inductive invariant: types, and the parts named above.
THEOREM SecretsInvariant == SecretsSpec => []SecretsIInv
<1>1. SecretsIInv /\ [SecretsNext]_secretsVars => SecretsIInv'
  BY SecretsTypesKept, WaitingKept, LayersKept, SealedKept, ReadKept DEF SecretsIInv
<1>. QED
  BY SecretsInitially, <1>1, PTL DEF SecretsSpec

\* The types of the database, of the migration and of what handlers hold.
THEOREM SecretsTyped == SecretsSpec => []SecretsTypeInv
<1>1. SecretsIInv => SecretsTypeInv
  BY DEF SecretsIInv
<1>. QED
  BY SecretsInvariant, <1>1, PTL

\* Whenever the program stopped, failed and was started again in MigrateSecrets, and
\* whatever was saved beside it: with the flag set no row has its secret in clear.
THEOREM NothingInClear == SecretsSpec => []SealedWhenDone
<1>1. SecretsIInv => SealedWhenDone
  <2>. SUFFICES ASSUME SecretsIInv, flag PROVE column /\ \A e \in Entry : stored[e].at = "live" => IsEncrypted(stored[e].layers)
    BY DEF SealedWhenDone
  <2>. QED
    BY DEF SecretsIInv, HasColumn, SealedBehind, Behind, Alive
<1>. QED
  BY SecretsInvariant, <1>1, PTL

\* sealSecret and openSecret never leave a seal over the seal of another key.
THEOREM OneKeyOpens == SecretsSpec => []OpensWithOneKey
<1>1. SecretsIInv => OpensWithOneKey
  BY DEF SecretsIInv, LayersOfOneKey
<1>. QED
  BY SecretsInvariant, <1>1, PTL

\* MigrateSecrets writes back what it has read, so that a row no handler wrote
\* meanwhile reads as before.
THEOREM MigrationKeeps == SecretsSpec => MigrationKeepsRows
<1>1. ASSUME SecretsIInv, [SecretsNext]_secretsVars, NEW e \in Entry,
             todo' # todo, stored'[e] # stored[e], e \notin raced
      PROVE  stored'[e].at = stored[e].at /\ Opened(e)' = Opened(e)
  <2>. USE <1>1 DEF SecretsIInv
  <2>1. PICK copy \in todo : Reseal(copy)
    BY DEF SecretsNext, Serve, Migrate, SaveRow, GiveUp, FindRow, InsertRow, DeleteRow, MigrateSchema,
           CheckFlag, FindAllRows, NextTable, InsertFlag, MigrationFails, Restart, secretsVars,
           database, migration
  <2>2. copy \in ReadRow /\ Puts(copy)
    BY <2>1, ResealPuts
  <2>3. e = copy.entry /\ stored'[e] = Put(copy)
    BY <2>2 DEF Puts
  <2>4. Alive(e) /\ Opened(e) = copy
    BY <2>3 DEF ReadIsStored
  <2>5. Put(copy).at = "live" /\ Put(copy).word = copy.word /\ Put(copy).layers = sealSecret(codec, copy.layers)
    BY <2>2, PutIs DEF Puts
  <2>6. codec' = codec
    BY <2>1 DEF Reseal
  <2>7. copy.layers = openSecret(codec, stored[e].layers)
    BY <2>4 DEF Opened
  <2>8. codec \in MasterKey /\ stored[e].layers \in Layers /\ OneKey(stored[e].layers)
    BY DEF SecretsTypeInv, StoredRow, LayersOfOneKey, OpensWithOneKey
  <2>9. openSecret(codec, sealSecret(codec, copy.layers)) = copy.layers
    BY <2>7, <2>8, OpenIs
  <2>10. Opened(e)' = [entry |-> e, word |-> copy.word, layers |-> copy.layers]
    BY <2>3, <2>5, <2>6, <2>9 DEF Opened
  <2>11. copy = [entry |-> e, word |-> copy.word, layers |-> copy.layers]
    BY <2>2, <2>3 DEF ReadRow
  <2>. QED
    BY <2>3, <2>4, <2>5, <2>10, <2>11 DEF Alive
<1>2. SecretsIInv /\ [SecretsNext]_secretsVars =>
        [\A e \in Entry :
           todo' # todo /\ stored'[e] # stored[e] /\ e \notin raced
             => stored'[e].at = stored[e].at /\ Opened(e)' = Opened(e)]_secretsVars
  BY <1>1
<1>. QED
  BY SecretsInvariant, <1>2, PTL DEF SecretsSpec, MigrationKeepsRows
=============================================================================
