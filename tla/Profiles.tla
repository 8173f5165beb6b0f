------------------------------- MODULE Profiles -------------------------------
(***************************************************************************)
(* Connections, groups and SSH, TLS and proxy profiles: the dialogs that   *)
(* edit them, the list each is read from, the handlers that store them and *)
(* the tree of the sidebar.                                                *)
(*                                                                         *)
(* Connections and groups have a dialog for one item, which its save       *)
(* closes; the profiles one with the list beside the form.  A list carries *)
(* no secrets, and a save with a blank secret keeps the stored one.  A     *)
(* handler finds the row and writes it in two statements; a deleted row    *)
(* keeps its id and a mark.                                                *)
(***************************************************************************)
EXTENDS Naturals, Sequences, FiniteSets, SequencesExt

CONSTANTS
  Kind,     \* what is edited
  Id,       \* identities of rows
  Word,     \* contents and secrets
  Blank,    \* no secret; the content of a new item
  Call,     \* requests in flight; bounds how many there are
  Member,   \* connections of the tree, when groups are edited
  GroupOf,  \* Member -> group_id, or None
  None,
  MaxClicks \* bound: what the user does

ASSUME ProfilesAssumption ==
  /\ Kind \subseteq {"connection", "group", "ssh", "tls", "proxy"}
  /\ Blank \notin Word /\ None \notin Id /\ None \notin Word \cup {Blank}
  /\ GroupOf \in [Member -> Id \cup {None}] /\ MaxClicks \in Nat

VARIABLES
  kind,
  rows,       \* the table
  given,      \* history: the last secret given to each row
  crossed,    \* history: rows with two writes in flight at once
  listed,     \* data of the list query: Id -> content, a partial function
  loaded,     \* it has data
  fetch,      \* its request: idle, asked, read by the handler; or the last one failed
  got,        \* what the request has read
  behind,     \* history: something was written that no request reads
  open,       \* the dialog
  item,       \* what it edits, or None
  form,       \* the values of the form
  calls,      \* requests in flight
  clicks      \* how much the user has done, for MaxClicks

table == <<rows, given, crossed>>
query == <<listed, loaded, fetch, got, behind>>
dialog == <<open, item, form>>
vars == <<kind, table, query, dialog, calls, clicks>>

\* One item at a time, in a dialog that its save closes.
Single == kind \in {"connection", "group"}
HasSecret == kind # "group"
Content == Word \cup {Blank}
Secret == IF HasSecret THEN Content ELSE {Blank}

\* What a deleted row still holds is read by nothing.
Absent == [at |-> "none", val |-> Blank, secret |-> Blank]
Deleted == [Absent EXCEPT !.at = "deleted"]
Live == {id \in Id : rows[id].at = "live"}
Contents == [id \in Live |-> rows[id].val]

\* The form of an item, as its defaults or reset leave it.
Fields(it) == [val |-> it.val, secret |-> Blank]
NoForm == [val |-> Blank, secret |-> Blank]
Mounted == open /\ item # None

\* A new identity: a UUID nothing refers to.
Fresh(id) ==
  /\ rows[id] = Absent
  /\ \A i \in DOMAIN calls : calls[i].id # id
  /\ item # None => item.id # id

Init ==
  /\ kind \in Kind
  /\ rows \in [Id -> {Absent} \cup [at : {"live"}, val : Word, secret : Secret]]
  /\ given = [id \in Id |-> rows[id].secret] /\ crossed = {}
  /\ listed = Contents /\ loaded = TRUE /\ fetch = "idle" /\ got = << >> /\ behind = FALSE
  /\ open = FALSE /\ item = None /\ form = NoForm
  /\ calls = << >> /\ clicks = 0

Click == clicks < MaxClicks /\ clicks' = clicks + 1

-----------------------------------------------------------------------------
(* The list.                                                                *)

\* Mutant: a deletion leaves the list alone.
InvalidateSaved(op) ==
  IF op = "delete" THEN UNCHANGED query
  ELSE fetch' = "asked" /\ UNCHANGED <<listed, loaded, got, behind>>

\* A list that has data is asked for again, the first load goes on.
Invalidate(op) ==
  IF loaded \/ fetch \in {"idle", "failed"}
  THEN fetch' = "asked" /\ UNCHANGED <<listed, loaded, got, behind>>
  ELSE behind' = (behind \/ fetch = "read") /\ UNCHANGED <<listed, loaded, fetch, got>>

\* The refresh button of the sidebar.
Refetch ==
  /\ Click
  /\ Single /\ ~open
  /\ Invalidate("refetch")
  /\ UNCHANGED <<kind, table, dialog, calls>>

\* A view that is mounted asks for a list that could not be read.
Remount ==
  /\ fetch = "failed" /\ fetch' = "asked"
  /\ UNCHANGED <<kind, table, listed, loaded, got, behind, dialog, calls, clicks>>

Read ==
  /\ fetch = "asked"
  /\ fetch' = "read" /\ got' = Contents /\ behind' = FALSE
  /\ UNCHANGED <<kind, table, listed, loaded, dialog, calls, clicks>>

\* The handler answers with the error of FindAll, or does not answer, and so it
\* does to the retry: the list stays as it was, and nobody asks for it.
FetchFailed ==
  /\ fetch \in {"asked", "read"}
  /\ fetch' = "failed" /\ got' = << >>
  /\ UNCHANGED <<kind, table, listed, loaded, behind, dialog, calls, clicks>>

\* Mutant: the form follows the list.
FollowsList(it) ==
  IF it # None /\ it.id \in DOMAIN got THEN Fields([it EXCEPT !.val = got[it.id]]) ELSE form

\* The form is reset for another item only.
KeepsForm(it) == form

Fetched ==
  /\ fetch = "read"
  /\ fetch' = "idle" /\ listed' = got /\ loaded' = TRUE /\ got' = << >>
  /\ form' = KeepsForm(item)
  /\ UNCHANGED <<kind, table, behind, open, item, calls, clicks>>

-----------------------------------------------------------------------------
(* The dialogs.                                                             *)

\* New connection, New group.
Create ==
  /\ Click
  /\ Single /\ ~open
  /\ open' = TRUE
  /\ item' = [id |-> None, val |-> Blank, old |-> FALSE]
  /\ form' = Fields(item')
  /\ UNCHANGED <<kind, table, query, calls>>

\* Update, in the menu of a row.
Edit(id) ==
  /\ Click
  /\ Single /\ ~open /\ id \in DOMAIN listed
  /\ open' = TRUE
  /\ item' = [id |-> id, val |-> listed[id], old |-> TRUE]
  /\ form' = Fields(item')
  /\ UNCHANGED <<kind, table, query, calls>>

\* The profiles: what was selected is selected still, in a new form.
OpenList ==
  /\ Click
  /\ ~Single /\ ~open
  /\ open' = TRUE
  /\ form' = IF item = None THEN NoForm ELSE Fields(item)
  /\ UNCHANGED <<kind, table, query, item, calls>>

\* The plus: the identity is drawn here, before anything is stored.
Add(id) ==
  /\ Click
  /\ ~Single /\ open /\ Fresh(id)
  /\ item' = [id |-> id, val |-> Blank, old |-> FALSE]
  /\ form' = Fields(item')
  /\ UNCHANGED <<kind, table, query, open, calls>>

\* A row of the list; the one selected already resets nothing.
Select(id) ==
  LET it == [id |-> id, val |-> listed[id], old |-> TRUE]
  IN  /\ Click /\ ~Single /\ open /\ id \in DOMAIN listed
      /\ item' = it
      /\ form' = IF item = it THEN form ELSE Fields(it)
      /\ UNCHANGED <<kind, table, query, open, calls>>

Type ==
  /\ Click
  /\ Mounted
  /\ \E v \in Content, s \in Secret : form' = [val |-> v, secret |-> s]
  /\ UNCHANGED <<kind, table, query, open, item, calls>>

\* Of a request, form says whose it is: of the form shown, of one that is
\* gone, or of a page that is gone.
Left(cs) == [i \in DOMAIN cs |-> [cs[i] EXCEPT !.form = IF @ = "this" THEN "gone" ELSE @]]

\* Cancel and the cross; the cross also while a request is under way.
Close ==
  /\ Click
  /\ open
  /\ open' = FALSE /\ form' = NoForm
  /\ calls' = Left(calls)
  /\ UNCHANGED <<kind, table, query, item>>

Pending(op) == \E i \in DOMAIN calls : calls[i].op = op /\ calls[i].form = "this"
Request(op, id, f, whose) ==
  [op |-> op, id |-> id, val |-> f.val, secret |-> f.secret, form |-> whose,
   found |-> None, at |-> "sent"]

\* A connection and a group must have a name; what a new profile holds will do.
Valid(f) == Single => f.val # Blank

Send(r) ==
  /\ Len(calls) < Cardinality(Call)
  /\ calls' = Append(calls, r)
  /\ crossed' = IF \E i \in DOMAIN calls : calls[i].id = r.id THEN crossed \cup {r.id} ELSE crossed
  /\ UNCHANGED <<rows, given>>

\* An item without identity is given one by the hook or by Insert.
Save ==
  /\ Click
  /\ Mounted /\ ~Pending("save") /\ Valid(form)
  /\ \E id \in Id :
       /\ IF item.id = None THEN Fresh(id) ELSE id = item.id
       /\ Send(Request("save", id, form, "this"))
  /\ UNCHANGED <<kind, query, dialog>>

\* Return in the only field of the group form: the page is submitted and
\* loads again, and the save may have gone out before.
ReturnReloads ==
  /\ Click
  /\ kind = "group" /\ Mounted
  /\ open' = FALSE /\ item' = None /\ form' = NoForm
  /\ listed' = << >> /\ loaded' = FALSE /\ fetch' = "asked" /\ got' = << >> /\ behind' = FALSE
  /\ LET dead == [i \in DOMAIN calls |-> [calls[i] EXCEPT !.form = "dead"]]
     IN  \/ /\ calls' = dead
            /\ UNCHANGED table
         \/ /\ Len(calls) < Cardinality(Call) /\ ~Pending("save") /\ Valid(form)
            /\ \E id \in Id :
                 /\ IF item.id = None THEN Fresh(id) ELSE id = item.id
                 /\ calls' = Append(dead, Request("save", id, form, "dead"))
                 /\ crossed' = IF \E i \in DOMAIN calls : calls[i].id = id THEN crossed \cup {id} ELSE crossed
            /\ UNCHANGED <<rows, given>>
  /\ UNCHANGED kind

\* Delete: of a confirmed row of the sidebar, or of the profile shown, which
\* need not have been stored.
Delete(id) ==
  /\ Click
  /\ IF Single THEN ~open /\ id \in DOMAIN listed ELSE Mounted /\ id = item.id /\ ~Pending("delete")
  /\ Send(Request("delete", id, NoForm, IF Single THEN "gone" ELSE "this"))
  /\ UNCHANGED <<kind, query, dialog>>

-----------------------------------------------------------------------------
(* The handlers.                                                            *)

\* A page that is gone is told nothing.
Done(i) ==
  IF calls[i].form = "dead"
  THEN calls' = RemoveAt(calls, i) /\ behind' = (behind \/ fetch # "asked")
  ELSE calls' = [calls EXCEPT ![i].at = "done"] /\ UNCHANGED behind

\* The answer of a request that failed changes nothing in the page.
Refused(i) == calls' = RemoveAt(calls, i) /\ UNCHANGED behind

\* FindOne leaves out the rows marked deleted.  All of the row is written
\* back as found or as sent; its secret is what may be as found.
Find(i) ==
  LET r == calls[i]
  IN  /\ r.op = "save" /\ r.at = "sent"
      /\ calls' = [calls EXCEPT ![i].at = "found",
                                ![i].found = IF r.id \in Live THEN rows[r.id].secret ELSE None]
      /\ UNCHANGED <<kind, table, query, dialog, clicks>>

\* Mutant: the secret is stored as it was sent.
StoredAsSent(r) == r.secret

Stored(r) == IF r.found # None /\ r.secret = Blank THEN r.found ELSE r.secret

\* Mutant: Insert takes a deleted row's place.
FreeAnyway(id) == TRUE

\* The primary key is taken, by a deleted row too.
FreeKey(id) == rows[id] = Absent

\* Update writes the whole row as it was found, unmarked; Insert a new one.
Write(i) ==
  LET r == calls[i]
  IN  /\ r.op = "save" /\ r.at = "found"
      /\ IF r.found = None => FreeKey(r.id)
         THEN /\ rows' = [rows EXCEPT ![r.id] = [at |-> "live", val |-> r.val, secret |-> Stored(r)]]
              /\ given' = [given EXCEPT ![r.id] = IF r.secret = Blank /\ r.found # None THEN @ ELSE r.secret]
              /\ Done(i)
         ELSE UNCHANGED <<rows, given>> /\ Refused(i)
      /\ UNCHANGED <<kind, crossed, listed, loaded, fetch, got, dialog, clicks>>

\* UPDATE ... SET deleted_at, whether or not there is such a row.
Mark(i) ==
  LET r == calls[i]
  IN  /\ r.op = "delete" /\ r.at = "sent"
      /\ rows' = IF rows[r.id] = Absent THEN rows ELSE [rows EXCEPT ![r.id] = Deleted]
      /\ given' = [given EXCEPT ![r.id] = Blank]
      /\ Done(i)
      /\ UNCHANGED <<kind, crossed, listed, loaded, fetch, got, dialog, clicks>>

\* A statement that fails changes nothing.
Fail(i) ==
  /\ calls[i].at \in {"sent", "found"}
  /\ Refused(i)
  /\ UNCHANGED <<kind, table, listed, loaded, fetch, got, dialog, clicks>>

\* The answer.  A save closes the dialog of its kind, whatever it shows by
\* now; a deleted profile takes the form away, whatever it shows by now.
Answer(i) ==
  LET r == calls[i]
      rest == RemoveAt(calls, i)
  IN  /\ r.at = "done"
      /\ Invalidate(r.op)
      /\ \/ /\ r.op = "save" /\ Single
            /\ open' = FALSE /\ form' = NoForm /\ calls' = Left(rest)
            /\ UNCHANGED item
         \/ /\ r.op = "delete" /\ ~Single
            /\ item' = None /\ form' = NoForm /\ calls' = Left(rest)
            /\ UNCHANGED open
         \/ /\ (r.op = "save") # Single
            /\ calls' = rest
            /\ UNCHANGED dialog
      /\ UNCHANGED <<kind, table, clicks>>

Next ==
  \/ Refetch \/ Remount \/ Read \/ FetchFailed \/ Fetched
  \/ Create \/ OpenList \/ Type \/ Close \/ Save \/ ReturnReloads
  \/ \E id \in Id : Edit(id) \/ Add(id) \/ Select(id) \/ Delete(id)
  \/ \E i \in DOMAIN calls : Find(i) \/ Write(i) \/ Mark(i) \/ Fail(i) \/ Answer(i)

Spec == Init /\ [][Next]_vars

-----------------------------------------------------------------------------
(* What it promises.                                                        *)

\* The tree of the sidebar: the connections of the groups listed, and those
\* that name none.
InTree == {m \in Member : GroupOf[m] = None \/ GroupOf[m] \in DOMAIN listed}

\* What is typed is lost only to a choice of the user's, to the Return key in
\* the group form, and to two answers, however late they come: of a save,
\* which closes the dialog, and of a deletion, which empties the form.  No
\* list that arrives and no other answer touches it.
Typed == Mounted /\ form # Fields(item)
EditsSurvive ==
  [][Typed /\ (form' # form \/ ~Mounted') =>
       \/ Type \/ Close \/ ReturnReloads
       \/ \E id \in Id : Add(id) \/ Select(id)
       \/ \E i \in DOMAIN calls : Answer(i) /\ (calls[i].op = "save") = Single]_vars

\* The secret of a row is the last one that was given for it: saves with a
\* blank secret keep it, through find and write, unless two requests for the
\* row were under way at once.
SecretKept ==
  \A id \in Live \ crossed : rows[id].secret = given[id]

\* What was deleted stays deleted, although a list, a form or a dialog may
\* still show it and be saved; only a save sent before the deletion had
\* answered, or the other way round, brings it back.
DeletedStays ==
  [][\A id \in Id \ crossed : rows[id].at = "deleted" => rows'[id].at = "deleted"]_vars

\* When all is quiet the list is what is stored, unless the last request for
\* it failed, and the tree lacks exactly the connections whose group is not
\* there any more: deleting a group hides its connections, which nothing else
\* shows.
SidebarShowsWhatIsStored ==
  calls = << >> /\ fetch = "idle" /\ ~behind =>
    /\ listed = Contents
    /\ kind = "group" => Member \ InTree = {m \in Member : GroupOf[m] \notin Live \cup {None}}
=============================================================================
