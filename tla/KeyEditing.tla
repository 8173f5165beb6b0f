----------------------------- MODULE KeyEditing -----------------------------
(***************************************************************************)
(* The tab of a key: its rows or its text as last loaded, the deletion of  *)
(* a row, the drawers that edit and insert rows, the editor of a text, and *)
(* the add key dialog writing a key of any kind under the same name.       *)
(* Every request runs on the server as the separate Redis commands its     *)
(* handler sends, between those of the other requests and of other         *)
(* clients, and may fail at any of them.                                   *)
(*                                                                         *)
(* What is stored is a function from the ids of rows to their values: a    *)
(* list from positions (row 1 is index 0 of the code), a hash from fields, *)
(* a sorted set from members to scores, a set from members, a stream from  *)
(* ids to entries (functions from fields to values); a text has the one id *)
(* Text.                                                                   *)
(***************************************************************************)
EXTENDS GridEditor

CONSTANTS
  Kind,      \* kinds of keys considered
  Text,      \* the id of a text; also the value of a member of a set
  None,
  Call,      \* requests in flight; bounds how many there are
  MaxRows,   \* bound: rows of the insert drawer
  MaxSteps   \* bound: what the user and other clients do

ASSUME KeyEditingAssumption ==
  /\ Kind \subseteq {"list", "hash", "set", "zset", "stream", "string", "rejson-rl"}
  /\ None \notin Word \cup {Blank, Space, Object, Undefined, Text} \cup Call
  /\ \A c \in Call : [marker |-> c] \notin Word \cup {Blank, Space}
  /\ MaxRows \in Nat \ {0} /\ MaxSteps \in Nat

VARIABLES
  kind, readOnly,
  stored,    \* what the server holds, of the kind of the tab
  other,     \* the key is of another kind by now, and nothing of this one
  last,      \* the last id of a stream
  shown,     \* data of the query: what the tab shows
  loaded,    \* the query has data
  fetch,     \* its request: idle, asked, or read by the server; gone with the view
  got,       \* what the request has read
  behind,    \* history: the tab may be behind, for a reason named below
  deleting,  \* deletingIdx, deletingField, ...
  ask,       \* the confirmation, a modal, with what its click has captured
  drawer,    \* the edit drawer: editing and the row it was opened on
  saving,    \* loading of the edit drawer
  adding,    \* the insert drawer is open
  busy,      \* loading of the insert drawer
  grid,      \* its editor
  dialog,    \* the add key dialog is sending
  text,      \* the editor of a text
  calls,     \* requests in flight
  steps      \* for MaxSteps

server == <<stored, last, other>>
query == <<shown, loaded, fetch, got, behind>>
rows == <<deleting, ask>>
drawers == <<drawer, saving, adding, busy, grid>>
vars == <<kind, readOnly, server, query, rows, drawers, dialog, text, calls, steps>>
world == <<kind, readOnly>>

IsText == kind \in {"string", "rejson-rl"}
Named == kind \in {"hash", "zset", "stream"}

Put(f, id, v) == [x \in DOMAIN f \cup {id} |-> IF x = id THEN v ELSE f[x]]
Drop(f, id) ==
  IF kind = "list" THEN RemoveAt(f, id) ELSE [x \in DOMAIN f \ {id} |-> f[x]]

\* ViewKeyData: an editor of its own for every kind.
Contents ==
  CASE kind = "list" -> {<< v >> : v \in Word} \cup {<< v, w >> : v \in Word, w \in Word}
    [] kind \in {"hash", "zset"} -> UNION {[d -> Word] : d \in (SUBSET Word) \ {{}}}
    [] kind = "set" -> {[x \in d |-> Text] : d \in (SUBSET Word) \ {{}}}
    [] kind = "stream" -> {[x \in {1} |-> [f \in {v} |-> v]] : v \in Word}
    [] OTHER -> {[x \in {Text} |-> v] : v \in Word}

Closed == [open |-> FALSE, id |-> None, val |-> None]

Init ==
  /\ kind \in Kind /\ readOnly \in BOOLEAN
  /\ stored \in Contents /\ last = 1 /\ other = FALSE
  /\ shown = << >> /\ loaded = FALSE /\ fetch = "asked" /\ got = << >> /\ behind = FALSE
  /\ deleting = None /\ ask = None
  /\ drawer = Closed /\ saving = FALSE /\ adding = FALSE /\ busy = FALSE
  /\ grid = IF IsText THEN None ELSE FreshGrid(kind)
  /\ dialog = FALSE
  /\ text = [screen |-> Blank, value |-> Blank, changed |-> FALSE, loading |-> FALSE, apart |-> FALSE]
  /\ calls = << >> /\ steps = 0

Step == steps < MaxSteps /\ steps' = steps + 1

\* The drawers, the dialog and the confirmation are modal.
Click == Step /\ ask = None /\ ~drawer.open /\ ~adding /\ ~dialog /\ fetch # "gone"

-----------------------------------------------------------------------------
(* The query.                                                               *)

\* A query that has data starts over; the first load does not, and what it
\* has read already is what the tab will show.
Invalidate ==
  IF loaded \/ fetch = "idle"
  THEN fetch' = "asked" /\ UNCHANGED <<shown, loaded, got, behind>>
  ELSE behind' = (behind \/ fetch = "read") /\ UNCHANGED <<shown, loaded, fetch, got>>

\* The refresh button.
Reload ==
  /\ Click /\ (IsText => loaded)
  /\ Invalidate
  /\ UNCHANGED <<world, server, rows, drawers, dialog, text, calls>>

\* The server reads the key.
Read ==
  /\ fetch = "asked" /\ ~other
  /\ fetch' = "read" /\ got' = stored /\ behind' = FALSE
  /\ calls' = [c \in DOMAIN calls |-> [calls[c] EXCEPT !.unseen = FALSE]]
  /\ UNCHANGED <<world, server, shown, loaded, rows, drawers, dialog, text, steps>>

\* An editor takes a text that is new to it.  Unless it is read-only its
\* onChange is not called, so what was typed before is what will be saved.
Follow(v) ==
  IF v = shown THEN UNCHANGED text
  ELSE text' = [text EXCEPT !.screen = v[Text], !.changed = @ \/ text.loading,
                            !.value = IF text.loading /\ v[Text] # Blank THEN v[Text] ELSE @,
                            !.apart = ~text.loading \/ v[Text] = Blank]

\* A key that is gone leaves the tab of a text as it is.
Fetched ==
  /\ fetch = "read" /\ fetch' = "idle"
  /\ IF IsText /\ got = << >>
     THEN behind' = TRUE /\ UNCHANGED <<shown, loaded, text>>
     ELSE /\ shown' = got /\ loaded' = TRUE /\ UNCHANGED behind
          /\ IF IsText THEN Follow(got) ELSE UNCHANGED text
  /\ UNCHANGED <<world, server, got, rows, drawers, dialog, calls, steps>>

\* The key is of another kind: the tab has another view from now on, which is
\* not followed further.  What has been sent is still under way.
Retyped ==
  /\ fetch = "asked" /\ other
  /\ fetch' = "gone" /\ loaded' = FALSE
  /\ drawer' = Closed /\ adding' = FALSE
  /\ UNCHANGED <<world, server, shown, got, behind, rows, saving, busy, grid, dialog, text, calls, steps>>

FetchFailed ==
  /\ Step /\ fetch \in {"asked", "read"}
  /\ fetch' = "idle" /\ behind' = TRUE
  /\ UNCHANGED <<world, server, shown, loaded, got, rows, drawers, dialog, text, calls>>

-----------------------------------------------------------------------------
(* Requests.                                                                *)

Start(r) ==
  \E c \in Call \ DOMAIN calls :
    calls' = [x \in DOMAIN calls \cup {c} |->
                IF x = c THEN r ELSE calls[x]]

Request(op, id, val, new, first) ==
  [op |-> op, id |-> id, val |-> val, new |-> new, step |-> first, unseen |-> FALSE, raced |-> FALSE]

-----------------------------------------------------------------------------
(* Deleting a row.                                                          *)

\* What the code's "is one being deleted" takes for none: index 0, or "".
CountsAsNone(id) == id = None \/ id = Blank \/ (kind = "list" /\ id = 1)

\* The trash of a row: nothing while that row is being deleted.  The handler
\* that will run is the one of this rendering.
AskDelete(id) ==
  /\ Click /\ ~readOnly /\ ~IsText
  /\ id \in DOMAIN shown /\ deleting # id
  /\ ask' = [id |-> id, val |-> shown[id], free |-> CountsAsNone(deleting)]
  /\ UNCHANGED <<world, server, query, deleting, drawers, dialog, text, calls>>

Dismiss ==
  /\ ask # None /\ ask' = None
  /\ UNCHANGED <<world, server, query, deleting, drawers, dialog, text, calls, steps>>

DeleteRequest(first) ==
  /\ ask # None /\ ask' = None
  /\ deleting' = ask.id
  /\ Start(Request("delete", ask.id, ask.val, None, first))
  /\ UNCHANGED <<world, server, query, drawers, dialog, text, steps>>

ItemDel == kind = "list" /\ ask # None /\ ask.free /\ DeleteRequest("check")
FieldDel == kind = "hash" /\ ask # None /\ ask.free /\ DeleteRequest("remove")
MemberDel == kind = "set" /\ ask # None /\ ask.free /\ DeleteRequest("remove")
ZsetMemberDel == kind = "zset" /\ ask # None /\ ask.free /\ DeleteRequest("remove")
EntryDel == kind = "stream" /\ ask # None /\ ask.free /\ DeleteRequest("remove")

\* Another row is being deleted, or was at the click: a yes does nothing.
ConfirmedForNothing ==
  /\ ask # None /\ ~ask.free /\ ask' = None
  /\ UNCHANGED <<world, server, query, deleting, drawers, dialog, text, calls, steps>>

-----------------------------------------------------------------------------
(* Editing a row.                                                           *)

\* The pencil; streams have none.  The drawer is seeded with that row.
Edit(id) ==
  /\ Click /\ ~readOnly /\ ~IsText /\ kind # "stream"
  /\ id \in DOMAIN shown
  /\ drawer' = [open |-> TRUE, id |-> id, val |-> shown[id]]
  /\ UNCHANGED <<world, server, query, rows, saving, adding, busy, grid, dialog, text, calls>>

CloseDrawer ==
  /\ drawer.open /\ drawer' = Closed
  /\ UNCHANGED <<world, server, query, rows, saving, adding, busy, grid, dialog, text, calls, steps>>

SaveRequest(val, new, first) ==
  /\ Step /\ drawer.open /\ ~saving
  /\ saving' = TRUE
  /\ Start(Request("update", drawer.id, val, new, first))
  /\ UNCHANGED <<world, server, query, rows, drawer, adding, busy, grid, dialog, text>>

\* What the drawer lets one type.
DrawerFields ==
  [hash |-> {"name", "value"}, list |-> {"value"}, set |-> {"name"}, zset |-> {"name", "value"}]

\* A list sends what it showed for the server to compare, a score must be a
\* number.  A name that stays, or is cleared, is no renaming.
Renames(new) == new \notin {Blank, drawer.id}

Save(name, v) ==
  /\ drawer.open
  /\ "name" \notin DrawerFields[kind] => name = Blank
  /\ "value" \notin DrawerFields[kind] => v = Blank
  /\ \/ kind = "list" /\ SaveRequest(drawer.val, v, "check")
     \/ kind = "hash" /\ SaveRequest(v, name, IF Renames(name) THEN "check" ELSE "set")
     \/ kind = "set" /\ SaveRequest(Text, name, "check")
     \/ kind = "zset" /\ v # Blank /\ SaveRequest(v, name, IF Renames(name) THEN "check" ELSE "set")

-----------------------------------------------------------------------------
(* Inserting rows.                                                          *)

OpenInsert ==
  /\ Click /\ ~readOnly /\ ~IsText
  /\ adding' = TRUE /\ grid' = Remounted(kind, grid)
  /\ UNCHANGED <<world, server, query, rows, drawer, saving, busy, dialog, text, calls>>

CloseInsert ==
  /\ adding /\ adding' = FALSE
  /\ UNCHANGED <<world, server, query, rows, drawer, saving, busy, grid, dialog, text, calls, steps>>

\* A row is typed, inserted or deleted.
EditGrid ==
  /\ Step /\ adding
  /\ \E i \in DOMAIN grid.form :
       \/ \E name \in Word, v \in Word \cup {Blank} :
            grid' = Typed(grid, i, IF Named THEN name ELSE Blank, v)
       \/ \E below \in BOOLEAN :
            Len(grid.form) < MaxRows /\ grid' = InsertRow(kind, grid, i, below)
       \/ grid' = DeleteRow(kind, grid, i)
  /\ UNCHANGED <<world, server, query, rows, drawer, saving, adding, busy, dialog, text, calls>>

Insert ==
  /\ Step /\ adding /\ ~busy
  /\ busy' = TRUE
  /\ Start(Request("insert", None, Sent(kind, grid.form), None, "write"))
  /\ UNCHANGED <<world, server, query, rows, drawer, saving, adding, grid, dialog, text>>

\* The add key dialog, on the name of this key: a value of the kind of the tab,
\* a text (what the dialog starts with), or a value of some other kind.
Added(w) ==
  CASE IsText -> w [] kind = "stream" -> [f \in {w} |-> w] [] OTHER -> << Row(w, w) >>

AddKey ==
  /\ Click /\ ~readOnly
  /\ \/ \E w \in Word : Start(Request("create", None, Added(w), "same", "write"))
     \/ kind # "string" /\ Start(Request("create", None, << >>, "text", "write"))
     \/ Start(Request("create", None, << >>, "other", "write"))
  /\ dialog' = TRUE
  /\ UNCHANGED <<world, server, query, rows, drawers, text>>

-----------------------------------------------------------------------------
(* A text.                                                                  *)

\* A cleared string is not kept as what to save; a cleared document is.
Type(v) ==
  /\ Click /\ IsText /\ loaded /\ ~readOnly /\ ~text.loading
  /\ v # text.screen
  /\ LET kept == kind = "string" /\ v = Blank
     IN text' = [text EXCEPT !.screen = v, !.changed = TRUE,
                             !.value = IF kept THEN @ ELSE v, !.apart = kept]
  /\ UNCHANGED <<world, server, query, rows, drawers, dialog, calls>>

\* An empty document does not parse.
SaveText ==
  /\ Click /\ IsText /\ loaded /\ ~readOnly /\ ~text.loading /\ text.changed
  /\ kind = "rejson-rl" => text.value # Blank
  /\ text' = [text EXCEPT !.loading = TRUE]
  /\ Start(Request("text", Text, text.value, None, "write"))
  /\ UNCHANGED <<world, server, query, rows, drawers, dialog>>

-----------------------------------------------------------------------------
(* The server.                                                              *)

\* Once a request has looked, a change by anyone else is a race.
Pending(r) == r.step \in {"mark", "add", "set"} \/ (r.step = "remove" /\ r.op = "update")
Raced(table, c) ==
  [d \in DOMAIN table |->
     IF d = c THEN table[d] ELSE [table[d] EXCEPT !.raced = @ \/ Pending(table[d])]]

Write(c, content, next) ==
  /\ stored' = content
  /\ calls' = [Raced(calls, c) EXCEPT ![c].step = next, ![c].unseen = TRUE]

Look(c, good, next) ==
  /\ calls' = [calls EXCEPT ![c].step = IF good THEN next ELSE "error"]
  /\ UNCHANGED stored

ServerOnly == UNCHANGED <<world, query, rows, drawers, dialog, text, steps>>

\* A command of the kind of the tab.  Only SET takes a key of another kind, and
\* makes it a string.
ServerStep == (other => kind = "string") /\ other' = FALSE /\ ServerOnly

\* Any other command on it is refused.
WrongType(c) ==
  /\ other /\ kind # "string" /\ (calls[c].op = "create" => calls[c].new = "same")
  /\ calls[c].step \notin {"done", "error"}
  /\ Look(c, FALSE, "error")
  /\ UNCHANGED <<last, other>> /\ ServerOnly

Marker(c) == [marker |-> c]

\* Mutant: the index is trusted, the value is not compared.
AsSeenByIndex(r) == r.id \in DOMAIN stored

\* LLEN and LINDEX: the row is still what was on the screen.
AsSeen(r) == r.id \in DOMAIN stored /\ stored[r.id] = r.val

\* LSET, which fails beyond the end.
SetItem(c, v, next) ==
  IF calls[c].id \in DOMAIN stored
  THEN Write(c, [stored EXCEPT ![calls[c].id] = v], next)
  ELSE Look(c, FALSE, "error")

\* Look, set a marker, LREM of the marker.
ListItemDel(c) ==
  /\ kind = "list" /\ calls[c].op = "delete"
  /\ \/ calls[c].step = "check" /\ Look(c, AsSeen(calls[c]), "mark")
     \/ calls[c].step = "mark" /\ SetItem(c, Marker(c), "remove")
     \/ calls[c].step = "remove" /\ Write(c, RemoveFirst(stored, Marker(c)), "done")
  /\ UNCHANGED last /\ ServerStep

\* HDEL, SREM, ZREM, XDEL; an empty name is refused.
RowDel(c) ==
  LET r == calls[c]
  IN /\ kind # "list" /\ r.op = "delete" /\ r.step = "remove"
     /\ IF r.id # Blank /\ stored # << >> THEN Write(c, Drop(stored, r.id), "done")
                                            ELSE Look(c, FALSE, "error")
     /\ UNCHANGED last /\ ServerStep

ListItemUpdate(c) ==
  /\ kind = "list" /\ calls[c].op = "update"
  /\ \/ calls[c].step = "check" /\ Look(c, AsSeen(calls[c]), "set")
     \/ calls[c].step = "set" /\ SetItem(c, calls[c].new, "done")
  /\ UNCHANGED last /\ ServerStep

\* A renaming looks whether the new name is free, adds it, and removes the old.
RowUpdate(c) ==
  LET r == calls[c]
      same == r.new = r.id
      legal == stored # << >> /\ r.id # Blank /\ (kind = "set" => r.new # Blank)
  IN /\ kind \in {"hash", "zset", "set"} /\ r.op = "update"
     /\ \/ r.step = "set" /\ legal /\ Write(c, Put(stored, r.id, r.val), "done")
        \/ r.step = "set" /\ ~legal /\ Look(c, FALSE, "error")
        \/ /\ r.step = "check"
           /\ LET there == kind = "set" => r.id \in DOMAIN stored
                  free == r.new \notin DOMAIN stored
              IN Look(c, legal /\ (same \/ (there /\ free)), IF same THEN "done" ELSE "add")
        \/ r.step = "add" /\ Write(c, Put(stored, r.new, r.val), "remove")
        \/ r.step = "remove" /\ Write(c, Drop(stored, r.id), "done")
     /\ UNCHANGED last /\ ServerStep

\* LPUSH puts the last row first; a list or set cannot take an object, a
\* stream no entry without fields.
Inserted(r) ==
  LET named(x) == {i \in DOMAIN r.val : r.val[i].a = x} IN
  CASE kind = "list" -> Reverse([i \in DOMAIN r.val |-> r.val[i].b]) \o stored
    [] kind = "set" ->
         [x \in DOMAIN stored \cup {r.val[i].b : i \in DOMAIN r.val} |-> Text]
    [] kind = "stream" -> Put(stored, last + 1, r.val)
    [] IsText -> [x \in {Text} |-> r.val]
    [] OTHER -> [x \in DOMAIN stored \cup {r.val[i].a : i \in DOMAIN r.val} |->
                   IF named(x) = {} THEN stored[x] ELSE r.val[Max(named(x))].b]

Takes(r) ==
  CASE kind \in {"list", "set"} -> \A i \in DOMAIN r.val : r.val[i].b # Object
    [] kind = "stream" -> DOMAIN r.val # {}
    [] OTHER -> TRUE

\* Of the kind of the tab: the rows of its insert drawer, or of the dialog.
KeyCreate(c) ==
  LET r == calls[c]
  IN /\ r.op = "insert" \/ (r.op = "create" /\ r.new = "same")
     /\ r.step = "write"
     /\ IF Takes(r) THEN Write(c, Inserted(r), "done") ELSE Look(c, FALSE, "error")
     /\ last' = IF kind = "stream" /\ Takes(r) THEN last + 1 ELSE last
     /\ ServerStep

\* Of another kind: a text is SET, whatever the key was; the commands of the
\* other kinds want a key that is not there, or is of theirs already.
KeyCreateOther(c) ==
  LET r == calls[c]
  IN /\ r.op = "create" /\ r.new # "same" /\ r.step = "write"
     /\ \/ /\ r.new = "text" \/ stored = << >>
           /\ Write(c, << >>, "done") /\ other' = TRUE
        \/ /\ r.new = "other" /\ (other \/ stored # << >>)
           /\ Look(c, FALSE, "error") /\ UNCHANGED other
     /\ UNCHANGED last /\ ServerOnly

KeyValueUpdate(c) ==
  LET r == calls[c]
  IN /\ r.op = "text" /\ r.step = "write"
     /\ Write(c, [x \in {Text} |-> r.val], "done")
     /\ UNCHANGED last /\ ServerStep

\* The connection is lost before the next command, or before the answer.
CallFails(c) ==
  /\ Step /\ calls[c].step # "error"
  /\ calls' = [calls EXCEPT ![c].step = "error"]
  /\ UNCHANGED <<world, server, query, rows, drawers, dialog, text>>

\* Another client adds, changes or removes a row.
Another ==
  /\ Step /\ ~other
  /\ \/ kind = "list" /\ \E v \in Word : stored' = << v >> \o stored
     \/ kind = "list" /\ stored # << >> /\ stored' = Tail(stored)
     \/ kind \in {"hash", "zset"} /\ \E x \in Word, v \in Word : stored' = Put(stored, x, v)
     \/ kind = "set" /\ \E x \in Word : stored' = Put(stored, x, Text)
     \/ kind # "list" /\ \E x \in DOMAIN stored : stored' = Drop(stored, x)
     \/ IsText /\ \E v \in Word : stored' = [x \in {Text} |-> v]
  /\ behind' = TRUE
  /\ calls' = Raced(calls, None)
  /\ UNCHANGED <<world, last, other, shown, loaded, fetch, got, rows, drawers, dialog, text>>

-----------------------------------------------------------------------------
(* Answers.                                                                 *)

Over(c, op) ==
  /\ calls[c].op = op /\ calls[c].step \in {"done", "error"}
  /\ calls' = [d \in DOMAIN calls \ {c} |-> calls[d]]
  /\ UNCHANGED <<world, server, steps>>

\* Mutant: the page is not read again.
RefreshNot(c) == UNCHANGED query

\* A success invalidates the query and reloads; a failure does neither, even
\* of a request that has written.
Refresh(c) ==
  IF calls[c].step = "done" THEN Invalidate
  ELSE behind' = (behind \/ calls[c].unseen) /\ UNCHANGED <<shown, loaded, fetch, got>>

Deleted(c) ==
  /\ Over(c, "delete") /\ Refresh(c)
  /\ deleting' = None
  /\ UNCHANGED <<ask, drawers, dialog, text>>

\* The drawer that is open is closed, whichever row it shows by now.
Saved(c) ==
  /\ Over(c, "update") /\ Refresh(c)
  /\ saving' = FALSE
  /\ drawer' = IF calls[c].step = "done" THEN Closed ELSE drawer
  /\ UNCHANGED <<rows, adding, busy, grid, dialog, text>>

\* The drawer stays open; only a stream's editor starts afresh.
InsertSaved(c) ==
  /\ Over(c, "insert") /\ Refresh(c)
  /\ busy' = FALSE
  /\ grid' = IF calls[c].step = "done" /\ kind = "stream" THEN FreshGrid(kind) ELSE grid
  /\ UNCHANGED <<rows, drawer, saving, adding, dialog, text>>

Created(c) ==
  /\ Over(c, "create") /\ Refresh(c)
  /\ dialog' = FALSE
  /\ UNCHANGED <<rows, drawers, text>>

TextSaved(c) ==
  /\ Over(c, "text") /\ Refresh(c)
  /\ text' = [text EXCEPT !.loading = FALSE]
  /\ UNCHANGED <<rows, drawers, dialog>>

-----------------------------------------------------------------------------
(* The views of the kinds of rows.                                          *)

ListRow(id) == kind = "list" /\ (AskDelete(id) \/ Edit(id))
HashRow(id) == kind = "hash" /\ (AskDelete(id) \/ Edit(id))
SetRow(id) == kind = "set" /\ (AskDelete(id) \/ Edit(id))
ZsetRow(id) == kind = "zset" /\ (AskDelete(id) \/ Edit(id))
StreamRow(id) == kind = "stream" /\ AskDelete(id)

InsertDrawer == OpenInsert \/ CloseInsert \/ EditGrid
ListDrawer == kind = "list" /\ InsertDrawer
HashDrawer == kind = "hash" /\ InsertDrawer
SetDrawer == kind = "set" /\ InsertDrawer
ZsetDrawer == kind = "zset" /\ InsertDrawer
StreamDrawer == kind = "stream" /\ InsertDrawer

ListSubmit == kind = "list" /\ Insert
HashSubmit == kind = "hash" /\ Insert
SetSubmit == kind = "set" /\ Insert
ZsetSubmit == kind = "zset" /\ Insert
StreamSubmit == kind = "stream" /\ Insert

User ==
  \/ Reload \/ Dismiss \/ ConfirmedForNothing
  \/ ItemDel \/ FieldDel \/ MemberDel \/ ZsetMemberDel \/ EntryDel
  \/ \E id \in DOMAIN shown :
       ListRow(id) \/ HashRow(id) \/ SetRow(id) \/ ZsetRow(id) \/ StreamRow(id)
  \/ \E name \in Word \cup {Blank}, v \in Word \cup {Blank} : Save(name, v)
  \/ CloseDrawer \/ AddKey
  \/ ListDrawer \/ HashDrawer \/ SetDrawer \/ ZsetDrawer \/ StreamDrawer
  \/ ListSubmit \/ HashSubmit \/ SetSubmit \/ ZsetSubmit \/ StreamSubmit
  \/ \E v \in Word \cup {Blank} : Type(v)
  \/ SaveText

Server ==
  \/ Read \/ Another
  \/ \E c \in DOMAIN calls :
       \/ ListItemDel(c) \/ RowDel(c) \/ ListItemUpdate(c) \/ RowUpdate(c)
       \/ KeyCreate(c) \/ KeyCreateOther(c) \/ KeyValueUpdate(c)
       \/ WrongType(c) \/ CallFails(c)

Answers ==
  \/ Fetched \/ Retyped \/ FetchFailed
  \/ \E c \in DOMAIN calls : Deleted(c) \/ Saved(c) \/ InsertSaved(c) \/ Created(c) \/ TextSaved(c)

Next == User \/ Server \/ Answers

Spec == Init /\ [][Next]_vars

-----------------------------------------------------------------------------
(* Properties.                                                              *)

\* Once nothing is in flight the tab shows what the server holds, unless
\* another client has written since the last read, a read has failed, an edit
\* has failed after it had written, or an edit was answered after the first
\* load had read the key: that load is not started over.
ShownIsStored == (fetch = "idle" /\ calls = << >> /\ ~behind) => shown = stored

\* A row is lost only to a deletion confirmed for that very row, or to a
\* renaming whose new row is there; in a list, for a row of the value that was
\* seen.  The commands of one request are not one step: if others write
\* between them (raced), a list may lose another row.  And all rows are lost,
\* with no question asked, to a text that the add key dialog sends under the
\* name of the key: KeyCreate SETs it whatever the key was.
Overwrites(r) == r.op = "create" /\ r.new = "text"

Count(content, v) == Cardinality({i \in DOMAIN content : content[i] = v})

Lost(before, after) ==
  IF kind = "list"
  THEN {v \in Word \cup {Blank, Space} : Count(before, v) > Count(after, v)}
  ELSE DOMAIN before \ DOMAIN after

OnlyTheSeenIsLost ==
  [][ steps' = steps => \A lost \in Lost(stored, stored') :
        \E c \in DOMAIN calls :
          /\ calls[c].step # calls'[c].step
          /\ \/ Overwrites(calls[c])
             \/ kind = "list" /\ (calls[c].val = lost \/ calls[c].raced)
             \/ /\ kind # "list" /\ calls[c].id = lost
                /\ calls[c].op = "update" =>
                     calls[c].new \in DOMAIN stored' \/ calls[c].raced ]_vars

\* What is sent is what is on the screen.  Not so for a text that was cleared
\* or replaced by a load since it was typed (apart), nor, but in the editor of
\* a stream, for rows after one was inserted or deleted or the drawer was
\* opened again (moved).  Of a stream every field on the screen is sent, but of
\* rows of one field only the last, and in no order.
LastOfItsField(rs, i) == \A j \in DOMAIN rs : rs[j].a = rs[i].a => j <= i

EntryOf(rs, entry) ==
  /\ DOMAIN entry = {rs[i].a : i \in DOMAIN rs} \ {Blank}
  /\ \A i \in DOMAIN rs :
       rs[i].a # Blank /\ LastOfItsField(rs, i) => entry[rs[i].a] = rs[i].b

SendsWhatIsShown ==
  [][ \A c \in DOMAIN calls' \ DOMAIN calls :
        LET r == calls'[c]
        IN /\ r.op = "text" /\ ~text.apart => r.val = text.screen
           /\ r.op = "insert" /\ kind = "stream" => EntryOf(grid.screen, r.val)
           /\ r.op = "insert" /\ kind # "stream" /\ ~grid.moved =>
                \A i \in DOMAIN r.val : grid.screen[i].b # Blank => r.val[i] = grid.screen[i] ]_vars
=============================================================================
