------------------------------- MODULE Browser -------------------------------
(***************************************************************************)
(* The key browser of the sidebar: the tree that is built from the keys a  *)
(* search has found, deletion of a key or of a folder with the preview     *)
(* dialog of browser-bulk-delete-dialog.tsx, and the key list tab with the *)
(* metadata it fetches for the rows on screen.                             *)
(*                                                                         *)
(* The database shown is the workspace's and may change at any moment: a   *)
(* connect that was in flight answers.  Searches are those of KeysSearch;  *)
(* here they deliver any keys at any time.                                 *)
(***************************************************************************)
EXTENDS Naturals, FiniteSets

CONSTANTS
  Db,        \* databases: a connection and an index
  Key,       \* names of keys
  Folder,    \* prefixes up to a colon
  FolderOf,  \* the folder of a key
  Scan,      \* preview scans in flight; bounds how many there are
  Call,      \* deletions in flight; bounds how many there are
  Request,   \* metadata requests in flight; bounds how many there are
  None,
  MaxClicks  \* bound: what the user does, and how often the keys change

ASSUME BrowserAssumption ==
  FolderOf \in [Key -> Folder] /\ None \notin Db \cup Key \cup Folder /\ MaxClicks \in Nat

VARIABLES
  here,      \* selectedDb and selectedDbIdx
  keys,      \* what the search has found
  searching, \* isLoading of the search
  readOnly,  \* the connection is read-only
  tree,      \* dataset: the keys the tree is built from
  building,  \* isBuildingTree: the tree is covered
  timer,     \* the 250 ms timer of the effect on keys
  dialog,    \* the dialog of a folder
  preview,   \* keys of the dialog, with the database each was scanned in
  opened,    \* history: the database the dialog was opened in, and whether
             \* its preview can be trusted since
  scans,     \* scan loops in flight
  ask,       \* the open confirmation, a modal
  calls,     \* deletions in flight
  meta,      \* keys of the list tab whose metadata is known
  fetching,  \* fetchingKeys of the list tab
  requests,  \* its metadata requests in flight
  clicks     \* for MaxClicks

sidebar == <<here, keys, searching, readOnly, tree, building, timer>>
deletion == <<dialog, preview, opened, scans, ask, calls>>
list == <<meta, fetching, requests>>
vars == <<sidebar, deletion, list, clicks>>

Shut == [open |-> FALSE, prefix |-> None, more |-> FALSE, scanning |-> FALSE, deleting |-> FALSE]
Untouched == [db |-> None, stale |-> FALSE]

Init ==
  /\ here \in Db /\ readOnly \in BOOLEAN
  /\ keys = {} /\ searching = TRUE
  /\ tree = {} /\ building = FALSE /\ timer = FALSE
  /\ dialog = Shut /\ preview = {} /\ opened = Untouched /\ scans = << >>
  /\ ask = None /\ calls = << >>
  /\ meta = {} /\ fetching = {} /\ requests = << >>
  /\ clicks = 0

Step == clicks < MaxClicks /\ clicks' = clicks + 1

\* The folder dialog and the confirmation are modal.
Click == Step /\ ~dialog.open /\ ask = None

Put(table, id, r) == [x \in DOMAIN table \cup {id} |-> IF x = id THEN r ELSE table[x]]
Drop(table, id) == [x \in DOMAIN table \ {id} |-> table[x]]

-----------------------------------------------------------------------------
(* The search and the tree.                                                 *)

\* Mutant: keys that come while the tree is being built do not start over.
ShowSkipping(found) ==
  /\ keys' = found
  /\ IF found = {} THEN tree' = {} /\ timer' = FALSE /\ UNCHANGED building
     ELSE IF building THEN timer' = FALSE /\ UNCHANGED <<tree, building>>
     ELSE building' = TRUE /\ timer' = TRUE /\ UNCHANGED tree

\* The effect on keys: none empty the tree, others cover it and set the timer
\* anew.  The cover stays on if the keys vanish before the timer rings.
Show(found) ==
  /\ keys' = found
  /\ IF found = {}
     THEN tree' = {} /\ timer' = FALSE /\ UNCHANGED building
     ELSE building' = TRUE /\ timer' = TRUE /\ UNCHANGED tree

\* A filter, a reload, the next page; keys found before may stay.
Search ==
  /\ Click /\ ~searching
  /\ searching' = TRUE
  /\ UNCHANGED <<here, keys, readOnly, tree, building, timer, deletion, list>>

Found ==
  /\ Step
  /\ \E found \in SUBSET Key : Show(found)
  /\ searching' \in BOOLEAN
  /\ UNCHANGED <<here, readOnly, deletion, list>>

BuildTree ==
  /\ timer
  /\ tree' = keys /\ building' = FALSE /\ timer' = FALSE
  /\ UNCHANGED <<here, keys, searching, readOnly, deletion, list, clicks>>

\* The workspace selects another database, clicked or answered; its keys may
\* be cached.
MoveTo(d) ==
  /\ Step /\ d # here
  /\ here' = d
  /\ \E cached \in SUBSET Key : Show(cached)
  /\ searching' \in BOOLEAN /\ readOnly' \in BOOLEAN
  /\ opened' = [opened EXCEPT !.stale = dialog.open \/ @]
  /\ UNCHANGED <<dialog, preview, scans, ask, calls, list>>

\* The panel is left and shown again: nothing of it survives but the calls it
\* has made.
Remount ==
  /\ Click
  /\ tree' = {} /\ building' = (keys # {}) /\ timer' = (keys # {})
  /\ dialog' = Shut /\ preview' = {} /\ scans' = << >>
  /\ calls' = [s \in DOMAIN calls |-> [calls[s] EXCEPT !.live = FALSE]]
  /\ UNCHANGED <<here, keys, searching, readOnly, opened, ask, list>>

SetReadOnly ==
  /\ Step /\ readOnly' = ~readOnly
  /\ UNCHANGED <<here, keys, searching, tree, building, timer, deletion, list>>

-----------------------------------------------------------------------------
(* Deleting a key.                                                          *)

\* buildTree makes a group of every prefix of a key found.
Groups == {FolderOf[k] : k \in tree}

\* The menu of a tree item; handleDelete returns while the search runs.  A menu
\* that was open before the tree was covered lies on top of the cover.
ItemMenu == Click /\ ~readOnly /\ ~searching

AskDeleteKey(k) ==
  /\ ItemMenu /\ k \in tree
  /\ ask' = [what |-> "key", db |-> here, name |-> k]
  /\ UNCHANGED <<sidebar, dialog, preview, opened, scans, calls, list>>

Delete(op, d, f, ks) ==
  \E s \in Call \ DOMAIN calls :
    calls' = Put(calls, s, [op |-> op, db |-> d, prefix |-> f, keys |-> ks, live |-> TRUE])

\* The row of the list tab deletes at once.
DeleteRow(k) ==
  /\ Click
  /\ Delete("row", None, None, {k})
  /\ UNCHANGED <<sidebar, dialog, preview, opened, scans, ask, list>>

Dismiss ==
  /\ ask # None /\ ask' = None
  /\ UNCHANGED <<sidebar, dialog, preview, opened, scans, calls, list, clicks>>

\* The database of a key is the one it was shown in.
DeleteKey ==
  /\ ask # None /\ ask.what = "key" /\ ask' = None
  /\ Delete("key", ask.db, None, {ask.name})
  /\ UNCHANGED <<sidebar, dialog, preview, opened, scans, list, clicks>>

KeyDeleted(s) ==
  /\ s \in DOMAIN calls /\ calls[s].op \in {"key", "row"}
  /\ calls' = Drop(calls, s)
  /\ UNCHANGED <<sidebar, dialog, preview, opened, scans, ask, list, clicks>>

-----------------------------------------------------------------------------
(* Deleting a folder.                                                       *)

StartScan(kind, f) ==
  \E s \in Scan \ DOMAIN scans : scans' = Put(scans, s, [kind |-> kind, prefix |-> f, db |-> here])

\* Mutant: the preview of the last time is not cleared.
OpenFolderKeepingPreview(f) ==
  /\ ItemMenu /\ f \in Groups
  /\ dialog' = [dialog EXCEPT !.open = TRUE, !.prefix = f, !.more = FALSE, !.scanning = TRUE]
  /\ opened' = [db |-> here, stale |-> DOMAIN scans # {}]
  /\ StartScan("batch", f)
  /\ UNCHANGED <<sidebar, preview, ask, calls, list>>

\* The effect on open and prefix clears the preview and scans.  A scan that is
\* still on its way from the last time is not stopped.
OpenFolder(f) ==
  /\ ItemMenu /\ f \in Groups
  /\ dialog' = [dialog EXCEPT !.open = TRUE, !.prefix = f, !.more = FALSE, !.scanning = TRUE]
  /\ preview' = {}
  /\ opened' = [db |-> here, stale |-> DOMAIN scans # {}]
  /\ StartScan("batch", f)
  /\ UNCHANGED <<sidebar, ask, calls, list>>

\* loadNextBatch and handleLoadAll, a page at a time: any keys of the folder.
\* An error counts as an empty last page.
Page(s) ==
  /\ s \in DOMAIN scans
  /\ \E page \in SUBSET {k \in Key : FolderOf[k] = scans[s].prefix} :
       preview' = preview \cup {[db |-> scans[s].db, key |-> k] : k \in page}
  /\ \/ /\ dialog' = IF scans[s].kind = "all" THEN [dialog EXCEPT !.more = TRUE] ELSE dialog
        /\ UNCHANGED scans
     \/ /\ \E more \in {FALSE} \cup {scans[s].kind = "batch"} :
             dialog' = [dialog EXCEPT !.more = more, !.scanning = FALSE]
        /\ scans' = Drop(scans, s)
  /\ UNCHANGED <<sidebar, opened, ask, calls, list, clicks>>

InDialog == Step /\ dialog.open /\ ask = None

LoadMore(kind) ==
  /\ InDialog /\ dialog.more /\ ~dialog.scanning
  /\ dialog' = [dialog EXCEPT !.scanning = TRUE]
  /\ StartScan(kind, dialog.prefix)
  /\ UNCHANGED <<sidebar, preview, opened, ask, calls, list>>

ShutDialog(deleting) ==
  IF dialog.open
  THEN /\ dialog' = [Shut EXCEPT !.prefix = dialog.prefix, !.deleting = deleting]
       /\ preview' = {}
  ELSE dialog' = [dialog EXCEPT !.deleting = deleting] /\ UNCHANGED preview

\* Cancel waits for a deletion, Escape and the cross do not.
CloseDialog ==
  /\ InDialog
  /\ ShutDialog(dialog.deleting)
  /\ UNCHANGED <<sidebar, opened, scans, ask, calls, list>>

\* The list of names goes to the database of the latest render.  To the
\* backend an empty list means every key of the prefix.
DeletePreview ==
  /\ InDialog /\ ~dialog.deleting /\ preview # {}
  /\ dialog' = [dialog EXCEPT !.deleting = TRUE]
  /\ Delete("folder", here, dialog.prefix, preview)
  /\ UNCHANGED <<sidebar, preview, opened, scans, ask, list>>

AskDeleteAll ==
  /\ InDialog /\ ~dialog.deleting /\ (dialog.scanning => preview # {})
  /\ ask' = [what |-> "all", db |-> here, name |-> dialog.prefix]
  /\ UNCHANGED <<sidebar, dialog, preview, opened, scans, calls, list>>

DeleteAll ==
  /\ ask # None /\ ask.what = "all" /\ ask' = None
  /\ dialog' = [dialog EXCEPT !.deleting = TRUE]
  /\ Delete("folder", here, ask.name, {})
  /\ UNCHANGED <<sidebar, preview, opened, scans, list, clicks>>

\* Succeeded or failed, the dialog is shut, whatever folder it shows by now.
FolderDeleted(s) ==
  /\ s \in DOMAIN calls /\ calls[s].op = "folder"
  /\ calls' = Drop(calls, s)
  /\ IF calls[s].live THEN ShutDialog(FALSE) ELSE UNCHANGED <<dialog, preview>>
  /\ UNCHANGED <<sidebar, opened, scans, ask, list, clicks>>

-----------------------------------------------------------------------------
(* The list tab: metadata of the rows on screen.                            *)

RangeChanged(visible) ==
  LET wanted == visible \ (meta \cup fetching)
  IN  /\ Step /\ wanted # {}
      /\ fetching' = fetching \cup wanted
      /\ \E r \in Request \ DOMAIN requests : requests' = Put(requests, r, wanted)
      /\ UNCHANGED <<sidebar, deletion, meta>>

\* Keys that are gone, or a failure, leave rows without metadata.
MetadataCame(r) ==
  /\ r \in DOMAIN requests
  /\ \E got \in SUBSET requests[r] : meta' = meta \cup got
  /\ fetching' = fetching \ requests[r]
  /\ requests' = Drop(requests, r)
  /\ UNCHANGED <<sidebar, deletion, clicks>>

ReloadList ==
  /\ Click /\ meta' = {}
  /\ UNCHANGED <<sidebar, deletion, fetching, requests>>

-----------------------------------------------------------------------------
Next ==
  \/ Search \/ Found \/ BuildTree \/ Remount \/ SetReadOnly
  \/ \E d \in Db : MoveTo(d)
  \/ \E k \in Key : AskDeleteKey(k) \/ DeleteRow(k)
  \/ Dismiss \/ DeleteKey
  \/ \E f \in Folder : OpenFolder(f)
  \/ \E s \in Scan : Page(s)
  \/ \E kind \in {"batch", "all"} : LoadMore(kind)
  \/ CloseDialog \/ DeletePreview \/ AskDeleteAll \/ DeleteAll
  \/ \E s \in Call : KeyDeleted(s) \/ FolderDeleted(s)
  \/ \E visible \in SUBSET Key : RangeChanged(visible)
  \/ \E r \in Request : MetadataCame(r)
  \/ ReloadList

Spec == Init /\ [][Next]_vars

-----------------------------------------------------------------------------
(* Properties.                                                              *)

\* A tree that can be clicked is the tree of the keys found in the database
\* shown, although it is built 250 ms late and a cached answer may bring
\* another database's keys in one step; and a covered tree is being built.
TreeFollowsKeys ==
  /\ ~building => tree = keys
  /\ building /\ keys # {} => timer

\* What a folder deletion sends is what was agreed to.  An empty list, which
\* the backend takes for the whole prefix, is sent only after the second
\* question.  A list holds keys of the folder, scanned in the database the
\* dialog was opened in, and goes there: unless an older scan was still on its
\* way when the dialog opened, or the database changed under it.
DeletesWhatWasShown ==
  [][\A s \in DOMAIN calls' \ DOMAIN calls :
       LET c == calls'[s]
       IN  c.op = "folder" =>
             /\ c.keys = {} => ask # None /\ ask.what = "all" /\ ask.name = c.prefix
             /\ ~opened.stale =>
                  /\ c.db = opened.db
                  /\ \A x \in c.keys : x.db = opened.db /\ FolderOf[x.key] = c.prefix]_vars

\* The metadata of a key is asked for once at a time, so that its answers
\* cannot overtake one another; what is being asked for is in flight.
FetchedOnce ==
  /\ \A q, r \in DOMAIN requests : q # r => requests[q] \cap requests[r] = {}
  /\ fetching = UNION {requests[r] : r \in DOMAIN requests}
=============================================================================
