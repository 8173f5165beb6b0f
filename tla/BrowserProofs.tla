---------------------------- MODULE BrowserProofs ----------------------------
(***************************************************************************)
(* Proofs about Browser, for any databases, keys, folders and requests.    *)
(***************************************************************************)
EXTENDS Browser, TLAPS

-----------------------------------------------------------------------------
(* The tree.                                                                *)

\* Every step that brings keys goes through Show; the others that touch the
\* tree are its timer and the panel shown anew.
LEMMA ShowKeepsTree == ASSUME TreeFollowsKeys, NEW found, Show(found) PROVE TreeFollowsKeys'
BY DEF Show, TreeFollowsKeys

LEMMA SidebarSteps ==
  ASSUME Next
  PROVE  \/ \E found : Show(found)
         \/ BuildTree
         \/ Remount
         \/ UNCHANGED <<keys, tree, building, timer>>
<1>1. CASE Search \/ Found \/ BuildTree \/ Remount \/ SetReadOnly \/ \E d \in Db : MoveTo(d)
  BY <1>1 DEF Search, Found, SetReadOnly, MoveTo
<1>2. CASE \E k \in Key : AskDeleteKey(k) \/ DeleteRow(k)
  BY <1>2 DEF AskDeleteKey, DeleteRow, sidebar
<1>3. CASE Dismiss \/ DeleteKey \/ CloseDialog \/ DeletePreview \/ AskDeleteAll \/ DeleteAll
           \/ ReloadList
  BY <1>3 DEF Dismiss, DeleteKey, CloseDialog, DeletePreview, AskDeleteAll, DeleteAll, ReloadList,
     sidebar
<1>4. CASE \/ \E f \in Folder : OpenFolder(f)
           \/ \E s \in Scan : Page(s)
           \/ \E kind \in {"batch", "all"} : LoadMore(kind)
           \/ \E s \in Call : KeyDeleted(s) \/ FolderDeleted(s)
  BY <1>4 DEF OpenFolder, Page, LoadMore, KeyDeleted, FolderDeleted, sidebar
<1>5. CASE \/ \E visible \in SUBSET Key : RangeChanged(visible)
           \/ \E r \in Request : MetadataCame(r)
  BY <1>5 DEF RangeChanged, MetadataCame, sidebar
<1>. QED
  BY <1>1, <1>2, <1>3, <1>4, <1>5 DEF Next

\* A tree that can be clicked is the tree of the keys found, whatever the
\* searches and the workspace bring and however late it is built: the effect
\* on keys in sidebar-browser.tsx.
THEOREM TreeIsOfTheKeys == Spec => []TreeFollowsKeys
<1>1. Init => TreeFollowsKeys
  BY DEF Init, TreeFollowsKeys
<1>2. TreeFollowsKeys /\ [Next]_vars => TreeFollowsKeys'
  <2>. SUFFICES ASSUME TreeFollowsKeys, [Next]_vars PROVE TreeFollowsKeys'
    OBVIOUS
  <2>1. CASE UNCHANGED <<keys, tree, building, timer>>
    BY <2>1 DEF TreeFollowsKeys
  <2>2. CASE \E found : Show(found)
    BY <2>2, ShowKeepsTree
  <2>3. CASE BuildTree
    BY <2>3 DEF BuildTree, TreeFollowsKeys
  <2>4. CASE Remount
    BY <2>4 DEF Remount, TreeFollowsKeys
  <2>. QED
    BY <2>1, <2>2, <2>3, <2>4, SidebarSteps DEF vars, sidebar
<1>. QED
  BY <1>1, <1>2, PTL DEF Spec

-----------------------------------------------------------------------------
(* The metadata of the list tab.                                            *)

LEMMA ListSteps ==
  ASSUME Next
  PROVE  \/ \E visible \in SUBSET Key : RangeChanged(visible)
         \/ \E r \in Request : MetadataCame(r)
         \/ UNCHANGED <<fetching, requests>>
<1>1. CASE Search \/ Found \/ BuildTree \/ Remount \/ SetReadOnly \/ \E d \in Db : MoveTo(d)
  BY <1>1 DEF Search, Found, BuildTree, Remount, SetReadOnly, MoveTo, list
<1>2. CASE \E k \in Key : AskDeleteKey(k) \/ DeleteRow(k)
  BY <1>2 DEF AskDeleteKey, DeleteRow, list
<1>3. CASE Dismiss \/ DeleteKey \/ CloseDialog \/ DeletePreview \/ AskDeleteAll \/ DeleteAll
           \/ ReloadList
  BY <1>3 DEF Dismiss, DeleteKey, CloseDialog, DeletePreview, AskDeleteAll, DeleteAll, ReloadList,
     list
<1>4. CASE \/ \E f \in Folder : OpenFolder(f)
           \/ \E s \in Scan : Page(s)
           \/ \E kind \in {"batch", "all"} : LoadMore(kind)
           \/ \E s \in Call : KeyDeleted(s) \/ FolderDeleted(s)
  BY <1>4 DEF OpenFolder, Page, LoadMore, KeyDeleted, FolderDeleted, list
<1>. QED
  BY <1>1, <1>2, <1>3, <1>4 DEF Next

\* No key is asked for twice at a time, and what counts as asked for is on its
\* way: fetchingKeys in connection-detail-tab-key-list.tsx, in step with the
\* requests however they overlap.
THEOREM NoKeyFetchedTwice == Spec => []FetchedOnce
<1>1. Init => FetchedOnce
  BY DEF Init, FetchedOnce
<1>2. FetchedOnce /\ [Next]_vars => FetchedOnce'
  <2>. SUFFICES ASSUME FetchedOnce, [Next]_vars PROVE FetchedOnce'
    OBVIOUS
  <2>1. CASE UNCHANGED <<fetching, requests>>
    BY <2>1 DEF FetchedOnce
  <2>2. ASSUME NEW visible \in SUBSET Key, RangeChanged(visible)
        PROVE  FetchedOnce'
    <3>. DEFINE wanted == visible \ (meta \cup fetching)
    <3>1. PICK r \in Request \ DOMAIN requests : requests' = Put(requests, r, wanted)
      BY <2>2 DEF RangeChanged
    <3>2. /\ DOMAIN requests' = DOMAIN requests \cup {r}
          /\ requests'[r] = wanted
          /\ \A q \in DOMAIN requests : requests'[q] = requests[q]
      BY <3>1 DEF Put
    <3>3. fetching' = fetching \cup wanted
      BY <2>2 DEF RangeChanged
    <3>4. \A q \in DOMAIN requests : requests[q] \subseteq fetching
      BY DEF FetchedOnce
    <3>5. \A p, q \in DOMAIN requests' : p # q => requests'[p] \cap requests'[q] = {}
      BY <3>2, <3>4 DEF FetchedOnce
    <3>6. fetching' = UNION {requests'[q] : q \in DOMAIN requests'}
      BY <3>2, <3>3 DEF FetchedOnce
    <3>. QED
      BY <3>5, <3>6 DEF FetchedOnce
  <2>3. ASSUME NEW r \in Request, MetadataCame(r)
        PROVE  FetchedOnce'
    <3>1. /\ r \in DOMAIN requests
          /\ DOMAIN requests' = DOMAIN requests \ {r}
          /\ \A q \in DOMAIN requests' : requests'[q] = requests[q]
          /\ fetching' = fetching \ requests[r]
      BY <2>3 DEF MetadataCame, Drop
    <3>2. \A p, q \in DOMAIN requests' : p # q => requests'[p] \cap requests'[q] = {}
      BY <3>1 DEF FetchedOnce
    <3>3. fetching' = UNION {requests'[q] : q \in DOMAIN requests'}
      BY <3>1 DEF FetchedOnce
    <3>. QED
      BY <3>2, <3>3 DEF FetchedOnce
  <2>. QED
    BY <2>1, <2>2, <2>3, ListSteps DEF vars, list
<1>. QED
  BY <1>1, <1>2, PTL DEF Spec

-----------------------------------------------------------------------------
(* Deleting a folder.                                                       *)

Dialog ==
  [open : BOOLEAN, prefix : Folder \cup {None}, more : BOOLEAN, scanning : BOOLEAN,
   deleting : BOOLEAN]

IsCall(c) == DOMAIN c = {"op", "db", "prefix", "keys", "live"}
Deleting(c) == c.op = "folder" /\ c.live

TypeInv ==
  /\ here \in Db
  /\ opened \in [db : Db \cup {None}, stale : BOOLEAN]
  /\ dialog \in Dialog
  /\ \A s \in DOMAIN calls : IsCall(calls[s])

\* What the dialog shows, and what its scans will add, is of its folder, in the
\* database it was opened in, which is still the one shown.
ShownIsOfTheFolder ==
  dialog.open /\ ~opened.stale =>
    /\ here = opened.db
    /\ \A x \in preview : x.db = opened.db /\ FolderOf[x.key] = dialog.prefix
    /\ \A s \in DOMAIN scans : scans[s].db = opened.db /\ scans[s].prefix = dialog.prefix

\* The second question is put by the open dialog, and nothing shuts that under
\* it: the only deletion that could is not on its way.
AskedByTheDialog ==
  ask # None /\ ask.what = "all" => dialog.open /\ ~dialog.deleting /\ ask.name = dialog.prefix

OneDeletion ==
  \A s \in DOMAIN calls : Deleting(calls[s]) =>
    dialog.deleting /\ \A t \in DOMAIN calls : Deleting(calls[t]) => t = s

IInv == TypeInv /\ ShownIsOfTheFolder /\ AskedByTheDialog /\ OneDeletion

LEMMA InitIInv == Init => IInv
<1>. SUFFICES ASSUME Init PROVE IInv
  OBVIOUS
<1>1. opened \in [db : Db \cup {None}, stale : BOOLEAN] /\ dialog \in Dialog /\ ~dialog.open
  BY Zenon DEF Init, Untouched, Shut, Dialog
<1>2. here \in Db /\ DOMAIN calls = {} /\ ask = None
  BY DEF Init
<1>. QED
  BY <1>1, <1>2 DEF IInv, TypeInv, ShownIsOfTheFolder, AskedByTheDialog, OneDeletion

\* What the steps do to the dialog.
LEMMA DialogOpened ==
  ASSUME dialog \in Dialog, NEW f \in Folder,
         dialog' = [dialog EXCEPT !.open = TRUE, !.prefix = f, !.more = FALSE, !.scanning = TRUE]
  PROVE  dialog' \in Dialog /\ dialog'.prefix = f /\ dialog'.deleting = dialog.deleting
BY Zenon DEF Dialog

LEMMA DialogScans ==
  ASSUME dialog \in Dialog, NEW m \in BOOLEAN, NEW g \in BOOLEAN,
         \/ dialog' = [dialog EXCEPT !.more = m, !.scanning = g]
         \/ dialog' = [dialog EXCEPT !.more = m]
         \/ dialog' = [dialog EXCEPT !.scanning = g]
  PROVE  /\ dialog' \in Dialog
         /\ dialog'.open = dialog.open /\ dialog'.prefix = dialog.prefix
         /\ dialog'.deleting = dialog.deleting
<1>1. CASE dialog' = [dialog EXCEPT !.more = m, !.scanning = g]
  BY Zenon, <1>1 DEF Dialog
<1>2. CASE dialog' = [dialog EXCEPT !.more = m]
  BY Zenon, <1>2 DEF Dialog
<1>3. CASE dialog' = [dialog EXCEPT !.scanning = g]
  BY Zenon, <1>3 DEF Dialog
<1>. QED
  BY Zenon, <1>1, <1>2, <1>3

LEMMA DialogDeletes ==
  ASSUME dialog \in Dialog, NEW t \in BOOLEAN, dialog' = [dialog EXCEPT !.deleting = t]
  PROVE  /\ dialog' \in Dialog
         /\ dialog'.open = dialog.open /\ dialog'.prefix = dialog.prefix /\ dialog'.deleting = t
BY Zenon DEF Dialog

LEMMA DialogShut ==
  ASSUME NEW f \in Folder \cup {None}, NEW t \in BOOLEAN,
         dialog' = [Shut EXCEPT !.prefix = f, !.deleting = t]
  PROVE  dialog' \in Dialog /\ ~dialog'.open /\ dialog'.deleting = t
BY Zenon DEF Dialog, Shut

LEMMA CallSet ==
  ASSUME NEW op, NEW d, NEW f, NEW ks, NEW t \in BOOLEAN
  PROVE  LET c == [op |-> op, db |-> d, prefix |-> f, keys |-> ks, live |-> t]
         IN  /\ IsCall(c)
             /\ c.op = op /\ c.db = d /\ c.prefix = f /\ c.keys = ks /\ c.live = t
BY Zenon DEF IsCall

LEMMA CallDead ==
  ASSUME NEW c, IsCall(c)
  PROVE  IsCall([c EXCEPT !.live = FALSE]) /\ ~Deleting([c EXCEPT !.live = FALSE])
BY Zenon DEF IsCall, Deleting

LEMMA NewCall ==
  ASSUME NEW op, NEW d, NEW f, NEW ks, Delete(op, d, f, ks)
  PROVE  \E s \in Call \ DOMAIN calls :
           /\ DOMAIN calls' = DOMAIN calls \cup {s}
           /\ \A t \in DOMAIN calls : calls'[t] = calls[t]
           /\ IsCall(calls'[s])
           /\ calls'[s].op = op /\ calls'[s].db = d /\ calls'[s].prefix = f /\ calls'[s].keys = ks
<1>. DEFINE c(w) == [op |-> op, db |-> d, prefix |-> f, keys |-> ks, live |-> w]
<1>1. PICK s \in Call \ DOMAIN calls : calls' = Put(calls, s, c(TRUE))
  BY DEF Delete
<1>2. IsCall(c(TRUE)) /\ c(TRUE).op = op /\ c(TRUE).db = d /\ c(TRUE).prefix = f /\ c(TRUE).keys = ks
  BY Zenon, CallSet
<1>. HIDE DEF c
<1>3. /\ DOMAIN calls' = DOMAIN calls \cup {s}
      /\ \A t \in DOMAIN calls : calls'[t] = calls[t]
      /\ calls'[s] = c(TRUE)
  BY <1>1 DEF Put
<1>. QED
  BY <1>2, <1>3

\* The steps that leave the dialog, what it shows and its calls alone.
LEMMA QuietSteps ==
  ASSUME IInv, UNCHANGED <<here, dialog, preview, opened, scans, ask, calls>>
  PROVE  IInv'
BY DEF IInv, TypeInv, ShownIsOfTheFolder, AskedByTheDialog, OneDeletion, IsCall, Deleting

LEMMA MoveToStep == ASSUME IInv, NEW d \in Db, MoveTo(d) PROVE IInv'
<1>1. here' = d /\ UNCHANGED <<dialog, preview, scans, ask, calls>>
  BY DEF MoveTo
<1>2. opened' \in [db : Db \cup {None}, stale : BOOLEAN] /\ (dialog.open => opened'.stale)
  BY Zenon DEF MoveTo, IInv, TypeInv, Dialog
<1>3. TypeInv'
  BY <1>1, <1>2 DEF IInv, TypeInv, IsCall
<1>4. ShownIsOfTheFolder'
  BY <1>1, <1>2 DEF ShownIsOfTheFolder
<1>5. AskedByTheDialog' /\ OneDeletion'
  BY <1>1 DEF IInv, AskedByTheDialog, OneDeletion, Deleting
<1>. QED
  BY <1>3, <1>4, <1>5 DEF IInv

LEMMA RemountStep == ASSUME IInv, Remount PROVE IInv'
<1>1. UNCHANGED <<here, opened>> /\ ask = None /\ ask' = None
  BY DEF Remount, Click
<1>2. dialog' \in Dialog /\ ~dialog'.open
  BY Zenon DEF Remount, Shut, Dialog
<1>3. \A s \in DOMAIN calls' : IsCall(calls'[s]) /\ ~Deleting(calls'[s])
  <2>1. DOMAIN calls' = DOMAIN calls
        /\ \A s \in DOMAIN calls : calls'[s] = [calls[s] EXCEPT !.live = FALSE]
    BY Zenon DEF Remount
  <2>2. ASSUME NEW s \in DOMAIN calls
        PROVE  IsCall(calls'[s]) /\ ~Deleting(calls'[s])
    <3>1. IsCall(calls[s]) /\ calls'[s] = [calls[s] EXCEPT !.live = FALSE]
      BY Zenon, <2>1, <2>2 DEF IInv, TypeInv
    <3>. QED
      BY Zenon, <3>1, CallDead
  <2>. QED
    BY <2>1, <2>2
<1>. QED
  BY <1>1, <1>2, <1>3 DEF IInv, TypeInv, ShownIsOfTheFolder, AskedByTheDialog, OneDeletion

\* The two questions and what closes them.
LEMMA AskStep ==
  ASSUME IInv, \/ \E k \in Key : AskDeleteKey(k)
               \/ AskDeleteAll \/ Dismiss
  PROVE  IInv'
<1>1. UNCHANGED <<here, dialog, preview, opened, scans, calls>>
  BY DEF AskDeleteKey, AskDeleteAll, Dismiss, sidebar
<1>2. AskedByTheDialog'
  <2>1. CASE (\E k \in Key : AskDeleteKey(k)) \/ Dismiss
    BY <2>1 DEF AskDeleteKey, Dismiss, AskedByTheDialog
  <2>2. CASE AskDeleteAll
    <3>1. ask' = [what |-> "all", db |-> here, name |-> dialog.prefix]
      BY <2>2 DEF AskDeleteAll
    <3>2. dialog.open /\ ~dialog.deleting
      BY <2>2 DEF AskDeleteAll, InDialog
    <3>3. dialog'.open /\ ~dialog'.deleting /\ ask'.name = dialog'.prefix
      BY <1>1, <3>1, <3>2
    <3>. QED
      BY <3>3 DEF AskedByTheDialog
  <2>. QED
    BY <2>1, <2>2
<1>. QED
  BY <1>1, <1>2 DEF IInv, TypeInv, ShownIsOfTheFolder, OneDeletion, IsCall, Deleting

\* A key: the dialog and the question of a folder are not touched.
LEMMA KeyStep ==
  ASSUME IInv, \/ \E k \in Key : DeleteRow(k)
               \/ DeleteKey
               \/ \E s \in Call : KeyDeleted(s)
  PROVE  IInv'
<1>1. UNCHANGED <<here, dialog, preview, opened, scans>> /\ (ask' = ask \/ ask' = None)
  BY DEF DeleteRow, DeleteKey, KeyDeleted, sidebar
<1>2. /\ \A s \in DOMAIN calls' : IsCall(calls'[s])
      /\ \A s \in DOMAIN calls' : Deleting(calls'[s]) => s \in DOMAIN calls /\ calls'[s] = calls[s]
  <2>1. ASSUME NEW op \in {"key", "row"}, NEW d, NEW ks, Delete(op, d, None, ks)
        PROVE  <1>2!:
    <3>1. PICK n \in Call \ DOMAIN calls :
            /\ DOMAIN calls' = DOMAIN calls \cup {n}
            /\ \A t \in DOMAIN calls : calls'[t] = calls[t]
            /\ IsCall(calls'[n])
            /\ calls'[n].op = op /\ calls'[n].db = d /\ calls'[n].prefix = None /\ calls'[n].keys = ks
      BY <2>1, NewCall
    <3>2. ~Deleting(calls'[n])
      BY <3>1 DEF Deleting
    <3>. QED
      BY <3>1, <3>2 DEF IInv, TypeInv
  <2>2. CASE \E k \in Key : DeleteRow(k)
    BY <2>1, <2>2 DEF DeleteRow
  <2>3. CASE DeleteKey
    BY <2>1, <2>3 DEF DeleteKey
  <2>4. CASE \E s \in Call : KeyDeleted(s)
    BY <2>4 DEF KeyDeleted, Drop, IInv, TypeInv
  <2>. QED
    BY <2>2, <2>3, <2>4
<1>. QED
  BY <1>1, <1>2 DEF IInv, TypeInv, ShownIsOfTheFolder, AskedByTheDialog, OneDeletion

\* The dialog opens: its folder is a folder, the preview is empty, and unless
\* another scan is on its way there is only the one it starts.
LEMMA OpenFolderStep == ASSUME IInv, NEW f \in Folder, OpenFolder(f) PROVE IInv'
<1>1. UNCHANGED <<here, ask, calls>> /\ ask = None /\ preview' = {}
  BY DEF OpenFolder, ItemMenu, Click, sidebar
<1>2. dialog' \in Dialog /\ dialog'.prefix = f /\ dialog'.deleting = dialog.deleting
  BY Zenon, DialogOpened DEF OpenFolder, IInv, TypeInv
<1>3. /\ opened' \in [db : Db \cup {None}, stale : BOOLEAN]
      /\ opened'.db = here /\ (~opened'.stale => DOMAIN scans = {})
  BY Zenon DEF OpenFolder, IInv, TypeInv
<1>4. DOMAIN scans = {} => \A s \in DOMAIN scans' : scans'[s].db = here /\ scans'[s].prefix = f
  BY DEF OpenFolder, StartScan, Put
<1>5. TypeInv'
  BY <1>1, <1>2, <1>3 DEF IInv, TypeInv, IsCall
<1>6. ShownIsOfTheFolder'
  BY <1>1, <1>2, <1>3, <1>4 DEF ShownIsOfTheFolder
<1>7. AskedByTheDialog'
  BY <1>1 DEF AskedByTheDialog
<1>8. OneDeletion'
  BY <1>1, <1>2 DEF IInv, OneDeletion, Deleting
<1>. QED
  BY <1>5, <1>6, <1>7, <1>8 DEF IInv

\* A page adds keys of the folder and the database of its scan.
LEMMA PageStep == ASSUME IInv, NEW s \in Scan, Page(s) PROVE IInv'
<1>1. UNCHANGED <<here, opened, ask, calls>> /\ s \in DOMAIN scans
  BY DEF Page, sidebar
<1>2. /\ dialog' \in Dialog
      /\ dialog'.open = dialog.open /\ dialog'.prefix = dialog.prefix
      /\ dialog'.deleting = dialog.deleting
  <2>1. dialog \in Dialog
    BY DEF IInv, TypeInv
  <2>2. CASE dialog' = dialog
    BY <2>1, <2>2
  <2>3. CASE dialog' = [dialog EXCEPT !.more = TRUE]
    BY Zenon, <2>1, <2>3, DialogScans
  <2>4. CASE \E more \in BOOLEAN : dialog' = [dialog EXCEPT !.more = more, !.scanning = FALSE]
    BY Zenon, <2>1, <2>4, DialogScans
  <2>5. (scans[s].kind = "batch") \in BOOLEAN
    OBVIOUS
  <2>. QED
    BY Zenon, <2>2, <2>3, <2>4, <2>5 DEF Page
<1>3. /\ DOMAIN scans' \subseteq DOMAIN scans
      /\ \A t \in DOMAIN scans' : scans'[t] = scans[t]
  BY DEF Page, Drop
<1>4. \A x \in preview' : x \in preview \/ (x.db = scans[s].db /\ FolderOf[x.key] = scans[s].prefix)
  <2>1. PICK page \in SUBSET {k \in Key : FolderOf[k] = scans[s].prefix} :
          preview' = preview \cup {[db |-> scans[s].db, key |-> k] : k \in page}
    BY Zenon DEF Page
  <2>. QED
    BY <2>1
<1>5. TypeInv'
  BY <1>1, <1>2 DEF IInv, TypeInv, IsCall
<1>6. ShownIsOfTheFolder'
  BY <1>1, <1>2, <1>3, <1>4 DEF IInv, ShownIsOfTheFolder
<1>7. AskedByTheDialog' /\ OneDeletion'
  BY <1>1, <1>2 DEF IInv, AskedByTheDialog, OneDeletion, Deleting
<1>. QED
  BY <1>5, <1>6, <1>7 DEF IInv

LEMMA LoadMoreStep == ASSUME IInv, NEW kind, LoadMore(kind) PROVE IInv'
<1>1. UNCHANGED <<here, preview, opened, ask, calls>> /\ dialog.open
  BY DEF LoadMore, InDialog, sidebar
<1>2. /\ dialog' \in Dialog
      /\ dialog'.open = dialog.open /\ dialog'.prefix = dialog.prefix
      /\ dialog'.deleting = dialog.deleting
  BY Zenon, DialogScans DEF LoadMore, IInv, TypeInv
<1>3. PICK n \in Scan : scans' = Put(scans, n, [kind |-> kind, prefix |-> dialog.prefix, db |-> here])
  BY DEF LoadMore, StartScan
<1>4. TypeInv'
  BY <1>1, <1>2 DEF IInv, TypeInv, IsCall
<1>5. ShownIsOfTheFolder'
  BY <1>1, <1>2, <1>3 DEF IInv, ShownIsOfTheFolder, Put
<1>6. AskedByTheDialog' /\ OneDeletion'
  BY <1>1, <1>2 DEF IInv, AskedByTheDialog, OneDeletion, Deleting
<1>. QED
  BY <1>4, <1>5, <1>6 DEF IInv

\* Shut, by hand or by the answer of its deletion: nothing is shown.
LEMMA Shutting ==
  ASSUME TypeInv, NEW t \in BOOLEAN, ShutDialog(t)
  PROVE  dialog' \in Dialog /\ ~dialog'.open /\ dialog'.deleting = t
<1>1. dialog \in Dialog /\ dialog.prefix \in Folder \cup {None}
  BY DEF TypeInv, Dialog
<1>2. CASE dialog.open
  BY Zenon, <1>1, <1>2, DialogShut DEF ShutDialog
<1>3. CASE ~dialog.open
  BY Zenon, <1>1, <1>3, DialogDeletes DEF ShutDialog
<1>. QED
  BY <1>2, <1>3

LEMMA CloseDialogStep == ASSUME IInv, CloseDialog PROVE IInv'
<1>1. UNCHANGED <<here, opened, scans, ask, calls>> /\ ask = None
  BY DEF CloseDialog, InDialog, sidebar
<1>2. dialog' \in Dialog /\ ~dialog'.open /\ dialog'.deleting = dialog.deleting
  <2>1. dialog.deleting \in BOOLEAN /\ ShutDialog(dialog.deleting)
    BY Zenon DEF CloseDialog, IInv, TypeInv, Dialog
  <2>. QED
    BY <2>1, Shutting DEF IInv
<1>. QED
  BY <1>1, <1>2
  DEF IInv, TypeInv, ShownIsOfTheFolder, AskedByTheDialog, OneDeletion, IsCall, Deleting

\* A deletion is sent only while none is on its way.
LEMMA SendStep ==
  ASSUME IInv, NEW d, NEW f, NEW ks, dialog.open, ~dialog.deleting,
         dialog' = [dialog EXCEPT !.deleting = TRUE], Delete("folder", d, f, ks),
         ask' = None, UNCHANGED <<here, preview, opened, scans>>
  PROVE  IInv'
<1>1. /\ dialog' \in Dialog
      /\ dialog'.open = dialog.open /\ dialog'.prefix = dialog.prefix /\ dialog'.deleting
  <2>1. dialog \in Dialog /\ TRUE \in BOOLEAN
    BY DEF IInv, TypeInv
  <2>. QED
    BY Zenon, <2>1, DialogDeletes
<1>2. PICK n \in Call \ DOMAIN calls :
        /\ DOMAIN calls' = DOMAIN calls \cup {n}
        /\ \A t \in DOMAIN calls : calls'[t] = calls[t]
        /\ IsCall(calls'[n])
        /\ calls'[n].op = "folder" /\ calls'[n].db = d /\ calls'[n].prefix = f /\ calls'[n].keys = ks
  BY NewCall
<1>3. \A s \in DOMAIN calls : ~Deleting(calls[s])
  BY DEF IInv, OneDeletion
<1>4. TypeInv'
  BY <1>1, <1>2 DEF IInv, TypeInv
<1>5. ShownIsOfTheFolder' /\ AskedByTheDialog'
  BY <1>1 DEF IInv, ShownIsOfTheFolder, AskedByTheDialog
<1>6. OneDeletion'
  BY <1>1, <1>2, <1>3 DEF OneDeletion
<1>. QED
  BY <1>4, <1>5, <1>6 DEF IInv

LEMMA DeleteStep == ASSUME IInv, DeletePreview \/ DeleteAll PROVE IInv'
<1>1. CASE DeletePreview
  <2>1. /\ dialog.open /\ ~dialog.deleting /\ ask' = None
        /\ Delete("folder", here, dialog.prefix, preview)
        /\ UNCHANGED <<here, preview, opened, scans>>
    BY <1>1 DEF DeletePreview, InDialog, sidebar
  <2>2. dialog' = [dialog EXCEPT !.deleting = TRUE]
    BY Zenon, <1>1 DEF DeletePreview
  <2>. QED
    BY Zenon, <2>1, <2>2, SendStep
<1>2. CASE DeleteAll
  <2>1. /\ dialog.open /\ ~dialog.deleting /\ ask' = None
        /\ Delete("folder", here, ask.name, {})
        /\ UNCHANGED <<here, preview, opened, scans>>
    BY <1>2 DEF DeleteAll, sidebar, IInv, AskedByTheDialog
  <2>2. dialog' = [dialog EXCEPT !.deleting = TRUE]
    BY Zenon, <1>2 DEF DeleteAll
  <2>. QED
    BY Zenon, <2>1, <2>2, SendStep
<1>. QED
  BY <1>1, <1>2

\* The answer shuts the dialog it was sent from; one of a panel that is gone
\* shuts nothing.
LEMMA FolderDeletedStep == ASSUME IInv, NEW s \in Call, FolderDeleted(s) PROVE IInv'
<1>1. /\ UNCHANGED <<here, opened, scans, ask>>
      /\ s \in DOMAIN calls /\ calls[s].op = "folder"
      /\ DOMAIN calls' = DOMAIN calls \ {s}
      /\ \A t \in DOMAIN calls' : calls'[t] = calls[t]
  BY DEF FolderDeleted, Drop, sidebar
<1>2. CASE calls[s].live
  <2>1. Deleting(calls[s])
    BY Zenon, <1>1, <1>2 DEF Deleting
  <2>2. dialog.deleting /\ \A t \in DOMAIN calls' : ~Deleting(calls'[t])
    BY <1>1, <2>1 DEF IInv, OneDeletion
  <2>3. dialog' \in Dialog /\ ~dialog'.open
    <3>1. ShutDialog(FALSE)
      BY <1>2 DEF FolderDeleted
    <3>. QED
      BY <3>1, Shutting DEF IInv
  <2>. QED
    BY <1>1, <2>2, <2>3
    DEF IInv, TypeInv, ShownIsOfTheFolder, AskedByTheDialog, OneDeletion
<1>3. CASE ~calls[s].live
  <2>1. UNCHANGED <<dialog, preview>>
    BY <1>3 DEF FolderDeleted
  <2>. QED
    BY <1>1, <2>1 DEF IInv, TypeInv, ShownIsOfTheFolder, AskedByTheDialog, OneDeletion
<1>. QED
  BY <1>2, <1>3

LEMMA NextIInv == IInv /\ [Next]_vars => IInv'
<1>. SUFFICES ASSUME IInv, [Next]_vars PROVE IInv'
  OBVIOUS
<1>1. CASE \/ Search \/ Found \/ BuildTree \/ SetReadOnly \/ ReloadList \/ UNCHANGED vars
           \/ \E visible \in SUBSET Key : RangeChanged(visible)
           \/ \E r \in Request : MetadataCame(r)
  <2>1. UNCHANGED <<here, dialog, preview, opened, scans, ask, calls>>
    BY <1>1 DEF Search, Found, BuildTree, SetReadOnly, ReloadList, RangeChanged, MetadataCame, vars,
       sidebar, deletion
  <2>. QED
    BY <2>1, QuietSteps
<1>2. CASE Remount \/ \E d \in Db : MoveTo(d)
  BY <1>2, RemountStep, MoveToStep
<1>3. CASE (\E k \in Key : AskDeleteKey(k)) \/ AskDeleteAll \/ Dismiss
  BY <1>3, AskStep
<1>4. CASE (\E k \in Key : DeleteRow(k)) \/ DeleteKey \/ \E s \in Call : KeyDeleted(s)
  BY <1>4, KeyStep
<1>5. CASE \/ \E f \in Folder : OpenFolder(f)
           \/ \E s \in Scan : Page(s)
           \/ \E kind \in {"batch", "all"} : LoadMore(kind)
  BY <1>5, OpenFolderStep, PageStep, LoadMoreStep
<1>6. CASE CloseDialog \/ DeletePreview \/ DeleteAll \/ \E s \in Call : FolderDeleted(s)
  BY <1>6, CloseDialogStep, DeleteStep, FolderDeletedStep
<1>. QED
  BY <1>1, <1>2, <1>3, <1>4, <1>5, <1>6 DEF Next

\* The inductive invariant of the deletion dialog: what it shows and scans is of
\* its folder, the second question is its own, one deletion is on its way.
THEOREM Inductive == Spec => []IInv
BY InitIInv, NextIInv, PTL DEF Spec

LEMMA NewCallIs ==
  ASSUME NEW op, NEW d, NEW f, NEW ks, Delete(op, d, f, ks), NEW s \in DOMAIN calls' \ DOMAIN calls
  PROVE  calls'[s].op = op /\ calls'[s].db = d /\ calls'[s].prefix = f /\ calls'[s].keys = ks
<1>1. PICK n \in Call \ DOMAIN calls :
        /\ DOMAIN calls' = DOMAIN calls \cup {n}
        /\ \A t \in DOMAIN calls : calls'[t] = calls[t]
        /\ IsCall(calls'[n])
        /\ calls'[n].op = op /\ calls'[n].db = d /\ calls'[n].prefix = f /\ calls'[n].keys = ks
  BY NewCall
<1>. QED
  BY <1>1

\* Only the two buttons send a deletion of a folder.
LEMMA Senders ==
  ASSUME Next, NEW s \in DOMAIN calls' \ DOMAIN calls, calls'[s].op = "folder"
  PROVE  DeletePreview \/ DeleteAll
<1>1. CASE \/ Search \/ Found \/ BuildTree \/ SetReadOnly \/ ReloadList \/ Remount
           \/ \E visible \in SUBSET Key : RangeChanged(visible)
           \/ \E r \in Request : MetadataCame(r)
           \/ \E d \in Db : MoveTo(d)
  BY <1>1 DEF Search, Found, BuildTree, SetReadOnly, ReloadList, Remount, RangeChanged, MetadataCame,
     MoveTo, deletion
<1>2. CASE \/ \E k \in Key : AskDeleteKey(k)
           \/ AskDeleteAll \/ Dismiss \/ CloseDialog
           \/ \E f \in Folder : OpenFolder(f)
           \/ \E t \in Scan : Page(t)
           \/ \E kind \in {"batch", "all"} : LoadMore(kind)
           \/ \E t \in Call : KeyDeleted(t) \/ FolderDeleted(t)
  BY <1>2 DEF AskDeleteKey, AskDeleteAll, Dismiss, CloseDialog, OpenFolder, Page, LoadMore,
     KeyDeleted, FolderDeleted, Drop
<1>3. CASE (\E k \in Key : DeleteRow(k)) \/ DeleteKey
  <2>1. ASSUME NEW op \in {"key", "row"}, NEW d, NEW ks, Delete(op, d, None, ks)
        PROVE  FALSE
    BY <2>1, NewCallIs
  <2>. QED
    BY <1>3, <2>1 DEF DeleteRow, DeleteKey
<1>. QED
  BY <1>1, <1>2, <1>3 DEF Next

\* A folder deletion sends the names that were shown, of that folder and in
\* that database, or after the second question the whole folder: the requests of
\* browser-bulk-delete-dialog.tsx against pages, answers and a database that
\* change while it is open.
THEOREM SendsWhatWasShown == Spec => DeletesWhatWasShown
<1>. DEFINE A == \A s \in DOMAIN calls' \ DOMAIN calls :
                   LET c == calls'[s]
                   IN  c.op = "folder" =>
                         /\ c.keys = {} => ask # None /\ ask.what = "all" /\ ask.name = c.prefix
                         /\ ~opened.stale =>
                              /\ c.db = opened.db
                              /\ \A x \in c.keys : x.db = opened.db /\ FolderOf[x.key] = c.prefix
<1>1. IInv /\ [Next]_vars => [A]_vars
  <2>. SUFFICES ASSUME IInv, Next, NEW s \in DOMAIN calls' \ DOMAIN calls, calls'[s].op = "folder"
                PROVE  LET c == calls'[s]
                       IN  /\ c.keys = {} => ask # None /\ ask.what = "all" /\ ask.name = c.prefix
                           /\ ~opened.stale =>
                                /\ c.db = opened.db
                                /\ \A x \in c.keys : x.db = opened.db /\ FolderOf[x.key] = c.prefix
    OBVIOUS
  <2>1. CASE DeletePreview
    <3>1. /\ Delete("folder", here, dialog.prefix, preview)
          /\ dialog.open /\ preview # {}
      BY <2>1 DEF DeletePreview, InDialog
    <3>2. calls'[s].db = here /\ calls'[s].prefix = dialog.prefix /\ calls'[s].keys = preview
      BY <3>1, NewCallIs
    <3>. QED
      BY <3>1, <3>2 DEF IInv, ShownIsOfTheFolder
  <2>2. CASE DeleteAll
    <3>1. /\ Delete("folder", here, ask.name, {})
          /\ ask # None /\ ask.what = "all" /\ dialog.open
      BY <2>2 DEF DeleteAll, IInv, AskedByTheDialog
    <3>2. calls'[s].db = here /\ calls'[s].prefix = ask.name /\ calls'[s].keys = {}
      BY <3>1, NewCallIs
    <3>. QED
      BY <3>1, <3>2 DEF IInv, ShownIsOfTheFolder
  <2>. QED
    BY <2>1, <2>2, Senders
<1>. QED
  BY <1>1, Inductive, PTL DEF Spec, DeletesWhatWasShown
=============================================================================
