------------------------------ MODULE Workspace ------------------------------
(***************************************************************************)
(* The shell of the window: the open tabs (tab.store.ts), the database the *)
(* sidebar browses (app.context.tsx) and the calls that change them when   *)
(* they answer: connecting, disconnecting, changing the database index,    *)
(* renaming and deleting a key from its tab, deleting a connection.        *)
(*                                                                         *)
(* A click reads the state it was rendered with, the call it makes answers *)
(* at any later time, and by then other tabs may be open or active.  Every *)
(* tab stays mounted; only the active one is visible and can be clicked.   *)
(***************************************************************************)
EXTENDS Naturals, Sequences, FiniteSets, SequencesExt, Lists

CONSTANTS
  Connection,  \* saved connections
  Db,          \* database indexes of a server
  Key,         \* names of keys
  View,        \* tab types of the Views menu
  TabId,       \* identities of tabs; bounds how many are open at once
  Call,        \* identities of calls in flight; bounds how many there are
  None,        \* undefined
  MaxClicks    \* bound: what the user does

ASSUME WorkspaceAssumption ==
  /\ 0 \in Db /\ "general" \in View /\ "key-detail" \notin View
  /\ None \notin Connection \cup TabId \cup Key /\ MaxClicks \in Nat

VARIABLES
  tabs,        \* the tabs, left to right
  active,      \* activeTabId
  here,        \* selectedDb and selectedDbIdx
  panel,       \* selectedTab of the sidebar
  lastSync,    \* lastSyncTabId
  loading,     \* the overlay that catches every click
  row,         \* the connection list
  calls,       \* calls in flight, with what their callers captured
  ask,         \* the open confirmation, a modal
  clicks       \* how much the user has done, for MaxClicks

shell == <<tabs, active>>
place == <<here, panel, lastSync>>
vars == <<shell, place, loading, row, calls, ask, clicks>>

Target == [conn : Connection \cup {None}, db : Db]
Tab == [id : TabId, type : View \cup {"key-detail"}, conn : Connection, db : Db,
        key : Key \cup {None}, pinned : BOOLEAN]
Op == {"connect", "list", "change", "disconnect", "lock", "unlock", "rename", "deleteKey", "deleteConn"}
Lock == {"lock", "unlock"}
Request == [op : Op, conn : Connection, db : Db, tab : TabId \cup {None},
            key : Key \cup {None}, on : BOOLEAN]

Ids(ts) == {ts[i].id : i \in DOMAIN ts}
TabOf(id) == CHOOSE t \in ToSet(tabs) : t.id = id
Pinned(ts) == {i \in DOMAIN ts : ts[i].pinned}
Without(ts, id) == Keep(ts, {i \in DOMAIN ts : ts[i].id # id})
PinnedFirst(ts) == Keep(ts, Pinned(ts)) \o Keep(ts, DOMAIN ts \ Pinned(ts))

-----------------------------------------------------------------------------
(* The store of the tabs.                                                   *)

\* Two tabs with these fields equal are one view.
SameView(t, v) == t.type = v.type /\ t.conn = v.conn /\ t.db = v.db /\ t.key = v.key

\* Mutant: only the loose tabs are looked at.
AddTabBesidePinned(v) ==
  LET same == {i \in DOMAIN tabs : SameView(tabs[i], v) /\ ~tabs[i].pinned}
      used == Ids(tabs) \cup {calls[s].tab : s \in DOMAIN calls} \cup {lastSync}
  IN  \/ /\ same # {}
         /\ active' = tabs[CHOOSE i \in same : TRUE].id
         /\ UNCHANGED tabs
      \/ /\ same = {}
         /\ \E id \in TabId \ used :
              /\ tabs' = Append(tabs, [id |-> id, type |-> v.type, conn |-> v.conn,
                                       db |-> v.db, key |-> v.key, pinned |-> FALSE])
              /\ active' = id

\* The first tab that shows the view becomes active, or else a new one.  An
\* identity is a UUID: none that anything still refers to is drawn again.
AddTab(v) ==
  LET same == {i \in DOMAIN tabs : SameView(tabs[i], v)}
      used == Ids(tabs) \cup {calls[s].tab : s \in DOMAIN calls} \cup {lastSync}
  IN  \/ /\ same # {}
         /\ active' = tabs[CHOOSE i \in same : \A j \in same : i <= j].id
         /\ UNCHANGED tabs
      \/ /\ same = {}
         /\ \E id \in TabId \ used :
              /\ tabs' = PinnedFirst(Append(tabs,
                   [id |-> id, type |-> v.type, conn |-> v.conn, db |-> v.db,
                    key |-> v.key, pinned |-> FALSE]))
              /\ active' = id

\* The tab of that identity, wherever it is, becomes the one of updated.
UpdateTab(id, updated) ==
  tabs' = PinnedFirst([i \in DOMAIN tabs |->
            IF tabs[i].id = id THEN updated[i] ELSE tabs[i]])

RemoveTab(id) ==
  LET rest == Without(tabs, id)
  IN  /\ tabs' = rest
      /\ active' = IF active # id THEN active ELSE IF rest = << >> THEN None ELSE Last(rest).id

-----------------------------------------------------------------------------
(* Who may click, and the calls in flight.                                  *)

Init ==
  /\ tabs = << >> /\ active = None
  /\ here = [conn |-> None, db |-> 0] /\ panel = "/connections" /\ lastSync = None
  /\ loading = FALSE
  /\ row \in [Connection -> {"writable", "read-only"}]
  /\ calls = << >> /\ ask = None /\ clicks = 0

Click ==
  /\ ~loading /\ ask = None
  /\ clicks < MaxClicks /\ clicks' = clicks + 1

Listed(c) == row[c] # "gone"
ReadOnly(c) == row[c] = "read-only"

Start(r) ==
  \E s \in Call \ DOMAIN calls :
    calls' = [x \in DOMAIN calls \cup {s} |-> IF x = s THEN r ELSE calls[x]]
End(s) == calls' = [x \in DOMAIN calls \ {s} |-> calls[x]]
InFlight(s, op) == s \in DOMAIN calls /\ calls[s].op = op

Ask(op, c, d, id, k) == [op |-> op, conn |-> c, db |-> d, tab |-> id, key |-> k, on |-> TRUE]

-----------------------------------------------------------------------------
(* Tabs by hand, and the effect that follows the active tab.                *)

SetActiveTab(id) ==
  /\ Click /\ id \in Ids(tabs)
  /\ active' = id
  /\ UNCHANGED <<tabs, place, loading, row, calls, ask>>

CloseTab(id) ==
  /\ Click /\ id \in Ids(tabs)
  /\ RemoveTab(id)
  /\ UNCHANGED <<place, loading, row, calls, ask>>

TogglePin(id) ==
  /\ Click /\ id \in Ids(tabs)
  /\ UpdateTab(id, [i \in DOMAIN tabs |-> [tabs[i] EXCEPT !.pinned = ~@]])
  /\ UNCHANGED <<active, place, loading, row, calls, ask>>

CloseOthers(id) ==
  /\ Click /\ id \in Ids(tabs)
  /\ tabs' = Keep(tabs, Pinned(tabs) \cup {i \in DOMAIN tabs : tabs[i].id = id})
  /\ active' = id
  /\ UNCHANGED <<place, loading, row, calls, ask>>

CloseAll ==
  /\ Click /\ tabs # << >>
  /\ LET rest == Keep(tabs, Pinned(tabs))
     IN  /\ tabs' = rest
         /\ active' = IF active = None \/ active \in Ids(rest) THEN active
                      ELSE IF rest = << >> THEN None ELSE Head(rest).id
  /\ UNCHANGED <<place, loading, row, calls, ask>>

\* The sidebar follows the active tab, once per change of it.
Sync ==
  /\ active # None /\ active # lastSync /\ active \in Ids(tabs)
  /\ here' = [conn |-> TabOf(active).conn, db |-> TabOf(active).db]
  /\ panel' = "/browser"
  /\ lastSync' = active
  /\ UNCHANGED <<shell, loading, row, calls, ask, clicks>>

\* The dock; its browser button is there when a database is selected.
ShowPanel(p) ==
  /\ Click /\ panel' = p /\ (p = "/browser" => here.conn # None)
  /\ calls' = [s \in DOMAIN calls |->
       [calls[s] EXCEPT !.on = @ /\ (calls[s].op \in Lock => p = "/browser")]]
  /\ UNCHANGED <<shell, here, lastSync, loading, row, ask>>

-----------------------------------------------------------------------------
(* Connecting and disconnecting.                                            *)

General(c, d) == [type |-> "general", conn |-> c, db |-> d, key |-> None]

\* A double click or the menu of the connections panel; the database is the
\* last one used there.
Connect(c, d) ==
  /\ Click /\ panel = "/connections" /\ Listed(c)
  /\ loading' = TRUE
  /\ Start(Ask("connect", c, d, None, None))
  /\ UNCHANGED <<shell, place, row, ask>>

\* The database list of the browser: the connection list is fetched first,
\* and nothing is shown meanwhile.
ChangeDbIdx(d) ==
  /\ Click /\ panel = "/browser" /\ here.conn # None /\ d # here.db
  /\ Start(Ask("list", here.conn, d, None, None))
  /\ UNCHANGED <<shell, place, loading, row, ask>>

ListAnswered(s) ==
  /\ InFlight(s, "list")
  /\ \/ /\ Listed(calls[s].conn)
        /\ loading' = TRUE
        /\ calls' = [calls EXCEPT ![s].op = "change"]
     \/ End(s) /\ UNCHANGED loading
  /\ UNCHANGED <<shell, place, row, ask, clicks>>

\* connect() after its await.  A failure is shown and forgotten, so that the
\* database list sets the index it was given either way, in whatever
\* connection is selected by now.
ConnectAnswered(s) ==
  /\ InFlight(s, "connect") \/ InFlight(s, "change")
  /\ End(s)
  /\ loading' = FALSE
  /\ \/ /\ here' = [conn |-> calls[s].conn, db |-> calls[s].db]
        /\ panel' = "/browser"
        /\ AddTab(General(calls[s].conn, calls[s].db))
     \/ /\ here' = IF calls[s].op = "change" THEN [here EXCEPT !.db = calls[s].db] ELSE here
        /\ UNCHANGED <<shell, panel>>
  /\ UNCHANGED <<lastSync, row, ask, clicks>>

Disconnect(c) ==
  /\ Click /\ panel = "/connections" /\ Listed(c)
  /\ Start(Ask("disconnect", c, 0, None, None))
  /\ UNCHANGED <<shell, place, loading, row, ask>>

\* Whichever connection was disconnected, nothing is selected afterwards; its
\* tabs stay.
Disconnected(s) ==
  /\ InFlight(s, "disconnect")
  /\ End(s)
  /\ \/ here' = [conn |-> None, db |-> 0]
     \/ UNCHANGED here
  /\ UNCHANGED <<shell, panel, lastSync, loading, row, ask, clicks>>

-----------------------------------------------------------------------------
(* The browser's menus.                                                     *)

Browsing == panel = "/browser" /\ here.conn # None

OpenView(type) ==
  /\ Click /\ Browsing
  /\ AddTab([type |-> type, conn |-> here.conn, db |-> here.db, key |-> None])
  /\ UNCHANGED <<place, loading, row, calls, ask>>

\* A key is chosen in the tree, or in a key-list tab.
SelectKey(k) ==
  /\ Click
  /\ \/ /\ Browsing
        /\ AddTab([type |-> "key-detail", conn |-> here.conn, db |-> here.db, key |-> k])
     \/ /\ active # None /\ TabOf(active).type = "key-list"
        /\ AddTab([type |-> "key-detail", conn |-> TabOf(active).conn, db |-> TabOf(active).db, key |-> k])
  /\ UNCHANGED <<place, loading, row, calls, ask>>

\* One at a time for as long as the panel is mounted.
ToggleReadOnly ==
  /\ Click /\ Browsing
  /\ ~\E s \in DOMAIN calls : calls[s].op \in Lock /\ calls[s].on
  /\ Start(Ask(IF ReadOnly(here.conn) THEN "unlock" ELSE "lock", here.conn, here.db, None, None))
  /\ UNCHANGED <<shell, place, loading, row, ask>>

ReadOnlySet(s) ==
  /\ s \in DOMAIN calls /\ calls[s].op \in Lock
  /\ End(s)
  /\ \/ /\ Listed(calls[s].conn)
        /\ row' = [row EXCEPT ![calls[s].conn] =
                     IF calls[s].op = "lock" THEN "read-only" ELSE "writable"]
     \/ UNCHANGED row
  /\ UNCHANGED <<shell, place, loading, ask, clicks>>

-----------------------------------------------------------------------------
(* The buttons of a key tab, and deletions that ask first.                  *)

KeyTab == active # None /\ TabOf(active).type = "key-detail" /\ ~ReadOnly(TabOf(active).conn)

Rename(k) ==
  /\ Click /\ KeyTab
  /\ Start(Ask("rename", TabOf(active).conn, TabOf(active).db, active, k))
  /\ UNCHANGED <<shell, place, loading, row, ask>>

AskDeleteKey ==
  /\ Click /\ KeyTab
  /\ ~\E s \in DOMAIN calls : calls[s].op = "deleteKey" /\ calls[s].tab = active
  /\ ask' = Ask("deleteKey", TabOf(active).conn, TabOf(active).db, active, TabOf(active).key)
  /\ UNCHANGED <<shell, place, loading, row, calls>>

AskDeleteConnection(c) ==
  /\ Click /\ panel = "/connections" /\ Listed(c)
  /\ ask' = Ask("deleteConn", c, 0, None, None)
  /\ UNCHANGED <<shell, place, loading, row, calls>>

\* The overlay of a connect that began meanwhile covers the question too.
Confirm ==
  /\ ask # None /\ ~loading
  /\ ask' = None
  /\ Start(ask) \/ UNCHANGED calls
  /\ UNCHANGED <<shell, place, loading, row, clicks>>

\* The tab is the one that was active when its button was rendered.
Renamed(s) ==
  /\ InFlight(s, "rename")
  /\ End(s)
  /\ \/ UpdateTab(calls[s].tab, [i \in DOMAIN tabs |-> [tabs[i] EXCEPT !.key = calls[s].key]])
     \/ UNCHANGED tabs
  /\ UNCHANGED <<active, place, loading, row, ask, clicks>>

\* Mutant: the tab that is active by now is closed.
KeyDeletedClosesActive(s) ==
  /\ InFlight(s, "deleteKey")
  /\ End(s)
  /\ RemoveTab(active) \/ UNCHANGED shell
  /\ UNCHANGED <<place, loading, row, ask, clicks>>

KeyDeleted(s) ==
  /\ InFlight(s, "deleteKey")
  /\ End(s)
  /\ RemoveTab(calls[s].tab) \/ UNCHANGED shell
  /\ UNCHANGED <<place, loading, row, ask, clicks>>

\* Nothing but the list changes: its tabs stay open.
ConnectionDeleted(s) ==
  /\ InFlight(s, "deleteConn")
  /\ End(s)
  /\ row' = [row EXCEPT ![calls[s].conn] = "gone"] \/ UNCHANGED row
  /\ UNCHANGED <<shell, place, loading, ask, clicks>>

-----------------------------------------------------------------------------
\* SidebarBrowser sets state while it renders without a database, for ever:
\* React gives up and takes the window down.
Crashed == panel = "/browser" /\ here.conn = None

Next ==
  /\ ~Crashed
  /\ \/ \E id \in TabId : SetActiveTab(id) \/ CloseTab(id) \/ TogglePin(id) \/ CloseOthers(id)
     \/ CloseAll \/ Sync \/ ToggleReadOnly \/ AskDeleteKey \/ Confirm
     \/ \E p \in {"/connections", "/browser"} : ShowPanel(p)
     \/ \E c \in Connection, d \in Db : Connect(c, d)
     \/ \E c \in Connection : Disconnect(c) \/ AskDeleteConnection(c)
     \/ \E d \in Db : ChangeDbIdx(d)
     \/ \E type \in View : OpenView(type)
     \/ \E k \in Key : SelectKey(k) \/ Rename(k)
     \/ \E s \in Call :
          \/ ListAnswered(s) \/ ConnectAnswered(s) \/ Disconnected(s) \/ ReadOnlySet(s)
          \/ Renamed(s) \/ KeyDeleted(s) \/ ConnectionDeleted(s)

Spec == Init /\ [][Next]_vars

-----------------------------------------------------------------------------
(* Properties.                                                              *)

\* A view of a database is open once, however many connects answer and
\* wherever it was opened from.  Key tabs are left out: renaming a key to one
\* that is shown elsewhere makes two tabs of it.
OneTabPerView ==
  \A i, j \in DOMAIN tabs :
    i # j /\ tabs[i].type # "key-detail" => ~SameView(tabs[i], tabs[j])

\* The tabs are in order after every handler and every answer: each has its
\* own identity, no view is open twice, the pinned ones come first, and the
\* active one is open, or there is none.  What is shown is the tab of
\* activeTabId: an identity that names no tab leaves a blank window.
TabsInOrder ==
  /\ tabs \in Seq(Tab)
  /\ \A i, j \in DOMAIN tabs : i # j => tabs[i].id # tabs[j].id
  /\ OneTabPerView
  /\ \A i, j \in DOMAIN tabs : i < j /\ tabs[j].pinned => tabs[i].pinned
  /\ IF tabs = << >> THEN active = None ELSE active \in Ids(tabs)

\* An answer to a rename or a deletion changes at most the tab that asked for
\* it; the user stays on the tab he has gone to since.
AnswerTouchesItsTab ==
  [][\A s \in DOMAIN calls \ DOMAIN calls' :
       calls[s].op \in {"rename", "deleteKey"} =>
         /\ Without(tabs', calls[s].tab) = Without(tabs, calls[s].tab)
         /\ active # calls[s].tab => active' = active]_vars
=============================================================================
