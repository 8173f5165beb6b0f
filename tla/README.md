# RDMS: a verification development

RDMS is a desktop Redis client: a Go backend (`internal/`, `pkg/`) that keeps
connection profiles in SQLite and live Redis clients in memory, and a React
front end (`shell/`) that talks to it over a generated RPC bridge with unary
calls and server streams. This directory holds TLA+ models of the parts of both
that run concurrently and keep state, the TLC configurations that check them on
small instances, and theorems about them that the TLA+ proof system checks for
instances of every size. Every safety property of the runs is proved; liveness
is model-checked.

Model-check with `tlc -workers 2 -config <cfg> <module>`, prove with
`tlapm <name>Proofs.tla`. `PROJECT.json` says which lines of the source each
definition stands for, and at which lines the hazards of section 1 bite.

## 1. The system

| component | state | operations | what is hard | what makes it correct |
|---|---|---|---|---|
| **Client manager** `internal/svc/client-manager.go`, connection handlers `internal/logic/{client,connection}` | the `connection` rows; the map `"<id>:<db>"` -> `*Client`; sockets; each `*Client`'s `Version`, `ProfileVersion`, `ReadOnly` | Connect, Disconnect, SetReadOnly, Upsert, Delete, profile edits, CloseAll | every RPC is a goroutine; `Add` looks up under a read lock, dials under none and publishes under the write lock; rows are read and written whole | no client leaked, shared or handed out closed; live clients enforce the row's read-only flag; a stale client is rebuilt |
| **MONITOR sessions** `internal/logic/monitor`, `svc/client.go`; the tab and its hook | `MonitorActive`, `MonitorCancel`, `MonitorConn` on the `*Client`; a socket per session; in the hook a stream reference and a flag | Start, Stop, Status, `closeStreams`; the button, unmounting | a new session displaces the old one, whose cleanup runs late; the client may be removed meanwhile; a blocked read ends only with its socket; an old stream's `finally` runs beside the new stream | no stream outlives every handle to it; a cancelled one ends; fields never name a finished session |
| **Key search** `shell/hooks/api/keys-search.ts`, `client/keys_search_logic.go`, `pkg/redisscan` | the list, cursor, `hasMore`, `isLoading`, `runIdRef`, `streamRef`; the server loop's cursor, batch and counters | first render, new filters, reload, load more, load all, cancel; SCAN rounds; frames | two streams alive at once, late frames, a run cut inside a page, a cursor over several cluster masters | nothing skipped when the search says it is complete; nothing of other filters shown; every run gets somewhere; load all ends |
| **Key browser, key list** `sidebar-browser.tsx`, `browser-bulk-delete-dialog.tsx`, `connection-detail-tab-key-list.tsx` | the tree and its timer; the folder dialog with its preview; confirmations; metadata known and asked for | build, delete a key, a row, a folder; preview scans; scrolling | the tree is built late; scans are not cancelled; the database may change under an open dialog | what is deleted is what was shown; the tree is that of the keys |
| **Key filter** `pkg/keyfilter`, `key-filter-bar.tsx` | the clauses of the bar | parse, match, `Pushdown` | a SCAN pattern narrower than the filter hides keys | the pattern withholds nothing |
| **Pub/Sub** `internal/logic/pubsub`; the tab | the client's `PubSub`, its subscriptions, the open stream; the tab's list | Stream, Subscribe, Unsubscribe, Subscribe all | Subscribe without a stream; the cleanup of an old stream; partial failure; answers out of order | messages of what is subscribed reach the open stream; the list tells what is subscribed |
| **Key editing, value pages** `internal/logic/key`, `key-add/*`, `connection-detail-tab-key-detail.tsx` | Redis keys; what the tab shows; drawers, dialogs, editors | rename, delete, insert, update, create, for seven kinds of keys | check-then-act against other writers; two or three commands that should be one; inputs with a text of their own | an edit changes what the user saw or fails; what is sent is what is shown |
| **Console** `shell/lib/command`, `connection-detail-tab-console.tsx` | pending confirmations, history, the terminal, its popup | middleware chain, confirm, complete, recall | a clock against a late answer; consoles sharing one confirmation; a terminal rebuilt under a running command | a dangerous command runs only after its own confirmation |
| **Tabs and shell** `tab.store.ts`, `app.context.tsx`, `layout/*` | tabs, active tab, selected database, sidebar panel | open, pin, close, connect, disconnect, rename | an answer comes when another tab is active or its own is closed | one tab per view; an answer touches its own tab |
| **Connections, groups, SSH, TLS, proxy profiles** `internal/logic/{connection,group,ssh,tls,proxy}`, their dialogs | rows, soft-deleted; lists; forms | save, delete, select | find-then-write; secrets that are not sent back; late lists and answers | a blank secret keeps the stored one; deleted stays deleted |
| **Secrets and migrations** `internal/model/secrets.go`, `svc/{secrets,migrate}.go` | what the rows hold of a secret; a column; the flag `secrets_migrated_v1` | seal, open; at each start the schema, then every row until the flag says done | a crash or a failure anywhere, another master key, handlers at work beside it | nothing in clear once it is done; nothing sealed twice; rows unchanged |
| **Analysis** | a stream | profile | as MONITOR | as MONITOR |
| **Read-only hook** `svc/readonly.go` | the flag on the client | before every command | pipelines, scripts, subcommands | no write reaches a read-only connection |
| **Other keyspace walks**, **graph console**, **presets, settings, updater**, **dialers**, **application shell and RPC bridge**, **user interface** | see section 7 | | | |

How they meet: the front end calls the RPC handlers; handlers take clients from
the client manager with `Get` and keep them beyond the lock; Disconnect, a
stale Connect and the shutdown close a client and, through `closeStreams`, the
MONITOR and Pub/Sub streams registered on it; the read-only hook reads a flag
that SetReadOnly and Upsert store into the cached clients; the search hook
opens and cancels server streams whose goroutines walk the cluster through
`redisscan`; what the search finds feeds the tree of the sidebar; which
database that is follows the workspace's tabs and the connects that answer.

## 2. The plan

1. `ClientManager` with the abstract `ClientRegistry` it implements, and its
   proofs: everything else runs on the clients it hands out. **Done.**
2. `MonitorSession`, `PubSubStream` and their proofs: what happens to a stream
   whose client is removed. **Done.**
3. `KeysSearch` and its proofs: the one protocol that spans view, wire and
   server. **Done.**
4. `KeyFilter`: matching and `Pushdown` compared with what the clauses say. Its
   abstract specification is the set of keys a filter matches, which is how
   `KeysSearch` takes it. Proof of `Pushdown`. **Done.**
5. `StreamViews`, the front end of the streams of step 2, and its proofs. **Done.**
6. The views that change data while calls are in flight: `Console`, `Workspace`,
   `Browser`, `KeyEditing` over `GridEditor`, `Profiles`, with proofs of all
   their properties. **Done.**
7. `Secrets`: the migration at start, with its crashes, and its proofs. **Done.**
8. Left: cursors of value pages with their 64-bit stream ids; the time to live
   of a key.

Modules meet by interfaces rather than by INSTANCE. The only thing the manager
does to a stream is `Remove`, which the stream modules have as actions of their
own with the very effect of `CloseKeys` on one key (`closeStreams`, then
`Rdb.Close` and the map entry is gone). `StreamViews` takes the handlers of
`MonitorSession` and `PubSubStream` as what they promise: a cancelled stream
ends (`DoomedEnds`, `StreamsEnd`), one Pub/Sub stream at a time (`OneStream`),
the PubSub is closed with it (`NoLeak`). `Browser` takes a search as what
`KeysSearch` may deliver, and the workspace as a database that may change at
any moment. `KeyEditing` EXTENDS `GridEditor`, and modules that filter an array
use `Lists`. `MonitorSession`, `Console` and `Secrets` give the parts of
their specifications names of their own (`MonitorSpec`, `ConsoleSpec`, ...), so
that the two halves of the streams, the two of the shell, and the rows with
their secrets share a proof module (`StreamsProofs`, `ShellProofs`,
`ProfilesProofs`).

## 3. The modules

### ClientRegistry, ClientManager

`row` is the connection table, `profile` the `updated_at` of the SSH, proxy or
TLS row a connection goes through, `cache` the manager's map, `open` the set of
clients whose `Rdb` is not closed, `client` the fields of a `*Client` the
manager compares or the hook reads, `frame` the locals of each handler. A
handler is a process in `Proc`, `frame[p].at` names the statement or section it
executes next:

    Connect:      idle -> profile -> [persist] -> lookup -> [[remove] -> dial -> install] -> idle
    SetReadOnly:  idle -> [write] -> rlock -> sweep -> idle
    Upsert:       idle -> write -> rlock -> sweep -> idle,  idle -> insert -> idle
    Disconnect, Delete, a profile edit: one step

The grain follows the code's own atomicity: one step per SQLite statement and
per critical section of `m.mu`. The sweep of `SetReadOnly` is split further,
one step per atomic store, because it holds the read lock and two sweeps may
overlap; sections that take the write lock have the guard `Exclusive`. A write
of the row is the generated `Update`, which writes *every* column as it was
read, so `WriteRow` may undo what happened in between.

Timestamps are tokens: the code compares them with `time.Equal` only, so a
token that nothing alive carries is a fresh `time.Now()`. Closed clients may be
allocated again for the same reason. Both keep the state space finite without a
bound on the length of a behaviour.

`ClientRegistry` is what the manager promises, without rows, locks or handlers:
clients are opened as spares, published on a free key only, and leave the table
only by being closed. The refinement mapping sends the `own` locals of the
handlers to `spare`.

`OnePerConnection` says that no two handlers work on one connection; `SerialSpec`
of `MCClientManager` are the behaviours in which that is so. Steps of another
goroutine that take no handler (Disconnect, a profile edit) still come in
between.

### MonitorSession

A session is one call of `Start`; `run[s].at` is the statement it is at, from
`StartGet` to `Close`. `dialMonitor` is two: `StartDial` has a connection or not,
`StartHandshake` has the replies to AUTH and MONITOR, which `ServerAnswers` sends
when the server will. `mon[c]` are the three fields under `MonitorMu`, with a
CancelFunc and a connection both named by their session. `cancelled` and
`sockets` are contexts and sockets; `Watch` is the goroutine that closes the
socket of a cancelled context, and starts after the handshake. The cleanup compares `MonitorConn`, as the code
does, while `Remove` clears `MonitorActive` and `MonitorCancel` only. `Stop` is
two steps, since it calls the function after the unlock.

### PubSubStream

A stream is one call of `Stream`, a request one goroutine that serves Subscribe
or Unsubscribe; both keep the `*Client` they were given (`on`) after the
manager has dropped it. `pubsub[c]` and `active[c]` are the fields under
`PubSubMu`; a `*redis.PubSub` is a value that is allocated when a handler finds
none (`Opens`), delivers while it is in `live`, and carries the names in
`subs`. The open section and the deferred cleanup are one step each, because
they hold the mutex; Remove is two, `RemoveStreams` and `RemoveRdb`, because
`closeStreams` gives the mutex back before `Rdb.Close`, and a handler that holds
the client already may get in between and make another PubSub. Which PubSub is
allocated does not matter, so `Fresh` takes one that nothing refers to.

### StreamViews

The MONITOR, Analysis or Pub/Sub tab (`kind`) with the hook behind it. `ref` is
`streamRef.current`, `on` the flag the button shows, `streams[s]` one stream:
whether its `for await` is running, what its handler is doing, whether it was
cancelled, whether it belongs to the tab that is open now, and the status
frames under way. `Start`, `Stop`, `Receive` and `Ends` are the callbacks and
the `finally` block of the hooks; `Serve` and `Close` the handlers. The Pub/Sub
tab adds its list (`channels`), the switch (`all`) and requests that run
(`Execute`) and answer (`Answer`) in any order. The list is how often
it holds each name, since it may hold one twice. `overtaken` and `doubt` are
history variables: the named windows in which flag or list are known to be
wrong.

### KeysSearch

A run is one server stream: `call[r]` is the suspended `run()` in the view,
`server[r]` the goroutine in `scanFiltered`, `wire[r]` the frames between them.
`current` is the run that `runIdRef` names; a run that was replaced keeps
winding down and its loop keeps the filters it was rendered with
(`call[r].flt`), exactly as the closure does. A round is one turn of the server
loop; which of its ends happens is decided by the limit, the end of the walk,
the time budget (any time) and the timer of progress events (any time).
`Page` and `Masters` are `pkg/redisscan`: a cursor is a pair of node index and
node cursor, and `Masters` is evaluated again at every round. The keyspace is a
constant layout of pages, one SCAN reply each.

The module keeps the goroutine of a cancelled run only until the cancellation
(`HungUp`): it has no effect anybody can see afterwards. `revived` remembers
that a displaced load-all has added to the list; it is a history variable used
by properties only.

### KeyFilter

The filter bar's clauses and its all/any switch are the state; editing is the
action. `globMatch`, `Class`, `match`, `Match`, `literalRun`, `literalPrefix`
and `Pushdown` are the functions of those names in `pkg/keyfilter`, on byte
sequences; the two loops of `globMatch` are recursive functions of their
indices. Every clause carries, beside its text, what the text says: alternatives
of items (`Item`), each a set of bytes or its complement, optional or repeated.
`Finds` gives that a meaning by cutting the key into runs, without scanning.
It stands for the external regexp package and is the reference for the rest.
Which items a glob says is given by a grammar (`GlobReads`): the pattern is cut
into pieces, and a class into elements. It is the syntax of Redis, stated
without a loop, and an assumption holds the clauses of an instance to it.
`MatchFrom` and `ClassFrom` are one turn of the two loops, given what the rest of
the pattern yields.

### Browser

`keys` is what the search has found, `tree` the keys the tree was built from,
`timer` and `building` the 250 ms between them. `dialog`, `preview` and `scans`
are the folder dialog with the loops of `loadNextBatch` and `handleLoadAll`,
which nothing cancels; `ask` the confirmation on top of everything; `calls` the
deletions on their way. A preview entry and a confirmation carry the database
they were made in, a deletion the one it is sent to. The menu of a tree item may
have been open when the tree was covered, and lies above the cover. `opened.stale` is a history
bit that names the two windows in which the dialog may show another folder's or
another database's keys. `meta`, `fetching` and `requests` are the list tab.

### Workspace

`tabs` and `active` are the store of the tabs with its operations (`AddTab`,
`UpdateTab`, `RemoveTab`, pinning, closing others); `here`, `panel` and
`lastSync` the selected database and the sidebar, which follow the active tab;
`calls` the requests in flight with what their callers captured. A click reads
the state it was rendered with; an answer changes the state it finds. `loading`
is the overlay that catches clicks while a connect is under way, `ask` the
modal confirmation.

### Lists

`Keep(s, I)` are the elements of `s` at the positions `I`, in their order: what
`filter` of an array returns, by the position of its k-th element (`Nth`) rather
than by a recursion, so that proofs can be about it.

### GridEditor, KeyEditing

`KeyEditing` is one key of one of seven kinds: what is stored (`stored`, with
`last` for stream ids), what the tab's query has (`shown`, `fetch`, `got`), the
row being deleted, the two drawers, the dialog, the text editor, and `calls`.
A call goes through the Redis commands of its handler one at a time
(`ListItemDel`: check, mark, remove; `RowUpdate`: check, add, remove); `Another`
is any other client in between, `CallFails` a connection lost before the next
command or before the answer. The add key dialog writes a key of any kind under
the name of this one: `KeyCreate` one of the kind of the tab, `KeyCreateOther`
another, after which the key is of another kind (`other`), the commands of the
tab are refused (`WrongType`) and its view changes at the next read (`Retyped`).
`raced`, `unseen` and `behind` are history bits.
`GridEditor` has the row editors of the drawers and the dialog as what they are
in the DOM: rows of a form, and inputs which follow the form only where they are
controlled and are told apart by their index. `Sent` is what their submit makes
of them: of a stream an object (`Entry`), which has one value of a field.

### Console

`term[c]` is the terminal of a console tab (it is rebuilt by a change of theme,
language or database), `line` its prompt, `popup` the suggestions, `timer` and
`asking` the debounced lookups, `recall` and `at` the recalled history; `stream`
the commands in flight, `pending` the map `pendingConfirmations` of
`dangerous-command.ts`, aged by `Tick`. Execute is the middleware chain:
read-only, confirmation, dispatch. `checked` is a history variable: the line the
check saw last on a connection, whether it was answered with the warning, and
how long ago.

### Profiles

A row has a content and a secret; `rows` is the table with its deletion marks,
`listed`, `fetch` and `got` the list query, which may fail for good
(`FetchFailed`) and leaves the old list, `item` and `form` the dialog, `calls`
the requests, each found and written in two statements (`Find`, `Write`) or
marked in one (`Mark`). Connections and groups have a dialog for one item,
profiles a list beside the form. `given` and `crossed` are history variables.

### Secrets

`stored` is a row's deletion mark and its secret: a plaintext under layers, each
the seal of a master key. `sealSecret` leaves a sealed value alone and
`openSecret` takes layers off up to the first that the key of this start
(`codec`) does not open. `FindRow`, `SaveRow`, `InsertRow` and `DeleteRow` are
the statements of the handlers; `stage`, `tableNo` and `todo` say where
`MigrateSecrets` is, one action per statement. `MigrationFails` is an error that
`main.go` logs, `Restart` a crash or an exit anywhere. The column `read_only` is
in every statement on connections but the deletion, so without it the first
table can be neither read nor written (`Usable`). `raced` is a history variable:
rows a handler has written between the migration's read and its write.

## 4. The runs

| run | instance | what it checks |
|---|---|---|
| `pool` | 1 connection, 2 databases, 2 handlers, 3 clients, 3 timestamps | `Ownership`, `SweepUnderLock`, `RegistrySpec`: under every interleaving no client is leaked, shared, handed out closed; nobody writes the map under a sweep; the manager implements the registry |
| `sequential` | 1 connection behind a profile, 2 databases, 2 handlers whose requests on a connection do not overlap, 2 clients, 3 timestamps | `ReadOnlyEnforced`, `ConnectIsFresh`, `RequestsReturn`: any sequence of requests, profile edits, failures and shutdowns |
| `monitor` | 2 sessions, 2 clients | `FieldsNameALiveSession`, `NoSessionOrphaned`, `DoomedEnds`, `RemoveEnds`: every streaming session can be reached, every cancelled or displaced one ends, but for a server that never answers its handshake |
| `keys_search` | 2 masters, 3 pages, 4 keys, one returned twice, 2 filters, limit 3, 2 runs | `CompleteWhenDone`, `ShowsOnlyMatches`, `Progress`, `LoadAllFinishes` |
| `pubsub` | 2 streams, 1 request at a time, 2 clients, 1 exact name and 1 pattern | `HearsItsClient`, `OneStream`, `NoLeak`, `KeepsSubscriptions`, `StreamsEnd`: whatever is cancelled, removed or fails |
| `key_filter` | clauses of up to 2 pieces (some 3) of 7 kinds, 3 modes, pairs of 20 clauses; keys of up to 3 of 4 bytes | `MatchesAsMeant`, `PushdownIsASuperset` |
| `console` | 2 consoles of 1 connection, 4 lines (two dangerous, one of them a write, one local), 2 commands in flight | `SelectionInRange`: Tab, Enter and the arrows never index outside their list; `DangerousIsConfirmed`: one warning, one execution, in time, whichever console it came from |
| `workspace` | 2 connections, 2 indexes, 2 keys, 2 views, 3 tabs, 2 calls, 6 clicks | `TabsInOrder`, `AnswerTouchesItsTab` |
| `browser` | 2 databases, 2 folders of one key each, 2 scans, 2 deletions, 2 metadata requests, 6 clicks | `TreeFollowsKeys`, `DeletesWhatWasShown` |
| `key_editing` | each of seven kinds, 2 words, 2 calls, 2 rows in an editor, 4 actions of the user, other clients or failures | `ShownIsStored`, `OnlyTheSeenIsLost`, `SendsWhatIsShown` |
| `stream_views` | each of three tabs, 2 streams, 2 requests, a channel and `*` | `NoOrphan`, `ButtonTellsTheTruth`, `ShownIsSubscribed`, `ClosedTabLeavesNothing` |
| `profiles` | connection, group, SSH profile; 2 rows, 2 requests, a connection of a group and one of none, 7 clicks | `SecretKept`, `SidebarShowsWhatIsStored`, `EditsSurvive`, `DeletedStays` |
| `profiles`, other half | 2 connections, 1 SSH profile, 2 plaintexts, 2 master keys, 1 request at a time | `SealedWhenDone`, `MigrationKeepsRows`: wherever the migration is stopped or fails, however often it is repeated, whichever key it has |

**Bounds.** Two handlers are enough for every race of the manager, because each
needs one request to overtake another; three clients let both handlers hold one
while a third is cached, with one to spare for reuse. One connection suffices:
the map's keys of other connections are touched by CloseAll only, which is in
the run with two databases. Three timestamps cover a row, a cached client and
a value read; a handler that finds no fresh token waits for one to be dropped,
so fewer tokens remove behaviours but add none. In `sequential` they are a
version of the row, one of the profile, and a new one for either. Two sessions displace each
other; two clients let a session keep the old one while the other registers on
the new one. Two runs are a current and a winding-down one; with two runs and
reuse every sequence of restarts is covered. A limit of 3 with four matches
(one of them returned twice) lets a run be cut inside the second page with a
page of the other master to come. `Start`, `Cursor` and `wire` need no bound:
the layout bounds them. Two streams are one that holds the client and one that
comes beside or after it; two clients are one removed and its successor; four
PubSubs let every stream and client refer to one of its own. In `key_filter`
a pattern of two pieces has every piece first and last, before and after every
other; three bytes let an asterisk take nothing, one byte or a slash and more.

In `console` two consoles of one connection share its confirmation, which is
where they interact; a timeout of one tick separates in time from too late, and
ages stop one tick beyond it. A history of one is full after one command; a
list of two has a selection that a shorter answer leaves outside; `MaxKeys` = 3
is a dangerous line, another, and the first again. In `workspace` six clicks
open two tabs, pin one, and leave two calls to answer after their tabs were
closed; tab identities are reused when nothing refers to them. In `browser` six
are enough to open the dialog, close it, open it for the other folder, change
the database and delete. In `key_editing` `Step` counts what the user, other
clients and failures do, while servers and answers run freely: four are a
drawer opened, sent, and interfered with twice, or two keys added and interfered
with twice. In `profiles` seven are a save,
a deletion and a further edit through the dialog. With 2 streams in
`stream_views` an old one overlaps a new one, and identities are reused. The
TLS and proxy dialogs are the SSH one with other fields, so the run takes one
of the three.

The other half of `profiles` is `Secrets`, which shares no variable with
`Profiles`: `MCSpec` takes the behaviours of each with the other at rest. The
first table has two rows, one that is written back and one that is not yet, and
the second table the end of the sequence; the four tables differ in nothing
else. One request holds a row while the migration passes. Rows start deleted or
not, in clear, sealed, or sealed twice under one key, which `secrets_test.go`
expects to be healed.

The theorems need no bounds.

**Deadlock** is checked where something can always happen: `pool`,
`sequential`, `key_filter`, `console`, `stream_views`. It is not where calls
are used once and may all be over (`monitor`, `pubsub`, `keys_search`) or
where the user may have used up the clicks of the bound (`workspace`,
`browser`, `key_editing`, `profiles`).

**Fairness.** `ClientManager`: weak fairness of a handler that has begun, since
Go keeps running a goroutine that can run; strong fairness for the sections
that take the write lock, because a waiting `RWMutex.Lock` keeps new readers
out. No fairness for requests; `SerialSpec` holds back the arrival of a request
only, never a step that fairness is about. `MonitorSession`: weak fairness for the session's
goroutine, its watcher and a Stop that has begun; none for the network breaking
or a user stopping, and none for the replies of a handshake, which has no
deadline. The connection itself is dialled under the context, so that it is
there or refused once the session is cancelled. `KeysSearch`: weak fairness for the event loop and the
server goroutine; none for the user, nor for failures. `PubSubStream`: weak
fairness for the stream's goroutine and for a Remove that has begun; none for
cancelling, disconnecting or a send that fails. `StreamViews`: weak fairness
for a request of the bridge to be served, for the event loop, which reads a
frame that has arrived and runs the `finally` of a loop that is over, and for
the handler of a *cancelled* stream to return, which is what `DoomedEnds` and
`StreamsEnd` show of the handlers; none for a handler nobody cancelled, nor for a
MONITOR that waits for its handshake, cancelled or not. The
other modules have no liveness property and no fairness.

## 5. What is proved

Assumptions are those the modules name (`...Assumption`): `None` is not a
member of the sets it stands beside, commands that the terminal answers itself
are not dangerous, every key has a folder, the texts of clauses and keys are
bytes. `HeadAssumption` is the one about an external package: what a regular
expression with a caret and a literal head matches begins with the head, unless
the head is optional or one of several alternatives. `GlobAssumption` and
`SubstringAssumption` tie what a clause says to its text, by the grammar of
globs and letter by letter. The sets are arbitrary, infinite ones included.

`ClientManagerProofs`:

* `TypeCorrect`: `Spec => []TypeOK`, one step per action.
* `Inductive`: `Spec => []IInv`. `Ownership` alone is not inductive: that
  `AddInstall` leaves no client under two keys needs the client a handler holds
  to be outside the table (`OwnedOpen`) and held by that handler alone
  (`OneOwner`); that other steps leave nobody's client behind needs
  `OwnAtInstall`, that a handler holds a client exactly at the install section.
  `SweepUnderLock` is preserved because every writer of the map has `Exclusive`
  as its guard. `TypeOK` supplies the domains of the functions.
* `OwnershipHolds`, `SweepHolds`: the two invariants, from `Inductive`.
* `ImplementsRegistry`: `Spec => RegistrySpec`. Initial states map to initial
  states, and each action is shown to be `Open`, `Discard`, `Publish`, `Retire`
  or a stutter under the mapping; `OneOwner` is what makes the `spare` set
  change by exactly one element.

* `ReadOnlyHolds`: `Spec /\ []OnePerConnection => []ReadOnlyEnforced`, and
  `ConnectHolds`, the same for `ConnectIsFresh`. `SerialInv` is what a request
  has to itself while no other works on its connection: the cached clients
  agree with the row unless a handler is about to switch them (`Agree`), and a
  handler's copy of the row, the key it found vacant and the clients it has
  swept are still so (`InStep`). Other connections' handlers touch none of it.

`PubSubStreamProofs`:

* `Inductive`: `Spec => []IInv`. `OneStream` supports `HearsItsClient`: a second
  stream would close the first one's PubSub in its cleanup. `Unshared` says that
  closing one client's PubSub leaves the others alone, `ServedLive` that the
  PubSub an opening stream finds is live, and `OnlyUsed` that a client is
  installed with none of the fields set. `Shut` comes before the client leaves
  the table, and a PubSub made in between dies with `Rdb`, which is `NoLeak`.
* `StreamsServed`, `StreamIsAlone`, `NothingIsLeftOpen`: the three invariants.
* `SubscriptionsAreKept`: `Spec => KeepsSubscriptions`. By `Unshared`, whoever
  opens or closes the PubSub of one client leaves the others' alone (`OpenKeeps`,
  `ShutKeeps`), and a stream that takes over a PubSub keeps what is on it.

`StreamsProofs`, of `MonitorSession` and `StreamViews`:

* `SessionsInductive`: `MonitorSpec => []MonitorInv`. The conjuncts lean on each
  other: a step of one session can take the fields away from another only by
  `StartRegister` or `Cleanup`, `FieldsNameALiveSession` says whose they are, and
  the "about to be cancelled" disjunct of `NoSessionOrphaned` bridges the gap
  between the unlock and the call of the displaced CancelFunc.
* `SessionsAccountedFor`: `MonitorSpec => []NoSessionOrphaned`;
  `FieldsAreOfALiveSession`: the fields name a session that has not left, and
  what is reported as monitored can be stopped.
* `NoneIsOrphaned`: `Spec => []NoOrphan`. `NoOrphan` with the shape of the
  records and "a reference only in an open tab" is inductive: only `Start`
  makes a stream run, and only without a reference; `Stop` and `Unmount` take
  the reference away after cancelling its stream, `Ends` after its loop.
* `ButtonIsTrue`: `Spec => []ButtonTellsTheTruth`. The invariant adds to this
  that only a MONITOR handler sends status frames, and that beside a flag that
  is on there is a loop of the open tab (`Flag`): a `finally` turns the flag off
  when it is the last loop's, and when it is not the tab is `overtaken`.
* `ListedIsSubscribed`: `Spec => []ShownIsSubscribed`. Between a request and its
  answer list and server may differ, so the invariant (`Sure`) says of every
  name that is not in doubt that its requests in flight ask for the same, that
  what has run of them has its effect on the server, and that while none has
  run the list shows what the server has.

`ShellProofs`, of `Workspace` and `Console`:

* `Inductive`: `Spec => []WInv`. The store rewrites the array of tabs as a whole,
  so each operation is first shown to take every tab over once, in order, with
  what it changes (`Keep` is monotone: the lemmas about `Nth`). Uniqueness of
  views needs that a rename in flight was asked by the tab of a key.
* `TabsAreInOrder`: the invariant, `OneTabPerView` with it;
  `AnswersTouchTheirTab`: `Spec => AnswerTouchesItsTab`.
* `WarningsInductive`: `ConsoleSpec => []WarnInv`. Whatever is pending on a
  connection is the line the check saw last there, was answered with the
  warning, and is as old as that warning. So the map and the history variable
  age together, and a line in between resets both.
* `DangerousNeedsItsWarning`: `ConsoleSpec => DangerousIsConfirmed`, as every
  step that sends a dangerous line found it pending and not too old.
* `SelectionStays`: `ConsoleSpec => []SelectionInRange`, with the types of
  terminals, popups and commands (`ConsoleTypes`): whatever shortens a list of
  suggestions or the history also puts the selection back.

`SearchProofs`, about `KeysSearch` and `KeyFilter`:

* `TypeCorrect`: `Spec => []TypeOK`; the search is loading exactly while the
  call of the current run is open.
* `OnlyMatches`: `Spec => []ShowsOnlyMatches`. The frames of a run carry keys of
  the filters in its closure (`RunOK`), only the current run still reaches the
  list (`OnlyCurrent`), and its filters are the form's (`OfFilters`) unless a
  displaced load-all has gone on (`revived`).
* `GetsSomewhere`: `ShortPages /\ Spec => Progress`, where `ShortPages` is that no
  page holds as many keys as the limit. `Later` on cursors is a strict order
  that a round advances, and a run is cut inside its first page only if that page
  reaches the limit alone.
* `FindsEverything`: `~LostAppends /\ Spec => []CompleteWhenDone`. What a search
  has not shown of what lies before its cursor is in the batch of the server or
  in a frame under way (`NothingMissed`), through every cut, cancellation,
  failure and restart; at the end of the walk nothing lies behind the cursor.
* `NothingIsWithheld`: `FilterSpec => []PushdownIsASuperset`, for any clauses and
  keys. It needs what `globMatch` computes: a glob that is a plain head and an
  asterisk matches whatever begins with the head (`HeadMatches`), and what a
  glob matches begins with its literal head (`GlobBegins`). Both are inductions
  over the pattern. `Numbers` gets induction from the cardinality of finite
  sets, `Recursion` the existence of a function whose values are made of those
  further on, and `ClassIs` that a class is not closed before it opens.
* `FiltersMeanWhatTheySay`: `FilterSpec => []MatchesAsMeant`, for any clauses and
  keys. `GlobIs`: `globMatch` accepts a key exactly if the items of the glob stand
  for it. One piece takes the loop from a place of the key to those its item
  covers (`PieceIs`; for a class, `ElementsAre` follows the scan over its
  elements), and the cut of the key is put together piece by piece. `FoldReads`:
  folding a glob folds its items, unless a range is `Skewed`; `OccursIs`: a
  substring occurs where its letters are found, one by one.

`BrowserProofs`:

* `TreeIsOfTheKeys`: `Spec => []TreeFollowsKeys`, inductive as it stands: four
  kinds of steps touch the tree.
* `NoKeyFetchedTwice`: `Spec => []FetchedOnce`, from the equation between
  `fetching` and the requests in flight. It and `OneKeyOpens` below are proved
  only; no run repeats them.
* `Inductive`, `SendsWhatWasShown`: `Spec => DeletesWhatWasShown`. That the
  names sent are of the folder and database agreed to needs what the dialog
  shows to be of it (`ShownIsOfTheFolder`, which covers the scans still under
  way), that the second question is asked by the dialog that is open and of its
  folder (`AskedByTheDialog`), and that one deletion at a time is on its way
  (`OneDeletion`).

`ProfilesProofs`:

* `Inductive`: `Spec => []IInv`. A save writes the row it found, so the
  secret it keeps is the stored one only if what was found still is what is
  stored (`FoundIsStored`); that is so unless another request for the row was in
  flight (`AloneUnlessCrossed`).
* `BlankKeepsTheSecret`: `Spec => []SecretKept`; `DeletedRowsStay`:
  `Spec => DeletedStays`, since `FindOne` leaves out marked rows and an insert
  fails on their key.
* `SidebarHolds`: `Spec => []SidebarShowsWhatIsStored`. `ListFollows`: what the
  list shows, or its query has read, is stored unless a request has written
  that is not answered yet, and its answer asks for the list again. A list that
  could not be read is excepted.
* `EditsHold`: `Spec => EditsSurvive`, one step per action.
* `SecretsInvariant`: `SecretsSpec => []SecretsIInv`. The flag alone says nothing
  about the steps that lead to it, so `SealedBehind` follows the migration: the
  rows of the tables before `tableNo`, those of this table that are written back,
  and all from the stage "flag" on, are sealed; a failure or a restart gives up
  what is behind it, and `HasColumn` says that `FindAll` leaves out no
  connection. `ReadIsStored`: a row that no handler has written since it was read
  is as it was read. `LayersOfOneKey` also covers the rows that handlers and the
  migration hold; with it `openSecret` takes off all layers or none (`OpensAll`).
* `NothingInClear`: `SecretsSpec => []SealedWhenDone`; `OneKeyOpens`:
  `SecretsSpec => []OpensWithOneKey`; `MigrationKeeps`:
  `SecretsSpec => MigrationKeepsRows`.

`KeyEditingProofs`:

* `ShownInductive`, `ShownHolds`: `Spec => []ShownIsStored`. `ShownInv` says that
  what the tab shows, and what its query has read, is what is stored unless a
  request in flight has written and will make the tab ask again (`Dirty`).
* `EditorsInductive`: form and inputs of a row editor have the same rows, those
  of a stream are equal, and a form into which nothing was inserted is one whole
  row. `SendsHolds`: `Spec => SendsWhatIsShown`, from it.
* `LostInductive`: the stage a request is in says what it has seen (`LostInv`):
  a list row about to be marked is there with the value it was asked for, a
  renamed field is stored before the old one is removed, unless `raced`.
  `OnlyTheSeenHolds`: `Spec => OnlyTheSeenIsLost`; that replacing, removing or
  adding an element of a list loses no other is counted by injections between
  the positions of a value.

**Model-checked only.** Liveness (`RequestsReturn`, `DoomedEnds`, `RemoveEnds`,
`LoadAllFinishes`, `StreamsEnd`, `ClosedTabLeavesNothing`), since liveness under
fairness is out of the prover's reach.

## 6. Abstractions, and what the models show about the code

Left out or simplified:

* Redis URLs, passwords, TLS and tunnel settings; `AddInit` either opens a
  client from the row as it was read or fails. The tunnel's own socket is not
  modelled.
* A statement may fail at any time; SQLite otherwise runs statements one after
  the other.
* A MONITOR dial may succeed although the caller is gone; what the lines say is
  left out, and so is the back-pressure of the stream. The replies of a proxy on
  the way to the server are part of the handshake.
* `KeysSearch` takes a filter as the set of keys it matches; the keyspace holds
  still during a search, as SCAN promises nothing about keys that come and go.
  Counters shown beside the list are left out. The guard of load all (at most
  1000 turns) is not modelled: it would make `LoadAllFinishes` true by counting.
* Messages of a Pub/Sub channel have no content and are not counted; a command
  that fails may have taken effect for some of its names.
* `KeyFilter` knows the regular expressions it is given by their meaning; their
  syntax is the regexp package's, and U+FFFD, which also stands for bytes that
  are no UTF-8, is not in them. Case is that of ASCII letters. Presets put back what the bar held before, so
  they lead to no new filter.
* Frames of one stream arrive in order, and those sent before a cancellation may
  or may not arrive.
* `Browser` lets a preview page bring any keys of its folder; which page the
  cursor asks for is left out.
* `KeyEditing` keeps one page of a key; a value is one of a few words, a JSON
  document a word. `Another` writes as another client may, also in between, but
  keeps the kind of the key, and leaves it alone once it is of another. A tab whose
  key is of another kind has another view, which is not followed further.
* In `Profiles` a retry of a list is the same request still under way.
* `Secrets` has one secret in a row, which is not empty; a plaintext does not
  begin with the mark of a sealed value. What `setting:set` writes under the
  name of the migration's flag is left out: the front end has no such setting.
* In `Console` what a suggestion completes to may be any line.

The properties name the windows in which the code is weaker than one might
expect; reading the code beside the models, these are:

* **Two requests for one connection** (`client-manager.go:53-83`,
  `connect_logic.go:59`, `connection_model_gen.go:149`). A Connect that read the
  row before SetReadOnly wrote it publishes a client with the old flag after
  the sweep; two Connects may judge one client stale, and the slower one then
  closes the fresh client of the faster one; an `Update` writes every column as
  it was read and so undoes what was written since, a deletion mark included.
  `Ownership` holds all the same. `ReadOnlyEnforced` and `ConnectIsFresh` are
  checked and proved for requests that do not overlap on one connection,
  `SecretKept` and `DeletedStays` for rows
  whose requests do not overlap (`crossed`).
* **The migration beside handlers** (`secrets.go:62`). Handlers are registered
  before `OnReady` and nothing holds them back until the migration is over. What
  is saved or deleted between its `FindAll` and its `Update` of that row is
  written back as it was read, a deletion mark included. `MigrationKeepsRows`
  excepts such rows (`raced`); they are sealed all the same.
* **The handshake of MONITOR** (`monitor/start_logic.go:124`). The replies to AUTH
  and MONITOR, and before them that of an HTTP proxy, are read without a deadline,
  and what closes the socket of a cancelled session starts after them (line 51).
  If the server accepts the connection and stays silent, a session whose view is
  gone is there until the server or the network ends it. `DoomedEnds` and
  `ClosedTabLeavesNothing` except it.
* **A key that is added again** (`key_create_logic.go:45`). The add key dialog
  does not ask whether the name is taken. A string, which is what it starts with,
  is SET, and replaces a key of any kind; `OnlyTheSeenIsLost` excepts it
  (`Overwrites`). Other kinds are added to a key of their kind and refused by
  another, and a document replaces a document.
* **Rows of one field** (`key-detail-stream.tsx:119`). The rows of a stream's entry
  go out as an object, and in the handler they are a map: of two rows with one
  field the first is not stored, although an entry of Redis may hold both.
* **A list that cannot be read** (`app.context.tsx:47`). After the one retry nobody
  asks for it until something is saved, deleted, mounted or refreshed, and the old
  list stays; `SidebarShowsWhatIsStored` excepts it (`failed`).
* **A master lost** (`redisscan.go:24`). The callbacks of `ForEachMaster` append
  to one slice without a lock. With `LostAppends = TRUE` in the cfg the walk may
  miss a node in one round, end early, and report completion; `CompleteWhenDone`
  is checked and proved without that.
* **A page as large as the limit** (`keys_search_logic.go:145`). A run that is
  cut in the page it started with resumes at that page, so that every "load
  more" repeats it. `Progress` is checked and proved for a limit that no page
  reaches alone.
* **Cancel at the end of a turn of load all** (`keys-search.ts:165`). Cancel
  after the last event of one run and before the next run begins finds no
  stream to cancel; the loop goes on.
* **The pattern of a regular expression** (`keyfilter.go:186`). `^ab?`,
  `^ab*` and `^a|b` are sent to SCAN as `ab*`, `ab*` and `a*`, which withhold `a`
  and `b`. `PushdownIsASuperset` excepts these shapes (`Loose`): an anchored
  expression whose literal head is followed by `?`, `*` or `{`, or with a `|`.
* **Ranges in a glob that ignores case** (`keyfilter.go:55`). The pattern is
  folded before it is read, and the ends of a range with it: `[A-z]` becomes
  `[a-z]`, and `[Z-a]` also admits every letter. `MatchesAsMeant` excepts ranges
  of capital letters and other bytes (`Skewed`).
* **The folder dialog** (`browser-bulk-delete-dialog.tsx:50`). Scans are not
  cancelled when the dialog is closed, so one that is still under way when it
  is opened for another folder adds its keys to the new preview; and a database
  that changes while the dialog is open is the one the deletion is sent to.
  `DeletesWhatWasShown` excepts the two (`stale`). Its "Load all" walks from
  the start of the keyspace again, and its answers are merged by name. A tree
  whose keys vanish before the timer rings stays covered until keys come.
* **Late answers**. The answer of a save closes the dialog of its kind, and
  that of a profile's deletion empties the form, whatever they show by then
  (`EditsSurvive`); the answer of an edit closes the drawer that is open. A
  confirmed deletion of a row does nothing while another row is being deleted,
  except that row 0 of a list and an empty name count as none.
* **Commands that are not one** (`list_item_del_logic.go:60`). Checking,
  marking and removing an element are three commands, renaming a field three;
  a writer in between can cost another element (`raced`), and a failure in
  between leaves the marker, or both names.
* **Inputs with a text of their own** (`key-add/*.tsx`). The value inputs of
  lists, sets, hashes and sorted sets are uncontrolled and keyed by index: once
  rows have been inserted or deleted in the middle, or the drawer was closed
  and opened, they do not show what will be sent (`moved`). In a stream's
  editor both follow the form. A list or set editor sends an object for a row
  that was inserted and not filled, which the server refuses.
* **The flag of a stream's hook** (`monitor.api.tsx:49`). The `finally` of an
  older stream says that nothing is running although the newer one is; start
  then does nothing, and the stream cannot be stopped from the tab until it is
  closed (`overtaken`).
* **Subscribe all, switched on and off quickly**
  (`connection-detail-tab-pubsub.tsx:43`). Its requests cross, so the list and
  the server may end up apart (`doubt`).
* **Connections of a deleted group** are not moved: they are in no group the
  sidebar shows, nor among those without one (`SidebarShowsWhatIsStored`).
* **The browser without a database** (`sidebar-browser.tsx:228-249`).
  `connect` reports its failure itself and returns, so `onChangeDbIdx` sets the
  database index all the same, in whatever connection is selected by then
  (`ConnectAnswered` of `Workspace`). Shown without a selected database, the
  panel calls `setDataset` with a new array while rendering, which React ends
  by taking the window down (`Crashed`).

## 7. What is not modelled, and why

* Read-only hook: its flag is in `ClientManager`; the table of write commands is
  data, and a model of it would repeat it.
* Other keyspace walks (`scan_keys`, search and delete by filter, preview,
  analysis): loops of one handler over the pages that `KeysSearch` models, with
  nothing kept between two requests.
* Graph console: parses the replies of a module; no state of its own.
* Presets, settings, updater: single statements on rows nothing else depends on,
  and an external library. The cipher of the secrets, and where its key is kept,
  are another.
* Dialers: pure I/O. The SSH client that `buildOptions` dials belongs to them.
* Rest of the user interface: layout, theme, translation, charts and the graph
  canvas are rendering.
* Application shell and RPC bridge: wiring around an external runtime and
  generated dispatch; its lazy, cancellable stream is in `StreamViews`.
* Of modelled components: the time to live of a key, the cursors from value page
  to value page, the pages the server deletes a folder in, the order of list
  rows, and the presets of the filter bar.
