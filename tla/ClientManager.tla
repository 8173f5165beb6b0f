---------------------------- MODULE ClientManager ----------------------------
(***************************************************************************)
(* The live-connection core of the Go backend: the connection rows in      *)
(* SQLite, the ClientManager table of Redis clients                        *)
(* (internal/svc/client-manager.go) and the RPC handlers that change both: *)
(* Connect, Disconnect, SetReadOnly, connection Upsert and Delete.         *)
(*                                                                         *)
(* Each RPC runs in a goroutine of its own, so a handler is a process that *)
(* takes one step per SQLite statement and per critical section of the     *)
(* manager's RWMutex.  Between two steps anything may happen.              *)
(*                                                                         *)
(* updated_at is only ever compared with time.Equal, so a timestamp is a   *)
(* token that nothing alive carries yet (FreshVer), and a client that was  *)
(* closed may be allocated again: both sets stay finite although the       *)
(* behaviours do not.  An SSH, proxy and TLS profile enter the manager in  *)
(* the same way; one profile stands for the three.                         *)
(***************************************************************************)
EXTENDS FiniteSets

CONSTANTS
  Conn,       \* connection ids
  Db,         \* database indexes
  Proc,       \* RPC goroutines
  Client,     \* identities of *svc.Client values
  Ver,        \* updated_at tokens
  Profiled,   \* connections that go through an SSH, proxy or TLS profile
  None,       \* no client
  NoVer       \* no updated_at

ASSUME NoneAssumption == None \notin Client
ASSUME NoVerAssumption == NoVer \notin Ver
ASSUME ProfiledAssumption == Profiled \subseteq Conn
ASSUME KeyAssumption == Conn # {} /\ Db # {}

VARIABLES
  row,      \* the connection table: Conn -> Row
  profile,  \* updated_at of the profile row
  cache,    \* ClientManager.clients: Key -> Client or None
  open,     \* clients whose Rdb has not been closed
  client,   \* the fields of a *Client that the manager and the hook read
  frame     \* the local state of each handler

vars == <<row, profile, cache, open, client, frame>>

Key == Conn \X Db                  \* fmt.Sprintf("%s:%d", id, dbIdx)
VerOrNone == Ver \cup {NoVer}

Row == [st : {"absent", "live", "deleted"}, readOnly : BOOLEAN,
        lastDb : Db, updatedAt : VerOrNone]
Fields == [ver : VerOrNone, prof : VerOrNone, readOnly : BOOLEAN]

Steps == {"idle", "profile", "persist", "lookup", "remove", "dial", "install",
          "write", "insert", "rlock", "sweep"}
Frame == [at : Steps, key : Key, cfg : Row, prof : VerOrNone,
          own : Client \cup {None}, want : BOOLEAN, todo : SUBSET Client]

NoKey == CHOOSE k \in Key : TRUE
NoRow == [st |-> "absent", readOnly |-> FALSE, lastDb |-> NoKey[2], updatedAt |-> NoVer]
NoFields == [ver |-> NoVer, prof |-> NoVer, readOnly |-> FALSE]

\* A handler between two requests: it has returned, its locals are gone.
Idle == [at |-> "idle", key |-> NoKey, cfg |-> NoRow, prof |-> NoVer,
         own |-> None, want |-> FALSE, todo |-> {}]

At(p, s) == frame[p].at = s
Become(p, f) == frame' = [frame EXCEPT ![p] = f]
Goto(p, s) == Become(p, [frame[p] EXCEPT !.at = s])
Return(p) == Become(p, Idle)

-----------------------------------------------------------------------------
(* Reading the table *)

Cached(i) == \E k \in Key : cache[k] = i
CachedOf(c) == {i \in Client : \E d \in Db : cache[<<c, d>>] = i}

\* Mutants: SetReadOnly without the lock; Add still holding its read lock
\* when it calls Remove.
ReadersNone == {}
ReadersAdd == {p \in Proc : At(p, "sweep") \/ At(p, "remove")}

\* Goroutines inside a read-locked section that spans several steps.  A
\* section that takes the write lock waits for them.
Readers == {p \in Proc : At(p, "sweep")}
Exclusive == Readers = {}

\* Mutant: only the connection's own updated_at is compared.
StaleByRow(i, c, cfg, prof) == client[i].ver # cfg.updatedAt

\* client-manager.go 36-45: is the cached client i older than the config?
Stale(i, c, cfg, prof) ==
  \/ client[i].ver # cfg.updatedAt
  \/ c \in Profiled /\ client[i].prof # prof

UsedVer == {row[c].updatedAt : c \in Conn} \cup {profile}
             \cup {client[i].ver : i \in Client} \cup {client[i].prof : i \in Client}
             \cup {frame[p].cfg.updatedAt : p \in Proc} \cup {frame[p].prof : p \in Proc}
FreshVerZero == {NoVer}            \* mutant: updated_at is not stamped
FreshVer == Ver \ UsedVer          \* time.Now(), in default*Model.Update

\* closeStreams, Rdb.Close and delete for every key of K, under the lock.
\* The fields of a closed client are forgotten: no handler reads them again.
CloseKeys(K) ==
  LET gone == {cache[k] : k \in K} IN
  /\ cache' = [k \in Key |-> IF k \in K THEN None ELSE cache[k]]
  /\ open' = open \ gone
  /\ client' = [i \in Client |-> IF i \in gone THEN NoFields ELSE client[i]]

-----------------------------------------------------------------------------
(* Connect (connect_logic.go), and ClientManager.Add inside it *)

\* FindOne; a row that is absent or deleted ends the request at once.
ConnectFindOne(p, k) ==
  /\ At(p, "idle")
  /\ row[k[1]].st = "live"
  /\ Become(p, [frame[p] EXCEPT !.at = "profile", !.key = k, !.cfg = row[k[1]]])
  /\ UNCHANGED <<row, profile, cache, open, client>>

\* The SSH, proxy and TLS rows are read by statements of their own.
ConnectFindProfile(p) ==
  LET f == frame[p] IN
  /\ At(p, "profile")
  /\ Become(p, [f EXCEPT !.at = IF f.cfg.lastDb # f.key[2] THEN "persist" ELSE "lookup",
                         !.prof = IF f.key[1] \in Profiled THEN profile ELSE NoVer])
  /\ UNCHANGED <<row, profile, cache, open, client>>

\* ConnectionModel.Update writes the whole row as it was read, deleted_at
\* included, and hands the new updated_at back to the caller.
ConnectUpdate(p) ==
  LET f == frame[p] IN
  /\ At(p, "persist")
  /\ \E v \in FreshVer :
       LET new == [f.cfg EXCEPT !.lastDb = f.key[2], !.updatedAt = v] IN
       /\ row' = [row EXCEPT ![f.key[1]] = new]
       /\ Become(p, [frame[p] EXCEPT !.at = "lookup", !.cfg = new])
  /\ UNCHANGED <<profile, cache, open, client>>

\* Add 34-56, one read-locked section: hit, stale hit or miss.
AddLookup(p) ==
  LET f == frame[p]
      i == cache[f.key] IN
  /\ At(p, "lookup")
  /\ \/ i = None /\ Goto(p, "dial")
     \/ i # None /\ Stale(i, f.key[1], f.cfg, f.prof) /\ Goto(p, "remove")
     \/ i # None /\ ~Stale(i, f.key[1], f.cfg, f.prof) /\ Return(p)
  /\ UNCHANGED <<row, profile, cache, open, client>>

\* Add 53, m.Remove under the write lock: whatever the key holds by now.
AddRemove(p) ==
  /\ At(p, "remove")
  /\ Exclusive
  /\ CloseKeys({frame[p].key})
  /\ Goto(p, "dial")
  /\ UNCHANGED <<row, profile>>

\* Add 58-76 holds no lock: a client is opened from the config as read.
AddInit(p, i) ==
  LET f == frame[p] IN
  /\ At(p, "dial")
  /\ i \notin open
  /\ open' = open \cup {i}
  /\ client' = [client EXCEPT ![i] = [ver |-> f.cfg.updatedAt, prof |-> f.prof,
                                      readOnly |-> f.cfg.readOnly]]
  /\ Become(p, [frame[p] EXCEPT !.at = "install", !.own = i])
  /\ UNCHANGED <<row, profile, cache>>

\* The options cannot be built, or the ping fails and the client is closed.
AddInitFails(p) ==
  /\ At(p, "dial")
  /\ Return(p)
  /\ UNCHANGED <<row, profile, cache, open, client>>

\* Mutant: the key is not looked up again under the write lock.
AddInstallBlind(p) ==
  /\ At(p, "install")
  /\ Exclusive
  /\ cache' = [cache EXCEPT ![frame[p].key] = frame[p].own]
  /\ Return(p)
  /\ UNCHANGED <<row, profile, open, client>>

\* Add 78-88: the first to take the lock installs its client, ...
AddInstall(p) ==
  LET f == frame[p] IN
  /\ At(p, "install")
  /\ Exclusive
  /\ cache[f.key] = None
  /\ cache' = [cache EXCEPT ![f.key] = f.own]
  /\ Return(p)
  /\ UNCHANGED <<row, profile, open, client>>

\* Mutant: the client that lost the race is not closed.
AddYieldLeaks(p) ==
  /\ At(p, "install")
  /\ Exclusive
  /\ cache[frame[p].key] # None
  /\ Return(p)
  /\ UNCHANGED <<row, profile, cache, open, client>>

\* ... a later one closes its own and returns the one it finds.
AddYield(p) ==
  LET f == frame[p] IN
  /\ At(p, "install")
  /\ Exclusive
  /\ cache[f.key] # None
  /\ open' = open \ {f.own}
  /\ client' = [client EXCEPT ![f.own] = NoFields]
  /\ Return(p)
  /\ UNCHANGED <<row, profile, cache>>

-----------------------------------------------------------------------------
(* Disconnect (disconnect_logic.go) and the shutdown path of main.go *)

Disconnect(p, k) ==
  /\ At(p, "idle")
  /\ Exclusive
  /\ cache[k] # None
  /\ CloseKeys({k})
  /\ UNCHANGED <<row, profile, frame>>

CloseAll ==
  /\ Exclusive
  /\ \E k \in Key : cache[k] # None
  /\ CloseKeys(Key)
  /\ UNCHANGED <<row, profile, frame>>

-----------------------------------------------------------------------------
(* SetReadOnly (set_read_only_logic.go), and ClientManager.SetReadOnly *)

SetReadOnlyFindOne(p, k, ro) ==
  LET r == row[k[1]] IN
  /\ At(p, "idle")
  /\ r.st = "live"
  /\ Become(p, [frame[p] EXCEPT
                  !.at = IF r.readOnly # ro THEN "write" ELSE "rlock",
                  !.key = k, !.want = ro,
                  !.cfg = [r EXCEPT !.readOnly = ro, !.updatedAt = NoVer]])
  /\ UNCHANGED <<row, profile, cache, open, client>>

\* The whole row again, for SetReadOnly and for Upsert.
WriteRow(p) ==
  LET f == frame[p] IN
  /\ At(p, "write")
  /\ \E v \in FreshVer :
       /\ row' = [row EXCEPT ![f.key[1]] = [f.cfg EXCEPT !.updatedAt = v]]
       /\ Become(p, [frame[p] EXCEPT !.at = "rlock", !.cfg = NoRow])
  /\ UNCHANGED <<profile, cache, open, client>>

\* Mutant: only the client of the database in use is switched.
SweepBeginOneDb(p) ==
  /\ At(p, "rlock")
  /\ Become(p, [frame[p] EXCEPT !.at = "sweep", !.cfg = NoRow,
                                !.todo = {cache[frame[p].key]} \ {None}])
  /\ UNCHANGED <<row, profile, cache, open, client>>

\* 328-333: the read lock is taken and the range over the map begins.
SweepBegin(p) ==
  /\ At(p, "rlock")
  /\ Become(p, [frame[p] EXCEPT !.at = "sweep", !.cfg = NoRow,
                                !.todo = CachedOf(frame[p].key[1])])
  /\ UNCHANGED <<row, profile, cache, open, client>>

\* 335: one atomic store; a second sweep may run under the same read lock.
SweepStore(p, i) ==
  /\ At(p, "sweep")
  /\ i \in frame[p].todo
  /\ client' = [client EXCEPT ![i].readOnly = frame[p].want]
  /\ Become(p, [frame[p] EXCEPT !.todo = @ \ {i}])
  /\ UNCHANGED <<row, profile, cache, open>>

SweepEnd(p) ==
  /\ At(p, "sweep")
  /\ frame[p].todo = {}
  /\ Return(p)
  /\ UNCHANGED <<row, profile, cache, open, client>>

-----------------------------------------------------------------------------
(* The connection form: Upsert (upsert_logic.go), Delete (delete_logic.go) *)

\* Every field but the two passwords comes from the form.
UpsertFindOne(p, k, ro) ==
  LET r == row[k[1]]
      form == [st |-> "live", readOnly |-> ro, lastDb |-> k[2], updatedAt |-> NoVer] IN
  /\ At(p, "idle")
  /\ Become(p, [frame[p] EXCEPT !.at = IF r.st = "live" THEN "write" ELSE "insert",
                                !.key = k, !.want = ro, !.cfg = form])
  /\ UNCHANGED <<row, profile, cache, open, client>>

\* INSERT fails on the primary key when the id is already in the table, also
\* as a deleted row; a new connection has no client to sweep.
UpsertInsert(p) ==
  LET f == frame[p] IN
  /\ At(p, "insert")
  /\ \/ /\ row[f.key[1]].st = "absent"
        /\ \E v \in FreshVer :
             row' = [row EXCEPT ![f.key[1]] = [f.cfg EXCEPT !.updatedAt = v]]
     \/ row[f.key[1]].st # "absent" /\ UNCHANGED row
  /\ Return(p)
  /\ UNCHANGED <<profile, cache, open, client>>

\* Any statement may fail; the handler returns the error and does no more.
StatementFails(p) ==
  /\ frame[p].at \in {"profile", "persist", "write", "insert"}
  /\ Return(p)
  /\ UNCHANGED <<row, profile, cache, open, client>>

\* A soft delete of the row alone: the manager is not told.
Delete(p, c) ==
  /\ At(p, "idle")
  /\ row[c].st = "live"
  /\ row' = [row EXCEPT ![c].st = "deleted"]
  /\ UNCHANGED <<profile, cache, open, client, frame>>

\* The user edits the SSH, proxy or TLS profile: ssh/proxy/tls upsert.
ProfileUpsert(p) ==
  /\ At(p, "idle")
  /\ profile' \in FreshVer
  /\ UNCHANGED <<row, cache, open, client, frame>>

-----------------------------------------------------------------------------
Init ==
  /\ \E v \in Ver :
       /\ profile = v
       /\ row \in [Conn -> {NoRow} \cup
                     [st : {"live"}, readOnly : BOOLEAN, lastDb : Db, updatedAt : {v}]]
  /\ cache = [k \in Key |-> None]
  /\ open = {}
  /\ client = [i \in Client |-> NoFields]
  /\ frame = [p \in Proc |-> Idle]

\* A step of a handler that has begun.
Continue(p) ==
  \/ ConnectFindProfile(p) \/ ConnectUpdate(p)
  \/ AddLookup(p) \/ AddRemove(p) \/ AddInitFails(p) \/ AddInstall(p) \/ AddYield(p)
  \/ \E i \in Client : AddInit(p, i) \/ SweepStore(p, i)
  \/ WriteRow(p) \/ SweepBegin(p) \/ SweepEnd(p)
  \/ UpsertInsert(p) \/ StatementFails(p)

\* A request arrives.
Begin(p) ==
  \/ \E k \in Key : ConnectFindOne(p, k) \/ Disconnect(p, k)
  \/ \E k \in Key, ro \in BOOLEAN : SetReadOnlyFindOne(p, k, ro) \/ UpsertFindOne(p, k, ro)
  \/ \E c \in Conn : Delete(p, c)
  \/ ProfileUpsert(p)

Next == CloseAll \/ \E p \in Proc : Begin(p) \/ Continue(p)

Spec == Init /\ [][Next]_vars

\* Go keeps running a goroutine that can run, and nothing obliges the user to
\* make another request.  The write lock is strongly fair: a waiting
\* RWMutex.Lock keeps new readers out, so a stream of readers cannot starve it.
Locks(p) == AddRemove(p) \/ AddInstall(p) \/ AddYield(p)
FairSpec == Spec /\ \A p \in Proc : WF_vars(Continue(p)) /\ SF_vars(Locks(p))

-----------------------------------------------------------------------------
(* Properties *)

TypeOK ==
  /\ row \in [Conn -> Row]
  /\ profile \in Ver
  /\ cache \in [Key -> Client \cup {None}]
  /\ open \in SUBSET Client
  /\ client \in [Client -> Fields]
  /\ frame \in [Proc -> Frame]

\* The manager owns every socket: what it hands out is open, sits under one
\* key only, and a client that is open is either in the table or still in
\* the hands of the one Add that dialled it (client-manager.go 66-88, 340-353).
CachedOpen == \A k \in Key : cache[k] # None => cache[k] \in open
OneKey == \A k, l \in Key : cache[k] # None /\ cache[k] = cache[l] => k = l
OwnedOpen ==
  \A p \in Proc : frame[p].own # None => frame[p].own \in open /\ ~Cached(frame[p].own)
OneOwner ==
  \A p, q \in Proc : frame[p].own # None /\ frame[p].own = frame[q].own => p = q
NoLeak ==
  \A i \in open : Cached(i) \/ \E p \in Proc : frame[p].own = i
Ownership == CachedOpen /\ OneKey /\ OwnedOpen /\ OneOwner /\ NoLeak

\* While SetReadOnly ranges over the map nobody may change it (Go aborts the
\* program on a concurrent map iteration and write): what is left to visit
\* is still cached under the connection (client-manager.go 328-338).
SweepUnderLock ==
  \A p \in Proc : At(p, "sweep") => frame[p].todo \subseteq CachedOf(frame[p].key[1])

\* The inductive invariant: besides the above, a handler holds a client of
\* its own exactly between the ping and the critical section that publishes it.
OwnAtInstall == \A p \in Proc : frame[p].own # None <=> At(p, "install")
IInv == TypeOK /\ Ownership /\ OwnAtInstall /\ SweepUnderLock

Quiet == \A p \in Proc : At(p, "idle")

\* When no handler is running, the clients of a connection enforce exactly
\* what its row says (true of requests that do not overlap on it: see
\* OnePerConnection).
ReadOnlyEnforced ==
  Quiet => \A c \in Conn, i \in Client :
             row[c].st = "live" /\ i \in CachedOf(c) => client[i].readOnly = row[c].readOnly

\* A Connect that succeeds returns a client built from the rows it read: a
\* changed updated_at rebuilds the client (client-manager.go 36-54, 81-84).
Succeeds(p) ==
  /\ \/ At(p, "lookup")
     \/ At(p, "install")
  /\ frame'[p].at = "idle"
ConnectIsFresh ==
  [][\A p \in Proc : Succeeds(p) =>
       LET f == frame[p] IN
       /\ cache'[f.key] # None
       /\ client'[cache'[f.key]].ver = f.cfg.updatedAt
       /\ client'[cache'[f.key]].prof = f.prof]_vars

\* No two handlers work on one connection at the same time.
OnePerConnection ==
  \A p, q \in Proc :
    /\ ~At(p, "idle") /\ ~At(q, "idle")
    /\ frame[p].key[1] = frame[q].key[1]
    => p = q

\* What ReadOnlyEnforced and ConnectIsFresh rest on while that is so: the
\* clients of a connection agree with its row unless a handler is about to
\* switch them, and a handler's copy of the row is as good as the row.
Switching(c) == \E p \in Proc : frame[p].at \in {"rlock", "sweep"} /\ frame[p].key[1] = c
Agree ==
  \A c \in Conn, i \in Client : i \in CachedOf(c) =>
    /\ row[c].st # "absent"
    /\ c \notin Profiled => client[i].prof = NoVer
    /\ Switching(c) \/ client[i].readOnly = row[c].readOnly
InStep(f) ==
  LET r == row[f.key[1]] IN
  /\ f.at \notin {"idle", "insert"} => r.st # "absent"
  /\ f.at \in {"profile", "persist", "lookup", "remove", "dial", "install"} =>
       f.cfg.st = "live" /\ f.cfg.readOnly = r.readOnly
  /\ f.at \in {"write", "insert"} => f.cfg.st = "live" /\ f.cfg.readOnly = f.want
  /\ f.at \in {"rlock", "sweep"} => r.readOnly = f.want
  /\ f.at = "sweep" =>
       \A i \in Client : i \in CachedOf(f.key[1]) \ f.todo => client[i].readOnly = f.want
  /\ f.at \in {"persist", "lookup", "remove", "dial", "install"} =>
       (f.key[1] \notin Profiled => f.prof = NoVer)
  /\ f.at \in {"dial", "install"} => cache[f.key] = None
  /\ f.at = "install" =>
       client[f.own] = [ver |-> f.cfg.updatedAt, prof |-> f.prof, readOnly |-> f.cfg.readOnly]
SerialInv == Agree /\ \A p \in Proc : InStep(frame[p])

\* Every request returns: no handler waits for a lock it holds itself.
RequestsReturn == \A p \in Proc : ~At(p, "idle") ~> At(p, "idle")

\* Clients that were dialled and are not published yet.
Spare == {frame[p].own : p \in Proc} \ {None}
Registry ==
  INSTANCE ClientRegistry
    WITH Keys <- Key, Clients <- Client, table <- cache, live <- open, spare <- Spare

\* The manager is a registry: a key changes hands only through a close, and
\* what is closed leaves the table in the same step (client-manager.go 52-88,
\* 340-363).
RegistrySpec == Registry!RSpec
=============================================================================
