------------------------------- MODULE Secrets --------------------------------
(***************************************************************************)
(* Secrets at rest.  The models of connections, SSH, TLS and proxy         *)
(* profiles seal a secret when a row is written and open it when it is     *)
(* read (internal/model/secrets.go).  At every start, while the handlers   *)
(* already serve requests, the schema is brought up to date and, until a   *)
(* flag says that it was done, every row is read and written back, which   *)
(* seals what older versions left in clear (internal/svc/migrate.go,       *)
(* secrets.go, main.go).                                                   *)
(*                                                                         *)
(* A row has one secret here: a plaintext under layers, each the seal of   *)
(* a master key, the last one outermost.  The program may stop at any      *)
(* time, and a start may find another master key in the environment or     *)
(* the keychain.  Statements of handlers and migration run one by one.     *)
(***************************************************************************)
EXTENDS Naturals, Sequences, Functions

CONSTANTS
  Entry,      \* rows
  Tables,     \* number of tables; the first is that of the connections
  TableOf,    \* Entry -> the table it is in
  Plain,      \* plaintexts
  MasterKey,
  Handler     \* requests at work

ASSUME SecretsAssumption == Tables \in Nat \ {0} /\ TableOf \in [Entry -> 1..Tables]

VARIABLES
  stored,     \* Entry -> the row
  column,     \* has the connection table its column read_only?
  flag,       \* the setting secrets_migrated_v1
  codec,      \* the master key of this start
  stage,      \* where the migrations are
  tableNo,    \* the table being migrated
  todo,       \* what FindAll has read of it and is not written back yet
  held,       \* what handlers have found and not written yet, a partial function
  raced       \* history: rows of todo that a handler has written

database == <<stored, column, flag>>
migration == <<stage, tableNo, todo, raced>>
secretsVars == <<database, codec, migration, held>>

-----------------------------------------------------------------------------
(* internal/model                                                           *)

IsEncrypted(layers) == layers # << >>

\* One master key opens it.
OneKey(layers) == \A i, j \in DOMAIN layers : layers[i] = layers[j]

sealSecret(key, layers) == IF IsEncrypted(layers) THEN layers ELSE <<key>>

\* Mutant: one layer only is taken off.
openSecretOnce(key, layers) ==
  IF IsEncrypted(layers) /\ layers[Len(layers)] = key
  THEN SubSeq(layers, 1, Len(layers) - 1) ELSE layers

\* Layers are taken off up to the first that this key does not open.
openSecret(key, layers) ==
  LET Stuck(n) == /\ \A i \in (n + 1)..Len(layers) : layers[i] = key
                  /\ n > 0 => layers[n] # key
  IN SubSeq(layers, 1, CHOOSE n \in 0..Len(layers) : Stuck(n))

\* The column is named in every statement on connections but the deletion.
Usable(e) == TableOf[e] = 1 => column
Visible(e) == stored[e].at = "live" /\ Usable(e)
Opened(e) == [entry |-> e, word |-> stored[e].word, layers |-> openSecret(codec, stored[e].layers)]

\* Update writes every column, the deletion mark of the row as it was found included.
Written(copy) == [stored EXCEPT
  ![copy.entry] = [at |-> "live", word |-> copy.word, layers |-> sealSecret(codec, copy.layers)]]

-----------------------------------------------------------------------------
(* The handlers                                                             *)

Racing(e) == raced' = raced \cup {c.entry : c \in {d \in todo : d.entry = e}}

FindRow(h, e) ==
  /\ h \notin DOMAIN held /\ Visible(e)
  /\ held' = [g \in DOMAIN held \cup {h} |-> IF g = h THEN Opened(e) ELSE held[g]]
  /\ UNCHANGED <<database, codec, migration>>

\* A blank secret keeps the one that was found.
SaveRow(h) ==
  /\ h \in DOMAIN held
  /\ \E copy \in {held[h]} \cup {[held[h] EXCEPT !.word = w, !.layers = << >>] : w \in Plain} :
       stored' = Written(copy)
  /\ Racing(held[h].entry)
  /\ held' = Restrict(held, DOMAIN held \ {h})
  /\ UNCHANGED <<column, flag, codec, stage, tableNo, todo>>

\* It was found for something else, or a statement fails.
GiveUp(h) ==
  /\ h \in DOMAIN held
  /\ held' = Restrict(held, DOMAIN held \ {h})
  /\ UNCHANGED <<database, codec, migration>>

InsertRow(e) ==
  /\ stored[e].at = "none" /\ Usable(e)
  /\ \E w \in Plain : stored' = Written([entry |-> e, word |-> w, layers |-> << >>])
  /\ UNCHANGED <<column, flag, codec, migration, held>>

DeleteRow(e) ==
  /\ stored[e].at = "live"
  /\ stored' = [stored EXCEPT ![e].at = "deleted"]
  /\ Racing(e)
  /\ UNCHANGED <<column, flag, codec, stage, tableNo, todo, held>>

-----------------------------------------------------------------------------
(* The migrations                                                           *)

\* A schema that cannot be brought up to date does not keep the secrets from it.
MigrateSchema ==
  /\ stage = "schema"
  /\ column' \in {TRUE, column}
  /\ stage' = "check"
  /\ UNCHANGED <<stored, flag, codec, tableNo, todo, held, raced>>

CheckFlag ==
  /\ stage = "check"
  /\ stage' = IF flag THEN "over" ELSE "read"
  /\ tableNo' = 1
  /\ UNCHANGED <<database, codec, todo, held, raced>>

FindAllRows ==
  /\ stage = "read"
  /\ tableNo = 1 => column
  /\ todo' = {Opened(e) : e \in {d \in Entry : TableOf[d] = tableNo /\ Visible(d)}}
  /\ raced' = {}
  /\ stage' = "write"
  /\ UNCHANGED <<database, codec, tableNo, held>>

Reseal(copy) ==
  /\ stage = "write" /\ copy \in todo
  /\ stored' = Written(copy)
  /\ todo' = todo \ {copy}
  /\ UNCHANGED <<column, flag, codec, stage, tableNo, held, raced>>

NextTable ==
  /\ stage = "write" /\ todo = {}
  /\ IF tableNo < Tables THEN stage' = "read" /\ tableNo' = tableNo + 1
                         ELSE stage' = "flag" /\ UNCHANGED tableNo
  /\ UNCHANGED <<database, codec, todo, held, raced>>

InsertFlag ==
  /\ stage = "flag"
  /\ flag' = TRUE
  /\ stage' = "over"
  /\ UNCHANGED <<stored, column, codec, tableNo, todo, held, raced>>

\* Mutant: a row that cannot be written is passed over.
PassesOver ==
  /\ stage = "write" /\ \E copy \in todo : todo' = todo \ {copy}
  /\ UNCHANGED <<database, codec, stage, tableNo, held, raced>>

\* A statement fails, and the rest is left to the next start.
MigrationFails ==
  /\ stage \in {"check", "read", "write", "flag"}
  /\ stage = "write" => todo # {}
  /\ stage' = "over"
  /\ todo' = {} /\ raced' = {}
  /\ UNCHANGED <<database, codec, tableNo, held>>

\* The program ends or is killed, and is started again.
Restart ==
  /\ codec' \in MasterKey
  /\ stage' = "schema" /\ tableNo' = 1 /\ todo' = {} /\ raced' = {}
  /\ held' = << >>
  /\ UNCHANGED database

-----------------------------------------------------------------------------
\* As older versions may have left it: secrets in clear or sealed, also twice.
SecretsInit ==
  /\ stored \in [Entry -> [at : {"none", "live", "deleted"}, word : Plain,
                           layers : {<< >>} \cup {<<k>> : k \in MasterKey}
                                    \cup {<<k, k>> : k \in MasterKey}]]
  /\ column \in BOOLEAN
  /\ flag = FALSE
  /\ codec \in MasterKey
  /\ stage = "schema" /\ tableNo = 1 /\ todo = {} /\ raced = {}
  /\ held = << >>

Serve ==
  \/ \E h \in Handler : SaveRow(h) \/ GiveUp(h) \/ \E e \in Entry : FindRow(h, e)
  \/ \E e \in Entry : InsertRow(e) \/ DeleteRow(e)

Migrate ==
  \/ MigrateSchema \/ CheckFlag \/ FindAllRows \/ NextTable \/ InsertFlag \/ MigrationFails
  \/ \E copy \in todo : Reseal(copy)

SecretsNext == Serve \/ Migrate \/ Restart

SecretsSpec == SecretsInit /\ [][SecretsNext]_secretsVars

-----------------------------------------------------------------------------
(* Properties                                                               *)

\* Once the flag says that the migration is done no row that can be read has its
\* secret in clear, however often the migration was stopped, failed and repeated, and
\* whatever was saved, inserted and deleted beside it (secrets.go 50-96).
SealedWhenDone ==
  flag => column /\ \A e \in Entry : stored[e].at = "live" => IsEncrypted(stored[e].layers)

\* Every secret can be opened with one master key: it is never sealed over a seal of
\* another, also when the key has changed and the old secrets cannot be opened
\* (model/secrets.go 13-43).
OpensWithOneKey == \A e \in Entry : OneKey(stored[e].layers)

\* The migration changes nothing that a handler would read, except that it undoes
\* what was written to a row between FindAll and Update, a deletion included
\* (secrets.go 57-95, connection_model_gen.go 149).
MigrationKeepsRows ==
  [][\A e \in Entry :
       todo' # todo /\ stored'[e] # stored[e] /\ e \notin raced
         => stored'[e].at = stored[e].at /\ Opened(e)' = Opened(e)]_secretsVars
=============================================================================
