--------------------------- MODULE ClientRegistry ---------------------------
(***************************************************************************)
(* What the client manager of internal/svc promises, with no handler, row  *)
(* or lock in sight: a table with at most one live Redis client per key, a *)
(* set of live clients that are not in the table yet, and nothing else     *)
(* alive.  A client enters the table only on a free key and leaves it only *)
(* by being closed.                                                        *)
(***************************************************************************)
CONSTANTS
  Keys,      \* the "<connection id>:<db index>" keys of the table
  Clients,   \* identities of Redis clients
  None       \* no client under a key

VARIABLES
  table,     \* key -> client, or None
  spare,     \* live clients their creator has not published yet
  live       \* clients whose sockets are open

rvars == <<table, spare, live>>

InTable(i) == \E k \in Keys : table[k] = i

RInit ==
  /\ table = [k \in Keys |-> None]
  /\ spare = {}
  /\ live = {}

\* A new client is opened by whoever is going to publish it.
Open(i) ==
  /\ i \notin live
  /\ spare' = spare \cup {i}
  /\ live' = live \cup {i}
  /\ UNCHANGED table

\* Its creator gives it up.
Discard(i) ==
  /\ i \in spare
  /\ spare' = spare \ {i}
  /\ live' = live \ {i}
  /\ UNCHANGED table

\* Its creator publishes it under a free key.
Publish(k, i) ==
  /\ table[k] = None
  /\ i \in spare
  /\ table' = [table EXCEPT ![k] = i]
  /\ spare' = spare \ {i}
  /\ UNCHANGED live

\* The clients of a set of keys are closed and dropped, in one step.
Retire(K) ==
  /\ table' = [k \in Keys |-> IF k \in K THEN None ELSE table[k]]
  /\ live' = live \ {table[k] : k \in K}
  /\ UNCHANGED spare

RNext ==
  \/ \E i \in Clients : Open(i) \/ Discard(i)
  \/ \E k \in Keys, i \in Clients : Publish(k, i)
  \/ \E K \in SUBSET Keys : Retire(K)

RSpec == RInit /\ [][RNext]_rvars
=============================================================================
