---------------------------- MODULE PubSubStream ----------------------------
(***************************************************************************)
(* Pub/Sub over one "<connection>:<db>" key: the message stream            *)
(* (internal/logic/pubsub/stream_logic.go), Subscribe and Unsubscribe, and *)
(* what ClientManager.Remove does to them (Client.closeStreams).           *)
(*                                                                         *)
(* A client has at most one redis.PubSub, made by whichever of Stream and  *)
(* Subscribe comes first and closed when the stream ends or the client is  *)
(* removed.  A handler holds the *Client it was given, also after that     *)
(* client has left the manager.  A PubSub is live while it is not closed   *)
(* and the client it was made on is open; the message channel of one that  *)
(* is not live is closed.                                                  *)
(***************************************************************************)
CONSTANTS
  Stream,    \* calls of Stream
  Request,   \* goroutines that serve Subscribe and Unsubscribe
  Client,    \* *svc.Client values, one after the other under the key
  PubSub,    \* *redis.PubSub values
  Exact,     \* channel names
  Pattern,   \* names with * or ?
  None       \* nil

ASSUME NilAssumption == None \notin Client /\ None \notin PubSub

VARIABLES
  cached,     \* the client the manager has under the key, or None
  closing,    \* is Remove between closeStreams and Rdb.Close?
  used,       \* clients that have been installed
  pubsub,     \* Client -> Client.PubSub
  active,     \* Client -> Client.PubSubActive
  live,       \* PubSubs that still deliver
  subs,       \* PubSub -> the channels subscribed on the server
  run,        \* Stream -> the locals of the call
  req,        \* Request -> the locals of the handler
  cancelled   \* streams whose context has been cancelled

vars == <<cached, closing, used, pubsub, active, live, subs, run, req, cancelled>>

Channel == Exact \cup Pattern
Run == [at : {"new", "open", "read", "cleanup", "done"}, on : Client \cup {None},
        ps : PubSub \cup {None}]
Req == [at : {"idle", "subscribe", "unsubscribe"}, on : Client \cup {None},
        channels : SUBSET Channel]

At(s, phase) == run[s].at = phase
Unborn == [at |-> "new", on |-> None, ps |-> None]
Finished == [at |-> "done", on |-> None, ps |-> None]
Idle == [at |-> "idle", on |-> None, channels |-> {}]

\* Get answers: the manager's lock is free and the client is in the map.
Serving(c) == c # None /\ cached = c /\ ~closing

\* A PubSub value that nothing refers to.
Free == {p \in PubSub : /\ \A c \in Client : pubsub[c] # p
                        /\ \A s \in Stream : run[s].ps # p}

\* Which of them is allocated does not matter.
Fresh(p) == p \in Free /\ p = CHOOSE q \in Free : TRUE

\* Mutant: a new PubSub is made although there is one.
OpensNew(c, p) == Fresh(p)

\* if c.PubSub == nil { c.PubSub = c.Rdb.Subscribe(...) }
Opens(c, p) == IF pubsub[c] # None THEN p = pubsub[c] ELSE Fresh(p)

\* The state after p has become the PubSub of c; before names what was
\* subscribed on it.
Before(c, p) == IF pubsub[c] = p THEN subs[p] ELSE {}
Make(c, p) ==
  /\ pubsub' = [pubsub EXCEPT ![c] = p]
  /\ live' = IF pubsub[c] # p /\ cached = c THEN live \cup {p} ELSE live

\* Mutant: the PubSub is dropped and not closed.
Drop(c) ==
  /\ pubsub' = [pubsub EXCEPT ![c] = None]
  /\ active' = [active EXCEPT ![c] = FALSE]
  /\ UNCHANGED <<live, subs>>

\* PubSubActive = false; if c.PubSub != nil { Close; nil }
Shut(c) ==
  /\ pubsub' = [pubsub EXCEPT ![c] = None]
  /\ active' = [active EXCEPT ![c] = FALSE]
  /\ live' = live \ {pubsub[c]}
  /\ subs' = [p \in PubSub |-> IF p = pubsub[c] THEN {} ELSE subs[p]]

-----------------------------------------------------------------------------
(* The manager *)

Install(c) ==
  /\ cached = None
  /\ c \notin used
  /\ cached' = c
  /\ used' = used \cup {c}
  /\ UNCHANGED <<closing, pubsub, active, live, subs, run, req, cancelled>>

\* Remove holds the manager's lock throughout, but not PubSubMu: a handler
\* that has the client already may get in between.
RemoveStreams ==
  /\ cached # None
  /\ ~closing
  /\ closing' = TRUE
  /\ Shut(cached)
  /\ UNCHANGED <<cached, used, run, req, cancelled>>

RemoveRdb ==
  /\ closing
  /\ closing' = FALSE
  /\ cached' = None
  /\ live' = live \ {pubsub[cached]}
  /\ UNCHANGED <<used, pubsub, active, subs, run, req, cancelled>>

-----------------------------------------------------------------------------
(* Stream *)

\* The call is over; nobody looks at its context any more.
Return(s) ==
  /\ run' = [run EXCEPT ![s] = Finished]
  /\ cancelled' = cancelled \ {s}

StreamGet(s) ==
  /\ At(s, "new")
  /\ Serving(cached)
  /\ run' = [run EXCEPT ![s] = [@ EXCEPT !.at = "open", !.on = cached]]
  /\ UNCHANGED <<cached, closing, used, pubsub, active, live, subs, req, cancelled>>

\* 33-36: somebody's stream is open already.
StreamRefused(s) ==
  /\ At(s, "open")
  /\ active[run[s].on]
  /\ Return(s)
  /\ UNCHANGED <<cached, closing, used, pubsub, active, live, subs, req>>

\* 32-42, one critical section.
StreamOpen(s) ==
  LET c == run[s].on IN
  /\ At(s, "open")
  /\ ~active[c]
  /\ \E p \in PubSub :
       /\ Opens(c, p)
       /\ Make(c, p)
       /\ subs' = [subs EXCEPT ![p] = Before(c, p)]
       /\ run' = [run EXCEPT ![s] = [@ EXCEPT !.at = "read", !.ps = p]]
  /\ active' = [active EXCEPT ![c] = TRUE]
  /\ UNCHANGED <<cached, closing, used, req, cancelled>>

\* Mutant: the loop looks at the channel only.
StreamEndsByChannel(s) ==
  /\ At(s, "read")
  /\ run[s].ps \notin live
  /\ run' = [run EXCEPT ![s] = [@ EXCEPT !.at = "cleanup", !.ps = None]]
  /\ UNCHANGED <<cached, closing, used, pubsub, active, live, subs, req, cancelled>>

\* 54-61: the context is done, or the channel is closed.
StreamEnds(s) ==
  /\ At(s, "read")
  /\ s \in cancelled \/ run[s].ps \notin live
  /\ run' = [run EXCEPT ![s] = [@ EXCEPT !.at = "cleanup", !.ps = None]]
  /\ UNCHANGED <<cached, closing, used, pubsub, active, live, subs, req, cancelled>>

\* 62-69: a message cannot be sent.
StreamBreaks(s) ==
  /\ At(s, "read")
  /\ s \notin cancelled /\ run[s].ps \in live
  /\ run' = [run EXCEPT ![s] = [@ EXCEPT !.at = "cleanup", !.ps = None]]
  /\ UNCHANGED <<cached, closing, used, pubsub, active, live, subs, req, cancelled>>

\* Mutant: PubSubActive is left set.
StreamCleanupKeepsActive(s) ==
  LET c == run[s].on IN
  /\ At(s, "cleanup")
  /\ pubsub' = [pubsub EXCEPT ![c] = None]
  /\ live' = live \ {pubsub[c]}
  /\ Return(s)
  /\ UNCHANGED <<cached, closing, used, active, subs, req>>

\* 44-52, deferred: whatever PubSub the client holds by now is closed.
StreamCleanup(s) ==
  /\ At(s, "cleanup")
  /\ Shut(run[s].on)
  /\ Return(s)
  /\ UNCHANGED <<cached, closing, used, req>>

\* pubsub.api.tsx 41-44: the view goes away or shows another database.
ViewCancels(s) ==
  /\ run[s].at \notin {"new", "done"}
  /\ s \notin cancelled
  /\ cancelled' = cancelled \cup {s}
  /\ UNCHANGED <<cached, closing, used, pubsub, active, live, subs, run, req>>

-----------------------------------------------------------------------------
(* Subscribe and Unsubscribe *)

RequestGet(q, kind, K) ==
  /\ req[q].at = "idle"
  /\ Serving(cached)
  /\ req' = [req EXCEPT ![q] = [at |-> kind, on |-> cached, channels |-> K]]
  /\ UNCHANGED <<cached, closing, used, pubsub, active, live, subs, run, cancelled>>

\* Exact names first, then patterns; a failure ends the request, and leaves
\* some of the names of the failed command in force or none.
Subscribed(K, new) ==
  \/ new = K
  \/ new \subseteq K /\ (K \cap Exact \subseteq new \/ new \cap Pattern = {})

Subscribe(q) ==
  LET c == req[q].on IN
  /\ req[q].at = "subscribe"
  /\ \E p \in PubSub, new \in SUBSET req[q].channels :
       /\ Opens(c, p)
       /\ Make(c, p)
       /\ Subscribed(req[q].channels, new)
       /\ subs' = [subs EXCEPT ![p] = Before(c, p) \cup new]
  /\ req' = [req EXCEPT ![q] = Idle]
  /\ UNCHANGED <<cached, closing, used, active, run, cancelled>>

\* No names: everything.  The command may fail, for some of the names.
Unsubscribe(q) ==
  LET c == req[q].on
      K == IF req[q].channels = {} THEN Channel ELSE req[q].channels IN
  /\ req[q].at = "unsubscribe"
  /\ IF pubsub[c] = None
       THEN UNCHANGED subs
       ELSE \E gone \in SUBSET K :
              subs' = [subs EXCEPT ![pubsub[c]] = @ \ gone]
  /\ req' = [req EXCEPT ![q] = Idle]
  /\ UNCHANGED <<cached, closing, used, pubsub, active, live, run, cancelled>>

-----------------------------------------------------------------------------
Init ==
  /\ cached = None
  /\ closing = FALSE
  /\ used = {}
  /\ pubsub = [c \in Client |-> None]
  /\ active = [c \in Client |-> FALSE]
  /\ live = {}
  /\ subs = [p \in PubSub |-> {}]
  /\ run = [s \in Stream |-> Unborn]
  /\ req = [q \in Request |-> Idle]
  /\ cancelled = {}

Advance(s) == StreamRefused(s) \/ StreamOpen(s) \/ StreamEnds(s) \/ StreamCleanup(s)

Next ==
  \/ \E c \in Client : Install(c)
  \/ RemoveStreams \/ RemoveRdb
  \/ \E s \in Stream : StreamGet(s) \/ Advance(s) \/ StreamBreaks(s) \/ ViewCancels(s)
  \/ \E q \in Request, K \in SUBSET Channel :
       RequestGet(q, "subscribe", K) \/ RequestGet(q, "unsubscribe", K)
  \/ \E q \in Request : Subscribe(q) \/ Unsubscribe(q)

Spec == Init /\ [][Next]_vars

\* Goroutines keep running; nobody has to call, cancel or disconnect.
FairSpec == Spec /\ WF_vars(RemoveRdb) /\ \A s \in Stream : WF_vars(Advance(s))

-----------------------------------------------------------------------------
(* Properties *)

TypeOK ==
  /\ cached \in Client \cup {None}
  /\ closing \in BOOLEAN
  /\ closing => cached # None
  /\ used \in SUBSET Client
  /\ pubsub \in [Client -> PubSub \cup {None}]
  /\ active \in [Client -> BOOLEAN]
  /\ live \in SUBSET PubSub
  /\ subs \in [PubSub -> SUBSET Channel]
  /\ run \in [Stream -> Run]
  /\ req \in [Request -> Req]
  /\ cancelled \in SUBSET Stream

Holds(s, c) == run[s].at \in {"read", "cleanup"} /\ run[s].on = c

\* A stream that reads on the client in service reads the very PubSub that
\* Subscribe and Unsubscribe act on, and that one is live: no cleanup and no
\* second stream takes it away (stream_logic.go 32-52, subscribe_logic.go
\* 34-36).
HearsItsClient ==
  \A c \in Client, s \in Stream : Serving(c) /\ At(s, "read") /\ run[s].on = c =>
    run[s].ps = pubsub[c] /\ pubsub[c] \in live

\* A client in service is marked as streaming exactly while one stream holds
\* it, so that a later stream is neither let in beside it nor locked out for
\* good (stream_logic.go 33-41, 45-46).
OneStream ==
  \A c \in Client : Serving(c) =>
    /\ active[c] <=> \E s \in Stream : Holds(s, c)
    /\ \A s, t \in Stream : Holds(s, c) /\ Holds(t, c) => s = t

\* A PubSub that is not closed can still be closed by whoever removes the
\* client: nothing is left on the server after Disconnect (client.go 45-50).
NoLeak == \A p \in live : \E c \in Client : cached = c /\ pubsub[c] = p

\* The names in force on a client.
InForce(c) == IF pubsub[c] = None THEN {} ELSE subs[pubsub[c]]

\* What is subscribed stays subscribed until an Unsubscribe, the end of the
\* stream or Disconnect: opening a stream keeps the subscriptions made before
\* it (stream_logic.go 37-39).
KeepsSubscriptions ==
  [][\A c \in Client : Serving(c) /\ Serving(c)' =>
       \/ InForce(c) \subseteq InForce(c)'
       \/ \E q \in Request : Unsubscribe(q)
       \/ \E s \in Stream : StreamCleanup(s) /\ run[s].on = c]_vars

\* A stream that is cancelled, or whose client is removed, ends.
Doomed(s) == At(s, "read") /\ (s \in cancelled \/ ~Serving(run[s].on))
StreamsEnd == \A s \in Stream : Doomed(s) ~> At(s, "done")

\* The inductive invariant: besides the properties, no two clients share a
\* PubSub, a PubSub of the client in service is live, and whoever holds a
\* client holds one that has been installed.
Unshared == \A c, d \in Client : pubsub[c] # None /\ pubsub[c] = pubsub[d] => c = d
ServedLive == \A c \in Client : Serving(c) /\ pubsub[c] # None => pubsub[c] \in live
OnlyUsed ==
  /\ cached # None => cached \in used
  /\ \A c \in Client \ used : pubsub[c] = None /\ ~active[c]
  /\ \A s \in Stream : run[s].at \notin {"new", "done"} => run[s].on \in used
  /\ \A q \in Request : req[q].at # "idle" => req[q].on \in used
IInv ==
  /\ TypeOK
  /\ HearsItsClient /\ OneStream /\ NoLeak
  /\ Unshared /\ ServedLive /\ OnlyUsed
=============================================================================
