------------------------- MODULE PubSubStreamProofs -------------------------
(***************************************************************************)
(* Proofs about PubSubStream, for any number of streams, requests, clients *)
(* and channels.                                                           *)
(*                                                                         *)
(* A PubSub changes in two ways only: a client that has none gets a fresh  *)
(* one (Make), or the one it has is closed and dropped (Shut).  The stream *)
(* in service holds its client from StreamOpen to StreamCleanup, and       *)
(* PubSubActive keeps a second one out for exactly that long.              *)
(***************************************************************************)
EXTENDS PubSubStream, TLAPS

LEMMA InitIInv == Init => IInv
<1>. SUFFICES ASSUME Init PROVE IInv
  OBVIOUS
<1>1. TypeOK
  BY DEF Init, TypeOK, Run, Req, Unborn, Idle
<1>2. \A c \in Client : ~Serving(c)
  BY NilAssumption DEF Init, Serving
<1>3. HearsItsClient /\ OneStream /\ ServedLive
  BY <1>2 DEF HearsItsClient, OneStream, ServedLive
<1>4. NoLeak /\ Unshared
  BY DEF Init, NoLeak, Unshared
<1>5. OnlyUsed
  BY DEF Init, OnlyUsed, Unborn, Idle
<1>. QED
  BY <1>1, <1>3, <1>4, <1>5 DEF IInv

-----------------------------------------------------------------------------
(* Types *)

\* A PubSub that is opened is a PubSub, and the fields stay typed.
LEMMA MakeType ==
  ASSUME TypeOK, NEW c \in Client, NEW p \in PubSub, Make(c, p)
  PROVE  /\ pubsub' \in [Client -> PubSub \cup {None}]
         /\ live' \in SUBSET PubSub
         /\ Before(c, p) \in SUBSET Channel
BY DEF TypeOK, Make, Before

LEMMA ShutType ==
  ASSUME TypeOK, NEW c \in Client, Shut(c)
  PROVE  /\ pubsub' \in [Client -> PubSub \cup {None}]
         /\ active' \in [Client -> BOOLEAN]
         /\ live' \in SUBSET PubSub
         /\ subs' \in [PubSub -> SUBSET Channel]
BY DEF TypeOK, Shut

\* The locals of one stream change.
LEMMA ReturnType ==
  ASSUME TypeOK, NEW s \in Stream, Return(s)
  PROVE  /\ run' \in [Stream -> Run]
         /\ cancelled' \in SUBSET Stream
         /\ run'[s].at = "done"
         /\ \A t \in Stream \ {s} : run'[t] = run[t]
BY DEF TypeOK, Return, Finished, Run

LEMMA EndType ==
  ASSUME TypeOK, NEW s \in Stream,
         run' = [run EXCEPT ![s] = [@ EXCEPT !.at = "cleanup", !.ps = None]]
  PROVE  /\ run' \in [Stream -> Run]
         /\ run'[s].at = "cleanup" /\ run'[s].on = run[s].on
         /\ \A t \in Stream \ {s} : run'[t] = run[t]
BY DEF TypeOK, Run

\* A step that leaves the manager and all fields of the clients alone, and
\* only lets streams and requests move without taking or leaving a client.
LEMMA QuietStep ==
  ASSUME IInv, TypeOK',
         UNCHANGED <<cached, closing, used, pubsub, active, live>>,
         \A s \in Stream, c \in Client : Holds(s, c)' <=> Holds(s, c),
         \A s \in Stream : At(s, "read")' => At(s, "read") /\ run'[s] = run[s],
         \A s \in Stream : run'[s].at \notin {"new", "done"} => run'[s].on \in used,
         \A q \in Request : req'[q].at # "idle" => req'[q].on \in used
  PROVE  IInv'
<1>1. HearsItsClient'
  BY DEF IInv, HearsItsClient, Serving, At
<1>2. OneStream'
  BY DEF IInv, OneStream, Serving
<1>3. NoLeak' /\ Unshared' /\ ServedLive' /\ OnlyUsed'
  BY DEF IInv, NoLeak, Unshared, ServedLive, OnlyUsed, Serving
<1>. QED
  BY <1>1, <1>2, <1>3 DEF IInv

-----------------------------------------------------------------------------
(* The manager *)

LEMMA InstallStep == ASSUME IInv, NEW c \in Client, Install(c) PROVE IInv'
<1>1. cached = None /\ c \notin used /\ cached' = c /\ used' = used \cup {c} /\ ~closing
  BY DEF IInv, TypeOK, Install
<1>2. UNCHANGED <<closing, pubsub, active, live, subs, run, req, cancelled>>
  BY DEF Install
<1>3. TypeOK'
  BY <1>1, <1>2, NilAssumption DEF IInv, TypeOK
<1>4. live = {}
  BY <1>1, NilAssumption DEF IInv, NoLeak
<1>5. pubsub[c] = None /\ ~active[c]
  BY <1>1 DEF IInv, OnlyUsed
<1>6. \A s \in Stream : ~Holds(s, c)
  BY <1>1 DEF IInv, OnlyUsed, Holds
<1>7. \A d \in Client : Serving(d)' => d = c
  BY <1>1 DEF Serving
<1>8. HearsItsClient' /\ OneStream'
  BY <1>2, <1>5, <1>6, <1>7 DEF HearsItsClient, OneStream, Holds, At
<1>9. NoLeak' /\ Unshared' /\ ServedLive' /\ OnlyUsed'
  BY <1>1, <1>2, <1>4, <1>5, <1>7 DEF IInv, NoLeak, Unshared, ServedLive, OnlyUsed
<1>. QED
  BY <1>3, <1>8, <1>9 DEF IInv

\* Only the client in the manager has a live PubSub.
LEMMA OneLive == ASSUME IInv, cached # None PROVE live \subseteq {pubsub[cached]}
BY DEF IInv, NoLeak

LEMMA RemoveStreamsStep == ASSUME IInv, RemoveStreams PROVE IInv'
<1>1. cached \in Client /\ closing' = TRUE /\ Shut(cached)
  BY DEF IInv, TypeOK, RemoveStreams
<1>2. UNCHANGED <<cached, used, run, req, cancelled>>
  BY DEF RemoveStreams
<1>3. TypeOK'
  BY <1>1, <1>2, ShutType, NilAssumption DEF IInv, TypeOK
<1>4. live' = {}
  BY <1>1, OneLive, NilAssumption DEF Shut
<1>5. \A d \in Client : ~Serving(d)'
  BY <1>1 DEF Serving
<1>6. \A d \in Client : pubsub'[d] \in {None, pubsub[d]} /\ (active'[d] => active[d])
  BY <1>1 DEF Shut, IInv, TypeOK
<1>7. HearsItsClient' /\ OneStream' /\ NoLeak' /\ ServedLive'
  BY <1>4, <1>5 DEF HearsItsClient, OneStream, NoLeak, ServedLive
<1>8. Unshared' /\ OnlyUsed'
  BY <1>2, <1>6 DEF IInv, Unshared, OnlyUsed
<1>. QED
  BY <1>3, <1>7, <1>8 DEF IInv

LEMMA RemoveRdbStep == ASSUME IInv, RemoveRdb PROVE IInv'
<1>1. cached # None /\ cached' = None /\ closing' = FALSE /\ live' = {}
  BY OneLive DEF IInv, TypeOK, RemoveRdb
<1>2. UNCHANGED <<used, pubsub, active, subs, run, req, cancelled>>
  BY DEF RemoveRdb
<1>3. \A d \in Client : ~Serving(d)'
  BY <1>1, NilAssumption DEF Serving
<1>4. TypeOK'
  BY <1>1, <1>2 DEF IInv, TypeOK
<1>5. HearsItsClient' /\ OneStream' /\ NoLeak' /\ ServedLive'
  BY <1>1, <1>3 DEF HearsItsClient, OneStream, NoLeak, ServedLive
<1>6. Unshared' /\ OnlyUsed'
  BY <1>1, <1>2 DEF IInv, Unshared, OnlyUsed
<1>. QED
  BY <1>4, <1>5, <1>6 DEF IInv

-----------------------------------------------------------------------------
(* Opening and closing a PubSub *)

\* What making p the PubSub of a client in use does to the parts of the
\* invariant that are about PubSubs alone.
LEMMA MakeStep ==
  ASSUME IInv, NEW c \in Client, c \in used, NEW p \in PubSub, Opens(c, p), Make(c, p),
         UNCHANGED <<cached, closing, used>>
  PROVE  /\ NoLeak' /\ Unshared' /\ ServedLive'
         /\ pubsub'[c] = p
         /\ \A d \in Client \ {c} : pubsub'[d] = pubsub[d]
         /\ pubsub[c] # None => pubsub'[c] = pubsub[c]
         /\ live \subseteq live'
         /\ Serving(c) => p \in live'
<1>1. pubsub'[c] = p /\ \A d \in Client \ {c} : pubsub'[d] = pubsub[d]
  BY DEF Make, IInv, TypeOK
<1>2. \/ pubsub[c] = p /\ live' = live
      \/ /\ pubsub[c] = None
         /\ \A d \in Client : pubsub[d] # p
         /\ live' = IF cached = c THEN live \cup {p} ELSE live
  BY NilAssumption DEF Opens, Fresh, Free, Make
<1>3. p # None
  BY NilAssumption
<1>4. Serving(c) => p \in live'
  BY <1>2, <1>3 DEF Serving, IInv, ServedLive
<1>5. Unshared'
  BY <1>1, <1>2 DEF IInv, Unshared
<1>6. ServedLive'
  BY <1>1, <1>2, <1>4 DEF IInv, ServedLive, Serving
<1>7. NoLeak'
  <2>. SUFFICES ASSUME NEW r \in live' PROVE \E d \in Client : cached = d /\ pubsub'[d] = r
    BY DEF NoLeak
  <2>1. CASE r \in live
    <3>1. PICK d \in Client : cached = d /\ pubsub[d] = r
      BY <2>1 DEF IInv, NoLeak
    <3>2. r # None
      BY <2>1, NilAssumption DEF IInv, TypeOK
    <3>3. pubsub'[d] = r
      BY <3>1, <3>2, <1>1, <1>2
    <3>. QED
      BY <3>1, <3>3
  <2>2. CASE r \notin live
    BY <2>2, <1>1, <1>2
  <2>. QED
    BY <2>1, <2>2
<1>. QED
  BY <1>1, <1>2, <1>4, <1>5, <1>6, <1>7

LEMMA StreamOpenStep == ASSUME IInv, NEW s \in Stream, StreamOpen(s) PROVE IInv'
<1>. DEFINE c == run[s].on
<1>1. run[s].at = "open" /\ c \in used /\ c \in Client /\ ~active[c] /\ run[s] \in Run
  BY DEF StreamOpen, At, IInv, OnlyUsed, TypeOK
<1>2. PICK p \in PubSub :
        /\ Opens(c, p) /\ Make(c, p)
        /\ subs' = [subs EXCEPT ![p] = Before(c, p)]
        /\ run' = [run EXCEPT ![s] = [@ EXCEPT !.at = "read", !.ps = p]]
  BY DEF StreamOpen
<1>3. UNCHANGED <<cached, closing, used, req, cancelled>> /\ active' = [active EXCEPT ![c] = TRUE]
  BY DEF StreamOpen
<1>4. /\ run'[s].at = "read" /\ run'[s].on = c /\ run'[s].ps = p
      /\ \A t \in Stream \ {s} : run'[t] = run[t]
      /\ run' \in [Stream -> Run]
  BY <1>1, <1>2 DEF IInv, TypeOK, Run
<1>5. /\ active'[c] = TRUE
      /\ \A d \in Client \ {c} : active'[d] = active[d]
      /\ active' \in [Client -> BOOLEAN]
  BY <1>1, <1>3 DEF IInv, TypeOK
<1>6. TypeOK'
  <2>1. TypeOK
    BY DEF IInv
  <2>2. /\ pubsub' \in [Client -> PubSub \cup {None}]
        /\ live' \in SUBSET PubSub
        /\ Before(c, p) \in SUBSET Channel
    BY <1>1, <1>2, <2>1, MakeType
  <2>3. subs' \in [PubSub -> SUBSET Channel]
    BY <1>2, <2>1, <2>2 DEF TypeOK
  <2>. QED
    BY <1>3, <1>4, <1>5, <2>1, <2>2, <2>3 DEF TypeOK
<1>7. /\ NoLeak' /\ Unshared' /\ ServedLive'
      /\ pubsub'[c] = p
      /\ \A d \in Client \ {c} : pubsub'[d] = pubsub[d]
      /\ live \subseteq live'
      /\ Serving(c) => p \in live'
  BY <1>1, <1>2, <1>3, MakeStep
<1>8. Serving(c) => \A t \in Stream : ~Holds(t, c)
  BY <1>1 DEF IInv, OneStream
<1>9. \A t \in Stream, d \in Client : Holds(t, d)' <=> Holds(t, d) \/ (t = s /\ d = c)
  BY <1>1, <1>4 DEF Holds
<1>10. \A d \in Client : Serving(d)' <=> Serving(d)
  BY <1>3 DEF Serving
<1>11. HearsItsClient'
  <2>. SUFFICES ASSUME NEW d \in Client, NEW t \in Stream, Serving(d),
                       run'[t].at = "read", run'[t].on = d
                PROVE  run'[t].ps = pubsub'[d] /\ pubsub'[d] \in live'
    BY <1>10 DEF HearsItsClient, At
  <2>1. CASE t = s
    BY <2>1, <1>4, <1>7
  <2>2. CASE t # s
    <3>1. run[t].at = "read" /\ run[t].on = d /\ run'[t].ps = run[t].ps
      BY <2>2, <1>4
    <3>2. d # c
      BY <3>1, <1>8 DEF Holds
    <3>. QED
      BY <3>1, <3>2, <1>7 DEF IInv, HearsItsClient, At
  <2>. QED
    BY <2>1, <2>2
<1>12. OneStream'
  BY <1>1, <1>5, <1>8, <1>9, <1>10 DEF IInv, OneStream
<1>13. OnlyUsed'
  BY <1>1, <1>3, <1>4, <1>5, <1>7 DEF IInv, OnlyUsed
<1>. QED
  BY <1>6, <1>7, <1>11, <1>12, <1>13 DEF IInv

LEMMA StreamCleanupStep == ASSUME IInv, NEW s \in Stream, StreamCleanup(s) PROVE IInv'
<1>. DEFINE c == run[s].on
<1>1. run[s].at = "cleanup" /\ c \in Client /\ Shut(c) /\ Return(s)
  BY DEF StreamCleanup, At, IInv, OnlyUsed, TypeOK
<1>2. UNCHANGED <<cached, closing, used, req>>
  BY DEF StreamCleanup
<1>3. /\ run' \in [Stream -> Run]
      /\ cancelled' \in SUBSET Stream
      /\ run'[s].at = "done"
      /\ \A t \in Stream \ {s} : run'[t] = run[t]
  BY <1>1, ReturnType DEF IInv
<1>4. TypeOK'
  BY <1>1, <1>2, <1>3, ShutType DEF IInv, TypeOK
<1>5. /\ pubsub'[c] = None /\ ~active'[c] /\ live' = live \ {pubsub[c]}
      /\ \A d \in Client \ {c} : pubsub'[d] = pubsub[d] /\ active'[d] = active[d]
  BY <1>1 DEF Shut, IInv, TypeOK
<1>6. \A d \in Client : Serving(d)' <=> Serving(d)
  BY <1>2 DEF Serving
<1>7. \A t \in Stream, d \in Client : Holds(t, d)' <=> Holds(t, d) /\ t # s
  BY <1>1, <1>3 DEF Holds
<1>8. Serving(c) => \A t \in Stream : Holds(t, c) => t = s
  BY <1>1 DEF IInv, OneStream, Holds
<1>9. \A d \in Client \ {c} : pubsub[d] \in live => pubsub[d] \in live'
  BY <1>1, <1>5, NilAssumption DEF IInv, Unshared, TypeOK
<1>10. HearsItsClient'
  <2>. SUFFICES ASSUME NEW d \in Client, NEW t \in Stream, Serving(d),
                       run'[t].at = "read", run'[t].on = d
                PROVE  run'[t].ps = pubsub'[d] /\ pubsub'[d] \in live'
    BY <1>6 DEF HearsItsClient, At
  <2>1. t # s /\ run'[t] = run[t]
    BY <1>3
  <2>2. d # c
    BY <2>1, <1>8 DEF Holds
  <2>. QED
    BY <2>1, <2>2, <1>5, <1>9 DEF IInv, HearsItsClient, At
<1>11. OneStream'
  <2>. SUFFICES ASSUME NEW d \in Client, Serving(d)
                PROVE  /\ active'[d] <=> \E t \in Stream : Holds(t, d)'
                       /\ \A t, u \in Stream : Holds(t, d)' /\ Holds(u, d)' => t = u
    BY <1>6 DEF OneStream
  <2>1. CASE d = c
    BY <2>1, <1>5, <1>7, <1>8
  <2>2. CASE d # c
    <3>1. ~Holds(s, d)
      BY <2>2 DEF Holds
    <3>. QED
      BY <2>2, <3>1, <1>5, <1>7 DEF IInv, OneStream
  <2>. QED
    BY <2>1, <2>2
<1>12. NoLeak'
  <2>. SUFFICES ASSUME NEW r \in live' PROVE \E d \in Client : cached = d /\ pubsub'[d] = r
    BY <1>2 DEF NoLeak
  <2>1. PICK d \in Client : cached = d /\ pubsub[d] = r
    BY <1>5 DEF IInv, NoLeak
  <2>2. d # c
    BY <2>1, <1>5
  <2>. QED
    BY <2>1, <2>2, <1>5
<1>13. Unshared' /\ ServedLive'
  BY <1>5, <1>6, <1>9 DEF IInv, Unshared, ServedLive
<1>14. OnlyUsed'
  BY <1>2, <1>3, <1>5 DEF IInv, OnlyUsed
<1>. QED
  BY <1>4, <1>10, <1>11, <1>12, <1>13, <1>14 DEF IInv

LEMMA SubscribeStep == ASSUME IInv, NEW q \in Request, Subscribe(q) PROVE IInv'
<1>. DEFINE c == req[q].on
<1>1. req[q].at = "subscribe" /\ c \in used /\ c \in Client /\ req[q] \in Req
  BY DEF Subscribe, IInv, OnlyUsed, TypeOK
<1>2. PICK p \in PubSub, new \in SUBSET req[q].channels :
        /\ Opens(c, p) /\ Make(c, p)
        /\ subs' = [subs EXCEPT ![p] = Before(c, p) \cup new]
  BY DEF Subscribe
<1>3. UNCHANGED <<cached, closing, used, active, run, cancelled>>
  BY DEF Subscribe
<1>4. /\ req' \in [Request -> Req]
      /\ req'[q].at = "idle"
      /\ \A r \in Request \ {q} : req'[r] = req[r]
  BY DEF Subscribe, IInv, TypeOK, Req, Idle
<1>5. TypeOK'
  <2>1. TypeOK
    BY DEF IInv
  <2>2. /\ pubsub' \in [Client -> PubSub \cup {None}]
        /\ live' \in SUBSET PubSub
        /\ Before(c, p) \in SUBSET Channel
    BY <1>1, <1>2, <2>1, MakeType
  <2>3. new \in SUBSET Channel
    BY <1>1, <1>2 DEF Req
  <2>4. subs' \in [PubSub -> SUBSET Channel]
    BY <1>2, <2>1, <2>2, <2>3 DEF TypeOK
  <2>. QED
    BY <1>3, <1>4, <2>1, <2>2, <2>4 DEF TypeOK
<1>6. /\ NoLeak' /\ Unshared' /\ ServedLive'
      /\ pubsub'[c] = p
      /\ \A d \in Client \ {c} : pubsub'[d] = pubsub[d]
      /\ pubsub[c] # None => pubsub'[c] = pubsub[c]
      /\ live \subseteq live'
  BY <1>1, <1>2, <1>3, MakeStep
<1>7. \A d \in Client : Serving(d)' <=> Serving(d)
  BY <1>3 DEF Serving
<1>8. HearsItsClient'
  <2>. SUFFICES ASSUME NEW d \in Client, NEW t \in Stream, Serving(d), At(t, "read"),
                       run[t].on = d
                PROVE  run[t].ps = pubsub'[d] /\ pubsub'[d] \in live'
    BY <1>3, <1>7 DEF HearsItsClient, At
  <2>1. run[t].ps = pubsub[d] /\ pubsub[d] \in live
    BY DEF IInv, HearsItsClient
  <2>2. pubsub[d] # None
    BY <2>1, NilAssumption DEF IInv, TypeOK
  <2>. QED
    BY <2>1, <2>2, <1>6
<1>9. OneStream'
  BY <1>3, <1>7 DEF IInv, OneStream, Holds
<1>10. OnlyUsed'
  BY <1>1, <1>3, <1>4, <1>6 DEF IInv, OnlyUsed
<1>. QED
  BY <1>5, <1>6, <1>8, <1>9, <1>10 DEF IInv

-----------------------------------------------------------------------------
(* The steps that leave the PubSubs alone *)

LEMMA StreamGetStep == ASSUME IInv, NEW s \in Stream, StreamGet(s) PROVE IInv'
<1>1. run[s].at = "new" /\ cached \in Client /\ cached \in used
  BY DEF StreamGet, At, Serving, IInv, TypeOK, OnlyUsed
<1>2. /\ run' \in [Stream -> Run]
      /\ run'[s].at = "open" /\ run'[s].on = cached
      /\ \A t \in Stream \ {s} : run'[t] = run[t]
  BY <1>1 DEF StreamGet, IInv, TypeOK, Run
<1>3. UNCHANGED <<cached, closing, used, pubsub, active, live, subs, req, cancelled>>
  BY DEF StreamGet
<1>4. TypeOK'
  BY <1>2, <1>3 DEF IInv, TypeOK
<1>5. \A t \in Stream, c \in Client : Holds(t, c)' <=> Holds(t, c)
  BY <1>1, <1>2 DEF Holds
<1>6. \A t \in Stream : At(t, "read")' => At(t, "read") /\ run'[t] = run[t]
  BY <1>2 DEF At
<1>7. \A t \in Stream : run'[t].at \notin {"new", "done"} => run'[t].on \in used
  BY <1>1, <1>2 DEF IInv, OnlyUsed
<1>8. \A q \in Request : req'[q].at # "idle" => req'[q].on \in used
  BY <1>3 DEF IInv, OnlyUsed
<1>. QED
  BY <1>3, <1>4, <1>5, <1>6, <1>7, <1>8, QuietStep

LEMMA StreamRefusedStep == ASSUME IInv, NEW s \in Stream, StreamRefused(s) PROVE IInv'
<1>1. run[s].at = "open" /\ Return(s)
  BY DEF StreamRefused, At
<1>2. /\ run' \in [Stream -> Run]
      /\ cancelled' \in SUBSET Stream
      /\ run'[s].at = "done"
      /\ \A t \in Stream \ {s} : run'[t] = run[t]
  BY <1>1, ReturnType DEF IInv
<1>3. UNCHANGED <<cached, closing, used, pubsub, active, live, subs, req>>
  BY DEF StreamRefused
<1>4. TypeOK'
  BY <1>2, <1>3 DEF IInv, TypeOK
<1>5. \A t \in Stream, c \in Client : Holds(t, c)' <=> Holds(t, c)
  BY <1>1, <1>2 DEF Holds
<1>6. \A t \in Stream : At(t, "read")' => At(t, "read") /\ run'[t] = run[t]
  BY <1>2 DEF At
<1>7. \A t \in Stream : run'[t].at \notin {"new", "done"} => run'[t].on \in used
  BY <1>2 DEF IInv, OnlyUsed
<1>8. \A q \in Request : req'[q].at # "idle" => req'[q].on \in used
  BY <1>3 DEF IInv, OnlyUsed
<1>. QED
  BY <1>3, <1>4, <1>5, <1>6, <1>7, <1>8, QuietStep

LEMMA StreamEndsStep ==
  ASSUME IInv, NEW s \in Stream, StreamEnds(s) \/ StreamBreaks(s)
  PROVE  IInv'
<1>1. run[s].at = "read"
  BY DEF StreamEnds, StreamBreaks, At
<1>2. /\ run' \in [Stream -> Run]
      /\ run'[s].at = "cleanup" /\ run'[s].on = run[s].on
      /\ \A t \in Stream \ {s} : run'[t] = run[t]
  BY EndType DEF IInv, StreamEnds, StreamBreaks
<1>3. UNCHANGED <<cached, closing, used, pubsub, active, live, subs, req, cancelled>>
  BY DEF StreamEnds, StreamBreaks
<1>4. TypeOK'
  BY <1>2, <1>3 DEF IInv, TypeOK
<1>5. \A t \in Stream, c \in Client : Holds(t, c)' <=> Holds(t, c)
  BY <1>1, <1>2 DEF Holds
<1>6. \A t \in Stream : At(t, "read")' => At(t, "read") /\ run'[t] = run[t]
  BY <1>2 DEF At
<1>7. \A t \in Stream : run'[t].at \notin {"new", "done"} => run'[t].on \in used
  BY <1>1, <1>2 DEF IInv, OnlyUsed
<1>8. \A q \in Request : req'[q].at # "idle" => req'[q].on \in used
  BY <1>3 DEF IInv, OnlyUsed
<1>. QED
  BY <1>3, <1>4, <1>5, <1>6, <1>7, <1>8, QuietStep

\* Steps that move no stream.
LEMMA RequestStep ==
  ASSUME IInv, TypeOK', UNCHANGED <<cached, closing, used, pubsub, active, live, run>>,
         \A q \in Request : req'[q].at # "idle" => req'[q].on \in used
  PROVE  IInv'
<1>1. \A t \in Stream, c \in Client : Holds(t, c)' <=> Holds(t, c)
  BY DEF Holds
<1>2. \A t \in Stream : At(t, "read")' => At(t, "read") /\ run'[t] = run[t]
  BY DEF At
<1>3. \A t \in Stream : run'[t].at \notin {"new", "done"} => run'[t].on \in used
  BY DEF IInv, OnlyUsed
<1>. QED
  BY <1>1, <1>2, <1>3, QuietStep

LEMMA RequestGetStep ==
  ASSUME IInv, NEW q \in Request, NEW kind \in {"subscribe", "unsubscribe"},
         NEW K \in SUBSET Channel, RequestGet(q, kind, K)
  PROVE  IInv'
<1>1. cached \in Client /\ cached \in used
  BY DEF RequestGet, Serving, IInv, TypeOK, OnlyUsed
<1>2. /\ req' \in [Request -> Req]
      /\ req'[q].on = cached
      /\ \A r \in Request \ {q} : req'[r] = req[r]
  BY <1>1 DEF RequestGet, IInv, TypeOK, Req
<1>3. UNCHANGED <<cached, closing, used, pubsub, active, live, subs, run, cancelled>>
  BY DEF RequestGet
<1>4. TypeOK'
  BY <1>2, <1>3 DEF IInv, TypeOK
<1>5. \A r \in Request : req'[r].at # "idle" => req'[r].on \in used
  BY <1>1, <1>2 DEF IInv, OnlyUsed
<1>. QED
  BY <1>3, <1>4, <1>5, RequestStep

LEMMA UnsubscribeStep == ASSUME IInv, NEW q \in Request, Unsubscribe(q) PROVE IInv'
<1>1. /\ req' \in [Request -> Req]
      /\ req'[q].at = "idle"
      /\ \A r \in Request \ {q} : req'[r] = req[r]
  BY DEF Unsubscribe, IInv, TypeOK, Req, Idle
<1>2. UNCHANGED <<cached, closing, used, pubsub, active, live, run, cancelled>>
  BY DEF Unsubscribe
<1>3. subs' \in [PubSub -> SUBSET Channel]
  <2>1. CASE pubsub[req[q].on] = None
    BY <2>1 DEF Unsubscribe, IInv, TypeOK
  <2>2. CASE pubsub[req[q].on] # None
    BY <2>2 DEF Unsubscribe, IInv, TypeOK
  <2>. QED
    BY <2>1, <2>2
<1>4. TypeOK'
  BY <1>1, <1>2, <1>3 DEF IInv, TypeOK
<1>5. \A r \in Request : req'[r].at # "idle" => req'[r].on \in used
  BY <1>1 DEF IInv, OnlyUsed
<1>. QED
  BY <1>2, <1>4, <1>5, RequestStep

LEMMA ViewCancelsStep == ASSUME IInv, NEW s \in Stream, ViewCancels(s) PROVE IInv'
<1>1. UNCHANGED <<cached, closing, used, pubsub, active, live, subs, run, req>>
      /\ cancelled' \in SUBSET Stream
  BY DEF ViewCancels, IInv, TypeOK
<1>2. TypeOK'
  BY <1>1 DEF IInv, TypeOK
<1>3. \A q \in Request : req'[q].at # "idle" => req'[q].on \in used
  BY <1>1 DEF IInv, OnlyUsed
<1>. QED
  BY <1>1, <1>2, <1>3, RequestStep

LEMMA StutterStep == ASSUME IInv, UNCHANGED vars PROVE IInv'
<1>1. TypeOK' /\ \A q \in Request : req'[q].at # "idle" => req'[q].on \in used
  BY DEF vars, IInv, TypeOK, OnlyUsed
<1>. QED
  BY <1>1, RequestStep DEF vars

LEMMA Step == IInv /\ [Next]_vars => IInv'
<1>. SUFFICES ASSUME IInv, [Next]_vars PROVE IInv'
  OBVIOUS
<1>1. ASSUME NEW c \in Client, Install(c) PROVE IInv'
  BY <1>1, InstallStep
<1>2. ASSUME RemoveStreams \/ RemoveRdb PROVE IInv'
  BY <1>2, RemoveStreamsStep, RemoveRdbStep
<1>3. ASSUME NEW s \in Stream, StreamGet(s) \/ StreamRefused(s) PROVE IInv'
  BY <1>3, StreamGetStep, StreamRefusedStep
<1>4. ASSUME NEW s \in Stream, StreamOpen(s) PROVE IInv'
  BY <1>4, StreamOpenStep
<1>5. ASSUME NEW s \in Stream, StreamEnds(s) \/ StreamBreaks(s) PROVE IInv'
  BY <1>5, StreamEndsStep
<1>6. ASSUME NEW s \in Stream, StreamCleanup(s) PROVE IInv'
  BY <1>6, StreamCleanupStep
<1>7. ASSUME NEW s \in Stream, ViewCancels(s) PROVE IInv'
  BY <1>7, ViewCancelsStep
<1>8. ASSUME NEW q \in Request, NEW K \in SUBSET Channel,
             RequestGet(q, "subscribe", K) \/ RequestGet(q, "unsubscribe", K)
      PROVE  IInv'
  BY <1>8, RequestGetStep
<1>9. ASSUME NEW q \in Request, Subscribe(q) \/ Unsubscribe(q) PROVE IInv'
  BY <1>9, SubscribeStep, UnsubscribeStep
<1>10. CASE UNCHANGED vars
  BY <1>10, StutterStep
<1>. QED
  BY <1>1, <1>2, <1>3, <1>4, <1>5, <1>6, <1>7, <1>8, <1>9, <1>10 DEF Next, Advance

-----------------------------------------------------------------------------
\* The inductive invariant holds in every reachable state.
THEOREM Inductive == Spec => []IInv
<1>. QED
  BY InitIInv, Step, PTL DEF Spec

\* A stream that is open on the client in service reads the PubSub that
\* Subscribe acts on (stream_logic.go 32-52, subscribe_logic.go 33-35).
THEOREM StreamsServed == Spec => []HearsItsClient
<1>1. IInv => HearsItsClient
  BY DEF IInv
<1>. QED
  BY <1>1, Inductive, PTL

\* One stream at a time holds a client, and PubSubActive says whether one does:
\* the flag neither admits a second stream nor locks out the next
\* (stream_logic.go 32-52, client.go 45-51).
THEOREM StreamIsAlone == Spec => []OneStream
<1>1. IInv => OneStream
  BY DEF IInv
<1>. QED
  BY <1>1, Inductive, PTL

\* After Disconnect no PubSub is left open, also none that a late Subscribe made
\* on the client that was removed (client.go 45-51).
THEOREM NothingIsLeftOpen == Spec => []NoLeak
<1>1. IInv => NoLeak
  BY DEF IInv
<1>. QED
  BY <1>1, Inductive, PTL

-----------------------------------------------------------------------------
(* Subscriptions in force *)

\* Whoever opens the PubSub of one client leaves the subscriptions of the
\* others alone, and keeps its own.
LEMMA OpenKeeps ==
  ASSUME IInv, NEW c \in Client, NEW p \in PubSub, NEW new \in SUBSET Channel,
         Opens(c, p), Make(c, p), subs' = [subs EXCEPT ![p] = Before(c, p) \cup new],
         NEW d \in Client
  PROVE  InForce(d) \subseteq InForce(d)'
<1>1. pubsub'[c] = p /\ \A x \in Client \ {c} : pubsub'[x] = pubsub[x]
  BY DEF Make, IInv, TypeOK
<1>2. subs'[p] = Before(c, p) \cup new /\ \A r \in PubSub \ {p} : subs'[r] = subs[r]
  BY DEF IInv, TypeOK
<1>. SUFFICES ASSUME pubsub[d] # None PROVE InForce(d) \subseteq InForce(d)'
  BY DEF InForce
<1>3. pubsub[d] \in PubSub
  BY DEF IInv, TypeOK
<1>4. CASE d = c
  <2>1. p = pubsub[c]
    BY <1>4 DEF Opens
  <2>. QED
    BY <1>1, <1>2, <1>3, <1>4, <2>1 DEF InForce, Before
<1>5. CASE d # c
  <2>1. pubsub[d] # p
    BY <1>3, <1>5 DEF Opens, Fresh, Free, IInv, Unshared
  <2>. QED
    BY <1>1, <1>2, <1>3, <1>5, <2>1 DEF InForce
<1>. QED
  BY <1>4, <1>5

\* A client that is shut takes only its own subscriptions with it.
LEMMA ShutKeeps ==
  ASSUME IInv, NEW c \in Client, Shut(c), NEW d \in Client \ {c}
  PROVE  InForce(d) \subseteq InForce(d)'
<1>1. pubsub'[d] = pubsub[d]
  BY DEF Shut, IInv, TypeOK
<1>. SUFFICES ASSUME pubsub[d] # None PROVE InForce(d) \subseteq InForce(d)'
  BY DEF InForce
<1>2. pubsub[d] \in PubSub /\ pubsub[d] # pubsub[c]
  BY DEF IInv, TypeOK, Unshared
<1>3. subs'[pubsub[d]] = subs[pubsub[d]]
  BY <1>2 DEF Shut
<1>. QED
  BY <1>1, <1>3 DEF InForce

LEMMA StepKeeps ==
  ASSUME IInv, [Next]_vars, NEW c \in Client, Serving(c), Serving(c)'
  PROVE  \/ InForce(c) \subseteq InForce(c)'
         \/ \E q \in Request : Unsubscribe(q)
         \/ \E s \in Stream : StreamCleanup(s) /\ run[s].on = c
<1>. DEFINE Kept == InForce(c) \subseteq InForce(c)'
<1>1. CASE UNCHANGED <<pubsub, subs>>
  BY <1>1 DEF InForce
<1>2. ASSUME NEW s \in Stream, StreamOpen(s) PROVE Kept
  <2>1. run[s].on \in Client
    BY <1>2 DEF StreamOpen, At, IInv, OnlyUsed, TypeOK
  <2>2. PICK p \in PubSub, new \in {{}} :
          /\ Opens(run[s].on, p) /\ Make(run[s].on, p)
          /\ subs' = [subs EXCEPT ![p] = Before(run[s].on, p) \cup new]
    BY <1>2 DEF StreamOpen
  <2>3. new \in SUBSET Channel
    BY <2>2
  <2>. QED
    BY <2>1, <2>2, <2>3, OpenKeeps
<1>3. ASSUME NEW q \in Request, Subscribe(q) PROVE Kept
  <2>1. req[q].on \in Client /\ req[q].channels \in SUBSET Channel
    BY <1>3 DEF Subscribe, IInv, OnlyUsed, TypeOK, Req
  <2>2. PICK p \in PubSub, new \in SUBSET req[q].channels :
          /\ Opens(req[q].on, p) /\ Make(req[q].on, p)
          /\ subs' = [subs EXCEPT ![p] = Before(req[q].on, p) \cup new]
    BY <1>3 DEF Subscribe
  <2>3. new \in SUBSET Channel
    BY <2>1
  <2>. QED
    BY <2>1, <2>2, <2>3, OpenKeeps
<1>4. ASSUME NEW s \in Stream, StreamCleanup(s), run[s].on # c PROVE Kept
  <2>1. run[s].on \in Client /\ Shut(run[s].on)
    BY <1>4 DEF StreamCleanup, At, IInv, OnlyUsed, TypeOK
  <2>. QED
    BY <1>4, <2>1, ShutKeeps
<1>5. ~RemoveStreams /\ ~RemoveRdb
  BY DEF RemoveStreams, RemoveRdb, Serving
<1>6. ASSUME NEW s \in Stream,
             StreamGet(s) \/ StreamRefused(s) \/ StreamEnds(s) \/ StreamBreaks(s) \/ ViewCancels(s)
      PROVE  UNCHANGED <<pubsub, subs>>
  BY <1>6 DEF StreamGet, StreamRefused, StreamEnds, StreamBreaks, ViewCancels
<1>7. ASSUME NEW q \in Request, NEW K \in SUBSET Channel,
             RequestGet(q, "subscribe", K) \/ RequestGet(q, "unsubscribe", K)
      PROVE  UNCHANGED <<pubsub, subs>>
  BY <1>7 DEF RequestGet
<1>8. (\E d \in Client : Install(d)) \/ UNCHANGED vars => UNCHANGED <<pubsub, subs>>
  BY DEF Install, vars
<1>. QED
  BY <1>1, <1>2, <1>3, <1>4, <1>5, <1>6, <1>7, <1>8 DEF Next, Advance

\* What is subscribed on a client in service stays so until an Unsubscribe,
\* the end of its own stream or Disconnect: a stream that is opened takes the
\* PubSub over with what Subscribe put on it, and the cleanup of another
\* client's stream closes another PubSub (stream_logic.go 32-52).
THEOREM SubscriptionsAreKept == Spec => KeepsSubscriptions
<1>. DEFINE A == \A c \in Client : Serving(c) /\ Serving(c)' =>
       \/ InForce(c) \subseteq InForce(c)'
       \/ \E q \in Request : Unsubscribe(q)
       \/ \E s \in Stream : StreamCleanup(s) /\ run[s].on = c
<1>1. IInv /\ [Next]_vars => [A]_vars
  BY StepKeeps
<1>. QED
  BY <1>1, Inductive, PTL DEF Spec, KeepsSubscriptions
=============================================================================
