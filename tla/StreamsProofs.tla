---------------------------- MODULE StreamsProofs ----------------------------
(***************************************************************************)
(* Proofs about the streams of a client, for any number of sessions,       *)
(* clients, tabs' streams, channels and requests: MonitorSession, the side *)
(* of the server, and StreamViews, the side of the tabs.                   *)
(*                                                                         *)
(* On the server the fields of a client are written in three places only:  *)
(* a session registering, the same session leaving, and closeStreams.      *)
(* NoSessionOrphaned follows because each of them hands the cancel function*)
(* it overwrites to somebody who calls it.                                 *)
(*                                                                         *)
(* In a tab a stream runs while its loop is on and nobody has cancelled    *)
(* it.  Only start makes one run, and only when there is no reference;     *)
(* whatever takes the reference away cancels the stream first or comes     *)
(* after its loop.                                                         *)
(***************************************************************************)
EXTENDS MonitorSession, StreamViews, TLAPS

-----------------------------------------------------------------------------
(* The sessions of the server.                                              *)

Placed == \A s \in Session : run[s].at \notin {"new", "done"} => run[s].on \in Client

LEMMA InitMonitorInv == MonitorInit => MonitorInv
BY NilAssumption DEF MonitorInit, MonitorInv, TypeOK, Fields, SessionOrNil, NoMonitor, Run, Phase,
   ActiveCanBeStopped, FieldsNameALiveSession, NoSessionOrphaned, At

\* A step that moves one session only, from phase to phase.
LEMMA MoveType ==
  ASSUME TypeOK, NEW s \in Session, NEW a \in Phase, Goto(s, a)
  PROVE  /\ run' \in [Session -> Run]
         /\ run'[s].at = a /\ run'[s].on = run[s].on /\ run'[s].prev = run[s].prev
         /\ \A t \in Session \ {s} : run'[t] = run[t]
BY DEF TypeOK, Goto, Run, Phase

LEMMA InstallStep == ASSUME MonitorInv, NEW c \in Client, Install(c) PROVE MonitorInv'
BY DEF MonitorInv, TypeOK, Install, ActiveCanBeStopped, FieldsNameALiveSession, NoSessionOrphaned, At, Registered

LEMMA RemoveStep == ASSUME MonitorInv, Remove PROVE MonitorInv'
<1>. USE DEF MonitorInv
<1>1. cached \in Client
  BY DEF Remove, TypeOK
<1>2. mon[cached] \in Fields
  BY <1>1 DEF TypeOK
<1>3. /\ mon'[cached] = [mon[cached] EXCEPT !.active = FALSE, !.cancel = Nil]
      /\ \A c \in Client \ {cached} : mon'[c] = mon[c]
      /\ mon' \in [Client -> Fields]
  BY <1>1, <1>2 DEF Remove, TypeOK, Fields, SessionOrNil
<1>4. /\ run' = run
      /\ \A s \in Session : s \in cancelled => s \in cancelled'
      /\ mon[cached].cancel # Nil => mon[cached].cancel \in cancelled'
      /\ cancelled' \in SUBSET Session
  BY <1>2 DEF Remove, TypeOK, Fields, SessionOrNil
<1>5. TypeOK'
  BY <1>3, <1>4 DEF Remove, TypeOK
<1>6. ActiveCanBeStopped'
  BY <1>2, <1>3 DEF ActiveCanBeStopped, Fields
<1>7. FieldsNameALiveSession'
  <2>1. \A d \in Client : mon'[d].conn = mon[d].conn /\ mon'[d].cancel \in {Nil, mon[d].cancel}
    BY <1>2, <1>3 DEF Fields
  <2>. QED
    BY <2>1, <1>4 DEF FieldsNameALiveSession, Registered
<1>8. NoSessionOrphaned'
  <2>. SUFFICES ASSUME NEW s \in Session, run[s].at \in {"displace", "announce", "read"}
                PROVE  \/ mon'[run[s].on].cancel = s
                       \/ s \in cancelled'
                       \/ \E t \in Session : At(t, "displace") /\ run[t].prev = s
    BY <1>4 DEF NoSessionOrphaned, At
  <2>1. run[s].on \in Client
    OBVIOUS
  <2>2. CASE mon[run[s].on].cancel = s
    <3>1. s # Nil
      BY NilAssumption
    <3>. QED
      BY <2>1, <2>2, <3>1, <1>3, <1>4
  <2>. QED
    BY <2>2, <1>4 DEF NoSessionOrphaned
<1>9. Placed'
  BY <1>4 DEF Placed
<1>. QED
  BY <1>5, <1>6, <1>7, <1>8, <1>9 DEF Placed

LEMMA StartGetStep == ASSUME MonitorInv, NEW s \in Session, StartGet(s) PROVE MonitorInv'
<1>. USE DEF MonitorInv
<1>1. run'[s].at = "dial" /\ run'[s].on = cached /\ cached \in Client
  BY DEF StartGet, TypeOK, Run
<1>2. /\ \A t \in Session \ {s} : run'[t] = run[t]
      /\ run' \in [Session -> Run]
  BY <1>1 DEF StartGet, TypeOK, Run, Phase
<1>3. UNCHANGED <<cached, used, mon, cancelled, sockets, stop>> /\ run[s].at = "new"
  BY DEF StartGet, At
<1>4. TypeOK'
  BY <1>2, <1>3 DEF TypeOK
<1>5. ActiveCanBeStopped'
  BY <1>3 DEF ActiveCanBeStopped
<1>6. FieldsNameALiveSession'
  BY <1>2, <1>3, NilAssumption DEF FieldsNameALiveSession, Registered, TypeOK, Fields, SessionOrNil
<1>7. NoSessionOrphaned'
  BY <1>1, <1>2, <1>3 DEF NoSessionOrphaned, At
<1>8. Placed'
  BY <1>1, <1>2, <1>3 DEF Placed
<1>. QED
  BY <1>4, <1>5, <1>6, <1>7, <1>8 DEF Placed

\* A session that is not registered, before or after, moves on.
LEMMA OutsideStep ==
  ASSUME MonitorInv, NEW s \in Session, NEW a \in Phase, Goto(s, a),
         run[s].at \in {"dial", "handshake", "close"}, a \in {"handshake", "register", "done"},
         UNCHANGED <<cached, used, mon, stop>>,
         cancelled \subseteq cancelled', cancelled' \in SUBSET Session,
         sockets' \in SUBSET Session
  PROVE  MonitorInv'
<1>. USE DEF MonitorInv
<1>1. /\ run' \in [Session -> Run]
      /\ run'[s].at = a /\ run'[s].on = run[s].on
      /\ \A t \in Session \ {s} : run'[t] = run[t]
  <2>1. TypeOK
    OBVIOUS
  <2>. QED
    BY <2>1, MoveType
<1>2. TypeOK'
  BY <1>1 DEF TypeOK
<1>3. ActiveCanBeStopped'
  BY DEF ActiveCanBeStopped
<1>4. FieldsNameALiveSession'
  BY <1>1, NilAssumption DEF FieldsNameALiveSession, Registered, TypeOK, Fields, SessionOrNil
<1>5. NoSessionOrphaned'
  BY <1>1 DEF NoSessionOrphaned, At
<1>6. Placed'
  BY <1>1 DEF Placed
<1>. QED
  BY <1>2, <1>3, <1>4, <1>5, <1>6 DEF Placed

LEMMA RegisterStep == ASSUME MonitorInv, NEW s \in Session, StartRegister(s) PROVE MonitorInv'
<1>. USE DEF MonitorInv
<1>. DEFINE c == run[s].on
<1>1. run[s].at = "register" /\ c \in Client /\ s # Nil
  BY NilAssumption DEF StartRegister, At
<1>2. mon[c] \in Fields /\ run[s] \in Run
  BY <1>1 DEF TypeOK
<1>3. /\ run'[s].at = "displace" /\ run'[s].on = c /\ run'[s].prev = mon[c].cancel
      /\ \A t \in Session \ {s} : run'[t] = run[t]
      /\ run' \in [Session -> Run]
  BY <1>2 DEF StartRegister, TypeOK, Run, Phase, Fields
<1>4. /\ \A d \in Client \ {c} : mon'[d] = mon[d]
      /\ mon'[c] = [active |-> TRUE, cancel |-> s, conn |-> s]
      /\ mon' \in [Client -> Fields]
  BY <1>1 DEF StartRegister, TypeOK, Fields, SessionOrNil
<1>5. UNCHANGED <<cached, used, cancelled, sockets, stop>>
  BY DEF StartRegister
<1>6. TypeOK'
  BY <1>3, <1>4, <1>5 DEF TypeOK
<1>7. ActiveCanBeStopped'
  BY <1>1, <1>4 DEF ActiveCanBeStopped
<1>8. FieldsNameALiveSession'
  <2>. SUFFICES ASSUME NEW d \in Client
                PROVE  /\ mon'[d].cancel # Nil => mon'[d].cancel = mon'[d].conn
                       /\ mon'[d].conn # Nil =>
                            /\ run'[mon'[d].conn].at \in {"displace", "announce", "read", "cleanup"}
                            /\ run'[mon'[d].conn].on = d
    BY DEF FieldsNameALiveSession, Registered
  <2>1. CASE run[s].on = d
    BY <2>1, <1>3, <1>4
  <2>2. CASE run[s].on # d
    <3>1. mon'[d] = mon[d] /\ mon[d] \in Fields
      BY <2>2, <1>4 DEF TypeOK
    <3>2. mon[d].conn # Nil => mon[d].conn \in Session /\ mon[d].conn # s
      BY <3>1, <1>1 DEF FieldsNameALiveSession, Registered, Fields, SessionOrNil
    <3>. QED
      BY <3>1, <3>2, <1>3 DEF FieldsNameALiveSession, Registered
  <2>. QED
    BY <2>1, <2>2
<1>9. NoSessionOrphaned'
  <2>. SUFFICES ASSUME NEW t \in Session, run'[t].at \in {"displace", "announce", "read"}
                PROVE  \/ mon'[run'[t].on].cancel = t
                       \/ t \in cancelled
                       \/ \E u \in Session : run'[u].at = "displace" /\ run'[u].prev = t
    BY <1>5 DEF NoSessionOrphaned, At
  <2>1. CASE t = s
    BY <2>1, <1>3, <1>4
  <2>2. CASE t # s
    <3>1. run'[t] = run[t] /\ run[t].on \in Client
      BY <2>2, <1>3
    <3>2. CASE mon[run[t].on].cancel = t
      <4>1. CASE run[t].on = run[s].on
        BY <4>1, <3>2, <1>3
      <4>2. CASE run[t].on # run[s].on
        BY <4>2, <3>1, <3>2, <1>4
      <4>. QED
        BY <4>1, <4>2
    <3>3. ASSUME NEW u \in Session, At(u, "displace"), run[u].prev = t
          PROVE  run'[u].at = "displace" /\ run'[u].prev = t
      BY <3>3, <1>1, <1>3 DEF At
    <3>. QED
      BY <3>1, <3>2, <3>3 DEF NoSessionOrphaned
  <2>. QED
    BY <2>1, <2>2
<1>10. Placed'
  BY <1>1, <1>3 DEF Placed
<1>. QED
  BY <1>6, <1>7, <1>8, <1>9, <1>10 DEF Placed

LEMMA DisplaceStep == ASSUME MonitorInv, NEW s \in Session, StartDisplace(s) PROVE MonitorInv'
<1>. USE DEF MonitorInv
<1>1. run[s].at = "displace" /\ run[s] \in Run
  BY DEF StartDisplace, At, TypeOK
<1>2. /\ run'[s].at = "announce" /\ run'[s].on = run[s].on
      /\ \A t \in Session \ {s} : run'[t] = run[t]
      /\ run' \in [Session -> Run]
  BY <1>1 DEF StartDisplace, TypeOK, Run, Phase, SessionOrNil
<1>3. /\ cancelled' = cancelled \cup ({run[s].prev} \ {Nil})
      /\ cancelled' \in SUBSET Session
      /\ UNCHANGED <<cached, used, mon, sockets, stop>>
  BY <1>1 DEF StartDisplace, TypeOK, Run, SessionOrNil
<1>4. TypeOK'
  BY <1>2, <1>3 DEF TypeOK
<1>5. ActiveCanBeStopped'
  BY <1>3 DEF ActiveCanBeStopped
<1>6. FieldsNameALiveSession'
  <2>1. \A t \in Session : Registered(t) => Registered(t)' /\ run'[t].on = run[t].on
    BY <1>1, <1>2 DEF Registered
  <2>. QED
    BY <2>1, <1>3 DEF FieldsNameALiveSession, TypeOK, Fields, SessionOrNil
<1>7. NoSessionOrphaned'
  <2>. SUFFICES ASSUME NEW t \in Session, run'[t].at \in {"displace", "announce", "read"}
                PROVE  \/ mon[run'[t].on].cancel = t
                       \/ t \in cancelled'
                       \/ \E u \in Session : run'[u].at = "displace" /\ run'[u].prev = t
    BY <1>3 DEF NoSessionOrphaned, At
  <2>1. run[t].at \in {"displace", "announce", "read"} /\ run'[t].on = run[t].on
    BY <1>1, <1>2
  <2>2. ASSUME NEW u \in Session, At(u, "displace"), run[u].prev = t
        PROVE  t \in cancelled' \/ (run'[u].at = "displace" /\ run'[u].prev = t)
    BY <2>2, <1>2, <1>3, NilAssumption DEF At
  <2>. QED
    BY <2>1, <2>2, <1>3 DEF NoSessionOrphaned
<1>8. Placed'
  BY <1>1, <1>2 DEF Placed
<1>. QED
  BY <1>4, <1>5, <1>6, <1>7, <1>8 DEF Placed

\* A registered session moves on and stays registered, its socket may be gone.
LEMMA InsideStep ==
  ASSUME MonitorInv, NEW s \in Session, NEW a \in Phase, Goto(s, a),
         run[s].at \in {"announce", "read"}, a \in {"read", "cleanup"},
         UNCHANGED <<cached, used, mon, cancelled, sockets, stop>>
  PROVE  MonitorInv'
<1>. USE DEF MonitorInv
<1>1. /\ run' \in [Session -> Run]
      /\ run'[s].at = a /\ run'[s].on = run[s].on /\ run'[s].prev = run[s].prev
      /\ \A t \in Session \ {s} : run'[t] = run[t]
  <2>1. TypeOK
    OBVIOUS
  <2>. QED
    BY <2>1, MoveType
<1>2. TypeOK'
  BY <1>1 DEF TypeOK
<1>3. ActiveCanBeStopped'
  BY DEF ActiveCanBeStopped
<1>4. FieldsNameALiveSession'
  <2>1. \A t \in Session : Registered(t) => Registered(t)' /\ run'[t].on = run[t].on
    BY <1>1 DEF Registered
  <2>. QED
    BY <2>1 DEF FieldsNameALiveSession, TypeOK, Fields, SessionOrNil
<1>5. NoSessionOrphaned'
  BY <1>1 DEF NoSessionOrphaned, At
<1>6. Placed'
  BY <1>1 DEF Placed
<1>. QED
  BY <1>2, <1>3, <1>4, <1>5, <1>6 DEF Placed

LEMMA CleanupStep == ASSUME MonitorInv, NEW s \in Session, Cleanup(s) PROVE MonitorInv'
<1>. USE DEF MonitorInv
<1>. DEFINE c == run[s].on
<1>1. run[s].at = "cleanup" /\ c \in Client /\ s # Nil
  BY NilAssumption DEF Cleanup, At
<1>2. /\ run' \in [Session -> Run]
      /\ run'[s].at = "close" /\ run'[s].on = run[s].on
      /\ \A t \in Session \ {s} : run'[t] = run[t]
  BY MoveType DEF Cleanup, TypeOK, Run, Phase
<1>3. /\ \A d \in Client : mon'[d] = mon[d] \/ (mon[d].conn = s /\ mon'[d] = NoMonitor)
      /\ mon' \in [Client -> Fields]
      /\ mon[c].conn = s => mon'[c] = NoMonitor
  BY <1>1 DEF Cleanup, TypeOK, Fields, SessionOrNil, NoMonitor
<1>4. UNCHANGED <<cached, used, cancelled, sockets, stop>>
  BY DEF Cleanup
<1>5. TypeOK'
  BY <1>2, <1>3, <1>4 DEF TypeOK
<1>6. ActiveCanBeStopped'
  BY <1>3 DEF ActiveCanBeStopped, NoMonitor
<1>7. FieldsNameALiveSession'
  <2>. SUFFICES ASSUME NEW d \in Client, mon'[d] = mon[d]
                PROVE  /\ mon[d].cancel # Nil => mon[d].cancel = mon[d].conn
                       /\ mon[d].conn # Nil =>
                            Registered(mon[d].conn)' /\ run'[mon[d].conn].on = d
    BY <1>3 DEF FieldsNameALiveSession, Registered, NoMonitor
  <2>1. mon[d].conn # s
    <3>1. CASE d = run[s].on
      BY <3>1, <1>1, <1>3 DEF NoMonitor
    <3>2. CASE d # run[s].on
      BY <3>2, <1>1 DEF FieldsNameALiveSession
    <3>. QED
      BY <3>1, <3>2
  <2>2. mon[d].conn \in Session \cup {Nil}
    BY DEF TypeOK, Fields, SessionOrNil
  <2>. QED
    BY <2>1, <2>2, <1>2 DEF FieldsNameALiveSession, Registered
<1>8. NoSessionOrphaned'
  <2>. SUFFICES ASSUME NEW t \in Session, run'[t].at \in {"displace", "announce", "read"}
                PROVE  \/ mon'[run'[t].on].cancel = t
                       \/ t \in cancelled
                       \/ \E u \in Session : run'[u].at = "displace" /\ run'[u].prev = t
    BY <1>4 DEF NoSessionOrphaned, At
  <2>1. t # s /\ run'[t] = run[t] /\ run[t].on \in Client
    BY <1>2
  <2>2. ASSUME mon[run[t].on].cancel = t PROVE mon'[run[t].on].cancel = t
    <3>1. mon[run[t].on].conn = t
      BY <2>1, <2>2, NilAssumption DEF FieldsNameALiveSession
    <3>. QED
      BY <2>1, <2>2, <3>1, <1>3
  <2>3. ASSUME NEW u \in Session, At(u, "displace"), run[u].prev = t
        PROVE  run'[u].at = "displace" /\ run'[u].prev = t
    BY <2>3, <1>1, <1>2 DEF At
  <2>. QED
    BY <2>1, <2>2, <2>3 DEF NoSessionOrphaned
<1>9. Placed'
  BY <1>1, <1>2 DEF Placed
<1>. QED
  BY <1>5, <1>6, <1>7, <1>8, <1>9 DEF Placed

\* Steps that only cancel a context, close a socket or fetch a cancel function.
LEMMA SignalStep ==
  ASSUME MonitorInv, UNCHANGED <<cached, used, mon, run>>,
         cancelled \subseteq cancelled', cancelled' \in SUBSET Session,
         sockets' \in SUBSET Session, stop' \in SessionOrNil
  PROVE  MonitorInv'
BY DEF MonitorInv, TypeOK, ActiveCanBeStopped, FieldsNameALiveSession, NoSessionOrphaned, At, Registered

LEMMA Step == MonitorInv /\ [MonitorNext]_monitorVars => MonitorInv'
<1>. SUFFICES ASSUME MonitorInv, [MonitorNext]_monitorVars PROVE MonitorInv'
  OBVIOUS
<1>0. TypeOK
  BY DEF MonitorInv
<1>1. ASSUME NEW c \in Client, Install(c) PROVE MonitorInv'
  BY <1>1, InstallStep
<1>2. CASE Remove
  BY <1>2, RemoveStep
<1>3. ASSUME NEW s \in Session, StartGet(s) PROVE MonitorInv'
  BY <1>3, StartGetStep
<1>4. ASSUME NEW s \in Session, StartDial(s) PROVE MonitorInv'
  BY <1>0, <1>4, OutsideStep DEF StartDial, At, TypeOK, Phase
<1>5. ASSUME NEW s \in Session, StartDialFails(s) PROVE MonitorInv'
  BY <1>0, <1>5, OutsideStep DEF StartDialFails, At, TypeOK, Phase
<1>17. ASSUME NEW s \in Session, StartHandshake(s) PROVE MonitorInv'
  BY <1>0, <1>17, OutsideStep DEF StartHandshake, At, TypeOK, Phase
<1>18. ASSUME NEW s \in Session, HandshakeFails(s) PROVE MonitorInv'
  BY <1>0, <1>18, OutsideStep DEF HandshakeFails, At, TypeOK, Phase
<1>6. ASSUME NEW s \in Session, StartRegister(s) PROVE MonitorInv'
  BY <1>6, RegisterStep
<1>7. ASSUME NEW s \in Session, StartDisplace(s) PROVE MonitorInv'
  BY <1>7, DisplaceStep
<1>8. ASSUME NEW s \in Session, StartAnnounce(s) PROVE MonitorInv'
  BY <1>8, InsideStep DEF StartAnnounce, At, Phase
<1>9. ASSUME NEW s \in Session, ReadEnds(s) \/ ReadBreaks(s) PROVE MonitorInv'
  BY <1>9, InsideStep DEF ReadEnds, ReadBreaks, At, Phase
<1>10. ASSUME NEW s \in Session, Cleanup(s) PROVE MonitorInv'
  BY <1>10, CleanupStep
<1>11. ASSUME NEW s \in Session, CloseSession(s) PROVE MonitorInv'
  BY <1>0, <1>11, OutsideStep DEF CloseSession, At, TypeOK, Phase
<1>12. ASSUME NEW s \in Session, Watch(s) PROVE MonitorInv'
  BY <1>0, <1>12, SignalStep DEF Watch, TypeOK
<1>13. ASSUME NEW s \in Session, ViewCancels(s) PROVE MonitorInv'
  BY <1>0, <1>13, SignalStep DEF ViewCancels, TypeOK
<1>14. CASE StopRead
  <2>1. stop' \in SessionOrNil
    BY <1>0, <1>14 DEF StopRead, TypeOK, Fields
  <2>. QED
    BY <1>0, <1>14, <2>1, SignalStep DEF StopRead, TypeOK
<1>15. CASE StopCall
  BY <1>0, <1>15, SignalStep DEF StopCall, TypeOK, SessionOrNil
<1>16. CASE UNCHANGED monitorVars
  BY <1>0, <1>16, SignalStep DEF monitorVars, TypeOK
<1>. QED
  BY <1>1, <1>2, <1>3, <1>4, <1>5, <1>6, <1>7, <1>8, <1>9, <1>10, <1>11, <1>12, <1>13, <1>14,
     <1>15, <1>16, <1>17, <1>18
  DEF MonitorNext, Connects, ServerAnswers, Advance

\* The inductive invariant holds in every reachable state.
THEOREM SessionsInductive == MonitorSpec => []MonitorInv
<1>. QED
  BY InitMonitorInv, Step, PTL DEF MonitorSpec

\* No MONITOR connection outlives every handle to it (start_logic.go 56-74).
THEOREM SessionsAccountedFor == MonitorSpec => []NoSessionOrphaned
<1>1. MonitorInv => NoSessionOrphaned
  BY DEF MonitorInv
<1>. QED
  BY <1>1, SessionsInductive, PTL

\* The fields of a client name one session that has not left, and a client
\* reported as monitored can be stopped (start_logic.go 66-74, stop_logic.go
\* 29-35): no late cleanup takes the fields of a newer session away.
THEOREM FieldsAreOfALiveSession == MonitorSpec => [](FieldsNameALiveSession /\ ActiveCanBeStopped)
<1>1. MonitorInv => FieldsNameALiveSession /\ ActiveCanBeStopped
  BY DEF MonitorInv
<1>. QED
  BY <1>1, SessionsInductive, PTL

-----------------------------------------------------------------------------
(* The streams of a tab.                                                    *)

IsStream(r) == DOMAIN r = {"loop", "srv", "cancelled", "here", "frames"}
Runs(r) == r.loop /\ ~r.cancelled

TypeInv ==
  /\ DOMAIN streams = Stream
  /\ \A s \in Stream : IsStream(streams[s])
  /\ ref \in Stream \cup {None}
  /\ ref # None => mounted

IInv == TypeInv /\ NoOrphan

LEMMA UnusedIs == IsStream(Unused) /\ ~Runs(Unused)
BY Zenon DEF IsStream, Runs, Unused

LEMMA AskedIs == IsStream(Asked)
BY Zenon DEF IsStream, Asked, Unused

LEMMA TidyIs ==
  ASSUME NEW r, IsStream(r)
  PROVE  IsStream(Tidy(r)) /\ (Runs(Tidy(r)) => Runs(r))
BY Zenon, UnusedIs DEF Tidy

LEMMA InitIInv == Init => IInv
<1>. SUFFICES ASSUME Init PROVE IInv
  OBVIOUS
<1>1. DOMAIN streams = Stream /\ ref = None /\ \A s \in Stream : streams[s] = Unused
  BY Zenon DEF Init
<1>. QED
  BY <1>1, UnusedIs DEF IInv, TypeInv, NoOrphan, Runs

\* The reference stays or goes and no stream begins to run.
LEMMA NoneBegins ==
  ASSUME IInv, DOMAIN streams' = Stream,
         \A s \in Stream : IsStream(streams'[s]) /\ (Runs(streams'[s]) => Runs(streams[s])),
         ref' = ref, mounted' = mounted
  PROVE  IInv'
BY DEF IInv, TypeInv, NoOrphan, Runs

\* One stream is replaced by a record that does not run if it did not.
LEMMA OneSet ==
  ASSUME IInv, NEW s \in Stream, NEW r, IsStream(r), streams' = Set(s, r)
  PROVE  /\ DOMAIN streams' = Stream
         /\ streams'[s] = r
         /\ \A t \in Stream \ {s} : streams'[t] = streams[t]
         /\ \A t \in Stream : IsStream(streams'[t])
BY Zenon DEF Set, IInv, TypeInv

LEMMA StartStep ==
  ASSUME IInv, NEW s \in Stream, Start(s), mounted'
  PROVE  IInv'
<1>1. ref = None /\ ref' = s /\ streams' = Set(s, Asked)
  BY DEF Start
<1>2. /\ DOMAIN streams' = Stream
      /\ \A t \in Stream \ {s} : streams'[t] = streams[t]
      /\ \A t \in Stream : IsStream(streams'[t])
  BY <1>1, OneSet, AskedIs
<1>3. \A t \in Stream : ~Runs(streams[t])
  BY <1>1, StreamViewsAssumption DEF IInv, NoOrphan, Runs
<1>. QED
  BY <1>1, <1>2, <1>3 DEF IInv, TypeInv, NoOrphan, Runs

\* The stream of the reference is cancelled: then none runs.
LEMMA NoneRuns ==
  ASSUME IInv
  PROVE  /\ DOMAIN Cancelled = Stream
         /\ \A s \in Stream : IsStream(Cancelled[s]) /\ ~Runs(Cancelled[s])
<1>1. CASE ref = None
  BY <1>1, StreamViewsAssumption DEF Cancelled, IInv, TypeInv, NoOrphan, Runs
<1>2. CASE ref # None
  <2>1. ref \in Stream
    BY <1>2 DEF IInv, TypeInv
  <2>2. Cancelled = [streams EXCEPT ![ref] = [streams[ref] EXCEPT !.cancelled = TRUE]]
    BY Zenon, <1>2 DEF Cancelled
  <2>3. DOMAIN Cancelled = Stream
    BY Zenon, <2>2 DEF IInv, TypeInv
  <2>4. ASSUME NEW s \in Stream PROVE IsStream(Cancelled[s]) /\ ~Runs(Cancelled[s])
    <3>1. CASE s = ref
      <4>1. Cancelled[s] = [streams[s] EXCEPT !.cancelled = TRUE]
        BY Zenon, <2>2, <2>4, <3>1 DEF IInv, TypeInv
      <4>2. IsStream(streams[s])
        BY <2>4 DEF IInv, TypeInv
      <4>. QED
        BY Zenon, <4>1, <4>2 DEF IsStream, Runs
    <3>2. CASE s # ref
      <4>1. Cancelled[s] = streams[s]
        BY Zenon, <2>2, <2>4, <3>2 DEF IInv, TypeInv
      <4>. QED
        BY <2>4, <3>2, <4>1 DEF IInv, TypeInv, NoOrphan, Runs
    <3>. QED
      BY <3>1, <3>2
  <2>. QED
    BY <2>3, <2>4
<1>. QED
  BY <1>1, <1>2

LEMMA UnmountStep == ASSUME IInv, Unmount PROVE IInv'
<1>1. ref' = None
  BY DEF Unmount
<1>2. DOMAIN streams' = Stream
      /\ \A s \in Stream : streams'[s] = Tidy([Cancelled[s] EXCEPT !.here = FALSE])
  BY Zenon DEF Unmount
<1>3. ASSUME NEW s \in Stream PROVE IsStream(streams'[s]) /\ ~Runs(streams'[s])
  <2>1. IsStream([Cancelled[s] EXCEPT !.here = FALSE]) /\ ~Runs([Cancelled[s] EXCEPT !.here = FALSE])
    <3>1. IsStream(Cancelled[s]) /\ ~Runs(Cancelled[s])
      BY <1>3, NoneRuns
    <3>. QED
      BY Zenon, <3>1 DEF IsStream, Runs
  <2>. QED
    BY Zenon, <1>2, <1>3, <2>1, TidyIs
<1>. QED
  BY <1>1, <1>2, <1>3 DEF IInv, TypeInv, NoOrphan, Runs

LEMMA StopStep == ASSUME IInv, Stop PROVE IInv'
<1>1. ref' = None /\ streams' = Cancelled
  BY DEF Stop
<1>. QED
  BY <1>1, NoneRuns DEF IInv, TypeInv, NoOrphan, Runs

LEMMA ReceiveStep == ASSUME IInv, NEW s \in Stream, Receive(s) PROVE IInv'
<1>1. /\ UNCHANGED <<mounted, ref>>
      /\ streams' = Set(s, [streams[s] EXCEPT !.frames = Tail(streams[s].frames)])
  BY Zenon DEF Receive
<1>2. LET r == [streams[s] EXCEPT !.frames = Tail(streams[s].frames)]
      IN  IsStream(r) /\ (Runs(r) => Runs(streams[s]))
  BY Zenon DEF IInv, TypeInv, IsStream, Runs
<1>. QED
  BY <1>1, <1>2, OneSet, NoneBegins

\* The identity test: an older stream that ends leaves the reference alone.
LEMMA EndsStep == ASSUME IInv, NEW s \in Stream, Ends(s) PROVE IInv'
<1>. DEFINE r == [streams[s] EXCEPT !.loop = FALSE, !.frames = << >>]
<1>1. /\ mounted' = mounted
      /\ ref' = ref \/ ref' = Kept(s)
      /\ streams' = Set(s, Tidy(r))
  BY Zenon DEF Ends
<1>2. IsStream(r) /\ ~Runs(r)
  BY Zenon DEF IInv, TypeInv, IsStream, Runs
<1>3. IsStream(Tidy(r)) /\ ~Runs(Tidy(r))
  BY Zenon, <1>2, TidyIs
<1>4. /\ DOMAIN streams' = Stream
      /\ ~Runs(streams'[s])
      /\ \A t \in Stream \ {s} : streams'[t] = streams[t]
      /\ \A t \in Stream : IsStream(streams'[t])
  BY <1>1, <1>3, OneSet
<1>. QED
  BY <1>1, <1>4 DEF Kept, IInv, TypeInv, NoOrphan, Runs

LEMMA ServeStep == ASSUME IInv, NEW s \in Stream, Serve(s) PROVE IInv'
<1>. DEFINE Q == \E r : IsStream(r) /\ (Runs(r) => Runs(streams[s])) /\ streams' = Set(s, r)
<1>1. UNCHANGED <<mounted, ref>>
  BY DEF Serve, tab
<1>2. IsStream(streams[s])
  BY DEF IInv, TypeInv
<1>3. Q
  <2>1. ASSUME NEW f, streams' = Set(s, [streams[s] EXCEPT !.srv = "serving", !.frames = f])
        PROVE  Q
    <3>1. LET r == [streams[s] EXCEPT !.srv = "serving", !.frames = f]
          IN  IsStream(r) /\ (Runs(r) => Runs(streams[s]))
      BY Zenon, <1>2 DEF IsStream, Runs
    <3>. QED
      BY Zenon, <2>1, <3>1
  <2>2. CASE streams' = Set(s, Tidy([streams[s] EXCEPT !.srv = "none"]))
    <3>1. LET r == [streams[s] EXCEPT !.srv = "none"]
          IN  IsStream(r) /\ (Runs(r) => Runs(streams[s]))
      BY Zenon, <1>2 DEF IsStream, Runs
    <3>2. LET r == [streams[s] EXCEPT !.srv = "none"]
          IN  IsStream(Tidy(r)) /\ (Runs(Tidy(r)) => Runs(streams[s]))
      BY Zenon, <3>1, TidyIs
    <3>. QED
      BY Zenon, <2>2, <3>2
  <2>. QED
    BY Zenon, <2>1, <2>2 DEF Serve
<1>4. PICK r : IsStream(r) /\ (Runs(r) => Runs(streams[s])) /\ streams' = Set(s, r)
  BY Zenon, <1>3
<1>. QED
  BY <1>1, <1>4, OneSet, NoneBegins

LEMMA CloseStep == ASSUME IInv, NEW s \in Stream, Close(s) PROVE IInv'
<1>1. UNCHANGED <<mounted, ref>>
  BY DEF Close, tab
<1>2. PICK r \in Closed(streams[s]) : streams' = Set(s, r)
  BY DEF Close
<1>3. PICK f : r = Tidy([streams[s] EXCEPT !.srv = "none", !.frames = f])
  BY Zenon, <1>2 DEF Closed
<1>4. LET q == [streams[s] EXCEPT !.srv = "none", !.frames = f]
      IN  IsStream(q) /\ (Runs(q) => Runs(streams[s]))
  BY Zenon DEF IInv, TypeInv, IsStream, Runs
<1>5. IsStream(r) /\ (Runs(r) => Runs(streams[s]))
  BY Zenon, <1>3, <1>4, TidyIs
<1>. QED
  BY <1>1, <1>2, <1>5, OneSet, NoneBegins

LEMMA MountStep == ASSUME IInv, NEW s \in Stream, Mount(s) PROVE IInv'
BY StartStep DEF Mount

LEMMA StartButtonStep == ASSUME IInv, NEW s \in Stream, StartButton(s) PROVE IInv'
BY StartStep DEF StartButton

LEMMA RequestStep ==
  ASSUME IInv, UNCHANGED <<streams, ref, mounted>>
  PROVE  IInv'
BY DEF IInv, TypeInv, NoOrphan

LEMMA NextIInv == IInv /\ [Next]_vars => IInv'
<1>. SUFFICES ASSUME IInv, [Next]_vars PROVE IInv'
  OBVIOUS
<1>1. CASE UNCHANGED vars
  BY <1>1, RequestStep DEF vars, tab
<1>2. CASE \E ch \in Channel : Subscribe(ch) \/ Unsubscribe(ch)
  BY <1>2, RequestStep DEF Subscribe, Unsubscribe, tab
<1>3. CASE SubscribeAll \/ RemoveClient
  BY <1>3, RequestStep DEF SubscribeAll, RemoveClient, tab
<1>4. CASE \E i \in DOMAIN calls : Execute(i) \/ Answer(i)
  BY <1>4, RequestStep DEF Execute, Answer, tab
<1>5. CASE Unmount \/ Stop
  BY <1>5, UnmountStep, StopStep
<1>6. CASE \E s \in Stream : Mount(s) \/ StartButton(s) \/ Receive(s) \/ Ends(s) \/ Serve(s) \/ Close(s)
  BY <1>6, MountStep, StartButtonStep, ReceiveStep, EndsStep, ServeStep, CloseStep
<1>. QED
  BY <1>1, <1>2, <1>3, <1>4, <1>5, <1>6 DEF Next

\* However old and new streams of a tab overlap, one that nobody has cancelled
\* is the one the tab refers to, and the tab is open: the effects and the finally
\* blocks of monitor.api.tsx, analysis.api.tsx and pubsub.api.tsx.
THEOREM NoneIsOrphaned == Spec => []NoOrphan
<1>1. IInv => NoOrphan
  BY DEF IInv
<1>. QED
  BY InitIInv, NextIInv, <1>1, PTL DEF Spec
-----------------------------------------------------------------------------
(* The button.                                                              *)

\* What the flag rests on: only MONITOR sends status frames, the flag is on
\* beside a loop of the open tab, the stream of the reference has one, and its
\* handler has told that it runs, or the telling is under way.
Told(r) == r.srv = "serving" => r.frames = << TRUE >> \/ (r.frames = << >> /\ on)

Flag ==
  /\ kind # "monitor" => \A s \in Stream : streams[s].frames = << >>
  /\ ~IsHook => ~on
  /\ on => \E s \in Stream : streams[s].loop /\ streams[s].here
  /\ IsHook /\ ref # None => streams[ref].loop /\ streams[ref].here
  /\ kind = "analysis" /\ ref # None /\ ~overtaken => on
  /\ kind = "monitor" /\ ref # None /\ ~overtaken => Told(streams[ref])

LEMMA TidyLoops == ASSUME NEW r, r.loop \/ Tidy(r).loop PROVE Tidy(r) = r
BY DEF Tidy, Unused

LEMMA TidySays == ASSUME NEW r, r.frames = << >> PROVE Tidy(r).frames = << >>
BY DEF Tidy, Unused

LEMMA OneFrame == Head(<< TRUE >>) /\ Tail(<< TRUE >>) = << >>
<1>1. Head(<< TRUE >>) = TRUE
  <2>1. ASSUME NEW x PROVE Head(<< x >>) = x
    BY SMT
  <2>. QED
    BY Zenon, <2>1
<1>2. Tail(<< TRUE >>) = << >>
  BY SMT
<1>. QED
  BY Zenon, <1>1, <1>2

LEMMA InitFlag == Init => Flag
<1>. SUFFICES ASSUME Init PROVE Flag
  OBVIOUS
<1>1. ref = None /\ ~on /\ \A s \in Stream : streams[s].frames = << >>
  BY Zenon DEF Init, Unused
<1>. QED
  BY <1>1 DEF Flag

\* One stream changes, and the tab does not: it may not lose its loop or its
\* tab, and what it has yet to tell must do.
LEMMA OneChanges ==
  ASSUME IInv, Flag, NEW s \in Stream, NEW r,
         streams'[s] = r, \A t \in Stream \ {s} : streams'[t] = streams[t],
         UNCHANGED <<kind, ref, on, overtaken>>,
         kind # "monitor" => r.frames = << >>,
         streams[s].loop /\ streams[s].here => r.loop /\ r.here,
         kind = "monitor" /\ ref = s /\ ~overtaken => Told(r)
  PROVE  Flag'
BY DEF IInv, TypeInv, Flag, Told, IsHook

LEMMA StartFlag ==
  ASSUME IInv, Flag, NEW s \in Stream, Start(s), kind' = kind
  PROVE  Flag'
<1>1. ref = None /\ ref' = s /\ streams' = Set(s, Asked) /\ on' = (on \/ kind = "analysis")
  BY DEF Start
<1>2. /\ streams'[s] = Asked
      /\ \A t \in Stream \ {s} : streams'[t] = streams[t]
  BY <1>1, OneSet, AskedIs
<1>3. Asked.loop /\ Asked.here /\ Asked.srv = "asked" /\ Asked.frames = << >>
  BY Zenon DEF Asked, Unused
<1>. QED
  BY <1>1, <1>2, <1>3 DEF Flag, Told, IsHook

LEMMA UnmountFlag == ASSUME IInv, Flag, Unmount PROVE Flag'
<1>1. ref' = None /\ ~on' /\ kind' = kind
  BY DEF Unmount
<1>2. ASSUME kind # "monitor", NEW s \in Stream PROVE streams'[s].frames = << >>
  <2>1. IsStream(Cancelled[s]) /\ Cancelled[s].frames = << >>
    <3>1. CASE s = ref
      <4>1. Cancelled[s] = [streams[s] EXCEPT !.cancelled = TRUE]
        BY Zenon, <1>2, <3>1, StreamViewsAssumption DEF Cancelled, IInv, TypeInv
      <4>2. IsStream(streams[s]) /\ streams[s].frames = << >>
        BY <1>2 DEF IInv, TypeInv, Flag
      <4>. QED
        BY Zenon, <4>1, <4>2 DEF IsStream
    <3>2. CASE s # ref
      <4>1. Cancelled[s] = streams[s]
        BY Zenon, <1>2, <3>2 DEF Cancelled, IInv, TypeInv
      <4>. QED
        BY <1>2, <4>1 DEF IInv, TypeInv, Flag
    <3>. QED
      BY <3>1, <3>2
  <2>2. [Cancelled[s] EXCEPT !.here = FALSE].frames = << >>
    BY Zenon, <2>1 DEF IsStream
  <2>3. streams'[s] = Tidy([Cancelled[s] EXCEPT !.here = FALSE])
    BY Zenon, <1>2 DEF Unmount
  <2>. QED
    BY <2>2, <2>3, TidySays
<1>. QED
  BY <1>1, <1>2 DEF Flag, IsHook

LEMMA StopFlag == ASSUME IInv, Flag, Stop PROVE Flag'
<1>1. ref' = None /\ ~on' /\ kind' = kind /\ streams' = Cancelled
  BY DEF Stop
<1>2. ASSUME kind # "monitor", NEW s \in Stream PROVE Cancelled[s].frames = << >>
  <2>1. CASE s = ref
    <3>1. Cancelled[s] = [streams[s] EXCEPT !.cancelled = TRUE]
      BY Zenon, <1>2, <2>1, StreamViewsAssumption DEF Cancelled, IInv, TypeInv
    <3>2. IsStream(streams[s]) /\ streams[s].frames = << >>
      BY <1>2 DEF IInv, TypeInv, Flag
    <3>. QED
      BY Zenon, <3>1, <3>2 DEF IsStream
  <2>2. CASE s # ref
    <3>1. Cancelled[s] = streams[s]
      BY Zenon, <1>2, <2>2 DEF Cancelled, IInv, TypeInv
    <3>. QED
      BY <1>2, <3>1 DEF Flag
  <2>. QED
    BY <2>1, <2>2
<1>. QED
  BY <1>1, <1>2 DEF Flag, IsHook

\* A frame of the stream of the reference is the one that tells; of any other
\* the flag is told to have been overtaken.
LEMMA ReceiveFlag == ASSUME IInv, Flag, NEW s \in Stream, Receive(s) PROVE Flag'
<1>. DEFINE r == [streams[s] EXCEPT !.frames = Tail(streams[s].frames)]
<1>1. /\ UNCHANGED <<kind, ref>>
      /\ streams[s].loop /\ streams[s].frames # << >>
      /\ on' = IF streams[s].here THEN Head(streams[s].frames) ELSE on
      /\ overtaken' = (overtaken \/ (streams[s].here /\ ref \notin {s, None}))
      /\ streams' = Set(s, r)
  BY Zenon DEF Receive
<1>2. IsStream(streams[s])
  BY DEF IInv, TypeInv
<1>3. IsStream(r) /\ r.loop = streams[s].loop /\ r.here = streams[s].here
      /\ r.srv = streams[s].srv /\ r.frames = Tail(streams[s].frames)
  BY Zenon, <1>2 DEF IsStream
<1>4. streams'[s] = r /\ \A t \in Stream \ {s} : streams'[t] = streams[t]
  BY <1>1, <1>3, OneSet
<1>5. kind = "monitor" /\ IsHook
  BY <1>1 DEF Flag, IsHook
<1>6. CASE ref = s
  <2>1. s # None /\ streams[s].here
    BY <1>5, <1>6, StreamViewsAssumption DEF Flag
  <2>2. ~overtaken /\ streams[s].srv = "serving" => on' /\ r.frames = << >>
    <3>. SUFFICES ASSUME ~overtaken, streams[s].srv = "serving" PROVE on' /\ r.frames = << >>
      OBVIOUS
    <3>1. streams[s].frames = << TRUE >>
      BY <1>1, <1>5, <1>6, <2>1 DEF Flag, Told
    <3>2. Head(streams[s].frames)
      BY <3>1, OneFrame
    <3>3. Tail(streams[s].frames) = << >>
      BY <3>1, OneFrame
    <3>. QED
      BY <1>1, <1>3, <2>1, <3>2, <3>3
  <2>. QED
    BY <1>1, <1>3, <1>4, <1>5, <1>6, <2>1, <2>2 DEF Flag, Told, IsHook
<1>7. CASE ref # s /\ streams[s].here
  BY <1>1, <1>3, <1>4, <1>5, <1>7, StreamViewsAssumption DEF IInv, TypeInv, Flag, IsHook
<1>8. CASE ref # s /\ ~streams[s].here
  <2>1. UNCHANGED <<kind, ref, on>> /\ (overtaken' <=> overtaken)
    BY <1>1, <1>8
  <2>. QED
    BY <2>1, <1>3, <1>4, <1>5, <1>8 DEF IInv, TypeInv, Flag, Told, IsHook
<1>. QED
  BY <1>6, <1>7, <1>8

LEMMA EndsFlag == ASSUME IInv, Flag, NEW s \in Stream, Ends(s) PROVE Flag'
<1>. DEFINE r == [streams[s] EXCEPT !.loop = FALSE, !.frames = << >>]
<1>1. kind' = kind /\ streams' = Set(s, Tidy(r))
  BY Zenon DEF Ends
<1>2. IsStream(r) /\ r.frames = << >> /\ IsStream(Tidy(r))
  <2>1. IsStream(r) /\ r.frames = << >>
    BY Zenon DEF IInv, TypeInv, IsStream
  <2>. QED
    BY Zenon, <2>1, TidyIs
<1>3. /\ streams'[s].frames = << >>
      /\ \A t \in Stream \ {s} : streams'[t] = streams[t]
  BY <1>1, <1>2, OneSet, TidySays
<1>4. CASE IsHook /\ streams[s].here
  <2>1. ref' = Kept(s) /\ ~on' /\ overtaken' = (overtaken \/ ref \notin {s, None})
    BY <1>4 DEF Ends
  <2>. QED
    BY <1>1, <1>3, <2>1 DEF Kept, IInv, TypeInv, Flag, IsHook
<1>5. CASE ~(IsHook /\ streams[s].here)
  <2>1. UNCHANGED <<ref, on, overtaken>>
    BY <1>5 DEF Ends
  <2>. QED
    BY <1>1, <1>3, <1>5, <2>1 DEF IInv, TypeInv, Flag, Told, IsHook
<1>. QED
  BY <1>4, <1>5

LEMMA ServeFlag == ASSUME IInv, Flag, NEW s \in Stream, Serve(s) PROVE Flag'
<1>. DEFINE f == IF kind = "monitor" /\ streams[s].loop THEN << TRUE >> ELSE streams[s].frames
            begun == [streams[s] EXCEPT !.srv = "serving", !.frames = f]
            refused == [streams[s] EXCEPT !.srv = "none"]
<1>1. UNCHANGED <<kind, ref, on, overtaken>>
  BY DEF Serve, tab
<1>2. IsStream(streams[s])
  BY DEF IInv, TypeInv
<1>3. streams' = Set(s, begun) \/ streams' = Set(s, Tidy(refused))
  BY Zenon DEF Serve
<1>4. CASE streams' = Set(s, begun)
  <2>1. /\ IsStream(begun)
        /\ begun.loop = streams[s].loop /\ begun.here = streams[s].here /\ begun.frames = f
    BY Zenon, <1>2 DEF IsStream
  <2>2. streams'[s] = begun /\ \A t \in Stream \ {s} : streams'[t] = streams[t]
    BY <1>4, <2>1, OneSet
  <2>3. kind # "monitor" => begun.frames = << >>
    BY <2>1 DEF Flag
  <2>4. kind = "monitor" /\ ref = s => Told(begun)
    <3>. SUFFICES ASSUME kind = "monitor", ref = s PROVE begun.frames = << TRUE >>
      BY DEF Told
    <3>1. streams[s].loop
      BY StreamViewsAssumption DEF Flag, IsHook
    <3>. QED
      BY Zenon, <2>1, <3>1
  <2>. HIDE DEF begun
  <2>. QED
    BY <1>1, <2>1, <2>2, <2>3, <2>4, OneChanges
<1>5. CASE streams' = Set(s, Tidy(refused))
  <2>1. /\ IsStream(refused) /\ refused.srv = "none" /\ refused.loop = streams[s].loop
        /\ refused.here = streams[s].here /\ refused.frames = streams[s].frames
    BY Zenon, <1>2 DEF IsStream
  <2>2. IsStream(Tidy(refused))
    BY Zenon, <2>1, TidyIs
  <2>3. streams'[s] = Tidy(refused) /\ \A t \in Stream \ {s} : streams'[t] = streams[t]
    BY <1>5, <2>2, OneSet
  <2>4. kind # "monitor" => Tidy(refused).frames = << >>
    BY <2>1, TidySays DEF Flag
  <2>5. streams[s].loop => Tidy(refused) = refused
    BY <2>1, TidyLoops
  <2>6. Tidy(refused).srv = "none"
    BY <2>1 DEF Tidy, Unused
  <2>. QED
    BY <1>1, <2>1, <2>3, <2>4, <2>5, <2>6, OneChanges DEF Told
<1>. QED
  BY <1>3, <1>4, <1>5

LEMMA CloseFlag == ASSUME IInv, Flag, NEW s \in Stream, Close(s) PROVE Flag'
<1>1. UNCHANGED <<kind, ref, on, overtaken>>
  BY DEF Close, tab
<1>2. PICK says \in IF kind = "monitor" THEN BOOLEAN ELSE {FALSE} :
        streams' = Set(s, Tidy([streams[s] EXCEPT
          !.srv = "none",
          !.frames = IF says /\ streams[s].loop THEN Append(streams[s].frames, FALSE)
                     ELSE streams[s].frames]))
  BY Zenon DEF Close, Closed
<1>. DEFINE f == IF says /\ streams[s].loop THEN Append(streams[s].frames, FALSE)
                 ELSE streams[s].frames
            r == [streams[s] EXCEPT !.srv = "none", !.frames = f]
<1>3. IsStream(streams[s])
  BY DEF IInv, TypeInv
<1>4. /\ IsStream(r) /\ r.srv = "none" /\ r.loop = streams[s].loop
      /\ r.here = streams[s].here /\ r.frames = f
  BY Zenon, <1>3 DEF IsStream
<1>5. IsStream(Tidy(r))
  BY Zenon, <1>4, TidyIs
<1>6. streams'[s] = Tidy(r) /\ \A t \in Stream \ {s} : streams'[t] = streams[t]
  BY <1>2, <1>5, OneSet
<1>7. kind # "monitor" => Tidy(r).frames = << >>
  <2>. SUFFICES ASSUME kind # "monitor" PROVE Tidy(r).frames = << >>
    OBVIOUS
  <2>1. f = << >>
    BY <1>2 DEF Flag
  <2>. QED
    BY <1>4, <2>1, TidySays
<1>8. streams[s].loop => Tidy(r) = r
  BY <1>4, TidyLoops
<1>9. Tidy(r).srv = "none"
  BY <1>4 DEF Tidy, Unused
<1>. QED
  BY <1>1, <1>4, <1>6, <1>7, <1>8, <1>9, OneChanges DEF Told

LEMMA RequestFlag ==
  ASSUME Flag, UNCHANGED <<kind, streams, ref, on, overtaken>>
  PROVE  Flag'
BY DEF Flag, Told, IsHook

LEMMA NextFlag == IInv /\ Flag /\ [Next]_vars => Flag'
<1>. SUFFICES ASSUME IInv, Flag, [Next]_vars PROVE Flag'
  OBVIOUS
<1>1. CASE UNCHANGED vars
  BY <1>1, RequestFlag DEF vars, tab
<1>2. CASE \E ch \in Channel : Subscribe(ch) \/ Unsubscribe(ch)
  BY <1>2, RequestFlag DEF Subscribe, Unsubscribe, tab
<1>3. CASE SubscribeAll \/ RemoveClient
  BY <1>3, RequestFlag DEF SubscribeAll, RemoveClient, tab
<1>4. CASE \E i \in DOMAIN calls : Execute(i) \/ Answer(i)
  BY <1>4, RequestFlag DEF Execute, Answer, tab
<1>5. CASE Unmount \/ Stop
  BY <1>5, UnmountFlag, StopFlag
<1>6. CASE \E s \in Stream : Mount(s) \/ StartButton(s)
  BY <1>6, StartFlag DEF Mount, StartButton
<1>7. CASE \E s \in Stream : Receive(s) \/ Ends(s) \/ Serve(s) \/ Close(s)
  BY <1>7, ReceiveFlag, EndsFlag, ServeFlag, CloseFlag
<1>. QED
  BY <1>1, <1>2, <1>3, <1>4, <1>5, <1>6, <1>7 DEF Next

\* The button tells what runs, but for an older stream that has written the
\* flag since: setActive and setRunning in monitor.api.tsx and analysis.api.tsx.
THEOREM ButtonIsTrue == Spec => []ButtonTellsTheTruth
<1>1. Flag => ButtonTellsTheTruth
  <2>. SUFFICES ASSUME Flag PROVE ButtonTellsTheTruth
    OBVIOUS
  <2>1. on => \E s \in Stream : streams[s].loop /\ streams[s].here
    BY DEF Flag
  <2>2. ASSUME IsHook, ref # None, ~overtaken, Announced(ref) PROVE on
    <3>1. CASE kind = "analysis"
      BY <2>2, <3>1 DEF Flag
    <3>2. CASE kind # "analysis"
      <4>1. kind = "monitor" /\ Told(streams[ref])
        BY <2>2, <3>2 DEF Flag, IsHook
      <4>2. streams[ref].srv = "serving" /\ streams[ref].frames = << >>
        BY <2>2, <3>2 DEF Announced
      <4>3. << TRUE >> # << >>
        OBVIOUS
      <4>. QED
        BY <4>1, <4>2, <4>3 DEF Told
    <3>. QED
      BY <3>1, <3>2
  <2>. QED
    BY <2>1, <2>2 DEF ButtonTellsTheTruth
<1>. QED
  BY InitIInv, NextIInv, InitFlag, NextFlag, <1>1, PTL DEF Spec
-----------------------------------------------------------------------------
(* The list of subscriptions.                                               *)

RequestType == [op : {"sub", "unsub"}, ch : Channel, ran : BOOLEAN, mine : BOOLEAN]

\* A channel nobody doubts: its requests are of the open tab and ask for the
\* same, what has run of them has its effect on the server, and when none has
\* run the list shows what the server has.
Sure(ch) ==
  /\ \A i \in DOMAIN calls : calls[i].ch = ch => calls[i].mine
  /\ \A i, j \in DOMAIN calls : calls[i].ch = ch /\ calls[j].ch = ch => calls[i].op = calls[j].op
  /\ \A i \in DOMAIN calls : calls[i].ch = ch /\ calls[i].ran =>
       (ch \in subs <=> calls[i].op = "sub")
  /\ (\A i \in DOMAIN calls : calls[i].ch = ch => ~calls[i].ran) =>
       (channels[ch] > 0 <=> ch \in subs)

Lists ==
  /\ channels \in [Channel -> Nat]
  /\ \A i \in DOMAIN calls : calls[i] \in RequestType /\ (calls[i].ran => calls[i].mine)
  /\ kind # "pubsub" => DOMAIN calls = {} /\ subs = {}
  /\ ~mounted => /\ \A ch \in Channel : channels[ch] = 0
                 /\ \A i \in DOMAIN calls : ~calls[i].mine
  /\ mounted => \A ch \in Channel \ doubt : Sure(ch)

LEMMA InitLists == Init => Lists
BY DEF Init, Lists

\* Nothing of the requests changes, and the server loses what is in doubt only.
LEMMA SameLists ==
  ASSUME Lists, UNCHANGED <<kind, mounted, channels, calls>>,
         UNCHANGED subs \/ (subs' = {} /\ (mounted => doubt' = Channel)),
         doubt \subseteq doubt' \/ (mounted => doubt' = Channel)
  PROVE  Lists'
BY DEF Lists, Sure

\* A request is sent.
LEMMA SendIs ==
  ASSUME NEW r, Send(r)
  PROVE  \E x \in Call \ DOMAIN calls :
           /\ DOMAIN calls' = DOMAIN calls \cup {x} /\ calls'[x] = r
           /\ \A i \in DOMAIN calls : calls'[i] = calls[i]
BY DEF Send

LEMMA RequestIs ==
  ASSUME NEW op \in {"sub", "unsub"}, NEW ch \in Channel
  PROVE  LET r == Request(op, ch) IN
         r \in RequestType /\ r.op = op /\ r.ch = ch /\ ~r.ran /\ r.mine
BY DEF Request, RequestType

LEMMA IssueLists ==
  ASSUME Lists, NEW op \in {"sub", "unsub"}, NEW ch \in Channel, Issue(op, ch),
         kind = "pubsub", mounted, UNCHANGED <<kind, mounted, channels, subs>>
  PROVE  Lists'
<1>. DEFINE r == Request(op, ch)
<1>1. PICK x \in Call \ DOMAIN calls :
        /\ DOMAIN calls' = DOMAIN calls \cup {x} /\ calls'[x] = r
        /\ \A i \in DOMAIN calls : calls'[i] = calls[i]
  BY SendIs DEF Issue
<1>2. r \in RequestType /\ r.op = op /\ r.ch = ch /\ ~r.ran /\ r.mine
  BY RequestIs
<1>3. doubt' = IF Opposite(op, ch) THEN doubt \cup {ch} ELSE doubt
  BY DEF Issue
<1>. HIDE DEF r
<1>4. ASSUME NEW c \in Channel \ doubt' PROVE Sure(c)'
  <2>1. Sure(c) /\ (c = ch => ~Opposite(op, ch))
    BY <1>3 DEF Lists
  <2>2. \A i \in DOMAIN calls : c = ch /\ calls[i].ch = c => calls[i].op = op
    BY <2>1 DEF Opposite
  <2>3. \A i \in DOMAIN calls' : i = x \/ i \in DOMAIN calls
    BY <1>1
  <2>4. \A i \in DOMAIN calls' : calls'[i].ch = c => calls'[i].mine
    BY <1>1, <1>2, <2>1, <2>3 DEF Sure
  <2>5. \A i, j \in DOMAIN calls' : calls'[i].ch = c /\ calls'[j].ch = c => calls'[i].op = calls'[j].op
    BY <1>1, <1>2, <2>1, <2>2, <2>3 DEF Sure
  <2>6. \A i \in DOMAIN calls' : calls'[i].ch = c /\ calls'[i].ran => (c \in subs' <=> calls'[i].op = "sub")
    BY <1>1, <1>2, <2>1, <2>3 DEF Sure
  <2>7. (\A i \in DOMAIN calls' : calls'[i].ch = c => ~calls'[i].ran) => (channels'[c] > 0 <=> c \in subs')
    BY <1>1, <2>1 DEF Sure
  <2>. QED
    BY <2>4, <2>5, <2>6, <2>7 DEF Sure
<1>5. \A i \in DOMAIN calls' : calls'[i] \in RequestType /\ (calls'[i].ran => calls'[i].mine)
  BY <1>1, <1>2 DEF Lists
<1>. QED
  BY <1>4, <1>5 DEF Lists

LEMMA SubscribeChannelLists ==
  ASSUME Lists, NEW ch \in Channel, SubscribeChannel(ch),
         kind = "pubsub", mounted, UNCHANGED <<kind, mounted, channels, subs>>
  PROVE  Lists'
<1>1. CASE Issue("sub", ch)
  BY <1>1, IssueLists
<1>2. CASE UNCHANGED <<calls, doubt>>
  BY <1>2, SameLists
<1>. QED
  BY <1>1, <1>2 DEF SubscribeChannel

LEMMA UserLists ==
  ASSUME Lists, SubscribeAll \/ \E ch \in Channel : Subscribe(ch) \/ Unsubscribe(ch)
  PROVE  Lists'
<1>1. ASSUME NEW ch \in Channel, Subscribe(ch) PROVE Lists'
  BY <1>1, SubscribeChannelLists DEF Subscribe, tab, server
<1>2. ASSUME NEW ch \in Channel, Unsubscribe(ch) PROVE Lists'
  BY <1>2, IssueLists DEF Unsubscribe, UnsubscribeChannel, tab, server
<1>3. CASE SubscribeAll
  BY <1>3, SubscribeChannelLists, IssueLists, StreamViewsAssumption
     DEF SubscribeAll, UnsubscribeChannel, tab, server
<1>. QED
  BY <1>1, <1>2, <1>3

\* The handler of a request runs.
LEMMA ExecuteLists ==
  ASSUME Lists, NEW i \in DOMAIN calls, Execute(i)
  PROVE  Lists'
<1>. DEFINE r == calls[i]
            after == IF r.op = "sub" THEN subs \cup {r.ch} ELSE subs \ {r.ch}
<1>1. /\ UNCHANGED <<kind, mounted, channels>> /\ ~r.ran
      /\ r \in RequestType /\ r.ch \in Channel /\ r.op \in {"sub", "unsub"} /\ kind = "pubsub"
  BY DEF Execute, tab, Lists, RequestType
<1>2. CASE /\ subs' = after /\ r.mine
           /\ calls' = [calls EXCEPT ![i].ran = TRUE] /\ UNCHANGED doubt
  <2>1. /\ DOMAIN calls' = DOMAIN calls /\ \A j \in DOMAIN calls \ {i} : calls'[j] = calls[j]
        /\ calls'[i] \in RequestType /\ calls'[i].ran /\ calls'[i].mine
        /\ calls'[i].op = r.op /\ calls'[i].ch = r.ch
    BY <1>1, <1>2 DEF RequestType
  <2>2. mounted
    BY <1>2 DEF Lists
  <2>3. ASSUME NEW c \in Channel \ doubt' PROVE Sure(c)'
    <3>1. Sure(c)
      BY <1>2, <2>2 DEF Lists
    <3>2. CASE c # r.ch
      <4>1. c \in subs' <=> c \in subs
        BY <1>2, <3>2
      <4>2. \A j \in DOMAIN calls' : calls'[j].ch = c => calls'[j] = calls[j]
        BY <2>1, <3>2
      <4>3. \A j \in DOMAIN calls : calls[j].ch = c => calls'[j] = calls[j]
        BY <2>1, <3>2
      <4>. QED
        BY <1>1, <2>1, <3>1, <4>1, <4>2, <4>3 DEF Sure
    <3>3. CASE c = r.ch
      <4>1. \A j \in DOMAIN calls' : calls'[j].ch = c => calls'[j].mine /\ calls'[j].op = r.op
        BY <2>1, <3>1, <3>3 DEF Sure
      <4>2. c \in subs' <=> r.op = "sub"
        BY <1>1, <1>2, <3>3
      <4>. QED
        BY <2>1, <3>3, <4>1, <4>2 DEF Sure
    <3>. QED
      BY <3>2, <3>3
  <2>4. \A j \in DOMAIN calls' : calls'[j] \in RequestType /\ (calls'[j].ran => calls'[j].mine)
    BY <2>1 DEF Lists
  <2>. QED
    BY <1>1, <2>2, <2>3, <2>4 DEF Lists
<1>3. CASE calls' = Without(i) /\ subs' \in {subs, after}
           /\ (mounted => doubt \cup {r.ch} \subseteq doubt' \/ (r.ch \in doubt /\ doubt' = doubt))
  <2>1. DOMAIN calls' = DOMAIN calls \ {i} /\ \A j \in DOMAIN calls' : calls'[j] = calls[j]
    BY <1>3 DEF Without
  <2>2. ASSUME mounted, NEW c \in Channel \ doubt' PROVE Sure(c)'
    <3>1. Sure(c) /\ c # r.ch
      BY <1>3, <2>2 DEF Lists
    <3>2. c \in subs' <=> c \in subs
      BY <1>3, <3>1
    <3>. QED
      BY <1>1, <2>1, <3>1, <3>2 DEF Sure
  <2>. QED
    BY <1>1, <2>1, <2>2 DEF Lists
<1>4. ~r.mine /\ mounted => r.ch \in doubt
  BY <1>1 DEF Lists, Sure
<1>. QED
  BY <1>2, <1>3, <1>4 DEF Execute

\* A request is answered.
LEMMA AnswerLists ==
  ASSUME Lists, NEW i \in DOMAIN calls, Answer(i)
  PROVE  Lists'
<1>. DEFINE r == calls[i]
<1>1. /\ UNCHANGED <<kind, mounted, subs, doubt>> /\ r.ran /\ calls' = Without(i)
      /\ channels' = [channels EXCEPT ![r.ch] = IF r.op = "sub" THEN channels[r.ch] + 1 ELSE 0]
      /\ r \in RequestType /\ r.ch \in Channel /\ r.op \in {"sub", "unsub"} /\ r.mine
  BY DEF Answer, tab, server, Listed, Lists, RequestType
<1>2. DOMAIN calls' = DOMAIN calls \ {i} /\ \A j \in DOMAIN calls' : calls'[j] = calls[j]
  BY <1>1 DEF Without
<1>3. mounted
  BY <1>1 DEF Lists
<1>4. /\ channels' \in [Channel -> Nat]
      /\ \A c \in Channel \ {r.ch} : channels'[c] = channels[c]
      /\ channels'[r.ch] = IF r.op = "sub" THEN channels[r.ch] + 1 ELSE 0
      /\ channels[r.ch] \in Nat
  BY <1>1 DEF Lists
<1>5. channels'[r.ch] > 0 <=> r.op = "sub"
  BY <1>4
<1>6. ASSUME NEW c \in Channel \ doubt' PROVE Sure(c)'
  <2>1. Sure(c)
    BY <1>1, <1>3, <1>6 DEF Lists
  <2>2. c = r.ch => (c \in subs <=> r.op = "sub")
    BY <1>1, <2>1 DEF Sure
  <2>3. (\A j \in DOMAIN calls' : calls'[j].ch = c => ~calls'[j].ran) => (channels'[c] > 0 <=> c \in subs')
    <3>1. CASE c = r.ch
      BY <1>1, <1>5, <2>2, <3>1
    <3>2. CASE c # r.ch
      <4>1. (\A j \in DOMAIN calls' : calls'[j].ch = c => ~calls'[j].ran)
              => \A j \in DOMAIN calls : calls[j].ch = c => ~calls[j].ran
        BY <1>2, <3>2
      <4>. QED
        BY <1>1, <1>4, <2>1, <3>2, <4>1 DEF Sure
    <3>. QED
      BY <3>1, <3>2
  <2>. QED
    BY <1>1, <1>2, <2>1, <2>3 DEF Sure
<1>. QED
  BY <1>1, <1>2, <1>3, <1>4, <1>6 DEF Lists

\* The tab is opened, and closed.
LEMMA MountLists ==
  ASSUME Lists, NEW s \in Stream, Mount(s)
  PROVE  Lists'
<1>1. UNCHANGED <<kind, channels, subs>> /\ ~mounted /\ mounted'
  BY DEF Mount, server
<1>2. CASE kind = "pubsub"
  <2>. DEFINE r == Request("unsub", All)
  <2>1. PICK x \in Call \ DOMAIN calls :
          /\ DOMAIN calls' = DOMAIN calls \cup {x} /\ calls'[x] = r
          /\ \A i \in DOMAIN calls : calls'[i] = calls[i]
    BY <1>2, SendIs DEF Mount
  <2>2. doubt' = subs \cup {calls[i].ch : i \in DOMAIN calls}
    BY <1>2 DEF Mount
  <2>3. r \in RequestType /\ r.op = "unsub" /\ r.ch = All /\ ~r.ran /\ r.mine
    BY RequestIs, StreamViewsAssumption
  <2>. HIDE DEF r
  <2>4. ASSUME NEW c \in Channel \ doubt' PROVE Sure(c)'
    <3>1. c \notin subs /\ \A i \in DOMAIN calls : calls[i].ch # c
      BY <2>2
    <3>2. \A i \in DOMAIN calls' : calls'[i].ch = c => calls'[i] = r
      BY <2>1, <3>1
    <3>3. ~(channels'[c] > 0) /\ c \notin subs'
      BY <1>1, <3>1 DEF Lists
    <3>. QED
      BY <2>3, <3>2, <3>3 DEF Sure
  <2>5. \A i \in DOMAIN calls' : calls'[i] \in RequestType /\ (calls'[i].ran => calls'[i].mine)
    BY <2>1, <2>3 DEF Lists
  <2>. QED
    BY <1>1, <1>2, <2>4, <2>5 DEF Lists
<1>3. CASE kind # "pubsub"
  <2>1. UNCHANGED <<calls, doubt>>
    BY <1>3 DEF Mount
  <2>2. \A c \in Channel : ~(channels[c] > 0)
    BY <1>1 DEF Lists
  <2>. QED
    BY <1>1, <1>3, <2>1, <2>2 DEF Lists, Sure
<1>. QED
  BY <1>2, <1>3

LEMMA UnmountLists == ASSUME Lists, Unmount PROVE Lists'
<1>1. /\ kind' = kind /\ subs' = subs /\ ~mounted' /\ channels' = [ch \in Channel |-> 0]
      /\ calls' = [i \in Waiting |-> [calls[i] EXCEPT !.mine = FALSE]]
  BY DEF Unmount, server
<1>2. ASSUME NEW i \in DOMAIN calls'
      PROVE  calls'[i] \in RequestType /\ ~calls'[i].ran /\ ~calls'[i].mine
  <2>1. i \in DOMAIN calls /\ ~calls[i].ran /\ calls'[i] = [calls[i] EXCEPT !.mine = FALSE]
    BY <1>1 DEF Waiting
  <2>2. calls[i] \in RequestType
    BY <2>1 DEF Lists
  <2>. QED
    BY <2>1, <2>2 DEF RequestType
<1>3. DOMAIN calls' \subseteq DOMAIN calls
  BY <1>1 DEF Waiting
<1>. QED
  BY <1>1, <1>2, <1>3 DEF Lists

LEMMA CloseLists == ASSUME Lists, NEW s \in Stream, Close(s) PROVE Lists'
<1>1. UNCHANGED <<kind, mounted, channels, calls>>
  BY DEF Close, tab, list
<1>2. CASE holder = s
  BY <1>1, <1>2, SameLists DEF Close
<1>3. CASE holder # s
  BY <1>1, <1>3, SameLists DEF Close, server
<1>. QED
  BY <1>2, <1>3

LEMMA NextLists == Lists /\ [Next]_vars => Lists'
<1>. SUFFICES ASSUME Lists, [Next]_vars PROVE Lists'
  OBVIOUS
<1>1. CASE UNCHANGED vars
  BY <1>1, SameLists DEF vars, tab, list, server
<1>2. CASE SubscribeAll \/ \E ch \in Channel : Subscribe(ch) \/ Unsubscribe(ch)
  BY <1>2, UserLists
<1>3. CASE RemoveClient
  BY <1>3, SameLists DEF RemoveClient, tab, list
<1>4. CASE \E i \in DOMAIN calls : Execute(i) \/ Answer(i)
  BY <1>4, ExecuteLists, AnswerLists
<1>5. CASE Unmount
  BY <1>5, UnmountLists
<1>6. CASE Stop
  BY <1>6, SameLists DEF Stop, list, server
<1>7. CASE \E s \in Stream : StartButton(s) \/ Receive(s) \/ Ends(s) \/ Serve(s)
  BY <1>7, SameLists DEF StartButton, Receive, Ends, Serve, tab, list, server
<1>8. CASE \E s \in Stream : Mount(s) \/ Close(s)
  BY <1>8, MountLists, CloseLists
<1>. QED
  BY <1>1, <1>2, <1>3, <1>4, <1>5, <1>6, <1>7, <1>8 DEF Next

\* Once the requests about a channel are answered the list has it if and only if
\* the server does, but for the channels that are in doubt: the answers of
\* subscribeChannel and unsubscribeChannel (connection-detail-tab-pubsub.tsx
\* 41-75) in any order, and however often a channel is asked for.
THEOREM ListedIsSubscribed == Spec => []ShownIsSubscribed
<1>1. Lists => ShownIsSubscribed
  BY DEF Lists, Sure, ShownIsSubscribed
<1>. QED
  BY InitLists, NextLists, <1>1, PTL DEF Spec
=============================================================================
