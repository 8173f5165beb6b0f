---------------------------- MODULE MonitorSession ----------------------------
(***************************************************************************)
(* Real-time MONITOR streaming over one "<connection>:<db>" key:           *)
(* internal/logic/monitor/start_logic.go and stop_logic.go, and the part   *)
(* of ClientManager.Remove that ends the sessions of a removed client      *)
(* (Client.closeStreams).                                                  *)
(*                                                                         *)
(* A session is one call of Start.  It takes the client from the manager,  *)
(* dials a socket of its own, waits for the server to answer AUTH and      *)
(* MONITOR, registers itself on the client under MonitorMu, displaces the  *)
(* session registered before it, and reads until its socket is closed.     *)
(* Every session holds the *Client it was given, also after that client    *)
(* has left the manager.                                                   *)
(***************************************************************************)
CONSTANTS
  Session,   \* calls of Start
  Client,    \* *svc.Client values, one after the other under the key
  Nil       \* nil

ASSUME NilAssumption == Nil \notin Session /\ Nil \notin Client

VARIABLES
  cached,     \* the client the manager has under the key, or Nil
  used,       \* clients that have been installed
  mon,        \* Client -> the fields MonitorMu guards
  run,        \* Session -> what the goroutine of the call is doing
  cancelled,  \* sessions whose context has been cancelled
  sockets,    \* sessions whose socket is open
  stop        \* the CancelFunc a Stop has read and not called yet, or Nil

monitorVars == <<cached, used, mon, run, cancelled, sockets, stop>>

SessionOrNil == Session \cup {Nil}
Fields == [active : BOOLEAN, cancel : SessionOrNil, conn : SessionOrNil]
Phase == {"new", "dial", "handshake", "register", "displace", "announce", "read",
          "cleanup", "close", "done"}
Run == [at : Phase, on : Client \cup {Nil}, prev : SessionOrNil]

NoMonitor == [active |-> FALSE, cancel |-> Nil, conn |-> Nil]

At(s, phase) == run[s].at = phase
Goto(s, phase) == run' = [run EXCEPT ![s] = [@ EXCEPT !.at = phase]]

\* Between registering and leaving: the session may hold the client's fields.
Registered(s) == run[s].at \in {"displace", "announce", "read", "cleanup"}

-----------------------------------------------------------------------------
(* The manager *)

\* A Connect installs a client that has never been under the key.
Install(c) ==
  /\ cached = Nil
  /\ c \notin used
  /\ cached' = c
  /\ used' = used \cup {c}
  /\ UNCHANGED <<mon, run, cancelled, sockets, stop>>

\* Mutant: the cancel function is dropped without being called.
RemoveForgets ==
  /\ cached # Nil
  /\ cached' = Nil
  /\ mon' = [mon EXCEPT ![cached] = [@ EXCEPT !.active = FALSE, !.cancel = Nil]]
  /\ UNCHANGED <<used, run, cancelled, sockets, stop>>

\* Remove: closeStreams cancels the registered session; MonitorConn stays.
Remove ==
  /\ cached # Nil
  /\ cached' = Nil
  /\ mon' = [mon EXCEPT ![cached] = [@ EXCEPT !.active = FALSE, !.cancel = Nil]]
  /\ cancelled' = cancelled \cup ({mon[cached].cancel} \ {Nil})
  /\ UNCHANGED <<used, run, sockets, stop>>

-----------------------------------------------------------------------------
(* Start *)

\* RedisManager.Get; without a client the call fails and nothing happens.
StartGet(s) ==
  /\ At(s, "new")
  /\ cached # Nil
  /\ run' = [run EXCEPT ![s] = [@ EXCEPT !.at = "dial", !.on = cached]]
  /\ UNCHANGED <<cached, used, mon, cancelled, sockets, stop>>

\* dialMonitor, the connection: it follows the context.  It may still succeed
\* although the caller has gone, and it works on a client whose Rdb is closed,
\* because it only borrows the dialler.
StartDial(s) ==
  /\ At(s, "dial")
  /\ Goto(s, "handshake")
  /\ sockets' = sockets \cup {s}
  /\ UNCHANGED <<cached, used, mon, cancelled, stop>>

StartDialFails(s) ==
  /\ At(s, "dial")
  /\ Goto(s, "done")
  /\ cancelled' = cancelled \cup {s}
  /\ UNCHANGED <<cached, used, mon, sockets, stop>>

\* dialMonitor, the replies to AUTH and MONITOR (and of an HTTP proxy): read
\* without a deadline and whatever becomes of the context, so it is the server
\* that takes this step, if it ever does.
StartHandshake(s) ==
  /\ At(s, "handshake")
  /\ Goto(s, "register")
  /\ UNCHANGED <<cached, used, mon, cancelled, sockets, stop>>

\* The server refuses or hangs up.
HandshakeFails(s) ==
  /\ At(s, "handshake")
  /\ Goto(s, "done")
  /\ cancelled' = cancelled \cup {s}
  /\ sockets' = sockets \ {s}
  /\ UNCHANGED <<cached, used, mon, stop>>

\* Mutant: no such goroutine.
WatchNever(s) == FALSE /\ UNCHANGED monitorVars

\* 51-54: the goroutine that turns the end of the context into a closed socket.
\* There is none before the handshake is over.
Watch(s) ==
  /\ s \in cancelled
  /\ ~At(s, "handshake")
  /\ s \in sockets
  /\ sockets' = sockets \ {s}
  /\ UNCHANGED <<cached, used, mon, run, cancelled, stop>>

\* 56-61, one critical section.
StartRegister(s) ==
  LET c == run[s].on IN
  /\ At(s, "register")
  /\ mon' = [mon EXCEPT ![c] = [active |-> TRUE, cancel |-> s, conn |-> s]]
  /\ run' = [run EXCEPT ![s] = [@ EXCEPT !.at = "displace", !.prev = mon[c].cancel]]
  /\ UNCHANGED <<cached, used, cancelled, sockets, stop>>

\* 62-64, after the unlock: the session that was there before is cancelled.
StartDisplace(s) ==
  /\ At(s, "displace")
  /\ run' = [run EXCEPT ![s] = [@ EXCEPT !.at = "announce", !.prev = Nil]]
  /\ cancelled' = cancelled \cup ({run[s].prev} \ {Nil})
  /\ UNCHANGED <<cached, used, mon, sockets, stop>>

\* 84-86: the first frame is sent, or the stream is already gone.
StartAnnounce(s) ==
  /\ At(s, "announce")
  /\ \/ Goto(s, "read")
     \/ Goto(s, "cleanup")
  /\ UNCHANGED <<cached, used, mon, cancelled, sockets, stop>>

\* 88-100: the loop ends when the socket is closed.
ReadEnds(s) ==
  /\ At(s, "read")
  /\ s \notin sockets
  /\ Goto(s, "cleanup")
  /\ UNCHANGED <<cached, used, mon, cancelled, sockets, stop>>

\* ... or when the server hangs up, or a frame cannot be sent.
ReadBreaks(s) ==
  /\ At(s, "read")
  /\ s \in sockets
  /\ Goto(s, "cleanup")
  /\ UNCHANGED <<cached, used, mon, cancelled, sockets, stop>>

\* Mutant: the fields are cleared whoever they belong to.
CleanupAny(s) ==
  /\ At(s, "cleanup")
  /\ mon' = [mon EXCEPT ![run[s].on] = NoMonitor]
  /\ Goto(s, "close")
  /\ UNCHANGED <<cached, used, cancelled, sockets, stop>>

\* Mutant: the comparison looks at MonitorCancel, which closeStreams clears.
CleanupByCancel(s) ==
  LET c == run[s].on IN
  /\ At(s, "cleanup")
  /\ mon' = IF mon[c].cancel = s THEN [mon EXCEPT ![c] = NoMonitor] ELSE mon
  /\ Goto(s, "close")
  /\ UNCHANGED <<cached, used, cancelled, sockets, stop>>

\* 67-74: the fields are cleared only if they are still this session's.
Cleanup(s) ==
  LET c == run[s].on IN
  /\ At(s, "cleanup")
  /\ mon' = IF mon[c].conn = s THEN [mon EXCEPT ![c] = NoMonitor] ELSE mon
  /\ Goto(s, "close")
  /\ UNCHANGED <<cached, used, cancelled, sockets, stop>>

\* 76-81: cancel and CloseSession are idempotent; the last frame is sent.
CloseSession(s) ==
  /\ At(s, "close")
  /\ Goto(s, "done")
  /\ cancelled' = cancelled \cup {s}
  /\ sockets' = sockets \ {s}
  /\ UNCHANGED <<cached, used, mon, stop>>

-----------------------------------------------------------------------------
(* Ways to end a session from outside *)

\* The web view cancels its stream (monitor.api.tsx 28-32, 53-59), or the
\* window goes away: out.Context() ends.
ViewCancels(s) ==
  /\ run[s].at \notin {"new", "done"}
  /\ s \notin cancelled
  /\ cancelled' = cancelled \cup {s}
  /\ UNCHANGED <<cached, used, mon, run, sockets, stop>>

\* Stop reads the cancel function under the lock ...
StopRead ==
  /\ cached # Nil
  /\ stop = Nil
  /\ mon[cached].cancel # Nil
  /\ stop' = mon[cached].cancel
  /\ UNCHANGED <<cached, used, mon, run, cancelled, sockets>>

\* ... and calls it after the unlock, whatever has happened since.
StopCall ==
  /\ stop # Nil
  /\ cancelled' = cancelled \cup {stop}
  /\ stop' = Nil
  /\ UNCHANGED <<cached, used, mon, run, sockets>>

-----------------------------------------------------------------------------
MonitorInit ==
  /\ cached = Nil
  /\ used = {}
  /\ mon = [c \in Client |-> NoMonitor]
  /\ run = [s \in Session |-> [at |-> "new", on |-> Nil, prev |-> Nil]]
  /\ cancelled = {}
  /\ sockets = {}
  /\ stop = Nil

\* What waits for the network: the connection and the handshake.
Connects(s) == StartDial(s) \/ StartDialFails(s)
ServerAnswers(s) == StartHandshake(s) \/ HandshakeFails(s)

\* What the goroutine of a session does on its own once the server has answered.
Advance(s) ==
  \/ StartRegister(s) \/ StartDisplace(s) \/ StartAnnounce(s)
  \/ ReadEnds(s) \/ Cleanup(s) \/ CloseSession(s)

MonitorNext ==
  \/ \E c \in Client : Install(c)
  \/ Remove
  \/ \E s \in Session :
       \/ StartGet(s) \/ Connects(s) \/ ServerAnswers(s) \/ Advance(s)
       \/ Watch(s) \/ ReadBreaks(s) \/ ViewCancels(s)
  \/ StopRead \/ StopCall

MonitorSpec == MonitorInit /\ [][MonitorNext]_monitorVars

\* The goroutines of a session and of a Stop keep running, and a connection is
\* given up once its context is cancelled; sockets need not break, nobody has
\* to stop a session, and no server has to answer a handshake.
MonitorFairSpec ==
  /\ MonitorSpec /\ WF_monitorVars(StopCall)
  /\ \A s \in Session : /\ WF_monitorVars(s \in cancelled /\ Connects(s))
                        /\ WF_monitorVars(Advance(s)) /\ WF_monitorVars(Watch(s))

-----------------------------------------------------------------------------
(* Properties *)

TypeOK ==
  /\ cached \in Client \cup {Nil}
  /\ used \in SUBSET Client
  /\ mon \in [Client -> Fields]
  /\ run \in [Session -> Run]
  /\ cancelled \in SUBSET Session
  /\ sockets \in SUBSET Session
  /\ stop \in SessionOrNil

\* Status answers from MonitorActive, Stop acts on MonitorCancel: a client
\* reported as monitored can be stopped (status_logic.go 29-31, stop_logic.go
\* 29-35).
ActiveCanBeStopped == \A c \in Client : mon[c].active <=> mon[c].cancel # Nil

\* The fields of a client always name one and the same session, and that
\* session has not left yet: no late cleanup leaves a finished session behind.
FieldsNameALiveSession ==
  \A c \in Client :
    /\ mon[c].cancel # Nil => mon[c].cancel = mon[c].conn
    /\ mon[c].conn # Nil => Registered(mon[c].conn) /\ run[mon[c].conn].on = c

\* A session that streams is the one its client can cancel, or it has been
\* cancelled, or the session that displaced it is about to: no MONITOR
\* connection outlives every handle to it (start_logic.go 56-74).
NoSessionOrphaned ==
  \A s \in Session : run[s].at \in {"displace", "announce", "read"} =>
    \/ mon[run[s].on].cancel = s
    \/ s \in cancelled
    \/ \E t \in Session : At(t, "displace") /\ run[t].prev = s

MonitorInv ==
  /\ TypeOK
  /\ ActiveCanBeStopped
  /\ FieldsNameALiveSession
  /\ NoSessionOrphaned
  /\ \A s \in Session : run[s].at \notin {"new", "done"} => run[s].on \in Client

\* Once a session is cancelled or displaced it ends, and its socket with it,
\* unless the server never answers its handshake: dialMonitor reads the replies
\* without a deadline, before the goroutine that would close the socket
\* (start_logic.go 45-54, 103-163).
Doomed(s) == s \in cancelled \/ \E t \in Session : At(t, "displace") /\ run[t].prev = s
DoomedEnds ==
  \A s \in Session : \/ <>[]At(s, "handshake")
                     \/ Doomed(s) ~> (At(s, "done") /\ s \notin sockets)

\* Removing the client (Disconnect, a stale Connect, shutdown) ends the
\* session registered on it, the one MonitorConn still names while
\* MonitorActive is cleared (client.go 36-43).
RemoveEnds ==
  \A s \in Session, c \in Client :
    (cached # c /\ mon[c].conn = s /\ ~mon[c].active) ~> At(s, "done")
=============================================================================
