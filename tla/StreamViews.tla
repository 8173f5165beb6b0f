----------------------------- MODULE StreamViews -----------------------------
(***************************************************************************)
(* The three tabs that read a stream of the server: MONITOR, Analysis and  *)
(* Pub/Sub, with the hooks that open, cancel and read the streams, the     *)
(* bridge's lazy stream, and the subscriptions the Pub/Sub tab lists.      *)
(*                                                                         *)
(* A stream that was cancelled goes on until its loop ends, so several of  *)
(* one tab overlap: the hook has a reference to the newest only.  The      *)
(* server side is what the handlers of MonitorSession and PubSubStream     *)
(* promise; the messages themselves are left out.                          *)
(***************************************************************************)
EXTENDS Naturals, Sequences

CONSTANTS
  Kind,     \* the tabs considered
  Stream,   \* identities of streams; bounds how many overlap
  Call,     \* identities of requests; bounds how many are in flight
  Channel,  \* channels, All among them
  All,      \* "*"
  None

ASSUME StreamViewsAssumption ==
  /\ Kind \subseteq {"monitor", "analysis", "pubsub"}
  /\ All \in Channel /\ None \notin Stream \cup Channel

VARIABLES
  kind,
  mounted,    \* the tab is open
  ref,        \* streamRef.current, or the stream of the Pub/Sub effect
  on,         \* active or running: the button offers to stop
  overtaken,  \* history: an older stream has written on since ref was set
  streams,    \* Stream -> its loop, its call and the status frames between them
  channels,   \* the list of subscriptions of the Pub/Sub tab: how often a channel is in it
  all,        \* isSubscribeAll
  calls,      \* subscribe and unsubscribe requests in flight
  holder,     \* the stream that has set PubSubActive, or None
  subs,       \* the channels of the server's PubSub
  doubt       \* history: channels whose two sides went apart, as named below

tab == <<mounted, ref, on, overtaken>>
list == <<channels, all, calls>>
server == <<holder, subs>>
vars == <<kind, tab, streams, list, server, doubt>>

\* loop: the for await; srv: the handler; here: of the tab that is open now.
Unused == [loop |-> FALSE, srv |-> "none", cancelled |-> FALSE, here |-> FALSE, frames |-> << >>]
Asked == [Unused EXCEPT !.loop = TRUE, !.srv = "asked", !.here = TRUE]
Free(s) == streams[s] = Unused /\ ref # s
Set(s, r) == [streams EXCEPT ![s] = r]

\* A stream nothing refers to any more is forgotten.
Tidy(r) == IF ~r.loop /\ r.srv = "none" THEN Unused ELSE r

IsHook == kind \in {"monitor", "analysis"}

Init ==
  /\ kind \in Kind
  /\ mounted = FALSE /\ ref = None /\ on = FALSE /\ overtaken = FALSE
  /\ streams = [s \in Stream |-> Unused]
  /\ channels = [ch \in Channel |-> 0] /\ all = FALSE /\ calls = << >>
  /\ holder = None /\ subs = {} /\ doubt = {}

-----------------------------------------------------------------------------
(* Requests of the Pub/Sub tab.                                             *)

\* Of an open tab (mine) or a closed one, before or after its handler ran.
Request(op, ch) == [op |-> op, ch |-> ch, ran |-> FALSE, mine |-> TRUE]
Opposite(op, ch) == \E i \in DOMAIN calls : calls[i].op # op /\ calls[i].ch = ch

Send(r) ==
  \E x \in Call \ DOMAIN calls :
    calls' = [i \in DOMAIN calls \cup {x} |-> IF i = x THEN r ELSE calls[i]]
Without(i) == [j \in DOMAIN calls \ {i} |-> calls[j]]

Issue(op, ch) ==
  /\ Send(Request(op, ch))
  /\ doubt' = IF Opposite(op, ch) THEN doubt \cup {ch} ELSE doubt

\* subscribeChannel tests the list it was rendered with.
SubscribeChannel(ch) ==
  \/ channels[ch] = 0 /\ Issue("sub", ch)
  \/ channels[ch] > 0 /\ UNCHANGED <<calls, doubt>>

UnsubscribeChannel(ch) == Issue("unsub", ch)

\* The form and the cross of a channel.  Under Subscribe all they take no
\* mouse, but the keyboard still reaches them.
Subscribe(ch) ==
  /\ kind = "pubsub" /\ mounted /\ ch # All
  /\ SubscribeChannel(ch)
  /\ UNCHANGED <<kind, tab, streams, channels, all, server>>

Unsubscribe(ch) ==
  /\ kind = "pubsub" /\ mounted /\ channels[ch] > 0
  /\ UnsubscribeChannel(ch)
  /\ UNCHANGED <<kind, tab, streams, channels, all, server>>

\* The switch, and the effect that follows it.
SubscribeAll ==
  /\ kind = "pubsub" /\ mounted
  /\ all' = ~all
  /\ IF all THEN UnsubscribeChannel(All) ELSE SubscribeChannel(All)
  /\ UNCHANGED <<kind, tab, streams, channels, server>>

\* The handler, at any time and in any order.  One that fails may have been
\* sent all the same; its answer changes nothing, nor does the answer to a tab
\* closed since.
Execute(i) ==
  /\ ~calls[i].ran
  /\ LET ch == calls[i].ch
         after == IF calls[i].op = "sub" THEN subs \cup {ch} ELSE subs \ {ch}
     IN  \/ /\ subs' = after
            /\ calls' = IF calls[i].mine THEN [calls EXCEPT ![i].ran = TRUE] ELSE Without(i)
            /\ UNCHANGED doubt
         \/ /\ subs' \in {subs, after}
            /\ calls' = Without(i)
            /\ doubt' = IF mounted THEN doubt \cup {ch} ELSE doubt
  /\ UNCHANGED <<kind, tab, streams, channels, all, holder>>

\* Mutant: only the first entry of the list is taken out.
ListedFirstOnly(r) ==
  [channels EXCEPT ![r.ch] = IF r.op = "sub" THEN @ + 1 ELSE IF @ = 0 THEN 0 ELSE @ - 1]

Listed(r) ==
  [channels EXCEPT ![r.ch] = IF r.op = "sub" THEN @ + 1 ELSE 0]

Answer(i) ==
  /\ calls[i].ran
  /\ channels' = Listed(calls[i])
  /\ calls' = Without(i)
  /\ UNCHANGED <<kind, tab, streams, all, server, doubt>>

-----------------------------------------------------------------------------
(* The tab and the hook.                                                    *)

\* Mutant: setRunning(true) is left out.
StartSilently(s) ==
  /\ ref = None /\ Free(s)
  /\ streams' = Set(s, Asked)
  /\ ref' = s /\ overtaken' = FALSE
  /\ on' = on

\* start and run: nothing while there is a stream; a profile runs from here,
\* MONITOR from the first status frame.
Start(s) ==
  /\ ref = None /\ Free(s)
  /\ streams' = Set(s, Asked)
  /\ ref' = s /\ overtaken' = FALSE
  /\ on' = (on \/ kind = "analysis")

\* The effects of the first render: a stream, and Subscribe all is off.
Mount(s) ==
  /\ ~mounted /\ Free(s)
  /\ mounted' = TRUE
  /\ Start(s)
  /\ IF kind = "pubsub"
     THEN /\ Send(Request("unsub", All))
          /\ doubt' = subs \cup {calls[i].ch : i \in DOMAIN calls}
     ELSE UNCHANGED <<calls, doubt>>
  /\ UNCHANGED <<kind, channels, all, server>>

\* Mutant: what is running is left to run.
CancelledNot == streams

Cancelled == IF ref = None THEN streams ELSE [streams EXCEPT ![ref].cancelled = TRUE]

\* Requests whose handler has yet to run.
Waiting == {i \in DOMAIN calls : ~calls[i].ran}

\* The tab is closed: whatever was of it has no effect on the next one.
Unmount ==
  /\ mounted
  /\ mounted' = FALSE /\ ref' = None /\ on' = FALSE /\ overtaken' = FALSE
  /\ streams' = [s \in Stream |-> Tidy([Cancelled[s] EXCEPT !.here = FALSE])]
  /\ calls' = [i \in Waiting |-> [calls[i] EXCEPT !.mine = FALSE]]
  /\ channels' = [ch \in Channel |-> 0] /\ all' = FALSE /\ doubt' = {}
  /\ UNCHANGED <<kind, server>>

\* The button: start while nothing is shown to run, otherwise stop.
StartButton(s) ==
  /\ IsHook /\ mounted /\ ~on
  /\ Start(s)
  /\ UNCHANGED <<kind, mounted, list, server, doubt>>

Stop ==
  /\ IsHook /\ mounted /\ on
  /\ streams' = Cancelled
  /\ ref' = None /\ on' = FALSE
  /\ UNCHANGED <<kind, mounted, overtaken, list, server, doubt>>

\* A status frame, of whichever stream it comes.
Receive(s) ==
  LET r == streams[s]
  IN  /\ r.loop /\ r.frames # << >>
      /\ streams' = Set(s, [r EXCEPT !.frames = Tail(@)])
      /\ on' = IF r.here THEN Head(r.frames) ELSE on
      /\ overtaken' = (overtaken \/ (r.here /\ ref \notin {s, None}))
      /\ UNCHANGED <<kind, mounted, ref, list, server, doubt>>

\* Mutant: the end of any stream clears the reference.
KeptAnyway(s) == None

\* if (streamRef.current === stream) streamRef.current = null
Kept(s) == IF ref = s THEN None ELSE ref

\* The loop ends: when the stream is over or, once cancelled, at any time.
\* finally sets the flag for an older stream too.
Ends(s) ==
  LET r == streams[s]
  IN  /\ r.loop
      /\ r.cancelled \/ (r.srv = "none" /\ r.frames = << >>)
      /\ streams' = Set(s, Tidy([r EXCEPT !.loop = FALSE, !.frames = << >>]))
      /\ IF IsHook /\ r.here
         THEN /\ ref' = Kept(s) /\ on' = FALSE
              /\ overtaken' = (overtaken \/ ref \notin {s, None})
         ELSE UNCHANGED <<ref, on, overtaken>>
      /\ UNCHANGED <<kind, mounted, list, server, doubt>>

-----------------------------------------------------------------------------
(* The handlers.                                                            *)

\* The bridge is there and the handler has begun, or has refused: a Pub/Sub
\* stream while PubSubActive is set.  A cancelled one may never be opened.
Serve(s) ==
  LET r == streams[s]
      begins == [r EXCEPT !.srv = "serving",
                          !.frames = IF kind = "monitor" /\ r.loop THEN << TRUE >> ELSE @]
  IN  /\ r.srv = "asked"
      /\ \/ /\ kind = "pubsub" => holder = None
            /\ streams' = Set(s, begins)
            /\ holder' = IF kind = "pubsub" THEN s ELSE holder
         \/ streams' = Set(s, Tidy([r EXCEPT !.srv = "none"])) /\ UNCHANGED holder
      /\ UNCHANGED <<kind, tab, list, subs, doubt>>

\* MONITOR says that it has stopped, unless a newer session displaced it.
Closed(r) ==
  {Tidy([r EXCEPT !.srv = "none", !.frames = IF says /\ r.loop THEN Append(@, FALSE) ELSE @]) :
     says \in IF kind = "monitor" THEN BOOLEAN ELSE {FALSE}}

\* The handler returns: cancelled, finished or cut off.  That of a Pub/Sub
\* stream closes the PubSub with every subscription on it.
Close(s) ==
  /\ streams[s].srv = "serving"
  /\ \E r \in Closed(streams[s]) : streams' = Set(s, r)
  /\ IF holder = s
     THEN /\ holder' = None /\ subs' = {}
          /\ doubt' = IF mounted THEN Channel ELSE doubt
     ELSE UNCHANGED <<server, doubt>>
  /\ UNCHANGED <<kind, tab, list>>

\* ClientManager.Remove closes a PubSub that no stream reads.
RemoveClient ==
  /\ kind = "pubsub" /\ holder = None /\ subs # {}
  /\ subs' = {}
  /\ doubt' = IF mounted THEN Channel ELSE doubt
  /\ UNCHANGED <<kind, tab, streams, list, holder>>

Next ==
  \/ \E ch \in Channel : Subscribe(ch) \/ Unsubscribe(ch)
  \/ SubscribeAll
  \/ \E i \in DOMAIN calls : Execute(i) \/ Answer(i)
  \/ Unmount \/ Stop \/ RemoveClient
  \/ \E s \in Stream : Mount(s) \/ StartButton(s) \/ Receive(s) \/ Ends(s) \/ Serve(s) \/ Close(s)

\* A request is served and answered, a frame that has arrived is read, and a
\* cancelled stream comes to an end on both sides.  A MONITOR need not begin:
\* its handler waits for the server without a deadline (MonitorSession).
Fairness ==
  /\ \A s \in Stream : /\ WF_vars(kind # "monitor" /\ Serve(s)) /\ WF_vars(Receive(s)) /\ WF_vars(Ends(s))
                       /\ WF_vars(streams[s].cancelled /\ Close(s))

Spec == Init /\ [][Next]_vars /\ Fairness

-----------------------------------------------------------------------------
(* What the tabs promise.                                                   *)

\* A stream that nobody has cancelled is the one the tab can cancel: however
\* old and new streams overlap, none runs on with no button and no unmount
\* that reaches it (the identity test of the finally blocks).
NoOrphan ==
  \A s \in Stream : streams[s].loop /\ ~streams[s].cancelled => ref = s /\ mounted

\* The button tells what runs.  Stop is offered only while there is a stream
\* to stop, or one stopped before has not ended; and a stream that runs is
\* offered to be stopped, unless an older one has written the flag since: the
\* unconditional setActive(false) and setRunning(false), after which a click
\* on start does nothing and the stream cannot be stopped from the tab.
Announced(s) == kind = "analysis" \/ (streams[s].srv = "serving" /\ streams[s].frames = << >>)
ButtonTellsTheTruth ==
  /\ on => ref # None \/ \E s \in Stream : streams[s].loop /\ streams[s].here
  /\ IsHook /\ ref # None /\ ~overtaken /\ Announced(ref) => on

\* Once the requests about a channel are answered it is listed if and only if
\* it is subscribed, however often it was asked for, unless a request for it
\* failed, crossed one for the opposite, was left behind by a tab closed
\* before, or the PubSub was closed under the tab.
ShownIsSubscribed ==
  mounted /\ kind = "pubsub" =>
    \A ch \in Channel \ doubt :
      (\A i \in DOMAIN calls : calls[i].ch # ch) => (channels[ch] > 0 <=> ch \in subs)

\* The streams of a closed tab come to an end, on the server too, whatever
\* had been opened when it was closed, except a MONITOR whose handshake the
\* server never answers.
Unanswered(s) == kind = "monitor" /\ streams[s].srv = "asked"
ClosedTabLeavesNothing ==
  \A s \in Stream : \/ <>[]Unanswered(s)
                    \/ (streams[s] # Unused /\ ~streams[s].here) ~> streams[s] = Unused
=============================================================================
