------------------------------ MODULE KeysSearch ------------------------------
(***************************************************************************)
(* Filtered key search: the hook that drives it in the web view            *)
(* (shell/hooks/api/keys-search.ts), the server stream it opens            *)
(* (client/keys_search_logic.go) and the walk over the masters of a        *)
(* cluster (pkg/redisscan).                                                *)
(*                                                                         *)
(* A run is one open stream: a call of run() waiting in the view, a        *)
(* goroutine in scanFiltered and the frames between them.  The view keeps  *)
(* at most one run current; the others are winding down, and their loops   *)
(* still hold the filters they were started with.  Run identities are      *)
(* reused once nothing of a run is left.                                   *)
(*                                                                         *)
(* The keyspace holds still: SCAN promises nothing about keys that come    *)
(* and go.  It is laid out in pages, one SCAN reply each, and a key may be *)
(* returned by more than one page.                                         *)
(***************************************************************************)
EXTENDS Integers, FiniteSets, SequencesExt

CONSTANTS
  Run,        \* identities of runs
  Key,        \* keys of the database
  Filters,    \* filters of the form, as the sets of keys they match
  Layouts,    \* keyspaces: per master, the sequence of its pages
  Limit,      \* matches per run
  LostAppends, \* may Masters lose a node?
  None        \* no run

ASSUME LimitAssumption == Limit \in Nat \ {0}
ASSUME FiltersAssumption == Filters \subseteq SUBSET Key
ASSUME LayoutAssumption ==
  \A l \in Layouts : l \in Seq(Seq(Seq(Key))) /\ l # <<>> /\ \A n \in DOMAIN l : l[n] # <<>>
ASSUME NoneAssumption == None \notin Run

VARIABLES
  layout,     \* the keyspace
  filter,     \* the filters the component was last rendered with
  shown,      \* keys, seenRef: what the list shows
  cursorRef,  \* where the next run begins
  hasMore, isLoading, failed,
  current,    \* the run whose id is in runIdRef
  call,       \* Run -> the call of run() in the view
  server,     \* Run -> scanFiltered
  wire,       \* Run -> frames on their way to the view
  cancelled,  \* runs whose stream has been cancelled
  revived     \* history: is something of a displaced load-all in the list?

vars == <<layout, filter, shown, cursorRef, hasMore, isLoading, failed, current, call,
          server, wire, cancelled, revived>>

-----------------------------------------------------------------------------
(* pkg/redisscan *)

Cursor == [node : Nat, pos : Nat]
Start == [node |-> 0, pos |-> 0]
Done == [node |-> -1, pos |-> 0]

\* A finished cursor is printed as "0", like the start.
Printed(cur) == IF cur = Done THEN Start ELSE cur

\* Masters, sorted by address.  The callbacks of ForEachMaster run
\* concurrently and append to one slice: some of the appends may be lost, and
\* if nothing is left the cluster client scans a node of its choice.
Masters ==
  LET all == DOMAIN layout
      Ascending(f) == \A i, j \in DOMAIN f : i < j => f[i] < f[j] IN
  IF LostAppends
    THEN {f \in UNION {[1 .. m -> all] : m \in all} : Ascending(f)}
    ELSE {[n \in all |-> n]}

\* One SCAN on the node under the cursor, and where to go on.
Page(cur, nodes) ==
  IF cur.node >= Len(nodes) THEN [keys |-> <<>>, next |-> Done] ELSE
  LET pages == layout[nodes[cur.node + 1]] IN
  [keys |-> IF cur.pos < Len(pages) THEN pages[cur.pos + 1] ELSE <<>>,
   next |-> IF cur.pos + 1 < Len(pages) THEN [cur EXCEPT !.pos = @ + 1]
            ELSE IF cur.node + 1 < Len(nodes) THEN [node |-> cur.node + 1, pos |-> 0]
            ELSE Done]

-----------------------------------------------------------------------------
(* scanFiltered *)

Event(keys, cur, done, truncated) ==
  [kind |-> "event", keys |-> keys, cursor |-> Printed(cur), done |-> done,
   truncated |-> truncated]
End == [kind |-> "end"]
Error == [kind |-> "error"]

Off == [on |-> FALSE, cur |-> Start, batch |-> {}, matched |-> 0]

\* Mutants: a run stopped by its limit goes on after the page it was cut in,
\* or starts over.
RoundCursorNext(cur, next) == next
RoundCursorStart(cur, next) == Start

\* 152: a run stopped by its limit has to look at that page again.
RoundCursor(cur, next) == cur

\* The goroutine returns: the last event, and the end of the stream.
Finish(r, event) ==
  /\ server' = [server EXCEPT ![r] = Off]
  /\ wire' = [wire EXCEPT ![r] = @ \o <<event, End>>]

\* One turn of the loop, 131-176.
Round(r) ==
  /\ server[r].on
  /\ \E nodes \in Masters :
       LET s == server[r]
           p == Page(s.cur, nodes)
           hits == {i \in DOMAIN p.keys : p.keys[i] \in call[r].flt}
           matched(i) == s.matched + Cardinality({j \in hits : j <= i})
           cut == s.matched + Cardinality(hits) >= Limit
           batch == s.batch \cup {p.keys[i] : i \in {j \in hits : matched(j) <= Limit}}
       IN
       \/ cut /\ Finish(r, Event(batch, RoundCursor(s.cur, p.next), TRUE, TRUE))
       \/ ~cut /\ p.next = Done /\ Finish(r, Event(batch, Done, TRUE, FALSE))
       \* the time budget is used up
       \/ ~cut /\ p.next # Done /\ Finish(r, Event(batch, p.next, TRUE, TRUE))
       \* a progress event, or none, and the next page
       \/ /\ ~cut /\ p.next # Done
          /\ \E emit \in BOOLEAN :
               /\ wire' = IF emit
                            THEN [wire EXCEPT ![r] = Append(@, Event(batch, p.next, FALSE, FALSE))]
                            ELSE wire
               /\ server' = [server EXCEPT
                    ![r] = [on |-> TRUE, cur |-> p.next, matched |-> s.matched + Cardinality(hits),
                            batch |-> IF emit THEN {} ELSE batch]]
  /\ UNCHANGED <<layout, filter, shown, cursorRef, hasMore, isLoading, failed, current, call,
                 cancelled, revived>>

\* SCAN fails: the error is the last frame, and the batch is lost with it.
RoundFails(r) ==
  /\ server[r].on
  /\ server' = [server EXCEPT ![r] = Off]
  /\ wire' = [wire EXCEPT ![r] = Append(@, Error)]
  /\ UNCHANGED <<layout, filter, shown, cursorRef, hasMore, isLoading, failed, current, call,
                 cancelled, revived>>

-----------------------------------------------------------------------------
(* The hook *)

Closed == [at |-> "closed", bulk |-> FALSE, flt |-> {}, more |-> FALSE, gained |-> FALSE,
           from |-> Start]

\* cancelActive: streamRef holds the current stream exactly while it loads.
Displaced == cancelled \cup (IF isLoading THEN {current} ELSE {})

\* The goroutine of a cancelled stream notices when it sends or asks ctx.Err
\* (167-175); what it does until then nobody sees.  Frames sent before the
\* cancellation may still arrive.
HungUp == [r \in Run |-> IF r \in Displaced THEN Off ELSE server[r]]

\* run(cursor, reset) of a loop that closes the call of old, if any.
StartRun(r, old, flt, cursor, reset, bulk) ==
  /\ call[r].at = "closed" \/ r = old
  /\ current' = r
  /\ isLoading' = TRUE
  /\ failed' = FALSE
  /\ shown' = IF reset THEN {} ELSE shown
  /\ cancelled' = Displaced \ {r, old}
  /\ call' = [q \in Run |->
       CASE q = r -> [Closed EXCEPT !.at = "open", !.bulk = bulk, !.flt = flt, !.from = cursor]
         [] q # r /\ q = old -> Closed
         [] OTHER -> call[q]]
  /\ server' = [HungUp EXCEPT ![r] = [Off EXCEPT !.on = TRUE, !.cur = cursor]]
  /\ wire' = [q \in Run |-> IF q \in {r, old} THEN <<>> ELSE wire[q]]
  /\ UNCHANGED <<layout, hasMore>>

\* 127-136: the first render, new filters, or a reload.
Restart(r, f) ==
  /\ filter' = f
  /\ cursorRef' = Start
  /\ StartRun(r, None, f, Start, TRUE, FALSE)
  /\ revived' = FALSE

\* 155-168: load more, or the first turn of load all.
Continue(r, bulk) ==
  /\ ~isLoading
  /\ hasMore
  /\ StartRun(r, None, filter, cursorRef, FALSE, bulk)
  /\ UNCHANGED <<filter, cursorRef, revived>>

\* 170-175.
Cancel ==
  /\ isLoading
  /\ cancelled' = Displaced
  /\ server' = HungUp
  /\ current' = None
  /\ isLoading' = FALSE
  /\ hasMore' = TRUE
  /\ UNCHANGED <<layout, filter, shown, cursorRef, failed, call, wire, revived>>

\* The call of r returns; its frames have no reader any more.
Close(r) ==
  /\ call' = [call EXCEPT ![r] = Closed]
  /\ wire' = [wire EXCEPT ![r] = <<>>]
  /\ cancelled' = cancelled \ {r}

Arrived(r, kind) == call[r].at = "open" /\ wire[r] # <<>> /\ Head(wire[r]).kind = kind

\* Mutant: events of a run that is not current any more are shown.
ReceiveAny(r) ==
  /\ Arrived(r, "event")
  /\ LET ev == Head(wire[r]) IN
     /\ shown' = shown \cup ev.keys
     /\ cursorRef' = ev.cursor
     /\ hasMore' = IF ev.done THEN ev.truncated ELSE hasMore
     /\ call' = [call EXCEPT ![r] = [call[r] EXCEPT
                    !.more = ev.done /\ ev.truncated,
                    !.gained = call[r].gained \/ ~(ev.keys \subseteq shown)]]
  /\ wire' = [wire EXCEPT ![r] = Tail(@)]
  /\ UNCHANGED <<layout, filter, isLoading, failed, current, server, cancelled, revived>>

\* 89-108: an event of the current run is shown, ...
Receive(r) ==
  /\ Arrived(r, "event")
  /\ r = current
  /\ LET ev == Head(wire[r]) IN
     /\ shown' = shown \cup ev.keys
     /\ cursorRef' = ev.cursor
     /\ hasMore' = IF ev.done THEN ev.truncated ELSE hasMore
     /\ call' = [call EXCEPT ![r] = [call[r] EXCEPT
                    !.more = ev.done /\ ev.truncated,
                    !.gained = call[r].gained \/ ~(ev.keys \subseteq shown)]]
  /\ wire' = [wire EXCEPT ![r] = Tail(@)]
  /\ UNCHANGED <<layout, filter, isLoading, failed, current, server, cancelled, revived>>

\* ... and one of a run that has been replaced ends its loop, which returns false.
ReceiveStale(r) ==
  /\ Arrived(r, "event")
  /\ r # current
  /\ Close(r)
  /\ UNCHANGED <<layout, filter, shown, cursorRef, hasMore, isLoading, failed, current, server,
                 revived>>

\* The iteration is over: the end frame is there, or the stream was cancelled.
Ends(r) == call[r].at = "open" /\ (Arrived(r, "end") \/ r \in cancelled)

\* 115-119, with nobody to go on: finally, and return more.
Return(r) ==
  /\ Ends(r)
  /\ ~(call[r].bulk /\ call[r].more)
  /\ isLoading' = (isLoading /\ r # current)
  /\ Close(r)
  /\ UNCHANGED <<layout, filter, shown, cursorRef, hasMore, failed, current, server, revived>>

\* 160-168: the loop of load all calls the run function it was rendered with.
LoadAllGoesOn(r, q) ==
  /\ Ends(r)
  /\ call[r].bulk /\ call[r].more
  /\ StartRun(q, r, call[r].flt, cursorRef, FALSE, TRUE)
  /\ revived' = (revived \/ r # current)
  /\ UNCHANGED <<filter, cursorRef>>

\* 109-119: the stream throws.  That is a failure of the current run only.
Throws(r) ==
  /\ call[r].at = "open"
  /\ Arrived(r, "error") \/ r \in cancelled
  /\ Close(r)
  /\ IF r = current
       THEN failed' = TRUE /\ hasMore' = FALSE /\ isLoading' = FALSE
       ELSE UNCHANGED <<failed, hasMore, isLoading>>
  /\ UNCHANGED <<layout, filter, shown, cursorRef, current, server, revived>>

-----------------------------------------------------------------------------
Init ==
  /\ layout \in Layouts
  /\ filter \in Filters
  /\ shown = {}
  /\ cursorRef = Start
  /\ hasMore = FALSE /\ isLoading = FALSE /\ failed = FALSE
  /\ current = None
  /\ call = [r \in Run |-> Closed]
  /\ server = [r \in Run |-> Off]
  /\ wire = [r \in Run |-> <<>>]
  /\ cancelled = {}
  /\ revived = FALSE

User ==
  \/ \E r \in Run, f \in Filters : Restart(r, f)
  \/ \E r \in Run, bulk \in BOOLEAN : Continue(r, bulk)
  \/ Cancel

Deliver(r) ==
  \/ Receive(r) \/ ReceiveStale(r) \/ Return(r) \/ Throws(r)
  \/ \E q \in Run : LoadAllGoesOn(r, q)

Next == User \/ \E r \in Run : Deliver(r) \/ Round(r) \/ RoundFails(r)

Spec == Init /\ [][Next]_vars

\* The goroutine and the event loop go on; the user need not do anything.
FairSpec == Spec /\ \A r \in Run : WF_vars(Deliver(r)) /\ WF_vars(Round(r))

-----------------------------------------------------------------------------
(* Properties *)

TypeOK ==
  /\ layout \in Layouts
  /\ filter \in Filters
  /\ shown \subseteq Key
  /\ cursorRef \in Cursor
  /\ {hasMore, isLoading, failed, revived} \subseteq BOOLEAN
  /\ current \in Run \cup {None}
  /\ isLoading => current # None /\ call[current].at = "open"
  /\ \A r \in Run :
       /\ call[r].at \in {"open", "closed"} /\ {call[r].bulk, call[r].more, call[r].gained} \subseteq BOOLEAN
       /\ call[r].flt \subseteq Key
       /\ server[r].cur \in Cursor /\ server[r].batch \subseteq Key
       /\ server[r].matched \in 0 .. Limit - 1
       /\ \A i \in DOMAIN wire[r] : wire[r][i].kind \in {"event", "end", "error"}
  /\ cancelled \subseteq Run

\* When the search says there is nothing more, every key that matches the
\* filters is in the list, however many runs, cancellations and restarts it
\* took (keys-search.ts 17, keys_search_logic.go 156-165, redisscan.go 94-100).
\* Not so when Masters loses a node (LostAppends), or when a load-all that was
\* cancelled or replaced goes on with a cursor that is not its own (run returns
\* more without asking whether it is still current, 115-119).
CompleteWhenDone ==
  current # None /\ ~isLoading /\ ~hasMore /\ ~failed /\ ~revived
    => \A n \in DOMAIN layout : \A i \in DOMAIN layout[n] :
         ToSet(layout[n][i]) \cap filter \subseteq shown

\* The list shows keys of the current filters only: nothing of a run for other
\* filters gets in, whenever its events arrive (keys-search.ts 65-70, 90).
ShowsOnlyMatches == ~revived => shown \subseteq filter

\* A run that stops early has moved the cursor or shown something new, so that
\* pressing "load more" again gets somewhere (keys-search.ts 17, 31).
Progress ==
  [][\A r \in Run : (call[r].at = "open" /\ ~call[r].more /\ call'[r].more)
       => cursorRef' # call[r].from \/ call'[r].gained]_vars

\* Load all comes to an end, unless the user starts the search over.
LoadAllFinishes ==
  (isLoading /\ call[current].bulk) ~> (~isLoading \/ ~call[current].bulk)
=============================================================================
