------------------------------- MODULE Console -------------------------------
(***************************************************************************)
(* The Redis consoles of the workspace: one terminal per console tab       *)
(* (connection-detail-tab-console.tsx), the command engine with its two    *)
(* middlewares, which all consoles share, and the persisted history.       *)
(*                                                                         *)
(* A line of input is a member of Line: what the properties tell apart is  *)
(* which line it is and which kind of command it begins with.  A change of *)
(* theme, language or database disposes the terminal and builds another;   *)
(* commands and key lookups of the old one go on.                          *)
(***************************************************************************)
EXTENDS Naturals, Sequences, FiniteSets, Lists

CONSTANTS
  Console,     \* open console tabs: a connection and a database each
  Conn,        \* saved connections
  ConnOf,      \* the connection of a console
  Line,        \* lines a user may enter
  Dangerous,   \* lines whose command the registry marks isDangerous
  Write,       \* lines the read-only middleware blocks: isWrite, no container
  Local,       \* CLEAR, HELP, HISTORY
  Blank,       \* the empty line
  Stream,      \* identities of commands in flight; bounds how many there are
  Timeout,     \* CONFIRM_TIMEOUT in clock ticks
  MaxHistory,  \* MAX_HISTORY
  MaxList,     \* bound: suggestions in a popup
  MaxAsking,   \* bound: key lookups of one console in flight
  MaxKeys      \* bound: how often a line is edited, completed or recalled

ASSUME ConsoleAssumption ==
  /\ ConnOf \in [Console -> Conn]
  /\ Dangerous \subseteq Line /\ Write \subseteq Line /\ Local \subseteq Line
  /\ Local \cap Dangerous = {} /\ Blank \notin Line
  /\ Timeout \in Nat /\ MaxHistory \in Nat \ {0} /\ MaxList \in Nat /\ MaxAsking \in Nat /\ MaxKeys \in Nat

VARIABLES
  term,      \* the terminal of a console: loading, opening, ready or failed
  line,      \* buffer: the text at its prompt
  popup,     \* acRef: the open list of suggestions and the selected one
  timer,     \* debounceTimer is set
  asking,    \* searchKeys calls of the console in flight
  recall,    \* currentHistory of the present terminal, oldest first
  at,        \* historyIndex
  stream,    \* commands in flight
  history,   \* the persisted history, newest first
  readOnly,  \* readOnlyRef of a connection
  pending,   \* pendingConfirmations
  checked,   \* history: what confirmDangerousMiddleware saw last, and when
  keys       \* how much the user has typed, for MaxKeys

screen == <<term, line, popup, timer, asking, recall, at>>
engine == <<stream, history, readOnly, pending, checked>>
consoleVars == <<screen, engine, keys>>

Closed == [size |-> 0, index |-> 0]
Popup(n) == [size |-> n, index |-> 0]
IsOpen(c) == popup[c].size > 0
Nothing == [line |-> Blank, age |-> 0]
Unchecked == [line |-> Blank, warned |-> FALSE, age |-> 0]

Executing(c) == \E s \in DOMAIN stream : stream[s].con = c /\ stream[s].live

\* The lines of one console, oldest first.
HistoryOf(c) ==
  LET mine == Keep(history, {i \in DOMAIN history : history[i].con = c})
  IN  [i \in DOMAIN mine |-> mine[Len(mine) + 1 - i].line]

AddHistory(c, l) ==
  LET new == <<[con |-> c, line |-> l]>> \o history
  IN  history' = SubSeq(new, 1, IF Len(new) < MaxHistory THEN Len(new) ELSE MaxHistory)

Ready(c) == term[c] = "ready"
Typed == keys < MaxKeys /\ keys' = keys + 1
ClosePopup(c) == popup' = [popup EXCEPT ![c] = Closed]
ArmTimer(c) == timer' = [timer EXCEPT ![c] = TRUE]

ConsoleInit ==
  /\ term = [c \in Console |-> "loading"]
  /\ line = [c \in Console |-> Blank]
  /\ popup = [c \in Console |-> Closed]
  /\ timer = [c \in Console |-> FALSE]
  /\ asking = [c \in Console |-> 0]
  /\ recall = [c \in Console |-> <<>>]
  /\ at = [c \in Console |-> 0]
  /\ stream = << >>
  /\ history = << >>
  /\ readOnly \in [Conn -> BOOLEAN]
  /\ pending = [k \in Conn |-> Nothing]
  /\ checked = [k \in Conn |-> Unchecked]
  /\ keys = 0

-----------------------------------------------------------------------------
(* The life of a terminal.                                                  *)

Imported(c) ==
  /\ term[c] = "loading"
  /\ term' = [term EXCEPT ![c] = "opening"]
  /\ UNCHANGED <<line, popup, timer, asking, recall, at, engine, keys>>

\* consoleConnect answers; only then are the key handlers attached.
Opened(c) ==
  /\ term[c] = "opening"
  /\ \E end \in {"ready", "failed"} : term' = [term EXCEPT ![c] = end]
  /\ UNCHANGED <<line, popup, timer, asking, recall, at, engine, keys>>

\* The effect runs again: a new terminal with an empty prompt and the history
\* of the moment.  The popup is not closed, and what the old terminal waits
\* for is not cancelled: its command is no longer the present terminal's.
Rebuild(c) ==
  /\ term' = [term EXCEPT ![c] = "loading"]
  /\ line' = [line EXCEPT ![c] = Blank]
  /\ timer' = [timer EXCEPT ![c] = FALSE]
  /\ recall' = [recall EXCEPT ![c] = HistoryOf(c)]
  /\ at' = [at EXCEPT ![c] = Len(HistoryOf(c))]
  /\ stream' = [s \in DOMAIN stream |->
                  [stream[s] EXCEPT !.live = @ /\ stream[s].con # c]]
  /\ UNCHANGED <<popup, asking, history, readOnly, pending, checked, keys>>

-----------------------------------------------------------------------------
(* Keys.  A terminal that runs a command ignores what is typed into it, but *)
(* neither Tab nor a click on a suggestion.                                 *)

Edit(c) ==
  /\ Ready(c) /\ ~Executing(c) /\ Typed
  /\ \E l \in (Line \cup {Blank}) \ {line[c]} : line' = [line EXCEPT ![c] = l]
  /\ ArmTimer(c)
  /\ UNCHANGED <<term, popup, asking, recall, at, engine>>

Escape(c) ==
  /\ Ready(c) /\ ~Executing(c) /\ IsOpen(c)
  /\ ClosePopup(c)
  /\ UNCHANGED <<term, line, timer, asking, recall, at, engine, keys>>

\* The window may be resized whatever the terminal does.
Resize(c) ==
  /\ Ready(c) /\ IsOpen(c)
  /\ ClosePopup(c)
  /\ UNCHANGED <<term, line, timer, asking, recall, at, engine, keys>>

\* Arrow keys move the selection of an open popup ...
Select(c) ==
  /\ Ready(c) /\ ~Executing(c) /\ IsOpen(c)
  /\ \/ popup[c].index > 0 /\ popup' = [popup EXCEPT ![c].index = @ - 1]
     \/ popup[c].index < popup[c].size - 1 /\ popup' = [popup EXCEPT ![c].index = @ + 1]
  /\ UNCHANGED <<term, line, timer, asking, recall, at, engine, keys>>

\* ... and walk the history otherwise.
Recall(c, i) ==
  /\ Ready(c) /\ ~Executing(c) /\ ~IsOpen(c) /\ recall[c] # << >> /\ Typed
  /\ at' = [at EXCEPT ![c] = i]
  /\ line' = [line EXCEPT ![c] = IF i = Len(recall[c]) THEN Blank ELSE recall[c][i + 1]]
  /\ UNCHANGED <<term, popup, timer, asking, recall, engine>>

Up(c) == Recall(c, IF at[c] > 0 THEN at[c] - 1 ELSE 0)
Down(c) == Recall(c, IF at[c] < Len(recall[c]) - 1 THEN at[c] + 1 ELSE Len(recall[c]))

\* Tab, Enter on an open popup, or a click take the selected suggestion: it
\* replaces the last word, which may make any line.
Complete(c) ==
  /\ Ready(c) /\ IsOpen(c) /\ Typed
  /\ \E l \in Line : line' = [line EXCEPT ![c] = l]
  /\ ClosePopup(c)
  /\ UNCHANGED <<term, timer, asking, recall, at, engine>>

\* A click while there is no terminal: replaceInput takes the text and then
\* fails on the missing terminal, so that the popup stays.
ClickTooEarly(c) ==
  /\ ~Ready(c) /\ IsOpen(c) /\ Typed
  /\ \E l \in Line : line' = [line EXCEPT ![c] = l]
  /\ IF term[c] = "loading" THEN UNCHANGED popup ELSE ClosePopup(c)
  /\ UNCHANGED <<term, timer, asking, recall, at, engine>>

-----------------------------------------------------------------------------
(* Suggestions, looked up 100 ms after the last key.                        *)

\* A blank line closes the popup, a command name is completed from the
\* registry, anything else asks the server for keys.
FetchSuggestions(c) ==
  /\ timer[c]
  /\ timer' = [timer EXCEPT ![c] = FALSE]
  /\ \/ /\ \E n \in 0..(IF line[c] = Blank THEN 0 ELSE MaxList) :
             popup' = [popup EXCEPT ![c] = Popup(n)]
        /\ UNCHANGED asking
     \/ /\ line[c] # Blank /\ asking[c] < MaxAsking
        /\ asking' = [asking EXCEPT ![c] = @ + 1]
        /\ UNCHANGED popup
  /\ UNCHANGED <<term, line, recall, at, engine, keys>>

\* Mutant: the new list keeps the old selection.
KeysFoundKeepsIndex(c) ==
  /\ asking[c] > 0
  /\ asking' = [asking EXCEPT ![c] = @ - 1]
  /\ \E n \in 0..MaxList : popup' = [popup EXCEPT ![c].size = n]
  /\ UNCHANGED <<term, line, timer, recall, at, engine, keys>>

\* The answer opens the popup whatever has become of the line; an error or an
\* empty answer closes it.
KeysFound(c) ==
  /\ asking[c] > 0
  /\ asking' = [asking EXCEPT ![c] = @ - 1]
  /\ \E n \in 0..MaxList : popup' = [popup EXCEPT ![c] = Popup(n)]
  /\ UNCHANGED <<term, line, timer, recall, at, engine, keys>>

-----------------------------------------------------------------------------
(* The engine: read-only middleware, confirmation, execution.               *)

Blocked(c, l) == readOnly[ConnOf[c]] /\ l \in Write

\* What is left of the pending confirmation when the clock is looked at.
Valid(p) == p.line # Blank /\ p.age <= Timeout
Current(k) == IF Valid(pending[k]) THEN pending[k] ELSE Nothing
Confirmed(c, l) == Current(ConnOf[c]).line = l
MayRun(c, l) == l \notin Dangerous \/ Confirmed(c, l)

\* Mutant: a safe command in between leaves the confirmation pending.
NextPendingSticky(c, l) ==
  IF l \in Dangerous /\ Current(ConnOf[c]) = Nothing
  THEN [line |-> l, age |-> 0]
  ELSE IF l \in Dangerous THEN Nothing ELSE Current(ConnOf[c])

\* A dangerous line that nothing waits for is remembered; every other line
\* that comes this far clears what was remembered.
NextPending(c, l) ==
  IF l \in Dangerous /\ Current(ConnOf[c]) = Nothing
  THEN [line |-> l, age |-> 0]
  ELSE Nothing

Check(c, l) ==
  /\ pending' = [pending EXCEPT ![ConnOf[c]] = NextPending(c, l)]
  /\ checked' = [checked EXCEPT ![ConnOf[c]] =
                   [line |-> l, warned |-> NextPending(c, l) # Nothing, age |-> 0]]

Execute(c, l) ==
  \/ /\ Blocked(c, l)
     /\ UNCHANGED <<stream, pending, checked>>
  \/ /\ ~Blocked(c, l) /\ ~MayRun(c, l)
     /\ Check(c, l)
     /\ UNCHANGED stream
  \/ /\ ~Blocked(c, l) /\ MayRun(c, l)
     /\ Check(c, l)
     /\ \E s \in Stream \ DOMAIN stream :
          stream' = [t \in DOMAIN stream \cup {s} |->
                       IF t = s THEN [con |-> c, line |-> l, live |-> TRUE] ELSE stream[t]]

\* Enter with no popup open.  A blank line or a command of the terminal
\* itself never gets to the engine.
Enter(c) ==
  /\ Ready(c) /\ ~Executing(c) /\ ~IsOpen(c)
  /\ line' = [line EXCEPT ![c] = Blank]
  /\ IF line[c] \in Local \cup {Blank}
     THEN UNCHANGED <<stream, pending, checked>>
     ELSE Execute(c, line[c])
  /\ UNCHANGED <<term, popup, timer, asking, recall, at, history, readOnly, keys>>

\* The status the engine makes of a stream: an error if it threw, wrote to
\* stderr, or closed without a frame.  Nobody passes an AbortSignal.
Outcome == {"success", "error"}

\* The stream of a command ends.  Success goes into the history, and into the
\* recall list of the terminal it was typed in if that is still there; an
\* error leaves no trace.
Finish(s) ==
  /\ s \in DOMAIN stream
  /\ stream' = [t \in DOMAIN stream \ {s} |-> stream[t]]
  /\ LET c == stream[s].con
     IN  \E status \in Outcome :
         \/ /\ status = "success"
            /\ AddHistory(c, stream[s].line)
            /\ IF stream[s].live
               THEN /\ recall' = [recall EXCEPT ![c] = Append(@, stream[s].line)]
                    /\ at' = [at EXCEPT ![c] = Len(recall[c]) + 1]
               ELSE UNCHANGED <<recall, at>>
         \/ status = "error" /\ UNCHANGED <<history, recall, at>>
  /\ UNCHANGED <<term, line, popup, timer, asking, readOnly, pending, checked, keys>>

SetReadOnly(k) ==
  /\ readOnly' = [readOnly EXCEPT ![k] = ~@]
  /\ UNCHANGED <<screen, stream, history, pending, checked, keys>>

Older(r) == [r EXCEPT !.age = IF @ > Timeout THEN @ ELSE @ + 1]

Tick ==
  /\ pending' = [k \in Conn |->
                   IF pending[k] = Nothing THEN Nothing ELSE Older(pending[k])]
  /\ checked' = [k \in Conn |->
                   IF checked[k].warned THEN Older(checked[k]) ELSE checked[k]]
  /\ UNCHANGED <<screen, stream, history, readOnly, keys>>

-----------------------------------------------------------------------------
ConsoleNext ==
  \/ \E c \in Console :
       \/ Imported(c) \/ Opened(c) \/ Rebuild(c)
       \/ Edit(c) \/ Escape(c) \/ Resize(c) \/ Select(c) \/ Up(c) \/ Down(c)
       \/ Complete(c) \/ ClickTooEarly(c)
       \/ FetchSuggestions(c) \/ KeysFound(c) \/ Enter(c)
  \/ \E s \in Stream : Finish(s)
  \/ \E k \in Conn : SetReadOnly(k)
  \/ Tick

ConsoleSpec == ConsoleInit /\ [][ConsoleNext]_consoleVars

-----------------------------------------------------------------------------
(* Properties.                                                              *)

\* Every variable has its type; the position in the recalled history lies
\* inside the history the terminal was built with.
TypeOK ==
  /\ term \in [Console -> {"loading", "opening", "ready", "failed"}]
  /\ line \in [Console -> Line \cup {Blank}]
  /\ popup \in [Console -> [size : 0..MaxList, index : 0..MaxList]]
  /\ timer \in [Console -> BOOLEAN]
  /\ asking \in [Console -> 0..MaxAsking]
  /\ recall \in [Console -> Seq(Line)]
  /\ \A c \in Console : at[c] \in 0..Len(recall[c])
  /\ DOMAIN stream \subseteq Stream
  /\ \A s \in DOMAIN stream : stream[s] \in [con : Console, line : Line, live : BOOLEAN]
  /\ history \in Seq([con : Console, line : Line]) /\ Len(history) <= MaxHistory
  /\ readOnly \in [Conn -> BOOLEAN]
  /\ pending \in [Conn -> [line : Dangerous \cup {Blank}, age : 0..(Timeout + 1)]]
  /\ checked \in [Conn ->
                   [line : Line \cup {Blank}, warned : BOOLEAN, age : 0..(Timeout + 1)]]
  /\ keys \in 0..MaxKeys

\* The selection of an open popup names one of its suggestions, although
\* answers replace the list at any moment, also from a disposed terminal, and
\* the position in the history stays inside the list it was recalled from,
\* which commands still running lengthen: Tab and Enter read
\* acRef.list[acRef.index] and Up and Down currentHistory without looking.
SelectionInRange ==
  \A c \in Console :
    /\ IsOpen(c) => popup[c].index < popup[c].size
    /\ at[c] <= Len(recall[c])

\* A dangerous command is sent to the server only when the last line that
\* reached the check on this connection was the very same line, was answered
\* with the warning, and is no older than CONFIRM_TIMEOUT: so one warning for
\* one execution, whichever console of the connection it came from.
DangerousIsConfirmed ==
  [][\A s \in DOMAIN stream' \ DOMAIN stream :
       stream'[s].line \in Dangerous =>
         LET last == checked[ConnOf[stream'[s].con]]
         IN  last.line = stream'[s].line /\ last.warned /\ last.age <= Timeout]_consoleVars
=============================================================================
