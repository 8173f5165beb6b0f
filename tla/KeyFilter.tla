----------------------------- MODULE KeyFilter ------------------------------
(***************************************************************************)
(* The filter of a key search: the clauses the user edits in the filter    *)
(* bar (shell/app/_components/key-filter-bar.tsx), what keys they admit    *)
(* and what pattern is sent along with SCAN (pkg/keyfilter/keyfilter.go).  *)
(* The search shows the keys that SCAN returns for the pattern and that    *)
(* the filter admits, so a pattern narrower than the filter hides keys.    *)
(*                                                                         *)
(* Keys and patterns are sequences of bytes.  A clause has the text of its *)
(* pattern and, beside it, what that text says in the language of its      *)
(* mode: alternatives of items, each of which stands for a run of bytes.   *)
(* For a regular expression that is what the regexp package makes of it;   *)
(* for the other modes it is what the matching here is compared with.      *)
(***************************************************************************)
EXTENDS Integers, FiniteSetsExt, SequencesExt

CONSTANTS
  Typed,       \* clauses the user types
  Combined,    \* those that filters of several clauses are made of
  MaxClauses,  \* bound on the clauses of a filter
  KeyName      \* keys of the database

ASSUME CombinedAssumption == Combined \subseteq Typed

VARIABLES
  filters,     \* the clauses in the filter bar
  matchAll     \* have all the including ones to match?

filterVars == <<filters, matchAll>>

Asterisk == 42
Question == 63
Bar == 124
OpenBracket == 91
CloseBracket == 93
Backslash == 92
Caret == 94
Dash == 45
Slash == 47
OpenBrace == 123
globMeta == {Asterisk, Question, OpenBracket, Backslash}
regexMeta == globMeta \cup {46, 43, 40, 41, Bar, CloseBracket, OpenBrace, 125, Caret, 36}

Lower(b) == IF b \in 65..90 THEN b + 32 ELSE b
ToLower(s) == [i \in DOMAIN s |-> Lower(s[i])]

-----------------------------------------------------------------------------
(* What a pattern says *)

\* An item: a set of bytes or its complement, so many of them in a row.
Item == [bytes : SUBSET (0..255), negate : BOOLEAN, least : 0..1, many : BOOLEAN]

Fits(it, b, fold) ==
  LET f(x) == IF fold THEN Lower(x) ELSE x
  IN (\E x \in it.bytes : f(x) = f(b)) # it.negate

\* The items stand for s, cut into as many runs.
Spells(items, s, fold) ==
  \E cut \in [0..Len(items) -> 0..Len(s)] :
    /\ cut[0] = 0 /\ cut[Len(items)] = Len(s)
    /\ \A i \in 1..Len(items) :
         LET it == items[i]
             n == cut[i] - cut[i-1]
         IN /\ n >= it.least
            /\ it.many \/ n <= 1
            /\ \A j \in (cut[i-1] + 1)..cut[i] : Fits(it, s[j], fold)

\* One of the alternatives is found in s; fromStart and toEnd anchor it.
Finds(says, s, fold) ==
  \E a \in says : \E i \in 0..Len(s) : \E j \in i..Len(s) :
    /\ a.fromStart => i = 0
    /\ a.toEnd => j = Len(s)
    /\ Spells(a.items, SubSeq(s, i + 1, j), fold)

-----------------------------------------------------------------------------
(* The language of globs *)

OneOf(bytes, negate) == [bytes |-> bytes, negate |-> negate, least |-> 1, many |-> FALSE]
One(bytes) == OneOf(bytes, FALSE)
AnyByte == OneOf({}, TRUE)
AnyRun == [bytes |-> {}, negate |-> TRUE, least |-> 0, many |-> TRUE]

\* An element of a class: x, \x or x-y, where x-y may be the wrong way round
\* and a dash before the closing bracket is an x.
EscapeAt(t, e) == e < Len(t) /\ t[e] = Backslash
RangeAt(t, e) ==
  /\ e + 2 <= Len(t) /\ t[e] \notin {Backslash, CloseBracket}
  /\ t[e + 1] = Dash /\ t[e + 2] # CloseBracket
Between(x, y) == (x..y) \cup (y..x)
Behind(t, e) == IF RangeAt(t, e) THEN e + 3 ELSE IF EscapeAt(t, e) THEN e + 2 ELSE e + 1
BytesAt(t, e) == IF RangeAt(t, e) THEN Between(t[e], t[e + 2])
                 ELSE IF EscapeAt(t, e) THEN {t[e + 1]} ELSE {t[e]}

\* A class from p up to before q: its elements start at starts, and it ends
\* with a bracket, or with the pattern if that never comes.
ClassReads(t, p, q, it) ==
  LET negate == p < Len(t) /\ t[p + 1] = Caret
      first == IF negate THEN p + 2 ELSE p + 1
  IN \E last \in first..(Len(t) + 1) : \E starts \in SUBSET (first..last) :
       /\ first \in starts /\ last \in starts
       /\ \A e \in starts \ {last} :
            /\ t[e] # CloseBracket /\ Behind(t, e) \in starts
            /\ starts \cap (e + 1)..(Behind(t, e) - 1) = {}
       /\ \/ last <= Len(t) /\ t[last] = CloseBracket /\ q = last + 1
          \/ last = Len(t) + 1 /\ q = last
       /\ it = OneOf(UNION {BytesAt(t, e) : e \in starts \ {last}}, negate)

\* The piece of t from p up to before q says it.
PieceReads(t, p, q, it) ==
  \/ t[p] = Asterisk /\ q = p + 1 /\ it = AnyRun
  \/ t[p] = Question /\ q = p + 1 /\ it = AnyByte
  \/ t[p] = OpenBracket /\ ClassReads(t, p, q, it)
  \/ EscapeAt(t, p) /\ q = p + 2 /\ it = One({t[p + 1]})
  \/ /\ t[p] \notin {Asterisk, Question, OpenBracket} /\ ~EscapeAt(t, p)
     /\ q = p + 1 /\ it = One({t[p]})

\* The glob t, cut into pieces, says the items.
GlobReads(t, items) ==
  \E at \in [0..Len(items) -> 1..(Len(t) + 1)] :
    /\ at[0] = 1 /\ at[Len(items)] = Len(t) + 1
    /\ \A i \in 1..Len(items) : at[i-1] <= Len(t) /\ PieceReads(t, at[i-1], at[i], items[i])

-----------------------------------------------------------------------------
(* globMatch *)

\* Mutant: as in path.Match, an asterisk does not cross a slash.
ReachSegment(s, k) == {i \in k..(Len(s) + 1) : \A j \in k..(i - 1) : s[j] # Slash}

\* Where an asterisk at k may end.
Reach(s, k) == k..(Len(s) + 1)

\* A class read on from q, given what follows: where it closes, and whether it
\* has admitted b (hit, if something before q has).
ClassFrom(pattern, b, rest, q, hit) ==
  LET n == Len(pattern)
      isRange == /\ q + 2 <= n /\ pattern[q] \notin {Backslash, CloseBracket}
                 /\ pattern[q + 1] = Dash /\ pattern[q + 2] # CloseBracket
      ends == {pattern[q], pattern[q + 2]}
  IN CASE q > n -> [close |-> n, hit |-> hit]
       [] q < n /\ pattern[q] = Backslash -> rest[q + 2][hit \/ pattern[q + 1] = b]
       [] q <= n /\ pattern[q] = CloseBracket -> [close |-> q, hit |-> hit]
       [] isRange -> rest[q + 3][hit \/ b \in Min(ends)..Max(ends)]
       [] OTHER -> rest[q + 1][hit \/ pattern[q] = b]

\* The class that opens at p of the pattern: the index where it closes, and
\* whether it admits b.  One that never closes ends with the pattern.
Class(pattern, p, b) ==
  LET n == Len(pattern)
      negate == p < n /\ pattern[p + 1] = Caret
      scan[q \in 1..(n + 1)] ==
        [hit \in BOOLEAN |-> ClassFrom(pattern, b, scan, q, hit)]
      found == scan[IF negate THEN p + 2 ELSE p + 1][FALSE]
  IN [close |-> found.close, admits |-> found.hit # negate]

\* Whether the pattern from p matches s from k, given what the rest of the
\* pattern matches.  What follows an asterisk is matched by a call of its own,
\* rest[p + 1][i]; elsewhere the loop goes on, and ends when the key is used up.
MatchFrom(pattern, s, rest, p, k) ==
  LET n == Len(pattern)
      m == Len(s)
      onlyAsterisks(q) == \A r \in q..n : pattern[r] = Asterisk
      next(q) == IF k = m THEN onlyAsterisks(q) ELSE rest[q][k + 1]
      literal(q) == k <= m /\ pattern[q] = s[k] /\ next(q + 1)
      isEscape == p < n /\ pattern[p] = Backslash
  IN \/ p > n /\ k > m
     \/ /\ p <= n /\ pattern[p] = Asterisk
        /\ onlyAsterisks(p) \/ \E i \in Reach(s, k) : rest[p + 1][i]
     \/ p <= n /\ pattern[p] = Question /\ k <= m /\ next(p + 1)
     \/ /\ p <= n /\ pattern[p] = OpenBracket /\ k <= m
        /\ LET c == Class(pattern, p, s[k]) IN c.admits /\ next(c.close + 1)
     \/ isEscape /\ literal(p + 1)
     \/ /\ p <= n /\ pattern[p] \notin {Asterisk, Question, OpenBracket} /\ ~isEscape
        /\ literal(p)

globMatch(pattern, s) ==
  LET match[p \in 1..(Len(pattern) + 1)] ==
        [k \in 1..(Len(s) + 1) |-> MatchFrom(pattern, s, match, p, k)]
  IN match[1][1]

-----------------------------------------------------------------------------
(* The compiled filter *)

Given(fs) == {i \in DOMAIN fs : fs[i].text # <<>>}
Excludes(fs) == {i \in Given(fs) : fs[i].exclude}
Includes(fs) == Given(fs) \ Excludes(fs)

\* Compile fails, and the search with it.
Rejected(fs) == \E i \in Given(fs) : fs[i].mode = "regex" /\ ~fs[i].valid

anyFold(fs) == \E i \in Given(fs) : fs[i].mode \in {"glob", "substring"} /\ fs[i].ignoreCase

Occurs(t, s) == \E i \in 0..(Len(s) - Len(t)) : SubSeq(s, i + 1, i + Len(t)) = t

match(m, key, folded) ==
  LET text == IF m.ignoreCase THEN ToLower(m.text) ELSE m.text
      word == IF m.ignoreCase THEN folded ELSE key
  IN CASE m.mode = "regex" -> Finds(m.says, key, m.ignoreCase)
       [] m.mode = "substring" -> Occurs(text, word)
       [] m.mode = "glob" -> globMatch(text, word)

\* Exclusion comes first; without including clauses everything is admitted.
Admits(fs, all, hits) ==
  /\ hits \cap Excludes(fs) = {}
  /\ \/ Includes(fs) = {}
     \/ IF all THEN Includes(fs) \subseteq hits ELSE Includes(fs) \cap hits # {}

Match(fs, all, key) ==
  LET folded == IF anyFold(fs) THEN ToLower(key) ELSE <<>>
  IN Admits(fs, all, {i \in Given(fs) : match(fs[i], key, folded)})

-----------------------------------------------------------------------------
(* Pushdown *)

literalRun(t, meta) ==
  LET stops == {i \in DOMAIN t : t[i] \in meta}
  IN IF stops = {} THEN t ELSE SubSeq(t, 1, Min(stops) - 1)

\* Mutant: the case of the key is taken to be that of the pattern.
literalPrefixAnyCase(m) ==
  CASE m.mode = "substring" -> <<>>
    [] m.mode = "regex" /\ Head(m.text) # Caret -> <<>>
    [] m.mode = "regex" /\ Head(m.text) = Caret -> literalRun(Tail(m.text), regexMeta)
    [] m.mode = "glob" -> literalRun(m.text, globMeta)

literalPrefix(m) ==
  CASE m.ignoreCase \/ m.mode = "substring" -> <<>>
    [] ~m.ignoreCase /\ m.mode = "regex" ->
         IF Head(m.text) = Caret THEN literalRun(Tail(m.text), regexMeta) ELSE <<>>
    [] ~m.ignoreCase /\ m.mode = "glob" -> literalRun(m.text, globMeta)

\* A single glob goes over as it is; otherwise a prefix that every key
\* admitted begins with.
Pushdown(fs, all) ==
  LET prefixes == {literalPrefix(fs[i]) : i \in Includes(fs)}
      single == CHOOSE i \in Includes(fs) : TRUE
      longest == CHOOSE p \in prefixes : \A q \in prefixes : Len(q) <= Len(p)
  IN IF Includes(fs) = {} THEN <<Asterisk>>
     ELSE IF Includes(fs) = {single} /\ fs[single].mode = "glob" /\ ~fs[single].ignoreCase
       THEN fs[single].text
     ELSE (IF all THEN longest ELSE LongestCommonPrefix(prefixes)) \o <<Asterisk>>

-----------------------------------------------------------------------------
(* What is typed *)

Alternative == [fromStart : BOOLEAN, toEnd : BOOLEAN, items : Seq(Item)]
Clauses ==
  [text : Seq(0..255), mode : {"glob", "substring", "regex"}, exclude : BOOLEAN,
   ignoreCase : BOOLEAN, valid : BOOLEAN, says : SUBSET Alternative]

ASSUME TypedAssumption == Typed \subseteq Clauses /\ KeyName \subseteq Seq(0..255)

\* Globs are about the whole key and say what their pieces say; a substring
\* may be anywhere and says its bytes.
ASSUME GlobAssumption ==
  \A c \in Typed :
    c.mode = "glob" /\ c.text # <<>> =>
      \E a \in c.says : c.says = {a} /\ a.fromStart /\ a.toEnd /\ GlobReads(c.text, a.items)

ASSUME SubstringAssumption ==
  \A c \in Typed :
    c.mode = "substring" /\ c.text # <<>> =>
      c.says = {[fromStart |-> FALSE, toEnd |-> FALSE,
                 items |-> [i \in DOMAIN c.text |-> One({c.text[i]})]]}

\* An anchored expression that may begin with less than its literal head, as
\* the last byte of the head is optional or it has alternatives.
LooseHead(text) ==
  LET rest == Len(literalRun(Tail(text), regexMeta)) + 2
  IN /\ Head(text) = Caret
     /\ \/ Bar \in ToSet(text)
        \/ rest <= Len(text) /\ text[rest] \in {Question, Asterisk, OpenBrace}

\* The syntax of the regexp package: a caret and a literal head ask for the
\* bytes of the head one by one, of which the last may be repeated.  (Only the
\* replacement character stands for other bytes, and is not typed.)
ASSUME HeadAssumption ==
  \A c \in Typed :
    c.mode = "regex" /\ c.valid /\ c.text # <<>> /\ Head(c.text) = Caret /\ ~LooseHead(c.text) =>
      LET head == literalRun(Tail(c.text), regexMeta) IN
      \A a \in c.says :
        /\ a.fromStart /\ Len(a.items) >= Len(head)
        /\ \A i \in DOMAIN head :
             LET it == a.items[i] IN
             /\ it.bytes = {head[i]} /\ ~it.negate /\ it.least = 1
             /\ it.many => i = Len(head)

-----------------------------------------------------------------------------
(* The filter bar *)

Blank(mode, fold) == [text |-> <<>>, mode |-> mode, exclude |-> FALSE,
                      ignoreCase |-> fold, valid |-> TRUE, says |-> {}]

\* emptyFilters: clause 1 is the text box.
FilterInit ==
  /\ filters = <<Blank("substring", TRUE)>>
  /\ matchAll = FALSE

\* What the user has made of clause i when the edits are passed on, 300 ms
\* after the last of them.
Patch(i, c) ==
  /\ Len(filters) = 1 \/ c \in Combined
  /\ filters' = [filters EXCEPT ![i] = c]
  /\ UNCHANGED matchAll

AddClause ==
  /\ Len(filters) < MaxClauses
  /\ \A i \in DOMAIN filters : filters[i] \in Combined
  /\ filters' = Append(filters, Blank("glob", FALSE))
  /\ UNCHANGED matchAll

RemoveClause(i) ==
  /\ i # 1
  /\ filters' = RemoveAt(filters, i)
  /\ UNCHANGED matchAll

\* The switch shows while there are two including clauses.
MatchAllChange ==
  /\ Cardinality(Includes(filters)) > 1
  /\ matchAll' = ~matchAll
  /\ UNCHANGED filters

FilterNext ==
  \/ \E i \in DOMAIN filters : RemoveClause(i) \/ \E c \in Typed : Patch(i, c)
  \/ AddClause
  \/ MatchAllChange

FilterSpec == FilterInit /\ [][FilterNext]_filterVars

-----------------------------------------------------------------------------
(* Properties *)

\* A glob that ignores case, with a range of capital letters and other bytes:
\* its text is folded before it is read, which moves one end of the range.
Capital == 65..90
Skewed(t) ==
  \E p \in DOMAIN t : \E e \in (p + 1)..Len(t) :
    /\ t[p] = OpenBracket /\ RangeAt(t, e)
    /\ BytesAt(t, e) \cap Capital # {} /\ ~(BytesAt(t, e) \subseteq Capital)
Askew(fs) == \E i \in Given(fs) : fs[i].mode = "glob" /\ fs[i].ignoreCase /\ Skewed(fs[i].text)

\* Whatever the user builds, a key is admitted exactly if the clauses, read in
\* the language of their modes, admit it: asterisks cross slashes, classes,
\* ranges and escapes are those of Redis, and case is folded on both sides
\* (keyfilter.go 80-128, 216-318).  Not so for [A-z] and the like in a glob that
\* ignores case.
MatchesAsMeant ==
  ~Rejected(filters) /\ ~Askew(filters) =>
    \A key \in KeyName :
      Match(filters, matchAll, key) <=>
        Admits(filters, matchAll,
               {i \in Given(filters) : Finds(filters[i].says, key, filters[i].ignoreCase)})

Loose(fs) == \E i \in Given(fs) : fs[i].mode = "regex" /\ LooseHead(fs[i].text)

\* No key that the filter admits is withheld by the pattern sent along with
\* SCAN (keyfilter.go 130-214).  Not so for ^ab?, ^ab* and ^a|b: literalPrefix
\* takes the literal head (186-195) although the next byte makes its last one
\* optional, or an alternative need not begin with it.
PushdownIsASuperset ==
  ~Rejected(filters) /\ ~Loose(filters) =>
    LET pattern == Pushdown(filters, matchAll)
    IN \A key \in KeyName : Match(filters, matchAll, key) => globMatch(pattern, key)
=============================================================================
