---------------------------- MODULE MCKeyFilter -----------------------------
(* Clauses put together from a few items, and the keys over four bytes.     *)
EXTENDS KeyFilter

CONSTANTS MaxItems, MaxKey

a == 97
b == 98
A == 65

\* A piece of pattern text and the item it says.
Piece(text, bytes, negate, least, many) ==
  [text |-> text, item |-> [bytes |-> bytes, negate |-> negate, least |-> least, many |-> many]]
Single(text, bytes) == Piece(text, bytes, FALSE, 1, FALSE)

Plain == {Single(<<a>>, {a}), Single(<<b>>, {b})}
Globs == Plain \cup {
  Piece(<<Asterisk>>, {}, TRUE, 0, TRUE),                                 \* *
  Piece(<<Question>>, {}, TRUE, 1, FALSE),                                \* ?
  Piece(<<OpenBracket, Caret, A, CloseBracket>>, {A}, TRUE, 1, FALSE),    \* [^A]
  Single(<<OpenBracket, b, Dash, a, CloseBracket>>, {a, b}),                 \* [b-a]
  Single(<<Backslash, Asterisk>>, {Asterisk})}                               \* \*

\* [\a  never closed: the class goes up to the end of the pattern.
Unclosed == Single(<<OpenBracket, Backslash, a>>, {a})

\* [A-a]  a range that folding the pattern changes.
Skew == Single(<<OpenBracket, A, Dash, a, CloseBracket>>, A..a)

Texts(ps) == FlattenSeq([i \in DOMAIN ps |-> ps[i].text])
Items(ps) == [i \in DOMAIN ps |-> ps[i].item]

Clause(mode, fold, exclude, text, says) ==
  [text |-> text, mode |-> mode, exclude |-> exclude, ignoreCase |-> fold,
   valid |-> TRUE, says |-> says]
Glob(ps, fold, exclude) ==
  Clause("glob", fold, exclude, Texts(ps),
         {[fromStart |-> TRUE, toEnd |-> TRUE, items |-> Items(ps)]})
Substring(ps, fold, exclude) ==
  Clause("substring", fold, exclude, Texts(ps),
         {[fromStart |-> FALSE, toEnd |-> FALSE, items |-> Items(ps)]})

\* ^p, p$ and the like.
Regex(from, ps, to, fold) ==
  Clause("regex", fold, FALSE,
         (IF from THEN <<Caret>> ELSE <<>>) \o Texts(ps) \o (IF to THEN <<36>> ELSE <<>>),
         {[fromStart |-> from, toEnd |-> to, items |-> Items(ps)]})
Dot == Piece(<<46>>, {}, TRUE, 1, FALSE)
Dots == Piece(<<46, Asterisk>>, {}, TRUE, 0, TRUE)      \* .*
Broken == [Regex(TRUE, <<Single(<<40>>, {})>>, FALSE, FALSE) EXCEPT !.valid = FALSE]   \* ^(

Regexes == {Regex(from, ps, to, fold) :
              from, to, fold \in BOOLEAN, ps \in SeqOf(Plain \cup {Dot, Dots}, 2) \ {<<>>}}

Word == <<Single(<<a>>, {a}), Single(<<b>>, {b})>>
Starry == Piece(<<Asterisk>>, {}, TRUE, 0, TRUE)
MCCombined ==
  {Glob(ps, FALSE, FALSE) : ps \in {Append(w, Starry) : w \in SeqOf(Plain, 2)}}
  \cup {Glob(Append(Word, Starry), TRUE, exclude) : exclude \in BOOLEAN}
  \cup {Glob(<<Starry, Single(<<a>>, {a})>>, FALSE, exclude) : exclude \in BOOLEAN}
  \cup {Substring(<<Single(<<b>>, {b})>>, fold, exclude) : fold, exclude \in BOOLEAN}
  \cup {Regex(from, Word, FALSE, FALSE) : from \in BOOLEAN}
  \cup {Regex(TRUE, <<Word[1]>>, TRUE, TRUE), Broken}
  \cup {Blank("substring", TRUE), Blank("glob", FALSE)}

\* ^ab?  ^ab*  and  ^a|b  say less about the beginning of a key than their heads.
Optional == Piece(<<b, Question>>, {b}, FALSE, 0, FALSE)
Repeated == Piece(<<b, Asterisk>>, {b}, FALSE, 0, TRUE)
MCLoose ==
  {Regex(TRUE, <<Word[1], Optional>>, FALSE, FALSE), Regex(TRUE, <<Word[1], Repeated>>, FALSE, FALSE),
   Clause("regex", FALSE, FALSE, <<Caret, a, Bar, b>>,
          {[fromStart |-> TRUE, toEnd |-> FALSE, items |-> <<Word[1].item>>],
           [fromStart |-> FALSE, toEnd |-> FALSE, items |-> <<Word[2].item>>]})}

Patterns(n) == SeqOf(Globs, n) \ {<<>>}
Framed == {<<p, q, r>> : p, r \in {Starry, Word[1]}, q \in Globs}
MCTyped ==
  {Glob(ps, fold, exclude) :
     fold, exclude \in BOOLEAN,
     ps \in Patterns(MaxItems) \cup {Append(qs, Unclosed) : qs \in Patterns(1)}}
  \cup {Glob(ps, FALSE, FALSE) : ps \in Framed}
  \cup {Glob(<<Skew>>, fold, FALSE) : fold \in BOOLEAN}
  \cup {Substring(ps, fold, FALSE) : fold \in BOOLEAN, ps \in SeqOf(Plain, 2) \ {<<>>}}
  \cup Regexes \cup MCLoose \cup MCCombined

MCKey == SeqOf({a, A, b, Slash}, MaxKey)
=============================================================================
