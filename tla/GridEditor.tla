----------------------------- MODULE GridEditor -----------------------------
(***************************************************************************)
(* The editors of rows shared by the insert drawers of a key and the add   *)
(* key dialog (key-add/*.tsx).  Each keeps its rows in a form, and shows   *)
(* them in inputs which follow the form only where they are given a value. *)
(*                                                                         *)
(* A grid is [form, screen, moved]: the values of the form, the texts in   *)
(* the inputs, and a history bit, set once inputs may have lost their row. *)
(***************************************************************************)
EXTENDS Naturals, SequencesExt, Lists

CONSTANTS
  Word,      \* names and values a user types; scores too
  Blank,     \* the empty text
  Space,     \* the blank that list and set editors start with
  Object,    \* an object where a list or set wants a text
  Undefined  \* a field the form has no value for

ASSUME GridAssumption ==
  /\ Blank \notin {Space, Object, Undefined} /\ Space \notin {Object, Undefined} /\ Object # Undefined
  /\ Word \cap {Blank, Space, Object, Undefined} = {}

Row(a, b) == [a |-> a, b |-> b]

\* first, second: the column's input is given the value of the form;
\* start: the row of an untouched form; blank: the row that is inserted.
\* The only column of a list or set is the second one.
ListEditor ==
  [first |-> TRUE, second |-> FALSE, start |-> Row(Blank, Space), blank |-> Row(Blank, Object)]

SetEditor ==
  [first |-> TRUE, second |-> FALSE, start |-> Row(Blank, Space), blank |-> Row(Blank, Object)]

HashEditor ==
  [first |-> TRUE, second |-> FALSE, start |-> Row(Blank, Blank), blank |-> Row(Blank, Blank)]

\* A row inserted here has no member at all, and a member that is undefined
\* leaves its input as it was.
ZsetEditor ==
  [first |-> TRUE, second |-> FALSE, start |-> Row(Blank, Blank), blank |-> Row(Undefined, Undefined)]

\* Mutant: the value's input is left on its own, as in the other editors.
StreamEditorOnItsOwn ==
  [first |-> TRUE, second |-> FALSE, start |-> Row(Blank, Blank), blank |-> Row(Blank, Blank)]

\* Both inputs follow the form.
StreamEditor ==
  [first |-> TRUE, second |-> TRUE, start |-> Row(Blank, Blank), blank |-> Row(Blank, Blank)]

EditorOf(kind) ==
  CASE kind = "list" -> ListEditor [] kind = "set" -> SetEditor [] kind = "hash" -> HashEditor
    [] kind = "zset" -> ZsetEditor [] kind = "stream" -> StreamEditor

\* An input: what it is given, else what it showed.
GridInput(follows, value, old) == IF follows /\ value # Undefined THEN value ELSE old

\* The inputs are told apart by their position.
Redraw(kind, form, old) ==
  [i \in DOMAIN form |->
     LET was == IF i \in DOMAIN old THEN old[i] ELSE Row(Blank, Blank)
     IN Row(GridInput(EditorOf(kind).first, form[i].a, was.a),
            GridInput(EditorOf(kind).second, form[i].b, was.b))]

Rows(kind, form, old, moved) ==
  [form |-> form, screen |-> Redraw(kind, form, old), moved |-> moved]

FreshGrid(kind) == Rows(kind, << EditorOf(kind).start >>, << >>, FALSE)

\* The drawer is shown again: new inputs, the old form.
Remounted(kind, grid) ==
  Rows(kind, grid.form, << >>, grid.form # FreshGrid(kind).form)

\* A name and a value are typed into a row; no value leaves it alone.
Typed(grid, i, name, v) ==
  LET over(r) == Row(name, IF v = Blank THEN r.b ELSE v)
  IN [grid EXCEPT !.form = [grid.form EXCEPT ![i] = over(grid.form[i])],
                  !.screen = [grid.screen EXCEPT ![i] = over(grid.screen[i])]]

InsertRow(kind, grid, i, below) ==
  Rows(kind, InsertAt(grid.form, IF below THEN i + 1 ELSE i, EditorOf(kind).blank), grid.screen, TRUE)

\* Deleting the only row leaves a new one.
DeleteRow(kind, grid, i) ==
  LET rest == RemoveAt(grid.form, i)
  IN Rows(kind, IF rest = << >> THEN << EditorOf(kind).blank >> ELSE rest, grid.screen, TRUE)

\* The rows as an object: of rows of one name the last one is kept.
Entry(form) ==
  [x \in {form[i].a : i \in DOMAIN form} \ {Blank} |->
     form[CHOOSE i \in DOMAIN form : /\ form[i].a = x
                                    /\ \A j \in DOMAIN form : form[j].a = x => j <= i].b]

\* What submit sends: the rows, what is undefined arriving empty; of a stream an
\* object of the rows that have a name.
Sent(kind, form) ==
  LET text(v) == IF v = Undefined THEN Blank ELSE v
  IN IF kind = "stream" THEN Entry(form)
     ELSE [i \in DOMAIN form |-> Row(text(form[i].a), text(form[i].b))]
=============================================================================
