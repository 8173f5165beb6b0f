---------------------------- MODULE MCKeyEditing ----------------------------
(* A key of every kind with up to two rows of two words each. *)
EXTENDS KeyEditing

CONSTANTS v, w, x, y

Same == {p @@ q : p \in Permutations({v, w}), q \in Permutations({x, y})}
=============================================================================
