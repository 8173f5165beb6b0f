------------------------------ MODULE MCBrowser ------------------------------
(* Two databases with two folders of one key each. *)
EXTENDS Browser, TLC

CONSTANTS d1, d2, k1, k2, x, y, m, n, r1, r2

MCFolderOf == (k1 :> "f:") @@ (k2 :> "g:")

Same == {p @@ q @@ r @@ s : p \in Permutations({d1, d2}), q \in Permutations({x, y}),
                            r \in Permutations({m, n}), s \in Permutations({r1, r2})}
=============================================================================
