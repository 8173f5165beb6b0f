----------------------------- MODULE MCWorkspace -----------------------------
(* Two connections, a few tabs, two calls in flight. *)
EXTENDS Workspace, TLC

CONSTANTS a, b, t1, t2, t3, k1, k2, x, y

Same == {p @@ q @@ r @@ s : p \in Permutations({a, b}), q \in Permutations({t1, t2, t3}),
                            r \in Permutations({k1, k2}), s \in Permutations({x, y})}
=============================================================================
