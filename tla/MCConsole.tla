------------------------------ MODULE MCConsole ------------------------------
(* Two consoles on two databases of one connection. *)
EXTENDS Console, TLC

CONSTANTS c1, c2, s1, s2, conn

MCConnOf == [c \in Console |-> conn]

Same == {p @@ q : p \in Permutations({c1, c2}), q \in Permutations({s1, s2})}
=============================================================================
