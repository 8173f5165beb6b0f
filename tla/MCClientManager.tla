--------------------------- MODULE MCClientManager ---------------------------
(* Symmetry for the safety runs of ClientManager (processes, clients and     *)
(* timestamps are interchangeable), and the behaviours in which requests on  *)
(* one connection do not overlap.                                            *)
EXTENDS ClientManager, TLC

Symmetry == Permutations(Proc) \cup Permutations(Client) \cup Permutations(Ver)

\* Only the arrival of a request is held back, so the fairness still is one of
\* steps that can be taken.
SerialSpec ==
  /\ Init /\ [][Next /\ OnePerConnection']_vars
  /\ \A p \in Proc : WF_vars(Continue(p)) /\ SF_vars(Locks(p))
=============================================================================
