-------------------------------- MODULE Lists --------------------------------
(* filter of an array: the elements that pass, in the order they had.       *)
EXTENDS Naturals, Sequences, FiniteSets

\* The k-th smallest of a finite set of numbers.
Nth(I, k) == CHOOSE i \in I : Cardinality({j \in I : j <= i}) = k

\* The elements of s at the positions I.
Keep(s, I) == [k \in 1..Cardinality(I) |-> s[Nth(I, k)]]
=============================================================================
