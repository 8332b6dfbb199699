------------------------------ MODULE Selection ------------------------------
(* What is left of a sequence when elements are removed from it.            *)
EXTENDS Naturals, FiniteSets

\* The n-th smallest of the numbers in K.
Nth(K, n) == CHOOSE i \in K : Cardinality({j \in K : j <= i}) = n

\* The elements of s at the positions in K, in their order.
Selected(s, K) == [n \in 1 .. Cardinality(K) |-> s[Nth(K, n)]]

=============================================================================
