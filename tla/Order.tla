--------------------------------- MODULE Order ---------------------------------
(* Finite sets put in order, by rank, so that the order can be reasoned about.  *)
EXTENDS Naturals, FiniteSets

\* The members of s from the first to the last; before says which pairs of them
\* are in order.
InOrder(s, before) ==
    [n \in 1..Cardinality(s) |->
        CHOOSE x \in s : Cardinality({y \in s : <<y, x>> \in before}) = n - 1]

Ascending(s) == InOrder(s, {p \in s \X s : p[1] < p[2]})

\* The entries of a sequence at some of its positions, in order.
Picked(seq, positions) ==
    LET at == Ascending(positions) IN [n \in DOMAIN at |-> seq[at[n]]]
==============================================================================
