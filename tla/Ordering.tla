------------------------------ MODULE Ordering ------------------------------
(* What a loop that skips some of the elements goes through, and what a    *)
(* query sorts: the members of a finite set in an order.                   *)
EXTENDS Integers, Sequences, FiniteSets

\* The members of S in the order R, a set of pairs.
Ranked(S, R) ==
    [n \in 1 .. Cardinality(S) |-> CHOOSE s \in S : Cardinality({r \in S : <<r, s>> \in R}) = n - 1]

\* Numbers, the least first.
InOrder(S) == Ranked(S, {w \in S \X S : w[1] < w[2]})

IsList(s) == Len(s) \in Nat /\ s = [i \in 1 .. Len(s) |-> s[i]]

\* The elements of a sequence at the places S.
Selected(seq, S) == LET at == InOrder(S) IN [n \in DOMAIN at |-> seq[at[n]]]
=============================================================================
