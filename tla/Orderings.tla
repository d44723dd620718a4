------------------------------ MODULE Orderings ------------------------------
(***************************************************************************)
(* What the feeds and searches do to lists: sorting a set of items, and    *)
(* keeping the entries of a list that pass a test.  A sorted list is the   *)
(* one whose n-th element has n - 1 before it, which is all a proof needs  *)
(* to know of sorting.                                                     *)
(***************************************************************************)
EXTENDS Naturals, Sequences, FiniteSets

\* The elements of a finite set in a strict order of them
InOrder(S, Before(_, _)) ==
    [n \in 1 .. Cardinality(S) |-> CHOOSE i \in S : Cardinality({j \in S : Before(j, i)}) = n - 1]

Ascending(numbers) == LET Less(m, n) == m < n IN InOrder(numbers, Less)

\* The entries of a list at some of its positions
At(list, positions) == [n \in 1 .. Cardinality(positions) |-> list[Ascending(positions)[n]]]

\* Those whose value is in S
Among(list, S) == At(list, {n \in DOMAIN list : list[n] \in S})

\* Those whose value is not
Without(list, S) == At(list, {n \in DOMAIN list : list[n] \notin S})

\* The first of each value
Unique(list) == At(list, {n \in DOMAIN list : \A m \in 1 .. n - 1 : list[m] # list[n]})

FirstOf(list, limit) == SubSeq(list, 1, IF Len(list) < limit THEN Len(list) ELSE limit)

Values(list) == {list[n] : n \in DOMAIN list}
==============================================================================
