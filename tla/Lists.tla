-------------------------------- MODULE Lists --------------------------------
(***************************************************************************)
(* Filtering and sorting a list, as what the loops and sort.SliceStable of *)
(* the program come to: a choice of places in the list, in some order.     *)
(* The operators count instead of recurring, so that they can be reasoned  *)
(* about as well as evaluated.                                             *)
(***************************************************************************)
EXTENDS Integers, Sequences, FiniteSets

\* The members of a finite set in the order given, a set of pairs <<i, j>> with
\* i before j that puts any two members of S in order: a member's place is the
\* number of those before it.
Enumerate(S, order) ==
    [k \in 1..Cardinality(S) |->
        CHOOSE i \in S : Cardinality({j \in S : <<j, i>> \in order}) = k - 1]

\* The elements of list that are at the given places.
Picked(list, places) == [k \in DOMAIN places |-> list[places[k]]]

Ascending(S) == {pair \in S \X S : pair[1] < pair[2]}

\* What a loop appends that goes through list and takes what is at a place of S.
Keep(list, S) == Picked(list, Enumerate(S, Ascending(S)))

Members(list) == {list[i] : i \in DOMAIN list}

\* Lists one after the other.
Flatten(lists) ==
    LET places == UNION {{n} \X DOMAIN lists[n] : n \in DOMAIN lists}
        order  == {pair \in places \X places :
                      \/ pair[1][1] < pair[2][1]
                      \/ pair[1][1] = pair[2][1] /\ pair[1][2] < pair[2][2]}
        all    == Enumerate(places, order)
    IN  [k \in DOMAIN all |-> lists[all[k][1]][all[k][2]]]

\* The sum of a function to the natural numbers.
Total(n) == Cardinality(UNION {{x} \X (1..n[x]) : x \in DOMAIN n})

\* sort.SliceStable: an element goes before those it sorts before, and before
\* the later ones that neither side sorts before.
StableOrder(list, Before(_, _)) ==
    {pair \in (DOMAIN list) \X (DOMAIN list) :
        \/ Before(list[pair[1]], list[pair[2]])
        \/ pair[1] < pair[2] /\ ~Before(list[pair[2]], list[pair[1]])}

StableSort(list, Before(_, _)) ==
    Picked(list, Enumerate(DOMAIN list, StableOrder(list, Before)))
=============================================================================
