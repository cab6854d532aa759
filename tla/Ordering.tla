------------------------------ MODULE Ordering ------------------------------
(***************************************************************************)
(* What the program takes from its libraries to put rows in order: ORDER   *)
(* BY, and package sort.  A member comes at the place that the number of   *)
(* members before it says.                                                 *)
(***************************************************************************)
EXTENDS Naturals, FiniteSets

(* The pairs of members of S the first of which comes before the second.   *)
OrderOf(S, Less(_, _)) == {p \in S \X S : Less(p[1], p[2])}

(* How many members of S come before x in the order R.                     *)
Rank(S, R, x) == Cardinality({y \in S : <<y, x>> \in R})

(* The members of S as a sequence, in the order R.                         *)
InOrderOf(S, R) ==
    [k \in 1 .. Cardinality(S) |-> CHOOSE x \in S : Rank(S, R, x) = k - 1]

SortedBy(S, Less(_, _)) == InOrderOf(S, OrderOf(S, Less))
=============================================================================
