------------------------------ MODULE Ordered ------------------------------
(***************************************************************************)
(* Lists in increasing order: a set of numbers as the list that a walk or  *)
(* a sort leaves, and what is left of a list when some of its elements are *)
(* dropped (Vec::retain, or a loop that moves what it keeps to a new       *)
(* queue).  Written with the positions of the elements, which a proof can  *)
(* speak about.                                                            *)
(***************************************************************************)
EXTENDS Integers, Sequences, FiniteSets

Ascending(S) ==
  CHOOSE f \in [1 .. Cardinality(S) -> S] : \A i, k \in 1 .. Cardinality(S) : i < k => f[i] < f[k]

\* The elements of s at the positions of S, in their order.
Kept(s, S) == LET at == Ascending(S) IN [i \in 1 .. Cardinality(S) |-> s[at[i]]]
=============================================================================
