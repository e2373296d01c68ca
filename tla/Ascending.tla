------------------------------ MODULE Ascending ------------------------------
(***************************************************************************)
(* The members of a finite set of integers in increasing order: what       *)
(* iterating an array, or the entries of it that a condition keeps, visits.*)
(* It is SetToSortSeq(S, <) of SequencesExt, without an operator argument. *)
(***************************************************************************)
EXTENDS Integers, FiniteSets

Ascending(S) ==
  CHOOSE s \in [1..Cardinality(S) -> S] :
    \A j, k \in 1..Cardinality(S) : j < k => s[j] < s[k]
(* The entries of s at the positions in S, in their order. *)
Entries(s, S) == [k \in 1..Cardinality(S) |-> s[Ascending(S)[k]]]
==============================================================================
