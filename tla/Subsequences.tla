---------------------------- MODULE Subsequences ----------------------------
(***************************************************************************)
(* What a filter leaves of a sequence: the loops of the code that skip     *)
(* lines of a file, or delete entries of a Map and keep the order of the   *)
(* others.  SelectSeq says the same by recursion over the sequence; here   *)
(* the places that are kept are counted, so that what a filter does can be *)
(* proved for every sequence (SubsequenceTheorems).                        *)
(***************************************************************************)
EXTENDS Naturals, FiniteSets, Sequences

(* How many of the places do not come after this one. *)
Rank(places, i) == Cardinality({j \in places : j <= i})

(* The elements of s at these places, in order. *)
Subsequence(s, places) ==
  [n \in 1..Cardinality(places) |-> s[CHOOSE i \in places : Rank(places, i) = n]]
=============================================================================
