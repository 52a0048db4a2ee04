------------------------------ MODULE Filters -------------------------------
(***************************************************************************)
(* The elements of a sequence that are in a set, in their order: what      *)
(* std::remove_if over a vector keeps, and what a loop that skips entries  *)
(* visits.  SelectSeq of the standard module has no definition provers     *)
(* could expand; Filters_proofs has what this one satisfies.               *)
(***************************************************************************)
EXTENDS Integers, Sequences

(* Of the first n elements of s those that are in T, for every n.          *)
Kept(s, T) ==
    LET kept[n \in Nat] ==
            IF n = 0 THEN <<>>
            ELSE IF s[n] \in T THEN Append(kept[n - 1], s[n]) ELSE kept[n - 1]
    IN  kept

Filter(s, T) == Kept(s, T)[Len(s)]
=============================================================================
