------------------------------ MODULE MCCreate ------------------------------
(* Instances of Create for TLC: two sessions, which may wait at the same   *)
(* time, follow one another, or take up what the other has left.           *)
EXTENDS Create
=============================================================================
