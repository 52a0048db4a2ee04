------------------------------ MODULE MCStart -------------------------------
(* Instances of Start for TLC.                                             *)
EXTENDS Start
=============================================================================
