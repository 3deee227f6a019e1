------------------------------- MODULE MCStock ------------------------------
(* The identifier table on its own, for TLC. *)
EXTENDS Stock, TLC

\* The objects are interchangeable.
Symmetry == Permutations(Objects)
=============================================================================
