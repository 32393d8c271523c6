------------------------------- MODULE MCList -------------------------------
(* The list on a few addresses and keys. *)
EXTENDS List, TLC

Symmetry == Permutations(Node)
=============================================================================
