------------------------------ MODULE MCBTree ------------------------------
(***************************************************************************)
(* BTree with a few addresses, which malloc() returns in any order.        *)
(***************************************************************************)
EXTENDS BTree, TLC

Symmetry == Permutations(Node) \cup Permutations(Tree)
=============================================================================
