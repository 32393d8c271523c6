------------------------------ MODULE MCExpr ------------------------------
(***************************************************************************)
(* Expr with a few addresses, which malloc() returns in any order.         *)
(***************************************************************************)
EXTENDS Expr, TLC

Symmetry == Permutations(Expr)

\* The fields of an expression that no pointer leads to are never read again:
\* states that differ in them only are the same.
Reached == UNION {Nodes(heap, r) : r \in Roots \cup ({command} \ {Null})}

View == <<[e \in Reached |-> <<heap.type[e], heap.next[e]>>],
          alive, stack, command, phase, line>>
=============================================================================
