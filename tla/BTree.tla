------------------------------- MODULE BTree -------------------------------
(***************************************************************************)
(* The binary tree of lib/btree.c: nodes that a client places to the left  *)
(* or right of others.  Nothing in the shell uses it; its client here      *)
(* calls every function in any order, keeps to the documented              *)
(* preconditions, and gives no NULL for a key.                             *)
(*                                                                         *)
(* The sentinel `nil' of a tree is told from a node by its key, which      *)
(* btree_create() does not set.  A pointer to a node that was freed, like  *)
(* one that is NULL, must not be followed: what the program does from then *)
(* on is undefined.  An insertion or creation without memory changes       *)
(* nothing.                                                                *)
(***************************************************************************)
EXTENDS Naturals, FiniteSets

CONSTANTS
    Node,       \* addresses malloc() can return for a struct btree_node_t
    Tree,       \* addresses malloc() can return for a struct btree_t
    Nil,        \* the sentinel of any tree
    Null,       \* the null pointer
    Dangling,   \* a pointer to a node that was freed
    NoTree      \* the tree of a node that is in none

ASSUME NodeAssumption == IsFiniteSet(Node) /\ {Nil, Null, Dangling} \cap Node = {}
ASSUME PointerAssumption == Nil # Null /\ Nil # Dangling /\ Null # Dangling
ASSUME TreeAssumption == NoTree \notin Tree

Side == {"left", "right"}
Pointer == Node \cup {Nil, Null, Dangling}

VARIABLES
    live,       \* the trees that are allocated
    junk,       \* of these, the ones whose sentinel has a key by accident
    root, size, \* the fields of the trees
    parent, child, \* the fields of the nodes
    owner,      \* (history) the tree each node is in
    rejected,   \* the nodes allocated for an insertion that was refused
    merged,     \* (history) the trees that btree_merge() made
    torn,       \* (history) the trees given to btree_remove() or btree_merge()
    status      \* "ok", or "undefined" once a bad pointer was followed

trees == <<live, junk, root, size>>
nodes == <<parent, child, owner, rejected>>
history == <<merged, torn>>
vars == <<trees, nodes, history, status>>

\* Every variable keeps its type; in particular no size runs below zero.
TypeOK ==
    /\ live \subseteq Tree /\ junk \subseteq live
    /\ merged \subseteq live /\ torn \subseteq live
    /\ root \in [Tree -> Pointer] /\ size \in [Tree -> Nat]
    /\ parent \in [Node -> Node \cup {Null}]
    /\ child \in [Node -> [Side -> Pointer]]
    /\ owner \in [Node -> Tree \cup {NoTree}] /\ rejected \subseteq Node
    /\ status \in {"ok", "undefined"}

Init ==
    /\ live = {} /\ junk = {} /\ merged = {} /\ torn = {} /\ rejected = {}
    /\ root = [t \in Tree |-> Nil] /\ size = [t \in Tree |-> 0]
    /\ parent = [n \in Node |-> Null]
    /\ child = [n \in Node |-> [s \in Side |-> Nil]]
    /\ owner = [n \in Node |-> NoTree]
    /\ status = "ok"

Members(t) == {n \in Node : owner[n] = t}
Unused == {n \in Node \ rejected : owner[n] = NoTree}

\* The trees that the client has a pointer to: none that was merged, since
\* btree_merge() returns 0 however it ends.
Known == live \ merged

Undefined ==
    /\ status' = "undefined"
    /\ UNCHANGED <<trees, nodes, history>>

Create(t) ==
    /\ status = "ok" /\ t \in Tree \ live
    /\ live' = live \cup {t}
    /\ \E J \in SUBSET {t} : junk' = junk \cup J
    /\ root' = [root EXCEPT ![t] = Nil] /\ size' = [size EXCEPT ![t] = 0]
    /\ UNCHANGED <<nodes, history, status>>

-----------------------------------------------------------------------------
(***************************************************************************)
(* btree_insert().  At NULL, the root is not looked at, only the size.     *)
(***************************************************************************)

\* (mutant) a second root is taken
Open_Root(t, n, s) == IF n = Null THEN TRUE ELSE child[n][s] = Nil /\ t \notin junk

Open(t, n, s) == IF n = Null THEN size[t] = 0 ELSE child[n][s] = Nil /\ t \notin junk

\* (mutant) no sentinels below a new node
Leaf_Null == [x \in Side |-> Null]

Leaf == [x \in Side |-> Nil]

Call(t, n, new) ==
    /\ status = "ok" /\ t \in Known
    /\ n \in Members(t) \cup {Null} /\ new \in Unused

Insert(t, n, s, new) ==
    /\ Call(t, n, new) /\ Open(t, n, s)
    /\ parent' = [parent EXCEPT ![new] = n]
    /\ child' = [m \in Node |-> IF m = new THEN Leaf
                                ELSE IF m = n THEN [child[m] EXCEPT ![s] = new]
                                ELSE child[m]]
    /\ root' = IF n = Null THEN [root EXCEPT ![t] = new] ELSE root
    /\ owner' = [owner EXCEPT ![new] = t]
    /\ size' = [size EXCEPT ![t] = @ + 1]
    /\ UNCHANGED <<live, junk, rejected, history, status>>

\* The new node is allocated before the place is looked at, and kept.
InsertRefused(t, n, s, new) ==
    /\ Call(t, n, new) /\ ~Open(t, n, s)
    /\ IF n # Null /\ child[n][s] = Dangling
       THEN Undefined
       ELSE /\ rejected' = rejected \cup {new}
            /\ UNCHANGED <<trees, parent, child, owner, history, status>>

-----------------------------------------------------------------------------
(***************************************************************************)
(* btree_remove().                                                         *)
(***************************************************************************)

\* The pointers that the recursion meets: the least set that contains p and
\* the children of its nodes.
Closed(S) == \A n \in S \cap Node : \A s \in Side : child[n][s] \in S

Below(p) == {q \in Pointer : \A S \in SUBSET Pointer : p \in S /\ Closed(S) => q \in S}

\* (mutant) the base case is left out, (mutant) the recursion is left out
Gone_Nil(p)  == Below(p)
Gone_Only(p) == {p} \cap Node

Gone(p) == Below(p) \cap Node

\* It ends at sentinels, as long as these can be told from nodes.
Removable(t, p) == Below(p) \cap {Null, Dangling} = {} /\ t \notin junk

\* Nodes are freed, and what pointed to them still does.
Stale(p, gone) == IF p \in gone THEN Dangling ELSE p

Release(gone) ==
    /\ owner' = [n \in Node |-> IF n \in gone THEN NoTree ELSE owner[n]]
    /\ parent' = [n \in Node |-> IF n \in gone THEN Null ELSE parent[n]]
    /\ child' = [n \in Node |-> [s \in Side |->
                    IF n \in gone THEN Nil ELSE Stale(child[n][s], gone)]]

\* The client names a node by the pointer that leads to it.
Places(t) == {root[t]} \cup {child[n][s] : n \in Members(t), s \in Side}

Remove(t, p) ==
    /\ status = "ok" /\ t \in Known /\ p \in Places(t)
    /\ IF ~Removable(t, p)
       THEN Undefined
       ELSE LET gone == Gone(p) IN
            /\ Release(gone)
            /\ root' = [u \in Tree |-> Stale(root[u], gone)]
            /\ size' = [size EXCEPT ![t] = @ - Cardinality(gone)]
            /\ torn' = IF gone = {} THEN torn ELSE torn \cup {t}
            /\ UNCHANGED <<live, junk, rejected, merged, status>>

Destroy(t) ==
    /\ status = "ok" /\ t \in Known
    /\ IF ~Removable(t, root[t])
       THEN Undefined
       ELSE LET gone == Gone(root[t]) IN
            /\ Release(gone)
            /\ live' = live \ {t} /\ torn' = torn \ {t}
            /\ root' = [root EXCEPT ![t] = Nil] /\ size' = [size EXCEPT ![t] = 0]
            /\ UNCHANGED <<junk, rejected, merged, status>>

-----------------------------------------------------------------------------
(***************************************************************************)
(* btree_merge() of two different trees.                                   *)
(***************************************************************************)

\* (mutant) the right tree is not counted
MergedSize_Left(l, r) == 1 + size[l]

MergedSize(l, r) == 1 + size[l] + size[r]

Merge(l, r, t, new) ==
    /\ status = "ok" /\ l \in Known /\ r \in Known \ {l}
    /\ t \in Tree \ live /\ new \in Unused
    /\ live' = live \cup {t} /\ merged' = merged \cup {t} /\ torn' = torn \cup {l, r}
    /\ child' = [child EXCEPT ![new] = [left |-> root[l], right |-> root[r]]]
    /\ parent' = [parent EXCEPT ![new] = Null]
    /\ owner' = [n \in Node |-> IF n = new \/ owner[n] \in {l, r} THEN t ELSE owner[n]]
    /\ root' = [root EXCEPT ![t] = new, ![l] = Null, ![r] = Null]
    /\ size' = [size EXCEPT ![t] = MergedSize(l, r), ![l] = 0, ![r] = 0]
    /\ UNCHANGED <<junk, rejected, status>>

\* No memory for the root: the new tree is destroyed again, without a trace
\* unless its sentinel has a key.
MergeFails(l, r, t) ==
    /\ status = "ok" /\ l \in Known /\ r \in Known \ {l} /\ t \in Tree \ live
    /\ live' = live \cup {t} /\ junk' = junk \cup {t}
    /\ root' = [root EXCEPT ![t] = Nil] /\ size' = [size EXCEPT ![t] = 0]
    /\ status' = "undefined"
    /\ UNCHANGED <<nodes, history>>

Next ==
    \/ \E t \in Tree : Create(t) \/ Destroy(t)
    \/ \E t \in Tree, n \in Node \cup {Null}, s \in Side, new \in Node :
          Insert(t, n, s, new) \/ InsertRefused(t, n, s, new)
    \/ \E t \in Tree, p \in Pointer : Remove(t, p)
    \/ \E l, r, t \in Tree : MergeFails(l, r, t) \/ \E new \in Node : Merge(l, r, t, new)

Spec == Init /\ [][Next]_vars

-----------------------------------------------------------------------------
(***************************************************************************)
(* Invariants.                                                             *)
(***************************************************************************)

\* btree_size() is the number of nodes in the tree, through the recursive
\* removal of subtrees and through merging.
SizeCounts == \A t \in live : size[t] = Cardinality(Members(t))

\* Each node of a tree is at one place of that tree, and, unless the tree was
\* merged, parent leads back: so the recursion in btree_remove() meets each
\* node once.
Shaped ==
    \A n \in Node : owner[n] # NoTree =>
        LET above == {m \in Node : owner[m] # NoTree /\ \E s \in Side : child[m][s] = n}
        IN  /\ IF n = root[owner[n]] THEN above = {}
               ELSE /\ Cardinality(above) = 1
                    /\ \A m \in above : /\ owner[m] = owner[n]
                                        /\ child[m]["left"] # child[m]["right"]
            /\ owner[n] \in Known => above = {parent[n]} \ {Null}

\* btree_destroy(), when it returns, leaves no node of its tree behind.
NoneLeft == \A n \in Node : owner[n] \in live \cup {NoTree}

\* A client that neither removes nor merges follows no bad pointer, provided
\* that the memory of the sentinels happened to be zero.
Safe == status = "undefined" => junk \cup torn # {}
=============================================================================
