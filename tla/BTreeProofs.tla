---------------------------- MODULE BTreeProofs ----------------------------
(***************************************************************************)
(* Proofs about BTree, for any number of nodes and trees.                  *)
(*                                                                         *)
(* What the recursion of btree_remove() meets is a least closed set, so    *)
(* facts about it are proved by naming closed sets: a tree keeps to its    *)
(* own nodes (Home), and all of its nodes hang on its root (Hung).         *)
(***************************************************************************)
EXTENDS BTree, FiniteSetTheorems, TLAPS

Special == {Nil, Null, Dangling}

\* The pointers of a tree lead to its own nodes, or to none.
Home(t) ==
    /\ root[t] \in Members(t) \cup Special
    /\ \A n \in Members(t), s \in Side : child[n][s] \in Members(t) \cup Special

\* Each node of a tree is reached from the root.
Hung(t) == Members(t) \subseteq Below(root[t])

\* No pointer of the tree is bad.
Intact(t) ==
    /\ root[t] \in Members(t) \cup {Nil}
    /\ \A n \in Members(t), s \in Side : child[n][s] \in Members(t) \cup {Nil}

TreeAt(t) ==
    /\ Home(t) /\ Hung(t)
    /\ size[t] = Cardinality(Members(t))
    /\ t \in Known \ torn => Intact(t)

TreeInv ==
    /\ TypeOK /\ NoneLeft /\ Safe
    /\ \A t \in live : TreeAt(t)

-----------------------------------------------------------------------------
LEMMA Finite ==
    ASSUME NEW S \in SUBSET Node
    PROVE  /\ IsFiniteSet(S) /\ Cardinality(S) \in Nat
           /\ Cardinality(S) = 0 <=> S = {}
  BY NodeAssumption, FS_Subset, FS_CardinalityType, FS_EmptySet

\* Induction along the pointers of a tree.
LEMMA Along ==
    ASSUME TypeOK, NEW t \in Tree, Home(t), Hung(t), NEW S \in SUBSET Pointer,
           root[t] \in S \cup Special,
           \A n \in S \cap Members(t), s \in Side : child[n][s] \in S \cup Special
    PROVE  Members(t) \subseteq S
  <1> DEFINE C == (S \cap Members(t)) \cup Special
  <1>1. C \in SUBSET Pointer /\ C \cap Node \subseteq S \cap Members(t)
    BY NodeAssumption DEF Special, Pointer, Members
  <1>2. root[t] \in C  BY DEF Home
  <1>3. Closed(C)
    <2>1. \A n \in C \cap Node, s \in Side : n \in S \cap Members(t)  BY <1>1
    <2> QED  BY <2>1 DEF Home, Closed
  <1>4. Below(root[t]) \subseteq C  BY <1>1, <1>2, <1>3 DEF Below
  <1>5. Members(t) \subseteq C \cap Node  BY <1>4 DEF Hung, Members
  <1> QED  BY <1>1, <1>5

\* Below is closed, and contains where it starts.
LEMMA BelowClosed ==
    ASSUME TypeOK, NEW p \in Pointer
    PROVE  p \in Below(p) /\ Closed(Below(p)) /\ Below(p) \subseteq Pointer
  <1>1. p \in Below(p) /\ Below(p) \subseteq Pointer  BY DEF Below
  <1>2. ASSUME NEW n \in Below(p) \cap Node, NEW s \in Side
        PROVE  child[n][s] \in Below(p)
    <2>1. child[n][s] \in Pointer  BY DEF TypeOK
    <2>2. ASSUME NEW S \in SUBSET Pointer, p \in S, Closed(S)
          PROVE  child[n][s] \in S
      <3>1. n \in S  BY <2>2 DEF Below
      <3> QED  BY <2>2, <3>1 DEF Closed
    <2> QED  BY <2>1, <2>2 DEF Below
  <1> QED  BY <1>1, <1>2 DEF Closed

\* To show that all nodes of a tree are reached.
LEMMA HungBy ==
    ASSUME TypeOK', NEW t \in Tree,
           ASSUME NEW S \in SUBSET Pointer, root'[t] \in S, Closed(S)'
           PROVE  Members(t)' \subseteq S
    PROVE  Hung(t)'
  <1> DEFINE B == Below(root[t])'
  <1>1. ASSUME NEW x \in Members(t)'  PROVE x \in B
    <2>1. \A S \in SUBSET Pointer : root'[t] \in S /\ Closed(S)' => x \in S  OBVIOUS
    <2>2. x \in Pointer  BY DEF Members, Pointer
    <2> QED  BY <2>1, <2>2 DEF Below
  <1> QED  BY <1>1 DEF Hung

\* A step leaves the other trees as they are.
LEMMA Elsewhere ==
    ASSUME TypeOK, TypeOK', NEW u \in Tree, TreeAt(u),
           Members(u)' = Members(u), root'[u] = root[u], size'[u] = size[u],
           \A n \in Members(u) : child'[n] = child[n],
           u \in (Known \ torn)' => u \in Known \ torn
    PROVE  TreeAt(u)'
  <1>1. Home(u)'  BY DEF TreeAt, Home, Special
  <1>2. Hung(u)'
    <2>1. ASSUME NEW S \in SUBSET Pointer, root'[u] \in S, Closed(S)'
          PROVE  Members(u)' \subseteq S
      <3>1. \A n \in S \cap Members(u), s \in Side : child[n][s] \in S
        BY <2>1 DEF Closed, Members
      <3> QED  BY <2>1, <3>1, Along DEF TreeAt
    <2> QED  BY <2>1, HungBy
  <1>3. u \in (Known \ torn)' => Intact(u)'  BY DEF TreeAt, Intact
  <1> QED  BY <1>1, <1>2, <1>3 DEF TreeAt

-----------------------------------------------------------------------------
(***************************************************************************)
(* Insertions.                                                             *)
(***************************************************************************)
LEMMA InsertPreserves ==
    ASSUME TreeInv, NEW t \in Tree, NEW n \in Node \cup {Null}, NEW s \in Side,
           NEW new \in Node, Insert(t, n, s, new)
    PROVE  TreeInv'
  <1> USE DEF TreeInv, Insert, Call
  <1>1. /\ t \in Known /\ t \in live /\ TreeAt(t)
        /\ new \notin Members(t) /\ owner[new] = NoTree
        /\ n # Null => n \in Members(t) /\ n \in Node /\ n # new
        /\ n # Null => child[n][s] = Nil
        /\ n = Null => size[t] = 0
    BY NodeAssumption, TreeAssumption DEF Known, Unused, Members, Open, TypeOK
  <1>2. Members(t)' = Members(t) \cup {new}
    BY DEF Members, TypeOK
  <1>3. \A u \in Tree \ {t} : Members(u)' = Members(u) /\ root'[u] = root[u] /\ size'[u] = size[u]
    BY <1>1, TreeAssumption DEF Members, TypeOK
  <1>4. TypeOK'
    <2>1. child' \in [Node -> [Side -> Pointer]]
      BY DEF TypeOK, Leaf, Pointer
    <2>2. size' \in [Tree -> Nat] /\ root' \in [Tree -> Pointer]
      BY DEF TypeOK, Pointer
    <2>3. owner' \in [Node -> Tree \cup {NoTree}] /\ parent' \in [Node -> Node \cup {Null}]
      BY DEF TypeOK
    <2> QED  BY <2>1, <2>2, <2>3 DEF TypeOK, history
  <1>5. NoneLeft' /\ Safe'
    <2>1. \A m \in Node : owner'[m] = owner[m] \/ owner'[m] = t  BY DEF TypeOK
    <2> QED  BY <1>1, <2>1 DEF NoneLeft, Safe, history
  <1>6. ASSUME NEW u \in live, u # t  PROVE TreeAt(u)'
    <2>1. u \in Tree  BY DEF TypeOK
    <2>2. \A m \in Members(u) : child'[m] = child[m]
      BY <1>1, <1>6, TreeAssumption, NodeAssumption, <2>1 DEF Members
    <2> QED  BY <1>3, <1>4, <1>6, <2>1, <2>2, Elsewhere DEF Known, history
  <1>7. TreeAt(t)'
    <2>1. child'[new] = Leaf /\ \A m \in Node \ {n, new} : child'[m] = child[m]  OBVIOUS
    <2>2. n # Null => /\ root'[t] = root[t]
                      /\ child'[n][s] = new /\ \A x \in Side \ {s} : child'[n][x] = child[n][x]
      BY <1>1 DEF TypeOK
    <2>3. n = Null => root'[t] = new /\ Members(t) = {}
      BY <1>1, Finite DEF TypeOK, TreeAt, Members
    <2>4. ASSUME NEW m \in Members(t)', NEW x \in Side
          PROVE  (child'[m][x] = child[m][x] /\ m \in Members(t)) \/ child'[m][x] \in {new, Nil}
      <3>1. CASE m = new  BY <2>1, <3>1 DEF Leaf
      <3>2. CASE m # new /\ m = n  BY <1>2, <2>2, <2>4, <3>2, NodeAssumption DEF Members
      <3>3. CASE m # new /\ m # n  BY <1>2, <2>1, <2>4, <3>3 DEF Members
      <3> QED  BY <3>1, <3>2, <3>3
    <2>5. Home(t)'
      <3>1. root'[t] \in Members(t)' \cup Special
        BY <1>1, <1>2, <2>2, <2>3 DEF TreeAt, Home
      <3>2. \A m \in Members(t)', x \in Side : child'[m][x] \in Members(t)' \cup Special
        BY <1>1, <1>2, <2>4 DEF TreeAt, Home, Special
      <3> QED  BY <3>1, <3>2 DEF Home, Special
    <2>6. ASSUME NEW S \in SUBSET Pointer, root'[t] \in S, Closed(S)'
          PROVE  Members(t)' \subseteq S
      <3>1. CASE n = Null  BY <1>2, <2>3, <2>6, <3>1
      <3>2. CASE n # Null
        <4>1. ASSUME NEW m \in S \cap Members(t), NEW x \in Side
              PROVE  child[m][x] \in S \cup Special
          <5>1. child'[m][x] \in S /\ m \in Node /\ m # new
            BY <1>1, <2>6 DEF Closed, Members
          <5>2. CASE m = n /\ x = s  BY <1>1, <3>2, <5>2 DEF Special
          <5>3. CASE ~(m = n /\ x = s)  BY <2>1, <2>2, <3>2, <5>1, <5>3
          <5> QED  BY <5>2, <5>3
        <4>2. Members(t) \subseteq S  BY <1>1, <2>2, <2>6, <3>2, <4>1, Along DEF TreeAt
        <4>3. new \in S  BY <1>1, <2>2, <2>6, <3>2, <4>2 DEF Closed
        <4> QED  BY <1>2, <4>2, <4>3
      <3> QED  BY <3>1, <3>2
    <2>7. Hung(t)'  BY <1>4, <2>6, HungBy
    <2>8. size'[t] = Cardinality(Members(t)')
      <3>1. IsFiniteSet(Members(t))  BY Finite DEF Members
      <3>2. Cardinality(Members(t) \cup {new}) = Cardinality(Members(t)) + 1
        BY <1>1, <3>1, FS_AddElement
      <3> QED  BY <1>1, <1>2, <3>2 DEF TreeAt, TypeOK
    <2>9. t \in (Known \ torn)' => Intact(t)'
      <3>1. t \in (Known \ torn)' => Intact(t)  BY <1>1 DEF TreeAt, Known, history
      <3>2. Intact(t) => root'[t] \in Members(t)' \cup {Nil}
        BY <1>2, <2>2, <2>3 DEF Intact
      <3>3. Intact(t) => \A m \in Members(t)', x \in Side : child'[m][x] \in Members(t)' \cup {Nil}
        BY <1>2, <2>4 DEF Intact
      <3> QED  BY <3>1, <3>2, <3>3 DEF Intact
    <2> QED  BY <2>5, <2>7, <2>8, <2>9 DEF TreeAt
  <1> QED  BY <1>4, <1>5, <1>6, <1>7

-----------------------------------------------------------------------------
(***************************************************************************)
(* Removals.                                                               *)
(***************************************************************************)

\* The recursion stays in its tree, and meets a bad pointer only in a tree
\* from which something was removed or that was merged.
LEMMA BelowStays ==
    ASSUME TreeInv, NEW t \in Known, NEW p \in Places(t)
    PROVE  /\ p \in Pointer /\ Below(p) \subseteq Members(t) \cup Special
           /\ Gone(p) \subseteq Members(t)
           /\ t \notin torn \cup junk => Removable(t, p)
  <1>1. t \in live /\ t \in Tree /\ TreeAt(t)  BY DEF TreeInv, Known, TypeOK
  <1>2. p \in Members(t) \cup Special  BY <1>1 DEF Places, TreeAt, Home
  <1>3. p \in Pointer  BY <1>2 DEF Members, Pointer, Special
  <1>4. Members(t) \cup Special \in SUBSET Pointer /\ (Members(t) \cup Special) \cap Node = Members(t)
    BY NodeAssumption DEF Members, Pointer, Special
  <1>5. Closed(Members(t) \cup Special)  BY <1>1, <1>4 DEF TreeAt, Home, Closed
  <1>6. Below(p) \subseteq Members(t) \cup Special  BY <1>2, <1>4, <1>5 DEF Below
  <1>7. ASSUME t \notin torn \cup junk  PROVE Removable(t, p)
    <2>1. Intact(t)  BY <1>1, <1>7 DEF TreeAt
    <2>2. p \in Members(t) \cup {Nil}  BY <2>1 DEF Places, Intact
    <2>3. Members(t) \cup {Nil} \in SUBSET Pointer /\ (Members(t) \cup {Nil}) \cap Node = Members(t)
      BY NodeAssumption DEF Members, Pointer
    <2>4. Closed(Members(t) \cup {Nil})  BY <2>1, <2>3 DEF Intact, Closed
    <2>5. Below(p) \subseteq Members(t) \cup {Nil}  BY <2>2, <2>3, <2>4 DEF Below
    <2> QED  BY <1>7, <2>5, NodeAssumption, PointerAssumption DEF Removable, Members
  <1> QED  BY <1>3, <1>4, <1>6, <1>7 DEF Gone

LEMMA Releasing ==
    ASSUME TreeInv, NEW t \in Known, NEW p \in Places(t), Release(Gone(p))
    PROVE  /\ Members(t)' = Members(t) \ Gone(p)
           /\ \A u \in Tree \ {t} : Members(u)' = Members(u)
           /\ \A u \in live \ {t} : \A n \in Members(u) : child'[n] = child[n]
           /\ \A u \in live \ {t} : Stale(root[u], Gone(p)) = root[u]
           /\ owner' \in [Node -> Tree \cup {NoTree}]
           /\ parent' \in [Node -> Node \cup {Null}]
           /\ child' \in [Node -> [Side -> Pointer]]
  <1>1. Gone(p) \subseteq Members(t)  BY BelowStays
  <1>2. t \in live /\ t \in Tree /\ TypeOK  BY DEF TreeInv, Known, TypeOK
  <1>3. Members(t)' = Members(t) \ Gone(p)
    BY <1>2, TreeAssumption DEF Members, Release
  <1>4. ASSUME NEW u \in Tree \ {t}  PROVE Members(u)' = Members(u) /\ Members(u) \cap Gone(p) = {}
    BY <1>1, <1>2, TreeAssumption DEF Members, Release
  <1>5. ASSUME NEW u \in live \ {t}
        PROVE  /\ \A n \in Members(u) : child'[n] = child[n]
               /\ Stale(root[u], Gone(p)) = root[u]
    <2>1. u \in Tree \ {t} /\ Home(u)  BY <1>2 DEF TypeOK, TreeInv, TreeAt
    <2>2. \A q \in Members(u) \cup Special : Stale(q, Gone(p)) = q
      BY <1>1, <1>4, <2>1, NodeAssumption DEF Stale, Members, Special
    <2>3. ASSUME NEW n \in Members(u)  PROVE child'[n] = child[n]
      <3>1. n \in Node /\ n \notin Gone(p) /\ child[n] \in [Side -> Pointer]
        BY <1>2, <1>4, <2>1 DEF Members, TypeOK
      <3>2. child'[n] = [s \in Side |-> Stale(child[n][s], Gone(p))]
        BY <3>1 DEF Release
      <3>3. \A s \in Side : Stale(child[n][s], Gone(p)) = child[n][s]
        BY <2>1, <2>2 DEF Home
      <3> QED  BY <3>1, <3>2, <3>3
    <2> QED  BY <2>1, <2>2, <2>3 DEF Home
  <1>6. /\ owner' \in [Node -> Tree \cup {NoTree}] /\ parent' \in [Node -> Node \cup {Null}]
        /\ child' \in [Node -> [Side -> Pointer]]
    BY <1>2 DEF Release, TypeOK, Stale, Pointer
  <1> QED  BY <1>3, <1>4, <1>5, <1>6

LEMMA RemovePreserves ==
    ASSUME TreeInv, NEW t \in Tree, NEW p \in Pointer, Remove(t, p), Removable(t, p)
    PROVE  TreeInv'
  <1> DEFINE gone == Gone(p)
  <1>1. /\ t \in Known /\ t \in live /\ p \in Places(t) /\ TreeAt(t) /\ TypeOK /\ NoneLeft
        /\ Release(gone) /\ root' = [u \in Tree |-> Stale(root[u], gone)]
        /\ size' = [size EXCEPT ![t] = @ - Cardinality(gone)]
        /\ torn' = IF gone = {} THEN torn ELSE torn \cup {t}
        /\ UNCHANGED <<live, junk, rejected, merged, status>>
        /\ status = "ok"
    BY DEF Remove, TreeInv, Known
  <1>2. gone \subseteq Members(t) /\ Below(p) \subseteq Members(t) \cup Special
    BY <1>1, BelowStays
  <1>3. Members(t)' = Members(t) \ gone  BY <1>1, Releasing
  <1>4. size'[t] = Cardinality(Members(t)') /\ size'[t] \in Nat
    <2>1. IsFiniteSet(Members(t)) /\ Cardinality(Members(t) \ gone) \in Nat  BY Finite DEF Members
    <2>2. Cardinality(Members(t) \ gone) = Cardinality(Members(t)) - Cardinality(Members(t) \cap gone)
      BY <2>1, FS_Difference
    <2>3. Members(t) \cap gone = gone  BY <1>2
    <2> QED  BY <1>1, <1>3, <2>1, <2>2, <2>3 DEF TreeAt, TypeOK
  <1>5. TypeOK'
    <2>1. root' \in [Tree -> Pointer]  BY <1>1 DEF TypeOK, Stale, Pointer
    <2>2. size' \in [Tree -> Nat]  BY <1>1, <1>4 DEF TypeOK
    <2> QED  BY <1>1, <2>1, <2>2, Releasing DEF TypeOK
  <1>6. NoneLeft' /\ Safe'
    <2>1. \A m \in Node : owner'[m] \in {owner[m], NoTree}  BY <1>1 DEF Release
    <2> QED  BY <1>1, <2>1 DEF NoneLeft, Safe
  <1>7. ASSUME NEW u \in live, u # t  PROVE TreeAt(u)'
    <2>1. u \in Tree \ {t} /\ TreeAt(u)  BY <1>1, <1>7 DEF TypeOK, TreeInv
    <2>2. root'[u] = root[u] /\ size'[u] = size[u]
      BY <1>1, <1>7, <2>1, Releasing DEF TypeOK
    <2> QED  BY <1>1, <1>5, <1>7, <2>1, <2>2, Releasing, Elsewhere DEF Known
  <1>8. TreeAt(t)'
    <2>1. ASSUME NEW n \in Members(t)'
          PROVE  n \in Members(t) \ gone /\ \A s \in Side : child'[n][s] = Stale(child[n][s], gone)
      BY <1>1, <1>3, <2>1 DEF Release, Members
    <2>2. \A q \in Members(t) \cup Special : Stale(q, gone) \in Members(t)' \cup Special
      BY <1>3 DEF Stale, Special
    <2>3. root'[t] = Stale(root[t], gone)  BY <1>1
    <2>4. Home(t)'
      <3>1. root'[t] \in Members(t)' \cup Special
        BY <1>1, <2>2, <2>3 DEF TreeAt, Home
      <3>2. \A n \in Members(t)', s \in Side : child'[n][s] \in Members(t)' \cup Special
        BY <1>1, <1>3, <2>1, <2>2 DEF TreeAt, Home
      <3> QED  BY <3>1, <3>2 DEF Home, Special
    <2>5. ASSUME NEW S \in SUBSET Pointer, root'[t] \in S, Closed(S)'
          PROVE  Members(t)' \subseteq S
      <3> DEFINE G == S \cup gone
      <3>1. G \in SUBSET Pointer  BY <1>2 DEF Members, Pointer
      <3>2. root[t] \in G \cup Special  BY <2>3, <2>5 DEF Stale
      <3>3. ASSUME NEW n \in G \cap Members(t), NEW s \in Side
            PROVE  child[n][s] \in G \cup Special
        <4>1. CASE n \in gone
          <5>1. child[n][s] \in Below(p)
            BY <1>1, <4>1, BelowClosed DEF Gone, Closed
          <5> QED  BY <1>2, <5>1 DEF Gone, Members
        <4>2. CASE n \notin gone
          <5>1. n \in Members(t)' /\ n \in S \cap Node  BY <1>3, <4>2 DEF Members
          <5>2. child'[n][s] \in S  BY <2>5, <5>1 DEF Closed
          <5> QED  BY <2>1, <5>1, <5>2 DEF Stale
        <4> QED  BY <4>1, <4>2
      <3>4. Members(t) \subseteq G  BY <1>1, <3>1, <3>2, <3>3, Along DEF TreeAt
      <3> QED  BY <1>3, <3>4
    <2>6. Hung(t)'  BY <1>5, <2>5, HungBy
    <2>7. t \in (Known \ torn)' => Intact(t)'
      <3>1. ASSUME t \notin torn'  PROVE Intact(t)'
        <4>1. gone = {} /\ t \notin torn  BY <1>1, <3>1
        <4>2. Intact(t)  BY <1>1, <4>1 DEF TreeAt
        <4>3. \A q \in Pointer : Stale(q, gone) = q  BY <4>1 DEF Stale
        <4>4. root'[t] \in Members(t)' \cup {Nil}
          BY <1>3, <2>3, <4>1, <4>2 DEF Intact, Stale
        <4>5. \A n \in Members(t)', s \in Side : child'[n][s] \in Members(t)' \cup {Nil}
          BY <1>3, <2>1, <4>1, <4>2 DEF Intact, Stale
        <4> QED  BY <4>4, <4>5 DEF Intact
      <3> QED  BY <3>1
    <2> QED  BY <1>4, <2>4, <2>6, <2>7 DEF TreeAt
  <1> QED  BY <1>1, <1>5, <1>6, <1>7, <1>8 DEF TreeInv

LEMMA DestroyPreserves ==
    ASSUME TreeInv, NEW t \in Tree, Destroy(t), Removable(t, root[t])
    PROVE  TreeInv'
  <1> DEFINE gone == Gone(root[t])
  <1>1. /\ t \in Known /\ t \in live /\ root[t] \in Places(t) /\ TreeAt(t) /\ TypeOK /\ NoneLeft
        /\ Release(gone) /\ live' = live \ {t} /\ torn' = torn \ {t}
        /\ root' = [root EXCEPT ![t] = Nil] /\ size' = [size EXCEPT ![t] = 0]
        /\ UNCHANGED <<junk, rejected, merged, status>>
        /\ status = "ok" /\ t \notin junk /\ t \notin merged
    BY DEF Destroy, TreeInv, Known, Places, Removable
  <1>2. Members(t)' = {}
    <2>1. Members(t) \subseteq gone  BY <1>1 DEF TreeAt, Hung, Gone, Members
    <2> QED  BY <1>1, <2>1, Releasing
  <1>3. TypeOK'
    <2>1. root' \in [Tree -> Pointer] /\ size' \in [Tree -> Nat]
      BY <1>1 DEF TypeOK, Pointer
    <2>2. junk' \subseteq live' /\ merged' \subseteq live' /\ torn' \subseteq live' /\ live' \subseteq Tree
      BY <1>1 DEF TypeOK
    <2> QED  BY <1>1, <2>1, <2>2, Releasing DEF TypeOK
  <1>4. NoneLeft' /\ Safe'
    <2>1. \A m \in Node : owner'[m] \in {owner[m], NoTree} /\ owner'[m] # t
      BY <1>1, <1>2 DEF Release, Members
    <2> QED  BY <1>1, <2>1 DEF NoneLeft, Safe
  <1>5. ASSUME NEW u \in live', u # t  PROVE TreeAt(u)'
    <2>1. u \in live /\ u \in Tree \ {t} /\ TreeAt(u)  BY <1>1, <1>5 DEF TypeOK, TreeInv
    <2>2. root'[u] = root[u] /\ size'[u] = size[u]  BY <1>1, <2>1 DEF TypeOK
    <2>3. u \in (Known \ torn)' => u \in Known \ torn  BY <1>1, <2>1 DEF Known
    <2> QED  BY <1>1, <1>3, <2>1, <2>2, <2>3, Releasing, Elsewhere
  <1> QED  BY <1>1, <1>3, <1>4, <1>5 DEF TreeInv

-----------------------------------------------------------------------------
(***************************************************************************)
(* Creation and merging, and steps that follow a bad pointer.              *)
(***************************************************************************)
LEMMA CreatePreserves ==
    ASSUME TreeInv, NEW t \in Tree, Create(t)
    PROVE  TreeInv'
  <1>1. TypeOK /\ NoneLeft /\ Members(t) = {} /\ Members(t)' = {} /\ t \notin live
        /\ live' = live \cup {t} /\ UNCHANGED <<nodes, history, status>> /\ status = "ok"
    BY TreeAssumption DEF TreeInv, Create, NoneLeft, Members, nodes
  <1>2. TypeOK'
    BY <1>1 DEF Create, TypeOK, nodes, history, Pointer
  <1>3. NoneLeft' /\ Safe'  BY <1>1 DEF NoneLeft, Safe, nodes
  <1>4. ASSUME NEW u \in live  PROVE TreeAt(u)'
    <2>1. u \in Tree /\ u # t /\ TreeAt(u)  BY <1>1 DEF TypeOK, TreeInv
    <2>2. root'[u] = root[u] /\ size'[u] = size[u]  BY <2>1 DEF Create
    <2> QED  BY <1>1, <1>2, <2>1, <2>2, Elsewhere DEF Members, Known, nodes, history
  <1>5. TreeAt(t)'
    <2>1. root'[t] = Nil /\ size'[t] = 0  BY <1>1 DEF Create, TypeOK
    <2>2. Home(t)' /\ Intact(t)' /\ Hung(t)'
      BY <1>1, <2>1 DEF Home, Intact, Hung, Special
    <2> QED  BY <1>1, <2>1, <2>2, FS_EmptySet DEF TreeAt
  <1> QED  BY <1>1, <1>2, <1>3, <1>4, <1>5 DEF TreeInv

LEMMA MergePreserves ==
    ASSUME TreeInv, NEW l \in Tree, NEW r \in Tree, NEW t \in Tree, NEW new \in Node,
           Merge(l, r, t, new)
    PROVE  TreeInv'
  <1>1. /\ l \in Known /\ r \in Known /\ l \in live /\ r \in live /\ l # r /\ t \notin live
        /\ t # l /\ t # r /\ status = "ok"
        /\ TypeOK /\ NoneLeft /\ TreeAt(l) /\ TreeAt(r)
        /\ live' = live \cup {t} /\ merged' = merged \cup {t} /\ torn' = torn \cup {l, r}
        /\ root' = [root EXCEPT ![t] = new, ![l] = Null, ![r] = Null]
        /\ size' = [size EXCEPT ![t] = MergedSize(l, r), ![l] = 0, ![r] = 0]
        /\ child' = [child EXCEPT ![new] = [left |-> root[l], right |-> root[r]]]
        /\ parent' = [parent EXCEPT ![new] = Null]
        /\ UNCHANGED <<junk, rejected, status>>
        /\ owner[new] = NoTree
    BY DEF Merge, TreeInv, Known, Unused
  <1>2. \A u \in Tree : new \notin Members(u)  BY <1>1, TreeAssumption DEF Members
  <1>3. /\ Members(t)' = Members(l) \cup Members(r) \cup {new}
        /\ Members(l)' = {} /\ Members(r)' = {}
        /\ \A u \in live \ {l, r} : Members(u)' = Members(u)
    <2>1. owner' = [n \in Node |-> IF n = new \/ owner[n] \in {l, r} THEN t ELSE owner[n]]
      BY DEF Merge
    <2>2. Members(t) = {}  BY <1>1, TreeAssumption DEF NoneLeft, Members
    <2>3. \A n \in Node : owner'[n] = IF n = new \/ owner[n] \in {l, r} THEN t ELSE owner[n]
      BY <2>1
    <2>4. Members(t)' = Members(l) \cup Members(r) \cup {new}  BY <2>2, <2>3 DEF Members
    <2>5. Members(l)' = {} /\ Members(r)' = {}  BY <1>1, <2>3 DEF Members
    <2>6. ASSUME NEW u \in live \ {l, r}  PROVE Members(u)' = Members(u)
      <3>1. u # t /\ u # NoTree  BY <1>1, TreeAssumption DEF TypeOK
      <3> QED  BY <1>1, <2>3, <3>1 DEF Members
    <2> QED  BY <2>4, <2>5, <2>6
  <1>4. size'[t] = Cardinality(Members(t)') /\ size'[t] \in Nat
    <2>1. IsFiniteSet(Members(l)) /\ IsFiniteSet(Members(r))
          /\ Cardinality(Members(l)) \in Nat /\ Cardinality(Members(r)) \in Nat
      BY Finite DEF Members
    <2>2. Members(l) \cap Members(r) = {}  BY <1>1 DEF Members
    <2>3. /\ IsFiniteSet(Members(l) \cup Members(r))
          /\ Cardinality(Members(l) \cup Members(r)) = Cardinality(Members(l)) + Cardinality(Members(r))
      <3>1. Cardinality(Members(l) \cap Members(r)) = 0  BY <2>2, FS_EmptySet
      <3>2. /\ IsFiniteSet(Members(l) \cup Members(r))
            /\ Cardinality(Members(l) \cup Members(r))
                 = Cardinality(Members(l)) + Cardinality(Members(r)) - Cardinality(Members(l) \cap Members(r))
        BY <2>1, FS_Union
      <3> QED  BY <2>1, <3>1, <3>2
    <2>4. new \notin Members(l) \cup Members(r)  BY <1>2
    <2>5. Cardinality(Members(t)') = Cardinality(Members(l)) + Cardinality(Members(r)) + 1
      BY <1>3, <2>3, <2>4, FS_AddElement
    <2>6. size'[t] = 1 + size[l] + size[r]  BY <1>1 DEF TypeOK, MergedSize
    <2> QED  BY <1>1, <2>1, <2>5, <2>6 DEF TreeAt
  <1>5. TypeOK'
    <2>1. child' \in [Node -> [Side -> Pointer]]  BY <1>1 DEF TypeOK, Side
    <2>2. size' \in [Tree -> Nat]  BY <1>1, <1>4 DEF TypeOK
    <2>3. root' \in [Tree -> Pointer]  BY <1>1 DEF TypeOK, Pointer
    <2>4. owner' \in [Node -> Tree \cup {NoTree}]  BY <1>1 DEF Merge, TypeOK
    <2>5. parent' \in [Node -> Node \cup {Null}]  BY <1>1 DEF TypeOK
    <2> QED  BY <1>1, <2>1, <2>2, <2>3, <2>4, <2>5 DEF TypeOK
  <1>6. NoneLeft' /\ Safe'
    <2>1. \A n \in Node : owner'[n] \in {owner[n], t}  BY DEF Merge
    <2> QED  BY <1>1, <2>1 DEF NoneLeft, Safe
  <1>7. ASSUME NEW u \in live, u # l, u # r  PROVE TreeAt(u)'
    <2>1. u \in Tree /\ u # t /\ TreeAt(u)  BY <1>1 DEF TypeOK, TreeInv
    <2>2. root'[u] = root[u] /\ size'[u] = size[u]  BY <1>1, <1>7, <2>1 DEF TypeOK
    <2>3. \A n \in Members(u) : child'[n] = child[n]
      BY <1>1, <1>2, <2>1 DEF TypeOK, Members
    <2>4. u \in (Known \ torn)' => u \in Known \ torn  BY <1>1, <1>7 DEF Known
    <2> QED  BY <1>1, <1>3, <1>5, <1>7, <2>1, <2>2, <2>3, <2>4, Elsewhere
  <1>8. ASSUME NEW u \in {l, r}  PROVE TreeAt(u)'
    <2>1. root'[u] = Null /\ size'[u] = 0 /\ Members(u)' = {} /\ u \in torn'
      BY <1>1, <1>3 DEF TypeOK
    <2>2. Home(u)' /\ Hung(u)'  BY <2>1 DEF Home, Hung, Special
    <2> QED  BY <2>1, <2>2, FS_EmptySet DEF TreeAt
  <1>9. TreeAt(t)'
    <2>1. root'[t] = new /\ t \notin Known'  BY <1>1 DEF TypeOK, Known
    <2>2. child'[new]["left"] = root[l] /\ child'[new]["right"] = root[r]
      BY <1>1 DEF TypeOK
    <2>3. \A n \in Members(l) \cup Members(r) : child'[n] = child[n]
      BY <1>1, <1>2 DEF TypeOK, Members
    <2>4. Home(t)'
      <3>1. root'[t] \in Members(t)'  BY <1>3, <2>1
      <3>2. ASSUME NEW n \in Members(t)', NEW s \in Side
            PROVE  child'[n][s] \in Members(t)' \cup Special
        <4>1. CASE n = new  BY <1>1, <1>3, <2>2, <4>1 DEF TreeAt, Home, Side
        <4>2. CASE n # new  BY <1>1, <1>3, <2>3, <4>2 DEF TreeAt, Home
        <4> QED  BY <4>1, <4>2
      <3> QED  BY <3>1, <3>2 DEF Home, Special
    <2>5. ASSUME NEW S \in SUBSET Pointer, root'[t] \in S, Closed(S)'
          PROVE  Members(t)' \subseteq S
      <3>1. root[l] \in S /\ root[r] \in S
        BY <2>1, <2>2, <2>5 DEF Closed, Side
      <3>2. \A u \in {l, r} : \A n \in S \cap Members(u), s \in Side : child[n][s] \in S
        BY <2>3, <2>5 DEF Closed, Members
      <3>3. Members(l) \subseteq S  BY <1>1, <3>1, <3>2, Along DEF TreeAt
      <3>4. Members(r) \subseteq S  BY <1>1, <3>1, <3>2, Along DEF TreeAt
      <3> QED  BY <1>3, <2>1, <2>5, <3>3, <3>4
    <2>6. Hung(t)'  BY <1>5, <2>5, HungBy
    <2> QED  BY <1>4, <2>1, <2>4, <2>6 DEF TreeAt
  <1> QED  BY <1>1, <1>5, <1>6, <1>7, <1>8, <1>9 DEF TreeInv

\* The trees and nodes as they are, the program undefined.
LEMMA UndefinedPreserves ==
    ASSUME TreeInv, Undefined, junk \cup torn # {}
    PROVE  TreeInv'
  <1>1. TypeOK' /\ NoneLeft' /\ Safe' /\ live' = live
    BY DEF TreeInv, Undefined, TypeOK, NoneLeft, Safe, trees, nodes, history
  <1>2. ASSUME NEW u \in live  PROVE TreeAt(u)'
    <2>1. u \in Tree /\ TreeAt(u) /\ TypeOK  BY DEF TreeInv, TypeOK
    <2>2. UNCHANGED <<live, merged, torn, owner, root, size, child>>
      BY DEF Undefined, trees, nodes, history
    <2> QED  BY <1>1, <2>1, <2>2, Elsewhere DEF Members, Known
  <1> QED  BY <1>1, <1>2 DEF TreeInv

LEMMA MergeFailsPreserves ==
    ASSUME TreeInv, NEW l \in Tree, NEW r \in Tree, NEW t \in Tree, MergeFails(l, r, t)
    PROVE  TreeInv'
  <1>1. TypeOK /\ NoneLeft /\ Members(t) = {} /\ Members(t)' = {} /\ t \notin live
        /\ live' = live \cup {t} /\ junk' = junk \cup {t} /\ UNCHANGED <<nodes, history>>
    BY TreeAssumption DEF TreeInv, MergeFails, NoneLeft, Members, nodes
  <1>2. TypeOK'
    BY <1>1 DEF MergeFails, TypeOK, nodes, history, Pointer
  <1>3. NoneLeft' /\ Safe'  BY <1>1 DEF NoneLeft, Safe, nodes
  <1>4. ASSUME NEW u \in live  PROVE TreeAt(u)'
    <2>1. u \in Tree /\ u # t /\ TreeAt(u)  BY <1>1 DEF TypeOK, TreeInv
    <2>2. root'[u] = root[u] /\ size'[u] = size[u]  BY <2>1 DEF MergeFails
    <2> QED  BY <1>1, <1>2, <2>1, <2>2, Elsewhere DEF Members, Known, nodes, history
  <1>5. TreeAt(t)'
    <2>1. root'[t] = Nil /\ size'[t] = 0  BY <1>1 DEF MergeFails, TypeOK
    <2>2. Home(t)' /\ Intact(t)' /\ Hung(t)'
      BY <1>1, <2>1 DEF Home, Intact, Hung, Special
    <2> QED  BY <1>1, <2>1, <2>2, FS_EmptySet DEF TreeAt
  <1> QED  BY <1>1, <1>2, <1>3, <1>4, <1>5 DEF TreeInv

\* A refused insertion follows a bad pointer only in a torn tree.
LEMMA RefusedPreserves ==
    ASSUME TreeInv, NEW t \in Tree, NEW n \in Node \cup {Null}, NEW s \in Side,
           NEW new \in Node, InsertRefused(t, n, s, new)
    PROVE  TreeInv'
  <1>1. t \in live /\ t \in Known /\ TreeAt(t) /\ TypeOK /\ n \in Members(t) \cup {Null}
    BY DEF InsertRefused, Call, TreeInv, Known
  <1>2. CASE n # Null /\ child[n][s] = Dangling
    <2>1. ~Intact(t)
      BY <1>1, <1>2, NodeAssumption, PointerAssumption DEF Intact, Members
    <2>2. t \in torn  BY <1>1, <2>1 DEF TreeAt
    <2>3. Undefined  BY <1>2 DEF InsertRefused
    <2> QED  BY <2>2, <2>3, UndefinedPreserves
  <1>3. CASE ~(n # Null /\ child[n][s] = Dangling)
    <2>1. rejected' = rejected \cup {new}
          /\ UNCHANGED <<live, junk, root, size, parent, child, owner, merged, torn, status>>
      BY <1>3 DEF InsertRefused, trees, history
    <2>2. TypeOK' /\ NoneLeft' /\ Safe'
      BY <1>1, <2>1 DEF TreeInv, TypeOK, NoneLeft, Safe
    <2>3. ASSUME NEW u \in live  PROVE TreeAt(u)'
      <3>1. u \in Tree /\ TreeAt(u)  BY DEF TreeInv, TypeOK
      <3> QED  BY <1>1, <2>1, <2>2, <3>1, Elsewhere DEF Members, Known
    <2> QED  BY <2>1, <2>2, <2>3 DEF TreeInv
  <1> QED  BY <1>2, <1>3

-----------------------------------------------------------------------------
\* Every tree that is allocated keeps to its own nodes, all of which hang on its
\* root, and counts them; it has a bad pointer only once it is torn.
THEOREM TreeInvariant == Spec => []TreeInv
  <1>1. Init => TreeInv
    BY DEF Init, TreeInv, TypeOK, NoneLeft, Safe, Pointer
  <1>2. TreeInv /\ [Next]_vars => TreeInv'
    <2> SUFFICES ASSUME TreeInv, [Next]_vars  PROVE TreeInv'
      OBVIOUS
    <2>1. ASSUME NEW t \in Tree, Create(t)  PROVE TreeInv'
      BY <2>1, CreatePreserves
    <2>2. ASSUME NEW t \in Tree, Destroy(t)  PROVE TreeInv'
      <3>1. CASE Removable(t, root[t])  BY <2>2, <3>1, DestroyPreserves
      <3>2. CASE ~Removable(t, root[t])
        <4>1. Undefined /\ t \in Known /\ root[t] \in Places(t)
          BY <2>2, <3>2 DEF Destroy, Places
        <4> QED  BY <3>2, <4>1, BelowStays, UndefinedPreserves
      <3> QED  BY <3>1, <3>2
    <2>3. ASSUME NEW t \in Tree, NEW n \in Node \cup {Null}, NEW s \in Side, NEW new \in Node,
                 Insert(t, n, s, new) \/ InsertRefused(t, n, s, new)
          PROVE  TreeInv'
      BY <2>3, InsertPreserves, RefusedPreserves
    <2>4. ASSUME NEW t \in Tree, NEW p \in Pointer, Remove(t, p)  PROVE TreeInv'
      <3>1. CASE Removable(t, p)  BY <2>4, <3>1, RemovePreserves
      <3>2. CASE ~Removable(t, p)
        <4>1. Undefined /\ t \in Known /\ p \in Places(t)  BY <2>4, <3>2 DEF Remove
        <4> QED  BY <3>2, <4>1, BelowStays, UndefinedPreserves
      <3> QED  BY <3>1, <3>2
    <2>5. ASSUME NEW l \in Tree, NEW r \in Tree, NEW t \in Tree, NEW new \in Node,
                 Merge(l, r, t, new)
          PROVE  TreeInv'
      BY <2>5, MergePreserves
    <2>6. ASSUME NEW l \in Tree, NEW r \in Tree, NEW t \in Tree, MergeFails(l, r, t)
          PROVE  TreeInv'
      BY <2>6, MergeFailsPreserves
    <2>7. CASE UNCHANGED vars
      <3>1. UNCHANGED <<live, junk, root, size, parent, child, owner, rejected, merged, torn, status>>
        BY <2>7 DEF vars, trees, nodes, history
      <3>2. TypeOK' /\ NoneLeft' /\ Safe'  BY <3>1 DEF TreeInv, TypeOK, NoneLeft, Safe
      <3>3. ASSUME NEW u \in live  PROVE TreeAt(u)'
        <4>1. u \in Tree /\ TreeAt(u) /\ TypeOK  BY DEF TreeInv, TypeOK
        <4> QED  BY <3>1, <3>2, <4>1, Elsewhere DEF Members, Known
      <3> QED  BY <3>1, <3>2, <3>3 DEF TreeInv
    <2> QED  BY <2>1, <2>2, <2>3, <2>4, <2>5, <2>6, <2>7 DEF Next
  <1> QED  BY <1>1, <1>2, PTL DEF Spec

\* Every field keeps its type, and no size runs below zero.
THEOREM TypeCorrect == Spec => []TypeOK
  BY TreeInvariant, PTL DEF TreeInv

\* btree_size() is the number of nodes in the tree.
THEOREM SizeCorrect == Spec => []SizeCounts
  <1>1. TreeInv => SizeCounts  BY DEF TreeInv, TreeAt, SizeCounts
  <1> QED  BY <1>1, TreeInvariant, PTL

\* btree_destroy(), when it returns, leaves no node of its tree behind.
THEOREM NothingLeft == Spec => []NoneLeft
  BY TreeInvariant, PTL DEF TreeInv

\* Without removals and merges, and with zeroed sentinels, no bad pointer is
\* followed.
THEOREM SafeUse == Spec => []Safe
  BY TreeInvariant, PTL DEF TreeInv
-----------------------------------------------------------------------------
(***************************************************************************)
(* The shape of the trees: Shaped is kept by every step that starts and    *)
(* ends in TreeInv.                                                        *)
(***************************************************************************)

\* The nodes that point to n.
Above(n) == {m \in Node : owner[m] # NoTree /\ \E s \in Side : child[m][s] = n}

ShapedAt(n) ==
    /\ n = root[owner[n]] => Above(n) = {}
    /\ n # root[owner[n]] => /\ Cardinality(Above(n)) = 1
                             /\ \A m \in Above(n) : /\ owner[m] = owner[n]
                                                    /\ child[m]["left"] # child[m]["right"]
    /\ owner[n] \in Known => Above(n) = {parent[n]} \ {Null}

LEMMA ShapedEverywhere ==
    /\ Shaped <=> \A n \in Node : owner[n] # NoTree => ShapedAt(n)
    /\ Shaped' <=> \A n \in Node : owner'[n] # NoTree => ShapedAt(n)'
  BY DEF Shaped, ShapedAt, Above

\* A node that no step touches, and to which the same nodes point.
LEMMA SameShape ==
    ASSUME NEW n \in Node, ShapedAt(n), Above(n)' = Above(n),
           owner'[n] = owner[n], parent'[n] = parent[n],
           n = root'[owner'[n]] <=> n = root[owner[n]],
           owner[n] \in Known' => owner[n] \in Known,
           \A m \in Above(n) : owner'[m] = owner[m],
           \A m \in Above(n) : child[m]["left"] # child[m]["right"]
                               => child'[m]["left"] # child'[m]["right"]
    PROVE  ShapedAt(n)'
  BY DEF ShapedAt

\* What an owned node points to.
LEMMA OwnedPoints ==
    ASSUME TreeInv, NEW m \in Node, owner[m] # NoTree
    PROVE  /\ owner[m] \in live /\ owner[m] \in Tree /\ m \in Members(owner[m])
           /\ \A s \in Side : child[m][s] \in Members(owner[m]) \cup Special
  <1>1. owner[m] \in live /\ owner[m] \in Tree /\ m \in Members(owner[m])
    BY DEF TreeInv, NoneLeft, TypeOK, Members
  <1> QED  BY <1>1 DEF TreeInv, TreeAt, Home

\* Nothing points to a node that is in no tree.
LEMMA UnusedFree ==
    ASSUME TreeInv, NEW new \in Node, owner[new] = NoTree
    PROVE  /\ Above(new) = {}
           /\ \A u \in live : root[u] # new
  <1>1. \A u \in live : new \notin Members(u) \cup Special
    BY NodeAssumption, TreeAssumption DEF TreeInv, TypeOK, Members, Special
  <1>2. Above(new) = {}
    <2> SUFFICES ASSUME NEW m \in Node, owner[m] # NoTree, NEW s \in Side, child[m][s] = new
                 PROVE  FALSE
      BY DEF Above
    <2> QED  BY <1>1, OwnedPoints
  <1>3. \A u \in live : root[u] # new  BY <1>1 DEF TreeInv, TreeAt, Home
  <1> QED  BY <1>2, <1>3

LEMMA InsertShapes ==
    ASSUME TreeInv, Shaped, NEW t \in Tree, NEW n \in Node \cup {Null}, NEW s \in Side,
           NEW new \in Node, Insert(t, n, s, new)
    PROVE  Shaped'
  <1>1. /\ t \in Known /\ t \in live /\ TreeAt(t) /\ TypeOK /\ live' = live /\ merged' = merged
        /\ owner[new] = NoTree /\ new \notin Members(t)
        /\ n # Null => n \in Members(t) /\ n \in Node /\ n # new /\ child[n][s] = Nil
        /\ n = Null => size[t] = 0
    BY NodeAssumption, TreeAssumption
    DEF TreeInv, Insert, Call, Known, Unused, Members, Open, TypeOK, history
  <1>2. /\ parent'[new] = n /\ child'[new] = Leaf /\ owner'[new] = t
        /\ \A m \in Node \ {new} : parent'[m] = parent[m] /\ owner'[m] = owner[m]
        /\ \A m \in Node \ {new, n} : child'[m] = child[m]
        /\ \A u \in Tree \ {t} : root'[u] = root[u]
    BY DEF Insert, TreeInv, TypeOK
  <1>3. n # Null => /\ child'[n][s] = new /\ \A x \in Side \ {s} : child'[n][x] = child[n][x]
                    /\ root' = root
    BY <1>1, NodeAssumption DEF Insert, TypeOK
  <1>4. n = Null => root'[t] = new /\ Members(t) = {}
    BY <1>1, Finite DEF Insert, TypeOK, TreeAt, Members
  <1>5. new # Nil /\ new # Null  BY NodeAssumption
  <1>6. Above(new) = {} /\ \A u \in live : root[u] # new  BY <1>1, UnusedFree
  <1>7. Above(new)' = {n} \ {Null}
    <2>1. ASSUME NEW m \in Node, m # n  PROVE m \notin Above(new)'
      <3>1. CASE m = new  BY <1>2, <1>5, <3>1 DEF Above, Leaf
      <3>2. CASE m # new
        BY <1>2, <1>6, <2>1, <3>2 DEF Above
      <3> QED  BY <3>1, <3>2
    <2>2. n # Null => n \in Above(new)'
      BY <1>1, <1>2, <1>3, TreeAssumption DEF Above, Members
    <2>3. Above(new)' \subseteq Node  BY DEF Above
    <2> QED  BY <2>1, <2>2, <2>3, NodeAssumption
  <1>8. ShapedAt(new)'
    <2>1. CASE n = Null
      <3>1. new = root'[owner'[new]] /\ Above(new)' = {} /\ {parent'[new]} \ {Null} = {}
        BY <1>2, <1>4, <1>7, <2>1
      <3> QED  BY <3>1 DEF ShapedAt
    <2>2. CASE n # Null
      <3>1. new # root'[owner'[new]] /\ Above(new)' = {n} /\ {parent'[new]} \ {Null} = {n}
        BY <1>1, <1>2, <1>3, <1>6, <1>7, <2>2
      <3>2. Cardinality({n}) = 1  BY FS_Singleton
      <3>3. owner'[n] = owner'[new]  BY <1>1, <1>2, <2>2 DEF Members
      <3>4. child[n]["left"] # new /\ child[n]["right"] # new
        BY <1>1, <1>6, <2>2, TreeAssumption DEF Above, Side, Members
      <3>5. child'[n]["left"] # child'[n]["right"]
        BY <1>3, <2>2, <3>4 DEF Side
      <3> QED  BY <3>1, <3>2, <3>3, <3>5 DEF ShapedAt
    <2> QED  BY <2>1, <2>2
  <1>9. ASSUME NEW m \in Node, m # new, owner'[m] # NoTree  PROVE ShapedAt(m)'
    <2>1. owner'[m] = owner[m] /\ parent'[m] = parent[m] /\ ShapedAt(m)
      BY <1>2, <1>9, ShapedEverywhere
    <2>2. owner[m] \in live /\ owner[m] \in Tree /\ m \in Members(owner[m])
      BY <1>9, <2>1, OwnedPoints
    <2>3. m = root'[owner'[m]] <=> m = root[owner[m]]
      <3>1. CASE n = Null /\ owner[m] = t  BY <1>4, <2>2, <3>1
      <3>2. CASE ~(n = Null /\ owner[m] = t)  BY <1>2, <1>3, <2>1, <2>2, <3>2
      <3> QED  BY <3>1, <3>2
    <2>4. ASSUME NEW x \in Node  PROVE x \in Above(m)' <=> x \in Above(m)
      <3>1. CASE x = new  BY <1>1, <1>2, <3>1, NodeAssumption DEF Above, Leaf
      <3>2. CASE x # new /\ x = n
        <4>1. owner'[x] # NoTree /\ owner[x] # NoTree
          BY <1>1, <1>2, <3>2, NodeAssumption, TreeAssumption DEF Members
        <4>2. child[x][s] # m /\ child'[x][s] # m
              /\ \A y \in Side \ {s} : child'[x][y] = child[x][y]
          BY <1>1, <1>3, <1>9, <3>2, NodeAssumption
        <4> QED  BY <4>1, <4>2 DEF Above
      <3>3. CASE x # new /\ x # n  BY <1>2, <3>3 DEF Above
      <3> QED  BY <3>1, <3>2, <3>3
    <2>5. Above(m)' = Above(m)  BY <2>4 DEF Above
    <2>6. ASSUME NEW x \in Above(m)
          PROVE  /\ owner'[x] = owner[x]
                 /\ child[x]["left"] # child[x]["right"]
                    => child'[x]["left"] # child'[x]["right"]
      <3>1. x \in Node /\ x # new  BY <1>1 DEF Above
      <3>2. CASE x = n
        <4>1. \A y \in Side : child[n][y] # new
          BY <1>1, <1>6, <3>1, <3>2, TreeAssumption, NodeAssumption DEF Above, Members
        <4> QED  BY <1>2, <1>3, <3>1, <3>2, <4>1, NodeAssumption DEF Side
      <3>3. CASE x # n  BY <1>2, <3>1, <3>3
      <3> QED  BY <3>2, <3>3
    <2>7. Known' = Known  BY <1>1 DEF Known
    <2> QED  BY <2>1, <2>3, <2>5, <2>6, <2>7, SameShape
  <1> QED  BY <1>8, <1>9, ShapedEverywhere

\* Freeing what is below a place of a tree keeps the shape of the rest.
LEMMA ReleaseShapes ==
    ASSUME TreeInv, Shaped, NEW t \in Known, NEW p \in Places(t), Release(Gone(p)),
           NEW m \in Node, owner'[m] # NoTree, Known' \subseteq Known,
           m = root'[owner[m]] <=> m = root[owner[m]]
    PROVE  ShapedAt(m)'
  <1> DEFINE gone == Gone(p)
  <1>1. gone \subseteq Node /\ TypeOK /\ p \in Pointer /\ Dangling \notin Node
    BY BelowStays, NodeAssumption DEF Gone, TreeInv
  <1>2. /\ \A x \in gone : owner'[x] = NoTree
        /\ \A x \in Node \ gone : /\ owner'[x] = owner[x] /\ parent'[x] = parent[x]
                                  /\ \A s \in Side : child'[x][s] = Stale(child[x][s], gone)
    BY <1>1 DEF Release
  <1>3. m \notin gone /\ owner[m] # NoTree /\ ShapedAt(m)  BY <1>2, ShapedEverywhere
  <1>4. ASSUME NEW x \in gone, NEW s \in Side  PROVE child[x][s] # m
    <2>1. child[x][s] \in Below(p)  BY <1>1, <1>4, BelowClosed DEF Gone, Closed
    <2> QED  BY <1>3, <2>1 DEF Gone
  <1>5. \A q \in Pointer : Stale(q, gone) = m <=> q = m  BY <1>1, <1>3 DEF Stale
  <1>6. \A x \in Node \ gone, s \in Side : child'[x][s] = m <=> child[x][s] = m
    BY <1>1, <1>2, <1>5 DEF TypeOK
  <1>7. Above(m)' = Above(m)  BY <1>2, <1>4, <1>6 DEF Above
  <1>8. \A x \in Above(m) : x \in Node \ gone  BY <1>4 DEF Above
  <1>9. ASSUME NEW x \in Above(m), child[x]["left"] # child[x]["right"]
        PROVE  child'[x]["left"] # child'[x]["right"]
    <2>1. child[x]["left"] = m \/ child[x]["right"] = m  BY DEF Above, Side
    <2>2. \A s \in Side : child'[x][s] = m <=> child[x][s] = m  BY <1>6, <1>8
    <2> QED  BY <1>9, <2>1, <2>2 DEF Side
  <1>10. owner'[m] = owner[m] /\ parent'[m] = parent[m]  BY <1>2, <1>3
  <1>11. \A x \in Above(m) : owner'[x] = owner[x]  BY <1>2, <1>8
  <1> QED  BY <1>3, <1>7, <1>9, <1>10, <1>11, SameShape

LEMMA RemoveShapes ==
    ASSUME TreeInv, Shaped, NEW t \in Tree, NEW p \in Pointer, Remove(t, p), Removable(t, p)
    PROVE  Shaped'
  <1>1. /\ t \in Known /\ p \in Places(t) /\ Release(Gone(p)) /\ Known' = Known
        /\ root' = [u \in Tree |-> Stale(root[u], Gone(p))] /\ TypeOK
    BY DEF Remove, TreeInv, Known
  <1>2. ASSUME NEW m \in Node, owner'[m] # NoTree  PROVE ShapedAt(m)'
    <2>1. m \notin Gone(p) /\ owner[m] # NoTree  BY <1>1, <1>2 DEF Release
    <2>2. owner[m] \in Tree  BY <2>1, OwnedPoints
    <2>3. m = root'[owner[m]] <=> m = root[owner[m]]
      BY <1>1, <2>1, <2>2, NodeAssumption DEF Stale
    <2> QED  BY <1>1, <1>2, <2>3, ReleaseShapes
  <1> QED  BY <1>2, ShapedEverywhere

LEMMA DestroyShapes ==
    ASSUME TreeInv, Shaped, NEW t \in Tree, Destroy(t), Removable(t, root[t])
    PROVE  Shaped'
  <1>1. /\ t \in Known /\ t \in live /\ root[t] \in Places(t) /\ Release(Gone(root[t]))
        /\ Known' \subseteq Known
        /\ root' = [root EXCEPT ![t] = Nil] /\ TypeOK /\ TreeAt(t)
    BY DEF Destroy, TreeInv, Known, Places
  <1>2. ASSUME NEW m \in Node, owner'[m] # NoTree  PROVE ShapedAt(m)'
    <2>1. m \notin Gone(root[t]) /\ owner[m] # NoTree  BY <1>1, <1>2 DEF Release
    <2>2. owner[m] \in Tree /\ m \in Members(owner[m])  BY <2>1, OwnedPoints
    <2>3. owner[m] # t
      BY <1>1, <2>1, <2>2 DEF TreeAt, Hung, Gone, Members
    <2>4. root'[owner[m]] = root[owner[m]]  BY <1>1, <2>2, <2>3 DEF TypeOK
    <2> QED  BY <1>1, <1>2, <2>4, ReleaseShapes
  <1> QED  BY <1>2, ShapedEverywhere

LEMMA MergeShapes ==
    ASSUME TreeInv, Shaped, NEW l \in Tree, NEW r \in Tree, NEW t \in Tree, NEW new \in Node,
           Merge(l, r, t, new)
    PROVE  Shaped'
  <1>1. /\ l \in live /\ r \in live /\ l # r /\ t \notin live /\ t # l /\ t # r
        /\ TypeOK /\ TreeAt(l) /\ TreeAt(r) /\ owner[new] = NoTree
        /\ live' = live \cup {t} /\ merged' = merged \cup {t}
        /\ root' = [root EXCEPT ![t] = new, ![l] = Null, ![r] = Null]
        /\ child' = [child EXCEPT ![new] = [left |-> root[l], right |-> root[r]]]
        /\ parent' = [parent EXCEPT ![new] = Null]
    BY DEF Merge, TreeInv, Known, Unused
  <1>2. /\ child'[new]["left"] = root[l] /\ child'[new]["right"] = root[r]
        /\ owner'[new] = t /\ root'[t] = new
        /\ \A m \in Node \ {new} : /\ child'[m] = child[m] /\ parent'[m] = parent[m]
                                   /\ owner'[m] = IF owner[m] \in {l, r} THEN t ELSE owner[m]
        /\ \A u \in Tree \ {l, r, t} : root'[u] = root[u]
    BY <1>1 DEF Merge, TypeOK
  <1>3. Above(new) = {} /\ \A u \in live : root[u] # new  BY <1>1, UnusedFree
  <1>4. t # NoTree /\ Known' \subseteq Known /\ t \notin Known'
    BY <1>1, TreeAssumption DEF Known
  <1>5. Above(new)' = {}
    <2> SUFFICES ASSUME NEW m \in Node, m \in Above(new)'  PROVE FALSE  BY DEF Above
    <2>1. CASE m = new  BY <1>1, <1>2, <1>3, <2>1 DEF Above, Side
    <2>2. CASE m # new
      <3>1. owner[m] # NoTree  BY <1>1, <1>2, <2>2, TreeAssumption DEF Above
      <3> QED  BY <1>2, <1>3, <2>2, <3>1 DEF Above
    <2> QED  BY <2>1, <2>2
  <1>6. ShapedAt(new)'  BY <1>2, <1>4, <1>5 DEF ShapedAt
  <1>7. ASSUME NEW m \in Node, m # new, owner'[m] # NoTree  PROVE ShapedAt(m)'
    <2>1. owner[m] # NoTree /\ parent'[m] = parent[m]
      BY <1>1, <1>2, <1>7, TreeAssumption
    <2>2. owner[m] \in live /\ owner[m] \in Tree /\ m \in Members(owner[m]) /\ ShapedAt(m)
      BY <2>1, OwnedPoints, ShapedEverywhere
    <2>3. owner[m] # t  BY <1>1, <2>2
    <2>4. \A x \in Node \ {new} : x \in Above(m)' <=> x \in Above(m)
      BY <1>1, <1>2, <1>4, TreeAssumption DEF Above
    <2>5. new \notin Above(m)  BY <1>1 DEF Above
    <2>6. new \in Above(m)' <=> m \in {root[l], root[r]}
      BY <1>2, <1>4 DEF Above, Side
    <2>7. \A u \in {l, r} : m = root[u] => owner[m] = u
      BY <1>1, NodeAssumption DEF TreeAt, Home, Members, Special
    <2>8. CASE owner[m] \in {l, r} /\ m = root[owner[m]]
      <3>1. Above(m) = {}  BY <2>2, <2>8 DEF ShapedAt
      <3>2. Above(m)' = {new}
        <4>1. new \in Above(m)'  BY <2>6, <2>8
        <4>2. Above(m)' \subseteq Node  BY DEF Above
        <4> QED  BY <2>4, <3>1, <4>1, <4>2
      <3>3. Cardinality({new}) = 1  BY FS_Singleton
      <3>4. root[l] # root[r]
        <4>1. root[l] \in Members(l) \cup Special /\ root[r] \in Members(r) \cup Special
          BY <1>1 DEF TreeAt, Home
        <4> QED  BY <1>1, <2>7, <2>8, <4>1, NodeAssumption DEF Members, Special
      <3>5. owner'[m] = t /\ m # root'[t]  BY <1>2, <1>7, <2>8
      <3> QED  BY <1>2, <1>4, <3>2, <3>3, <3>4, <3>5 DEF ShapedAt
    <2>9. CASE owner[m] \in {l, r} /\ m # root[owner[m]]
      <3>1. new \notin Above(m)'  BY <2>6, <2>7, <2>9
      <3>2. Above(m)' = Above(m)  BY <2>4, <2>5, <3>1 DEF Above
      <3>3. owner'[m] = t /\ m # root'[t]  BY <1>2, <1>7, <2>9
      <3>4. Cardinality(Above(m)) = 1
            /\ \A x \in Above(m) : owner[x] = owner[m] /\ child[x]["left"] # child[x]["right"]
        BY <2>2, <2>9 DEF ShapedAt
      <3>5. \A x \in Above(m) : owner'[x] = t /\ child'[x]["left"] # child'[x]["right"]
        <4>1. \A x \in Above(m) : x \in Node \ {new}  BY <2>5 DEF Above
        <4> QED  BY <1>2, <2>9, <3>4, <4>1
      <3> QED  BY <1>4, <3>2, <3>3, <3>4, <3>5 DEF ShapedAt
    <2>10. CASE owner[m] \notin {l, r}
      <3>1. new \notin Above(m)'  BY <2>6, <2>7, <2>10
      <3>2. Above(m)' = Above(m)  BY <2>4, <2>5, <3>1 DEF Above
      <3>3. owner'[m] = owner[m] /\ root'[owner[m]] = root[owner[m]]
        BY <1>2, <1>7, <2>2, <2>3, <2>10
      <3>4. \A x \in Above(m) : x \in Node \ {new}  BY <2>5 DEF Above
      <3>5. \A x \in Above(m) : child'[x] = child[x]  BY <1>2, <3>4
      <3>6. CASE m = root[owner[m]]
        <4>1. Above(m) = {}  BY <2>2, <3>6 DEF ShapedAt
        <4> QED  BY <1>4, <2>1, <2>2, <3>2, <3>3, <4>1, SameShape
      <3>7. CASE m # root[owner[m]]
        <4>1. \A x \in Above(m) : owner[x] = owner[m]  BY <2>2, <3>7 DEF ShapedAt
        <4>2. \A x \in Above(m) : owner'[x] = owner[x]  BY <1>2, <2>10, <3>4, <4>1
        <4> QED  BY <1>4, <2>1, <2>2, <3>2, <3>3, <3>5, <4>2, SameShape
      <3> QED  BY <3>6, <3>7
    <2> QED  BY <2>8, <2>9, <2>10
  <1> QED  BY <1>6, <1>7, ShapedEverywhere

\* A step that changes neither nodes nor the roots of trees that have nodes.
LEMMA SameNodes ==
    ASSUME TreeInv, Shaped, parent' = parent, child' = child, owner' = owner,
           \A u \in live : root'[u] = root[u] /\ (u \in Known' => u \in Known)
    PROVE  Shaped'
  <1> SUFFICES ASSUME NEW m \in Node, owner'[m] # NoTree  PROVE ShapedAt(m)'
    BY ShapedEverywhere
  <1>1. owner[m] \in live /\ ShapedAt(m)  BY OwnedPoints, ShapedEverywhere
  <1>2. Above(m)' = Above(m)  BY DEF Above
  <1> QED  BY <1>1, <1>2, SameShape

\* Each node of a tree is at one place of it, and parent leads back: so the
\* recursion in btree_remove() meets each node once.
THEOREM ShapeCorrect == Spec => []Shaped
  <1>1. Init => Shaped  BY DEF Init, Shaped
  <1>2. TreeInv /\ Shaped /\ [Next]_vars => Shaped'
    <2> SUFFICES ASSUME TreeInv, Shaped, [Next]_vars  PROVE Shaped'
      OBVIOUS
    <2>0. ASSUME Undefined  PROVE Shaped'
      <3>1. UNCHANGED <<parent, child, owner, root, live, merged>>
        BY <2>0 DEF Undefined, trees, nodes, history
      <3> QED  BY <3>1, SameNodes DEF Known
    <2>1. ASSUME NEW t \in Tree, Create(t)  PROVE Shaped'
      <3>1. /\ UNCHANGED <<parent, child, owner, merged>> /\ live' = live \cup {t} /\ t \notin live
            /\ \A u \in live : root'[u] = root[u]
        BY <2>1 DEF Create, nodes, history, TreeInv, TypeOK
      <3> QED  BY <3>1, SameNodes DEF Known
    <2>2. ASSUME NEW t \in Tree, Destroy(t)  PROVE Shaped'
      <3>1. CASE Removable(t, root[t])  BY <2>2, <3>1, DestroyShapes
      <3>2. CASE ~Removable(t, root[t])  BY <2>0, <2>2, <3>2 DEF Destroy
      <3> QED  BY <3>1, <3>2
    <2>3. ASSUME NEW t \in Tree, NEW n \in Node \cup {Null}, NEW s \in Side, NEW new \in Node,
                 Insert(t, n, s, new)
          PROVE  Shaped'
      BY <2>3, InsertShapes
    <2>4. ASSUME NEW t \in Tree, NEW n \in Node \cup {Null}, NEW s \in Side, NEW new \in Node,
                 InsertRefused(t, n, s, new)
          PROVE  Shaped'
      <3>1. \/ Undefined
            \/ UNCHANGED <<parent, child, owner, root, live, merged>>
        BY <2>4 DEF InsertRefused, trees, history
      <3> QED  BY <2>0, <3>1, SameNodes DEF Known
    <2>5. ASSUME NEW t \in Tree, NEW p \in Pointer, Remove(t, p)  PROVE Shaped'
      <3>1. CASE Removable(t, p)  BY <2>5, <3>1, RemoveShapes
      <3>2. CASE ~Removable(t, p)  BY <2>0, <2>5, <3>2 DEF Remove
      <3> QED  BY <3>1, <3>2
    <2>6. ASSUME NEW l \in Tree, NEW r \in Tree, NEW t \in Tree, NEW new \in Node,
                 Merge(l, r, t, new)
          PROVE  Shaped'
      BY <2>6, MergeShapes
    <2>7. ASSUME NEW l \in Tree, NEW r \in Tree, NEW t \in Tree, MergeFails(l, r, t)
          PROVE  Shaped'
      <3>1. /\ UNCHANGED <<parent, child, owner, merged>> /\ live' = live \cup {t} /\ t \notin live
            /\ \A u \in live : root'[u] = root[u]
        BY <2>7 DEF MergeFails, nodes, history, TreeInv, TypeOK
      <3> QED  BY <3>1, SameNodes DEF Known
    <2>8. CASE UNCHANGED vars
      <3>1. UNCHANGED <<parent, child, owner, root, live, merged>>
        BY <2>8 DEF vars, trees, nodes, history
      <3> QED  BY <3>1, SameNodes DEF Known
    <2> QED  BY <2>1, <2>2, <2>3, <2>4, <2>5, <2>6, <2>7, <2>8 DEF Next
  <1> QED  BY <1>1, <1>2, TreeInvariant, PTL DEF Spec
=============================================================================
