--------------------------- MODULE ListRefinement ---------------------------
(***************************************************************************)
(* The list implements the deque of lib/list.h, for any number of nodes    *)
(* and keys.  The keys of the deque are read off the walk along next, a    *)
(* recursive function: that it yields the enumeration of the nodes is      *)
(* proved by induction over its turns, with the set of the turns for which *)
(* it does in the place of a predicate.                                    *)
(***************************************************************************)
EXTENDS ListProofs, WellFoundedInduction, SequenceTheorems

-----------------------------------------------------------------------------
(***************************************************************************)
(* The walk along the links.                                               *)
(***************************************************************************)

\* Induction, for a set in the place of a predicate.
LEMMA UpTo ==
    ASSUME NEW n \in Nat, NEW S \in SUBSET (0..n), 0 \in S,
           \A i \in 1..n : i - 1 \in S => i \in S
    PROVE  S = 0..n
  <1> DEFINE R == OpToRel(<, Nat)
  <1> DEFINE C == (0..n) \ S
  <1> SUFFICES ASSUME C # {} PROVE FALSE  OBVIOUS
  <1>1. C \subseteq Nat  OBVIOUS
  <1>2. \E i \in C : \A j \in C : <<j, i>> \notin R
    <2>1. IsWellFoundedOn(R, Nat)  BY NatLessThanWellFounded
    <2> HIDE DEF R, C
    <2> QED  BY <1>1, <2>1, WFMin
  <1>3. \A i, j \in Nat : <<j, i>> \notin R => i <= j  BY DEF OpToRel
  <1> HIDE DEF R
  <1>4. PICK i \in C : \A j \in C : i <= j  BY <1>1, <1>2, <1>3
  <1>5. i \in 1..n /\ i - 1 \in 0..n /\ i - 1 < i  BY <1>4
  <1>6. i - 1 \in S  BY <1>4, <1>5
  <1> QED  BY <1>4, <1>5, <1>6

\* What Along computes, turn by turn.
Turns(link, w) ==
    [i \in 0..Cardinality(Node) |->
        IF i = 0 THEN <<>>
        ELSE LET a == IF w[i - 1] = <<>> THEN link[nil] ELSE link[Last(w[i - 1])]
             IN  IF a = nil THEN w[i - 1] ELSE Append(w[i - 1], a)]

LEMMA AlongTurns ==
    ASSUME NEW link, NEW v, v = Turns(link, v)
    PROVE  \E w : w = Turns(link, w) /\ Along(link) = w[Cardinality(Node)]
  <1> DEFINE w == CHOOSE w : w = Turns(link, w)
  <1>1. w = Turns(link, w)  OBVIOUS
  <1>2. Along(link) = w[Cardinality(Node)]  BY DEF Along, Turns
  <1> QED  BY <1>1, <1>2

\* The nodes that f enumerates.
Nodes(f, n) == [j \in 1..n |-> f[j]]

\* Along a path of links from sentinel to sentinel.
LEMMA AlongPath ==
    ASSUME NEW link, NEW n \in Nat, n <= Cardinality(Node), Cardinality(Node) \in Nat,
           NEW f \in [0..n + 1 -> Address], f[0] = nil, f[n + 1] = nil,
           \A i \in 0..n : link[f[i]] = f[i + 1],
           \A i \in 1..n : f[i] # nil
    PROVE  Along(link) = Nodes(f, n)
  <1> DEFINE N == Cardinality(Node)
  <1> DEFINE some(i) == IF i < n THEN i ELSE n
  <1> DEFINE upto(i) == [j \in 1..some(i) |-> f[j]]
  <1> DEFINE v == [i \in 0..N |-> upto(i)]
  <1>0. \A i \in 0..N : some(i) \in 0..n  OBVIOUS
  <1>1. ASSUME NEW i \in 0..N
        PROVE  /\ upto(i) \in Seq(Address) /\ Len(upto(i)) = some(i)
               /\ upto(i) = <<>> <=> some(i) = 0
               /\ some(i) # 0 => Last(upto(i)) = f[some(i)]
    <2>0. some(i) \in 0..n  BY <1>0
    <2> DEFINE m == some(i)
    <2> HIDE DEF m
    <2>1. \A j \in 1..m : f[j] \in Address  BY <2>0 DEF m
    <2>2. [j \in 1..m |-> f[j]] \in Seq(Address) /\ Len([j \in 1..m |-> f[j]]) = m  BY <2>0, <2>1 DEF m
    <2>3. [j \in 1..m |-> f[j]] = <<>> <=> m = 0
      <3>1. Len(<<>>) = 0  OBVIOUS
      <3>2. m = 0 => [j \in 1..m |-> f[j]] = <<>>  OBVIOUS
      <3> QED  BY <3>1, <3>2, <2>2
    <2>4. m # 0 => Last([j \in 1..m |-> f[j]]) = f[m]
      BY <2>0, <2>2 DEF Last, m
    <2> QED  BY <2>2, <2>3, <2>4 DEF m
  <1>2. ASSUME NEW i \in 1..N
        PROVE  upto(i) = LET a == IF upto(i - 1) = <<>> THEN link[nil] ELSE link[Last(upto(i - 1))]
                         IN  IF a = nil THEN upto(i - 1) ELSE Append(upto(i - 1), a)
    <2> DEFINE m == some(i - 1)
    <2>1. i - 1 \in 0..N /\ m \in 0..n  BY <1>0
    <2>2. (IF upto(i - 1) = <<>> THEN link[nil] ELSE link[Last(upto(i - 1))]) = f[m + 1]
      <3>1. /\ upto(i - 1) = <<>> <=> m = 0
            /\ m # 0 => Last(upto(i - 1)) = f[m]
        BY <1>1, <2>1
      <3>2. link[f[m]] = f[m + 1]  BY <2>1
      <3> HIDE DEF upto, m
      <3> QED  BY <3>1, <3>2
    <2>3. CASE i <= n
      <3>1. m = i - 1 /\ m + 1 = i /\ some(i) = i  BY <2>3
      <3>2. f[m + 1] # nil  BY <3>1, <2>3
      <3>3. upto(i) = Append(upto(i - 1), f[m + 1])
        <4>1. upto(i) = [j \in 1..i |-> f[j]] /\ upto(i - 1) = [j \in 1..i - 1 |-> f[j]]  BY <3>1
        <4>2. \A j \in 1..i : f[j] \in Address  BY <2>3
        <4> HIDE DEF upto, m
        <4> QED  BY <4>1, <4>2, <3>1
      <3> QED  BY <2>2, <3>2, <3>3
    <2>4. CASE i > n
      <3>1. m = n /\ some(i) = n  BY <2>4
      <3>2. f[m + 1] = nil  BY <3>1
      <3>3. upto(i) = upto(i - 1)  BY <3>1
      <3> QED  BY <2>2, <3>2, <3>3
    <2> QED  BY <2>3, <2>4
  <1>3. v = Turns(link, v)
    <2>1. upto(0) = <<>>  OBVIOUS
    <2>2. \A i \in 1..N : i - 1 \in 0..N /\ v[i - 1] = upto(i - 1)  OBVIOUS
    <2>3. \A i \in 0..N : i = 0 \/ i \in 1..N  OBVIOUS
    <2>4. ASSUME NEW i \in 0..N PROVE v[i] = Turns(link, v)[i]
      <3>1. CASE i = 0  BY <2>1, <3>1 DEF Turns
      <3>2. CASE i \in 1..N
        <4>1. v[i] = upto(i)  OBVIOUS
        <4> HIDE DEF upto, v
        <4> QED  BY <4>1, <3>2, <1>2, <2>2 DEF Turns
      <3> QED  BY <2>3, <3>1, <3>2
    <2> QED  BY <2>4 DEF Turns
  <1>4. PICK w : w = Turns(link, w) /\ Along(link) = w[N]  BY <1>3, AlongTurns
  <1>5. {i \in 0..N : w[i] = upto(i)} = 0..N
    <2> DEFINE S == {i \in 0..N : w[i] = upto(i)}
    <2>1. 0 \in S
      <3>1. w[0] = <<>> /\ 0 \in 0..N  BY <1>4 DEF Turns
      <3>2. upto(0) = <<>>  OBVIOUS
      <3> QED  BY <3>1, <3>2
    <2>2. ASSUME NEW i \in 1..N, i - 1 \in S PROVE i \in S
      <3> HIDE DEF upto
      <3>1. w[i - 1] = upto(i - 1) /\ i \in 0..N /\ i # 0  BY <2>2
      <3>2. w[i] = upto(i)  BY <1>2, <1>4, <3>1 DEF Turns
      <3> QED  BY <3>1, <3>2
    <2>3. S \in SUBSET (0..N)  OBVIOUS
    <2> HIDE DEF S
    <2>4. S = 0..N  BY <2>1, <2>2, <2>3, UpTo
    <2> QED  BY <2>4 DEF S
  <1>6. w[N] = upto(N) 
    <2> HIDE DEF upto
    <2> QED  BY <1>5
  <1>7. some(N) = n  OBVIOUS
  <1> QED  BY <1>4, <1>6, <1>7 DEF Nodes

-----------------------------------------------------------------------------
(***************************************************************************)
(* One ring.                                                               *)
(***************************************************************************)

\* An enumeration is no longer than there are nodes.
LEMMA RingShort ==
    ASSUME TypeOK, NEW n \in Nat, NEW f, Ring(f, n)
    PROVE  n <= Cardinality(Node) /\ Cardinality(Node) \in Nat
  <1> DEFINE h == [i \in 1..n |-> f[i]]
  <1>1. \A i \in 1..n : f[i] \in Node  BY DEF Ring, InList, TypeOK
  <1>2. h \in Injection(1..n, Node)  BY <1>1 DEF Ring, Injection, IsInjective
  <1>3. Cardinality(1..n) = n  BY FS_Interval
  <1> HIDE DEF h
  <1>4. Cardinality(1..n) <= Cardinality(Node)  BY <1>2, NodeAssumption, FS_Injection
  <1>5. Cardinality(Node) \in Nat  BY NodeAssumption, FS_CardinalityType
  <1> QED  BY <1>3, <1>4, <1>5

\* Forwards the walk meets the nodes as they are enumerated, backwards in the
\* opposite order.
LEMMA RingWalked ==
    ASSUME TypeOK, NEW n \in Nat, NEW f, Ring(f, n)
    PROVE  /\ Along(next) = Nodes(f, n)
           /\ Along(prev) = [j \in 1..n |-> f[n + 1 - j]]
  <1>1. n <= Cardinality(Node) /\ Cardinality(Node) \in Nat  BY RingShort
  <1>2. f \in [0..n + 1 -> Address] /\ f[0] = nil /\ f[n + 1] = nil  BY DEF Ring
  <1>3. \A i \in 1..n : f[i] # nil  BY NodeAssumption DEF Ring, InList, TypeOK
  <1>4. \A i \in 0..n : next[f[i]] = f[i + 1] /\ prev[f[i + 1]] = f[i]  BY DEF Ring
  <1>5. Along(next) = Nodes(f, n)  BY <1>1, <1>2, <1>3, <1>4, AlongPath
  <1> DEFINE b == [i \in 0..n + 1 |-> f[n + 1 - i]]
  <1>6. \A i \in 0..n + 1 : n + 1 - i \in 0..n + 1 /\ b[i] = f[n + 1 - i]  OBVIOUS
  <1>7. b \in [0..n + 1 -> Address] /\ b[0] = nil /\ b[n + 1] = nil
    <2>1. n + 1 - 0 = n + 1 /\ n + 1 - (n + 1) = 0 /\ 0 \in 0..n + 1 /\ n + 1 \in 0..n + 1  OBVIOUS
    <2>2. b[0] = nil /\ b[n + 1] = nil  BY <1>2, <1>6, <2>1
    <2>3. b \in [0..n + 1 -> Address]  BY <1>2, <1>6
    <2> QED  BY <2>2, <2>3
  <1>8. \A i \in 0..n : prev[b[i]] = b[i + 1]
    <2> SUFFICES ASSUME NEW i \in 0..n PROVE prev[b[i]] = b[i + 1]  OBVIOUS
    <2>1. i \in 0..n + 1 /\ i + 1 \in 0..n + 1 /\ n - i \in 0..n
          /\ n + 1 - i = (n - i) + 1 /\ n + 1 - (i + 1) = n - i
      OBVIOUS
    <2>2. b[i] = f[(n - i) + 1] /\ b[i + 1] = f[n - i]  BY <1>6, <2>1
    <2> QED  BY <1>4, <2>1, <2>2
  <1>9. \A i \in 1..n : b[i] # nil
    <2>1. \A i \in 1..n : i \in 0..n + 1 /\ n + 1 - i \in 1..n  OBVIOUS
    <2> QED  BY <1>3, <1>6, <2>1
  <1> HIDE DEF b
  <1>10. Along(prev) = Nodes(b, n)  BY <1>1, <1>7, <1>8, <1>9, AlongPath
  <1>11. \A j \in 1..n : b[j] = f[n + 1 - j]  BY <1>6
  <1>12. Nodes(b, n) = [j \in 1..n |-> f[n + 1 - j]]  BY <1>11 DEF Nodes
  <1> QED  BY <1>5, <1>10, <1>12

\* The links of the list form one ring, whichever way list_foreach() or a loop
\* backwards follows them.
THEOREM RingIsOne == Spec => []OneRing
  <1>1. ListInv => OneRing
    <2> SUFFICES ASSUME ListInv, mode = "open"
                 PROVE  /\ ToSet(Along(next)) = InList /\ IsInjective(Along(next))
                        /\ Along(prev) = Reverse(Along(next))
      BY DEF OneRing
    <2>1. PICK n \in Nat : \E f \in [0..n + 1 -> Address] : Ring(f, n)  BY DEF ListInv, RingInv
    <2>2. PICK f \in [0..n + 1 -> Address] : Ring(f, n)  BY <2>1
    <2> DEFINE s == Nodes(f, n)
    <2>3. Along(next) = s /\ Along(prev) = [j \in 1..n |-> f[n + 1 - j]]
      BY <2>2, RingWalked DEF ListInv
    <2>4. DOMAIN s = 1..n /\ Len(s) = n /\ \A j \in 1..n : s[j] = f[j]
      <3>1. \A j \in 1..n : f[j] \in Address  OBVIOUS
      <3>2. s \in Seq(Address) /\ Len(s) = n  BY <3>1 DEF Nodes
      <3> QED  BY <3>2 DEF Nodes
    <2> HIDE DEF s
    <2>5. ToSet(s) = InList  BY <2>2, <2>4 DEF ToSet, Ring
    <2>6. IsInjective(s)  BY <2>2, <2>4 DEF IsInjective, Ring
    <2>7. Reverse(s) = [j \in 1..n |-> f[n + 1 - j]]
      <3>1. \A j \in 1..n : (n - j) + 1 \in 1..n /\ (n - j) + 1 = n + 1 - j  OBVIOUS
      <3>2. \A j \in 1..n : s[(n - j) + 1] = f[n + 1 - j]  BY <2>4, <3>1
      <3> QED  BY <2>4, <3>2 DEF Reverse
    <2> QED  BY <2>3, <2>5, <2>6, <2>7
  <1> QED  BY <1>1, Invariant, PTL
-----------------------------------------------------------------------------
(***************************************************************************)
(* Sequences with an element more or less.                                 *)
(***************************************************************************)
LEMMA Prepended ==
    ASSUME NEW X, NEW n \in Nat, NEW s \in [1..n -> X], NEW e \in X,
           NEW t \in [1..n + 1 -> X], t[1] = e, \A j \in 1..n : t[j + 1] = s[j]
    PROVE  t = <<e>> \o s
  <1>1. s \in Seq(X) /\ Len(s) = n  OBVIOUS
  <1>2. <<e>> \o s \in Seq(X) /\ Len(<<e>> \o s) = n + 1  BY <1>1
  <1>3. ASSUME NEW j \in 1..n + 1  PROVE (<<e>> \o s)[j] = t[j]
    <2>1. CASE j = 1  BY <1>1, <2>1
    <2>2. CASE j # 1
      <3>1. j - 1 \in 1..n /\ (j - 1) + 1 = j  BY <2>2
      <3>2. t[j] = s[j - 1]  BY <3>1
      <3>3. (<<e>> \o s)[j] = s[j - 1]  BY <1>1, <2>2
      <3> QED  BY <3>2, <3>3
    <2> QED  BY <2>1, <2>2
  <1> QED  BY <1>2, <1>3

LEMMA Appended ==
    ASSUME NEW X, NEW n \in Nat, NEW s \in [1..n -> X], NEW e \in X,
           NEW t \in [1..n + 1 -> X], t[n + 1] = e, \A j \in 1..n : t[j] = s[j]
    PROVE  t = Append(s, e)
  <1>1. s \in Seq(X) /\ Len(s) = n  OBVIOUS
  <1>2. Append(s, e) \in Seq(X) /\ Len(Append(s, e)) = n + 1  BY <1>1
  <1>3. \A j \in 1..n + 1 : Append(s, e)[j] = t[j]  BY <1>1
  <1> QED  BY <1>2, <1>3

\* s of length n without the k-th element.
Shorter(s, n, k) == [j \in 1..n - 1 |-> IF j < k THEN s[j] ELSE s[j + 1]]

LEMMA Removed ==
    ASSUME NEW X, NEW n \in Nat, NEW s \in [1..n -> X], NEW k \in 1..n
    PROVE  RemoveAt(s, k) = Shorter(s, n, k)
  <1> DEFINE t == Shorter(s, n, k)
  <1>0. /\ \A j \in 1..n - 1 : t[j] = IF j < k THEN s[j] ELSE s[j + 1]
        /\ t \in [1..n - 1 -> X]
    BY DEF Shorter
  <1> HIDE DEF t
  <1>1. s \in Seq(X) /\ Len(s) = n  OBVIOUS
  <1> DEFINE l == SubSeq(s, 1, k - 1)
  <1> DEFINE r == SubSeq(s, k + 1, n)
  <1>2. l \in Seq(X) /\ Len(l) = k - 1 /\ \A j \in 1..k - 1 : l[j] = s[j]  BY <1>1
  <1>3. r \in Seq(X) /\ Len(r) = n - k /\ \A j \in 1..n - k : r[j] = s[k + j]  BY <1>1
  <1>4. RemoveAt(s, k) = l \o r  BY <1>1 DEF RemoveAt
  <1> HIDE DEF l, r
  <1>5. l \o r \in Seq(X) /\ Len(l \o r) = n - 1
    <2>1. l \o r \in Seq(X)  BY <1>2, <1>3
    <2>2. Len(l \o r) = Len(l) + Len(r)  BY <1>2, <1>3, ConcatProperties
    <2>3. (k - 1) + (n - k) = n - 1  OBVIOUS
    <2> QED  BY <1>2, <1>3, <2>1, <2>2, <2>3
  <1>6. ASSUME NEW j \in 1..n - 1  PROVE (l \o r)[j] = t[j]
    <2>1. CASE j <= k - 1
      <3>1. (l \o r)[j] = l[j]  BY <1>2, <1>3, <2>1
      <3>2. j \in 1..k - 1 /\ j < k  BY <2>1
      <3> QED  BY <1>0, <1>2, <3>1, <3>2
    <2>2. CASE j > k - 1
      <3>1. j - (k - 1) \in 1..n - k /\ k + (j - (k - 1)) = j + 1 /\ ~(j < k)  BY <2>2
      <3>2. (l \o r)[j] = r[j - (k - 1)]  BY <1>2, <1>3, <2>2
      <3>3. r[j - (k - 1)] = s[j + 1]  BY <1>3, <3>1
      <3> QED  BY <1>0, <3>1, <3>2, <3>3
    <2>3. j <= k - 1 \/ j > k - 1  OBVIOUS
    <2> QED  BY <2>1, <2>2, <2>3, Zenon
  <1>7. t \in Seq(X) /\ Len(t) = n - 1
    <2>1. n - 1 \in Nat  OBVIOUS
    <2> QED  BY <2>1, <1>0
  <1>8. l \o r = t
    <2> DEFINE q == l \o r
    <2>1. q \in Seq(X) /\ Len(q) = n - 1  BY <1>5
    <2>2. \A j \in 1..n - 1 : q[j] = t[j]  BY <1>6
    <2> HIDE DEF q
    <2>3. q = t  BY <2>1, <2>2, <1>7, SeqEqual
    <2> QED  BY <2>3 DEF q
  <1> QED  BY <1>4, <1>8 DEF t

-----------------------------------------------------------------------------
(***************************************************************************)
(* The refinement.                                                         *)
(***************************************************************************)

\* The keys of the nodes that f enumerates, and the deque's items.
Keys(f, n) == [j \in 1..n |-> key[f[j]]]

LEMMA ItemsAreKeys ==
    ASSUME NEW n \in Nat, NEW f
    PROVE  /\ TypeOK /\ mode = "open" /\ Ring(f, n)
              => Items = Keys(f, n) /\ Keys(f, n) \in [1..n -> Key \cup {Null}]
           /\ TypeOK' /\ mode' = "open" /\ Ring(f, n)'
              => Items' = Keys(f, n)' /\ Keys(f, n)' \in [1..n -> Key \cup {Null}]
  <1>1. DOMAIN Nodes(f, n) = 1..n /\ \A j \in 1..n : Nodes(f, n)[j] = f[j]  BY DEF Nodes
  <1>2. ASSUME TypeOK, mode = "open", Ring(f, n)
        PROVE  Items = Keys(f, n) /\ Keys(f, n) \in [1..n -> Key \cup {Null}]
    <2>1. Along(next) = Nodes(f, n)  BY <1>2, RingWalked
    <2>2. Items = Keys(f, n)  BY <1>1, <1>2, <2>1 DEF Items, Keys
    <2>3. \A j \in 1..n : f[j] \in Address  BY <1>2 DEF Ring
    <2> QED  BY <1>2, <2>2, <2>3 DEF Keys, TypeOK
  <1>3. ASSUME TypeOK', mode' = "open", Ring(f, n)'
        PROVE  Items' = Keys(f, n)' /\ Keys(f, n)' \in [1..n -> Key \cup {Null}]
    <2>1. (TypeOK /\ Ring(f, n) => Along(next) = Nodes(f, n))'  BY RingWalked, PTL
    <2>2. Items' = Keys(f, n)'  BY <1>1, <1>3, <2>1 DEF Items, Keys
    <2>3. \A j \in 1..n : f[j] \in Address  BY <1>3 DEF Ring
    <2> QED  BY <1>3, <2>2, <2>3 DEF Keys, TypeOK
  <1> QED  BY <1>2, <1>3

\* A node in front of all the others, behind them, or one of them taken out.
LEMMA ItemsGrow ==
    ASSUME TypeOK, TypeOK', mode = "open", mode' = "open", NEW k \in Key,
           NEW n \in Nat, NEW f, Ring(f, n), NEW a \in Node \ alive, CreateNode(a, k)
    PROVE  /\ Ring(Grown(f, n, 0, a), n + 1)' => Items' = <<k>> \o Items
           /\ Ring(Grown(f, n, n, a), n + 1)' => Items' = Append(Items, k)
  <1> DEFINE X == Key \cup {Null}
  <1>1. Items = Keys(f, n) /\ Keys(f, n) \in [1..n -> X]  BY ItemsAreKeys
  <1>2. n + 1 \in Nat /\ k \in X  OBVIOUS
  <1>3. /\ \A j \in 1..n : f[j] \in Address /\ key'[f[j]] = key[f[j]]
        /\ key'[a] = k
    <2>1. a \in Address /\ \A j \in 1..n : f[j] \in InList  BY DEF Ring, Address
    <2>2. \A j \in 1..n : f[j] \in Address /\ f[j] # a  BY <2>1 DEF InList, Address, TypeOK
    <2>3. key \in [Address -> X] /\ key' = [key EXCEPT ![a] = k]  BY DEF TypeOK, CreateNode
    <2> QED  BY <2>1, <2>2, <2>3
  <1>4. \A j \in 1..n : Keys(f, n)[j] = key[f[j]]  BY DEF Keys
  <1>5. ASSUME Ring(Grown(f, n, 0, a), n + 1)'  PROVE Items' = <<k>> \o Items
    <2> DEFINE g == Grown(f, n, 0, a)
    <2>1. g[1] = a /\ \A j \in 1..n : g[j + 1] = f[j]  BY DEF Grown
    <2>2. Ring(g, n + 1)'  BY <1>5
    <2> HIDE DEF g
    <2>3. Items' = Keys(g, n + 1)' /\ Keys(g, n + 1)' \in [1..n + 1 -> X]
      BY <1>2, <2>2, ItemsAreKeys
    <2> DEFINE t == Keys(g, n + 1)'
    <2>4. \A j \in 1..n + 1 : t[j] = key'[g[j]]  BY DEF Keys
    <2>5. t[1] = k /\ \A j \in 1..n : t[j + 1] = Keys(f, n)[j]
      <3>1. 1 \in 1..n + 1 /\ \A j \in 1..n : j + 1 \in 1..n + 1  OBVIOUS
      <3> HIDE DEF t
      <3> QED  BY <1>3, <1>4, <2>1, <2>4, <3>1
    <2>6. Items' = t /\ t \in [1..n + 1 -> X]  BY <2>3
    <2> HIDE DEF t, X
    <2>7. t = <<k>> \o Keys(f, n)  BY <1>1, <1>2, <2>5, <2>6, Prepended
    <2> QED  BY <1>1, <2>6, <2>7
  <1>6. ASSUME Ring(Grown(f, n, n, a), n + 1)'  PROVE Items' = Append(Items, k)
    <2> DEFINE g == Grown(f, n, n, a)
    <2>1. g[n + 1] = a /\ \A j \in 1..n : g[j] = f[j]  BY DEF Grown
    <2>2. Ring(g, n + 1)'  BY <1>6
    <2> HIDE DEF g
    <2>3. Items' = Keys(g, n + 1)' /\ Keys(g, n + 1)' \in [1..n + 1 -> X]
      BY <1>2, <2>2, ItemsAreKeys
    <2> DEFINE t == Keys(g, n + 1)'
    <2>4. \A j \in 1..n + 1 : t[j] = key'[g[j]]  BY DEF Keys
    <2>5. t[n + 1] = k /\ \A j \in 1..n : t[j] = Keys(f, n)[j]
      <3>1. n + 1 \in 1..n + 1 /\ \A j \in 1..n : j \in 1..n + 1  OBVIOUS
      <3> HIDE DEF t
      <3> QED  BY <1>3, <1>4, <2>1, <2>4, <3>1
    <2>6. Items' = t /\ t \in [1..n + 1 -> X]  BY <2>3
    <2> HIDE DEF t, X
    <2>7. t = Append(Keys(f, n), k)  BY <1>1, <1>2, <2>5, <2>6, Appended
    <2> QED  BY <1>1, <2>6, <2>7
  <1> QED  BY <1>5, <1>6

LEMMA ItemsShrink ==
    ASSUME TypeOK, TypeOK', mode = "open", mode' = "open",
           NEW n \in Nat, NEW f, Ring(f, n), NEW k \in 1..n,
           Ring(Shrunk(f, n, k), n - 1)',
           \A b \in InList \ {f[k]} : key'[b] = key[b]
    PROVE  /\ DOMAIN Items = 1..n /\ Len(Items) = n /\ Items[k] = key[f[k]]
           /\ Items' = RemoveAt(Items, k)
  <1> DEFINE X == Key \cup {Null}
  <1> DEFINE g == Shrunk(f, n, k)
  <1>1. Items = Keys(f, n) /\ Keys(f, n) \in [1..n -> X]  BY ItemsAreKeys
  <1>2. n - 1 \in Nat  OBVIOUS
  <1>3. \A j \in 1..n : Keys(f, n)[j] = key[f[j]]  BY DEF Keys
  <1>4. /\ \A j \in 1..k - 1 : g[j] = f[j]
        /\ \A j \in k..n - 1 : g[j] = f[j + 1]
    BY DEF Shrunk
  <1>5. Ring(g, n - 1)'  OBVIOUS
  <1> HIDE DEF g
  <1>6. Items' = Keys(g, n - 1)' /\ Keys(g, n - 1)' \in [1..n - 1 -> X]
    BY <1>2, <1>5, ItemsAreKeys
  <1> DEFINE t == Keys(g, n - 1)'
  <1>7. \A j \in 1..n - 1 : t[j] = key'[g[j]]  BY DEF Keys
  <1>8. \A j \in 1..n : j # k => key'[f[j]] = key[f[j]]
    <2>1. \A j \in 1..n : f[j] \in InList /\ (f[j] = f[k] => j = k)  BY DEF Ring
    <2> QED  BY <2>1
  <1>0. Items' = t /\ t \in [1..n - 1 -> X]  BY <1>6
  <1> HIDE DEF t, X
  <1>9. ASSUME NEW j \in 1..n - 1
        PROVE  t[j] = IF j < k THEN Keys(f, n)[j] ELSE Keys(f, n)[j + 1]
    <2>1. CASE j < k
      <3>1. j \in 1..k - 1 /\ j \in 1..n /\ j # k  BY <2>1
      <3> QED  BY <1>3, <1>4, <1>7, <1>8, <2>1, <3>1
    <2>2. CASE ~(j < k)
      <3>1. j \in k..n - 1 /\ j + 1 \in 1..n /\ j + 1 # k  BY <2>2
      <3> QED  BY <1>3, <1>4, <1>7, <1>8, <2>2, <3>1
    <2> QED  BY <2>1, <2>2
  <1>11. t = RemoveAt(Keys(f, n), k)
    <2>1. t = Shorter(Keys(f, n), n, k)  BY <1>0, <1>9 DEF Shorter
    <2>2. RemoveAt(Keys(f, n), k) = Shorter(Keys(f, n), n, k)  BY <1>1, Removed
    <2> QED  BY <2>1, <2>2
  <1>12. DOMAIN Keys(f, n) = 1..n /\ Len(Keys(f, n)) = n  BY <1>1
  <1> QED  BY <1>0, <1>1, <1>3, <1>11, <1>12

\* What is no part of the list may change.
LEMMA ItemsKept ==
    ASSUME ListInv, TypeOK', UNCHANGED mode, InList' = InList,
           mode = "open" => \A b \in InList \cup {nil} :
                               next'[b] = next[b] /\ prev'[b] = prev[b],
           \A b \in InList : key'[b] = key[b]
    PROVE  Items' = Items
  <1>1. CASE mode # "open"  BY <1>1 DEF Items
  <1>2. CASE mode = "open"
    <2>0. TypeOK  BY DEF ListInv
    <2>1. PICK n \in Nat : \E f \in [0..n + 1 -> Address] : Ring(f, n)  BY <1>2 DEF ListInv, RingInv
    <2>2. PICK f \in [0..n + 1 -> Address] : Ring(f, n)  BY <2>1
    <2>3. Ring(f, n)'  BY <1>2, <2>0, <2>2, RingKept
    <2>4. Items = Keys(f, n)  BY <1>2, <2>0, <2>2, ItemsAreKeys
    <2>5. Items' = Keys(f, n)'  BY <1>2, <2>3, ItemsAreKeys
    <2>6. \A j \in 1..n : key'[f[j]] = key[f[j]]  BY <2>2 DEF Ring
    <2>7. Keys(f, n)' = Keys(f, n)  BY <2>6 DEF Keys
    <2> QED  BY <2>4, <2>5, <2>7
  <1> QED  BY <1>1, <1>2

\* The places of the nodes that list_shift() and list_pop() take.
LEMMA EndPlaces ==
    ASSUME TypeOK, NEW n \in Nat, NEW f, Ring(f, n), NEW k \in 1..n
    PROVE  (f[k] = next[nil] => k = 1) /\ (f[k] = prev[nil] => k = n)
  <1>1. 0 \in 0..n /\ n \in 0..n /\ 0 + 1 = 1 /\ 1 \in 1..n /\ n \in 1..n  OBVIOUS
  <1>2. next[f[0]] = f[0 + 1] /\ prev[f[n + 1]] = f[n]  BY <1>1 DEF Ring
  <1>3. next[nil] = f[1] /\ prev[nil] = f[n]  BY <1>1, <1>2 DEF Ring
  <1> QED  BY <1>1, <1>3 DEF Ring

\* An element is taken out of the deque when a node leaves the list.
LEMMA Taking ==
    ASSUME ListInv, TypeOK', mode = "open", mode' = "open", NEW a \in InList,
           Delete(a) \/ \E call : Take(a, call)
    PROVE  \E k \in DOMAIN Items :
              /\ Items' = RemoveAt(Items, k) /\ Items[k] = key[a]
              /\ a = next[nil] => k = 1
              /\ a = prev[nil] => k = Len(Items)
  <1>0. TypeOK  BY DEF ListInv
  <1>1. PICK n \in Nat : \E f \in [0..n + 1 -> Address] : Ring(f, n)  BY DEF ListInv, RingInv
  <1>2. PICK f \in [0..n + 1 -> Address] : Ring(f, n)  BY <1>1
  <1>3. PICK k \in 1..n : f[k] = a /\ Ring(Shrunk(f, n, k), n - 1)'  BY <1>0, <1>2, BypassShrinks
  <1>4. \A b \in InList \ {f[k]} : key'[b] = key[b]
    <2>1. \A b \in InList : b \in Address  BY <1>0 DEF InList, TypeOK, Address
    <2>2. CASE Delete(a)  BY <2>2 DEF Delete
    <2>3. CASE \E call : Take(a, call)  BY <1>0, <1>3, <2>1, <2>3 DEF Take, TypeOK
    <2> QED  BY <2>2, <2>3
  <1>5. /\ DOMAIN Items = 1..n /\ Len(Items) = n /\ Items[k] = key[f[k]]
        /\ Items' = RemoveAt(Items, k)
    BY <1>0, <1>2, <1>3, <1>4, ItemsShrink
  <1>6. (f[k] = next[nil] => k = 1) /\ (f[k] = prev[nil] => k = n)  BY <1>0, <1>2, EndPlaces
  <1> QED  BY <1>3, <1>5, <1>6

\* The deque is empty when list_size() is zero.
LEMMA ItemsNone ==
    ASSUME ListInv, mode = "open", Empty
    PROVE  Items = <<>>
  <1>0. TypeOK  BY DEF ListInv
  <1>1. PICK n \in Nat : \E f \in [0..n + 1 -> Address] : Ring(f, n)  BY DEF ListInv, RingInv
  <1>2. PICK f \in [0..n + 1 -> Address] : Ring(f, n)  BY <1>1
  <1>3. InList = {}
    <2>1. InList \in SUBSET Node  BY <1>0 DEF InList, TypeOK
    <2> QED  BY <2>1, NodesFinite DEF ListInv, SizeInv, Empty
  <1>4. n = 0
    <2>1. n # 0 => 1 \in 1..n  OBVIOUS
    <2> QED  BY <1>2, <1>3, <2>1 DEF Ring
  <1>5. Items = Keys(f, n)  BY <1>0, <1>2, ItemsAreKeys
  <1> QED  BY <1>4, <1>5 DEF Keys

\* Every step of the list is a step of the deque, or changes nothing of it.
LEMMA DequeStep == ListInv /\ TypeOK' /\ [Next]_vars => [Deque!Next]_(Deque!vars)
  <1> SUFFICES ASSUME ListInv, TypeOK', [Next]_vars PROVE [Deque!Next]_(Deque!vars)  OBVIOUS
  <1>0. TypeOK /\ SizeInv /\ RingInv /\ InList \subseteq Address
    BY DEF ListInv, TypeOK, InList, Address
  <1>k. ASSUME UNCHANGED <<mode, ret>>, InList' = InList,
               mode = "open" => \A b \in InList \cup {nil} :
                                   next'[b] = next[b] /\ prev'[b] = prev[b],
               \A b \in InList : key'[b] = key[b]
        PROVE  UNCHANGED Deque!vars
    <2>1. Items' = Items  BY <1>k, ItemsKept
    <2> QED  BY <1>k, <2>1 DEF Deque!vars
  <1>1. ASSUME Create PROVE UNCHANGED Deque!vars
    <2>1. TypeOK' /\ mode' = "open" /\ next'[nil] = nil /\ prev'[nil] = nil /\ InList' = {}
      BY <1>0, <1>1 DEF Create, TypeOK, RingInv, InList, Address
    <2> DEFINE f == [i \in 0..0 + 1 |-> nil]
    <2>2. f \in [0..0 + 1 -> Address] /\ f[0] = nil /\ f[0 + 1] = nil /\ \A i \in 0..0 : f[i] = nil /\ f[i + 1] = nil
      BY DEF Address
    <2> HIDE DEF f
    <2>3. Ring(f, 0)'  BY <2>1, <2>2 DEF Ring
    <2>4. Items' = Keys(f, 0)'  BY <2>1, <2>3, ItemsAreKeys
    <2>5. Keys(f, 0)' = <<>>  BY DEF Keys
    <2>6. Items = <<>>  BY <1>1 DEF Create, Items
    <2> QED  BY <2>4, <2>5, <2>6, <1>1 DEF Create, Deque!vars
  <1>2. ASSUME NEW k \in Key, Insert(k) PROVE Deque!Insert(k)
    <2>0. mode = "open" /\ mode' = "open" /\ Returns("list_insert", "0")
      BY <1>2 DEF Insert, CreateNode
    <2>1. PICK n \in Nat : \E f \in [0..n + 1 -> Address] : Ring(f, n)  BY <2>0, <1>0 DEF RingInv
    <2>2. PICK f \in [0..n + 1 -> Address] : Ring(f, n)  BY <2>1
    <2>3. PICK a \in Node \ alive : CreateNode(a, k) /\ Ring(Grown(f, n, 0, a), n + 1)'
      BY <1>0, <1>2, <2>2, InsertGrows
    <2>4. Items' = <<k>> \o Items  BY <1>0, <2>0, <2>2, <2>3, ItemsGrow
    <2> QED  BY <2>0, <2>4 DEF Returns, Deque!Insert, Deque!Returns
  <1>3. ASSUME NEW k \in Key, Push(k) PROVE Deque!Push(k)
    <2>0. mode = "open" /\ mode' = "open" /\ Returns("list_push", "0")
      BY <1>3 DEF Push, CreateNode
    <2>1. PICK n \in Nat : \E f \in [0..n + 1 -> Address] : Ring(f, n)  BY <2>0, <1>0 DEF RingInv
    <2>2. PICK f \in [0..n + 1 -> Address] : Ring(f, n)  BY <2>1
    <2>3. PICK a \in Node \ alive : CreateNode(a, k) /\ Ring(Grown(f, n, n, a), n + 1)'
      BY <1>0, <1>3, <2>2, PushGrows
    <2>4. Items' = Append(Items, k)  BY <1>0, <2>0, <2>2, <2>3, ItemsGrow
    <2> QED  BY <2>0, <2>4 DEF Returns, Deque!Push, Deque!Returns
  <1>4. ASSUME NEW k \in Key, InsertFails(k) PROVE Deque!InsertFails
    <2>1. Items' = Items  BY <1>4, ItemsKept DEF InsertFails, links, InList
    <2> QED  BY <1>4, <2>1 DEF InsertFails, Returns, Deque!InsertFails, Deque!Returns
  <1>5. ASSUME NEW k \in Key, FreeKey(k) PROVE UNCHANGED Deque!vars
    BY <1>5, <1>k DEF FreeKey, links, InList
  <1>6. ASSUME NEW a \in Node, Delete(a)
        PROVE  \E i \in DOMAIN Items : Deque!Take(i, "list_delete")
    <2>1. mode = "open" /\ mode' = "open" /\ a \in InList /\ Returns("list_delete", key[a])
      BY <1>6 DEF Delete
    <2>2. PICK i \in DOMAIN Items : Items' = RemoveAt(Items, i) /\ Items[i] = key[a]
      BY <1>6, <2>1, Taking
    <2> QED  BY <2>1, <2>2 DEF Returns, RemoveAt, Deque!Take, Deque!Returns, Deque!RemoveAt
  <1>t. ASSUME NEW a, NEW call, Take(a, call), a \in InList \/ a = next[nil] \/ a = prev[nil]
        PROVE  \E i \in DOMAIN Items :
                  /\ Deque!Take(i, call)
                  /\ (a = next[nil] => i = 1) /\ (a = prev[nil] => i = Len(Items))
    <2>1. mode' = "open" /\ mode = "open" /\ a \in InList /\ Returns(call, key[a])
      BY <1>0, <1>t, Taken DEF Take
    <2>2. PICK i \in DOMAIN Items :
             /\ Items' = RemoveAt(Items, i) /\ Items[i] = key[a]
             /\ (a = next[nil] => i = 1) /\ (a = prev[nil] => i = Len(Items))
      BY <1>t, <2>1, Taking
    <2> QED  BY <2>1, <2>2 DEF Returns, RemoveAt, Deque!Take, Deque!Returns, Deque!RemoveAt
  <1>7. ASSUME NEW a \in Node, FreeNode(a) PROVE UNCHANGED Deque!vars
    <2>1. a \notin InList \cup {nil} /\ InList' = InList
      BY <1>7, NodeAssumption DEF FreeNode, InList
    <2>2. /\ \A b \in InList \cup {nil} : next'[b] = next[b] /\ prev'[b] = prev[b]
          /\ \A b \in InList : key'[b] = key[b]
      BY <2>1, <1>7, <1>0 DEF FreeNode, TypeOK, Address
    <2>3. UNCHANGED <<mode, ret>>  BY <1>7 DEF FreeNode
    <2> QED  BY <2>1, <2>2, <2>3, <1>k
  <1>8. ASSUME NEW a \in Node, RemoveNode(a)
        PROVE  \E i \in DOMAIN Items : Deque!Take(i, "list_remove")
    BY <1>8, <1>t DEF RemoveNode
  <1>9. ASSUME Shift PROVE Items # <<>> /\ Deque!Take(1, "list_shift")
    <2>1. PICK i \in DOMAIN Items : Deque!Take(i, "list_shift") /\ i = 1
      BY <1>9, <1>t DEF Shift
    <2>2. Items # <<>>
      <3>1. DOMAIN <<>> = {}  OBVIOUS
      <3> QED  BY <2>1, <3>1
    <2> QED  BY <2>1, <2>2
  <1>10. ASSUME Pop PROVE Items # <<>> /\ Deque!Take(Len(Items), "list_pop")
    <2>1. PICK i \in DOMAIN Items : Deque!Take(i, "list_pop") /\ i = Len(Items)
      BY <1>10, <1>t DEF Pop
    <2>2. Items # <<>>
      <3>1. DOMAIN <<>> = {}  OBVIOUS
      <3> QED  BY <2>1, <3>1
    <2> QED  BY <2>1, <2>2
  <1>11. ASSUME TakeNothing PROVE Deque!TakeNothing
    <2>1. Items = <<>>  BY <1>11, ItemsNone DEF TakeNothing
    <2>2. Items' = Items  BY <1>11, ItemsKept DEF TakeNothing, links, InList
    <2> QED  BY <1>11, <2>1, <2>2 DEF TakeNothing, Returns, Deque!TakeNothing, Deque!Returns
  <1>12. ASSUME Destroy PROVE Deque!Clear
    BY <1>12 DEF Destroy, Items, Deque!Clear
  <1>13. ASSUME DestroyNode \/ DestroyEnd PROVE UNCHANGED Deque!vars
    BY <1>13 DEF DestroyNode, DestroyEnd, Items, Deque!vars
  <1>14. ASSUME UNCHANGED vars PROVE UNCHANGED Deque!vars
    BY <1>14, <1>k DEF vars, links, InList
  <1> QED
    <2>1. CASE \E k \in Key : Insert(k) \/ Push(k) \/ InsertFails(k) \/ FreeKey(k)
      BY <2>1, <1>2, <1>3, <1>4, <1>5 DEF Deque!Next
    <2>2. CASE \E a \in Node : Delete(a) \/ FreeNode(a) \/ RemoveNode(a)
      BY <2>2, <1>6, <1>7, <1>8 DEF Deque!Next
    <2>3. CASE Shift \/ Pop \/ TakeNothing
      BY <2>3, <1>9, <1>10, <1>11 DEF Deque!Next
    <2>4. CASE Create \/ Destroy \/ DestroyNode \/ DestroyEnd
      BY <2>4, <1>1, <1>12, <1>13 DEF Deque!Next
    <2> QED  BY <2>1, <2>2, <2>3, <2>4, <1>14 DEF Next

\* Whatever the number of nodes and keys, a caller of lib/list.c that keeps to
\* its preconditions sees a deque: each call does to the sequence of the keys,
\* and returns, what lib/list.h says.
THEOREM ImplementsDeque == Spec => IsDeque
  <1>1. Init => Deque!Init  BY DEF Init, Items, Deque!Init
  <1>2. ListInv => TypeOK  BY DEF ListInv
  <1> QED  BY <1>1, <1>2, DequeStep, Invariant, PTL DEF Spec, IsDeque, Deque!Spec
=============================================================================
