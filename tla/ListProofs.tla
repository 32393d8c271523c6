----------------------------- MODULE ListProofs -----------------------------
(***************************************************************************)
(* Theorems on the linked list, for any number of nodes and keys.  That    *)
(* the links form one ring is said without recursion: there is an          *)
(* enumeration of the nodes in the order of the links, which each          *)
(* operation extends, shortens or leaves as it is.                         *)
(***************************************************************************)
EXTENDS List, TLAPS, FiniteSetTheorems

\* f enumerates the list: the sentinel, its n nodes, and the sentinel again.
Ring(f, n) ==
    /\ f \in [0..n + 1 -> Address] /\ f[0] = nil /\ f[n + 1] = nil
    /\ \A i \in 0..n : next[f[i]] = f[i + 1] /\ prev[f[i + 1]] = f[i]
    /\ \A i \in 1..n : f[i] \in InList
    /\ \A a \in InList : \E i \in 1..n : f[i] = a
    /\ \A i, j \in 1..n : f[i] = f[j] => i = j

\* The enumeration f of n nodes with a put behind the k-th, and without the k-th.
Grown(f, n, k, a) ==
    [i \in 0..(n + 1) + 1 |-> IF i <= k THEN f[i] ELSE IF i = k + 1 THEN a ELSE f[i - 1]]
Shrunk(f, n, k) == [i \in 0..(n - 1) + 1 |-> IF i < k THEN f[i] ELSE f[i + 1]]

\* f enumerates what is left of the list within list_destroy().
Rest(f, n) ==
    /\ f \in [1..n + 1 -> Address] /\ f[1] = node /\ f[n + 1] = nil
    /\ \A i \in 1..n : next[f[i]] = f[i + 1] /\ f[i] \in InList
    /\ \A a \in InList : \E i \in 1..n : f[i] = a
    /\ \A i, j \in 1..n : f[i] = f[j] => i = j
    /\ node # nil => lahead = next[node]

RingInv ==
    /\ mode = "open" => \E n \in Nat : \E f \in [0..n + 1 -> Address] : Ring(f, n)
    /\ mode = "destroy" => \E n \in Nat : \E f \in [1..n + 1 -> Address] : Rest(f, n)
    /\ mode = "none" => InList = {}

SizeInv == mode = "open" => size = Cardinality(InList)

ListInv == TypeOK /\ SizeInv /\ RingInv /\ KeysOwned

-----------------------------------------------------------------------------
LEMMA NodesFinite ==
    ASSUME NEW S \in SUBSET Node
    PROVE  /\ IsFiniteSet(S) /\ Cardinality(S) \in Nat
           /\ Cardinality(S) <= Cardinality(Node) /\ Cardinality(Node) \in Nat
           /\ Cardinality(S) = 0 <=> S = {}
  BY NodeAssumption, FS_Subset, FS_CardinalityType, FS_EmptySet

\* A node inserted between the k-th and the next.
LEMMA RingGrows ==
    ASSUME TypeOK, NEW n \in Nat, NEW f, Ring(f, n), NEW a \in Node \ alive,
           alive' = alive \cup {a}, UNCHANGED loose, NEW k \in 0..n,
           next'[a] = f[k + 1], next'[f[k]] = a,
           prev'[a] = f[k], prev'[f[k + 1]] = a,
           \A b \in Address \ {a, f[k]} : next'[b] = next[b],
           \A b \in Address \ {a, f[k + 1]} : prev'[b] = prev[b]
    PROVE  Ring(Grown(f, n, k, a), n + 1)'
  <1> DEFINE g == [i \in 0..(n + 1) + 1 |-> IF i <= k THEN f[i] ELSE IF i = k + 1 THEN a ELSE f[i - 1]]
  <1>a. g = Grown(f, n, k, a)  BY DEF Grown
  <1>1. a \in Address /\ a # nil /\ \A i \in 0..n + 1 : f[i] \in Address /\ f[i] # a
    <2>1. \A i \in 0..n + 1 : i \in 1..n \/ i = 0 \/ i = n + 1  OBVIOUS
    <2> QED  BY <2>1, NodeAssumption DEF Ring, TypeOK, Address, InList
  <1>2. g \in [0..(n + 1) + 1 -> Address]
    BY <1>1
  <1>3. /\ \A i \in 0..k : g[i] = f[i]
        /\ g[k + 1] = a
        /\ \A i \in k + 1..n + 1 : g[i + 1] = f[i]
    <2>1. 0..k \subseteq 0..(n + 1) + 1 /\ k + 1 \in 0..(n + 1) + 1  OBVIOUS
    <2>2. ASSUME NEW i \in k + 1..n + 1 PROVE g[i + 1] = f[i]
      <3>1. i + 1 \in 0..(n + 1) + 1 /\ ~(i + 1 <= k) /\ i + 1 # k + 1 /\ (i + 1) - 1 = i
        OBVIOUS
      <3> QED  BY <3>1
    <2>3. \A i \in 0..k : i <= k  OBVIOUS
    <2> QED  BY <2>1, <2>2, <2>3
  <1>4. g[0] = nil /\ g[(n + 1) + 1] = nil
    BY <1>3 DEF Ring
  <1>5. InList' = InList \cup {a}
    BY DEF InList, TypeOK
  <1> HIDE DEF g
  <1>6. \A i \in 1..n + 1 : g[i] \in InList'
    <2> SUFFICES ASSUME NEW i \in 1..n + 1 PROVE g[i] \in InList'  OBVIOUS
    <2>1. CASE i <= k  BY <2>1, <1>3, <1>5 DEF Ring
    <2>2. CASE i = k + 1  BY <2>2, <1>3, <1>5
    <2>3. CASE i > k + 1
      <3>1. i - 1 \in k + 1..n + 1 /\ i - 1 \in 1..n /\ (i - 1) + 1 = i  BY <2>3
      <3>2. g[i] = f[i - 1]  BY <3>1, <1>3
      <3> QED  BY <3>1, <3>2, <1>5 DEF Ring
    <2> QED  BY <2>1, <2>2, <2>3
  <1>7. \A b \in InList' : \E i \in 1..n + 1 : g[i] = b
    <2> SUFFICES ASSUME NEW b \in InList' PROVE \E i \in 1..n + 1 : g[i] = b  OBVIOUS
    <2>1. CASE b = a  BY <2>1, <1>3
    <2>2. CASE b \in InList
      <3>1. PICK i \in 1..n : f[i] = b  BY <2>2 DEF Ring
      <3>2. CASE i <= k  BY <3>1, <3>2, <1>3
      <3>3. CASE i > k  BY <3>1, <3>3, <1>3
      <3> QED  BY <3>2, <3>3
    <2> QED  BY <2>1, <2>2, <1>5
  <1>8. \A i, j \in 1..n + 1 : g[i] = g[j] => i = j
    <2> SUFFICES ASSUME NEW i \in 1..n + 1, NEW j \in 1..n + 1, g[i] = g[j] PROVE i = j  OBVIOUS
    <2> DEFINE back(m) == IF m <= k THEN m ELSE m - 1
    <2>1. \A m \in 1..n + 1 : m # k + 1 => back(m) \in 1..n /\ g[m] = f[back(m)]
      <3> SUFFICES ASSUME NEW m \in 1..n + 1, m # k + 1
                   PROVE  back(m) \in 1..n /\ g[m] = f[back(m)]
        OBVIOUS
      <3>1. CASE m <= k  BY <3>1, <1>3
      <3>2. CASE m > k + 1
        <4>1. m - 1 \in k + 1..n + 1 /\ m - 1 \in 1..n /\ (m - 1) + 1 = m  BY <3>2
        <4> QED  BY <4>1, <3>2, <1>3
      <3> QED  BY <3>1, <3>2
    <2>2. CASE i = k + 1 \/ j = k + 1
      <3>1. \A m \in 1..n + 1 : m # k + 1 => g[m] # a
        BY <2>1, <1>1
      <3> QED  BY <2>2, <3>1, <1>3
    <2>3. CASE i # k + 1 /\ j # k + 1
      <3>1. /\ back(i) \in 1..n /\ back(j) \in 1..n
            /\ f[back(i)] = f[back(j)]
        BY <2>1, <2>3
      <3> HIDE DEF back
      <3>2. back(i) = back(j)  BY <3>1 DEF Ring
      <3> QED  BY <3>2, <2>3 DEF back
    <2> QED  BY <2>2, <2>3
  <1>9. \A i \in 0..n + 1 : next'[g[i]] = g[i + 1] /\ prev'[g[i + 1]] = g[i]
    <2> SUFFICES ASSUME NEW i \in 0..n + 1
                 PROVE  next'[g[i]] = g[i + 1] /\ prev'[g[i + 1]] = g[i]
      OBVIOUS
    <2>1. CASE i = k
      BY <2>1, <1>3
    <2>2. CASE i = k + 1
      <3>1. g[k + 2] = f[k + 1]  BY <1>3
      <3> QED  BY <2>2, <3>1, <1>3
    <2>3. CASE i < k
      <3>1. /\ g[i] = f[i] /\ g[i + 1] = f[i + 1] /\ i \in 0..n /\ k \in 1..n
        BY <2>3, <1>3
      <3>2. f[i] # f[k] /\ f[i + 1] # f[k + 1]
        <4>1. f[k] # nil  BY <3>1, NodeAssumption DEF Ring, InList, TypeOK
        <4>2. f[i] # f[k]  BY <2>3, <3>1, <4>1 DEF Ring
        <4>3. i + 1 \in 1..n /\ (k + 1 \in 1..n \/ k + 1 = n + 1)  BY <2>3, <3>1
        <4>4. f[i + 1] # nil  BY <4>3, NodeAssumption DEF Ring, InList, TypeOK
        <4> QED  BY <4>2, <4>3, <4>4, <2>3 DEF Ring
      <3>3. next[f[i]] = f[i + 1] /\ prev[f[i + 1]] = f[i]  BY <3>1 DEF Ring
      <3>4. f[i] \in Address \ {a, f[k]} /\ f[i + 1] \in Address \ {a, f[k + 1]}
        BY <3>1, <3>2, <1>1
      <3> QED  BY <3>1, <3>3, <3>4
    <2>4. CASE i > k + 1
      <3>0. i - 1 \in k + 1..n + 1 /\ i \in k + 1..n + 1 /\ (i - 1) + 1 = i /\ i - 1 \in 1..n
        BY <2>4
      <3>1. g[i] = f[i - 1] /\ g[i + 1] = f[i]
        BY <3>0, <1>3
      <3>2. f[i - 1] # f[k] /\ f[i] # f[k + 1]
        <4>1. f[i - 1] # nil  BY <3>0, NodeAssumption DEF Ring, InList, TypeOK
        <4>2. k \in 1..n \/ k = 0  OBVIOUS
        <4>3. f[i - 1] # f[k]  BY <2>4, <3>0, <4>1, <4>2 DEF Ring
        <4>4. k + 1 \in 1..n /\ (i \in 1..n \/ i = n + 1)  BY <2>4, <3>0
        <4>5. f[k + 1] # nil  BY <4>4, NodeAssumption DEF Ring, InList, TypeOK
        <4>6. CASE i \in 1..n
          <5>1. i # k + 1 /\ f[i] # f[k + 1]  BY <4>4, <4>6, <2>4 DEF Ring
          <5> QED  BY <5>1, <4>3
        <4>7. CASE i = n + 1  BY <4>3, <4>5, <4>7 DEF Ring
        <4> QED  BY <4>4, <4>6, <4>7
      <3>3. next[f[i - 1]] = f[i] /\ prev[f[i]] = f[i - 1]  BY <3>0 DEF Ring
      <3>4. f[i - 1] \in Address \ {a, f[k]} /\ f[i] \in Address \ {a, f[k + 1]}
        BY <3>0, <3>2, <1>1
      <3> QED  BY <3>1, <3>3, <3>4
    <2> QED  BY <2>1, <2>2, <2>3, <2>4
  <1> QED
    BY <1>a, <1>2, <1>4, <1>6, <1>7, <1>8, <1>9 DEF Ring

\* The k-th node taken out.
LEMMA RingShrinks ==
    ASSUME TypeOK, NEW n \in Nat, NEW f, Ring(f, n), NEW k \in 1..n,
           InList' = InList \ {f[k]},
           next'[f[k - 1]] = f[k + 1], prev'[f[k + 1]] = f[k - 1],
           \A b \in Address \ {f[k - 1], f[k]} : next'[b] = next[b],
           \A b \in Address \ {f[k + 1], f[k]} : prev'[b] = prev[b]
    PROVE  Ring(Shrunk(f, n, k), n - 1)'
  <1> DEFINE g == [i \in 0..(n - 1) + 1 |-> IF i < k THEN f[i] ELSE f[i + 1]]
  <1>a. g = Shrunk(f, n, k)  BY DEF Shrunk
  <1>0. n - 1 \in Nat /\ (n - 1) + 1 = n  OBVIOUS
  <1>1. \A i \in 0..n + 1 : f[i] \in Address
    BY DEF Ring
  <1>2. g \in [0..(n - 1) + 1 -> Address]
    BY <1>0, <1>1
  <1>3. /\ \A i \in 0..k - 1 : g[i] = f[i]
        /\ \A i \in k..n : g[i] = f[i + 1]
    BY <1>0
  <1>4. g[0] = nil /\ g[(n - 1) + 1] = nil
    BY <1>3, <1>0 DEF Ring
  <1> HIDE DEF g
  <1>5. \A i \in 1..n : f[i] # nil
    BY NodeAssumption DEF Ring, InList, TypeOK
  <1>6. \A i, j \in 0..n + 1 : f[i] = f[j] => i = j \/ (i = 0 /\ j = n + 1) \/ (j = 0 /\ i = n + 1)
    <2> SUFFICES ASSUME NEW i \in 0..n + 1, NEW j \in 0..n + 1, f[i] = f[j], i # j
                 PROVE  (i = 0 /\ j = n + 1) \/ (j = 0 /\ i = n + 1)
      OBVIOUS
    <2>1. f[0] = nil /\ f[n + 1] = nil  BY DEF Ring
    <2>2. i \in 1..n => FALSE
      <3> SUFFICES ASSUME i \in 1..n PROVE FALSE  OBVIOUS
      <3>1. j \in 1..n  BY <2>1, <1>5
      <3> QED  BY <3>1 DEF Ring
    <2>3. j \in 1..n => FALSE
      <3> SUFFICES ASSUME j \in 1..n PROVE FALSE  OBVIOUS
      <3>1. i \in 1..n  BY <2>1, <1>5
      <3> QED  BY <3>1 DEF Ring
    <2> QED  BY <2>2, <2>3
  <1> DEFINE at(m) == IF m < k THEN m ELSE m + 1
  <1>7. \A m \in 0..n : /\ at(m) \in 0..n + 1 /\ at(m) # k /\ g[m] = f[at(m)]
                        /\ m \in 1..n - 1 => at(m) \in 1..n
    <2> SUFFICES ASSUME NEW m \in 0..n
                 PROVE  /\ at(m) \in 0..n + 1 /\ at(m) # k /\ g[m] = f[at(m)]
                        /\ m \in 1..n - 1 => at(m) \in 1..n
      OBVIOUS
    <2>1. CASE m < k  BY <2>1, <1>3
    <2>2. CASE m >= k  BY <2>2, <1>3
    <2> QED  BY <2>1, <2>2
  <1>8. \A i \in 1..n - 1 : g[i] \in InList'
    <2> SUFFICES ASSUME NEW i \in 1..n - 1 PROVE g[i] \in InList'  OBVIOUS
    <2>1. i \in 0..n /\ at(i) \in 1..n /\ at(i) # k /\ g[i] = f[at(i)]  BY <1>7
    <2> HIDE DEF at
    <2>2. f[at(i)] \in InList /\ f[at(i)] # f[k]  BY <2>1 DEF Ring
    <2> QED  BY <2>1, <2>2
  <1>9. \A b \in InList' : \E i \in 1..n - 1 : g[i] = b
    <2> SUFFICES ASSUME NEW b \in InList' PROVE \E i \in 1..n - 1 : g[i] = b  OBVIOUS
    <2>1. PICK i \in 1..n : f[i] = b  BY DEF Ring
    <2>2. i # k  BY <2>1
    <2>3. CASE i < k
      <3>1. i \in 1..n - 1 /\ i \in 0..k - 1  BY <2>3
      <3> QED  BY <3>1, <2>1, <1>3
    <2>4. CASE i > k
      <3>1. i - 1 \in 1..n - 1 /\ i - 1 \in k..n /\ (i - 1) + 1 = i  BY <2>4
      <3> QED  BY <3>1, <2>1, <1>3
    <2> QED  BY <2>2, <2>3, <2>4
  <1>10. \A i, j \in 1..n - 1 : g[i] = g[j] => i = j
    <2> SUFFICES ASSUME NEW i \in 1..n - 1, NEW j \in 1..n - 1, g[i] = g[j] PROVE i = j
      OBVIOUS
    <2>1. at(i) \in 1..n /\ at(j) \in 1..n /\ f[at(i)] = f[at(j)]
      <3>1. i \in 0..n /\ j \in 0..n  OBVIOUS
      <3> QED  BY <3>1, <1>7
    <2> HIDE DEF at
    <2>2. at(i) = at(j)  BY <2>1 DEF Ring
    <2> QED  BY <2>2 DEF at
  <1>11. \A i \in 0..n - 1 : next'[g[i]] = g[i + 1] /\ prev'[g[i + 1]] = g[i]
    <2> SUFFICES ASSUME NEW i \in 0..n - 1
                 PROVE  next'[g[i]] = g[i + 1] /\ prev'[g[i + 1]] = g[i]
      OBVIOUS
    <2>1. CASE i = k - 1
      <3>1. g[i] = f[k - 1] /\ g[i + 1] = f[k + 1]  BY <2>1, <1>3
      <3> QED  BY <3>1
    <2>2. CASE i # k - 1
      <3>1. /\ at(i) \in 0..n /\ at(i + 1) = at(i) + 1
            /\ at(i) # k - 1 /\ at(i) # k /\ at(i) + 1 # k + 1 /\ at(i) + 1 # k
            /\ g[i] = f[at(i)] /\ g[i + 1] = f[at(i) + 1]
        <4>1. i \in 0..n /\ i + 1 \in 0..n  OBVIOUS
        <4>2. at(i + 1) = at(i) + 1 /\ at(i) \in 0..n /\ at(i) # k - 1  BY <2>2
        <4>3. at(i) # k /\ g[i] = f[at(i)] /\ g[i + 1] = f[at(i + 1)]  BY <4>1, <1>7
        <4> HIDE DEF at
        <4> QED  BY <4>2, <4>3
      <3> DEFINE m == at(i)
      <3> HIDE DEF m
      <3>2. /\ m \in 0..n /\ m # k - 1 /\ m # k /\ m + 1 # k + 1 /\ m + 1 # k
            /\ g[i] = f[m] /\ g[i + 1] = f[m + 1]
        BY <3>1 DEF m
      <3>3. f[m] \in Address \ {f[k - 1], f[k]}
        <4>1. m \in 0..n + 1 /\ k - 1 \in 0..n + 1 /\ k \in 0..n + 1 /\ m < n + 1 /\ k - 1 < n + 1 /\ 0 < k /\ k < n + 1
          BY <3>2
        <4>2. f[m] # f[k - 1]  BY <4>1, <3>2, <1>6
        <4>3. f[m] # f[k]  BY <4>1, <3>2, <1>6
        <4> QED  BY <4>1, <4>2, <4>3, <1>1
      <3>4. f[m + 1] \in Address \ {f[k + 1], f[k]}
        <4>1. m + 1 \in 0..n + 1 /\ k + 1 \in 0..n + 1 /\ k \in 0..n + 1 /\ 0 < m + 1 /\ 0 < k + 1 /\ 0 < k
          BY <3>2
        <4>2. f[m + 1] # f[k + 1]  BY <4>1, <3>2, <1>6
        <4>3. f[m + 1] # f[k]  BY <4>1, <3>2, <1>6
        <4> QED  BY <4>1, <4>2, <4>3, <1>1
      <3>5. next[f[m]] = f[m + 1] /\ prev[f[m + 1]] = f[m]
        BY <3>2 DEF Ring
      <3> QED  BY <3>2, <3>3, <3>4, <3>5
    <2> QED  BY <2>1, <2>2
  <1> HIDE DEF at
  <1> QED
    BY <1>a, <1>0, <1>2, <1>4, <1>8, <1>9, <1>10, <1>11 DEF Ring

\* What happens to the nodes outside of the list does not matter.
LEMMA RingKept ==
    ASSUME TypeOK, NEW n \in Nat, NEW f, Ring(f, n), InList' = InList,
           \A b \in InList \cup {nil} : next'[b] = next[b] /\ prev'[b] = prev[b]
    PROVE  Ring(f, n)'
  <1>1. \A i \in 0..n + 1 : f[i] \in InList \cup {nil}
    <2>1. \A i \in 0..n + 1 : i = 0 \/ i = n + 1 \/ i \in 1..n  OBVIOUS
    <2> QED  BY <2>1 DEF Ring
  <1>2. \A i \in 0..n : i \in 0..n + 1 /\ i + 1 \in 0..n + 1  OBVIOUS
  <1>3. \A i \in 0..n : next'[f[i]] = f[i + 1] /\ prev'[f[i + 1]] = f[i]
    BY <1>1, <1>2 DEF Ring
  <1> QED  BY <1>3 DEF Ring

LEMMA RestKept ==
    ASSUME TypeOK, NEW n \in Nat, NEW f, Rest(f, n), InList' = InList, UNCHANGED cursor,
           \A b \in InList : next'[b] = next[b]
    PROVE  Rest(f, n)'
  <1>1. \A i \in 1..n : next'[f[i]] = f[i + 1]  BY DEF Rest
  <1>2. node # nil => node \in InList
    <2>1. n = 0 \/ 1 \in 1..n  OBVIOUS
    <2> QED  BY <2>1 DEF Rest
  <1> QED  BY <1>1, <1>2 DEF Rest, cursor

\* The sentinel is a neighbour of nodes of the list, unless there are none.
LEMMA Ends ==
    ASSUME TypeOK, RingInv, mode = "open", InList # {}
    PROVE  next[nil] \in InList /\ prev[nil] \in InList
  <1>1. PICK n \in Nat : \E f \in [0..n + 1 -> Address] : Ring(f, n)  BY DEF RingInv
  <1>2. PICK f \in [0..n + 1 -> Address] : Ring(f, n)  BY <1>1
  <1>3. n # 0  BY <1>2 DEF Ring
  <1>4. 1 \in 1..n /\ n \in 1..n /\ 0 \in 0..n /\ n \in 0..n  BY <1>3
  <1>5. next[nil] = f[1] /\ prev[nil] = f[n]
    <2>1. next[f[0]] = f[0 + 1] /\ prev[f[n + 1]] = f[n]  BY <1>2, <1>4 DEF Ring
    <2> QED  BY <2>1, <1>2 DEF Ring
  <1> QED  BY <1>2, <1>4, <1>5 DEF Ring

\* A function that takes a node takes one of the list.
LEMMA Taken ==
    ASSUME TypeOK, SizeInv, RingInv, NEW a, NEW call, Take(a, call),
           a \in InList \/ a = next[nil] \/ a = prev[nil]
    PROVE  a \in InList /\ mode = "open" /\ size # 0
  <1>1. mode = "open" /\ size # 0  BY DEF Take, Empty
  <1>2. InList \in SUBSET Node  BY DEF InList, TypeOK
  <1>3. InList # {}  BY <1>1, <1>2, NodesFinite DEF SizeInv
  <1> QED  BY <1>1, <1>3, Ends

-----------------------------------------------------------------------------
LEMMA Initially == Init => ListInv
  <1> SUFFICES ASSUME Init PROVE ListInv  OBVIOUS
  <1>1. Cardinality(Node) \in Nat  BY NodesFinite
  <1>2. TypeOK
    BY <1>1 DEF Init, TypeOK, Address, Calls
  <1>3. SizeInv /\ RingInv  BY DEF Init, SizeInv, RingInv, InList
  <1>4. KeysOwned  BY DEF Init, KeysOwned
  <1> QED  BY <1>2, <1>3, <1>4 DEF ListInv

\* Between two calls, or two turns of the loop of list_destroy(), the number of
\* nodes and the size change together.
LEMMA SizeStep == ListInv /\ [Next]_vars => SizeInv' /\ size' \in 0..Cardinality(Node)
  <1> SUFFICES ASSUME ListInv, [Next]_vars PROVE SizeInv' /\ size' \in 0..Cardinality(Node)
    OBVIOUS
  <1>0. /\ TypeOK /\ SizeInv /\ RingInv /\ InList \in SUBSET Node
        /\ Cardinality(Node) \in Nat /\ size \in 0..Cardinality(Node)
    BY NodesFinite DEF ListInv, TypeOK, InList
  <1>1. ASSUME NEW a \in InList, mode = "open", InList' = InList \ {a}, size' = size - 1,
               UNCHANGED mode
        PROVE  SizeInv' /\ size' \in 0..Cardinality(Node)
    <2>1. Cardinality(InList') = Cardinality(InList) - 1
      BY <1>0, <1>1, NodesFinite, FS_RemoveElement
    <2>2. InList' \in SUBSET Node  BY <1>0, <1>1
    <2>3. Cardinality(InList') \in 0..Cardinality(Node)  BY <2>2, NodesFinite
    <2> QED  BY <2>1, <2>3, <1>0, <1>1 DEF SizeInv
  <1>2. ASSUME UNCHANGED <<size, mode>>, InList' = InList
        PROVE  SizeInv' /\ size' \in 0..Cardinality(Node)
    BY <1>0, <1>2 DEF SizeInv
  <1>3. ASSUME NEW a, NEW call, Take(a, call), a \in InList \/ a = next[nil] \/ a = prev[nil]
        PROVE  SizeInv' /\ size' \in 0..Cardinality(Node)
    <2>1. a \in InList /\ mode = "open"  BY <1>0, <1>3, Taken
    <2>2. InList' = InList \ {a}  BY <1>3 DEF Take, InList
    <2> QED  BY <2>1, <2>2, <1>3, <1>1 DEF Take
  <1>4. CASE Create
    <2>1. Cardinality(InList) = 0  BY <1>4, <1>0, NodesFinite DEF Create, RingInv
    <2> QED  BY <2>1, <1>4, <1>0 DEF Create, SizeInv, InList
  <1>5. ASSUME NEW k \in Key, Insert(k) \/ Push(k)
        PROVE  SizeInv' /\ size' \in 0..Cardinality(Node)
    <2>1. PICK a \in Node \ alive : CreateNode(a, k)  BY <1>5 DEF Insert, Push
    <2>2. InList' = InList \cup {a} /\ a \notin InList /\ mode = "open"
      BY <2>1, <1>0, <1>5 DEF CreateNode, InList, TypeOK, Insert, Push
    <2>3. Cardinality(InList') = Cardinality(InList) + 1
      BY <2>2, <1>0, NodesFinite, FS_AddElement
    <2>4. InList' \in SUBSET Node  BY <2>2, <1>0
    <2>5. Cardinality(InList') \in 0..Cardinality(Node)  BY <2>4, NodesFinite
    <2> QED  BY <2>1, <2>2, <2>3, <2>5, <1>0 DEF SizeInv, CreateNode
  <1>6. ASSUME NEW k \in Key, InsertFails(k) \/ FreeKey(k) \/ TakeNothing
        PROVE  SizeInv' /\ size' \in 0..Cardinality(Node)
    BY <1>6, <1>2 DEF InsertFails, FreeKey, TakeNothing, InList
  <1>7. ASSUME NEW a \in Node, Delete(a)
        PROVE  SizeInv' /\ size' \in 0..Cardinality(Node)
    BY <1>7, <1>1 DEF Delete, InList
  <1>8. ASSUME NEW a \in Node, FreeNode(a)
        PROVE  SizeInv' /\ size' \in 0..Cardinality(Node)
    BY <1>8, <1>2 DEF FreeNode, InList
  <1>9. CASE \E a \in Node : RemoveNode(a)
    BY <1>9, <1>3 DEF RemoveNode
  <1>10. CASE Shift \/ Pop
    BY <1>10, <1>3 DEF Shift, Pop
  <1>11. CASE TakeNothing
    BY <1>11, <1>2 DEF TakeNothing, InList
  <1>12. CASE Destroy \/ DestroyNode \/ DestroyEnd
    BY <1>12, <1>0 DEF Destroy, DestroyNode, DestroyEnd, SizeInv
  <1>13. CASE UNCHANGED vars
    BY <1>13, <1>2 DEF vars, InList
  <1> QED
    BY <1>4, <1>5, <1>6, <1>7, <1>8, <1>9, <1>10, <1>11, <1>12, <1>13 DEF Next

LEMMA TypeStep == ListInv /\ [Next]_vars => TypeOK'
  <1> SUFFICES ASSUME ListInv, [Next]_vars PROVE TypeOK'  OBVIOUS
  <1>0. /\ TypeOK /\ SizeInv /\ RingInv /\ InList \in SUBSET Node
    BY DEF ListInv, TypeOK, InList
  <1>1. size' \in 0..Cardinality(Node)  BY SizeStep
  <1>2. nil \in Address /\ next[nil] \in Address /\ prev[nil] \in Address
    BY <1>0 DEF Address, TypeOK
  <1>3. ASSUME NEW a, NEW call \in Calls, Take(a, call), a \in InList \/ a = next[nil] \/ a = prev[nil]
        PROVE  TypeOK'
    <2>1. a \in InList /\ a \in Address  BY <1>0, <1>3, Taken DEF Address
    <2>2. key[a] \in Key  BY <2>1, <1>0, <1>3 DEF Take, TypeOK
    <2>3. next[a] \in Address /\ prev[a] \in Address  BY <2>1, <1>0 DEF TypeOK
    <2>4. loose' \subseteq alive' /\ alive' \subseteq Node
      BY <2>1, <1>0, <1>3 DEF Take, InList, TypeOK
    <2>5. held' \subseteq Key /\ freed' \subseteq Key
      BY <2>2, <1>0, <1>3 DEF Take, Returned, TypeOK
    <2>6. /\ next' \in [Address -> Address] /\ prev' \in [Address -> Address]
          /\ key' \in [Address -> Key \cup {Null}]
      BY <2>1, <2>3, <1>0, <1>2, <1>3 DEF Take, Bypassed, TypeOK
    <2>7. ret'.call \in Calls /\ ret'.got \in Key \cup {Null, "0", "-1"}
      BY <2>2, <1>3 DEF Take, Returns
    <2>8. mode' \in {"none", "open", "destroy"} /\ node' \in Address /\ lahead' \in Address
      BY <1>0, <1>3 DEF Take, cursor, TypeOK
    <2> QED  BY <1>1, <2>4, <2>5, <2>6, <2>7, <2>8 DEF TypeOK
  <1>4. CASE Create
    BY <1>4, <1>0, <1>1, <1>2 DEF Create, TypeOK, cursor
  <1>5. ASSUME NEW k \in Key, Insert(k) \/ Push(k)
        PROVE  TypeOK'
    <2>1. PICK a \in Node \ alive :
             /\ CreateNode(a, k)
             /\ \/ /\ next' = [next EXCEPT ![a] = next[nil], ![nil] = a]
                   /\ prev' = [prev EXCEPT ![next[nil]] = a, ![a] = nil]
                   /\ Returns("list_insert", "0")
                \/ /\ prev' = [prev EXCEPT ![a] = prev[nil], ![nil] = a]
                   /\ next' = [next EXCEPT ![prev[nil]] = a, ![a] = nil]
                   /\ Returns("list_push", "0")
      BY <1>5 DEF Insert, Push
    <2>2. a \in Address  BY DEF Address
    <2>3. next' \in [Address -> Address] /\ prev' \in [Address -> Address]
      BY <2>1, <2>2, <1>0, <1>2 DEF TypeOK
    <2> QED  BY <2>1, <2>2, <2>3, <1>0, <1>1 DEF CreateNode, cursor, Returns, Calls, TypeOK
  <1>6. ASSUME NEW k \in Key, InsertFails(k) \/ FreeKey(k)
        PROVE  TypeOK'
    BY <1>6, <1>0, <1>1 DEF InsertFails, FreeKey, links, cursor, Returns, Calls, TypeOK
  <1>7. ASSUME NEW a \in Node, Delete(a)
        PROVE  TypeOK'
    <2>1. a \in Address /\ key[a] \in Key /\ next[a] \in Address /\ prev[a] \in Address
      BY <1>7, <1>0 DEF Address, Delete, TypeOK
    <2>2. next' \in [Address -> Address] /\ prev' \in [Address -> Address]
      BY <2>1, <1>7, <1>0 DEF Delete, Bypassed, TypeOK
    <2>3. loose' \subseteq alive'  BY <1>7, <1>0 DEF Delete, InList, TypeOK
    <2> QED  BY <2>1, <2>2, <2>3, <1>7, <1>0, <1>1 DEF Delete, cursor, Returns, Calls, TypeOK
  <1>8. ASSUME NEW a \in Node, FreeNode(a)
        PROVE  TypeOK'
    <2>1. a \in Address  BY DEF Address
    <2>2. held' \subseteq Key \cup {Null} /\ (key[a] \in Key => held' \subseteq Key)
      BY <2>1, <1>8, <1>0 DEF FreeNode, TypeOK
    <2>3. key[a] \in Key
      BY <1>8, <1>0 DEF FreeNode, ListInv, KeysOwned, TypeOK
    <2> QED  BY <2>1, <2>2, <2>3, <1>8, <1>0, <1>1, <1>2 DEF FreeNode, cursor, TypeOK
  <1>9. CASE \E a \in Node : RemoveNode(a)
    BY <1>9, <1>3 DEF RemoveNode, Calls
  <1>10. CASE Shift \/ Pop
    BY <1>10, <1>3 DEF Shift, Pop, Calls
  <1>11. CASE TakeNothing
    BY <1>11, <1>0, <1>1 DEF TakeNothing, links, cursor, Returns, Calls, TypeOK
  <1>12. CASE Destroy
    BY <1>12, <1>0, <1>1, <1>2 DEF Destroy, links, TypeOK
  <1>13. CASE DestroyNode
    <2>1. node \in InList
      BY <1>13, <1>0 DEF DestroyNode, RingInv, Rest
    <2>2. key[node] \in Key /\ node \in Address /\ lahead \in Address /\ next[lahead] \in Address
      BY <2>1, <1>0 DEF InList, ListInv, KeysOwned, TypeOK
    <2>3. loose' \subseteq alive' /\ alive' \subseteq Node
      BY <2>1, <1>13, <1>0 DEF DestroyNode, InList, TypeOK
    <2> QED  BY <2>2, <2>3, <1>13, <1>0, <1>1, <1>2 DEF DestroyNode, TypeOK
  <1>14. CASE DestroyEnd
    BY <1>14, <1>0, <1>1, <1>2 DEF DestroyEnd, links, TypeOK
  <1>15. CASE UNCHANGED vars
    BY <1>15, <1>0, <1>1 DEF vars, links, cursor, TypeOK
  <1> QED
    BY <1>4, <1>5, <1>6, <1>7, <1>8, <1>9, <1>10, <1>11, <1>12, <1>13, <1>14, <1>15 DEF Next

LEMMA KeysStep == ListInv /\ [Next]_vars => KeysOwned'
  <1> SUFFICES ASSUME ListInv, [Next]_vars PROVE KeysOwned'  OBVIOUS
  <1>0. /\ TypeOK /\ SizeInv /\ RingInv /\ KeysOwned /\ InList \subseteq alive
        /\ \A a \in alive : a \in Address /\ key[a] \in Key /\ key[a] \notin held \cup freed
    BY DEF ListInv, TypeOK, InList, KeysOwned, Address
  <1>1. ASSUME UNCHANGED <<key, alive, held, freed>> PROVE KeysOwned'
    BY <1>0, <1>1 DEF KeysOwned
  <1>2. ASSUME NEW a \in alive, alive' = alive \ {a}, key' = [key EXCEPT ![a] = Null],
               \/ held' = held \cup {key[a]} /\ freed' = freed
               \/ freed' = freed \cup {key[a]} /\ held' = held
        PROVE  KeysOwned'
    <2>1. \A b \in alive' : b \in alive /\ b # a /\ key'[b] = key[b]
      BY <1>0, <1>2 DEF TypeOK
    <2>2. held' \cap freed' = {}  BY <1>0, <1>2 DEF KeysOwned
    <2>3. \A m, n \in alive' : key'[m] = key'[n] => m = n  BY <2>1, <1>0 DEF KeysOwned
    <2>4. Key \ (held' \cup freed') = (Key \ (held \cup freed)) \ {key[a]}
      BY <1>0, <1>2
    <2>5. {key'[n] : n \in alive'} = {key[n] : n \in alive} \ {key[a]}
      <3>1. ASSUME NEW n \in alive' PROVE key'[n] \in {key[m] : m \in alive} \ {key[a]}
        BY <3>1, <2>1, <1>0, <1>2 DEF KeysOwned
      <3>2. ASSUME NEW n \in alive, key[n] # key[a] PROVE key[n] \in {key'[m] : m \in alive'}
        <4>1. n \in alive' /\ key'[n] = key[n]  BY <3>2, <2>1, <1>2
        <4> QED  BY <4>1
      <3> QED  BY <3>1, <3>2
    <2> QED  BY <2>2, <2>3, <2>4, <2>5, <1>0 DEF KeysOwned
  <1>3. CASE Create
    <2>1. \A a \in alive : key'[a] = key[a]
      BY <1>3, <1>0, NodeAssumption DEF Create, TypeOK
    <2>2. alive' = alive /\ held' = held /\ freed' = freed  BY <1>3 DEF Create
    <2>3. {key'[n] : n \in alive'} = {key[n] : n \in alive}  BY <2>1, <2>2
    <2> QED  BY <2>1, <2>2, <2>3, <1>0 DEF KeysOwned
  <1>4. ASSUME NEW k \in Key, Insert(k) \/ Push(k)
        PROVE  KeysOwned'
    <2>1. PICK a \in Node \ alive : CreateNode(a, k) /\ k \in held \cup freed
      BY <1>4 DEF Insert, Push, Offered
    <2>2. /\ alive' = alive \cup {a} /\ key' = [key EXCEPT ![a] = k]
          /\ held' = held \ {k} /\ freed' = freed \ {k}
      BY <2>1 DEF CreateNode
    <2>3. key'[a] = k /\ \A b \in alive : key'[b] = key[b] /\ key[b] # k
      BY <2>1, <2>2, <1>0 DEF TypeOK, Address
    <2>4. {key'[n] : n \in alive'} = {key[n] : n \in alive} \cup {k}
      <3>1. ASSUME NEW n \in alive' PROVE key'[n] \in {key[m] : m \in alive} \cup {k}
        BY <2>2, <2>3
      <3>2. ASSUME NEW n \in alive PROVE key[n] \in {key'[m] : m \in alive'}
        <4>1. n \in alive' /\ key'[n] = key[n]  BY <2>2, <2>3
        <4> QED  BY <4>1
      <3>3. k \in {key'[m] : m \in alive'}
        <4>1. a \in alive' /\ key'[a] = k  BY <2>2, <2>3
        <4> QED  BY <4>1
      <3> QED  BY <3>1, <3>2, <3>3
    <2>5. Key \ (held' \cup freed') = (Key \ (held \cup freed)) \cup {k}
      BY <2>2
    <2>6. \A m, n \in alive' : key'[m] = key'[n] => m = n
      BY <2>2, <2>3, <1>0 DEF KeysOwned
    <2> QED  BY <2>2, <2>4, <2>5, <2>6, <1>0 DEF KeysOwned
  <1>5. ASSUME NEW k \in Key, InsertFails(k) \/ FreeKey(k)
        PROVE  KeysOwned'
    <2>1. /\ k \in held \cup freed /\ UNCHANGED <<key, alive>>
          /\ held' \cup freed' = held \cup freed /\ held' \cap freed' = {}
      BY <1>5, <1>0 DEF InsertFails, FreeKey, Offered, links, KeysOwned
    <2> QED  BY <2>1, <1>0 DEF KeysOwned
  <1>6. ASSUME NEW a, NEW call, Take(a, call), a \in InList \/ a = next[nil] \/ a = prev[nil]
        PROVE  KeysOwned'
    <2>1. a \in alive  BY <1>0, <1>6, Taken
    <2> QED  BY <2>1, <1>6, <1>2 DEF Take, Returned
  <1>7. ASSUME NEW a \in Node, Delete(a) PROVE KeysOwned'
    BY <1>7, <1>1 DEF Delete
  <1>8. ASSUME NEW a \in Node, FreeNode(a) PROVE KeysOwned'
    <2>1. a \in alive  BY <1>8, <1>0 DEF FreeNode, TypeOK
    <2> QED  BY <2>1, <1>8, <1>2 DEF FreeNode
  <1>9. CASE \E a \in Node : RemoveNode(a)
    BY <1>9, <1>6 DEF RemoveNode
  <1>10. CASE Shift \/ Pop
    BY <1>10, <1>6 DEF Shift, Pop
  <1>11. CASE TakeNothing \/ Destroy \/ DestroyEnd \/ UNCHANGED vars
    BY <1>11, <1>1 DEF TakeNothing, Destroy, DestroyEnd, vars, links
  <1>12. CASE DestroyNode
    <2>1. node \in alive  BY <1>12, <1>0 DEF DestroyNode, RingInv, Rest
    <2> QED  BY <2>1, <1>12, <1>2 DEF DestroyNode
  <1> QED
    BY <1>3, <1>4, <1>5, <1>7, <1>8, <1>9, <1>10, <1>11, <1>12 DEF Next

\* What the functions do to the enumeration.
LEMMA InsertGrows ==
    ASSUME TypeOK, NEW n \in Nat, NEW f, Ring(f, n), NEW k \in Key, Insert(k)
    PROVE  \E a \in Node \ alive : CreateNode(a, k) /\ Ring(Grown(f, n, 0, a), n + 1)'
  <1>0. nil \in Address  BY DEF Address
  <1>1. f[0] = nil /\ 0 \in 0..n /\ next[nil] = f[0 + 1]
    <2>1. f[0] = nil /\ 0 \in 0..n  BY DEF Ring
    <2>2. next[f[0]] = f[0 + 1]  BY <2>1 DEF Ring
    <2> QED  BY <2>1, <2>2
  <1>2. next[nil] \in Address /\ prev[nil] \in Address  BY <1>0 DEF TypeOK
  <1>3. PICK a \in Node \ alive :
           /\ CreateNode(a, k)
           /\ next' = [next EXCEPT ![a] = next[nil], ![nil] = a]
           /\ prev' = [prev EXCEPT ![next[nil]] = a, ![a] = nil]
    BY DEF Insert
  <1>4. a \in Address /\ a # nil  BY NodeAssumption DEF Address
  <1>5. next[nil] # a
    <2>1. n = 0 \/ 1 \in 1..n  OBVIOUS
    <2>2. next[nil] \in InList \cup {nil}  BY <1>1, <2>1 DEF Ring
    <2> QED  BY <2>2, <1>3, <1>4 DEF InList
  <1>6. /\ next'[a] = f[0 + 1] /\ next'[f[0]] = a
        /\ prev'[a] = f[0] /\ prev'[f[0 + 1]] = a
        /\ \A b \in Address \ {a, f[0]} : next'[b] = next[b]
        /\ \A b \in Address \ {a, f[0 + 1]} : prev'[b] = prev[b]
    BY <1>0, <1>1, <1>2, <1>3, <1>4, <1>5 DEF TypeOK
  <1>7. alive' = alive \cup {a} /\ UNCHANGED loose  BY <1>3 DEF CreateNode
  <1>8. Ring(Grown(f, n, 0, a), n + 1)'  BY <1>1, <1>6, <1>7, RingGrows
  <1> QED  BY <1>3, <1>8

LEMMA PushGrows ==
    ASSUME TypeOK, NEW n \in Nat, NEW f, Ring(f, n), NEW k \in Key, Push(k)
    PROVE  \E a \in Node \ alive : CreateNode(a, k) /\ Ring(Grown(f, n, n, a), n + 1)'
  <1>0. nil \in Address  BY DEF Address
  <1>1. f[n + 1] = nil /\ n \in 0..n /\ prev[nil] = f[n]
    <2>1. f[n + 1] = nil /\ n \in 0..n  BY DEF Ring
    <2>2. prev[f[n + 1]] = f[n]  BY <2>1 DEF Ring
    <2> QED  BY <2>1, <2>2
  <1>2. next[nil] \in Address /\ prev[nil] \in Address  BY <1>0 DEF TypeOK
  <1>3. PICK a \in Node \ alive :
           /\ CreateNode(a, k)
           /\ prev' = [prev EXCEPT ![a] = prev[nil], ![nil] = a]
           /\ next' = [next EXCEPT ![prev[nil]] = a, ![a] = nil]
    BY DEF Push
  <1>4. a \in Address /\ a # nil  BY NodeAssumption DEF Address
  <1>5. prev[nil] # a
    <2>1. n = 0 \/ n \in 1..n  OBVIOUS
    <2>2. prev[nil] \in InList \cup {nil}  BY <1>1, <2>1 DEF Ring
    <2> QED  BY <2>2, <1>3, <1>4 DEF InList
  <1>6. /\ next'[a] = f[n + 1] /\ next'[f[n]] = a
        /\ prev'[a] = f[n] /\ prev'[f[n + 1]] = a
        /\ \A b \in Address \ {a, f[n]} : next'[b] = next[b]
        /\ \A b \in Address \ {a, f[n + 1]} : prev'[b] = prev[b]
    BY <1>0, <1>1, <1>2, <1>3, <1>4, <1>5 DEF TypeOK
  <1>7. alive' = alive \cup {a} /\ UNCHANGED loose  BY <1>3 DEF CreateNode
  <1>8. Ring(Grown(f, n, n, a), n + 1)'  BY <1>1, <1>6, <1>7, RingGrows
  <1> QED  BY <1>3, <1>8

LEMMA BypassShrinks ==
    ASSUME TypeOK, NEW n \in Nat, NEW f, Ring(f, n), NEW a \in InList,
           Delete(a) \/ \E call : Take(a, call)
    PROVE  \E k \in 1..n : f[k] = a /\ Ring(Shrunk(f, n, k), n - 1)'
  <1>0. InList \subseteq Address /\ nil \notin InList
    BY NodeAssumption DEF TypeOK, InList, Address
  <1>1. PICK k \in 1..n : f[k] = a  BY DEF Ring
  <1>2. k \in 0..n /\ k - 1 \in 0..n /\ (k - 1) + 1 = k  OBVIOUS
  <1>3. next[a] = f[k + 1] /\ prev[a] = f[k - 1]
    <2>1. next[f[k]] = f[k + 1]  BY <1>2 DEF Ring
    <2>2. prev[f[(k - 1) + 1]] = f[k - 1]  BY <1>2 DEF Ring
    <2> QED  BY <2>1, <2>2, <1>1, <1>2
  <1>4. f[0] = nil /\ f[n + 1] = nil /\ f[k] # nil  BY <1>0, <1>1 DEF Ring
  <1>5. next[a] # a
    <2> SUFFICES ASSUME next[a] = a PROVE FALSE  OBVIOUS
    <2>1. f[k + 1] = f[k]  BY <1>1, <1>3
    <2>2. k + 1 # n + 1  BY <2>1, <1>4
    <2>3. k + 1 \in 1..n  BY <2>2
    <2>4. k + 1 = k  BY <2>1, <2>3 DEF Ring
    <2> QED  BY <2>4
  <1>6. prev[a] # a
    <2> SUFFICES ASSUME prev[a] = a PROVE FALSE  OBVIOUS
    <2>1. f[k - 1] = f[k]  BY <1>1, <1>3
    <2>2. k - 1 # 0  BY <2>1, <1>4
    <2>3. k - 1 \in 1..n  BY <2>2
    <2>4. k - 1 = k  BY <2>1, <2>3 DEF Ring
    <2> QED  BY <2>4
  <1>7. next[a] \in Address /\ prev[a] \in Address /\ a \in Address  BY <1>0 DEF TypeOK
  <1>8. /\ InList' = InList \ {a}
        /\ next'[prev[a]] = next[a] /\ prev'[next[a]] = prev[a]
        /\ \A b \in Address \ {prev[a], a} : next'[b] = next[b]
        /\ \A b \in Address \ {next[a], a} : prev'[b] = prev[b]
    <2>1. CASE Delete(a)
      <3>1. /\ InList' = InList \ {a}
            /\ next' = [next EXCEPT ![prev[a]] = next[a]]
            /\ prev' = [prev EXCEPT ![next[a]] = prev[a]]
        BY <2>1 DEF Delete, InList, Bypassed
      <3> QED  BY <3>1, <1>7 DEF TypeOK
    <2>2. CASE \E call : Take(a, call)
      <3>1. /\ InList' = InList \ {a}
            /\ next' = [[next EXCEPT ![prev[a]] = next[a]] EXCEPT ![a] = nil]
            /\ prev' = [[prev EXCEPT ![next[a]] = prev[a]] EXCEPT ![a] = nil]
        BY <2>2 DEF Take, InList, Bypassed
      <3> QED  BY <3>1, <1>5, <1>6, <1>7 DEF TypeOK
    <2> QED  BY <2>1, <2>2
  <1>9. Ring(Shrunk(f, n, k), n - 1)'  BY <1>1, <1>3, <1>8, RingShrinks
  <1> QED  BY <1>1, <1>9

\* Every step keeps the enumeration, or has another one.
LEMMA RingStep == ListInv /\ [Next]_vars => RingInv'
  <1> SUFFICES ASSUME ListInv, [Next]_vars PROVE RingInv'  OBVIOUS
  <1>0. /\ TypeOK /\ SizeInv /\ RingInv
        /\ InList \subseteq Node /\ InList \subseteq Address /\ nil \in Address /\ nil \notin InList
    BY NodeAssumption DEF ListInv, TypeOK, InList, Address
  <1>1. ASSUME UNCHANGED mode, InList' = InList, UNCHANGED cursor,
               \A b \in InList \cup {nil} : next'[b] = next[b] /\ prev'[b] = prev[b]
        PROVE  RingInv'
    <2>1. CASE mode = "open"
      <3>1. PICK n \in Nat : \E f \in [0..n + 1 -> Address] : Ring(f, n)  BY <2>1, <1>0 DEF RingInv
      <3>2. PICK f \in [0..n + 1 -> Address] : Ring(f, n)  BY <3>1
      <3>3. Ring(f, n)'  BY <3>2, <1>0, <1>1, RingKept
      <3> QED  BY <3>3, <2>1, <1>1 DEF RingInv
    <2>2. CASE mode = "destroy"
      <3>1. PICK n \in Nat : \E f \in [1..n + 1 -> Address] : Rest(f, n)  BY <2>2, <1>0 DEF RingInv
      <3>2. PICK f \in [1..n + 1 -> Address] : Rest(f, n)  BY <3>1
      <3>3. Rest(f, n)'  BY <3>2, <1>0, <1>1, RestKept
      <3> QED  BY <3>3, <2>2, <1>1 DEF RingInv
    <2>3. CASE mode = "none"
      BY <2>3, <1>0, <1>1 DEF RingInv
    <2> QED  BY <2>1, <2>2, <2>3, <1>0 DEF TypeOK
  <1>2. ASSUME NEW a \in InList, mode = "open", UNCHANGED mode, Delete(a) \/ \E call : Take(a, call)
        PROVE  RingInv'
    <2>1. PICK n \in Nat : \E f \in [0..n + 1 -> Address] : Ring(f, n)  BY <1>2, <1>0 DEF RingInv
    <2>2. PICK f \in [0..n + 1 -> Address] : Ring(f, n)  BY <2>1
    <2>3. PICK k \in 1..n : Ring(Shrunk(f, n, k), n - 1)'  BY <2>2, <1>0, <1>2, BypassShrinks
    <2>4. n - 1 \in Nat /\ Shrunk(f, n, k) \in [0..(n - 1) + 1 -> Address]  BY <2>3 DEF Ring
    <2> QED  BY <2>3, <2>4, <1>2 DEF RingInv
  <1>3. ASSUME NEW a, NEW call, Take(a, call), a \in InList \/ a = next[nil] \/ a = prev[nil]
        PROVE  RingInv'
    <2>1. a \in InList /\ mode = "open"  BY <1>0, <1>3, Taken
    <2>2. UNCHANGED mode  BY <1>3 DEF Take
    <2> QED  BY <2>1, <2>2, <1>2, <1>3
  <1>4. CASE Create
    <2> DEFINE f == [i \in 0..0 + 1 |-> nil]
    <2>1. InList' = {} /\ next'[nil] = nil /\ prev'[nil] = nil /\ mode' = "open"
      BY <1>4, <1>0 DEF Create, RingInv, InList, TypeOK
    <2>2. f \in [0..0 + 1 -> Address] /\ f[0] = nil /\ f[0 + 1] = nil /\ \A i \in 0..0 : f[i] = nil /\ f[i + 1] = nil
      BY <1>0
    <2> HIDE DEF f
    <2>3. Ring(f, 0)'  BY <2>1, <2>2 DEF Ring
    <2>4. 0 \in Nat  OBVIOUS
    <2> QED  BY <2>1, <2>2, <2>3, <2>4 DEF RingInv
  <1>5. ASSUME NEW k \in Key, Insert(k) \/ Push(k) PROVE RingInv'
    <2>0. mode = "open" /\ mode' = "open"
      BY <1>5 DEF Insert, Push, CreateNode
    <2>1. PICK n \in Nat : \E f \in [0..n + 1 -> Address] : Ring(f, n)  BY <2>0, <1>0 DEF RingInv
    <2>2. PICK f \in [0..n + 1 -> Address] : Ring(f, n)  BY <2>1
    <2>3. \E i \in 0..n, a \in Node \ alive : Ring(Grown(f, n, i, a), n + 1)'
      <3>1. 0 \in 0..n /\ n \in 0..n  OBVIOUS
      <3> QED  BY <3>1, <2>2, <1>0, <1>5, InsertGrows, PushGrows
    <2>4. PICK i \in 0..n, a \in Node \ alive : Ring(Grown(f, n, i, a), n + 1)'  BY <2>3
    <2>5. n + 1 \in Nat /\ Grown(f, n, i, a) \in [0..(n + 1) + 1 -> Address]  BY <2>4 DEF Ring
    <2> QED  BY <2>0, <2>4, <2>5 DEF RingInv
  <1>6. ASSUME NEW k \in Key, InsertFails(k) \/ FreeKey(k) PROVE RingInv'
    BY <1>6, <1>1 DEF InsertFails, FreeKey, links, InList
  <1>7. ASSUME NEW a \in Node, Delete(a) PROVE RingInv'
    BY <1>7, <1>2 DEF Delete
  <1>8. ASSUME NEW a \in Node, FreeNode(a) PROVE RingInv'
    <2>1. a \notin InList \cup {nil} /\ InList' = InList
      BY <1>8, NodeAssumption DEF FreeNode, InList
    <2>2. \A b \in InList \cup {nil} : next'[b] = next[b] /\ prev'[b] = prev[b]
      BY <2>1, <1>8, <1>0 DEF FreeNode, TypeOK
    <2> QED  BY <2>1, <2>2, <1>8, <1>1 DEF FreeNode
  <1>9. CASE \E a \in Node : RemoveNode(a)
    BY <1>9, <1>3 DEF RemoveNode
  <1>10. CASE Shift \/ Pop
    BY <1>10, <1>3 DEF Shift, Pop
  <1>11. CASE TakeNothing \/ UNCHANGED vars
    BY <1>11, <1>1 DEF TakeNothing, vars, links, InList
  <1>12. CASE Destroy
    <2>1. PICK n \in Nat : \E f \in [0..n + 1 -> Address] : Ring(f, n)
      BY <1>12, <1>0 DEF Destroy, RingInv
    <2>2. PICK f \in [0..n + 1 -> Address] : Ring(f, n)  BY <2>1
    <2> DEFINE g == [i \in 1..n + 1 |-> f[i]]
    <2>3. /\ mode' = "destroy" /\ node' = next[nil] /\ lahead' = next[next[nil]]
          /\ next' = next /\ InList' = InList
      BY <1>12 DEF Destroy, links, InList
    <2>4. g \in [1..n + 1 -> Address] /\ \A i \in 1..n + 1 : g[i] = f[i]
      BY <2>2
    <2> HIDE DEF g
    <2>5. g[1] = next[nil] /\ g[n + 1] = nil
      <3>1. 0 \in 0..n /\ 0 + 1 = 1 /\ 1 \in 1..n + 1 /\ n + 1 \in 1..n + 1  OBVIOUS
      <3>2. next[f[0]] = f[0 + 1] /\ f[0] = nil /\ f[n + 1] = nil  BY <2>2, <3>1 DEF Ring
      <3> QED  BY <3>1, <3>2, <2>4
    <2>6. \A i \in 1..n : next[g[i]] = g[i + 1] /\ g[i] \in InList
      <3>1. \A i \in 1..n : i \in 0..n /\ i \in 1..n + 1 /\ i + 1 \in 1..n + 1  OBVIOUS
      <3>2. \A i \in 1..n : next[f[i]] = f[i + 1] /\ f[i] \in InList  BY <3>1, <2>2 DEF Ring
      <3> QED  BY <3>1, <3>2, <2>4
    <2>7. /\ \A a \in InList : \E i \in 1..n : g[i] = a
          /\ \A i, j \in 1..n : g[i] = g[j] => i = j
      <3>1. \A i \in 1..n : i \in 1..n + 1  OBVIOUS
      <3> QED  BY <3>1, <2>2, <2>4 DEF Ring
    <2>8. Rest(g, n)'  BY <2>3, <2>4, <2>5, <2>6, <2>7 DEF Rest
    <2> QED  BY <2>3, <2>4, <2>8 DEF RingInv
  <1>13. CASE DestroyNode
    <2>0. mode = "destroy" /\ mode' = "destroy" /\ node # nil  BY <1>13 DEF DestroyNode
    <2>1. PICK n \in Nat : \E f \in [1..n + 1 -> Address] : Rest(f, n)
      BY <2>0, <1>0 DEF RingInv
    <2>2. PICK f \in [1..n + 1 -> Address] : Rest(f, n)  BY <2>1
    <2>3. n - 1 \in Nat /\ 1 \in 1..n /\ (n - 1) + 1 = n  BY <2>0, <2>2 DEF Rest
    <2> DEFINE g == [i \in 1..(n - 1) + 1 |-> f[i + 1]]
    <2>4. f[1] = node /\ node \in InList /\ lahead = f[2]
      BY <2>0, <2>2, <2>3 DEF Rest
    <2>5. g \in [1..(n - 1) + 1 -> Address] /\ \A i \in 1..n : g[i] = f[i + 1]
      <3>1. \A i \in 1..n : i + 1 \in 1..n + 1  OBVIOUS
      <3> QED  BY <3>1, <2>2, <2>3
    <2> HIDE DEF g
    <2>6. InList' = InList \ {node} /\ \A b \in Address \ {node} : next'[b] = next[b]
      BY <1>13, <1>0 DEF DestroyNode, InList, TypeOK
    <2>7. g[1] = node' /\ g[(n - 1) + 1] = nil
      BY <1>13, <2>2, <2>3, <2>4, <2>5 DEF DestroyNode, Rest
    <2>8. \A i \in 1..n - 1 : next'[g[i]] = g[i + 1] /\ g[i] \in InList'
      <3> SUFFICES ASSUME NEW i \in 1..n - 1 PROVE next'[g[i]] = g[i + 1] /\ g[i] \in InList'
        OBVIOUS
      <3>1. i \in 1..n /\ i + 1 \in 1..n /\ i + 1 # 1  BY <2>3
      <3>2. g[i] = f[i + 1] /\ g[i + 1] = f[(i + 1) + 1]  BY <3>1, <2>5
      <3>3. next[f[i + 1]] = f[(i + 1) + 1] /\ f[i + 1] \in InList /\ f[i + 1] # f[1]
        BY <3>1, <2>2, <2>3 DEF Rest
      <3> QED  BY <3>2, <3>3, <2>4, <2>6, <1>0
    <2>9. \A a \in InList' : \E i \in 1..n - 1 : g[i] = a
      <3> SUFFICES ASSUME NEW a \in InList' PROVE \E i \in 1..n - 1 : g[i] = a  OBVIOUS
      <3>1. PICK j \in 1..n : f[j] = a  BY <2>2, <2>6 DEF Rest
      <3>2. j # 1  BY <3>1, <2>4, <2>6
      <3>3. j - 1 \in 1..n - 1 /\ j - 1 \in 1..n /\ (j - 1) + 1 = j  BY <3>2
      <3> QED  BY <3>1, <3>3, <2>5
    <2>10. \A i, j \in 1..n - 1 : g[i] = g[j] => i = j
      <3> SUFFICES ASSUME NEW i \in 1..n - 1, NEW j \in 1..n - 1, g[i] = g[j] PROVE i = j
        OBVIOUS
      <3>1. i \in 1..n /\ j \in 1..n /\ i + 1 \in 1..n /\ j + 1 \in 1..n  OBVIOUS
      <3>2. f[i + 1] = f[j + 1]  BY <3>1, <2>5
      <3>3. i + 1 = j + 1  BY <3>1, <3>2, <2>2 DEF Rest
      <3> QED  BY <3>3
    <2>11. node' # nil => lahead' = next'[node']
      <3> SUFFICES ASSUME node' # nil PROVE lahead' = next'[node']  OBVIOUS
      <3>1. node' = lahead /\ lahead' = next[lahead]  BY <1>13 DEF DestroyNode
      <3>2. n # 1
        <4>1. n = 1 => f[2] = nil  BY <2>2 DEF Rest
        <4> QED  BY <4>1, <3>1, <2>4
      <3>3. 2 \in 1..n /\ 2 # 1  BY <3>2, <2>3
      <3>4. lahead \in InList /\ lahead # node  BY <3>3, <2>2, <2>3, <2>4 DEF Rest
      <3> QED  BY <3>1, <3>4, <2>6, <1>0
    <2>12. Rest(g, n - 1)'
      BY <2>5, <2>7, <2>8, <2>9, <2>10, <2>11 DEF Rest
    <2> QED  BY <2>0, <2>3, <2>5, <2>12 DEF RingInv
  <1>14. CASE DestroyEnd
    <2>1. PICK n \in Nat : \E f \in [1..n + 1 -> Address] : Rest(f, n)
      BY <1>14, <1>0 DEF DestroyEnd, RingInv
    <2>2. PICK f \in [1..n + 1 -> Address] : Rest(f, n)  BY <2>1
    <2>3. n = 0 \/ 1 \in 1..n  OBVIOUS
    <2>4. InList = {}  BY <1>14, <2>2, <2>3, <1>0 DEF DestroyEnd, Rest
    <2> QED  BY <1>14, <2>4 DEF DestroyEnd, RingInv, InList
  <1> QED
    BY <1>4, <1>5, <1>6, <1>7, <1>8, <1>9, <1>10, <1>11, <1>12, <1>13, <1>14 DEF Next

-----------------------------------------------------------------------------
LEMMA Invariant == Spec => []ListInv
  <1>1. Init => ListInv  BY Initially
  <1>2. ListInv /\ [Next]_vars => ListInv'
    BY SizeStep, TypeStep, KeysStep, RingStep DEF ListInv
  <1> QED  BY <1>1, <1>2, PTL DEF Spec

\* An enumerated list has the right links.
LEMMA RingLinked == ListInv => Linked
  <1> SUFFICES ASSUME ListInv, mode = "open"
               PROVE  /\ \A a \in InList \cup {nil} :
                            /\ next[a] \in InList \cup {nil} /\ prev[a] \in InList \cup {nil}
                            /\ prev[next[a]] = a /\ next[prev[a]] = a
                      /\ \A a \in InList : key[a] # Null
                      /\ size = Cardinality(InList)
    BY DEF Linked
  <1>1. PICK n \in Nat : \E f \in [0..n + 1 -> Address] : Ring(f, n)  BY DEF ListInv, RingInv
  <1>2. PICK f \in [0..n + 1 -> Address] : Ring(f, n)  BY <1>1
  <1>3. \A i \in 0..n + 1 : f[i] \in InList \cup {nil}
    <2>1. \A i \in 0..n + 1 : i = 0 \/ i = n + 1 \/ i \in 1..n  OBVIOUS
    <2> QED  BY <2>1, <1>2 DEF Ring
  <1>4. ASSUME NEW a \in InList \cup {nil}
        PROVE  /\ next[a] \in InList \cup {nil} /\ prev[a] \in InList \cup {nil}
               /\ prev[next[a]] = a /\ next[prev[a]] = a
    <2>1. PICK i \in 0..n : f[i] = a
      <3>1. 0 \in 0..n /\ \A j \in 1..n : j \in 0..n  OBVIOUS
      <3> QED  BY <3>1, <1>2 DEF Ring
    <2>2. PICK j \in 0..n : f[j + 1] = a
      <3>1. n \in 0..n /\ \A k \in 1..n : k - 1 \in 0..n /\ (k - 1) + 1 = k  OBVIOUS
      <3>2. CASE a = nil  BY <3>1, <3>2, <1>2 DEF Ring
      <3>3. CASE a \in InList
        <4>1. PICK k \in 1..n : f[k] = a  BY <3>3, <1>2 DEF Ring
        <4> QED  BY <4>1, <3>1
      <3> QED  BY <3>2, <3>3
    <2>3. next[a] = f[i + 1] /\ prev[f[i + 1]] = a  BY <2>1, <1>2 DEF Ring
    <2>4. prev[a] = f[j] /\ next[f[j]] = a  BY <2>2, <1>2 DEF Ring
    <2>5. i + 1 \in 0..n + 1 /\ j \in 0..n + 1  OBVIOUS
    <2> QED  BY <2>3, <2>4, <2>5, <1>3
  <1>5. \A a \in InList : key[a] # Null
    BY KeyAssumption DEF ListInv, KeysOwned, InList, TypeOK
  <1>6. size = Cardinality(InList)  BY DEF ListInv, SizeInv
  <1> QED  BY <1>4, <1>5, <1>6

LEMMA RestKnown == ListInv => NoUseAfterFree
  <1>1. ASSUME ListInv, mode = "destroy", node # nil
        PROVE  {node, lahead} \subseteq InList \cup {nil}
    <2>1. PICK n \in Nat : \E f \in [1..n + 1 -> Address] : Rest(f, n)  BY <1>1 DEF ListInv, RingInv
    <2>2. PICK f \in [1..n + 1 -> Address] : Rest(f, n)  BY <2>1
    <2>3. 1 \in 1..n /\ (n = 1 \/ 2 \in 1..n)  BY <2>2, <1>1 DEF Rest
    <2>4. node \in InList /\ lahead = f[2]  BY <2>2, <2>3, <1>1 DEF Rest
    <2>5. f[2] \in InList \cup {nil}  BY <2>2, <2>3 DEF Rest
    <2> QED  BY <2>4, <2>5
  <1>2. ASSUME ListInv, mode = "destroy", node = nil
        PROVE  InList = {}
    <2>1. PICK n \in Nat : \E f \in [1..n + 1 -> Address] : Rest(f, n)  BY <1>2 DEF ListInv, RingInv
    <2>2. PICK f \in [1..n + 1 -> Address] : Rest(f, n)  BY <2>1
    <2>3. n = 0 \/ 1 \in 1..n  OBVIOUS
    <2>4. nil \notin InList  BY <1>2, NodeAssumption DEF ListInv, TypeOK, InList
    <2> QED  BY <2>2, <2>3, <2>4, <1>2 DEF Rest
  <1> QED  BY <1>1, <1>2 DEF NoUseAfterFree

\* The variables keep to their types for any number of nodes: in particular no
\* counter of list_size() runs below zero or past the nodes that exist.
THEOREM TypeCorrect == Spec => []TypeOK
  <1>1. ListInv => TypeOK  BY DEF ListInv
  <1> QED  BY <1>1, Invariant, PTL

\* The links of every list are one ring, whatever the functions of lib/list.c
\* did to it: an enumeration from sentinel to sentinel meets each node once, and
\* what list_destroy() has left is the end of such an enumeration.
THEOREM RingAlways == Spec => []RingInv
  <1>1. ListInv => RingInv  BY DEF ListInv
  <1> QED  BY <1>1, Invariant, PTL

\* next and prev are each other's inverse on the nodes of every list, and
\* list_size() counts these.
THEOREM LinksRight == Spec => []Linked
  BY RingLinked, Invariant, PTL

\* list_destroy() stands on nodes that are not freed and leaves none behind.
THEOREM FreesOnce == Spec => []NoUseAfterFree
  BY RestKnown, Invariant, PTL

\* A key has one owner at a time: it is neither lost nor freed twice.
THEOREM KeysHaveOwners == Spec => []KeysOwned
  <1>1. ListInv => KeysOwned  BY DEF ListInv
  <1> QED  BY <1>1, Invariant, PTL
=============================================================================
