-------------------------- MODULE HashTableProofs ---------------------------
(***************************************************************************)
(* Proofs about HashTable, for any keys, hash codes and lengths.           *)
(***************************************************************************)
EXTENDS HashTable, FiniteSetTheorems, TLAPS

-----------------------------------------------------------------------------
(***************************************************************************)
(* Arithmetic of the probes.                                               *)
(***************************************************************************)

LEMMA ModRange == ASSUME NEW x \in Nat, NEW n \in Nat \ {0}
                  PROVE  x % n \in 0..n - 1
  OBVIOUS

LEMMA TimesMonotone == ASSUME NEW n \in Nat \ {0}, NEW a \in Int, NEW b \in Int, a < b
                       PROVE  n * a + n <= n * b
  <1>1. n * a + n = n * (a + 1)  OBVIOUS
  <1>2. a + 1 <= b  OBVIOUS
  <1>3. n * (a + 1) <= n * b  BY <1>2
  <1> QED  BY <1>1, <1>3

\* A number has one remainder.
LEMMA ModUnique == ASSUME NEW n \in Nat \ {0}, NEW d \in Nat, NEW p \in 0..n - 1
                   PROVE  (n * d + p) % n = p
  <1> DEFINE x == n * d + p
  <1> DEFINE e == x \div n
  <1> DEFINE r == x % n
  <1>1. x \in Nat /\ e \in Int /\ r \in 0..n - 1 /\ x = n * e + r
    <2>1. n * d \in Nat  OBVIOUS
    <2>2. x \in Nat  BY <2>1
    <2> HIDE DEF x
    <2> QED  BY <2>2
  <1>2. ~(d < e)  
    <2> SUFFICES ASSUME d < e PROVE FALSE OBVIOUS
    <2>1. n * d + n <= n * e  BY <1>1, TimesMonotone
    <2>2. n * e \in Int /\ n * d \in Int BY <1>1
    <2> QED  BY <1>1, <2>1, <2>2
  <1>3. ~(e < d)
    <2> SUFFICES ASSUME e < d PROVE FALSE OBVIOUS
    <2>1. n * e + n <= n * d  BY <1>1, TimesMonotone
    <2>2. n * e \in Int /\ n * d \in Int BY <1>1
    <2> QED  BY <1>1, <2>1, <2>2
  <1>4. e = d  BY <1>1, <1>2, <1>3
  <1> QED  BY <1>1, <1>4

LEMMA DivMod == ASSUME NEW h \in Nat, NEW n \in Nat \ {0}
                PROVE  h \div n \in Nat /\ h = n * (h \div n) + (h % n)
  OBVIOUS

\* n probes in a row reach every one of n positions.
LEMMA ProbesCover ==
    ASSUME NEW h \in Nat, NEW n \in Nat \ {0}, NEW p \in 0..n - 1
    PROVE  \E i \in Indices(n) : (h + i) % n = p
  <1> DEFINE d == h \div n
  <1> DEFINE r == h % n
  <1>1. d \in Nat /\ r \in 0..n - 1 /\ h = n * d + r  BY DivMod, ModRange
  <1> HIDE DEF d, r
  <1>2. n * d \in Nat /\ n * (d + 1) = n * d + n  BY <1>1
  <1>3. CASE r <= p
    <2>1. p - r \in Indices(n) /\ h + (p - r) = n * d + p  BY <1>1, <1>2, <1>3 DEF Indices
    <2> QED  BY <1>1, <2>1, ModUnique
  <1>4. CASE p < r
    <2>1. p + n - r \in Indices(n) /\ h + (p + n - r) = n * (d + 1) + p
      BY <1>1, <1>2, <1>4 DEF Indices
    <2>2. (n * (d + 1) + p) % n = p  BY <1>1, ModUnique
    <2> QED  BY <2>1, <2>2
  <1> QED  BY <1>1, <1>3, <1>4

LEMMA PositionRange ==
    ASSUME NEW k \in Key, NEW i \in Nat, NEW n \in Nat \ {0}
    PROVE  Position(k, i, n) \in 0..n - 1
  <1>1. HashCode[k] + i \in Nat  BY CodeAssumption
  <1>2. (HashCode[k] + i) % UINT \in Nat  BY <1>1, CodeAssumption, ModRange
  <1> QED  BY <1>2, ModRange DEF Position

LEMMA SmallMod == ASSUME NEW x \in Nat, NEW n \in Nat \ {0}, x < n PROVE x % n = x
  <1>1. x \in 0..n - 1  OBVIOUS
  <1>2. (n * 0 + x) % n = x  BY <1>1, ModUnique
  <1>3. n * 0 + x = x  OBVIOUS
  <1> QED  BY <1>2, <1>3

\* When no sum wraps around, every position is probed.
LEMMA PositionsCovered ==
    ASSUME NEW k \in Key, NEW n \in Nat \ {0}, HashCode[k] + n <= UINT, NEW p \in 0..n - 1
    PROVE  \E i \in Indices(n) : Position(k, i, n) = p
  <1>1. HashCode[k] \in Nat /\ UINT \in Nat \ {0}  BY CodeAssumption
  <1>2. PICK i \in Indices(n) : (HashCode[k] + i) % n = p  BY <1>1, ProbesCover
  <1>3. (HashCode[k] + i) % UINT = HashCode[k] + i
    <2>1. HashCode[k] + i \in Nat /\ HashCode[k] + i < UINT  BY <1>1 DEF Indices
    <2> QED  BY <1>1, <2>1, SmallMod
  <1> QED  BY <1>2, <1>3 DEF Position

\* A set of probe numbers has a least one.
LEMMA LeastIn == ASSUME NEW n \in Nat, NEW S \in SUBSET Indices(n), S # {}
                 PROVE  Least(S) \in S
  <1> DEFINE R == OpToRel(<, Nat)
  <1>1. S \subseteq Nat  BY DEF Indices
  <1>2. \E i \in S : \A j \in S : <<j, i>> \notin R
    <2>1. IsWellFoundedOn(R, Nat)  BY NatLessThanWellFounded
    <2> HIDE DEF R
    <2> QED  BY <1>1, <2>1, WFMin
  <1>3. \A i, j \in Nat : <<j, i>> \notin R => i <= j  BY DEF OpToRel
  <1> HIDE DEF R
  <1>4. \E i \in S : \A j \in S : i <= j  BY <1>1, <1>2, <1>3
  <1> QED  BY <1>4 DEF Least

-----------------------------------------------------------------------------
(***************************************************************************)
(* The inductive invariant.                                                *)
(***************************************************************************)

Full(t, n) == {p \in 0..n - 1 : t[p] # Empty}

LEMMA FullFinite == ASSUME NEW t, NEW n \in Nat
                    PROVE  IsFiniteSet(Full(t, n)) /\ Cardinality(Full(t, n)) \in Nat
  <1>1. IsFiniteSet(0..n - 1)  BY FS_Interval
  <1>2. Full(t, n) \in SUBSET (0..n - 1)  BY DEF Full
  <1>3. IsFiniteSet(Full(t, n))  BY <1>1, <1>2, FS_Subset
  <1> QED  BY <1>3, FS_CardinalityType

TableInv ==
    /\ TypeOK
    /\ length # 0
    /\ length = InitLength \/ length <= MaxLength
    /\ SizeCounts

\* Storing an element keeps the count of the occupied slots.
LEMMA PlaceCounts ==
    ASSUME NEW n \in Nat \ {0}, NEW t \in [0..n - 1 -> Slot],
           size = Cardinality(Full(t, n)),
           NEW k \in Key, NEW v \in Val, Place(t, n, k, v)
    PROVE  /\ table' \in [0..n - 1 -> Slot]
           /\ size' = Cardinality(Full(table', n))
           /\ ret' \in {Ok, Error}
  <1> DEFINE open == {i \in Indices(n) : t[Position(k, i, n)] = Empty}
  <1>1. CASE open = {}
    <2>1. table' = t /\ ret' = Error /\ size' = size  BY <1>1 DEF Place
    <2> QED  BY <2>1
  <1>2. CASE open # {}
    <2> DEFINE pos == Position(k, Least(open), n)
    <2> DEFINE new == [key |-> k, value |-> v]
    <2>1. /\ table' = [t EXCEPT ![pos] = new]
          /\ size' = size + 1
          /\ ret' = Ok
      BY <1>2 DEF Place
    <2>2. Least(open) \in open  BY <1>2, LeastIn
    <2>3. pos \in 0..n - 1 /\ t[pos] = Empty
      <3>1. Least(open) \in Nat /\ t[Position(k, Least(open), n)] = Empty  BY <2>2 DEF Indices
      <3> QED  BY <3>1, PositionRange
    <2>4. new \in Slot /\ new # Empty  BY NullAssumption DEF Slot, Entry, Empty
    <2> HIDE DEF pos, new, open
    <2>5. Full(table', n) = Full(t, n) \cup {pos} /\ pos \notin Full(t, n)
      BY <2>1, <2>3, <2>4 DEF Full
    <2>6. size' = Cardinality(Full(table', n))  BY <2>1, <2>5, FullFinite, FS_AddElement
    <2> QED  BY <2>1, <2>3, <2>4, <2>6
  <1> QED  BY <1>1, <1>2

\* The probe that finds a key is at a slot of the table.
LEMMA HitSlot ==
    ASSUME TypeOK, length # 0, NEW k \in Key, Hits(k) # {}
    PROVE  /\ Position(k, Least(Hits(k)), length) \in 0..length - 1
           /\ Found(k) \in Entry
           /\ Found(k) # Empty
  <1>1. Hits(k) \in SUBSET Indices(length) /\ length \in Nat \ {0}  BY DEF Hits, TypeOK
  <1>2. Least(Hits(k)) \in Hits(k)  BY <1>1, LeastIn
  <1>3. Least(Hits(k)) \in Nat /\ Found(k) # Empty  BY <1>1, <1>2 DEF Hits, Found, Indices
  <1>4. Position(k, Least(Hits(k)), length) \in 0..length - 1  BY <1>1, <1>3, PositionRange
  <1> QED  BY <1>3, <1>4 DEF Found, TypeOK, Slot

LEMMA TableInit == Init => TableInv
  <1> SUFFICES ASSUME Init PROVE TableInv  OBVIOUS
  <1>1. TypeOK /\ length # 0 /\ length = InitLength
    BY LengthAssumption DEF Init, TypeOK, Cleared, Slot
  <1>2. Used = {}  BY DEF Used, Init, Cleared
  <1>3. SizeCounts  BY <1>2, FS_EmptySet DEF SizeCounts, Init
  <1> QED  BY <1>1, <1>3 DEF TableInv

LEMMA TableNext == TableInv /\ [Next]_vars => TableInv'
  <1> SUFFICES ASSUME TableInv, [Next]_vars PROVE TableInv'  OBVIOUS
  <1> USE DEF TableInv
  <1>a. size = Cardinality(Full(table, length))  BY DEF SizeCounts, Used, Full
  <1>b. Increment \in Nat \ {0} /\ InitLength \in Nat \ {0} /\ MaxLength \in Nat
    BY LengthAssumption
  <1>c. length \in Nat /\ size \in Nat /\ table \in [0..length - 1 -> Slot]  BY DEF TypeOK
  <1>1. ASSUME NEW k \in Key, NEW v \in Val, Insert(k, v) PROVE TableInv'
    <2>1. /\ table' \in [0..length - 1 -> Slot]
          /\ size' = Cardinality(Full(table', length))
          /\ ret' \in {Ok, Error}
      BY <1>1, <1>a, <1>c, PlaceCounts DEF Insert
    <2>2. length' = length /\ lost' = lost  BY <1>1 DEF Insert
    <2>3. size' \in Nat  BY <2>1, <1>c, FullFinite
    <2> QED  BY <2>1, <2>2, <2>3 DEF TypeOK, SizeCounts, Used, Full
  <1>2. ASSUME NEW k \in Key, NEW v \in Val, InsertExpanding(k, v) PROVE TableInv'
    <2> DEFINE n == length + Increment
    <2>1. n \in Nat \ {0} /\ n <= MaxLength /\ length' = n /\ lost' = lost
      BY <1>2, <1>b, <1>c DEF InsertExpanding, ExpandedLength
    <2>2. Expanded(n) \in [0..n - 1 -> Slot]  BY <1>b, <1>c DEF Expanded, Slot
    <2>3. Full(Expanded(n), n) = Full(table, length)
      BY <1>b, <1>c DEF Full, Expanded
    <2>4. Place(Expanded(n), n, k, v)  BY <1>2 DEF InsertExpanding
    <2> HIDE DEF n
    <2>5. /\ table' \in [0..n - 1 -> Slot]
          /\ size' = Cardinality(Full(table', n))
          /\ ret' \in {Ok, Error}
      BY <1>a, <2>1, <2>2, <2>3, <2>4, PlaceCounts
    <2>6. size' \in Nat  BY <2>1, <2>5, FullFinite
    <2> QED  BY <2>1, <2>5, <2>6 DEF TypeOK, SizeCounts, Used, Full
  <1>3. ASSUME NEW k \in Key, Value(k) PROVE TableInv'
    <2>1. ret' \in Val \cup {Null}  BY <1>3, HitSlot DEF Value, Entry
    <2> QED  BY <1>3, <2>1 DEF Value, TypeOK, SizeCounts, Used
  <1>4. ASSUME NEW k \in Key, Exists(k) PROVE TableInv'
    <2>1. ret' \in Key \cup {Null}  BY <1>4, HitSlot DEF Exists, Entry
    <2> QED  BY <1>4, <2>1 DEF Exists, TypeOK, SizeCounts, Used
  <1>5. ASSUME NEW k \in Key, Delete(k) PROVE TableInv'
    <2> DEFINE pos == Position(k, Least(Hits(k)), length)
    <2>1. pos \in 0..length - 1 /\ table[pos] # Empty  BY <1>5, HitSlot DEF Delete, Found
    <2>2. /\ table' = [table EXCEPT ![pos] = Empty]
          /\ lost' \in {lost, lost \cup {k}}
          /\ size' = size - 1
          /\ ret' = Null
          /\ length' = length
      BY <1>5 DEF Delete
    <2> HIDE DEF pos
    <2>3. Full(table', length) = Full(table, length) \ {pos} /\ pos \in Full(table, length)
      BY <1>c, <2>1, <2>2 DEF Full
    <2>4. size' = Cardinality(Full(table', length))
      BY <1>a, <1>c, <2>2, <2>3, FullFinite, FS_RemoveElement
    <2>5. size' \in Nat  BY <1>c, <2>4, FullFinite
    <2> QED  BY <2>2, <2>4, <2>5, <1>c DEF TypeOK, SizeCounts, Used, Full, Slot
  <1>6. ASSUME NEW k \in Key, DeleteMisses(k) PROVE TableInv'
    BY <1>6 DEF DeleteMisses, TypeOK, SizeCounts, Used
  <1>7. CASE InsertFails
    BY <1>7 DEF InsertFails, TypeOK, SizeCounts, Used
  <1>8. CASE Recreate
    <2>1. TypeOK' /\ length' = InitLength  BY <1>8, <1>b DEF Recreate, TypeOK, Cleared, Slot
    <2>2. Used' = {}  BY <1>8 DEF Used, Recreate, Cleared
    <2>3. SizeCounts'  BY <1>8, <2>2, FS_EmptySet DEF SizeCounts, Recreate
    <2> QED  BY <1>b, <2>1, <2>3
  <1>9. CASE UNCHANGED vars
    BY <1>9 DEF vars, TypeOK, SizeCounts, Used
  <1> QED  BY <1>1, <1>2, <1>3, <1>4, <1>5, <1>6, <1>7, <1>8, <1>9 DEF Next

LEMMA TableInvariant == Spec => []TableInv
  BY TableInit, TableNext, PTL DEF Spec

-----------------------------------------------------------------------------
\* The fields of the hash table keep their types: no operation writes outside
\* the table, and size is never counted below zero.
THEOREM TypeCorrect == Spec => []TypeOK
  BY TableInvariant, PTL DEF TableInv

\* hash_size() is the number of elements of the table, through deletions and
\* expansions.
THEOREM SizeCorrect == Spec => []SizeCounts
  BY TableInvariant, PTL DEF TableInv

\* No sum of a hash code and a probe wraps around.
NoWrap == \A k \in Key : /\ HashCode[k] + InitLength <= UINT
                         /\ HashCode[k] + MaxLength <= UINT

LEMMA NoWrapCovers ==
    ASSUME NoWrap, TableInv, NEW k \in Key, NEW p \in 0..length - 1
    PROVE  \E i \in Indices(length) : Position(k, i, length) = p
  <1>1. length \in Nat \ {0} /\ HashCode[k] + length <= UINT
    BY CodeAssumption, LengthAssumption DEF TableInv, TypeOK, NoWrap
  <1> QED  BY <1>1, PositionsCovered

\* With hash codes that leave room below UINT, the claim in hash_insert()
\* holds: "one is guaranteed to exist".
THEOREM OpenSlot == NoWrap => (Spec => []OpenSlotReached)
  <1> SUFFICES ASSUME NoWrap PROVE Spec => []OpenSlotReached  OBVIOUS
  <1>1. TableInv => OpenSlotReached
    <2> SUFFICES ASSUME TableInv, ~Loaded, NEW k \in Key
                 PROVE  \E i \in Indices(length) : table[Position(k, i, length)] = Empty
      BY DEF OpenSlotReached
    <2>1. length \in Nat \ {0} /\ size \in Nat /\ size < length
      BY DEF TableInv, TypeOK, Loaded
    <2>2. Cardinality(0..length - 1) = length  BY <2>1, FS_Interval
    <2>3. Used # 0..length - 1  BY <2>1, <2>2 DEF TableInv, SizeCounts
    <2>4. PICK p \in 0..length - 1 : table[p] = Empty  BY <2>3 DEF Used
    <2> QED  BY <2>4, NoWrapCovers
  <1> QED  BY <1>1, TableInvariant, PTL

\* And a key that is stored is found, wherever deletions and expansions have
\* left it.
THEOREM StoredIsFound == NoWrap => (Spec => []StoredFound)
  <1> SUFFICES ASSUME NoWrap PROVE Spec => []StoredFound  OBVIOUS
  <1>1. TableInv => StoredFound
    <2> SUFFICES ASSUME TableInv, NEW p \in Used PROVE Hits(table[p].key) # {}
      BY DEF StoredFound
    <2>1. p \in 0..length - 1 /\ table[p] # Empty /\ table[p].key \in Key
      BY DEF Used, TableInv, TypeOK, Slot, Entry
    <2>2. PICK i \in Indices(length) : Position(table[p].key, i, length) = p
      BY <2>1, NoWrapCovers
    <2> QED  BY <2>1, <2>2 DEF Hits
  <1> QED  BY <1>1, TableInvariant, PTL
-----------------------------------------------------------------------------
(***************************************************************************)
(* The table implements the container.                                     *)
(***************************************************************************)

\* The slots of the table t of n slots that hold e, and how many they are.
Holding(t, n, e) == {p \in Full(t, n) : t[p] = [key |-> e[1], value |-> e[2]]}
CountIn(t, n)    == [e \in Key \X Val |-> Cardinality(Holding(t, n, e))]

\* The count c with the element <<k, v>> once more, and once less.
OneMore(c, k, v) == [c EXCEPT ![<<k, v>>] = @ + 1]
OneLess(c, k, v) == [c EXCEPT ![<<k, v>>] = @ - 1]

\* The table t with the slot s at pos.
Written(t, pos, s) == [t EXCEPT ![pos] = s]

LEMMA CountIsCountIn == Count = CountIn(table, length)
  BY DEF Count, CountIn, Holding, Full, Used

LEMMA HoldingFinite ==
    ASSUME NEW t, NEW n \in Nat, NEW e
    PROVE  IsFiniteSet(Holding(t, n, e)) /\ Cardinality(Holding(t, n, e)) \in Nat
  <1>1. IsFiniteSet(Full(t, n))  BY FullFinite
  <1>2. Holding(t, n, e) \in SUBSET Full(t, n)  BY DEF Holding
  <1>3. IsFiniteSet(Holding(t, n, e))  BY <1>1, <1>2, FS_Subset
  <1> QED  BY <1>3, FS_CardinalityType

\* An element is counted exactly when some slot holds it.
LEMMA CountedIsHeld ==
    ASSUME NEW t, NEW n \in Nat, NEW e \in Key \X Val
    PROVE  CountIn(t, n)[e] > 0 <=> Holding(t, n, e) # {}
  <1>1. CountIn(t, n)[e] = Cardinality(Holding(t, n, e))  BY DEF CountIn
  <1>2. CountIn(t, n)[e] = 0 <=> Holding(t, n, e) = {}
    BY <1>1, HoldingFinite, FS_EmptySet
  <1>3. CountIn(t, n)[e] \in Nat  BY <1>1, HoldingFinite
  <1> QED  BY <1>2, <1>3

\* Filling an open slot counts its element once more, and no other.
LEMMA FillCounts ==
    ASSUME NEW n \in Nat, NEW t \in [0..n - 1 -> Slot],
           NEW pos \in 0..n - 1, t[pos] = Empty,
           NEW k \in Key, NEW v \in Val
    PROVE  CountIn(Written(t, pos, [key |-> k, value |-> v]), n) = OneMore(CountIn(t, n), k, v)
  <1> DEFINE new == [key |-> k, value |-> v]
  <1> DEFINE u == Written(t, pos, new)
  <1>1. new # Empty  BY NullAssumption DEF Empty
  <1>2. \A p \in 0..n - 1 : u[p] = IF p = pos THEN new ELSE t[p]  BY DEF Written
  <1>3. <<k, v>> \in Key \X Val  OBVIOUS
  <1>4. ASSUME NEW e \in Key \X Val, e # <<k, v>>
        PROVE  Holding(u, n, e) = Holding(t, n, e)
    <2>1. [key |-> e[1], value |-> e[2]] # new  BY <1>4
    <2> HIDE DEF u, new
    <2> QED  BY <1>1, <1>2, <2>1 DEF Holding, Full
  <1>5. Holding(u, n, <<k, v>>) = Holding(t, n, <<k, v>>) \cup {pos}
        /\ pos \notin Holding(t, n, <<k, v>>)
    <2>1. new = [key |-> <<k, v>>[1], value |-> <<k, v>>[2]]  OBVIOUS
    <2> HIDE DEF u, new
    <2> QED  BY <1>1, <1>2, <2>1 DEF Holding, Full
  <1> HIDE DEF u, new
  <1>6. Cardinality(Holding(u, n, <<k, v>>)) = Cardinality(Holding(t, n, <<k, v>>)) + 1
    BY <1>5, HoldingFinite, FS_AddElement
  <1>7. \A e \in Key \X Val :
          CountIn(u, n)[e] = [CountIn(t, n) EXCEPT ![<<k, v>>] = @ + 1][e]
    BY <1>4, <1>6 DEF CountIn
  <1>8. CountIn(u, n) = [CountIn(t, n) EXCEPT ![<<k, v>>] = @ + 1]
    BY <1>7 DEF CountIn
  <1> QED  BY <1>8 DEF OneMore, u, new

\* Emptying a slot counts its element once less, and no other.
LEMMA EmptyCounts ==
    ASSUME NEW n \in Nat, NEW t \in [0..n - 1 -> Slot], NEW pos \in 0..n - 1,
           NEW k \in Key, NEW v \in Val, t[pos] = [key |-> k, value |-> v]
    PROVE  CountIn(Written(t, pos, Empty), n) = OneLess(CountIn(t, n), k, v)
  <1> DEFINE old == [key |-> k, value |-> v]
  <1> DEFINE u == Written(t, pos, Empty)
  <1>1. old # Empty  BY NullAssumption DEF Empty
  <1>2. \A p \in 0..n - 1 : u[p] = IF p = pos THEN Empty ELSE t[p]  BY DEF Written
  <1>3. t[pos] = old  OBVIOUS
  <1>4. ASSUME NEW e \in Key \X Val, e # <<k, v>>
        PROVE  Holding(u, n, e) = Holding(t, n, e)
    <2>1. [key |-> e[1], value |-> e[2]] # old  BY <1>4
    <2> HIDE DEF u, old
    <2> QED  BY <1>1, <1>2, <1>3, <2>1 DEF Holding, Full
  <1>5. Holding(u, n, <<k, v>>) = Holding(t, n, <<k, v>>) \ {pos}
        /\ pos \in Holding(t, n, <<k, v>>)
    <2>1. old = [key |-> <<k, v>>[1], value |-> <<k, v>>[2]]  OBVIOUS
    <2> HIDE DEF u, old
    <2> QED  BY <1>1, <1>2, <1>3, <2>1 DEF Holding, Full
  <1> HIDE DEF u, old
  <1>6. Cardinality(Holding(u, n, <<k, v>>)) = Cardinality(Holding(t, n, <<k, v>>)) - 1
    <2> DEFINE H == Holding(t, n, <<k, v>>)
    <2>1. IsFiniteSet(H) /\ Cardinality(H) \in Nat  BY HoldingFinite
    <2>2. Holding(u, n, <<k, v>>) = H \ {pos} /\ pos \in H  BY <1>5
    <2> HIDE DEF H
    <2>3. Cardinality(H \ {pos}) = Cardinality(H) - 1  BY <2>1, <2>2, FS_RemoveElement
    <2> QED  BY <2>2, <2>3 DEF H
  <1>7. \A e \in Key \X Val :
          CountIn(u, n)[e] = [CountIn(t, n) EXCEPT ![<<k, v>>] = @ - 1][e]
    BY <1>4, <1>6 DEF CountIn
  <1>8. CountIn(u, n) = [CountIn(t, n) EXCEPT ![<<k, v>>] = @ - 1]
    BY <1>7 DEF CountIn
  <1> QED  BY <1>8 DEF OneLess, u

\* A new table holds nothing.
LEMMA ClearedCounts ==
    ASSUME NEW n \in Nat PROVE CountIn(Cleared(n), n) = [e \in Key \X Val |-> 0]
  <1>1. \A e : Holding(Cleared(n), n, e) = {}  BY DEF Holding, Full, Cleared
  <1>2. Cardinality({}) = 0  BY FS_EmptySet
  <1> QED  BY <1>1, <1>2 DEF CountIn

\* hash_expand() keeps what the table holds.
LEMMA ExpandedCounts ==
    ASSUME TypeOK, NEW n \in Nat, length <= n
    PROVE  CountIn(Expanded(n), n) = CountIn(table, length)
  <1>1. \A e : Holding(Expanded(n), n, e) = Holding(table, length, e)
    BY DEF Holding, Full, Expanded, TypeOK
  <1> QED  BY <1>1 DEF CountIn

\* Place() stores the element once more, or fails and stores nothing.
LEMMA PlaceInserts ==
    ASSUME NEW n \in Nat \ {0}, NEW t \in [0..n - 1 -> Slot],
           NEW k \in Key, NEW v \in Val, Place(t, n, k, v)
    PROVE  \/ /\ CountIn(table', n) = CountIn(t, n)
              /\ ret' = Error
           \/ /\ CountIn(table', n) = OneMore(CountIn(t, n), k, v)
              /\ ret' = Ok
  <1> DEFINE open == {i \in Indices(n) : t[Position(k, i, n)] = Empty}
  <1>1. CASE open = {}
    <2>1. table' = t /\ ret' = Error  BY <1>1 DEF Place
    <2> QED  BY <2>1
  <1>2. CASE open # {}
    <2> DEFINE pos == Position(k, Least(open), n)
    <2>1. table' = Written(t, pos, [key |-> k, value |-> v]) /\ ret' = Ok
      BY <1>2 DEF Place, Written
    <2>2. Least(open) \in open  BY <1>2, LeastIn
    <2>3. pos \in 0..n - 1 /\ t[pos] = Empty
      <3>1. Least(open) \in Nat /\ t[Position(k, Least(open), n)] = Empty  BY <2>2 DEF Indices
      <3> QED  BY <3>1, PositionRange
    <2> HIDE DEF pos, open
    <2>4. CountIn(table', n) = OneMore(CountIn(t, n), k, v)
      BY <2>1, <2>3, FillCounts
    <2> QED  BY <2>1, <2>4
  <1> QED  BY <1>1, <1>2

\* The search for a key finds one of the elements the container has for it.
LEMMA FoundIsCounted ==
    ASSUME TableInv, NEW k \in Key, Hits(k) # {}
    PROVE  /\ Found(k) = [key |-> k, value |-> Found(k).value]
           /\ Found(k).value \in Val
           /\ Count[<<k, Found(k).value>>] > 0
  <1>1. length \in Nat \ {0} /\ TypeOK  BY DEF TableInv, TypeOK
  <1> DEFINE pos == Position(k, Least(Hits(k)), length)
  <1>2. pos \in 0..length - 1 /\ Found(k) \in Entry /\ Found(k) # Empty /\ Found(k) = table[pos]
    BY <1>1, HitSlot DEF Found
  <1>3. Found(k).key = k
    <2>1. Hits(k) \in SUBSET Indices(length)  BY DEF Hits
    <2>2. Least(Hits(k)) \in Hits(k)  BY <1>1, <2>1, LeastIn
    <2> QED  BY <2>2 DEF Hits, Found
  <1>4. Found(k) = [key |-> k, value |-> Found(k).value] /\ Found(k).value \in Val
    BY <1>2, <1>3 DEF Entry
  <1> HIDE DEF pos
  <1>5. pos \in Holding(table, length, <<k, Found(k).value>>)
    BY <1>2, <1>4 DEF Holding, Full
  <1>6. CountIn(table, length)[<<k, Found(k).value>>] > 0
    BY <1>1, <1>4, <1>5, CountedIsHeld
  <1> QED  BY <1>4, <1>6, CountIsCountIn

\* And finds nothing only when the container has no such key.
LEMMA MissIsAbsent ==
    ASSUME NoWrap, TableInv, NEW k \in Key
    PROVE  Hits(k) = {} <=> ~Container!HasKey(k)
  <1>1. length \in Nat \ {0}  BY DEF TableInv, TypeOK
  <1>2. ASSUME Hits(k) # {} PROVE Container!HasKey(k)
    BY <1>2, FoundIsCounted DEF Container!HasKey
  <1>3. ASSUME Container!HasKey(k) PROVE Hits(k) # {}
    <2>1. PICK v \in Val : Count[<<k, v>>] > 0  BY <1>3 DEF Container!HasKey
    <2>2. Holding(table, length, <<k, v>>) # {}
      BY <1>1, <2>1, CountIsCountIn, CountedIsHeld
    <2>3. PICK p \in 0..length - 1 : table[p] # Empty /\ table[p].key = k
      BY <2>2 DEF Holding, Full
    <2>4. PICK i \in Indices(length) : Position(k, i, length) = p  BY <2>3, NoWrapCovers
    <2> QED  BY <2>3, <2>4 DEF Hits
  <1> QED  BY <1>2, <1>3

LEMMA ContainerStep == ASSUME NoWrap, TableInv, [Next]_vars
                       PROVE  [Container!Next]_(Container!vars)
  <1>a. length \in Nat \ {0} /\ table \in [0..length - 1 -> Slot] /\ TypeOK
    BY DEF TableInv, TypeOK
  <1>b. Increment \in Nat \ {0} /\ InitLength \in Nat \ {0} /\ MaxLength \in Nat
    BY LengthAssumption
  <1>c. Count = CountIn(table, length) /\ Count' = CountIn(table', length')
    BY CountIsCountIn DEF Count, CountIn, Holding, Full, Used
  <1>d. Ok = Container!Ok /\ Error = Container!Error
    BY DEF Ok, Error, Container!Ok, Container!Error
  <1>1. ASSUME NEW k \in Key, NEW v \in Val, Insert(k, v)
        PROVE  Container!Insert(k, v) \/ Container!InsertFails
    <2>1. Place(table, length, k, v) /\ length' = length  BY <1>1 DEF Insert
    <2> QED  BY <1>a, <1>c, <1>d, <2>1, PlaceInserts
             DEF OneMore, Container!Insert, Container!InsertFails
  <1>2. ASSUME NEW k \in Key, NEW v \in Val, InsertExpanding(k, v)
        PROVE  Container!Insert(k, v) \/ Container!InsertFails
    <2> DEFINE n == length + Increment
    <2>1. n \in Nat \ {0} /\ length <= n /\ length' = n /\ Place(Expanded(n), n, k, v)
      BY <1>2, <1>a, <1>b DEF InsertExpanding, ExpandedLength
    <2>2. Expanded(n) \in [0..n - 1 -> Slot]  BY <1>a, <1>b DEF Expanded, Slot
    <2> HIDE DEF n
    <2>3. CountIn(Expanded(n), n) = Count  BY <1>a, <1>c, <2>1, ExpandedCounts
    <2> QED  BY <1>c, <1>d, <2>1, <2>2, <2>3, PlaceInserts
             DEF OneMore, Container!Insert, Container!InsertFails
  <1>3. ASSUME NEW k \in Key, Value(k) PROVE Container!Value(k)
    <2>1. Count' = Count  BY <1>3, <1>c DEF Value
    <2>2. CASE Hits(k) = {}
      BY <1>3, <2>1, <2>2, MissIsAbsent DEF Value, Container!Value
    <2>3. CASE Hits(k) # {}
      BY <1>3, <2>1, <2>3, FoundIsCounted DEF Value, Container!Value
    <2> QED  BY <2>2, <2>3
  <1>4. ASSUME NEW k \in Key, Exists(k) PROVE Container!Exists(k)
    <2>1. Count' = Count  BY <1>4, <1>c DEF Exists
    <2>2. Hits(k) # {} => Found(k).key = k
      <3> SUFFICES ASSUME Hits(k) # {} PROVE Found(k).key = k  OBVIOUS
      <3>1. Found(k) = [key |-> k, value |-> Found(k).value]  BY FoundIsCounted
      <3> QED  BY <3>1
    <2> QED  BY <1>4, <2>1, <2>2, MissIsAbsent DEF Exists, Container!Exists
  <1>5. ASSUME NEW k \in Key, Delete(k) PROVE Container!Delete(k)
    <2> DEFINE pos == Position(k, Least(Hits(k)), length)
    <2> DEFINE v == Found(k).value
    <2>1. /\ Hits(k) # {}
          /\ table' = Written(table, pos, Empty)
          /\ ret' = Null
          /\ length' = length
      BY <1>5 DEF Delete, Written
    <2>2. pos \in 0..length - 1  BY <1>a, <2>1, HitSlot
    <2>3. table[pos] = [key |-> k, value |-> v] /\ v \in Val /\ Count[<<k, v>>] > 0
      BY <2>1, FoundIsCounted DEF Found
    <2> HIDE DEF pos, v
    <2>4. CountIn(table', length) = OneLess(CountIn(table, length), k, v)
      BY <1>a, <2>1, <2>2, <2>3, EmptyCounts
    <2>5. Count' = OneLess(Count, k, v)  BY <1>c, <2>1, <2>4
    <2> QED  BY <2>1, <2>3, <2>5 DEF Container!Delete, OneLess
  <1>6. ASSUME NEW k \in Key, DeleteMisses(k) PROVE Container!Delete(k)
    <2>1. Count' = Count /\ Hits(k) = {} /\ ret' = Null  BY <1>6, <1>c DEF DeleteMisses
    <2> QED  BY <2>1, MissIsAbsent DEF Container!Delete
  <1>7. ASSUME InsertFails PROVE Container!InsertFails
    BY <1>7, <1>c, <1>d DEF InsertFails, Container!InsertFails
  <1>8. ASSUME Recreate PROVE Container!Clear
    <2>1. Count' = [e \in Key \X Val |-> 0]  BY <1>8, <1>b, <1>c, ClearedCounts DEF Recreate
    <2> QED  BY <1>8, <2>1 DEF Recreate, Container!Clear
  <1>9. ASSUME UNCHANGED vars PROVE UNCHANGED Container!vars
    BY <1>9, <1>c DEF vars, Container!vars
  <1> QED  BY <1>1, <1>2, <1>3, <1>4, <1>5, <1>6, <1>7, <1>8, <1>9
           DEF Next, Container!Next

LEMMA ContainerInit == Init => Container!Init
  <1> SUFFICES ASSUME Init PROVE Container!Init  OBVIOUS
  <1>1. Count = [e \in Key \X Val |-> 0]
    BY CountIsCountIn, ClearedCounts, LengthAssumption DEF Init
  <1> QED  BY <1>1 DEF Init, Container!Init

\* Every operation of the table, wherever deletions left holes and expansions
\* left the elements, answers and changes what is stored as the container
\* promises.
THEOREM ImplementsMultimap == NoWrap => (Spec => IsMultimap)
  <1> SUFFICES ASSUME NoWrap PROVE Spec => IsMultimap  OBVIOUS
  <1>1. TableInv /\ [Next]_vars => [Container!Next]_(Container!vars)  BY ContainerStep
  <1> QED  BY <1>1, ContainerInit, TableInvariant, PTL DEF Spec, IsMultimap, Container!Spec
=============================================================================
