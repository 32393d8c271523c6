----------------------------- MODULE HashTable ------------------------------
(***************************************************************************)
(* The hash table of lib/hash.c: an array of slots, searched from the      *)
(* hash code of the key onwards.  hash_code() returns an unsigned int, so  *)
(* the sum `hash_code(key) + i' is taken modulo the number of unsigned     *)
(* ints before it is taken modulo the length of the table.                 *)
(*                                                                         *)
(* A key stands for every pointer that compare() does not tell apart.      *)
(* hash_code(), compare(), kdestroy() and vdestroy() are the caller's.     *)
(***************************************************************************)
EXTENDS Integers, FiniteSets

CONSTANTS
    Key, Val,
    Null,           \* the null pointer
    HashCode,       \* hash_code(), as a function
    UINT,           \* the number of unsigned ints
    InitLength,     \* DEFAULT_INCREMENT, the length of a new table
    Increment,      \* hash->increment
    MaxLength       \* BOUND: no memory for a longer table

ASSUME NullAssumption   == Null \notin Key \cup Val \cup [key : Key, value : Val]
ASSUME LengthAssumption == /\ InitLength \in Nat \ {0}
                           /\ Increment \in Nat \ {0}
                           /\ MaxLength \in Nat
ASSUME CodeAssumption   == /\ UINT \in Nat \ {0}
                           /\ HashCode \in [Key -> 0..UINT - 1]

VARIABLES
    table,  \* hash->table
    length, \* hash->length
    size,   \* hash->size
    ret,    \* what the last call returned
    lost    \* keys taken out of the table without kdestroy()

vars == <<table, length, size, ret, lost>>

Entry == [key : Key, value : Val]
Empty == Null           \* table[i].key is NULL
Slot  == Entry \cup {Empty}

Ok    == "0"
Error == "-1"

TypeOK ==
    /\ length \in Nat
    /\ table \in [0..length - 1 -> Slot]
    /\ size \in Nat
    /\ ret \in Key \cup Val \cup {Null, Ok, Error}
    /\ lost \subseteq Key

Cleared(n) == [p \in 0..n - 1 |-> Empty]

\* hash_create()
Init ==
    /\ table = Cleared(InitLength)
    /\ length = InitLength
    /\ size = 0
    /\ ret = Null
    /\ lost = {}

-----------------------------------------------------------------------------
Indices(n) == 0..n - 1

\* The position of the i-th probe for k in a table of n slots.
Position(k, i, n) == ((HashCode[k] + i) % UINT) % n

Least(S) == CHOOSE i \in S : \A j \in S : i <= j

\* (mutant)
Loaded_Late == size > length

\* size / length >= .80, as doubles: the quotient is exact enough to compare.
Loaded == 5 * size >= 4 * length

Expand_KeepLength == length             \* (mutant) the length is not updated
ExpandedLength == length + Increment
Expanded(n) == [p \in 0..n - 1 |-> IF p < length THEN table[p] ELSE Empty]

\* Storing in the first open position of the table t of n slots.
Place(t, n, k, v) ==
    LET open == {i \in Indices(n) : t[Position(k, i, n)] = Empty}
    IN  IF open = {}
        THEN /\ table' = t
             /\ ret' = Error
             /\ UNCHANGED size
        ELSE /\ table' = [t EXCEPT ![Position(k, Least(open), n)] = [key |-> k, value |-> v]]
             /\ size' = size + 1
             /\ ret' = Ok

\* hash_insert()
Insert(k, v) ==
    /\ ~Loaded
    /\ Place(table, length, k, v)
    /\ UNCHANGED <<length, lost>>

\* hash_insert() after a hash_expand(): the slots are copied as they are.
InsertExpanding(k, v) ==
    /\ Loaded
    /\ length + Increment <= MaxLength
    /\ Place(Expanded(length + Increment), length + Increment, k, v)
    /\ length' = ExpandedLength
    /\ UNCHANGED lost

\* malloc() failed in hash_expand().
InsertFails ==
    /\ Loaded
    /\ ret' = Error
    /\ UNCHANGED <<table, length, size, lost>>

\* (mutant) an empty slot ends the search
Hits_StopAtHole(k) ==
    {i \in Indices(length) :
        /\ table[Position(k, i, length)] # Empty
        /\ table[Position(k, i, length)].key = k
        /\ \A j \in 0..i : table[Position(k, j, length)] # Empty}

\* The probes at which hash_search() finds the key.
Hits(k) ==
    {i \in Indices(length) : /\ table[Position(k, i, length)] # Empty
                             /\ table[Position(k, i, length)].key = k}

Found(k) == table[Position(k, Least(Hits(k)), length)]

\* hash_value()
Value(k) ==
    /\ ret' = IF Hits(k) = {} THEN Null ELSE Found(k).value
    /\ UNCHANGED <<table, length, size, lost>>

\* hash_exists()
Exists(k) ==
    /\ ret' = IF Hits(k) = {} THEN Null ELSE Found(k).key
    /\ UNCHANGED <<table, length, size, lost>>

DeleteMisses(k) ==
    /\ Hits(k) = {}
    /\ ret' = Null
    /\ UNCHANGED <<table, length, size, lost>>

\* (mutant) size is not counted down
Delete_KeepSize(k) ==
    /\ Hits(k) # {}
    /\ table' = [table EXCEPT ![Position(k, Least(Hits(k)), length)] = Empty]
    /\ ret' = Null
    /\ UNCHANGED <<length, size, lost>>

\* hash_delete().  kdestroy() is called when table[i] has a key, where i
\* counts the probes: it is not the position that was found.
Delete(k) ==
    /\ Hits(k) # {}
    /\ LET i == Least(Hits(k))
       IN  /\ table' = [table EXCEPT ![Position(k, i, length)] = Empty]
           /\ lost' = IF table[i] = Empty THEN lost \cup {k} ELSE lost
    /\ size' = size - 1
    /\ ret' = Null
    /\ UNCHANGED length

\* hash_destroy(), which destroys every key and value, and a new hash_create().
Recreate ==
    /\ table' = Cleared(InitLength)
    /\ length' = InitLength
    /\ size' = 0
    /\ ret' = Null
    /\ UNCHANGED lost

Next ==
    \/ \E k \in Key :
        \/ \E v \in Val : Insert(k, v) \/ InsertExpanding(k, v)
        \/ Value(k) \/ Exists(k) \/ Delete(k) \/ DeleteMisses(k)
    \/ InsertFails
    \/ Recreate

Spec == Init /\ [][Next]_vars

-----------------------------------------------------------------------------
Used == {p \in 0..length - 1 : table[p] # Empty}

\* hash_size() is the number of occupied slots, holes left by deletions and
\* slots added by expansions included.
SizeCounts == size = Cardinality(Used)

\* The comments in hash_insert(): when the table need not grow, an open slot
\* exists and the probes of every key reach one.
OpenSlotReached ==
    ~Loaded => \A k \in Key : \E i \in Indices(length) : table[Position(k, i, length)] = Empty

\* A key that is stored is found: hash_search() returns NULL only "if no key
\* exists in the hash table".
StoredFound == \A p \in Used : Hits(table[p].key) # {}

\* A key that leaves the table was given to kdestroy().
KeysDestroyed == lost = {}

\* Whatever was inserted, deleted and moved by expansions, the table answers
\* as the container does.
Count == [e \in Key \X Val |->
             Cardinality({p \in Used : table[p] = [key |-> e[1], value |-> e[2]]})]
Container == INSTANCE Multimap WITH count <- Count
IsMultimap == Container!Spec
=============================================================================
