-------------------------------- MODULE List --------------------------------
(***************************************************************************)
(* The doubly linked list of lib/list.c, with a sentinel nil, at the level *)
(* of its pointers, from list_create() to list_destroy() and again.  Its   *)
(* caller keeps to the preconditions of the functions, allocates keys,     *)
(* and frees those it got back.  list_destroy() is a loop, one turn of     *)
(* list_foreach_safe() a step.                                             *)
(***************************************************************************)
EXTENDS Naturals, Sequences, SequencesExt, FiniteSets

CONSTANTS
    Node,   \* addresses malloc() can return for a list_node_t
    Key,    \* addresses of keys
    nil,    \* the sentinel
    Null    \* the null pointer

ASSUME NodeAssumption == nil \notin Node /\ Null \notin Node \cup {nil} /\ IsFiniteSet(Node)
ASSUME KeyAssumption  == Null \notin Key

VARIABLES
    next,       \* the field of each node
    prev,       \* the field of each node
    key,        \* the field of each node
    alive,      \* the nodes allocated and not freed
    loose,      \* those of them that list_delete() gave to the caller
    size,       \* list->size
    mode,       \* "none": no list; "open"; "destroy": within list_destroy()
    node,       \* the cursor of list_foreach_safe() in list_destroy()
    lahead,     \* the node behind it
    held,       \* the keys that belong to the caller
    freed,      \* the keys freed so far, or never allocated
    ret         \* the last function called, and what it returned

links  == <<next, prev, key>>
cursor == <<node, lahead>>
vars   == <<links, alive, loose, size, mode, cursor, held, freed, ret>>

Address == Node \cup {nil}

Calls == {"none", "list_insert", "list_push", "list_delete", "list_remove",
          "list_shift", "list_pop"}

Returns(call, got) == ret' = [call |-> call, got |-> got]

\* The nodes from a on along next, up to the sentinel: at most every address.
Along(link) ==
    LET walk[i \in 0..Cardinality(Node)] ==
            IF i = 0 THEN <<>>
            ELSE LET a == IF walk[i - 1] = <<>> THEN link[nil] ELSE link[Last(walk[i - 1])]
                 IN  IF a = nil THEN walk[i - 1] ELSE Append(walk[i - 1], a)
    IN  walk[Cardinality(Node)]

\* The type invariant.
TypeOK ==
    /\ next \in [Address -> Address] /\ prev \in [Address -> Address]
    /\ key \in [Address -> Key \cup {Null}]
    /\ loose \subseteq alive /\ alive \subseteq Node
    /\ size \in 0..Cardinality(Node)
    /\ mode \in {"none", "open", "destroy"}
    /\ node \in Address /\ lahead \in Address
    /\ held \subseteq Key /\ freed \subseteq Key
    /\ ret.call \in Calls /\ ret.got \in Key \cup {Null, "0", "-1"}

Init ==
    /\ next = [a \in Address |-> nil] /\ prev = [a \in Address |-> nil]
    /\ key = [a \in Address |-> Null]
    /\ alive = {} /\ loose = {} /\ size = 0 /\ mode = "none"
    /\ node = nil /\ lahead = nil
    /\ held = {} /\ freed = Key /\ ret = [call |-> "none", got |-> Null]

-----------------------------------------------------------------------------
InList == alive \ loose

\* The caller hands in a key of its own, or a new one.
Offered == held \cup freed

\* list_create() that succeeds.  The key of the sentinel is not initialised.
Create ==
    /\ mode = "none"
    /\ mode' = "open" /\ size' = 0
    /\ next' = [next EXCEPT ![nil] = nil] /\ prev' = [prev EXCEPT ![nil] = nil]
    /\ \E junk \in Key \cup {Null} : key' = [key EXCEPT ![nil] = junk]
    /\ UNCHANGED <<alive, loose, cursor, held, freed, ret>>

\* create_node(k) returned n, and the caller gives k away.
CreateNode(n, k) ==
    /\ alive' = alive \cup {n}
    /\ key' = [key EXCEPT ![n] = k]
    /\ held' = held \ {k} /\ freed' = freed \ {k}
    /\ size' = size + 1
    /\ UNCHANGED <<loose, mode, cursor>>

\* list_insert() and list_unshift()
Insert(k) ==
    /\ mode = "open" /\ k \in Offered
    /\ \E n \in Node \ alive :
          /\ CreateNode(n, k)
          /\ next' = [next EXCEPT ![n] = next[nil], ![nil] = n]
          /\ prev' = [prev EXCEPT ![next[nil]] = n, ![n] = nil]
          /\ Returns("list_insert", "0")

\* (mutant) the sentinel's prev is updated first
Push_Swapped(k) ==
    /\ mode = "open" /\ k \in Offered
    /\ \E n \in Node \ alive :
          /\ CreateNode(n, k)
          /\ prev' = [prev EXCEPT ![n] = prev[nil], ![nil] = n]
          /\ next' = [next EXCEPT ![n] = nil]
          /\ Returns("list_push", "0")

\* list_push()
Push(k) ==
    /\ mode = "open" /\ k \in Offered
    /\ \E n \in Node \ alive :
          /\ CreateNode(n, k)
          /\ prev' = [prev EXCEPT ![n] = prev[nil], ![nil] = n]
          /\ next' = [next EXCEPT ![prev[nil]] = n, ![n] = nil]
          /\ Returns("list_push", "0")

\* list_insert() or list_push() when malloc() fails: the key stays with the caller.
InsertFails(k) ==
    /\ mode = "open" /\ k \in Offered
    /\ held' = held \cup {k} /\ freed' = freed \ {k}
    /\ \E call \in {"list_insert", "list_push"} : Returns(call, "-1")
    /\ UNCHANGED <<links, alive, loose, size, mode, cursor>>

\* (mutant) only the links backwards lead past n
Bypassed_Backwards(n) == [next |-> next, prev |-> [prev EXCEPT ![next[n]] = prev[n]]]

\* The links around n lead past it, and the fields of n are kept.
Bypassed(n) == [next |-> [next EXCEPT ![prev[n]] = next[n]],
                prev |-> [prev EXCEPT ![next[n]] = prev[n]]]

\* list_delete() of a node of the list, which is the caller's from then on; for
\* ret the node stands its key.
Delete(n) ==
    /\ mode = "open" /\ n \in InList /\ key[n] # Null
    /\ next' = Bypassed(n).next /\ prev' = Bypassed(n).prev
    /\ size' = size - 1
    /\ loose' = loose \cup {n} /\ Returns("list_delete", key[n])
    /\ UNCHANGED <<key, alive, mode, cursor, held, freed>>

\* (mutant) the key of the node is not set to NULL before destroy_node()
Returned_Freed(n) == held' = held \cup {key[n]} /\ freed' = freed \cup {key[n]}

\* The key of n goes to the caller.
Returned(n) == held' = held \cup {key[n]} /\ UNCHANGED freed

\* The caller frees a node it got from list_delete(), and keeps the key.
FreeNode(n) ==
    /\ n \in loose
    /\ loose' = loose \ {n} /\ alive' = alive \ {n}
    /\ next' = [next EXCEPT ![n] = nil] /\ prev' = [prev EXCEPT ![n] = nil]
    /\ key' = [key EXCEPT ![n] = Null]
    /\ held' = held \cup {key[n]}
    /\ UNCHANGED <<size, mode, cursor, freed, ret>>

\* (mutant) list_remove() that relies on list_is_nil() alone
Empty_Unchecked == FALSE

\* list_remove() returns NULL for an empty list.
Empty == size = 0

\* list_remove() of n: list_delete(), and destroy_node() without the key.
Take(n, call) ==
    /\ mode = "open" /\ ~Empty /\ key[n] # Null
    /\ next' = [Bypassed(n).next EXCEPT ![n] = nil]
    /\ prev' = [Bypassed(n).prev EXCEPT ![n] = nil]
    /\ key' = [key EXCEPT ![n] = Null]
    /\ size' = size - 1
    /\ alive' = alive \ {n}
    /\ Returned(n) /\ Returns(call, key[n])
    /\ UNCHANGED <<loose, mode, cursor>>

RemoveNode(n) == n \in InList /\ Take(n, "list_remove")

Shift == Take(next[nil], "list_shift")

\* (mutant) list_pop() takes list_head()
Pop_Head == Take(next[nil], "list_pop")

Pop == Take(prev[nil], "list_pop")

TakeNothing ==
    /\ mode = "open" /\ Empty
    /\ \E call \in {"list_shift", "list_pop"} : Returns(call, Null)
    /\ UNCHANGED <<links, alive, loose, size, mode, cursor, held, freed>>

\* The caller frees a key.
FreeKey(k) ==
    /\ k \in held
    /\ held' = held \ {k} /\ freed' = freed \cup {k}
    /\ UNCHANGED <<links, alive, loose, size, mode, cursor, ret>>

\* list_destroy(): the start of list_foreach_safe()
Destroy ==
    /\ mode = "open"
    /\ mode' = "destroy"
    /\ node' = next[nil] /\ lahead' = next[next[nil]]
    /\ UNCHANGED <<links, alive, loose, size, held, freed, ret>>

\* destroy_node(), and on to the next node
DestroyNode ==
    /\ mode = "destroy" /\ node # nil
    /\ freed' = freed \cup {key[node]}
    /\ alive' = alive \ {node}
    /\ next' = [next EXCEPT ![node] = nil] /\ prev' = [prev EXCEPT ![node] = nil]
    /\ key' = [key EXCEPT ![node] = Null]
    /\ node' = lahead /\ lahead' = next[lahead]
    /\ UNCHANGED <<loose, size, mode, held, ret>>

\* The sentinel and the container are freed.
DestroyEnd ==
    /\ mode = "destroy" /\ node = nil
    /\ mode' = "none" /\ size' = 0 /\ lahead' = nil
    /\ UNCHANGED <<links, alive, loose, node, held, freed, ret>>

Next ==
    \/ Create
    \/ \E k \in Key : Insert(k) \/ Push(k) \/ InsertFails(k) \/ FreeKey(k)
    \/ \E n \in Node : Delete(n) \/ FreeNode(n) \/ RemoveNode(n)
    \/ Shift \/ Pop \/ TakeNothing
    \/ Destroy \/ DestroyNode \/ DestroyEnd

Spec == Init /\ [][Next]_vars

-----------------------------------------------------------------------------
(* What the links must be, and what becomes of the memory. *)

\* While the list is in use next and prev are each other's inverse, on the
\* sentinel and the nodes of the list and nowhere else, no node of it passes
\* for the sentinel, and list_size() counts them: after any sequence of
\* insertions at both ends and removals anywhere.
Linked ==
    mode = "open" =>
        /\ \A a \in InList \cup {nil} :
              /\ next[a] \in InList \cup {nil} /\ prev[a] \in InList \cup {nil}
              /\ prev[next[a]] = a /\ next[prev[a]] = a
        /\ \A a \in InList : key[a] # Null
        /\ size = Cardinality(InList)

\* The links form one ring: list_foreach() meets each node of the list once,
\* and backwards meets them in the opposite order.
OneRing ==
    mode = "open" =>
        /\ ToSet(Along(next)) = InList /\ IsInjective(Along(next))
        /\ Along(prev) = Reverse(Along(next))

\* list_destroy() never touches a node it has freed, though each turn of its
\* loop frees the node it stands on: whatever was removed before, it frees the
\* nodes of the list, those only and each once, and stops at the sentinel.
NoUseAfterFree ==
    /\ mode = "destroy" /\ node # nil => {node, lahead} \subseteq InList \cup {nil}
    /\ mode = "destroy" /\ node = nil => InList = {}

\* Every key has one owner: a node, the caller, or nobody once it is freed.
\* list_remove() and list_shift() hand over a key that destroy_node() does not
\* free, and list_destroy() frees the keys of the nodes it finds, each once.
KeysOwned ==
    /\ held \cap freed = {}
    /\ Key \ (held \cup freed) = {key[n] : n \in alive}
    /\ \A m, n \in alive : key[m] = key[n] => m = n

\* The list is the sequence of its keys, and each function does to the sequence
\* and returns what lib/list.h says of it.
Items == IF mode = "open" THEN [i \in DOMAIN Along(next) |-> key[Along(next)[i]]] ELSE <<>>

Deque == INSTANCE Deque WITH items <- Items

IsDeque == Deque!Spec
=============================================================================
