------------------------------ MODULE Multimap ------------------------------
(***************************************************************************)
(* What lib/hash.c promises its callers: a container of (key, value)       *)
(* elements.  hash_insert() does not look for the key, so an element can   *)
(* be there more than once; hash_search() answers about one of those with  *)
(* the key, whichever it meets.                                            *)
(***************************************************************************)
EXTENDS Integers

CONSTANTS Key, Val, Null

VARIABLES
    count,  \* how often each element is in the container
    ret     \* what the last call returned

vars == <<count, ret>>

Ok    == "0"
Error == "-1"

HasKey(k) == \E v \in Val : count[<<k, v>>] > 0

Init ==
    /\ count = [e \in Key \X Val |-> 0]
    /\ ret = Null

Insert(k, v) ==
    /\ count' = [count EXCEPT ![<<k, v>>] = @ + 1]
    /\ ret' = Ok

InsertFails ==
    /\ ret' = Error
    /\ UNCHANGED count

Value(k) ==
    /\ \/ /\ ~HasKey(k)
          /\ ret' = Null
       \/ \E v \in Val : count[<<k, v>>] > 0 /\ ret' = v
    /\ UNCHANGED count

Exists(k) ==
    /\ ret' = IF HasKey(k) THEN k ELSE Null
    /\ UNCHANGED count

Delete(k) ==
    /\ \/ /\ ~HasKey(k)
          /\ UNCHANGED count
       \/ \E v \in Val :
            /\ count[<<k, v>>] > 0
            /\ count' = [count EXCEPT ![<<k, v>>] = @ - 1]
    /\ ret' = Null

Clear ==
    /\ count' = [e \in Key \X Val |-> 0]
    /\ ret' = Null

Next ==
    \/ \E k \in Key : \/ \E v \in Val : Insert(k, v)
                      \/ Value(k) \/ Exists(k) \/ Delete(k)
    \/ InsertFails
    \/ Clear

Spec == Init /\ [][Next]_vars
=============================================================================
