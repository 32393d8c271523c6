------------------------------- MODULE Deque -------------------------------
(***************************************************************************)
(* What lib/list.h promises of a list, without its links: a sequence of    *)
(* keys, and what the last call returned.                                  *)
(***************************************************************************)
EXTENDS Sequences, SequencesExt

CONSTANTS
    Key,    \* keys
    Null    \* the null pointer

VARIABLES items, ret

vars == <<items, ret>>

Returns(call, got) == ret' = [call |-> call, got |-> got]

Init == items = <<>> /\ ret = [call |-> "none", got |-> Null]

\* list_insert(), list_unshift()
Insert(k) == items' = <<k>> \o items /\ Returns("list_insert", "0")

\* list_push()
Push(k) == items' = Append(items, k) /\ Returns("list_push", "0")

\* Either of them without memory
InsertFails ==
    /\ \E call \in {"list_insert", "list_push"} : Returns(call, "-1")
    /\ UNCHANGED items

Take(i, call) == items' = RemoveAt(items, i) /\ Returns(call, items[i])

\* list_shift() and list_pop() of an empty list
TakeNothing ==
    /\ items = <<>>
    /\ \E call \in {"list_shift", "list_pop"} : Returns(call, Null)
    /\ UNCHANGED items

\* list_destroy()
Clear == items' = <<>> /\ UNCHANGED ret

Next ==
    \/ \E k \in Key : Insert(k) \/ Push(k)
    \/ InsertFails
    \/ \E i \in DOMAIN items, call \in {"list_delete", "list_remove"} : Take(i, call)
    \/ items # <<>> /\ (Take(1, "list_shift") \/ Take(Len(items), "list_pop"))
    \/ TakeNothing
    \/ Clear

Spec == Init /\ [][Next]_vars
============================================================================
