---------------------------- MODULE MCHashTable -----------------------------
(***************************************************************************)
(* Small instances of HashTable, with keys of one hash code.               *)
(***************************************************************************)
EXTENDS HashTable

\* No sum of this code and a probe reaches UINT = 64.
LowCode == [k \in Key |-> 1]
=============================================================================
