----------------------------- MODULE Dictionary -----------------------------
(***************************************************************************)
(* What a hash table promises: a partial function from keys to values, and *)
(* the number of its keys.  HashTable (eglib/ghashtable.c) implements this *)
(* specification.                                                          *)
(***************************************************************************)
EXTENDS Integers, FiniteSets

CONSTANTS Names, Values, Absent

VARIABLES
  dict,    \* what g_hash_table_lookup finds
  size     \* what g_hash_table_size says

dictVars == <<dict, size>>

Put(n, v) == /\ dict' = [dict EXCEPT ![n] = v]
             /\ size' = IF dict[n] = Absent THEN size + 1 ELSE size

\* One removal, or all the keys that a predicate of the caller picks.
Dropped(S) == /\ \A n \in S : dict[n] # Absent
              /\ dict' = [n \in Names |-> IF n \in S THEN Absent ELSE dict[n]]
              /\ size' = size - Cardinality(S)

DictInit == dict = [n \in Names |-> Absent] /\ size = 0

DictNext == \/ \E n \in Names, v \in Values : Put(n, v)
            \/ \E S \in SUBSET Names : Dropped(S)

DictSpec == DictInit /\ [][DictNext]_dictVars

=============================================================================
