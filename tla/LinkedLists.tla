---------------------------- MODULE LinkedLists -----------------------------
(***************************************************************************)
(* What the lists of eglib promise: two sequences, which a caller edits,   *)
(* copies and joins.  DList and SList implement this specification.        *)
(***************************************************************************)
EXTENDS Integers, Sequences, SequencesExt

CONSTANTS Data, Key

VARIABLES first, second

Inserted == \E i \in 1..(Len(first) + 1), x \in Data : first' = InsertAt(first, i, x)

Removed == \E i \in DOMAIN first : first' = RemoveAt(first, i)

\* The entries that differ from one stay, in their order.
Purged == \E x \in Data, n \in 0..Len(first) : \E at \in [1..n -> DOMAIN first] :
  /\ \A i, j \in 1..n : i < j => at[i] < at[j]
  /\ {at[i] : i \in 1..n} = {i \in DOMAIN first : first[i] # x}
  /\ first' = [i \in 1..n |-> first[at[i]]]

Reversed == first' = Reverse(first)

SortedStably ==
  \E p \in [DOMAIN first -> DOMAIN first] :
    /\ \A i, j \in DOMAIN p : i < j =>
         \/ Key[first[p[i]]] < Key[first[p[j]]]
         \/ Key[first[p[i]]] = Key[first[p[j]]] /\ p[i] < p[j]
    /\ first' = [i \in DOMAIN first |-> first[p[i]]]

Joined == first' = first \o second /\ second' = << >>

Copied == second = << >> /\ second' = first /\ UNCHANGED first

Released == first' = << >> /\ UNCHANGED second

ListsInit == first = << >> /\ second = << >>

ListsNext ==
  \/ /\ Inserted \/ Removed \/ Purged \/ Reversed \/ SortedStably
     /\ UNCHANGED second
  \/ Joined \/ Copied \/ Released

ListsSpec == ListsInit /\ [][ListsNext]_<<first, second>>

=============================================================================
