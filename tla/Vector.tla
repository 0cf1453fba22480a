------------------------------- MODULE Vector -------------------------------
(***************************************************************************)
(* What a pointer array (eglib/gptrarray.c) promises: a sequence of        *)
(* entries.  PtrArray implements this specification.                       *)
(***************************************************************************)
EXTENDS Integers, Sequences, SequencesExt

CONSTANTS
  Items,    \* what the caller stores
  Null,     \* what a grown array is filled with
  Rank      \* the order of the caller's comparison function

VARIABLE items

Entries == Items \cup {Null}

Emptied == items' = << >>

Pushed == \E x \in Items : items' = Append(items, x)

Dropped == \E i \in DOMAIN items : items' = RemoveAt(items, i)

\* The last entry takes the place of the one removed.
SwappedOut == \E i \in DOMAIN items :
                items' = [k \in 1..(Len(items) - 1) |-> IF k = i THEN Last(items) ELSE items[k]]

Truncated == IsPrefix(items', items)

Padded == /\ IsPrefix(items, items')
          /\ \A k \in (Len(items) + 1)..Len(items') : items'[k] = Null

Times(s, x) == Cardinality({k \in DOMAIN s : s[k] = x})

Sorted == /\ Len(items') = Len(items)
          /\ \A x \in Entries : Times(items', x) = Times(items, x)
          /\ \A i, j \in DOMAIN items' : i < j => Rank[items'[i]] <= Rank[items'[j]]

VectorInit == items = << >>

VectorNext == Emptied \/ Pushed \/ Dropped \/ SwappedOut \/ Truncated \/ Padded \/ Sorted

VectorSpec == VectorInit /\ [][VectorNext]_items

=============================================================================
