--------------------------- MODULE LiveDataVector ---------------------------
(***************************************************************************)
(* The live-data list (jm/livedatavector.c, livedata.c): a pointer array   *)
(* of items that carry their own index.  The list owns what was pushed     *)
(* into it.  A caller may push an item twice; it does not dispose of an    *)
(* item that a list holds.                                                 *)
(***************************************************************************)
EXTENDS PtrArray

VARIABLES
  vecIndex,   \* index field of every item
  vecLife,    \* "none" | "live" | "freed", of every item
  vecPushes,  \* how often each item was pushed since it was made
  vecTwice    \* the items that have been freed while they were not live

vecOwn  == <<vecIndex, vecLife, vecPushes, vecTwice>>
vecVars == <<arrVars, vecOwn>>

VecTypeOK ==
  /\ ArrTypeOK
  /\ vecIndex \in [Items -> -1..MaxEntries]
  /\ vecLife \in [Items -> {"none", "live", "freed"}]
  /\ vecPushes \in [Items -> Nat]
  /\ vecTwice \subseteq Items

\* live_data_new; the memory may be that of an item that was
\* freed; of one that was freed twice nothing more is said.
LiveDataNew(x) ==
  /\ vecLife[x] # "live" /\ ~Holds(x) /\ x \notin vecTwice
  /\ vecLife' = [vecLife EXCEPT ![x] = "live"]
  /\ vecIndex' = [vecIndex EXCEPT ![x] = -1]
  /\ vecPushes' = [vecPushes EXCEPT ![x] = 0]
  /\ UNCHANGED <<arrVars, vecTwice>>

\* live_data_dispose by a caller who has kept the item
LiveDataDispose(x) ==
  /\ vecLife[x] = "live" /\ ~Holds(x)
  /\ vecLife' = [vecLife EXCEPT ![x] = "freed"]
  /\ UNCHANGED <<arrVars, vecIndex, vecPushes, vecTwice>>

\* live_data_vector_new
VecNew == ArrNew(0) /\ UNCHANGED vecOwn

\* Mutant: the index is set once the item is in the array.
VecPushBackLate(x) ==
  /\ vecLife[x] = "live"
  /\ ArrAdd(x)
  /\ vecIndex' = [vecIndex EXCEPT ![x] = arrLen']
  /\ vecPushes' = [vecPushes EXCEPT ![x] = @ + 1]
  /\ UNCHANGED <<vecLife, vecTwice>>

\* live_data_vector_push_back
VecPushBack(x) ==
  /\ vecLife[x] = "live"
  /\ vecIndex' = [vecIndex EXCEPT ![x] = arrLen]
  /\ ArrAdd(x)
  /\ vecPushes' = [vecPushes EXCEPT ![x] = @ + 1]
  /\ UNCHANGED <<vecLife, vecTwice>>

\* Mutant: the loop of dispose runs over the capacity.
DisposedAll == {x \in Items : \E i \in 0..(arrSize - 1) : pdata[i] = x}

\* The items the loop of live_data_vector_dispose reaches.
Disposed == {x \in Items : Holds(x)}

HoldsTwice(x) == \E i, j \in 0..(arrLen - 1) : i # j /\ pdata[i] = x /\ pdata[j] = x

\* Mutant: the array goes, the items stay.
VecDisposeArray == ArrFree /\ UNCHANGED vecOwn

\* live_data_vector_dispose
VecDispose ==
  /\ ArrFree
  /\ vecLife' = [x \in Items |-> IF x \in Disposed THEN "freed" ELSE vecLife[x]]
  /\ vecTwice' = vecTwice \cup {x \in Disposed : vecLife[x] # "live" \/ HoldsTwice(x)}
  /\ UNCHANGED <<vecIndex, vecPushes>>

VecInit == /\ ArrInit
           /\ vecIndex = [x \in Items |-> -1]
           /\ vecLife = [x \in Items |-> "none"]
           /\ vecPushes = [x \in Items |-> 0]
           /\ vecTwice = {}

VecNext == \/ VecNew \/ VecDispose
           \/ \E x \in Items : LiveDataNew(x) \/ LiveDataDispose(x) \/ VecPushBack(x)

VecSpec == VecInit /\ [][VecNext]_vecVars

-----------------------------------------------------------------------------
\* live_data_vector_index and live_data_index agree: the item found at a position
\* is live and carries that position, or a later one at which it was pushed again.
VecIndexAgrees ==
  arrState = "live" =>
    \A i \in 0..(arrLen - 1) :
      LET x == pdata[i]
      IN  /\ x \in Items /\ vecLife[x] = "live"
          /\ vecIndex[x] \in i..(arrLen - 1) /\ pdata[vecIndex[x]] = x
          /\ vecIndex[x] > i => vecPushes[x] > 1

\* Disposing of the list frees every item once, unless it was pushed twice, and
\* forgets none: outside of a list no pushed item is left live.
VecFreesOnce ==
  /\ \A x \in vecTwice : vecPushes[x] # 1
  /\ \A x \in Items : vecLife[x] = "live" /\ vecPushes[x] > 0 => Holds(x)

\* A list of live-data items finds each by its index and frees each once
\* (livedatavector.c:10 and :21).
VecCorrect == VecIndexAgrees /\ VecFreesOnce

=============================================================================
