------------------------------- MODULE Sorting -------------------------------
(***************************************************************************)
(* The two sorts of eglib, the merge sort of its lists and the quicksort.  *)
(* They share no state.                                                    *)
(***************************************************************************)
EXTENDS Integers, Sequences, FiniteSets, SequencesExt

-----------------------------------------------------------------------------
(***************************************************************************)
(* The merge sort of g_list_sort and g_slist_sort (eglib/sort.frag.h), one *)
(* action per turn of do_sort.  A list is the sequence of its nodes, and a *)
(* node is its key and the place it came from.  Ranks are numbered from 1  *)
(* here, from 0 in the code; an empty sequence is the NULL pointer.        *)
(***************************************************************************)

CONSTANT SortInputs   \* sequences of keys

ASSUME ListSortAssumption == SortInputs \subseteq Seq(Int)

VARIABLES
  lsInput,   \* the keys, constant
  lsRest,    \* list: the nodes not yet inserted
  lsRanks,   \* ranks; n_ranks is its length
  lsMin,     \* min_rank
  lsResult   \* << >> while running, or <<the sorted list>>

lsVars == <<lsInput, lsRest, lsRanks, lsMin, lsResult>>

Node(i) == [key |-> lsInput[i], place |-> i]

LsTypeOK ==
  /\ lsMin \in 0..Len(lsRanks) /\ (lsRanks # << >> => lsMin < Len(lsRanks))
  /\ lsRest \in Seq([key : Int, place : DOMAIN lsInput])
  /\ \A i \in DOMAIN lsRanks : lsRanks[i] \in Seq([key : Int, place : DOMAIN lsInput])
  /\ Len(lsResult) <= 1

-----------------------------------------------------------------------------
\* The merge of s and t, where `after(x, y)' says that y of t goes before x of s.
MergeBy(s, t, after(_, _)) ==
  LET From[p \in (0..Len(s)) \X (0..Len(t))] ==
        LET i == p[1]
            j == p[2]
        IN  IF i = Len(s) THEN SubSeq(t, j + 1, Len(t))
            ELSE IF j = Len(t) THEN SubSeq(s, i + 1, Len(s))
            ELSE IF after(s[i + 1], t[j + 1]) THEN <<t[j + 1]>> \o From[<<i, j + 1>>]
            ELSE <<s[i + 1]>> \o From[<<i + 1, j>>]
  IN  From[<<0, 0>>]

\* Mutant: of two equal nodes the later one goes first.
MergeListsLater(s, t) == MergeBy(s, t, LAMBDA x, y : x.key >= y.key)

\* merge_lists
MergeLists(s, t) == MergeBy(s, t, LAMBDA x, y : x.key > y.key)

\* Mutant: the list that comes is taken for the first one.
SweepUpSwapped(list, upto) ==
  LET Merged[i \in lsMin..upto] ==
        IF i = lsMin THEN list ELSE MergeLists(Merged[i - 1], lsRanks[i])
  IN  IF upto < lsMin THEN list ELSE Merged[upto]

\* sweep_up: the ranks from min_rank to `upto', merged before `list'.
SweepUp(list, upto) ==
  LET Merged[i \in lsMin..upto] ==
        IF i = lsMin THEN list ELSE MergeLists(lsRanks[i], Merged[i - 1])
  IN  IF upto < lsMin THEN list ELSE Merged[upto]

\* The first rank that is NULL, or the one behind the last.
FreeRank == CHOOSE i \in 1..(Len(lsRanks) + 1) :
              /\ i <= Len(lsRanks) => lsRanks[i] = << >>
              /\ \A j \in 1..(i - 1) : lsRanks[j] # << >>

\* The ranks below, merged with the list.
Carried(list) ==
  LET Merged[i \in 0..(FreeRank - 1)] ==
        IF i = 0 THEN list ELSE MergeLists(lsRanks[i], Merged[i - 1])
  IN  Merged[FreeRank - 1]

\* Mutant: the list is put one rank too high.
InsertListHigh(list) ==
  /\ lsRanks' = [i \in 1..(Len(lsRanks) + 1) |->
                   IF i < FreeRank THEN << >>
                   ELSE IF i = Len(lsRanks) + 1 THEN Carried(list)
                   ELSE IF i = FreeRank THEN << >> ELSE lsRanks[i]]
  /\ lsMin' = Len(lsRanks)

\* Mutant: min_rank is the rank behind the one that was filled.
InsertListPast(list) ==
  /\ lsRanks' = [i \in 1..(IF FreeRank > Len(lsRanks) THEN FreeRank ELSE Len(lsRanks)) |->
                   IF i < FreeRank THEN << >>
                   ELSE IF i = FreeRank THEN Carried(list) ELSE lsRanks[i]]
  /\ lsMin' = FreeRank

\* insert_list for rank 0, the one do_sort calls it with
InsertList(list) ==
  /\ lsRanks' = [i \in 1..(IF FreeRank > Len(lsRanks) THEN FreeRank ELSE Len(lsRanks)) |->
                   IF i < FreeRank THEN << >>
                   ELSE IF i = FreeRank THEN Carried(list) ELSE lsRanks[i]]
  /\ lsMin' = FreeRank - 1

\* Two nodes become a sorted list of rank 0.
LsPair ==
  /\ lsResult = << >> /\ Len(lsRest) >= 2
  /\ LET x == lsRest[1] y == lsRest[2]
     IN  InsertList(IF x.key > y.key THEN <<y, x>> ELSE <<x, y>>)
  /\ lsRest' = SubSeq(lsRest, 3, Len(lsRest))
  /\ UNCHANGED <<lsInput, lsResult>>

\* Everything is merged, a last single node behind.
LsSweep ==
  /\ lsResult = << >> /\ Len(lsRest) < 2
  /\ lsResult' = <<SweepUp(lsRest, Len(lsRanks))>>
  /\ lsRest' = << >>
  /\ UNCHANGED <<lsInput, lsRanks, lsMin>>

LsInit == /\ lsInput \in SortInputs
          /\ lsRest = [i \in DOMAIN lsInput |-> Node(i)]
          /\ lsRanks = << >> /\ lsMin = 0 /\ lsResult = << >>

LsNext == LsPair \/ LsSweep

LsSpec == LsInit /\ [][LsNext]_lsVars

-----------------------------------------------------------------------------
\* The invariant sort.frag.h:55 states, with which MAX_RANKS ranks suffice for
\* every list that fits into memory; the ranks below min_rank are NULL, or
\* sweep_up would forget them.
LsRanksLong ==
  /\ \A i \in DOMAIN lsRanks : lsRanks[i] # << >> => Len(lsRanks[i]) >= 2^i
  /\ \A i \in 1..lsMin : i \in DOMAIN lsRanks => lsRanks[i] = << >>

\* The older nodes are in the higher ranks: what makes the merges stable.
LsOlderAbove ==
  lsResult = << >> =>
    \A i, j \in DOMAIN lsRanks : i < j =>
      \A x \in DOMAIN lsRanks[i], y \in DOMAIN lsRanks[j] :
        lsRanks[j][y].place < lsRanks[i][x].place

\* The result is the one stable order of the input.
Stable(s) ==
  /\ Len(s) = Len(lsInput)
  /\ \A i \in DOMAIN lsInput : \E k \in DOMAIN s : s[k] = Node(i)
  /\ \A k, l \in DOMAIN s : k < l =>
       s[k].key < s[l].key \/ (s[k].key = s[l].key /\ s[k].place < s[l].place)

LsStable == lsResult # << >> => Stable(lsResult[1])

\* The list sort is stable and keeps within its ranks.
LsCorrect == LsRanksLong /\ LsOlderAbove /\ LsStable

-----------------------------------------------------------------------------
(***************************************************************************)
(* The quicksort of eglib (gqsort.c), one action per segment that is taken *)
(* from the stack.  Places are numbered from 1; a segment is its first     *)
(* place and its length.                                                   *)
(***************************************************************************)

CONSTANTS
  QsInputs,    \* sequences of keys
  Threshold    \* MAX_THRESHOLD, 7 in the code: shorter segments are sorted by insertion

ASSUME QSortAssumption == QsInputs \subseteq Seq(Int) /\ Threshold \in Nat /\ Threshold >= 3

\* The powers of 2 that the ranks and the depth of the stack are compared with.
ASSUME PowersAssumption ==
  \A s \in SortInputs \cup QsInputs : \A k \in 0..Len(s) : 2^k \in Nat \ {0} /\ 2^(k + 1) = 2 * 2^k

VARIABLES
  qsInput,   \* the argument, constant
  qsArray,   \* the array
  qsStack    \* the segments to be sorted, the next one last

qsVars == <<qsInput, qsArray, qsStack>>

QsTypeOK == /\ qsArray \in Seq(Int) /\ Len(qsArray) = Len(qsInput)
            /\ qsStack \in Seq([lo : DOMAIN qsInput, n : 2..Len(qsInput)])

-----------------------------------------------------------------------------
Swap(a, i, j) == [a EXCEPT ![i] = a[j], ![j] = a[i]]

\* Insertion sort of the places lo..hi.
InsertionSort(a, lo, hi) ==
  LET Sink[s \in [b : [DOMAIN a -> Int], k : lo..hi]] ==
        IF s.k > lo /\ s.b[s.k - 1] > s.b[s.k]
        THEN Sink[[b |-> Swap(s.b, s.k - 1, s.k), k |-> s.k - 1]] ELSE s.b
      Upto[i \in lo..hi] == IF i = lo THEN a ELSE Sink[[b |-> Upto[i - 1], k |-> i]]
  IN  Upto[hi]

\* lo, mid and hi in ascending order.
MedianOf3(a, lo, mid, hi) ==
  LET b == IF a[mid] < a[lo] THEN Swap(a, mid, lo) ELSE a
      c == Swap(b, mid, hi)
  IN  IF b[hi] < b[mid] THEN IF c[mid] < c[lo] THEN Swap(c, mid, lo) ELSE c ELSE b

\* The first place from i on, before k, that is larger than the pivot, or k (or i).
RightOf(a, i, k, mid) ==
  LET larger == {p \in i..(k - 1) : a[p] > a[mid]}
  IN  IF larger # {} THEN CHOOSE p \in larger : \A q \in larger : p <= q
      ELSE IF i < k THEN k ELSE i

\* The last place up to k, from i on, that is not larger, or i - 1 (or k).
LeftOf(a, i, k, mid) ==
  LET small == {p \in i..k : a[p] <= a[mid]}
  IN  IF small # {} THEN CHOOSE p \in small : \A q \in small : q <= p
      ELSE IF k >= i THEN i - 1 ELSE k

\* Mutant: the pivot is taken to stay where it was.
MovedPivotStays(mid, i, k) == mid

\* Where the pivot is, once the elements at i and k have changed places.
MovedPivot(mid, i, k) == IF mid = i THEN k ELSE IF mid = k THEN i ELSE mid

\* The do loop: what the array, k and the pivot's place are at its break.
Partition(a, i0, k0, mid0) ==
  LET Turn[s \in [a : [DOMAIN a -> Int], i : DOMAIN a, k : DOMAIN a, mid : DOMAIN a]] ==
        LET i == RightOf(s.a, s.i, s.k, s.mid)
            k == LeftOf(s.a, i, s.k, s.mid)
        IN  IF k <= i THEN [s EXCEPT !.k = k]
            ELSE Turn[[a |-> Swap(s.a, i, k), i |-> i + 1, k |-> k - 1,
                       mid |-> MovedPivot(s.mid, i, k)]]
  IN  Turn[[a |-> a, i |-> i0, k |-> k0, mid |-> mid0]]

\* Mutant: a single element is pushed too.
SegmentSingle(lo, n) == IF n > 0 THEN <<[lo |-> lo, n |-> n]>> ELSE << >>

Segment(lo, n) == IF n > 1 THEN <<[lo |-> lo, n |-> n]>> ELSE << >>

\* Mutant: the larger part is on top of the stack.
PushedSmallFirst(left, right) ==
  IF right # << >> /\ (left = << >> \/ right[1].n > left[1].n) THEN left \o right ELSE right \o left

\* The two parts, the larger one first.
Pushed2(left, right) ==
  IF right # << >> /\ (left = << >> \/ right[1].n > left[1].n) THEN right \o left ELSE left \o right

Top   == qsStack[Len(qsStack)]
Hi    == Top.lo + Top.n - 1
Below == SubSeq(qsStack, 1, Len(qsStack) - 1)

\* A short segment.
QsInsertion ==
  /\ qsStack # << >> /\ Top.n < Threshold
  /\ qsArray' = InsertionSort(qsArray, Top.lo, Hi)
  /\ qsStack' = Below
  /\ UNCHANGED qsInput

\* Mutant: the pivot is left to the right part.
QsPartitionOpen ==
  /\ qsStack # << >> /\ Top.n >= Threshold
  /\ LET mid == Top.lo + Top.n \div 2
         p   == Partition(MedianOf3(qsArray, Top.lo, mid, Hi), Top.lo + 1, Hi - 1, mid)
     IN  /\ qsArray' = Swap(p.a, p.mid, p.k)
         /\ qsStack' = Below \o Pushed2(Segment(Top.lo, p.k - Top.lo), Segment(p.k, Hi - p.k + 1))
  /\ UNCHANGED qsInput

\* A long one is partitioned, and its pivot goes between the parts.
QsPartition ==
  /\ qsStack # << >> /\ Top.n >= Threshold
  /\ LET mid == Top.lo + Top.n \div 2
         p   == Partition(MedianOf3(qsArray, Top.lo, mid, Hi), Top.lo + 1, Hi - 1, mid)
     IN  /\ qsArray' = Swap(p.a, p.mid, p.k)
         /\ qsStack' = Below \o Pushed2(Segment(Top.lo, p.k - Top.lo), Segment(p.k + 1, Hi - p.k))
  /\ UNCHANGED qsInput

QsInit == /\ qsInput \in QsInputs
          /\ qsArray = qsInput
          /\ qsStack = Segment(1, Len(qsInput))

QsNext == QsInsertion \/ QsPartition

QsSpec == QsInit /\ [][QsNext]_qsVars

-----------------------------------------------------------------------------
\* Two elements that are not in one segment of the stack are in order already:
\* with an empty stack, all are; none is lost.
Together(i, j) == \E s \in DOMAIN qsStack :
                    {i, j} \subseteq qsStack[s].lo..(qsStack[s].lo + qsStack[s].n - 1)

QsPartitioned ==
  /\ \A i, j \in DOMAIN qsArray : i < j /\ qsArray[i] > qsArray[j] => Together(i, j)
  /\ \A x \in {qsInput[i] : i \in DOMAIN qsInput} :
       Cardinality({i \in DOMAIN qsArray : qsArray[i] = x})
         = Cardinality({i \in DOMAIN qsInput : qsInput[i] = x})

\* The stack, which has room for as many segments as size_t has bits, is never
\* deeper than the logarithm of the number of elements: no segment is shorter
\* than one above it.
QsStackShallow ==
  /\ 2^Len(qsStack) <= 2 * Len(qsInput) \/ qsStack = << >>
  /\ \A i \in DOMAIN qsStack : i < Len(qsStack) =>
       \A j \in (i + 1)..Len(qsStack) : qsStack[j].n <= qsStack[i].n

\* The loop ends: what is pushed for a segment is shorter than the segment and
\* lies inside of it, the two parts apart from each other.
QsShrinks ==
  [][qsStack # << >> =>
     LET new == SubSeq(qsStack', Len(qsStack), Len(qsStack'))
     IN  /\ \A i \in DOMAIN new : /\ new[i].n < Top.n /\ new[i].lo >= Top.lo
                                   /\ new[i].lo + new[i].n - 1 <= Hi
         /\ \A i, j \in DOMAIN new : i # j /\ new[i].lo < new[j].lo =>
              new[i].lo + new[i].n < new[j].lo]_qsStack

\* The quick sort sorts, and within its stack.
QsCorrect == QsPartitioned /\ QsStackShallow

=============================================================================
