------------------------------ MODULE PtrArray ------------------------------
(***************************************************************************)
(* The growable array of pointers of eglib (gptrarray.c): a block of       *)
(* arrSize cells of which the first arrLen are in use.  One action per     *)
(* public function that changes it; the caller passes indices of entries   *)
(* that exist, as its checks do not (gptrarray.c:129 and :150).            *)
(***************************************************************************)
EXTENDS Memory, SequencesExt

CONSTANTS
  Items,      \* pointers of the caller
  Null,       \* the NULL pointer
  Rank,       \* order of the pointers under the caller's comparison
  MinSize,    \* least capacity, 16 in the code
  Width,      \* bits of guint
  MaxEntries  \* bound: entries the caller asks for

Uint == 2^Width

\* An array holds a quarter of guint at most: g_ptr_array_set_size asks for more room
\* than it needs, and the doubling beyond half of guint would never end.
ASSUME PtrArrayAssumption ==
  /\ Null \notin Items /\ Junk \notin Items \cup {Null}
  /\ MinSize \in Nat \ {0} /\ Width \in Nat \ {0} /\ MaxEntries \in Nat
  /\ 4 * MaxEntries <= Uint
  /\ Rank \in [Items \cup {Null} -> Int]

\* What is used of powers.
ASSUME PowerAssumption == \A k \in 0..Width : 2^k \in Nat \ {0} /\ 2^(k + 1) = 2 * 2^k

VARIABLES
  pdata,      \* the block
  arrLen,     \* len
  arrSize,    \* size, the capacity as the array believes it
  arrState,   \* "none" | "live" | "looping" (the doubling never ends)
  arrWild     \* an access has been outside of the block

arrVars == <<pdata, arrLen, arrSize, arrState, arrWild>>

ArrTypeOK ==
  /\ arrSize \in Nat /\ arrLen \in 0..arrSize
  /\ pdata \in [0..(arrSize - 1) -> Items \cup {Null, Junk}]
  /\ arrState \in {"none", "live", "looping"}
  /\ arrWild \in BOOLEAN

-----------------------------------------------------------------------------
\* Mutant: half of the block is to stay free.
EndsLate(n) == {s \in {(2^k) % Uint : k \in 0..Width} : s >= 2 * n}

\* size = 1; while (size < n) size <<= 1, in guint: the sizes that end the loop.
Ends(n) == {s \in {(2^k) % Uint : k \in 0..Width} : s >= n}

Wanted(n)  == (arrLen + n) % Uint
HasRoom(n) == Wanted(n) <= arrSize

\* g_ptr_array_grow: the capacity for arrLen + n entries, or none when the loop
\* would not end.
Capacities(n) ==
  IF HasRoom(n) THEN {arrSize}
  ELSE {IF s < MinSize THEN MinSize ELSE s :
          s \in {e \in Ends(Wanted(n)) : \A f \in Ends(Wanted(n)) : e <= f}}

\* The function ends up with the first n cells of the block in use.
Leave(block, n, legal) ==
  /\ pdata' = block /\ arrLen' = n
  /\ arrWild' = (arrWild \/ ~legal)
  /\ UNCHANGED arrState

Loop(n) == /\ Capacities(n) = {}
           /\ arrState' = "looping"
           /\ UNCHANGED <<pdata, arrLen, arrSize, arrWild>>

\* g_ptr_array_new, g_ptr_array_sized_new
ArrNew(reserved) ==
  /\ arrState = "none"
  /\ \/ reserved > 0 /\ Loop(reserved)
     \/ \E size \in IF reserved > 0 THEN Capacities(reserved) ELSE {0} :
          /\ arrSize' = size /\ pdata' = Alloc(size)
          /\ arrLen' = 0 /\ arrState' = "live"
          /\ UNCHANGED arrWild

\* g_ptr_array_free; the segment is freed too or goes to the caller.
ArrFree ==
  /\ arrState = "live"
  /\ arrState' = "none" /\ arrLen' = 0 /\ arrSize' = 0 /\ pdata' = Alloc(0)
  /\ UNCHANGED arrWild

\* Mutant: room for the entries that are there, not for one more.
ArrAddTight(x) ==
  /\ arrState = "live" /\ arrLen < MaxEntries
  /\ \E size \in Capacities(0) :
       LET block == Realloc(pdata, size)
       IN  /\ arrSize' = size
           /\ Leave(Fill(block, arrLen, 1, x), arrLen + 1, Inside(block, arrLen, 1))

\* g_ptr_array_add
ArrAdd(x) ==
  /\ arrState = "live" /\ arrLen < MaxEntries
  /\ \/ Loop(1)
     \/ \E size \in Capacities(1) :
          LET block == Realloc(pdata, size)
          IN  /\ arrSize' = size
              /\ Leave(Fill(block, arrLen, 1, x), arrLen + 1, Inside(block, arrLen, 1))

\* Mutant: new entries are left as the block has them.
ArrSetSizeUnset(n) ==
  /\ arrState = "live"
  /\ \E size \in IF n > arrLen THEN Capacities(n) ELSE {arrSize} :
       arrSize' = size /\ Leave(Realloc(pdata, size), n, TRUE)

\* g_ptr_array_set_size: asks for room for n more entries, then clears the new ones.
ArrSetSize(n) ==
  /\ arrState = "live"
  /\ \/ /\ n > arrLen /\ Loop(n)
     \/ /\ n > arrLen
        /\ \E size \in Capacities(n) :
             LET block == Realloc(pdata, size)
             IN  /\ arrSize' = size
                 /\ Leave(Fill(block, arrLen, n - arrLen, Null), n, Inside(block, arrLen, n - arrLen))
     \/ /\ n <= arrLen
        /\ UNCHANGED arrSize
        /\ Leave(pdata, n, TRUE)

\* Mutant: the entries behind the removed one move by one too few.
ShiftedShort(i) == Move(pdata, i, i + 1, arrLen - i - 2)

\* The entries behind entry i, moved over it.
Shifted(i) == IF i = arrLen - 1 THEN pdata ELSE Move(pdata, i, i + 1, arrLen - i - 1)

\* g_ptr_array_remove_index, and g_ptr_array_remove by its first entry
ArrRemoveIndex(i) ==
  /\ arrState = "live"
  /\ UNCHANGED arrSize
  /\ Leave(Fill(Shifted(i), arrLen - 1, 1, Null), arrLen - 1,
           Inside(pdata, i + 1, arrLen - i - 1) /\ Inside(pdata, arrLen - 1, 1))

Holds(x) == \E i \in 0..(arrLen - 1) : pdata[i] = x

IsFirst(i, x) == pdata[i] = x /\ \A j \in 0..(i - 1) : pdata[j] # x

ArrRemove(x) == \E i \in 0..(arrLen - 1) : IsFirst(i, x) /\ ArrRemoveIndex(i)

\* g_ptr_array_remove_index_fast
ArrRemoveIndexFast(i) ==
  LET swapped == IF i = arrLen - 1 THEN pdata ELSE Move(pdata, i, arrLen - 1, 1)
  IN  /\ arrState = "live"
      /\ UNCHANGED arrSize
      /\ Leave(Fill(swapped, arrLen - 1, 1, Null), arrLen - 1,
               Inside(pdata, i, 1) /\ Inside(pdata, arrLen - 1, 1))

\* g_ptr_array_remove_fast: the last entry moves, and its cell keeps it too.
ArrRemoveFast(x) ==
  /\ arrState = "live"
  /\ UNCHANGED arrSize
  /\ \E i \in 0..(arrLen - 1) :
       /\ IsFirst(i, x)
       /\ Leave(Fill(pdata, i, 1, IF arrLen > 1 THEN pdata[arrLen - 1] ELSE Null), arrLen - 1,
                Inside(pdata, arrLen - 1, 1))

\* g_ptr_array_sort: some order that qsort may leave.
ArrSort ==
  /\ arrState = "live" /\ arrLen > 1
  /\ UNCHANGED arrSize
  /\ \E p \in [1..arrLen -> 1..arrLen] :
       LET s == [k \in 1..arrLen |-> pdata[p[k] - 1]]
       IN  /\ \A i, j \in 1..arrLen : i # j => p[i] # p[j]
           /\ \A i, j \in 1..arrLen : i < j => Rank[s[i]] <= Rank[s[j]]
           /\ Leave(Store(pdata, 0, s), arrLen, TRUE)

ArrInit == /\ pdata = Alloc(0) /\ arrLen = 0 /\ arrSize = 0
           /\ arrState = "none" /\ arrWild = FALSE

ArrNext ==
  \/ \E n \in 0..MaxEntries : ArrNew(n) \/ ArrSetSize(n)
  \/ ArrFree
  \/ \E x \in Items : ArrAdd(x) \/ ArrRemove(x) \/ ArrRemoveFast(x)
  \/ \E i \in 0..(arrLen - 1) : ArrRemoveIndex(i) \/ ArrRemoveIndexFast(i)
  \/ ArrSort

ArrSpec == ArrInit /\ [][ArrNext]_arrVars

-----------------------------------------------------------------------------
\* No function reads or writes outside of the block, whatever came before: the
\* capacity the array believes in is that of the block (g_ptr_array_grow).
ArrStaysInside == ~arrWild

\* The doubling of the capacity ends, although g_ptr_array_set_size asks for
\* more than it needs.
ArrGrowthEnds == arrState # "looping"

\* What the caller sees is a sequence: every function does to the entries what
\* its name says, a grown array shows NULL and never an entry removed before
\* (g_ptr_array_remove_fast leaves one behind the end).
Seen == Contents(pdata, arrLen)

ArrImplements == INSTANCE Vector WITH items <- Seen
ArrIsVector   == ArrImplements!VectorSpec

\* An array grows in time and never reaches outside of its block.
ArrCorrect == ArrStaysInside /\ ArrGrowthEnds

=============================================================================
