------------------------------- MODULE GArray -------------------------------
(***************************************************************************)
(* The array of elements of eglib (garray.c).  An element is one cell.     *)
(* gaFlags, fixed when the array is made, says whether new cells are       *)
(* cleared and whether an element of zeros is kept behind the last one.    *)
(***************************************************************************)
EXTENDS Memory, SequencesExt

CONSTANTS
  Elements,    \* what a caller stores
  Zero,        \* the element of zeros
  Block,       \* capacities are multiples of it, 64 in the code
  Initial,     \* capacity asked for by g_array_new, 16 in the code
  MaxElements  \* bound: elements of the array

ASSUME GArrayAssumption ==
  /\ Junk \notin Elements /\ Zero \in Elements
  /\ Block \in Nat \ {0} /\ Initial \in 1..Block /\ MaxElements \in Nat

VARIABLES
  gaFlags,     \* [clear: clear_, zero: zero_terminated]
  gaData,      \* the block
  gaLen,       \* len
  gaCapacity,  \* capacity
  gaWanted,    \* the elements as the caller has made them, Junk where none was set
  gaSized,     \* what g_array_set_size has done last: "no" | "cut" | "grown"
  gaWild       \* an access has been outside of the block

gaVars == <<gaFlags, gaData, gaLen, gaCapacity, gaWanted, gaSized, gaWild>>

GaTypeOK ==
  /\ gaFlags \in [clear : BOOLEAN, zero : BOOLEAN]
  /\ gaCapacity \in Nat /\ gaCapacity % Block = 0
  /\ gaData \in [0..(gaCapacity - 1) -> Elements \cup {Junk}]
  /\ gaLen \in 0..(MaxElements + 1)
  /\ gaWanted \in Seq(Elements \cup {Junk})
  /\ gaSized \in {"no", "cut", "grown"} /\ gaWild \in BOOLEAN

-----------------------------------------------------------------------------
Extra == IF gaFlags.zero THEN 1 ELSE 0

\* Mutant: the capacity is not rounded up.
EnsuredExact(n) == IF n <= gaCapacity THEN gaCapacity ELSE n

\* ensure_capacity: the capacity, rounded up, and the block with its new cells.
Ensured(n) == IF n <= gaCapacity THEN gaCapacity ELSE ((n + Block - 1) \div Block) * Block

\* Mutant: the cells that are added are never cleared.
EnsuredBlockUnset(n) == Realloc(gaData, Ensured(n))

EnsuredBlock(n) ==
  LET block == Realloc(gaData, Ensured(n))
  IN  IF gaFlags.clear THEN Fill(block, gaCapacity, Ensured(n) - gaCapacity, Zero) ELSE block

\* What every function that changes the length does at its end.
Finish(block, n, wanted, legal) ==
  /\ gaData' = IF gaFlags.zero THEN Fill(block, n, 1, Zero) ELSE block
  /\ gaLen' = n /\ gaWanted' = wanted
  /\ gaWild' = (gaWild \/ ~legal \/ (gaFlags.zero /\ ~Inside(block, n, 1)))
  /\ gaSized' = "no"
  /\ UNCHANGED gaFlags

\* Mutant: the terminator has no room of its own.
GaInsertTight(at, word) ==
  LET n     == Len(word)
      block == EnsuredBlock(gaLen + n)
  IN  /\ gaLen + n <= MaxElements
      /\ gaCapacity' = Ensured(gaLen + n)
      /\ Finish(Store(Move(block, at + n, at, gaLen - at), at, word), gaLen + n,
                SubSeq(gaWanted, 1, at) \o word \o SubSeq(gaWanted, at + 1, gaLen),
                Inside(block, at + n, gaLen - at))

\* g_array_insert_vals; g_array_append_vals is the insertion at the end.
GaInsert(at, word) ==
  LET n     == Len(word)
      block == EnsuredBlock(gaLen + n + Extra)
  IN  /\ gaLen + n <= MaxElements
      /\ gaCapacity' = Ensured(gaLen + n + Extra)
      /\ Finish(Store(Move(block, at + n, at, gaLen - at), at, word), gaLen + n,
                SubSeq(gaWanted, 1, at) \o word \o SubSeq(gaWanted, at + 1, gaLen),
                Inside(block, at + n, gaLen - at))

\* Mutant: as many elements move as are behind the removed one, from it on.
ClosedOver(at) == Move(gaData, at, at + 1, gaLen - at - 2)

\* The elements behind `at' move over it, and one more than there are.
Closed(at) == Move(gaData, at, at + 1, gaLen - at)

\* g_array_remove_index
GaRemove(at) ==
  /\ UNCHANGED gaCapacity
  /\ Finish(Closed(at), gaLen - 1, RemoveAt(gaWanted, at + 1), Inside(gaData, at + 1, gaLen - at))

\* g_array_remove_index_fast
GaRemoveFast(at) ==
  /\ UNCHANGED gaCapacity
  /\ Finish(Move(gaData, at, gaLen - 1, 1), gaLen - 1,
            [k \in 1..(gaLen - 1) |-> IF k = at + 1 THEN gaWanted[gaLen] ELSE gaWanted[k]], TRUE)

\* g_array_set_size: a length equal to the capacity is taken as nothing to do, also by
\* an array that is shorter.  The terminator is not set and has no room made for it,
\* and cells that were in use before keep their contents.
GaSetSize(n) ==
  /\ UNCHANGED <<gaFlags, gaWild>>
  /\ IF n = gaCapacity
     THEN UNCHANGED <<gaData, gaLen, gaCapacity, gaWanted, gaSized>>
     ELSE /\ gaCapacity' = Ensured(n)
          /\ gaData' = EnsuredBlock(n)
          /\ gaLen' = n
          /\ gaSized' = IF n <= gaLen THEN "cut" ELSE "grown"
          /\ gaWanted' = IF n <= gaLen THEN SubSeq(gaWanted, 1, n)
                         ELSE gaWanted \o [k \in 1..(n - gaLen) |-> Junk]

\* g_array_new, g_array_sized_new
GaInit == /\ gaFlags \in [clear : BOOLEAN, zero : BOOLEAN]
          /\ \E reserved \in {0, Initial, Block + 1} :
               gaCapacity = ((reserved + Block - 1) \div Block) * Block
          /\ gaData = [i \in 0..(gaCapacity - 1) |-> IF gaFlags.clear THEN Zero ELSE Junk]
          /\ gaLen = 0 /\ gaWanted = << >> /\ gaSized = "no" /\ gaWild = FALSE

\* Nothing is called after an access outside of the block.
GaNext == /\ ~gaWild
          /\ \/ \E at \in 0..gaLen, word \in {<<e>> : e \in Elements} \cup {<<e, e>> : e \in Elements} :
                  GaInsert(at, word)
             \/ \E at \in 0..(gaLen - 1) : GaRemove(at) \/ GaRemoveFast(at)
             \/ \E n \in 0..MaxElements : GaSetSize(n)

GaSpec == GaInit /\ [][GaNext]_gaVars

-----------------------------------------------------------------------------
\* The elements are those the caller has made with insertions, removals and changes
\* of the size, in every order of them and over every growth of the block; what
\* g_array_set_size adds is no element until one takes its place.
GaExact == /\ Len(gaWanted) = gaLen
           /\ \A i \in 1..gaLen : gaWanted[i] \in {gaData[i - 1], Junk}

\* An array that keeps a zero element has room for it and keeps it there
\* (ensure_capacity, garray.c:124 and :152), until g_array_set_size moves the end
\* without it.
GaTerminated ==
  gaFlags.zero /\ gaSized = "no" /\ gaLen > 0 => gaLen < gaCapacity /\ gaData[gaLen] = Zero

\* A zero-terminated array is full only while g_array_set_size has made it so.
GaHasRoom == gaFlags.zero /\ gaSized # "grown" /\ gaLen > 0 => gaLen < gaCapacity

\* A cleared array never shows a cell that nobody has set.
GaCleared == gaFlags.clear => \A i \in 0..(gaCapacity - 1) : gaData[i] # Junk \/ gaWild

\* The elements are the caller's, with the zero element behind them that was asked
\* for and cleared cells where these were asked for.
GaCorrect == GaExact /\ GaTerminated /\ GaHasRoom /\ GaCleared

\* One call reaches outside of the block: g_array_remove_index on an array that is full
\* reads the cell behind it (garray.c:183).  A zero-terminated array is full only right
\* after g_array_set_size has grown it to the end of its block.
GaStaysInside ==
  [][gaWild' => /\ \E at \in 0..(gaLen - 1) : GaRemove(at)
                /\ gaLen = gaCapacity
                /\ gaFlags.zero => gaSized = "grown"]_gaVars

=============================================================================
