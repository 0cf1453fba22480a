------------------------------- MODULE Memory -------------------------------
(***************************************************************************)
(* Blocks of memory as the containers of eglib use them: a block of n      *)
(* cells is a function on 0..(n - 1).  Cells that nobody has written hold  *)
(* Junk.  What malloc, realloc, memmove, memcpy and memset do to a block;  *)
(* an access is defined only Inside the block, which the containers record *)
(* with each of theirs.                                                    *)
(***************************************************************************)
EXTENDS Integers, Sequences

CONSTANT Junk

\* All cells at, at + 1, ..., at + n - 1 belong to the block.
Inside(m, at, n) == at..(at + n - 1) \subseteq DOMAIN m

Alloc(n) == [i \in 0..(n - 1) |-> Junk]

Realloc(m, n) == [i \in 0..(n - 1) |-> IF i \in DOMAIN m THEN m[i] ELSE Junk]

Fill(m, at, n, v) == [i \in DOMAIN m |-> IF i \in at..(at + n - 1) THEN v ELSE m[i]]

\* A sequence stored from cell at on.
Store(m, at, s) == [i \in DOMAIN m |-> IF i \in at..(at + Len(s) - 1) THEN s[i - at + 1] ELSE m[i]]

\* memmove of n cells; what is read from outside of the block is Junk.
Move(m, to, from, n) ==
  [i \in DOMAIN m |->
     IF i \in to..(to + n - 1)
     THEN IF from + i - to \in DOMAIN m THEN m[from + i - to] ELSE Junk
     ELSE m[i]]

\* The n cells from the start of the block as a sequence.
Contents(m, n) == [i \in 1..n |-> m[i - 1]]

=============================================================================
