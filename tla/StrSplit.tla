------------------------------ MODULE StrSplit ------------------------------
(***************************************************************************)
(* g_strsplit (eglib/gstr.c), one action per turn of its loop.  A token is *)
(* kept as the place in the string it was copied from, start and length;   *)
(* the vector as the number of pointers allocated for it.                  *)
(***************************************************************************)
EXTENDS Integers, Sequences

CONSTANTS
  Chars,     \* characters
  Strings,   \* the strings that are split, sequences of characters
  Delims,    \* delimiters
  Limits     \* values of max_tokens

ASSUME StrSplitAssumption ==
  /\ Strings \subseteq Seq(Chars)
  /\ Delims \subseteq Seq(Chars) \ {<< >>}
  /\ Limits \subseteq Int

VARIABLES
  spText,    \* the argument `string'
  spDelim,   \* the argument `delimiter'
  spMax,     \* the argument `max_tokens'
  spPc,      \* "lead", "loop", "rest", "done"
  spPos,     \* the characters the pointer `string' has advanced by
  spTokens,  \* what was added to the vector
  spSize,
  spCap      \* pointers allocated for the vector, 0 when it is NULL

spVars == <<spText, spDelim, spMax, spPc, spPos, spTokens, spSize, spCap>>

D == Len(spDelim)
N == Len(spText)
Span(a, n) == [start |-> a, len |-> n]
End(i)     == spTokens[i].start + spTokens[i].len

\* strncmp at place i of the string
AtDelim(i) == i + D <= N /\ SubSeq(spText, i + 1, i + D) = spDelim

-----------------------------------------------------------------------------
\* Mutant: the vector only ever grows by the token.
AddedTight(t) == spTokens' = Append(spTokens, t) /\ spCap' = IF spCap = 0 THEN 1 ELSE spSize

\* add_to_vector
Added(t) == spTokens' = Append(spTokens, t) /\ spCap' = IF spCap = 0 THEN 2 ELSE spSize + 1

\* A string that starts with the delimiter has an empty first token, whatever the limit.
Lead ==
  /\ spPc = "lead"
  /\ IF AtDelim(0)
     THEN Added(Span(0, 0)) /\ spSize' = 2 /\ spPos' = D
     ELSE UNCHANGED <<spTokens, spCap, spSize, spPos>>
  /\ spPc' = "loop"
  /\ UNCHANGED <<spText, spDelim, spMax>>

\* Mutant: one token more than the limit.
MoreLate == spPos < N /\ ~(spMax > 0 /\ spSize > spMax)

More == spPos < N /\ ~(spMax > 0 /\ spSize >= spMax)

\* Mutant: the delimiter after an empty token is not stepped over.
EmptyTokenStays ==
  /\ spPc = "loop" /\ More /\ AtDelim(spPos)
  /\ Added(Span(spPos, 0)) /\ spSize' = spSize + 1
  /\ UNCHANGED <<spText, spDelim, spMax, spPc, spPos>>

EmptyToken ==
  /\ spPc = "loop" /\ More /\ AtDelim(spPos)
  /\ Added(Span(spPos, 0)) /\ spSize' = spSize + 1
  /\ spPos' = spPos + D
  /\ UNCHANGED <<spText, spDelim, spMax, spPc>>

\* Mutant: the final delimiter is stepped over like any other.
PastAlways(e) == e + D

\* Mutant: a character too many is stepped over.
PastOne(e) == e + D + 1

\* The pointer stays at a delimiter that ends the string.
Past(e) == IF e + D = N THEN e ELSE e + D

\* A token up to the next delimiter, e.
Token(e) ==
  /\ spPc = "loop" /\ More /\ ~AtDelim(spPos)
  /\ e > spPos /\ AtDelim(e) /\ \A j \in spPos..(e - 1) : ~AtDelim(j)
  /\ Added(Span(spPos, e - spPos)) /\ spSize' = spSize + 1
  /\ spPos' = Past(e)
  /\ UNCHANGED <<spText, spDelim, spMax, spPc>>

LastToken ==
  /\ spPc = "loop" /\ More /\ \A j \in spPos..N : ~AtDelim(j)
  /\ Added(Span(spPos, N - spPos)) /\ spSize' = spSize + 1
  /\ spPos' = N
  /\ UNCHANGED <<spText, spDelim, spMax, spPc>>

\* Past the limit the rest of the string is the last token.
Rest ==
  /\ spPc = "loop" /\ ~More
  /\ IF spPos < N
     THEN Added(Span(spPos, N - spPos)) /\ spSize' = spSize + 1
     ELSE UNCHANGED <<spTokens, spCap, spSize>>
  /\ spPc' = "rest"
  /\ UNCHANGED <<spText, spDelim, spMax, spPos>>

\* The terminating NULL goes to vector[size - 1], or to the vector allocated for it.
Terminate ==
  /\ spPc = "rest"
  /\ spCap' = IF spCap = 0 THEN 2 ELSE spCap
  /\ spPc' = "done"
  /\ UNCHANGED <<spText, spDelim, spMax, spPos, spTokens, spSize>>

SpInit ==
  /\ spText \in Strings /\ spDelim \in Delims /\ spMax \in Limits
  /\ spPc = "lead" /\ spPos = 0 /\ spTokens = << >> /\ spSize = 1 /\ spCap = 0

SpNext ==
  \/ Lead \/ EmptyToken \/ LastToken \/ Rest \/ Terminate
  \/ \E e \in 1..N : Token(e)

SpSpec == SpInit /\ [][SpNext]_spVars

-----------------------------------------------------------------------------
(* Properties *)

SpTypeOK ==
  /\ spPc \in {"lead", "loop", "rest", "done"}
  /\ spPos \in 0..N
  /\ spTokens \in Seq([start : 0..N, len : 0..N])
  /\ spSize \in Nat /\ spCap \in Nat

\* Every pointer that is stored, the terminating NULL included, has room in the vector.
Fits == /\ spSize = Len(spTokens) + 1
        /\ spTokens # << >> => spCap > Len(spTokens)
        /\ spPc = "done" => spCap >= spSize

\* Nothing of the string is lost and nothing is returned twice: tokens lie side by
\* side, a delimiter apart, save for one that was cut at a delimiter ending the string.
Tiled ==
  /\ spTokens # << >> => spTokens[1].start = 0
  /\ \A i \in 1..(Len(spTokens) - 1) :
       \/ spTokens[i + 1].start = End(i) + D /\ AtDelim(End(i))
       \/ /\ spTokens[i + 1].start = End(i) /\ i + 1 = Len(spTokens)
          /\ AtDelim(End(i)) /\ End(i) + D = N
  /\ spPc = "done" => IF spTokens = << >> THEN N = 0
                    ELSE \/ End(Len(spTokens)) = N
                         \/ End(Len(spTokens)) + D = N /\ AtDelim(End(Len(spTokens)))

\* Each turn of the loop brings its end nearer: the pointer advances, or stops at the
\* delimiter that ends the string, which the next turn steps over.
Left == 2 * (N - spPos) + IF AtDelim(spPos) THEN 0 ELSE 1
Advances == [][spPc = "loop" /\ spPc' = "loop" => Left' < Left]_spVars

\* The limit holds, but for a string that starts with the delimiter.
WithinLimit == spMax > 0 => Len(spTokens) <= IF AtDelim(0) /\ spMax = 1 THEN 2 ELSE spMax

\* At every turn the tokens are in the vector with room for one NULL more, side by
\* side in the string, and no more than the limit.
SplitExact == Fits /\ Tiled /\ WithinLimit

=============================================================================
