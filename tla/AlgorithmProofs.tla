-------------------------- MODULE AlgorithmProofs --------------------------
(***************************************************************************)
(* What is proved of the digests, of the modes of the block cipher and of  *)
(* the sorts, said of the specification that TLC runs: it has the other    *)
(* algorithms beside them, which touch none of these.  What is proved of   *)
(* g_strsplit, which cuts text at a delimiter, follows.                    *)
(***************************************************************************)
EXTENDS MCText, EncryptionProofs, SortProofs

-----------------------------------------------------------------------------
(* All algorithms *)

\* Every algorithm begins where it does alone.
LEMMA PartsBegin == MCInit => DgInit /\ CmInit /\ LsInit /\ QsInit
<1> SUFFICES ASSUME MCInit PROVE DgInit /\ CmInit /\ LsInit /\ QsInit
  OBVIOUS
<1>1. PICK p \in Algorithms :
        /\ IF p = "digest" THEN DgInit ELSE DgIdle /\ DgInit
        /\ IF p = "cipher" THEN CmInit ELSE CmIdle /\ CmInit
        /\ IF p = "list sort" THEN LsInit ELSE lsInput = << >> /\ LsInit
        /\ IF p = "qsort" THEN QsInit ELSE qsInput = << >> /\ QsInit
  BY Zenon DEF MCInit
<1> QED  BY <1>1, Zenon

\* A step of one algorithm leaves the variables of the others alone.
LEMMA PartsStep ==
  ASSUME [MCNext]_MCVars
  PROVE  [DgNext]_dgVars /\ [CmNext]_cmVars /\ [LsNext]_lsVars /\ [QsNext]_qsVars
<1>1. CASE UNCHANGED MCVars
  BY <1>1, Zenon DEF MCVars
<1>2. CASE MCNext
  <2>1. [DgNext]_dgVars
    BY <1>2, Zenon DEF MCNext
  <2>2. [CmNext]_cmVars
    BY <1>2, Zenon DEF MCNext
  <2>3. [LsNext]_lsVars
    BY <1>2, Zenon DEF MCNext
  <2>4. [QsNext]_qsVars
    BY <1>2, Zenon DEF MCNext
  <2> QED  BY <2>1, <2>2, <2>3, <2>4
<1> QED  BY <1>1, <1>2

LEMMA PartsAre == MCSpec => DgSpec /\ CmSpec /\ LsSpec /\ QsSpec
<1>1. MCSpec => MCInit /\ [][MCNext]_MCVars
  BY PTL DEF MCSpec
<1> QED  BY <1>1, PartsBegin, PartsStep, PTL DEF DgSpec, CmSpec, LsSpec, QsSpec

\* The digests and the modes of the block cipher are right in the specification that TLC
\* runs: MD5Final and sha256_final have compressed all of what was passed to their update
\* functions, and the functions of rijndael.c write what the mode is defined to be.
THEOREM EncryptionIsRight == MCSpec => []CryptoCorrect
BY PartsAre, DigestOfAll, ModesAreRight, PTL DEF CryptoCorrect

\* Both sorts of eglib (sort.frag.h, gqsort.c) are right in it, for any lists and arrays:
\* the merge sort is stable and its ranks suffice, the quicksort sorts within its stack.
THEOREM SortsAreRight == MCSpec => []SortsCorrect
BY PartsAre, ListSortIsStable, QuickSortSorts, PTL DEF SortsCorrect

\* Each step of the quicksort's loop narrows what is left to sort.
THEOREM QuickSortEnds == MCSpec => QsShrinks
BY PartsAre, QuickSortNarrows, PTL

-----------------------------------------------------------------------------
(* g_strsplit, for every string, delimiter and limit                       *)
(*                                                                         *)
(* Tiled says how tokens lie to one another; what makes it inductive is    *)
(* where the pointer stands after the last of them (PointerAt), and that a *)
(* token cut at the final delimiter is followed by one more at most.       *)

EndOf(q, i) == q[i].start + q[i].len

\* The next token begins a delimiter after the end of this one.
Apart(q, i) == q[i + 1].start = EndOf(q, i) + D /\ AtDelim(EndOf(q, i))

\* A cut at the final delimiter: the next token begins where this one ends.
Cut(q, i) == q[i + 1].start = EndOf(q, i) /\ AtDelim(EndOf(q, i)) /\ EndOf(q, i) + D = N

\* The tokens tile the string.
Tiles(q) ==
  /\ q \in Seq([start : 0..N, len : 0..N])
  /\ q # << >> => q[1].start = 0
  /\ \A i \in 1..Len(q) : EndOf(q, i) <= N
  /\ \A i \in 1..(Len(q) - 1) : Apart(q, i) \/ (Cut(q, i) /\ i + 1 = Len(q))

\* Where the pointer stands while the loop runs.
PointerAt(q, p) ==
  IF q = << >> THEN p = 0
  ELSE LET e == EndOf(q, Len(q))
       IN  \/ p = e + D /\ AtDelim(e)
           \/ p = e /\ AtDelim(e) /\ e + D = N
           \/ p = e /\ e = N

\* While there is something left, no token was cut.
Uncut(q, p) == p # N => \A i \in 1..(Len(q) - 1) : Apart(q, i)

Covered(q) == IF q = << >> THEN N = 0
              ELSE LET e == EndOf(q, Len(q)) IN e = N \/ (e + D = N /\ AtDelim(e))

SpInv ==
  /\ SpTypeOK /\ spText \in Strings /\ spDelim \in Delims /\ spMax \in Int
  /\ Tiles(spTokens)
  /\ spSize = Len(spTokens) + 1
  /\ spTokens # << >> \/ spPc = "done" => spCap >= spSize
  /\ spTokens = << >> /\ spPc # "done" => spCap = 0
  /\ spPc = "lead" => spTokens = << >> /\ spPos = 0
  /\ spPc = "loop" => PointerAt(spTokens, spPos) /\ Uncut(spTokens, spPos)
  /\ spPc \in {"rest", "done"} => Covered(spTokens)
  /\ spPc = "loop" /\ spMax > 0 => spSize <= spMax \/ (AtDelim(0) /\ spMax = 1 /\ spSize = 2)
  /\ WithinLimit

-----------------------------------------------------------------------------
(* Adding a token *)

\* Append leaves the tokens that are there where they are.
LEMMA AppendFacts ==
  ASSUME NEW S, NEW q \in Seq(S), NEW t \in S
  PROVE  /\ Append(q, t) \in Seq(S) /\ Append(q, t) # << >>
         /\ Len(Append(q, t)) = Len(q) + 1 /\ Len(q) \in Nat
         /\ \A i \in 1..Len(q) : Append(q, t)[i] = q[i]
         /\ Append(q, t)[Len(q) + 1] = t
OBVIOUS

\* The string and the delimiter have a length.
LEMMA Lengths ==
  ASSUME spText \in Strings /\ spDelim \in Delims
  PROVE  N \in Nat /\ D \in Nat \ {0}
BY StrSplitAssumption DEF N, D

\* A token that is copied from where the pointer stands continues the tiling.
LEMMA OneFurther ==
  ASSUME spText \in Strings /\ spDelim \in Delims, Tiles(spTokens), spPos \in 0..N,
         PointerAt(spTokens, spPos), Uncut(spTokens, spPos), spPos # N,
         NEW l \in 0..N, spPos + l <= N,
         NEW q, q = Append(spTokens, Span(spPos, l))
  PROVE  /\ Tiles(q) /\ q # << >> /\ Len(q) = Len(spTokens) + 1
         /\ EndOf(q, Len(q)) = spPos + l
         /\ ~AtDelim(spPos) => \A i \in 1..(Len(q) - 1) : Apart(q, i)
<1> DEFINE S == [start : 0..N, len : 0..N]
           k == Len(spTokens)
<1>1. N \in Nat /\ D \in Nat \ {0}
  BY Lengths
<1>2. spTokens \in Seq(S) /\ Span(spPos, l) \in S
  BY DEF Tiles, Span
<1>3. /\ q \in Seq(S) /\ q # << >> /\ Len(q) = k + 1 /\ k \in Nat
      /\ \A i \in 1..k : q[i] = spTokens[i]
      /\ q[k + 1] = Span(spPos, l)
  <2> DEFINE s == Span(spPos, l)
  <2> HIDE DEF s, S
  <2>1. /\ Append(spTokens, s) \in Seq(S) /\ Append(spTokens, s) # << >>
        /\ Len(Append(spTokens, s)) = Len(spTokens) + 1 /\ Len(spTokens) \in Nat
        /\ \A i \in 1..Len(spTokens) : Append(spTokens, s)[i] = spTokens[i]
        /\ Append(spTokens, s)[Len(spTokens) + 1] = s
    BY <1>2, AppendFacts DEF s
  <2> QED  BY <2>1 DEF s
<1>4. spTokens = << >> <=> k = 0
  BY <1>2
<1>5. EndOf(q, k + 1) = spPos + l /\ \A i \in 1..k : EndOf(q, i) = EndOf(spTokens, i)
  BY <1>3 DEF EndOf, Span
<1>6. \A i \in 1..k : EndOf(q, i) \in Nat
  <2> HIDE DEF S
  <2>1. \A i \in 1..k : q[i] \in S
    BY <1>2, <1>3
  <2> USE DEF S
  <2> QED  BY <1>1, <2>1 DEF EndOf
<1>7. \A i \in 1..(k - 1) : Apart(q, i)
  <2> SUFFICES ASSUME NEW i \in 1..(k - 1) PROVE Apart(q, i)
    OBVIOUS
  <2>1. i \in 1..k /\ i + 1 \in 1..k /\ Apart(spTokens, i)
    BY <1>3 DEF Uncut
  <2> QED  BY <1>3, <1>5, <2>1 DEF Apart
<1>8. k # 0 => Apart(q, k) \/ (Cut(q, k) /\ AtDelim(spPos))
  <2> SUFFICES ASSUME k # 0 PROVE Apart(q, k) \/ (Cut(q, k) /\ AtDelim(spPos))
    OBVIOUS
  <2>1. k \in 1..k /\ q[k + 1].start = spPos
    BY <1>3 DEF Span
  <2>2. (spPos = EndOf(q, k) + D /\ AtDelim(EndOf(q, k)))
        \/ (spPos = EndOf(q, k) /\ AtDelim(spPos) /\ EndOf(q, k) + D = N)
    BY <1>4, <1>5, <2>1 DEF PointerAt
  <2> QED  BY <2>1, <2>2 DEF Apart, Cut
<1>9. \A i \in 1..k : i \in 1..(k - 1) \/ (i = k /\ k # 0)
  BY <1>3
<1>10. q[1].start = 0
  BY <1>3, <1>4 DEF Tiles, PointerAt, Span
<1>11. \A i \in 1..(k + 1) : EndOf(q, i) <= N
  <2>1. \A i \in 1..(k + 1) : i \in 1..k \/ i = k + 1
    BY <1>3
  <2> QED  BY <1>5, <2>1 DEF Tiles
<1>12. \A i \in 1..k : Apart(q, i) \/ (Cut(q, i) /\ i + 1 = k + 1)
  BY <1>7, <1>8, <1>9
<1>13. Tiles(q)
  BY <1>3, <1>10, <1>11, <1>12 DEF Tiles
<1>14. ~AtDelim(spPos) => \A i \in 1..k : Apart(q, i)
  BY <1>7, <1>8, <1>9
<1> QED  BY <1>3, <1>5, <1>13, <1>14

\* The argument does not change, so what holds of the new tokens now holds then.
LEMMA Frame ==
  ASSUME spText' = spText /\ spDelim' = spDelim, NEW q, spTokens' = q, NEW p, spPos' = p
  PROVE  /\ N' = N /\ D' = D /\ (\A i : AtDelim(i)' <=> AtDelim(i))
         /\ Tiles(spTokens)' <=> Tiles(q)
         /\ PointerAt(spTokens, spPos)' <=> PointerAt(q, p)
         /\ Uncut(spTokens, spPos)' <=> Uncut(q, p)
         /\ Covered(spTokens)' <=> Covered(q)
<1>1. N' = N /\ D' = D /\ (\A i : AtDelim(i)' <=> AtDelim(i))
  BY DEF N, D, AtDelim
<1>2. Tiles(spTokens)' <=> Tiles(q)
  BY <1>1 DEF Tiles, EndOf, Apart, Cut
<1>3. PointerAt(spTokens, spPos)' <=> PointerAt(q, p)
  BY <1>1 DEF PointerAt, EndOf
<1>4. Uncut(spTokens, spPos)' <=> Uncut(q, p)
  BY <1>1 DEF Uncut, Apart, EndOf
<1>5. Covered(spTokens)' <=> Covered(q)
  BY <1>1 DEF Covered, EndOf
<1> QED  BY <1>1, <1>2, <1>3, <1>4, <1>5

LEMMA LeadStep ==
  ASSUME SpInv, Lead
  PROVE  SpInv'
<1> USE DEF Lead
<1>1. N \in Nat /\ D \in Nat \ {0} /\ spTokens = << >> /\ spPos = 0 /\ spSize = 1 /\ spCap = 0 /\ spText' = spText /\ spDelim' = spDelim
  BY Lengths DEF SpInv
<1>2. CASE AtDelim(0)
  <2> DEFINE q == <<Span(0, 0)>>
  <2>1. spTokens' = q /\ spCap' = 2 /\ spSize' = 2 /\ spPos' = D
    BY <1>1, <1>2 DEF Added
  <2>2. D \in 0..N /\ q[1] = Span(0, 0) /\ Len(q) = 1 /\ q \in Seq([start : 0..N, len : 0..N])
    BY <1>1, <1>2 DEF AtDelim, Span
  <2>3. EndOf(q, 1) = 0
    BY <2>2 DEF EndOf, Span
  <2>4. Tiles(q) /\ PointerAt(q, D) /\ Uncut(q, D)
    BY <1>1, <1>2, <2>2, <2>3 DEF Tiles, PointerAt, Uncut, Span
  <2>5. q # << >>
    OBVIOUS
  <2> HIDE DEF q
  <2>6. N' = N /\ (AtDelim(0)' <=> AtDelim(0))
    BY <1>1, <2>1, Frame
  <2>7. SpTypeOK'
    BY <1>1, <2>1, <2>2, <2>6 DEF SpTypeOK
  <2>8. WithinLimit'
    BY <1>1, <1>2, <2>1, <2>2, <2>6 DEF WithinLimit, SpInv
  <2>9. Tiles(spTokens)' /\ PointerAt(spTokens, spPos)' /\ Uncut(spTokens, spPos)'
    BY <1>1, <2>1, <2>4, Frame
  <2>10. spSize' = Len(spTokens') + 1 /\ spCap' >= spSize' /\ spTokens' # << >>
    BY <2>1, <2>2, <2>5
  <2>11. spText' \in Strings /\ spDelim' \in Delims /\ spMax' \in Int
    BY DEF SpInv
  <2>12. spPc' = "loop" /\ (spMax' > 0 => spSize' <= spMax' \/ (AtDelim(0)' /\ spMax' = 1 /\ spSize' = 2))
    BY <1>2, <2>1, <2>6, <2>11
  <2> QED  BY <2>7, <2>8, <2>9, <2>10, <2>11, <2>12 DEF SpInv
<1>3. CASE ~AtDelim(0)
  <2>1. spTokens' = spTokens /\ spCap' = spCap /\ spSize' = spSize /\ spPos' = spPos
    BY <1>3
  <2>2. Tiles(spTokens) /\ PointerAt(spTokens, spPos) /\ Uncut(spTokens, spPos)
    BY <1>1 DEF SpInv, PointerAt, Uncut
  <2>3. SpTypeOK' /\ WithinLimit'
    BY <1>1, <2>1, Frame DEF SpTypeOK, WithinLimit, SpInv, Tiles
  <2> QED  BY <1>1, <2>1, <2>2, <2>3, Frame DEF SpInv
<1> QED  BY <1>2, <1>3

\* A turn of the loop that adds the token from spPos to spPos + l and moves the pointer to p.
LEMMA TurnStep ==
  ASSUME SpInv, spPc = "loop", More, UNCHANGED <<spText, spDelim, spMax, spPc>>,
         NEW l \in 0..N, spPos + l <= N, Added(Span(spPos, l)), spSize' = spSize + 1,
         NEW p \in 0..N, spPos' = p,
         \/ AtDelim(spPos) /\ l = 0 /\ p = spPos + D
         \/ ~AtDelim(spPos) /\ AtDelim(spPos + l) /\ p = Past(spPos + l)
         \/ ~AtDelim(spPos) /\ spPos + l = N /\ p = N
  PROVE  SpInv'
<1> DEFINE q == Append(spTokens, Span(spPos, l))
<1>1. N \in Nat /\ D \in Nat \ {0} /\ spPos \in 0..N /\ spPos # N /\ Tiles(spTokens) /\ spSize = Len(spTokens) + 1
      /\ PointerAt(spTokens, spPos) /\ Uncut(spTokens, spPos) /\ spMax \in Int /\ spSize \in Nat /\ spText \in Strings /\ spDelim \in Delims
  BY Lengths DEF SpInv, SpTypeOK, More
<1>2. /\ Tiles(q) /\ q # << >> /\ Len(q) = Len(spTokens) + 1 /\ EndOf(q, Len(q)) = spPos + l
      /\ ~AtDelim(spPos) => \A i \in 1..(Len(q) - 1) : Apart(q, i)
  BY <1>1, OneFurther
<1>3. spTokens' = q
  BY DEF Added
<1> HIDE DEF q
<1>4. PointerAt(q, p)
  BY <1>1, <1>2 DEF PointerAt, Past
<1>5. Uncut(q, p)
  <2>1. CASE ~AtDelim(spPos)
    BY <1>2, <2>1 DEF Uncut
  <2>2. CASE AtDelim(spPos) /\ l = 0 /\ p = spPos + D /\ p # N
    <3>1. \A i \in 1..(Len(q) - 1) : ~Cut(q, i) \/ i # Len(q) - 1 \/ Apart(q, i)
      <4> SUFFICES ASSUME Len(q) - 1 \in 1..(Len(q) - 1), Cut(q, Len(q) - 1)
                   PROVE  FALSE
        OBVIOUS
      <4>1. q[Len(q)].start = spPos
        BY <1>1, <1>2, AppendFacts DEF q, Tiles, Span
      <4>2. spPos + D = N
        BY <1>1, <1>2, <4>1 DEF Cut
      <4> QED  BY <2>2, <4>2
    <3> QED  BY <1>1, <1>2, <3>1 DEF Tiles, Uncut
  <2>3. CASE p = N
    BY <2>3 DEF Uncut
  <2> QED  BY <2>1, <2>2, <2>3
<1>6. spCap' >= spSize' /\ spCap' \in Nat
  BY <1>1 DEF SpInv, SpTypeOK, Added
<1>7. spMax > 0 => spSize' <= spMax
  BY <1>1 DEF More
<1>8. SpTypeOK' /\ WithinLimit'
  <2>1. Len(q) = spSize /\ spSize + 1 \in Nat
    BY <1>1, <1>2
  <2>2. N' = N /\ (AtDelim(0)' <=> AtDelim(0))
    BY <1>3, Frame
  <2>3. q \in Seq([start : 0..N, len : 0..N])
    BY <1>2 DEF Tiles
  <2>4. SpTypeOK'
    BY <1>1, <1>3, <1>6, <2>1, <2>2, <2>3 DEF SpTypeOK
  <2>5. spMax > 0 => Len(q) <= spMax
    BY <1>1, <2>1 DEF More
  <2>6. WithinLimit'
    BY <1>1, <1>3, <2>2, <2>1, <2>5 DEF WithinLimit
  <2> QED  BY <2>4, <2>6
<1>9. spSize' = Len(q) + 1
  BY <1>1, <1>2
<1> QED  BY <1>1, <1>2, <1>3, <1>4, <1>5, <1>6, <1>7, <1>8, <1>9, Frame DEF SpInv

LEMMA EmptyTokenStep ==
  ASSUME SpInv, EmptyToken
  PROVE  SpInv'
<1>1. N \in Nat /\ D \in Nat \ {0} /\ spPos \in 0..N
  BY Lengths DEF SpInv, SpTypeOK
<1>2. spPos + D \in 0..N /\ spPos + 0 <= N
  BY <1>1 DEF EmptyToken, AtDelim
<1> QED  BY <1>1, <1>2, TurnStep DEF EmptyToken

LEMMA TokenStep ==
  ASSUME SpInv, NEW e \in 1..N, Token(e)
  PROVE  SpInv'
<1>1. N \in Nat /\ D \in Nat \ {0} /\ spPos \in 0..N /\ e > spPos /\ AtDelim(e)
  BY Lengths DEF SpInv, SpTypeOK, Token
<1>2. Past(e) \in 0..N
  BY <1>1 DEF Past, AtDelim
<1>3. e - spPos \in 0..N /\ spPos + (e - spPos) = e /\ e <= N
  BY <1>1
<1> QED  BY <1>1, <1>2, <1>3, TurnStep DEF Token

LEMMA LastTokenStep ==
  ASSUME SpInv, LastToken
  PROVE  SpInv'
<1>1. N \in Nat /\ spPos \in 0..N
  BY Lengths DEF SpInv, SpTypeOK
<1>2. N - spPos \in 0..N /\ spPos + (N - spPos) = N /\ N \in 0..N /\ ~AtDelim(spPos)
  BY <1>1 DEF LastToken
<1> QED  BY <1>1, <1>2, TurnStep DEF LastToken

LEMMA RestStep ==
  ASSUME SpInv, Rest
  PROVE  SpInv'
<1> USE DEF Rest
<1>1. N \in Nat /\ D \in Nat \ {0} /\ spPos \in 0..N /\ Tiles(spTokens) /\ spSize = Len(spTokens) + 1
      /\ PointerAt(spTokens, spPos) /\ Uncut(spTokens, spPos) /\ spMax \in Int /\ spSize \in Nat /\ spText \in Strings /\ spDelim \in Delims
      /\ spText' = spText /\ spDelim' = spDelim /\ spPos' = spPos /\ spMax' = spMax
  BY Lengths DEF SpInv, SpTypeOK
<1>2. CASE spPos < N
  <2> DEFINE q == Append(spTokens, Span(spPos, N - spPos))
  <2>1. N - spPos \in 0..N /\ spPos + (N - spPos) = N /\ spPos + (N - spPos) <= N /\ spPos # N
    BY <1>1, <1>2
  <2>2. Tiles(q) /\ q # << >> /\ Len(q) = Len(spTokens) + 1 /\ EndOf(q, Len(q)) = spPos + (N - spPos)
    BY <1>1, <2>1, OneFurther
  <2>3. spTokens' = q /\ spSize' = spSize + 1
    BY <1>2 DEF Added
  <2> HIDE DEF q
  <2>4. spCap' >= spSize' /\ spCap' \in Nat
    BY <1>1, <1>2 DEF SpInv, SpTypeOK, Added
  <2>5. N' = N /\ (AtDelim(0)' <=> AtDelim(0))
    BY <1>1, <2>3, Frame
  <2>6. SpTypeOK'
    BY <1>1, <2>2, <2>3, <2>4, <2>5 DEF SpTypeOK, Tiles
  <2>7. WithinLimit'
    BY <1>1, <1>2, <2>2, <2>3, <2>5 DEF WithinLimit, SpInv, More
  <2>8. Covered(q)
    BY <2>1, <2>2 DEF Covered
  <2> QED  BY <1>1, <2>2, <2>3, <2>4, <2>6, <2>7, <2>8, Frame DEF SpInv
<1>3. CASE ~(spPos < N)
  <2>1. spTokens' = spTokens /\ spCap' = spCap /\ spSize' = spSize /\ spPos = N
    BY <1>1, <1>3
  <2>2. Covered(spTokens)
    BY <1>1, <2>1 DEF PointerAt, Covered
  <2>3. N' = N /\ (AtDelim(0)' <=> AtDelim(0))
    BY <1>1, <2>1, Frame
  <2>4. SpTypeOK' /\ WithinLimit'
    BY <1>1, <2>1, <2>3 DEF SpTypeOK, WithinLimit, SpInv
  <2> QED  BY <1>1, <2>1, <2>2, <2>4, Frame DEF SpInv
<1> QED  BY <1>2, <1>3

LEMMA TerminateStep ==
  ASSUME SpInv, Terminate
  PROVE  SpInv'
<1> USE DEF Terminate
<1>1. spText' = spText /\ spDelim' = spDelim /\ spTokens' = spTokens /\ spPos' = spPos /\ spSize' = spSize /\ spMax' = spMax /\ spText \in Strings /\ spDelim \in Delims
  BY DEF SpInv
<1>2. N' = N /\ (AtDelim(0)' <=> AtDelim(0)) /\ Tiles(spTokens)' /\ Covered(spTokens)'
  BY <1>1, Frame DEF SpInv
<1>3. spCap' \in Nat /\ spCap' >= spSize
  <2>1. CASE spTokens = << >>
    BY <2>1 DEF SpInv, SpTypeOK
  <2>2. CASE spTokens # << >>
    BY <2>2 DEF SpInv, SpTypeOK
  <2> QED  BY <2>1, <2>2
<1>4. SpTypeOK' /\ WithinLimit'
  BY <1>1, <1>2, <1>3 DEF SpTypeOK, WithinLimit, SpInv
<1> QED  BY <1>1, <1>2, <1>3, <1>4 DEF SpInv

-----------------------------------------------------------------------------
(* The invariant, and what follows from it *)

LEMMA SplitBegins ==
  ASSUME SpInit
  PROVE  SpInv
<1>1. N \in Nat /\ spMax \in Int
  BY Lengths, StrSplitAssumption DEF SpInit
<1>2. SpTypeOK /\ Tiles(spTokens) /\ WithinLimit
  BY <1>1 DEF SpInit, SpTypeOK, Tiles, WithinLimit
<1> QED  BY <1>1, <1>2 DEF SpInit, SpInv

LEMMA SplitSteps ==
  ASSUME SpInv, [SpNext]_spVars
  PROVE  SpInv'
<1>1. CASE UNCHANGED spVars
  <2>1. spText' = spText /\ spDelim' = spDelim /\ spTokens' = spTokens /\ spPos' = spPos
    BY <1>1 DEF spVars
  <2>2. N' = N /\ (AtDelim(0)' <=> AtDelim(0))
    BY <2>1, Frame
  <2>3. SpTypeOK' /\ WithinLimit'
    BY <1>1, <2>2 DEF spVars, SpInv, SpTypeOK, WithinLimit
  <2> QED  BY <1>1, <2>1, <2>2, <2>3, Frame DEF spVars, SpInv
<1>2. CASE SpNext
  BY <1>2, LeadStep, EmptyTokenStep, LastTokenStep, RestStep, TerminateStep, TokenStep DEF SpNext
<1> QED  BY <1>1, <1>2

LEMMA SplitInvariance == SpSpec => []SpInv
BY SplitBegins, SplitSteps, PTL DEF SpSpec

\* The state of the loop keeps its shape.
THEOREM SplitTyped == SpSpec => []SpTypeOK
<1>1. SpInv => SpTypeOK
  BY DEF SpInv
<1> QED  BY <1>1, SplitInvariance, PTL

\* add_to_vector and the terminating NULL stay within what was allocated.
THEOREM VectorFits == SpSpec => []Fits
<1>1. SpInv => Fits
  <2> SUFFICES ASSUME SpInv PROVE Fits
    OBVIOUS
  <2>1. Len(spTokens) \in Nat /\ spCap \in Nat
    BY DEF SpInv, SpTypeOK
  <2> QED  BY <2>1 DEF SpInv, Fits
<1> QED  BY <1>1, SplitInvariance, PTL

\* The tokens lie side by side, a delimiter apart, and reach the end of the string.
THEOREM NothingLost == SpSpec => []Tiled
<1>1. SpInv => Tiled
  <2> SUFFICES ASSUME SpInv PROVE Tiled
    OBVIOUS
  <2>1. \A i \in 1..Len(spTokens) : End(i) = EndOf(spTokens, i)
    BY DEF End, EndOf
  <2>2. Len(spTokens) \in Nat /\ (spTokens # << >> => Len(spTokens) \in 1..Len(spTokens))
    BY DEF SpInv, SpTypeOK
  <2>3. \A i \in 1..(Len(spTokens) - 1) : i \in 1..Len(spTokens)
    BY <2>2
  <2> QED  BY <2>1, <2>2, <2>3 DEF SpInv, Tiled, Tiles, Apart, Cut, Covered
<1> QED  BY <1>1, SplitInvariance, PTL

\* No more tokens than the limit allows.
THEOREM LimitHolds == SpSpec => []WithinLimit
<1>1. SpInv => WithinLimit
  BY DEF SpInv
<1> QED  BY <1>1, SplitInvariance, PTL

\* All that g_strsplit promises of its vector, at every turn of the loop.
THEOREM SplitKept == SpSpec => []SplitExact
BY VectorFits, NothingLost, LimitHolds, PTL DEF SplitExact

\* Every turn of the loop brings its end nearer.
THEOREM LoopEnds == SpSpec => Advances
<1>1. ASSUME SpInv, [SpNext]_spVars PROVE [spPc = "loop" /\ spPc' = "loop" => Left' < Left]_spVars
  <2> SUFFICES ASSUME SpNext, spPc = "loop", spPc' = "loop" PROVE Left' < Left
    BY <1>1
  <2>1. N \in Nat /\ D \in Nat \ {0} /\ spPos \in 0..N
    BY <1>1, Lengths DEF SpInv, SpTypeOK
  <2>2. N' = N /\ (\A i : AtDelim(i)' <=> AtDelim(i)) /\ (\A i : AtDelim(i) => i + D <= N)
    BY DEF SpNext, Lead, EmptyToken, LastToken, Rest, Terminate, Token, N, D, AtDelim
  <2>3. CASE EmptyToken
    BY <2>1, <2>2, <2>3 DEF EmptyToken, Left
  <2>4. CASE LastToken
    BY <2>1, <2>2, <2>4 DEF LastToken, Left, More
  <2>5. ASSUME NEW e \in 1..N, Token(e) PROVE Left' < Left
    BY <2>1, <2>2, <2>5 DEF Token, Left, Past
  <2> QED  BY <2>3, <2>4, <2>5 DEF SpNext, Lead, Rest, Terminate
<1> QED  BY <1>1, SplitInvariance, PTL DEF SpSpec, Advances

=============================================================================
