--------------------------- MODULE StoreProofs ----------------------------
(***************************************************************************)
(* The strings and the arrays of eglib, the live-data list and the hash    *)
(* table of eglib, for every set of characters, elements, items, keys and  *)
(* values, every size of block, every width of guint, every hash and every *)
(* sequence of calls: what the memory holds is what the caller has built,  *)
(* accesses stay inside of the block except where the models say, the      *)
(* table has every key once, in the chain of its hash, it is the           *)
(* dictionary its calls promise, and an iterator returns its keys once     *)
(* through the changes it bears.                                           *)
(*                                                                         *)
(* A block has the size its owner believes (StrInv, GaInv, Shape), and     *)
(* every function is a step of the sequence the caller sees.               *)
(*                                                                         *)
(* The last part says all of it, and what ListProofs proves of the lists,  *)
(* of the specification that TLC runs, where all containers are: none      *)
(* hears of the others, so that a step of one leaves the promises of the   *)
(* others alone.                                                           *)
(***************************************************************************)
EXTENDS GString, GArray, LiveDataVector, HashTable, FiniteSetTheorems, WellFoundedInduction, TLAPS

-----------------------------------------------------------------------------
(* Blocks of memory *)


LEMMA Cells ==
  ASSUME NEW S, NEW a \in Nat, NEW m \in [0..(a - 1) -> S]
  PROVE  Cardinality(DOMAIN m) = a
<1>1. DOMAIN m = 0..(a - 1)
  OBVIOUS
<1>2. Cardinality(0..(a - 1)) = a
  BY FS_Interval
<1> QED  BY <1>1, <1>2

\* Zero is what div is wanted for: the next multiple of b is one, and not less.
LEMMA RoundedUp ==
  ASSUME NEW n \in Nat, NEW b \in Nat \ {0}
  PROVE  /\ ((n + b - 1) \div b) * b \in Nat
         /\ ((n + b - 1) \div b) * b >= n
         /\ (((n + b - 1) \div b) * b) % b = 0
<1> DEFINE x == n + b - 1
           q == x \div b
<1>1. x \in Nat /\ q \in Nat /\ x % b \in 0..(b - 1)
  BY Z3
<1>2. x = b * q + (x % b)
  BY <1>1, Z3
<1>3. b * q = q * b /\ q * b \in Nat
  BY <1>1, Z3
<1>4. q * b >= n
  BY <1>1, <1>2, <1>3
<1>5. (q * b) % b = 0
  BY <1>1, Z3
<1> QED  BY <1>3, <1>4, <1>5

-----------------------------------------------------------------------------
(* Sequences *)

LEMMA Joined ==
  ASSUME NEW S, NEW s \in Seq(S), NEW t \in Seq(S)
  PROVE  /\ s \o t \in Seq(S) /\ Len(s \o t) = Len(s) + Len(t)
         /\ Len(s) \in Nat /\ Len(t) \in Nat
         /\ \A i \in 1..(Len(s) + Len(t)) : i <= Len(s) => (s \o t)[i] = s[i]
         /\ \A i \in 1..(Len(s) + Len(t)) : i > Len(s) => (s \o t)[i] = t[i - Len(s)]
OBVIOUS

LEMMA SameSeq ==
  ASSUME NEW S, NEW s \in Seq(S), NEW t \in Seq(S), Len(s) = Len(t), \A i \in 1..Len(t) : s[i] = t[i]
  PROVE  s = t
OBVIOUS

LEMMA Part ==
  ASSUME NEW S, NEW s \in Seq(S), NEW i \in 1..(Len(s) + 1), NEW j \in (i - 1)..Len(s)
  PROVE  /\ SubSeq(s, i, j) \in Seq(S) /\ Len(SubSeq(s, i, j)) = j - i + 1
         /\ \A k \in 1..(j - i + 1) : SubSeq(s, i, j)[k] = s[i + k - 1]
OBVIOUS

-----------------------------------------------------------------------------
(* Strings *)

StrCells == Chars \cup {NUL, Junk}

\* The n characters of s are at the start of the block, and NUL behind them.
Spells(m, n, s) == Len(s) = n /\ m[n] = NUL /\ \A i \in 1..n : m[i - 1] = s[i]

\* StrTypeOK and StrCorrect with the number of cells named: a cardinality does
\* not say by itself that it is a number.
StrInv ==
  /\ \E a \in Nat :
       /\ str \in [0..(a - 1) -> StrCells] /\ strLen \in 0..a
       /\ ~strWild => strLen < a
       /\ ~strLoose => Spells(str, strLen, strText)
  /\ strText \in Seq(Chars)
  /\ strLoose \in BOOLEAN /\ strWild \in BOOLEAN
  /\ strWild => strLoose

LEMMA StrInvImplies ==
  StrInv => StrTypeOK /\ StrCorrect
<1> SUFFICES ASSUME StrInv PROVE StrTypeOK /\ StrCorrect
  OBVIOUS
<1>1. PICK a \in Nat : /\ str \in [0..(a - 1) -> StrCells] /\ strLen \in 0..a
                       /\ ~strWild => strLen < a
                       /\ ~strLoose => Spells(str, strLen, strText)
  BY DEF StrInv
<1>2. Alloced = a
  BY <1>1, Cells DEF Alloced
<1>3. StrTypeOK
  BY <1>1, <1>2 DEF StrInv, StrTypeOK, StrCells
<1>4. ~strLoose => Contents(str, strLen) = strText
  <2> SUFFICES ASSUME ~strLoose PROVE Contents(str, strLen) = strText
    OBVIOUS
  <2>1. strText \in Seq(Chars) /\ Len(strText) = strLen /\ strLen \in Nat
        /\ \A i \in 1..strLen : str[i - 1] = strText[i]
    BY <1>1 DEF StrInv, Spells
  <2>2. strText = [i \in 1..strLen |-> strText[i]]
    BY <2>1
  <2> QED  BY <2>1, <2>2 DEF Contents
<1>5. StrExact /\ StrHasRoom
  BY <1>1, <1>2, <1>4 DEF StrInv, StrExact, StrHasRoom, Spells
<1> QED  BY <1>3, <1>5 DEF StrCorrect

LEMMA InWords ==
  ASSUME NEW word \in Words
  PROVE  word \in Seq(Chars) /\ Len(word) \in Nat
BY GStringAssumption

\* What Terminate leaves.
LEMMA Terminated ==
  ASSUME NEW a \in Nat, NEW m \in [0..(a - 1) -> StrCells], NEW n \in 0..(a - 1),
         NEW s \in Seq(Chars), Len(s) = n, \A i \in 1..n : m[i - 1] = s[i]
  PROVE  /\ Fill(m, n, 1, NUL) \in [0..(a - 1) -> StrCells]
         /\ Spells(Fill(m, n, 1, NUL), n, s)
         /\ Inside(m, n, 1)
BY DEF Fill, Spells, Inside, StrCells

\* A text that is stored from cell k on.
LEMMA Stores ==
  ASSUME NEW a \in Nat, NEW m \in [0..(a - 1) -> StrCells],
         NEW k \in Nat, NEW w \in Seq(Chars)
  PROVE  /\ Store(m, k, w) \in [0..(a - 1) -> StrCells]
         /\ \A i \in 0..(a - 1) : i \in k..(k + Len(w) - 1) => Store(m, k, w)[i] = w[i - k + 1]
         /\ \A i \in 0..(a - 1) : i \notin k..(k + Len(w) - 1) => Store(m, k, w)[i] = m[i]
BY DEF Store, StrCells

\* What every step has to show.
LEMMA StrMade ==
  ASSUME NEW b \in Nat, str' \in [0..(b - 1) -> StrCells], strLen' \in 0..(b - 1),
         strText' \in Seq(Chars), strLoose' \in BOOLEAN, strWild' \in BOOLEAN, strWild' => strLoose',
         ~strLoose' => Spells(str', strLen', strText')
  PROVE  StrInv'
<1>1. strLen' \in 0..b /\ strLen' < b
  OBVIOUS
<1> QED  BY <1>1 DEF StrInv

\* What a step has to show: it terminates the text it means, in a block that may
\* be another one, and has not been outside.
LEMMA StrTerminates ==
  ASSUME NEW b \in Nat, NEW m \in [0..(b - 1) -> StrCells], NEW n \in 0..(b - 1),
         strText' \in Seq(Chars), NEW legal, legal, ~strWild,
         Terminate(m, n, legal),
         strLoose' = FALSE,
         Len(strText') = n, \A i \in 1..n : m[i - 1] = strText'[i]
  PROVE  StrInv'
<1>1. /\ str' \in [0..(b - 1) -> StrCells] /\ strLen' = n
      /\ Spells(str', n, strText') /\ Inside(m, n, 1)
  BY Terminated DEF Terminate
<1>2. strWild' = FALSE
  BY <1>1 DEF Terminate
<1> QED  BY <1>1, <1>2 DEF StrInv

LEMMA StrNewStep ==
  ASSUME StrInv, ~strWild, NEW word \in Words, NEW exact \in BOOLEAN, StrNew(word, exact)
  PROVE  StrInv'
<1> DEFINE room == IF ~exact /\ Len(word) + 1 < MinAlloc THEN MinAlloc ELSE Len(word) + 1
           m    == Store(Alloc(room), 0, word)
<1>1. word \in Seq(Chars) /\ Len(word) \in Nat
  BY InWords
<1>2. room \in Nat /\ Len(word) \in 0..(room - 1)
  BY <1>1, GStringAssumption
<1>3. strText' = word /\ strLoose' = FALSE /\ Terminate(m, Len(word), TRUE)
  BY DEF StrNew
<1>4. Alloc(room) \in [0..(room - 1) -> StrCells]
  BY DEF Alloc, StrCells
<1> HIDE DEF room
<1>5. m \in [0..(room - 1) -> StrCells] /\ \A i \in 1..Len(word) : m[i - 1] = word[i]
  <2>1. /\ m \in [0..(room - 1) -> StrCells]
        /\ \A i \in 0..(room - 1) : i \in 0..(0 + Len(word) - 1) => m[i] = word[i - 0 + 1]
    BY <1>1, <1>2, <1>4, Stores
  <2> HIDE DEF m
  <2>2. ASSUME NEW i \in 1..Len(word) PROVE m[i - 1] = word[i]
    <3>1. i - 1 \in 0..(room - 1) /\ i - 1 \in 0..(0 + Len(word) - 1) /\ (i - 1) - 0 + 1 = i
      BY <1>1, <1>2
    <3> QED  BY <2>1, <3>1
  <2> QED  BY <2>1, <2>2
<1> HIDE DEF m
<1>6. /\ Fill(m, Len(word), 1, NUL) \in [0..(room - 1) -> StrCells]
      /\ Spells(Fill(m, Len(word), 1, NUL), Len(word), word)
      /\ Inside(m, Len(word), 1)
  BY <1>1, <1>2, <1>5, Terminated
<1>7. str' = Fill(m, Len(word), 1, NUL) /\ strLen' = Len(word) /\ strWild' = FALSE
  BY <1>3, <1>6 DEF Terminate
<1> QED  BY <1>1, <1>2, <1>3, <1>6, <1>7, StrMade

LEMMA StrSizedNewStep ==
  ASSUME StrInv, ~strWild, NEW n \in 0..MinAlloc, StrSizedNew(n)
  PROVE  StrInv'
<1>1. n \in Nat /\ << >> \in Seq(Chars) /\ Len(<< >>) = 0
  BY GStringAssumption
<1>2. Alloc(n) \in [0..(n - 1) -> StrCells]
  BY DEF Alloc, StrCells
<1>3. /\ str' = Fill(Alloc(n), 0, 1, NUL) /\ strLen' = 0 /\ strText' = << >> /\ strLoose' = (n = 0)
      /\ strWild' = ~Inside(Alloc(n), 0, 1)
  BY DEF StrSizedNew, Terminate
<1>4. CASE n = 0
  <2>1. str' \in [0..(n - 1) -> StrCells]
    BY <1>2, <1>3 DEF Fill, StrCells
  <2>2. strWild' = TRUE
    <3>1. 0 \in 0..(0 + 1 - 1) /\ 0 \notin 0..(n - 1)
      BY <1>4
    <3>2. 0 \notin DOMAIN Alloc(n)
      BY <3>1 DEF Alloc
    <3> QED  BY <1>3, <3>1, <3>2, Zenon DEF Inside
  <2> QED  BY <1>1, <1>3, <1>4, <2>1, <2>2 DEF StrInv
<1>5. CASE n > 0
  <2>1. 0 \in 0..(n - 1)
    BY <1>1, <1>5
  <2>2. /\ Fill(Alloc(n), 0, 1, NUL) \in [0..(n - 1) -> StrCells]
        /\ Spells(Fill(Alloc(n), 0, 1, NUL), 0, << >>)
        /\ Inside(Alloc(n), 0, 1)
    BY <1>1, <1>2, <2>1, Terminated
  <2> QED  BY <1>1, <1>3, <1>5, <2>2 DEF StrInv
<1> QED  BY <1>1, <1>4, <1>5

\* The shape of any string, and of one that is sound, by the number of its cells.
LEMMA StrShape ==
  ASSUME StrInv, ~strWild
  PROVE  \E a \in Nat : str \in [0..(a - 1) -> StrCells] /\ strLen \in 0..(a - 1) /\ Alloced = a
<1>1. PICK a \in Nat : str \in [0..(a - 1) -> StrCells] /\ strLen \in 0..a /\ strLen < a
  BY DEF StrInv
<1>2. Alloced = a
  BY <1>1, Cells DEF Alloced
<1>3. strLen \in 0..(a - 1)
  BY <1>1
<1> QED  BY <1>1, <1>2, <1>3

LEMMA Sound ==
  ASSUME StrInv, ~strLoose
  PROVE  \E a \in Nat : /\ str \in [0..(a - 1) -> StrCells] /\ strLen \in 0..(a - 1) /\ Alloced = a
                        /\ strText \in Seq(Chars) /\ Len(strText) = strLen /\ str[strLen] = NUL
                        /\ \A i \in 1..strLen : str[i - 1] = strText[i]
<1>1. PICK a \in Nat : str \in [0..(a - 1) -> StrCells] /\ strLen \in 0..a /\ strLen < a
                         /\ Spells(str, strLen, strText)
  BY DEF StrInv
<1>2. Alloced = a
  BY <1>1, Cells DEF Alloced
<1> QED  BY <1>1, <1>2 DEF StrInv, Spells

\* GROW_IF_NECESSARY keeps the cells and leaves room for more than l.
LEMMA Room ==
  ASSUME StrInv, ~strLoose, NEW l \in Nat
  PROVE  \E a, b \in Nat :
           /\ str \in [0..(a - 1) -> StrCells] /\ strLen \in 0..(a - 1)
           /\ strText \in Seq(Chars) /\ Len(strText) = strLen /\ str[strLen] = NUL
           /\ \A i \in 1..strLen : str[i - 1] = strText[i]
           /\ Grow(l) \in [0..(b - 1) -> StrCells] /\ strLen + l < b
           /\ a <= b /\ \A i \in 0..(a - 1) : Grow(l)[i] = str[i]
<1>1. PICK a \in Nat : /\ str \in [0..(a - 1) -> StrCells] /\ strLen \in 0..(a - 1) /\ Alloced = a
                       /\ strText \in Seq(Chars) /\ Len(strText) = strLen /\ str[strLen] = NUL
                       /\ \A i \in 1..strLen : str[i - 1] = strText[i]
  BY Sound
<1>2. Slack \in Nat
  BY GStringAssumption
<1>3. CASE strLen + l < a
  <2>1. Grow(l) = str
    BY <1>1, <1>3 DEF Grow
  <2>2. Grow(l) \in [0..(a - 1) -> StrCells] /\ a <= a /\ \A i \in 0..(a - 1) : Grow(l)[i] = str[i]
    BY <1>1, <2>1
  <2> QED  BY <1>1, <1>3, <2>2, Zenon
<1>4. CASE strLen + l >= a
  <2> DEFINE b == (a + l + Slack) * 2
             m == Grow(l)
  <2>1. b \in Nat /\ strLen + l < b /\ a <= b
    BY <1>1, <1>2
  <2>2. m = Realloc(str, b)
    BY <1>1, <1>4 DEF Grow
  <2> HIDE DEF b, m
  <2>3. \A i \in 0..(a - 1) : i \in 0..(b - 1)
    BY <2>1
  <2>4. m \in [0..(b - 1) -> StrCells]
    BY <1>1, <2>2 DEF Realloc, StrCells
  <2>5. \A i \in 0..(a - 1) : m[i] = str[i]
    BY <1>1, <2>2, <2>3 DEF Realloc
  <2> QED  BY <1>1, <2>1, <2>4, <2>5 DEF m
<1>5. strLen \in Int /\ a \in Int
  BY <1>1
<1>6. strLen + l < a \/ strLen + l >= a
  BY <1>5
<1> QED  BY <1>3, <1>4, <1>6, Zenon

LEMMA StrAppendStep ==
  ASSUME StrInv, ~strWild, ~strLoose, NEW word \in Words, StrAppend(word)
  PROVE  StrInv'
<1> DEFINE m == Grow(Len(word))
           k == Store(m, strLen, word)
           n == strLen + Len(word)
<1>2. word \in Seq(Chars) /\ Len(word) \in Nat
  BY InWords
<1>1. PICK a \in Nat, b \in Nat :
        /\ str \in [0..(a - 1) -> StrCells] /\ strLen \in 0..(a - 1)
        /\ strText \in Seq(Chars) /\ Len(strText) = strLen /\ str[strLen] = NUL
        /\ \A i \in 1..strLen : str[i - 1] = strText[i]
        /\ m \in [0..(b - 1) -> StrCells] /\ n < b
        /\ a <= b /\ \A i \in 0..(a - 1) : m[i] = str[i]
  BY <1>2, Room
<1>4. Terminate(k, n, Inside(m, strLen, Len(word)))
  BY DEF StrAppend
<1>3. strText' = strText \o word /\ strLoose' = FALSE
  BY DEF StrAppend, Meant, StrInv
<1>10. strText \in Seq(Chars) /\ strLen = Len(strText) /\ strLen \in Nat
  BY <1>1
<1> HIDE DEF m
<1>5. /\ k \in [0..(b - 1) -> StrCells]
      /\ \A i \in 0..(b - 1) : i \in strLen..(n - 1) => k[i] = word[i - strLen + 1]
      /\ \A i \in 0..(b - 1) : i \notin strLen..(n - 1) => k[i] = m[i]
  <2>1. strLen \in Nat /\ m \in [0..(b - 1) -> StrCells]
    BY <1>1
  <2> QED  BY <1>2, <2>1, Stores
<1> HIDE DEF k
<1>6. strText' \in Seq(Chars) /\ Len(strText') = n
  BY <1>2, <1>3, <1>10, Joined
<1>7. \A i \in 1..n : k[i - 1] = strText'[i]
  <2> SUFFICES ASSUME NEW i \in 1..n PROVE k[i - 1] = strText'[i]
    OBVIOUS
  <2>1. CASE i <= strLen
    <3>1. i \in 1..strLen /\ i - 1 \in 0..(a - 1) /\ i - 1 \in 0..(b - 1) /\ i - 1 \notin strLen..(n - 1)
      BY <1>1, <2>1
    <3>2. strText'[i] = strText[i]
      BY <1>2, <1>3, <1>10, <2>1, Joined
    <3> QED  BY <1>1, <1>5, <3>1, <3>2
  <2>2. CASE i > strLen
    <3>1. i - 1 \in 0..(b - 1) /\ i - 1 \in strLen..(n - 1) /\ i - strLen \in 1..Len(word)
      BY <1>1, <1>2, <2>2
    <3>2. strText'[i] = word[i - strLen]
      BY <1>2, <1>3, <1>10, <2>2, Joined
    <3>3. k[i - 1] = word[i - 1 - strLen + 1] /\ i - 1 - strLen + 1 = i - strLen
      BY <1>1, <1>5, <3>1
    <3> QED  BY <3>2, <3>3
  <2> QED  BY <1>1, <2>1, <2>2
<1>8. Inside(m, strLen, Len(word))
  BY <1>1, <1>2 DEF Inside
<1>9. n \in 0..(b - 1)
  BY <1>1, <1>2
<1> HIDE DEF n
<1> QED  BY <1>1, <1>3, <1>4, <1>5, <1>6, <1>7, <1>8, <1>9, StrTerminates

LEMMA StrPrependStep ==
  ASSUME StrInv, ~strWild, ~strLoose, NEW word \in Words, StrPrepend(word)
  PROVE  StrInv'
<1> DEFINE n == Len(word)
           m == Grow(n)
           v == Move(m, n, 0, strLen + 1)
           k == Store(v, 0, word)
<1>1. word \in Seq(Chars) /\ n \in Nat
  BY InWords
<1>2. PICK a \in Nat, b \in Nat :
        /\ str \in [0..(a - 1) -> StrCells] /\ strLen \in 0..(a - 1)
        /\ strText \in Seq(Chars) /\ Len(strText) = strLen /\ str[strLen] = NUL
        /\ \A i \in 1..strLen : str[i - 1] = strText[i]
        /\ m \in [0..(b - 1) -> StrCells] /\ strLen + n < b
        /\ a <= b /\ \A i \in 0..(a - 1) : m[i] = str[i]
  BY <1>1, Room
<1>3. str' = k /\ strLen' = strLen /\ strText' = word \o strText
  BY DEF StrPrepend, Meant
<1>4. strLoose' = (strLoose \/ n > 0) /\ strWild' = (strWild \/ ~Inside(m, 0, n + strLen + 1))
  BY DEF StrPrepend
<1>5. Inside(m, 0, n + strLen + 1)
  BY <1>1, <1>2 DEF Inside
<1>6. strWild' = FALSE
  BY <1>4, <1>5
<1> HIDE DEF m
<1>7. strLen \in Nat /\ m \in [0..(b - 1) -> StrCells] /\ strLen \in 0..(b - 1)
  BY <1>1, <1>2
<1>8. /\ v \in [0..(b - 1) -> StrCells]
      /\ n = 0 => \A i \in 0..(b - 1) : v[i] = m[i]
  BY <1>1, <1>7 DEF Move, StrCells
<1> HIDE DEF v
<1>9. /\ k \in [0..(b - 1) -> StrCells]
      /\ n = 0 => \A i \in 0..(b - 1) : k[i] = v[i]
  BY <1>1, <1>8 DEF Store, StrCells
<1> HIDE DEF k
<1>10. strText' \in Seq(Chars)
  BY <1>1, <1>2, <1>3, Joined
<1>11. CASE n = 0
  <2>1. strText' = strText
    BY <1>1, <1>2, <1>3, <1>11
  <2>2. \A i \in 0..(a - 1) : k[i] = str[i]
    BY <1>2, <1>8, <1>9, <1>11
  <2>3. Spells(k, strLen, strText)
    BY <1>2, <2>2 DEF Spells
  <2>4. strLoose' = FALSE
    BY <1>4, <1>11 DEF StrInv
  <2> QED  BY <1>3, <1>6, <1>7, <1>9, <1>10, <2>1, <2>3, <2>4, StrMade
<1>12. CASE n > 0
  <2>1. strLoose' = TRUE
    BY <1>4, <1>12
  <2> QED  BY <1>3, <1>6, <1>7, <1>9, <1>10, <2>1, StrMade
<1> QED  BY <1>1, <1>11, <1>12

\* A text cut in two and put together again is the same.
LEMMA Rejoined ==
  ASSUME NEW S, NEW s \in Seq(S), NEW p \in 0..Len(s)
  PROVE  SubSeq(s, 1, p) \o << >> \o SubSeq(s, p + 1, Len(s)) = s
<1> DEFINE t == SubSeq(s, 1, p)
           u == SubSeq(s, p + 1, Len(s))
<1>1. /\ t \in Seq(S) /\ Len(t) = p /\ p \in Nat /\ Len(s) \in Nat
      /\ \A i \in 1..p : t[i] = s[i]
  BY Part
<1>2. /\ u \in Seq(S) /\ Len(u) = Len(s) - p
      /\ \A i \in 1..(Len(s) - p) : u[i] = s[p + i]
  BY Part
<1>3. t \o << >> = t
  BY <1>1
<1> HIDE DEF t, u
<1>4. /\ t \o u \in Seq(S) /\ Len(t \o u) = Len(s)
      /\ \A i \in 1..Len(s) : i <= p => (t \o u)[i] = t[i]
      /\ \A i \in 1..Len(s) : i > p => (t \o u)[i] = u[i - p]
  <2>1. Len(t) + Len(u) = Len(s)
    BY <1>1, <1>2
  <2> QED  BY <1>1, <1>2, <2>1, Joined
<1>5. \A i \in 1..Len(s) : (t \o u)[i] = s[i]
  <2> SUFFICES ASSUME NEW i \in 1..Len(s) PROVE (t \o u)[i] = s[i]
    OBVIOUS
  <2>1. CASE i <= p
    BY <1>1, <1>4, <2>1
  <2>2. CASE i > p
    <3>1. i - p \in 1..(Len(s) - p) /\ p + (i - p) = i
      BY <1>1, <2>2
    <3>2. u[i - p] = s[p + (i - p)]
      BY <1>2, <3>1
    <3> QED  BY <1>4, <2>2, <3>1, <3>2
  <2>3. i <= p \/ i > p
    BY <1>1
  <2> QED  BY <2>1, <2>2, <2>3, Zenon
<1>6. t \o u = s
  BY <1>4, <1>5, SameSeq
<1> QED  BY <1>3, <1>6 DEF t, u

LEMMA StrInsertStep ==
  ASSUME StrInv, ~strWild, ~strLoose, NEW pos \in 0..strLen, NEW word \in Words, StrInsert(pos, word)
  PROVE  StrInv'
<1> DEFINE n == Len(word)
           m == Grow(n)
           moved == strLen - pos - n + 1
           v == IF moved >= 0 THEN Move(m, pos + n, pos, moved) ELSE m
           k == Store(v, pos, word)
<1>1. word \in Seq(Chars) /\ n \in Nat
  BY InWords
<1>2. PICK a \in Nat, b \in Nat :
        /\ str \in [0..(a - 1) -> StrCells] /\ strLen \in 0..(a - 1)
        /\ strText \in Seq(Chars) /\ Len(strText) = strLen /\ str[strLen] = NUL
        /\ \A i \in 1..strLen : str[i - 1] = strText[i]
        /\ m \in [0..(b - 1) -> StrCells] /\ strLen + n < b
        /\ a <= b /\ \A i \in 0..(a - 1) : m[i] = str[i]
  BY <1>1, Room
<1>3. str' = k /\ strLen' = strLen
      /\ strText' = SubSeq(strText, 1, pos) \o word \o SubSeq(strText, pos + 1, Len(strText))
  BY <1>2 DEF StrInsert, Meant
<1>4. strLoose' = (strLoose \/ n > 0) /\ strWild' = (strWild \/ moved < 0)
  BY DEF StrInsert
<1> HIDE DEF m
<1>5. strLen \in Nat /\ pos \in Nat /\ m \in [0..(b - 1) -> StrCells] /\ strLen \in 0..(b - 1)
  BY <1>1, <1>2
<1>6. moved < 0 => n > 0
  BY <1>1, <1>5
<1>7. /\ v \in [0..(b - 1) -> StrCells]
      /\ n = 0 => \A i \in 0..(b - 1) : v[i] = m[i]
  BY <1>1, <1>5, SMTT(30) DEF Move, StrCells
<1> HIDE DEF v
<1>8. /\ k \in [0..(b - 1) -> StrCells]
      /\ n = 0 => \A i \in 0..(b - 1) : k[i] = v[i]
  BY <1>1, <1>5, <1>7 DEF Store, StrCells
<1> HIDE DEF k
<1>9. strText' \in Seq(Chars)
  <2> DEFINE p == SubSeq(strText, 1, pos)
             q == SubSeq(strText, pos + 1, Len(strText))
  <2>1. p \in Seq(Chars) /\ q \in Seq(Chars)
    BY <1>2, <1>5, Part
  <2> HIDE DEF p, q
  <2>2. p \o word \in Seq(Chars)
    BY <1>1, <2>1, Joined
  <2>3. (p \o word) \o q \in Seq(Chars)
    BY <2>1, <2>2, Joined
  <2> QED  BY <1>3, <2>3 DEF p, q
<1>10. strWild' \in BOOLEAN /\ (strWild' => n > 0)
  BY <1>4, <1>6
<1>11. CASE n = 0
  <2>1. word = << >>
    BY <1>1, <1>11
  <2>2. strText' = strText
    BY <1>2, <1>3, <2>1, Rejoined
  <2>3. \A i \in 0..(a - 1) : k[i] = str[i]
    BY <1>2, <1>7, <1>8, <1>11
  <2>4. Spells(k, strLen, strText)
    BY <1>2, <2>3 DEF Spells
  <2>5. strLoose' = FALSE /\ strWild' = FALSE
    BY <1>4, <1>6, <1>10, <1>11 DEF StrInv
  <2> QED  BY <1>3, <1>5, <1>8, <1>9, <2>2, <2>4, <2>5, StrMade
<1>12. CASE n > 0
  <2>1. strLoose' = TRUE
    BY <1>4, <1>12
  <2> QED  BY <1>3, <1>5, <1>8, <1>9, <1>10, <2>1, StrMade
<1> QED  BY <1>1, <1>11, <1>12

LEMMA StrTruncateStep ==
  ASSUME StrInv, ~strWild, ~strLoose, NEW n \in 0..MaxStr, StrTruncate(n)
  PROVE  StrInv'
<1>1. PICK a \in Nat : /\ str \in [0..(a - 1) -> StrCells] /\ strLen \in 0..(a - 1)
                       /\ strText \in Seq(Chars) /\ Len(strText) = strLen
                       /\ \A i \in 1..strLen : str[i - 1] = strText[i]
  BY Sound
<1>2. n < strLen /\ Terminate(str, n, TRUE) /\ strText' = SubSeq(strText, 1, n) /\ strLoose' = FALSE
  BY DEF StrTruncate, Meant, StrInv
<1>3. n \in 0..(a - 1)
  BY <1>1, <1>2, GStringAssumption
<1>4. strText' \in Seq(Chars) /\ Len(strText') = n /\ \A i \in 1..n : strText'[i] = strText[i]
  BY <1>1, <1>2, <1>3, Part
<1>5. \A i \in 1..n : str[i - 1] = strText'[i]
  BY <1>1, <1>2, <1>3, <1>4
<1> QED  BY <1>1, <1>2, <1>3, <1>4, <1>5, StrTerminates

LEMMA SetValueStep ==
  ASSUME StrInv, ~strWild, NEW word \in Words, SetValue(word)
  PROVE  StrInv'
<1> DEFINE n == Len(word)
           m == IF n >= Alloced THEN Realloc(str, (Alloced + n + Slack) * 2) ELSE str
           k == Store(m, 0, word)
<1>1. word \in Seq(Chars) /\ n \in Nat
  BY InWords
<1>2. PICK a \in Nat : str \in [0..(a - 1) -> StrCells] /\ Alloced = a
  BY StrShape
<1>3. Slack \in Nat \ {0}
  BY GStringAssumption
<1>4. PICK b \in Nat : m \in [0..(b - 1) -> StrCells] /\ n < b
  <2>1. CASE n < a
    BY <1>1, <1>2, <2>1
  <2>2. CASE n >= a
    <3> DEFINE b == (a + n + Slack) * 2
    <3>1. m = Realloc(str, b)
      BY <1>2, <2>2
    <3>2. b \in Nat /\ n < b
      <4>1. n \in Nat /\ a \in Nat /\ Slack \in Nat \ {0}
        BY <1>1, <1>3
      <4> HIDE DEF m, n
      <4> QED  BY <4>1
    <3> HIDE DEF b, m
    <3>3. m \in [0..(b - 1) -> StrCells]
      BY <1>2, <3>1 DEF Realloc, StrCells
    <3> QED  BY <3>2, <3>3
  <2> QED  BY <1>1, <1>2, <2>1, <2>2
<1>5. /\ strText' = word /\ strLoose' = FALSE
      /\ Terminate(k, n, Inside(m, 0, n))
  BY DEF SetValue, StrInv
<1> HIDE DEF m
<1>6. k \in [0..(b - 1) -> StrCells] /\ \A i \in 1..n : k[i - 1] = word[i]
  <2>1. /\ k \in [0..(b - 1) -> StrCells]
        /\ \A i \in 0..(b - 1) : i \in 0..(0 + n - 1) => k[i] = word[i - 0 + 1]
    <3>1. 0 \in Nat /\ m \in [0..(b - 1) -> StrCells]
      BY <1>4
    <3> QED  BY <1>1, <3>1, Stores, Zenon
  <2>2. \A i \in 1..n : i - 1 \in 0..(b - 1) /\ i - 1 \in 0..(0 + n - 1) /\ i - 1 - 0 + 1 = i
    BY <1>1, <1>4
  <2> HIDE DEF k
  <2> QED  BY <2>1, <2>2
<1> HIDE DEF k
<1>7. Inside(m, 0, n) /\ n \in 0..(b - 1)
  BY <1>1, <1>4 DEF Inside
<1> QED  BY <1>1, <1>5, <1>6, <1>7, StrTerminates

LEMMA StrSetSizeStep ==
  ASSUME StrInv, ~strWild, ~strLoose, NEW n \in 0..MaxStr, StrSetSize(n)
  PROVE  StrInv'
<1> DEFINE m == Grow(n)
           l == IF n < strLen THEN n ELSE strLen
<1>1. n \in Nat
  BY GStringAssumption
<1>2. PICK a \in Nat, b \in Nat :
        /\ str \in [0..(a - 1) -> StrCells] /\ strLen \in 0..(a - 1)
        /\ strText \in Seq(Chars) /\ Len(strText) = strLen /\ str[strLen] = NUL
        /\ \A i \in 1..strLen : str[i - 1] = strText[i]
        /\ m \in [0..(b - 1) -> StrCells] /\ strLen + n < b
        /\ a <= b /\ \A i \in 0..(a - 1) : m[i] = str[i]
  BY <1>1, Room
<1>3. Terminate(m, n, TRUE) /\ strText' = SubSeq(strText, 1, l) /\ strLoose' = (strLoose \/ n > strLen)
  BY DEF StrSetSize, Meant
<1> HIDE DEF m
<1>4. n \in 0..(b - 1) /\ l \in 0..strLen /\ strLen \in Nat
  BY <1>1, <1>2
<1>5. /\ strText' \in Seq(Chars) /\ Len(strText') = l
      /\ \A i \in 1..l : strText'[i] = strText[i]
  BY <1>2, <1>3, <1>4, Part
<1>6. CASE n > strLen
  <2>1. strLoose' = TRUE
    BY <1>3, <1>6
  <2>2. Inside(m, n, 1) /\ Fill(m, n, 1, NUL) \in [0..(b - 1) -> StrCells]
    BY <1>2, <1>4 DEF Inside, Fill, StrCells
  <2>3. str' = Fill(m, n, 1, NUL) /\ strLen' = n /\ strWild' \in BOOLEAN
    BY <1>3 DEF Terminate
  <2> QED  BY <1>4, <1>5, <2>1, <2>2, <2>3 DEF StrInv
<1>7. CASE n <= strLen
  <2>1. strLoose' = FALSE
    BY <1>3, <1>4, <1>7 DEF StrInv
  <2>2. l = n
    BY <1>4, <1>7
  <2>3. \A i \in 1..n : m[i - 1] = strText'[i]
    BY <1>2, <1>4, <1>5, <1>7, <2>2
  <2> HIDE DEF l
  <2> QED  BY <1>2, <1>3, <1>4, <1>5, <2>1, <2>2, <2>3, StrTerminates
<1> QED  BY <1>4, <1>6, <1>7

LEMMA StrEraseStep ==
  ASSUME StrInv, ~strWild, ~strLoose, NEW pos \in 0..strLen, NEW n \in 0..strLen, StrErase(pos, n)
  PROVE  StrInv'
<1> DEFINE p == SubSeq(strText, 1, pos)
           q == SubSeq(strText, pos + n + 1, strLen)
<1>1. PICK a \in Nat : /\ str \in [0..(a - 1) -> StrCells] /\ strLen \in 0..(a - 1)
                       /\ strText \in Seq(Chars) /\ Len(strText) = strLen /\ str[strLen] = NUL
                       /\ \A i \in 1..strLen : str[i - 1] = strText[i]
  BY Sound
<1>2. pos < strLen /\ strWild' = strWild /\ strText' = p \o q
  BY DEF StrErase, Meant
<1>3. strLen \in Nat /\ pos \in Nat /\ n \in Nat /\ strWild' = FALSE
  BY <1>1, <1>2 DEF StrInv
<1>4. p \in Seq(Chars) /\ Len(p) = pos /\ \A i \in 1..pos : p[i] = strText[i]
  BY <1>1, <1>2, <1>3, Part, SMTT(30)
<1>5. CASE pos + n >= strLen
  <2>1. str' = Fill(str, pos, 1, NUL) /\ strLoose' = TRUE /\ strLen' = strLen
    BY <1>5 DEF StrErase
  <2>2. q \in Seq(Chars)
    BY <1>1, <1>3, <1>5
  <2>3. strText' \in Seq(Chars)
    BY <1>2, <1>4, <2>2, Joined
  <2>4. str' \in [0..(a - 1) -> StrCells]
    BY <1>1, <2>1 DEF Fill, StrCells
  <2> QED  BY <1>1, <1>3, <2>1, <2>3, <2>4 DEF StrInv
<1>6. CASE pos + n < strLen
  <2> DEFINE f == pos + n
             c == strLen - (pos + n) + 1
             m == Move(str, pos, f, c)
  <2>1. str' = m /\ strLen' = strLen - n /\ strLoose' = FALSE
    <3>1. ~(pos + n >= strLen)
      BY <1>3, <1>6
    <3>2. strLoose' = strLoose /\ strLen' = strLen - n /\ str' = m
      BY <3>1, Zenon DEF StrErase
    <3> QED  BY <3>2 DEF StrInv
  <2>0. pos + n + 1 \in 1..(strLen + 1) /\ strLen \in (pos + n)..strLen /\ strLen - (pos + n + 1) + 1 = strLen - n - pos
    BY <1>3, <1>6
  <2>2. /\ q \in Seq(Chars) /\ Len(q) = strLen - n - pos
        /\ \A i \in 1..(strLen - n - pos) : q[i] = strText[pos + n + i]
    BY <2>0, <1>1, Part
  <2> HIDE DEF p, q
  <2>3. /\ strText' \in Seq(Chars) /\ Len(strText') = strLen - n
        /\ \A i \in 1..(strLen - n) : i <= pos => strText'[i] = p[i]
        /\ \A i \in 1..(strLen - n) : i > pos => strText'[i] = q[i - pos]
    <3>1. Len(p) + Len(q) = strLen - n
      BY <1>3, <1>4, <2>2
    <3>2. p \in Seq(Chars) /\ q \in Seq(Chars)
      BY <1>4, <2>2
    <3>3. /\ p \o q \in Seq(Chars) /\ Len(p \o q) = Len(p) + Len(q)
          /\ \A i \in 1..(Len(p) + Len(q)) : i <= Len(p) => (p \o q)[i] = p[i]
          /\ \A i \in 1..(Len(p) + Len(q)) : i > Len(p) => (p \o q)[i] = q[i - Len(p)]
      BY <3>2, Joined
    <3>4. Len(p) = pos /\ strText' = p \o q
      BY <1>2, <1>4
    <3> QED  BY <3>1, <3>3, <3>4
  <2>4. /\ m \in [0..(a - 1) -> StrCells]
        /\ \A i \in 0..(a - 1) : i \in pos..(pos + c - 1) /\ pos + n + i - pos < a => m[i] = str[pos + n + i - pos]
        /\ \A i \in 0..(a - 1) : i \notin pos..(pos + c - 1) => m[i] = str[i]
    <3>1. c \in Nat /\ f \in Nat /\ pos \in Nat /\ str \in [0..(a - 1) -> StrCells]
      BY <1>1, <1>3, <1>6
    <3> HIDE DEF c, f
    <3>2. /\ m \in [0..(a - 1) -> StrCells]
          /\ \A i \in 0..(a - 1) : i \in pos..(pos + c - 1) /\ f + i - pos < a => m[i] = str[f + i - pos]
          /\ \A i \in 0..(a - 1) : i \notin pos..(pos + c - 1) => m[i] = str[i]
      <4>1. \A i \in 0..(a - 1) : i \in pos..(pos + c - 1) => f + i - pos \in Nat
        BY <3>1
      <4> QED  BY <3>1, <4>1 DEF Move, StrCells
    <3> QED  BY <3>2 DEF f
  <2> HIDE DEF m
  <2>5. m[strLen - n] = NUL
    <3>1. /\ strLen - n \in 0..(a - 1) /\ strLen - n \in pos..(pos + c - 1)
          /\ pos + n + (strLen - n) - pos = strLen /\ strLen < a
      BY <1>1, <1>3, <1>6
    <3> QED  BY <1>1, <2>4, <3>1
  <2>6. \A i \in 1..(strLen - n) : m[i - 1] = strText'[i]
    <3> SUFFICES ASSUME NEW i \in 1..(strLen - n) PROVE m[i - 1] = strText'[i]
      OBVIOUS
    <3>1. CASE i <= pos
      <4>1. i \in 1..pos /\ i \in 1..strLen /\ i - 1 \in 0..(a - 1) /\ i - 1 \notin pos..(pos + c - 1)
        BY <1>1, <1>3, <1>6, <3>1
      <4>2. m[i - 1] = str[i - 1] /\ i \in 1..(strLen - n)
        BY <2>4, <4>1
      <4>3. str[i - 1] = strText[i]
        BY <1>1, <4>1
      <4>4. strText'[i] = p[i] /\ p[i] = strText[i]
        BY <1>4, <2>3, <3>1, <4>1, <4>2
      <4> QED  BY <4>2, <4>3, <4>4
    <3>2. CASE i > pos
      <4>1. /\ i - pos \in 1..(strLen - n - pos) /\ pos + n + (i - pos) = n + i /\ n + i \in 1..strLen
            /\ i - 1 \in 0..(a - 1) /\ i - 1 \in pos..(pos + c - 1)
            /\ pos + n + (i - 1) - pos = n + i - 1 /\ n + i - 1 < a
        BY <1>1, <1>3, <1>6, <3>2
      <4>2. strText'[i] = strText[n + i]
        BY <2>2, <2>3, <3>2, <4>1
      <4>3. m[i - 1] = str[n + i - 1]
        BY <2>4, <4>1
      <4>4. str[n + i - 1] = strText[n + i]
        BY <1>1, <4>1
      <4> QED  BY <4>2, <4>3, <4>4
    <3> QED  BY <1>3, <3>1, <3>2
  <2>7. strLen - n \in 0..(a - 1)
    BY <1>1, <1>3, <1>6
  <2>8. Spells(m, strLen - n, strText')
    BY <2>3, <2>5, <2>6 DEF Spells
  <2> HIDE DEF c
  <2> QED  BY <1>3, <2>1, <2>3, <2>4, <2>7, <2>8, StrMade
<1> QED  BY <1>3, <1>5, <1>6

LEMMA StrInitial ==
  ASSUME StrInit PROVE StrInv
<1>1. PICK word \in Words :
        /\ str = Fill(Store(Alloc(IF Len(word) + 1 < MinAlloc THEN MinAlloc ELSE Len(word) + 1), 0, word),
                      Len(word), 1, NUL)
        /\ strLen = Len(word) /\ strText = word
        /\ strLoose = FALSE /\ strWild = FALSE
  BY DEF StrInit
<1> DEFINE room == IF Len(word) + 1 < MinAlloc THEN MinAlloc ELSE Len(word) + 1
           m    == Store(Alloc(room), 0, word)
<1>2. word \in Seq(Chars) /\ Len(word) \in Nat
  BY InWords
<1>3. room \in Nat /\ Len(word) \in 0..(room - 1)
  BY <1>2, GStringAssumption
<1>4. str = Fill(m, Len(word), 1, NUL)
  BY <1>1
<1> HIDE DEF room
<1>5. Alloc(room) \in [0..(room - 1) -> StrCells]
  BY DEF Alloc, StrCells
<1>6. m \in [0..(room - 1) -> StrCells] /\ \A i \in 1..Len(word) : m[i - 1] = word[i]
  BY <1>2, <1>3, <1>5, Stores
<1> HIDE DEF m
<1>7. str \in [0..(room - 1) -> StrCells] /\ Spells(str, Len(word), word)
  BY <1>2, <1>3, <1>4, <1>6, Terminated
<1> QED  BY <1>1, <1>2, <1>3, <1>7 DEF StrInv

-----------------------------------------------------------------------------
(* Inside of the block, whatever len and contents are *)

StrRoomy == \E b \in Nat : str \in [0..(b - 1) -> StrCells] /\ strLen \in 0..(b - 1)

\* GROW_IF_NECESSARY leaves room for more than l, also in a string whose len and
\* contents have come apart.
LEMMA AnyRoom ==
  ASSUME StrInv, ~strWild, NEW l \in Nat
  PROVE  \E b \in Nat : Grow(l) \in [0..(b - 1) -> StrCells] /\ strLen + l < b /\ strLen \in 0..(b - 1)
<1>1. PICK a \in Nat : str \in [0..(a - 1) -> StrCells] /\ strLen \in 0..(a - 1) /\ Alloced = a
  BY StrShape
<1>2. Slack \in Nat
  BY GStringAssumption
<1>3. CASE strLen + l < a
  BY <1>1, <1>3 DEF Grow
<1>4. CASE strLen + l >= a
  <2> DEFINE b == (a + l + Slack) * 2
  <2>1. b \in Nat /\ strLen + l < b /\ strLen \in 0..(b - 1)
    BY <1>1, <1>2
  <2>2. Grow(l) = Realloc(str, b)
    BY <1>1, <1>4 DEF Grow
  <2> HIDE DEF b
  <2>3. Grow(l) \in [0..(b - 1) -> StrCells]
    BY <1>1, <2>2 DEF Realloc, StrCells
  <2> QED  BY <2>1, <2>3
<1> QED  BY <1>1, <1>3, <1>4

\* Moving cells and storing a text leave a block of that many cells.
LEMMA StaysBlock ==
  ASSUME NEW b \in Nat, NEW m \in [0..(b - 1) -> StrCells], NEW to \in Int, NEW from \in Int, NEW n \in Int,
         NEW at \in Nat, NEW w \in Seq(Chars)
  PROVE  /\ Move(m, to, from, n) \in [0..(b - 1) -> StrCells]
         /\ Store(m, at, w) \in [0..(b - 1) -> StrCells]
<1>1. Move(m, to, from, n) \in [0..(b - 1) -> StrCells]
  BY DEF Move, StrCells
<1>2. Store(m, at, w) \in [0..(b - 1) -> StrCells]
  BY DEF Store, StrCells
<1> QED  BY <1>1, <1>2

\* What a function leaves that ends by terminating n characters.
LEMMA Ended ==
  ASSUME ~strWild, NEW b \in Nat, NEW m \in [0..(b - 1) -> StrCells], NEW n \in 0..(b - 1),
         NEW legal, legal, Terminate(m, n, legal)
  PROVE  StrRoomy' /\ strWild' = FALSE
<1>1. Fill(m, n, 1, NUL) \in [0..(b - 1) -> StrCells] /\ Inside(m, n, 1)
  BY DEF Fill, Inside, StrCells
<1> QED  BY <1>1 DEF Terminate, StrRoomy

LEMMA AppendInside ==
  ASSUME StrInv, ~strWild, NEW word \in Words, StrAppend(word)
  PROVE  StrRoomy' /\ strWild' = FALSE
<1> DEFINE n == Len(word)
           m == Grow(n)
<1>1. word \in Seq(Chars) /\ n \in Nat
  BY InWords
<1>2. PICK b \in Nat : m \in [0..(b - 1) -> StrCells] /\ strLen + n < b /\ strLen \in 0..(b - 1)
  BY <1>1, AnyRoom
<1>3. Terminate(Store(m, strLen, word), strLen + n, Inside(m, strLen, n))
  BY DEF StrAppend
<1> HIDE DEF m
<1>4. Store(m, strLen, word) \in [0..(b - 1) -> StrCells]
  BY <1>1, <1>2, StaysBlock
<1>5. Inside(m, strLen, n) /\ strLen + n \in 0..(b - 1)
  BY <1>1, <1>2 DEF Inside
<1> QED  BY <1>3, <1>4, <1>5, Ended

LEMMA PrependInside ==
  ASSUME StrInv, ~strWild, NEW word \in Words, StrPrepend(word)
  PROVE  StrRoomy' /\ strWild' = FALSE
<1> DEFINE n == Len(word)
           m == Grow(n)
           v == Move(m, n, 0, strLen + 1)
<1>1. word \in Seq(Chars) /\ n \in Nat
  BY InWords
<1>2. PICK b \in Nat : m \in [0..(b - 1) -> StrCells] /\ strLen + n < b /\ strLen \in 0..(b - 1)
  BY <1>1, AnyRoom
<1>3. str' = Store(v, 0, word) /\ strLen' = strLen /\ strWild' = (strWild \/ ~Inside(m, 0, n + strLen + 1))
  BY DEF StrPrepend
<1> HIDE DEF m
<1>4. v \in [0..(b - 1) -> StrCells]
  BY <1>1, <1>2, StaysBlock
<1> HIDE DEF v
<1>5. Store(v, 0, word) \in [0..(b - 1) -> StrCells]
  BY <1>1, <1>4, StaysBlock
<1>6. Inside(m, 0, n + strLen + 1)
  BY <1>1, <1>2 DEF Inside
<1> QED  BY <1>2, <1>3, <1>5, <1>6 DEF StrRoomy

LEMMA InsertInside ==
  ASSUME StrInv, ~strWild, NEW pos \in 0..strLen, NEW word \in Words, StrInsert(pos, word)
  PROVE  /\ StrRoomy' /\ strWild' \in BOOLEAN
         /\ strWild' => Len(word) > strLen - pos + 1
<1> DEFINE n     == Len(word)
           m     == Grow(n)
           moved == strLen - pos - n + 1
           v     == IF moved >= 0 THEN Move(m, pos + n, pos, moved) ELSE m
<1>1. word \in Seq(Chars) /\ n \in Nat
  BY InWords
<1>2. PICK b \in Nat : m \in [0..(b - 1) -> StrCells] /\ strLen + n < b /\ strLen \in 0..(b - 1)
  BY <1>1, AnyRoom
<1>3. str' = Store(v, pos, word) /\ strLen' = strLen /\ strWild' = (strWild \/ moved < 0)
  BY DEF StrInsert
<1>4. pos \in Nat /\ moved \in Int /\ strLen \in Int
  BY <1>1, <1>2
<1>5. moved < 0 => n > strLen - pos + 1
  BY <1>1, <1>4
<1> HIDE DEF m
<1>6. v \in [0..(b - 1) -> StrCells]
  BY <1>1, <1>2, <1>4, StaysBlock
<1> HIDE DEF v
<1>7. Store(v, pos, word) \in [0..(b - 1) -> StrCells]
  BY <1>1, <1>4, <1>6, StaysBlock
<1> HIDE DEF moved
<1> QED  BY <1>2, <1>3, <1>5, <1>7 DEF StrRoomy

LEMMA TruncateInside ==
  ASSUME StrInv, ~strWild, NEW n \in 0..MaxStr, StrTruncate(n)
  PROVE  StrRoomy' /\ strWild' = FALSE
<1>1. PICK a \in Nat : str \in [0..(a - 1) -> StrCells] /\ strLen \in 0..(a - 1)
  BY StrShape
<1>2. n < strLen /\ Terminate(str, n, TRUE)
  BY DEF StrTruncate
<1>4. n \in Nat
  BY GStringAssumption
<1>3. n \in 0..(a - 1)
  BY <1>1, <1>2, <1>4
<1> QED  BY <1>1, <1>2, <1>3, Ended

LEMMA SetSizeInside ==
  ASSUME StrInv, ~strWild, NEW n \in 0..MaxStr, StrSetSize(n)
  PROVE  StrRoomy' /\ strWild' = FALSE
<1>1. n \in Nat
  BY GStringAssumption
<1>2. PICK b \in Nat : Grow(n) \in [0..(b - 1) -> StrCells] /\ strLen + n < b /\ strLen \in 0..(b - 1)
  BY <1>1, AnyRoom
<1>3. n \in 0..(b - 1)
  BY <1>1, <1>2
<1> QED  BY <1>2, <1>3, Ended DEF StrSetSize

LEMMA EraseInside ==
  ASSUME StrInv, ~strWild, NEW pos \in 0..strLen, NEW n \in 0..strLen, StrErase(pos, n)
  PROVE  StrRoomy' /\ strWild' = FALSE
<1>1. PICK a \in Nat : str \in [0..(a - 1) -> StrCells] /\ strLen \in 0..(a - 1)
  BY StrShape
<1>2. strWild' = FALSE /\ pos \in Nat /\ n \in Nat /\ strLen \in Nat
  BY <1>1 DEF StrErase, StrInv
<1>3. CASE pos + n >= strLen
  <2>1. Fill(str, pos, 1, NUL) \in [0..(a - 1) -> StrCells]
    BY <1>1 DEF Fill, StrCells
  <2> QED  BY <1>1, <1>2, <1>3, <2>1 DEF StrErase, StrRoomy
<1>4. CASE pos + n < strLen
  <2> DEFINE c == strLen - (pos + n) + 1
             m == Move(str, pos, pos + n, c)
  <2>1. m \in [0..(a - 1) -> StrCells]
    <3>1. c \in Int /\ pos \in Int /\ pos + n \in Int /\ << >> \in Seq(Chars)
      BY <1>2
    <3> QED  BY <1>1, <3>1, StaysBlock
  <2>2. ~(pos + n >= strLen) /\ strLen - n \in 0..(a - 1)
    BY <1>1, <1>2, <1>4
  <2>3. str' = m /\ strLen' = strLen - n
    BY <2>2, Zenon DEF StrErase
  <2> HIDE DEF m
  <2> QED  BY <1>2, <2>1, <2>2, <2>3 DEF StrRoomy
<1>5. pos + n >= strLen \/ pos + n < strLen
  BY <1>2
<1> QED  BY <1>3, <1>4, <1>5, Zenon

\* The functions other than those that make a new string or give one a value.
StrGoesOn ==
  \/ \E word \in Words : StrAppend(word) \/ StrPrepend(word)
  \/ \E pos \in 0..strLen, word \in Words : StrInsert(pos, word)
  \/ \E n \in 0..MaxStr : StrTruncate(n) \/ StrSetSize(n)
  \/ \E pos, n \in 0..strLen : StrErase(pos, n)

LEMMA GoesOnInside ==
  ASSUME StrInv, ~strWild, StrGoesOn
  PROVE  /\ StrRoomy' /\ strWild' \in BOOLEAN
         /\ strWild' => \E pos \in 0..strLen, word \in Words : StrInsert(pos, word) /\ Len(word) > strLen - pos + 1
<1> DEFINE Q == /\ StrRoomy' /\ strWild' \in BOOLEAN
                /\ strWild' => \E pos \in 0..strLen, word \in Words :
                                 StrInsert(pos, word) /\ Len(word) > strLen - pos + 1
<1>1. ASSUME NEW word \in Words, StrAppend(word) \/ StrPrepend(word) PROVE Q
  BY <1>1, AppendInside, PrependInside
<1>2. ASSUME NEW pos \in 0..strLen, NEW word \in Words, StrInsert(pos, word) PROVE Q
  BY <1>2, InsertInside
<1>3. ASSUME NEW n \in 0..MaxStr, StrTruncate(n) \/ StrSetSize(n) PROVE Q
  BY <1>3, TruncateInside, SetSizeInside
<1>4. ASSUME NEW pos \in 0..strLen, NEW n \in 0..strLen, StrErase(pos, n) PROVE Q
  BY <1>4, EraseInside
<1> HIDE DEF Q
<1>5. Q
  BY <1>1, <1>2, <1>3, <1>4 DEF StrGoesOn
<1> QED  BY <1>5 DEF Q

\* A string whose len and contents have come apart stays like that.
LEMMA LooseStep ==
  ASSUME StrInv, ~strWild, strLoose, StrGoesOn
  PROVE  StrInv'
<1>1. StrRoomy' /\ strWild' \in BOOLEAN
  BY GoesOnInside
<1>2. strText' = strText /\ strLoose' = TRUE
  BY Zenon DEF StrGoesOn, StrAppend, StrPrepend, StrInsert, StrTruncate, StrSetSize, StrErase, Meant
<1>3. PICK b \in Nat : str' \in [0..(b - 1) -> StrCells] /\ strLen' \in 0..(b - 1)
  BY <1>1 DEF StrRoomy
<1>4. strLen' \in 0..b /\ strLen' < b
  BY <1>3
<1> QED  BY <1>1, <1>2, <1>3, <1>4 DEF StrInv

\* The string is what its functions have made of it, and has room for its terminator,
\* for any characters, words, slack and least block: the step of every public function
\* of gstring.c that the model has, also on a string whose len is not that of its text.
THEOREM StringSound == StrSpec => []StrInv
<1>1. StrInit => StrInv
  BY StrInitial
<1>2. StrInv /\ [StrNext]_strVars => StrInv'
  <2> SUFFICES ASSUME StrInv, [StrNext]_strVars PROVE StrInv'
    OBVIOUS
  <2>1. CASE UNCHANGED strVars
    BY <2>1 DEF strVars, StrInv, Spells
  <2>2. ASSUME ~strWild, NEW word \in Words, StrNew(word, TRUE) \/ StrNew(word, FALSE) PROVE StrInv'
    BY <2>2, StrNewStep
  <2>3. ASSUME ~strWild, NEW n \in 0..MinAlloc, StrSizedNew(n) PROVE StrInv'
    BY <2>3, StrSizedNewStep
  <2>4. ASSUME ~strWild, NEW word \in Words, SetValue(word) PROVE StrInv'
    BY <2>4, SetValueStep
  <2>5. ASSUME ~strWild, StrGoesOn PROVE StrInv'
    <3>1. CASE strLoose
      BY <2>5, <3>1, LooseStep
    <3>2. CASE ~strLoose
      BY <2>5, <3>2, StrAppendStep, StrPrependStep, StrInsertStep, StrTruncateStep, StrSetSizeStep, StrEraseStep
      DEF StrGoesOn
    <3> QED  BY <3>1, <3>2
  <2> QED  BY <2>1, <2>2, <2>3, <2>4, <2>5 DEF StrNext, StrGoesOn
<1> QED  BY <1>1, <1>2, PTL DEF StrSpec

THEOREM StringCorrect == StrSpec => []StrCorrect
<1>1. StrInv => StrCorrect
  BY StrInvImplies
<1> QED  BY <1>1, StringSound, PTL

\* What the functions keep of the shape.
THEOREM StringTypeOK == StrSpec => []StrTypeOK
<1>1. StrInv => StrTypeOK
  BY StrInvImplies
<1> QED  BY <1>1, StringSound, PTL

\* Only g_string_sized_new(0) and the insertion of more than follows reach outside of the
\* block, in every order of the calls (gstring.c:69, :178).
THEOREM StringStaysInside == StrSpec => StrStaysInside
<1> DEFINE Q == \/ StrSizedNew(0)
                \/ \E pos \in 0..strLen, word \in Words : StrInsert(pos, word) /\ Len(word) > strLen - pos + 1
<1>1. ASSUME StrInv, StrNext PROVE strWild' => Q
  <2>1. ~strWild
    BY <1>1 DEF StrNext
  <2>2. ASSUME NEW word \in Words, StrNew(word, TRUE) \/ StrNew(word, FALSE) \/ SetValue(word) PROVE ~strWild'
    <3>1. strLoose' = FALSE
      BY <2>2 DEF StrNew, SetValue
    <3>2. StrInv'
      BY <1>1, <2>1, <2>2, StrNewStep, SetValueStep
    <3> QED  BY <3>1, <3>2 DEF StrInv
  <2>3. ASSUME NEW n \in 0..MinAlloc, StrSizedNew(n), strWild' PROVE Q
    <3>1. StrInv'
      BY <1>1, <2>1, <2>3, StrSizedNewStep
    <3>2. n = 0
      BY <2>3, <3>1 DEF StrInv, StrSizedNew
    <3> QED  BY <2>3, <3>2
  <2>4. ASSUME StrGoesOn, strWild' PROVE Q
    BY <1>1, <2>1, <2>4, GoesOnInside
  <2> HIDE DEF Q
  <2> QED  BY <1>1, <2>2, <2>3, <2>4 DEF StrNext, StrGoesOn
<1>2. StrInv /\ [StrNext]_strVars => [strWild' => Q]_strVars
  BY <1>1
<1> QED  BY <1>2, StringSound, PTL DEF StrSpec, StrStaysInside

\* A block reads as the text in front of its first NUL.
LEMMA ReadsText ==
  ASSUME NEW b \in Nat, NEW k \in [0..(b - 1) -> StrCells], NEW t \in Seq(Chars),
         NEW l \in 0..(b - 1), Spells(k, l, t)
  PROVE  Reads(k) = t
<1> DEFINE ends == {i \in DOMAIN k : k[i] = NUL}
<1>1. l \in ends
  BY DEF Spells
<1>2. NUL \notin Chars
  BY GStringAssumption
<1>3. \A j \in ends : l <= j
  <2> SUFFICES ASSUME NEW j \in ends, j < l PROVE FALSE
    OBVIOUS
  <2>1. j \in Nat /\ j + 1 \in 1..l /\ j + 1 - 1 = j
    OBVIOUS
  <2>2. k[j] = t[j + 1]
    BY <2>1 DEF Spells
  <2>3. t[j + 1] \in Chars
    BY <2>1 DEF Spells
  <2> QED  BY <1>2, <2>2, <2>3
<1>4. \A i \in ends : (\A j \in ends : i <= j) => i = l
  BY <1>1, <1>3
<1> HIDE DEF ends
<1>5. l = CHOOSE i \in ends : \A j \in ends : i <= j
  BY <1>1, <1>3, <1>4
<1>6. Reads(k) = Contents(k, l)
  BY <1>1, <1>5, Zenon DEF Reads, ends
<1>7. t = [i \in 1..l |-> t[i]]
  BY DEF Spells
<1> QED  BY <1>6, <1>7 DEF Contents, Spells

LEMMA PrependSpells ==
  ASSUME StrInv, ~strLoose, NEW word \in Words, StrPrepend(word)
  PROVE  Reads(str') = strText'
<1> DEFINE n == Len(word)
           m == Grow(n)
           z == strLen + 1
           v == Move(m, n, 0, z)
           k == Store(v, 0, word)
           l == n + strLen
<1>1. word \in Seq(Chars) /\ n \in Nat
  BY InWords
<1>2. PICK a \in Nat, b \in Nat :
        /\ str \in [0..(a - 1) -> StrCells] /\ strLen \in 0..(a - 1)
        /\ strText \in Seq(Chars) /\ Len(strText) = strLen /\ str[strLen] = NUL
        /\ \A i \in 1..strLen : str[i - 1] = strText[i]
        /\ m \in [0..(b - 1) -> StrCells] /\ strLen + n < b
        /\ a <= b /\ \A i \in 0..(a - 1) : m[i] = str[i]
  BY <1>1, Room
<1>3. str' = k /\ strText' = word \o strText
  BY DEF StrPrepend, Meant
<1> HIDE DEF m
<1>4. strLen \in Nat /\ m \in [0..(b - 1) -> StrCells] /\ l \in 0..(b - 1) /\ a <= b /\ strLen < a
  BY <1>1, <1>2
<1>5. /\ v \in [0..(b - 1) -> StrCells]
      /\ \A i \in 0..(b - 1) : i \in n..l => v[i] = m[i - n]
  <2>1. \A i \in 0..(b - 1) : i \in n..l => i \in n..(n + z - 1) /\ 0 + i - n = i - n /\ i - n \in 0..(b - 1)
    BY <1>1, <1>4
  <2> HIDE DEF l, n, z
  <2> QED  BY <1>4, <2>1 DEF Move, StrCells
<1> HIDE DEF v
<1>6. /\ k \in [0..(b - 1) -> StrCells]
      /\ \A i \in 0..(b - 1) : i \in 0..(n - 1) => k[i] = word[i + 1]
      /\ \A i \in 0..(b - 1) : i \notin 0..(n - 1) => k[i] = v[i]
  <2>1. \A i \in 0..(b - 1) : i - 0 + 1 = i + 1 /\ (i \in 0..(0 + n - 1) <=> i \in 0..(n - 1))
    BY <1>1
  <2> QED  BY <1>1, <1>5, <2>1 DEF Store, StrCells
<1> HIDE DEF k
<1>7. /\ strText' \in Seq(Chars) /\ Len(strText') = l
      /\ \A i \in 1..l : i <= n => strText'[i] = word[i]
      /\ \A i \in 1..l : i > n => strText'[i] = strText[i - n]
  <2>1. strText \in Seq(Chars) /\ Len(strText) = strLen
    BY <1>2
  <2>2. /\ word \o strText \in Seq(Chars) /\ Len(word \o strText) = Len(word) + Len(strText)
        /\ \A i \in 1..(Len(word) + Len(strText)) : i <= Len(word) => (word \o strText)[i] = word[i]
        /\ \A i \in 1..(Len(word) + Len(strText)) : i > Len(word) => (word \o strText)[i] = strText[i - Len(word)]
    BY <1>1, <2>1, Joined
  <2> QED  BY <1>3, <2>1, <2>2
<1>8. k[l] = NUL
  <2>1. l \notin 0..(n - 1) /\ l \in n..l /\ l - n = strLen /\ strLen \in 0..(a - 1)
    BY <1>1, <1>4
  <2>2. k[l] = m[strLen]
    BY <1>4, <1>5, <1>6, <2>1
  <2> QED  BY <1>2, <2>1, <2>2
<1>9. \A i \in 1..l : k[i - 1] = strText'[i]
  <2> SUFFICES ASSUME NEW i \in 1..l PROVE k[i - 1] = strText'[i]
    OBVIOUS
  <2>1. i - 1 \in 0..(b - 1)
    BY <1>1, <1>4
  <2>2. CASE i <= n
    <3>1. i - 1 \in 0..(n - 1) /\ i - 1 + 1 = i
      BY <1>1, <2>2
    <3> QED  BY <1>6, <1>7, <2>1, <2>2, <3>1
  <2>3. CASE i > n
    <3>1. /\ i - 1 \notin 0..(n - 1) /\ i - 1 \in n..l /\ i - n \in 1..strLen
          /\ i - 1 - n = i - n - 1 /\ i - n - 1 \in 0..(a - 1)
      BY <1>1, <1>4, <2>3
    <3>2. k[i - 1] = m[i - n - 1]
      BY <1>5, <1>6, <2>1, <3>1
    <3>3. m[i - n - 1] = str[i - n - 1] /\ str[i - n - 1] = strText[i - n]
      BY <1>2, <3>1
    <3> QED  BY <1>7, <2>3, <3>2, <3>3
  <2>4. i <= n \/ i > n
    BY <1>1
  <2> QED  BY <2>2, <2>3, <2>4, Zenon
<1>10. Spells(k, l, strText')
  BY <1>7, <1>8, <1>9 DEF Spells
<1> HIDE DEF l
<1>11. Reads(k) = strText'
  BY <1>4, <1>6, <1>7, <1>10, ReadsText
<1> QED  BY <1>3, <1>11

\* What g_string_prepend leaves still reads as the text with the new one in front, though
\* its length is that of the old one.
THEOREM PrependStillReads == StrSpec => PrependReads
<1>1. StrInv /\ [StrNext]_strVars =>
        [\A word \in Words : ~strLoose /\ StrPrepend(word) => Reads(str') = strText']_strVars
  BY PrependSpells
<1> QED  BY <1>1, StringSound, PTL DEF StrSpec, PrependReads

-----------------------------------------------------------------------------
(* Arrays *)

GaCells == Elements \cup {Junk}

\* The first n cells are the elements of s, where it says what they are.
Keeps(m, n, s) == Len(s) = n /\ \A i \in 1..n : s[i] # Junk => m[i - 1] = s[i]

\* GaTypeOK and GaCorrect, and that the elements are in the block.
GaInv ==
  /\ gaFlags \in [clear : BOOLEAN, zero : BOOLEAN]
  /\ gaCapacity \in Nat /\ gaCapacity % Block = 0
  /\ gaData \in [0..(gaCapacity - 1) -> GaCells]
  /\ gaLen \in 0..gaCapacity /\ gaLen <= MaxElements
  /\ gaWanted \in Seq(GaCells)
  /\ gaSized \in {"no", "cut", "grown"} /\ gaWild \in BOOLEAN
  /\ Keeps(gaData, gaLen, gaWanted)
  /\ GaTerminated /\ GaHasRoom /\ GaCleared

LEMMA GaInvImplies ==
  GaInv => GaTypeOK /\ GaCorrect
<1> SUFFICES ASSUME GaInv PROVE GaTypeOK /\ GaCorrect
  OBVIOUS
<1>1. gaLen \in 0..(MaxElements + 1)
  BY GArrayAssumption DEF GaInv
<1>2. GaTypeOK
  BY <1>1 DEF GaInv, GaTypeOK, GaCells
<1>3. GaExact
  BY DEF GaInv, Keeps, GaExact
<1> QED  BY <1>2, <1>3 DEF GaInv, GaCorrect

\* ensure_capacity: not less than was asked for, a multiple of the block size.
LEMMA Ensures ==
  ASSUME GaInv, NEW n \in Nat
  PROVE  /\ Ensured(n) \in Nat /\ Ensured(n) % Block = 0
         /\ Ensured(n) >= n /\ Ensured(n) >= gaCapacity
<1>1. gaCapacity \in Nat /\ gaCapacity % Block = 0 /\ Block \in Nat \ {0}
  BY GArrayAssumption DEF GaInv
<1>2. CASE n <= gaCapacity
  BY <1>1, <1>2 DEF Ensured
<1>3. CASE n > gaCapacity
  <2> DEFINE c == ((n + Block - 1) \div Block) * Block
  <2>1. c \in Nat /\ c >= n /\ c % Block = 0
    BY <1>1, RoundedUp
  <2>2. ~(n <= gaCapacity)
    BY <1>1, <1>3
  <2>3. Ensured(n) = c
    BY <2>2 DEF Ensured
  <2> HIDE DEF c
  <2> QED  BY <1>1, <1>3, <2>1, <2>3
<1> QED  BY <1>1, <1>2, <1>3

\* Its block keeps the cells there are and clears the new ones if that is wanted.
LEMMA EnsuresBlock ==
  ASSUME GaInv, NEW n \in Nat
  PROVE  /\ EnsuredBlock(n) \in [0..(Ensured(n) - 1) -> GaCells]
         /\ \A i \in 0..(gaCapacity - 1) : EnsuredBlock(n)[i] = gaData[i]
         /\ gaFlags.clear /\ ~gaWild => \A i \in 0..(Ensured(n) - 1) : EnsuredBlock(n)[i] # Junk
<1> DEFINE c == Ensured(n)
           r == Realloc(gaData, c)
           m == EnsuredBlock(n)
<1>1. c \in Nat /\ c >= gaCapacity
  BY Ensures
<1>2. /\ gaCapacity \in Nat /\ gaData \in [0..(gaCapacity - 1) -> GaCells]
      /\ Zero \in Elements /\ Junk \notin Elements
  BY GArrayAssumption DEF GaInv
<1>3. m = IF gaFlags.clear THEN Fill(r, gaCapacity, c - gaCapacity, Zero) ELSE r
  BY DEF EnsuredBlock
<1>4. gaFlags.clear /\ ~gaWild => \A i \in 0..(gaCapacity - 1) : gaData[i] # Junk
  BY DEF GaInv, GaCleared
<1> HIDE DEF c, m
<1>5. /\ r \in [0..(c - 1) -> GaCells]
      /\ \A i \in 0..(gaCapacity - 1) : i \in 0..(c - 1) /\ r[i] = gaData[i]
  <2>1. \A i \in 0..(gaCapacity - 1) : i \in 0..(c - 1)
    BY <1>1, <1>2
  <2>2. DOMAIN gaData = 0..(gaCapacity - 1) /\ \A i \in 0..(gaCapacity - 1) : gaData[i] \in GaCells
    BY <1>2
  <2>3. r = [i \in 0..(c - 1) |-> IF i \in 0..(gaCapacity - 1) THEN gaData[i] ELSE Junk]
    BY <2>2 DEF Realloc
  <2>4. \A i \in 0..(gaCapacity - 1) : r[i] = gaData[i]
    BY <2>1, <2>3
  <2>5. r \in [0..(c - 1) -> GaCells]
    BY <2>2, <2>3 DEF GaCells
  <2> QED  BY <2>1, <2>4, <2>5
<1> HIDE DEF r
<1>6. CASE gaFlags.clear
  <2>1. m = Fill(r, gaCapacity, c - gaCapacity, Zero)
    BY <1>3, <1>6
  <2>2. /\ m \in [0..(c - 1) -> GaCells]
        /\ \A i \in 0..(c - 1) : i >= gaCapacity => m[i] = Zero
        /\ \A i \in 0..(c - 1) : i < gaCapacity => m[i] = r[i]
    BY <1>1, <1>2, <1>5, <2>1 DEF Fill, GaCells
  <2>3. \A i \in 0..(gaCapacity - 1) : m[i] = gaData[i]
    BY <1>1, <1>2, <1>5, <2>2
  <2>4. ~gaWild => \A i \in 0..(c - 1) : m[i] # Junk
    BY <1>1, <1>2, <1>4, <1>5, <1>6, <2>2
  <2> QED  BY <2>2, <2>3, <2>4 DEF c, m
<1>7. CASE ~gaFlags.clear
  BY <1>3, <1>5, <1>7 DEF c, m
<1> QED  BY <1>6, <1>7

\* What a step has to show that ends in Finish.
LEMMA Finishes ==
  ASSUME GaInv, ~gaWild, NEW c \in Nat, gaCapacity' = c, c % Block = 0,
         NEW m \in [0..(c - 1) -> GaCells], NEW n \in 0..c, n <= MaxElements,
         NEW s \in Seq(GaCells), Keeps(m, n, s), NEW legal \in BOOLEAN,
         gaFlags.zero => n < c,
         legal /\ gaFlags.clear => \A i \in 0..(c - 1) : m[i] # Junk,
         Finish(m, n, s, legal)
  PROVE  GaInv' /\ gaWild' = ~legal
<1> DEFINE k == Fill(m, n, 1, Zero)
<1>1. /\ gaData' = IF gaFlags.zero THEN k ELSE m
      /\ gaLen' = n /\ gaWanted' = s /\ gaSized' = "no" /\ gaFlags' = gaFlags
  BY DEF Finish
<1>2. gaWild' = (gaWild \/ ~legal \/ (gaFlags.zero /\ ~Inside(m, n, 1)))
  BY DEF Finish
<1>3. Zero \in Elements /\ Junk \notin Elements /\ MaxElements \in Nat
  BY GArrayAssumption
<1>4. gaFlags.zero => Inside(m, n, 1)
  BY DEF Inside
<1>5. gaWild' = ~legal
  BY <1>2, <1>4
<1>6. /\ k \in [0..(c - 1) -> GaCells]
      /\ n < c => k[n] = Zero
      /\ \A i \in 0..(c - 1) : i = n \/ k[i] = m[i]
  BY <1>3 DEF Fill, GaCells
<1> HIDE DEF k
<1>7. gaData' \in [0..(c - 1) -> GaCells]
  BY <1>1, <1>6
<1>8. Keeps(gaData', n, s)
  <2>1. \A i \in 1..n : i - 1 \in 0..(c - 1) /\ i - 1 # n
    OBVIOUS
  <2>2. Keeps(k, n, s)
    BY <1>6, <2>1 DEF Keeps
  <2> QED  BY <1>1, <2>2
<1>9. gaFlags.zero => n < c /\ gaData'[n] = Zero
  BY <1>1, <1>6
<1>10. GaTerminated'
  BY <1>1, <1>9 DEF GaTerminated
<1>12. GaCleared'
  <2> SUFFICES ASSUME gaFlags.clear, legal, NEW i \in 0..(c - 1) PROVE gaData'[i] # Junk
    BY <1>1, <1>5 DEF GaCleared
  <2> QED  BY <1>1, <1>3, <1>6
<1>13. gaWild' \in BOOLEAN
  BY <1>5
<1>14. /\ gaFlags' \in [clear : BOOLEAN, zero : BOOLEAN]
       /\ gaCapacity' \in Nat /\ gaCapacity' % Block = 0
       /\ gaLen' \in 0..gaCapacity' /\ gaLen' <= MaxElements
       /\ gaWanted' \in Seq(GaCells) /\ gaSized' \in {"no", "cut", "grown"}
  BY <1>1 DEF GaInv
<1>15. GaHasRoom'
  BY <1>1 DEF GaHasRoom
<1> QED  BY <1>1, <1>5, <1>7, <1>8, <1>10, <1>12, <1>13, <1>14, <1>15 DEF GaInv

\* The elements that are put in or moved along.
LEMMA GaStores ==
  ASSUME NEW c \in Nat, NEW m \in [0..(c - 1) -> GaCells], NEW k \in Nat, NEW w \in Seq(GaCells)
  PROVE  /\ Store(m, k, w) \in [0..(c - 1) -> GaCells]
         /\ \A i \in 0..(c - 1) : i \in k..(k + Len(w) - 1) => Store(m, k, w)[i] = w[i - k + 1]
         /\ \A i \in 0..(c - 1) : i \notin k..(k + Len(w) - 1) => Store(m, k, w)[i] = m[i]
BY DEF Store, GaCells

LEMMA GaInsertStep ==
  ASSUME GaInv, ~gaWild, NEW at \in 0..gaLen,
         NEW word \in {<<e>> : e \in Elements} \cup {<<e, e>> : e \in Elements}, GaInsert(at, word)
  PROVE  GaInv' /\ gaWild' = FALSE
<1> DEFINE n == Len(word)
           l == gaLen + n
           c == Ensured(l + Extra)
           m == EnsuredBlock(l + Extra)
           to == at + n
           v == Move(m, to, at, gaLen - at)
           k == Store(v, at, word)
           p == SubSeq(gaWanted, 1, at)
           q == SubSeq(gaWanted, at + 1, gaLen)
           s == p \o word \o q
           legal == Inside(m, to, gaLen - at)
<1>0. word \in Seq(Elements) /\ n \in 1..2
  <2>1. PICK e \in Elements : word = <<e>> \/ word = <<e, e>>
    OBVIOUS
  <2>2. <<e>> \in Seq(Elements) /\ Len(<<e>>) = 1 /\ <<e, e>> \in Seq(Elements) /\ Len(<<e, e>>) = 2
    OBVIOUS
  <2>3. CASE word = <<e>>
    BY <2>2, <2>3
  <2>4. CASE word = <<e, e>>
    BY <2>2, <2>4
  <2> QED  BY <2>1, <2>3, <2>4, Zenon
<1>1. word \in Seq(GaCells) /\ n \in 1..2
  BY <1>0 DEF GaCells
<1>2. /\ gaLen \in Nat /\ gaCapacity \in Nat /\ at \in Nat /\ at <= gaLen
      /\ gaLen <= gaCapacity /\ gaWanted \in Seq(GaCells)
  BY DEF GaInv
<1>3. Len(gaWanted) = gaLen /\ \A i \in 1..gaLen : gaWanted[i] # Junk => gaData[i - 1] = gaWanted[i]
  BY <1>2 DEF GaInv, Keeps
<1>4. Extra \in Nat /\ (gaFlags.zero => Extra = 1) /\ l + Extra \in Nat /\ l \in Nat
  BY <1>1, <1>2 DEF Extra
<1>5. /\ l <= MaxElements /\ gaCapacity' = c /\ Finish(k, l, s, legal)
  BY DEF GaInsert
<1>6. c \in Nat /\ c % Block = 0 /\ c >= l + Extra /\ c >= gaCapacity
  BY <1>4, Ensures
<1>7. /\ m \in [0..(c - 1) -> GaCells]
      /\ \A i \in 0..(gaCapacity - 1) : m[i] = gaData[i]
      /\ gaFlags.clear => \A i \in 0..(c - 1) : m[i] # Junk
  BY <1>4, EnsuresBlock
<1> HIDE DEF c, m
<1>8. legal
  BY <1>1, <1>2, <1>4, <1>6, <1>7, SMTT(30) DEF Inside
<1>9. gaLen - at \in Nat /\ to \in Nat
  BY <1>1, <1>2
<1>10. /\ v \in [0..(c - 1) -> GaCells]
       /\ \A i \in 0..(c - 1) : i \in to..(to + (gaLen - at) - 1) /\ at + i - to < c => v[i] = m[at + i - to]
       /\ \A i \in 0..(c - 1) : i \notin to..(to + (gaLen - at) - 1) => v[i] = m[i]
  <2> DEFINE z == gaLen - at
  <2> HIDE DEF z, to
  <2>1. z \in Nat /\ to \in Nat
    BY <1>9 DEF z
  <2>2. \A i \in 0..(c - 1) : i \in to..(to + z - 1) => at + i - to \in Nat
    BY <1>2, <2>1
  <2>3. v = Move(m, to, at, z)
    BY DEF z
  <2> HIDE DEF v
  <2>4. /\ v \in [0..(c - 1) -> GaCells]
        /\ \A i \in 0..(c - 1) : i \in to..(to + z - 1) /\ at + i - to < c => v[i] = m[at + i - to]
        /\ \A i \in 0..(c - 1) : i \notin to..(to + z - 1) => v[i] = m[i]
    BY <1>2, <1>6, <1>7, <2>1, <2>2, <2>3 DEF Move, GaCells
  <2> QED  BY <2>4 DEF z
<1> HIDE DEF v
<1>11. /\ k \in [0..(c - 1) -> GaCells]
       /\ \A i \in 0..(c - 1) : i \in at..(at + n - 1) => k[i] = word[i - at + 1]
       /\ \A i \in 0..(c - 1) : i \notin at..(at + n - 1) => k[i] = v[i]
  <2>1. at \in Nat /\ v \in [0..(c - 1) -> GaCells]
    BY <1>2, <1>10
  <2> QED  BY <1>1, <1>6, <2>1 DEF Store, GaCells
<1> HIDE DEF k
<1>12. /\ p \in Seq(GaCells) /\ Len(p) = at /\ \A i \in 1..at : p[i] = gaWanted[i]
       /\ q \in Seq(GaCells) /\ Len(q) = gaLen - at /\ \A i \in 1..(gaLen - at) : q[i] = gaWanted[at + i]
  BY <1>2, <1>3, Part
<1> HIDE DEF p, q
<1>13. /\ p \o word \in Seq(GaCells) /\ Len(p \o word) = at + n
       /\ \A i \in 1..(at + n) : i <= at => (p \o word)[i] = p[i]
       /\ \A i \in 1..(at + n) : i > at => (p \o word)[i] = word[i - at]
  <2>1. p \in Seq(GaCells) /\ Len(p) = at
    BY <1>12
  <2>2. /\ p \o word \in Seq(GaCells) /\ Len(p \o word) = Len(p) + Len(word)
        /\ \A i \in 1..(Len(p) + Len(word)) : i <= Len(p) => (p \o word)[i] = p[i]
        /\ \A i \in 1..(Len(p) + Len(word)) : i > Len(p) => (p \o word)[i] = word[i - Len(p)]
    BY <1>1, <2>1, Joined, ZenonT(60)
  <2> QED  BY <2>1, <2>2
<1>14. /\ s \in Seq(GaCells) /\ Len(s) = l
       /\ \A i \in 1..l : i <= at + n => s[i] = (p \o word)[i]
       /\ \A i \in 1..l : i > at + n => s[i] = q[i - (at + n)]
  <2> DEFINE t == p \o word
  <2>1. Len(t) = at + n /\ Len(t) + Len(q) = l
    BY <1>1, <1>2, <1>12, <1>13
  <2>4. t \in Seq(GaCells) /\ q \in Seq(GaCells)
    BY <1>12, <1>13
  <2> HIDE DEF t
  <2>2. /\ t \o q \in Seq(GaCells) /\ Len(t \o q) = Len(t) + Len(q)
        /\ \A i \in 1..(Len(t) + Len(q)) : i <= Len(t) => (t \o q)[i] = t[i]
        /\ \A i \in 1..(Len(t) + Len(q)) : i > Len(t) => (t \o q)[i] = q[i - Len(t)]
    BY <2>4, Joined
  <2>3. s = t \o q
    BY DEF t
  <2> HIDE DEF s
  <2> QED  BY <2>1, <2>2, <2>3 DEF t
<1> HIDE DEF s
<1>15. Keeps(k, l, s)
  <2> SUFFICES ASSUME NEW i \in 1..l, s[i] # Junk PROVE k[i - 1] = s[i]
    BY <1>14 DEF Keeps
  <2>1. i - 1 \in 0..(c - 1) /\ i \in Nat
    BY <1>1, <1>2, <1>4, <1>6
  <2>2. CASE i <= at
    <3>1. /\ i \in 1..(at + n) /\ i \in 1..at /\ i <= at + n /\ i - 1 \notin at..(at + n - 1)
          /\ i - 1 \notin to..(to + (gaLen - at) - 1) /\ i \in 1..gaLen /\ i - 1 \in 0..(gaCapacity - 1)
      BY <1>1, <1>2, <2>2
    <3>2. s[i] = gaWanted[i]
      BY <1>12, <1>13, <1>14, <2>2, <3>1
    <3>3. k[i - 1] = gaData[i - 1]
      BY <1>7, <1>10, <1>11, <2>1, <3>1
    <3> QED  BY <1>3, <3>1, <3>2, <3>3
  <2>3. CASE i > at /\ i <= at + n
    <3>1. i \in 1..(at + n) /\ i - 1 \in at..(at + n - 1) /\ i - 1 - at + 1 = i - at
      BY <1>1, <1>2, <2>3
    <3>2. s[i] = word[i - at]
      BY <1>13, <1>14, <2>3, <3>1
    <3>3. k[i - 1] = word[i - 1 - at + 1]
      BY <1>11, <2>1, <3>1
    <3> QED  BY <3>1, <3>2, <3>3
  <2>4. CASE i > at + n
    <3>1. /\ i - 1 \notin at..(at + n - 1) /\ i - 1 \in to..(to + (gaLen - at) - 1)
          /\ at + (i - 1) - to = i - n - 1 /\ i - n - 1 < c /\ i - n - 1 \in 0..(gaCapacity - 1)
          /\ i - (at + n) \in 1..(gaLen - at) /\ at + (i - (at + n)) = i - n /\ i - n \in 1..gaLen
      BY <1>1, <1>2, <1>4, <1>6, <2>4
    <3>2. s[i] = gaWanted[i - n]
      <4>1. i > at + n /\ i - (at + n) \in 1..(gaLen - at) /\ at + (i - (at + n)) = i - n
        BY <2>4, <3>1
      <4>2. s[i] = q[i - (at + n)]
        BY <1>14, <4>1
      <4>3. q[i - (at + n)] = gaWanted[at + (i - (at + n))]
        BY <1>12, <4>1
      <4> QED  BY <4>1, <4>2, <4>3
    <3>3. k[i - 1] = m[i - n - 1]
      BY <1>10, <1>11, <2>1, <3>1
    <3>4. m[i - n - 1] = gaData[i - n - 1]
      BY <1>7, <3>1
    <3>5. gaData[i - n - 1] = gaWanted[i - n]
      BY <1>3, <3>1, <3>2
    <3> QED  BY <3>2, <3>3, <3>4, <3>5
  <2>5. i <= at \/ (i > at /\ i <= at + n) \/ i > at + n
    BY <1>1, <1>2
  <2> QED  BY <2>2, <2>3, <2>4, <2>5, Zenon
<1>16. gaFlags.clear => \A i \in 0..(c - 1) : k[i] # Junk
  <2> SUFFICES ASSUME gaFlags.clear, NEW i \in 0..(c - 1) PROVE k[i] # Junk
    OBVIOUS
  <2>1. Junk \notin Elements
    BY GArrayAssumption
  <2>2. CASE i \in at..(at + n - 1)
    <3>1. i - at + 1 \in 1..n
      BY <1>1, <1>2, <2>2
    <3>2. word[i - at + 1] \in Elements
      BY <1>0, <3>1
    <3> QED  BY <1>11, <2>1, <2>2, <3>2
  <2>3. CASE i \notin at..(at + n - 1)
    <3>1. k[i] = v[i]
      BY <1>11, <2>3
    <3>2. CASE i \in to..(to + (gaLen - at) - 1)
      <4>1. at + i - to \in 0..(c - 1) /\ at + i - to < c
        BY <1>1, <1>2, <1>6, <3>2
      <4> QED  BY <1>7, <1>10, <3>1, <3>2, <4>1
    <3>3. CASE i \notin to..(to + (gaLen - at) - 1)
      BY <1>7, <1>10, <3>1, <3>3
    <3> QED  BY <3>2, <3>3
  <2> QED  BY <2>2, <2>3
<1>17. l \in 0..c /\ (gaFlags.zero => l < c)
  BY <1>4, <1>6
<1> HIDE DEF legal, l
<1>18. legal = TRUE
  BY <1>5, <1>8 DEF legal, Inside
<1>19. GaInv' /\ gaWild' = ~legal
  BY <1>5, <1>6, <1>11, <1>14, <1>15, <1>16, <1>17, <1>18, Finishes, ZenonT(30)
<1> QED  BY <1>18, <1>19

\* What is there before a removal.
LEMMA GaBefore ==
  ASSUME GaInv, ~gaWild, NEW at \in 0..(gaLen - 1)
  PROVE  /\ gaLen \in Nat \ {0} /\ gaLen <= MaxElements /\ at \in Nat /\ at < gaLen
         /\ gaCapacity \in Nat /\ gaCapacity % Block = 0 /\ gaLen <= gaCapacity
         /\ gaData \in [0..(gaCapacity - 1) -> GaCells]
         /\ gaWanted \in Seq(GaCells) /\ Len(gaWanted) = gaLen
         /\ \A i \in 1..gaLen : gaWanted[i] # Junk => gaData[i - 1] = gaWanted[i]
         /\ gaFlags.clear => \A i \in 0..(gaCapacity - 1) : gaData[i] # Junk
         /\ MaxElements \in Nat
<1>1. gaLen \in 0..gaCapacity /\ gaCapacity \in Nat /\ gaLen <= MaxElements
  BY DEF GaInv
<1>2. gaLen \in Nat \ {0} /\ at \in Nat /\ at < gaLen
  BY <1>1
<1>3. Keeps(gaData, gaLen, gaWanted)
  BY DEF GaInv
<1>5. gaFlags.clear => \A i \in 0..(gaCapacity - 1) : gaData[i] # Junk
  BY DEF GaInv, GaCleared
<1>6. /\ gaCapacity % Block = 0 /\ gaData \in [0..(gaCapacity - 1) -> GaCells]
      /\ gaWanted \in Seq(GaCells)
  BY DEF GaInv
<1>7. MaxElements \in Nat
  BY GArrayAssumption
<1> QED  BY <1>1, <1>2, <1>3, <1>5, <1>6, <1>7 DEF Keeps

LEMMA GaRemoveStep ==
  ASSUME GaInv, ~gaWild, NEW at \in 0..(gaLen - 1), GaRemove(at)
  PROVE  GaInv' /\ (gaWild' => gaLen = gaCapacity)
<1> DEFINE n == gaLen - 1
           z == gaLen - at
           m == Move(gaData, at, at + 1, z)
           p == SubSeq(gaWanted, 1, at)
           q == SubSeq(gaWanted, at + 2, gaLen)
           legal == Inside(gaData, at + 1, z)
<1>1. /\ gaLen \in Nat \ {0} /\ gaLen <= MaxElements /\ at \in Nat /\ at < gaLen
      /\ gaCapacity \in Nat /\ gaCapacity % Block = 0 /\ gaLen <= gaCapacity
      /\ gaData \in [0..(gaCapacity - 1) -> GaCells]
  BY GaBefore
<1>2. /\ gaWanted \in Seq(GaCells) /\ Len(gaWanted) = gaLen
      /\ \A i \in 1..gaLen : gaWanted[i] # Junk => gaData[i - 1] = gaWanted[i]
  BY GaBefore
<1>3. RemoveAt(gaWanted, at + 1) = p \o q
  <2>1. at + 1 - 1 = at /\ at + 1 + 1 = at + 2
    BY <1>1
  <2> QED  BY <1>2, <2>1 DEF RemoveAt
<1>4. gaCapacity' = gaCapacity /\ Finish(m, n, p \o q, legal)
  BY <1>3 DEF GaRemove, Closed
<1>5. legal <=> gaLen < gaCapacity
  <2>1. DOMAIN gaData = 0..(gaCapacity - 1)
    BY <1>1
  <2> QED  BY <1>1, <2>1 DEF Inside
<1>6. legal \in BOOLEAN
  BY DEF Inside
<1> HIDE DEF legal
<1>7. /\ m \in [0..(gaCapacity - 1) -> GaCells]
      /\ \A i \in 0..(gaCapacity - 1) : i \in at..(gaLen - 1) /\ i + 1 < gaCapacity => m[i] = gaData[i + 1]
      /\ \A i \in 0..(gaCapacity - 1) : i \notin at..(gaLen - 1) => m[i] = gaData[i]
  <2>1. at + z - 1 = gaLen - 1 /\ \A i \in 0..(gaCapacity - 1) : at + 1 + i - at = i + 1 /\ i + 1 \in Nat
    BY <1>1
  <2>2. m = [i \in 0..(gaCapacity - 1) |->
               IF i \in at..(gaLen - 1)
               THEN IF i + 1 \in 0..(gaCapacity - 1) THEN gaData[i + 1] ELSE Junk ELSE gaData[i]]
    BY <1>1, <2>1 DEF Move
  <2> HIDE DEF m
  <2> QED  BY <1>1, <2>1, <2>2 DEF GaCells
<1> HIDE DEF m
<1>8. /\ p \in Seq(GaCells) /\ Len(p) = at /\ \A i \in 1..at : p[i] = gaWanted[i]
      /\ q \in Seq(GaCells) /\ Len(q) = gaLen - 1 - at /\ \A i \in 1..(gaLen - 1 - at) : q[i] = gaWanted[at + 1 + i]
  BY <1>1, <1>2, Part
<1> HIDE DEF p, q
<1>9. /\ p \o q \in Seq(GaCells) /\ Len(p \o q) = n
      /\ \A i \in 1..n : i <= at => (p \o q)[i] = p[i]
      /\ \A i \in 1..n : i > at => (p \o q)[i] = q[i - at]
  <2>1. p \in Seq(GaCells) /\ q \in Seq(GaCells)
    BY <1>8
  <2>2. Len(p) = at /\ Len(p) + Len(q) = n
    BY <1>1, <1>8
  <2>3. /\ p \o q \in Seq(GaCells) /\ Len(p \o q) = Len(p) + Len(q)
        /\ \A i \in 1..(Len(p) + Len(q)) : i <= Len(p) => (p \o q)[i] = p[i]
        /\ \A i \in 1..(Len(p) + Len(q)) : i > Len(p) => (p \o q)[i] = q[i - Len(p)]
    BY <2>1, Joined
  <2> HIDE DEF n
  <2> QED  BY <2>2, <2>3
<1>10. Keeps(m, n, p \o q)
  <2> SUFFICES ASSUME NEW i \in 1..n, (p \o q)[i] # Junk PROVE m[i - 1] = (p \o q)[i]
    BY <1>9 DEF Keeps
  <2>1. CASE i <= at
    <3>1. i \in 1..at /\ i \in 1..gaLen /\ i - 1 \in 0..(gaCapacity - 1) /\ i - 1 \notin at..(gaLen - 1)
      BY <1>1, <2>1
    <3>2. (p \o q)[i] = gaWanted[i]
      BY <1>8, <1>9, <2>1, <3>1
    <3>3. m[i - 1] = gaData[i - 1]
      BY <1>7, <3>1
    <3> QED  BY <1>2, <3>1, <3>2, <3>3
  <2>2. CASE i > at
    <3>1. /\ i - 1 \in 0..(gaCapacity - 1) /\ i - 1 \in at..(gaLen - 1) /\ i - 1 + 1 = i /\ i < gaCapacity
          /\ i - at \in 1..(gaLen - 1 - at) /\ at + 1 + (i - at) = i + 1 /\ i + 1 \in 1..gaLen /\ i + 1 - 1 = i
      BY <1>1, <2>2
    <3>2. (p \o q)[i] = gaWanted[i + 1]
      BY <1>8, <1>9, <2>2, <3>1
    <3>3. m[i - 1] = gaData[i]
      BY <1>7, <3>1
    <3>4. gaData[i] = gaWanted[i + 1]
      BY <1>2, <3>1, <3>2, SMTT(30)
    <3> QED  BY <3>2, <3>3, <3>4
  <2>3. i <= at \/ i > at
    BY <1>1
  <2> QED  BY <2>1, <2>2, <2>3, Zenon
<1>11. n \in 0..gaCapacity /\ n <= MaxElements /\ n < gaCapacity
  BY <1>1, GaBefore
<1>12. ~legal => gaLen = gaCapacity
  BY <1>1, <1>5
<1>13. legal /\ gaFlags.clear => \A i \in 0..(gaCapacity - 1) : m[i] # Junk
  <2> SUFFICES ASSUME legal, gaFlags.clear, NEW i \in 0..(gaCapacity - 1) PROVE m[i] # Junk
    OBVIOUS
  <2>1. \A j \in 0..(gaCapacity - 1) : gaData[j] # Junk
    BY GaBefore
  <2>2. CASE i \in at..(gaLen - 1)
    <3>1. i + 1 < gaCapacity /\ i + 1 \in 0..(gaCapacity - 1)
      BY <1>1, <1>5, <2>2
    <3> QED  BY <1>7, <2>1, <2>2, <3>1
  <2>3. CASE i \notin at..(gaLen - 1)
    BY <1>7, <2>1, <2>3
  <2> QED  BY <2>2, <2>3
<1> DEFINE s == p \o q
<1>14. s \in Seq(GaCells) /\ Keeps(m, n, s) /\ Finish(m, n, s, legal)
  BY <1>4, <1>9, <1>10
<1> HIDE DEF n, s
<1>15. GaInv' /\ gaWild' = ~legal
  BY <1>1, <1>4, <1>6, <1>7, <1>11, <1>13, <1>14, Finishes, SMTT(60)
<1> QED  BY <1>12, <1>15

LEMMA GaRemoveFastStep ==
  ASSUME GaInv, ~gaWild, NEW at \in 0..(gaLen - 1), GaRemoveFast(at)
  PROVE  GaInv' /\ gaWild' = FALSE
<1> DEFINE n == gaLen - 1
           m == Move(gaData, at, n, 1)
           s == [k \in 1..n |-> IF k = at + 1 THEN gaWanted[gaLen] ELSE gaWanted[k]]
<1>1. /\ gaLen \in Nat \ {0} /\ gaLen <= MaxElements /\ at \in Nat /\ at < gaLen
      /\ gaCapacity \in Nat /\ gaCapacity % Block = 0 /\ gaLen <= gaCapacity
      /\ gaData \in [0..(gaCapacity - 1) -> GaCells]
  BY GaBefore
<1>2. /\ gaWanted \in Seq(GaCells) /\ Len(gaWanted) = gaLen
      /\ \A i \in 1..gaLen : gaWanted[i] # Junk => gaData[i - 1] = gaWanted[i]
  BY GaBefore
<1>3. gaCapacity' = gaCapacity /\ Finish(m, n, s, TRUE)
  BY DEF GaRemoveFast
<1>4. n \in Nat /\ n \in 0..gaCapacity /\ n <= MaxElements /\ n < gaCapacity /\ n \in 0..(gaCapacity - 1)
  BY <1>1, GaBefore
<1>5. m = [i \in 0..(gaCapacity - 1) |-> IF i = at THEN gaData[n] ELSE gaData[i]]
  <2>1. \A i : i \in at..(at + 1 - 1) <=> i = at
    BY <1>1
  <2>2. n + at - at = n
    BY <1>1
  <2> QED  BY <1>1, <1>4, <2>1, <2>2 DEF Move
<1> HIDE DEF m
<1>6. m \in [0..(gaCapacity - 1) -> GaCells]
  BY <1>1, <1>4, <1>5
<1>7. s \in Seq(GaCells) /\ Len(s) = n
  BY <1>1, <1>2, <1>4
<1>8. Keeps(m, n, s)
  <2> SUFFICES ASSUME NEW i \in 1..n, s[i] # Junk PROVE m[i - 1] = s[i]
    BY <1>7 DEF Keeps
  <2>1. i - 1 \in 0..(gaCapacity - 1) /\ i \in 1..gaLen /\ gaLen \in 1..gaLen /\ (i - 1 = at <=> i = at + 1)
    BY <1>1
  <2>2. s[i] = IF i - 1 = at THEN gaWanted[gaLen] ELSE gaWanted[i]
    BY <2>1
  <2>3. gaWanted[gaLen] # Junk => gaData[n] = gaWanted[gaLen]
    BY <1>2, <2>1
  <2>4. gaWanted[i] # Junk => gaData[i - 1] = gaWanted[i]
    BY <1>2, <2>1
  <2> HIDE DEF s
  <2> QED  BY <1>5, <2>1, <2>2, <2>3, <2>4
<1>9. gaFlags.clear => \A i \in 0..(gaCapacity - 1) : m[i] # Junk
  <2>1. gaFlags.clear => \A i \in 0..(gaCapacity - 1) : gaData[i] # Junk
    BY GaBefore
  <2> QED  BY <1>4, <1>5, <2>1
<1> HIDE DEF n, s
<1>10. GaInv' /\ gaWild' = ~TRUE
  BY <1>1, <1>3, <1>4, <1>6, <1>7, <1>8, <1>9, Finishes, Zenon
<1> QED  BY <1>10

LEMMA GaSetSizeStep ==
  ASSUME GaInv, ~gaWild, NEW n \in 0..MaxElements, GaSetSize(n)
  PROVE  GaInv' /\ gaWild' = FALSE
<1> DEFINE m == EnsuredBlock(n)
           c == Ensured(n)
<1>1. /\ gaLen \in Nat /\ gaCapacity \in Nat /\ gaLen <= gaCapacity /\ gaWanted \in Seq(GaCells)
      /\ Len(gaWanted) = gaLen /\ \A i \in 1..gaLen : gaWanted[i] # Junk => gaData[i - 1] = gaWanted[i]
      /\ gaLen <= MaxElements /\ MaxElements \in Nat /\ Zero \in Elements
  BY GArrayAssumption DEF GaInv, Keeps
<1>2. gaFlags' = gaFlags /\ gaWild' = FALSE
  BY DEF GaSetSize, GaInv
<1>3. CASE n = gaCapacity
  <2>1. UNCHANGED gaVars
    BY <1>3 DEF GaSetSize, gaVars
  <2> QED  BY <1>2, <2>1 DEF gaVars, GaInv, Keeps, GaTerminated, GaHasRoom, GaCleared
<1>4. CASE n # gaCapacity
  <2>1. /\ gaCapacity' = c /\ gaData' = m /\ gaLen' = n
        /\ gaWanted' = IF n <= gaLen THEN SubSeq(gaWanted, 1, n) ELSE gaWanted \o [k \in 1..(n - gaLen) |-> Junk]
        /\ gaSized' = IF n <= gaLen THEN "cut" ELSE "grown"
    BY <1>4 DEF GaSetSize
  <2>2. n \in Nat /\ n <= MaxElements
    BY <1>1
  <2>3. c \in Nat /\ c % Block = 0 /\ c >= n /\ c >= gaCapacity
    BY <2>2, Ensures
  <2>4. /\ m \in [0..(c - 1) -> GaCells]
        /\ \A i \in 0..(gaCapacity - 1) : m[i] = gaData[i]
        /\ gaFlags.clear => \A i \in 0..(c - 1) : m[i] # Junk
    BY <2>2, EnsuresBlock
  <2> HIDE DEF c, m
  <2>5. GaTerminated' /\ gaSized' \in {"cut", "grown"}
    BY <2>1 DEF GaTerminated
  <2>6. GaCleared'
    BY <1>2, <2>1, <2>4 DEF GaCleared
  <2>7. /\ gaFlags' \in [clear : BOOLEAN, zero : BOOLEAN]
        /\ gaCapacity' \in Nat /\ gaCapacity' % Block = 0
        /\ gaData' \in [0..(gaCapacity' - 1) -> GaCells]
        /\ gaLen' \in 0..gaCapacity' /\ gaLen' <= MaxElements
        /\ gaSized' \in {"no", "cut", "grown"} /\ gaWild' \in BOOLEAN
    <3>0. gaSized' \in {"no", "cut", "grown"}
      BY <2>5
    <3>1. gaFlags' \in [clear : BOOLEAN, zero : BOOLEAN] /\ gaWild' \in BOOLEAN
      BY <1>2 DEF GaInv
    <3>2. gaCapacity' \in Nat /\ gaCapacity' % Block = 0 /\ gaData' \in [0..(gaCapacity' - 1) -> GaCells]
      BY <2>1, <2>3, <2>4
    <3>3. gaLen' \in 0..gaCapacity' /\ gaLen' <= MaxElements
      BY <2>1, <2>2, <2>3
    <3> QED  BY <3>0, <3>1, <3>2, <3>3
  <2>8. CASE n <= gaLen
    <3>1. /\ gaWanted' \in Seq(GaCells) /\ Len(gaWanted') = n
          /\ \A i \in 1..n : gaWanted'[i] = gaWanted[i]
      BY <1>1, <2>1, <2>2, <2>8, Part
    <3>2. \A i \in 1..n : i \in 1..gaLen /\ i - 1 \in 0..(gaCapacity - 1)
      BY <1>1, <2>2, <2>8
    <3>3. Keeps(gaData', gaLen', gaWanted')
      BY <1>1, <2>1, <2>4, <3>1, <3>2 DEF Keeps
    <3>4. n < c
      BY <1>1, <1>4, <2>2, <2>3, <2>8
    <3>5. GaHasRoom'
      BY <2>1, <3>4 DEF GaHasRoom
    <3> QED  BY <1>2, <2>5, <2>6, <2>7, <3>1, <3>3, <3>5 DEF GaInv
  <2>9. CASE n > gaLen
    <3> DEFINE t == [k \in 1..(n - gaLen) |-> Junk]
    <3>1. t \in Seq(GaCells) /\ Len(t) = n - gaLen /\ \A i \in 1..(n - gaLen) : t[i] = Junk
      BY <1>1, <2>2, <2>9 DEF GaCells
    <3>2. gaWanted' = gaWanted \o t /\ gaSized' = "grown"
      BY <1>1, <2>1, <2>2, <2>9
    <3> HIDE DEF t
    <3>3. /\ gaWanted \o t \in Seq(GaCells) /\ Len(gaWanted \o t) = Len(gaWanted) + Len(t)
          /\ \A i \in 1..(Len(gaWanted) + Len(t)) : i <= Len(gaWanted) => (gaWanted \o t)[i] = gaWanted[i]
          /\ \A i \in 1..(Len(gaWanted) + Len(t)) : i > Len(gaWanted) => (gaWanted \o t)[i] = t[i - Len(gaWanted)]
      BY <1>1, <3>1, Joined
    <3>4. Len(gaWanted) + Len(t) = n /\ Len(gaWanted) = gaLen
      BY <1>1, <2>2, <3>1
    <3>5. ASSUME NEW i \in 1..n, gaWanted'[i] # Junk PROVE gaData'[i - 1] = gaWanted'[i]
      <4>1. CASE i <= gaLen
        <5>1. i \in 1..gaLen /\ i - 1 \in 0..(gaCapacity - 1)
          BY <1>1, <4>1
        <5>2. gaWanted'[i] = gaWanted[i]
          BY <3>2, <3>3, <3>4, <3>5, <4>1
        <5>3. gaData[i - 1] = gaWanted[i]
          BY <1>1, <3>5, <5>1, <5>2
        <5> QED  BY <2>1, <2>4, <5>1, <5>2, <5>3
      <4>2. CASE i > gaLen
        <5>1. gaWanted'[i] = t[i - gaLen]
          BY <3>2, <3>3, <3>4, <3>5, <4>2
        <5>2. i - gaLen \in 1..(n - gaLen)
          BY <1>1, <2>2, <4>2
        <5> QED  BY <3>1, <3>5, <5>1, <5>2
      <4> QED  BY <1>1, <4>1, <4>2
    <3>6. Keeps(gaData', gaLen', gaWanted')
      BY <2>1, <3>2, <3>3, <3>4, <3>5 DEF Keeps
    <3>7. GaHasRoom' /\ gaWanted' \in Seq(GaCells)
      BY <3>2, <3>3 DEF GaHasRoom
    <3> HIDE DEF t
    <3> QED  BY <1>2, <2>5, <2>6, <2>7, <3>6, <3>7 DEF GaInv
  <2>10. n <= gaLen \/ n > gaLen
    BY <1>1, <2>2
  <2> QED  BY <2>8, <2>9, <2>10, Zenon
<1> QED  BY <1>3, <1>4

LEMMA GaInitial ==
  ASSUME GaInit PROVE GaInv
<1>1. PICK reserved \in {0, Initial, Block + 1} :
        gaCapacity = ((reserved + Block - 1) \div Block) * Block
  BY DEF GaInit
<1>2. Zero \in Elements /\ Junk \notin Elements /\ MaxElements \in Nat /\ Block \in Nat \ {0} /\ Initial \in 1..Block
  BY GArrayAssumption
<1>3. reserved \in Nat
  BY <1>2
<1>4. gaCapacity \in Nat /\ gaCapacity % Block = 0
  BY <1>1, <1>2, <1>3, RoundedUp
<1>5. /\ gaData = [i \in 0..(gaCapacity - 1) |-> IF gaFlags.clear THEN Zero ELSE Junk]
      /\ gaLen = 0 /\ gaWanted = << >> /\ gaSized = "no" /\ gaWild = FALSE
      /\ gaFlags \in [clear : BOOLEAN, zero : BOOLEAN]
  BY DEF GaInit
<1>6. gaData \in [0..(gaCapacity - 1) -> GaCells]
  BY <1>2, <1>5 DEF GaCells
<1>7. GaTerminated /\ GaHasRoom /\ GaCleared
  BY <1>2, <1>5 DEF GaTerminated, GaHasRoom, GaCleared
<1>8. gaWanted \in Seq(GaCells) /\ Keeps(gaData, gaLen, gaWanted)
  BY <1>5 DEF Keeps
<1>9. gaLen \in 0..gaCapacity /\ gaLen <= MaxElements /\ ~(gaLen > 0)
  BY <1>2, <1>4, <1>5
<1> QED  BY <1>4, <1>5, <1>6, <1>7, <1>8, <1>9 DEF GaInv

\* An array is what insertions, removals and changes of its size have made of it, over
\* every growth of its block, with its element of zeros and its cleared cells.
THEOREM ArraySound == GaSpec => []GaInv
<1>1. GaInit => GaInv
  BY GaInitial
<1>2. GaInv /\ [GaNext]_gaVars => GaInv'
  <2> SUFFICES ASSUME GaInv, [GaNext]_gaVars PROVE GaInv'
    OBVIOUS
  <2>1. CASE UNCHANGED gaVars
    BY <2>1 DEF gaVars, GaInv, Keeps, GaTerminated, GaHasRoom, GaCleared
  <2>2. ASSUME GaNext, NEW at \in 0..gaLen,
               NEW word \in {<<e>> : e \in Elements} \cup {<<e, e>> : e \in Elements}, GaInsert(at, word)
        PROVE  GaInv'
    BY <2>2, GaInsertStep DEF GaNext
  <2>3. ASSUME GaNext, NEW at \in 0..(gaLen - 1), GaRemove(at) \/ GaRemoveFast(at) PROVE GaInv'
    BY <2>3, GaRemoveStep, GaRemoveFastStep DEF GaNext
  <2>4. ASSUME GaNext, NEW n \in 0..MaxElements, GaSetSize(n) PROVE GaInv'
    BY <2>4, GaSetSizeStep DEF GaNext
  <2> QED  BY <2>1, <2>2, <2>3, <2>4 DEF GaNext
<1> QED  BY <1>1, <1>2, PTL DEF GaSpec

\* What a caller can rely on: the elements, the one of zeros, cleared cells.
THEOREM ArrayCorrect == GaSpec => []GaCorrect
<1>1. GaInv => GaCorrect
  BY GaInvImplies
<1> QED  BY <1>1, ArraySound, PTL

\* Only g_array_remove_index on a full array reads behind the block (garray.c:183), in every
\* order of the calls, and a zero-terminated array is full only as g_array_set_size left it.
THEOREM ArrayStaysInside == GaSpec => GaStaysInside
<1> DEFINE Q == /\ \E at \in 0..(gaLen - 1) : GaRemove(at)
                /\ gaLen = gaCapacity
                /\ gaFlags.zero => gaSized = "grown"
<1>1. ASSUME GaInv, GaNext, gaWild' PROVE Q
  <2>1. ~gaWild
    BY <1>1 DEF GaNext
  <2>2. ASSUME NEW at \in 0..gaLen, NEW word \in {<<e>> : e \in Elements} \cup {<<e, e>> : e \in Elements},
               GaInsert(at, word)
        PROVE  FALSE
    BY <1>1, <2>1, <2>2, GaInsertStep
  <2>3. ASSUME NEW at \in 0..(gaLen - 1), GaRemove(at) PROVE Q
    <3>1. gaLen = gaCapacity
      BY <1>1, <2>1, <2>3, GaRemoveStep
    <3>2. gaLen > 0
      BY <1>1 DEF GaInv
    <3>3. ~(gaLen < gaCapacity)
      BY <1>1, <3>1 DEF GaInv
    <3>4. gaFlags.zero => gaSized = "grown"
      BY <1>1, <3>2, <3>3 DEF GaInv, GaHasRoom
    <3> QED  BY <2>3, <3>1, <3>4
  <2>4. ASSUME NEW at \in 0..(gaLen - 1), GaRemoveFast(at) PROVE FALSE
    BY <1>1, <2>1, <2>4, GaRemoveFastStep
  <2>5. ASSUME NEW n \in 0..MaxElements, GaSetSize(n) PROVE FALSE
    BY <1>1, <2>1, <2>5, GaSetSizeStep
  <2> HIDE DEF Q
  <2> QED  BY <1>1, <2>2, <2>3, <2>4, <2>5 DEF GaNext
<1>2. GaInv /\ [GaNext]_gaVars => [gaWild' => Q]_gaVars
  BY <1>1
<1> QED  BY <1>2, ArraySound, PTL DEF GaSpec, GaStaysInside

\* The shape of an array, its capacity a multiple of the block size.
THEOREM ArrayTypeOK == GaSpec => []GaTypeOK
<1>1. GaInv => GaTypeOK
  BY GaInvImplies
<1> QED  BY <1>1, ArraySound, PTL

-----------------------------------------------------------------------------
(* The pointer array and the live-data list.  The array stays inside of its *)
(* block because the doubling neither ends below what is asked for nor     *)
(* wraps (Rooms).                                                          *)

ArrCells == Items \cup {Null, Junk}

Shape ==
  /\ arrSize \in Nat /\ arrLen \in 0..arrSize /\ arrLen <= MaxEntries
  /\ pdata \in [0..(arrSize - 1) -> ArrCells]
  /\ arrState \in {"none", "live"}
  /\ arrWild = FALSE
  /\ arrState = "none" => arrLen = 0 /\ arrSize = 0

-----------------------------------------------------------------------------
(* The capacity *)

\* Sizes that end the doubling are there for all that is asked for.
LEMMA EndsThere ==
  ASSUME NEW n \in Nat, n <= 2 * MaxEntries
  PROVE  Ends(n) # {} /\ Ends(n) \subseteq Nat /\ \A s \in Ends(n) : n <= s
<1>1. \A k \in 0..Width : 2^k \in Nat \ {0}
  BY PowerAssumption
<1>2. Uint \in Nat /\ Uint > 0
  BY <1>1, PtrArrayAssumption DEF Uint
<1>3. Width - 1 \in 0..Width /\ (Width - 1) + 1 = Width
  BY PtrArrayAssumption
<1>4. 2^(Width - 1) \in Nat /\ Uint = 2 * 2^(Width - 1)
  <2>1. 2^((Width - 1) + 1) = 2 * 2^(Width - 1)
    BY <1>3, PowerAssumption
  <2> QED  BY <1>1, <1>3, <2>1 DEF Uint
<1>5. (2^(Width - 1)) % Uint = 2^(Width - 1)
  BY <1>2, <1>4
<1>6. n <= 2^(Width - 1)
  BY <1>4, PtrArrayAssumption
<1>7. 2^(Width - 1) \in Ends(n)
  BY <1>3, <1>4, <1>5, <1>6 DEF Ends
<1>8. \A k \in 0..Width : (2^k) % Uint \in Nat
  BY <1>1, <1>2
<1> QED  BY <1>7, <1>8 DEF Ends

LEMMA Least ==
  ASSUME NEW T \in SUBSET Nat, T # {}
  PROVE  \E m \in T : \A k \in T : m <= k
<1> DEFINE Lower == {ss \in Nat \X Nat : ss[1] < ss[2]}
<1>1. OpToRel(<, Nat) = Lower
  BY DEF OpToRel
<1>2. IsWellFoundedOn(Lower, Nat)
  BY <1>1, NatLessThanWellFounded
<1>3. PICK m \in T : \A y \in T : ~(<<y, m>> \in Lower)
  <2> HIDE DEF Lower
  <2> QED  BY <1>2, WFMin
<1>4. ASSUME NEW k \in T, ~(m <= k)
      PROVE  FALSE
  <2>1. k \in Nat /\ m \in Nat /\ k < m
    BY <1>4
  <2>2. <<k, m>> \in Lower
    BY <2>1
  <2> HIDE DEF Lower
  <2> QED  BY <1>3, <2>2
<1> QED  BY <1>4

\* Room is made: the capacity is that of the block or more, and enough.
LEMMA Rooms ==
  ASSUME Shape, NEW n \in 0..MaxEntries
  PROVE  /\ Capacities(n) # {}
         /\ \A c \in Capacities(n) : c \in Nat /\ c >= arrSize /\ c >= arrLen + n
<1>1. arrLen + n \in Nat /\ arrLen + n <= 2 * MaxEntries
  BY PtrArrayAssumption DEF Shape
<1>2. Wanted(n) = arrLen + n
  <2>1. Uint \in Nat /\ Uint > 0
    BY PowerAssumption, PtrArrayAssumption DEF Uint
  <2>2. MaxEntries # 0 => arrLen + n < Uint
    BY <1>1, <2>1, PtrArrayAssumption
  <2>3. MaxEntries = 0 => arrLen + n < Uint
    BY <1>1, <2>1
  <2> QED  BY <1>1, <2>1, <2>2, <2>3 DEF Wanted
<1>3. CASE HasRoom(n)
  BY <1>2, <1>3 DEF Capacities, HasRoom, Shape
<1>4. CASE ~HasRoom(n)
  <2>1. PICK e \in Ends(Wanted(n)) : \A f \in Ends(Wanted(n)) : e <= f
    BY <1>1, <1>2, EndsThere, Least
  <2>2. \A s \in Ends(Wanted(n)) : s \in Nat /\ s >= arrLen + n
    BY <1>1, <1>2, EndsThere
  <2>3. arrLen + n > arrSize
    BY <1>1, <1>2, <1>4 DEF HasRoom, Shape
  <2>4. Capacities(n) = {IF s < MinSize THEN MinSize ELSE s :
                           s \in {x \in Ends(Wanted(n)) : \A f \in Ends(Wanted(n)) : x <= f}}
    BY <1>4 DEF Capacities
  <2>5. Capacities(n) # {}
    BY <2>1, <2>4
  <2> QED  BY <1>1, <2>2, <2>3, <2>4, <2>5, PtrArrayAssumption DEF Shape
<1> QED  BY <1>3, <1>4

-----------------------------------------------------------------------------
(* Memory: the entries that are seen *)

LEMMA ContentsIs ==
  ASSUME NEW size \in Nat, NEW n \in 0..size, NEW m \in [0..(size - 1) -> ArrCells]
  PROVE  /\ Contents(m, n) \in Seq(ArrCells) /\ Len(Contents(m, n)) = n
         /\ \A i \in 1..n : Contents(m, n)[i] = m[i - 1]
<1>1. \A i \in 1..n : i - 1 \in 0..(size - 1) /\ m[i - 1] \in ArrCells
  OBVIOUS
<1> QED  BY <1>1 DEF Contents

LEMMA ReallocIs ==
  ASSUME NEW a \in Nat, NEW b \in Nat, a <= b, NEW m \in [0..(a - 1) -> ArrCells]
  PROVE  /\ Realloc(m, b) \in [0..(b - 1) -> ArrCells]
         /\ \A i \in 0..(a - 1) : Realloc(m, b)[i] = m[i]
<1>1. \A i \in 0..(b - 1) : (IF i \in DOMAIN m THEN m[i] ELSE Junk) \in ArrCells
  BY DEF ArrCells
<1>2. \A i \in 0..(a - 1) : i \in 0..(b - 1) /\ i \in DOMAIN m
  OBVIOUS
<1> QED  BY <1>1, <1>2 DEF Realloc

-----------------------------------------------------------------------------
(* Every function keeps the shape, and is a step of the sequence *)

LEMMA NewKept ==
  ASSUME Shape, NEW n \in 0..MaxEntries, ArrNew(n)
  PROVE  Shape' /\ Seen' = << >> /\ arrLen' = 0 /\ arrState' = "live"
<1>1. ~(n > 0 /\ Loop(n))
  BY Rooms DEF Loop
<1>2. PICK size \in IF n > 0 THEN Capacities(n) ELSE {0} :
        /\ arrSize' = size /\ pdata' = Alloc(size) /\ arrLen' = 0 /\ arrState' = "live" /\ UNCHANGED arrWild
  BY <1>1 DEF ArrNew
<1>3. size \in Nat
  <2>1. CASE n > 0
    BY <1>2, <2>1, Rooms
  <2>2. CASE n = 0
    BY <1>2, <2>2
  <2> QED  BY <2>1, <2>2
<1>4. pdata' \in [0..(size - 1) -> ArrCells]
  BY <1>2, <1>3 DEF Alloc, ArrCells
<1>5. Shape'
  BY <1>2, <1>3, <1>4, PtrArrayAssumption DEF Shape
<1> QED  BY <1>2, <1>5 DEF Seen, Contents

LEMMA FreeKept ==
  ASSUME Shape, ArrFree
  PROVE  Shape' /\ Seen' = << >>
<1>1. pdata' \in [0..(0 - 1) -> ArrCells]
  BY DEF ArrFree, Alloc, ArrCells
<1> QED  BY <1>1, PtrArrayAssumption DEF ArrFree, Shape, Seen, Contents

\* The block has grown by one entry behind the last.
LEMMA AddKept ==
  ASSUME Shape, NEW x \in Items, ArrAdd(x)
  PROVE  /\ Shape' /\ Seen' = Append(Seen, x) /\ arrLen' = arrLen + 1 /\ arrState' = arrState
         /\ pdata'[arrLen] = x /\ \A i \in 0..(arrLen - 1) : pdata'[i] = pdata[i]
<1>1. 1 \in 0..MaxEntries /\ arrLen + 1 <= MaxEntries /\ arrState = "live"
  BY PtrArrayAssumption DEF ArrAdd, Shape
<1>2. PICK size \in Capacities(1) :
        LET block == Realloc(pdata, size)
        IN  arrSize' = size /\ Leave(Fill(block, arrLen, 1, x), arrLen + 1, Inside(block, arrLen, 1))
  BY <1>1, Rooms DEF ArrAdd, Loop
<1>3. size \in Nat /\ size >= arrSize /\ size >= arrLen + 1
  BY <1>1, Rooms
<1> DEFINE block == Realloc(pdata, size)
<1>4. block \in [0..(size - 1) -> ArrCells] /\ \A i \in 0..(arrSize - 1) : block[i] = pdata[i]
  BY <1>3, ReallocIs DEF Shape
<1>5. Inside(block, arrLen, 1)
  BY <1>3, <1>4 DEF Inside, Shape
<1>6. pdata' = Fill(block, arrLen, 1, x) /\ arrLen' = arrLen + 1 /\ arrWild' = FALSE /\ arrSize' = size
      /\ arrState' = arrState
  BY <1>2, <1>5 DEF Leave, Shape
<1> HIDE DEF block
<1>7. /\ pdata' \in [0..(size - 1) -> ArrCells]
      /\ pdata'[arrLen] = x /\ \A i \in 0..(arrLen - 1) : pdata'[i] = block[i]
  BY <1>3, <1>4, <1>6 DEF Fill, Shape, ArrCells
<1>8. \A i \in 0..(arrLen - 1) : pdata'[i] = pdata[i]
  BY <1>4, <1>7 DEF Shape
<1>9. Shape'
  BY <1>1, <1>3, <1>6, <1>7 DEF Shape
<1>10. Seen' = Append(Seen, x)
  <2>1. /\ Len(Seen') = arrLen + 1 /\ Seen' \in Seq(ArrCells)
        /\ \A i \in 1..(arrLen + 1) : Seen'[i] = pdata'[i - 1]
    BY <1>6, <1>9, ContentsIs DEF Shape, Seen
  <2>2. /\ Len(Seen) = arrLen /\ Seen \in Seq(ArrCells)
        /\ \A i \in 1..arrLen : Seen[i] = pdata[i - 1]
    BY ContentsIs DEF Shape, Seen
  <2>3. \A i \in 1..arrLen : i - 1 \in 0..(arrLen - 1)
    BY DEF Shape
  <2>4. /\ Append(Seen, x) \in Seq(ArrCells) /\ Len(Append(Seen, x)) = arrLen + 1
        /\ \A i \in 1..arrLen : Append(Seen, x)[i] = Seen[i]
        /\ Append(Seen, x)[arrLen + 1] = x
    BY <2>2 DEF ArrCells, Shape
  <2>5. \A i \in 1..(arrLen + 1) : Seen'[i] = Append(Seen, x)[i]
    <3>1. arrLen \in Nat /\ 1..(arrLen + 1) = (1..arrLen) \cup {arrLen + 1}
      BY DEF Shape
    <3>2. Seen'[arrLen + 1] = Append(Seen, x)[arrLen + 1]
      BY <1>7, <2>1, <2>4, <3>1
    <3>3. \A i \in 1..arrLen : Seen'[i] = Append(Seen, x)[i]
      BY <1>8, <2>1, <2>2, <2>3, <2>4, <3>1
    <3> QED  BY <3>1, <3>2, <3>3
  <2> QED  BY <2>1, <2>4, <2>5, SameSeq
<1> QED  BY <1>6, <1>7, <1>8, <1>9, <1>10

-----------------------------------------------------------------------------
(* The live-data list *)

\* The list holds live items only, each at the positions it was pushed to.
Held ==
  \A i \in 0..(arrLen - 1) :
    LET x == pdata[i]
    IN  /\ x \in Items /\ vecLife[x] = "live" /\ vecPushes[x] > 0
        /\ vecIndex[x] \in i..(arrLen - 1) /\ pdata[vecIndex[x]] = x
        /\ vecIndex[x] > i => vecPushes[x] > 1

Owned ==
  /\ vecIndex \in [Items -> -1..MaxEntries] /\ vecLife \in [Items -> {"none", "live", "freed"}]
  /\ vecPushes \in [Items -> Nat] /\ vecTwice \subseteq Items
  /\ \A x \in vecTwice : vecLife[x] # "live" /\ vecPushes[x] > 1
  /\ \A x \in Items : vecLife[x] = "live" /\ vecPushes[x] > 0 => Holds(x)

VecInv == Shape /\ Held /\ Owned

LEMMA VecInvInit == VecInit => VecInv
<1> SUFFICES ASSUME VecInit  PROVE VecInv
  OBVIOUS
<1>1. Shape
  <2>1. pdata \in [0..(0 - 1) -> ArrCells]
    BY DEF VecInit, ArrInit, Alloc, ArrCells
  <2> QED  BY <2>1, PtrArrayAssumption DEF VecInit, ArrInit, Shape
<1>2. Held /\ Owned
  BY PtrArrayAssumption DEF VecInit, ArrInit, Held, Owned
<1> QED  BY <1>1, <1>2 DEF VecInv

\* Items are made, or disposed of by their callers: not those of the list.
LEMMA ItemKept ==
  ASSUME VecInv, NEW x \in Items, LiveDataNew(x) \/ LiveDataDispose(x)
  PROVE  VecInv'
<1>1. ~Holds(x) /\ UNCHANGED <<arrVars, vecTwice>> /\ Holds(x)' = Holds(x)
  BY DEF LiveDataNew, LiveDataDispose, Holds, arrVars
<1>2. Shape'
  BY <1>1 DEF VecInv, Shape, arrVars
<1>3. \A y \in Items : y # x =>
        vecLife'[y] = vecLife[y] /\ vecIndex'[y] = vecIndex[y] /\ vecPushes'[y] = vecPushes[y]
  BY DEF LiveDataNew, LiveDataDispose, VecInv, Owned
<1>4. Held'
  BY <1>1, <1>3 DEF VecInv, Held, Holds, arrVars
<1>5. CASE LiveDataNew(x)
  <2>1. x \notin vecTwice /\ vecPushes'[x] = 0
    BY <1>5 DEF LiveDataNew, VecInv, Owned
  <2>2. /\ vecIndex' \in [Items -> -1..MaxEntries] /\ vecLife' \in [Items -> {"none", "live", "freed"}]
        /\ vecPushes' \in [Items -> Nat]
    BY <1>5, PtrArrayAssumption DEF LiveDataNew, VecInv, Owned
  <2> QED  BY <1>1, <1>2, <1>3, <1>4, <2>1, <2>2 DEF VecInv, Owned, Holds, arrVars
<1>6. CASE LiveDataDispose(x)
  <2>1. vecLife'[x] = "freed" /\ vecLife' \in [Items -> {"none", "live", "freed"}]
        /\ UNCHANGED <<vecIndex, vecPushes>>
    BY <1>6 DEF LiveDataDispose, VecInv, Owned
  <2> QED  BY <1>1, <1>2, <1>3, <1>4, <2>1 DEF VecInv, Owned, Holds, arrVars
<1> QED  BY <1>5, <1>6

LEMMA PushBackKept ==
  ASSUME VecInv, NEW x \in Items, VecPushBack(x)
  PROVE  VecInv'
<1>1. /\ Shape' /\ arrLen' = arrLen + 1
      /\ pdata'[arrLen] = x /\ \A i \in 0..(arrLen - 1) : pdata'[i] = pdata[i]
  BY AddKept DEF VecPushBack, VecInv
<1>2. arrLen \in Nat /\ arrLen < MaxEntries /\ 0..(arrLen' - 1) = (0..(arrLen - 1)) \cup {arrLen}
  BY <1>1 DEF VecPushBack, ArrAdd, VecInv, Shape
<1>3. /\ vecLife[x] = "live" /\ UNCHANGED <<vecLife, vecTwice>>
      /\ vecIndex'[x] = arrLen /\ vecPushes'[x] = vecPushes[x] + 1
      /\ vecIndex' \in [Items -> -1..MaxEntries] /\ vecPushes' \in [Items -> Nat]
      /\ vecPushes[x] \in Nat
      /\ \A y \in Items : y # x => vecIndex'[y] = vecIndex[y] /\ vecPushes'[y] = vecPushes[y]
  BY <1>2, PtrArrayAssumption DEF VecPushBack, VecInv, Owned
<1>4. Held'
  <2>1. SUFFICES ASSUME NEW i \in 0..(arrLen' - 1), NEW y, y = pdata'[i]
        PROVE  /\ y \in Items /\ vecLife[y] = "live" /\ vecPushes'[y] > 0
               /\ vecIndex'[y] \in i..arrLen /\ pdata'[vecIndex'[y]] = y
               /\ vecIndex'[y] > i => vecPushes'[y] > 1
    BY <1>1, <1>2, <1>3 DEF Held
  <2>2. CASE i = arrLen
    BY <1>1, <1>2, <1>3, <2>1, <2>2
  <2>3. CASE i \in 0..(arrLen - 1)
    <3>1. /\ y = pdata[i] /\ y \in Items /\ vecLife[y] = "live" /\ vecPushes[y] > 0
          /\ vecIndex[y] \in i..(arrLen - 1) /\ pdata[vecIndex[y]] = y
          /\ vecIndex[y] > i => vecPushes[y] > 1
      BY <1>1, <2>1, <2>3 DEF VecInv, Held
    <3>2. CASE y = x
      BY <1>1, <1>2, <1>3, <2>3, <3>1, <3>2
    <3>3. CASE y # x
      BY <1>1, <1>2, <1>3, <2>3, <3>1, <3>3
    <3> QED  BY <3>2, <3>3
  <2> QED  BY <1>2, <2>2, <2>3
<1>5. Owned'
  <2>1. \A y \in vecTwice' : vecLife'[y] # "live" /\ vecPushes'[y] > 1
    BY <1>3 DEF VecInv, Owned
  <2>2. \A y \in Items : vecLife'[y] = "live" /\ vecPushes'[y] > 0 => Holds(y)'
    BY <1>1, <1>2, <1>3 DEF VecInv, Owned, Holds
  <2> QED  BY <1>3, <2>1, <2>2 DEF VecInv, Owned
<1> QED  BY <1>1, <1>4, <1>5 DEF VecInv

LEMMA DisposeKept ==
  ASSUME VecInv, VecDispose
  PROVE  VecInv'
<1>1. Shape' /\ arrLen' = 0
  BY FreeKept DEF VecDispose, ArrFree, VecInv
<1>2. Held'
  BY <1>1 DEF Held
<1>3. \A x \in Disposed : vecLife[x] = "live"
  BY DEF Disposed, Holds, VecInv, Held
<1>4. ASSUME NEW x \in Items, HoldsTwice(x)
      PROVE  vecPushes[x] > 1 /\ x \in Disposed
  <2>1. PICK i \in 0..(arrLen - 1), j \in 0..(arrLen - 1) : i # j /\ pdata[i] = x /\ pdata[j] = x
    BY <1>4 DEF HoldsTwice
  <2>2. vecIndex[x] \in i..(arrLen - 1) /\ vecIndex[x] \in j..(arrLen - 1)
        /\ (vecIndex[x] > i => vecPushes[x] > 1) /\ (vecIndex[x] > j => vecPushes[x] > 1)
    BY <2>1 DEF VecInv, Held
  <2>3. arrLen \in Nat
    BY DEF VecInv, Shape
  <2> QED  BY <2>1, <2>2, <2>3 DEF Disposed, Holds
<1>5. /\ vecLife' = [x \in Items |-> IF x \in Disposed THEN "freed" ELSE vecLife[x]]
      /\ vecTwice' = vecTwice \cup {x \in Disposed : HoldsTwice(x)}
      /\ UNCHANGED <<vecIndex, vecPushes>>
  BY <1>3 DEF VecDispose
<1>6. Disposed \subseteq Items
  BY DEF Disposed
<1>7. \A x \in vecTwice' : vecLife'[x] # "live" /\ vecPushes'[x] > 1
  BY <1>4, <1>5, <1>6 DEF VecInv, Owned
<1>8. \A x \in Items : ~(vecLife'[x] = "live" /\ vecPushes'[x] > 0)
  BY <1>5 DEF VecInv, Owned, Disposed
<1>9. vecLife' \in [Items -> {"none", "live", "freed"}] /\ vecTwice' \subseteq Items
  BY <1>5, <1>6 DEF VecInv, Owned
<1> QED  BY <1>1, <1>2, <1>5, <1>7, <1>8, <1>9 DEF VecInv, Owned

LEMMA VecInvKept == VecInv /\ [VecNext]_vecVars => VecInv'
<1> SUFFICES ASSUME VecInv, [VecNext]_vecVars  PROVE VecInv'
  OBVIOUS
<1>1. CASE VecNew
  <2>1. Shape' /\ arrLen' = 0 /\ UNCHANGED vecOwn
    BY <1>1, NewKept, PtrArrayAssumption DEF VecNew, VecInv
  <2>2. \A x \in Items : ~Holds(x)
    BY <1>1 DEF VecNew, ArrNew, VecInv, Shape, Holds
  <2> QED  BY <2>1, <2>2 DEF VecInv, Held, Owned, vecOwn
<1>2. CASE VecDispose
  BY <1>2, DisposeKept
<1>3. CASE \E x \in Items : LiveDataNew(x) \/ LiveDataDispose(x)
  BY <1>3, ItemKept
<1>4. CASE \E x \in Items : VecPushBack(x)
  BY <1>4, PushBackKept
<1>5. CASE UNCHANGED vecVars
  BY <1>5 DEF vecVars, vecOwn, arrVars, VecInv, Shape, Held, Owned, Holds
<1> QED  BY <1>1, <1>2, <1>3, <1>4, <1>5 DEF VecNext

\* live_data_vector_push_back, live_data_vector_index and live_data_vector_dispose
\* (livedatavector.c:10, :21): each item is found by its index and freed once, for
\* any number of items and any width of guint, unless it was pushed twice.
THEOREM ListIsSound == VecSpec => []VecCorrect
<1>1. VecInv => VecCorrect
  BY DEF VecInv, Held, Owned, Shape, VecCorrect, VecIndexAgrees, VecFreesOnce
<1> QED  BY <1>1, VecInvInit, VecInvKept, PTL DEF VecSpec

-----------------------------------------------------------------------------
(* The array is a sequence *)

\* What a function that leaves the first n cells of a block in use shows.
LEMMA LeaveKept ==
  ASSUME Shape, arrState = "live", NEW size \in Nat, NEW b \in [0..(size - 1) -> ArrCells],
         NEW n \in 0..size, n <= MaxEntries,
         arrSize' = size, pdata' = b, arrLen' = n, arrWild' = FALSE, arrState' = arrState
  PROVE  /\ Shape' /\ Seen' \in Seq(ArrCells) /\ Len(Seen') = n
         /\ \A i \in 1..n : Seen'[i] = b[i - 1]
<1>1. Shape'
  BY DEF Shape
<1>2. Seen' = Contents(b, n)
  BY DEF Seen
<1> QED  BY <1>1, <1>2, ContentsIs

LEMMA SeenIs ==
  ASSUME Shape
  PROVE  /\ Seen \in Seq(ArrCells) /\ Len(Seen) = arrLen /\ arrLen \in Nat
         /\ \A i \in 1..arrLen : Seen[i] = pdata[i - 1]
BY ContentsIs DEF Shape, Seen

LEMMA SetSizeStep ==
  ASSUME Shape, NEW n \in 0..MaxEntries, ArrSetSize(n)
  PROVE  Shape' /\ (ArrImplements!Truncated \/ ArrImplements!Padded)
<1>0. n \in Nat /\ n <= MaxEntries /\ MaxEntries \in Nat /\ arrLen \in Nat
  BY PtrArrayAssumption DEF Shape
<1>1. CASE n <= arrLen
  <2>1. /\ arrState = "live" /\ arrState' = arrState /\ arrSize' = arrSize
        /\ pdata' = pdata /\ arrLen' = n /\ arrWild' = FALSE
    <3>1. ~(n > arrLen)
      BY <1>0, <1>1
    <3>2. arrState = "live" /\ UNCHANGED arrSize /\ Leave(pdata, n, TRUE)
      BY <3>1 DEF ArrSetSize
    <3> QED  BY <3>2 DEF Leave, Shape
  <2>2. Shape' /\ Seen' \in Seq(ArrCells) /\ Len(Seen') = n /\ \A i \in 1..n : Seen'[i] = pdata[i - 1]
    <3>1. n \in 0..arrSize /\ arrSize \in Nat /\ pdata \in [0..(arrSize - 1) -> ArrCells]
      BY <1>0, <1>1 DEF Shape
    <3> QED  BY <1>0, <2>1, <3>1, LeaveKept
  <2>3. SubSeq(Seen', 1, n) = SubSeq(Seen, 1, n)
    BY <1>1, <2>2, SeenIs
  <2> QED  BY <1>1, <2>2, <2>3, SeenIs DEF ArrImplements!Truncated, ArrImplements!IsPrefix
<1>2. CASE n > arrLen
  <2>1. PICK size \in Capacities(n) :
          /\ arrState = "live" /\ arrState' = arrState /\ arrSize' = size /\ arrLen' = n
          /\ pdata' = Fill(Realloc(pdata, size), arrLen, n - arrLen, Null)
          /\ arrWild' = ~Inside(Realloc(pdata, size), arrLen, n - arrLen)
    <3>1. ~(n <= arrLen) /\ ~Loop(n)
      BY <1>0, <1>2, Rooms DEF Loop
    <3>2. PICK size \in Capacities(n) :
            /\ arrState = "live" /\ arrSize' = size
            /\ Leave(Fill(Realloc(pdata, size), arrLen, n - arrLen, Null), n,
                     Inside(Realloc(pdata, size), arrLen, n - arrLen))
      BY <3>1 DEF ArrSetSize
    <3> QED  BY <3>2 DEF Leave, Shape
  <2>2. size \in Nat /\ size >= arrSize /\ size >= arrLen + n
    BY Rooms
  <2> DEFINE block == Realloc(pdata, size)
             b     == Fill(block, arrLen, n - arrLen, Null)
  <2>3. block \in [0..(size - 1) -> ArrCells] /\ \A i \in 0..(arrSize - 1) : block[i] = pdata[i]
    BY <2>2, ReallocIs DEF Shape
  <2>4. Inside(block, arrLen, n - arrLen)
    BY <1>2, <2>2, <2>3 DEF Inside, Shape
  <2> HIDE DEF block
  <2>5. /\ b \in [0..(size - 1) -> ArrCells]
        /\ \A i \in 0..(arrLen - 1) : b[i] = block[i]
        /\ \A i \in arrLen..(n - 1) : b[i] = Null
    <3>1. \A i \in 0..(size - 1) : b[i] = IF i \in arrLen..(arrLen + (n - arrLen) - 1) THEN Null ELSE block[i]
      BY <2>3 DEF Fill
    <3>2. b \in [0..(size - 1) -> ArrCells]
      BY <2>3 DEF Fill, ArrCells
    <3>3. 0..(arrLen - 1) \subseteq 0..(size - 1) /\ arrLen..(n - 1) \subseteq 0..(size - 1)
          /\ arrLen + (n - arrLen) - 1 = n - 1
      BY <1>2, <2>2 DEF Shape
    <3> QED  BY <3>1, <3>2, <3>3 DEF Shape
  <2> HIDE DEF b
  <2>6. Shape' /\ Seen' \in Seq(ArrCells) /\ Len(Seen') = n /\ \A i \in 1..n : Seen'[i] = b[i - 1]
    <3>1. pdata' = b /\ arrWild' = FALSE
      BY <2>1, <2>4 DEF block, b
    <3>2. n \in 0..size /\ n <= MaxEntries
      BY <2>2, PtrArrayAssumption DEF Shape
    <3> QED  BY <2>1, <2>2, <2>5, <3>1, <3>2, LeaveKept
  <2>7. \A i \in 1..arrLen : Seen'[i] = Seen[i]
    <3>1. SUFFICES ASSUME NEW i \in 1..arrLen  PROVE Seen'[i] = Seen[i]
      OBVIOUS
    <3>2. i - 1 \in 0..(arrLen - 1) /\ i - 1 \in 0..(arrSize - 1) /\ i \in 1..n
      BY <1>2 DEF Shape
    <3> QED  BY <2>3, <2>5, <2>6, <3>2, SeenIs
  <2>8. \A i \in (arrLen + 1)..n : Seen'[i] = Null
    <3>1. \A i \in (arrLen + 1)..n : i \in 1..n /\ i - 1 \in arrLen..(n - 1)
      BY <1>2, SeenIs
    <3> QED  BY <2>5, <2>6, <3>1
  <2>9. SubSeq(Seen, 1, arrLen) = SubSeq(Seen', 1, arrLen)
    BY <1>2, <2>6, <2>7, SeenIs
  <2>10. ArrImplements!Padded
    BY <1>2, <2>6, <2>8, <2>9, SeenIs DEF ArrImplements!Padded, ArrImplements!IsPrefix
  <2> QED  BY <2>6, <2>10
<1> QED  BY <1>0, <1>1, <1>2

\* The entries behind entry i have moved over it.
LEMMA RemoveIndexStep ==
  ASSUME Shape, NEW i \in 0..(arrLen - 1), ArrRemoveIndex(i)
  PROVE  Shape' /\ ArrImplements!Dropped
<1>1. Inside(pdata, i + 1, arrLen - i - 1) /\ Inside(pdata, arrLen - 1, 1)
  BY DEF Inside, Shape
<1>2. /\ arrState = "live" /\ arrState' = arrState /\ arrSize' = arrSize /\ arrLen' = arrLen - 1
      /\ pdata' = Fill(Shifted(i), arrLen - 1, 1, Null) /\ arrWild' = FALSE
  BY <1>1 DEF ArrRemoveIndex, Leave, Shape
<1> DEFINE b == Fill(Shifted(i), arrLen - 1, 1, Null)
<1>3. /\ Shifted(i) \in [0..(arrSize - 1) -> ArrCells]
      /\ \A j \in 0..(arrLen - 2) : Shifted(i)[j] = IF j < i THEN pdata[j] ELSE pdata[j + 1]
  <2>1. CASE i = arrLen - 1
    BY <2>1 DEF Shifted, Shape
  <2>2. CASE i # arrLen - 1
    <3>1. Shifted(i) = Move(pdata, i, i + 1, arrLen - i - 1)
      BY <2>2 DEF Shifted
    <3>2. Shifted(i) \in [0..(arrSize - 1) -> ArrCells]
      BY <3>1 DEF Move, Shape, ArrCells
    <3>3. \A j \in 0..(arrLen - 2) : j \in 0..(arrSize - 1) /\ j + 1 \in 0..(arrSize - 1)
      BY DEF Shape
    <3>4. \A j \in 0..(arrLen - 2) : Shifted(i)[j] = IF j < i THEN pdata[j] ELSE pdata[j + 1]
      BY <3>1, <3>3 DEF Move, Shape
    <3> QED  BY <3>2, <3>4
  <2> QED  BY <2>1, <2>2
<1>4. b \in [0..(arrSize - 1) -> ArrCells] /\ \A j \in 0..(arrLen - 2) : b[j] = Shifted(i)[j]
  BY <1>3 DEF Fill, Shape, ArrCells
<1> HIDE DEF b
<1>5. /\ Shape' /\ Seen' \in Seq(ArrCells) /\ Len(Seen') = arrLen - 1
      /\ \A j \in 1..(arrLen - 1) : Seen'[j] = b[j - 1]
  <2>1. arrLen - 1 \in 0..arrSize /\ arrLen - 1 <= MaxEntries
    BY PtrArrayAssumption DEF Shape
  <2> QED  BY <1>2, <1>4, <2>1, LeaveKept DEF b, Shape
<1>6. \A j \in 1..(arrLen - 1) : Seen'[j] = IF j < i + 1 THEN Seen[j] ELSE Seen[j + 1]
  <2>1. SUFFICES ASSUME NEW j \in 1..(arrLen - 1)
        PROVE  Seen'[j] = IF j < i + 1 THEN Seen[j] ELSE Seen[j + 1]
    OBVIOUS
  <2>2. j - 1 \in 0..(arrLen - 2) /\ j \in 1..arrLen /\ j + 1 \in 1..arrLen /\ (j - 1) + 1 = (j + 1) - 1
    BY SeenIs
  <2>3. /\ Seen'[j] = b[j - 1]
        /\ b[j - 1] = IF j - 1 < i THEN pdata[j - 1] ELSE pdata[(j - 1) + 1]
    BY <1>3, <1>4, <1>5, <2>2
  <2>4. Seen[j] = pdata[j - 1] /\ Seen[j + 1] = pdata[(j - 1) + 1]
    BY <2>2, SeenIs
  <2> QED  BY <2>2, <2>3, <2>4
<1>7. ArrImplements!RemoveAt(Seen, i + 1) \in Seq(ArrCells) /\ Len(ArrImplements!RemoveAt(Seen, i + 1)) = arrLen - 1
      /\ \A j \in 1..(arrLen - 1) : ArrImplements!RemoveAt(Seen, i + 1)[j] = IF j < i + 1 THEN Seen[j] ELSE Seen[j + 1]
  <2> DEFINE left == SubSeq(Seen, 1, i)   right == SubSeq(Seen, i + 2, arrLen)
  <2>1. /\ left \in Seq(ArrCells) /\ Len(left) = i /\ \A j \in 1..i : left[j] = Seen[j]
        /\ right \in Seq(ArrCells) /\ Len(right) = arrLen - 1 - i
        /\ \A j \in 1..(arrLen - 1 - i) : right[j] = Seen[j + i + 1]
    <3>1. Seen \in Seq(ArrCells) /\ Len(Seen) = arrLen /\ arrLen \in Nat
      BY SeenIs
    <3>2. 1 \in 1..(Len(Seen) + 1) /\ i \in 0..Len(Seen) /\ i \in (1 - 1)..Len(Seen)
      BY <3>1
    <3>3. left \in Seq(ArrCells) /\ Len(left) = i /\ \A j \in 1..i : left[j] = Seen[j]
      <4>1. /\ left \in Seq(ArrCells) /\ Len(left) = i - 1 + 1
            /\ \A j \in 1..(i - 1 + 1) : left[j] = Seen[1 + j - 1]
        BY <3>1, <3>2, Part
      <4> QED  BY <3>2, <4>1
    <3>4. i + 2 \in 1..(Len(Seen) + 1) /\ arrLen \in (i + 2 - 1)..Len(Seen)
      BY <3>1
    <3>5. /\ right \in Seq(ArrCells) /\ Len(right) = arrLen - (i + 2) + 1
          /\ \A j \in 1..(arrLen - (i + 2) + 1) : right[j] = Seen[i + 2 + j - 1]
      BY <3>1, <3>4, Part
    <3>6. arrLen - (i + 2) + 1 = arrLen - 1 - i
          /\ \A j \in 1..(arrLen - 1 - i) : i + 2 + j - 1 = j + i + 1
      BY <3>1
    <3> QED  BY <3>3, <3>5, <3>6
  <2>2. ArrImplements!RemoveAt(Seen, i + 1) = left \o right
    <3>1. (i + 1) - 1 = i /\ (i + 1) + 1 = i + 2
      BY SeenIs
    <3> QED  BY <3>1, SeenIs DEF ArrImplements!RemoveAt
  <2> HIDE DEF left, right
  <2>3. /\ left \o right \in Seq(ArrCells) /\ Len(left \o right) = arrLen - 1
        /\ \A j \in 1..(arrLen - 1) : (left \o right)[j] = IF j <= i THEN left[j] ELSE right[j - i]
    BY <2>1, SeenIs
  <2>4. \A j \in 1..(arrLen - 1) : (left \o right)[j] = IF j < i + 1 THEN Seen[j] ELSE Seen[j + 1]
    BY <2>1, <2>3, SeenIs
  <2> QED  BY <2>2, <2>3, <2>4
<1>8. Seen' = ArrImplements!RemoveAt(Seen, i + 1)
  BY <1>5, <1>6, <1>7, SameSeq
<1>9. i + 1 \in DOMAIN Seen
  BY SeenIs
<1> QED  BY <1>5, <1>8, <1>9 DEF ArrImplements!Dropped

\* The last entry takes the place of entry i, and nothing else that is seen changes.
LEMMA SwapStep ==
  ASSUME Shape, arrState = "live", NEW i \in 0..(arrLen - 1), NEW b \in [0..(arrSize - 1) -> ArrCells],
         \A j \in 0..(arrLen - 2) : b[j] = IF j = i THEN pdata[arrLen - 1] ELSE pdata[j],
         arrSize' = arrSize, pdata' = b, arrLen' = arrLen - 1, arrWild' = FALSE, arrState' = arrState
  PROVE  Shape' /\ ArrImplements!SwappedOut
<1>1. /\ Shape' /\ Seen' \in Seq(ArrCells) /\ Len(Seen') = arrLen - 1
      /\ \A j \in 1..(arrLen - 1) : Seen'[j] = b[j - 1]
  <2>1. arrLen - 1 \in 0..arrSize /\ arrLen - 1 <= MaxEntries /\ arrSize \in Nat
    BY PtrArrayAssumption DEF Shape
  <2> QED  BY <2>1, LeaveKept
<1> DEFINE swapped == [k \in 1..(Len(Seen) - 1) |-> IF k = i + 1 THEN ArrImplements!Last(Seen) ELSE Seen[k]]
<1>2. ArrImplements!Last(Seen) = pdata[arrLen - 1]
  BY SeenIs DEF ArrImplements!Last
<1>3. \A k \in 1..(arrLen - 1) : Seen'[k] = IF k = i + 1 THEN pdata[arrLen - 1] ELSE Seen[k]
  <2>1. SUFFICES ASSUME NEW k \in 1..(arrLen - 1)
        PROVE  Seen'[k] = IF k = i + 1 THEN pdata[arrLen - 1] ELSE Seen[k]
    OBVIOUS
  <2>2. k - 1 \in 0..(arrLen - 2) /\ k \in 1..arrLen /\ (k - 1 = i <=> k = i + 1)
    BY SeenIs
  <2> QED  BY <1>1, <2>2, SeenIs
<1>4. Seen' = [k \in 1..(arrLen - 1) |-> Seen'[k]]
  BY <1>1
<1>5. Seen' = swapped
  BY <1>2, <1>3, <1>4, SeenIs
<1>6. i + 1 \in DOMAIN Seen
  BY SeenIs
<1> QED  BY <1>1, <1>5, <1>6 DEF ArrImplements!SwappedOut

LEMMA RemoveIndexFastStep ==
  ASSUME Shape, NEW i \in 0..(arrLen - 1), ArrRemoveIndexFast(i)
  PROVE  Shape' /\ ArrImplements!SwappedOut
<1> DEFINE moved == IF i = arrLen - 1 THEN pdata ELSE Move(pdata, i, arrLen - 1, 1)
           b     == Fill(moved, arrLen - 1, 1, Null)
<1>1. Inside(pdata, i, 1) /\ Inside(pdata, arrLen - 1, 1)
  BY DEF Inside, Shape
<1>2. /\ arrState = "live" /\ arrState' = arrState /\ arrSize' = arrSize /\ arrLen' = arrLen - 1
      /\ pdata' = b /\ arrWild' = FALSE
  BY <1>1 DEF ArrRemoveIndexFast, Leave, Shape
<1>3. \A j \in 0..(arrLen - 2) : j \in 0..(arrSize - 1) /\ arrLen - 1 \in 0..(arrSize - 1)
  BY DEF Shape
<1>4. /\ moved \in [0..(arrSize - 1) -> ArrCells]
      /\ \A j \in 0..(arrLen - 2) : moved[j] = IF j = i THEN pdata[arrLen - 1] ELSE pdata[j]
  <2>1. CASE i = arrLen - 1
    BY <1>3, <2>1 DEF Shape
  <2>2. CASE i # arrLen - 1
    <3>1. moved = Move(pdata, i, arrLen - 1, 1)
      BY <2>2
    <3>2. moved \in [0..(arrSize - 1) -> ArrCells]
      BY <3>1 DEF Move, Shape, ArrCells
    <3>3. \A j \in 0..(arrLen - 2) : moved[j] = IF j = i THEN pdata[arrLen - 1] ELSE pdata[j]
      BY <1>3, <3>1 DEF Move, Shape
    <3> QED  BY <3>2, <3>3
  <2> QED  BY <2>1, <2>2
<1> HIDE DEF moved
<1>5. b \in [0..(arrSize - 1) -> ArrCells] /\ \A j \in 0..(arrLen - 2) : b[j] = moved[j]
  BY <1>3, <1>4 DEF Fill, Shape, ArrCells
<1> HIDE DEF b
<1>6. \A j \in 0..(arrLen - 2) : b[j] = IF j = i THEN pdata[arrLen - 1] ELSE pdata[j]
  BY <1>4, <1>5
<1>7. b \in [0..(arrSize - 1) -> ArrCells]
  BY <1>5
<1> QED  BY <1>2, <1>6, <1>7, SwapStep, ZenonT(60)

LEMMA RemoveFastStep ==
  ASSUME Shape, NEW x \in Items, ArrRemoveFast(x)
  PROVE  Shape' /\ ArrImplements!SwappedOut
<1> DEFINE b(i) == Fill(pdata, i, 1, IF arrLen > 1 THEN pdata[arrLen - 1] ELSE Null)
<1>1. PICK i \in 0..(arrLen - 1) :
        /\ arrState = "live" /\ arrState' = arrState /\ arrSize' = arrSize /\ arrLen' = arrLen - 1
        /\ pdata' = b(i) /\ arrWild' = (arrWild \/ ~Inside(pdata, arrLen - 1, 1))
  BY DEF ArrRemoveFast, Leave
<1>2. Inside(pdata, arrLen - 1, 1)
  BY <1>1 DEF Inside, Shape
<1>3. arrWild' = FALSE
  BY <1>1, <1>2 DEF Shape
<1>4. b(i) \in [0..(arrSize - 1) -> ArrCells]
  BY <1>1 DEF Fill, Shape, ArrCells
<1>5. \A j \in 0..(arrLen - 2) : b(i)[j] = IF j = i THEN pdata[arrLen - 1] ELSE pdata[j]
  <2>1. \A j \in 0..(arrLen - 2) : j \in 0..(arrSize - 1) /\ arrLen > 1
    BY DEF Shape
  <2> QED  BY <1>1, <2>1 DEF Fill, Shape
<1> HIDE DEF b
<1> QED  BY <1>1, <1>3, <1>4, <1>5, SwapStep

\* A permutation maps a set of positions to as many.
LEMMA Rearranged ==
  ASSUME NEW n \in Nat, NEW p \in Injection(1..n, 1..n), NEW A \in SUBSET (1..n), NEW B \in SUBSET (1..n),
         A = {k \in 1..n : p[k] \in B}
  PROVE  Cardinality(A) = Cardinality(B)
<1> DEFINE f == [k \in A |-> p[k]]
<1>1. IsFiniteSet(1..n) /\ IsFiniteSet(A)
  <2>1. IsFiniteSet(1..n)
    BY FS_Interval
  <2> QED  BY <2>1, FS_Subset
<1>2. p \in [1..n -> 1..n] /\ \A i, j \in 1..n : p[i] = p[j] => i = j
  BY DEF Injection, IsInjective
<1>3. \A j \in 1..n : \E k \in 1..n : p[k] = j
  <2>1. p \in Surjection(1..n, 1..n)
    BY <1>1, FS_Injection
  <2> QED  BY <2>1 DEF Surjection
<1>4. f \in [A -> B]
  BY <1>2
<1>5. f \in Injection(A, B)
  BY <1>2, <1>4 DEF Injection, IsInjective
<1>6. f \in Surjection(A, B)
  BY <1>2, <1>3, <1>4 DEF Surjection
<1>7. ExistsBijection(A, B)
  BY <1>5, <1>6 DEF ExistsBijection, Bijection
<1> QED  BY <1>1, <1>7, FS_Bijection

LEMMA SortStep ==
  ASSUME Shape, ArrSort
  PROVE  Shape' /\ ArrImplements!Sorted
<1>1. PICK p \in [1..arrLen -> 1..arrLen] :
        LET s == [k \in 1..arrLen |-> pdata[p[k] - 1]]
        IN  /\ \A i, j \in 1..arrLen : i # j => p[i] # p[j]
            /\ \A i, j \in 1..arrLen : i < j => Rank[s[i]] <= Rank[s[j]]
            /\ Leave(Store(pdata, 0, s), arrLen, TRUE)
  BY DEF ArrSort
<1> DEFINE s == [k \in 1..arrLen |-> pdata[p[k] - 1]]
           b == Store(pdata, 0, s)
<1>2. /\ arrState = "live" /\ arrState' = arrState /\ arrSize' = arrSize
      /\ pdata' = b /\ arrLen' = arrLen /\ arrWild' = FALSE
  BY <1>1 DEF ArrSort, Leave, Shape
<1>3. /\ arrLen \in Nat /\ s \in Seq(ArrCells) /\ Len(s) = arrLen
      /\ \A k \in 1..arrLen : s[k] = Seen[p[k]]
  <2>1. \A k \in 1..arrLen : p[k] - 1 \in 0..(arrSize - 1) /\ pdata[p[k] - 1] \in ArrCells
    BY SMTT(30) DEF Shape
  <2>2. \A k \in 1..arrLen : s[k] = pdata[p[k] - 1] /\ Seen[p[k]] = pdata[p[k] - 1]
    BY SeenIs
  <2>3. arrLen \in Nat
    BY DEF Shape
  <2>4. s \in [1..arrLen -> ArrCells]
    BY <2>1
  <2>5. s \in Seq(ArrCells) /\ Len(s) = arrLen
    BY <2>3, <2>4
  <2> QED  BY <2>2, <2>3, <2>5
<1>4. /\ \A i, j \in 1..arrLen : i # j => p[i] # p[j]
      /\ \A i, j \in 1..arrLen : i < j => Rank[s[i]] <= Rank[s[j]]
  BY <1>1
<1> HIDE DEF s
<1>5. b \in [0..(arrSize - 1) -> ArrCells] /\ \A i \in 1..arrLen : b[i - 1] = s[i]
  <2>1. \A i \in 0..(arrSize - 1) : i \in 0..(0 + Len(s) - 1) => i - 0 + 1 \in 1..arrLen /\ s[i - 0 + 1] \in ArrCells
    BY <1>3 DEF Shape
  <2>2. b \in [0..(arrSize - 1) -> ArrCells]
    BY <2>1 DEF Store, Shape
  <2>3. \A i \in 1..arrLen : i - 1 \in 0..(arrSize - 1) /\ i - 1 \in 0..(0 + Len(s) - 1) /\ (i - 1) - 0 + 1 = i
    BY <1>3 DEF Shape
  <2> QED  BY <2>2, <2>3 DEF Store, Shape
<1> HIDE DEF b
<1>6. Shape' /\ Seen' \in Seq(ArrCells) /\ Len(Seen') = arrLen /\ \A i \in 1..arrLen : Seen'[i] = b[i - 1]
  <2>1. arrLen \in 0..arrSize /\ arrSize \in Nat /\ arrLen <= MaxEntries
    BY DEF Shape
  <2> QED  BY <1>2, <1>5, <2>1, LeaveKept
<1>7. \A i \in 1..arrLen : Seen'[i] = s[i] /\ Seen'[i] = Seen[p[i]]
  BY <1>3, <1>5, <1>6
<1>8. DOMAIN Seen = 1..arrLen /\ DOMAIN Seen' = 1..arrLen /\ Len(Seen) = arrLen
  BY <1>6, SeenIs
<1>9. \A x : ArrImplements!Times(Seen', x) = ArrImplements!Times(Seen, x)
  <2> SUFFICES ASSUME NEW x
               PROVE  ArrImplements!Times(Seen', x) = ArrImplements!Times(Seen, x)
    OBVIOUS
  <2> DEFINE A == {k \in DOMAIN Seen' : Seen'[k] = x}
             B == {k \in DOMAIN Seen : Seen[k] = x}
  <2>1. A \in SUBSET (1..arrLen) /\ B \in SUBSET (1..arrLen)
    BY <1>8
  <2>2. \A k \in 1..arrLen : k \in A <=> p[k] \in B
    BY <1>7, <1>8
  <2>3. ArrImplements!Times(Seen', x) = Cardinality(A) /\ ArrImplements!Times(Seen, x) = Cardinality(B)
    BY Zenon DEF ArrImplements!Times, ArrImplements!Cardinality, Cardinality
  <2> HIDE DEF A, B
  <2>4. Cardinality(A) = Cardinality(B)
    <3>1. arrLen \in Nat /\ p \in [1..arrLen -> 1..arrLen]
      BY <1>3
    <3>2. p \in Injection(1..arrLen, 1..arrLen)
      BY <1>4, <3>1 DEF Injection, IsInjective
    <3>3. A = {k \in 1..arrLen : p[k] \in B}
      BY <2>1, <2>2
    <3> QED  BY <2>1, <3>1, <3>2, <3>3, Rearranged
  <2> QED  BY <2>3, <2>4
<1>10. \A i, j \in 1..arrLen : i < j => Rank[Seen'[i]] <= Rank[Seen'[j]]
  BY <1>4, <1>7
<1> QED  BY <1>6, <1>8, <1>9, <1>10 DEF ArrImplements!Sorted

-----------------------------------------------------------------------------
LEMMA ShapeInit == ArrInit => Shape /\ Seen = << >>
<1> SUFFICES ASSUME ArrInit  PROVE Shape /\ Seen = << >>
  OBVIOUS
<1>1. pdata \in [0..(0 - 1) -> ArrCells]
  BY DEF ArrInit, Alloc, ArrCells
<1> QED  BY <1>1, PtrArrayAssumption DEF ArrInit, Shape, Seen, Contents

\* Every step keeps the shape, and is one of the sequence or none.
LEMMA ArrStep ==
  ASSUME Shape, [ArrNext]_arrVars
  PROVE  Shape' /\ [ArrImplements!VectorNext]_Seen
<1>1. CASE \E n \in 0..MaxEntries : ArrNew(n)
  BY <1>1, NewKept DEF ArrImplements!VectorNext, ArrImplements!Emptied
<1>2. CASE \E n \in 0..MaxEntries : ArrSetSize(n)
  BY <1>2, SetSizeStep DEF ArrImplements!VectorNext
<1>3. CASE ArrFree
  BY <1>3, FreeKept DEF ArrImplements!VectorNext, ArrImplements!Emptied
<1>4. CASE \E x \in Items : ArrAdd(x)
  BY <1>4, AddKept DEF ArrImplements!VectorNext, ArrImplements!Pushed
<1>5. CASE \E x \in Items : ArrRemove(x)
  BY <1>5, RemoveIndexStep DEF ArrRemove, ArrImplements!VectorNext
<1>6. CASE \E x \in Items : ArrRemoveFast(x)
  BY <1>6, RemoveFastStep DEF ArrImplements!VectorNext
<1>7. CASE \E i \in 0..(arrLen - 1) : ArrRemoveIndex(i)
  BY <1>7, RemoveIndexStep DEF ArrImplements!VectorNext
<1>8. CASE \E i \in 0..(arrLen - 1) : ArrRemoveIndexFast(i)
  BY <1>8, RemoveIndexFastStep DEF ArrImplements!VectorNext
<1>9. CASE ArrSort
  BY <1>9, SortStep DEF ArrImplements!VectorNext
<1>10. CASE UNCHANGED arrVars
  BY <1>10 DEF arrVars, Shape, Seen, Contents
<1> QED  BY <1>1, <1>2, <1>3, <1>4, <1>5, <1>6, <1>7, <1>8, <1>9, <1>10 DEF ArrNext

\* g_ptr_array_grow (gptrarray.c:40): for any bound of a quarter of guint the doubling
\* ends, and no function reads or writes outside of the block.
THEOREM ArrayIsSound == ArrSpec => []ArrCorrect
<1>1. Shape /\ [ArrNext]_arrVars => Shape'
  BY ArrStep
<1>2. Shape => ArrCorrect
  BY DEF Shape, ArrCorrect, ArrStaysInside, ArrGrowthEnds
<1> QED  BY <1>1, <1>2, ShapeInit, PTL DEF ArrSpec

\* The public functions of gptrarray.c implement a sequence: whatever the capacity, the
\* moves of memory and the sort, each is the step on the entries that its name says.
THEOREM ArrayImplementsVector == ArrSpec => ArrIsVector
<1>1. Shape /\ [ArrNext]_arrVars => Shape'
  BY ArrStep
<1>2. Shape /\ [ArrNext]_arrVars => [ArrImplements!VectorNext]_Seen
  BY ArrStep
<1>3. ArrInit => ArrImplements!VectorInit
  BY ShapeInit DEF ArrImplements!VectorInit
<1> QED  BY <1>1, <1>2, <1>3, ShapeInit, PTL DEF ArrSpec, ArrIsVector, ArrImplements!VectorSpec

-----------------------------------------------------------------------------

(* Numbers and orders *)

\* A set of numbers has a least one.
LEMMA LeastNumber ==
  ASSUME NEW T, T \subseteq Nat, T # {}
  PROVE  \E m \in T : \A k \in T : m <= k
<1> DEFINE R == OpToRel(<, Nat)
<1>1. IsWellFoundedOn(R, Nat)
  BY NatLessThanWellFounded
<1>2. R = {ss \in Nat \X Nat : ss[1] < ss[2]}
  BY DEF OpToRel
<1> HIDE DEF R
<1>3. PICK m \in T : \A k \in T : ~ (<<k, m>> \in R)
  BY <1>1, WFMin
<1> SUFFICES ASSUME NEW k \in T PROVE m <= k
  OBVIOUS
<1>4. <<k, m>> \notin R /\ <<k, m>> \in Nat \X Nat /\ k \in Nat /\ m \in Nat
  BY <1>3
<1>5. <<k, m>> \in R <=> k < m
  BY <1>2, <1>4
<1> QED  BY <1>4, <1>5

\* What comes before an element of a finite strict order numbers the elements.
LEMMA Ranked ==
  ASSUME NEW P, IsFiniteSet(P), NEW R,
         \A p \in P : <<p, p>> \notin R,
         \A p, q \in P : p = q \/ <<p, q>> \in R \/ <<q, p>> \in R,
         \A p, q, r \in P : <<p, q>> \in R /\ <<q, r>> \in R => <<p, r>> \in R
  PROVE  \E f \in Bijection(P, 0..(Cardinality(P) - 1)) :
           /\ \A p \in P : f[p] = Cardinality({q \in P : <<q, p>> \in R})
           /\ \A p, q \in P : <<p, q>> \in R <=> f[p] < f[q]
<1> DEFINE Below(p) == {q \in P : <<q, p>> \in R}
           f == [p \in P |-> Cardinality(Below(p))]
           N == 0..(Cardinality(P) - 1)
<1>0. Cardinality(P) \in Nat
  BY FS_CardinalityType
<1>1. \A p \in P : IsFiniteSet(Below(p)) /\ Cardinality(Below(p)) \in Nat /\ Cardinality(Below(p)) < Cardinality(P)
  <2> SUFFICES ASSUME NEW p \in P
               PROVE  IsFiniteSet(Below(p)) /\ Cardinality(Below(p)) \in Nat /\ Cardinality(Below(p)) < Cardinality(P)
    OBVIOUS
  <2>1. Below(p) \in SUBSET P /\ p \notin Below(p)
    OBVIOUS
  <2> HIDE DEF Below
  <2>2. IsFiniteSet(Below(p)) /\ Cardinality(Below(p)) <= Cardinality(P) /\ Cardinality(P) # Cardinality(Below(p))
    BY <2>1, FS_Subset
  <2>3. Cardinality(Below(p)) \in Nat
    BY <2>2, FS_CardinalityType
  <2> QED  BY <1>0, <2>2, <2>3
<1>2. ASSUME NEW p \in P, NEW q \in P, <<p, q>> \in R PROVE Cardinality(Below(p)) < Cardinality(Below(q))
  <2>1. Below(p) \in SUBSET Below(q) /\ p \in Below(q) /\ p \notin Below(p)
    BY <1>2
  <2>2. IsFiniteSet(Below(q)) /\ Cardinality(Below(q)) \in Nat /\ Cardinality(Below(p)) \in Nat
    BY <1>1
  <2> HIDE DEF Below
  <2>3. Cardinality(Below(p)) <= Cardinality(Below(q)) /\ Cardinality(Below(q)) # Cardinality(Below(p))
    BY <2>1, <2>2, FS_Subset
  <2> QED  BY <2>2, <2>3
<1>3. f \in [P -> N]
  <2> HIDE DEF Below
  <2>1. \A p \in P : Cardinality(Below(p)) \in N
    BY <1>0, <1>1
  <2> HIDE DEF N
  <2> QED  BY <2>1
<1>4. \A p, q \in P : <<p, q>> \in R => f[p] < f[q]
  <2> HIDE DEF Below
  <2> QED  BY <1>2
<1>5. \A p, q \in P : <<p, q>> \in R <=> f[p] < f[q]
  <2>1. \A p \in P : f[p] \in Nat
    BY <1>1
  <2> SUFFICES ASSUME NEW p \in P, NEW q \in P, f[p] < f[q] PROVE <<p, q>> \in R
    BY <1>4
  <2> HIDE DEF f
  <2>2. f[p] \in Nat /\ f[q] \in Nat
    BY <2>1
  <2>3. p # q /\ <<q, p>> \notin R
    BY <1>4, <2>2
  <2> QED  BY <2>3
<1>6. f \in Injection(P, N)
  <2>1. \A p, q \in P : f[p] = f[q] => p = q
    <3>1. \A p \in P : f[p] \in Nat
      BY <1>1
    <3> SUFFICES ASSUME NEW p \in P, NEW q \in P, f[p] = f[q] PROVE p = q
      OBVIOUS
    <3> HIDE DEF f
    <3>2. <<p, q>> \notin R /\ <<q, p>> \notin R
      BY <1>4, <3>1
    <3> QED  BY <3>2
  <2> HIDE DEF f, N
  <2>2. DOMAIN f = P
    BY <1>3
  <2> QED  BY <1>3, <2>1, <2>2 DEF Injection, IsInjective
<1>7. IsFiniteSet(N) /\ Cardinality(N) = Cardinality(P)
  <2>1. Cardinality(P) - 1 \in Int /\ (0 > Cardinality(P) - 1 => Cardinality(P) = 0)
    BY <1>0
  <2> QED  BY <1>0, <2>1, FS_Interval
<1>8. f \in Bijection(P, N)
  <2> HIDE DEF f, N
  <2>1. f \in Surjection(P, N)
    BY <1>6, <1>7, FS_Injection
  <2> QED  BY <1>6, <2>1 DEF Bijection
<1>9. \A p \in P : f[p] = Cardinality(Below(p))
  OBVIOUS
<1> HIDE DEF f
<1> QED  BY <1>5, <1>8, <1>9

\* Nth is the k-th of some places: it names each of them, in the order of the slots.
LEMMA InTheirOrder ==
  ASSUME NEW P, IsFiniteSet(P), \A p \in P : p[1] \in Int /\ p[2] \in Int /\ p = <<p[1], p[2]>>
  PROVE  /\ Cardinality(P) \in Nat
         /\ \A k \in 1..Cardinality(P) : Nth(P, k) \in P
         /\ \A k, l \in 1..Cardinality(P) : k < l <=> Sooner(Nth(P, k), Nth(P, l))
         /\ \A p \in P : \E k \in 1..Cardinality(P) : Nth(P, k) = p
<1> DEFINE R == {pq \in P \X P : Sooner(pq[1], pq[2])}
           n == Cardinality(P)
<1>0. n \in Nat
  BY FS_CardinalityType
<1>1. \A p, q \in P : <<p, q>> \in R <=> Sooner(p, q)
  OBVIOUS
<1> HIDE DEF R
<1>2. \A p \in P : p[1] \in Int /\ p[2] \in Int /\ p = <<p[1], p[2]>>
  OBVIOUS
<1>3. \A p \in P : <<p, p>> \notin R
  BY <1>1, <1>2 DEF Sooner
<1>4. \A p, q \in P : p = q \/ <<p, q>> \in R \/ <<q, p>> \in R
  <2>1. ASSUME NEW p \in P, NEW q \in P PROVE p = q \/ Sooner(p, q) \/ Sooner(q, p)
    BY <1>2 DEF Sooner
  <2> QED  BY <1>1, <2>1, Zenon
<1>5. \A p, q, r \in P : <<p, q>> \in R /\ <<q, r>> \in R => <<p, r>> \in R
  <2> SUFFICES ASSUME NEW p \in P, NEW q \in P, NEW r \in P, Sooner(p, q), Sooner(q, r) PROVE Sooner(p, r)
    BY <1>1
  <2> QED  BY <1>2 DEF Sooner
<1>6. PICK f \in Bijection(P, 0..(n - 1)) :
        /\ \A p \in P : f[p] = Cardinality({q \in P : <<q, p>> \in R})
        /\ \A p, q \in P : <<p, q>> \in R <=> f[p] < f[q]
  BY <1>3, <1>4, <1>5, Ranked
<1> HIDE DEF n
<1>7. \A p \in P : f[p] \in 0..(n - 1) /\ f[p] = Cardinality({q \in P : Sooner(q, p)})
  <2> SUFFICES ASSUME NEW p \in P PROVE f[p] \in 0..(n - 1) /\ f[p] = Cardinality({q \in P : Sooner(q, p)})
    OBVIOUS
  <2>1. {q \in P : <<q, p>> \in R} = {q \in P : Sooner(q, p)}
    <3>1. \A q \in P : <<q, p>> \in R <=> Sooner(q, p)
      BY <1>1
    <3> QED  BY <3>1, Zenon
  <2>2. f[p] = Cardinality({q \in P : Sooner(q, p)})
    BY <1>6, <2>1, Zenon
  <2>3. f \in [P -> 0..(n - 1)]
    BY <1>6 DEF Bijection, Injection
  <2> QED  BY <2>2, <2>3
<1>8. \A k \in 1..n : \E p \in P : f[p] = k - 1
  <2> SUFFICES ASSUME NEW k \in 1..n PROVE \E p \in P : f[p] = k - 1
    OBVIOUS
  <2>1. k - 1 \in 0..(n - 1)
    BY <1>0
  <2> QED  BY <1>6, <2>1 DEF Bijection, Surjection
<1>9. \A k \in 1..n : Nth(P, k) \in P /\ f[Nth(P, k)] = k - 1
  <2> SUFFICES ASSUME NEW k \in 1..n PROVE Nth(P, k) \in P /\ f[Nth(P, k)] = k - 1
    OBVIOUS
  <2>1. PICK p \in P : f[p] = k - 1
    BY <1>8
  <2>2. Cardinality({q \in P : Sooner(q, p)}) = k - 1
    BY <1>7, <2>1
  <2>3. Nth(P, k) \in P /\ Cardinality({q \in P : Sooner(q, Nth(P, k))}) = k - 1
    BY <2>2, Zenon DEF Nth
  <2> QED  BY <1>7, <2>3
<1>10. \A p, q \in P : f[p] = f[q] => p = q
  <2> SUFFICES ASSUME NEW p \in P, NEW q \in P, f[p] = f[q] PROVE p = q
    OBVIOUS
  <2>1. f[p] \in Int /\ f[q] \in Int
    <3>1. f[p] \in 0..(n - 1) /\ f[q] \in 0..(n - 1)
      BY <1>7
    <3> HIDE DEF n
    <3> QED  BY <1>0, <3>1
  <2>2. <<p, q>> \notin R /\ <<q, p>> \notin R
    <3>1. (<<p, q>> \in R <=> f[p] < f[q]) /\ (<<q, p>> \in R <=> f[q] < f[p])
      BY <1>6
    <3> QED  BY <2>1, <3>1
  <2> QED  BY <1>4, <2>2
<1>11. \A k, l \in 1..n : k < l <=> Sooner(Nth(P, k), Nth(P, l))
  <2> SUFFICES ASSUME NEW k \in 1..n, NEW l \in 1..n PROVE k < l <=> Sooner(Nth(P, k), Nth(P, l))
    OBVIOUS
  <2>1. k < l <=> k - 1 < l - 1
    BY <1>0
  <2> QED  BY <1>1, <1>6, <1>9, <2>1
<1>12. \A p \in P : \E k \in 1..n : Nth(P, k) = p
  <2> SUFFICES ASSUME NEW p \in P PROVE \E k \in 1..n : Nth(P, k) = p
    OBVIOUS
  <2> DEFINE k == f[p] + 1
  <2>1. k \in 1..n /\ k - 1 = f[p]
    <3>1. f[p] \in 0..(n - 1)
      BY <1>7
    <3> QED  BY <1>0, <3>1
  <2> HIDE DEF k
  <2> QED  BY <1>9, <1>10, <2>1
<1> QED  BY <1>0, <1>9, <1>11, <1>12 DEF n

-----------------------------------------------------------------------------
(* Tables *)

\* A slot of a chain, and the sizes of tables.
Slots == [key : Keys, value : Values]
Sizes == {Primes[i] : i \in DOMAIN Primes}

\* T is a table of n chains, whose slots are where their hash says, each name in one slot.
Chained(T, n) ==
  /\ T \in [0..(n - 1) -> Seq(Slots)]
  /\ \A b \in 0..(n - 1) : \A i \in 1..Len(T[b]) : BucketIn(n, T[b][i].key) = b
  /\ \A b \in 0..(n - 1) : \A i, j \in 1..Len(T[b]) :
       Name[T[b][i].key] = Name[T[b][j].key] => i = j

\* The slots of T.
StoredIn(T, n) == UNION {Range(T[b]) : b \in 0..(n - 1)}

\* A size is not zero, so a bucket can be computed.
LEMMA SizesAre == \A s \in Sizes : s \in Nat /\ s > 0
BY HashTableAssumption DEF Sizes

\* The chain of a bucket, and what its slots are.
LEMMA ChainIs ==
  ASSUME NEW n \in Nat, NEW T, Chained(T, n), NEW b \in 0..(n - 1)
  PROVE  /\ T[b] \in Seq(Slots) /\ Len(T[b]) \in Nat /\ DOMAIN T[b] = 1..Len(T[b])
         /\ \A i \in 1..Len(T[b]) : /\ T[b][i] \in Slots /\ T[b][i].key \in Keys
                                    /\ T[b][i].value \in Values /\ Name[T[b][i].key] \in Names
                                    /\ BucketIn(n, T[b][i].key) = b
<1>1. T[b] \in Seq(Slots) /\ \A i \in 1..Len(T[b]) : BucketIn(n, T[b][i].key) = b
  BY DEF Chained
<1>2. \A s \in Slots : s.key \in Keys /\ s.value \in Values /\ Name[s.key] \in Names
  BY DEF Slots, Names
<1> QED  BY <1>1, <1>2

\* A slot is stored in some chain.
LEMMA StoredIs ==
  ASSUME NEW n \in Nat, NEW T, Chained(T, n), NEW s
  PROVE  s \in StoredIn(T, n) <=> \E b \in 0..(n - 1) : \E i \in 1..Len(T[b]) : s = T[b][i]
<1>1. \A b \in 0..(n - 1) : DOMAIN T[b] = 1..Len(T[b])
  BY ChainIs
<1>2. s \in StoredIn(T, n) <=> \E b \in 0..(n - 1) : s \in Range(T[b])
  BY Zenon DEF StoredIn
<1>3. \A b \in 0..(n - 1) : s \in Range(T[b]) <=> \E i \in 1..Len(T[b]) : s = T[b][i]
  BY <1>1, Zenon DEF Range
<1> QED  BY <1>2, <1>3

\* The bucket of a key is one of the table.
LEMMA HashOf ==
  ASSUME NEW n \in Nat, n > 0, NEW k \in Keys
  PROVE  Hash[Name[k]] \in Nat /\ BucketIn(n, k) \in 0..(n - 1) /\ BucketIn(n, k) = Hash[Name[k]] % n
<1>1. Hash[Name[k]] \in Nat
  BY HashTableAssumption DEF Names
<1> QED  BY <1>1 DEF BucketIn

\* Two slots with one name are one.
LEMMA OneSlot ==
  ASSUME NEW n \in Nat, NEW T, Chained(T, n), NEW b \in 0..(n - 1), NEW c \in 0..(n - 1),
         NEW i \in 1..Len(T[b]), NEW j \in 1..Len(T[c]), Name[T[b][i].key] = Name[T[c][j].key]
  PROVE  b = c /\ i = j
<1>1. BucketIn(n, T[b][i].key) = b /\ BucketIn(n, T[c][j].key) = c
  BY DEF Chained
<1>2. b = c
  BY <1>1 DEF BucketIn
<1> QED  BY <1>2 DEF Chained

\* The places of the slots are finitely many, one for each key.
LEMMA PlacesAre ==
  ASSUME hSize \in Nat, Chained(hTable, hSize)
  PROVE  /\ IsFiniteSet(Places)
         /\ \A p \in Places : /\ p[1] \in Buckets /\ p[2] \in 1..Len(hTable[p[1]]) /\ p = <<p[1], p[2]>>
                              /\ p[1] \in Int /\ p[2] \in Int /\ SlotAt(p) \in Slots
         /\ \A b \in Buckets : \A i \in 1..Len(hTable[b]) : <<b, i>> \in Places /\ SlotAt(<<b, i>>) = hTable[b][i]
         /\ \A p \in Places : \A q \in Places : Name[SlotAt(p).key] = Name[SlotAt(q).key] => p = q
<1>1. \A b \in Buckets : DOMAIN hTable[b] = 1..Len(hTable[b])
  BY ChainIs DEF Buckets
<1>2. \A p \in Places : p[1] \in Buckets /\ p[2] \in 1..Len(hTable[p[1]]) /\ p = <<p[1], p[2]>>
  <2> SUFFICES ASSUME NEW p \in Places
               PROVE p[1] \in Buckets /\ p[2] \in 1..Len(hTable[p[1]]) /\ p = <<p[1], p[2]>>
    OBVIOUS
  <2>1. PICK b \in Buckets : p \in {b} \X DOMAIN hTable[b]
    BY DEF Places
  <2> QED  BY <1>1, <2>1
<1>3. \A p \in Places : p[1] \in Int /\ p[2] \in Int /\ SlotAt(p) \in Slots
  <2> SUFFICES ASSUME NEW p \in Places PROVE p[1] \in Int /\ p[2] \in Int /\ SlotAt(p) \in Slots
    OBVIOUS
  <2>1. p[1] \in 0..(hSize - 1) /\ p[2] \in 1..Len(hTable[p[1]])
    BY <1>2 DEF Buckets
  <2> QED  BY <2>1, ChainIs DEF SlotAt
<1>4. ASSUME NEW b \in Buckets, NEW i \in 1..Len(hTable[b])
      PROVE <<b, i>> \in Places /\ SlotAt(<<b, i>>) = hTable[b][i]
  <2>1. <<b, i>> \in {b} \X DOMAIN hTable[b]
    BY <1>1
  <2> QED  BY <2>1 DEF Places, SlotAt
<1>5. ASSUME NEW p \in Places, NEW q \in Places, Name[SlotAt(p).key] = Name[SlotAt(q).key] PROVE p = q
  <2>1. /\ p[1] \in 0..(hSize - 1) /\ p[2] \in 1..Len(hTable[p[1]])
        /\ q[1] \in 0..(hSize - 1) /\ q[2] \in 1..Len(hTable[q[1]])
    BY <1>2 DEF Buckets
  <2>2. Name[hTable[p[1]][p[2]].key] = Name[hTable[q[1]][q[2]].key]
    BY <1>5 DEF SlotAt
  <2> DEFINE b == p[1]
             c == q[1]
             i == p[2]
             j == q[2]
  <2>3. b = c /\ i = j
    <3>1. /\ b \in 0..(hSize - 1) /\ c \in 0..(hSize - 1)
          /\ i \in 1..Len(hTable[b]) /\ j \in 1..Len(hTable[c])
          /\ Name[hTable[b][i].key] = Name[hTable[c][j].key]
      BY <2>1, <2>2
    <3> HIDE DEF b, c, i, j
    <3> QED  BY <3>1, OneSlot, SMTT(30)
  <2> QED  BY <1>2, <2>3
<1>6. IsFiniteSet(Places)
  <2> DEFINE f == [p \in Places |-> SlotAt(p).key]
  <2>1. \A p \in Places : SlotAt(p).key \in Keys
    BY <1>3 DEF Slots
  <2>2. f \in [Places -> Keys]
    BY <2>1
  <2>3. \A p, q \in Places : f[p] = f[q] => p = q
    BY <1>5
  <2> HIDE DEF f
  <2>4. f \in Injection(Places, Keys)
    BY <2>2, <2>3 DEF Injection, IsInjective
  <2> QED  BY <2>4, FS_Injection, HashTableAssumption
<1> QED  BY <1>2, <1>3, <1>4, <1>5, <1>6

\* The slots at some places, as a chain.
LEMMA ChainOf ==
  ASSUME hSize \in Nat, Chained(hTable, hSize), NEW P \in SUBSET Places
  PROVE  /\ SlotsOf(P) \in Seq(Slots)
         /\ \A i \in 1..Len(SlotsOf(P)) : Nth(P, i) \in P /\ SlotsOf(P)[i] = SlotAt(Nth(P, i))
         /\ \A p \in P : \E i \in 1..Len(SlotsOf(P)) : Nth(P, i) = p
         /\ \A i, j \in 1..Len(SlotsOf(P)) : i < j <=> Sooner(Nth(P, i), Nth(P, j))
         /\ \A i, j \in 1..Len(SlotsOf(P)) : Name[SlotsOf(P)[i].key] = Name[SlotsOf(P)[j].key] => i = j
<1> DEFINE n == Cardinality(P)
           c == SlotsOf(P)
<1>1. IsFiniteSet(P) /\ \A p \in P : /\ p[1] \in Int /\ p[2] \in Int /\ p = <<p[1], p[2]>>
                                     /\ SlotAt(p) \in Slots
  BY PlacesAre, FS_Subset
<1>2. /\ n \in Nat /\ \A k \in 1..n : Nth(P, k) \in P
      /\ \A k, l \in 1..n : k < l <=> Sooner(Nth(P, k), Nth(P, l))
      /\ \A p \in P : \E k \in 1..n : Nth(P, k) = p
  BY <1>1, InTheirOrder
<1>3. c = [k \in 1..n |-> SlotAt(Nth(P, k))]
  BY DEF SlotsOf
<1> HIDE DEF n, c
<1>4. \A k \in 1..n : SlotAt(Nth(P, k)) \in Slots
  BY <1>1, <1>2
<1>5. c \in Seq(Slots) /\ Len(c) = n /\ \A k \in 1..n : c[k] = SlotAt(Nth(P, k))
  <2>1. c \in [1..n -> Slots] /\ \A k \in 1..n : c[k] = SlotAt(Nth(P, k))
    BY <1>3, <1>4
  <2> QED  BY <1>2, <2>1
<1>6. ASSUME NEW i \in 1..n, NEW j \in 1..n, Name[c[i].key] = Name[c[j].key] PROVE i = j
  <2>1. Nth(P, i) \in Places /\ Nth(P, j) \in Places /\ c[i] = SlotAt(Nth(P, i)) /\ c[j] = SlotAt(Nth(P, j))
    BY <1>2, <1>5
  <2>2. Nth(P, i) = Nth(P, j)
    BY <1>6, <2>1, PlacesAre
  <2>3. Nth(P, i) \in P
    BY <1>2
  <2>4. ~Sooner(Nth(P, i), Nth(P, j)) /\ ~Sooner(Nth(P, j), Nth(P, i))
    BY <1>1, <2>2, <2>3 DEF Sooner
  <2>5. ~(i < j) /\ ~(j < i)
    BY <1>2, <2>4
  <2> QED  BY <1>2, <2>5
<1> QED  BY <1>2, <1>5, <1>6 DEF c

\* do_rehash leaves every slot that stays in the chain of its new bucket.
LEMMA RehashedIs ==
  ASSUME hSize \in Nat, Chained(hTable, hSize), NEW size \in Nat, size > 0, NEW gone
  PROVE  /\ Chained(Rehashed(size, gone), size)
         /\ StoredIn(Rehashed(size, gone), size) = {s \in StoredIn(hTable, hSize) : s.key \notin gone}
<1> DEFINE P(b) == {p \in Places : SlotAt(p).key \notin gone /\ BucketIn(size, SlotAt(p).key) = b}
           c(b) == SlotsOf(P(b))
           T == Rehashed(size, gone)
<1>1. T = [b \in 0..(size - 1) |-> Reverse(c(b))]
  BY DEF Rehashed
<1>2. \A b : /\ P(b) \in SUBSET Places
             /\ \A p \in P(b) : SlotAt(p).key \notin gone /\ BucketIn(size, SlotAt(p).key) = b
  OBVIOUS
<1>3. \A b : \A p \in Places : SlotAt(p).key \notin gone /\ BucketIn(size, SlotAt(p).key) = b => p \in P(b)
  OBVIOUS
<1> HIDE DEF P, T
<1>4. \A b : /\ c(b) \in Seq(Slots)
             /\ \A i \in 1..Len(c(b)) : Nth(P(b), i) \in P(b) /\ c(b)[i] = SlotAt(Nth(P(b), i))
             /\ \A p \in P(b) : \E i \in 1..Len(c(b)) : Nth(P(b), i) = p
             /\ \A i, j \in 1..Len(c(b)) : Name[c(b)[i].key] = Name[c(b)[j].key] => i = j
  BY <1>2, ChainOf
<1> HIDE DEF c
<1>5. ASSUME NEW b \in 0..(size - 1)
      PROVE  /\ T[b] \in Seq(Slots) /\ Len(T[b]) = Len(c(b)) /\ Len(c(b)) \in Nat
             /\ \A i \in 1..Len(c(b)) : T[b][i] = c(b)[Len(c(b)) - i + 1]
  <2>1. T[b] = Reverse(c(b)) /\ c(b) \in Seq(Slots)
    BY <1>1, <1>4
  <2> QED  BY <2>1 DEF Reverse
<1>6. T \in [0..(size - 1) -> Seq(Slots)]
  <2>1. DOMAIN T = 0..(size - 1) /\ T = [b \in DOMAIN T |-> T[b]]
    BY <1>1
  <2> QED  BY <1>5, <2>1
<1>7. ASSUME NEW b \in 0..(size - 1), NEW i \in 1..Len(T[b])
      PROVE  \E p \in P(b) : T[b][i] = SlotAt(p)
  <2>1. Len(c(b)) - i + 1 \in 1..Len(c(b)) /\ T[b][i] = c(b)[Len(c(b)) - i + 1]
    <3>1. i \in 1..Len(c(b)) /\ Len(c(b)) \in Nat
      BY <1>5, Zenon
    <3>2. Len(c(b)) - i + 1 \in 1..Len(c(b))
      BY <3>1
    <3> QED  BY <1>5, <3>1, <3>2
  <2> QED  BY <1>4, <2>1
<1>8. ASSUME NEW b \in 0..(size - 1), NEW p \in P(b)
      PROVE  \E i \in 1..Len(T[b]) : T[b][i] = SlotAt(p)
  <2>1. PICK j \in 1..Len(c(b)) : Nth(P(b), j) = p
    BY <1>4
  <2>2. Len(c(b)) - j + 1 \in 1..Len(T[b]) /\ T[b][Len(c(b)) - j + 1] = c(b)[j]
    <3>1. Len(c(b)) - j + 1 \in 1..Len(c(b)) /\ Len(c(b)) - (Len(c(b)) - j + 1) + 1 = j /\ Len(T[b]) = Len(c(b))
      BY <1>5
    <3> QED  BY <1>5, <3>1
  <2> QED  BY <1>4, <2>1, <2>2
<1>9. ASSUME NEW b \in 0..(size - 1), NEW i \in 1..Len(T[b]), NEW j \in 1..Len(T[b]),
             Name[T[b][i].key] = Name[T[b][j].key]
      PROVE  i = j
  <2> DEFINE k == Len(c(b)) - i + 1
             l == Len(c(b)) - j + 1
  <2>1. /\ k \in 1..Len(c(b)) /\ l \in 1..Len(c(b)) /\ (k = l => i = j)
        /\ T[b][i] = c(b)[k] /\ T[b][j] = c(b)[l]
    BY <1>5
  <2> HIDE DEF k, l
  <2> QED  BY <1>4, <1>9, <2>1
<1>10. Chained(T, size)
  <2>1. \A b \in 0..(size - 1) : \A i \in 1..Len(T[b]) : BucketIn(size, T[b][i].key) = b
    BY <1>2, <1>7
  <2> QED  BY <1>6, <1>9, <2>1 DEF Chained
<1>11. ASSUME NEW s PROVE s \in StoredIn(T, size) <=> s \in StoredIn(hTable, hSize) /\ s.key \notin gone
  <2>1. ASSUME s \in StoredIn(T, size) PROVE s \in StoredIn(hTable, hSize) /\ s.key \notin gone
    <3>1. PICK b \in 0..(size - 1) : \E i \in 1..Len(T[b]) : s = T[b][i]
      BY <1>10, <2>1, StoredIs
    <3>2. PICK p \in P(b) : s = SlotAt(p)
      BY <1>7, <3>1
    <3>3. p \in Places /\ s.key \notin gone
      BY <1>2, <3>2
    <3>4. p[1] \in 0..(hSize - 1) /\ p[2] \in 1..Len(hTable[p[1]]) /\ s = hTable[p[1]][p[2]]
      BY <3>2, <3>3, PlacesAre DEF Buckets, SlotAt
    <3> QED  BY <3>3, <3>4, StoredIs
  <2>2. ASSUME s \in StoredIn(hTable, hSize), s.key \notin gone PROVE s \in StoredIn(T, size)
    <3>0. PICK b \in 0..(hSize - 1) : \E i \in 1..Len(hTable[b]) : s = hTable[b][i]
      BY <2>2, StoredIs
    <3>1. PICK i \in 1..Len(hTable[b]) : s = hTable[b][i]
      BY <3>0
    <3>2. <<b, i>> \in Places /\ SlotAt(<<b, i>>) = s /\ s.key \in Keys
      BY <3>1, PlacesAre, ChainIs DEF Buckets
    <3> DEFINE d == BucketIn(size, s.key)
    <3>3. d \in 0..(size - 1)
      BY <3>2, HashOf
    <3>4. <<b, i>> \in P(d)
      BY <1>3, <2>2, <3>2
    <3> HIDE DEF d
    <3>5. \E j \in 1..Len(T[d]) : T[d][j] = s
      BY <1>8, <3>2, <3>3, <3>4
    <3> QED  BY <1>10, <3>3, <3>5, StoredIs
  <2> QED  BY <2>1, <2>2
<1>12. StoredIn(T, size) = {s \in StoredIn(hTable, hSize) : s.key \notin gone}
  BY <1>11
<1> QED  BY <1>10, <1>12 DEF T

\* Without the slots that leave, the others stay in their chains, in their order.
LEMMA WithoutIs ==
  ASSUME hSize \in Nat, Chained(hTable, hSize), NEW gone
  PROVE  /\ Chained(Without(gone), hSize)
         /\ StoredIn(Without(gone), hSize) = {s \in StoredIn(hTable, hSize) : s.key \notin gone}
         /\ \A b \in Buckets : \A i, j \in 1..Len(Without(gone)[b]) : \A k, l \in 1..Len(hTable[b]) :
              Without(gone)[b][i] = hTable[b][k] /\ Without(gone)[b][j] = hTable[b][l] => (i <= j <=> k <= l)
<1> DEFINE P(b) == {p \in Places : p[1] = b /\ SlotAt(p).key \notin gone}
           T == Without(gone)
<1>1. T = [b \in Buckets |-> SlotsOf(P(b))]
  BY DEF Without
<1>2. \A b : P(b) \in SUBSET Places /\ \A p \in P(b) : p[1] = b /\ SlotAt(p).key \notin gone
  OBVIOUS
<1>3. \A b : \A p \in Places : p[1] = b /\ SlotAt(p).key \notin gone => p \in P(b)
  OBVIOUS
<1> HIDE DEF P, T
<1>4. ASSUME NEW b \in Buckets
      PROVE  /\ T[b] \in Seq(Slots)
             /\ \A i \in 1..Len(T[b]) : Nth(P(b), i) \in P(b) /\ T[b][i] = SlotAt(Nth(P(b), i))
             /\ \A p \in P(b) : \E i \in 1..Len(T[b]) : Nth(P(b), i) = p
             /\ \A i, j \in 1..Len(T[b]) : i < j <=> Sooner(Nth(P(b), i), Nth(P(b), j))
             /\ \A i, j \in 1..Len(T[b]) : Name[T[b][i].key] = Name[T[b][j].key] => i = j
  <2>1. T[b] = SlotsOf(P(b))
    BY <1>1
  <2> QED  BY <1>2, <2>1, ChainOf
<1>5. T \in [Buckets -> Seq(Slots)]
  <2>1. DOMAIN T = Buckets /\ T = [b \in DOMAIN T |-> T[b]]
    BY <1>1
  <2> QED  BY <1>4, <2>1
<1>6. ASSUME NEW b \in Buckets, NEW i \in 1..Len(T[b])
      PROVE  \E k \in 1..Len(hTable[b]) : /\ Nth(P(b), i) = <<b, k>> /\ T[b][i] = hTable[b][k]
                                          /\ T[b][i].key \notin gone
  <2> DEFINE p == Nth(P(b), i)
  <2>1. p \in Places /\ p[1] = b /\ SlotAt(p).key \notin gone /\ T[b][i] = SlotAt(p)
    BY <1>2, <1>4
  <2> HIDE DEF p
  <2>2. p[2] \in 1..Len(hTable[b]) /\ p = <<b, p[2]>>
    BY <2>1, PlacesAre
  <2> QED  BY <2>1, <2>2 DEF SlotAt, p
<1>7. ASSUME NEW b \in Buckets, NEW k \in 1..Len(hTable[b]), hTable[b][k].key \notin gone
      PROVE  \E i \in 1..Len(T[b]) : T[b][i] = hTable[b][k]
  <2>1. <<b, k>> \in Places /\ SlotAt(<<b, k>>) = hTable[b][k]
    BY PlacesAre
  <2>2. <<b, k>> \in P(b)
    BY <1>3, <1>7, <2>1
  <2> QED  BY <1>4, <2>1, <2>2
<1>8. Chained(T, hSize)
  <2>1. ASSUME NEW b \in Buckets, NEW i \in 1..Len(T[b]) PROVE BucketIn(hSize, T[b][i].key) = b
    <3>1. PICK k \in 1..Len(hTable[b]) : T[b][i] = hTable[b][k]
      BY <1>6
    <3>2. b \in 0..(hSize - 1) /\ BucketIn(hSize, hTable[b][k].key) = b
      BY ChainIs DEF Buckets
    <3> QED  BY <3>1, <3>2
  <2> QED  BY <1>4, <1>5, <2>1 DEF Chained, Buckets
<1>9. ASSUME NEW s PROVE s \in StoredIn(T, hSize) <=> s \in StoredIn(hTable, hSize) /\ s.key \notin gone
  <2>1. ASSUME s \in StoredIn(T, hSize) PROVE s \in StoredIn(hTable, hSize) /\ s.key \notin gone
    <3>s. s \in StoredIn(T, hSize) <=> \E b \in 0..(hSize - 1) : \E i \in 1..Len(T[b]) : s = T[b][i]
      <4> DEFINE m == hSize
      <4>1. m \in Nat /\ Chained(T, m)
        BY <1>8
      <4> HIDE DEF m
      <4>2. s \in StoredIn(T, m) <=> \E b \in 0..(m - 1) : \E i \in 1..Len(T[b]) : s = T[b][i]
        BY <4>1, StoredIs
      <4> QED  BY <4>2 DEF m
    <3>0. \E b \in 0..(hSize - 1) : \E i \in 1..Len(T[b]) : s = T[b][i]
      BY <2>1, <3>s, Zenon
    <3>1. PICK b \in Buckets : \E i \in 1..Len(T[b]) : s = T[b][i]
      BY <3>0, Zenon DEF Buckets
    <3>2. PICK k \in 1..Len(hTable[b]) : s = hTable[b][k] /\ s.key \notin gone
      BY <1>6, <3>1
    <3> QED  BY <3>2, StoredIs DEF Buckets
  <2>2. ASSUME s \in StoredIn(hTable, hSize), s.key \notin gone PROVE s \in StoredIn(T, hSize)
    <3>0. PICK b \in Buckets : \E i \in 1..Len(hTable[b]) : s = hTable[b][i]
      BY <2>2, StoredIs DEF Buckets
    <3>1. PICK i \in 1..Len(hTable[b]) : s = hTable[b][i]
      BY <3>0
    <3>2. \E j \in 1..Len(T[b]) : s = T[b][j]
      BY <1>7, <2>2, <3>1
    <3> QED  BY <1>8, <3>2, StoredIs DEF Buckets
  <2> QED  BY <2>1, <2>2
<1>10. StoredIn(T, hSize) = {s \in StoredIn(hTable, hSize) : s.key \notin gone}
  BY <1>9
<1>11. ASSUME NEW b \in Buckets, NEW i \in 1..Len(T[b]), NEW j \in 1..Len(T[b]),
              NEW k \in 1..Len(hTable[b]), NEW l \in 1..Len(hTable[b]), T[b][i] = hTable[b][k], T[b][j] = hTable[b][l]
       PROVE  i <= j <=> k <= l
  <2>1. PICK m \in 1..Len(hTable[b]) : Nth(P(b), i) = <<b, m>> /\ T[b][i] = hTable[b][m]
    BY <1>6
  <2>2. PICK n \in 1..Len(hTable[b]) : Nth(P(b), j) = <<b, n>> /\ T[b][j] = hTable[b][n]
    BY <1>6
  <2>3. m = k /\ n = l
    <3>1. b \in 0..(hSize - 1)
      BY DEF Buckets
    <3> QED  BY <1>11, <2>1, <2>2, <3>1 DEF Chained
  <2>0. b \in Int
    BY DEF Buckets
  <2>4. j < i <=> Sooner(Nth(P(b), j), Nth(P(b), i))
    <3>1. \A m_1, m_2 \in 1..Len(T[b]) : m_1 < m_2 <=> Sooner(Nth(P(b), m_1), Nth(P(b), m_2))
      BY <1>4
    <3> QED  BY <3>1, Zenon
  <2>5. j < i <=> l < k
    BY <2>0, <2>1, <2>2, <2>3, <2>4 DEF Sooner
  <2>6. i \in Int /\ j \in Int /\ k \in Int /\ l \in Int
    BY <1>4, ChainIs DEF Buckets
  <2> QED  BY <2>5, <2>6
<1>12. Chained(T, hSize) /\ StoredIn(T, hSize) = {s \in StoredIn(hTable, hSize) : s.key \notin gone}
  BY <1>8, <1>10
<1>13. \A b \in Buckets : \A i, j \in 1..Len(T[b]) : \A k, l \in 1..Len(hTable[b]) :
         T[b][i] = hTable[b][k] /\ T[b][j] = hTable[b][l] => (i <= j <=> k <= l)
  BY <1>11, SMTT(30)
<1> QED  BY <1>12, <1>13 DEF T

\* A search of a chain ends at a slot of the name, or the chain has none.
LEMMA PlaceIs ==
  ASSUME NEW chain \in Seq(Slots), NEW m
  PROVE  \/ PlaceIn(chain, m) = 0 /\ \A i \in 1..Len(chain) : Name[chain[i].key] # m
         \/ PlaceIn(chain, m) \in 1..Len(chain) /\ PlaceIn(chain, m) # 0 /\ Name[chain[PlaceIn(chain, m)].key] = m
<1> DEFINE at == {i \in DOMAIN chain : Name[chain[i].key] = m}
<1>1. DOMAIN chain = 1..Len(chain) /\ Len(chain) \in Nat
  OBVIOUS
<1>2. PlaceIn(chain, m) = IF at = {} THEN 0 ELSE CHOOSE i \in at : \A j \in at : i <= j
  BY DEF PlaceIn
<1>3. \A i : i \in at <=> i \in 1..Len(chain) /\ Name[chain[i].key] = m
  BY <1>1
<1> HIDE DEF at
<1>4. CASE at = {}
  BY <1>2, <1>3, <1>4
<1>5. CASE at # {}
  <2>1. at \subseteq Nat
    BY <1>1, <1>3
  <2>2. \E i \in at : \A j \in at : i <= j
    BY <1>5, <2>1, LeastNumber
  <2>3. PlaceIn(chain, m) \in at
    BY <1>2, <1>5, <2>2, Zenon
  <2> QED  BY <1>1, <1>3, <2>3
<1> QED  BY <1>4, <1>5

\* The slot of a name, where there is one, is the one that a lookup finds.
LEMMA FoundIs ==
  ASSUME NEW n \in Nat, n > 0, NEW T, Chained(T, n), NEW k \in Keys
  PROVE  LET b == BucketIn(n, k)
             i == PlaceIn(T[b], Name[k])
         IN  /\ b \in 0..(n - 1)
             /\ i = 0 => \A s \in StoredIn(T, n) : Name[s.key] # Name[k]
             /\ i # 0 => i \in 1..Len(T[b]) /\ T[b][i] \in StoredIn(T, n) /\ Name[T[b][i].key] = Name[k]
<1> DEFINE b == BucketIn(n, k)
           i == PlaceIn(T[b], Name[k])
<1>1. b \in 0..(n - 1)
  BY HashOf
<1> HIDE DEF b
<1>2. T[b] \in Seq(Slots)
  BY <1>1, ChainIs
<1>3. ASSUME i = 0, NEW s \in StoredIn(T, n) PROVE Name[s.key] # Name[k]
  <2>1. PICK c \in 0..(n - 1) : \E j \in 1..Len(T[c]) : s = T[c][j]
    BY StoredIs
  <2>2. PICK j \in 1..Len(T[c]) : s = T[c][j]
    BY <2>1
  <2>3. BucketIn(n, s.key) = c
    BY <2>2, ChainIs
  <2>4. Name[s.key] = Name[k] => c = b
    BY <2>3 DEF BucketIn, b
  <2>5. \A l \in 1..Len(T[b]) : Name[T[b][l].key] # Name[k]
    BY <1>2, <1>3, PlaceIs
  <2> QED  BY <2>2, <2>4, <2>5
<1>4. ASSUME i # 0 PROVE i \in 1..Len(T[b]) /\ T[b][i] \in StoredIn(T, n) /\ Name[T[b][i].key] = Name[k]
  <2>1. i \in 1..Len(T[b]) /\ Name[T[b][i].key] = Name[k]
    BY <1>2, <1>4, PlaceIs
  <2> HIDE DEF i
  <2> QED  BY <1>1, <2>1, StoredIs
<1> QED  BY <1>1, <1>3, <1>4 DEF b

\* The slots of one hash are those of one chain.
LEMMA InTheirChain ==
  ASSUME NEW n \in Nat, NEW T, Chained(T, n), NEW b \in 0..(n - 1), NEW s
  PROVE  s \in StoredIn(T, n) /\ BucketIn(n, s.key) = b <=> \E i \in 1..Len(T[b]) : s = T[b][i]
<1>1. ASSUME s \in StoredIn(T, n), BucketIn(n, s.key) = b PROVE \E i \in 1..Len(T[b]) : s = T[b][i]
  <2>1. PICK c \in 0..(n - 1) : \E i \in 1..Len(T[c]) : s = T[c][i]
    BY <1>1, StoredIs
  <2>2. PICK i \in 1..Len(T[c]) : s = T[c][i]
    BY <2>1
  <2>3. c = b
    BY <1>1, <2>2, ChainIs
  <2> QED  BY <2>2, <2>3
<1>2. ASSUME NEW i \in 1..Len(T[b]), s = T[b][i] PROVE s \in StoredIn(T, n) /\ BucketIn(n, s.key) = b
  BY <1>2, StoredIs, ChainIs
<1> QED  BY <1>1, <1>2

\* A function with another value at one argument.
LEMMA PutAt ==
  ASSUME NEW B, NEW C, NEW T \in [B -> C], NEW b \in B, NEW w \in C
  PROVE  /\ [T EXCEPT ![b] = w] \in [B -> C] /\ [T EXCEPT ![b] = w][b] = w
         /\ \A c \in B : c # b => [T EXCEPT ![b] = w][c] = T[c]
OBVIOUS

\* A sequence with one more element in front.
LEMMA InFront ==
  ASSUME NEW S, NEW s \in S, NEW v \in Seq(S)
  PROVE  /\ <<s>> \o v \in Seq(S) /\ Len(<<s>> \o v) = Len(v) + 1 /\ (<<s>> \o v)[1] = s
         /\ \A i \in 1..Len(<<s>> \o v) : i # 1 => i - 1 \in 1..Len(v) /\ (<<s>> \o v)[i] = v[i - 1]
         /\ \A i \in 1..Len(v) : i + 1 \in 1..Len(<<s>> \o v) /\ (<<s>> \o v)[i + 1] = v[i]
<1>1. Len(v) \in Nat /\ Len(<<s>> \o v) = Len(v) + 1
  OBVIOUS
<1>2. ASSUME NEW i \in 1..(Len(v) + 1), i # 1 PROVE (<<s>> \o v)[i] = v[i - 1] /\ i - 1 \in 1..Len(v)
  BY <1>1, <1>2
<1>3. ASSUME NEW i \in 1..Len(v) PROVE i + 1 \in 1..(Len(v) + 1) /\ (<<s>> \o v)[i + 1] = v[i]
  BY <1>1, <1>3
<1>4. <<s>> \o v \in Seq(S) /\ (<<s>> \o v)[1] = s
  BY <1>1
<1> QED  BY <1>1, <1>2, <1>3, <1>4

\* A chain of slots of one hash, each name in one slot.
ChainFor(w, n, b) ==
  /\ \A i \in 1..Len(w) : BucketIn(n, w[i].key) = b
  /\ \A i, j \in 1..Len(w) : Name[w[i].key] = Name[w[j].key] => i = j

\* U is T with another chain of bucket b.
OtherChain(U, T, n, b) ==
  /\ U \in [0..(n - 1) -> Seq(Slots)] /\ ChainFor(U[b], n, b)
  /\ \A c \in 0..(n - 1) : c # b => U[c] = T[c]

\* U is a table of T's slots outside of bucket b, and of those in the chain it has there.
Rechain(U, T, n, b) ==
  /\ Chained(U, n)
  /\ \A s : s \in StoredIn(U, n) <=> \/ s \in StoredIn(T, n) /\ BucketIn(n, s.key) # b
                                     \/ \E i \in 1..Len(U[b]) : s = U[b][i]

LEMMA Rechained ==
  ASSUME NEW n \in Nat, NEW T, Chained(T, n), NEW b \in 0..(n - 1), NEW U, OtherChain(U, T, n, b)
  PROVE  Rechain(U, T, n, b)
<1>1. Chained(U, n)
  <2>1. ASSUME NEW c \in 0..(n - 1) PROVE \A i \in 1..Len(U[c]) : BucketIn(n, U[c][i].key) = c
    <3>1. CASE c = b
      BY <3>1 DEF ChainFor, OtherChain
    <3>2. CASE c # b
      BY <3>2 DEF Chained, OtherChain
    <3> QED  BY <3>1, <3>2
  <2>2. ASSUME NEW c \in 0..(n - 1)
        PROVE  \A i, j \in 1..Len(U[c]) : Name[U[c][i].key] = Name[U[c][j].key] => i = j
    <3>1. CASE c = b
      BY <3>1 DEF ChainFor, OtherChain
    <3>2. CASE c # b
      BY <3>2 DEF Chained, OtherChain
    <3> QED  BY <3>1, <3>2
  <2> QED  BY <2>1, <2>2, Zenon DEF Chained, OtherChain
<1>2. ASSUME NEW s
      PROVE  s \in StoredIn(U, n) <=> \/ s \in StoredIn(T, n) /\ BucketIn(n, s.key) # b
                                      \/ \E i \in 1..Len(U[b]) : s = U[b][i]
  <2>1. ASSUME s \in StoredIn(U, n), BucketIn(n, s.key) # b PROVE s \in StoredIn(T, n)
    <3>0. s \in StoredIn(U, n) <=> \E c \in 0..(n - 1) : \E i \in 1..Len(U[c]) : s = U[c][i]
      BY <1>1, StoredIs
    <3>1. PICK c \in 0..(n - 1) : \E i \in 1..Len(U[c]) : s = U[c][i]
      BY <2>1, <3>0, Zenon
    <3>2. PICK i \in 1..Len(U[c]) : s = U[c][i]
      BY <3>1
    <3>3. c # b
      BY <1>1, <2>1, <3>2, ChainIs
    <3>4. U[c] = T[c]
      BY <3>3 DEF OtherChain
    <3> QED  BY <3>2, <3>4, StoredIs
  <2>2. ASSUME s \in StoredIn(T, n), BucketIn(n, s.key) # b PROVE s \in StoredIn(U, n)
    <3>0. s \in StoredIn(T, n) <=> \E c \in 0..(n - 1) : \E i \in 1..Len(T[c]) : s = T[c][i]
      BY StoredIs
    <3>1. PICK c \in 0..(n - 1) : \E i \in 1..Len(T[c]) : s = T[c][i]
      BY <2>2, <3>0, Zenon
    <3>2. PICK i \in 1..Len(T[c]) : s = T[c][i]
      BY <3>1
    <3>3. c # b
      BY <2>2, <3>2, ChainIs
    <3>4. U[c] = T[c]
      BY <3>3 DEF OtherChain
    <3> QED  BY <1>1, <3>2, <3>4, StoredIs
  <2>3. ASSUME s \in StoredIn(U, n), BucketIn(n, s.key) = b PROVE \E i \in 1..Len(U[b]) : s = U[b][i]
    <3>1. PICK c \in 0..(n - 1) : \E i \in 1..Len(U[c]) : s = U[c][i]
      BY <1>1, <2>3, StoredIs
    <3>2. PICK i \in 1..Len(U[c]) : s = U[c][i]
      BY <3>1
    <3>3. c = b
      BY <1>1, <2>3, <3>2, ChainIs
    <3> QED  BY <3>2, <3>3
  <2>4. ASSUME NEW i \in 1..Len(U[b]), s = U[b][i] PROVE s \in StoredIn(U, n)
    BY <1>1, <2>4, StoredIs
  <2> QED  BY <2>1, <2>2, <2>3, <2>4, Zenon
<1> QED  BY <1>1, <1>2 DEF Rechain

\* A slot for a new name goes in front of its chain.
LEMMA Fronted ==
  ASSUME NEW n \in Nat, n > 0, NEW T, Chained(T, n), NEW s \in Slots,
         \A t \in StoredIn(T, n) : Name[t.key] # Name[s.key]
  PROVE  LET b == BucketIn(n, s.key)
             U == [T EXCEPT ![b] = <<s>> \o T[b]]
         IN  Chained(U, n) /\ StoredIn(U, n) = StoredIn(T, n) \cup {s}
<1> DEFINE b == BucketIn(n, s.key)
           v == T[b]
           w == <<s>> \o v
           U == [T EXCEPT ![b] = w]
<1>1. s.key \in Keys /\ b \in 0..(n - 1)
  BY HashOf DEF Slots
<1>2. \A i \in 1..Len(T[b]) : BucketIn(n, T[b][i].key) = b /\ Name[T[b][i].key] # Name[s.key]
  <2> HIDE DEF b
  <2>1. \A i \in 1..Len(T[b]) : T[b][i] \in StoredIn(T, n)
    BY <1>1, InTheirChain
  <2> QED  BY <1>1, <2>1, ChainIs
<1>3. \A i, j \in 1..Len(T[b]) : Name[T[b][i].key] = Name[T[b][j].key] => i = j
  BY <1>1 DEF Chained
<1>4. BucketIn(n, s.key) = b
  OBVIOUS
<1> HIDE DEF b
<1>5. v \in Seq(Slots) /\ Len(v) \in Nat /\ v = T[b]
  BY <1>1, ChainIs
<1> HIDE DEF v
<1>6. /\ w \in Seq(Slots) /\ Len(w) = Len(v) + 1 /\ w[1] = s
      /\ \A i \in 1..Len(w) : i # 1 => i - 1 \in 1..Len(v) /\ w[i] = v[i - 1]
      /\ \A i \in 1..Len(v) : i + 1 \in 1..Len(w) /\ w[i + 1] = v[i]
  BY <1>5, InFront
<1> HIDE DEF w
<1>0. /\ U \in [0..(n - 1) -> Seq(Slots)] /\ U[b] = w
      /\ \A c \in 0..(n - 1) : c # b => U[c] = T[c]
  BY <1>1, <1>6, PutAt DEF Chained
<1> HIDE DEF U
<1>7. \A i \in 1..Len(w) : BucketIn(n, w[i].key) = b
  <2>1. \A i \in 1..Len(v) : BucketIn(n, v[i].key) = b
    BY <1>2, <1>5
  <2>2. \A i \in 1..Len(w) : w[i] = s \/ \E k \in 1..Len(v) : w[i] = v[k]
    BY <1>6
  <2> QED  BY <1>4, <2>1, <2>2
<1>8. \A i, j \in 1..Len(w) : Name[w[i].key] = Name[w[j].key] => i = j
  <2> SUFFICES ASSUME NEW i \in 1..Len(w), NEW j \in 1..Len(w), Name[w[i].key] = Name[w[j].key] PROVE i = j
    OBVIOUS
  <2>0. \A k \in 1..Len(v) : Name[v[k].key] # Name[s.key]
    BY <1>2, <1>5
  <2>1. \A k \in 1..Len(w) : k # 1 => Name[w[k].key] # Name[s.key]
    BY <1>6, <2>0, SMTT(30)
  <2>2. i = 1 <=> j = 1
    BY <1>6, <2>1
  <2>3. CASE i # 1 /\ j # 1
    <3>1. /\ i - 1 \in 1..Len(v) /\ j - 1 \in 1..Len(v)
          /\ Name[v[i - 1].key] = Name[v[j - 1].key]
      BY <1>6, <2>3
    <3>2. i - 1 = j - 1
      BY <1>3, <1>5, <3>1
    <3> QED  BY <1>5, <1>6, <3>2
  <2> QED  BY <2>2, <2>3
<1>9. /\ Chained(U, n)
      /\ \A t : t \in StoredIn(U, n) <=> \/ t \in StoredIn(T, n) /\ BucketIn(n, t.key) # b
                                         \/ \E i \in 1..Len(w) : t = w[i]
  <2>1. OtherChain(U, T, n, b)
    BY <1>0, <1>7, <1>8 DEF ChainFor, OtherChain
  <2>a. Rechain(U, T, n, b)
    BY <1>1, <2>1, Rechained
  <2>2. /\ Chained(U, n)
        /\ \A t : t \in StoredIn(U, n) <=> \/ t \in StoredIn(T, n) /\ BucketIn(n, t.key) # b
                                           \/ \E i \in 1..Len(U[b]) : t = U[b][i]
    BY <2>a DEF Rechain
  <2> QED  BY <1>0, <2>2
<1>10. ASSUME NEW t PROVE t \in StoredIn(U, n) <=> t \in StoredIn(T, n) \/ t = s
  <2>1. t \in StoredIn(T, n) /\ BucketIn(n, t.key) = b <=> \E i \in 1..Len(T[b]) : t = T[b][i]
    BY <1>1, InTheirChain
  <2>2. (\E i \in 1..Len(w) : t = w[i]) <=> t = s \/ \E i \in 1..Len(T[b]) : t = T[b][i]
    <3>1. 1 \in 1..Len(w)
      BY <1>5, <1>6
    <3>2. \A i \in 1..Len(w) : w[i] = s \/ \E k \in 1..Len(v) : w[i] = v[k]
      BY <1>6
    <3>3. \A k \in 1..Len(v) : \E i \in 1..Len(w) : w[i] = v[k]
      BY <1>6
    <3>4. \A i \in 1..Len(T[b]) : T[b][i] = v[i] /\ i \in 1..Len(v)
      BY <1>5
    <3>5. ASSUME NEW i \in 1..Len(w), t = w[i] PROVE t = s \/ \E k \in 1..Len(T[b]) : t = T[b][k]
      BY <1>5, <3>2, <3>5
    <3>6. ASSUME NEW k \in 1..Len(T[b]), t = T[b][k] PROVE \E i \in 1..Len(w) : t = w[i]
      BY <3>3, <3>4, <3>6
    <3>7. t = s => \E i \in 1..Len(w) : t = w[i]
      BY <1>6, <3>1
    <3> QED  BY <3>5, <3>6, <3>7
  <2> QED  BY <1>9, <2>1, <2>2
<1>11. StoredIn(U, n) = StoredIn(T, n) \cup {s}
  BY <1>10
<1> QED  BY <1>9, <1>11 DEF U, w, v, b

\* U is T with s in the place of slot i of bucket b.
OtherSlot(U, T, n, b, i, s) ==
  /\ Chained(U, n) /\ StoredIn(U, n) = (StoredIn(T, n) \ {T[b][i]}) \cup {s}
  /\ \A c \in 0..(n - 1) : Len(U[c]) = Len(T[c])
  /\ \A c \in 0..(n - 1) : \A j \in 1..Len(T[c]) : U[c][j] = IF c = b /\ j = i THEN s ELSE T[c][j]

\* A slot of the same name takes the place of the one that was there.
LEMMA Overwritten ==
  ASSUME NEW n \in Nat, n > 0, NEW T, Chained(T, n), NEW b \in 0..(n - 1), NEW i \in 1..Len(T[b]),
         NEW s \in Slots, Name[s.key] = Name[T[b][i].key]
  PROVE  OtherSlot([T EXCEPT ![b][i] = s], T, n, b, i, s)
<1> DEFINE v == T[b]
           w == [v EXCEPT ![i] = s]
           U == [T EXCEPT ![b] = w]
<1>1. T[b] \in Seq(Slots) /\ Len(T[b]) \in Nat /\ v = T[b]
  BY ChainIs
<1>2. U = [T EXCEPT ![b][i] = s]
  OBVIOUS
<1>3. \A j \in 1..Len(v) : BucketIn(n, v[j].key) = b
  BY ChainIs
<1>4. \A j, k \in 1..Len(v) : Name[v[j].key] = Name[v[k].key] => j = k
  BY DEF Chained
<1>5. v \in Seq(Slots) /\ i \in 1..Len(v) /\ Len(v) \in Nat /\ Name[s.key] = Name[v[i].key]
  BY <1>1
<1> HIDE DEF v
<1>6. w \in Seq(Slots) /\ Len(w) = Len(v) /\ \A j \in 1..Len(v) : w[j] = IF j = i THEN s ELSE v[j]
  BY <1>5
<1> HIDE DEF w
<1>0. /\ U \in [0..(n - 1) -> Seq(Slots)] /\ U[b] = w
      /\ \A c \in 0..(n - 1) : c # b => U[c] = T[c]
  BY <1>6, PutAt DEF Chained
<1> HIDE DEF U
<1>7. \A j \in 1..Len(w) : BucketIn(n, w[j].key) = b
  <2>1. BucketIn(n, s.key) = b
    <3>1. BucketIn(n, v[i].key) = b
      BY <1>3, <1>5
    <3> QED  BY <1>5, <3>1 DEF BucketIn
  <2> QED  BY <1>3, <1>6, <2>1
<1>8. \A j \in 1..Len(w) : Name[w[j].key] = Name[v[j].key]
  BY <1>5, <1>6
<1>9. \A j, k \in 1..Len(w) : Name[w[j].key] = Name[w[k].key] => j = k
  BY <1>4, <1>6, <1>8
<1>10. /\ Chained(U, n) /\ U[b] = w /\ \A c \in 0..(n - 1) : c # b => U[c] = T[c]
       /\ \A t : t \in StoredIn(U, n) <=> \/ t \in StoredIn(T, n) /\ BucketIn(n, t.key) # b
                                          \/ \E j \in 1..Len(w) : t = w[j]
  <2>1. OtherChain(U, T, n, b)
    BY <1>0, <1>7, <1>9 DEF ChainFor, OtherChain
  <2>a. Rechain(U, T, n, b)
    BY <2>1, Rechained
  <2>2. /\ Chained(U, n)
        /\ \A t : t \in StoredIn(U, n) <=> \/ t \in StoredIn(T, n) /\ BucketIn(n, t.key) # b
                                           \/ \E j \in 1..Len(U[b]) : t = U[b][j]
    BY <2>a DEF Rechain
  <2> QED  BY <1>0, <2>2
<1>11. ASSUME NEW t PROVE t \in StoredIn(U, n) <=> (t \in StoredIn(T, n) /\ t # v[i]) \/ t = s
  <2>1. t \in StoredIn(T, n) /\ BucketIn(n, t.key) = b <=> \E j \in 1..Len(v) : t = v[j]
    BY <1>1, InTheirChain
  <2>2. (\E j \in 1..Len(w) : t = w[j]) <=> t = s \/ \E j \in 1..Len(v) : j # i /\ t = v[j]
    BY <1>5, <1>6
  <2>3. (\E j \in 1..Len(v) : j # i /\ t = v[j]) <=> (\E j \in 1..Len(v) : t = v[j]) /\ t # v[i]
    BY <1>4, <1>5
  <2>4. BucketIn(n, v[i].key) = b
    BY <1>3, <1>5
  <2> QED  BY <1>10, <2>1, <2>2, <2>3, <2>4, ZenonT(60)
<1>12. StoredIn(U, n) = (StoredIn(T, n) \ {T[b][i]}) \cup {s}
  BY <1>1, <1>11
<1>13. \A c \in 0..(n - 1) : Len(U[c]) = Len(T[c])
  BY <1>1, <1>6, <1>10
<1>14. \A c \in 0..(n - 1) : \A j \in 1..Len(T[c]) : U[c][j] = IF c = b /\ j = i THEN s ELSE T[c][j]
  BY <1>1, <1>6, <1>10
<1>15. OtherSlot(U, T, n, b, i, s)
  BY <1>10, <1>12, <1>13, <1>14 DEF OtherSlot
<1> QED  BY <1>2, <1>15

-----------------------------------------------------------------------------
(* The keys of a table *)

\* The keys of the slots of T.
KeysIn(T, n) == {s.key : s \in StoredIn(T, n)}

\* The keys of a table are keys, finitely many, each with its own name.
LEMMA KeysAre ==
  ASSUME NEW n \in Nat, NEW T, Chained(T, n)
  PROVE  /\ KeysIn(T, n) \subseteq Keys /\ IsFiniteSet(KeysIn(T, n)) /\ Cardinality(KeysIn(T, n)) \in Nat
         /\ \A k \in KeysIn(T, n) : Name[k] \in Names /\ \E s \in StoredIn(T, n) : s.key = k
         /\ \A s \in StoredIn(T, n) : s \in Slots /\ s.key \in KeysIn(T, n)
         /\ \A s, t \in StoredIn(T, n) : Name[s.key] = Name[t.key] => s = t
<1>1. \A s \in StoredIn(T, n) : s \in Slots /\ s.key \in Keys /\ Name[s.key] \in Names
  <2> SUFFICES ASSUME NEW s \in StoredIn(T, n) PROVE s \in Slots /\ s.key \in Keys /\ Name[s.key] \in Names
    OBVIOUS
  <2>1. PICK b \in 0..(n - 1) : \E i \in 1..Len(T[b]) : s = T[b][i]
    BY StoredIs
  <2>2. PICK i \in 1..Len(T[b]) : s = T[b][i]
    BY <2>1
  <2> QED  BY <2>2, ChainIs
<1>2. KeysIn(T, n) \subseteq Keys /\ \A k \in KeysIn(T, n) : Name[k] \in Names
  BY <1>1 DEF KeysIn, Names
<1>3. IsFiniteSet(KeysIn(T, n)) /\ Cardinality(KeysIn(T, n)) \in Nat
  <2>1. IsFiniteSet(KeysIn(T, n))
    BY <1>2, FS_Subset, HashTableAssumption
  <2> QED  BY <2>1, FS_CardinalityType
<1>4. ASSUME NEW s \in StoredIn(T, n), NEW t \in StoredIn(T, n), Name[s.key] = Name[t.key] PROVE s = t
  <2>1. PICK b \in 0..(n - 1) : \E i \in 1..Len(T[b]) : s = T[b][i]
    BY StoredIs
  <2>2. PICK c \in 0..(n - 1) : \E i \in 1..Len(T[c]) : t = T[c][i]
    BY StoredIs
  <2>3. PICK i \in 1..Len(T[b]) : s = T[b][i]
    BY <2>1
  <2>4. PICK j \in 1..Len(T[c]) : t = T[c][j]
    BY <2>2
  <2>5. b = c /\ i = j
    BY <1>4, <2>3, <2>4, OneSlot
  <2> QED  BY <2>3, <2>4, <2>5
<1>5. \A k \in KeysIn(T, n) : \E s \in StoredIn(T, n) : s.key = k
  BY DEF KeysIn
<1>6. \A s \in StoredIn(T, n) : s.key \in KeysIn(T, n)
  BY DEF KeysIn
<1> QED  BY <1>1, <1>2, <1>3, <1>4, <1>5, <1>6

\* A table has at most one key of each name.
LEMMA FewKeys ==
  ASSUME NEW n \in Nat, NEW T, Chained(T, n)
  PROVE  Cardinality(KeysIn(T, n)) <= Cardinality(Names) /\ IsFiniteSet(Names)
<1> DEFINE K == KeysIn(T, n)
           f == [k \in K |-> Name[k]]
           g == [k \in Keys |-> Name[k]]
<1>1. IsFiniteSet(Names)
  <2>1. g \in Surjection(Keys, Names)
    BY DEF Surjection, Names
  <2> HIDE DEF g
  <2> QED  BY <2>1, FS_Surjection, HashTableAssumption
<1>2. f \in [K -> Names]
  BY KeysAre
<1>3. \A k, l \in K : Name[k] = Name[l] => k = l
  <2> SUFFICES ASSUME NEW k \in K, NEW l \in K, Name[k] = Name[l] PROVE k = l
    OBVIOUS
  <2>1. PICK s \in StoredIn(T, n) : s.key = k
    BY KeysAre
  <2>2. PICK t \in StoredIn(T, n) : t.key = l
    BY KeysAre
  <2>3. s = t
    BY <2>1, <2>2, KeysAre
  <2> QED  BY <2>1, <2>2, <2>3
<1>4. f \in Injection(K, Names)
  <2>1. \A k, l \in K : f[k] = f[l] => k = l
    BY <1>3
  <2> HIDE DEF K, f
  <2> QED  BY <1>2, <2>1 DEF Injection, IsInjective
<1> HIDE DEF f
<1> QED  BY <1>1, <1>4, FS_Injection

\* The keys of a table that some have left.
LEMMA KeysLeft ==
  ASSUME NEW n \in Nat, NEW T, Chained(T, n), NEW m \in Nat, NEW U, Chained(U, m), NEW gone,
         StoredIn(U, m) = {s \in StoredIn(T, n) : s.key \notin gone}
  PROVE  /\ KeysIn(U, m) = KeysIn(T, n) \ gone
         /\ gone \subseteq KeysIn(T, n) => /\ IsFiniteSet(gone) /\ Cardinality(gone) \in Nat
                                           /\ Cardinality(KeysIn(U, m)) =
                                                      Cardinality(KeysIn(T, n)) - Cardinality(gone)
<1>1. KeysIn(U, m) = KeysIn(T, n) \ gone
  BY DEF KeysIn
<1>2. ASSUME gone \subseteq KeysIn(T, n)
      PROVE  /\ IsFiniteSet(gone) /\ Cardinality(gone) \in Nat
             /\ Cardinality(KeysIn(U, m)) = Cardinality(KeysIn(T, n)) - Cardinality(gone)
  <2>1. IsFiniteSet(KeysIn(T, n)) /\ Cardinality(KeysIn(T, n)) \in Nat
    BY KeysAre
  <2>2. IsFiniteSet(gone)
    BY <1>2, <2>1, FS_Subset
  <2>3. Cardinality(gone) \in Nat
    BY <2>2, FS_CardinalityType
  <2>4. KeysIn(T, n) \cap gone = gone
    BY <1>2
  <2>5. Cardinality(KeysIn(T, n) \ gone) = Cardinality(KeysIn(T, n)) - Cardinality(KeysIn(T, n) \cap gone)
    BY <2>1, FS_Difference
  <2> QED  BY <1>1, <2>2, <2>3, <2>4, <2>5
<1> QED  BY <1>1, <1>2

\* The keys of a table with one slot more.
LEMMA KeysMore ==
  ASSUME NEW n \in Nat, NEW T, Chained(T, n), NEW U, Chained(U, n), NEW s, s \notin StoredIn(T, n),
         \A t \in StoredIn(T, n) : Name[t.key] # Name[s.key], StoredIn(U, n) = StoredIn(T, n) \cup {s}
  PROVE  /\ KeysIn(U, n) = KeysIn(T, n) \cup {s.key} /\ s.key \notin KeysIn(T, n)
         /\ Cardinality(KeysIn(U, n)) = Cardinality(KeysIn(T, n)) + 1
<1>1. KeysIn(U, n) = KeysIn(T, n) \cup {s.key} /\ s.key \notin KeysIn(T, n)
  BY DEF KeysIn
<1>2. IsFiniteSet(KeysIn(T, n))
  BY KeysAre
<1> QED  BY <1>1, <1>2, FS_AddElement

\* The keys of a table with another slot for a name.
LEMMA KeysOther ==
  ASSUME NEW n \in Nat, NEW T, Chained(T, n), NEW U, Chained(U, n), NEW s, NEW t \in StoredIn(T, n),
         Name[s.key] = Name[t.key], StoredIn(U, n) = (StoredIn(T, n) \ {t}) \cup {s}
  PROVE  /\ KeysIn(U, n) = (KeysIn(T, n) \ {t.key}) \cup {s.key}
         /\ s.key # t.key => s.key \notin KeysIn(T, n)
         /\ Cardinality(KeysIn(U, n)) = Cardinality(KeysIn(T, n))
<1>1. \A u \in StoredIn(T, n) : u.key = t.key => u = t
  BY KeysAre
<1>2. KeysIn(U, n) = (KeysIn(T, n) \ {t.key}) \cup {s.key}
  BY <1>1 DEF KeysIn
<1>3. s.key # t.key => s.key \notin KeysIn(T, n)
  <2> SUFFICES ASSUME s.key \in KeysIn(T, n) PROVE s.key = t.key
    OBVIOUS
  <2>1. PICK u \in StoredIn(T, n) : u.key = s.key
    BY KeysAre
  <2>2. u = t
    BY <2>1, KeysAre
  <2> QED  BY <2>1, <2>2
<1>4. Cardinality(KeysIn(U, n)) = Cardinality(KeysIn(T, n))
  <2>1. IsFiniteSet(KeysIn(T, n)) /\ t.key \in KeysIn(T, n) /\ Cardinality(KeysIn(T, n)) \in Nat
    BY KeysAre
  <2>2. IsFiniteSet(KeysIn(T, n) \ {t.key}) /\ Cardinality(KeysIn(T, n) \ {t.key}) = Cardinality(KeysIn(T, n)) - 1
    BY <2>1, FS_RemoveElement
  <2>3. s.key \notin KeysIn(T, n) \ {t.key}
    BY <1>3
  <2>4. Cardinality(KeysIn(U, n)) = Cardinality(KeysIn(T, n)) - 1 + 1
    <3> DEFINE rest == KeysIn(T, n) \ {t.key}
    <3> HIDE DEF rest
    <3>1. Cardinality(rest \cup {s.key}) = Cardinality(rest) + 1
      BY <2>2, <2>3, FS_AddElement DEF rest
    <3> QED  BY <1>2, <2>2, <3>1 DEF rest
  <2> QED  BY <2>1, <2>4
<1> QED  BY <1>2, <1>3, <1>4

-----------------------------------------------------------------------------
(* The size of the table *)

\* g_spaced_primes_closest finds the least size that is not below its argument.
LEMMA ClosestIs ==
  ASSUME NEW x \in Nat, \E s \in Sizes : x <= s
  PROVE  Closest(x) \in Sizes /\ x <= Closest(x) /\ \A s \in Sizes : x <= s => Closest(x) <= s
<1> DEFINE I == {i \in DOMAIN Primes : x <= Primes[i]}
           Q(i) == x <= Primes[i] /\ \A j \in DOMAIN Primes : x <= Primes[j] => i <= j
<1>1. I \subseteq Nat /\ \A i \in DOMAIN Primes : Primes[i] \in Nat
  BY HashTableAssumption
<1>2. I # {}
  BY DEF Sizes
<1>3. \E i \in I : \A j \in I : i <= j
  BY <1>1, <1>2, LeastNumber
<1>4. \E i \in DOMAIN Primes : Q(i)
  BY <1>3
<1>5. PICK i \in DOMAIN Primes : Q(i) /\ Closest(x) = Primes[i]
  <2> HIDE DEF Q
  <2>1. (CHOOSE i \in DOMAIN Primes : Q(i)) \in DOMAIN Primes /\ Q(CHOOSE i \in DOMAIN Primes : Q(i))
    BY <1>4, Zenon
  <2>2. Closest(x) = Primes[CHOOSE i \in DOMAIN Primes : Q(i)]
    BY DEF Closest, Q
  <2> QED  BY <2>1, <2>2, Zenon
<1>6. ASSUME NEW j \in DOMAIN Primes, x <= Primes[j] PROVE Primes[i] <= Primes[j]
  <2>1. i <= j
    BY <1>5, <1>6
  <2>2. i \in Nat /\ j \in Nat /\ Primes[i] \in Nat /\ Primes[j] \in Nat
    BY HashTableAssumption
  <2>3. i < j => Primes[i] < Primes[j]
    BY HashTableAssumption
  <2> QED  BY <2>1, <2>2, <2>3
<1> QED  BY <1>5, <1>6 DEF Sizes

\* A new table has the least size, and some size holds all names.
LEMMA FirstSize ==
  /\ Closest(1) \in Sizes /\ 1 <= Closest(1) /\ \A s \in Sizes : Closest(1) <= s
  /\ \E s \in Sizes : Cardinality(Names) <= s
<1>1. \E s \in Sizes : Cardinality(Names) <= s
  BY HashTableAssumption DEF Sizes
<1>2. \E s \in Sizes : 1 <= s
  <2>1. PICK s \in Sizes : TRUE
    BY <1>1
  <2> QED  BY SizesAre
<1>3. Closest(1) \in Sizes /\ 1 <= Closest(1) /\ \A s \in Sizes : 1 <= s => Closest(1) <= s
  BY <1>2, ClosestIs
<1> QED  BY <1>1, <1>3, SizesAre

\* The load that rehash allows is three times the size at least.
LEMMA Loads ==
  ASSUME NEW m \in Nat
  PROVE  Load * m \in Nat /\ 3 * m <= Load * m
<1>1. Load \in Nat /\ Load >= 3
  BY HashTableAssumption
<1>2. Load * m - 3 * m = (Load - 3) * m /\ Load - 3 \in Nat
  BY <1>1
<1>3. (Load - 3) * m \in Nat /\ Load * m \in Nat
  BY <1>1, <1>2
<1> QED  BY <1>2, <1>3
-----------------------------------------------------------------------------
(* The iterator *)

\* An iterator, and the keys it has returned.
Iters == [index : Int, slot : Keys \cup {NoKey}, seen : Seq(Keys), fit : BOOLEAN]

SeenKeys(it) == {it.seen[i] : i \in 1..Len(it.seen)}

\* The iterator has not come past slot j of bucket b yet.
Ahead(it, T, b, j) ==
  /\ it.index # -2
  /\ b > it.index \/ (b = it.index /\ it.slot # NoKey /\ \E i \in 1..j : T[b][i].key = it.slot)

\* It stands on a slot or behind a bucket, and has returned what is behind it, once.
Stands(it, T, n) ==
  it.slot # NoKey => it.index \in 0..(n - 1) /\ \E i \in 1..Len(T[it.index]) : T[it.index][i].key = it.slot
Once(it)         == \A i, j \in 1..Len(it.seen) : it.seen[i] = it.seen[j] => i = j
Behind(it, T, n) ==
  \A b \in 0..(n - 1) : \A j \in 1..Len(T[b]) : T[b][j].key \in SeenKeys(it) <=> ~Ahead(it, T, b, j)

Fits(it, T, n) ==
  /\ it \in Iters /\ (it.index = -2 \/ it.index \in -1..(n - 1))
  /\ it.fit => Stands(it, T, n) /\ Once(it) /\ Behind(it, T, n)

\* The slots of U were in T, in the same order.
OrderSaved(U, T, n) ==
  /\ \A b \in 0..(n - 1) : \A j \in 1..Len(U[b]) : \E k \in 1..Len(T[b]) : T[b][k].key = U[b][j].key
  /\ \A b \in 0..(n - 1) : \A i, j \in 1..Len(U[b]) : \A k, l \in 1..Len(T[b]) :
       U[b][i].key = T[b][k].key /\ U[b][j].key = T[b][l].key => (i <= j <=> k <= l)

\* A key is once in its chain.
LEMMA OneKey ==
  ASSUME NEW n \in Nat, NEW T, Chained(T, n), NEW b \in 0..(n - 1),
         NEW i \in 1..Len(T[b]), NEW j \in 1..Len(T[b]), T[b][i].key = T[b][j].key
  PROVE  i = j /\ i \in Nat
<1>1. Name[T[b][i].key] = Name[T[b][j].key]
  OBVIOUS
<1>2. Len(T[b]) \in Nat
  BY ChainIs
<1> QED  BY <1>1, <1>2, OneSlot, SMTT(30)

\* A change that leaves the order of the slots, and the slot of the iterator.
LEMMA StillFits ==
  ASSUME NEW n \in Nat, NEW T, Chained(T, n), NEW U, Chained(U, n), OrderSaved(U, T, n),
         NEW it, Fits(it, T, n), it.fit => Stands(it, U, n)
  PROVE  Fits(it, U, n)
<1> SUFFICES ASSUME it.fit PROVE Behind(it, U, n)
  BY DEF Fits
<1>1. Stands(it, U, n) /\ Stands(it, T, n) /\ Behind(it, T, n)
  BY DEF Fits
<1>2. ASSUME NEW b \in 0..(n - 1), NEW j \in 1..Len(U[b]), NEW k \in 1..Len(T[b]), T[b][k].key = U[b][j].key
      PROVE  Ahead(it, U, b, j) <=> Ahead(it, T, b, k)
  <2>1. CASE b # it.index \/ it.slot = NoKey
    BY <2>1 DEF Ahead
  <2>2. CASE b = it.index /\ it.slot # NoKey
    <3>1. PICK i \in 1..Len(U[b]) : U[b][i].key = it.slot
      BY <1>1, <2>2 DEF Stands
    <3>2. PICK l \in 1..Len(T[b]) : T[b][l].key = it.slot
      BY <1>1, <2>2 DEF Stands
    <3>3. i <= j <=> l <= k
      BY <1>2, <3>1, <3>2 DEF OrderSaved
    <3>4. Len(T[b]) \in Nat /\ Len(U[b]) \in Nat
      BY ChainIs
    <3>5. (\E m \in 1..j : U[b][m].key = it.slot) <=> i <= j
      <4>1. \A m \in 1..j : m \in 1..Len(U[b])
        BY <3>4
      <4>2. \A m \in 1..j : U[b][m].key = it.slot => m = i
        BY <3>1, <4>1, OneKey
      <4>3. i <= j => i \in 1..j
        BY <3>4
      <4>4. \A m \in 1..j : m <= j
        BY <3>4
      <4> QED  BY <3>1, <4>2, <4>3, <4>4
    <3>6. (\E m \in 1..k : T[b][m].key = it.slot) <=> l <= k
      <4>1. \A m \in 1..k : m \in 1..Len(T[b])
        BY <3>4
      <4>2. \A m \in 1..k : T[b][m].key = it.slot => m = l
        BY <3>2, <4>1, OneKey
      <4>3. l <= k => l \in 1..k
        BY <3>4
      <4>4. \A m \in 1..k : m <= k
        BY <3>4
      <4> QED  BY <3>2, <4>2, <4>3, <4>4
    <3>7. ~(b > it.index)
      BY <2>2
    <3> QED  BY <2>2, <3>3, <3>5, <3>6 DEF Ahead
  <2> QED  BY <2>1, <2>2
<1>3. ASSUME NEW b \in 0..(n - 1), NEW j \in 1..Len(U[b]) PROVE U[b][j].key \in SeenKeys(it) <=> ~Ahead(it, U, b, j)
  <2>1. PICK k \in 1..Len(T[b]) : T[b][k].key = U[b][j].key
    BY DEF OrderSaved
  <2>2. T[b][k].key \in SeenKeys(it) <=> ~Ahead(it, T, b, k)
    BY <1>1 DEF Behind
  <2> QED  BY <1>2, <2>1, <2>2
<1> QED  BY <1>3 DEF Behind

\* The iterator returns the slot it stands on.
LEMMA Returns ==
  ASSUME NEW n \in Nat, n = hSize, Chained(hTable, hSize),
         NEW it, Fits(it, hTable, n), it.fit, it.slot # NoKey, it.index # -2
  PROVE  Fits(IterNext(it), hTable, n)
<1> DEFINE b == it.index
           c == hTable[b]
           k == CHOOSE j \in DOMAIN c : c[j].key = it.slot
           to == IF k = Len(c) THEN NoKey ELSE c[k + 1].key
           J == IterNext(it)
<1>1. /\ it \in Iters /\ Stands(it, hTable, n) /\ Once(it) /\ Behind(it, hTable, n) /\ b \in 0..(n - 1)
      /\ \E i \in 1..Len(c) : c[i].key = it.slot
  BY DEF Fits, Stands
<1>2. DOMAIN c = 1..Len(c) /\ Len(c) \in Nat /\ \A i \in 1..Len(c) : c[i].key \in Keys
  BY <1>1, ChainIs
<1>3. k \in 1..Len(c) /\ c[k].key = it.slot
  BY <1>1, <1>2
<1>4. J = [it EXCEPT !.slot = to, !.seen = Append(it.seen, it.slot)]
  BY DEF IterNext
<1> HIDE DEF k, J
<1>5. k \in Nat /\ \A i \in 1..Len(c) : c[i].key = it.slot => i = k
  BY <1>1, <1>2, <1>3, OneKey, SMTT(30)
<1>6. IF k = Len(c) THEN to = NoKey ELSE k + 1 \in 1..Len(c) /\ to = c[k + 1].key /\ to \in Keys /\ to # NoKey
  BY <1>2, <1>3, <1>5, HashTableAssumption
<1> HIDE DEF to
<1>7. it.slot \in Keys /\ it.seen \in Seq(Keys) /\ b \in Int /\ it.fit \in BOOLEAN
  BY <1>1 DEF Iters
<1>8. /\ J \in Iters /\ J.index = b /\ J.slot = to /\ J.fit = it.fit
      /\ J.seen = Append(it.seen, it.slot)
  <2>1. to \in Keys \cup {NoKey}
    BY <1>6
  <2>2. Append(it.seen, it.slot) \in Seq(Keys)
    BY <1>7
  <2> DEFINE w == Append(it.seen, it.slot)
  <2>3. J = [it EXCEPT !.slot = to, !.seen = w]
    BY <1>4
  <2>4. w \in Seq(Keys)
    BY <2>2
  <2> HIDE DEF w
  <2> QED  BY <1>1, <1>7, <2>1, <2>3, <2>4 DEF Iters, w
<1>9. /\ Len(J.seen) = Len(it.seen) + 1 /\ Len(it.seen) \in Nat
      /\ \A i \in 1..Len(it.seen) : J.seen[i] = it.seen[i]
      /\ J.seen[Len(it.seen) + 1] = it.slot
  BY <1>7, <1>8
<1>10. SeenKeys(J) = SeenKeys(it) \cup {it.slot}
  <2>1. \A i \in 1..(Len(it.seen) + 1) : i \in 1..Len(it.seen) \/ i = Len(it.seen) + 1
    BY <1>9
  <2>2. \A i \in 1..Len(it.seen) : i \in 1..(Len(it.seen) + 1)
    BY <1>9
  <2>3. Len(it.seen) + 1 \in 1..(Len(it.seen) + 1)
    BY <1>9
  <2> QED  BY <1>9, <2>1, <2>2, <2>3 DEF SeenKeys
<1>11. \A j \in 1..Len(c) : Ahead(it, hTable, b, j) <=> k <= j
  <2> SUFFICES ASSUME NEW j \in 1..Len(c) PROVE Ahead(it, hTable, b, j) <=> k <= j
    OBVIOUS
  <2>1. \A m \in 1..j : m \in 1..Len(c) /\ m <= j
    BY <1>2
  <2>2. k <= j => k \in 1..j
    BY <1>2, <1>3, <1>5
  <2>3. (\E m \in 1..j : c[m].key = it.slot) <=> k <= j
    BY <1>3, <1>5, <2>1, <2>2
  <2> QED  BY <1>7, <2>3 DEF Ahead
<1>12. it.slot \notin SeenKeys(it)
  <2>1. Ahead(it, hTable, b, k) /\ c[k].key = it.slot
    BY <1>3, <1>5, <1>11
  <2>2. c[k].key \in SeenKeys(it) <=> ~Ahead(it, hTable, b, k)
    BY <1>1, <1>3 DEF Behind
  <2> QED  BY <2>1, <2>2
<1>13. Once(J)
  <2>1. \A i \in 1..Len(it.seen) : it.seen[i] # it.slot
    BY <1>12 DEF SeenKeys
  <2> SUFFICES ASSUME NEW i \in 1..(Len(it.seen) + 1), NEW j \in 1..(Len(it.seen) + 1),
                      J.seen[i] = J.seen[j]
               PROVE  i = j
    BY <1>9 DEF Once
  <2>2. CASE i \in 1..Len(it.seen) /\ j \in 1..Len(it.seen)
    BY <1>1, <1>9, <2>2 DEF Once
  <2>3. CASE ~(i \in 1..Len(it.seen) /\ j \in 1..Len(it.seen))
    <3>1. i \in 1..Len(it.seen) \/ i = Len(it.seen) + 1
      BY <1>9
    <3>2. j \in 1..Len(it.seen) \/ j = Len(it.seen) + 1
      BY <1>9
    <3>3. CASE i \in 1..Len(it.seen) /\ j = Len(it.seen) + 1
      BY <1>9, <2>1, <3>3
    <3>4. CASE j \in 1..Len(it.seen) /\ i = Len(it.seen) + 1
      BY <1>9, <2>1, <3>4
    <3> QED  BY <2>3, <3>1, <3>2, <3>3, <3>4
  <2> QED  BY <2>2, <2>3
<1>14. Stands(J, hTable, n)
  BY <1>1, <1>6, <1>8 DEF Stands
<1>15. ASSUME NEW d \in 0..(n - 1), NEW j \in 1..Len(hTable[d])
       PROVE  hTable[d][j].key \in SeenKeys(J) <=> ~Ahead(J, hTable, d, j)
  <2>0. hTable[d][j].key \in SeenKeys(it) <=> ~Ahead(it, hTable, d, j)
    BY <1>1 DEF Behind
  <2>1. CASE d # b
    <3>1. hTable[d][j].key # it.slot
      <4> SUFFICES ASSUME Name[hTable[d][j].key] = Name[hTable[b][k].key] PROVE d = b
        BY <1>3, <2>1
      <4>1. k \in 1..Len(hTable[b]) /\ b \in 0..(n - 1) /\ Chained(hTable, n)
        BY <1>1, <1>3
      <4> HIDE DEF b
      <4> QED  BY <4>1, OneSlot
    <3>2. Ahead(J, hTable, d, j) <=> Ahead(it, hTable, d, j)
      BY <1>8, <2>1 DEF Ahead
    <3> QED  BY <1>10, <2>0, <3>1, <3>2
  <2>2. CASE d = b
    <3>1. hTable[d][j].key = it.slot <=> j = k
      BY <1>3, <1>5, <2>2
    <3>2. Ahead(it, hTable, d, j) <=> k <= j
      BY <1>11, <2>2
    <3>3. Ahead(J, hTable, d, j) <=> k + 1 <= j
      <4>0. j \in Nat /\ j \in 1..Len(c)
        BY <1>2, <2>2
      <4>1. CASE k = Len(c)
        <5>1. J.slot = NoKey /\ ~(b > b)
          BY <1>6, <1>7, <1>8, <4>1
        <5> QED  BY <1>2, <1>8, <2>2, <4>0, <4>1, <5>1 DEF Ahead
      <4>2. CASE k # Len(c)
        <5>1. J.slot = c[k + 1].key /\ J.slot # NoKey /\ k + 1 \in 1..Len(c)
          BY <1>6, <1>8, <4>2
        <5>2. \A m \in 1..Len(c) : c[m].key = J.slot => m = k + 1
          BY <1>1, <5>1, OneKey, SMTT(30)
        <5>3. \A m \in 1..j : m \in 1..Len(c) /\ m <= j
          BY <1>2, <4>0
        <5>4. k + 1 <= j => k + 1 \in 1..j
          BY <1>5, <4>0
        <5>5. (\E m \in 1..j : c[m].key = J.slot) <=> k + 1 <= j
          BY <5>1, <5>2, <5>3, <5>4
        <5>6. ~(b > b)
          BY <1>7
        <5> QED  BY <1>8, <2>2, <5>1, <5>5, <5>6 DEF Ahead
      <4> QED  BY <4>1, <4>2
    <3>4. j \in Nat
      BY <1>2, <2>2
    <3> QED  BY <1>5, <1>10, <2>0, <3>1, <3>2, <3>3, <3>4
  <2> QED  BY <2>1, <2>2
<1>16. Behind(J, hTable, n)
  BY <1>15 DEF Behind
<1> QED  BY <1>1, <1>8, <1>13, <1>14, <1>16 DEF Fits, J

\* Behind a bucket, it steps to the first slot of the next bucket that has one.
LEMMA StepsOn ==
  ASSUME NEW n \in Nat, n = hSize, Chained(hTable, hSize),
         Fits(hIter, hTable, n), hIter.fit, hIter.slot = NoKey, hIter.index # -2
  PROVE  /\ NextBucket = -2 => Fits([hIter EXCEPT !.index = -2], hTable, n)
         /\ NextBucket # -2 =>
              LET it == [hIter EXCEPT !.index = NextBucket, !.slot = hTable[NextBucket][1].key]
              IN  Fits(it, hTable, n) /\ it.fit /\ it.slot # NoKey /\ it.index # -2
<1> DEFINE filled == {b \in Buckets : b > hIter.index /\ hTable[b] # << >>}
           nb == NextBucket
           was == hIter
<1>1. /\ was \in Iters /\ Once(was) /\ Behind(was, hTable, n) /\ was.index \in -1..(n - 1)
      /\ was.slot = NoKey /\ was.fit /\ was = hIter
  BY DEF Fits
<1>2. \A b : b \in filled <=> b \in 0..(n - 1) /\ b > was.index /\ hTable[b] # << >>
  BY DEF Buckets
<1>3. nb = IF filled = {} THEN -2 ELSE CHOOSE b \in filled : \A c \in filled : b <= c
  BY DEF NextBucket
<1> HIDE DEF filled, nb
<1>4. \A b \in 0..(n - 1) : \A j \in 1..Len(hTable[b]) : hTable[b] # << >>
  <2> SUFFICES ASSUME NEW b \in 0..(n - 1), NEW j \in 1..Len(hTable[b]), hTable[b] = << >> PROVE FALSE
    OBVIOUS
  <2>1. Len(hTable[b]) = 0
    OBVIOUS
  <2> QED  BY <2>1
<1>5. \A b \in 0..(n - 1) : \A j \in 1..Len(hTable[b]) : Ahead(was, hTable, b, j) <=> b \in filled
    <2> SUFFICES ASSUME NEW b \in 0..(n - 1), NEW j \in 1..Len(hTable[b])
               PROVE  Ahead(was, hTable, b, j) <=> b \in filled
    OBVIOUS
  <2>1. Ahead(was, hTable, b, j) <=> b > was.index
    BY <1>1 DEF Ahead
  <2> QED  BY <1>2, <1>4, <2>1
<1>6. ASSUME NEW e \in Iters, e.seen = was.seen PROVE SeenKeys(e) = SeenKeys(was) /\ Once(e)
  BY <1>1, <1>6 DEF SeenKeys, Once
<1>7. CASE filled = {}
  <2> DEFINE e == [was EXCEPT !.index = -2]
  <2>1. nb = -2
    BY <1>3, <1>7
  <2>2. e \in Iters /\ e.seen = was.seen /\ e.slot = NoKey /\ e.index = -2
    BY <1>1 DEF Iters
  <2> HIDE DEF e
  <2>3. Stands(e, hTable, n)
    BY <2>2 DEF Stands
  <2>4. \A b \in 0..(n - 1) : \A j \in 1..Len(hTable[b]) : ~Ahead(e, hTable, b, j)
    BY <2>2 DEF Ahead
  <2>5. \A b \in 0..(n - 1) : \A j \in 1..Len(hTable[b]) : ~Ahead(was, hTable, b, j)
    BY <1>5, <1>7
  <2>6. \A b \in 0..(n - 1) : \A j \in 1..Len(hTable[b]) : hTable[b][j].key \in SeenKeys(was)
    BY <1>1, <2>5 DEF Behind
  <2>7. Behind(e, hTable, n)
    BY <1>6, <2>2, <2>4, <2>6 DEF Behind
  <2>8. Fits(e, hTable, n)
    BY <1>6, <2>2, <2>3, <2>7 DEF Fits
  <2> QED  BY <1>1, <2>1, <2>8 DEF e, nb
<1>8. CASE filled # {}
  <2>1. filled \subseteq Nat
    BY <1>2
  <2>2. \E b \in filled : \A d \in filled : b <= d
    BY <1>8, <2>1, LeastNumber
  <2>3. nb \in filled /\ \A d \in filled : nb <= d
    <3>1. nb = CHOOSE b \in filled : \A d \in filled : b <= d
      BY <1>3, <1>8
    <3> QED  BY <2>2, <3>1, Zenon
  <2>4. nb \in 0..(n - 1) /\ nb > was.index /\ hTable[nb] # << >> /\ nb \in Int
    BY <1>2, <2>3
  <2> DEFINE c == hTable[nb]
             s == c[1].key
             e == [was EXCEPT !.index = nb, !.slot = s]
  <2>5. 1 \in 1..Len(c) /\ s \in Keys /\ s # NoKey /\ nb # -2
    <3>1. c \in Seq(Slots) /\ Len(c) \in Nat
      BY <2>4, ChainIs
    <3>2. 1 \in 1..Len(c)
      BY <2>4, <3>1
    <3>3. s \in Keys
      BY <2>4, <3>2, ChainIs
    <3> QED  BY <2>4, <3>2, <3>3, HashTableAssumption
  <2> HIDE DEF s
  <2>6. e \in Iters /\ e.seen = was.seen /\ e.slot = s /\ e.index = nb /\ e.fit
    BY <1>1, <2>4, <2>5 DEF Iters
  <2> HIDE DEF e
  <2>7. Stands(e, hTable, n)
    BY <2>4, <2>5, <2>6 DEF Stands, s
  <2>8. ASSUME NEW b \in 0..(n - 1), NEW j \in 1..Len(hTable[b]) PROVE Ahead(e, hTable, b, j) <=> b \in filled
    <3>1. b = nb => 1 \in 1..j /\ hTable[b][1].key = e.slot
      <4>1. Len(hTable[b]) \in Nat
        BY ChainIs
      <4> QED  BY <2>6, <4>1 DEF s
    <3>2. Ahead(e, hTable, b, j) <=> b > nb \/ b = nb
      BY <2>5, <2>6, <3>1 DEF Ahead
    <3>3. b > nb \/ b = nb <=> b > was.index /\ nb <= b
      <4>1. was.index \in Int
        BY <1>1
      <4> QED  BY <2>4, <4>1
    <3>4. b \in filled <=> b > was.index
      BY <1>2, <1>4
    <3>5. b \in filled => nb <= b
      BY <2>3
    <3> QED  BY <2>4, <3>2, <3>3, <3>4, <3>5
  <2>9. \A b \in 0..(n - 1) :
        \A j \in 1..Len(hTable[b]) : hTable[b][j].key \in SeenKeys(was) <=> ~Ahead(was, hTable, b, j)
    BY <1>1 DEF Behind
  <2>10. Behind(e, hTable, n)
    <3>1. SeenKeys(e) = SeenKeys(was)
      BY <1>6, <2>6
    <3> QED  BY <1>5, <2>8, <2>9, <3>1 DEF Behind
  <2>11. Fits(e, hTable, n)
    <3>1. nb \in -1..(n - 1)
      BY <2>4
    <3> QED  BY <1>6, <2>6, <2>7, <2>10, <3>1 DEF Fits
  <2> QED  BY <1>1, <2>5, <2>6, <2>11 DEF e, s, nb
<1> QED  BY <1>7, <1>8

\* An iterator that is not to be used, and one at its start.
LEMMA Starts ==
  ASSUME NEW n \in Nat, NEW T
  PROVE  /\ Fits(NoIter, T, n) /\ ~NoIter.fit
         /\ Fits([index |-> -1, slot |-> NoKey, seen |-> << >>, fit |-> TRUE], T, n)
<1> DEFINE e == [index |-> -1, slot |-> NoKey, seen |-> << >>, fit |-> TRUE]
<1>1. NoIter \in Iters /\ ~NoIter.fit /\ NoIter.index = -2
  BY DEF NoIter, Iters
<1>2. e \in Iters /\ e.index = -1 /\ e.slot = NoKey /\ e.seen = << >>
  BY DEF Iters
<1> HIDE DEF e
<1>3. SeenKeys(e) = {} /\ Once(e)
  BY <1>2 DEF SeenKeys, Once
<1>4. \A b \in 0..(n - 1) : \A j : Ahead(e, T, b, j)
  BY <1>2 DEF Ahead
<1>5. Behind(e, T, n) /\ Stands(e, T, n) /\ e.index \in -1..(n - 1)
  BY <1>2, <1>3, <1>4 DEF Behind, Stands
<1> QED  BY <1>1, <1>2, <1>3, <1>5 DEF Fits, e

\* An iterator bears it that other slots leave.
LEMMA WithoutFits ==
  ASSUME hSize \in Nat, Chained(hTable, hSize), NEW it, Fits(it, hTable, hSize), NEW gone, it.slot \notin gone
  PROVE  Fits(it, Without(gone), hSize)
<1> DEFINE U == Without(gone)
           T == hTable
           n == hSize
<1>1. /\ Chained(U, n) /\ StoredIn(U, n) = {s \in StoredIn(T, n) : s.key \notin gone}
      /\ \A b \in 0..(n - 1) : \A i, j \in 1..Len(U[b]) : \A k, l \in 1..Len(T[b]) :
           U[b][i] = T[b][k] /\ U[b][j] = T[b][l] => (i <= j <=> k <= l)
  BY WithoutIs DEF Buckets
<1>0. n \in Nat /\ Chained(T, n) /\ Fits(it, T, n)
  OBVIOUS
<1> HIDE DEF U, T, n
<1>2. ASSUME NEW b \in 0..(n - 1), NEW j \in 1..Len(U[b])
      PROVE  \E k \in 1..Len(T[b]) : U[b][j] = T[b][k]
  <2>1. U[b][j] \in StoredIn(U, n) /\ BucketIn(n, U[b][j].key) = b
    BY <1>0, <1>1, InTheirChain
  <2>2. U[b][j] \in StoredIn(T, n)
    BY <1>1, <2>1
  <2> QED  BY <1>0, <2>1, <2>2, InTheirChain
<1>3. ASSUME NEW b \in 0..(n - 1), NEW j \in 1..Len(U[b]), NEW k \in 1..Len(T[b]), U[b][j].key = T[b][k].key
      PROVE  U[b][j] = T[b][k]
  <2>1. PICK l \in 1..Len(T[b]) : U[b][j] = T[b][l]
    BY <1>2
  <2>2. l = k
    BY <1>0, <1>3, <2>1, OneKey
  <2> QED  BY <2>1, <2>2
<1>4. OrderSaved(U, T, n)
  <2>1. ASSUME NEW b \in 0..(n - 1), NEW i \in 1..Len(U[b]), NEW j \in 1..Len(U[b]),
               NEW k \in 1..Len(T[b]), NEW l \in 1..Len(T[b]),
               U[b][i].key = T[b][k].key, U[b][j].key = T[b][l].key
        PROVE  i <= j <=> k <= l
    <3>1. U[b][i] = T[b][k] /\ U[b][j] = T[b][l]
      BY <1>3, <2>1
    <3> QED  BY <1>1, <3>1, SMTT(30)
  <2>2. \A b \in 0..(n - 1) : \A j \in 1..Len(U[b]) : \E k \in 1..Len(T[b]) : T[b][k].key = U[b][j].key
    <3> SUFFICES ASSUME NEW b \in 0..(n - 1), NEW j \in 1..Len(U[b])
                 PROVE  \E k \in 1..Len(T[b]) : T[b][k].key = U[b][j].key
      OBVIOUS
    <3>1. PICK k \in 1..Len(T[b]) : U[b][j] = T[b][k]
      BY <1>2
    <3> QED  BY <3>1
  <2> QED  BY <2>1, <2>2 DEF OrderSaved
<1>5. ASSUME it.fit PROVE Stands(it, U, n)
  <2> SUFFICES ASSUME it.slot # NoKey
               PROVE  it.index \in 0..(n - 1) /\ \E i \in 1..Len(U[it.index]) : U[it.index][i].key = it.slot
    BY DEF Stands
  <2> DEFINE b == it.index
  <2>1. b \in 0..(n - 1) /\ \E i \in 1..Len(T[b]) : T[b][i].key = it.slot
    BY <1>0, <1>5 DEF Fits, Stands
  <2> HIDE DEF b
  <2>2. PICK i \in 1..Len(T[b]) : T[b][i].key = it.slot
    BY <2>1
  <2>3. T[b][i] \in StoredIn(T, n) /\ BucketIn(n, T[b][i].key) = b
    BY <1>0, <2>1, InTheirChain
  <2>4. T[b][i] \in StoredIn(U, n)
    BY <1>1, <2>2, <2>3
  <2>5. \E j \in 1..Len(U[b]) : T[b][i] = U[b][j]
    <3> DEFINE s == T[b][i]
    <3>1. s \in StoredIn(U, n) /\ BucketIn(n, s.key) = b
      BY <2>3, <2>4
    <3>2. Chained(U, n)
      BY <1>1
    <3> HIDE DEF s
    <3>3. \E j \in 1..Len(U[b]) : s = U[b][j]
      BY <1>0, <2>1, <3>1, <3>2, InTheirChain
    <3> QED  BY <3>3 DEF s
  <2>6. \E j \in 1..Len(U[b]) : U[b][j].key = it.slot
    BY <2>2, <2>5
  <2> QED  BY <2>1, <2>6 DEF b
<1>6. Fits(it, U, n)
  BY <1>0, <1>1, <1>4, <1>5, StillFits
<1> QED  BY <1>6 DEF U, n

\* A new value in a slot changes nothing for an iterator.
LEMMA SameKeysFit ==
  ASSUME NEW n \in Nat, NEW T, Chained(T, n), NEW U, Chained(U, n),
         \A b \in 0..(n - 1) : Len(U[b]) = Len(T[b]),
         \A b \in 0..(n - 1) : \A j \in 1..Len(T[b]) : U[b][j].key = T[b][j].key,
         NEW it, Fits(it, T, n)
  PROVE  Fits(it, U, n)
<1>1. ASSUME NEW b \in 0..(n - 1), NEW i \in 1..Len(T[b]), NEW k \in 1..Len(T[b]),
             U[b][i].key = T[b][k].key
      PROVE  i = k
  <2>1. T[b][i].key = T[b][k].key
    BY <1>1
  <2> QED  BY <2>1, OneKey
<1>2. OrderSaved(U, T, n)
  <2>1. \A b \in 0..(n - 1) : \A j \in 1..Len(U[b]) : \E k \in 1..Len(T[b]) : T[b][k].key = U[b][j].key
    OBVIOUS
  <2>2. \A b \in 0..(n - 1) : \A i, j \in 1..Len(U[b]) : \A k, l \in 1..Len(T[b]) :
          U[b][i].key = T[b][k].key /\ U[b][j].key = T[b][l].key => (i <= j <=> k <= l)
    <3> SUFFICES ASSUME NEW b \in 0..(n - 1), NEW i \in 1..Len(U[b]), NEW j \in 1..Len(U[b]),
                        NEW k \in 1..Len(T[b]), NEW l \in 1..Len(T[b]),
                        U[b][i].key = T[b][k].key, U[b][j].key = T[b][l].key
                 PROVE  i <= j <=> k <= l
      OBVIOUS
    <3>1. i = k /\ j = l
      BY <1>1
    <3> QED  BY <3>1
  <2> QED  BY <2>1, <2>2 DEF OrderSaved
<1>3. ASSUME it.fit PROVE Stands(it, U, n)
  BY <1>3 DEF Fits, Stands
<1> QED  BY <1>2, <1>3, StillFits

-----------------------------------------------------------------------------
(* The invariant *)

\* The table as a data structure.
HShape ==
  /\ hSize \in Sizes /\ hLast \in Nat /\ hInUse \in Nat /\ Chained(hTable, hSize)
  /\ hInUse = Cardinality(KeysIn(hTable, hSize))
  /\ hOwner \in [Keys -> {"caller", "table", "gone"}]

\* With its room, the owners of the keys and the iterator.
HInv == HShape /\ HKeepsRoom /\ HOwnsKeys /\ Fits(hIter, hTable, hSize)

\* The keys and the slots of the table.
LEMMA PresentIs == Present = KeysIn(hTable, hSize) /\ Stored = StoredIn(hTable, hSize)
BY DEF Present, Stored, KeysIn, StoredIn, Buckets

\* Fewer keys in use are no reason to move the slots.
LEMMA NoRehash ==
  ASSUME HShape, HKeepsRoom, NEW inUse \in Nat, inUse < hInUse
  PROVE  ~Differs(inUse)
<1>1. hSize \in Nat /\ hLast \in Nat /\ hInUse \in Nat /\ hLast <= hSize /\ 3 * (hInUse - 1 - hLast) <= Load * hSize
  BY SizesAre DEF HShape, HKeepsRoom
<1>2. Load * hSize \in Nat /\ 3 * hSize <= Load * hSize
  BY <1>1, Loads
<1> DEFINE most == Load * hSize
<1> HIDE DEF most
<1>3. /\ most \in Nat /\ 3 * hSize <= most /\ 3 * (hInUse - 1 - hLast) <= most
      /\ Differs(inUse) <=> 3 * (IF hLast > inUse THEN hLast - inUse ELSE inUse - hLast) > most
  BY <1>1, <1>2 DEF most, Differs
<1> QED  BY <1>1, <1>3

\* The table as an insertion finds it, with room for one more key.
LEMMA Grows ==
  ASSUME HShape, HKeepsRoom
  PROVE  LET t == AfterRehash(hInUse, {})
         IN  /\ t.size \in Sizes /\ t.size >= hSize /\ t.last \in Nat /\ Chained(t.table, t.size)
             /\ StoredIn(t.table, t.size) = StoredIn(hTable, hSize)
             /\ 3 * (hInUse - t.last) <= Load * t.size
             /\ t.last < t.size \/ (t.last = t.size /\ t.size = Closest(1))
             /\ t.size = hSize => t.table = Without({})
<1> DEFINE t == AfterRehash(hInUse, {})
           was == StoredIn(hTable, hSize)
<1>0. {s \in was : s.key \notin {}} = was
  OBVIOUS
<1>1. /\ hSize \in Nat /\ hSize \in Sizes /\ hLast \in Nat /\ hInUse \in Nat /\ hLast <= hSize
      /\ Chained(hTable, hSize)
      /\ hLast < hSize \/ (hLast = hSize /\ hSize = Closest(1))
  BY SizesAre DEF HShape, HKeepsRoom
<1>2. Load * hSize \in Nat /\ 3 * hSize <= Load * hSize
  BY <1>1, Loads
<1>3. CASE Differs(hInUse)
  <2> DEFINE c == Closest(hInUse)
  <2>1. t = [table |-> Rehashed(c, {}), size |-> c, last |-> hSize]
    BY <1>3 DEF AfterRehash
  <2>2. \E s \in Sizes : hInUse <= s
    <3>1. Cardinality(Names) \in Nat
      BY <1>1, FewKeys, FS_CardinalityType
    <3>2. hInUse <= Cardinality(Names)
      BY <1>1, FewKeys DEF HShape
    <3>3. PICK s \in Sizes : Cardinality(Names) <= s
      BY FirstSize
    <3> QED  BY <1>1, <3>1, <3>2, <3>3, SizesAre
  <2>3. c \in Sizes /\ hInUse <= c /\ c \in Nat /\ c > 0
    BY <1>1, <2>2, ClosestIs, SizesAre
  <2> HIDE DEF c
  <2>4. Load * c \in Nat /\ 3 * c <= Load * c
    BY <2>3, Loads
  <2>5. hInUse > hSize
    <3> DEFINE most == Load * hSize
    <3>1. 3 * (IF hLast > hInUse THEN hLast - hInUse ELSE hInUse - hLast) > most
      BY <1>3 DEF Differs
    <3>2. most \in Nat /\ 3 * hSize <= most
      BY <1>2
    <3> HIDE DEF most
    <3> QED  BY <1>1, <3>1, <3>2
  <2>6. Chained(Rehashed(c, {}), c) /\ StoredIn(Rehashed(c, {}), c) = was
    BY <1>0, <1>1, <2>3, RehashedIs
  <2>7. 3 * (hInUse - hSize) <= Load * c
    <3> DEFINE most == Load * c
    <3>1. most \in Nat /\ 3 * c <= most
      BY <2>4
    <3> HIDE DEF most
    <3>2. 3 * (hInUse - hSize) <= most
      BY <1>1, <2>3, <3>1
    <3> QED  BY <3>2 DEF most
  <2>8. t.table = Rehashed(c, {}) /\ t.size = c /\ t.last = hSize
    BY <2>1
  <2> HIDE DEF t
  <2>9. c > hSize
    BY <1>1, <2>3, <2>5
  <2> QED  BY <1>1, <2>3, <2>6, <2>7, <2>8, <2>9 DEF t
<1>4. CASE ~Differs(hInUse)
  <2>1. t = [table |-> Without({}), size |-> hSize, last |-> hLast]
    BY <1>4 DEF AfterRehash
  <2>2. t.table = Without({}) /\ t.size = hSize /\ t.last = hLast
    BY <2>1
  <2>3. Chained(Without({}), hSize) /\ StoredIn(Without({}), hSize) = was
    BY <1>0, <1>1, WithoutIs
  <2>4. 3 * (hInUse - hLast) <= Load * hSize
    <3> DEFINE most == Load * hSize
    <3>1. ~(3 * (IF hLast > hInUse THEN hLast - hInUse ELSE hInUse - hLast) > most)
      BY <1>4 DEF Differs
    <3>2. most \in Nat
      BY <1>2
    <3> HIDE DEF most
    <3>3. 3 * (hInUse - hLast) <= most
      BY <1>1, <3>1, <3>2
    <3> QED  BY <3>3 DEF most
  <2> HIDE DEF t
  <2> QED  BY <1>1, <2>2, <2>3, <2>4 DEF t
<1> QED  BY <1>3, <1>4
-----------------------------------------------------------------------------
(* The calls *)

\* g_hash_table_new_full
LEMMA InitHolds == HInit => HInv
<1> SUFFICES ASSUME HInit PROVE HInv
  OBVIOUS
<1> DEFINE n == Closest(1)
           B == 0..(n - 1)
           C == Seq(Slots)
<1>1. n \in Sizes /\ n \in Nat /\ n > 0
  BY FirstSize, SizesAre
<1>2. /\ hSize = n /\ hLast = n /\ hInUse = 0
      /\ hTable = [b \in B |-> << >>] /\ hIter = NoIter /\ hOwner = [k \in Keys |-> "caller"]
  BY DEF HInit
<1> HIDE DEF n
<1>3. hTable \in [B -> C] /\ \A b \in B : hTable[b] = << >> /\ Len(hTable[b]) = 0
  <2>1. << >> \in C
    OBVIOUS
  <2> HIDE DEF B, C
  <2> QED  BY <1>2, <2>1
<1>4. Chained(hTable, n)
  BY <1>3 DEF Chained
<1>5. KeysIn(hTable, n) = {}
  <2> SUFFICES ASSUME NEW k \in KeysIn(hTable, n) PROVE FALSE
    OBVIOUS
  <2>1. PICK s \in StoredIn(hTable, n) : s.key = k
    BY <1>1, <1>4, KeysAre
  <2>2. \E b \in B : \E i \in 1..Len(hTable[b]) : s = hTable[b][i]
    BY <1>1, <1>4, StoredIs
  <2> QED  BY <1>3, <2>2
<1>6. HShape
  BY <1>1, <1>2, <1>4, <1>5, FS_EmptySet DEF HShape
<1>7. HKeepsRoom
  <2>1. Load * n \in Nat /\ 3 * n <= Load * n
    BY <1>1, Loads
  <2> DEFINE most == Load * n
  <2> HIDE DEF most
  <2>2. most \in Nat
    BY <2>1 DEF most
  <2>3. 3 * (0 - 1 - n) <= most
    BY <1>1, <2>2
  <2> QED  BY <1>2, <2>3 DEF HKeepsRoom, most, n
<1>8. HOwnsKeys
  BY <1>2, <1>5, PresentIs DEF HOwnsKeys
<1>9. Fits(hIter, hTable, hSize)
  BY <1>1, <1>2, Starts
<1> QED  BY <1>6, <1>7, <1>8, <1>9 DEF HInv

\* A slot with this name and value is in the table, beside those of other names.
Puts(m, v) ==
  \E s \in Slots :
    /\ Name[s.key] = m /\ s.value = v
    /\ StoredIn(hTable', hSize') = {u \in StoredIn(hTable, hSize) : Name[u.key] # m} \cup {s}
    /\ hInUse' = IF \E u \in StoredIn(hTable, hSize) : Name[u.key] = m THEN hInUse ELSE hInUse + 1

\* What an insertion does to a table with room: a new slot, or another one for the name.
LEMMA InsertHolds ==
  ASSUME HInv, NEW k \in Keys, NEW v \in Values, NEW replace \in BOOLEAN, HInsert(k, v, replace)
  PROVE  HInv' /\ hSize' >= hSize /\ hInUse' >= hInUse /\ Puts(Name[k], v)
<1> DEFINE t == AfterRehash(hInUse, {})
           n == t.size
           T == t.table
           last == t.last
           b == BucketIn(n, k)
           chain == T[b]
           i == PlaceIn(chain, Name[k])
<1>1. /\ n \in Sizes /\ n \in Nat /\ n > 0 /\ n >= hSize /\ last \in Nat /\ Chained(T, n)
      /\ StoredIn(T, n) = StoredIn(hTable, hSize) /\ KeysIn(T, n) = KeysIn(hTable, hSize)
      /\ 3 * (hInUse - last) <= Load * n
      /\ last < n \/ (last = n /\ n = Closest(1))
      /\ n = hSize => T = Without({})
  <2>1. /\ n \in Sizes /\ n >= hSize /\ last \in Nat /\ Chained(T, n)
        /\ StoredIn(T, n) = StoredIn(hTable, hSize)
        /\ 3 * (hInUse - last) <= Load * n
        /\ last < n \/ (last = n /\ n = Closest(1))
        /\ n = hSize => T = Without({})
    BY Grows DEF HInv
  <2> HIDE DEF t
  <2>2. KeysIn(T, n) = KeysIn(hTable, hSize)
    BY <2>1 DEF KeysIn
  <2>3. n \in Nat /\ n > 0
    BY <2>1, SizesAre
  <2> QED  BY <2>1, <2>2, <2>3
<1>2. /\ hOwner[k] # "table" /\ hSize' = n /\ hLast' = last
      /\ i = 0 => /\ hTable' = [T EXCEPT ![b] = <<[key |-> k, value |-> v]>> \o chain]
                  /\ hInUse' = hInUse + 1
                  /\ hOwner' = [hOwner EXCEPT ![k] = "table"]
                  /\ hIter' = NoIter
      /\ i # 0 => /\ hTable' = [T EXCEPT ![b][i] = [key |-> IF replace THEN k ELSE chain[i].key, value |-> v]]
                  /\ hOwner' = IF replace THEN [hOwner EXCEPT ![k] = "table", ![chain[i].key] = "gone"]
                               ELSE [hOwner EXCEPT ![k] = "caller"]
                  /\ hIter' = IF replace \/ n # hSize THEN NoIter ELSE hIter
                  /\ hInUse' = hInUse
  BY DEF HInsert
<1> HIDE DEF t
<1> HIDE DEF n, T, last
<1>3. /\ b \in 0..(n - 1)
      /\ i = 0 => \A s \in StoredIn(T, n) : Name[s.key] # Name[k]
      /\ i # 0 => i \in 1..Len(chain) /\ chain[i] \in StoredIn(T, n) /\ Name[chain[i].key] = Name[k]
  BY <1>1, FoundIs
<1>4. /\ hSize \in Nat /\ hInUse \in Nat /\ hInUse = Cardinality(KeysIn(hTable, hSize))
      /\ hOwner \in [Keys -> {"caller", "table", "gone"}]
      /\ \A l \in Keys : hOwner[l] = "table" <=> l \in KeysIn(T, n)
  BY <1>1, PresentIs, SizesAre DEF HInv, HShape, HOwnsKeys
<1>5. k \notin KeysIn(T, n)
  BY <1>2, <1>4
\* The room is enough for the key that may have come.
<1>6. ASSUME hInUse' = hInUse \/ hInUse' = hInUse + 1 PROVE HKeepsRoom'
  <2>1. Load * n \in Nat
    BY <1>1, Loads
  <2> DEFINE most == Load * n
  <2>2. most \in Nat /\ 3 * (hInUse - last) <= most
    BY <1>1, <2>1
  <2> HIDE DEF most
  <2>3. 3 * (hInUse' - 1 - last) <= most
    BY <1>1, <1>4, <1>6, <2>2
  <2> QED  BY <1>1, <1>2, <2>3 DEF HKeepsRoom, most, Closest
<1>7. CASE i = 0
  <2> DEFINE s == [key |-> k, value |-> v]
  <2>1. s \in Slots /\ s.key = k
    BY DEF Slots
  <2>2. hTable' = [T EXCEPT ![b] = <<s>> \o T[b]]
    BY <1>2, <1>7
  <2>3. \A u \in StoredIn(T, n) : Name[u.key] # Name[s.key]
    BY <1>3, <1>7, <2>1
  <2> HIDE DEF s
  <2>4. Chained(hTable', n) /\ StoredIn(hTable', n) = StoredIn(T, n) \cup {s}
    <3> DEFINE U == [T EXCEPT ![BucketIn(n, s.key)] = <<s>> \o T[BucketIn(n, s.key)]]
    <3>1. hTable' = U
      BY <2>1, <2>2
    <3>2. Chained(U, n) /\ StoredIn(U, n) = StoredIn(T, n) \cup {s}
      <4>1. n \in Nat /\ n > 0 /\ Chained(T, n) /\ s \in Slots
        BY <1>1, <2>1
      <4> HIDE DEF U
      <4>2. Chained([T EXCEPT ![BucketIn(n, s.key)] = <<s>> \o T[BucketIn(n, s.key)]], n)
        BY <2>3, <4>1, Fronted
      <4>3. StoredIn([T EXCEPT ![BucketIn(n, s.key)] = <<s>> \o T[BucketIn(n, s.key)]], n) =
               StoredIn(T, n) \cup {s}
        BY <2>3, <4>1, Fronted
      <4> QED  BY <4>2, <4>3 DEF U
    <3> HIDE DEF U
    <3> QED  BY <3>1, <3>2
  <2>5. s \notin StoredIn(T, n)
    BY <2>3
  <2>6. /\ KeysIn(hTable', n) = KeysIn(T, n) \cup {k}
        /\ Cardinality(KeysIn(hTable', n)) = Cardinality(KeysIn(T, n)) + 1
    BY <1>1, <2>1, <2>3, <2>4, <2>5, KeysMore
  <2>7. /\ hOwner' \in [Keys -> {"caller", "table", "gone"}]
        /\ \A l \in Keys : hOwner'[l] = "table" <=> l \in KeysIn(hTable', n)
    BY <1>2, <1>4, <1>7, <2>6
  <2>8. HShape'
    <3>1. /\ hSize' \in Sizes /\ hLast' \in Nat /\ hInUse' \in Nat /\ Chained(hTable', hSize')
          /\ hInUse' = Cardinality(KeysIn(hTable', hSize'))
          /\ hOwner' \in [Keys -> {"caller", "table", "gone"}]
      BY <1>1, <1>2, <1>4, <1>7, <2>4, <2>6, <2>7
    <3> QED  BY <3>1 DEF HShape
  <2>9. HOwnsKeys'
    <3>1. Present' = KeysIn(hTable', hSize')
      BY DEF Present, Stored, KeysIn, StoredIn, Buckets
    <3> QED  BY <1>2, <2>7, <3>1 DEF HOwnsKeys
  <2>10. Fits(hIter', hTable', hSize')
    BY <1>1, <1>2, <1>7, Starts
  <2>11. Puts(Name[k], v)
    <3>1. {u \in StoredIn(T, n) : Name[u.key] # Name[k]} = StoredIn(T, n)
      BY <1>3, <1>7
    <3>2. s.value = v
      BY DEF s
    <3>3. ~\E u \in StoredIn(T, n) : Name[u.key] = Name[k]
      BY <1>3, <1>7
    <3> QED  BY <1>1, <1>2, <1>7, <2>1, <2>4, <3>1, <3>2, <3>3 DEF Puts
  <2> QED  BY <1>1, <1>2, <1>4, <1>6, <1>7, <2>8, <2>9, <2>10, <2>11 DEF HInv
<1>8. CASE i # 0
  <2> DEFINE old == chain[i]
             s == [key |-> IF replace THEN k ELSE old.key, value |-> v]
             U == [T EXCEPT ![b][i] = s]
  <2>1. /\ i \in 1..Len(chain) /\ old \in StoredIn(T, n) /\ Name[old.key] = Name[k]
        /\ old.key \in Keys /\ old.key \in KeysIn(T, n)
    <3>1. i \in 1..Len(chain) /\ old \in StoredIn(T, n) /\ Name[old.key] = Name[k]
      BY <1>3, <1>8
    <3> HIDE DEF old
    <3> QED  BY <1>1, <3>1, KeysAre
  <2>2. /\ s \in Slots /\ s.key = (IF replace THEN k ELSE old.key) /\ Name[s.key] = Name[old.key]
        /\ s.value = v
    BY <2>1 DEF Slots
  <2>3. hTable' = U
    BY <1>2, <1>8
  <2>4. b \in 0..(n - 1) /\ i \in 1..Len(T[b]) /\ old = T[b][i]
    BY <1>3, <2>1
  <2> HIDE DEF s, old
  <2> HIDE DEF i
  <2> HIDE DEF chain
  <2> HIDE DEF b
  <2>5. /\ Chained(U, n) /\ StoredIn(U, n) = (StoredIn(T, n) \ {old}) \cup {s}
        /\ \A c \in 0..(n - 1) : Len(U[c]) = Len(T[c])
        /\ \A c \in 0..(n - 1) : \A j \in 1..Len(T[c]) : U[c][j] = IF c = b /\ j = i THEN s ELSE T[c][j]
    <3>1. Name[s.key] = Name[T[b][i].key]
      BY <2>2, <2>4
    <3>2. n \in Nat /\ n > 0 /\ Chained(T, n) /\ s \in Slots
      BY <1>1, <2>2
    <3>3. OtherSlot(U, T, n, b, i, s)
      BY <2>4, <3>1, <3>2, Overwritten
    <3> QED  BY <2>4, <3>3 DEF OtherSlot
  <2> HIDE DEF U
  <2>6. /\ KeysIn(U, n) = (KeysIn(T, n) \ {old.key}) \cup {s.key}
        /\ Cardinality(KeysIn(U, n)) = Cardinality(KeysIn(T, n))
    BY <1>1, <2>1, <2>2, <2>5, KeysOther
  <2>7. /\ hOwner' = IF replace THEN [hOwner EXCEPT ![k] = "table", ![old.key] = "gone"]
                      ELSE [hOwner EXCEPT ![k] = "caller"]
        /\ hIter' = IF replace \/ n # hSize THEN NoIter ELSE hIter
        /\ hInUse' = hInUse
    BY <1>2, <1>8 DEF old
  <2>8. /\ hOwner' \in [Keys -> {"caller", "table", "gone"}]
        /\ \A l \in Keys : hOwner'[l] = "table" <=> l \in KeysIn(U, n)
    <3>1. CASE replace
      BY <1>4, <1>5, <2>1, <2>2, <2>6, <2>7, <3>1
    <3>2. CASE ~replace
      BY <1>4, <1>5, <2>1, <2>2, <2>6, <2>7, <3>2
    <3> QED  BY <3>1, <3>2
  <2>9. HShape'
    <3>1. /\ hSize' \in Sizes /\ hLast' \in Nat /\ hInUse' \in Nat /\ Chained(hTable', hSize')
          /\ hInUse' = Cardinality(KeysIn(hTable', hSize'))
          /\ hOwner' \in [Keys -> {"caller", "table", "gone"}]
      BY <1>1, <1>2, <1>4, <2>3, <2>5, <2>6, <2>7, <2>8
    <3> QED  BY <3>1 DEF HShape
  <2>10. HOwnsKeys'
    <3>1. Present' = KeysIn(hTable', hSize')
      BY DEF Present, Stored, KeysIn, StoredIn, Buckets
    <3> QED  BY <1>2, <2>3, <2>8, <3>1 DEF HOwnsKeys
  <2>11. Fits(hIter', hTable', hSize')
    <3>1. CASE replace \/ n # hSize
      BY <1>1, <1>2, <2>7, <3>1, Starts
    <3>2. CASE ~replace /\ n = hSize
      <4>1. Fits(hIter, T, n)
        <5>1. Fits(hIter, Without({}), hSize)
          BY <1>4, WithoutFits DEF HInv, HShape
        <5> QED  BY <1>1, <3>2, <5>1
      <4>2. \A c \in 0..(n - 1) : \A j \in 1..Len(T[c]) : U[c][j].key = T[c][j].key
        <5>1. s.key = old.key
          BY <2>2, <3>2
        <5> QED  BY <2>4, <2>5, <5>1
      <4>3. Fits(hIter, U, n)
        BY <1>1, <2>5, <4>1, <4>2, SameKeysFit
      <4> QED  BY <1>2, <2>3, <2>7, <3>2, <4>3
    <3> QED  BY <3>1, <3>2
  <2>12. Puts(Name[k], v)
    <3>1. \A u \in StoredIn(T, n) : Name[u.key] = Name[k] <=> u = old
      <4>1. n \in Nat /\ Chained(T, n) /\ old \in StoredIn(T, n) /\ Name[old.key] = Name[k]
        BY <1>1, <2>1
      <4>2. \A u \in StoredIn(T, n) : Name[u.key] = Name[old.key] => u = old
        BY <4>1, KeysAre
      <4> QED  BY <4>1, <4>2
    <3>2. {u \in StoredIn(T, n) : Name[u.key] # Name[k]} = StoredIn(T, n) \ {old}
      BY <3>1
    <3>3. \E u \in StoredIn(T, n) : Name[u.key] = Name[k]
      BY <2>1
    <3>4. StoredIn(U, n) = (StoredIn(T, n) \ {old}) \cup {s}
      BY <2>5
    <3>5. Name[s.key] = Name[k]
      BY <2>1, <2>2
    <3> QED  BY <1>1, <1>2, <2>2, <2>3, <2>7, <3>2, <3>3, <3>4, <3>5 DEF Puts
  <2> QED  BY <1>1, <1>2, <1>4, <1>6, <2>7, <2>9, <2>10, <2>11, <2>12 DEF HInv
<1> QED  BY <1>7, <1>8

\* The slots of these keys leave the table, and only these.
Leaves(gone) ==
  /\ gone \subseteq KeysIn(hTable, hSize)
  /\ StoredIn(hTable', hSize') = {u \in StoredIn(hTable, hSize) : u.key \notin gone}
  /\ hInUse' = hInUse - Cardinality(gone)

\* Slots leave, and no others move.
LEMMA UnlinkHolds ==
  ASSUME HInv, NEW gone \in SUBSET Present, gone # {}, NEW owner \in {"gone", "caller"},
         Unlink(gone, owner, InPlace(gone))
  PROVE  HInv' /\ hSize' = hSize /\ Leaves(gone)
<1> DEFINE U == Without(gone)
           n == hSize
           K == KeysIn(hTable, hSize)
<1>1. /\ n \in Nat /\ n \in Sizes /\ hLast \in Nat /\ hInUse \in Nat /\ Chained(hTable, n)
      /\ hInUse = Cardinality(K) /\ hOwner \in [Keys -> {"caller", "table", "gone"}] /\ Present = K
      /\ \A k \in Keys : hOwner[k] = "table" <=> k \in K
  BY PresentIs, SizesAre DEF HInv, HShape, HOwnsKeys
<1>2. /\ hTable' = U /\ hSize' = n /\ hLast' = hLast /\ hInUse' = hInUse - Cardinality(gone)
      /\ hOwner' = [k \in Keys |-> IF k \in gone THEN owner ELSE hOwner[k]]
      /\ hIter' = IF hIter.slot \in gone THEN NoIter ELSE hIter
  BY DEF Unlink, InPlace
<1>3. Chained(U, n) /\ StoredIn(U, n) = {s \in StoredIn(hTable, n) : s.key \notin gone}
  BY <1>1, WithoutIs
<1>4. gone \subseteq K /\ K \subseteq Keys
  BY <1>1, KeysAre
<1> HIDE DEF U, K
<1>5. /\ KeysIn(U, n) = K \ gone /\ IsFiniteSet(gone) /\ Cardinality(gone) \in Nat
      /\ Cardinality(KeysIn(U, n)) = Cardinality(K) - Cardinality(gone)
  BY <1>1, <1>3, <1>4, KeysLeft DEF K
<1>6. Cardinality(gone) > 0
  BY <1>5, FS_EmptySet
<1>7. Cardinality(KeysIn(U, n)) \in Nat
  BY <1>1, <1>3, KeysAre
<1>8. /\ hOwner' \in [Keys -> {"caller", "table", "gone"}]
      /\ \A k \in Keys : hOwner'[k] = "table" <=> k \in KeysIn(U, n)
  BY <1>1, <1>2, <1>5
<1>9. HShape'
  <2>1. /\ hSize' \in Sizes /\ hLast' \in Nat /\ hInUse' \in Nat /\ Chained(hTable', hSize')
        /\ hInUse' = Cardinality(KeysIn(hTable', hSize'))
        /\ hOwner' \in [Keys -> {"caller", "table", "gone"}]
    BY <1>1, <1>2, <1>3, <1>5, <1>7, <1>8
  <2> QED  BY <2>1 DEF HShape
<1>10. HKeepsRoom'
  <2>1. Load * n \in Nat
    BY <1>1, Loads
  <2> DEFINE most == Load * n
  <2>2. most \in Nat /\ 3 * (hInUse - 1 - hLast) <= most
    BY <2>1 DEF HInv, HKeepsRoom
  <2> HIDE DEF most
  <2>3. 3 * (hInUse - Cardinality(gone) - 1 - hLast) <= most
    BY <1>1, <1>5, <2>2
  <2>4. hLast < n \/ (hLast = n /\ n = Closest(1))
    BY DEF HInv, HKeepsRoom
  <2> QED  BY <1>2, <2>3, <2>4 DEF HKeepsRoom, most, Closest
<1>11. HOwnsKeys'
  <2>1. Present' = KeysIn(hTable', hSize')
    BY DEF Present, Stored, KeysIn, StoredIn, Buckets
  <2> QED  BY <1>2, <1>8, <2>1 DEF HOwnsKeys
<1>12. Fits(hIter', hTable', hSize')
  <2>1. CASE hIter.slot \in gone
    BY <1>1, <1>2, <2>1, Starts
  <2>2. CASE hIter.slot \notin gone
    <3>1. Fits(hIter, U, n)
      BY <1>1, <2>2, WithoutFits DEF HInv, U
    <3> QED  BY <1>2, <2>2, <3>1
  <2> QED  BY <2>1, <2>2
<1>13. Leaves(gone)
  BY <1>2, <1>3, <1>4 DEF Leaves, K
<1> QED  BY <1>2, <1>9, <1>10, <1>11, <1>12, <1>13 DEF HInv

\* g_hash_table_remove, g_hash_table_steal
LEMMA TakeHolds ==
  ASSUME HInv, NEW m \in Names, NEW owner \in {"gone", "caller"}, HTake(m, owner)
  PROVE  HInv' /\ hSize' = hSize /\ \E gone \in SUBSET Keys : Leaves(gone)
<1>1. PICK k \in Keys : m = Name[k]
  BY DEF Names
<1> DEFINE b == BucketIn(hSize, k)
           i == PlaceIn(hTable[b], Name[k])
<1>2. Hash[m] % hSize = b
  BY <1>1 DEF BucketIn
<1>3. Found(m) = hTable[b][i] /\ i # 0
  <2> DEFINE c == Hash[m] % hSize
  <2>1. Found(m) = hTable[c][PlaceIn(hTable[c], m)] /\ PlaceIn(hTable[c], m) # 0
    BY DEF Found, Has, HTake
  <2>2. c = b
    BY <1>2
  <2> HIDE DEF b, c
  <2> QED  BY <1>1, <2>1, <2>2
<1>4. hSize \in Nat /\ hSize > 0 /\ Chained(hTable, hSize)
  BY SizesAre DEF HInv, HShape
<1>5. hTable[b][i] \in StoredIn(hTable, hSize)
  BY <1>3, <1>4, FoundIs
<1> HIDE DEF b, i
<1> DEFINE gone == {Found(m).key}
<1>6. gone \in SUBSET Present /\ gone # {}
  BY <1>3, <1>5, PresentIs DEF KeysIn
<1>7. Unlink(gone, owner, InPlace(gone))
  BY DEF HTake
<1> HIDE DEF gone
<1>8. gone \in SUBSET Keys
  BY <1>4, <1>6, PresentIs, KeysAre
<1> QED  BY <1>6, <1>7, <1>8, UnlinkHolds

\* g_hash_table_foreach_remove, g_hash_table_foreach_steal
LEMMA ForeachHolds ==
  ASSUME HInv, NEW gone \in SUBSET Present, NEW owner \in {"gone", "caller"}, HForeach(gone, owner)
  PROVE  HInv' /\ hSize' = hSize /\ \E S \in SUBSET Keys : Leaves(S)
<1> DEFINE left == hInUse - Cardinality(gone)
<1>1. /\ hSize \in Nat /\ hInUse \in Nat /\ Chained(hTable, hSize) /\ hInUse = Cardinality(Present)
      /\ IsFiniteSet(Present)
  BY PresentIs, SizesAre, KeysAre DEF HInv, HShape
<1>2. IsFiniteSet(gone) /\ Cardinality(gone) \in Nat /\ Cardinality(gone) <= Cardinality(Present) /\ gone # {}
  BY <1>1, FS_Subset, FS_CardinalityType DEF HForeach
<1>3. Cardinality(gone) # 0
  BY <1>2, FS_EmptySet
<1>4. left \in Nat /\ left < hInUse
  BY <1>1, <1>2, <1>3
<1> HIDE DEF left
<1>5. ~Differs(left)
  BY <1>4, NoRehash DEF HInv
<1>6. AfterRehash(left, gone) = InPlace(gone)
  BY <1>5 DEF AfterRehash, InPlace
<1>7. Unlink(gone, owner, InPlace(gone))
  BY <1>6 DEF HForeach, left
<1>8. gone \in SUBSET Keys
  BY <1>1, PresentIs, KeysAre
<1> QED  BY <1>2, <1>7, <1>8, UnlinkHolds

\* g_hash_table_remove_all
LEMMA RemoveAllHolds ==
  ASSUME HInv, HRemoveAll
  PROVE  HInv' /\ hSize' = hSize /\ \E gone \in SUBSET Keys : Leaves(gone)
<1>1. Present \in SUBSET Present /\ Present # {} /\ Unlink(Present, "gone", InPlace(Present))
  BY DEF HRemoveAll
<1>2. Present \in SUBSET Keys
  BY PresentIs, SizesAre, KeysAre DEF HInv, HShape
<1> QED  BY <1>1, <1>2, UnlinkHolds

\* A call that leaves the table alone.
LEMMA TableKept ==
  ASSUME HInv, UNCHANGED <<hTable, hSize, hInUse, hLast, hOwner>>, Fits(hIter', hTable, hSize)
  PROVE  HInv' /\ hSize' = hSize /\ hInUse' = hInUse
<1>1. hTable' = hTable /\ hSize' = hSize /\ hInUse' = hInUse /\ hLast' = hLast /\ hOwner' = hOwner
  OBVIOUS
<1>2. HShape' /\ Fits(hIter', hTable', hSize')
  BY <1>1 DEF HInv, HShape
<1>3. HKeepsRoom'
  BY <1>1 DEF HInv, HKeepsRoom, Closest
<1>4. HOwnsKeys'
  BY <1>1 DEF HInv, HOwnsKeys, Present, Stored, Buckets
<1> QED  BY <1>1, <1>2, <1>3, <1>4 DEF HInv

\* g_hash_table_iter_init, g_hash_table_iter_next
LEMMA IterHolds ==
  ASSUME HInv, HIterInit \/ HIterNext
  PROVE  HInv' /\ hSize' = hSize /\ hInUse' = hInUse
<1>1. hSize \in Nat /\ Chained(hTable, hSize) /\ Fits(hIter, hTable, hSize)
  BY SizesAre DEF HInv, HShape
<1>2. UNCHANGED <<hTable, hSize, hInUse, hLast, hOwner>>
  BY DEF HIterInit, HIterNext
<1>3. CASE HIterInit
  <2>1. Fits(hIter', hTable, hSize)
    BY <1>1, <1>3, Starts DEF HIterInit
  <2> QED  BY <1>2, <2>1, TableKept
<1>4. CASE HIterNext
  <2>0. hIter.fit /\ hIter.index # -2
    BY <1>4 DEF HIterNext
  <2>1. CASE hIter.slot # NoKey
    <3>1. hIter' = IterNext(hIter)
      BY <1>4, <2>1 DEF HIterNext
    <3>2. Fits(hIter', hTable, hSize)
      BY <1>1, <2>0, <2>1, <3>1, Returns
    <3> QED  BY <1>2, <3>2, TableKept
  <2>2. CASE hIter.slot = NoKey /\ NextBucket = -2
    <3>1. hIter' = [hIter EXCEPT !.index = -2]
      BY <1>4, <2>2 DEF HIterNext
    <3>2. Fits(hIter', hTable, hSize)
      BY <1>1, <2>0, <2>2, <3>1, StepsOn
    <3> QED  BY <1>2, <3>2, TableKept
  <2>3. CASE hIter.slot = NoKey /\ NextBucket # -2
    <3> DEFINE it == [hIter EXCEPT !.index = NextBucket, !.slot = hTable[NextBucket][1].key]
    <3>1. hIter' = IterNext(it)
      BY <1>4, <2>3 DEF HIterNext
    <3>2. Fits(it, hTable, hSize) /\ it.fit /\ it.slot # NoKey /\ it.index # -2
      BY <1>1, <2>0, <2>3, StepsOn
    <3> HIDE DEF it
    <3>3. Fits(hIter', hTable, hSize)
      BY <1>1, <3>1, <3>2, Returns
    <3> QED  BY <1>2, <3>3, TableKept
  <2> QED  BY <2>1, <2>2, <2>3
<1> QED  BY <1>3, <1>4

\* Nothing that a lookup sees.
Rests == StoredIn(hTable', hSize') = StoredIn(hTable, hSize) /\ hInUse' = hInUse

\* Every call keeps the invariant, and changes what lookups see in one of three ways.
LEMMA StepHolds ==
  ASSUME HInv, [HNext]_hVars
  PROVE  /\ HInv' /\ hSize' >= hSize /\ (hInUse' < hInUse => hSize' = hSize)
         /\ \/ \E m \in Names, v \in Values : Puts(m, v)
            \/ \E gone \in SUBSET Keys : Leaves(gone)
            \/ Rests
<1> DEFINE Goal == /\ HInv' /\ hSize' >= hSize /\ (hInUse' < hInUse => hSize' = hSize)
                   /\ \/ \E m \in Names, v \in Values : Puts(m, v)
                      \/ \E gone \in SUBSET Keys : Leaves(gone)
                      \/ Rests
<1>0. hSize \in Nat /\ hInUse \in Nat
  BY SizesAre DEF HInv, HShape
<1>1. ASSUME NEW k \in Keys, NEW v \in Values, NEW replace \in BOOLEAN, HInsert(k, v, replace) PROVE Goal
  <2>1. HInv' /\ hSize' >= hSize /\ hInUse' >= hInUse /\ Puts(Name[k], v)
    BY <1>1, InsertHolds
  <2>2. hInUse' \in Nat
    BY <2>1 DEF HInv, HShape
  <2>3. Name[k] \in Names
    BY DEF Names
  <2>4. ~(hInUse' < hInUse)
    BY <1>0, <2>1, <2>2
  <2>5. \E m \in Names, w \in Values : Puts(m, w)
    BY <2>1, <2>3
  <2> QED  BY <2>1, <2>4, <2>5
<1>2. ASSUME HInv', hSize' = hSize, \E gone \in SUBSET Keys : Leaves(gone) PROVE Goal
  BY <1>0, <1>2
<1>3. ASSUME HInv', hSize' = hSize, Rests PROVE Goal
  BY <1>0, <1>3
<1> HIDE DEF Goal
<1>4. ASSUME NEW m \in Names, HTake(m, "gone") \/ HTake(m, "caller") PROVE Goal
  <2>1. HInv' /\ hSize' = hSize /\ \E gone \in SUBSET Keys : Leaves(gone)
    BY <1>4, TakeHolds
  <2> QED  BY <1>2, <2>1
<1>5. ASSUME NEW gone \in SUBSET Present, NEW owner \in {"gone", "caller"}, HForeach(gone, owner) PROVE Goal
  <2>1. HInv' /\ hSize' = hSize /\ \E S \in SUBSET Keys : Leaves(S)
    BY <1>5, ForeachHolds
  <2> QED  BY <1>2, <2>1
<1>6. ASSUME HRemoveAll PROVE Goal
  <2>1. HInv' /\ hSize' = hSize /\ \E gone \in SUBSET Keys : Leaves(gone)
    BY <1>6, RemoveAllHolds
  <2> QED  BY <1>2, <2>1
<1>7. ASSUME HIterInit \/ HIterNext PROVE Goal
  <2>1. HInv' /\ hSize' = hSize /\ hInUse' = hInUse /\ hTable' = hTable
    BY <1>7, IterHolds DEF HIterInit, HIterNext
  <2>2. Rests
    BY <2>1 DEF Rests
  <2> QED  BY <1>3, <2>1, <2>2
<1>8. ASSUME UNCHANGED hVars PROVE Goal
  <2>1. UNCHANGED <<hTable, hSize, hInUse, hLast, hOwner>> /\ hIter' = hIter
    BY <1>8 DEF hVars
  <2>2. Fits(hIter', hTable, hSize)
    BY <2>1 DEF HInv
  <2>3. HInv' /\ hSize' = hSize /\ hInUse' = hInUse
    BY <2>1, <2>2, TableKept
  <2>4. Rests
    BY <2>1, <2>3 DEF Rests
  <2> QED  BY <1>3, <2>3, <2>4
<1>9. Goal
  BY <1>1, <1>4, <1>5, <1>6, <1>7, <1>8 DEF HNext
<1> QED  BY <1>9 DEF Goal
-----------------------------------------------------------------------------
(* What holds of the table *)

\* After every sequence of calls the chains, the counts, the owners and the iterator agree.
THEOREM HashInvariant == HSpec => []HInv
<1>1. HInv /\ [HNext]_hVars => HInv'
  BY StepHolds
<1> QED  BY InitHolds, <1>1, PTL DEF HSpec

\* Every slot is in the bucket of its hash, each name has one, and in_use counts them.
LEMMA InBuckets == HInv => HInBuckets
<1> SUFFICES ASSUME HInv PROVE HInBuckets
  OBVIOUS
<1>1. hSize \in Nat /\ Chained(hTable, hSize) /\ hInUse = Cardinality(Present)
  BY PresentIs, SizesAre DEF HInv, HShape
<1>2. \A b \in Buckets : \A i \in DOMAIN hTable[b] : Bucket(hTable[b][i].key) = b
  <2> SUFFICES ASSUME NEW b \in Buckets, NEW i \in DOMAIN hTable[b] PROVE Bucket(hTable[b][i].key) = b
    OBVIOUS
  <2>1. b \in 0..(hSize - 1) /\ i \in 1..Len(hTable[b])
    BY <1>1, ChainIs DEF Buckets
  <2> QED  BY <1>1, <2>1, ChainIs DEF Bucket
<1>3. \A p, q \in Places : p # q => Name[SlotAt(p).key] # Name[SlotAt(q).key]
  BY <1>1, PlacesAre
<1> QED  BY <1>1, <1>2, <1>3 DEF HInBuckets

\* The iterator has returned no key twice, and at the end all that are there.
LEMMA IterExact == HInv => HIterExact
<1> SUFFICES ASSUME HInv, hIter.fit PROVE
    /\ \A i, j \in DOMAIN hIter.seen : i # j => hIter.seen[i] # hIter.seen[j]
    /\ hIter.index = -2 => Present \subseteq {hIter.seen[i] : i \in DOMAIN hIter.seen}
  BY DEF HIterExact
<1>1. /\ hSize \in Nat /\ Chained(hTable, hSize) /\ Present = KeysIn(hTable, hSize)
      /\ hIter \in Iters /\ Once(hIter) /\ Behind(hIter, hTable, hSize)
  BY PresentIs, SizesAre DEF HInv, HShape, Fits
<1>2. DOMAIN hIter.seen = 1..Len(hIter.seen)
  BY <1>1 DEF Iters
<1>3. \A i, j \in DOMAIN hIter.seen : i # j => hIter.seen[i] # hIter.seen[j]
  BY <1>1, <1>2 DEF Once
<1>4. ASSUME hIter.index = -2, NEW k \in Present PROVE k \in SeenKeys(hIter)
  <2>1. PICK s \in StoredIn(hTable, hSize) : s.key = k
    BY <1>1, KeysAre
  <2>2. PICK b \in 0..(hSize - 1) : \E i \in 1..Len(hTable[b]) : s = hTable[b][i]
    BY <1>1, StoredIs
  <2>3. PICK i \in 1..Len(hTable[b]) : s = hTable[b][i]
    BY <2>2
  <2>4. ~Ahead(hIter, hTable, b, i)
    BY <1>4 DEF Ahead
  <2> QED  BY <1>1, <2>1, <2>3, <2>4 DEF Behind
<1> QED  BY <1>2, <1>3, <1>4 DEF SeenKeys

\* The slots agree with the counts and with the owners of the keys, through every
\* rehash of ghashtable.c, and an iterator returns each key once.
THEOREM HashCorrect == HSpec => []HCorrect
<1>1. HInv => HCorrect
  BY InBuckets, IterExact DEF HInv, HCorrect
<1> QED  BY HashInvariant, <1>1, PTL

\* The fields of the table keep their types.
THEOREM HashTyped == HSpec => []HTypeOK
<1>1. HInv => HTypeOK
  <2> SUFFICES ASSUME HInv PROVE HTypeOK
    OBVIOUS
  <2>1. /\ hSize \in {Primes[i] : i \in DOMAIN Primes} /\ hLast \in Nat /\ hInUse \in Nat
        /\ hOwner \in [Keys -> {"caller", "table", "gone"}]
        /\ hTable \in [Buckets -> Seq([key : Keys, value : Values])]
    BY DEF HInv, HShape, Sizes, Chained, Slots, Buckets
  <2>2. hIter.slot \in Keys \cup {NoKey} /\ hIter.index \in {-2} \cup -1..(hSize - 1)
    BY DEF HInv, Fits, Iters
  <2> QED  BY <2>1, <2>2 DEF HTypeOK
<1> QED  BY HashInvariant, <1>1, PTL

\* No call makes the table smaller, and none that removes keys moves the slots.
THEOREM NeverShrinks == HSpec => HNeverShrinks
<1>1. HInv /\ [HNext]_hVars => [hSize' >= hSize /\ (hInUse' < hInUse => hSize' = hSize)]_hVars
  BY StepHolds
<1> QED  BY HashInvariant, <1>1, PTL DEF HSpec, HNeverShrinks
-----------------------------------------------------------------------------
(* The dictionary *)

\* A lookup finds the value in the slot of the name.
\* Lookups find the value of a name's slot, and Absent for other names.
LooksUp ==
  /\ \A s \in StoredIn(hTable, hSize) : Lookup(Name[s.key]) = s.value
  /\ \A m \in Names : (\A s \in StoredIn(hTable, hSize) : Name[s.key] # m) => Lookup(m) = Absent
  /\ \A m \in Names : (\E s \in StoredIn(hTable, hSize) : Name[s.key] = m) => Lookup(m) # Absent

LEMMA LookupIs == HInv => LooksUp
<1> SUFFICES ASSUME HInv PROVE LooksUp
  OBVIOUS
<1>0. hSize \in Nat /\ hSize > 0 /\ Chained(hTable, hSize)
  BY SizesAre DEF HInv, HShape
<1>1. ASSUME NEW k \in Keys
      PROVE  \/ \E s \in StoredIn(hTable, hSize) : Name[s.key] = Name[k] /\ Lookup(Name[k]) = s.value
             \/ (\A s \in StoredIn(hTable, hSize) : Name[s.key] # Name[k]) /\ Lookup(Name[k]) = Absent
  <2> DEFINE b == BucketIn(hSize, k)
             i == PlaceIn(hTable[b], Name[k])
             m == Name[k]
  <2>1. /\ i = 0 => \A s \in StoredIn(hTable, hSize) : Name[s.key] # Name[k]
        /\ i # 0 => hTable[b][i] \in StoredIn(hTable, hSize) /\ Name[hTable[b][i].key] = Name[k]
    BY <1>0, FoundIs
  <2>2. Lookup(m) = IF i # 0 THEN hTable[b][i].value ELSE Absent
    <3> DEFINE c == Hash[m] % hSize
    <3>1. Lookup(m) = IF PlaceIn(hTable[c], m) # 0 THEN hTable[c][PlaceIn(hTable[c], m)].value ELSE Absent
      BY DEF Lookup, Found, Has
    <3>2. c = b
      BY DEF BucketIn
    <3> HIDE DEF b, c
    <3> QED  BY <3>1, <3>2
  <2> HIDE DEF b, i
  <2> QED  BY <2>1, <2>2
<1>2. \A s \in StoredIn(hTable, hSize) : s \in Slots /\ s.key \in Keys /\ s.value \in Values
  BY <1>0, KeysAre DEF Slots
<1>3. ASSUME NEW s \in StoredIn(hTable, hSize) PROVE Lookup(Name[s.key]) = s.value /\ s.value # Absent
  <2>1. s.key \in Keys /\ s.value \in Values
    BY <1>2
  <2>2. PICK u \in StoredIn(hTable, hSize) : Name[u.key] = Name[s.key] /\ Lookup(Name[s.key]) = u.value
    BY <1>1, <2>1
  <2>3. u = s
    BY <1>0, <2>2, KeysAre
  <2> QED  BY <2>1, <2>2, <2>3, HashTableAssumption
<1>4. ASSUME NEW m \in Names, \A s \in StoredIn(hTable, hSize) : Name[s.key] # m PROVE Lookup(m) = Absent
  <2>1. PICK k \in Keys : m = Name[k]
    BY DEF Names
  <2> QED  BY <1>1, <1>4, <2>1
<1> QED  BY <1>3, <1>4 DEF LooksUp

\* The same after a step.
LEMMA LookupNext == HInv' => LooksUp'
BY LookupIs, PTL

\* An insertion or a replacement is a Put of the dictionary.
LEMMA PutsIs ==
  ASSUME HInv, HInv', NEW m \in Names, NEW v \in Values, Puts(m, v)
  PROVE  HDictionary!Put(m, v)
<1> DEFINE S == StoredIn(hTable, hSize)
           R == StoredIn(hTable', hSize')
<1>1. PICK s \in Slots : /\ Name[s.key] = m /\ s.value = v /\ R = {u \in S : Name[u.key] # m} \cup {s}
                         /\ hInUse' = IF \E u \in S : Name[u.key] = m THEN hInUse ELSE hInUse + 1
  BY DEF Puts
<1>2. /\ \A u \in S : Lookup(Name[u.key]) = u.value
      /\ \A n \in Names : (\A u \in S : Name[u.key] # n) => Lookup(n) = Absent
      /\ \A n \in Names : (\E u \in S : Name[u.key] = n) => Lookup(n) # Absent
  BY LookupIs DEF LooksUp
<1>3. /\ \A u \in R : Lookup(Name[u.key])' = u.value
      /\ \A n \in Names : (\A u \in R : Name[u.key] # n) => Lookup(n)' = Absent
  BY LookupNext DEF LooksUp
<1> HIDE DEF S, R
<1>4. ASSUME NEW n \in Names PROVE Lookup(n)' = IF n = m THEN v ELSE Lookup(n)
  <2>1. CASE n = m
    BY <1>1, <1>3, <2>1
  <2>2. CASE n # m /\ \E u \in S : Name[u.key] = n
    <3>1. PICK u \in S : Name[u.key] = n
      BY <2>2
    <3>2. u \in R
      BY <1>1, <2>2, <3>1
    <3> QED  BY <1>2, <1>3, <2>2, <3>1, <3>2
  <2>3. CASE n # m /\ \A u \in S : Name[u.key] # n
    BY <1>1, <1>2, <1>3, <2>3
  <2> QED  BY <2>1, <2>2, <2>3
<1>5. Lookup(m) = Absent <=> ~\E u \in S : Name[u.key] = m
  BY <1>2
<1> QED  BY <1>1, <1>4, <1>5 DEF HDictionary!Put

\* A removal of keys drops their names from the dictionary.
LEMMA LeavesIs ==
  ASSUME HInv, HInv', NEW gone \in SUBSET Keys, Leaves(gone)
  PROVE  \E names \in SUBSET Names : HDictionary!Dropped(names)
<1> DEFINE S == StoredIn(hTable, hSize)
           R == StoredIn(hTable', hSize')
           names == {Name[k] : k \in gone}
<1>0. hSize \in Nat /\ Chained(hTable, hSize)
  BY SizesAre DEF HInv, HShape
<1>1. /\ gone \subseteq KeysIn(hTable, hSize) /\ R = {u \in S : u.key \notin gone}
      /\ hInUse' = hInUse - Cardinality(gone)
  BY DEF Leaves
<1>2. /\ \A u \in S : Lookup(Name[u.key]) = u.value
      /\ \A n \in Names : (\A u \in S : Name[u.key] # n) => Lookup(n) = Absent
      /\ \A n \in Names : (\E u \in S : Name[u.key] = n) => Lookup(n) # Absent
  BY LookupIs DEF LooksUp
<1>3. /\ \A u \in R : Lookup(Name[u.key])' = u.value
      /\ \A n \in Names : (\A u \in R : Name[u.key] # n) => Lookup(n)' = Absent
  BY LookupNext DEF LooksUp
<1>4. /\ \A k \in gone : \E u \in S : u.key = k
      /\ \A u, w \in S : Name[u.key] = Name[w.key] => u = w
  BY <1>0, <1>1, KeysAre
<1>5. \A k, l \in gone : Name[k] = Name[l] => k = l
  <2> HIDE DEF S
  <2> SUFFICES ASSUME NEW k \in gone, NEW l \in gone, Name[k] = Name[l] PROVE k = l
    OBVIOUS
  <2>1. PICK u \in S : u.key = k
    BY <1>4
  <2>2. PICK w \in S : w.key = l
    BY <1>4
  <2>3. u = w
    BY <1>4, <2>1, <2>2
  <2> QED  BY <2>1, <2>2, <2>3
<1> HIDE DEF S, R
<1>6. Cardinality(names) = Cardinality(gone)
  <2> DEFINE f == [k \in gone |-> Name[k]]
  <2>1. f \in [gone -> names] /\ \A k, l \in gone : f[k] = f[l] => k = l
    BY <1>5
  <2>2. \A m \in names : \E k \in gone : f[k] = m
    OBVIOUS
  <2> HIDE DEF f, names
  <2>3. f \in Bijection(gone, names)
    BY <2>1, <2>2 DEF Bijection, Injection, IsInjective, Surjection
  <2>4. IsFiniteSet(gone)
    BY FS_Subset, HashTableAssumption
  <2>5. ExistsBijection(gone, names)
    BY <2>3 DEF ExistsBijection
  <2> QED  BY <2>4, <2>5, FS_Bijection
<1>7. ASSUME NEW n \in Names PROVE Lookup(n)' = IF n \in names THEN Absent ELSE Lookup(n)
  <2>1. CASE n \in names
    <3>1. PICK k \in gone : n = Name[k]
      BY <2>1
    <3>2. PICK u \in S : u.key = k
      BY <1>4
    <3>3. \A w \in R : Name[w.key] # n
      BY <1>1, <1>4, <3>1, <3>2
    <3> QED  BY <1>3, <2>1, <3>3
  <2>2. CASE n \notin names /\ \E u \in S : Name[u.key] = n
    <3>1. PICK u \in S : Name[u.key] = n
      BY <2>2
    <3>2. u.key \notin gone
      BY <2>2, <3>1
    <3>3. u \in R
      BY <1>1, <3>2
    <3> QED  BY <1>2, <1>3, <2>2, <3>1, <3>3
  <2>3. CASE n \notin names /\ \A u \in S : Name[u.key] # n
    BY <1>1, <1>2, <1>3, <2>3
  <2> QED  BY <2>1, <2>2, <2>3
<1>8. \A n \in names : Lookup(n) # Absent /\ n \in Names
  <2> SUFFICES ASSUME NEW k \in gone PROVE Lookup(Name[k]) # Absent /\ Name[k] \in Names
    OBVIOUS
  <2>1. Name[k] \in Names
    BY DEF Names
  <2>2. PICK u \in S : u.key = k
    BY <1>4
  <2> QED  BY <1>2, <2>1, <2>2
<1> HIDE DEF names
<1>9. names \in SUBSET Names
  BY <1>8
<1>10. HDictionary!Dropped(names)
  <2> DEFINE f == [n \in Names |-> Lookup(n)]
  <2>1. \A n \in names : f[n] # Absent
    BY <1>8
  <2>2. [n \in Names |-> Lookup(n)'] = [n \in Names |-> IF n \in names THEN Absent ELSE f[n]]
    <3>1. \A n \in Names : Lookup(n)' = IF n \in names THEN Absent ELSE f[n]
      BY <1>7
    <3> HIDE DEF f
    <3> QED  BY <3>1
  <2>3. hInUse' = hInUse - Cardinality(names)
    BY <1>1, <1>6
  <2>4. HDictionary!Cardinality(names) = Cardinality(names)
    BY DEF HDictionary!Cardinality, Cardinality
  <2> QED  BY <2>1, <2>2, <2>3, <2>4 DEF HDictionary!Dropped
<1> QED  BY <1>9, <1>10

\* Other calls leave the dictionary alone.
LEMMA RestsIs ==
  ASSUME HInv, HInv', Rests
  PROVE  UNCHANGED HDictionary!dictVars
<1> DEFINE S == StoredIn(hTable, hSize)
<1>1. /\ \A u \in S : Lookup(Name[u.key]) = u.value
      /\ \A n \in Names : (\A u \in S : Name[u.key] # n) => Lookup(n) = Absent
  BY LookupIs DEF LooksUp
<1>2. /\ \A u \in S : Lookup(Name[u.key])' = u.value
      /\ \A n \in Names : (\A u \in S : Name[u.key] # n) => Lookup(n)' = Absent
  BY LookupNext DEF LooksUp, Rests
<1> HIDE DEF S
<1>3. \A n \in Names : Lookup(n)' = Lookup(n)
  BY <1>1, <1>2
<1>4. [n \in Names |-> Lookup(n)]' = [n \in Names |-> Lookup(n)]
  BY <1>3
<1> QED  BY <1>4 DEF HDictionary!dictVars, Rests

\* Every call is a step of the dictionary or none.
LEMMA StepIs ==
  ASSUME HInv, HInv', [HNext]_hVars
  PROVE  [HDictionary!DictNext]_HDictionary!dictVars
<1>1. ASSUME NEW m \in Names, NEW v \in Values, Puts(m, v) PROVE HDictionary!DictNext
  BY <1>1, PutsIs DEF HDictionary!DictNext
<1>2. ASSUME NEW gone \in SUBSET Keys, Leaves(gone) PROVE HDictionary!DictNext
  BY <1>2, LeavesIs DEF HDictionary!DictNext
<1>3. ASSUME Rests PROVE UNCHANGED HDictionary!dictVars
  BY <1>3, RestsIs
<1>4. \/ \E m \in Names, v \in Values : Puts(m, v)
      \/ \E gone \in SUBSET Keys : Leaves(gone)
      \/ Rests
  BY StepHolds
<1> QED  BY <1>1, <1>2, <1>3, <1>4

\* The hash table, seen by its lookups, does what each call promises of a dictionary.
THEOREM IsDictionary == HSpec => HIsDictionary
<1>1. HInit => HDictionary!DictInit
  <2> SUFFICES ASSUME HInit PROVE HDictionary!DictInit
    OBVIOUS
  <2>1. HInv
    BY InitHolds
  <2>2. \A s \in StoredIn(hTable, hSize) : FALSE
    <3>1. \A b \in 0..(hSize - 1) : Len(hTable[b]) = 0
      BY DEF HInit
    <3>2. hSize \in Nat /\ Chained(hTable, hSize)
      BY <2>1, SizesAre DEF HInv, HShape
    <3> SUFFICES ASSUME NEW s \in StoredIn(hTable, hSize) PROVE FALSE
      OBVIOUS
    <3>3. PICK b \in 0..(hSize - 1) : \E i \in 1..Len(hTable[b]) : s = hTable[b][i]
      BY <3>2, StoredIs
    <3> QED  BY <3>1, <3>3
  <2>3. \A m \in Names : Lookup(m) = Absent
    BY <2>1, <2>2, LookupIs DEF LooksUp
  <2>4. hInUse = 0
    BY DEF HInit
  <2> QED  BY <2>3, <2>4 DEF HDictionary!DictInit
<1>2. HInv /\ HInv' /\ [HNext]_hVars => [HDictionary!DictNext]_HDictionary!dictVars
  BY StepIs
<1> QED  BY HashInvariant, <1>1, <1>2, PTL DEF HSpec, HIsDictionary, HDictionary!DictSpec

=============================================================================
