------------------------------ MODULE GString -------------------------------
(***************************************************************************)
(* The strings of eglib (gstring.c), whose users in the library are the    *)
(* values of live data (jm/livedata.c), the markup parser and the shell    *)
(* words.  One action per public function, from the block that holds the   *)
(* characters and the two lengths.  strText is what a caller has built     *)
(* with them, by the names of the functions.                               *)
(***************************************************************************)
EXTENDS Memory, SequencesExt

CONSTANTS
  Chars,      \* characters other than NUL
  NUL,
  Words,      \* the texts that callers pass
  Slack,      \* what GROW_IF_NECESSARY adds, 16 in the code
  MinAlloc,   \* least block of g_string_new, 16 in the code
  MaxStr      \* bound: characters of a string

ASSUME GStringAssumption ==
  /\ Words \subseteq Seq(Chars) /\ NUL \notin Chars /\ Junk \notin Chars \cup {NUL}
  /\ Slack \in Nat \ {0} /\ MinAlloc \in Nat \ {0} /\ MaxStr \in Nat

VARIABLES
  str,        \* the block, allocated_len cells
  strLen,     \* len
  strText,    \* the characters the caller means the string to hold, or held last
  strLoose,   \* len and contents have come apart
  strWild     \* an access has been outside of the block

strVars == <<str, strLen, strText, strLoose, strWild>>

Alloced == Cardinality(DOMAIN str)

StrTypeOK ==
  /\ str \in [0..(Alloced - 1) -> Chars \cup {NUL, Junk}]
  /\ strLen \in 0..Alloced
  /\ strText \in Seq(Chars)
  /\ strLoose \in BOOLEAN /\ strWild \in BOOLEAN

-----------------------------------------------------------------------------
\* Mutant: no room is kept for the terminator.
GrowTight(l) == IF strLen + l > Alloced THEN Realloc(str, (Alloced + l + Slack) * 2) ELSE str

\* GROW_IF_NECESSARY
Grow(l) == IF strLen + l >= Alloced THEN Realloc(str, (Alloced + l + Slack) * 2) ELSE str

\* The characters up to the first NUL: what the string reads as.
Reads(block) ==
  LET ends == {i \in DOMAIN block : block[i] = NUL}
  IN  IF ends = {} THEN Contents(block, Cardinality(DOMAIN block))
      ELSE Contents(block, CHOOSE i \in ends : \A j \in ends : i <= j)

\* A function leaves the string with n characters in `block', terminated.
Terminate(block, n, legal) ==
  /\ str' = Fill(block, n, 1, NUL) /\ strLen' = n
  /\ strWild' = (strWild \/ ~legal \/ ~Inside(block, n, 1))

Bounded(n) == strLen + n <= MaxStr

\* The text of the caller changes to t; it is not followed any further once len and
\* contents have come apart.
Meant(t) == strText' = IF strLoose THEN strText ELSE t

\* g_string_new, g_string_new_len, and g_string_printf by its result
StrNew(word, exact) ==
  LET n    == Len(word)
      room == IF ~exact /\ n + 1 < MinAlloc THEN MinAlloc ELSE n + 1
  IN  /\ Terminate(Store(Alloc(room), 0, word), n, TRUE)
      /\ strText' = word /\ strLoose' = FALSE

\* g_string_sized_new: a block of no cells has none for the terminator, which is
\* written all the same.
StrSizedNew(n) ==
  /\ Terminate(Alloc(n), 0, TRUE)
  /\ strText' = << >> /\ strLoose' = (n = 0)

\* g_string_append_len, and g_string_append, append_c, append_unichar and
\* append_printf, which end in it
StrAppend(word) ==
  LET block == Grow(Len(word))
  IN  /\ Bounded(Len(word))
      /\ Terminate(Store(block, strLen, word), strLen + Len(word), Inside(block, strLen, Len(word)))
      /\ Meant(strText \o word)
      /\ UNCHANGED strLoose

\* Mutant: the terminator is not moved with the characters.
StrPrependBare(word) ==
  LET n == Len(word) block == Grow(n)
  IN  /\ Bounded(n)
      /\ str' = Store(Move(block, n, 0, strLen), 0, word)
      /\ strWild' = (strWild \/ ~Inside(block, 0, n + strLen))
      /\ Meant(word \o strText)
      /\ strLoose' = (strLoose \/ n > 0)
      /\ UNCHANGED strLen

\* g_string_prepend: the contents move, len stays.
StrPrepend(word) ==
  LET n == Len(word) block == Grow(n)
  IN  /\ Bounded(n)
      /\ str' = Store(Move(block, n, 0, strLen + 1), 0, word)
      /\ strWild' = (strWild \/ ~Inside(block, 0, n + strLen + 1))
      /\ Meant(word \o strText)
      /\ strLoose' = (strLoose \/ n > 0)
      /\ UNCHANGED strLen

\* g_string_insert: as many cells fewer than needed move as characters come in,
\* and the number is unsigned.
StrInsert(pos, word) ==
  LET n     == Len(word)
      block == Grow(n)
      moved == strLen - pos - n + 1
  IN  /\ Bounded(n) /\ pos <= strLen
      /\ str' = Store(IF moved >= 0 THEN Move(block, pos + n, pos, moved) ELSE block, pos, word)
      /\ strWild' = (strWild \/ moved < 0)
      /\ Meant(SubSeq(strText, 1, pos) \o word \o SubSeq(strText, pos + 1, strLen))
      /\ strLoose' = (strLoose \/ n > 0)
      /\ UNCHANGED strLen

\* g_string_truncate
StrTruncate(n) ==
  /\ n < strLen
  /\ Terminate(str, n, TRUE)
  /\ Meant(SubSeq(strText, 1, n))
  /\ UNCHANGED strLoose

\* Mutant: the value that was there is kept.
SetValueKeeping(word) ==
  LET block == Grow(Len(word))
  IN  /\ Len(word) <= MaxStr
      /\ Terminate(Store(block, strLen, word), strLen + Len(word), TRUE)
      /\ strText' = word /\ strLoose' = FALSE

\* live_data_set_value: truncate to nothing, then append.
SetValue(word) ==
  LET block == IF Len(word) >= Alloced THEN Realloc(str, (Alloced + Len(word) + Slack) * 2) ELSE str
  IN  /\ Len(word) <= MaxStr
      /\ Terminate(Store(block, 0, word), Len(word), Inside(block, 0, Len(word)))
      /\ strText' = word /\ strLoose' = FALSE

\* g_string_set_size: what is between the old end and the new one is not set.
StrSetSize(n) ==
  LET block == Grow(n)
  IN  /\ n <= MaxStr
      /\ Terminate(block, n, TRUE)
      /\ Meant(SubSeq(strText, 1, IF n < strLen THEN n ELSE strLen))
      /\ strLoose' = (strLoose \/ n > strLen)

\* g_string_erase: up to the end, the contents end and len stays.
StrErase(pos, n) ==
  /\ pos < strLen
  /\ UNCHANGED strWild
  /\ Meant(SubSeq(strText, 1, pos) \o SubSeq(strText, pos + n + 1, strLen))
  /\ IF pos + n >= strLen
     THEN /\ str' = Fill(str, pos, 1, NUL)
          /\ strLoose' = TRUE
          /\ UNCHANGED strLen
     ELSE /\ str' = Move(str, pos, pos + n, strLen - (pos + n) + 1)
          /\ strLen' = strLen - n
          /\ UNCHANGED strLoose

StrInit == \E word \in Words :
  /\ str = Fill(Store(Alloc(IF Len(word) + 1 < MinAlloc THEN MinAlloc ELSE Len(word) + 1), 0, word),
                Len(word), 1, NUL)
  /\ strLen = Len(word) /\ strText = word
  /\ strLoose = FALSE /\ strWild = FALSE

\* Nothing is called after an access outside of the block, which leaves nothing to
\* be said; a string whose len and contents have come apart is used like any other.
StrNext ==
  /\ ~strWild
  /\ \/ \E word \in Words : StrNew(word, TRUE) \/ StrNew(word, FALSE)
     \/ \E n \in 0..MinAlloc : StrSizedNew(n)
     \/ \E word \in Words : StrAppend(word) \/ StrPrepend(word) \/ SetValue(word)
     \/ \E pos \in 0..strLen, word \in Words : StrInsert(pos, word)
     \/ \E n \in 0..MaxStr : StrTruncate(n) \/ StrSetSize(n)
     \/ \E pos, n \in 0..strLen : StrErase(pos, n)

StrSpec == StrInit /\ [][StrNext]_strVars

-----------------------------------------------------------------------------
\* As long as only functions that keep len and contents together were used since the
\* string was made or given a value, it is what the caller built, len characters long
\* and terminated inside its block: the one thing live_data_value and the parsers
\* rely on.
StrExact ==
  ~strLoose => /\ strLen < Alloced /\ str[strLen] = NUL
               /\ Contents(str, strLen) = strText

\* There is a cell behind the len characters, also of a string whose len and contents
\* have come apart: every function relies on it when it makes room (gstring.c:32).
StrHasRoom == ~strWild => strLen < Alloced

\* A string is what its functions have made of it, and has room for its terminator.
StrCorrect == StrExact /\ StrHasRoom

\* Two calls reach outside of the block, whatever was called before: g_string_sized_new(0),
\* which writes a terminator into no cells (gstring.c:69), and the insertion of more
\* characters than follow the place by two or more, which moves a number of cells that
\* has wrapped below zero (gstring.c:178).
StrStaysInside ==
  [][strWild' => \/ StrSizedNew(0)
                 \/ \E pos \in 0..strLen, word \in Words :
                      StrInsert(pos, word) /\ Len(word) > strLen - pos + 1]_strVars

\* What the first g_string_prepend leaves still reads as the caller expects, although
\* len is that of the old contents; what is appended or prepended next goes by len.
PrependReads == [][\A word \in Words : ~strLoose /\ StrPrepend(word) => Reads(str') = strText']_strVars

=============================================================================
