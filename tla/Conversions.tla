----------------------------- MODULE Conversions -----------------------------
(***************************************************************************)
(* The two conversions of eglib/giconv.c that go over their text more than *)
(* once: g_utf8_to_utf16 and g_convert.  They share no state; a character  *)
(* is its class in both.                                                   *)
(***************************************************************************)
EXTENDS Integers, Sequences, SequencesExt

-----------------------------------------------------------------------------
(***************************************************************************)
(* g_utf8_to_utf16 (eglib/giconv.c), by which the library hands its texts  *)
(* to the program: one pass measures, a second one stores.  A character is *)
(* its class: how many bytes and how many units it takes.  The callers     *)
(* differ in the length they pass: the bytes (jm/livedata.c), or the       *)
(* number of characters (jm/database.c).                                   *)
(***************************************************************************)

CONSTANTS
  Texts16,    \* sequences of characters
  Callers     \* subset of {"bytes", "chars", "all"}

\* "a" ASCII, "e" two bytes, "c" three, "p" four and a surrogate pair, "s" a
\* surrogate written in UTF-8, "x" a byte that begins no character
Classes == {"a", "e", "c", "p", "s", "x"}

ASSUME Utf16Assumption == Texts16 \subseteq Seq(Classes) /\ Callers \subseteq {"bytes", "chars", "all"}

VARIABLES
  utText,     \* the string, constant
  utCaller,   \* what is passed for len, constant
  utPass,     \* "measure" | "store" | "done" | "null"
  utAt,       \* characters behind inptr
  utLeft,     \* inleft
  utRead,     \* items_read, in characters
  utOut,      \* outlen
  utPos,      \* outptr - outbuf
  utStored,   \* the characters stored, with the place of each
  utWild      \* a unit has been stored outside of the block

utVars == <<utText, utCaller, utPass, utAt, utLeft, utRead, utOut, utPos, utStored, utWild>>

Bytes(c) == CASE c \in {"a", "x"} -> 1 [] c = "e" -> 2 [] c \in {"c", "s"} -> 3 [] c = "p" -> 4

\* g_unichar_to_utf16, its answer for a surrogate included
Units(c) == CASE c \in {"a", "e", "c"} -> 1 [] c = "p" -> 2 [] c = "s" -> -1

Total(f(_), s) == FoldLeft(LAMBDA n, c : n + f(c), 0, s)

\* g_utf8_strlen (str, -1)
Utf8Strlen(s) == Len(s)

\* The bytes that are to be converted.
Asked == IF utCaller = "chars" THEN Utf8Strlen(utText) ELSE Total(Bytes, utText)

UtTypeOK ==
  /\ utPass \in {"measure", "store", "done", "null"} /\ utAt \in 0..Len(utText)
  /\ utLeft \in 0..Asked /\ utRead \in 0..Len(utText)
  /\ utOut \in Int /\ utPos \in Int /\ utWild \in BOOLEAN

-----------------------------------------------------------------------------
Next8 == utText[utAt + 1]

\* Mutant: a character that is cut off by the length is taken as it is.
DecodesLax == utLeft > 0 /\ utAt < Len(utText) /\ Next8 # "x"

\* decode_utf8 finds a whole character in what is left.
Decodes == utLeft > 0 /\ Next8 # "x" /\ Bytes(Next8) <= utLeft

UtMeasure ==
  /\ utPass = "measure" /\ Decodes
  /\ utOut' = utOut + Units(Next8)
  /\ utLeft' = utLeft - Bytes(Next8) /\ utAt' = utAt + 1
  /\ UNCHANGED <<utText, utCaller, utPass, utRead, utPos, utStored, utWild>>

\* Mutant: the second pass goes on where the first one has ended.
UtMeasuredOnward ==
  /\ utPass = "measure" /\ ~Decodes
  /\ utPass' = "store" /\ utRead' = utAt
  /\ UNCHANGED <<utText, utCaller, utOut, utPos, utStored, utWild, utAt, utLeft>>

\* The end of the first pass: an illegal byte gives NULL, a character that is cut
\* off does not, since the callers ask for items_read.
UtMeasured ==
  /\ utPass = "measure" /\ ~Decodes
  /\ utRead' = utAt
  /\ IF utLeft > 0 /\ Next8 = "x"
     THEN utPass' = "null" /\ UNCHANGED <<utAt, utLeft>>
     ELSE utPass' = "store" /\ utAt' = 0 /\ utLeft' = Asked
  /\ UNCHANGED <<utText, utCaller, utOut, utPos, utStored, utWild>>

UtStore ==
  /\ utPass = "store" /\ Decodes
  /\ LET n == Units(Next8)
     IN  /\ utStored' = IF n > 0 THEN Append(utStored, [char |-> Next8, at |-> utPos]) ELSE utStored
         /\ utWild' = (utWild \/ (n > 0 /\ (utPos < 0 \/ utPos + n > utOut)))
         /\ utPos' = utPos + n
  /\ utLeft' = utLeft - Bytes(Next8) /\ utAt' = utAt + 1
  /\ UNCHANGED <<utText, utCaller, utPass, utRead, utOut>>

\* The terminator.
UtStored ==
  /\ utPass = "store" /\ ~Decodes
  /\ utPass' = "done"
  /\ utWild' = (utWild \/ utPos < 0 \/ utPos > utOut)
  /\ UNCHANGED <<utText, utCaller, utAt, utLeft, utRead, utOut, utPos, utStored>>

UtInit ==
  /\ utText \in Texts16 /\ utCaller \in Callers
  /\ utPass = "measure" /\ utAt = 0 /\ utLeft = Asked /\ utRead = 0
  /\ utOut = 0 /\ utPos = 0 /\ utStored = << >> /\ utWild = FALSE

UtNext == UtMeasure \/ UtMeasured \/ UtStore \/ UtStored

UtSpec == UtInit /\ [][UtNext]_utVars

-----------------------------------------------------------------------------
Result16 == [i \in DOMAIN utStored |-> utStored[i].char]
Has16(c)  == \E i \in DOMAIN utText : utText[i] = c

\* Both passes agree: what is stored fits into what was measured, and the
\* terminator with it; only a surrogate written in UTF-8 breaks that, which is
\* taken for a character of -1 units.
UtInside ==
  /\ utWild => Has16("s")
  /\ utPass = "done" => utAt = utRead /\ utPos = utOut

\* A live-data text comes out whole; so does all of a string when no length is given.
UtWhole ==
  utPass \in {"done", "null"} /\ utCaller # "chars" /\ ~Has16("s") =>
    IF Has16("x") THEN utPass = "null" ELSE utPass = "done" /\ Result16 = utText

\* What database_get_text shows for a name that the table does not have: the name,
\* cut to as many bytes as it has characters, never inside of a character; so it is
\* the whole name only when that is ASCII.
UtNameCut ==
  utPass = "done" /\ utCaller = "chars" /\ ~Has16("s") /\ ~Has16("x") =>
    /\ IsPrefix(Result16, utText)
    /\ Result16 = utText <=> \A i \in DOMAIN utText : utText[i] = "a"
    /\ Total(Bytes, Result16) <= Len(utText)
    /\ Len(Result16) < Len(utText) => Total(Bytes, Result16) + Bytes(utText[Len(Result16) + 1]) > Len(utText)

\* The UTF-16 text is the given one, or the part of it that the given length covers,
\* inside of the memory that was measured.
UtCorrect == UtInside /\ UtWhole /\ UtNameCut

-----------------------------------------------------------------------------
(***************************************************************************)
(* g_convert (eglib/giconv.c): a loop around g_iconv, which keeps the      *)
(* character that did not fit for the next call, while the result grows.   *)
(* A character is its class, as above: its length in the two charsets is  *)
(* what counts.  The character set of the library itself does not use      *)
(* iconv: g_iconv_open has found both coders in its table.                 *)
(***************************************************************************)

CONSTANTS
  CvTexts,     \* sequences of "a", "e", "c", "p", and "cut" at the end, "bad" anywhere
  MinOut,      \* least size of the result, 8 in the code
  CvLimit      \* stands for the largest size_t

Charsets == {"utf8", "utf16", "utf32", "latin1"}

ASSUME ConvertAssumption == MinOut \in Nat \ {0} /\ CvLimit \in Nat

VARIABLES
  cvText, cvFrom, cvTo,   \* the arguments, constant
  cvAt,       \* characters decoded
  cvHeld,     \* cd->c: << >> or <<the character that is kept>>
  cvSize,     \* outsize
  cvLeft,     \* outleft
  cvOut,      \* the characters encoded so far
  cvFlush,    \* flush
  cvResult    \* "run" | "ok" | "illegal"

cvVars == <<cvText, cvFrom, cvTo, cvAt, cvHeld, cvSize, cvLeft, cvOut, cvFlush, cvResult>>

\* Bytes of a character in a charset; none is illegal there.
Wide(c, set) ==
  CASE set = "utf32"  -> 4
    [] set = "utf16"  -> IF c = "p" THEN 4 ELSE 2
    [] set = "latin1" -> IF c \in {"a", "e"} THEN 1 ELSE 0
    [] set = "utf8"   -> CASE c = "a" -> 1 [] c = "e" -> 2 [] c = "c" -> 3 [] c = "p" -> 4 [] OTHER -> 1

WideAll(s, set) == FoldLeft(LAMBDA n, c : n + Wide(c, set), 0, s)

Encodable(c, set) == c \in {"a", "e"} \/ (c \in {"c", "p"} /\ set # "latin1")

InLeft == WideAll(SubSeq(cvText, cvAt + 1, Len(cvText)), cvFrom)

OutUsed == WideAll(cvOut, cvTo)

CvTypeOK ==
  /\ cvAt \in 0..Len(cvText) /\ Len(cvHeld) <= 1 /\ cvSize \in Nat /\ cvLeft \in 0..CvLimit
  /\ cvFlush \in BOOLEAN /\ cvResult \in {"run", "ok", "illegal"}

-----------------------------------------------------------------------------
\* encode_utf8 stores an ASCII character without a look at outleft.
Fits8(c, left) == Wide(c, cvTo) <= left \/ (cvTo = "utf8" /\ c = "a")

\* Mutant: outleft is signed.
MinusSigned(left, n) == left - n

\* outleft is unsigned.
Minus(left, n) == IF n <= left THEN left - n ELSE CvLimit

\* Mutant: the character that did not fit is not kept.
HeldAfterDrop(c) == << >>

HeldAfter(c) == <<c>>

\* g_iconv over the rest of the text: what it leaves, and its answer.
Iconv ==
  LET n == Len(cvText)
      Run[s \in [at : 0..n, held : Seq({"a", "e", "c", "p"}), left : Int, out : Seq({"a", "e", "c", "p"})]] ==
        LET Ended(answer) == [at |-> s.at, held |-> s.held, left |-> s.left, out |-> s.out, answer |-> answer]
            Put(c, at) == Run[[at |-> at, held |-> << >>, left |-> Minus(s.left, Wide(c, cvTo)),
                               out |-> Append(s.out, c)]]
            Kept(c, at, answer) == [at |-> at, held |-> HeldAfter(c), left |-> s.left, out |-> s.out, answer |-> answer]
            Encode1(c, at) == IF ~Encodable(c, cvTo)
                              THEN Kept(c, at, IF cvTo = "latin1" /\ s.left < 1 THEN "E2BIG" ELSE "EILSEQ")
                              ELSE IF Fits8(c, s.left) THEN Put(c, at) ELSE Kept(c, at, "E2BIG")
        IN  IF s.held # << >> THEN Encode1(s.held[1], s.at)
            ELSE IF s.at = n \/ cvFlush THEN Ended("ok")
            ELSE CASE cvText[s.at + 1] = "bad" -> Ended("EILSEQ")
                   [] cvText[s.at + 1] = "cut" -> Ended("EINVAL")
                   [] OTHER -> Encode1(cvText[s.at + 1], s.at + 1)
  IN  Run[[at |-> cvAt, held |-> cvHeld, left |-> cvLeft, out |-> cvOut]]

\* Mutant: the least growth is forgotten.
GrowthRest(rest) == 2 * rest

Growth(rest) == 2 * (IF rest > MinOut THEN rest ELSE MinOut)

Called(r) == /\ cvAt' = r.at /\ cvHeld' = r.held /\ cvOut' = r.out
             /\ UNCHANGED <<cvText, cvFrom, cvTo>>

\* Mutant: only what is new of the result counts as room.
CvGrowNew ==
  /\ cvResult = "run" /\ Iconv.answer = "E2BIG"
  /\ Called(Iconv)
  /\ LET rest == WideAll(SubSeq(cvText, Iconv.at + 1, Len(cvText)), cvFrom)
     IN  cvSize' = cvSize + Growth(rest) /\ cvLeft' = Growth(rest)
  /\ UNCHANGED <<cvFlush, cvResult>>

\* E2BIG: the result grows, by twice what is left to read at least.
CvGrow ==
  /\ cvResult = "run" /\ Iconv.answer = "E2BIG"
  /\ Called(Iconv)
  /\ LET rest == WideAll(SubSeq(cvText, Iconv.at + 1, Len(cvText)), cvFrom)
     IN  cvSize' = cvSize + Growth(rest) /\ cvLeft' = Iconv.left + Growth(rest)
  /\ UNCHANGED <<cvFlush, cvResult>>

\* All input was converted, or the end of it is incomplete: flush comes next.
CvFlush ==
  /\ cvResult = "run" /\ Iconv.answer \in {"ok", "EINVAL"} /\ ~cvFlush
  /\ Called(Iconv) /\ cvLeft' = Iconv.left
  /\ cvFlush' = TRUE
  /\ UNCHANGED <<cvSize, cvResult>>

CvDone ==
  /\ cvResult = "run" /\ Iconv.answer = "ok" /\ cvFlush
  /\ Called(Iconv) /\ cvLeft' = Iconv.left
  /\ cvResult' = "ok"
  /\ UNCHANGED <<cvSize, cvFlush>>

CvIllegal ==
  /\ cvResult = "run" /\ Iconv.answer = "EILSEQ"
  /\ Called(Iconv) /\ cvLeft' = Iconv.left
  /\ cvResult' = "illegal"
  /\ UNCHANGED <<cvSize, cvFlush>>

CvInit ==
  /\ cvText \in CvTexts /\ cvFrom \in Charsets /\ cvTo \in Charsets
  /\ \A i \in DOMAIN cvText : cvText[i] \in {"bad", "cut"} \/ Encodable(cvText[i], cvFrom)
  /\ cvAt = 0 /\ cvHeld = << >> /\ cvOut = << >> /\ cvFlush = FALSE /\ cvResult = "run"
  /\ cvSize = (IF InLeft > MinOut THEN InLeft ELSE MinOut) /\ cvLeft = cvSize

CvNext == CvGrow \/ CvFlush \/ CvDone \/ CvIllegal

CvSpec == CvInit /\ [][CvNext]_cvVars /\ WF_cvVars(CvNext)

-----------------------------------------------------------------------------
\* Every character read has been written once, in order, or is held for the next
\* call: none is lost or doubled where the result was too small for it.
CvNoneLost ==
  /\ cvOut \o cvHeld = SubSeq(cvText, 1, cvAt)
  /\ cvResult = "ok" => cvHeld = << >> /\ (cvAt < Len(cvText) => cvText[cvAt + 1] = "cut")

\* outleft is the room there is, so that nothing is stored in the four bytes behind
\* it, which are the terminator's; only encode_utf8 breaks that, with an ASCII
\* character that comes when the result is full to the last byte (giconv.c:548).
CvRoomCounted ==
  \/ cvLeft + OutUsed = cvSize
  \/ /\ cvTo = "utf8"
     /\ \E i \in DOMAIN cvOut : cvOut[i] = "a" /\ WideAll(SubSeq(cvOut, 1, i - 1), cvTo) = cvSize

\* A conversion loses no character and counts its room.
CvCorrect == CvNoneLost /\ CvRoomCounted

=============================================================================
