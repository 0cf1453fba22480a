-------------------------------- MODULE Utf8 -------------------------------
(***************************************************************************)
(* UTF-8 byte by byte: the validator and the reading functions of          *)
(* eglib/gutf8.c, and the conversions of eglib/giconv.c, which decode with *)
(* a decoder of their own.  A string is the sequence of its bytes, its NUL *)
(* behind the last.  Every behaviour is one call, of "validate" two:       *)
(* g_utf8_validate and g_utf8_get_char_validated.                          *)
(***************************************************************************)
EXTENDS Integers, Sequences, SequencesExt, FiniteSetsExt, TLC

CONSTANTS
  U8Any,      \* any sequences of bytes, for the validators
  U8Good,     \* texts, whose end may be cut off or begin no character, for the rest
  U16Any      \* any sequences of UTF-16 units

ASSUME Utf8Assumption == U8Any \cup U8Good \subseteq Seq(1..255) /\ U16Any \subseteq Seq(1..65535)

VARIABLES
  u8Call,    \* [fn, text, max, ask]: max is max_len or the offset, ask whether items_read is wanted; constant
  u8Result   \* << >> until called, then <<answer>>

u8Vars == <<u8Call, u8Result>>

-----------------------------------------------------------------------------
(* Bytes *)

U8Byte(z, p) == IF p <= Len(z) THEN z[p] ELSE 0

Follows(b) == b \in 128..191

\* g_utf8_jump_table
Jump(b) == CASE b < 192 \/ b >= 254 -> 1 [] b \in 192..223 -> 2 [] b \in 224..239 -> 3
             [] b \in 240..247 -> 4 [] b \in 248..251 -> 5 [] b \in 252..253 -> 6

\* Mutant: surrogates pass.
InRangeLax(b, c, d) == CASE b = 224 -> c >= 160
                         [] b = 239 -> ~(c = 183 /\ d \in 144..175) /\ ~(c = 191 /\ d \in {190, 191})
                         [] b = 240 -> c >= 144
                         [] b = 244 -> c <= 143
                         [] OTHER -> TRUE

\* The second byte after certain first ones: overlong forms, surrogates, characters
\* beyond the last one, and codes that are no characters.
InRange(b, c, d) == CASE b = 224 -> c >= 160
                      [] b = 237 -> c <= 159
                      [] b = 239 -> ~(c = 183 /\ d \in 144..175) /\ ~(c = 191 /\ d \in {190, 191})
                      [] b = 240 -> c >= 144
                      [] b = 244 -> c <= 143
                      [] OTHER -> TRUE

\* utf8_validate over len bytes at p
Utf8Validate(z, p, len) ==
  LET b(i) == U8Byte(z, p + i - 1)
  IN  /\ len \in 1..4
      /\ \A i \in 2..len : Follows(b(i))
      /\ len = 4 => ~(b(4) \in {190, 191} /\ b(3) = 191 /\ b(2) \in {143, 159, 175, 191})
      /\ len >= 2 => InRange(b(1), b(2), b(3))
      /\ b(1) \notin 128..193 /\ b(1) <= 244

Least8(i, j) == IF i < j THEN i ELSE j

\* g_utf8_validate: whether, and where it has stopped.
Validate(z, max) ==
  LET V[p \in 1..(Len(z) + 1)] ==
        LET n == Jump(U8Byte(z, p))
        IN  IF p > Len(z) \/ (max >= 0 /\ p > max) THEN [valid |-> p > max, end |-> p]
            ELSE IF max >= 0 /\ p - 1 + n > max THEN [valid |-> FALSE, end |-> p]
            ELSE IF Utf8Validate(z, p, n) THEN V[p + n] ELSE [valid |-> FALSE, end |-> p]
  IN  IF max = 0 THEN [valid |-> FALSE, end |-> 0] ELSE V[1]

-----------------------------------------------------------------------------
(* Characters *)

Or4(i, j) == IF i = j THEN i ELSE IF 0 \in {i, j} THEN i + j ELSE 3

\* (u << 6) | (b ^ 0x80)
Shifted6(u, b) == LET x == (b + 128) % 256
                  IN  ((u - (u % 4)) + Or4(u % 4, x \div 64)) * 64 + (x % 64)

\* The bits of the first byte of n that are the character's.
FirstBits(b, n) == IF n = 1 THEN b ELSE b % (2 ^ (7 - n))

Combined(z, p, n) == FoldLeft(Shifted6, FirstBits(z[p], n), SubSeq(z, p + 1, p + n - 1))

\* decode_utf8 with left bytes; n = 0 for the two errors
DecodeUtf8(z, p, left) ==
  LET n == Jump(z[p])
  IN  IF z[p] \in 128..193 \/ z[p] >= 254 THEN [n |-> 0, err |-> "EILSEQ", on |-> 0]
      ELSE IF n > left THEN [n |-> 0, err |-> "EINVAL", on |-> 0]
      ELSE [n |-> n, c |-> Combined(z, p, n)]

\* g_utf8_get_char_validated, of the first character
GetCharValidated(z, max) ==
  LET b == U8Byte(z, 1)
      n == Jump(b)
  IN  IF max = 0 THEN -2
      ELSE IF b < 128 THEN b
      ELSE IF b < 194 \/ b >= 254 THEN -1
      ELSE IF ~Utf8Validate(z, 1, IF max > 0 THEN Least8(max, n) ELSE n) THEN -1
      ELSE IF max > 0 /\ max < n THEN -2
      ELSE Combined(z, 1, n)

\* Mutant: the limit counts characters.
StrlenChars(z, max) ==
  LET L[p \in 1..(Len(z) + 1), len \in 0..Len(z)] ==
        IF p > Len(z) \/ (max >= 0 /\ len >= max) THEN len ELSE L[Least8(p + Jump(z[p]), Len(z) + 1), len + 1]
  IN  L[1, 0]

\* g_utf8_strlen: of at most max bytes, the characters that are whole there.
Strlen(z, max) ==
  LET L[p \in 1..(Len(z) + 1), len \in 0..Len(z)] ==
        IF p > Len(z) \/ (max >= 0 /\ p - 1 + Jump(z[p]) > max) THEN len
        ELSE L[Least8(p + Jump(z[p]), Len(z) + 1), len + 1]
  IN  L[1, 0]

\* g_utf8_offset_to_pointer forward, and g_utf8_pointer_to_offset of what it gives
ToPointer(z, offset) ==
  LET P[i \in 0..offset] == IF i = 0 THEN 1 ELSE P[i - 1] + Jump(U8Byte(z, P[i - 1])) IN P[offset]

ToOffset(z, pos) ==
  LET O[p \in 1..(Len(z) + 1)] == IF p >= pos THEN 0 ELSE 1 + O[p + Jump(z[p])] IN O[1]

-----------------------------------------------------------------------------
(* Conversions *)

\* Mutant: a character of four bytes gets three.
UnicharToUtf8Short(c) ==
  LET n == CASE c < 128 -> 1 [] c \in 128..2047 -> 2 [] c >= 2048 -> 3
  IN  [i \in 1..n |-> IF i = 1 THEN (IF n = 1 THEN c ELSE (256 - 2 ^ (8 - n)) + (c \div (64 ^ (n - 1))))
                      ELSE 128 + ((c \div (64 ^ (n - i))) % 64)]

\* g_unichar_to_utf8, of at most 21 bits
UnicharToUtf8(c) ==
  LET n == CASE c < 128 -> 1 [] c \in 128..2047 -> 2 [] c \in 2048..65535 -> 3 [] c >= 65536 -> 4
  IN  [i \in 1..n |-> IF i = 1 THEN (IF n = 1 THEN c ELSE (256 - 2 ^ (8 - n)) + (c \div (64 ^ (n - 1))))
                      ELSE 128 + ((c \div (64 ^ (n - i))) % 64)]

\* g_unichar_to_utf16 of a character that is one
UnicharToUtf16(c) == IF c < 65536 THEN <<c>>
                     ELSE <<55296 + ((c - 65536) \div 1024), 56320 + ((c - 65536) % 1024)>>

\* decode_utf16; on is how far the caller goes on for the answer -2
DecodeUtf16(z, p, left) ==
  CASE z[p] \notin 55296..57343 -> [n |-> 1, c |-> z[p]]
    [] z[p] \in 55296..56319 /\ left < 2 -> [n |-> 0, err |-> "EINVAL", on |-> 0]
    [] z[p] \in 55296..56319 /\ left >= 2 /\ z[p + 1] \in 56320..57343 ->
         [n |-> 2, c |-> (z[p] - 55296) * 1024 + (z[p + 1] - 56320) + 65536]
    [] z[p] \in 55296..56319 /\ left >= 2 /\ z[p + 1] \notin 56320..57343 -> [n |-> 0, err |-> "EILSEQ", on |-> 1]
    [] z[p] \in 56320..57343 -> [n |-> 0, err |-> "EILSEQ", on |-> 0]

\* The loop of g_utf8_to_ucs4, g_utf16_to_utf8 and the others: what is decoded up to
\* an end that is allowed, or NULL.
Decoded(from, z, ask) ==
  LET R[p \in 1..(Len(z) + 1)] ==
        IF p > Len(z) THEN [null |-> FALSE, chars |-> << >>, read |-> p - 1]
        ELSE LET left == Len(z) - p + 1
                 d    == IF from = "utf8" THEN DecodeUtf8(z, p, left) ELSE DecodeUtf16(z, p, left)
             IN  IF d.n = 0
                 THEN [null |-> ~(d.err = "EINVAL" /\ ask), chars |-> << >>, read |-> p - 1 + d.on]
                 ELSE LET rest == R[p + d.n] IN [rest EXCEPT !.chars = <<d.c>> \o @]
  IN  R[1]

InUtf8(chars)  == FlattenSeq([i \in DOMAIN chars |-> UnicharToUtf8(chars[i])])
InUtf16(chars) == FlattenSeq([i \in DOMAIN chars |-> UnicharToUtf16(chars[i])])

\* A text from UTF-8 to UCS-4 and to UTF-16, and back from each.
ThereAndBack(z, ask) ==
  LET there == Decoded("utf8", z, ask)
  IN  there @@ IF there.null THEN << >>
               ELSE [ucs4  |-> InUtf8(there.chars),
                     utf16 |-> InUtf8(Decoded("utf16", InUtf16(there.chars), FALSE).chars)]

\* A text from UTF-16 to UTF-8 and back.
AndFromUtf16(z, ask) ==
  LET there == Decoded("utf16", z, ask)
  IN  there @@ IF there.null THEN << >>
               ELSE [back |-> InUtf16(Decoded("utf8", InUtf8(there.chars), FALSE).chars)]

-----------------------------------------------------------------------------
U8Called ==
  /\ u8Result = << >>
  /\ LET z == u8Call.text
     IN  u8Result' = << CASE u8Call.fn = "validate" ->
                               Validate(z, u8Call.max) @@ [c |-> GetCharValidated(z, u8Call.max)]
                          [] u8Call.fn = "strlen" -> [len |-> Strlen(z, u8Call.max)]
                          [] u8Call.fn = "offset" ->
                               [at |-> ToPointer(z, u8Call.max), offset |-> ToOffset(z, ToPointer(z, u8Call.max))]
                          [] u8Call.fn = "to" -> ThereAndBack(z, u8Call.ask)
                          [] u8Call.fn = "from" -> AndFromUtf16(z, u8Call.ask) >>
  /\ u8Call' = u8Call

\* The characters of z if it is well-formed: each decoded character is a scalar value
\* whose encoding is the bytes it was decoded from; of bad bytes what was before them.
Scalar(c) == c \in 0..1114111 /\ c \notin 55296..57343

WellFormed(z) ==
  LET W[p \in 1..(Len(z) + 1)] ==
        IF p > Len(z) THEN [chars |-> << >>, end |-> p]
        ELSE LET d == DecodeUtf8(z, p, Len(z) - p + 1)
             IN  IF d.n \in 1..4 /\ Scalar(d.c) /\ UnicharToUtf8(d.c) = SubSeq(z, p, p + d.n - 1)
                 THEN LET rest == W[p + d.n] IN [rest EXCEPT !.chars = <<d.c>> \o @]
                 ELSE [chars |-> << >>, end |-> p]
  IN  W[1]

Whole(z) == WellFormed(z).end = Len(z) + 1

Calls8(fns, texts, maxes, asks) == [fn : fns, text : texts, max : maxes, ask : asks]

U8Calls ==
  LET whole == {z \in U8Good : Whole(z)}
  IN  Calls8({"validate"}, U8Any, {-1, 0, 2, 4}, {FALSE})
        \cup UNION {Calls8({"strlen"}, {z}, -1..(Len(z) + 1), {FALSE}) : z \in whole}
        \cup UNION {Calls8({"offset"}, {z}, 0..Len(WellFormed(z).chars), {FALSE}) : z \in whole}
        \cup Calls8({"to"}, U8Good, {0}, BOOLEAN) \cup Calls8({"from"}, U16Any, {0}, BOOLEAN)

U8Init == u8Call \in U8Calls /\ u8Result = << >>

U8Next == U8Called

U8Spec == U8Init /\ [][U8Next]_u8Vars

-----------------------------------------------------------------------------
\* The bytes the call may look at.
Given == IF u8Call.max < 0 THEN u8Call.text ELSE SubSeq(u8Call.text, 1, Least8(u8Call.max, Len(u8Call.text)))

Noncharacter(c) == c \in 64976..65007 \/ c % 65536 \in {65534, 65535}

\* Where the text stops to be whole characters of at most four bytes, surrogates not
\* among them, by any of the forms that UTF-8 could give them.
ShapedEnd(z) ==
  LET S[p \in 1..(Len(z) + 1)] ==
        LET n == IF p > Len(z) THEN 1 ELSE Jump(z[p])
        IN  IF p > Len(z) \/ p - 1 + n > Len(z) \/ n > 4 \/ Follows(z[p]) \/ z[p] >= 254 THEN p
            ELSE IF (\A i \in 1..(n - 1) : Follows(z[p + i])) /\ ~(z[p] = 237 /\ z[p + 1] > 159)
            THEN S[p + n] ELSE p
  IN  S[1]

\* The validator goes on over all that is well-formed and stops at the latest at a
\* character that is cut, has another byte inside, or is a surrogate; it accepts if it
\* comes to the end.  What it does about a form longer than necessary and a code beyond
\* 0x10ffff is left open: the comment above g_utf8_validate says that they pass
\* (gutf8.c:114-118), and the code refuses them; and about codes that are no characters.
U8ValidatorExact ==
  u8Result # << >> /\ u8Call.fn = "validate" /\ u8Call.max # 0 =>
    LET z      == Given
        good   == WellFormed(z)
        odd    == {i \in DOMAIN good.chars : Noncharacter(good.chars[i])}
        strict == IF odd = {} THEN good.end ELSE Len(InUtf8(SubSeq(good.chars, 1, Min(odd) - 1))) + 1
        stop   == u8Result[1].end
    IN  /\ stop \in strict..ShapedEnd(z)
        /\ u8Result[1].valid = (stop = Len(z) + 1 /\ (u8Call.max > 0 => Len(z) = u8Call.max))

\* A character is answered only when it is whole, inside of the given length and one,
\* and then it is that of the decoder.
U8CharExact ==
  u8Result # << >> /\ u8Call.fn = "validate" /\ u8Call.text # << >> =>
    LET good == WellFormed(Given).chars
        c    == u8Result[1].c
    IN  /\ c >= 0 <=> good # << >> /\ ~Noncharacter(good[1])
        /\ c >= 0 => c = good[1]

\* Lengths, offsets and pointers count the same characters.
U8Lengths ==
  u8Result # << >> =>
    LET z     == u8Call.text
        chars == WellFormed(z).chars
        Before8(k) == Len(InUtf8(SubSeq(chars, 1, k)))
    IN  /\ u8Call.fn = "strlen" =>
             u8Result[1].len = IF u8Call.max < 0 THEN Len(chars)
                               ELSE Max({k \in 0..Len(chars) : Before8(k) <= u8Call.max})
        /\ u8Call.fn = "offset" => u8Result[1] = [at |-> Before8(u8Call.max) + 1, offset |-> u8Call.max]

\* A well-formed text is the same after it has been converted and converted back; one
\* whose last character is cut off gives the characters before it to a caller that
\* asks how far it was read, and nothing to one that does not.
U8RoundTrip ==
  u8Result # << >> /\ u8Call.fn = "to" =>
    LET good == WellFormed(u8Call.text)
        r    == u8Result[1]
        pre  == SubSeq(u8Call.text, 1, good.end - 1)
        cut  == ~Whole(u8Call.text) /\ u8Call.text[good.end] \in 194..253
    IN  /\ r.read = Len(pre)
        /\ IF Whole(u8Call.text) \/ (cut /\ u8Call.ask)
           THEN ~r.null /\ r.chars = good.chars /\ r.ucs4 = pre /\ r.utf16 = pre
           ELSE r.null

\* The same from UTF-16, where a surrogate without its other half ends the text: at
\* the end of it as a cut does, anywhere else with an error.
U8FromUtf16 ==
  u8Result # << >> /\ u8Call.fn = "from" =>
    LET z == u8Call.text
        r == u8Result[1]
        High(i) == i \in DOMAIN z /\ z[i] \in 55296..56319
        Low(i)  == i \in DOMAIN z /\ z[i] \in 56320..57343
        lone    == {i \in DOMAIN z : (High(i) /\ ~Low(i + 1)) \/ (Low(i) /\ ~High(i - 1))}
        pre     == IF lone = {} THEN z ELSE SubSeq(z, 1, Min(lone) - 1)
        cut     == lone # {} /\ Min(lone) = Len(z) /\ High(Len(z))
    IN  IF lone = {} \/ (cut /\ u8Call.ask) THEN ~r.null /\ r.back = pre /\ r.read = Len(pre) ELSE r.null

\* Validator, decoders and encoders agree on the texts that are UTF-8, and lengths and
\* places on the characters.
U8Correct == U8ValidatorExact /\ U8CharExact /\ U8Lengths /\ U8RoundTrip /\ U8FromUtf16

=============================================================================
