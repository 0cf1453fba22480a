------------------------------- MODULE BaseXX -------------------------------
(***************************************************************************)
(* The base 16, 32 and 64 codecs (cyo/CyoEncode.c, cyo/CyoDecode.c), which *)
(* differ only in how many bits a character stands for.  A character is    *)
(* the value the decoding table gives for it: 0..MaxValue, Pad for `=',    *)
(* and Bad for every other (above 0x7f, or 0xFF in the table); the         *)
(* encoding tables are the inverse.  The decoder is a state machine with   *)
(* one action per block; encoder and validator are functions.              *)
(***************************************************************************)
EXTENDS Integers, Sequences

CONSTANTS
  Bases,       \* the codecs, a subset of {16, 32, 64}
  Inputs,      \* per base: byte sequences that are encoded, and the encoding decoded
  Sources      \* per base: what else the decoder is given, sequences of characters

Byte == 0..255
Bad  == 255

ASSUME BaseXXAssumption ==
  /\ Bases \subseteq {16, 32, 64}
  /\ Inputs \in [Bases -> SUBSET Seq(Byte)]
  /\ Sources \in [Bases -> SUBSET Seq(Byte)]

VARIABLES
  bxBase,      \* the codec in use, constant
  bxPlain,     \* ghost: <<b>> when src is the encoding of b, << >> when it is not
  bxSrc,       \* the argument, constant
  bxPos,       \* characters consumed
  bxOut,       \* bytes stored at dest, in order
  bxSize,  \* dwDestSize
  bxAsserted,  \* an assert of the decoder failed (NDEBUG is not defined)
  bxResult     \* the value returned, -1 while running

bxVars == <<bxBase, bxPlain, bxSrc, bxPos, bxOut, bxSize, bxAsserted, bxResult>>

\* BASEXX_MAX_VALUE, _INPUT, _OUTPUT and _MAX_PADDING of the base.
Bits       == CASE bxBase = 16 -> 4 [] bxBase = 32 -> 5 [] bxBase = 64 -> 6
BlockChars == CASE bxBase = 16 -> 2 [] bxBase = 32 -> 8 [] bxBase = 64 -> 4
BlockBytes == (Bits * BlockChars) \div 8
MaxPadding == CASE bxBase = 16 -> 0 [] bxBase = 32 -> 6 [] bxBase = 64 -> 2
MaxValue   == 2^Bits - 1
Pad        == MaxValue + 1

-----------------------------------------------------------------------------
(* Blocks.  The bits of a block are those of its bytes, most significant   *)
(* first, cut anew into characters; a character lies in two bytes at most, *)
(* a byte in three characters.                                             *)

At(q, i) == IF i \in 1..Len(q) THEN q[i] ELSE 0

\* Bits f+1 .. f+Bits of the bytes; bytes after the last count as zero.
CharAt(bytes, f) ==
  LET i == f \div 8 + 1
  IN  ((At(bytes, i) * 256 + At(bytes, i + 1)) \div 2^(16 - Bits - (f % 8))) % 2^Bits

\* Mutant: the bits of the last character are not or-ed in.
ByteLow(chars, f) ==
  LET i == f \div Bits + 1
  IN  ((At(chars, i) * 2^(2 * Bits)) \div 2^(3 * Bits - 8 - (f % Bits))) % 256

\* Mutant: padding is not masked.
ByteWide(chars, f) ==
  LET i == f \div Bits + 1
  IN  (At(chars, i) * 2^(2 * Bits) + At(chars, i + 1) * 2^Bits + At(chars, i + 2))
        \div 2^(3 * Bits - 8 - (f % Bits))

\* Bits f+1 .. f+8 of the characters; the masks let padding through as zero.
ByteAt(chars, f) ==
  LET i    == f \div Bits + 1
      d(j) == At(chars, j) % 2^Bits
  IN  ((d(i) * 2^(2 * Bits) + d(i + 1) * 2^Bits + d(i + 2)) \div 2^(3 * Bits - 8 - (f % Bits))) % 256

\* The characters that hold no bit of the input are padding.
EncodeBlock(bytes) ==
  [c \in 1..BlockChars |-> IF Bits * (c - 1) < 8 * Len(bytes) THEN CharAt(bytes, Bits * (c - 1))
                           ELSE Pad]

Encode(bytes) ==
  LET n == Len(bytes)
      From[i \in 0..n] ==
        IF i = n THEN << >>
        ELSE LET e == IF i + BlockBytes < n THEN i + BlockBytes ELSE n
             IN  EncodeBlock(SubSeq(bytes, i + 1, e)) \o From[e]
  IN  From[0]

\* Lengths of the buffers the callers allocate, terminator included.
EncodeGetLength(n) == ((n + BlockBytes - 1) \div BlockBytes) * BlockChars + 1
DecodeGetLength(n) == IF n % BlockChars # 0 THEN 0
                      ELSE ((n + BlockChars - 1) \div BlockChars) * BlockBytes + 1

\* cyoBaseXXValidate: values, then at most MaxPadding times padding.
Valid(s) ==
  /\ Len(s) % BlockChars = 0
  /\ \E k \in 0..Len(s) : /\ Len(s) - k <= MaxPadding
                          /\ \A i \in 1..k : s[i] <= MaxValue
                          /\ \A i \in (k + 1)..Len(s) : s[i] = Pad

-----------------------------------------------------------------------------
(* The decoder *)

\* Mutant: only the last character is checked for padding.
LastOnly == IF Bits = 4 THEN << >> ELSE <<BlockChars>>

\* The characters looked at for padding, each only when the one before is padding.
PadChain == CASE Bits = 6 -> <<4, 3>>
              [] Bits = 5 -> <<8, 6, 5, 3>>
              [] OTHER    -> << >>

\* Bytes of the block that are taken back from destSize.
Removed(b) ==
  LET m == Len(PadChain)
  IN  CHOOSE k \in 0..m : /\ \A i \in 1..k : b[PadChain[i]] = Pad
                          /\ k < m => b[PadChain[k + 1]] # Pad

\* Mutant: the last character of the alphabet is taken for a bad one.
StrictBlock(b) == \A i \in 1..BlockChars : b[i] < MaxValue \/ (i > 2 /\ b[i] = Pad)

\* The first two characters of a block are no padding, none is bad.
GoodBlock(b) == \A i \in 1..BlockChars : b[i] <= IF i <= 2 THEN MaxValue ELSE Pad

\* The asserts of cyoBase32Decode.
Asserts(b) ==
  Bits = 5 /\ b[8] = Pad =>
    /\ b[7] = Pad => b[6] = Pad
    /\ b[6] = Pad /\ b[5] = Pad => (b[4] = Pad => b[3] = Pad)

\* Mutant: the size is not checked.
AnySize == TRUE

SizeOK == Len(bxSrc) % BlockChars = 0

Refuse ==
  /\ bxResult = -1 /\ bxPos = 0 /\ ~SizeOK
  /\ bxResult' = 0
  /\ UNCHANGED <<bxBase, bxPlain, bxSrc, bxPos, bxOut, bxSize, bxAsserted>>

\* One turn of the loop.
Block ==
  /\ bxResult = -1 /\ SizeOK /\ bxPos < Len(bxSrc)
  /\ LET b == [i \in 1..BlockChars |-> At(SubSeq(bxSrc, bxPos + 1, Len(bxSrc)), i)]
     IN  IF ~GoodBlock(b)
         THEN bxResult' = 0 /\ UNCHANGED <<bxPos, bxOut, bxSize, bxAsserted>>
         ELSE /\ bxPos' = bxPos + BlockChars
              /\ bxOut' = bxOut \o [i \in 1..BlockBytes |-> ByteAt(b, 8 * (i - 1))]
              /\ bxSize' = bxSize + BlockBytes - Removed(b)
              /\ bxAsserted' = (bxAsserted \/ ~Asserts(b))
              /\ UNCHANGED bxResult
  /\ UNCHANGED <<bxBase, bxPlain, bxSrc>>

\* The terminator is stored after the last whole block.
Finish ==
  /\ bxResult = -1 /\ SizeOK /\ bxPos >= Len(bxSrc)
  /\ bxOut' = Append(bxOut, 0)
  /\ bxResult' = bxSize
  /\ UNCHANGED <<bxBase, bxPlain, bxSrc, bxPos, bxSize, bxAsserted>>

BxInit ==
  /\ bxBase \in Bases
  /\ \/ \E b \in Inputs[bxBase] : bxPlain = <<b>> /\ bxSrc = Encode(b)
     \/ bxPlain = << >> /\ bxSrc \in Sources[bxBase]
  /\ bxPos = 0 /\ bxOut = << >> /\ bxSize = 0 /\ bxAsserted = FALSE /\ bxResult = -1

BxNext == Refuse \/ Block \/ Finish

BxSpec == BxInit /\ [][BxNext]_bxVars

-----------------------------------------------------------------------------
(* Properties *)

BxTypeOK ==
  /\ bxPos \in Nat /\ bxOut \in Seq(Byte) /\ bxSize \in 0..Len(bxOut)
  /\ bxAsserted \in BOOLEAN /\ bxResult \in Int

\* The decoder stores no byte outside a buffer of the length DecodeGetLength gives.
NoOverrun == Len(bxOut) <= DecodeGetLength(Len(bxSrc))

\* What Validate accepts, the decoder does not refuse.
ValidIsDecoded == Valid(bxSrc) /\ bxResult >= 0 => bxPos = Len(bxSrc)

\* Decoding an encoding gives the input back, length and bytes, and the encoding has
\* the length its buffer was allocated for.
RoundTrip ==
  bxPlain # << >> =>
    /\ Len(bxSrc) + 1 = EncodeGetLength(Len(bxPlain[1]))
    /\ bxResult >= 0 => bxResult = Len(bxPlain[1]) /\ SubSeq(bxOut, 1, bxResult) = bxPlain[1]

\* CyoDecode.c:272 and 279: the asserted relations of the padding hold for whatever
\* Validate calls a valid encoding.
AssertsHold == Valid(bxSrc) => ~bxAsserted

\* Encoder, validator and decoder agree with each other, inside of their buffers.
BxCorrect == NoOverrun /\ ValidIsDecoded /\ RoundTrip

=============================================================================
