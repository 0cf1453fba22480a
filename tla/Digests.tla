------------------------------- MODULE Digests -------------------------------
(***************************************************************************)
(* MD5 (sqlite3/codec.c) and SHA-2 (sqlite3/sha2.c) up to their            *)
(* compression functions: how a message that comes in chunks of any length *)
(* is cut into blocks and padded.  What a digest depends on is the         *)
(* sequence of blocks that are compressed.  A byte of the message is its   *)
(* number; the length takes two words of one cell each.                    *)
(***************************************************************************)
EXTENDS Integers, Sequences, SequencesExt

CONSTANTS
  DgLengths,  \* lengths of messages
  DgBlock,    \* bytes of a block: 64
  DgBits,     \* bits of a byte: 8
  DgWord      \* 2^32, the values of a word of the length

ASSUME DigestsAssumption ==
  /\ DgLengths \subseteq Nat
  /\ DgBlock \in Nat /\ DgBlock > 3 /\ DgBits \in Nat \ {0}
  /\ DgWord \in Nat \ {0} /\ DgWord % (DgBlock * DgBits) = 0

VARIABLES
  dgFn,      \* "md5" | "sha", constant
  dgLen,     \* the length of the message, constant
  dgSent,    \* how much of it has been given to update
  dgIn,      \* ctx->in of MD5, ctx->block of SHA-2, which has two blocks
  dgCount,   \* MD5: bits[0], bits[1]; SHA-2: len, tot_len
  dgBlocks,  \* the blocks compressed so far
  dgPc       \* "run" | "done"

dgVars == <<dgFn, dgLen, dgSent, dgIn, dgCount, dgBlocks, dgPc>>

DgField == 2

MsgByte(i)    == <<"byte", i>>
ZeroByte      == <<"zero", 0>>
Mark          == <<"mark", 0>>   \* 0x80
Unset         == <<"unset", 0>>
LengthWord(w) == IF w = 0 THEN ZeroByte ELSE <<"word", w>>
ZeroBytes(n)  == [i \in 1..n |-> ZeroByte]
MsgChunk(n)   == [i \in 1..n |-> MsgByte(dgSent + i)]

DgSize == IF dgFn = "md5" THEN DgBlock ELSE 2 * DgBlock

\* The array stays the memory it was declared with.
DgTypeOK ==
  /\ dgSent \in 0..dgLen /\ Len(dgIn) = DgSize
  /\ \A i \in DOMAIN dgCount : dgCount[i] \in 0..(DgWord - 1)
  /\ \A i \in DOMAIN dgBlocks : Len(dgBlocks[i]) = DgBlock

-----------------------------------------------------------------------------
(* Memory *)

\* Cells written from position at (counted from 0) on; beyond the array they lengthen it.
Overlay(mem, at, cells) ==
  [i \in 1..(IF Len(cells) > 0 /\ at + Len(cells) > Len(mem) THEN at + Len(cells) ELSE Len(mem)) |->
     IF i - at \in DOMAIN cells THEN cells[i - at] ELSE mem[i]]

\* The n blocks of s that begin behind its first skip cells.
BlocksOf(s, skip, n) == [i \in 1..n |-> SubSeq(s, skip + (i - 1) * DgBlock + 1, skip + i * DgBlock)]

-----------------------------------------------------------------------------
(* MD5 *)

Md5Held == (dgCount[1] \div DgBits) % DgBlock

\* Mutant: the carry from the low word is forgotten.
Md5CountedLow(n) ==
  <<(dgCount[1] + n * DgBits) % DgWord, (dgCount[2] + (n * DgBits) \div DgWord) % DgWord>>

\* The two words of the length, n bytes later.
Md5Counted(n) ==
  LET low == (dgCount[1] + n * DgBits) % DgWord
  IN  <<low, (dgCount[2] + (n * DgBits) \div DgWord + (IF low < dgCount[1] THEN 1 ELSE 0)) % DgWord>>

\* Mutant: a chunk that fills the block exactly is only stored as well.
Md5FitsFull(n) == Md5Held > 0 /\ n <= DgBlock - Md5Held

\* Mutant: what the block holds already is not counted.
Md5FitsEmpty(n) == Md5Held > 0 /\ n < DgBlock

\* The chunk does not complete the block that is begun.
Md5Fits(n) == Md5Held > 0 /\ n < DgBlock - Md5Held

MD5Update(n) ==
  LET chunk == MsgChunk(n)
      lead  == IF Md5Held = 0 THEN 0 ELSE DgBlock - Md5Held
      turns == (n - lead) \div DgBlock
      first == IF Md5Held = 0 THEN << >> ELSE <<Overlay(dgIn, Md5Held, SubSeq(chunk, 1, lead))>>
      whole == first \o BlocksOf(chunk, lead, turns)
  IN  /\ dgCount' = Md5Counted(n)
      /\ IF Md5Fits(n)
           THEN dgIn' = Overlay(dgIn, Md5Held, chunk) /\ UNCHANGED dgBlocks
           ELSE /\ dgBlocks' = dgBlocks \o whole
                /\ dgIn' = Overlay(IF whole = << >> THEN dgIn ELSE Last(whole), 0,
                                   SubSeq(chunk, lead + turns * DgBlock + 1, n))

\* The length goes behind what is held, in the same block or in one of its own.
MD5Final ==
  LET marked == Overlay(dgIn, Md5Held, <<Mark>>)
      free   == DgBlock - 1 - Md5Held
      filled == Overlay(marked, Md5Held + 1, ZeroBytes(free))
      last   == IF free < DgField THEN Overlay(filled, 0, ZeroBytes(DgBlock - DgField))
                ELSE Overlay(marked, Md5Held + 1, ZeroBytes(free - DgField))
      summed == Overlay(last, DgBlock - DgField, <<LengthWord(dgCount[1]), LengthWord(dgCount[2])>>)
  IN  /\ dgBlocks' = dgBlocks \o (IF free < DgField THEN <<filled>> ELSE << >>) \o <<summed>>
      /\ dgIn' = summed
      /\ UNCHANGED dgCount

-----------------------------------------------------------------------------
(* SHA-2: the same for its three sizes of words *)

ShaUpdate(n) ==
  LET chunk == MsgChunk(n)
      held  == dgCount[1]
      lead  == IF n < DgBlock - held THEN n ELSE DgBlock - held
      turns == (n - lead) \div DgBlock
      taken == Overlay(dgIn, held, SubSeq(chunk, 1, lead))
      rest  == SubSeq(chunk, lead + turns * DgBlock + 1, n)
  IN  IF held + n < DgBlock
        THEN dgIn' = taken /\ dgCount' = <<held + n, dgCount[2]>> /\ UNCHANGED dgBlocks
        ELSE /\ dgBlocks' = dgBlocks \o <<SubSeq(taken, 1, DgBlock)>> \o BlocksOf(chunk, lead, turns)
             /\ dgIn' = Overlay(taken, 0, rest)
             /\ dgCount' = <<Len(rest), (dgCount[2] + (turns + 1) * DgBlock) % DgWord>>

\* Mutant: a rest that leaves just enough room for both gets a second block.
ShaPadBlocksEarly(held) == IF DgBlock - (DgField + 1) <= held % DgBlock THEN 2 ELSE 1

\* Blocks that the padding needs: one more when mark and length do not fit behind the rest.
ShaPadBlocks(held) == IF DgBlock - (DgField + 1) < held % DgBlock THEN 2 ELSE 1

\* Only the low word of the length is written.
ShaFinal ==
  LET held == dgCount[1]
      size == ShaPadBlocks(held) * DgBlock
      bits == ((dgCount[2] + held) * DgBits) % DgWord
      mem  == Overlay(Overlay(Overlay(dgIn, held, ZeroBytes(size - held)), held, <<Mark>>),
                      size - 1, <<LengthWord(bits)>>)
  IN  /\ dgIn' = mem
      /\ dgBlocks' = dgBlocks \o BlocksOf(mem, 0, ShaPadBlocks(held))
      /\ UNCHANGED dgCount

-----------------------------------------------------------------------------
(* A message, chunk by chunk *)

\* MD5Init, sha256_init: what the array holds is whatever was there.
DgInit ==
  /\ dgFn \in {"md5", "sha"} /\ dgLen \in DgLengths
  /\ dgSent = 0 /\ dgIn = [i \in 1..DgSize |-> Unset] /\ dgCount = <<0, 0>> /\ dgBlocks = << >> /\ dgPc = "run"

DgUpdate ==
  /\ dgPc = "run" /\ dgSent < dgLen
  /\ \E n \in 0..(dgLen - dgSent) :
       /\ IF dgFn = "md5" THEN MD5Update(n) ELSE ShaUpdate(n)
       /\ dgSent' = dgSent + n
  /\ UNCHANGED <<dgFn, dgLen, dgPc>>

DgFinal ==
  /\ dgPc = "run" /\ dgSent = dgLen
  /\ IF dgFn = "md5" THEN MD5Final ELSE ShaFinal
  /\ dgPc' = "done"
  /\ UNCHANGED <<dgFn, dgLen, dgSent>>

DgNext == DgUpdate \/ DgFinal

DgSpec == DgInit /\ [][DgNext]_dgVars

-----------------------------------------------------------------------------
(* Properties *)

\* A message with the mark, as few zeros as fill the last block, and the length.
PaddedMessage(n, words) ==
  LET used == n + 1 + DgField
      fill == (DgBlock - (used % DgBlock)) % DgBlock
  IN  [i \in 1..n |-> MsgByte(i)] \o <<Mark>> \o ZeroBytes(fill) \o words

LengthWords ==
  IF dgFn = "md5" THEN <<LengthWord((dgLen * DgBits) % DgWord), LengthWord(((dgLen * DgBits) \div DgWord) % DgWord)>>
  ELSE <<ZeroByte, LengthWord(dgLen * DgBits)>>

\* However a message is cut into chunks, what is compressed is the message with the
\* standard's padding: every byte once and in order, none of the memory's older
\* contents, and the length carried into its second word.  SHA-2 writes one word of it
\* only, so for messages whose bits that word can count.
DgCorrect ==
  dgPc = "done" /\ (dgFn = "sha" => dgLen * DgBits < DgWord) =>
    LET padded == PaddedMessage(dgLen, LengthWords)
    IN  dgBlocks = BlocksOf(padded, 0, Len(padded) \div DgBlock)

=============================================================================
