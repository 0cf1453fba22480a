----------------------------- MODULE CipherModes -----------------------------
(***************************************************************************)
(* The modes of the block cipher (sqlite3/rijndael.c): ECB, CBC and CFB1,  *)
(* whole blocks or padded, into memory of their own or in place, as        *)
(* CodecAES uses CBC for the pages of the database.  The cipher under one  *)
(* key is a permutation of the blocks.  A behaviour encrypts and then      *)
(* decrypts, one action per block, or decrypts what nobody encrypted.      *)
(* Bytes are of two bits, blocks of CmBlock bytes.                         *)
(***************************************************************************)
EXTENDS Integers, Sequences, SequencesExt

CONSTANTS
  CmBlock,    \* bytes of a block: 16
  Perm,       \* the cipher, a permutation of the blocks
  CmIv,       \* m_initVector
  CmPlains,   \* what is encrypted: sequences of bytes
  CmCiphers   \* what is decrypted without having been encrypted

CmByte == 0..3
Blks   == [1..CmBlock -> CmByte]

ASSUME CipherModesAssumption ==
  /\ CmBlock \in {2, 3}                        \* a byte can say how much padding there is
  /\ DOMAIN Perm = Blks /\ \A b \in Blks : Perm[b] \in Blks /\ \A c \in Blks : Perm[b] = Perm[c] => b = c
  /\ CmIv \in Blks
  /\ CmPlains \subseteq Seq(CmByte) \ {<< >>} /\ CmCiphers \subseteq Seq(CmByte) \ {<< >>}

VARIABLES
  cmCall,    \* [mode, pad, inPlace], constant
  cmPlain,   \* what is encrypted, << >> for none, constant
  cmSealed,  \* the ciphertext, << >> until it is there
  cmMem,     \* the memory of input and output
  cmLen,     \* bytes of the input
  cmAt,      \* the number of blocks done
  cmChain,   \* iv, what the next block is combined with
  cmText,    \* what decryption answers
  cmPc       \* "encrypt" | "sealed" | "decrypt" | "done" | "corrupted"

cmVars == <<cmCall, cmPlain, cmSealed, cmMem, cmLen, cmAt, cmChain, cmText, cmPc>>

Modes == {"ECB", "CBC", "CFB1"}

NumBlocks == cmLen \div CmBlock

\* The memory stays what the caller has provided, and the last block ends a call.
CmTypeOK ==
  /\ cmMem \in Seq(CmByte) /\ cmChain \in Blks
  /\ cmAt \in 0..(NumBlocks + 1) /\ cmLen \in 1..Len(cmMem)
  /\ Len(cmMem) \in {cmLen, 2 * cmLen, (NumBlocks + 1) * CmBlock, cmLen + (NumBlocks + 1) * CmBlock}
  /\ cmPc \in {"encrypt", "sealed", "decrypt", "done", "corrupted"}

-----------------------------------------------------------------------------
(* Blocks, and the memory they are in *)

XorByte(a, b) == 2 * ((a \div 2 + b \div 2) % 2) + ((a + b) % 2)
Xor(b, c)     == [i \in 1..CmBlock |-> XorByte(b[i], c[i])]
Encrypted(b)  == Perm[b]
Decrypted(c)  == CHOOSE b \in Blks : Perm[b] = c

\* outBuffer, as bytes from the beginning of the memory.
OutAt == IF cmCall.inPlace THEN 0 ELSE cmLen

\* Memory with the input and room for the output, as the header asks for it.
Provided(input, room) ==
  input \o [i \in 1..(IF ~cmCall.inPlace THEN room ELSE IF room > Len(input) THEN room - Len(input) ELSE 0) |-> 0]

InputBlock(i) == SubSeq(cmMem, i * CmBlock + 1, (i + 1) * CmBlock)

\* The memory with the output's bytes from block i on; it grows if they leave it.
StoredBytes(i, bytes) ==
  LET at == OutAt + i * CmBlock
  IN  [p \in DOMAIN cmMem \cup ((at + 1)..(at + Len(bytes))) |->
         IF p - at \in DOMAIN bytes THEN bytes[p - at] ELSE cmMem[p]]

-----------------------------------------------------------------------------
(* CFB1: one bit at a time *)

CmLast == 2 * CmBlock - 1

Bit(b, k) == (b[k \div 2 + 1] \div (IF k % 2 = 0 THEN 2 ELSE 1)) % 2

FromBits(bits) == [i \in 1..CmBlock |-> 2 * bits[2 * i - 2] + bits[2 * i - 1]]

\* The register moved by one bit, with a new last one.
ShiftedIn(iv, bit) == FromBits([k \in 0..CmLast |-> IF k = CmLast THEN bit ELSE Bit(iv, k + 1)])

\* The registers before every bit of the block b; the ciphertext's bits enter.
Registers(b, encrypt) ==
  LET R[k \in 0..(CmLast + 1)] ==
        IF k = 0 THEN cmChain
        ELSE LET bit == Bit(b, k - 1)
             IN  ShiftedIn(R[k - 1], IF encrypt THEN (bit + Bit(Encrypted(R[k - 1]), 0)) % 2 ELSE bit)
  IN  R

Cfb(b, encrypt) ==
  FromBits([k \in 0..CmLast |-> (Bit(b, k) + Bit(Encrypted(Registers(b, encrypt)[k]), 0)) % 2])

-----------------------------------------------------------------------------
(* A call *)

\* Mutant: the padding of whole blocks is left out.
LastPlainNone ==
  LET rest == SubSeq(cmMem, NumBlocks * CmBlock + 1, cmLen)
  IN  rest \o [i \in 1..(CmBlock - Len(rest)) |-> (CmBlock - Len(rest)) % CmBlock]

\* The bytes behind the last whole block, and as many of the padding's length.
LastPlain ==
  LET rest == SubSeq(cmMem, NumBlocks * CmBlock + 1, cmLen)
  IN  rest \o [i \in 1..(CmBlock - Len(rest)) |-> CmBlock - Len(rest)]

\* Mutant: only the last byte of the padding is looked at.
UnpaddedLast(block) ==
  LET padLen == block[CmBlock]
      fits   == IF cmCall.mode = "ECB" THEN padLen < CmBlock ELSE padLen > 0 /\ padLen <= CmBlock
  IN  IF fits THEN <<SubSeq(block, 1, CmBlock - padLen)>> ELSE << >>

\* What remains of a block without its padding, or nothing if it has none: ECB takes a
\* whole block of padding for none, and no padding for padding.
Unpadded(block) ==
  LET padLen == block[CmBlock]
      fits   == IF cmCall.mode = "ECB" THEN padLen < CmBlock ELSE padLen > 0 /\ padLen <= CmBlock
  IN  IF fits /\ \A i \in (CmBlock - padLen + 1)..CmBlock : block[i] = padLen
        THEN <<SubSeq(block, 1, CmBlock - padLen)>> ELSE << >>

\* RijndaelBlockEncrypt asks for whole blocks, at least one; its CFB1 combines into
\* what the output holds, so that it is for use in place.
CmInit ==
  /\ cmCall \in {c \in [mode : Modes, pad : BOOLEAN, inPlace : BOOLEAN] : c.mode = "CFB1" => ~c.pad /\ c.inPlace}
  /\ \/ /\ cmPlain \in {p \in CmPlains : ~cmCall.pad => Len(p) >= CmBlock}
        /\ cmLen = Len(cmPlain) /\ cmSealed = << >>
        /\ cmMem = Provided(cmPlain, IF cmCall.pad THEN (NumBlocks + 1) * CmBlock ELSE cmLen)
        /\ cmPc = "encrypt"
     \/ /\ cmPlain = << >>
        /\ cmSealed \in CmCiphers /\ cmCall.pad
        /\ cmLen = Len(cmSealed) /\ cmMem = Provided(cmSealed, cmLen)
        /\ cmPc = "decrypt"
  /\ cmAt = 0 /\ cmChain = CmIv /\ cmText = << >>

\* Where a block is read and written: CFB1 does not move on in the memory.
BlockPlace == IF cmCall.mode = "CFB1" THEN 0 ELSE cmAt

SealedBlock(b) ==
  CASE cmCall.mode = "ECB"  -> Encrypted(b)
    [] cmCall.mode = "CBC"  -> Encrypted(Xor(b, cmChain))
    [] cmCall.mode = "CFB1" -> Cfb(b, TRUE)

OpenedBlock(c) ==
  CASE cmCall.mode = "ECB"  -> Decrypted(c)
    [] cmCall.mode = "CBC"  -> Xor(Decrypted(c), cmChain)
    [] cmCall.mode = "CFB1" -> Cfb(c, FALSE)

\* Mutant: the chain is taken from what is in the input's place when the block is done.
NextChainLate(c) ==
  IF cmCall.mode = "CFB1" THEN Registers(c, FALSE)[CmLast + 1]
  ELSE SubSeq(cmMem', BlockPlace * CmBlock + 1, (BlockPlace + 1) * CmBlock)

\* iv behind the block with the ciphertext c: that ciphertext, or the shifted register.
NextChain(c) == IF cmCall.mode = "CFB1" THEN Registers(c, FALSE)[CmLast + 1] ELSE c

\* iv of CBC is the output of the block before, which stays where it is.
EncryptBlock ==
  /\ cmPc = "encrypt" /\ cmAt < NumBlocks
  /\ cmMem' = StoredBytes(BlockPlace, SealedBlock(InputBlock(BlockPlace)))
  /\ cmChain' = NextChain(SealedBlock(InputBlock(BlockPlace)))
  /\ cmAt' = cmAt + 1
  /\ UNCHANGED <<cmCall, cmPlain, cmSealed, cmLen, cmText, cmPc>>

\* The end of RijndaelBlockEncrypt, or the padded block of RijndaelPadEncrypt.
EncryptEnd ==
  /\ cmPc = "encrypt" /\ cmAt = NumBlocks
  /\ IF cmCall.pad THEN cmMem' = StoredBytes(cmAt, SealedBlock(LastPlain)) /\ cmAt' = cmAt + 1
     ELSE UNCHANGED <<cmMem, cmAt>>
  /\ cmSealed' = SubSeq(cmMem', OutAt + 1, OutAt + cmAt' * CmBlock)
  /\ cmPc' = "sealed"
  /\ UNCHANGED <<cmCall, cmPlain, cmLen, cmChain, cmText>>

\* The ciphertext is given to a cipher of the other direction.
TurnRound ==
  /\ cmPc = "sealed" /\ cmPc' = "decrypt"
  /\ cmMem' = Provided(cmSealed, Len(cmSealed)) /\ cmLen' = Len(cmSealed)
  /\ cmAt' = 0 /\ cmChain' = CmIv
  /\ UNCHANGED <<cmCall, cmPlain, cmSealed, cmText>>

\* Padded text is whole blocks, of which the last is for Unpad.
LoopBlocks == IF cmCall.pad THEN NumBlocks - 1 ELSE NumBlocks

DecryptBlock ==
  /\ cmPc = "decrypt" /\ cmAt < LoopBlocks /\ (cmCall.pad => cmLen % CmBlock = 0)
  /\ cmMem' = StoredBytes(BlockPlace, OpenedBlock(InputBlock(BlockPlace)))
  /\ cmChain' = NextChain(InputBlock(BlockPlace))
  /\ cmAt' = cmAt + 1
  /\ UNCHANGED <<cmCall, cmPlain, cmSealed, cmLen, cmText, cmPc>>

\* The end of RijndaelBlockDecrypt.
DecryptEnd ==
  /\ cmPc = "decrypt" /\ ~cmCall.pad /\ cmAt = LoopBlocks
  /\ cmText' = SubSeq(cmMem, OutAt + 1, OutAt + NumBlocks * CmBlock)
  /\ cmPc' = "done"
  /\ UNCHANGED <<cmCall, cmPlain, cmSealed, cmMem, cmLen, cmAt, cmChain>>

\* The last block of RijndaelPadDecrypt without its padding.
Unpad ==
  /\ cmPc = "decrypt" /\ cmCall.pad /\ cmLen % CmBlock = 0 /\ cmAt = LoopBlocks
  /\ LET rest == Unpadded(OpenedBlock(InputBlock(cmAt)))
     IN  /\ rest # << >>
         /\ cmMem' = StoredBytes(cmAt, rest[1])
         /\ cmText' = SubSeq(cmMem', OutAt + 1, OutAt + cmAt * CmBlock + Len(rest[1]))
  /\ cmPc' = "done"
  /\ UNCHANGED <<cmCall, cmPlain, cmSealed, cmLen, cmAt, cmChain>>

\* RIJNDAEL_CORRUPTED_DATA: no whole blocks, or no padding.
RefusePadding ==
  /\ cmPc = "decrypt" /\ cmCall.pad
  /\ \/ cmLen % CmBlock # 0
     \/ cmAt = LoopBlocks /\ Unpadded(OpenedBlock(InputBlock(cmAt))) = << >>
  /\ cmPc' = "corrupted"
  /\ UNCHANGED <<cmCall, cmPlain, cmSealed, cmMem, cmLen, cmAt, cmChain, cmText>>

CmNext == EncryptBlock \/ EncryptEnd \/ TurnRound \/ DecryptBlock \/ DecryptEnd \/ Unpad \/ RefusePadding

CmSpec == CmInit /\ [][CmNext]_cmVars

-----------------------------------------------------------------------------
(* Properties *)

\* The text as the mode defines it to be encrypted: whole blocks, the last one padded.
Blocked(text) ==
  LET more  == CmBlock - (Len(text) % CmBlock)
      bytes == IF cmCall.pad THEN text \o [i \in 1..more |-> more] ELSE text
  IN  [i \in 1..(Len(bytes) \div CmBlock) |-> SubSeq(bytes, (i - 1) * CmBlock + 1, i * CmBlock)]

Chained(text) ==
  LET b == Blocked(text)
      C[i \in 0..Len(b)] ==
        IF i = 0 THEN CmIv ELSE Encrypted(IF cmCall.mode = "CBC" THEN Xor(b[i], C[i - 1]) ELSE b[i])
  IN  FlattenSeq([i \in DOMAIN b |-> C[i]])

\* In place as well as not, what is written is what ECB and CBC define.
SealedRight == cmPlain # << >> /\ cmSealed # << >> /\ cmCall.mode # "CFB1" => cmSealed = Chained(cmPlain)

\* What is decrypted is what was encrypted; of an unpadded text the whole blocks.  CFB1
\* does so for one block.
RoundTrips ==
  cmPc = "done" /\ cmPlain # << >> /\ (cmCall.mode = "CFB1" => NumBlocks = 1) =>
    cmText = SubSeq(cmPlain, 1, IF cmCall.pad THEN Len(cmPlain) ELSE NumBlocks * CmBlock)

\* CBC refuses nothing that it has padded, and accepts nothing else: what it decrypts
\* would be encrypted to the same bytes.  (ECB refuses its own whole block of padding.)
OnlyPadded ==
  cmCall.mode = "CBC" =>
    /\ cmPc = "corrupted" => cmPlain = << >>
    /\ cmPc = "done" /\ cmCall.pad => Chained(cmText) = cmSealed

CmCorrect == SealedRight /\ RoundTrips /\ OnlyPadded

=============================================================================
