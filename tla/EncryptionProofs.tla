-------------------------- MODULE EncryptionProofs -------------------------
(***************************************************************************)
(* The encryption of pages.  Crash safety of rekeying for any number of    *)
(* pages, keys and contents; and of what a page is encrypted with, for     *)
(* every permutation of the blocks, every message and every text: a digest *)
(* is of all of what has been passed to it in whatever pieces, a mode      *)
(* writes what it is defined to and is undone by its inverse.              *)
(*                                                                         *)
(* CrashSafe alone is not inductive: that the page put into the journal is *)
(* the committed one depends on what is in memory (ReadsCommitted), that   *)
(* the commit leaves one key on depends on every page having been visited  *)
(* and flushed, and both on the codec reading with the key of the file.    *)
(***************************************************************************)
EXTENDS PagerCodec, Digests, CipherModes, FiniteSetTheorems, WellFoundedInduction, TLAPS

\* Bookkeeping of the pager and of the loop, whatever was spoiled.
Settling ==
  /\ dirty \subseteq DOMAIN journal
  /\ \A p \in dirty : cache[p] # Absent
  /\ tx = "none" => dirty = {}
  /\ tx = "rekey" => /\ codec.enc /\ n >= 1
                     /\ \A p \in Used : p < n <=> p \in DOMAIN journal

\* The file with its journal is the last commit.
Recoverable == \A p \in Used : Restored[p] = Seal(fileKey, committed[p])

\* What is in memory is the last commit, but for the pages a transaction wrote.
Faithful == \A p \in Used : cache[p] # Absent /\ (p \notin DOMAIN journal \/ tx = "rekey")
                            => cache[p] = committed[p]

\* A codec that has read anything reads with the key of the file.
RightKey == tx # "none" \/ (\E p \in Pages : cache[p] # Absent) => ReadKey = fileKey

\* The pages sqlite3_rekey has flushed carry the new key and the old content.
Rewritten == tx = "rekey" => \A p \in DOMAIN journal \ dirty : file[p] = Seal(WriteKey, committed[p])

\* The pages a transaction has flushed carry the key of the file.
WrittenBack == tx = "write" => \A p \in DOMAIN journal \ dirty :
             /\ WriteKey = ReadKey /\ file[p].key = ReadKey
             /\ cache[p] # Absent => cache[p] = file[p].val

Sound == Recoverable /\ Faithful /\ RightKey /\ Rewritten /\ WrittenBack

Inv == TypeOK /\ KeysAgree /\ Settling /\ (~spoiled => Sound)

-----------------------------------------------------------------------------
(* Pages, keys and the codec *)

\* Opening a page with the key it was sealed with gives its content.
LEMMA OpenSeal ==
  ASSUME NEW k, NEW v
  PROVE  Open(k, Seal(k, v)) = v
BY DEF Open, Seal

\* Page 1 is a used page.
LEMMA FirstPage == 1 \in Used /\ 1 \in Pages
BY PagerCodecAssumption DEF Used, Pages

\* The keys in use are keys.
LEMMA KeyTypes ==
  ASSUME TypeOK
  PROVE  ReadKey \in Keys \cup {Plain} /\ WriteKey \in Keys \cup {Plain}
BY DEF TypeOK, Codec, ReadKey, WriteKey

LEMMA OpenType ==
  ASSUME NEW pg \in Page, NEW k
  PROVE  Open(k, pg) \in Content
BY DEF Page, Content, Open

\* A header that opens was sealed with the read key.
LEMMA ReadableKey ==
  ASSUME TypeOK, Sound, FirstReadable
  PROVE  ReadKey = fileKey
<1>1. CASE tx # "none" \/ cache[1] # Absent
  BY <1>1, FirstPage DEF Sound, RightKey
<1>2. CASE tx = "none" /\ cache[1] = Absent
  <2>1. file[1].key = ReadKey
    BY <1>2 DEF FirstReadable, Current, FromDisk, Open
  <2>2. Restored[1] = file[1]
    BY <1>2, FirstPage DEF FirstReadable, Restored, NoJournal
  <2>3. file[1] = Seal(fileKey, committed[1])
    BY <2>2, FirstPage DEF Sound, Recoverable
  <2> QED  BY <2>1, <2>3 DEF Seal
<1> QED  BY <1>1, <1>2

\* A used page that is not journalled reads as the last commit.
LEMMA CurrentIsCommitted ==
  ASSUME TypeOK, Sound, ReadKey = fileKey, NEW p \in Used, p \notin DOMAIN journal
  PROVE  Current(p) = committed[p]
<1>1. CASE cache[p] # Absent
  BY <1>1 DEF Sound, Faithful, Current
<1>2. CASE cache[p] = Absent
  <2>1. Restored[p] = file[p]
    BY DEF Restored, Used
  <2>2. file[p] = Seal(fileKey, committed[p])
    BY <2>1 DEF Sound, Recoverable
  <2> QED  BY <1>2, <2>2, OpenSeal DEF Current, FromDisk
<1> QED  BY <1>1, <1>2

\* sqlite3PagerWrite journals the committed image, so nothing is lost by it.
LEMMA JournalledPage ==
  ASSUME NEW p
  PROVE  /\ DOMAIN Journalled(p) = DOMAIN journal \cup {p}
         /\ \A q \in DOMAIN journal : Journalled(p)[q] = journal[q]
         /\ p \notin DOMAIN journal => Journalled(p)[p] = ToJournal(Current(p))
<1>1. CASE p \in DOMAIN journal
  BY <1>1 DEF Journalled
<1>2. CASE p \notin DOMAIN journal
  BY <1>2 DEF Journalled
<1> QED  BY <1>1, <1>2

LEMMA CurrentType ==
  ASSUME TypeOK, NEW p \in Pages
  PROVE  Current(p) \in Content
BY OpenType DEF TypeOK, Current, FromDisk

LEMMA JournalledType ==
  ASSUME TypeOK, NEW p \in Used
  PROVE  DOMAIN Journalled(p) \subseteq Used
         /\ \A q \in DOMAIN Journalled(p) : Journalled(p)[q] \in Page
<1>1. ToJournal(Current(p)) \in Page
  BY KeyTypes, CurrentType DEF ToJournal, Seal, Page, Used
<1>2. \A q \in DOMAIN journal : q \in Used /\ journal[q] \in Page
  BY DEF TypeOK
<1>3. DOMAIN Journalled(p) = DOMAIN journal \cup {p}
  BY JournalledPage
<1>4. \A q \in DOMAIN journal : Journalled(p)[q] \in Page
  BY <1>2, JournalledPage
<1>5. Journalled(p)[p] \in Page
  BY <1>1, <1>4, JournalledPage
<1> QED  BY <1>2, <1>3, <1>4, <1>5

\* Copying the journal back changes nothing that a second copy would.
LEMMA RestoredType ==
  ASSUME TypeOK
  PROVE  Restored \in [Pages -> Page]
BY DEF TypeOK, Restored, Used

\* Without a journal the restored file is the file.
LEMMA NothingToRestore ==
  ASSUME TypeOK, journal = NoJournal
  PROVE  Restored = file
<1>1. DOMAIN journal = {}
  BY DEF NoJournal
<1> QED  BY <1>1 DEF Restored, TypeOK

-----------------------------------------------------------------------------
(* The pager's actions *)

LEMMA LoadStep ==
  ASSUME Inv, NEW p \in Pages, Load(p)
  PROVE  Inv'
<1> USE DEF Inv, Load
<1>1. FromDisk(file[p]) \in Content
  BY OpenType DEF TypeOK, FromDisk
<1>2. TypeOK'
  BY <1>1 DEF TypeOK
<1>3. KeysAgree' /\ Settling'
  BY DEF KeysAgree, Settling, TypeOK
<1>4. ASSUME ~spoiled PROVE Sound'
  <2>1. ReadKey = fileKey
    BY <1>4, ReadableKey
  <2>2. ReadKey' = ReadKey /\ WriteKey' = WriteKey /\ Restored' = Restored
    BY DEF ReadKey, WriteKey, Restored
  <2>3. Recoverable' /\ RightKey'
    BY <1>4, <2>1, <2>2 DEF Sound, Recoverable, RightKey
  <2>4. p \notin DOMAIN journal => FromDisk(file[p]) = committed[p]
    BY <1>4, <2>1, CurrentIsCommitted DEF Current
  <2>5. Faithful'
    BY <1>4, <2>4 DEF Sound, Faithful, TypeOK
  <2>6. Rewritten' /\ WrittenBack'
    BY <1>4, <2>2 DEF Sound, Rewritten, WrittenBack, TypeOK, FromDisk, Open, Used
  <2> QED  BY <2>3, <2>5, <2>6 DEF Sound
<1> QED  BY <1>2, <1>3, <1>4

LEMMA EvictStep ==
  ASSUME Inv, NEW p \in Pages, Evict(p)
  PROVE  Inv'
<1> USE DEF Inv, Evict
<1>1. TypeOK'
  BY DEF TypeOK
<1>2. KeysAgree' /\ Settling'
  BY DEF KeysAgree, Settling, TypeOK
<1>3. ASSUME ~spoiled PROVE Sound'
  <2>1. ReadKey' = ReadKey /\ WriteKey' = WriteKey /\ Restored' = Restored
    BY DEF ReadKey, WriteKey, Restored
  <2>2. \A q \in Pages : cache'[q] # Absent => cache'[q] = cache[q]
    BY DEF TypeOK
  <2>3. Recoverable' /\ RightKey' /\ Faithful'
    BY <1>3, <2>1, <2>2 DEF Sound, Recoverable, RightKey, Faithful, Used
  <2>4. Rewritten' /\ WrittenBack'
    BY <1>3, <2>1, <2>2 DEF Sound, Rewritten, WrittenBack, TypeOK, Used
  <2> QED  BY <2>3, <2>4 DEF Sound
<1> QED  BY <1>1, <1>2, <1>3

LEMMA FlushStep ==
  ASSUME Inv, NEW p \in Pages, Flush(p)
  PROVE  Inv'
<1> USE DEF Inv, Flush
<1>1. p \in Used /\ p \in DOMAIN journal /\ cache[p] # Absent /\ tx # "none"
  BY DEF TypeOK, Settling
<1>2. cache[p] \in Content
  BY <1>1 DEF TypeOK
<1>3. ToFile(cache[p]) \in Page
  BY <1>2, KeyTypes DEF ToFile, Seal, Page
<1>4. TypeOK'
  BY <1>3 DEF TypeOK
<1>5. KeysAgree' /\ Settling'
  BY <1>1 DEF KeysAgree, Settling
<1>6. ASSUME ~spoiled' PROVE Sound'
  <2>1. ~spoiled /\ (tx = "write" => WriteKey = ReadKey)
    BY <1>6 DEF TypeOK
  <2>2. ReadKey' = ReadKey /\ WriteKey' = WriteKey
    BY DEF ReadKey, WriteKey
  <2>3. \A q \in Pages : Restored'[q] = Restored[q]
    BY <1>1 DEF Restored, TypeOK
  <2>4. Recoverable'
    BY <2>1, <2>3 DEF Sound, Recoverable, Used
  <2>5. Faithful' /\ RightKey'
    BY <2>1, <2>2 DEF Sound, Faithful, RightKey
  <2>6. file'[p] = Seal(WriteKey, cache[p])
    BY DEF ToFile, TypeOK
  <2>7. \A q \in Pages : q # p => file'[q] = file[q]
    BY DEF TypeOK
  <2>8. Rewritten'
    <3>1. tx = "rekey" => cache[p] = committed[p]
      BY <1>1, <2>1 DEF Sound, Faithful
    <3>2. DOMAIN journal \subseteq Pages
      BY DEF TypeOK, Used
    <3> QED  BY <2>1, <2>2, <2>6, <2>7, <3>1, <3>2 DEF Sound, Rewritten
  <2>9. WrittenBack'
    <3>1. DOMAIN journal \subseteq Pages
      BY DEF TypeOK, Used
    <3>2. file'[p].key = WriteKey /\ file'[p].val = cache[p]
      BY <2>6 DEF Seal
    <3> QED  BY <2>1, <2>2, <2>7, <3>1, <3>2 DEF Sound, WrittenBack
  <2> QED  BY <2>4, <2>5, <2>8, <2>9 DEF Sound
<1> QED  BY <1>4, <1>5, <1>6

LEMMA PlayBackStep ==
  ASSUME Inv, PlayBack
  PROVE  Inv'
<1> USE DEF Inv, PlayBack
<1>1. TypeOK'
  BY RestoredType DEF TypeOK, NoJournal
<1>2. KeysAgree' /\ Settling'
  BY DEF KeysAgree, Settling
<1>3. ASSUME ~spoiled PROVE Sound'
  <2>1. Restored' = Restored
    BY <1>1, RestoredType, NothingToRestore DEF Restored, NoJournal, TypeOK
  <2>2. Recoverable'
    BY <1>3, <2>1 DEF Sound, Recoverable
  <2>3. Faithful' /\ RightKey' /\ Rewritten' /\ WrittenBack'
    BY DEF Faithful, RightKey, Rewritten, WrittenBack, Used
  <2> QED  BY <2>2, <2>3 DEF Sound
<1> QED  BY <1>1, <1>2, <1>3

\* A rollback, of an ordinary transaction or of a rekey, under an unchanged read key.
LEMMA RollbackSound ==
  ASSUME Inv, Rollback, tx # "none", tx' = "none", TypeOK', ReadKey' = ReadKey,
         UNCHANGED <<committed, fileKey, spoiled>>
  PROVE  ~spoiled => Sound'
<1> SUFFICES ASSUME ~spoiled PROVE Sound'
  OBVIOUS
<1>1. ReadKey = fileKey /\ Recoverable /\ Faithful
  BY DEF Inv, Sound, RightKey
<1>2. CASE file' = Restored /\ journal' = NoJournal /\ cache' = CacheAfterRollback
  <2>1. Restored' = Restored
    BY <1>2, RestoredType DEF Restored, NoJournal, Inv, TypeOK
  <2>2. \A p \in DOMAIN journal : FromDisk(journal[p]) = committed[p]
    <3> SUFFICES ASSUME NEW p \in DOMAIN journal PROVE FromDisk(journal[p]) = committed[p]
      OBVIOUS
    <3>1. p \in Used /\ Restored[p] = journal[p]
      BY DEF Inv, TypeOK, Restored, Used
    <3> QED  BY <3>1, <1>1, OpenSeal DEF Recoverable, FromDisk
  <2>3. Faithful'
    BY <1>1, <1>2, <2>2 DEF Faithful, CacheAfterRollback, Used
  <2> QED  BY <1>1, <2>1, <2>3 DEF Sound, Recoverable, RightKey, Rewritten, WrittenBack
<1>3. CASE cache' = [p \in Pages |-> Absent] /\ UNCHANGED <<file, journal>>
  <2>1. Restored' = Restored
    BY <1>3 DEF Restored
  <2> QED  BY <1>1, <1>3, <2>1 DEF Sound, Recoverable, Faithful, RightKey, Rewritten, WrittenBack, Used
<1> QED  BY <1>2, <1>3 DEF Rollback

LEMMA RollbackTypes ==
  ASSUME TypeOK, Rollback
  PROVE  /\ file' \in [Pages -> Page]
         /\ DOMAIN journal' \subseteq Used /\ \A p \in DOMAIN journal' : journal'[p] \in Page
         /\ cache' \in [Pages -> Content \cup {Absent}]
         /\ dirty' = {}
<1>1. CASE file' = Restored /\ journal' = NoJournal /\ cache' = CacheAfterRollback /\ dirty' = {}
  <2>1. \A p \in DOMAIN journal : FromDisk(journal[p]) \in Content
    BY OpenType DEF TypeOK, FromDisk
  <2>2. CacheAfterRollback \in [Pages -> Content \cup {Absent}]
    BY <2>1 DEF TypeOK, CacheAfterRollback
  <2> QED  BY <1>1, <2>2, RestoredType DEF NoJournal
<1>2. CASE cache' = [p \in Pages |-> Absent] /\ dirty' = {} /\ UNCHANGED <<file, journal>>
  BY <1>2 DEF TypeOK
<1> QED  BY <1>1, <1>2 DEF Rollback

-----------------------------------------------------------------------------
(* Write transactions *)

LEMMA BeginWriteStep ==
  ASSUME Inv, BeginWrite
  PROVE  Inv'
<1> USE DEF Inv, BeginWrite
<1>1. TypeOK' /\ KeysAgree' /\ Settling'
  BY DEF TypeOK, KeysAgree, Settling
<1>2. ASSUME ~spoiled PROVE Sound'
  <2>1. ReadKey' = ReadKey /\ WriteKey' = WriteKey /\ Restored' = Restored
    BY DEF ReadKey, WriteKey, Restored
  <2>2. ReadKey = fileKey
    BY <1>2, ReadableKey
  <2>3. DOMAIN journal = {}
    BY DEF FirstReadable, NoJournal
  <2>4. Recoverable' /\ RightKey' /\ Faithful'
    BY <1>2, <2>1, <2>2 DEF Sound, Recoverable, RightKey, Faithful
  <2> QED  BY <2>3, <2>4 DEF Sound, Rewritten, WrittenBack
<1> QED  BY <1>1, <1>2

\* The journal grows by the committed image of the page, so a rollback still finds
\* the last commit.
LEMMA JournalledSound ==
  ASSUME TypeOK, Sound, ReadKey = fileKey, NEW p \in Used,
         journal' = Journalled(p), UNCHANGED <<file, committed, fileKey>>
  PROVE  Recoverable'
<1> SUFFICES ASSUME NEW q \in Used PROVE Restored'[q] = Seal(fileKey, committed[q])
  BY DEF Recoverable
<1>1. DOMAIN journal' = DOMAIN journal \cup {p}
  BY JournalledPage
<1>2. Restored[q] = Seal(fileKey, committed[q])
  BY DEF Sound, Recoverable
<1>3. CASE q \in DOMAIN journal
  BY <1>1, <1>2, <1>3, JournalledPage DEF Restored, Used
<1>4. CASE q \notin DOMAIN journal /\ q = p
  <2>1. journal'[p] = ToJournal(Current(p))
    BY <1>4, JournalledPage
  <2> QED  BY <1>1, <1>4, <2>1, CurrentIsCommitted DEF Restored, Used, ToJournal
<1>5. CASE q \notin DOMAIN journal /\ q # p
  BY <1>1, <1>2, <1>5 DEF Restored, Used
<1> QED  BY <1>3, <1>4, <1>5

LEMMA WriteStep ==
  ASSUME Inv, NEW p \in Pages, NEW v \in Vals, Write(p, v)
  PROVE  Inv'
<1> USE DEF Inv, Write
<1>1. DOMAIN journal' = DOMAIN journal \cup {p}
  BY JournalledPage
<1>2. TypeOK'
  BY JournalledType DEF TypeOK, Content
<1>3. v # Absent
  BY PagerCodecAssumption
<1>4. KeysAgree' /\ Settling'
  BY <1>1, <1>3 DEF KeysAgree, Settling, TypeOK
<1>5. ASSUME ~spoiled PROVE Sound'
  <2>1. ReadKey' = ReadKey /\ WriteKey' = WriteKey
    BY DEF ReadKey, WriteKey
  <2>2. Sound /\ p \in Used /\ ReadKey = fileKey
    BY <1>5 DEF Sound, RightKey
  <2>3. Recoverable'
    BY <2>2, JournalledSound
  <2>4. Faithful' /\ RightKey' /\ Rewritten'
    BY <1>1, <2>1, <2>2 DEF Sound, Faithful, RightKey, Rewritten, TypeOK
  <2>5. DOMAIN journal' \ dirty' = (DOMAIN journal \ dirty) \ {p}
    BY <1>1
  <2>6. \A q \in Pages : q # p => cache'[q] = cache[q]
    BY DEF TypeOK
  <2>7. WrittenBack'
    BY <1>1, <2>1, <2>2, <2>5, <2>6 DEF Sound, WrittenBack, TypeOK, Used
  <2> QED  BY <2>3, <2>4, <2>7 DEF Sound
<1> QED  BY <1>2, <1>4, <1>5

LEMMA CommitStep ==
  ASSUME Inv, Commit
  PROVE  Inv'
<1> USE DEF Inv, Commit
<1>1. TypeOK'
  BY CurrentType DEF TypeOK, NoJournal, Used
<1>2. KeysAgree' /\ Settling'
  BY DEF KeysAgree, Settling
<1>3. ASSUME ~spoiled PROVE Sound'
  <2>1. ReadKey' = ReadKey /\ ReadKey = fileKey
    BY <1>3 DEF Sound, RightKey, ReadKey
  <2>2. Restored' = file
    BY <1>1, NothingToRestore DEF Restored, NoJournal, TypeOK
  <2>3. ASSUME NEW q \in Used, q \in DOMAIN journal
        PROVE  file[q] = Seal(fileKey, Current(q)) /\ (cache[q] # Absent => cache[q] = Current(q))
    <3>1. file[q].key = ReadKey /\ (cache[q] # Absent => cache[q] = file[q].val)
      BY <1>3, <2>3 DEF Sound, WrittenBack
    <3>2. file[q] = Seal(file[q].key, file[q].val)
      BY DEF TypeOK, Page, Seal, Used
    <3>3. Current(q) = file[q].val
      BY <3>1 DEF Current, FromDisk, Open
    <3> QED  BY <2>1, <3>1, <3>2, <3>3 DEF Current
  <2>4. ASSUME NEW q \in Used, q \notin DOMAIN journal
        PROVE  file[q] = Seal(fileKey, committed[q]) /\ (cache[q] # Absent => cache[q] = committed[q])
    <3>1. Restored[q] = file[q]
      BY <2>4 DEF Restored, Used
    <3> QED  BY <1>3, <2>4, <3>1 DEF Sound, Recoverable, Faithful
  <2>5. Recoverable' /\ Faithful'
    BY <2>2, <2>3, <2>4 DEF Recoverable, Faithful
  <2> QED  BY <2>1, <2>5 DEF Sound, RightKey, Rewritten, WrittenBack
<1> QED  BY <1>1, <1>2, <1>3

LEMMA AbortWriteStep ==
  ASSUME Inv, AbortWrite
  PROVE  Inv'
<1> USE DEF Inv, AbortWrite
<1>1. TypeOK'
  BY RollbackTypes DEF TypeOK
<1>2. KeysAgree' /\ Settling'
  BY RollbackTypes DEF KeysAgree, Settling
<1>3. ReadKey' = ReadKey
  BY DEF ReadKey
<1> QED  BY <1>1, <1>2, <1>3, RollbackSound

-----------------------------------------------------------------------------
(* Keys *)

LEMMA AttachStep ==
  ASSUME Inv, NEW k \in Keys, Attach(k)
  PROVE  Inv'
<1> USE DEF Inv, Attach
<1>1. TypeOK' /\ KeysAgree' /\ Settling'
  BY DEF TypeOK, Codec, KeysAgree, Settling
<1>2. ASSUME ~spoiled PROVE Sound'
  <2>1. Restored' = Restored
    BY DEF Restored
  <2> QED  BY <1>2, <2>1 DEF Sound, Recoverable, Faithful, RightKey, Rewritten, WrittenBack, Used
<1> QED  BY <1>1, <1>2

\* The codec of a rekey still reads as before, and so does the reverted one.
LEMMA RetargetedKeys ==
  ASSUME TypeOK, KeysAgree, tx = "none", NEW k \in Keys \cup {Plain}, k # Plain \/ codec.enc
  PROVE  /\ Retargeted(k) \in Codec /\ Retargeted(k).enc
         /\ (codec' = Retargeted(k) => ReadKey' = ReadKey)
         /\ (codec' = Reverted(Retargeted(k)) => codec' \in Codec /\ ReadKey' = ReadKey /\
               (codec'.enc /\ codec'.hasWrite => codec'.hasRead /\ codec'.writeKey = codec'.readKey))
<1> DEFINE c == Retargeted(k)
           r == Reverted(c)
<1>1. codec \in Codec /\ codec = [enc |-> codec.enc, hasRead |-> codec.hasRead,
        readKey |-> codec.readKey, hasWrite |-> codec.hasWrite, writeKey |-> codec.writeKey]
  BY DEF TypeOK, Codec
<1>2. CASE ~codec.enc
  <2>1. c = [enc |-> TRUE, hasRead |-> FALSE, readKey |-> Plain, hasWrite |-> TRUE, writeKey |-> k]
    BY <1>2 DEF Retargeted, NoCodec
  <2>2. r = NoCodec
    BY <2>1 DEF Reverted
  <2> HIDE DEF c, r
  <2>3. c \in Codec /\ r \in Codec
    BY <2>1, <2>2 DEF Codec, NoCodec
  <2>4. c.enc /\ ~c.hasRead /\ ~r.enc
    BY <2>1, <2>2 DEF NoCodec
  <2>5. ReadKey = Plain /\ (codec' = c => ReadKey' = Plain) /\ (codec' = r => ReadKey' = Plain)
    BY <1>2, <2>4 DEF ReadKey
  <2> QED  BY <2>3, <2>4, <2>5 DEF c, r
<1>3. CASE codec.enc
  <2>1. c = [codec EXCEPT !.hasWrite = FALSE] \/ c = [codec EXCEPT !.hasWrite = TRUE, !.writeKey = k]
    BY <1>3 DEF Retargeted
  <2>2. c \in Codec /\ c.enc /\ c.hasRead = codec.hasRead /\ c.readKey = codec.readKey
    BY <1>1, <1>3, <2>1 DEF Codec
  <2>3. r = IF c.hasRead THEN [c EXCEPT !.writeKey = c.readKey] ELSE NoCodec
    BY DEF Reverted
  <2> HIDE DEF c, r
  <2>4. r \in Codec /\ (c.hasRead => r.enc /\ r.hasRead /\ r.readKey = c.readKey /\ r.writeKey = c.readKey)
        /\ (~c.hasRead => ~r.enc)
    BY <2>2, <2>3 DEF Codec, NoCodec
  <2>5. (codec' = c => ReadKey' = ReadKey) /\ (codec' = r => ReadKey' = ReadKey)
    BY <1>3, <2>2, <2>4 DEF ReadKey
  <2> QED  BY <2>2, <2>4, <2>5 DEF c, r
<1> QED  BY <1>2, <1>3

LEMMA RekeyStartStep ==
  ASSUME Inv, NEW k \in Keys \cup {Plain}, RekeyStart(k)
  PROVE  Inv'
<1> USE DEF Inv, RekeyStart
<1>1. tx = "none" /\ dirty = {} /\ DOMAIN journal = {} /\ (k # Plain \/ codec.enc)
  BY DEF Settling, NoJournal
<1>2. Restored' = Restored
  BY DEF Restored
<1>3. CASE FirstReadable /\ codec' = Retargeted(k) /\ tx' = "rekey" /\ n' = 1
  <2>1. ReadKey' = ReadKey /\ codec' \in Codec /\ codec'.enc
    BY <1>1, <1>3, RetargetedKeys
  <2>2. TypeOK'
    BY <1>3, <2>1, PagerCodecAssumption DEF TypeOK
  <2>3. KeysAgree' /\ Settling'
    BY <1>1, <1>3, <2>1 DEF KeysAgree, Settling, Used, Pages
  <2>4. ASSUME ~spoiled PROVE Sound'
    <3>1. ReadKey = fileKey
      BY <1>3, <2>4, ReadableKey
    <3>2. Recoverable' /\ RightKey' /\ Faithful'
      BY <1>1, <1>2, <2>1, <2>4, <3>1 DEF Sound, Recoverable, RightKey, Faithful
    <3> QED  BY <1>1, <1>3, <3>2 DEF Sound, Rewritten, WrittenBack
  <2> QED  BY <2>2, <2>3, <2>4
<1>4. CASE codec' = Reverted(Retargeted(k)) /\ UNCHANGED <<tx, n>>
  <2>1. ReadKey' = ReadKey /\ codec' \in Codec
    BY <1>1, <1>4, RetargetedKeys
  <2>2. TypeOK' /\ KeysAgree' /\ Settling'
    BY <1>1, <1>4, <2>1, RetargetedKeys DEF TypeOK, KeysAgree, Settling
  <2>3. ~spoiled => Sound'
    BY <1>1, <1>2, <1>4, <2>1 DEF Sound, Recoverable, Faithful, RightKey, Rewritten, WrittenBack
  <2> QED  BY <2>2, <2>3
<1> QED  BY <1>3, <1>4

LEMMA RekeyPageStep ==
  ASSUME Inv, RekeyPage
  PROVE  Inv'
<1> USE DEF Inv, RekeyPage
<1>1. n \in 1..NPages /\ n \in Nat /\ NPages \in Nat
  BY PagerCodecAssumption DEF Settling, TypeOK
<1>2. ReadKey' = ReadKey /\ WriteKey' = WriteKey
  BY DEF ReadKey, WriteKey
<1>3. CASE Skipped(n)
  <2>1. TypeOK' /\ KeysAgree'
    BY <1>1, <1>3 DEF TypeOK, KeysAgree
  <2>2. Settling'
    BY <1>1, <1>3 DEF Settling, Skipped, Used, Pages
  <2>3. Restored' = Restored
    BY <1>3 DEF Restored
  <2>4. ~spoiled => Sound'
    BY <1>2, <1>3, <2>3 DEF Sound, Recoverable, Faithful, RightKey, Rewritten, WrittenBack
  <2> QED  BY <2>1, <2>2, <2>4
<1>4. CASE ~Skipped(n)
  <2>1. n \in Used /\ n \in Pages
    BY <1>1, <1>4 DEF Skipped, Used, Pages
  <2>2. /\ journal' = Journalled(n) /\ cache' = [cache EXCEPT ![n] = Current(n)]
        /\ dirty' = dirty \cup {n} /\ DOMAIN journal' = DOMAIN journal \cup {n}
    BY <1>4, JournalledPage
  <2>3. Current(n) \in Content /\ Current(n) # Absent
    BY <2>1, CurrentType, PagerCodecAssumption DEF Content
  <2>4. TypeOK'
    BY <1>1, <2>1, <2>2, <2>3, JournalledType DEF TypeOK
  <2>5. KeysAgree' /\ Settling'
    <3>1. \A p \in dirty' : cache'[p] # Absent
      BY <2>1, <2>2, <2>3 DEF Settling, TypeOK
    <3>2. \A p \in Used : p < n + 1 <=> p \in DOMAIN journal'
      BY <1>1, <2>2 DEF Settling, Used, Pages
    <3> QED  BY <1>1, <2>2, <3>1, <3>2 DEF KeysAgree, Settling
  <2>6. ASSUME ~spoiled PROVE Sound'
    <3>1. Sound /\ ReadKey = fileKey
      BY <2>6 DEF Sound, RightKey
    <3>2. Recoverable' /\ RightKey'
      BY <1>2, <2>1, <2>2, <3>1, JournalledSound DEF RightKey
    <3>3. Current(n) = committed[n]
      BY <1>1, <2>1, <3>1, CurrentIsCommitted DEF Settling
    <3>4. Faithful'
      BY <2>2, <3>1, <3>3 DEF Sound, Faithful, TypeOK
    <3>5. Rewritten' /\ WrittenBack'
      BY <1>2, <2>2, <3>1 DEF Sound, Rewritten, WrittenBack
    <3> QED  BY <3>2, <3>4, <3>5 DEF Sound
  <2> QED  BY <2>4, <2>5, <2>6
<1> QED  BY <1>3, <1>4

\* When the loop has visited every page and the pager has flushed them, the whole
\* file carries the write key, which becomes the read key.
LEMMA RekeyCommitStep ==
  ASSUME Inv, RekeyCommit
  PROVE  Inv'
<1> USE DEF Inv, RekeyCommit
<1>1. codec \in Codec /\ codec.enc
  BY DEF TypeOK, Settling
<1>2. codec' \in Codec /\ ReadKey' = WriteKey
  <2>1. CASE codec.hasWrite
    <3>1. codec' = [codec EXCEPT !.readKey = codec.writeKey, !.hasRead = TRUE]
      BY <2>1 DEF Settled
    <3>2. codec' \in Codec /\ codec'.enc /\ codec'.hasRead /\ codec'.readKey = codec.writeKey
      BY <1>1, <3>1 DEF Codec
    <3> QED  BY <1>1, <2>1, <3>2 DEF ReadKey, WriteKey
  <2>2. CASE ~codec.hasWrite
    BY <2>2 DEF Settled, NoCodec, Codec, ReadKey, WriteKey
  <2> QED  BY <2>1, <2>2
<1>3. KeysAgree'
  BY <1>1 DEF KeysAgree, Settled, NoCodec, Codec
<1>4. TypeOK'
  BY <1>2, KeyTypes, PagerCodecAssumption DEF TypeOK, NoJournal
<1>5. Settling'
  BY DEF Settling
<1>6. ASSUME ~spoiled PROVE Sound'
  <2>1. Used \subseteq DOMAIN journal
    BY PagerCodecAssumption DEF Settling, TypeOK, Used, Pages
  <2>2. \A p \in Used : file[p] = Seal(WriteKey, committed[p])
    BY <1>6, <2>1 DEF Sound, Rewritten
  <2>3. Restored' = file
    BY <1>4, NothingToRestore DEF Restored, NoJournal, TypeOK
  <2>4. Recoverable'
    BY <2>2, <2>3 DEF Recoverable
  <2>5. Faithful'
    BY <1>6 DEF Sound, Faithful
  <2> QED  BY <1>2, <2>4, <2>5 DEF Sound, RightKey, Rewritten, WrittenBack
<1> QED  BY <1>3, <1>4, <1>5, <1>6

\* A codec that is reverted reads as before.
LEMMA RevertedKeys ==
  ASSUME TypeOK, codec.enc, codec' = Reverted(codec)
  PROVE  /\ codec' \in Codec /\ ReadKey' = ReadKey
         /\ (codec'.enc /\ codec'.hasWrite => codec'.hasRead /\ codec'.writeKey = codec'.readKey)
<1>1. codec \in Codec
  BY DEF TypeOK
<1>2. CASE codec.hasRead
  <2>1. codec' = [codec EXCEPT !.writeKey = codec.readKey]
    BY <1>2 DEF Reverted
  <2>2. codec' \in Codec /\ codec'.enc /\ codec'.hasRead /\ codec'.readKey = codec.readKey
        /\ codec'.writeKey = codec.readKey
    BY <1>1, <1>2, <2>1 DEF Codec
  <2> QED  BY <1>2, <2>2 DEF ReadKey
<1>3. CASE ~codec.hasRead
  BY <1>3 DEF Reverted, NoCodec, Codec, ReadKey
<1> QED  BY <1>2, <1>3

LEMMA RekeyFailStep ==
  ASSUME Inv, RekeyFail
  PROVE  Inv'
<1> USE DEF Inv, RekeyFail
<1>1. codec' \in Codec /\ ReadKey' = ReadKey /\ KeysAgree'
  BY RevertedKeys DEF Settling, KeysAgree
<1>2. TypeOK'
  BY <1>1, RollbackTypes, PagerCodecAssumption DEF TypeOK
<1>3. Settling'
  BY RollbackTypes DEF Settling
<1> QED  BY <1>1, <1>2, <1>3, RollbackSound

LEMMA CrashStep ==
  ASSUME Inv, Crash
  PROVE  Inv'
<1> USE DEF Inv, Crash
<1>1. TypeOK' /\ KeysAgree' /\ Settling'
  BY PagerCodecAssumption DEF TypeOK, KeysAgree, Settling, NoCodec, Codec
<1>2. ASSUME ~spoiled PROVE Sound'
  <2>1. Restored' = Restored
    BY DEF Restored
  <2> QED  BY <1>2, <2>1 DEF Sound, Recoverable, Faithful, RightKey, Rewritten, WrittenBack, Used
<1> QED  BY <1>1, <1>2

-----------------------------------------------------------------------------
(* The invariant *)

LEMMA InitInv ==
  ASSUME Init
  PROVE  Inv
<1> USE DEF Init
<1>1. file \in [Pages -> Page] /\ committed \in [Used -> Content]
  <2>1. \A p \in Pages : p \in Used => committed[p] \in Vals
    OBVIOUS
  <2> QED  BY <2>1 DEF Seal, Page, Content
<1>2. DOMAIN journal = {}
  BY DEF NoJournal
<1>3. TypeOK
  <2>1. codec \in Codec
    BY DEF NoCodec, Codec
  <2>2. cache \in [Pages -> Content \cup {Absent}]
    OBVIOUS
  <2>3. n \in 0..(NPages + 1)
    BY PagerCodecAssumption
  <2> QED  BY <1>1, <1>2, <2>1, <2>2, <2>3 DEF TypeOK
<1>4. KeysAgree /\ Settling
  BY DEF KeysAgree, Settling, NoCodec
<1>5. Sound
  BY <1>2, <1>3, NothingToRestore DEF Sound, Recoverable, Faithful, RightKey, Rewritten, WrittenBack, Used
<1> QED  BY <1>3, <1>4, <1>5 DEF Inv

LEMMA NextInv ==
  ASSUME Inv, [Next]_vars
  PROVE  Inv'
<1>1. CASE UNCHANGED vars
  BY <1>1 DEF vars, Inv, TypeOK, KeysAgree, Settling, Sound, Recoverable, Faithful, RightKey,
              Rewritten, WrittenBack, Restored, ReadKey, WriteKey
<1>2. CASE \E p \in Pages : Load(p) \/ Evict(p) \/ Flush(p)
  BY <1>2, LoadStep, EvictStep, FlushStep
<1>3. CASE PlayBack \/ BeginWrite \/ Commit \/ AbortWrite
  BY <1>3, PlayBackStep, BeginWriteStep, CommitStep, AbortWriteStep
<1>4. CASE \E p \in Pages, v \in Vals : Write(p, v)
  BY <1>4, WriteStep
<1>5. CASE (\E k \in Keys : Attach(k)) \/ (\E k \in Keys \cup {Plain} : RekeyStart(k))
  BY <1>5, AttachStep, RekeyStartStep
<1>6. CASE RekeyPage \/ RekeyCommit \/ RekeyFail \/ Crash
  BY <1>6, RekeyPageStep, RekeyCommitStep, RekeyFailStep, CrashStep
<1> QED  BY <1>1, <1>2, <1>3, <1>4, <1>5, <1>6 DEF Next

LEMMA Invariance == Spec => []Inv
BY InitInv, NextInv, PTL DEF Spec

\* Codec, file, journal and cache hold what their types say.
THEOREM TypeCorrect == Spec => []TypeOK
<1>1. Inv => TypeOK
  BY DEF Inv
<1> QED  BY <1>1, Invariance, PTL

\* Whatever transactions, rekeys, failures and crashes happened, the file with its
\* journal is the last commit under one key (as long as no page was written by a
\* codec that a failed rekey left without its write key).
THEOREM CrashLosesNothing == Spec => []CrashSafe
<1>1. Inv => CrashSafe
  BY DEF Inv, Sound, Recoverable, CrashSafe
<1> QED  BY <1>1, Invariance, PTL

\* A page in memory that no transaction changed is the committed one.
THEOREM MemoryIsCommitted == Spec => []ReadsCommitted
<1>1. Inv => ReadsCommitted
  BY DEF Inv, Sound, Faithful, ReadsCommitted
<1> QED  BY <1>1, Invariance, PTL

\* Outside sqlite3_rekey, what is written under the write key can be read back.
THEOREM WhatIsWrittenCanBeRead == Spec => []KeysAgree
<1>1. Inv => KeysAgree
  BY DEF Inv
<1> QED  BY <1>1, Invariance, PTL

-----------------------------------------------------------------------------
(* Quotients *)

LEMMA Divided ==
  ASSUME NEW N \in Nat, NEW d \in Nat \ {0}
  PROVE  N \div d \in Nat /\ N % d \in 0..(d - 1) /\ N = (N \div d) * d + (N % d)
<1>1. N % d \in 0..(d - 1) /\ N \div d \in Nat
  OBVIOUS
<1>2. N = d * (N \div d) + (N % d)
  OBVIOUS
<1> QED  BY <1>1, <1>2

LEMMA NextMultiple ==
  ASSUME NEW d \in Nat, NEW p \in Nat, NEW q \in Nat, p < q
  PROVE  p * d + d <= q * d
<1> DEFINE k == q - p - 1
<1>1. k \in Nat /\ q = p + 1 + k
  OBVIOUS
<1>2. q * d = (p + 1 + k) * d
  BY <1>1
<1>3. k * d \in Nat
  BY <1>1
<1> HIDE DEF k
<1>4. (p + 1 + k) * d = p * d + d + k * d
  BY <1>1
<1> QED  BY <1>2, <1>3, <1>4, <1>1

\* A number has one quotient and one remainder.
LEMMA OneQuotient ==
  ASSUME NEW d \in Nat \ {0}, NEW p \in Nat, NEW q \in Nat, NEW r \in 0..(d - 1), NEW s \in 0..(d - 1),
         p * d + r = q * d + s
  PROVE  p = q /\ r = s
<1>0. p * d \in Nat /\ q * d \in Nat
  OBVIOUS
<1>1. ~(p < q)
  <2> SUFFICES ASSUME p < q PROVE FALSE
    OBVIOUS
  <2>1. p * d + d <= q * d
    BY NextMultiple
  <2> QED BY <2>1, <1>0
<1>2. ~(q < p)
  <2> SUFFICES ASSUME q < p PROVE FALSE
    OBVIOUS
  <2>1. q * d + d <= p * d
    BY NextMultiple
  <2> QED BY <2>1, <1>0
<1>3. p = q
  BY <1>1, <1>2
<1> QED BY <1>3, <1>0

LEMMA DividedAs ==
  ASSUME NEW d \in Nat \ {0}, NEW q \in Nat, NEW r \in 0..(d - 1)
  PROVE  (q * d + r) \div d = q /\ (q * d + r) % d = r
<1> DEFINE N == q * d + r
<1>1. N \in Nat
  OBVIOUS
<1> HIDE DEF N
<1>2. N \div d \in Nat /\ N % d \in 0..(d - 1) /\ N = (N \div d) * d + (N % d)
  BY <1>1, Divided
<1>3. N = q * d + r
  BY DEF N
<1>4. N \div d = q /\ N % d = r
  BY <1>2, <1>3, OneQuotient
<1> QED  BY <1>4 DEF N

\* The remainder of a multiple of d is one of d as well, if what it is divided by is.
LEMMA MultipleOf ==
  ASSUME NEW d \in Nat \ {0}, NEW m \in Nat \ {0}, NEW k \in Nat, NEW w \in Nat, w = m * d, NEW N \in Nat
  PROVE  (N * d) % w = (N % m) * d /\ (N * d) \div w = N \div m
<1> DEFINE q == N \div m
           r == N % m
<1>1. q \in Nat /\ r \in 0..(m - 1) /\ N = q * m + r
  BY Divided
<1> HIDE DEF q, r
<1>2. w \in Nat \ {0}
  OBVIOUS
<1>3. N * d = (q * m + r) * d
  BY <1>1
<1>4. (q * m + r) * d = q * (m * d) + r * d
  BY <1>1
<1>5. r * d + d <= m * d
  BY <1>1, NextMultiple
<1>6. r * d \in Nat
  BY <1>1
<1>7. r * d \in 0..(w - 1)
  BY <1>5, <1>6
<1>8. N * d = q * w + r * d
  BY <1>3, <1>4
<1>9. (q * w + r * d) \div w = q /\ (q * w + r * d) % w = r * d
  BY <1>1, <1>2, <1>7, DividedAs
<1> QED  BY <1>8, <1>9 DEF q, r

LEMMA SumRemainder ==
  ASSUME NEW W \in Nat \ {0}, NEW x \in Nat, NEW y \in Nat
  PROVE  ((x % W) + y) % W = (x + y) % W
<1> DEFINE p == x \div W
           r == x % W
           v == r + y
           z == v \div W
           o == v % W
<1>1. p \in Nat /\ r \in 0..(W - 1) /\ x = p * W + r
  BY Divided
<1> HIDE DEF p, r
<1>2. v \in Nat
  BY <1>1
<1> HIDE DEF v
<1>3. z \in Nat /\ o \in 0..(W - 1) /\ v = z * W + o
  BY <1>2, Divided
<1> HIDE DEF z, o
<1>4. x + y = p * W + v
  BY <1>1 DEF v
<1>5. p * W + (z * W + o) = (p + z) * W + o
  BY <1>1, <1>3
<1>6. x + y = (p + z) * W + o /\ p + z \in Nat
  BY <1>1, <1>3, <1>4, <1>5
<1> DEFINE h == p + z
<1>7. h \in Nat /\ x + y = h * W + o
  BY <1>6
<1> HIDE DEF h
<1>8. (h * W + o) % W = o
  BY <1>3, <1>7, DividedAs
<1> QED  BY <1>7, <1>8 DEF o, v, r

-----------------------------------------------------------------------------
(* Words of the length *)

LEMMA DgNumbers ==
  /\ DgBlock \in Nat /\ DgBlock > 3 /\ DgBlock \in Nat \ {0} /\ DgBits \in Nat \ {0} /\ DgWord \in Nat \ {0}
  /\ DgBlock <= DgWord
  /\ \E m \in Nat \ {0} : DgWord = (m * DgBlock) * DgBits
<1>1. DgBlock \in Nat /\ DgBlock > 3 /\ DgBlock \in Nat \ {0} /\ DgBits \in Nat \ {0} /\ DgWord \in Nat \ {0}
  BY DigestsAssumption
<1> DEFINE d == DgBlock * DgBits
           m == DgWord \div d
<1>2. d \in Nat \ {0} /\ DgWord % d = 0 /\ DgBlock <= d
  BY <1>1, DigestsAssumption
<1> HIDE DEF d
<1>3. m \in Nat /\ DgWord = m * d + (DgWord % d)
  BY <1>1, <1>2, Divided
<1> HIDE DEF m
<1>4. m # 0 /\ DgWord = m * d /\ m \in Nat \ {0}
  BY <1>1, <1>2, <1>3
<1>5. m * d = (m * DgBlock) * DgBits
  BY <1>1, <1>3 DEF d
<1>6. d <= m * d
  BY <1>2, <1>4
<1>7. DgBlock <= DgWord
  BY <1>1, <1>2, <1>4, <1>6
<1> QED  BY <1>1, <1>4, <1>5, <1>7

\* The number of bits, as MD5 keeps it in two words, and what of it says how full the block is.
Md5CountOf(N) == <<(N * DgBits) % DgWord, ((N * DgBits) \div DgWord) % DgWord>>

LEMMA Md5HeldIs ==
  ASSUME NEW N \in Nat, dgCount = Md5CountOf(N)
  PROVE  Md5Held = N % DgBlock
<1>1. PICK m \in Nat \ {0} : DgWord = (m * DgBlock) * DgBits
  BY DgNumbers
<1>2. DgBits \in Nat \ {0} /\ DgBlock \in Nat \ {0}
  BY DgNumbers
<1> DEFINE M == m * DgBlock
<1>3. M \in Nat \ {0}
  BY <1>1, <1>2
<1>4. DgWord = M * DgBits /\ DgWord \in Nat
  BY <1>1, DgNumbers
<1> DEFINE q == N \div M
           r == N % M
<1>a. (N * DgBits) % DgWord = r * DgBits
  <2> HIDE DEF M
  <2> QED  BY <1>2, <1>3, <1>4, MultipleOf
<1>5. q \in Nat /\ r \in Nat /\ N = q * M + r
  <2> HIDE DEF M
  <2>1. q \in Nat /\ r \in 0..(M - 1) /\ N = q * M + r
    BY <1>3, Divided
  <2> QED  BY <2>1, <1>3
<1> HIDE DEF M, q, r
<1>6. (r * DgBits) \div DgBits = r
  <2>1. r * DgBits + 0 = r * DgBits /\ 0 \in 0..(DgBits - 1)
    BY <1>2, <1>5
  <2>2. (r * DgBits + 0) \div DgBits = r
    BY <1>2, <1>5, <2>1, DividedAs
  <2> QED  BY <2>1, <2>2
<1>7. Md5Held = r % DgBlock
  BY <1>a, <1>6 DEF Md5Held, Md5CountOf
<1> DEFINE s == r \div DgBlock
           t == r % DgBlock
<1>8. s \in Nat /\ t \in 0..(DgBlock - 1) /\ r = s * DgBlock + t
  BY <1>2, <1>5, Divided
<1> HIDE DEF s, t
<1>9. N = (q * m + s) * DgBlock + t
  <2>1. N = q * (m * DgBlock) + (s * DgBlock + t)
    BY <1>5, <1>8 DEF M
  <2>2. q * (m * DgBlock) + (s * DgBlock + t) = (q * m + s) * DgBlock + t
    BY <1>1, <1>2, <1>5, <1>8
  <2> QED  BY <2>1, <2>2
<1>10. q * m + s \in Nat
  BY <1>1, <1>5, <1>8
<1> DEFINE u == q * m + s
<1>11. N = u * DgBlock + t /\ u \in Nat
  BY <1>9, <1>10
<1> HIDE DEF u
<1>12. (u * DgBlock + t) % DgBlock = t
  BY <1>2, <1>8, <1>11, DividedAs
<1> QED  BY <1>7, <1>11, <1>12 DEF t

\* The carry makes the two words those of the longer length.
LEMMA Md5CountedIs ==
  ASSUME NEW N \in Nat, NEW c \in Nat, dgCount = Md5CountOf(N)
  PROVE  Md5Counted(c) = Md5CountOf(N + c)
<1> DEFINE W == DgWord
           x == N * DgBits
           y == c * DgBits
<1>1. W \in Nat \ {0} /\ x \in Nat /\ y \in Nat /\ (N + c) * DgBits = x + y
  BY DgNumbers
<1> DEFINE a == x \div W
           b == x % W
           e == y \div W
           f == y % W
<1> HIDE DEF W, x, y
<1>2. a \in Nat /\ b \in 0..(W - 1) /\ x = a * W + b
  BY <1>1, Divided
<1>3. e \in Nat /\ f \in 0..(W - 1) /\ y = e * W + f
  BY <1>1, Divided
<1>4. dgCount[1] = b /\ dgCount[2] = a % W
  BY DEF Md5CountOf, W, x
<1> HIDE DEF a, b, e, f
<1> DEFINE g == IF b + f < W THEN 0 ELSE 1
           s == b + f - g * W
<1>5. g \in {0, 1} /\ s \in 0..(W - 1) /\ b + f = g * W + s /\ (s < b <=> g = 1)
  BY <1>1, <1>2, <1>3
<1> HIDE DEF g, s
<1>6. b + y = (e + g) * W + s /\ e + g \in Nat
  <2>1. b + y = e * W + (b + f)
    BY <1>1, <1>2, <1>3
  <2>2. e * W + (g * W + s) = (e + g) * W + s
    BY <1>1, <1>2, <1>3, <1>5
  <2> QED  BY <2>1, <2>2, <1>3, <1>5
<1>7. (b + y) % W = s
  <2> DEFINE h == e + g
  <2>1. h \in Nat /\ b + y = h * W + s
    BY <1>6
  <2> HIDE DEF h
  <2>2. (h * W + s) % W = s
    BY <1>1, <1>5, <2>1, DividedAs
  <2> QED  BY <2>1, <2>2
<1>8. x + y = (a + e + g) * W + s /\ a + e + g \in Nat
  <2>1. x + y = a * W + (b + y)
    BY <1>1, <1>2
  <2>2. a * W + ((e + g) * W + s) = (a + e + g) * W + s
    BY <1>1, <1>2, <1>3, <1>5
  <2> QED  BY <2>1, <2>2, <1>2, <1>3, <1>5, <1>6
<1>9. (x + y) % W = s /\ (x + y) \div W = a + e + g
  <2> DEFINE h == a + e + g
  <2>1. h \in Nat /\ x + y = h * W + s
    BY <1>8
  <2> HIDE DEF h
  <2>2. (h * W + s) % W = s /\ (h * W + s) \div W = h
    BY <1>1, <1>5, <2>1, DividedAs
  <2> QED  BY <2>1, <2>2 DEF h
<1>10. ((a % W) + e + g) % W = (a + e + g) % W
  <2> DEFINE i == e + g
  <2>1. i \in Nat
    BY <1>6
  <2>2. (a % W) \in Nat
    BY <1>1, <1>2, Divided
  <2>3. (a % W) + e + g = (a % W) + i /\ a + e + g = a + i
    BY <1>2, <1>3, <1>5, <2>2
  <2> HIDE DEF i
  <2>4. ((a % W) + i) % W = (a + i) % W
    BY <1>1, <1>2, <2>1, SumRemainder
  <2> QED  BY <2>3, <2>4
<1>11. Md5Counted(c) = <<(b + y) % W, ((a % W) + e + (IF (b + y) % W < b THEN 1 ELSE 0)) % W>>
  BY <1>4 DEF Md5Counted, W, y, e
<1>12. (IF (b + y) % W < b THEN 1 ELSE 0) = g
  BY <1>5, <1>7
<1>13. Md5CountOf(N + c) = <<(x + y) % W, ((x + y) \div W) % W>>
  BY <1>1 DEF Md5CountOf, W
<1> QED  BY <1>7, <1>9, <1>10, <1>11, <1>12, <1>13

LEMMA Md5CountType ==
  ASSUME NEW N \in Nat
  PROVE  \A i \in DOMAIN Md5CountOf(N) : Md5CountOf(N)[i] \in 0..(DgWord - 1)
<1> DEFINE x == N * DgBits
<1>1. x \in Nat /\ DgWord \in Nat \ {0}
  BY DgNumbers
<1> HIDE DEF x
<1>2. x \div DgWord \in Nat /\ x % DgWord \in 0..(DgWord - 1)
  BY <1>1, Divided
<1>3. (x \div DgWord) % DgWord \in 0..(DgWord - 1)
  BY <1>1, <1>2, Divided
<1> QED  BY <1>2, <1>3 DEF Md5CountOf, x

\* SHA-2 counts the bytes of the block that is begun and those of the blocks before it.
ShaCountOf(N) == <<N % DgBlock, ((N \div DgBlock) * DgBlock) % DgWord>>

LEMMA ShaCountType ==
  ASSUME NEW N \in Nat
  PROVE  \A i \in DOMAIN ShaCountOf(N) : ShaCountOf(N)[i] \in 0..(DgWord - 1)
<1> DEFINE q == N \div DgBlock
           x == q * DgBlock
<1>1. DgWord \in Nat \ {0} /\ DgBlock <= DgWord /\ DgBlock \in Nat \ {0}
  BY DgNumbers
<1>2. q \in Nat /\ N % DgBlock \in 0..(DgBlock - 1)
  BY <1>1, Divided
<1> HIDE DEF q
<1>3. x \in Nat
  BY <1>1, <1>2
<1> HIDE DEF x
<1>4. x % DgWord \in 0..(DgWord - 1)
  BY <1>1, <1>3, Divided
<1>5. N % DgBlock \in 0..(DgWord - 1)
  BY <1>1, <1>2
<1> QED  BY <1>4, <1>5 DEF ShaCountOf, x, q

-----------------------------------------------------------------------------
(* Memory *)

DgCells == {MsgByte(i) : i \in Nat} \cup {ZeroByte, Mark, Unset} \cup {LengthWord(w) : w \in Nat}

LEMMA CellsAre ==
  /\ \A i \in Nat : MsgByte(i) \in DgCells
  /\ ZeroByte \in DgCells /\ Mark \in DgCells /\ Unset \in DgCells
  /\ \A w \in Nat : LengthWord(w) \in DgCells
<1>1. ASSUME NEW i \in Nat PROVE MsgByte(i) \in DgCells
  BY Zenon DEF DgCells
<1>2. ASSUME NEW w \in Nat PROVE LengthWord(w) \in DgCells
  BY Zenon DEF DgCells
<1>3. ZeroByte \in DgCells /\ Mark \in DgCells /\ Unset \in DgCells
  BY DEF DgCells
<1> QED  BY <1>1, <1>2, <1>3

LEMMA OverlayIs ==
  ASSUME NEW m \in Nat, NEW mem \in [1..m -> DgCells], NEW at \in Nat,
         NEW l \in Nat, NEW cells \in [1..l -> DgCells], l = 0 \/ at + l <= m
  PROVE  /\ Overlay(mem, at, cells) \in [1..m -> DgCells]
         /\ \A i \in 1..m : Overlay(mem, at, cells)[i] = IF at < i /\ i <= at + l THEN cells[i - at] ELSE mem[i]
<1>1. Len(cells) = l /\ Len(mem) = m
  OBVIOUS
<1>2. (IF Len(cells) > 0 /\ at + Len(cells) > Len(mem) THEN at + Len(cells) ELSE Len(mem)) = m
  BY <1>1
<1>3. Overlay(mem, at, cells) = [i \in 1..m |-> IF i - at \in 1..l THEN cells[i - at] ELSE mem[i]]
  BY <1>1, <1>2 DEF Overlay
<1>4. \A i \in 1..m : i - at \in 1..l <=> at < i /\ i <= at + l
  OBVIOUS
<1>5. ASSUME NEW i \in 1..m PROVE (IF i - at \in 1..l THEN cells[i - at] ELSE mem[i]) \in DgCells
  OBVIOUS
<1> QED  BY <1>3, <1>4, <1>5

\* The same, for the provers: one hypothesis and one conclusion.
FitsMemory(m, mem, at, l, cells) ==
  m \in Nat /\ mem \in [1..m -> DgCells] /\ at \in Nat /\ l \in Nat /\ cells \in [1..l -> DgCells] /\ at + l <= m
Overlaid(new, m, mem, at, l, cells) ==
  new \in [1..m -> DgCells] /\ \A i \in 1..m : new[i] = IF at < i /\ i <= at + l THEN cells[i - at] ELSE mem[i]

LEMMA OverlayFits ==
  ASSUME NEW m, NEW mem, NEW at, NEW l, NEW cells, FitsMemory(m, mem, at, l, cells)
  PROVE  Overlaid(Overlay(mem, at, cells), m, mem, at, l, cells)
BY OverlayIs DEF FitsMemory, Overlaid

LEMMA PieceIs ==
  ASSUME NEW l \in Nat, NEW s \in [1..l -> DgCells], NEW a \in Nat, NEW b \in Nat, a <= b, b <= l
  PROVE  /\ SubSeq(s, a + 1, b) \in [1..(b - a) -> DgCells]
         /\ \A i \in 1..(b - a) : SubSeq(s, a + 1, b)[i] = s[a + i]
<1>1. s \in Seq(DgCells) /\ Len(s) = l
  OBVIOUS
<1>2. SubSeq(s, a + 1, b) = [i \in 1..(b - a) |-> s[a + i]]
  BY <1>1
<1>3. \A i \in 1..(b - a) : a + i \in 1..l
  OBVIOUS
<1> QED  BY <1>2, <1>3

LEMMA OverlayFront ==
  ASSUME NEW m \in Nat, NEW mem \in [1..m -> DgCells], NEW l \in 0..m, NEW cells \in [1..l -> DgCells]
  PROVE  /\ Overlay(mem, 0, cells) \in [1..m -> DgCells]
         /\ \A i \in 1..m : Overlay(mem, 0, cells)[i] = IF i <= l THEN cells[i] ELSE mem[i]
<1> DEFINE at == 0
<1>1. at \in Nat /\ l \in Nat /\ at + l <= m
  OBVIOUS
<1>2. \A i \in 1..m : (at < i /\ i <= at + l <=> i <= l) /\ i - at = i
  OBVIOUS
<1> HIDE DEF at
<1>3. /\ Overlay(mem, at, cells) \in [1..m -> DgCells]
      /\ \A i \in 1..m : Overlay(mem, at, cells)[i] = IF at < i /\ i <= at + l THEN cells[i - at] ELSE mem[i]
  BY <1>1, OverlayIs
<1>4. \A i \in 1..m : Overlay(mem, at, cells)[i] = IF i <= l THEN cells[i] ELSE mem[i]
  BY <1>2, <1>3
<1> QED  BY <1>3, <1>4 DEF at

LEMMA PrefixIs ==
  ASSUME NEW l \in Nat, NEW s \in [1..l -> DgCells], NEW b \in 0..l
  PROVE  SubSeq(s, 1, b) \in [1..b -> DgCells] /\ \A i \in 1..b : SubSeq(s, 1, b)[i] = s[i]
<1>1. s \in Seq(DgCells) /\ Len(s) = l
  OBVIOUS
<1>2. SubSeq(s, 1, b) = [i \in 1..b |-> s[i]]
  BY <1>1
<1>3. \A i \in 1..b : i \in 1..l
  OBVIOUS
<1> QED  BY <1>2, <1>3

\* The blocks of a sequence that is long enough.
LEMMA BlocksAre ==
  ASSUME NEW l \in Nat, NEW s \in [1..l -> DgCells], NEW a \in Nat, NEW N \in Nat, a + N * DgBlock <= l
  PROVE  BlocksOf(s, a, N) = [k \in 1..N |-> [j \in 1..DgBlock |-> s[a + (k - 1) * DgBlock + j]]]
<1>1. DgBlock \in Nat \ {0}
  BY DgNumbers
<1>2. ASSUME NEW k \in 1..N
      PROVE  SubSeq(s, a + (k - 1) * DgBlock + 1, a + k * DgBlock) = [j \in 1..DgBlock |-> s[a + (k - 1) * DgBlock + j]]
  <2> DEFINE x == (k - 1) * DgBlock
             y == k * DgBlock
             z == N * DgBlock
  <2>1. x \in Nat /\ y = x + DgBlock /\ z \in Nat
    BY <1>1
  <2>2. y <= z
    <3>1. CASE k = N
      BY <1>1, <2>1, <3>1
    <3>2. CASE k < N
      <4>1. k * DgBlock + DgBlock <= N * DgBlock
        BY <1>1, <3>2, NextMultiple
      <4> QED  BY <1>1, <2>1, <4>1
    <3> QED  BY <3>1, <3>2
  <2> HIDE DEF x, y, z
  <2>3. a + x \in Nat /\ a + y \in Nat /\ a + x <= a + y /\ a + y <= l /\ (a + y) - (a + x) = DgBlock
    BY <1>1, <2>1, <2>2 DEF z
  <2> DEFINE u == a + x
             v == a + y
  <2>5. u \in Nat /\ v \in Nat /\ u <= v /\ v <= l /\ v - u = DgBlock
    BY <2>3
  <2> HIDE DEF u, v
  <2>4. SubSeq(s, u + 1, v) \in [1..(v - u) -> DgCells] /\ \A i \in 1..(v - u) : SubSeq(s, u + 1, v)[i] = s[u + i]
    BY <2>5, PieceIs
  <2>6. SubSeq(s, u + 1, v) = [j \in 1..DgBlock |-> s[u + j]]
    BY <2>4, <2>5
  <2> QED  BY <2>6 DEF u, v, x, y
<1> QED  BY <1>2 DEF BlocksOf

LEMMA ChunkIs ==
  ASSUME NEW c \in Nat, dgSent \in Nat
  PROVE  MsgChunk(c) \in [1..c -> DgCells] /\ \A i \in 1..c : MsgChunk(c)[i] = MsgByte(dgSent + i)
<1>1. \A i \in 1..c : dgSent + i \in Nat
  OBVIOUS
<1>2. \A i \in 1..c : MsgByte(dgSent + i) \in DgCells
  BY <1>1, CellsAre
<1> QED  BY <1>2 DEF MsgChunk

-----------------------------------------------------------------------------
(* The message, as far as it has been given to update *)

\* The k-th block of the message, and its first q blocks.
MsgBlock(k) == [j \in 1..DgBlock |-> MsgByte((k - 1) * DgBlock + j)]
WholeOf(q)    == [k \in 1..q |-> MsgBlock(k)]

\* The memory begins with the bytes behind the whole blocks of the first N.
Begun(mem, N) == \A j \in 1..(N % DgBlock) : mem[j] = MsgByte((N \div DgBlock) * DgBlock + j)

LEMMA JoinedIs ==
  ASSUME NEW S, NEW k \in Nat, NEW l \in Nat, NEW a, NEW b, a \in Seq(S), b \in Seq(S), Len(a) = k, Len(b) = l
  PROVE  /\ a \o b \in Seq(S) /\ Len(a \o b) = k + l
         /\ a \o b = [i \in 1..(k + l) |-> IF i <= k THEN a[i] ELSE b[i - k]]
<1> DEFINE t == a \o b
<1>1. t \in Seq(S) /\ Len(t) = k + l
  OBVIOUS
<1>2. \A i \in 1..(k + l) : t[i] = IF i <= k THEN a[i] ELSE b[i - k]
  OBVIOUS
<1> HIDE DEF t
<1>3. t = [i \in 1..(k + l) |-> t[i]]
  BY <1>1
<1>4. t = [i \in 1..(k + l) |-> IF i <= k THEN a[i] ELSE b[i - k]]
  BY <1>2, <1>3
<1> QED  BY <1>1, <1>4 DEF t

Pieces(S, k, l, a, b) == k \in Nat /\ l \in Nat /\ a \in Seq(S) /\ b \in Seq(S) /\ Len(a) = k /\ Len(b) = l
Joined(S, k, l, a, b, t) ==
  t \in Seq(S) /\ Len(t) = k + l /\ t = [i \in 1..(k + l) |-> IF i <= k THEN a[i] ELSE b[i - k]]

LEMMA PiecesJoined ==
  ASSUME NEW S, NEW k, NEW l, NEW a, NEW b, Pieces(S, k, l, a, b)
  PROVE  Joined(S, k, l, a, b, a \o b)
<1>1. k \in Nat /\ l \in Nat /\ a \in Seq(S) /\ b \in Seq(S) /\ Len(a) = k /\ Len(b) = l
  BY DEF Pieces
<1> DEFINE t == a \o b
<1>2. t \in Seq(S) /\ Len(t) = k + l
  BY <1>1
<1>3. \A i \in 1..(k + l) : t[i] = IF i <= k THEN a[i] ELSE b[i - k]
  BY <1>1
<1> HIDE DEF t
<1>4. t = [i \in 1..(k + l) |-> t[i]]
  BY <1>2
<1>5. t = [i \in 1..(k + l) |-> IF i <= k THEN a[i] ELSE b[i - k]]
  BY <1>3, <1>4
<1> QED  BY <1>2, <1>5 DEF Joined, t

LEMMA CellsJoined ==
  ASSUME NEW k \in Nat, NEW l \in Nat, NEW a, NEW b, a \in Seq(DgCells), b \in Seq(DgCells), Len(a) = k, Len(b) = l
  PROVE  /\ a \o b \in Seq(DgCells) /\ Len(a \o b) = k + l
         /\ a \o b = [i \in 1..(k + l) |-> IF i <= k THEN a[i] ELSE b[i - k]]
BY JoinedIs

\* Blocks of the message that follow the first q.
LEMMA WholeMore ==
  ASSUME NEW q \in Nat, NEW w \in Nat, NEW s, DOMAIN s = 1..w, s = [k \in 1..w |-> s[k]],
         \A k \in 1..w : s[k] = MsgBlock(q + k)
  PROVE  WholeOf(q) \o s = WholeOf(q + w)
<1> DEFINE S == {MsgBlock(k) : k \in Nat}
<1>1. \A k \in 1..q : MsgBlock(k) \in S
  OBVIOUS
<1>2. \A k \in 1..w : q + k \in Nat
  OBVIOUS
<1>3. \A k \in 1..w : MsgBlock(q + k) \in S
  BY <1>2, Zenon
<1> HIDE DEF S
<1>4. WholeOf(q) \in Seq(S) /\ Len(WholeOf(q)) = q
  BY <1>1 DEF WholeOf
<1>5. s \in Seq(S) /\ Len(s) = w
  BY <1>3
<1> DEFINE t == WholeOf(q)
<1>6. \A k \in 1..q : t[k] = MsgBlock(k)
  BY DEF WholeOf
<1>7. t \in Seq(S) /\ Len(t) = q
  BY <1>4
<1> HIDE DEF t
<1>8. t \o s = [k \in 1..(q + w) |-> IF k <= q THEN t[k] ELSE s[k - q]]
  BY <1>5, <1>7
<1>9. ASSUME NEW k \in 1..(q + w) PROVE (IF k <= q THEN t[k] ELSE s[k - q]) = MsgBlock(k)
  <2>1. CASE k <= q
    BY <1>6, <2>1
  <2>2. CASE ~(k <= q)
    <3>1. k - q \in 1..w /\ q + (k - q) = k
      BY <2>2
    <3> QED  BY <2>2, <3>1
  <2> QED  BY <2>1, <2>2
<1>10. [k \in 1..(q + w) |-> IF k <= q THEN t[k] ELSE s[k - q]] = [k \in 1..(q + w) |-> MsgBlock(k)]
  BY <1>9
<1> QED  BY <1>8, <1>10 DEF t, WholeOf

LEMMA SameBlock ==
  ASSUME NEW a, NEW b, a \in [1..DgBlock -> DgCells], b \in [1..DgBlock -> DgCells], \A j \in 1..DgBlock : a[j] = b[j]
  PROVE  a = b
BY DgNumbers

LEMMA MsgBlockIs ==
  ASSUME NEW k \in Nat \ {0}
  PROVE  /\ MsgBlock(k) \in [1..DgBlock -> DgCells] /\ Len(MsgBlock(k)) = DgBlock
         /\ \A j \in 1..DgBlock : MsgBlock(k)[j] = MsgByte((k - 1) * DgBlock + j)
<1>1. DgBlock \in Nat
  BY DgNumbers
<1>2. \A j \in 1..DgBlock : (k - 1) * DgBlock + j \in Nat
  <2>1. (k - 1) * DgBlock \in Nat
    BY <1>1
  <2> QED  BY <2>1
<1>3. \A j \in 1..DgBlock : MsgByte((k - 1) * DgBlock + j) \in DgCells
  BY <1>2, CellsAre
<1>4. MsgBlock(k) \in [1..DgBlock -> DgCells] /\ \A j \in 1..DgBlock : MsgBlock(k)[j] = MsgByte((k - 1) * DgBlock + j)
  BY <1>3 DEF MsgBlock
<1> QED  BY <1>1, <1>4

\* A chunk that does not complete the block.
LEMMA ChunkFits ==
  ASSUME dgSent \in Nat, NEW c \in Nat, (dgSent % DgBlock) + c < DgBlock,
         NEW m \in Nat, m >= DgBlock, NEW mem \in [1..m -> DgCells], Begun(mem, dgSent)
  PROVE  /\ (dgSent + c) \div DgBlock = dgSent \div DgBlock
         /\ (dgSent + c) % DgBlock = (dgSent % DgBlock) + c
         /\ Overlay(mem, dgSent % DgBlock, MsgChunk(c)) \in [1..m -> DgCells]
         /\ Begun(Overlay(mem, dgSent % DgBlock, MsgChunk(c)), dgSent + c)
<1> DEFINE N == dgSent
           q == N \div DgBlock
           h == N % DgBlock
           x == q * DgBlock
<1>1. DgBlock \in Nat \ {0}
  BY DgNumbers
<1>2. q \in Nat /\ h \in 0..(DgBlock - 1) /\ N = x + h
  BY <1>1, Divided
<1>3. \A j \in 1..h : mem[j] = MsgByte(x + j)
  BY DEF Begun
<1>0. x \in Nat
  BY <1>1, <1>2
<1> DEFINE g == h + c
<1>a. h + c < DgBlock
  OBVIOUS
<1> HIDE DEF q, h
<1>4. N + c = q * DgBlock + g /\ g \in 0..(DgBlock - 1)
  BY <1>0, <1>1, <1>2, <1>a
<1> HIDE DEF g
<1>5. (N + c) \div DgBlock = q /\ (N + c) % DgBlock = g
  BY <1>1, <1>2, <1>4, DividedAs
<1>6. MsgChunk(c) \in [1..c -> DgCells] /\ \A i \in 1..c : MsgChunk(c)[i] = MsgByte(N + i)
  BY ChunkIs
<1> HIDE DEF x
<1> DEFINE ch == MsgChunk(c)
           new == Overlay(mem, h, ch)
<1>7. h \in Nat /\ c \in Nat /\ h + c <= m
  BY <1>1, <1>2, <1>4 DEF g
<1>8. ch \in [1..c -> DgCells] /\ \A i \in 1..c : ch[i] = MsgByte(N + i)
  BY <1>6
<1> HIDE DEF ch
<1>9. new \in [1..m -> DgCells] /\ \A i \in 1..m : new[i] = IF h < i /\ i <= h + c THEN ch[i - h] ELSE mem[i]
  BY <1>7, <1>8, OverlayIs
<1> HIDE DEF new
<1>10. ASSUME NEW j \in 1..g PROVE new[j] = MsgByte(x + j)
  <2>0. j \in 1..m
    BY <1>7 DEF g
  <2>1. CASE j <= h
    <3>1. new[j] = mem[j]
      BY <1>7, <1>9, <2>0, <2>1
    <3> QED  BY <1>3, <2>1, <3>1 DEF h
  <2>2. CASE h < j
    <3>1. j - h \in 1..c /\ N + (j - h) = x + j
      BY <1>0, <1>2, <1>7, <2>2 DEF g
    <3>2. new[j] = ch[j - h]
      BY <1>7, <1>9, <2>0, <2>2 DEF g
    <3> QED  BY <1>8, <3>1, <3>2
  <2> QED  BY <1>7, <2>1, <2>2
<1>11. Begun(new, N + c)
  BY <1>5, <1>10 DEF Begun, x
<1> QED  BY <1>5, <1>9, <1>11 DEF q, h, g, new, ch

\* A chunk of which lead bytes complete the block that is begun (f = 1) or are none (f = 0).
LEMMA ChunkGoesOn ==
  ASSUME dgSent \in Nat, NEW c \in Nat, NEW lead \in 0..c, NEW f \in {0, 1},
         (dgSent % DgBlock) + lead = f * DgBlock
  PROVE  LET q == dgSent \div DgBlock
             t == (c - lead) \div DgBlock
             r == (c - lead) % DgBlock
             rest == SubSeq(MsgChunk(c), lead + t * DgBlock + 1, c)
         IN  /\ q \in Nat /\ t \in Nat /\ r \in 0..(DgBlock - 1)
             /\ (dgSent + c) \div DgBlock = q + f + t /\ (dgSent + c) % DgBlock = r
             /\ BlocksOf(MsgChunk(c), lead, t) = [k \in 1..t |-> MsgBlock(q + f + k)]
             /\ rest \in [1..r -> DgCells]
             /\ \A j \in 1..r : rest[j] = MsgByte((q + f + t) * DgBlock + j)
<1> DEFINE N == dgSent
           q == N \div DgBlock
           h == N % DgBlock
           x == q * DgBlock
           t == (c - lead) \div DgBlock
           r == (c - lead) % DgBlock
           ch == MsgChunk(c)
           rest == SubSeq(ch, lead + t * DgBlock + 1, c)
<1>1. DgBlock \in Nat \ {0}
  BY DgNumbers
<1>2. q \in Nat /\ h \in 0..(DgBlock - 1) /\ N = x + h
  BY <1>1, Divided
<1>3. t \in Nat /\ r \in 0..(DgBlock - 1) /\ c - lead = t * DgBlock + r
  <2> DEFINE d == c - lead
  <2>1. d \in Nat
    OBVIOUS
  <2> HIDE DEF d
  <2>2. d \div DgBlock \in Nat /\ d % DgBlock \in 0..(DgBlock - 1) /\ d = (d \div DgBlock) * DgBlock + (d % DgBlock)
    BY <1>1, <2>1, Divided
  <2> QED  BY <2>2 DEF d
<1>4. ch \in [1..c -> DgCells] /\ \A i \in 1..c : ch[i] = MsgByte(N + i)
  BY ChunkIs
<1>5. h + lead = f * DgBlock
  OBVIOUS
<1> DEFINE p == q + f
           P == p * DgBlock
           T == t * DgBlock
<1>6. x \in Nat /\ T \in Nat /\ f * DgBlock \in Nat /\ p \in Nat
  BY <1>1, <1>2, <1>3
<1>7. P = x + f * DgBlock
  BY <1>1, <1>2
<1> HIDE DEF N, q, h, t, r, ch
<1>8. N + lead = P /\ P \in Nat
  BY <1>1, <1>2, <1>5, <1>6, <1>7
<1>9. (p + t) * DgBlock = P + T
  BY <1>1, <1>3, <1>6
<1>10. lead + T <= c /\ c - (lead + T) = r /\ lead + T \in Nat
  BY <1>1, <1>3, <1>6
<1> HIDE DEF p, x, P, T
<1>11. (N + c) \div DgBlock = p + t /\ (N + c) % DgBlock = r
  <2>1. N + c = P + T + r
    BY <1>3, <1>6, <1>8 DEF N, T
  <2> DEFINE u == p + t
  <2>2. N + c = u * DgBlock + r /\ u \in Nat
    BY <2>1, <1>3, <1>6, <1>9
  <2> HIDE DEF u
  <2>3. (u * DgBlock + r) \div DgBlock = u /\ (u * DgBlock + r) % DgBlock = r
    BY <1>1, <1>3, <2>2, DividedAs
  <2> QED  BY <2>2, <2>3 DEF u
<1>12. BlocksOf(ch, lead, t) = [k \in 1..t |-> MsgBlock(p + k)]
  <2>1. lead + t * DgBlock <= c /\ lead \in Nat
    BY <1>10 DEF T
  <2>2. BlocksOf(ch, lead, t) = [k \in 1..t |-> [j \in 1..DgBlock |-> ch[lead + (k - 1) * DgBlock + j]]]
    BY <1>3, <1>4, <2>1, BlocksAre
  <2>3. ASSUME NEW k \in 1..t, NEW j \in 1..DgBlock
        PROVE  ch[lead + (k - 1) * DgBlock + j] = MsgByte(((p + k) - 1) * DgBlock + j)
    <3> DEFINE y == (k - 1) * DgBlock
    <3>1. y \in Nat /\ y + DgBlock <= T
      <4>1. y \in Nat
        BY <1>1
      <4>2. y + DgBlock <= t * DgBlock
        <5> DEFINE e == k - 1
        <5>1. e \in Nat /\ e < t
          BY <1>3
        <5> HIDE DEF e
        <5>2. e * DgBlock + DgBlock <= t * DgBlock
          BY <1>1, <1>3, <5>1, NextMultiple
        <5> QED  BY <5>2 DEF e
      <4> QED  BY <4>1, <4>2 DEF T
    <3>2. ((p + k) - 1) * DgBlock = P + y
      BY <1>1, <1>6 DEF P
    <3> HIDE DEF y
    <3>3. lead + y + j \in 1..c /\ N + (lead + y + j) = P + y + j
      BY <1>1, <1>6, <1>8, <1>10, <3>1 DEF N
    <3>4. ch[lead + y + j] = MsgByte(P + y + j)
      BY <1>4, <3>3
    <3> QED  BY <3>2, <3>4 DEF y
  <2>4. ASSUME NEW k \in 1..t
        PROVE  [j \in 1..DgBlock |-> ch[lead + (k - 1) * DgBlock + j]] = MsgBlock(p + k)
    <3> DEFINE u == p + k
    <3>1. \A j \in 1..DgBlock : ch[lead + (k - 1) * DgBlock + j] = MsgByte((u - 1) * DgBlock + j)
      BY <2>3, Zenon
    <3> HIDE DEF u
    <3>2. MsgBlock(u) = [j \in 1..DgBlock |-> MsgByte((u - 1) * DgBlock + j)]
      BY DEF MsgBlock
    <3>3. [j \in 1..DgBlock |-> ch[lead + (k - 1) * DgBlock + j]] = MsgBlock(u)
      BY <3>1, <3>2
    <3> QED  BY <3>3 DEF u
  <2> QED  BY <2>2, <2>4
<1>13. rest \in [1..r -> DgCells] /\ \A j \in 1..r : rest[j] = ch[lead + T + j]
  <2> DEFINE u == lead + T
             v == SubSeq(ch, u + 1, c)
  <2>1. u \in Nat /\ u <= c /\ c \in Nat /\ c - u = r
    BY <1>10
  <2> HIDE DEF u
  <2>2. v \in [1..(c - u) -> DgCells] /\ \A i \in 1..(c - u) : v[i] = ch[u + i]
    BY <1>4, <2>1, PieceIs
  <2>3. rest = v
    BY DEF u, T
  <2> HIDE DEF v, rest
  <2> QED  BY <2>1, <2>2, <2>3 DEF u
<1> HIDE DEF rest
<1>14. ASSUME NEW j \in 1..r PROVE rest[j] = MsgByte((p + t) * DgBlock + j)
  <2>1. lead + T + j \in 1..c /\ N + (lead + T + j) = P + T + j
    BY <1>3, <1>6, <1>8, <1>10 DEF N
  <2> QED  BY <1>4, <1>9, <1>13, <2>1
<1> QED  BY <1>2, <1>3, <1>11, <1>12, <1>13, <1>14 DEF q, t, r, p, rest, ch, N

\* The bytes that complete the block that is begun.
LEMMA BlockCompleted ==
  ASSUME dgSent \in Nat, NEW c \in Nat, NEW lead \in 0..c, (dgSent % DgBlock) + lead = DgBlock,
         NEW m \in Nat, m >= DgBlock, NEW mem \in [1..m -> DgCells], Begun(mem, dgSent)
  PROVE  LET new == Overlay(mem, dgSent % DgBlock, SubSeq(MsgChunk(c), 1, lead))
         IN  /\ new \in [1..m -> DgCells]
             /\ \A j \in 1..DgBlock : new[j] = MsgBlock((dgSent \div DgBlock) + 1)[j]
<1> DEFINE N == dgSent
           q == N \div DgBlock
           h == N % DgBlock
           x == q * DgBlock
           ch == MsgChunk(c)
           pre == SubSeq(ch, 1, lead)
           new == Overlay(mem, h, pre)
<1>1. DgBlock \in Nat \ {0}
  BY DgNumbers
<1>2. q \in Nat /\ h \in 0..(DgBlock - 1) /\ N = x + h
  BY <1>1, Divided
<1>3. \A j \in 1..h : mem[j] = MsgByte(x + j)
  BY DEF Begun
<1>4. x \in Nat
  BY <1>1, <1>2
<1>5. ch \in [1..c -> DgCells] /\ \A i \in 1..c : ch[i] = MsgByte(N + i)
  BY ChunkIs
<1>6. h + lead = DgBlock /\ lead \in Nat /\ lead <= c
  OBVIOUS
<1> HIDE DEF q
<1>7. \A j \in 1..DgBlock : MsgBlock(q + 1)[j] = MsgByte(x + j)
  <2>1. q + 1 \in Nat \ {0} /\ (q + 1) - 1 = q
    BY <1>2
  <2> DEFINE u == q + 1
  <2>2. u \in Nat \ {0} /\ u - 1 = q
    BY <2>1
  <2> HIDE DEF u
  <2>3. \A j \in 1..DgBlock : MsgBlock(u)[j] = MsgByte((u - 1) * DgBlock + j)
    BY <2>2, MsgBlockIs
  <2> QED  BY <2>2, <2>3 DEF u
<1> HIDE DEF h, x, ch
<1>8. pre \in [1..lead -> DgCells] /\ \A i \in 1..lead : pre[i] = MsgByte(N + i)
  <2>1. c \in Nat /\ lead \in 0..c
    OBVIOUS
  <2>2. pre \in [1..lead -> DgCells] /\ \A i \in 1..lead : pre[i] = ch[i]
    BY <1>5, <2>1, PrefixIs
  <2>3. \A i \in 1..lead : i \in 1..c
    OBVIOUS
  <2> HIDE DEF pre
  <2> QED  BY <1>5, <2>2, <2>3
<1> HIDE DEF pre
<1>9. new \in [1..m -> DgCells] /\ \A i \in 1..m : new[i] = IF h < i /\ i <= h + lead THEN pre[i - h] ELSE mem[i]
  <2> DEFINE l == lead
  <2>1. h \in Nat /\ l \in Nat /\ h + l <= m
    BY <1>1, <1>2, <1>6
  <2>2. pre \in [1..l -> DgCells]
    BY <1>8
  <2> HIDE DEF l
  <2>3. /\ Overlay(mem, h, pre) \in [1..m -> DgCells]
        /\ \A i \in 1..m : Overlay(mem, h, pre)[i] = IF h < i /\ i <= h + l THEN pre[i - h] ELSE mem[i]
    BY <2>1, <2>2, OverlayIs
  <2> QED  BY <2>3 DEF l
<1> HIDE DEF new
<1>10. ASSUME NEW j \in 1..DgBlock PROVE new[j] = MsgByte(x + j)
  <2>0. j \in 1..m
    BY <1>1
  <2>1. CASE j <= h
    <3>1. new[j] = mem[j]
      BY <1>2, <1>9, <2>0, <2>1
    <3> QED  BY <1>2, <1>3, <2>1, <3>1
  <2>2. CASE h < j
    <3>1. j - h \in 1..lead /\ N + (j - h) = x + j
      BY <1>1, <1>2, <1>4, <1>6, <2>2
    <3>2. new[j] = pre[j - h]
      BY <1>1, <1>2, <1>6, <1>9, <2>0, <2>2
    <3> QED  BY <1>8, <3>1, <3>2
  <2> QED  BY <1>1, <1>2, <2>1, <2>2
<1> QED  BY <1>7, <1>9, <1>10 DEF q, h, ch, pre, new

-----------------------------------------------------------------------------
(* MD5 *)

LEMMA Md5UpdateIs ==
  ASSUME dgSent \in Nat, NEW c \in Nat, dgIn \in [1..DgBlock -> DgCells], Begun(dgIn, dgSent),
         dgBlocks = WholeOf(dgSent \div DgBlock), dgCount = Md5CountOf(dgSent), MD5Update(c)
  PROVE  /\ dgIn' \in [1..DgBlock -> DgCells] /\ Begun(dgIn', dgSent + c)
         /\ dgBlocks' = WholeOf((dgSent + c) \div DgBlock) /\ dgCount' = Md5CountOf(dgSent + c)
<1> DEFINE q == dgSent \div DgBlock
           h == dgSent % DgBlock
           ch == MsgChunk(c)
           lead == IF h = 0 THEN 0 ELSE DgBlock - h
           t == (c - lead) \div DgBlock
           r == (c - lead) % DgBlock
           blocks == BlocksOf(ch, lead, t)
           first == IF h = 0 THEN << >> ELSE <<Overlay(dgIn, h, SubSeq(ch, 1, lead))>>
           whole == first \o blocks
           rest == SubSeq(ch, lead + t * DgBlock + 1, c)
           f == IF h = 0 THEN 0 ELSE 1
           mem == IF whole = << >> THEN dgIn ELSE Last(whole)
<1>1. Md5Held = h
  BY Md5HeldIs
<1>2. dgCount' = Md5CountOf(dgSent + c)
  BY Md5CountedIs DEF MD5Update
<1>3. DgBlock \in Nat \ {0} /\ DgBlock \in Nat /\ DgBlock >= DgBlock
  BY DgNumbers
<1>4. q \in Nat /\ h \in 0..(DgBlock - 1)
  BY <1>3, Divided
<1>5. CASE h > 0 /\ c < DgBlock - h
  <2>1. dgIn' = Overlay(dgIn, h, ch) /\ dgBlocks' = dgBlocks
    BY <1>1, <1>5 DEF MD5Update, Md5Fits
  <2>2. h + c < DgBlock
    BY <1>3, <1>4, <1>5
  <2>3. /\ (dgSent + c) \div DgBlock = dgSent \div DgBlock
        /\ Overlay(dgIn, dgSent % DgBlock, MsgChunk(c)) \in [1..DgBlock -> DgCells]
        /\ Begun(Overlay(dgIn, dgSent % DgBlock, MsgChunk(c)), dgSent + c)
    BY <1>3, <2>2, ChunkFits
  <2> QED  BY <1>2, <2>1, <2>3
<1>6. CASE ~(h > 0 /\ c < DgBlock - h)
  <2>1. dgBlocks' = dgBlocks \o whole /\ dgIn' = Overlay(mem, 0, rest)
    BY <1>1, <1>6 DEF MD5Update, Md5Fits
  <2>2. lead \in 0..c /\ f \in {0, 1} /\ h + lead = f * DgBlock
    BY <1>3, <1>4, <1>6
  <2>3. /\ t \in Nat /\ r \in 0..(DgBlock - 1)
        /\ (dgSent + c) \div DgBlock = q + f + t /\ (dgSent + c) % DgBlock = r
        /\ blocks = [k \in 1..t |-> MsgBlock(q + f + k)]
        /\ rest \in [1..r -> DgCells]
        /\ \A j \in 1..r : rest[j] = MsgByte((q + f + t) * DgBlock + j)
    <3> DEFINE ld == lead
               ff == f
    <3>1. ld \in 0..c /\ ff \in {0, 1} /\ h + ld = ff * DgBlock
      BY <2>2
    <3> HIDE DEF ld, ff
    <3>2. LET tt == (c - ld) \div DgBlock
              rr == (c - ld) % DgBlock
              rs == SubSeq(MsgChunk(c), ld + tt * DgBlock + 1, c)
         IN  /\ q \in Nat /\ tt \in Nat /\ rr \in 0..(DgBlock - 1)
             /\ (dgSent + c) \div DgBlock = q + ff + tt /\ (dgSent + c) % DgBlock = rr
             /\ BlocksOf(MsgChunk(c), ld, tt) = [k \in 1..tt |-> MsgBlock(q + ff + k)]
             /\ rs \in [1..rr -> DgCells]
             /\ \A j \in 1..rr : rs[j] = MsgByte((q + ff + tt) * DgBlock + j)
      BY <3>1, ChunkGoesOn
    <3> QED  BY <3>2 DEF ld, ff
  <2> HIDE DEF t, r, blocks, rest
  <2>4. /\ DOMAIN whole = 1..(f + t) /\ whole = [k \in 1..(f + t) |-> whole[k]] /\ Len(whole) = f + t
        /\ \A k \in 1..(f + t) : whole[k] = MsgBlock(q + k)
    <3> DEFINE S == {MsgBlock(k) : k \in Nat}
    <3>1. \A k \in Nat : MsgBlock(k) \in S
      BY Zenon
    <3> HIDE DEF S
    <3>2. CASE h = 0
      <4>1. f = 0 /\ first = << >>
        BY <3>2
      <4>2. \A k \in 1..t : q + 0 + k = q + k /\ q + k \in Nat
        BY <1>4, <2>3
      <4>3. blocks = [k \in 1..t |-> MsgBlock(q + k)] /\ \A k \in 1..t : MsgBlock(q + k) \in S
        BY <2>3, <3>1, <4>1, <4>2
      <4>4. blocks \in Seq(S) /\ Len(blocks) = t
        BY <2>3, <4>3
      <4>5. whole = blocks /\ f + t = t
        BY <2>3, <4>1, <4>4
      <4> HIDE DEF whole
      <4> QED  BY <2>3, <4>3, <4>4, <4>5
    <3>3. CASE h # 0
      <4>1. f = 1 /\ lead = DgBlock - h
        BY <3>3
      <4> DEFINE new == Overlay(dgIn, h, SubSeq(ch, 1, lead))
      <4>2. first = <<new>>
        BY <3>3
      <4>3. new \in [1..DgBlock -> DgCells] /\ \A j \in 1..DgBlock : new[j] = MsgBlock(q + 1)[j]
        <5> DEFINE ld == lead
        <5>1. ld \in 0..c /\ h + ld = DgBlock
          BY <1>3, <2>2, <4>1
        <5> HIDE DEF ld
        <5>2. LET nw == Overlay(dgIn, dgSent % DgBlock, SubSeq(MsgChunk(c), 1, ld))
              IN  /\ nw \in [1..DgBlock -> DgCells]
                  /\ \A j \in 1..DgBlock : nw[j] = MsgBlock((dgSent \div DgBlock) + 1)[j]
          BY <1>3, <5>1, BlockCompleted
        <5> QED  BY <5>2 DEF ld
      <4> HIDE DEF new
      <4>4. q + 1 \in Nat \ {0}
        BY <1>4
      <4>5. MsgBlock(q + 1) \in [1..DgBlock -> DgCells]
        <5> DEFINE u == q + 1
        <5>1. u \in Nat \ {0}
          BY <4>4
        <5> HIDE DEF u
        <5>2. MsgBlock(u) \in [1..DgBlock -> DgCells]
          BY <5>1, MsgBlockIs
        <5> QED  BY <5>2 DEF u
      <4>6. new = MsgBlock(q + 1) /\ new \in S
        <5> DEFINE u == q + 1
        <5>1. u \in Nat
          BY <4>4
        <5>2. MsgBlock(u) \in [1..DgBlock -> DgCells] /\ \A j \in 1..DgBlock : new[j] = MsgBlock(u)[j]
          BY <4>3, <4>5
        <5>4. new \in [1..DgBlock -> DgCells]
          BY <4>3
        <5> HIDE DEF u
        <5> DEFINE v == MsgBlock(u)
        <5>5. v \in [1..DgBlock -> DgCells] /\ \A j \in 1..DgBlock : new[j] = v[j]
          BY <5>2
        <5> HIDE DEF v
        <5>6. new = v
          BY <5>4, <5>5, SameBlock
        <5>3. new = MsgBlock(u)
          BY <5>6 DEF v
        <5> QED  BY <3>1, <5>1, <5>3 DEF u
      <4>7. \A k \in 1..t : q + 1 + k \in Nat
        BY <1>4, <2>3
      <4>8. blocks = [k \in 1..t |-> MsgBlock(q + 1 + k)] /\ \A k \in 1..t : MsgBlock(q + 1 + k) \in S
        BY <2>3, <3>1, <4>1, <4>7
      <4>9. blocks \in Seq(S) /\ Len(blocks) = t /\ \A k \in 1..t : blocks[k] = MsgBlock(q + 1 + k)
        BY <2>3, <4>8
      <4>10. whole = <<new>> \o blocks
        BY <4>2
      <4> HIDE DEF whole, blocks
      <4>11. whole \in Seq(S) /\ Len(whole) = 1 + t /\ whole[1] = new /\ \A k \in 2..(1 + t) : whole[k] = blocks[k - 1]
        BY <2>3, <4>6, <4>9, <4>10
      <4>12. ASSUME NEW k \in 1..(1 + t) PROVE whole[k] = MsgBlock(q + k)
        <5>1. CASE k = 1
          BY <4>6, <4>11, <5>1
        <5>2. CASE k # 1
          <6>1. k \in 2..(1 + t) /\ k - 1 \in 1..t /\ q + 1 + (k - 1) = q + k
            BY <1>4, <2>3, <5>2
          <6> QED  BY <4>9, <4>11, <6>1
        <5> QED  BY <5>1, <5>2
      <4>13. whole = [k \in 1..(1 + t) |-> whole[k]] /\ DOMAIN whole = 1..(1 + t)
        BY <2>3, <4>11
      <4> QED  BY <4>1, <4>11, <4>12, <4>13
    <3> QED  BY <3>2, <3>3
  <2> HIDE DEF whole
  <2>5. dgBlocks' = WholeOf((dgSent + c) \div DgBlock)
    <3> DEFINE w == f + t
    <3>1. w \in Nat /\ q + f + t = q + w
      BY <1>4, <2>2, <2>3
    <3>2. DOMAIN whole = 1..w /\ whole = [k \in 1..w |-> whole[k]] /\ \A k \in 1..w : whole[k] = MsgBlock(q + k)
      BY <2>4
    <3> HIDE DEF w, q
    <3>3. WholeOf(q) \o whole = WholeOf(q + w)
      BY <1>4, <3>1, <3>2, WholeMore
    <3> QED  BY <2>1, <2>3, <3>1, <3>3 DEF q
  <2>6. mem \in [1..DgBlock -> DgCells]
    <3>1. CASE whole = << >>
      BY <3>1
    <3>2. CASE whole # << >>
      <4>1. Last(whole) = whole[Len(whole)]
        BY DEF Last
      <4>2. f + t \in Nat \ {0}
        <5>1. f + t \in Nat
          BY <2>2, <2>3
        <5>2. f + t # 0
          <6> SUFFICES ASSUME f + t = 0 PROVE FALSE
            OBVIOUS
          <6>1. whole = [k \in 1..0 |-> whole[k]]
            BY <2>4
          <6> QED  BY <3>2, <6>1
        <5> QED  BY <5>1, <5>2
      <4> DEFINE w == f + t
                 u == q + w
      <4>3. w \in 1..w /\ u \in Nat \ {0}
        BY <1>4, <4>2
      <4>4. whole[w] = MsgBlock(u)
        BY <2>4, <4>3
      <4> HIDE DEF u
      <4>5. MsgBlock(u) \in [1..DgBlock -> DgCells]
        BY <4>3, MsgBlockIs
      <4> QED  BY <2>4, <3>2, <4>1, <4>4, <4>5
    <3> QED  BY <3>1, <3>2
  <2> HIDE DEF mem
  <2>7. dgIn' \in [1..DgBlock -> DgCells] /\ \A i \in 1..DgBlock : dgIn'[i] = IF i <= r THEN rest[i] ELSE mem[i]
    <3>1. r \in 0..DgBlock
      BY <1>3, <2>3
    <3>2. rest \in [1..r -> DgCells]
      BY <2>3
    <3>3. /\ Overlay(mem, 0, rest) \in [1..DgBlock -> DgCells]
          /\ \A i \in 1..DgBlock : Overlay(mem, 0, rest)[i] = IF i <= r THEN rest[i] ELSE mem[i]
      BY <1>3, <2>6, <3>1, <3>2, OverlayFront
    <3> QED  BY <2>1, <3>3
  <2>8. ASSUME NEW j \in 1..r PROVE dgIn'[j] = MsgByte((q + f + t) * DgBlock + j)
    <3>1. j \in 1..DgBlock /\ j <= r
      BY <1>3, <2>3
    <3> QED  BY <2>3, <2>7, <3>1
  <2>9. Begun(dgIn', dgSent + c)
    BY <2>3, <2>8 DEF Begun
  <2> QED  BY <1>2, <2>5, <2>7, <2>9
<1> QED  BY <1>5, <1>6

-----------------------------------------------------------------------------
(* SHA-2 *)

LEMMA WholeOneMore ==
  ASSUME NEW q \in Nat, NEW b, b = MsgBlock(q + 1)
  PROVE  WholeOf(q) \o <<b>> = WholeOf(q + 1)
<1> DEFINE s == <<b>>
<1>1. DOMAIN s = 1..1 /\ s = [k \in 1..1 |-> s[k]] /\ s[1] = b
  OBVIOUS
<1>2. \A k \in 1..1 : s[k] = MsgBlock(q + k)
  <2>1. \A k \in 1..1 : k = 1
    OBVIOUS
  <2> QED  BY <1>1, <2>1
<1> HIDE DEF s
<1>3. 1 \in Nat
  OBVIOUS
<1>4. WholeOf(q) \o s = WholeOf(q + 1)
  BY <1>1, <1>2, <1>3, WholeMore
<1> QED  BY <1>4 DEF s

LEMMA FirstBlockIs ==
  ASSUME NEW m \in Nat, m >= DgBlock, NEW mem \in [1..m -> DgCells], NEW b \in [1..DgBlock -> DgCells],
         \A j \in 1..DgBlock : mem[j] = b[j]
  PROVE  SubSeq(mem, 1, DgBlock) = b
<1>1. DgBlock \in 0..m
  BY DgNumbers
<1> DEFINE a == SubSeq(mem, 1, DgBlock)
<1>2. a \in [1..DgBlock -> DgCells] /\ \A i \in 1..DgBlock : a[i] = mem[i]
  BY <1>1, PrefixIs
<1> HIDE DEF a
<1>4. a \in [1..DgBlock -> DgCells] /\ b \in [1..DgBlock -> DgCells] /\ \A j \in 1..DgBlock : a[j] = b[j]
  BY <1>2
<1>3. a = b
  BY <1>4, DgNumbers
<1> QED  BY <1>3 DEF a

LEMMA ShaUpdateIs ==
  ASSUME dgSent \in Nat, NEW c \in Nat, NEW m \in Nat, m >= DgBlock, dgIn \in [1..m -> DgCells], Begun(dgIn, dgSent),
         dgBlocks = WholeOf(dgSent \div DgBlock), dgCount = ShaCountOf(dgSent), ShaUpdate(c)
  PROVE  /\ dgIn' \in [1..m -> DgCells] /\ Begun(dgIn', dgSent + c)
         /\ dgBlocks' = WholeOf((dgSent + c) \div DgBlock) /\ dgCount' = ShaCountOf(dgSent + c)
<1> DEFINE q == dgSent \div DgBlock
           h == dgSent % DgBlock
           ch == MsgChunk(c)
           lead == IF c < DgBlock - h THEN c ELSE DgBlock - h
           t == (c - lead) \div DgBlock
           r == (c - lead) % DgBlock
           blocks == BlocksOf(ch, lead, t)
           taken == Overlay(dgIn, h, SubSeq(ch, 1, lead))
           rest == SubSeq(ch, lead + t * DgBlock + 1, c)
<1>1. dgCount[1] = h /\ dgCount[2] = (q * DgBlock) % DgWord
  BY DEF ShaCountOf
<1>3. DgBlock \in Nat \ {0} /\ m \in Nat /\ m >= DgBlock /\ DgWord \in Nat \ {0}
  BY DgNumbers
<1>4. q \in Nat /\ h \in 0..(DgBlock - 1)
  BY <1>3, Divided
<1>7. dgIn \in [1..m -> DgCells]
  OBVIOUS
<1>5. CASE h + c < DgBlock
  <2>1. dgIn' = taken /\ dgBlocks' = dgBlocks /\ dgCount' = <<h + c, dgCount[2]>>
    BY <1>1, <1>5 DEF ShaUpdate
  <2>2. lead = c
    BY <1>3, <1>4, <1>5
  <2>3. SubSeq(ch, 1, c) = ch
    <3>1. ch \in [1..c -> DgCells]
      BY ChunkIs
    <3> HIDE DEF ch
    <3>2. ch \in Seq(DgCells) /\ Len(ch) = c
      BY <3>1
    <3> QED  BY <3>2
  <2>4. taken = Overlay(dgIn, h, ch)
    BY <2>2, <2>3
  <2>5. h + c < DgBlock
    BY <1>5
  <2>6. /\ (dgSent + c) \div DgBlock = dgSent \div DgBlock
        /\ (dgSent + c) % DgBlock = (dgSent % DgBlock) + c
        /\ Overlay(dgIn, dgSent % DgBlock, MsgChunk(c)) \in [1..m -> DgCells]
        /\ Begun(Overlay(dgIn, dgSent % DgBlock, MsgChunk(c)), dgSent + c)
    BY <1>3, <1>7, <2>5, ChunkFits
  <2>7. dgCount' = ShaCountOf(dgSent + c)
    BY <1>1, <2>1, <2>6 DEF ShaCountOf
  <2> QED  BY <2>1, <2>4, <2>6, <2>7
<1>6. CASE ~(h + c < DgBlock)
  <2>1. /\ dgBlocks' = (dgBlocks \o <<SubSeq(taken, 1, DgBlock)>>) \o blocks
        /\ dgIn' = Overlay(taken, 0, rest)
        /\ dgCount' = <<Len(rest), (dgCount[2] + (t + 1) * DgBlock) % DgWord>>
    BY <1>1, <1>6 DEF ShaUpdate
  <2>2. lead \in 0..c /\ h + lead = DgBlock /\ 1 * DgBlock = DgBlock /\ 1 \in {0, 1}
    BY <1>3, <1>4, <1>6
  <2>3. /\ t \in Nat /\ r \in 0..(DgBlock - 1)
        /\ (dgSent + c) \div DgBlock = q + 1 + t /\ (dgSent + c) % DgBlock = r
        /\ blocks = [k \in 1..t |-> MsgBlock(q + 1 + k)]
        /\ rest \in [1..r -> DgCells]
        /\ \A j \in 1..r : rest[j] = MsgByte((q + 1 + t) * DgBlock + j)
    <3> DEFINE ld == lead
               ff == 1
    <3>1. ld \in 0..c /\ ff \in {0, 1} /\ h + ld = ff * DgBlock
      BY <2>2
    <3> HIDE DEF ld, ff
    <3>2. LET tt == (c - ld) \div DgBlock
              rr == (c - ld) % DgBlock
              rs == SubSeq(MsgChunk(c), ld + tt * DgBlock + 1, c)
         IN  /\ q \in Nat /\ tt \in Nat /\ rr \in 0..(DgBlock - 1)
             /\ (dgSent + c) \div DgBlock = q + ff + tt /\ (dgSent + c) % DgBlock = rr
             /\ BlocksOf(MsgChunk(c), ld, tt) = [k \in 1..tt |-> MsgBlock(q + ff + k)]
             /\ rs \in [1..rr -> DgCells]
             /\ \A j \in 1..rr : rs[j] = MsgByte((q + ff + tt) * DgBlock + j)
      BY <3>1, ChunkGoesOn
    <3> QED  BY <3>2 DEF ld, ff
  <2>4. taken \in [1..m -> DgCells] /\ \A j \in 1..DgBlock : taken[j] = MsgBlock(q + 1)[j]
    <3> DEFINE ld == lead
    <3>1. ld \in 0..c /\ h + ld = DgBlock
      BY <2>2
    <3> HIDE DEF ld
    <3>2. LET nw == Overlay(dgIn, dgSent % DgBlock, SubSeq(MsgChunk(c), 1, ld))
          IN  /\ nw \in [1..m -> DgCells]
              /\ \A j \in 1..DgBlock : nw[j] = MsgBlock((dgSent \div DgBlock) + 1)[j]
      BY <1>3, <1>7, <3>1, BlockCompleted
    <3> QED  BY <3>2 DEF ld
  <2> HIDE DEF t, r, blocks, rest, taken
  <2>5. SubSeq(taken, 1, DgBlock) = MsgBlock(q + 1)
    <3> DEFINE u == q + 1
               b == MsgBlock(u)
    <3>1. u \in Nat \ {0}
      BY <1>4
    <3>2. \A i \in 1..DgBlock : taken[i] = b[i]
      BY <2>4
    <3> HIDE DEF u
    <3>3. b \in [1..DgBlock -> DgCells]
      BY <3>1, MsgBlockIs
    <3> HIDE DEF b
    <3>4. SubSeq(taken, 1, DgBlock) = b
      BY <2>4, <3>2, <3>3, FirstBlockIs
    <3> QED  BY <3>4 DEF b, u
  <2>6. dgBlocks' = WholeOf((dgSent + c) \div DgBlock)
    <3>1. dgBlocks \o <<SubSeq(taken, 1, DgBlock)>> = WholeOf(q + 1)
      <4> DEFINE b == SubSeq(taken, 1, DgBlock)
      <4>1. b = MsgBlock(q + 1) /\ dgBlocks = WholeOf(q)
        BY <2>5
      <4> HIDE DEF b, q
      <4>2. WholeOf(q) \o <<b>> = WholeOf(q + 1)
        BY <1>4, <4>1, WholeOneMore
      <4> QED  BY <4>1, <4>2 DEF b
    <3> DEFINE p == q + 1
    <3>2. p \in Nat
      BY <1>4
    <3>3. blocks = [k \in 1..t |-> MsgBlock(p + k)]
      BY <2>3
    <3>4. (dgSent + c) \div DgBlock = p + t
      BY <2>3
    <3>5. dgBlocks' = WholeOf(p) \o blocks
      BY <2>1, <3>1
    <3> HIDE DEF p
    <3>6. DOMAIN blocks = 1..t /\ blocks = [k \in 1..t |-> blocks[k]] /\ \A k \in 1..t : blocks[k] = MsgBlock(p + k)
      BY <3>3
    <3>7. WholeOf(p) \o blocks = WholeOf(p + t)
      BY <2>3, <3>2, <3>6, WholeMore
    <3> QED  BY <3>4, <3>5, <3>7
  <2>7. dgIn' \in [1..m -> DgCells] /\ \A i \in 1..m : dgIn'[i] = IF i <= r THEN rest[i] ELSE taken[i]
    <3>1. r \in 0..m
      BY <1>3, <2>3
    <3>2. rest \in [1..r -> DgCells]
      BY <2>3
    <3>3. /\ Overlay(taken, 0, rest) \in [1..m -> DgCells]
          /\ \A i \in 1..m : Overlay(taken, 0, rest)[i] = IF i <= r THEN rest[i] ELSE taken[i]
      BY <1>3, <2>4, <3>1, <3>2, OverlayFront
    <3> QED  BY <2>1, <3>3
  <2>8. ASSUME NEW j \in 1..r PROVE dgIn'[j] = MsgByte((q + 1 + t) * DgBlock + j)
    <3>1. j \in 1..m /\ j <= r
      BY <1>3, <2>3
    <3> QED  BY <2>3, <2>7, <3>1
  <2>9. Begun(dgIn', dgSent + c)
    BY <2>3, <2>8 DEF Begun
  <2>10. dgCount' = ShaCountOf(dgSent + c)
    <3> DEFINE x == q * DgBlock
               y == (t + 1) * DgBlock
    <3>1. x \in Nat /\ y \in Nat
      BY <1>3, <1>4, <2>3
    <3>2. x + y = (q + 1 + t) * DgBlock
      BY <1>3, <1>4, <2>3
    <3>3. dgCount' = <<Len(rest), ((x % DgWord) + y) % DgWord>>
      BY <1>1, <2>1
    <3> HIDE DEF x, y
    <3>4. ((x % DgWord) + y) % DgWord = (x + y) % DgWord
      BY <1>3, <3>1, SumRemainder
    <3>5. Len(rest) = r
      <4>1. r \in Nat /\ rest \in [1..r -> DgCells]
        BY <2>3
      <4> QED  BY <4>1
    <3> QED  BY <2>3, <3>2, <3>3, <3>4, <3>5 DEF ShaCountOf
  <2> QED  BY <2>6, <2>7, <2>9, <2>10
<1> QED  BY <1>5, <1>6

-----------------------------------------------------------------------------
(* Padding *)

\* The j-th cell behind the whole blocks of a message of N bytes whose last e blocks are padded.
PaddedCell(N, e, words, j) ==
  LET h == N % DgBlock
  IN  IF j <= h THEN MsgByte((N \div DgBlock) * DgBlock + j)
      ELSE IF j = h + 1 THEN Mark
      ELSE IF j <= e * DgBlock - 2 THEN ZeroByte
      ELSE IF j = e * DgBlock - 1 THEN words[1] ELSE words[2]

\* One block holds the rest of the message, the mark and the length, or two do.
PadBlocks(N, e) == e = IF (N % DgBlock) + 3 <= DgBlock THEN 1 ELSE 2

LEMMA FillIs ==
  ASSUME NEW N \in Nat, NEW e, PadBlocks(N, e)
  PROVE  LET used == N + 1 + DgField
         IN  (DgBlock - (used % DgBlock)) % DgBlock = e * DgBlock - (N % DgBlock) - 3
<1> DEFINE B == DgBlock
           q == N \div B
           h == N % B
           used == N + 1 + DgField
<1>1. B \in Nat \ {0} /\ B > 3
  BY DgNumbers
<1>2. q \in Nat /\ h \in 0..(B - 1) /\ N = q * B + h
  BY <1>1, Divided
<1>3. q * B \in Nat /\ (q + 1) * B = q * B + B
  BY <1>1, <1>2
<1>4. e = IF h + 3 <= B THEN 1 ELSE 2
  BY DEF PadBlocks
<1>5. used = N + 3
  BY DEF DgField
<1> HIDE DEF B, q, h, used
<1> DEFINE p == q + 1
<1>6. p \in Nat /\ p * B = q * B + B
  BY <1>2, <1>3
<1>7. \A z \in 0..(B - 1) : z % B = z
  <2> SUFFICES ASSUME NEW z \in 0..(B - 1) PROVE z % B = z
    OBVIOUS
  <2>1. 0 \in Nat /\ 0 * B + z = z
    BY <1>1
  <2>2. (0 * B + z) % B = z
    BY <1>1, <2>1, DividedAs
  <2> QED  BY <2>1, <2>2
<1> HIDE DEF p
<1>8. CASE h + 3 < B
  <2>1. used = q * B + (h + 3) /\ h + 3 \in 0..(B - 1)
    BY <1>1, <1>2, <1>3, <1>5, <1>8
  <2> DEFINE g == h + 3
  <2>2. g \in 0..(B - 1) /\ used = q * B + g
    BY <2>1
  <2> HIDE DEF g
  <2>3. (q * B + g) % B = g
    BY <1>1, <1>2, <2>2, DividedAs
  <2>4. B - g \in 0..(B - 1) /\ e = 1 /\ B - g = 1 * B - h - 3
    BY <1>1, <1>2, <1>4, <1>8 DEF g
  <2>5. (B - g) % B = B - g
    BY <1>7, <2>4
  <2> QED  BY <2>2, <2>3, <2>4, <2>5 DEF used, B, h
<1>9. CASE h + 3 = B
  <2>1. used = p * B + 0 /\ 0 \in 0..(B - 1)
    BY <1>1, <1>2, <1>3, <1>5, <1>6, <1>9
  <2>2. (p * B + 0) % B = 0
    BY <1>1, <1>6, <2>1, DividedAs
  <2>3. B - 0 = 1 * B + 0 /\ 1 \in Nat
    BY <1>1
  <2>4. (1 * B + 0) % B = 0
    BY <1>1, <2>1, <2>3, DividedAs
  <2>5. e = 1 /\ 1 * B - h - 3 = 0
    BY <1>1, <1>2, <1>4, <1>9
  <2> QED  BY <2>1, <2>2, <2>3, <2>4, <2>5 DEF used, B, h
<1>10. CASE h + 3 > B
  <2>1. used = p * B + (h + 3 - B) /\ h + 3 - B \in 0..(B - 1)
    BY <1>1, <1>2, <1>3, <1>5, <1>6, <1>10
  <2> DEFINE g == h + 3 - B
  <2>2. g \in 0..(B - 1) /\ used = p * B + g
    BY <2>1
  <2>4. B - g \in 0..(B - 1) /\ e = 2 /\ B - g = 2 * B - h - 3
    BY <1>1, <1>2, <1>4, <1>10
  <2> HIDE DEF g
  <2>3. (p * B + g) % B = g
    BY <1>1, <1>6, <2>2, DividedAs
  <2>5. (B - g) % B = B - g
    BY <1>7, <2>4
  <2> QED  BY <2>2, <2>3, <2>4, <2>5 DEF used, B, h
<1> QED  BY <1>1, <1>2, <1>8, <1>9, <1>10

LEMMA PaddedIs ==
  ASSUME NEW N \in Nat, NEW e, PadBlocks(N, e), NEW words, words \in Seq(DgCells), Len(words) = 2
  PROVE  LET padded == PaddedMessage(N, words)
             q == N \div DgBlock
         IN  /\ padded \in [1..((q + e) * DgBlock) -> DgCells]
             /\ Len(padded) \div DgBlock = q + e
             /\ \A i \in 1..(q * DgBlock) : padded[i] = MsgByte(i)
             /\ \A j \in 1..(e * DgBlock) : padded[q * DgBlock + j] = PaddedCell(N, e, words, j)
<1> DEFINE B == DgBlock
           q == N \div B
           h == N % B
           x == q * B
           E == e * B
           fill == (B - ((N + 1 + DgField) % B)) % B
           zeros == ZeroBytes(fill)
           s1 == [i \in 1..N |-> MsgByte(i)]
           s2 == s1 \o <<Mark>>
           s3 == s2 \o zeros
           s4 == s3 \o words
<1>0. PaddedMessage(N, words) = s4
  BY DEF PaddedMessage
<1>1. B \in Nat \ {0} /\ B > 3
  BY DgNumbers
<1>2. q \in Nat /\ h \in 0..(B - 1) /\ N = x + h
  BY <1>1, Divided
<1>3. x \in Nat /\ e \in {1, 2} /\ E \in Nat /\ h + 3 <= E /\ (q + e) * B = x + E
  BY <1>1, <1>2 DEF PadBlocks
<1>4. fill = E - h - 3
  <2>1. (DgBlock - ((N + 1 + DgField) % DgBlock)) % DgBlock = e * DgBlock - (N % DgBlock) - 3
    BY FillIs
  <2> QED  BY <2>1
<1> HIDE DEF B, q, h, x, E, fill
<1>5. fill \in Nat
  BY <1>1, <1>2, <1>3, <1>4
<1>6. s1 \in Seq(DgCells) /\ Len(s1) = N /\ \A i \in 1..N : s1[i] = MsgByte(i)
  <2>1. \A i \in 1..N : MsgByte(i) \in DgCells
    BY CellsAre
  <2> QED  BY <2>1
<1> HIDE DEF s1
<1>7. s2 \in Seq(DgCells) /\ Len(s2) = N + 1 /\ s2[N + 1] = Mark /\ \A i \in 1..N : s2[i] = MsgByte(i)
  <2>1. <<Mark>> \in Seq(DgCells) /\ Len(<<Mark>>) = 1 /\ <<Mark>>[1] = Mark
    BY CellsAre
  <2> QED  BY <1>6, <2>1
<1> HIDE DEF s2
<1>8. zeros \in Seq(DgCells) /\ Len(zeros) = fill /\ \A i \in 1..fill : zeros[i] = ZeroByte
  BY <1>5, CellsAre DEF ZeroBytes
<1> HIDE DEF zeros
<1>9. /\ s3 \in Seq(DgCells) /\ Len(s3) = N + 1 + fill
      /\ \A i \in 1..N : s3[i] = MsgByte(i)
      /\ s3[N + 1] = Mark
      /\ \A i \in (N + 2)..(N + 1 + fill) : s3[i] = ZeroByte
  <2>1. s3 \in Seq(DgCells) /\ Len(s3) = N + 1 + fill
    BY <1>5, <1>7, <1>8
  <2>2. \A i \in 1..(N + 1) : s3[i] = s2[i]
    BY <1>5, <1>7, <1>8
  <2>3. \A i \in (N + 2)..(N + 1 + fill) : i - (N + 1) \in 1..fill /\ s3[i] = zeros[i - (N + 1)]
    BY <1>5, <1>7, <1>8
  <2> QED  BY <1>7, <1>8, <2>1, <2>2, <2>3
<1> HIDE DEF s3
<1>10. words \in Seq(DgCells) /\ Len(words) = 2
  OBVIOUS
<1> DEFINE l == N + 1 + fill
<1>11. l \in Nat /\ l = x + E - 2
  BY <1>2, <1>3, <1>4, <1>5
<1>a. s3 \in Seq(DgCells) /\ Len(s3) = l
  BY <1>9
<1> HIDE DEF l
<1>12. /\ s4 \in Seq(DgCells) /\ Len(s4) = l + 2
       /\ \A i \in 1..l : s4[i] = s3[i]
       /\ s4[l + 1] = words[1] /\ s4[l + 2] = words[2]
  <2> DEFINE two == 2
  <2>a. two \in Nat /\ Len(words) = two /\ words \in Seq(DgCells)
    BY <1>10
  <2> HIDE DEF two
  <2>b. /\ s4 \in Seq(DgCells) /\ Len(s4) = l + two
        /\ s4 = [i \in 1..(l + two) |-> IF i <= l THEN s3[i] ELSE words[i - l]]
    <3>1. l \in Nat
      BY <1>11
    <3>2. s3 \in Seq(DgCells) /\ Len(s3) = l /\ words \in Seq(DgCells) /\ Len(words) = two /\ two \in Nat
      BY <1>a, <2>a
    <3> DEFINE w == words
    <3>3. w \in Seq(DgCells) /\ Len(w) = two /\ s4 = s3 \o w
      BY <3>2
    <3> HIDE DEF w, s4
    <3>4. s3 \o w \in Seq(DgCells) /\ Len(s3 \o w) = l + two
      <4>1. s3 \in Seq(DgCells) /\ w \in Seq(DgCells) /\ Len(s3) = l /\ Len(w) = two
        BY <3>2, <3>3
      <4>2. s3 \o w \in Seq(DgCells) /\ Len(s3 \o w) = Len(s3) + Len(w)
        BY <4>1
      <4> QED  BY <4>1, <4>2
    <3>5. s3 \o w = [i \in 1..(l + two) |-> IF i <= l THEN s3[i] ELSE w[i - l]]
      BY <3>1, <3>2, <3>3, CellsJoined
    <3> QED  BY <3>3, <3>4, <3>5 DEF w
  <2>1. s4 \in Seq(DgCells) /\ Len(s4) = l + 2
    BY <2>b DEF two
  <2>2. s4 = [i \in 1..(l + 2) |-> IF i <= l THEN s3[i] ELSE words[i - l]]
    BY <2>b DEF two
  <2> HIDE DEF s4
  <2>3. \A i \in 1..l : i \in 1..(l + 2) /\ s4[i] = s3[i]
    BY <1>11, <2>2
  <2>4. l + 1 \in 1..(l + 2) /\ l + 2 \in 1..(l + 2) /\ ~(l + 1 <= l) /\ ~(l + 2 <= l) /\ (l + 1) - l = 1 /\ (l + 2) - l = 2
    BY <1>11
  <2>5. s4[l + 1] = words[1]
    BY <2>2, <2>4
  <2>6. s4[l + 2] = words[2]
    BY <2>2, <2>4
  <2> QED  BY <2>1, <2>3, <2>5, <2>6
<1> HIDE DEF s4
<1>13. Len(s4) = x + E /\ s4 \in [1..(x + E) -> DgCells]
  BY <1>2, <1>3, <1>11, <1>12
<1>14. Len(s4) \div B = q + e
  <2> DEFINE p == q + e
  <2>1. p \in Nat /\ Len(s4) = p * B + 0 /\ 0 \in 0..(B - 1)
    BY <1>1, <1>2, <1>3, <1>13
  <2> HIDE DEF p
  <2>2. (p * B + 0) \div B = p
    BY <1>1, <2>1, DividedAs
  <2> QED  BY <2>1, <2>2 DEF p
<1>15. ASSUME NEW i \in 1..x PROVE s4[i] = MsgByte(i)
  <2>1. i \in 1..N /\ i \in 1..l
    BY <1>2, <1>3, <1>11
  <2> QED  BY <1>9, <1>12, <2>1
<1>16. ASSUME NEW j \in 1..E
       PROVE  s4[x + j] = IF j <= h THEN MsgByte(x + j) ELSE IF j = h + 1 THEN Mark
                          ELSE IF j <= E - 2 THEN ZeroByte ELSE IF j = E - 1 THEN words[1] ELSE words[2]
  <2>1. CASE j <= h
    <3>1. x + j \in 1..N /\ x + j \in 1..l
      BY <1>2, <1>3, <1>11, <2>1
    <3> QED  BY <1>9, <1>12, <2>1, <3>1
  <2>2. CASE j = h + 1
    <3>1. x + j = N + 1 /\ x + j \in 1..l /\ ~(j <= h)
      BY <1>2, <1>3, <1>11, <2>2
    <3> QED  BY <1>9, <1>12, <2>2, <3>1
  <2>3. CASE j > h + 1 /\ j <= E - 2
    <3>1. x + j \in (N + 2)..(N + 1 + fill) /\ x + j \in 1..l /\ ~(j <= h) /\ j # h + 1
      BY <1>2, <1>3, <1>4, <1>11, <2>3
    <3> QED  BY <1>9, <1>12, <2>3, <3>1
  <2>4. CASE j = E - 1
    <3>1. x + j = l + 1 /\ ~(j <= h) /\ j # h + 1 /\ ~(j <= E - 2)
      BY <1>2, <1>3, <1>11, <2>4
    <3> QED  BY <1>12, <2>4, <3>1
  <2>5. CASE j = E
    <3>1. x + j = l + 2 /\ ~(j <= h) /\ j # h + 1 /\ ~(j <= E - 2) /\ j # E - 1
      BY <1>2, <1>3, <1>11, <2>5
    <3> QED  BY <1>12, <3>1
  <2> QED  BY <1>2, <1>3, <2>1, <2>2, <2>3, <2>4, <2>5
<1>17. \A j \in 1..E : s4[x + j] = PaddedCell(N, e, words, j)
  BY <1>16, Zenon DEF PaddedCell, B, q, h, x, E
<1> QED  BY <1>0, <1>3, <1>13, <1>14, <1>15, <1>17 DEF B, q, x, E

PaddedTail(N, e, words, s) ==
  /\ N \in Nat /\ PadBlocks(N, e) /\ words \in Seq(DgCells) /\ Len(words) = 2
  /\ DOMAIN s = 1..e /\ s = [k \in 1..e |-> s[k]]
  /\ \A k \in 1..e : s[k] = [j \in 1..DgBlock |-> PaddedCell(N, e, words, (k - 1) * DgBlock + j)]

\* WholeOf blocks, and the blocks with the rest and the padding: the padded message.
LEMMA TailEnds ==
  ASSUME NEW N, NEW e, NEW words, NEW s, PaddedTail(N, e, words, s)
  PROVE  WholeOf(N \div DgBlock) \o s = BlocksOf(PaddedMessage(N, words), 0, Len(PaddedMessage(N, words)) \div DgBlock)
<1>0. /\ N \in Nat /\ PadBlocks(N, e) /\ words \in Seq(DgCells) /\ Len(words) = 2
      /\ DOMAIN s = 1..e /\ s = [k \in 1..e |-> s[k]]
      /\ \A k \in 1..e : s[k] = [j \in 1..DgBlock |-> PaddedCell(N, e, words, (k - 1) * DgBlock + j)]
  BY DEF PaddedTail
<1> USE <1>0
<1> DEFINE q == N \div DgBlock
           x == q * DgBlock
           P == PaddedMessage(N, words)
           R == BlocksOf(P, 0, q + e)
           blk(k) == [j \in 1..DgBlock |-> P[0 + (k - 1) * DgBlock + j]]
<1>1. DgBlock \in Nat \ {0} /\ DgBlock \in Nat
  BY DgNumbers
<1>a. q \in Nat
  BY <1>1, Divided
<1>b. e \in {1, 2}
  BY DEF PadBlocks
<1> HIDE DEF q
<1>2. q \in Nat /\ x \in Nat /\ e \in {1, 2} /\ e \in Nat
  BY <1>1, <1>a, <1>b
<1>3. /\ P \in [1..((q + e) * DgBlock) -> DgCells]
      /\ Len(P) \div DgBlock = q + e
      /\ \A i \in 1..x : P[i] = MsgByte(i)
      /\ \A j \in 1..(e * DgBlock) : P[x + j] = PaddedCell(N, e, words, j)
  BY PaddedIs DEF q
<1> HIDE DEF P
<1>4. R = [k \in 1..(q + e) |-> blk(k)]
  <2> DEFINE p == q + e
             l == p * DgBlock
  <2>1. p \in Nat /\ l \in Nat /\ 0 \in Nat /\ 0 + p * DgBlock <= l
    BY <1>1, <1>2
  <2>2. P \in [1..l -> DgCells]
    BY <1>3
  <2> HIDE DEF p, l
  <2>3. BlocksOf(P, 0, p) = [k \in 1..p |-> [j \in 1..DgBlock |-> P[0 + (k - 1) * DgBlock + j]]]
    BY <2>1, <2>2, BlocksAre
  <2> QED  BY <2>3 DEF p
<1>5. ASSUME NEW k \in 1..q PROVE blk(k) = MsgBlock(k)
  <2>1. ASSUME NEW j \in 1..DgBlock PROVE P[0 + (k - 1) * DgBlock + j] = MsgByte((k - 1) * DgBlock + j)
    <3> DEFINE i == k - 1
               y == i * DgBlock
    <3>1. i \in Nat /\ i < q
      BY <1>2
    <3> HIDE DEF i
    <3>a. i * DgBlock + DgBlock <= q * DgBlock
      BY <1>1, <1>2, <3>1, NextMultiple
    <3>2. y \in Nat /\ y + DgBlock <= x
      BY <1>1, <1>2, <3>1, <3>a
    <3> HIDE DEF y
    <3>3. y + j \in 1..x /\ 0 + y + j = y + j
      BY <1>1, <1>2, <3>2
    <3>4. P[0 + y + j] = MsgByte(y + j)
      BY <1>3, <3>3
    <3> QED  BY <3>4 DEF y, i
  <2> QED  BY <2>1 DEF MsgBlock
<1>6. ASSUME NEW k \in 1..e PROVE blk(q + k) = s[k]
  <2>1. ASSUME NEW j \in 1..DgBlock
        PROVE  P[0 + ((q + k) - 1) * DgBlock + j] = PaddedCell(N, e, words, (k - 1) * DgBlock + j)
    <3> DEFINE i == k - 1
               y == i * DgBlock
               z == ((q + k) - 1) * DgBlock
    <3>1. i \in Nat /\ i < e /\ (q + k) - 1 = q + i
      BY <1>2
    <3>2. z = x + y
      BY <1>1, <1>2, <3>1
    <3> HIDE DEF i
    <3>a. i * DgBlock + DgBlock <= e * DgBlock
      BY <1>1, <1>2, <3>1, NextMultiple
    <3>3. y \in Nat /\ y + DgBlock <= e * DgBlock
      <4>1. y \in Nat
        BY <1>1, <3>1
      <4> QED  BY <3>a, <4>1
    <3>4. e * DgBlock \in Nat
      BY <1>1, <1>2
    <3> HIDE DEF y, z, x
    <3>b. 0 + z + j = x + (y + j)
      BY <1>1, <1>2, <3>2, <3>3
    <3> DEFINE E == e * DgBlock
    <3>c. E \in Nat /\ y + DgBlock <= E
      BY <3>3, <3>4
    <3> HIDE DEF E
    <3>d. y + j \in 1..E
      BY <1>1, <3>3, <3>c
    <3>5. y + j \in 1..(e * DgBlock) /\ 0 + z + j = x + (y + j)
      BY <3>b, <3>d DEF E
    <3>6. P[x + (y + j)] = PaddedCell(N, e, words, y + j)
      BY <1>3, <3>5, Zenon
    <3>7. P[0 + z + j] = PaddedCell(N, e, words, y + j)
      BY <3>5, <3>6, Zenon
    <3> QED  BY <3>7, Zenon DEF y, i, z
  <2>2. blk(q + k) = [j \in 1..DgBlock |-> P[0 + ((q + k) - 1) * DgBlock + j]]
    OBVIOUS
  <2> QED  BY <2>1, <2>2
<1> HIDE DEF blk, R
<1> DEFINE t == WholeOf(q) \o s
           S == {blk(k) : k \in 1..(q + e)}
<1>7. \A k \in 1..e : s[k] \in S
  <2>1. \A k \in 1..e : q + k \in 1..(q + e)
    BY <1>2
  <2> QED  BY <1>6, <2>1, Zenon
<1>8. \A k \in 1..q : MsgBlock(k) \in S
  <2>1. \A k \in 1..q : k \in 1..(q + e)
    BY <1>2
  <2> QED  BY <1>5, <2>1, Zenon
<1> HIDE DEF S
<1>9. s \in Seq(S) /\ Len(s) = e
  BY <1>2, <1>7
<1> DEFINE w == WholeOf(q)
<1>10. w \in Seq(S) /\ Len(w) = q /\ \A k \in 1..q : w[k] = MsgBlock(k)
  BY <1>2, <1>8 DEF WholeOf
<1> HIDE DEF w
<1>11. w \o s = [k \in 1..(q + e) |-> IF k <= q THEN w[k] ELSE s[k - q]]
  BY <1>2, <1>9, <1>10, JoinedIs
<1>12. ASSUME NEW k \in 1..(q + e) PROVE (IF k <= q THEN w[k] ELSE s[k - q]) = blk(k)
  <2>1. CASE k <= q
    <3>1. k \in 1..q
      BY <1>2, <2>1
    <3> QED  BY <1>5, <1>10, <2>1, <3>1
  <2>2. CASE ~(k <= q)
    <3>0. q \in Nat /\ e \in Nat /\ k \in 1..(q + e)
      BY <1>2
    <3> HIDE DEF q
    <3>1. k - q \in 1..e /\ q + (k - q) = k
      BY <2>2, <3>0
    <3> QED  BY <1>6, <2>2, <3>1
  <2> QED  BY <2>1, <2>2
<1>13. [k \in 1..(q + e) |-> IF k <= q THEN w[k] ELSE s[k - q]] = [k \in 1..(q + e) |-> blk(k)]
  BY <1>12
<1>14. w \o s = R
  BY <1>4, <1>11, <1>13
<1> QED  BY <1>3, <1>14 DEF q, w, R, P

DgBlks == [1..DgBlock -> DgCells]

LEMMA BlocksTyped ==
  ASSUME NEW N \in Nat, NEW e, PadBlocks(N, e), NEW words, words \in Seq(DgCells), Len(words) = 2
  PROVE  LET padded == PaddedMessage(N, words)
             blocks == BlocksOf(padded, 0, Len(padded) \div DgBlock)
         IN  \A i \in DOMAIN blocks : Len(blocks[i]) = DgBlock
<1> DEFINE p == (N \div DgBlock) + e
           P == PaddedMessage(N, words)
           l == p * DgBlock
<1>1. DgBlock \in Nat \ {0}
  BY DgNumbers
<1>2. p \in Nat
  <2>1. N \div DgBlock \in Nat
    BY <1>1, Divided
  <2>2. e \in Nat
    BY DEF PadBlocks
  <2> QED  BY <2>1, <2>2
<1>3. P \in [1..l -> DgCells] /\ Len(P) \div DgBlock = p
  BY PaddedIs
<1> HIDE DEF p, P
<1>4. l \in Nat /\ 0 \in Nat /\ 0 + p * DgBlock <= l
  BY <1>1, <1>2
<1> HIDE DEF l
<1>5. BlocksOf(P, 0, p) = [k \in 1..p |-> [j \in 1..DgBlock |-> P[0 + (k - 1) * DgBlock + j]]]
  BY <1>2, <1>3, <1>4, BlocksAre
<1>6. ASSUME NEW k \in 1..p PROVE Len([j \in 1..DgBlock |-> P[0 + (k - 1) * DgBlock + j]]) = DgBlock
  BY <1>1
<1>7. \A k \in DOMAIN BlocksOf(P, 0, p) : Len(BlocksOf(P, 0, p)[k]) = DgBlock
  BY <1>5, <1>6
<1> QED  BY <1>3, <1>7 DEF P

LEMMA WholeType ==
  ASSUME NEW q \in Nat
  PROVE  WholeOf(q) \in Seq(DgBlks) /\ \A i \in DOMAIN WholeOf(q) : Len(WholeOf(q)[i]) = DgBlock
<1>1. \A k \in 1..q : MsgBlock(k) \in DgBlks /\ Len(MsgBlock(k)) = DgBlock
  BY MsgBlockIs DEF DgBlks
<1> QED  BY <1>1 DEF WholeOf

LEMMA TwoMore ==
  ASSUME NEW S, NEW w \in Seq(S), NEW f \in S, NEW g \in S
  PROVE  (w \o <<f>>) \o <<g>> = w \o <<f, g>> /\ (w \o << >>) \o <<g>> = w \o <<g>>
<1> DEFINE k == Len(w)
           ff == <<f>>
           gg == <<g>>
           fg == <<f, g>>
           u == w \o ff
           one == 1
           two == 2
<1>1. k \in Nat /\ Len(w) = k /\ one \in Nat /\ two \in Nat
  OBVIOUS
<1>2. ff \in Seq(S) /\ Len(ff) = one /\ ff[1] = f /\ gg \in Seq(S) /\ Len(gg) = one /\ gg[1] = g
  OBVIOUS
<1>3. fg \in Seq(S) /\ Len(fg) = two /\ fg[1] = f /\ fg[2] = g
  OBVIOUS
<1>4. w \o << >> = w
  OBVIOUS
<1> HIDE DEF k, ff, gg, fg, one, two
<1>5. u \in Seq(S) /\ Len(u) = k + one /\ u = [i \in 1..(k + one) |-> IF i <= k THEN w[i] ELSE ff[i - k]]
  BY <1>1, <1>2, JoinedIs
<1>6. w \o fg = [i \in 1..(k + two) |-> IF i <= k THEN w[i] ELSE fg[i - k]]
  BY <1>1, <1>3, JoinedIs
<1> HIDE DEF u
<1> DEFINE l == k + one
<1>7. l \in Nat /\ Len(u) = l
  BY <1>1, <1>5
<1> HIDE DEF l
<1>8. u \o gg = [i \in 1..(l + one) |-> IF i <= l THEN u[i] ELSE gg[i - l]]
  <2>1. Pieces(S, l, one, u, gg)
    BY <1>1, <1>2, <1>5, <1>7 DEF Pieces
  <2>2. Joined(S, l, one, u, gg, u \o gg)
    BY <2>1, PiecesJoined, Zenon
  <2> QED  BY <2>2 DEF Joined
<1>9. l + one = k + two /\ l = k + 1
  BY <1>1 DEF l, one, two
<1>10. ASSUME NEW i \in 1..(k + two)
       PROVE  (IF i <= l THEN u[i] ELSE gg[i - l]) = (IF i <= k THEN w[i] ELSE fg[i - k])
  <2>1. CASE i <= k
    <3>1. i \in 1..(k + one) /\ i <= l
      BY <1>1, <1>9, <2>1 DEF one
    <3> QED  BY <1>5, <2>1, <3>1
  <2>2. CASE i = k + 1
    <3>1. i \in 1..(k + one) /\ i <= l /\ ~(i <= k) /\ i - k = 1
      BY <1>1, <1>9, <2>2 DEF one
    <3> QED  BY <1>2, <1>3, <1>5, <3>1
  <2>3. CASE i = k + 2
    <3>1. ~(i <= l) /\ ~(i <= k) /\ i - k = 2 /\ i - l = 1
      BY <1>1, <1>9, <2>3
    <3> QED  BY <1>2, <1>3, <3>1
  <2> QED  BY <1>1, <2>1, <2>2, <2>3 DEF two
<1>11. u \o gg = w \o fg
  BY <1>6, <1>8, <1>9, <1>10
<1> QED  BY <1>4, <1>11 DEF u, ff, gg, fg

Blocked2(w, f, g) == w \in Seq(DgBlks) /\ f \in DgBlks /\ g \in DgBlks

More2(w, f, g) == (w \o <<f>>) \o <<g>> = w \o <<f, g>> /\ (w \o << >>) \o <<g>> = w \o <<g>>

LEMMA BlocksMore ==
  ASSUME NEW w, NEW f, NEW g, Blocked2(w, f, g)
  PROVE  More2(w, f, g)
BY TwoMore DEF Blocked2, More2

LEMMA ZerosAre ==
  ASSUME NEW N \in Nat
  PROVE  ZeroBytes(N) \in [1..N -> DgCells] /\ \A i \in 1..N : ZeroBytes(N)[i] = ZeroByte
BY CellsAre DEF ZeroBytes

\* The array with the mark behind what is begun and zeros in the N cells behind the mark.
LEMMA MarkedIs ==
  ASSUME NEW m \in Nat, NEW mem \in [1..m -> DgCells], NEW h \in Nat, NEW N \in Nat, h + 1 + N <= m
  PROVE  LET marked == Overlay(mem, h, <<Mark>>)
             filled == Overlay(marked, h + 1, ZeroBytes(N))
         IN  /\ marked \in [1..m -> DgCells] /\ filled \in [1..m -> DgCells]
             /\ \A j \in 1..m : filled[j] = IF j <= h THEN mem[j] ELSE IF j = h + 1 THEN Mark
                                         ELSE IF j <= h + 1 + N THEN ZeroByte ELSE mem[j]
<1> DEFINE one == <<Mark>>
           marked == Overlay(mem, h, one)
           l == 1
           g == h + 1
           zeros == ZeroBytes(N)
           filled == Overlay(marked, g, zeros)
<1>1. one \in [1..l -> DgCells] /\ one[1] = Mark /\ l \in Nat /\ h + l <= m
  BY CellsAre
<1> HIDE DEF one, l
<1>2. marked \in [1..m -> DgCells] /\ \A i \in 1..m : marked[i] = IF h < i /\ i <= h + l THEN one[i - h] ELSE mem[i]
  BY <1>1, OverlayIs
<1> HIDE DEF marked
<1>3. zeros \in [1..N -> DgCells] /\ \A i \in 1..N : zeros[i] = ZeroByte
  BY ZerosAre
<1>4. g \in Nat /\ g + N <= m
  OBVIOUS
<1> HIDE DEF zeros, g
<1>5. filled \in [1..m -> DgCells] /\ \A i \in 1..m : filled[i] = IF g < i /\ i <= g + N THEN zeros[i - g] ELSE marked[i]
  BY <1>2, <1>3, <1>4, OverlayIs
<1> HIDE DEF filled
<1>6. ASSUME NEW j \in 1..m
      PROVE  filled[j] = IF j <= h THEN mem[j] ELSE IF j = h + 1 THEN Mark
                         ELSE IF j <= h + 1 + N THEN ZeroByte ELSE mem[j]
  <2>1. CASE j <= h
    <3>1. ~(g < j /\ j <= g + N) /\ ~(h < j /\ j <= h + l)
      BY <2>1 DEF g, l
    <3> QED  BY <1>2, <1>5, <2>1, <3>1
  <2>2. CASE j = h + 1
    <3>1. ~(g < j /\ j <= g + N) /\ h < j /\ j <= h + l /\ j - h = 1 /\ ~(j <= h)
      BY <2>2 DEF g, l
    <3> QED  BY <1>1, <1>2, <1>5, <2>2, <3>1
  <2>3. CASE h + 1 < j /\ j <= h + 1 + N
    <3>1. g < j /\ j <= g + N /\ j - g \in 1..N /\ ~(j <= h) /\ j # h + 1
      BY <2>3 DEF g
    <3> QED  BY <1>3, <1>5, <2>3, <3>1
  <2>4. CASE h + 1 + N < j
    <3>1. ~(g < j /\ j <= g + N) /\ ~(h < j /\ j <= h + l) /\ ~(j <= h) /\ j # h + 1 /\ ~(j <= h + 1 + N)
      BY <2>4 DEF g, l
    <3> QED  BY <1>2, <1>5, <3>1
  <2> QED  BY <2>1, <2>2, <2>3, <2>4
<1> QED  BY <1>2, <1>5, <1>6 DEF marked, filled, one, g, zeros

Room(m, mem, h, N) == m \in Nat /\ mem \in [1..m -> DgCells] /\ h \in Nat /\ N \in Nat /\ h + 1 + N <= m
Marked(new, m, mem, h, N) ==
  /\ new \in [1..m -> DgCells]
  /\ \A j \in 1..m : new[j] = IF j <= h THEN mem[j] ELSE IF j = h + 1 THEN Mark
                           ELSE IF j <= h + 1 + N THEN ZeroByte ELSE mem[j]

LEMMA MarkedFits ==
  ASSUME NEW m, NEW mem, NEW h, NEW N, Room(m, mem, h, N)
  PROVE  Marked(Overlay(Overlay(mem, h, <<Mark>>), h + 1, ZeroBytes(N)), m, mem, h, N)
BY MarkedIs DEF Room, Marked

LEMMA Md5FinalIs ==
  ASSUME NEW N, N \in Nat, dgIn \in [1..DgBlock -> DgCells], Begun(dgIn, N),
         dgBlocks = WholeOf(N \div DgBlock), dgCount = Md5CountOf(N), MD5Final,
         NEW e, PadBlocks(N, e), NEW words, words = <<LengthWord(dgCount[1]), LengthWord(dgCount[2])>>
  PROVE  /\ dgIn' \in [1..DgBlock -> DgCells] /\ dgCount' = dgCount
         /\ LET padded == PaddedMessage(N, words)
            IN  dgBlocks' = BlocksOf(padded, 0, Len(padded) \div DgBlock)
<1> DEFINE B == DgBlock
           q == N \div B
           h == N % B
           free == B - 1 - h
           marked == Overlay(dgIn, h, <<Mark>>)
           filled == Overlay(marked, h + 1, ZeroBytes(free))
           short == Overlay(marked, h + 1, ZeroBytes(free - DgField))
           last == IF free < DgField THEN Overlay(filled, 0, ZeroBytes(B - DgField)) ELSE short
           summed == Overlay(last, B - DgField, words)
           s == IF free < DgField THEN <<filled, summed>> ELSE <<summed>>
<1>1. B \in Nat \ {0} /\ B > 3 /\ B \in Nat
  BY DgNumbers
<1>2. q \in Nat /\ h \in 0..(B - 1)
  BY <1>1, Divided
<1>3. \A j \in 1..h : dgIn[j] = MsgByte(q * B + j)
  BY DEF Begun
<1>4. words \in Seq(DgCells) /\ Len(words) = 2 /\ words \in [1..2 -> DgCells]
  <2>1. dgCount[1] \in Nat /\ dgCount[2] \in Nat
    BY Md5CountType DEF Md5CountOf
  <2>2. LengthWord(dgCount[1]) \in DgCells /\ LengthWord(dgCount[2]) \in DgCells
    BY <2>1, CellsAre
  <2> QED  BY <2>2
<1>5. Md5Held = h
  BY Md5HeldIs
<1>6. dgIn' = summed /\ dgCount' = dgCount
  BY <1>5 DEF MD5Final
<1>7. dgBlocks' = (dgBlocks \o (IF free < DgField THEN <<filled>> ELSE << >>)) \o <<summed>>
  BY <1>5 DEF MD5Final
<1>8. DgField = 2 /\ free \in Nat /\ h \in Nat /\ h + 1 + free = B
  BY <1>1, <1>2 DEF DgField
<1>9. dgIn \in [1..B -> DgCells]
  OBVIOUS
<1>10. e = IF h + 3 <= B THEN 1 ELSE 2
  BY DEF PadBlocks
<1>a. \A j : PaddedCell(N, e, words, j) =
        IF j <= h THEN MsgByte(q * B + j) ELSE IF j = h + 1 THEN Mark
        ELSE IF j <= e * B - 2 THEN ZeroByte ELSE IF j = e * B - 1 THEN words[1] ELSE words[2]
  BY DEF PaddedCell
<1> HIDE DEF B, q, h, free
<1>b. /\ filled \in [1..B -> DgCells]
      /\ \A j \in 1..B : filled[j] = IF j <= h THEN dgIn[j] ELSE IF j = h + 1 THEN Mark
                                  ELSE IF j <= h + 1 + free THEN ZeroByte ELSE dgIn[j]
  <2>1. Room(B, dgIn, h, free)
    BY <1>1, <1>8, <1>9 DEF Room
  <2>2. Marked(filled, B, dgIn, h, free)
    BY <2>1, MarkedFits, Zenon
  <2> HIDE DEF filled
  <2> QED  BY <2>2 DEF Marked
<1>11. CASE free < DgField
  <2> DEFINE o == B - 2
             zs == ZeroBytes(o)
             lst == Overlay(filled, 0, zs)
             sm == Overlay(lst, o, words)
             two == 2
  <2>1. o \in Nat /\ o \in 0..B /\ o + two <= B /\ two \in Nat
    BY <1>1
  <2> HIDE DEF filled, o, two
  <2>2. zs \in [1..o -> DgCells] /\ \A i \in 1..o : zs[i] = ZeroByte
    BY <2>1, ZerosAre
  <2> HIDE DEF zs
  <2>3. lst \in [1..B -> DgCells] /\ \A i \in 1..B : lst[i] = IF i <= o THEN zs[i] ELSE filled[i]
    BY <1>1, <1>b, <2>1, <2>2, OverlayFront
  <2> HIDE DEF lst
  <2>4. words \in [1..two -> DgCells]
    BY <1>4 DEF two
  <2>5. sm \in [1..B -> DgCells] /\ \A i \in 1..B : sm[i] = IF o < i /\ i <= o + two THEN words[i - o] ELSE lst[i]
    <3>1. FitsMemory(B, lst, o, two, words)
      BY <1>1, <2>1, <2>3, <2>4 DEF FitsMemory
    <3>2. Overlaid(sm, B, lst, o, two, words)
      BY <3>1, OverlayFits, Zenon
    <3> HIDE DEF sm
    <3> QED  BY <3>2 DEF Overlaid
  <2>6. summed = sm
    BY <1>8, <1>11 DEF lst, zs, o
  <2> HIDE DEF sm, summed
  <2>7. e = 2
    BY <1>1, <1>2, <1>8, <1>10, <1>11
  <2>8. ASSUME NEW j \in 1..B PROVE filled[j] = PaddedCell(N, e, words, (1 - 1) * B + j)
    <3>1. (1 - 1) * B + j = j /\ j <= e * B - 2 /\ j <= h + 1 + free
      BY <1>1, <1>8, <2>7
    <3>2. j <= h => j \in 1..h
      BY <1>8
    <3> QED  BY <1>3, <1>a, <1>b, <3>1, <3>2
  <2>9. ASSUME NEW j \in 1..B PROVE summed[j] = PaddedCell(N, e, words, (2 - 1) * B + j)
    <3> DEFINE i == (2 - 1) * B + j
    <3>1. i = B + j /\ ~(i <= h) /\ i # h + 1 /\ e * B = B + B
      BY <1>1, <1>2, <2>7
    <3> HIDE DEF i
    <3>2. (i <= e * B - 2 <=> j <= o) /\ (i = e * B - 1 <=> j = o + 1) /\ (j <= o \/ j = o + 1 \/ j = o + 2)
      BY <1>1, <3>1 DEF o
    <3>3. CASE j <= o
      <4>1. ~(o < j /\ j <= o + two) /\ j \in 1..o
        BY <2>1, <3>3
      <4> QED  BY <1>a, <2>2, <2>3, <2>5, <2>6, <3>1, <3>2, <3>3, <4>1 DEF i
    <3>4. CASE j = o + 1
      <4>1. o < j /\ j <= o + two /\ j - o = 1 /\ ~(j <= o)
        BY <2>1, <3>4 DEF two
      <4> QED  BY <1>a, <2>5, <2>6, <3>1, <3>2, <3>4, <4>1 DEF i
    <3>5. CASE j = o + 2
      <4>1. o < j /\ j <= o + two /\ j - o = 2 /\ ~(j <= o) /\ j # o + 1
        BY <2>1, <3>5 DEF two
      <4> QED  BY <1>a, <2>5, <2>6, <3>1, <3>2, <4>1 DEF i
    <3> QED  BY <3>2, <3>3, <3>4, <3>5
  <2>10. s = <<filled, summed>>
    BY <1>11
  <2>11. DOMAIN s = 1..e /\ s = [k \in 1..e |-> s[k]] /\ s[1] = filled /\ s[2] = summed
    BY <2>7, <2>10
  <2>12. filled = [j \in 1..DgBlock |-> PaddedCell(N, e, words, (1 - 1) * DgBlock + j)]
    BY <1>b, <2>8 DEF B
  <2>13. summed = [j \in 1..DgBlock |-> PaddedCell(N, e, words, (2 - 1) * DgBlock + j)]
    BY <2>5, <2>6, <2>9 DEF B
  <2>14. \A k \in 1..e : s[k] = [j \in 1..DgBlock |-> PaddedCell(N, e, words, (k - 1) * DgBlock + j)]
    <3>1. \A k \in 1..e : k = 1 \/ k = 2
      BY <2>7
    <3> HIDE DEF s
    <3> QED  BY <2>11, <2>12, <2>13, <3>1
  <2>15. dgBlocks' = WholeOf(N \div DgBlock) \o s
    <3>1. WholeOf(N \div DgBlock) \in Seq(DgBlks)
      BY <1>2, WholeType DEF q, B
    <3>2. filled \in DgBlks /\ summed \in DgBlks
      BY <1>b, <2>5, <2>6 DEF DgBlks, B
    <3>3. dgBlocks' = (dgBlocks \o <<filled>>) \o <<summed>>
      BY <1>7, <1>11
    <3> DEFINE w == WholeOf(N \div DgBlock)
    <3>4. w \in Seq(DgBlks) /\ dgBlocks = w
      BY <3>1
    <3> HIDE DEF w
    <3>5. (w \o <<filled>>) \o <<summed>> = w \o <<filled, summed>>
      <4>1. Blocked2(w, filled, summed)
        BY <3>2, <3>4 DEF Blocked2
      <4>2. More2(w, filled, summed)
        BY <4>1, BlocksMore, Zenon
      <4> QED  BY <4>2 DEF More2
    <3> QED  BY <2>10, <3>3, <3>4, <3>5 DEF w
  <2> HIDE DEF s
  <2>16. WholeOf(N \div DgBlock) \o s = BlocksOf(PaddedMessage(N, words), 0, Len(PaddedMessage(N, words)) \div DgBlock)
    <3>1. PaddedTail(N, e, words, s)
      BY <1>4, <2>11, <2>14 DEF PaddedTail
    <3> QED  BY <3>1, TailEnds, Zenon
  <2>17. dgIn' \in [1..DgBlock -> DgCells]
    BY <1>6, <2>5, <2>6 DEF B
  <2> QED  BY <1>6, <2>15, <2>16, <2>17
<1>12. CASE ~(free < DgField)
  <2> DEFINE o == B - 2
             z == free - 2
             sm == Overlay(short, o, words)
             two == 2
  <2>1. o \in Nat /\ o + two <= B /\ two \in Nat /\ z \in Nat /\ h + 1 + z = o /\ h + 1 + z <= B
    BY <1>1, <1>8, <1>12
  <2> HIDE DEF o, two, z
  <2>2. short = Overlay(marked, h + 1, ZeroBytes(z))
    BY <1>8 DEF z
  <2>3. /\ short \in [1..B -> DgCells]
        /\ \A j \in 1..B : short[j] = IF j <= h THEN dgIn[j] ELSE IF j = h + 1 THEN Mark
                                  ELSE IF j <= h + 1 + z THEN ZeroByte ELSE dgIn[j]
    <3>1. Room(B, dgIn, h, z)
      BY <1>1, <1>8, <1>9, <2>1 DEF Room
    <3>2. Marked(short, B, dgIn, h, z)
      BY <2>2, <3>1, MarkedFits, Zenon
    <3> HIDE DEF short
    <3> QED  BY <3>2 DEF Marked
  <2> HIDE DEF short
  <2>4. words \in [1..two -> DgCells]
    BY <1>4 DEF two
  <2>5. sm \in [1..B -> DgCells] /\ \A i \in 1..B : sm[i] = IF o < i /\ i <= o + two THEN words[i - o] ELSE short[i]
    <3>1. FitsMemory(B, short, o, two, words)
      BY <1>1, <2>1, <2>3, <2>4 DEF FitsMemory
    <3>2. Overlaid(sm, B, short, o, two, words)
      BY <3>1, OverlayFits, Zenon
    <3> HIDE DEF sm
    <3> QED  BY <3>2 DEF Overlaid
  <2>6. summed = sm
    BY <1>8, <1>12 DEF o
  <2> HIDE DEF sm, summed
  <2>7. e = 1
    BY <1>1, <1>2, <1>8, <1>10, <1>12
  <2>9. ASSUME NEW j \in 1..B PROVE summed[j] = PaddedCell(N, e, words, (1 - 1) * B + j)
    <3> DEFINE i == (1 - 1) * B + j
    <3>1. i = j /\ e * B = B
      BY <1>1, <2>7
    <3>2. (j <= e * B - 2 <=> j <= o) /\ (j = e * B - 1 <=> j = o + 1) /\ (j <= o \/ j = o + 1 \/ j = o + 2)
      BY <1>1, <3>1 DEF o
    <3> HIDE DEF i
    <3>3. CASE j <= o
      <4>1. ~(o < j /\ j <= o + two) /\ j <= h + 1 + z
        BY <2>1, <3>3
      <4>2. summed[j] = IF j <= h THEN dgIn[j] ELSE IF j = h + 1 THEN Mark ELSE ZeroByte
        BY <2>3, <2>5, <2>6, <4>1
      <4>3. j <= h => j \in 1..h
        BY <1>8
      <4> QED  BY <1>3, <1>a, <3>1, <3>2, <3>3, <4>2, <4>3 DEF i
    <3>4. CASE j = o + 1
      <4>1. o < j /\ j <= o + two /\ j - o = 1 /\ ~(j <= o) /\ ~(j <= h) /\ j # h + 1
        BY <1>8, <2>1, <3>4 DEF two
      <4> QED  BY <1>a, <2>5, <2>6, <3>1, <3>2, <3>4, <4>1 DEF i
    <3>5. CASE j = o + 2
      <4>1. o < j /\ j <= o + two /\ j - o = 2 /\ ~(j <= o) /\ j # o + 1 /\ ~(j <= h) /\ j # h + 1
        BY <1>8, <2>1, <3>5 DEF two
      <4> QED  BY <1>a, <2>5, <2>6, <3>1, <3>2, <4>1 DEF i
    <3> QED  BY <3>2, <3>3, <3>4, <3>5
  <2>10. s = <<summed>>
    BY <1>12
  <2>11. DOMAIN s = 1..e /\ s = [k \in 1..e |-> s[k]] /\ s[1] = summed
    <3>1. DOMAIN <<summed>> = 1..1 /\ <<summed>> = [k \in 1..1 |-> <<summed>>[k]] /\ <<summed>>[1] = summed
      OBVIOUS
    <3>2. e = 1 /\ s = <<summed>>
      BY <2>7, <2>10
    <3> HIDE DEF s
    <3> QED  BY <3>1, <3>2
  <2>13. summed = [j \in 1..DgBlock |-> PaddedCell(N, e, words, (1 - 1) * DgBlock + j)]
    BY <2>5, <2>6, <2>9 DEF B
  <2>14. \A k \in 1..e : s[k] = [j \in 1..DgBlock |-> PaddedCell(N, e, words, (k - 1) * DgBlock + j)]
    <3>1. \A k \in 1..e : k = 1
      BY <2>7
    <3> HIDE DEF s
    <3> QED  BY <2>11, <2>13, <3>1
  <2>15. dgBlocks' = WholeOf(N \div DgBlock) \o s
    <3>1. WholeOf(N \div DgBlock) \in Seq(DgBlks)
      BY <1>2, WholeType DEF q, B
    <3>2. summed \in DgBlks
      BY <2>5, <2>6 DEF DgBlks, B
    <3>3. dgBlocks' = (dgBlocks \o << >>) \o <<summed>>
      BY <1>7, <1>12
    <3> DEFINE w == WholeOf(N \div DgBlock)
    <3>4. w \in Seq(DgBlks) /\ dgBlocks = w
      BY <3>1
    <3> HIDE DEF w
    <3>5. (w \o << >>) \o <<summed>> = w \o <<summed>>
      <4>1. Blocked2(w, summed, summed)
        BY <3>2, <3>4 DEF Blocked2
      <4>2. More2(w, summed, summed)
        BY <4>1, BlocksMore, Zenon
      <4> QED  BY <4>2 DEF More2
    <3> QED  BY <2>10, <3>3, <3>4, <3>5 DEF w
  <2> HIDE DEF s
  <2>16. WholeOf(N \div DgBlock) \o s = BlocksOf(PaddedMessage(N, words), 0, Len(PaddedMessage(N, words)) \div DgBlock)
    <3>1. PaddedTail(N, e, words, s)
      BY <1>4, <2>11, <2>14 DEF PaddedTail
    <3> QED  BY <3>1, TailEnds, Zenon
  <2>17. dgIn' \in [1..DgBlock -> DgCells]
    BY <1>6, <2>5, <2>6 DEF B
  <2> QED  BY <1>6, <2>15, <2>16, <2>17
<1> QED  BY <1>11, <1>12

LEMMA ShaFinalIs ==
  ASSUME NEW N, N \in Nat, dgIn \in [1..(2 * DgBlock) -> DgCells], Begun(dgIn, N),
         dgBlocks = WholeOf(N \div DgBlock), dgCount = ShaCountOf(N), ShaFinal,
         NEW e, PadBlocks(N, e),
         NEW bits, bits = ((dgCount[2] + dgCount[1]) * DgBits) % DgWord, NEW words, words = <<ZeroByte, LengthWord(bits)>>
  PROVE  /\ dgIn' \in [1..(2 * DgBlock) -> DgCells] /\ dgCount' = dgCount
         /\ words \in Seq(DgCells) /\ Len(words) = 2
         /\ dgBlocks' = BlocksOf(PaddedMessage(N, words), 0, Len(PaddedMessage(N, words)) \div DgBlock)
         /\ N * DgBits < DgWord => bits = N * DgBits
<1> DEFINE B == DgBlock
           M == 2 * B
           q == N \div B
           h == N % B
           x == q * B
           size == e * B
           r == size - h
           p == size - 1
           one == 1
           zs == ZeroBytes(r)
           mk == <<Mark>>
           lw == <<LengthWord(bits)>>
           m1 == Overlay(dgIn, h, zs)
           m2 == Overlay(m1, h, mk)
           m3 == Overlay(m2, p, lw)
           s == BlocksOf(m3, 0, e)
<1>1. B \in Nat \ {0} /\ B > 3 /\ B \in Nat /\ DgBits \in Nat \ {0} /\ DgWord \in Nat \ {0}
  BY DgNumbers
<1>2. q \in Nat /\ h \in 0..(B - 1) /\ N = x + h
  BY <1>1, Divided
<1>3. dgCount[1] = h /\ dgCount[2] = x % DgWord
  BY DEF ShaCountOf
<1>4. x \in Nat
  BY <1>1, <1>2
<1>5. h % B = h
  <2> DEFINE z == 0
  <2>1. z \in Nat /\ z * B + h = h
    BY <1>1, <1>2
  <2> HIDE DEF z, B, h
  <2>2. (z * B + h) % B = h
    BY <1>1, <1>2, <2>1, DividedAs
  <2> QED  BY <2>1, <2>2
<1>6. e = IF h + 3 <= B THEN 1 ELSE 2
  BY DEF PadBlocks
<1>7. ShaPadBlocks(h) = e
  <2>1. DgField = 2 /\ ShaPadBlocks(h) = IF B - 3 < h THEN 2 ELSE 1
    BY <1>5 DEF ShaPadBlocks, DgField
  <2> QED  BY <1>1, <1>2, <1>6, <2>1
<1>8. dgIn' = m3 /\ dgBlocks' = dgBlocks \o s /\ dgCount' = dgCount
  BY <1>3, <1>7 DEF ShaFinal
<1>9. bits \in Nat
  <2> DEFINE u == x % DgWord
             v == u + h
             y == v * DgBits
  <2>1. u \in Nat
    BY <1>1, <1>4, Divided
  <2> HIDE DEF u, x, h
  <2>2. v \in Nat
    BY <1>1, <1>2, <2>1
  <2>4. (dgCount[2] + dgCount[1]) * DgBits = y
    BY <1>1, <1>2, <1>3, <2>1 DEF u
  <2> HIDE DEF v
  <2>5. y \in Nat
    BY <1>1, <2>2
  <2> HIDE DEF y
  <2>3. y % DgWord \in Nat
    BY <1>1, <2>5
  <2> QED  BY <2>3, <2>4
<1>10. N * DgBits < DgWord => bits = N * DgBits
  <2> SUFFICES ASSUME N * DgBits < DgWord PROVE bits = N * DgBits
    OBVIOUS
  <2> DEFINE y == N * DgBits
             z == 0
  <2>1. y \in Nat /\ N <= y /\ y \in 0..(DgWord - 1)
    BY <1>1
  <2> HIDE DEF y, x, h
  <2>2. x \in 0..(DgWord - 1)
    BY <1>1, <1>2, <1>4, <2>1
  <2>3. z \in Nat /\ z * DgWord + x = x /\ z * DgWord + y = y
    BY <1>1, <1>4, <2>1
  <2> HIDE DEF z
  <2>4. (z * DgWord + x) % DgWord = x /\ (z * DgWord + y) % DgWord = y
    BY <1>1, <2>1, <2>2, <2>3, DividedAs
  <2>5. dgCount[2] + dgCount[1] = N
    BY <1>2, <1>3, <2>3, <2>4
  <2> QED  BY <2>3, <2>4, <2>5 DEF y
<1>11. words \in Seq(DgCells) /\ Len(words) = 2 /\ words[1] = ZeroByte /\ words[2] = LengthWord(bits)
  <2>1. LengthWord(bits) \in DgCells /\ ZeroByte \in DgCells
    BY <1>9, CellsAre
  <2> QED  BY <2>1
<1>12. /\ M \in Nat /\ size \in Nat /\ size <= M /\ e \in Nat /\ h \in Nat /\ r \in Nat /\ h + r <= M /\ h + r = size
       /\ p \in Nat /\ p + one <= M /\ h + one <= M /\ one \in Nat /\ h + 1 <= size - 2
  BY <1>1, <1>2, <1>6
<1>a. \A j : PaddedCell(N, e, words, j) =
        IF j <= h THEN MsgByte(q * B + j) ELSE IF j = h + 1 THEN Mark
        ELSE IF j <= size - 2 THEN ZeroByte ELSE IF j = size - 1 THEN words[1] ELSE words[2]
  BY DEF PaddedCell
<1>b. \A j \in 1..h : dgIn[j] = MsgByte(q * B + j)
  BY DEF Begun
<1>c. dgIn \in [1..M -> DgCells]
  OBVIOUS
<1> HIDE DEF B, M, q, h, x, size, r, p, one
<1>13. mk \in [1..one -> DgCells] /\ mk[1] = Mark /\ lw \in [1..one -> DgCells] /\ lw[1] = LengthWord(bits)
  <2>1. LengthWord(bits) \in DgCells /\ Mark \in DgCells
    BY <1>9, CellsAre
  <2> QED  BY <2>1 DEF one
<1>14. zs \in [1..r -> DgCells] /\ \A i \in 1..r : zs[i] = ZeroByte
  BY <1>12, ZerosAre
<1> HIDE DEF mk, lw, zs
<1>15. m1 \in [1..M -> DgCells] /\ \A i \in 1..M : m1[i] = IF h < i /\ i <= h + r THEN zs[i - h] ELSE dgIn[i]
  <2>1. FitsMemory(M, dgIn, h, r, zs)
    BY <1>12, <1>14, <1>c DEF FitsMemory
  <2>2. Overlaid(m1, M, dgIn, h, r, zs)
    BY <2>1, OverlayFits, Zenon
  <2> HIDE DEF m1
  <2> QED  BY <2>2 DEF Overlaid
<1> HIDE DEF m1
<1>16. m2 \in [1..M -> DgCells] /\ \A i \in 1..M : m2[i] = IF h < i /\ i <= h + one THEN mk[i - h] ELSE m1[i]
  <2>1. FitsMemory(M, m1, h, one, mk)
    BY <1>12, <1>13, <1>15 DEF FitsMemory
  <2>2. Overlaid(m2, M, m1, h, one, mk)
    BY <2>1, OverlayFits, Zenon
  <2> HIDE DEF m2
  <2> QED  BY <2>2 DEF Overlaid
<1> HIDE DEF m2
<1>17. m3 \in [1..M -> DgCells] /\ \A i \in 1..M : m3[i] = IF p < i /\ i <= p + one THEN lw[i - p] ELSE m2[i]
  <2>1. FitsMemory(M, m2, p, one, lw)
    BY <1>12, <1>13, <1>16 DEF FitsMemory
  <2>2. Overlaid(m3, M, m2, p, one, lw)
    BY <2>1, OverlayFits, Zenon
  <2> HIDE DEF m3
  <2> QED  BY <2>2 DEF Overlaid
<1> HIDE DEF m3
<1>18. ASSUME NEW i \in 1..size PROVE m3[i] = PaddedCell(N, e, words, i)
  <2>1. i \in 1..M /\ p = size - 1
    BY <1>12 DEF p
  <2>2. CASE i <= h
    <3>1. i \in 1..h /\ ~(p < i) /\ ~(h < i)
      BY <1>12, <2>1, <2>2
    <3> QED  BY <1>15, <1>16, <1>17, <1>a, <1>b, <2>1, <2>2, <3>1
  <2>3. CASE i = h + 1
    <3>1. ~(p < i) /\ h < i /\ i <= h + one /\ i - h = 1 /\ ~(i <= h)
      BY <1>12, <2>1, <2>3 DEF one
    <3> QED  BY <1>13, <1>16, <1>17, <1>a, <2>1, <2>3, <3>1
  <2>4. CASE h + 1 < i /\ i < size
    <3>1. ~(p < i) /\ ~(i <= h + one) /\ h < i /\ i <= h + r /\ i - h \in 1..r /\ ~(i <= h) /\ i # h + 1
      BY <1>12, <2>1, <2>4 DEF one
    <3>2. m3[i] = ZeroByte
      BY <1>14, <1>15, <1>16, <1>17, <2>1, <3>1
    <3>3. i <= size - 2 \/ i = size - 1
      BY <1>12, <2>1, <2>4
    <3> QED  BY <1>11, <1>a, <3>1, <3>2, <3>3
  <2>5. CASE i = size
    <3>1. p < i /\ i <= p + one /\ i - p = 1 /\ ~(i <= h) /\ i # h + 1 /\ ~(i <= size - 2) /\ i # size - 1
      BY <1>12, <2>1, <2>5 DEF one
    <3> QED  BY <1>11, <1>13, <1>17, <1>a, <2>1, <3>1
  <2> QED  BY <1>12, <2>2, <2>3, <2>4, <2>5
<1>19. s = [k \in 1..e |-> [j \in 1..B |-> m3[0 + (k - 1) * B + j]]]
  <2> DEFINE a == 0
  <2>1. a \in Nat /\ a + e * B <= M
    BY <1>12 DEF size
  <2> HIDE DEF a
  <2>2. BlocksOf(m3, a, e) = [k \in 1..e |-> [j \in 1..DgBlock |-> m3[a + (k - 1) * DgBlock + j]]]
    BY <1>12, <1>17, <2>1, BlocksAre DEF B
  <2> QED  BY <2>2 DEF a, B
<1>20. ASSUME NEW k \in 1..e PROVE s[k] = [j \in 1..DgBlock |-> PaddedCell(N, e, words, (k - 1) * DgBlock + j)]
  <2> DEFINE y == (k - 1) * B
  <2>1. y \in Nat /\ y + B <= size
    <3>1. k = 1 \/ k = 2
      BY <1>6
    <3> QED  BY <1>1, <1>6, <3>1 DEF size
  <2>2. s[k] = [j \in 1..B |-> m3[0 + (k - 1) * B + j]]
    BY <1>19
  <2> HIDE DEF s, y
  <2>3. ASSUME NEW j \in 1..B PROVE m3[0 + y + j] = PaddedCell(N, e, words, y + j)
    <3>1. 0 + y + j = y + j /\ y + j \in 1..size
      BY <1>1, <1>12, <2>1
    <3> QED  BY <1>18, <3>1
  <2>4. [j \in 1..B |-> m3[0 + y + j]] = [j \in 1..B |-> PaddedCell(N, e, words, y + j)]
    BY <2>3
  <2> QED  BY <2>2, <2>4 DEF y, B
<1>21. DOMAIN s = 1..e /\ s = [k \in 1..e |-> s[k]]
  BY <1>19
<1> HIDE DEF s
<1>22. PaddedTail(N, e, words, s)
  BY <1>11, <1>20, <1>21 DEF PaddedTail
<1>23. WholeOf(N \div DgBlock) \o s = BlocksOf(PaddedMessage(N, words), 0, Len(PaddedMessage(N, words)) \div DgBlock)
  BY <1>22, TailEnds, ZenonT(60)
<1>24. dgBlocks' = BlocksOf(PaddedMessage(N, words), 0, Len(PaddedMessage(N, words)) \div DgBlock)
  BY <1>8, <1>23
<1>25. dgIn' \in [1..(2 * DgBlock) -> DgCells]
  BY <1>8, <1>17 DEF M, B
<1> QED  BY <1>8, <1>10, <1>11, <1>24, <1>25

-----------------------------------------------------------------------------
(* The invariant: the counts, the array and the blocks are those of what was sent *)

DgInv ==
  /\ dgFn \in {"md5", "sha"} /\ dgPc \in {"run", "done"}
  /\ dgLen \in Nat /\ dgSent \in 0..dgLen
  /\ dgIn \in [1..DgSize -> DgCells]
  /\ dgCount = IF dgFn = "md5" THEN Md5CountOf(dgSent) ELSE ShaCountOf(dgSent)
  /\ \A i \in DOMAIN dgBlocks : Len(dgBlocks[i]) = DgBlock
  /\ dgPc = "run" => Begun(dgIn, dgSent) /\ dgBlocks = WholeOf(dgSent \div DgBlock)
  /\ DgCorrect

LEMMA DgInvInit == DgInit => DgInv
<1> SUFFICES ASSUME DgInit PROVE DgInv
  OBVIOUS
<1> DEFINE z == 0
<1>1. DgBlock \in Nat \ {0} /\ DgBits \in Nat \ {0} /\ DgWord \in Nat \ {0}
  BY DgNumbers
<1>2. \A d \in Nat \ {0} : z \div d = 0 /\ z % d = 0
  <2> SUFFICES ASSUME NEW d \in Nat \ {0} PROVE z \div d = 0 /\ z % d = 0
    OBVIOUS
  <2>1. z \in Nat /\ z \in 0..(d - 1) /\ z * d + z = z
    OBVIOUS
  <2> HIDE DEF z
  <2>2. (z * d + z) \div d = z /\ (z * d + z) % d = z
    BY <2>1, DividedAs
  <2> QED  BY <2>1, <2>2 DEF z
<1>3. z * DgBits = z /\ z * DgBlock = z /\ z \in Nat
  BY <1>1
<1> HIDE DEF z
<1>4. dgFn \in {"md5", "sha"} /\ dgLen \in Nat /\ dgSent = z /\ dgCount = <<0, 0>> /\ dgBlocks = << >> /\ dgPc = "run"
  BY DigestsAssumption DEF DgInit, z
<1>5. z = 0
  BY DEF z
<1>6. Md5CountOf(z) = <<0, 0>> /\ ShaCountOf(z) = <<0, 0>>
  BY <1>1, <1>2, <1>3, <1>5 DEF Md5CountOf, ShaCountOf
<1>7. dgIn \in [1..DgSize -> DgCells]
  <2>1. dgIn = [i \in 1..DgSize |-> Unset]
    BY DEF DgInit
  <2> QED  BY <2>1, CellsAre
<1>8. Begun(dgIn, z)
  BY <1>1, <1>2 DEF Begun
<1>9. dgBlocks = WholeOf(z \div DgBlock)
  <2>1. z \div DgBlock = 0
    BY <1>1, <1>2
  <2> QED  BY <1>4, <2>1 DEF WholeOf
<1>10. DgCorrect
  BY <1>4 DEF DgCorrect
<1>11. \A i \in DOMAIN dgBlocks : Len(dgBlocks[i]) = DgBlock
  BY <1>4
<1>12. dgSent \in 0..dgLen
  BY <1>4, <1>5
<1> QED  BY <1>4, <1>6, <1>7, <1>8, <1>9, <1>10, <1>11, <1>12 DEF DgInv

LEMMA DgUpdateKeeps ==
  ASSUME DgInv, DgUpdate
  PROVE  DgInv'
<1>1. PICK c \in 0..(dgLen - dgSent) : (IF dgFn = "md5" THEN MD5Update(c) ELSE ShaUpdate(c)) /\ dgSent' = dgSent + c
  BY Zenon DEF DgUpdate
<1>2. dgPc = "run" /\ dgPc' = "run" /\ dgFn' = dgFn /\ dgLen' = dgLen
  BY DEF DgUpdate
<1>3. /\ dgFn \in {"md5", "sha"} /\ dgLen \in Nat /\ dgSent \in 0..dgLen
      /\ dgIn \in [1..DgSize -> DgCells] /\ Begun(dgIn, dgSent) /\ dgBlocks = WholeOf(dgSent \div DgBlock)
      /\ dgCount = IF dgFn = "md5" THEN Md5CountOf(dgSent) ELSE ShaCountOf(dgSent)
  BY <1>2 DEF DgInv
<1> DEFINE N == dgSent + c
<1>4. dgSent \in Nat /\ c \in Nat /\ N \in 0..dgLen /\ N \in Nat
  BY <1>3
<1>5. DgBlock \in Nat \ {0} /\ DgBlock \in Nat
  BY DgNumbers
<1>6. CASE dgFn = "md5"
  <2>1. DgSize = DgBlock /\ DgSize' = DgBlock
    BY <1>2, <1>6 DEF DgSize
  <2>2. MD5Update(c) /\ dgCount = Md5CountOf(dgSent) /\ dgIn \in [1..DgBlock -> DgCells]
    BY <1>1, <1>3, <1>6, <2>1
  <2>3. /\ dgIn' \in [1..DgBlock -> DgCells] /\ Begun(dgIn', N)
        /\ dgBlocks' = WholeOf(N \div DgBlock) /\ dgCount' = Md5CountOf(N)
    BY <1>3, <1>4, <2>2, Md5UpdateIs
  <2>4. N \div DgBlock \in Nat
    BY <1>4, <1>5, Divided
  <2>5. \A i \in DOMAIN dgBlocks' : Len(dgBlocks'[i]) = DgBlock
    BY <2>3, <2>4, WholeType
  <2>6. DgCorrect'
    BY <1>2 DEF DgCorrect
  <2>7. dgFn' = "md5"
    BY <1>2, <1>6
  <2> QED  BY <1>1, <1>2, <1>3, <1>4, <2>1, <2>3, <2>5, <2>6, <2>7 DEF DgInv
<1>7. CASE dgFn = "sha"
  <2> DEFINE m == 2 * DgBlock
  <2>1. DgSize = m /\ DgSize' = m /\ m \in Nat /\ m >= DgBlock
    BY <1>2, <1>5, <1>7 DEF DgSize
  <2>2. ShaUpdate(c) /\ dgCount = ShaCountOf(dgSent) /\ dgIn \in [1..m -> DgCells]
    BY <1>1, <1>3, <1>7, <2>1
  <2> HIDE DEF m
  <2>3. /\ dgIn' \in [1..m -> DgCells] /\ Begun(dgIn', N)
        /\ dgBlocks' = WholeOf(N \div DgBlock) /\ dgCount' = ShaCountOf(N)
    BY <1>3, <1>4, <2>1, <2>2, ShaUpdateIs
  <2>4. N \div DgBlock \in Nat
    BY <1>4, <1>5, Divided
  <2>5. \A i \in DOMAIN dgBlocks' : Len(dgBlocks'[i]) = DgBlock
    BY <2>3, <2>4, WholeType
  <2>6. DgCorrect'
    BY <1>2 DEF DgCorrect
  <2>7. dgFn' = "sha"
    BY <1>2, <1>7
  <2> QED  BY <1>1, <1>2, <1>3, <1>4, <2>1, <2>3, <2>5, <2>6, <2>7 DEF DgInv
<1> QED  BY <1>3, <1>6, <1>7

LEMMA DgFinalKeeps ==
  ASSUME DgInv, DgFinal
  PROVE  DgInv'
<1>1. /\ dgPc = "run" /\ dgPc' = "done" /\ dgFn' = dgFn /\ dgLen' = dgLen /\ dgSent' = dgSent /\ dgSent = dgLen
      /\ (IF dgFn = "md5" THEN MD5Final ELSE ShaFinal)
  BY DEF DgFinal
<1>2. /\ dgFn \in {"md5", "sha"} /\ dgLen \in Nat
      /\ dgIn \in [1..DgSize -> DgCells] /\ Begun(dgIn, dgLen) /\ dgBlocks = WholeOf(dgLen \div DgBlock)
      /\ dgCount = IF dgFn = "md5" THEN Md5CountOf(dgLen) ELSE ShaCountOf(dgLen)
  BY <1>1 DEF DgInv
<1> DEFINE N == dgLen
           e == IF (N % DgBlock) + 3 <= DgBlock THEN 1 ELSE 2
<1>3. PadBlocks(N, e) /\ N \in Nat
  BY <1>2 DEF PadBlocks
<1> HIDE DEF e
<1>4. dgSent' \in 0..dgLen' /\ dgSent' = N
  BY <1>1, <1>2
<1>5. CASE dgFn = "md5"
  <2> DEFINE words == <<LengthWord(dgCount[1]), LengthWord(dgCount[2])>>
  <2>1. DgSize = DgBlock /\ DgSize' = DgBlock /\ dgFn' = "md5"
    BY <1>1, <1>5 DEF DgSize
  <2>2. MD5Final /\ dgCount = Md5CountOf(N) /\ dgIn \in [1..DgBlock -> DgCells]
    BY <1>1, <1>2, <1>5, <2>1
  <2>3. words \in Seq(DgCells) /\ Len(words) = 2
    <3>1. dgCount[1] \in Nat /\ dgCount[2] \in Nat
      BY <1>2, <2>2, Md5CountType DEF Md5CountOf
    <3>2. LengthWord(dgCount[1]) \in DgCells /\ LengthWord(dgCount[2]) \in DgCells
      BY <3>1, CellsAre
    <3> QED  BY <3>2
  <2>4. LengthWords' = words
    BY <1>1, <2>1, <2>2 DEF LengthWords, Md5CountOf
  <2>a. words = <<LengthWord(dgCount[1]), LengthWord(dgCount[2])>>
    OBVIOUS
  <2> HIDE DEF words
  <2>5. /\ dgIn' \in [1..DgBlock -> DgCells] /\ dgCount' = dgCount
        /\ LET padded == PaddedMessage(N, words)
           IN  dgBlocks' = BlocksOf(padded, 0, Len(padded) \div DgBlock)
    BY <1>2, <1>3, <2>2, <2>a, Md5FinalIs
  <2>6. \A i \in DOMAIN dgBlocks' : Len(dgBlocks'[i]) = DgBlock
    BY <1>3, <2>3, <2>5, BlocksTyped
  <2>7. DgCorrect'
    BY <1>1, <2>4, <2>5 DEF DgCorrect
  <2> QED  BY <1>1, <1>2, <1>4, <2>1, <2>2, <2>5, <2>6, <2>7 DEF DgInv
<1>6. CASE dgFn = "sha"
  <2> DEFINE bits == ((dgCount[2] + dgCount[1]) * DgBits) % DgWord
             words == <<ZeroByte, LengthWord(bits)>>
  <2>1. DgSize = 2 * DgBlock /\ DgSize' = 2 * DgBlock /\ dgFn' = "sha"
    BY <1>1, <1>6 DEF DgSize
  <2>2. ShaFinal /\ dgCount = ShaCountOf(N) /\ dgIn \in [1..(2 * DgBlock) -> DgCells]
    BY <1>1, <1>2, <1>6, <2>1
  <2>a. bits = ((dgCount[2] + dgCount[1]) * DgBits) % DgWord /\ words = <<ZeroByte, LengthWord(bits)>>
    OBVIOUS
  <2> HIDE DEF bits, words
  <2>5. /\ dgIn' \in [1..(2 * DgBlock) -> DgCells] /\ dgCount' = dgCount
        /\ words \in Seq(DgCells) /\ Len(words) = 2
        /\ dgBlocks' = BlocksOf(PaddedMessage(N, words), 0, Len(PaddedMessage(N, words)) \div DgBlock)
        /\ N * DgBits < DgWord => bits = N * DgBits
    BY <1>2, <1>3, <2>2, <2>a, ShaFinalIs
  <2>6. \A i \in DOMAIN dgBlocks' : Len(dgBlocks'[i]) = DgBlock
    BY <1>3, <2>5, BlocksTyped
  <2>7. DgCorrect'
    <3>1. SUFFICES ASSUME N * DgBits < DgWord
                   PROVE  LengthWords' = words
      BY <1>1, <2>1, <2>5 DEF DgCorrect
    <3>2. LengthWords' = <<ZeroByte, LengthWord(N * DgBits)>>
      BY <1>1, <2>1 DEF LengthWords
    <3> QED  BY <2>5, <2>a, <3>1, <3>2
  <2> QED  BY <1>1, <1>2, <1>4, <2>1, <2>2, <2>5, <2>6, <2>7 DEF DgInv
<1> QED  BY <1>2, <1>5, <1>6

LEMMA DgInvKept ==
  ASSUME DgInv, [DgNext]_dgVars
  PROVE  DgInv'
<1>1. CASE UNCHANGED dgVars
  BY <1>1 DEF dgVars, DgInv, DgSize, DgCorrect, LengthWords
<1> QED  BY <1>1, DgUpdateKeeps, DgFinalKeeps DEF DgNext

LEMMA DgInvTypes == DgInv => DgTypeOK
<1> SUFFICES ASSUME DgInv PROVE DgTypeOK
  OBVIOUS
<1>1. DgSize \in Nat
  BY DgNumbers DEF DgSize
<1>2. Len(dgIn) = DgSize
  BY <1>1 DEF DgInv
<1>3. dgSent \in Nat
  BY DEF DgInv
<1>4. \A i \in DOMAIN dgCount : dgCount[i] \in 0..(DgWord - 1)
  <2>1. \A i \in DOMAIN Md5CountOf(dgSent) : Md5CountOf(dgSent)[i] \in 0..(DgWord - 1)
    BY <1>3, Md5CountType
  <2>2. \A i \in DOMAIN ShaCountOf(dgSent) : ShaCountOf(dgSent)[i] \in 0..(DgWord - 1)
    BY <1>3, ShaCountType
  <2>3. dgCount = Md5CountOf(dgSent) \/ dgCount = ShaCountOf(dgSent)
    BY DEF DgInv
  <2> QED  BY <2>1, <2>2, <2>3
<1> QED  BY <1>2, <1>4 DEF DgInv, DgTypeOK

\* The array, the counters and the blocks of MD5Update and of sha256_update
\* hold what their types say, for every message.
THEOREM DigestTyped == DgSpec => []DgTypeOK
BY DgInvInit, DgInvKept, DgInvTypes, PTL DEF DgSpec

\* However a message is cut into the calls of MD5Update and sha256_update, what is
\* compressed is the message and nothing else, and after MD5Final and sha256_final the
\* mark, the padding and the length of all of it.
THEOREM DigestOfAll == DgSpec => []DgCorrect
<1>1. DgInv => DgCorrect
  BY DEF DgInv
<1> QED  BY <1>1, DgInvInit, DgInvKept, PTL DEF DgSpec

-----------------------------------------------------------------------------
(* Places *)

\* A set of numbers has a least one.
LEMMA LeastPlace ==
  ASSUME NEW T, T \subseteq Nat, T # {}
  PROVE  \E m \in T : \A k \in T : m <= k
<1> DEFINE R == OpToRel(<, Nat)
<1>1. IsWellFoundedOn(R, Nat)
  BY NatLessThanWellFounded
<1>2. R = {ss \in Nat \X Nat : ss[1] < ss[2]}
  BY DEF OpToRel
<1> HIDE DEF R
<1>3. PICK m \in T : \A k \in T : ~ (<<k, m>> \in R)
  BY <1>1, WFMin
<1> SUFFICES ASSUME NEW k \in T PROVE m <= k
  OBVIOUS
<1>4. <<k, m>> \notin R /\ <<k, m>> \in Nat \X Nat /\ k \in Nat /\ m \in Nat
  BY <1>3
<1>5. <<k, m>> \in R <=> k < m
  BY <1>2, <1>4
<1> QED  BY <1>4, <1>5

-----------------------------------------------------------------------------
(* Recursion *)

\* What holds of 0 and goes over from a number to the next holds of all up to N.
LEMMA UpTo ==
  ASSUME NEW N \in Nat, NEW P, 0 \in P, \A k \in 0..(N - 1) : k \in P => k + 1 \in P
  PROVE  \A k \in 0..N : k \in P
<1> DEFINE T == {k \in 0..N : k \notin P}
<1> SUFFICES ASSUME T # {} PROVE FALSE
  OBVIOUS
<1>1. T \subseteq Nat
  OBVIOUS
<1> HIDE DEF T
<1>2. PICK m \in T : \A k \in T : m <= k
  BY <1>1, LeastPlace
<1>3. m \in 0..N /\ m \notin P
  BY <1>2 DEF T
<1>4. m # 0 /\ m - 1 \in 0..(N - 1) /\ m - 1 \in 0..N /\ (m - 1) + 1 = m
  BY <1>3
<1>5. m - 1 \notin T
  BY <1>2, <1>4
<1> QED  BY <1>3, <1>4, <1>5 DEF T


\* g starts at x and goes N steps of F, which is told the number of the step.
Stepped(g, N, X, F, x) == g \in [0..N -> X] /\ g[0] = x /\ \A k \in 1..N : g[k] = F[<<k, g[k - 1]>>]

LEMMA Steps ==
  ASSUME NEW N, N \in Nat, NEW X, NEW F, F \in [Nat \X X -> X], NEW x, x \in X
  PROVE  \E g : Stepped(g, N, X, F, x)
<1> DEFINE P == {m \in Nat : \E g \in [0..m -> X] : g[0] = x /\ \A k \in 1..m : g[k] = F[<<k, g[k - 1]>>]}
<1>1. 0 \in P
  <2> DEFINE g == [k \in 0..0 |-> x]
  <2>1. g \in [0..0 -> X] /\ g[0] = x /\ \A k \in 1..0 : g[k] = F[<<k, g[k - 1]>>]
    OBVIOUS
  <2> QED  BY <2>1
<1>2. ASSUME NEW m \in 0..(N - 1), m \in P PROVE m + 1 \in P
  <2>1. PICK g \in [0..m -> X] : g[0] = x /\ \A k \in 1..m : g[k] = F[<<k, g[k - 1]>>]
    BY <1>2
  <2> DEFINE y == F[<<m + 1, g[m]>>]
             f == [k \in 0..(m + 1) |-> IF k <= m THEN g[k] ELSE y]
  <2>0. y \in X
    <3>1. <<m + 1, g[m]>> \in Nat \X X
      BY <2>1
    <3> QED  BY <3>1
  <2>a. y = F[<<m + 1, g[m]>>]
    OBVIOUS
  <2> HIDE DEF y
  <2>2. f \in [0..(m + 1) -> X]
    BY <2>0, <2>1
  <2>3. f[0] = x
    BY <2>1
  <2>4. ASSUME NEW k \in 1..(m + 1) PROVE f[k] = F[<<k, f[k - 1]>>]
    <3>1. CASE k <= m
      <4>1. k \in 1..m /\ k - 1 \in 0..m /\ k - 1 <= m /\ k \in 0..(m + 1) /\ k - 1 \in 0..(m + 1)
        BY <3>1
      <4>2. f[k] = g[k] /\ f[k - 1] = g[k - 1]
        BY <3>1, <4>1
      <4> HIDE DEF f
      <4> QED  BY <2>1, <4>1, <4>2
    <3>2. CASE k = m + 1
      <4>1. k - 1 = m /\ m \in 0..(m + 1) /\ m <= m /\ ~(k <= m)
        BY <3>2
      <4>2. f[k] = y /\ f[k - 1] = g[m]
        BY <4>1
      <4> HIDE DEF f
      <4> QED  BY <2>a, <3>2, <4>2
    <3> QED  BY <3>1, <3>2
  <2> HIDE DEF f
  <2> QED  BY <2>2, <2>3, <2>4
<1> HIDE DEF P
<1>3. N \in 0..N /\ \A k \in 0..N : k \in P
  BY <1>1, <1>2, UpTo
<1>4. N \in P
  BY <1>3
<1> QED  BY <1>4 DEF P, Stepped

-----------------------------------------------------------------------------
(* Blocks and the cipher *)

LEMMA CmNumbers ==
  /\ CmBlock \in Nat \ {0} /\ CmBlock \in Nat /\ CmBlock \in CmByte /\ (CmBlock = 2 \/ CmBlock = 3)
  /\ CmIv \in Blks
  /\ \A b \in Blks : Perm[b] \in Blks
  /\ \A b, c \in Blks : Perm[b] = Perm[c] => b = c
BY CipherModesAssumption DEF CmByte

LEMMA XorUndone ==
  ASSUME NEW a \in CmByte, NEW b \in CmByte
  PROVE  XorByte(a, b) \in CmByte /\ XorByte(XorByte(a, b), b) = a
<1>1. (a = 0 \/ a = 1 \/ a = 2 \/ a = 3) /\ (b = 0 \/ b = 1 \/ b = 2 \/ b = 3)
  BY DEF CmByte
<1>2. 0 \div 2 = 0 /\ 1 \div 2 = 0 /\ 2 \div 2 = 1 /\ 3 \div 2 = 1
  OBVIOUS
<1>3. 0 % 2 = 0 /\ 1 % 2 = 1 /\ 2 % 2 = 0 /\ 3 % 2 = 1 /\ 4 % 2 = 0 /\ 5 % 2 = 1 /\ 6 % 2 = 0
  OBVIOUS
<1> QED  BY <1>1, <1>2, <1>3 DEF XorByte, CmByte

LEMMA XorBlocks ==
  ASSUME NEW b \in Blks, NEW c \in Blks
  PROVE  Xor(b, c) \in Blks /\ Xor(Xor(b, c), c) = b
<1>1. ASSUME NEW i \in 1..CmBlock
      PROVE  XorByte(b[i], c[i]) \in CmByte /\ XorByte(XorByte(b[i], c[i]), c[i]) = b[i]
  <2>1. b[i] \in CmByte /\ c[i] \in CmByte
    BY DEF Blks
  <2> QED  BY <2>1, XorUndone
<1>2. Xor(b, c) \in Blks
  BY <1>1 DEF Xor, Blks
<1>3. Xor(Xor(b, c), c) = [i \in 1..CmBlock |-> b[i]]
  BY <1>1 DEF Xor
<1>4. b = [i \in 1..CmBlock |-> b[i]]
  BY DEF Blks
<1> QED  BY <1>2, <1>3, <1>4

LEMMA FewBlocks == IsFiniteSet(Blks)
<1> DEFINE T == (CmByte \X CmByte) \X CmByte
           f == [t \in T |-> [i \in 1..CmBlock |-> IF i = 1 THEN t[1][1] ELSE IF i = 2 THEN t[1][2] ELSE t[2]]]
<1>1. IsFiniteSet(T)
  <2>1. IsFiniteSet(CmByte)
    <3> DEFINE lo == 0
               hi == 3
    <3>1. lo \in Int /\ hi \in Int /\ CmByte = lo..hi
      BY DEF CmByte
    <3> HIDE DEF lo, hi
    <3>2. IsFiniteSet(lo..hi)
      BY <3>1, FS_Interval
    <3> QED  BY <3>1, <3>2
  <2> HIDE DEF T
  <2>2. IsFiniteSet(CmByte \X CmByte)
    BY <2>1, FS_Product
  <2> QED  BY <2>1, <2>2, FS_Product DEF T
<1>2. f \in [T -> Blks]
  <2>1. ASSUME NEW t \in T, NEW i \in 1..CmBlock
        PROVE  (IF i = 1 THEN t[1][1] ELSE IF i = 2 THEN t[1][2] ELSE t[2]) \in CmByte
    OBVIOUS
  <2> QED  BY <2>1 DEF Blks
<1>3. ASSUME NEW b \in Blks PROVE \E t \in T : f[t] = b
  <2> DEFINE z == IF CmBlock = 2 THEN b[2] ELSE b[3]
             t == <<<<b[1], b[2]>>, z>>
  <2>1. CmBlock = 2 \/ CmBlock = 3
    BY CmNumbers
  <2>2. b[1] \in CmByte /\ b[2] \in CmByte /\ z \in CmByte
    BY <2>1 DEF Blks
  <2>3. t \in T
    BY <2>2
  <2>4. b = [i \in 1..CmBlock |-> b[i]]
    BY DEF Blks
  <2>5. ASSUME NEW i \in 1..CmBlock
        PROVE  (IF i = 1 THEN t[1][1] ELSE IF i = 2 THEN t[1][2] ELSE t[2]) = b[i]
    <3>1. i = 1 \/ i = 2 \/ (CmBlock = 3 /\ i = 3)
      BY <2>1
    <3> QED  BY <3>1
  <2>6. f[t] = [i \in 1..CmBlock |-> b[i]]
    <3>1. f[t] = [i \in 1..CmBlock |-> IF i = 1 THEN t[1][1] ELSE IF i = 2 THEN t[1][2] ELSE t[2]]
      BY <2>3
    <3> HIDE DEF f, t
    <3> QED  BY <2>5, <3>1
  <2> HIDE DEF t, f
  <2> QED  BY <2>3, <2>4, <2>6
<1> HIDE DEF T, f
<1>4. f \in Surjection(T, Blks)
  BY <1>2, <1>3 DEF Surjection
<1> QED  BY <1>1, <1>4, FS_Surjection

\* A permutation has an inverse: every block is the ciphertext of one.
LEMMA Inverse2 ==
  /\ \A b \in Blks : Encrypted(b) \in Blks /\ Decrypted(Encrypted(b)) = b
  /\ \A c \in Blks : Decrypted(c) \in Blks /\ Encrypted(Decrypted(c)) = c
<1> DEFINE f == [b \in Blks |-> Perm[b]]
<1>1. f \in Injection(Blks, Blks)
  <2>1. f \in [Blks -> Blks]
    BY CmNumbers
  <2>2. \A a, b \in DOMAIN f : f[a] = f[b] => a = b
    BY CmNumbers
  <2> QED  BY <2>1, <2>2 DEF Injection, IsInjective
<1> HIDE DEF f
<1>2. f \in Surjection(Blks, Blks)
  BY <1>1, FewBlocks, FS_Injection
<1>3. ASSUME NEW c \in Blks PROVE \E b \in Blks : Perm[b] = c
  <2>1. \E b \in Blks : f[b] = c
    BY <1>2 DEF Surjection
  <2> QED  BY <2>1 DEF f
<1>4. ASSUME NEW c \in Blks PROVE Decrypted(c) \in Blks /\ Perm[Decrypted(c)] = c
  BY <1>3 DEF Decrypted
<1>5. ASSUME NEW b \in Blks PROVE Encrypted(b) \in Blks /\ Decrypted(Encrypted(b)) = b
  <2>1. Perm[b] \in Blks
    BY CmNumbers
  <2>2. Decrypted(Perm[b]) \in Blks /\ Perm[Decrypted(Perm[b])] = Perm[b]
    BY <1>4, <2>1
  <2>3. Decrypted(Perm[b]) = b
    BY <2>2, CmNumbers
  <2> QED  BY <2>1, <2>3 DEF Encrypted
<1> QED  BY <1>4, <1>5 DEF Encrypted

-----------------------------------------------------------------------------
(* Places of bytes in blocks *)

LEMMA PlaceIn ==
  ASSUME NEW N \in Nat, NEW i \in 1..N, NEW j \in 1..CmBlock
  PROVE  /\ (i - 1) * CmBlock \in Nat /\ i * CmBlock \in Nat /\ N * CmBlock \in Nat
         /\ (i - 1) * CmBlock + CmBlock = i * CmBlock /\ i * CmBlock <= N * CmBlock
         /\ (i - 1) * CmBlock + j \in 1..(i * CmBlock) /\ (i - 1) * CmBlock + j \in 1..(N * CmBlock)
<1>1. CmBlock \in Nat \ {0} /\ CmBlock \in Nat
  BY CmNumbers
<1> DEFINE B == CmBlock
           x == (i - 1) * B
           y == i * B
           z == N * B
<1>2. x \in Nat /\ y \in Nat /\ z \in Nat /\ y = x + B
  BY <1>1
<1>3. y <= z
  <2>1. CASE i = N
    BY <1>2, <2>1
  <2>2. CASE i < N
    <3>1. i * B + B <= N * B
      BY <1>1, <2>2, NextMultiple
    <3> QED  BY <1>1, <1>2, <3>1
  <2> QED  BY <2>1, <2>2
<1> HIDE DEF x, y, z
<1>4. x + B = y /\ x + j \in 1..y /\ x + j \in 1..z
  BY <1>1, <1>2, <1>3
<1> QED  BY <1>2, <1>3, <1>4 DEF x, y, z

LEMMA PlaceOf ==
  ASSUME NEW N \in Nat, NEW p \in 1..(N * CmBlock)
  PROVE  \E i \in 1..N : \E j \in 1..CmBlock : p = (i - 1) * CmBlock + j
<1> DEFINE B == CmBlock
           q == (p - 1) \div B
           r == (p - 1) % B
<1>1. B \in Nat \ {0} /\ B \in Nat
  BY CmNumbers
<1>2. p - 1 \in Nat /\ N * B \in Nat /\ p \in Nat /\ p <= N * B
  BY <1>1
<1>3. q \in Nat /\ r \in 0..(B - 1) /\ p - 1 = q * B + r
  BY <1>1, <1>2, Divided
<1> HIDE DEF q, r
<1>4. q < N
  <2> SUFFICES ASSUME ~(q < N) PROVE FALSE
    OBVIOUS
  <2>1. N * B <= q * B
    <3>1. CASE q = N
      BY <1>1, <1>2, <3>1
    <3>2. CASE N < q
      <4>1. N * B + B <= q * B
        BY <1>1, <1>3, <3>2, NextMultiple
      <4> QED  BY <1>1, <1>2, <1>3, <4>1
    <3> QED  BY <1>3, <3>1, <3>2
  <2> QED  BY <1>1, <1>2, <1>3, <2>1
<1> DEFINE i == q + 1
           j == r + 1
<1>5. i \in 1..N /\ j \in 1..B /\ p = (i - 1) * B + j
  <2>a. q + 1 - 1 = q /\ q + 1 \in 1..N
    BY <1>3, <1>4
  <2>b. r + 1 \in 1..B
    BY <1>1, <1>3
  <2>1. i - 1 = q /\ i \in 1..N /\ j \in 1..B
    BY <1>3, <2>a, <2>b
  <2>2. q * B \in Nat
    BY <1>1, <1>3
  <2>3. p = q * B + j
    BY <1>2, <1>3, <2>2
  <2> QED  BY <2>1, <2>3
<1> HIDE DEF i, j, B
<1> QED  BY <1>5 DEF B

\* The blocks of a text: its bytes, and behind them the number of those that are missing.
PlainByte(t, p)  == IF p <= Len(t) THEN t[p] ELSE ((Len(t) \div CmBlock) + 1) * CmBlock - Len(t)
PlainBlock(t, i) == [j \in 1..CmBlock |-> PlainByte(t, (i - 1) * CmBlock + j)]
Count(pad, t)    == (Len(t) \div CmBlock) + (IF pad THEN 1 ELSE 0)

LEMMA MoreIs ==
  ASSUME NEW l \in Nat
  PROVE  LET N == l \div CmBlock
         IN  /\ N \in Nat /\ N * CmBlock \in Nat /\ N * CmBlock <= l /\ l - (N * CmBlock) \in 0..(CmBlock - 1)
             /\ (N + 1) * CmBlock = N * CmBlock + CmBlock /\ (N + 1) * CmBlock - l \in 1..CmBlock
             /\ (N + 1) * CmBlock - l = CmBlock - (l % CmBlock) /\ l % CmBlock = l - N * CmBlock
<1> DEFINE N == l \div CmBlock
           r == l % CmBlock
           x == N * CmBlock
<1>1. CmBlock \in Nat \ {0} /\ CmBlock \in Nat
  BY CmNumbers
<1>2. N \in Nat /\ r \in 0..(CmBlock - 1) /\ l = x + r
  BY <1>1, Divided
<1> HIDE DEF N, r
<1>3. x \in Nat /\ (N + 1) * CmBlock = x + CmBlock
  BY <1>1, <1>2
<1> HIDE DEF x
<1>4. /\ x <= l /\ l - x \in 0..(CmBlock - 1) /\ (x + CmBlock) - l \in 1..CmBlock
      /\ (x + CmBlock) - l = CmBlock - r /\ r = l - x
  BY <1>1, <1>2, <1>3
<1> QED  BY <1>2, <1>3, <1>4 DEF x, N, r

LEMMA PlainTyped ==
  ASSUME NEW t \in Seq(CmByte), NEW i \in Nat \ {0}
  PROVE  PlainBlock(t, i) \in Blks
<1> DEFINE more == ((Len(t) \div CmBlock) + 1) * CmBlock - Len(t)
<1>1. more \in 1..CmBlock
  BY MoreIs
<1>2. more \in CmByte
  BY <1>1, CmNumbers DEF CmByte
<1> HIDE DEF more
<1>3. ASSUME NEW j \in 1..CmBlock PROVE PlainByte(t, (i - 1) * CmBlock + j) \in CmByte
  <2> DEFINE x == (i - 1) * CmBlock
  <2>1. x + j \in Nat \ {0}
    <3>1. x \in Nat
      BY CmNumbers
    <3> HIDE DEF x
    <3> QED  BY <3>1
  <2> HIDE DEF x
  <2>2. PlainByte(t, x + j) = IF x + j <= Len(t) THEN t[x + j] ELSE more
    BY DEF PlainByte, more
  <2>3. x + j <= Len(t) => t[x + j] \in CmByte
    BY <2>1
  <2>4. PlainByte(t, x + j) \in CmByte
    BY <1>2, <2>2, <2>3
  <2> QED  BY <2>4 DEF x
<1> QED  BY <1>3 DEF PlainBlock, Blks

LEMMA PartIs ==
  ASSUME NEW s \in Seq(CmByte), NEW x \in Nat, x + CmBlock <= Len(s)
  PROVE  SubSeq(s, x + 1, x + CmBlock) = [j \in 1..CmBlock |-> s[x + j]] /\ SubSeq(s, x + 1, x + CmBlock) \in Blks
<1>1. CmBlock \in Nat
  BY CmNumbers
<1>2. (x + CmBlock) - (x + 1) + 1 = CmBlock
  BY <1>1
<1>3. SubSeq(s, x + 1, x + CmBlock) = [j \in 1..((x + CmBlock) - (x + 1) + 1) |-> s[(x + 1) + j - 1]]
  BY <1>1
<1>4. \A j \in 1..CmBlock : (x + 1) + j - 1 = x + j /\ s[x + j] \in CmByte
  BY <1>1
<1>5. SubSeq(s, x + 1, x + CmBlock) = [j \in 1..CmBlock |-> s[x + j]]
  BY <1>2, <1>3, <1>4
<1> QED  BY <1>4, <1>5 DEF Blks

LEMMA BlockedIs ==
  ASSUME NEW t \in Seq(CmByte), cmCall.pad \in BOOLEAN
  PROVE  Blocked(t) = [i \in 1..Count(cmCall.pad, t) |-> PlainBlock(t, i)]
<1> DEFINE B == CmBlock
           l == Len(t)
           N == l \div B
           more == B - (l % B)
           tail == [i \in 1..more |-> more]
           bytes == IF cmCall.pad THEN t \o tail ELSE t
           c == Count(cmCall.pad, t)
<1>1. B \in Nat \ {0} /\ B \in Nat
  BY CmNumbers
<1>2. l \in Nat
  OBVIOUS
<1>3. /\ N \in Nat /\ N * B \in Nat /\ N * B <= l /\ (N + 1) * B = N * B + B /\ more \in 1..B /\ (N + 1) * B - l = more
  BY <1>2, MoreIs
<1>4. Blocked(t) = [i \in 1..(Len(bytes) \div B) |-> SubSeq(bytes, (i - 1) * B + 1, i * B)]
  BY DEF Blocked
<1>5. c = IF cmCall.pad THEN N + 1 ELSE N
  BY <1>3 DEF Count
<1>6. /\ bytes \in Seq(CmByte) /\ Len(bytes) = IF cmCall.pad THEN l + more ELSE l
      /\ \A p \in 1..Len(bytes) : bytes[p] = IF p <= l THEN t[p] ELSE more
  <2>1. more \in CmByte /\ more \in Nat
    BY <1>3, CmNumbers DEF CmByte
  <2> HIDE DEF more
  <2>2. tail \in Seq(CmByte) /\ Len(tail) = more /\ \A i \in 1..more : tail[i] = more
    BY <2>1
  <2> HIDE DEF tail
  <2>3. CASE cmCall.pad
    BY <2>1, <2>2, <2>3
  <2>4. CASE ~cmCall.pad
    BY <2>4
  <2> QED  BY <2>3, <2>4
<1> HIDE DEF more, bytes, N, c
<1>7. c \in Nat /\ c * B \in Nat /\ c * B <= Len(bytes) /\ Len(bytes) \div B = c
  <2>1. CASE cmCall.pad
    <3> DEFINE m == N + 1
               z == 0
    <3>1. m \in Nat /\ z \in 0..(B - 1) /\ c = m /\ Len(bytes) = m * B + z
      BY <1>1, <1>2, <1>3, <1>5, <1>6, <2>1
    <3> HIDE DEF m, z
    <3>2. (m * B + z) \div B = m
      BY <1>1, <3>1, DividedAs
    <3>3. m * B \in Nat
      BY <1>1, <3>1
    <3> QED  BY <3>1, <3>2, <3>3
  <2>2. CASE ~cmCall.pad
    <3>1. c = N /\ Len(bytes) = l
      BY <1>5, <1>6, <2>2
    <3> QED  BY <1>3, <3>1 DEF N
  <2> QED  BY <2>1, <2>2
<1>8. ASSUME NEW i \in 1..c PROVE SubSeq(bytes, (i - 1) * B + 1, i * B) = PlainBlock(t, i)
  <2> DEFINE x == (i - 1) * B
             y == i * B
  <2>1. x \in Nat /\ y = x + B /\ y <= c * B
    <3>1. 1 \in 1..B
      BY <1>1
    <3> QED  BY <1>7, <3>1, PlaceIn
  <2> HIDE DEF x, y
  <2>2. x + B <= Len(bytes)
    BY <1>1, <1>6, <1>7, <2>1
  <2>3. SubSeq(bytes, x + 1, x + B) = [j \in 1..B |-> bytes[x + j]]
    BY <1>6, <2>1, <2>2, PartIs
  <2>4. ASSUME NEW j \in 1..B PROVE bytes[x + j] = PlainByte(t, x + j)
    <3>1. x + j \in 1..Len(bytes)
      BY <1>1, <1>6, <2>1, <2>2
    <3>2. PlainByte(t, x + j) = IF x + j <= l THEN t[x + j] ELSE more
      BY <1>3 DEF PlainByte, N
    <3> QED  BY <1>6, <3>1, <3>2
  <2>5. SubSeq(bytes, x + 1, y) = [j \in 1..B |-> PlainByte(t, x + j)]
    BY <2>1, <2>3, <2>4
  <2> QED  BY <2>5 DEF x, y, PlainBlock
<1>9. Blocked(t) = [i \in 1..c |-> PlainBlock(t, i)]
  BY <1>4, <1>7, <1>8
<1> QED  BY <1>9 DEF c

-----------------------------------------------------------------------------
(* What ECB and CBC make of a text *)

\* Cb[i] is the ciphertext of the i-th of N blocks, Cb[0] the initial vector.
Seals(Cb, mode, t, N) ==
  /\ Cb \in [0..N -> Blks] /\ Cb[0] = CmIv
  /\ \A i \in 1..N : Cb[i] = Encrypted(IF mode = "CBC" THEN Xor(PlainBlock(t, i), Cb[i - 1]) ELSE PlainBlock(t, i))

Sealing(mode, t, N) == CHOOSE Cb : Seals(Cb, mode, t, N)

LEMMA SealingIs ==
  ASSUME NEW t \in Seq(CmByte), NEW mode, NEW N \in Nat
  PROVE  Seals(Sealing(mode, t, N), mode, t, N)
<1> DEFINE F == [kx \in Nat \X Blks |->
                   IF kx[1] = 0 THEN CmIv
                   ELSE Encrypted(IF mode = "CBC" THEN Xor(PlainBlock(t, kx[1]), kx[2]) ELSE PlainBlock(t, kx[1]))]
<1>1. F \in [Nat \X Blks -> Blks]
  <2>1. ASSUME NEW kx \in Nat \X Blks, kx[1] # 0
        PROVE  Encrypted(IF mode = "CBC" THEN Xor(PlainBlock(t, kx[1]), kx[2]) ELSE PlainBlock(t, kx[1])) \in Blks
    <3>1. PlainBlock(t, kx[1]) \in Blks /\ kx[2] \in Blks
      BY <2>1, PlainTyped
    <3>2. Xor(PlainBlock(t, kx[1]), kx[2]) \in Blks
      BY <3>1, XorBlocks
    <3> QED  BY <3>1, <3>2, Inverse2
  <2>2. CmIv \in Blks
    BY CmNumbers
  <2> QED  BY <2>1, <2>2
<1>a. \A k \in Nat, x \in Blks : k # 0 =>
        F[<<k, x>>] = Encrypted(IF mode = "CBC" THEN Xor(PlainBlock(t, k), x) ELSE PlainBlock(t, k))
  OBVIOUS
<1> HIDE DEF F
<1>2. \E g : Stepped(g, N, Blks, F, CmIv)
  BY <1>1, CmNumbers, Steps
<1>3. PICK g : Stepped(g, N, Blks, F, CmIv)
  BY <1>2
<1>4. g \in [0..N -> Blks] /\ g[0] = CmIv /\ \A k \in 1..N : g[k] = F[<<k, g[k - 1]>>]
  BY <1>3 DEF Stepped
<1>5. ASSUME NEW k \in 1..N
      PROVE  g[k] = Encrypted(IF mode = "CBC" THEN Xor(PlainBlock(t, k), g[k - 1]) ELSE PlainBlock(t, k))
  <2>1. k \in Nat /\ k # 0 /\ g[k - 1] \in Blks
    BY <1>4
  <2> QED  BY <1>4, <1>a, <2>1
<1>6. Seals(g, mode, t, N)
  BY <1>4, <1>5 DEF Seals
<1> QED  BY <1>6, Zenon DEF Sealing

LEMMA OneSealing ==
  ASSUME NEW t, NEW mode, NEW N \in Nat, NEW Cb, NEW Db, Seals(Cb, mode, t, N), Seals(Db, mode, t, N)
  PROVE  \A k \in 0..N : Cb[k] = Db[k]
<1> DEFINE P == {k \in Nat : Cb[k] = Db[k]}
<1>1. 0 \in P
  BY DEF Seals
<1>2. ASSUME NEW k \in 0..(N - 1), k \in P PROVE k + 1 \in P
  <2>1. k + 1 \in 1..N /\ (k + 1) - 1 = k /\ k + 1 \in Nat
    OBVIOUS
  <2>2. Cb[k] = Db[k]
    BY <1>2
  <2>3. Cb[k + 1] = Encrypted(IF mode = "CBC" THEN Xor(PlainBlock(t, k + 1), Cb[k]) ELSE PlainBlock(t, k + 1))
    BY <2>1 DEF Seals
  <2>4. Db[k + 1] = Encrypted(IF mode = "CBC" THEN Xor(PlainBlock(t, k + 1), Db[k]) ELSE PlainBlock(t, k + 1))
    BY <2>1 DEF Seals
  <2>5. Cb[k + 1] = Db[k + 1]
    BY <2>2, <2>3, <2>4
  <2> QED  BY <2>1, <2>5
<1> HIDE DEF P
<1>3. \A k \in 0..N : k \in P
  BY <1>1, <1>2, UpTo
<1> QED  BY <1>3 DEF P

\* The bytes of s are those of the N blocks of c.
Spelled(s, N, c) ==
  /\ s \in Seq(CmByte) /\ Len(s) = N * CmBlock
  /\ \A i \in 1..N : \A j \in 1..CmBlock : s[(i - 1) * CmBlock + j] = c[i][j]

LEMMA SameText ==
  ASSUME NEW N \in Nat, NEW s, NEW t, NEW c, Spelled(s, N, c), Spelled(t, N, c)
  PROVE  s = t
<1> DEFINE l == N * CmBlock
<1>1. Len(s) = l /\ Len(t) = l /\ s \in Seq(CmByte) /\ t \in Seq(CmByte)
  BY DEF Spelled
<1>2. ASSUME NEW p \in 1..l PROVE s[p] = t[p]
  <2>1. PICK i \in 1..N : \E j \in 1..CmBlock : p = (i - 1) * CmBlock + j
    BY PlaceOf
  <2>2. PICK j \in 1..CmBlock : p = (i - 1) * CmBlock + j
    BY <2>1
  <2>3. s[(i - 1) * CmBlock + j] = c[i][j] /\ t[(i - 1) * CmBlock + j] = c[i][j]
    BY DEF Spelled
  <2> QED  BY <2>2, <2>3
<1> HIDE DEF l
<1>3. s = [p \in 1..l |-> s[p]] /\ t = [p \in 1..l |-> t[p]]
  BY <1>1
<1> QED  BY <1>2, <1>3

\* FlattenSeq of N blocks spells them.
LEMMA FlatIs ==
  ASSUME NEW N \in Nat \ {0}, NEW c, c \in [1..N -> Blks]
  PROVE  Spelled(FlattenSeq(c), N, c)
<1> DEFINE B == CmBlock
           X == Seq(CmByte)
           F == [kx \in Nat \X X |-> IF kx[1] \in 1..N THEN kx[2] \o c[kx[1]] ELSE kx[2]]
           x == << >>
           Eq(g) == g = [i \in 1..N |-> IF i = 1 THEN c[i] ELSE g[i - 1] \o c[i]]
           flat == CHOOSE g : Eq(g)
<1>1. B \in Nat \ {0} /\ B \in Nat
  BY CmNumbers
<1>2. \A i \in 1..N : c[i] \in X /\ Len(c[i]) = B
  <2> SUFFICES ASSUME NEW i \in 1..N PROVE c[i] \in X /\ Len(c[i]) = B
    OBVIOUS
  <2>1. c[i] \in [1..B -> CmByte]
    BY DEF Blks
  <2> QED  BY <1>1, <2>1
<1>3. Len(c) = N /\ N # 0
  OBVIOUS
<1>4. FlattenSeq(c) = flat[N]
  BY <1>3 DEF FlattenSeq
<1>5. x \in X /\ x \o c[1] = c[1]
  BY <1>2
<1>6. F \in [Nat \X X -> X]
  <2>1. ASSUME NEW kx \in Nat \X X PROVE (IF kx[1] \in 1..N THEN kx[2] \o c[kx[1]] ELSE kx[2]) \in X
    <3>1. kx[2] \in X
      OBVIOUS
    <3>2. kx[1] \in 1..N => c[kx[1]] \in X
      BY <1>2
    <3> QED  BY <3>1, <3>2
  <2> HIDE DEF X
  <2> QED  BY <2>1
<1>7. ASSUME NEW k \in 1..N, NEW y \in X PROVE F[<<k, y>>] = y \o c[k]
  <2> HIDE DEF X
  <2>1. <<k, y>> \in Nat \X X
    OBVIOUS
  <2> QED  BY <2>1
<1> HIDE DEF F, X, x
<1>8. \E g : Stepped(g, N, X, F, x)
  BY <1>5, <1>6, Steps
<1>9. PICK g : Stepped(g, N, X, F, x)
  BY <1>8
<1>10. g \in [0..N -> X] /\ g[0] = x /\ \A k \in 1..N : g[k] = g[k - 1] \o c[k]
  <2>1. g \in [0..N -> X] /\ g[0] = x /\ \A k \in 1..N : g[k] = F[<<k, g[k - 1]>>]
    BY <1>9 DEF Stepped
  <2>2. \A k \in 1..N : g[k - 1] \in X
    BY <2>1
  <2> QED  BY <1>7, <2>1, <2>2
<1>11. \E h : Eq(h)
  <2> DEFINE h == [i \in 1..N |-> g[i]]
  <2>1. ASSUME NEW i \in 1..N PROVE h[i] = IF i = 1 THEN c[i] ELSE h[i - 1] \o c[i]
    <3>1. CASE i = 1
      <4>0. 1 \in 1..N /\ 1 - 1 = 0
        OBVIOUS
      <4>1. g[1] = x \o c[1]
        BY <1>10, <4>0
      <4> QED  BY <1>5, <3>1, <4>1
    <3>2. CASE i # 1
      <4>1. i - 1 \in 1..N
        BY <3>2
      <4> QED  BY <1>10, <3>2, <4>1
    <3> QED  BY <3>1, <3>2
  <2>2. h = [i \in 1..N |-> h[i]]
    OBVIOUS
  <2> HIDE DEF h
  <2>3. h = [i \in 1..N |-> IF i = 1 THEN c[i] ELSE h[i - 1] \o c[i]]
    BY <2>1, <2>2
  <2> QED  BY <2>3
<1>12. Eq(flat)
  <2> HIDE DEF Eq
  <2> QED  BY <1>11, Zenon
<1>13. ASSUME NEW i \in 1..N PROVE flat[i] = IF i = 1 THEN c[i] ELSE flat[i - 1] \o c[i]
  <2> HIDE DEF flat
  <2> QED  BY <1>12
<1> HIDE DEF flat, Eq
<1> DEFINE P == {k \in Nat : k >= 1 /\ k <= N => Spelled(flat[k], k, c)}
<1>14. 0 \in P
  OBVIOUS
<1>15. ASSUME NEW k \in 0..(N - 1), k \in P PROVE k + 1 \in P
  <2> DEFINE m == k + 1
             u == IF k = 0 THEN << >> ELSE flat[k]
  <2>1. m \in 1..N /\ m - 1 = k /\ k \in Nat /\ m \in Nat /\ k <= N
    OBVIOUS
  <2>2. Spelled(u, k, c)
    <3>1. CASE k = 0
      BY <1>1, <3>1 DEF Spelled
    <3>2. CASE k # 0
      BY <1>15, <3>2
    <3> QED  BY <3>1, <3>2
  <2>3. flat[m] = u \o c[m]
    <3>1. CASE k = 0
      <4>1. m = 1 /\ << >> \o c[1] = c[1]
        BY <1>5, <3>1 DEF x
      <4> QED  BY <1>13, <2>1, <3>1, <4>1
    <3>2. CASE k # 0
      <4>1. m # 1
        BY <3>2
      <4> HIDE DEF m
      <4> QED  BY <1>13, <2>1, <3>2, <4>1
    <3> QED  BY <3>1, <3>2
  <2> HIDE DEF u
  <2> DEFINE v == c[m]
             a == k * B
             b == m * B
  <2>4. u \in Seq(CmByte) /\ Len(u) = a /\ \A i \in 1..k : \A j \in 1..B : u[(i - 1) * B + j] = c[i][j]
    BY <2>2 DEF Spelled
  <2>5. v \in Seq(CmByte) /\ Len(v) = B
    BY <1>2, <2>1 DEF X
  <2>6. a \in Nat /\ b = a + B
    BY <1>1, <2>1
  <2> HIDE DEF a, b, m
  <2>7. /\ u \o v \in Seq(CmByte) /\ Len(u \o v) = b
        /\ \A p \in 1..b : (u \o v)[p] = IF p <= a THEN u[p] ELSE v[p - a]
    <3> HIDE DEF v
    <3> QED  BY <1>1, <2>4, <2>5, <2>6
  <2>8. ASSUME NEW i \in 1..m, NEW j \in 1..B PROVE (u \o v)[(i - 1) * B + j] = c[i][j]
    <3> DEFINE y == (i - 1) * B
    <3>1. CASE i <= k
      <4>1. i \in 1..k
        BY <2>1, <3>1 DEF m
      <4>2. y + j \in 1..a
        BY <2>1, <4>1, PlaceIn DEF a
      <4> HIDE DEF y
      <4>3. y + j \in 1..b /\ y + j <= a
        BY <1>1, <2>6, <4>2
      <4>4. u[y + j] = c[i][j]
        BY <2>4, <4>1 DEF y
      <4>5. (u \o v)[y + j] = u[y + j]
        BY <2>7, <4>3
      <4> QED  BY <4>4, <4>5 DEF y
    <3>2. CASE i = m
      <4>1. y = a
        BY <2>1, <3>2 DEF a, m
      <4> HIDE DEF y
      <4> DEFINE p == y + j
      <4>2. p \in 1..b /\ ~(p <= a) /\ p - a = j
        BY <1>1, <2>6, <4>1
      <4> HIDE DEF v, p
      <4>3. (u \o v)[p] = v[j]
        BY <2>7, <4>2
      <4>4. v[j] = c[i][j]
        BY <3>2 DEF v
      <4>5. (u \o v)[y + j] = c[i][j]
        BY <4>3, <4>4 DEF p
      <4> HIDE DEF B
      <4> QED  BY <4>5 DEF y
    <3>3. i <= k \/ i = m
      <4>1. m = k + 1 /\ k \in Nat /\ i \in 1..m
        BY DEF m
      <4> QED  BY <4>1
    <3> QED  BY <3>1, <3>2, <3>3
  <2>9. Spelled(flat[m], m, c)
    BY <2>3, <2>7, <2>8 DEF Spelled, b
  <2> QED  BY <2>1, <2>9 DEF m
<1> HIDE DEF P
<1>16. \A k \in 0..N : k \in P
  BY <1>14, <1>15, UpTo
<1>17. N \in P /\ N >= 1 /\ N <= N
  BY <1>16
<1> QED  BY <1>4, <1>17 DEF P

LEMMA ChainedIs ==
  ASSUME NEW t \in Seq(CmByte), cmCall.pad \in BOOLEAN, NEW N \in Nat \ {0}, N = Count(cmCall.pad, t),
         NEW Cb, Seals(Cb, cmCall.mode, t, N)
  PROVE  Spelled(Chained(t), N, Cb)
<1> DEFINE b == Blocked(t)
           mode == cmCall.mode
           Eq(g) == g = [i \in 0..Len(b) |->
                           IF i = 0 THEN CmIv ELSE Encrypted(IF mode = "CBC" THEN Xor(b[i], g[i - 1]) ELSE b[i])]
           Db == CHOOSE g : Eq(g)
           f == [i \in DOMAIN b |-> Db[i]]
<1>1. Chained(t) = FlattenSeq(f)
  BY DEF Chained
<1>2. b = [i \in 1..N |-> PlainBlock(t, i)]
  BY BlockedIs
<1> HIDE DEF b
<1>3. Len(b) = N /\ DOMAIN b = 1..N /\ \A i \in 1..N : b[i] = PlainBlock(t, i)
  BY <1>2
<1>4. \E g : Eq(g)
  <2> DEFINE g == Sealing(mode, t, N)
  <2>1. Seals(g, mode, t, N)
    BY SealingIs
  <2> HIDE DEF g
  <2>2. /\ g \in [0..N -> Blks] /\ g[0] = CmIv
        /\ \A i \in 1..N : g[i] = Encrypted(IF mode = "CBC" THEN Xor(PlainBlock(t, i), g[i - 1]) ELSE PlainBlock(t, i))
    BY <2>1 DEF Seals
  <2>3. ASSUME NEW i \in 0..N
        PROVE  g[i] = IF i = 0 THEN CmIv ELSE Encrypted(IF mode = "CBC" THEN Xor(b[i], g[i - 1]) ELSE b[i])
    <3>1. CASE i = 0
      BY <2>2, <3>1
    <3>2. CASE i # 0
      <4>1. i \in 1..N
        BY <3>2
      <4>2. b[i] = PlainBlock(t, i)
        BY <1>3, <4>1
      <4>3. g[i] = Encrypted(IF mode = "CBC" THEN Xor(PlainBlock(t, i), g[i - 1]) ELSE PlainBlock(t, i))
        BY <2>2, <4>1
      <4> QED  BY <3>2, <4>2, <4>3
    <3> QED  BY <3>1, <3>2
  <2>4. g = [i \in 0..N |-> g[i]]
    BY <2>2
  <2>5. Eq(g)
    BY <1>3, <2>3, <2>4
  <2> QED  BY <2>5
<1>5. Eq(Db)
  <2> HIDE DEF Eq
  <2> QED  BY <1>4, Zenon
<1> HIDE DEF Db
<1>6. Db = [i \in 0..N |-> IF i = 0 THEN CmIv ELSE Encrypted(IF mode = "CBC" THEN Xor(b[i], Db[i - 1]) ELSE b[i])]
  BY <1>3, <1>5
<1> HIDE DEF Eq
<1>7. ASSUME NEW i \in 1..N
      PROVE  Db[i] = Encrypted(IF mode = "CBC" THEN Xor(PlainBlock(t, i), Db[i - 1]) ELSE PlainBlock(t, i))
  <2>1. i \in 0..N /\ i # 0
    OBVIOUS
  <2>2. Db[i] = Encrypted(IF mode = "CBC" THEN Xor(b[i], Db[i - 1]) ELSE b[i])
    BY <1>6, <2>1
  <2>3. b[i] = PlainBlock(t, i)
    BY <1>3
  <2> QED  BY <2>2, <2>3
<1>8. Db[0] = CmIv
  BY <1>6
<1>9. ASSUME NEW k \in 0..N PROVE Cb[k] = Db[k]
  <2> DEFINE P == {m \in Nat : Cb[m] = Db[m]}
  <2>1. 0 \in P
    BY <1>8 DEF Seals
  <2>2. ASSUME NEW m \in 0..(N - 1), m \in P PROVE m + 1 \in P
    <3>1. m + 1 \in 1..N /\ (m + 1) - 1 = m /\ m + 1 \in Nat
      OBVIOUS
    <3>2. Cb[m] = Db[m]
      BY <2>2
    <3>3. Cb[m + 1] = Encrypted(IF mode = "CBC" THEN Xor(PlainBlock(t, m + 1), Cb[m]) ELSE PlainBlock(t, m + 1))
      BY <3>1 DEF Seals
    <3>4. Db[m + 1] = Encrypted(IF mode = "CBC" THEN Xor(PlainBlock(t, m + 1), Db[m]) ELSE PlainBlock(t, m + 1))
      BY <1>7, <3>1
    <3>5. Cb[m + 1] = Db[m + 1]
      BY <3>2, <3>3, <3>4
    <3> QED  BY <3>1, <3>5
  <2> HIDE DEF P
  <2>3. \A m \in 0..N : m \in P
    BY <2>1, <2>2, UpTo
  <2> QED  BY <2>3 DEF P
<1>10. f = [i \in 1..N |-> Cb[i]]
  BY <1>3, <1>9
<1>11. f \in [1..N -> Blks]
  <2>1. \A i \in 1..N : Cb[i] \in Blks
    BY DEF Seals
  <2> QED  BY <1>10, <2>1
<1>12. \A i \in 1..N : f[i] = Cb[i]
  BY <1>10
<1> HIDE DEF f
<1>13. Spelled(FlattenSeq(f), N, f)
  BY <1>11, FlatIs
<1> QED  BY <1>1, <1>12, <1>13 DEF Spelled

-----------------------------------------------------------------------------
(* The memory *)

\* new is mem with bytes from at (counted from 0) on.
WrittenAt(new, mem, at, bytes) ==
  /\ new \in Seq(CmByte) /\ Len(new) = Len(mem)
  /\ \A p \in 1..Len(mem) : new[p] = IF at < p /\ p <= at + Len(bytes) THEN bytes[p - at] ELSE mem[p]

LEMMA WrittenAtIs ==
  ASSUME cmMem \in Seq(CmByte), NEW i, NEW at \in Nat, at = OutAt + i * CmBlock,
         NEW bytes \in Seq(CmByte), at + Len(bytes) <= Len(cmMem)
  PROVE  WrittenAt(StoredBytes(i, bytes), cmMem, at, bytes)
<1> DEFINE l == Len(bytes)
           m == Len(cmMem)
           new == StoredBytes(i, bytes)
<1>1. l \in Nat /\ m \in Nat /\ DOMAIN bytes = 1..l /\ DOMAIN cmMem = 1..m /\ at + l <= m
  OBVIOUS
<1>2. new = [p \in DOMAIN cmMem \cup ((at + 1)..(at + l)) |-> IF p - at \in DOMAIN bytes THEN bytes[p - at] ELSE cmMem[p]]
  BY DEF StoredBytes
<1>3. 1..m \cup ((at + 1)..(at + l)) = 1..m
  BY <1>1
<1>4. new = [p \in 1..m |-> IF p - at \in 1..l THEN bytes[p - at] ELSE cmMem[p]]
  BY <1>1, <1>2, <1>3
<1>5. ASSUME NEW p \in 1..m
      PROVE  /\ p - at \in 1..l <=> at < p /\ p <= at + l
             /\ (IF p - at \in 1..l THEN bytes[p - at] ELSE cmMem[p]) \in CmByte
  BY <1>1
<1> HIDE DEF new, l, m
<1>6. new \in [1..m -> CmByte]
  BY <1>4, <1>5
<1>7. new \in Seq(CmByte) /\ Len(new) = m
  BY <1>1, <1>6
<1>8. \A p \in 1..m : new[p] = IF at < p /\ p <= at + l THEN bytes[p - at] ELSE cmMem[p]
  BY <1>4, <1>5
<1> QED  BY <1>7, <1>8 DEF WrittenAt, new, l, m

\* In mem the first a blocks of the output are those of res, and of the input src what is
\* behind them, or all of it when the output is elsewhere.
Worked(mem, o, inPlace, src, a, res) ==
  /\ mem \in Seq(CmByte) /\ src \in Seq(CmByte) /\ Len(src) <= Len(mem) /\ a \in Nat
  /\ o = IF inPlace THEN 0 ELSE Len(src)
  /\ \A i \in 1..a : \A j \in 1..CmBlock : mem[o + (i - 1) * CmBlock + j] = res[i][j]
  /\ \A p \in 1..Len(src) : (inPlace => p > a * CmBlock) => mem[p] = src[p]

LEMMA OneMore ==
  ASSUME NEW mem, NEW o, NEW inPlace, NEW src, NEW a, NEW res, Worked(mem, o, inPlace, src, a, res),
         NEW new, NEW blk \in Blks, WrittenAt(new, mem, o + a * CmBlock, blk), o + (a + 1) * CmBlock <= Len(mem),
         res[a + 1] = blk
  PROVE  Worked(new, o, inPlace, src, a + 1, res)
<1> DEFINE B == CmBlock
           x == a * B
           at == o + x
           m == Len(mem)
<1>1. B \in Nat \ {0} /\ B \in Nat
  BY CmNumbers
<1>2. /\ mem \in Seq(CmByte) /\ src \in Seq(CmByte) /\ Len(src) <= m /\ a \in Nat /\ m \in Nat /\ Len(src) \in Nat
      /\ o = IF inPlace THEN 0 ELSE Len(src)
  BY DEF Worked
<1>3. \A i \in 1..a : \A j \in 1..B : mem[o + (i - 1) * B + j] = res[i][j]
  BY DEF Worked
<1>4. \A p \in 1..Len(src) : (inPlace => p > x) => mem[p] = src[p]
  BY DEF Worked
<1>5. Len(blk) = B
  BY <1>1 DEF Blks
<1>6. /\ new \in Seq(CmByte) /\ Len(new) = m
      /\ \A p \in 1..m : new[p] = IF at < p /\ p <= at + B THEN blk[p - at] ELSE mem[p]
  BY <1>5 DEF WrittenAt
<1>7. x \in Nat /\ (a + 1) * B = x + B /\ a + 1 \in Nat /\ o \in Nat
  BY <1>1, <1>2
<1>8. at \in Nat /\ at + B <= m /\ o + x + B <= m
  <2> DEFINE z == (a + 1) * B
  <2>1. o + z <= m /\ z = x + B
    BY <1>7
  <2>2. o \in Nat /\ x \in Nat /\ m \in Nat /\ B \in Nat
    BY <1>1, <1>2, <1>7
  <2> HIDE DEF z, x, m, B
  <2> QED  BY <2>1, <2>2
<1>9. ASSUME NEW i \in 1..(a + 1), NEW j \in 1..B PROVE new[o + (i - 1) * B + j] = res[i][j]
  <2> DEFINE y == (i - 1) * B
             p == o + y + j
  <2>1. CASE i <= a
    <3>1. i \in 1..a
      BY <1>2, <2>1
    <3>2. y + j \in 1..x
      BY <1>2, <3>1, PlaceIn
    <3>3. mem[p] = res[i][j]
      BY <1>3, <3>1
    <3> HIDE DEF y, x, m
    <3>4. p \in 1..m /\ ~(at < p)
      <4>1. p = o + (y + j)
        <5>1. y \in Nat
          BY <1>1, <3>1 DEF y
        <5> QED  BY <1>7, <5>1
      <4> DEFINE z == y + j
      <4>2. z \in 1..x
        BY <3>2
      <4> HIDE DEF z
      <4>3. o + z \in 1..m /\ ~(at < o + z)
        BY <1>1, <1>2, <1>7, <1>8, <4>2
      <4> QED  BY <4>1, <4>3 DEF z
    <3> HIDE DEF p, at
    <3>5. new[p] = mem[p]
      BY <1>6, <3>4
    <3>6. new[p] = res[i][j]
      BY <3>3, <3>5
    <3> QED  BY <3>6 DEF p, y
  <2>2. CASE i = a + 1
    <3>1. y = x
      <4>1. i - 1 = a
        BY <1>2, <2>2
      <4> QED  BY <4>1
    <3> HIDE DEF y, x, m
    <3>2. p \in 1..m /\ at < p /\ p <= at + B /\ p - at = j
      BY <1>1, <1>2, <1>7, <1>8, <3>1
    <3> HIDE DEF p, at
    <3>3. new[p] = blk[j]
      BY <1>6, <3>2
    <3>4. new[p] = res[i][j]
      BY <2>2, <3>3
    <3> QED  BY <3>4 DEF p, y
  <2>3. i <= a \/ i = a + 1
    BY <1>2
  <2> QED  BY <2>1, <2>2, <2>3
<1>10. ASSUME NEW p \in 1..Len(src), inPlace => p > (a + 1) * B PROVE new[p] = src[p]
  <2> HIDE DEF x, m
  <2>1. p \in 1..m
    BY <1>2
  <2>2. ~(at < p /\ p <= at + B) /\ (inPlace => p > x)
    BY <1>1, <1>2, <1>7, <1>10
  <2> HIDE DEF at
  <2> QED  BY <1>4, <1>6, <2>1, <2>2
<1>11. \A p \in 1..Len(src) : (inPlace => p > (a + 1) * B) => new[p] = src[p]
  BY <1>10
<1> QED  BY <1>2, <1>6, <1>7, <1>9, <1>11 DEF Worked

LEMMA InputIs ==
  ASSUME NEW o, NEW inPlace, NEW src, NEW a, NEW res, Worked(cmMem, o, inPlace, src, a, res),
         (a + 1) * CmBlock <= Len(src)
  PROVE  InputBlock(a) = [j \in 1..CmBlock |-> src[a * CmBlock + j]] /\ InputBlock(a) \in Blks
<1> DEFINE B == CmBlock
           x == a * B
<1>1. B \in Nat \ {0} /\ B \in Nat
  BY CmNumbers
<1>2. /\ cmMem \in Seq(CmByte) /\ src \in Seq(CmByte) /\ Len(src) <= Len(cmMem) /\ a \in Nat /\ Len(src) \in Nat
      /\ Len(cmMem) \in Nat
  BY DEF Worked
<1>3. x \in Nat /\ (a + 1) * B = x + B
  BY <1>1, <1>2
<1>4. \A p \in 1..Len(src) : p > x => cmMem[p] = src[p]
  BY DEF Worked
<1>5. InputBlock(a) = SubSeq(cmMem, x + 1, (a + 1) * B)
  BY DEF InputBlock
<1> HIDE DEF x
<1>6. x + B <= Len(cmMem) /\ x + B <= Len(src)
  BY <1>1, <1>2, <1>3
<1>7. InputBlock(a) = [j \in 1..B |-> cmMem[x + j]] /\ InputBlock(a) \in Blks
  BY <1>2, <1>3, <1>5, <1>6, PartIs
<1>8. ASSUME NEW j \in 1..B PROVE cmMem[x + j] = src[x + j]
  <2>1. x + j \in 1..Len(src) /\ x + j > x
    BY <1>1, <1>2, <1>3, <1>6
  <2> QED  BY <1>4, <2>1
<1>9. InputBlock(a) = [j \in 1..B |-> src[x + j]]
  BY <1>7, <1>8
<1> QED  BY <1>7, <1>9 DEF x, B

-----------------------------------------------------------------------------
(* CFB1 *)

Binary == {0, 1}

LEMMA BitsOfByte ==
  ASSUME NEW x \in CmByte
  PROVE  (x \div 2) % 2 \in Binary /\ (x \div 1) % 2 \in Binary /\ 2 * ((x \div 2) % 2) + ((x \div 1) % 2) = x
<1>1. x = 0 \/ x = 1 \/ x = 2 \/ x = 3
  BY DEF CmByte
<1>2. 0 \div 2 = 0 /\ 1 \div 2 = 0 /\ 2 \div 2 = 1 /\ 3 \div 2 = 1
  OBVIOUS
<1>3. 0 \div 1 = 0 /\ 1 \div 1 = 1 /\ 2 \div 1 = 2 /\ 3 \div 1 = 3
  OBVIOUS
<1>4. 0 % 2 = 0 /\ 1 % 2 = 1 /\ 2 % 2 = 0 /\ 3 % 2 = 1
  OBVIOUS
<1> QED  BY <1>1, <1>2, <1>3, <1>4 DEF Binary

LEMMA ByteOfBits ==
  ASSUME NEW h \in Binary, NEW l \in Binary
  PROVE  2 * h + l \in CmByte /\ ((2 * h + l) \div 2) % 2 = h /\ ((2 * h + l) \div 1) % 2 = l
<1>1. (h = 0 \/ h = 1) /\ (l = 0 \/ l = 1)
  BY DEF Binary
<1>2. 0 \div 2 = 0 /\ 1 \div 2 = 0 /\ 2 \div 2 = 1 /\ 3 \div 2 = 1
  OBVIOUS
<1>3. 0 \div 1 = 0 /\ 1 \div 1 = 1 /\ 2 \div 1 = 2 /\ 3 \div 1 = 3
  OBVIOUS
<1>4. 0 % 2 = 0 /\ 1 % 2 = 1 /\ 2 % 2 = 0 /\ 3 % 2 = 1
  OBVIOUS
<1> QED  BY <1>1, <1>2, <1>3, <1>4 DEF CmByte

LEMMA BitPlace ==
  ASSUME NEW k \in 0..CmLast
  PROVE  /\ (k \div 2) + 1 \in 1..CmBlock
         /\ k = IF k % 2 = 0 THEN 2 * ((k \div 2) + 1) - 2 ELSE 2 * ((k \div 2) + 1) - 1
<1>1. CmBlock = 2 \/ CmBlock = 3
  BY CmNumbers
<1>2. k = 0 \/ k = 1 \/ k = 2 \/ k = 3 \/ ((k = 4 \/ k = 5) /\ CmBlock = 3)
  BY <1>1 DEF CmLast
<1>3. 0 \div 2 = 0 /\ 1 \div 2 = 0 /\ 2 \div 2 = 1 /\ 3 \div 2 = 1 /\ 4 \div 2 = 2 /\ 5 \div 2 = 2
  OBVIOUS
<1>4. 0 % 2 = 0 /\ 1 % 2 = 1 /\ 2 % 2 = 0 /\ 3 % 2 = 1 /\ 4 % 2 = 0 /\ 5 % 2 = 1
  OBVIOUS
<1> QED  BY <1>1, <1>2, <1>3, <1>4

LEMMA BitOfPlace ==
  ASSUME NEW i \in 1..CmBlock
  PROVE  /\ 2 * i - 2 \in 0..CmLast /\ (2 * i - 2) \div 2 = i - 1 /\ (2 * i - 2) % 2 = 0
         /\ 2 * i - 1 \in 0..CmLast /\ (2 * i - 1) \div 2 = i - 1 /\ (2 * i - 1) % 2 = 1
<1>1. i = 1 \/ i = 2 \/ (i = 3 /\ CmBlock = 3)
  BY CmNumbers
<1>2. CmBlock = 2 \/ CmBlock = 3
  BY CmNumbers
<1>3. 0 \div 2 = 0 /\ 1 \div 2 = 0 /\ 2 \div 2 = 1 /\ 3 \div 2 = 1 /\ 4 \div 2 = 2 /\ 5 \div 2 = 2
  OBVIOUS
<1>4. 0 % 2 = 0 /\ 1 % 2 = 1 /\ 2 % 2 = 0 /\ 3 % 2 = 1 /\ 4 % 2 = 0 /\ 5 % 2 = 1
  OBVIOUS
<1> QED  BY <1>1, <1>2, <1>3, <1>4 DEF CmLast

LEMMA BitIs ==
  ASSUME NEW b \in Blks
  PROVE  /\ \A k \in 0..CmLast : Bit(b, k) \in Binary
         /\ \A i \in 1..CmBlock : 2 * Bit(b, 2 * i - 2) + Bit(b, 2 * i - 1) = b[i]
<1>0. \A i \in 1..CmBlock : b[i] \in CmByte
  BY DEF Blks
<1>1. ASSUME NEW k \in 0..CmLast PROVE Bit(b, k) \in Binary
  <2> DEFINE i == (k \div 2) + 1
  <2>1. i \in 1..CmBlock
    BY BitPlace
  <2>2. Bit(b, k) = (b[i] \div (IF k % 2 = 0 THEN 2 ELSE 1)) % 2
    BY DEF Bit
  <2> HIDE DEF i
  <2>3. (b[i] \div 2) % 2 \in Binary /\ (b[i] \div 1) % 2 \in Binary
    BY <1>0, <2>1, BitsOfByte
  <2>4. CASE k % 2 = 0
    BY <2>2, <2>3, <2>4
  <2>5. CASE k % 2 # 0
    BY <2>2, <2>3, <2>5
  <2> QED  BY <2>4, <2>5
<1>2. ASSUME NEW i \in 1..CmBlock PROVE 2 * Bit(b, 2 * i - 2) + Bit(b, 2 * i - 1) = b[i]
  <2> DEFINE x == b[i]
             u == 2 * i - 2
             v == 2 * i - 1
  <2>1. (u \div 2) + 1 = i /\ u % 2 = 0 /\ (v \div 2) + 1 = i /\ v % 2 = 1
    <3>1. (i - 1) + 1 = i
      OBVIOUS
    <3> QED  BY <3>1, BitOfPlace
  <2> HIDE DEF u, v
  <2>2. Bit(b, u) = (x \div 2) % 2
    BY <2>1 DEF Bit
  <2>3. Bit(b, v) = (x \div 1) % 2
    BY <2>1 DEF Bit
  <2>4. x \in CmByte
    BY <1>0
  <2> HIDE DEF x
  <2>5. 2 * ((x \div 2) % 2) + ((x \div 1) % 2) = x
    BY <2>4, BitsOfByte
  <2>6. 2 * Bit(b, u) + Bit(b, v) = x
    BY <2>2, <2>3, <2>5
  <2> QED  BY <2>6 DEF u, v, x
<1> QED  BY <1>1, <1>2

LEMMA FromBitsIs ==
  ASSUME NEW bits, \A k \in 0..CmLast : bits[k] \in Binary
  PROVE  FromBits(bits) \in Blks /\ \A k \in 0..CmLast : Bit(FromBits(bits), k) = bits[k]
<1> DEFINE f == FromBits(bits)
<1>1. ASSUME NEW i \in 1..CmBlock
      PROVE  /\ f[i] \in CmByte /\ (f[i] \div 2) % 2 = bits[2 * i - 2] /\ (f[i] \div 1) % 2 = bits[2 * i - 1]
  <2> DEFINE h == bits[2 * i - 2]
             l == bits[2 * i - 1]
  <2>1. h \in Binary /\ l \in Binary
    BY BitOfPlace
  <2>2. f[i] = 2 * h + l
    BY DEF FromBits
  <2> HIDE DEF h, l, f
  <2>3. f[i] \in CmByte /\ (f[i] \div 2) % 2 = h /\ (f[i] \div 1) % 2 = l
    BY <2>1, <2>2, ByteOfBits
  <2> QED  BY <2>3 DEF h, l
<1>2. f \in Blks
  <2>1. f = [i \in 1..CmBlock |-> 2 * bits[2 * i - 2] + bits[2 * i - 1]]
    BY DEF FromBits
  <2> HIDE DEF f
  <2> QED  BY <1>1, <2>1 DEF Blks
<1> HIDE DEF f
<1>3. ASSUME NEW k \in 0..CmLast PROVE Bit(f, k) = bits[k]
  <2> DEFINE i == (k \div 2) + 1
  <2>1. i \in 1..CmBlock /\ k = IF k % 2 = 0 THEN 2 * i - 2 ELSE 2 * i - 1
    BY BitPlace
  <2>2. Bit(f, k) = (f[i] \div (IF k % 2 = 0 THEN 2 ELSE 1)) % 2
    BY DEF Bit
  <2> HIDE DEF i
  <2>3. CASE k % 2 = 0
    <3>1. (f[i] \div 2) % 2 = bits[2 * i - 2] /\ k = 2 * i - 2
      BY <1>1, <2>1, <2>3
    <3> QED  BY <2>2, <2>3, <3>1
  <2>4. CASE k % 2 # 0
    <3>1. (f[i] \div 1) % 2 = bits[2 * i - 1] /\ k = 2 * i - 1
      BY <1>1, <2>1, <2>4
    <3> QED  BY <2>2, <2>4, <3>1
  <2> QED  BY <2>3, <2>4
<1> QED  BY <1>2, <1>3 DEF f

LEMMA BitsBack ==
  ASSUME NEW b \in Blks, NEW bits, \A k \in 0..CmLast : bits[k] = Bit(b, k)
  PROVE  FromBits(bits) = b
<1>1. ASSUME NEW i \in 1..CmBlock PROVE 2 * bits[2 * i - 2] + bits[2 * i - 1] = b[i]
  <2>1. bits[2 * i - 2] = Bit(b, 2 * i - 2) /\ bits[2 * i - 1] = Bit(b, 2 * i - 1)
    BY BitOfPlace
  <2>2. 2 * Bit(b, 2 * i - 2) + Bit(b, 2 * i - 1) = b[i]
    BY BitIs
  <2> QED  BY <2>1, <2>2
<1>2. b = [i \in 1..CmBlock |-> b[i]]
  BY DEF Blks
<1> QED  BY <1>1, <1>2 DEF FromBits

LEMMA ShiftIs ==
  ASSUME NEW iv \in Blks, NEW bit \in Binary
  PROVE  ShiftedIn(iv, bit) \in Blks
<1> DEFINE bits == [k \in 0..CmLast |-> IF k = CmLast THEN bit ELSE Bit(iv, k + 1)]
<1>1. ASSUME NEW k \in 0..CmLast PROVE bits[k] \in Binary
  <2>1. CmLast \in Nat
    BY CmNumbers DEF CmLast
  <2>2. k # CmLast => k + 1 \in 0..CmLast
    BY <2>1
  <2>3. k # CmLast => Bit(iv, k + 1) \in Binary
    BY <2>2, BitIs
  <2> QED  BY <2>3
<1>2. ShiftedIn(iv, bit) = FromBits(bits)
  BY DEF ShiftedIn
<1> HIDE DEF bits
<1> QED  BY <1>1, <1>2, FromBitsIs

\* Two bits combined, twice.
LEMMA BitUndone ==
  ASSUME NEW a \in Binary, NEW b \in Binary
  PROVE  (a + b) % 2 \in Binary /\ (((a + b) % 2) + b) % 2 = a
<1>1. (a = 0 \/ a = 1) /\ (b = 0 \/ b = 1)
  BY DEF Binary
<1>2. 0 % 2 = 0 /\ 1 % 2 = 1 /\ 2 % 2 = 0
  OBVIOUS
<1> QED  BY <1>1, <1>2 DEF Binary

\* The bit that enters a register, and the one that leaves the cipher.
Entering(b, r, k, encrypt) == IF encrypt THEN (Bit(b, k) + Bit(Encrypted(r), 0)) % 2 ELSE Bit(b, k)

LEMMA EnteringIs ==
  ASSUME NEW b \in Blks, NEW r \in Blks, NEW k \in 0..CmLast, NEW encrypt
  PROVE  /\ Bit(Encrypted(r), 0) \in Binary /\ (Bit(b, k) + Bit(Encrypted(r), 0)) % 2 \in Binary
         /\ Entering(b, r, k, encrypt) \in Binary
<1>1. Encrypted(r) \in Blks
  BY Inverse2
<1>2. 0 \in 0..CmLast
  BY CmNumbers DEF CmLast
<1>3. Bit(Encrypted(r), 0) \in Binary /\ Bit(b, k) \in Binary
  BY <1>1, <1>2, BitIs
<1> DEFINE x == Bit(Encrypted(r), 0)
           y == Bit(b, k)
<1> HIDE DEF x, y
<1>4. (y + x) % 2 \in Binary
  BY <1>3, BitUndone DEF x, y
<1> QED  BY <1>3, <1>4 DEF x, y, Entering

LEMMA RegistersAre ==
  ASSUME cmChain \in Blks, NEW b \in Blks, NEW encrypt \in BOOLEAN
  PROVE  LET R == Registers(b, encrypt)
         IN  /\ R \in [0..(CmLast + 1) -> Blks] /\ R[0] = cmChain
             /\ \A k \in 0..CmLast : R[k + 1] = ShiftedIn(R[k], Entering(b, R[k], k, encrypt))
<1> DEFINE N == CmLast + 1
           Eq(g) == g = [k \in 0..(CmLast + 1) |->
                           IF k = 0 THEN cmChain
                           ELSE LET bit == Bit(b, k - 1)
                                IN  ShiftedIn(g[k - 1], IF encrypt THEN (bit + Bit(Encrypted(g[k - 1]), 0)) % 2 ELSE bit)]
           R == CHOOSE g : Eq(g)
           F == [kx \in Nat \X Blks |-> IF kx[1] \in 1..N THEN ShiftedIn(kx[2], Entering(b, kx[2], kx[1] - 1, encrypt)) ELSE kx[2]]
<1>1. Registers(b, encrypt) = R
  BY DEF Registers
<1>2. N \in Nat /\ CmLast \in Nat /\ N = CmLast + 1
  BY CmNumbers DEF CmLast
<1>3. F \in [Nat \X Blks -> Blks]
  <2>1. ASSUME NEW kx \in Nat \X Blks
        PROVE  (IF kx[1] \in 1..N THEN ShiftedIn(kx[2], Entering(b, kx[2], kx[1] - 1, encrypt)) ELSE kx[2]) \in Blks
    <3>1. kx[2] \in Blks
      OBVIOUS
    <3>2. ASSUME kx[1] \in 1..N PROVE ShiftedIn(kx[2], Entering(b, kx[2], kx[1] - 1, encrypt)) \in Blks
      <4> DEFINE k == kx[1] - 1
                 r == kx[2]
      <4>1. k \in 0..CmLast /\ r \in Blks
        BY <1>2, <3>1, <3>2
      <4> HIDE DEF k, r
      <4>2. Entering(b, r, k, encrypt) \in Binary
        BY <4>1, EnteringIs
      <4>3. ShiftedIn(r, Entering(b, r, k, encrypt)) \in Blks
        BY <4>1, <4>2, ShiftIs
      <4> QED  BY <4>3 DEF k, r
    <3> QED  BY <3>1, <3>2
  <2> QED  BY <2>1
<1>4. ASSUME NEW k \in 1..N, NEW x \in Blks PROVE F[<<k, x>>] = ShiftedIn(x, Entering(b, x, k - 1, encrypt))
  <2>1. <<k, x>> \in Nat \X Blks
    OBVIOUS
  <2> QED  BY <2>1
<1> HIDE DEF F, N
<1>5. \E g : Stepped(g, N, Blks, F, cmChain)
  BY <1>2, <1>3, Steps
<1>6. PICK g : Stepped(g, N, Blks, F, cmChain)
  BY <1>5
<1>7. g \in [0..N -> Blks] /\ g[0] = cmChain /\ \A k \in 1..N : g[k] = ShiftedIn(g[k - 1], Entering(b, g[k - 1], k - 1, encrypt))
  <2>1. g \in [0..N -> Blks] /\ g[0] = cmChain /\ \A k \in 1..N : g[k] = F[<<k, g[k - 1]>>]
    BY <1>6 DEF Stepped
  <2>2. \A k \in 1..N : g[k - 1] \in Blks
    BY <1>2, <2>1
  <2> QED  BY <1>4, <2>1, <2>2
<1>8. Eq(g)
  <2>1. ASSUME NEW k \in 0..(CmLast + 1)
        PROVE  g[k] = IF k = 0 THEN cmChain
                      ELSE LET bit == Bit(b, k - 1)
                           IN  ShiftedIn(g[k - 1], IF encrypt THEN (bit + Bit(Encrypted(g[k - 1]), 0)) % 2 ELSE bit)
    <3>1. CASE k = 0
      BY <1>7, <3>1
    <3>2. CASE k # 0
      <4>1. k \in 1..N
        BY <1>2, <3>2
      <4>2. g[k] = ShiftedIn(g[k - 1], Entering(b, g[k - 1], k - 1, encrypt))
        BY <1>7, <4>1
      <4> QED  BY <3>2, <4>2 DEF Entering
    <3> QED  BY <3>1, <3>2
  <2>2. g = [k \in 0..(CmLast + 1) |-> g[k]]
    BY <1>2, <1>7
  <2> QED  BY <2>1, <2>2, Zenon
<1>9. Eq(R)
  <2> HIDE DEF Eq
  <2> QED  BY <1>8, Zenon
<1> HIDE DEF R
<1>10. ASSUME NEW k \in 0..(CmLast + 1)
       PROVE  R[k] = IF k = 0 THEN cmChain
                     ELSE ShiftedIn(R[k - 1], Entering(b, R[k - 1], k - 1, encrypt))
  <2>1. R[k] = IF k = 0 THEN cmChain
                      ELSE LET bit == Bit(b, k - 1)
                           IN  ShiftedIn(R[k - 1], IF encrypt THEN (bit + Bit(Encrypted(R[k - 1]), 0)) % 2 ELSE bit)
    BY <1>9, Zenon
  <2> QED  BY <2>1 DEF Entering
<1>11. R = [k \in 0..(CmLast + 1) |-> R[k]]
  <2>1. DOMAIN R = 0..(CmLast + 1)
    BY <1>9, Zenon
  <2> QED  BY <1>9
<1> HIDE DEF Eq
<1>12. ASSUME NEW k \in 0..CmLast PROVE R[k + 1] = ShiftedIn(R[k], Entering(b, R[k], k, encrypt))
  <2> DEFINE m == k + 1
  <2>1. m \in 0..(CmLast + 1) /\ m # 0 /\ m - 1 = k
    BY <1>2
  <2> HIDE DEF m
  <2>2. R[m] = ShiftedIn(R[m - 1], Entering(b, R[m - 1], m - 1, encrypt))
    BY <1>10, <2>1
  <2>3. R[m] = ShiftedIn(R[k], Entering(b, R[k], k, encrypt))
    BY <2>1, <2>2
  <2> QED  BY <2>3 DEF m
<1>13. R[0] = cmChain
  <2>1. 0 \in 0..(CmLast + 1)
    BY <1>2
  <2> QED  BY <1>10, <2>1
<1>14. \A k \in 0..(CmLast + 1) : R[k] \in Blks
  <2> DEFINE P == {k \in Nat : R[k] \in Blks}
  <2>1. 0 \in P
    BY <1>13
  <2>2. ASSUME NEW k \in 0..(N - 1), k \in P PROVE k + 1 \in P
    <3>1. k \in 0..CmLast /\ R[k] \in Blks /\ k + 1 \in Nat
      BY <1>2, <2>2
    <3>2. Entering(b, R[k], k, encrypt) \in Binary
      BY <3>1, EnteringIs
    <3>3. R[k + 1] \in Blks
      BY <1>12, <3>1, <3>2, ShiftIs
    <3> QED  BY <3>1, <3>3
  <2> HIDE DEF P
  <2>3. \A k \in 0..N : k \in P
    BY <1>2, <2>1, <2>2, UpTo
  <2> QED  BY <1>2, <2>3 DEF P
<1>15. R \in [0..(CmLast + 1) -> Blks]
  BY <1>11, <1>14
<1> QED  BY <1>1, <1>12, <1>13, <1>15

\* R are the registers while the bits of c pass; b is what they make c of, and c of b.
Shifts(R, c) ==
  /\ R \in [0..(CmLast + 1) -> Blks] /\ R[0] = CmIv
  /\ \A k \in 0..CmLast : R[k + 1] = ShiftedIn(R[k], Bit(c, k))
Streamed(b, c) ==
  \E R : Shifts(R, c) /\ \A k \in 0..CmLast : Bit(c, k) = (Bit(b, k) + Bit(Encrypted(R[k]), 0)) % 2

LEMMA CfbTyped ==
  ASSUME cmChain \in Blks, NEW b \in Blks, NEW encrypt \in BOOLEAN
  PROVE  /\ Cfb(b, encrypt) \in Blks /\ Registers(b, encrypt)[CmLast + 1] \in Blks
         /\ \A k \in 0..CmLast : Bit(Cfb(b, encrypt), k) = (Bit(b, k) + Bit(Encrypted(Registers(b, encrypt)[k]), 0)) % 2
<1> DEFINE R == Registers(b, encrypt)
           bits == [k \in 0..CmLast |-> (Bit(b, k) + Bit(Encrypted(R[k]), 0)) % 2]
<1>1. R \in [0..(CmLast + 1) -> Blks]
  BY RegistersAre
<1>2. CmLast \in Nat
  BY CmNumbers DEF CmLast
<1>3. Cfb(b, encrypt) = FromBits(bits)
  BY DEF Cfb
<1> HIDE DEF R
<1>4. ASSUME NEW k \in 0..CmLast PROVE bits[k] \in Binary
  <2>1. R[k] \in Blks
    BY <1>1, <1>2
  <2>2. (Bit(b, k) + Bit(Encrypted(R[k]), 0)) % 2 \in Binary
    BY <2>1, EnteringIs
  <2> QED  BY <2>2
<1>5. \A k \in 0..CmLast : bits[k] = (Bit(b, k) + Bit(Encrypted(R[k]), 0)) % 2
  OBVIOUS
<1> HIDE DEF bits
<1>6. FromBits(bits) \in Blks /\ \A k \in 0..CmLast : Bit(FromBits(bits), k) = bits[k]
  BY <1>4, FromBitsIs
<1>7. R[CmLast + 1] \in Blks
  BY <1>1, <1>2
<1> QED  BY <1>3, <1>5, <1>6, <1>7 DEF R

LEMMA CfbSeals ==
  ASSUME cmChain = CmIv, NEW b \in Blks
  PROVE  Streamed(b, Cfb(b, TRUE))
<1> DEFINE R == Registers(b, TRUE)
           c == Cfb(b, TRUE)
<1>1. cmChain \in Blks
  BY CmNumbers
<1>2. /\ R \in [0..(CmLast + 1) -> Blks] /\ R[0] = cmChain
      /\ \A k \in 0..CmLast : R[k + 1] = ShiftedIn(R[k], Entering(b, R[k], k, TRUE))
  BY <1>1, RegistersAre
<1>3. \A k \in 0..CmLast : Bit(c, k) = (Bit(b, k) + Bit(Encrypted(R[k]), 0)) % 2
  BY <1>1, CfbTyped
<1> HIDE DEF R, c
<1>4. \A k \in 0..CmLast : R[k + 1] = ShiftedIn(R[k], Bit(c, k))
  BY <1>2, <1>3 DEF Entering
<1>5. Shifts(R, c)
  BY <1>2, <1>4 DEF Shifts
<1>6. Streamed(b, c)
  BY <1>3, <1>5 DEF Streamed
<1> QED  BY <1>6 DEF c

LEMMA CfbOpens ==
  ASSUME cmChain = CmIv, NEW b \in Blks, NEW c \in Blks, Streamed(b, c)
  PROVE  Cfb(c, FALSE) = b
<1> DEFINE Q == Registers(c, FALSE)
           bits == [k \in 0..CmLast |-> (Bit(c, k) + Bit(Encrypted(Q[k]), 0)) % 2]
<1>1. cmChain \in Blks /\ CmLast \in Nat
  BY CmNumbers DEF CmLast
<1>2. PICK R : Shifts(R, c) /\ \A k \in 0..CmLast : Bit(c, k) = (Bit(b, k) + Bit(Encrypted(R[k]), 0)) % 2
  BY DEF Streamed
<1>3. R \in [0..(CmLast + 1) -> Blks] /\ R[0] = CmIv /\ \A k \in 0..CmLast : R[k + 1] = ShiftedIn(R[k], Bit(c, k))
  BY <1>2 DEF Shifts
<1>4. Q[0] = cmChain /\ \A k \in 0..CmLast : Q[k + 1] = ShiftedIn(Q[k], Bit(c, k))
  <2>1. Q[0] = cmChain /\ \A k \in 0..CmLast : Q[k + 1] = ShiftedIn(Q[k], Entering(c, Q[k], k, FALSE))
    BY <1>1, RegistersAre
  <2> HIDE DEF Q
  <2> QED  BY <2>1 DEF Entering
<1>5. Cfb(c, FALSE) = FromBits(bits)
  BY DEF Cfb
<1> HIDE DEF Q
<1>6. ASSUME NEW k \in 0..CmLast PROVE Q[k] = R[k]
  <2> DEFINE P == {i \in Nat : Q[i] = R[i]}
  <2>1. 0 \in P
    BY <1>3, <1>4
  <2>2. ASSUME NEW i \in 0..(CmLast - 1), i \in P PROVE i + 1 \in P
    <3>1. i \in 0..CmLast /\ Q[i] = R[i] /\ i + 1 \in Nat
      BY <1>1, <2>2
    <3>2. Q[i + 1] = R[i + 1]
      BY <1>3, <1>4, <3>1
    <3> QED  BY <3>1, <3>2
  <2> HIDE DEF P
  <2>3. \A i \in 0..CmLast : i \in P
    BY <1>1, <2>1, <2>2, UpTo
  <2> QED  BY <2>3 DEF P
<1>7. ASSUME NEW k \in 0..CmLast PROVE bits[k] = Bit(b, k)
  <2> DEFINE x == Bit(Encrypted(Q[k]), 0)
             y == Bit(b, k)
  <2>1. Q[k] \in Blks
    BY <1>1, <1>3, <1>6
  <2>2. x \in Binary /\ y \in Binary
    BY <2>1, EnteringIs, BitIs
  <2>3. Bit(c, k) = (y + x) % 2
    BY <1>2, <1>6
  <2>4. bits[k] = (Bit(c, k) + x) % 2
    OBVIOUS
  <2> HIDE DEF x, y, bits
  <2>5. (((y + x) % 2) + x) % 2 = y
    BY <2>2, BitUndone
  <2>6. bits[k] = y
    BY <2>3, <2>4, <2>5
  <2> QED  BY <2>6 DEF y
<1> HIDE DEF bits
<1>8. FromBits(bits) = b
  BY <1>7, BitsBack
<1> QED  BY <1>5, <1>8

-----------------------------------------------------------------------------
(* What ECB and CBC make of a ciphertext *)

CipherBlock(s, i) == IF i = 0 THEN CmIv ELSE [j \in 1..CmBlock |-> s[(i - 1) * CmBlock + j]]
PlainOf(mode, s, i) ==
  IF mode = "CBC" THEN Xor(Decrypted(CipherBlock(s, i)), CipherBlock(s, i - 1)) ELSE Decrypted(CipherBlock(s, i))
Opening(mode, s, N) == [i \in 1..N |-> PlainOf(mode, s, i)]

LEMMA CipherTypedIs ==
  ASSUME NEW s \in Seq(CmByte), NEW N \in Nat, N * CmBlock <= Len(s), NEW mode
  PROVE  /\ \A i \in 0..N : CipherBlock(s, i) \in Blks
         /\ \A i \in 1..N : PlainOf(mode, s, i) \in Blks
<1>1. ASSUME NEW i \in 0..N PROVE CipherBlock(s, i) \in Blks
  <2>1. CASE i = 0
    BY <2>1, CmNumbers DEF CipherBlock
  <2>2. CASE i # 0
    <3>1. i \in 1..N
      BY <2>2
    <3>2. ASSUME NEW j \in 1..CmBlock PROVE s[(i - 1) * CmBlock + j] \in CmByte
      <4> DEFINE p == (i - 1) * CmBlock + j
                 z == N * CmBlock
      <4>1. p \in 1..z /\ z \in Nat
        BY <3>1, PlaceIn
      <4> HIDE DEF p, z
      <4>2. z <= Len(s) /\ p \in 1..Len(s)
        BY <4>1 DEF z
      <4>3. s[p] \in CmByte
        BY <4>2
      <4> QED  BY <4>3 DEF p
    <3> QED  BY <2>2, <3>2 DEF CipherBlock, Blks
  <2> QED  BY <2>1, <2>2
<1>2. ASSUME NEW i \in 1..N PROVE PlainOf(mode, s, i) \in Blks
  <2>1. i \in 0..N /\ i - 1 \in 0..N
    OBVIOUS
  <2>2. CipherBlock(s, i) \in Blks /\ CipherBlock(s, i - 1) \in Blks
    BY <1>1, <2>1
  <2>3. Decrypted(CipherBlock(s, i)) \in Blks
    BY <2>2, Inverse2
  <2>4. Xor(Decrypted(CipherBlock(s, i)), CipherBlock(s, i - 1)) \in Blks
    BY <2>2, <2>3, XorBlocks
  <2> QED  BY <2>3, <2>4 DEF PlainOf
<1> QED  BY <1>1, <1>2

\* What was sealed opens to the blocks of the text.
LEMMA Reopened ==
  ASSUME NEW t \in Seq(CmByte), NEW N \in Nat, NEW mode, NEW Cb, Seals(Cb, mode, t, N), NEW s, Spelled(s, N, Cb)
  PROVE  \A i \in 1..N : CipherBlock(s, i) = Cb[i] /\ PlainOf(mode, s, i) = PlainBlock(t, i)
<1>0. Cb \in [0..N -> Blks] /\ Cb[0] = CmIv
  BY DEF Seals
<1>1. ASSUME NEW i \in 0..N PROVE CipherBlock(s, i) = Cb[i]
  <2>1. CASE i = 0
    BY <1>0, <2>1 DEF CipherBlock
  <2>2. CASE i # 0
    <3>1. i \in 1..N
      BY <2>2
    <3>2. \A j \in 1..CmBlock : s[(i - 1) * CmBlock + j] = Cb[i][j]
      BY <3>1 DEF Spelled
    <3>3. Cb[i] = [j \in 1..CmBlock |-> Cb[i][j]]
      BY <1>0 DEF Blks
    <3> QED  BY <2>2, <3>2, <3>3 DEF CipherBlock
  <2> QED  BY <2>1, <2>2
<1>2. ASSUME NEW i \in 1..N PROVE PlainOf(mode, s, i) = PlainBlock(t, i)
  <2> DEFINE b == PlainBlock(t, i)
             x == Cb[i - 1]
  <2>1. i \in 0..N /\ i - 1 \in 0..N /\ i \in Nat \ {0}
    OBVIOUS
  <2>2. CipherBlock(s, i) = Cb[i] /\ CipherBlock(s, i - 1) = x /\ x \in Blks
    BY <1>0, <1>1, <2>1
  <2>3. Cb[i] = Encrypted(IF mode = "CBC" THEN Xor(b, x) ELSE b)
    BY DEF Seals
  <2>4. b \in Blks
    BY <2>1, PlainTyped
  <2> HIDE DEF b, x
  <2>5. Xor(b, x) \in Blks /\ Xor(Xor(b, x), x) = b
    BY <2>2, <2>4, XorBlocks
  <2>6. Decrypted(Encrypted(b)) = b /\ Decrypted(Encrypted(Xor(b, x))) = Xor(b, x)
    BY <2>4, <2>5, Inverse2
  <2>7. CASE mode = "CBC"
    <3>1. PlainOf(mode, s, i) = Xor(Decrypted(Cb[i]), x)
      BY <2>2, <2>7 DEF PlainOf
    <3> QED  BY <2>3, <2>5, <2>6, <2>7, <3>1 DEF b
  <2>8. CASE mode # "CBC"
    <3>1. PlainOf(mode, s, i) = Decrypted(Cb[i])
      BY <2>2, <2>8 DEF PlainOf
    <3> QED  BY <2>3, <2>6, <2>8, <3>1 DEF b
  <2> QED  BY <2>7, <2>8
<1>3. \A i \in 1..N : i \in 0..N
  OBVIOUS
<1> QED  BY <1>1, <1>2, <1>3

\* A text whose blocks are those that a ciphertext opens to is sealed to that again.
LEMMA Resealed ==
  ASSUME NEW s \in Seq(CmByte), NEW N \in Nat, Len(s) = N * CmBlock, NEW t \in Seq(CmByte),
         \A i \in 1..N : PlainBlock(t, i) = PlainOf("CBC", s, i)
  PROVE  LET Cb == [i \in 0..N |-> CipherBlock(s, i)]
         IN  Seals(Cb, "CBC", t, N) /\ Spelled(s, N, Cb)
<1> DEFINE Cb == [i \in 0..N |-> CipherBlock(s, i)]
<1>1. \A i \in 0..N : CipherBlock(s, i) \in Blks
  <2>1. N * CmBlock <= Len(s)
    OBVIOUS
  <2> QED  BY <2>1, CipherTypedIs
<1>2. Cb \in [0..N -> Blks] /\ Cb[0] = CmIv
  BY <1>1 DEF CipherBlock
<1>3. ASSUME NEW i \in 1..N PROVE Cb[i] = Encrypted(Xor(PlainBlock(t, i), Cb[i - 1]))
  <2> DEFINE c == CipherBlock(s, i)
             x == CipherBlock(s, i - 1)
  <2>1. i \in 0..N /\ i - 1 \in 0..N
    OBVIOUS
  <2>2. c \in Blks /\ x \in Blks /\ Cb[i] = c /\ Cb[i - 1] = x
    BY <1>1, <2>1
  <2>3. PlainBlock(t, i) = Xor(Decrypted(c), x)
    BY DEF PlainOf
  <2> HIDE DEF c, x, Cb
  <2>4. Decrypted(c) \in Blks /\ Encrypted(Decrypted(c)) = c
    BY <2>2, Inverse2
  <2>5. Xor(Xor(Decrypted(c), x), x) = Decrypted(c)
    BY <2>2, <2>4, XorBlocks
  <2> QED  BY <2>2, <2>3, <2>4, <2>5
<1>4. \A i \in 1..N : \A j \in 1..CmBlock : s[(i - 1) * CmBlock + j] = Cb[i][j]
  BY DEF CipherBlock
<1> HIDE DEF Cb
<1>5. Seals(Cb, "CBC", t, N)
  BY <1>2, <1>3 DEF Seals
<1>6. Spelled(s, N, Cb)
  BY <1>4 DEF Spelled
<1> QED  BY <1>5, <1>6 DEF Cb

-----------------------------------------------------------------------------
(* CipherCalls *)

LEMMA ProvidedIs ==
  ASSUME NEW input \in Seq(CmByte), NEW room \in Nat, room >= Len(input)
  PROVE  LET mem == Provided(input, room)
         IN  /\ mem \in Seq(CmByte) /\ Len(mem) = (IF cmCall.inPlace THEN 0 ELSE Len(input)) + room
             /\ \A p \in 1..Len(input) : mem[p] = input[p]
             /\ cmCall.inPlace /\ room = Len(input) => mem = input
<1> DEFINE l == Len(input)
           k == IF ~cmCall.inPlace THEN room ELSE IF room > l THEN room - l ELSE 0
           more == [i \in 1..k |-> 0]
           mem == input \o more
<1>1. l \in Nat /\ k \in Nat
  OBVIOUS
<1>2. l + k = (IF cmCall.inPlace THEN 0 ELSE l) + room /\ (cmCall.inPlace /\ room = l => k = 0)
  BY <1>1
<1> HIDE DEF k
<1>3. 0 \in CmByte
  BY DEF CmByte
<1>4. more \in Seq(CmByte) /\ Len(more) = k
  BY <1>1, <1>3
<1>5. k = 0 => more = << >>
  BY <1>1, <1>4
<1> HIDE DEF more
<1>6. mem \in Seq(CmByte) /\ Len(mem) = l + k /\ \A p \in 1..l : mem[p] = input[p]
  BY <1>1, <1>4
<1>7. k = 0 => mem = input
  BY <1>5
<1> HIDE DEF mem
<1>8. Provided(input, room) = mem
  BY DEF Provided, mem, more, k
<1> QED  BY <1>2, <1>6, <1>7, <1>8

\* The output of N blocks.
LEMMA CutIs ==
  ASSUME NEW mem, NEW o, NEW inPlace, NEW src, NEW N, NEW res, Worked(mem, o, inPlace, src, N, res),
         o + N * CmBlock <= Len(mem)
  PROVE  Spelled(SubSeq(mem, o + 1, o + N * CmBlock), N, res)
<1> DEFINE l == N * CmBlock
           m == Len(mem)
           t == SubSeq(mem, o + 1, o + l)
<1>1. mem \in Seq(CmByte) /\ N \in Nat /\ m \in Nat /\ o \in Nat
  BY DEF Worked
<1>2. l \in Nat
  BY <1>1, CmNumbers
<1>3. \A i \in 1..N : \A j \in 1..CmBlock : mem[o + (i - 1) * CmBlock + j] = res[i][j]
  BY DEF Worked
<1> HIDE DEF l
<1>4. o + l <= m
  BY DEF l
<1>5. t \in Seq(CmByte) /\ Len(t) = l /\ \A p \in 1..l : t[p] = mem[o + p]
  <2>1. (o + l) - (o + 1) + 1 = l /\ \A p \in 1..l : (o + 1) + p - 1 = o + p
    BY <1>1, <1>2
  <2>2. t = [p \in 1..((o + l) - (o + 1) + 1) |-> mem[(o + 1) + p - 1]]
    BY <1>1, <1>2
  <2>3. t = [p \in 1..l |-> mem[o + p]]
    BY <2>1, <2>2
  <2>4. \A p \in 1..l : mem[o + p] \in CmByte
    BY <1>1, <1>2, <1>4
  <2> HIDE DEF t, l, m
  <2>5. t \in Seq(CmByte) /\ Len(t) = l
    BY <1>2, <2>3, <2>4
  <2>6. \A p \in 1..l : t[p] = mem[o + p]
    BY <2>3
  <2> QED  BY <2>5, <2>6
<1> HIDE DEF t, m
<1>6. ASSUME NEW i \in 1..N, NEW j \in 1..CmBlock PROVE t[(i - 1) * CmBlock + j] = res[i][j]
  <2> DEFINE y == (i - 1) * CmBlock
             p == y + j
  <2>1. p \in 1..l /\ y \in Nat
    BY <1>1, PlaceIn DEF l
  <2>2. mem[o + y + j] = res[i][j]
    BY <1>3
  <2> HIDE DEF y
  <2>3. o + p = o + y + j
    BY <1>1, <2>1
  <2> HIDE DEF p
  <2>4. t[p] = res[i][j]
    BY <1>5, <2>1, <2>2, <2>3
  <2> QED  BY <2>4 DEF p, y
<1>7. Spelled(t, N, res)
  BY <1>5, <1>6 DEF Spelled, l
<1> QED  BY <1>7 DEF t, l

\* The next block to encrypt, or the last one of a padded text.
LEMMA PlainRead ==
  ASSUME NEW o, NEW inPlace, NEW res, Worked(cmMem, o, inPlace, cmPlain, cmAt, res), cmLen = Len(cmPlain)
  PROVE  /\ cmAt < NumBlocks => InputBlock(cmAt) = PlainBlock(cmPlain, cmAt + 1) /\ InputBlock(cmAt) \in Blks
         /\ cmAt = NumBlocks => LastPlain = PlainBlock(cmPlain, cmAt + 1) /\ LastPlain \in Blks
<1> DEFINE B == CmBlock
           N == NumBlocks
           x == cmAt * B
           l == Len(cmPlain)
           b == PlainBlock(cmPlain, cmAt + 1)
<1>1. B \in Nat \ {0} /\ B \in Nat
  BY CmNumbers
<1>2. /\ cmMem \in Seq(CmByte) /\ cmPlain \in Seq(CmByte) /\ l <= Len(cmMem) /\ cmAt \in Nat /\ l \in Nat
      /\ Len(cmMem) \in Nat
  BY DEF Worked
<1>3. \A p \in 1..l : p > x => cmMem[p] = cmPlain[p]
  BY DEF Worked
<1>4. N = l \div B
  BY DEF NumBlocks
<1>5. N \in Nat /\ N * B \in Nat /\ N * B <= l /\ (N + 1) * B = N * B + B /\ (N + 1) * B - l \in 1..B /\ l - N * B \in 0..(B - 1)
  BY <1>2, <1>4, MoreIs
<1>6. x \in Nat /\ (cmAt + 1) * B = x + B /\ cmAt + 1 - 1 = cmAt
  BY <1>1, <1>2
<1>7. \A j \in 1..B : b[j] = IF x + j <= l THEN cmPlain[x + j] ELSE (N + 1) * B - l
  <2>1. b = [j \in 1..B |-> PlainByte(cmPlain, x + j)]
    <3> DEFINE m == cmAt + 1
    <3>1. m - 1 = cmAt
      BY <1>2
    <3> HIDE DEF m
    <3>2. PlainBlock(cmPlain, m) = [j \in 1..B |-> PlainByte(cmPlain, (m - 1) * B + j)]
      BY DEF PlainBlock
    <3>3. PlainBlock(cmPlain, m) = [j \in 1..B |-> PlainByte(cmPlain, cmAt * B + j)]
      BY <3>1, <3>2
    <3> QED  BY <3>3 DEF m
  <2> HIDE DEF b, x
  <2>2. \A j \in 1..B : b[j] = PlainByte(cmPlain, x + j)
    BY <2>1
  <2> HIDE DEF N
  <2>3. \A p : PlainByte(cmPlain, p) = IF p <= l THEN cmPlain[p] ELSE (N + 1) * B - l
    BY <1>4 DEF PlainByte
  <2> QED  BY <2>2, <2>3
<1>8. b \in Blks
  <2>1. cmAt + 1 \in Nat \ {0}
    BY <1>2
  <2> QED  BY <1>2, <2>1, PlainTyped
<1>9. b = [j \in 1..B |-> b[j]]
  BY <1>8 DEF Blks
<1>10. ASSUME cmAt < N PROVE InputBlock(cmAt) = b
  <2>1. (cmAt + 1) * B <= N * B
    <3>1. cmAt * B + B <= N * B
      BY <1>1, <1>2, <1>5, <1>10, NextMultiple
    <3> QED  BY <1>6, <3>1
  <2> DEFINE z == N * B
             w == (cmAt + 1) * B
  <2>2. w <= z /\ z <= l /\ w = x + B /\ z \in Nat
    BY <1>5, <1>6, <2>1
  <2> HIDE DEF z, w, b, x
  <2>3. w <= l /\ x + B <= l
    BY <1>1, <1>2, <1>6, <2>2
  <2>4. InputBlock(cmAt) = [j \in 1..B |-> cmPlain[cmAt * B + j]]
    BY <2>3, InputIs DEF w
  <2>5. \A j \in 1..B : b[j] = cmPlain[x + j]
    <3>1. \A j \in 1..B : x + j <= l
      BY <1>1, <1>2, <1>6, <2>3
    <3> QED  BY <1>7, <3>1
  <2> QED  BY <1>9, <2>4, <2>5 DEF x
<1>11. ASSUME cmAt = N PROVE LastPlain = b
  <2> DEFINE rest == SubSeq(cmMem, x + 1, l)
             r == l - x
             k == B - r
             tail == [i \in 1..k |-> k]
  <2>1. r \in 0..(B - 1) /\ k \in 1..B /\ (N + 1) * B - l = k
    BY <1>1, <1>2, <1>5, <1>11
  <2>2. LastPlain = rest \o [i \in 1..(B - Len(rest)) |-> B - Len(rest)]
    BY <1>11 DEF LastPlain
  <2> HIDE DEF x, b, N
  <2>3. rest \in Seq(CmByte) /\ Len(rest) = r /\ \A j \in 1..r : rest[j] = cmPlain[x + j]
    <3>1. l - (x + 1) + 1 = r /\ \A j \in 1..r : (x + 1) + j - 1 = x + j
      BY <1>1, <1>2, <1>6, <2>1
    <3>2. rest = [j \in 1..(l - (x + 1) + 1) |-> cmMem[(x + 1) + j - 1]]
      BY <1>2, <1>6, <2>1
    <3>3. rest = [j \in 1..r |-> cmMem[x + j]]
      BY <3>1, <3>2
    <3>4. ASSUME NEW j \in 1..r PROVE cmMem[x + j] = cmPlain[x + j] /\ cmPlain[x + j] \in CmByte
      <4>1. x + j \in 1..l /\ x + j > x
        BY <1>1, <1>2, <1>6, <2>1
      <4> QED  BY <1>2, <1>3, <4>1
    <3>5. r \in Nat
      BY <2>1
    <3> HIDE DEF rest, r
    <3> QED  BY <3>3, <3>4, <3>5
  <2> HIDE DEF rest
  <2>4. LastPlain = rest \o tail
    BY <2>2, <2>3
  <2>a. r \in Nat /\ k \in Nat /\ r + k = B
    BY <1>1, <2>1
  <2>b. k \in CmByte
    BY <2>1, CmNumbers DEF CmByte
  <2> HIDE DEF r, k
  <2>5. tail \in Seq(CmByte) /\ Len(tail) = k /\ \A i \in 1..k : tail[i] = k
    BY <2>a, <2>b
  <2> HIDE DEF tail
  <2>6. LastPlain = [j \in 1..B |-> IF j <= r THEN rest[j] ELSE tail[j - r]]
    <3> DEFINE t == rest \o tail
    <3>1. t \in Seq(CmByte) /\ Len(t) = B
      BY <2>3, <2>5, <2>a
    <3>2. \A j \in 1..B : t[j] = IF j <= r THEN rest[j] ELSE tail[j - r]
      BY <2>3, <2>5, <2>a
    <3> HIDE DEF t
    <3>3. t = [j \in 1..B |-> t[j]]
      BY <3>1
    <3>4. t = [j \in 1..B |-> IF j <= r THEN rest[j] ELSE tail[j - r]]
      BY <3>2, <3>3
    <3> QED  BY <2>4, <3>4 DEF t
  <2>7. ASSUME NEW j \in 1..B PROVE (IF j <= r THEN rest[j] ELSE tail[j - r]) = b[j]
    <3>1. j <= r <=> x + j <= l
      BY <1>2, <1>6, <2>1 DEF r
    <3>2. CASE j <= r
      <4>1. j \in 1..r
        BY <2>a, <3>2
      <4> QED  BY <1>7, <2>3, <3>1, <3>2, <4>1
    <3>3. CASE ~(j <= r)
      <4>1. j - r \in 1..k
        BY <2>a, <3>3
      <4> QED  BY <1>7, <2>1, <2>5, <3>1, <3>3, <4>1
    <3> QED  BY <3>2, <3>3
  <2> QED  BY <1>9, <2>6, <2>7
<1> QED  BY <1>8, <1>10, <1>11

-----------------------------------------------------------------------------
(* What comes back *)

\* text is what the blocks that sealed opens to leave without their padding.
TextOf(mode, sealed, text) ==
  LET N == Len(sealed) \div CmBlock
      z == PlainOf(mode, sealed, N)[CmBlock]
  IN  /\ sealed \in Seq(CmByte) /\ text \in Seq(CmByte) /\ N >= 1 /\ Len(sealed) = N * CmBlock
      /\ z \in 0..CmBlock /\ Len(text) = N * CmBlock - z
      /\ \A i \in 1..N : \A j \in 1..CmBlock :
           (i - 1) * CmBlock + j <= Len(text) => text[(i - 1) * CmBlock + j] = PlainOf(mode, sealed, i)[j]
      /\ mode = "CBC" => z >= 1 /\ \A j \in (CmBlock - z + 1)..CmBlock : PlainOf(mode, sealed, N)[j] = z

LEMMA WholeBlocks ==
  ASSUME NEW N \in Nat
  PROVE  N * CmBlock \in Nat /\ (N * CmBlock) \div CmBlock = N /\ (N * CmBlock) % CmBlock = 0
<1> DEFINE l == N * CmBlock
           q == l \div CmBlock
           r == l % CmBlock
           x == q * CmBlock
<1>1. CmBlock \in Nat \ {0} /\ CmBlock \in Nat
  BY CmNumbers
<1>2. l \in Nat
  BY <1>1
<1>3. l = N * CmBlock + 0
  BY <1>2
<1>4. 0 \in 0..(CmBlock - 1)
  BY <1>1
<1> HIDE DEF l
<1>5. q = N
  BY <1>1, <1>2, <1>3, <1>4, DividedAs
<1>6. q \in Nat /\ r \in 0..(CmBlock - 1) /\ l = x + r
  BY <1>1, <1>2, Divided
<1>7. x = l
  BY <1>3, <1>5, <1>2 DEF l
<1> HIDE DEF x, r, q
<1>8. r = 0
  BY <1>1, <1>2, <1>6, <1>7
<1> QED  BY <1>2, <1>5, <1>8 DEF q, r, l

\* N blocks hold t and at least one byte more.
MorePadded(t, N) == N = (Len(t) \div CmBlock) + 1

\* The last block of a padded text ends in as many bytes of that number.
LEMMA PaddingIs ==
  ASSUME NEW t \in Seq(CmByte), NEW N, MorePadded(t, N)
  PROVE  LET b == PlainBlock(t, N)
             z == N * CmBlock - Len(t)
         IN  N \in Nat \ {0} /\ z \in 1..CmBlock /\ b[CmBlock] = z /\ \A j \in (CmBlock - z + 1)..CmBlock : b[j] = z
<1> DEFINE B == CmBlock
           l == Len(t)
           q == l \div B
           w == q * B
           v == (q + 1) * B
           x == (N - 1) * B
           y == N * B
           z == v - l
           b == PlainBlock(t, N)
<1>1. B \in Nat \ {0} /\ B \in Nat /\ l \in Nat
  BY CmNumbers
<1>2. N = q + 1
  BY DEF MorePadded
<1>3. q \in Nat /\ w \in Nat /\ v = w + B /\ z \in 1..B
  BY <1>1, MoreIs
<1>4. \A p : PlainByte(t, p) = IF p <= l THEN t[p] ELSE z
  BY DEF PlainByte
<1>5. \A j \in 1..B : b[j] = PlainByte(t, x + j)
  BY DEF PlainBlock
<1> HIDE DEF q, b
<1>6. N \in Nat \ {0} /\ N - 1 = q
  <2> HIDE DEF w, v, z
  <2> QED  BY <1>2, <1>3
<1>7. y = v /\ x = w
  BY <1>2, <1>6
<1> HIDE DEF x, y, w, v
<1>8. z = v - l
  OBVIOUS
<1> HIDE DEF z, l, B
<1>9. ASSUME NEW j \in (B - z + 1)..B PROVE b[j] = z
  <2>1. j \in 1..B /\ ~(x + j <= l)
    BY <1>1, <1>3, <1>7, <1>8
  <2> QED  BY <1>4, <1>5, <2>1
<1>10. B \in (B - z + 1)..B
  BY <1>1, <1>3
<1>11. b[B] = z
  BY <1>9, <1>10
<1>12. z = y - l
  BY <1>7, <1>8
<1> QED  BY <1>3, <1>6, <1>9, <1>11, <1>12 DEF B, l, b, y

\* What a padded text was sealed to comes back as that text.
LEMMA TextBack ==
  ASSUME NEW t \in Seq(CmByte), NEW mode, NEW Cb, NEW N, MorePadded(t, N), Seals(Cb, mode, t, N),
         NEW s, Spelled(s, N, Cb), NEW text, TextOf(mode, s, text)
  PROVE  text = t
<1> DEFINE B == CmBlock
           l == Len(t)
           y == N * B
           z == y - l
<1>1. N \in Nat \ {0} /\ z \in 1..B /\ PlainBlock(t, N)[B] = z
  BY PaddingIs
<1> HIDE DEF z
<1>2. N \in Nat /\ N \in 1..N
  BY <1>1
<1>3. Len(s) \div B = N
  <2>1. Len(s) = y
    BY DEF Spelled
  <2>2. y \div B = N
    BY <1>2, WholeBlocks
  <2> HIDE DEF y
  <2> QED  BY <2>1, <2>2
<1>4. \A i \in 1..N : PlainOf(mode, s, i) = PlainBlock(t, i)
  BY <1>2, Reopened
<1>5. PlainOf(mode, s, N)[B] = z
  BY <1>1, <1>2, <1>4
<1>6. /\ text \in Seq(CmByte) /\ Len(text) = y - z
      /\ \A i \in 1..N : \A j \in 1..B :
           (i - 1) * B + j <= Len(text) => text[(i - 1) * B + j] = PlainOf(mode, s, i)[j]
  BY <1>3, <1>5 DEF TextOf
<1>7. y \in Nat
  BY <1>2, CmNumbers
<1>8. l \in Nat /\ B \in Nat
  BY CmNumbers
<1>a. z = y - l
  BY DEF z
<1>b. \A p \in 1..y : \E i \in 1..N : \E j \in 1..B : p = (i - 1) * B + j
  BY <1>2, PlaceOf
<1> HIDE DEF y, l
<1>9. Len(text) = l /\ \A p \in 1..l : p \in 1..y
  BY <1>1, <1>6, <1>7, <1>8, <1>a
<1>10. ASSUME NEW p \in 1..l PROVE text[p] = t[p]
  <2>0. p \in 1..y
    BY <1>9
  <2>1. PICK i \in 1..N : \E j \in 1..B : p = (i - 1) * B + j
    BY <1>b, <2>0
  <2>2. PICK j \in 1..B : p = (i - 1) * B + j
    BY <2>1
  <2> DEFINE x == (i - 1) * B
  <2>3. x + j <= Len(text) => text[x + j] = PlainOf(mode, s, i)[j]
    BY <1>6
  <2>4. PlainBlock(t, i)[j] = PlainByte(t, x + j)
    BY DEF PlainBlock
  <2>5. p = x + j
    BY <2>2
  <2> HIDE DEF x
  <2>6. PlainByte(t, p) = t[p]
    BY DEF PlainByte, l
  <2> QED  BY <1>4, <1>9, <2>3, <2>4, <2>5, <2>6
<1>11. t = [p \in 1..l |-> t[p]]
  BY DEF l
<1>12. text = [p \in 1..l |-> text[p]]
  BY <1>6, <1>9
<1> QED  BY <1>10, <1>11, <1>12

\* The whole blocks of an unpadded text come back.
LEMMA WholeBack ==
  ASSUME NEW t \in Seq(CmByte), NEW mode, NEW Cb, NEW N, N = Len(t) \div CmBlock, Seals(Cb, mode, t, N),
         NEW s, Spelled(s, N, Cb), NEW text, Spelled(text, N, Opening(mode, s, N))
  PROVE  text = SubSeq(t, 1, N * CmBlock)
<1> DEFINE B == CmBlock
           l == Len(t)
           y == N * B
           f == SubSeq(t, 1, y)
<1>1. N \in Nat /\ y \in Nat /\ y <= l /\ l \in Nat
  BY MoreIs
<1>2. \A i \in 1..N : PlainOf(mode, s, i) = PlainBlock(t, i)
  BY <1>1, Reopened
<1> HIDE DEF y
<1>3. f \in Seq(CmByte) /\ Len(f) = y /\ \A p \in 1..y : f[p] = t[p]
  BY <1>1
<1> HIDE DEF f
<1>4. ASSUME NEW i \in 1..N, NEW j \in 1..B PROVE f[(i - 1) * B + j] = Opening(mode, s, N)[i][j]
  <2> DEFINE x == (i - 1) * B
  <2>1. x + j \in 1..y
    BY <1>1, PlaceIn DEF y
  <2>2. PlainBlock(t, i)[j] = PlainByte(t, x + j)
    BY DEF PlainBlock
  <2> HIDE DEF x
  <2> DEFINE p == x + j
  <2>3. p \in 1..y
    BY <2>1
  <2> HIDE DEF p
  <2>4. PlainByte(t, p) = t[p]
    BY <1>1, <2>3 DEF PlainByte
  <2>5. f[p] = PlainBlock(t, i)[j]
    BY <1>3, <2>2, <2>3, <2>4 DEF p
  <2>6. Opening(mode, s, N)[i] = PlainBlock(t, i)
    BY <1>2 DEF Opening
  <2> QED  BY <2>5, <2>6 DEF p, x
<1>5. Spelled(f, N, Opening(mode, s, N))
  BY <1>3, <1>4 DEF Spelled, y
<1> QED  BY <1>1, <1>5, SameText DEF f, y

\* The bytes of one block.
LEMMA OneBack ==
  ASSUME NEW t \in Seq(CmByte), Len(t) >= CmBlock, NEW text \in Seq(CmByte), Len(text) = CmBlock,
         CipherBlock(text, 1) = PlainBlock(t, 1)
  PROVE  text = SubSeq(t, 1, CmBlock)
<1> DEFINE B == CmBlock
           f == SubSeq(t, 1, B)
<1>1. B \in Nat /\ B >= 1 /\ Len(t) \in Nat /\ (1 - 1) * B = 0
  BY CmNumbers
<1>2. \A j \in 1..B : f[j] = t[j]
  BY <1>1
<1>3. f = [j \in 1..B |-> f[j]] /\ text = [j \in 1..B |-> text[j]]
  BY <1>1
<1> HIDE DEF f
<1>4. \A j \in 1..B : CipherBlock(text, 1)[j] = text[j]
  <2>1. \A j \in 1..B : (1 - 1) * B + j = j
    BY <1>1
  <2>2. \A j \in 1..B : CipherBlock(text, 1)[j] = text[(1 - 1) * B + j]
    BY DEF CipherBlock
  <2> QED  BY <2>1, <2>2
<1>5. \A j \in 1..B : PlainBlock(t, 1)[j] = t[j]
  <2>1. \A j \in 1..B : (1 - 1) * B + j = j /\ j <= Len(t)
    BY <1>1
  <2>2. \A j \in 1..B : PlainBlock(t, 1)[j] = PlainByte(t, (1 - 1) * B + j)
    BY DEF PlainBlock
  <2>3. \A j \in 1..B : PlainByte(t, j) = t[j]
    BY <2>1 DEF PlainByte
  <2> QED  BY <2>1, <2>2, <2>3
<1>6. \A j \in 1..B : text[j] = f[j]
  BY <1>2, <1>4, <1>5
<1> QED  BY <1>3, <1>6 DEF f

\* A padded text opens to a last block with padding.
LEMMA PaddingBack ==
  ASSUME NEW t \in Seq(CmByte), NEW mode, NEW Cb, NEW N, MorePadded(t, N), Seals(Cb, mode, t, N),
         NEW s, Spelled(s, N, Cb)
  PROVE  LET b == PlainOf(mode, s, N)
             z == b[CmBlock]
         IN  z \in 1..CmBlock /\ \A j \in (CmBlock - z + 1)..CmBlock : b[j] = z
<1> DEFINE b == PlainOf(mode, s, N)
           z == N * CmBlock - Len(t)
<1>1. /\ N \in Nat \ {0} /\ z \in 1..CmBlock /\ PlainBlock(t, N)[CmBlock] = z
      /\ \A j \in (CmBlock - z + 1)..CmBlock : PlainBlock(t, N)[j] = z
  BY PaddingIs
<1> HIDE DEF z
<1>2. N \in Nat /\ N \in 1..N
  BY <1>1
<1>3. b = PlainBlock(t, N)
  BY <1>2, Reopened
<1> HIDE DEF b
<1> QED  BY <1>1, <1>3 DEF b

\* What CBC has opened and found padded would be sealed to the same bytes.
LEMMA TextPadded ==
  ASSUME cmCall.mode = "CBC", cmCall.pad = TRUE, NEW s, NEW text, TextOf("CBC", s, text)
  PROVE  Chained(text) = s
<1> DEFINE B == CmBlock
           N == Len(s) \div B
           y == N * B
           b == PlainOf("CBC", s, N)
           z == b[B]
           l == Len(text)
           q == N - 1
           x == q * B
<1>1. /\ s \in Seq(CmByte) /\ text \in Seq(CmByte) /\ N >= 1 /\ Len(s) = y
      /\ z \in 0..B /\ l = y - z
  BY DEF TextOf
<1>2. \A i \in 1..N : \A j \in 1..B : (i - 1) * B + j <= l => text[(i - 1) * B + j] = PlainOf("CBC", s, i)[j]
  BY DEF TextOf
<1>3. z >= 1 /\ \A j \in (B - z + 1)..B : b[j] = z
  BY DEF TextOf
<1>4. N \in Nat
  BY <1>1, MoreIs
<1>5. B \in Nat \ {0} /\ B \in Nat
  BY CmNumbers
<1> HIDE DEF N
<1>6. N \in Nat \ {0} /\ q \in Nat /\ N = q + 1
  BY <1>1, <1>4
<1>7. x \in Nat /\ y = x + B /\ y \in Nat
  BY <1>5, <1>6
<1>8. \A i \in 1..N : \A j \in 1..B : PlainBlock(text, i)[j] = PlainByte(text, (i - 1) * B + j)
  BY DEF PlainBlock
<1> HIDE DEF z, l
<1>9. z \in 1..B /\ l \in Nat /\ l = x + (B - z) /\ B - z \in 0..(B - 1)
  <2> HIDE DEF x, y, b
  <2> QED  BY <1>1, <1>3, <1>5, <1>7
<1>10. l \div B = q
  <2> DEFINE e == B - z
  <2>1. l = q * B + e /\ e \in 0..(B - 1)
    BY <1>9
  <2> HIDE DEF e, q
  <2> QED  BY <1>5, <1>6, <1>9, <2>1, DividedAs
<1>11. \A p : PlainByte(text, p) = IF p <= l THEN text[p] ELSE y - l
  <2>1. \A p : PlainByte(text, p) = IF p <= l THEN text[p] ELSE ((l \div B) + 1) * B - l
    BY DEF PlainByte, l
  <2> HIDE DEF q
  <2>2. ((l \div B) + 1) * B = y
    BY <1>6, <1>10
  <2> HIDE DEF y
  <2> QED  BY <2>1, <2>2
<1>12. y - l = z
  <2> HIDE DEF x, y
  <2> QED  BY <1>1, <1>7, <1>9
<1>13. ASSUME NEW i \in 1..N PROVE PlainBlock(text, i) = PlainOf("CBC", s, i)
  <2>1. ASSUME NEW j \in 1..B PROVE PlainBlock(text, i)[j] = PlainOf("CBC", s, i)[j]
    <3> DEFINE w == (i - 1) * B
               p == w + j
    <3>1. PlainBlock(text, i)[j] = IF p <= l THEN text[p] ELSE z
      BY <1>8, <1>11, <1>12
    <3>2. p <= l => text[p] = PlainOf("CBC", s, i)[j]
      BY <1>2
    <3>3. ASSUME ~(p <= l) PROVE i = N /\ j \in (B - z + 1)..B
      <4>1. CASE i <= q
        <5>1. i \in 1..q
          BY <1>6, <4>1
        <5>2. p \in 1..x
          BY <1>6, <5>1, PlaceIn
        <5> HIDE DEF p, x
        <5>3. B - z >= 0 /\ l \in Nat /\ l = x + (B - z) /\ x \in Nat /\ B - z \in Nat
          BY <1>7, <1>9
        <5> DEFINE e == B - z
        <5> HIDE DEF e
        <5>4. ~(p <= l)
          BY <3>3
        <5>5. FALSE
          BY <5>2, <5>3, <5>4 DEF e
        <5> QED  BY <5>5
      <4>2. CASE i = N
        <5>1. w = x
          BY <4>2
        <5> HIDE DEF w, x
        <5>2. j \in (B - z + 1)..B
          BY <1>5, <1>7, <1>9, <3>3, <5>1
        <5> QED  BY <4>2, <5>2
      <4>3. i <= q \/ i = N
        BY <1>6
      <4> QED  BY <4>1, <4>2, <4>3
    <3> HIDE DEF p
    <3>4. ~(p <= l) => PlainOf("CBC", s, i)[j] = z
      BY <1>3, <3>3
    <3> QED  BY <3>1, <3>2, <3>4
  <2>2. PlainBlock(text, i) \in Blks
    BY <1>1, <1>4, PlainTyped
  <2>3. PlainOf("CBC", s, i) \in Blks
    <3>1. N * CmBlock <= Len(s)
      BY <1>1, <1>7
    <3> QED  BY <1>1, <1>4, <3>1, CipherTypedIs
  <2> DEFINE u == PlainBlock(text, i)
             v == PlainOf("CBC", s, i)
  <2>4. u \in Blks /\ v \in Blks /\ \A j \in 1..B : u[j] = v[j]
    BY <2>1, <2>2, <2>3
  <2> HIDE DEF u, v
  <2>5. u = [j \in 1..B |-> u[j]] /\ v = [j \in 1..B |-> v[j]]
    BY <2>4 DEF Blks
  <2>6. u = v
    BY <2>4, <2>5
  <2> QED  BY <2>6 DEF u, v
<1> DEFINE Cb == [i \in 0..N |-> CipherBlock(s, i)]
<1>14. Seals(Cb, "CBC", text, N) /\ Spelled(s, N, Cb)
  <2>1. Len(s) = N * CmBlock
    BY <1>1
  <2> QED  BY <1>1, <1>4, <1>13, <2>1, Resealed
<1> HIDE DEF Cb
<1>15. N = Count(cmCall.pad, text)
  BY <1>6, <1>10 DEF Count, l
<1>16. Spelled(Chained(text), N, Cb)
  <2>1. Seals(Cb, cmCall.mode, text, N)
    BY <1>14
  <2> QED  BY <1>1, <1>6, <1>15, <2>1, ChainedIs
<1> QED  BY <1>4, <1>14, <1>16, SameText

-----------------------------------------------------------------------------
(* The steps of ECB and CBC *)

LEMMA SealedIs ==
  ASSUME cmCall.mode \in {"ECB", "CBC"}, NEW t, NEW N \in Nat, cmAt \in Nat, cmAt < N, NEW Cb, Seals(Cb, cmCall.mode, t, N),
         cmChain = Cb[cmAt], NEW b, b = PlainBlock(t, cmAt + 1)
  PROVE  SealedBlock(b) = Cb[cmAt + 1] /\ Cb[cmAt + 1] \in Blks
<1> DEFINE i == cmAt + 1
<1>1. i \in 1..N /\ i - 1 = cmAt
  OBVIOUS
<1> HIDE DEF i
<1>2. Cb[i] = Encrypted(IF cmCall.mode = "CBC" THEN Xor(PlainBlock(t, i), Cb[i - 1]) ELSE PlainBlock(t, i)) /\ Cb[i] \in Blks
  BY <1>1 DEF Seals
<1>3. b = PlainBlock(t, i)
  BY DEF i
<1>4. Cb[i] = Encrypted(IF cmCall.mode = "CBC" THEN Xor(b, cmChain) ELSE b)
  BY <1>1, <1>2, <1>3
<1>5. SealedBlock(b) = Cb[i]
  <2>1. CASE cmCall.mode = "CBC"
    BY <1>4, <2>1 DEF SealedBlock
  <2>2. CASE cmCall.mode = "ECB"
    BY <1>4, <2>2 DEF SealedBlock
  <2> QED  BY <2>1, <2>2
<1> QED  BY <1>2, <1>5 DEF i

LEMMA CipherRead ==
  ASSUME cmCall.mode \in {"ECB", "CBC"}, NEW o, NEW inPlace, NEW s, NEW N \in Nat, NEW res,
         Worked(cmMem, o, inPlace, s, cmAt, res), N * CmBlock <= Len(s), cmAt < N, cmChain = CipherBlock(s, cmAt)
  PROVE  /\ InputBlock(cmAt) = CipherBlock(s, cmAt + 1)
         /\ OpenedBlock(InputBlock(cmAt)) = PlainOf(cmCall.mode, s, cmAt + 1)
         /\ PlainOf(cmCall.mode, s, cmAt + 1) \in Blks
<1> DEFINE B == CmBlock
           i == cmAt + 1
           w == i * B
           y == N * B
           c == InputBlock(cmAt)
           x == cmAt * B
<1>1. B \in Nat \ {0} /\ B \in Nat
  BY CmNumbers
<1>2. cmAt \in Nat /\ s \in Seq(CmByte) /\ Len(s) \in Nat
  BY DEF Worked
<1>3. i \in 1..N /\ i \in Nat /\ i - 1 = cmAt /\ i # 0
  BY <1>2
<1>4. w <= y /\ w \in Nat /\ y \in Nat
  <2> HIDE DEF i
  <2>1. 1 \in 1..B
    BY <1>1
  <2> QED  BY <1>3, <2>1, PlaceIn
<1>5. w <= Len(s)
  <2>1. y <= Len(s)
    OBVIOUS
  <2> HIDE DEF w, y
  <2> QED  BY <1>2, <1>4, <2>1
<1>6. c = [j \in 1..B |-> s[x + j]]
  BY <1>5, InputIs
<1> HIDE DEF c, i
<1>7. CipherBlock(s, i) = [j \in 1..B |-> s[(i - 1) * B + j]]
  BY <1>3 DEF CipherBlock
<1>8. c = CipherBlock(s, i)
  BY <1>3, <1>6, <1>7
<1>9. PlainOf(cmCall.mode, s, i) \in Blks
  BY <1>2, <1>3, CipherTypedIs
<1>10. OpenedBlock(c) = PlainOf(cmCall.mode, s, i)
  <2>1. PlainOf(cmCall.mode, s, i) = IF cmCall.mode = "CBC" THEN Xor(Decrypted(c), cmChain) ELSE Decrypted(c)
    BY <1>3, <1>8 DEF PlainOf
  <2>2. CASE cmCall.mode = "CBC"
    BY <2>1, <2>2 DEF OpenedBlock
  <2>3. CASE cmCall.mode = "ECB"
    BY <2>1, <2>3 DEF OpenedBlock
  <2> QED  BY <2>2, <2>3
<1> QED  BY <1>8, <1>9, <1>10 DEF c, i

\* A block in its place.
LEMMA NextWorked ==
  ASSUME NEW inPlace, NEW src, NEW N \in Nat, NEW res,
         Worked(cmMem, OutAt, inPlace, src, cmAt, res), OutAt \in Nat, OutAt + N * CmBlock <= Len(cmMem), cmAt < N,
         NEW blk \in Blks, res[cmAt + 1] = blk
  PROVE  LET new == StoredBytes(cmAt, blk)
         IN  Worked(new, OutAt, inPlace, src, cmAt + 1, res) /\ Len(new) = Len(cmMem) /\ new \in Seq(CmByte)
<1> DEFINE B == CmBlock
           i == cmAt + 1
           w == i * B
           y == N * B
           x == cmAt * B
           new == StoredBytes(cmAt, blk)
           at == OutAt + x
<1>1. B \in Nat \ {0} /\ B \in Nat
  BY CmNumbers
<1>2. cmAt \in Nat /\ cmMem \in Seq(CmByte) /\ Len(cmMem) \in Nat
  BY DEF Worked
<1>3. i \in 1..N /\ i \in Nat /\ i - 1 = cmAt /\ i # 0
  BY <1>2
<1>4. w <= y /\ w \in Nat /\ y \in Nat
  <2> HIDE DEF i
  <2>1. 1 \in 1..B
    BY <1>1
  <2> QED  BY <1>3, <2>1, PlaceIn
<1>5. OutAt + w <= Len(cmMem)
  <2>1. OutAt + y <= Len(cmMem)
    OBVIOUS
  <2> HIDE DEF w, y
  <2> QED  BY <1>2, <1>4, <2>1
<1>6. x \in Nat /\ w = x + B
  BY <1>1, <1>2
<1>7. blk \in Seq(CmByte) /\ Len(blk) = B
  BY <1>1 DEF Blks
<1>8. at \in Nat /\ at + Len(blk) <= Len(cmMem)
  <2> HIDE DEF w, x
  <2> QED  BY <1>1, <1>2, <1>5, <1>6, <1>7
<1>9. WrittenAt(new, cmMem, at, blk)
  <2> HIDE DEF at, new
  <2>1. at = OutAt + cmAt * CmBlock
    BY DEF at
  <2>2. WrittenAt(StoredBytes(cmAt, blk), cmMem, at, blk)
    BY <1>2, <1>7, <1>8, <2>1, WrittenAtIs
  <2> QED  BY <2>2 DEF new
<1> HIDE DEF new
<1>10. Worked(new, OutAt, inPlace, src, cmAt + 1, res)
  BY <1>5, <1>9, OneMore
<1>11. Len(new) = Len(cmMem) /\ new \in Seq(CmByte)
  BY <1>9 DEF WrittenAt
<1> QED  BY <1>10, <1>11 DEF new

\* A first block of the memory and what is stored in its place, as CFB1 does.
LEMMA FirstIs ==
  ASSUME NEW mem \in Seq(CmByte), CmBlock <= Len(mem)
  PROVE  /\ CipherBlock(mem, 1) = [j \in 1..CmBlock |-> mem[j]] /\ CipherBlock(mem, 1) \in Blks
         /\ mem = cmMem => InputBlock(0) = CipherBlock(mem, 1)
<1> DEFINE B == CmBlock
           c == CipherBlock(mem, 1)
<1>1. B \in Nat /\ Len(mem) \in Nat /\ (1 - 1) * B = 0 /\ 0 * B = 0 /\ (0 + 1) * B = B
  BY CmNumbers
<1>2. \A j \in 1..B : (1 - 1) * B + j = j /\ mem[j] \in CmByte
  BY <1>1
<1>3. c = [j \in 1..B |-> mem[(1 - 1) * B + j]]
  BY DEF CipherBlock
<1> HIDE DEF c
<1>4. c = [j \in 1..B |-> mem[j]]
  BY <1>2, <1>3
<1>5. c \in Blks
  BY <1>2, <1>4 DEF Blks
<1>6. SubSeq(mem, 1, B) = [j \in 1..B |-> mem[j]]
  BY <1>1
<1>7. InputBlock(0) = SubSeq(cmMem, 1, B)
  <2>1. 0 * B + 1 = 1
    BY <1>1
  <2> QED  BY <1>1, <2>1 DEF InputBlock
<1> QED  BY <1>4, <1>5, <1>6, <1>7 DEF c

LEMMA FirstStored ==
  ASSUME cmMem \in Seq(CmByte), CmBlock <= Len(cmMem), OutAt = 0, NEW blk \in Blks
  PROVE  LET new == StoredBytes(0, blk)
         IN  new \in Seq(CmByte) /\ Len(new) = Len(cmMem) /\ CipherBlock(new, 1) = blk
<1> DEFINE B == CmBlock
           m == Len(cmMem)
           new == StoredBytes(0, blk)
           z == 0
<1>1. B \in Nat /\ m \in Nat /\ z \in Nat /\ z = OutAt + z * B
  BY CmNumbers
<1>2. blk \in Seq(CmByte) /\ Len(blk) = B /\ blk = [j \in 1..B |-> blk[j]]
  BY <1>1 DEF Blks
<1>3. WrittenAt(new, cmMem, z, blk)
  <2>1. z + Len(blk) <= Len(cmMem)
    BY <1>1, <1>2
  <2>2. new = StoredBytes(z, blk)
    OBVIOUS
  <2> HIDE DEF new, z
  <2> QED  BY <1>1, <1>2, <2>1, <2>2, WrittenAtIs
<1> HIDE DEF new
<1>4. new \in Seq(CmByte) /\ Len(new) = m /\ \A p \in 1..m : new[p] = IF z < p /\ p <= z + B THEN blk[p - z] ELSE cmMem[p]
  BY <1>2, <1>3 DEF WrittenAt
<1>5. \A j \in 1..B : new[j] = blk[j]
  BY <1>1, <1>4
<1>6. CipherBlock(new, 1) = [j \in 1..B |-> new[j]]
  BY <1>4, FirstIs
<1>7. CipherBlock(new, 1) = blk
  BY <1>2, <1>5, <1>6
<1> QED  BY <1>4, <1>7 DEF new

LEMMA FirstPlain ==
  ASSUME NEW t \in Seq(CmByte), CmBlock <= Len(t)
  PROVE  PlainBlock(t, 1) = CipherBlock(t, 1)
<1> DEFINE B == CmBlock
<1>1. B \in Nat /\ Len(t) \in Nat /\ (1 - 1) * B = 0
  BY CmNumbers
<1>2. \A j \in 1..B : (1 - 1) * B + j = j /\ j <= Len(t)
  BY <1>1
<1>3. PlainBlock(t, 1) = [j \in 1..B |-> PlainByte(t, (1 - 1) * B + j)]
  BY DEF PlainBlock
<1>4. \A j \in 1..B : PlainByte(t, (1 - 1) * B + j) = t[j]
  BY <1>2 DEF PlainByte
<1> QED  BY <1>3, <1>4, FirstIs

\* What is cut out of the memory in its first block.
LEMMA FirstCut ==
  ASSUME NEW mem \in Seq(CmByte), CmBlock <= Len(mem)
  PROVE  LET c == SubSeq(mem, 0 + 1, 0 + 1 * CmBlock)
         IN  c \in Seq(CmByte) /\ Len(c) = CmBlock /\ CipherBlock(c, 1) = CipherBlock(mem, 1)
<1> DEFINE B == CmBlock
           c == SubSeq(mem, 1, B)
<1>1. B \in Nat /\ Len(mem) \in Nat /\ 1 * B = B /\ 0 + B = B
  BY CmNumbers
<1>2. c = [j \in 1..B |-> mem[j]]
  BY <1>1
<1>3. \A j \in 1..B : mem[j] \in CmByte
  BY <1>1
<1> HIDE DEF c
<1>4. c \in Seq(CmByte) /\ Len(c) = B
  BY <1>1, <1>2, <1>3
<1>5. CipherBlock(c, 1) = [j \in 1..B |-> c[j]] /\ CipherBlock(mem, 1) = [j \in 1..B |-> mem[j]]
  BY <1>1, <1>4, FirstIs
<1>6. CipherBlock(c, 1) = CipherBlock(mem, 1)
  BY <1>2, <1>5
<1>7. SubSeq(mem, 0 + 1, 0 + 1 * CmBlock) = c
  BY <1>1 DEF c
<1> QED  BY <1>4, <1>6, <1>7

-----------------------------------------------------------------------------
(* The end of a padded decryption *)

\* z is what the last of the N blocks says of its padding.
PaddingOf(mode, s, N, z) ==
  /\ z \in 0..CmBlock /\ z = PlainOf(mode, s, N)[CmBlock]
  /\ mode = "CBC" => z >= 1 /\ \A j \in (CmBlock - z + 1)..CmBlock : PlainOf(mode, s, N)[j] = z

LEMMA TextCut ==
  ASSUME cmCall.mode \in {"ECB", "CBC"}, NEW inPlace, NEW s, NEW N, NEW q \in Nat, N = q + 1,
         Len(s) = N * CmBlock, Worked(cmMem, OutAt, inPlace, s, q, Opening(cmCall.mode, s, N)),
         OutAt \in Nat, OutAt + N * CmBlock <= Len(cmMem),
         NEW z, PaddingOf(cmCall.mode, s, N, z)
  PROVE  LET rest == SubSeq(PlainOf(cmCall.mode, s, N), 1, CmBlock - z)
             new  == StoredBytes(q, rest)
         IN  /\ rest \in Seq(CmByte) /\ Len(rest) = CmBlock - z
             /\ new \in Seq(CmByte) /\ Len(new) = Len(cmMem)
             /\ TextOf(cmCall.mode, s, SubSeq(new, OutAt + 1, OutAt + q * CmBlock + (CmBlock - z)))
<1> DEFINE B == CmBlock
           mode == cmCall.mode
           b == PlainOf(mode, s, N)
           r == B - z
           rest == SubSeq(b, 1, r)
           new == StoredBytes(q, rest)
           m == Len(cmMem)
           x == q * B
           y == N * B
           o == OutAt
           at == o + x
           text == SubSeq(new, o + 1, at + r)
<1>1. B \in Nat \ {0} /\ B \in Nat
  BY CmNumbers
<1>2. cmMem \in Seq(CmByte) /\ s \in Seq(CmByte) /\ m \in Nat /\ Len(s) \in Nat
  BY DEF Worked
<1>a. z \in 0..B /\ z = b[B] /\ (mode = "CBC" => z >= 1 /\ \A j \in (B - z + 1)..B : b[j] = z)
  BY DEF PaddingOf
<1>3. N \in Nat /\ N \in 1..N /\ N >= 1 /\ N - 1 = q
  OBVIOUS
<1>4. x \in Nat /\ y \in Nat /\ y = x + B
  BY <1>1
<1>5. b \in Blks
  <2>1. N * CmBlock <= Len(s)
    BY <1>4
  <2> QED  BY <1>2, <1>3, <2>1, CipherTypedIs
<1>6. r \in 0..B /\ r \in Nat /\ B - r = z
  BY <1>1, <1>a
<1>7. b \in Seq(CmByte) /\ Len(b) = B
  BY <1>1, <1>5 DEF Blks
<1> HIDE DEF b, r
<1>8. rest \in Seq(CmByte) /\ Len(rest) = r /\ \A j \in 1..r : rest[j] = b[j]
  BY <1>1, <1>6, <1>7
<1> HIDE DEF rest
<1>9. at \in Nat /\ at + B <= m /\ o \in Nat /\ at = o + x
  <2>1. o + y <= m
    OBVIOUS
  <2> HIDE DEF x, y, m, o
  <2>2. o \in Nat
    BY DEF o
  <2> QED  BY <1>1, <1>2, <1>4, <2>1, <2>2
<1>10. WrittenAt(new, cmMem, at, rest)
  <2>1. at = OutAt + q * CmBlock
    OBVIOUS
  <2> HIDE DEF at, new, m
  <2>2. at + Len(rest) <= m
    BY <1>1, <1>2, <1>6, <1>8, <1>9
  <2>3. WrittenAt(StoredBytes(q, rest), cmMem, at, rest)
    BY <1>2, <1>8, <1>9, <2>1, <2>2, WrittenAtIs DEF m
  <2> QED  BY <2>3 DEF new
<1> HIDE DEF new
<1>11. /\ new \in Seq(CmByte) /\ Len(new) = m
       /\ \A p \in 1..m : new[p] = IF at < p /\ p <= at + r THEN rest[p - at] ELSE cmMem[p]
  BY <1>8, <1>10 DEF WrittenAt
<1> HIDE DEF at, m, x, y, o
<1>12. text \in Seq(CmByte) /\ Len(text) = x + r /\ \A p \in 1..(x + r) : text[p] = new[o + p]
  <2> DEFINE l == x + r
  <2>a. l \in Nat
    BY <1>4, <1>6
  <2>b. at + r = o + l
    BY <1>4, <1>6, <1>9
  <2>c. o + l <= m
    <3> HIDE DEF l
    <3>1. at \in Nat /\ m \in Nat /\ at + B <= m /\ r <= B /\ B \in Nat /\ r \in Nat
      BY <1>1, <1>2, <1>6, <1>9 DEF m
    <3>2. at + r <= m
      BY <3>1
    <3> QED  BY <2>b, <3>2
  <2>1. l \in Nat /\ at + r = o + l /\ o + l <= m
    BY <2>a, <2>b, <2>c
  <2>2. text = SubSeq(new, o + 1, o + l)
    BY <2>1
  <2> HIDE DEF l, text
  <2>3. (o + l) - (o + 1) + 1 = l /\ \A p \in 1..l : (o + 1) + p - 1 = o + p
    BY <1>9, <2>1
  <2>4. text = [p \in 1..((o + l) - (o + 1) + 1) |-> new[(o + 1) + p - 1]]
    BY <1>9, <2>1, <2>2
  <2>5. text = [p \in 1..l |-> new[o + p]]
    BY <2>3, <2>4
  <2>6. \A p \in 1..l : new[o + p] \in CmByte
    BY <1>2, <1>9, <1>11, <2>1 DEF m
  <2>7. text \in Seq(CmByte) /\ Len(text) = l
    BY <2>1, <2>5, <2>6
  <2>8. \A p \in 1..l : text[p] = new[o + p]
    BY <2>5
  <2> QED  BY <2>7, <2>8 DEF l
<1> HIDE DEF text
<1>13. ASSUME NEW i \in 1..N, NEW j \in 1..B, (i - 1) * B + j <= Len(text)
       PROVE  text[(i - 1) * B + j] = PlainOf(mode, s, i)[j]
  <2> DEFINE w == (i - 1) * B
             p == w + j
  <2>1. p \in 1..(i * B) /\ w \in Nat
    BY <1>3, PlaceIn
  <2>2. p <= x + r /\ p \in Nat /\ p >= 1
    <3>1. w + j <= x + r
      BY <1>12, <1>13
    <3> HIDE DEF w
    <3> QED  BY <2>1, <3>1
  <2>3. text[p] = new[o + p] /\ o + p \in 1..m
    <3> HIDE DEF p
    <3> QED  BY <1>1, <1>2, <1>4, <1>6, <1>9, <1>12, <2>2 DEF m
  <2>4. CASE i <= q
    <3>1. i \in 1..q
      BY <1>3, <2>4
    <3>2. p \in 1..x
      BY <3>1, PlaceIn DEF x
    <3>3. new[o + p] = cmMem[o + p]
      <4> HIDE DEF p
      <4>1. ~(at < o + p)
        BY <1>4, <1>9, <3>2
      <4> QED  BY <1>11, <2>3, <4>1
    <3>4. cmMem[o + (i - 1) * B + j] = Opening(mode, s, N)[i][j]
      BY <3>1 DEF Worked, o
    <3>5. o + p = o + (i - 1) * B + j
      <4> HIDE DEF w
      <4>1. o + p = o + w + j
        BY <1>9, <2>1
      <4> QED  BY <4>1 DEF w
    <3>6. Opening(mode, s, N)[i] = PlainOf(mode, s, i)
      BY DEF Opening
    <3>7. text[p] = PlainOf(mode, s, i)[j]
      <4> HIDE DEF p
      <4> QED  BY <2>3, <3>3, <3>4, <3>5, <3>6
    <3> QED  BY <3>7
  <2>5. CASE i = N
    <3>1. w = x
      BY <1>3, <2>5 DEF x
    <3> HIDE DEF w
    <3>2. j \in 1..r /\ o + p = at + j /\ (o + p) - at = j
      BY <1>1, <1>4, <1>6, <1>9, <2>2, <3>1
    <3>3. at < o + p /\ o + p <= at + r
      BY <1>6, <1>9, <3>2
    <3> HIDE DEF p
    <3>4. new[o + p] = rest[j]
      BY <1>11, <2>3, <3>2, <3>3
    <3>5. text[p] = PlainOf(mode, s, i)[j]
      BY <1>8, <2>3, <2>5, <3>2, <3>4 DEF b
    <3> QED  BY <3>5 DEF p, w
  <2>6. i <= q \/ i = N
    BY <1>3
  <2> QED  BY <2>4, <2>5, <2>6
<1>14. Len(text) = y - z
  <2>1. x + r = y - z
    BY <1>1, <1>4, <1>6, <1>a
  <2> QED  BY <1>12, <2>1
<1>15. Len(s) \div B = N
  BY <1>3, WholeBlocks
<1>16. TextOf(mode, s, text)
  <2>1. b[B] = z /\ (mode = "CBC" => z >= 1 /\ \A j \in (B - z + 1)..B : b[j] = z)
    BY <1>a
  <2>2. Len(s) = y
    BY DEF y
  <2> QED  BY <1>2, <1>3, <1>12, <1>13, <1>14, <1>15, <1>a, <2>1, <2>2 DEF TextOf, b, y
<1> QED  BY <1>8, <1>11, <1>16 DEF rest, new, text, b, r, at, o, x, m

-----------------------------------------------------------------------------
(* The invariant *)

CipherCalls == {c \in [mode : Modes, pad : BOOLEAN, inPlace : BOOLEAN] : c.mode = "CFB1" => ~c.pad /\ c.inPlace}

OutOf(call, input) == IF call.inPlace THEN 0 ELSE Len(input)
SealedBlocks(call, plain) == (Len(plain) \div CmBlock) + (IF call.pad THEN 1 ELSE 0)
RoomFor(call, plain) == IF call.pad THEN ((Len(plain) \div CmBlock) + 1) * CmBlock ELSE Len(plain)

\* The memory of a call with this input.
Taking(call, input, mem, len, room) ==
  /\ input \in Seq(CmByte) /\ input # << >> /\ len = Len(input)
  /\ mem \in Seq(CmByte) /\ Len(mem) = OutOf(call, input) + room

\* Exactly one block of CFB1, which is what the round trip is about.
OneStream(call, plain) == call.mode = "CFB1" /\ Len(plain) \div CmBlock = 1

Encrypting(call, plain, mem, at, chain) ==
  /\ call.mode # "CFB1" =>
       LET Cb == Sealing(call.mode, plain, SealedBlocks(call, plain))
       IN  Worked(mem, OutOf(call, plain), call.inPlace, plain, at, Cb) /\ chain = Cb[at]
  /\ OneStream(call, plain) =>
       /\ at = 0 => chain = CmIv /\ mem = plain
       /\ at = 1 => Streamed(PlainBlock(plain, 1), CipherBlock(mem, 1))

SealedTo(call, plain, sealed) ==
  /\ Len(sealed) = SealedBlocks(call, plain) * CmBlock
  /\ call.mode # "CFB1" =>
       Spelled(sealed, SealedBlocks(call, plain), Sealing(call.mode, plain, SealedBlocks(call, plain)))
  /\ OneStream(call, plain) => Streamed(PlainBlock(plain, 1), CipherBlock(sealed, 1))

Decrypting(call, plain, sealed, mem, at, chain) ==
  /\ call.mode # "CFB1" =>
       /\ Worked(mem, OutOf(call, sealed), call.inPlace, sealed, at, Opening(call.mode, sealed, Len(sealed) \div CmBlock))
       /\ chain = CipherBlock(sealed, at)
  /\ OneStream(call, plain) =>
       /\ at = 0 => chain = CmIv /\ mem = sealed
       /\ at = 1 => CipherBlock(mem, 1) = PlainBlock(plain, 1)

OpenedTo(call, plain, sealed, text) ==
  /\ call.pad => TextOf(call.mode, sealed, text)
  /\ ~call.pad /\ call.mode # "CFB1" =>
       Spelled(text, Len(sealed) \div CmBlock, Opening(call.mode, sealed, Len(sealed) \div CmBlock))
  /\ OneStream(call, plain) =>
       text \in Seq(CmByte) /\ Len(text) = CmBlock /\ CipherBlock(text, 1) = PlainBlock(plain, 1)

\* What holds of every call: a padded one for what nobody has encrypted, whole blocks otherwise.
CmShape ==
  /\ cmCall \in CipherCalls /\ cmChain \in Blks /\ cmAt \in Nat
  /\ cmPlain \in Seq(CmByte) /\ (cmPlain = << >> => cmCall.pad)
  /\ cmPlain # << >> /\ ~cmCall.pad => Len(cmPlain) >= CmBlock
  /\ cmPc \in {"encrypt", "sealed", "decrypt", "done", "corrupted"}

CmSealing ==
  /\ cmPc \in {"encrypt", "sealed"} => Taking(cmCall, cmPlain, cmMem, cmLen, RoomFor(cmCall, cmPlain))
  /\ cmPc = "encrypt" => cmAt <= Len(cmPlain) \div CmBlock /\ cmSealed = << >>
  /\ cmPc = "encrypt" => Encrypting(cmCall, cmPlain, cmMem, cmAt, cmChain)
  /\ cmPc = "sealed" => cmAt <= (Len(cmPlain) \div CmBlock) + 1

CmOpening ==
  /\ cmPc # "encrypt" => cmSealed # << >> /\ cmSealed \in Seq(CmByte)
  /\ cmPc # "encrypt" /\ cmPlain # << >> => SealedTo(cmCall, cmPlain, cmSealed)
  /\ cmPc \in {"decrypt", "done", "corrupted"} =>
       Taking(cmCall, cmSealed, cmMem, cmLen, Len(cmSealed)) /\ cmAt <= Len(cmSealed) \div CmBlock
  /\ cmPc = "decrypt" => Decrypting(cmCall, cmPlain, cmSealed, cmMem, cmAt, cmChain)
  /\ cmPc = "done" => OpenedTo(cmCall, cmPlain, cmSealed, cmText)
  /\ cmPc = "corrupted" => (cmCall.mode = "CBC" => cmPlain = << >>)

CmInv == CmShape /\ CmSealing /\ CmOpening

LEMMA CallIs ==
  ASSUME cmCall \in CipherCalls
  PROVE  /\ cmCall.mode \in {"ECB", "CBC", "CFB1"} /\ cmCall.pad \in BOOLEAN /\ cmCall.inPlace \in BOOLEAN
         /\ cmCall.mode = "CFB1" => ~cmCall.pad /\ cmCall.inPlace
BY DEF CipherCalls, Modes

\* Memory that a call has just been given.
LEMMA TakenIs ==
  ASSUME cmCall \in CipherCalls, NEW input \in Seq(CmByte), input # << >>, NEW room \in Nat, room >= Len(input)
  PROVE  LET mem == Provided(input, room)
         IN  /\ Taking(cmCall, input, mem, Len(input), room)
             /\ \A res : Worked(mem, OutOf(cmCall, input), cmCall.inPlace, input, 0, res)
             /\ cmCall.inPlace /\ room = Len(input) => mem = input
<1> DEFINE mem == Provided(input, room)
           l == Len(input)
<1>1. /\ mem \in Seq(CmByte) /\ Len(mem) = (IF cmCall.inPlace THEN 0 ELSE l) + room
      /\ \A p \in 1..l : mem[p] = input[p]
      /\ cmCall.inPlace /\ room = l => mem = input
  BY ProvidedIs
<1> HIDE DEF mem
<1>2. l \in Nat /\ l <= Len(mem)
  <2>1. l \in Nat
    OBVIOUS
  <2> HIDE DEF l
  <2> QED  BY <1>1, <2>1 DEF l
<1>3. Taking(cmCall, input, mem, l, room)
  BY <1>1 DEF Taking, OutOf
<1>4. ASSUME NEW res PROVE Worked(mem, OutOf(cmCall, input), cmCall.inPlace, input, 0, res)
  <2>1. \A i \in 1..0 : FALSE
    OBVIOUS
  <2>2. OutOf(cmCall, input) = IF cmCall.inPlace THEN 0 ELSE l
    BY DEF OutOf
  <2> QED  BY <1>1, <1>2, <2>1, <2>2 DEF Worked
<1> QED  BY <1>1, <1>3, <1>4 DEF mem

LEMMA RoomIs ==
  ASSUME cmCall \in CipherCalls, NEW t \in Seq(CmByte)
  PROVE  LET N == Len(t) \div CmBlock
             k == SealedBlocks(cmCall, t)
         IN  /\ RoomFor(cmCall, t) \in Nat /\ RoomFor(cmCall, t) >= Len(t) /\ k * CmBlock <= RoomFor(cmCall, t)
             /\ N \in Nat /\ k \in Nat /\ N <= k /\ k <= N + 1 /\ (cmCall.pad => k = N + 1) /\ (~cmCall.pad => k = N)
             /\ Len(t) >= CmBlock => N >= 1
             /\ N >= 1 => Len(t) >= CmBlock
<1> DEFINE B == CmBlock
           l == Len(t)
           N == l \div B
           k == SealedBlocks(cmCall, t)
           x == N * B
           y == (N + 1) * B
           v == k * B
<1>1. B \in Nat \ {0} /\ B \in Nat /\ l \in Nat
  BY CmNumbers
<1>2. N \in Nat /\ x \in Nat /\ x <= l /\ y = x + B /\ y - l \in 1..B
  BY <1>1, MoreIs
<1>3. RoomFor(cmCall, t) = IF cmCall.pad THEN y ELSE l
  BY DEF RoomFor
<1>4. k = N + (IF cmCall.pad THEN 1 ELSE 0)
  BY DEF SealedBlocks
<1>5. l >= B => N >= 1
  <2>1. N = 0 => x = 0
    BY <1>1
  <2> HIDE DEF x, y, N
  <2> QED  BY <1>1, <1>2, <2>1
<1>6. N >= 1 => l >= B
  <2>1. CASE N >= 1
    <3>1. 1 * B <= x
      <4> HIDE DEF N
      <4>1. CASE N = 1
        BY <1>1, <4>1
      <4>2. CASE N > 1
        <5>1. 1 * B + B <= N * B
          BY <1>1, <1>2, <4>2, NextMultiple
        <5> QED  BY <1>1, <1>2, <5>1
      <4> QED  BY <1>2, <2>1, <4>1, <4>2
    <3>2. 1 * B = B
      BY <1>1
    <3> HIDE DEF x, N
    <3> QED  BY <1>1, <1>2, <3>1, <3>2
  <2> QED  BY <2>1
<1> HIDE DEF N, k
<1>7. k \in Nat /\ N <= k /\ k <= N + 1 /\ (cmCall.pad => k = N + 1) /\ (~cmCall.pad => k = N)
  <2> HIDE DEF x, y
  <2> QED  BY <1>2, <1>4
<1>8. v = IF cmCall.pad THEN y ELSE x
  BY <1>7
<1> HIDE DEF x, y, v
<1>9. RoomFor(cmCall, t) \in Nat /\ RoomFor(cmCall, t) >= l /\ v <= RoomFor(cmCall, t)
  BY <1>1, <1>2, <1>3, <1>8
<1> QED  BY <1>2, <1>5, <1>6, <1>7, <1>9 DEF N, k, v

\* The beginning of a decryption.
LEMMA DecryptingFirst ==
  ASSUME cmCall \in CipherCalls, NEW plain, NEW s \in Seq(CmByte), s # << >>
  PROVE  LET mem == Provided(s, Len(s))
         IN  Taking(cmCall, s, mem, Len(s), Len(s)) /\ Decrypting(cmCall, plain, s, mem, 0, CmIv)
<1> DEFINE mem == Provided(s, Len(s))
           l == Len(s)
<1>1. l \in Nat /\ l >= l
  OBVIOUS
<1>2. /\ Taking(cmCall, s, mem, l, l)
      /\ \A res : Worked(mem, OutOf(cmCall, s), cmCall.inPlace, s, 0, res)
      /\ cmCall.inPlace => mem = s
  BY <1>1, TakenIs
<1>3. CmIv = CipherBlock(s, 0)
  BY DEF CipherBlock
<1> HIDE DEF mem
<1>4. OneStream(cmCall, plain) => mem = s
  BY <1>2, CallIs DEF OneStream
<1>5. Decrypting(cmCall, plain, s, mem, 0, CmIv)
  BY <1>2, <1>3, <1>4 DEF Decrypting
<1> QED  BY <1>2, <1>5 DEF mem

LEMMA CmInvInit == CmInit => CmInv
<1> SUFFICES ASSUME CmInit PROVE CmInv
  OBVIOUS
<1>1. cmCall \in CipherCalls /\ cmAt = 0 /\ cmChain = CmIv
  BY DEF CmInit, CipherCalls
<1>2. cmChain \in Blks /\ cmAt \in Nat
  BY <1>1, CmNumbers
<1>3. CASE /\ cmPlain \in {p \in CmPlains : ~cmCall.pad => Len(p) >= CmBlock}
           /\ cmLen = Len(cmPlain) /\ cmSealed = << >>
           /\ cmMem = Provided(cmPlain, IF cmCall.pad THEN (NumBlocks + 1) * CmBlock ELSE cmLen)
           /\ cmPc = "encrypt"
  <2>1. cmPlain \in Seq(CmByte) /\ cmPlain # << >> /\ (~cmCall.pad => Len(cmPlain) >= CmBlock)
    BY <1>3, CipherModesAssumption
  <2> DEFINE r == RoomFor(cmCall, cmPlain)
             N == Len(cmPlain) \div CmBlock
             k == SealedBlocks(cmCall, cmPlain)
             Cb == Sealing(cmCall.mode, cmPlain, k)
  <2>2. cmMem = Provided(cmPlain, r)
    BY <1>3 DEF RoomFor, NumBlocks
  <2>3. r \in Nat /\ r >= Len(cmPlain) /\ N \in Nat /\ k \in Nat
    BY <1>1, <2>1, RoomIs
  <2>4. ~cmCall.pad => r = Len(cmPlain)
    BY DEF RoomFor
  <2> HIDE DEF r, k
  <2>5. /\ Taking(cmCall, cmPlain, cmMem, cmLen, r)
        /\ Worked(cmMem, OutOf(cmCall, cmPlain), cmCall.inPlace, cmPlain, 0, Cb)
        /\ cmCall.inPlace /\ r = Len(cmPlain) => cmMem = cmPlain
    BY <1>1, <1>3, <2>1, <2>2, <2>3, TakenIs
  <2>6. Cb[0] = CmIv
    BY <2>1, <2>3, SealingIs DEF Seals
  <2> HIDE DEF Cb
  <2>7. OneStream(cmCall, cmPlain) => cmMem = cmPlain
    BY <1>1, <2>4, <2>5, CallIs DEF OneStream
  <2>8. Encrypting(cmCall, cmPlain, cmMem, cmAt, cmChain)
    BY <1>1, <2>5, <2>6, <2>7 DEF Encrypting, Cb, k
  <2>9. cmAt <= N
    BY <1>1, <2>3
  <2>10. CmShape
    BY <1>1, <1>2, <1>3, <2>1 DEF CmShape
  <2>11. CmSealing
    BY <1>3, <2>5, <2>8, <2>9 DEF CmSealing, r
  <2>12. CmOpening
    BY <1>3 DEF CmOpening
  <2> QED  BY <2>10, <2>11, <2>12 DEF CmInv
<1>4. CASE /\ cmPlain = << >> /\ cmSealed \in CmCiphers /\ cmCall.pad
           /\ cmLen = Len(cmSealed) /\ cmMem = Provided(cmSealed, cmLen)
           /\ cmPc = "decrypt"
  <2>1. cmSealed \in Seq(CmByte) /\ cmSealed # << >>
    BY <1>4, CipherModesAssumption
  <2>2. Taking(cmCall, cmSealed, cmMem, cmLen, Len(cmSealed)) /\ Decrypting(cmCall, cmPlain, cmSealed, cmMem, cmAt, cmChain)
    BY <1>1, <1>4, <2>1, DecryptingFirst
  <2>3. cmAt <= Len(cmSealed) \div CmBlock
    <3>1. Len(cmSealed) \div CmBlock \in Nat
      BY <1>1, <2>1, RoomIs
    <3> QED  BY <1>1, <3>1
  <2>4. CmShape
    BY <1>1, <1>2, <1>4 DEF CmShape
  <2>5. CmSealing
    BY <1>4 DEF CmSealing
  <2>6. CmOpening
    BY <1>4, <2>1, <2>2, <2>3 DEF CmOpening
  <2> QED  BY <2>4, <2>5, <2>6 DEF CmInv
<1> QED  BY <1>3, <1>4 DEF CmInit

LEMMA OutIs ==
  ASSUME cmCall \in CipherCalls, NEW input, NEW room, Taking(cmCall, input, cmMem, cmLen, room)
  PROVE  /\ OutAt = OutOf(cmCall, input) /\ OutAt \in Nat /\ Len(cmMem) = OutAt + room /\ cmLen = Len(input)
         /\ NumBlocks = Len(input) \div CmBlock /\ NumBlocks \in Nat /\ cmLen \in Nat \ {0}
         /\ input \in Seq(CmByte) /\ cmMem \in Seq(CmByte)
         /\ (cmCall.inPlace => OutAt = 0)
<1>1. /\ input \in Seq(CmByte) /\ input # << >> /\ cmLen = Len(input)
      /\ cmMem \in Seq(CmByte) /\ Len(cmMem) = OutOf(cmCall, input) + room
  BY DEF Taking
<1>2. cmLen \in Nat \ {0}
  BY <1>1
<1>3. OutAt = OutOf(cmCall, input)
  BY <1>1 DEF OutAt, OutOf
<1>4. OutAt \in Nat /\ (cmCall.inPlace => OutAt = 0)
  BY <1>2, CallIs DEF OutAt
<1>5. NumBlocks = Len(input) \div CmBlock
  BY <1>1 DEF NumBlocks
<1>6. NumBlocks \in Nat
  BY <1>1, <1>5, RoomIs
<1> QED  BY <1>1, <1>2, <1>3, <1>4, <1>5, <1>6

\* What a step keeps of the memory's measure.
LEMMA TakingKept ==
  ASSUME NEW call, NEW input, NEW mem, NEW len, NEW room, Taking(call, input, mem, len, room),
         NEW new \in Seq(CmByte), Len(new) = Len(mem)
  PROVE  Taking(call, input, new, len, room)
BY DEF Taking

\* One block of ECB and CBC, or of the last, padded one.
LEMMA SealStep ==
  ASSUME cmCall \in CipherCalls, cmCall.mode # "CFB1", NEW room, Taking(cmCall, cmPlain, cmMem, cmLen, room),
         NEW k \in Nat, k * CmBlock <= room, room \in Nat,
         Worked(cmMem, OutAt, cmCall.inPlace, cmPlain, cmAt, Sealing(cmCall.mode, cmPlain, k)),
         cmChain = Sealing(cmCall.mode, cmPlain, k)[cmAt], cmAt < k, NEW b, b = PlainBlock(cmPlain, cmAt + 1)
  PROVE  LET blk == SealedBlock(b)
             new == StoredBytes(cmAt, blk)
             Cb   == Sealing(cmCall.mode, cmPlain, k)
         IN  /\ blk \in Blks /\ blk = Cb[cmAt + 1] /\ new \in Seq(CmByte) /\ Len(new) = Len(cmMem)
             /\ Worked(new, OutAt, cmCall.inPlace, cmPlain, cmAt + 1, Cb)
<1> DEFINE Cb == Sealing(cmCall.mode, cmPlain, k)
           blk == SealedBlock(b)
           new == StoredBytes(cmAt, blk)
           y == k * CmBlock
<1>1. cmPlain \in Seq(CmByte) /\ OutAt \in Nat /\ Len(cmMem) = OutAt + room /\ cmCall.mode \in {"ECB", "CBC"}
  BY OutIs, CallIs
<1>2. Seals(Cb, cmCall.mode, cmPlain, k)
  BY <1>1, SealingIs
<1>3. cmAt \in Nat
  BY DEF Worked
<1>4. y \in Nat /\ OutAt + y <= Len(cmMem)
  <2>1. y \in Nat /\ y <= room
    BY CmNumbers
  <2> HIDE DEF y
  <2> QED  BY <1>1, <2>1
<1>5. OutAt + k * CmBlock <= Len(cmMem)
  BY <1>4
<1> HIDE DEF Cb
<1>6. Worked(cmMem, OutAt, cmCall.inPlace, cmPlain, cmAt, Cb) /\ cmChain = Cb[cmAt]
  BY DEF Cb
<1>7. blk = Cb[cmAt + 1] /\ blk \in Blks
  BY <1>1, <1>2, <1>3, <1>6, SealedIs
<1> HIDE DEF blk, y
<1>8. Worked(new, OutAt, cmCall.inPlace, cmPlain, cmAt + 1, Cb) /\ Len(new) = Len(cmMem) /\ new \in Seq(CmByte)
  BY <1>1, <1>5, <1>6, <1>7, NextWorked
<1> QED  BY <1>7, <1>8 DEF blk, Cb

\* One block of CFB1, in either direction.
LEMMA StreamStep ==
  ASSUME cmCall \in CipherCalls, cmCall.mode = "CFB1", cmMem \in Seq(CmByte), CmBlock <= Len(cmMem), cmChain \in Blks,
         NEW encrypt \in BOOLEAN
  PROVE  LET c   == InputBlock(0)
             blk == Cfb(c, encrypt)
             new == StoredBytes(0, blk)
         IN  /\ c \in Blks /\ c = CipherBlock(cmMem, 1) /\ blk \in Blks
             /\ new \in Seq(CmByte) /\ Len(new) = Len(cmMem) /\ CipherBlock(new, 1) = blk
<1> DEFINE c == InputBlock(0)
           blk == Cfb(c, encrypt)
           new == StoredBytes(0, blk)
<1>1. OutAt = 0
  BY CallIs DEF OutAt
<1>2. c \in Blks /\ c = CipherBlock(cmMem, 1)
  BY FirstIs
<1> HIDE DEF c
<1>3. blk \in Blks
  BY <1>2, CfbTyped
<1> HIDE DEF blk
<1>4. new \in Seq(CmByte) /\ Len(new) = Len(cmMem) /\ CipherBlock(new, 1) = blk
  BY <1>1, <1>3, FirstStored
<1> QED  BY <1>2, <1>3, <1>4 DEF blk, c

LEMMA RegisterTyped ==
  ASSUME cmChain \in Blks, NEW b \in Blks
  PROVE  Registers(b, FALSE)[CmLast + 1] \in Blks
BY CfbTyped

LEMMA EncryptBlockKeeps == CmInv /\ EncryptBlock => CmInv'
<1> SUFFICES ASSUME CmInv, EncryptBlock PROVE CmInv'
  OBVIOUS
<1> DEFINE N == Len(cmPlain) \div CmBlock
           r == RoomFor(cmCall, cmPlain)
           k == SealedBlocks(cmCall, cmPlain)
           Cb == Sealing(cmCall.mode, cmPlain, k)
           b == InputBlock(BlockPlace)
           blk == SealedBlock(b)
           new == StoredBytes(BlockPlace, blk)
<1>1. /\ cmPc = "encrypt" /\ cmAt < NumBlocks /\ cmAt' = cmAt + 1
      /\ cmMem' = new /\ cmChain' = NextChain(blk)
      /\ UNCHANGED <<cmCall, cmPlain, cmSealed, cmLen, cmText, cmPc>>
  BY DEF EncryptBlock
<1>2. /\ cmCall \in CipherCalls /\ cmChain \in Blks /\ cmAt \in Nat /\ cmPlain \in Seq(CmByte)
      /\ cmPlain = << >> => cmCall.pad
      /\ cmPlain # << >> /\ ~cmCall.pad => Len(cmPlain) >= CmBlock
  BY DEF CmInv, CmShape
<1>3. /\ Taking(cmCall, cmPlain, cmMem, cmLen, r) /\ cmSealed = << >>
      /\ Encrypting(cmCall, cmPlain, cmMem, cmAt, cmChain)
  BY <1>1 DEF CmInv, CmSealing
<1>4. r \in Nat /\ k * CmBlock <= r /\ N \in Nat /\ k \in Nat /\ N <= k /\ (N >= 1 => Len(cmPlain) >= CmBlock) /\ r >= Len(cmPlain)
  BY <1>2, RoomIs
<1>5. /\ OutAt = OutOf(cmCall, cmPlain) /\ OutAt \in Nat /\ Len(cmMem) = OutAt + r /\ cmLen = Len(cmPlain)
      /\ NumBlocks = N /\ cmMem \in Seq(CmByte)
  BY <1>2, <1>3, OutIs
<1> HIDE DEF r, k, N
<1>6. cmAt < N /\ cmAt + 1 <= N /\ cmAt < k /\ cmAt + 1 \in Nat
  BY <1>1, <1>2, <1>4, <1>5
<1>7. new \in Seq(CmByte) /\ Len(new) = Len(cmMem) /\ cmChain' \in Blks
      /\ Encrypting(cmCall, cmPlain, new, cmAt + 1, cmChain')
  <2>1. CASE cmCall.mode # "CFB1"
    <3>1. BlockPlace = cmAt
      BY <2>1 DEF BlockPlace
    <3>2. Worked(cmMem, OutAt, cmCall.inPlace, cmPlain, cmAt, Cb) /\ cmChain = Cb[cmAt]
      BY <1>3, <1>5, <2>1 DEF Encrypting, k
    <3>3. b = PlainBlock(cmPlain, cmAt + 1)
      BY <1>1, <1>5, <3>1, <3>2, PlainRead
    <3>a. k * CmBlock <= r
      BY <1>4
    <3> HIDE DEF b
    <3>4. /\ SealedBlock(b) \in Blks /\ SealedBlock(b) = Cb[cmAt + 1]
          /\ StoredBytes(cmAt, SealedBlock(b)) \in Seq(CmByte) /\ Len(StoredBytes(cmAt, SealedBlock(b))) = Len(cmMem)
          /\ Worked(StoredBytes(cmAt, SealedBlock(b)), OutAt, cmCall.inPlace, cmPlain, cmAt + 1, Cb)
      BY <1>2, <1>3, <1>4, <1>6, <2>1, <3>2, <3>3, <3>a, SealStep
    <3>5. /\ blk \in Blks /\ blk = Cb[cmAt + 1] /\ new \in Seq(CmByte) /\ Len(new) = Len(cmMem)
          /\ Worked(new, OutAt, cmCall.inPlace, cmPlain, cmAt + 1, Cb)
      BY <3>1, <3>4
    <3>6. cmChain' = blk
      BY <1>1, <2>1 DEF NextChain
    <3> HIDE DEF blk, new, Cb
    <3>7. ~OneStream(cmCall, cmPlain)
      BY <2>1 DEF OneStream
    <3>8. Encrypting(cmCall, cmPlain, new, cmAt + 1, cmChain')
      BY <1>5, <3>5, <3>6, <3>7 DEF Encrypting, Cb, k
    <3> QED  BY <3>5, <3>6, <3>8
  <2>2. CASE cmCall.mode = "CFB1"
    <3>1. BlockPlace = 0 /\ blk = Cfb(b, TRUE)
      BY <2>2 DEF BlockPlace, SealedBlock
    <3>2. N >= 1 /\ Len(cmPlain) >= CmBlock
      BY <1>2, <1>4, <1>6
    <3>3. CmBlock <= Len(cmMem)
      BY <1>2, <1>4, <1>5, <3>2, CmNumbers
    <3>4. /\ InputBlock(0) \in Blks /\ InputBlock(0) = CipherBlock(cmMem, 1) /\ Cfb(InputBlock(0), TRUE) \in Blks
          /\ StoredBytes(0, Cfb(InputBlock(0), TRUE)) \in Seq(CmByte)
          /\ Len(StoredBytes(0, Cfb(InputBlock(0), TRUE))) = Len(cmMem)
          /\ CipherBlock(StoredBytes(0, Cfb(InputBlock(0), TRUE)), 1) = Cfb(InputBlock(0), TRUE)
      BY <1>2, <1>5, <2>2, <3>3, StreamStep
    <3>5. /\ b \in Blks /\ b = CipherBlock(cmMem, 1) /\ blk \in Blks /\ new \in Seq(CmByte) /\ Len(new) = Len(cmMem)
          /\ CipherBlock(new, 1) = blk
      BY <3>1, <3>4
    <3>6. cmChain' = Registers(blk, FALSE)[CmLast + 1]
      BY <1>1, <2>2 DEF NextChain
    <3>7. blk = Cfb(b, TRUE)
      BY <3>1
    <3> HIDE DEF b, blk, new
    <3>8. cmChain' \in Blks
      BY <1>2, <3>5, <3>6, RegisterTyped
    <3>9. ASSUME OneStream(cmCall, cmPlain), cmAt + 1 = 1 PROVE Streamed(PlainBlock(cmPlain, 1), CipherBlock(new, 1))
      <4>1. cmAt = 0
        BY <1>2, <3>9
      <4>2. cmChain = CmIv /\ cmMem = cmPlain
        BY <1>3, <3>9, <4>1 DEF Encrypting
      <4>3. b = PlainBlock(cmPlain, 1)
        BY <1>2, <3>2, <3>5, <4>2, FirstPlain
      <4>4. Streamed(b, Cfb(b, TRUE))
        BY <3>5, <4>2, CfbSeals
      <4> QED  BY <3>5, <3>7, <4>3, <4>4
    <3>10. cmAt + 1 # 0
      BY <1>2
    <3>11. Encrypting(cmCall, cmPlain, new, cmAt + 1, cmChain')
      BY <2>2, <3>9, <3>10 DEF Encrypting
    <3> QED  BY <3>5, <3>8, <3>11
  <2> QED  BY <2>1, <2>2
<1> HIDE DEF new, blk, b, Cb
<1>8. Taking(cmCall, cmPlain, new, cmLen, r)
  BY <1>3, <1>7, TakingKept
<1>9. CmShape'
  BY <1>1, <1>2, <1>6, <1>7 DEF CmShape
<1>10. CmSealing'
  <2>1. Taking(cmCall, cmPlain, cmMem, cmLen, RoomFor(cmCall, cmPlain))'
    BY <1>1, <1>8 DEF r
  <2>2. (cmAt <= Len(cmPlain) \div CmBlock)'
    BY <1>1, <1>6 DEF N
  <2>3. Encrypting(cmCall, cmPlain, cmMem, cmAt, cmChain)'
    BY <1>1, <1>7
  <2>4. cmPc' = "encrypt" /\ cmSealed' = << >>
    BY <1>1, <1>3
  <2> QED  BY <2>1, <2>2, <2>3, <2>4 DEF CmSealing
<1>11. CmOpening'
  <2>1. cmPc' = "encrypt"
    BY <1>1
  <2> QED  BY <2>1 DEF CmOpening
<1> QED  BY <1>9, <1>10, <1>11 DEF CmInv

LEMMA NotNone ==
  ASSUME NEW s, NEW k \in Nat \ {0}, Len(s) = k * CmBlock
  PROVE  s # << >>
<1> DEFINE x == k * CmBlock
<1>1. x # 0
  BY CmNumbers
<1> HIDE DEF x
<1>2. Len(s) = x
  BY DEF x
<1> QED  BY <1>1, <1>2

\* The ciphertext, cut out of the memory.
LEMMA SealedCut ==
  ASSUME cmCall \in CipherCalls, cmCall.mode # "CFB1", NEW mem, NEW k \in Nat, k = SealedBlocks(cmCall, cmPlain),
         Worked(mem, OutAt, cmCall.inPlace, cmPlain, k, Sealing(cmCall.mode, cmPlain, k)),
         OutAt + k * CmBlock <= Len(mem)
  PROVE  LET s == SubSeq(mem, OutAt + 1, OutAt + k * CmBlock)
         IN  s \in Seq(CmByte) /\ SealedTo(cmCall, cmPlain, s)
<1> DEFINE Cb == Sealing(cmCall.mode, cmPlain, k)
           s == SubSeq(mem, OutAt + 1, OutAt + k * CmBlock)
<1> HIDE DEF Cb
<1>1. Worked(mem, OutAt, cmCall.inPlace, cmPlain, k, Cb)
  BY DEF Cb
<1>2. Spelled(s, k, Cb)
  BY <1>1, CutIs
<1> HIDE DEF s
<1>3. s \in Seq(CmByte) /\ Len(s) = k * CmBlock
  BY <1>2 DEF Spelled
<1>4. ~OneStream(cmCall, cmPlain)
  BY DEF OneStream
<1>5. SealedTo(cmCall, cmPlain, s)
  BY <1>2, <1>3, <1>4 DEF SealedTo, Cb
<1> QED  BY <1>3, <1>5 DEF s

LEMMA EncryptEndKeeps == CmInv /\ EncryptEnd => CmInv'
<1> SUFFICES ASSUME CmInv, EncryptEnd PROVE CmInv'
  OBVIOUS
<1> DEFINE N == Len(cmPlain) \div CmBlock
           r == RoomFor(cmCall, cmPlain)
           k == SealedBlocks(cmCall, cmPlain)
           Cb == Sealing(cmCall.mode, cmPlain, k)
           new == StoredBytes(cmAt, SealedBlock(LastPlain))
           y == k * CmBlock
<1>1. /\ cmPc = "encrypt" /\ cmAt = NumBlocks /\ cmPc' = "sealed"
      /\ cmCall.pad => cmMem' = new /\ cmAt' = cmAt + 1
      /\ ~cmCall.pad => cmMem' = cmMem /\ cmAt' = cmAt
      /\ cmSealed' = SubSeq(cmMem', OutAt + 1, OutAt + cmAt' * CmBlock)
      /\ UNCHANGED <<cmCall, cmPlain, cmLen, cmChain, cmText>>
  BY DEF EncryptEnd
<1>2. /\ cmCall \in CipherCalls /\ cmChain \in Blks /\ cmAt \in Nat /\ cmPlain \in Seq(CmByte)
      /\ cmPlain = << >> => cmCall.pad
      /\ cmPlain # << >> /\ ~cmCall.pad => Len(cmPlain) >= CmBlock
  BY DEF CmInv, CmShape
<1>3. /\ Taking(cmCall, cmPlain, cmMem, cmLen, r)
      /\ Encrypting(cmCall, cmPlain, cmMem, cmAt, cmChain)
  BY <1>1 DEF CmInv, CmSealing
<1>4. /\ r \in Nat /\ y <= r /\ N \in Nat /\ k \in Nat /\ r >= Len(cmPlain)
      /\ (cmCall.pad => k = N + 1) /\ (~cmCall.pad => k = N)
      /\ (Len(cmPlain) >= CmBlock => N >= 1) /\ (N >= 1 => Len(cmPlain) >= CmBlock)
  BY <1>2, RoomIs
<1>5. /\ OutAt = OutOf(cmCall, cmPlain) /\ OutAt \in Nat /\ Len(cmMem) = OutAt + r /\ cmLen = Len(cmPlain)
      /\ NumBlocks = N /\ cmMem \in Seq(CmByte) /\ (cmCall.inPlace => OutAt = 0)
  BY <1>2, <1>3, OutIs
<1>6. y \in Nat /\ OutAt + y <= Len(cmMem)
  <2>1. y \in Nat
    BY <1>4, CmNumbers
  <2> HIDE DEF r, k, N, y
  <2> QED  BY <1>4, <1>5, <2>1
<1> HIDE DEF r, k, N, y
<1>7. cmAt = N /\ cmAt' = k
  BY <1>1, <1>2, <1>4, <1>5, CallIs
<1>8. k \in Nat \ {0}
  <2>1. cmPlain # << >>
    BY <1>3 DEF Taking
  <2> QED  BY <1>2, <1>4, <2>1
<1>9. cmMem' \in Seq(CmByte) /\ Len(cmMem') = Len(cmMem)
      /\ (cmCall.mode # "CFB1" => Worked(cmMem', OutAt, cmCall.inPlace, cmPlain, k, Cb))
  <2>a. ASSUME cmCall.mode # "CFB1" PROVE Worked(cmMem, OutAt, cmCall.inPlace, cmPlain, cmAt, Cb) /\ cmChain = Cb[cmAt]
    BY <1>3, <1>5, <2>a DEF Encrypting, k
  <2>1. CASE cmCall.pad
    <3>1. cmCall.mode # "CFB1" /\ cmAt < k /\ cmAt + 1 = k
      BY <1>2, <1>4, <1>7, <2>1, CallIs
    <3>2. LastPlain = PlainBlock(cmPlain, cmAt + 1)
      BY <1>1, <1>5, <2>a, <3>1, PlainRead
    <3>a. k * CmBlock <= r
      BY <1>4 DEF y
    <3> DEFINE b == LastPlain
    <3>b. b = PlainBlock(cmPlain, cmAt + 1)
      BY <3>2
    <3> HIDE DEF b
    <3>3. /\ StoredBytes(cmAt, SealedBlock(b)) \in Seq(CmByte) /\ Len(StoredBytes(cmAt, SealedBlock(b))) = Len(cmMem)
          /\ Worked(StoredBytes(cmAt, SealedBlock(b)), OutAt, cmCall.inPlace, cmPlain, cmAt + 1, Cb)
      BY <1>2, <1>3, <1>4, <2>a, <3>1, <3>a, <3>b, SealStep
    <3> HIDE DEF Cb
    <3> QED  BY <1>1, <2>1, <3>1, <3>3 DEF b
  <2>2. CASE ~cmCall.pad
    <3>1. cmMem' = cmMem /\ cmAt = k
      BY <1>1, <1>4, <1>7, <2>2
    <3> HIDE DEF Cb
    <3> QED  BY <1>5, <2>a, <3>1
  <2> QED  BY <1>2, <2>1, <2>2, CallIs
<1>10. cmSealed' \in Seq(CmByte) /\ SealedTo(cmCall, cmPlain, cmSealed')
  <2>0. cmSealed' = SubSeq(cmMem', OutAt + 1, OutAt + k * CmBlock)
    BY <1>1, <1>7
  <2>1. CASE cmCall.mode # "CFB1"
    <3> DEFINE mem == cmMem'
    <3>1. OutAt + k * CmBlock <= Len(mem) /\ Worked(mem, OutAt, cmCall.inPlace, cmPlain, k, Cb)
      BY <1>6, <1>9, <2>1 DEF y
    <3>2. cmSealed' = SubSeq(mem, OutAt + 1, OutAt + k * CmBlock)
      BY <2>0
    <3>3. k = SealedBlocks(cmCall, cmPlain)
      BY DEF k
    <3> HIDE DEF mem
    <3>4. /\ SubSeq(mem, OutAt + 1, OutAt + k * CmBlock) \in Seq(CmByte)
          /\ SealedTo(cmCall, cmPlain, SubSeq(mem, OutAt + 1, OutAt + k * CmBlock))
      BY <1>2, <1>4, <2>1, <3>1, <3>3, SealedCut
    <3> QED  BY <3>2, <3>4
  <2>2. CASE cmCall.mode = "CFB1"
    <3>1. ~cmCall.pad /\ cmCall.inPlace /\ OutAt = 0 /\ cmMem' = cmMem /\ k = N
      BY <1>1, <1>2, <1>4, <1>5, <2>2, CallIs
    <3>2. y <= Len(cmMem) /\ Len(cmMem) \in Nat /\ y \in Nat
      BY <1>5, <1>6, <3>1
    <3>3. cmSealed' = SubSeq(cmMem, 1, y)
      <4>1. 0 + 1 = 1 /\ 0 + y = y
        BY <3>2
      <4>2. cmSealed' = SubSeq(cmMem, 0 + 1, 0 + y)
        BY <2>0, <3>1 DEF y
      <4> QED  BY <4>1, <4>2
    <3>4. cmSealed' \in Seq(CmByte) /\ Len(cmSealed') = y
      BY <1>5, <3>2, <3>3
    <3>5. ASSUME OneStream(cmCall, cmPlain) PROVE Streamed(PlainBlock(cmPlain, 1), CipherBlock(cmSealed', 1))
      <4>1. N = 1
        BY <3>5 DEF OneStream, N
      <4>2. cmAt = 1 /\ k = 1
        BY <1>7, <3>1, <4>1
      <4>3. Streamed(PlainBlock(cmPlain, 1), CipherBlock(cmMem, 1))
        BY <1>3, <3>5, <4>2 DEF Encrypting
      <4>4. y = CmBlock
        BY <4>2, CmNumbers DEF y
      <4>5. cmSealed' = SubSeq(cmMem, 0 + 1, 0 + 1 * CmBlock)
        BY <2>0, <3>1, <4>2
      <4>6. CipherBlock(SubSeq(cmMem, 0 + 1, 0 + 1 * CmBlock), 1) = CipherBlock(cmMem, 1)
        BY <1>5, <3>2, <4>4, FirstCut
      <4> QED  BY <4>3, <4>5, <4>6
    <3>6. SealedTo(cmCall, cmPlain, cmSealed')
      BY <2>2, <3>4, <3>5 DEF SealedTo, k, y
    <3> QED  BY <3>4, <3>6
  <2> QED  BY <2>1, <2>2
<1>11. cmSealed' # << >>
  <2>1. Len(cmSealed') = k * CmBlock
    BY <1>10 DEF SealedTo, k
  <2> QED  BY <1>8, <2>1, NotNone
<1> HIDE DEF new, Cb
<1>12. Taking(cmCall, cmPlain, cmMem', cmLen, r)
  BY <1>3, <1>9, TakingKept
<1>13. CmShape'
  BY <1>1, <1>2, <1>4, <1>7 DEF CmShape
<1>14. CmSealing'
  <2>1. Taking(cmCall, cmPlain, cmMem, cmLen, RoomFor(cmCall, cmPlain))'
    BY <1>1, <1>12 DEF r
  <2>2. (cmAt <= (Len(cmPlain) \div CmBlock) + 1)'
    <3>1. k <= N + 1
      BY <1>2, <1>4, CallIs
    <3> QED  BY <1>1, <1>7, <3>1 DEF N
  <2>3. cmPc' = "sealed"
    BY <1>1
  <2> QED  BY <2>1, <2>2, <2>3 DEF CmSealing
<1>15. CmOpening'
  <2>1. cmPc' = "sealed"
    BY <1>1
  <2>2. SealedTo(cmCall, cmPlain, cmSealed)'
    BY <1>1, <1>10
  <2> QED  BY <1>10, <1>11, <2>1, <2>2 DEF CmOpening
<1> QED  BY <1>13, <1>14, <1>15 DEF CmInv

LEMMA TurnRoundKeeps == CmInv /\ TurnRound => CmInv'
<1> SUFFICES ASSUME CmInv, TurnRound PROVE CmInv'
  OBVIOUS
<1>1. /\ cmPc = "sealed" /\ cmPc' = "decrypt"
      /\ cmMem' = Provided(cmSealed, Len(cmSealed)) /\ cmLen' = Len(cmSealed) /\ cmAt' = 0 /\ cmChain' = CmIv
      /\ UNCHANGED <<cmCall, cmPlain, cmSealed, cmText>>
  BY DEF TurnRound
<1>2. /\ cmCall \in CipherCalls /\ cmPlain \in Seq(CmByte) /\ (cmPlain = << >> => cmCall.pad)
      /\ cmPlain # << >> /\ ~cmCall.pad => Len(cmPlain) >= CmBlock
  BY DEF CmInv, CmShape
<1>3. cmSealed # << >> /\ cmSealed \in Seq(CmByte) /\ (cmPlain # << >> => SealedTo(cmCall, cmPlain, cmSealed))
  BY <1>1 DEF CmInv, CmOpening
<1>4. /\ Taking(cmCall, cmSealed, Provided(cmSealed, Len(cmSealed)), Len(cmSealed), Len(cmSealed))
      /\ Decrypting(cmCall, cmPlain, cmSealed, Provided(cmSealed, Len(cmSealed)), 0, CmIv)
  BY <1>2, <1>3, DecryptingFirst
<1>5. Taking(cmCall, cmSealed, cmMem, cmLen, Len(cmSealed))' /\ Decrypting(cmCall, cmPlain, cmSealed, cmMem, cmAt, cmChain)'
  BY <1>1, <1>4
<1>6. (cmAt <= Len(cmSealed) \div CmBlock)'
  <2>1. Len(cmSealed) \div CmBlock \in Nat
    BY <1>2, <1>3, RoomIs
  <2> QED  BY <1>1, <2>1
<1>7. CmShape'
  <2>1. cmChain' \in Blks /\ cmAt' \in Nat
    BY <1>1, CmNumbers
  <2> QED  BY <1>1, <1>2, <2>1 DEF CmShape
<1>8. CmSealing'
  BY <1>1 DEF CmSealing
<1>9. CmOpening'
  <2>1. cmPc' = "decrypt" /\ cmSealed' # << >> /\ cmSealed' \in Seq(CmByte)
    BY <1>1, <1>3
  <2>2. cmPlain' # << >> => SealedTo(cmCall, cmPlain, cmSealed)'
    BY <1>1, <1>3
  <2> QED  BY <1>5, <1>6, <2>1, <2>2 DEF CmOpening
<1> QED  BY <1>7, <1>8, <1>9 DEF CmInv

\* What is known in a decryption.
LEMMA DecryptIs ==
  ASSUME CmInv, cmPc = "decrypt"
  PROVE  LET N == Len(cmSealed) \div CmBlock
             l == Len(cmSealed)
         IN  /\ cmCall \in CipherCalls /\ cmChain \in Blks /\ cmAt \in Nat /\ cmPlain \in Seq(CmByte) /\ cmSealed \in Seq(CmByte)
             /\ cmSealed # << >>
             /\ N \in Nat /\ NumBlocks = N /\ cmLen = l /\ l \in Nat \ {0}
             /\ N * CmBlock \in Nat /\ N * CmBlock <= l /\ cmAt <= N
             /\ OutAt = OutOf(cmCall, cmSealed) /\ OutAt \in Nat /\ cmMem \in Seq(CmByte) /\ Len(cmMem) = OutAt + l
             /\ OutAt + N * CmBlock <= Len(cmMem)
             /\ (N >= 1 => CmBlock <= l)
             /\ Taking(cmCall, cmSealed, cmMem, cmLen, l) /\ Decrypting(cmCall, cmPlain, cmSealed, cmMem, cmAt, cmChain)
<1> DEFINE l == Len(cmSealed)
           N == l \div CmBlock
           y == N * CmBlock
<1>1. cmCall \in CipherCalls /\ cmChain \in Blks /\ cmAt \in Nat /\ cmPlain \in Seq(CmByte)
  BY DEF CmInv, CmShape
<1>2. /\ cmSealed # << >> /\ cmSealed \in Seq(CmByte)
      /\ Taking(cmCall, cmSealed, cmMem, cmLen, l) /\ cmAt <= N
      /\ Decrypting(cmCall, cmPlain, cmSealed, cmMem, cmAt, cmChain)
  BY DEF CmInv, CmOpening
<1>3. /\ OutAt = OutOf(cmCall, cmSealed) /\ OutAt \in Nat /\ Len(cmMem) = OutAt + l /\ cmLen = l
      /\ NumBlocks = N /\ N \in Nat /\ l \in Nat \ {0} /\ cmMem \in Seq(CmByte)
  BY <1>1, <1>2, OutIs
<1>4. y \in Nat /\ y <= l
  BY <1>3, MoreIs
<1>5. N >= 1 => CmBlock <= l
  BY <1>1, <1>2, RoomIs
<1> HIDE DEF y
<1>6. OutAt + y <= Len(cmMem)
  BY <1>3, <1>4
<1> QED  BY <1>1, <1>2, <1>3, <1>4, <1>5, <1>6 DEF y

\* The loop of a padded decryption leaves the last block.
LEMMA LoopIs ==
  ASSUME cmCall \in CipherCalls, NumBlocks \in Nat
  PROVE  LoopBlocks <= NumBlocks /\ (cmCall.pad => LoopBlocks = NumBlocks - 1) /\ (~cmCall.pad => LoopBlocks = NumBlocks)
BY CallIs DEF LoopBlocks

LEMMA DecryptBlockKeeps == CmInv /\ DecryptBlock => CmInv'
<1> SUFFICES ASSUME CmInv, DecryptBlock PROVE CmInv'
  OBVIOUS
<1> DEFINE l == Len(cmSealed)
           N == l \div CmBlock
           res == Opening(cmCall.mode, cmSealed, N)
           c == InputBlock(BlockPlace)
           blk == OpenedBlock(c)
           new == StoredBytes(BlockPlace, blk)
           i == cmAt + 1
<1>1. /\ cmPc = "decrypt" /\ cmAt < LoopBlocks /\ cmAt' = cmAt + 1
      /\ cmMem' = new /\ cmChain' = NextChain(c)
      /\ UNCHANGED <<cmCall, cmPlain, cmSealed, cmLen, cmText, cmPc>>
  BY DEF DecryptBlock
<1>2. /\ cmCall \in CipherCalls /\ cmChain \in Blks /\ cmAt \in Nat /\ cmPlain \in Seq(CmByte) /\ cmSealed \in Seq(CmByte)
      /\ N \in Nat /\ NumBlocks = N /\ l \in Nat /\ (N >= 1 => CmBlock <= l)
      /\ OutAt = OutOf(cmCall, cmSealed) /\ OutAt \in Nat /\ cmMem \in Seq(CmByte) /\ Len(cmMem) = OutAt + l
      /\ Taking(cmCall, cmSealed, cmMem, cmLen, l) /\ Decrypting(cmCall, cmPlain, cmSealed, cmMem, cmAt, cmChain)
  BY <1>1, DecryptIs
<1>3. N * CmBlock <= l /\ OutAt + N * CmBlock <= Len(cmMem)
  BY <1>1, DecryptIs
<1>4. cmPlain # << >> => SealedTo(cmCall, cmPlain, cmSealed)
  BY <1>1 DEF CmInv, CmOpening
<1>5. cmAt < N /\ i <= N /\ i \in 1..N /\ i \in Nat /\ i # 0 /\ N >= 1
  <2> HIDE DEF N
  <2>1. LoopBlocks <= N
    BY <1>2, LoopIs
  <2> QED  BY <1>1, <1>2, <2>1, LoopIs
<1>6. /\ new \in Seq(CmByte) /\ Len(new) = Len(cmMem) /\ cmChain' \in Blks
      /\ Decrypting(cmCall, cmPlain, cmSealed, new, i, cmChain')
  <2>1. CASE cmCall.mode # "CFB1"
    <3>1. BlockPlace = cmAt /\ cmCall.mode \in {"ECB", "CBC"}
      BY <1>2, <2>1, CallIs DEF BlockPlace
    <3>2. Worked(cmMem, OutAt, cmCall.inPlace, cmSealed, cmAt, res) /\ cmChain = CipherBlock(cmSealed, cmAt)
      BY <1>2, <2>1 DEF Decrypting
    <3> HIDE DEF N, res
    <3>3. /\ InputBlock(cmAt) = CipherBlock(cmSealed, i)
          /\ OpenedBlock(InputBlock(cmAt)) = PlainOf(cmCall.mode, cmSealed, i)
          /\ PlainOf(cmCall.mode, cmSealed, i) \in Blks
      BY <1>2, <1>3, <1>5, <3>1, <3>2, CipherRead
    <3>4. c = CipherBlock(cmSealed, i) /\ blk = PlainOf(cmCall.mode, cmSealed, i) /\ blk \in Blks
      BY <3>1, <3>3
    <3>5. res[i] = blk
      BY <1>5, <3>4 DEF res, Opening
    <3> HIDE DEF blk
    <3>6. /\ Worked(StoredBytes(cmAt, blk), OutAt, cmCall.inPlace, cmSealed, i, res)
          /\ Len(StoredBytes(cmAt, blk)) = Len(cmMem) /\ StoredBytes(cmAt, blk) \in Seq(CmByte)
      BY <1>2, <1>3, <1>5, <3>2, <3>4, <3>5, NextWorked
    <3>7. Worked(new, OutAt, cmCall.inPlace, cmSealed, i, res) /\ Len(new) = Len(cmMem) /\ new \in Seq(CmByte)
      BY <3>1, <3>6
    <3>8. cmChain' = c
      BY <1>1, <2>1 DEF NextChain
    <3>9. CipherBlock(cmSealed, i) \in Blks
      <4>1. i \in 0..N
        BY <1>5
      <4> HIDE DEF i
      <4> QED  BY <1>2, <1>3, <4>1, CipherTypedIs
    <3>10. ~OneStream(cmCall, cmPlain)
      BY <2>1 DEF OneStream
    <3> HIDE DEF new, i, c
    <3>11. Decrypting(cmCall, cmPlain, cmSealed, new, i, cmChain')
      BY <1>2, <3>4, <3>7, <3>8, <3>10 DEF Decrypting, res, N
    <3> QED  BY <3>4, <3>7, <3>8, <3>9, <3>11
  <2>2. CASE cmCall.mode = "CFB1"
    <3>1. BlockPlace = 0 /\ blk = Cfb(c, FALSE)
      BY <2>2 DEF BlockPlace, OpenedBlock
    <3>2. CmBlock <= Len(cmMem) /\ CmBlock <= l /\ OutAt = 0
      <4>1. OutAt = 0
        BY <1>2, <2>2, CallIs DEF OutAt
      <4> HIDE DEF N, l
      <4> QED  BY <1>2, <1>5, <4>1, CmNumbers
    <3>3. /\ InputBlock(0) \in Blks /\ InputBlock(0) = CipherBlock(cmMem, 1) /\ Cfb(InputBlock(0), FALSE) \in Blks
          /\ StoredBytes(0, Cfb(InputBlock(0), FALSE)) \in Seq(CmByte)
          /\ Len(StoredBytes(0, Cfb(InputBlock(0), FALSE))) = Len(cmMem)
          /\ CipherBlock(StoredBytes(0, Cfb(InputBlock(0), FALSE)), 1) = Cfb(InputBlock(0), FALSE)
      BY <1>2, <2>2, <3>2, StreamStep
    <3>4. /\ c \in Blks /\ c = CipherBlock(cmMem, 1) /\ blk \in Blks /\ new \in Seq(CmByte) /\ Len(new) = Len(cmMem)
          /\ CipherBlock(new, 1) = blk
      BY <3>1, <3>3
    <3>5. cmChain' = Registers(c, FALSE)[CmLast + 1]
      BY <1>1, <2>2 DEF NextChain
    <3>6. blk = Cfb(c, FALSE)
      BY <3>1
    <3> HIDE DEF c, blk, new
    <3>7. cmChain' \in Blks
      BY <1>2, <3>4, <3>5, RegisterTyped
    <3>8. ASSUME OneStream(cmCall, cmPlain), i = 1 PROVE CipherBlock(new, 1) = PlainBlock(cmPlain, 1)
      <4>1. cmAt = 0
        BY <1>2, <3>8
      <4>2. cmChain = CmIv /\ cmMem = cmSealed
        BY <1>2, <3>8, <4>1 DEF Decrypting
      <4>3. cmPlain # << >>
        <5>1. Len(cmPlain) \div CmBlock = 1
          BY <3>8 DEF OneStream
        <5>2. cmPlain = << >> => cmCall.pad
          BY DEF CmInv, CmShape
        <5> QED  BY <1>2, <2>2, <5>2, CallIs
      <4>4. Streamed(PlainBlock(cmPlain, 1), CipherBlock(cmSealed, 1))
        BY <1>4, <3>8, <4>3 DEF SealedTo
      <4>5. PlainBlock(cmPlain, 1) \in Blks
        BY <1>2, PlainTyped
      <4>6. Cfb(c, FALSE) = PlainBlock(cmPlain, 1)
        BY <3>4, <4>2, <4>4, <4>5, CfbOpens
      <4> QED  BY <3>4, <3>6, <4>6
    <3>9. Decrypting(cmCall, cmPlain, cmSealed, new, i, cmChain')
      BY <1>5, <2>2, <3>8 DEF Decrypting
    <3> QED  BY <3>4, <3>7, <3>9
  <2> QED  BY <2>1, <2>2
<1> HIDE DEF new, blk, c, res
<1>7. Taking(cmCall, cmSealed, new, cmLen, l)
  BY <1>2, <1>6, TakingKept
<1>8. CmShape'
  <2>1. /\ cmPlain = << >> => cmCall.pad
        /\ cmPlain # << >> /\ ~cmCall.pad => Len(cmPlain) >= CmBlock
    BY DEF CmInv, CmShape
  <2> QED  BY <1>1, <1>2, <1>5, <1>6, <2>1 DEF CmShape
<1>9. CmSealing'
  BY <1>1 DEF CmSealing
<1>10. CmOpening'
  <2>1. cmPc' = "decrypt" /\ cmSealed' # << >> /\ cmSealed' \in Seq(CmByte)
    BY <1>1, <1>2, DecryptIs
  <2>2. cmPlain' # << >> => SealedTo(cmCall, cmPlain, cmSealed)'
    BY <1>1, <1>4
  <2>3. Taking(cmCall, cmSealed, cmMem, cmLen, Len(cmSealed))' /\ Decrypting(cmCall, cmPlain, cmSealed, cmMem, cmAt, cmChain)'
    BY <1>1, <1>6, <1>7
  <2>4. (cmAt <= Len(cmSealed) \div CmBlock)'
    BY <1>1, <1>5
  <2> QED  BY <2>1, <2>2, <2>3, <2>4 DEF CmOpening
<1> QED  BY <1>8, <1>9, <1>10 DEF CmInv

LEMMA DecryptEndKeeps == CmInv /\ DecryptEnd => CmInv'
<1> SUFFICES ASSUME CmInv, DecryptEnd PROVE CmInv'
  OBVIOUS
<1> DEFINE l == Len(cmSealed)
           N == l \div CmBlock
           res == Opening(cmCall.mode, cmSealed, N)
<1>1. /\ cmPc = "decrypt" /\ ~cmCall.pad /\ cmAt = LoopBlocks /\ cmPc' = "done"
      /\ cmText' = SubSeq(cmMem, OutAt + 1, OutAt + NumBlocks * CmBlock)
      /\ UNCHANGED <<cmCall, cmPlain, cmSealed, cmMem, cmLen, cmAt, cmChain>>
  BY DEF DecryptEnd
<1>2. /\ cmCall \in CipherCalls /\ cmChain \in Blks /\ cmAt \in Nat /\ cmPlain \in Seq(CmByte) /\ cmSealed \in Seq(CmByte)
      /\ N \in Nat /\ NumBlocks = N /\ l \in Nat /\ (N >= 1 => CmBlock <= l) /\ cmAt <= N /\ cmSealed # << >>
      /\ OutAt = OutOf(cmCall, cmSealed) /\ OutAt \in Nat /\ cmMem \in Seq(CmByte) /\ Len(cmMem) = OutAt + l
      /\ Taking(cmCall, cmSealed, cmMem, cmLen, l) /\ Decrypting(cmCall, cmPlain, cmSealed, cmMem, cmAt, cmChain)
  BY <1>1, DecryptIs
<1>3. OutAt + N * CmBlock <= Len(cmMem)
  BY <1>1, DecryptIs
<1>4. cmPlain # << >> => SealedTo(cmCall, cmPlain, cmSealed)
  BY <1>1 DEF CmInv, CmOpening
<1>5. cmAt = N
  BY <1>1, <1>2, LoopIs
<1>6. cmText' = SubSeq(cmMem, OutAt + 1, OutAt + N * CmBlock)
  BY <1>1, <1>2
<1>7. ASSUME cmCall.mode # "CFB1" PROVE Spelled(cmText', N, res)
  <2>1. Worked(cmMem, OutAt, cmCall.inPlace, cmSealed, N, res)
    BY <1>2, <1>5, <1>7 DEF Decrypting
  <2> HIDE DEF N, res
  <2> QED  BY <1>3, <1>6, <2>1, CutIs
<1>8. ASSUME OneStream(cmCall, cmPlain)
      PROVE  cmText' \in Seq(CmByte) /\ Len(cmText') = CmBlock /\ CipherBlock(cmText', 1) = PlainBlock(cmPlain, 1)
  <2>1. cmCall.mode = "CFB1" /\ Len(cmPlain) \div CmBlock = 1
    BY <1>8 DEF OneStream
  <2>2. ~cmCall.pad /\ OutAt = 0
    BY <1>2, <2>1, CallIs DEF OutAt
  <2>3. cmPlain # << >>
    <3>1. cmPlain = << >> => cmCall.pad
      BY DEF CmInv, CmShape
    <3> QED  BY <2>2, <3>1
  <2>4. N = 1
    <3>1. Len(cmSealed) = SealedBlocks(cmCall, cmPlain) * CmBlock
      BY <1>4, <2>3 DEF SealedTo
    <3>2. SealedBlocks(cmCall, cmPlain) = 1
      BY <2>1, <2>2 DEF SealedBlocks
    <3>3. l = 1 * CmBlock
      BY <3>1, <3>2
    <3> QED  BY <3>3, WholeBlocks
  <2>5. cmText' = SubSeq(cmMem, 0 + 1, 0 + 1 * CmBlock)
    BY <1>6, <2>2, <2>4
  <2>6. CmBlock <= Len(cmMem)
    <3> HIDE DEF N, l
    <3> QED  BY <1>2, <2>2, <2>4
  <2>7. CipherBlock(cmMem, 1) = PlainBlock(cmPlain, 1)
    BY <1>2, <1>5, <1>8, <2>4 DEF Decrypting
  <2> QED  BY <1>2, <2>5, <2>6, <2>7, FirstCut
<1>9. OpenedTo(cmCall, cmPlain, cmSealed, cmText')
  BY <1>1, <1>7, <1>8 DEF OpenedTo
<1>10. CmShape'
  <2>1. /\ cmPlain = << >> => cmCall.pad
        /\ cmPlain # << >> /\ ~cmCall.pad => Len(cmPlain) >= CmBlock
    BY DEF CmInv, CmShape
  <2> QED  BY <1>1, <1>2, <2>1 DEF CmShape
<1>11. CmSealing'
  BY <1>1 DEF CmSealing
<1>12. CmOpening'
  <2>1. cmPc' = "done" /\ cmSealed' # << >> /\ cmSealed' \in Seq(CmByte)
    BY <1>1, <1>2
  <2>2. cmPlain' # << >> => SealedTo(cmCall, cmPlain, cmSealed)'
    BY <1>1, <1>4
  <2>3. Taking(cmCall, cmSealed, cmMem, cmLen, Len(cmSealed))' /\ OpenedTo(cmCall, cmPlain, cmSealed, cmText)'
    BY <1>1, <1>2, <1>9
  <2>4. (cmAt <= Len(cmSealed) \div CmBlock)'
    BY <1>1, <1>2
  <2> QED  BY <2>1, <2>2, <2>3, <2>4 DEF CmOpening
<1> QED  BY <1>10, <1>11, <1>12 DEF CmInv

\* What Unpadded says of a block.
LEMMA UnpaddedIs ==
  ASSUME cmCall.mode \in {"ECB", "CBC"}, NEW b \in Blks
  PROVE  LET z == b[CmBlock]
         IN  /\ Unpadded(b) # << >> =>
                  /\ z \in 0..CmBlock /\ Unpadded(b)[1] = SubSeq(b, 1, CmBlock - z)
                  /\ cmCall.mode = "CBC" => z >= 1 /\ \A j \in (CmBlock - z + 1)..CmBlock : b[j] = z
             /\ cmCall.mode = "CBC" /\ z \in 1..CmBlock /\ (\A j \in (CmBlock - z + 1)..CmBlock : b[j] = z) =>
                  Unpadded(b) # << >>
<1> DEFINE z == b[CmBlock]
           fits == IF cmCall.mode = "ECB" THEN z < CmBlock ELSE z > 0 /\ z <= CmBlock
           rest == SubSeq(b, 1, CmBlock - z)
           same == \A j \in (CmBlock - z + 1)..CmBlock : b[j] = z
<1>1. Unpadded(b) = IF fits /\ same THEN <<rest>> ELSE << >>
  BY DEF Unpadded
<1>2. z \in Nat /\ CmBlock \in Nat
  <2>1. CmBlock \in 1..CmBlock /\ CmBlock \in Nat
    BY CmNumbers
  <2>2. b[CmBlock] \in CmByte
    BY <2>1 DEF Blks
  <2> QED  BY <2>1, <2>2 DEF CmByte
<1> HIDE DEF z, rest, same
<1>3. fits => z \in 0..CmBlock
  BY <1>2
<1>4. cmCall.mode = "CBC" => (fits <=> z \in 1..CmBlock)
  BY <1>2
<1> HIDE DEF fits
<1>5. <<rest>> # << >> /\ <<rest>>[1] = rest
  OBVIOUS
<1>6. Unpadded(b) # << >> => fits /\ same /\ Unpadded(b)[1] = rest
  BY <1>1, <1>5
<1>7. fits /\ same => Unpadded(b) # << >>
  BY <1>1, <1>5
<1>8. z \in 1..CmBlock => z >= 1
  BY <1>2
<1> QED  BY <1>3, <1>4, <1>6, <1>7, <1>8 DEF z, rest, same

\* The last block of a padded decryption.
LEMMA LastIs ==
  ASSUME CmInv, cmPc = "decrypt", cmCall.pad, cmLen % CmBlock = 0, cmAt = LoopBlocks
  PROVE  LET N == Len(cmSealed) \div CmBlock
             b == OpenedBlock(InputBlock(cmAt))
         IN  /\ N = cmAt + 1 /\ Len(cmSealed) = N * CmBlock /\ cmCall.mode \in {"ECB", "CBC"}
             /\ b = PlainOf(cmCall.mode, cmSealed, N) /\ b \in Blks
             /\ Worked(cmMem, OutAt, cmCall.inPlace, cmSealed, cmAt, Opening(cmCall.mode, cmSealed, N))
<1> DEFINE l == Len(cmSealed)
           N == l \div CmBlock
           b == OpenedBlock(InputBlock(cmAt))
           res == Opening(cmCall.mode, cmSealed, N)
           y == N * CmBlock
<1>1. /\ cmCall \in CipherCalls /\ cmAt \in Nat /\ N \in Nat /\ NumBlocks = N /\ l \in Nat /\ cmLen = l
      /\ OutAt = OutOf(cmCall, cmSealed) /\ cmSealed \in Seq(CmByte)
      /\ Decrypting(cmCall, cmPlain, cmSealed, cmMem, cmAt, cmChain)
  BY DecryptIs
<1>2. l = y
  <2>1. l % CmBlock = l - y /\ y \in Nat
    BY <1>1, MoreIs
  <2>2. l % CmBlock = 0
    BY <1>1
  <2> HIDE DEF y, l
  <2> QED  BY <1>1, <2>1, <2>2
<1>3. cmCall.mode \in {"ECB", "CBC"} /\ cmCall.mode # "CFB1"
  BY <1>1, CallIs
<1>4. Worked(cmMem, OutAt, cmCall.inPlace, cmSealed, cmAt, res) /\ cmChain = CipherBlock(cmSealed, cmAt)
  BY <1>1, <1>3 DEF Decrypting
<1> HIDE DEF N
<1>5. N = cmAt + 1 /\ cmAt < N
  <2>1. LoopBlocks = N - 1
    BY <1>1, LoopIs
  <2> QED  BY <1>1, <2>1
<1>6. N * CmBlock <= Len(cmSealed)
  <2>1. y <= l
    BY <1>1, <1>2
  <2> QED  BY <2>1
<1> HIDE DEF res
<1>7. b = PlainOf(cmCall.mode, cmSealed, cmAt + 1) /\ PlainOf(cmCall.mode, cmSealed, cmAt + 1) \in Blks
  BY <1>1, <1>3, <1>4, <1>5, <1>6, CipherRead
<1>8. b = PlainOf(cmCall.mode, cmSealed, N) /\ b \in Blks
  BY <1>5, <1>7
<1> QED  BY <1>2, <1>3, <1>4, <1>5, <1>8 DEF N, res

LEMMA UnpadKeeps == CmInv /\ Unpad => CmInv'
<1> SUFFICES ASSUME CmInv, Unpad PROVE CmInv'
  OBVIOUS
<1> DEFINE l == Len(cmSealed)
           N == l \div CmBlock
           b == OpenedBlock(InputBlock(cmAt))
           z == b[CmBlock]
           r == CmBlock - z
           rest == Unpadded(b)
           cut == SubSeq(b, 1, r)
           new == StoredBytes(cmAt, cut)
           p == PlainOf(cmCall.mode, cmSealed, N)
<1>1. /\ cmPc = "decrypt" /\ cmCall.pad /\ cmLen % CmBlock = 0 /\ cmAt = LoopBlocks /\ cmPc' = "done"
      /\ rest # << >> /\ cmMem' = StoredBytes(cmAt, rest[1])
      /\ cmText' = SubSeq(cmMem', OutAt + 1, OutAt + cmAt * CmBlock + Len(rest[1]))
      /\ UNCHANGED <<cmCall, cmPlain, cmSealed, cmLen, cmAt, cmChain>>
  BY DEF Unpad
<1>2. /\ cmCall \in CipherCalls /\ cmChain \in Blks /\ cmAt \in Nat /\ cmPlain \in Seq(CmByte) /\ cmSealed \in Seq(CmByte)
      /\ cmAt <= N /\ cmSealed # << >> /\ OutAt \in Nat
      /\ Taking(cmCall, cmSealed, cmMem, cmLen, l)
  BY <1>1, DecryptIs
<1>3. OutAt + N * CmBlock <= Len(cmMem)
  BY <1>1, DecryptIs
<1>4. /\ N = cmAt + 1 /\ Len(cmSealed) = N * CmBlock /\ cmCall.mode \in {"ECB", "CBC"}
      /\ b = p /\ b \in Blks
      /\ Worked(cmMem, OutAt, cmCall.inPlace, cmSealed, cmAt, Opening(cmCall.mode, cmSealed, N))
  BY <1>1, LastIs
<1>5. cmPlain # << >> => SealedTo(cmCall, cmPlain, cmSealed)
  BY <1>1 DEF CmInv, CmOpening
<1> HIDE DEF N, b
<1>6. /\ z \in 0..CmBlock /\ rest[1] = cut
      /\ cmCall.mode = "CBC" => z >= 1 /\ \A j \in (CmBlock - z + 1)..CmBlock : b[j] = z
  BY <1>1, <1>4, UnpaddedIs
<1>7. z = p[CmBlock] /\ (cmCall.mode = "CBC" => z >= 1 /\ \A j \in (CmBlock - z + 1)..CmBlock : p[j] = z)
      /\ cut = SubSeq(p, 1, CmBlock - z)
  BY <1>4, <1>6
<1> HIDE DEF rest, z
<1>a. PaddingOf(cmCall.mode, cmSealed, N, z)
  BY <1>6, <1>7 DEF PaddingOf
<1>8. LET rst == SubSeq(PlainOf(cmCall.mode, cmSealed, N), 1, CmBlock - z)
          nw  == StoredBytes(cmAt, rst)
      IN  /\ rst \in Seq(CmByte) /\ Len(rst) = CmBlock - z
          /\ nw \in Seq(CmByte) /\ Len(nw) = Len(cmMem)
          /\ TextOf(cmCall.mode, cmSealed, SubSeq(nw, OutAt + 1, OutAt + cmAt * CmBlock + (CmBlock - z)))
  BY <1>2, <1>3, <1>4, <1>a, TextCut
<1> HIDE DEF p, r
<1>9. /\ cut \in Seq(CmByte) /\ Len(cut) = CmBlock - z /\ new \in Seq(CmByte) /\ Len(new) = Len(cmMem)
      /\ TextOf(cmCall.mode, cmSealed, SubSeq(new, OutAt + 1, OutAt + cmAt * CmBlock + (CmBlock - z)))
  BY <1>7, <1>8 DEF p
<1>10. cmMem' = new
  BY <1>1, <1>6
<1>11. TextOf(cmCall.mode, cmSealed, cmText')
  BY <1>1, <1>6, <1>9, <1>10
<1>12. OpenedTo(cmCall, cmPlain, cmSealed, cmText')
  <2>1. ~OneStream(cmCall, cmPlain)
    BY <1>4 DEF OneStream
  <2> QED  BY <1>1, <1>11, <2>1 DEF OpenedTo
<1>13. Taking(cmCall, cmSealed, cmMem', cmLen, l)
  <2> HIDE DEF new, cut
  <2> QED  BY <1>2, <1>9, <1>10, TakingKept
<1> HIDE DEF new, cut
<1>14. CmShape'
  <2>1. /\ cmPlain = << >> => cmCall.pad
        /\ cmPlain # << >> /\ ~cmCall.pad => Len(cmPlain) >= CmBlock
    BY DEF CmInv, CmShape
  <2> QED  BY <1>1, <1>2, <2>1 DEF CmShape
<1>15. CmSealing'
  BY <1>1 DEF CmSealing
<1>16. CmOpening'
  <2>1. cmPc' = "done" /\ cmSealed' # << >> /\ cmSealed' \in Seq(CmByte)
    BY <1>1, <1>2
  <2>2. cmPlain' # << >> => SealedTo(cmCall, cmPlain, cmSealed)'
    BY <1>1, <1>5
  <2>3. Taking(cmCall, cmSealed, cmMem, cmLen, Len(cmSealed))' /\ OpenedTo(cmCall, cmPlain, cmSealed, cmText)'
    BY <1>1, <1>12, <1>13
  <2>4. (cmAt <= Len(cmSealed) \div CmBlock)'
    BY <1>1, <1>2 DEF N
  <2> QED  BY <2>1, <2>2, <2>3, <2>4 DEF CmOpening
<1> QED  BY <1>14, <1>15, <1>16 DEF CmInv

\* Of what CBC has padded nothing is refused.
LEMMA NothingRefused ==
  ASSUME CmInv, RefusePadding, cmCall.mode = "CBC", cmPlain # << >>
  PROVE  FALSE
<1> DEFINE k == SealedBlocks(cmCall, cmPlain)
           Cb == Sealing(cmCall.mode, cmPlain, k)
           N == Len(cmSealed) \div CmBlock
           b == OpenedBlock(InputBlock(cmAt))
<1>1. /\ cmPc = "decrypt" /\ cmCall.pad
      /\ \/ cmLen % CmBlock # 0
         \/ cmAt = LoopBlocks /\ Unpadded(b) = << >>
  BY DEF RefusePadding
<1>2. cmCall \in CipherCalls /\ cmPlain \in Seq(CmByte) /\ cmLen = Len(cmSealed)
  BY <1>1, DecryptIs
<1>3. SealedTo(cmCall, cmPlain, cmSealed)
  BY <1>1 DEF CmInv, CmOpening
<1>4. Len(cmSealed) = k * CmBlock /\ Spelled(cmSealed, k, Cb)
  BY <1>3 DEF SealedTo
<1>5. k \in Nat
  BY <1>2, RoomIs
<1>6. MorePadded(cmPlain, k)
  BY <1>1, <1>2, RoomIs DEF MorePadded
<1>7. Seals(Cb, cmCall.mode, cmPlain, k)
  BY <1>2, <1>5, SealingIs
<1> HIDE DEF k, Cb
<1>8. cmLen % CmBlock = 0 /\ N = k
  <2>1. (k * CmBlock) \div CmBlock = k /\ (k * CmBlock) % CmBlock = 0
    BY <1>5, WholeBlocks
  <2> QED  BY <1>2, <1>4, <2>1
<1>9. cmAt = LoopBlocks /\ Unpadded(b) = << >>
  BY <1>1, <1>8
<1>10. b = PlainOf(cmCall.mode, cmSealed, N) /\ b \in Blks
  BY <1>1, <1>8, <1>9, LastIs
<1> HIDE DEF b, N
<1>11. b[CmBlock] \in 1..CmBlock /\ \A j \in (CmBlock - b[CmBlock] + 1)..CmBlock : b[j] = b[CmBlock]
  <2>1. b = PlainOf(cmCall.mode, cmSealed, k)
    BY <1>8, <1>10
  <2> QED  BY <1>2, <1>4, <1>6, <1>7, <2>1, PaddingBack
<1>12. Unpadded(b) # << >>
  BY <1>10, <1>11, UnpaddedIs
<1> QED  BY <1>9, <1>12

LEMMA RefusePaddingKeeps == CmInv /\ RefusePadding => CmInv'
<1> SUFFICES ASSUME CmInv, RefusePadding PROVE CmInv'
  OBVIOUS
<1>1. /\ cmPc = "decrypt" /\ cmPc' = "corrupted"
      /\ UNCHANGED <<cmCall, cmPlain, cmSealed, cmMem, cmLen, cmAt, cmChain, cmText>>
  BY DEF RefusePadding
<1>2. cmCall.mode = "CBC" => cmPlain = << >>
  BY NothingRefused
<1>3. CmShape'
  BY <1>1 DEF CmInv, CmShape
<1>4. CmSealing'
  BY <1>1 DEF CmSealing
<1>5. CmOpening'
  BY <1>1, <1>2 DEF CmInv, CmOpening
<1> QED  BY <1>3, <1>4, <1>5 DEF CmInv

LEMMA CmInvKept == CmInv /\ [CmNext]_cmVars => CmInv'
<1> SUFFICES ASSUME CmInv, [CmNext]_cmVars PROVE CmInv'
  OBVIOUS
<1>1. CASE UNCHANGED cmVars
  BY <1>1 DEF cmVars, CmInv, CmShape, CmSealing, CmOpening
<1>2. CASE CmNext
  BY <1>2, EncryptBlockKeeps, EncryptEndKeeps, TurnRoundKeeps, DecryptBlockKeeps, DecryptEndKeeps, UnpadKeeps,
     RefusePaddingKeeps DEF CmNext
<1> QED  BY <1>1, <1>2

LEMMA CmInvTypes == CmInv => CmTypeOK
<1> SUFFICES ASSUME CmInv PROVE CmTypeOK
  OBVIOUS
<1>1. /\ cmCall \in CipherCalls /\ cmChain \in Blks /\ cmAt \in Nat /\ cmPlain \in Seq(CmByte)
      /\ cmPc \in {"encrypt", "sealed", "decrypt", "done", "corrupted"}
  BY DEF CmInv, CmShape
<1> DEFINE Nb == NumBlocks
           y == (Nb + 1) * CmBlock
<1>2. CASE cmPc \in {"encrypt", "sealed"}
  <2> DEFINE r == RoomFor(cmCall, cmPlain)
  <2>1. Taking(cmCall, cmPlain, cmMem, cmLen, r) /\ cmAt <= (Len(cmPlain) \div CmBlock) + 1
    <3>1. Taking(cmCall, cmPlain, cmMem, cmLen, r)
      BY <1>2 DEF CmInv, CmSealing
    <3> DEFINE N == Len(cmPlain) \div CmBlock
    <3>2. N \in Nat /\ (cmAt <= N \/ cmAt <= N + 1)
      BY <1>1, <1>2, RoomIs DEF CmInv, CmSealing
    <3> HIDE DEF N, r
    <3>3. cmAt <= N + 1
      BY <1>1, <3>2
    <3> QED  BY <3>1, <3>3 DEF N
  <2>2. /\ OutAt \in Nat /\ Len(cmMem) = OutAt + r /\ cmLen = Len(cmPlain) /\ NumBlocks = Len(cmPlain) \div CmBlock
        /\ NumBlocks \in Nat /\ cmLen \in Nat \ {0} /\ cmMem \in Seq(CmByte)
    BY <1>1, <2>1, OutIs
  <2>3. r \in Nat /\ r >= cmLen
    BY <1>1, <2>2, RoomIs
  <2>4. r = IF cmCall.pad THEN y ELSE cmLen
    BY <2>2 DEF RoomFor
  <2>5. OutAt = 0 \/ OutAt = cmLen
    BY DEF OutAt
  <2>6. cmAt \in 0..(Nb + 1)
    BY <1>1, <2>1, <2>2
  <2> HIDE DEF r, y, Nb
  <2>7. cmLen \in 1..Len(cmMem)
    BY <2>2, <2>3
  <2>8. Len(cmMem) \in {cmLen, 2 * cmLen, y, cmLen + y}
    BY <2>2, <2>3, <2>4, <2>5
  <2> QED  BY <1>1, <2>2, <2>6, <2>7, <2>8 DEF CmTypeOK, y, Nb
<1>3. CASE cmPc \in {"decrypt", "done", "corrupted"}
  <2> DEFINE l == Len(cmSealed)
  <2>1. Taking(cmCall, cmSealed, cmMem, cmLen, l) /\ cmAt <= l \div CmBlock
    BY <1>3 DEF CmInv, CmOpening
  <2>2. /\ OutAt \in Nat /\ Len(cmMem) = OutAt + l /\ cmLen = l /\ NumBlocks = l \div CmBlock
        /\ NumBlocks \in Nat /\ cmLen \in Nat \ {0} /\ cmMem \in Seq(CmByte)
    BY <1>1, <2>1, OutIs
  <2>3. OutAt = 0 \/ OutAt = cmLen
    BY DEF OutAt
  <2>4. cmAt \in 0..(Nb + 1)
    BY <1>1, <2>1, <2>2
  <2> HIDE DEF l, y, Nb
  <2>5. cmLen \in 1..Len(cmMem) /\ (Len(cmMem) = cmLen \/ Len(cmMem) = 2 * cmLen)
    BY <2>2, <2>3
  <2> QED  BY <1>1, <2>2, <2>4, <2>5 DEF CmTypeOK, y, Nb
<1> QED  BY <1>1, <1>2, <1>3

\* What the invariant says of the three promises.
LEMMA CmInvIsRight == CmInv => CmCorrect
<1> SUFFICES ASSUME CmInv PROVE CmCorrect
  OBVIOUS
<1> DEFINE k == SealedBlocks(cmCall, cmPlain)
           Cb == Sealing(cmCall.mode, cmPlain, k)
<1>1. /\ cmCall \in CipherCalls /\ cmPlain \in Seq(CmByte) /\ (cmPlain = << >> => cmCall.pad)
      /\ cmPlain # << >> /\ ~cmCall.pad => Len(cmPlain) >= CmBlock
  BY DEF CmInv, CmShape
<1>2. cmSealed # << >> /\ cmPlain # << >> => SealedTo(cmCall, cmPlain, cmSealed)
  BY DEF CmInv, CmSealing, CmOpening
<1>3. k \in Nat /\ k = Count(cmCall.pad, cmPlain)
  BY <1>1, RoomIs DEF SealedBlocks, Count
<1>4. Seals(Cb, cmCall.mode, cmPlain, k)
  BY <1>1, <1>3, SealingIs
<1>5. cmPlain # << >> => k \in Nat \ {0}
  <2> DEFINE N == Len(cmPlain) \div CmBlock
  <2>1. /\ N \in Nat /\ (cmCall.pad => k = N + 1) /\ (~cmCall.pad => k = N) /\ (Len(cmPlain) >= CmBlock => N >= 1)
    BY <1>1, RoomIs
  <2> HIDE DEF N, k
  <2> QED  BY <1>1, <1>3, <2>1
<1> HIDE DEF k, Cb
<1>6. SealedRight
  <2> SUFFICES ASSUME cmPlain # << >>, cmSealed # << >>, cmCall.mode # "CFB1" PROVE cmSealed = Chained(cmPlain)
    BY DEF SealedRight
  <2>1. Spelled(cmSealed, k, Cb)
    BY <1>2 DEF SealedTo, Cb, k
  <2>2. cmCall.pad \in BOOLEAN
    BY <1>1, CallIs
  <2>3. Spelled(Chained(cmPlain), k, Cb)
    BY <1>1, <1>3, <1>4, <1>5, <2>2, ChainedIs
  <2> QED  BY <1>3, <2>1, <2>3, SameText
<1> DEFINE N == Len(cmSealed) \div CmBlock
<1>7. cmPc = "done" => /\ cmSealed # << >> /\ cmSealed \in Seq(CmByte) /\ OpenedTo(cmCall, cmPlain, cmSealed, cmText)
                       /\ Taking(cmCall, cmSealed, cmMem, cmLen, Len(cmSealed))
  BY DEF CmInv, CmOpening
<1>8. cmPc = "done" => NumBlocks = N
  BY <1>1, <1>7, OutIs
<1>9. cmPc = "done" /\ cmPlain # << >> => N = k /\ Len(cmSealed) = k * CmBlock
  <2> SUFFICES ASSUME cmPc = "done", cmPlain # << >> PROVE N = k /\ Len(cmSealed) = k * CmBlock
    OBVIOUS
  <2>1. Len(cmSealed) = k * CmBlock
    BY <1>2, <1>7 DEF SealedTo, k
  <2> QED  BY <1>3, <2>1, WholeBlocks
<1> HIDE DEF N
<1>10. RoundTrips
  <2> SUFFICES ASSUME cmPc = "done", cmPlain # << >>, cmCall.mode = "CFB1" => NumBlocks = 1
               PROVE  cmText = SubSeq(cmPlain, 1, IF cmCall.pad THEN Len(cmPlain) ELSE NumBlocks * CmBlock)
    BY DEF RoundTrips
  <2>1. NumBlocks = k /\ N = k /\ SealedTo(cmCall, cmPlain, cmSealed)
    BY <1>2, <1>7, <1>8, <1>9
  <2>2. CASE cmCall.pad
    <3>1. cmCall.mode # "CFB1"
      BY <1>1, <2>2, CallIs
    <3>2. Spelled(cmSealed, k, Cb)
      BY <2>1, <3>1 DEF SealedTo, Cb, k
    <3>3. MorePadded(cmPlain, k)
      BY <2>2 DEF MorePadded, k, SealedBlocks
    <3>4. TextOf(cmCall.mode, cmSealed, cmText)
      BY <1>7, <2>2 DEF OpenedTo
    <3>5. cmText = cmPlain
      BY <1>1, <1>4, <3>2, <3>3, <3>4, TextBack
    <3>6. SubSeq(cmPlain, 1, Len(cmPlain)) = cmPlain
      BY <1>1
    <3> QED  BY <2>2, <3>5, <3>6
  <2>3. CASE ~cmCall.pad /\ cmCall.mode # "CFB1"
    <3>1. Spelled(cmSealed, k, Cb)
      BY <2>1, <2>3 DEF SealedTo, Cb, k
    <3>2. k = Len(cmPlain) \div CmBlock
      BY <1>1, <2>3, RoomIs DEF k
    <3>3. Spelled(cmText, k, Opening(cmCall.mode, cmSealed, k))
      BY <1>7, <2>1, <2>3 DEF OpenedTo, N
    <3>4. cmText = SubSeq(cmPlain, 1, k * CmBlock)
      BY <1>1, <1>4, <3>1, <3>2, <3>3, WholeBack
    <3> QED  BY <2>1, <2>3, <3>4
  <2>4. CASE cmCall.mode = "CFB1"
    <3>1. ~cmCall.pad /\ k = 1 /\ k = Len(cmPlain) \div CmBlock
      BY <1>1, <2>1, <2>4, CallIs, RoomIs DEF k
    <3>2. OneStream(cmCall, cmPlain)
      BY <2>4, <3>1 DEF OneStream
    <3>3. cmText \in Seq(CmByte) /\ Len(cmText) = CmBlock /\ CipherBlock(cmText, 1) = PlainBlock(cmPlain, 1)
      BY <1>7, <3>2 DEF OpenedTo
    <3>4. cmText = SubSeq(cmPlain, 1, CmBlock)
      BY <1>1, <3>1, <3>3, OneBack
    <3>5. NumBlocks * CmBlock = CmBlock
      BY <2>1, <3>1, CmNumbers
    <3> QED  BY <3>1, <3>4, <3>5
  <2> QED  BY <1>1, <2>2, <2>3, <2>4, CallIs
<1>11. OnlyPadded
  <2> SUFFICES ASSUME cmCall.mode = "CBC"
               PROVE  /\ cmPc = "corrupted" => cmPlain = << >>
                      /\ cmPc = "done" /\ cmCall.pad => Chained(cmText) = cmSealed
    BY DEF OnlyPadded
  <2>1. cmPc = "corrupted" => cmPlain = << >>
    BY DEF CmInv, CmOpening
  <2>2. ASSUME cmPc = "done", cmCall.pad PROVE Chained(cmText) = cmSealed
    <3>1. TextOf("CBC", cmSealed, cmText)
      BY <1>7, <2>2 DEF OpenedTo
    <3>2. cmCall.pad = TRUE
      BY <1>1, <2>2, CallIs
    <3> QED  BY <3>1, <3>2, TextPadded
  <2> QED  BY <2>1, <2>2
<1> QED  BY <1>6, <1>10, <1>11 DEF CmCorrect

\* The memory, the chain and the counters of the modes stay within their bounds.
THEOREM ModesTyped == CmSpec => []CmTypeOK
<1>1. CmSpec => []CmInv
  BY CmInvInit, CmInvKept, PTL DEF CmSpec
<1> QED  BY <1>1, CmInvTypes, PTL

\* RijndaelBlockEncrypt and RijndaelPadEncrypt write what the mode is defined to be,
\* in place or not, and RijndaelBlockDecrypt and RijndaelPadDecrypt give the text back.
THEOREM ModesAreRight == CmSpec => []CmCorrect
<1>1. CmSpec => []CmInv
  BY CmInvInit, CmInvKept, PTL DEF CmSpec
<1> QED  BY <1>1, CmInvIsRight, PTL

=============================================================================
