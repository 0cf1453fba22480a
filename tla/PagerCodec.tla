----------------------------- MODULE PagerCodec -----------------------------
(***************************************************************************)
(* Encryption of the SQLite file (sqlite3/codecext.c): the Codec attached  *)
(* to the pager by sqlite3_key, its use on every page that passes between  *)
(* memory, database file and rollback journal (sqlite3Codec), and the      *)
(* rewriting of the whole file under another key by sqlite3_rekey.         *)
(*                                                                         *)
(* One connection, which a crash replaces by a fresh one.  The pager       *)
(* itself (sqlite3.c, external) is modelled by what the codec sees of it:  *)
(* a page is journalled before it is changed in the file, a journal left   *)
(* behind is copied back raw, and a transaction may spill pages early or   *)
(* fail at any I/O.  A page on disk is the content together with the key   *)
(* it is sealed with; opening it with another key yields garbage.          *)
(***************************************************************************)
EXTENDS Integers, FiniteSets

CONSTANTS
  NPages,   \* pages of the file
  LockPage, \* the page of the lock byte, WX_PAGER_MJ_PGNO: never used, never rewritten
  Keys,     \* keys derived from passwords
  Plain,    \* no key: zKey = NULL or nKey = 0, or a page that is not encrypted
  Vals,     \* contents of a page
  Garbage   \* a page decrypted with the wrong key

Pages == 1..NPages
Used  == Pages \ {LockPage}

\* In the cache: the page is not in memory.
Absent == "absent"

ASSUME PagerCodecAssumption ==
  /\ NPages \in Nat \ {0} /\ LockPage # 1
  /\ Plain \notin Keys /\ Garbage \notin Vals
  /\ Absent \notin Vals \cup {Garbage}

VARIABLES
  codec,      \* the Codec of the pager; NoCodec when there is none
  file,       \* the pages on disk
  journal,    \* original images of pages, a partial function on Pages; << >>: no journal
  cache,      \* the pager's decrypted pages, Absent when not in memory
  dirty,      \* pages changed in the cache and not yet in the file
  tx,         \* "none", "write", or "rekey"
  n,          \* the loop variable of sqlite3_rekey
  committed,  \* ghost: the content of every used page at the last commit
  fileKey,    \* ghost: the key the last commit left the file under
  spoiled     \* ghost: a page was written although the codec had lost its write key

vars == <<codec, file, journal, cache, dirty, tx, n, committed, fileKey, spoiled>>

NoJournal == << >>
NoCodec   == [enc |-> FALSE, hasRead |-> FALSE, readKey |-> Plain,
              hasWrite |-> FALSE, writeKey |-> Plain]
Codec     == [enc : BOOLEAN, hasRead : BOOLEAN, readKey : Keys \cup {Plain},
              hasWrite : BOOLEAN, writeKey : Keys \cup {Plain}]
Content   == Vals \cup {Garbage}
Page      == [key : Keys \cup {Plain}, val : Content]

-----------------------------------------------------------------------------
(* sqlite3Codec *)

Seal(k, v)   == [key |-> k, val |-> v]
Open(k, pg)  == IF pg.key = k THEN pg.val ELSE Garbage

\* Cases 0, 2 and 3 decrypt with the read key, case 6 encrypts for the file with
\* the write key, case 7 for the journal with the read key; a missing key, or a
\* codec that is not in use, passes the page through.
ReadKey  == IF codec.enc /\ codec.hasRead THEN codec.readKey ELSE Plain
WriteKey == IF codec.enc /\ codec.hasWrite THEN codec.writeKey ELSE Plain

\* Mutant: the journal page is encrypted like the file page.
JournalWithWriteKey(v) == Seal(WriteKey, v)

FromDisk(pg)  == Open(ReadKey, pg)
ToFile(v)     == Seal(WriteKey, v)
ToJournal(v)  == Seal(ReadKey, v)

-----------------------------------------------------------------------------
(* The pager *)

\* The content of a page, from memory or from the file.
Current(p) == IF cache[p] = Absent THEN FromDisk(file[p]) ELSE cache[p]

\* Page 1 holds the header that tells a database from garbage; a hot journal is
\* played back before anything is read.
FirstReadable == (tx = "none" => journal = NoJournal) /\ Current(1) # Garbage

\* sqlite3PagerWrite: the original image goes to the journal once.
Journalled(p) == IF p \in DOMAIN journal THEN journal
                 ELSE [q \in DOMAIN journal \cup {p} |->
                         IF q = p THEN ToJournal(Current(p)) ELSE journal[q]]

\* Playback copies the journal's images to the file as they are, and decrypts
\* them into the pages that are in memory.
Restored     == [p \in Pages |-> IF p \in DOMAIN journal THEN journal[p] ELSE file[p]]
CacheAfterRollback ==
  [p \in Pages |-> IF cache[p] # Absent /\ p \in DOMAIN journal
                   THEN FromDisk(journal[p]) ELSE cache[p]]

\* A rollback that itself fails leaves the journal for the next access and drops
\* the pages in memory.
Rollback ==
  /\ dirty' = {}
  /\ \/ /\ file' = Restored
        /\ journal' = NoJournal
        /\ cache' = CacheAfterRollback
     \/ /\ cache' = [p \in Pages |-> Absent]
        /\ UNCHANGED <<file, journal>>

\* A page is read into memory; no other read runs while sqlite3_rekey does.
Load(p) ==
  /\ tx # "rekey" /\ FirstReadable /\ cache[p] = Absent /\ p \in Used
  /\ cache' = [cache EXCEPT ![p] = FromDisk(file[p])]
  /\ UNCHANGED <<codec, file, journal, dirty, tx, n, committed, fileKey, spoiled>>

Evict(p) ==
  /\ cache[p] # Absent /\ p \notin dirty
  /\ cache' = [cache EXCEPT ![p] = Absent]
  /\ UNCHANGED <<codec, file, journal, dirty, tx, n, committed, fileKey, spoiled>>

\* A dirty page is written to the file: a spill, or part of the commit.
Flush(p) ==
  /\ p \in dirty
  /\ file' = [file EXCEPT ![p] = ToFile(cache[p])]
  /\ dirty' = dirty \ {p}
  /\ spoiled' = (spoiled \/ (tx = "write" /\ WriteKey # ReadKey))
  /\ UNCHANGED <<codec, journal, cache, tx, n, committed, fileKey>>

\* The first access of a connection that finds a journal.
PlayBack ==
  /\ tx = "none" /\ journal # NoJournal
  /\ file' = Restored
  /\ journal' = NoJournal
  /\ cache' = [p \in Pages |-> Absent]
  /\ UNCHANGED <<codec, dirty, tx, n, committed, fileKey, spoiled>>

-----------------------------------------------------------------------------
(* Ordinary write transactions *)

BeginWrite ==
  /\ tx = "none" /\ FirstReadable
  /\ tx' = "write"
  /\ UNCHANGED <<codec, file, journal, cache, dirty, n, committed, fileKey, spoiled>>

Write(p, v) ==
  /\ tx = "write" /\ p \in Used
  /\ journal' = Journalled(p)
  /\ cache' = [cache EXCEPT ![p] = v]
  /\ dirty' = dirty \cup {p}
  /\ UNCHANGED <<codec, file, tx, n, committed, fileKey, spoiled>>

Commit ==
  /\ tx = "write" /\ dirty = {}
  /\ journal' = NoJournal
  /\ tx' = "none"
  /\ committed' = [p \in Used |-> IF p \in DOMAIN journal THEN Current(p) ELSE committed[p]]
  /\ UNCHANGED <<codec, file, cache, dirty, n, fileKey, spoiled>>

AbortWrite ==
  /\ tx = "write"
  /\ Rollback
  /\ tx' = "none"
  /\ UNCHANGED <<codec, n, committed, fileKey, spoiled>>

-----------------------------------------------------------------------------
(* sqlite3_key and sqlite3_rekey *)

\* sqlite3CodecAttach for the main database; the client sets the key before the
\* connection has read anything.
Attach(k) ==
  /\ tx = "none" /\ \A p \in Pages : cache[p] = Absent
  /\ codec' = [enc |-> TRUE, hasRead |-> TRUE, readKey |-> k, hasWrite |-> TRUE, writeKey |-> k]
  /\ UNCHANGED <<file, journal, cache, dirty, tx, n, committed, fileKey, spoiled>>

\* The codec during the rewriting: encrypt, decrypt (keep read key, drop write
\* key), or re-encrypt.
Retargeted(k) ==
  CASE ~codec.enc  -> [NoCodec EXCEPT !.enc = TRUE, !.hasWrite = TRUE, !.writeKey = k]
    [] k = Plain   -> [codec EXCEPT !.hasWrite = FALSE]
    [] OTHER       -> [codec EXCEPT !.hasWrite = TRUE, !.writeKey = k]

\* Mutant: the read key is not brought up to date.
KeepsReadKey(c) == IF c.hasWrite THEN [c EXCEPT !.hasRead = TRUE] ELSE NoCodec

\* The codec when the commit succeeded: the write key becomes the read key; a
\* codec without one is removed.
Settled(c) == IF c.hasWrite THEN [c EXCEPT !.readKey = c.writeKey, !.hasRead = TRUE] ELSE NoCodec

\* Mutant: the copy of the key in the failure path is dropped.
RevertedNot(c) == IF c.hasRead THEN c ELSE NoCodec

\* The codec after a failure: the bytes of the write key are restored, the flag
\* that says there is one is not.
Reverted(c) == IF c.hasRead THEN [c EXCEPT !.writeKey = c.readKey] ELSE NoCodec

\* sqlite3BtreeBeginTrans succeeds, or fails (the file does not open under the
\* read key, or is locked) and the codec is reverted at once.
RekeyStart(k) ==
  /\ tx = "none" /\ journal = NoJournal
  /\ k # Plain \/ codec.enc
  /\ LET c == Retargeted(k)
     IN  \/ /\ FirstReadable
            /\ codec' = c /\ tx' = "rekey" /\ n' = 1
         \/ codec' = Reverted(c) /\ UNCHANGED <<tx, n>>
  /\ UNCHANGED <<file, journal, cache, dirty, committed, fileKey, spoiled>>

\* Mutant: the `continue' for the page of the lock byte is dropped.
SkippedNone(p) == FALSE

Skipped(p) == p = LockPage

\* One turn of the loop: sqlite3PagerGet and sqlite3PagerWrite.
RekeyPage ==
  /\ tx = "rekey" /\ n <= NPages
  /\ n' = n + 1
  /\ IF Skipped(n)
     THEN UNCHANGED <<journal, cache, dirty>>
     ELSE /\ journal' = Journalled(n)
          /\ cache' = [cache EXCEPT ![n] = Current(n)]
          /\ dirty' = dirty \cup {n}
  /\ UNCHANGED <<codec, file, tx, committed, fileKey, spoiled>>

RekeyCommit ==
  /\ tx = "rekey" /\ n > NPages /\ dirty = {}
  /\ journal' = NoJournal
  /\ tx' = "none" /\ n' = 0
  /\ codec' = Settled(codec)
  /\ fileKey' = WriteKey
  /\ UNCHANGED <<file, cache, dirty, committed, spoiled>>

RekeyFail ==
  /\ tx = "rekey"
  /\ Rollback
  /\ tx' = "none" /\ n' = 0
  /\ codec' = Reverted(codec)
  /\ UNCHANGED <<committed, fileKey, spoiled>>

\* The process dies; the next one opens the file with no codec yet.
Crash ==
  /\ codec' = NoCodec
  /\ cache' = [p \in Pages |-> Absent]
  /\ dirty' = {} /\ tx' = "none" /\ n' = 0
  /\ UNCHANGED <<file, journal, committed, fileKey, spoiled>>

-----------------------------------------------------------------------------
Init ==
  /\ codec = NoCodec
  /\ committed \in [Used -> Vals]
  /\ fileKey \in Keys \cup {Plain}
  /\ file = [p \in Pages |-> IF p \in Used THEN Seal(fileKey, committed[p])
                                           ELSE Seal(Plain, Garbage)]
  /\ journal = NoJournal
  /\ cache = [p \in Pages |-> Absent]
  /\ dirty = {} /\ tx = "none" /\ n = 0 /\ spoiled = FALSE

Next ==
  \/ \E p \in Pages : Load(p) \/ Evict(p) \/ Flush(p)
  \/ PlayBack \/ BeginWrite \/ Commit \/ AbortWrite
  \/ \E p \in Pages, v \in Vals : Write(p, v)
  \/ \E k \in Keys : Attach(k)
  \/ \E k \in Keys \cup {Plain} : RekeyStart(k)
  \/ RekeyPage \/ RekeyCommit \/ RekeyFail
  \/ Crash

Spec == Init /\ [][Next]_vars

-----------------------------------------------------------------------------
(* Properties *)

TypeOK ==
  /\ codec \in Codec
  /\ file \in [Pages -> Page]
  /\ DOMAIN journal \subseteq Used /\ \A p \in DOMAIN journal : journal[p] \in Page
  /\ cache \in [Pages -> Content \cup {Absent}]
  /\ dirty \subseteq Used
  /\ tx \in {"none", "write", "rekey"} /\ n \in 0..(NPages + 1)
  /\ committed \in [Used -> Content]
  /\ fileKey \in Keys \cup {Plain}
  /\ spoiled \in BOOLEAN

\* At every moment, in the middle of a rekey as well, a crash loses nothing: the
\* file with the journal copied back is the last committed content, all of it
\* under the one key the last commit left it under.
CrashSafe ==
  ~spoiled => \A p \in Used : Restored[p] = Seal(fileKey, committed[p])

\* What a connection has in memory and did not change itself is what was last
\* committed, never a page of another key.
ReadsCommitted ==
  ~spoiled => \A p \in Used : cache[p] # Absent /\ p \notin DOMAIN journal
                              => cache[p] = committed[p]

\* Outside sqlite3_rekey a codec that has a write key writes what it can read.
KeysAgree ==
  tx # "rekey" /\ codec.enc /\ codec.hasWrite => codec.hasRead /\ codec.writeKey = codec.readKey

\* codecext.c:323: "Restore write key if necessary" after a rekey that failed.  If
\* it were restored, a page would always be written with the key it is read with.
WritesWithReadKey == ~spoiled

=============================================================================
