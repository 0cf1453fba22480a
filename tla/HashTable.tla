----------------------------- MODULE HashTable ------------------------------
(***************************************************************************)
(* The hash table of eglib (ghashtable.c): chains of slots, which are      *)
(* moved to a larger table as it fills, the ownership of keys by the       *)
(* table, and one iterator.  A key is a pointer; pointers to equal keys    *)
(* have one name.  A caller passes keys that the table does not own yet.   *)
(***************************************************************************)
EXTENDS Integers, Sequences, FiniteSets, SequencesExt

CONSTANTS
  Keys,      \* pointers to keys
  Name,      \* what the key at a pointer is, by key_equal_func
  Hash,      \* hash_func of a name
  Values,
  Absent,
  Primes,    \* prime_tbl, ascending
  Load,      \* rehash wants 3 diff > Load table_size, 8 in the code
  NoKey      \* the NULL slot of an iterator

Names == {Name[k] : k \in Keys}

ASSUME HashTableAssumption ==
  /\ IsFiniteSet(Keys) /\ NoKey \notin Keys /\ Absent \notin Values
  /\ Hash \in [Names -> Nat]
  /\ Load \in Nat /\ Load >= 3
  /\ Primes \in Seq(Nat \ {0}) /\ Primes # << >>
  /\ \A i, j \in DOMAIN Primes : i < j => Primes[i] < Primes[j]
  /\ \E i \in DOMAIN Primes : Cardinality(Names) <= Primes[i]

VARIABLES
  hTable,    \* table: from bucket numbers to chains of [key, value]
  hSize,     \* table_size
  hInUse,    \* in_use
  hLast,     \* last_rehash
  hOwner,    \* of every key: "caller" | "table" | "gone" (destroyed)
  hIter      \* the iterator: [index: slot_index, slot: key of the slot, seen: keys
             \* returned, fit: no change that an iterator does not bear]

hVars == <<hTable, hSize, hInUse, hLast, hOwner, hIter>>

Buckets == 0..(hSize - 1)

HTypeOK ==
  /\ hSize \in {Primes[i] : i \in DOMAIN Primes} /\ hLast \in Nat /\ hInUse \in Nat
  /\ hTable \in [Buckets -> Seq([key : Keys, value : Values])]
  /\ hOwner \in [Keys -> {"caller", "table", "gone"}]
  /\ hIter.index \in {-2} \cup -1..(hSize - 1) /\ hIter.slot \in Keys \cup {NoKey}

-----------------------------------------------------------------------------
BucketIn(size, k) == Hash[Name[k]] % size
Bucket(k)         == BucketIn(hSize, k)

Stored  == UNION {Range(hTable[b]) : b \in Buckets}
Present == {s.key : s \in Stored}

\* Where the slots are, and the order of foreach and of the iterators: chain after chain.
Places       == UNION {{b} \X DOMAIN hTable[b] : b \in Buckets}
SlotAt(p)    == hTable[p[1]][p[2]]
Sooner(p, q) == p[1] < q[1] \/ (p[1] = q[1] /\ p[2] < q[2])

\* The slots at the places P, in that order.
Nth(P, k)  == CHOOSE p \in P : Cardinality({q \in P : Sooner(q, p)}) = k - 1
SlotsOf(P) == [k \in 1..Cardinality(P) |-> SlotAt(Nth(P, k))]

\* The place of the first slot of a chain with an equal key, or 0.
PlaceIn(chain, n) ==
  LET at == {i \in DOMAIN chain : Name[chain[i].key] = n}
  IN  IF at = {} THEN 0 ELSE CHOOSE i \in at : \A j \in at : i <= j

\* The chains without the slots of `gone'.
Without(gone) == [b \in Buckets |-> SlotsOf({p \in Places : p[1] = b /\ SlotAt(p).key \notin gone})]

\* Mutant: a size that is no prime of the table.
ClosestExact(x) == x

\* g_spaced_primes_closest
Closest(x) ==
  LET i == CHOOSE i \in DOMAIN Primes :
             x <= Primes[i] /\ \A j \in DOMAIN Primes : x <= Primes[j] => i <= j
  IN  Primes[i]

\* Mutant: slots are kept in the buckets they had.
RehashedStale(size, gone) ==
  [b \in 0..(size - 1) |-> IF b \in Buckets THEN Without(gone)[b] ELSE << >>]

\* do_rehash: every slot is put in front of the chain of its new bucket.
Rehashed(size, gone) ==
  [b \in 0..(size - 1) |->
     Reverse(SlotsOf({p \in Places : SlotAt(p).key \notin gone /\ BucketIn(size, SlotAt(p).key) = b}))]

\* Mutant: the difference from the size counts, from either side.
DiffersFromSize(inUse) ==
  LET diff == IF hSize > inUse THEN hSize - inUse ELSE inUse - hSize
  IN  3 * diff > hSize

\* rehash: diff * 0.75 > table_size * 2
Differs(inUse) ==
  LET diff == IF hLast > inUse THEN hLast - inUse ELSE inUse - hLast
  IN  3 * diff > Load * hSize

\* Mutant: last_rehash is set after table_size.
AfterRehashLate(inUse, gone) ==
  IF Differs(inUse)
  THEN [table |-> Rehashed(Closest(inUse), gone), size |-> Closest(inUse), last |-> Closest(inUse)]
  ELSE [table |-> Without(gone), size |-> hSize, last |-> hLast]

\* The table, its size and last_rehash as rehash leaves them, once the slots of
\* `gone' have left and in_use is `inUse'.
AfterRehash(inUse, gone) ==
  IF Differs(inUse)
  THEN [table |-> Rehashed(Closest(inUse), gone), size |-> Closest(inUse), last |-> hSize]
  ELSE [table |-> Without(gone), size |-> hSize, last |-> hLast]

NoIter == [index |-> -2, slot |-> NoKey, seen |-> << >>, fit |-> FALSE]

\* Mutant: a replaced key is destroyed and stays in its slot.
HInsertKeeping(k, v, replace) ==
  LET t     == AfterRehash(hInUse, {})
      b     == BucketIn(t.size, k)
      chain == t.table[b]
      i     == PlaceIn(chain, Name[k])
  IN  /\ hOwner[k] # "table"
      /\ hSize' = t.size /\ hLast' = t.last
      /\ IF i = 0
         THEN /\ hTable' = [t.table EXCEPT ![b] = <<[key |-> k, value |-> v]>> \o chain]
              /\ hInUse' = hInUse + 1
              /\ hOwner' = [hOwner EXCEPT ![k] = "table"]
         ELSE /\ hTable' = [t.table EXCEPT ![b][i].value = v]
              /\ hOwner' = [hOwner EXCEPT ![chain[i].key] = IF replace THEN "gone" ELSE @]
              /\ UNCHANGED hInUse
      /\ hIter' = NoIter

\* g_hash_table_insert (replace = FALSE), g_hash_table_replace (TRUE)
HInsert(k, v, replace) ==
  LET t     == AfterRehash(hInUse, {})
      b     == BucketIn(t.size, k)
      chain == t.table[b]
      i     == PlaceIn(chain, Name[k])
  IN  /\ hOwner[k] # "table"
      /\ hSize' = t.size /\ hLast' = t.last
      /\ IF i = 0
         THEN /\ hTable' = [t.table EXCEPT ![b] = <<[key |-> k, value |-> v]>> \o chain]
              /\ hInUse' = hInUse + 1
              /\ hOwner' = [hOwner EXCEPT ![k] = "table"]
              /\ hIter' = NoIter
         ELSE /\ hTable' = [t.table EXCEPT ![b][i] = [key |-> IF replace THEN k ELSE chain[i].key,
                                                      value |-> v]]
              /\ hOwner' = IF replace
                           THEN [hOwner EXCEPT ![k] = "table", ![chain[i].key] = "gone"]
                           ELSE [hOwner EXCEPT ![k] = "caller"]
              /\ hIter' = IF replace \/ t.size # hSize THEN NoIter ELSE hIter
              /\ UNCHANGED hInUse

\* The slots of `gone' leave, destroyed or to the caller; an iterator bears it
\* unless it stands on one of them or the others are moved.
Unlink(gone, owner, t) ==
  /\ hTable' = t.table /\ hSize' = t.size /\ hLast' = t.last
  /\ hInUse' = hInUse - Cardinality(gone)
  /\ hOwner' = [k \in Keys |-> IF k \in gone THEN owner ELSE hOwner[k]]
  /\ hIter' = IF hIter.slot \in gone \/ t.size # hSize THEN NoIter ELSE hIter

InPlace(gone) == [table |-> Without(gone), size |-> hSize, last |-> hLast]

\* The slot that a key of this name is found in.
Found(n) == LET b == Hash[n] % hSize IN hTable[b][PlaceIn(hTable[b], n)]
Has(n)   == PlaceIn(hTable[Hash[n] % hSize], n) # 0

\* g_hash_table_remove, g_hash_table_steal
HTake(n, owner) == Has(n) /\ Unlink({Found(n).key}, owner, InPlace({Found(n).key}))

\* g_hash_table_foreach_remove, g_hash_table_foreach_steal; both end in rehash.
HForeach(gone, owner) ==
  gone # {} /\ Unlink(gone, owner, AfterRehash(hInUse - Cardinality(gone), gone))

\* g_hash_table_remove_all: by the first slot of each chain, and no rehash.
HRemoveAll == Present # {} /\ Unlink(Present, "gone", InPlace(Present))

\* g_hash_table_iter_init
HIterInit == /\ hIter' = [index |-> -1, slot |-> NoKey, seen |-> << >>, fit |-> TRUE]
             /\ UNCHANGED <<hTable, hSize, hInUse, hLast, hOwner>>

\* The next bucket with a slot, or the end.
NextBucket ==
  LET filled == {b \in Buckets : b > hIter.index /\ hTable[b] # << >>}
  IN  IF filled = {} THEN -2 ELSE CHOOSE b \in filled : \A c \in filled : b <= c

\* Mutant: at the end of a chain the iterator looks at that chain again.
IterNextAgain(it) ==
  LET chain == hTable[it.index]
      i     == CHOOSE j \in DOMAIN chain : chain[j].key = it.slot
  IN  [it EXCEPT !.slot = IF i = Len(chain) THEN chain[1].key ELSE chain[i + 1].key,
                 !.seen = Append(@, it.slot)]

\* The slot is returned, and the iterator steps to the one behind it.
IterNext(it) ==
  LET chain == hTable[it.index]
      i     == CHOOSE j \in DOMAIN chain : chain[j].key = it.slot
  IN  [it EXCEPT !.slot = IF i = Len(chain) THEN NoKey ELSE chain[i + 1].key,
                 !.seen = Append(@, it.slot)]

\* g_hash_table_iter_next
HIterNext ==
  /\ hIter.fit /\ hIter.index # -2
  /\ hIter' = IF hIter.slot # NoKey THEN IterNext(hIter)
              ELSE IF NextBucket = -2 THEN [hIter EXCEPT !.index = -2]
              ELSE IterNext([hIter EXCEPT !.index = NextBucket, !.slot = hTable[NextBucket][1].key])
  /\ UNCHANGED <<hTable, hSize, hInUse, hLast, hOwner>>

\* g_hash_table_new_full
HInit == /\ hSize = Closest(1) /\ hLast = Closest(1) /\ hInUse = 0
         /\ hTable = [b \in 0..(Closest(1) - 1) |-> << >>]
         /\ hOwner = [k \in Keys |-> "caller"]
         /\ hIter = NoIter

HNext ==
  \/ \E k \in Keys, v \in Values, replace \in BOOLEAN : HInsert(k, v, replace)
  \/ \E n \in Names : HTake(n, "gone") \/ HTake(n, "caller")
  \/ \E gone \in SUBSET Present, owner \in {"gone", "caller"} : HForeach(gone, owner)
  \/ HRemoveAll \/ HIterInit \/ HIterNext

HSpec == HInit /\ [][HNext]_hVars

-----------------------------------------------------------------------------
\* Every slot is in the bucket of its hash (what sanity_check tests), each name
\* has one slot, and in_use counts them, also after the slots have been moved.
HInBuckets ==
  /\ \A b \in Buckets : \A i \in DOMAIN hTable[b] : Bucket(hTable[b][i].key) = b
  /\ \A p, q \in Places : p # q => Name[SlotAt(p).key] # Name[SlotAt(q).key]
  /\ hInUse = Cardinality(Present)

\* A destroyed or stolen key is not in the table, and the table owns all of its keys.
HOwnsKeys == \A k \in Keys : hOwner[k] = "table" <=> k \in Present

\* Removing keys never moves the slots: rehash, which the foreach functions call,
\* finds nothing to do, and a table never shrinks.
HKeepsRoom ==
  /\ 3 * (hInUse - 1 - hLast) <= Load * hSize
  /\ hLast < hSize \/ (hLast = hSize /\ hSize = Closest(1))

HNeverShrinks == [][hSize' >= hSize /\ (hInUse' < hInUse => hSize' = hSize)]_hVars

\* An iterator returns every key once, in the order of the slots, though keys it
\* has returned already are removed meanwhile, others are given new values, and
\* keys further on go.
HIterExact ==
  hIter.fit =>
    /\ \A i, j \in DOMAIN hIter.seen : i # j => hIter.seen[i] # hIter.seen[j]
    /\ hIter.index = -2 => Present \subseteq {hIter.seen[i] : i \in DOMAIN hIter.seen}

\* What lookups find is a partial function that each call changes as its name says,
\* and g_hash_table_size counts what they find, through every move of the slots.
Lookup(n) == IF Has(n) THEN Found(n).value ELSE Absent

HDictionary   == INSTANCE Dictionary WITH dict <- [n \in Names |-> Lookup(n)], size <- hInUse
HIsDictionary == HDictionary!DictSpec

\* The slots agree with the counts and with the owners of the keys, through every
\* rehash and under an iterator.
HCorrect == HInBuckets /\ HOwnsKeys /\ HKeepsRoom /\ HIterExact

=============================================================================
