--------------------------- MODULE ContainerProofs --------------------------
(***************************************************************************)
(* What is proved of the containers one by one, said of all of them in     *)
(* the specification that TLC runs: none of them hears of the others, so   *)
(* that a step of one leaves the promises of the others alone.             *)
(***************************************************************************)
EXTENDS MCContainers, StoreProofs, ListProofs

-----------------------------------------------------------------------------
(* All containers *)

MCVars == <<vecVars, strVars, gaVars, qVars, sVars, hVars, part>>

\* What is said of one container holds where there are all of them.
LEMMA PartsBegin == MCInit => VecInit /\ StrInit /\ GaInit /\ QInit /\ SInit /\ HInit
BY DEF MCInit

LEMMA PartsStep ==
  ASSUME [MCNext]_MCVars
  PROVE  /\ [VecNext]_vecVars /\ [StrNext]_strVars /\ [GaNext]_gaVars
         /\ [QNext]_qVars /\ [SNext]_sVars /\ [HNext]_hVars
<1>1. CASE UNCHANGED MCVars
  BY <1>1 DEF MCVars
<1>2. ASSUME VecNext, UNCHANGED <<strVars, gaVars, qVars, sVars, hVars>>
      PROVE  /\ [VecNext]_vecVars /\ [StrNext]_strVars /\ [GaNext]_gaVars
             /\ [QNext]_qVars /\ [SNext]_sVars /\ [HNext]_hVars
  BY <1>2
<1>3. ASSUME StrNext, UNCHANGED <<vecVars, gaVars, qVars, sVars, hVars>>
      PROVE  /\ [VecNext]_vecVars /\ [StrNext]_strVars /\ [GaNext]_gaVars
             /\ [QNext]_qVars /\ [SNext]_sVars /\ [HNext]_hVars
  BY <1>3
<1>4. ASSUME GaNext, UNCHANGED <<vecVars, strVars, qVars, sVars, hVars>>
      PROVE  /\ [VecNext]_vecVars /\ [StrNext]_strVars /\ [GaNext]_gaVars
             /\ [QNext]_qVars /\ [SNext]_sVars /\ [HNext]_hVars
  BY <1>4
<1>5. ASSUME QNext, UNCHANGED <<vecVars, strVars, gaVars, sVars, hVars>>
      PROVE  /\ [VecNext]_vecVars /\ [StrNext]_strVars /\ [GaNext]_gaVars
             /\ [QNext]_qVars /\ [SNext]_sVars /\ [HNext]_hVars
  BY <1>5
<1>6. ASSUME SNext, UNCHANGED <<vecVars, strVars, gaVars, qVars, hVars>>
      PROVE  /\ [VecNext]_vecVars /\ [StrNext]_strVars /\ [GaNext]_gaVars
             /\ [QNext]_qVars /\ [SNext]_sVars /\ [HNext]_hVars
  BY <1>6
<1>7. ASSUME HNext, UNCHANGED <<vecVars, strVars, gaVars, qVars, sVars>>
      PROVE  /\ [VecNext]_vecVars /\ [StrNext]_strVars /\ [GaNext]_gaVars
             /\ [QNext]_qVars /\ [SNext]_sVars /\ [HNext]_hVars
  BY <1>7
<1> QED  BY <1>1, <1>2, <1>3, <1>4, <1>5, <1>6, <1>7, Zenon DEF MCNext

LEMMA PartsAre == MCSpec => VecSpec /\ StrSpec /\ GaSpec /\ QSpec /\ SSpec /\ HSpec
<1>1. [MCNext]_MCVars => /\ [VecNext]_vecVars /\ [StrNext]_strVars /\ [GaNext]_gaVars
                         /\ [QNext]_qVars /\ [SNext]_sVars /\ [HNext]_hVars
  BY PartsStep
<1>2. MCSpec <=> MCInit /\ [][MCNext]_MCVars
  BY DEF MCSpec, MCVars
<1> QED  BY <1>1, <1>2, PartsBegin, PTL DEF VecSpec, StrSpec, GaSpec, QSpec, SSpec, HSpec

\* The fields of the live-data list keep their types (livedatavector.c).
LEMMA VectorTyped == VecSpec => []VecTypeOK
<1>1. VecInv => VecTypeOK
  BY DEF VecInv, Shape, Owned, VecTypeOK, ArrTypeOK, ArrCells
<1> QED  BY <1>1, VecInvInit, VecInvKept, PTL DEF VecSpec

\* The live-data list, strings, arrays, lists, the queue and the hash table keep their
\* shape (livedatavector.c, gstring.c, garray.c, glist.c, gslist.c, gqueue.c, ghashtable.c).
THEOREM ContainersTyped == MCSpec => []ContainersTypeOK
BY PartsAre, VectorTyped, StringTypeOK, ArrayTypeOK, QueueTyped, SListTyped, HashTyped, PTL DEF ContainersTypeOK

\* The pointers of the lists and of the queue agree with each other, no node is lost and
\* none is in two lists (glist.c, gslist.c, gqueue.c).
THEOREM ListsAreLinked == MCSpec => []ListsLinked
BY PartsAre, QueueCorrect, SListSound, PTL DEF ListsLinked

\* Lists, queue and hash table are, step by step, the sequences and the partial function
\* that their callers take them for: every call of glist.c, gslist.c, gqueue.c and
\* ghashtable.c is one step of LinkedLists, of a queue, of Dictionary.
THEOREM ContainersImplement == MCSpec => Implemented
BY PartsAre, DListIsSequence, QueueIsDeque, SListIsSequence, IsDictionary, PTL DEF Implemented

\* Strings and arrays reach outside of their blocks in three calls only, which are named,
\* g_string_prepend still reads as it should, g_list_insert_sorted keeps an order,
\* g_slist_remove_all leaves none behind, and a hash table does not shrink under its
\* iterators.
THEOREM WordIsKept == MCSpec => CallsKeepWord
BY PartsAre, StringStaysInside, ArrayStaysInside, PrependStillReads, DListKeepsOrder, SListPurges, NeverShrinks, PTL
DEF CallsKeepWord

=============================================================================
