---------------------------- MODULE MCContainers ----------------------------
(***************************************************************************)
(* The containers of eglib and the live-data list, checked in one run.     *)
(* They share no state: `part' says which of them a behaviour is about,    *)
(* the others stay as they are made.                                       *)
(***************************************************************************)
EXTENDS LiveDataVector, GString, GArray, DList, SList, HashTable, TLC

MCRank   == "a" :> 1 @@ "b" :> 2 @@ "c" :> 1 @@ "null" :> 0
MCKey    == "x" :> 1 @@ "y" :> 2
MCName   == "k1" :> "k" @@ "k2" :> "k" @@ "l" :> "l" @@ "m" :> "m"
MCHash   == "k" :> 0 @@ "l" :> 5 @@ "m" :> 1
MCPrimes == <<1, 5>>
MCWords  == {<< >>, <<"b">>, <<"a", "b">>}

VARIABLE part

MCInit ==
  /\ part \in {"livedata", "string", "elements", "lists", "slist", "hash"}
  /\ VecInit /\ QInit /\ SInit /\ HInit
  /\ StrInit /\ (part # "string" => strText = << >>)
  /\ GaInit /\ (part # "elements" => ~gaFlags.clear /\ ~gaFlags.zero /\ gaCapacity = 0)

MCNext ==
  /\ UNCHANGED part
  /\ \/ /\ part = "livedata" /\ VecNext
        /\ UNCHANGED <<strVars, gaVars, qVars, sVars, hVars>>
     \/ /\ part = "string" /\ StrNext
        /\ UNCHANGED <<vecVars, gaVars, qVars, sVars, hVars>>
     \/ /\ part = "elements" /\ GaNext
        /\ UNCHANGED <<vecVars, strVars, qVars, sVars, hVars>>
     \/ /\ part = "lists" /\ QNext
        /\ UNCHANGED <<vecVars, strVars, gaVars, sVars, hVars>>
     \/ /\ part = "slist" /\ SNext
        /\ UNCHANGED <<vecVars, strVars, gaVars, qVars, hVars>>
     \/ /\ part = "hash" /\ HNext
        /\ UNCHANGED <<vecVars, strVars, gaVars, qVars, sVars>>

MCSpec == MCInit /\ [][MCNext]_<<vecVars, strVars, gaVars, qVars, sVars, hVars, part>>

-----------------------------------------------------------------------------
\* Every container keeps its shape.
ContainersTypeOK == VecTypeOK /\ StrTypeOK /\ GaTypeOK /\ QTypeOK /\ STypeOK /\ HTypeOK

\* The pointers of the lists and of the queue agree with each other, no node is
\* lost and none is in two lists (glist.c, gslist.c, gqueue.c).
ListsLinked == DLinked /\ QShape /\ SNoLoss

\* Lists, queue and hash table are, step by step, the sequences and the partial
\* function that their callers take them for.
Implemented == DIsSequence /\ QIsDeque /\ SIsSequence /\ HIsDictionary

\* What single calls promise beyond that: strings and arrays reach outside of their
\* blocks in three calls only, which are named, g_string_prepend still reads as it
\* should, g_list_insert_sorted keeps an order, g_slist_remove_all leaves none behind,
\* and a hash table does not shrink under its iterators.
CallsKeepWord == StrStaysInside /\ GaStaysInside /\ PrependReads /\ DKeepsOrder /\ SPurges /\ HNeverShrinks

=============================================================================
