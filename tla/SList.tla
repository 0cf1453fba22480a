------------------------------- MODULE SList --------------------------------
(***************************************************************************)
(* The singly linked list of eglib (gslist.c), with the searches for the   *)
(* node before another one that its edits rest on.                         *)
(***************************************************************************)
EXTENDS Chains, SequencesExt, Functions

VARIABLES
  sHeap,    \* allocated nodes: [data, next]
  sList,    \* the list the caller edits
  sSpare    \* another one

sVars == <<sHeap, sList, sSpare>>

STypeOK ==
  /\ DOMAIN sHeap \subseteq Nodes
  /\ \A n \in DOMAIN sHeap : sHeap[n] \in [data : Data, next : Nodes \cup {None}]
  /\ {sList, sSpare} \subseteq DOMAIN sHeap \cup {None}

-----------------------------------------------------------------------------
SFresh == Nodes \ DOMAIN sHeap
SChain == Follow(sHeap, sList)

\* g_slist_prepend, the constructor of nodes
NewCell(h, n, x, p) == [m \in DOMAIN h \cup {n} |-> IF m = n THEN [data |-> x, next |-> p] ELSE h[m]]

Relink(h, n, p) == [h EXCEPT ![n].next = p]

\* Of the nodes from p on the one before the first that is wanted; the last one
\* if none is, None if the first one is or there is none (find_prev, find_prev_link).
Before(h, p, wanted) ==
  LET s  == Follow(h, p)
      at == {i \in DOMAIN s : s[i] \in wanted}
      i  == IF at = {} THEN Len(s) + 1 ELSE CHOOSE k \in at : \A j \in at : k <= j
  IN  IF i = 1 THEN None ELSE s[i - 1]

With(h, x) == {n \in DOMAIN h : h[n].data = x}

SBecomes(h, p) == sHeap' = h /\ sList' = p /\ UNCHANGED sSpare

\* g_slist_prepend
SPrepend(x) == \E n \in SFresh : SBecomes(NewCell(sHeap, n, x, sList), n)

\* g_slist_append: a list of one node is joined to the list.
SAppend(x) == \E n \in SFresh :
  LET one == NewCell(sHeap, n, x, None)
  IN  IF sList = None THEN SBecomes(one, n)
      ELSE SBecomes(Relink(one, LastOf(sHeap, sList), n), sList)

\* insert_after
After(h, p, n, x) == Relink(NewCell(h, n, x, h[p].next), p, n)

\* g_slist_insert_before; with no sibling, at the end.
SInsertBefore(s, x) == \E n \in SFresh :
  LET prev == Before(sHeap, sList, {s})
  IN  IF prev = None THEN SBecomes(NewCell(sHeap, n, x, sList), n)
      ELSE SBecomes(After(sHeap, prev, n, x), sList)

\* g_slist_insert_sorted
SInsertSorted(x) == \E n \in SFresh :
  LET prev == Before(sHeap, sList, {m \in DOMAIN sHeap : Key[sHeap[m].data] > Key[x]})
  IN  IF prev = None THEN SBecomes(NewCell(sHeap, n, x, sList), n)
      ELSE SBecomes(After(sHeap, prev, n, x), sList)

\* The node that a search for the one before it has found, unlinked.
Current(h, p, prev) == IF prev = None THEN p ELSE h[prev].next

\* Mutant: the list begins where it began, its first node gone or not.
UnlinkedInside(h, p, prev) ==
  LET n == Current(h, p, prev)
  IN  [heap |-> IF prev = None THEN h ELSE Relink(h, prev, h[n].next), list |-> p]

Unlinked(h, p, prev) ==
  LET n == Current(h, p, prev)
  IN  IF n = None THEN [heap |-> h, list |-> p]
      ELSE IF prev = None THEN [heap |-> h, list |-> h[n].next]
      ELSE [heap |-> Relink(h, prev, h[n].next), list |-> p]

\* g_slist_remove
SRemove(x) ==
  LET prev == Before(sHeap, sList, With(sHeap, x))
      n    == Current(sHeap, sList, prev)
      rest == Unlinked(sHeap, sList, prev)
  IN  n # None /\ SBecomes(Free(rest.heap, {n}), rest.list)

\* g_slist_delete_link of a node of the list
SDelete(n) ==
  LET rest == Unlinked(sHeap, sList, Before(sHeap, sList, {n}))
  IN  SBecomes(Free(rest.heap, {n}), rest.list)

\* Mutant: the search starts from the node behind the removed one and forgets
\* what is before it.
PurgeForgetful(h, p, x) ==
  LET Turn[left \in 0..Cardinality(DOMAIN h)] ==
        IF left = 0 THEN [heap |-> h, list |-> p, next |-> p, prev |-> None]
        ELSE LET s    == Turn[left - 1]
                 prev == Before(s.heap, s.next, With(s.heap, x))
                 n    == Current(s.heap, s.list, prev)
                 rest == Unlinked(s.heap, s.list, prev)
             IN  IF s.next = None \/ n = None THEN [s EXCEPT !.next = None]
                 ELSE [heap |-> Free(rest.heap, {n}), list |-> rest.list,
                       next |-> s.heap[n].next, prev |-> prev]
  IN  Turn[Cardinality(DOMAIN h)]

\* The loop of g_slist_remove_all: prev stays where it was when nothing is found
\* between the removed node and the next one to remove.
Purge(h, p, x) ==
  LET Turn[left \in 0..Cardinality(DOMAIN h)] ==
        IF left = 0 THEN [heap |-> h, list |-> p, next |-> p, prev |-> None]
        ELSE LET s    == Turn[left - 1]
                 seen == Before(s.heap, s.next, With(s.heap, x))
                 prev == IF seen = None THEN s.prev ELSE seen
                 n    == Current(s.heap, s.list, prev)
                 rest == Unlinked(s.heap, s.list, prev)
             IN  IF s.next = None \/ n = None THEN [s EXCEPT !.next = None]
                 ELSE [heap |-> Free(rest.heap, {n}), list |-> rest.list,
                       next |-> s.heap[n].next, prev |-> prev]
  IN  Turn[Cardinality(DOMAIN h)]

\* Mutant: the loop ends with the first node it removes.
SRemoveAllOnce(x) == SRemove(x)

\* g_slist_remove_all
SRemoveAll(x) == /\ sList # None
                 /\ SBecomes(Purge(sHeap, sList, x).heap, Purge(sHeap, sList, x).list)

\* The nodes of s linked in the order of t.
InOrder(h, t) == [m \in DOMAIN h |->
  IF \A i \in DOMAIN t : t[i] # m THEN h[m]
  ELSE LET i == CHOOSE k \in DOMAIN t : t[k] = m
       IN  [h[m] EXCEPT !.next = IF i = Len(t) THEN None ELSE t[i + 1]]]

\* g_slist_reverse
SReverse == /\ sList # None
            /\ SBecomes(InOrder(sHeap, Reverse(SChain)), LastOf(sHeap, sList))

\* g_slist_sort
SSort == /\ Len(SChain) > 1
         /\ LET t == StableOrder(sHeap, SChain) IN SBecomes(InOrder(sHeap, t), t[1])

\* g_slist_concat; the caller forgets the second list.
SConcat == /\ sSpare # None
           /\ sHeap' = IF sList = None THEN sHeap ELSE Relink(sHeap, LastOf(sHeap, sList), sSpare)
           /\ sList' = IF sList = None THEN sSpare ELSE sList
           /\ sSpare' = None

\* g_slist_copy
SCopy ==
  /\ sSpare = None /\ sList # None
  /\ \E t \in [DOMAIN SChain -> SFresh] :
       /\ IsInjective(t)
       /\ sHeap' = [m \in DOMAIN sHeap \cup {t[i] : i \in DOMAIN t} |->
                      IF m \in DOMAIN sHeap THEN sHeap[m]
                      ELSE LET i == CHOOSE k \in DOMAIN t : t[k] = m
                           IN  [data |-> sHeap[SChain[i]].data,
                                next |-> IF i = Len(t) THEN None ELSE t[i + 1]]]
       /\ sSpare' = t[1]
  /\ UNCHANGED sList

\* g_slist_free
SFree == sList # None /\ SBecomes(Free(sHeap, InChain(sHeap, sList)), None)

SInit == sHeap = << >> /\ sList = None /\ sSpare = None

SNext ==
  \/ \E x \in Data : \/ SPrepend(x) \/ SAppend(x) \/ SInsertSorted(x) \/ SRemove(x) \/ SRemoveAll(x)
                     \/ \E n \in InChain(sHeap, sList) \cup {None} : SInsertBefore(n, x)
  \/ \E n \in InChain(sHeap, sList) : SDelete(n)
  \/ SReverse \/ SSort \/ SConcat \/ SCopy \/ SFree

SSpec == SInit /\ [][SNext]_sVars

-----------------------------------------------------------------------------
\* Nothing is lost and nothing is shared: every allocated node is in exactly one
\* of the two lists, and no list runs into freed memory.
SNoLoss ==
  /\ InChain(sHeap, sList) \cap InChain(sHeap, sSpare) = {}
  /\ InChain(sHeap, sList) \cup InChain(sHeap, sSpare) = DOMAIN sHeap
  /\ \A n \in DOMAIN sHeap : sHeap[n].next \in DOMAIN sHeap \cup {None}

\* No value that is asked to go from the whole list stays in it
\* (g_slist_remove_all keeps its place over runs of nodes it removes).
SPurges == [][\A x \in Data : SRemoveAll(x) => \A i \in DOMAIN DataOf(sHeap', sList') :
                                                 DataOf(sHeap', sList')[i] # x]_sVars

\* The lists are the sequences the functions promise.
SLists      == INSTANCE LinkedLists WITH first <- DataOf(sHeap, sList), second <- DataOf(sHeap, sSpare)
SIsSequence == SLists!ListsSpec

=============================================================================
