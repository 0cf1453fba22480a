------------------------------- MODULE DList --------------------------------
(***************************************************************************)
(* The doubly linked list of eglib (glist.c), pointer by pointer.  A       *)
(* caller has two lists by their first nodes and edits the first.  Below   *)
(* it is the queue (gqueue.c), made of the same functions and beside these *)
(* lists: the addresses that one frees, another may be given.              *)
(***************************************************************************)
EXTENDS Chains, SequencesExt, Functions

VARIABLES
  dHeap,    \* allocated nodes: [data, prev, next]
  dList,    \* the first list
  dSpare    \* the second one

dVars == <<dHeap, dList, dSpare>>

DTypeOK ==
  /\ DOMAIN dHeap \subseteq Nodes
  /\ \A n \in DOMAIN dHeap : dHeap[n] \in [data : Data, prev : Nodes \cup {None}, next : Nodes \cup {None}]
  /\ dList \in Nodes \cup {None} /\ dSpare \in Nodes \cup {None}

-----------------------------------------------------------------------------
\* Mutant: the node that follows is not told.
NewNodeOneWay(h, n, prev, data, next) ==
  [m \in DOMAIN h \cup {n} |->
     IF m = n THEN [data |-> data, prev |-> prev, next |-> next]
     ELSE IF m = prev THEN [h[m] EXCEPT !.next = n] ELSE h[m]]

\* new_node
NewNode(h, n, prev, data, next) ==
  [m \in DOMAIN h \cup {n} |->
     IF m = n THEN [data |-> data, prev |-> prev, next |-> next]
     ELSE IF m = prev THEN [h[m] EXCEPT !.next = n]
     ELSE IF m = next THEN [h[m] EXCEPT !.prev = n] ELSE h[m]]

\* disconnect_node
Disconnect(h, n) ==
  [m \in DOMAIN h |->
     IF m = h[n].prev THEN [h[m] EXCEPT !.next = h[n].next]
     ELSE IF m = h[n].next THEN [h[m] EXCEPT !.prev = h[n].prev] ELSE h[m]]

Fresh == Nodes \ DOMAIN dHeap
Chain == InChain(dHeap, dList)

Becomes(h, p) == dHeap' = h /\ dList' = p /\ UNCHANGED dSpare

\* g_list_prepend
DPrepend(x) == \E n \in Fresh :
  Becomes(NewNode(dHeap, n, IF dList = None THEN None ELSE dHeap[dList].prev, x, dList), n)

\* Mutant: the new node goes behind the one that is passed.
AppendedHere(h, p, n, x) == NewNode(h, n, p, x, None)

\* g_list_append
Appended(h, p, n, x) == NewNode(h, n, LastOf(h, p), x, None)

DAppend(x) == \E n \in Fresh :
  Becomes(Appended(dHeap, dList, n, x), IF dList = None THEN n ELSE dList)

\* g_list_insert_before
DInsertBefore(s, x) == \E n \in Fresh :
  Becomes(NewNode(dHeap, n, dHeap[s].prev, x, s), IF dList = s THEN n ELSE dList)

\* Mutant: the first node is not compared.
StopAtLater(x) ==
  LET larger == {i \in DOMAIN Follow(dHeap, dList) : i > 1 /\ Key[dHeap[Follow(dHeap, dList)[i]].data] > Key[x]}
  IN  IF larger = {} THEN None ELSE Follow(dHeap, dList)[CHOOSE i \in larger : \A j \in larger : i <= j]

\* The node before which g_list_insert_sorted stops, or None.
StopAt(x) ==
  LET larger == {i \in DOMAIN Follow(dHeap, dList) : Key[dHeap[Follow(dHeap, dList)[i]].data] > Key[x]}
  IN  IF larger = {} THEN None ELSE Follow(dHeap, dList)[CHOOSE i \in larger : \A j \in larger : i <= j]

\* g_list_insert_sorted
DInsertSorted(x) == \E n \in Fresh :
  LET at == StopAt(x)
      before == IF at = None THEN LastOf(dHeap, dList) ELSE dHeap[at].prev
  IN  Becomes(NewNode(dHeap, n, before, x, at), IF dList = at THEN n ELSE dList)

\* g_list_find
Find(h, p, x) == LET at == {i \in DOMAIN Follow(h, p) : h[Follow(h, p)[i]].data = x}
                 IN  IF at = {} THEN None ELSE Follow(h, p)[CHOOSE i \in at : \A j \in at : i <= j]

\* g_list_delete_link, g_list_remove by the node it finds
DDelete(n) == Becomes(Free(Disconnect(dHeap, n), {n}), IF dList = n THEN dHeap[n].next ELSE dList)

DRemove(x) == Find(dHeap, dList, x) # None /\ DDelete(Find(dHeap, dList, x))

\* g_list_remove_all: the first node found goes, until there is none.
DRemoveAll(x) ==
  LET After[k \in 0..Cardinality(Chain)] ==
        IF k = 0 THEN [heap |-> dHeap, list |-> dList]
        ELSE LET s == After[k - 1]
                 n == Find(s.heap, s.list, x)
             IN  IF n = None THEN s
                 ELSE [heap |-> Free(Disconnect(s.heap, n), {n}),
                       list |-> IF n = s.list THEN s.heap[n].next ELSE s.list]
      end == After[Cardinality(Chain)]
  IN  Find(dHeap, dList, x) # None /\ Becomes(end.heap, end.list)

\* Mutant: the pointers of the first node are left.
ReversedOnce == [m \in DOMAIN dHeap |->
  IF m \in Chain \ {dList} THEN [dHeap[m] EXCEPT !.next = dHeap[m].prev, !.prev = dHeap[m].next]
  ELSE dHeap[m]]

\* The heap after g_list_reverse: both pointers of every node change places.
ReversedAll == [m \in DOMAIN dHeap |->
  IF m \in Chain THEN [dHeap[m] EXCEPT !.next = dHeap[m].prev, !.prev = dHeap[m].next]
  ELSE dHeap[m]]

\* g_list_reverse
DReverse == Becomes(ReversedAll, LastOf(dHeap, dList))

\* g_list_sort: do_sort orders the nodes along next, the loop mends prev.
DSort ==
  LET s == StableOrder(dHeap, Follow(dHeap, dList))
      Place(m) == CHOOSE i \in DOMAIN s : s[i] = m
  IN  /\ Len(s) > 1
      /\ Becomes([m \in DOMAIN dHeap |->
                    IF m \notin Chain THEN dHeap[m]
                    ELSE [dHeap[m] EXCEPT
                            !.next = IF Place(m) = Len(s) THEN None ELSE s[Place(m) + 1],
                            !.prev = IF Place(m) = 1 THEN None ELSE s[Place(m) - 1]]], s[1])

\* g_list_concat; the caller forgets the second list.
DConcat ==
  LET end == LastOf(dHeap, dList)
  IN  /\ dSpare # None
      /\ dHeap' = IF dList = None THEN dHeap
                  ELSE [dHeap EXCEPT ![end].next = dSpare, ![dSpare].prev = end]
      /\ dList' = IF dList = None THEN dSpare ELSE dList
      /\ dSpare' = None

\* g_list_copy: new nodes, in the order of the list.
DCopy ==
  LET s == Follow(dHeap, dList)
  IN  /\ dSpare = None /\ dList # None
      /\ \E t \in [DOMAIN s -> Fresh] :
           /\ IsInjective(t)
           /\ dHeap' = [m \in DOMAIN dHeap \cup {t[i] : i \in DOMAIN t} |->
                          IF m \in DOMAIN dHeap THEN dHeap[m]
                          ELSE LET i == CHOOSE k \in DOMAIN t : t[k] = m
                               IN  [data |-> dHeap[s[i]].data,
                                    prev |-> IF i = 1 THEN None ELSE t[i - 1],
                                    next |-> IF i = Len(s) THEN None ELSE t[i + 1]]]
           /\ dSpare' = t[1]
      /\ UNCHANGED dList

\* g_list_free
DFree == dList # None /\ Becomes(Free(dHeap, Chain), None)

DInit == /\ dHeap = << >> /\ dList = None /\ dSpare = None

DNext ==
  \/ \E x \in Data : DPrepend(x) \/ DAppend(x) \/ DInsertSorted(x) \/ DRemove(x) \/ DRemoveAll(x)
  \/ \E n \in Chain : DDelete(n) \/ \E x \in Data : DInsertBefore(n, x)
  \/ DReverse \/ DSort \/ DConcat \/ DCopy \/ DFree

DSpec == DInit /\ [][DNext]_dVars

-----------------------------------------------------------------------------
\* Both pointers of every node agree with those of its neighbours, and the two
\* lists share no node.
DLinked ==
  /\ \A n \in DOMAIN dHeap :
       /\ dHeap[n].next # None => dHeap[n].next \in DOMAIN dHeap /\ dHeap[dHeap[n].next].prev = n
       /\ dHeap[n].prev # None => dHeap[n].prev \in DOMAIN dHeap /\ dHeap[dHeap[n].prev].next = n
  /\ dList # None => dHeap[dList].prev = None
  /\ dSpare # None => dHeap[dSpare].prev = None
  /\ Chain \cap InChain(dHeap, dSpare) = {}

Ordered(s) == \A i, j \in DOMAIN s : i < j => Key[s[i]] <= Key[s[j]]

\* Inserting in order keeps a list in order that is (the invariant of the loop,
\* glist.c:248), at either end and between equal entries.
DKeepsOrder ==
  [][(\E x \in Data : DInsertSorted(x)) /\ Ordered(DataOf(dHeap, dList))
       => Ordered(DataOf(dHeap', dList'))]_dVars

\* Along next the lists are the sequences the functions promise.
DLists      == INSTANCE LinkedLists WITH first <- DataOf(dHeap, dList), second <- DataOf(dHeap, dSpare)
DIsSequence == DLists!ListsSpec

-----------------------------------------------------------------------------
(* The queue: first and last node of a list and its length. *)

VARIABLES
  qHead, qTail,   \* head, tail
  qLength         \* length

qVars == <<dVars, qHead, qTail, qLength>>

QTypeOK == /\ DTypeOK
           /\ qHead \in Nodes \cup {None} /\ qTail \in Nodes \cup {None}
           /\ qLength \in 0..Cardinality(Nodes)
           /\ qHead = None <=> qTail = None
           /\ qHead = None <=> qLength = 0

Queued == DataOf(dHeap, qHead)

-----------------------------------------------------------------------------
\* g_queue_push_head
QPushHead(x) == \E n \in Fresh :
  /\ dHeap' = NewNode(dHeap, n, IF qHead = None THEN None ELSE dHeap[qHead].prev, x, qHead)
  /\ qHead' = n
  /\ qTail' = IF qTail = None THEN n ELSE qTail
  /\ qLength' = qLength + 1
  /\ UNCHANGED <<dList, dSpare>>

\* g_queue_push_tail: appends behind the tail, then steps to the new node.
QPushTail(x) == \E n \in Fresh :
  /\ dHeap' = Appended(dHeap, qTail, n, x)
  /\ LET t == IF qTail = None THEN n ELSE qTail
     IN  IF qHead = None THEN qHead' = t /\ qTail' = t
         ELSE qHead' = qHead /\ qTail' = dHeap'[t].next
  /\ qLength' = qLength + 1
  /\ UNCHANGED <<dList, dSpare>>

\* Mutant: the tail of an emptied queue is left.
QPopHeadStale ==
  LET rest == dHeap[qHead].next
  IN  /\ qLength > 0
      /\ dHeap' = [Free(dHeap, {qHead}) EXCEPT ![rest].prev = None]
      /\ qHead' = rest
      /\ qLength' = qLength - 1
      /\ UNCHANGED <<dList, dSpare, qTail>>

\* g_queue_pop_head
QPopHead ==
  LET rest == dHeap[qHead].next
      left == Free(dHeap, {qHead})
  IN  /\ qLength > 0
      /\ qHead' = rest
      /\ qLength' = qLength - 1
      /\ IF qLength > 1 THEN dHeap' = [left EXCEPT ![rest].prev = None] /\ UNCHANGED qTail
         ELSE dHeap' = left /\ qTail' = None
      /\ UNCHANGED <<dList, dSpare>>

\* g_queue_free, and a new queue
QFree == /\ qHead # None
         /\ dHeap' = Free(dHeap, InChain(dHeap, qHead))
         /\ qHead' = None /\ qTail' = None /\ qLength' = 0
         /\ UNCHANGED <<dList, dSpare>>

QInit == DInit /\ qHead = None /\ qTail = None /\ qLength = 0

QNext == \/ DNext /\ UNCHANGED <<qHead, qTail, qLength>>
         \/ \E x \in Data : QPushHead(x) \/ QPushTail(x)
         \/ QPopHead \/ QFree

QSpec == QInit /\ [][QNext]_qVars

-----------------------------------------------------------------------------
\* Head, tail and length are those of one well-linked list, also when it becomes
\* empty and is filled again from either end, and no node is lost.
QShape ==
  /\ Len(Queued) = qLength
  /\ DOMAIN dHeap = Chain \cup InChain(dHeap, dSpare) \cup InChain(dHeap, qHead)
  /\ InChain(dHeap, qHead) \cap (Chain \cup InChain(dHeap, dSpare)) = {}
  /\ qTail = LastOf(dHeap, qHead)
  /\ \A i \in 1..qLength : dHeap[Follow(dHeap, qHead)[i]].prev
                             = IF i = 1 THEN None ELSE Follow(dHeap, qHead)[i - 1]

\* The queue is a sequence that grows at the two ends and shrinks at the front.
QIsDeque ==
  [][\/ \E x \in Data : Queued' \in {<<x>> \o Queued, Append(Queued, x)}
     \/ Queued # << >> /\ Queued' = Tail(Queued)
     \/ Queued' = << >>]_Queued

=============================================================================
