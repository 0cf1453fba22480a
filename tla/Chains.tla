------------------------------- MODULE Chains -------------------------------
(***************************************************************************)
(* List nodes in memory: a heap is a function from the addresses of the    *)
(* allocated nodes to records with a field next, shared by DList with      *)
(* its queue, and SList (eglib/glist.c, gqueue.c, gslist.c).               *)
(***************************************************************************)
EXTENDS Integers, Sequences, FiniteSets

CONSTANTS
  Nodes,   \* addresses that malloc may return
  Data,    \* what the caller stores
  None,    \* the NULL pointer
  Key      \* order of Data under the caller's comparison

ASSUME ChainsAssumption ==
  /\ None \notin Nodes /\ IsFiniteSet(Nodes)
  /\ Key \in [Data -> Int]

\* The nodes from p on along next, no more than there are.
Follow(h, p) ==
  LET From[left \in 0..Cardinality(DOMAIN h)] ==
        [q \in Nodes \cup {None} |->
           IF q \notin DOMAIN h \/ left = 0 THEN << >> ELSE <<q>> \o From[left - 1][h[q].next]]
  IN  From[Cardinality(DOMAIN h)][p]

InChain(h, p) == {Follow(h, p)[i] : i \in DOMAIN Follow(h, p)}

DataOf(h, p) == [i \in DOMAIN Follow(h, p) |-> h[Follow(h, p)[i]].data]

\* g_list_last, g_slist_last
LastOf(h, p) == IF p = None THEN None ELSE Follow(h, p)[Len(Follow(h, p))]

Free(h, gone) == [n \in DOMAIN h \ gone |-> h[n]]

\* The order in which a stable sort leaves a sequence of nodes.
StableOrder(h, s) ==
  CHOOSE t \in [DOMAIN s -> {s[i] : i \in DOMAIN s}] :
    /\ {t[i] : i \in DOMAIN t} = {s[i] : i \in DOMAIN s}
    /\ \A i, j \in DOMAIN t : i < j =>
         \/ Key[h[t[i]].data] < Key[h[t[j]].data]
         \/ /\ Key[h[t[i]].data] = Key[h[t[j]].data]
            /\ \E k, l \in DOMAIN s : k < l /\ s[k] = t[i] /\ s[l] = t[j]

=============================================================================
