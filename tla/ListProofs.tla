----------------------------- MODULE ListProofs -----------------------------
(***************************************************************************)
(* The lists and the queue of eglib, for every set of nodes and of data,   *)
(* every order of the data and every sequence of calls: they are the       *)
(* sequences that LinkedLists promises, the pointers of every node agree   *)
(* with its neighbours', and no node is lost or shared.                    *)
(*                                                                         *)
(* None of this is inductive as it stands: a chain of nodes that ran into  *)
(* itself would keep it.  The invariants (QInv, SInv) say that following   *)
(* next from a head gives a sequence of distinct nodes that ends, and that *)
(* the chains take up the heap between them.  Of every operation one lemma *)
(* shows which sequence the new chain is (Edit, SEdit); what it says of    *)
(* the data follows, and so does what it leaves alone.                     *)
(***************************************************************************)
EXTENDS DList, SList, FiniteSetTheorems, WellFoundedInduction, TLAPS

-----------------------------------------------------------------------------
(* Numbers *)

\* A set of numbers has a least one.
LEMMA LeastPlace ==
  ASSUME NEW T, T \subseteq Nat, T # {}
  PROVE  \E m \in T : \A k \in T : m <= k
<1> DEFINE R == OpToRel(<, Nat)
<1>1. IsWellFoundedOn(R, Nat)
  BY NatLessThanWellFounded
<1>2. R = {ss \in Nat \X Nat : ss[1] < ss[2]}
  BY DEF OpToRel
<1> HIDE DEF R
<1>3. PICK m \in T : \A k \in T : ~ (<<k, m>> \in R)
  BY <1>1, WFMin
<1> SUFFICES ASSUME NEW k \in T PROVE m <= k
  OBVIOUS
<1>4. <<k, m>> \notin R /\ <<k, m>> \in Nat \X Nat /\ k \in Nat /\ m \in Nat
  BY <1>3
<1>5. <<k, m>> \in R <=> k < m
  BY <1>2, <1>4
<1> QED  BY <1>4, <1>5

-----------------------------------------------------------------------------
(* Recursion *)

\* What holds of 0 and goes over from a number to the next holds of all up to n.
LEMMA UpTo ==
  ASSUME NEW n \in Nat, NEW P, 0 \in P, \A k \in 0..(n - 1) : k \in P => k + 1 \in P
  PROVE  \A k \in 0..n : k \in P
<1> DEFINE T == {k \in 0..n : k \notin P}
<1> SUFFICES ASSUME T # {} PROVE FALSE
  OBVIOUS
<1>1. T \subseteq Nat
  OBVIOUS
<1> HIDE DEF T
<1>2. PICK m \in T : \A k \in T : m <= k
  BY <1>1, LeastPlace
<1>3. m \in 0..n /\ m \notin P
  BY <1>2 DEF T
<1>4. m # 0 /\ m - 1 \in 0..(n - 1) /\ m - 1 \in 0..n /\ (m - 1) + 1 = m
  BY <1>3
<1>5. m - 1 \notin T
  BY <1>2, <1>4
<1> QED  BY <1>3, <1>4, <1>5 DEF T

\* g goes n steps of F from x on.
Iterates(g, n, X, F, x) == g \in [0..n -> X] /\ g[0] = x /\ \A k \in 1..n : g[k] = F[g[k - 1]]

\* A function of numbers may be defined from step to step.
LEMMA Iterated ==
  ASSUME NEW X, NEW F, F \in [X -> X], NEW x, x \in X, NEW n, n \in Nat
  PROVE  \E g : Iterates(g, n, X, F, x)
<1> DEFINE P == {m \in Nat : \E g \in [0..m -> X] : g[0] = x /\ \A k \in 1..m : g[k] = F[g[k - 1]]}
<1>1. 0 \in P
  <2> DEFINE g == [k \in 0..0 |-> x]
  <2>1. g \in [0..0 -> X] /\ g[0] = x /\ \A k \in 1..0 : g[k] = F[g[k - 1]]
    OBVIOUS
  <2> QED  BY <2>1
<1>2. ASSUME NEW m \in 0..(n - 1), m \in P PROVE m + 1 \in P
  <2>1. PICK g \in [0..m -> X] : g[0] = x /\ \A k \in 1..m : g[k] = F[g[k - 1]]
    BY <1>2
  <2> DEFINE f == [k \in 0..(m + 1) |-> IF k <= m THEN g[k] ELSE F[g[m]]]
  <2>2. f \in [0..(m + 1) -> X]
    BY <2>1
  <2>3. f[0] = x
    BY <2>1
  <2>4. ASSUME NEW k \in 1..(m + 1) PROVE f[k] = F[f[k - 1]]
    <3>1. CASE k <= m
      <4>1. k \in 1..m /\ k - 1 \in 0..m /\ k - 1 <= m
        BY <3>1
      <4> QED  BY <2>1, <3>1, <4>1
    <3>2. CASE k = m + 1
      <4>1. k - 1 = m /\ m \in 0..(m + 1) /\ m <= m /\ ~(k <= m)
        BY <3>2
      <4> QED  BY <3>2, <4>1
    <3> QED  BY <3>1, <3>2
  <2> HIDE DEF f
  <2> QED  BY <2>2, <2>3, <2>4
<1> HIDE DEF P
<1>3. n \in 0..n /\ \A k \in 0..n : k \in P
  BY <1>1, <1>2, UpTo
<1>4. n \in P
  BY <1>3
<1> QED  BY <1>4 DEF P, Iterates

-----------------------------------------------------------------------------
(* Sequences of nodes along next *)

\* The i-th element of s, and None outside of it.
Entry(s, i) == IF i \in 1..Len(s) THEN s[i] ELSE None

Along(h, p, s) ==
  /\ s \in Seq(Nodes) /\ \A i \in 1..Len(s) : s[i] \in DOMAIN h
  /\ \A i, j \in 1..Len(s) : s[i] = s[j] => i = j
  /\ p = Entry(s, 1)
  /\ \A i \in 1..Len(s) : h[s[i]].next = Entry(s, i + 1)

\* Heaps whose nodes have fields of the right kind.
Proper(h) == DOMAIN h \subseteq Nodes /\ \A n \in DOMAIN h : h[n].next \in Nodes \cup {None} /\ h[n].data \in Data

LEMMA NoNode == None \notin Nodes /\ IsFiniteSet(Nodes)
BY ChainsAssumption

LEMMA FewNodes ==
  ASSUME NEW h, Proper(h), NEW p, NEW s, Along(h, p, s)
  PROVE  Cardinality(DOMAIN h) \in Nat /\ Len(s) \in Nat /\ Len(s) <= Cardinality(DOMAIN h)
<1>1. IsFiniteSet(DOMAIN h)
  BY NoNode, FS_Subset DEF Proper
<1>2. Len(s) \in Nat /\ DOMAIN s = 1..Len(s) /\ s \in [1..Len(s) -> DOMAIN h]
  BY DEF Along
<1>3. s \in Injection(1..Len(s), DOMAIN h)
  BY <1>2 DEF Along, Injection, IsInjective
<1>4. IsFiniteSet(1..Len(s)) /\ Cardinality(1..Len(s)) = Len(s)
  BY <1>2, FS_Interval
<1>5. Cardinality(1..Len(s)) <= Cardinality(DOMAIN h)
  BY <1>1, <1>3, <1>4, FS_Injection
<1> QED  BY <1>1, <1>2, <1>4, <1>5, FS_CardinalityType

\* A chain is what Follow finds.
LEMMA FollowIs ==
  ASSUME NEW h, Proper(h), NEW p, NEW s, Along(h, p, s)
  PROVE  Follow(h, p) = s
<1> DEFINE S == Nodes \cup {None}
           N == Cardinality(DOMAIN h)
           n == Len(s)
           Eq(g) == g = [left \in 0..N |->
             [q \in S |-> IF q \notin DOMAIN h \/ left = 0 THEN << >> ELSE <<q>> \o g[left - 1][h[q].next]]]
           From == CHOOSE g : Eq(g)
<1>1. Follow(h, p) = From[N][p]
  BY DEF Follow
<1>2. n \in Nat /\ N \in Nat /\ n <= N
  BY FewNodes
<1>3. \E g : Eq(g)
  <2> DEFINE X == [S -> Seq(Nodes)]
             F == [f \in X |-> [q \in S |-> IF q \notin DOMAIN h THEN << >> ELSE <<q>> \o f[h[q].next]]]
             x == [q \in S |-> << >>]
  <2>1. F \in [X -> X] /\ x \in X
    <3>1. ASSUME NEW f \in X, NEW q \in S, q \in DOMAIN h PROVE <<q>> \o f[h[q].next] \in Seq(Nodes)
      <4>1. q \in Nodes /\ h[q].next \in S
        BY <3>1 DEF Proper
      <4>2. <<q>> \in Seq(Nodes) /\ f[h[q].next] \in Seq(Nodes)
        BY <4>1
      <4> QED  BY <4>2
    <3>2. << >> \in Seq(Nodes)
      OBVIOUS
    <3> HIDE DEF S
    <3> QED  BY <3>1, <3>2
  <2> HIDE DEF X, F, x, S, N
  <2>2. PICK g : g \in [0..N -> X] /\ g[0] = x /\ \A k \in 1..N : g[k] = F[g[k - 1]]
    <3>1. N \in Nat
      BY <1>2
    <3>2. \E g : Iterates(g, N, X, F, x)
      BY <2>1, <3>1, Iterated
    <3> QED  BY <3>2 DEF Iterates
  <2> USE DEF S
  <2>3. ASSUME NEW k \in 0..N
        PROVE  g[k] = [q \in S |-> IF q \notin DOMAIN h \/ k = 0 THEN << >> ELSE <<q>> \o g[k - 1][h[q].next]]
    <3>1. CASE k = 0
      BY <2>2, <3>1 DEF x
    <3>2. CASE k # 0
      <4>1. k \in 1..N /\ k - 1 \in 0..N
        BY <1>2, <3>2
      <4>2. g[k] = F[g[k - 1]] /\ g[k - 1] \in X
        BY <2>2, <4>1
      <4> QED  BY <3>2, <4>2 DEF F
    <3> QED  BY <3>1, <3>2
  <2>4. g = [k \in 0..N |-> g[k]]
    BY <2>2
  <2>5. Eq(g)
    BY <2>3, <2>4, Zenon
  <2> QED  BY <2>5
<1>4. Eq(From)
  <2> HIDE DEF Eq
  <2> QED  BY <1>3, Zenon
<1>5. ASSUME NEW k \in 0..N, NEW q \in S
      PROVE  From[k][q] = IF q \notin DOMAIN h \/ k = 0 THEN << >> ELSE <<q>> \o From[k - 1][h[q].next]
  <2> HIDE DEF From, S, N
  <2>1. From[k] = [r \in S |-> IF r \notin DOMAIN h \/ k = 0 THEN << >> ELSE <<r>> \o From[k - 1][h[r].next]]
    BY <1>4, Zenon
  <2> QED  BY <2>1, Zenon
<1> HIDE DEF From, Eq
<1> DEFINE P == {k \in Nat : \A left \in 0..N : k <= n /\ k <= left => From[left][Entry(s, n - k + 1)] = SubSeq(s, n - k + 1, n)}
<1>6. 0 \in P
  <2> SUFFICES ASSUME NEW left \in 0..N PROVE From[left][Entry(s, n - 0 + 1)] = SubSeq(s, n - 0 + 1, n)
    OBVIOUS
  <2>1. Entry(s, n - 0 + 1) = None
    BY <1>2 DEF Entry
  <2>2. None \in S /\ None \notin DOMAIN h
    BY NoNode DEF Proper
  <2>3. SubSeq(s, n - 0 + 1, n) = << >>
    BY <1>2 DEF Along
  <2> QED  BY <1>5, <2>1, <2>2, <2>3
<1>7. ASSUME NEW k \in 0..(n - 1), k \in P PROVE k + 1 \in P
  <2> SUFFICES ASSUME NEW left \in 0..N, k + 1 <= n, k + 1 <= left
               PROVE  From[left][Entry(s, n - (k + 1) + 1)] = SubSeq(s, n - (k + 1) + 1, n)
    OBVIOUS
  <2> DEFINE i == n - k
  <2>1. i \in 1..n /\ n - (k + 1) + 1 = i /\ left - 1 \in 0..N /\ k <= left - 1 /\ n - k + 1 = i + 1 /\ left # 0
    BY <1>2
  <2> HIDE DEF i
  <2>2. Entry(s, i) = s[i] /\ s[i] \in DOMAIN h /\ s[i] \in S /\ h[s[i]].next = Entry(s, i + 1)
    BY <2>1 DEF Along, Proper, Entry
  <2>3. From[left - 1][Entry(s, i + 1)] = SubSeq(s, i + 1, n)
    <3>1. k <= n /\ k <= left - 1 /\ left - 1 \in 0..N
      BY <1>2, <2>1
    <3>2. From[left - 1][Entry(s, n - k + 1)] = SubSeq(s, n - k + 1, n)
      BY <1>7, <3>1
    <3> QED  BY <2>1, <3>2
  <2>4. From[left][s[i]] = <<s[i]>> \o SubSeq(s, i + 1, n)
    <3> HIDE DEF S
    <3> QED  BY <1>5, <2>1, <2>2, <2>3
  <2>5. <<s[i]>> \o SubSeq(s, i + 1, n) = SubSeq(s, i, n)
    <3>1. s \in Seq(Nodes)
      BY DEF Along
    <3> HIDE DEF n
    <3> QED  BY <1>2, <2>1, <3>1 DEF n
  <2> QED  BY <2>1, <2>2, <2>4, <2>5
<1> HIDE DEF P, S, N
<1>8. n \in P
  <2>1. \A k \in 0..n : k \in P
    BY <1>2, <1>6, <1>7, UpTo
  <2> QED  BY <1>2, <2>1
<1>9. N \in 0..N /\ n <= N /\ n <= n /\ n - n + 1 = 1
  BY <1>2
<1>10. From[N][Entry(s, 1)] = SubSeq(s, 1, n)
  BY <1>8, <1>9 DEF P
<1>11. SubSeq(s, 1, n) = s /\ p = Entry(s, 1)
  BY DEF Along
<1> QED  BY <1>1, <1>10, <1>11

\* The nodes of a sequence, and what they hold.
Members(s)  == {s[i] : i \in 1..Len(s)}
Datas(h, s) == [i \in 1..Len(s) |-> h[s[i]].data]

LEMMA ListIs ==
  ASSUME NEW h, Proper(h), NEW p, NEW s, Along(h, p, s)
  PROVE  /\ Follow(h, p) = s /\ InChain(h, p) = Members(s) /\ DataOf(h, p) = Datas(h, s)
         /\ Datas(h, s) \in Seq(Data) /\ Len(Datas(h, s)) = Len(s) /\ Len(s) \in Nat
         /\ \A i \in 1..Len(s) : Datas(h, s)[i] = h[s[i]].data
         /\ p \in Nodes \cup {None} /\ (p = None <=> s = << >>)
         /\ LastOf(h, p) = Entry(s, Len(s))
<1>1. Follow(h, p) = s
  BY FollowIs
<1>2. DOMAIN s = 1..Len(s) /\ Len(s) \in Nat /\ s \in Seq(Nodes)
  BY DEF Along
<1>3. InChain(h, p) = Members(s) /\ DataOf(h, p) = Datas(h, s)
  BY <1>1, <1>2 DEF InChain, DataOf, Members, Datas
<1>4. \A i \in 1..Len(s) : h[s[i]].data \in Data
  BY DEF Along, Proper
<1>5. Datas(h, s) \in Seq(Data) /\ Len(Datas(h, s)) = Len(s) /\ \A i \in 1..Len(s) : Datas(h, s)[i] = h[s[i]].data
  BY <1>2, <1>4 DEF Datas
<1>6. p \in Nodes \cup {None} /\ (p = None <=> s = << >>)
  <2>1. CASE Len(s) = 0
    BY <1>2, <2>1 DEF Along, Entry
  <2>2. CASE Len(s) # 0
    <3>1. 1 \in 1..Len(s) /\ s # << >> /\ p = s[1] /\ s[1] \in Nodes
      BY <1>2, <2>2 DEF Along, Entry
    <3> QED  BY <3>1, NoNode
  <2> QED  BY <2>1, <2>2
<1>7. LastOf(h, p) = Entry(s, Len(s))
  <2>1. CASE s = << >>
    BY <1>6, <2>1 DEF LastOf, Entry
  <2>2. CASE s # << >>
    <3>1. Len(s) \in 1..Len(s)
      BY <1>2, <2>2
    <3> QED  BY <1>1, <1>6, <2>2, <3>1 DEF LastOf, Entry
  <2> QED  BY <2>1, <2>2
<1> QED  BY <1>1, <1>2, <1>3, <1>5, <1>6, <1>7

-----------------------------------------------------------------------------
(* Sequences with one entry more or less *)

Ins(s, k, e) == [i \in 1..(Len(s) + 1) |-> IF i < k THEN s[i] ELSE IF i = k THEN e ELSE s[i - 1]]
Del(s, k)    == [i \in 1..(Len(s) - 1) |-> IF i < k THEN s[i] ELSE s[i + 1]]

LEMMA InsIs ==
  ASSUME NEW S, NEW s \in Seq(S), NEW k \in 1..(Len(s) + 1), NEW e \in S
  PROVE  /\ Ins(s, k, e) \in Seq(S) /\ Len(Ins(s, k, e)) = Len(s) + 1 /\ Len(s) \in Nat
         /\ \A i \in 1..(Len(s) + 1) : i < k => i \in 1..Len(s) /\ Ins(s, k, e)[i] = s[i]
         /\ Ins(s, k, e)[k] = e
         /\ \A i \in 1..(Len(s) + 1) : i > k => i - 1 \in 1..Len(s) /\ Ins(s, k, e)[i] = s[i - 1]
         /\ Members(Ins(s, k, e)) = Members(s) \cup {e}
<1>0. Len(s) \in Nat
  OBVIOUS
<1>1. \A i \in 1..(Len(s) + 1) : (IF i < k THEN s[i] ELSE IF i = k THEN e ELSE s[i - 1]) \in S
  <2> SUFFICES ASSUME NEW i \in 1..(Len(s) + 1)
               PROVE (IF i < k THEN s[i] ELSE IF i = k THEN e ELSE s[i - 1]) \in S
    OBVIOUS
  <2>1. (i < k => i \in 1..Len(s)) /\ (i > k => i - 1 \in 1..Len(s))
    BY <1>0
  <2> QED  BY <2>1
<1>2. Ins(s, k, e) \in Seq(S) /\ Len(Ins(s, k, e)) = Len(s) + 1
  BY <1>0, <1>1 DEF Ins
<1>3. \A i \in 1..(Len(s) + 1) : i < k => i \in 1..Len(s) /\ Ins(s, k, e)[i] = s[i]
  BY <1>0 DEF Ins
<1>4. Ins(s, k, e)[k] = e
  BY <1>0 DEF Ins
<1>5. \A i \in 1..(Len(s) + 1) : i > k => i - 1 \in 1..Len(s) /\ Ins(s, k, e)[i] = s[i - 1]
  BY <1>0 DEF Ins
<1>6. Members(Ins(s, k, e)) = Members(s) \cup {e}
  <2> DEFINE t == Ins(s, k, e)
  <2> HIDE DEF t
  <2>1. ASSUME NEW i \in 1..Len(t) PROVE t[i] \in Members(s) \cup {e}
    <3>1. i \in 1..(Len(s) + 1)
      BY <1>2 DEF t
    <3>2. i < k \/ i = k \/ i > k
      BY <3>1
    <3> QED  BY <1>3, <1>4, <1>5, <3>1, <3>2 DEF Members, t
  <2>2. ASSUME NEW i \in 1..Len(s) PROVE s[i] \in Members(t)
    <3>1. CASE i < k
      <4>1. i \in 1..(Len(s) + 1) /\ i \in 1..Len(t)
        BY <1>0, <1>2 DEF t
      <4> QED  BY <1>3, <3>1, <4>1 DEF Members, t
    <3>2. CASE ~(i < k)
      <4>1. i + 1 \in 1..(Len(s) + 1) /\ i + 1 \in 1..Len(t) /\ i + 1 > k /\ (i + 1) - 1 = i
        BY <1>0, <1>2, <3>2 DEF t
      <4>2. t[i + 1] = s[i]
        BY <1>5, <4>1 DEF t
      <4> QED  BY <4>1, <4>2 DEF Members
    <3> QED  BY <3>1, <3>2
  <2>3. e \in Members(t)
    <3>1. k \in 1..Len(t)
      BY <1>2 DEF t
    <3> QED  BY <1>4, <3>1 DEF Members, t
  <2>4. Members(t) \subseteq Members(s) \cup {e}
    BY <2>1 DEF Members
  <2>5. Members(s) \subseteq Members(t)
    BY <2>2 DEF Members
  <2> QED  BY <2>3, <2>4, <2>5 DEF t
<1> QED  BY <1>0, <1>2, <1>3, <1>4, <1>5, <1>6

LEMMA DelIs ==
  ASSUME NEW S, NEW s \in Seq(S), NEW k \in 1..Len(s), \A i, j \in 1..Len(s) : s[i] = s[j] => i = j
  PROVE  /\ Del(s, k) \in Seq(S) /\ Len(Del(s, k)) = Len(s) - 1 /\ Len(s) \in Nat
         /\ \A i \in 1..(Len(s) - 1) : i < k => i \in 1..Len(s) /\ Del(s, k)[i] = s[i]
         /\ \A i \in 1..(Len(s) - 1) : i >= k => i + 1 \in 1..Len(s) /\ Del(s, k)[i] = s[i + 1]
         /\ Members(Del(s, k)) = Members(s) \ {s[k]}
<1>0. Len(s) \in Nat
  OBVIOUS
<1>1. \A i \in 1..(Len(s) - 1) : (IF i < k THEN s[i] ELSE s[i + 1]) \in S
  <2> SUFFICES ASSUME NEW i \in 1..(Len(s) - 1)
               PROVE (IF i < k THEN s[i] ELSE s[i + 1]) \in S
    OBVIOUS
  <2>1. i \in 1..Len(s) /\ i + 1 \in 1..Len(s)
    BY <1>0
  <2> QED  BY <2>1
<1>2. Del(s, k) \in Seq(S) /\ Len(Del(s, k)) = Len(s) - 1
  BY <1>0, <1>1 DEF Del
<1>3. \A i \in 1..(Len(s) - 1) : i < k => i \in 1..Len(s) /\ Del(s, k)[i] = s[i]
  BY <1>0 DEF Del
<1>4. \A i \in 1..(Len(s) - 1) : i >= k => i + 1 \in 1..Len(s) /\ Del(s, k)[i] = s[i + 1]
  BY <1>0 DEF Del
<1>5. Members(Del(s, k)) = Members(s) \ {s[k]}
  <2> DEFINE t == Del(s, k)
  <2> HIDE DEF t
  <2>1. ASSUME NEW i \in 1..Len(t) PROVE t[i] \in Members(s) \ {s[k]}
    <3>1. i \in 1..(Len(s) - 1) /\ (i < k \/ i >= k)
      BY <1>2 DEF t
    <3>2. PICK j \in 1..Len(s) : t[i] = s[j] /\ j # k
      <4>1. CASE i < k
        BY <1>3, <3>1, <4>1 DEF t
      <4>2. CASE i >= k
        <5>1. i + 1 # k
          BY <4>2, <3>1
        <5> QED  BY <1>4, <3>1, <4>2, <5>1 DEF t
      <4> QED  BY <3>1, <4>1, <4>2
    <3>3. s[j] # s[k]
      BY <3>2
    <3> QED  BY <3>2, <3>3 DEF Members
  <2>2. ASSUME NEW i \in 1..Len(s), s[i] # s[k] PROVE s[i] \in Members(t)
    <3>1. CASE i < k
      <4>1. i \in 1..(Len(s) - 1) /\ i \in 1..Len(t)
        BY <1>0, <1>2, <3>1 DEF t
      <4> QED  BY <1>3, <3>1, <4>1 DEF Members, t
    <3>2. CASE ~(i < k)
      <4>1. i # k
        BY <2>2
      <4>2. i - 1 \in 1..(Len(s) - 1) /\ i - 1 \in 1..Len(t) /\ i - 1 >= k /\ (i - 1) + 1 = i
        BY <1>0, <1>2, <3>2, <4>1 DEF t
      <4>3. t[i - 1] = s[i]
        BY <1>4, <4>2 DEF t
      <4> QED  BY <4>2, <4>3 DEF Members
    <3> QED  BY <3>1, <3>2
  <2>3. Members(t) \subseteq Members(s) \ {s[k]}
    BY <2>1 DEF Members
  <2>4. Members(s) \ {s[k]} \subseteq Members(t)
    BY <2>2 DEF Members
  <2> QED  BY <2>3, <2>4 DEF t
<1> QED  BY <1>0, <1>2, <1>3, <1>4, <1>5

LEMMA DelNodes ==
  ASSUME NEW s \in Seq(Nodes), NEW k \in 1..Len(s), \A i, j \in 1..Len(s) : s[i] = s[j] => i = j
  PROVE  /\ Del(s, k) \in Seq(Nodes) /\ Len(Del(s, k)) = Len(s) - 1 /\ Len(s) \in Nat
         /\ \A i \in 1..(Len(s) - 1) : i < k => i \in 1..Len(s) /\ Del(s, k)[i] = s[i]
         /\ \A i \in 1..(Len(s) - 1) : i >= k => i + 1 \in 1..Len(s) /\ Del(s, k)[i] = s[i + 1]
         /\ Members(Del(s, k)) = Members(s) \ {s[k]}
BY DelIs

-----------------------------------------------------------------------------
(* A node more or less in a chain *)

\* g is h with n at place k of s; with the k-th of s unlinked.
PutIn(h, s, n, k, g) ==
  /\ DOMAIN g = DOMAIN h \cup {n} /\ g[n].next = Entry(s, k)
  /\ \A i \in 1..Len(s) : g[s[i]].next = IF i = k - 1 THEN n ELSE h[s[i]].next

TakenOut(h, s, k, g) ==
  /\ DOMAIN g = DOMAIN h \ {s[k]}
  /\ \A i \in 1..Len(s) : i # k => g[s[i]].next = IF i = k - 1 THEN h[s[k]].next ELSE h[s[i]].next

LEMMA SplicedIn ==
  ASSUME NEW h, NEW p, NEW s, Along(h, p, s), NEW n \in Nodes, n \notin DOMAIN h, NEW k \in 1..(Len(s) + 1),
         NEW g, PutIn(h, s, n, k, g)
  PROVE  /\ Along(g, IF k = 1 THEN n ELSE p, Ins(s, k, n))
         /\ Members(Ins(s, k, n)) = Members(s) \cup {n} /\ Len(Ins(s, k, n)) = Len(s) + 1
<1> USE DEF PutIn
<1> DEFINE t == Ins(s, k, n)
<1>1. s \in Seq(Nodes) /\ Len(s) \in Nat /\ \A i \in 1..Len(s) : s[i] \in DOMAIN h /\ s[i] # n
  BY DEF Along
<1>2. /\ t \in Seq(Nodes) /\ Len(t) = Len(s) + 1
      /\ \A i \in 1..(Len(s) + 1) : i < k => i \in 1..Len(s) /\ t[i] = s[i]
      /\ t[k] = n
      /\ \A i \in 1..(Len(s) + 1) : i > k => i - 1 \in 1..Len(s) /\ t[i] = s[i - 1]
      /\ Members(t) = Members(s) \cup {n}
  BY <1>1, InsIs
<1> HIDE DEF t
<1>3. \A i \in 1..Len(t) : i < k \/ i = k \/ i > k
  BY <1>1, <1>2
<1>4. \A i \in 1..Len(t) : t[i] \in DOMAIN g
  BY <1>1, <1>2, <1>3
<1>5. \A i, j \in 1..Len(t) : t[i] = t[j] => i = j
  <2> SUFFICES ASSUME NEW i \in 1..Len(t), NEW j \in 1..Len(t), t[i] = t[j] PROVE i = j
    OBVIOUS
  <2>1. \A a, b \in 1..Len(s) : s[a] = s[b] => a = b
    BY DEF Along
  <2>2. CASE i = k
    BY <1>1, <1>2, <1>3, <2>2
  <2>3. CASE j = k
    BY <1>1, <1>2, <1>3, <2>3
  <2>4. CASE i # k /\ j # k
    <3>1. i \in 1..(Len(s) + 1) /\ j \in 1..(Len(s) + 1) /\ (i < k \/ i > k) /\ (j < k \/ j > k)
      BY <1>1, <1>2, <1>3, <2>4
    <3>2. CASE i < k /\ j < k
      BY <1>2, <2>1, <3>1, <3>2
    <3>3. CASE i < k /\ j > k
      <4>1. i = j - 1
        BY <1>2, <2>1, <3>1, <3>3
      <4> QED  BY <1>1, <3>1, <3>3, <4>1
    <3>4. CASE i > k /\ j < k
      <4>1. i - 1 = j
        BY <1>2, <2>1, <3>1, <3>4
      <4> QED  BY <1>1, <3>1, <3>4, <4>1
    <3>5. CASE i > k /\ j > k
      <4>1. i - 1 = j - 1
        BY <1>2, <2>1, <3>1, <3>5
      <4> QED  BY <1>1, <3>1, <4>1
    <3> QED  BY <3>1, <3>2, <3>3, <3>4, <3>5
  <2> QED  BY <2>2, <2>3, <2>4
<1>6. (IF k = 1 THEN n ELSE p) = Entry(t, 1)
  <2>1. 1 \in 1..Len(t) /\ 1 \in 1..(Len(s) + 1)
    BY <1>1, <1>2
  <2>2. CASE k = 1
    BY <1>2, <2>1, <2>2 DEF Entry
  <2>3. CASE k # 1
    <3>1. 1 < k
      BY <1>1, <2>3
    <3>2. 1 \in 1..Len(s) /\ t[1] = s[1]
      BY <1>2, <2>1, <3>1
    <3> QED  BY <2>1, <2>3, <3>2 DEF Entry, Along
  <2> QED  BY <2>2, <2>3
<1>7. ASSUME NEW i \in 1..Len(t) PROVE g[t[i]].next = Entry(t, i + 1)
  <2>1. i \in 1..(Len(s) + 1) /\ i \in Nat
    BY <1>1, <1>2
  <2>2. CASE i = k
    <3>1. g[t[i]].next = Entry(s, k)
      BY <1>2, <2>2
    <3>2. CASE k = Len(s) + 1
      <4>1. k \notin 1..Len(s) /\ i + 1 \notin 1..Len(t)
        BY <1>1, <1>2, <2>2, <3>2
      <4> QED  BY <3>1, <4>1 DEF Entry
    <3>3. CASE k # Len(s) + 1
      <4>1. k \in 1..Len(s) /\ i + 1 \in 1..Len(t) /\ i + 1 \in 1..(Len(s) + 1) /\ i + 1 > k /\ (i + 1) - 1 = k
        BY <1>1, <1>2, <2>2, <3>3
      <4>2. t[i + 1] = s[k]
        BY <1>2, <4>1
      <4> QED  BY <3>1, <4>1, <4>2 DEF Entry
    <3> QED  BY <3>2, <3>3
  <2>3. CASE i < k
    <3>1. i \in 1..Len(s) /\ t[i] = s[i] /\ i + 1 \in 1..(Len(s) + 1) /\ i + 1 \in 1..Len(t)
      BY <1>1, <1>2, <2>1, <2>3
    <3>2. CASE i = k - 1
      <4>1. i + 1 = k
        BY <2>1, <3>2
      <4> QED  BY <1>2, <3>1, <3>2, <4>1 DEF Entry
    <3>3. CASE i # k - 1
      <4>1. i + 1 < k
        BY <2>1, <2>3, <3>3
      <4>2. g[t[i]].next = Entry(s, i + 1) /\ i + 1 \in 1..Len(s) /\ t[i + 1] = s[i + 1]
        BY <1>2, <3>1, <3>3, <4>1 DEF Along
      <4> QED  BY <3>1, <4>2 DEF Entry
    <3> QED  BY <3>2, <3>3
  <2>4. CASE i > k
    <3>1. i - 1 \in 1..Len(s) /\ t[i] = s[i - 1] /\ i - 1 # k - 1 /\ (i - 1) + 1 = i
      BY <1>1, <1>2, <2>1, <2>4
    <3>2. g[t[i]].next = Entry(s, i)
      <4>1. h[s[i - 1]].next = Entry(s, (i - 1) + 1)
        BY <3>1 DEF Along
      <4> QED  BY <3>1, <4>1
    <3>3. CASE i \in 1..Len(s)
      <4>1. i + 1 \in 1..(Len(s) + 1) /\ i + 1 \in 1..Len(t) /\ i + 1 > k /\ (i + 1) - 1 = i
        BY <1>1, <1>2, <2>4, <3>3
      <4>2. t[i + 1] = s[i]
        BY <1>2, <4>1
      <4> QED  BY <3>2, <3>3, <4>1, <4>2 DEF Entry
    <3>4. CASE i \notin 1..Len(s)
      <4>1. i + 1 \notin 1..Len(t)
        BY <1>1, <1>2, <2>1, <3>4
      <4> QED  BY <3>2, <3>4, <4>1 DEF Entry
    <3> QED  BY <3>3, <3>4
  <2> QED  BY <1>3, <2>2, <2>3, <2>4
<1> QED  BY <1>2, <1>4, <1>5, <1>6, <1>7 DEF Along, t

LEMMA SplicedOut ==
  ASSUME NEW h, NEW p, NEW s, Along(h, p, s), NEW k \in 1..Len(s),
         NEW g, TakenOut(h, s, k, g)
  PROVE  /\ Along(g, IF k = 1 THEN h[p].next ELSE p, Del(s, k))
         /\ Members(Del(s, k)) = Members(s) \ {s[k]} /\ Len(Del(s, k)) = Len(s) - 1
<1> USE DEF TakenOut
<1> DEFINE t == Del(s, k)
<1>1. /\ s \in Seq(Nodes) /\ Len(s) \in Nat /\ \A i \in 1..Len(s) : s[i] \in DOMAIN h
      /\ \A i, j \in 1..Len(s) : s[i] = s[j] => i = j
  BY DEF Along
<1>2. /\ t \in Seq(Nodes) /\ Len(t) = Len(s) - 1
      /\ \A i \in 1..(Len(s) - 1) : i < k => i \in 1..Len(s) /\ t[i] = s[i]
      /\ \A i \in 1..(Len(s) - 1) : i >= k => i + 1 \in 1..Len(s) /\ t[i] = s[i + 1]
      /\ Members(t) = Members(s) \ {s[k]}
  BY <1>1, DelIs
<1> HIDE DEF t
<1>3. \A i \in 1..Len(t) : i \in 1..(Len(s) - 1) /\ i \in 1..Len(s) /\ i + 1 \in 1..Len(s) /\ (i < k \/ i >= k)
  BY <1>1, <1>2
<1>4. \A i \in 1..Len(t) : t[i] \in DOMAIN g
  <2> SUFFICES ASSUME NEW i \in 1..Len(t) PROVE t[i] \in DOMAIN g
    OBVIOUS
  <2>1. t[i] \in Members(t)
    BY DEF Members
  <2>2. Members(s) \subseteq DOMAIN h
    BY <1>1 DEF Members
  <2> QED  BY <1>2, <2>1, <2>2
<1>5. \A i, j \in 1..Len(t) : t[i] = t[j] => i = j
  <2> SUFFICES ASSUME NEW i \in 1..Len(t), NEW j \in 1..Len(t), t[i] = t[j] PROVE i = j
    OBVIOUS
  <2>1. CASE i < k /\ j < k
    BY <1>1, <1>2, <1>3, <2>1
  <2>2. CASE i < k /\ j >= k
    <3>1. i = j + 1
      BY <1>1, <1>2, <1>3, <2>2
    <3> QED  BY <1>1, <1>3, <2>2, <3>1
  <2>3. CASE i >= k /\ j < k
    <3>1. i + 1 = j
      BY <1>1, <1>2, <1>3, <2>3
    <3> QED  BY <1>1, <1>3, <2>3, <3>1
  <2>4. CASE i >= k /\ j >= k
    <3>1. i + 1 = j + 1
      <4>1. t[i] = s[i + 1] /\ t[j] = s[j + 1] /\ i + 1 \in 1..Len(s) /\ j + 1 \in 1..Len(s)
        BY <1>2, <1>3, <2>4
      <4> QED  BY <1>1, <4>1
    <3> QED  BY <1>1, <1>3, <3>1
  <2> QED  BY <1>3, <2>1, <2>2, <2>3, <2>4
<1>6. (IF k = 1 THEN h[p].next ELSE p) = Entry(t, 1)
  <2>1. 1 \in 1..Len(s) /\ p = s[1]
    BY <1>1 DEF Along, Entry
  <2>2. CASE k = 1
    <3>1. h[p].next = Entry(s, 2)
      BY <2>1 DEF Along
    <3>2. CASE Len(s) = 1
      BY <1>1, <1>2, <2>2, <3>1, <3>2 DEF Entry
    <3>3. CASE Len(s) # 1
      <4>1. 2 \in 1..Len(s) /\ 1 \in 1..Len(t) /\ 1 \in 1..(Len(s) - 1) /\ 1 >= k /\ 1 + 1 = 2
        BY <1>1, <1>2, <2>2, <3>3
      <4>2. t[1] = s[2]
        BY <1>2, <4>1
      <4> QED  BY <2>2, <3>1, <4>1, <4>2 DEF Entry
    <3> QED  BY <3>2, <3>3
  <2>3. CASE k # 1
    <3>1. 1 \in 1..Len(t) /\ 1 \in 1..(Len(s) - 1) /\ 1 < k
      BY <1>1, <1>2, <2>3
    <3>2. t[1] = s[1]
      BY <1>2, <3>1
    <3> QED  BY <2>1, <2>3, <3>1, <3>2 DEF Entry
  <2> QED  BY <2>2, <2>3
<1>7. ASSUME NEW i \in 1..Len(t) PROVE g[t[i]].next = Entry(t, i + 1)
  <2>1. /\ i \in Nat /\ i \in 1..Len(s) /\ i + 1 \in 1..Len(s) /\ i \in 1..(Len(s) - 1)
        /\ (i + 1 \in 1..Len(t) <=> (i + 1) + 1 \in 1..Len(s)) /\ (i + 1 \in 1..Len(t) => i + 1 \in 1..(Len(s) - 1))
    BY <1>1, <1>2
  <2>2. CASE i < k - 1
    <3>1. t[i] = s[i] /\ i # k /\ i # k - 1 /\ i + 1 \in 1..Len(t) /\ i + 1 < k
      BY <1>1, <1>2, <2>1, <2>2
    <3>2. t[i + 1] = s[i + 1]
      BY <1>2, <2>1, <3>1
    <3>3. g[t[i]].next = Entry(s, i + 1)
      BY <2>1, <3>1 DEF Along
    <3> QED  BY <2>1, <3>1, <3>2, <3>3 DEF Entry
  <2>3. CASE i = k - 1
    <3>1. t[i] = s[i] /\ i # k /\ i + 1 = k
      BY <1>1, <1>2, <2>1, <2>3
    <3>2. g[t[i]].next = Entry(s, k + 1)
      BY <2>1, <2>3, <3>1 DEF Along
    <3>3. CASE k + 1 \in 1..Len(s)
      <4>1. i + 1 \in 1..Len(t) /\ i + 1 >= k /\ (i + 1) + 1 = k + 1
        BY <2>1, <3>1, <3>3
      <4>2. t[i + 1] = s[k + 1]
        BY <1>2, <2>1, <4>1
      <4> QED  BY <3>2, <3>3, <4>1, <4>2 DEF Entry
    <3>4. CASE k + 1 \notin 1..Len(s)
      BY <2>1, <3>1, <3>2, <3>4 DEF Entry
    <3> QED  BY <3>3, <3>4
  <2>4. CASE i > k - 1
    <3>1. t[i] = s[i + 1] /\ i + 1 # k /\ i + 1 # k - 1 /\ i + 1 >= k
      BY <1>1, <1>2, <2>1, <2>4
    <3>2. g[t[i]].next = Entry(s, (i + 1) + 1)
      BY <2>1, <3>1 DEF Along
    <3>3. CASE (i + 1) + 1 \in 1..Len(s)
      <4>1. i + 1 \in 1..Len(t)
        BY <2>1, <3>3
      <4>2. t[i + 1] = s[(i + 1) + 1]
        BY <1>2, <2>1, <3>1, <4>1
      <4> QED  BY <3>2, <3>3, <4>1, <4>2 DEF Entry
    <3>4. CASE (i + 1) + 1 \notin 1..Len(s)
      BY <2>1, <3>2, <3>4 DEF Entry
    <3> QED  BY <3>3, <3>4
  <2> QED  BY <2>1, <2>2, <2>3, <2>4
<1> QED  BY <1>2, <1>4, <1>5, <1>6, <1>7 DEF Along, t

-----------------------------------------------------------------------------
(* The doubly linked list: one chain *)

DCells == [data : Data, prev : Nodes \cup {None}, next : Nodes \cup {None}]

DProper(h) == DOMAIN h \subseteq Nodes /\ \A n \in DOMAIN h : h[n] \in DCells

DAlong(h, p, s) == Along(h, p, s) /\ \A i \in 1..Len(s) : h[s[i]].prev = Entry(s, i - 1)

\* The chain s of the heap h has become the chain t, from q on, and no other node
\* has changed.
Edit(h, s, g, q, t) ==
  /\ DProper(g) /\ DAlong(g, q, t)
  /\ DOMAIN g = (DOMAIN h \ Members(s)) \cup Members(t)
  /\ \A m \in DOMAIN h \ Members(s) : m \notin Members(t) /\ g[m] = h[m]

LEMMA DProperIs ==
  ASSUME NEW h, DProper(h)
  PROVE  /\ Proper(h)
         /\ \A n \in DOMAIN h : /\ n \in Nodes /\ n # None /\ h[n].data \in Data
                                /\ h[n].next \in Nodes \cup {None} /\ h[n].prev \in Nodes \cup {None}
                                /\ h[n] = [data |-> h[n].data, prev |-> h[n].prev, next |-> h[n].next]
BY NoNode DEF DProper, Proper, DCells

LEMMA EntryIs ==
  ASSUME NEW h, NEW p, NEW s, Along(h, p, s), NEW j \in Int
  PROVE  /\ s \in Seq(Nodes) /\ Len(s) \in Nat
         /\ \A i \in 1..Len(s) : s[i] \in DOMAIN h /\ s[i] \in Nodes /\ s[i] # None /\ s[i] \in Members(s)
         /\ \A i \in 1..Len(s) : s[i] = Entry(s, j) <=> i = j
         /\ Entry(s, j) \in Nodes \cup {None}
         /\ Members(s) \subseteq DOMAIN h
<1>1. s \in Seq(Nodes) /\ Len(s) \in Nat /\ \A i \in 1..Len(s) : s[i] \in DOMAIN h /\ s[i] \in Nodes /\ s[i] # None
  BY NoNode DEF Along
<1>2. \A i \in 1..Len(s) : s[i] \in Members(s)
  BY DEF Members
<1>3. Members(s) \subseteq DOMAIN h
  BY <1>1 DEF Members
<1>4. \A i \in 1..Len(s) : s[i] = Entry(s, j) <=> i = j
  <2>1. \A a, b \in 1..Len(s) : s[a] = s[b] => a = b
    BY DEF Along
  <2> QED  BY <1>1, <2>1 DEF Entry
<1>5. Entry(s, j) \in Nodes \cup {None}
  BY <1>1 DEF Entry
<1> QED  BY <1>1, <1>2, <1>3, <1>4, <1>5

\* new_node at place k
LEMMA NewNodeIs ==
  ASSUME NEW h, DProper(h), NEW p, NEW s, DAlong(h, p, s), NEW n \in Nodes, n \notin DOMAIN h,
         NEW x \in Data, NEW k \in 1..(Len(s) + 1),
         NEW g, g = NewNode(h, n, Entry(s, k - 1), x, Entry(s, k))
  PROVE  /\ Edit(h, s, g, IF k = 1 THEN n ELSE p, Ins(s, k, n))
         /\ g[n].data = x /\ \A m \in DOMAIN h : m # n /\ g[m].data = h[m].data
<1>1. Along(h, p, s) /\ Proper(h) /\ k \in Int /\ k - 1 \in Int
  BY DProperIs DEF DAlong, Along
<1> DEFINE a == Entry(s, k - 1)
           b == Entry(s, k)
           t == Ins(s, k, n)
<1>2. /\ s \in Seq(Nodes) /\ Len(s) \in Nat
      /\ \A i \in 1..Len(s) : s[i] \in DOMAIN h /\ s[i] \in Nodes /\ s[i] # None /\ s[i] \in Members(s)
      /\ Members(s) \subseteq DOMAIN h
      /\ \A i \in 1..Len(s) : s[i] = a <=> i = k - 1
      /\ \A i \in 1..Len(s) : s[i] = b <=> i = k
      /\ a \in Nodes \cup {None} /\ b \in Nodes \cup {None}
  BY <1>1, EntryIs
<1>3. a \in DOMAIN h => a \in Members(s) /\ a # b
  <2>1. CASE k - 1 \in 1..Len(s)
    <3>1. a = s[k - 1] /\ k - 1 # k
      BY <1>1, <2>1 DEF Entry
    <3> QED  BY <1>2, <2>1, <3>1
  <2>2. CASE k - 1 \notin 1..Len(s)
    BY <1>1, <2>2, DProperIs DEF Entry
  <2> QED  BY <2>1, <2>2
<1>4. b \in DOMAIN h => b \in Members(s)
  <2>1. CASE k \in 1..Len(s)
    BY <1>2, <2>1 DEF Entry
  <2>2. CASE k \notin 1..Len(s)
    BY <1>1, <2>2, DProperIs DEF Entry
  <2> QED  BY <2>1, <2>2
<1> HIDE DEF a, b
<1>5. g = [m \in DOMAIN h \cup {n} |->
     IF m = n THEN [data |-> x, prev |-> a, next |-> b]
     ELSE IF m = a THEN [h[m] EXCEPT !.next = n]
     ELSE IF m = b THEN [h[m] EXCEPT !.prev = n] ELSE h[m]]
  BY DEF NewNode, a, b
<1>6. DOMAIN g = DOMAIN h \cup {n} /\ g[n] = [data |-> x, prev |-> a, next |-> b]
  BY <1>5
<1>7. ASSUME NEW m \in DOMAIN h
      PROVE  /\ m # n
             /\ g[m].data = h[m].data
             /\ g[m].prev = IF m = b THEN n ELSE h[m].prev
             /\ g[m].next = IF m = a THEN n ELSE h[m].next
             /\ g[m] \in DCells
             /\ m \notin Members(s) => g[m] = h[m]
  <2>1. m # n /\ h[m] = [data |-> h[m].data, prev |-> h[m].prev, next |-> h[m].next]
    BY DProperIs
  <2>2. g[m] = IF m = a THEN [h[m] EXCEPT !.next = n] ELSE IF m = b THEN [h[m] EXCEPT !.prev = n] ELSE h[m]
    BY <1>5, <2>1
  <2>3. [h[m] EXCEPT !.next = n] = [data |-> h[m].data, prev |-> h[m].prev, next |-> n]
    BY <2>1
  <2>4. [h[m] EXCEPT !.prev = n] = [data |-> h[m].data, prev |-> n, next |-> h[m].next]
    BY <2>1
  <2>5. m = a => m # b
    BY <1>3
  <2>6. m \notin Members(s) => m # a /\ m # b
    BY <1>3, <1>4
  <2>7. g[m] = [data |-> h[m].data, prev |-> IF m = b THEN n ELSE h[m].prev,
                next |-> IF m = a THEN n ELSE h[m].next]
    BY <2>1, <2>2, <2>3, <2>4, <2>5
  <2>8. h[m].data \in Data /\ h[m].prev \in Nodes \cup {None} /\ h[m].next \in Nodes \cup {None}
    BY DProperIs
  <2>9. g[m] \in DCells
    BY <2>7, <2>8 DEF DCells
  <2>10. m \notin Members(s) => g[m] = h[m]
    BY <2>2, <2>6
  <2> HIDE DEF DCells
  <2> QED  BY <2>1, <2>7, <2>9, <2>10
<1>8. DProper(g)
  <2>2. \A m \in DOMAIN h : g[m] \in DCells
    BY <1>7
  <2>3. g[n] \in DCells
    BY <1>2, <1>6 DEF DCells
  <2> QED  BY <1>6, <2>2, <2>3 DEF DProper
<1>9. Along(g, IF k = 1 THEN n ELSE p, t) /\ Members(t) = Members(s) \cup {n} /\ Len(t) = Len(s) + 1
  <2>1. g[n].next = Entry(s, k) /\ DOMAIN g = DOMAIN h \cup {n}
    BY <1>6 DEF b
  <2>2. \A i \in 1..Len(s) : g[s[i]].next = IF i = k - 1 THEN n ELSE h[s[i]].next
    BY <1>2, <1>7
  <2>3. PutIn(h, s, n, k, g)
    BY <2>1, <2>2 DEF PutIn
  <2> QED  BY <1>1, <2>3, SplicedIn
<1>10. /\ t[k] = n /\ t \in Seq(Nodes)
       /\ \A i \in 1..(Len(s) + 1) : i < k => i \in 1..Len(s) /\ t[i] = s[i]
       /\ \A i \in 1..(Len(s) + 1) : i > k => i - 1 \in 1..Len(s) /\ t[i] = s[i - 1]
  BY <1>2, InsIs
<1> HIDE DEF t
<1>11. ASSUME NEW i \in 1..Len(t) PROVE g[t[i]].prev = Entry(t, i - 1)
  <2>1. i \in 1..(Len(s) + 1) /\ (i < k \/ i = k \/ i > k)
    BY <1>2, <1>9
  <2>2. CASE i = k
    <3>1. g[t[i]].prev = Entry(s, k - 1)
      BY <1>6, <1>10, <2>2 DEF a
    <3>2. CASE k = 1
      BY <2>2, <3>1, <3>2 DEF Entry
    <3>3. CASE k # 1
      <4>1. k - 1 \in 1..Len(s) /\ i - 1 \in 1..Len(t) /\ k - 1 \in 1..(Len(s) + 1) /\ k - 1 < k
        BY <1>2, <1>9, <2>2, <3>3
      <4>2. t[k - 1] = s[k - 1]
        BY <1>10, <4>1
      <4> QED  BY <2>2, <3>1, <4>1, <4>2 DEF Entry
    <3> QED  BY <3>2, <3>3
  <2>3. CASE i < k
    <3>1. i \in 1..Len(s) /\ t[i] = s[i] /\ s[i] # b
      BY <1>2, <1>10, <2>1, <2>3
    <3>2. g[t[i]].prev = Entry(s, i - 1)
      BY <1>2, <1>7, <3>1 DEF DAlong
    <3>3. CASE i = 1
      BY <3>2, <3>3 DEF Entry
    <3>4. CASE i # 1
      <4>1. i - 1 \in 1..Len(s) /\ i - 1 \in 1..Len(t) /\ i - 1 \in 1..(Len(s) + 1) /\ i - 1 < k
        BY <1>2, <1>9, <2>1, <2>3, <3>4
      <4>2. t[i - 1] = s[i - 1]
        BY <1>10, <4>1
      <4> QED  BY <3>2, <4>1, <4>2 DEF Entry
    <3> QED  BY <3>3, <3>4
  <2>4. CASE i > k
    <3>1. i - 1 \in 1..Len(s) /\ t[i] = s[i - 1] /\ i - 1 \in 1..Len(t)
      BY <1>2, <1>9, <1>10, <2>1, <2>4
    <3>2. CASE i - 1 = k
      <4>1. g[t[i]].prev = n
        BY <1>2, <1>7, <3>1, <3>2
      <4>2. Entry(t, i - 1) = t[k]
        BY <3>1, <3>2 DEF Entry
      <4> QED  BY <1>10, <4>1, <4>2
    <3>3. CASE i - 1 # k
      <4>1. g[t[i]].prev = Entry(s, (i - 1) - 1)
        BY <1>2, <1>7, <3>1, <3>3 DEF DAlong
      <4>2. i - 1 > k /\ i - 1 \in 1..(Len(s) + 1)
        BY <1>2, <2>1, <2>4, <3>3
      <4>3. t[i - 1] = s[(i - 1) - 1] /\ (i - 1) - 1 \in 1..Len(s)
        BY <1>10, <4>2
      <4> QED  BY <3>1, <4>1, <4>3 DEF Entry
    <3> QED  BY <3>2, <3>3
  <2> QED  BY <2>1, <2>2, <2>3, <2>4
<1>12. DOMAIN g = (DOMAIN h \ Members(s)) \cup Members(t)
  BY <1>2, <1>6, <1>9
<1>13. \A m \in DOMAIN h \ Members(s) : m \notin Members(t) /\ g[m] = h[m]
  BY <1>7, <1>9
<1>14. DAlong(g, IF k = 1 THEN n ELSE p, t)
  BY <1>9, <1>11 DEF DAlong
<1>15. \A m \in DOMAIN h : m # n /\ g[m].data = h[m].data
  BY <1>7
<1>16. g[n].data = x
  BY <1>6
<1> QED  BY <1>8, <1>12, <1>13, <1>14, <1>15, <1>16 DEF Edit, t

\* The nodes of g hold what they hold in h.
SameData(g, h) == \A m \in DOMAIN g : m \in DOMAIN h /\ g[m].data = h[m].data

LEMMA DeletedIs ==
  ASSUME NEW h, DProper(h), NEW p, NEW s, DAlong(h, p, s), NEW k \in 1..Len(s),
         NEW g, g = Free(Disconnect(h, s[k]), {s[k]})
  PROVE  /\ Edit(h, s, g, IF p = s[k] THEN h[s[k]].next ELSE p, Del(s, k))
         /\ SameData(g, h)
<1>1. Along(h, p, s) /\ Proper(h) /\ k \in Int /\ k - 1 \in Int /\ k + 1 \in Int
  BY DProperIs DEF DAlong, Along
<1> DEFINE n == s[k]
           a == Entry(s, k - 1)
           b == Entry(s, k + 1)
           t == Del(s, k)
<1>2. /\ s \in Seq(Nodes) /\ Len(s) \in Nat
      /\ \A i \in 1..Len(s) : s[i] \in DOMAIN h /\ s[i] \in Nodes /\ s[i] # None /\ s[i] \in Members(s)
      /\ Members(s) \subseteq DOMAIN h
      /\ \A i \in 1..Len(s) : s[i] = a <=> i = k - 1
      /\ \A i \in 1..Len(s) : s[i] = b <=> i = k + 1
      /\ a \in Nodes \cup {None} /\ b \in Nodes \cup {None}
  <2>1. /\ \A i \in 1..Len(s) : s[i] = a <=> i = k - 1
        /\ a \in Nodes \cup {None}
    BY <1>1, EntryIs
  <2>2. /\ \A i \in 1..Len(s) : s[i] = b <=> i = k + 1
        /\ b \in Nodes \cup {None}
    BY <1>1, EntryIs
  <2> HIDE DEF a, b
  <2>3. /\ s \in Seq(Nodes) /\ Len(s) \in Nat
        /\ \A i \in 1..Len(s) : s[i] \in DOMAIN h /\ s[i] \in Nodes /\ s[i] # None /\ s[i] \in Members(s)
        /\ Members(s) \subseteq DOMAIN h
    BY <1>1, EntryIs
  <2> QED  BY <2>1, <2>2, <2>3
<1>3. (a \in DOMAIN h => a \in Members(s) /\ a # b) /\ (b \in DOMAIN h => b \in Members(s))
  <2>1. a \in DOMAIN h => k - 1 \in 1..Len(s)
    BY <1>1, DProperIs DEF Entry
  <2>2. b \in DOMAIN h => k + 1 \in 1..Len(s)
    BY <1>1, DProperIs DEF Entry
  <2>3. k - 1 \in 1..Len(s) => a = s[k - 1] /\ k - 1 # k + 1
    BY <1>1 DEF Entry
  <2>4. k + 1 \in 1..Len(s) => b = s[k + 1]
    BY DEF Entry
  <2> HIDE DEF a, b
  <2> QED  BY <1>2, <2>1, <2>2, <2>3, <2>4
<1>4. n \in DOMAIN h /\ n \in Members(s) /\ h[n].prev = a /\ h[n].next = b
  BY <1>2 DEF DAlong, Along
<1>5. \A i, j \in 1..Len(s) : s[i] = s[j] => i = j
  BY <1>1 DEF Along
<1> HIDE DEF a, b, n
<1>6. g = [m \in DOMAIN h \ {n} |-> [l \in DOMAIN h |->
             IF l = a THEN [h[l] EXCEPT !.next = b]
             ELSE IF l = b THEN [h[l] EXCEPT !.prev = a] ELSE h[l]][m]]
  <2>1. Disconnect(h, n) = [l \in DOMAIN h |->
             IF l = a THEN [h[l] EXCEPT !.next = b]
             ELSE IF l = b THEN [h[l] EXCEPT !.prev = a] ELSE h[l]]
    BY <1>4 DEF Disconnect
  <2>2. g = Free(Disconnect(h, n), {n})
    BY DEF n
  <2>3. DOMAIN Disconnect(h, n) = DOMAIN h
    BY DEF Disconnect
  <2> QED  BY <2>1, <2>2, <2>3, Zenon DEF Free
<1>7. DOMAIN g = DOMAIN h \ {n}
  BY <1>6
<1>8. ASSUME NEW m \in DOMAIN g
      PROVE  /\ m \in DOMAIN h /\ m # n
             /\ g[m].data = h[m].data
             /\ g[m].prev = IF m = b THEN a ELSE h[m].prev
             /\ g[m].next = IF m = a THEN b ELSE h[m].next
             /\ g[m] \in DCells
             /\ m \notin Members(s) => g[m] = h[m]
  <2>1. m \in DOMAIN h /\ m # n
    BY <1>7
  <2>2. h[m] = [data |-> h[m].data, prev |-> h[m].prev, next |-> h[m].next]
    BY <2>1, DProperIs
  <2>3. g[m] = IF m = a THEN [h[m] EXCEPT !.next = b] ELSE IF m = b THEN [h[m] EXCEPT !.prev = a] ELSE h[m]
    BY <1>6, <2>1
  <2>4. [h[m] EXCEPT !.next = b] = [data |-> h[m].data, prev |-> h[m].prev, next |-> b]
    BY <2>2
  <2>5. [h[m] EXCEPT !.prev = a] = [data |-> h[m].data, prev |-> a, next |-> h[m].next]
    BY <2>2
  <2>6. (m = a => m # b) /\ (m \notin Members(s) => m # a /\ m # b)
    BY <1>3, <2>1
  <2>7. g[m] = [data |-> h[m].data, prev |-> IF m = b THEN a ELSE h[m].prev,
                next |-> IF m = a THEN b ELSE h[m].next]
    BY <2>2, <2>3, <2>4, <2>5, <2>6
  <2>8. h[m].data \in Data /\ h[m].prev \in Nodes \cup {None} /\ h[m].next \in Nodes \cup {None}
    BY <2>1, DProperIs
  <2>9. g[m] \in DCells
    BY <1>2, <2>7, <2>8 DEF DCells
  <2>10. m \notin Members(s) => g[m] = h[m]
    BY <2>3, <2>6
  <2> HIDE DEF DCells
  <2> QED  BY <2>1, <2>7, <2>9, <2>10
<1>9. DProper(g)
  BY <1>7, <1>8, DProperIs DEF DProper
<1>10. TakenOut(h, s, k, g)
  <2> SUFFICES ASSUME NEW i \in 1..Len(s), i # k
               PROVE  g[s[i]].next = IF i = k - 1 THEN h[s[k]].next ELSE h[s[i]].next
    BY <1>7 DEF TakenOut, n
  <2>1. s[i] # n /\ s[i] \in DOMAIN g
    BY <1>2, <1>5, <1>7 DEF n
  <2>2. s[i] = a <=> i = k - 1
    BY <1>2
  <2>3. h[s[k]].next = b
    BY <1>4 DEF n
  <2> QED  BY <1>8, <2>1, <2>2, <2>3
<1>11. Along(g, IF k = 1 THEN h[p].next ELSE p, t) /\ Members(t) = Members(s) \ {n} /\ Len(t) = Len(s) - 1
  <2> HIDE DEF t
  <2> QED  BY <1>1, <1>10, SplicedOut DEF n, t
<1>12. (IF k = 1 THEN h[p].next ELSE p) = IF p = n THEN h[n].next ELSE p
  <2>1. p = s[1] /\ 1 \in 1..Len(s)
    BY <1>1, <1>2 DEF Along, Entry
  <2>2. p = n <=> k = 1
    BY <1>5, <2>1 DEF n
  <2> QED  BY <2>2
<1>13. /\ t \in Seq(Nodes)
       /\ \A i \in 1..(Len(s) - 1) : i < k => i \in 1..Len(s) /\ t[i] = s[i]
       /\ \A i \in 1..(Len(s) - 1) : i >= k => i + 1 \in 1..Len(s) /\ t[i] = s[i + 1]
  BY <1>2, <1>5, DelIs
<1> HIDE DEF t
<1>14. ASSUME NEW i \in 1..Len(t) PROVE g[t[i]].prev = Entry(t, i - 1)
  <2>0. t[i] \in DOMAIN g
    BY <1>11 DEF Along
  <2>1. i \in 1..(Len(s) - 1) /\ i \in Nat /\ i - 1 \in Nat /\ (i < k \/ i = k \/ i > k) /\ t[i] \in DOMAIN g
    BY <1>2, <1>11, <2>0
  <2>2. g[t[i]].prev = IF t[i] = b THEN a ELSE h[t[i]].prev
    BY <1>8, <2>1
  <2>3. i = 1 => Entry(t, i - 1) = None
    BY DEF Entry
  <2>4. i # 1 => i - 1 \in 1..Len(t) /\ i - 1 \in 1..(Len(s) - 1)
    BY <1>2, <1>11, <2>1
  <2>5. CASE i < k
    <3>1. i \in 1..Len(s) /\ t[i] = s[i] /\ i # k + 1
      BY <1>13, <2>1, <2>5
    <3>2. g[t[i]].prev = Entry(s, i - 1)
      BY <1>2, <2>2, <3>1 DEF DAlong
    <3>3. i # 1 => t[i - 1] = s[i - 1] /\ i - 1 \in 1..Len(s)
      BY <1>2, <1>13, <2>4, <2>5
    <3> QED  BY <2>3, <2>4, <3>2, <3>3 DEF Entry
  <2>6. CASE i = k
    <3>1. i + 1 \in 1..Len(s) /\ t[i] = s[i + 1] /\ i + 1 = k + 1
      BY <1>13, <2>1, <2>6
    <3>2. g[t[i]].prev = Entry(s, i - 1)
      BY <1>2, <2>2, <2>6, <3>1 DEF a
    <3>3. i # 1 => t[i - 1] = s[i - 1] /\ i - 1 \in 1..Len(s)
      BY <1>2, <1>13, <2>4, <2>6
    <3> QED  BY <2>3, <2>4, <3>2, <3>3 DEF Entry
  <2>7. CASE i > k
    <3>1. i + 1 \in 1..Len(s) /\ t[i] = s[i + 1] /\ i + 1 # k + 1 /\ (i + 1) - 1 = i
      BY <1>13, <2>1, <2>7
    <3>2. h[s[i + 1]].prev = Entry(s, (i + 1) - 1)
      BY <3>1 DEF DAlong
    <3>3. g[t[i]].prev = Entry(s, i)
      BY <1>2, <2>2, <3>1, <3>2
    <3>4. i # 1 /\ i - 1 >= k /\ (i - 1) + 1 = i /\ i \in 1..Len(s)
      BY <2>1, <2>7
    <3>5. t[i - 1] = s[i]
      BY <1>13, <2>4, <3>4
    <3> QED  BY <2>4, <3>3, <3>4, <3>5 DEF Entry
  <2> QED  BY <2>1, <2>5, <2>6, <2>7
<1>15. DOMAIN g = (DOMAIN h \ Members(s)) \cup Members(t)
  BY <1>2, <1>4, <1>7, <1>11
<1>16. \A m \in DOMAIN h \ Members(s) : m \notin Members(t) /\ g[m] = h[m]
  BY <1>4, <1>7, <1>8, <1>11
<1>17. DAlong(g, IF p = n THEN h[n].next ELSE p, t)
  BY <1>11, <1>12, <1>14 DEF DAlong
<1>18. SameData(g, h)
  BY <1>8 DEF SameData
<1> QED  BY <1>9, <1>15, <1>16, <1>17, <1>18 DEF Edit, t, n

\* g has the nodes of t in this order instead of those of s.
Lays(h, s, g, t) ==
  /\ DProper(g) /\ DOMAIN g = (DOMAIN h \ Members(s)) \cup Members(t)
  /\ \A m \in DOMAIN h \ Members(s) : m \notin Members(t) /\ g[m] = h[m]
  /\ \A i \in 1..Len(t) : g[t[i]].next = Entry(t, i + 1) /\ g[t[i]].prev = Entry(t, i - 1)

Distinct(t) == \A i, j \in 1..Len(t) : t[i] = t[j] => i = j

LEMMA Laid ==
  ASSUME NEW h, NEW s, NEW t \in Seq(Nodes), Distinct(t), NEW g, Lays(h, s, g, t)
  PROVE  Edit(h, s, g, Entry(t, 1), t)
<1>1. \A i \in 1..Len(t) : t[i] \in DOMAIN g
  BY DEF Lays, Members
<1>2. Along(g, Entry(t, 1), t)
  BY <1>1 DEF Along, Lays, Distinct
<1> QED  BY <1>2 DEF Lays, Edit, DAlong

-----------------------------------------------------------------------------
(* Three chains in one heap *)

\* The heap h is made of the chains a from p, b from q and c from r.
Three(h, p, a, q, b, r, c) ==
  /\ DProper(h) /\ DAlong(h, p, a) /\ DAlong(h, q, b) /\ DAlong(h, r, c)
  /\ Members(a) \cap Members(b) = {} /\ Members(a) \cap Members(c) = {} /\ Members(b) \cap Members(c) = {}
  /\ DOMAIN h = Members(a) \cup Members(b) \cup Members(c)

LEMMA Framed ==
  ASSUME NEW h, NEW a, NEW g, NEW p, NEW t, Edit(h, a, g, p, t),
         NEW q, NEW b, DAlong(h, q, b), Members(a) \cap Members(b) = {}
  PROVE  DAlong(g, q, b) /\ Members(t) \cap Members(b) = {} /\ Datas(g, b) = Datas(h, b)
<1>1. \A i \in 1..Len(b) : b[i] \in Members(b) /\ b[i] \in DOMAIN h
  BY DEF Members, DAlong, Along
<1>2. Members(b) \subseteq DOMAIN h \ Members(a)
  BY <1>1 DEF Members
<1>3. \A i \in 1..Len(b) : b[i] \in DOMAIN g /\ g[b[i]] = h[b[i]]
  BY <1>1, <1>2 DEF Edit
<1>4. Members(t) \cap Members(b) = {}
  BY <1>2 DEF Edit
<1>5. Datas(g, b) = Datas(h, b)
  BY <1>3 DEF Datas
<1>6. Along(g, q, b)
  BY <1>3 DEF DAlong, Along
<1>7. DAlong(g, q, b)
  BY <1>3, <1>6 DEF DAlong
<1> QED  BY <1>4, <1>5, <1>7

LEMMA Turned ==
  ASSUME NEW h, NEW p, NEW a, NEW q, NEW b, NEW r, NEW c, Three(h, p, a, q, b, r, c)
  PROVE  Three(h, q, b, p, a, r, c) /\ Three(h, r, c, p, a, q, b) /\ Three(h, p, a, r, c, q, b)
BY DEF Three

LEMMA Edited ==
  ASSUME NEW h, NEW p, NEW a, NEW q, NEW b, NEW r, NEW c, Three(h, p, a, q, b, r, c),
         NEW g, NEW o, NEW t, Edit(h, a, g, o, t)
  PROVE  Three(g, o, t, q, b, r, c) /\ Datas(g, b) = Datas(h, b) /\ Datas(g, c) = Datas(h, c)
<1>1. DAlong(g, q, b) /\ Members(t) \cap Members(b) = {} /\ Datas(g, b) = Datas(h, b)
  BY Framed DEF Three
<1>2. DAlong(g, r, c) /\ Members(t) \cap Members(c) = {} /\ Datas(g, c) = Datas(h, c)
  BY Framed DEF Three
<1>3. DOMAIN g = Members(t) \cup Members(b) \cup Members(c)
  BY DEF Three, Edit
<1> QED  BY <1>1, <1>2, <1>3 DEF Three, Edit

\* Three chains are what Follow finds in their heap.
LEMMA ThreeAre ==
  ASSUME NEW h, NEW p, NEW a, NEW q, NEW b, NEW r, NEW c, Three(h, p, a, q, b, r, c)
  PROVE  /\ Follow(h, p) = a /\ Follow(h, q) = b /\ Follow(h, r) = c
         /\ DataOf(h, p) = Datas(h, a) /\ DataOf(h, q) = Datas(h, b) /\ DataOf(h, r) = Datas(h, c)
         /\ InChain(h, p) = Members(a) /\ InChain(h, q) = Members(b) /\ InChain(h, r) = Members(c)
<1>1. Proper(h) /\ Along(h, p, a) /\ Along(h, q, b) /\ Along(h, r, c)
  BY DProperIs DEF Three, DAlong
<1>2. Follow(h, p) = a /\ DataOf(h, p) = Datas(h, a) /\ InChain(h, p) = Members(a)
  BY <1>1, ListIs
<1>3. Follow(h, q) = b /\ DataOf(h, q) = Datas(h, b) /\ InChain(h, q) = Members(b)
  BY <1>1, ListIs
<1>4. Follow(h, r) = c /\ DataOf(h, r) = Datas(h, c) /\ InChain(h, r) = Members(c)
  BY <1>1, ListIs
<1> QED  BY <1>2, <1>3, <1>4

\* The nodes of the lists and of the queue.
Listed  == Follow(dHeap, dList)
Spared  == Follow(dHeap, dSpare)
InQueue == Follow(dHeap, qHead)

QInv ==
  /\ Three(dHeap, dList, Listed, dSpare, Spared, qHead, InQueue)
  /\ qTail = Entry(InQueue, Len(InQueue)) /\ qLength = Len(InQueue)

Firsts  == DataOf(dHeap, dList)
Seconds == DataOf(dHeap, dSpare)

\* What a step leaves: three chains again.
LEMMA BecomesThree ==
  ASSUME NEW a, NEW b, NEW c, Three(dHeap', dList', a, dSpare', b, qHead', c),
         qTail' = Entry(c, Len(c)), qLength' = Len(c)
  PROVE  /\ QInv' /\ Listed' = a /\ Spared' = b /\ InQueue' = c
         /\ Firsts' = Datas(dHeap', a) /\ Seconds' = Datas(dHeap', b) /\ Queued' = Datas(dHeap', c)
<1>1. /\ Listed' = a /\ Spared' = b /\ InQueue' = c
      /\ Firsts' = Datas(dHeap', a) /\ Seconds' = Datas(dHeap', b) /\ Queued' = Datas(dHeap', c)
  BY ThreeAre DEF Listed, Spared, InQueue, Firsts, Seconds, Queued
<1> QED  BY <1>1 DEF QInv

LEMMA Now ==
  ASSUME QInv
  PROVE  /\ Three(dHeap, dList, Listed, dSpare, Spared, qHead, InQueue)
         /\ DProper(dHeap) /\ Proper(dHeap)
         /\ DAlong(dHeap, dList, Listed) /\ DAlong(dHeap, dSpare, Spared) /\ DAlong(dHeap, qHead, InQueue)
         /\ Firsts = Datas(dHeap, Listed) /\ Seconds = Datas(dHeap, Spared) /\ Queued = Datas(dHeap, InQueue)
         /\ qTail = Entry(InQueue, Len(InQueue)) /\ qLength = Len(InQueue)
         /\ Chain = Members(Listed) /\ Members(Listed) \subseteq DOMAIN dHeap
<1>1. Firsts = Datas(dHeap, Listed) /\ Seconds = Datas(dHeap, Spared) /\ Queued = Datas(dHeap, InQueue)
      /\ Chain = Members(Listed)
  BY ThreeAre DEF QInv, Firsts, Seconds, Queued, Chain
<1>2. Members(Listed) \subseteq DOMAIN dHeap
  BY DEF QInv, Three
<1> QED  BY <1>1, <1>2, DProperIs DEF QInv, Three

QKept == dSpare' = dSpare /\ qHead' = qHead /\ qTail' = qTail /\ qLength' = qLength

\* A step on the first list leaves the second one and the queue.
LEMMA ListEdited ==
  ASSUME QInv, NEW t, Edit(dHeap, Listed, dHeap', dList', t), QKept
  PROVE  QInv' /\ Listed' = t /\ Firsts' = Datas(dHeap', t) /\ Seconds' = Seconds /\ Queued' = Queued
<1>1. /\ Three(dHeap', dList', t, dSpare, Spared, qHead, InQueue)
      /\ Datas(dHeap', Spared) = Datas(dHeap, Spared) /\ Datas(dHeap', InQueue) = Datas(dHeap, InQueue)
  BY Now, Edited
<1>2. /\ Three(dHeap', dList', t, dSpare', Spared, qHead', InQueue)
      /\ qTail' = Entry(InQueue, Len(InQueue)) /\ qLength' = Len(InQueue)
  BY <1>1, Now DEF QKept
<1> HIDE DEF QInv, Listed, Spared, InQueue
<1>3. QInv' /\ Listed' = t /\ Firsts' = Datas(dHeap', t) /\ Seconds' = Datas(dHeap', Spared) /\ Queued' = Datas(dHeap', InQueue)
  BY <1>2, BecomesThree
<1> QED  BY <1>1, <1>3, Now

-----------------------------------------------------------------------------
(* What the steps do to the data *)

LEMMA JoinIs ==
  ASSUME NEW S, NEW l \in Seq(S), NEW r \in Seq(S)
  PROVE  /\ l \o r \in Seq(S) /\ Len(l \o r) = Len(l) + Len(r) /\ Len(l) \in Nat /\ Len(r) \in Nat
         /\ \A i \in 1..(Len(l) + Len(r)) : (l \o r)[i] = IF i <= Len(l) THEN l[i] ELSE r[i - Len(l)]
OBVIOUS

LEMMA InsSeq ==
  ASSUME NEW S, NEW u \in Seq(S), NEW k \in 1..(Len(u) + 1), NEW x \in S
  PROVE  SubSeq(u, 1, k - 1) \o <<x>> \o SubSeq(u, k, Len(u)) = Ins(u, k, x)
<1> DEFINE l == SubSeq(u, 1, k - 1)
           r == SubSeq(u, k, Len(u))
           v == Ins(u, k, x)
<1>0. Len(u) \in Nat /\ k \in Nat /\ k - 1 \in Nat
  OBVIOUS
<1>1. l \in Seq(S) /\ Len(l) = k - 1 /\ \A i \in 1..(k - 1) : l[i] = u[i]
  BY <1>0
<1>2. r \in Seq(S) /\ Len(r) = Len(u) - k + 1 /\ \A i \in 1..(Len(u) - k + 1) : r[i] = u[k + i - 1]
  BY <1>0
<1>3. v \in Seq(S) /\ Len(v) = Len(u) + 1
      /\ \A i \in 1..(Len(u) + 1) : v[i] = IF i < k THEN u[i] ELSE IF i = k THEN x ELSE u[i - 1]
  BY InsIs DEF Ins
<1> HIDE DEF l, r, v
<1> DEFINE m == l \o <<x>>
<1>4. m \in Seq(S) /\ Len(m) = k /\ \A i \in 1..k : m[i] = IF i < k THEN l[i] ELSE x
  BY <1>0, <1>1
<1> HIDE DEF m
<1>5. m \o r \in Seq(S) /\ Len(m \o r) = Len(u) + 1
      /\ \A i \in 1..(Len(u) + 1) : (m \o r)[i] = IF i <= k THEN m[i] ELSE r[i - k]
  BY <1>0, <1>2, <1>4
<1>6. ASSUME NEW i \in 1..(Len(u) + 1) PROVE (m \o r)[i] = v[i]
  <2>1. CASE i < k
    <3>1. i \in 1..(k - 1) /\ i \in 1..k /\ i <= k
      BY <1>0, <2>1
    <3> QED  BY <1>1, <1>3, <1>4, <1>5, <2>1, <3>1
  <2>2. CASE i = k
    <3>1. i \in 1..k /\ i <= k /\ ~(i < k)
      BY <1>0, <2>2
    <3> QED  BY <1>3, <1>4, <1>5, <2>2, <3>1
  <2>3. CASE i > k
    <3>1. i - k \in 1..(Len(u) - k + 1) /\ k + (i - k) - 1 = i - 1 /\ ~(i <= k) /\ ~(i < k) /\ i # k
      BY <1>0, <2>3
    <3> QED  BY <1>2, <1>3, <1>5, <3>1
  <2>4. i < k \/ i = k \/ i > k
    BY <1>0
  <2> QED  BY <2>1, <2>2, <2>3, <2>4
<1>7. m \o r = v
  BY <1>3, <1>5, <1>6
<1> QED  BY <1>7 DEF m, l, r, v

LEMMA InsSeqData ==
  ASSUME NEW u \in Seq(Data), NEW k \in 1..(Len(u) + 1), NEW x \in Data
  PROVE  SubSeq(u, 1, k - 1) \o <<x>> \o SubSeq(u, k, Len(u)) = Ins(u, k, x)
BY InsSeq

LEMMA DelSeq ==
  ASSUME NEW S, NEW u \in Seq(S), NEW k \in 1..Len(u)
  PROVE  SubSeq(u, 1, k - 1) \o SubSeq(u, k + 1, Len(u)) = Del(u, k)
<1> DEFINE l == SubSeq(u, 1, k - 1)
           r == SubSeq(u, k + 1, Len(u))
           v == Del(u, k)
<1>0. Len(u) \in Nat /\ k \in Nat /\ k - 1 \in Nat
  OBVIOUS
<1>1. l \in Seq(S) /\ Len(l) = k - 1 /\ \A i \in 1..(k - 1) : l[i] = u[i]
  BY <1>0
<1>2. r \in Seq(S) /\ Len(r) = Len(u) - k /\ \A i \in 1..(Len(u) - k) : r[i] = u[k + i]
  BY <1>0
<1>3. v \in Seq(S) /\ Len(v) = Len(u) - 1
      /\ \A i \in 1..(Len(u) - 1) : v[i] = IF i < k THEN u[i] ELSE u[i + 1]
  <2>1. \A i \in 1..(Len(u) - 1) : (IF i < k THEN u[i] ELSE u[i + 1]) \in S
    <3>1. \A i \in 1..(Len(u) - 1) : i \in 1..Len(u) /\ i + 1 \in 1..Len(u)
      BY <1>0
    <3> QED  BY <3>1
  <2> QED  BY <1>0, <2>1 DEF Del
<1> HIDE DEF l, r, v
<1>5. l \o r \in Seq(S) /\ Len(l \o r) = Len(u) - 1
      /\ \A i \in 1..(Len(u) - 1) : (l \o r)[i] = IF i <= k - 1 THEN l[i] ELSE r[i - (k - 1)]
  <2>0. l \in Seq(S) /\ r \in Seq(S)
    BY <1>1, <1>2
  <2>1. l \o r \in Seq(S) /\ Len(l \o r) = Len(l) + Len(r)
    BY <2>0, JoinIs
  <2>2. Len(l) + Len(r) = Len(u) - 1
    BY <1>0, <1>1, <1>2
  <2>3. \A i \in 1..(Len(l) + Len(r)) : (l \o r)[i] = IF i <= Len(l) THEN l[i] ELSE r[i - Len(l)]
    BY <2>0, JoinIs
  <2> QED  BY <1>1, <2>1, <2>2, <2>3
<1>6. ASSUME NEW i \in 1..(Len(u) - 1) PROVE (l \o r)[i] = v[i]
  <2>1. CASE i < k
    <3>1. i \in 1..(k - 1) /\ i <= k - 1
      BY <1>0, <2>1
    <3> QED  BY <1>1, <1>3, <1>5, <2>1, <3>1
  <2>3. CASE i >= k
    <3>1. i - (k - 1) \in 1..(Len(u) - k) /\ k + (i - (k - 1)) = i + 1 /\ ~(i <= k - 1) /\ ~(i < k)
      BY <1>0, <2>3
    <3> QED  BY <1>2, <1>3, <1>5, <3>1
  <2>4. i < k \/ i >= k
    BY <1>0
  <2> QED  BY <2>1, <2>3, <2>4
<1> DEFINE w == l \o r
<1>8. w \in Seq(S) /\ Len(w) = Len(u) - 1 /\ \A i \in 1..(Len(u) - 1) : w[i] = v[i]
  BY <1>5, <1>6
<1> HIDE DEF w
<1>9. DOMAIN w = 1..(Len(u) - 1) /\ DOMAIN v = 1..(Len(u) - 1)
  BY <1>3, <1>8
<1>10. w = v
  BY <1>3, <1>8, <1>9
<1>7. l \o r = v
  BY <1>10 DEF w
<1> QED  BY <1>7 DEF l, r, v

LEMMA InsDatas ==
  ASSUME NEW h, NEW s \in Seq(Nodes), NEW n \in Nodes, NEW k \in 1..(Len(s) + 1), NEW g, NEW x,
         g[n].data = x, \A i \in 1..Len(s) : g[s[i]].data = h[s[i]].data
  PROVE  Datas(g, Ins(s, k, n)) = Ins(Datas(h, s), k, x)
<1> DEFINE t == Ins(s, k, n)
           u == Datas(h, s)
<1>1. /\ Len(t) = Len(s) + 1 /\ Len(s) \in Nat
      /\ \A i \in 1..(Len(s) + 1) : i < k => i \in 1..Len(s) /\ t[i] = s[i]
      /\ t[k] = n
      /\ \A i \in 1..(Len(s) + 1) : i > k => i - 1 \in 1..Len(s) /\ t[i] = s[i - 1]
  <2>1. /\ Len(Ins(s, k, n)) = Len(s) + 1 /\ Len(s) \in Nat
        /\ \A i \in 1..(Len(s) + 1) : i < k => i \in 1..Len(s) /\ Ins(s, k, n)[i] = s[i]
        /\ Ins(s, k, n)[k] = n
        /\ \A i \in 1..(Len(s) + 1) : i > k => i - 1 \in 1..Len(s) /\ Ins(s, k, n)[i] = s[i - 1]
    <3> HIDE DEF t, u
    <3> QED  BY InsIs
  <2> HIDE DEF u
  <2> QED  BY <2>1 DEF t
<1>2. Len(u) = Len(s) /\ \A i \in 1..Len(s) : u[i] = h[s[i]].data
  BY <1>1 DEF Datas
<1> HIDE DEF t, u
<1>3. ASSUME NEW i \in 1..(Len(s) + 1)
      PROVE  g[t[i]].data = IF i < k THEN u[i] ELSE IF i = k THEN x ELSE u[i - 1]
  <2>1. i < k \/ i = k \/ i > k
    BY <1>1
  <2> QED  BY <1>1, <1>2, <2>1
<1>4. Datas(g, t) = [i \in 1..(Len(s) + 1) |-> IF i < k THEN u[i] ELSE IF i = k THEN x ELSE u[i - 1]]
  BY <1>1, <1>3 DEF Datas
<1>5. Ins(u, k, x) = [i \in 1..(Len(s) + 1) |-> IF i < k THEN u[i] ELSE IF i = k THEN x ELSE u[i - 1]]
  BY <1>2 DEF Ins
<1> QED  BY <1>4, <1>5 DEF t, u

LEMMA DelDatas ==
  ASSUME NEW h, NEW s \in Seq(Nodes), Distinct(s), NEW k \in 1..Len(s), NEW g,
         \A i \in 1..Len(Del(s, k)) : g[Del(s, k)[i]].data = h[Del(s, k)[i]].data
  PROVE  Datas(g, Del(s, k)) = Del(Datas(h, s), k)
<1> DEFINE t == Del(s, k)
           u == Datas(h, s)
<1>1. /\ Len(t) = Len(s) - 1 /\ Len(s) \in Nat
      /\ \A i \in 1..(Len(s) - 1) : i < k => i \in 1..Len(s) /\ t[i] = s[i]
      /\ \A i \in 1..(Len(s) - 1) : i >= k => i + 1 \in 1..Len(s) /\ t[i] = s[i + 1]
  BY DelIs DEF Distinct
<1>2. Len(u) = Len(s) /\ \A i \in 1..Len(s) : u[i] = h[s[i]].data
  BY <1>1 DEF Datas
<1> HIDE DEF t, u
<1>3. ASSUME NEW i \in 1..(Len(s) - 1)
      PROVE  g[t[i]].data = IF i < k THEN u[i] ELSE u[i + 1]
  <2>1. i < k \/ i >= k
    BY <1>1
  <2>2. g[t[i]].data = h[t[i]].data
    BY <1>1 DEF t
  <2> QED  BY <1>1, <1>2, <2>1, <2>2
<1>4. Datas(g, t) = [i \in 1..(Len(s) - 1) |-> IF i < k THEN u[i] ELSE u[i + 1]]
  BY <1>1, <1>3 DEF Datas
<1>5. Del(u, k) = [i \in 1..(Len(s) - 1) |-> IF i < k THEN u[i] ELSE u[i + 1]]
  BY <1>2 DEF Del
<1> QED  BY <1>4, <1>5 DEF t, u

-----------------------------------------------------------------------------
(* The functions of the doubly linked list *)

LEMMA AddedIs ==
  ASSUME QInv, NEW n \in Nodes, n \notin DOMAIN dHeap, NEW x \in Data, NEW k \in 1..(Len(Listed) + 1),
         dHeap' = NewNode(dHeap, n, Entry(Listed, k - 1), x, Entry(Listed, k)),
         dList' = (IF k = 1 THEN n ELSE dList)
  PROVE  /\ Edit(dHeap, Listed, dHeap', dList', Ins(Listed, k, n))
         /\ Firsts \in Seq(Data) /\ Len(Firsts) = Len(Listed) /\ Len(Listed) \in Nat
         /\ Firsts' = Ins(Firsts, k, x) /\ DLists!Inserted
<1> DEFINE s == Listed
           t == Ins(s, k, n)
           g == dHeap'
<1>1. DProper(dHeap) /\ DAlong(dHeap, dList, s) /\ Proper(dHeap) /\ Along(dHeap, dList, s) /\ Firsts = Datas(dHeap, s)
  BY Now DEF DAlong
<1>2. s \in Seq(Nodes) /\ Len(s) \in Nat /\ \A i \in 1..Len(s) : s[i] \in DOMAIN dHeap
  BY <1>1 DEF Along
<1>3. Firsts \in Seq(Data) /\ Len(Firsts) = Len(s)
  BY <1>1, ListIs
<1>4. g = NewNode(dHeap, n, Entry(s, k - 1), x, Entry(s, k)) /\ k \in 1..(Len(s) + 1)
  OBVIOUS
<1> HIDE DEF s, g
<1>5. /\ Edit(dHeap, s, g, IF k = 1 THEN n ELSE dList, t)
      /\ g[n].data = x /\ \A m \in DOMAIN dHeap : m # n /\ g[m].data = dHeap[m].data
  BY <1>1, <1>4, NewNodeIs
<1>6. Edit(dHeap, Listed, dHeap', dList', t)
  BY <1>5 DEF s, g
<1> HIDE DEF t
<1>7. Firsts' = Datas(g, t)
  <2>1. Proper(dHeap') /\ Along(dHeap', dList', t)
    BY <1>6, DProperIs DEF Edit, DAlong
  <2> QED  BY <2>1, ListIs DEF Firsts, g
<1>8. \A i \in 1..Len(s) : g[s[i]].data = dHeap[s[i]].data
  BY <1>2, <1>5
<1>9. Datas(g, t) = Ins(Datas(dHeap, s), k, x)
  BY <1>2, <1>4, <1>5, <1>8, InsDatas DEF t
<1>10. Firsts' = Ins(Firsts, k, x)
  BY <1>1, <1>7, <1>9
<1>11. DLists!Inserted
  <2>1. k \in 1..(Len(Firsts) + 1)
    BY <1>3, <1>4
  <2>2. Firsts' = DLists!InsertAt(Firsts, k, x)
    BY <1>3, <1>10, <2>1, InsSeq DEF DLists!InsertAt
  <2> QED  BY <2>1, <2>2 DEF DLists!Inserted, Firsts
<1> QED  BY <1>2, <1>3, <1>6, <1>10, <1>11 DEF s, t

LEMMA Added ==
  ASSUME QInv, NEW n \in Nodes, n \notin DOMAIN dHeap, NEW x \in Data, NEW k \in 1..(Len(Listed) + 1),
         dHeap' = NewNode(dHeap, n, Entry(Listed, k - 1), x, Entry(Listed, k)),
         dList' = (IF k = 1 THEN n ELSE dList), QKept
  PROVE  QInv' /\ Seconds' = Seconds /\ Queued' = Queued /\ DLists!Inserted
<1>1. Edit(dHeap, Listed, dHeap', dList', Ins(Listed, k, n)) /\ DLists!Inserted
  BY AddedIs
<1> QED  BY <1>1, ListEdited

\* The head, the end and the neighbours of a list.
LEMMA ListEnds ==
  ASSUME QInv
  PROVE  /\ Listed \in Seq(Nodes) /\ Len(Listed) \in Nat /\ dList = Entry(Listed, 1)
         /\ (dList = None <=> Len(Listed) = 0) /\ Entry(Listed, 0) = None /\ Entry(Listed, Len(Listed) + 1) = None
         /\ LastOf(dHeap, dList) = Entry(Listed, Len(Listed))
         /\ (dList # None => dHeap[dList].prev = None)
         /\ \A i \in 1..Len(Listed) : /\ dHeap[Listed[i]].prev = Entry(Listed, i - 1) /\ Listed[i] # None
                                      /\ Listed[i] \in DOMAIN dHeap /\ Entry(Listed, i) = Listed[i]
                                      /\ (dList = Listed[i] <=> i = 1)
<1>1. Proper(dHeap) /\ Along(dHeap, dList, Listed) /\ DAlong(dHeap, dList, Listed)
  BY Now DEF DAlong
<1>2. Listed \in Seq(Nodes) /\ Len(Listed) \in Nat /\ dList = Entry(Listed, 1)
  BY <1>1 DEF Along
<1>3. LastOf(dHeap, dList) = Entry(Listed, Len(Listed)) /\ (dList = None <=> Listed = << >>)
  BY <1>1, ListIs
<1>4. Entry(Listed, 0) = None /\ Entry(Listed, Len(Listed) + 1) = None
  BY <1>2 DEF Entry
<1>5. ASSUME NEW i \in 1..Len(Listed)
      PROVE  /\ dHeap[Listed[i]].prev = Entry(Listed, i - 1) /\ Listed[i] # None
             /\ Listed[i] \in DOMAIN dHeap /\ Entry(Listed, i) = Listed[i]
             /\ (dList = Listed[i] <=> i = 1)
  <2>1. dHeap[Listed[i]].prev = Entry(Listed, i - 1)
    BY <1>1 DEF DAlong
  <2>2. Listed[i] # None /\ Listed[i] \in DOMAIN dHeap /\ (Listed[i] = Entry(Listed, 1) <=> i = 1)
    BY <1>1, EntryIs
  <2> QED  BY <1>2, <2>1, <2>2 DEF Entry
<1>6. dList = None <=> Len(Listed) = 0
  BY <1>2, <1>3
<1>7. dList # None => dHeap[dList].prev = None
  <2> SUFFICES ASSUME dList # None PROVE dHeap[dList].prev = None
    OBVIOUS
  <2>1. 1 \in 1..Len(Listed) /\ dList = Listed[1] /\ 1 - 1 = 0
    BY <1>2, <1>6 DEF Entry
  <2> QED  BY <1>4, <1>5, <2>1
<1> QED  BY <1>2, <1>3, <1>4, <1>5, <1>6, <1>7

LEMMA PrependHolds ==
  ASSUME QInv, NEW x \in Data, DPrepend(x), QKept
  PROVE  QInv' /\ Seconds' = Seconds /\ Queued' = Queued /\ DLists!Inserted
<1>1. PICK n \in Fresh : Becomes(NewNode(dHeap, n, IF dList = None THEN None ELSE dHeap[dList].prev, x, dList), n)
  BY DEF DPrepend
<1>2. (IF dList = None THEN None ELSE dHeap[dList].prev) = Entry(Listed, 1 - 1) /\ dList = Entry(Listed, 1)
      /\ 1 \in 1..(Len(Listed) + 1)
  BY ListEnds
<1>3. n \in Nodes /\ n \notin DOMAIN dHeap
  BY DEF Fresh
<1>4. dHeap' = NewNode(dHeap, n, Entry(Listed, 1 - 1), x, Entry(Listed, 1)) /\ dList' = (IF 1 = 1 THEN n ELSE dList)
  BY <1>1, <1>2 DEF Becomes
<1> HIDE DEF QInv, Listed
<1> QED  BY <1>2, <1>3, <1>4, Added

LEMMA AppendHolds ==
  ASSUME QInv, NEW x \in Data, DAppend(x), QKept
  PROVE  QInv' /\ Seconds' = Seconds /\ Queued' = Queued /\ DLists!Inserted
<1>1. PICK n \in Fresh : Becomes(Appended(dHeap, dList, n, x), IF dList = None THEN n ELSE dList)
  BY DEF DAppend
<1> DEFINE k == Len(Listed) + 1
<1>2. LastOf(dHeap, dList) = Entry(Listed, k - 1) /\ None = Entry(Listed, k) /\ k \in 1..(Len(Listed) + 1)
      /\ (dList = None <=> k = 1)
  BY ListEnds
<1>3. n \in Nodes /\ n \notin DOMAIN dHeap
  BY DEF Fresh
<1> HIDE DEF QInv, Listed, k
<1>4. dHeap' = NewNode(dHeap, n, Entry(Listed, k - 1), x, Entry(Listed, k)) /\ dList' = (IF k = 1 THEN n ELSE dList)
  BY <1>1, <1>2 DEF Becomes, Appended
<1> QED  BY <1>2, <1>3, <1>4, Added

LEMMA InsertBeforeHolds ==
  ASSUME QInv, NEW s \in Chain, NEW x \in Data, DInsertBefore(s, x), QKept
  PROVE  QInv' /\ Seconds' = Seconds /\ Queued' = Queued /\ DLists!Inserted
<1>1. PICK n \in Fresh : Becomes(NewNode(dHeap, n, dHeap[s].prev, x, s), IF dList = s THEN n ELSE dList)
  BY DEF DInsertBefore
<1>2. PICK k \in 1..Len(Listed) : s = Listed[k]
  BY Now DEF Members
<1>3. dHeap[s].prev = Entry(Listed, k - 1) /\ s = Entry(Listed, k) /\ k \in 1..(Len(Listed) + 1)
      /\ (dList = s <=> k = 1)
  BY <1>2, ListEnds
<1>4. n \in Nodes /\ n \notin DOMAIN dHeap
  BY DEF Fresh
<1> HIDE DEF QInv, Listed
<1>5. dHeap' = NewNode(dHeap, n, Entry(Listed, k - 1), x, Entry(Listed, k)) /\ dList' = (IF k = 1 THEN n ELSE dList)
  BY <1>1, <1>3 DEF Becomes
<1> QED  BY <1>3, <1>4, <1>5, Added

\* g_list_insert_sorted stops before the first entry that is larger.
LEMMA InsertSortedIs ==
  ASSUME QInv, NEW x \in Data, DInsertSorted(x)
  PROVE  /\ \E t : Edit(dHeap, Listed, dHeap', dList', t)
         /\ DLists!Inserted /\ Firsts \in Seq(Data)
         /\ \E k \in 1..(Len(Firsts) + 1) :
              /\ Firsts' = Ins(Firsts, k, x)
              /\ \A i \in 1..Len(Firsts) : i < k => ~(Key[Firsts[i]] > Key[x])
              /\ k \in 1..Len(Firsts) => Key[Firsts[k]] > Key[x]
<1> DEFINE larger == {i \in DOMAIN Listed : Key[dHeap[Listed[i]].data] > Key[x]}
           at == StopAt(x)
           before == IF at = None THEN LastOf(dHeap, dList) ELSE dHeap[at].prev
           Place(k) == /\ k \in 1..(Len(Listed) + 1) /\ before = Entry(Listed, k - 1) /\ at = Entry(Listed, k)
                       /\ (dList = at <=> k = 1)
                       /\ \A i \in 1..Len(Listed) : i < k => i \notin larger
                       /\ k \in 1..Len(Listed) => k \in larger
<1>1. PICK n \in Fresh : Becomes(NewNode(dHeap, n, before, x, at), IF dList = at THEN n ELSE dList)
  BY DEF DInsertSorted
<1>2. at = IF larger = {} THEN None ELSE Listed[CHOOSE i \in larger : \A j \in larger : i <= j]
  BY Zenon DEF StopAt, Listed
<1>3. DOMAIN Listed = 1..Len(Listed) /\ Len(Listed) \in Nat
  BY ListEnds
<1>4. \E k : Place(k)
  <2>1. CASE larger = {}
    <3>1. at = None
      BY <1>2, <2>1
    <3> DEFINE k == Len(Listed) + 1
    <3>2. k \in 1..(Len(Listed) + 1) /\ LastOf(dHeap, dList) = Entry(Listed, k - 1) /\ None = Entry(Listed, k)
          /\ (dList = None <=> k = 1) /\ k \notin 1..Len(Listed)
      BY ListEnds
    <3> HIDE DEF at, larger, k
    <3>3. Place(k)
      BY <2>1, <3>1, <3>2
    <3> QED  BY <3>3
  <2>2. CASE larger # {}
    <3>1. larger \subseteq Nat
      BY <1>3
    <3> HIDE DEF larger
    <3>2. \E i \in larger : \A j \in larger : i <= j
      BY <2>2, <3>1, LeastPlace
    <3> DEFINE k == CHOOSE i \in larger : \A j \in larger : i <= j
    <3>3. k \in larger /\ \A j \in larger : k <= j
      BY <3>2
    <3>4. at = Listed[k]
      BY <1>2, <2>2
    <3> HIDE DEF k
    <3>5. k \in 1..Len(Listed)
      BY <1>3, <3>3 DEF larger
    <3>6. dHeap[Listed[k]].prev = Entry(Listed, k - 1) /\ Listed[k] # None /\ Entry(Listed, k) = Listed[k]
          /\ (dList = Listed[k] <=> k = 1)
      BY <3>5, ListEnds
    <3> HIDE DEF at
    <3>7. \A i \in 1..Len(Listed) : i < k => i \notin larger
      BY <1>3, <3>3, <3>5
    <3>8. k \in 1..(Len(Listed) + 1)
      BY <1>3, <3>5
    <3>9. Place(k)
      BY <3>3, <3>4, <3>6, <3>7, <3>8
    <3> QED  BY <3>9
  <2> QED  BY <2>1, <2>2
<1>5. PICK k : Place(k)
  BY <1>4
<1>6. n \in Nodes /\ n \notin DOMAIN dHeap
  BY DEF Fresh
<1>7. Firsts = Datas(dHeap, Listed)
  BY Now
<1>8. \A i \in 1..Len(Listed) : i \in larger <=> Key[Firsts[i]] > Key[x]
  BY <1>3, <1>7 DEF Datas
<1> HIDE DEF QInv, Listed, at, before, larger
<1>9. dHeap' = NewNode(dHeap, n, Entry(Listed, k - 1), x, Entry(Listed, k)) /\ dList' = (IF k = 1 THEN n ELSE dList)
  BY <1>1, <1>5 DEF Becomes
<1>10. k \in 1..(Len(Listed) + 1)
  BY <1>5
<1>11. /\ Edit(dHeap, Listed, dHeap', dList', Ins(Listed, k, n)) /\ DLists!Inserted /\ Firsts \in Seq(Data)
       /\ Len(Firsts) = Len(Listed) /\ Firsts' = Ins(Firsts, k, x)
  BY <1>6, <1>9, <1>10, AddedIs
<1>12. /\ \A i \in 1..Len(Firsts) : i < k => ~(Key[Firsts[i]] > Key[x])
       /\ k \in 1..Len(Firsts) => Key[Firsts[k]] > Key[x]
  BY <1>5, <1>8, <1>11
<1> QED  BY <1>10, <1>11, <1>12

LEMMA InsertSortedHolds ==
  ASSUME QInv, NEW x \in Data, DInsertSorted(x), QKept
  PROVE  QInv' /\ Seconds' = Seconds /\ Queued' = Queued /\ DLists!Inserted
<1>1. (\E t : Edit(dHeap, Listed, dHeap', dList', t)) /\ DLists!Inserted
  BY InsertSortedIs
<1> QED  BY <1>1, ListEdited

\* ... and an ordered list stays ordered.
LEMMA InsertSortedOrdered ==
  ASSUME QInv, NEW x \in Data, DInsertSorted(x), Ordered(Firsts)
  PROVE  Ordered(Firsts')
<1> DEFINE u == Firsts
           K(i) == Key[u[i]]
<1>1. u \in Seq(Data) /\ Len(u) \in Nat /\ DOMAIN u = 1..Len(u) /\ \A i \in 1..Len(u) : u[i] \in Data
  BY InsertSortedIs
<1>2. PICK k \in 1..(Len(u) + 1) :
        /\ Firsts' = Ins(u, k, x)
        /\ \A i \in 1..Len(u) : i < k => ~(Key[u[i]] > Key[x])
        /\ k \in 1..Len(u) => Key[u[k]] > Key[x]
  BY InsertSortedIs
<1> DEFINE w == Firsts'
<1> HIDE DEF u
<1>3. /\ w \in Seq(Data) /\ Len(w) = Len(u) + 1
      /\ \A i \in 1..(Len(u) + 1) : i < k => i \in 1..Len(u) /\ w[i] = u[i]
      /\ w[k] = x
      /\ \A i \in 1..(Len(u) + 1) : i > k => i - 1 \in 1..Len(u) /\ w[i] = u[i - 1]
  <2>1. u \in Seq(Data) /\ x \in Data /\ k \in 1..(Len(u) + 1)
    BY <1>1, <1>2
  <2> DEFINE v == Ins(u, k, x)
  <2>2. /\ v \in Seq(Data) /\ Len(v) = Len(u) + 1
        /\ \A i \in 1..(Len(u) + 1) : i < k => i \in 1..Len(u) /\ v[i] = u[i]
        /\ v[k] = x
        /\ \A i \in 1..(Len(u) + 1) : i > k => i - 1 \in 1..Len(u) /\ v[i] = u[i - 1]
    BY <2>1, InsIs
  <2>3. w = v
    BY <1>2
  <2> HIDE DEF v, w
  <2> QED  BY <2>2, <2>3
<1>4. \A i, j \in 1..Len(u) : i < j => K(i) <= K(j)
  BY <1>1 DEF Ordered, u
<1>5. Key[x] \in Int /\ \A i \in 1..Len(u) : K(i) \in Int
  BY <1>1, ChainsAssumption
<1>6. \A i \in 1..Len(u) : (i < k => K(i) <= Key[x]) /\ (i >= k => Key[x] <= K(i))
  <2> SUFFICES ASSUME NEW i \in 1..Len(u) PROVE (i < k => K(i) <= Key[x]) /\ (i >= k => Key[x] <= K(i))
    OBVIOUS
  <2>1. i < k => ~(K(i) > Key[x])
    BY <1>2
  <2>2. i >= k => k \in 1..Len(u)
    BY <1>1
  <2>3. i >= k => K(k) > Key[x]
    BY <1>2, <2>2
  <2>4. i >= k => i = k \/ k < i
    BY <1>1
  <2>5. i >= k => K(k) <= K(i) \/ i = k
    BY <1>4, <2>2, <2>4
  <2>6. K(i) \in Int /\ (i >= k => K(k) \in Int) /\ Key[x] \in Int
    BY <1>5, <2>2
  <2>7. i = k => K(i) = K(k)
    OBVIOUS
  <2> HIDE DEF K
  <2> QED  BY <2>1, <2>3, <2>5, <2>6, <2>7
<1> SUFFICES ASSUME NEW i \in DOMAIN w, NEW j \in DOMAIN w, i < j PROVE Key[w[i]] <= Key[w[j]]
  BY DEF Ordered
<1> HIDE DEF w
<1>7. i \in 1..(Len(u) + 1) /\ j \in 1..(Len(u) + 1)
  BY <1>3
<1>8. CASE j < k
  <2>1. i < k
    BY <1>7, <1>8
  <2> QED  BY <1>3, <1>4, <1>7, <1>8, <2>1
<1>9. CASE j = k
  <2>1. i < k
    BY <1>9
  <2>2. w[i] = u[i] /\ i \in 1..Len(u)
    BY <1>3, <1>7, <2>1
  <2> QED  BY <1>3, <1>6, <1>9, <2>1, <2>2
<1>10. CASE j > k
  <2>1. w[j] = u[j - 1] /\ j - 1 \in 1..Len(u) /\ j - 1 >= k
    BY <1>3, <1>7, <1>10
  <2>2. CASE i < k
    <3>1. w[i] = u[i] /\ i \in 1..Len(u) /\ i < j - 1
      BY <1>3, <1>7, <2>1, <2>2
    <3> QED  BY <1>4, <2>1, <3>1
  <2>3. CASE i = k
    BY <1>3, <1>6, <2>1, <2>3
  <2>4. CASE i > k
    <3>1. w[i] = u[i - 1] /\ i - 1 \in 1..Len(u) /\ i - 1 < j - 1
      BY <1>3, <1>7, <2>1, <2>4
    <3> QED  BY <1>4, <2>1, <3>1
  <2> QED  BY <1>7, <2>2, <2>3, <2>4
<1> QED  BY <1>7, <1>8, <1>9, <1>10

\* A node of the list goes.
LEMMA Dropped ==
  ASSUME QInv, NEW k \in 1..Len(Listed),
         dHeap' = Free(Disconnect(dHeap, Listed[k]), {Listed[k]}),
         dList' = (IF dList = Listed[k] THEN dHeap[Listed[k]].next ELSE dList), QKept
  PROVE  QInv' /\ Seconds' = Seconds /\ Queued' = Queued /\ DLists!Removed
<1> DEFINE s == Listed
           t == Del(s, k)
           g == dHeap'
<1>1. DProper(dHeap) /\ DAlong(dHeap, dList, s) /\ Proper(dHeap) /\ Along(dHeap, dList, s) /\ Firsts = Datas(dHeap, s)
  BY Now DEF DAlong
<1>2. s \in Seq(Nodes) /\ Len(s) \in Nat /\ Distinct(s)
  BY <1>1 DEF Along, Distinct
<1>3. Firsts \in Seq(Data) /\ Len(Firsts) = Len(s)
  BY <1>1, ListIs
<1>4. g = Free(Disconnect(dHeap, s[k]), {s[k]}) /\ k \in 1..Len(s)
      /\ dList' = IF dList = s[k] THEN dHeap[s[k]].next ELSE dList
  OBVIOUS
<1> HIDE DEF s, g
<1>5. /\ Edit(dHeap, s, g, IF dList = s[k] THEN dHeap[s[k]].next ELSE dList, t)
      /\ SameData(g, dHeap)
  <2>1. DProper(dHeap) /\ DAlong(dHeap, dList, s)
    BY <1>1
  <2>2. g = Free(Disconnect(dHeap, s[k]), {s[k]}) /\ k \in 1..Len(s)
    BY <1>4
  <2> HIDE DEF t
  <2>3. Edit(dHeap, s, g, IF dList = s[k] THEN dHeap[s[k]].next ELSE dList, t)
    BY <2>1, <2>2, DeletedIs DEF t
  <2>4. SameData(g, dHeap)
    BY <2>1, <2>2, DeletedIs
  <2> QED  BY <2>3, <2>4
<1>6. Edit(dHeap, s, g, dList', t)
  BY <1>4, <1>5
<1>7. Edit(dHeap, Listed, dHeap', dList', t)
  BY <1>6 DEF s, g
<1> HIDE DEF t
<1>8. QInv' /\ Firsts' = Datas(g, t) /\ Seconds' = Seconds /\ Queued' = Queued
  BY <1>7, ListEdited DEF g
<1>9. \A i \in 1..Len(t) : g[t[i]].data = dHeap[t[i]].data
  <2>1. \A i \in 1..Len(t) : t[i] \in DOMAIN g
    BY <1>6 DEF Edit, DAlong, Along
  <2> QED  BY <1>5, <2>1 DEF SameData
<1>10. Datas(g, t) = Del(Datas(dHeap, s), k)
  BY <1>2, <1>4, <1>9, DelDatas DEF t
<1>11. Firsts' = Del(Firsts, k)
  BY <1>1, <1>8, <1>10
<1>12. DLists!Removed
  <2>1. k \in 1..Len(Firsts) /\ k \in DOMAIN Firsts
    BY <1>3, <1>4
  <2>2. Firsts' = DLists!RemoveAt(Firsts, k)
    BY <1>3, <1>11, <2>1, DelSeq DEF DLists!RemoveAt
  <2> QED  BY <2>1, <2>2 DEF DLists!Removed, Firsts
<1> QED  BY <1>8, <1>12

LEMMA DeleteHolds ==
  ASSUME QInv, NEW n \in Chain, DDelete(n), QKept
  PROVE  QInv' /\ Seconds' = Seconds /\ Queued' = Queued /\ DLists!Removed
<1>1. PICK k \in 1..Len(Listed) : n = Listed[k]
  BY Now DEF Members
<1>2. /\ dHeap' = Free(Disconnect(dHeap, Listed[k]), {Listed[k]})
      /\ dList' = (IF dList = Listed[k] THEN dHeap[Listed[k]].next ELSE dList)
  BY <1>1 DEF DDelete, Becomes
<1> QED  BY <1>1, <1>2, Dropped

\* g_list_find: the first node with x, if there is one.
LEMMA FindIs ==
  ASSUME NEW h, Proper(h), NEW p, NEW s, Along(h, p, s), NEW x
  PROVE  \/ Find(h, p, x) = None /\ \A i \in 1..Len(s) : h[s[i]].data # x
         \/ \E k \in 1..Len(s) : /\ Find(h, p, x) = s[k] /\ s[k] # None /\ h[s[k]].data = x
                                 /\ \A i \in 1..Len(s) : i < k => h[s[i]].data # x
<1> DEFINE at == {i \in DOMAIN s : h[s[i]].data = x}
<1>0. DOMAIN s = 1..Len(s) /\ Len(s) \in Nat
  BY DEF Along
<1>1. Find(h, p, x) = IF at = {} THEN None ELSE s[CHOOSE i \in at : \A j \in at : i <= j]
  <2>1. Follow(h, p) = s
    BY FollowIs
  <2> QED  BY <2>1 DEF Find
<1>2. CASE at = {}
  BY <1>0, <1>1, <1>2
<1>3. CASE at # {}
  <2>1. at \subseteq Nat
    BY <1>0
  <2> DEFINE k == CHOOSE i \in at : \A j \in at : i <= j
  <2> HIDE DEF at
  <2>2. \E i \in at : \A j \in at : i <= j
    BY <1>3, <2>1, LeastPlace
  <2>3. k \in at /\ \A j \in at : k <= j
    BY <2>2
  <2>4. Find(h, p, x) = s[k]
    BY <1>1, <1>3
  <2> HIDE DEF k
  <2>5. k \in 1..Len(s) /\ h[s[k]].data = x
    BY <1>0, <2>3 DEF at
  <2>6. s[k] # None
    BY <2>5, NoNode DEF Along
  <2>7. \A i \in 1..Len(s) : i < k => h[s[i]].data # x
    BY <1>0, <2>3, <2>5 DEF at
  <2> QED  BY <2>4, <2>5, <2>6, <2>7
<1> QED  BY <1>2, <1>3

LEMMA RemoveHolds ==
  ASSUME QInv, NEW x \in Data, DRemove(x), QKept
  PROVE  QInv' /\ Seconds' = Seconds /\ Queued' = Queued /\ DLists!Removed
<1> DEFINE n == Find(dHeap, dList, x)
<1>1. n # None /\ DDelete(n)
  BY DEF DRemove
<1>2. Proper(dHeap) /\ Along(dHeap, dList, Listed)
  BY Now DEF DAlong
<1>3. \E k \in 1..Len(Listed) : n = Listed[k]
  BY <1>1, <1>2, FindIs
<1>4. n \in Chain
  BY <1>3, Now DEF Members
<1> HIDE DEF n, QInv, Chain
<1> QED  BY <1>1, <1>4, DeleteHolds

\* g_list_free
LEMMA FreeHolds ==
  ASSUME QInv, DFree, QKept
  PROVE  QInv' /\ Seconds' = Seconds /\ Queued' = Queued /\ Firsts' = << >>
<1> DEFINE s == Listed
           g == dHeap'
<1>1. DProper(dHeap) /\ Chain = Members(s) /\ Members(s) \subseteq DOMAIN dHeap
  BY Now
<1>2. g = Free(dHeap, Members(s)) /\ dList' = None
  BY <1>1 DEF DFree, Becomes
<1> HIDE DEF s, g
<1>3. DOMAIN g = DOMAIN dHeap \ Members(s) /\ \A m \in DOMAIN g : g[m] = dHeap[m]
  BY <1>2 DEF Free
<1>4. Members(<< >>) = {} /\ Len(<< >>) = 0 /\ << >> \in Seq(Nodes)
  BY DEF Members
<1>5. DProper(g)
  BY <1>1, <1>3 DEF DProper
<1>6. Lays(dHeap, s, g, << >>) /\ Distinct(<< >>)
  BY <1>3, <1>4, <1>5 DEF Lays, Distinct
<1>7. Entry(<< >>, 1) = None
  BY <1>4 DEF Entry
<1>8. Edit(dHeap, s, g, None, << >>)
  BY <1>4, <1>6, <1>7, Laid
<1>9. Edit(dHeap, Listed, dHeap', dList', << >>)
  BY <1>2, <1>8 DEF s, g
<1>10. QInv' /\ Firsts' = Datas(dHeap', << >>) /\ Seconds' = Seconds /\ Queued' = Queued
  BY <1>9, ListEdited
<1>11. Datas(dHeap', << >>) = << >>
  BY <1>4 DEF Datas
<1> QED  BY <1>10, <1>11

-----------------------------------------------------------------------------
(* g_list_remove_all *)

\* n places of a sequence, in their order, and what is there.
Picks(at, n, a) == /\ n \in 0..Len(a) /\ at \in [1..n -> 1..Len(a)]
                   /\ \A i, j \in 1..n : i < j => at[i] < at[j]
Picked(a, at, n) == [i \in 1..n |-> a[at[i]]]

\* The n places are e and the m places d.
ButFor(at, n, e, d, m) ==
  \A i : (\E j \in 1..n : at[j] = i) => i = e \/ \E j \in 1..m : d[j] = i

LEMMA PicksLess ==
  ASSUME NEW a, Len(a) \in Nat, NEW n, NEW at, Picks(at, n, a), NEW k \in 1..n
  PROVE  /\ n \in Nat /\ n - 1 \in Nat
         /\ Picks(Del(at, k), n - 1, a) /\ Picked(a, Del(at, k), n - 1) = Del(Picked(a, at, n), k)
         /\ ButFor(at, n, at[k], Del(at, k), n - 1)
<1>1. n \in Nat /\ n - 1 \in Nat /\ n - 1 \in 0..Len(a) /\ at \in Seq(1..Len(a)) /\ Len(at) = n /\ k \in 1..Len(at)
  BY DEF Picks
<1>2. \A i, j \in 1..n : at[i] = at[j] => i = j
  <2> SUFFICES ASSUME NEW i \in 1..n, NEW j \in 1..n, at[i] = at[j] PROVE i = j
    OBVIOUS
  <2>1. at[i] \in Int /\ at[j] \in Int /\ i \in Int /\ j \in Int
    BY DEF Picks
  <2>2. (i < j => at[i] < at[j]) /\ (j < i => at[j] < at[i])
    BY DEF Picks
  <2> QED  BY <2>1, <2>2
<1> DEFINE d == Del(at, k)
<1>3. /\ d \in Seq(1..Len(a)) /\ Len(d) = n - 1
      /\ \A i \in 1..(n - 1) : i < k => i \in 1..n /\ d[i] = at[i]
      /\ \A i \in 1..(n - 1) : i >= k => i + 1 \in 1..n /\ d[i] = at[i + 1]
      /\ Members(d) = Members(at) \ {at[k]}
  <2>1. \A i, j \in 1..Len(at) : at[i] = at[j] => i = j
    BY <1>1, <1>2
  <2> HIDE DEF d
  <2>2. /\ d \in Seq(1..Len(a)) /\ Len(d) = Len(at) - 1
        /\ \A i \in 1..(Len(at) - 1) : i < k => i \in 1..Len(at) /\ d[i] = at[i]
        /\ \A i \in 1..(Len(at) - 1) : i >= k => i + 1 \in 1..Len(at) /\ d[i] = at[i + 1]
        /\ Members(d) = Members(at) \ {at[k]}
    <3> DEFINE S == 1..Len(a)
    <3>1. at \in Seq(S) /\ k \in 1..Len(at)
      BY <1>1
    <3> HIDE DEF S
    <3>2. /\ d \in Seq(S) /\ Len(d) = Len(at) - 1
          /\ \A i \in 1..(Len(at) - 1) : i < k => i \in 1..Len(at) /\ d[i] = at[i]
          /\ \A i \in 1..(Len(at) - 1) : i >= k => i + 1 \in 1..Len(at) /\ d[i] = at[i + 1]
          /\ Members(d) = Members(at) \ {at[k]}
      BY <2>1, <3>1, DelIs DEF d
    <3> QED  BY <3>2 DEF S
  <2> QED  BY <1>1, <2>2
<1> HIDE DEF d
<1>4. ASSUME NEW i \in 1..(n - 1), NEW j \in 1..(n - 1), i < j PROVE d[i] < d[j]
  <2>1. i \in Nat /\ j \in Nat
    OBVIOUS
  <2>2. CASE j < k
    <3>1. i < k
      BY <1>1, <1>4, <2>1, <2>2
    <3> QED  BY <1>3, <1>4, <2>2, <3>1 DEF Picks
  <2>3. CASE i >= k
    <3>1. j >= k /\ i + 1 < j + 1
      BY <1>1, <1>4, <2>1, <2>3
    <3> QED  BY <1>3, <2>3, <3>1 DEF Picks
  <2>4. CASE i < k /\ j >= k
    <3>1. i < j + 1
      BY <1>4, <2>1
    <3> QED  BY <1>3, <2>4, <3>1 DEF Picks
  <2> QED  BY <1>1, <2>1, <2>2, <2>3, <2>4
<1>5. Picks(d, n - 1, a)
  BY <1>1, <1>3, <1>4 DEF Picks
<1>6. Picked(a, d, n - 1) = Del(Picked(a, at, n), k)
  <2> DEFINE t == Picked(a, at, n)
  <2>1. Len(t) = n /\ \A i \in 1..n : t[i] = a[at[i]]
    BY <1>1 DEF Picked
  <2> HIDE DEF t
  <2>2. \A i \in 1..(n - 1) : a[d[i]] = IF i < k THEN t[i] ELSE t[i + 1]
    <3> SUFFICES ASSUME NEW i \in 1..(n - 1) PROVE a[d[i]] = IF i < k THEN t[i] ELSE t[i + 1]
      OBVIOUS
    <3>1. i < k \/ (i >= k /\ ~(i < k))
      BY <1>1
    <3> QED  BY <1>3, <2>1, <3>1
  <2> QED  BY <2>1, <2>2 DEF Picked, Del, t
<1>7. ASSUME NEW i, NEW j \in 1..n, at[j] = i, i # at[k] PROVE \E l \in 1..(n - 1) : d[l] = i
  <2>1. i \in Members(at)
    BY <1>1, <1>7 DEF Members
  <2>2. i \in Members(d)
    BY <1>3, <1>7, <2>1
  <2> QED  BY <1>3, <2>2 DEF Members
<1>8. ButFor(at, n, at[k], d, n - 1)
  BY <1>7, Zenon DEF ButFor
<1> QED  BY <1>1, <1>5, <1>6, <1>8 DEF d

LEMMA EditTwice ==
  ASSUME NEW h, NEW a, NEW g, NEW p, NEW t, Edit(h, a, g, p, t),
         NEW f, NEW q, NEW u, Edit(g, t, f, q, u)
  PROVE  Edit(h, a, f, q, u)
<1>1. /\ DOMAIN g = (DOMAIN h \ Members(a)) \cup Members(t)
      /\ \A m \in DOMAIN h \ Members(a) : m \notin Members(t) /\ g[m] = h[m]
  BY DEF Edit
<1>2. /\ DOMAIN f = (DOMAIN g \ Members(t)) \cup Members(u)
      /\ \A m \in DOMAIN g \ Members(t) : m \notin Members(u) /\ f[m] = g[m]
  BY DEF Edit
<1>3. DProper(f) /\ DAlong(f, q, u)
  BY DEF Edit
<1>4. DOMAIN g \ Members(t) = DOMAIN h \ Members(a)
  BY <1>1
<1> QED  BY <1>1, <1>2, <1>3, <1>4 DEF Edit

\* In the state st of the loop no more than m nodes of a are left; those that have
\* gone held x.
Left(h, a, x, st, m) ==
  \E n \in 0..m : \E at \in [1..n -> 1..Len(a)] :
    /\ Picks(at, n, a) /\ Edit(h, a, st.heap, st.list, Picked(a, at, n)) /\ SameData(st.heap, h)
    /\ \A i \in 1..Len(a) : (\E j \in 1..n : at[j] = i) \/ h[a[i]].data = x

\* One turn of the loop.
Turn(st, x) ==
  LET n == Find(st.heap, st.list, x)
  IN  IF n = None THEN st
      ELSE [heap |-> Free(Disconnect(st.heap, n), {n}),
            list |-> IF n = st.list THEN st.heap[n].next ELSE st.list]

LEMMA TurnIs ==
  ASSUME NEW h, NEW a \in Seq(Nodes), NEW x, NEW st, NEW m \in Nat, Left(h, a, x, st, m),
         Find(st.heap, st.list, x) # None
  PROVE  m > 0 /\ Left(h, a, x, Turn(st, x), m - 1)
<1>1. PICK n \in 0..m : \E at \in [1..n -> 1..Len(a)] :
        /\ Picks(at, n, a) /\ Edit(h, a, st.heap, st.list, Picked(a, at, n)) /\ SameData(st.heap, h)
        /\ \A i \in 1..Len(a) : (\E j \in 1..n : at[j] = i) \/ h[a[i]].data = x
  BY DEF Left
<1>2. PICK at \in [1..n -> 1..Len(a)] :
        /\ Picks(at, n, a) /\ Edit(h, a, st.heap, st.list, Picked(a, at, n)) /\ SameData(st.heap, h)
        /\ \A i \in 1..Len(a) : (\E j \in 1..n : at[j] = i) \/ h[a[i]].data = x
  BY <1>1
<1> DEFINE t == Picked(a, at, n)
           hh == st.heap
           pp == st.list
<1>3. DProper(hh) /\ DAlong(hh, pp, t) /\ Proper(hh) /\ Along(hh, pp, t)
  BY <1>2, DProperIs DEF Edit, DAlong
<1>4. Len(t) = n /\ \A i \in 1..n : t[i] = a[at[i]]
  BY DEF Picked
<1> HIDE DEF t, hh, pp
<1>5. PICK k \in 1..Len(t) : Find(hh, pp, x) = t[k] /\ hh[t[k]].data = x
  <2>1. Find(hh, pp, x) # None
    BY DEF hh, pp
  <2> QED  BY <1>3, <2>1, FindIs
<1> DEFINE g == Free(Disconnect(hh, t[k]), {t[k]})
           q == IF pp = t[k] THEN hh[t[k]].next ELSE pp
<1>6. Turn(st, x) = [heap |-> g, list |-> q] /\ Turn(st, x).heap = g /\ Turn(st, x).list = q
  BY <1>5 DEF Turn, hh, pp
<1>7. Edit(hh, t, g, q, Del(t, k)) /\ SameData(g, hh)
  <2> DEFINE f == g
  <2>1. f = Free(Disconnect(hh, t[k]), {t[k]})
    OBVIOUS
  <2> HIDE DEF f
  <2> SUFFICES Edit(hh, t, f, q, Del(t, k)) /\ SameData(f, hh)
    BY DEF f
  <2> QED  BY <1>3, <2>1, DeletedIs
<1> HIDE DEF g, q
<1>8. Edit(h, a, g, q, Del(t, k))
  <2>1. Edit(h, a, hh, pp, t)
    BY <1>2 DEF hh, pp, t
  <2> QED  BY <1>7, <2>1, EditTwice
<1>9. SameData(g, h)
  BY <1>2, <1>7 DEF SameData, hh
<1>10. /\ n \in Nat /\ n - 1 \in Nat
       /\ Picks(Del(at, k), n - 1, a) /\ Picked(a, Del(at, k), n - 1) = Del(t, k)
       /\ \A i \in 1..Len(a) : (\E j \in 1..n : at[j] = i) =>
            i = at[k] \/ \E j \in 1..(n - 1) : Del(at, k)[j] = i
  <2>1. k \in 1..n /\ Picks(at, n, a) /\ Len(a) \in Nat
    BY <1>2, <1>4
  <2>2. /\ n \in Nat /\ n - 1 \in Nat
        /\ Picks(Del(at, k), n - 1, a) /\ Picked(a, Del(at, k), n - 1) = Del(Picked(a, at, n), k)
    BY <2>1, PicksLess
  <2>3. ButFor(at, n, at[k], Del(at, k), n - 1)
    BY <2>1, PicksLess
  <2> QED  BY <2>2, <2>3 DEF t, ButFor
<1>11. h[a[at[k]]].data = x
  <2>1. t[k] \in DOMAIN hh /\ t[k] = a[at[k]]
    BY <1>3, <1>4 DEF Along
  <2>2. hh[t[k]].data = h[t[k]].data
    BY <1>2, <2>1 DEF SameData, hh
  <2> QED  BY <1>5, <2>1, <2>2
<1>12. \A i \in 1..Len(a) : (\E j \in 1..(n - 1) : Del(at, k)[j] = i) \/ h[a[i]].data = x
  BY <1>2, <1>10, <1>11
<1>13. n - 1 \in 0..(m - 1) /\ m > 0
  BY <1>1, <1>10
<1> DEFINE d == Del(at, k)
<1>14. d \in [1..(n - 1) -> 1..Len(a)]
  BY <1>10 DEF Picks
<1> HIDE DEF d
<1>15. /\ Picks(d, n - 1, a) /\ Edit(h, a, Turn(st, x).heap, Turn(st, x).list, Picked(a, d, n - 1))
       /\ SameData(Turn(st, x).heap, h)
       /\ \A i \in 1..Len(a) : (\E j \in 1..(n - 1) : d[j] = i) \/ h[a[i]].data = x
  BY <1>6, <1>8, <1>9, <1>10, <1>12 DEF d
<1>16. Left(h, a, x, Turn(st, x), m - 1)
  BY <1>13, <1>14, <1>15 DEF Left
<1> QED  BY <1>13, <1>16

LEMMA PicksAll ==
  ASSUME NEW a \in Seq(Nodes)
  PROVE  \E at \in [1..Len(a) -> 1..Len(a)] :
           Picks(at, Len(a), a) /\ Picked(a, at, Len(a)) = a /\ \A i \in 1..Len(a) : at[i] = i
<1> DEFINE n == Len(a)
           at == [i \in 1..n |-> i]
<1>1. n \in Nat /\ n \in 0..n
  OBVIOUS
<1>2. at \in [1..n -> 1..n] /\ \A i \in 1..n : at[i] = i
  OBVIOUS
<1>3. Picks(at, n, a)
  BY <1>1, <1>2 DEF Picks
<1>4. Picked(a, at, n) = a
  BY <1>2 DEF Picked
<1> HIDE DEF at
<1> QED  BY <1>2, <1>3, <1>4

LEMMA DRemoveAllHolds ==
  ASSUME QInv, NEW x \in Data, DRemoveAll(x), QKept
  PROVE  QInv' /\ Seconds' = Seconds /\ Queued' = Queued /\ DLists!Purged
<1> DEFINE a == Listed
           h == dHeap
           N == Cardinality(Chain)
           st0 == [heap |-> h, list |-> dList]
           Eq(g) == g = [k \in 0..N |-> IF k = 0 THEN st0 ELSE Turn(g[k - 1], x)]
           Runs == CHOOSE g : Eq(g)
<1>1. Becomes(Runs[N].heap, Runs[N].list)
  BY DEF DRemoveAll, Turn
<1>2. /\ DProper(h) /\ DAlong(h, dList, a) /\ Proper(h) /\ Along(h, dList, a) /\ Firsts = Datas(h, a)
      /\ Chain = Members(a) /\ a \in Seq(Nodes) /\ Len(a) \in Nat
  BY Now, SMTT(30) DEF DAlong, Along
<1>3. N = Len(a)
  <2>1. IsFiniteSet(1..Len(a)) /\ Cardinality(1..Len(a)) = Len(a)
    BY <1>2, FS_Interval
  <2> DEFINE f == [i \in 1..Len(a) |-> a[i]]
  <2>2. f \in Surjection(1..Len(a), Members(a)) /\ f \in Injection(1..Len(a), Members(a))
    BY <1>2 DEF Along, Surjection, Injection, IsInjective, Members
  <2>3. f \in Bijection(1..Len(a), Members(a))
    BY <2>2 DEF Bijection
  <2> HIDE DEF f
  <2>4. Cardinality(1..Len(a)) = Cardinality(Members(a))
    <3> HIDE DEF N, st0
    <3>1. ExistsBijection(1..Len(a), Members(a))
      BY <2>3 DEF ExistsBijection
    <3> QED  BY <2>1, <3>1, FS_Bijection
  <2> QED  BY <1>2, <2>1, <2>4
<1> HIDE DEF a, h
<1>4. Left(h, a, x, st0, N)
  <2>1. PICK at \in [1..N -> 1..Len(a)] :
          Picks(at, N, a) /\ Picked(a, at, N) = a /\ \A i \in 1..Len(a) : at[i] = i
    BY <1>2, <1>3, PicksAll
  <2>2. N \in 0..N
    BY <1>2, <1>3
  <2>3. Edit(h, a, h, dList, a)
    <3>1. Members(a) \subseteq DOMAIN h
      BY <1>2 DEF Along, Members
    <3> QED  BY <1>2, <3>1 DEF Edit
  <2>4. SameData(h, h)
    BY DEF SameData
  <2>5. st0.heap = h /\ st0.list = dList
    OBVIOUS
  <2>6. \A i \in 1..Len(a) : (\E j \in 1..N : at[j] = i) \/ h[a[i]].data = x
    BY <1>3, <2>1
  <2> HIDE DEF st0, N
  <2>7. /\ Picks(at, N, a) /\ Edit(h, a, st0.heap, st0.list, Picked(a, at, N)) /\ SameData(st0.heap, h)
        /\ \A i \in 1..Len(a) : (\E j \in 1..N : at[j] = i) \/ h[a[i]].data = x
    BY <2>1, <2>3, <2>4, <2>5, <2>6
  <2> QED  BY <2>1, <2>2, <2>7 DEF Left
<1>5. ASSUME NEW st, NEW m \in 0..N, Left(h, a, x, st, m) PROVE Left(h, a, x, st, N)
  <2>1. 0..m \subseteq 0..N
    BY <1>2, <1>3
  <2> HIDE DEF N
  <2> QED  BY <1>5, <2>1, Zenon DEF Left
<1>6. ASSUME NEW st, NEW m \in Nat, Left(h, a, x, st, m) PROVE DProper(st.heap) /\ st.list \in Nodes \cup {None}
  <2>1. PICK t : Edit(h, a, st.heap, st.list, t)
    BY <1>6 DEF Left
  <2>2. Along(st.heap, st.list, t) /\ DProper(st.heap)
    BY <2>1 DEF Edit, DAlong
  <2> QED  BY <2>2, DProperIs, ListIs
<1> DEFINE Heaps == (UNION {[D -> DCells] : D \in SUBSET Nodes}) \cup {h}
           X == {st \in [heap : Heaps, list : Nodes \cup {None}] : Left(h, a, x, st, N)}
           F == [st \in X |-> Turn(st, x)]
<1>7. \E g : Eq(g)
  <2>1. st0 \in X
    <3>1. dList \in Nodes \cup {None}
      BY <1>2, ListIs
    <3>2. h \in Heaps
      OBVIOUS
    <3> HIDE DEF Heaps, N
    <3> QED  BY <1>4, <3>1, <3>2
  <2>2. F \in [X -> X]
    <3> SUFFICES ASSUME NEW st \in X PROVE Turn(st, x) \in X
      OBVIOUS
    <3>1. st \in [heap : Heaps, list : Nodes \cup {None}] /\ Left(h, a, x, st, N)
      OBVIOUS
    <3> DEFINE n == Find(st.heap, st.list, x)
    <3>2. CASE n = None
      BY <3>1, <3>2 DEF Turn
    <3>3. CASE n # None
      <4> HIDE DEF N, X, Heaps
      <4>1. N \in Nat /\ N > 0 /\ Left(h, a, x, Turn(st, x), N - 1)
        BY <1>2, <1>3, <3>1, <3>3, TurnIs
      <4>2. N - 1 \in 0..N /\ N - 1 \in Nat
        BY <4>1
      <4>3. Left(h, a, x, Turn(st, x), N)
        BY <1>5, <4>1, <4>2
      <4>4. DProper(Turn(st, x).heap) /\ Turn(st, x).list \in Nodes \cup {None}
        BY <1>6, <4>1, <4>2
      <4> DEFINE f == Free(Disconnect(st.heap, n), {n})
                 q == IF n = st.list THEN st.heap[n].next ELSE st.list
      <4>5. Turn(st, x) = [heap |-> f, list |-> q]
        BY <3>3 DEF Turn
      <4>6. f \in [DOMAIN f -> DCells] /\ DOMAIN f \in SUBSET Nodes
        <5>1. f = [m \in DOMAIN Disconnect(st.heap, n) \ {n} |-> Disconnect(st.heap, n)[m]]
          BY DEF Free
        <5>2. f = [m \in DOMAIN f |-> f[m]]
          BY <5>1
        <5> HIDE DEF f, q
        <5>3. Turn(st, x).heap = f
          BY <4>5
        <5>4. DOMAIN f \subseteq Nodes /\ \A m \in DOMAIN f : f[m] \in DCells
          BY <4>4, <5>3 DEF DProper
        <5> QED  BY <5>2, <5>4
      <4> HIDE DEF f, q
      <4>7. f \in Heaps
        BY <4>6 DEF Heaps
      <4>8. Turn(st, x) \in [heap : Heaps, list : Nodes \cup {None}]
        BY <4>4, <4>5, <4>7
      <4> QED  BY <4>3, <4>8 DEF X
    <3> QED  BY <3>2, <3>3
  <2>3. N \in Nat
    BY <1>2, <1>3
  <2> HIDE DEF X, F, N, st0, Heaps
  <2>4. PICK g : Iterates(g, N, X, F, st0)
    BY <2>1, <2>2, <2>3, Iterated
  <2>5. ASSUME NEW k \in 0..N PROVE g[k] = IF k = 0 THEN st0 ELSE Turn(g[k - 1], x)
    <3>1. k = 0 => g[k] = st0
      BY <2>4 DEF Iterates
    <3>2. k # 0 => k - 1 \in 0..N /\ k \in 1..N
      BY <2>3
    <3>3. k # 0 => g[k] = F[g[k - 1]] /\ g[k - 1] \in X
      BY <2>4, <3>2 DEF Iterates
    <3> QED  BY <3>1, <3>3 DEF F
  <2>6. g = [k \in 0..N |-> g[k]]
    BY <2>4 DEF Iterates
  <2>7. Eq(g)
    BY <2>5, <2>6, Zenon
  <2> QED  BY <2>7
<1>8. Eq(Runs)
  <2> HIDE DEF Eq
  <2> QED  BY <1>7, Zenon
<1> HIDE DEF Runs, X, F, Heaps
<1>9. \A k \in 0..N : Runs[k] = IF k = 0 THEN st0 ELSE Turn(Runs[k - 1], x)
  <2> HIDE DEF st0, N
  <2> QED  BY <1>8, Zenon
<1> HIDE DEF Eq, st0, N
<1> DEFINE Done(st) == Find(st.heap, st.list, x) = None
           P == {k \in 0..N : Left(h, a, x, Runs[k], N) /\ (Done(Runs[k]) \/ Left(h, a, x, Runs[k], N - k))}
<1>10. N \in Nat
  BY <1>2, <1>3
<1>11. 0 \in P
  <2>1. 0 \in 0..N /\ N - 0 = N /\ Runs[0] = st0
    BY <1>9, <1>10
  <2> QED  BY <1>4, <2>1
<1>12. ASSUME NEW k \in 0..(N - 1), k \in P PROVE k + 1 \in P
  <2>1. k + 1 \in 0..N /\ k + 1 # 0 /\ (k + 1) - 1 = k /\ N - k \in Nat /\ (N - k) - 1 = N - (k + 1)
        /\ N - (k + 1) \in 0..N
    BY <1>10
  <2>2. Runs[k + 1] = Turn(Runs[k], x)
    BY <1>9, <2>1
  <2>3. Left(h, a, x, Runs[k], N) /\ (Done(Runs[k]) \/ Left(h, a, x, Runs[k], N - k))
    BY <1>12
  <2>4. CASE Done(Runs[k])
    <3>1. Runs[k + 1] = Runs[k]
      BY <2>2, <2>4 DEF Turn
    <3> HIDE DEF Done
    <3> QED  BY <2>1, <2>3, <2>4, <3>1
  <2>5. CASE ~Done(Runs[k])
    <3>1. Left(h, a, x, Runs[k], N - k)
      BY <2>3, <2>5
    <3>2. Left(h, a, x, Turn(Runs[k], x), (N - k) - 1)
      BY <1>2, <2>1, <2>5, <3>1, TurnIs
    <3>3. Left(h, a, x, Runs[k + 1], N - (k + 1))
      BY <2>1, <2>2, <3>2
    <3>4. Left(h, a, x, Runs[k + 1], N)
      BY <1>5, <2>1, <3>3
    <3> HIDE DEF Done
    <3> QED  BY <2>1, <3>3, <3>4
  <2> QED  BY <2>4, <2>5
<1> DEFINE st == Runs[N]
<1>13. Left(h, a, x, st, N) /\ (Done(st) \/ Left(h, a, x, st, 0))
  <2> HIDE DEF P
  <2>1. N \in 0..N /\ N \in P
    BY <1>10, <1>11, <1>12, UpTo
  <2>2. N - N = 0
    BY <1>10
  <2> QED  BY <2>1, <2>2 DEF P
<1> HIDE DEF st
<1>14. Done(st)
  <2> SUFFICES ASSUME Left(h, a, x, st, 0), ~Done(st) PROVE FALSE
    BY <1>13
  <2>1. Find(st.heap, st.list, x) # None
    OBVIOUS
  <2>2. 0 \in Nat /\ ~(0 > 0)
    OBVIOUS
  <2> HIDE DEF Done
  <2> QED  BY <1>2, <2>1, <2>2, TurnIs
<1>15. PICK n \in 0..N : \E at \in [1..n -> 1..Len(a)] :
        /\ Picks(at, n, a) /\ Edit(h, a, st.heap, st.list, Picked(a, at, n)) /\ SameData(st.heap, h)
        /\ \A i \in 1..Len(a) : (\E j \in 1..n : at[j] = i) \/ h[a[i]].data = x
  <2> HIDE DEF Done
  <2> QED  BY <1>13 DEF Left
<1>16. PICK at \in [1..n -> 1..Len(a)] :
        /\ Picks(at, n, a) /\ Edit(h, a, st.heap, st.list, Picked(a, at, n)) /\ SameData(st.heap, h)
        /\ \A i \in 1..Len(a) : (\E j \in 1..n : at[j] = i) \/ h[a[i]].data = x
  BY <1>15
<1> DEFINE t == Picked(a, at, n)
<1>17. dHeap' = st.heap /\ dList' = st.list
  BY <1>1 DEF Becomes, st
<1>18. Len(t) = n /\ \A i \in 1..n : t[i] = a[at[i]] /\ at[i] \in 1..Len(a)
  BY DEF Picked
<1> HIDE DEF t
<1>19. QInv' /\ Firsts' = Datas(dHeap', t) /\ Seconds' = Seconds /\ Queued' = Queued
  <2>1. Edit(dHeap, Listed, dHeap', dList', t)
    BY <1>16, <1>17 DEF t, a, h
  <2> QED  BY <2>1, ListEdited
<1>20. \A i \in 1..n : st.heap[t[i]].data = h[t[i]].data
  <2>1. \A i \in 1..Len(t) : t[i] \in DOMAIN st.heap
    BY <1>16 DEF Edit, DAlong, Along, t
  <2> QED  BY <1>16, <1>18, <2>1 DEF SameData
<1>21. \A i \in 1..n : h[t[i]].data # x
  <2>1. Along(st.heap, st.list, t) /\ Proper(st.heap)
    BY <1>16, DProperIs DEF Edit, DAlong, t
  <2>2. \A i \in 1..Len(t) : st.heap[t[i]].data # x
    BY <1>14, <2>1, FindIs
  <2> QED  BY <1>18, <1>20, <2>2
<1>22. DOMAIN Firsts = 1..Len(a) /\ Len(Firsts) = Len(a) /\ \A i \in 1..Len(a) : Firsts[i] = h[a[i]].data
  BY <1>2, ListIs
<1>23. {at[i] : i \in 1..n} = {i \in DOMAIN Firsts : Firsts[i] # x}
  <2>1. \A i \in 1..n : at[i] \in DOMAIN Firsts /\ Firsts[at[i]] # x
    BY <1>18, <1>21, <1>22
  <2>2. \A i \in DOMAIN Firsts : Firsts[i] # x => \E j \in 1..n : at[j] = i
    BY <1>16, <1>22
  <2> DEFINE I == 1..n
             Places == DOMAIN Firsts
             Kept(i) == Firsts[i] # x
  <2>3. (\A i \in I : at[i] \in Places /\ Kept(at[i])) /\ \A i \in Places : Kept(i) => \E j \in I : at[j] = i
    BY <2>1, <2>2
  <2> HIDE DEF I, Places, Kept
  <2>4. {at[i] : i \in I} = {i \in Places : Kept(i)}
    BY <2>3, Zenon
  <2> QED  BY <2>4, Zenon DEF I, Places, Kept
<1>24. Firsts' = [i \in 1..n |-> Firsts[at[i]]]
  <2>1. Firsts' = [i \in 1..n |-> dHeap'[t[i]].data]
    BY <1>18, <1>19 DEF Datas
  <2>2. \A i \in 1..n : dHeap'[t[i]].data = Firsts[at[i]]
    <3> SUFFICES ASSUME NEW i \in 1..n PROVE dHeap'[t[i]].data = Firsts[at[i]]
      OBVIOUS
    <3>1. dHeap'[t[i]].data = h[t[i]].data
      BY <1>17, <1>20
    <3>2. h[t[i]].data = Firsts[at[i]]
      BY <1>18, <1>22
    <3> QED  BY <3>1, <3>2
  <2> DEFINE Was(i) == dHeap'[t[i]].data
             G(i) == Firsts[at[i]]
  <2>3. Firsts' = [i \in 1..n |-> Was(i)] /\ \A i \in 1..n : Was(i) = G(i)
    BY <2>1, <2>2
  <2> HIDE DEF Was, G
  <2>4. Firsts' = [i \in 1..n |-> G(i)]
    BY <2>3
  <2> QED  BY <2>4 DEF G
<1>25. DLists!Purged
  <2>1. n \in 0..Len(Firsts) /\ at \in [1..n -> DOMAIN Firsts] /\ \A i, j \in 1..n : i < j => at[i] < at[j]
    BY <1>3, <1>16, <1>22 DEF Picks
  <2> QED  BY <1>23, <1>24, <2>1 DEF DLists!Purged, Firsts
<1> QED  BY <1>19, <1>25
\* What comes before an element of a finite strict order numbers the elements.
LEMMA PlacesRanked ==
  ASSUME NEW P, IsFiniteSet(P), NEW R,
         \A p \in P : <<p, p>> \notin R,
         \A p, q \in P : p = q \/ <<p, q>> \in R \/ <<q, p>> \in R,
         \A p, q, r \in P : <<p, q>> \in R /\ <<q, r>> \in R => <<p, r>> \in R
  PROVE  \E f \in Bijection(P, 0..(Cardinality(P) - 1)) :
           /\ \A p \in P : f[p] = Cardinality({q \in P : <<q, p>> \in R})
           /\ \A p, q \in P : <<p, q>> \in R <=> f[p] < f[q]
<1> DEFINE Below(p) == {q \in P : <<q, p>> \in R}
           f == [p \in P |-> Cardinality(Below(p))]
           N == 0..(Cardinality(P) - 1)
<1>0. Cardinality(P) \in Nat
  BY FS_CardinalityType
<1>1. \A p \in P : IsFiniteSet(Below(p)) /\ Cardinality(Below(p)) \in Nat /\ Cardinality(Below(p)) < Cardinality(P)
  <2> SUFFICES ASSUME NEW p \in P
               PROVE  IsFiniteSet(Below(p)) /\ Cardinality(Below(p)) \in Nat /\ Cardinality(Below(p)) < Cardinality(P)
    OBVIOUS
  <2>1. Below(p) \in SUBSET P /\ p \notin Below(p)
    OBVIOUS
  <2> HIDE DEF Below
  <2>2. IsFiniteSet(Below(p)) /\ Cardinality(Below(p)) <= Cardinality(P) /\ Cardinality(P) # Cardinality(Below(p))
    BY <2>1, FS_Subset
  <2>3. Cardinality(Below(p)) \in Nat
    BY <2>2, FS_CardinalityType
  <2> QED  BY <1>0, <2>2, <2>3
<1>2. ASSUME NEW p \in P, NEW q \in P, <<p, q>> \in R PROVE Cardinality(Below(p)) < Cardinality(Below(q))
  <2>1. Below(p) \in SUBSET Below(q) /\ p \in Below(q) /\ p \notin Below(p)
    BY <1>2
  <2>2. IsFiniteSet(Below(q)) /\ Cardinality(Below(q)) \in Nat /\ Cardinality(Below(p)) \in Nat
    BY <1>1
  <2> HIDE DEF Below
  <2>3. Cardinality(Below(p)) <= Cardinality(Below(q)) /\ Cardinality(Below(q)) # Cardinality(Below(p))
    BY <2>1, <2>2, FS_Subset
  <2> QED  BY <2>2, <2>3
<1>3. f \in [P -> N]
  <2> HIDE DEF Below
  <2>1. \A p \in P : Cardinality(Below(p)) \in N
    BY <1>0, <1>1
  <2> HIDE DEF N
  <2> QED  BY <2>1
<1>4. \A p, q \in P : <<p, q>> \in R => f[p] < f[q]
  <2> HIDE DEF Below
  <2> QED  BY <1>2
<1>5. \A p, q \in P : <<p, q>> \in R <=> f[p] < f[q]
  <2>1. \A p \in P : f[p] \in Nat
    BY <1>1
  <2> SUFFICES ASSUME NEW p \in P, NEW q \in P, f[p] < f[q] PROVE <<p, q>> \in R
    BY <1>4
  <2> HIDE DEF f
  <2>2. f[p] \in Nat /\ f[q] \in Nat
    BY <2>1
  <2>3. p # q /\ <<q, p>> \notin R
    BY <1>4, <2>2
  <2> QED  BY <2>3
<1>6. f \in Injection(P, N)
  <2>1. \A p, q \in P : f[p] = f[q] => p = q
    <3>1. \A p \in P : f[p] \in Nat
      BY <1>1
    <3> SUFFICES ASSUME NEW p \in P, NEW q \in P, f[p] = f[q] PROVE p = q
      OBVIOUS
    <3> HIDE DEF f
    <3>2. <<p, q>> \notin R /\ <<q, p>> \notin R
      BY <1>4, <3>1
    <3> QED  BY <3>2
  <2> HIDE DEF f, N
  <2>2. DOMAIN f = P
    BY <1>3
  <2> QED  BY <1>3, <2>1, <2>2 DEF Injection, IsInjective
<1>7. IsFiniteSet(N) /\ Cardinality(N) = Cardinality(P)
  <2>1. Cardinality(P) - 1 \in Int /\ (0 > Cardinality(P) - 1 => Cardinality(P) = 0)
    BY <1>0
  <2> QED  BY <1>0, <2>1, FS_Interval
<1>8. f \in Bijection(P, N)
  <2> HIDE DEF f, N
  <2>1. f \in Surjection(P, N)
    BY <1>6, <1>7, FS_Injection
  <2> QED  BY <1>6, <2>1 DEF Bijection
<1>9. \A p \in P : f[p] = Cardinality(Below(p))
  OBVIOUS
<1> HIDE DEF f
<1> QED  BY <1>5, <1>8, <1>9


-----------------------------------------------------------------------------
(* Reversing and sorting *)

LEMMA Reordered ==
  ASSUME QInv, NEW t \in Seq(Nodes), Distinct(t), Lays(dHeap, Listed, dHeap', t), dList' = Entry(t, 1), QKept,
         \A i \in 1..Len(t) : dHeap'[t[i]].data = dHeap[t[i]].data
  PROVE  /\ QInv' /\ Seconds' = Seconds /\ Queued' = Queued
         /\ Firsts' = [i \in 1..Len(t) |-> dHeap[t[i]].data]
<1>1. Edit(dHeap, Listed, dHeap', dList', t)
  BY Laid
<1>2. QInv' /\ Firsts' = Datas(dHeap', t) /\ Seconds' = Seconds /\ Queued' = Queued
  BY <1>1, ListEdited
<1>3. Datas(dHeap', t) = [i \in 1..Len(t) |-> dHeap[t[i]].data]
  BY DEF Datas
<1> QED  BY <1>2, <1>3

LEMMA ReverseHolds ==
  ASSUME QInv, DReverse, QKept
  PROVE  QInv' /\ Seconds' = Seconds /\ Queued' = Queued /\ DLists!Reversed
<1> DEFINE s == Listed
           n == Len(s)
           t == [i \in 1..n |-> s[n - i + 1]]
           g == dHeap'
<1>1. /\ DProper(dHeap) /\ DAlong(dHeap, dList, s) /\ Proper(dHeap) /\ Along(dHeap, dList, s)
      /\ Firsts = Datas(dHeap, s) /\ Chain = Members(s) /\ Members(s) \subseteq DOMAIN dHeap
  BY Now DEF DAlong
<1>2. g = ReversedAll /\ dList' = LastOf(dHeap, dList) /\ LastOf(dHeap, dList) = Entry(s, n)
  BY ListEnds DEF DReverse, Becomes
<1> HIDE DEF s, g
<1>3. s \in Seq(Nodes) /\ n \in Nat /\ \A i, j \in 1..n : s[i] = s[j] => i = j
  BY <1>1 DEF Along
<1>4. \A i \in 1..n : n - i + 1 \in 1..n /\ n - (n - i + 1) + 1 = i
  BY <1>3
<1>5. t \in Seq(Nodes) /\ Len(t) = n /\ \A i \in 1..n : t[i] = s[n - i + 1]
  <2>1. \A i \in 1..n : s[n - i + 1] \in Nodes
    BY <1>3, <1>4
  <2> QED  BY <1>3, <2>1
<1> HIDE DEF t
<1>6. Distinct(t)
  <2> SUFFICES ASSUME NEW i \in 1..n, NEW j \in 1..n, t[i] = t[j] PROVE i = j
    BY <1>5 DEF Distinct
  <2>1. n - i + 1 = n - j + 1
    BY <1>3, <1>4, <1>5, ZenonT(60)
  <2> QED  BY <1>3, <2>1
<1>7. Members(t) = Members(s)
  <2>1. \A i \in 1..n : t[i] \in Members(s)
    BY <1>4, <1>5 DEF Members
  <2>2. ASSUME NEW i \in 1..n PROVE s[i] \in Members(t)
    <3>1. n - i + 1 \in 1..n /\ t[n - i + 1] = s[n - (n - i + 1) + 1]
      BY <1>4, <1>5
    <3> QED  BY <1>4, <1>5, <3>1 DEF Members
  <2>3. Members(t) \subseteq Members(s)
    BY <1>5, <2>1 DEF Members
  <2>4. Members(s) \subseteq Members(t)
    BY <2>2 DEF Members
  <2> QED  BY <2>3, <2>4
<1>8. DOMAIN g = DOMAIN dHeap
  BY <1>2 DEF ReversedAll
<1>9. ASSUME NEW m \in DOMAIN dHeap
      PROVE  /\ m \notin Members(s) => g[m] = dHeap[m]
             /\ m \in Members(s) => g[m] = [data |-> dHeap[m].data, prev |-> dHeap[m].next, next |-> dHeap[m].prev]
             /\ g[m] \in DCells
  <2>1. /\ dHeap[m] = [data |-> dHeap[m].data, prev |-> dHeap[m].prev, next |-> dHeap[m].next]
        /\ dHeap[m].data \in Data /\ dHeap[m].next \in Nodes \cup {None} /\ dHeap[m].prev \in Nodes \cup {None}
    BY <1>1, DProperIs
  <2>2. g[m] = IF m \in Members(s) THEN [dHeap[m] EXCEPT !.next = dHeap[m].prev, !.prev = dHeap[m].next] ELSE dHeap[m]
    BY <1>1, <1>2 DEF ReversedAll
  <2>3. [dHeap[m] EXCEPT !.next = dHeap[m].prev, !.prev = dHeap[m].next]
          = [data |-> dHeap[m].data, prev |-> dHeap[m].next, next |-> dHeap[m].prev]
    <3> DEFINE c == dHeap[m]
               d == c.data
               p == c.prev
               q == c.next
    <3>1. c = [data |-> d, prev |-> p, next |-> q]
      BY <2>1
    <3> HIDE DEF c, d, p, q
    <3>2. [c EXCEPT !.next = p] = [data |-> d, prev |-> p, next |-> p]
      BY <3>1
    <3>3. [[c EXCEPT !.next = p] EXCEPT !.prev = q] = [data |-> d, prev |-> q, next |-> p]
      <4> DEFINE b == [c EXCEPT !.next = p]
      <4>1. b = [data |-> d, prev |-> p, next |-> p]
        BY <3>2
      <4> HIDE DEF b
      <4>2. [b EXCEPT !.prev = q] = [data |-> d, prev |-> q, next |-> p]
        BY <4>1
      <4> QED  BY <4>2 DEF b
    <3>4. [c EXCEPT !.next = p, !.prev = q] = [[c EXCEPT !.next = p] EXCEPT !.prev = q]
      OBVIOUS
    <3> QED  BY <3>3, <3>4 DEF c, d, p, q
  <2>4. dHeap[m] \in DCells /\ [data |-> dHeap[m].data, prev |-> dHeap[m].next, next |-> dHeap[m].prev] \in DCells
    BY <2>1 DEF DCells
  <2> QED  BY <2>2, <2>3, <2>4
<1>10. ASSUME NEW i \in 1..n PROVE g[t[i]].next = Entry(t, i + 1) /\ g[t[i]].prev = Entry(t, i - 1)
                                   /\ g[t[i]].data = dHeap[t[i]].data
  <2> DEFINE j == n - i + 1
  <2>1. j \in 1..n /\ t[i] = s[j] /\ j - 1 = n - (i + 1) + 1 /\ j + 1 = n - (i - 1) + 1
        /\ (i + 1 \in 1..n <=> j - 1 \in 1..n) /\ (i - 1 \in 1..n <=> j + 1 \in 1..n)
    BY <1>3, <1>4, <1>5
  <2> HIDE DEF j
  <2>2. s[j] \in DOMAIN dHeap /\ s[j] \in Members(s) /\ dHeap[s[j]].next = Entry(s, j + 1) /\ dHeap[s[j]].prev = Entry(s, j - 1)
    BY <1>1, <2>1 DEF DAlong, Along, Members
  <2>3. g[t[i]].next = Entry(s, j - 1) /\ g[t[i]].prev = Entry(s, j + 1) /\ g[t[i]].data = dHeap[t[i]].data
    <3>1. g[s[j]] = [data |-> dHeap[s[j]].data, prev |-> dHeap[s[j]].next, next |-> dHeap[s[j]].prev]
      BY <1>9, <2>2
    <3> QED  BY <2>1, <2>2, <3>1
  <2>4. Entry(s, j - 1) = Entry(t, i + 1)
    <3>1. i + 1 \in 1..n => t[i + 1] = s[j - 1]
      BY <1>5, <2>1
    <3> QED  BY <1>5, <2>1, <3>1 DEF Entry
  <2>5. Entry(s, j + 1) = Entry(t, i - 1)
    <3>1. i - 1 \in 1..n => t[i - 1] = s[j + 1]
      BY <1>5, <2>1
    <3> QED  BY <1>5, <2>1, <3>1 DEF Entry
  <2> QED  BY <2>3, <2>4, <2>5
<1>11. Lays(dHeap, s, g, t)
  <2>1. DProper(g)
    BY <1>1, <1>8, <1>9 DEF DProper
  <2>2. DOMAIN g = (DOMAIN dHeap \ Members(s)) \cup Members(t)
    BY <1>1, <1>7, <1>8
  <2> QED  BY <1>5, <1>7, <1>9, <1>10, <2>1, <2>2 DEF Lays
<1>12. dList' = Entry(t, 1)
  <2>1. n - 1 + 1 = n /\ (1 \in 1..n <=> n \in 1..n)
    BY <1>3
  <2> QED  BY <1>2, <1>5, <2>1 DEF Entry
<1>13. /\ QInv' /\ Seconds' = Seconds /\ Queued' = Queued
       /\ Firsts' = [i \in 1..Len(t) |-> dHeap[t[i]].data]
  <2>1. Lays(dHeap, Listed, dHeap', t) /\ \A i \in 1..Len(t) : dHeap'[t[i]].data = dHeap[t[i]].data
    BY <1>5, <1>10, <1>11 DEF s, g
  <2> QED  BY <1>5, <1>6, <1>12, <2>1, Reordered
<1>14. Len(Firsts) = n /\ \A i \in 1..n : Firsts[i] = dHeap[s[i]].data
  BY <1>1, ListIs
<1>15. Firsts' = DLists!Reverse(Firsts)
  BY <1>4, <1>5, <1>13, <1>14, ZenonT(60) DEF DLists!Reverse
<1> QED  BY <1>13, <1>15 DEF DLists!Reversed, Firsts

\* t has the elements of s, smaller ones first and equal ones as they were.
Stable(h, s, t) ==
  /\ {t[i] : i \in DOMAIN t} = {s[i] : i \in DOMAIN s}
  /\ \A i, j \in DOMAIN t : i < j =>
       \/ Key[h[t[i]].data] < Key[h[t[j]].data]
       \/ /\ Key[h[t[i]].data] = Key[h[t[j]].data]
          /\ \E k, l \in DOMAIN s : k < l /\ s[k] = t[i] /\ s[l] = t[j]

LEMMA StableExists ==
  ASSUME NEW h, NEW s \in Seq(Nodes), \A i \in 1..Len(s) : h[s[i]].data \in Data
  PROVE  \E t \in [DOMAIN s -> {s[i] : i \in DOMAIN s}] : Stable(h, s, t)
<1> DEFINE n == Len(s)
           P == 1..n
           K == [i \in P |-> Key[h[s[i]].data]]
           R == {ij \in P \X P : K[ij[1]] < K[ij[2]] \/ (K[ij[1]] = K[ij[2]] /\ ij[1] < ij[2])}
<1>1. n \in Nat /\ DOMAIN s = P /\ IsFiniteSet(P) /\ Cardinality(P) = n
  <2>1. n \in Nat /\ DOMAIN s = P
    OBVIOUS
  <2>2. IsFiniteSet(1..n) /\ Cardinality(1..n) = n
    <3> HIDE DEF n
    <3> QED  BY <2>1, FS_Interval
  <2> QED  BY <2>1, <2>2
<1>2. \A i \in P : K[i] \in Int /\ K[i] = Key[h[s[i]].data] /\ i \in Int
  BY <1>1, ChainsAssumption
<1>3. \A i, j \in P : <<i, j>> \in R <=> K[i] < K[j] \/ (K[i] = K[j] /\ i < j)
  OBVIOUS
<1> HIDE DEF K, R, n
<1>4. /\ \A p \in P : <<p, p>> \notin R
      /\ \A p, q \in P : p = q \/ <<p, q>> \in R \/ <<q, p>> \in R
      /\ \A p, q, r \in P : <<p, q>> \in R /\ <<q, r>> \in R => <<p, r>> \in R
  <2> HIDE DEF P
  <2>1. \A p \in P : <<p, p>> \notin R
    BY <1>2, <1>3
  <2>2. ASSUME NEW p \in P, NEW q \in P PROVE p = q \/ <<p, q>> \in R \/ <<q, p>> \in R
    <3>1. K[p] < K[q] \/ K[p] = K[q] \/ K[q] < K[p]
      BY <1>2
    <3>2. p < q \/ p = q \/ q < p
      BY <1>2
    <3> HIDE DEF P
    <3>3. /\ <<p, q>> \in R <=> K[p] < K[q] \/ (K[p] = K[q] /\ p < q)
          /\ <<q, p>> \in R <=> K[q] < K[p] \/ (K[q] = K[p] /\ q < p)
      BY <1>3
    <3>4. CASE K[p] < K[q] \/ K[q] < K[p]
      BY <3>3, <3>4, Zenon
    <3>5. CASE K[p] = K[q] /\ K[q] = K[p]
      BY <3>2, <3>3, <3>5, Zenon
    <3> QED  BY <3>1, <3>4, <3>5
  <2>3. ASSUME NEW p \in P, NEW q \in P, NEW r \in P, <<p, q>> \in R, <<q, r>> \in R PROVE <<p, r>> \in R
    <3>1. (K[p] < K[q] \/ (K[p] = K[q] /\ p < q)) /\ (K[q] < K[r] \/ (K[q] = K[r] /\ q < r))
      BY <1>3, <2>3
    <3>2. K[p] < K[r] \/ (K[p] = K[r] /\ p < r)
      BY <1>2, <3>1
    <3> QED  BY <1>3, <3>2
  <2> QED  BY <2>1, <2>2, <2>3
<1>5. PICK f \in Bijection(P, 0..(n - 1)) : \A p, q \in P : <<p, q>> \in R <=> f[p] < f[q]
  <2> HIDE DEF P
  <2>1. PICK f \in Bijection(P, 0..(Cardinality(P) - 1)) :
          /\ \A p \in P : f[p] = Cardinality({q \in P : <<q, p>> \in R})
          /\ \A p, q \in P : <<p, q>> \in R <=> f[p] < f[q]
    <3> HIDE DEF P
    <3>1. \E f \in Bijection(P, 0..(Cardinality(P) - 1)) :
          /\ \A p \in P : f[p] = Cardinality({q \in P : <<q, p>> \in R})
          /\ \A p, q \in P : <<p, q>> \in R <=> f[p] < f[q]
      <4>1. IsFiniteSet(P)
        BY <1>1
      <4>2. \A p \in P : <<p, p>> \notin R
        BY <1>4
      <4>3. \A p, q \in P : p = q \/ <<p, q>> \in R \/ <<q, p>> \in R
        BY <1>4
      <4>4. \A p, q, r \in P : <<p, q>> \in R /\ <<q, r>> \in R => <<p, r>> \in R
        BY <1>4
      <4> QED  BY <4>1, <4>2, <4>3, <4>4, PlacesRanked
    <3> QED  BY <3>1
  <2> QED  BY <1>1, <2>1
<1>6. /\ f \in [P -> 0..(n - 1)] /\ \A p, q \in P : f[p] = f[q] => p = q
      /\ \A k \in 0..(n - 1) : \E p \in P : f[p] = k
  BY <1>5 DEF Bijection, Injection, Surjection, IsInjective
<1> DEFINE q == [k \in P |-> CHOOSE i \in P : f[i] = k - 1]
           t == [k \in P |-> s[q[k]]]
<1>7. \A k \in P : q[k] \in P /\ f[q[k]] = k - 1
  <2> SUFFICES ASSUME NEW k \in P PROVE q[k] \in P /\ f[q[k]] = k - 1
    OBVIOUS
  <2>1. k - 1 \in 0..(n - 1)
    BY <1>1
  <2>2. \E i \in P : f[i] = k - 1
    BY <1>6, <2>1
  <2> HIDE DEF P
  <2> QED  BY <2>2
<1> HIDE DEF q
<1>8. t \in [P -> {s[i] : i \in P}] /\ DOMAIN t = P /\ \A k \in P : t[k] = s[q[k]]
  BY <1>7
<1> HIDE DEF t
<1>9. {t[i] : i \in P} = {s[i] : i \in P}
  <2>1. ASSUME NEW i \in P PROVE \E k \in P : s[i] = t[k]
    <3>1. f[i] + 1 \in P /\ (f[i] + 1) - 1 = f[i]
      BY <1>1, <1>6
    <3>2. q[f[i] + 1] = i
      BY <1>6, <1>7, <3>1
    <3> QED  BY <1>8, <3>1, <3>2
  <2> HIDE DEF P
  <2>2. ASSUME NEW k \in P PROVE \E i \in P : t[k] = s[i]
    <3>1. q[k] \in P /\ t[k] = s[q[k]]
      BY <1>7, <1>8, <2>2
    <3> QED  BY <3>1, Zenon
  <2>3. {t[i] : i \in P} \subseteq {s[i] : i \in P}
    BY <2>2, Zenon
  <2>4. {s[i] : i \in P} \subseteq {t[i] : i \in P}
    BY <2>1, Zenon
  <2> QED  BY <2>3, <2>4, Zenon
<1>10. ASSUME NEW i \in P, NEW j \in P, i < j
       PROVE  \/ Key[h[t[i]].data] < Key[h[t[j]].data]
              \/ /\ Key[h[t[i]].data] = Key[h[t[j]].data]
                 /\ \E k, l \in P : k < l /\ s[k] = t[i] /\ s[l] = t[j]
  <2>1. f[q[i]] < f[q[j]] /\ q[i] \in P /\ q[j] \in P
    BY <1>1, <1>7, <1>10
  <2>2. <<q[i], q[j]>> \in R
    BY <1>5, <2>1
  <2>3. K[q[i]] < K[q[j]] \/ (K[q[i]] = K[q[j]] /\ q[i] < q[j])
    BY <1>3, <2>1, <2>2
  <2>4. K[q[i]] = Key[h[t[i]].data] /\ K[q[j]] = Key[h[t[j]].data]
    BY <1>2, <1>8, <2>1
  <2> QED  BY <1>8, <2>1, <2>3, <2>4
<1> HIDE DEF P
<1>11. Stable(h, s, t)
  <2>1. DOMAIN s = P /\ DOMAIN t = P
    BY <1>1, <1>8
  <2>2. {t[i] : i \in DOMAIN t} = {s[i] : i \in DOMAIN s}
    BY <1>9, <2>1
  <2>3. ASSUME NEW i \in DOMAIN t, NEW j \in DOMAIN t, i < j
        PROVE  \/ Key[h[t[i]].data] < Key[h[t[j]].data]
               \/ /\ Key[h[t[i]].data] = Key[h[t[j]].data]
                  /\ \E k, l \in DOMAIN s : k < l /\ s[k] = t[i] /\ s[l] = t[j]
    BY <1>10, <2>1, <2>3
  <2> QED  BY <2>2, <2>3, Zenon DEF Stable
<1> QED  BY <1>1, <1>8, <1>11

\* p numbers the elements of s in the order of t, and t is stable.
Sorts(h, s, t, p) ==
  /\ p \in [1..Len(s) -> 1..Len(s)] /\ \A i \in 1..Len(s) : t[i] = s[p[i]]
  /\ \A i, j \in 1..Len(s) : i < j =>
       \/ Key[h[s[p[i]]].data] < Key[h[s[p[j]]].data]
       \/ Key[h[s[p[i]]].data] = Key[h[s[p[j]]].data] /\ p[i] < p[j]

LEMMA StableIs ==
  ASSUME NEW h, NEW s \in Seq(Nodes), Distinct(s), \A i \in 1..Len(s) : h[s[i]].data \in Data,
         NEW t, t = StableOrder(h, s)
  PROVE  /\ t \in Seq(Nodes) /\ Len(t) = Len(s) /\ Distinct(t) /\ Members(t) = Members(s)
         /\ \E p : Sorts(h, s, t, p)
<1> DEFINE n == Len(s)
<1>1. n \in Nat /\ DOMAIN s = 1..n /\ {s[i] : i \in DOMAIN s} = Members(s) /\ Members(s) \subseteq Nodes
  BY DEF Members
<1>2. t \in [DOMAIN s -> {s[i] : i \in DOMAIN s}] /\ Stable(h, s, t)
  <2>1. t = CHOOSE u \in [DOMAIN s -> {s[i] : i \in DOMAIN s}] : Stable(h, s, u)
    BY Zenon DEF StableOrder, Stable
  <2>2. \E u \in [DOMAIN s -> {s[i] : i \in DOMAIN s}] : Stable(h, s, u)
    BY StableExists
  <2> QED  BY <2>1, <2>2, Zenon
<1>3. t \in [1..n -> Members(s)] /\ DOMAIN t = 1..n
  <2> HIDE DEF n
  <2> QED  BY <1>1, <1>2
<1>4. t \in Seq(Nodes) /\ Len(t) = n
  <2> HIDE DEF n
  <2>1. t \in [1..n -> Nodes]
    BY <1>1, <1>3
  <2> QED  BY <1>1, <2>1
<1> HIDE DEF n
<1>5. Members(t) = Members(s)
  <2>1. {t[i] : i \in DOMAIN t} = Members(t)
    BY <1>3, <1>4 DEF Members
  <2>2. {t[i] : i \in DOMAIN t} = {s[i] : i \in DOMAIN s}
    BY <1>2 DEF Stable
  <2> QED  BY <1>1, <2>1, <2>2
<1>6. \A k, l \in 1..n : s[k] = s[l] => k = l
  BY DEF Distinct, n
<1>7. ASSUME NEW i \in 1..n, NEW j \in 1..n, i < j
      PROVE  \/ Key[h[t[i]].data] < Key[h[t[j]].data]
             \/ /\ Key[h[t[i]].data] = Key[h[t[j]].data]
                /\ \E k, l \in 1..n : k < l /\ s[k] = t[i] /\ s[l] = t[j]
  <2>1. i \in DOMAIN t /\ j \in DOMAIN t /\ DOMAIN s = 1..n
    BY <1>1, <1>3
  <2>2. \/ Key[h[t[i]].data] < Key[h[t[j]].data]
        \/ /\ Key[h[t[i]].data] = Key[h[t[j]].data]
           /\ \E k, l \in DOMAIN s : k < l /\ s[k] = t[i] /\ s[l] = t[j]
    BY <1>2, <1>7, <2>1, Zenon DEF Stable
  <2> QED  BY <2>1, <2>2, Zenon
<1>8. \A i \in 1..n : t[i] \in Members(s) /\ Key[h[t[i]].data] \in Int
  <2>1. \A m \in Members(s) : h[m].data \in Data
    BY DEF Members
  <2> QED  BY <1>3, <2>1, ChainsAssumption
<1>9. Distinct(t)
  <2>1. ASSUME NEW i \in 1..n, NEW j \in 1..n, t[i] = t[j], i < j PROVE FALSE
    <3>1. Key[h[t[i]].data] = Key[h[t[j]].data] /\ ~(Key[h[t[i]].data] < Key[h[t[j]].data])
      BY <1>8, <2>1
    <3>2. PICK k, l \in 1..n : k < l /\ s[k] = t[i] /\ s[l] = t[j]
      BY <1>7, <2>1, <3>1
    <3>3. k = l
      BY <1>6, <2>1, <3>2
    <3> QED  BY <1>1, <3>2, <3>3
  <2> SUFFICES ASSUME NEW i \in 1..n, NEW j \in 1..n, t[i] = t[j] PROVE i = j
    BY <1>4 DEF Distinct
  <2>2. i < j \/ i = j \/ j < i
    BY <1>1
  <2> QED  BY <2>1, <2>2
<1>10. \E p : Sorts(h, s, t, p)
  <2> DEFINE p == [i \in 1..n |-> CHOOSE k \in 1..n : s[k] = t[i]]
  <2>1. \A i \in 1..n : p[i] \in 1..n /\ s[p[i]] = t[i]
    <3> SUFFICES ASSUME NEW i \in 1..n PROVE p[i] \in 1..n /\ s[p[i]] = t[i]
      OBVIOUS
    <3>1. \E k \in 1..n : s[k] = t[i]
      BY <1>8 DEF Members, n
    <3> QED  BY <3>1
  <2>2. p \in [1..n -> 1..n]
    <3>1. p = [i \in 1..n |-> p[i]]
      OBVIOUS
    <3> HIDE DEF p
    <3> QED  BY <2>1, <3>1
  <2> HIDE DEF p
  <2>3. ASSUME NEW i \in 1..n, NEW j \in 1..n, i < j
        PROVE  \/ Key[h[s[p[i]]].data] < Key[h[s[p[j]]].data]
               \/ Key[h[s[p[i]]].data] = Key[h[s[p[j]]].data] /\ p[i] < p[j]
    <3>1. s[p[i]] = t[i] /\ s[p[j]] = t[j]
      BY <2>1
    <3>2. CASE Key[h[t[i]].data] < Key[h[t[j]].data]
      BY <3>1, <3>2
    <3>3. CASE ~(Key[h[t[i]].data] < Key[h[t[j]].data])
      <4>1. PICK k, l \in 1..n : k < l /\ s[k] = t[i] /\ s[l] = t[j]
        BY <1>7, <2>3, <3>3
      <4>2. k = p[i] /\ l = p[j]
        BY <1>6, <2>1, <4>1
      <4>3. Key[h[t[i]].data] = Key[h[t[j]].data]
        BY <1>7, <2>3, <3>3
      <4> QED  BY <3>1, <4>1, <4>2, <4>3
    <3> QED  BY <3>2, <3>3
  <2>4. \A i \in 1..n : t[i] = s[p[i]]
    BY <2>1
  <2>5. Sorts(h, s, t, p)
    BY <2>2, <2>3, <2>4 DEF Sorts, n
  <2> QED  BY <2>5
<1> QED  BY <1>4, <1>5, <1>9, <1>10 DEF n

LEMMA SortHolds ==
  ASSUME QInv, DSort, QKept
  PROVE  QInv' /\ Seconds' = Seconds /\ Queued' = Queued /\ DLists!SortedStably
<1> DEFINE s == Listed
           n == Len(s)
           t == StableOrder(dHeap, s)
           g == dHeap'
           Place(m) == CHOOSE i \in DOMAIN t : t[i] = m
<1>1. /\ DProper(dHeap) /\ DAlong(dHeap, dList, s) /\ Proper(dHeap) /\ Along(dHeap, dList, s)
      /\ Firsts = Datas(dHeap, s) /\ Chain = Members(s) /\ Members(s) \subseteq DOMAIN dHeap
  BY Now DEF DAlong
<1>2. /\ Len(t) > 1
      /\ g = [m \in DOMAIN dHeap |->
                IF m \notin Chain THEN dHeap[m]
                ELSE [dHeap[m] EXCEPT
                        !.next = IF Place(m) = Len(t) THEN None ELSE t[Place(m) + 1],
                        !.prev = IF Place(m) = 1 THEN None ELSE t[Place(m) - 1]]]
      /\ dList' = t[1]
  BY Zenon DEF DSort, Becomes, Listed
<1> HIDE DEF s, g
<1>3. s \in Seq(Nodes) /\ n \in Nat /\ Distinct(s) /\ \A i \in 1..n : s[i] \in DOMAIN dHeap
  BY <1>1 DEF Along, Distinct
<1>4. \A i \in 1..n : dHeap[s[i]].data \in Data
  BY <1>1, <1>3, DProperIs
<1> DEFINE tt == t
<1>5. /\ tt \in Seq(Nodes) /\ Len(tt) = n /\ Distinct(tt) /\ Members(tt) = Members(s)
      /\ \E p : Sorts(dHeap, s, tt, p)
  <2>1. tt = StableOrder(dHeap, s)
    OBVIOUS
  <2> HIDE DEF tt
  <2> QED  BY <1>3, <1>4, <2>1, StableIs
<1>6. t \in Seq(Nodes) /\ Len(t) = n /\ Distinct(t) /\ Members(t) = Members(s) /\ DOMAIN t = 1..n
  BY <1>5
<1>7. PICK p : Sorts(dHeap, s, t, p)
  BY <1>5
<1> HIDE DEF t, tt, n
<1>8. \A i \in 1..n : Place(t[i]) = i
  <2> SUFFICES ASSUME NEW i \in 1..n PROVE Place(t[i]) = i
    OBVIOUS
  <2>1. \A j \in DOMAIN t : t[j] = t[i] <=> j = i
    BY <1>6 DEF Distinct
  <2> QED  BY <1>6, <2>1
<1> HIDE DEF Place
<1>9. ASSUME NEW i \in 1..n
      PROVE  g[t[i]] = [data |-> dHeap[t[i]].data, prev |-> Entry(t, i - 1), next |-> Entry(t, i + 1)]
  <2> DEFINE m == t[i]
             a == IF i = n THEN None ELSE t[i + 1]
             b == IF i = 1 THEN None ELSE t[i - 1]
  <2>1. m \in Members(s) /\ m \in DOMAIN dHeap
    <3>1. m \in Members(t)
      BY <1>6 DEF Members
    <3> QED  BY <1>1, <1>6, <3>1
  <2>2. Place(m) = i
    BY <1>8
  <2>3. a = Entry(t, i + 1)
    <3>1. n \in Nat /\ (i + 1 \in 1..n <=> i # n)
      BY <1>3
    <3> QED  BY <1>6, <3>1 DEF Entry
  <2>4. b = Entry(t, i - 1)
    <3>1. n \in Nat /\ (i - 1 \in 1..n <=> i # 1)
      BY <1>3
    <3> QED  BY <1>6, <3>1 DEF Entry
  <2>5. dHeap[m] = [data |-> dHeap[m].data, prev |-> dHeap[m].prev, next |-> dHeap[m].next]
    BY <1>1, <2>1, DProperIs
  <2> HIDE DEF m
  <2>6. g[m] = [dHeap[m] EXCEPT !.next = a, !.prev = b]
    BY <1>1, <1>2, <1>6, <2>1, <2>2
  <2> HIDE DEF a, b
  <2> DEFINE c == [dHeap[m] EXCEPT !.next = a]
  <2>7. c = [data |-> dHeap[m].data, prev |-> dHeap[m].prev, next |-> a]
    BY <2>5
  <2>8. g[m] = [c EXCEPT !.prev = b]
    BY <2>6
  <2> HIDE DEF c
  <2>9. g[m] = [data |-> dHeap[m].data, prev |-> b, next |-> a]
    BY <2>7, <2>8
  <2> QED  BY <2>3, <2>4, <2>9 DEF m
<1>10. DOMAIN g = DOMAIN dHeap /\ \A m \in DOMAIN dHeap : m \notin Members(s) => g[m] = dHeap[m]
  BY <1>1, <1>2
<1>11. \A i \in 1..n : g[t[i]].data = dHeap[t[i]].data /\ g[t[i]].next = Entry(t, i + 1) /\ g[t[i]].prev = Entry(t, i - 1)
  <2> SUFFICES ASSUME NEW i \in 1..n
               PROVE  g[t[i]].data = dHeap[t[i]].data /\ g[t[i]].next = Entry(t, i + 1) /\ g[t[i]].prev = Entry(t, i - 1)
    OBVIOUS
  <2>1. g[t[i]] = [data |-> dHeap[t[i]].data, prev |-> Entry(t, i - 1), next |-> Entry(t, i + 1)]
    BY <1>9
  <2> QED  BY <2>1
<1>12. DProper(g)
  <2> SUFFICES ASSUME NEW m \in DOMAIN g PROVE g[m] \in DCells
    BY <1>1, <1>10 DEF DProper
  <2>1. CASE m \notin Members(s)
    BY <1>1, <1>10, <2>1 DEF DProper
  <2>2. CASE m \in Members(s)
    <3>1. PICK i \in 1..n : m = t[i]
      BY <1>6, <2>2 DEF Members
    <3>2. dHeap[m].data \in Data
      BY <1>1, <1>10, DProperIs
    <3>3. Entry(t, i - 1) \in Nodes \cup {None} /\ Entry(t, i + 1) \in Nodes \cup {None}
      BY <1>6 DEF Entry
    <3>4. g[m] = [data |-> dHeap[m].data, prev |-> Entry(t, i - 1), next |-> Entry(t, i + 1)]
      BY <1>9, <3>1
    <3> DEFINE a == Entry(t, i - 1)
               b == Entry(t, i + 1)
    <3> HIDE DEF a, b
    <3>5. g[m] = [data |-> dHeap[m].data, prev |-> a, next |-> b] /\ a \in Nodes \cup {None} /\ b \in Nodes \cup {None}
      BY <3>3, <3>4 DEF a, b
    <3> QED  BY <3>2, <3>5 DEF DCells
  <2> QED  BY <2>1, <2>2
<1>13. Lays(dHeap, s, g, t)
  <2>1. DOMAIN g = (DOMAIN dHeap \ Members(s)) \cup Members(t)
    BY <1>1, <1>6, <1>10
  <2> QED  BY <1>6, <1>10, <1>11, <1>12, <2>1 DEF Lays
<1>14. dList' = Entry(t, 1)
  <2>1. 1 \in 1..n
    <3>1. Len(t) > 1
      BY <1>2
    <3>2. n \in Nat /\ Len(t) = n
      BY <1>3, <1>6
    <3> QED  BY <3>1, <3>2
  <2> QED  BY <1>2, <1>6, <2>1 DEF Entry
<1>15. /\ QInv' /\ Seconds' = Seconds /\ Queued' = Queued
       /\ Firsts' = [i \in 1..Len(t) |-> dHeap[t[i]].data]
  <2>1. Lays(dHeap, Listed, dHeap', t) /\ \A i \in 1..Len(t) : dHeap'[t[i]].data = dHeap[t[i]].data
    BY <1>6, <1>11, <1>13 DEF s, g
  <2> QED  BY <1>6, <1>14, <2>1, Reordered
<1>16. DOMAIN Firsts = 1..n /\ \A i \in 1..n : Firsts[i] = dHeap[s[i]].data
  BY <1>1, ListIs DEF n
<1>17. p \in [1..n -> 1..n] /\ \A i \in 1..n : t[i] = s[p[i]]
  BY <1>7 DEF Sorts, n
<1>18. Firsts' = [i \in DOMAIN Firsts |-> Firsts[p[i]]]
  BY <1>6, <1>15, <1>16, <1>17
<1>19. ASSUME NEW i \in DOMAIN p, NEW j \in DOMAIN p, i < j
       PROVE  \/ Key[Firsts[p[i]]] < Key[Firsts[p[j]]]
              \/ Key[Firsts[p[i]]] = Key[Firsts[p[j]]] /\ p[i] < p[j]
  <2>1. i \in 1..n /\ j \in 1..n
    BY <1>17
  <2>2. p[i] \in 1..n /\ p[j] \in 1..n
    BY <1>17, <2>1
  <2>3. \/ Key[dHeap[s[p[i]]].data] < Key[dHeap[s[p[j]]].data]
        \/ Key[dHeap[s[p[i]]].data] = Key[dHeap[s[p[j]]].data] /\ p[i] < p[j]
    BY <1>7, <1>19, <2>1 DEF Sorts, n
  <2> QED  BY <1>16, <2>2, <2>3
<1>20. DLists!SortedStably
  <2>1. p \in [DOMAIN Firsts -> DOMAIN Firsts]
    BY <1>16, <1>17
  <2> QED  BY <1>18, <1>19, <2>1 DEF DLists!SortedStably, Firsts
<1> QED  BY <1>15, <1>20

-----------------------------------------------------------------------------
(* Joining and copying *)

\* Two chains with no node in common, one after the other.
LEMMA ChainsMeet ==
  ASSUME NEW a \in Seq(Nodes), NEW b \in Seq(Nodes), Distinct(a), Distinct(b), Members(a) \cap Members(b) = {},
         NEW t, t = a \o b
  PROVE  /\ t \in Seq(Nodes) /\ Len(t) = Len(a) + Len(b) /\ Distinct(t) /\ Members(t) = Members(a) \cup Members(b)
         /\ Len(a) \in Nat /\ Len(b) \in Nat
         /\ \A i \in 1..Len(a) : t[i] = a[i] /\ i \in 1..Len(t)
         /\ \A i \in 1..Len(b) : t[Len(a) + i] = b[i] /\ Len(a) + i \in 1..Len(t)
         /\ \A i \in 1..Len(t) : i \in 1..Len(a) \/ i - Len(a) \in 1..Len(b)
<1> DEFINE n == Len(a)
           l == Len(b)
<1>1. n \in Nat /\ l \in Nat /\ t \in Seq(Nodes) /\ Len(t) = n + l
      /\ \A i \in 1..(n + l) : t[i] = IF i <= n THEN a[i] ELSE b[i - n]
  BY JoinIs
<1> HIDE DEF n, l
<1>2. \A i \in 1..n : t[i] = a[i] /\ i \in 1..Len(t)
  BY <1>1
<1>3. \A i \in 1..l : t[n + i] = b[i] /\ n + i \in 1..Len(t)
  <2> SUFFICES ASSUME NEW i \in 1..l PROVE t[n + i] = b[i] /\ n + i \in 1..Len(t)
    OBVIOUS
  <2>1. n + i \in 1..(n + l) /\ ~(n + i <= n) /\ (n + i) - n = i
    BY <1>1
  <2> QED  BY <1>1, <2>1
<1>4. \A i \in 1..Len(t) : i \in 1..n \/ i - n \in 1..l
  BY <1>1
<1>5. \A i \in 1..Len(t) : i \in 1..n \/ (i - n \in 1..l /\ t[i] = b[i - n] /\ i = n + (i - n))
  <2> SUFFICES ASSUME NEW i \in 1..Len(t), i \notin 1..n
               PROVE  i - n \in 1..l /\ t[i] = b[i - n] /\ i = n + (i - n)
    OBVIOUS
  <2>1. i - n \in 1..l /\ i \in 1..(n + l) /\ ~(i <= n) /\ i = n + (i - n)
    BY <1>1
  <2> QED  BY <1>1, <2>1
<1>6. Members(t) = Members(a) \cup Members(b)
  <2>1. \A i \in 1..Len(t) : t[i] \in Members(a) \cup Members(b)
    BY <1>2, <1>5 DEF Members, n, l
  <2>2. \A i \in 1..n : a[i] \in Members(t)
    BY <1>2 DEF Members
  <2>3. \A i \in 1..l : b[i] \in Members(t)
    BY <1>3 DEF Members
  <2>4. Members(t) \subseteq Members(a) \cup Members(b)
    BY <2>1 DEF Members
  <2>5. Members(a) \subseteq Members(t) /\ Members(b) \subseteq Members(t)
    BY <2>2, <2>3 DEF Members, n, l
  <2> QED  BY <2>4, <2>5
<1>7. Distinct(t)
  <2> SUFFICES ASSUME NEW i \in 1..Len(t), NEW j \in 1..Len(t), t[i] = t[j] PROVE i = j
    BY DEF Distinct
  <2>1. \A k \in 1..n : a[k] \in Members(a)
    BY DEF Members, n
  <2>2. \A k \in 1..l : b[k] \in Members(b)
    BY DEF Members, l
  <2>3. \A k \in 1..n, m \in 1..l : a[k] # b[m]
    BY <2>1, <2>2
  <2>4. CASE i \in 1..n /\ j \in 1..n
    BY <1>2, <2>4 DEF Distinct, n
  <2>5. CASE i \notin 1..n /\ j \notin 1..n
    <3>1. i - n = j - n
      <4>1. \A x, y \in 1..l : b[x] = b[y] => x = y
        BY DEF Distinct, l
      <4>2. i - n \in 1..l /\ j - n \in 1..l /\ b[i - n] = b[j - n]
        BY <1>5, <2>5
      <4> QED  BY <4>1, <4>2
    <3> QED  BY <1>5, <2>5, <3>1
  <2>6. CASE i \in 1..n /\ j \notin 1..n
    BY <1>2, <1>5, <2>3, <2>6
  <2>7. CASE i \notin 1..n /\ j \in 1..n
    BY <1>2, <1>5, <2>3, <2>7
  <2> QED  BY <2>4, <2>5, <2>6, <2>7
<1> QED  BY <1>1, <1>2, <1>3, <1>4, <1>6, <1>7 DEF n, l

LEMMA Queues ==
  ASSUME QInv
  PROVE  /\ Spared \in Seq(Nodes) /\ Len(Spared) \in Nat /\ dSpare = Entry(Spared, 1) /\ Distinct(Spared)
         /\ (dSpare = None <=> Len(Spared) = 0) /\ Listed \in Seq(Nodes) /\ Distinct(Listed)
         /\ Len(Firsts) = Len(Listed) /\ Firsts \in Seq(Data) /\ Len(Seconds) = Len(Spared) /\ Seconds \in Seq(Data)
         /\ \A i \in 1..Len(Listed) : Firsts[i] = dHeap[Listed[i]].data
         /\ \A i \in 1..Len(Spared) : Seconds[i] = dHeap[Spared[i]].data
<1>1. /\ Proper(dHeap) /\ Along(dHeap, dSpare, Spared) /\ Along(dHeap, dList, Listed)
      /\ Firsts = Datas(dHeap, Listed) /\ Seconds = Datas(dHeap, Spared)
  BY Now DEF DAlong
<1>2. Spared \in Seq(Nodes) /\ Len(Spared) \in Nat /\ dSpare = Entry(Spared, 1) /\ Distinct(Spared)
  BY <1>1 DEF Along, Distinct
<1>3. Listed \in Seq(Nodes) /\ Distinct(Listed)
  BY <1>1 DEF Along, Distinct
<1>4. dSpare = None <=> Len(Spared) = 0
  <2>1. dSpare = None <=> Spared = << >>
    BY <1>1, ListIs
  <2> QED  BY <1>2, <2>1
<1>5. Len(Firsts) = Len(Listed) /\ Firsts \in Seq(Data) /\ \A i \in 1..Len(Listed) : Firsts[i] = dHeap[Listed[i]].data
  BY <1>1, ListIs
<1>6. Len(Seconds) = Len(Spared) /\ Seconds \in Seq(Data) /\ \A i \in 1..Len(Spared) : Seconds[i] = dHeap[Spared[i]].data
  BY <1>1, ListIs
<1> QED  BY <1>2, <1>3, <1>4, <1>5, <1>6

\* g_list_concat
LEMMA ConcatHolds ==
  ASSUME QInv, DConcat, UNCHANGED <<qHead, qTail, qLength>>
  PROVE  QInv' /\ Queued' = Queued /\ DLists!Joined
<1> DEFINE a == Listed
           b == Spared
           t == a \o b
           end == LastOf(dHeap, dList)
           g == dHeap'
<1>1. /\ Three(dHeap, dList, a, dSpare, b, qHead, InQueue) /\ DProper(dHeap)
      /\ DAlong(dHeap, dList, a) /\ DAlong(dHeap, dSpare, b) /\ DAlong(dHeap, qHead, InQueue)
  BY Now
<1>2. /\ dSpare # None
      /\ g = IF dList = None THEN dHeap ELSE [dHeap EXCEPT ![end].next = dSpare, ![dSpare].prev = end]
      /\ dList' = IF dList = None THEN dSpare ELSE dList
      /\ dSpare' = None
  BY DEF DConcat
<1>3. /\ a \in Seq(Nodes) /\ Distinct(a) /\ b \in Seq(Nodes) /\ Distinct(b) /\ Len(a) \in Nat /\ Len(b) \in Nat
      /\ dList = Entry(a, 1) /\ dSpare = Entry(b, 1) /\ end = Entry(a, Len(a))
      /\ (dList = None <=> Len(a) = 0) /\ Len(b) # 0
  BY <1>2, ListEnds, Queues
<1>4. Members(a) \cap Members(b) = {}
  BY <1>1 DEF Three
<1> HIDE DEF a, b, g, end
<1> DEFINE n == Len(a)
           l == Len(b)
<1>5. /\ t \in Seq(Nodes) /\ Len(t) = n + l /\ Distinct(t) /\ Members(t) = Members(a) \cup Members(b)
      /\ n \in Nat /\ l \in Nat
      /\ \A i \in 1..n : t[i] = a[i] /\ i \in 1..Len(t)
      /\ \A i \in 1..l : t[n + i] = b[i] /\ n + i \in 1..Len(t)
      /\ \A i \in 1..Len(t) : i \in 1..n \/ i - n \in 1..l
  BY <1>3, <1>4, ChainsMeet
<1> HIDE DEF t, n, l
<1>6. /\ \A i \in 1..n : /\ a[i] \in DOMAIN dHeap /\ dHeap[a[i]].next = Entry(a, i + 1) /\ dHeap[a[i]].prev = Entry(a, i - 1)
                         /\ a[i] \in Members(a)
      /\ \A i \in 1..l : /\ b[i] \in DOMAIN dHeap /\ dHeap[b[i]].next = Entry(b, i + 1) /\ dHeap[b[i]].prev = Entry(b, i - 1)
                         /\ b[i] \in Members(b)
  BY <1>1 DEF DAlong, Along, Members, n, l
<1>7. ASSUME dList # None
      PROVE  /\ n \in 1..n /\ 1 \in 1..l /\ end = a[n] /\ dSpare = b[1] /\ end # dSpare
             /\ end \in DOMAIN dHeap /\ dSpare \in DOMAIN dHeap
  <2>1. n \in 1..n /\ 1 \in 1..l
    BY <1>3, <1>7 DEF n, l
  <2>2. end = a[n] /\ dSpare = b[1]
    BY <1>3, <2>1 DEF Entry, n, l
  <2> QED  BY <1>4, <1>6, <2>1, <2>2
<1>8. DOMAIN g = DOMAIN dHeap
  BY <1>2
<1>9. ASSUME dList # None, NEW m \in DOMAIN dHeap
      PROVE  /\ g[m].data = dHeap[m].data
             /\ g[m].next = IF m = end THEN dSpare ELSE dHeap[m].next
             /\ g[m].prev = IF m = dSpare THEN end ELSE dHeap[m].prev
             /\ (m # end /\ m # dSpare => g[m] = dHeap[m])
             /\ g[m] \in DCells
  <2>1. g[m] = IF m = dSpare THEN [dHeap[m] EXCEPT !.prev = end]
               ELSE IF m = end THEN [dHeap[m] EXCEPT !.next = dSpare] ELSE dHeap[m]
    BY <1>2, <1>7, <1>9
  <2>2. /\ dHeap[m] = [data |-> dHeap[m].data, prev |-> dHeap[m].prev, next |-> dHeap[m].next]
        /\ dHeap[m].data \in Data /\ dHeap[m].next \in Nodes \cup {None} /\ dHeap[m].prev \in Nodes \cup {None}
    BY <1>1, DProperIs
  <2>3. end \in Nodes /\ dSpare \in Nodes
    BY <1>1, <1>7, <1>9 DEF DProper
  <2>4. [dHeap[m] EXCEPT !.prev = end] = [data |-> dHeap[m].data, prev |-> end, next |-> dHeap[m].next]
    BY <2>2
  <2>5. [dHeap[m] EXCEPT !.next = dSpare] = [data |-> dHeap[m].data, prev |-> dHeap[m].prev, next |-> dSpare]
    BY <2>2
  <2>6. g[m] = [data |-> dHeap[m].data, prev |-> IF m = dSpare THEN end ELSE dHeap[m].prev,
                next |-> IF m = end THEN dSpare ELSE dHeap[m].next]
    BY <1>7, <1>9, <2>1, <2>2, <2>4, <2>5
  <2>7. g[m] \in DCells
    BY <2>2, <2>3, <2>6 DEF DCells
  <2> HIDE DEF DCells
  <2>8. m # end /\ m # dSpare => g[m] = dHeap[m]
    BY <2>1
  <2> QED  BY <2>6, <2>7, <2>8
<1>10. \A m \in DOMAIN dHeap : g[m].data = dHeap[m].data
  BY <1>2, <1>9
<1>11. DProper(g)
  <2>1. CASE dList = None
    BY <1>1, <1>2, <2>1
  <2>2. CASE dList # None
    BY <1>1, <1>8, <1>9, <2>2 DEF DProper
  <2> QED  BY <2>1, <2>2
<1>12. DAlong(g, dList', t)
  <2>1. CASE dList = None
    <3>1. n = 0 /\ a = << >>
      BY <1>3, <2>1 DEF n
    <3>2. t = b
      BY <1>3, <3>1 DEF t
    <3> QED  BY <1>1, <1>2, <2>1, <3>2
  <2>2. CASE dList # None
    <3>1. n \in 1..n /\ 1 \in 1..l /\ end = a[n] /\ dSpare = b[1]
      BY <1>7, <2>2
    <3>2. \A i \in 1..n : a[i] = end <=> i = n
      BY <1>3, <3>1 DEF Distinct, n
    <3>3. \A i \in 1..l : b[i] = dSpare <=> i = 1
      BY <1>3, <3>1 DEF Distinct, l
    <3>4. (\A i \in 1..n : a[i] # dSpare) /\ (\A i \in 1..l : b[i] # end)
      BY <1>4, <1>6, <3>1
    <3>5. \A i \in 1..n : Entry(t, i) = a[i] /\ Entry(a, i) = a[i]
      BY <1>5 DEF Entry, n
    <3>6. \A i \in 1..l : Entry(t, n + i) = b[i] /\ Entry(b, i) = b[i]
      BY <1>5 DEF Entry, l
    <3>7. Entry(t, 0) = None /\ Entry(t, n + l + 1) = None /\ Entry(a, 0) = None /\ Entry(b, l + 1) = None
      <4>1. 0 \notin 1..Len(t) /\ n + l + 1 \notin 1..Len(t) /\ 0 \notin 1..n /\ l + 1 \notin 1..l
        BY <1>5
      <4> QED  BY <4>1 DEF Entry, n, l
    <3>8. ASSUME NEW i \in 1..n PROVE g[a[i]].next = Entry(t, i + 1) /\ g[a[i]].prev = Entry(t, i - 1)
      <4>1. g[a[i]].next = (IF i = n THEN b[1] ELSE Entry(a, i + 1)) /\ g[a[i]].prev = Entry(a, i - 1)
        BY <1>6, <1>9, <2>2, <3>1, <3>2, <3>4
      <4>2. i # n => i + 1 \in 1..n
        BY <1>5
      <4>3. i # 1 => i - 1 \in 1..n
        BY <1>5
      <4>4. i = 1 => i - 1 = 0
        OBVIOUS
      <4>5. g[a[i]].next = Entry(t, i + 1)
        BY <3>1, <3>5, <3>6, <4>1, <4>2
      <4>6. g[a[i]].prev = Entry(t, i - 1)
        BY <3>5, <3>7, <4>1, <4>3, <4>4
      <4> QED  BY <4>5, <4>6
    <3>9. ASSUME NEW i \in 1..l PROVE g[b[i]].next = Entry(t, n + i + 1) /\ g[b[i]].prev = Entry(t, n + i - 1)
      <4>1. g[b[i]].next = Entry(b, i + 1) /\ g[b[i]].prev = IF i = 1 THEN a[n] ELSE Entry(b, i - 1)
        BY <1>6, <1>9, <2>2, <3>1, <3>3, <3>4
      <4>2. i # l => i + 1 \in 1..l
        BY <1>5
      <4>3. i # 1 => i - 1 \in 1..l
        BY <1>5
      <4>4. (i = 1 => n + i - 1 = n) /\ n + i + 1 = n + (i + 1) /\ n + i - 1 = n + (i - 1) /\ (i = l => n + i + 1 = n + l + 1)
        BY <1>5
      <4>5. g[b[i]].next = Entry(t, n + i + 1)
        BY <3>6, <3>7, <4>1, <4>2, <4>4
      <4>6. g[b[i]].prev = Entry(t, n + i - 1)
        BY <3>1, <3>5, <3>6, <4>1, <4>3, <4>4
      <4> QED  BY <4>5, <4>6
    <3>10. ASSUME NEW i \in 1..Len(t)
           PROVE  t[i] \in DOMAIN g /\ g[t[i]].next = Entry(t, i + 1) /\ g[t[i]].prev = Entry(t, i - 1)
      <4>1. CASE i \in 1..n
        BY <1>5, <1>6, <1>8, <3>8, <4>1
      <4>2. CASE i \notin 1..n
        <5> DEFINE j == i - n
        <5>1. j \in 1..l /\ i = n + j
          BY <1>5, <4>2
        <5> HIDE DEF j
        <5>2. t[n + j] = b[j] /\ b[j] \in DOMAIN g
          BY <1>5, <1>6, <1>8, <5>1
        <5>3. g[b[j]].next = Entry(t, n + j + 1) /\ g[b[j]].prev = Entry(t, n + j - 1)
          BY <3>9, <5>1
        <5>4. t[i] = b[j]
          BY <5>1, <5>2
        <5>5. n \in Nat /\ j \in Nat /\ i = n + j
          BY <1>5, <5>1
        <5>6. i + 1 = n + j + 1 /\ i - 1 = n + j - 1
          BY <5>5
        <5> QED  BY <5>2, <5>3, <5>4, <5>6
      <4> QED  BY <4>1, <4>2
    <3>11. dList' = Entry(t, 1)
      <4>1. 1 \in 1..n
        BY <1>5, <3>1
      <4> QED  BY <1>2, <1>3, <2>2, <3>5, <4>1
    <3> QED  BY <1>5, <3>10, <3>11 DEF DAlong, Along, Distinct
  <2> QED  BY <2>1, <2>2
<1>13. DAlong(g, qHead, InQueue) /\ Datas(g, InQueue) = Datas(dHeap, InQueue)
  <2>1. \A i \in 1..Len(InQueue) : InQueue[i] \in Members(InQueue) /\ InQueue[i] \in DOMAIN dHeap
    BY <1>1 DEF Members, DAlong, Along
  <2>2. \A i \in 1..Len(InQueue) : InQueue[i] \notin Members(a) /\ InQueue[i] \notin Members(b)
    BY <1>1, <2>1 DEF Three
  <2>3. ASSUME NEW i \in 1..Len(InQueue) PROVE g[InQueue[i]] = dHeap[InQueue[i]]
    <3>1. CASE dList = None
      BY <1>2, <3>1
    <3>2. CASE dList # None
      <4>1. InQueue[i] # end /\ InQueue[i] # dSpare
        BY <1>6, <1>7, <2>2, <3>2
      <4> QED  BY <1>9, <2>1, <3>2, <4>1
    <3> QED  BY <3>1, <3>2
  <2>4. Along(g, qHead, InQueue)
    BY <1>1, <1>8, <2>1, <2>3 DEF DAlong, Along
  <2>5. DAlong(g, qHead, InQueue)
    BY <1>1, <2>3, <2>4 DEF DAlong
  <2> QED  BY <2>3, <2>5 DEF Datas
<1>14. Members(<< >>) = {} /\ Len(<< >>) = 0 /\ << >> \in Seq(Nodes) /\ Datas(g, << >>) = << >>
  BY DEF Members, Datas
<1>15. DAlong(g, None, << >>)
  BY <1>14 DEF DAlong, Along, Entry
<1>16. Three(g, dList', t, None, << >>, qHead, InQueue)
  <2>1. Members(t) \cap Members(InQueue) = {} /\ DOMAIN g = Members(t) \cup Members(InQueue)
    BY <1>1, <1>5, <1>8 DEF Three
  <2> QED  BY <1>11, <1>12, <1>13, <1>14, <1>15, <2>1 DEF Three
<1>17. /\ QInv' /\ Firsts' = Datas(g, t) /\ Seconds' = << >> /\ Queued' = Datas(g, InQueue)
  <2>1. Three(dHeap', dList', t, dSpare', << >>, qHead', InQueue)
    BY <1>2, <1>16 DEF g
  <2>2. qTail' = Entry(InQueue, Len(InQueue)) /\ qLength' = Len(InQueue)
    BY Now
  <2> HIDE DEF QInv
  <2>3. QInv' /\ Firsts' = Datas(dHeap', t) /\ Seconds' = Datas(dHeap', << >>) /\ Queued' = Datas(dHeap', InQueue)
    BY <2>1, <2>2, BecomesThree
  <2> QED  BY <1>14, <2>3 DEF g
<1>18. Queued' = Queued
  BY <1>13, <1>17, Now
<1>19. Firsts' = Firsts \o Seconds
  <2>1. /\ Len(Firsts) = n /\ Firsts \in Seq(Data) /\ Len(Seconds) = l /\ Seconds \in Seq(Data)
        /\ \A i \in 1..n : Firsts[i] = dHeap[a[i]].data
        /\ \A i \in 1..l : Seconds[i] = dHeap[b[i]].data
    BY Queues DEF a, b, n, l
  <2>2. /\ Firsts \o Seconds \in Seq(Data) /\ Len(Firsts \o Seconds) = n + l
        /\ \A i \in 1..(n + l) : (Firsts \o Seconds)[i] = IF i <= n THEN Firsts[i] ELSE Seconds[i - n]
    BY <2>1, JoinIs
  <2> DEFINE w == Firsts \o Seconds
  <2>3. Firsts' = [i \in 1..(n + l) |-> g[t[i]].data]
    BY <1>5, <1>17 DEF Datas
  <2>4. ASSUME NEW i \in 1..(n + l) PROVE g[t[i]].data = w[i]
    <3>1. CASE i \in 1..n
      <4>1. i <= n /\ t[i] = a[i] /\ a[i] \in DOMAIN dHeap
        BY <1>5, <1>6, <3>1
      <4> QED  BY <1>10, <2>1, <2>2, <3>1, <4>1
    <3>2. CASE i \notin 1..n
      <4> DEFINE j == i - n
      <4>1. j \in 1..l /\ i = n + j /\ ~(i <= n)
        BY <1>5, <3>2
      <4> HIDE DEF j
      <4>2. t[i] = b[j] /\ b[j] \in DOMAIN dHeap /\ g[b[j]].data = dHeap[b[j]].data
        BY <1>5, <1>6, <1>10, <4>1
      <4>3. w[i] = Seconds[j]
        BY <2>2, <4>1 DEF j
      <4> QED  BY <2>1, <4>1, <4>2, <4>3
    <3> QED  BY <3>1, <3>2
  <2> HIDE DEF w
  <2>5. w \in Seq(Data) /\ Len(w) = n + l /\ n + l \in Nat
    BY <1>5, <2>2 DEF w
  <2>6. w = [i \in 1..(n + l) |-> w[i]]
    BY <2>5
  <2> QED  BY <2>3, <2>4, <2>6 DEF w
<1>20. DLists!Joined
  BY <1>17, <1>19 DEF DLists!Joined, Firsts, Seconds
<1> QED  BY <1>17, <1>18, <1>20

\* g_list_copy
LEMMA CopyHolds ==
  ASSUME QInv, DCopy, UNCHANGED <<qHead, qTail, qLength>>
  PROVE  QInv' /\ Queued' = Queued /\ DLists!Copied
<1> DEFINE s == Listed
           n == Len(s)
           g == dHeap'
<1>1. /\ Three(dHeap, dList, s, dSpare, Spared, qHead, InQueue) /\ DProper(dHeap)
      /\ DAlong(dHeap, dList, s) /\ Firsts = Datas(dHeap, s)
  BY Now
<1>2. /\ dSpare = None /\ dList # None /\ dList' = dList
      /\ \E t \in [DOMAIN s -> Fresh] :
           /\ IsInjective(t)
           /\ g = [m \in DOMAIN dHeap \cup {t[i] : i \in DOMAIN t} |->
                          IF m \in DOMAIN dHeap THEN dHeap[m]
                          ELSE LET i == CHOOSE k \in DOMAIN t : t[k] = m
                               IN  [data |-> dHeap[s[i]].data,
                                    prev |-> IF i = 1 THEN None ELSE t[i - 1],
                                    next |-> IF i = Len(s) THEN None ELSE t[i + 1]]]
           /\ dSpare' = t[1]
  BY Zenon DEF DCopy, Listed
<1>3. /\ s \in Seq(Nodes) /\ n \in Nat /\ n # 0 /\ DOMAIN s = 1..n /\ Len(Spared) = 0 /\ Spared \in Seq(Nodes)
      /\ \A i \in 1..n : s[i] \in DOMAIN dHeap /\ Firsts[i] = dHeap[s[i]].data
      /\ Len(Firsts) = n /\ Firsts \in Seq(Data)
  BY <1>2, ListEnds, Queues
<1> HIDE DEF s, g
<1>4. PICK t \in [1..n -> Fresh] :
           /\ IsInjective(t)
           /\ g = [m \in DOMAIN dHeap \cup {t[i] : i \in DOMAIN t} |->
                          IF m \in DOMAIN dHeap THEN dHeap[m]
                          ELSE LET i == CHOOSE k \in DOMAIN t : t[k] = m
                               IN  [data |-> dHeap[s[i]].data,
                                    prev |-> IF i = 1 THEN None ELSE t[i - 1],
                                    next |-> IF i = Len(s) THEN None ELSE t[i + 1]]]
           /\ dSpare' = t[1]
  BY <1>2, <1>3
<1> HIDE DEF n
<1> DEFINE At(m) == CHOOSE k \in DOMAIN t : t[k] = m
<1>5. /\ DOMAIN t = 1..n /\ t \in Seq(Nodes) /\ Len(t) = n /\ Distinct(t)
      /\ \A i \in 1..n : t[i] \in Nodes /\ t[i] \notin DOMAIN dHeap
  <2>1. DOMAIN t = 1..n /\ \A i \in 1..n : t[i] \in Nodes /\ t[i] \notin DOMAIN dHeap
    BY <1>4 DEF Fresh
  <2>2. t \in Seq(Nodes) /\ Len(t) = n
    <3>1. t \in [1..n -> Nodes]
      BY <2>1
    <3> QED  BY <1>3, <3>1
  <2>3. Distinct(t)
    BY <1>4, <2>1, <2>2 DEF Distinct, IsInjective
  <2> QED  BY <2>1, <2>2, <2>3
<1>6. DOMAIN g = DOMAIN dHeap \cup Members(t) /\ \A m \in DOMAIN dHeap : g[m] = dHeap[m]
  <2>1. {t[i] : i \in DOMAIN t} = Members(t)
    BY <1>5 DEF Members
  <2> QED  BY <1>4, <2>1
<1>7. ASSUME NEW i \in 1..n
      PROVE  g[t[i]] = [data |-> dHeap[s[i]].data, prev |-> Entry(t, i - 1), next |-> Entry(t, i + 1)]
  <2>1. At(t[i]) = i
    <3>1. \A k \in DOMAIN t : t[k] = t[i] <=> k = i
      BY <1>5 DEF Distinct
    <3> QED  BY <1>5, <3>1
  <2>2. t[i] \in DOMAIN g /\ t[i] \notin DOMAIN dHeap
    BY <1>5, <1>6 DEF Members
  <2> DEFINE a == IF i = 1 THEN None ELSE t[i - 1]
             b == IF i = Len(s) THEN None ELSE t[i + 1]
  <2>3. g[t[i]] = [data |-> dHeap[s[i]].data, prev |-> a, next |-> b]
    <3> HIDE DEF At
    <3>1. g[t[i]] = [data |-> dHeap[s[At(t[i])]].data,
                     prev |-> IF At(t[i]) = 1 THEN None ELSE t[At(t[i]) - 1],
                     next |-> IF At(t[i]) = Len(s) THEN None ELSE t[At(t[i]) + 1]]
      BY <1>4, <2>2 DEF At
    <3> QED  BY <2>1, <3>1
  <2>4. a = Entry(t, i - 1)
    <3>1. i - 1 \in 1..n <=> i # 1
      BY <1>3
    <3> QED  BY <1>5, <3>1 DEF Entry
  <2>5. b = Entry(t, i + 1)
    <3>1. i + 1 \in 1..n <=> i # n
      BY <1>3
    <3>2. n = Len(s)
      BY DEF n
    <3> QED  BY <1>5, <3>1, <3>2 DEF Entry
  <2> QED  BY <2>3, <2>4, <2>5
<1>8. ASSUME NEW i \in 1..n
      PROVE  /\ g[t[i]].data = dHeap[s[i]].data /\ g[t[i]].next = Entry(t, i + 1) /\ g[t[i]].prev = Entry(t, i - 1)
             /\ g[t[i]] \in DCells
  <2> DEFINE a == Entry(t, i - 1)
             b == Entry(t, i + 1)
             d == dHeap[s[i]].data
  <2>1. a \in Nodes \cup {None} /\ b \in Nodes \cup {None}
    BY <1>5 DEF Entry
  <2>2. d \in Data
    BY <1>1, <1>3, DProperIs
  <2>3. g[t[i]] = [data |-> d, prev |-> a, next |-> b]
    BY <1>7
  <2> HIDE DEF a, b, d
  <2>4. g[t[i]] \in DCells
    BY <2>1, <2>2, <2>3 DEF DCells
  <2>5. g[t[i]].data = d /\ g[t[i]].next = b /\ g[t[i]].prev = a
    BY <2>3
  <2> QED  BY <2>4, <2>5 DEF a, b, d
<1>9. DProper(g)
  <2>1. DOMAIN g \subseteq Nodes
    BY <1>1, <1>5, <1>6 DEF DProper, Members
  <2>2. ASSUME NEW m \in DOMAIN g PROVE g[m] \in DCells
    <3>1. CASE m \in DOMAIN dHeap
      BY <1>1, <1>6, <3>1 DEF DProper
    <3>2. CASE m \notin DOMAIN dHeap
      <4>1. PICK i \in 1..n : m = t[i]
        BY <1>5, <1>6, <3>2 DEF Members
      <4> QED  BY <1>8, <4>1
    <3> QED  BY <3>1, <3>2
  <2> QED  BY <2>1, <2>2 DEF DProper
<1>10. Members(Spared) = {}
  BY <1>3 DEF Members
<1>11. Lays(dHeap, Spared, g, t)
  <2>1. \A m \in DOMAIN dHeap : m \notin Members(t)
    BY <1>5 DEF Members
  <2> QED  BY <1>5, <1>6, <1>8, <1>9, <1>10, <2>1 DEF Lays
<1>12. dSpare' = Entry(t, 1)
  <2>1. 1 \in 1..n
    BY <1>3
  <2> QED  BY <1>4, <1>5, <2>1 DEF Entry
<1>13. Edit(dHeap, Spared, g, dSpare', t)
  BY <1>5, <1>11, <1>12, Laid
<1>14. /\ Three(g, dList, s, dSpare', t, qHead, InQueue)
       /\ Datas(g, s) = Datas(dHeap, s) /\ Datas(g, InQueue) = Datas(dHeap, InQueue)
  <2>1. Three(dHeap, dSpare, Spared, dList, s, qHead, InQueue)
    BY <1>1, Turned
  <2>2. /\ Three(g, dSpare', t, dList, s, qHead, InQueue)
        /\ Datas(g, s) = Datas(dHeap, s) /\ Datas(g, InQueue) = Datas(dHeap, InQueue)
    BY <1>13, <2>1, Edited
  <2> QED  BY <2>2, Turned
<1>15. QInv' /\ Firsts' = Datas(g, s) /\ Seconds' = Datas(g, t) /\ Queued' = Datas(g, InQueue)
  <2>1. Three(dHeap', dList', s, dSpare', t, qHead', InQueue)
    BY <1>2, <1>14 DEF g
  <2>2. qTail' = Entry(InQueue, Len(InQueue)) /\ qLength' = Len(InQueue)
    BY Now
  <2> HIDE DEF QInv
  <2>3. QInv' /\ Firsts' = Datas(dHeap', s) /\ Seconds' = Datas(dHeap', t) /\ Queued' = Datas(dHeap', InQueue)
    BY <2>1, <2>2, BecomesThree
  <2> QED  BY <2>3 DEF g
<1>16. Queued' = Queued /\ Firsts' = Firsts
  BY <1>1, <1>14, <1>15, Now
<1>17. Seconds' = Firsts
  <2>1. Seconds' = [i \in 1..n |-> g[t[i]].data]
    BY <1>5, <1>15 DEF Datas
  <2>2. Firsts = [i \in 1..n |-> Firsts[i]]
    BY <1>3
  <2> DEFINE F(i) == g[t[i]].data
             G(i) == Firsts[i]
  <2>3. \A i \in 1..n : F(i) = G(i)
    BY <1>3, <1>8
  <2>4. Seconds' = [i \in 1..n |-> F(i)] /\ Firsts = [i \in 1..n |-> G(i)]
    BY <2>1, <2>2
  <2> HIDE DEF F, G
  <2> QED  BY <2>3, <2>4
<1>18. Seconds = << >>
  BY <1>3, Queues
<1>19. DLists!Copied
  BY <1>16, <1>17, <1>18 DEF DLists!Copied, Firsts, Seconds
<1> QED  BY <1>15, <1>16, <1>19

-----------------------------------------------------------------------------
(* The queue *)

LEMMA QEnds ==
  ASSUME QInv
  PROVE  /\ InQueue \in Seq(Nodes) /\ Len(InQueue) \in Nat /\ qHead = Entry(InQueue, 1) /\ Distinct(InQueue)
         /\ qTail = Entry(InQueue, Len(InQueue)) /\ qLength = Len(InQueue)
         /\ (qHead = None <=> qLength = 0) /\ (qTail = None <=> qLength = 0)
         /\ LastOf(dHeap, qHead) = qTail /\ (qHead # None => dHeap[qHead].prev = None)
         /\ Queued \in Seq(Data) /\ Len(Queued) = Len(InQueue)
         /\ \A i \in 1..Len(InQueue) : /\ dHeap[InQueue[i]].prev = Entry(InQueue, i - 1)
                                       /\ dHeap[InQueue[i]].next = Entry(InQueue, i + 1)
                                       /\ InQueue[i] \in DOMAIN dHeap /\ InQueue[i] \in Nodes /\ InQueue[i] # None
                                       /\ Queued[i] = dHeap[InQueue[i]].data
<1> DEFINE c == InQueue
<1>1. /\ Proper(dHeap) /\ Along(dHeap, qHead, c) /\ DAlong(dHeap, qHead, c) /\ Queued = Datas(dHeap, c)
      /\ qTail = Entry(c, Len(c)) /\ qLength = Len(c)
  BY Now DEF DAlong
<1> HIDE DEF c
<1>2. c \in Seq(Nodes) /\ Len(c) \in Nat /\ qHead = Entry(c, 1) /\ Distinct(c)
  BY <1>1 DEF Along, Distinct
<1>3. LastOf(dHeap, qHead) = Entry(c, Len(c)) /\ (qHead = None <=> c = << >>)
      /\ Queued \in Seq(Data) /\ Len(Queued) = Len(c) /\ \A i \in 1..Len(c) : Queued[i] = dHeap[c[i]].data
  BY <1>1, ListIs
<1>4. ASSUME NEW i \in 1..Len(c)
      PROVE  dHeap[c[i]].prev = Entry(c, i - 1) /\ dHeap[c[i]].next = Entry(c, i + 1) /\ c[i] \in DOMAIN dHeap
             /\ c[i] \in Nodes /\ c[i] # None
  BY <1>1, NoNode DEF DAlong, Along
<1>5. (qHead = None <=> qLength = 0) /\ (qTail = None <=> qLength = 0)
  <2>1. CASE Len(c) = 0
    BY <1>1, <1>2, <2>1 DEF Entry
  <2>2. CASE Len(c) # 0
    <3>1. 1 \in 1..Len(c) /\ Len(c) \in 1..Len(c)
      BY <1>2, <2>2
    <3> QED  BY <1>1, <1>2, <1>4, <2>2, <3>1 DEF Entry
  <2> QED  BY <2>1, <2>2
<1>6. qHead # None => dHeap[qHead].prev = None
  <2> SUFFICES ASSUME qHead # None PROVE dHeap[qHead].prev = None
    OBVIOUS
  <2>1. 1 \in 1..Len(c)
    BY <1>1, <1>2, <1>5
  <2>2. qHead = c[1] /\ dHeap[c[1]].prev = Entry(c, 1 - 1)
    BY <1>2, <1>4, <2>1 DEF Entry
  <2>3. Entry(c, 1 - 1) = None
    BY DEF Entry
  <2> QED  BY <2>2, <2>3
<1> QED  BY <1>1, <1>2, <1>3, <1>4, <1>5, <1>6 DEF c

\* The lists of the caller are beside the queue.
LEMMA QueueEdited ==
  ASSUME QInv, NEW t, Edit(dHeap, InQueue, dHeap', qHead', t),
         qTail' = Entry(t, Len(t)), qLength' = Len(t), UNCHANGED <<dList, dSpare>>
  PROVE  QInv' /\ Queued' = Datas(dHeap', t) /\ Firsts' = Firsts /\ Seconds' = Seconds
<1>1. /\ Three(dHeap', qHead', t, dList, Listed, dSpare, Spared)
      /\ Datas(dHeap', Listed) = Datas(dHeap, Listed) /\ Datas(dHeap', Spared) = Datas(dHeap, Spared)
  BY Now, Turned, Edited
<1>2. Three(dHeap', dList', Listed, dSpare', Spared, qHead', t)
  BY <1>1, Turned
<1> HIDE DEF QInv
<1>3. QInv' /\ Firsts' = Datas(dHeap', Listed) /\ Seconds' = Datas(dHeap', Spared) /\ Queued' = Datas(dHeap', t)
  BY <1>2, BecomesThree
<1> QED  BY <1>1, <1>3, Now

\* A node more at either end.
LEMMA Pushed ==
  ASSUME QInv, NEW n \in Nodes, n \notin DOMAIN dHeap, NEW x \in Data, NEW k \in 1..(qLength + 1),
         dHeap' = NewNode(dHeap, n, Entry(InQueue, k - 1), x, Entry(InQueue, k)),
         qHead' = (IF k = 1 THEN n ELSE qHead), qTail' = (IF k = qLength + 1 THEN n ELSE qTail),
         qLength' = qLength + 1, UNCHANGED <<dList, dSpare>>
  PROVE  QInv' /\ Queued' = Ins(Queued, k, x) /\ Firsts' = Firsts /\ Seconds' = Seconds
<1> DEFINE s == InQueue
           t == Ins(s, k, n)
           g == dHeap'
<1>1. DProper(dHeap) /\ DAlong(dHeap, qHead, s) /\ Queued = Datas(dHeap, s)
  BY Now
<1>2. /\ s \in Seq(Nodes) /\ Len(s) \in Nat /\ \A i \in 1..Len(s) : s[i] \in DOMAIN dHeap
      /\ qTail = Entry(s, Len(s)) /\ qLength = Len(s)
  BY QEnds
<1>3. g = NewNode(dHeap, n, Entry(s, k - 1), x, Entry(s, k)) /\ k \in 1..(Len(s) + 1)
  BY <1>2
<1> HIDE DEF s, g
<1>4. /\ Edit(dHeap, s, g, IF k = 1 THEN n ELSE qHead, t)
      /\ g[n].data = x /\ \A m \in DOMAIN dHeap : m # n /\ g[m].data = dHeap[m].data
  BY <1>1, <1>3, NewNodeIs
<1>5. Edit(dHeap, InQueue, dHeap', qHead', t)
  BY <1>4 DEF s, g
<1>6. /\ Len(t) = Len(s) + 1 /\ t[k] = n
      /\ \A i \in 1..(Len(s) + 1) : i > k => i - 1 \in 1..Len(s) /\ t[i] = s[i - 1]
  BY <1>2, <1>3, InsIs, SMTT(30)
<1> HIDE DEF t
<1>7. qTail' = Entry(t, Len(t)) /\ qLength' = Len(t)
  <2>1. Len(t) \in 1..Len(t) /\ Len(t) = qLength + 1 /\ Len(t) - 1 = Len(s)
    BY <1>2, <1>6
  <2>2. CASE k = qLength + 1
    BY <1>6, <2>1, <2>2 DEF Entry
  <2>3. CASE k # qLength + 1
    <3>1. Len(t) > k /\ Len(t) \in 1..(Len(s) + 1)
      BY <1>2, <1>3, <2>1, <2>3
    <3>2. t[Len(t)] = s[Len(s)] /\ Len(s) \in 1..Len(s)
      BY <1>6, <2>1, <3>1
    <3> QED  BY <1>2, <2>1, <2>3, <3>2 DEF Entry
  <2> QED  BY <2>2, <2>3
<1>8. QInv' /\ Queued' = Datas(g, t) /\ Firsts' = Firsts /\ Seconds' = Seconds
  BY <1>5, <1>7, QueueEdited DEF g
<1>9. \A i \in 1..Len(s) : g[s[i]].data = dHeap[s[i]].data
  BY <1>2, <1>4
<1>10. Datas(g, t) = Ins(Datas(dHeap, s), k, x)
  BY <1>2, <1>3, <1>4, <1>9, InsDatas DEF t
<1> QED  BY <1>1, <1>8, <1>10

LEMMA PushHeadHolds ==
  ASSUME QInv, NEW x \in Data, QPushHead(x)
  PROVE  QInv' /\ Queued' = <<x>> \o Queued /\ Firsts' = Firsts /\ Seconds' = Seconds
<1>1. PICK n \in Fresh :
        /\ dHeap' = NewNode(dHeap, n, IF qHead = None THEN None ELSE dHeap[qHead].prev, x, qHead)
        /\ qHead' = n /\ qTail' = IF qTail = None THEN n ELSE qTail
        /\ qLength' = qLength + 1 /\ UNCHANGED <<dList, dSpare>>
  BY DEF QPushHead
<1>2. /\ (IF qHead = None THEN None ELSE dHeap[qHead].prev) = Entry(InQueue, 1 - 1) /\ qHead = Entry(InQueue, 1)
      /\ qLength \in Nat /\ (qTail = None <=> qLength = 0) /\ Queued \in Seq(Data) /\ Len(Queued) = qLength
  <2>1. Entry(InQueue, 1 - 1) = None
    BY DEF Entry
  <2> QED  BY <2>1, QEnds
<1>3. n \in Nodes /\ n \notin DOMAIN dHeap
  BY DEF Fresh
<1>4. 1 \in 1..(qLength + 1) /\ (qTail = None <=> 1 = qLength + 1)
  BY <1>2
<1> HIDE DEF QInv, InQueue
<1>5. QInv' /\ Queued' = Ins(Queued, 1, x) /\ Firsts' = Firsts /\ Seconds' = Seconds
  BY <1>1, <1>2, <1>3, <1>4, Pushed
<1>6. Ins(Queued, 1, x) = <<x>> \o Queued
  <2>1. SubSeq(Queued, 1, 1 - 1) \o <<x>> \o SubSeq(Queued, 1, Len(Queued)) = Ins(Queued, 1, x)
    BY <1>2, <1>4, InsSeq
  <2>2. SubSeq(Queued, 1, 1 - 1) = << >> /\ SubSeq(Queued, 1, Len(Queued)) = Queued /\ << >> \o <<x>> = <<x>>
    BY <1>2
  <2> QED  BY <2>1, <2>2
<1> QED  BY <1>5, <1>6

LEMMA PushTailHolds ==
  ASSUME QInv, NEW x \in Data, QPushTail(x)
  PROVE  QInv' /\ Queued' = Append(Queued, x) /\ Firsts' = Firsts /\ Seconds' = Seconds
<1>1. PICK n \in Fresh :
        /\ dHeap' = Appended(dHeap, qTail, n, x)
        /\ LET t == IF qTail = None THEN n ELSE qTail
           IN  IF qHead = None THEN qHead' = t /\ qTail' = t
               ELSE qHead' = qHead /\ qTail' = dHeap'[t].next
        /\ qLength' = qLength + 1 /\ UNCHANGED <<dList, dSpare>>
  BY DEF QPushTail
<1> DEFINE s == InQueue
           l == Len(s)
           k == qLength + 1
<1>2. /\ s \in Seq(Nodes) /\ l \in Nat /\ qLength = l /\ (qHead = None <=> l = 0) /\ (qTail = None <=> l = 0)
      /\ qTail = Entry(s, l) /\ qHead = Entry(s, 1) /\ Queued \in Seq(Data) /\ Len(Queued) = l /\ Distinct(s)
      /\ \A i \in 1..l : dHeap[s[i]].next = Entry(s, i + 1) /\ s[i] \in DOMAIN dHeap
  BY QEnds
<1>3. n \in Nodes /\ n \notin DOMAIN dHeap /\ n # None
  BY NoNode DEF Fresh
<1>4. /\ Entry(s, k) = None /\ Entry(s, k - 1) = qTail /\ k \in 1..(qLength + 1) /\ k = l + 1
      /\ (k = 1 <=> qHead = None)
  BY <1>2 DEF Entry
<1>5. LastOf(dHeap, qTail) = qTail
  <2>1. CASE qTail = None
    BY <2>1 DEF LastOf
  <2>2. CASE qTail # None
    <3>1. l \in 1..l /\ qTail = s[l] /\ s[l] \in DOMAIN dHeap /\ dHeap[s[l]].next = None
      <4>1. l \in 1..l /\ Entry(s, l + 1) = None
        BY <1>2, <2>2 DEF Entry
      <4> QED  BY <1>2, <4>1 DEF Entry
    <3> DEFINE u == <<qTail>>
    <3>2. u \in Seq(Nodes) /\ Len(u) = 1 /\ u[1] = qTail
      BY <1>2, <3>1
    <3> HIDE DEF u
    <3>3. Along(dHeap, qTail, u)
      BY <3>1, <3>2 DEF Along, Entry
    <3>4. LastOf(dHeap, qTail) = Entry(u, Len(u))
      BY <3>3, Now, ListIs
    <3> QED  BY <3>2, <3>4 DEF Entry
  <2> QED  BY <2>1, <2>2
<1>6. dHeap' = NewNode(dHeap, n, Entry(s, k - 1), x, Entry(s, k))
  BY <1>1, <1>4, <1>5 DEF Appended
<1>7. qHead' = IF k = 1 THEN n ELSE qHead
  BY <1>1, <1>2, <1>4
<1>8. qTail' = n
  <2>1. CASE qHead = None
    BY <1>1, <1>2, <2>1
  <2>2. CASE qHead # None
    <3>1. qTail # None /\ l \in 1..l /\ qTail = s[l] /\ s[l] \in DOMAIN dHeap /\ qTail # n
      BY <1>2, <1>3, <2>2 DEF Entry
    <3>2. dHeap'[qTail].next = n
      <4>1. dHeap'[qTail] = [dHeap[qTail] EXCEPT !.next = n]
        BY <1>4, <1>6, <3>1 DEF NewNode
      <4>2. dHeap[qTail] = [data |-> dHeap[qTail].data, prev |-> dHeap[qTail].prev, next |-> dHeap[qTail].next]
        BY <3>1, Now, DProperIs
      <4> QED  BY <4>1, <4>2
    <3> QED  BY <1>1, <2>2, <3>1, <3>2
  <2> QED  BY <2>1, <2>2
<1> HIDE DEF QInv, s, k
<1>9. QInv' /\ Queued' = Ins(Queued, k, x) /\ Firsts' = Firsts /\ Seconds' = Seconds
  <2>1. qTail' = IF k = qLength + 1 THEN n ELSE qTail
    BY <1>8 DEF k
  <2> QED  BY <1>1, <1>3, <1>4, <1>6, <1>7, <2>1, Pushed DEF s
<1>10. Ins(Queued, k, x) = Append(Queued, x)
  <2>1. SubSeq(Queued, 1, k - 1) \o <<x>> \o SubSeq(Queued, k, Len(Queued)) = Ins(Queued, k, x)
    <3>1. Queued \in Seq(Data) /\ k \in 1..(Len(Queued) + 1) /\ x \in Data
      BY <1>2, <1>4
    <3> QED  BY <3>1, InsSeqData
  <2>2. SubSeq(Queued, 1, k - 1) = Queued /\ SubSeq(Queued, k, Len(Queued)) = << >>
    BY <1>2, <1>4
  <2>3. Queued \o <<x>> \o << >> = Append(Queued, x)
    BY <1>2
  <2> QED  BY <2>1, <2>2, <2>3
<1> QED  BY <1>9, <1>10

LEMMA TailIs ==
  ASSUME NEW S, NEW u \in Seq(S), Len(u) > 0
  PROVE  Tail(u) = [i \in 1..(Len(u) - 1) |-> u[i + 1]]
<1>1. Tail(u) \in Seq(S) /\ Len(Tail(u)) = Len(u) - 1 /\ \A i \in 1..(Len(u) - 1) : Tail(u)[i] = u[i + 1]
  BY u # << >>
<1>2. Tail(u) = [i \in 1..Len(Tail(u)) |-> Tail(u)[i]]
  <2> DEFINE w == Tail(u)
  <2>1. w \in Seq(S)
    BY <1>1
  <2> HIDE DEF w
  <2>2. w = [i \in 1..Len(w) |-> w[i]]
    BY <2>1
  <2> QED  BY <2>2 DEF w
<1> QED  BY <1>1, <1>2

\* The front of the queue goes.
LEMMA PopHeadHolds ==
  ASSUME QInv, QPopHead
  PROVE  QInv' /\ Queued # << >> /\ Queued' = Tail(Queued) /\ Firsts' = Firsts /\ Seconds' = Seconds
<1> DEFINE s == InQueue
           l == Len(s)
           rest == dHeap[qHead].next
           left == Free(dHeap, {qHead})
           t == Del(s, 1)
           g == dHeap'
<1>1. /\ s \in Seq(Nodes) /\ l \in Nat /\ qHead = Entry(s, 1) /\ Distinct(s) /\ qLength = l
      /\ qTail = Entry(s, l) /\ Queued \in Seq(Data) /\ Len(Queued) = l
      /\ \A i \in 1..l : /\ dHeap[s[i]].prev = Entry(s, i - 1) /\ dHeap[s[i]].next = Entry(s, i + 1)
                         /\ s[i] \in DOMAIN dHeap /\ s[i] \in Nodes /\ s[i] # None
                         /\ Queued[i] = dHeap[s[i]].data
  BY QEnds
<1>2. /\ qLength > 0 /\ qHead' = rest /\ qLength' = qLength - 1 /\ UNCHANGED <<dList, dSpare>>
      /\ IF qLength > 1 THEN g = [left EXCEPT ![rest].prev = None] /\ UNCHANGED qTail
         ELSE g = left /\ qTail' = None
  BY DEF QPopHead
<1>3. DProper(dHeap) /\ DAlong(dHeap, qHead, s) /\ Queued = Datas(dHeap, s)
  BY Now
<1> HIDE DEF s, g
<1>4. 1 \in 1..l /\ qHead = s[1] /\ rest = Entry(s, 2) /\ qHead \in DOMAIN dHeap
  <2>1. 1 \in 1..l
    BY <1>1, <1>2
  <2>2. qHead = s[1] /\ dHeap[s[1]].next = Entry(s, 1 + 1) /\ s[1] \in DOMAIN dHeap
    BY <1>1, <2>1 DEF Entry
  <2> QED  BY <2>1, <2>2
<1>5. DOMAIN left = DOMAIN dHeap \ {qHead} /\ \A m \in DOMAIN left : left[m] = dHeap[m]
  BY DEF Free
<1> HIDE DEF rest, left, l
<1>6. l > 1 => 2 \in 1..l /\ rest = s[2] /\ rest # qHead /\ rest \in DOMAIN left
  <2> SUFFICES ASSUME l > 1 PROVE 2 \in 1..l /\ rest = s[2] /\ rest # qHead /\ rest \in DOMAIN left
    OBVIOUS
  <2>1. 2 \in 1..l
    BY <1>1
  <2>2. rest = s[2] /\ s[2] \in DOMAIN dHeap
    BY <1>1, <1>4, <2>1 DEF Entry, l
  <2>3. s[2] # s[1]
    BY <1>1, <1>4, <2>1 DEF Distinct, l
  <2> QED  BY <1>4, <1>5, <2>1, <2>2, <2>3
<1>7. /\ t \in Seq(Nodes) /\ Len(t) = l - 1
      /\ \A i \in 1..(l - 1) : i + 1 \in 1..l /\ t[i] = s[i + 1]
      /\ Members(t) = Members(s) \ {qHead}
  <2>1. \A i, j \in 1..l : s[i] = s[j] => i = j
    BY <1>1 DEF Distinct, l
  <2>2. /\ t \in Seq(Nodes) /\ Len(t) = l - 1
        /\ \A i \in 1..(l - 1) : i >= 1 => i + 1 \in 1..l /\ t[i] = s[i + 1]
        /\ Members(t) = Members(s) \ {s[1]}
    <3> HIDE DEF t
    <3>1. t = Del(s, 1) /\ s \in Seq(Nodes) /\ 1 \in 1..Len(s) /\ l = Len(s)
      BY <1>1, <1>4 DEF t, l
    <3>2. \A i, j \in 1..Len(s) : s[i] = s[j] => i = j
      BY <2>1, <3>1
    <3> QED  BY <3>1, <3>2, DelNodes
  <2> HIDE DEF t
  <2>3. \A i \in 1..(l - 1) : i >= 1
    BY <1>1
  <2> QED  BY <1>4, <2>2, <2>3
<1> HIDE DEF t
<1>8. Distinct(t)
  <2> SUFFICES ASSUME NEW i \in 1..Len(t), NEW j \in 1..Len(t), t[i] = t[j] PROVE i = j
    BY DEF Distinct
  <2>1. i + 1 \in 1..l /\ j + 1 \in 1..l /\ s[i + 1] = s[j + 1]
    BY <1>7
  <2>2. i + 1 = j + 1
    BY <1>1, <2>1 DEF Distinct, l
  <2> QED  BY <2>2
<1>9. DOMAIN g = DOMAIN left
  BY <1>2, <1>5
<1>10. ASSUME NEW m \in DOMAIN left
       PROVE  /\ g[m].data = dHeap[m].data /\ g[m].next = dHeap[m].next
              /\ g[m].prev = IF m = rest THEN None ELSE dHeap[m].prev
              /\ g[m] \in DCells /\ (m # rest => g[m] = dHeap[m])
  <2>1. m \in DOMAIN dHeap /\ left[m] = dHeap[m]
    BY <1>5, <1>10
  <2>2. /\ dHeap[m] = [data |-> dHeap[m].data, prev |-> dHeap[m].prev, next |-> dHeap[m].next]
        /\ dHeap[m].data \in Data /\ dHeap[m].next \in Nodes \cup {None} /\ dHeap[m].prev \in Nodes \cup {None}
        /\ m # None
    BY <1>3, <2>1, DProperIs
  <2>3. CASE l > 1
    <3>1. g[m] = IF m = rest THEN [dHeap[m] EXCEPT !.prev = None] ELSE dHeap[m]
      BY <1>1, <1>2, <1>6, <1>10, <2>1, <2>3 DEF l
    <3>2. [dHeap[m] EXCEPT !.prev = None] = [data |-> dHeap[m].data, prev |-> None, next |-> dHeap[m].next]
      BY <2>2
    <3>3. g[m] = [data |-> dHeap[m].data, prev |-> IF m = rest THEN None ELSE dHeap[m].prev, next |-> dHeap[m].next]
      BY <2>2, <3>1, <3>2
    <3>4. g[m] \in DCells
      BY <2>2, <3>3 DEF DCells
    <3> HIDE DEF DCells
    <3> QED  BY <3>1, <3>3, <3>4
  <2>4. CASE ~(l > 1)
    <3>1. g[m] = dHeap[m]
      BY <1>1, <1>2, <2>1, <2>4
    <3>2. rest = None
      <4>1. 2 \notin 1..l
        BY <1>1, <2>4
      <4> QED  BY <1>4, <4>1 DEF Entry, l
    <3>3. g[m] \in DCells
      BY <1>3, <2>1, <3>1 DEF DProper
    <3> QED  BY <2>2, <3>1, <3>2, <3>3
  <2> QED  BY <2>3, <2>4
<1>11. DProper(g)
  BY <1>3, <1>5, <1>9, <1>10 DEF DProper
<1>12. ASSUME NEW i \in 1..Len(t)
       PROVE  g[t[i]].next = Entry(t, i + 1) /\ g[t[i]].prev = Entry(t, i - 1) /\ g[t[i]].data = dHeap[t[i]].data
              /\ dHeap[t[i]].data = Queued[i + 1]
  <2>1. i + 1 \in 1..l /\ t[i] = s[i + 1] /\ i \in Nat
    BY <1>7
  <2>2. s[i + 1] \in DOMAIN left /\ s[i + 1] \in DOMAIN dHeap
    <3>1. s[i + 1] # s[1]
      BY <1>1, <1>4, <2>1 DEF Distinct, l
    <3> QED  BY <1>1, <1>4, <1>5, <2>1, <3>1
  <2>3. dHeap[s[i + 1]].next = Entry(s, i + 1 + 1) /\ dHeap[s[i + 1]].prev = Entry(s, i + 1 - 1)
        /\ dHeap[s[i + 1]].data = Queued[i + 1]
    BY <1>1, <2>1
  <2>4. Entry(s, i + 1 + 1) = Entry(t, i + 1)
    <3>1. i + 1 + 1 \in 1..l <=> i + 1 \in 1..(l - 1)
      BY <1>1, <2>1
    <3> QED  BY <1>7, <3>1 DEF Entry, l
  <2>5. (IF s[i + 1] = rest THEN None ELSE Entry(s, i + 1 - 1)) = Entry(t, i - 1)
    <3>1. CASE i = 1
      <4>1. Entry(t, i - 1) = None
        BY <3>1 DEF Entry
      <4>2. s[i + 1] = rest
        BY <1>1, <1>6, <2>1, <3>1
      <4> QED  BY <4>1, <4>2
    <3>2. CASE i # 1
      <4>1. 2 \in 1..l /\ i + 1 # 2 /\ l > 1 /\ i - 1 \in 1..(l - 1) /\ i - 1 + 1 = i /\ i \in 1..l /\ i + 1 - 1 = i
        BY <1>1, <2>1, <3>2
      <4>2. s[i + 1] # s[2]
        BY <1>1, <2>1, <4>1 DEF Distinct, l
      <4>3. t[i - 1] = s[i]
        BY <1>7, <4>1
      <4>4. Entry(t, i - 1) = s[i] /\ Entry(s, i + 1 - 1) = s[i]
        BY <1>7, <4>1, <4>3 DEF Entry, l
      <4> QED  BY <1>6, <4>1, <4>2, <4>4
    <3> QED  BY <3>1, <3>2
  <2> QED  BY <1>10, <2>1, <2>2, <2>3, <2>4, <2>5
<1>13. Lays(dHeap, s, g, t)
  <2>1. Members(s) \subseteq DOMAIN dHeap /\ qHead \in Members(s)
    BY <1>1, <1>4 DEF Members, l
  <2>2. DOMAIN g = (DOMAIN dHeap \ Members(s)) \cup Members(t)
    BY <1>5, <1>7, <1>9, <2>1
  <2>3. rest \in DOMAIN dHeap => rest \in Members(s)
    <3>1. CASE l > 1
      BY <1>6, <3>1 DEF Members, l
    <3>2. CASE ~(l > 1)
      <4>1. 2 \notin 1..l
        BY <1>1, <3>2
      <4>2. rest = None
        BY <1>4, <4>1 DEF Entry, l
      <4> QED  BY <1>3, <4>2, DProperIs
    <3> QED  BY <3>1, <3>2
  <2>4. \A m \in DOMAIN dHeap \ Members(s) : m \notin Members(t) /\ g[m] = dHeap[m]
    BY <1>5, <1>7, <1>10, <2>1, <2>3
  <2> QED  BY <1>11, <1>12, <2>2, <2>4 DEF Lays
<1>14. qHead' = Entry(t, 1)
  <2>1. 2 \in 1..l <=> 1 \in 1..(l - 1)
    BY <1>1
  <2> QED  BY <1>2, <1>4, <1>7, <2>1 DEF Entry, l
<1>15. Edit(dHeap, InQueue, dHeap', qHead', t)
  BY <1>7, <1>8, <1>13, <1>14, Laid DEF s, g
<1>16. qTail' = Entry(t, Len(t)) /\ qLength' = Len(t)
  <2>1. qLength' = l - 1
    BY <1>1, <1>2
  <2>2. CASE l > 1
    <3>1. l - 1 \in 1..(l - 1) /\ l - 1 + 1 = l /\ l \in 1..l
      BY <1>1, <2>2
    <3>2. Entry(t, Len(t)) = s[l] /\ qTail = s[l]
      BY <1>1, <1>7, <3>1 DEF Entry, l
    <3> QED  BY <1>1, <1>2, <1>7, <2>1, <2>2, <3>2
  <2>3. CASE ~(l > 1)
    <3>1. Len(t) \notin 1..Len(t)
      BY <1>1, <1>2, <1>7, <2>3
    <3> QED  BY <1>1, <1>2, <1>7, <2>1, <2>3, <3>1 DEF Entry
  <2> QED  BY <2>2, <2>3
<1>17. UNCHANGED <<dList, dSpare>>
  BY <1>2
<1>18. QInv' /\ Queued' = Datas(dHeap', t) /\ Firsts' = Firsts /\ Seconds' = Seconds
  BY <1>15, <1>16, <1>17, QueueEdited
<1>19. Queued' = Tail(Queued)
  <2>1. Queued' = [i \in 1..(l - 1) |-> Queued[i + 1]]
    BY <1>7, <1>12, <1>18 DEF Datas, g
  <2>2. Tail(Queued) = [i \in 1..(l - 1) |-> Queued[i + 1]]
    BY <1>1, <1>2, TailIs
  <2> QED  BY <2>1, <2>2
<1>20. Queued # << >>
  BY <1>1, <1>2
<1> QED  BY <1>18, <1>19, <1>20

\* g_queue_free
LEMMA QFreeHolds ==
  ASSUME QInv, QFree
  PROVE  QInv' /\ Queued' = << >> /\ Firsts' = Firsts /\ Seconds' = Seconds
<1> DEFINE s == InQueue
           g == dHeap'
<1>1. DProper(dHeap) /\ InChain(dHeap, qHead) = Members(s) /\ Members(s) \subseteq DOMAIN dHeap
  <2>1. InChain(dHeap, qHead) = Members(s) /\ Members(s) \subseteq DOMAIN dHeap
    BY Now, ThreeAre DEF Three
  <2> QED  BY <2>1, Now
<1>2. g = Free(dHeap, Members(s)) /\ qHead' = None /\ qTail' = None /\ qLength' = 0 /\ UNCHANGED <<dList, dSpare>>
  BY <1>1 DEF QFree
<1> HIDE DEF s, g
<1>3. DOMAIN g = DOMAIN dHeap \ Members(s) /\ \A m \in DOMAIN g : g[m] = dHeap[m]
  BY <1>2 DEF Free
<1>4. Members(<< >>) = {} /\ Len(<< >>) = 0 /\ << >> \in Seq(Nodes)
  BY DEF Members
<1>5. DProper(g)
  BY <1>1, <1>3 DEF DProper
<1>6. Lays(dHeap, s, g, << >>) /\ Distinct(<< >>)
  BY <1>3, <1>4, <1>5 DEF Lays, Distinct
<1>7. Entry(<< >>, 1) = None /\ Entry(<< >>, 0) = None
  BY <1>4 DEF Entry
<1>8. Edit(dHeap, s, g, None, << >>)
  BY <1>4, <1>6, <1>7, Laid
<1>9. Edit(dHeap, InQueue, dHeap', qHead', << >>)
  BY <1>2, <1>8 DEF s, g
<1>10. QInv' /\ Queued' = Datas(dHeap', << >>) /\ Firsts' = Firsts /\ Seconds' = Seconds
  BY <1>2, <1>4, <1>7, <1>9, QueueEdited
<1>11. Datas(dHeap', << >>) = << >>
  BY <1>4 DEF Datas
<1> QED  BY <1>10, <1>11

-----------------------------------------------------------------------------
(* All steps of lists and queue *)

LEMMA QStarts ==
  ASSUME QInit
  PROVE  QInv /\ Firsts = << >> /\ Seconds = << >>
<1>1. dHeap = << >> /\ dList = None /\ dSpare = None /\ qHead = None /\ qTail = None /\ qLength = 0
  BY DEF QInit, DInit
<1>2. DOMAIN dHeap = {} /\ << >> \in Seq(Nodes) /\ Len(<< >>) = 0 /\ Members(<< >>) = {}
  BY <1>1 DEF Members
<1>3. DProper(dHeap) /\ Entry(<< >>, 0) = None /\ Entry(<< >>, 1) = None
  BY <1>2 DEF DProper, Entry
<1>4. Along(dHeap, None, << >>)
  BY <1>2, <1>3 DEF Along
<1>5. DAlong(dHeap, None, << >>)
  BY <1>2, <1>4 DEF DAlong
<1>6. Follow(dHeap, None) = << >> /\ DataOf(dHeap, None) = Datas(dHeap, << >>)
  BY <1>3, <1>4, ListIs, DProperIs
<1>7. Datas(dHeap, << >>) = << >>
  BY <1>2 DEF Datas
<1>8. Listed = << >> /\ Spared = << >> /\ InQueue = << >>
  BY <1>1, <1>6 DEF Listed, Spared, InQueue
<1>9. Three(dHeap, None, << >>, None, << >>, None, << >>)
  BY <1>2, <1>3, <1>5 DEF Three
<1>10. QInv
  BY <1>1, <1>2, <1>3, <1>8, <1>9 DEF QInv
<1> QED  BY <1>1, <1>6, <1>7, <1>10 DEF Firsts, Seconds

\* Of the two lists of the caller
LEMMA ListStep ==
  ASSUME QInv, DNext, UNCHANGED <<qHead, qTail, qLength>>
  PROVE  QInv' /\ Queued' = Queued /\ DLists!ListsNext
<1> DEFINE Edits == DLists!Inserted \/ DLists!Removed \/ DLists!Purged \/ DLists!Reversed \/ DLists!SortedStably
           Goal  == QInv' /\ Queued' = Queued /\ DLists!ListsNext
<1>0. QInv' /\ Queued' = Queued /\ Seconds' = Seconds /\ Edits => Goal
  BY DEF DLists!ListsNext, Seconds
<1>1. ASSUME NEW p, NEW h, Becomes(h, p) PROVE QKept
  BY <1>1 DEF Becomes, QKept
<1> HIDE DEF Goal
<1>2. ASSUME NEW x \in Data, DPrepend(x) PROVE Goal
  <2>1. QKept
    BY <1>1, <1>2 DEF DPrepend
  <2> QED  BY <1>0, <1>2, <2>1, PrependHolds
<1>3. ASSUME NEW x \in Data, DAppend(x) PROVE Goal
  <2>1. QKept
    BY <1>1, <1>3 DEF DAppend
  <2> QED  BY <1>0, <1>3, <2>1, AppendHolds
<1>4. ASSUME NEW x \in Data, DInsertSorted(x) PROVE Goal
  <2>1. QKept
    BY <1>1, <1>4 DEF DInsertSorted
  <2> QED  BY <1>0, <1>4, <2>1, InsertSortedHolds
<1>5. ASSUME NEW x \in Data, DRemove(x) PROVE Goal
  <2>1. QKept
    BY <1>1, <1>5 DEF DRemove, DDelete
  <2> QED  BY <1>0, <1>5, <2>1, RemoveHolds
<1>6. ASSUME NEW x \in Data, DRemoveAll(x) PROVE Goal
  <2>1. QKept
    BY <1>6 DEF DRemoveAll, Becomes, QKept
  <2> QED  BY <1>0, <1>6, <2>1, DRemoveAllHolds
<1>7. ASSUME NEW n \in Chain, DDelete(n) PROVE Goal
  <2>1. QKept
    BY <1>1, <1>7 DEF DDelete
  <2> QED  BY <1>0, <1>7, <2>1, DeleteHolds
<1>8. ASSUME NEW n \in Chain, NEW x \in Data, DInsertBefore(n, x) PROVE Goal
  <2>1. QKept
    BY <1>1, <1>8 DEF DInsertBefore
  <2> QED  BY <1>0, <1>8, <2>1, InsertBeforeHolds
<1>9. ASSUME DReverse PROVE Goal
  <2>1. QKept
    BY <1>1, <1>9 DEF DReverse
  <2> QED  BY <1>0, <1>9, <2>1, ReverseHolds
<1>10. ASSUME DSort PROVE Goal
  <2>1. QKept
    BY <1>10 DEF DSort, Becomes, QKept
  <2> QED  BY <1>0, <1>10, <2>1, SortHolds
<1>11. ASSUME DConcat PROVE Goal
  <2>1. QInv' /\ Queued' = Queued /\ DLists!Joined
    BY <1>11, ConcatHolds
  <2> QED  BY <2>1 DEF Goal, DLists!ListsNext
<1>12. ASSUME DCopy PROVE Goal
  <2>1. QInv' /\ Queued' = Queued /\ DLists!Copied
    BY <1>12, CopyHolds
  <2> QED  BY <2>1 DEF Goal, DLists!ListsNext
<1>13. ASSUME DFree PROVE Goal
  <2>1. QKept
    BY <1>1, <1>13 DEF DFree
  <2>2. QInv' /\ Seconds' = Seconds /\ Queued' = Queued /\ Firsts' = << >>
    BY <1>13, <2>1, FreeHolds
  <2>3. DLists!Released
    BY <2>2 DEF DLists!Released, Firsts, Seconds
  <2> QED  BY <2>2, <2>3 DEF Goal, DLists!ListsNext
<1>14. Goal
  BY <1>2, <1>3, <1>4, <1>5, <1>6, <1>7, <1>8, <1>9, <1>10, <1>11, <1>12, <1>13 DEF DNext
<1> QED  BY <1>14 DEF Goal

DequeStep == \/ \E x \in Data : Queued' \in {<<x>> \o Queued, Append(Queued, x)}
             \/ Queued # << >> /\ Queued' = Tail(Queued)
             \/ Queued' = << >>

\* Of the queue
LEMMA QueueStep ==
  ASSUME QInv, (\E x \in Data : QPushHead(x) \/ QPushTail(x)) \/ QPopHead \/ QFree
  PROVE  QInv' /\ DequeStep /\ Firsts' = Firsts /\ Seconds' = Seconds
<1> DEFINE Goal == QInv' /\ DequeStep /\ Firsts' = Firsts /\ Seconds' = Seconds
<1>1. ASSUME NEW x \in Data, QPushHead(x) PROVE Goal
  BY <1>1, PushHeadHolds DEF DequeStep
<1>2. ASSUME NEW x \in Data, QPushTail(x) PROVE Goal
  BY <1>2, PushTailHolds DEF DequeStep
<1>3. CASE QPopHead
  BY <1>3, PopHeadHolds DEF DequeStep
<1>4. CASE QFree
  BY <1>4, QFreeHolds DEF DequeStep
<1> QED  BY <1>1, <1>2, <1>3, <1>4

LEMMA QUnmoved ==
  ASSUME QInv, UNCHANGED qVars
  PROVE  QInv' /\ Firsts' = Firsts /\ Seconds' = Seconds /\ Queued' = Queued
BY DEF qVars, dVars, QInv, Listed, Spared, InQueue, Firsts, Seconds, Queued

LEMMA QStep ==
  ASSUME QInv, [QNext]_qVars
  PROVE  QInv' /\ [DLists!ListsNext]_<<Firsts, Seconds>> /\ [DequeStep]_Queued
<1>1. CASE DNext /\ UNCHANGED <<qHead, qTail, qLength>>
  <2>1. QInv' /\ Queued' = Queued /\ DLists!ListsNext
    BY <1>1, ListStep
  <2> QED  BY <2>1
<1>2. CASE (\E x \in Data : QPushHead(x) \/ QPushTail(x)) \/ QPopHead \/ QFree
  <2>1. QInv' /\ DequeStep /\ Firsts' = Firsts /\ Seconds' = Seconds
    BY <1>2, QueueStep
  <2> QED  BY <2>1
<1>3. CASE UNCHANGED qVars
  BY <1>3, QUnmoved
<1>4. (DNext /\ UNCHANGED <<qHead, qTail, qLength>>) \/ (\E x \in Data : QPushHead(x) \/ QPushTail(x))
      \/ QPopHead \/ QFree \/ UNCHANGED qVars
  BY DEF QNext
<1> QED  BY <1>1, <1>2, <1>3, <1>4

THEOREM QInvariant == QSpec => []QInv
<1>1. QInit => QInv
  BY QStarts
<1>2. QInv /\ [QNext]_qVars => QInv'
  BY QStep
<1> QED  BY <1>1, <1>2, PTL DEF QSpec

\* The neighbours of a node of a chain
LEMMA ChainLinked ==
  ASSUME NEW h, DProper(h), NEW p, NEW s, DAlong(h, p, s)
  PROVE  /\ \A n \in Members(s) :
              /\ h[n].next # None => h[n].next \in DOMAIN h /\ h[h[n].next].prev = n
              /\ h[n].prev # None => h[n].prev \in DOMAIN h /\ h[h[n].prev].next = n
         /\ p # None => h[p].prev = None
<1>1. /\ s \in Seq(Nodes) /\ Len(s) \in Nat /\ p = Entry(s, 1)
      /\ \A i \in 1..Len(s) : /\ s[i] \in DOMAIN h /\ h[s[i]].next = Entry(s, i + 1) /\ h[s[i]].prev = Entry(s, i - 1)
  BY DEF DAlong, Along
<1>2. ASSUME NEW i \in 1..Len(s)
      PROVE  /\ h[s[i]].next # None => h[s[i]].next \in DOMAIN h /\ h[h[s[i]].next].prev = s[i]
             /\ h[s[i]].prev # None => h[s[i]].prev \in DOMAIN h /\ h[h[s[i]].prev].next = s[i]
  <2>1. ASSUME h[s[i]].next # None PROVE h[s[i]].next \in DOMAIN h /\ h[h[s[i]].next].prev = s[i]
    <3>1. i + 1 \in 1..Len(s) /\ h[s[i]].next = s[i + 1]
      BY <1>1, <2>1 DEF Entry
    <3>2. s[i + 1] \in DOMAIN h /\ h[s[i + 1]].prev = Entry(s, i + 1 - 1) /\ i + 1 - 1 = i
      BY <1>1, <3>1
    <3> QED  BY <3>1, <3>2 DEF Entry
  <2>2. ASSUME h[s[i]].prev # None PROVE h[s[i]].prev \in DOMAIN h /\ h[h[s[i]].prev].next = s[i]
    <3>1. i - 1 \in 1..Len(s) /\ h[s[i]].prev = s[i - 1]
      BY <1>1, <2>2 DEF Entry
    <3>2. s[i - 1] \in DOMAIN h /\ h[s[i - 1]].next = Entry(s, i - 1 + 1) /\ i - 1 + 1 = i
      BY <1>1, <3>1
    <3> QED  BY <3>1, <3>2 DEF Entry
  <2> QED  BY <2>1, <2>2
<1>3. p # None => h[p].prev = None
  <2> SUFFICES ASSUME p # None PROVE h[p].prev = None
    OBVIOUS
  <2>1. 1 \in 1..Len(s) /\ p = s[1] /\ Entry(s, 1 - 1) = None
    BY <1>1 DEF Entry
  <2> QED  BY <1>1, <2>1
<1> QED  BY <1>2, <1>3 DEF Members

LEMMA QInvImplies == QInv => DLinked /\ QShape /\ QTypeOK
<1> SUFFICES ASSUME QInv PROVE DLinked /\ QShape /\ QTypeOK
  OBVIOUS
<1> DEFINE a == Listed
           b == Spared
           c == InQueue
           h == dHeap
<1>1. /\ DProper(h) /\ Proper(h) /\ DAlong(h, dList, a) /\ DAlong(h, dSpare, b) /\ DAlong(h, qHead, c)
      /\ Three(h, dList, a, dSpare, b, qHead, c)
  BY Now
<1>2. /\ Chain = Members(a) /\ InChain(h, dSpare) = Members(b) /\ InChain(h, qHead) = Members(c)
      /\ Follow(h, qHead) = c
  BY <1>1, ThreeAre DEF Chain
<1>3. /\ DOMAIN h = Members(a) \cup Members(b) \cup Members(c)
      /\ Members(a) \cap Members(b) = {} /\ Members(a) \cap Members(c) = {} /\ Members(b) \cap Members(c) = {}
  BY <1>1 DEF Three
<1> HIDE DEF a, b, c, h
<1>4. DLinked
  <2>1. \A n \in Members(a) \cup Members(b) \cup Members(c) :
          /\ h[n].next # None => h[n].next \in DOMAIN h /\ h[h[n].next].prev = n
          /\ h[n].prev # None => h[n].prev \in DOMAIN h /\ h[h[n].prev].next = n
    BY <1>1, ChainLinked
  <2>2. (dList # None => h[dList].prev = None) /\ (dSpare # None => h[dSpare].prev = None)
    BY <1>1, ChainLinked
  <2> QED  BY <1>2, <1>3, <2>1, <2>2 DEF DLinked, h
<1>5. /\ qLength = Len(c) /\ Len(c) \in Nat /\ Len(Queued) = Len(c) /\ LastOf(h, qHead) = qTail
      /\ (qHead = None <=> qLength = 0) /\ (qTail = None <=> qLength = 0)
      /\ \A i \in 1..Len(c) : h[c[i]].prev = Entry(c, i - 1) /\ c[i] \in DOMAIN h /\ c[i] \in Nodes
      /\ qTail = Entry(c, Len(c))
  BY QEnds DEF c, h
<1>6. QShape
  <2>1. \A i \in 1..qLength : h[c[i]].prev = IF i = 1 THEN None ELSE c[i - 1]
    <3> SUFFICES ASSUME NEW i \in 1..qLength PROVE h[c[i]].prev = IF i = 1 THEN None ELSE c[i - 1]
      OBVIOUS
    <3>1. i # 1 <=> i - 1 \in 1..Len(c)
      BY <1>5
    <3> QED  BY <1>5, <3>1 DEF Entry
  <2> QED  BY <1>2, <1>3, <1>5, <2>1 DEF QShape, h
<1>7. QTypeOK
  <2>1. dList \in Nodes \cup {None} /\ dSpare \in Nodes \cup {None} /\ qHead \in Nodes \cup {None}
    BY <1>1, ListIs DEF DAlong
  <2>2. DTypeOK
    BY <1>1, <2>1 DEF DTypeOK, DProper, DCells, h
  <2>3. qTail \in Nodes \cup {None}
    BY <1>5 DEF Entry
  <2>4. Len(c) <= Cardinality(DOMAIN h)
    BY <1>1, FewNodes DEF DAlong
  <2>5. Cardinality(DOMAIN h) <= Cardinality(Nodes) /\ Cardinality(DOMAIN h) \in Nat /\ Cardinality(Nodes) \in Nat
    <3>1. DOMAIN h \subseteq Nodes /\ IsFiniteSet(Nodes)
      BY <1>1, NoNode DEF DProper
    <3> QED  BY <3>1, FS_Subset, FS_CardinalityType
  <2>6. qLength \in 0..Cardinality(Nodes)
    BY <1>5, <2>4, <2>5
  <2> QED  BY <1>5, <2>1, <2>2, <2>3, <2>6 DEF QTypeOK
<1> QED  BY <1>4, <1>6, <1>7

\* The pointers of every node agree with its neighbours', the two lists share no
\* node; the queue's head, tail and length belong to one list and no node is lost.
THEOREM QueueCorrect == QSpec => [](DLinked /\ QShape)
<1>1. QInv => DLinked /\ QShape
  BY QInvImplies
<1> QED  BY <1>1, QInvariant, PTL

\* ... and the fields keep their types (glist.c, gqueue.c).
THEOREM QueueTyped == QSpec => []QTypeOK
<1>1. QInv => QTypeOK
  BY QInvImplies
<1> QED  BY <1>1, QInvariant, PTL

\* The doubly linked lists are the sequences that eglib promises: every call of
\* glist.c is one step of LinkedLists.
THEOREM DListIsSequence == QSpec => DIsSequence
<1>1. QInit => DLists!ListsInit
  BY QStarts DEF DLists!ListsInit, Firsts, Seconds
<1>2. QInv /\ [QNext]_qVars => [DLists!ListsNext]_<<DataOf(dHeap, dList), DataOf(dHeap, dSpare)>>
  BY QStep DEF Firsts, Seconds
<1> QED  BY <1>1, <1>2, QInvariant, PTL DEF QSpec, DIsSequence, DLists!ListsSpec

\* The queue grows at its two ends and shrinks at the front (gqueue.c).
THEOREM QueueIsDeque == QSpec => QIsDeque
<1>1. QInv /\ [QNext]_qVars =>
        [\/ \E x \in Data : Queued' \in {<<x>> \o Queued, Append(Queued, x)}
         \/ Queued # << >> /\ Queued' = Tail(Queued)
         \/ Queued' = << >>]_Queued
  BY QStep DEF DequeStep
<1> QED  BY <1>1, QInvariant, PTL DEF QSpec, QIsDeque

\* g_list_insert_sorted keeps a list in order that is.
THEOREM DListKeepsOrder == QSpec => DKeepsOrder
<1>1. QInv => [(\E x \in Data : DInsertSorted(x)) /\ Ordered(DataOf(dHeap, dList))
                 => Ordered(DataOf(dHeap', dList'))]_dVars
  BY InsertSortedOrdered DEF Firsts
<1> QED  BY <1>1, QInvariant, PTL DEF QSpec, DKeepsOrder

-----------------------------------------------------------------------------
(* The singly linked list: one chain *)

SCells == [data : Data, next : Nodes \cup {None}]

SProper(h) == DOMAIN h \subseteq Nodes /\ \A n \in DOMAIN h : h[n] \in SCells

\* The chain s of the heap h has become the chain t, from q on, and no other node
\* has changed.
SEdit(h, s, g, q, t) ==
  /\ SProper(g) /\ Along(g, q, t)
  /\ DOMAIN g = (DOMAIN h \ Members(s)) \cup Members(t)
  /\ \A m \in DOMAIN h \ Members(s) : m \notin Members(t) /\ g[m] = h[m]

LEMMA SProperIs ==
  ASSUME NEW h, SProper(h)
  PROVE  /\ Proper(h)
         /\ \A n \in DOMAIN h : /\ n \in Nodes /\ n # None /\ h[n].data \in Data
                                /\ h[n].next \in Nodes \cup {None}
                                /\ h[n] = [data |-> h[n].data, next |-> h[n].next]
BY NoNode DEF SProper, Proper, SCells

LEMMA AlongIs ==
  ASSUME NEW h, NEW p, NEW s, Along(h, p, s)
  PROVE  /\ s \in Seq(Nodes) /\ Len(s) \in Nat /\ Distinct(s) /\ p = Entry(s, 1)
         /\ Members(s) \subseteq DOMAIN h
         /\ \A i \in 1..Len(s) : s[i] \in DOMAIN h /\ s[i] \in Nodes /\ s[i] # None /\ s[i] \in Members(s)
                                 /\ h[s[i]].next = Entry(s, i + 1) /\ Entry(s, i) = s[i]
         /\ \A j : Entry(s, j) \in Nodes \cup {None}
         /\ Entry(s, 0) = None /\ Entry(s, Len(s) + 1) = None
         /\ (p = None <=> Len(s) = 0)
<1>1. /\ s \in Seq(Nodes) /\ Len(s) \in Nat /\ Distinct(s) /\ p = Entry(s, 1)
      /\ \A i \in 1..Len(s) : s[i] \in DOMAIN h /\ s[i] \in Nodes /\ s[i] # None /\ s[i] \in Members(s)
                              /\ h[s[i]].next = Entry(s, i + 1)
  BY NoNode DEF Along, Distinct, Members
<1>2. Members(s) \subseteq DOMAIN h
  BY <1>1 DEF Members
<1>3. \A j : Entry(s, j) \in Nodes \cup {None}
  BY <1>1 DEF Entry
<1>4. Entry(s, 0) = None /\ Entry(s, Len(s) + 1) = None /\ \A i \in 1..Len(s) : Entry(s, i) = s[i]
  BY <1>1 DEF Entry
<1>5. p = None <=> Len(s) = 0
  <2>1. CASE Len(s) = 0
    BY <1>1, <2>1 DEF Entry
  <2>2. CASE Len(s) # 0
    <3>1. 1 \in 1..Len(s)
      BY <1>1, <2>2
    <3> QED  BY <1>1, <2>2, <3>1 DEF Entry
  <2> QED  BY <2>1, <2>2
<1> QED  BY <1>1, <1>2, <1>3, <1>4, <1>5

\* g is h with the new node n for x at place k of the chain s.
CellAt(h, s, n, x, k) ==
  IF k = 1 THEN NewCell(h, n, x, Entry(s, 1)) ELSE After(h, s[k - 1], n, x)

LEMMA CellIs ==
  ASSUME NEW h, SProper(h), NEW p, NEW s, Along(h, p, s), NEW n \in Nodes, n \notin DOMAIN h,
         NEW x \in Data, NEW k \in 1..(Len(s) + 1), NEW g, g = CellAt(h, s, n, x, k)
  PROVE  /\ SEdit(h, s, g, IF k = 1 THEN n ELSE p, Ins(s, k, n))
         /\ g[n].data = x /\ \A m \in DOMAIN h : m # n /\ g[m].data = h[m].data
<1> DEFINE t == Ins(s, k, n)
           b == Entry(s, k)
<1>1. /\ s \in Seq(Nodes) /\ Len(s) \in Nat /\ Distinct(s) /\ Members(s) \subseteq DOMAIN h
      /\ \A i \in 1..Len(s) : s[i] \in DOMAIN h /\ s[i] \in Nodes /\ s[i] # None /\ s[i] \in Members(s)
                              /\ h[s[i]].next = Entry(s, i + 1)
      /\ b \in Nodes \cup {None} /\ n # None
  BY AlongIs, NoNode
<1> HIDE DEF b
<1>2. ASSUME k # 1
      PROVE  /\ k - 1 \in 1..Len(s) /\ s[k - 1] \in DOMAIN h /\ h[s[k - 1]].next = b /\ s[k - 1] # n
             /\ \A i \in 1..Len(s) : s[i] = s[k - 1] <=> i = k - 1
  <2>1. k - 1 \in 1..Len(s) /\ k - 1 + 1 = k
    BY <1>1, <1>2
  <2>2. s[k - 1] \in DOMAIN h /\ h[s[k - 1]].next = b
    BY <1>1, <2>1 DEF b
  <2> QED  BY <1>1, <2>1, <2>2 DEF Distinct
<1>3. /\ DOMAIN g = DOMAIN h \cup {n} /\ g[n] = [data |-> x, next |-> b]
      /\ \A m \in DOMAIN h : /\ m # n
                             /\ g[m].data = h[m].data
                             /\ g[m].next = IF k # 1 /\ m = s[k - 1] THEN n ELSE h[m].next
                             /\ (k = 1 \/ m # s[k - 1]) => g[m] = h[m]
                             /\ g[m] \in SCells
  <2>1. \A m \in DOMAIN h : h[m] = [data |-> h[m].data, next |-> h[m].next] /\ h[m] \in SCells /\ m # n
                            /\ h[m].data \in Data
    BY SProperIs DEF SProper
  <2>2. CASE k = 1
    <3>1. g = [m \in DOMAIN h \cup {n} |-> IF m = n THEN [data |-> x, next |-> b] ELSE h[m]]
      BY <2>2 DEF CellAt, NewCell, b
    <3> HIDE DEF SCells
    <3> QED  BY <2>1, <2>2, <3>1
  <2>3. CASE k # 1
    <3> DEFINE f == [m \in DOMAIN h \cup {n} |-> IF m = n THEN [data |-> x, next |-> b] ELSE h[m]]
               e == s[k - 1]
    <3>1. g = [f EXCEPT ![e].next = n]
      BY <1>2, <2>3 DEF CellAt, After, Relink, NewCell
    <3>2. e \in DOMAIN f /\ e # n /\ DOMAIN f = DOMAIN h \cup {n} /\ f[n] = [data |-> x, next |-> b]
          /\ \A m \in DOMAIN h : f[m] = h[m]
      BY <1>2, <2>1, <2>3
    <3> HIDE DEF e, f
    <3>3. DOMAIN g = DOMAIN f /\ g[n] = f[n] /\ \A m \in DOMAIN f : g[m] = IF m = e THEN [f[m] EXCEPT !.next = n] ELSE f[m]
      BY <3>1, <3>2
    <3>4. ASSUME NEW m \in DOMAIN h
          PROVE  /\ g[m].data = h[m].data /\ g[m].next = IF m = e THEN n ELSE h[m].next
                 /\ m # e => g[m] = h[m]
                 /\ g[m] \in SCells
      <4>1. g[m] = IF m = e THEN [h[m] EXCEPT !.next = n] ELSE h[m]
        BY <3>2, <3>3
      <4>2. [h[m] EXCEPT !.next = n] = [data |-> h[m].data, next |-> n]
        BY <2>1
      <4>3. [data |-> h[m].data, next |-> n] \in SCells
        BY <2>1 DEF SCells
      <4> HIDE DEF SCells
      <4> QED  BY <2>1, <4>1, <4>2, <4>3
    <3> QED  BY <2>1, <2>3, <3>2, <3>3, <3>4 DEF e
  <2> QED  BY <2>2, <2>3
<1>4. g[n] \in SCells /\ g[n].data = x /\ g[n].next = b
  BY <1>1, <1>3 DEF SCells
<1>5. SProper(g)
  BY <1>3, <1>4 DEF SProper
<1>6. PutIn(h, s, n, k, g)
  <2> SUFFICES ASSUME NEW i \in 1..Len(s)
               PROVE  g[s[i]].next = IF i = k - 1 THEN n ELSE h[s[i]].next
    BY <1>3, <1>4 DEF PutIn, b
  <2>1. i = k - 1 => k # 1
    OBVIOUS
  <2> QED  BY <1>1, <1>2, <1>3, <2>1
<1>7. Along(g, IF k = 1 THEN n ELSE p, t) /\ Members(t) = Members(s) \cup {n}
  <2> HIDE DEF t
  <2> QED  BY <1>6, SplicedIn DEF t
<1> HIDE DEF t
<1>8. DOMAIN g = (DOMAIN h \ Members(s)) \cup Members(t)
  BY <1>1, <1>3, <1>7
<1>9. \A m \in DOMAIN h \ Members(s) : m \notin Members(t) /\ g[m] = h[m]
  <2> SUFFICES ASSUME NEW m \in DOMAIN h \ Members(s) PROVE m \notin Members(t) /\ g[m] = h[m]
    OBVIOUS
  <2>1. k # 1 => m # s[k - 1]
    BY <1>1, <1>2
  <2> QED  BY <1>3, <1>7, <2>1
<1> QED  BY <1>3, <1>4, <1>5, <1>7, <1>8, <1>9 DEF SEdit, t

\* The k-th node of s unlinked and freed.
CellGone(h, p, s, k) == LET rest == Unlinked(h, p, IF k = 1 THEN None ELSE s[k - 1])
                        IN  [heap |-> Free(rest.heap, {s[k]}), list |-> rest.list]

LEMMA GoneIs ==
  ASSUME NEW h, SProper(h), NEW p, NEW s, Along(h, p, s), NEW k \in 1..Len(s)
  PROVE  /\ SEdit(h, s, CellGone(h, p, s, k).heap, CellGone(h, p, s, k).list, Del(s, k))
         /\ SameData(CellGone(h, p, s, k).heap, h)
         /\ Current(h, p, IF k = 1 THEN None ELSE s[k - 1]) = s[k]
         /\ h[s[k]].next = Entry(Del(s, k), k)
<1> DEFINE t == Del(s, k)
           n == s[k]
           b == h[n].next
           prev == IF k = 1 THEN None ELSE s[k - 1]
           rest == Unlinked(h, p, prev)
           g == Free(rest.heap, {n})
           q == rest.list
<1>1. /\ s \in Seq(Nodes) /\ Len(s) \in Nat /\ Distinct(s) /\ Members(s) \subseteq DOMAIN h /\ p = Entry(s, 1)
      /\ \A i \in 1..Len(s) : s[i] \in DOMAIN h /\ s[i] \in Nodes /\ s[i] # None /\ s[i] \in Members(s)
                              /\ h[s[i]].next = Entry(s, i + 1) /\ Entry(s, i) = s[i]
      /\ \A j : Entry(s, j) \in Nodes \cup {None}
  BY AlongIs
<1>2. n \in DOMAIN h /\ n # None /\ n \in Members(s) /\ b = Entry(s, k + 1) /\ b \in Nodes \cup {None}
  BY <1>1
<1>3. ASSUME k # 1
      PROVE  /\ k - 1 \in 1..Len(s) /\ s[k - 1] \in DOMAIN h /\ h[s[k - 1]].next = n /\ s[k - 1] # None
             /\ s[k - 1] # n /\ \A i \in 1..Len(s) : s[i] = s[k - 1] <=> i = k - 1
  <2>1. k - 1 \in 1..Len(s) /\ k - 1 + 1 = k
    BY <1>1, <1>3
  <2>2. s[k - 1] \in DOMAIN h /\ h[s[k - 1]].next = Entry(s, k) /\ s[k - 1] # None
    BY <1>1, <2>1
  <2>3. \A i \in 1..Len(s) : s[i] = s[k - 1] <=> i = k - 1
    BY <1>1, <2>1 DEF Distinct
  <2>4. k \in 1..Len(s) /\ k # k - 1
    BY <1>1
  <2> QED  BY <1>1, <2>1, <2>2, <2>3, <2>4
<1>4. Current(h, p, prev) = n
  <2>1. k = 1 => p = n
    BY <1>1
  <2> QED  BY <1>3, <2>1 DEF Current
<1>5. rest = IF k = 1 THEN [heap |-> h, list |-> b] ELSE [heap |-> Relink(h, s[k - 1], b), list |-> p]
  <2> HIDE DEF n, b
  <2>1. rest = IF prev = None THEN [heap |-> h, list |-> b] ELSE [heap |-> Relink(h, prev, b), list |-> p]
    BY <1>2, <1>4 DEF Unlinked, b
  <2>2. prev = None <=> k = 1
    BY <1>3
  <2> QED  BY <2>1, <2>2
<1>6. q = IF k = 1 THEN b ELSE p
  BY <1>5
<1> HIDE DEF n, b
<1>7. /\ DOMAIN g = DOMAIN h \ {n}
      /\ \A m \in DOMAIN g : /\ g[m].data = h[m].data
                             /\ g[m].next = IF k # 1 /\ m = s[k - 1] THEN b ELSE h[m].next
                             /\ (k = 1 \/ m # s[k - 1]) => g[m] = h[m]
                             /\ g[m] \in SCells
  <2> HIDE DEF rest
  <2> DEFINE f == rest.heap
  <2>1. \A m \in DOMAIN h : h[m] = [data |-> h[m].data, next |-> h[m].next] /\ h[m] \in SCells /\ h[m].data \in Data
    BY SProperIs DEF SProper
  <2>2. f = IF k = 1 THEN h ELSE [h EXCEPT ![s[k - 1]].next = b]
    BY <1>5 DEF Relink
  <2>3. g = [m \in DOMAIN f \ {n} |-> f[m]]
    BY DEF Free
  <2> DEFINE gg == g
             e == s[k - 1]
  <2> HIDE DEF f, gg, e
  <2>4. DOMAIN f = DOMAIN h /\ \A m \in DOMAIN h : f[m] = IF k # 1 /\ m = e THEN [h[m] EXCEPT !.next = b] ELSE h[m]
    BY <1>3, <2>2 DEF e
  <2>5. DOMAIN gg = DOMAIN h \ {n} /\ \A m \in DOMAIN gg : m \in DOMAIN h /\ gg[m] = f[m]
    BY <2>3, <2>4 DEF gg, f
  <2>6. ASSUME NEW m \in DOMAIN gg
        PROVE  /\ gg[m].data = h[m].data
               /\ gg[m].next = IF k # 1 /\ m = e THEN b ELSE h[m].next
               /\ (k = 1 \/ m # e) => gg[m] = h[m]
               /\ gg[m] \in SCells
    <3>1. m \in DOMAIN h /\ gg[m] = IF k # 1 /\ m = e THEN [h[m] EXCEPT !.next = b] ELSE h[m]
      BY <2>4, <2>5
    <3>2. [h[m] EXCEPT !.next = b] = [data |-> h[m].data, next |-> b]
      BY <2>1, <3>1
    <3>3. [data |-> h[m].data, next |-> b] \in SCells
      BY <1>2, <2>1, <3>1 DEF SCells
    <3> HIDE DEF SCells
    <3> QED  BY <2>1, <3>1, <3>2, <3>3
  <2> QED  BY <2>5, <2>6 DEF gg, f, e
<1> HIDE DEF rest
<1> DEFINE f == g
<1> HIDE DEF f
<1>8. SProper(f) /\ SameData(f, h)
  BY <1>7, SProperIs DEF SProper, SameData, f
<1>9. TakenOut(h, s, k, f)
  <2> SUFFICES ASSUME NEW i \in 1..Len(s), i # k
               PROVE  f[s[i]].next = IF i = k - 1 THEN h[s[k]].next ELSE h[s[i]].next
    BY <1>7 DEF TakenOut, n, f
  <2>1. s[i] # n
    BY <1>1 DEF Distinct, n
  <2>2. s[i] \in DOMAIN f
    BY <1>1, <1>7, <2>1 DEF f
  <2>3. i = k - 1 => k # 1
    OBVIOUS
  <2>4. h[s[k]].next = b
    BY DEF b, n
  <2> QED  BY <1>3, <1>7, <2>2, <2>3, <2>4 DEF f
<1>10. Along(f, IF k = 1 THEN h[p].next ELSE p, t) /\ Members(t) = Members(s) \ {n}
  <2> HIDE DEF t
  <2> QED  BY <1>9, SplicedOut DEF n, t
<1>11. (IF k = 1 THEN h[p].next ELSE p) = q
  <2>1. k = 1 => p = n
    BY <1>1 DEF n
  <2> QED  BY <1>6, <2>1 DEF b
<1>12. /\ Len(t) = Len(s) - 1 /\ \A i \in 1..(Len(s) - 1) : i >= k => i + 1 \in 1..Len(s) /\ t[i] = s[i + 1]
  BY <1>1, DelIs DEF Distinct
<1> HIDE DEF t
<1>13. b = Entry(t, k)
  <2>1. k \in 1..(Len(s) - 1) <=> k + 1 \in 1..Len(s)
    BY <1>1
  <2> QED  BY <1>2, <1>12, <2>1 DEF Entry
<1>14. DOMAIN f = (DOMAIN h \ Members(s)) \cup Members(t)
  BY <1>1, <1>2, <1>7, <1>10 DEF f
<1>15. \A m \in DOMAIN h \ Members(s) : m \notin Members(t) /\ f[m] = h[m]
  <2> SUFFICES ASSUME NEW m \in DOMAIN h \ Members(s) PROVE m \notin Members(t) /\ f[m] = h[m]
    OBVIOUS
  <2>1. (k # 1 => m # s[k - 1]) /\ m \in DOMAIN f
    BY <1>1, <1>2, <1>3, <1>7 DEF f
  <2> QED  BY <1>7, <1>10, <2>1 DEF f
<1>16. SEdit(h, s, f, q, t)
  BY <1>8, <1>10, <1>11, <1>14, <1>15 DEF SEdit
<1>17. CellGone(h, p, s, k) = [heap |-> f, list |-> q]
  BY DEF CellGone, f, n, rest
<1> HIDE DEF q
<1>18. CellGone(h, p, s, k).heap = f /\ CellGone(h, p, s, k).list = q
  BY <1>17
<1> QED  BY <1>4, <1>8, <1>13, <1>16, <1>18 DEF t, b, n

-----------------------------------------------------------------------------
(* Two chains in one heap *)

Two(h, p, a, q, b) ==
  /\ SProper(h) /\ Along(h, p, a) /\ Along(h, q, b)
  /\ Members(a) \cap Members(b) = {} /\ DOMAIN h = Members(a) \cup Members(b)

SOther   == Follow(sHeap, sSpare)
SFirsts  == DataOf(sHeap, sList)
SSeconds == DataOf(sHeap, sSpare)

SInv == Two(sHeap, sList, SChain, sSpare, SOther)

LEMMA TwoAre ==
  ASSUME NEW h, NEW p, NEW a, NEW q, NEW b, Two(h, p, a, q, b)
  PROVE  /\ Follow(h, p) = a /\ Follow(h, q) = b
         /\ DataOf(h, p) = Datas(h, a) /\ DataOf(h, q) = Datas(h, b)
         /\ InChain(h, p) = Members(a) /\ InChain(h, q) = Members(b)
<1>1. Proper(h) /\ Along(h, p, a) /\ Along(h, q, b)
  BY SProperIs DEF Two
<1>2. Follow(h, p) = a /\ DataOf(h, p) = Datas(h, a) /\ InChain(h, p) = Members(a)
  BY <1>1, ListIs
<1>3. Follow(h, q) = b /\ DataOf(h, q) = Datas(h, b) /\ InChain(h, q) = Members(b)
  BY <1>1, ListIs
<1> QED  BY <1>2, <1>3

LEMMA SLeaves ==
  ASSUME NEW a, NEW b, Two(sHeap', sList', a, sSpare', b)
  PROVE  SInv' /\ SChain' = a /\ SOther' = b /\ SFirsts' = Datas(sHeap', a) /\ SSeconds' = Datas(sHeap', b)
<1>1. SChain' = a /\ SOther' = b /\ SFirsts' = Datas(sHeap', a) /\ SSeconds' = Datas(sHeap', b)
  BY TwoAre DEF SChain, SOther, SFirsts, SSeconds
<1> QED  BY <1>1 DEF SInv

LEMMA SNow ==
  ASSUME SInv
  PROVE  /\ Two(sHeap, sList, SChain, sSpare, SOther) /\ SProper(sHeap) /\ Proper(sHeap)
         /\ Along(sHeap, sList, SChain) /\ Along(sHeap, sSpare, SOther)
         /\ SFirsts = Datas(sHeap, SChain) /\ SSeconds = Datas(sHeap, SOther)
         /\ InChain(sHeap, sList) = Members(SChain) /\ Members(SChain) \subseteq DOMAIN sHeap
         /\ LastOf(sHeap, sList) = Entry(SChain, Len(SChain))
<1>1. /\ Two(sHeap, sList, SChain, sSpare, SOther) /\ SProper(sHeap)
      /\ Along(sHeap, sList, SChain) /\ Along(sHeap, sSpare, SOther) /\ Members(SChain) \subseteq DOMAIN sHeap
  BY DEF SInv, Two
<1>2. SFirsts = Datas(sHeap, SChain) /\ SSeconds = Datas(sHeap, SOther) /\ InChain(sHeap, sList) = Members(SChain)
  BY <1>1, TwoAre DEF SFirsts, SSeconds
<1>3. LastOf(sHeap, sList) = Entry(SChain, Len(SChain))
  BY <1>1, SProperIs, ListIs
<1> QED  BY <1>1, <1>2, <1>3, SProperIs

\* What the steps need of the two lists.
LEMMA SEnds ==
  ASSUME SInv
  PROVE  /\ SChain \in Seq(Nodes) /\ Len(SChain) \in Nat /\ Distinct(SChain) /\ sList = Entry(SChain, 1)
         /\ SOther \in Seq(Nodes) /\ Len(SOther) \in Nat /\ Distinct(SOther) /\ sSpare = Entry(SOther, 1)
         /\ (sList = None <=> Len(SChain) = 0) /\ (sSpare = None <=> Len(SOther) = 0)
         /\ SFirsts \in Seq(Data) /\ Len(SFirsts) = Len(SChain) /\ SSeconds \in Seq(Data) /\ Len(SSeconds) = Len(SOther)
         /\ \A i \in 1..Len(SChain) : /\ SFirsts[i] = sHeap[SChain[i]].data /\ SFirsts[i] \in Data
                                      /\ SChain[i] \in DOMAIN sHeap /\ SChain[i] # None /\ SChain[i] \in Nodes
                                      /\ sHeap[SChain[i]].next = Entry(SChain, i + 1) /\ Entry(SChain, i) = SChain[i]
         /\ \A i \in 1..Len(SOther) : SSeconds[i] = sHeap[SOther[i]].data
<1>1. Proper(sHeap) /\ Along(sHeap, sList, SChain) /\ Along(sHeap, sSpare, SOther)
      /\ SFirsts = Datas(sHeap, SChain) /\ SSeconds = Datas(sHeap, SOther)
  BY SNow
<1>2. /\ SFirsts \in Seq(Data) /\ Len(SFirsts) = Len(SChain)
      /\ \A i \in 1..Len(SChain) : SFirsts[i] = sHeap[SChain[i]].data
  BY <1>1, ListIs
<1>3. /\ SSeconds \in Seq(Data) /\ Len(SSeconds) = Len(SOther)
      /\ \A i \in 1..Len(SOther) : SSeconds[i] = sHeap[SOther[i]].data
  BY <1>1, ListIs
<1>4. \A i \in 1..Len(SChain) : SFirsts[i] \in Data
  BY <1>2
<1>5. /\ SChain \in Seq(Nodes) /\ Len(SChain) \in Nat /\ Distinct(SChain) /\ sList = Entry(SChain, 1)
      /\ (sList = None <=> Len(SChain) = 0)
      /\ \A i \in 1..Len(SChain) : /\ SChain[i] \in DOMAIN sHeap /\ SChain[i] # None /\ SChain[i] \in Nodes
                                   /\ sHeap[SChain[i]].next = Entry(SChain, i + 1) /\ Entry(SChain, i) = SChain[i]
  BY <1>1, AlongIs
<1>6. SOther \in Seq(Nodes) /\ Len(SOther) \in Nat /\ Distinct(SOther) /\ sSpare = Entry(SOther, 1)
      /\ (sSpare = None <=> Len(SOther) = 0)
  BY <1>1, AlongIs
<1> QED  BY <1>2, <1>3, <1>4, <1>5, <1>6

\* A step on the first list leaves the second one.
LEMMA SListEdited ==
  ASSUME SInv, NEW t, SEdit(sHeap, SChain, sHeap', sList', t), sSpare' = sSpare
  PROVE  SInv' /\ SChain' = t /\ SFirsts' = Datas(sHeap', t) /\ SSeconds' = SSeconds
<1> DEFINE h == sHeap
           a == SChain
           b == SOther
           g == sHeap'
<1>1. /\ SProper(g) /\ Along(g, sList', t) /\ DOMAIN g = (DOMAIN h \ Members(a)) \cup Members(t)
      /\ \A m \in DOMAIN h \ Members(a) : m \notin Members(t) /\ g[m] = h[m]
  BY DEF SEdit
<1>2. /\ Along(h, sSpare, b) /\ Members(a) \cap Members(b) = {} /\ DOMAIN h = Members(a) \cup Members(b)
      /\ SSeconds = Datas(h, b)
  BY SNow DEF Two
<1> HIDE DEF h, a, b, g
<1>3. \A i \in 1..Len(b) : b[i] \in Members(b)
  BY DEF Members
<1>4. \A i \in 1..Len(b) : b[i] \in DOMAIN g /\ g[b[i]] = h[b[i]]
  BY <1>1, <1>2, <1>3
<1>5. Along(g, sSpare, b) /\ Datas(g, b) = Datas(h, b)
  BY <1>2, <1>4 DEF Along, Datas
<1>6. Members(t) \cap Members(b) = {} /\ DOMAIN g = Members(t) \cup Members(b)
  BY <1>1, <1>2
<1>7. Two(sHeap', sList', t, sSpare', b)
  BY <1>1, <1>5, <1>6 DEF Two, g
<1>8. SInv' /\ SChain' = t /\ SFirsts' = Datas(sHeap', t) /\ SSeconds' = Datas(sHeap', b)
  BY <1>7, SLeaves
<1> QED  BY <1>2, <1>5, <1>8 DEF g

-----------------------------------------------------------------------------
(* The functions of the singly linked list *)

\* A new node at place k.
LEMMA SAddedIs ==
  ASSUME SInv, NEW n \in Nodes, n \notin DOMAIN sHeap, NEW x \in Data, NEW k \in 1..(Len(SChain) + 1),
         sHeap' = CellAt(sHeap, SChain, n, x, k), sList' = (IF k = 1 THEN n ELSE sList), sSpare' = sSpare
  PROVE  SInv' /\ SSeconds' = SSeconds /\ SLists!Inserted
<1> DEFINE s == SChain
           t == Ins(s, k, n)
           g == sHeap'
<1>1. SProper(sHeap) /\ Along(sHeap, sList, s) /\ SFirsts = Datas(sHeap, s)
  BY SNow
<1>2. /\ s \in Seq(Nodes) /\ Len(s) \in Nat /\ \A i \in 1..Len(s) : s[i] \in DOMAIN sHeap
      /\ SFirsts \in Seq(Data) /\ Len(SFirsts) = Len(s)
  BY SEnds
<1>3. g = CellAt(sHeap, s, n, x, k) /\ k \in 1..(Len(s) + 1)
  OBVIOUS
<1> HIDE DEF s, g
<1>4. /\ SEdit(sHeap, s, g, IF k = 1 THEN n ELSE sList, t)
      /\ g[n].data = x /\ \A m \in DOMAIN sHeap : m # n /\ g[m].data = sHeap[m].data
  BY <1>1, <1>3, CellIs
<1>5. SEdit(sHeap, SChain, sHeap', sList', t)
  BY <1>4 DEF s, g
<1> HIDE DEF t
<1>6. SInv' /\ SFirsts' = Datas(g, t) /\ SSeconds' = SSeconds
  BY <1>5, SListEdited DEF g
<1>7. \A i \in 1..Len(s) : g[s[i]].data = sHeap[s[i]].data
  BY <1>2, <1>4
<1>8. SFirsts' = Ins(SFirsts, k, x)
  BY <1>1, <1>2, <1>3, <1>4, <1>6, <1>7, InsDatas DEF t
<1>9. k \in 1..(Len(SFirsts) + 1) /\ SFirsts' = SLists!InsertAt(SFirsts, k, x)
  <2>1. SFirsts \in Seq(Data) /\ k \in 1..(Len(SFirsts) + 1) /\ x \in Data
    BY <1>2, <1>3
  <2>2. SubSeq(SFirsts, 1, k - 1) \o <<x>> \o SubSeq(SFirsts, k, Len(SFirsts)) = Ins(SFirsts, k, x)
    BY <2>1, InsSeqData
  <2> QED  BY <1>8, <2>1, <2>2 DEF SLists!InsertAt
<1> QED  BY <1>6, <1>9 DEF SLists!Inserted, SFirsts

\* Before finds the place of the first wanted node, or the end.
BeforeAt(s, wanted, k) ==
  /\ k \in 1..(Len(s) + 1)
  /\ \A i \in 1..Len(s) : i < k => s[i] \notin wanted
  /\ k \in 1..Len(s) => s[k] \in wanted

LEMMA BeforeIs ==
  ASSUME NEW h, Proper(h), NEW p, NEW s, Along(h, p, s), NEW wanted
  PROVE  \E k : BeforeAt(s, wanted, k) /\ Before(h, p, wanted) = IF k = 1 THEN None ELSE s[k - 1]
<1> DEFINE at == {i \in DOMAIN s : s[i] \in wanted}
           k  == IF at = {} THEN Len(s) + 1 ELSE CHOOSE i \in at : \A j \in at : i <= j
<1>1. DOMAIN s = 1..Len(s) /\ Len(s) \in Nat
  BY DEF Along
<1>2. Before(h, p, wanted) = IF k = 1 THEN None ELSE s[k - 1]
  <2>1. Follow(h, p) = s
    BY FollowIs
  <2> QED  BY <2>1 DEF Before
<1>3. CASE at = {}
  <2>1. k = Len(s) + 1
    BY <1>3
  <2> HIDE DEF k
  <2>2. k \in 1..(Len(s) + 1) /\ k \notin 1..Len(s)
    BY <1>1, <2>1
  <2>3. BeforeAt(s, wanted, k)
    BY <1>1, <1>3, <2>2 DEF BeforeAt
  <2> QED  BY <1>2, <2>3
<1>4. CASE at # {}
  <2>1. at \subseteq Nat
    BY <1>1
  <2>2. k = CHOOSE i \in at : \A j \in at : i <= j
    BY <1>4
  <2> HIDE DEF at, k
  <2>3. \E i \in at : \A j \in at : i <= j
    BY <1>4, <2>1, LeastPlace
  <2>4. k \in at /\ \A j \in at : k <= j
    BY <2>2, <2>3
  <2>5. k \in 1..Len(s) /\ s[k] \in wanted
    BY <1>1, <2>4 DEF at
  <2>6. \A i \in 1..Len(s) : i < k => s[i] \notin wanted
    BY <1>1, <2>4, <2>5 DEF at
  <2>7. BeforeAt(s, wanted, k)
    BY <1>1, <2>5, <2>6 DEF BeforeAt
  <2> QED  BY <1>2, <2>7
<1> QED  BY <1>3, <1>4

LEMMA SPrependHolds ==
  ASSUME SInv, NEW x \in Data, SPrepend(x)
  PROVE  SInv' /\ SSeconds' = SSeconds /\ SLists!Inserted
<1>1. PICK n \in SFresh : SBecomes(NewCell(sHeap, n, x, sList), n)
  BY DEF SPrepend
<1>2. 1 \in 1..(Len(SChain) + 1) /\ sList = Entry(SChain, 1)
  BY SEnds
<1>3. n \in Nodes /\ n \notin DOMAIN sHeap
  BY DEF SFresh
<1>4. sHeap' = CellAt(sHeap, SChain, n, x, 1) /\ sList' = n /\ sSpare' = sSpare
  BY <1>1, <1>2 DEF SBecomes, CellAt
<1> QED  BY <1>2, <1>3, <1>4, SAddedIs

LEMMA SAppendHolds ==
  ASSUME SInv, NEW x \in Data, SAppend(x)
  PROVE  SInv' /\ SSeconds' = SSeconds /\ SLists!Inserted
<1>1. PICK n \in SFresh :
        IF sList = None THEN SBecomes(NewCell(sHeap, n, x, None), n)
        ELSE SBecomes(Relink(NewCell(sHeap, n, x, None), LastOf(sHeap, sList), n), sList)
  BY DEF SAppend
<1> DEFINE l == Len(SChain)
           k == l + 1
<1>2. l \in Nat /\ (sList = None <=> l = 0) /\ LastOf(sHeap, sList) = Entry(SChain, l)
      /\ \A i \in 1..l : sHeap[SChain[i]].next = Entry(SChain, i + 1) /\ SChain[i] \in DOMAIN sHeap
  BY SNow, SEnds
<1>3. n \in Nodes /\ n \notin DOMAIN sHeap /\ n # None
  BY NoNode DEF SFresh
<1>4. Entry(SChain, k) = None
  BY <1>2 DEF Entry
<1>5. CASE sList = None
  <2>1. k = 1
    BY <1>2, <1>5
  <2>2. sHeap' = CellAt(sHeap, SChain, n, x, 1) /\ sList' = n /\ sSpare' = sSpare /\ 1 \in 1..(l + 1)
    BY <1>1, <1>2, <1>4, <1>5, <2>1 DEF SBecomes, CellAt
  <2> QED  BY <1>3, <2>2, SAddedIs
<1>6. CASE sList # None
  <2>1. k # 1 /\ k - 1 = l /\ l \in 1..l /\ k \in 1..(l + 1) /\ l + 1 = k
    BY <1>2, <1>6
  <2>2. LastOf(sHeap, sList) = SChain[k - 1] /\ sHeap[SChain[k - 1]].next = None
    BY <1>2, <1>4, <2>1 DEF Entry
  <2>3. sHeap' = Relink(NewCell(sHeap, n, x, None), SChain[k - 1], n) /\ sList' = sList /\ sSpare' = sSpare
    BY <1>1, <1>6, <2>2 DEF SBecomes
  <2>4. sHeap' = CellAt(sHeap, SChain, n, x, k)
    BY <2>1, <2>2, <2>3 DEF CellAt, After
  <2> HIDE DEF k
  <2> QED  BY <1>3, <2>1, <2>3, <2>4, SAddedIs
<1> QED  BY <1>5, <1>6

\* An insertion where Before says.
LEMMA SInsertedIs ==
  ASSUME SInv, NEW x \in Data, NEW n \in SFresh, NEW wanted, NEW prev, prev = Before(sHeap, sList, wanted),
         IF prev = None THEN SBecomes(NewCell(sHeap, n, x, sList), n)
         ELSE SBecomes(After(sHeap, prev, n, x), sList)
  PROVE  SInv' /\ SSeconds' = SSeconds /\ SLists!Inserted
<1> DEFINE s == SChain
<1>1. Proper(sHeap) /\ Along(sHeap, sList, s)
  BY SNow
<1>2. n \in Nodes /\ n \notin DOMAIN sHeap
  BY DEF SFresh
<1>3. PICK k : BeforeAt(s, wanted, k) /\ prev = IF k = 1 THEN None ELSE s[k - 1]
  BY <1>1, BeforeIs
<1>4. k \in 1..(Len(s) + 1)
  BY <1>3 DEF BeforeAt
<1>5. sList = Entry(s, 1) /\ Len(s) \in Nat /\ \A i \in 1..Len(s) : s[i] # None
  BY SEnds
<1>6. k # 1 => s[k - 1] # None
  <2>1. k # 1 => k - 1 \in 1..Len(s)
    BY <1>4, <1>5
  <2> QED  BY <1>5, <2>1
<1>7. sHeap' = CellAt(sHeap, s, n, x, k) /\ sList' = (IF k = 1 THEN n ELSE sList) /\ sSpare' = sSpare
  BY <1>3, <1>5, <1>6 DEF SBecomes, CellAt
<1> HIDE DEF s
<1> QED  BY <1>2, <1>4, <1>7, SAddedIs DEF s

LEMMA SInsertBeforeHolds ==
  ASSUME SInv, NEW e, NEW x \in Data, SInsertBefore(e, x)
  PROVE  SInv' /\ SSeconds' = SSeconds /\ SLists!Inserted
<1> DEFINE prev == Before(sHeap, sList, {e})
<1>1. PICK n \in SFresh :
        IF prev = None THEN SBecomes(NewCell(sHeap, n, x, sList), n)
        ELSE SBecomes(After(sHeap, prev, n, x), sList)
  BY DEF SInsertBefore
<1> QED  BY <1>1, SInsertedIs

LEMMA SInsertSortedHolds ==
  ASSUME SInv, NEW x \in Data, SInsertSorted(x)
  PROVE  SInv' /\ SSeconds' = SSeconds /\ SLists!Inserted
<1> DEFINE wanted == {m \in DOMAIN sHeap : Key[sHeap[m].data] > Key[x]}
           prev == Before(sHeap, sList, wanted)
<1>1. PICK n \in SFresh :
        IF prev = None THEN SBecomes(NewCell(sHeap, n, x, sList), n)
        ELSE SBecomes(After(sHeap, prev, n, x), sList)
  BY DEF SInsertSorted
<1> HIDE DEF wanted
<1> QED  BY <1>1, SInsertedIs

\* The node behind the one that a search has found
LEMMA CurrentIs ==
  ASSUME NEW h, NEW p, NEW s, Along(h, p, s), NEW k \in 1..(Len(s) + 1)
  PROVE  /\ Current(h, p, IF k = 1 THEN None ELSE s[k - 1]) = Entry(s, k)
         /\ k \in 1..Len(s) => Entry(s, k) = s[k] /\ s[k] # None
         /\ k \notin 1..Len(s) => Entry(s, k) = None
<1>1. /\ Len(s) \in Nat /\ p = Entry(s, 1)
      /\ \A i \in 1..Len(s) : s[i] # None /\ h[s[i]].next = Entry(s, i + 1)
  BY AlongIs
<1>2. Current(h, p, IF k = 1 THEN None ELSE s[k - 1]) = Entry(s, k)
  <2>1. CASE k = 1
    BY <1>1, <2>1 DEF Current
  <2>2. CASE k # 1
    <3>1. k - 1 \in 1..Len(s) /\ k - 1 + 1 = k
      BY <1>1, <2>2
    <3>2. s[k - 1] # None /\ h[s[k - 1]].next = Entry(s, k)
      BY <1>1, <3>1
    <3> QED  BY <2>2, <3>2 DEF Current
  <2> QED  BY <2>1, <2>2
<1> QED  BY <1>1, <1>2 DEF Entry

\* A node of the list goes.
LEMMA SDropped ==
  ASSUME SInv, NEW k \in 1..Len(SChain),
         sHeap' = CellGone(sHeap, sList, SChain, k).heap, sList' = CellGone(sHeap, sList, SChain, k).list,
         sSpare' = sSpare
  PROVE  SInv' /\ SSeconds' = SSeconds /\ SLists!Removed
<1> DEFINE s == SChain
           t == Del(s, k)
           g == sHeap'
<1>1. SProper(sHeap) /\ Along(sHeap, sList, s) /\ SFirsts = Datas(sHeap, s)
  BY SNow
<1>2. s \in Seq(Nodes) /\ Distinct(s) /\ SFirsts \in Seq(Data) /\ Len(SFirsts) = Len(s)
  BY SEnds
<1>3. g = CellGone(sHeap, sList, s, k).heap /\ sList' = CellGone(sHeap, sList, s, k).list /\ k \in 1..Len(s)
  OBVIOUS
<1> HIDE DEF s, g
<1>4. SEdit(sHeap, s, g, sList', t) /\ SameData(g, sHeap)
  BY <1>1, <1>3, GoneIs
<1>5. SEdit(sHeap, SChain, sHeap', sList', t)
  BY <1>4 DEF s, g
<1> HIDE DEF t
<1>6. SInv' /\ SFirsts' = Datas(g, t) /\ SSeconds' = SSeconds
  BY <1>5, SListEdited DEF g
<1>7. \A i \in 1..Len(t) : g[t[i]].data = sHeap[t[i]].data
  <2>1. \A i \in 1..Len(t) : t[i] \in DOMAIN g
    BY <1>4 DEF SEdit, Along
  <2> QED  BY <1>4, <2>1 DEF SameData
<1>8. Datas(g, t) = Del(Datas(sHeap, s), k)
  BY <1>2, <1>3, <1>7, DelDatas DEF t
<1>9. SFirsts' = Del(SFirsts, k)
  BY <1>1, <1>6, <1>8
<1>10. k \in DOMAIN SFirsts /\ SFirsts' = SLists!RemoveAt(SFirsts, k)
  <2>1. k \in 1..Len(SFirsts) /\ k \in DOMAIN SFirsts
    BY <1>2, <1>3
  <2> QED  BY <1>2, <1>9, <2>1, DelSeq DEF SLists!RemoveAt
<1> QED  BY <1>6, <1>10 DEF SLists!Removed, SFirsts

LEMMA SRemoveHolds ==
  ASSUME SInv, NEW x \in Data, SRemove(x)
  PROVE  SInv' /\ SSeconds' = SSeconds /\ SLists!Removed
<1> DEFINE s == SChain
           wanted == With(sHeap, x)
           prev == Before(sHeap, sList, wanted)
           n == Current(sHeap, sList, prev)
           rest == Unlinked(sHeap, sList, prev)
<1>1. n # None /\ sHeap' = Free(rest.heap, {n}) /\ sList' = rest.list /\ sSpare' = sSpare
  BY DEF SRemove, SBecomes
<1>2. Proper(sHeap) /\ Along(sHeap, sList, s)
  BY SNow
<1>3. PICK k : BeforeAt(s, wanted, k) /\ prev = IF k = 1 THEN None ELSE s[k - 1]
  <2> HIDE DEF wanted
  <2> QED  BY <1>2, BeforeIs
<1>4. k \in 1..(Len(s) + 1)
  BY <1>3 DEF BeforeAt
<1> HIDE DEF s, wanted, prev
<1>5. k \in 1..Len(s) /\ n = s[k]
  BY <1>1, <1>2, <1>3, <1>4, CurrentIs
<1>6. /\ sHeap' = CellGone(sHeap, sList, s, k).heap
      /\ sList' = CellGone(sHeap, sList, s, k).list
  BY <1>1, <1>3, <1>5 DEF CellGone
<1> QED  BY <1>1, <1>5, <1>6, SDropped DEF s

LEMMA SDeleteHolds ==
  ASSUME SInv, NEW n \in InChain(sHeap, sList), SDelete(n)
  PROVE  SInv' /\ SSeconds' = SSeconds /\ SLists!Removed
<1> DEFINE s == SChain
           prev == Before(sHeap, sList, {n})
           rest == Unlinked(sHeap, sList, prev)
<1>1. sHeap' = Free(rest.heap, {n}) /\ sList' = rest.list /\ sSpare' = sSpare
  BY DEF SDelete, SBecomes
<1>2. Proper(sHeap) /\ Along(sHeap, sList, s)
  BY SNow
<1>3. PICK k : BeforeAt(s, {n}, k) /\ prev = IF k = 1 THEN None ELSE s[k - 1]
  BY <1>2, BeforeIs
<1>4. PICK j \in 1..Len(s) : n = s[j]
  BY SNow DEF Members
<1>5. Len(s) \in Nat
  BY SEnds
<1>6. k \in 1..Len(s) /\ s[k] = n
  <2>1. k \in 1..(Len(s) + 1) /\ ~(j < k)
    BY <1>3, <1>4 DEF BeforeAt
  <2>2. k \in 1..Len(s)
    BY <1>5, <2>1
  <2> QED  BY <1>3, <2>2 DEF BeforeAt
<1> HIDE DEF s, prev
<1>7. /\ sHeap' = CellGone(sHeap, sList, s, k).heap
      /\ sList' = CellGone(sHeap, sList, s, k).list
  BY <1>1, <1>3, <1>6 DEF CellGone
<1> QED  BY <1>1, <1>6, <1>7, SDropped DEF s

-----------------------------------------------------------------------------
(* Laid out anew *)

SLays(h, s, g, t) ==
  /\ SProper(g) /\ DOMAIN g = (DOMAIN h \ Members(s)) \cup Members(t)
  /\ \A m \in DOMAIN h \ Members(s) : m \notin Members(t) /\ g[m] = h[m]
  /\ \A i \in 1..Len(t) : g[t[i]].next = Entry(t, i + 1)

LEMMA SLaid ==
  ASSUME NEW h, NEW s, NEW t \in Seq(Nodes), Distinct(t), NEW g, SLays(h, s, g, t)
  PROVE  SEdit(h, s, g, Entry(t, 1), t)
<1>1. \A i \in 1..Len(t) : t[i] \in DOMAIN g
  BY DEF SLays, Members
<1>2. Along(g, Entry(t, 1), t)
  BY <1>1 DEF Along, SLays, Distinct
<1> QED  BY <1>2 DEF SLays, SEdit

\* The list in another order
LEMMA SReordered ==
  ASSUME SInv, NEW t \in Seq(Nodes), Distinct(t), Members(t) = Members(SChain),
         sHeap' = InOrder(sHeap, t), sList' = Entry(t, 1), sSpare' = sSpare
  PROVE  SInv' /\ SSeconds' = SSeconds /\ SFirsts' = [i \in 1..Len(t) |-> sHeap[t[i]].data]
<1> DEFINE h == sHeap
           g == sHeap'
           n == Len(t)
           At(m) == CHOOSE k \in DOMAIN t : t[k] = m
<1>1. SProper(h) /\ Members(t) \subseteq DOMAIN h
  BY SNow
<1>2. g = [m \in DOMAIN h |->
             IF \A i \in DOMAIN t : t[i] # m THEN h[m]
             ELSE [h[m] EXCEPT !.next = IF At(m) = Len(t) THEN None ELSE t[At(m) + 1]]]
  BY DEF InOrder
<1>3. DOMAIN t = 1..n /\ n \in Nat /\ \A i \in 1..n : t[i] \in Nodes /\ t[i] \in Members(t) /\ t[i] \in DOMAIN h
  BY <1>1 DEF Members
<1> HIDE DEF h, g, n
<1>4. \A i \in 1..n : At(t[i]) = i
  <2> SUFFICES ASSUME NEW i \in 1..n PROVE At(t[i]) = i
    OBVIOUS
  <2>1. \A k \in DOMAIN t : t[k] = t[i] <=> k = i
    BY <1>3 DEF Distinct, n
  <2> QED  BY <1>3, <2>1
<1> HIDE DEF At
<1>5. \A m \in DOMAIN h : h[m] = [data |-> h[m].data, next |-> h[m].next] /\ h[m] \in SCells /\ h[m].data \in Data
  BY <1>1, SProperIs DEF SProper
<1>6. DOMAIN g = DOMAIN h /\ \A m \in DOMAIN h : m \notin Members(t) => g[m] = h[m]
  BY <1>2, <1>3 DEF Members, n
<1>7. ASSUME NEW i \in 1..n
      PROVE  g[t[i]].data = h[t[i]].data /\ g[t[i]].next = Entry(t, i + 1) /\ g[t[i]] \in SCells
  <2> DEFINE m == t[i]
             b == IF i = n THEN None ELSE t[i + 1]
  <2>1. m \in DOMAIN h /\ ~(\A k \in DOMAIN t : t[k] # m) /\ At(m) = i
    BY <1>3, <1>4
  <2>2. b = Entry(t, i + 1)
    <3>1. n \in Nat /\ (i + 1 \in 1..n <=> i # n)
      BY <1>3
    <3> QED  BY <3>1 DEF Entry, n
  <2>3. b \in Nodes \cup {None}
    <3>1. i # n => i + 1 \in 1..n
      BY <1>3
    <3> QED  BY <1>3, <3>1
  <2>4. g[m] = [h[m] EXCEPT !.next = b]
    <3> HIDE DEF m
    <3>1. g[m] = IF \A k \in DOMAIN t : t[k] # m THEN h[m]
                 ELSE [h[m] EXCEPT !.next = IF At(m) = Len(t) THEN None ELSE t[At(m) + 1]]
      BY <1>2, <2>1
    <3> QED  BY <2>1, <3>1 DEF n
  <2> HIDE DEF b, m
  <2>5. g[m] = [data |-> h[m].data, next |-> b] /\ h[m].data \in Data
    BY <1>5, <2>1, <2>4
  <2>6. g[m] \in SCells
    BY <2>3, <2>5 DEF SCells
  <2>7. g[m].data = h[m].data /\ g[m].next = b
    BY <2>5
  <2> QED  BY <2>2, <2>6, <2>7 DEF m
<1>8. SProper(g)
  <2> SUFFICES ASSUME NEW m \in DOMAIN g PROVE g[m] \in SCells
    BY <1>1, <1>6 DEF SProper
  <2>1. CASE m \in Members(t)
    <3>1. PICK i \in 1..n : m = t[i]
      BY <2>1 DEF Members, n
    <3> QED  BY <1>7, <3>1
  <2>2. CASE m \notin Members(t)
    BY <1>5, <1>6, <2>2
  <2> QED  BY <2>1, <2>2
<1>9. SLays(h, SChain, g, t)
  <2>1. DOMAIN g = (DOMAIN h \ Members(SChain)) \cup Members(t)
    BY <1>1, <1>6
  <2> QED  BY <1>6, <1>7, <1>8, <2>1 DEF SLays, n
<1>10. SEdit(sHeap, SChain, sHeap', sList', t)
  BY <1>9, SLaid DEF h, g
<1>11. SInv' /\ SFirsts' = Datas(sHeap', t) /\ SSeconds' = SSeconds
  BY <1>10, SListEdited
<1>12. Datas(sHeap', t) = [i \in 1..Len(t) |-> sHeap[t[i]].data]
  BY <1>7 DEF Datas, g, h, n
<1> QED  BY <1>11, <1>12

LEMMA BackwardIs ==
  ASSUME NEW S, NEW s \in Seq(S), Distinct(s), NEW t, t = [i \in 1..Len(s) |-> s[Len(s) - i + 1]]
  PROVE  /\ t \in Seq(S) /\ Len(t) = Len(s) /\ Distinct(t) /\ Members(t) = Members(s)
         /\ Entry(t, 1) = Entry(s, Len(s))
<1> DEFINE n == Len(s)
<1>1. n \in Nat /\ \A i \in 1..n : n - i + 1 \in 1..n /\ n - (n - i + 1) + 1 = i
  OBVIOUS
<1>2. t \in Seq(S) /\ Len(t) = n /\ \A i \in 1..n : t[i] = s[n - i + 1]
  <2>1. \A i \in 1..n : s[n - i + 1] \in S
    BY <1>1
  <2> QED  BY <1>1, <2>1
<1> HIDE DEF n
<1>3. Distinct(t)
  <2> SUFFICES ASSUME NEW i \in 1..n, NEW j \in 1..n, t[i] = t[j] PROVE i = j
    BY <1>2 DEF Distinct
  <2>1. n - i + 1 = n - j + 1
    BY <1>1, <1>2 DEF Distinct, n
  <2> QED  BY <1>1, <2>1
<1>4. Members(t) = Members(s)
  <2>1. \A i \in 1..n : t[i] \in Members(s)
    BY <1>1, <1>2 DEF Members, n
  <2>2. ASSUME NEW i \in 1..n PROVE s[i] \in Members(t)
    <3>1. n - i + 1 \in 1..n /\ t[n - i + 1] = s[n - (n - i + 1) + 1]
      BY <1>1, <1>2
    <3> QED  BY <1>1, <1>2, <3>1 DEF Members
  <2>3. Members(t) \subseteq Members(s)
    BY <1>2, <2>1 DEF Members
  <2>4. Members(s) \subseteq Members(t)
    BY <2>2 DEF Members, n
  <2> QED  BY <2>3, <2>4
<1>5. Entry(t, 1) = Entry(s, n)
  <2>1. 1 \in 1..n => n - 1 + 1 = n /\ n \in 1..n
    BY <1>1
  <2>2. 1 \notin 1..n => n \notin 1..n
    BY <1>1
  <2> QED  BY <1>2, <2>1, <2>2 DEF Entry, n
<1> QED  BY <1>2, <1>3, <1>4, <1>5 DEF n

LEMMA SReverseHolds ==
  ASSUME SInv, SReverse
  PROVE  SInv' /\ SSeconds' = SSeconds /\ SLists!Reversed
<1> DEFINE s == SChain
           n == Len(s)
           t == [i \in 1..n |-> s[n - i + 1]]
<1>1. /\ s \in Seq(Nodes) /\ Distinct(s) /\ n \in Nat /\ Len(SFirsts) = n
      /\ LastOf(sHeap, sList) = Entry(s, n) /\ \A i \in 1..n : SFirsts[i] = sHeap[s[i]].data
  BY SNow, SEnds
<1>2. sHeap' = InOrder(sHeap, t) /\ sList' = LastOf(sHeap, sList) /\ sSpare' = sSpare
  BY DEF SReverse, SBecomes, Reverse
<1>3. \A i \in 1..n : t[i] = s[n - i + 1] /\ n - i + 1 \in 1..n
  BY <1>1
<1>4. t \in Seq(Nodes) /\ Len(t) = n /\ Distinct(t) /\ Members(t) = Members(s) /\ Entry(t, 1) = Entry(s, n)
  <2> DEFINE u == t
  <2>1. u = [i \in 1..Len(s) |-> s[Len(s) - i + 1]]
    OBVIOUS
  <2> HIDE DEF u, s
  <2>2. u \in Seq(Nodes) /\ Len(u) = Len(s) /\ Distinct(u) /\ Members(u) = Members(s) /\ Entry(u, 1) = Entry(s, Len(s))
    BY <1>1, <2>1, BackwardIs
  <2> QED  BY <2>2 DEF u
<1> HIDE DEF t
<1>5. SInv' /\ SSeconds' = SSeconds /\ SFirsts' = [i \in 1..n |-> sHeap[t[i]].data]
  BY <1>1, <1>2, <1>4, SReordered
<1>6. SFirsts' = [i \in 1..n |-> SFirsts[n - i + 1]]
  BY <1>1, <1>3, <1>5
<1>7. SFirsts' = SLists!Reverse(SFirsts)
  BY <1>1, <1>6 DEF SLists!Reverse
<1> QED  BY <1>5, <1>7 DEF SLists!Reversed, SFirsts

LEMMA SSortHolds ==
  ASSUME SInv, SSort
  PROVE  SInv' /\ SSeconds' = SSeconds /\ SLists!SortedStably
<1> DEFINE s == SChain
           n == Len(s)
           t == StableOrder(sHeap, s)
<1>1. /\ s \in Seq(Nodes) /\ Distinct(s) /\ n \in Nat /\ Len(SFirsts) = n /\ SFirsts \in Seq(Data)
      /\ \A i \in 1..n : SFirsts[i] = sHeap[s[i]].data /\ sHeap[s[i]].data \in Data
  BY SEnds
<1>2. n > 1 /\ sHeap' = InOrder(sHeap, t) /\ sList' = t[1] /\ sSpare' = sSpare
  BY DEF SSort, SBecomes
<1> HIDE DEF s
<1>3. t \in Seq(Nodes) /\ Len(t) = n /\ Distinct(t) /\ Members(t) = Members(s) /\ \E p : Sorts(sHeap, s, t, p)
  <2> DEFINE u == t
  <2>1. u = StableOrder(sHeap, s)
    OBVIOUS
  <2> HIDE DEF u
  <2>2. u \in Seq(Nodes) /\ Len(u) = Len(s) /\ Distinct(u) /\ Members(u) = Members(s) /\ \E p : Sorts(sHeap, s, u, p)
    BY <1>1, <2>1, StableIs
  <2> QED  BY <2>2 DEF u
<1> HIDE DEF t
<1>4. PICK p : Sorts(sHeap, s, t, p)
  BY <1>3
<1> HIDE DEF n
<1>5. sList' = Entry(t, 1)
  <2>1. 1 \in 1..n
    BY <1>1, <1>2
  <2> QED  BY <1>2, <1>3, <2>1 DEF Entry
<1>6. SInv' /\ SSeconds' = SSeconds /\ SFirsts' = [i \in 1..n |-> sHeap[t[i]].data]
  BY <1>2, <1>3, <1>5, SReordered DEF s
<1>7. p \in [1..n -> 1..n] /\ \A i \in 1..n : t[i] = s[p[i]]
  BY <1>4 DEF Sorts, n
<1>8. DOMAIN SFirsts = 1..n
  BY <1>1
<1>9. SFirsts' = [i \in DOMAIN SFirsts |-> SFirsts[p[i]]]
  BY <1>1, <1>6, <1>7, <1>8
<1>10. ASSUME NEW i \in DOMAIN p, NEW j \in DOMAIN p, i < j
       PROVE  \/ Key[SFirsts[p[i]]] < Key[SFirsts[p[j]]]
              \/ Key[SFirsts[p[i]]] = Key[SFirsts[p[j]]] /\ p[i] < p[j]
  <2>1. i \in 1..n /\ j \in 1..n
    BY <1>7
  <2>2. p[i] \in 1..n /\ p[j] \in 1..n
    BY <1>7, <2>1
  <2>3. \/ Key[sHeap[s[p[i]]].data] < Key[sHeap[s[p[j]]].data]
        \/ Key[sHeap[s[p[i]]].data] = Key[sHeap[s[p[j]]].data] /\ p[i] < p[j]
    BY <1>4, <1>10, <2>1 DEF Sorts, n
  <2> QED  BY <1>1, <2>2, <2>3
<1>11. SLists!SortedStably
  <2>1. p \in [DOMAIN SFirsts -> DOMAIN SFirsts]
    BY <1>7, <1>8
  <2> QED  BY <1>9, <1>10, <2>1 DEF SLists!SortedStably, SFirsts
<1> QED  BY <1>6, <1>11

-----------------------------------------------------------------------------
(* Joining, copying and freeing *)

LEMMA SConcatHolds ==
  ASSUME SInv, SConcat
  PROVE  SInv' /\ SLists!Joined
<1> DEFINE h == sHeap
           a == SChain
           b == SOther
           t == a \o b
           end == LastOf(sHeap, sList)
           g == sHeap'
           n == Len(a)
           l == Len(b)
<1>1. /\ SProper(h) /\ Along(h, sList, a) /\ Along(h, sSpare, b)
      /\ Members(a) \cap Members(b) = {} /\ DOMAIN h = Members(a) \cup Members(b)
  BY SNow DEF Two
<1>2. /\ sSpare # None /\ g = IF sList = None THEN h ELSE [h EXCEPT ![end].next = sSpare]
      /\ sList' = IF sList = None THEN sSpare ELSE sList
      /\ sSpare' = None
  BY DEF SConcat, Relink
<1>3. /\ a \in Seq(Nodes) /\ Distinct(a) /\ b \in Seq(Nodes) /\ Distinct(b) /\ n \in Nat /\ l \in Nat
      /\ sList = Entry(a, 1) /\ sSpare = Entry(b, 1) /\ end = Entry(a, n)
      /\ (sList = None <=> n = 0) /\ l # 0
  BY <1>2, SNow, SEnds
<1>4. /\ \A i \in 1..n : a[i] \in DOMAIN h /\ h[a[i]].next = Entry(a, i + 1) /\ a[i] \in Members(a)
      /\ \A i \in 1..l : b[i] \in DOMAIN h /\ h[b[i]].next = Entry(b, i + 1) /\ b[i] \in Members(b)
  BY <1>1 DEF Along, Members
<1>5. /\ Len(SFirsts) = n /\ SFirsts \in Seq(Data) /\ Len(SSeconds) = l /\ SSeconds \in Seq(Data)
      /\ \A i \in 1..n : SFirsts[i] = h[a[i]].data
      /\ \A i \in 1..l : SSeconds[i] = h[b[i]].data
  BY SEnds
<1> HIDE DEF a, b, g, h, end
<1>6. /\ t \in Seq(Nodes) /\ Len(t) = Len(a) + Len(b) /\ Distinct(t) /\ Members(t) = Members(a) \cup Members(b)
      /\ \A i \in 1..Len(a) : t[i] = a[i] /\ i \in 1..Len(t)
      /\ \A i \in 1..Len(b) : t[Len(a) + i] = b[i] /\ Len(a) + i \in 1..Len(t)
      /\ \A i \in 1..Len(t) : i \in 1..Len(a) \/ i - Len(a) \in 1..Len(b)
  BY <1>1, <1>3, ChainsMeet
<1>7. /\ t \in Seq(Nodes) /\ Len(t) = n + l /\ Distinct(t) /\ Members(t) = Members(a) \cup Members(b)
      /\ \A i \in 1..n : t[i] = a[i] /\ i \in 1..Len(t)
      /\ \A i \in 1..l : t[n + i] = b[i] /\ n + i \in 1..Len(t)
      /\ \A i \in 1..Len(t) : i \in 1..n \/ i - n \in 1..l
  BY <1>6
<1> HIDE DEF t, n, l
<1>8. ASSUME sList # None
      PROVE  /\ n \in 1..n /\ 1 \in 1..l /\ end = a[n] /\ sSpare = b[1] /\ end \in DOMAIN h /\ sSpare \in Nodes
             /\ \A i \in 1..n : a[i] = end <=> i = n
             /\ \A i \in 1..l : b[i] # end
  <2>1. n \in 1..n /\ 1 \in 1..l
    BY <1>3, <1>8
  <2>2. end = a[n] /\ sSpare = b[1]
    BY <1>3, <2>1 DEF Entry, n, l
  <2>3. b[1] \in Nodes
    BY <1>3, <2>1 DEF l
  <2>4. \A i \in 1..n : a[i] = end <=> i = n
    BY <1>3, <2>1, <2>2 DEF Distinct, n
  <2>5. \A i \in 1..l : b[i] # end
    BY <1>1, <1>4, <2>1, <2>2
  <2> QED  BY <1>4, <2>1, <2>2, <2>3, <2>4, <2>5
<1>9. DOMAIN g = DOMAIN h
  BY <1>2
<1>10. ASSUME NEW m \in DOMAIN h
       PROVE  /\ g[m].data = h[m].data /\ g[m] \in SCells
              /\ g[m].next = IF sList # None /\ m = end THEN sSpare ELSE h[m].next
  <2>1. h[m] = [data |-> h[m].data, next |-> h[m].next] /\ h[m] \in SCells /\ h[m].data \in Data
    BY <1>1, SProperIs DEF SProper
  <2>2. g[m] = IF sList # None /\ m = end THEN [h[m] EXCEPT !.next = sSpare] ELSE h[m]
    BY <1>2, <1>8
  <2>3. [h[m] EXCEPT !.next = sSpare] = [data |-> h[m].data, next |-> sSpare]
    BY <2>1
  <2>4. sList # None => [data |-> h[m].data, next |-> sSpare] \in SCells
    BY <1>8, <2>1 DEF SCells
  <2> HIDE DEF SCells
  <2> QED  BY <2>1, <2>2, <2>3, <2>4
<1>11. SProper(g)
  BY <1>1, <1>9, <1>10 DEF SProper
<1>12. \A i \in 1..n : g[a[i]].next = Entry(t, i + 1)
  <2> SUFFICES ASSUME NEW i \in 1..n PROVE g[a[i]].next = Entry(t, i + 1)
    OBVIOUS
  <2>1. sList # None
    BY <1>3
  <2>2. CASE i = n
    <3>1. i + 1 = n + 1 /\ n + 1 \in 1..Len(t) /\ t[n + 1] = b[1]
      BY <1>7, <1>8, <2>1, <2>2
    <3> QED  BY <1>4, <1>8, <1>10, <2>1, <2>2, <3>1 DEF Entry
  <2>3. CASE i # n
    <3>1. i + 1 \in 1..n
      BY <1>3, <2>3
    <3>2. g[a[i]].next = Entry(a, i + 1)
      BY <1>4, <1>8, <1>10, <2>1, <2>3
    <3> QED  BY <1>7, <3>1, <3>2 DEF Entry, n
  <2> QED  BY <2>2, <2>3
<1>13. \A j \in 1..l : g[b[j]].next = Entry(t, n + j + 1)
  <2> SUFFICES ASSUME NEW j \in 1..l PROVE g[b[j]].next = Entry(t, n + j + 1)
    OBVIOUS
  <2>1. g[b[j]].next = Entry(b, j + 1)
    BY <1>4, <1>8, <1>10
  <2>2. n + j + 1 = n + (j + 1) /\ (n + (j + 1) \in 1..(n + l) <=> j + 1 \in 1..l)
    BY <1>3
  <2>3. j + 1 \in 1..l => t[n + (j + 1)] = b[j + 1]
    BY <1>7
  <2> QED  BY <1>7, <2>1, <2>2, <2>3 DEF Entry, l
<1>14. ASSUME NEW i \in 1..Len(t), i \notin 1..n
       PROVE  \E j \in 1..l : i = n + j /\ t[i] = b[j]
  <2> DEFINE j == i - n
  <2>1. j \in 1..l /\ i = n + j
    BY <1>3, <1>7, <1>14
  <2> HIDE DEF j
  <2> QED  BY <1>7, <2>1
<1>15. \A i \in 1..Len(t) : t[i] \in DOMAIN g /\ g[t[i]].next = Entry(t, i + 1)
  <2> SUFFICES ASSUME NEW i \in 1..Len(t) PROVE t[i] \in DOMAIN g /\ g[t[i]].next = Entry(t, i + 1)
    OBVIOUS
  <2>1. CASE i \in 1..n
    BY <1>4, <1>7, <1>9, <1>12, <2>1
  <2>2. CASE i \notin 1..n
    <3>1. PICK j \in 1..l : i = n + j /\ t[i] = b[j]
      BY <1>14, <2>2
    <3> QED  BY <1>4, <1>9, <1>13, <3>1
  <2> QED  BY <2>1, <2>2
<1>16. sList' = Entry(t, 1)
  <2>1. CASE sList = None
    <3>1. n = 0 /\ 1 \in 1..l /\ n + 1 = 1
      BY <1>3, <2>1
    <3>2. t[n + 1] = b[1] /\ n + 1 \in 1..Len(t)
      BY <1>7, <3>1
    <3>3. Entry(t, 1) = b[1] /\ Entry(b, 1) = b[1]
      BY <3>1, <3>2 DEF Entry, l
    <3> QED  BY <1>2, <1>3, <2>1, <3>3
  <2>2. CASE sList # None
    <3>1. 1 \in 1..n
      BY <1>3, <2>2
    <3> QED  BY <1>2, <1>3, <1>7, <2>2, <3>1 DEF Entry, n
  <2> QED  BY <2>1, <2>2
<1>17. Along(g, sList', t)
  BY <1>7, <1>15, <1>16 DEF Along, Distinct
<1>18. Members(<< >>) = {} /\ Len(<< >>) = 0 /\ << >> \in Seq(Nodes) /\ Datas(g, << >>) = << >>
  BY DEF Members, Datas
<1>19. Along(g, None, << >>)
  BY <1>18 DEF Along, Entry
<1>20. Two(sHeap', sList', t, sSpare', << >>)
  <2>1. Two(g, sList', t, None, << >>)
    BY <1>1, <1>7, <1>9, <1>11, <1>17, <1>18, <1>19 DEF Two
  <2> QED  BY <1>2, <2>1 DEF g
<1>21. SInv' /\ SFirsts' = Datas(g, t) /\ SSeconds' = << >>
  <2>1. SInv' /\ SFirsts' = Datas(sHeap', t) /\ SSeconds' = Datas(sHeap', << >>)
    BY <1>20, SLeaves
  <2> QED  BY <1>18, <2>1 DEF g
<1>22. SFirsts' = SFirsts \o SSeconds
  <2> DEFINE w == SFirsts \o SSeconds
  <2>1. /\ w \in Seq(Data) /\ Len(w) = n + l
        /\ \A i \in 1..(n + l) : w[i] = IF i <= n THEN SFirsts[i] ELSE SSeconds[i - n]
    BY <1>5, JoinIs
  <2> HIDE DEF w
  <2>2. SFirsts' = [i \in 1..(n + l) |-> g[t[i]].data]
    BY <1>7, <1>21 DEF Datas
  <2>3. ASSUME NEW i \in 1..(n + l) PROVE g[t[i]].data = w[i]
    <3>1. CASE i \in 1..n
      <4>1. i <= n /\ t[i] = a[i] /\ a[i] \in DOMAIN h
        BY <1>4, <1>7, <3>1
      <4> QED  BY <1>5, <1>10, <2>1, <3>1, <4>1
    <3>2. CASE i \notin 1..n
      <4>1. PICK j \in 1..l : i = n + j /\ t[i] = b[j]
        BY <1>7, <1>14, <3>2
      <4>2. ~(i <= n) /\ i - n = j
        BY <1>3, <4>1
      <4> QED  BY <1>4, <1>5, <1>10, <2>1, <4>1, <4>2, SMTT(30)
    <3> QED  BY <3>1, <3>2
  <2>4. n + l \in Nat
    BY <1>3
  <2>5. w = [i \in 1..(n + l) |-> w[i]]
    BY <2>1, <2>4
  <2> QED  BY <2>2, <2>3, <2>5 DEF w
<1> QED  BY <1>21, <1>22 DEF SLists!Joined, SFirsts, SSeconds

LEMMA SCopyHolds ==
  ASSUME SInv, SCopy
  PROVE  SInv' /\ SLists!Copied
<1> DEFINE h == sHeap
           s == SChain
           n == Len(s)
           g == sHeap'
<1>1. /\ SProper(h) /\ Along(h, sList, s) /\ DOMAIN h = Members(s) \cup Members(SOther) /\ SFirsts = Datas(h, s)
  BY SNow DEF Two
<1>2. /\ sSpare = None /\ sList # None /\ sList' = sList
      /\ \E t \in [DOMAIN s -> SFresh] :
           /\ IsInjective(t)
           /\ g = [m \in DOMAIN h \cup {t[i] : i \in DOMAIN t} |->
                     IF m \in DOMAIN h THEN h[m]
                     ELSE LET i == CHOOSE k \in DOMAIN t : t[k] = m
                          IN  [data |-> h[s[i]].data, next |-> IF i = Len(t) THEN None ELSE t[i + 1]]]
           /\ sSpare' = t[1]
  BY Zenon DEF SCopy
<1>3. /\ s \in Seq(Nodes) /\ n \in Nat /\ n # 0 /\ DOMAIN s = 1..n /\ Len(SOther) = 0
      /\ \A i \in 1..n : s[i] \in DOMAIN h /\ SFirsts[i] = h[s[i]].data
      /\ Len(SFirsts) = n /\ SFirsts \in Seq(Data)
  BY <1>2, SEnds
<1> HIDE DEF h, s, g
<1>4. PICK t \in [1..n -> SFresh] :
           /\ IsInjective(t)
           /\ g = [m \in DOMAIN h \cup {t[i] : i \in DOMAIN t} |->
                     IF m \in DOMAIN h THEN h[m]
                     ELSE LET i == CHOOSE k \in DOMAIN t : t[k] = m
                          IN  [data |-> h[s[i]].data, next |-> IF i = Len(t) THEN None ELSE t[i + 1]]]
           /\ sSpare' = t[1]
  BY <1>2, <1>3
<1> DEFINE At(m) == CHOOSE k \in DOMAIN t : t[k] = m
<1> HIDE DEF n
<1>5. /\ DOMAIN t = 1..n /\ t \in Seq(Nodes) /\ Len(t) = n /\ Distinct(t)
      /\ \A i \in 1..n : t[i] \in Nodes /\ t[i] \notin DOMAIN h
  <2>1. DOMAIN t = 1..n /\ \A i \in 1..n : t[i] \in Nodes /\ t[i] \notin DOMAIN h
    BY <1>4 DEF SFresh, h
  <2>2. t \in Seq(Nodes) /\ Len(t) = n
    <3>1. t \in [1..n -> Nodes]
      BY <2>1
    <3> QED  BY <1>3, <3>1
  <2>3. Distinct(t)
    BY <1>4, <2>1, <2>2 DEF Distinct, IsInjective
  <2> QED  BY <2>1, <2>2, <2>3
<1>6. DOMAIN g = DOMAIN h \cup Members(t) /\ \A m \in DOMAIN h : g[m] = h[m]
  <2>1. {t[i] : i \in DOMAIN t} = Members(t)
    BY <1>5 DEF Members
  <2> QED  BY <1>4, <2>1
<1>7. ASSUME NEW i \in 1..n
      PROVE  g[t[i]].data = h[s[i]].data /\ g[t[i]].next = Entry(t, i + 1) /\ g[t[i]] \in SCells
  <2>1. At(t[i]) = i
    <3>1. \A k \in DOMAIN t : t[k] = t[i] <=> k = i
      BY <1>5 DEF Distinct
    <3> QED  BY <1>5, <3>1
  <2>2. t[i] \in DOMAIN g /\ t[i] \notin DOMAIN h
    BY <1>5, <1>6 DEF Members
  <2> DEFINE b == IF i = n THEN None ELSE t[i + 1]
             d == h[s[i]].data
  <2>3. g[t[i]] = [data |-> d, next |-> b]
    <3> HIDE DEF At
    <3>1. g[t[i]] = [data |-> h[s[At(t[i])]].data,
                     next |-> IF At(t[i]) = Len(t) THEN None ELSE t[At(t[i]) + 1]]
      BY <1>4, <2>2 DEF At
    <3> QED  BY <1>5, <2>1, <3>1
  <2>4. b = Entry(t, i + 1)
    <3>1. i + 1 \in 1..n <=> i # n
      BY <1>3
    <3> QED  BY <1>5, <3>1 DEF Entry
  <2>5. b \in Nodes \cup {None} /\ d \in Data
    <3>1. i # n => i + 1 \in 1..n
      BY <1>3
    <3> QED  BY <1>1, <1>3, <1>5, <3>1, SProperIs
  <2> HIDE DEF b, d
  <2>6. g[t[i]] \in SCells
    BY <2>3, <2>5 DEF SCells
  <2>7. g[t[i]].data = d /\ g[t[i]].next = b
    BY <2>3
  <2> QED  BY <2>4, <2>6, <2>7 DEF d
<1>8. SProper(g)
  <2>1. DOMAIN g \subseteq Nodes
    BY <1>1, <1>5, <1>6 DEF SProper, Members
  <2>2. ASSUME NEW m \in DOMAIN g PROVE g[m] \in SCells
    <3>1. CASE m \in DOMAIN h
      BY <1>1, <1>6, <3>1 DEF SProper
    <3>2. CASE m \notin DOMAIN h
      <4>1. PICK i \in 1..n : m = t[i]
        BY <1>5, <1>6, <3>2 DEF Members
      <4> QED  BY <1>7, <4>1
    <3> QED  BY <3>1, <3>2
  <2> QED  BY <2>1, <2>2 DEF SProper
<1>9. Members(SOther) = {}
  BY <1>3 DEF Members
<1>10. \A m \in DOMAIN h : m \notin Members(t)
  BY <1>5 DEF Members
<1>11. Along(g, sSpare', t)
  <2>1. 1 \in 1..n
    BY <1>3
  <2>2. sSpare' = Entry(t, 1)
    BY <1>4, <1>5, <2>1 DEF Entry
  <2>3. \A i \in 1..Len(t) : t[i] \in DOMAIN g
    BY <1>6 DEF Members
  <2> QED  BY <1>5, <1>7, <2>2, <2>3 DEF Along, Distinct
<1>12. Along(g, sList, s) /\ Datas(g, s) = Datas(h, s)
  <2>1. \A i \in 1..Len(s) : s[i] \in DOMAIN g /\ g[s[i]] = h[s[i]]
    BY <1>3, <1>6 DEF n
  <2> QED  BY <1>1, <2>1 DEF Along, Datas
<1>13. Two(sHeap', sList', s, sSpare', t)
  <2>1. Members(s) \cap Members(t) = {} /\ DOMAIN g = Members(s) \cup Members(t)
    BY <1>1, <1>6, <1>9, <1>10
  <2>2. Two(g, sList, s, sSpare', t)
    BY <1>8, <1>11, <1>12, <2>1 DEF Two
  <2> QED  BY <1>2, <2>2 DEF g
<1>14. SInv' /\ SFirsts' = Datas(g, s) /\ SSeconds' = Datas(g, t)
  BY <1>13, SLeaves DEF g
<1>15. SFirsts' = SFirsts
  BY <1>1, <1>12, <1>14
<1>16. SSeconds' = SFirsts
  <2>1. SSeconds' = [i \in 1..n |-> g[t[i]].data]
    BY <1>5, <1>14 DEF Datas
  <2>2. SFirsts = [i \in 1..n |-> SFirsts[i]]
    BY <1>3
  <2> QED  BY <1>3, <1>7, <2>1, <2>2
<1>17. SSeconds = << >>
  BY <1>3, SEnds
<1> QED  BY <1>14, <1>15, <1>16, <1>17 DEF SLists!Copied, SFirsts, SSeconds

LEMMA SFreeHolds ==
  ASSUME SInv, SFree
  PROVE  SInv' /\ SLists!Released
<1> DEFINE s == SChain
           g == sHeap'
<1>1. SProper(sHeap) /\ InChain(sHeap, sList) = Members(s) /\ Members(s) \subseteq DOMAIN sHeap
  BY SNow
<1>2. g = Free(sHeap, Members(s)) /\ sList' = None /\ sSpare' = sSpare
  BY <1>1 DEF SFree, SBecomes
<1> HIDE DEF s, g
<1>3. DOMAIN g = DOMAIN sHeap \ Members(s) /\ \A m \in DOMAIN g : g[m] = sHeap[m]
  BY <1>2 DEF Free
<1>4. Members(<< >>) = {} /\ Len(<< >>) = 0 /\ << >> \in Seq(Nodes)
  BY DEF Members
<1>5. SProper(g)
  BY <1>1, <1>3 DEF SProper
<1>6. SLays(sHeap, s, g, << >>) /\ Distinct(<< >>)
  BY <1>3, <1>4, <1>5 DEF SLays, Distinct
<1>7. Entry(<< >>, 1) = None
  BY <1>4 DEF Entry
<1>8. SEdit(sHeap, s, g, None, << >>)
  BY <1>4, <1>6, <1>7, SLaid
<1>9. SEdit(sHeap, SChain, sHeap', sList', << >>)
  BY <1>2, <1>8 DEF s, g
<1>10. SInv' /\ SFirsts' = Datas(sHeap', << >>) /\ SSeconds' = SSeconds
  BY <1>2, <1>9, SListEdited
<1>11. Datas(sHeap', << >>) = << >>
  BY <1>4 DEF Datas
<1> QED  BY <1>10, <1>11 DEF SLists!Released, SFirsts, SSeconds

-----------------------------------------------------------------------------
(* g_slist_remove_all *)

\* What a search from the node behind the j-th one finds, when the j-th one is
\* the place that the loop remembers.
FoundAt(t, wanted, j, m) ==
  /\ m \in (j + 1)..(Len(t) + 1)
  /\ \A i \in 1..Len(t) : j < i /\ i < m => t[i] \notin wanted
  /\ m \in 1..Len(t) => t[m] \in wanted

LEMMA SFoundIs ==
  ASSUME NEW h, Proper(h), NEW p, NEW t, Along(h, p, t), NEW j \in 0..Len(t), NEW wanted,
         NEW seen, seen = Before(h, Entry(t, j + 1), wanted)
  PROVE  \E m : /\ FoundAt(t, wanted, j, m)
                /\ (IF seen = None THEN Entry(t, j) ELSE seen) = IF m = 1 THEN None ELSE t[m - 1]
<1> DEFINE n == Len(t)
           u == [i \in 1..(n - j) |-> t[j + i]]
<1>1. /\ t \in Seq(Nodes) /\ n \in Nat /\ j \in Nat /\ n - j \in Nat /\ j <= n
      /\ \A i \in 1..n : t[i] \in DOMAIN h /\ t[i] \in Nodes /\ t[i] # None /\ h[t[i]].next = Entry(t, i + 1)
      /\ \A i, k \in 1..n : t[i] = t[k] => i = k
  BY AlongIs DEF Distinct
<1>2. \A i \in 1..(n - j) : j + i \in 1..n /\ (j + i) + 1 = j + (i + 1)
  BY <1>1
<1>3. Len(u) = n - j /\ \A i \in 1..(n - j) : u[i] = t[j + i]
  BY <1>1
<1>4. u \in Seq(Nodes)
  BY <1>1, <1>2
<1> HIDE DEF u
<1>5. \A i : i \in Nat /\ i > 0 => Entry(u, i) = Entry(t, j + i)
  <2> SUFFICES ASSUME NEW i \in Nat, i > 0 PROVE Entry(u, i) = Entry(t, j + i)
    OBVIOUS
  <2>1. i \in 1..(n - j) <=> j + i \in 1..n
    BY <1>1
  <2> QED  BY <1>3, <2>1 DEF Entry
<1>6. Along(h, Entry(t, j + 1), u)
  <2>1. Entry(t, j + 1) = Entry(u, 1)
    BY <1>5
  <2>2. \A i \in 1..Len(u) : u[i] \in DOMAIN h /\ h[u[i]].next = Entry(u, i + 1)
    <3> SUFFICES ASSUME NEW i \in 1..(n - j) PROVE u[i] \in DOMAIN h /\ h[u[i]].next = Entry(u, i + 1)
      BY <1>3
    <3>1. u[i] = t[j + i] /\ j + i \in 1..n /\ (j + i) + 1 = j + (i + 1) /\ i + 1 \in Nat /\ i + 1 > 0
      BY <1>2, <1>3
    <3>2. Entry(u, i + 1) = Entry(t, j + (i + 1))
      BY <1>5, <3>1
    <3> QED  BY <1>1, <3>1, <3>2
  <2>3. \A i, k \in 1..Len(u) : u[i] = u[k] => i = k
    <3> SUFFICES ASSUME NEW i \in 1..(n - j), NEW k \in 1..(n - j), u[i] = u[k] PROVE i = k
      BY <1>3
    <3>1. j + i = j + k
      BY <1>1, <1>2, <1>3
    <3> QED  BY <1>1, <3>1
  <2> QED  BY <1>4, <2>1, <2>2, <2>3 DEF Along
<1>7. PICK k : BeforeAt(u, wanted, k) /\ seen = IF k = 1 THEN None ELSE u[k - 1]
  BY <1>6, BeforeIs
<1>8. k \in 1..((n - j) + 1)
  BY <1>3, <1>7 DEF BeforeAt
<1> DEFINE m == j + k
<1>9. m \in (j + 1)..(n + 1)
  BY <1>1, <1>8
<1>10. \A i \in 1..n : j < i /\ i < m => t[i] \notin wanted
  <2> SUFFICES ASSUME NEW i \in 1..n, j < i, i < m PROVE t[i] \notin wanted
    OBVIOUS
  <2>1. i - j \in 1..(n - j) /\ i - j < k /\ j + (i - j) = i
    BY <1>1, <1>8
  <2> QED  BY <1>3, <1>7, <2>1 DEF BeforeAt
<1>11. m \in 1..n => t[m] \in wanted
  <2> SUFFICES ASSUME m \in 1..n PROVE t[m] \in wanted
    OBVIOUS
  <2>1. k \in 1..(n - j)
    BY <1>1, <1>8
  <2> QED  BY <1>3, <1>7, <2>1 DEF BeforeAt
<1>12. (IF seen = None THEN Entry(t, j) ELSE seen) = IF m = 1 THEN None ELSE t[m - 1]
  <2>1. CASE k = 1
    <3>1. seen = None /\ m - 1 = j /\ (m = 1 <=> j = 0)
      BY <1>1, <1>7, <2>1
    <3>2. j = 0 => Entry(t, j) = None
      BY DEF Entry
    <3>3. j # 0 => Entry(t, j) = t[j]
      BY <1>1 DEF Entry
    <3> QED  BY <3>1, <3>2, <3>3
  <2>2. CASE k # 1
    <3>1. k - 1 \in 1..(n - j) /\ j + (k - 1) = m - 1 /\ m # 1 /\ j + (k - 1) \in 1..n
      BY <1>1, <1>8, <2>2
    <3>2. seen = t[m - 1] /\ seen # None
      BY <1>1, <1>3, <1>7, <2>2, <3>1
    <3> QED  BY <3>1, <3>2
  <2> QED  BY <2>1, <2>2
<1> QED  BY <1>9, <1>10, <1>11, <1>12 DEF FoundAt

LEMMA SEditTwice ==
  ASSUME NEW h, NEW a, NEW g, NEW p, NEW t, SEdit(h, a, g, p, t),
         NEW f, NEW q, NEW u, SEdit(g, t, f, q, u)
  PROVE  SEdit(h, a, f, q, u)
<1>1. /\ DOMAIN g = (DOMAIN h \ Members(a)) \cup Members(t)
      /\ \A m \in DOMAIN h \ Members(a) : m \notin Members(t) /\ g[m] = h[m]
  BY DEF SEdit
<1>2. /\ DOMAIN f = (DOMAIN g \ Members(t)) \cup Members(u)
      /\ \A m \in DOMAIN g \ Members(t) : m \notin Members(u) /\ f[m] = g[m]
  BY DEF SEdit
<1>3. SProper(f) /\ Along(f, q, u)
  BY DEF SEdit
<1>4. DOMAIN g \ Members(t) = DOMAIN h \ Members(a)
  BY <1>1
<1> QED  BY <1>1, <1>2, <1>3, <1>4 DEF SEdit

\* The list g, q is what the n places at of the list a of h have left; the nodes
\* that have gone held x.
SPart(h, a, x, g, q, at, n) ==
  /\ Picks(at, n, a) /\ SEdit(h, a, g, q, Picked(a, at, n)) /\ SameData(g, h)
  /\ \A i \in 1..Len(a) : (\E j \in 1..n : at[j] = i) \/ h[a[i]].data = x

\* The loop has passed j nodes of t, none of them with x.
SHere(h, x, st, t, j) ==
  /\ st.next = Entry(t, j + 1) /\ st.prev = Entry(t, j)
  /\ \A i \in 1..Len(t) : i <= j => h[t[i]].data # x

\* No more than m nodes are left to look at.
SLeft(h, a, x, st, m) ==
  \E n \in 0..Len(a) : \E at, j :
    /\ SPart(h, a, x, st.heap, st.list, at, n) /\ SHere(h, x, st, Picked(a, at, n), j)
    /\ j \in 0..n /\ n - j <= m

\* None is left, and none that is there holds x.
SOver(h, a, x, st) ==
  /\ st.next = None
  /\ \E n \in 0..Len(a) : \E at :
       /\ SPart(h, a, x, st.heap, st.list, at, n)
       /\ \A i \in 1..n : h[Picked(a, at, n)[i]].data # x

\* One turn of the loop.
STurn(st, x) ==
  LET seen == Before(st.heap, st.next, With(st.heap, x))
      prev == IF seen = None THEN st.prev ELSE seen
      n    == Current(st.heap, st.list, prev)
      rest == Unlinked(st.heap, st.list, prev)
  IN  IF st.next = None \/ n = None THEN [st EXCEPT !.next = None]
      ELSE [heap |-> Free(rest.heap, {n}), list |-> rest.list, next |-> st.heap[n].next, prev |-> prev]

\* The k-th node of a part, which holds x, goes.
SGoes(h, a, x, g, q, at, n, t, k, f, p) ==
  /\ SPart(h, a, x, g, q, at, n) /\ t = Picked(a, at, n) /\ k \in 1..n /\ g[t[k]].data = x
  /\ SEdit(g, t, f, p, Del(t, k)) /\ SameData(f, g)

LEMMA SPartLess ==
  ASSUME NEW h, NEW a, Len(a) \in Nat, NEW x, NEW g, NEW q, NEW at, NEW n, NEW t, NEW k, NEW f, NEW p,
         SGoes(h, a, x, g, q, at, n, t, k, f, p)
  PROVE  /\ SPart(h, a, x, f, p, Del(at, k), n - 1) /\ Picked(a, Del(at, k), n - 1) = Del(t, k)
         /\ n - 1 \in 0..Len(a)
<1>0. /\ SPart(h, a, x, g, q, at, n) /\ t = Picked(a, at, n) /\ k \in 1..n /\ g[t[k]].data = x
      /\ SEdit(g, t, f, p, Del(t, k)) /\ SameData(f, g)
  BY DEF SGoes
<1>1. /\ Picks(at, n, a) /\ SEdit(h, a, g, q, t) /\ SameData(g, h)
      /\ \A i \in 1..Len(a) : (\E j \in 1..n : at[j] = i) \/ h[a[i]].data = x
  BY <1>0 DEF SPart
<1>2. n \in 0..Len(a) /\ n \in Nat /\ Len(t) = n /\ \A i \in 1..n : t[i] = a[at[i]]
  BY <1>0, <1>1 DEF Picks, Picked
<1>3. SEdit(h, a, f, p, Del(t, k))
  BY <1>0, <1>1, SEditTwice
<1>4. SameData(f, h)
  BY <1>0, <1>1 DEF SameData
<1>5. /\ Picks(Del(at, k), n - 1, a) /\ Picked(a, Del(at, k), n - 1) = Del(t, k)
      /\ ButFor(at, n, at[k], Del(at, k), n - 1)
  BY <1>0, <1>1, PicksLess
<1>6. h[a[at[k]]].data = x
  <2>1. t[k] \in DOMAIN g /\ t[k] = a[at[k]]
    BY <1>0, <1>1, <1>2 DEF SEdit, Along
  <2> QED  BY <1>0, <1>1, <2>1 DEF SameData
<1> DEFINE d == Del(at, k)
<1> HIDE DEF d
<1>7. \A i \in 1..Len(a) : (\E j \in 1..(n - 1) : d[j] = i) \/ h[a[i]].data = x
  <2>1. \A i : (\E j \in 1..n : at[j] = i) => i = at[k] \/ \E j \in 1..(n - 1) : d[j] = i
    BY <1>5 DEF ButFor, d
  <2> QED  BY <1>1, <1>6, <2>1
<1>8. n - 1 \in 0..Len(a)
  BY <1>0, <1>2
<1>9. SPart(h, a, x, f, p, d, n - 1)
  <2>1. Picks(d, n - 1, a) /\ Picked(a, d, n - 1) = Del(t, k)
    BY <1>5 DEF d
  <2> QED  BY <1>3, <1>4, <1>7, <2>1 DEF SPart
<1> QED  BY <1>5, <1>8, <1>9 DEF d

LEMMA STurnIs ==
  ASSUME NEW h, NEW a \in Seq(Nodes), NEW x, NEW H, NEW S,
         NEW st \in [heap : H, list : S, next : S, prev : S], NEW m \in Nat, SLeft(h, a, x, st, m)
  PROVE  \/ SOver(h, a, x, STurn(st, x)) /\ STurn(st, x) = [st EXCEPT !.next = None]
         \/ m > 0 /\ SLeft(h, a, x, STurn(st, x), m - 1)
<1>1. PICK n \in 0..Len(a) : \E at, j :
        /\ SPart(h, a, x, st.heap, st.list, at, n) /\ SHere(h, x, st, Picked(a, at, n), j)
        /\ j \in 0..n /\ n - j <= m
  BY Zenon DEF SLeft
<1>2. PICK at, j :
        /\ SPart(h, a, x, st.heap, st.list, at, n) /\ SHere(h, x, st, Picked(a, at, n), j)
        /\ j \in 0..n /\ n - j <= m
  BY <1>1, Zenon
<1> DEFINE t == Picked(a, at, n)
           hh == st.heap
           pp == st.list
           wanted == With(hh, x)
           seen == Before(hh, st.next, wanted)
           prev == IF seen = None THEN st.prev ELSE seen
           e == Current(hh, pp, prev)
           rest == Unlinked(hh, pp, prev)
<1>3. STurn(st, x) = IF st.next = None \/ e = None THEN [st EXCEPT !.next = None]
                     ELSE [heap |-> Free(rest.heap, {e}), list |-> rest.list, next |-> hh[e].next, prev |-> prev]
  BY DEF STurn
<1>4. SPart(h, a, x, hh, pp, at, n) /\ Len(t) = n /\ Len(a) \in Nat /\ n \in Nat /\ j \in Nat /\ j \in 0..Len(t)
  BY <1>1, <1>2 DEF Picked
<1>5. /\ st.next = Entry(t, j + 1) /\ st.prev = Entry(t, j)
      /\ \A i \in 1..n : i <= j => h[t[i]].data # x
  BY <1>2, <1>4 DEF SHere
<1> HIDE DEF t, hh, pp
<1>6. SProper(hh) /\ Proper(hh) /\ Along(hh, pp, t) /\ SameData(hh, h)
  BY <1>4, SProperIs DEF SPart, SEdit, t
<1>7. \A i \in 1..n : t[i] \in DOMAIN hh /\ (t[i] \in wanted <=> h[t[i]].data = x)
                      /\ (t[i] \in wanted <=> hh[t[i]].data = x)
  BY <1>4, <1>6 DEF With, SameData, Along
<1> HIDE DEF wanted
<1>8. PICK k : FoundAt(t, wanted, j, k) /\ prev = IF k = 1 THEN None ELSE t[k - 1]
  <2>1. seen = Before(hh, Entry(t, j + 1), wanted)
    BY <1>5 DEF hh
  <2>2. prev = IF seen = None THEN Entry(t, j) ELSE seen
    BY <1>5
  <2> HIDE DEF seen, prev
  <2>3. \E k : /\ FoundAt(t, wanted, j, k)
               /\ (IF seen = None THEN Entry(t, j) ELSE seen) = IF k = 1 THEN None ELSE t[k - 1]
    BY <1>4, <1>6, <2>1, SFoundIs
  <2> QED  BY <2>2, <2>3, Zenon
<1>9. /\ k \in (j + 1)..(n + 1) /\ k \in 1..(n + 1) /\ k \in Nat
      /\ \A i \in 1..n : j < i /\ i < k => t[i] \notin wanted
      /\ k \in 1..n => t[k] \in wanted
  BY <1>4, <1>8 DEF FoundAt
<1>10. \A i \in 1..n : i < k => h[t[i]].data # x
  <2> SUFFICES ASSUME NEW i \in 1..n, i < k PROVE h[t[i]].data # x
    OBVIOUS
  <2>1. i <= j \/ j < i
    BY <1>4
  <2> QED  BY <1>5, <1>7, <1>9, <2>1
<1> HIDE DEF seen, prev, rest
<1>11. e = Entry(t, k) /\ (k \in 1..n => e = t[k] /\ e # None) /\ (k \notin 1..n => e = None)
  BY <1>4, <1>6, <1>8, <1>9, CurrentIs
<1> HIDE DEF e
<1>12. CASE st.next = None \/ e = None
  <2>1. /\ STurn(st, x).next = None /\ STurn(st, x).heap = hh /\ STurn(st, x).list = pp
        /\ STurn(st, x) = [st EXCEPT !.next = None]
    <3>1. STurn(st, x) = [st EXCEPT !.next = None]
      BY <1>3, <1>12
    <3>2. [st EXCEPT !.next = None] = [heap |-> st.heap, list |-> st.list, next |-> None, prev |-> st.prev]
      OBVIOUS
    <3> QED  BY <3>1, <3>2 DEF hh, pp
  <2>2. \A i \in 1..n : h[t[i]].data # x
    <3>1. CASE e = None
      <4>1. \A i \in 1..n : i < k
        BY <1>4, <1>9, <1>11, <3>1
      <4> QED  BY <1>10, <4>1
    <3>2. CASE st.next = None
      <4>1. j + 1 \notin 1..n
        <5> SUFFICES ASSUME j + 1 \in 1..n PROVE FALSE
          OBVIOUS
        <5>1. st.next = t[j + 1] /\ t[j + 1] \in Nodes
          BY <1>4, <1>5, <1>6, AlongIs DEF Entry
        <5> QED  BY <3>2, <5>1, NoNode
      <4>2. \A i \in 1..n : i <= j
        BY <1>4, <4>1
      <4> QED  BY <1>5, <4>2
    <3> QED  BY <1>12, <3>1, <3>2
  <2>3. SPart(h, a, x, STurn(st, x).heap, STurn(st, x).list, at, n)
    BY <1>4, <2>1
  <2>4. \A i \in 1..n : h[Picked(a, at, n)[i]].data # x
    BY <2>2 DEF t
  <2>5. SOver(h, a, x, STurn(st, x))
    BY <1>1, <2>1, <2>3, <2>4, Zenon DEF SOver
  <2> QED  BY <2>1, <2>5
<1>13. CASE st.next # None /\ e # None
  <2>1. k \in 1..n /\ e = t[k] /\ k \in 1..Len(t)
    BY <1>4, <1>11, <1>13
  <2> DEFINE g == CellGone(hh, pp, t, k).heap
             q == CellGone(hh, pp, t, k).list
             u == Del(t, k)
             d == Del(at, k)
  <2>2. STurn(st, x) = [heap |-> g, list |-> q, next |-> hh[e].next, prev |-> prev]
    <3>1. CellGone(hh, pp, t, k) = [heap |-> Free(rest.heap, {e}), list |-> rest.list]
      BY <1>8, <2>1 DEF CellGone, rest
    <3> QED  BY <1>3, <1>13, <3>1
  <2>3. SEdit(hh, t, g, q, u) /\ SameData(g, hh) /\ hh[e].next = Entry(u, k)
    BY <1>6, <2>1, GoneIs
  <2> HIDE DEF g, q
  <2>4. STurn(st, x).heap = g /\ STurn(st, x).list = q /\ STurn(st, x).next = Entry(u, k) /\ STurn(st, x).prev = prev
    BY <2>2, <2>3
  <2>5. SPart(h, a, x, g, q, d, n - 1) /\ Picked(a, d, n - 1) = u /\ n - 1 \in 0..Len(a)
    <3>1. hh[t[k]].data = x
      BY <1>7, <1>9, <2>1
    <3> HIDE DEF u, d
    <3>2. SEdit(hh, t, g, q, Del(t, k)) /\ t = Picked(a, at, n)
      BY <2>3 DEF u, t
    <3>3. SameData(g, hh) /\ k \in 1..n
      BY <2>1, <2>3
    <3>4. /\ SPart(h, a, x, g, q, Del(at, k), n - 1) /\ Picked(a, Del(at, k), n - 1) = Del(t, k)
          /\ n - 1 \in 0..Len(a)
      <4>1. SGoes(h, a, x, hh, pp, at, n, t, k, g, q) /\ Len(a) \in Nat
        BY <1>4, <3>1, <3>2, <3>3 DEF SGoes
      <4> QED  BY <4>1, SPartLess
    <3> QED  BY <3>4 DEF u, d
  <2>6. Len(u) = n - 1 /\ \A i \in 1..(n - 1) : i < k => i \in 1..n /\ u[i] = t[i]
    <3>1. t \in Seq(Nodes) /\ \A i, l \in 1..Len(t) : t[i] = t[l] => i = l
      BY <1>6 DEF Along
    <3> HIDE DEF u
    <3> QED  BY <1>4, <2>1, <3>1, DelIs DEF u
  <2> HIDE DEF u, d
  <2>7. prev = Entry(u, k - 1)
    <3>1. CASE k = 1
      <4>1. Entry(u, 0) = None /\ k - 1 = 0
        BY <3>1 DEF Entry
      <4> QED  BY <1>8, <3>1, <4>1
    <3>2. CASE k # 1
      <4>1. k - 1 \in 1..(n - 1) /\ k - 1 < k
        BY <1>4, <2>1, <3>2
      <4> QED  BY <1>8, <2>6, <3>2, <4>1 DEF Entry
    <3> QED  BY <3>1, <3>2
  <2> DEFINE v == STurn(st, x)
             o == k - 1
  <2>8. o + 1 = k /\ o \in 0..(n - 1) /\ (n - 1) - o <= m - 1 /\ m > 0 /\ o < k
    BY <1>2, <1>4, <1>9, <2>1
  <2> HIDE DEF v
  <2>9. SHere(h, x, v, u, o)
    <3>1. \A i \in 1..Len(u) : i <= o => h[u[i]].data # x
      BY <1>10, <2>6, <2>8
    <3> HIDE DEF o
    <3>2. v.next = Entry(u, o + 1) /\ v.prev = Entry(u, o)
      BY <2>4, <2>7, <2>8 DEF v, o
    <3> QED  BY <3>1, <3>2 DEF SHere
  <2> HIDE DEF o
  <2>10. SPart(h, a, x, v.heap, v.list, d, n - 1) /\ SHere(h, x, v, Picked(a, d, n - 1), o)
    BY <2>4, <2>5, <2>9 DEF v
  <2>11. SLeft(h, a, x, v, m - 1)
    BY <2>5, <2>8, <2>10, Zenon DEF SLeft
  <2> QED  BY <2>8, <2>11 DEF v
<1> QED  BY <1>12, <1>13

\* The loop ends, for it looks at every node once at most.
LEMMA SPurgeIs ==
  ASSUME NEW h, SProper(h), NEW p, NEW a, Along(h, p, a), NEW x
  PROVE  SOver(h, a, x, Purge(h, p, x))
<1> DEFINE N == Cardinality(DOMAIN h)
           S == Nodes \cup {None}
           st0 == [heap |-> h, list |-> p, next |-> p, prev |-> None]
           Eq(g) == g = [k \in 0..N |-> IF k = 0 THEN st0 ELSE STurn(g[k - 1], x)]
           Runs == CHOOSE g : Eq(g)
<1>1. Purge(h, p, x) = Runs[N]
  BY DEF Purge, STurn
<1>2. /\ Proper(h) /\ a \in Seq(Nodes) /\ Len(a) \in Nat /\ N \in Nat /\ Len(a) <= N
      /\ p = Entry(a, 1) /\ p \in S /\ None \in S /\ Entry(a, 0) = None /\ Members(a) \subseteq DOMAIN h
  BY SProperIs, FewNodes, AlongIs
<1> HIDE DEF S
<1>3. SLeft(h, a, x, st0, N)
  <2> DEFINE n == Len(a)
  <2>1. PICK at \in [1..n -> 1..n] : Picks(at, n, a) /\ Picked(a, at, n) = a /\ \A i \in 1..n : at[i] = i
    BY <1>2, PicksAll
  <2>2. SEdit(h, a, h, p, a)
    BY <1>2 DEF SEdit
  <2>3. SPart(h, a, x, h, p, at, n)
    <3>1. SameData(h, h)
      BY DEF SameData
    <3> QED  BY <2>1, <2>2, <3>1 DEF SPart
  <2>4. SHere(h, x, st0, a, 0)
    <3>1. \A i \in 1..Len(a) : ~(i <= 0)
      BY <1>2
    <3> QED  BY <1>2, <3>1 DEF SHere
  <2>5. st0.heap = h /\ st0.list = p
    OBVIOUS
  <2>6. n \in 0..Len(a) /\ 0 \in 0..n /\ n - 0 <= N
    BY <1>2
  <2> HIDE DEF st0, N
  <2>7. SPart(h, a, x, st0.heap, st0.list, at, n) /\ SHere(h, x, st0, Picked(a, at, n), 0)
    BY <2>1, <2>3, <2>4, <2>5
  <2> HIDE DEF n
  <2> QED  BY <2>6, <2>7, Zenon DEF SLeft
<1>4. ASSUME NEW st, NEW m \in 0..N, SLeft(h, a, x, st, m) PROVE SLeft(h, a, x, st, N)
  <2> HIDE DEF N
  <2>1. PICK n \in 0..Len(a) : \E at, j :
          /\ SPart(h, a, x, st.heap, st.list, at, n) /\ SHere(h, x, st, Picked(a, at, n), j)
          /\ j \in 0..n /\ n - j <= m
    BY <1>4, Zenon DEF SLeft
  <2>2. PICK at, j :
          /\ SPart(h, a, x, st.heap, st.list, at, n) /\ SHere(h, x, st, Picked(a, at, n), j)
          /\ j \in 0..n /\ n - j <= m
    BY <2>1, Zenon
  <2>3. n - j <= N
    BY <1>2, <2>1, <2>2
  <2> QED  BY <2>1, <2>2, <2>3, Zenon DEF SLeft
<1>5. ASSUME NEW g, NEW q, NEW at, NEW n, SPart(h, a, x, g, q, at, n)
      PROVE  SProper(g) /\ q \in S /\ \A i : Entry(Picked(a, at, n), i) \in S
  <2>1. SProper(g) /\ Along(g, q, Picked(a, at, n))
    BY <1>5 DEF SPart, SEdit
  <2>2. Proper(g)
    BY <2>1, SProperIs
  <2> QED  BY <2>1, <2>2, ListIs, AlongIs DEF S
<1> DEFINE Heaps == (UNION {[D -> SCells] : D \in SUBSET Nodes}) \cup {h}
           States == [heap : Heaps, list : S, next : S, prev : S]
           Going(st, m) == SOver(h, a, x, st) \/ SLeft(h, a, x, st, m)
           X == {st \in States : Going(st, N)}
           F == [st \in X |-> STurn(st, x)]
<1>6. st0 \in X
  <2>1. h \in Heaps
    OBVIOUS
  <2> HIDE DEF Heaps, N
  <2> QED  BY <1>2, <1>3, <2>1
<1>7. ASSUME NEW st, NEW m \in Nat, SLeft(h, a, x, st, m)
      PROVE  SProper(st.heap) /\ st.list \in S /\ st.next \in S /\ st.prev \in S
  <2>1. PICK n \in 0..Len(a) : \E at, j :
          /\ SPart(h, a, x, st.heap, st.list, at, n) /\ SHere(h, x, st, Picked(a, at, n), j)
          /\ j \in 0..n /\ n - j <= m
    BY <1>7, Zenon DEF SLeft
  <2>2. PICK at, j :
          /\ SPart(h, a, x, st.heap, st.list, at, n) /\ SHere(h, x, st, Picked(a, at, n), j)
    BY <2>1, Zenon
  <2> HIDE DEF S
  <2>3. SProper(st.heap) /\ st.list \in S /\ \A i : Entry(Picked(a, at, n), i) \in S
    BY <1>5, <2>2
  <2> QED  BY <2>2, <2>3 DEF SHere
<1>8. ASSUME NEW st \in States, SOver(h, a, x, st) PROVE STurn(st, x) = st
  <2>1. st.next = None
    BY <1>8 DEF SOver
  <2> HIDE DEF Heaps, S
  <2>2. [st EXCEPT !.next = None] = st
    BY <2>1
  <2> QED  BY <2>1, <2>2 DEF STurn
<1>9. ASSUME NEW st \in States, NEW m \in 0..N, SLeft(h, a, x, st, m)
      PROVE  \/ SOver(h, a, x, STurn(st, x)) /\ STurn(st, x) = [st EXCEPT !.next = None]
             \/ m > 0 /\ SLeft(h, a, x, STurn(st, x), m - 1)
  <2> HIDE DEF Heaps, S
  <2>1. m \in Nat
    BY <1>2, <1>9
  <2> HIDE DEF N
  <2> QED  BY <1>2, <1>9, <2>1, STurnIs
<1>10. ASSUME NEW st \in States, SLeft(h, a, x, st, N) PROVE STurn(st, x) \in States
  <2> DEFINE v == STurn(st, x)
             prev == IF Before(st.heap, st.next, With(st.heap, x)) = None THEN st.prev
                     ELSE Before(st.heap, st.next, With(st.heap, x))
             n == Current(st.heap, st.list, prev)
             rest == Unlinked(st.heap, st.list, prev)
             f == Free(rest.heap, {n})
  <2>1. v = [st EXCEPT !.next = None]
        \/ v = [heap |-> f, list |-> rest.list, next |-> st.heap[n].next, prev |-> prev]
    BY DEF STurn
  <2>2. f = [m \in DOMAIN f |-> f[m]]
    <3>1. f = [m \in DOMAIN rest.heap \ {n} |-> rest.heap[m]]
      BY DEF Free
    <3> QED  BY <3>1
  <2>3. v = [st EXCEPT !.next = None] \/ (N > 0 /\ SLeft(h, a, x, v, N - 1))
    <3>1. N \in 0..N
      BY <1>2
    <3> HIDE DEF N, States
    <3> QED  BY <1>9, <1>10, <3>1
  <2> HIDE DEF v, rest, f, n, prev, N
  <2>4. CASE v = [st EXCEPT !.next = None]
    <3>1. [st EXCEPT !.next = None] = [heap |-> st.heap, list |-> st.list, next |-> None, prev |-> st.prev]
      OBVIOUS
    <3>2. st.heap \in Heaps /\ st.list \in S /\ st.prev \in S
      OBVIOUS
    <3> HIDE DEF Heaps, S
    <3>3. v \in States
      BY <1>2, <2>4, <3>1, <3>2
    <3> QED  BY <3>3 DEF v
  <2>5. CASE /\ v = [heap |-> f, list |-> rest.list, next |-> st.heap[n].next, prev |-> prev]
             /\ N > 0 /\ SLeft(h, a, x, v, N - 1)
    <3>1. N - 1 \in Nat
      BY <1>2, <2>5
    <3>2. SProper(v.heap) /\ v.list \in S /\ v.next \in S /\ v.prev \in S
      BY <1>7, <2>5, <3>1
    <3>3. v.heap = f /\ v = [heap |-> f, list |-> v.list, next |-> v.next, prev |-> v.prev]
      BY <2>5
    <3>4. f \in [DOMAIN f -> SCells] /\ DOMAIN f \in SUBSET Nodes
      BY <2>2, <3>2, <3>3 DEF SProper
    <3>5. f \in Heaps
      BY <3>4
    <3> HIDE DEF Heaps, S
    <3>6. v \in States
      BY <3>2, <3>3, <3>5
    <3> QED  BY <3>6 DEF v
  <2> HIDE DEF States
  <2> QED  BY <2>1, <2>3, <2>4, <2>5 DEF v
<1>11. F \in [X -> X]
  <2> SUFFICES ASSUME NEW st \in X PROVE STurn(st, x) \in X
    OBVIOUS
  <2>1. st \in States /\ Going(st, N)
    OBVIOUS
  <2>2. CASE SOver(h, a, x, st)
    <3> HIDE DEF X, States
    <3> QED  BY <1>8, <2>1, <2>2
  <2>3. CASE SLeft(h, a, x, st, N)
    <3>1. STurn(st, x) \in States
      <4> HIDE DEF States, N
      <4> QED  BY <1>10, <2>1, <2>3
    <3>2. N \in 0..N /\ (N > 0 => N - 1 \in 0..N)
      BY <1>2
    <3> HIDE DEF States, N
    <3>3. SOver(h, a, x, STurn(st, x)) \/ (N > 0 /\ SLeft(h, a, x, STurn(st, x), N - 1))
      BY <1>9, <2>1, <2>3, <3>2
    <3>4. Going(STurn(st, x), N)
      BY <1>4, <3>2, <3>3
    <3> QED  BY <3>1, <3>4
  <2> QED  BY <2>1, <2>2, <2>3
<1> HIDE DEF X, N, st0, States
<1>12. \E g : Eq(g)
  <2> HIDE DEF F
  <2>1. PICK g : Iterates(g, N, X, F, st0)
    BY <1>2, <1>6, <1>11, Iterated
  <2>2. ASSUME NEW k \in 0..N PROVE g[k] = IF k = 0 THEN st0 ELSE STurn(g[k - 1], x)
    <3>1. k = 0 => g[k] = st0
      BY <2>1 DEF Iterates
    <3>2. k # 0 => k - 1 \in 0..N /\ k \in 1..N
      BY <1>2
    <3>3. k # 0 => g[k] = F[g[k - 1]] /\ g[k - 1] \in X
      BY <2>1, <3>2 DEF Iterates
    <3> QED  BY <3>1, <3>3 DEF F
  <2>3. g = [k \in 0..N |-> g[k]]
    BY <2>1 DEF Iterates
  <2>4. Eq(g)
    BY <2>2, <2>3, Zenon
  <2> QED  BY <2>4
<1>13. Eq(Runs)
  <2> HIDE DEF Eq
  <2> QED  BY <1>12, Zenon
<1> HIDE DEF Runs, F
<1>14. \A k \in 0..N : Runs[k] = IF k = 0 THEN st0 ELSE STurn(Runs[k - 1], x)
  BY <1>13, Zenon
<1> HIDE DEF Eq
<1> DEFINE P == {k \in 0..N : Runs[k] \in States /\ Going(Runs[k], N - k)}
<1>15. 0 \in P
  <2>1. 0 \in 0..N /\ N - 0 = N /\ Runs[0] = st0
    BY <1>2, <1>14
  <2>2. st0 \in States
    BY <1>6 DEF X
  <2> QED  BY <1>3, <2>1, <2>2
<1>16. ASSUME NEW k \in 0..(N - 1), k \in P PROVE k + 1 \in P
  <2>1. k + 1 \in 0..N /\ k + 1 # 0 /\ (k + 1) - 1 = k /\ N - k \in 0..N /\ (N - k) - 1 = N - (k + 1) /\ N \in 0..N
    BY <1>2
  <2>2. Runs[k + 1] = STurn(Runs[k], x)
    BY <1>14, <2>1
  <2>3. Runs[k] \in States /\ Going(Runs[k], N - k)
    BY <1>16
  <2> DEFINE st == Runs[k]
  <2> HIDE DEF st
  <2>4. CASE SOver(h, a, x, st)
    <3>1. Runs[k + 1] = st
      BY <1>8, <2>2, <2>3, <2>4 DEF st
    <3> QED  BY <2>1, <2>3, <2>4, <3>1 DEF st
  <2>5. CASE SLeft(h, a, x, st, N - k)
    <3>1. SLeft(h, a, x, st, N)
      BY <1>4, <2>1, <2>5
    <3>2. STurn(st, x) \in States
      BY <1>10, <2>3, <3>1 DEF st
    <3>3. SOver(h, a, x, STurn(st, x)) \/ SLeft(h, a, x, STurn(st, x), (N - k) - 1)
      BY <1>9, <2>1, <2>3, <2>5 DEF st
    <3>4. Going(STurn(st, x), N - (k + 1))
      BY <2>1, <3>3
    <3>5. Runs[k + 1] = STurn(st, x)
      BY <2>2 DEF st
    <3> QED  BY <2>1, <3>2, <3>4, <3>5
  <2> QED  BY <2>3, <2>4, <2>5 DEF st
<1>17. Runs[N] \in States /\ Going(Runs[N], N - N)
  <2> HIDE DEF P
  <2>1. N \in Nat /\ N \in 0..N
    BY <1>2
  <2>2. \A k \in 0..(N - 1) : k \in P => k + 1 \in P
    BY <1>16
  <2>3. \A k \in 0..N : k \in P
    BY <1>15, <2>1, <2>2, UpTo
  <2> QED  BY <2>1, <2>3 DEF P
<1> DEFINE st == Runs[N]
<1> HIDE DEF st
<1>18. CASE SLeft(h, a, x, st, 0)
  <2>1. PICK n \in 0..Len(a) : \E at, j :
          /\ SPart(h, a, x, st.heap, st.list, at, n) /\ SHere(h, x, st, Picked(a, at, n), j)
          /\ j \in 0..n /\ n - j <= 0
    BY <1>18, Zenon DEF SLeft
  <2>2. PICK at, j :
          /\ SPart(h, a, x, st.heap, st.list, at, n) /\ SHere(h, x, st, Picked(a, at, n), j)
          /\ j \in 0..n /\ n - j <= 0
    BY <2>1, Zenon
  <2>3. j = n /\ n \in Nat
    BY <1>2, <2>1, <2>2
  <2> DEFINE t == Picked(a, at, n)
  <2>4. Len(t) = n
    BY <2>3 DEF Picked
  <2> HIDE DEF t
  <2>5. st.next = None /\ \A i \in 1..n : h[t[i]].data # x
    <3>1. SHere(h, x, st, t, n)
      BY <2>2, <2>3 DEF t
    <3>2. n + 1 \notin 1..n /\ \A i \in 1..n : i <= n
      BY <2>3
    <3> QED  BY <2>4, <3>1, <3>2 DEF SHere, Entry
  <2>6. \A i \in 1..n : h[Picked(a, at, n)[i]].data # x
    BY <2>5 DEF t
  <2>7. SOver(h, a, x, st)
    BY <2>1, <2>2, <2>5, <2>6, Zenon DEF SOver
  <2> QED  BY <1>1, <2>7 DEF st
<1>19. CASE SOver(h, a, x, st)
  BY <1>1, <1>19 DEF st
<1>20. N - N = 0
  BY <1>2
<1> QED  BY <1>17, <1>18, <1>19, <1>20 DEF st

LEMMA SRemoveAllHolds ==
  ASSUME SInv, NEW x \in Data, SRemoveAll(x)
  PROVE  /\ SInv' /\ SSeconds' = SSeconds /\ SLists!Purged
         /\ \A i \in DOMAIN SFirsts' : SFirsts'[i] # x
<1> DEFINE a == SChain
           h == sHeap
           st == Purge(h, sList, x)
<1>1. sHeap' = st.heap /\ sList' = st.list /\ sSpare' = sSpare
  BY DEF SRemoveAll, SBecomes
<1>2. SProper(h) /\ Along(h, sList, a) /\ Len(a) \in Nat
      /\ Len(SFirsts) = Len(a) /\ DOMAIN SFirsts = 1..Len(a) /\ \A i \in 1..Len(a) : SFirsts[i] = h[a[i]].data
  BY SNow, SEnds
<1> HIDE DEF a, h
<1>3. SOver(h, a, x, st)
  BY <1>2, SPurgeIs
<1> HIDE DEF st
<1>4. PICK n \in 0..Len(a) : \E at :
        /\ SPart(h, a, x, st.heap, st.list, at, n)
        /\ \A i \in 1..n : h[Picked(a, at, n)[i]].data # x
  BY <1>3, Zenon DEF SOver
<1>5. PICK at :
        /\ SPart(h, a, x, st.heap, st.list, at, n)
        /\ \A i \in 1..n : h[Picked(a, at, n)[i]].data # x
  BY <1>4, Zenon
<1> DEFINE t == Picked(a, at, n)
<1>6. /\ Picks(at, n, a) /\ SEdit(h, a, st.heap, st.list, t) /\ SameData(st.heap, h)
      /\ \A i \in 1..Len(a) : (\E j \in 1..n : at[j] = i) \/ h[a[i]].data = x
  BY <1>5 DEF SPart
<1>7. /\ at \in [1..n -> 1..Len(a)] /\ n \in Nat /\ \A i, j \in 1..n : i < j => at[i] < at[j]
  BY <1>4, <1>6 DEF Picks
<1>8. Len(t) = n /\ \A i \in 1..n : t[i] = a[at[i]] /\ at[i] \in 1..Len(a) /\ h[t[i]].data # x
  BY <1>5, <1>7 DEF Picked
<1> HIDE DEF t
<1>9. SInv' /\ SFirsts' = Datas(sHeap', t) /\ SSeconds' = SSeconds
  <2>1. SEdit(sHeap, SChain, sHeap', sList', t)
    BY <1>1, <1>6 DEF a, h
  <2> QED  BY <1>1, <2>1, SListEdited
<1>10. \A i \in 1..n : st.heap[t[i]].data = h[t[i]].data
  <2>1. \A i \in 1..Len(t) : t[i] \in DOMAIN st.heap
    BY <1>6 DEF SEdit, Along
  <2> QED  BY <1>6, <1>8, <2>1 DEF SameData
<1>11. {at[i] : i \in 1..n} = {i \in DOMAIN SFirsts : SFirsts[i] # x}
  <2>1. \A i \in 1..n : at[i] \in DOMAIN SFirsts /\ SFirsts[at[i]] # x
    BY <1>2, <1>8
  <2>2. \A i \in DOMAIN SFirsts : SFirsts[i] # x => \E j \in 1..n : at[j] = i
    BY <1>2, <1>6
  <2> QED  BY <2>1, <2>2
<1>12. SFirsts' = [i \in 1..n |-> SFirsts[at[i]]]
  BY <1>1, <1>2, <1>8, <1>9, <1>10 DEF Datas
<1>13. SLists!Purged
  <2>1. n \in 0..Len(SFirsts) /\ at \in [1..n -> DOMAIN SFirsts]
    BY <1>2, <1>4, <1>7
  <2> QED  BY <1>7, <1>11, <1>12, <2>1 DEF SLists!Purged, SFirsts
<1>14. \A i \in DOMAIN SFirsts' : SFirsts'[i] # x
  <2>1. DOMAIN SFirsts' = 1..n /\ \A i \in 1..n : SFirsts'[i] = SFirsts[at[i]]
    BY <1>12
  <2> QED  BY <1>2, <1>8, <2>1
<1> QED  BY <1>9, <1>13, <1>14

-----------------------------------------------------------------------------
(* All steps of the singly linked list *)

LEMMA SStarts ==
  ASSUME SInit
  PROVE  SInv /\ SFirsts = << >> /\ SSeconds = << >>
<1>1. sHeap = << >> /\ sList = None /\ sSpare = None
  BY DEF SInit
<1>2. DOMAIN sHeap = {} /\ << >> \in Seq(Nodes) /\ Len(<< >>) = 0 /\ Members(<< >>) = {}
  BY <1>1 DEF Members
<1>3. SProper(sHeap) /\ Entry(<< >>, 1) = None
  BY <1>2 DEF SProper, Entry
<1>4. Along(sHeap, None, << >>)
  BY <1>2, <1>3 DEF Along
<1>5. Follow(sHeap, None) = << >> /\ DataOf(sHeap, None) = Datas(sHeap, << >>)
  BY <1>3, <1>4, ListIs, SProperIs
<1>6. Datas(sHeap, << >>) = << >>
  BY <1>2 DEF Datas
<1>7. SChain = << >> /\ SOther = << >>
  BY <1>1, <1>5 DEF SChain, SOther
<1>8. Two(sHeap, None, << >>, None, << >>)
  BY <1>2, <1>3, <1>4 DEF Two
<1>9. SInv
  BY <1>1, <1>7, <1>8 DEF SInv
<1> QED  BY <1>1, <1>5, <1>6, <1>9 DEF SFirsts, SSeconds

LEMMA SNextHolds ==
  ASSUME SInv, SNext
  PROVE  SInv' /\ SLists!ListsNext
<1> DEFINE Edits == SLists!Inserted \/ SLists!Removed \/ SLists!Purged \/ SLists!Reversed \/ SLists!SortedStably
           Goal  == SInv' /\ SLists!ListsNext
<1>0. SInv' /\ SSeconds' = SSeconds /\ Edits => Goal
  BY DEF SLists!ListsNext, SSeconds
<1> HIDE DEF Goal
<1>1. ASSUME NEW x \in Data, SPrepend(x) PROVE Goal
  BY <1>0, <1>1, SPrependHolds
<1>2. ASSUME NEW x \in Data, SAppend(x) PROVE Goal
  BY <1>0, <1>2, SAppendHolds
<1>3. ASSUME NEW x \in Data, SInsertSorted(x) PROVE Goal
  BY <1>0, <1>3, SInsertSortedHolds
<1>4. ASSUME NEW x \in Data, SRemove(x) PROVE Goal
  BY <1>0, <1>4, SRemoveHolds
<1>5. ASSUME NEW x \in Data, SRemoveAll(x) PROVE Goal
  BY <1>0, <1>5, SRemoveAllHolds
<1>6. ASSUME NEW x \in Data, NEW n \in InChain(sHeap, sList) \cup {None}, SInsertBefore(n, x) PROVE Goal
  BY <1>0, <1>6, SInsertBeforeHolds
<1>7. ASSUME NEW n \in InChain(sHeap, sList), SDelete(n) PROVE Goal
  BY <1>0, <1>7, SDeleteHolds
<1>8. ASSUME SReverse PROVE Goal
  BY <1>0, <1>8, SReverseHolds
<1>9. ASSUME SSort PROVE Goal
  BY <1>0, <1>9, SSortHolds
<1>10. ASSUME SConcat PROVE Goal
  BY <1>10, SConcatHolds DEF Goal, SLists!ListsNext
<1>11. ASSUME SCopy PROVE Goal
  BY <1>11, SCopyHolds DEF Goal, SLists!ListsNext
<1>12. ASSUME SFree PROVE Goal
  BY <1>12, SFreeHolds DEF Goal, SLists!ListsNext
<1>13. Goal
  BY <1>1, <1>2, <1>3, <1>4, <1>5, <1>6, <1>7, <1>8, <1>9, <1>10, <1>11, <1>12 DEF SNext
<1> QED  BY <1>13 DEF Goal

LEMMA SUnmoved ==
  ASSUME SInv, UNCHANGED sVars
  PROVE  SInv' /\ SFirsts' = SFirsts /\ SSeconds' = SSeconds
BY DEF sVars, SInv, SChain, SOther, SFirsts, SSeconds

LEMMA SStep ==
  ASSUME SInv, [SNext]_sVars
  PROVE  SInv' /\ [SLists!ListsNext]_<<SFirsts, SSeconds>>
<1>1. CASE SNext
  <2>1. SInv' /\ SLists!ListsNext
    BY <1>1, SNextHolds
  <2> QED  BY <2>1
<1>2. CASE UNCHANGED sVars
  BY <1>2, SUnmoved
<1> QED  BY <1>1, <1>2

\* Two lists that end, share no node and hold every node there is.
THEOREM SInvariant == SSpec => []SInv
<1>1. SInit => SInv
  BY SStarts
<1>2. SInv /\ [SNext]_sVars => SInv'
  BY SStep
<1> QED  BY <1>1, <1>2, PTL DEF SSpec

LEMMA SInvImplies == SInv => SNoLoss /\ STypeOK
<1> SUFFICES ASSUME SInv PROVE SNoLoss /\ STypeOK
  OBVIOUS
<1>1. Two(sHeap, sList, SChain, sSpare, SOther)
  BY DEF SInv
<1> DEFINE a == SChain
           b == SOther
<1> HIDE DEF a, b
<1>2. /\ SProper(sHeap) /\ Along(sHeap, sList, a) /\ Along(sHeap, sSpare, b)
      /\ Members(a) \cap Members(b) = {} /\ DOMAIN sHeap = Members(a) \cup Members(b)
      /\ InChain(sHeap, sList) = Members(a) /\ InChain(sHeap, sSpare) = Members(b)
  BY <1>1, TwoAre DEF Two, a, b
<1>3. ASSUME NEW p, NEW s, Along(sHeap, p, s)
      PROVE  /\ p \in DOMAIN sHeap \cup {None}
             /\ \A n \in Members(s) : sHeap[n].next \in DOMAIN sHeap \cup {None}
  BY <1>3 DEF Along, Entry, Members
<1>4. SNoLoss
  BY <1>2, <1>3 DEF SNoLoss
<1>5. STypeOK
  BY <1>2, <1>3 DEF STypeOK, SProper, SCells
<1> QED  BY <1>4, <1>5

\* Every allocated node is in exactly one of the two lists, and no list runs into
\* freed memory, whatever the caller does with the functions of gslist.c.
THEOREM SListSound == SSpec => []SNoLoss
<1>1. SInv => SNoLoss
  BY SInvImplies
<1> QED  BY <1>1, SInvariant, PTL

\* The fields of the nodes keep their types (gslist.c).
THEOREM SListTyped == SSpec => []STypeOK
<1>1. SInv => STypeOK
  BY SInvImplies
<1> QED  BY <1>1, SInvariant, PTL

\* The singly linked lists are the sequences that eglib promises: every call of
\* gslist.c is one step of LinkedLists.
THEOREM SListIsSequence == SSpec => SIsSequence
<1>1. SInit => SLists!ListsInit
  BY SStarts DEF SLists!ListsInit, SFirsts, SSeconds
<1>2. SInv /\ [SNext]_sVars => [SLists!ListsNext]_<<DataOf(sHeap, sList), DataOf(sHeap, sSpare)>>
  BY SStep DEF SFirsts, SSeconds
<1> QED  BY <1>1, <1>2, SInvariant, PTL DEF SSpec, SIsSequence, SLists!ListsSpec

\* g_slist_remove_all leaves no node with the value it is asked to remove, runs of
\* such nodes included.
THEOREM SListPurges == SSpec => SPurges
<1>1. SInv => [\A x \in Data : SRemoveAll(x) => \A i \in DOMAIN DataOf(sHeap', sList') :
                                 DataOf(sHeap', sList')[i] # x]_sVars
  <2> SUFFICES ASSUME SInv, NEW x \in Data, SRemoveAll(x)
               PROVE  \A i \in DOMAIN DataOf(sHeap', sList') : DataOf(sHeap', sList')[i] # x
    OBVIOUS
  <2> QED  BY SRemoveAllHolds DEF SFirsts
<1> QED  BY <1>1, SInvariant, PTL DEF SSpec, SPurges

=============================================================================
