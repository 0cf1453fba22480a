----------------------------- MODULE SortProofs -----------------------------
(***************************************************************************)
(* The two sorts of eglib are right for every list and array, whatever its *)
(* length, and for every length from which the quicksort partitions.       *)
(*                                                                         *)
(* Both are written with recursive functions, as the code has its loops:   *)
(* merge_lists, the insertion sort, the scans of a partition.  That there  *)
(* is such a function, and what it is, is proved from what is left to do   *)
(* becoming less (MergeIs, LoopHas); the induction is that of the least    *)
(* number that has no value (LeastOf, UpFrom).                             *)
(*                                                                         *)
(* Merge sort: stability needs the ranks to be in order and the older ones *)
(* to be higher at every turn (Ranked, Placed); a merge takes the node of  *)
(* the older list when keys are equal (MergeListsIs).                      *)
(*                                                                         *)
(* Quicksort: elements in the wrong order are in one segment of the stack  *)
(* (SortedBut), segments are apart, and the j-th of the stack has at most  *)
(* n / 2^(j-1) of the n elements (Stacked).                                *)
(***************************************************************************)
EXTENDS Sorting, FiniteSetTheorems, WellFoundedInduction, TLAPS

-----------------------------------------------------------------------------
(* Numbers and steps *)

\* A set of numbers that is not empty has a least one.
LEMMA LeastOf ==
  ASSUME NEW T, T \subseteq Nat, T # {}
  PROVE  \E m \in T : \A k \in T : m <= k
<1> DEFINE R == OpToRel(<, Nat)
<1>1. IsWellFoundedOn(R, Nat)
  BY NatLessThanWellFounded
<1>2. R = {ss \in Nat \X Nat : ss[1] < ss[2]}
  BY DEF OpToRel
<1> HIDE DEF R
<1>3. PICK m \in T : \A k \in T : ~ (<<k, m>> \in R)
  BY <1>1, WFMin
<1> SUFFICES ASSUME NEW k \in T PROVE m <= k
  OBVIOUS
<1>4. <<k, m>> \notin R /\ <<k, m>> \in Nat \X Nat /\ k \in Nat /\ m \in Nat
  BY <1>3
<1>5. <<k, m>> \in R <=> k < m
  BY <1>2, <1>4
<1> QED  BY <1>4, <1>5

\* What holds of 0 and goes over from a number to the next holds of all up to N.
LEMMA UpFrom ==
  ASSUME NEW N \in Nat, NEW P, 0 \in P, \A k \in 0..(N - 1) : k \in P => k + 1 \in P
  PROVE  \A k \in 0..N : k \in P
<1> DEFINE T == {k \in 0..N : k \notin P}
<1> SUFFICES ASSUME T # {} PROVE FALSE
  OBVIOUS
<1>1. T \subseteq Nat
  OBVIOUS
<1> HIDE DEF T
<1>2. PICK m \in T : \A k \in T : m <= k
  BY <1>1, LeastOf
<1>3. m \in 0..N /\ m \notin P
  BY <1>2 DEF T
<1>4. m # 0 /\ m - 1 \in 0..(N - 1) /\ m - 1 \in 0..N /\ (m - 1) + 1 = m
  BY <1>3
<1>5. m - 1 \notin T
  BY <1>2, <1>4
<1> QED  BY <1>3, <1>4, <1>5 DEF T

\* g starts at x and goes N steps of F, which is told the number of the step.
Iterated(g, N, X, F, x) == g \in [0..N -> X] /\ g[0] = x /\ \A k \in 1..N : g[k] = F[<<k, g[k - 1]>>]

\* There are such steps.
LEMMA Iterates ==
  ASSUME NEW N, N \in Nat, NEW X, NEW F, F \in [Nat \X X -> X], NEW x, x \in X
  PROVE  \E g : Iterated(g, N, X, F, x)
<1> DEFINE P == {m \in Nat : \E g \in [0..m -> X] : g[0] = x /\ \A k \in 1..m : g[k] = F[<<k, g[k - 1]>>]}
<1>1. 0 \in P
  <2> DEFINE g == [k \in 0..0 |-> x]
  <2>1. g \in [0..0 -> X] /\ g[0] = x /\ \A k \in 1..0 : g[k] = F[<<k, g[k - 1]>>]
    OBVIOUS
  <2> QED  BY <2>1
<1>2. ASSUME NEW m \in 0..(N - 1), m \in P PROVE m + 1 \in P
  <2>1. PICK g \in [0..m -> X] : g[0] = x /\ \A k \in 1..m : g[k] = F[<<k, g[k - 1]>>]
    BY <1>2
  <2> DEFINE y == F[<<m + 1, g[m]>>]
             f == [k \in 0..(m + 1) |-> IF k <= m THEN g[k] ELSE y]
  <2>0. y \in X
    <3>1. <<m + 1, g[m]>> \in Nat \X X
      BY <2>1
    <3> QED  BY <3>1
  <2>a. y = F[<<m + 1, g[m]>>]
    OBVIOUS
  <2> HIDE DEF y
  <2>2. f \in [0..(m + 1) -> X]
    BY <2>0, <2>1
  <2>3. f[0] = x
    BY <2>1
  <2>4. ASSUME NEW k \in 1..(m + 1) PROVE f[k] = F[<<k, f[k - 1]>>]
    <3>1. CASE k <= m
      <4>1. k \in 1..m /\ k - 1 \in 0..m /\ k - 1 <= m /\ k \in 0..(m + 1) /\ k - 1 \in 0..(m + 1)
        BY <3>1
      <4>2. f[k] = g[k] /\ f[k - 1] = g[k - 1]
        BY <3>1, <4>1
      <4> HIDE DEF f
      <4> QED  BY <2>1, <4>1, <4>2
    <3>2. CASE k = m + 1
      <4>1. k - 1 = m /\ m \in 0..(m + 1) /\ m <= m /\ ~(k <= m)
        BY <3>2
      <4>2. f[k] = y /\ f[k - 1] = g[m]
        BY <4>1
      <4> HIDE DEF f
      <4> QED  BY <2>a, <3>2, <4>2
    <3> QED  BY <3>1, <3>2
  <2> HIDE DEF f
  <2> QED  BY <2>2, <2>3, <2>4
<1> HIDE DEF P
<1>3. N \in 0..N /\ \A k \in 0..N : k \in P
  BY <1>1, <1>2, UpFrom
<1>4. N \in P
  BY <1>3
<1> QED  BY <1>4 DEF P, Iterated

-----------------------------------------------------------------------------
(* Merging *)

\* What is left to be merged when i nodes of s and j of t are gone, f being told the rest.
MergeStep(s, t, f, i, j) ==
  IF i = Len(s) THEN SubSeq(t, j + 1, Len(t))
  ELSE IF j = Len(t) THEN SubSeq(s, i + 1, Len(s))
  ELSE IF s[i + 1].key > t[j + 1].key THEN <<t[j + 1]>> \o f[<<i, j + 1>>]
  ELSE <<s[i + 1]>> \o f[<<i + 1, j>>]

\* The recursive function of merge_lists.
MergeWhole(s, t, f) == [p \in (0..Len(s)) \X (0..Len(t)) |-> MergeStep(s, t, f, p[1], p[2])]

\* merge_lists is one that is equal to it.
LEMMA MergeChosen ==
  ASSUME NEW s, NEW t
  PROVE  MergeLists(s, t) = (CHOOSE f : f = MergeWhole(s, t, f))[<<0, 0>>]
BY DEF MergeLists, MergeBy, MergeWhole, MergeStep

\* f and g tell the same where less nodes are left than of i and j.
Alike(s, t, m, n, f, g, i, j) ==
  /\ m \in Nat /\ n \in Nat /\ m = Len(s) /\ n = Len(t) /\ i \in 0..m /\ j \in 0..n
  /\ \A a \in 0..m, b \in 0..n : (m - a) + (n - b) < (m - i) + (n - j) => f[<<a, b>>] = g[<<a, b>>]

\* A step asks for what is left after one node more.
LEMMA StepLooks ==
  ASSUME NEW s, NEW t, NEW m, NEW n, NEW f, NEW g, NEW i, NEW j, Alike(s, t, m, n, f, g, i, j)
  PROVE  MergeStep(s, t, f, i, j) = MergeStep(s, t, g, i, j)
<1>0. m \in Nat /\ n \in Nat /\ m = Len(s) /\ n = Len(t) /\ i \in 0..m /\ j \in 0..n
  BY DEF Alike
<1>1. i # m => i + 1 \in 0..m /\ (m - (i + 1)) + (n - j) < (m - i) + (n - j) /\ j \in 0..n
  BY <1>0
<1>2. j # n => j + 1 \in 0..n /\ (m - i) + (n - (j + 1)) < (m - i) + (n - j) /\ i \in 0..m
  BY <1>0
<1>3. i # m => f[<<i + 1, j>>] = g[<<i + 1, j>>]
  BY <1>1 DEF Alike
<1>4. j # n => f[<<i, j + 1>>] = g[<<i, j + 1>>]
  BY <1>2 DEF Alike
<1> QED  BY <1>0, <1>3, <1>4 DEF MergeStep

\* f is right where no more than d nodes are left.
MergedTo(s, t, m, n, f, d) ==
  \A i \in 0..m, j \in 0..n : (m - i) + (n - j) <= d => f[<<i, j>>] = MergeStep(s, t, f, i, j)

\* What is right for d nodes can be made right for one more.
LEMMA MergedMore ==
  ASSUME NEW s, NEW t, NEW m \in Nat, NEW n \in Nat, m = Len(s), n = Len(t), NEW d \in Nat, NEW f, MergedTo(s, t, m, n, f, d)
  PROVE  \E g : MergedTo(s, t, m, n, g, d + 1)
<1> DEFINE g == [p \in (0..m) \X (0..n) |-> IF (m - p[1]) + (n - p[2]) = d + 1 THEN MergeStep(s, t, f, p[1], p[2]) ELSE f[p]]
<1>1. ASSUME NEW i \in 0..m, NEW j \in 0..n
      PROVE  g[<<i, j>>] = IF (m - i) + (n - j) = d + 1 THEN MergeStep(s, t, f, i, j) ELSE f[<<i, j>>]
  OBVIOUS
<1> HIDE DEF g
<1> SUFFICES ASSUME NEW i \in 0..m, NEW j \in 0..n, (m - i) + (n - j) <= d + 1 PROVE g[<<i, j>>] = MergeStep(s, t, g, i, j)
  BY DEF MergedTo
<1>2. ASSUME NEW a \in 0..m, NEW b \in 0..n, (m - a) + (n - b) < (m - i) + (n - j) PROVE f[<<a, b>>] = g[<<a, b>>]
  <2>1. (m - a) + (n - b) # d + 1
    BY <1>2
  <2> QED  BY <1>1, <2>1
<1>3. MergeStep(s, t, f, i, j) = MergeStep(s, t, g, i, j)
  <2>1. Alike(s, t, m, n, f, g, i, j)
    BY <1>2 DEF Alike
  <2> QED  BY <2>1, StepLooks
<1>4. CASE (m - i) + (n - j) = d + 1
  BY <1>1, <1>3, <1>4
<1>5. CASE (m - i) + (n - j) # d + 1
  <2>1. (m - i) + (n - j) <= d
    BY <1>5
  <2>2. f[<<i, j>>] = MergeStep(s, t, f, i, j)
    BY <2>1 DEF MergedTo
  <2> QED  BY <1>1, <1>3, <1>5, <2>2
<1> QED  BY <1>4, <1>5

\* The recursion of merge_lists has a value.
LEMMA MergeIs ==
  ASSUME NEW s, NEW t, NEW m \in Nat, NEW n \in Nat, m = Len(s), n = Len(t)
  PROVE  \E f : /\ MergeLists(s, t) = f[<<0, 0>>]
               /\ \A i \in 0..m, j \in 0..n : f[<<i, j>>] = MergeStep(s, t, f, i, j)
<1> DEFINE P == {d \in Nat : \E f : MergedTo(s, t, m, n, f, d)}
<1>1. 0 \in P
  <2> DEFINE g == [p \in (0..m) \X (0..n) |-> IF p[1] = m THEN SubSeq(t, p[2] + 1, n) ELSE << >>]
  <2>1. ASSUME NEW i \in 0..m, NEW j \in 0..n, (m - i) + (n - j) <= 0 PROVE g[<<i, j>>] = MergeStep(s, t, g, i, j)
    <3>1. i = m /\ j = n
      BY <2>1
    <3>2. g[<<i, j>>] = SubSeq(t, j + 1, n)
      BY <3>1
    <3> QED  BY <3>1, <3>2 DEF MergeStep
  <2> HIDE DEF g
  <2>2. MergedTo(s, t, m, n, g, 0)
    BY <2>1 DEF MergedTo
  <2> QED  BY <2>2
<1>2. ASSUME NEW d \in 0..((m + n) - 1), d \in P PROVE d + 1 \in P
  <2>1. d \in Nat /\ d + 1 \in Nat
    OBVIOUS
  <2>2. PICK f : MergedTo(s, t, m, n, f, d)
    BY <1>2
  <2>3. \E g : MergedTo(s, t, m, n, g, d + 1)
    BY <2>1, <2>2, MergedMore
  <2> QED  BY <2>1, <2>3
<1> HIDE DEF P
<1>3. m + n \in Nat /\ m + n \in 0..(m + n)
  OBVIOUS
<1>4. \A d \in 0..(m + n) : d \in P
  BY <1>1, <1>2, <1>3, UpFrom
<1>5. m + n \in P
  BY <1>3, <1>4
<1>6. PICK h : MergedTo(s, t, m, n, h, m + n)
  BY <1>5 DEF P
<1> DEFINE w == [p \in (0..m) \X (0..n) |-> h[p]]
<1>7. ASSUME NEW i \in 0..m, NEW j \in 0..n PROVE w[<<i, j>>] = MergeStep(s, t, w, i, j)
  <2>1. (m - i) + (n - j) <= m + n
    OBVIOUS
  <2>2. h[<<i, j>>] = MergeStep(s, t, h, i, j)
    BY <1>6, <2>1 DEF MergedTo
  <2>3. Alike(s, t, m, n, h, w, i, j)
    BY DEF Alike
  <2>w. w[<<i, j>>] = h[<<i, j>>]
    OBVIOUS
  <2> HIDE DEF w
  <2>4. MergeStep(s, t, h, i, j) = MergeStep(s, t, w, i, j)
    BY <2>3, StepLooks
  <2> QED  BY <2>2, <2>4, <2>w
<1>8. w = MergeWhole(s, t, w)
  <2>1. w = [p \in (0..m) \X (0..n) |-> w[p]]
    OBVIOUS
  <2> HIDE DEF w
  <2>2. ASSUME NEW p \in (0..m) \X (0..n) PROVE w[p] = MergeStep(s, t, w, p[1], p[2])
    <3>1. p[1] \in 0..m /\ p[2] \in 0..n /\ p = <<p[1], p[2]>>
      OBVIOUS
    <3> QED  BY <1>7, <3>1
  <2>3. [p \in (0..m) \X (0..n) |-> w[p]] = [p \in (0..m) \X (0..n) |-> MergeStep(s, t, w, p[1], p[2])]
    BY <2>2
  <2> QED  BY <2>1, <2>3 DEF MergeWhole
<1> HIDE DEF w
<1> DEFINE f == CHOOSE g : g = MergeWhole(s, t, g)
<1>9. f = MergeWhole(s, t, f)
  BY <1>8
<1>10. MergeLists(s, t) = f[<<0, 0>>]
  BY MergeChosen
<1> HIDE DEF f
<1>11. ASSUME NEW i \in 0..m, NEW j \in 0..n PROVE f[<<i, j>>] = MergeStep(s, t, f, i, j)
  <2>1. <<i, j>> \in (0..m) \X (0..n) /\ <<i, j>>[1] = i /\ <<i, j>>[2] = j
    OBVIOUS
  <2>2. MergeWhole(s, t, f)[<<i, j>>] = MergeStep(s, t, f, i, j)
    BY <2>1 DEF MergeWhole
  <2> QED  BY <1>9, <2>2
<1> QED  BY <1>10, <1>11

\* x goes before y in the one stable order.
Earlier(x, y) == x.key < y.key \/ (x.key = y.key /\ x.place < y.place)
Ordered(r)   == \A k, l \in 1..Len(r) : k < l => Earlier(r[k], r[l])
Older(s, t)  == \A a \in 1..Len(s), b \in 1..Len(t) : s[a].place < t[b].place

\* Two lists of nodes, and their lengths.
Lists(S, s, t, m, n) ==
  /\ \A x \in S : x.key \in Int /\ x.place \in Int
  /\ s \in Seq(S) /\ t \in Seq(S) /\ m = Len(s) /\ n = Len(t) /\ m \in Nat /\ n \in Nat

\* r has the nodes of s and t that are left.
Tails(S, s, t, m, n, i, j, r) ==
  /\ r \in Seq(S) /\ Len(r) = (m - i) + (n - j)
  /\ \A k \in 1..Len(r) : (\E a \in (i + 1)..m : r[k] = s[a]) \/ (\E b \in (j + 1)..n : r[k] = t[b])
  /\ \A a \in (i + 1)..m : \E k \in 1..Len(r) : r[k] = s[a]
  /\ \A b \in (j + 1)..n : \E k \in 1..Len(r) : r[k] = t[b]

\* And they are in order, if each list is and the first one is the older.
MergeOf(S, s, t, m, n, i, j, r) ==
  Tails(S, s, t, m, n, i, j, r) /\ (Ordered(s) /\ Ordered(t) /\ Older(s, t) => Ordered(r))

\* A sequence with one element in front.
LEMMA InFront ==
  ASSUME NEW S, NEW x \in S, NEW v \in Seq(S), NEW r, r = <<x>> \o v
  PROVE  /\ r \in Seq(S) /\ Len(r) = Len(v) + 1 /\ Len(v) \in Nat /\ r[1] = x
         /\ \A i \in 1..Len(r) : i # 1 => i - 1 \in 1..Len(v) /\ r[i] = v[i - 1]
         /\ \A i \in 1..Len(v) : i + 1 \in 1..Len(r) /\ r[i + 1] = v[i]
<1>1. Len(v) \in Nat /\ Len(r) = Len(v) + 1 /\ r \in Seq(S) /\ r[1] = x
  OBVIOUS
<1>2. \A i \in 1..Len(r) : i # 1 => i - 1 \in 1..Len(v) /\ r[i] = v[i - 1]
  OBVIOUS
<1>3. \A i \in 1..Len(v) : i + 1 \in 1..Len(r) /\ (i + 1) # 1 /\ (i + 1) - 1 = i
  BY <1>1
<1>4. \A i \in 1..Len(v) : r[i + 1] = v[i]
  BY <1>2, <1>3
<1> QED  BY <1>1, <1>2, <1>3, <1>4

\* Nodes stay in order when one is put in front that goes before all of them.
LEMMA OrderedFront ==
  ASSUME NEW S, NEW x \in S, NEW v \in Seq(S), NEW r, r = <<x>> \o v, Ordered(v), \A k \in 1..Len(v) : Earlier(x, v[k])
  PROVE  Ordered(r)
<1> SUFFICES ASSUME NEW k \in 1..Len(r), NEW l \in 1..Len(r), k < l PROVE Earlier(r[k], r[l])
  BY DEF Ordered
<1>1. l # 1 /\ l - 1 \in 1..Len(v) /\ r[l] = v[l - 1]
  BY InFront
<1>2. CASE k = 1
  BY <1>1, <1>2, InFront
<1>3. CASE k # 1
  <2>1. k - 1 \in 1..Len(v) /\ r[k] = v[k - 1]
    BY <1>3, InFront
  <2>2. k - 1 < l - 1
    OBVIOUS
  <2> QED  BY <1>1, <2>1, <2>2 DEF Ordered
<1> QED  BY <1>2, <1>3

\* The first node of what is left of a list goes before the others.
LEMMA FirstLeft ==
  ASSUME NEW s, NEW m \in Nat, m = Len(s), Ordered(s), NEW i \in 0..m, NEW a \in (i + 2)..m
  PROVE  Earlier(s[i + 1], s[a])
<1>1. i + 1 \in 1..Len(s) /\ a \in 1..Len(s) /\ i + 1 < a
  OBVIOUS
<1> QED  BY <1>1 DEF Ordered

\* The first list is gone: the rest of the second one is the merge.
LEMMA RestOfSecond ==
  ASSUME NEW S, NEW s, NEW t, NEW m, NEW n, Lists(S, s, t, m, n), NEW i \in 0..m, NEW j \in 0..n, i = m
  PROVE  MergeOf(S, s, t, m, n, i, j, SubSeq(t, j + 1, n))
<1> DEFINE r == SubSeq(t, j + 1, n)
<1>0. t \in Seq(S) /\ n = Len(t) /\ n \in Nat /\ m \in Nat
  BY DEF Lists
<1>1. /\ r \in Seq(S) /\ Len(r) = n - j /\ Len(r) \in Nat
      /\ \A k \in 1..Len(r) : r[k] = t[j + k]
  BY <1>0
<1> HIDE DEF r
<1>2. \A k \in 1..Len(r) : j + k \in (j + 1)..n /\ j + k \in 1..Len(t)
  BY <1>0, <1>1
<1>3. \A b \in (j + 1)..n : b - j \in 1..Len(r) /\ j + (b - j) = b
  BY <1>0, <1>1
<1>4. Len(r) = (m - i) + (n - j) /\ ~ \E a \in (i + 1)..m : TRUE
  BY <1>0, <1>1
<1>5. \A b \in (j + 1)..n : \E k \in 1..Len(r) : r[k] = t[b]
  BY <1>1, <1>3
<1>6. Tails(S, s, t, m, n, i, j, r)
  BY <1>1, <1>2, <1>4, <1>5 DEF Tails
<1>7. ASSUME Ordered(t) PROVE Ordered(r)
  <2>1. \A k, l \in 1..Len(r) : k < l => j + k < j + l
    BY <1>0, <1>1
  <2> QED  BY <1>1, <1>2, <1>7, <2>1 DEF Ordered
<1> QED  BY <1>6, <1>7 DEF MergeOf, r

\* The second list is gone.
LEMMA RestOfFirst ==
  ASSUME NEW S, NEW s, NEW t, NEW m, NEW n, Lists(S, s, t, m, n), NEW i \in 0..m, NEW j \in 0..n, j = n
  PROVE  MergeOf(S, s, t, m, n, i, j, SubSeq(s, i + 1, m))
<1> DEFINE r == SubSeq(s, i + 1, m)
<1>0. s \in Seq(S) /\ m = Len(s) /\ n \in Nat /\ m \in Nat
  BY DEF Lists
<1>1. /\ r \in Seq(S) /\ Len(r) = m - i /\ Len(r) \in Nat
      /\ \A k \in 1..Len(r) : r[k] = s[i + k]
  BY <1>0
<1> HIDE DEF r
<1>2. \A k \in 1..Len(r) : i + k \in (i + 1)..m /\ i + k \in 1..Len(s)
  BY <1>0, <1>1
<1>3. \A a \in (i + 1)..m : a - i \in 1..Len(r) /\ i + (a - i) = a
  BY <1>0, <1>1
<1>4. Len(r) = (m - i) + (n - j) /\ ~ \E b \in (j + 1)..n : TRUE
  BY <1>0, <1>1
<1>5. \A a \in (i + 1)..m : \E k \in 1..Len(r) : r[k] = s[a]
  BY <1>1, <1>3
<1>6. Tails(S, s, t, m, n, i, j, r)
  BY <1>1, <1>2, <1>4, <1>5 DEF Tails
<1>7. ASSUME Ordered(s) PROVE Ordered(r)
  <2>1. \A k, l \in 1..Len(r) : k < l => i + k < i + l
    BY <1>0, <1>1
  <2> QED  BY <1>1, <1>2, <1>7, <2>1 DEF Ordered
<1> QED  BY <1>6, <1>7 DEF MergeOf, r

\* merge_lists takes a node of the second list: the first one has a larger key.
LEMMA TakeSecond ==
  ASSUME NEW S, NEW s, NEW t, NEW m, NEW n, Lists(S, s, t, m, n), NEW i \in 0..m, NEW j \in 0..n, i # m, j # n,
         s[i + 1].key > t[j + 1].key, NEW v, MergeOf(S, s, t, m, n, i, j + 1, v)
  PROVE  MergeOf(S, s, t, m, n, i, j, <<t[j + 1]>> \o v)
<1> DEFINE x == t[j + 1]
           r == <<x>> \o v
<1>0. /\ s \in Seq(S) /\ t \in Seq(S) /\ m = Len(s) /\ n = Len(t) /\ m \in Nat /\ n \in Nat
      /\ j + 1 \in 1..n /\ i + 1 \in 1..m
  BY DEF Lists
<1>1. x \in S /\ s[i + 1] \in S
  BY <1>0
<1>2. v \in Seq(S) /\ Len(v) = (m - i) + (n - (j + 1)) /\ Len(v) \in Nat
  BY DEF MergeOf, Tails
<1> HIDE DEF r
<1>3. /\ r \in Seq(S) /\ Len(r) = Len(v) + 1 /\ r[1] = x
      /\ \A k \in 1..Len(r) : k # 1 => k - 1 \in 1..Len(v) /\ r[k] = v[k - 1]
      /\ \A k \in 1..Len(v) : k + 1 \in 1..Len(r) /\ r[k + 1] = v[k]
  BY <1>1, <1>2, InFront DEF r
<1>4. Len(r) = (m - i) + (n - j) /\ 1 \in 1..Len(r)
  BY <1>0, <1>2, <1>3
<1>5. /\ \A k \in 1..Len(v) : (\E a \in (i + 1)..m : v[k] = s[a]) \/ (\E b \in (j + 2)..n : v[k] = t[b])
      /\ \A a \in (i + 1)..m : \E k \in 1..Len(v) : v[k] = s[a]
      /\ \A b \in (j + 2)..n : \E k \in 1..Len(v) : v[k] = t[b]
  <2>1. (j + 1) + 1 = j + 2
    BY <1>0
  <2> QED  BY <2>1 DEF MergeOf, Tails
<1>6. \A k \in 1..Len(r) : (\E a \in (i + 1)..m : r[k] = s[a]) \/ (\E b \in (j + 1)..n : r[k] = t[b])
  <2> SUFFICES ASSUME NEW k \in 1..Len(r) PROVE (\E a \in (i + 1)..m : r[k] = s[a]) \/ (\E b \in (j + 1)..n : r[k] = t[b])
    OBVIOUS
  <2>1. CASE k = 1
    <3>1. j + 1 \in (j + 1)..n
      BY <1>0
    <3> QED  BY <1>3, <2>1, <3>1
  <2>2. CASE k # 1
    <3>1. k - 1 \in 1..Len(v) /\ r[k] = v[k - 1]
      BY <1>3, <2>2
    <3>2. (j + 2)..n \subseteq (j + 1)..n
      BY <1>0
    <3> QED  BY <1>5, <3>1, <3>2
  <2> QED  BY <2>1, <2>2
<1>7. \A a \in (i + 1)..m : \E k \in 1..Len(r) : r[k] = s[a]
  <2> SUFFICES ASSUME NEW a \in (i + 1)..m PROVE \E k \in 1..Len(r) : r[k] = s[a]
    OBVIOUS
  <2>1. PICK k \in 1..Len(v) : v[k] = s[a]
    BY <1>5
  <2> QED  BY <1>3, <2>1
<1>8. \A b \in (j + 1)..n : \E k \in 1..Len(r) : r[k] = t[b]
  <2> SUFFICES ASSUME NEW b \in (j + 1)..n PROVE \E k \in 1..Len(r) : r[k] = t[b]
    OBVIOUS
  <2>1. CASE b = j + 1
    BY <1>3, <1>4, <2>1
  <2>2. CASE b # j + 1
    <3>1. b \in (j + 2)..n
      BY <1>0, <2>2
    <3>2. PICK k \in 1..Len(v) : v[k] = t[b]
      BY <1>5, <3>1
    <3> QED  BY <1>3, <3>2
  <2> QED  BY <2>1, <2>2
<1>9. Tails(S, s, t, m, n, i, j, r)
  BY <1>3, <1>4, <1>6, <1>7, <1>8 DEF Tails
<1>10. ASSUME Ordered(s), Ordered(t), Older(s, t) PROVE Ordered(r)
  <2>1. Ordered(v)
    BY <1>10 DEF MergeOf
  <2>2. ASSUME NEW k \in 1..Len(v) PROVE Earlier(x, v[k])
    <3>1. CASE \E a \in (i + 1)..m : v[k] = s[a]
      <4>1. PICK a \in (i + 1)..m : v[k] = s[a]
        BY <3>1
      <4>2. a \in 1..m /\ s[a] \in S
        BY <1>0, <4>1
      <4>3. s[i + 1].key <= s[a].key
        <5>1. CASE a = i + 1
          BY <1>1, <5>1 DEF Lists
        <5>2. CASE a # i + 1
          <6>1. a \in (i + 2)..m
            BY <1>0, <5>2
          <6>2. Earlier(s[i + 1], s[a])
            BY <1>0, <1>10, <6>1, FirstLeft
          <6> QED  BY <1>1, <4>2, <6>2 DEF Earlier, Lists
        <5> QED  BY <5>1, <5>2
      <4>4. x.key \in Int /\ s[i + 1].key \in Int /\ s[a].key \in Int
        BY <1>1, <4>2 DEF Lists
      <4> HIDE DEF x
      <4>5. s[i + 1].key > x.key
        BY DEF x
      <4>6. x.key < s[a].key
        BY <4>3, <4>4, <4>5
      <4> QED  BY <4>1, <4>6 DEF Earlier
    <3>2. CASE \E b \in (j + 2)..n : v[k] = t[b]
      <4>1. PICK b \in (j + 2)..n : v[k] = t[b]
        BY <3>2
      <4> QED  BY <1>0, <1>10, <4>1, FirstLeft
    <3> QED  BY <1>5, <3>1, <3>2
  <2> HIDE DEF x
  <2> QED  BY <1>1, <1>2, <2>1, <2>2, OrderedFront DEF r
<1> QED  BY <1>9, <1>10 DEF MergeOf, r

\* merge_lists takes a node of the first list, which is the older one of two equal nodes.
LEMMA TakeFirst ==
  ASSUME NEW S, NEW s, NEW t, NEW m, NEW n, Lists(S, s, t, m, n), NEW i \in 0..m, NEW j \in 0..n, i # m, j # n,
         ~ (s[i + 1].key > t[j + 1].key), NEW v, MergeOf(S, s, t, m, n, i + 1, j, v)
  PROVE  MergeOf(S, s, t, m, n, i, j, <<s[i + 1]>> \o v)
<1> DEFINE x == s[i + 1]
           r == <<x>> \o v
<1>0. /\ s \in Seq(S) /\ t \in Seq(S) /\ m = Len(s) /\ n = Len(t) /\ m \in Nat /\ n \in Nat
      /\ j + 1 \in 1..n /\ i + 1 \in 1..m
  BY DEF Lists
<1>1. x \in S /\ t[j + 1] \in S
  BY <1>0
<1>2. v \in Seq(S) /\ Len(v) = (m - (i + 1)) + (n - j) /\ Len(v) \in Nat
  BY DEF MergeOf, Tails
<1> HIDE DEF r
<1>3. /\ r \in Seq(S) /\ Len(r) = Len(v) + 1 /\ r[1] = x
      /\ \A k \in 1..Len(r) : k # 1 => k - 1 \in 1..Len(v) /\ r[k] = v[k - 1]
      /\ \A k \in 1..Len(v) : k + 1 \in 1..Len(r) /\ r[k + 1] = v[k]
  BY <1>1, <1>2, InFront DEF r
<1>4. Len(r) = (m - i) + (n - j) /\ 1 \in 1..Len(r)
  BY <1>0, <1>2, <1>3
<1>5. /\ \A k \in 1..Len(v) : (\E a \in (i + 2)..m : v[k] = s[a]) \/ (\E b \in (j + 1)..n : v[k] = t[b])
      /\ \A a \in (i + 2)..m : \E k \in 1..Len(v) : v[k] = s[a]
      /\ \A b \in (j + 1)..n : \E k \in 1..Len(v) : v[k] = t[b]
  <2>1. (i + 1) + 1 = i + 2
    BY <1>0
  <2> QED  BY <2>1 DEF MergeOf, Tails
<1>6. \A k \in 1..Len(r) : (\E a \in (i + 1)..m : r[k] = s[a]) \/ (\E b \in (j + 1)..n : r[k] = t[b])
  <2> SUFFICES ASSUME NEW k \in 1..Len(r) PROVE (\E a \in (i + 1)..m : r[k] = s[a]) \/ (\E b \in (j + 1)..n : r[k] = t[b])
    OBVIOUS
  <2>1. CASE k = 1
    <3>1. i + 1 \in (i + 1)..m
      BY <1>0
    <3> QED  BY <1>3, <2>1, <3>1
  <2>2. CASE k # 1
    <3>1. k - 1 \in 1..Len(v) /\ r[k] = v[k - 1]
      BY <1>3, <2>2
    <3>2. (i + 2)..m \subseteq (i + 1)..m
      BY <1>0
    <3> QED  BY <1>5, <3>1, <3>2
  <2> QED  BY <2>1, <2>2
<1>7. \A b \in (j + 1)..n : \E k \in 1..Len(r) : r[k] = t[b]
  <2> SUFFICES ASSUME NEW b \in (j + 1)..n PROVE \E k \in 1..Len(r) : r[k] = t[b]
    OBVIOUS
  <2>1. PICK k \in 1..Len(v) : v[k] = t[b]
    BY <1>5
  <2> QED  BY <1>3, <2>1
<1>8. \A a \in (i + 1)..m : \E k \in 1..Len(r) : r[k] = s[a]
  <2> SUFFICES ASSUME NEW a \in (i + 1)..m PROVE \E k \in 1..Len(r) : r[k] = s[a]
    OBVIOUS
  <2>1. CASE a = i + 1
    BY <1>3, <1>4, <2>1
  <2>2. CASE a # i + 1
    <3>1. a \in (i + 2)..m
      BY <1>0, <2>2
    <3>2. PICK k \in 1..Len(v) : v[k] = s[a]
      BY <1>5, <3>1
    <3> QED  BY <1>3, <3>2
  <2> QED  BY <2>1, <2>2
<1>9. Tails(S, s, t, m, n, i, j, r)
  BY <1>3, <1>4, <1>6, <1>7, <1>8 DEF Tails
<1>10. ASSUME Ordered(s), Ordered(t), Older(s, t) PROVE Ordered(r)
  <2>1. Ordered(v)
    BY <1>10 DEF MergeOf
  <2>2. ASSUME NEW k \in 1..Len(v) PROVE Earlier(x, v[k])
    <3>1. CASE \E b \in (j + 1)..n : v[k] = t[b]
      <4>1. PICK b \in (j + 1)..n : v[k] = t[b]
        BY <3>1
      <4>2. b \in 1..n /\ t[b] \in S
        BY <1>0, <4>1
      <4>3. t[j + 1].key <= t[b].key
        <5>1. CASE b = j + 1
          BY <1>1, <5>1 DEF Lists
        <5>2. CASE b # j + 1
          <6>1. b \in (j + 2)..n
            BY <1>0, <5>2
          <6>2. Earlier(t[j + 1], t[b])
            BY <1>0, <1>10, <6>1, FirstLeft
          <6> QED  BY <1>1, <4>2, <6>2 DEF Earlier, Lists
        <5> QED  BY <5>1, <5>2
      <4>4. x.key \in Int /\ t[j + 1].key \in Int /\ t[b].key \in Int
        BY <1>1, <4>2 DEF Lists
      <4>5. x.place < t[b].place
        BY <1>0, <1>10, <4>2 DEF Older
      <4>6. ~ (x.key > t[j + 1].key)
        OBVIOUS
      <4> HIDE DEF x
      <4>7. x.key <= t[b].key
        BY <4>3, <4>4, <4>6
      <4>8. x.key < t[b].key \/ x.key = t[b].key
        BY <4>4, <4>7
      <4> QED  BY <4>1, <4>5, <4>8 DEF Earlier
    <3>2. CASE \E a \in (i + 2)..m : v[k] = s[a]
      <4>1. PICK a \in (i + 2)..m : v[k] = s[a]
        BY <3>2
      <4> QED  BY <1>0, <1>10, <4>1, FirstLeft
    <3> QED  BY <1>5, <3>1, <3>2
  <2> HIDE DEF x
  <2> QED  BY <1>1, <1>2, <2>1, <2>2, OrderedFront DEF r
<1> QED  BY <1>9, <1>10 DEF MergeOf, r

\* merge_lists keeps the nodes of two lists, and their order when the first one is the older.
LEMMA MergeListsIs ==
  ASSUME NEW S, NEW s, NEW t, NEW m, NEW n, Lists(S, s, t, m, n)
  PROVE  MergeOf(S, s, t, m, n, 0, 0, MergeLists(s, t))
<1>0. m \in Nat /\ n \in Nat /\ m = Len(s) /\ n = Len(t)
  BY DEF Lists
<1>1. PICK f : /\ MergeLists(s, t) = f[<<0, 0>>]
               /\ \A i \in 0..m, j \in 0..n : f[<<i, j>>] = MergeStep(s, t, f, i, j)
  BY <1>0, MergeIs
<1> DEFINE Good(i, j) == MergeOf(S, s, t, m, n, i, j, f[<<i, j>>])
           P == {d \in Nat : \A i \in 0..m, j \in 0..n : (m - i) + (n - j) <= d => Good(i, j)}
<1>2. ASSUME NEW i \in 0..m, NEW j \in 0..n,
             i # m /\ j # n => Good(i + 1, j) /\ Good(i, j + 1)
      PROVE  Good(i, j)
  <2>1. f[<<i, j>>] = MergeStep(s, t, f, i, j)
    BY <1>1
  <2>2. CASE i = m
    <3>1. f[<<i, j>>] = SubSeq(t, j + 1, n)
      BY <1>0, <2>1, <2>2 DEF MergeStep
    <3> QED  BY <2>2, <3>1, RestOfSecond
  <2>3. CASE i # m /\ j = n
    <3>1. f[<<i, j>>] = SubSeq(s, i + 1, m)
      BY <1>0, <2>1, <2>3 DEF MergeStep
    <3> QED  BY <2>3, <3>1, RestOfFirst
  <2>4. CASE i # m /\ j # n /\ s[i + 1].key > t[j + 1].key
    <3>1. f[<<i, j>>] = <<t[j + 1]>> \o f[<<i, j + 1>>]
      BY <1>0, <2>1, <2>4 DEF MergeStep
    <3> QED  BY <1>2, <2>4, <3>1, TakeSecond
  <2>5. CASE i # m /\ j # n /\ ~ (s[i + 1].key > t[j + 1].key)
    <3>1. f[<<i, j>>] = <<s[i + 1]>> \o f[<<i + 1, j>>]
      BY <1>0, <2>1, <2>5 DEF MergeStep
    <3> QED  BY <1>2, <2>5, <3>1, TakeFirst
  <2> QED  BY <2>2, <2>3, <2>4, <2>5
<1> HIDE DEF Good
<1>3. 0 \in P
  <2> SUFFICES ASSUME NEW i \in 0..m, NEW j \in 0..n, (m - i) + (n - j) <= 0 PROVE Good(i, j)
    OBVIOUS
  <2>1. i = m
    BY <1>0
  <2> QED  BY <1>2, <2>1
<1>4. \A d \in 0..(m + n - 1) : d \in P => d + 1 \in P
  <2> SUFFICES ASSUME NEW d \in 0..(m + n - 1), d \in P PROVE d + 1 \in P
    OBVIOUS
  <2>0. \A i \in 0..m, j \in 0..n : (m - i) + (n - j) <= d => Good(i, j)
    OBVIOUS
  <2> SUFFICES ASSUME NEW i \in 0..m, NEW j \in 0..n, (m - i) + (n - j) <= d + 1 PROVE Good(i, j)
    BY <1>0
  <2>1. ASSUME i # m, j # n PROVE Good(i + 1, j) /\ Good(i, j + 1)
    <3>1. i + 1 \in 0..m /\ j + 1 \in 0..n /\ (m - (i + 1)) + (n - j) <= d /\ (m - i) + (n - (j + 1)) <= d
      BY <1>0, <2>1
    <3> QED  BY <2>0, <3>1
  <2> QED  BY <1>2, <2>1
<1>5. m + n \in 0..(m + n) /\ m + n \in Nat
  BY <1>0
<1> HIDE DEF P
<1>6. \A N : N \in Nat /\ N = m + n => N \in P
  <2> SUFFICES ASSUME NEW N, N \in Nat, N = m + n PROVE N \in P
    OBVIOUS
  <2>1. 0..(N - 1) = 0..(m + n - 1)
    BY <1>0
  <2>2. \A d \in 0..(N - 1) : d \in P => d + 1 \in P
    BY <1>4, <2>1
  <2>3. \A d \in 0..N : d \in P
    BY <1>3, <2>2, UpFrom
  <2>4. N \in 0..N
    OBVIOUS
  <2> QED  BY <2>3, <2>4
<1>7. 0 \in 0..m /\ 0 \in 0..n /\ (m - 0) + (n - 0) <= m + n
  BY <1>0
<1>8. Good(0, 0)
  BY <1>5, <1>6, <1>7 DEF P
<1> QED  BY <1>1, <1>8 DEF Good

\* x is in the list r.
Has(r, x) == \E k \in 1..Len(r) : r[k] = x

\* The lists Q[1], .. Q[N], each older than the one before, and all older than list.
Chain(S, Q, N, list) ==
  /\ \A x \in S : x.key \in Int /\ x.place \in Int
  /\ N \in Nat /\ list \in Seq(S) /\ Ordered(list)
  /\ \A k \in 1..N : Q[k] \in Seq(S) /\ Ordered(Q[k]) /\ Older(Q[k], list)
  /\ \A k, l \in 1..N : k < l => Older(Q[l], Q[k])

\* r has the nodes of list and of the first k of the lists, in order.
Folded(S, Q, list, r, k) ==
  /\ r \in Seq(S) /\ Ordered(r)
  /\ \A i \in 1..Len(r) : Has(list, r[i]) \/ \E j \in 1..k : Has(Q[j], r[i])
  /\ \A i \in 1..Len(list) : Has(r, list[i])
  /\ \A j \in 1..k : \A i \in 1..Len(Q[j]) : Has(r, Q[j][i])

\* What merge_lists does to two lists.
LEMMA MergeKeeps ==
  ASSUME NEW S, NEW s \in Seq(S), NEW t \in Seq(S), \A x \in S : x.key \in Int /\ x.place \in Int, NEW r, r = MergeLists(s, t)
  PROVE  /\ r \in Seq(S) /\ Len(r) = Len(s) + Len(t)
         /\ \A k \in 1..Len(r) : Has(s, r[k]) \/ Has(t, r[k])
         /\ \A a \in 1..Len(s) : Has(r, s[a])
         /\ \A b \in 1..Len(t) : Has(r, t[b])
         /\ Ordered(s) /\ Ordered(t) /\ Older(s, t) => Ordered(r)
<1>1. Lists(S, s, t, Len(s), Len(t))
  BY DEF Lists
<1>2. MergeOf(S, s, t, Len(s), Len(t), 0, 0, r)
  BY <1>1, MergeListsIs
<1>3. Len(s) \in Nat /\ Len(t) \in Nat
  OBVIOUS
<1>4. 0 + 1 = 1 /\ (Len(s) - 0) + (Len(t) - 0) = Len(s) + Len(t)
  BY <1>3
<1>5. /\ r \in Seq(S) /\ Len(r) = (Len(s) - 0) + (Len(t) - 0)
      /\ \A k \in 1..Len(r) : (\E a \in (0 + 1)..Len(s) : r[k] = s[a]) \/ (\E b \in (0 + 1)..Len(t) : r[k] = t[b])
      /\ \A a \in (0 + 1)..Len(s) : \E k \in 1..Len(r) : r[k] = s[a]
      /\ \A b \in (0 + 1)..Len(t) : \E k \in 1..Len(r) : r[k] = t[b]
  BY <1>2, Zenon DEF MergeOf, Tails
<1>6. Ordered(s) /\ Ordered(t) /\ Older(s, t) => Ordered(r)
  BY <1>2, Zenon DEF MergeOf
<1>7. \A k \in 1..Len(r) : (\E a \in 1..Len(s) : r[k] = s[a]) \/ (\E b \in 1..Len(t) : r[k] = t[b])
  <2>1. (0 + 1)..Len(s) = 1..Len(s) /\ (0 + 1)..Len(t) = 1..Len(t)
    BY <1>4
  <2> SUFFICES ASSUME NEW k \in 1..Len(r) PROVE (\E a \in 1..Len(s) : r[k] = s[a]) \/ (\E b \in 1..Len(t) : r[k] = t[b])
    OBVIOUS
  <2>2. CASE \E a \in (0 + 1)..Len(s) : r[k] = s[a]
    BY <2>1, <2>2
  <2>3. CASE \E b \in (0 + 1)..Len(t) : r[k] = t[b]
    BY <2>1, <2>3
  <2> QED  BY <1>5, <2>2, <2>3
<1>8. (\A a \in 1..Len(s) : \E k \in 1..Len(r) : r[k] = s[a]) /\ (\A b \in 1..Len(t) : \E k \in 1..Len(r) : r[k] = t[b])
  BY <1>4, <1>5
<1>9. \A k \in 1..Len(r) : Has(s, r[k]) \/ Has(t, r[k])
  BY <1>7 DEF Has
<1> QED  BY <1>4, <1>5, <1>6, <1>8, <1>9 DEF Has

\* One more list is merged: it is older than what there is.
LEMMA FoldStep ==
  ASSUME NEW S, NEW Q, NEW N, NEW list, Chain(S, Q, N, list), NEW k \in 0..(N - 1), NEW v, Folded(S, Q, list, v, k),
         NEW r, r = MergeLists(Q[k + 1], v)
  PROVE  Folded(S, Q, list, r, k + 1)
<1> DEFINE q == Q[k + 1]
<1>0. N \in Nat /\ k + 1 \in 1..N /\ k \in Nat /\ list \in Seq(S)
  BY DEF Chain
<1>1. q \in Seq(S) /\ Ordered(q) /\ v \in Seq(S) /\ Ordered(v)
  BY <1>0 DEF Chain, Folded
<1>2. Older(q, v)
  <2> SUFFICES ASSUME NEW a \in 1..Len(q), NEW b \in 1..Len(v) PROVE q[a].place < v[b].place
    BY DEF Older
  <2>1. CASE Has(list, v[b])
    BY <1>0, <2>1 DEF Chain, Older, Has
  <2>2. CASE \E j \in 1..k : Has(Q[j], v[b])
    <3>1. PICK j \in 1..k : Has(Q[j], v[b])
      BY <2>2
    <3>2. j \in 1..N /\ j < k + 1
      BY <1>0
    <3>3. Older(q, Q[j])
      BY <1>0, <3>2 DEF Chain
    <3> QED  BY <3>1, <3>3 DEF Older, Has
  <2> QED  BY <2>1, <2>2 DEF Folded
<1> HIDE DEF q
<1>3. /\ r \in Seq(S) /\ Len(r) = Len(q) + Len(v)
      /\ \A i \in 1..Len(r) : Has(q, r[i]) \/ Has(v, r[i])
      /\ \A a \in 1..Len(q) : Has(r, q[a])
      /\ \A b \in 1..Len(v) : Has(r, v[b])
      /\ Ordered(r)
  <2>1. r = MergeLists(q, v)
    BY DEF q
  <2>2. \A x \in S : x.key \in Int /\ x.place \in Int
    BY DEF Chain
  <2> QED  BY <1>1, <1>2, <2>1, <2>2, MergeKeeps
<1>4. \A i \in 1..Len(r) : Has(list, r[i]) \/ \E j \in 1..(k + 1) : Has(Q[j], r[i])
  <2> SUFFICES ASSUME NEW i \in 1..Len(r) PROVE Has(list, r[i]) \/ \E j \in 1..(k + 1) : Has(Q[j], r[i])
    OBVIOUS
  <2>1. CASE Has(q, r[i])
    <3>1. k + 1 \in 1..(k + 1)
      BY <1>0
    <3> QED  BY <2>1, <3>1 DEF q
  <2>2. CASE Has(v, r[i])
    <3>1. PICK b \in 1..Len(v) : v[b] = r[i]
      BY <2>2 DEF Has
    <3>2. Has(list, v[b]) \/ \E j \in 1..k : Has(Q[j], v[b])
      BY DEF Folded
    <3>3. 1..k \subseteq 1..(k + 1)
      BY <1>0
    <3> QED  BY <3>1, <3>2, <3>3
  <2> QED  BY <1>3, <2>1, <2>2
<1>5. \A i \in 1..Len(list) : Has(r, list[i])
  <2> SUFFICES ASSUME NEW i \in 1..Len(list) PROVE Has(r, list[i])
    OBVIOUS
  <2>1. PICK b \in 1..Len(v) : v[b] = list[i]
    BY DEF Folded, Has
  <2> QED  BY <1>3, <2>1
<1>6. \A j \in 1..(k + 1) : \A i \in 1..Len(Q[j]) : Has(r, Q[j][i])
  <2> SUFFICES ASSUME NEW j \in 1..(k + 1), NEW i \in 1..Len(Q[j]) PROVE Has(r, Q[j][i])
    OBVIOUS
  <2>1. CASE j = k + 1
    BY <1>3, <2>1 DEF q
  <2>2. CASE j # k + 1
    <3>1. j \in 1..k
      BY <1>0, <2>2
    <3>2. PICK b \in 1..Len(v) : v[b] = Q[j][i]
      BY <3>1 DEF Folded, Has
    <3> QED  BY <1>3, <3>2
  <2> QED  BY <2>1, <2>2
<1> QED  BY <1>3, <1>4, <1>5, <1>6 DEF Folded, q

\* g goes from list through the merges.
Through(Q, N, list, g) == g[0] = list /\ \A k \in 1..N : g[k] = MergeLists(Q[k], g[k - 1])

\* The lists are merged one after the other.
LEMMA FoldIs ==
  ASSUME NEW S, NEW Q, NEW N, NEW list, Chain(S, Q, N, list), NEW g, Through(Q, N, list, g)
  PROVE  \A k \in 0..N : Folded(S, Q, list, g[k], k)
<1> DEFINE P == {k \in 0..N : Folded(S, Q, list, g[k], k)}
<1>0. N \in Nat /\ list \in Seq(S) /\ Ordered(list)
  BY DEF Chain
<1>1. 0 \in P
  <2>1. g[0] = list /\ 0 \in 0..N
    BY <1>0 DEF Through
  <2>2. \A i \in 1..Len(list) : Has(list, list[i])
    BY DEF Has
  <2>3. ~ \E j \in 1..0 : TRUE
    OBVIOUS
  <2> QED  BY <1>0, <2>1, <2>2, <2>3 DEF Folded
<1>2. \A k \in 0..(N - 1) : k \in P => k + 1 \in P
  <2> SUFFICES ASSUME NEW k \in 0..(N - 1), k \in P PROVE k + 1 \in P
    OBVIOUS
  <2>1. k + 1 \in 1..N /\ (k + 1) - 1 = k /\ k + 1 \in 0..N
    BY <1>0
  <2>2. g[k + 1] = MergeLists(Q[k + 1], g[k])
    BY <2>1 DEF Through
  <2>3. Folded(S, Q, list, g[k + 1], k + 1)
    BY <2>2, FoldStep
  <2> QED  BY <2>1, <2>3
<1>3. \A k \in 0..N : k \in P
  <2> HIDE DEF P
  <2> QED  BY <1>0, <1>1, <1>2, UpFrom
<1> QED  BY <1>3

\* There is such a g.
LEMMA ThroughIs ==
  ASSUME NEW S, NEW Q, NEW N, NEW list, Chain(S, Q, N, list)
  PROVE  \E g : Through(Q, N, list, g)
<1> DEFINE F == [p \in Nat \X Seq(S) |-> IF p[1] \in 1..N THEN MergeLists(Q[p[1]], p[2]) ELSE p[2]]
<1>0. N \in Nat /\ list \in Seq(S) /\ (\A x \in S : x.key \in Int /\ x.place \in Int) /\ \A k \in 1..N : Q[k] \in Seq(S)
  BY DEF Chain
<1>1. ASSUME NEW k \in 1..N, NEW t \in Seq(S) PROVE MergeLists(Q[k], t) \in Seq(S)
  BY <1>0, MergeKeeps
<1>2. F \in [Nat \X Seq(S) -> Seq(S)]
  <2> SUFFICES ASSUME NEW p \in Nat \X Seq(S) PROVE (IF p[1] \in 1..N THEN MergeLists(Q[p[1]], p[2]) ELSE p[2]) \in Seq(S)
    OBVIOUS
  <2>1. p[2] \in Seq(S)
    OBVIOUS
  <2> QED  BY <1>1, <2>1
<1>3. PICK g : Iterated(g, N, Seq(S), F, list)
  <2> HIDE DEF F
  <2> QED  BY <1>0, <1>2, Iterates
<1>5. g[0] = list /\ g \in [0..N -> Seq(S)] /\ \A k \in 1..N : g[k] = F[<<k, g[k - 1]>>]
  <2> HIDE DEF F
  <2> QED  BY <1>3 DEF Iterated
<1>4. ASSUME NEW k \in 1..N PROVE g[k] = MergeLists(Q[k], g[k - 1])
  <2>1. k \in Nat /\ k - 1 \in 0..N /\ g[k] = F[<<k, g[k - 1]>>]
    <3> HIDE DEF F
    <3> QED  BY <1>0, <1>5
  <2>2. g[k - 1] \in Seq(S)
    BY <1>5, <2>1
  <2>3. F[<<k, g[k - 1]>>] = MergeLists(Q[k], g[k - 1])
    BY <2>1, <2>2
  <2> QED  BY <2>1, <2>3
<1> QED  BY <1>4, <1>5 DEF Through

\* The nodes of the list that is sorted, and how many of them have been taken from it.
Nodes == {Node(i) : i \in 1..Len(lsInput)}
Gone  == Len(lsInput) - Len(lsRest)

\* The lists in the ranks.
Ranked ==
  /\ lsInput \in SortInputs /\ lsRanks \in Seq(Seq(Nodes))
  /\ \A i \in 1..Len(lsRanks) : Ordered(lsRanks[i]) /\ (lsRanks[i] # << >> => Len(lsRanks[i]) >= 2^i)
  /\ lsMin \in Nat /\ lsMin <= Len(lsRanks) /\ (lsRanks # << >> => lsMin < Len(lsRanks))
  /\ \A i \in 1..lsMin : lsRanks[i] = << >>

\* While it runs: every node that is gone is in a rank, the older ones higher.
Placed ==
  /\ Gone \in 0..Len(lsInput) /\ lsRest = [k \in 1..(Len(lsInput) - Gone) |-> Node(Gone + k)]
  /\ 2 * Len(lsRanks) <= Gone
  /\ \A i, j \in 1..Len(lsRanks) : i < j => Older(lsRanks[j], lsRanks[i])
  /\ \A i \in 1..Len(lsRanks) : \A x \in 1..Len(lsRanks[i]) : lsRanks[i][x].place <= Gone
  /\ \A q \in 1..Gone : \E i \in 1..Len(lsRanks) : Has(lsRanks[i], Node(q))

\* The inductive invariant of the merge sort.
LsInv ==
  /\ Ranked
  /\ \/ lsResult = << >> /\ Placed
     \/ lsRest = << >> /\ \E r \in Seq(Nodes) : lsResult = <<r>> /\ Stable(r)

\* What nodes and ranks are made of.
LEMMA NodesAre ==
  ASSUME Ranked
  PROVE  /\ Len(lsInput) \in Nat /\ DOMAIN lsInput = 1..Len(lsInput)
         /\ \A x \in Nodes : x.key \in Int /\ x.place \in Int /\ x.place \in 1..Len(lsInput) /\ x = Node(x.place)
         /\ \A i \in 1..Len(lsInput) : Node(i) \in Nodes /\ Node(i).place = i
         /\ Len(lsRanks) \in Nat /\ \A i \in 1..Len(lsRanks) : lsRanks[i] \in Seq(Nodes) /\ Len(lsRanks[i]) \in Nat
<1>1. lsInput \in Seq(Int)
  BY ListSortAssumption DEF Ranked
<1>2. Len(lsInput) \in Nat /\ DOMAIN lsInput = 1..Len(lsInput) /\ \A i \in 1..Len(lsInput) : lsInput[i] \in Int
  BY <1>1
<1>3. \A i \in 1..Len(lsInput) : Node(i) \in Nodes /\ Node(i).place = i /\ Node(i).key \in Int
  BY <1>2 DEF Nodes, Node
<1>4. \A x \in Nodes : \E i \in 1..Len(lsInput) : x = Node(i)
  BY DEF Nodes
<1>5. lsRanks \in Seq(Seq(Nodes))
  BY DEF Ranked
<1>6. Len(lsRanks) \in Nat /\ \A i \in 1..Len(lsRanks) : lsRanks[i] \in Seq(Nodes)
  BY <1>5
<1>7. \A i \in 1..Len(lsRanks) : Len(lsRanks[i]) \in Nat
  BY <1>6
<1> QED  BY <1>2, <1>3, <1>4, <1>6, <1>7

\* insert_list finds the first rank that is NULL, or one more than there are.
LEMMA FreeRankIs ==
  ASSUME NEW n \in Nat, n = Len(lsRanks)
  PROVE  /\ FreeRank \in 1..(n + 1) /\ (FreeRank <= n => lsRanks[FreeRank] = << >>)
         /\ \A j \in 1..(FreeRank - 1) : lsRanks[j] # << >>
<1> DEFINE T == {i \in 1..(n + 1) : i <= n => lsRanks[i] = << >>}
<1>1. T \subseteq Nat /\ n + 1 \in T
  OBVIOUS
<1>2. PICK m \in T : \A k \in T : m <= k
  <2> HIDE DEF T
  <2> QED  BY <1>1, LeastOf
<1>3. \A j \in 1..(m - 1) : lsRanks[j] # << >>
  BY <1>2
<1>4. \E i \in 1..(n + 1) : /\ i <= n => lsRanks[i] = << >>
                            /\ \A j \in 1..(i - 1) : lsRanks[j] # << >>
  BY <1>2, <1>3
<1> QED  BY <1>4 DEF FreeRank

\* The ranks that are looked at, and a list of nodes that have not been in them.
LEMMA RanksChain ==
  ASSUME Ranked, Placed, NEW a \in 0..Len(lsRanks), NEW N \in 0..(Len(lsRanks) - a), NEW Q,
         \A k \in 1..N : Q[k] = lsRanks[a + k], NEW list \in Seq(Nodes), Ordered(list),
         \A i \in 1..Len(list) : list[i].place > Gone
  PROVE  Chain(Nodes, Q, N, list)
<1>0. N \in Nat /\ \A k \in 1..N : a + k \in 1..Len(lsRanks)
  BY NodesAre
<1>1. \A x \in Nodes : x.key \in Int /\ x.place \in Int
  BY NodesAre
<1>2. ASSUME NEW k \in 1..N PROVE Q[k] \in Seq(Nodes) /\ Ordered(Q[k]) /\ Older(Q[k], list)
  <2>1. Q[k] = lsRanks[a + k] /\ a + k \in 1..Len(lsRanks)
    BY <1>0
  <2>2. Q[k] \in Seq(Nodes) /\ Ordered(Q[k])
    BY <2>1, NodesAre DEF Ranked
  <2>3. \A x \in 1..Len(Q[k]), y \in 1..Len(list) : Q[k][x].place < list[y].place
    <3> TAKE x \in 1..Len(Q[k]), y \in 1..Len(list)
    <3>1. Q[k][x].place <= Gone /\ list[y].place > Gone
      BY <2>1 DEF Placed
    <3>2. Q[k][x] \in Nodes /\ list[y] \in Nodes
      BY <2>2
    <3>3. Q[k][x].place \in Int /\ list[y].place \in Int /\ Gone \in Int
      BY <1>1, <3>2, NodesAre DEF Placed
    <3> QED  BY <3>1, <3>3
  <2> QED  BY <2>2, <2>3 DEF Older
<1>3. ASSUME NEW k \in 1..N, NEW l \in 1..N, k < l PROVE Older(Q[l], Q[k])
  <2>1. a + k \in 1..Len(lsRanks) /\ a + l \in 1..Len(lsRanks) /\ a + k < a + l
    BY <1>0, <1>3
  <2> QED  BY <2>1 DEF Placed
<1> QED  BY <1>0, <1>1, <1>2, <1>3 DEF Chain

\* What insert_list has merged before each rank.
CarriedWhole(list, f) == [i \in 0..(FreeRank - 1) |-> IF i = 0 THEN list ELSE MergeLists(lsRanks[i], f[i - 1])]

\* It is what Carried takes its value from.
LEMMA CarriedChosen ==
  ASSUME NEW list
  PROVE  Carried(list) = (CHOOSE f : f = CarriedWhole(list, f))[FreeRank - 1]
BY DEF Carried, CarriedWhole

\* Two lists of c nodes or more give one of twice as many.
LEMMA MergeLonger ==
  ASSUME NEW S, NEW s \in Seq(S), NEW t \in Seq(S), \A x \in S : x.key \in Int /\ x.place \in Int, NEW r, r = MergeLists(s, t),
         NEW c \in Nat, Len(s) >= c, Len(t) >= c
  PROVE  Len(r) >= 2 * c
<1>1. Len(r) = Len(s) + Len(t)
  BY MergeKeeps
<1>2. Len(s) \in Nat /\ Len(t) \in Nat
  OBVIOUS
<1> QED  BY <1>1, <1>2

\* The ranks below the free one, merged with a list of two new nodes.
LEMMA CarriedIs ==
  ASSUME Ranked, Placed, NEW list \in Seq(Nodes), Ordered(list), Len(list) >= 2,
         \A i \in 1..Len(list) : list[i].place > Gone
  PROVE  /\ Folded(Nodes, lsRanks, list, Carried(list), FreeRank - 1)
         /\ Len(Carried(list)) >= 2^FreeRank
<1> DEFINE N == FreeRank - 1
           n == Len(lsRanks)
<1>0. n \in Nat /\ N \in 0..n /\ N \in Nat /\ FreeRank \in 1..(n + 1) /\ N + 1 = FreeRank
      /\ \A j \in 1..N : j \in 1..n /\ lsRanks[j] # << >> /\ 0 + j = j
  BY NodesAre, FreeRankIs
<1>1. Chain(Nodes, lsRanks, N, list)
  <2>1. 0 \in 0..n /\ N \in 0..(n - 0)
    BY <1>0
  <2> HIDE DEF N
  <2> QED  BY <1>0, <2>1, RanksChain
<1>2. PICK g : Through(lsRanks, N, list, g)
  <2> HIDE DEF N
  <2> QED  BY <1>1, ThroughIs
<1>3. \E f : f = CarriedWhole(list, f)
  <2> DEFINE f == [k \in 0..N |-> g[k]]
  <2>1. \A i \in 0..N : f[i] = IF i = 0 THEN list ELSE MergeLists(lsRanks[i], f[i - 1])
    <3> SUFFICES ASSUME NEW i \in 0..N PROVE f[i] = IF i = 0 THEN list ELSE MergeLists(lsRanks[i], f[i - 1])
      OBVIOUS
    <3>1. CASE i = 0
      BY <1>2, <3>1 DEF Through
    <3>2. CASE i # 0
      <4>1. i \in 1..N /\ i - 1 \in 0..N
        BY <1>0, <3>2
      <4>2. g[i] = MergeLists(lsRanks[i], g[i - 1])
        BY <1>2, <4>1 DEF Through
      <4> QED  BY <3>2, <4>1, <4>2
    <3> QED  BY <3>1, <3>2
  <2>2. f = [i \in 0..N |-> IF i = 0 THEN list ELSE MergeLists(lsRanks[i], f[i - 1])]
    BY <2>1
  <2> HIDE DEF f
  <2> QED  BY <2>2 DEF CarriedWhole
<1> DEFINE h == CHOOSE f : f = CarriedWhole(list, f)
<1>4. h = CarriedWhole(list, h)
  BY <1>3
<1>5. Carried(list) = h[N]
  BY CarriedChosen
<1> HIDE DEF h
<1>6. Through(lsRanks, N, list, h)
  <2>1. \A i \in 0..N : h[i] = IF i = 0 THEN list ELSE MergeLists(lsRanks[i], h[i - 1])
    BY <1>4 DEF CarriedWhole
  <2>2. 0 \in 0..N /\ \A k \in 1..N : k \in 0..N /\ k # 0
    BY <1>0
  <2> QED  BY <2>1, <2>2 DEF Through
<1>7. \A k \in 0..N : Folded(Nodes, lsRanks, list, h[k], k)
  <2> HIDE DEF N
  <2> QED  BY <1>1, <1>6, FoldIs
<1>8. \A k \in 0..n : 2^k \in Nat /\ 2^(k + 1) \in Nat /\ 2^(k + 1) = 2 * 2^k
  <2>1. Len(lsInput) \in Nat /\ 2 * n <= Gone /\ Gone <= Len(lsInput) /\ lsInput \in SortInputs
    BY NodesAre DEF Placed, Ranked
  <2>2. \A k \in 0..n : k \in 0..Len(lsInput)
    BY <1>0, <2>1 DEF Placed
  <2> QED  BY <2>1, <2>2, PowersAssumption
<1> DEFINE P == {k \in 0..N : Len(h[k]) >= 2^(k + 1)}
<1>9. 0 \in P
  <2>1. h[0] = list /\ 0 \in 0..N
    BY <1>0, <1>6 DEF Through
  <2>2. 0 + 1 = 1 /\ 2^1 = 2
    OBVIOUS
  <2> QED  BY <2>1, <2>2
<1>10. \A k \in 0..(N - 1) : k \in P => k + 1 \in P
  <2> SUFFICES ASSUME NEW k \in 0..(N - 1), k \in P PROVE k + 1 \in P
    OBVIOUS
  <2>1. PICK l \in 1..N : l = k + 1 /\ l - 1 = k /\ l # 0 /\ l \in 0..N /\ l \in 0..n /\ l \in 1..n
    BY <1>0
  <2>2. lsRanks[l] \in Seq(Nodes) /\ h[k] \in Seq(Nodes) /\ \A x \in Nodes : x.key \in Int /\ x.place \in Int
    BY <1>7, <2>1, NodesAre DEF Folded
  <2>3. h[l] = MergeLists(lsRanks[l], h[k])
    BY <1>6, <2>1 DEF Through
  <2>4. Len(lsRanks[l]) >= 2^l /\ Len(h[k]) >= 2^l
    BY <1>0, <2>1 DEF Ranked
  <2>5. 2^l \in Nat /\ 2^(l + 1) = 2 * 2^l
    BY <1>8, <2>1
  <2>6. Len(h[l]) >= 2 * 2^l
    <3> HIDE DEF P
    <3> QED  BY <2>2, <2>3, <2>4, <2>5, MergeLonger
  <2>7. Len(h[k + 1]) >= 2^((k + 1) + 1)
    BY <2>1, <2>5, <2>6
  <2>8. k + 1 \in 0..N
    BY <2>1
  <2> QED  BY <2>7, <2>8
<1>11. \A k \in 0..N : k \in P
  <2> HIDE DEF P, N
  <2> QED  BY <1>0, <1>9, <1>10, UpFrom
<1>12. N \in 0..N
  BY <1>0
<1>13. Folded(Nodes, lsRanks, list, h[N], N) /\ Len(h[N]) >= 2^FreeRank
  BY <1>0, <1>7, <1>11, <1>12
<1> QED  BY <1>5, <1>13

\* What sweep_up has merged up to each rank.
SweepWhole(list, upto, f) == [i \in lsMin..upto |-> IF i = lsMin THEN list ELSE MergeLists(lsRanks[i], f[i - 1])]

\* It is what SweepUp takes its value from.
LEMMA SweepChosen ==
  ASSUME NEW list, NEW upto, ~ (upto < lsMin)
  PROVE  SweepUp(list, upto) = (CHOOSE f : f = SweepWhole(list, upto, f))[upto]
BY DEF SweepUp, SweepWhole

\* All the ranks, merged before the last node.
LEMMA SweepIs ==
  ASSUME Ranked, Placed, NEW list \in Seq(Nodes), Ordered(list), \A i \in 1..Len(list) : list[i].place > Gone,
         NEW Q, Q = [k \in 1..(Len(lsRanks) - lsMin) |-> lsRanks[lsMin + k]]
  PROVE  Folded(Nodes, Q, list, SweepUp(list, Len(lsRanks)), Len(lsRanks) - lsMin)
<1> DEFINE n == Len(lsRanks)
           N == n - lsMin
<1>0. /\ n \in Nat /\ lsMin \in 0..n /\ lsMin \in Nat /\ N \in 0..n /\ N \in Nat /\ ~ (n < lsMin) /\ lsMin + N = n
      /\ N \in 0..(n - lsMin)
      /\ \A k \in 1..N : Q[k] = lsRanks[lsMin + k]
  BY NodesAre DEF Ranked
<1>1. Chain(Nodes, Q, N, list)
  <2> HIDE DEF N
  <2> QED  BY <1>0, RanksChain
<1>2. PICK g : Through(Q, N, list, g)
  <2> HIDE DEF N
  <2> QED  BY <1>1, ThroughIs
<1>3. \E f : f = SweepWhole(list, n, f)
  <2> DEFINE f == [i \in lsMin..n |-> g[i - lsMin]]
  <2>1. \A i \in lsMin..n : f[i] = IF i = lsMin THEN list ELSE MergeLists(lsRanks[i], f[i - 1])
    <3> SUFFICES ASSUME NEW i \in lsMin..n PROVE f[i] = IF i = lsMin THEN list ELSE MergeLists(lsRanks[i], f[i - 1])
      OBVIOUS
    <3>0. f[i] = g[i - lsMin]
      OBVIOUS
    <3>1. CASE i = lsMin
      <4>1. i - lsMin = 0
        BY <1>0, <3>1
      <4> QED  BY <1>2, <3>0, <3>1, <4>1 DEF Through
    <3>2. CASE i # lsMin
      <4>1. i - lsMin \in 1..N /\ i - 1 \in lsMin..n /\ (i - 1) - lsMin = (i - lsMin) - 1 /\ lsMin + (i - lsMin) = i
        BY <1>0, <3>2
      <4>2. f[i - 1] = g[(i - lsMin) - 1]
        BY <4>1
      <4>3. g[i - lsMin] = MergeLists(Q[i - lsMin], g[(i - lsMin) - 1]) /\ Q[i - lsMin] = lsRanks[i]
        BY <1>0, <1>2, <4>1 DEF Through
      <4> QED  BY <3>0, <3>2, <4>2, <4>3
    <3> QED  BY <3>1, <3>2
  <2>2. f = [i \in lsMin..n |-> IF i = lsMin THEN list ELSE MergeLists(lsRanks[i], f[i - 1])]
    BY <2>1
  <2> HIDE DEF f
  <2> QED  BY <2>2 DEF SweepWhole
<1> DEFINE h == CHOOSE f : f = SweepWhole(list, n, f)
<1>4. h = SweepWhole(list, n, h)
  BY <1>3
<1>5. SweepUp(list, n) = h[n]
  BY <1>0, SweepChosen
<1> HIDE DEF h
<1> DEFINE d == [k \in 0..N |-> h[lsMin + k]]
<1>6. Through(Q, N, list, d)
  <2>1. \A i \in lsMin..n : h[i] = IF i = lsMin THEN list ELSE MergeLists(lsRanks[i], h[i - 1])
    BY <1>4 DEF SweepWhole
  <2>2. d[0] = list
    <3>1. 0 \in 0..N /\ lsMin + 0 = lsMin /\ lsMin \in lsMin..n
      BY <1>0
    <3> QED  BY <2>1, <3>1
  <2>3. ASSUME NEW k \in 1..N PROVE d[k] = MergeLists(Q[k], d[k - 1])
    <3>1. /\ lsMin + k \in lsMin..n /\ lsMin + k # lsMin /\ (lsMin + k) - 1 = lsMin + (k - 1)
          /\ k \in 0..N /\ k - 1 \in 0..N
      BY <1>0
    <3>2. d[k] = h[lsMin + k] /\ d[k - 1] = h[lsMin + (k - 1)]
      BY <3>1
    <3>3. h[lsMin + k] = MergeLists(lsRanks[lsMin + k], h[lsMin + (k - 1)])
      BY <2>1, <3>1
    <3> QED  BY <1>0, <3>2, <3>3
  <2> HIDE DEF d
  <2> QED  BY <2>2, <2>3 DEF Through
<1>7. d[N] = h[n] /\ N \in 0..N
  BY <1>0
<1> HIDE DEF d
<1>8. \A k \in 0..N : Folded(Nodes, Q, list, d[k], k)
  <2> HIDE DEF N
  <2> QED  BY <1>1, <1>6, FoldIs
<1> QED  BY <1>5, <1>7, <1>8

\* What insert_list is given: two nodes or more, in order, none of which is in a rank.
NewList(list) ==
  /\ list \in Seq(Nodes) /\ Ordered(list) /\ Len(list) >= 2
  /\ \A i \in 1..Len(list) : list[i].place > Gone

\* What insert_list does to the ranks.
LEMMA RanksAfter ==
  ASSUME Ranked, Placed, NEW list, NewList(list), InsertList(list), NEW n, n = Len(lsRanks), NEW f, f = FreeRank, NEW c, c = Carried(list)
  PROVE  /\ n \in Nat /\ f \in 1..(n + 1) /\ c \in Seq(Nodes) /\ Len(c) \in Nat /\ Ordered(c) /\ Len(c) >= 2^f /\ c # << >>
         /\ lsRanks' \in Seq(Seq(Nodes)) /\ lsMin' = f - 1
         /\ Len(lsRanks') \in Nat /\ f \in 1..Len(lsRanks') /\ n <= Len(lsRanks') /\ Len(lsRanks') <= n + 1
         /\ \A i \in 1..Len(lsRanks') : lsRanks'[i] = IF i < f THEN << >> ELSE IF i = f THEN c ELSE lsRanks[i]
         /\ \A i \in 1..Len(lsRanks') : i > f => i \in 1..n
         /\ f <= n => lsRanks[f] = << >>
<1>1. n \in Nat /\ (\A i \in 1..n : lsRanks[i] \in Seq(Nodes)) /\ f \in 1..(n + 1) /\ (f <= n => lsRanks[f] = << >>)
  BY NodesAre, FreeRankIs
<1>2. Folded(Nodes, lsRanks, list, c, f - 1) /\ Len(c) >= 2^f
  BY CarriedIs DEF NewList
<1>3. c \in Seq(Nodes) /\ Ordered(c) /\ Len(c) \in Nat
  <2>1. c \in Seq(Nodes) /\ Ordered(c)
    BY <1>2 DEF Folded
  <2> QED  BY <2>1
<1>4. c # << >>
  <2>1. PICK k \in 1..Len(c) : TRUE
    <3>1. 1 \in 1..Len(list)
      BY DEF NewList
    <3> QED  BY <1>2, <3>1 DEF Folded, Has
  <2>2. Len(c) # 0
    BY <1>3, <2>1
  <2> QED  BY <2>2
<1> DEFINE m == IF f > n THEN f ELSE n
           R == [i \in 1..m |-> IF i < f THEN << >> ELSE IF i = f THEN c ELSE lsRanks[i]]
<1>5. lsRanks' = R /\ lsMin' = f - 1
  BY DEF InsertList
<1>6. m \in Nat /\ f \in 1..m /\ n <= m /\ m <= n + 1 /\ \A i \in 1..m : i > f => i \in 1..n
  BY <1>1
<1>7. \A i \in 1..m : R[i] \in Seq(Nodes)
  <2> HIDE DEF m
  <2> SUFFICES ASSUME NEW i \in 1..m PROVE (IF i < f THEN << >> ELSE IF i = f THEN c ELSE lsRanks[i]) \in Seq(Nodes)
    OBVIOUS
  <2>1. << >> \in Seq(Nodes)
    OBVIOUS
  <2>2. i < f \/ i = f \/ i \in 1..n
    BY <1>1, <1>6
  <2> QED  BY <1>1, <1>3, <2>1, <2>2
<1> HIDE DEF m
<1>8. R \in Seq(Seq(Nodes)) /\ Len(R) = m
  <2>1. R \in [1..m -> Seq(Nodes)]
    BY <1>7
  <2>2. DOMAIN R = 1..m
    OBVIOUS
  <2> HIDE DEF R
  <2> QED  BY <1>6, <2>1, <2>2
<1>9. \A i \in 1..m : R[i] = IF i < f THEN << >> ELSE IF i = f THEN c ELSE lsRanks[i]
  OBVIOUS
<1> HIDE DEF R
<1> QED  BY <1>1, <1>2, <1>3, <1>4, <1>5, <1>6, <1>8, <1>9

\* The ranks are as they have to be, once two nodes have been inserted.
LEMMA PairKeeps ==
  ASSUME Ranked, Placed, NEW list, NewList(list), InsertList(list), lsInput' = lsInput,
         Len(lsRest) >= 2, Has(list, Node(Gone + 1)), Has(list, Node(Gone + 2)),
         \A i \in 1..Len(list) : list[i].place <= Gone + 2,
         lsRest' = SubSeq(lsRest, 3, Len(lsRest))
  PROVE  Ranked' /\ Placed'
<1> DEFINE n == Len(lsRanks)
           f == FreeRank
           c == Carried(list)
           R == lsRanks'
<1>0. /\ n \in Nat /\ f \in 1..(n + 1) /\ c \in Seq(Nodes) /\ Len(c) \in Nat /\ Ordered(c) /\ Len(c) >= 2^f /\ c # << >>
      /\ R \in Seq(Seq(Nodes)) /\ lsMin' = f - 1
      /\ Len(R) \in Nat /\ f \in 1..Len(R) /\ n <= Len(R) /\ Len(R) <= n + 1
      /\ \A i \in 1..Len(R) : R[i] = IF i < f THEN << >> ELSE IF i = f THEN c ELSE lsRanks[i]
      /\ \A i \in 1..Len(R) : i > f => i \in 1..n
      /\ f <= n => lsRanks[f] = << >>
  BY RanksAfter
<1>1. Folded(Nodes, lsRanks, list, c, f - 1)
  BY CarriedIs DEF NewList
<1>2. lsInput' = lsInput /\ lsRest' = SubSeq(lsRest, 3, Len(lsRest)) /\ Nodes' = Nodes /\ \A i : Node(i)' = Node(i)
  BY DEF Nodes, Node
<1> DEFINE p == Gone
           w == Len(lsInput)
<1>3. /\ p \in Nat /\ w \in Nat /\ p + 2 \in Nat /\ p + 2 \in 0..w /\ Len(lsRest) = w - p /\ 2 * n <= p
      /\ lsRest = [k \in 1..(w - p) |-> Node(p + k)]
  <2>1. w \in Nat /\ p \in 0..w /\ lsRest = [k \in 1..(w - p) |-> Node(p + k)] /\ 2 * n <= p
    BY NodesAre DEF Placed
  <2>2. Len(lsRest) = w - p
    <3> HIDE DEF p, w
    <3> QED  BY <2>1
  <2> HIDE DEF p, w
  <2> QED  BY <2>1, <2>2
<1>4. lsRest' = [k \in 1..(w - (p + 2)) |-> Node((p + 2) + k)] /\ Len(lsRest') = w - (p + 2)
  <2>1. lsRest \in Seq(Nodes)
    <3>1. \A k \in 1..(w - p) : p + k \in 1..w
      BY <1>3
    <3>2. \A k \in 1..(w - p) : Node(p + k) \in Nodes
      BY <3>1, NodesAre
    <3>3. w - p \in Nat
      BY <1>3
    <3> HIDE DEF p, w
    <3> QED  BY <1>3, <3>2, <3>3
  <2> HIDE DEF p, w
  <2>2. \A k \in 1..(w - (p + 2)) : 3 + k - 1 \in 1..(w - p) /\ p + (3 + k - 1) = (p + 2) + k
    BY <1>3
  <2>3. 3 \in 1..(w - p + 1) /\ (w - p) - 3 + 1 = w - (p + 2) /\ w - (p + 2) \in Nat
    BY <1>3
  <2>4. lsRest' = [k \in 1..((w - p) - 3 + 1) |-> lsRest[3 + k - 1]]
    BY <1>2, <1>3, <2>1, <2>3
  <2>5. \A k \in 1..(w - (p + 2)) : lsRest[3 + k - 1] = Node((p + 2) + k)
    BY <1>3, <2>2
  <2>6. lsRest' = [k \in 1..(w - (p + 2)) |-> Node((p + 2) + k)]
    BY <2>3, <2>4, <2>5
  <2> QED  BY <2>3, <2>6
<1>5. Gone' = p + 2
  <2>1. Gone' = w - Len(lsRest')
    BY <1>2 DEF Gone
  <2> HIDE DEF p, w
  <2> QED  BY <1>3, <1>4, <2>1
<1> HIDE DEF f, c, R, n, p
\* The ranks after the step, one by one, and where they end.
<1>r. \A i \in 1..Len(R) :
        /\ i < f => R[i] = << >>
        /\ i = f => R[i] = c
        /\ i > f => R[i] = lsRanks[i] /\ i \in 1..n
  BY <1>0
<1>f. n \in Nat /\ f \in Nat /\ 1 <= f /\ f \in 1..Len(R) /\ Len(R) \in Nat /\ f - 1 \in Nat
  BY <1>0
\* Ranked'
<1>6. \A i \in 1..Len(R) : Ordered(R[i]) /\ (R[i] # << >> => Len(R[i]) >= 2^i)
  <2> SUFFICES ASSUME NEW i \in 1..Len(R) PROVE Ordered(R[i]) /\ (R[i] # << >> => Len(R[i]) >= 2^i)
    OBVIOUS
  <2>1. CASE i < f
    <3>1. R[i] = << >>
      BY <1>r, <2>1
    <3>2. Ordered(<< >>)
      BY DEF Ordered
    <3> QED  BY <3>1, <3>2
  <2>2. CASE i = f
    <3>1. R[i] = c
      BY <1>r, <2>2
    <3> QED  BY <1>0, <2>2, <3>1
  <2>3. CASE i > f
    <3>1. R[i] = lsRanks[i] /\ i \in 1..n
      BY <1>r, <2>3
    <3> QED  BY <3>1 DEF Ranked, n
  <2> QED  BY <1>f, <2>1, <2>2, <2>3
<1>7. lsMin' \in Nat /\ lsMin' < Len(R) /\ \A i \in 1..lsMin' : R[i] = << >>
  <2>1. f - 1 \in Nat /\ f - 1 < Len(R) /\ \A i \in 1..(f - 1) : i \in 1..Len(R) /\ i < f
    BY <1>f
  <2>2. \A i \in 1..(f - 1) : R[i] = << >>
    BY <1>r, <2>1
  <2>3. lsMin' = f - 1
    BY <1>0
  <2> QED  BY <2>1, <2>2, <2>3
<1>8. Ranked'
  <2>1. R \in Seq(Seq(Nodes)) /\ lsInput \in SortInputs
    BY <1>0 DEF Ranked
  <2> QED  BY <1>0, <1>2, <1>6, <1>7, <2>1 DEF Ranked, R, Ordered, Earlier
\* Where the nodes of c come from.
<1>9. \A x \in 1..Len(c) : \/ p < c[x].place /\ c[x].place <= p + 2
                           \/ \E j \in 1..(f - 1) : j \in 1..n /\ Has(lsRanks[j], c[x])
  <2> SUFFICES ASSUME NEW x \in 1..Len(c)
               PROVE  \/ p < c[x].place /\ c[x].place <= p + 2
                      \/ \E j \in 1..(f - 1) : j \in 1..n /\ Has(lsRanks[j], c[x])
    OBVIOUS
  <2>1. CASE Has(list, c[x])
    <3>1. PICK i \in 1..Len(list) : list[i] = c[x]
      BY <2>1 DEF Has
    <3>2. list[i].place > p /\ list[i].place <= p + 2 /\ list[i].place \in Int
      <4>1. list[i] \in Nodes
        BY DEF NewList
      <4> QED  BY <4>1, NodesAre DEF NewList, p
    <3> QED  BY <1>3, <3>1, <3>2
  <2>2. CASE \E j \in 1..(f - 1) : Has(lsRanks[j], c[x])
    BY <1>0, <2>2
  <2> QED  BY <1>1, <2>1, <2>2 DEF Folded
<1>10. \A i \in 1..n : \A x \in 1..Len(lsRanks[i]) : lsRanks[i][x].place <= p /\ lsRanks[i][x].place \in Int
  <2> TAKE i \in 1..n
  <2> TAKE x \in 1..Len(lsRanks[i])
  <2>1. lsRanks[i][x] \in Nodes
    BY NodesAre DEF n
  <2> QED  BY <2>1, NodesAre DEF Placed, p, n
<1>11. \A i \in 1..Len(R) : \A x \in 1..Len(R[i]) : R[i][x].place <= p + 2
  <2> SUFFICES ASSUME NEW i \in 1..Len(R), NEW x \in 1..Len(R[i]) PROVE R[i][x].place <= p + 2
    OBVIOUS
  <2>1. CASE i = f
    <3>1. R[i] = c
      BY <1>r, <2>1
    <3>2. CASE \E j \in 1..(f - 1) : j \in 1..n /\ Has(lsRanks[j], c[x])
      <4>1. PICK j \in 1..n : Has(lsRanks[j], c[x])
        BY <3>2
      <4>2. PICK y \in 1..Len(lsRanks[j]) : lsRanks[j][y] = c[x]
        BY <4>1 DEF Has
      <4>3. c[x].place <= p /\ c[x].place \in Int
        BY <1>10, <4>2
      <4> QED  BY <1>3, <3>1, <4>3
    <3> QED  BY <1>9, <3>1, <3>2
  <2>2. CASE i > f
    <3>1. R[i] = lsRanks[i] /\ i \in 1..n
      BY <1>r, <2>2
    <3>2. R[i][x].place <= p /\ R[i][x].place \in Int
      BY <1>10, <3>1
    <3> QED  BY <1>3, <3>2
  <2>3. ~ (i < f)
    <3> SUFFICES ASSUME i < f PROVE FALSE
      OBVIOUS
    <3>1. R[i] = << >>
      BY <1>r
    <3> QED  BY <3>1
  <2> QED  BY <1>f, <2>1, <2>2, <2>3
<1>12. \A i, j \in 1..Len(R) : i < j => Older(R[j], R[i])
  <2> SUFFICES ASSUME NEW i \in 1..Len(R), NEW j \in 1..Len(R), i < j, NEW a \in 1..Len(R[j]), NEW b \in 1..Len(R[i])
               PROVE  R[j][a].place < R[i][b].place
    BY DEF Older
  <2>0. \A k, l \in 1..n : k < l => Older(lsRanks[l], lsRanks[k])
    BY DEF Placed, n
  <2>1. ~ (i < f)
    <3> SUFFICES ASSUME i < f PROVE FALSE
      OBVIOUS
    <3>1. R[i] = << >>
      BY <1>r
    <3> QED  BY <3>1
  <2>2. j > f /\ j \in 1..n /\ R[j] = lsRanks[j]
    <3>1. j > f /\ ~ (j < f) /\ j # f
      BY <1>f, <2>1
    <3>2. j \in 1..n
      BY <1>0, <3>1
    <3> QED  BY <1>0, <3>1, <3>2
  <2>3. CASE i = f
    <3>1. R[i] = c
      BY <1>r, <2>3
    <3>2. CASE p < c[b].place /\ c[b].place <= p + 2
      <4>1. lsRanks[j][a].place <= p /\ lsRanks[j][a].place \in Int
        BY <1>10, <2>2
      <4>2. c[b].place \in Int
        <5>1. c[b] \in Nodes
          BY <1>0, <3>1
        <5> QED  BY <5>1, NodesAre
      <4> QED  BY <1>3, <2>2, <3>1, <3>2, <4>1, <4>2, SMTT(30)
    <3>3. CASE \E k \in 1..(f - 1) : k \in 1..n /\ Has(lsRanks[k], c[b])
      <4>1. PICK k \in 1..(f - 1) : k \in 1..n /\ Has(lsRanks[k], c[b])
        BY <3>3
      <4>2. PICK y \in 1..Len(lsRanks[k]) : lsRanks[k][y] = c[b]
        BY <4>1 DEF Has
      <4>3. k < j
        BY <1>0, <2>2, <4>1
      <4>4. Older(lsRanks[j], lsRanks[k])
        BY <2>0, <2>2, <4>1, <4>3
      <4>5. lsRanks[j][a].place < lsRanks[k][y].place
        BY <2>2, <4>4 DEF Older
      <4> QED  BY <2>2, <3>1, <4>2, <4>5
    <3> QED  BY <1>9, <3>1, <3>2, <3>3
  <2>4. CASE i > f
    <3>1. R[i] = lsRanks[i] /\ i \in 1..n
      BY <1>r, <2>4
    <3>2. Older(lsRanks[j], lsRanks[i])
      BY <2>0, <2>2, <3>1
    <3> QED  BY <2>2, <3>1, <3>2 DEF Older
  <2> QED  BY <1>f, <2>1, <2>3, <2>4
<1>13. \A q \in 1..(p + 2) : \E i \in 1..Len(R) : Has(R[i], Node(q))
  <2> SUFFICES ASSUME NEW q \in 1..(p + 2) PROVE \E i \in 1..Len(R) : Has(R[i], Node(q))
    OBVIOUS
  <2>0. R[f] = c /\ f \in 1..Len(R)
    BY <1>f, <1>r
  <2>1. CASE q \in 1..p
    <3>1. PICK i \in 1..n : Has(lsRanks[i], Node(q))
      BY <2>1 DEF Placed, p, n
    <3>2. PICK y \in 1..Len(lsRanks[i]) : lsRanks[i][y] = Node(q)
      BY <3>1 DEF Has
    <3>3. CASE i < f
      <4>1. i \in 1..(f - 1)
        BY <1>0, <3>3
      <4>2. Has(c, lsRanks[i][y])
        BY <1>1, <4>1 DEF Folded
      <4> QED  BY <2>0, <3>2, <4>2
    <3>4. CASE i = f
      <4>1. lsRanks[i] = << >>
        BY <1>0, <3>4
      <4> QED  BY <3>2, <4>1
    <3>5. CASE i > f
      <4>1. i \in 1..Len(R) /\ R[i] = lsRanks[i]
        BY <1>0, <3>5
      <4> QED  BY <3>1, <4>1
    <3> QED  BY <1>0, <3>3, <3>4, <3>5
  <2>2. CASE q \notin 1..p
    <3>1. q = p + 1 \/ q = p + 2
      BY <1>3, <2>2
    <3>2. Has(list, Node(q))
      BY <3>1 DEF p
    <3>3. Has(c, Node(q))
      BY <1>1, <3>2 DEF Folded, Has
    <3> QED  BY <2>0, <3>3
  <2> QED  BY <2>1, <2>2
<1>14. 2 * Len(R) <= p + 2
  BY <1>0, <1>3
<1>15. Placed'
  <2>1. p + 2 \in 0..w /\ w' = w
    BY <1>2, <1>3
  <2>2. lsRest' = [k \in 1..(w' - Gone') |-> Node(Gone' + k)]
    BY <1>4, <1>5, <2>1
  <2> QED  BY <1>2, <1>5, <1>11, <1>12, <1>13, <1>14, <2>1, <2>2 DEF Placed, R, Older, Has
<1> QED  BY <1>8, <1>15

\* What is known of the list of nodes that are not gone.
LEMMA RestIs ==
  ASSUME Ranked, Placed, NEW p, p = Gone, NEW w, w = Len(lsInput)
  PROVE  /\ p \in Nat /\ w \in Nat /\ p <= w /\ Len(lsRest) = w - p /\ lsRest \in Seq(Nodes)
         /\ \A k \in 1..(w - p) : p + k \in 1..w /\ lsRest[k] = Node(p + k) /\ lsRest[k] \in Nodes
                                  /\ lsRest[k].place = p + k /\ lsRest[k].key \in Int
<1>1. w \in Nat /\ p \in 0..w /\ lsRest = [k \in 1..(w - p) |-> Node(p + k)]
  BY NodesAre DEF Placed
<1>2. \A k \in 1..(w - p) : p + k \in 1..w
  BY <1>1
<1>3. \A k \in 1..(w - p) : Node(p + k) \in Nodes /\ Node(p + k).place = p + k /\ Node(p + k).key \in Int
  BY <1>2, NodesAre
<1>4. \A k \in 1..(w - p) : lsRest[k] = Node(p + k)
  BY <1>1
<1>5. w - p \in Nat
  BY <1>1
<1>6. lsRest \in Seq(Nodes) /\ Len(lsRest) = w - p
  <2> DEFINE l == w - p
             g == [k \in 1..l |-> Node(p + k)]
  <2>1. l \in Nat /\ \A k \in 1..l : Node(p + k) \in Nodes
    BY <1>3, <1>5
  <2> HIDE DEF l
  <2>2. g \in [1..l -> Nodes] /\ DOMAIN g = 1..l
    BY <2>1
  <2>3. lsRest = g
    BY <1>1 DEF l
  <2> HIDE DEF g
  <2>4. lsRest \in Seq(Nodes) /\ Len(lsRest) = l
    BY <2>1, <2>2, <2>3
  <2> QED  BY <2>4 DEF l
<1>7. p \in Nat /\ w \in Nat /\ p <= w
  BY <1>1
<1> QED  BY <1>2, <1>3, <1>4, <1>6, <1>7

\* do_sort: two nodes, the one with the larger key behind.
LEMMA PairIs ==
  ASSUME Ranked, Placed, LsPair
  PROVE  Ranked' /\ Placed'
<1> DEFINE p == Gone
           w == Len(lsInput)
           x == lsRest[1]
           y == lsRest[2]
           list == IF x.key > y.key THEN <<y, x>> ELSE <<x, y>>
<1>1. /\ Len(lsRest) >= 2 /\ InsertList(list) /\ lsRest' = SubSeq(lsRest, 3, Len(lsRest))
      /\ lsInput' = lsInput /\ lsResult' = lsResult
  BY DEF LsPair
<1>2. /\ p \in Nat /\ w \in Nat /\ p <= w /\ Len(lsRest) = w - p /\ lsRest \in Seq(Nodes)
      /\ \A k \in 1..(w - p) : p + k \in 1..w /\ lsRest[k] = Node(p + k) /\ lsRest[k] \in Nodes
                                  /\ lsRest[k].place = p + k /\ lsRest[k].key \in Int
  BY RestIs
<1>3. 1 \in 1..(w - p) /\ 2 \in 1..(w - p)
  <2> HIDE DEF p, w
  <2> QED  BY <1>1, <1>2
<1>4. /\ x = Node(p + 1) /\ x \in Nodes /\ x.place = p + 1 /\ x.key \in Int
      /\ y = Node(p + 2) /\ y \in Nodes /\ y.place = p + 2 /\ y.key \in Int
  BY <1>2, <1>3
<1> HIDE DEF x, y, w
<1>5. \E a, b : /\ list = <<a, b>> /\ ((a = x /\ b = y) \/ (a = y /\ b = x)) /\ Earlier(a, b)
  <2>1. CASE x.key > y.key
    <3>1. list = <<y, x>>
      BY <2>1
    <3>2. y.key < x.key
      BY <1>4, <2>1
    <3>3. Earlier(y, x)
      BY <3>2 DEF Earlier
    <3> QED  BY <3>1, <3>3
  <2>2. CASE ~ (x.key > y.key)
    <3>1. list = <<x, y>>
      BY <2>2
    <3>2. x.key < y.key \/ x.key = y.key
      BY <1>4, <2>2
    <3>3. p + 1 < p + 2
      BY <1>2
    <3>4. x.place < y.place
      BY <1>4, <3>3
    <3>5. Earlier(x, y)
      BY <3>2, <3>4 DEF Earlier
    <3> QED  BY <3>1, <3>5
  <2> QED  BY <2>1, <2>2
<1>6. PICK a, b : list = <<a, b>> /\ ((a = x /\ b = y) \/ (a = y /\ b = x)) /\ Earlier(a, b)
  BY <1>5
<1> HIDE DEF list
<1>7. a \in Nodes /\ b \in Nodes
  BY <1>4, <1>6
<1>8. list \in Seq(Nodes) /\ Len(list) = 2 /\ list[1] = a /\ list[2] = b /\ 1..Len(list) = {1, 2}
  BY <1>6, <1>7
<1>9. Ordered(list)
  <2> SUFFICES ASSUME NEW k \in 1..Len(list), NEW l \in 1..Len(list), k < l PROVE Earlier(list[k], list[l])
    BY DEF Ordered
  <2>1. k = 1 /\ l = 2
    BY <1>8
  <2> QED  BY <1>6, <1>8, <2>1
<1>10. \A i \in 1..Len(list) : list[i].place > p /\ list[i].place <= p + 2
  <2>1. x.place > p /\ x.place <= p + 2 /\ y.place > p /\ y.place <= p + 2
    <3> HIDE DEF p
    <3> QED  BY <1>2, <1>4
  <2> QED  BY <1>6, <1>8, <2>1
<1>11. Has(list, Node(p + 1)) /\ Has(list, Node(p + 2))
  BY <1>4, <1>6, <1>8 DEF Has
<1>12. NewList(list)
  BY <1>8, <1>9, <1>10 DEF NewList
<1>13. InsertList(list)
  BY <1>1
<1> QED  BY <1>1, <1>10, <1>11, <1>12, <1>13, PairKeeps

\* A list of nodes in order that has every one is as long as the input.
LEMMA AllOnce ==
  ASSUME Ranked, NEW r \in Seq(Nodes), Ordered(r), \A i \in 1..Len(lsInput) : Has(r, Node(i))
  PROVE  Stable(r)
<1> DEFINE w == Len(lsInput)
           m == Len(r)
           f == [k \in 1..m |-> r[k].place]
<1>0. w \in Nat /\ m \in Nat /\ DOMAIN r = 1..m /\ DOMAIN lsInput = 1..w
  BY NodesAre
<1>1. \A k \in 1..m : r[k] \in Nodes /\ r[k].place \in 1..w /\ r[k].place \in Int /\ r[k].key \in Int
  BY NodesAre
<1>2. f \in [1..m -> 1..w]
  BY <1>1
<1>3. ASSUME NEW k \in 1..m, NEW l \in 1..m, f[k] = f[l] PROVE k = l
  <2>1. r[k] = Node(r[k].place) /\ r[l] = Node(r[l].place)
    BY <1>1, NodesAre
  <2>2. r[k] = r[l]
    BY <1>3, <2>1
  <2>3. ASSUME k < l \/ l < k PROVE FALSE
    <3>1. Earlier(r[k], r[l]) \/ Earlier(r[l], r[k])
      BY <2>3 DEF Ordered
    <3>2. Earlier(r[k], r[k])
      BY <2>2, <3>1
    <3> QED  BY <1>1, <3>2 DEF Earlier
  <2>4. k \in Nat /\ l \in Nat
    BY <1>0
  <2> QED  BY <2>3, <2>4
<1>4. \A i \in 1..w : \E k \in 1..m : f[k] = i
  <2> TAKE i \in 1..w
  <2>1. PICK k \in 1..m : r[k] = Node(i)
    BY DEF Has
  <2>2. Node(i).place = i
    BY NodesAre
  <2> QED  BY <2>1, <2>2
<1>5. w = m
  <2>1. IsFiniteSet(1..m) /\ Cardinality(1..m) = m /\ IsFiniteSet(1..w) /\ Cardinality(1..w) = w
    <3> HIDE DEF m, w
    <3>1. ASSUME NEW k \in Nat PROVE IsFiniteSet(1..k) /\ Cardinality(1..k) = k
      <4>1. IsFiniteSet(1..k) /\ Cardinality(1..k) = IF 1 > k THEN 0 ELSE k - 1 + 1
        BY FS_Interval
      <4>2. (IF 1 > k THEN 0 ELSE k - 1 + 1) = k
        OBVIOUS
      <4> QED  BY <4>1, <4>2
    <3> QED  BY <1>0, <3>1
  <2>2. f \in Bijection(1..m, 1..w)
    BY <1>2, <1>3, <1>4 DEF Bijection, Injection, Surjection, IsInjective
  <2> HIDE DEF f, m, w
  <2>3. Cardinality(1..m) = Cardinality(1..w)
    <3>1. ExistsBijection(1..m, 1..w)
      BY <2>2 DEF ExistsBijection
    <3> QED  BY <2>1, <3>1, FS_Bijection
  <2> QED  BY <2>1, <2>3
<1>6. \A i \in 1..w : \E k \in 1..m : r[k] = Node(i)
  BY DEF Has
<1>7. \A k, l \in 1..m : k < l => r[k].key < r[l].key \/ (r[k].key = r[l].key /\ r[k].place < r[l].place)
  BY DEF Ordered, Earlier
<1> HIDE DEF f
<1> QED  BY <1>0, <1>5, <1>6, <1>7 DEF Stable

\* The last merge: all the nodes, in order.
LEMMA SweepStable ==
  ASSUME Ranked, Placed, LsSweep
  PROVE  \E r \in Seq(Nodes) : lsResult' = <<r>> /\ Stable(r)
<1> DEFINE p == Gone
           w == Len(lsInput)
           n == Len(lsRanks)
           r == SweepUp(lsRest, n)
           N == n - lsMin
           Q == [k \in 1..N |-> lsRanks[lsMin + k]]
<1>1. Len(lsRest) < 2 /\ lsResult' = <<r>>
  BY DEF LsSweep
<1>2. /\ p \in Nat /\ w \in Nat /\ p <= w /\ Len(lsRest) = w - p /\ lsRest \in Seq(Nodes)
      /\ \A k \in 1..(w - p) : p + k \in 1..w /\ lsRest[k] = Node(p + k) /\ lsRest[k] \in Nodes
                                  /\ lsRest[k].place = p + k /\ lsRest[k].key \in Int
  BY RestIs
<1>3. Ordered(lsRest)
  <2>1. \A k, l \in 1..Len(lsRest) : ~ (k < l)
    <3>1. Len(lsRest) \in Nat
      BY <1>2
    <3> QED  BY <1>1, <3>1
  <2> QED  BY <2>1 DEF Ordered
<1>4. \A i \in 1..Len(lsRest) : lsRest[i].place > Gone
  <2> HIDE DEF w
  <2>1. \A i \in 1..(w - p) : p + i > p
    BY <1>2
  <2> QED  BY <1>2, <2>1
<1>5. Folded(Nodes, Q, lsRest, r, N)
  BY <1>2, <1>3, <1>4, SweepIs
<1>6. n \in Nat /\ lsMin \in Nat /\ lsMin <= n
  BY NodesAre DEF Ranked
<1> HIDE DEF r
<1>7. \A i \in 1..w : Has(r, Node(i))
  <2> SUFFICES ASSUME NEW i \in 1..w PROVE Has(r, Node(i))
    OBVIOUS
  <2>1. CASE i \in 1..p
    <3>1. PICK j \in 1..n : Has(lsRanks[j], Node(i))
      BY <2>1 DEF Placed
    <3>2. PICK y \in 1..Len(lsRanks[j]) : lsRanks[j][y] = Node(i)
      BY <3>1 DEF Has
    <3>3. j \notin 1..lsMin
      <4> SUFFICES ASSUME j \in 1..lsMin PROVE FALSE
        OBVIOUS
      <4>1. lsRanks[j] = << >>
        BY DEF Ranked
      <4> QED  BY <3>2, <4>1
    <3>4. j - lsMin \in 1..N /\ lsMin + (j - lsMin) = j
      BY <1>6, <3>3
    <3>5. Q[j - lsMin] = lsRanks[j]
      BY <3>4
    <3> HIDE DEF Q, N
    <3>6. Has(r, Q[j - lsMin][y])
      BY <1>5, <3>2, <3>4, <3>5 DEF Folded
    <3> QED  BY <3>2, <3>5, <3>6
  <2>2. CASE i \notin 1..p
    <3>1. i - p \in 1..(w - p) /\ p + (i - p) = i
      <4> HIDE DEF p, w
      <4> QED  BY <1>2, <2>2
    <3>2. lsRest[i - p] = Node(i) /\ i - p \in 1..Len(lsRest)
      BY <1>2, <3>1
    <3>3. Has(r, lsRest[i - p])
      BY <1>5, <3>2 DEF Folded
    <3> QED  BY <3>2, <3>3
  <2> QED  BY <2>1, <2>2
<1>8. r \in Seq(Nodes) /\ Ordered(r)
  BY <1>5 DEF Folded
<1>9. Stable(r)
  BY <1>7, <1>8, AllOnce
<1> QED  BY <1>1, <1>8, <1>9

\* do_sort begins with no ranks.
LEMMA LsStarts == LsInit => LsInv
<1> SUFFICES ASSUME LsInit PROVE LsInv
  OBVIOUS
<1> DEFINE w == Len(lsInput)
<1>1. /\ lsInput \in SortInputs /\ lsRest = [i \in DOMAIN lsInput |-> Node(i)]
      /\ lsRanks = << >> /\ lsMin = 0 /\ lsResult = << >>
  BY DEF LsInit
<1>2. lsInput \in Seq(Int) /\ w \in Nat /\ DOMAIN lsInput = 1..w
  BY <1>1, ListSortAssumption
<1>3. Ranked
  <2>1. << >> \in Seq(Seq(Nodes)) /\ Len(<< >>) = 0 /\ 1..0 = {}
    OBVIOUS
  <2> QED  BY <1>1, <2>1 DEF Ranked
<1>4. \A i \in 1..w : Node(i) \in Nodes
  BY DEF Nodes
<1>5. lsRest \in Seq(Nodes) /\ Len(lsRest) = w
  <2> HIDE DEF w
  <2> QED  BY <1>1, <1>2, <1>4
<1>6. Gone = 0
  BY <1>2, <1>5 DEF Gone
<1>7. lsRest = [k \in 1..(w - 0) |-> Node(0 + k)]
  <2>1. w - 0 = w /\ \A k \in 1..w : 0 + k = k
    BY <1>2
  <2> QED  BY <1>1, <1>2, <2>1
<1>8. Placed
  <2>1. Len(lsRanks) = 0 /\ 1..0 = {} /\ 0 \in 0..w
    BY <1>1, <1>2
  <2> QED  BY <1>6, <1>7, <2>1 DEF Placed
<1> QED  BY <1>1, <1>3, <1>8 DEF LsInv

\* A turn of do_sort keeps the invariant.
LEMMA LsSteps == LsInv /\ [LsNext]_lsVars => LsInv'
<1> SUFFICES ASSUME LsInv, [LsNext]_lsVars PROVE LsInv'
  OBVIOUS
<1>1. CASE LsPair
  <2>1. Ranked /\ Placed /\ lsResult = << >>
    BY <1>1 DEF LsInv, LsPair
  <2>2. lsResult' = << >>
    BY <1>1, <2>1 DEF LsPair
  <2> QED  BY <1>1, <2>1, <2>2, PairIs DEF LsInv
<1>2. CASE LsSweep
  <2>1. Ranked /\ Placed /\ lsResult = << >>
    BY <1>2 DEF LsInv, LsSweep
  <2>2. lsRest' = << >> /\ UNCHANGED <<lsInput, lsRanks, lsMin>>
    BY <1>2 DEF LsSweep
  <2>3. PICK r \in Seq(Nodes) : lsResult' = <<r>> /\ Stable(r)
    BY <1>2, <2>1, SweepStable
  <2>4. Nodes' = Nodes
    BY <2>2 DEF Nodes, Node
  <2>5. Stable(r)'
    BY <2>2, <2>3 DEF Stable, Node
  <2>6. Ranked'
    BY <2>1, <2>2, <2>4 DEF Ranked, Ordered, Earlier
  <2>7. \E s \in Seq(Nodes') : lsResult' = <<s>> /\ Stable(s)'
    BY <2>3, <2>4, <2>5
  <2> QED  BY <2>2, <2>6, <2>7 DEF LsInv
<1>3. CASE UNCHANGED lsVars
  <2>1. UNCHANGED <<lsInput, lsRest, lsRanks, lsMin, lsResult>>
    BY <1>3 DEF lsVars
  <2>2. Nodes' = Nodes /\ Gone' = Gone
    BY <2>1 DEF Nodes, Node, Gone
  <2>3. Ranked'
    BY <2>1, <2>2 DEF LsInv, Ranked, Ordered, Earlier
  <2>4. Placed => Placed'
    BY <2>1, <2>2 DEF Placed, Node, Older, Has
  <2>5. ASSUME NEW r, Stable(r) PROVE Stable(r)'
    BY <2>1, <2>5 DEF Stable, Node
  <2>6. CASE lsResult = << >> /\ Placed
    BY <2>1, <2>3, <2>4, <2>6 DEF LsInv
  <2>7. CASE lsRest = << >> /\ \E r \in Seq(Nodes) : lsResult = <<r>> /\ Stable(r)
    <3>1. PICK r \in Seq(Nodes) : lsResult = <<r>> /\ Stable(r)
      BY <2>7
    <3>2. \E s \in Seq(Nodes') : lsResult' = <<s>> /\ Stable(s)'
      BY <2>1, <2>2, <2>5, <3>1
    <3> QED  BY <2>1, <2>3, <2>7, <3>2 DEF LsInv
  <2> QED  BY <2>6, <2>7 DEF LsInv
<1> QED  BY <1>1, <1>2, <1>3 DEF LsNext

\* What the properties say follows from it.
LEMMA LsInvGives == LsInv => LsTypeOK /\ LsCorrect
<1> SUFFICES ASSUME LsInv PROVE LsTypeOK /\ LsCorrect
  OBVIOUS
<1> DEFINE T == [key : Int, place : DOMAIN lsInput]
<1>0. Ranked
  BY DEF LsInv
<1>1. Nodes \subseteq T
  <2>1. \A i \in 1..Len(lsInput) : Node(i) \in T
    <3>1. lsInput \in Seq(Int)
      BY <1>0, ListSortAssumption DEF Ranked
    <3> QED  BY <3>1 DEF Node
  <2> HIDE DEF T
  <2> QED  BY <2>1 DEF Nodes
<1>2. \A s \in Seq(Nodes) : s \in Seq(T)
  <2> HIDE DEF T
  <2> QED  BY <1>1
<1>3. lsRest \in Seq(Nodes)
  <2>1. CASE lsRest = << >>
    BY <2>1
  <2>2. CASE Placed
    BY <1>0, <2>2, RestIs
  <2> QED  BY <2>1, <2>2 DEF LsInv
<1>4. /\ Len(lsRanks) \in Nat /\ DOMAIN lsRanks = 1..Len(lsRanks)
      /\ \A i \in 1..Len(lsRanks) : /\ lsRanks[i] \in Seq(Nodes) /\ Len(lsRanks[i]) \in Nat
                                    /\ DOMAIN lsRanks[i] = 1..Len(lsRanks[i])
  <2>1. lsRanks \in Seq(Seq(Nodes))
    BY <1>0 DEF Ranked
  <2> QED  BY <2>1
<1>5. Len(lsResult) <= 1
  <2>1. lsResult = << >> \/ \E r \in Seq(Nodes) : lsResult = <<r>>
    BY DEF LsInv
  <2>2. Len(<< >>) <= 1 /\ \A r : Len(<<r>>) <= 1
    OBVIOUS
  <2> QED  BY <2>1, <2>2
<1>6. LsTypeOK
  <2>1. lsMin \in 0..Len(lsRanks) /\ (lsRanks # << >> => lsMin < Len(lsRanks))
    BY <1>0, <1>4 DEF Ranked
  <2> QED  BY <1>2, <1>3, <1>4, <1>5, <2>1 DEF LsTypeOK
<1>7. LsRanksLong
  BY <1>0, <1>4 DEF LsRanksLong, Ranked
<1>8. LsOlderAbove
  <2> SUFFICES ASSUME lsResult = << >>, NEW i \in 1..Len(lsRanks), NEW j \in 1..Len(lsRanks), i < j,
                      NEW x \in 1..Len(lsRanks[i]), NEW y \in 1..Len(lsRanks[j])
               PROVE  lsRanks[j][y].place < lsRanks[i][x].place
    BY <1>4 DEF LsOlderAbove
  <2>1. Placed
    <3>1. \A r : << >> # <<r>>
      OBVIOUS
    <3> QED  BY <3>1 DEF LsInv
  <2> QED  BY <2>1 DEF Placed, Older
<1>9. LsStable
  <2> SUFFICES ASSUME lsResult # << >> PROVE Stable(lsResult[1])
    BY DEF LsStable
  <2>1. PICK r \in Seq(Nodes) : lsResult = <<r>> /\ Stable(r)
    BY DEF LsInv
  <2>2. lsResult[1] = r
    BY <2>1
  <2> QED  BY <2>1, <2>2
<1> QED  BY <1>6, <1>7, <1>8, <1>9 DEF LsCorrect

\* g_list_sort and g_slist_sort (sort.frag.h): the result has the nodes of the list, ordered
\* by key, equal keys in their old order; the k-th rank holds 2^k nodes or more at every turn, so that
\* MAX_RANKS suffices, and no rank below min_rank, which sweep_up would forget.
THEOREM ListSortIsStable == LsSpec => []LsCorrect
<1> QED  BY LsStarts, LsSteps, LsInvGives, PTL DEF LsSpec

\* The state of do_sort: ranks and a rest of nodes of the list, and one result.
THEOREM ListSortTyped == LsSpec => []LsTypeOK
<1> QED  BY LsStarts, LsSteps, LsInvGives, PTL DEF LsSpec

-----------------------------------------------------------------------------
(* Loops *)

\* From x the loop with the step G comes to z, where it stops, in m steps through g.
Way(X, G, Z, x, z, m, g) ==
  /\ m \in Nat /\ g \in [0..m -> X] /\ g[0] = x /\ g[m] = z /\ z \in Z
  /\ \A k \in 0..(m - 1) : g[k] \notin Z /\ g[k + 1] = G[g[k]]

\* Where the loop stops that begins at x.
Stops(X, G, Z, x) == {z \in X : \E m, g : Way(X, G, Z, x, z, m, g)}

\* Chosen from it: there is at most one.
StopIn(S) == CHOOSE z : z \in S

\* A loop that has ended stops where it is.
LEMMA EndsHere ==
  ASSUME NEW X, NEW G, NEW Z, NEW x \in X, x \in Z
  PROVE  Stops(X, G, Z, x) = {x}
<1>1. x \in Stops(X, G, Z, x)
  <2> DEFINE g == [k \in 0..0 |-> x]
  <2>1. g \in [0..0 -> X] /\ g[0] = x /\ ~ \E k \in 0..(0 - 1) : TRUE
    OBVIOUS
  <2> HIDE DEF g
  <2>2. Way(X, G, Z, x, x, 0, g)
    BY <2>1 DEF Way
  <2> QED  BY <2>2 DEF Stops
<1>2. ASSUME NEW z \in Stops(X, G, Z, x) PROVE z = x
  <2>1. PICK m, g : Way(X, G, Z, x, z, m, g)
    BY DEF Stops
  <2>2. m = 0
    <3> SUFFICES ASSUME m # 0 PROVE FALSE
      OBVIOUS
    <3>1. 0 \in 0..(m - 1)
      BY <2>1 DEF Way
    <3> QED  BY <2>1, <3>1 DEF Way
  <2> QED  BY <2>1, <2>2 DEF Way
<1> QED  BY <1>1, <1>2

\* One that goes on stops where its next state does.
LEMMA EndsBeyond ==
  ASSUME NEW X, NEW G, NEW Z, NEW x \in X, x \notin Z, G[x] \in X
  PROVE  Stops(X, G, Z, x) = Stops(X, G, Z, G[x])
<1>1. ASSUME NEW z \in Stops(X, G, Z, x) PROVE z \in Stops(X, G, Z, G[x])
  <2>1. PICK m, g : Way(X, G, Z, x, z, m, g)
    BY DEF Stops
  <2>0. m \in Nat /\ g \in [0..m -> X]
    BY <2>1 DEF Way
  <2>2. m # 0 /\ m - 1 \in Nat /\ 0 \in 0..(m - 1)
    BY <2>1 DEF Way
  <2> DEFINE h == [k \in 0..(m - 1) |-> g[k + 1]]
  <2>3. \A k \in 0..(m - 1) : k + 1 \in 0..m /\ h[k] = g[k + 1]
    BY <2>0
  <2>4. h \in [0..(m - 1) -> X]
    BY <2>0, <2>3
  <2>5. h[0] = G[x] /\ h[m - 1] = z
    <3>1. 0 + 1 = 1 /\ g[1] = G[g[0]] /\ g[0] = x /\ g[m] = z
      BY <2>1, <2>2 DEF Way
    <3>2. m - 1 \in 0..(m - 1) /\ (m - 1) + 1 = m
      BY <2>0, <2>2
    <3> QED  BY <2>2, <2>3, <3>1, <3>2
  <2>6. \A k \in 0..((m - 1) - 1) : h[k] \notin Z /\ h[k + 1] = G[h[k]]
    <3> SUFFICES ASSUME NEW k \in 0..((m - 1) - 1) PROVE h[k] \notin Z /\ h[k + 1] = G[h[k]]
      OBVIOUS
    <3>1. k \in 0..(m - 1) /\ k + 1 \in 0..(m - 1)
      BY <2>0
    <3>2. g[k + 1] \notin Z /\ g[(k + 1) + 1] = G[g[k + 1]]
      BY <2>1, <3>1 DEF Way
    <3> QED  BY <2>3, <3>1, <3>2
  <2> HIDE DEF h
  <2>7. Way(X, G, Z, G[x], z, m - 1, h)
    BY <2>1, <2>2, <2>4, <2>5, <2>6 DEF Way
  <2> QED  BY <2>7 DEF Stops
<1>2. ASSUME NEW z \in Stops(X, G, Z, G[x]) PROVE z \in Stops(X, G, Z, x)
  <2>1. PICK m, g : Way(X, G, Z, G[x], z, m, g)
    BY DEF Stops
  <2>0. m \in Nat /\ g \in [0..m -> X] /\ m + 1 \in Nat
    BY <2>1 DEF Way
  <2> DEFINE h == [k \in 0..(m + 1) |-> IF k = 0 THEN x ELSE g[k - 1]]
  <2>3. \A k \in 0..(m + 1) : k # 0 => k - 1 \in 0..m /\ h[k] = g[k - 1]
    BY <2>0
  <2>4. h \in [0..(m + 1) -> X]
    BY <2>0, <2>3
  <2>5. h[0] = x /\ h[m + 1] = z /\ g[0] = G[x]
    <3>1. g[0] = G[x] /\ g[m] = z
      BY <2>1 DEF Way
    <3>2. m + 1 \in 0..(m + 1) /\ (m + 1) - 1 = m /\ m + 1 # 0
      BY <2>0
    <3>3. 0 \in 0..(m + 1)
      BY <2>0
    <3> QED  BY <2>3, <3>1, <3>2, <3>3
  <2>6. \A k \in 0..((m + 1) - 1) : h[k] \notin Z /\ h[k + 1] = G[h[k]]
    <3> SUFFICES ASSUME NEW k \in 0..((m + 1) - 1) PROVE h[k] \notin Z /\ h[k + 1] = G[h[k]]
      OBVIOUS
    <3>1. k \in 0..m /\ k + 1 \in 0..(m + 1) /\ k + 1 # 0 /\ (k + 1) - 1 = k
      BY <2>0
    <3>2. h[k + 1] = g[k]
      BY <2>3, <3>1
    <3>3. CASE k = 0
      BY <2>5, <3>2, <3>3
    <3>4. CASE k # 0
      <4>1. k - 1 \in 0..(m - 1) /\ (k - 1) + 1 = k /\ k \in 0..(m + 1)
        BY <2>0, <3>1, <3>4
      <4>2. g[k - 1] \notin Z /\ g[k] = G[g[k - 1]]
        BY <2>1, <4>1 DEF Way
      <4>3. h[k] = g[k - 1]
        BY <2>3, <3>4, <4>1
      <4> QED  BY <3>2, <4>2, <4>3
    <3> QED  BY <3>3, <3>4
  <2> HIDE DEF h
  <2>7. Way(X, G, Z, x, z, m + 1, h)
    BY <2>0, <2>1, <2>4, <2>5, <2>6 DEF Way
  <2> QED  BY <2>7 DEF Stops
<1>3. Stops(X, G, Z, x) \subseteq X /\ Stops(X, G, Z, G[x]) \subseteq X
  BY DEF Stops
<1> QED  BY <1>1, <1>2

\* f is what the loop returns: O where it stops.
LoopOf(X, G, Z, O, f) == f = [x \in X |-> IF x \in Z THEN O[x] ELSE f[G[x]]]

\* A loop that is written as a recursive function: there is one, wherever it ends.
LEMMA LoopHas ==
  ASSUME NEW X, NEW G, NEW Z, NEW O, \A x \in X : x \notin Z => G[x] \in X
  PROVE  \E f : LoopOf(X, G, Z, O, f)
<1> DEFINE f == [x \in X |-> O[StopIn(Stops(X, G, Z, x))]]
<1>1. ASSUME NEW x \in X PROVE f[x] = IF x \in Z THEN O[x] ELSE f[G[x]]
  <2>1. CASE x \in Z
    <3>1. Stops(X, G, Z, x) = {x}
      BY <2>1, EndsHere
    <3>2. StopIn({x}) = x
      BY DEF StopIn
    <3> QED  BY <2>1, <3>1, <3>2
  <2>2. CASE x \notin Z
    <3>1. G[x] \in X /\ Stops(X, G, Z, x) = Stops(X, G, Z, G[x])
      BY <2>2, EndsBeyond
    <3> QED  BY <2>2, <3>1
  <2> QED  BY <2>1, <2>2
<1>2. f = [x \in X |-> f[x]]
  OBVIOUS
<1>3. f = [x \in X |-> IF x \in Z THEN O[x] ELSE f[G[x]]]
  <2> HIDE DEF f
  <2> QED  BY <1>1, <1>2
<1> HIDE DEF f
<1> QED  BY <1>3 DEF LoopOf

-----------------------------------------------------------------------------
(* Arrays that have the same elements *)

\* pi takes the places of D to each other and leaves those outside of S alone.
Moves(D, S, pi) ==
  /\ pi \in [D -> D]
  /\ \A p, q \in D : pi[p] = pi[q] => p = q
  /\ \A q \in D : \E p \in D : pi[p] = q
  /\ \A p \in D : p \notin S => pi[p] = p

\* b is a with the elements at the places in S permuted.
Shuffled(D, a, b, S) == \E pi : Moves(D, S, pi) /\ \A p \in D : b[p] = a[pi[p]]

\* Nothing is moved.
LEMMA ShuffledNone ==
  ASSUME NEW D, NEW S, NEW a
  PROVE  Shuffled(D, a, a, S)
<1> DEFINE pi == [p \in D |-> p]
<1>1. Moves(D, S, pi)
  BY DEF Moves
<1>2. \A p \in D : a[p] = a[pi[p]]
  OBVIOUS
<1> HIDE DEF pi
<1> QED  BY <1>1, <1>2 DEF Shuffled

\* Two elements are exchanged.
LEMMA ShuffledSwap ==
  ASSUME NEW D, NEW S, S \subseteq D, NEW a \in [D -> Int], NEW i \in S, NEW j \in S, NEW b, b = Swap(a, i, j)
  PROVE  /\ Shuffled(D, a, b, S) /\ b \in [D -> Int] /\ b[i] = a[j] /\ b[j] = a[i]
         /\ \A p \in D : p # i /\ p # j => b[p] = a[p]
<1>1. b = [a EXCEPT ![i] = a[j], ![j] = a[i]] /\ i \in D /\ j \in D
  BY DEF Swap
<1>2. b \in [D -> Int] /\ b[i] = a[j] /\ b[j] = a[i] /\ \A p \in D : p # i /\ p # j => b[p] = a[p]
  BY <1>1
<1> DEFINE pi == [p \in D |-> IF p = i THEN j ELSE IF p = j THEN i ELSE p]
<1>3. Moves(D, S, pi)
  <2>1. pi \in [D -> D] /\ pi[i] = j /\ pi[j] = i /\ \A p \in D : p # i /\ p # j => pi[p] = p
    BY <1>1
  <2> HIDE DEF pi
  <2>2. \A p, q \in D : pi[p] = pi[q] => p = q
    BY <1>1, <2>1
  <2>3. \A q \in D : \E p \in D : pi[p] = q
    BY <1>1, <2>1
  <2> QED  BY <2>1, <2>2, <2>3 DEF Moves
<1>4. \A p \in D : b[p] = a[pi[p]]
  BY <1>1, <1>2
<1> HIDE DEF pi
<1> QED  BY <1>2, <1>3, <1>4 DEF Shuffled

\* One permutation after another.
LEMMA ShuffledTwice ==
  ASSUME NEW D, NEW S, NEW a, NEW b, NEW c, Shuffled(D, a, b, S), Shuffled(D, b, c, S)
  PROVE  Shuffled(D, a, c, S)
<1>1. PICK pi : Moves(D, S, pi) /\ \A p \in D : b[p] = a[pi[p]]
  BY DEF Shuffled
<1>2. PICK rho : Moves(D, S, rho) /\ \A p \in D : c[p] = b[rho[p]]
  BY DEF Shuffled
<1> DEFINE tau == [p \in D |-> pi[rho[p]]]
<1>3. \A p \in D : rho[p] \in D /\ tau[p] = pi[rho[p]]
  BY <1>2 DEF Moves
<1>4. tau \in [D -> D]
  BY <1>1, <1>3 DEF Moves
<1> HIDE DEF tau
<1>5. \A p, q \in D : tau[p] = tau[q] => p = q
  BY <1>1, <1>2, <1>3 DEF Moves
<1>6. ASSUME NEW q \in D PROVE \E p \in D : tau[p] = q
  <2>1. PICK r \in D : pi[r] = q
    BY <1>1 DEF Moves
  <2>2. PICK p \in D : rho[p] = r
    BY <1>2 DEF Moves
  <2> QED  BY <1>3, <2>1, <2>2
<1>7. \A p \in D : p \notin S => tau[p] = p
  BY <1>1, <1>2, <1>3 DEF Moves
<1>8. Moves(D, S, tau)
  BY <1>4, <1>5, <1>6, <1>7 DEF Moves
<1>9. \A p \in D : c[p] = a[tau[p]]
  BY <1>1, <1>2, <1>3
<1> QED  BY <1>8, <1>9 DEF Shuffled

\* A permutation of some places is one of more places.
LEMMA ShuffledMore ==
  ASSUME NEW D, NEW S, NEW T, S \subseteq T, NEW a, NEW b, Shuffled(D, a, b, S)
  PROVE  Shuffled(D, a, b, T)
<1>1. PICK pi : Moves(D, S, pi) /\ \A p \in D : b[p] = a[pi[p]]
  BY DEF Shuffled
<1>2. Moves(D, T, pi)
  BY <1>1 DEF Moves
<1> QED  BY <1>1, <1>2 DEF Shuffled

\* Elements inside of S come from inside of S.
LEMMA ShuffledInside ==
  ASSUME NEW D, NEW S, S \subseteq D, NEW a, NEW b, Shuffled(D, a, b, S)
  PROVE  /\ \A p \in S : \E q \in S : b[p] = a[q]
         /\ \A p \in D : p \notin S => b[p] = a[p]
<1>1. PICK pi : Moves(D, S, pi) /\ \A p \in D : b[p] = a[pi[p]]
  BY DEF Shuffled
<1>2. \A p \in S : pi[p] \in S
  BY <1>1 DEF Moves
<1>3. \A p \in D : p \notin S => b[p] = a[p]
  BY <1>1 DEF Moves
<1> QED  BY <1>1, <1>2, <1>3

\* No element is lost or doubled.
LEMMA ShuffledCount ==
  ASSUME NEW D, IsFiniteSet(D), NEW S, NEW a, NEW b, Shuffled(D, a, b, S), NEW x
  PROVE  Cardinality({p \in D : b[p] = x}) = Cardinality({p \in D : a[p] = x})
<1> DEFINE A == {p \in D : a[p] = x}
           B == {p \in D : b[p] = x}
<1>1. PICK pi : Moves(D, S, pi) /\ \A p \in D : b[p] = a[pi[p]]
  BY DEF Shuffled
<1> DEFINE f == [p \in B |-> pi[p]]
<1>2. \A p \in B : f[p] \in A
  BY <1>1 DEF Moves
<1>3. f \in [B -> A]
  BY <1>2
<1>4. \A p, q \in B : f[p] = f[q] => p = q
  BY <1>1 DEF Moves
<1>5. ASSUME NEW q \in A PROVE \E p \in B : f[p] = q
  <2>1. PICK p \in D : pi[p] = q
    BY <1>1 DEF Moves
  <2>2. p \in B
    BY <1>1, <2>1
  <2> QED  BY <2>1, <2>2
<1> HIDE DEF f
<1>6. IsFiniteSet(B)
  BY FS_Subset
<1> HIDE DEF A, B
<1>7. f \in Bijection(B, A)
  BY <1>3, <1>4, <1>5 DEF Bijection, Injection, Surjection, IsInjective
<1>8. ExistsBijection(B, A)
  BY <1>7 DEF ExistsBijection
<1>9. Cardinality(B) = Cardinality(A)
  BY <1>6, <1>8, FS_Bijection
<1> QED  BY <1>9 DEF A, B

-----------------------------------------------------------------------------
(* Short segments *)

\* The arrays of n elements.
Arrays(n) == [1..n -> Int]

\* The same of an array.
LEMMA ArraySwap ==
  ASSUME NEW n \in Nat, NEW a \in Arrays(n), NEW lo \in 1..n, NEW hi \in 1..n, NEW i \in lo..hi, NEW j \in lo..hi,
         NEW b, b = Swap(a, i, j)
  PROVE  /\ Shuffled(1..n, a, b, lo..hi) /\ b \in Arrays(n) /\ b[i] = a[j] /\ b[j] = a[i]
         /\ \A p \in 1..n : p # i /\ p # j => b[p] = a[p]
         /\ \A p \in 1..n : a[p] \in Int /\ b[p] \in Int
<1> DEFINE D == 1..n
           S == lo..hi
<1>1. S \subseteq D /\ i \in S /\ j \in S /\ a \in [D -> Int]
  BY DEF Arrays
<1> HIDE DEF D, S
<1>3. Shuffled(D, a, b, S)
  BY <1>1, ShuffledSwap
<1>4. b \in [D -> Int]
  BY <1>1, ShuffledSwap
<1>5. b[i] = a[j] /\ b[j] = a[i]
  BY <1>1 DEF Swap
<1>6. \A p \in D : p # i /\ p # j => b[p] = a[p]
  BY <1>1 DEF Swap
<1>7. \A p \in D : a[p] \in Int /\ b[p] \in Int
  BY <1>1, <1>4
<1> QED  BY <1>3, <1>4, <1>5, <1>6, <1>7 DEF D, S, Arrays

\* The median of three is put in the middle, the others on their sides of it.
LEMMA MedianIs ==
  ASSUME NEW n \in Nat, NEW a \in Arrays(n), NEW lo \in 1..n, NEW mid \in 1..n, NEW hi \in 1..n, lo < mid, mid < hi,
         NEW m, m = MedianOf3(a, lo, mid, hi)
  PROVE  m \in Arrays(n) /\ Shuffled(1..n, a, m, lo..hi) /\ m[lo] <= m[mid] /\ m[mid] <= m[hi]
<1> DEFINE b == IF a[mid] < a[lo] THEN Swap(a, mid, lo) ELSE a
           c == Swap(b, mid, hi)
<1>0. /\ lo \in lo..hi /\ mid \in lo..hi /\ hi \in lo..hi /\ lo # mid /\ mid # hi /\ lo # hi
      /\ a[lo] \in Int /\ a[mid] \in Int /\ a[hi] \in Int
  BY DEF Arrays
<1>1. m = IF b[hi] < b[mid] THEN IF c[mid] < c[lo] THEN Swap(c, mid, lo) ELSE c ELSE b
  BY DEF MedianOf3
<1>3. b \in Arrays(n) /\ Shuffled(1..n, a, b, lo..hi) /\ b[lo] <= b[mid]
  <2>1. CASE a[mid] < a[lo]
    <3>1. b = Swap(a, mid, lo)
      BY <2>1
    <3> HIDE DEF b
    <3>2. Shuffled(1..n, a, b, lo..hi) /\ b \in Arrays(n) /\ b[mid] = a[lo] /\ b[lo] = a[mid]
      BY <1>0, <3>1, ArraySwap
    <3> QED  BY <1>0, <2>1, <3>2
  <2>2. CASE ~ (a[mid] < a[lo])
    <3>1. b = a
      BY <2>2
    <3>3. Shuffled(1..n, a, a, lo..hi)
      BY ShuffledNone
    <3> HIDE DEF b
    <3> QED  BY <1>0, <2>2, <3>1, <3>3
  <2> QED  BY <2>1, <2>2
<1> HIDE DEF b
<1>4. b[lo] \in Int /\ b[mid] \in Int /\ b[hi] \in Int
  BY <1>3 DEF Arrays
<1>c. c = Swap(b, mid, hi)
  OBVIOUS
<1> HIDE DEF c
<1>5. c \in Arrays(n) /\ Shuffled(1..n, b, c, lo..hi) /\ c[mid] = b[hi] /\ c[hi] = b[mid] /\ c[lo] = b[lo]
  BY <1>0, <1>3, <1>c, ArraySwap
<1>6. Shuffled(1..n, a, c, lo..hi)
  BY <1>3, <1>5, ShuffledTwice
<1>7. CASE ~ (b[hi] < b[mid])
  <2>1. m = b
    BY <1>1, <1>7
  <2> QED  BY <1>3, <1>4, <1>7, <2>1
<1>8. CASE b[hi] < b[mid] /\ ~ (c[mid] < c[lo])
  <2>1. m = c
    BY <1>1, <1>8
  <2>2. c[lo] <= c[mid] /\ c[mid] <= c[hi]
    BY <1>4, <1>5, <1>8
  <2> QED  BY <1>5, <1>6, <2>1, <2>2
<1>9. CASE b[hi] < b[mid] /\ c[mid] < c[lo]
  <2>1. m = Swap(c, mid, lo)
    BY <1>1, <1>9
  <2>2. m \in Arrays(n) /\ Shuffled(1..n, c, m, lo..hi) /\ m[mid] = c[lo] /\ m[lo] = c[mid] /\ m[hi] = c[hi]
    BY <1>0, <1>5, <2>1, ArraySwap
  <2>3. Shuffled(1..n, a, m, lo..hi)
    BY <1>6, <2>2, ShuffledTwice
  <2>4. m[lo] <= m[mid] /\ m[mid] <= m[hi]
    BY <1>3, <1>4, <1>5, <1>9, <2>2
  <2> QED  BY <2>2, <2>3, <2>4
<1> QED  BY <1>7, <1>8, <1>9

\* One element sinks to its place.
Sinking(a, lo, hi) == [b : [DOMAIN a -> Int], k : lo..hi]
SinkWhole(a, lo, hi, f) ==
  [s \in Sinking(a, lo, hi) |->
     IF s.k > lo /\ s.b[s.k - 1] > s.b[s.k] THEN f[[b |-> Swap(s.b, s.k - 1, s.k), k |-> s.k - 1]] ELSE s.b]
SinkOf(a, lo, hi) == CHOOSE f : f = SinkWhole(a, lo, hi, f)
UptoWhole(a, lo, hi, g) == [i \in lo..hi |-> IF i = lo THEN a ELSE SinkOf(a, lo, hi)[[b |-> g[i - 1], k |-> i]]]

\* The insertion sort is the last value of these functions.
LEMMA InsertionChosen ==
  ASSUME NEW a, NEW lo, NEW hi
  PROVE  InsertionSort(a, lo, hi) = (CHOOSE g : g = UptoWhole(a, lo, hi, g))[hi]
BY DEF InsertionSort, UptoWhole, SinkOf, SinkWhole, Sinking

\* A sinking element has an end: its place is further down each time.
LEMMA SinkEnds ==
  ASSUME NEW n \in Nat, NEW a \in Arrays(n), NEW lo \in 1..n, NEW hi \in lo..n
  PROVE  SinkOf(a, lo, hi) = SinkWhole(a, lo, hi, SinkOf(a, lo, hi))
<1> DEFINE X == Sinking(a, lo, hi)
           Z == {s \in X : ~ (s.k > lo /\ s.b[s.k - 1] > s.b[s.k])}
           G == [s \in X |-> [b |-> Swap(s.b, s.k - 1, s.k), k |-> s.k - 1]]
           O == [s \in X |-> s.b]
<1>1. \A s \in X : s \notin Z => G[s] \in X
  <2> SUFFICES ASSUME NEW s \in X, s \notin Z PROVE G[s] \in X
    OBVIOUS
  <2>1. s.b \in [1..n -> Int] /\ s.k \in lo..hi /\ s.k > lo /\ DOMAIN a = 1..n
    BY DEF Sinking, Arrays
  <2>2. s.k - 1 \in lo..hi /\ s.k - 1 \in 1..n /\ s.k \in 1..n
    BY <2>1
  <2>3. Swap(s.b, s.k - 1, s.k) \in [1..n -> Int]
    BY <2>1, <2>2 DEF Swap
  <2>4. [b |-> Swap(s.b, s.k - 1, s.k), k |-> s.k - 1] \in X
    BY <2>1, <2>2, <2>3 DEF Sinking
  <2> QED  BY <2>4
<1>2. PICK f : LoopOf(X, G, Z, O, f)
  <2> HIDE DEF X, Z, G, O
  <2> QED  BY <1>1, LoopHas
<1>3. f = [s \in X |-> IF s \in Z THEN O[s] ELSE f[G[s]]]
  BY <1>2 DEF LoopOf
<1>4. f = SinkWhole(a, lo, hi, f)
  BY <1>3 DEF SinkWhole
<1> QED  BY <1>4 DEF SinkOf

\* All but the element at k are in order.
OrderedBut(b, lo, i, k) == \A p, q \in lo..i : p < q /\ q # k => b[p] <= b[q]
InOrder(b, lo, i) == \A p, q \in lo..i : p < q => b[p] <= b[q]

\* An element that sinks comes to its place, and the others stay in order.
LEMMA SinkIs ==
  ASSUME NEW n \in Nat, NEW a \in Arrays(n), NEW lo \in 1..n, NEW hi \in lo..n, NEW i \in lo..hi,
         NEW c \in Arrays(n), OrderedBut(c, lo, i, i), NEW r, r = SinkOf(a, lo, hi)[[b |-> c, k |-> i]]
  PROVE  r \in Arrays(n) /\ Shuffled(1..n, c, r, lo..hi) /\ InOrder(r, lo, i)
<1> DEFINE f == SinkOf(a, lo, hi)
           Fine(v, w) == w \in Arrays(n) /\ Shuffled(1..n, v, w, lo..hi) /\ InOrder(w, lo, i)
           P == {d \in 0..(i - lo) : \A v \in Arrays(n) : OrderedBut(v, lo, i, lo + d) => Fine(v, f[[b |-> v, k |-> lo + d]])}
<1>0. lo..hi \subseteq 1..n /\ DOMAIN a = 1..n
  BY DEF Arrays
<1>1. ASSUME NEW v \in Arrays(n), NEW k \in lo..hi
      PROVE  f[[b |-> v, k |-> k]] = IF k > lo /\ v[k - 1] > v[k] THEN f[[b |-> Swap(v, k - 1, k), k |-> k - 1]] ELSE v
  <2> DEFINE s == [b |-> v, k |-> k]
  <2>1. s \in Sinking(a, lo, hi) /\ s.b = v /\ s.k = k
    BY <1>0 DEF Sinking, Arrays
  <2>2. f = SinkWhole(a, lo, hi, f)
    BY SinkEnds
  <2> HIDE DEF f, s
  <2>3. f[s] = IF s.k > lo /\ s.b[s.k - 1] > s.b[s.k] THEN f[[b |-> Swap(s.b, s.k - 1, s.k), k |-> s.k - 1]] ELSE s.b
    BY <2>1, <2>2 DEF SinkWhole
  <2> QED  BY <2>1, <2>3 DEF s
<1> HIDE DEF f
<1>2. ASSUME NEW v \in Arrays(n), NEW k \in lo..i, OrderedBut(v, lo, i, k), ~ (k > lo /\ v[k - 1] > v[k])
      PROVE  Fine(v, f[[b |-> v, k |-> k]])
  <2>0. k \in lo..hi
    OBVIOUS
  <2>1. f[[b |-> v, k |-> k]] = v
    BY <1>1, <1>2, <2>0
  <2>2. Shuffled(1..n, v, v, lo..hi)
    BY ShuffledNone
  <2>3. InOrder(v, lo, i)
    <3> SUFFICES ASSUME NEW p \in lo..i, NEW q \in lo..i, p < q PROVE v[p] <= v[q]
      BY DEF InOrder
    <3>0. v \in [1..n -> Int] /\ p \in 1..n /\ q \in 1..n /\ k \in 1..n
      BY DEF Arrays
    <3>1. CASE q # k
      BY <1>2, <3>1 DEF OrderedBut
    <3>2. CASE q = k
      <4>1. k - 1 \in lo..i /\ k > lo /\ k - 1 \in 1..n /\ k - 1 # k
        BY <3>2
      <4>2. v[k - 1] <= v[k]
        BY <1>2, <3>0, <4>1
      <4>3. CASE p = k - 1
        BY <3>2, <4>2, <4>3
      <4>4. CASE p # k - 1
        <5>1. p < k - 1
          BY <3>2, <4>4
        <5>2. v[p] <= v[k - 1]
          BY <1>2, <4>1, <5>1 DEF OrderedBut
        <5>3. v[p] \in Int /\ v[k - 1] \in Int /\ v[k] \in Int
          BY <3>0, <4>1
        <5> QED  BY <3>2, <4>2, <5>2, <5>3
      <4> QED  BY <4>3, <4>4
    <3> QED  BY <3>1, <3>2
  <2> QED  BY <2>1, <2>2, <2>3
<1>3. ASSUME NEW v \in Arrays(n), NEW k \in lo..i, OrderedBut(v, lo, i, k), k > lo, v[k - 1] > v[k],
             NEW w, w = Swap(v, k - 1, k)
      PROVE  w \in Arrays(n) /\ Shuffled(1..n, v, w, lo..hi) /\ OrderedBut(w, lo, i, k - 1)
  <2>1. k - 1 \in lo..hi /\ k \in lo..hi /\ k - 1 \in lo..i /\ v \in [1..n -> Int] /\ k \in 1..n /\ k - 1 \in 1..n
    BY <1>3 DEF Arrays
  <2>2. /\ Shuffled(1..n, v, w, lo..hi) /\ w \in [1..n -> Int] /\ w[k - 1] = v[k] /\ w[k] = v[k - 1]
        /\ \A p \in 1..n : p # k - 1 /\ p # k => w[p] = v[p]
    <3>1. Shuffled(1..n, v, w, lo..hi)
      <4>1. PICK l \in lo..hi : l = k - 1
        BY <2>1
      <4>2. w = Swap(v, l, k) /\ l \in lo..hi /\ k \in lo..hi
        BY <1>3, <2>1, <4>1
      <4> QED  BY <4>2, ArraySwap
    <3>2. w = [v EXCEPT ![k - 1] = v[k], ![k] = v[k - 1]] /\ k - 1 # k
      BY <1>3, <2>1 DEF Swap
    <3>3. w \in [1..n -> Int] /\ w[k - 1] = v[k] /\ w[k] = v[k - 1]
      BY <2>1, <3>2
    <3>4. \A p \in 1..n : p # k - 1 /\ p # k => w[p] = v[p]
      BY <2>1, <3>2
    <3> QED  BY <3>1, <3>3, <3>4
  <2>3. OrderedBut(w, lo, i, k - 1)
    <3> SUFFICES ASSUME NEW p \in lo..i, NEW q \in lo..i, p < q, q # k - 1 PROVE w[p] <= w[q]
      BY DEF OrderedBut
    <3>0. p \in 1..n /\ q \in 1..n /\ v[p] \in Int /\ v[q] \in Int /\ v[k - 1] \in Int /\ v[k] \in Int
      BY <2>1
    <3>1. CASE q = k
      <4>1. w[q] = v[k - 1]
        BY <2>2, <3>1
      <4>2. CASE p = k - 1
        BY <1>3, <2>2, <3>0, <4>1, <4>2
      <4>3. CASE p # k - 1
        <5>1. p < k - 1 /\ p # k /\ k - 1 # k
          BY <3>1, <4>3
        <5>2. v[p] <= v[k - 1]
          BY <1>3, <2>1, <5>1 DEF OrderedBut
        <5> QED  BY <2>2, <3>0, <4>1, <4>3, <5>1, <5>2
      <4> QED  BY <4>2, <4>3
    <3>2. CASE q # k
      <4>1. w[q] = v[q]
        BY <2>2, <3>0, <3>2
      <4>2. CASE p = k
        <5>1. k - 1 < q
          BY <4>2
        <5>2. v[k - 1] <= v[q]
          BY <1>3, <2>1, <3>2, <5>1 DEF OrderedBut
        <5> QED  BY <2>2, <4>1, <4>2, <5>2
      <4>3. CASE p = k - 1
        <5>1. k < q
          BY <3>2, <4>3
        <5>2. v[k] <= v[q]
          BY <1>3, <3>2, <5>1 DEF OrderedBut
        <5> QED  BY <2>2, <4>1, <4>3, <5>2
      <4>4. CASE p # k /\ p # k - 1
        <5>1. v[p] <= v[q]
          BY <1>3, <3>2 DEF OrderedBut
        <5> QED  BY <2>2, <3>0, <4>1, <4>4, <5>1
      <4> QED  BY <4>2, <4>3, <4>4
    <3> QED  BY <3>1, <3>2
  <2> QED  BY <2>2, <2>3 DEF Arrays
<1>4. 0 \in P
  <2> SUFFICES ASSUME NEW v \in Arrays(n), OrderedBut(v, lo, i, lo + 0) PROVE Fine(v, f[[b |-> v, k |-> lo + 0]])
    OBVIOUS
  <2>1. lo + 0 = lo /\ lo \in lo..i /\ ~ (lo > lo)
    OBVIOUS
  <2> HIDE DEF Fine
  <2> QED  BY <1>2, <2>1
<1>5. ASSUME NEW d \in 0..((i - lo) - 1), d \in P PROVE d + 1 \in P
  <2> DEFINE k == lo + (d + 1)
  <2>0. d + 1 \in 0..(i - lo) /\ k \in lo..i /\ k \in lo..hi /\ k > lo /\ k - 1 = lo + d
    OBVIOUS
  <2> SUFFICES ASSUME NEW v \in Arrays(n), OrderedBut(v, lo, i, k) PROVE Fine(v, f[[b |-> v, k |-> k]])
    BY <2>0
  <2> HIDE DEF k
  <2>1. CASE v[k - 1] > v[k]
    <3> DEFINE w == Swap(v, k - 1, k)
    <3>1. w \in Arrays(n) /\ Shuffled(1..n, v, w, lo..hi) /\ OrderedBut(w, lo, i, k - 1)
      BY <1>3, <2>0, <2>1
    <3>2. f[[b |-> v, k |-> k]] = f[[b |-> w, k |-> k - 1]]
      BY <1>1, <2>0, <2>1
    <3> HIDE DEF w
    <3>3. Fine(w, f[[b |-> w, k |-> lo + d]])
      BY <1>5, <2>0, <3>1
    <3> DEFINE z == f[[b |-> w, k |-> lo + d]]
    <3>4. z \in Arrays(n) /\ Shuffled(1..n, w, z, lo..hi) /\ InOrder(z, lo, i)
      BY <3>3
    <3> HIDE DEF z
    <3>5. Shuffled(1..n, v, z, lo..hi)
      BY <3>1, <3>4, ShuffledTwice
    <3>6. f[[b |-> v, k |-> k]] = z
      BY <2>0, <3>2 DEF z
    <3> QED  BY <3>4, <3>5, <3>6
  <2>2. CASE ~ (v[k - 1] > v[k])
    <3> HIDE DEF Fine
    <3> QED  BY <1>2, <2>0, <2>2
  <2> QED  BY <2>1, <2>2
<1>6. \A d \in 0..(i - lo) : d \in P
  <2>1. i - lo \in Nat
    OBVIOUS
  <2> HIDE DEF P
  <2> QED  BY <1>4, <1>5, <2>1, UpFrom
<1>7. i - lo \in 0..(i - lo) /\ lo + (i - lo) = i
  OBVIOUS
<1>8. i - lo \in P
  BY <1>6, <1>7
<1>9. Fine(c, f[[b |-> c, k |-> i]])
  <2> HIDE DEF Fine
  <2> QED  BY <1>7, <1>8
<1> QED  BY <1>9 DEF f

\* The first places are in order after k elements have sunk.
Sunk(n, a, lo, hi, w, k) == w \in Arrays(n) /\ Shuffled(1..n, a, w, lo..hi) /\ InOrder(w, lo, lo + k)

\* One element after the other has sunk.
LEMMA SunkAll ==
  ASSUME NEW n \in Nat, NEW a \in Arrays(n), NEW lo \in 1..n, NEW hi \in lo..n, NEW g, g[0] = a,
         \A k \in 1..(hi - lo) : Sunk(n, a, lo, hi, g[k - 1], k - 1) =>
            g[k] = SinkOf(a, lo, hi)[[b |-> g[k - 1], k |-> lo + k]]
  PROVE  \A k \in 0..(hi - lo) : Sunk(n, a, lo, hi, g[k], k)
<1> DEFINE P == {k \in 0..(hi - lo) : Sunk(n, a, lo, hi, g[k], k)}
<1>1. 0 \in P
  <2>1. Shuffled(1..n, a, a, lo..hi)
    BY ShuffledNone
  <2>2. InOrder(a, lo, lo + 0)
    BY DEF InOrder
  <2>3. 0 \in 0..(hi - lo)
    OBVIOUS
  <2> QED  BY <2>1, <2>2, <2>3 DEF Sunk
<1>2. \A k \in 0..((hi - lo) - 1) : k \in P => k + 1 \in P
  <2> SUFFICES ASSUME NEW k \in 0..((hi - lo) - 1), k \in P PROVE k + 1 \in P
    OBVIOUS
  <2> DEFINE i == lo + (k + 1)
             c == g[k]
             w == g[k + 1]
  <2>1. k + 1 \in 1..(hi - lo) /\ (k + 1) - 1 = k /\ i \in lo..hi /\ k + 1 \in 0..(hi - lo)
    OBVIOUS
  <2>2. c \in Arrays(n) /\ Shuffled(1..n, a, c, lo..hi) /\ InOrder(c, lo, lo + k)
    BY DEF Sunk
  <2>3. Sunk(n, a, lo, hi, g[(k + 1) - 1], (k + 1) - 1)
    BY <2>1
  <2>4. g[k + 1] = SinkOf(a, lo, hi)[[b |-> g[(k + 1) - 1], k |-> lo + (k + 1)]]
    BY <2>1, <2>3
  <2>5. w = SinkOf(a, lo, hi)[[b |-> c, k |-> i]]
    BY <2>1, <2>4
  <2>6. OrderedBut(c, lo, i, i)
    <3> SUFFICES ASSUME NEW p \in lo..i, NEW q \in lo..i, p < q, q # i PROVE c[p] <= c[q]
      BY DEF OrderedBut
    <3>1. p \in lo..(lo + k) /\ q \in lo..(lo + k)
      OBVIOUS
    <3> QED  BY <2>2, <3>1 DEF InOrder
  <2> HIDE DEF c, w, i
  <2>7. w \in Arrays(n) /\ Shuffled(1..n, c, w, lo..hi) /\ InOrder(w, lo, i)
    BY <2>1, <2>2, <2>5, <2>6, SinkIs
  <2>8. Shuffled(1..n, a, w, lo..hi)
    BY <2>2, <2>7, ShuffledTwice
  <2> QED  BY <2>1, <2>7, <2>8 DEF Sunk, w, i
<1>3. hi - lo \in Nat
  OBVIOUS
<1> HIDE DEF P
<1>4. \A k \in 0..(hi - lo) : k \in P
  BY <1>1, <1>2, <1>3, UpFrom
<1> QED  BY <1>4 DEF P

\* The insertion sort puts the places lo..hi in order.
LEMMA InsertionIs ==
  ASSUME NEW n \in Nat, NEW a \in Arrays(n), NEW lo \in 1..n, NEW hi \in lo..n, NEW r, r = InsertionSort(a, lo, hi)
  PROVE  r \in Arrays(n) /\ Shuffled(1..n, a, r, lo..hi) /\ InOrder(r, lo, hi)
<1> DEFINE N == hi - lo
           K(k, v) == SinkOf(a, lo, hi)[[b |-> v, k |-> lo + k]]
           F == [p \in Nat \X Arrays(n) |-> IF K(p[1], p[2]) \in Arrays(n) THEN K(p[1], p[2]) ELSE p[2]]
<1>0. N \in Nat
  OBVIOUS
<1>1. F \in [Nat \X Arrays(n) -> Arrays(n)]
  <2> HIDE DEF K
  <2> SUFFICES ASSUME NEW p \in Nat \X Arrays(n)
               PROVE  (IF K(p[1], p[2]) \in Arrays(n) THEN K(p[1], p[2]) ELSE p[2]) \in Arrays(n)
    OBVIOUS
  <2> QED  OBVIOUS
<1>2. PICK g : Iterated(g, N, Arrays(n), F, a)
  <2> HIDE DEF F, N
  <2> QED  BY <1>0, <1>1, Iterates
<1>3. g[0] = a /\ g \in [0..N -> Arrays(n)] /\ \A k \in 1..N : g[k] = F[<<k, g[k - 1]>>]
  <2> HIDE DEF F, N
  <2> QED  BY <1>2 DEF Iterated
<1>4. ASSUME NEW k \in 1..N, Sunk(n, a, lo, hi, g[k - 1], k - 1) PROVE g[k] = K(k, g[k - 1])
  <2> DEFINE v == g[k - 1]
             i == lo + k
  <2>1. k - 1 \in 0..N /\ i \in lo..hi /\ k \in Nat /\ lo + (k - 1) = i - 1
    OBVIOUS
  <2>2. v \in Arrays(n) /\ InOrder(v, lo, i - 1)
    BY <1>4, <2>1 DEF Sunk
  <2>3. OrderedBut(v, lo, i, i)
    <3> SUFFICES ASSUME NEW p \in lo..i, NEW q \in lo..i, p < q, q # i PROVE v[p] <= v[q]
      BY DEF OrderedBut
    <3>1. p \in lo..(i - 1) /\ q \in lo..(i - 1)
      BY <2>1
    <3> QED  BY <2>2, <3>1 DEF InOrder
  <2> HIDE DEF v
  <2>4. SinkOf(a, lo, hi)[[b |-> v, k |-> i]] \in Arrays(n)
    <3> HIDE DEF i
    <3> QED  BY <2>1, <2>2, <2>3, SinkIs
  <2>5. K(k, v) \in Arrays(n)
    BY <2>4
  <2> HIDE DEF K
  <2>6. F[<<k, v>>] = K(k, v)
    BY <2>1, <2>2, <2>5
  <2> HIDE DEF F
  <2>7. g[k] = F[<<k, v>>]
    BY <1>3 DEF v
  <2> QED  BY <2>6, <2>7 DEF v
<1> HIDE DEF F
<1>5. \A k \in 0..N : Sunk(n, a, lo, hi, g[k], k)
  BY <1>3, <1>4, SunkAll
<1>6. \E f : f = UptoWhole(a, lo, hi, f)
  <2> DEFINE f == [i \in lo..hi |-> g[i - lo]]
  <2>1. \A i \in lo..hi : f[i] = IF i = lo THEN a ELSE SinkOf(a, lo, hi)[[b |-> f[i - 1], k |-> i]]
    <3> SUFFICES ASSUME NEW i \in lo..hi PROVE f[i] = IF i = lo THEN a ELSE SinkOf(a, lo, hi)[[b |-> f[i - 1], k |-> i]]
      OBVIOUS
    <3>0. f[i] = g[i - lo]
      OBVIOUS
    <3>1. CASE i = lo
      <4>1. i - lo = 0
        BY <3>1
      <4> QED  BY <1>3, <3>0, <3>1, <4>1
    <3>2. CASE i # lo
      <4>1. i - lo \in 1..N /\ i - 1 \in lo..hi /\ (i - lo) - 1 = (i - 1) - lo /\ lo + (i - lo) = i /\ (i - lo) - 1 \in 0..N
        BY <3>2
      <4>2. f[i - 1] = g[(i - lo) - 1]
        BY <4>1
      <4>3. g[i - lo] = K(i - lo, g[(i - lo) - 1])
        BY <1>4, <1>5, <4>1
      <4>4. g[i - lo] = SinkOf(a, lo, hi)[[b |-> g[(i - lo) - 1], k |-> lo + (i - lo)]]
        BY <4>3
      <4> HIDE DEF f
      <4> QED  BY <3>0, <3>2, <4>1, <4>2, <4>4
    <3> QED  BY <3>1, <3>2
  <2>2. f = [i \in lo..hi |-> IF i = lo THEN a ELSE SinkOf(a, lo, hi)[[b |-> f[i - 1], k |-> i]]]
    BY <2>1
  <2> HIDE DEF f
  <2> QED  BY <2>2 DEF UptoWhole
<1> DEFINE h == CHOOSE f : f = UptoWhole(a, lo, hi, f)
           d == [k \in 0..N |-> h[lo + k]]
<1>7. h = UptoWhole(a, lo, hi, h) /\ r = h[hi]
  BY <1>6, InsertionChosen
<1> HIDE DEF h
<1>8. \A i \in lo..hi : h[i] = IF i = lo THEN a ELSE SinkOf(a, lo, hi)[[b |-> h[i - 1], k |-> i]]
  BY <1>7 DEF UptoWhole
<1>9. d[0] = a /\ \A k \in 1..N : d[k] = SinkOf(a, lo, hi)[[b |-> d[k - 1], k |-> lo + k]]
  <2>1. d[0] = h[lo]
    <3>1. lo + 0 = lo /\ 0 \in 0..N
      OBVIOUS
    <3> QED  BY <3>1
  <2>2. h[lo] = a
    <3>1. lo \in lo..hi
      OBVIOUS
    <3> HIDE DEF d
    <3> QED  BY <1>8, <3>1
  <2>3. ASSUME NEW k \in 1..N PROVE d[k] = SinkOf(a, lo, hi)[[b |-> d[k - 1], k |-> lo + k]]
    <3>1. k \in 0..N /\ k - 1 \in 0..N /\ lo + k \in lo..hi /\ lo + k # lo /\ (lo + k) - 1 = lo + (k - 1)
      OBVIOUS
    <3>2. d[k] = h[lo + k] /\ d[k - 1] = h[lo + (k - 1)]
      BY <3>1
    <3> HIDE DEF d
    <3>3. h[lo + k] = SinkOf(a, lo, hi)[[b |-> h[(lo + k) - 1], k |-> lo + k]]
      BY <1>8, <3>1
    <3> QED  BY <3>1, <3>2, <3>3
  <2> HIDE DEF d
  <2> QED  BY <2>1, <2>2, <2>3
<1>10. d[N] = r
  <2>1. N \in 0..N /\ lo + N = hi
    OBVIOUS
  <2> HIDE DEF N
  <2> QED  BY <1>7, <2>1
<1> HIDE DEF d
<1>11. \A k \in 0..N : Sunk(n, a, lo, hi, d[k], k)
  BY <1>9, SunkAll
<1>12. N \in 0..N /\ lo + N = hi
  OBVIOUS
<1>13. Sunk(n, a, lo, hi, r, N)
  BY <1>10, <1>11, <1>12
<1> QED  BY <1>12, <1>13 DEF Sunk

-----------------------------------------------------------------------------
(* Partition *)

\* The greatest of some numbers that do not go beyond k.
LEMMA GreatestPlace ==
  ASSUME NEW T, T \subseteq Nat, T # {}, NEW k \in Nat, \A p \in T : p <= k
  PROVE  \E m \in T : \A p \in T : p <= m
<1> DEFINE U == {k - p : p \in T}
<1>1. U \subseteq Nat /\ U # {}
  <2>1. \A p \in T : k - p \in Nat
    <3> TAKE p \in T
    <3>1. p \in Nat /\ p <= k
      OBVIOUS
    <3> QED  BY <3>1
  <2>2. U # {}
    <3>1. PICK p \in T : TRUE
      OBVIOUS
    <3>2. k - p \in U
      OBVIOUS
    <3> QED  BY <3>2
  <2> QED  BY <2>1, <2>2
<1>2. PICK u \in U : \A w \in U : u <= w
  <2> HIDE DEF U
  <2> QED  BY <1>1, LeastOf
<1>3. PICK m \in T : u = k - m
  BY <1>2
<1>4. \A p \in T : k - m <= k - p
  BY <1>2, <1>3
<1>5. \A p \in T : p <= m
  <2> TAKE p \in T
  <2>1. p \in Nat /\ m \in Nat
    BY <1>3
  <2> QED  BY <1>4, <2>1
<1> QED  BY <1>5

\* What the two scans find.
RightFits(a, i, k, mid, r) ==
  /\ r \in Nat /\ (i < k => r \in i..k) /\ (~ (i < k) => r = i)
  /\ \A p \in i..(r - 1) : a[p] <= a[mid]
  /\ r < k => a[r] > a[mid]

\* The same of the scan from the right.
LeftFits(a, i, k, mid, r) ==
  /\ r \in Nat /\ r <= k /\ (i <= k => r \in (i - 1)..k) /\ (k < i => r = k)
  /\ \A p \in i..k : p > r => a[p] > a[mid]
  /\ i <= k /\ i <= r => a[r] <= a[mid]

\* The scan from the left stops at an element greater than the pivot, or where the other one is.
LEMMA RightOfIs ==
  ASSUME NEW n \in Nat, NEW a \in Arrays(n), NEW i \in 1..n, NEW k \in 1..n, NEW mid \in 1..n, NEW r, r = RightOf(a, i, k, mid)
  PROVE  RightFits(a, i, k, mid, r)
<1> DEFINE larger == {p \in i..(k - 1) : a[p] > a[mid]}
<1>1. \A p \in i..(k - 1) : p \in 1..n
  OBVIOUS
<1>2. \A p \in 1..n : a[p] \in Int
  BY DEF Arrays
<1>3. CASE larger # {}
  <2>1. larger \subseteq Nat
    OBVIOUS
  <2>2. \E m \in larger : \A q \in larger : m <= q
    <3> HIDE DEF larger
    <3> QED  BY <1>3, <2>1, LeastOf
  <2>3. r = CHOOSE p \in larger : \A q \in larger : p <= q
    BY <1>3 DEF RightOf
  <2>4. r \in larger /\ \A q \in larger : r <= q
    <3> HIDE DEF larger
    <3> QED  BY <2>2, <2>3
  <2>5. r \in i..(k - 1) /\ a[r] > a[mid] /\ i < k
    BY <2>4
  <2>6. \A p \in i..(r - 1) : a[p] <= a[mid]
    <3> SUFFICES ASSUME NEW p \in i..(r - 1) PROVE a[p] <= a[mid]
      OBVIOUS
    <3>1. p \in i..(k - 1) /\ ~ (r <= p)
      BY <2>5
    <3>2. p \notin larger
      BY <2>4, <3>1
    <3> QED  BY <1>1, <1>2, <3>1, <3>2
  <2> QED  BY <2>5, <2>6 DEF RightFits
<1>4. CASE larger = {}
  <2>1. r = IF i < k THEN k ELSE i
    BY <1>4 DEF RightOf
  <2>2. \A p \in i..(r - 1) : a[p] <= a[mid]
    <3> SUFFICES ASSUME NEW p \in i..(r - 1) PROVE a[p] <= a[mid]
      OBVIOUS
    <3>1. p \in i..(k - 1)
      BY <2>1
    <3> QED  BY <1>1, <1>2, <1>4, <3>1
  <2>3. ~ (r < k)
    BY <2>1
  <2> QED  BY <2>1, <2>2, <2>3 DEF RightFits
<1> QED  BY <1>3, <1>4

\* The scan from the right stops at an element that is not, or left of where it begins.
LEMMA LeftOfIs ==
  ASSUME NEW n \in Nat, NEW a \in Arrays(n), NEW i \in 1..n, NEW k \in 1..n, NEW mid \in 1..n, NEW r, r = LeftOf(a, i, k, mid)
  PROVE  LeftFits(a, i, k, mid, r)
<1> DEFINE small == {p \in i..k : a[p] <= a[mid]}
<1>1. \A p \in i..k : p \in 1..n
  OBVIOUS
<1>2. \A p \in 1..n : a[p] \in Int
  BY DEF Arrays
<1>3. CASE small # {}
  <2>1. small \subseteq Nat /\ \A p \in small : p <= k
    OBVIOUS
  <2>2. \E m \in small : \A q \in small : q <= m
    <3> HIDE DEF small
    <3>1. k \in Nat
      OBVIOUS
    <3> QED  BY <1>3, <2>1, <3>1, GreatestPlace
  <2>3. r = CHOOSE p \in small : \A q \in small : q <= p
    BY <1>3 DEF LeftOf
  <2>4. r \in small /\ \A q \in small : q <= r
    <3> HIDE DEF small
    <3> QED  BY <2>2, <2>3
  <2>5. r \in i..k /\ a[r] <= a[mid] /\ i <= k
    BY <2>4
  <2>6. \A p \in i..k : p > r => a[p] > a[mid]
    <3> SUFFICES ASSUME NEW p \in i..k, p > r PROVE a[p] > a[mid]
      OBVIOUS
    <3>1. ~ (p <= r)
      BY <2>5
    <3>2. p \notin small
      BY <2>4, <3>1
    <3> QED  BY <1>1, <1>2, <3>2
  <2> QED  BY <2>5, <2>6 DEF LeftFits
<1>4. CASE small = {}
  <2>1. r = IF k >= i THEN i - 1 ELSE k
    BY <1>4 DEF LeftOf
  <2>2. \A p \in i..k : a[p] > a[mid]
    BY <1>1, <1>2, <1>4
  <2> QED  BY <2>1, <2>2 DEF LeftFits
<1> QED  BY <1>3, <1>4

\* The loop of a partition as a step from state to state.
Turning(a) == [a : [DOMAIN a -> Int], i : DOMAIN a, k : DOMAIN a, mid : DOMAIN a]
TurnAt(s)  == RightOf(s.a, s.i, s.k, s.mid)
TurnTo(s)  == LeftOf(s.a, TurnAt(s), s.k, s.mid)
TurnNext(s) == [a |-> Swap(s.a, TurnAt(s), TurnTo(s)), i |-> TurnAt(s) + 1, k |-> TurnTo(s) - 1,
                mid |-> MovedPivot(s.mid, TurnAt(s), TurnTo(s))]
TurnStop(s) == [s EXCEPT !.k = TurnTo(s)]
TurnWhole(a, f) == [s \in Turning(a) |-> IF TurnTo(s) <= TurnAt(s) THEN TurnStop(s) ELSE f[TurnNext(s)]]
TurnOf(a) == CHOOSE f : f = TurnWhole(a, f)

\* A partition is what this loop returns.
LEMMA PartitionChosen ==
  ASSUME NEW a, NEW i, NEW k, NEW mid
  PROVE  Partition(a, i, k, mid) = TurnOf(a)[[a |-> a, i |-> i, k |-> k, mid |-> mid]]
BY DEF Partition, TurnOf, TurnWhole, Turning, TurnAt, TurnTo, TurnNext, TurnStop

\* A turn leaves an array and places of it.
LEMMA TurnTyped ==
  ASSUME NEW n \in Nat, NEW a \in Arrays(n), NEW s \in Turning(a)
  PROVE  /\ s.a \in Arrays(n) /\ s.i \in 1..n /\ s.k \in 1..n /\ s.mid \in 1..n /\ TurnAt(s) \in Nat /\ TurnTo(s) \in Nat
         /\ s.i <= TurnAt(s) /\ TurnTo(s) <= s.k
         /\ TurnAt(s) < TurnTo(s) => TurnAt(s) \in 1..n /\ TurnTo(s) \in 1..n
  PROOF
<1>1. s.a \in Arrays(n) /\ s.i \in 1..n /\ s.k \in 1..n /\ s.mid \in 1..n
  BY DEF Turning, Arrays
<1>p. PICK b \in Arrays(n), i \in 1..n, k \in 1..n, mid \in 1..n : b = s.a /\ i = s.i /\ k = s.k /\ mid = s.mid
  BY <1>1
<1> DEFINE r == RightOf(b, i, k, mid)
           t == LeftOf(b, r, k, mid)
<1>r. r = RightOf(b, i, k, mid)
  OBVIOUS
<1>t. t = LeftOf(b, r, k, mid)
  OBVIOUS
<1>a. TurnAt(s) = r /\ TurnTo(s) = t
  BY <1>p DEF TurnAt, TurnTo
<1> HIDE DEF r, t
<1>b. r \in Nat /\ (i < k => r \in i..k) /\ (~ (i < k) => r = i)
  BY <1>r, RightOfIs DEF RightFits
<1>c. r \in 1..n
  BY <1>b
<1>d. t \in Nat /\ t <= k
  BY <1>c, <1>t, LeftOfIs DEF LeftFits
<1>2. TurnAt(s) \in Nat /\ s.i <= TurnAt(s)
  BY <1>a, <1>b, <1>p
<1>3. TurnAt(s) \in 1..n
  BY <1>a, <1>c
<1>4. TurnTo(s) \in Nat /\ TurnTo(s) <= s.k
  BY <1>a, <1>d, <1>p
<1> QED  BY <1>1, <1>2, <1>3, <1>4

\* The loop has an end: the two scans come nearer to each other.
LEMMA TurnEnds ==
  ASSUME NEW n \in Nat, NEW a \in Arrays(n)
  PROVE  TurnOf(a) = TurnWhole(a, TurnOf(a))
<1> DEFINE X == Turning(a)
           Z == {s \in X : TurnTo(s) <= TurnAt(s)}
           G == [s \in X |-> TurnNext(s)]
           O == [s \in X |-> TurnStop(s)]
<1>1. \A s \in X : s \notin Z => G[s] \in X
  <2> SUFFICES ASSUME NEW s \in X, s \notin Z PROVE TurnNext(s) \in X
    OBVIOUS
  <2>1. /\ s.a \in Arrays(n) /\ s.i \in 1..n /\ s.k \in 1..n /\ s.mid \in 1..n /\ TurnAt(s) \in Nat /\ TurnTo(s) \in Nat
        /\ s.i <= TurnAt(s) /\ TurnTo(s) <= s.k
        /\ TurnAt(s) < TurnTo(s) => TurnAt(s) \in 1..n /\ TurnTo(s) \in 1..n
    BY TurnTyped
  <2>2. TurnAt(s) < TurnTo(s)
    BY <2>1
  <2> DEFINE i == TurnAt(s)
             k == TurnTo(s)
             b == Swap(s.a, i, k)
             w == MovedPivot(s.mid, i, k)
  <2>3. i \in 1..n /\ k \in 1..n /\ i < k
    BY <2>1, <2>2
  <2> HIDE DEF i, k
  <2>4. b \in [1..n -> Int]
    BY <2>1, <2>3 DEF Swap, Arrays
  <2>5. w \in 1..n
    BY <2>1, <2>3 DEF MovedPivot
  <2>6. i + 1 \in 1..n /\ k - 1 \in 1..n
    BY <2>3
  <2>7. DOMAIN a = 1..n
    BY DEF Arrays
  <2> HIDE DEF b, w
  <2>8. [a |-> b, i |-> i + 1, k |-> k - 1, mid |-> w] \in X
    BY <2>4, <2>5, <2>6, <2>7 DEF Turning
  <2> QED  BY <2>8 DEF TurnNext, b, w, i, k
<1>2. PICK f : LoopOf(X, G, Z, O, f)
  <2> HIDE DEF X, Z, G, O
  <2> QED  BY <1>1, LoopHas
<1>3. f = [s \in X |-> IF s \in Z THEN O[s] ELSE f[G[s]]]
  BY <1>2 DEF LoopOf
<1>4. f = TurnWhole(a, f)
  BY <1>3 DEF TurnWhole
<1> QED  BY <1>4 DEF TurnOf

\* The elements at the places x..y are v at the most, and at the least.
AtMost(b, x, y, v)  == \A p \in x..y : b[p] <= v
AtLeast(b, x, y, v) == \A p \in x..y : b[p] >= v

\* What one turn finds, where v is the pivot.
TurnFits(n, lo, hi, b, i, k, mid, v, r, t) ==
  /\ r \in 1..n /\ t \in 1..n /\ i <= r /\ t <= k /\ mid <= t
  /\ AtMost(b, lo, r - 1, v) /\ AtLeast(b, t + 1, hi, v) /\ (t <= r => AtMost(b, lo, t, v))
  /\ r < t => b[r] > v /\ b[t] <= v

\* One turn keeps what is left of the scans at most the pivot, right of them at least.
LEMMA OneTurn ==
  ASSUME NEW n \in Nat, NEW lo \in 1..n, NEW hi \in 1..n, NEW b \in Arrays(n), NEW i \in 1..n, NEW k \in 1..n, NEW mid \in 1..n,
         NEW v \in Int, lo < i, i <= k + 1, k < hi, lo < mid, mid <= k, b[mid] = v,
         AtMost(b, lo, i - 1, v), AtLeast(b, k + 1, hi, v),
         NEW r, r = RightOf(b, i, k, mid), NEW t, t = LeftOf(b, r, k, mid)
  PROVE  TurnFits(n, lo, hi, b, i, k, mid, v, r, t)
<1>0. \A p \in 1..n : b[p] \in Int
  BY DEF Arrays
<1>a. RightFits(b, i, k, mid, r)
  BY RightOfIs
<1>1. /\ r \in Nat /\ (i < k => r \in i..k) /\ (~ (i < k) => r = i)
      /\ \A p \in i..(r - 1) : b[p] <= b[mid]
      /\ r < k => b[r] > b[mid]
  BY <1>a DEF RightFits
<1>2. r \in 1..n /\ i <= r /\ (r > k => i > k /\ r = k + 1)
  BY <1>1
<1>b. LeftFits(b, r, k, mid, t)
  BY <1>2, LeftOfIs
<1>3. /\ t \in Nat /\ t <= k /\ (r <= k => t \in (r - 1)..k) /\ (k < r => t = k)
      /\ \A p \in r..k : p > t => b[p] > b[mid]
      /\ r <= k /\ r <= t => b[t] <= b[mid]
  BY <1>b DEF LeftFits
<1>4. AtMost(b, lo, r - 1, v)
  <2> SUFFICES ASSUME NEW p \in lo..(r - 1) PROVE b[p] <= v
    BY DEF AtMost
  <2>1. p \in lo..(i - 1) \/ p \in i..(r - 1)
    BY <1>2
  <2> QED  BY <1>1, <2>1 DEF AtMost
<1>5. AtLeast(b, t + 1, hi, v)
  <2> SUFFICES ASSUME NEW p \in (t + 1)..hi PROVE b[p] >= v
    BY DEF AtLeast
  <2>1. p \in (k + 1)..hi \/ (p \in r..k /\ p > t)
    BY <1>2, <1>3
  <2>2. p \in 1..n
    BY <1>3
  <2> QED  BY <1>0, <1>3, <2>1, <2>2 DEF AtLeast
<1>6. mid <= t
  <2>1. CASE mid < r
    BY <1>2, <1>3, <2>1
  <2>2. CASE ~ (mid < r)
    <3> SUFFICES ASSUME ~ (mid <= t) PROVE FALSE
      OBVIOUS
    <3>1. mid \in r..k /\ mid > t
      BY <1>2, <1>3, <2>2
    <3>2. b[mid] > b[mid]
      BY <1>3, <3>1
    <3> QED  BY <1>0, <3>2
  <2> QED  BY <2>1, <2>2
<1>7. t \in 1..n
  BY <1>3, <1>6
<1>8. ASSUME t <= r PROVE AtMost(b, lo, t, v)
  <2> SUFFICES ASSUME NEW p \in lo..t PROVE b[p] <= v
    BY DEF AtMost
  <2>1. CASE p \in lo..(r - 1)
    BY <1>4, <2>1 DEF AtMost
  <2>2. CASE p \notin lo..(r - 1)
    <3>1. p = t /\ t = r /\ r <= k
      BY <1>2, <1>3, <1>8, <2>2
    <3> QED  BY <1>3, <3>1
  <2> QED  BY <2>1, <2>2
<1>9. ASSUME r < t PROVE b[r] > v /\ b[t] <= v
  <2>1. r < k /\ r <= k /\ r <= t
    BY <1>2, <1>3, <1>9
  <2> QED  BY <1>1, <1>3, <2>1
<1> QED  BY <1>2, <1>3, <1>4, <1>5, <1>6, <1>7, <1>8, <1>9 DEF TurnFits

\* The loop goes on with s.
Going(n, m, lo, hi, v, s) ==
  /\ s \in Turning(m) /\ Shuffled(1..n, m, s.a, lo..hi)
  /\ lo < s.i /\ s.i <= s.k + 1 /\ s.k < hi /\ lo < s.mid /\ s.mid <= s.k /\ s.a[s.mid] = v
  /\ AtMost(s.a, lo, s.i - 1, v) /\ AtLeast(s.a, s.k + 1, hi, v)

\* It has ended with s.
Parted(n, m, lo, hi, v, s) ==
  /\ s \in Turning(m) /\ Shuffled(1..n, m, s.a, lo..hi)
  /\ lo < s.mid /\ s.mid <= s.k /\ s.k < hi /\ s.a[s.mid] = v
  /\ AtMost(s.a, lo, s.k, v) /\ AtLeast(s.a, s.k + 1, hi, v)

\* The turn in which the scans meet.
LEMMA TurnStops ==
  ASSUME NEW n \in Nat, NEW m \in Arrays(n), NEW lo \in 1..n, NEW hi \in 1..n, NEW v \in Int, NEW s, Going(n, m, lo, hi, v, s)
  PROVE  /\ TurnTo(s) <= TurnAt(s) => Parted(n, m, lo, hi, v, TurnStop(s))
         /\ ~ (TurnTo(s) <= TurnAt(s)) =>
              /\ Going(n, m, lo, hi, v, TurnNext(s))
              /\ TurnNext(s).k + 1 - TurnNext(s).i < s.k + 1 - s.i
<1>d. DOMAIN m = 1..n
  BY DEF Arrays
<1>0. s.a \in Arrays(n) /\ s.i \in 1..n /\ s.k \in 1..n /\ s.mid \in 1..n
  BY <1>d DEF Going, Turning, Arrays
<1>1. PICK b \in Arrays(n), i \in 1..n, k \in 1..n, mid \in 1..n : b = s.a /\ i = s.i /\ k = s.k /\ mid = s.mid
  BY <1>0
<1> DEFINE r == RightOf(b, i, k, mid)
           t == LeftOf(b, r, k, mid)
<1>r. r = RightOf(b, i, k, mid)
  OBVIOUS
<1>t. t = LeftOf(b, r, k, mid)
  OBVIOUS
<1>a. TurnAt(s) = r /\ TurnTo(s) = t
  BY <1>1 DEF TurnAt, TurnTo
<1> HIDE DEF r, t
<1>2. /\ lo < i /\ i <= k + 1 /\ k < hi /\ lo < mid /\ mid <= k /\ b[mid] = v
      /\ AtMost(b, lo, i - 1, v) /\ AtLeast(b, k + 1, hi, v)
      /\ Shuffled(1..n, m, b, lo..hi)
  BY <1>1 DEF Going
<1>b. TurnFits(n, lo, hi, b, i, k, mid, v, r, t)
  BY <1>2, <1>r, <1>t, OneTurn
<1>3. /\ r \in 1..n /\ t \in 1..n /\ i <= r /\ t <= k /\ mid <= t
      /\ AtMost(b, lo, r - 1, v) /\ AtLeast(b, t + 1, hi, v) /\ (t <= r => AtMost(b, lo, t, v))
      /\ r < t => b[r] > v /\ b[t] <= v
  BY <1>b DEF TurnFits
<1>4. ASSUME t <= r PROVE Parted(n, m, lo, hi, v, TurnStop(s))
  <2>1. TurnStop(s) = [a |-> b, i |-> i, k |-> t, mid |-> mid]
    <3>1. s \in [a : [1..n -> Int], i : 1..n, k : 1..n, mid : 1..n]
      BY <1>d DEF Going, Turning
    <3>2. s = [a |-> b, i |-> i, k |-> k, mid |-> mid]
      BY <1>1, <3>1
    <3> QED  BY <1>a, <3>2 DEF TurnStop
  <2> DEFINE z == [a |-> b, i |-> i, k |-> t, mid |-> mid]
  <2>2. z \in Turning(m)
    BY <1>3, <1>d DEF Turning, Arrays
  <2>3. z.a = b /\ z.mid = mid /\ z.k = t
    OBVIOUS
  <2> HIDE DEF z
  <2>4. Parted(n, m, lo, hi, v, z)
    BY <1>2, <1>3, <1>4, <2>2, <2>3 DEF Parted
  <2> QED  BY <2>1, <2>4 DEF z
<1>5. ASSUME ~ (t <= r)
      PROVE  Going(n, m, lo, hi, v, TurnNext(s)) /\ TurnNext(s).k + 1 - TurnNext(s).i < s.k + 1 - s.i
  <2> DEFINE c == Swap(b, r, t)
             w == MovedPivot(mid, r, t)
             z == [a |-> c, i |-> r + 1, k |-> t - 1, mid |-> w]
  <2>c. c = Swap(b, r, t)
    OBVIOUS
  <2>1. TurnNext(s) = z
    BY <1>1, <1>a DEF TurnNext
  <2>2. r < t /\ r \in lo..hi /\ t \in lo..hi
    BY <1>2, <1>3, <1>5
  <2>3. r + 1 \in 1..n /\ t - 1 \in 1..n /\ r # t
    BY <1>3, <2>2
  <2> HIDE DEF c
  <2>4. /\ Shuffled(1..n, b, c, lo..hi) /\ c \in Arrays(n) /\ c[r] = b[t] /\ c[t] = b[r]
        /\ \A p \in 1..n : p # r /\ p # t => c[p] = b[p]
        /\ \A p \in 1..n : b[p] \in Int /\ c[p] \in Int
    BY <2>2, <2>c, ArraySwap
  <2>5. Shuffled(1..n, m, c, lo..hi)
    BY <1>2, <2>4, ShuffledTwice
  <2>6. mid # r
    BY <1>2, <1>3, <2>2
  <2>7. w \in 1..n /\ lo < w /\ w <= t - 1 /\ c[w] = v
    <3>1. CASE mid = t
      <4>1. w = r
        BY <2>6, <3>1 DEF MovedPivot
      <4> QED  BY <1>2, <1>3, <2>2, <2>4, <3>1, <4>1
    <3>2. CASE mid # t
      <4>1. w = mid
        BY <2>6, <3>2 DEF MovedPivot
      <4>2. mid <= t - 1
        BY <1>3, <3>2
      <4> QED  BY <1>2, <1>3, <2>4, <2>6, <3>2, <4>1, <4>2
    <3> QED  BY <3>1, <3>2
  <2>8. AtMost(c, lo, (r + 1) - 1, v)
    <3> SUFFICES ASSUME NEW p \in lo..((r + 1) - 1) PROVE c[p] <= v
      BY DEF AtMost
    <3>1. p \in 1..n /\ p # t /\ (p = r \/ p \in lo..(r - 1))
      BY <1>3, <2>2
    <3>2. CASE p = r
      BY <1>3, <2>2, <2>4, <3>2
    <3>3. CASE p # r
      BY <1>3, <2>4, <3>1, <3>3 DEF AtMost
    <3> QED  BY <3>2, <3>3
  <2>9. AtLeast(c, (t - 1) + 1, hi, v)
    <3> SUFFICES ASSUME NEW p \in ((t - 1) + 1)..hi PROVE c[p] >= v
      BY DEF AtLeast
    <3>1. p \in 1..n /\ p # r /\ (p = t \/ p \in (t + 1)..hi)
      BY <1>3, <2>2
    <3>2. CASE p = t
      BY <1>3, <2>2, <2>4, <3>2
    <3>3. CASE p # t
      BY <1>3, <2>4, <3>1, <3>3 DEF AtLeast
    <3> QED  BY <3>2, <3>3
  <2> HIDE DEF w
  <2>10. z \in Turning(m) /\ z.a = c /\ z.i = r + 1 /\ z.k = t - 1 /\ z.mid = w
    BY <1>d, <2>3, <2>4, <2>7 DEF Turning, Arrays
  <2> HIDE DEF z
  <2>11. lo < r + 1 /\ r + 1 <= (t - 1) + 1 /\ t - 1 < hi
    BY <1>2, <1>3, <2>2
  <2>12. Going(n, m, lo, hi, v, z)
    BY <2>5, <2>7, <2>8, <2>9, <2>10, <2>11 DEF Going
  <2>13. z.k + 1 - z.i < s.k + 1 - s.i
    BY <1>1, <1>3, <2>10
  <2> QED  BY <2>1, <2>12, <2>13
<1> QED  BY <1>4, <1>5, <1>a

\* The loop, from a state it goes on with, ends in one it has ended with.
LEMMA TurnsIs ==
  ASSUME NEW n \in Nat, NEW m \in Arrays(n), NEW lo \in 1..n, NEW hi \in 1..n, NEW v \in Int, NEW s, Going(n, m, lo, hi, v, s)
  PROVE  Parted(n, m, lo, hi, v, TurnOf(m)[s])
<1> DEFINE f == TurnOf(m)
           Far(z) == z.k + 1 - z.i
           P == {d \in 0..n : \A z \in Turning(m) : Going(n, m, lo, hi, v, z) /\ Far(z) <= d => Parted(n, m, lo, hi, v, f[z])}
<1>d. DOMAIN m = 1..n
  BY DEF Arrays
<1>0. \A z \in Turning(m) : Going(n, m, lo, hi, v, z) => z.k \in 1..n /\ z.i \in 1..n /\ Far(z) \in 0..n
  <2> TAKE z \in Turning(m)
  <2> HAVE Going(n, m, lo, hi, v, z)
  <2>1. z.k \in 1..n /\ z.i \in 1..n
    BY <1>d DEF Turning
  <2>2. z.i <= z.k + 1
    BY DEF Going
  <2> QED  BY <2>1, <2>2
<1>1. f = TurnWhole(m, f)
  BY TurnEnds
<1> HIDE DEF f
<1>2. \A z \in Turning(m) : f[z] = IF TurnTo(z) <= TurnAt(z) THEN TurnStop(z) ELSE f[TurnNext(z)]
  BY <1>1 DEF TurnWhole
<1>3. ASSUME NEW z \in Turning(m), Going(n, m, lo, hi, v, z), TurnTo(z) <= TurnAt(z) PROVE Parted(n, m, lo, hi, v, f[z])
  <2>1. Parted(n, m, lo, hi, v, TurnStop(z))
    BY <1>3, TurnStops
  <2>2. f[z] = TurnStop(z)
    BY <1>2, <1>3
  <2> QED  BY <2>1, <2>2
<1>4. ASSUME NEW z \in Turning(m), Going(n, m, lo, hi, v, z), ~ (TurnTo(z) <= TurnAt(z))
      PROVE  Going(n, m, lo, hi, v, TurnNext(z)) /\ TurnNext(z) \in Turning(m) /\ Far(TurnNext(z)) < Far(z) /\ f[z] = f[TurnNext(z)]
  <2>1. Going(n, m, lo, hi, v, TurnNext(z)) /\ Far(TurnNext(z)) < Far(z)
    BY <1>4, TurnStops
  <2>2. f[z] = f[TurnNext(z)]
    BY <1>2, <1>4
  <2> QED  BY <2>1, <2>2 DEF Going
<1> HIDE DEF Far
<1>5. 0 \in P
  <2> SUFFICES ASSUME NEW z \in Turning(m), Going(n, m, lo, hi, v, z), Far(z) <= 0 PROVE Parted(n, m, lo, hi, v, f[z])
    OBVIOUS
  <2>1. CASE TurnTo(z) <= TurnAt(z)
    BY <1>3, <2>1
  <2>2. CASE ~ (TurnTo(z) <= TurnAt(z))
    <3>1. Far(TurnNext(z)) \in 0..n /\ Far(z) \in 0..n /\ Far(TurnNext(z)) < Far(z)
      BY <1>0, <1>4, <2>2
    <3> QED  BY <3>1
  <2> QED  BY <2>1, <2>2
<1>6. \A d \in 0..(n - 1) : d \in P => d + 1 \in P
  <2> SUFFICES ASSUME NEW d \in 0..(n - 1), d \in P, NEW z \in Turning(m), Going(n, m, lo, hi, v, z), Far(z) <= d + 1
               PROVE  Parted(n, m, lo, hi, v, f[z])
    OBVIOUS
  <2>1. CASE TurnTo(z) <= TurnAt(z)
    BY <1>3, <2>1
  <2>2. CASE ~ (TurnTo(z) <= TurnAt(z))
    <3> DEFINE y == TurnNext(z)
    <3>1. Going(n, m, lo, hi, v, y) /\ y \in Turning(m) /\ Far(y) < Far(z) /\ f[z] = f[y]
      BY <1>4, <2>2
    <3> HIDE DEF y
    <3>2. Far(y) \in 0..n /\ Far(z) \in 0..n
      BY <1>0, <3>1
    <3>3. Far(y) <= d
      BY <3>1, <3>2
    <3> QED  BY <3>1, <3>3
  <2> QED  BY <2>1, <2>2
<1> HIDE DEF P
<1>7. n \in P
  <2>1. \A d \in 0..n : d \in P
    BY <1>5, <1>6, UpFrom
  <2> QED  BY <2>1
<1>8. s \in Turning(m) /\ Far(s) <= n
  <2>1. s \in Turning(m)
    BY DEF Going
  <2>2. Far(s) \in 0..n
    BY <1>0, <2>1
  <2> QED  BY <2>1, <2>2
<1>9. Parted(n, m, lo, hi, v, f[s])
  BY <1>7, <1>8 DEF P
<1> QED  BY <1>9 DEF f

\* A partition puts the smaller elements before the place it returns, the greater behind.
LEMMA PartitionIs ==
  ASSUME NEW n \in Nat, NEW m \in Arrays(n), NEW lo \in 1..n, NEW hi \in 1..n, NEW mid \in 1..n, lo < mid, mid < hi,
         m[lo] <= m[mid], m[mid] <= m[hi], NEW r, r = Partition(m, lo + 1, hi - 1, mid)
  PROVE  Parted(n, m, lo, hi, m[mid], r)
<1> DEFINE s == [a |-> m, i |-> lo + 1, k |-> hi - 1, mid |-> mid]
<1>1. r = TurnOf(m)[s]
  BY PartitionChosen
<1>2. s \in Turning(m) /\ s.a = m /\ s.i = lo + 1 /\ s.k = hi - 1 /\ s.mid = mid
  <2>1. lo + 1 \in 1..n /\ hi - 1 \in 1..n
    OBVIOUS
  <2> QED  BY <2>1 DEF Turning, Arrays
<1>3. m[mid] \in Int
  BY DEF Arrays
<1>4. Shuffled(1..n, m, m, lo..hi)
  BY ShuffledNone
<1> HIDE DEF s
<1>5. \A p \in lo..(s.i - 1) : p = lo
  BY <1>2
<1>6. \A p \in (s.k + 1)..hi : p = hi
  BY <1>2
<1>7. m[lo] <= m[mid] /\ m[hi] >= m[mid]
  BY DEF Arrays
<1>8. Going(n, m, lo, hi, m[mid], s)
  BY <1>2, <1>4, <1>5, <1>6, <1>7 DEF Going, AtMost, AtLeast
<1>9. Parted(n, m, lo, hi, m[mid], TurnOf(m)[s])
  BY <1>3, <1>8, TurnsIs
<1> QED  BY <1>1, <1>9

-----------------------------------------------------------------------------
(* What one action leaves *)

\* The element at k is between those before and those behind it.
Parts(b, lo, k, hi) == \A p \in lo..k, q \in k..hi : b[p] <= b[q]

\* The pivot, put at that place, is between them.
LEMMA PivotBetween ==
  ASSUME NEW n \in Nat, NEW lo \in 1..n, NEW hi \in 1..n, NEW c \in Arrays(n), NEW w \in lo..hi, NEW k \in lo..hi, w <= k,
         NEW v \in Int, c[w] = v, AtMost(c, lo, k, v), AtLeast(c, k + 1, hi, v), NEW b, b = Swap(c, w, k)
  PROVE  b \in Arrays(n) /\ Shuffled(1..n, c, b, lo..hi) /\ Parts(b, lo, k, hi)
<1>1. /\ Shuffled(1..n, c, b, lo..hi) /\ b \in Arrays(n) /\ b[w] = c[k] /\ b[k] = c[w]
      /\ \A p \in 1..n : p # w /\ p # k => b[p] = c[p]
      /\ \A p \in 1..n : c[p] \in Int /\ b[p] \in Int
  BY ArraySwap
<1>2. AtMost(b, lo, k, v)
  <2> SUFFICES ASSUME NEW p \in lo..k PROVE b[p] <= v
    BY DEF AtMost
  <2>1. p \in 1..n /\ w \in lo..k /\ k \in lo..k
    OBVIOUS
  <2> QED  BY <1>1, <2>1 DEF AtMost
<1>3. AtLeast(b, k, hi, v)
  <2> SUFFICES ASSUME NEW p \in k..hi PROVE b[p] >= v
    BY DEF AtLeast
  <2>1. p \in 1..n
    OBVIOUS
  <2>2. CASE p = k
    BY <1>1, <2>2
  <2>3. CASE p # k
    <3>1. p \in (k + 1)..hi /\ p # w
      BY <2>3
    <3> QED  BY <1>1, <2>1, <2>3, <3>1 DEF AtLeast
  <2> QED  BY <2>2, <2>3
<1>4. Parts(b, lo, k, hi)
  <2> SUFFICES ASSUME NEW p \in lo..k, NEW q \in k..hi PROVE b[p] <= b[q]
    BY DEF Parts
  <2>1. p \in 1..n /\ q \in 1..n
    OBVIOUS
  <2>2. b[p] <= v /\ b[q] >= v
    BY <1>2, <1>3 DEF AtMost, AtLeast
  <2> QED  BY <1>1, <2>1, <2>2
<1> QED  BY <1>1, <1>4

\* The whole of a partition, with the median and the pivot at its place.
LEMMA PivotIs ==
  ASSUME NEW n \in Nat, NEW a \in Arrays(n), NEW lo \in 1..n, NEW hi \in 1..n, NEW mid \in 1..n, lo < mid, mid < hi,
         NEW r, r = Partition(MedianOf3(a, lo, mid, hi), lo + 1, hi - 1, mid), NEW b, b = Swap(r.a, r.mid, r.k)
  PROVE  b \in Arrays(n) /\ Shuffled(1..n, a, b, lo..hi) /\ r.k \in (lo + 1)..(hi - 1) /\ Parts(b, lo, r.k, hi)
<1> DEFINE m == MedianOf3(a, lo, mid, hi)
           v == m[mid]
<1>m. m = MedianOf3(a, lo, mid, hi)
  OBVIOUS
<1> HIDE DEF m
<1>1. m \in Arrays(n) /\ Shuffled(1..n, a, m, lo..hi) /\ m[lo] <= m[mid] /\ m[mid] <= m[hi]
  BY <1>m, MedianIs
<1>2. Parted(n, m, lo, hi, v, r)
  BY <1>1, <1>m, PartitionIs
<1>3. v \in Int
  BY <1>1 DEF Arrays
<1> HIDE DEF v
<1>4. r.a \in Arrays(n) /\ r.k \in 1..n /\ r.mid \in 1..n
  <2>1. DOMAIN m = 1..n
    BY <1>1 DEF Arrays
  <2> QED  BY <1>2, <2>1 DEF Parted, Turning, Arrays
<1> DEFINE c == r.a
           k == r.k
           w == r.mid
<1>5. /\ Shuffled(1..n, m, c, lo..hi) /\ lo < w /\ w <= k /\ k < hi /\ c[w] = v
      /\ AtMost(c, lo, k, v) /\ AtLeast(c, k + 1, hi, v)
  BY <1>2 DEF Parted
<1>6. c \in Arrays(n) /\ w \in lo..hi /\ k \in lo..hi /\ k \in (lo + 1)..(hi - 1) /\ b = Swap(c, w, k)
  BY <1>4, <1>5
<1> HIDE DEF c, k, w
<1>7. b \in Arrays(n) /\ Shuffled(1..n, c, b, lo..hi) /\ Parts(b, lo, k, hi)
  BY <1>3, <1>5, <1>6, PivotBetween
<1>8. Shuffled(1..n, m, b, lo..hi)
  BY <1>5, <1>7, ShuffledTwice
<1>9. Shuffled(1..n, a, b, lo..hi)
  BY <1>1, <1>8, ShuffledTwice
<1> QED  BY <1>6, <1>7, <1>9 DEF k

\* No segment is pushed.
LEMMA NoneIs ==
  ASSUME NEW T
  PROVE  << >> \in Seq(T) /\ Len(<< >>) = 0 /\ << >> \o << >> = << >> /\ \A j \in 1..0 : FALSE
<1>1. << >> \in Seq(T)
  OBVIOUS
<1>2. Len(<< >>) = 0
  OBVIOUS
<1>3. << >> \o << >> = << >>
  OBVIOUS
<1>4. \A j \in 1..0 : FALSE
  OBVIOUS
<1> QED  BY <1>1, <1>2, <1>3, <1>4

\* One segment is pushed.
LEMMA OneIs ==
  ASSUME NEW T, NEW x \in T
  PROVE  /\ <<x>> \in Seq(T) /\ Len(<<x>>) = 1 /\ <<x>>[1] = x /\ <<x>> # << >>
         /\ <<x>> \o << >> = <<x>> /\ << >> \o <<x>> = <<x>> /\ \A j \in 1..1 : j = 1
<1>1. <<x>> \in Seq(T) /\ Len(<<x>>) = 1 /\ <<x>>[1] = x
  OBVIOUS
<1>2. <<x>> # << >>
  OBVIOUS
<1>3. <<x>> \o << >> = <<x>>
  OBVIOUS
<1>4. << >> \o <<x>> = <<x>>
  OBVIOUS
<1>5. \A j \in 1..1 : j = 1
  OBVIOUS
<1> QED  BY <1>1, <1>2, <1>3, <1>4, <1>5

\* Two segments are pushed.
LEMMA TwoIs ==
  ASSUME NEW T, NEW x \in T, NEW y \in T, NEW s, s = <<x>> \o <<y>>
  PROVE  s \in Seq(T) /\ Len(s) = 2 /\ s[1] = x /\ s[2] = y /\ \A j \in 1..2 : j = 1 \/ j = 2
<1> DEFINE u == <<x>>
           v == <<y>>
<1>1. u \in Seq(T) /\ Len(u) = 1 /\ u[1] = x /\ v \in Seq(T) /\ Len(v) = 1 /\ v[1] = y
  BY OneIs
<1>2. s = u \o v
  OBVIOUS
<1> HIDE DEF u, v
<1>3. s \in Seq(T) /\ Len(s) = 2
  BY <1>1, <1>2
<1>4. s[1] = x /\ s[2] = y
  BY <1>1, <1>2
<1>5. \A j \in 1..2 : j = 1 \/ j = 2
  OBVIOUS
<1> QED  BY <1>3, <1>4, <1>5

\* The segments that are pushed for top: what becomes of it.
Smaller(top, new, N) ==
  /\ \A j \in 1..N : /\ new[j].n >= 2 /\ new[j].n < top.n /\ new[j].lo >= top.lo
                     /\ new[j].lo + new[j].n <= top.lo + top.n
  /\ N = 2 => /\ 2 * new[2].n <= top.n /\ new[2].n <= new[1].n
              /\ new[1].lo + new[1].n < new[2].lo \/ new[2].lo + new[2].n < new[1].lo

\* There are two at most.
Carved(top, new) ==
  \E N \in 0..2 : new \in Seq([lo : Nat, n : Nat]) /\ Len(new) = N /\ Smaller(top, new, N)

\* A part of x elements is pushed if there is something to sort in it.
Pushes(new, lo, x) == x > 1 => \E j \in 1..Len(new) : new[j] = [lo |-> lo, n |-> x]

\* What a partition pushes.
LEMMA PushedIs ==
  ASSUME NEW lo \in Nat, NEW x \in Nat, NEW y \in Nat, x >= 1, y >= 1,
         NEW k, k = lo + x, NEW top, top.lo = lo, top.n = x + 1 + y,
         NEW new, new = Pushed2(Segment(lo, x), Segment(k + 1, y))
  PROVE  Carved(top, new) /\ Pushes(new, lo, x) /\ Pushes(new, k + 1, y)
<1> DEFINE l == [lo |-> lo, n |-> x]
           r == [lo |-> k + 1, n |-> y]
           T == [lo : Nat, n : Nat]
<1>0. k \in Nat /\ k + 1 \in Nat
  OBVIOUS
<1>1. l \in T /\ r \in T /\ l.lo = lo /\ l.n = x /\ r.lo = k + 1 /\ r.n = y
  BY <1>0
<1>2. l = [lo |-> lo, n |-> x] /\ r = [lo |-> k + 1, n |-> y]
  OBVIOUS
<1>3. new = Pushed2(IF x > 1 THEN <<l>> ELSE << >>, IF y > 1 THEN <<r>> ELSE << >>)
  BY DEF Segment
<1>T. T = [lo : Nat, n : Nat]
  OBVIOUS
<1> HIDE DEF l, r, T
<1>4. CASE x > 1 /\ y > 1
  <2>0. new = Pushed2(<<l>>, <<r>>)
    BY <1>3, <1>4
  <2>1. <<l>> # << >> /\ <<r>> # << >> /\ <<l>>[1] = l /\ <<r>>[1] = r
    OBVIOUS
  <2>2. new = IF y > x THEN <<r>> \o <<l>> ELSE <<l>> \o <<r>>
    BY <1>1, <2>0, <2>1 DEF Pushed2
  <2>3. CASE y > x
    <3>1. new = <<r>> \o <<l>>
      BY <2>2, <2>3
    <3>2. new \in Seq(T) /\ Len(new) = 2 /\ new[1] = r /\ new[2] = l /\ \A j \in 1..2 : j = 1 \/ j = 2
      BY <1>1, <3>1, TwoIs
    <3>3. \A j \in 1..2 : new[j] = r \/ new[j] = l
      BY <3>2
    <3>4. Carved(top, new)
      <4>1. \A j \in 1..2 : /\ new[j].n >= 2 /\ new[j].n < top.n /\ new[j].lo >= top.lo
                        /\ new[j].lo + new[j].n <= top.lo + top.n
        BY <1>1, <1>4, <3>2, <3>3
      <4>2. 2 * new[2].n <= top.n /\ new[2].n <= new[1].n
        BY <1>1, <1>4, <2>3, <3>2
      <4>3. new[1].lo + new[1].n < new[2].lo \/ new[2].lo + new[2].n < new[1].lo
        BY <1>1, <3>2
      <4>4. Smaller(top, new, 2)
        BY <4>1, <4>2, <4>3 DEF Smaller
      <4> QED  BY <3>2, <4>4, <1>T DEF Carved
    <3>5. 1 \in 1..Len(new) /\ 2 \in 1..Len(new)
      BY <3>2
    <3> QED  BY <1>2, <3>2, <3>4, <3>5 DEF Pushes
  <2>4. CASE ~ (y > x)
    <3>1. new = <<l>> \o <<r>>
      BY <2>2, <2>4
    <3>2. new \in Seq(T) /\ Len(new) = 2 /\ new[1] = l /\ new[2] = r /\ \A j \in 1..2 : j = 1 \/ j = 2
      BY <1>1, <3>1, TwoIs
    <3>3. \A j \in 1..2 : new[j] = r \/ new[j] = l
      BY <3>2
    <3>4. Carved(top, new)
      <4>1. \A j \in 1..2 : /\ new[j].n >= 2 /\ new[j].n < top.n /\ new[j].lo >= top.lo
                        /\ new[j].lo + new[j].n <= top.lo + top.n
        BY <1>1, <1>4, <3>2, <3>3
      <4>2. 2 * new[2].n <= top.n /\ new[2].n <= new[1].n
        BY <1>1, <1>4, <2>4, <3>2
      <4>3. new[1].lo + new[1].n < new[2].lo \/ new[2].lo + new[2].n < new[1].lo
        BY <1>1, <3>2
      <4>4. Smaller(top, new, 2)
        BY <4>1, <4>2, <4>3 DEF Smaller
      <4> QED  BY <3>2, <4>4, <1>T DEF Carved
    <3>5. 1 \in 1..Len(new) /\ 2 \in 1..Len(new)
      BY <3>2
    <3> QED  BY <1>2, <3>2, <3>4, <3>5 DEF Pushes
  <2> QED  BY <2>3, <2>4
<1>5. CASE x > 1 /\ ~ (y > 1)
  <2>1. new = <<l>>
    <3>1. new = Pushed2(<<l>>, << >>)
      BY <1>3, <1>5
    <3>2. <<l>> \o << >> = <<l>>
      OBVIOUS
    <3> QED  BY <3>1, <3>2 DEF Pushed2
  <2>2. new \in Seq(T) /\ Len(new) = 1 /\ new[1] = l /\ \A j \in 1..1 : j = 1
    BY <1>1, <2>1, OneIs
  <2>3. Carved(top, new)
    <3>1. Smaller(top, new, 1)
      BY <1>0, <1>1, <1>5, <2>2 DEF Smaller
    <3> QED  BY <2>2, <3>1, <1>T DEF Carved
  <2>4. 1 \in 1..Len(new)
    BY <2>2
  <2> QED  BY <1>2, <1>5, <2>2, <2>3, <2>4 DEF Pushes
<1>6. CASE ~ (x > 1) /\ y > 1
  <2>1. new = <<r>>
    <3>1. new = Pushed2(<< >>, <<r>>)
      BY <1>3, <1>6
    <3>2. <<r>> \o << >> = <<r>> /\ <<r>> # << >>
      OBVIOUS
    <3> QED  BY <3>1, <3>2 DEF Pushed2
  <2>2. new \in Seq(T) /\ Len(new) = 1 /\ new[1] = r /\ \A j \in 1..1 : j = 1
    BY <1>1, <2>1, OneIs
  <2>3. Carved(top, new)
    <3>1. Smaller(top, new, 1)
      BY <1>0, <1>1, <1>6, <2>2 DEF Smaller
    <3> QED  BY <2>2, <3>1, <1>T DEF Carved
  <2>4. 1 \in 1..Len(new)
    BY <2>2
  <2> QED  BY <1>2, <1>6, <2>2, <2>3, <2>4 DEF Pushes
<1>7. CASE ~ (x > 1) /\ ~ (y > 1)
  <2>1. new = << >>
    <3>1. new = Pushed2(<< >>, << >>)
      BY <1>3, <1>7
    <3> QED  BY <3>1, NoneIs DEF Pushed2
  <2>2. new \in Seq(T) /\ Len(new) = 0 /\ \A j \in 1..0 : FALSE
    BY <2>1, NoneIs
  <2>3. Carved(top, new)
    <3>1. Smaller(top, new, 0)
      BY <2>2 DEF Smaller
    <3> QED  BY <2>2, <3>1, <1>T DEF Carved
  <2> QED  BY <1>7, <2>3 DEF Pushes
<1> QED  BY <1>4, <1>5, <1>6, <1>7

-----------------------------------------------------------------------------
(* The stack *)

\* The powers of 2 up to the n-th.
Powers(n) == \A k \in 0..n : 2^k \in Nat \ {0} /\ 2^(k + 1) = 2 * 2^k /\ k < 2^k

\* A power of 2 is greater than its exponent.
LEMMA PowersGrow ==
  ASSUME NEW s \in SortInputs \cup QsInputs, Len(s) \in Nat
  PROVE  Powers(Len(s))
<1> DEFINE n == Len(s)
           P == {k \in 0..n : k < 2^k}
<1>1. \A k \in 0..n : 2^k \in Nat \ {0} /\ 2^(k + 1) = 2 * 2^k
  BY PowersAssumption
<1>2. n \in Nat
  OBVIOUS
<1> HIDE DEF n
<1>3. 0 \in P
  <2>1. 0 \in 0..n /\ 2^0 \in Nat \ {0}
    BY <1>1, <1>2
  <2> QED  BY <2>1
<1>4. \A k \in 0..(n - 1) : k \in P => k + 1 \in P
  <2> SUFFICES ASSUME NEW k \in 0..(n - 1), k < 2^k PROVE k + 1 \in P
    OBVIOUS
  <2>1. k \in 0..n /\ k + 1 \in 0..n
    BY <1>2
  <2>2. 2^k \in Nat \ {0} /\ 2^(k + 1) = 2 * 2^k
    BY <1>1, <2>1
  <2> DEFINE y == 2^k
             z == 2^(k + 1)
  <2>3. y \in Nat /\ z = 2 * y /\ k < y
    BY <2>2
  <2> HIDE DEF y, z
  <2>4. k + 1 < z
    BY <2>1, <2>3
  <2> QED  BY <2>1, <2>4 DEF z
<1> HIDE DEF P
<1>5. \A k \in 0..n : k \in P
  BY <1>2, <1>3, <1>4, UpFrom
<1>6. \A k \in 0..n : k < 2^k
  BY <1>5 DEF P
<1>7. Powers(n)
  BY <1>1, <1>6 DEF Powers
<1> QED  BY <1>7 DEF n

\* A product grows with its factor.
LEMMA TimesLess ==
  ASSUME NEW x \in Nat, NEW y \in Nat, NEW z \in Nat, x <= y
  PROVE  x * z <= y * z /\ x * z \in Nat /\ y * z \in Nat
OBVIOUS

\* Half of a number, and a power of 2 twice as large.
LEMMA TimesHalf ==
  ASSUME NEW x \in Nat, NEW y \in Nat, NEW z \in Nat, 2 * x <= y
  PROVE  x * (2 * z) <= y * z
<1>1. (2 * x) * z <= y * z
  BY TimesLess
<1>2. (2 * x) * z = x * (2 * z)
  OBVIOUS
<1> QED  BY <1>1, <1>2

\* A segment beside another; the places of one.
Aside(g, h) == g.lo + g.n <= h.lo \/ h.lo + h.n <= g.lo
Segments(n) == [lo : 1..n, n : 2..n]

\* The first L of s are a stack: each inside, as short as its depth asks, and
\* not longer than those below it.
Stacked(n, s, L) ==
  /\ \A j \in 1..L : s[j] \in Segments(n) /\ s[j].lo + s[j].n <= n + 1
  /\ \A j \in 1..L : s[j].n * 2^(j - 1) <= n
  /\ \A i, j \in 1..L : i < j => s[j].n <= s[i].n /\ Aside(s[i], s[j])

\* The stack is like that, at some depth.
StackOf(n, s) == \E L \in 0..n : s \in Seq(Segments(n)) /\ Len(s) = L /\ Stacked(n, s, L)

\* t is s with the N of new instead of its last, the L-th.
Replaced(s, L, new, N, t) ==
  /\ \A j \in 1..(L - 1) : t[j] = s[j]
  /\ \A j \in 1..N : t[(L - 1) + j] = new[j]

\* It is a sequence.
ReplacedSeq(T, s, L, new, N, t) == t \in Seq(T) /\ Len(t) = (L - 1) + N /\ Replaced(s, L, new, N, t)

\* t is the k elements of b and the l of c.
JoinFits(T, k, l, b, c, t) ==
  /\ t \in Seq(T) /\ Len(t) = k + l
  /\ \A j \in 1..k : t[j] = b[j]
  /\ \A j \in 1..l : t[k + j] = c[j]

\* Two sequences behind one another.
LEMMA SeqsJoin ==
  ASSUME NEW T, NEW k \in Nat, NEW l \in Nat, NEW b \in Seq(T), NEW c \in Seq(T), Len(b) = k, Len(c) = l, NEW t, t = b \o c
  PROVE  JoinFits(T, k, l, b, c, t)
<1>1. t \in Seq(T) /\ Len(t) = k + l
  OBVIOUS
<1>2. \A i \in 1..(k + l) : t[i] = IF i <= k THEN b[i] ELSE c[i - k]
  OBVIOUS
<1>3. \A j \in 1..k : j \in 1..(k + l) /\ j <= k
  OBVIOUS
<1>4. \A j \in 1..l : k + j \in 1..(k + l) /\ ~ (k + j <= k) /\ (k + j) - k = j
  OBVIOUS
<1> QED  BY <1>1, <1>2, <1>3, <1>4 DEF JoinFits

\* The stack after a step is of this form.
LEMMA ReplacedIs ==
  ASSUME NEW T, NEW s \in Seq(T), NEW L \in Nat \ {0}, Len(s) = L, NEW N \in Nat, NEW new \in Seq(T), Len(new) = N,
         NEW t, t = SubSeq(s, 1, L - 1) \o new
  PROVE  ReplacedSeq(T, s, L, new, N, t)
<1> DEFINE b == SubSeq(s, 1, L - 1)
<1>2. b \in Seq(T) /\ Len(b) = L - 1 /\ \A j \in 1..(L - 1) : b[j] = s[j]
  <2> DEFINE m == L - 1
  <2>1. m \in Nat /\ \A j \in 1..m : s[j] \in T
    OBVIOUS
  <2>2. b = [j \in 1..m |-> s[j]]
    OBVIOUS
  <2> HIDE DEF b, m
  <2>3. b \in Seq(T) /\ Len(b) = m /\ \A j \in 1..m : b[j] = s[j]
    BY <2>1, <2>2
  <2> QED  BY <2>3 DEF m
<1>3. t = b \o new
  OBVIOUS
<1> HIDE DEF b
<1> DEFINE k == L - 1
<1>k. k \in Nat /\ k = L - 1
  OBVIOUS
<1> HIDE DEF k
<1>a. b \in Seq(T) /\ Len(b) = k
  BY <1>2, <1>k
<1>b. JoinFits(T, k, N, b, new, t)
  BY <1>3, <1>a, <1>k, SeqsJoin
<1>4. /\ t \in Seq(T) /\ Len(t) = k + N
      /\ \A j \in 1..k : t[j] = b[j]
      /\ \A j \in 1..N : t[k + j] = new[j]
  BY <1>b DEF JoinFits
<1> QED  BY <1>2, <1>4, <1>k DEF Replaced, ReplacedSeq

\* What is pushed are segments.
LEMMA SmallerTyped ==
  ASSUME NEW n \in Nat, NEW top \in Segments(n), top.lo + top.n <= n + 1, NEW N \in Nat,
         NEW new \in [1..N -> [lo : Nat, n : Nat]], Smaller(top, new, N)
  PROVE  new \in [1..N -> Segments(n)]
<1>1. ASSUME NEW j \in 1..N PROVE new[j] \in Segments(n)
  <2>1. new[j] \in [lo : Nat, n : Nat]
    OBVIOUS
  <2>2. new[j].n >= 2 /\ new[j].n < top.n /\ new[j].lo >= top.lo
    BY DEF Smaller
  <2>3. top.n \in 2..n /\ top.lo \in 1..n
    BY DEF Segments
  <2>4. new[j].lo + new[j].n <= top.lo + top.n
    BY DEF Smaller
  <2> DEFINE lo == new[j].lo
             m == new[j].n
             to == top.lo
             tn == top.n
  <2>5. /\ lo \in Nat /\ m \in Nat /\ m >= 2 /\ m < tn /\ lo >= to
        /\ tn \in 2..n /\ to \in 1..n /\ lo + m <= to + tn /\ to + tn <= n + 1
    BY <2>1, <2>2, <2>3, <2>4
  <2>6. m \in 2..n /\ lo \in 1..n
    <3> HIDE DEF lo, m, to, tn
    <3> QED  BY <2>5
  <2> QED  BY <2>1, <2>6 DEF Segments
<1> HIDE DEF Segments
<1> QED  BY <1>1

\* What is inside of a segment is beside what the segment is beside of.
LEMMA InsideAside ==
  ASSUME NEW a \in Nat, NEW b \in Nat, NEW c \in Nat, NEW d \in Nat, NEW e \in Nat, NEW f \in Nat,
         a >= c, a + b <= c + d, e + f <= c \/ c + d <= e
  PROVE  e + f <= a \/ a + b <= e
OBVIOUS

\* A step keeps the stack ordered, its segments apart and its depth logarithmic.
LEMMA StackStep ==
  ASSUME NEW n \in Nat, Powers(n), NEW L \in 1..n, NEW s, Stacked(n, s, L), NEW top, top = s[L], NEW N \in 0..2,
         NEW new \in [1..N -> Segments(n)], Smaller(top, new, N), NEW t, Replaced(s, L, new, N, t)
  PROVE  Stacked(n, t, (L - 1) + N) /\ (L - 1) + N <= n
<1> DEFINE M == (L - 1) + N
<1>M. M = (L - 1) + N /\ M \in Nat
  OBVIOUS
<1> HIDE DEF M
<1>2. /\ \A j \in 1..L : s[j] \in Segments(n) /\ s[j].lo \in 1..n /\ s[j].n \in 2..n
      /\ \A j \in 1..L : s[j].lo + s[j].n <= n + 1
      /\ \A i, j \in 1..L : i < j => s[j].n <= s[i].n /\ Aside(s[i], s[j])
  BY DEF Stacked, Segments
<1>p. \A j \in 1..L : s[j].n * 2^(j - 1) <= n
  BY DEF Stacked
<1>0. L \in 1..L
  OBVIOUS
<1>t. top.n * 2^(L - 1) <= n
  BY <1>0, <1>p
<1>3. top.lo \in 1..n /\ top.n \in 2..n /\ top.lo + top.n <= n + 1
  BY <1>0, <1>2
<1>6. /\ \A j \in 1..(L - 1) : t[j] = s[j]
      /\ \A j \in 1..N : t[(L - 1) + j] = new[j]
  BY DEF Replaced
<1>7. \A j \in 1..N : new[j] \in Segments(n) /\ new[j].lo \in 1..n /\ new[j].n \in 2..n
  BY DEF Segments
<1>8. /\ \A j \in 1..N : new[j].n < top.n /\ new[j].lo >= top.lo /\ new[j].lo + new[j].n <= top.lo + top.n
      /\ N = 2 => /\ 2 * new[2].n <= top.n /\ new[2].n <= new[1].n
                  /\ new[1].lo + new[1].n < new[2].lo \/ new[2].lo + new[2].n < new[1].lo
  BY DEF Smaller
<1>9. \A k \in 0..n : 2^k \in Nat \ {0} /\ 2^(k + 1) = 2 * 2^k /\ k < 2^k
  BY DEF Powers
\* A place of t is one of s or one of new.
<1>10. \A j \in 1..M : j \in 1..(L - 1) \/ \E q \in 1..N : j = (L - 1) + q
  <2> TAKE j \in 1..M
  <2>1. CASE j \in 1..(L - 1)
    BY <2>1
  <2>2. CASE j \notin 1..(L - 1)
    <3>1. j - (L - 1) \in 1..N /\ j = (L - 1) + (j - (L - 1))
      BY <1>M, <2>2
    <3> QED  BY <3>1
  <2> QED  BY <2>1, <2>2
<1>11. ASSUME NEW q \in 1..N PROVE new[q].n * 2^(((L - 1) + q) - 1) <= n
  <2> DEFINE y == 2^(L - 1)
             m == top.n
             x == new[q].n
  <2>1. y \in Nat \ {0} /\ 2^L = 2 * y /\ m * y <= n /\ m \in Nat /\ x \in Nat
    <3>1. L - 1 \in 0..n /\ (L - 1) + 1 = L
      OBVIOUS
    <3>2. y \in Nat \ {0} /\ 2^L = 2 * y
      BY <1>9, <3>1
    <3>3. m \in Nat /\ x \in Nat
      BY <1>3, <1>7
    <3>4. m * y <= n
      BY <1>t
    <3> QED  BY <3>2, <3>3, <3>4
  <2>2. CASE q = 1
    <3>1. ((L - 1) + q) - 1 = L - 1 /\ x <= m
      BY <1>3, <1>7, <1>8, <2>2
    <3>p. PICK X \in Nat, Y \in Nat, W \in Nat : X = x /\ Y = y /\ W = m
      BY <2>1
    <3> HIDE DEF x, y, m
    <3>2. X * Y <= W * Y /\ X * Y \in Nat /\ W * Y \in Nat
      BY <3>1, <3>p, TimesLess
    <3>4. W * Y <= n
      BY <2>1, <3>p
    <3>5. X * Y <= n
      <4> DEFINE u == X * Y
                 w == W * Y
      <4>1. u <= w /\ u \in Nat /\ w \in Nat /\ w <= n
        BY <3>2, <3>4
      <4> HIDE DEF u, w
      <4>2. u <= n
        BY <4>1
      <4> QED  BY <4>2 DEF u
    <3>3. x * y <= n
      BY <3>p, <3>5
    <3> QED  BY <3>1, <3>3 DEF x, y
  <2>3. CASE q = 2
    <3>1. ((L - 1) + q) - 1 = L /\ 2 * x <= m
      <4>1. N = 2
        BY <1>6, <2>3
      <4> QED  BY <1>8, <2>3, <4>1
    <3>p. PICK X \in Nat, Y \in Nat, W \in Nat : X = x /\ Y = y /\ W = m
      BY <2>1
    <3> HIDE DEF x, y, m
    <3>2. X * (2 * Y) <= W * Y
      BY <3>1, <3>p, TimesHalf
    <3>3. W * Y <= n
      BY <2>1, <3>p
    <3>4. X * (2 * Y) <= n
      <4> DEFINE u == X * (2 * Y)
                 w == W * Y
      <4>1. u \in Nat /\ w \in Nat
        OBVIOUS
      <4>2. u <= w /\ w <= n
        BY <3>2, <3>3
      <4> HIDE DEF u, w
      <4>3. u <= n
        BY <4>1, <4>2
      <4> QED  BY <4>3 DEF u
    <3>5. x * 2^L <= n
      <4>1. 2^L = 2 * Y
        BY <2>1, <3>p
      <4> QED  BY <3>4, <3>p, <4>1
    <3> QED  BY <3>1, <3>5 DEF x
  <2> QED  BY <1>6, <2>2, <2>3
<1>12. M <= n
  <2>1. CASE N <= 1
    BY <2>1, <1>M
  <2>2. CASE N = 2
    <3> DEFINE x == new[2].n
               y == 2^L
    <3>1. ((L - 1) + 2) - 1 = L /\ 2 \in 1..N
      BY <2>2
    <3>2. x * y <= n /\ x \in Nat /\ 2 <= x
      BY <1>7, <1>11, <3>1
    <3>3. L \in 0..n /\ y \in Nat /\ L < y
      BY <1>9
    <3> HIDE DEF x, y
    <3>4. 2 * y <= x * y /\ 2 * y \in Nat /\ x * y \in Nat
      BY <3>2, <3>3, TimesLess
    <3>5. 2 * y <= n
      BY <3>2, <3>4
    <3> QED  BY <1>M, <2>2, <3>3, <3>5
  <2> QED  BY <1>6, <2>1, <2>2
<1>13. ASSUME NEW j \in 1..M PROVE t[j] \in Segments(n) /\ t[j].lo + t[j].n <= n + 1 /\ t[j].n * 2^(j - 1) <= n
  <2>1. CASE j \in 1..(L - 1)
    <3>1. j \in 1..L /\ t[j] = s[j]
      BY <1>6, <2>1
    <3> QED  BY <1>2, <1>p, <3>1
  <2>2. ASSUME NEW q \in 1..N, j = (L - 1) + q PROVE t[j] \in Segments(n) /\ t[j].lo + t[j].n <= n + 1 /\ t[j].n * 2^(j - 1) <= n
    <3>1. t[j] = new[q]
      BY <1>6, <2>2
    <3>2. new[q].lo + new[q].n <= n + 1
      <4>1. new[q].lo + new[q].n <= top.lo + top.n /\ new[q].lo \in Nat /\ new[q].n \in Nat
        BY <1>7, <1>8
      <4> QED  BY <1>3, <4>1
    <3> QED  BY <1>11, <2>2, <3>1, <3>2
  <2> QED  BY <1>10, <2>1, <2>2
<1>14. ASSUME NEW i \in 1..M, NEW j \in 1..M, i < j PROVE t[j].n <= t[i].n /\ Aside(t[i], t[j])
  <2>1. CASE j \in 1..(L - 1)
    <3>1. j \in 1..L /\ t[j] = s[j] /\ i \in 1..L /\ i \in 1..(L - 1) /\ t[i] = s[i]
      <4>1. j \in 1..L /\ i \in 1..L /\ i \in 1..(L - 1)
        BY <1>M, <1>14, <2>1
      <4> QED  BY <1>6, <2>1, <4>1
    <3> QED  BY <1>2, <1>14, <3>1
  <2>2. ASSUME NEW q \in 1..N, j = (L - 1) + q PROVE t[j].n <= t[i].n /\ Aside(t[i], t[j])
    <3>0. t[j] = new[q]
      BY <1>6, <2>2
    <3>1. CASE i \in 1..(L - 1)
      <4>1. i \in 1..L /\ L \in 1..L /\ i < L /\ t[i] = s[i]
        BY <1>6, <3>1
      <4>2. top.n <= s[i].n /\ Aside(s[i], top)
        BY <1>2, <4>1
      <4>3. s[i].n \in 2..n /\ s[i].lo \in 1..n
        BY <1>2, <4>1
      <4>a. new[q].n < top.n /\ new[q].lo >= top.lo /\ new[q].lo + new[q].n <= top.lo + top.n
        BY <1>8
      <4>b. new[q].n \in Nat /\ new[q].lo \in Nat /\ top.n \in Nat /\ top.lo \in Nat
        <5>1. new[q].lo \in 1..n /\ new[q].n \in 2..n
          BY <1>7
        <5>2. new[q].lo \in Nat /\ new[q].n \in Nat
          BY <5>1
        <5> QED  BY <1>3, <5>2
      <4>4. new[q].n <= s[i].n
        BY <4>2, <4>3, <4>a, <4>b
      <4>5. Aside(s[i], new[q])
        <5>1. s[i].lo + s[i].n <= top.lo \/ top.lo + top.n <= s[i].lo
          BY <4>2 DEF Aside
        <5>2. s[i].n \in Nat /\ s[i].lo \in Nat
          BY <4>3
        <5>3. s[i].lo + s[i].n <= new[q].lo \/ new[q].lo + new[q].n <= s[i].lo
          BY <4>a, <4>b, <5>1, <5>2, InsideAside
        <5> QED  BY <5>3 DEF Aside
      <4> QED  BY <3>0, <4>1, <4>4, <4>5
    <3>2. ASSUME NEW r \in 1..N, i = (L - 1) + r PROVE t[j].n <= t[i].n /\ Aside(t[i], t[j])
      <4>n. r \in Nat /\ q \in Nat /\ r >= 1 /\ q <= N
        BY <1>6
      <4>1. r < q
        BY <1>14, <2>2, <3>2, <4>n
      <4>2. N = 2 /\ r = 1 /\ q = 2
        BY <1>6, <4>1, <4>n
      <4>3. t[i] = new[1] /\ t[j] = new[2]
        BY <1>6, <3>0, <3>2, <4>2
      <4>4. new[2].n <= new[1].n /\ (new[1].lo + new[1].n < new[2].lo \/ new[2].lo + new[2].n < new[1].lo)
        BY <1>8, <4>2
      <4>5. new[1].n \in Nat /\ new[1].lo \in Nat /\ new[2].n \in Nat /\ new[2].lo \in Nat
        BY <1>7, <4>2
      <4>6. Aside(new[1], new[2])
        BY <4>4, <4>5 DEF Aside
      <4> QED  BY <4>3, <4>4, <4>6
    <3> QED  BY <1>10, <3>1, <3>2
  <2> QED  BY <1>10, <2>1, <2>2
<1>15. Stacked(n, t, M)
  BY <1>13, <1>14 DEF Stacked
<1> QED  BY <1>12, <1>15, <1>M

\* The same of the stack as a sequence.
LEMMA StackNext ==
  ASSUME NEW n \in Nat, Powers(n), NEW s, StackOf(n, s), s # << >>, NEW top, top = s[Len(s)], NEW new, Carved(top, new),
         NEW t, t = SubSeq(s, 1, Len(s) - 1) \o new
  PROVE  StackOf(n, t) /\ new \in Seq(Segments(n)) /\ Replaced(s, Len(s), new, Len(new), t) /\ Len(t) = (Len(s) - 1) + Len(new)
<1> DEFINE T == Segments(n)
           R == [lo : Nat, n : Nat]
<1>T. T = Segments(n) /\ R = [lo : Nat, n : Nat]
  OBVIOUS
<1> HIDE DEF T, R
<1>1. PICK L \in 0..n : s \in Seq(T) /\ Len(s) = L /\ Stacked(n, s, L)
  BY <1>T DEF StackOf
<1>2. L \in Nat \ {0} /\ L \in 1..n
  BY <1>1
<1>3. PICK N \in 0..2 : new \in Seq(R) /\ Len(new) = N /\ Smaller(top, new, N)
  BY <1>T DEF Carved
<1>4. new \in [1..N -> R]
  BY <1>3
<1>5. top \in T /\ top.lo + top.n <= n + 1
  BY <1>1, <1>2, <1>T DEF Stacked
<1>6. N \in Nat
  OBVIOUS
<1>7. new \in [1..N -> T]
  BY <1>3, <1>4, <1>5, <1>6, <1>T, SmallerTyped
<1>8. new \in Seq(T)
  BY <1>6, <1>7
<1>9. t \in Seq(T) /\ Len(t) = (L - 1) + N /\ Replaced(s, L, new, N, t)
  <2>1. t = SubSeq(s, 1, L - 1) \o new
    BY <1>1
  <2>2. s \in Seq(T) /\ L \in Nat \ {0} /\ Len(s) = L /\ N \in Nat /\ new \in Seq(T) /\ Len(new) = N
    BY <1>1, <1>2, <1>3, <1>6, <1>8
  <2>3. ReplacedSeq(T, s, L, new, N, t)
    BY <2>1, <2>2, ReplacedIs
  <2> QED  BY <2>3 DEF ReplacedSeq
<1>10. Stacked(n, t, (L - 1) + N) /\ (L - 1) + N <= n
  <2>1. top = s[L]
    BY <1>1
  <2> QED  BY <1>1, <1>2, <1>3, <1>7, <1>9, <1>T, <2>1, StackStep
<1>11. (L - 1) + N \in 0..n
  BY <1>2, <1>6, <1>10
<1>12. StackOf(n, t)
  BY <1>9, <1>10, <1>11, <1>T DEF StackOf
<1> QED  BY <1>1, <1>3, <1>8, <1>9, <1>12, <1>T

-----------------------------------------------------------------------------
(* The order *)

\* The place i is in the segment g; i and j are in one of the first L of s.
Within(g, i) == i \in g.lo..(g.lo + g.n - 1)
Held(s, L, i, j) == \E q \in 1..L : Within(s[q], i) /\ Within(s[q], j)

\* Two places that are in the wrong order are in one of the first L of s.
SortedBut(n, b, s, L) == \A i, j \in 1..n : i < j /\ b[i] > b[j] => Held(s, L, i, j)

\* The same of the places lo..hi.
LeftIn(b, lo, hi, new, N) == \A i, j \in lo..hi : i < j /\ b[i] > b[j] => Held(new, N, i, j)

\* Two places of one segment that are not both in the top one are both in one below it.
LEMMA TopApart ==
  ASSUME NEW n \in Nat, NEW L \in 1..n, NEW s, Stacked(n, s, L), NEW i \in 1..n, NEW j \in 1..n,
         Held(s, L, i, j), ~ Within(s[L], i) \/ ~ Within(s[L], j)
  PROVE  /\ ~ Within(s[L], i) /\ ~ Within(s[L], j)
         /\ \E q \in 1..(L - 1) : Within(s[q], i) /\ Within(s[q], j)
<1>1. PICK q \in 1..L : Within(s[q], i) /\ Within(s[q], j)
  BY DEF Held
<1>2. q # L /\ q \in 1..(L - 1) /\ q < L /\ L \in 1..L
  BY <1>1
<1>3. Aside(s[q], s[L])
  BY <1>2 DEF Stacked
<1>4. s[q] \in Segments(n) /\ s[L] \in Segments(n)
  BY <1>2 DEF Stacked
<1>5. s[q].lo \in Nat /\ s[q].n \in Nat /\ s[L].lo \in Nat /\ s[L].n \in Nat
  BY <1>4 DEF Segments
<1>6. ASSUME NEW k \in 1..n, Within(s[q], k) PROVE ~ Within(s[L], k)
  BY <1>3, <1>5, <1>6 DEF Within, Aside
<1> QED  BY <1>1, <1>2, <1>6

\* A step leaves no disorder outside of the segments.
LEMMA OrderStep ==
  ASSUME NEW n \in Nat, NEW L \in 1..n, NEW s, Stacked(n, s, L), NEW top, top = s[L], NEW N \in 0..2,
         NEW new, NEW t, Replaced(s, L, new, N, t), NEW a \in Arrays(n), NEW b \in Arrays(n),
         NEW lo \in 1..n, NEW hi \in 1..n, lo = top.lo, hi = top.lo + top.n - 1,
         Shuffled(1..n, a, b, lo..hi), SortedBut(n, a, s, L),
         LeftIn(b, lo, hi, new, N)
  PROVE  SortedBut(n, b, t, (L - 1) + N)
<1> SUFFICES ASSUME NEW i \in 1..n, NEW j \in 1..n, i < j, b[i] > b[j] PROVE Held(t, (L - 1) + N, i, j)
  BY DEF SortedBut
<1>1. (\A p \in lo..hi : \E q \in lo..hi : b[p] = a[q]) /\ (\A p \in 1..n : p \notin lo..hi => b[p] = a[p])
  <2> DEFINE D == 1..n
             S == lo..hi
  <2>1. S \subseteq D /\ Shuffled(D, a, b, S)
    OBVIOUS
  <2> HIDE DEF D, S
  <2>2. (\A p \in S : \E q \in S : b[p] = a[q]) /\ (\A p \in D : p \notin S => b[p] = a[p])
    BY <2>1, ShuffledInside
  <2> QED  BY <2>2 DEF D, S
<1>2. \A p : Within(top, p) <=> p \in lo..hi
  BY DEF Within
<1>3. \A p \in lo..hi : p \in 1..n
  OBVIOUS
<1>4. \A q \in 1..(L - 1) : q \in 1..((L - 1) + N) /\ t[q] = s[q]
  BY DEF Replaced
<1>5. \A q \in 1..N : (L - 1) + q \in 1..((L - 1) + N) /\ t[(L - 1) + q] = new[q]
  BY DEF Replaced
\* An inversion of a that does not lie in the top segment.
<1>6. ASSUME NEW x \in 1..n, NEW y \in 1..n, x < y, a[x] > a[y], x \notin lo..hi \/ y \notin lo..hi
      PROVE  x \notin lo..hi /\ y \notin lo..hi /\ Held(t, (L - 1) + N, x, y)
  <2>1. Held(s, L, x, y)
    BY <1>6 DEF SortedBut
  <2>2. ~ Within(s[L], x) \/ ~ Within(s[L], y)
    BY <1>2, <1>6
  <2>3. ~ Within(s[L], x) /\ ~ Within(s[L], y) /\ \E q \in 1..(L - 1) : Within(s[q], x) /\ Within(s[q], y)
    BY <2>1, <2>2, TopApart
  <2>4. Held(t, (L - 1) + N, x, y)
    BY <1>4, <2>3 DEF Held
  <2> QED  BY <1>2, <2>3, <2>4
<1>7. CASE i \in lo..hi /\ j \in lo..hi
  <2>1. PICK q \in 1..N : Within(new[q], i) /\ Within(new[q], j)
    BY <1>7 DEF Held, LeftIn
  <2> QED  BY <1>5, <2>1 DEF Held
<1>8. CASE i \notin lo..hi /\ j \notin lo..hi
  <2>1. a[i] > a[j]
    BY <1>1, <1>8
  <2> QED  BY <1>6, <1>8, <2>1
<1>9. CASE i \notin lo..hi /\ j \in lo..hi
  <2>1. PICK q \in lo..hi : b[j] = a[q]
    BY <1>1, <1>9
  <2>2. i < q /\ q \in 1..n
    BY <1>9
  <2>3. a[i] > a[q]
    BY <1>1, <1>9, <2>1
  <2> QED  BY <1>6, <1>9, <2>2, <2>3
<1>10. CASE i \in lo..hi /\ j \notin lo..hi
  <2>1. PICK q \in lo..hi : b[i] = a[q]
    BY <1>1, <1>10
  <2>2. q < j /\ q \in 1..n
    BY <1>10
  <2>3. a[q] > a[j]
    BY <1>1, <1>10, <2>1
  <2> QED  BY <1>6, <1>10, <2>2, <2>3
<1> QED  BY <1>7, <1>8, <1>9, <1>10

-----------------------------------------------------------------------------
(* The invariant *)

\* The inductive invariant of the quicksort.
QsInv ==
  /\ qsInput \in QsInputs
  /\ qsArray \in Arrays(Len(qsInput))
  /\ Shuffled(1..Len(qsInput), qsInput, qsArray, 1..Len(qsInput))
  /\ StackOf(Len(qsInput), qsStack)
  /\ SortedBut(Len(qsInput), qsArray, qsStack, Len(qsStack))

\* What it says of the input.
LEMMA QsSizes ==
  ASSUME qsInput \in QsInputs
  PROVE  /\ Len(qsInput) \in Nat /\ DOMAIN qsInput = 1..Len(qsInput) /\ qsInput \in Arrays(Len(qsInput)) /\ Powers(Len(qsInput))
<1>1. qsInput \in Seq(Int)
  BY QSortAssumption
<1>2. Len(qsInput) \in Nat /\ DOMAIN qsInput = 1..Len(qsInput) /\ qsInput \in [1..Len(qsInput) -> Int]
  BY <1>1
<1>3. Powers(Len(qsInput))
  BY <1>2, PowersGrow
<1> QED  BY <1>2, <1>3 DEF Arrays

\* The whole array is the first segment.
LEMMA QsStarts == QsInit => QsInv
<1> SUFFICES ASSUME QsInit PROVE QsInv
  OBVIOUS
<1> DEFINE n == Len(qsInput)
           s == qsStack
<1>1. qsInput \in QsInputs /\ qsArray = qsInput /\ s = Segment(1, n)
  BY DEF QsInit
<1>2. n \in Nat /\ qsInput \in Arrays(n) /\ Powers(n)
  BY <1>1, QsSizes
<1>3. Shuffled(1..n, qsInput, qsArray, 1..n)
  BY <1>1, ShuffledNone
<1> HIDE DEF n, s
<1>4. CASE n > 1
  <2> DEFINE g == [lo |-> 1, n |-> n]
  <2>1. s = <<g>>
    BY <1>1, <1>4 DEF Segment
  <2>2. g \in Segments(n) /\ g.lo = 1 /\ g.n = n
    BY <1>2, <1>4 DEF Segments
  <2> HIDE DEF g
  <2>3. s \in Seq(Segments(n)) /\ Len(s) = 1 /\ s[1] = g /\ \A j \in 1..1 : j = 1
    BY <2>1, <2>2, OneIs
  <2>4. g.n * 2^(1 - 1) <= n
    <3>1. 2^(1 - 1) = 1
      OBVIOUS
    <3> QED  BY <1>2, <2>2, <3>1
  <2>5. Stacked(n, s, 1)
    <3>1. \A j \in 1..1 : s[j] \in Segments(n) /\ s[j].lo + s[j].n <= n + 1
      BY <1>2, <2>2, <2>3
    <3>2. \A j \in 1..1 : s[j].n * 2^(j - 1) <= n
      <4> TAKE j \in 1..1
      <4>1. j = 1
        OBVIOUS
      <4> QED  BY <2>3, <2>4, <4>1
    <3>3. \A i, j \in 1..1 : ~ (i < j)
      OBVIOUS
    <3> QED  BY <3>1, <3>2, <3>3 DEF Stacked
  <2>6. StackOf(n, s)
    <3>1. 1 \in 0..n
      BY <1>2, <1>4
    <3> QED  BY <2>3, <2>5, <3>1 DEF StackOf
  <2>7. SortedBut(n, qsArray, s, Len(s))
    <3> SUFFICES ASSUME NEW i \in 1..n, NEW j \in 1..n PROVE Held(s, 1, i, j)
      BY <2>3 DEF SortedBut
    <3>1. Within(g, i) /\ Within(g, j)
      BY <1>2, <2>2 DEF Within
    <3>2. 1 \in 1..1
      OBVIOUS
    <3> QED  BY <2>3, <3>1, <3>2 DEF Held
  <2> QED  BY <1>1, <1>2, <1>3, <2>6, <2>7 DEF QsInv, n, s
<1>5. CASE ~ (n > 1)
  <2>1. s = << >>
    BY <1>1, <1>5 DEF Segment
  <2>2. s \in Seq(Segments(n)) /\ Len(s) = 0 /\ \A j \in 1..0 : FALSE
    BY <2>1, NoneIs
  <2>3. StackOf(n, s)
    <3>1. Stacked(n, s, 0)
      BY <2>2 DEF Stacked
    <3>2. 0 \in 0..n
      BY <1>2
    <3> QED  BY <2>2, <3>1, <3>2 DEF StackOf
  <2>4. SortedBut(n, qsArray, s, Len(s))
    <3> SUFFICES ASSUME NEW i \in 1..n, NEW j \in 1..n, i < j PROVE FALSE
      BY DEF SortedBut
    <3> QED  BY <1>2, <1>5
  <2> QED  BY <1>1, <1>2, <1>3, <2>3, <2>4 DEF QsInv, n, s
<1> QED  BY <1>4, <1>5

\* What the two actions do: the top segment is shuffled, and what is still out
\* of order in it is in the segments that replace it.
QsReplaces(new) ==
  LET n == Len(qsInput)
      L == Len(qsStack)
  IN  /\ Carved(qsStack[L], new)
      /\ qsStack' = SubSeq(qsStack, 1, L - 1) \o new
      /\ qsArray' \in Arrays(n)
      /\ Shuffled(1..n, qsArray, qsArray', qsStack[L].lo..(qsStack[L].lo + qsStack[L].n - 1))
      /\ LeftIn(qsArray', qsStack[L].lo, qsStack[L].lo + qsStack[L].n - 1, new, Len(new))
      /\ qsInput' = qsInput

\* The segment that is taken.
LEMMA QsTopIs ==
  ASSUME QsInv, qsStack # << >>
  PROVE  \E n \in Nat, L \in 1..Len(qsInput) :
           /\ n = Len(qsInput) /\ L = Len(qsStack) /\ Top = qsStack[L] /\ qsArray \in Arrays(n) /\ Powers(n)
           /\ qsStack \in Seq(Segments(n)) /\ Stacked(n, qsStack, L) /\ Below = SubSeq(qsStack, 1, L - 1)
           /\ Top.lo \in 1..n /\ Top.n \in 2..n /\ Hi = Top.lo + Top.n - 1 /\ Hi \in 1..n
<1> DEFINE n == Len(qsInput)
<1>1. n \in Nat /\ Powers(n) /\ qsArray \in Arrays(n) /\ StackOf(n, qsStack)
  BY QsSizes DEF QsInv
<1> HIDE DEF n
<1>2. PICK L \in 0..n : qsStack \in Seq(Segments(n)) /\ Len(qsStack) = L /\ Stacked(n, qsStack, L)
  BY <1>1 DEF StackOf
<1>3. L \in 1..n
  <2>1. L # 0
    BY <1>2
  <2> QED  BY <1>1, <2>1
<1>4. Top = qsStack[L] /\ Below = SubSeq(qsStack, 1, L - 1) /\ Hi = Top.lo + Top.n - 1
  BY <1>2 DEF Top, Below, Hi
<1>5. L \in 1..L
  BY <1>3
<1>6. Top \in Segments(n) /\ Top.lo + Top.n <= n + 1
  BY <1>2, <1>4, <1>5 DEF Stacked
<1>7. Top.lo \in 1..n /\ Top.n \in 2..n
  BY <1>6 DEF Segments
<1>8. Hi \in 1..n
  <2> DEFINE lo == Top.lo
             k == Top.n
  <2>1. lo \in 1..n /\ k \in 2..n /\ lo + k <= n + 1 /\ Hi = lo + k - 1
    BY <1>4, <1>6, <1>7
  <2> HIDE DEF lo, k
  <2> QED  BY <1>1, <2>1
<1> QED  BY <1>1, <1>2, <1>3, <1>4, <1>7, <1>8 DEF n

\* An action that replaces it like that keeps the invariant.
LEMMA QsStepIs ==
  ASSUME QsInv, qsStack # << >>, NEW new, QsReplaces(new)
  PROVE  QsInv'
<1>1. PICK n \in Nat, L \in 1..Len(qsInput) :
           /\ n = Len(qsInput) /\ L = Len(qsStack) /\ Top = qsStack[L] /\ qsArray \in Arrays(n) /\ Powers(n)
           /\ qsStack \in Seq(Segments(n)) /\ Stacked(n, qsStack, L) /\ Below = SubSeq(qsStack, 1, L - 1)
           /\ Top.lo \in 1..n /\ Top.n \in 2..n /\ Hi = Top.lo + Top.n - 1 /\ Hi \in 1..n
  BY QsTopIs
<1> DEFINE s == qsStack
           t == qsStack'
           a == qsArray
           b == qsArray'
           top == Top
           lo == Top.lo
           hi == Hi
<1>2. /\ Carved(top, new) /\ t = SubSeq(s, 1, L - 1) \o new /\ b \in Arrays(n) /\ Shuffled(1..n, a, b, lo..hi)
      /\ LeftIn(b, lo, hi, new, Len(new))
      /\ qsInput' = qsInput
  BY <1>1 DEF QsReplaces
<1>3. /\ StackOf(n, s) /\ SortedBut(n, a, s, L) /\ Shuffled(1..n, qsInput, a, 1..n) /\ qsInput \in QsInputs
  BY <1>1 DEF QsInv
<1>4. L \in 1..n /\ s # << >> /\ top = s[L] /\ L = Len(s) /\ Stacked(n, s, L) /\ lo \in 1..n /\ hi \in 1..n
      /\ hi = top.lo + top.n - 1 /\ lo = top.lo /\ a \in Arrays(n) /\ Powers(n)
  BY <1>1
<1> HIDE DEF s, t, a, b, top, lo, hi
<1>5. StackOf(n, t) /\ new \in Seq(Segments(n)) /\ Replaced(s, Len(s), new, Len(new), t) /\ Len(t) = (Len(s) - 1) + Len(new)
  <2>1. top = s[Len(s)] /\ t = SubSeq(s, 1, Len(s) - 1) \o new
    BY <1>2, <1>4
  <2> QED  BY <1>2, <1>3, <1>4, <2>1, StackNext, ZenonT(60)
<1>6. PICK N \in 0..2 : N = Len(new)
  BY <1>2 DEF Carved
<1>7. SortedBut(n, b, t, (L - 1) + N)
  <2>1. Replaced(s, L, new, N, t)
    BY <1>4, <1>5, <1>6
  <2>2. LeftIn(b, lo, hi, new, N)
    BY <1>2, <1>6
  <2>3. b \in Arrays(n) /\ Shuffled(1..n, a, b, lo..hi)
    BY <1>2
  <2>4. n \in Nat /\ N \in 0..2 /\ L \in 1..n
    BY <1>1, <1>4, <1>6
  <2>5. SortedBut(n, a, s, L) /\ Stacked(n, s, L)
    BY <1>3, <1>4
  <2> QED  BY <1>4, <2>1, <2>2, <2>3, <2>4, <2>5, OrderStep
<1>8. SortedBut(n, b, t, Len(t))
  <2>1. Len(t) = (L - 1) + N
    BY <1>4, <1>5, <1>6
  <2> QED  BY <1>7, <2>1
<1>9. Shuffled(1..n, qsInput, b, 1..n)
  <2> DEFINE D == 1..n
             S == lo..hi
  <2>1. S \subseteq D
    BY <1>4
  <2>2. Shuffled(D, a, b, S) /\ Shuffled(D, qsInput, a, D)
    BY <1>2, <1>3
  <2> HIDE DEF D, S
  <2>3. Shuffled(D, a, b, D)
    BY <2>1, <2>2, ShuffledMore
  <2>4. Shuffled(D, qsInput, b, D)
    BY <2>2, <2>3, ShuffledTwice
  <2> QED  BY <2>4 DEF D
<1>10. n = Len(qsInput')
  BY <1>1, <1>2
<1>11. qsInput' \in QsInputs /\ b \in Arrays(n) /\ Shuffled(1..n, qsInput', b, 1..n)
  BY <1>2, <1>3, <1>9
<1> QED  BY <1>5, <1>8, <1>10, <1>11 DEF QsInv, t, b

\* A number less than another, and the last place of a segment.
LEMMA EndsLess ==
  ASSUME NEW a \in Nat, NEW b \in Nat, NEW c \in Nat, NEW d \in Nat, a + b <= c + d
  PROVE  a + b - 1 <= c + d - 1
OBVIOUS

\* Of two segments that are apart the first ends before the second.
LEMMA FirstApart ==
  ASSUME NEW a \in Nat, NEW b \in Nat, NEW c \in Nat, NEW d \in Nat, a < c, a + b < c \/ c + d < a
  PROVE  a + b < c
OBVIOUS

\* What QsShrinks says of a step.
QsNarrows ==
  LET new == SubSeq(qsStack', Len(qsStack), Len(qsStack'))
  IN  /\ \A i \in DOMAIN new : /\ new[i].n < Top.n /\ new[i].lo >= Top.lo
                                /\ new[i].lo + new[i].n - 1 <= Hi
      /\ \A i, j \in DOMAIN new : i # j /\ new[i].lo < new[j].lo =>
           new[i].lo + new[i].n < new[j].lo

\* A step that replaces the top segment narrows it.
LEMMA QsStepNarrows ==
  ASSUME QsInv, qsStack # << >>, NEW new, QsReplaces(new)
  PROVE  QsNarrows
<1>1. PICK n \in Nat, L \in 1..Len(qsInput) :
           /\ n = Len(qsInput) /\ L = Len(qsStack) /\ Top = qsStack[L] /\ qsArray \in Arrays(n) /\ Powers(n)
           /\ qsStack \in Seq(Segments(n)) /\ Stacked(n, qsStack, L) /\ Below = SubSeq(qsStack, 1, L - 1)
           /\ Top.lo \in 1..n /\ Top.n \in 2..n /\ Hi = Top.lo + Top.n - 1 /\ Hi \in 1..n
  BY QsTopIs
<1> DEFINE s == qsStack
           t == qsStack'
           top == Top
<1>2. Carved(top, new) /\ t = SubSeq(s, 1, L - 1) \o new
  BY <1>1 DEF QsReplaces
<1>3. StackOf(n, s)
  BY <1>1 DEF QsInv
<1>4. L \in 1..n /\ s # << >> /\ top = s[L] /\ L = Len(s) /\ Powers(n) /\ top.lo \in 1..n /\ top.n \in 2..n
  BY <1>1
<1>5. Hi = top.lo + top.n - 1
  BY <1>1
<1> HIDE DEF s, t, top
<1>6. StackOf(n, t) /\ new \in Seq(Segments(n)) /\ Replaced(s, Len(s), new, Len(new), t) /\ Len(t) = (Len(s) - 1) + Len(new)
  <2>1. top = s[Len(s)] /\ t = SubSeq(s, 1, Len(s) - 1) \o new
    BY <1>2, <1>4
  <2> QED  BY <1>2, <1>3, <1>4, <2>1, StackNext, ZenonT(60)
<1>7. PICK N \in 0..2 : N = Len(new) /\ Smaller(top, new, N)
  BY <1>2 DEF Carved
<1> DEFINE w == SubSeq(t, L, (L - 1) + N)
<1>8. w = [i \in 1..N |-> t[(L - 1) + i]]
  <2> DEFINE e == (L - 1) + N
  <2>1. SubSeq(t, L, e) = [i \in 1..((1 + e) - L) |-> t[(i + L) - 1]]
    BY <1>1, <1>7
  <2>2. (1 + e) - L = N /\ \A i \in 1..N : (i + L) - 1 = (L - 1) + i
    BY <1>4, <1>7
  <2> HIDE DEF e
  <2> QED  BY <2>1, <2>2 DEF e
<1>9. DOMAIN w = 1..N /\ \A i \in 1..N : w[i] = new[i]
  <2>1. \A i \in 1..N : t[(L - 1) + i] = new[i]
    BY <1>4, <1>6, <1>7 DEF Replaced
  <2> HIDE DEF w
  <2> QED  BY <1>8, <2>1
<1>10. w = SubSeq(t, Len(s), Len(t))
  BY <1>4, <1>6, <1>7
<1> HIDE DEF w
<1>11. \A i \in 1..N : new[i].lo \in Nat /\ new[i].n \in Nat
  <2>1. \A i \in 1..N : new[i] \in Segments(n)
    BY <1>6, <1>7
  <2> QED  BY <2>1 DEF Segments
<1>12. ASSUME NEW i \in 1..N
       PROVE  new[i].n < top.n /\ new[i].lo >= top.lo /\ new[i].lo + new[i].n - 1 <= Hi
  <2>1. new[i].n < top.n /\ new[i].lo >= top.lo /\ new[i].lo + new[i].n <= top.lo + top.n
    BY <1>7 DEF Smaller
  <2>2. new[i].lo + new[i].n - 1 <= top.lo + top.n - 1
    <3>1. new[i].lo \in Nat /\ new[i].n \in Nat /\ top.lo \in Nat /\ top.n \in Nat
      BY <1>4, <1>11
    <3> QED  BY <2>1, <3>1, EndsLess
  <2> QED  BY <1>5, <2>1, <2>2
<1>13. ASSUME NEW i \in 1..N, NEW j \in 1..N, i # j, new[i].lo < new[j].lo
       PROVE  new[i].lo + new[i].n < new[j].lo
  <2>1. N = 2 /\ ((i = 1 /\ j = 2) \/ (i = 2 /\ j = 1))
    BY <1>7, <1>13
  <2>2. new[1].lo + new[1].n < new[2].lo \/ new[2].lo + new[2].n < new[1].lo
    BY <1>7, <2>1 DEF Smaller
  <2>3. new[i].lo + new[i].n < new[j].lo \/ new[j].lo + new[j].n < new[i].lo
    BY <2>1, <2>2
  <2>4. new[i].lo \in Nat /\ new[i].n \in Nat /\ new[j].lo \in Nat /\ new[j].n \in Nat
    BY <1>11
  <2> QED  BY <1>13, <2>3, <2>4, FirstApart
<1> QED  BY <1>9, <1>10, <1>12, <1>13 DEF QsNarrows, s, t, top

\* A short segment is replaced by nothing.
LEMMA InsertionReplaces ==
  ASSUME QsInv, QsInsertion
  PROVE  qsStack # << >> /\ QsReplaces(<< >>)
<1>0. /\ qsStack # << >> /\ qsArray' = InsertionSort(qsArray, Top.lo, Hi) /\ qsStack' = Below /\ qsInput' = qsInput
  BY DEF QsInsertion
<1>1. PICK n \in Nat, L \in 1..Len(qsInput) :
           /\ n = Len(qsInput) /\ L = Len(qsStack) /\ Top = qsStack[L] /\ qsArray \in Arrays(n) /\ Powers(n)
           /\ qsStack \in Seq(Segments(n)) /\ Stacked(n, qsStack, L) /\ Below = SubSeq(qsStack, 1, L - 1)
           /\ Top.lo \in 1..n /\ Top.n \in 2..n /\ Hi = Top.lo + Top.n - 1 /\ Hi \in 1..n
  BY <1>0, QsTopIs
<1> DEFINE a == qsArray
           b == qsArray'
           lo == Top.lo
           hi == Hi
           T == Segments(n)
           R == [lo : Nat, n : Nat]
<1>2. a \in Arrays(n) /\ lo \in 1..n /\ hi \in lo..n /\ b = InsertionSort(a, lo, hi)
  BY <1>0, <1>1
<1>d. lo = Top.lo /\ hi = Top.lo + Top.n - 1 /\ b = qsArray' /\ a = qsArray
  BY <1>1
<1>3. Below \in Seq(T) /\ Below \o << >> = Below
  <2> HIDE DEF T
  <2>1. Below \in Seq(T)
    BY <1>1 DEF T
  <2> QED  BY <2>1
<1>T. R = [lo : Nat, n : Nat]
  OBVIOUS
<1> HIDE DEF a, b, lo, hi, R
<1>4. b \in Arrays(n) /\ Shuffled(1..n, a, b, lo..hi) /\ InOrder(b, lo, hi)
  BY <1>1, <1>2, InsertionIs
<1>5. << >> \in Seq(R) /\ Len(<< >>) = 0
  BY NoneIs
<1>6. Carved(Top, << >>)
  <2>1. Smaller(Top, << >>, 0)
    BY DEF Smaller
  <2> QED  BY <1>5, <1>T, <2>1 DEF Carved
<1>7. LeftIn(b, lo, hi, << >>, Len(<< >>))
  <2> SUFFICES ASSUME NEW i \in lo..hi, NEW j \in lo..hi, i < j, b[i] > b[j] PROVE FALSE
    BY DEF LeftIn
  <2>1. b[i] <= b[j]
    BY <1>4 DEF InOrder
  <2>2. i \in 1..n /\ j \in 1..n
    BY <1>1, <1>2
  <2>3. b[i] \in Int /\ b[j] \in Int
    BY <1>4, <2>2 DEF Arrays
  <2> QED  BY <2>1, <2>3
<1>8. qsStack' = SubSeq(qsStack, 1, L - 1) \o << >>
  BY <1>0, <1>1, <1>3
<1>9. /\ Carved(qsStack[L], << >>)
      /\ qsArray' \in Arrays(n)
      /\ Shuffled(1..n, qsArray, qsArray', qsStack[L].lo..(qsStack[L].lo + qsStack[L].n - 1))
      /\ LeftIn(qsArray', qsStack[L].lo, qsStack[L].lo + qsStack[L].n - 1, << >>, Len(<< >>))
  BY <1>1, <1>4, <1>6, <1>7, <1>d
<1> QED  BY <1>0, <1>1, <1>8, <1>9 DEF QsReplaces

\* A long one is replaced by its parts.
LEMMA PartitionReplaces ==
  ASSUME QsInv, QsPartition
  PROVE  qsStack # << >> /\ \E new : QsReplaces(new)
<1> DEFINE mid == Top.lo + Top.n \div 2
           p   == Partition(MedianOf3(qsArray, Top.lo, mid, Hi), Top.lo + 1, Hi - 1, mid)
           new == Pushed2(Segment(Top.lo, p.k - Top.lo), Segment(p.k + 1, Hi - p.k))
<1>0. /\ qsStack # << >> /\ Top.n >= Threshold /\ qsArray' = Swap(p.a, p.mid, p.k) /\ qsStack' = Below \o new /\ qsInput' = qsInput
  BY ZenonT(60) DEF QsPartition
<1>1. PICK n \in Nat, L \in 1..Len(qsInput) :
           /\ n = Len(qsInput) /\ L = Len(qsStack) /\ Top = qsStack[L] /\ qsArray \in Arrays(n) /\ Powers(n)
           /\ qsStack \in Seq(Segments(n)) /\ Stacked(n, qsStack, L) /\ Below = SubSeq(qsStack, 1, L - 1)
           /\ Top.lo \in 1..n /\ Top.n \in 2..n /\ Hi = Top.lo + Top.n - 1 /\ Hi \in 1..n
  BY <1>0, QsTopIs, ZenonT(60)
<1> DEFINE a == qsArray
           b == qsArray'
           lo == Top.lo
           hi == Hi
           k == p.k
           x == k - lo
           y == hi - k
           m == Top.n
<1>m. n \in Nat /\ m \in 2..n /\ m >= Threshold /\ m = Top.n
  BY <1>0, <1>1
<1>3. a \in Arrays(n) /\ lo \in 1..n /\ hi \in 1..n /\ hi = lo + m - 1
  BY <1>1
<1>i. mid = lo + m \div 2
  OBVIOUS
<1> HIDE DEF m, lo, hi, mid
<1>2. m >= 3 /\ m \in Nat
  BY <1>m, QSortAssumption
<1>4. mid \in 1..n /\ lo < mid /\ mid < hi
  <2>1. m \div 2 \in Nat /\ 1 <= m \div 2 /\ m \div 2 <= m - 2
    BY <1>2
  <2> QED  BY <1>2, <1>3, <1>i, <2>1
<1> USE DEF m, lo, hi, mid
<1>5. p = Partition(MedianOf3(a, lo, mid, hi), lo + 1, hi - 1, mid) /\ b = Swap(p.a, p.mid, p.k)
  BY <1>0
<1>d. lo = Top.lo /\ hi = Top.lo + Top.n - 1 /\ b = qsArray' /\ a = qsArray
  BY <1>1
<1>n. new = Pushed2(Segment(lo, k - lo), Segment(k + 1, hi - k))
  OBVIOUS
<1>k. p.k = k
  OBVIOUS
<1> HIDE DEF mid, p, a, b, lo, hi, k, new, m
<1>6. b \in Arrays(n) /\ Shuffled(1..n, a, b, lo..hi) /\ k \in (lo + 1)..(hi - 1) /\ Parts(b, lo, k, hi)
  <2>1. b \in Arrays(n) /\ Shuffled(1..n, a, b, lo..hi) /\ p.k \in (lo + 1)..(hi - 1) /\ Parts(b, lo, p.k, hi)
    BY <1>m, <1>3, <1>4, <1>5, PivotIs
  <2> QED  BY <1>k, <2>1
<1>7. x \in Nat /\ y \in Nat /\ x >= 1 /\ y >= 1 /\ k = lo + x /\ Top.lo = lo /\ Top.n = x + 1 + y /\ lo \in Nat
  <2>1. k \in (lo + 1)..(hi - 1) /\ lo \in Nat /\ hi \in Nat /\ hi = lo + m - 1
    BY <1>3, <1>6
  <2>2. x \in Nat /\ y \in Nat /\ x >= 1 /\ y >= 1 /\ k = lo + x /\ m = x + 1 + y
    BY <1>2, <2>1
  <2> QED  BY <1>d, <1>m, <2>1, <2>2
<1>8. new = Pushed2(Segment(lo, x), Segment(k + 1, y))
  BY <1>n
<1> HIDE DEF x, y
<1>9. Carved(Top, new) /\ Pushes(new, lo, x) /\ Pushes(new, k + 1, y)
  BY <1>7, <1>8, PushedIs
<1>10. LeftIn(b, lo, hi, new, Len(new))
  <2> SUFFICES ASSUME NEW i \in lo..hi, NEW j \in lo..hi, i < j, b[i] > b[j] PROVE Held(new, Len(new), i, j)
    BY DEF LeftIn
  <2>1. i \in 1..n /\ j \in 1..n /\ b[i] \in Int /\ b[j] \in Int
    <3>1. i \in 1..n /\ j \in 1..n
      BY <1>1, <1>3
    <3> QED  BY <1>6, <3>1 DEF Arrays
  <2>2. ~ (i <= k /\ k <= j)
    <3> SUFFICES ASSUME i <= k, k <= j PROVE FALSE
      OBVIOUS
    <3>1. i \in lo..k /\ j \in k..hi
      BY <1>3, <1>6
    <3>2. b[i] <= b[j]
      BY <1>6, <3>1 DEF Parts
    <3> QED  BY <2>1, <3>2
  <2>3. CASE j < k
    <3>1. x > 1 /\ i \in lo..(lo + x - 1) /\ j \in lo..(lo + x - 1)
      BY <1>3, <1>6, <1>7, <2>3
    <3>2. PICK q \in 1..Len(new) : new[q] = [lo |-> lo, n |-> x]
      BY <1>9, <3>1 DEF Pushes
    <3>3. new[q].lo = lo /\ new[q].n = x
      BY <3>2
    <3> QED  BY <3>1, <3>3 DEF Held, Within
  <2>4. CASE ~ (j < k)
    <3>1. i > k
      BY <1>3, <1>6, <2>2, <2>4
    <3>2. y > 1 /\ i \in (k + 1)..(k + 1 + y - 1) /\ j \in (k + 1)..(k + 1 + y - 1)
      BY <1>3, <1>6, <1>7, <1>d, <3>1
    <3>3. PICK q \in 1..Len(new) : new[q] = [lo |-> k + 1, n |-> y]
      BY <1>9, <3>2 DEF Pushes
    <3>4. new[q].lo = k + 1 /\ new[q].n = y
      BY <3>3
    <3> QED  BY <3>2, <3>4 DEF Held, Within
  <2> QED  BY <2>3, <2>4
<1>11. qsStack' = SubSeq(qsStack, 1, L - 1) \o new
  BY <1>0, <1>1
<1>12. /\ Carved(qsStack[L], new)
       /\ qsArray' \in Arrays(n)
       /\ Shuffled(1..n, qsArray, qsArray', qsStack[L].lo..(qsStack[L].lo + qsStack[L].n - 1))
       /\ LeftIn(qsArray', qsStack[L].lo, qsStack[L].lo + qsStack[L].n - 1, new, Len(new))
  BY <1>1, <1>6, <1>9, <1>10, <1>d
<1>13. QsReplaces(new)
  BY <1>0, <1>1, <1>11, <1>12 DEF QsReplaces
<1> QED  BY <1>0, <1>13

\* Every step is one of these.
LEMMA QsNextReplaces ==
  ASSUME QsInv, QsNext
  PROVE  qsStack # << >> /\ \E new : QsReplaces(new)
BY InsertionReplaces, PartitionReplaces DEF QsNext

\* The loop of the quicksort keeps the invariant.
LEMMA QsSteps == QsInv /\ [QsNext]_qsVars => QsInv'
<1> SUFFICES ASSUME QsInv, [QsNext]_qsVars PROVE QsInv'
  OBVIOUS
<1>1. CASE QsNext
  <2>1. PICK new : QsReplaces(new)
    BY <1>1, QsNextReplaces
  <2>2. qsStack # << >>
    BY <1>1, QsNextReplaces
  <2> QED  BY <2>1, <2>2, QsStepIs
<1>2. CASE UNCHANGED qsVars
  <2>1. qsInput' = qsInput /\ qsArray' = qsArray /\ qsStack' = qsStack
    BY <1>2 DEF qsVars
  <2> QED  BY <2>1 DEF QsInv
<1> QED  BY <1>1, <1>2

\* Each step of it narrows the stack.
LEMMA QsNarrowing == QsInv /\ [QsNext]_qsVars => [qsStack # << >> => QsNarrows]_qsStack
<1> SUFFICES ASSUME QsInv, [QsNext]_qsVars, ~ UNCHANGED qsStack, qsStack # << >> PROVE QsNarrows
  OBVIOUS
<1>1. QsNext
  BY DEF qsVars
<1>2. PICK new : QsReplaces(new)
  BY <1>1, QsNextReplaces
<1> QED  BY <1>2, QsStepNarrows

\* What the properties say follows from the invariant.
LEMMA QsInvGives == QsInv => QsTypeOK /\ QsCorrect
<1> SUFFICES ASSUME QsInv PROVE QsTypeOK /\ QsCorrect
  OBVIOUS
<1> DEFINE n == Len(qsInput)
           a == qsArray
           s == qsStack
<1>1. n \in Nat /\ DOMAIN qsInput = 1..n /\ Powers(n)
  BY QsSizes DEF QsInv
<1>2. a \in Arrays(n) /\ Shuffled(1..n, qsInput, a, 1..n) /\ StackOf(n, s) /\ SortedBut(n, a, s, Len(s))
  BY DEF QsInv
<1> HIDE DEF n, a, s
<1>3. PICK L \in 0..n : s \in Seq(Segments(n)) /\ Len(s) = L /\ Stacked(n, s, L)
  BY <1>2 DEF StackOf
<1>4. a \in Seq(Int) /\ Len(a) = n /\ DOMAIN a = 1..n
  BY <1>1, <1>2 DEF Arrays
<1>5. DOMAIN s = 1..L
  BY <1>3
<1>6. QsTypeOK
  <2>1. Segments(n) = [lo : DOMAIN qsInput, n : 2..Len(qsInput)]
    BY <1>1 DEF Segments, n
  <2> QED  BY <1>3, <1>4, <2>1 DEF QsTypeOK, n, a, s
<1>7. QsPartitioned
  <2>1. ASSUME NEW i \in 1..n, NEW j \in 1..n, i < j, a[i] > a[j] PROVE Together(i, j)
    <3>1. PICK q \in 1..L : Within(s[q], i) /\ Within(s[q], j)
      BY <1>2, <1>3, <2>1 DEF SortedBut, Held
    <3> QED  BY <1>5, <3>1 DEF Together, Within, s
  <2>2. ASSUME NEW x
        PROVE  Cardinality({i \in 1..n : a[i] = x}) = Cardinality({i \in 1..n : qsInput[i] = x})
    <3> DEFINE D == 1..n
    <3>1. IsFiniteSet(D)
      BY <1>1, FS_Interval
    <3>2. Shuffled(D, qsInput, a, D)
      BY <1>2
    <3> HIDE DEF D
    <3>3. Cardinality({i \in D : a[i] = x}) = Cardinality({i \in D : qsInput[i] = x})
      BY <3>1, <3>2, ShuffledCount
    <3> QED  BY <3>3 DEF D
  <2>3. \A i, j \in 1..n : i < j /\ a[i] > a[j] => Together(i, j)
    BY <2>1
  <2>4. DOMAIN qsArray = 1..n /\ qsArray = a
    BY <1>4 DEF a
  <2> QED  BY <1>1, <2>2, <2>3, <2>4 DEF QsPartitioned
<1>8. QsStackShallow
  <2>1. CASE L = 0
    <3>1. s = << >>
      BY <1>3, <2>1
    <3>2. \A i \in 1..L : FALSE
      BY <2>1
    <3> QED  BY <1>5, <3>1, <3>2 DEF QsStackShallow, s
  <2>2. CASE L # 0
    <3>1. L \in 1..L /\ L - 1 \in 0..n /\ (L - 1) + 1 = L
      BY <1>1, <1>3, <2>2
    <3> DEFINE x == s[L].n
               y == 2^(L - 1)
    <3>2. x * y <= n
      BY <1>3, <3>1 DEF Stacked
    <3>3. x \in Nat /\ 2 <= x
      <4>1. s[L] \in Segments(n)
        BY <1>3, <3>1 DEF Stacked
      <4> QED  BY <4>1 DEF Segments
    <3>4. y \in Nat /\ 2^L = 2 * y
      BY <1>1, <3>1 DEF Powers
    <3> HIDE DEF x, y
    <3>5. 2 * y <= x * y /\ 2 * y \in Nat /\ x * y \in Nat
      BY <3>3, <3>4, TimesLess
    <3>6. 2^L <= 2 * n
      <4> DEFINE u == 2 * y
                 w == x * y
      <4>1. u \in Nat /\ w \in Nat /\ u <= w /\ w <= n
        BY <3>2, <3>5
      <4> HIDE DEF u, w
      <4>2. u <= 2 * n
        BY <1>1, <4>1
      <4> QED  BY <3>4, <4>2 DEF u
    <3>7. \A i \in 1..L : i < L => \A j \in (i + 1)..L : s[j].n <= s[i].n
      <4> TAKE i \in 1..L
      <4> HAVE i < L
      <4> TAKE j \in (i + 1)..L
      <4>1. i < j /\ j \in 1..L
        BY <1>3
      <4> QED  BY <1>3, <4>1 DEF Stacked
    <3> QED  BY <1>3, <1>5, <3>6, <3>7 DEF QsStackShallow, s, n
  <2> QED  BY <2>1, <2>2
<1> QED  BY <1>6, <1>7, <1>8 DEF QsCorrect

\* g_qsort_with_data (gqsort.c): elements in the wrong order lie in one segment of the stack,
\* so that an empty stack leaves a sorted array; none is lost or doubled; and the stack is never
\* deeper than the logarithm of the length, for which STACK_SIZE has room.
THEOREM QuickSortSorts == QsSpec => []QsCorrect
<1> QED  BY QsStarts, QsSteps, QsInvGives, PTL DEF QsSpec

\* The state of g_qsort_with_data: an array of the same length, and segments inside of it.
THEOREM QuickSortTyped == QsSpec => []QsTypeOK
<1> QED  BY QsStarts, QsSteps, QsInvGives, PTL DEF QsSpec

\* What g_qsort_with_data pushes for a segment is shorter than it, inside of it and apart: the
\* argument that its loop ends.
THEOREM QuickSortNarrows == QsSpec => QsShrinks
<1>1. QsInv /\ [QsNext]_qsVars => [qsStack # << >> => QsNarrows]_qsStack
  BY QsNarrowing
<1> QED  BY <1>1, QsStarts, QsSteps, PTL DEF QsSpec, QsShrinks, QsNarrows

=============================================================================
