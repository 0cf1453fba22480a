---------------------------- MODULE SqlFunctions -----------------------------
(***************************************************************************)
(* What sqlite3/extensionfunctions.c adds to SQL: aggregates that count    *)
(* their rows in a tree, and functions on strings.  They share no state.   *)
(***************************************************************************)
EXTENDS Integers, Sequences, SequencesExt, FiniteSetsExt

-----------------------------------------------------------------------------
(***************************************************************************)
(* mode, median and the quartiles of sqlite3/extensionfunctions.c: rows    *)
(* are counted in an unbalanced search tree, one action per row, and the   *)
(* answer is read from it in order.  A value is given in halves, so that   *)
(* an odd one stands for a double with a fraction; NoValue is the NULL of  *)
(* SQL.  The type of the first value decides for all of them.              *)
(***************************************************************************)

CONSTANTS
  RowSets,  \* sequences of values in halves, and NoValue
  NoValue,
  IntHalf   \* half of the values of an int: the int at the address of an i64

ASSUME AggregatesAssumption == IntHalf \in Nat \ {0} /\ NoValue \notin Int

Questions == {"mode", "lower_quartile", "median", "upper_quartile"}

VARIABLES
  agRows,    \* the rows of the query, constant
  agAsked,   \* the function, constant
  agAt,      \* rows stepped over
  agType,    \* is_double: "int" or "double", "unset" while there is no map
  agNodes,   \* nodes of the tree: <<[data, count, l, r], ...>>, the root first, 0 for no child
  agCount,   \* cnt
  agFreed,   \* allocations of the map that were freed: <<kind, node>>, in order
  agResult   \* << >> until finalized, then <<value>>: NoValue or [sum, mn], sum / mn in halves

agVars == <<agRows, agAsked, agAt, agType, agNodes, agCount, agFreed, agResult>>

AgTypeOK ==
  /\ agAt \in 0..Len(agRows) /\ agType \in {"unset", "int", "double"}
  /\ \A i \in DOMAIN agNodes : /\ agNodes[i].l \in 0..Len(agNodes) /\ agNodes[i].r \in 0..Len(agNodes)
                               /\ agNodes[i].count \in 1..agCount
  /\ agCount \in 0..agAt /\ agType = "unset" <=> agNodes = << >>

-----------------------------------------------------------------------------
(* The tree *)

New(e) == [data |-> e, count |-> 1, l |-> 0, r |-> 0]

\* Mutant: equal values go to the right.
InsertedEqual(nodes, e) ==
  LET n == Len(nodes) + 1
      Place[i \in 1..Len(nodes)] ==
        IF nodes[i].data > e THEN IF nodes[i].l = 0 THEN <<i, "l">> ELSE Place[nodes[i].l]
        ELSE IF nodes[i].r = 0 THEN <<i, "r">> ELSE Place[nodes[i].r]
  IN  IF nodes = << >> THEN <<New(e)>>
      ELSE LET p == Place[1] IN Append([nodes EXCEPT ![p[1]][p[2]] = n], New(e))

\* map_insert: down the tree to an equal node, which counts, or to an empty place.
Inserted(nodes, e) ==
  LET n == Len(nodes) + 1
      Place[i \in 1..Len(nodes)] ==
        CASE nodes[i].data = e -> <<i, "equal">>
          [] nodes[i].data > e -> IF nodes[i].l = 0 THEN <<i, "l">> ELSE Place[nodes[i].l]
          [] nodes[i].data < e -> IF nodes[i].r = 0 THEN <<i, "r">> ELSE Place[nodes[i].r]
  IN  IF nodes = << >> THEN <<New(e)>>
      ELSE LET p == Place[1]
           IN  IF p[2] = "equal" THEN [nodes EXCEPT ![p[1]].count = @ + 1]
               ELSE Append([nodes EXCEPT ![p[1]][p[2]] = n], New(e))

\* map_iterate: the nodes in the order of a walk from left to right.
Walk(nodes) ==
  LET W[i \in 0..Len(nodes)] == IF i = 0 THEN << >> ELSE W[nodes[i].l] \o <<i>> \o W[nodes[i].r]
  IN  IF nodes = << >> THEN << >> ELSE W[1]

\* map_destroy: data and node of each, the data first, the node after its subtrees.
Destroyed(nodes) ==
  LET D[i \in 0..Len(nodes)] ==
        IF i = 0 THEN << >> ELSE <<<<"data", i>>>> \o D[nodes[i].l] \o D[nodes[i].r] \o <<<<"node", i>>>>
  IN  IF nodes = << >> THEN << >> ELSE D[1]

-----------------------------------------------------------------------------
(* The aggregate *)

\* Towards zero, as sqlite3_value_int64 makes an integer of a double; in halves.
Truncated(v) == IF v % 2 = 0 THEN v ELSE IF v > 0 THEN v - 1 ELSE v + 1

\* What *(int*) reads where an i64 was stored, on a machine with the low bytes first.
AsInt(v) == 2 * ((((v \div 2) + IntHalf) % (2 * IntHalf)) - IntHalf)

\* The value of a node as the iterators read it.
Read(e) == IF agType = "double" THEN e ELSE AsInt(e)

AgStep ==
  /\ agResult = << >> /\ agAt < Len(agRows)
  /\ agAt' = agAt + 1
  /\ LET v == agRows[agAt + 1]
         t == IF agType # "unset" THEN agType ELSE IF v % 2 = 0 THEN "int" ELSE "double"
     IN  IF v = NoValue THEN UNCHANGED <<agType, agCount, agNodes>>
         ELSE /\ agType' = t /\ agCount' = agCount + 1
              /\ agNodes' = Inserted(agNodes, IF t = "double" THEN v ELSE Truncated(v))
  /\ UNCHANGED <<agRows, agAsked, agFreed, agResult>>

\* modeIterate: the largest count, the first value that has it, and how many have.
Mode ==
  LET M(s, i) == LET c == agNodes[i].count
                 IN  IF s.mcnt = c THEN [s EXCEPT !.mn = @ + 1]
                     ELSE IF s.mcnt < c THEN [mcnt |-> c, mn |-> 1, sum |-> Read(agNodes[i].data)] ELSE s
  IN  FoldLeft(M, [mcnt |-> 0, mn |-> 0, sum |-> 0], Walk(agNodes))

\* Quarters of the count that are smaller than the asked percentile.
Quarters == CASE agAsked = "lower_quartile" -> 1
              [] agAsked = "median" -> 2
              [] agAsked = "upper_quartile" -> 3

\* Mutant: the percentile wants more than its share below it.
PercentileAbove ==
  LET M(s, i) ==
        LET c  == agNodes[i].count
            il == s.mcnt + c
            ir == agCount - s.mcnt
            over == 4 * il > Quarters * agCount
            fits == 4 * ir >= (4 - Quarters) * agCount
        IN  IF s.done THEN s
            ELSE IF over /\ fits THEN [s EXCEPT !.mn = @ + 1, !.sum = @ + Read(agNodes[i].data), !.mcnt = il]
            ELSE [s EXCEPT !.done = over, !.mcnt = il]
  IN  FoldLeft(M, [mcnt |-> 0, mn |-> 0, sum |-> 0, done |-> FALSE], Walk(agNodes))

\* medianIterate: the sum of the values that have enough rows on both sides.
Percentile ==
  LET M(s, i) ==
        LET c  == agNodes[i].count
            il == s.mcnt + c
            ir == agCount - s.mcnt
            enough == 4 * il >= Quarters * agCount
            fits   == 4 * ir >= (4 - Quarters) * agCount
        IN  IF s.done THEN s
            ELSE IF enough /\ fits THEN [s EXCEPT !.mn = @ + 1, !.sum = @ + Read(agNodes[i].data), !.mcnt = il]
            ELSE [s EXCEPT !.done = enough, !.mcnt = il]
  IN  FoldLeft(M, [mcnt |-> 0, mn |-> 0, sum |-> 0, done |-> FALSE], Walk(agNodes))

\* The finalizers: NULL when no row had a value, or when two values are the mode.
AgFinalize ==
  /\ agResult = << >> /\ agAt = Len(agRows)
  /\ LET s == IF agAsked = "mode" THEN Mode ELSE Percentile
     IN  agResult' = IF agNodes = << >> \/ (agAsked = "mode" /\ s.mn # 1) THEN <<NoValue>>
                     ELSE <<[sum |-> s.sum, mn |-> s.mn]>>
  /\ agFreed' = Destroyed(agNodes)
  /\ UNCHANGED <<agRows, agAsked, agAt, agType, agNodes, agCount>>

AgInit ==
  /\ agRows \in RowSets /\ agAsked \in Questions
  /\ agAt = 0 /\ agType = "unset" /\ agNodes = << >> /\ agCount = 0 /\ agFreed = << >> /\ agResult = << >>

AgNext == AgStep \/ AgFinalize

AgSpec == AgInit /\ [][AgNext]_agVars

-----------------------------------------------------------------------------
\* The tree is in order and counts every row that has a value, whatever the order
\* they came in.
AgTreeOrdered ==
  LET w == Walk(agNodes)
  IN  /\ \A i, j \in DOMAIN w : i < j => agNodes[w[i]].data < agNodes[w[j]].data
      /\ Len(w) = Len(agNodes)
      /\ FoldLeft(LAMBDA a, node : a + node.count, 0, agNodes) = agCount

\* What a percentile is: of the values in order, the one at that place or the middle
\* of the two around it; what a mode is: the one value that is there most often.
Values == LET V == SelectSeq(agRows, LAMBDA v : v # NoValue)
              d == V # << >> /\ V[1] % 2 # 0
          IN  SortSeq([i \in DOMAIN V |-> IF d THEN V[i] ELSE Truncated(V[i])], LAMBDA a, b : a < b)

Times(v) == Cardinality({i \in DOMAIN Values : Values[i] = v})

TwicePercentile ==
  LET n == Len(Values)
      k == Quarters * n
  IN  IF k % 4 = 0 THEN Values[k \div 4] + Values[k \div 4 + 1] ELSE 2 * Values[k \div 4 + 1]

\* The answers are those of the definitions for values that an int can hold
\* (extensionfunctions.c:1477 and :1526 read an int where an i64 is stored).
AgAnswers ==
  agResult # << >> /\ (\A i \in DOMAIN Values : Values[i] % 2 = 0 => AsInt(Values[i]) = Values[i]) =>
    IF Values = << >> THEN agResult[1] = NoValue
    ELSE IF agAsked = "mode"
    THEN IF agResult[1] = NoValue THEN \A v \in ToSet(Values) : \E u \in ToSet(Values) \ {v} : Times(u) >= Times(v)
         ELSE \A v \in ToSet(Values) \ {agResult[1].sum} : Times(v) < Times(agResult[1].sum)
    ELSE agResult[1].mn \in 1..2 /\ 2 * agResult[1].sum = TwicePercentile * agResult[1].mn

\* Every node and every value of the tree is freed once.
AgFreesOnce ==
  agResult # << >> =>
    /\ Len(agFreed) = 2 * Len(agNodes)
    /\ \A i \in DOMAIN agNodes : <<"data", i>> \in ToSet(agFreed) /\ <<"node", i>> \in ToSet(agFreed)

AgCorrect == AgTreeOrdered /\ AgAnswers /\ AgFreesOnce

-----------------------------------------------------------------------------
(***************************************************************************)
(* The string functions of sqlite3/extensionfunctions.c, over the bytes of *)
(* well-formed UTF-8.  A byte is "a" or "_" (a letter and the blank, one   *)
(* byte each), "E" (the first byte of a character of two), "~" or "^" (its *)
(* second byte).  Positions count from 1; past the string is its NUL.      *)
(* Every behaviour is one call, on arguments that are not NULL.            *)
(***************************************************************************)

CONSTANTS
  SqStrings,  \* strings: sequences of characters
  SqNumbers   \* the numbers they are called with

SqChars == {<<"a">>, <<"_">>, <<"E", "~">>, <<"E", "^">>}
Later   == {"~", "^"}

ASSUME SqlTextAssumption == SqStrings \subseteq Seq(SqChars) /\ SqNumbers \subseteq Int

SqFunctions == {"replicate", "padl", "padr", "padc", "strfilter", "charindex", "leftstr", "rightstr", "reverse"}

VARIABLES
  sqCall,   \* [fn, s, t, n]: the function and its arguments as characters, constant
  sqResult  \* << >> until called, then <<value>>: bytes, a number or "domain error"

sqVars == <<sqCall, sqResult>>

-----------------------------------------------------------------------------
(* sqliteNextChar, sqliteCharVal and the counting of characters *)

\* sqliteNextChar: the next byte that does not continue a character; not from the NUL.
NextChar(z, p) == Min({q \in (p + 1)..(Len(z) + 1) : q > Len(z) \/ z[q] \notin Later})

CharVal(z, p) == IF p > Len(z) THEN "nul" ELSE IF z[p] = "E" THEN SubSeq(z, p, p + 1) ELSE <<z[p]>>

\* The position n characters after p, or that of the NUL.
Skip(z, p, n) ==
  LET S[q \in 1..(Len(z) + 1), i \in 0..n] == IF i = 0 \/ q > Len(z) THEN q ELSE S[NextChar(z, q), i - 1]
  IN  S[p, n]

CharLen(z) == Cardinality({p \in DOMAIN z : z[p] \notin Later})

Larger(i, j) == IF i > j THEN i ELSE j

Blanks(n) == [i \in 1..n |-> "_"]

-----------------------------------------------------------------------------
(* The functions *)

Replicate(z, n) == IF n < 0 THEN "domain error" ELSE FlattenSeq([i \in 1..n |-> z])

\* The blanks of padl and padr: none when the string is as long as asked.
Missing(z, n) == Larger(0, n - CharLen(z))

PadL(z, n) == IF n < 0 THEN "domain error" ELSE Blanks(Missing(z, n)) \o z
PadR(z, n) == IF n < 0 THEN "domain error" ELSE z \o Blanks(Missing(z, n))

\* Mutant: the length is that in bytes.
PadCBytes(z, n) ==
  LET missing == Larger(0, n - Len(z))
  IN  IF n < 0 THEN "domain error" ELSE Blanks(missing \div 2) \o z \o Blanks(missing - missing \div 2)

\* The odd blank goes to the right.
PadC(z, n) ==
  LET missing == Missing(z, n)
  IN  IF n < 0 THEN "domain error" ELSE Blanks(missing \div 2) \o z \o Blanks(missing - missing \div 2)

\* For every character of z the loop over valid; what is copied is the one found there.
StrFilter(z, valid) ==
  LET F[p \in 1..(Len(z) + 1)] ==
        IF p > Len(z) THEN << >>
        ELSE LET found == {q \in DOMAIN valid : valid[q] \notin Later /\ CharVal(valid, q) = CharVal(z, p)}
                 kept  == IF found = {} THEN << >>
                          ELSE SubSeq(valid, Min(found), NextChar(valid, Min(found)) - 1)
             IN  kept \o F[NextChar(z, p)]
  IN  F[1]

\* charindex with _substr: from the character n on, counted from 1; 0 for none.  The
\* comparison of a match goes on to the NUL of w.
CharIndex(w, z, n) ==
  LET s     == Larger(0, n - 1)
      first == Skip(z, 1, s)
      Matches[i \in 1..(Len(w) + 1), p \in 1..(Len(z) + 1)] ==
        i > Len(w) \/ (CharVal(w, i) = CharVal(z, p) /\ Matches[NextChar(w, i), NextChar(z, p)])
      Found[p \in 1..(Len(z) + 1), c \in 0..Len(z)] ==
        IF p > Len(z) THEN -1 ELSE IF Matches[1, p] THEN c ELSE Found[NextChar(z, p), c + 1]
      c == IF w = << >> THEN -1 ELSE Found[first, 0]
  IN  IF c < 0 THEN 0 ELSE c + s + 1

LeftStr(z, n) == SubSeq(z, 1, Skip(z, 1, Larger(0, n)) - 1)

\* For a number below zero the code steps past the NUL; the calls leave that out.
RightStr(z, n) == SubSeq(z, Skip(z, 1, Larger(0, CharLen(z) - n)), Len(z))

\* Mutant: the bytes are turned round.
ReverseBytes(z) == Reverse(z)

\* Character by character from the front to the back, the bytes of each in order.
ReverseStr(z) ==
  LET R[p \in 1..(Len(z) + 1)] == IF p > Len(z) THEN << >> ELSE R[NextChar(z, p)] \o SubSeq(z, p, NextChar(z, p) - 1)
  IN  R[1]

InBytes(chars) == FlattenSeq(chars)

SqCalled ==
  /\ sqResult = << >>
  /\ LET z == InBytes(sqCall.s)
         t == InBytes(sqCall.t)
         n == sqCall.n
     IN  sqResult' = << CASE sqCall.fn = "replicate" -> Replicate(z, n)
                          [] sqCall.fn = "padl" -> PadL(z, n)
                          [] sqCall.fn = "padr" -> PadR(z, n)
                          [] sqCall.fn = "padc" -> PadC(z, n)
                          [] sqCall.fn = "strfilter" -> StrFilter(z, t)
                          [] sqCall.fn = "charindex" -> CharIndex(t, z, n)
                          [] sqCall.fn = "leftstr" -> LeftStr(z, n)
                          [] sqCall.fn = "rightstr" -> RightStr(z, n)
                          [] sqCall.fn = "reverse" -> ReverseStr(z) >>
  /\ sqCall' = sqCall

SqInit ==
  /\ sqCall \in [fn : SqFunctions, s : SqStrings, t : SqStrings, n : SqNumbers]
  /\ sqCall.fn \notin {"strfilter", "charindex"} => sqCall.t = << >>
  /\ sqCall.fn = "rightstr" => sqCall.n >= 0
  /\ sqCall.fn \in {"strfilter", "reverse"} => sqCall.n = 0
  /\ sqResult = << >>

SqNext == SqCalled

SqSpec == SqInit /\ [][SqNext]_sqVars

-----------------------------------------------------------------------------
\* The character sequences the functions mean.
IsAt(w, s, i) == i + Len(w) - 1 <= Len(s) /\ SubSeq(s, i, i + Len(w) - 1) = w

Padded(s, i, j) == [k \in 1..i |-> <<"_">>] \o s \o [k \in 1..j |-> <<"_">>]

Lesser(i, j) == IF i < j THEN i ELSE j

SqMeant ==
  LET s == sqCall.s  t == sqCall.t  n == sqCall.n
      gap == Larger(0, n - Len(s))
  IN  CASE sqCall.fn \in {"replicate", "padl", "padr", "padc"} /\ n < 0 -> "domain error"
        [] sqCall.fn = "replicate" /\ n >= 0 ->
             InBytes([k \in 1..(n * Len(s)) |-> s[((k - 1) % Len(s)) + 1]])
        [] sqCall.fn = "padl" /\ n >= 0 -> InBytes(Padded(s, gap, 0))
        [] sqCall.fn = "padr" /\ n >= 0 -> InBytes(Padded(s, 0, gap))
        [] sqCall.fn = "padc" /\ n >= 0 -> InBytes(Padded(s, gap \div 2, gap - gap \div 2))
        [] sqCall.fn = "strfilter" -> InBytes(SelectSeq(s, LAMBDA c : c \in ToSet(t)))
        [] sqCall.fn = "charindex" ->
             LET at == {i \in Larger(1, n)..Len(s) : IsAt(t, s, i)} IN IF t = << >> \/ at = {} THEN 0 ELSE Min(at)
        [] sqCall.fn = "leftstr" -> InBytes(SubSeq(s, 1, Lesser(Larger(0, n), Len(s))))
        [] sqCall.fn = "rightstr" -> InBytes(SubSeq(s, Len(s) - Lesser(n, Len(s)) + 1, Len(s)))
        [] sqCall.fn = "reverse" -> InBytes(Reverse(s))

\* On its bytes each function does what its comment says of characters: no character
\* is torn, and the lengths and places are counted in characters.
SqCorrect == sqResult # << >> => sqResult[1] = SqMeant

=============================================================================
