------------------------------- MODULE Pattern -------------------------------
(***************************************************************************)
(* Glob patterns (eglib/gpattern.c): compile_pattern, one action per       *)
(* character, and match_string as a function.  A literal is the sequence   *)
(* of its characters.                                                      *)
(***************************************************************************)
EXTENDS Integers, Sequences, SequencesExt

CONSTANTS
  Letters,     \* characters other than * and ?
  Patterns,    \* sequences of Letters and "*" and "?"
  Subjects     \* the strings that are matched

ASSUME PatternAssumption ==
  /\ Letters \cap {"*", "?"} = {}
  /\ Patterns \subseteq Seq(Letters \cup {"*", "?"}) /\ Subjects \subseteq Seq(Letters)

VARIABLES
  ptPattern,   \* the argument, constant
  ptAt,        \* i: characters read
  ptLiteral,   \* str
  ptLast,      \* last: the kind of the last character, or of the last item
  ptItems      \* list: [type, str]

ptVars == <<ptPattern, ptAt, ptLiteral, ptLast, ptItems>>

Item(type, s) == [type |-> type, str |-> s]
Kinds == {"literal", "anychar", "anything", "anything_end", "invalid"}

PtTypeOK ==
  /\ ptAt \in 0..(Len(ptPattern) + 1) /\ ptLiteral \in Seq(Letters) /\ ptLast \in Kinds
  /\ ptItems \in Seq([type : Kinds \ {"invalid"}, str : Seq(Letters)])
  /\ \A i \in DOMAIN ptItems : ptItems[i].type = "literal" <=> ptItems[i].str # << >>

-----------------------------------------------------------------------------
Char == ptPattern[ptAt + 1]

\* Mutant: also when there are none.
FlushedAlways == Append(ptItems, Item("literal", ptLiteral))

\* The characters collected so far become an item.
Flushed == IF ptLiteral = << >> THEN ptItems ELSE Append(ptItems, Item("literal", ptLiteral))

PtLetter ==
  /\ ptAt < Len(ptPattern) /\ Char \in Letters
  /\ ptLiteral' = Append(ptLiteral, Char) /\ ptLast' = "literal" /\ ptAt' = ptAt + 1
  /\ UNCHANGED <<ptPattern, ptItems>>

\* Mutant: any wildcard behind a * is dropped with it.
PtWildGreedy ==
  /\ ptAt < Len(ptPattern) /\ Char \in {"*", "?"}
  /\ LET kind == IF Char = "*" THEN "anything" ELSE "anychar"
     IN  IF ptLast = "anything" THEN UNCHANGED <<ptItems, ptLast>>
         ELSE ptItems' = Append(Flushed, Item(kind, << >>)) /\ ptLast' = kind
  /\ ptLiteral' = << >> /\ ptAt' = ptAt + 1
  /\ UNCHANGED ptPattern

\* A wildcard; of several * in a row one is kept.
PtWild ==
  /\ ptAt < Len(ptPattern) /\ Char \in {"*", "?"}
  /\ LET kind == IF Char = "*" THEN "anything" ELSE "anychar"
     IN  IF ptLast = "anything" /\ Char = "*" THEN ptItems' = Flushed /\ UNCHANGED ptLast
         ELSE ptItems' = Append(Flushed, Item(kind, << >>)) /\ ptLast' = kind
  /\ ptLiteral' = << >> /\ ptAt' = ptAt + 1
  /\ UNCHANGED ptPattern

\* The end: a last * becomes MATCH_ANYTHING_END.
PtEnd ==
  /\ ptAt = Len(ptPattern)
  /\ ptItems' = IF ptLast = "anything" /\ ptLiteral = << >>
                THEN [ptItems EXCEPT ![Len(ptItems)].type = "anything_end"] ELSE Flushed
  /\ ptAt' = ptAt + 1
  /\ UNCHANGED <<ptPattern, ptLiteral, ptLast>>

PtInit == /\ ptPattern \in Patterns
          /\ ptAt = 0 /\ ptLiteral = << >> /\ ptLast = "invalid" /\ ptItems = << >>

PtNext == PtLetter \/ PtWild \/ PtEnd

PtSpec == PtInit /\ [][PtNext]_ptVars

-----------------------------------------------------------------------------
\* strncmp of a literal at place `at' of s
LiteralAt(l, s, at) == at + Len(l) <= Len(s) /\ SubSeq(s, at + 1, at + Len(l)) = l

\* Mutant: a string that has ended matches what is left of the pattern.
MatchLax(items, s) ==
  LET n == Len(items)
      M[i \in 1..(n + 1), at \in 0..Len(s)] ==
        IF i > n \/ at >= Len(s) THEN at >= Len(s)
        ELSE CASE items[i].type = "anything_end" -> TRUE
               [] items[i].type = "literal"  -> LiteralAt(items[i].str, s, at) /\ M[i + 1, at + Len(items[i].str)]
               [] items[i].type = "anychar"  -> M[i + 1, at + 1]
               [] items[i].type = "anything" -> \E j \in at..(Len(s) - 1) : M[i + 1, j]
  IN  M[1, 0]

\* Mutant: a * at the end wants a character even behind a literal.
MatchEager(items, s) ==
  LET n == Len(items)
      M[i \in 1..(n + 1), at \in 0..Len(s)] ==
        IF i > n \/ at >= Len(s) THEN i > n /\ at >= Len(s)
        ELSE CASE items[i].type = "anything_end" -> TRUE
               [] items[i].type = "literal"  -> LiteralAt(items[i].str, s, at) /\ M[i + 1, at + Len(items[i].str)]
               [] items[i].type = "anychar"  -> M[i + 1, at + 1]
               [] items[i].type = "anything" -> \E j \in at..(Len(s) - 1) : M[i + 1, j]
  IN  M[1, 0]

\* match_string from item i and place `at': the loop ends with the string, and then
\* the items must have ended too, but for a * at the end behind a literal.
Match(items, s) ==
  LET n == Len(items)
      M[i \in 1..(n + 1), at \in 0..Len(s)] ==
        IF i > n \/ at >= Len(s) THEN i > n /\ at >= Len(s)
        ELSE CASE items[i].type = "anything_end" -> TRUE
               [] items[i].type = "literal"  ->
                    /\ LiteralAt(items[i].str, s, at)
                    /\ \/ i < n /\ items[i + 1].type = "anything_end"
                       \/ M[i + 1, at + Len(items[i].str)]
               [] items[i].type = "anychar"  -> M[i + 1, at + 1]
               [] items[i].type = "anything" -> \E j \in at..(Len(s) - 1) : M[i + 1, j]
  IN  M[1, 0]

\* g_pattern_match_string
PatternMatch(s) == ptItems # << >> /\ Match(ptItems, s)

\* What a pattern means: * any characters, also none, and ? one.
Glob(p, s) ==
  LET G[i \in 0..Len(p), j \in 0..Len(s)] ==
        IF i = 0 THEN j = 0
        ELSE CASE p[i] = "*" -> G[i - 1, j] \/ (j > 0 /\ G[i, j - 1])
               [] p[i] = "?" -> j > 0 /\ G[i - 1, j - 1]
               [] OTHER      -> j > 0 /\ s[j] = p[i] /\ G[i - 1, j - 1]
  IN  G[Len(p), Len(s)]

Compiled == ptAt = Len(ptPattern) + 1

\* Nothing matches but what the pattern means, through the merging of * and the
\* early answers of MATCH_ANYTHING_END.
PtSound == Compiled => \A s \in Subjects : PatternMatch(s) => Glob(ptPattern, s)

\* What the pattern means does match, except where a * at the end would have to
\* stand for no character and no literal precedes it: the string has ended, and
\* match_string sees an item left.
EndsOpen ==
  /\ ptItems # << >> /\ ptItems[Len(ptItems)].type = "anything_end"
  /\ Len(ptItems) > 1 => ptItems[Len(ptItems) - 1].type # "literal"

PtComplete ==
  Compiled => \A s \in Subjects :
    Glob(ptPattern, s) /\ ~PatternMatch(s) =>
      \/ ptPattern = << >>
      \/ EndsOpen /\ \A x \in Letters : PatternMatch(Append(s, x))

\* A pattern matches what it means, but for a * at the end that stands for nothing.
PtCorrect == PtSound /\ PtComplete

=============================================================================
