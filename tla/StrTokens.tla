----------------------------- MODULE StrTokens -----------------------------
(***************************************************************************)
(* g_strsplit (eglib/gstr.c) by its result when max_tokens sets no limit:  *)
(* the pieces of a string between the occurrences of the delimiter, found  *)
(* greedily from the left.  The comment in its loop (gstr.c:237) wants the *)
(* empty piece behind a delimiter that ends the string to be a token; the  *)
(* loop keeps it only where the piece before it is not empty.  A string is *)
(* the sequence of its characters.                                         *)
(***************************************************************************)
EXTENDS Integers, Sequences

\* strncmp (string + i, delimiter, strlen (delimiter)) == 0
At(s, d, i) == i + Len(d) <= Len(s) /\ SubSeq(s, i + 1, i + Len(d)) = d

\* The first occurrence of d in s from i on, or the end of s.
Following(s, d, i) == CHOOSE e \in i..Len(s) :
                    /\ e = Len(s) \/ At(s, d, e)
                    /\ \A j \in i..(e - 1) : ~At(s, d, j)

\* All the pieces, one more than there are delimiters.
Segments(s, d) ==
  LET From[i \in 0..Len(s)] ==
        LET e == Following(s, d, i)
        IN  <<SubSeq(s, i + 1, e)>> \o IF At(s, d, e) THEN From[e + Len(d)] ELSE << >>
  IN  From[0]

\* The tokens the comment asks for.
Pieces(s, d) == IF s = << >> THEN << >> ELSE Segments(s, d)

\* The tokens there are.
Tokens(s, d) ==
  LET all == Pieces(s, d)
      m   == Len(all)
  IN  IF m >= 2 /\ all[m] = << >> /\ all[m - 1] = << >> THEN SubSeq(all, 1, m - 1) ELSE all

=============================================================================
