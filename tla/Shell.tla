-------------------------------- MODULE Shell --------------------------------
(***************************************************************************)
(* Command lines (eglib/gshell.c): split_cmdline, one action per branch of *)
(* its loop, g_shell_quote and g_shell_unquote as functions.  A character  *)
(* is its class: "x" plain, "s" white space, "q" and "d" the two quotes,   *)
(* "b" the backslash, "$" one that a backslash in double quotes escapes.   *)
(***************************************************************************)
EXTENDS Integers, Sequences, SequencesExt

CONSTANTS
  ArgLists,   \* words that are quoted and joined to a command line
  RawLines    \* other command lines

Chr == {"x", "s", "q", "d", "b", "$"}

ASSUME ShellAssumption == ArgLists \subseteq Seq(Seq(Chr)) /\ RawLines \subseteq Seq(Chr)

VARIABLES
  shMeant,    \* << >> or <<the words the line was made of>>, constant
  shLine,     \* cmdline, constant
  shAt,       \* characters read
  shWord,     \* str
  shQuote,    \* quote_char, or "none"
  shEscaped,  \* escaped
  shFresh,    \* fresh
  shArgs,     \* array, without its NULL
  shResult    \* "run" | "ok" | "error"

shVars == <<shMeant, shLine, shAt, shWord, shQuote, shEscaped, shFresh, shArgs, shResult>>

ShTypeOK ==
  /\ shAt \in 0..Len(shLine) /\ shWord \in Seq(Chr) /\ shQuote \in {"none", "q", "d"}
  /\ shEscaped \in BOOLEAN /\ shFresh \in BOOLEAN /\ shArgs \in Seq(Seq(Chr))
  /\ shResult \in {"run", "ok", "error"}

-----------------------------------------------------------------------------
(* g_shell_quote and g_shell_unquote *)

\* Mutant: a quote is put into the quotes as it is.
QuoteBare(s) == <<"q">> \o s \o <<"q">>

\* A quote ends the quotes, stands escaped, and begins new ones.
Quote(s) ==
  <<"q">> \o FlattenSeq([i \in DOMAIN s |-> IF s[i] = "q" THEN <<"q", "b", "q", "q">> ELSE <<s[i]>>])
          \o <<"q">>

\* g_shell_unquote: <<result>>, or << >> for NULL.
Unquote(s) ==
  LET n == Len(s)
      Add(r, w) == IF r = << >> THEN r ELSE <<w \o r[1]>>
      U[i \in 1..(n + 2), state \in {"out", "q", "d"}] ==
        IF i > n THEN IF state = "out" THEN <<<< >>>> ELSE << >>
        ELSE CASE state = "q" -> IF s[i] = "q" THEN U[i + 1, "out"] ELSE Add(U[i + 1, "q"], <<s[i]>>)
               [] state = "d" /\ s[i] = "b" ->
                    IF i = n THEN << >>
                    ELSE Add(U[i + 2, "d"], IF s[i + 1] \in {"$", "d", "b"} THEN <<s[i + 1]>> ELSE <<"b", s[i + 1]>>)
               [] state = "d" /\ s[i] # "b" -> IF s[i] = "d" THEN U[i + 1, "out"] ELSE Add(U[i + 1, "d"], <<s[i]>>)
               [] state = "out" /\ s[i] = "b" ->
                    IF i = n THEN <<<< >>>>
                    ELSE Add(U[i + 2, "out"], IF s[i + 1] \in {"$", "d", "b", "q"} THEN <<s[i + 1]>> ELSE <<"b", s[i + 1]>>)
               [] state = "out" /\ s[i] \in {"q", "d"} -> U[i + 1, s[i]]
               [] OTHER -> Add(U[i + 1, "out"], <<s[i]>>)
  IN  U[1, "out"]

-----------------------------------------------------------------------------
(* split_cmdline *)

C == shLine[shAt + 1]

Reading == shResult = "run" /\ shAt < Len(shLine)

Step == shAt' = shAt + 1 /\ UNCHANGED <<shMeant, shLine, shResult>>

AddWord == shArgs' = Append(shArgs, shWord) /\ shWord' = << >>

\* The character behind a backslash; outside of double quotes white space goes
\* with its backslash.
ShEscape ==
  /\ Reading /\ shEscaped
  /\ shWord' = CASE shQuote = "d" -> shWord \o (IF C \in {"$", "d", "b"} THEN << >> ELSE <<"b">>) \o <<C>>
                 [] shQuote # "d" -> IF C = "s" THEN shWord ELSE Append(shWord, C)
  /\ shEscaped' = FALSE
  /\ UNCHANGED <<shQuote, shFresh, shArgs>>
  /\ Step

\* Mutant: an empty word is one in quotes only at the end of the line.
ShUnquoteLate ==
  /\ Reading /\ ~shEscaped /\ shQuote # "none" /\ C = shQuote
  /\ shQuote' = "none"
  /\ IF shFresh /\ shAt + 1 = Len(shLine) THEN AddWord ELSE UNCHANGED <<shArgs, shWord>>
  /\ UNCHANGED <<shEscaped, shFresh>>
  /\ Step

\* The end of a quoted part; a word that began with the quotes and ends with them
\* is added, also when it is empty.
ShUnquote ==
  /\ Reading /\ ~shEscaped /\ shQuote # "none" /\ C = shQuote
  /\ shQuote' = "none"
  /\ IF shFresh /\ (shAt + 1 = Len(shLine) \/ shLine[shAt + 2] = "s") THEN AddWord
     ELSE UNCHANGED <<shArgs, shWord>>
  /\ UNCHANGED <<shEscaped, shFresh>>
  /\ Step

\* Mutant: the character behind a backslash is stepped over at once.
ShBackslashSkips ==
  /\ Reading /\ ~shEscaped /\ C = "b"
  /\ shAt' = shAt + 2
  /\ UNCHANGED <<shMeant, shLine, shQuote, shEscaped, shFresh, shArgs, shWord, shResult>>

\* A backslash is one in single quotes too.
ShBackslash ==
  /\ Reading /\ ~shEscaped /\ C = "b"
  /\ shEscaped' = TRUE
  /\ UNCHANGED <<shQuote, shFresh, shArgs, shWord>>
  /\ Step

ShCharacter ==
  /\ Reading /\ ~shEscaped
  /\ IF shQuote = "none" THEN C \in {"x", "$"} ELSE C \notin {shQuote, "b"}
  /\ shWord' = Append(shWord, C)
  /\ UNCHANGED <<shQuote, shFresh, shArgs, shEscaped>>
  /\ Step

ShSpace ==
  /\ Reading /\ ~shEscaped /\ shQuote = "none" /\ C = "s"
  /\ IF shWord # << >> THEN AddWord ELSE UNCHANGED <<shArgs, shWord>>
  /\ UNCHANGED <<shQuote, shFresh, shEscaped>>
  /\ Step

ShQuoteBegins ==
  /\ Reading /\ ~shEscaped /\ shQuote = "none" /\ C \in {"q", "d"}
  /\ shQuote' = C /\ shFresh' = (shWord = << >>)
  /\ UNCHANGED <<shArgs, shWord, shEscaped>>
  /\ Step

\* Mutant: quotes that are open are not looked at.
ShEndOpen ==
  /\ shResult = "run" /\ shAt = Len(shLine)
  /\ IF shEscaped THEN shResult' = "error" /\ UNCHANGED <<shArgs, shWord>>
     ELSE /\ IF shWord # << >> THEN AddWord ELSE UNCHANGED <<shArgs, shWord>>
          /\ shResult' = IF shArgs' = << >> THEN "error" ELSE "ok"
  /\ UNCHANGED <<shMeant, shLine, shAt, shQuote, shEscaped, shFresh>>

\* The end of the line, and g_shell_parse_argv's test for no words at all.
ShEnd ==
  /\ shResult = "run" /\ shAt = Len(shLine)
  /\ IF shEscaped \/ shQuote # "none" THEN shResult' = "error" /\ UNCHANGED <<shArgs, shWord>>
     ELSE /\ IF shWord # << >> THEN AddWord ELSE UNCHANGED <<shArgs, shWord>>
          /\ shResult' = IF shArgs' = << >> THEN "error" ELSE "ok"
  /\ UNCHANGED <<shMeant, shLine, shAt, shQuote, shEscaped, shFresh>>

\* The words of a list, quoted, with a space between them.
Joined1(words) == FlattenSeq([i \in DOMAIN words |-> (IF i = 1 THEN << >> ELSE <<"s">>) \o Quote(words[i])])

ShInit ==
  /\ \/ \E words \in ArgLists : shMeant = <<words>> /\ shLine = Joined1(words)
     \/ shMeant = << >> /\ shLine \in RawLines
  /\ shAt = 0 /\ shWord = << >> /\ shQuote = "none" /\ shEscaped = FALSE /\ shFresh = TRUE
  /\ shArgs = << >> /\ shResult = "run"

ShNext == ShEscape \/ ShUnquote \/ ShBackslash \/ ShCharacter \/ ShSpace \/ ShQuoteBegins \/ ShEnd

ShSpec == ShInit /\ [][ShNext]_shVars

-----------------------------------------------------------------------------
\* What g_shell_quote has quoted, g_shell_parse_argv gives back word for word, the
\* empty ones too, unless a backslash is in it, which a single quote does not protect.
ShWordsKept ==
  shMeant # << >> /\ shResult # "run" =>
    \/ shResult = "ok" /\ shArgs = shMeant[1]
    \/ shMeant[1] = << >>
    \/ \E i \in DOMAIN shMeant[1] : \E j \in DOMAIN shMeant[1][i] : shMeant[1][i][j] = "b"

\* g_shell_unquote undoes g_shell_quote for every string, backslashes included.
ShQuoteUndone ==
  shMeant # << >> /\ shAt = 0 => \A i \in DOMAIN shMeant[1] : Unquote(Quote(shMeant[1][i])) = <<shMeant[1][i]>>

\* Both readers of a line without white space outside of quotes agree on whether its
\* quotes are closed, and on the text when no backslash is in it.
NoBackslash == \A i \in DOMAIN shLine : shLine[i] # "b"
Spaceless   == \A i \in DOMAIN shLine : shLine[i] # "s"

ShReadersAgree ==
  shResult # "run" /\ NoBackslash /\ Spaceless /\ shLine # << >> =>
    /\ shResult = "error" <=> Unquote(shLine) = << >>
    /\ shResult = "ok" => shArgs = Unquote(shLine)

\* Quoting, unquoting and splitting undo each other.
ShCorrect == ShWordsKept /\ ShQuoteUndone /\ ShReadersAgree

=============================================================================
