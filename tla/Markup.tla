------------------------------- MODULE Markup -------------------------------
(***************************************************************************)
(* The markup reader (eglib/gmarkup.c): one action per state of the        *)
(* parser, that is per turn of the loop over the characters.  A document   *)
(* is a sequence of pieces, given to g_markup_parse_context_parse whole or *)
(* cut in two; handlers may report an error, which fails the parse.  A     *)
(* character is its class: two letters, "1" a digit, "_" white space, the  *)
(* others themselves, "q" the double quote.                                *)
(***************************************************************************)
EXTENDS Integers, Sequences, SequencesExt, FiniteSetsExt

CONSTANTS
  Documents,  \* sequences of pieces [kind, src, name, attrs]
  CutPieces   \* documents of at most as many pieces are cut everywhere

Letter == {"a", "b"}
AlNum  == Letter \cup {"1"}
MkChr  == AlNum \cup {".", "_", "<", ">", "/", "!", "-", "?", "=", "q"}

PieceKinds == {"start", "empty", "close", "comment", "declaration", "text", "raw"}

ASSUME MarkupAssumption ==
  /\ CutPieces \in Nat
  /\ \A d \in Documents : \A i \in DOMAIN d : d[i].kind \in PieceKinds /\ d[i].src \in Seq(MkChr) \ {<< >>}

VARIABLES
  mkPieces,   \* the document, constant
  mkCut,      \* characters of the first chunk, constant
  mkText,     \* the chunk that is parsed
  mkRest,     \* what follows it
  mkAt,       \* p, from 1
  mkState,    \* context->state
  mkLevel,    \* context->level, the innermost element first: <<its number, its name>>
  mkChars,    \* context->text, << >> for NULL too: it is made for its first character
  mkEvents,   \* the calls of the handlers
  mkMade,     \* names allocated for elements, numbered from 1
  mkFreed,    \* the numbers of the freed names, in order
  mkBroken,   \* the handler that reported an error, or "none"
  mkResult    \* "run" | "ok" | "failed" | "freed"

mkDoc    == <<mkPieces, mkCut>>
mkNames  == <<mkLevel, mkMade, mkFreed>>
mkVars   == <<mkDoc, mkText, mkRest, mkAt, mkState, mkNames, mkChars, mkEvents, mkBroken, mkResult>>

Source == FlattenSeq([i \in DOMAIN mkPieces |-> mkPieces[i].src])

MkDeclared == mkState = "SKIP_XML_DECLARATION"

\* The position stays in the chunk or behind its end, and a context has names only
\* while it is neither failed nor freed.
MkTypeOK ==
  /\ mkAt \in 1..(Len(mkText) + 2)
  /\ mkState \in {"START", "START_ELEMENT", "TEXT", "FLUSH_TEXT", "CLOSING_ELEMENT", "COMMENT",
                  "SKIP_XML_DECLARATION"}
  /\ mkLevel \in Seq((1..mkMade) \X Seq(MkChr)) /\ mkChars \in Seq(MkChr)
  /\ mkFreed \in Seq(1..mkMade)
  /\ mkResult \in {"run", "ok", "failed", "freed"}
  /\ mkResult \in {"failed", "freed"} => mkLevel = << >> /\ mkChars = << >>

-----------------------------------------------------------------------------
(* Reading an element: end is the position behind the chunk *)

end == Len(mkText) + 1

Sees(p, s) == p < end /\ mkText[p] = s

\* The first position from p on whose character is not in S.
PastAll(p, S) == Min({q \in p..end : q = end \/ mkText[q] \notin S})

Failed == [at |-> end, stop |-> FALSE, attrs |-> << >>]

\* parse_attributes, with parse_name and parse_value, from p on.
Attributes ==
  LET A[p \in 1..(Len(mkText) + 1)] ==
        LET q     == PastAll(p, {"_"})
            named == PastAll(q, AlNum)
            eq    == PastAll(named, {"_"})
            quote == IF Sees(eq, "=") THEN PastAll(eq + 1, {"_"}) ELSE end
            close == IF Sees(quote, "q") THEN PastAll(quote + 1, MkChr \ {"q"}) ELSE end
        IN  CASE Sees(q, ">") -> [at |-> q, stop |-> FALSE, attrs |-> << >>]
              [] Sees(q, "?") /\ Sees(q + 1, ">") /\ MkDeclared -> [at |-> q + 1, stop |-> FALSE, attrs |-> << >>]
              [] Sees(q, "/") /\ Sees(q + 1, ">") -> [at |-> q + 1, stop |-> TRUE, attrs |-> << >>]
              [] OTHER ->
                   IF close = end \/ A[close + 1] = Failed THEN Failed
                   ELSE [A[close + 1] EXCEPT
                           !.attrs = <<<<SubSeq(mkText, q, named - 1), SubSeq(mkText, quote + 1, close - 1)>>>> \o @]
  IN  A

\* The name with the white space before it, which the code copies too, and what
\* follows; Failed when the chunk ends first or the name does not begin with a letter.
Element(p) ==
  LET first == PastAll(p, {"_"})
      past  == PastAll(first + 1, AlNum \cup {"."})
      rest  == PastAll(past, {"_"})
      a     == Attributes[rest]
  IN  IF first = end \/ mkText[first] \notin Letter \/ rest = end \/ a = Failed
      THEN [ok |-> FALSE, name |-> << >>, rest |-> Failed]
      ELSE [ok |-> TRUE, name |-> SubSeq(mkText, p, past - 1), rest |-> a]

-----------------------------------------------------------------------------
Reads(state) == mkResult = "run" /\ mkState = state /\ mkAt < end

Stays == UNCHANGED <<mkDoc, mkText, mkRest>>
Runs  == mkBroken' = mkBroken /\ mkResult' = mkResult
Tell(events) == mkEvents' = mkEvents \o events

Numbers(level) == [i \in DOMAIN level |-> level[i][1]]

\* The label `fail': the error handler, and destroy_parse_state; the state stays.
Fail(by) ==
  /\ mkResult' = "failed" /\ mkBroken' = by
  /\ mkLevel' = << >> /\ mkChars' = << >>
  /\ UNCHANGED <<mkAt, mkState>>

MkStart ==
  /\ Reads("START")
  /\ CASE Sees(mkAt, "_") -> mkAt' = mkAt + 1 /\ UNCHANGED <<mkState, mkNames, mkChars, mkEvents>> /\ Runs
       [] Sees(mkAt, "<") ->
            /\ LET decl == Sees(mkAt + 1, "?")
               IN  /\ mkState' = IF decl THEN "SKIP_XML_DECLARATION" ELSE "START_ELEMENT"
                   /\ mkAt' = IF decl THEN mkAt + 2 ELSE mkAt + 1
            /\ UNCHANGED <<mkNames, mkChars, mkEvents>> /\ Runs
       [] OTHER -> Fail("none") /\ Tell(<<<<"error">>>>) /\ UNCHANGED <<mkMade, mkFreed>>
  /\ Stays

IsComment(p) == Sees(p, "!") /\ Sees(p + 1, "-") /\ Sees(p + 2, "-")

\* "!--" behind the white space opens a comment.
MkComment ==
  /\ Reads("START_ELEMENT") \/ Reads("SKIP_XML_DECLARATION")
  /\ LET first == PastAll(mkAt, {"_"})
     IN  IsComment(first) /\ mkAt' = first + 3
  /\ mkState' = "COMMENT"
  /\ UNCHANGED <<mkNames, mkChars, mkEvents>> /\ Runs /\ Stays

MkBadElement ==
  /\ Reads("START_ELEMENT") \/ Reads("SKIP_XML_DECLARATION")
  /\ ~IsComment(PastAll(mkAt, {"_"})) /\ ~Element(mkAt).ok
  /\ Fail("none") /\ Tell(<<<<"error">>>>)
  /\ mkFreed' = mkFreed \o Numbers(mkLevel) /\ mkMade' = mkMade
  /\ Stays

\* Mutant: a start tag that ends in a slash leaves its name on the level.
MkElementKept ==
  /\ Reads("START_ELEMENT") \/ Reads("SKIP_XML_DECLARATION")
  /\ ~IsComment(PastAll(mkAt, {"_"})) /\ Element(mkAt).ok
  /\ LET e == Element(mkAt)
         n == mkMade + 1
         Begin == IF MkDeclared THEN << >> ELSE <<<<"start", e.name, e.rest.attrs>>>>
         Close == IF e.rest.stop /\ ~MkDeclared THEN <<<<"end", e.name>>>> ELSE << >>
     IN  /\ mkMade' = n /\ mkState' = "TEXT" /\ mkAt' = e.rest.at + 1 /\ mkChars' = mkChars
         /\ Tell(Begin \o Close)
         /\ mkLevel' = <<<<n, e.name>>>> \o mkLevel /\ mkFreed' = mkFreed
         /\ Runs
  /\ Stays

\* The start tag is told and its name pushed, or told to be at its end and freed;
\* the declaration is pushed too and never told.  A handler that reports an error
\* fails the parse; the name is freed by then.
MkElement ==
  /\ Reads("START_ELEMENT") \/ Reads("SKIP_XML_DECLARATION")
  /\ ~IsComment(PastAll(mkAt, {"_"})) /\ Element(mkAt).ok
  /\ LET e == Element(mkAt)
         n == mkMade + 1
         Begin == IF MkDeclared THEN << >> ELSE <<<<"start", e.name, e.rest.attrs>>>>
         Close == IF e.rest.stop /\ ~MkDeclared THEN <<<<"end", e.name>>>> ELSE << >>
     IN  /\ mkMade' = n
         /\ \/ /\ mkState' = "TEXT" /\ mkAt' = e.rest.at + 1 /\ mkChars' = mkChars
               /\ Tell(Begin \o Close)
               /\ IF e.rest.stop THEN mkFreed' = Append(mkFreed, n) /\ mkLevel' = mkLevel
                  ELSE mkLevel' = <<<<n, e.name>>>> \o mkLevel /\ mkFreed' = mkFreed
               /\ Runs
            \/ \E told \in {Begin, Begin \o Close} :
                 /\ told # << >> /\ Fail(told[Len(told)][1])
                 /\ Tell(Append(told, <<"error">>))
                 /\ mkFreed' = Append(mkFreed, n) \o Numbers(mkLevel)
  /\ Stays

MkCharacter ==
  /\ Reads("TEXT")
  /\ mkAt' = mkAt + 1
  /\ IF Sees(mkAt, "<") THEN mkState' = "FLUSH_TEXT" /\ mkChars' = mkChars
     ELSE mkChars' = Append(mkChars, mkText[mkAt]) /\ mkState' = mkState
  /\ UNCHANGED <<mkNames, mkEvents>> /\ Runs /\ Stays

MkCommented ==
  /\ Reads("COMMENT")
  /\ LET over == Sees(mkAt, "-") /\ Sees(mkAt + 1, "-") /\ Sees(mkAt + 2, ">")
     IN  mkAt' = (IF over THEN mkAt + 3 ELSE mkAt + 1) /\ mkState' = IF over THEN "TEXT" ELSE mkState
  /\ UNCHANGED <<mkNames, mkChars, mkEvents>> /\ Runs /\ Stays

\* The text is told again before every tag, all of it since the document began:
\* nothing resets context->text.  Another character than the slash is read again.
MkFlush ==
  /\ Reads("FLUSH_TEXT")
  /\ LET told == IF mkChars = << >> THEN << >> ELSE <<<<"text", mkChars>>>>
         slash == Sees(mkAt, "/")
     IN  \/ /\ Tell(told) /\ mkChars' = mkChars
            /\ mkState' = IF slash THEN "CLOSING_ELEMENT" ELSE "START_ELEMENT"
            /\ mkAt' = IF slash THEN mkAt + 1 ELSE mkAt
            /\ UNCHANGED mkNames /\ Runs
         \/ /\ told # << >> /\ Fail("text") /\ Tell(Append(told, <<"error">>))
            /\ mkFreed' = mkFreed \o Numbers(mkLevel) /\ mkMade' = mkMade
  /\ Stays

\* The innermost element ends, whatever name the tag gives; what follows up to ">" is
\* passed over.  When the handler reports an error, the name is freed here and again
\* by destroy_parse_state.
MkClose ==
  /\ Reads("CLOSING_ELEMENT")
  /\ IF mkLevel = << >> THEN Fail("none") /\ Tell(<<<<"error">>>>) /\ UNCHANGED <<mkMade, mkFreed>>
     ELSE \/ /\ Tell(<<<<"end", mkLevel[1][2]>>>>)
             /\ mkFreed' = Append(mkFreed, mkLevel[1][1]) /\ mkLevel' = Tail(mkLevel)
             /\ mkState' = "TEXT" /\ mkAt' = PastAll(mkAt, MkChr \ {">"}) + 1
             /\ UNCHANGED <<mkMade, mkChars>> /\ Runs
          \/ /\ Fail("close") /\ Tell(<<<<"end", mkLevel[1][2]>>, <<"error">>>>)
             /\ mkFreed' = Append(mkFreed, mkLevel[1][1]) \o Numbers(mkLevel) /\ mkMade' = mkMade
  /\ Stays

\* The next chunk, or the end of the document, which unclosed elements do not disturb.
MkChunk ==
  /\ mkResult = "run" /\ mkAt >= end
  /\ IF mkRest = << >> THEN mkResult' = "ok" /\ UNCHANGED <<mkText, mkRest, mkAt>>
     ELSE mkText' = mkRest /\ mkRest' = << >> /\ mkAt' = 1 /\ mkResult' = mkResult
  /\ UNCHANGED <<mkDoc, mkState, mkNames, mkChars, mkEvents, mkBroken>>

\* Mutant: the names that are left are not freed.
MkFreeList ==
  /\ mkResult \in {"ok", "failed"}
  /\ mkResult' = "freed" /\ mkLevel' = << >> /\ mkChars' = << >>
  /\ UNCHANGED <<mkDoc, mkText, mkRest, mkAt, mkState, mkMade, mkFreed, mkEvents, mkBroken>>

\* g_markup_parse_context_free
MkFree ==
  /\ mkResult \in {"ok", "failed"}
  /\ mkResult' = "freed" /\ mkLevel' = << >> /\ mkChars' = << >>
  /\ mkFreed' = mkFreed \o Numbers(mkLevel)
  /\ UNCHANGED <<mkDoc, mkText, mkRest, mkAt, mkState, mkMade, mkEvents, mkBroken>>

MkInit ==
  /\ mkPieces \in Documents
  /\ LET whole == Source
     IN  /\ mkCut \in IF Len(mkPieces) <= CutPieces THEN 0..(Len(whole) - 1) ELSE {0}
         /\ mkText = SubSeq(whole, 1, IF mkCut = 0 THEN Len(whole) ELSE mkCut)
         /\ mkRest = IF mkCut = 0 THEN << >> ELSE SubSeq(whole, mkCut + 1, Len(whole))
  /\ mkAt = 1 /\ mkState = "START" /\ mkLevel = << >> /\ mkChars = << >> /\ mkEvents = << >>
  /\ mkMade = 0 /\ mkFreed = << >> /\ mkBroken = "none" /\ mkResult = "run"

MkNext == MkStart \/ MkComment \/ MkBadElement \/ MkElement \/ MkCharacter \/ MkCommented \/ MkFlush
            \/ MkClose \/ MkChunk \/ MkFree

MkSpec == MkInit /\ [][MkNext]_mkVars

-----------------------------------------------------------------------------
\* The names on the level are those of the elements that were begun and not ended,
\* the declaration apart: what end_element is given is the element it ends.
Opened(level, event) ==
  CASE event[1] = "start" -> <<event[2]>> \o level
    [] event[1] = "end" /\ level # << >> -> Tail(level)
    [] OTHER -> level

MkLevelIsOpen ==
  mkResult \in {"run", "ok"} =>
    LET open  == FoldLeft(Opened, << >>, mkEvents)
        names == [i \in DOMAIN mkLevel |-> mkLevel[i][2]]
    IN  names = open \/ (names # << >> /\ Front(names) = open /\ mkPieces[1].kind = "declaration")

\* Every name is freed once when the context is gone, but for the one whose end
\* handler reported an error at a closing tag: that is freed a second time.
MkNamesFreed ==
  mkResult = "freed" =>
    \A n \in 1..mkMade :
      LET times == Cardinality({i \in DOMAIN mkFreed : mkFreed[i] = n})
      IN  times = 1 \/ (times = 2 /\ mkBroken = "close")

\* What a document means, read piece by piece, with what the library makes of it: the
\* innermost element ends whatever name is given, the text is never begun anew, a
\* declaration is on the level like an element.  In `sound' no tag has ended anything
\* but the element it names.
Meant(r, piece) ==
  LET told == IF ~r.begun \/ r.chars = << >> THEN << >> ELSE <<<<"text", r.chars>>>>
      Bad  == [r EXCEPT !.events = @ \o told \o <<<<"error">>>>, !.ok = FALSE]
      Good(events, level) == [r EXCEPT !.events = @ \o told \o events, !.level = level, !.begun = TRUE]
      begin == <<"start", piece.name, piece.attrs>>
  IN  CASE ~r.ok -> r
        [] r.ok /\ piece.kind = "text" -> IF r.begun THEN [r EXCEPT !.chars = @ \o piece.src] ELSE Bad
        [] r.ok /\ piece.kind = "comment" -> Good(<< >>, r.level)
        [] r.ok /\ piece.kind = "start" -> Good(<<begin>>, <<piece.name>> \o r.level)
        [] r.ok /\ piece.kind = "empty" -> Good(<<begin, <<"end", piece.name>>>>, r.level)
        [] r.ok /\ piece.kind = "declaration" -> IF r.begun THEN Bad ELSE Good(<< >>, <<piece.name>>)
        [] r.ok /\ piece.kind = "close" ->
             IF ~r.begun \/ r.level = << >> THEN Bad
             ELSE [Good(<<<<"end", r.level[1]>>>>, Tail(r.level)) EXCEPT
                     !.sound = @ /\ r.level[1] = piece.name /\ (Len(r.level) = 1 => mkPieces[1].kind # "declaration")]

Meaning == FoldLeft(Meant, [level |-> << >>, chars |-> << >>, events |-> << >>, begun |-> FALSE, ok |-> TRUE,
                            sound |-> TRUE], mkPieces)

\* A document without any fault has every element closed by its name.
Balanced == Meaning.sound /\ Len(Meaning.level) = IF mkPieces[1].kind = "declaration" THEN 1 ELSE 0

\* Of a document in one piece the handlers are told what it means.  It is accepted if
\* it has no fault, and refused with an error if a tag or a text stands where none can.
\* Nothing is said of two things: a document given in pieces, which the comment at the
\* head of the file rules out (gmarkup.c:4), and faults that only the names and the
\* number of closing tags show, which the comment at gmarkup.c:468 has signalled
\* "always" and no code signals.
MkReadsPieces ==
  mkResult \in {"ok", "failed"} /\ mkBroken = "none" /\ mkCut = 0
    /\ (\A i \in DOMAIN mkPieces : mkPieces[i].kind # "raw") =>
      /\ mkEvents = Meaning.events
      /\ Meaning.ok /\ Balanced => mkResult = "ok"
      /\ ~Meaning.ok => mkResult = "failed"

\* The markup reader tells what it has read, keeps the names of what is open, and
\* frees each once.
MkCorrect == MkReadsPieces /\ MkLevelIsOpen /\ MkNamesFreed

=============================================================================
