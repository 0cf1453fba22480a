------------------------------- MODULE MCText -------------------------------
(***************************************************************************)
(* The parts that share no state with any other, algorithms on one         *)
(* argument and calls of the operating system, checked in one run: `part'  *)
(* says which of them a behaviour is about, the others stay at one of      *)
(* their initial states.                                                   *)
(***************************************************************************)
EXTENDS StrSplit, BaseXX, PtrArray, Sorting, Pattern, Shell, Utf8, Conversions, Markup, SqlFunctions,
        Digests, CipherModes, System, TLC

CONSTANT MaxLen

Ref == INSTANCE StrTokens

Words(n, S) == UNION {[1..k -> S] : k \in 0..n}

\* All short strings over two letters, one delimiter of one letter and one whose
\* occurrences can overlap.
MCStrings == Words(MaxLen, {"x", "n"})
MCDelims  == {<<"n">>, <<"n", "n">>}

\* The encodings of short inputs, and all short sequences of a few characters,
\* padding and bad ones among them.
MCInputs  == 16 :> Words(4, {0, 1, 90, 255}) @@ 32 :> Words(6, {0, 165, 255}) @@ 64 :> Words(5, {0, 1, 90, 255})
MCSources == 16 :> Words(5, {0, 5, 15, 255}) @@ 32 :> Words(8, {21, 32}) \cup Words(4, {0, 21, 32}) @@ 64 :> Words(5, {0, 42, 63, 64, 255})

MCRank == "a" :> 1 @@ "b" :> 2 @@ "c" :> 1 @@ "null" :> 0

\* Long enough for four ranks, and for segments that are partitioned twice.
MCSortInputs == Words(6, {1, 2, 3}) \cup [1..9 -> {1, 2}] \cup [1..15 -> {1}]
MCQsInputs   == Words(6, {1, 2, 3}) \cup [1..8 -> {1, 2}]
                  \cup {<<8, 7, 6, 5, 4, 3, 2, 1>>, <<4, 8, 2, 6, 1, 5, 7, 3>>, <<1, 2, 3, 4, 5, 6, 7, 8, 9>>}

MCPatterns == Words(5, {"a", "b", "*", "?"})
MCSubjects == Words(5, {"a", "b"})

MCArgLists == Words(2, Words(2, Chr))
MCRawLines == Words(4, Chr)

MCTexts16 == Words(4, Classes)

MCCvTexts == LET W == Words(3, {"a", "e", "c", "p"})
             IN  W \cup {Append(w, "cut") : w \in W} \cup {w \o <<"bad", "a">> : w \in W}

MCPieces ==
  LET Piece(kind, src, name, attrs) == [kind |-> kind, src |-> src, name |-> name, attrs |-> attrs]
  IN  {Piece("start", <<"<", "a", ">">>, <<"a">>, << >>),
       Piece("start", <<"<", "b", "_", "a", "=", "q", "1", "q", ">">>, <<"b">>, <<<<<<"a">>, <<"1">>>>>>),
       Piece("empty", <<"<", "a", "/", ">">>, <<"a">>, << >>),
       Piece("close", <<"<", "/", "a", ">">>, <<"a">>, << >>),
       Piece("comment", <<"<", "!", "-", "-", "a", "-", "-", ">">>, << >>, << >>),
       Piece("declaration", <<"<", "?", "a", "?", ">">>, <<"a">>, << >>),
       Piece("text", <<"b">>, << >>, << >>)}
MCDocuments ==
  (Words(4, MCPieces) \ {<< >>})
    \cup {<<[kind |-> "raw", src |-> w, name |-> << >>, attrs |-> << >>]>> :
            w \in Words(4, {"_", "<", ">", "/", "a"}) \ {<< >>}}

\* Integers that fit into an int and one that does not, doubles, NULL; and an unbalanced tree.
MCRowSets == Words(3, {-2, 2, 3, 4, 10, NoValue}) \cup Words(5, {2, 4, 6}) \cup {<<5, 1, 7, 3, 9, 1, 5>>}

MCSqStrings == Words(3, {<<"a">>, <<"E", "~">>, <<"E", "^">>})
MCSqNumbers == {-1, 0, 1, 2, 3, 6}

\* Leads with the bytes that have conditions of their own after them, up to four bytes.
MCU8Any == LET Second == {65, 128, 143, 144, 159, 160, 175, 176, 183, 190, 191, 194}
               Third  == {65, 128, 143, 144, 175, 176, 190, 191}
               Fourth == {65, 128, 189, 190, 191}
               Leads  == {65, 193, 194, 224, 237, 239, 240, 243, 244, 245, 248, 254}
           IN  {<< >>} \cup {<<l>> : l \in Leads} \cup (Leads \X Second) \cup (Leads \X Second \X Third)
                 \cup (Leads \X Second \X Third \X Fourth)
MCU8Good == LET W == {FlattenSeq(w) : w \in Words(3, {<<65>>, <<195, 169>>, <<226, 130, 172>>, <<240, 159, 152, 128>>})}
            IN  W \cup {w \o e : w \in W, e \in {<<195>>, <<226>>, <<226, 130>>, <<240, 159, 152>>, <<255>>, <<169>>}}
MCU16Any == Words(3, {65, 55295, 55296, 56319, 56320, 57343, 57344, 65533})

MCScripts == Words(4, Streams)
MCCalls   == "w1" :> 1 @@ "w2" :> 1

\* Around one and two blocks of eight bytes, and beyond the 16 whose bits a word counts.
MCDgLengths == {0, 1, 4, 5, 6, 7, 8, 9, 12, 13, 14, 15, 16, 17, 20}

\* A permutation of the blocks without a simple form: the even numbers to the odd ones.
MCPerm == [b \in Blks |-> LET n == 4 * b[1] + b[2]
                              m == (IF n % 2 = 0 THEN 7 * n + 3 ELSE 5 * n + 5) % 16
                          IN  <<m \div 4, m % 4>>]
MCIv      == <<1, 3>>
MCPlains  == (Words(3, CmByte) \cup Words(5, {1, 2})) \ {<< >>}
MCCiphers == (Words(2, CmByte) \cup [1..4 -> CmByte]) \ {<< >>}

MCScsiOrder == <<2, 1>>

\* Without a limit the vector of g_strsplit holds the pieces between the delimiters,
\* those at both ends included; open is only, where the string ends in two delimiters
\* or is one, whether the last piece is among them: the comment of the code wants it,
\* the code does without.
SpTexts    == [i \in 1..Len(spTokens) |-> SubSeq(spText, spTokens[i].start + 1, End(i))]
AsPromised == spPc = "done" /\ spMax <= 0 =>
                SpTexts \in {Ref!Pieces(spText, spDelim), Ref!Tokens(spText, spDelim)}

-----------------------------------------------------------------------------
VARIABLE part

Algorithms == {"split", "base", "array", "list sort", "qsort", "pattern", "shell", "utf16", "convert", "markup",
               "aggregate", "sql text", "utf8", "spawn sync", "spawn async", "file", "digest", "cipher", "disks"}

MkSpare == CHOOSE piece \in MCPieces : piece.kind = "text"

SpIdle == spText = << >> /\ spDelim = <<"n">> /\ spMax = 0
BxIdle == bxBase = 16 /\ bxPlain = << >> /\ bxSrc = << >>
SqIdle == [fn |-> "reverse", s |-> << >>, t |-> << >>, n |-> 0]
MkIdle == mkPieces = <<MkSpare>> /\ mkCut = 0
U8Idle == u8Call = [fn |-> "to", text |-> << >>, max |-> 0, ask |-> FALSE]
SsIdle == ssAsked = {} /\ ssScript = << >> /\ ssOther = "none"
SaIdle == saAsked = {} /\ saReap = FALSE /\ saLeave = FALSE
DgIdle == dgFn = "md5" /\ dgLen = 0
CmIdle == cmCall = [mode |-> "ECB", pad |-> TRUE, inPlace |-> TRUE] /\ cmPlain = <<1>>
DiIdle == diDisk = [d \in 1..Drives |-> "s1"]
CvIdle == cvText = << >> /\ cvFrom = "utf8" /\ cvTo = "utf8"

MCInit ==
  \E p \in Algorithms :
    /\ part = p
    /\ IF p = "shell" THEN ShInit ELSE shMeant = << >> /\ shLine = << >> /\ ShInit
    /\ IF p = "base" THEN BxInit ELSE BxIdle /\ BxInit
    /\ IF p = "split" THEN SpInit ELSE SpIdle /\ SpInit
    /\ ArrInit
    /\ IF p = "list sort" THEN LsInit ELSE lsInput = << >> /\ LsInit
    /\ IF p = "qsort" THEN QsInit ELSE qsInput = << >> /\ QsInit
    /\ IF p = "pattern" THEN PtInit ELSE ptPattern = << >> /\ PtInit
    /\ IF p = "utf16" THEN UtInit ELSE utText = << >> /\ utCaller = "all" /\ UtInit
    /\ IF p = "convert" THEN CvInit ELSE CvIdle /\ CvInit
    /\ IF p = "markup" THEN MkInit ELSE MkIdle /\ MkInit
    /\ IF p = "aggregate" THEN AgInit ELSE agRows = << >> /\ agAsked = "mode" /\ AgInit
    /\ IF p = "sql text" THEN SqInit ELSE sqCall = SqIdle /\ SqInit
    /\ IF p = "utf8" THEN U8Init ELSE U8Idle /\ U8Init
    /\ IF p = "spawn sync" THEN SsInit ELSE SsIdle /\ SsInit
    /\ IF p = "spawn async" THEN SaInit ELSE SaIdle /\ SaInit
    /\ FcInit
    /\ IF p = "digest" THEN DgInit ELSE DgIdle /\ DgInit
    /\ IF p = "cipher" THEN CmInit ELSE CmIdle /\ CmInit
    /\ IF p = "disks" THEN DiInit ELSE DiIdle /\ DiInit

MCVars == <<spVars, bxVars, arrVars, lsVars, qsVars, ptVars, shVars, utVars, cvVars, mkVars, agVars, sqVars,
            u8Vars, ssVars, saVars, fcVars, dgVars, cmVars, diVars, part>>

MCNext ==
  /\ UNCHANGED part
  /\ \/ part = "split" /\ SpNext
        /\ UNCHANGED <<bxVars, arrVars, lsVars, qsVars, ptVars, shVars, utVars, cvVars, mkVars, agVars, sqVars,
                       u8Vars, ssVars, saVars, fcVars, dgVars, cmVars, diVars>>
     \/ part = "base" /\ BxNext
        /\ UNCHANGED <<spVars, arrVars, lsVars, qsVars, ptVars, shVars, utVars, cvVars, mkVars, agVars, sqVars,
                       u8Vars, ssVars, saVars, fcVars, dgVars, cmVars, diVars>>
     \/ part = "array" /\ ArrNext
        /\ UNCHANGED <<spVars, bxVars, lsVars, qsVars, ptVars, shVars, utVars, cvVars, mkVars, agVars, sqVars,
                       u8Vars, ssVars, saVars, fcVars, dgVars, cmVars, diVars>>
     \/ part = "list sort" /\ LsNext
        /\ UNCHANGED <<spVars, bxVars, arrVars, qsVars, ptVars, shVars, utVars, cvVars, mkVars, agVars, sqVars,
                       u8Vars, ssVars, saVars, fcVars, dgVars, cmVars, diVars>>
     \/ part = "qsort" /\ QsNext
        /\ UNCHANGED <<spVars, bxVars, arrVars, lsVars, ptVars, shVars, utVars, cvVars, mkVars, agVars, sqVars,
                       u8Vars, ssVars, saVars, fcVars, dgVars, cmVars, diVars>>
     \/ part = "pattern" /\ PtNext
        /\ UNCHANGED <<spVars, bxVars, arrVars, lsVars, qsVars, shVars, utVars, cvVars, mkVars, agVars, sqVars,
                       u8Vars, ssVars, saVars, fcVars, dgVars, cmVars, diVars>>
     \/ part = "shell" /\ ShNext
        /\ UNCHANGED <<spVars, bxVars, arrVars, lsVars, qsVars, ptVars, utVars, cvVars, mkVars, agVars, sqVars,
                       u8Vars, ssVars, saVars, fcVars, dgVars, cmVars, diVars>>
     \/ part = "utf16" /\ UtNext
        /\ UNCHANGED <<spVars, bxVars, arrVars, lsVars, qsVars, ptVars, shVars, cvVars, mkVars, agVars, sqVars,
                       u8Vars, ssVars, saVars, fcVars, dgVars, cmVars, diVars>>
     \/ part = "convert" /\ CvNext
        /\ UNCHANGED <<spVars, bxVars, arrVars, lsVars, qsVars, ptVars, shVars, utVars, mkVars, agVars, sqVars,
                       u8Vars, ssVars, saVars, fcVars, dgVars, cmVars, diVars>>
     \/ part = "markup" /\ MkNext
        /\ UNCHANGED <<spVars, bxVars, arrVars, lsVars, qsVars, ptVars, shVars, utVars, cvVars, agVars, sqVars,
                       u8Vars, ssVars, saVars, fcVars, dgVars, cmVars, diVars>>
     \/ part = "aggregate" /\ AgNext
        /\ UNCHANGED <<spVars, bxVars, arrVars, lsVars, qsVars, ptVars, shVars, utVars, cvVars, mkVars, sqVars,
                       u8Vars, ssVars, saVars, fcVars, dgVars, cmVars, diVars>>
     \/ part = "sql text" /\ SqNext
        /\ UNCHANGED <<spVars, bxVars, arrVars, lsVars, qsVars, ptVars, shVars, utVars, cvVars, mkVars, agVars,
                       u8Vars, ssVars, saVars, fcVars, dgVars, cmVars, diVars>>
     \/ part = "utf8" /\ U8Next
        /\ UNCHANGED <<spVars, bxVars, arrVars, lsVars, qsVars, ptVars, shVars, utVars, cvVars, mkVars, agVars,
                       sqVars, ssVars, saVars, fcVars, dgVars, cmVars, diVars>>
     \/ part = "spawn sync" /\ SsNext
        /\ UNCHANGED <<spVars, bxVars, arrVars, lsVars, qsVars, ptVars, shVars, utVars, cvVars, mkVars, agVars,
                       sqVars, u8Vars, saVars, fcVars, dgVars, cmVars, diVars>>
     \/ part = "spawn async" /\ SaNext
        /\ UNCHANGED <<spVars, bxVars, arrVars, lsVars, qsVars, ptVars, shVars, utVars, cvVars, mkVars, agVars,
                       sqVars, u8Vars, ssVars, fcVars, dgVars, cmVars, diVars>>
     \/ part = "file" /\ FcNext
        /\ UNCHANGED <<spVars, bxVars, arrVars, lsVars, qsVars, ptVars, shVars, utVars, cvVars, mkVars, agVars,
                       sqVars, u8Vars, ssVars, saVars, dgVars, cmVars, diVars>>
     \/ part = "digest" /\ DgNext
        /\ UNCHANGED <<spVars, bxVars, arrVars, lsVars, qsVars, ptVars, shVars, utVars, cvVars, mkVars, agVars, sqVars,
                       u8Vars, ssVars, saVars, fcVars, cmVars, diVars>>
     \/ part = "cipher" /\ CmNext
        /\ UNCHANGED <<spVars, bxVars, arrVars, lsVars, qsVars, ptVars, shVars, utVars, cvVars, mkVars, agVars, sqVars,
                       u8Vars, ssVars, saVars, fcVars, dgVars, diVars>>
     \/ part = "disks" /\ DiNext
        /\ UNCHANGED <<spVars, bxVars, arrVars, lsVars, qsVars, ptVars, shVars, utVars, cvVars, mkVars, agVars, sqVars,
                       u8Vars, ssVars, saVars, fcVars, dgVars, cmVars>>

MCSpec ==
  /\ MCInit /\ [][MCNext]_MCVars
  /\ WF_cvVars(part = "convert" /\ MCNext)
  /\ WF_ssVars(part = "spawn sync" /\ MCNext /\ SsParent) /\ WF_ssVars(part = "spawn sync" /\ MCNext /\ SsChild)
  /\ WF_saVars(part = "spawn async" /\ MCNext /\ SaCaller) /\ WF_saVars(part = "spawn async" /\ MCNext /\ SaChildren)

\* The loop of g_convert ends: a result that has grown has room for the character
\* that is held, also when nothing is left to read.
ConvertEnds == part = "convert" ~> cvResult # "run"

\* Programs that are started come to an end, or the caller to its answer: no process
\* waits for ever for another one's end of a pipe.
SpawnsEnd == (part = "spawn sync" => SsEnds) /\ (part = "spawn async" => SaEnds)

\* Every algorithm keeps the shape of its state.
AlgorithmsTypeOK ==
  SpTypeOK /\ BxTypeOK /\ ArrTypeOK /\ LsTypeOK /\ QsTypeOK /\ PtTypeOK /\ ShTypeOK /\ UtTypeOK /\ CvTypeOK
    /\ MkTypeOK /\ AgTypeOK /\ SsTypeOK /\ SaTypeOK /\ FcTypeOK /\ DgTypeOK /\ CmTypeOK /\ DiTypeOK

\* Both sorts of eglib sort, within the ranks and the stack of fixed size they have.
SortsCorrect == LsCorrect /\ QsCorrect

\* Text conversions lose nothing but what they are too short for, and keep inside of
\* the memory they have measured or counted.
ConversionsCorrect == UtCorrect /\ CvCorrect /\ U8Correct /\ BxCorrect

\* What the pages of the database are encrypted with is what it says: digests of all of
\* a message and of nothing else, modes of the cipher that are undone by their inverse.
CryptoCorrect == DgCorrect /\ CmCorrect

\* Delimited strings, patterns, command lines and markup mean what was written, where
\* the repository says so or nothing against it.
TextCorrect == AsPromised /\ PtCorrect /\ ShCorrect /\ MkCorrect

\* The functions that extensionfunctions.c adds to SQL give the answers their comments
\* define, over characters and over rows in any order.
SqlCorrect == AgCorrect /\ SqCorrect

\* The loops whose end is not that of a counter come to it: g_strsplit, the stack of
\* the quick sort, the retries of g_convert, and the waiting of g_spawn's processes.
LoopsEnd == Advances /\ QsShrinks /\ ConvertEnds /\ SpawnsEnd

=============================================================================
