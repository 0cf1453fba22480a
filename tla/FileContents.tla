---------------------------- MODULE FileContents ----------------------------
(***************************************************************************)
(* g_file_set_contents (eglib/gfile.c), which writes a file beside the one *)
(* it names and renames it, and g_file_get_contents (gfile-posix.c), which *)
(* measures a file and reads it.  A file has a content, which is a         *)
(* sequence of blocks; a name stands for a file.  Any writer may be killed *)
(* at any point, and any call of the system may fail.                      *)
(***************************************************************************)
EXTENDS Integers, Sequences, FiniteSets, SequencesExt, FiniteSetsExt

CONSTANTS
  FcWriters,  \* processes that call g_file_set_contents, each with a text of its own
  FcReaders,  \* processes that call g_file_get_contents
  Blocks,     \* length of every text
  Calls       \* [writer -> calls it makes]

ASSUME FileContentsAssumption ==
  FcWriters \cap FcReaders = {} /\ "old" \notin FcWriters /\ IsFiniteSet(FcWriters) /\ Blocks \in Nat \ {0} /\ Calls \in [FcWriters -> Nat]

VARIABLES
  fcFiles,   \* [file number -> content]
  fcName,    \* file that has the name, 0 for none
  fcTmp,     \* file that has the temporary name, 0 for none
  fcPc,      \* [process -> "idle" | "open" | "close" | "rename" | "unlink" | "size" | "read"]
  fcFile,    \* [process -> file that it has open, 0 for none]
  fcSize,    \* [reader -> st_size], and [writer -> blocks that are still in its buffer]
  fcRead,    \* [reader -> what it has read]
  fcAnswer,  \* [process -> << >>, <<BOOLEAN>>, or of a reader <<TRUE, text>>]
  fcCalls,   \* [writer -> calls begun]
  fcMet,     \* two writers have had the temporary file at once
  fcLost,    \* a buffer was lost at fclose, where nobody looks at the answer
  fcCut      \* [reader -> its last reading ended with a read that failed]

fcVars == <<fcFiles, fcName, fcTmp, fcPc, fcFile, fcSize, fcRead, fcAnswer, fcCalls, fcMet, fcLost, fcCut>>

FcProcs == FcWriters \cup FcReaders

Text(w) == [i \in 1..Blocks |-> <<w, i>>]
Texts   == {Text(w) : w \in FcWriters} \cup {Text("old")}

FcTypeOK ==
  /\ {fcName, fcTmp} \subseteq 0..Len(fcFiles) /\ fcName # 0 /\ fcCut \in [FcReaders -> BOOLEAN]
  /\ fcFile \in [FcProcs -> 0..Len(fcFiles)] /\ fcSize \in [FcProcs -> 0..Blocks]
  /\ \A p \in FcProcs : fcPc[p] \in {"idle", "open", "close", "rename", "unlink", "size", "read"}

Goes(p, pc) == fcPc' = [fcPc EXCEPT ![p] = pc]

Busy(w) == fcPc[w] \in {"open", "close", "rename", "unlink"}

-----------------------------------------------------------------------------
(* g_file_set_contents *)

\* Mutant: the file itself is opened.
FcOpenSelf(w) ==
  /\ fcPc[w] = "idle" /\ fcCalls[w] < Calls[w]
  /\ fcCalls' = [fcCalls EXCEPT ![w] = @ + 1] /\ fcAnswer' = [fcAnswer EXCEPT ![w] = << >>]
  /\ fcFiles' = [fcFiles EXCEPT ![fcName] = << >>] /\ fcTmp' = fcName
  /\ fcFile' = [fcFile EXCEPT ![w] = fcTmp'] /\ Goes(w, "open")
  /\ fcMet' = (fcMet \/ \E v \in FcWriters \ {w} : Busy(v))
  /\ UNCHANGED <<fcName, fcSize, fcRead, fcLost, fcCut>>

\* fopen for writing: the temporary file is made, or emptied if there is one.
FcOpen(w) ==
  /\ fcPc[w] = "idle" /\ fcCalls[w] < Calls[w]
  /\ fcCalls' = [fcCalls EXCEPT ![w] = @ + 1]
  /\ \/ /\ fcFiles' = IF fcTmp = 0 THEN Append(fcFiles, << >>) ELSE [fcFiles EXCEPT ![fcTmp] = << >>]
        /\ fcTmp' = IF fcTmp = 0 THEN Len(fcFiles) + 1 ELSE fcTmp
        /\ fcFile' = [fcFile EXCEPT ![w] = fcTmp'] /\ Goes(w, "open")
        /\ fcAnswer' = [fcAnswer EXCEPT ![w] = << >>]
        /\ fcMet' = (fcMet \/ \E v \in FcWriters \ {w} : Busy(v))
     \/ /\ fcAnswer' = [fcAnswer EXCEPT ![w] = <<FALSE>>]
        /\ UNCHANGED <<fcFiles, fcTmp, fcFile, fcPc, fcMet>>
  /\ UNCHANGED <<fcName, fcSize, fcRead, fcLost, fcCut>>

\* The blocks of w from i to j, put where the file of w has them.
Stored(w, i, j) ==
  [fcFiles EXCEPT ![fcFile[w]] =
     [k \in 1..Max({Len(@), j}) |-> IF k \in i..j THEN Text(w)[k] ELSE IF k <= Len(@) THEN @[k] ELSE <<"zero", k>>]]

\* fwrite: some blocks are in the file, the others in the buffer; or it fails on the way.
FcWrite(w) ==
  /\ fcPc[w] = "open"
  /\ \E n \in 0..Blocks :
       /\ fcFiles' = Stored(w, 1, n) /\ fcSize' = [fcSize EXCEPT ![w] = Blocks - n]
       /\ Goes(w, "close") \/ (n < Blocks /\ Goes(w, "unlink"))
  /\ UNCHANGED <<fcName, fcTmp, fcFile, fcRead, fcAnswer, fcCalls, fcMet, fcLost, fcCut>>

\* fclose: the buffer is written, or is lost without notice.
FcClose(w) ==
  /\ fcPc[w] = "close" /\ Goes(w, "rename")
  /\ \/ fcFiles' = Stored(w, Blocks - fcSize[w] + 1, Blocks) /\ UNCHANGED fcLost
     \/ fcSize[w] > 0 /\ fcLost' = TRUE /\ UNCHANGED fcFiles
  /\ fcSize' = [fcSize EXCEPT ![w] = 0] /\ fcFile' = [fcFile EXCEPT ![w] = 0]
  /\ UNCHANGED <<fcName, fcTmp, fcRead, fcAnswer, fcCalls, fcMet, fcCut>>

\* g_rename, of whatever has the temporary name by now.
FcRename(w) ==
  /\ fcPc[w] = "rename"
  /\ \/ /\ fcTmp # 0 /\ fcName' = fcTmp /\ fcTmp' = 0
        /\ fcAnswer' = [fcAnswer EXCEPT ![w] = <<TRUE>>] /\ Goes(w, "idle")
     \/ Goes(w, "unlink") /\ UNCHANGED <<fcName, fcTmp, fcAnswer>>
  /\ UNCHANGED <<fcFiles, fcFile, fcSize, fcRead, fcCalls, fcMet, fcLost, fcCut>>

\* g_unlink after a failure, which may fail too; what fclose still has to write goes to a
\* file without name, or to one that the next call empties.
FcUnlink(w) ==
  /\ fcPc[w] = "unlink" /\ Goes(w, "idle")
  /\ fcTmp' \in {0, fcTmp} /\ fcFile' = [fcFile EXCEPT ![w] = 0] /\ fcSize' = [fcSize EXCEPT ![w] = 0]
  /\ fcAnswer' = [fcAnswer EXCEPT ![w] = <<FALSE>>]
  /\ UNCHANGED <<fcFiles, fcName, fcRead, fcCalls, fcMet, fcLost, fcCut>>

\* The process is killed and begins anew; the temporary file stays.
FcCrash(w) ==
  /\ Busy(w) /\ Goes(w, "idle")
  /\ fcFile' = [fcFile EXCEPT ![w] = 0] /\ fcSize' = [fcSize EXCEPT ![w] = 0]
  /\ UNCHANGED <<fcFiles, fcName, fcTmp, fcRead, fcAnswer, fcCalls, fcMet, fcLost, fcCut>>

-----------------------------------------------------------------------------
(* g_file_get_contents *)

\* open, which may fail
FcGet(r) ==
  /\ fcPc[r] = "idle" /\ fcCut' = [fcCut EXCEPT ![r] = FALSE]
  /\ \/ /\ Goes(r, "size") /\ fcFile' = [fcFile EXCEPT ![r] = fcName]
        /\ fcAnswer' = [fcAnswer EXCEPT ![r] = << >>]
     \/ fcAnswer' = [fcAnswer EXCEPT ![r] = <<FALSE>>] /\ UNCHANGED <<fcPc, fcFile>>
  /\ UNCHANGED <<fcFiles, fcName, fcTmp, fcSize, fcRead, fcCalls, fcMet, fcLost>>

\* fstat, of the open file, or its failure
FcMeasure(r) ==
  /\ fcPc[r] = "size"
  /\ \/ /\ Goes(r, "read") /\ fcSize' = [fcSize EXCEPT ![r] = Len(fcFiles[fcFile[r]])]
        /\ UNCHANGED <<fcFile, fcAnswer>>
     \/ /\ Goes(r, "idle") /\ fcFile' = [fcFile EXCEPT ![r] = 0]
        /\ fcAnswer' = [fcAnswer EXCEPT ![r] = <<FALSE>>] /\ UNCHANGED fcSize
  /\ UNCHANGED <<fcFiles, fcName, fcTmp, fcRead, fcCalls, fcMet, fcLost, fcCut>>

\* Some of the size that was measured is read.
FcReadMore(r) ==
  /\ \E m \in (Len(fcRead[r]) + 1)..Min({Len(fcFiles[fcFile[r]]), fcSize[r]}) :
       fcRead' = [fcRead EXCEPT ![r] = @ \o SubSeq(fcFiles[fcFile[r]], Len(@) + 1, m)]
  /\ UNCHANGED <<fcPc, fcFile, fcSize, fcAnswer, fcCut>>

\* Mutant: the answer ends where reading did.
FcReadEndsShort(r) ==
  /\ \/ Len(fcRead[r]) >= Min({Len(fcFiles[fcFile[r]]), fcSize[r]}) /\ UNCHANGED fcCut
     \/ (Len(fcRead[r]) < fcSize[r] \/ fcSize[r] = 0) /\ fcCut' = [fcCut EXCEPT ![r] = TRUE]
  /\ Goes(r, "idle")
  /\ fcFile' = [fcFile EXCEPT ![r] = 0] /\ fcSize' = [fcSize EXCEPT ![r] = 0]
  /\ fcRead' = [fcRead EXCEPT ![r] = << >>]
  /\ fcAnswer' = [fcAnswer EXCEPT ![r] = <<TRUE, fcRead[r]>>]

\* The loop ends when it has the size, or nothing more comes, or a read fails other than by
\* a signal.  The answer is TRUE and has that size in any case, unset bytes where nothing
\* was read.  What is local is gone then.
FcReadEnds(r) ==
  /\ \/ Len(fcRead[r]) >= Min({Len(fcFiles[fcFile[r]]), fcSize[r]}) /\ UNCHANGED fcCut
     \/ (Len(fcRead[r]) < fcSize[r] \/ fcSize[r] = 0) /\ fcCut' = [fcCut EXCEPT ![r] = TRUE]
  /\ Goes(r, "idle")
  /\ fcFile' = [fcFile EXCEPT ![r] = 0] /\ fcSize' = [fcSize EXCEPT ![r] = 0]
  /\ fcRead' = [fcRead EXCEPT ![r] = << >>]
  /\ fcAnswer' = [fcAnswer EXCEPT ![r] = <<TRUE, [i \in 1..fcSize[r] |->
                    IF i <= Len(fcRead[r]) THEN fcRead[r][i] ELSE <<"unset", i>>]>>]

FcRead(r) ==
  /\ fcPc[r] = "read" /\ (FcReadMore(r) \/ FcReadEnds(r))
  /\ UNCHANGED <<fcFiles, fcName, fcTmp, fcCalls, fcMet, fcLost>>

FcInit ==
  /\ fcFiles = <<Text("old")>> /\ fcName = 1 /\ fcTmp = 0
  /\ fcPc = [p \in FcProcs |-> "idle"] /\ fcFile = [p \in FcProcs |-> 0] /\ fcSize = [p \in FcProcs |-> 0]
  /\ fcRead = [r \in FcReaders |-> << >>] /\ fcAnswer = [p \in FcProcs |-> << >>]
  /\ fcCalls = [w \in FcWriters |-> 0] /\ fcMet = FALSE /\ fcLost = FALSE
  /\ fcCut = [r \in FcReaders |-> FALSE]

FcNext ==
  \/ \E w \in FcWriters : FcOpen(w) \/ FcWrite(w) \/ FcClose(w) \/ FcRename(w) \/ FcUnlink(w) \/ FcCrash(w)
  \/ \E r \in FcReaders : FcGet(r) \/ FcMeasure(r) \/ FcRead(r)

FcSpec == FcInit /\ [][FcNext]_fcVars

-----------------------------------------------------------------------------
\* Two writers that shared the temporary file may leave anything (fcMet): the code names it
\* after the file alone (gfile.c:126), and nothing is said from then on.

\* Otherwise the name stands for a whole text, through any failure or crash; or, once an
\* fclose has failed unnoticed (gfile.c:145), for the beginning of one.
FcAtomic ==
  fcMet \/ \E t \in Texts : fcFiles[fcName] = t \/ (fcLost /\ IsStrictPrefix(fcFiles[fcName], t))

\* The first n blocks of a text of which `size' were asked for.
ReadFront(t, n, size) == [i \in 1..size |-> IF i <= n THEN t[i] ELSE <<"unset", i>>]

\* So what is read while it is replaced is one whole text, the old or the new one, or the
\* call is answered FALSE; but that a read which failed is answered TRUE (gfile-posix.c:94),
\* with all of the length and unset bytes in the place of what is missing, and that what a
\* lost buffer leaves is short.
FcReadsWhole ==
  fcMet \/ \A r \in FcReaders :
    fcAnswer[r] # << >> /\ fcAnswer[r][1] =>
      \E t \in Texts, size \in 0..Blocks : \E n \in 0..size :
        /\ fcAnswer[r][2] = ReadFront(t, n, size)
        /\ fcLost \/ size = Blocks
        /\ fcCut[r] \/ n = size

\* A text that is there was set by a call that was answered TRUE, the last of them, or
\* by one that was killed between its rename and its answer - there is no such point.
FcAnswered ==
  fcMet \/
    /\ \A w \in FcWriters : fcFiles[fcName] = Text(w) => fcAnswer[w] = <<TRUE>> \/ fcCalls[w] > 1
    /\ \A w \in FcWriters : fcAnswer[w] = <<FALSE>> /\ fcCalls[w] = 1 => fcFiles[fcName] # Text(w)

FcCorrect == FcAtomic /\ FcReadsWhole /\ FcAnswered

=============================================================================
