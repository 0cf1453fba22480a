---------------------------- MODULE Registration ----------------------------
(***************************************************************************)
(* The registration (jm/register.c): demo.dat holds the base 64 text of a  *)
(* licence, encrypted to the library's key; its lines name the computer by *)
(* its disks.  One thread asks (register_check, register_decrypt), another *)
(* saves, and another program may put a file in its place.  All            *)
(* licences are ciphertexts of one key, so their base 64 texts have the    *)
(* same length: a file is a licence and how much of its text is there.     *)
(***************************************************************************)
EXTENDS StrTokens, FiniteSets, SequencesExt

CONSTANTS
  Licences,     \* [owner, text, sealed]: the disks it was issued for, its plain
                \* text, and whether it was encrypted to this library's key
  Computers,    \* sequences of the disks' serial numbers, bytes as two digits
  Newline,
  Fold,         \* [digit -> digit]: g_ascii_tolower, on what it changes
  IdMax,        \* 15, the characters of an id code
  MessageLines  \* 7, the enumerators of DecryptType

ASSUME RegistrationAssumption ==
  /\ IdMax \in Nat \ {0} /\ MessageLines \in Nat \ {0}
  /\ \A l \in Licences : l.owner \in Computers /\ l.sealed \in BOOLEAN

\* g_strsplit: the lines of a licence.
LinesOf(l) == Tokens(l.text, <<Newline>>)

Whole == 2            \* the base 64 text without its terminator: a multiple of four
Index == {0, MessageLines - 1, MessageLines}   \* indices asked for: first, last, none

VARIABLES
  file,    \* demo.dat: << >> when there is none, or <<[licence, len]>>
  disks,   \* the disks disk_info_load finds
  reader,  \* the thread that asks: its place, the call, what it measured and read
  saver,   \* the licence register_save is writing, in a sequence, or << >>
  \* ghosts
  checked, \* register_check answered TRUE, and the file has not changed since it began
  saved,   \* the file is what a register_save that met no failure left
  answer   \* the latest answer, with what is needed to judge it

rgVars == <<file, disks, reader, saver, checked, saved, answer>>

Idle == [at |-> "idle"]
NoReply == [call |-> "none", index |-> 0, ok |-> FALSE, licence |-> << >>, on |-> << >>, sure |-> FALSE]

-----------------------------------------------------------------------------
(* decrypt *)

\* cyoBase64Decode takes the text if its length is a multiple of four, and the RSA
\* decryption takes the whole ciphertext of this key and nothing else.
Readable(l, n) == n = Whole /\ l.sealed

\* fread: no more than was measured.
Got(f, size) == IF f.len < size THEN f.len ELSE size

\* decrypt's answer: << >> for NULL, or the lines.
Decrypted(f, size) ==
  IF f.len >= size /\ Readable(f.licence, Got(f, size))
  THEN <<LinesOf(f.licence)>> ELSE << >>

\* fopen, fseek and ftell: what decrypt begins with.
Measured(call, i, still) ==
  [at |-> IF file = << >> THEN "answer" ELSE "read", call |-> call, index |-> i,
   size |-> IF file = << >> THEN 0 ELSE file[1].len,
   lines |-> << >>, licence |-> << >>, still |-> still]

\* register_check and register_decrypt begin with decrypt.
Ask(call, i) ==
  /\ reader = Idle
  /\ reader' = Measured(call, i, TRUE)
  /\ answer' = NoReply
  /\ UNCHANGED <<file, disks, saver, checked, saved>>

\* fread, decoding, decryption and g_strsplit.
ReadFile ==
  /\ reader.at = "read"
  /\ reader' = [reader EXCEPT !.at = "answer", !.lines = Decrypted(file[1], reader.size),
                              !.licence = <<file[1].licence>>]
  /\ UNCHANGED <<file, disks, saver, checked, saved, answer>>

-----------------------------------------------------------------------------
(* register_query_id_code, register_check, register_decrypt *)

\* The serial numbers in the order of the disks, in hexadecimal digits, cut.
IdCode(d) ==
  LET digits == FlattenSeq([i \in 1..Len(d) |-> FlattenSeq(d[i])])
  IN  SubSeq(digits, 1, IF Len(digits) < IdMax THEN Len(digits) ELSE IdMax)

Folded(s) == [i \in 1..Len(s) |-> IF s[i] \in DOMAIN Fold THEN Fold[s[i]] ELSE s[i]]

\* Mutant: the line need only begin like the code, or the code like the line.
SameCodeStart(a, b) == LET n == IF Len(a) < Len(b) THEN Len(a) ELSE Len(b)
                       IN  Folded(SubSeq(a, 1, n)) = Folded(SubSeq(b, 1, n))

\* g_ascii_strcasecmp
SameCode(a, b) == Folded(a) = Folded(b)

\* Mutant: the six lines of the comment are enough.
EnoughOfComment(v) == Len(v) >= MessageLines - 1

Enough(v) == Len(v) >= MessageLines

\* What is issued to this library's key: licences whose first line, when they have all
\* of them, is the id code of the disks they are for.
ASSUME IssueAssumption ==
  \A l \in Licences :
    /\ Len(LinesOf(l)) \in Nat
    /\ l.sealed /\ Enough(LinesOf(l)) => SameCode(LinesOf(l)[1], IdCode(l.owner))

\* register_decrypt has the line asked for.
HasLine == reader.lines # << >> /\ reader.index < Len(reader.lines[1])

Respond ==
  /\ reader.at = "answer" /\ reader.call \in {"check", "decrypt"}
  /\ LET ok == IF reader.call = "decrypt" THEN HasLine
               ELSE reader.lines # << >> /\ Enough(reader.lines[1]) /\ SameCode(reader.lines[1][1], IdCode(disks))
     IN  /\ answer' = [call |-> reader.call, index |-> reader.index, ok |-> ok,
                       licence |-> reader.licence, on |-> disks, sure |-> checked]
         /\ checked' = IF reader.call = "check" THEN ok /\ reader.still ELSE checked
  /\ reader' = Idle
  /\ UNCHANGED <<file, disks, saver, saved>>

-----------------------------------------------------------------------------
(* register_save, and what happens outside *)

FileIs(l, n, good) ==
  /\ file' = <<[licence |-> l, len |-> n]>>
  /\ saved' = good /\ checked' = FALSE
  /\ reader' = IF reader = Idle THEN Idle ELSE [reader EXCEPT !.still = FALSE]
  /\ UNCHANGED <<disks, answer>>

\* Mutant: the file is opened for appending.
OpenedAppend(f) == IF f = << >> THEN 0 ELSE f[1].len

\* fopen with "w" truncates.
Opened(f) == 0

SaveOpen(l) ==
  /\ saver = << >> /\ saver' = <<l>>
  /\ FileIs(l, Opened(file), FALSE)

\* fwrite fills the buffer of the stream with the text and its terminator; fclose writes
\* it, or the part the disk has room for.  Neither answer is looked at.
SaveClose(n) ==
  /\ saver # << >> /\ saver' = << >>
  /\ FileIs(saver[1], file[1].len + n, n = Whole + 1)

\* Another program puts the text of a licence in place.
Place(l) == saver = << >> /\ FileIs(l, Whole, FALSE) /\ UNCHANGED saver

Plug(d) == disks' = d /\ UNCHANGED <<file, reader, saver, checked, saved, answer>>

\* The process ends and starts anew, also where register_save writes to the NULL of an
\* fopen that failed.
Crash ==
  /\ reader' = Idle /\ saver' = << >> /\ checked' = FALSE
  /\ UNCHANGED <<file, disks, saved, answer>>

RgInit ==
  /\ file = << >> /\ disks \in Computers /\ reader = Idle /\ saver = << >>
  /\ checked = FALSE /\ saved = FALSE /\ answer = NoReply

Step ==
  \/ Ask("check", 0) \/ \E i \in Index : Ask("decrypt", i)
  \/ ReadFile \/ Respond
  \/ \E l \in Licences : SaveOpen(l) \/ Place(l)
  \/ \E n \in 0..(Whole + 1) : SaveClose(n)
  \/ \E d \in Computers : Plug(d)

RgNext == Step \/ Crash

RgSpec == RgInit /\ [][RgNext]_rgVars

-----------------------------------------------------------------------------
(* Properties *)

RgTypeOK ==
  /\ file = << >> \/ (file[1].licence \in Licences /\ file[1].len \in 0..(Whole + 1))
  /\ disks \in Computers
  /\ reader.at \in {"idle", "read", "answer"}
  /\ reader # Idle => /\ reader.call \in {"check", "decrypt", "login"} /\ reader.index \in 0..MessageLines
                      /\ reader.size \in 0..(Whole + 1)
                      /\ reader.at = "read" => file # << >>
  /\ saver # << >> => saver[1] \in Licences /\ file # << >> /\ file[1].len = 0

\* A file that register_check has accepted answers register_decrypt for every index of
\* DecryptType, as long as nobody changes it.
CheckedUsable == answer.call = "decrypt" /\ answer.sure /\ answer.index < MessageLines => answer.ok

\* register_check accepts only licences that were encrypted to this library, and issued
\* for disks that have the id code of the ones it finds, whoever writes the file meanwhile.
IssuedFor ==
  answer.call = "check" /\ answer.ok =>
    /\ answer.licence[1].sealed
    /\ Folded(IdCode(answer.licence[1].owner)) = Folded(IdCode(answer.on))

\* register.c:17: the file is "the encryption 64base text": what register_save has saved
\* without a failure can be read.
SavedReadable ==
  saved /\ file[1].licence.sealed => Decrypted(file[1], file[1].len) # << >>

=============================================================================
