-------------------------------- MODULE Login --------------------------------
(***************************************************************************)
(* The lookup service's first steps (database_init of jm/database.c) over  *)
(* the registration: the password that it hands to sqlite3_key and the     *)
(* language of all its lookups are two calls of register_decrypt, each of  *)
(* which reads demo.dat anew, while the file may be saved or replaced.     *)
(* The connection itself is in the module Database.                        *)
(***************************************************************************)
EXTENDS Registration

CONSTANTS
  DatabasePassword, Language  \* enumerators of DecryptType

ASSUME LoginAssumption ==
  DatabasePassword \in 0..(MessageLines - 1) /\ Language \in 0..(MessageLines - 1) /\ DatabasePassword # Language

VARIABLES
  opening  \* [done, password, language]: the password is << >> when no key is set, the
           \* language << >> until a first one is found.  Ghosts: [licence, still, sure],
           \* whose licence the last answer is from, the file has not changed since the
           \* first call, and register_check had accepted it before.

loginVars == <<rgVars, opening>>

NoSession == [done |-> FALSE, password |-> << >>, language |-> << >>, licence |-> << >>, still |-> FALSE, sure |-> FALSE]

LoginTypeOK == RgTypeOK /\ opening.done \in BOOLEAN /\ (opening.sure => opening.still)

\* Mutant: the lines are counted from 1, as the comment of register.c counts them.
LineOfComment(v, i) == v[i]

\* vec[index], copied with its terminator.
Line(v, i) == v[i + 1]

\* What outlives database_init is the language; the rest is there to be judged.
Returned == IF opening.done THEN [NoSession EXCEPT !.language = opening.language] ELSE opening

LoginBegins == Ask("login", DatabasePassword) /\ opening' = Returned

\* The first register_decrypt answers, and the second one measures the file.
LoginPassword ==
  /\ reader.at = "answer" /\ reader.call = "login" /\ reader.index = DatabasePassword
  /\ opening' = [opening EXCEPT
       !.password = IF HasLine THEN <<Line(reader.lines[1], DatabasePassword)>> ELSE << >>]
  /\ reader' = Measured("login", Language, reader.still)
  /\ UNCHANGED <<file, disks, saver, checked, saved, answer>>

\* The second one answers; without a line the language of an earlier session stays.
LoginLanguage ==
  /\ reader.at = "answer" /\ reader.call = "login" /\ reader.index = Language
  /\ opening' = [opening EXCEPT
       !.done = TRUE, !.licence = reader.licence, !.still = reader.still, !.sure = checked,
       !.language = IF HasLine THEN <<Line(reader.lines[1], Language)>> ELSE @]
  /\ reader' = Idle
  /\ UNCHANGED <<file, disks, saver, checked, saved, answer>>

LoginInit == RgInit /\ opening = NoSession

LoginNext ==
  \/ LoginBegins \/ LoginPassword \/ LoginLanguage
  \/ Step /\ opening' = Returned
  \/ Crash /\ opening' = NoSession

LoginSpec == LoginInit /\ [][LoginNext]_loginVars

-----------------------------------------------------------------------------
\* The line of a licence as it was written, counted from 0.
Written(l, i) == LinesOf(l)[i + 1]

\* A file that register_check has accepted and that stays gives a session its own
\* password and its own language, although it is read twice; and a password is never
\* that of another file than the language, unless the file changed between the two.
LoginConsistent ==
  opening.done =>
    /\ opening.sure => /\ opening.password = <<Written(opening.licence[1], DatabasePassword)>>
                       /\ opening.language = <<Written(opening.licence[1], Language)>>
    /\ opening.still /\ opening.password # << >> =>
         opening.password = <<Written(opening.licence[1], DatabasePassword)>>

=============================================================================
