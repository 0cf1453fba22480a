------------------------------ MODULE Database ------------------------------
(***************************************************************************)
(* The lookup service of jm/database.c: one read-only SQLite connection,   *)
(* five lazily compiled statements cached in file-scope pointers, and the  *)
(* live-data cursor that database_live_data_prepare opens and              *)
(* database_live_data_next advances.                                       *)
(*                                                                         *)
(* Each exported function is one action.  SQLite is external: `prepare',   *)
(* `reset', `bind', `step' and `finalize' are modelled by what sqlite3.h   *)
(* (3.7.10) promises, and may fail at any call.                            *)
(*                                                                         *)
(* Texts are not spelled out: a text is a record naming the place it came  *)
(* from.  A connection is named by the number of the session that opened   *)
(* it; 0 stands for the null pointer, so slot[s].conn = 0 is a NULL        *)
(* statement pointer.                                                      *)
(***************************************************************************)
EXTENDS Integers, Sequences, FiniteSets

CONSTANTS
  Languages,      \* languages the database has rows for
  Names,          \* (name, class) pairs of the Text table
  Undefined,      \* the pair ("Undefined", "System") of that table
  Codes,          \* (code, class) pairs of the TroubleCode table
  Classes,        \* classes of the LiveData table
  Commands,       \* (name, class) pairs, or ids, of the Command table
  TextTable,      \* [Languages -> [Names -> column]]
  TroubleTable,   \* [Languages -> [Codes -> row]]
  LiveTable,      \* [Languages -> [Classes -> number of rows]]
  CommandTable,   \* the members of Commands that have a row
  FileKey,        \* the key sys.db is encrypted with, or NoKey
  NoKey,          \* no password line, or an empty one
  NoLanguage,     \* the zeroed language buffer, or no language line
  NoClass,        \* the live-data cursor was not prepared
  Registrations,  \* what demo.dat can decrypt to: [password, language]
  Calls,          \* the lookups the client uses, a subset of Slots
  Faults,         \* the SQLite calls that may fail: open, prepare, step
  MaxSessions     \* bound on the number of database_init calls

\* The five static sqlite3_stmt pointers, named after the function that owns each.
Slots == {"getText", "getTroubleCode", "getLiveData", "getCommand", "getCommandById"}

Column == {"absent", "null", "text"}
NoRow  == [content |-> "absent", description |-> "absent"]
Row    == [content : {"null", "text"}, description : {"null", "text"}] \cup {NoRow}

ASSUME DatabaseAssumption ==
  /\ MaxSessions \in Nat
  /\ Undefined \in Names
  /\ NoLanguage \notin Languages
  /\ NoClass \notin Classes
  /\ Calls \subseteq Slots
  /\ Faults \subseteq {"open", "prepare", "step"}
  /\ TextTable \in [Languages -> [Names -> Column]]
  /\ TroubleTable \in [Languages -> [Codes -> Row]]
  /\ LiveTable \in [Languages -> [Classes -> Nat]]
  /\ \A r \in Registrations : r.language \in Languages \cup {NoLanguage}

VARIABLES
  reg,        \* the lines demo.dat decrypted to at the latest database_init
  db,         \* the connection `db' points to, 0 when NULL
  access,     \* "none", "sick" (open failed), "locked" (wrong key), "keyed"
  session,    \* number of database_init calls so far
  conns,      \* connections SQLite has not closed
  stmts,      \* <<slot, connection>> of the statements SQLite has not finalized
  slot,       \* the static pointers and the statement behind each
  language,   \* the static language buffer
  liveBuf,    \* liveDataClass: "null", "alloc" or "freed"
  cursor,     \* live-data statement: rows stepped over, class bound, binding
  client,     \* what the caller of the live-data cursor knows
  undefined,  \* a call reached undefined behaviour
  fault,      \* calls on each slot since SQLite last failed in one, up to 2
  last        \* the latest lookup and its answer

connVars == <<reg, db, access, session, conns, language, liveBuf>>
liveVars == <<cursor, client>>
vars == <<connVars, stmts, slot, liveVars, undefined, fault, last>>

-----------------------------------------------------------------------------
(* Texts, answers and tables *)

Text(from, l, k)   == [from |-> from, lang |-> l, key |-> k]
FromArgument(k)    == Text("argument", NoLanguage, k)   \* g_utf8_to_utf16 of the name
Unwritten          == Text("unwritten", NoLanguage, Undefined)

Answer(call, arg, ret, out) == [call |-> call, arg |-> arg, ret |-> ret, out |-> out]
NoAnswer == Answer("none", Undefined, FALSE, << >>)

TextRow(l, n)    == IF l \in Languages THEN TextTable[l][n] ELSE "absent"
TroubleRow(l, c) == IF l \in Languages THEN TroubleTable[l][c] ELSE NoRow
LiveRows(l, k)   == IF l \in Languages THEN LiveTable[l][k] ELSE 0

-----------------------------------------------------------------------------
(* One use of a cached statement: the static pointer, the statement behind *)
(* it, and `env', which says what SQLite does.                             *)

NullSlot == [conn |-> 0, phase |-> "ready"]

StepResults == IF "step" \in Faults THEN BOOLEAN ELSE {TRUE}
Env == [prepare : IF "prepare" \in Faults THEN BOOLEAN ELSE {TRUE}, step : StepResults]

\* The pointer is not NULL, but the statement behind it was finalized.
Stale(s) == slot[s].conn # 0 /\ <<s, slot[s].conn>> \notin stmts

\* `if (stmt == NULL) sqlite3_prepare_v2': the first query of a connection reads
\* the schema, so it needs the right key; a failure leaves the pointer NULL.
Compile(sl, env) ==
  IF sl.conn = 0 /\ access = "keyed" /\ env.prepare THEN [NullSlot EXCEPT !.conn = db] ELSE sl

\* sqlite3_reset rewinds the statement, and repeats the error of its last step.
ResetOK(sl) == sl.phase # "failed"
Reset(sl)   == [sl EXCEPT !.phase = "ready"]

\* Mutant: the early return after a failed prepare (database.c:71) is dropped.
LeftUnreturned(c, outcome) == [c EXCEPT !.phase = outcome]

\* What a use that ended with `outcome' leaves of the compiled statement.
Left(c, outcome) ==
  CASE outcome = "unprepared" -> c
    [] outcome = "reset"      -> Reset(c)
    [] OTHER                  -> [c EXCEPT !.phase = outcome]

\* Mutant: sqlite3_reset (database.c:75) is left out, so that a statement that was
\* stepped refuses its bindings.
RunUnreset(sl, env, found) ==
  LET c       == Compile(sl, env)
      outcome == CASE c.conn = 0         -> "unprepared"
                   [] c.phase # "ready"  -> "reset"
                   [] OTHER              -> IF ~env.step THEN "failed"
                                            ELSE IF found THEN "row" ELSE "done"
  IN  [outcome |-> outcome,
       slot    |-> IF outcome \in {"unprepared", "reset"} THEN c ELSE Left(c, outcome),
       fault   |-> outcome = "failed" \/ (outcome = "unprepared" /\ ~env.prepare)]

\* prepare, reset, bind, step; `found' says whether the query has a row.
Run(sl, env, found) ==
  LET c       == Compile(sl, env)
      outcome == CASE c.conn = 0      -> "unprepared"
                   [] ~ResetOK(c)     -> "reset"
                   [] OTHER           -> IF ~env.step THEN "failed"
                                         ELSE IF found THEN "row" ELSE "done"
  IN  [outcome |-> outcome,
       slot    |-> Left(c, outcome),
       fault   |-> outcome = "failed" \/ (outcome = "unprepared" /\ ~env.prepare)]

NotRun(sl) == [outcome |-> "none", slot |-> sl, fault |-> FALSE]

\* Statements compiled by the step enter SQLite's list of the connection.
Track(newSlot) ==
  stmts \cup {<<s, newSlot[s].conn>> : s \in {x \in Slots : newSlot[x].conn # slot[x].conn}}

\* Ages a statement by one call of the client, which may run it more than once.
Age(age, failed)  == IF failed THEN 0 ELSE IF age = 2 THEN 2 ELSE age + 1
Aged(age, runs)   == IF \A r \in runs : r.outcome = "none" THEN age
                     ELSE Age(age, \E r \in runs : r.fault)

\* The call touches a finalized statement: nothing after it can be relied on.
UseFinalized(s) ==
  /\ Stale(s)
  /\ undefined' = TRUE
  /\ last' = NoAnswer
  /\ UNCHANGED <<connVars, stmts, slot, liveVars, fault>>

-----------------------------------------------------------------------------
(* The exported functions *)

TextOut(outcome, l, n) ==
  IF outcome = "row" /\ TextRow(l, n) = "text" THEN Text("table", l, n) ELSE FromArgument(n)

\* database_init: `r' is what register_decrypt reads.  The client opens a
\* session only when none is open, and closes only an open one.
Open(r, ok) ==
  /\ db = 0 /\ session < MaxSessions /\ ~undefined
  /\ session' = session + 1
  /\ db' = session + 1                  \* a failed open still sets the handle
  /\ conns' = conns \cup {session + 1}
  /\ IF ok
     THEN /\ reg' = r
          /\ access' = IF r.password = FileKey THEN "keyed" ELSE "locked"
          /\ language' = IF r.language = NoLanguage THEN language ELSE r.language
          /\ liveBuf' = "alloc"
     ELSE /\ access' = "sick"
          /\ UNCHANGED <<reg, language, liveBuf>>
  /\ last' = NoAnswer
  /\ UNCHANGED <<stmts, slot, liveVars, undefined, fault>>

\* Mutants: `if' for the `while' of database.c:39.
FinalizedByIf == IF stmts = {} THEN {} ELSE {CHOOSE st \in stmts : TRUE}
\* Mutant: liveDataClass is freed without regard to NULL.
StringUnchecked == liveBuf # "alloc"

\* The loop over sqlite3_next_stmt, and g_string_free of a string already freed
\* (NULL is let through by the guard of g_string_free).
Finalized   == {st \in stmts : st[2] = db}
DoubleFree  == liveBuf = "freed"

\* database_dispose finalizes every statement of the connection and closes it;
\* it leaves the static statement pointers and liveDataClass as they are.
Dispose ==
  /\ db # 0 /\ ~undefined
  /\ stmts' = stmts \ Finalized
  /\ conns' = IF \E st \in stmts' : st[2] = db THEN conns ELSE conns \ {db}
  /\ db' = 0
  /\ access' = "none"
  /\ undefined' = DoubleFree
  /\ liveBuf' = IF liveBuf = "null" THEN "null" ELSE "freed"
  /\ client' = [armed |-> FALSE, class |-> NoClass, delivered |-> << >>]
  /\ last' = NoAnswer
  /\ UNCHANGED <<reg, session, slot, language, cursor, fault>>

GetText(n, env) ==
  /\ "getText" \in Calls /\ ~undefined
  /\ \/ UseFinalized("getText")
     \/ /\ ~Stale("getText")
        /\ LET run == Run(slot["getText"], env, TextRow(language, n) # "absent")
           IN  /\ slot' = [slot EXCEPT !["getText"] = run.slot]
               /\ fault' = [fault EXCEPT !["getText"] = Aged(@, {run})]
               /\ last' = Answer("getText", n, run.outcome # "unprepared",
                                 <<TextOut(run.outcome, language, n)>>)
        /\ stmts' = Track(slot')
        /\ UNCHANGED <<connVars, liveVars, undefined>>

\* database_get_trouble_code calls database_get_text("Undefined", "System") for a
\* column that is NULL, and for both when there is no row, while its own
\* statement is still on the row.  `e[2]' and `e[3]' are for those calls.
GetTroubleCode(c, e) ==
  LET row  == TroubleRow(language, c)
      run  == Run(slot["getTroubleCode"], e[1], row # NoRow)
      Missing(col) == run.outcome = "done" \/ (run.outcome = "row" /\ row[col] = "null")
      TextRun(sl, col, env) == IF Missing(col)
                               THEN Run(sl, env, TextRow(language, Undefined) # "absent")
                               ELSE NotRun(sl)
      one  == TextRun(slot["getText"], "content", e[2])
      two  == TextRun(one.slot, "description", e[3])
      Out(col, nested, otherwise) ==
        IF Missing(col) THEN TextOut(nested.outcome, language, Undefined)
        ELSE IF run.outcome = "row" THEN Text("table", language, <<c, col>>)
        ELSE otherwise
  IN  /\ "getTroubleCode" \in Calls /\ ~undefined
      /\ \/ UseFinalized("getTroubleCode")
         \/ /\ ~Stale("getTroubleCode")
            /\ Missing("content") \/ Missing("description")
            /\ UseFinalized("getText")
         \/ /\ ~Stale("getTroubleCode")
            /\ Missing("content") \/ Missing("description") => ~Stale("getText")
            /\ slot' = [slot EXCEPT !["getTroubleCode"] = run.slot, !["getText"] = two.slot]
            /\ stmts' = Track(slot')
            /\ fault' = [fault EXCEPT !["getTroubleCode"] = Aged(@, {run}),
                                      !["getText"] = Aged(@, {one, two})]
            /\ last' = Answer("getTroubleCode", c, run.outcome # "unprepared",
                              <<Out("content", one, FromArgument(c)),
                                Out("description", two, Unwritten)>>)
            /\ UNCHANGED <<connVars, liveVars, undefined>>

\* Mutants: what sqlite3_reset returns is ignored; it is not called at all.
ArmedAnyway(c) == c.conn # 0
NotRewound(c)  == c

\* database_live_data_prepare returns TRUE; the statement it leaves.
Armed(c)   == c.conn # 0 /\ ResetOK(c)
Rewound(c) == IF c.conn = 0 THEN c ELSE Reset(c)

\* database_live_data_prepare copies the class into liveDataClass before it
\* resets; when the reset reports an old error the statement keeps pointing into
\* the buffer that was just rewritten, with the length of the old class.
LivePrepare(k, env) ==
  LET c   == Compile(slot["getLiveData"], env)
      ret == Armed(c)
  IN  /\ "getLiveData" \in Calls /\ ~undefined
      /\ \/ UseFinalized("getLiveData")
         \/ /\ ~Stale("getLiveData")
            /\ slot' = [slot EXCEPT !["getLiveData"] = Rewound(c)]
            /\ stmts' = Track(slot')
            /\ cursor' = IF c.conn = 0 THEN cursor
                         ELSE IF ResetOK(c) THEN [cursor EXCEPT !.class = k, !.bound = "copy"]
                         ELSE [cursor EXCEPT !.bound = "overwritten"]
            /\ client' = [armed |-> ret, class |-> IF ret THEN k ELSE NoClass,
                          delivered |-> << >>]
            /\ fault' = [fault EXCEPT !["getLiveData"] = Age(@, c.conn = 0 /\ ~env.prepare)]
            /\ last' = Answer("getLiveData", k, ret, << >>)
            /\ UNCHANGED <<connVars, undefined>>

\* Where the next step starts, and whether a row follows.
StartOf(sl)     == IF sl.phase = "row" THEN cursor.pos ELSE 0
RowAfter(start) == start < LiveRows(language, cursor.class)

\* database_live_data_next steps without resetting: SQLite starts over by itself
\* after a step that returned anything but a row.  The client calls it after a
\* prepare that succeeded, or before any (sqlite3_step(NULL) is refused).
LiveNext(ok) ==
  LET sl    == slot["getLiveData"]
      start == StartOf(sl)
      more  == ok /\ RowAfter(start)
  IN  /\ "getLiveData" \in Calls /\ ~undefined
      /\ \/ UseFinalized("getLiveData")
         \/ /\ sl.conn = 0
            /\ last' = Answer("liveNext", NoClass, FALSE, << >>)
            /\ UNCHANGED <<connVars, stmts, slot, liveVars, undefined, fault>>
         \/ /\ ~Stale("getLiveData") /\ client.armed
            /\ slot' = [slot EXCEPT !["getLiveData"].phase =
                          IF ~ok THEN "failed" ELSE IF more THEN "row" ELSE "done"]
            /\ cursor' = [cursor EXCEPT !.pos = IF more THEN start + 1 ELSE 0]
            /\ client' = [client EXCEPT !.delivered =
                            IF more THEN Append(@, start + 1) ELSE << >>]
            /\ fault' = [fault EXCEPT !["getLiveData"] = Age(@, ~ok)]
            /\ last' = Answer("liveNext", cursor.class, more, << >>)
            /\ UNCHANGED <<connVars, stmts, undefined>>

\* database_get_command and database_get_command_by_id: the same code on two slots.
GetCommand(s, k, env) ==
  /\ s \in Calls /\ ~undefined
  /\ \/ UseFinalized(s)
     \/ /\ ~Stale(s)
        /\ LET run == Run(slot[s], env, k \in CommandTable)
           IN  /\ slot' = [slot EXCEPT ![s] = run.slot]
               /\ fault' = [fault EXCEPT ![s] = Aged(@, {run})]
               /\ last' = Answer(s, k, run.outcome = "row",
                                 <<IF run.outcome = "row" THEN Text("table", NoLanguage, k)
                                   ELSE Unwritten>>)
        /\ stmts' = Track(slot')
        /\ UNCHANGED <<connVars, liveVars, undefined>>

-----------------------------------------------------------------------------
Init ==
  /\ reg = [password |-> NoKey, language |-> NoLanguage]
  /\ db = 0 /\ access = "none" /\ session = 0
  /\ conns = {} /\ stmts = {}
  /\ slot = [s \in Slots |-> NullSlot]
  /\ language = NoLanguage
  /\ liveBuf = "null"
  /\ cursor = [pos |-> 0, class |-> NoClass, bound |-> "none"]
  /\ client = [armed |-> FALSE, class |-> NoClass, delivered |-> << >>]
  /\ undefined = FALSE
  /\ fault = [s \in Slots |-> 2]
  /\ last = NoAnswer

Next ==
  \/ \E r \in Registrations, ok \in BOOLEAN : (ok \/ "open" \in Faults) /\ Open(r, ok)
  \/ Dispose
  \/ \E n \in Names, e \in Env : GetText(n, e)
  \/ \E c \in Codes, e \in Env \X Env \X Env : GetTroubleCode(c, e)
  \/ \E k \in Classes, e \in Env : LivePrepare(k, e)
  \/ \E ok \in StepResults : LiveNext(ok)
  \/ \E s \in {"getCommand", "getCommandById"}, k \in Commands, e \in Env : GetCommand(s, k, e)

Spec == Init /\ [][Next]_vars

-----------------------------------------------------------------------------
(* Properties *)

TypeOK ==
  /\ db \in 0..MaxSessions /\ session \in 0..MaxSessions
  /\ access \in {"none", "sick", "locked", "keyed"}
  /\ conns \subseteq 1..MaxSessions
  /\ stmts \subseteq Slots \X (1..MaxSessions)
  /\ slot \in [Slots -> [conn : 0..MaxSessions, phase : {"ready", "row", "done", "failed"}]]
  /\ language \in Languages \cup {NoLanguage}
  /\ liveBuf \in {"null", "alloc", "freed"}
  /\ cursor \in [pos : Nat, class : Classes \cup {NoClass},
                 bound : {"none", "copy", "overwritten"}]
  /\ client \in [armed : BOOLEAN, class : Classes \cup {NoClass}, delivered : Seq(Nat)]
  /\ undefined \in BOOLEAN
  /\ fault \in [Slots -> 0..2]

-----------------------------------------------------------------------------
(* What the answers mean: a definition that knows nothing of statements,   *)
(* pointers and cursors, only of the tables and the registered language.   *)

Lookup(n) == IF TextRow(reg.language, n) = "text" THEN Text("table", reg.language, n)
             ELSE FromArgument(n)

TroubleText(c, col) ==
  IF TroubleRow(reg.language, c)[col] = "text" THEN Text("table", reg.language, <<c, col>>)
  ELSE Lookup(Undefined)

Expected(call, arg) ==
  CASE call = "getText"        -> Answer(call, arg, TRUE, <<Lookup(arg)>>)
    [] call = "getTroubleCode" -> Answer(call, arg, TRUE, <<TroubleText(arg, "content"),
                                                            TroubleText(arg, "description")>>)
    [] call = "getLiveData"    -> Answer(call, arg, TRUE, << >>)
    [] OTHER -> Answer(call, arg, arg \in CommandTable,
                       <<IF arg \in CommandTable THEN Text("table", NoLanguage, arg)
                         ELSE Unwritten>>)

Uses(call) == IF call = "getTroubleCode" THEN {call, "getText"} ELSE {call}

\* An answer is exactly what the tables of the registered language say, unless
\* SQLite failed in the statement during this call or the one before it: a failed
\* step spoils one more call (sqlite3_reset repeats its error and the reset at
\* database.c:75, :115, :171, :284 or :313 ends the call), never a third one and
\* never a call of another function.
AnswersExact ==
  /\ last.call \in Slots /\ access = "keyed" /\ reg.language \in Languages
  /\ \A s \in Uses(last.call) : fault[s] = 2
  => last = Expected(last.call, last.arg)

\* Until it returns FALSE, database_live_data_next delivers the rows of the class
\* last prepared, each once and in order, whatever other lookups run in between.
RowsInOrder ==
  client.armed => /\ client.delivered = [i \in 1..Len(client.delivered) |-> i]
                  /\ Len(client.delivered) <= LiveRows(language, client.class)

\* A FALSE from database_live_data_next means that every row was delivered,
\* unless the step itself failed (the two are not told apart, database.c:192).
EndMeansAllRows ==
  [][ /\ client.armed /\ last'.call = "liveNext" /\ ~last'.ret
      /\ fault'["getLiveData"] # 0
      => Len(client.delivered) = LiveRows(language, client.class) ]_vars

\* The statement a client steps is bound to liveDataClass, which holds the class
\* the client asked for: no step reads a buffer rewritten by a later prepare.
CursorBound ==
  client.armed => /\ cursor.bound = "copy" /\ cursor.class = client.class
                  /\ slot["getLiveData"].conn = db /\ liveBuf = "alloc"

\* SQLite keeps exactly the statements that a static pointer of the open session
\* designates: database_dispose can finalize them all, and no pointer compiled in
\* this session is left on a statement that was finalized.
StatementsAccounted ==
  stmts = {<<s, db>> : s \in {x \in Slots : db # 0 /\ slot[x].conn = db}}

\* sqlite3_close never refuses for statements left over: no session leaves its
\* connection open.
NoConnectionLeak == conns = IF db = 0 THEN {} ELSE {db}

\* In a program that opens the database once, whatever fails, only a lookup made
\* after database_dispose reaches undefined behaviour; the dispose itself never does.
DefinedInFirstSession ==
  session <= 1 /\ undefined => db = 0 /\ \E s \in Slots : Stale(s)

\* sqlite3.h: a prepared statement is not used after it has been finalized.
NeverUseFinalized == ~(undefined /\ \E s \in Slots : Stale(s))

=============================================================================
