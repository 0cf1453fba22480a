--------------------------- MODULE DatabaseProofs ---------------------------
(***************************************************************************)
(* Safety of the lookup service for every table, every set of clients'     *)
(* calls, every choice of failing SQLite calls and any number of sessions. *)
(*                                                                         *)
(* The properties of Database are not inductive.  What is missing says how *)
(* sessions, pointers and the freed string are related (Sessions, Freed)   *)
(* and where the SQLite row pointer stands between two calls of            *)
(* database_live_data_next (CursorAt).  That the answers are exact needs   *)
(* one thing more: which statements an old error may still be behind       *)
(* (Answered).                                                             *)
(***************************************************************************)
EXTENDS Database, Login, TLAPS

SlotRec == [conn : 0..MaxSessions, phase : {"ready", "row", "done", "failed"}]

\* The open session is the latest one; pointers are of this or earlier sessions;
\* a pointer of the open session was compiled with the right key.
Sessions ==
  /\ db \in {0, session}
  /\ \A s \in Slots : slot[s].conn <= session
  /\ \A s \in Slots : db # 0 /\ slot[s].conn = db => access = "keyed"
  /\ access = "keyed" => db # 0 /\ liveBuf = "alloc"
  /\ client.armed => db # 0

\* The string was freed by the dispose of this session, or of an earlier one.
Freed == liveBuf = "freed" => IF db = 0 THEN session >= 1 ELSE session >= 2

\* Between two calls of database_live_data_next the statement stands on the row
\* delivered last, or before the first row.
CursorAt ==
  client.armed => /\ client.class \in Classes
                  /\ IF slot["getLiveData"].phase = "row"
                     THEN cursor.pos = Len(client.delivered)
                     ELSE client.delivered = << >>

Inv == TypeOK /\ StatementsAccounted /\ NoConnectionLeak /\ CursorBound /\ RowsInOrder
       /\ DefinedInFirstSession /\ Sessions /\ Freed /\ CursorAt

-----------------------------------------------------------------------------
(* One use of a cached statement *)

\* The pointer of a slot changes only from NULL, and then to the open connection.
SameOrCompiled(old, new) ==
  new.conn = old.conn \/ (old.conn = 0 /\ new.conn = db /\ access = "keyed")

\* Compile, Reset and Run keep the type of a slot and change its pointer only by
\* compiling: sqlite3_prepare_v2 under `if (stmt == NULL)'.
LEMMA CompileSlot ==
  ASSUME TypeOK, NEW sl \in SlotRec, NEW env
  PROVE  Compile(sl, env) \in SlotRec /\ SameOrCompiled(sl, Compile(sl, env))
BY DEF TypeOK, SlotRec, Compile, NullSlot, SameOrCompiled

LEMMA ResetSlot ==
  ASSUME NEW sl \in SlotRec
  PROVE  Reset(sl) \in SlotRec /\ Reset(sl).conn = sl.conn /\ Reset(sl).phase = "ready"
BY DEF SlotRec, Reset

LEMMA RunSlot ==
  ASSUME TypeOK, NEW sl \in SlotRec, NEW env, NEW found
  PROVE  Run(sl, env, found).slot \in SlotRec /\ SameOrCompiled(sl, Run(sl, env, found).slot)
<1> DEFINE c == Compile(sl, env)
           outcome == Run(sl, env, found).outcome
<1>1. c \in SlotRec /\ SameOrCompiled(sl, c)
  BY CompileSlot
<1>2. outcome \in {"unprepared", "reset", "failed", "row", "done"}
  BY DEF Run
<1>3. Run(sl, env, found).slot = Left(c, outcome)
  BY DEF Run
<1>4. Left(c, outcome) \in SlotRec /\ Left(c, outcome).conn = c.conn
  BY <1>1, <1>2 DEF SlotRec, Left, Reset
<1> QED  BY <1>1, <1>3, <1>4 DEF SameOrCompiled

\* Track enters exactly the statements that the new pointers designate.
LEMMA TrackAccounts ==
  ASSUME TypeOK, Sessions, StatementsAccounted,
         NEW new \in [Slots -> SlotRec],
         \A s \in Slots : SameOrCompiled(slot[s], new[s])
  PROVE  Track(new) = {<<s, db>> : s \in {x \in Slots : db # 0 /\ new[x].conn = db}}
<1>1. \A s \in Slots : new[s].conn # slot[s].conn => new[s].conn = db /\ db # 0
  BY DEF SameOrCompiled, Sessions
<1>2. \A s \in Slots : db # 0 /\ slot[s].conn = db => new[s].conn = db
  BY DEF SameOrCompiled
<1> QED  BY <1>1, <1>2 DEF Track, StatementsAccounted

\* Ages stay in range.
LEMMA AgeRange ==
  ASSUME NEW age \in 0..2, NEW failed
  PROVE  Age(age, failed) \in 0..2
BY DEF Age

LEMMA AgedRange ==
  ASSUME NEW age \in 0..2, NEW runs
  PROVE  Aged(age, runs) \in 0..2
BY AgeRange DEF Aged

-----------------------------------------------------------------------------
(* Each action preserves Inv *)

\* A lookup that only runs statements other than the live-data one: GetText,
\* GetTroubleCode and GetCommand end this way.
LEMMA LookupStep ==
  ASSUME Inv, ~undefined, slot' \in [Slots -> SlotRec],
         \A s \in Slots : SameOrCompiled(slot[s], slot'[s]),
         slot'["getLiveData"] = slot["getLiveData"],
         stmts' = Track(slot'), fault' \in [Slots -> 0..2],
         UNCHANGED <<connVars, liveVars, undefined>>
  PROVE  Inv'
<1> USE DEF Inv
<1> USE DEF connVars, liveVars
<1>1. TypeOK'
  <2>1. stmts' \subseteq Slots \X (1..MaxSessions)
    <3>1. stmts' = {<<s, db>> : s \in {x \in Slots : db # 0 /\ slot'[x].conn = db}}
      BY TrackAccounts
    <3>2. db # 0 => db \in 1..MaxSessions
      BY DatabaseAssumption DEF TypeOK
    <3> QED  BY <3>1, <3>2
  <2> QED  BY <2>1 DEF TypeOK, SlotRec
<1>2. StatementsAccounted'
  BY TrackAccounts DEF StatementsAccounted
<1>3. NoConnectionLeak' /\ RowsInOrder' /\ Freed' /\ CursorAt' /\ CursorBound'
  BY DEF NoConnectionLeak, RowsInOrder, Freed, CursorAt, CursorBound, LiveRows
<1>4. Sessions'
  <2>1. \A s \in Slots : slot'[s].conn <= session
    BY DEF Sessions, SameOrCompiled, TypeOK
  <2>2. \A s \in Slots : db # 0 /\ slot'[s].conn = db => access = "keyed"
    BY DEF Sessions, SameOrCompiled
  <2> QED  BY <2>1, <2>2 DEF Sessions
<1>5. DefinedInFirstSession'
  BY DEF DefinedInFirstSession
<1> QED  BY <1>1, <1>2, <1>3, <1>4, <1>5

\* A call that touches a finalized statement can only happen after a dispose.
LEMMA UndefinedStep ==
  ASSUME Inv, NEW s \in Slots, UseFinalized(s)
  PROVE  Inv'
<1> USE DEF Inv, UseFinalized, connVars, liveVars
<1>1. TypeOK'
  BY DEF TypeOK
<1>2. StatementsAccounted' /\ NoConnectionLeak' /\ RowsInOrder' /\ Freed' /\ CursorAt'
      /\ CursorBound' /\ Sessions'
  BY DEF StatementsAccounted, NoConnectionLeak, RowsInOrder, Freed, CursorAt, CursorBound,
         Sessions, LiveRows
<1>3. slot[s].conn # db
  BY DEF Stale, StatementsAccounted
<1>4. session <= 1 => db = 0
  BY <1>3 DEF Stale, Sessions, TypeOK
<1>5. Stale(s)'
  BY DEF Stale
<1> QED  BY <1>1, <1>2, <1>4, <1>5 DEF DefinedInFirstSession

LEMMA OpenStep ==
  ASSUME Inv, NEW r \in Registrations, NEW ok \in BOOLEAN, Open(r, ok)
  PROVE  Inv'
<1> USE DEF Inv, Open, liveVars
<1>0. MaxSessions \in Nat /\ r.language \in Languages \cup {NoLanguage}
  BY DatabaseAssumption
<1>1. ~client.armed /\ access # "keyed" /\ stmts = {} /\ conns = {}
  BY DEF Sessions, StatementsAccounted, NoConnectionLeak
<1>2. TypeOK'
  BY <1>0, <1>1 DEF TypeOK
<1>3. \A s \in Slots : slot[s].conn # session + 1
  BY DEF Sessions, TypeOK
<1>4. StatementsAccounted' /\ NoConnectionLeak'
  <2>1. db' = session + 1 /\ db' # 0
    BY DEF TypeOK
  <2>2. slot' = slot /\ stmts' = {} /\ conns' = {db'}
    BY <1>1, <2>1
  <2> QED  BY <1>3, <2>1, <2>2 DEF StatementsAccounted, NoConnectionLeak
<1>5. CursorBound' /\ RowsInOrder' /\ CursorAt'
  BY <1>1 DEF CursorBound, RowsInOrder, CursorAt
<1>6. Sessions'
  BY <1>1, <1>3, <1>0 DEF Sessions, TypeOK
<1>7. Freed'
  BY DEF Freed, TypeOK
<1>8. DefinedInFirstSession'
  BY DEF DefinedInFirstSession
<1> QED  BY <1>2, <1>4, <1>5, <1>6, <1>7, <1>8

LEMMA DisposeStep ==
  ASSUME Inv, Dispose
  PROVE  Inv'
<1> USE DEF Inv, Dispose
<1>1. stmts' = {}
  BY DEF StatementsAccounted, Finalized
<1>2. TypeOK'
  <2>1. conns' \subseteq conns /\ undefined' \in BOOLEAN
    BY DEF DoubleFree
  <2>2. client' \in [armed : BOOLEAN, class : Classes \cup {NoClass}, delivered : Seq(Nat)]
    OBVIOUS
  <2>3. db' \in 0..MaxSessions
    BY DatabaseAssumption DEF TypeOK
  <2> QED  BY <1>1, <2>1, <2>2, <2>3 DEF TypeOK
<1>3. StatementsAccounted' /\ NoConnectionLeak'
  BY <1>1 DEF StatementsAccounted, NoConnectionLeak
<1>4. CursorBound' /\ RowsInOrder' /\ CursorAt'
  BY DEF CursorBound, RowsInOrder, CursorAt
<1>5. Sessions' /\ Freed'
  BY DEF Sessions, Freed, TypeOK
<1>6. DefinedInFirstSession'
  BY DEF DoubleFree, Freed, DefinedInFirstSession, TypeOK
<1> QED  BY <1>2, <1>3, <1>4, <1>5, <1>6

LEMMA GetTextStep ==
  ASSUME Inv, NEW n, NEW env, GetText(n, env)
  PROVE  Inv'
<1>1. CASE UseFinalized("getText")
  BY <1>1, UndefinedStep DEF Slots
<1>2. CASE ~UseFinalized("getText")
  <2> DEFINE run == Run(slot["getText"], env, TextRow(language, n) # "absent")
  <2>1. run.slot \in SlotRec /\ SameOrCompiled(slot["getText"], run.slot)
    BY RunSlot DEF Inv, TypeOK, SlotRec, Slots
  <2>2. slot' = [slot EXCEPT !["getText"] = run.slot]
        /\ fault' = [fault EXCEPT !["getText"] = Aged(@, {run})]
        /\ stmts' = Track(slot') /\ ~undefined /\ UNCHANGED <<connVars, liveVars, undefined>>
    BY <1>2 DEF GetText
  <2>3. fault' \in [Slots -> 0..2]
    BY <2>2, AgedRange DEF Inv, TypeOK, Slots
  <2>4. slot' \in [Slots -> SlotRec]
    BY <2>1, <2>2 DEF Inv, TypeOK, SlotRec
  <2>5. \A s \in Slots : SameOrCompiled(slot[s], slot'[s])
    BY <2>1, <2>2 DEF SameOrCompiled, Inv, TypeOK
  <2>6. slot'["getLiveData"] = slot["getLiveData"]
    BY <2>2 DEF Slots, Inv, TypeOK
  <2> QED  BY <2>2, <2>3, <2>4, <2>5, <2>6, LookupStep
<1> QED  BY <1>1, <1>2

LEMMA GetCommandStep ==
  ASSUME Inv, NEW s \in {"getCommand", "getCommandById"}, NEW k, NEW env, GetCommand(s, k, env)
  PROVE  Inv'
<1> USE DEF Slots
<1>1. CASE UseFinalized(s)
  BY <1>1, UndefinedStep
<1>2. CASE ~UseFinalized(s)
  <2> DEFINE run == Run(slot[s], env, k \in CommandTable)
  <2>1. run.slot \in SlotRec /\ SameOrCompiled(slot[s], run.slot)
    BY RunSlot DEF Inv, TypeOK, SlotRec
  <2>2. slot' = [slot EXCEPT ![s] = run.slot]
        /\ fault' = [fault EXCEPT ![s] = Aged(@, {run})]
        /\ stmts' = Track(slot') /\ ~undefined /\ UNCHANGED <<connVars, liveVars, undefined>>
    BY <1>2 DEF GetCommand
  <2>3. fault' \in [Slots -> 0..2]
    BY <2>2, AgedRange DEF Inv, TypeOK
  <2>4. slot' \in [Slots -> SlotRec]
    BY <2>1, <2>2 DEF Inv, TypeOK, SlotRec
  <2>5. \A x \in Slots : SameOrCompiled(slot[x], slot'[x])
    BY <2>1, <2>2 DEF SameOrCompiled, Inv, TypeOK
  <2>6. slot'["getLiveData"] = slot["getLiveData"]
    BY <2>2 DEF Inv, TypeOK
  <2> QED  BY <2>2, <2>3, <2>4, <2>5, <2>6, LookupStep
<1> QED  BY <1>1, <1>2

LEMMA GetTroubleCodeStep ==
  ASSUME Inv, NEW c, NEW e, GetTroubleCode(c, e)
  PROVE  Inv'
<1> USE DEF Slots
<1>1. CASE \E s \in Slots : UseFinalized(s)
  BY <1>1, UndefinedStep
<1>2. CASE ~\E s \in Slots : UseFinalized(s)
  <2>1. PICK r1, r2, r3 :
          /\ r1.slot \in SlotRec /\ SameOrCompiled(slot["getTroubleCode"], r1.slot)
          /\ r2 \in SlotRec /\ SameOrCompiled(slot["getText"], r2)
          /\ slot' = [slot EXCEPT !["getTroubleCode"] = r1.slot, !["getText"] = r2]
          /\ fault' = [fault EXCEPT !["getTroubleCode"] = Aged(@, {r1}),
                                    !["getText"] = Aged(@, r3)]
          /\ stmts' = Track(slot') /\ ~undefined /\ UNCHANGED <<connVars, liveVars, undefined>>
    <3> DEFINE row  == TroubleRow(language, c)
               run  == Run(slot["getTroubleCode"], e[1], row # NoRow)
               Missing(col) == run.outcome = "done" \/ (run.outcome = "row" /\ row[col] = "null")
               TextRun(sl, col, env) == IF Missing(col)
                                        THEN Run(sl, env, TextRow(language, Undefined) # "absent")
                                        ELSE NotRun(sl)
               one  == TextRun(slot["getText"], "content", e[2])
               two  == TextRun(one.slot, "description", e[3])
    <3>1. run.slot \in SlotRec /\ SameOrCompiled(slot["getTroubleCode"], run.slot)
      BY RunSlot DEF Inv, TypeOK, SlotRec
    <3>2. ASSUME NEW sl \in SlotRec, NEW col, NEW env
          PROVE  TextRun(sl, col, env).slot \in SlotRec
                 /\ SameOrCompiled(sl, TextRun(sl, col, env).slot)
      <4>1. CASE Missing(col)
        BY <4>1, RunSlot DEF Inv
      <4>2. CASE ~Missing(col)
        BY <4>2 DEF NotRun, SameOrCompiled
      <4> QED  BY <4>1, <4>2
    <3>3. slot["getText"] \in SlotRec
      BY DEF Inv, TypeOK, SlotRec
    <3> HIDE DEF TextRun
    <3>4. two.slot \in SlotRec /\ SameOrCompiled(slot["getText"], two.slot)
      BY <3>2, <3>3 DEF SameOrCompiled
    <3>5. /\ slot' = [slot EXCEPT !["getTroubleCode"] = run.slot, !["getText"] = two.slot]
          /\ fault' = [fault EXCEPT !["getTroubleCode"] = Aged(@, {run}),
                                    !["getText"] = Aged(@, {one, two})]
          /\ stmts' = Track(slot') /\ ~undefined /\ UNCHANGED <<connVars, liveVars, undefined>>
      BY <1>2 DEF GetTroubleCode, TextRun
    <3> QED  BY <3>1, <3>4, <3>5
  <2>2. fault' \in [Slots -> 0..2]
    BY <2>1, AgedRange DEF Inv, TypeOK
  <2>3. slot' \in [Slots -> SlotRec]
    BY <2>1 DEF Inv, TypeOK, SlotRec
  <2>4. \A x \in Slots : SameOrCompiled(slot[x], slot'[x])
    BY <2>1 DEF SameOrCompiled, Inv, TypeOK
  <2>5. slot'["getLiveData"] = slot["getLiveData"]
    BY <2>1 DEF Inv, TypeOK
  <2> QED  BY <2>1, <2>2, <2>3, <2>4, <2>5, LookupStep
<1> QED  BY <1>1, <1>2

\* A prepare that returns TRUE leaves the cursor bound to the class asked for.
LEMMA LivePrepareStep ==
  ASSUME Inv, NEW k \in Classes, NEW env, LivePrepare(k, env)
  PROVE  Inv'
<1> USE DEF Slots
<1>1. CASE UseFinalized("getLiveData")
  BY <1>1, UndefinedStep
<1>2. CASE ~UseFinalized("getLiveData")
  <2> DEFINE c   == Compile(slot["getLiveData"], env)
             ret == Armed(c)
             new == Rewound(c)
  <2>1. /\ ~Stale("getLiveData") /\ ~undefined
        /\ slot' = [slot EXCEPT !["getLiveData"] = new]
        /\ stmts' = Track(slot')
        /\ cursor' = IF c.conn = 0 THEN cursor
                     ELSE IF ResetOK(c) THEN [cursor EXCEPT !.class = k, !.bound = "copy"]
                     ELSE [cursor EXCEPT !.bound = "overwritten"]
        /\ client' = [armed |-> ret, class |-> IF ret THEN k ELSE NoClass, delivered |-> << >>]
        /\ fault' = [fault EXCEPT !["getLiveData"] = Age(@, c.conn = 0 /\ ~env.prepare)]
        /\ UNCHANGED <<connVars, undefined>>
    BY <1>2 DEF LivePrepare
  <2>2. c \in SlotRec /\ SameOrCompiled(slot["getLiveData"], c)
    BY CompileSlot DEF Inv, TypeOK, SlotRec
  <2>3. new \in SlotRec /\ SameOrCompiled(slot["getLiveData"], new) /\ new.conn = c.conn
    BY <2>2, ResetSlot DEF SameOrCompiled, Rewound
  <2>4. slot' \in [Slots -> SlotRec]
    BY <2>1, <2>3 DEF Inv, TypeOK, SlotRec
  <2>5. \A x \in Slots : SameOrCompiled(slot[x], slot'[x])
    BY <2>1, <2>3 DEF SameOrCompiled, Inv, TypeOK
  <2>6. stmts' = {<<s, db>> : s \in {x \in Slots : db # 0 /\ slot'[x].conn = db}}
    BY <2>1, <2>4, <2>5, TrackAccounts DEF Inv
  <2>7. TypeOK'
    <3>1. db # 0 => db \in 1..MaxSessions
      BY DatabaseAssumption DEF Inv, TypeOK
    <3>2. stmts' \subseteq Slots \X (1..MaxSessions)
      BY <2>6, <3>1
    <3>3. fault' \in [Slots -> 0..2]
      BY <2>1, AgeRange DEF Inv, TypeOK
    <3>4. cursor' \in [pos : Nat, class : Classes \cup {NoClass},
                       bound : {"none", "copy", "overwritten"}]
      BY <2>1 DEF Inv, TypeOK
    <3>5. ret \in BOOLEAN
      BY DEF Armed, ResetOK
    <3>6. client' \in [armed : BOOLEAN, class : Classes \cup {NoClass}, delivered : Seq(Nat)]
      <4> HIDE DEF ret
      <4> QED  BY <2>1, <3>5
    <3> QED  BY <2>1, <2>4, <3>2, <3>3, <3>4, <3>6 DEF Inv, TypeOK, SlotRec, connVars
  <2>8. StatementsAccounted' /\ NoConnectionLeak'
    BY <2>1, <2>6 DEF StatementsAccounted, NoConnectionLeak, connVars, Inv
  <2>9. ret => new.conn = db /\ db # 0 /\ liveBuf = "alloc" /\ new.phase = "ready"
    <3>1. ret => c.conn # 0 /\ new.phase = "ready" /\ new.conn = c.conn
      BY <2>2, <2>3, ResetSlot DEF Armed, Rewound
    <3>2. c.conn = slot["getLiveData"].conn /\ c.conn # 0 => c.conn = db /\ db # 0
      BY <2>1 DEF Stale, StatementsAccounted, Inv
    <3>3. c.conn # 0 => c.conn = db
      BY <2>2, <3>2 DEF SameOrCompiled
    <3>4. c.conn # 0 => access = "keyed"
      BY <2>2, <3>3 DEF SameOrCompiled, Sessions, Inv
    <3> QED  BY <3>1, <3>3, <3>4 DEF Sessions, Inv
  <2>10. slot'["getLiveData"] = new
    BY <2>1 DEF Inv, TypeOK
  <2>11. CursorBound' /\ CursorAt'
    <3>1. ret => cursor'.class = k /\ cursor'.bound = "copy"
      BY <2>1 DEF Armed, Inv, TypeOK
    <3>2. client'.armed <=> ret
      BY <2>1
    <3>3. ret => client'.class = k /\ client'.delivered = << >>
      BY <2>1
    <3> HIDE DEF ret
    <3> QED  BY <2>1, <2>9, <2>10, <3>1, <3>2, <3>3 DEF CursorBound, CursorAt, connVars
  <2>12. RowsInOrder'
    <3>1. ret => LiveRows(language, k) \in Nat
      BY DatabaseAssumption DEF LiveRows
    <3>2. client'.armed => client'.delivered = << >> /\ client'.class = k /\ ret
      BY <2>1
    <3>3. language' = language
      BY <2>1 DEF connVars
    <3> QED  BY <3>1, <3>2, <3>3 DEF RowsInOrder, LiveRows
  <2>13. Sessions'
    <3>1. \A s \in Slots : slot'[s].conn <= session
      BY <2>5 DEF Sessions, SameOrCompiled, TypeOK, Inv
    <3>2. \A s \in Slots : db # 0 /\ slot'[s].conn = db => access = "keyed"
      BY <2>5 DEF Sessions, SameOrCompiled, Inv
    <3> QED  BY <2>1, <2>9, <3>1, <3>2 DEF Sessions, connVars, Inv
  <2>14. Freed' /\ DefinedInFirstSession'
    BY <2>1 DEF Freed, DefinedInFirstSession, connVars, Inv
  <2> QED  BY <2>7, <2>8, <2>11, <2>12, <2>13, <2>14 DEF Inv
<1> QED  BY <1>1, <1>2

\* A step of an armed cursor delivers the row after the last one, or ends.
LEMMA LiveNextStep ==
  ASSUME Inv, NEW ok \in BOOLEAN, LiveNext(ok)
  PROVE  Inv'
<1> USE DEF Slots
<1> DEFINE sl    == slot["getLiveData"]
           start == StartOf(sl)
           more  == ok /\ RowAfter(start)
<1>1. CASE UseFinalized("getLiveData")
  BY <1>1, UndefinedStep
<1>2. CASE UNCHANGED <<connVars, stmts, slot, liveVars, undefined, fault>>
  BY <1>2 DEF Inv, TypeOK, StatementsAccounted, NoConnectionLeak, CursorBound, RowsInOrder,
              DefinedInFirstSession, Stale, Sessions, Freed, CursorAt, connVars, liveVars, LiveRows
<1>3. CASE /\ ~Stale("getLiveData") /\ client.armed /\ ~undefined
           /\ slot' = [slot EXCEPT !["getLiveData"].phase =
                         IF ~ok THEN "failed" ELSE IF more THEN "row" ELSE "done"]
           /\ cursor' = [cursor EXCEPT !.pos = IF more THEN start + 1 ELSE 0]
           /\ client' = [client EXCEPT !.delivered = IF more THEN Append(@, start + 1) ELSE << >>]
           /\ fault' = [fault EXCEPT !["getLiveData"] = Age(@, ~ok)]
           /\ UNCHANGED <<connVars, stmts, undefined>>
  <2>1. /\ start \in Nat /\ start = Len(client.delivered)
        /\ client.delivered = [i \in 1..start |-> i]
    BY <1>3 DEF StartOf, CursorAt, RowsInOrder, Inv, TypeOK
  <2>2. /\ slot' \in [Slots -> SlotRec]
        /\ \A s \in Slots : slot'[s].conn = slot[s].conn
        /\ slot'["getLiveData"].phase = IF ~ok THEN "failed" ELSE IF more THEN "row" ELSE "done"
    BY <1>3 DEF Inv, TypeOK, SlotRec
  <2>3. client'.delivered = IF more THEN Append(client.delivered, start + 1) ELSE << >>
    BY <1>3 DEF Inv, TypeOK
  <2>4. client'.armed /\ client'.class = client.class /\ cursor'.class = cursor.class
        /\ cursor'.bound = cursor.bound
    BY <1>3 DEF Inv, TypeOK
  <2>5. cursor'.pos = IF more THEN start + 1 ELSE 0
    BY <1>3 DEF Inv, TypeOK
  <2>6. client.delivered \in Seq(Nat) /\ client'.delivered \in Seq(Nat)
    BY <2>1, <2>3 DEF Inv, TypeOK
  <2>7. TypeOK'
    <3>1. fault' \in [Slots -> 0..2]
      BY <1>3, AgeRange DEF Inv, TypeOK
    <3>2. cursor' \in [pos : Nat, class : Classes \cup {NoClass},
                       bound : {"none", "copy", "overwritten"}]
      <4>1. cursor' = [cursor EXCEPT !.pos = cursor'.pos]
        BY <1>3, <2>5 DEF Inv, TypeOK
      <4>2. cursor'.pos \in Nat
        BY <2>1, <2>5
      <4> QED  BY <4>1, <4>2 DEF Inv, TypeOK
    <3>3. client' \in [armed : BOOLEAN, class : Classes \cup {NoClass}, delivered : Seq(Nat)]
      <4>1. client' = [client EXCEPT !.delivered = client'.delivered]
        BY <1>3, <2>3 DEF Inv, TypeOK
      <4> QED  BY <4>1, <2>6 DEF Inv, TypeOK
    <3> QED  BY <1>3, <2>2, <3>1, <3>2, <3>3 DEF Inv, TypeOK, SlotRec, connVars
  <2>8. StatementsAccounted' /\ NoConnectionLeak'
    <3>1. {x \in Slots : db # 0 /\ slot'[x].conn = db} = {x \in Slots : db # 0 /\ slot[x].conn = db}
      BY <2>2
    <3> QED  BY <1>3, <3>1 DEF Inv, StatementsAccounted, NoConnectionLeak, connVars
  <2>9. CursorBound' /\ CursorAt'
    <3>1. CursorBound'
      BY <1>3, <2>2, <2>4 DEF Inv, CursorBound, connVars
    <3>2. more => Len(client'.delivered) = start + 1
      BY <2>1, <2>3, <2>6
    <3>3. CursorAt'
      <4>1. client'.class \in Classes
        BY <1>3, <2>4 DEF CursorAt, Inv
      <4>2. slot'["getLiveData"].phase = "row" <=> more
        BY <2>2
      <4> HIDE DEF more, start
      <4> QED  BY <2>3, <2>5, <3>2, <4>1, <4>2 DEF CursorAt
    <3> QED  BY <3>1, <3>3
  <2>10. RowsInOrder'
    <3>1. language' = language /\ cursor.class = client.class
      BY <1>3 DEF connVars, CursorBound, Inv
    <3>2. CASE more
      <4>1. Len(client'.delivered) = start + 1
        BY <3>2, <2>1, <2>3, <2>6
      <4>2. \A i \in 1..(start + 1) : client'.delivered[i] = i
        BY <3>2, <2>1, <2>3, <2>6
      <4>3. client'.delivered = [i \in 1..(start + 1) |-> i]
        <5>1. client'.delivered = [i \in 1..Len(client'.delivered) |-> client'.delivered[i]]
          BY <2>6
        <5> QED  BY <4>1, <4>2, <5>1
      <4>4. LiveRows(language, client.class) \in Nat
        BY DatabaseAssumption, <1>3 DEF LiveRows, CursorAt, Inv
      <4>5. start + 1 <= LiveRows(language, client.class)
        BY <3>1, <3>2, <4>4, <2>1 DEF RowAfter
      <4>6. LiveRows(language, client.class)' = LiveRows(language, client.class)
        BY <3>1, <2>4 DEF LiveRows
      <4> QED  BY <4>1, <4>3, <4>5, <4>6 DEF RowsInOrder
    <3>3. CASE ~more
      <4>1. client'.delivered = << >> /\ client'.class = client.class
        BY <3>3, <2>3, <2>4
      <4>2. LiveRows(language, client.class)' = LiveRows(language, client.class)
        BY <3>1, <2>4 DEF LiveRows
      <4>3. 0 <= LiveRows(language, client.class)
        BY DatabaseAssumption, <1>3 DEF LiveRows, CursorAt, Inv
      <4> QED  BY <4>1, <4>2, <4>3 DEF RowsInOrder
    <3> QED  BY <3>2, <3>3
  <2>11. Sessions' /\ Freed' /\ DefinedInFirstSession'
    BY <1>3, <2>2, <2>4 DEF Inv, Sessions, Freed, DefinedInFirstSession, connVars
  <2> QED  BY <2>7, <2>8, <2>9, <2>10, <2>11 DEF Inv
<1> QED  BY <1>1, <1>2, <1>3 DEF LiveNext

-----------------------------------------------------------------------------
(* The theorems *)

LEMMA InitInv == Init => Inv
<1> SUFFICES ASSUME Init PROVE Inv
  OBVIOUS
<1> USE DEF Init
<1>1. 0 \in 0..MaxSessions
  BY DatabaseAssumption
<1>2. client \in [armed : BOOLEAN, class : Classes \cup {NoClass}, delivered : Seq(Nat)]
  OBVIOUS
<1>3. TypeOK
  <2>1. slot \in [Slots -> [conn : 0..MaxSessions, phase : {"ready", "row", "done", "failed"}]]
    BY <1>1 DEF NullSlot
  <2>2. cursor \in [pos : Nat, class : Classes \cup {NoClass},
                    bound : {"none", "copy", "overwritten"}]
    OBVIOUS
  <2>3. /\ conns \subseteq 1..MaxSessions /\ stmts \subseteq Slots \X (1..MaxSessions)
        /\ fault \in [Slots -> 0..2]
    OBVIOUS
  <2> QED  BY <1>1, <1>2, <2>1, <2>2, <2>3 DEF TypeOK
<1>4. StatementsAccounted /\ NoConnectionLeak /\ CursorBound /\ RowsInOrder
  BY DEF StatementsAccounted, NoConnectionLeak, CursorBound, RowsInOrder
<1>5. DefinedInFirstSession /\ Sessions /\ Freed /\ CursorAt
  BY DEF DefinedInFirstSession, Sessions, Freed, CursorAt, NullSlot
<1> QED  BY <1>3, <1>4, <1>5 DEF Inv

LEMMA NextInv == Inv /\ [Next]_vars => Inv'
<1> SUFFICES ASSUME Inv, [Next]_vars PROVE Inv'
  OBVIOUS
<1>1. ASSUME NEW r \in Registrations, NEW ok \in BOOLEAN, Open(r, ok) PROVE Inv'
  BY <1>1, OpenStep
<1>2. CASE Dispose
  BY <1>2, DisposeStep
<1>3. ASSUME NEW n \in Names, NEW e \in Env, GetText(n, e) PROVE Inv'
  BY <1>3, GetTextStep
<1>4. ASSUME NEW c \in Codes, NEW e \in Env \X Env \X Env, GetTroubleCode(c, e) PROVE Inv'
  BY <1>4, GetTroubleCodeStep
<1>5. ASSUME NEW k \in Classes, NEW e \in Env, LivePrepare(k, e) PROVE Inv'
  BY <1>5, LivePrepareStep
<1>6. ASSUME NEW ok \in StepResults, LiveNext(ok) PROVE Inv'
  BY <1>6, LiveNextStep DEF StepResults
<1>7. ASSUME NEW s \in {"getCommand", "getCommandById"}, NEW k \in Commands, NEW e \in Env,
             GetCommand(s, k, e)
      PROVE  Inv'
  BY <1>7, GetCommandStep
<1>8. CASE UNCHANGED vars
  <2> USE <1>8 DEF vars, connVars, liveVars, Inv
  <2>1. TypeOK'
    BY DEF TypeOK
  <2>2. StatementsAccounted' /\ NoConnectionLeak' /\ CursorBound' /\ RowsInOrder'
    BY DEF StatementsAccounted, NoConnectionLeak, CursorBound, RowsInOrder, LiveRows
  <2>3. DefinedInFirstSession' /\ Sessions' /\ Freed' /\ CursorAt'
    BY DEF DefinedInFirstSession, Stale, Sessions, Freed, CursorAt
  <2> QED  BY <2>1, <2>2, <2>3
<1> QED  BY <1>1, <1>2, <1>3, <1>4, <1>5, <1>6, <1>7, <1>8 DEF Next

LEMMA Invariance == Spec => []Inv
BY InitInv, NextInv, PTL DEF Spec

-----------------------------------------------------------------------------
(* Answers *)

\* What an answer rests on: a NULL pointer has nothing behind it, a statement whose
\* last step failed is one whose failure was in the latest call, and the language is
\* that of the registration.
Answered ==
  /\ \A s \in Slots : slot[s].conn = 0 => slot[s].phase = "ready"
  /\ \A s \in Slots : slot[s].phase = "failed" => fault[s] = 0
  /\ access = "keyed" /\ reg.language # NoLanguage => language = reg.language

\* Run, field by field, for a slot that is not both NULL and failed.
LEMMA RunIs ==
  ASSUME NEW sl, NEW env, NEW found,
         Compile(sl, env).conn = 0 => Compile(sl, env).phase # "failed"
  PROVE  LET c   == Compile(sl, env)
             run == Run(sl, env, found)
         IN  /\ c.conn = 0 => run.outcome = "unprepared"
             /\ c.conn # 0 /\ c.phase = "failed" => run.outcome = "reset"
             /\ c.conn # 0 /\ c.phase # "failed" =>
                  run.outcome = IF ~env.step THEN "failed" ELSE IF found THEN "row" ELSE "done"
             /\ run.slot = Left(c, run.outcome)
             /\ run.outcome = "failed" => run.fault
             /\ run.outcome = "unprepared" /\ ~env.prepare => run.fault
<1> DEFINE c == Compile(sl, env)
           run == Run(sl, env, found)
<1>0. run.outcome = CASE c.conn = 0  -> "unprepared"
                      [] ~ResetOK(c) -> "reset"
                      [] OTHER       -> IF ~env.step THEN "failed"
                                        ELSE IF found THEN "row" ELSE "done"
  BY DEF Run
<1>1. ASSUME c.conn = 0 PROVE run.outcome = "unprepared"
  <2>1. ResetOK(c)
    BY <1>1 DEF ResetOK
  <2> HIDE DEF c, run
  <2> QED  BY <1>0, <1>1, <2>1
<1>2. ASSUME c.conn # 0, c.phase = "failed" PROVE run.outcome = "reset"
  <2>1. ~(c.conn = 0) /\ ~ResetOK(c)
    BY <1>2 DEF ResetOK
  <2> HIDE DEF c, run
  <2> QED  BY <1>0, <2>1
<1>3. ASSUME c.conn # 0, c.phase # "failed"
      PROVE  run.outcome = IF ~env.step THEN "failed" ELSE IF found THEN "row" ELSE "done"
  <2>1. ~(c.conn = 0) /\ ResetOK(c)
    BY <1>3 DEF ResetOK
  <2> HIDE DEF c, run
  <2> QED  BY <1>0, <2>1
<1>4. run.slot = Left(c, run.outcome)
  BY DEF Run
<1>5. run.fault = (run.outcome = "failed" \/ (run.outcome = "unprepared" /\ ~env.prepare))
  BY DEF Run
<1> QED  BY <1>1, <1>2, <1>3, <1>4, <1>5

\* A use of a statement leaves an error behind only if SQLite failed in it.
LEMMA RunPhase ==
  ASSUME TypeOK, Sessions, NEW sl \in SlotRec, sl.conn = 0 => sl.phase = "ready", NEW env, NEW found
  PROVE  LET run == Run(sl, env, found)
         IN  /\ run.slot.conn = 0 => run.slot.phase = "ready"
             /\ run.slot.phase = "failed" => run.fault
             /\ run.outcome # "none"
<1> DEFINE c == Compile(sl, env)
           run == Run(sl, env, found)
<1>1. c \in SlotRec /\ (c.conn = 0 => c.phase = "ready")
  BY CompileSlot DEF Compile, NullSlot, Sessions
<1>0. /\ c.conn = 0 => run.outcome = "unprepared"
      /\ c.conn # 0 /\ c.phase = "failed" => run.outcome = "reset"
      /\ c.conn # 0 /\ c.phase # "failed" =>
           run.outcome = IF ~env.step THEN "failed" ELSE IF found THEN "row" ELSE "done"
      /\ run.slot = Left(c, run.outcome)
      /\ run.outcome = "failed" => run.fault
  BY <1>1, RunIs
<1> HIDE DEF c, run
<1>2. c.conn # 0 => run.outcome \in {"reset", "failed", "row", "done"}
  BY <1>0
<1>3. /\ Left(c, run.outcome).conn = c.conn
      /\ Left(c, run.outcome).phase = CASE run.outcome = "unprepared" -> c.phase
                                        [] run.outcome = "reset" -> "ready"
                                        [] OTHER -> run.outcome
  BY <1>1 DEF Left, Reset, SlotRec
<1>4. run.slot.conn = 0 => run.slot.phase = "ready"
  BY <1>0, <1>1, <1>3
<1>5. run.slot.phase = "failed" => run.fault
  BY <1>0, <1>1, <1>2, <1>3
<1> QED  BY <1>0, <1>2, <1>4, <1>5 DEF run

\* Without a failure now or in the call before, the statement is compiled, reset and
\* stepped, and the outcome is that of the query.
LEMMA RunFinds ==
  ASSUME TypeOK, Sessions, access = "keyed", NEW sl \in SlotRec, sl.phase # "failed",
         NEW env, NEW found, ~Run(sl, env, found).fault
  PROVE  /\ Run(sl, env, found).outcome = IF found THEN "row" ELSE "done"
         /\ Run(sl, env, found).slot.phase # "failed"
<1> DEFINE c == Compile(sl, env)
           run == Run(sl, env, found)
<1>1. c \in SlotRec /\ c.phase # "failed"
  BY CompileSlot DEF Compile, NullSlot
<1>2. c.conn = 0 => ~env.prepare
  BY DEF Compile, NullSlot, Sessions
<1> HIDE DEF c, run
<1>3. /\ run.outcome = IF found THEN "row" ELSE "done"
      /\ run.slot = Left(c, run.outcome)
  BY <1>1, <1>2, RunIs DEF c, run
<1>4. run.slot = [c EXCEPT !.phase = run.outcome]
  BY <1>3 DEF Left
<1> QED  BY <1>1, <1>3, <1>4 DEF SlotRec, run

\* What the age of a statement tells.
LEMMA AgedTells ==
  ASSUME NEW age \in 0..2, NEW runs, \E r \in runs : r.outcome # "none"
  PROVE  /\ Aged(age, runs) = 2 => age # 0 /\ \A r \in runs : ~r.fault
         /\ (\E r \in runs : r.fault) => Aged(age, runs) = 0
BY DEF Aged, Age

LEMMA AgeTells ==
  ASSUME NEW age \in 0..2, NEW failed
  PROVE  /\ Age(age, failed) = 2 => age # 0 /\ ~failed
         /\ failed => Age(age, failed) = 0
BY DEF Age

\* The text of a run that found what the tables have.
LEMMA TextFound ==
  ASSUME Answered, access = "keyed", reg.language \in Languages, NEW n \in Names, NEW outcome,
         outcome = IF TextRow(language, n) # "absent" THEN "row" ELSE "done"
  PROVE  TextOut(outcome, language, n) = Lookup(n)
<1>1. language = reg.language
  BY DatabaseAssumption DEF Answered
<1> QED  BY <1>1 DEF TextOut, Lookup

\* A single use of the slot of a lookup.
LEMMA OneRun ==
  ASSUME Inv, Answered, NEW s \in Slots, NEW env, NEW found,
         slot' = [slot EXCEPT ![s] = Run(slot[s], env, found).slot],
         fault' = [fault EXCEPT ![s] = Aged(@, {Run(slot[s], env, found)})],
         UNCHANGED connVars
  PROVE  /\ Answered'
         /\ access = "keyed" /\ fault'[s] = 2 =>
              Run(slot[s], env, found).outcome = IF found THEN "row" ELSE "done"
<1> DEFINE run == Run(slot[s], env, found)
<1>1. slot[s] \in SlotRec /\ fault[s] \in 0..2 /\ (slot[s].conn = 0 => slot[s].phase = "ready")
  BY DEF Inv, TypeOK, SlotRec, Answered
<1>2. /\ run.slot.conn = 0 => run.slot.phase = "ready"
      /\ run.slot.phase = "failed" => run.fault
      /\ run.outcome # "none"
  BY <1>1, RunPhase DEF Inv
<1>3. slot'[s] = run.slot /\ fault'[s] = Aged(fault[s], {run})
  BY DEF Inv, TypeOK
<1> DEFINE runs == {run}
<1>4. /\ fault'[s] = 2 => fault[s] # 0 /\ ~run.fault
      /\ run.fault => fault'[s] = 0
  <2>1. \E r \in runs : r.outcome # "none"
    BY <1>2
  <2>2. run \in runs /\ fault'[s] = Aged(fault[s], runs)
    BY <1>3
  <2> HIDE DEF runs, run
  <2> QED  BY <1>1, <2>1, <2>2, AgedTells
<1>5. \A x \in Slots \ {s} : slot'[x] = slot[x] /\ fault'[x] = fault[x]
  BY DEF Inv, TypeOK
<1>6. Answered'
  BY <1>2, <1>3, <1>4, <1>5 DEF Answered, connVars
<1>7. ASSUME access = "keyed", fault'[s] = 2
      PROVE  run.outcome = IF found THEN "row" ELSE "done"
  <2>1. slot[s].phase # "failed" /\ ~run.fault
    BY <1>4, <1>7 DEF Answered
  <2> HIDE DEF run
  <2> QED  BY <1>1, <1>7, <2>1, RunFinds DEF Inv, run
<1> QED  BY <1>6, <1>7

\* A call that is no lookup, or that ends at a finalized statement, answers nothing.
LEMMA NoLookup ==
  ASSUME last'.call \notin Slots
  PROVE  AnswersExact'
BY DEF AnswersExact

LEMMA UseFinalizedAnswers ==
  ASSUME Answered, NEW s \in Slots, UseFinalized(s)
  PROVE  Answered' /\ AnswersExact'
<1> USE DEF UseFinalized, connVars
<1>1. Answered'
  BY DEF Answered
<1>2. last'.call \notin Slots
  BY DEF NoAnswer, Answer, Slots
<1> QED  BY <1>1, <1>2, NoLookup

LEMMA GetTextAnswers ==
  ASSUME Inv, Answered, NEW n \in Names, NEW env, GetText(n, env)
  PROVE  Answered' /\ AnswersExact'
<1> USE DEF Slots
<1>1. CASE UseFinalized("getText")
  BY <1>1, UseFinalizedAnswers
<1>2. CASE ~UseFinalized("getText")
  <2> DEFINE found == TextRow(language, n) # "absent"
             run   == Run(slot["getText"], env, found)
  <2>1. /\ slot' = [slot EXCEPT !["getText"] = run.slot]
        /\ fault' = [fault EXCEPT !["getText"] = Aged(@, {run})]
        /\ last' = Answer("getText", n, run.outcome # "unprepared", <<TextOut(run.outcome, language, n)>>)
        /\ UNCHANGED connVars
    BY <1>2 DEF GetText
  <2>2. /\ Answered'
        /\ access = "keyed" /\ fault'["getText"] = 2 => run.outcome = IF found THEN "row" ELSE "done"
    BY <2>1, OneRun
  <2> HIDE DEF run
  <2>3. ASSUME access = "keyed", reg.language \in Languages, fault'["getText"] = 2
        PROVE  last' = Answer("getText", n, TRUE, <<Lookup(n)>>)
    <3>1. run.outcome = IF found THEN "row" ELSE "done"
      BY <2>2, <2>3
    <3>2. TextOut(run.outcome, language, n) = Lookup(n)
      BY <2>3, <3>1, TextFound
    <3>3. (run.outcome # "unprepared") = TRUE
      BY <3>1
    <3> QED  BY <2>1, <3>2, <3>3
  <2>4. /\ last'.call = "getText" /\ last'.arg = n
        /\ access' = access /\ reg' = reg
    BY <2>1 DEF Answer, connVars
  <2>5. AnswersExact'
    BY <2>3, <2>4 DEF AnswersExact, Expected, Uses, Lookup
  <2> QED  BY <2>2, <2>5
<1> QED  BY <1>1, <1>2

LEMMA GetCommandAnswers ==
  ASSUME Inv, Answered, NEW s \in {"getCommand", "getCommandById"}, NEW k, NEW env, GetCommand(s, k, env)
  PROVE  Answered' /\ AnswersExact'
<1> USE DEF Slots
<1>1. CASE UseFinalized(s)
  BY <1>1, UseFinalizedAnswers
<1>2. CASE ~UseFinalized(s)
  <2> DEFINE found == k \in CommandTable
             run   == Run(slot[s], env, found)
  <2>1. /\ slot' = [slot EXCEPT ![s] = run.slot]
        /\ fault' = [fault EXCEPT ![s] = Aged(@, {run})]
        /\ last' = Answer(s, k, run.outcome = "row",
                          <<IF run.outcome = "row" THEN Text("table", NoLanguage, k) ELSE Unwritten>>)
        /\ UNCHANGED connVars
    BY <1>2 DEF GetCommand
  <2>2. /\ Answered'
        /\ access = "keyed" /\ fault'[s] = 2 => run.outcome = IF found THEN "row" ELSE "done"
    <3>1. s \in {"getText", "getTroubleCode", "getLiveData", "getCommand", "getCommandById"}
      OBVIOUS
    <3> HIDE DEF found, Slots
    <3> QED  BY <2>1, <3>1, OneRun DEF Slots
  <2> HIDE DEF run
  <2>3. ASSUME access = "keyed", fault'[s] = 2
        PROVE  (run.outcome = "row") = (k \in CommandTable)
    BY <2>2, <2>3
  <2>4. /\ last'.call = s /\ last'.arg = k
        /\ access' = access
    BY <2>1 DEF Answer, connVars
  <2>5. ASSUME access = "keyed", fault'[s] = 2
        PROVE  last' = Answer(s, k, k \in CommandTable,
                              <<IF k \in CommandTable THEN Text("table", NoLanguage, k) ELSE Unwritten>>)
    BY <2>1, <2>3, <2>5
  <2>6. AnswersExact'
    BY <2>4, <2>5 DEF AnswersExact, Expected, Uses
  <2> QED  BY <2>2, <2>6
<1> QED  BY <1>1, <1>2

\* A nested call that is made or not.
LEMMA NestedRun ==
  ASSUME TypeOK, Sessions, NEW sl \in SlotRec, sl.conn = 0 => sl.phase = "ready",
         NEW env, NEW found, NEW run,
         run = Run(sl, env, found) \/ run = NotRun(sl)
  PROVE  /\ run.slot \in SlotRec
         /\ run.slot.conn = 0 => run.slot.phase = "ready"
         /\ run.slot.phase = "failed" => run.fault \/ (run.outcome = "none" /\ sl.phase = "failed")
         /\ run.outcome = "none" => ~run.fault /\ run.slot = sl
         /\ run = Run(sl, env, found) => run.outcome # "none"
         /\ access = "keyed" /\ sl.phase # "failed" /\ ~run.fault =>
              /\ run.outcome # "none" => run.outcome = IF found THEN "row" ELSE "done"
              /\ run.slot.phase # "failed"
<1>1. CASE run = Run(sl, env, found)
  <2>1. run.slot \in SlotRec
    BY <1>1, RunSlot
  <2>2. /\ run.slot.conn = 0 => run.slot.phase = "ready"
        /\ run.slot.phase = "failed" => run.fault
        /\ run.outcome # "none"
    BY <1>1, RunPhase
  <2>3. access = "keyed" /\ sl.phase # "failed" /\ ~run.fault =>
              /\ run.outcome = IF found THEN "row" ELSE "done"
              /\ run.slot.phase # "failed"
    BY <1>1, RunFinds
  <2> QED  BY <2>1, <2>2, <2>3
<1>2. CASE run # Run(sl, env, found)
  <2>1. run = NotRun(sl)
    BY <1>2
  <2> QED  BY <1>2, <2>1 DEF NotRun
<1> QED  BY <1>1, <1>2

\* The two nested calls of database_get_text in database_get_trouble_code.
LEMMA NestedTexts ==
  ASSUME TypeOK, Sessions, Answered, NEW e1, NEW e2, NEW found, NEW one, NEW two,
         one = Run(slot["getText"], e1, found) \/ one = NotRun(slot["getText"]),
         two = Run(one.slot, e2, found) \/ two = NotRun(one.slot)
  PROVE  LET age == Aged(fault["getText"], {one, two})
         IN  /\ two.slot.conn = 0 => two.slot.phase = "ready"
             /\ two.slot.phase = "failed" => age = 0
             /\ access = "keyed" /\ age = 2 =>
                  /\ one = Run(slot["getText"], e1, found) =>
                       one.outcome = IF found THEN "row" ELSE "done"
                  /\ two = Run(one.slot, e2, found) =>
                       two.outcome = IF found THEN "row" ELSE "done"
<1> DEFINE sl   == slot["getText"]
           runs == {one, two}
           age  == Aged(fault["getText"], runs)
<1>1. /\ sl \in SlotRec /\ fault["getText"] \in 0..2
      /\ sl.conn = 0 => sl.phase = "ready"
      /\ sl.phase = "failed" => fault["getText"] = 0
  BY DEF TypeOK, SlotRec, Answered, Slots
<1>0. one = Run(sl, e1, found) \/ one = NotRun(sl)
  OBVIOUS
<1> HIDE DEF sl
<1>2. /\ one.slot \in SlotRec
      /\ one.slot.conn = 0 => one.slot.phase = "ready"
      /\ one.slot.phase = "failed" => one.fault \/ (one.outcome = "none" /\ sl.phase = "failed")
      /\ one.outcome = "none" => ~one.fault /\ one.slot = sl
      /\ one = Run(sl, e1, found) => one.outcome # "none"
      /\ access = "keyed" /\ sl.phase # "failed" /\ ~one.fault =>
           /\ one.outcome # "none" => one.outcome = IF found THEN "row" ELSE "done"
           /\ one.slot.phase # "failed"
  BY <1>0, <1>1, NestedRun
<1>3. /\ two.slot.conn = 0 => two.slot.phase = "ready"
      /\ two.slot.phase = "failed" => two.fault \/ (two.outcome = "none" /\ one.slot.phase = "failed")
      /\ two.outcome = "none" => ~two.fault /\ two.slot = one.slot
      /\ two = Run(one.slot, e2, found) => two.outcome # "none"
      /\ access = "keyed" /\ one.slot.phase # "failed" /\ ~two.fault /\ two.outcome # "none" =>
           two.outcome = IF found THEN "row" ELSE "done"
  BY <1>2, NestedRun
<1>4. one \in runs /\ two \in runs /\ \A r \in runs : r = one \/ r = two
  OBVIOUS
<1>5. CASE one.outcome # "none" \/ two.outcome # "none"
  <2>0. \E r \in runs : r.outcome # "none"
    BY <1>4, <1>5
  <2> HIDE DEF runs
  <2>1. age = 2 => fault["getText"] # 0 /\ \A r \in runs : ~r.fault
    BY <1>1, <2>0, AgedTells
  <2>2. (\E r \in runs : r.fault) => age = 0
    BY <1>1, <2>0, AgedTells
  <2>3. sl.phase = "failed" => age # 2
    BY <1>1, <2>1
  <2>4. age = 2 => ~one.fault /\ ~two.fault /\ sl.phase # "failed"
    BY <1>4, <2>1, <2>3
  <2>5. one.fault \/ two.fault => age = 0
    BY <1>4, <2>2
  <2> HIDE DEF age
  <2>6. two.slot.phase = "failed" => age = 0
    BY <1>2, <1>3, <1>5, <2>5
  <2>7. access = "keyed" /\ age = 2 =>
          /\ one = Run(sl, e1, found) => one.outcome = IF found THEN "row" ELSE "done"
          /\ two = Run(one.slot, e2, found) => two.outcome = IF found THEN "row" ELSE "done"
    BY <1>2, <1>3, <2>4
  <2> QED  BY <1>3, <2>6, <2>7 DEF age, runs, sl
<1>6. CASE one.outcome = "none" /\ two.outcome = "none"
  <2>1. \A r \in runs : r.outcome = "none"
    BY <1>4, <1>6
  <2>2. age = fault["getText"]
    <3> HIDE DEF runs
    <3> QED  BY <2>1 DEF Aged
  <2> HIDE DEF age
  <2>3. /\ two.slot.conn = 0 => two.slot.phase = "ready"
        /\ two.slot.phase = "failed" => age = 0
    BY <1>1, <1>2, <1>3, <1>6, <2>2
  <2>4. one # Run(sl, e1, found) /\ two # Run(one.slot, e2, found)
    BY <1>2, <1>3, <1>6
  <2> QED  BY <2>3, <2>4 DEF age, runs, sl
<1> QED  BY <1>5, <1>6

LEMMA GetTroubleCodeAnswers ==
  ASSUME Inv, Answered, NEW c \in Codes, NEW e, GetTroubleCode(c, e)
  PROVE  Answered' /\ AnswersExact'
<1>1. CASE \E s \in Slots : UseFinalized(s)
  BY <1>1, UseFinalizedAnswers
<1>2. CASE ~\E s \in Slots : UseFinalized(s)
  <2> DEFINE row   == TroubleRow(language, c)
             run   == Run(slot["getTroubleCode"], e[1], row # NoRow)
             found == TextRow(language, Undefined) # "absent"
             Missing(col) == run.outcome = "done" \/ (run.outcome = "row" /\ row[col] = "null")
             one   == IF Missing("content") THEN Run(slot["getText"], e[2], found)
                      ELSE NotRun(slot["getText"])
             two   == IF Missing("description") THEN Run(one.slot, e[3], found)
                      ELSE NotRun(one.slot)
             Out(col, nested, otherwise) ==
               IF Missing(col) THEN TextOut(nested.outcome, language, Undefined)
               ELSE IF run.outcome = "row" THEN Text("table", language, <<c, col>>)
               ELSE otherwise
  <2>1. /\ slot' = [slot EXCEPT !["getTroubleCode"] = run.slot, !["getText"] = two.slot]
        /\ fault' = [fault EXCEPT !["getTroubleCode"] = Aged(@, {run}),
                                  !["getText"] = Aged(@, {one, two})]
        /\ last' = Answer("getTroubleCode", c, run.outcome # "unprepared",
                          <<Out("content", one, FromArgument(c)),
                            Out("description", two, Unwritten)>>)
        /\ UNCHANGED connVars
    BY <1>2 DEF GetTroubleCode, Slots
  <2>2. /\ one = Run(slot["getText"], e[2], found) \/ one = NotRun(slot["getText"])
        /\ Missing("content") => one = Run(slot["getText"], e[2], found)
        /\ two = Run(one.slot, e[3], found) \/ two = NotRun(one.slot)
        /\ Missing("description") => two = Run(one.slot, e[3], found)
    <3> HIDE DEF Missing, found
    <3>1. /\ one = Run(slot["getText"], e[2], found) \/ one = NotRun(slot["getText"])
          /\ Missing("content") => one = Run(slot["getText"], e[2], found)
      OBVIOUS
    <3> HIDE DEF one
    <3> QED  BY <3>1
  <2>3. /\ fault'["getTroubleCode"] = Aged(fault["getTroubleCode"], {run})
        /\ fault'["getText"] = Aged(fault["getText"], {one, two})
        /\ slot'["getTroubleCode"] = run.slot /\ slot'["getText"] = two.slot
        /\ \A x \in Slots \ {"getTroubleCode", "getText"} : slot'[x] = slot[x] /\ fault'[x] = fault[x]
    <3> HIDE DEF run, one, two
    <3> QED  BY <2>1 DEF Inv, TypeOK, Slots
  <2>4. /\ slot["getTroubleCode"] \in SlotRec /\ fault["getTroubleCode"] \in 0..2
        /\ slot["getTroubleCode"].conn = 0 => slot["getTroubleCode"].phase = "ready"
        /\ slot["getTroubleCode"].phase = "failed" => fault["getTroubleCode"] = 0
    BY DEF Inv, TypeOK, SlotRec, Answered, Slots
  <2>5. /\ run.slot.conn = 0 => run.slot.phase = "ready"
        /\ run.slot.phase = "failed" => run.fault
        /\ run.outcome # "none"
    BY <2>4, RunPhase DEF Inv
  <2> DEFINE runs == {run}
  <2>6. /\ fault'["getTroubleCode"] = 2 => fault["getTroubleCode"] # 0 /\ ~run.fault
        /\ run.fault => fault'["getTroubleCode"] = 0
    <3>1. \E r \in runs : r.outcome # "none"
      BY <2>5
    <3>2. run \in runs /\ fault'["getTroubleCode"] = Aged(fault["getTroubleCode"], runs)
      BY <2>3
    <3> HIDE DEF runs, run
    <3> QED  BY <2>4, <3>1, <3>2, AgedTells
  <2>7. /\ two.slot.conn = 0 => two.slot.phase = "ready"
        /\ two.slot.phase = "failed" => fault'["getText"] = 0
        /\ access = "keyed" /\ fault'["getText"] = 2 =>
             /\ one = Run(slot["getText"], e[2], found) =>
                  one.outcome = IF found THEN "row" ELSE "done"
             /\ two = Run(one.slot, e[3], found) =>
                  two.outcome = IF found THEN "row" ELSE "done"
    <3> HIDE DEF one, two, found
    <3> QED  BY <2>2, <2>3, NestedTexts DEF Inv
  <2>8. Answered'
    <3>1. /\ fault'["getText"] = 0 \/ slot'["getText"].phase # "failed"
          /\ slot'["getText"].conn = 0 => slot'["getText"].phase = "ready"
          /\ slot'["getTroubleCode"].conn = 0 => slot'["getTroubleCode"].phase = "ready"
          /\ fault'["getTroubleCode"] = 0 \/ slot'["getTroubleCode"].phase # "failed"
          /\ access' = access /\ reg' = reg /\ language' = language
      <4> HIDE DEF run, one, two
      <4> QED  BY <2>1, <2>3, <2>5, <2>6, <2>7 DEF connVars
    <3> HIDE DEF run, one, two, found, Out
    <3> QED  BY <2>3, <3>1 DEF Answered
  <2>9. ASSUME access = "keyed", reg.language \in Languages,
               fault'["getTroubleCode"] = 2, fault'["getText"] = 2
        PROVE  last' = Expected("getTroubleCode", c)
    <3>1. run.outcome = IF row # NoRow THEN "row" ELSE "done"
      <4>1. slot["getTroubleCode"].phase # "failed" /\ ~run.fault
        BY <2>4, <2>6, <2>9
      <4> HIDE DEF row
      <4> QED  BY <2>4, <2>9, <4>1, RunFinds DEF Inv
    <3>2. Missing("content") => TextOut(one.outcome, language, Undefined) = Lookup(Undefined)
      <4> HIDE DEF one, Missing
      <4> QED  BY <2>2, <2>7, <2>9, TextFound, DatabaseAssumption
    <3>3. Missing("description") => TextOut(two.outcome, language, Undefined) = Lookup(Undefined)
      <4> HIDE DEF two, Missing
      <4> QED  BY <2>2, <2>7, <2>9, TextFound, DatabaseAssumption
    <3>4. language = reg.language /\ language \in Languages
      BY <2>9, DatabaseAssumption DEF Answered
    <3>5. row \in Row
      BY <3>4, DatabaseAssumption DEF TroubleRow
    <3>6. ASSUME NEW col \in {"content", "description"}, NEW nested, NEW otherwise,
                 Missing(col) => TextOut(nested.outcome, language, Undefined) = Lookup(Undefined)
          PROVE  Out(col, nested, otherwise) = TroubleText(c, col)
      <4>1. TroubleText(c, col) = IF row[col] = "text" THEN Text("table", language, <<c, col>>)
                                  ELSE Lookup(Undefined)
        BY <3>4 DEF TroubleText
      <4>2. Missing(col) <=> row[col] # "text"
        <5> HIDE DEF row, run
        <5> QED  BY <3>1, <3>5 DEF Row, NoRow
      <4>3. ~Missing(col) => run.outcome = "row"
        <5> HIDE DEF row, run
        <5> QED  BY <3>1, <3>5 DEF Row, NoRow
      <4> HIDE DEF Missing, row, run
      <4> QED  BY <3>6, <4>1, <4>2, <4>3
    <3> HIDE DEF Out, Missing, one, two
    <3>7. Out("content", one, FromArgument(c)) = TroubleText(c, "content")
      BY <3>2, <3>6
    <3>8. Out("description", two, Unwritten) = TroubleText(c, "description")
      BY <3>3, <3>6
    <3>9. (run.outcome # "unprepared") = TRUE
      BY <3>1
    <3> QED  BY <2>1, <3>7, <3>8, <3>9 DEF Expected
  <2>10. /\ last'.call = "getTroubleCode" /\ last'.arg = c
         /\ access' = access /\ reg' = reg
    <3> HIDE DEF run, Out
    <3> QED  BY <2>1 DEF Answer, connVars
  <2>11. AnswersExact'
    <3> HIDE DEF run, Out
    <3>1. ASSUME (access = "keyed" /\ reg.language \in Languages
                  /\ \A s \in Uses(last.call) : fault[s] = 2)'
          PROVE  fault'["getTroubleCode"] = 2 /\ fault'["getText"] = 2
      BY <2>10, <3>1 DEF Uses
    <3>2. Expected("getTroubleCode", c)' = Expected("getTroubleCode", c)
      BY <2>10 DEF Expected, TroubleText, TroubleRow, Lookup, TextRow
    <3> QED  BY <2>9, <2>10, <3>1, <3>2 DEF AnswersExact
  <2> QED  BY <2>8, <2>11
<1> QED  BY <1>1, <1>2

LEMMA LivePrepareAnswers ==
  ASSUME Inv, Answered, NEW k, NEW env, LivePrepare(k, env)
  PROVE  Answered' /\ AnswersExact'
<1> USE DEF Slots
<1>1. CASE UseFinalized("getLiveData")
  BY <1>1, UseFinalizedAnswers
<1>2. CASE ~UseFinalized("getLiveData")
  <2> DEFINE c == Compile(slot["getLiveData"], env)
             failed == c.conn = 0 /\ ~env.prepare
  <2>1. /\ slot' = [slot EXCEPT !["getLiveData"] = Rewound(c)]
        /\ fault' = [fault EXCEPT !["getLiveData"] = Age(@, failed)]
        /\ last' = Answer("getLiveData", k, Armed(c), << >>)
        /\ UNCHANGED connVars
    BY <1>2 DEF LivePrepare
  <2>2. /\ slot["getLiveData"] \in SlotRec /\ c \in SlotRec
        /\ slot'["getLiveData"] = Rewound(c)
        /\ \A x \in Slots \ {"getLiveData"} : slot'[x] = slot[x] /\ fault'[x] = fault[x]
        /\ fault'["getLiveData"] = Age(fault["getLiveData"], failed) /\ fault["getLiveData"] \in 0..2
    BY <2>1, CompileSlot DEF Inv, TypeOK, SlotRec
  <2>3. c.conn = 0 => c.phase = "ready"
    BY DEF Compile, NullSlot, Answered, Inv, Sessions
  <2>4. Rewound(c).phase = "ready"
    BY <2>2, <2>3, ResetSlot DEF Rewound
  <2>5. Answered'
    BY <2>1, <2>2, <2>4 DEF Answered, connVars
  <2>6. ASSUME access = "keyed", fault'["getLiveData"] = 2
        PROVE  Armed(c) = TRUE
    <3>1. fault["getLiveData"] # 0 /\ ~failed
      <4> HIDE DEF failed
      <4> QED  BY <2>2, <2>6, AgeTells
    <3>0. slot["getLiveData"].phase # "failed"
      BY <3>1 DEF Answered
    <3>2. c.phase # "failed"
      BY <3>0 DEF Compile, NullSlot
    <3>3. c.conn # 0
      BY <2>6, <3>1 DEF Compile, NullSlot, Inv, Sessions
    <3> QED  BY <3>2, <3>3 DEF Armed, ResetOK
  <2>7. /\ last'.call = "getLiveData" /\ last'.arg = k
        /\ access' = access
    BY <2>1 DEF Answer, connVars
  <2> HIDE DEF c, failed
  <2>8. ASSUME access = "keyed", fault'["getLiveData"] = 2
        PROVE  last' = Answer("getLiveData", k, TRUE, << >>)
    BY <2>1, <2>6, <2>8
  <2>9. AnswersExact'
    BY <2>7, <2>8 DEF AnswersExact, Expected, Uses
  <2> QED  BY <2>5, <2>9
<1> QED  BY <1>1, <1>2

LEMMA LiveNextAnswers ==
  ASSUME Inv, Answered, NEW ok \in BOOLEAN, LiveNext(ok)
  PROVE  Answered' /\ AnswersExact'
<1> USE DEF Slots
<1>1. CASE UseFinalized("getLiveData")
  BY <1>1, UseFinalizedAnswers
<1>2. CASE ~UseFinalized("getLiveData")
  <2> DEFINE more == ok /\ RowAfter(StartOf(slot["getLiveData"]))
  <2>1. last'.call \notin Slots
    BY <1>2 DEF LiveNext, Answer
  <2>2. ASSUME UNCHANGED <<connVars, slot, fault>>
        PROVE  Answered'
    BY <2>2 DEF Answered, connVars
  <2>3. ASSUME client.armed,
               slot' = [slot EXCEPT !["getLiveData"].phase =
                          IF ~ok THEN "failed" ELSE IF more THEN "row" ELSE "done"],
               fault' = [fault EXCEPT !["getLiveData"] = Age(@, ~ok)],
               UNCHANGED connVars
        PROVE  Answered'
    <3>1. slot["getLiveData"].conn # 0
      BY <2>3 DEF Inv, CursorBound, Sessions
    <3>2. /\ \A x \in Slots \ {"getLiveData"} : slot'[x] = slot[x] /\ fault'[x] = fault[x]
          /\ slot'["getLiveData"].conn = slot["getLiveData"].conn
          /\ slot'["getLiveData"].phase = "failed" => ~ok
          /\ ~ok => fault'["getLiveData"] = 0
      BY <2>3, AgeTells DEF Inv, TypeOK
    <3>3. access' = access /\ reg' = reg /\ language' = language
      BY <2>3 DEF connVars
    <3> HIDE DEF more
    <3> QED  BY <3>1, <3>2, <3>3 DEF Answered
  <2>4. Answered'
    BY <1>2, <2>2, <2>3 DEF LiveNext
  <2> QED  BY <2>1, <2>4, NoLookup
<1> QED  BY <1>1, <1>2

LEMMA OpenAnswers ==
  ASSUME Inv, Answered, NEW r \in Registrations, NEW ok, Open(r, ok)
  PROVE  Answered' /\ AnswersExact'
<1>1. slot' = slot /\ fault' = fault /\ last'.call \notin Slots
  BY DEF Open, NoAnswer, Answer, Slots
<1>2. (access = "keyed" /\ reg.language # NoLanguage => language = reg.language)'
  BY DEF Open
<1>3. Answered'
  BY <1>1, <1>2 DEF Answered
<1> QED  BY <1>1, <1>3, NoLookup

LEMMA DisposeAnswers ==
  ASSUME Inv, Answered, Dispose
  PROVE  Answered' /\ AnswersExact'
<1>1. slot' = slot /\ fault' = fault /\ access' = "none" /\ last'.call \notin Slots
  BY DEF Dispose, NoAnswer, Answer, Slots
<1>2. Answered'
  BY <1>1 DEF Answered
<1> QED  BY <1>1, <1>2, NoLookup

LEMMA InitAnswers == Init => Answered /\ AnswersExact
BY DEF Init, Answered, AnswersExact, NoAnswer, Answer, NullSlot, Slots

LEMMA NextAnswers == Inv /\ Answered /\ AnswersExact /\ [Next]_vars => Answered' /\ AnswersExact'
<1> SUFFICES ASSUME Inv, Answered, AnswersExact, [Next]_vars
             PROVE  Answered' /\ AnswersExact'
  OBVIOUS
<1>1. ASSUME NEW r \in Registrations, NEW ok \in BOOLEAN, Open(r, ok)
      PROVE  Answered' /\ AnswersExact'
  BY <1>1, OpenAnswers
<1>2. CASE Dispose
  BY <1>2, DisposeAnswers
<1>3. ASSUME NEW n \in Names, NEW e \in Env, GetText(n, e)
      PROVE  Answered' /\ AnswersExact'
  BY <1>3, GetTextAnswers
<1>4. ASSUME NEW c \in Codes, NEW e \in Env \X Env \X Env, GetTroubleCode(c, e)
      PROVE  Answered' /\ AnswersExact'
  BY <1>4, GetTroubleCodeAnswers
<1>5. ASSUME NEW k \in Classes, NEW e \in Env, LivePrepare(k, e)
      PROVE  Answered' /\ AnswersExact'
  BY <1>5, LivePrepareAnswers
<1>6. ASSUME NEW ok \in StepResults, LiveNext(ok)
      PROVE  Answered' /\ AnswersExact'
  BY <1>6, LiveNextAnswers DEF StepResults
<1>7. ASSUME NEW s \in {"getCommand", "getCommandById"}, NEW k \in Commands, NEW e \in Env,
             GetCommand(s, k, e)
      PROVE  Answered' /\ AnswersExact'
  BY <1>7, GetCommandAnswers
<1>8. CASE UNCHANGED vars
  <2>1. Answered'
    BY <1>8 DEF vars, connVars, Answered
  <2>2. AnswersExact'
    BY <1>8 DEF vars, connVars, AnswersExact, Expected, TroubleText, TroubleRow, Lookup, TextRow
  <2> QED  BY <2>1, <2>2
<1> QED  BY <1>1, <1>2, <1>3, <1>4, <1>5, <1>6, <1>7, <1>8 DEF Next

-----------------------------------------------------------------------------
(* The end of a live-data list *)

\* A step that failed tells so in `fault'; any other FALSE comes after the last row.
LEMMA LiveNextEnd ==
  ASSUME Inv, NEW ok \in BOOLEAN, LiveNext(ok), client.armed, last'.call = "liveNext",
         ~last'.ret, fault'["getLiveData"] # 0
  PROVE  Len(client.delivered) = LiveRows(language, client.class)
<1> DEFINE start == StartOf(slot["getLiveData"])
           more  == ok /\ RowAfter(start)
<1>1. ~UseFinalized("getLiveData")
  BY DEF UseFinalized, NoAnswer, Answer
<1>2. slot["getLiveData"].conn # 0
  BY DEF Inv, CursorBound, Sessions
<1>3. /\ fault' = [fault EXCEPT !["getLiveData"] = Age(@, ~ok)]
      /\ last' = Answer("liveNext", cursor.class, more, << >>)
  BY <1>1, <1>2 DEF LiveNext
<1>4. ok
  BY <1>3, AgeTells DEF Inv, TypeOK, Slots
<1>5. ~RowAfter(start)
  BY <1>3, <1>4 DEF Answer
<1>6. start = Len(client.delivered)
  BY DEF Inv, TypeOK, CursorAt, StartOf
<1>7. cursor.class = client.class /\ LiveRows(language, client.class) \in Nat
  BY DatabaseAssumption DEF Inv, CursorBound, CursorAt, LiveRows
<1>8. Len(client.delivered) \in Nat /\ Len(client.delivered) <= LiveRows(language, client.class)
  BY DEF Inv, TypeOK, RowsInOrder
<1> HIDE DEF start
<1> QED  BY <1>5, <1>6, <1>7, <1>8 DEF RowAfter

LEMMA NextEnd ==
  ASSUME Inv, Next, client.armed, last'.call = "liveNext", ~last'.ret, fault'["getLiveData"] # 0
  PROVE  Len(client.delivered) = LiveRows(language, client.class)
<1> USE DEF UseFinalized, NoAnswer, Answer
<1>1. ASSUME NEW r, NEW ok, Open(r, ok) PROVE FALSE
  BY <1>1 DEF Open
<1>2. ~Dispose
  BY DEF Dispose
<1>3. ASSUME NEW n, NEW e, GetText(n, e) PROVE FALSE
  BY <1>3 DEF GetText
<1>4. ASSUME NEW c, NEW e, GetTroubleCode(c, e) PROVE FALSE
  BY <1>4 DEF GetTroubleCode
<1>5. ASSUME NEW k, NEW e, LivePrepare(k, e) PROVE FALSE
  BY <1>5 DEF LivePrepare
<1>6. ASSUME NEW s \in {"getCommand", "getCommandById"}, NEW k, NEW e, GetCommand(s, k, e) PROVE FALSE
  BY <1>6 DEF GetCommand
<1>7. PICK ok \in StepResults : LiveNext(ok)
  BY <1>1, <1>2, <1>3, <1>4, <1>5, <1>6 DEF Next
<1>8. ok \in BOOLEAN
  BY DEF StepResults
<1> QED  BY <1>7, <1>8, LiveNextEnd

-----------------------------------------------------------------------------
\* The state of database.c keeps its shape.
THEOREM TypeCorrect == Spec => []TypeOK
<1>1. Inv => TypeOK
  BY DEF Inv
<1> QED  BY <1>1, Invariance, PTL

\* database_dispose can finalize all that SQLite holds: every statement is designated
\* by a pointer of the open session.
THEOREM NothingLeaks == Spec => []StatementsAccounted
<1>1. Inv => StatementsAccounted
  BY DEF Inv
<1> QED  BY <1>1, Invariance, PTL

\* So sqlite3_close never refuses, and no session leaves its connection open.
THEOREM ConnectionsClose == Spec => []NoConnectionLeak
<1>1. Inv => NoConnectionLeak
  BY DEF Inv
<1> QED  BY <1>1, Invariance, PTL

\* The live-data statement a client steps reads the class that client prepared.
THEOREM CursorStaysBound == Spec => []CursorBound
<1>1. Inv => CursorBound
  BY DEF Inv
<1> QED  BY <1>1, Invariance, PTL

\* The rows of the prepared class are delivered once each and in order.
THEOREM RowsDeliveredInOrder == Spec => []RowsInOrder
<1>1. Inv => RowsInOrder
  BY DEF Inv
<1> QED  BY <1>1, Invariance, PTL

\* With one session, whatever fails, only a call made after the dispose is undefined.
THEOREM OneSessionIsDefined == Spec => []DefinedInFirstSession
<1>1. Inv => DefinedInFirstSession
  BY DEF Inv
<1> QED  BY <1>1, Invariance, PTL

\* Whatever SQLite fails at, an answer is what the tables of the registered language
\* say, but in the call in which a statement failed and in the next one on it.
THEOREM AnswersAreExact == Spec => []AnswersExact
<1>1. Spec => [](Answered /\ AnswersExact)
  BY Invariance, InitAnswers, NextAnswers, PTL DEF Spec
<1> QED  BY <1>1, PTL

\* A FALSE from database_live_data_next means the end of the list or a failed step.
THEOREM EndIsTheEnd == Spec => EndMeansAllRows
<1>1. Inv /\ [Next]_vars =>
        [client.armed /\ last'.call = "liveNext" /\ ~last'.ret /\ fault'["getLiveData"] # 0
         => Len(client.delivered) = LiveRows(language, client.class)]_vars
  BY NextEnd
<1> QED  BY <1>1, Invariance, PTL DEF Spec, EndMeansAllRows

-----------------------------------------------------------------------------
(* The registration and the beginning of a session, for any licences,      *)
(* computers and number of lines                                           *)
(*                                                                         *)
(* What the properties say of answers follows from what a reader knows of  *)
(* the file while nobody changes it (Current), and from what register_check *)
(* has found in it (Accepted).  How a text is cut into lines is not used.  *)

Files == [licence : Licences, len : 0..(Whole + 1)]

Readers ==
  [at : {"read", "answer"}, call : {"check", "decrypt", "login"}, index : 0..MessageLines,
   size : 0..(Whole + 1), lines : {<< >>} \cup {<<LinesOf(l)>> : l \in Licences},
   licence : {<< >>} \cup {<<l>> : l \in Licences}, still : BOOLEAN]

ReaderTyped ==
  /\ reader = Idle \/ reader \in Readers
  /\ reader.at = "read" => file # << >>

Typed ==
  /\ file = << >> \/ \E f \in Files : file = <<f>>
  /\ disks \in Computers
  /\ ReaderTyped
  /\ saver = << >> \/ \E l \in Licences : saver = <<l>> /\ file # << >> /\ file[1].len = 0
  /\ checked \in BOOLEAN
  /\ DOMAIN opening = DOMAIN NoSession
  /\ opening.done \in BOOLEAN /\ (opening.sure => opening.still)
  /\ opening.done => reader = Idle

\* The lines of demo.dat as it is.
InFile == IF file = << >> THEN << >> ELSE Decrypted(file[1], file[1].len)

\* What is read is all of a licence for this library, or nothing.
FoundOut ==
  reader.at = "answer" /\ reader.lines # << >> =>
    \E l \in Licences : l.sealed /\ reader.licence = <<l>> /\ reader.lines = <<LinesOf(l)>>

\* A reader during whose call the file has not changed knows the file.
Current ==
  reader # Idle /\ reader.still =>
    /\ reader.at = "read" => reader.size = file[1].len
    /\ reader.at = "answer" =>
         reader.lines = InFile /\ (file # << >> => reader.licence = <<file[1].licence>>)

\* A file that register_check has accepted has all the lines, and who reads it now began
\* after that.
Accepted ==
  checked => /\ InFile # << >> /\ Enough(InFile[1])
             /\ reader # Idle => reader.still

\* Between the two calls of database_init the password is that of the file.
HalfWay ==
  reader # Idle /\ reader.call = "login" /\ reader.index = Language /\ reader.still =>
    opening.password = IF InFile # << >> /\ DatabasePassword < Len(InFile[1])
                       THEN <<Line(InFile[1], DatabasePassword)>> ELSE << >>

LoginInv ==
  /\ Typed /\ FoundOut /\ Current /\ Accepted /\ HalfWay
  /\ CheckedUsable /\ IssuedFor /\ LoginConsistent

-----------------------------------------------------------------------------
(* What the file can hold *)

\* A file that can be read has been encrypted to this library, and is a licence's lines.
LEMMA InFileIs ==
  ASSUME Typed, InFile # << >>
  PROVE  /\ file # << >> /\ file[1].licence \in Licences /\ file[1].licence.sealed
         /\ InFile = <<LinesOf(file[1].licence)>> /\ Len(InFile[1]) \in Nat
BY IssueAssumption DEF Typed, Files, InFile, Decrypted, Readable

\* A reader that has just measured the file.
LEMMA MeasuredIs ==
  ASSUME Typed, NEW c \in {"check", "decrypt", "login"}, NEW i \in 0..MessageLines, NEW b \in BOOLEAN
  PROVE  LET r == Measured(c, i, b)
         IN  /\ r \in Readers /\ r # Idle /\ r.call = c /\ r.index = i /\ r.still = b /\ r.lines = << >>
             /\ r.at = "read" => file # << >> /\ r.size = file[1].len
             /\ r.at = "answer" => file = << >>
<1>1. file # << >> => file[1].len \in 0..(Whole + 1)
  BY DEF Typed, Files
<1>2. 0 \in 0..(Whole + 1)
  BY DEF Whole
<1> QED  BY <1>1, <1>2 DEF Measured, Readers, Idle

\* A call begins, or the second one of database_init: the reader has measured the file.
LEMMA BeginKept ==
  ASSUME LoginInv, NEW c \in {"check", "decrypt", "login"}, NEW i \in 0..MessageLines, NEW b \in BOOLEAN,
         reader' = Measured(c, i, b), checked => b,
         UNCHANGED <<file, disks, saver, checked>>
  PROVE  ReaderTyped' /\ FoundOut' /\ Current' /\ Accepted' /\ InFile' = InFile
<1>1. InFile' = InFile
  BY DEF InFile, Decrypted, Readable, Got, LinesOf
<1>2. ReaderTyped'
  BY MeasuredIs DEF ReaderTyped, LoginInv
<1>3. FoundOut'
  BY MeasuredIs DEF FoundOut, LoginInv
<1>4. Current'
  BY <1>1, MeasuredIs DEF Current, LoginInv, InFile
<1>5. Accepted'
  BY <1>1, MeasuredIs DEF Accepted, LoginInv, Enough
<1> QED  BY <1>1, <1>2, <1>3, <1>4, <1>5

\* The file becomes n characters of the licence l.
LEMMA FileIsKept ==
  ASSUME LoginInv, NEW l \in Licences, NEW n \in 0..(Whole + 1), NEW g, FileIs(l, n, g)
  PROVE  /\ \E f \in Files : file' = <<f>>
         /\ ReaderTyped' /\ FoundOut' /\ Current' /\ Accepted'
         /\ reader' # Idle => ~reader'.still
         /\ reader' = Idle <=> reader = Idle
<1>1. file' = <<[licence |-> l, len |-> n]>> /\ [licence |-> l, len |-> n] \in Files
  BY DEF FileIs, Files
<1>2. reader \in Readers => reader # Idle
  BY DEF Readers, Idle
<1>3. CASE reader = Idle
  BY <1>1, <1>3 DEF FileIs, ReaderTyped, FoundOut, Current, Accepted, Idle
<1>4. CASE reader \in Readers
  <2>1. /\ reader' = [reader EXCEPT !.still = FALSE] /\ reader' \in Readers /\ reader' # Idle
        /\ reader'.at = reader.at /\ reader'.lines = reader.lines /\ reader'.licence = reader.licence
        /\ ~reader'.still
    BY <1>2, <1>4 DEF FileIs, Readers, Idle
  <2> QED  BY <1>1, <1>2, <1>4, <2>1 DEF FileIs, ReaderTyped, FoundOut, Current, Accepted, LoginInv
<1> QED  BY <1>3, <1>4 DEF LoginInv, Typed, ReaderTyped

-----------------------------------------------------------------------------
(* Steps *)

LEMMA AskKept ==
  ASSUME LoginInv, NEW c \in {"check", "decrypt", "login"}, NEW i \in 0..MessageLines, Ask(c, i),
         c = "login" => i = DatabasePassword, opening' = Returned
  PROVE  LoginInv'
<1>1. opening'.done = FALSE /\ (opening'.sure => opening'.still) /\ DOMAIN opening' = DOMAIN NoSession
  BY DEF Returned, NoSession, LoginInv, Typed
<1>2. ReaderTyped' /\ FoundOut' /\ Current' /\ Accepted'
  BY BeginKept DEF Ask, LoginInv
<1>3. Typed'
  BY <1>1, <1>2 DEF Ask, LoginInv, Typed
<1>4. HalfWay'
  <2>1. TRUE \in BOOLEAN /\ reader' = Measured(c, i, TRUE) /\ Typed
    BY DEF Ask, LoginInv
  <2>2. reader'.call = c /\ reader'.index = i
    BY <2>1 DEF Measured
  <2> QED  BY <2>2, LoginAssumption DEF HalfWay
<1>5. CheckedUsable' /\ IssuedFor'
  BY DEF Ask, NoReply, CheckedUsable, IssuedFor
<1>6. LoginConsistent'
  BY <1>1 DEF LoginConsistent
<1> QED  BY <1>2, <1>3, <1>4, <1>5, <1>6 DEF LoginInv

LEMMA ReadFileKept ==
  ASSUME LoginInv, ReadFile, opening' = Returned
  PROVE  LoginInv'
<1>1. opening'.done = FALSE /\ (opening'.sure => opening'.still) /\ DOMAIN opening' = DOMAIN NoSession
  BY DEF Returned, NoSession, LoginInv, Typed
<1>2. InFile' = InFile
  BY DEF InFile, Decrypted, Readable, Got, LinesOf, ReadFile
<1>3. /\ reader \in Readers /\ file # << >> /\ file[1] \in Files
  BY DEF ReadFile, LoginInv, Typed, ReaderTyped, Idle
<1>4. \/ Decrypted(file[1], reader.size) = << >>
      \/ /\ Decrypted(file[1], reader.size) = <<LinesOf(file[1].licence)>>
         /\ file[1].licence.sealed
  BY DEF Decrypted, Readable
<1>5. /\ reader' \in Readers /\ reader' # Idle /\ reader'.at = "answer"
      /\ reader'.lines = Decrypted(file[1], reader.size) /\ reader'.licence = <<file[1].licence>>
      /\ reader'.still = reader.still /\ reader'.call = reader.call /\ reader'.index = reader.index
  BY <1>3, <1>4 DEF ReadFile, Readers, Files, Idle
<1>6. Typed'
  BY <1>1, <1>5 DEF ReadFile, LoginInv, Typed, ReaderTyped, Returned, NoSession, Idle
<1>7. FoundOut'
  BY <1>3, <1>4, <1>5 DEF FoundOut, Files
<1>8. Current'
  BY <1>2, <1>3, <1>5 DEF Current, LoginInv, InFile, ReadFile, Readers, Idle
<1>9. Accepted'
  BY <1>2, <1>3, <1>5 DEF Accepted, LoginInv, ReadFile, Enough, Readers, Idle
<1>10. opening' = opening
  BY <1>3 DEF Returned, LoginInv, Typed, Readers, Idle
<1>11. HalfWay'
  BY <1>2, <1>3, <1>5, <1>10 DEF HalfWay, LoginInv, Readers, Idle, Line
<1>12. CheckedUsable' /\ IssuedFor'
  BY DEF ReadFile, CheckedUsable, IssuedFor, LoginInv
<1>13. LoginConsistent'
  BY <1>1 DEF LoginConsistent
<1> QED  BY <1>6, <1>7, <1>8, <1>9, <1>11, <1>12, <1>13 DEF LoginInv

LEMMA AnswerKept ==
  ASSUME LoginInv, Respond, opening' = Returned
  PROVE  LoginInv'
<1>1. opening'.done = FALSE /\ (opening'.sure => opening'.still) /\ DOMAIN opening' = DOMAIN NoSession
  BY DEF Returned, NoSession, LoginInv, Typed
<1>2. InFile' = InFile
  BY DEF InFile, Decrypted, Readable, Got, LinesOf, Respond
<1>3. reader \in Readers /\ reader # Idle
  BY DEF Respond, LoginInv, Typed, ReaderTyped, Idle
<1>4. ASSUME reader.call = "decrypt"
      PROVE  CheckedUsable' /\ IssuedFor' /\ Accepted'
  <2>1. checked' = checked /\ reader' = Idle
    BY <1>4 DEF Respond
  <2>2. answer' = [call |-> "decrypt", index |-> reader.index, ok |-> HasLine,
                   licence |-> reader.licence, on |-> disks, sure |-> checked]
    BY <1>4 DEF Respond
  <2>3. CheckedUsable'
    <3>1. SUFFICES ASSUME checked, reader.index < MessageLines  PROVE HasLine
      BY <2>2 DEF CheckedUsable
    <3>2. reader.lines = InFile /\ InFile # << >> /\ Enough(InFile[1])
      BY <1>3, <3>1 DEF LoginInv, Accepted, Current, Respond
    <3> QED  BY <1>3, <3>1, <3>2, InFileIs, RegistrationAssumption
             DEF Enough, HasLine, LoginInv, Readers
  <2>4. IssuedFor'
    BY <2>2 DEF IssuedFor
  <2>5. Accepted'
    BY <1>2, <2>1 DEF Accepted, LoginInv, Enough
  <2> QED  BY <2>3, <2>4, <2>5
<1>5. ASSUME reader.call = "check"
      PROVE  CheckedUsable' /\ IssuedFor' /\ Accepted'
  <2> DEFINE ok == reader.lines # << >> /\ Enough(reader.lines[1]) /\ SameCode(reader.lines[1][1], IdCode(disks))
  <2>1. checked' = (ok /\ reader.still) /\ reader' = Idle
    BY <1>5 DEF Respond
  <2>2. answer' = [call |-> "check", index |-> reader.index, ok |-> ok,
                   licence |-> reader.licence, on |-> disks, sure |-> checked]
    BY <1>5 DEF Respond
  <2>3. CheckedUsable'
    BY <2>2 DEF CheckedUsable
  <2>4. IssuedFor'
    <3>1. SUFFICES ASSUME ok
          PROVE  /\ reader.licence[1].sealed
                 /\ Folded(IdCode(reader.licence[1].owner)) = Folded(IdCode(disks))
      BY <2>2 DEF IssuedFor
    <3>2. PICK l \in Licences : l.sealed /\ reader.licence = <<l>> /\ reader.lines = <<LinesOf(l)>>
      BY <3>1 DEF FoundOut, LoginInv, Respond
    <3>3. SameCode(LinesOf(l)[1], IdCode(l.owner)) /\ SameCode(LinesOf(l)[1], IdCode(disks))
      BY <3>1, <3>2, IssueAssumption
    <3>4. Folded(IdCode(l.owner)) = Folded(IdCode(disks))
      BY <3>3 DEF SameCode
    <3>5. reader.licence[1] = l
      BY <3>2
    <3> QED  BY <3>2, <3>4, <3>5
  <2>5. Accepted'
    <3>1. SUFFICES ASSUME ok, reader.still  PROVE InFile # << >> /\ Enough(InFile[1])
      BY <1>2, <2>1 DEF Accepted, Enough
    <3> QED  BY <1>3, <3>1 DEF LoginInv, Current, Respond
  <2> QED  BY <2>3, <2>4, <2>5
<1>6. reader' = Idle /\ UNCHANGED <<file, disks, saver>>
  BY DEF Respond
<1>7. Typed'
  <2>1. checked' \in BOOLEAN
    BY <1>3 DEF Respond, LoginInv, Typed, Readers, Enough, SameCode
  <2> QED  BY <1>1, <1>6, <2>1 DEF LoginInv, Typed, ReaderTyped, Idle
<1>8. FoundOut' /\ Current' /\ HalfWay'
  BY <1>6 DEF FoundOut, Current, HalfWay, Idle
<1>9. LoginConsistent'
  BY <1>1 DEF LoginConsistent
<1> QED
  <2>1. reader.call \in {"check", "decrypt"}
    BY DEF Respond
  <2> QED  BY <1>4, <1>5, <1>7, <1>8, <1>9, <2>1 DEF LoginInv

\* register_save, and other programs.
LEMMA FileStepKept ==
  ASSUME LoginInv, opening' = Returned,
         \/ \E l \in Licences : SaveOpen(l) \/ Place(l)
         \/ \E n \in 0..(Whole + 1) : SaveClose(n)
  PROVE  LoginInv'
<1>1. opening'.done = FALSE /\ (opening'.sure => opening'.still) /\ DOMAIN opening' = DOMAIN NoSession
  BY DEF Returned, NoSession, LoginInv, Typed
<1>2. PICK l \in Licences, n \in 0..(Whole + 1), g \in BOOLEAN :
         /\ FileIs(l, n, g)
         /\ saver' = << >> \/ (saver' = <<l>> /\ n = 0)
  <2>1. ASSUME NEW l \in Licences, SaveOpen(l)
        PROVE  FileIs(l, 0, FALSE) /\ saver' = <<l>>
    BY <2>1 DEF SaveOpen, Opened
  <2>2. ASSUME NEW l \in Licences, Place(l)
        PROVE  FileIs(l, Whole, FALSE) /\ saver' = << >>
    BY <2>2 DEF Place
  <2>3. ASSUME NEW n \in 0..(Whole + 1), SaveClose(n)
        PROVE  saver[1] \in Licences /\ FileIs(saver[1], n, n = Whole + 1) /\ saver' = << >>
    BY <2>3 DEF SaveClose, LoginInv, Typed, Whole
  <2>4. 0 \in 0..(Whole + 1) /\ Whole \in 0..(Whole + 1)
    BY DEF Whole
  <2>5. CASE \E l \in Licences : SaveOpen(l)
    BY <2>1, <2>4, <2>5
  <2>6. CASE \E l \in Licences : Place(l)
    BY <2>2, <2>4, <2>6
  <2>7. CASE \E n \in 0..(Whole + 1) : SaveClose(n)
    BY <2>3, <2>7
  <2> QED  BY <2>5, <2>6, <2>7
<1>3. /\ \E f \in Files : file' = <<f>>
      /\ ReaderTyped' /\ FoundOut' /\ Current' /\ Accepted'
      /\ reader' # Idle => ~reader'.still
  BY <1>2, FileIsKept
<1>4. file'[1].len = n /\ file' # << >> /\ checked' = FALSE /\ UNCHANGED <<disks, answer>>
  BY <1>2 DEF FileIs
<1>5. Typed'
  BY <1>1, <1>2, <1>3, <1>4 DEF LoginInv, Typed
<1>6. HalfWay'
  BY <1>3 DEF HalfWay
<1>7. CheckedUsable' /\ IssuedFor'
  BY <1>4 DEF CheckedUsable, IssuedFor, LoginInv
<1>8. LoginConsistent'
  BY <1>1 DEF LoginConsistent
<1> QED  BY <1>3, <1>5, <1>6, <1>7, <1>8 DEF LoginInv

LEMMA PasswordKept ==
  ASSUME LoginInv, LoginPassword
  PROVE  LoginInv'
<1>1. /\ reader \in Readers /\ reader # Idle /\ reader.still \in BOOLEAN
      /\ checked => reader.still
  BY DEF LoginPassword, LoginInv, Typed, ReaderTyped, Idle, Readers, Accepted
<1>2. /\ reader' = Measured("login", Language, reader.still) /\ Language \in 0..MessageLines
      /\ UNCHANGED <<file, disks, saver, checked, answer>>
  BY LoginAssumption, RegistrationAssumption DEF LoginPassword
<1>3. ReaderTyped' /\ FoundOut' /\ Current' /\ Accepted' /\ InFile' = InFile
  BY <1>1, <1>2, BeginKept
<1>4. /\ opening.done = FALSE /\ opening'.done = FALSE
      /\ opening'.sure = opening.sure /\ opening'.still = opening.still
      /\ opening'.password = IF HasLine THEN <<Line(reader.lines[1], DatabasePassword)>> ELSE << >>
      /\ DOMAIN opening' = DOMAIN NoSession
  BY <1>1 DEF LoginPassword, LoginInv, Typed, NoSession
<1>5. Typed'
  BY <1>2, <1>3, <1>4 DEF LoginInv, Typed
<1>6. HalfWay'
  <2>1. reader'.still = reader.still
    BY <1>1, <1>2 DEF Measured
  <2>2. reader.still => reader.lines = InFile
    BY <1>1 DEF LoginInv, Current, LoginPassword
  <2> QED  BY <1>3, <1>4, <2>1, <2>2 DEF HalfWay, HasLine, Line, LoginPassword
<1>7. CheckedUsable' /\ IssuedFor'
  BY <1>2 DEF CheckedUsable, IssuedFor, LoginInv
<1>8. LoginConsistent'
  BY <1>4 DEF LoginConsistent
<1> QED  BY <1>3, <1>5, <1>6, <1>7, <1>8 DEF LoginInv

LEMMA LanguageKept ==
  ASSUME LoginInv, LoginLanguage
  PROVE  LoginInv'
<1>1. /\ reader \in Readers /\ reader # Idle /\ reader.at = "answer"
      /\ reader.call = "login" /\ reader.index = Language
  BY DEF LoginLanguage, LoginInv, Typed, ReaderTyped, Idle
<1>2. reader' = Idle /\ UNCHANGED <<file, disks, saver, checked, answer>>
  BY DEF LoginLanguage
<1>3. /\ opening'.done = TRUE /\ opening'.still = reader.still /\ opening'.sure = checked
      /\ opening'.licence = reader.licence /\ opening'.password = opening.password
      /\ HasLine => opening'.language = <<Line(reader.lines[1], Language)>>
      /\ DOMAIN opening' = DOMAIN NoSession
  BY DEF LoginLanguage, LoginInv, Typed, NoSession
<1>4. checked => reader.still
  BY <1>1 DEF LoginInv, Accepted
<1>5. Typed'
  BY <1>2, <1>3, <1>4 DEF LoginInv, Typed, ReaderTyped, Idle
<1>6. FoundOut' /\ Current' /\ HalfWay'
  BY <1>2 DEF FoundOut, Current, HalfWay, Idle
<1>7. InFile' = InFile
  BY <1>2 DEF InFile, Decrypted, Readable, Got, LinesOf
<1>8. Accepted'
  BY <1>2, <1>7 DEF Accepted, LoginInv, Enough
<1>9. CheckedUsable' /\ IssuedFor'
  BY <1>2 DEF CheckedUsable, IssuedFor, LoginInv
<1>10. ASSUME reader.still
       PROVE  /\ reader.lines = InFile
              /\ file # << >> => reader.licence = <<file[1].licence>>
              /\ opening.password = IF InFile # << >> /\ DatabasePassword < Len(InFile[1])
                                    THEN <<Line(InFile[1], DatabasePassword)>> ELSE << >>
  BY <1>1, <1>10 DEF LoginInv, Current, HalfWay
<1>11. ASSUME InFile # << >>, reader.still
       PROVE  /\ reader.licence = <<file[1].licence>> /\ InFile = <<LinesOf(file[1].licence)>>
              /\ Len(InFile[1]) \in Nat
  BY <1>10, <1>11, InFileIs DEF LoginInv
<1>12. ASSUME checked
       PROVE  /\ opening'.password = <<Written(reader.licence[1], DatabasePassword)>>
              /\ opening'.language = <<Written(reader.licence[1], Language)>>
  <2>1. reader.still /\ InFile # << >> /\ Enough(InFile[1])
    BY <1>1, <1>12 DEF LoginInv, Accepted
  <2>2. DatabasePassword < Len(InFile[1]) /\ Language < Len(InFile[1])
    BY <1>11, <2>1, LoginAssumption, RegistrationAssumption DEF Enough
  <2>3. HasLine
    BY <1>1, <1>10, <2>1, <2>2 DEF HasLine
  <2> QED  BY <1>3, <1>10, <1>11, <2>1, <2>2, <2>3 DEF Line, Written
<1>13. ASSUME reader.still, opening'.password # << >>
       PROVE  opening'.password = <<Written(reader.licence[1], DatabasePassword)>>
  BY <1>3, <1>10, <1>11, <1>13 DEF Line, Written
<1>14. LoginConsistent'
  BY <1>3, <1>12, <1>13 DEF LoginConsistent, Written
<1> QED  BY <1>5, <1>6, <1>8, <1>9, <1>14 DEF LoginInv

LEMMA OthersKept ==
  ASSUME LoginInv,
         \/ \E d \in Computers : Plug(d) /\ opening' = Returned
         \/ Crash /\ opening' = NoSession
         \/ UNCHANGED loginVars
  PROVE  LoginInv'
<1>1. InFile' = InFile /\ file' = file
  BY DEF InFile, Decrypted, Readable, Got, LinesOf, Plug, Crash, loginVars, rgVars
<1>2. CASE \E d \in Computers : Plug(d) /\ opening' = Returned
  <2>1. opening'.done = FALSE /\ (opening'.sure => opening'.still) /\ DOMAIN opening' = DOMAIN NoSession
    BY <1>2 DEF Returned, NoSession, LoginInv, Typed
  <2>2. reader # Idle => opening' = opening
    BY <1>2 DEF Returned, LoginInv, Typed
  <2>3. LoginConsistent'
    BY <2>1 DEF LoginConsistent
  <2>4. Typed'
    BY <1>2, <2>1 DEF Plug, LoginInv, Typed, ReaderTyped
  <2>5. FoundOut' /\ Current'
    BY <1>1, <1>2 DEF Plug, LoginInv, FoundOut, Current
  <2>6. Accepted'
    BY <1>1, <1>2 DEF Plug, LoginInv, Accepted, Enough
  <2>7. HalfWay'
    BY <1>1, <1>2, <2>2 DEF Plug, LoginInv, HalfWay, Line
  <2>8. CheckedUsable' /\ IssuedFor'
    BY <1>2 DEF Plug, LoginInv, CheckedUsable, IssuedFor
  <2> QED  BY <2>3, <2>4, <2>5, <2>6, <2>7, <2>8 DEF LoginInv
<1>3. CASE Crash /\ opening' = NoSession
  <2>1. LoginConsistent'
    BY <1>3 DEF LoginConsistent, NoSession
  <2>2. Typed'
    BY <1>3 DEF Crash, NoSession, Idle, LoginInv, Typed, ReaderTyped
  <2>3. FoundOut' /\ Current' /\ Accepted' /\ HalfWay'
    BY <1>3 DEF Crash, Idle, FoundOut, Current, Accepted, HalfWay
  <2>4. CheckedUsable' /\ IssuedFor'
    BY <1>3 DEF Crash, LoginInv, CheckedUsable, IssuedFor
  <2> QED  BY <2>1, <2>2, <2>3, <2>4 DEF LoginInv
<1>4. CASE UNCHANGED loginVars
  BY <1>1, <1>4 DEF loginVars, rgVars, LoginInv, Typed, ReaderTyped, FoundOut, Current, Accepted, HalfWay,
     CheckedUsable, IssuedFor, LoginConsistent, Written
<1> QED  BY <1>2, <1>3, <1>4

-----------------------------------------------------------------------------
(* Theorems *)

LEMMA InvInit == LoginInit => LoginInv
<1> SUFFICES ASSUME LoginInit  PROVE LoginInv
  OBVIOUS
<1>1. Typed
  BY DEF LoginInit, RgInit, NoSession, Idle, Typed, ReaderTyped
<1>2. FoundOut /\ Current /\ Accepted /\ HalfWay
  BY DEF LoginInit, RgInit, Idle, FoundOut, Current, Accepted, HalfWay
<1>3. CheckedUsable /\ IssuedFor
  BY DEF LoginInit, RgInit, NoReply, CheckedUsable, IssuedFor
<1>4. LoginConsistent
  BY DEF LoginInit, NoSession, LoginConsistent
<1> QED  BY <1>1, <1>2, <1>3, <1>4 DEF LoginInv

LEMMA InvKept == LoginInv /\ [LoginNext]_loginVars => LoginInv'
<1> SUFFICES ASSUME LoginInv, [LoginNext]_loginVars  PROVE LoginInv'
  OBVIOUS
<1>1. CASE LoginBegins
  <2>1. DatabasePassword \in 0..MessageLines
    BY LoginAssumption, RegistrationAssumption
  <2> QED  BY <1>1, <2>1, AskKept DEF LoginBegins
<1>2. CASE LoginPassword
  BY <1>2, PasswordKept
<1>3. CASE LoginLanguage
  BY <1>3, LanguageKept
<1>4. CASE Step /\ opening' = Returned
  <2>1. Index \subseteq 0..MessageLines /\ 0 \in 0..MessageLines
    BY RegistrationAssumption DEF Index
  <2>2. CASE Ask("check", 0) \/ \E i \in Index : Ask("decrypt", i)
    BY <1>4, <2>1, <2>2, AskKept
  <2>3. CASE ReadFile
    BY <1>4, <2>3, ReadFileKept
  <2>4. CASE Respond
    BY <1>4, <2>4, AnswerKept
  <2>5. CASE \/ \E l \in Licences : SaveOpen(l) \/ Place(l)
             \/ \E n \in 0..(Whole + 1) : SaveClose(n)
    BY <1>4, <2>5, FileStepKept
  <2>6. CASE \E d \in Computers : Plug(d)
    BY <1>4, <2>6, OthersKept
  <2> QED  BY <1>4, <2>2, <2>3, <2>4, <2>5, <2>6 DEF Step
<1>5. CASE Crash /\ opening' = NoSession
  BY <1>5, OthersKept
<1>6. CASE UNCHANGED loginVars
  BY <1>6, OthersKept
<1> QED  BY <1>1, <1>2, <1>3, <1>4, <1>5, <1>6 DEF LoginNext

\* What the properties below follow from, in every state of every behaviour.
THEOREM LoginInvariance == LoginSpec => []LoginInv
BY InvInit, InvKept, PTL DEF LoginSpec

\* What a reader holds is a call, a size that demo.dat can have and what can be read
\* (register.c:33, register.c:50); a session is one of a finished database_init.
THEOREM LoginTyped == LoginSpec => []LoginTypeOK
<1>1. LoginInv => LoginTypeOK
  BY DEF LoginInv, Typed, ReaderTyped, Files, Readers, Idle, LoginTypeOK, RgTypeOK
<1> QED  BY <1>1, LoginInvariance, PTL

\* register_decrypt after register_check (register.c:178): a file that was accepted and
\* that nobody has changed answers every index, for any number of lines.
THEOREM AcceptedIsUsable == LoginSpec => []CheckedUsable
<1>1. LoginInv => CheckedUsable
  BY DEF LoginInv
<1> QED  BY <1>1, LoginInvariance, PTL

\* register_check (register.c:178): what it accepts was encrypted to this library and is
\* for disks with the same id code, whoever writes the file meanwhile.
THEOREM AcceptedIsIssued == LoginSpec => []IssuedFor
<1>1. LoginInv => IssuedFor
  BY DEF LoginInv
<1> QED  BY <1>1, LoginInvariance, PTL

\* database_init (database.c:29): password and language are those of one file, if it is
\* not changed between the two calls, and both are there, if it was accepted before.
THEOREM SessionOfOneFile == LoginSpec => []LoginConsistent
<1>1. LoginInv => LoginConsistent
  BY DEF LoginInv
<1> QED  BY <1>1, LoginInvariance, PTL

=============================================================================
