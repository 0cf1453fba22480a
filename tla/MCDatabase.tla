----------------------------- MODULE MCDatabase -----------------------------
(* Small tables for model-checking Database: two languages, with a row, a   *)
(* row holding a NULL column and no row for each kind of lookup.            *)
EXTENDS Database, TLC

CONSTANTS en, zh, name, undef, full, half, unknown, engine, abs, cmd, nocmd, k1, k2

MCTextTable ==
  [l \in {en, zh} |-> name :> (IF l = en THEN "text" ELSE "null") @@
                      undef :> (IF l = en THEN "text" ELSE "absent")]
MCTroubleRows == full    :> [content |-> "text", description |-> "text"] @@
                 half    :> [content |-> "text", description |-> "null"] @@
                 unknown :> NoRow
MCTroubleTable == [l \in {en, zh} |-> [c \in Codes |-> MCTroubleRows[c]]]
MCLiveTable == [l \in {en, zh} |-> engine :> 2 @@ abs :> (IF l = en THEN 1 ELSE 0)]

\* a good registration, one for the other language, and none at all
MCRegistrations == { [password |-> k1, language |-> en], [password |-> k1, language |-> zh],
                     [password |-> NoKey, language |-> NoLanguage] }
\* a single registration
MCRegistered == { [password |-> k1, language |-> en] }

=============================================================================
