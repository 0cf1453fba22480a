------------------------------- MODULE System -------------------------------
(***************************************************************************)
(* What the libraries do with the operating system and share nothing of:   *)
(* processes and pipes, files, drives.  Each part is at its own pace.      *)
(***************************************************************************)
EXTENDS Spawn, FileContents, DiskInfo

SystemSpec ==
  /\ SsInit /\ [][SsNext]_ssVars
  /\ SaInit /\ [][SaNext]_saVars
  /\ FcSpec /\ DiSpec

\* What an answer of the operating system's users means, when any call below may fail and
\* any process may be killed: what is done with processes, pipes, files and drives is done
\* whole or answered FALSE, but in the cases that each part names and bounds.
SystemCorrect == SsCorrect /\ SaCorrect /\ FcCorrect /\ DiCorrect

=============================================================================
