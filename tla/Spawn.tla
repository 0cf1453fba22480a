-------------------------------- MODULE Spawn --------------------------------
(***************************************************************************)
(* The two ways of eglib/gspawn.c to start a program.  Processes and pipes *)
(* are separate; an end of a pipe is open while some process has it.  Any  *)
(* call of the system may fail that the code looks at, or that it goes on  *)
(* without looking at, and a child may be killed.                          *)
(*                                                                         *)
(* g_spawn_command_line_sync: the parent reads what the child writes to    *)
(* its standard output and error through two pipes, and waits for its end. *)
(* What a child writes elsewhere is left out, and so are calls that a      *)
(* signal interrupts and the code repeats, and closing a descriptor that   *)
(* is closed already (gspawn.c:145).                                       *)
(*                                                                         *)
(* g_spawn_async_with_pipes: the caller, a first child, and, unless the    *)
(* caller wants to reap it, a second one that the first leaves behind.     *)
(* The runner, which is the last of them, tells through the info pipe who  *)
(* it is and what went wrong; that the pipe is closed without a word means *)
(* the program runs.  The null device and the environment change nothing   *)
(* else and are left out; reads of the info pipe fail for no other reason  *)
(* than a signal.                                                          *)
(***************************************************************************)
EXTENDS Integers, Sequences

CONSTANTS
  Scripts,    \* what the program writes: sequences of streams
  PipeSize,   \* room in a pipe
  ReadSize    \* of the buffer of read_pipes, 1024 in the code

Streams == {"out", "err"}

ASSUME SpawnSyncAssumption == Scripts \subseteq Seq(Streams) /\ {PipeSize, ReadSize} \subseteq Nat \ {0}

VARIABLES
  ssAsked,    \* the streams the caller wants, constant
  ssScript,   \* constant
  ssPc,       \* of the parent: "pipes" | "fork" | "close" | "select" | "read" | "wait" | "done"
  ssReady,    \* what select found readable and was not read yet
  ssOpen,     \* [stream -> out_closed and err_closed, negated]
  ssGot,      \* [stream -> what was read]
  ssAnswer,   \* << >> or <<BOOLEAN>>
  ssPipe,     \* [stream -> what is in the pipe]
  ssReads,    \* [stream -> processes that have the read end]
  ssWrites,   \* [stream -> processes that have the write end]
  ssChild,    \* "none" | "forked" | "runs" | "ended" | "reaped"
  ssAt,       \* writes of the program done
  ssEnd,      \* how the child ended: "none" | "exit" | "noexec" | "signal" | "pipe"
  ssOther,    \* another child of the caller: "none" | "runs" | "ended" | "reaped"
  ssStatus,   \* what *exit_status is set to, "unset" when it is not
  ssCut       \* select has failed

parentVars == <<ssPc, ssReady, ssOpen, ssGot, ssAnswer, ssOther, ssStatus, ssCut>>
childVars  == <<ssChild, ssAt, ssEnd>>
pipeVars   == <<ssPipe, ssReads, ssWrites>>
ssVars == <<ssAsked, ssScript, ssPc, ssReady, ssOpen, ssGot, ssAnswer, ssPipe, ssReads, ssWrites,
            ssChild, ssAt, ssEnd, ssOther, ssStatus, ssCut>>

Processes == {"parent", "child"}

SsTypeOK ==
  /\ ssPc \in {"pipes", "fork", "close", "select", "read", "wait", "done"}
  /\ ssReady \subseteq ssAsked /\ ssOpen \in [Streams -> BOOLEAN] /\ ssAt \in 0..Len(ssScript)
  /\ \A s \in Streams : /\ Len(ssPipe[s]) <= PipeSize
                        /\ ssReads[s] \cup ssWrites[s] \subseteq Processes
  /\ ssChild \in {"none", "forked", "runs", "ended", "reaped"} /\ ssCut \in BOOLEAN
  /\ ssEnd \in {"none", "exit", "noexec", "signal", "pipe"} /\ ssOther \in {"none", "runs", "ended", "reaped"}
  /\ ssStatus \in {"unset", "program", "one", "other", "garbage"}

\* The ends of all pipes without those of process p.
Without(ends, p) == [s \in Streams |-> ends[s] \ {p}]

-----------------------------------------------------------------------------
(* The parent in g_spawn_command_line_sync *)

\* The command line is no list of words; or there is a pipe for each stream that is asked
\* for, and when one cannot be had, the other is closed again.
SsPipes ==
  /\ ssPc = "pipes"
  /\ \/ /\ ssReads' = [s \in Streams |-> IF s \in ssAsked THEN {"parent"} ELSE {}]
        /\ ssWrites' = ssReads' /\ ssPc' = "fork" /\ UNCHANGED ssAnswer
     \/ ssPc' = "done" /\ ssAnswer' = <<FALSE>> /\ UNCHANGED <<ssReads, ssWrites>>
  /\ ssOpen' = [s \in Streams |-> s \in ssAsked]
  /\ UNCHANGED <<ssAsked, ssScript, ssReady, ssGot, ssPipe, ssOther, ssStatus, ssCut, childVars>>

\* fork, the failure of which is not looked at
SsFork ==
  /\ ssPc = "fork" /\ ssPc' = "close"
  /\ \/ /\ ssChild' = "forked"
        /\ ssReads' = [s \in Streams |-> IF s \in ssAsked THEN Processes ELSE {}] /\ ssWrites' = ssReads'
     \/ UNCHANGED <<ssChild, ssReads, ssWrites>>
  /\ UNCHANGED <<ssAsked, ssScript, ssReady, ssOpen, ssGot, ssAnswer, ssPipe, ssAt, ssEnd, ssOther, ssStatus, ssCut>>

\* Mutant: the parent keeps the write ends.
SsCloseNone ==
  /\ ssPc = "close" /\ ssPc' = (IF ssAsked = {} THEN "wait" ELSE "select")
  /\ UNCHANGED <<ssAsked, ssScript, ssReady, ssOpen, ssGot, ssAnswer, ssOther, ssStatus, ssCut, ssPipe, ssReads, ssWrites, childVars>>

SsClose ==
  /\ ssPc = "close" /\ ssPc' = (IF ssAsked = {} THEN "wait" ELSE "select")
  /\ ssWrites' = Without(ssWrites, "parent")
  /\ UNCHANGED <<ssAsked, ssScript, ssReady, ssOpen, ssGot, ssAnswer, ssOther, ssStatus, ssCut, ssPipe, ssReads, childVars>>

Readable(s) == ssOpen[s] /\ (ssPipe[s] # << >> \/ ssWrites[s] = {})

\* Mutant: the output is read to its end before the error output.
SsSelectInTurn ==
  /\ ssPc = "select"
  /\ IF \A s \in Streams : ~ssOpen[s]
     THEN ssPc' = "wait" /\ UNCHANGED ssReady
     ELSE LET first == IF ssOpen["out"] THEN "out" ELSE "err"
          IN  Readable(first) /\ ssReady' = {first} /\ ssPc' = "read"
  /\ UNCHANGED <<ssAsked, ssScript, ssOpen, ssGot, ssAnswer, ssOther, ssStatus, ssCut, childVars, pipeVars>>

\* The loop of read_pipes: it ends when both are closed, or waits for one of them.
SsSelect ==
  /\ ssPc = "select"
  /\ IF \A s \in Streams : ~ssOpen[s]
     THEN ssPc' = "wait" /\ UNCHANGED ssReady
     ELSE /\ ssReady' = {s \in Streams : Readable(s)} /\ ssReady' # {}
          /\ ssPc' = "read"
  /\ UNCHANGED <<ssAsked, ssScript, ssOpen, ssGot, ssAnswer, ssOther, ssStatus, ssCut, childVars, pipeVars>>

\* select fails, not because of a signal: the loop ends like after the end of both streams,
\* and what is open stays open.
SsSelectFails ==
  /\ ssPc = "select" /\ \E s \in Streams : ssOpen[s]
  /\ ssPc' = "wait" /\ ssCut' = TRUE
  /\ UNCHANGED <<ssAsked, ssScript, ssReady, ssOpen, ssGot, ssAnswer, ssOther, ssStatus, childVars, pipeVars>>

\* Mutant: a read that fills less than the buffer is taken for the last.
SsReadShort ==
  /\ ssPc = "read"
  /\ LET s == IF "out" \in ssReady THEN "out" ELSE "err"
         n == IF Len(ssPipe[s]) < ReadSize THEN Len(ssPipe[s]) ELSE ReadSize
     IN  /\ ssGot' = [ssGot EXCEPT ![s] = @ \o SubSeq(ssPipe[s], 1, n)]
         /\ ssPipe' = [ssPipe EXCEPT ![s] = SubSeq(@, n + 1, Len(@))]
         /\ ssOpen' = [ssOpen EXCEPT ![s] = n = ReadSize]
         /\ ssReads' = [ssReads EXCEPT ![s] = IF n = ReadSize THEN @ ELSE @ \ {"parent"}]
         /\ ssReady' = ssReady \ {s} /\ ssPc' = IF ssReady' = {} THEN "select" ELSE "read"
  /\ UNCHANGED <<ssAsked, ssScript, ssAnswer, ssWrites, ssOther, ssStatus, ssCut, childVars>>

\* One of the reads that follow, the output first; nothing read means the end.
SsRead ==
  /\ ssPc = "read"
  /\ LET s == IF "out" \in ssReady THEN "out" ELSE "err"
         n == IF Len(ssPipe[s]) < ReadSize THEN Len(ssPipe[s]) ELSE ReadSize
     IN  /\ ssGot' = [ssGot EXCEPT ![s] = @ \o SubSeq(ssPipe[s], 1, n)]
         /\ ssPipe' = [ssPipe EXCEPT ![s] = SubSeq(@, n + 1, Len(@))]
         /\ ssOpen' = [ssOpen EXCEPT ![s] = n > 0]
         /\ ssReads' = [ssReads EXCEPT ![s] = IF n > 0 THEN @ ELSE @ \ {"parent"}]
         /\ ssReady' = ssReady \ {s} /\ ssPc' = IF ssReady' = {} THEN "select" ELSE "read"
  /\ UNCHANGED <<ssAsked, ssScript, ssAnswer, ssWrites, ssOther, ssStatus, ssCut, childVars>>

\* Mutant: WIFEXITED is not asked: a killed program looks like one that exits with 0.
StatusOfAll == {IF ssEnd = "noexec" THEN "one" ELSE "program"}

\* WIFEXITED and WEXITSTATUS of the child, which exits with 1 where there is no program.
StatusOf == {CASE ssEnd = "exit" -> "program" [] ssEnd = "noexec" -> "one" [] OTHER -> "unset"}

\* Without a child the pid is -1, and waitpid takes any other child of the caller.
OtherReaped == ssOther' = IF ssChild = "none" /\ ssOther = "ended" THEN "reaped" ELSE ssOther

\* A read that fails: both pipes are closed, and the child is reaped if it has ended
\* by then.
SsReadFails ==
  /\ ssPc = "read"
  /\ ssReads' = Without(ssReads, "parent")
  /\ ssPc' = "done" /\ ssAnswer' = <<FALSE>> /\ ssReady' = {}
  /\ ssChild' = (IF ssChild = "ended" THEN "reaped" ELSE ssChild) /\ OtherReaped
  /\ UNCHANGED <<ssAsked, ssScript, ssOpen, ssGot, ssPipe, ssWrites, ssAt, ssEnd, ssStatus, ssCut>>

\* waitpid for the child, or for any other one when fork has failed.  When it finds none
\* (SIGCHLD is ignored, or another part of the caller has waited), its status is unset
\* memory, which may look like that of a process that has exited.
SsWait ==
  /\ ssPc = "wait"
  /\ \/ /\ ssChild = "ended" /\ ssChild' = "reaped" /\ ssStatus' \in StatusOf \cup {"unset", "garbage"}
        /\ UNCHANGED ssOther
     \/ /\ ssChild = "none" /\ ssOther # "runs" /\ OtherReaped
        /\ ssStatus' \in {"unset"} \cup (IF ssOther = "ended" THEN {"other"} ELSE {"garbage"})
        /\ UNCHANGED ssChild
  /\ ssPc' = "done" /\ ssAnswer' = <<TRUE>>
  /\ UNCHANGED <<ssAsked, ssScript, ssReady, ssOpen, ssGot, ssAt, ssEnd, ssCut, pipeVars>>

-----------------------------------------------------------------------------
(* Its child *)

\* The child is gone, and the ends it has.
ChildEnds(how) ==
  /\ ssChild' = "ended" /\ ssEnd' = how
  /\ ssReads' = Without(ssReads, "child") /\ ssWrites' = Without(ssWrites, "child")

\* It keeps the write ends, as standard output and error, and becomes the program,
\* or exits when there is none.
SsExec ==
  /\ ssChild = "forked"
  /\ \/ ssChild' = "runs" /\ ssReads' = Without(ssReads, "child") /\ UNCHANGED <<ssWrites, ssEnd>>
     \/ ChildEnds("noexec")
  /\ UNCHANGED <<ssAsked, ssScript, ssPipe, ssAt, parentVars>>

\* The program: a write waits for room, and kills it when nobody can read.
SsWrite ==
  /\ ssChild = "runs" /\ ssAt < Len(ssScript)
  /\ LET s == ssScript[ssAt + 1]
     IN  IF s \notin ssAsked THEN ssAt' = ssAt + 1 /\ UNCHANGED <<ssChild, ssEnd, pipeVars>>
         ELSE IF ssReads[s] = {} THEN ChildEnds("pipe") /\ UNCHANGED <<ssAt, ssPipe>>
         ELSE /\ Len(ssPipe[s]) < PipeSize
              /\ ssPipe' = [ssPipe EXCEPT ![s] = Append(@, ssAt + 1)] /\ ssAt' = ssAt + 1
              /\ UNCHANGED <<ssChild, ssEnd, ssReads, ssWrites>>
  /\ UNCHANGED <<ssAsked, ssScript, parentVars>>

SsExit ==
  /\ ssChild = "runs" /\ ssAt = Len(ssScript) /\ ChildEnds("exit")
  /\ UNCHANGED <<ssAsked, ssScript, ssPipe, ssAt, parentVars>>

\* It is killed at any point.
SsKilled ==
  /\ ssChild \in {"forked", "runs"} /\ ChildEnds("signal")
  /\ UNCHANGED <<ssAsked, ssScript, ssPipe, ssAt, parentVars>>

SsOtherEnds ==
  /\ ssOther = "runs" /\ ssOther' = "ended"
  /\ UNCHANGED <<ssAsked, ssScript, ssPc, ssReady, ssOpen, ssGot, ssAnswer, ssStatus, ssCut, childVars, pipeVars>>

SsInit ==
  /\ ssAsked \in SUBSET Streams /\ ssScript \in Scripts /\ ssOther \in {"none", "runs"}
  /\ ssPc = "pipes" /\ ssReady = {} /\ ssOpen = [s \in Streams |-> FALSE] /\ ssGot = [s \in Streams |-> << >>]
  /\ ssAnswer = << >> /\ ssPipe = [s \in Streams |-> << >>]
  /\ ssReads = [s \in Streams |-> {}] /\ ssWrites = [s \in Streams |-> {}]
  /\ ssChild = "none" /\ ssAt = 0 /\ ssEnd = "none" /\ ssStatus = "unset" /\ ssCut = FALSE

SsParent == SsPipes \/ SsFork \/ SsClose \/ SsSelect \/ SsSelectFails \/ SsRead \/ SsReadFails \/ SsWait
SsChild  == SsExec \/ SsWrite \/ SsExit
SsNext   == SsParent \/ SsChild \/ SsKilled \/ SsOtherEnds

\* Nothing makes the other child end.
SsSpec == SsInit /\ [][SsNext]_ssVars /\ WF_ssVars(SsParent) /\ WF_ssVars(SsChild)

-----------------------------------------------------------------------------
\* The writes of the program to stream s so far.
Written(s) == {i \in 1..ssAt : ssScript[i] = s}

\* w has the members of S, each once and in order.
Ascends(w, S) == {w[i] : i \in DOMAIN w} = S /\ \A i, j \in DOMAIN w : i < j => w[i] < w[j]

\* Whatever the parent has read and what is left in the pipe are together, each once
\* and in order, what the program has written to that stream so far.
SsInOrder == \A s \in ssAsked : Ascends(ssGot[s] \o ssPipe[s], Written(s))

\* What TRUE tells.  All that the child ever wrote has been read, unless select failed,
\* and the child, if fork made one, is no zombie.  A status that is the program's comes
\* from a program that did all of its writes, a 1 may also come from a program that could
\* not be had; the status of a killed program is not set; that of a stranger means that fork
\* failed.  Only the garbage after a failed waitpid (gspawn.c:292, "What if error?") is not
\* to be told from a status.
SsWhole ==
  ssAnswer = <<TRUE>> =>
    /\ ssChild \in {"none", "reaped"}
    /\ ~ssCut => \A s \in Streams : ssPipe[s] = << >> /\ ssReads[s] \cup ssWrites[s] = {}
    /\ ssStatus = "program" => ssEnd = "exit" /\ ssAt = Len(ssScript)
    /\ ssStatus = "one" => ssEnd = "noexec" /\ ssAt = 0
    /\ ssStatus = "other" => ssChild = "none" /\ ssOther = "reaped"
    /\ ssEnd # "pipe"

\* What FALSE tells: nothing was started, or a read has failed; a program that writes on
\* is killed then.  No status is set.
SsRefused ==
  ssAnswer = <<FALSE>> =>
    /\ ssStatus = "unset" /\ ~ssCut
    /\ ssChild = "none" \/ \A s \in Streams : ssReads[s] \subseteq {"child"}

\* Another child of the caller is reaped only after fork failed: then nobody else will
\* learn of its end.
SsOthers == ssOther = "reaped" => ssChild = "none" /\ ssPc = "done"

\* No end of a pipe stays with a parent that has returned, but the read ends of the
\* streams that were open when select failed.
SsClosed ==
  ssPc = "done" => \A s \in Streams : /\ "parent" \notin ssWrites[s]
                                      /\ "parent" \in ssReads[s] <=> ssCut /\ ssOpen[s]

SsCorrect == SsInOrder /\ SsWhole /\ SsRefused /\ SsOthers /\ SsClosed

\* The call waits for a stranger: fork has failed and another child runs on.
SsWaitsForOther == ssPc = "wait" /\ ssChild = "none" /\ ssOther = "runs"

\* The call waits for a child that waits for it: nobody reads since select failed.
SsWaitsInVain ==
  ssPc = "wait" /\ ssCut /\ ssChild = "runs" /\ \E s \in ssAsked : Len(ssPipe[s]) = PipeSize

\* With two pipes neither waits for ever on the one while the other one is full: the call
\* returns and the child ends, unless one of these two holds from some point on.
SsEnds ==
  \/ <>(ssPc = "done" /\ ssChild \in {"none", "ended", "reaped"})
  \/ <>[]SsWaitsForOther
  \/ <>[]SsWaitsInVain

-----------------------------------------------------------------------------
(* g_spawn_async_with_pipes *)

VARIABLES
  saAsked,     \* streams the caller wants pipes for, constant
  saReap,      \* G_SPAWN_DO_NOT_REAP_CHILD: the caller waits for the child itself, constant
  saLeave,     \* G_SPAWN_LEAVE_DESCRIPTORS_OPEN, constant
  saHolds,     \* [process -> ends of pipes that it has open]
  saInfo,      \* what is in the info pipe
  saPc,        \* of the caller: "fork" | "reap" | "close" | "pid" | "status" | "done"
  saAnswer,    \* << >> or <<BOOLEAN>>
  saPid,       \* pid, in the end what *child_pid is
  saProc,      \* [child -> "none" | "begins" | "tells" | "setup" | "execs" | "runs" | "exited" | "failed" | "killed" | "reaped"]
  saTorn,      \* the first child could not fork, or was killed before
  saCut        \* FALSE is answered because of "wait", waitpid, or of "read", that was interrupted; or "no"

saVars == <<saAsked, saReap, saLeave, saHolds, saInfo, saPc, saAnswer, saPid, saProc, saTorn, saCut>>

SaStreams == {"in", "out", "err"}
Ends8     == (SaStreams \cup {"info"}) \X {"r", "w"}
Children  == {"first", "second"}

\* The ends that stay with the caller in the end.
OfCaller == {<<"in", "w">>, <<"out", "r">>, <<"err", "r">>}

SaTypeOK ==
  /\ saHolds \in [Children \cup {"caller"} -> SUBSET Ends8]
  /\ saInfo \in Seq(Children \cup {"error"}) /\ saAnswer \in {<< >>} \cup {<<b>> : b \in BOOLEAN}
  /\ saPc \in {"fork", "reap", "close", "pid", "status", "done"} /\ saPid \in Children \cup {"none", "error"}
  /\ \A c \in Children :
       saProc[c] \in {"none", "begins", "tells", "setup", "execs", "runs", "exited", "failed", "killed", "reaped"}
  /\ saCut \in {"no", "wait", "read"}

\* The process that is to become the program.
Runner == IF saReap THEN "first" ELSE "second"

InfoOpen == \E p \in DOMAIN saHolds : <<"info", "w">> \in saHolds[p]

-----------------------------------------------------------------------------
(* The caller of g_spawn_async_with_pipes *)

\* fork; all pipes are closed when it fails, or when one of them could not be had.
SaFork ==
  /\ saPc = "fork"
  /\ \/ /\ saHolds' = [saHolds EXCEPT !["first"] = @ \cup saHolds["caller"]]
        /\ saProc' = [saProc EXCEPT !["first"] = "begins"] /\ saPid' = "first"
        /\ saPc' = (IF saReap THEN "close" ELSE "reap") /\ UNCHANGED saAnswer
     \/ /\ saHolds' = [saHolds EXCEPT !["caller"] = {}]
        /\ saPc' = "done" /\ saAnswer' = <<FALSE>> /\ UNCHANGED <<saProc, saPid>>
  /\ UNCHANGED <<saAsked, saReap, saLeave, saInfo, saTorn, saCut>>

\* waitpid for the first child.  The exit code 1 of one that could not fork comes as 256
\* and is not seen.  When it cannot be waited for (SIGCHLD is ignored, or another part of the
\* caller has waited), or signal 1 has killed it, all is closed, whatever the runner does.
SaReapFirst ==
  /\ saPc = "reap" /\ saProc["first"] \in {"exited", "failed"}
  /\ saProc' = [saProc EXCEPT !["first"] = "reaped"]
  /\ \/ saPc' = "close" /\ UNCHANGED <<saHolds, saAnswer, saCut>>
     \/ /\ saPc' = "done" /\ saAnswer' = <<FALSE>> /\ saCut' = "wait"
        /\ saHolds' = [saHolds EXCEPT !["caller"] = {}]
  /\ UNCHANGED <<saAsked, saReap, saLeave, saInfo, saPid, saTorn>>

\* Mutant: the caller keeps its write end of the info pipe.
SaCloseData ==
  /\ saPc = "close"
  /\ saHolds' = [saHolds EXCEPT !["caller"] = @ \cap (OfCaller \cup {<<"info", "r">>, <<"info", "w">>})]
  /\ saPc' = (IF saReap THEN "status" ELSE "pid")
  /\ UNCHANGED <<saAsked, saReap, saLeave, saInfo, saAnswer, saPid, saProc, saTorn, saCut>>

SaClose ==
  /\ saPc = "close"
  /\ saHolds' = [saHolds EXCEPT !["caller"] = @ \cap (OfCaller \cup {<<"info", "r">>})]
  /\ saPc' = (IF saReap THEN "status" ELSE "pid")
  /\ UNCHANGED <<saAsked, saReap, saLeave, saInfo, saAnswer, saPid, saProc, saTorn, saCut>>

\* Mutant: the pid of the runner is not waited for.
SaPidKept ==
  /\ saPc = "pid" /\ saPc' = "status"
  /\ UNCHANGED <<saAsked, saReap, saLeave, saHolds, saInfo, saAnswer, saPid, saProc, saTorn, saCut>>

\* The first word through the info pipe is the pid of the runner; none keeps the old one.
SaPid ==
  /\ saPc = "pid" /\ (saInfo # << >> \/ ~InfoOpen)
  /\ IF saInfo = << >> THEN UNCHANGED <<saInfo, saPid>>
     ELSE saPid' = Head(saInfo) /\ saInfo' = Tail(saInfo)
  /\ saPc' = "status"
  /\ UNCHANGED <<saAsked, saReap, saLeave, saHolds, saAnswer, saProc, saTorn, saCut>>

\* Mutant: the ends of the caller are forgotten with the others.
SaStatusClosed ==
  /\ saPc = "status" /\ saPc' = "done"
  /\ \/ /\ saInfo # << >> \/ ~InfoOpen
        /\ saAnswer' = <<saInfo = << >> >> /\ UNCHANGED saCut
     \/ saInfo = << >> /\ InfoOpen /\ saAnswer' = <<FALSE>> /\ saCut' = "read"
  /\ saInfo' = (IF saInfo = << >> THEN saInfo ELSE Tail(saInfo))
  /\ saHolds' = [saHolds EXCEPT !["caller"] = {}]
  /\ UNCHANGED <<saAsked, saReap, saLeave, saPid, saProc, saTorn>>

\* The next one, or the end of the pipe; or a signal while there is neither, for this read
\* is not repeated.  On FALSE the descriptors that are closed are those that were closed
\* before (gspawn.c:457, :472), so that those of the caller stay.
SaStatus ==
  /\ saPc = "status" /\ saPc' = "done"
  /\ \/ /\ saInfo # << >> \/ ~InfoOpen
        /\ saAnswer' = <<saInfo = << >> >> /\ UNCHANGED saCut
     \/ saInfo = << >> /\ InfoOpen /\ saAnswer' = <<FALSE>> /\ saCut' = "read"
  /\ saInfo' = (IF saInfo = << >> THEN saInfo ELSE Tail(saInfo))
  /\ saHolds' = [saHolds EXCEPT !["caller"] = @ \ {<<"info", "r">>}]
  /\ UNCHANGED <<saAsked, saReap, saLeave, saPid, saProc, saTorn>>

-----------------------------------------------------------------------------
(* Its children *)

Exits(p, how) == /\ saProc' = [saProc EXCEPT ![p] = how]
                 /\ saHolds' = [saHolds EXCEPT ![p] = {}]

\* A word of p reaches the info pipe if somebody else can still read it.
Heard(p) == \E q \in DOMAIN saHolds \ {p} : <<"info", "r">> \in saHolds[q]

\* The first child forks another one and exits, whether that worked or not; or it is
\* the runner itself.  One that is killed before it forks looks like one that could not.
SaBegin ==
  /\ saProc["first"] = "begins"
  /\ \/ saReap /\ saProc' = [saProc EXCEPT !["first"] = "tells"] /\ UNCHANGED <<saHolds, saTorn>>
     \/ /\ ~saReap
        /\ saProc' = [saProc EXCEPT !["first"] = "exited", !["second"] = "tells"]
        /\ saHolds' = [saHolds EXCEPT !["first"] = {}, !["second"] = saHolds["first"]]
        /\ UNCHANGED saTorn
     \/ ~saReap /\ Exits("first", "failed") /\ saTorn' = TRUE
  /\ UNCHANGED <<saAsked, saReap, saLeave, saInfo, saPc, saAnswer, saPid, saCut>>

\* Mutant: the runner keeps the ends of the caller.
SaTellOpen ==
  \E p \in Children :
    /\ saProc[p] = "tells" /\ saProc' = [saProc EXCEPT ![p] = "setup"]
    /\ saInfo' = IF saReap THEN saInfo ELSE Append(saInfo, p)
    /\ UNCHANGED <<saAsked, saReap, saLeave, saHolds, saPc, saAnswer, saPid, saTorn, saCut>>

\* The runner closes the ends of the caller and says who it is.  When the caller has closed
\* its end already, that kills it, unless SIGPIPE is ignored.
SaTell ==
  \E p \in Children :
    /\ saProc[p] = "tells"
    /\ \/ /\ saProc' = [saProc EXCEPT ![p] = "setup"]
          /\ saHolds' = [saHolds EXCEPT ![p] = @ \ (OfCaller \cup {<<"info", "r">>})]
          /\ saInfo' = IF ~saReap /\ Heard(p) THEN Append(saInfo, p) ELSE saInfo
       \/ ~saReap /\ ~Heard(p) /\ Exits(p, "killed") /\ UNCHANGED saInfo
    /\ UNCHANGED <<saAsked, saReap, saLeave, saPc, saAnswer, saPid, saTorn, saCut>>

\* Its directory cannot be had; or it gets its streams, and, with the flag to leave
\* descriptors open, loses all others (gspawn.c:417 has the test turned round).
SaSetup ==
  \E p \in Children :
    /\ saProc[p] = "setup"
    /\ \/ Exits(p, "failed") /\ saInfo' = IF Heard(p) THEN Append(saInfo, "error") ELSE saInfo
       \/ /\ saProc' = [saProc EXCEPT ![p] = "execs"]
          /\ saHolds' = [saHolds EXCEPT ![p] = IF saLeave THEN @ \ {<<"info", "w">>} ELSE @]
          /\ UNCHANGED saInfo
    /\ UNCHANGED <<saAsked, saReap, saLeave, saPc, saAnswer, saPid, saTorn, saCut>>

\* execve closes the info pipe; when it fails, or there is no such program, the error
\* is written, where that is still possible.
SaExec ==
  \E p \in Children :
    /\ saProc[p] = "execs"
    /\ \/ /\ saProc' = [saProc EXCEPT ![p] = "runs"]
          /\ saHolds' = [saHolds EXCEPT ![p] = @ \ {<<"info", "w">>}] /\ UNCHANGED saInfo
       \/ /\ Exits(p, "failed")
          /\ saInfo' = IF <<"info", "w">> \in saHolds[p] /\ Heard(p) THEN Append(saInfo, "error") ELSE saInfo
    /\ UNCHANGED <<saAsked, saReap, saLeave, saPc, saAnswer, saPid, saTorn, saCut>>

\* It is killed before it is the program.
SaKilled ==
  \E p \in Children :
    /\ saProc[p] \in {"tells", "setup", "execs"} /\ Exits(p, "killed")
    /\ UNCHANGED <<saAsked, saReap, saLeave, saInfo, saPc, saAnswer, saPid, saTorn, saCut>>

\* The program ends.
SaEnd ==
  \E p \in Children :
    /\ saProc[p] = "runs" /\ Exits(p, "exited")
    /\ UNCHANGED <<saAsked, saReap, saLeave, saInfo, saPc, saAnswer, saPid, saTorn, saCut>>

\* The pipes have been had.
SaInit ==
  /\ saAsked \in SUBSET SaStreams /\ saReap \in BOOLEAN /\ saLeave \in BOOLEAN
  /\ saHolds = [p \in Children \cup {"caller"} |->
                  IF p = "caller" THEN (saAsked \cup {"info"}) \X {"r", "w"} ELSE {}]
  /\ saInfo = << >> /\ saPc = "fork" /\ saAnswer = << >> /\ saPid = "none"
  /\ saProc = [c \in Children |-> "none"] /\ saTorn = FALSE /\ saCut = "no"

SaCaller   == SaFork \/ SaReapFirst \/ SaClose \/ SaPid \/ SaStatus
SaChildren == SaBegin \/ SaTell \/ SaSetup \/ SaExec
SaNext     == SaCaller \/ SaChildren \/ SaKilled \/ SaEnd

SaSpec == SaInit /\ [][SaNext]_saVars /\ WF_saVars(SaCaller) /\ WF_saVars(SaChildren)

-----------------------------------------------------------------------------
\* TRUE means that the runner has become the program, and *child_pid is the runner; or that
\* it is gone without a word: a first child that could not fork (then *child_pid is a process
\* that is reaped already), one that was killed, or one that the flag to leave descriptors
\* open has robbed of the info pipe, and whose execve failed or is still to come.
SaMeansTrue ==
  saAnswer = <<TRUE>> =>
    \/ saPid = Runner /\ saProc[Runner] \in {"runs", "exited"}
    \/ saTorn /\ saPid = "first" /\ saProc["first"] = "reaped" /\ saProc["second"] = "none"
    \/ saProc[Runner] = "killed"
    \/ saLeave /\ saPid = Runner /\ saProc[Runner] \in {"execs", "failed"}

\* FALSE means that no program runs or ever will; but for two answers that come too early.
\* After a waitpid that failed the caller has only the pid of the first child, which is
\* gone; after a read that a signal interrupted *child_pid is the runner.
SaMeansFalse ==
  saAnswer = <<FALSE>> =>
    \/ saCut = "no" /\ saProc[Runner] \in {"none", "failed"}
    \/ saCut = "wait" /\ ~saReap /\ saPid = "first" /\ saProc["first"] = "reaped"
    \/ saCut = "read" /\ saPid = Runner

\* The ends are where the streams need them: the program alone has those of its side,
\* and the caller alone those of its own, so that the end of either shows to the other.
\* A caller that is answered FALSE keeps its ends, and is not told of them, exactly when
\* the answer came through the info pipe.
SaPipesDirect ==
  /\ saPc = "done" => saHolds["caller"] = IF saPid = "none" \/ saCut = "wait" THEN {}
                                          ELSE {e \in OfCaller : e[1] \in saAsked}
  /\ saAnswer = <<TRUE>> => saPid # "none" /\ saCut = "no"
  /\ saAnswer = <<TRUE>> \/ saPc \in {"pid", "status"} => saHolds["first"] = {} \/ saReap
  /\ \A c \in Children : saProc[c] = "runs" => saHolds[c] \cap (OfCaller \cup {<<"info", "r">>, <<"info", "w">>}) = {}

\* No zombie is left behind that the caller does not know of: the comment's promise for
\* the first child.
SaNoZombie == saPc = "done" /\ ~saReap => saProc["first"] \in {"none", "reaped"}

SaCorrect == SaMeansTrue /\ SaMeansFalse /\ SaPipesDirect /\ SaNoZombie

\* The caller is always answered.
SaEnds == <>(saPc = "done")

=============================================================================
