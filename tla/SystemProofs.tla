---------------------------- MODULE SystemProofs ----------------------------
(***************************************************************************)
(* Proofs about the parts of System, each for every value of its          *)
(* constants: g_spawn_command_line_sync and g_spawn_async_with_pipes       *)
(* (Spawn), g_file_set_contents with g_file_get_contents (FileContents),   *)
(* and the drives' serial numbers (DiskInfo).  Each part has an inductive  *)
(* invariant, one lemma per action that it is kept, and the promises that  *)
(* follow from it; in the end they are put together.  The serial port,     *)
(* which shares nothing with them, comes last.                             *)
(***************************************************************************)
EXTENDS System, SerialPort, TLAPS

\* Answers are sequences of none or one.
LEMMA AnswersDiffer == << >> # <<TRUE>> /\ << >> # <<FALSE>> /\ <<TRUE>> # <<FALSE>>
<1>1. <<TRUE>>[1] # <<FALSE>>[1]
  OBVIOUS
<1>2. Len(<<TRUE>>) = 1 /\ Len(<<FALSE>>) = 1 /\ Len(<< >>) = 0
  OBVIOUS
<1> QED
  BY <1>1, <1>2

-----------------------------------------------------------------------------
(* g_spawn_command_line_sync *)

\* The numbers of the writes, which are all that is in the pipes.
Writes == Nat

SsShape ==
  /\ ssAsked \subseteq Streams /\ ssScript \in Seq(Streams)
  /\ ssPc \in {"pipes", "fork", "close", "select", "read", "wait", "done"}
  /\ ssReady \subseteq ssAsked /\ ssOpen \in [Streams -> BOOLEAN] /\ ssAt \in 0..Len(ssScript)
  /\ ssGot \in [Streams -> Seq(Writes)] /\ ssPipe \in [Streams -> Seq(Writes)]
  /\ \A s \in Streams : Len(ssPipe[s]) <= PipeSize
  /\ ssReads \in [Streams -> SUBSET Processes] /\ ssWrites \in [Streams -> SUBSET Processes]
  /\ ssChild \in {"none", "forked", "runs", "ended", "reaped"}

\* The child, and how far its program has come.
SsLives ==
  /\ ssPc \in {"pipes", "fork"} => ssChild = "none"
  /\ ssChild \in {"none", "forked"} => ssAt = 0

\* Who has which end of the pipe of a stream.
SsEndsHeld ==
  \A s \in Streams :
    /\ s \notin ssAsked \/ ssPc = "pipes" => ssReads[s] = {} /\ ssWrites[s] = {} /\ ssPipe[s] = << >>
    /\ s \in ssAsked /\ ssPc \in {"fork", "close"} => "parent" \in ssWrites[s]
    /\ s \in ssAsked /\ ssPc \in {"fork", "close", "select", "read", "wait"} => ("parent" \in ssReads[s] <=> ssOpen[s])
    /\ ssPc \notin {"fork", "close"} => "parent" \notin ssWrites[s]
    /\ ssPc = "done" => ("parent" \in ssReads[s] <=> ssCut /\ ssOpen[s])
    /\ "child" \in ssReads[s] => ssChild = "forked"
    /\ "child" \in ssWrites[s] => ssChild \in {"forked", "runs"}
    /\ s \in ssAsked /\ ssChild \in {"forked", "runs"} => "child" \in ssWrites[s]

\* A stream that was closed has come to its end, and one that was found readable still is.
SsSeen ==
  /\ \A s \in ssAsked : ssPc \in {"close", "select", "read", "wait"} /\ ~ssOpen[s] => ssPipe[s] = << >> /\ ssWrites[s] = {}
  /\ ssPc \in {"fork", "close"} => \A s \in ssAsked : ssOpen[s]
  /\ \A s \in ssReady : ssOpen[s] /\ (ssPipe[s] # << >> \/ ssWrites[s] = {})
  /\ ssPc = "wait" /\ ~ssCut => \A s \in ssAsked : ~ssOpen[s]
  /\ ssPc = "read" <=> ssReady # {}
  /\ \A s \in Streams : ssOpen[s] => s \in ssAsked

SsAnswers ==
  /\ ssPc # "done" => ssAnswer = << >>
  /\ ssPc = "done" => ssAnswer \in {<<TRUE>>, <<FALSE>>}
  /\ ssAnswer = <<TRUE>> =>
       /\ ssChild \in {"none", "reaped"}
       /\ ~ssCut => \A s \in Streams : ssPipe[s] = << >> /\ ssReads[s] = {} /\ ssWrites[s] = {}

\* How child and stranger end, and what the status can be.
SsTold ==
  /\ ssEnd \in {"none", "exit", "noexec", "signal", "pipe"} /\ ssOther \in {"none", "runs", "ended", "reaped"}
  /\ ssStatus \in {"unset", "program", "one", "other", "garbage"} /\ ssCut \in BOOLEAN
  /\ ssEnd = "none" <=> ssChild \in {"none", "forked", "runs"}
  /\ ssEnd = "exit" => ssAt = Len(ssScript)
  /\ ssEnd = "noexec" => ssAt = 0
  /\ ssEnd = "pipe" => ssAnswer = <<FALSE>>
  /\ ssOther = "reaped" => ssChild = "none" /\ ssPc = "done"
  /\ ssCut => ssPc \in {"wait", "done"} /\ ssAnswer # <<FALSE>>
  /\ ssPc # "done" \/ ssAnswer = <<FALSE>> => ssStatus = "unset"
  /\ ssStatus = "program" => ssEnd = "exit"
  /\ ssStatus = "one" => ssEnd = "noexec"
  /\ ssStatus = "other" => ssChild = "none" /\ ssOther = "reaped"

SsInv == SsShape /\ SsLives /\ SsEndsHeld /\ SsSeen /\ SsAnswers /\ SsInOrder /\ SsTold

-----------------------------------------------------------------------------
\* What is taken from the front of one sequence and put behind another.
LEMMA Joined ==
  ASSUME NEW S, NEW s \in Seq(S), NEW t \in Seq(S)
  PROVE  /\ s \o t \in Seq(S) /\ Len(s \o t) = Len(s) + Len(t)
         /\ Len(s) \in Nat /\ Len(t) \in Nat
         /\ \A i \in 1..(Len(s) + Len(t)) : i <= Len(s) => (s \o t)[i] = s[i]
         /\ \A i \in 1..(Len(s) + Len(t)) : i > Len(s) => (s \o t)[i] = t[i - Len(s)]
OBVIOUS

LEMMA SameSeq ==
  ASSUME NEW S, NEW s \in Seq(S), NEW t \in Seq(S), Len(s) = Len(t), \A i \in 1..Len(t) : s[i] = t[i]
  PROVE  s = t
OBVIOUS

LEMMA Moved ==
  ASSUME NEW s \in Seq(Writes), NEW t \in Seq(Writes), NEW n \in 0..Len(t)
  PROVE  /\ SubSeq(t, 1, n) \in Seq(Writes) /\ Len(SubSeq(t, 1, n)) = n
         /\ SubSeq(t, n + 1, Len(t)) \in Seq(Writes) /\ Len(SubSeq(t, n + 1, Len(t))) = Len(t) - n
         /\ (s \o SubSeq(t, 1, n)) \o SubSeq(t, n + 1, Len(t)) = s \o t
<1> DEFINE u == SubSeq(t, 1, n)
           v == SubSeq(t, n + 1, Len(t))
<1>1. /\ u \in Seq(Writes) /\ Len(u) = n
      /\ \A k \in 1..n : u[k] = t[k]
  OBVIOUS
<1>2. /\ v \in Seq(Writes) /\ Len(v) = Len(t) - n
      /\ \A k \in 1..(Len(t) - n) : v[k] = t[n + k]
  OBVIOUS
<1> HIDE DEF u, v
<1>3. /\ s \o u \in Seq(Writes) /\ Len(s \o u) = Len(s) + n
      /\ \A k \in 1..(Len(s) + n) : (s \o u)[k] = IF k <= Len(s) THEN s[k] ELSE t[k - Len(s)]
  <2>1. /\ s \o u \in Seq(Writes) /\ Len(s \o u) = Len(s) + Len(u)
        /\ \A k \in 1..(Len(s) + Len(u)) : k <= Len(s) => (s \o u)[k] = s[k]
        /\ \A k \in 1..(Len(s) + Len(u)) : k > Len(s) => (s \o u)[k] = u[k - Len(s)]
    BY <1>1, Joined
  <2>2. \A k \in 1..(Len(s) + n) : k > Len(s) => k - Len(s) \in 1..n
    OBVIOUS
  <2> QED
    BY <1>1, <2>1, <2>2
<1>4. /\ s \o t \in Seq(Writes) /\ Len(s \o t) = Len(s) + Len(t)
      /\ \A k \in 1..(Len(s) + Len(t)) : (s \o t)[k] = IF k <= Len(s) THEN s[k] ELSE t[k - Len(s)]
  OBVIOUS
<1> DEFINE a == s \o u
<1> HIDE DEF a
<1>5. /\ a \o v \in Seq(Writes) /\ Len(a \o v) = Len(s) + Len(t)
      /\ \A k \in 1..(Len(s) + Len(t)) : k <= Len(s) + n => (a \o v)[k] = a[k]
      /\ \A k \in 1..(Len(s) + Len(t)) : k > Len(s) + n => (a \o v)[k] = v[k - (Len(s) + n)]
  <2>1. a \in Seq(Writes) /\ Len(a) = Len(s) + n /\ Len(a) + Len(v) = Len(s) + Len(t)
    BY <1>2, <1>3 DEF a
  <2>2. /\ a \o v \in Seq(Writes) /\ Len(a \o v) = Len(a) + Len(v)
        /\ \A k \in 1..(Len(a) + Len(v)) : k <= Len(a) => (a \o v)[k] = a[k]
        /\ \A k \in 1..(Len(a) + Len(v)) : k > Len(a) => (a \o v)[k] = v[k - Len(a)]
    <3>1. a \in Seq(Writes) /\ v \in Seq(Writes)
      BY <1>2, <2>1
    <3> QED
      BY <3>1, Joined
  <2> QED
    BY <2>1, <2>2
<1>6. \A k \in 1..(Len(s) + Len(t)) : (a \o v)[k] = (s \o t)[k]
  <2> SUFFICES ASSUME NEW k \in 1..(Len(s) + Len(t)) PROVE (a \o v)[k] = (s \o t)[k]
    OBVIOUS
  <2>1. CASE k <= Len(s) + n
    <3>1. (a \o v)[k] = a[k] /\ k \in 1..(Len(s) + n)
      BY <1>5, <2>1
    <3> QED
      BY <1>3, <1>4, <3>1 DEF a
  <2>2. CASE k > Len(s) + n
    <3>1. (a \o v)[k] = v[k - (Len(s) + n)] /\ k - (Len(s) + n) \in 1..(Len(t) - n)
      BY <1>5, <2>2
    <3>2. (a \o v)[k] = t[n + (k - (Len(s) + n))]
      BY <1>2, <3>1
    <3>3. n + (k - (Len(s) + n)) = k - Len(s) /\ ~(k <= Len(s))
      BY <2>2
    <3>4. (s \o t)[k] = t[k - Len(s)]
      BY <1>4, <3>3
    <3> QED
      BY <3>2, <3>3, <3>4
  <2>3. k <= Len(s) + n \/ k > Len(s) + n
    OBVIOUS
  <2> QED
    BY <2>1, <2>2, <2>3
<1>7. a \o v = s \o t
  <2>1. Len(a \o v) = Len(s \o t) /\ \A k \in 1..Len(s \o t) : (a \o v)[k] = (s \o t)[k]
    BY <1>4, <1>5, <1>6
  <2> QED
    BY <1>4, <1>5, <2>1, SameSeq
<1> QED
  BY <1>1, <1>2, <1>7 DEF a, u, v

LEMMA Behind ==
  ASSUME NEW S, NEW s \in Seq(S), NEW t \in Seq(S), NEW x \in S
  PROVE  s \o Append(t, x) = Append(s \o t, x)
OBVIOUS

LEMMA AscendsFurther ==
  ASSUME NEW w \in Seq(Writes), NEW S, NEW x \in Nat, Ascends(w, S), \A i \in DOMAIN w : w[i] < x
  PROVE  Ascends(Append(w, x), S \cup {x})
<1> DEFINE v == Append(w, x)
<1>1. /\ Len(w) \in Nat /\ DOMAIN w = 1..Len(w) /\ DOMAIN v = 1..(Len(w) + 1)
      /\ v[Len(w) + 1] = x /\ \A i \in 1..Len(w) : v[i] = w[i]
  OBVIOUS
<1> HIDE DEF v
<1>2. {v[i] : i \in DOMAIN v} = S \cup {x}
  <2>1. {w[i] : i \in DOMAIN w} = S
    BY DEF Ascends
  <2>2. DOMAIN v = DOMAIN w \cup {Len(w) + 1}
    BY <1>1
  <2> QED
    BY <1>1, <2>1, <2>2
<1>3. \A i, j \in DOMAIN v : i < j => v[i] < v[j]
  <2> SUFFICES ASSUME NEW i \in DOMAIN v, NEW j \in DOMAIN v, i < j PROVE v[i] < v[j]
    OBVIOUS
  <2>1. i \in DOMAIN w
    BY <1>1
  <2>2. CASE j = Len(w) + 1
    BY <1>1, <2>1, <2>2
  <2>3. CASE j # Len(w) + 1
    <3>1. j \in DOMAIN w
      BY <1>1, <2>3
    <3> QED
      BY <1>1, <2>1, <3>1 DEF Ascends
  <2> QED
    BY <2>2, <2>3
<1> QED
  BY <1>2, <1>3 DEF v, Ascends

LEMMA SsInOrderKept ==
  ASSUME SsInOrder, UNCHANGED <<ssAsked, ssScript, ssGot, ssPipe, ssAt>>
  PROVE  SsInOrder'
BY DEF SsInOrder, Written

LEMMA SsStart == SsInit => SsInv
<1> SUFFICES ASSUME SsInit PROVE SsInv
  OBVIOUS
<1>1. SsShape
  BY SpawnSyncAssumption DEF SsInit, SsShape, Streams, Writes
<1>2. SsLives
  BY DEF SsInit, SsLives
<1>3. SsEndsHeld
  BY DEF SsInit, SsEndsHeld
<1>4. SsSeen
  BY DEF SsInit, SsSeen
<1>5. SsAnswers
  BY DEF SsInit, SsAnswers
<1>6. SsInOrder
  <2>1. ASSUME NEW s \in ssAsked PROVE Ascends(ssGot[s] \o ssPipe[s], Written(s))
    <3>1. ssGot[s] \o ssPipe[s] = << >> /\ ssAt = 0
      BY DEF SsInit, Streams
    <3>2. Ascends(<< >>, {})
      BY DEF Ascends
    <3>3. Written(s) = {}
      BY <3>1 DEF Written
    <3> QED
      BY <3>1, <3>2, <3>3
  <2> QED
    BY <2>1 DEF SsInOrder
<1>7. SsTold
  BY DEF SsInit, SsTold
<1> QED
  BY <1>1, <1>2, <1>3, <1>4, <1>5, <1>6, <1>7 DEF SsInv

LEMMA SsPipesKeeps == ASSUME SsInv, SsPipes PROVE SsInv'
<1> USE DEF SsInv
<1>1. SsShape'
  <2>1. /\ ssReads' \in [Streams -> SUBSET Processes] /\ ssWrites' \in [Streams -> SUBSET Processes]
        /\ ssOpen' \in [Streams -> BOOLEAN]
    <3>1. ssOpen' \in [Streams -> BOOLEAN]
      <4>1. ssOpen' = [s \in Streams |-> s \in ssAsked]
        BY DEF SsPipes
      <4>2. \A s \in Streams : (s \in ssAsked) \in BOOLEAN
        OBVIOUS
      <4> QED
        BY <4>1, <4>2, Zenon
    <3>2. CASE UNCHANGED <<ssReads, ssWrites>>
      BY <3>1, <3>2 DEF SsShape
    <3>3. CASE ssReads' = [s \in Streams |-> IF s \in ssAsked THEN {"parent"} ELSE {}] /\ ssWrites' = ssReads'
      BY <3>1, <3>3 DEF Processes
    <3> QED
      BY <3>2, <3>3 DEF SsPipes
  <2>2. /\ UNCHANGED <<ssAsked, ssScript, ssReady, ssGot, ssPipe, ssChild, ssAt>>
        /\ ssPc' \in {"fork", "done"}
    BY DEF SsPipes, childVars
  <2> QED
    BY <2>1, <2>2 DEF SsShape
<1>2. SsLives'
  BY DEF SsPipes, childVars, pipeVars, parentVars, SsShape, SsLives, SsSeen, SsEndsHeld, Streams
<1>3. SsEndsHeld'
  <2>1. \A s \in Streams : ssReads[s] = {} /\ ssWrites[s] = {} /\ ssPipe[s] = << >> /\ ssChild = "none"
    BY DEF SsPipes, SsEndsHeld, SsLives
  <2>2. ssOpen' = [s \in Streams |-> s \in ssAsked] /\ UNCHANGED <<ssAsked, ssPipe, ssChild>> /\ ssChild = "none"
    BY DEF SsPipes, childVars, SsLives
  <2>3. \/ /\ ssPc' = "fork" /\ ssWrites' = ssReads'
           /\ ssReads' = [s \in Streams |-> IF s \in ssAsked THEN {"parent"} ELSE {}]
        \/ ssPc' = "done" /\ UNCHANGED <<ssReads, ssWrites>>
    BY DEF SsPipes
  <2>4. ASSUME ssPc' = "done" PROVE SsEndsHeld'
    <3>1. ssReads' = ssReads /\ ssWrites' = ssWrites /\ ~ssCut' /\ ssPipe' = ssPipe /\ ssChild' = "none"
      BY <2>2, <2>3, <2>4 DEF SsPipes, SsTold
    <3> QED
      BY <2>1, <2>4, <3>1 DEF SsEndsHeld
  <2>5. ASSUME ssPc' = "fork" PROVE SsEndsHeld'
    <3>1. \A s \in Streams : /\ ssReads'[s] = (IF s \in ssAsked THEN {"parent"} ELSE {}) /\ ssWrites'[s] = ssReads'[s]
                             /\ (ssOpen'[s] <=> s \in ssAsked) /\ ssPipe'[s] = << >>
      BY <2>1, <2>2, <2>3, <2>5
    <3>2. ssPc' = "fork" /\ ssAsked' = ssAsked /\ ssChild' = "none"
      BY <2>2, <2>5
    <3> QED
      BY <3>1, <3>2 DEF SsEndsHeld
  <2> QED
    BY <2>3, <2>4, <2>5
<1>4. SsSeen'
  BY DEF SsPipes, childVars, pipeVars, parentVars, SsShape, SsLives, SsEndsHeld, SsSeen, SsTold, Streams, Processes
<1>5. SsAnswers'
  <2>1. ssAnswer = << >> /\ ((ssPc' = "fork" /\ ssAnswer' = ssAnswer) \/ (ssPc' = "done" /\ ssAnswer' = <<FALSE>>))
    BY DEF SsPipes, SsAnswers
  <2> QED
    BY <2>1, AnswersDiffer DEF SsAnswers
<1>6. SsInOrder'
  <2>1. SsInOrder /\ UNCHANGED <<ssAsked, ssScript, ssGot, ssPipe, ssAt>>
    BY DEF SsPipes, childVars, pipeVars, parentVars
  <2> QED
    BY <2>1, SsInOrderKept
<1>7. SsTold'
  BY AnswersDiffer DEF SsPipes, StatusOf, OtherReaped, ChildEnds, childVars, pipeVars, parentVars, SsShape, SsLives, SsEndsHeld, SsSeen, SsAnswers, SsTold, Streams
<1> QED
  BY <1>1, <1>2, <1>3, <1>4, <1>5, <1>6, <1>7

LEMMA SsForkKeeps == ASSUME SsInv, SsFork PROVE SsInv'
<1> USE DEF SsInv
<1>1. SsShape'
  BY SpawnSyncAssumption DEF SsFork, childVars, pipeVars, parentVars, SsShape, Streams, Processes
<1>2. SsLives'
  BY DEF SsFork, childVars, pipeVars, parentVars, SsShape, SsLives, SsSeen, SsEndsHeld, Streams
<1>3. SsEndsHeld'
  <2>1. /\ ssPc = "fork" /\ ssPc' = "close" /\ ssChild = "none" /\ UNCHANGED <<ssAsked, ssPipe, ssOpen>>
    BY DEF SsFork, SsLives
  <2>2. CASE UNCHANGED <<ssChild, ssReads, ssWrites>>
    BY <2>1, <2>2 DEF SsEndsHeld
  <2>3. ASSUME /\ ssChild' = "forked" /\ ssWrites' = ssReads'
               /\ ssReads' = [s \in Streams |-> IF s \in ssAsked THEN Processes ELSE {}]
        PROVE  SsEndsHeld'
    <3>1. \A s \in Streams : /\ ssReads'[s] = (IF s \in ssAsked THEN {"parent", "child"} ELSE {})
                             /\ ssWrites'[s] = ssReads'[s]
      BY <2>3 DEF Processes
    <3>2. \A s \in Streams : s \in ssAsked => ssOpen[s]
      BY <2>1 DEF SsEndsHeld, SsSeen
    <3> QED
      BY <2>1, <2>3, <3>1, <3>2 DEF SsEndsHeld
  <2> QED
    BY <2>2, <2>3 DEF SsFork
<1>4. SsSeen'
  BY DEF SsFork, childVars, pipeVars, parentVars, SsShape, SsLives, SsEndsHeld, SsSeen, SsTold, Streams, Processes
<1>5. SsAnswers'
  <2>1. ssAnswer = << >> /\ ssAnswer' = << >> /\ ssPc' = "close"
    BY DEF SsFork, SsAnswers
  <2> QED
    BY <2>1, AnswersDiffer DEF SsAnswers
<1>6. SsInOrder'
  <2>1. SsInOrder /\ UNCHANGED <<ssAsked, ssScript, ssGot, ssPipe, ssAt>>
    BY DEF SsFork, childVars, pipeVars, parentVars
  <2> QED
    BY <2>1, SsInOrderKept
<1>7. SsTold'
  BY AnswersDiffer DEF SsFork, StatusOf, OtherReaped, ChildEnds, childVars, pipeVars, parentVars, SsShape, SsLives, SsEndsHeld, SsSeen, SsAnswers, SsTold, Streams
<1> QED
  BY <1>1, <1>2, <1>3, <1>4, <1>5, <1>6, <1>7

LEMMA SsCloseKeeps == ASSUME SsInv, SsClose PROVE SsInv'
<1> USE DEF SsInv
<1>1. SsShape'
  BY SpawnSyncAssumption DEF SsClose, childVars, pipeVars, parentVars, Without, SsShape, Streams, Processes
<1>2. SsLives'
  BY DEF SsClose, childVars, pipeVars, parentVars, Without, SsShape, SsLives, SsSeen, SsEndsHeld, Streams
<1>3. SsEndsHeld'
  BY DEF SsClose, childVars, pipeVars, parentVars, Without, SsShape, SsLives, SsEndsHeld, SsSeen, SsTold, Streams, Processes
<1>4. SsSeen'
  BY DEF SsClose, childVars, pipeVars, parentVars, Without, SsShape, SsLives, SsEndsHeld, SsSeen, SsTold, Streams, Processes
<1>5. SsAnswers'
  BY DEF SsClose, childVars, pipeVars, parentVars, Without, SsShape, SsLives, SsEndsHeld, SsSeen, SsTold, SsAnswers, Streams, Processes
<1>6. SsInOrder'
  <2>1. SsInOrder /\ UNCHANGED <<ssAsked, ssScript, ssGot, ssPipe, ssAt>>
    BY DEF SsClose, childVars, pipeVars, parentVars
  <2> QED
    BY <2>1, SsInOrderKept
<1>7. SsTold'
  BY AnswersDiffer DEF SsClose, StatusOf, OtherReaped, ChildEnds, childVars, pipeVars, parentVars, SsShape, SsLives, SsEndsHeld, SsSeen, SsAnswers, SsTold, Streams
<1> QED
  BY <1>1, <1>2, <1>3, <1>4, <1>5, <1>6, <1>7

LEMMA SsSelectKeeps == ASSUME SsInv, SsSelect PROVE SsInv'
<1> USE DEF SsInv
<1>1. SsShape'
  <2>1. ssPc' \in {"wait", "read"} /\ UNCHANGED <<ssAsked, ssScript, ssOpen, ssGot, ssAnswer, ssChild, ssAt, ssPipe, ssReads, ssWrites>>
    BY DEF SsSelect, childVars, pipeVars
  <2>2. ssReady' \subseteq ssAsked
    BY DEF SsSelect, Readable, SsShape, SsSeen
  <2> QED
    BY <2>1, <2>2 DEF SsShape
<1>2. SsLives'
  BY DEF SsSelect, childVars, pipeVars, parentVars, Readable, SsShape, SsLives, SsSeen, SsEndsHeld, Streams
<1>3. SsEndsHeld'
  BY DEF SsSelect, childVars, pipeVars, parentVars, Readable, SsShape, SsLives, SsEndsHeld, SsSeen, SsTold, Streams, Processes
<1>4. SsSeen'
  BY DEF SsSelect, childVars, pipeVars, parentVars, Readable, SsShape, SsLives, SsEndsHeld, SsSeen, SsTold, Streams, Processes
<1>5. SsAnswers'
  BY DEF SsSelect, childVars, pipeVars, parentVars, Readable, SsShape, SsLives, SsEndsHeld, SsSeen, SsTold, SsAnswers, Streams, Processes
<1>6. SsInOrder'
  <2>1. SsInOrder /\ UNCHANGED <<ssAsked, ssScript, ssGot, ssPipe, ssAt>>
    BY DEF SsSelect, childVars, pipeVars, parentVars
  <2> QED
    BY <2>1, SsInOrderKept
<1>7. SsTold'
  BY AnswersDiffer DEF SsSelect, StatusOf, OtherReaped, ChildEnds, childVars, pipeVars, parentVars, SsShape, SsLives, SsEndsHeld, SsSeen, SsAnswers, SsTold, Streams
<1> QED
  BY <1>1, <1>2, <1>3, <1>4, <1>5, <1>6, <1>7

LEMMA SsSelectFailsKeeps == ASSUME SsInv, SsSelectFails PROVE SsInv'
<1> USE DEF SsInv
<1>1. SsShape'
  BY SpawnSyncAssumption DEF SsSelectFails, childVars, pipeVars, parentVars, SsShape, Streams, Processes
<1>2. SsLives'
  BY DEF SsSelectFails, childVars, pipeVars, parentVars, SsShape, SsLives, Streams
<1>3. SsEndsHeld'
  BY DEF SsSelectFails, childVars, pipeVars, parentVars, SsShape, SsLives, SsEndsHeld, SsSeen, SsTold, Streams, Processes
<1>4. SsSeen'
  BY DEF SsSelectFails, childVars, pipeVars, parentVars, SsShape, SsLives, SsEndsHeld, SsSeen, SsTold, Streams, Processes
<1>5. SsAnswers'
  BY AnswersDiffer DEF SsSelectFails, childVars, pipeVars, parentVars, SsShape, SsLives, SsEndsHeld, SsSeen, SsAnswers, SsTold, Streams, Processes
<1>6. SsInOrder'
  <2>1. SsInOrder /\ UNCHANGED <<ssAsked, ssScript, ssGot, ssPipe, ssAt>>
    BY DEF SsSelectFails, childVars, pipeVars, parentVars
  <2> QED
    BY <2>1, SsInOrderKept
<1>7. SsTold'
  BY AnswersDiffer DEF SsSelectFails, childVars, pipeVars, parentVars, SsShape, SsLives, SsEndsHeld, SsSeen, SsAnswers, SsTold, Streams
<1> QED
  BY <1>1, <1>2, <1>3, <1>4, <1>5, <1>6, <1>7

\* One read: of stream s, and of the first n bytes of what is in its pipe.
SsReads(s, n) ==
  /\ ssGot' = [ssGot EXCEPT ![s] = @ \o SubSeq(ssPipe[s], 1, n)]
  /\ ssPipe' = [ssPipe EXCEPT ![s] = SubSeq(@, n + 1, Len(@))]
  /\ ssOpen' = [ssOpen EXCEPT ![s] = n > 0]
  /\ ssReads' = [ssReads EXCEPT ![s] = IF n > 0 THEN @ ELSE @ \ {"parent"}]
  /\ ssReady' = ssReady \ {s} /\ ssPc' = (IF ssReady' = {} THEN "select" ELSE "read")
  /\ UNCHANGED <<ssAsked, ssScript, ssAnswer, ssWrites, ssChild, ssAt, ssEnd, ssOther, ssStatus, ssCut>>

LEMMA SsReadIs ==
  ASSUME SsInv, SsRead
  PROVE  \E s \in ssReady : \E n \in 0..Len(ssPipe[s]) :
           SsReads(s, n) /\ ssPc = "read" /\ (n = 0 <=> ssPipe[s] = << >>)
<1> DEFINE s == IF "out" \in ssReady THEN "out" ELSE "err"
           n == IF Len(ssPipe[s]) < ReadSize THEN Len(ssPipe[s]) ELSE ReadSize
<1>1. ssPc = "read" /\ ssReady # {} /\ ssReady \subseteq {"out", "err"}
  BY DEF SsRead, SsInv, SsSeen, SsShape, Streams
<1>2. s \in ssReady /\ s \in Streams
  BY <1>1 DEF Streams
<1>3. SsReads(s, n)
  BY DEF SsRead, SsReads, childVars
<1> HIDE DEF s
<1>4. ssPipe[s] \in Seq(Writes) /\ Len(ssPipe[s]) \in Nat /\ (Len(ssPipe[s]) = 0 <=> ssPipe[s] = << >>)
  BY <1>2 DEF SsInv, SsShape
<1>5. n \in 0..Len(ssPipe[s]) /\ (n = 0 <=> ssPipe[s] = << >>)
  BY <1>4, SpawnSyncAssumption
<1> QED
  BY <1>1, <1>2, <1>3, <1>5

LEMMA SsReadKeeps == ASSUME SsInv, SsRead PROVE SsInv'
<1>1. PICK s \in ssReady : \E n \in 0..Len(ssPipe[s]) :
           SsReads(s, n) /\ ssPc = "read" /\ (n = 0 <=> ssPipe[s] = << >>)
  BY SsReadIs
<1>2. PICK n \in 0..Len(ssPipe[s]) : SsReads(s, n) /\ ssPc = "read" /\ (n = 0 <=> ssPipe[s] = << >>)
  BY <1>1
<1> USE DEF SsInv
<1>3. /\ s \in Streams /\ s \in ssAsked /\ ssGot[s] \in Seq(Writes) /\ ssPipe[s] \in Seq(Writes)
      /\ ssReady' = ssReady \ {s} /\ ssPc' = (IF ssReady' = {} THEN "select" ELSE "read")
      /\ UNCHANGED <<ssAsked, ssScript, ssAnswer, ssWrites, ssChild, ssAt, ssEnd, ssOther, ssStatus, ssCut>>
  BY <1>2 DEF SsShape, SsReads
<1>4. /\ SubSeq(ssPipe[s], 1, n) \in Seq(Writes)
      /\ SubSeq(ssPipe[s], n + 1, Len(ssPipe[s])) \in Seq(Writes)
      /\ Len(SubSeq(ssPipe[s], n + 1, Len(ssPipe[s]))) = Len(ssPipe[s]) - n
      /\ (ssGot[s] \o SubSeq(ssPipe[s], 1, n)) \o SubSeq(ssPipe[s], n + 1, Len(ssPipe[s])) = ssGot[s] \o ssPipe[s]
  <2> DEFINE g == ssGot[s]
             q == ssPipe[s]
  <2> HIDE DEF g, q
  <2>1. g \in Seq(Writes) /\ q \in Seq(Writes) /\ n \in 0..Len(q)
    BY <1>3 DEF g, q
  <2>2. /\ SubSeq(q, 1, n) \in Seq(Writes) /\ SubSeq(q, n + 1, Len(q)) \in Seq(Writes)
        /\ Len(SubSeq(q, n + 1, Len(q))) = Len(q) - n
        /\ (g \o SubSeq(q, 1, n)) \o SubSeq(q, n + 1, Len(q)) = g \o q
    BY <2>1, Moved
  <2> QED
    BY <2>2 DEF g, q
<1>5. /\ \A t \in Streams \ {s} : /\ ssGot'[t] = ssGot[t] /\ ssPipe'[t] = ssPipe[t]
                                   /\ ssOpen'[t] = ssOpen[t] /\ ssReads'[t] = ssReads[t]
      /\ ssGot'[s] = ssGot[s] \o SubSeq(ssPipe[s], 1, n)
      /\ ssPipe'[s] = SubSeq(ssPipe[s], n + 1, Len(ssPipe[s]))
      /\ (ssOpen'[s] <=> n > 0)
      /\ ssReads'[s] = IF n > 0 THEN ssReads[s] ELSE ssReads[s] \ {"parent"}
  BY <1>2, <1>3 DEF SsReads, SsShape
<1>6. n = 0 => ssPipe'[s] = << >> /\ ssPipe[s] = << >>
  <2> SUFFICES ASSUME n = 0 PROVE ssPipe'[s] = << >>
    BY <1>2
  <2>1. ssPipe[s] = << >> /\ SubSeq(ssPipe[s], n + 1, Len(ssPipe[s])) = << >>
    BY <1>2, <1>3, <1>4
  <2> QED
    BY <1>5, <2>1
<1>7. SsShape'
  <2>1. ssGot' \in [Streams -> Seq(Writes)] /\ ssPipe' \in [Streams -> Seq(Writes)]
    <3>1. ssGot[s] \o SubSeq(ssPipe[s], 1, n) \in Seq(Writes)
      BY <1>3, <1>4
    <3> QED
      BY <1>2, <1>3, <1>4, <3>1 DEF SsReads, SsShape
  <2>2. \A t \in Streams : Len(ssPipe'[t]) <= PipeSize
    <3>1. Len(ssPipe[s]) - n <= PipeSize
      <4>1. Len(ssPipe[s]) <= PipeSize /\ Len(ssPipe[s]) \in Nat /\ PipeSize \in Nat
        BY <1>3, SpawnSyncAssumption DEF SsShape
      <4> QED
        BY <4>1
    <3> QED
      BY <1>3, <1>4, <1>5, <3>1 DEF SsShape
  <2>3. ssReads' \in [Streams -> SUBSET Processes] /\ ssOpen' \in [Streams -> BOOLEAN]
    BY <1>2, <1>3 DEF SsReads, SsShape
  <2> QED
    BY <1>3, <2>1, <2>2, <2>3 DEF SsShape
<1>8. SsLives'
  BY <1>2, <1>3 DEF SsLives
<1>9. SsEndsHeld'
  <2>1. "parent" \in ssReads[s] /\ ssPc = "read" /\ ssPc' \in {"select", "read"}
    BY <1>2, <1>3 DEF SsEndsHeld, SsSeen
  <2>2. /\ "parent" \in ssReads'[s] <=> ssOpen'[s]
        /\ "child" \in ssReads'[s] => "child" \in ssReads[s]
    BY <1>2, <1>5, <2>1
  <2>3. \A t \in Streams : t \notin ssAsked => ssReads'[t] = {} /\ ssWrites[t] = {} /\ ssPipe'[t] = << >>
    BY <1>3, <1>5 DEF SsEndsHeld
  <2>4. \A t \in Streams : t \in ssAsked => ("parent" \in ssReads'[t] <=> ssOpen'[t])
    BY <1>3, <1>5, <2>1, <2>2 DEF SsEndsHeld
  <2>5. \A t \in Streams : "child" \in ssReads'[t] => ssChild = "forked"
    BY <1>3, <1>5, <2>2 DEF SsEndsHeld
  <2>6. \A t \in Streams : /\ "parent" \notin ssWrites[t]
                           /\ "child" \in ssWrites[t] => ssChild \in {"forked", "runs"}
                           /\ t \in ssAsked /\ ssChild \in {"forked", "runs"} => "child" \in ssWrites[t]
    BY <2>1 DEF SsEndsHeld
  <2> QED
    BY <1>3, <2>1, <2>3, <2>4, <2>5, <2>6 DEF SsEndsHeld
<1>10. SsSeen'
  <2>1. ASSUME NEW t \in ssAsked, ~ssOpen'[t] PROVE ssPipe'[t] = << >> /\ ssWrites'[t] = {}
    <3>1. CASE t = s
      <4>1. n = 0
        BY <1>2, <1>5, <2>1, <3>1
      <4>2. ssWrites[s] = {}
        BY <1>2, <4>1 DEF SsSeen
      <4> QED
        BY <1>3, <1>6, <3>1, <4>1, <4>2
    <3>2. CASE t # s
      BY <1>2, <1>3, <1>5, <2>1, <3>2 DEF SsSeen, SsShape
    <3> QED
      BY <3>1, <3>2
  <2>2. \A t \in ssReady' : ssOpen'[t] /\ (ssPipe'[t] # << >> \/ ssWrites'[t] = {})
    BY <1>3, <1>5 DEF SsSeen, SsShape
  <2>3. \A t \in Streams : ssOpen'[t] => t \in ssAsked'
    BY <1>3, <1>5 DEF SsSeen
  <2>4. ssPc' \in {"select", "read"} /\ (ssPc' = "read" <=> ssReady' # {}) /\ ssAsked' = ssAsked
    BY <1>3
  <2> QED
    BY <2>1, <2>2, <2>3, <2>4 DEF SsSeen
<1>11. SsAnswers'
  <2>1. ssAnswer = << >> /\ ssAnswer' = << >> /\ ssPc' # "done"
    BY <1>2, <1>3 DEF SsAnswers
  <2> QED
    BY <2>1, AnswersDiffer DEF SsAnswers
<1>12. SsInOrder'
  <2>1. \A t \in ssAsked : ssGot'[t] \o ssPipe'[t] = ssGot[t] \o ssPipe[t]
    BY <1>3, <1>4, <1>5 DEF SsShape
  <2>2. \A t \in ssAsked : Written(t)' = Written(t)
    BY <1>3 DEF Written
  <2> QED
    BY <1>3, <2>1, <2>2 DEF SsInOrder
<1>13. SsTold'
  <2>1. ssAnswer = << >> /\ ssPc = "read" /\ ssPc' \in {"select", "read"}
    BY <1>2, <1>3 DEF SsAnswers
  <2> QED
    BY <1>3, <2>1, AnswersDiffer DEF SsTold
<1> QED
  BY <1>7, <1>8, <1>9, <1>10, <1>11, <1>12, <1>13

LEMMA SsReadFailsKeeps == ASSUME SsInv, SsReadFails PROVE SsInv'
<1> USE DEF SsInv
<1>1. SsShape'
  BY SpawnSyncAssumption DEF SsReadFails, StatusOf, OtherReaped, childVars, pipeVars, parentVars, Without, SsShape, Streams, Processes
<1>2. SsLives'
  BY DEF SsReadFails, StatusOf, OtherReaped, childVars, pipeVars, parentVars, Without, SsShape, SsLives, SsSeen, SsEndsHeld, Streams
<1>3. SsEndsHeld'
  BY DEF SsReadFails, StatusOf, OtherReaped, childVars, pipeVars, parentVars, Without, SsShape, SsLives, SsEndsHeld, SsSeen, SsTold, Streams, Processes
<1>4. SsSeen'
  BY DEF SsReadFails, StatusOf, OtherReaped, childVars, pipeVars, parentVars, Without, SsShape, SsLives, SsEndsHeld, SsSeen, SsTold, Streams, Processes
<1>5. SsAnswers'
  BY DEF SsReadFails, StatusOf, OtherReaped, childVars, pipeVars, parentVars, Without, SsShape, SsLives, SsEndsHeld, SsSeen, SsTold, SsAnswers, Streams, Processes
<1>6. SsInOrder'
  <2>1. SsInOrder /\ UNCHANGED <<ssAsked, ssScript, ssGot, ssPipe, ssAt>>
    BY DEF SsReadFails, StatusOf, OtherReaped, childVars, pipeVars, parentVars
  <2> QED
    BY <2>1, SsInOrderKept
<1>7. SsTold'
  BY AnswersDiffer DEF SsReadFails, StatusOf, OtherReaped, ChildEnds, childVars, pipeVars, parentVars, SsShape, SsLives, SsEndsHeld, SsSeen, SsAnswers, SsTold, Streams
<1> QED
  BY <1>1, <1>2, <1>3, <1>4, <1>5, <1>6, <1>7

LEMMA SsWaitKeeps == ASSUME SsInv, SsWait PROVE SsInv'
<1> USE DEF SsInv
<1>1. SsShape'
  BY SpawnSyncAssumption DEF SsWait, StatusOf, OtherReaped, childVars, pipeVars, parentVars, SsShape, Streams, Processes
<1>2. SsLives'
  BY DEF SsWait, StatusOf, OtherReaped, childVars, pipeVars, parentVars, SsShape, SsLives, SsSeen, SsEndsHeld, Streams
<1>3. SsEndsHeld'
  BY DEF SsWait, StatusOf, OtherReaped, childVars, pipeVars, parentVars, SsShape, SsLives, SsEndsHeld, SsSeen, SsTold, Streams, Processes
<1>4. SsSeen'
  BY DEF SsWait, StatusOf, OtherReaped, childVars, pipeVars, parentVars, SsShape, SsLives, SsEndsHeld, SsSeen, SsTold, Streams, Processes
<1>5. SsAnswers'
  <2>1. /\ ssPc = "wait" /\ ssPc' = "done" /\ ssAnswer' = <<TRUE>> /\ UNCHANGED <<ssPipe, ssReads, ssWrites, ssCut>>
        /\ ssChild' \in {"none", "reaped"} /\ ssChild \notin {"forked", "runs"}
    BY DEF SsWait, pipeVars
  <2>2. ASSUME NEW s \in Streams, ~ssCut PROVE ssPipe[s] = << >> /\ ssReads[s] = {} /\ ssWrites[s] = {}
    <3>1. CASE s \notin ssAsked
      BY <3>1 DEF SsEndsHeld
    <3>2. ASSUME s \in ssAsked PROVE ssPipe[s] = << >> /\ ssReads[s] = {} /\ ssWrites[s] = {}
      <4>1. ~ssOpen[s] /\ ssPipe[s] = << >> /\ ssWrites[s] = {}
        BY <2>1, <2>2, <3>2 DEF SsSeen
      <4>2. "parent" \notin ssReads[s] /\ "child" \notin ssReads[s]
        BY <2>1, <3>2, <4>1 DEF SsEndsHeld
      <4> QED
        BY <4>1, <4>2 DEF SsShape, Processes
    <3> QED
      BY <3>1, <3>2
  <2> QED
    BY <2>1, <2>2, AnswersDiffer DEF SsAnswers
<1>6. SsInOrder'
  <2>1. SsInOrder /\ UNCHANGED <<ssAsked, ssScript, ssGot, ssPipe, ssAt>>
    BY DEF SsWait, StatusOf, OtherReaped, childVars, pipeVars, parentVars
  <2> QED
    BY <2>1, SsInOrderKept
<1>7. SsTold'
  BY AnswersDiffer DEF SsWait, StatusOf, OtherReaped, ChildEnds, childVars, pipeVars, parentVars, SsShape, SsLives, SsEndsHeld, SsSeen, SsAnswers, SsTold, Streams
<1> QED
  BY <1>1, <1>2, <1>3, <1>4, <1>5, <1>6, <1>7

LEMMA SsExecKeeps == ASSUME SsInv, SsExec PROVE SsInv'
<1> USE DEF SsInv
<1>1. SsShape'
  BY SpawnSyncAssumption DEF SsExec, childVars, pipeVars, parentVars, ChildEnds, Without, SsShape, Streams, Processes
<1>2. SsLives'
  BY DEF SsExec, childVars, pipeVars, parentVars, ChildEnds, Without, SsShape, SsLives, SsSeen, SsEndsHeld, Streams
<1>3. SsEndsHeld'
  BY DEF SsExec, childVars, pipeVars, parentVars, ChildEnds, Without, SsShape, SsLives, SsEndsHeld, SsSeen, SsTold, Streams, Processes
<1>4. SsSeen'
  BY DEF SsExec, childVars, pipeVars, parentVars, ChildEnds, Without, SsShape, SsLives, SsEndsHeld, SsSeen, SsTold, Streams, Processes
<1>5. SsAnswers'
  BY DEF SsExec, childVars, pipeVars, parentVars, ChildEnds, Without, SsShape, SsLives, SsEndsHeld, SsSeen, SsTold, SsAnswers, Streams, Processes
<1>6. SsInOrder'
  <2>1. SsInOrder /\ UNCHANGED <<ssAsked, ssScript, ssGot, ssPipe, ssAt>>
    BY DEF SsExec, childVars, pipeVars, parentVars, ChildEnds
  <2> QED
    BY <2>1, SsInOrderKept
<1>7. SsTold'
  BY AnswersDiffer DEF SsExec, StatusOf, OtherReaped, ChildEnds, childVars, pipeVars, parentVars, SsShape, SsLives, SsEndsHeld, SsSeen, SsAnswers, SsTold, Streams
<1> QED
  BY <1>1, <1>2, <1>3, <1>4, <1>5, <1>6, <1>7

LEMMA SsWriteKeeps == ASSUME SsInv, SsWrite PROVE SsInv'
<1> USE DEF SsInv
<1>1. SsShape'
  <2>1. ssPipe' \in [Streams -> Seq(Writes)] /\ (\A t \in Streams : Len(ssPipe'[t]) <= PipeSize) /\ ssAt' \in 0..Len(ssScript)
    <3> DEFINE s == ssScript[ssAt + 1]
    <3>1. /\ ssAt \in Nat /\ ssAt < Len(ssScript) /\ s \in Streams /\ Len(ssScript) \in Nat /\ PipeSize \in Nat
          /\ ssAt' \in {ssAt, ssAt + 1}
      BY SpawnSyncAssumption DEF SsWrite, SsShape
    <3>2. CASE ssPipe' = ssPipe
      BY <3>1, <3>2 DEF SsShape
    <3>3. CASE ssPipe' = [ssPipe EXCEPT ![s] = Append(@, ssAt + 1)] /\ Len(ssPipe[s]) < PipeSize
      <4>1. /\ ssPipe[s] \in Seq(Writes) /\ Len(ssPipe[s]) \in Nat /\ Append(ssPipe[s], ssAt + 1) \in Seq(Writes)
            /\ Len(Append(ssPipe[s], ssAt + 1)) = Len(ssPipe[s]) + 1
        <5> DEFINE q == ssPipe[s]
                   x == ssAt + 1
        <5> HIDE DEF q, x
        <5>1. q \in Seq(Writes) /\ x \in Writes
          BY <3>1 DEF SsShape, Writes, q, x
        <5>2. Len(q) \in Nat /\ Append(q, x) \in Seq(Writes) /\ Len(Append(q, x)) = Len(q) + 1
          BY <5>1
        <5> QED
          BY <5>1, <5>2 DEF q, x
      <4> HIDE DEF s
      <4>2. ssPipe' \in [Streams -> Seq(Writes)]
        BY <3>1, <3>3, <4>1 DEF SsShape
      <4>3. \A t \in Streams : Len(ssPipe'[t]) <= PipeSize
        <5> SUFFICES ASSUME NEW t \in Streams PROVE Len(ssPipe'[t]) <= PipeSize
          OBVIOUS
        <5>1. CASE t = s
          <6>1. ssPipe'[t] = Append(ssPipe[s], ssAt + 1)
            BY <3>1, <3>3, <5>1 DEF SsShape
          <6>2. Len(ssPipe'[t]) = Len(ssPipe[s]) + 1 /\ Len(ssPipe[s]) < PipeSize /\ Len(ssPipe[s]) \in Nat
            BY <3>3, <4>1, <6>1
          <6> QED
            BY <3>1, <6>2
        <5>2. CASE t # s
          BY <3>1, <3>3, <5>2 DEF SsShape
        <5> QED
          BY <5>1, <5>2
      <4> QED
        BY <3>1, <4>2, <4>3
    <3> QED
      BY <3>2, <3>3 DEF SsWrite, pipeVars
  <2>2. ssWrites' \in [Streams -> SUBSET Processes] /\ ssReads' \in [Streams -> SUBSET Processes]
    BY DEF SsWrite, ChildEnds, Without, SsShape, pipeVars
  <2>3. UNCHANGED <<ssAsked, ssScript, ssPc, ssReady, ssOpen, ssGot>> /\ ssChild' \in {ssChild, "ended"}
    BY DEF SsWrite, ChildEnds, parentVars
  <2> QED
    BY <2>1, <2>2, <2>3 DEF SsShape
<1>2. SsLives'
  BY DEF SsWrite, childVars, pipeVars, parentVars, ChildEnds, Without, SsShape, SsLives, SsSeen, SsEndsHeld, Streams
<1>3. SsEndsHeld'
  <2> DEFINE s == ssScript[ssAt + 1]
  <2>1. ssChild = "runs" /\ s \in Streams /\ UNCHANGED <<ssAsked, ssPc, ssOpen, ssCut>>
    BY DEF SsWrite, parentVars, SsShape
  <2>2. \/ ssChild' = "runs" /\ ssWrites' = ssWrites /\ ssReads' = ssReads
        \/ /\ ssChild' = "ended" /\ ssWrites' = [t \in Streams |-> ssWrites[t] \ {"child"}]
           /\ ssReads' = [t \in Streams |-> ssReads[t] \ {"child"}]
    BY <2>1 DEF SsWrite, Without, ChildEnds, pipeVars
  <2>3. \A t \in Streams : t \notin ssAsked \/ ssPc = "pipes" => ssPipe'[t] = ssPipe[t]
    <3>1. ssPc # "pipes"
      BY <2>1 DEF SsLives
    <3>2. ssPipe' = ssPipe \/ (s \in ssAsked /\ ssPipe' = [ssPipe EXCEPT ![s] = Append(@, ssAt + 1)])
      BY DEF SsWrite, pipeVars
    <3>3. \A t \in Streams : t # s => ssPipe'[t] = ssPipe[t] \/ ssPipe' = ssPipe
      BY <3>2 DEF SsShape
    <3> QED
      BY <3>1, <3>2, <3>3
  <2> HIDE DEF s
  <2>4. CASE ssChild' = "runs" /\ ssWrites' = ssWrites /\ ssReads' = ssReads
    BY <2>1, <2>3, <2>4 DEF SsEndsHeld
  <2>5. CASE /\ ssChild' = "ended" /\ ssWrites' = [t \in Streams |-> ssWrites[t] \ {"child"}]
             /\ ssReads' = [t \in Streams |-> ssReads[t] \ {"child"}]
    <3>1. \A t \in Streams : ssWrites'[t] = ssWrites[t] \ {"child"} /\ ssReads'[t] = ssReads[t] \ {"child"}
      BY <2>5
    <3> QED
      BY <2>1, <2>3, <2>5, <3>1 DEF SsEndsHeld
  <2> QED
    BY <2>2, <2>4, <2>5
<1>4. SsSeen'
  BY DEF SsWrite, childVars, pipeVars, parentVars, ChildEnds, Without, SsShape, SsLives, SsEndsHeld, SsSeen, SsTold, Streams, Processes
<1>5. SsAnswers'
  BY DEF SsWrite, childVars, pipeVars, parentVars, ChildEnds, Without, SsShape, SsLives, SsEndsHeld, SsSeen, SsTold, SsAnswers, Streams, Processes
<1>6. SsInOrder'
  <2>1. CASE ssAt' = ssAt
    <3>1. UNCHANGED <<ssAsked, ssScript, ssGot, ssPipe, ssAt>>
      BY <2>1 DEF SsWrite, parentVars, SsShape
    <3> QED
      BY <3>1, SsInOrderKept
  <2>2. ASSUME ssAt' = ssAt + 1, NEW t \in ssAsked PROVE Ascends(ssGot'[t] \o ssPipe'[t], Written(t)')
    <3> DEFINE s == ssScript[ssAt + 1]
               w == ssGot[t] \o ssPipe[t]
    <3>1. /\ ssAt \in Nat /\ ssAt + 1 \in 1..Len(ssScript) /\ s \in Streams /\ t \in Streams
          /\ UNCHANGED <<ssAsked, ssScript, ssGot>>
      BY DEF SsWrite, parentVars, SsShape
    <3>2. Written(t)' = IF s = t THEN Written(t) \cup {ssAt + 1} ELSE Written(t)
      BY <3>1, <2>2 DEF Written
    <3>3. /\ ssGot[t] \in Seq(Writes) /\ ssPipe[t] \in Seq(Writes) /\ w \in Seq(Writes)
      BY <3>1 DEF SsShape
    <3>4. Ascends(w, Written(t))
      BY <2>2 DEF SsInOrder
    <3>5. CASE s = t
      <4>1. ssPipe'[t] = Append(ssPipe[t], ssAt + 1)
        BY <2>2, <3>1, <3>5 DEF SsWrite, SsShape
      <4>2. ssGot'[t] \o ssPipe'[t] = Append(w, ssAt + 1)
        <5> DEFINE g == ssGot[t]
                   q == ssPipe[t]
                   x == ssAt + 1
        <5> HIDE DEF g, q, x
        <5>1. g \in Seq(Writes) /\ q \in Seq(Writes) /\ x \in Nat
          BY <3>1, <3>3 DEF g, q, x
        <5>2. g \o Append(q, x) = Append(g \o q, x)
          BY <5>1, Behind
        <5>3. ssGot'[t] = ssGot[t]
          BY <3>1
        <5> QED
          BY <4>1, <5>2, <5>3 DEF g, q, x
      <4> HIDE DEF w, s
      <4>3. \A i \in DOMAIN w : w[i] < ssAt + 1
        BY <3>1, <3>4 DEF Ascends, Written
      <4>4. Ascends(Append(w, ssAt + 1), Written(t) \cup {ssAt + 1})
        <5> DEFINE x == ssAt + 1
        <5> HIDE DEF x
        <5>1. w \in Seq(Writes) /\ x \in Nat /\ Ascends(w, Written(t)) /\ \A i \in DOMAIN w : w[i] < x
          BY <3>1, <3>3, <3>4, <4>3 DEF x
        <5>2. Ascends(Append(w, x), Written(t) \cup {x})
          BY <5>1, AscendsFurther
        <5> QED
          BY <5>2 DEF x
      <4> QED
        BY <3>2, <3>5, <4>2, <4>4
    <3>6. CASE s # t
      <4>1. ssPipe'[t] = ssPipe[t]
        BY <2>2, <3>1, <3>6 DEF SsWrite, SsShape, pipeVars
      <4> QED
        BY <3>1, <3>2, <3>4, <3>6, <4>1
    <3> QED
      BY <3>5, <3>6
  <2>3. ssAt' = ssAt \/ ssAt' = ssAt + 1
    BY DEF SsWrite
  <2> QED
    BY <2>1, <2>2, <2>3 DEF SsInOrder, SsWrite, parentVars
<1>7. SsTold'
  <2>1. /\ ssChild = "runs" /\ ssEnd = "none" /\ UNCHANGED <<ssScript, ssPc, ssAnswer, ssOther, ssStatus, ssCut>>
        /\ ssOther # "reaped" /\ ssStatus \notin {"program", "one", "other"}
    BY DEF SsWrite, parentVars, SsTold
  <2>2. CASE UNCHANGED <<ssChild, ssEnd>>
    BY <2>1, <2>2 DEF SsTold
  <2>3. ASSUME ssChild' = "ended", ssEnd' = "pipe", ssReads[ssScript[ssAt + 1]] = {}, ssScript[ssAt + 1] \in ssAsked
        PROVE  SsTold'
    <3> DEFINE s == ssScript[ssAt + 1]
    <3>1. s \in Streams /\ s \in ssAsked /\ ssReads[s] = {} /\ "child" \in ssWrites[s]
      BY <2>1, <2>3 DEF SsShape, SsEndsHeld
    <3>2. ssPc \in {"close", "select", "read", "wait", "done"}
      BY <2>1 DEF SsShape, SsLives
    <3>3. ssPc = "done"
      <4> HIDE DEF s
      <4>1. ASSUME ssPc # "done" PROVE FALSE
        <5>1. ~ssOpen[s]
          BY <3>1, <3>2, <4>1 DEF SsEndsHeld
        <5> QED
          BY <3>1, <3>2, <4>1, <5>1 DEF SsSeen
      <4> QED
        BY <4>1
    <3>4. ssAnswer = <<FALSE>>
      BY <2>1, <3>3 DEF SsAnswers
    <3> QED
      BY <2>1, <2>3, <3>3, <3>4 DEF SsTold
  <2>4. (UNCHANGED <<ssChild, ssEnd>>)
          \/ (ssChild' = "ended" /\ ssEnd' = "pipe" /\ ssReads[ssScript[ssAt + 1]] = {} /\ ssScript[ssAt + 1] \in ssAsked)
    BY DEF SsWrite, ChildEnds
  <2> QED
    BY <2>2, <2>3, <2>4
<1> QED
  BY <1>1, <1>2, <1>3, <1>4, <1>5, <1>6, <1>7

LEMMA SsExitKeeps == ASSUME SsInv, SsExit PROVE SsInv'
<1> USE DEF SsInv
<1>1. SsShape'
  BY SpawnSyncAssumption DEF SsExit, childVars, pipeVars, parentVars, ChildEnds, Without, SsShape, Streams, Processes
<1>2. SsLives'
  BY DEF SsExit, childVars, pipeVars, parentVars, ChildEnds, Without, SsShape, SsLives, SsSeen, SsEndsHeld, Streams
<1>3. SsEndsHeld'
  BY DEF SsExit, childVars, pipeVars, parentVars, ChildEnds, Without, SsShape, SsLives, SsEndsHeld, SsSeen, SsTold, Streams, Processes
<1>4. SsSeen'
  BY DEF SsExit, childVars, pipeVars, parentVars, ChildEnds, Without, SsShape, SsLives, SsEndsHeld, SsSeen, SsTold, Streams, Processes
<1>5. SsAnswers'
  BY DEF SsExit, childVars, pipeVars, parentVars, ChildEnds, Without, SsShape, SsLives, SsEndsHeld, SsSeen, SsTold, SsAnswers, Streams, Processes
<1>6. SsInOrder'
  <2>1. SsInOrder /\ UNCHANGED <<ssAsked, ssScript, ssGot, ssPipe, ssAt>>
    BY DEF SsExit, childVars, pipeVars, parentVars, ChildEnds
  <2> QED
    BY <2>1, SsInOrderKept
<1>7. SsTold'
  BY AnswersDiffer DEF SsExit, StatusOf, OtherReaped, ChildEnds, childVars, pipeVars, parentVars, SsShape, SsLives, SsEndsHeld, SsSeen, SsAnswers, SsTold, Streams
<1> QED
  BY <1>1, <1>2, <1>3, <1>4, <1>5, <1>6, <1>7

LEMMA SsKilledKeeps == ASSUME SsInv, SsKilled PROVE SsInv'
<1> USE DEF SsInv
<1>1. SsShape'
  BY SpawnSyncAssumption DEF SsKilled, ChildEnds, Without, childVars, pipeVars, parentVars, SsShape, Streams, Processes
<1>2. SsLives'
  BY DEF SsKilled, ChildEnds, Without, childVars, pipeVars, parentVars, SsShape, SsLives, Streams
<1>3. SsEndsHeld'
  BY DEF SsKilled, ChildEnds, Without, childVars, pipeVars, parentVars, SsShape, SsLives, SsEndsHeld, SsSeen, SsTold, Streams, Processes
<1>4. SsSeen'
  BY DEF SsKilled, ChildEnds, Without, childVars, pipeVars, parentVars, SsShape, SsLives, SsEndsHeld, SsSeen, SsTold, Streams, Processes
<1>5. SsAnswers'
  BY AnswersDiffer DEF SsKilled, ChildEnds, Without, childVars, pipeVars, parentVars, SsShape, SsLives, SsEndsHeld, SsSeen, SsAnswers, SsTold, Streams, Processes
<1>6. SsInOrder'
  <2>1. SsInOrder /\ UNCHANGED <<ssAsked, ssScript, ssGot, ssPipe, ssAt>>
    BY DEF SsKilled, ChildEnds, Without, childVars, pipeVars, parentVars
  <2> QED
    BY <2>1, SsInOrderKept
<1>7. SsTold'
  BY AnswersDiffer DEF SsKilled, ChildEnds, Without, childVars, pipeVars, parentVars, SsShape, SsLives, SsEndsHeld, SsSeen, SsAnswers, SsTold, Streams
<1> QED
  BY <1>1, <1>2, <1>3, <1>4, <1>5, <1>6, <1>7

LEMMA SsOtherEndsKeeps == ASSUME SsInv, SsOtherEnds PROVE SsInv'
<1> USE DEF SsInv
<1>1. SsShape'
  BY SpawnSyncAssumption DEF SsOtherEnds, childVars, pipeVars, parentVars, SsShape, Streams, Processes
<1>2. SsLives'
  BY DEF SsOtherEnds, childVars, pipeVars, parentVars, SsShape, SsLives, Streams
<1>3. SsEndsHeld'
  BY DEF SsOtherEnds, childVars, pipeVars, parentVars, SsShape, SsLives, SsEndsHeld, SsSeen, SsTold, Streams, Processes
<1>4. SsSeen'
  BY DEF SsOtherEnds, childVars, pipeVars, parentVars, SsShape, SsLives, SsEndsHeld, SsSeen, SsTold, Streams, Processes
<1>5. SsAnswers'
  BY AnswersDiffer DEF SsOtherEnds, childVars, pipeVars, parentVars, SsShape, SsLives, SsEndsHeld, SsSeen, SsAnswers, SsTold, Streams, Processes
<1>6. SsInOrder'
  <2>1. SsInOrder /\ UNCHANGED <<ssAsked, ssScript, ssGot, ssPipe, ssAt>>
    BY DEF SsOtherEnds, childVars, pipeVars, parentVars
  <2> QED
    BY <2>1, SsInOrderKept
<1>7. SsTold'
  BY AnswersDiffer DEF SsOtherEnds, childVars, pipeVars, parentVars, SsShape, SsLives, SsEndsHeld, SsSeen, SsAnswers, SsTold, Streams
<1> QED
  BY <1>1, <1>2, <1>3, <1>4, <1>5, <1>6, <1>7

LEMMA SsInvCorrect == SsInv => SsCorrect
<1> SUFFICES ASSUME SsInv PROVE SsCorrect
  OBVIOUS
<1> USE AnswersDiffer DEF SsInv
<1>1. SsWhole
  <2> SUFFICES ASSUME ssAnswer = <<TRUE>> PROVE SsWhole
    BY DEF SsWhole
  <2>1. /\ ssChild \in {"none", "reaped"}
        /\ ~ssCut => \A s \in Streams : ssPipe[s] = << >> /\ ssReads[s] \cup ssWrites[s] = {}
    BY DEF SsAnswers
  <2>2. /\ ssStatus = "program" => ssEnd = "exit" /\ ssAt = Len(ssScript)
        /\ ssStatus = "one" => ssEnd = "noexec" /\ ssAt = 0
        /\ ssStatus = "other" => ssChild = "none" /\ ssOther = "reaped"
        /\ ssEnd # "pipe"
    BY DEF SsTold
  <2> QED
    BY <2>1, <2>2 DEF SsWhole
<1>2. ssPc = "done" => \A s \in Streams : /\ "parent" \notin ssWrites[s]
                                          /\ "parent" \in ssReads[s] <=> ssCut /\ ssOpen[s]
  BY DEF SsEndsHeld
<1>3. SsRefused
  <2> SUFFICES ASSUME ssAnswer = <<FALSE>> PROVE SsRefused
    BY DEF SsRefused
  <2>1. ssStatus = "unset" /\ ~ssCut /\ ssPc = "done"
    BY DEF SsTold, SsAnswers
  <2>2. \A s \in Streams : ssReads[s] \subseteq {"child"}
    BY <1>2, <2>1 DEF SsShape, Processes
  <2> QED
    BY <2>1, <2>2 DEF SsRefused
<1>4. SsOthers
  BY DEF SsOthers, SsTold
<1>5. SsClosed
  BY <1>2 DEF SsClosed
<1> QED
  BY <1>1, <1>3, <1>4, <1>5 DEF SsCorrect

LEMMA SsSteps == SsInv /\ [SsNext]_ssVars => SsInv'
<1> SUFFICES ASSUME SsInv, [SsNext]_ssVars PROVE SsInv'
  OBVIOUS
<1>1. ASSUME UNCHANGED ssVars PROVE SsInv'
  <2> USE <1>1 DEF ssVars, SsInv
  <2>1. SsShape'
    BY DEF SsShape
  <2>2. SsLives'
    BY DEF SsLives
  <2>3. SsEndsHeld'
    BY DEF SsEndsHeld
  <2>4. SsSeen'
    BY DEF SsSeen
  <2>5. SsAnswers'
    BY DEF SsAnswers
  <2>6. SsInOrder'
    <3>1. SsInOrder /\ UNCHANGED <<ssAsked, ssScript, ssGot, ssPipe, ssAt>>
      OBVIOUS
    <3> QED
      BY <3>1, SsInOrderKept
  <2>7. SsTold'
    BY DEF SsTold
  <2> QED
    BY <2>1, <2>2, <2>3, <2>4, <2>5, <2>6, <2>7
<1> QED
  BY <1>1, SsPipesKeeps, SsForkKeeps, SsCloseKeeps, SsSelectKeeps, SsSelectFailsKeeps, SsReadKeeps, SsReadFailsKeeps,
     SsWaitKeeps, SsExecKeeps, SsWriteKeeps, SsExitKeeps, SsKilledKeeps, SsOtherEndsKeeps DEF SsNext, SsParent, SsChild

\* Parent, child and the two pipes of g_spawn_command_line_sync stay in the shape that
\* the promises need, through every failure of a call.
THEOREM SsSound == SsSpec => []SsInv
<1> QED
  BY SsStart, SsSteps, PTL DEF SsSpec

\* g_spawn_command_line_sync, for every program and every size of pipe and buffer, whatever
\* fails and whenever the child is killed: what the parent has and what is in the pipe are,
\* in order, what was written.  TRUE means all of it, unless select failed, but not that a
\* program ran; a status that is the program's is that of one that did all of its writes,
\* 1 may mean that it could not be had, and a failed fork leaves that of a stranger, who is
\* reaped, or garbage.  FALSE leaves no status, and the ends of a child that may run on.
\* The parent keeps ends of pipes only after select failed.
THEOREM SpawnSyncCorrect == SsSpec => []SsCorrect
<1> QED
  BY SsSound, SsInvCorrect, PTL

-----------------------------------------------------------------------------
(* g_spawn_async_with_pipes *)

\* The ends of all the pipes that were made.
AllEnds == (saAsked \cup {"info"}) \X {"r", "w"}

SaShape ==
  /\ SaTypeOK
  /\ saAsked \subseteq SaStreams /\ {saReap, saLeave, saTorn} \subseteq BOOLEAN
  /\ saProc \in [Children -> {"none", "begins", "tells", "setup", "execs", "runs", "exited", "failed", "killed", "reaped"}]

\* Who runs at which point of the caller.
SaLives ==
  /\ saPc = "fork" => saProc["first"] = "none"
  /\ saProc["first"] = "none" => saPc \in {"fork", "done"}
  /\ saReap => /\ saPc \notin {"reap", "pid"} /\ ~saTorn
               /\ saProc["first"] # "reaped" /\ saProc["second"] = "none"
  /\ ~saReap => /\ saProc["first"] \in {"none", "begins", "exited", "failed", "reaped"}
                /\ saProc["second"] \notin {"begins", "reaped"}
                /\ saPc \in {"close", "pid", "status", "done"} => saProc["first"] \in {"none", "reaped"}
                /\ saProc["first"] \in {"none", "begins"} => ~saTorn
                /\ saProc["first"] = "failed" => saTorn
                /\ saProc["second"] = "none" <=> saTorn \/ saProc["first"] \in {"none", "begins"}

\* What the runner has still to say, what of it is in the pipe, and which pid is known.
SaWords ==
  LET how == saProc[Runner]
  IN  /\ (saPc # "done" /\ saReap) \/ saPc = "status" =>
           /\ saInfo \in {<< >>, <<"error">>}
           /\ saInfo # << >> => how = "failed"
           /\ how = "failed" /\ ~saLeave => saInfo = <<"error">>
      /\ ~saReap /\ saPc \in {"fork", "reap", "close", "pid"} =>
           /\ how \in {"none", "tells"} => saInfo = << >>
           /\ how \in {"setup", "execs", "runs", "exited"} => saInfo = <<"second">>
           /\ how = "killed" => saInfo \in {<< >>, <<"second">>}
           /\ how = "failed" => saInfo \in {<<"second">>, <<"second", "error">>}
           /\ how = "failed" /\ ~saLeave => saInfo = <<"second", "error">>
      /\ ~saReap /\ saPc = "status" /\ ~saTorn =>
           how \notin {"none", "tells"} /\ (saPid = "second" \/ how = "killed")
      /\ saPid = "none" <=> saProc["first"] = "none"
      /\ saPc \in {"reap", "close", "pid"} => saPid = "first"
      /\ (saReap \/ saTorn) /\ saProc["first"] # "none" => saPid = "first"

SaChildrenHold ==
  \A c \in Children :
    /\ saProc[c] \in {"none", "exited", "failed", "killed", "reaped"} => saHolds[c] = {}
    /\ saProc[c] \in {"begins", "tells", "setup"} => <<"info", "w">> \in saHolds[c]
    /\ saProc[c] = "execs" /\ ~saLeave => <<"info", "w">> \in saHolds[c]
    /\ saProc[c] \in {"setup", "execs", "runs"} => saHolds[c] \cap (OfCaller \cup {<<"info", "r">>}) = {}
    /\ saProc[c] = "runs" => <<"info", "w">> \notin saHolds[c]

SaCallerHolds ==
  /\ saPc \in {"fork", "reap", "close"} => saHolds["caller"] = AllEnds
  /\ saPc \in {"pid", "status"} => saHolds["caller"] = AllEnds \cap (OfCaller \cup {<<"info", "r">>})
  /\ saPc = "done" => saHolds["caller"] = IF saPid = "none" \/ saCut = "wait" THEN {} ELSE AllEnds \cap OfCaller

SaEndsHeld == SaChildrenHold /\ SaCallerHolds

SaAnswers ==
  /\ saPc # "done" => saAnswer = << >> /\ saCut = "no"
  /\ saPc = "done" => saAnswer \in {<<TRUE>>, <<FALSE>>}
  /\ saAnswer = <<TRUE>> => saProc["first"] # "none" /\ saCut = "no"
  /\ saAnswer = <<TRUE>> /\ ~saTorn =>
       \/ saProc[Runner] = "killed"
       \/ saPid = Runner /\ saProc[Runner] \in {"runs", "exited"}
       \/ saPid = Runner /\ saLeave /\ saProc[Runner] \in {"execs", "failed"}
  /\ saAnswer = <<FALSE>> =>
       \/ saCut = "no" /\ (saProc["first"] = "none" \/ saProc[Runner] = "failed")
       \/ saCut = "wait" /\ ~saReap /\ saPid = "first" /\ saProc["first"] = "reaped"
       \/ saCut = "read" /\ saPid = Runner

SaInv == SaShape /\ SaLives /\ SaWords /\ SaEndsHeld /\ SaAnswers

LEMMA BothWords == Append(<<"second">>, "error") = <<"second", "error">>
<1> DEFINE t == Append(<<"second">>, "error")
           u == <<"second", "error">>
<1>1. <<"second">> \in Seq({"second", "error"}) /\ Len(<<"second">>) = 1 /\ <<"second">>[1] = "second"
  OBVIOUS
<1>2. t \in Seq({"second", "error"}) /\ Len(t) = 2 /\ t[1] = "second" /\ t[2] = "error"
  BY <1>1
<1>3. u \in Seq({"second", "error"}) /\ Len(u) = 2 /\ u[1] = "second" /\ u[2] = "error"
  OBVIOUS
<1> HIDE DEF t, u
<1>4. t = u
  BY <1>2, <1>3
<1> QED
  BY <1>4 DEF t, u

\* What is said, and what is left of it when a word is taken.
LEMMA WordsSaid ==
  /\ Append(<< >>, "second") = <<"second">> /\ Append(<< >>, "error") = <<"error">>
  /\ Append(<<"second">>, "error") = <<"second", "error">>
  /\ Head(<<"second">>) = "second" /\ Tail(<<"second">>) = << >>
  /\ Head(<<"second", "error">>) = "second" /\ Tail(<<"second", "error">>) = <<"error">>
  /\ Tail(<<"error">>) = << >>
<1>1. Append(<< >>, "second") = <<"second">> /\ Append(<< >>, "error") = <<"error">>
  OBVIOUS
<1>2. Head(<<"second">>) = "second" /\ Tail(<<"second">>) = << >> /\ Tail(<<"error">>) = << >>
  OBVIOUS
<1>3. Head(<<"second", "error">>) = "second" /\ Tail(<<"second", "error">>) = <<"error">>
  OBVIOUS
<1> QED
  BY <1>1, <1>2, <1>3, BothWords

LEMMA WordsDiffer ==
  /\ << >> # <<"second">> /\ << >> # <<"error">> /\ << >> # <<"second", "error">>
  /\ {<< >>, <<"second">>, <<"error">>, <<"second", "error">>} \subseteq Seq(Children \cup {"error"})
<1>1. Len(<< >>) = 0 /\ Len(<<"second">>) = 1 /\ Len(<<"error">>) = 1 /\ Len(<<"second", "error">>) = 2
  OBVIOUS
<1>2. {<< >>, <<"second">>, <<"error">>, <<"second", "error">>} \subseteq Seq(Children \cup {"error"})
  BY DEF Children
<1> QED
  BY <1>1, <1>2

LEMMA SaStart == SaInit => SaInv
<1> SUFFICES ASSUME SaInit PROVE SaInv
  OBVIOUS
<1>1. SaShape
  <2>1. (saAsked \cup {"info"}) \X {"r", "w"} \in SUBSET Ends8
    BY DEF SaInit, Ends8, SaStreams
  <2>2. saHolds \in [Children \cup {"caller"} -> SUBSET Ends8]
    BY <2>1 DEF SaInit, Children
  <2>3. SaTypeOK
    BY <2>2 DEF SaInit, SaTypeOK, Children
  <2> QED
    BY <2>3 DEF SaInit, SaShape, SaStreams, Children
<1>2. SaLives
  BY DEF SaInit, SaLives, Children
<1>3. SaWords
  BY DEF SaInit, SaWords, Children, Runner
<1>4. SaEndsHeld
  BY DEF SaInit, SaEndsHeld, SaChildrenHold, SaCallerHolds, Children, AllEnds, SaStreams
<1>5. SaAnswers
  BY DEF SaInit, SaAnswers, Children
<1> QED
  BY <1>1, <1>2, <1>3, <1>4, <1>5 DEF SaInv

\* Only the runner gets as far as its streams.
LEMMA IsRunner ==
  ASSUME SaInv, NEW p \in Children, saProc[p] \in {"tells", "setup", "execs", "runs"}
  PROVE  /\ p = Runner
         /\ p = "first" <=> saReap
         /\ p = "second" <=> ~saReap
         /\ saPc # "fork" /\ saProc["first"] # "none" /\ ~saTorn
BY DEF SaInv, SaLives, Children, Runner

\* Until it is answered the caller can read what a child says.
LEMMA CallerHears ==
  ASSUME SaInv, saPc # "done", NEW p \in Children
  PROVE  Heard(p)
<1>1. <<"info", "r">> \in saHolds["caller"] /\ "caller" \in DOMAIN saHolds \ {p}
  BY DEF SaInv, SaShape, SaTypeOK, SaEndsHeld, SaChildrenHold, SaCallerHolds, AllEnds, Children
<1> QED
  BY <1>1 DEF Heard

\* A step of a child leaves the ends of the caller.
LEMMA CallerKeeps ==
  ASSUME SaInv, UNCHANGED <<saAsked, saPc, saPid, saCut>>, saHolds'["caller"] = saHolds["caller"]
  PROVE  SaCallerHolds'
BY DEF SaInv, SaEndsHeld, SaCallerHolds, AllEnds

\* A step of the runner does not make an answer wrong that was given.
LEMMA AnswersKept ==
  ASSUME SaInv, NEW p \in Children, saProc[p] \in {"tells", "setup", "execs", "runs"},
         NEW how \in {"setup", "execs", "runs", "exited", "failed", "killed"}, saProc' = [saProc EXCEPT ![p] = how],
         saProc[p] = "runs" => how = "exited",
         saProc[p] = "execs" => how \in {"runs", "failed", "killed"},
         UNCHANGED <<saReap, saLeave, saTorn, saPid, saPc, saAnswer, saCut>>
  PROVE  SaAnswers'
<1>1. /\ p = Runner /\ (p = "first" <=> saReap) /\ (p = "second" <=> ~saReap)
      /\ saProc["first"] # "none" /\ ~saTorn /\ Runner' = Runner
  BY IsRunner DEF Runner
<1>2. saProc'[p] = how /\ \A c \in Children \ {p} : saProc'[c] = saProc[c]
  BY DEF SaInv, SaShape
<1>3. saProc'["first"] # "none"
  BY <1>1, <1>2 DEF Children
<1>4. SaAnswers /\ saProc[Runner] \in {"tells", "setup", "execs", "runs"}
  BY <1>1 DEF SaInv
<1>5. saAnswer = <<TRUE>> =>
        \/ how = "killed"
        \/ saPid = Runner /\ how \in {"runs", "exited"}
        \/ saPid = Runner /\ saLeave /\ how \in {"execs", "failed"}
  BY <1>1, <1>4 DEF SaAnswers
<1>6. saAnswer = <<FALSE>> =>
        \/ saCut = "wait" /\ ~saReap /\ saPid = "first" /\ saProc'["first"] = "reaped"
        \/ saCut = "read" /\ saPid = Runner
  BY <1>1, <1>2, <1>4 DEF SaAnswers, Children
<1> QED
  BY <1>1, <1>2, <1>3, <1>4, <1>5, <1>6 DEF SaAnswers

\* Neither does it change who knows what once the caller is answered.
LEMMA WordsKept ==
  ASSUME SaInv, saPc = "done", NEW p \in Children, saProc[p] \in {"tells", "setup", "execs", "runs"},
         NEW how \in {"setup", "execs", "runs", "exited", "failed", "killed"}, saProc' = [saProc EXCEPT ![p] = how],
         UNCHANGED <<saReap, saLeave, saTorn, saPid, saPc>>
  PROVE  SaWords'
<1>1. saProc["first"] # "none" /\ saProc'["first"] # "none"
  BY IsRunner DEF SaInv, SaShape, Children
<1> QED
  BY <1>1 DEF SaInv, SaWords

LEMMA SaForkKeeps == ASSUME SaInv, SaFork PROVE SaInv'
<1> USE DEF SaInv
<1>1. SaShape'
  <2>1. saHolds' \in [Children \cup {"caller"} -> SUBSET Ends8]
    BY ZenonT(60) DEF SaFork, SaShape, SaTypeOK, Children
  <2>2. saProc' \in [Children -> {"none", "begins", "tells", "setup", "execs", "runs", "exited", "failed", "killed", "reaped"}]
    BY DEF SaFork, SaShape, Children
  <2>3. saAnswer' \in {<< >>} \cup {<<b>> : b \in BOOLEAN}
    BY DEF SaFork, SaShape, SaTypeOK
  <2>4. /\ saPc' \in {"fork", "reap", "close", "pid", "status", "done"} /\ saPid' \in Children \cup {"none", "error"}
        /\ UNCHANGED <<saAsked, saReap, saLeave, saInfo, saTorn, saCut>>
    BY DEF SaFork, SaShape, SaTypeOK, Children
  <2>5. \A c \in Children :
          saProc'[c] \in {"none", "begins", "tells", "setup", "execs", "runs", "exited", "failed", "killed", "reaped"}
    BY <2>2
  <2> QED
    BY <2>1, <2>2, <2>3, <2>4, <2>5 DEF SaShape, SaTypeOK
<1>2. SaLives'
  BY DEF SaFork, SaShape, SaLives, SaWords, SaEndsHeld, SaChildrenHold, SaCallerHolds, Children, Runner
<1>3. SaWords'
  BY DEF SaFork, SaShape, SaLives, SaWords, SaEndsHeld, SaChildrenHold, SaCallerHolds, Children, Runner
<1>4. SaEndsHeld'
  <2>0. AllEnds' = AllEnds /\ saHolds["caller"] = AllEnds /\ <<"info", "w">> \in AllEnds /\ saProc["first"] = "none"
    BY DEF SaFork, SaEndsHeld, SaChildrenHold, SaCallerHolds, AllEnds, SaLives
  <2>1. CASE saPc' = "done"
    <3>1. /\ saHolds'["caller"] = {} /\ \A c \in Children : saHolds'[c] = saHolds[c] /\ saProc'[c] = saProc[c]
          /\ saPid' = "none" /\ saLeave' = saLeave
      BY <2>0, <2>1 DEF SaFork, SaShape, SaTypeOK, SaWords, Children
    <3> QED
      BY <2>1, <3>1, <2>0 DEF SaEndsHeld, SaChildrenHold, SaCallerHolds
  <2>2. CASE saPc' # "done"
    <3>1. /\ saHolds'["caller"] = AllEnds /\ saPc' \in {"reap", "close"} /\ saLeave' = saLeave
          /\ saHolds'["first"] = saHolds["first"] \cup AllEnds /\ saProc'["first"] = "begins"
          /\ saHolds'["second"] = saHolds["second"] /\ saProc'["second"] = saProc["second"]
      BY <2>2, <2>0 DEF SaFork, SaShape, SaTypeOK, Children
    <3> QED
      BY <3>1, <2>0 DEF SaEndsHeld, SaChildrenHold, SaCallerHolds, Children
  <2> QED
    BY <2>1, <2>2
<1>5. SaAnswers'
  <2>1. saPc = "fork" /\ saAnswer = << >> /\ saProc["first"] = "none" /\ saPc # "done" /\ saCut = "no" /\ saCut' = "no"
    BY DEF SaFork, SaAnswers, SaLives
  <2>2. \/ saAnswer' = << >> /\ saPc' \in {"close", "reap"}
        \/ saAnswer' = <<FALSE>> /\ saPc' = "done" /\ saProc'["first"] = "none"
    BY <2>1 DEF SaFork
  <2>3. saAnswer' # <<TRUE>>
    BY <2>2, AnswersDiffer
  <2>4. saAnswer' = <<FALSE>> => saProc'["first"] = "none"
    BY <2>2, AnswersDiffer
  <2> QED
    BY <2>1, <2>2, <2>3, <2>4 DEF SaAnswers
<1> QED
  BY <1>1, <1>2, <1>3, <1>4, <1>5

LEMMA SaReapFirstKeeps == ASSUME SaInv, SaReapFirst PROVE SaInv'
<1> USE DEF SaInv
<1>1. SaShape'
  BY DEF SaReapFirst, SaShape, SaTypeOK, SaStreams, Children, Ends8, OfCaller
<1>2. SaLives'
  BY DEF SaReapFirst, SaShape, SaLives, SaWords, SaEndsHeld, SaChildrenHold, SaCallerHolds, Children, Runner
<1>3. SaWords'
  BY DEF SaReapFirst, SaShape, SaLives, SaWords, SaEndsHeld, SaChildrenHold, SaCallerHolds, Children, Runner
<1>4. SaEndsHeld'
  <2>1. /\ saPc = "reap" /\ AllEnds' = AllEnds /\ UNCHANGED <<saLeave, saPid>> /\ saHolds["caller"] = AllEnds
        /\ \A c \in Children : saHolds'[c] = saHolds[c]
    BY DEF SaReapFirst, SaShape, SaTypeOK, SaEndsHeld, SaCallerHolds, AllEnds, Children
  <2>2. SaChildrenHold'
    <3>1. saProc'["first"] = "reaped" /\ saHolds["first"] = {} /\ saProc'["second"] = saProc["second"]
      BY DEF SaReapFirst, SaShape, SaEndsHeld, SaChildrenHold, Children
    <3> QED
      BY <2>1, <3>1 DEF SaEndsHeld, SaChildrenHold, Children
  <2>3. \/ saPc' = "close" /\ saHolds'["caller"] = AllEnds
        \/ saPc' = "done" /\ saHolds'["caller"] = {} /\ saCut' = "wait"
    BY <2>1 DEF SaReapFirst, SaShape, SaTypeOK
  <2>4. SaCallerHolds'
    BY <2>1, <2>3 DEF SaCallerHolds
  <2> QED
    BY <2>2, <2>4 DEF SaEndsHeld
<1>5. SaAnswers'
  <2>1. /\ saPc = "reap" /\ saAnswer = << >> /\ saCut = "no" /\ ~saReap /\ ~saReap' /\ saPid' = "first"
        /\ saProc'["first"] = "reaped"
    BY DEF SaReapFirst, SaAnswers, SaLives, SaWords, SaShape, Children
  <2>2. CASE saPc' = "close" /\ UNCHANGED <<saAnswer, saCut>>
    BY <2>1, <2>2, AnswersDiffer DEF SaAnswers
  <2>3. CASE saPc' = "done" /\ saAnswer' = <<FALSE>> /\ saCut' = "wait"
    BY <2>1, <2>3, AnswersDiffer DEF SaAnswers
  <2> QED
    BY <2>2, <2>3 DEF SaReapFirst
<1> QED
  BY <1>1, <1>2, <1>3, <1>4, <1>5

LEMMA SaCloseKeeps == ASSUME SaInv, SaClose PROVE SaInv'
<1> USE DEF SaInv
<1>1. SaShape'
  BY DEF SaClose, SaShape, SaTypeOK, SaStreams, Children, Ends8, OfCaller
<1>2. SaLives'
  BY DEF SaClose, SaShape, SaLives, SaWords, SaEndsHeld, SaChildrenHold, SaCallerHolds, Children, Runner
<1>3. SaWords'
  BY DEF SaClose, SaShape, SaLives, SaWords, SaEndsHeld, SaChildrenHold, SaCallerHolds, Children, Runner
<1>4. SaEndsHeld'
  BY DEF SaClose, SaShape, SaLives, SaEndsHeld, SaChildrenHold, SaCallerHolds, SaTypeOK, Children, AllEnds, OfCaller
<1>5. SaAnswers'
  BY DEF SaClose, SaShape, SaLives, SaWords, SaEndsHeld, SaChildrenHold, SaCallerHolds, SaAnswers, SaTypeOK, Children, Runner, AllEnds, OfCaller
<1> QED
  BY <1>1, <1>2, <1>3, <1>4, <1>5

LEMMA SaPidKeeps == ASSUME SaInv, SaPid PROVE SaInv'
<1> USE DEF SaInv
<1>1. SaShape'
  <2>1. saInfo' \in Seq(Children \cup {"error"}) /\ saPid' \in Children \cup {"none", "error"}
    <3>1. CASE saInfo = << >>
      BY <3>1 DEF SaPid, SaShape, SaTypeOK
    <3>2. CASE saInfo # << >>
      BY <3>2 DEF SaPid, SaShape, SaTypeOK
    <3> QED
      BY <3>1, <3>2
  <2> QED
    BY <2>1 DEF SaPid, SaShape, SaTypeOK
<1>2. SaLives'
  BY DEF SaPid, InfoOpen, SaShape, SaLives, SaWords, SaEndsHeld, SaChildrenHold, SaCallerHolds, Children, Runner
<1>3. SaWords'
  <2>1. /\ ~saReap /\ saPc = "pid" /\ saPc' = "status" /\ UNCHANGED <<saReap, saLeave, saProc, saTorn>> /\ Runner' = "second"
        /\ saPid = "first" /\ saProc["first"] # "none" /\ Runner = "second"
    BY DEF SaPid, SaLives, SaWords, Runner
  <2> DEFINE how == saProc["second"]
  <2>2. /\ how \in {"none", "tells", "setup", "execs", "runs", "exited", "failed", "killed"}
        /\ how = "none" <=> saTorn
        /\ how \in {"none", "tells"} => saInfo = << >>
        /\ how \in {"setup", "execs", "runs", "exited"} => saInfo = <<"second">>
        /\ how = "killed" => saInfo \in {<< >>, <<"second">>}
        /\ how = "failed" => saInfo \in {<<"second">>, <<"second", "error">>}
        /\ how = "failed" /\ ~saLeave => saInfo = <<"second", "error">>
    BY <2>1 DEF SaWords, SaLives, SaShape, Children, Runner
  <2>3. how # "tells"
    <3> SUFFICES ASSUME how = "tells" PROVE FALSE
      OBVIOUS
    <3>1. <<"info", "w">> \in saHolds["second"] /\ "second" \in DOMAIN saHolds
      BY DEF SaEndsHeld, SaChildrenHold, SaCallerHolds, Children, SaShape, SaTypeOK
    <3> QED
      BY <2>2, <3>1 DEF SaPid, InfoOpen
  <2>4. ASSUME saInfo = << >> PROVE SaWords'
    <3>1. how \in {"none", "killed"} /\ saInfo' = << >> /\ saPid' = saPid
      BY <2>2, <2>3, <2>4, WordsDiffer DEF SaPid
    <3> QED
      BY <2>1, <2>2, <3>1 DEF SaWords
  <2>5. ASSUME saInfo # << >> PROVE SaWords'
    <3>1. /\ saInfo \in {<<"second">>, <<"second", "error">>}
          /\ saInfo = <<"second", "error">> => how = "failed"
          /\ how = "failed" /\ ~saLeave => saInfo = <<"second", "error">>
      BY <2>2, <2>3, <2>5, WordsDiffer
    <3>2. saPid' = Head(saInfo) /\ saInfo' = Tail(saInfo)
      BY <2>5 DEF SaPid
    <3>3. /\ saPid' = "second" /\ saInfo' \in {<< >>, <<"error">>}
          /\ saInfo' # << >> => how = "failed"
          /\ how = "failed" /\ ~saLeave => saInfo' = <<"error">>
      <4>1. CASE saInfo = <<"second">>
        BY <3>1, <3>2, <4>1, WordsSaid, WordsDiffer
      <4>2. CASE saInfo = <<"second", "error">>
        BY <3>1, <3>2, <4>2, WordsSaid, WordsDiffer
      <4> QED
        BY <3>1, <4>1, <4>2
    <3>4. ~saTorn /\ how \notin {"none", "tells"}
      BY <2>2, <2>3, <2>5
    <3> QED
      BY <2>1, <3>3, <3>4 DEF SaWords
  <2> QED
    BY <2>4, <2>5
<1>4. SaEndsHeld'
  BY DEF SaPid, InfoOpen, SaShape, SaLives, SaEndsHeld, SaChildrenHold, SaCallerHolds, SaTypeOK, Children, AllEnds, OfCaller
<1>5. SaAnswers'
  <2>1. /\ UNCHANGED <<saAnswer, saCut>> /\ saPc # "done" /\ saPc' # "done" /\ saAnswer = << >>
    BY DEF SaPid, SaAnswers
  <2> QED
    BY <2>1, AnswersDiffer DEF SaAnswers
<1> QED
  BY <1>1, <1>2, <1>3, <1>4, <1>5

LEMMA SaStatusKeeps == ASSUME SaInv, SaStatus PROVE SaInv'
<1> USE DEF SaInv
<1>1. SaShape'
  <2>1. saInfo' \in Seq(Children \cup {"error"})
    <3>1. CASE saInfo = << >>
      BY <3>1 DEF SaStatus, SaShape, SaTypeOK
    <3>2. CASE saInfo # << >>
      BY <3>2 DEF SaStatus, SaShape, SaTypeOK
    <3> QED
      BY <3>1, <3>2
  <2>2. saAnswer' \in {<<b>> : b \in BOOLEAN}
    BY DEF SaStatus
  <2>3. saHolds' \in [Children \cup {"caller"} -> SUBSET Ends8]
    BY DEF SaStatus, SaShape, SaTypeOK
  <2>4. UNCHANGED <<saAsked, saReap, saLeave, saPid, saProc, saTorn>> /\ saPc' = "done" /\ saCut' \in {saCut, "read"}
    BY DEF SaStatus
  <2> QED
    BY <2>1, <2>2, <2>3, <2>4 DEF SaShape, SaTypeOK
<1>2. SaLives'
  BY DEF SaStatus, InfoOpen, SaShape, SaLives, SaWords, SaEndsHeld, SaChildrenHold, SaCallerHolds, Children, Runner
<1>3. SaWords'
  <2>1. saPc = "status" /\ saPc' = "done" /\ UNCHANGED <<saReap, saLeave, saProc, saTorn, saPid>>
    BY DEF SaStatus
  <2> QED
    BY <2>1 DEF SaWords, Runner
<1>4. SaEndsHeld'
  <2>1. /\ saPc = "status" /\ saPc' = "done" /\ UNCHANGED <<saAsked, saLeave, saProc, saPid>> /\ AllEnds' = AllEnds
        /\ saHolds'["caller"] = saHolds["caller"] \ {<<"info", "r">>} /\ \A c \in Children : saHolds'[c] = saHolds[c]
    BY DEF SaStatus, SaShape, SaTypeOK, AllEnds, Children
  <2>2. saCut' # "wait" /\ saPid # "none"
    BY <2>1 DEF SaStatus, SaAnswers, SaLives, SaWords
  <2>3. saHolds'["caller"] = AllEnds \cap OfCaller
    BY <2>1 DEF SaEndsHeld, SaChildrenHold, SaCallerHolds, OfCaller
  <2> QED
    BY <2>1, <2>2, <2>3 DEF SaEndsHeld, SaChildrenHold, SaCallerHolds
<1>5. SaAnswers'
  <2>1. /\ saPc' = "done" /\ saPc = "status" /\ UNCHANGED <<saReap, saLeave, saProc, saTorn, saPid>>
        /\ Runner' = Runner /\ saCut = "no"
    BY DEF SaStatus, SaAnswers, Runner
  <2>2. Runner \in Children /\ saProc["first"] # "none" /\ (saReap <=> Runner = "first") /\ (~saReap <=> Runner = "second")
    BY <2>1 DEF SaLives, Runner, Children
  <2>3. saProc[Runner] \in {"none", "begins", "tells", "setup", "execs", "runs", "exited", "failed", "killed", "reaped"}
    BY <2>2 DEF SaShape
  <2>4. ASSUME saInfo = << >>, ~InfoOpen, saAnswer' = <<TRUE>>, saCut' = "no"
        PROVE  SaAnswers'
    <3>1. ASSUME ~saTorn
          PROVE  \/ saProc[Runner] = "killed"
                 \/ saPid = Runner /\ saProc[Runner] \in {"runs", "exited"}
                 \/ saPid = Runner /\ saLeave /\ saProc[Runner] \in {"execs", "failed"}
      <4>1. saPid = Runner \/ saProc[Runner] = "killed"
        BY <2>1, <2>2, <3>1 DEF SaWords
      <4>2. <<"info", "w">> \notin saHolds[Runner]
        BY <2>2, <2>4 DEF InfoOpen, SaShape, SaTypeOK
      <4>3. saProc[Runner] \notin {"begins", "tells", "setup"} /\ (saProc[Runner] = "execs" => saLeave)
        BY <2>2, <4>2 DEF SaEndsHeld, SaChildrenHold, SaCallerHolds
      <4>4. saProc[Runner] = "failed" => saLeave
        BY <2>1, <2>2, <2>4, WordsDiffer DEF SaWords
      <4>5. saProc[Runner] \notin {"none", "reaped"}
        BY <2>1, <2>2, <3>1 DEF SaLives
      <4> QED
        BY <2>3, <4>1, <4>3, <4>4, <4>5
    <3> QED
      BY <2>1, <2>2, <2>4, <3>1, AnswersDiffer DEF SaAnswers
  <2>5. ASSUME saInfo # << >>, saAnswer' = <<FALSE>>, saCut' = "no"
        PROVE  SaAnswers'
    <3>1. saProc[Runner] = "failed"
      BY <2>1, <2>5 DEF SaWords
    <3> QED
      BY <2>1, <2>5, <3>1, AnswersDiffer DEF SaAnswers
  <2>6. ASSUME InfoOpen, saAnswer' = <<FALSE>>, saCut' = "read"
        PROVE  SaAnswers'
    <3>1. PICK q \in DOMAIN saHolds : <<"info", "w">> \in saHolds[q]
      BY <2>6 DEF InfoOpen
    <3>2. <<"info", "w">> \notin saHolds["caller"]
      BY <2>1 DEF SaEndsHeld, SaChildrenHold, SaCallerHolds, OfCaller
    <3>3. q \in Children /\ saHolds[q] # {}
      BY <3>1, <3>2 DEF SaShape, SaTypeOK
    <3>4. saProc[q] \notin {"none", "exited", "failed", "killed", "reaped"}
      BY <3>3 DEF SaEndsHeld, SaChildrenHold, SaCallerHolds
    <3>5. q = Runner
      BY <2>1, <2>2, <3>3, <3>4 DEF SaLives, Children
    <3>6. saPid = Runner
      <4>1. CASE saReap
        BY <2>2, <4>1 DEF SaWords
      <4>2. CASE ~saReap
        <5>1. ~saTorn
          BY <2>2, <3>4, <3>5, <4>2 DEF SaLives
        <5> QED
          BY <2>1, <2>2, <3>4, <3>5, <4>2, <5>1 DEF SaWords
      <4> QED
        BY <4>1, <4>2
    <3> QED
      BY <2>1, <2>6, <3>6, AnswersDiffer DEF SaAnswers
  <2>7. \/ saInfo = << >> /\ ~InfoOpen /\ saAnswer' = <<TRUE>> /\ saCut' = "no"
        \/ saInfo # << >> /\ saAnswer' = <<FALSE>> /\ saCut' = "no"
        \/ InfoOpen /\ saAnswer' = <<FALSE>> /\ saCut' = "read"
    <3>1. CASE InfoOpen /\ saAnswer' = <<FALSE>> /\ saCut' = "read"
      BY <3>1
    <3>2. ASSUME saInfo # << >> \/ ~InfoOpen, saAnswer' = <<saInfo = << >> >>, saCut' = saCut
          PROVE  \/ saInfo = << >> /\ ~InfoOpen /\ saAnswer' = <<TRUE>> /\ saCut' = "no"
                 \/ saInfo # << >> /\ saAnswer' = <<FALSE>> /\ saCut' = "no"
      <4>1. CASE saInfo = << >>
        <5>1. saAnswer' = <<TRUE>>
          BY <3>2, <4>1
        <5> QED
          BY <2>1, <3>2, <4>1, <5>1
      <4>2. CASE saInfo # << >>
        <5>1. saAnswer' = <<FALSE>>
          BY <3>2, <4>2
        <5> QED
          BY <2>1, <3>2, <4>2, <5>1
      <4> QED
        BY <4>1, <4>2
    <3> QED
      BY <3>1, <3>2 DEF SaStatus
  <2> QED
    BY <2>4, <2>5, <2>6, <2>7
<1> QED
  BY <1>1, <1>2, <1>3, <1>4, <1>5

LEMMA SaBeginKeeps == ASSUME SaInv, SaBegin PROVE SaInv'
<1> USE DEF SaInv
<1>1. SaShape'
  BY ZenonT(60) DEF SaBegin, Exits, SaShape, SaTypeOK, SaStreams, Children, Ends8, OfCaller
<1>2. SaLives'
  BY DEF SaBegin, Exits, SaShape, SaLives, SaWords, SaEndsHeld, SaChildrenHold, SaCallerHolds, Children, Runner
<1>3. SaWords'
  <2>1. /\ saProc["first"] = "begins" /\ UNCHANGED <<saReap, saLeave, saInfo, saPc, saPid>> /\ Runner' = Runner
        /\ saPid = "first" /\ saPc # "fork"
    BY DEF SaBegin, SaShape, SaTypeOK, SaLives, SaWords, Runner
  <2>2. CASE saReap
    <3>1. saProc'["first"] = "tells" /\ Runner = "first" /\ ~saTorn'
      BY <2>1, <2>2 DEF SaBegin, SaShape, SaLives, Runner, Children
    <3> QED
      BY <2>1, <2>2, <3>1 DEF SaWords
  <2>3. ASSUME ~saReap PROVE SaWords'
    <3>1. saPc \in {"reap", "done"} /\ saProc["second"] = "none" /\ Runner = "second" /\ saProc["second"] # "tells"
      BY <2>1, <2>3 DEF SaLives, SaShape, SaTypeOK, Runner
    <3>2. saProc'["first"] # "none" /\ saProc'["second"] \in {"none", "tells"}
      BY <2>1, <2>3, <3>1 DEF SaBegin, Exits, SaShape, Children
    <3>3. saPc = "reap" => saInfo = << >>
      BY <2>3, <3>1 DEF SaWords
    <3> QED
      BY <2>1, <2>3, <3>1, <3>2, <3>3 DEF SaWords
  <2> QED
    BY <2>2, <2>3
<1>4. SaEndsHeld'
  <2>1. saHolds'["caller"] = saHolds["caller"] /\ UNCHANGED <<saAsked, saLeave, saPc, saPid, saCut>>
    BY DEF SaBegin, Exits, SaShape, SaTypeOK, Children
  <2>2. SaChildrenHold'
    BY DEF SaBegin, Exits, SaShape, SaLives, SaEndsHeld, SaChildrenHold, SaTypeOK, Children, OfCaller
  <2> QED
    BY <2>1, <2>2, CallerKeeps DEF SaEndsHeld
<1>5. SaAnswers'
  BY DEF SaBegin, Exits, SaShape, SaLives, SaWords, SaEndsHeld, SaChildrenHold, SaCallerHolds, SaAnswers, SaTypeOK, Children, Runner, AllEnds, OfCaller
<1> QED
  BY <1>1, <1>2, <1>3, <1>4, <1>5

LEMMA SaTellKeeps == ASSUME SaInv, SaTell PROVE SaInv'
<1> USE DEF SaInv
<1>0. PICK p \in Children :
        /\ saProc[p] = "tells" /\ UNCHANGED <<saAsked, saReap, saLeave, saPc, saAnswer, saPid, saTorn, saCut>>
        /\ \/ /\ saProc' = [saProc EXCEPT ![p] = "setup"]
              /\ saHolds' = [saHolds EXCEPT ![p] = @ \ (OfCaller \cup {<<"info", "r">>})]
              /\ saInfo' = IF ~saReap /\ Heard(p) THEN Append(saInfo, p) ELSE saInfo
           \/ ~saReap /\ ~Heard(p) /\ Exits(p, "killed") /\ UNCHANGED saInfo
  BY DEF SaTell
<1>1. SaShape'
  <2>1. saInfo' \in Seq(Children \cup {"error"})
    BY <1>0 DEF SaShape, SaTypeOK
  <2>2. /\ saHolds' \in [Children \cup {"caller"} -> SUBSET Ends8]
        /\ saProc' \in [Children -> {"none", "begins", "tells", "setup", "execs", "runs", "exited", "failed", "killed", "reaped"}]
    BY <1>0 DEF Exits, SaShape, SaTypeOK, Children
  <2> QED
    BY <1>0, <2>1, <2>2 DEF SaShape, SaTypeOK
<1>2. SaLives'
  BY <1>0 DEF Exits, SaShape, SaLives, Children
<1>3. SaWords'
  <2>1. \E how \in {"setup", "killed"} : saProc' = [saProc EXCEPT ![p] = how]
    BY <1>0 DEF Exits
  <2>2. CASE saPc = "done"
    BY <1>0, <2>1, <2>2, WordsKept
  <2>3. ASSUME saPc # "done" PROVE SaWords'
    <3>1. saProc'[p] = "setup" /\ saInfo' = (IF saReap THEN saInfo ELSE Append(saInfo, p))
      BY <1>0, <2>3, CallerHears DEF SaShape
    <3>2. p = Runner /\ (p = "first" <=> saReap) /\ (p = "second" <=> ~saReap) /\ ~saTorn /\ saProc["first"] # "none"
      BY <1>0, IsRunner
    <3>3. Runner' = Runner /\ saProc'["first"] # "none" /\ (saReap => saPid = "first") /\ saPid # "none"
      BY <1>0, <2>1, <3>2 DEF Runner, SaWords, SaShape, Children
    <3>4. CASE saReap
      BY <1>0, <3>1, <3>2, <3>3, <3>4 DEF SaWords
    <3>5. ASSUME ~saReap PROVE SaWords'
      <4>1. saPc \in {"fork", "reap", "close", "pid"} => saInfo' = <<"second">>
        BY <1>0, <3>1, <3>2, <3>5, WordsSaid DEF SaWords
      <4>2. saPc # "status"
        BY <1>0, <3>2, <3>5 DEF SaWords
      <4> QED
        BY <1>0, <2>3, <3>1, <3>2, <3>3, <3>5, <4>1, <4>2 DEF SaWords
    <3> QED
      BY <3>4, <3>5
  <2> QED
    BY <2>2, <2>3
<1>4. SaEndsHeld'
  <2>1. saHolds'["caller"] = saHolds["caller"] /\ UNCHANGED <<saAsked, saLeave, saPc, saPid, saCut>>
    BY <1>0 DEF Exits, SaShape, SaTypeOK, Children
  <2>2. SaChildrenHold'
    BY <1>0 DEF Exits, SaShape, SaLives, SaEndsHeld, SaChildrenHold, SaTypeOK, Children, OfCaller
  <2> QED
    BY <2>1, <2>2, CallerKeeps DEF SaEndsHeld
<1>5. SaAnswers'
  <2>1. \E how \in {"setup", "killed"} : saProc' = [saProc EXCEPT ![p] = how]
    BY <1>0 DEF Exits
  <2> QED
    BY <1>0, <2>1, AnswersKept
<1> QED
  BY <1>1, <1>2, <1>3, <1>4, <1>5

LEMMA SaSetupKeeps == ASSUME SaInv, SaSetup PROVE SaInv'
<1> USE DEF SaInv
<1>1. SaShape'
  <2>1. saInfo' \in Seq(Children \cup {"error"})
    <3>1. saInfo' = saInfo \/ saInfo' = Append(saInfo, "error")
      BY DEF SaSetup
    <3> QED
      BY <3>1 DEF SaShape, SaTypeOK
  <2>2. /\ saHolds' \in [Children \cup {"caller"} -> SUBSET Ends8]
        /\ saProc' \in [Children -> {"none", "begins", "tells", "setup", "execs", "runs", "exited", "failed", "killed", "reaped"}]
    BY DEF SaSetup, Exits, SaShape, SaTypeOK, Children
  <2>3. UNCHANGED <<saAsked, saReap, saLeave, saPid, saPc, saTorn, saAnswer, saCut>>
    BY DEF SaSetup
  <2> QED
    BY <2>1, <2>2, <2>3 DEF SaShape, SaTypeOK
<1>2. SaLives'
  BY DEF SaSetup, Exits, SaShape, SaLives, SaWords, SaEndsHeld, SaChildrenHold, SaCallerHolds, Children, Runner
<1>3. SaWords'
  <2>0. PICK p \in Children :
          /\ saProc[p] = "setup"
          /\ \/ saProc' = [saProc EXCEPT ![p] = "execs"] /\ saInfo' = saInfo
             \/ /\ saProc' = [saProc EXCEPT ![p] = "failed"]
                /\ \/ saInfo' = Append(saInfo, "error")
                   \/ saInfo' = saInfo /\ (~Heard(p))
    BY DEF SaSetup, Exits
  <2>00. UNCHANGED <<saReap, saLeave, saTorn, saPid, saPc>>
    BY DEF SaSetup
  <2>1. CASE saPc = "done"
    BY <2>0, <2>00, <2>1, WordsKept
  <2>2. ASSUME saPc # "done" PROVE SaWords'
    <3>1. p = Runner /\ (p = "first" <=> saReap) /\ (p = "second" <=> ~saReap) /\ ~saTorn /\ saProc["first"] # "none"
      BY <2>0, IsRunner
    <3>2. /\ Runner' = Runner /\ saProc'["first"] # "none" /\ (saReap => saPid = "first") /\ saPid # "none"
          /\ saPc \in {"reap", "close", "pid"} => saPid = "first"
      BY <2>0, <2>00, <3>1 DEF Runner, SaWords, SaShape, Children
    <3>3. Heard(p)
      BY <2>2, CallerHears
    <3>4. \/ saProc'[p] = "execs" /\ saInfo' = saInfo
          \/ saProc'[p] = "failed" /\ saInfo' = Append(saInfo, "error")
      BY <2>0, <3>3 DEF SaEndsHeld, SaChildrenHold, SaCallerHolds, SaShape
    <3>5. ASSUME saReap \/ saPc = "status"
          PROVE  /\ saInfo' \in {<< >>, <<"error">>}
                 /\ saInfo' # << >> => saProc'[p] = "failed"
                 /\ saProc'[p] = "failed" /\ ~saLeave => saInfo' = <<"error">>
      <4>1. saInfo = << >>
        BY <2>0, <2>2, <3>1, <3>5 DEF SaWords
      <4> QED
        BY <3>4, <4>1, WordsSaid
    <3>6. ASSUME ~saReap, saPc \in {"fork", "reap", "close", "pid"}
          PROVE  /\ saProc'[p] = "execs" => saInfo' = <<"second">>
                 /\ saProc'[p] = "failed" => saInfo' \in {<<"second">>, <<"second", "error">>}
                 /\ saProc'[p] = "failed" /\ ~saLeave => saInfo' = <<"second", "error">>
      <4>1. saInfo = <<"second">>
        BY <2>0, <3>1, <3>6 DEF SaWords
      <4> QED
        BY <3>4, <4>1, WordsSaid
    <3>7. ~saReap /\ saPc = "status" => saPid = "second"
      BY <2>0, <3>1 DEF SaWords
    <3>8. saProc'[p] \in {"execs", "failed"}
      BY <3>4
    <3> HIDE DEF SaInv
    <3> QED
      BY <2>00, <2>2, <3>1, <3>2, <3>5, <3>6, <3>7, <3>8 DEF SaWords
  <2> QED
    BY <2>1, <2>2
<1>4. SaEndsHeld'
  <2>1. saHolds'["caller"] = saHolds["caller"] /\ UNCHANGED <<saAsked, saLeave, saPc, saPid, saCut>>
    BY DEF SaSetup, Exits, SaShape, SaTypeOK, Children
  <2>2. SaChildrenHold'
    BY DEF SaSetup, Exits, SaShape, SaLives, SaEndsHeld, SaChildrenHold, SaTypeOK, Children, OfCaller
  <2> QED
    BY <2>1, <2>2, CallerKeeps DEF SaEndsHeld
<1>5. SaAnswers'
  <2>1. PICK p \in Children : saProc[p] = "setup" /\ \E how \in {"execs", "failed"} : saProc' = [saProc EXCEPT ![p] = how]
    BY DEF SaSetup, Exits
  <2>2. UNCHANGED <<saReap, saLeave, saTorn, saPid, saPc, saAnswer, saCut>>
    BY DEF SaSetup
  <2> QED
    BY <2>1, <2>2, AnswersKept
<1> QED
  BY <1>1, <1>2, <1>3, <1>4, <1>5

LEMMA SaExecKeeps == ASSUME SaInv, SaExec PROVE SaInv'
<1> USE DEF SaInv
<1>1. SaShape'
  <2>1. saInfo' \in Seq(Children \cup {"error"})
    <3>1. saInfo' = saInfo \/ saInfo' = Append(saInfo, "error")
      BY DEF SaExec
    <3> QED
      BY <3>1 DEF SaShape, SaTypeOK
  <2>2. /\ saHolds' \in [Children \cup {"caller"} -> SUBSET Ends8]
        /\ saProc' \in [Children -> {"none", "begins", "tells", "setup", "execs", "runs", "exited", "failed", "killed", "reaped"}]
    BY DEF SaExec, Exits, SaShape, SaTypeOK, Children
  <2>3. UNCHANGED <<saAsked, saReap, saLeave, saPid, saPc, saTorn, saAnswer, saCut>>
    BY DEF SaExec
  <2> QED
    BY <2>1, <2>2, <2>3 DEF SaShape, SaTypeOK
<1>2. SaLives'
  BY DEF SaExec, Exits, SaShape, SaLives, SaWords, SaEndsHeld, SaChildrenHold, SaCallerHolds, Children, Runner
<1>3. SaWords'
  <2>0. PICK p \in Children :
          /\ saProc[p] = "execs"
          /\ \/ saProc' = [saProc EXCEPT ![p] = "runs"] /\ saInfo' = saInfo
             \/ /\ saProc' = [saProc EXCEPT ![p] = "failed"]
                /\ \/ saInfo' = Append(saInfo, "error")
                   \/ saInfo' = saInfo /\ (~Heard(p) \/ <<"info", "w">> \notin saHolds[p])
    BY DEF SaExec, Exits
  <2>00. UNCHANGED <<saReap, saLeave, saTorn, saPid, saPc>>
    BY DEF SaExec
  <2>1. CASE saPc = "done"
    BY <2>0, <2>00, <2>1, WordsKept
  <2>2. ASSUME saPc # "done" PROVE SaWords'
    <3>1. p = Runner /\ (p = "first" <=> saReap) /\ (p = "second" <=> ~saReap) /\ ~saTorn /\ saProc["first"] # "none"
      BY <2>0, IsRunner
    <3>2. /\ Runner' = Runner /\ saProc'["first"] # "none" /\ (saReap => saPid = "first") /\ saPid # "none"
          /\ saPc \in {"reap", "close", "pid"} => saPid = "first"
      BY <2>0, <2>00, <3>1 DEF Runner, SaWords, SaShape, Children
    <3>3. Heard(p)
      BY <2>2, CallerHears
    <3>4. \/ saProc'[p] = "runs" /\ saInfo' = saInfo
          \/ saProc'[p] = "failed" /\ saInfo' = Append(saInfo, "error")
          \/ saProc'[p] = "failed" /\ saInfo' = saInfo /\ saLeave
      BY <2>0, <3>3 DEF SaEndsHeld, SaChildrenHold, SaCallerHolds, SaShape
    <3>5. ASSUME saReap \/ saPc = "status"
          PROVE  /\ saInfo' \in {<< >>, <<"error">>}
                 /\ saInfo' # << >> => saProc'[p] = "failed"
                 /\ saProc'[p] = "failed" /\ ~saLeave => saInfo' = <<"error">>
      <4>1. saInfo = << >>
        BY <2>0, <2>2, <3>1, <3>5 DEF SaWords
      <4> QED
        BY <3>4, <4>1, WordsSaid
    <3>6. ASSUME ~saReap, saPc \in {"fork", "reap", "close", "pid"}
          PROVE  /\ saProc'[p] = "runs" => saInfo' = <<"second">>
                 /\ saProc'[p] = "failed" => saInfo' \in {<<"second">>, <<"second", "error">>}
                 /\ saProc'[p] = "failed" /\ ~saLeave => saInfo' = <<"second", "error">>
      <4>1. saInfo = <<"second">>
        BY <2>0, <3>1, <3>6 DEF SaWords
      <4> QED
        BY <3>4, <4>1, WordsSaid
    <3>7. ~saReap /\ saPc = "status" => saPid = "second"
      BY <2>0, <3>1 DEF SaWords
    <3>8. saProc'[p] \in {"runs", "failed"}
      BY <3>4
    <3> HIDE DEF SaInv
    <3> QED
      BY <2>00, <2>2, <3>1, <3>2, <3>5, <3>6, <3>7, <3>8 DEF SaWords
  <2> QED
    BY <2>1, <2>2
<1>4. SaEndsHeld'
  <2>1. saHolds'["caller"] = saHolds["caller"] /\ UNCHANGED <<saAsked, saLeave, saPc, saPid, saCut>>
    BY DEF SaExec, Exits, SaShape, SaTypeOK, Children
  <2>2. SaChildrenHold'
    BY DEF SaExec, Exits, SaShape, SaLives, SaEndsHeld, SaChildrenHold, SaTypeOK, Children, OfCaller
  <2> QED
    BY <2>1, <2>2, CallerKeeps DEF SaEndsHeld
<1>5. SaAnswers'
  <2>1. PICK p \in Children : saProc[p] = "execs" /\ \E how \in {"runs", "failed"} : saProc' = [saProc EXCEPT ![p] = how]
    BY DEF SaExec, Exits
  <2>2. UNCHANGED <<saReap, saLeave, saTorn, saPid, saPc, saAnswer, saCut>>
    BY DEF SaExec
  <2> QED
    BY <2>1, <2>2, AnswersKept
<1> QED
  BY <1>1, <1>2, <1>3, <1>4, <1>5

LEMMA SaKilledKeeps == ASSUME SaInv, SaKilled PROVE SaInv'
<1> USE DEF SaInv
<1>0. PICK p \in Children :
        /\ saProc[p] \in {"tells", "setup", "execs"} /\ Exits(p, "killed")
        /\ UNCHANGED <<saAsked, saReap, saLeave, saInfo, saPc, saAnswer, saPid, saTorn, saCut>>
  BY DEF SaKilled
<1>1. SaShape'
  <2>1. /\ saHolds' \in [Children \cup {"caller"} -> SUBSET Ends8]
        /\ saProc' \in [Children -> {"none", "begins", "tells", "setup", "execs", "runs", "exited", "failed", "killed", "reaped"}]
    BY <1>0 DEF Exits, SaShape, SaTypeOK, Children
  <2> QED
    BY <1>0, <2>1 DEF SaShape, SaTypeOK
<1>2. SaLives'
  BY <1>0 DEF Exits, SaShape, SaLives, Children
<1>3. SaWords'
  <2>1. CASE saPc = "done"
    BY <1>0, <2>1, WordsKept DEF Exits
  <2>2. ASSUME saPc # "done" PROVE SaWords'
    <3>1. p = Runner /\ (p = "first" <=> saReap) /\ (p = "second" <=> ~saReap) /\ ~saTorn /\ saProc["first"] # "none"
      BY <1>0, IsRunner
    <3>2. Runner' = Runner /\ saProc'[p] = "killed" /\ saProc'["first"] # "none"
      BY <1>0, <3>1 DEF Runner, Exits, SaShape, Children
    <3> QED
      BY <1>0, <2>2, <3>1, <3>2, WordsDiffer DEF SaWords
  <2> QED
    BY <2>1, <2>2
<1>4. SaEndsHeld'
  <2>1. saHolds'["caller"] = saHolds["caller"] /\ UNCHANGED <<saAsked, saLeave, saPc, saPid, saCut>>
    BY <1>0 DEF Exits, SaShape, SaTypeOK, Children
  <2>2. SaChildrenHold'
    BY <1>0 DEF Exits, SaShape, SaLives, SaEndsHeld, SaChildrenHold, SaTypeOK, Children, OfCaller
  <2> QED
    BY <2>1, <2>2, CallerKeeps DEF SaEndsHeld
<1>5. SaAnswers'
  BY <1>0, AnswersKept DEF Exits
<1> QED
  BY <1>1, <1>2, <1>3, <1>4, <1>5

LEMMA SaEndKeeps == ASSUME SaInv, SaEnd PROVE SaInv'
<1> USE DEF SaInv
<1>0. PICK p \in Children :
        /\ saProc[p] \in {"runs"} /\ Exits(p, "exited")
        /\ UNCHANGED <<saAsked, saReap, saLeave, saInfo, saPc, saAnswer, saPid, saTorn, saCut>>
  BY DEF SaEnd
<1>1. SaShape'
  <2>1. /\ saHolds' \in [Children \cup {"caller"} -> SUBSET Ends8]
        /\ saProc' \in [Children -> {"none", "begins", "tells", "setup", "execs", "runs", "exited", "failed", "killed", "reaped"}]
    BY <1>0 DEF Exits, SaShape, SaTypeOK, Children
  <2> QED
    BY <1>0, <2>1 DEF SaShape, SaTypeOK
<1>2. SaLives'
  BY <1>0 DEF Exits, SaShape, SaLives, Children
<1>3. SaWords'
  <2>1. CASE saPc = "done"
    BY <1>0, <2>1, WordsKept DEF Exits
  <2>2. ASSUME saPc # "done" PROVE SaWords'
    <3>1. p = Runner /\ (p = "first" <=> saReap) /\ (p = "second" <=> ~saReap) /\ ~saTorn /\ saProc["first"] # "none"
      BY <1>0, IsRunner
    <3>2. Runner' = Runner /\ saProc'[p] = "exited" /\ saProc'["first"] # "none"
      BY <1>0, <3>1 DEF Runner, Exits, SaShape, Children
    <3> QED
      BY <1>0, <2>2, <3>1, <3>2, WordsDiffer DEF SaWords
  <2> QED
    BY <2>1, <2>2
<1>4. SaEndsHeld'
  <2>1. saHolds'["caller"] = saHolds["caller"] /\ UNCHANGED <<saAsked, saLeave, saPc, saPid, saCut>>
    BY <1>0 DEF Exits, SaShape, SaTypeOK, Children
  <2>2. SaChildrenHold'
    BY <1>0 DEF Exits, SaShape, SaLives, SaEndsHeld, SaChildrenHold, SaTypeOK, Children, OfCaller
  <2> QED
    BY <2>1, <2>2, CallerKeeps DEF SaEndsHeld
<1>5. SaAnswers'
  BY <1>0, AnswersKept DEF Exits
<1> QED
  BY <1>1, <1>2, <1>3, <1>4, <1>5

LEMMA SaInvCorrect == SaInv => SaCorrect
<1> SUFFICES ASSUME SaInv PROVE SaCorrect
  OBVIOUS
<1> USE DEF SaInv
<1>0. saAnswer = <<TRUE>> \/ saAnswer = <<FALSE>> => saPc = "done"
  BY AnswersDiffer DEF SaAnswers
<1>1. SaMeansTrue
  <2> SUFFICES ASSUME saAnswer = <<TRUE>> PROVE SaMeansTrue
    BY DEF SaMeansTrue
  <2>1. CASE ~saTorn
    BY <2>1 DEF SaMeansTrue, SaAnswers
  <2>2. ASSUME saTorn PROVE saPid = "first" /\ saProc["first"] = "reaped" /\ saProc["second"] = "none"
    <3>1. saPc = "done" /\ saProc["first"] # "none" /\ ~saReap
      BY <1>0, <2>2 DEF SaAnswers, SaLives
    <3> QED
      BY <2>2, <3>1 DEF SaLives, SaWords
  <2> QED
    BY <2>1, <2>2 DEF SaMeansTrue
<1>2. SaMeansFalse
  <2> SUFFICES ASSUME saAnswer = <<FALSE>> PROVE SaMeansFalse
    BY DEF SaMeansFalse
  <2>1. saProc["first"] = "none" => saProc[Runner] = "none"
    BY DEF SaLives, Runner
  <2> QED
    BY <2>1 DEF SaMeansFalse, SaAnswers
<1>3. SaPipesDirect
  <2>1. AllEnds \cap OfCaller = {e \in OfCaller : e[1] \in saAsked}
    BY DEF AllEnds, OfCaller, SaShape, SaStreams
  <2>2. saPc = "done" => saHolds["caller"] = IF saPid = "none" \/ saCut = "wait" THEN {}
                                             ELSE {e \in OfCaller : e[1] \in saAsked}
    BY <2>1 DEF SaEndsHeld, SaChildrenHold, SaCallerHolds
  <2>3. saAnswer = <<TRUE>> => saPid # "none" /\ saCut = "no"
    BY DEF SaAnswers, SaWords
  <2>4. saAnswer = <<TRUE>> \/ saPc \in {"pid", "status"} => saHolds["first"] = {} \/ saReap
    <3>1. ASSUME saAnswer = <<TRUE>> \/ saPc \in {"pid", "status"}, ~saReap PROVE saProc["first"] = "reaped"
      <4>1. saPc \in {"pid", "status", "done"} /\ saProc["first"] # "none"
        BY <1>0, <3>1 DEF SaAnswers, SaLives
      <4> QED
        BY <3>1, <4>1 DEF SaLives
    <3> QED
      BY <3>1 DEF SaEndsHeld, SaChildrenHold, SaCallerHolds, Children
  <2>5. \A c \in Children : saProc[c] = "runs" =>
          saHolds[c] \cap (OfCaller \cup {<<"info", "r">>, <<"info", "w">>}) = {}
    BY DEF SaEndsHeld, SaChildrenHold, SaCallerHolds
  <2> QED
    BY <2>2, <2>3, <2>4, <2>5 DEF SaPipesDirect
<1>4. SaNoZombie
  BY DEF SaNoZombie, SaLives
<1> QED
  BY <1>1, <1>2, <1>3, <1>4 DEF SaCorrect

LEMMA SaSteps == SaInv /\ [SaNext]_saVars => SaInv'
<1> SUFFICES ASSUME SaInv, [SaNext]_saVars PROVE SaInv'
  OBVIOUS
<1>1. ASSUME UNCHANGED saVars PROVE SaInv'
  <2> USE <1>1 DEF saVars
  <2>1. SaShape'
    BY DEF SaInv, SaShape, SaTypeOK
  <2>2. SaLives'
    BY DEF SaInv, SaLives
  <2>3. SaWords'
    BY DEF SaInv, SaWords, Runner
  <2>4. SaEndsHeld'
    BY DEF SaInv, SaEndsHeld, SaChildrenHold, SaCallerHolds, AllEnds
  <2>5. SaAnswers'
    BY DEF SaInv, SaAnswers, AllEnds, Runner
  <2> QED
    BY <2>1, <2>2, <2>3, <2>4, <2>5 DEF SaInv
<1> QED
  BY <1>1, SaForkKeeps, SaReapFirstKeeps, SaCloseKeeps, SaPidKeeps, SaStatusKeeps, SaBeginKeeps, SaTellKeeps,
     SaSetupKeeps, SaExecKeeps, SaKilledKeeps, SaEndKeeps DEF SaNext, SaCaller, SaChildren

\* Caller, children and ends of pipes of g_spawn_async_with_pipes stay in the shape that
\* the promises need.
THEOREM SaSound == SaSpec => []SaInv
<1> QED
  BY SaStart, SaSteps, PTL DEF SaSpec

\* g_spawn_async_with_pipes, whatever call fails, whenever a signal comes and whoever is
\* killed.  TRUE means that the program runs and *child_pid is its, or that its process is
\* gone without a word or could not be made, or, with the flag to leave descriptors open,
\* anything.  FALSE means that no program runs, unless waitpid has failed or a signal has
\* come during the last read.  The ends of the pipes are where the streams need them; a
\* caller that is answered FALSE through the info pipe keeps its own, unless waitpid failed.
\* The first child is no zombie.
THEOREM SpawnAsyncCorrect == SaSpec => []SaCorrect
<1> QED
  BY SaSound, SaInvCorrect, PTL

-----------------------------------------------------------------------------
(* g_file_set_contents and g_file_get_contents *)

FcBlock    == (FcWriters \cup {"old", "zero", "unset"}) \X Nat
FcContents == {c \in Seq(FcBlock) : Len(c) <= Blocks}
FcTold     == {<< >>, <<TRUE>>, <<FALSE>>} \cup {<<TRUE, c>> : c \in Seq(FcBlock)}

\* What a call of w leaves, all of its text unless a buffer was lost.
FcFront(c, w, short) == /\ Len(c) <= Blocks /\ (short \/ Len(c) = Blocks)
                        /\ \A i \in 1..Len(c) : c[i] = <<w, i>>
FcWhole(c, short) == \E w \in FcWriters \cup {"old"} : FcFront(c, w, short)

FcShape ==
  /\ fcFiles \in Seq(FcContents) /\ fcName \in 1..Len(fcFiles) /\ fcTmp \in 0..Len(fcFiles)
  /\ fcPc \in [FcProcs -> {"idle", "open", "close", "rename", "unlink", "size", "read"}]
  /\ fcFile \in [FcProcs -> 0..Len(fcFiles)] /\ fcSize \in [FcProcs -> 0..Blocks]
  /\ fcRead \in [FcReaders -> Seq(FcBlock)] /\ fcCalls \in [FcWriters -> Nat]
  /\ fcAnswer \in [FcProcs -> FcTold]
  /\ fcMet \in BOOLEAN /\ fcLost \in BOOLEAN /\ fcCut \in [FcReaders -> BOOLEAN]
  /\ \A w \in FcWriters : fcPc[w] \notin {"size", "read"} /\ (fcPc[w] \in {"open", "close"} => fcFile[w] # 0)
  /\ \A r \in FcReaders : ~Busy(r) /\ (fcPc[r] # "idle" => fcFile[r] # 0)

FcWriter(w) ==
  /\ fcPc[w] \in {"open", "close"} => fcFile[w] = fcTmp
  /\ fcPc[w] = "open" => fcFiles[fcTmp] = << >>
  /\ fcPc[w] = "close" => /\ Len(fcFiles[fcTmp]) = Blocks - fcSize[w]
                          /\ \A i \in 1..(Blocks - fcSize[w]) : fcFiles[fcTmp][i] = <<w, i>>
  /\ fcPc[w] = "rename" => fcTmp # 0 /\ FcFront(fcFiles[fcTmp], w, fcLost)
  /\ Busy(w) => fcAnswer[w] = << >>
  /\ fcCalls[w] = 0 => fcPc[w] = "idle" /\ fcAnswer[w] = << >>
  /\ fcCalls[w] <= 1 /\ fcAnswer[w] # <<TRUE>> => fcFiles[fcName] # Text(w)

\* The answer of a reader is what FcReadsWhole says.
FcAnswerIs(answer, cut, short) ==
  \E w \in FcWriters \cup {"old"}, size \in 0..Blocks : \E n \in 0..size :
    answer = <<TRUE, ReadFront(Text(w), n, size)>> /\ (short \/ size = Blocks) /\ (cut \/ n = size)

FcReader(r) ==
  /\ fcPc[r] \in {"size", "read"} => fcFile[r] # fcTmp /\ FcWhole(fcFiles[fcFile[r]], fcLost) /\ ~fcCut[r]
  /\ fcPc[r] = "read" => /\ fcSize[r] = Len(fcFiles[fcFile[r]]) /\ Len(fcRead[r]) <= fcSize[r]
                         /\ \A i \in 1..Len(fcRead[r]) : fcRead[r][i] = fcFiles[fcFile[r]][i]
  /\ fcPc[r] # "read" => fcRead[r] = << >>
  /\ fcAnswer[r] \in {<< >>, <<FALSE>>} \/ FcAnswerIs(fcAnswer[r], fcCut[r], fcLost)

FcAlone ==
  /\ FcWhole(fcFiles[fcName], fcLost) /\ fcTmp # fcName
  /\ \A v, w \in FcWriters : Busy(v) /\ Busy(w) => v = w
  /\ \A w \in FcWriters : FcWriter(w)
  /\ \A r \in FcReaders : FcReader(r)

FcInv == FcShape /\ (fcMet \/ FcAlone)

-----------------------------------------------------------------------------
(* Files *)

LEMMA MaxOfTwo == ASSUME NEW a \in Nat, NEW b \in Nat PROVE Max({a, b}) = IF a <= b THEN b ELSE a
<1>1. \E x \in {a, b} : \A y \in {a, b} : x >= y
  OBVIOUS
<1>2. Max({a, b}) \in {a, b} /\ \A y \in {a, b} : Max({a, b}) >= y
  BY <1>1 DEF Max
<1> QED
  BY <1>2

LEMMA MinOfTwo == ASSUME NEW a \in Nat, NEW b \in Nat PROVE Min({a, b}) = IF a <= b THEN a ELSE b
<1>1. \E x \in {a, b} : \A y \in {a, b} : x =< y
  OBVIOUS
<1>2. Min({a, b}) \in {a, b} /\ \A y \in {a, b} : Min({a, b}) =< y
  BY <1>1 DEF Min
<1> QED
  BY <1>2

LEMMA TextIs ==
  ASSUME NEW w \in FcWriters \cup {"old"}
  PROVE  /\ Text(w) \in FcContents /\ Len(Text(w)) = Blocks
         /\ \A i \in 1..Blocks : Text(w)[i] = <<w, i>>
<1>1. Text(w) = [i \in 1..Blocks |-> <<w, i>>] /\ Blocks \in Nat
  BY FileContentsAssumption DEF Text
<1>2. Text(w) \in Seq(FcBlock) /\ Len(Text(w)) = Blocks
  BY <1>1 DEF FcBlock
<1> QED
  BY <1>1, <1>2 DEF FcContents

LEMMA TextsDiffer ==
  ASSUME NEW v \in FcWriters \cup {"old"}, NEW w \in FcWriters \cup {"old"}, Text(v) = Text(w)
  PROVE  v = w
<1>1. Text(v)[1] = <<v, 1>> /\ Text(w)[1] = <<w, 1>>
  BY TextIs, FileContentsAssumption
<1> QED
  BY <1>1

LEMMA ToldAre == {<< >>, <<TRUE>>, <<FALSE>>} \subseteq FcTold
BY DEF FcTold

\* A text that is known block for block, or its beginning.
LEMMA FrontIs ==
  ASSUME NEW w \in FcWriters \cup {"old"}, NEW c \in FcContents, NEW short, FcFront(c, w, short)
  PROVE  c = Text(w) \/ (short /\ IsStrictPrefix(c, Text(w)))
<1> DEFINE t == Text(w)
<1>1. /\ c \in Seq(FcBlock) /\ t \in Seq(FcBlock) /\ Len(t) = Blocks /\ Len(c) \in Nat /\ Blocks \in Nat
      /\ Len(c) <= Blocks /\ \A i \in 1..Len(c) : c[i] = t[i]
  <2>1. /\ t \in Seq(FcBlock) /\ Len(t) = Blocks /\ Blocks \in Nat /\ \A i \in 1..Blocks : t[i] = <<w, i>>
    BY TextIs, FileContentsAssumption DEF FcContents
  <2>2. c \in Seq(FcBlock) /\ Len(c) \in Nat /\ Len(c) <= Blocks
    BY DEF FcContents
  <2>3. \A i \in 1..Len(c) : c[i] = <<w, i>>
    BY DEF FcFront
  <2> HIDE DEF t
  <2>4. \A i \in 1..Len(c) : i \in 1..Blocks
    BY <2>1, <2>2
  <2>5. \A i \in 1..Len(c) : c[i] = t[i]
    BY <2>1, <2>3, <2>4
  <2> QED
    BY <2>1, <2>2, <2>5
<1> HIDE DEF t
<1>2. CASE Len(c) = Blocks
  BY <1>1, <1>2, SameSeq DEF t
<1>3. CASE Len(c) # Blocks
  <2>1. short /\ c # t
    BY <1>1, <1>3 DEF FcFront
  <2>2. SubSeq(c, 1, Len(c)) = SubSeq(t, 1, Len(c))
    <3> DEFINE u == SubSeq(c, 1, Len(c))
               v == SubSeq(t, 1, Len(c))
    <3>1. u \in Seq(FcBlock) /\ Len(u) = Len(c) /\ \A i \in 1..Len(c) : u[i] = c[i]
      BY <1>1
    <3>2. v \in Seq(FcBlock) /\ Len(v) = Len(c) /\ \A i \in 1..Len(c) : v[i] = t[i]
      BY <1>1
    <3> HIDE DEF u, v
    <3>3. \A i \in 1..Len(v) : u[i] = v[i]
      BY <1>1, <3>1, <3>2
    <3>4. u = v
      BY <3>1, <3>2, <3>3, SameSeq
    <3> QED
      BY <3>4 DEF u, v
  <2> QED
    BY <1>1, <2>1, <2>2 DEF IsStrictPrefix, IsPrefix, t
<1> QED
  BY <1>2, <1>3

LEMMA WholeLater ==
  ASSUME NEW c, NEW short, NEW later, short => later, FcWhole(c, short)
  PROVE  FcWhole(c, later)
BY DEF FcWhole, FcFront

LEMMA AnswerLater ==
  ASSUME NEW c, NEW cut, NEW short, NEW later, short => later, FcAnswerIs(c, cut, short)
  PROVE  FcAnswerIs(c, cut, later)
BY DEF FcAnswerIs

\* What a write leaves: blocks i to j of w over an older content.
Over(c, w, i, j) ==
  [k \in 1..Max({Len(c), j}) |-> IF k \in i..j THEN Text(w)[k] ELSE IF k <= Len(c) THEN c[k] ELSE <<"zero", k>>]

LEMMA OverIs ==
  ASSUME NEW w \in FcWriters, NEW c \in FcContents, NEW i \in Nat, NEW j \in 0..Blocks, NEW m,
         m = IF Len(c) <= j THEN j ELSE Len(c)
  PROVE  /\ Over(c, w, i, j) \in FcContents /\ Len(Over(c, w, i, j)) = m
         /\ \A k \in 1..m :
              Over(c, w, i, j)[k] = IF k \in i..j THEN <<w, k>> ELSE IF k <= Len(c) THEN c[k] ELSE <<"zero", k>>
<1> DEFINE o == Over(c, w, i, j)
<1>1. /\ c \in Seq(FcBlock) /\ Len(c) \in Nat /\ Len(c) <= Blocks /\ j \in Nat /\ Blocks \in Nat /\ m \in Nat /\ m <= Blocks
      /\ Max({Len(c), j}) = m
  BY FileContentsAssumption, MaxOfTwo DEF FcContents
<1>2. \A k \in 1..m : k \in i..j => Text(w)[k] = <<w, k>>
  BY <1>1, TextIs
<1>3. o = [k \in 1..m |-> IF k \in i..j THEN Text(w)[k] ELSE IF k <= Len(c) THEN c[k] ELSE <<"zero", k>>]
  BY <1>1 DEF Over
<1>4. \A k \in 1..m : o[k] = IF k \in i..j THEN <<w, k>> ELSE IF k <= Len(c) THEN c[k] ELSE <<"zero", k>>
  BY <1>2, <1>3
<1>5. \A k \in 1..m : o[k] \in FcBlock
  <2> SUFFICES ASSUME NEW k \in 1..m PROVE o[k] \in FcBlock
    OBVIOUS
  <2>1. k \in Nat /\ <<w, k>> \in FcBlock /\ <<"zero", k>> \in FcBlock
    BY <1>1 DEF FcBlock
  <2>2. k <= Len(c) => c[k] \in FcBlock
    BY <1>1, <2>1
  <2> HIDE DEF o
  <2> QED
    BY <1>4, <2>1, <2>2
<1>6. o \in Seq(FcBlock) /\ Len(o) = m
  <2>1. o \in [1..m -> FcBlock]
    BY <1>3, <1>5
  <2> HIDE DEF o
  <2>2. ASSUME NEW n \in Nat, o \in [1..n -> FcBlock] PROVE o \in Seq(FcBlock) /\ Len(o) = n
    BY <2>2
  <2>3. m \in Nat
    BY <1>1
  <2> QED
    BY <2>1, <2>2, <2>3
<1> HIDE DEF o
<1>7. o \in FcContents
  BY <1>1, <1>6 DEF FcContents
<1> QED
  BY <1>4, <1>6, <1>7 DEF o

LEMMA StoredIs ==
  ASSUME NEW w, NEW i, NEW j
  PROVE  Stored(w, i, j) = [fcFiles EXCEPT ![fcFile[w]] = Over(fcFiles[fcFile[w]], w, i, j)]
BY DEF Stored, Over

-----------------------------------------------------------------------------
(* One process makes a step *)

\* What only w has changed, and nobody else is at work on the temporary file.
FcMoves(w) ==
  /\ \A v \in FcWriters \ {w} : ~Busy(v) /\ fcCalls'[v] = fcCalls[v]
  /\ \A p \in FcProcs \ {w} : /\ fcPc'[p] = fcPc[p] /\ fcFile'[p] = fcFile[p]
                              /\ fcSize'[p] = fcSize[p] /\ fcAnswer'[p] = fcAnswer[p]
  /\ fcRead' = fcRead /\ fcCut' = fcCut /\ (fcLost => fcLost')
  /\ \A i \in 1..Len(fcFiles) : i # fcTmp => fcFiles'[i] = fcFiles[i]
  /\ fcTmp' \in {fcTmp, 0, Len(fcFiles) + 1} /\ fcTmp' # fcName'
  /\ fcName' = fcName \/ (fcTmp # 0 /\ fcName' = fcTmp /\ fcFiles' = fcFiles /\ FcFront(fcFiles[fcTmp], w, fcLost))

LEMMA FcWriterMoves ==
  ASSUME FcShape, FcAlone, NEW w \in FcWriters, FcMoves(w), FcWriter(w)'
  PROVE  FcAlone'
<1>1. FcWriters \cap FcReaders = {} /\ FcWriters \subseteq FcProcs /\ FcReaders \subseteq FcProcs
  BY FileContentsAssumption DEF FcProcs
<1>2. fcFiles'[fcName'] = fcFiles[fcName] \/ FcFront(fcFiles'[fcName'], w, fcLost)
  BY DEF FcMoves, FcShape, FcAlone
<1>3. FcWhole(fcFiles'[fcName'], fcLost')
  <2>1. FcWhole(fcFiles'[fcName'], fcLost)
    BY <1>2 DEF FcAlone, FcWhole
  <2>2. fcLost => fcLost'
    BY DEF FcMoves
  <2> QED
    BY <2>1, <2>2, WholeLater
<1>4. \A u, v \in FcWriters : Busy(u)' /\ Busy(v)' => u = v
  BY <1>1 DEF FcMoves, Busy
<1>5. ASSUME NEW v \in FcWriters PROVE FcWriter(v)'
  <2>1. CASE v = w
    BY <2>1
  <2>2. CASE v # w
    <3>1. /\ fcPc'[v] = fcPc[v] /\ fcAnswer'[v] = fcAnswer[v] /\ fcCalls'[v] = fcCalls[v] /\ ~Busy(v)
      BY <1>1, <2>2 DEF FcMoves
    <3>2. fcPc[v] \notin {"open", "close", "rename", "unlink"}
      BY <3>1 DEF Busy
    <3>3. FcWriter(v)
      BY <2>2 DEF FcAlone
    <3>4. FcFront(fcFiles'[fcName'], w, fcLost) => fcFiles'[fcName'] # Text(v)
      <4>1. Len(Text(v)) = Blocks /\ Text(v)[1] = <<v, 1>> /\ Blocks >= 1 /\ Blocks \in Nat
        BY TextIs, FileContentsAssumption
      <4>2. 1 \in 1..Blocks /\ <<v, 1>> # <<w, 1>>
        BY <2>2, <4>1
      <4> QED
        BY <4>1, <4>2 DEF FcFront
    <3>5. fcCalls'[v] <= 1 /\ fcAnswer'[v] # <<TRUE>> => fcFiles'[fcName'] # Text(v)
      BY <1>2, <3>1, <3>3, <3>4 DEF FcWriter
    <3>6. fcCalls'[v] = 0 => fcPc'[v] = "idle" /\ fcAnswer'[v] = << >>
      BY <3>1, <3>3 DEF FcWriter
    <3> QED
      BY <3>1, <3>2, <3>5, <3>6 DEF FcWriter, Busy
  <2> QED
    BY <2>1, <2>2
<1>6. ASSUME NEW r \in FcReaders PROVE FcReader(r)'
  <2>1. /\ fcPc'[r] = fcPc[r] /\ fcFile'[r] = fcFile[r] /\ fcSize'[r] = fcSize[r] /\ fcAnswer'[r] = fcAnswer[r]
        /\ fcRead'[r] = fcRead[r] /\ fcCut'[r] = fcCut[r] /\ FcReader(r) /\ (fcLost => fcLost')
    BY <1>1 DEF FcMoves, FcAlone
  <2>2. ASSUME fcPc[r] \in {"size", "read"}
        PROVE  /\ fcFile[r] # fcTmp' /\ fcFiles'[fcFile[r]] = fcFiles[fcFile[r]]
               /\ FcWhole(fcFiles[fcFile[r]], fcLost')
    <3>1. fcFile[r] # fcTmp /\ fcFile[r] \in 1..Len(fcFiles) /\ FcWhole(fcFiles[fcFile[r]], fcLost)
      BY <1>1, <2>1, <2>2 DEF FcReader, FcShape
    <3>2. fcFiles'[fcFile[r]] = fcFiles[fcFile[r]]
      BY <3>1 DEF FcMoves
    <3>3. Len(fcFiles) \in Nat /\ fcTmp' \in {fcTmp, 0, Len(fcFiles) + 1}
      BY DEF FcMoves, FcShape
    <3>4. FcWhole(fcFiles[fcFile[r]], fcLost')
      BY <2>1, <3>1, WholeLater
    <3> QED
      BY <3>1, <3>2, <3>3, <3>4
  <2>3. fcAnswer[r] \in {<< >>, <<FALSE>>} \/ FcAnswerIs(fcAnswer[r], fcCut[r], fcLost')
    <3>1. CASE FcAnswerIs(fcAnswer[r], fcCut[r], fcLost)
      <4>1. fcLost => fcLost'
        BY <2>1
      <4>2. FcAnswerIs(fcAnswer[r], fcCut[r], fcLost')
        BY <3>1, <4>1, AnswerLater
      <4> QED
        BY <4>2
    <3>2. CASE fcAnswer[r] \in {<< >>, <<FALSE>>}
      BY <3>2
    <3> QED
      BY <2>1, <3>1, <3>2 DEF FcReader
  <2> QED
    BY <2>1, <2>2, <2>3 DEF FcReader
<1>7. fcTmp' # fcName'
  BY DEF FcMoves
<1> QED
  BY <1>3, <1>4, <1>5, <1>6, <1>7 DEF FcAlone

LEMMA FcReaderMoves ==
  ASSUME FcShape, FcAlone, NEW r \in FcReaders, FcReader(r)',
         UNCHANGED <<fcFiles, fcName, fcTmp, fcCalls, fcLost>>,
         \A p \in FcProcs \ {r} : /\ fcPc'[p] = fcPc[p] /\ fcFile'[p] = fcFile[p]
                                  /\ fcSize'[p] = fcSize[p] /\ fcAnswer'[p] = fcAnswer[p],
         \A p \in FcReaders \ {r} : fcRead'[p] = fcRead[p] /\ fcCut'[p] = fcCut[p]
  PROVE  FcAlone'
<1>1. FcWriters \subseteq FcProcs \ {r} /\ FcReaders \subseteq FcProcs
  BY FileContentsAssumption DEF FcProcs
<1>2. ASSUME NEW w \in FcWriters PROVE FcWriter(w)' /\ (Busy(w)' <=> Busy(w))
  <2>1. w \in FcProcs \ {r} /\ FcWriter(w)
    BY <1>1 DEF FcAlone
  <2>2. /\ fcPc'[w] = fcPc[w] /\ fcFile'[w] = fcFile[w] /\ fcSize'[w] = fcSize[w] /\ fcAnswer'[w] = fcAnswer[w]
        /\ fcFiles' = fcFiles /\ fcName' = fcName /\ fcTmp' = fcTmp /\ fcCalls' = fcCalls /\ fcLost' = fcLost
    BY <2>1
  <2> QED
    BY <2>1, <2>2 DEF FcWriter, Busy
<1>3. \A p \in FcReaders : FcReader(p)'
  <2> SUFFICES ASSUME NEW p \in FcReaders, p # r PROVE FcReader(p)'
    OBVIOUS
  <2>1. /\ fcPc'[p] = fcPc[p] /\ fcFile'[p] = fcFile[p] /\ fcSize'[p] = fcSize[p] /\ fcAnswer'[p] = fcAnswer[p]
        /\ fcRead'[p] = fcRead[p] /\ fcCut'[p] = fcCut[p] /\ FcReader(p)
        /\ fcFiles' = fcFiles /\ fcTmp' = fcTmp /\ fcLost' = fcLost
    BY <1>1 DEF FcAlone
  <2> QED
    BY <2>1 DEF FcReader
<1> QED
  BY <1>2, <1>3 DEF FcAlone

-----------------------------------------------------------------------------
(* g_file_set_contents *)

LEMMA FcStart == FcInit => FcInv
<1> SUFFICES ASSUME FcInit PROVE FcInv
  OBVIOUS
<1>1. Text("old") \in FcContents /\ FcWhole(Text("old"), fcLost)
  BY TextIs, FileContentsAssumption DEF FcWhole, FcFront
<1>2. fcFiles = <<Text("old")>> /\ fcFiles[1] = Text("old") /\ Len(fcFiles) = 1 /\ fcFiles \in Seq(FcContents)
  BY <1>1 DEF FcInit
<1>3. FcShape
  <2>1. Blocks \in Nat
    BY FileContentsAssumption
  <2>2. << >> \in Seq(FcBlock)
    OBVIOUS
  <2> QED
    <3>1. /\ fcName \in 1..Len(fcFiles) /\ fcTmp \in 0..Len(fcFiles)
          /\ fcPc \in [FcProcs -> {"idle", "open", "close", "rename", "unlink", "size", "read"}]
          /\ fcFile \in [FcProcs -> 0..Len(fcFiles)] /\ fcSize \in [FcProcs -> 0..Blocks]
      BY <1>2, <2>1 DEF FcInit
    <3>2. /\ fcRead \in [FcReaders -> Seq(FcBlock)] /\ fcCalls \in [FcWriters -> Nat]
          /\ fcAnswer \in [FcProcs -> FcTold]
          /\ fcMet \in BOOLEAN /\ fcLost \in BOOLEAN /\ fcCut \in [FcReaders -> BOOLEAN]
      BY <2>2, ToldAre DEF FcInit
    <3>3. \A p \in FcProcs : fcPc[p] = "idle"
      BY DEF FcInit
    <3> QED
      BY <1>2, <3>1, <3>2, <3>3 DEF FcShape, FcProcs, Busy
<1>4. FcAlone
  <2>1. ASSUME NEW w \in FcWriters PROVE FcWriter(w) /\ ~Busy(w)
    <3>1. w \in FcProcs /\ fcPc[w] = "idle" /\ fcAnswer[w] = << >> /\ fcFiles[fcName] = Text("old")
      BY <1>2 DEF FcInit, FcProcs
    <3>2. Text(w) # Text("old")
      BY FileContentsAssumption, TextsDiffer
    <3> QED
      BY <3>1, <3>2 DEF FcWriter, Busy
  <2>2. ASSUME NEW r \in FcReaders PROVE FcReader(r)
    BY DEF FcInit, FcProcs, FcReader
  <2> QED
    BY <1>1, <1>2, <2>1, <2>2 DEF FcAlone, FcInit
<1> QED
  BY <1>3, <1>4 DEF FcInv

\* What every step starts from.
LEMMA FcKnown ==
  ASSUME FcShape, NEW p \in FcProcs
  PROVE  /\ Len(fcFiles) \in Nat /\ fcName \in Nat \ {0} /\ fcTmp \in Nat /\ Blocks \in Nat /\ Blocks >= 1
         /\ \A i \in 1..Len(fcFiles) : fcFiles[i] \in FcContents /\ Len(fcFiles[i]) \in Nat /\ Len(fcFiles[i]) <= Blocks
         /\ fcFile[p] \in 0..Len(fcFiles) /\ fcSize[p] \in 0..Blocks
BY FileContentsAssumption DEF FcShape, FcContents

\* What is known of the writer that is at work.
LEMMA FcAtWork ==
  ASSUME FcShape, FcAlone, NEW w \in FcWriters, Busy(w)
  PROVE  /\ FcWriter(w) /\ fcTmp # fcName /\ fcName # 0
         /\ \A v \in FcWriters \ {w} : ~Busy(v)
         /\ fcAnswer[w] = << >> /\ fcCalls[w] # 0
         /\ fcCalls[w] <= 1 => fcFiles[fcName] # Text(w)
<1>1. w \in FcProcs
  BY DEF FcProcs
<1>2. FcWriter(w) /\ fcTmp # fcName
  BY DEF FcAlone
<1>3. fcName # 0
  BY <1>1, FcKnown
<1>4. \A v \in FcWriters \ {w} : ~Busy(v)
  BY DEF FcAlone
<1>5. fcAnswer[w] = << >>
  BY <1>2 DEF FcWriter
<1>6. fcCalls[w] # 0
  BY <1>2 DEF FcWriter, Busy
<1>7. fcCalls[w] <= 1 => fcFiles[fcName] # Text(w)
  BY <1>2, <1>5, AnswersDiffer DEF FcWriter
<1> QED
  BY <1>2, <1>3, <1>4, <1>5, <1>6, <1>7

LEMMA FcOpenShape == ASSUME FcShape, NEW w \in FcWriters, FcOpen(w) PROVE FcShape'
<1>1. w \in FcProcs /\ w \notin FcReaders
  BY FileContentsAssumption DEF FcProcs
<1>2. fcCalls' \in [FcWriters -> Nat] /\ UNCHANGED <<fcName, fcSize, fcRead, fcLost, fcCut>>
  BY DEF FcOpen, FcShape
<1>3. CASE UNCHANGED <<fcFiles, fcTmp, fcFile, fcPc, fcMet>> /\ fcAnswer' = [fcAnswer EXCEPT ![w] = <<FALSE>>]
  BY <1>1, <1>2, <1>3, ToldAre DEF FcShape, Busy
<1>4. ASSUME /\ fcFiles' = IF fcTmp = 0 THEN Append(fcFiles, << >>) ELSE [fcFiles EXCEPT ![fcTmp] = << >>]
             /\ fcTmp' = IF fcTmp = 0 THEN Len(fcFiles) + 1 ELSE fcTmp
             /\ fcFile' = [fcFile EXCEPT ![w] = fcTmp'] /\ Goes(w, "open")
             /\ fcAnswer' = [fcAnswer EXCEPT ![w] = << >>]
             /\ fcMet' = (fcMet \/ \E v \in FcWriters \ {w} : Busy(v))
      PROVE  FcShape'
  <2>1. << >> \in FcContents
    BY FileContentsAssumption DEF FcContents
  <2>2. /\ fcFiles' \in Seq(FcContents) /\ Len(fcFiles') \in Nat /\ Len(fcFiles') >= Len(fcFiles)
        /\ fcTmp' \in 1..Len(fcFiles')
    <3>1. CASE fcTmp = 0
      BY <1>4, <2>1, <3>1 DEF FcShape
    <3>2. CASE fcTmp # 0
      BY <1>4, <2>1, <3>2 DEF FcShape
    <3> QED
      BY <3>1, <3>2
  <2>3. fcFile' \in [FcProcs -> 0..Len(fcFiles')]
    <3>1. \A p \in FcProcs : fcFile[p] \in 0..Len(fcFiles')
      BY <2>2 DEF FcShape
    <3>2. fcFile \in [FcProcs -> 0..Len(fcFiles')] /\ fcTmp' \in 0..Len(fcFiles')
      BY <2>2, <3>1 DEF FcShape
    <3> QED
      BY <1>4, <3>2
  <2>4. fcName' \in 1..Len(fcFiles') /\ fcTmp' \in 0..Len(fcFiles')
    BY <1>2, <2>2 DEF FcShape
  <2>5. /\ fcPc' \in [FcProcs -> {"idle", "open", "close", "rename", "unlink", "size", "read"}]
        /\ fcPc'[w] = "open" /\ \A p \in FcProcs \ {w} : fcPc'[p] = fcPc[p]
    BY <1>1, <1>4 DEF FcShape, Goes
  <2>6. fcAnswer' \in [FcProcs -> FcTold]
    BY <1>4, ToldAre DEF FcShape
  <2>7. fcMet' \in BOOLEAN
    BY <1>4 DEF FcShape
  <2>8. fcFile'[w] # 0 /\ \A p \in FcProcs \ {w} : fcFile'[p] = fcFile[p]
    BY <1>1, <1>4, <2>2 DEF FcShape
  <2>9. \A v \in FcWriters : fcPc'[v] \notin {"size", "read"} /\ (fcPc'[v] \in {"open", "close"} => fcFile'[v] # 0)
    BY <2>5, <2>8 DEF FcShape, FcProcs
  <2>10. \A r \in FcReaders : fcPc'[r] = fcPc[r] /\ fcFile'[r] = fcFile[r]
    BY <1>1, <2>5, <2>8 DEF FcProcs
  <2>11. \A r \in FcReaders : ~Busy(r)' /\ (fcPc'[r] # "idle" => fcFile'[r] # 0)
    BY <2>10 DEF FcShape, Busy
  <2> QED
    BY <1>2, <2>2, <2>3, <2>4, <2>5, <2>6, <2>7, <2>9, <2>11 DEF FcShape
<1> QED
  BY <1>3, <1>4 DEF FcOpen

LEMMA FcOpenKeeps == ASSUME FcInv, NEW w \in FcWriters, FcOpen(w) PROVE FcInv'
<1>1. FcShape /\ FcShape' /\ w \in FcProcs /\ w \notin FcReaders
  BY FcOpenShape, FileContentsAssumption DEF FcInv, FcProcs
<1> SUFFICES ASSUME ~fcMet' PROVE FcAlone'
  BY <1>1 DEF FcInv
<1>2. FcAlone
  <2>1. fcMet' = fcMet \/ fcMet' = (fcMet \/ \E v \in FcWriters \ {w} : Busy(v))
    BY DEF FcOpen
  <2>2. ~fcMet
    BY <1>1, <2>1 DEF FcShape
  <2> QED
    BY <2>2 DEF FcInv
<1>3. fcPc[w] = "idle" /\ fcCalls'[w] = fcCalls[w] + 1 /\ fcCalls[w] \in Nat /\ FcWriter(w)
      /\ \A v \in FcWriters \ {w} : fcCalls'[v] = fcCalls[v]
  BY <1>1, <1>2 DEF FcOpen, FcShape, FcAlone
<1>4. fcFiles[fcName] = Text(w) => fcCalls'[w] > 1
  <2>1. fcCalls[w] = 0 => fcAnswer[w] # <<TRUE>>
    BY <1>3, AnswersDiffer DEF FcWriter
  <2>2. fcCalls[w] <= 1 /\ fcAnswer[w] # <<TRUE>> => fcFiles[fcName] # Text(w)
    BY <1>3 DEF FcWriter
  <2>3. fcFiles[fcName] = Text(w) => fcCalls[w] # 0
    <3>1. fcCalls[w] = 0 => fcCalls[w] <= 1
      BY <1>3
    <3> QED
      BY <2>1, <2>2, <3>1
  <2> QED
    BY <1>3, <2>3
<1>5. CASE UNCHANGED <<fcFiles, fcTmp, fcFile, fcPc, fcMet>> /\ fcAnswer' = [fcAnswer EXCEPT ![w] = <<FALSE>>]
  <2>1. \A v \in FcWriters : FcWriter(v)'
    <3> SUFFICES ASSUME NEW v \in FcWriters PROVE FcWriter(v)'
      OBVIOUS
    <3>1. CASE v = w
      <4>1. fcPc'[w] = "idle" /\ fcCalls'[w] # 0 /\ fcName' = fcName /\ fcFiles' = fcFiles
        BY <1>3, <1>5 DEF FcOpen
      <4>2. fcCalls'[w] <= 1 => fcFiles'[fcName'] # Text(w)
        BY <1>3, <1>4, <4>1
      <4> QED
        BY <3>1, <4>1, <4>2 DEF FcWriter, Busy
    <3>2. CASE v # w
      <4>1. fcAnswer'[v] = fcAnswer[v] /\ fcCalls'[v] = fcCalls[v] /\ UNCHANGED <<fcName, fcSize, fcLost>>
        BY <1>1, <1>3, <1>5, <3>2 DEF FcOpen, FcShape, FcProcs
      <4> QED
        BY <1>2, <1>5, <4>1 DEF FcAlone, FcWriter, Busy
    <3> QED
      BY <3>1, <3>2
  <2>2. \A r \in FcReaders : FcReader(r)'
    <3> SUFFICES ASSUME NEW r \in FcReaders PROVE FcReader(r)'
      OBVIOUS
    <3>1. fcAnswer'[r] = fcAnswer[r] /\ UNCHANGED <<fcSize, fcRead, fcCut, fcLost>>
      BY <1>1, <1>5 DEF FcOpen, FcShape, FcProcs
    <3> QED
      BY <1>2, <1>5, <3>1 DEF FcAlone, FcReader
  <2>3. UNCHANGED <<fcName, fcLost>>
    BY DEF FcOpen
  <2> QED
    BY <1>2, <1>5, <2>1, <2>2, <2>3 DEF FcAlone, Busy
<1>6. ASSUME /\ fcFiles' = IF fcTmp = 0 THEN Append(fcFiles, << >>) ELSE [fcFiles EXCEPT ![fcTmp] = << >>]
             /\ fcTmp' = IF fcTmp = 0 THEN Len(fcFiles) + 1 ELSE fcTmp
             /\ fcFile' = [fcFile EXCEPT ![w] = fcTmp'] /\ Goes(w, "open")
             /\ fcAnswer' = [fcAnswer EXCEPT ![w] = << >>]
             /\ fcMet' = (fcMet \/ \E v \in FcWriters \ {w} : Busy(v))
      PROVE  FcAlone'
  <2>1. \A v \in FcWriters \ {w} : ~Busy(v)
    BY <1>6
  <2>2. \A p \in FcProcs \ {w} : /\ fcPc'[p] = fcPc[p] /\ fcFile'[p] = fcFile[p]
                                 /\ fcSize'[p] = fcSize[p] /\ fcAnswer'[p] = fcAnswer[p]
    BY <1>1, <1>6 DEF FcShape, Goes, FcOpen
  <2>3. /\ fcFiles'[fcTmp'] = << >>
        /\ \A i \in 1..Len(fcFiles) : i # fcTmp => fcFiles'[i] = fcFiles[i]
    <3>1. CASE fcTmp = 0
      BY <1>1, <1>6, <3>1 DEF FcShape
    <3>2. CASE fcTmp # 0
      BY <1>1, <1>6, <3>2 DEF FcShape
    <3> QED
      BY <3>1, <3>2
  <2>4. /\ fcTmp' \in {fcTmp, 0, Len(fcFiles) + 1} /\ fcTmp' # fcName' /\ fcName' = fcName /\ fcRead' = fcRead
        /\ fcFiles'[fcName'] = fcFiles[fcName]
    <3>1. fcName \in 1..Len(fcFiles) /\ fcTmp # fcName /\ Len(fcFiles) \in Nat
      BY <1>1, <1>2 DEF FcShape, FcAlone
    <3>2. fcName' = fcName /\ fcRead' = fcRead
      BY DEF FcOpen
    <3> QED
      BY <1>6, <2>3, <3>1, <3>2
  <2>5. FcMoves(w)
    BY <1>3, <2>1, <2>2, <2>3, <2>4 DEF FcMoves, FcOpen
  <2>6. FcWriter(w)'
    <3>1. fcPc'[w] = "open" /\ fcFile'[w] = fcTmp' /\ fcAnswer'[w] = << >> /\ fcCalls'[w] # 0
      BY <1>1, <1>3, <1>6 DEF FcShape, Goes
    <3>2. fcCalls'[w] <= 1 => fcFiles'[fcName'] # Text(w)
      BY <1>3, <1>4, <2>4
    <3> QED
      BY <2>3, <3>1, <3>2 DEF FcWriter, Busy
  <2> QED
    BY <1>1, <1>2, <2>5, <2>6, FcWriterMoves
<1> QED
  BY <1>5, <1>6 DEF FcOpen

LEMMA FcWriteKeeps == ASSUME FcInv, NEW w \in FcWriters, FcWrite(w) PROVE FcInv'
<1>1. FcShape /\ w \in FcProcs /\ w \notin FcReaders
  BY FileContentsAssumption DEF FcInv, FcProcs
<1>2. PICK n \in 0..Blocks : /\ fcFiles' = Stored(w, 1, n) /\ fcSize' = [fcSize EXCEPT ![w] = Blocks - n]
                             /\ Goes(w, "close") \/ (n < Blocks /\ Goes(w, "unlink"))
  BY DEF FcWrite
<1> DEFINE f == fcFile[w]
           c == fcFiles[f]
<1>3. /\ fcPc[w] = "open" /\ f \in 1..Len(fcFiles) /\ c \in FcContents /\ Len(c) \in Nat /\ Len(fcFiles) \in Nat
      /\ Blocks \in Nat /\ n \in Nat
  <2>1. fcPc[w] = "open" /\ f # 0
    BY <1>1 DEF FcWrite, FcShape
  <2>2. f \in 0..Len(fcFiles) /\ Len(fcFiles) \in Nat /\ Blocks \in Nat
        /\ \A i \in 1..Len(fcFiles) : fcFiles[i] \in FcContents /\ Len(fcFiles[i]) \in Nat
    BY <1>1, FcKnown
  <2> HIDE DEF f
  <2> QED
    BY <2>1, <2>2
<1>4. /\ fcFiles' = [fcFiles EXCEPT ![f] = Over(c, w, 1, n)] /\ Over(c, w, 1, n) \in FcContents
      /\ Len(c) = 0 => Len(Over(c, w, 1, n)) = n /\ \A k \in 1..n : Over(c, w, 1, n)[k] = <<w, k>>
  <2> HIDE DEF c, f
  <2>1. fcFiles' = [fcFiles EXCEPT ![f] = Over(c, w, 1, n)]
    BY <1>2, StoredIs DEF c, f
  <2> DEFINE m == IF Len(c) <= n THEN n ELSE Len(c)
             o == Over(c, w, 1, n)
  <2>2. Len(c) = 0 => m = n
    BY <1>3
  <2> HIDE DEF m
  <2>3. /\ o \in FcContents /\ Len(o) = m
        /\ \A k \in 1..m : o[k] = IF k \in 1..n THEN <<w, k>> ELSE IF k <= Len(c) THEN c[k] ELSE <<"zero", k>>
    BY <1>3, OverIs DEF m
  <2> HIDE DEF o
  <2>4. ASSUME Len(c) = 0 PROVE Len(o) = n /\ \A k \in 1..n : o[k] = <<w, k>>
    BY <2>2, <2>3, <2>4
  <2> QED
    BY <2>1, <2>3, <2>4 DEF o
<1>5. /\ fcFiles' \in Seq(FcContents) /\ Len(fcFiles') = Len(fcFiles) /\ fcFiles'[f] = Over(c, w, 1, n)
      /\ \A i \in 1..Len(fcFiles) : i # f => fcFiles'[i] = fcFiles[i]
  <2> HIDE DEF c, f
  <2>1. fcFiles \in Seq(FcContents)
    BY <1>1 DEF FcShape
  <2> QED
    BY <1>3, <1>4, <2>1
<1>6. /\ fcPc' \in [FcProcs -> {"idle", "open", "close", "rename", "unlink", "size", "read"}]
      /\ fcPc'[w] \in {"close", "unlink"} /\ \A p \in FcProcs \ {w} : fcPc'[p] = fcPc[p]
  BY <1>1, <1>2 DEF FcShape, Goes
<1>7. /\ fcSize' \in [FcProcs -> 0..Blocks] /\ fcSize'[w] = Blocks - n
      /\ \A p \in FcProcs \ {w} : fcSize'[p] = fcSize[p]
  BY <1>1, <1>2, <1>3 DEF FcShape
<1>8. UNCHANGED <<fcName, fcTmp, fcFile, fcRead, fcAnswer, fcCalls, fcMet, fcLost, fcCut>>
  BY DEF FcWrite
<1> HIDE DEF c
<1>9. FcShape'
  <2>1. \A v \in FcWriters : fcPc'[v] \notin {"size", "read"} /\ (fcPc'[v] \in {"open", "close"} => fcFile'[v] # 0)
    BY <1>1, <1>3, <1>6, <1>8 DEF FcShape, FcProcs
  <2>2. \A r \in FcReaders : ~Busy(r)' /\ (fcPc'[r] # "idle" => fcFile'[r] # 0)
    BY <1>1, <1>6, <1>8 DEF FcShape, FcProcs, Busy
  <2> HIDE DEF f
  <2> QED
    BY <1>1, <1>5, <1>6, <1>7, <1>8, <2>1, <2>2 DEF FcShape
<1>10. ASSUME FcAlone PROVE FcAlone'
  <2>1. f = fcTmp /\ c = << >> /\ fcAnswer[w] = << >> /\ FcWriter(w) /\ fcTmp # fcName
    BY <1>3, <1>10 DEF FcAlone, FcWriter, Busy, c
  <2>2. \A v \in FcWriters \ {w} : ~Busy(v)
    BY <1>3, <1>10 DEF FcAlone, Busy
  <2>3. fcFiles'[fcName'] = fcFiles[fcName]
    BY <1>1, <1>5, <1>8, <2>1 DEF FcShape
  <2>4. FcMoves(w)
    BY <1>5, <1>6, <1>7, <1>8, <2>1, <2>2 DEF FcMoves
  <2>5. FcWriter(w)'
    <3>1. Len(c) = 0
      BY <2>1
    <3>2. Len(fcFiles'[fcTmp']) = n /\ \A k \in 1..n : fcFiles'[fcTmp'][k] = <<w, k>>
      BY <1>3, <1>4, <1>5, <1>8, <2>1, <3>1
    <3>3. Blocks - fcSize'[w] = n
      BY <1>3, <1>7
    <3>4. fcCalls'[w] <= 1 /\ fcAnswer'[w] # <<TRUE>> => fcFiles'[fcName'] # Text(w)
      BY <1>8, <2>1, <2>3 DEF FcWriter
    <3>5. fcCalls'[w] # 0 /\ fcAnswer'[w] = << >> /\ fcFile'[w] = fcTmp'
      BY <1>3, <1>8, <2>1 DEF FcWriter
    <3> QED
      BY <1>6, <3>2, <3>3, <3>4, <3>5 DEF FcWriter, Busy
  <2> QED
    BY <1>1, <1>10, <2>4, <2>5, FcWriterMoves
<1> QED
  BY <1>8, <1>9, <1>10 DEF FcInv

LEMMA FcCloseKeeps == ASSUME FcInv, NEW w \in FcWriters, FcClose(w) PROVE FcInv'
<1>1. FcShape /\ w \in FcProcs /\ w \notin FcReaders
  BY FileContentsAssumption DEF FcInv, FcProcs
<1> DEFINE f == fcFile[w]
           c == fcFiles[f]
           b == Blocks - fcSize[w] + 1
<1>2. /\ fcPc[w] = "close" /\ f \in 1..Len(fcFiles) /\ c \in FcContents /\ Len(c) \in Nat /\ Len(fcFiles) \in Nat
      /\ Len(c) <= Blocks /\ Blocks \in Nat /\ b \in Nat /\ fcSize[w] \in Nat
  <2>1. fcPc[w] = "close" /\ f # 0
    BY <1>1 DEF FcClose, FcShape
  <2>2. f \in 0..Len(fcFiles) /\ Len(fcFiles) \in Nat /\ Blocks \in Nat
        /\ \A i \in 1..Len(fcFiles) : fcFiles[i] \in FcContents /\ Len(fcFiles[i]) \in Nat /\ Len(fcFiles[i]) <= Blocks
    BY <1>1, FcKnown
  <2>3. fcSize[w] \in 0..Blocks
    BY <1>1, FcKnown
  <2>4. b \in Nat /\ fcSize[w] \in Nat
    BY <2>2, <2>3
  <2> HIDE DEF f, b
  <2> QED
    BY <2>1, <2>2, <2>4
<1>3. /\ Stored(w, b, Blocks) = [fcFiles EXCEPT ![f] = Over(c, w, b, Blocks)] /\ Over(c, w, b, Blocks) \in FcContents
      /\ Len(Over(c, w, b, Blocks)) = Blocks
      /\ \A k \in 1..Blocks : Over(c, w, b, Blocks)[k] = IF k \in b..Blocks THEN <<w, k>> ELSE IF k <= Len(c) THEN c[k] ELSE <<"zero", k>>
  <2>1. Stored(w, b, Blocks) = [fcFiles EXCEPT ![f] = Over(c, w, b, Blocks)]
    BY StoredIs
  <2> HIDE DEF b, c, f
  <2> DEFINE z == Blocks
  <2>2. z \in 0..Blocks /\ z = IF Len(c) <= z THEN z ELSE Len(c)
    BY <1>2
  <2>3. c \in FcContents /\ b \in Nat
    BY <1>2
  <2> HIDE DEF z
  <2>4. /\ Over(c, w, b, z) \in FcContents /\ Len(Over(c, w, b, z)) = z
        /\ \A k \in 1..z : Over(c, w, b, z)[k] = IF k \in b..z THEN <<w, k>> ELSE IF k <= Len(c) THEN c[k] ELSE <<"zero", k>>
    BY <2>2, <2>3, OverIs
  <2> QED
    BY <2>1, <2>4 DEF z
<1>4. /\ fcPc' \in [FcProcs -> {"idle", "open", "close", "rename", "unlink", "size", "read"}]
      /\ fcPc'[w] = "rename" /\ \A p \in FcProcs \ {w} : fcPc'[p] = fcPc[p]
  BY <1>1 DEF FcClose, FcShape, Goes
<1>5. /\ fcSize' \in [FcProcs -> 0..Blocks] /\ fcFile' \in [FcProcs -> 0..Len(fcFiles)]
      /\ \A p \in FcProcs \ {w} : fcSize'[p] = fcSize[p] /\ fcFile'[p] = fcFile[p]
  BY <1>1, <1>2 DEF FcClose, FcShape
<1>6. UNCHANGED <<fcName, fcTmp, fcRead, fcAnswer, fcCalls, fcMet, fcCut>>
  BY DEF FcClose
<1>7. \/ fcFiles' = Stored(w, b, Blocks) /\ fcLost' = fcLost
      \/ fcFiles' = fcFiles /\ fcLost' = TRUE
  BY DEF FcClose
<1> HIDE DEF b, c
<1>8. /\ fcFiles' \in Seq(FcContents) /\ Len(fcFiles') = Len(fcFiles) /\ fcLost' \in BOOLEAN
      /\ \A i \in 1..Len(fcFiles) : i # f => fcFiles'[i] = fcFiles[i]
      /\ fcFiles' = Stored(w, b, Blocks) => fcFiles'[f] = Over(c, w, b, Blocks)
  <2> HIDE DEF f
  <2>1. fcFiles \in Seq(FcContents) /\ fcLost \in BOOLEAN
    BY <1>1 DEF FcShape
  <2>2. CASE fcFiles' = Stored(w, b, Blocks) /\ fcLost' = fcLost
    BY <1>2, <1>3, <2>1, <2>2
  <2>3. CASE fcFiles' = fcFiles /\ fcLost' = TRUE
    <3>1. fcFiles = Stored(w, b, Blocks) => fcFiles[f] = Over(c, w, b, Blocks)
      BY <1>2, <1>3, <2>1
    <3> QED
      BY <2>1, <2>3, <3>1
  <2> QED
    BY <1>7, <2>2, <2>3
<1>9. FcShape'
  <2>1. \A v \in FcWriters : fcPc'[v] \notin {"size", "read"} /\ (fcPc'[v] \in {"open", "close"} => fcFile'[v] # 0)
    BY <1>1, <1>4, <1>5 DEF FcShape, FcProcs
  <2>2. \A r \in FcReaders : ~Busy(r)' /\ (fcPc'[r] # "idle" => fcFile'[r] # 0)
    BY <1>1, <1>4, <1>5 DEF FcShape, FcProcs, Busy
  <2> HIDE DEF f
  <2> QED
    BY <1>1, <1>4, <1>5, <1>6, <1>8, <2>1, <2>2 DEF FcShape
<1>10. ASSUME FcAlone PROVE FcAlone'
  <2>0. Busy(w)
    BY <1>2 DEF Busy
  <2>1. /\ f = fcTmp /\ fcAnswer[w] = << >> /\ FcWriter(w) /\ fcTmp # fcName /\ Len(c) = b - 1 /\ f # 0
        /\ \A k \in 1..(b - 1) : c[k] = <<w, k>>
    <3>1. FcWriter(w) /\ fcAnswer[w] = << >> /\ fcTmp # fcName
      BY <1>1, <1>10, <2>0, FcAtWork
    <3>2. /\ f = fcTmp /\ Len(fcFiles[fcTmp]) = Blocks - fcSize[w]
          /\ \A i \in 1..(Blocks - fcSize[w]) : fcFiles[fcTmp][i] = <<w, i>>
      BY <1>2, <3>1 DEF FcWriter
    <3>3. b - 1 = Blocks - fcSize[w] /\ f # 0
      BY <1>2, SMTT(30) DEF b
    <3>4. c = fcFiles[fcTmp]
      BY <3>2 DEF c
    <3> QED
      BY <3>1, <3>2, <3>3, <3>4
  <2>2. \A v \in FcWriters \ {w} : ~Busy(v)
    BY <1>1, <1>10, <2>0, FcAtWork
  <2>3. fcFiles'[fcName'] = fcFiles[fcName]
    BY <1>1, <1>6, <1>8, <2>1 DEF FcShape
  <2>4. FcMoves(w)
    <3>1. fcLost => fcLost'
      BY <1>1, <1>7 DEF FcShape
    <3> QED
      BY <1>4, <1>5, <1>6, <1>8, <2>1, <2>2, <3>1 DEF FcMoves
  <2>5. FcFront(fcFiles'[fcTmp'], w, fcLost')
    <3>1. ASSUME fcFiles' = Stored(w, b, Blocks) PROVE FcFront(fcFiles'[fcTmp'], w, fcLost')
      <4>1. \A k \in 1..Blocks : Over(c, w, b, Blocks)[k] = <<w, k>>
        BY <1>2, <1>3, <2>1
      <4>2. fcFiles'[fcTmp'] = Over(c, w, b, Blocks)
        BY <1>6, <1>8, <2>1, <3>1
      <4> QED
        BY <1>2, <1>3, <4>1, <4>2 DEF FcFront
    <3>2. ASSUME fcFiles' = fcFiles, fcLost' = TRUE PROVE FcFront(fcFiles'[fcTmp'], w, fcLost')
      <4>1. fcFiles'[fcTmp'] = c
        BY <1>6, <2>1, <3>2 DEF c
      <4> QED
        BY <1>2, <2>1, <3>2, <4>1 DEF FcFront
    <3> QED
      BY <1>7, <3>1, <3>2
  <2>6. FcWriter(w)'
    <3>1. fcTmp' # 0
      BY <1>6, <2>1
    <3>2. fcCalls'[w] <= 1 /\ fcAnswer'[w] # <<TRUE>> => fcFiles'[fcName'] # Text(w)
      BY <1>6, <2>1, <2>3 DEF FcWriter
    <3>3. fcCalls'[w] # 0 /\ fcAnswer'[w] = << >>
      BY <1>2, <1>6, <2>1 DEF FcWriter
    <3> QED
      BY <1>4, <2>5, <3>1, <3>2, <3>3 DEF FcWriter, Busy, Text
  <2> QED
    BY <1>1, <1>10, <2>4, <2>6, FcWriterMoves
<1> QED
  BY <1>6, <1>9, <1>10 DEF FcInv

LEMMA FcRenameKeeps == ASSUME FcInv, NEW w \in FcWriters, FcRename(w) PROVE FcInv'
<1>1. FcShape /\ w \in FcProcs /\ w \notin FcReaders /\ fcPc[w] = "rename"
  BY FileContentsAssumption DEF FcInv, FcProcs, FcRename
<1>2. UNCHANGED <<fcFiles, fcFile, fcSize, fcRead, fcCalls, fcMet, fcLost, fcCut>>
  BY DEF FcRename
<1>3. /\ fcPc' \in [FcProcs -> {"idle", "open", "close", "rename", "unlink", "size", "read"}]
      /\ fcPc'[w] \in {"idle", "unlink"} /\ \A p \in FcProcs \ {w} : fcPc'[p] = fcPc[p]
  BY <1>1 DEF FcRename, FcShape, Goes
<1>4. /\ fcAnswer' \in [FcProcs -> FcTold]
      /\ \A p \in FcProcs \ {w} : fcAnswer'[p] = fcAnswer[p]
  BY <1>1, ToldAre, ZenonT(60) DEF FcRename, FcShape
<1>5. \/ fcTmp # 0 /\ fcName' = fcTmp /\ fcTmp' = 0 /\ fcAnswer'[w] = <<TRUE>> /\ fcPc'[w] = "idle"
      \/ fcPc'[w] = "unlink" /\ fcName' = fcName /\ fcTmp' = fcTmp /\ fcAnswer'[w] = fcAnswer[w]
  BY <1>1 DEF FcRename, FcShape, Goes
<1>6. FcShape'
  <2>1. \A v \in FcWriters : fcPc'[v] \notin {"size", "read"} /\ (fcPc'[v] \in {"open", "close"} => fcFile'[v] # 0)
    BY <1>1, <1>2, <1>3 DEF FcShape, FcProcs
  <2>2. \A r \in FcReaders : ~Busy(r)' /\ (fcPc'[r] # "idle" => fcFile'[r] # 0)
    BY <1>1, <1>2, <1>3 DEF FcShape, FcProcs, Busy
  <2>3. fcName' \in 1..Len(fcFiles) /\ fcTmp' \in 0..Len(fcFiles)
    <3>1. Len(fcFiles) \in Nat /\ fcName \in 1..Len(fcFiles) /\ fcTmp \in 0..Len(fcFiles)
      BY <1>1, FcKnown DEF FcShape
    <3>2. (fcName' = fcName \/ (fcTmp # 0 /\ fcName' = fcTmp)) /\ (fcTmp' = 0 \/ fcTmp' = fcTmp)
      BY <1>5
    <3> QED
      BY <3>1, <3>2
  <2> QED
    BY <1>1, <1>2, <1>3, <1>4, <2>1, <2>2, <2>3 DEF FcShape
<1>7. ASSUME FcAlone PROVE FcAlone'
  <2>0. Busy(w)
    BY <1>1 DEF Busy
  <2>1. /\ FcWriter(w) /\ fcTmp # fcName /\ fcName # 0 /\ fcAnswer[w] = << >>
        /\ fcCalls[w] <= 1 => fcFiles[fcName] # Text(w)
    BY <1>1, <1>7, <2>0, FcAtWork
  <2>2. (\A v \in FcWriters \ {w} : ~Busy(v)) /\ fcTmp # 0 /\ FcFront(fcFiles[fcTmp], w, fcLost)
    BY <1>1, <1>7, <2>0, <2>1, FcAtWork DEF FcWriter
  <2>3. FcMoves(w)
    BY <1>2, <1>3, <1>4, <1>5, <2>1, <2>2 DEF FcMoves
  <2>4. fcCalls[w] # 0
    BY <1>1, <1>7, <2>0, FcAtWork
  <2>5. fcCalls'[w] <= 1 /\ fcAnswer'[w] # <<TRUE>> => fcFiles'[fcName'] # Text(w)
    BY <1>2, <1>5, <2>1
  <2>6. fcPc'[w] = "unlink" => fcAnswer'[w] = << >>
    BY <1>5, <2>1
  <2>7. FcWriter(w)'
    BY <1>2, <1>3, <2>4, <2>5, <2>6 DEF FcWriter, Busy
  <2> QED
    BY <1>1, <1>7, <2>3, <2>7, FcWriterMoves
<1> QED
  BY <1>2, <1>6, <1>7 DEF FcInv

LEMMA FcUnlinkKeeps == ASSUME FcInv, NEW w \in FcWriters, FcUnlink(w) PROVE FcInv'
<1>1. FcShape /\ w \in FcProcs /\ w \notin FcReaders /\ Busy(w)
  BY FileContentsAssumption DEF FcInv, FcProcs, FcUnlink, Busy
<1>2. UNCHANGED <<fcFiles, fcName, fcRead, fcCalls, fcMet, fcLost, fcCut>> /\ fcTmp' \in {0, fcTmp}
  BY DEF FcUnlink
<1>3. /\ fcPc' \in [FcProcs -> {"idle", "open", "close", "rename", "unlink", "size", "read"}]
      /\ fcPc'[w] = "idle" /\ \A p \in FcProcs \ {w} : fcPc'[p] = fcPc[p]
  BY <1>1 DEF FcUnlink, FcShape, Goes
<1>4. /\ fcAnswer' \in [FcProcs -> FcTold]
      /\ fcAnswer'[w] \in {<<FALSE>>, fcAnswer[w]} /\ \A p \in FcProcs \ {w} : fcAnswer'[p] = fcAnswer[p]
  BY <1>1, ToldAre DEF FcUnlink, FcShape
<1>5. /\ fcFile' \in [FcProcs -> 0..Len(fcFiles)] /\ fcSize' \in [FcProcs -> 0..Blocks]
      /\ \A p \in FcProcs \ {w} : fcFile'[p] = fcFile[p] /\ fcSize'[p] = fcSize[p]
  <2>1. 0 \in 0..Len(fcFiles) /\ 0 \in 0..Blocks
    BY <1>1, FcKnown
  <2> QED
    BY <1>1, <2>1 DEF FcUnlink, FcShape
<1>6. FcShape'
  <2>1. \A v \in FcWriters : fcPc'[v] \notin {"size", "read"} /\ (fcPc'[v] \in {"open", "close"} => fcFile'[v] # 0)
    BY <1>1, <1>3, <1>5 DEF FcShape, FcProcs
  <2>2. \A r \in FcReaders : ~Busy(r)' /\ (fcPc'[r] # "idle" => fcFile'[r] # 0)
    BY <1>1, <1>3, <1>5 DEF FcShape, FcProcs, Busy
  <2>3. fcTmp' \in 0..Len(fcFiles)
    BY <1>1, <1>2 DEF FcShape
  <2> QED
    BY <1>1, <1>2, <1>3, <1>4, <1>5, <2>1, <2>2, <2>3 DEF FcShape
<1>7. ASSUME FcAlone PROVE FcAlone'
  <2>1. fcTmp # fcName /\ fcName # 0 /\ (fcCalls[w] <= 1 => fcFiles[fcName] # Text(w))
    BY <1>1, <1>7, FcAtWork
  <2>2. (\A v \in FcWriters \ {w} : ~Busy(v)) /\ fcCalls[w] # 0
    BY <1>1, <1>7, FcAtWork
  <2>3. FcMoves(w)
    BY <1>2, <1>3, <1>4, <1>5, <2>1, <2>2 DEF FcMoves
  <2>4. fcCalls[w] # 0
    BY <2>2
  <2>5. fcCalls'[w] <= 1 /\ fcAnswer'[w] # <<TRUE>> => fcFiles'[fcName'] # Text(w)
    BY <1>2, <2>1
  <2>6. FcWriter(w)'
    BY <1>2, <1>3, <2>4, <2>5 DEF FcWriter, Busy
  <2> QED
    BY <1>1, <1>7, <2>3, <2>6, FcWriterMoves
<1> QED
  BY <1>2, <1>6, <1>7 DEF FcInv

LEMMA FcCrashKeeps == ASSUME FcInv, NEW w \in FcWriters, FcCrash(w) PROVE FcInv'
<1>1. FcShape /\ w \in FcProcs /\ w \notin FcReaders /\ Busy(w)
  BY FileContentsAssumption DEF FcInv, FcProcs, FcCrash, Busy
<1>2. UNCHANGED <<fcFiles, fcName, fcRead, fcCalls, fcMet, fcLost, fcCut>> /\ fcTmp' \in {0, fcTmp}
  BY DEF FcCrash
<1>3. /\ fcPc' \in [FcProcs -> {"idle", "open", "close", "rename", "unlink", "size", "read"}]
      /\ fcPc'[w] = "idle" /\ \A p \in FcProcs \ {w} : fcPc'[p] = fcPc[p]
  BY <1>1 DEF FcCrash, FcShape, Goes
<1>4. /\ fcAnswer' \in [FcProcs -> FcTold]
      /\ fcAnswer'[w] \in {<<FALSE>>, fcAnswer[w]} /\ \A p \in FcProcs \ {w} : fcAnswer'[p] = fcAnswer[p]
  BY <1>1, ToldAre DEF FcCrash, FcShape
<1>5. /\ fcFile' \in [FcProcs -> 0..Len(fcFiles)] /\ fcSize' \in [FcProcs -> 0..Blocks]
      /\ \A p \in FcProcs \ {w} : fcFile'[p] = fcFile[p] /\ fcSize'[p] = fcSize[p]
  <2>1. 0 \in 0..Len(fcFiles) /\ 0 \in 0..Blocks
    BY <1>1, FcKnown
  <2> QED
    BY <1>1, <2>1 DEF FcCrash, FcShape
<1>6. FcShape'
  <2>1. \A v \in FcWriters : fcPc'[v] \notin {"size", "read"} /\ (fcPc'[v] \in {"open", "close"} => fcFile'[v] # 0)
    BY <1>1, <1>3, <1>5 DEF FcShape, FcProcs
  <2>2. \A r \in FcReaders : ~Busy(r)' /\ (fcPc'[r] # "idle" => fcFile'[r] # 0)
    BY <1>1, <1>3, <1>5 DEF FcShape, FcProcs, Busy
  <2>3. fcTmp' \in 0..Len(fcFiles)
    BY <1>1, <1>2 DEF FcShape
  <2> QED
    BY <1>1, <1>2, <1>3, <1>4, <1>5, <2>1, <2>2, <2>3 DEF FcShape
<1>7. ASSUME FcAlone PROVE FcAlone'
  <2>1. fcTmp # fcName /\ fcName # 0 /\ (fcCalls[w] <= 1 => fcFiles[fcName] # Text(w))
    BY <1>1, <1>7, FcAtWork
  <2>2. (\A v \in FcWriters \ {w} : ~Busy(v)) /\ fcCalls[w] # 0
    BY <1>1, <1>7, FcAtWork
  <2>3. FcMoves(w)
    BY <1>2, <1>3, <1>4, <1>5, <2>1, <2>2 DEF FcMoves
  <2>4. fcCalls[w] # 0
    BY <2>2
  <2>5. fcCalls'[w] <= 1 /\ fcAnswer'[w] # <<TRUE>> => fcFiles'[fcName'] # Text(w)
    BY <1>2, <2>1
  <2>6. FcWriter(w)'
    BY <1>2, <1>3, <2>4, <2>5 DEF FcWriter, Busy
  <2> QED
    BY <1>1, <1>7, <2>3, <2>6, FcWriterMoves
<1> QED
  BY <1>2, <1>6, <1>7 DEF FcInv

-----------------------------------------------------------------------------
(* g_file_get_contents *)

LEMMA FcGetKeeps == ASSUME FcInv, NEW r \in FcReaders, FcGet(r) PROVE FcInv'
<1>1. FcShape /\ r \in FcProcs /\ r \notin FcWriters /\ fcPc[r] = "idle"
  BY FileContentsAssumption DEF FcInv, FcProcs, FcGet
<1>2. UNCHANGED <<fcFiles, fcName, fcTmp, fcSize, fcRead, fcCalls, fcMet, fcLost>>
  BY DEF FcGet
<1>3. /\ fcPc' \in [FcProcs -> {"idle", "open", "close", "rename", "unlink", "size", "read"}]
      /\ fcPc'[r] \in {"size", "idle"} /\ \A p \in FcProcs \ {r} : fcPc'[p] = fcPc[p]
  BY <1>1 DEF FcGet, FcShape, Goes
<1>4. /\ fcAnswer' \in [FcProcs -> FcTold]
      /\ fcAnswer'[r] \in {<< >>, <<FALSE>>} /\ \A p \in FcProcs \ {r} : fcAnswer'[p] = fcAnswer[p]
  <2>1. PICK a \in {<< >>, <<FALSE>>} : fcAnswer' = [fcAnswer EXCEPT ![r] = a]
    BY DEF FcGet
  <2>2. fcAnswer \in [FcProcs -> FcTold] /\ a \in FcTold
    BY <1>1, ToldAre DEF FcShape
  <2> QED
    BY <1>1, <2>1, <2>2
<1>5. /\ fcFile' \in [FcProcs -> 0..Len(fcFiles)] /\ (fcPc'[r] = "size" => fcFile'[r] = fcName) /\ fcName # 0
      /\ \A p \in FcProcs \ {r} : fcFile'[p] = fcFile[p]
  <2>1. fcName \in 0..Len(fcFiles) /\ fcName # 0
    BY <1>1, FcKnown DEF FcShape
  <2>2. CASE fcFile' = [fcFile EXCEPT ![r] = fcName]
    BY <1>1, <2>1, <2>2 DEF FcShape
  <2>3. CASE UNCHANGED <<fcPc, fcFile>>
    BY <1>1, <2>1, <2>3 DEF FcShape
  <2> QED
    BY <2>2, <2>3 DEF FcGet
<1>6. /\ fcCut' \in [FcReaders -> BOOLEAN] /\ ~fcCut'[r]
      /\ \A p \in FcReaders \ {r} : fcCut'[p] = fcCut[p]
  BY <1>1 DEF FcGet, FcShape
<1>7. FcShape'
  <2>1. \A v \in FcWriters : fcPc'[v] \notin {"size", "read"} /\ (fcPc'[v] \in {"open", "close"} => fcFile'[v] # 0)
    BY <1>1, <1>3, <1>5 DEF FcShape, FcProcs
  <2>2. \A p \in FcReaders : ~Busy(p)' /\ (fcPc'[p] # "idle" => fcFile'[p] # 0)
    BY <1>1, <1>3, <1>5 DEF FcShape, FcProcs, Busy
  <2> QED
    BY <1>1, <1>2, <1>3, <1>4, <1>5, <1>6, <2>1, <2>2 DEF FcShape
<1>8. ASSUME FcAlone PROVE FcAlone'
  <2>1. fcTmp # fcName /\ FcWhole(fcFiles[fcName], fcLost) /\ fcRead[r] = << >>
    BY <1>1, <1>8 DEF FcAlone, FcReader
  <2>2. FcReader(r)'
    BY <1>2, <1>3, <1>4, <1>5, <1>6, <2>1 DEF FcReader
  <2> QED
    BY <1>1, <1>2, <1>3, <1>4, <1>5, <1>6, <1>8, <2>2, FcReaderMoves
<1> QED
  BY <1>2, <1>7, <1>8 DEF FcInv

LEMMA FcMeasureKeeps == ASSUME FcInv, NEW r \in FcReaders, FcMeasure(r) PROVE FcInv'
<1>1. FcShape /\ r \in FcProcs /\ r \notin FcWriters /\ fcPc[r] = "size"
  BY FileContentsAssumption DEF FcInv, FcProcs, FcMeasure
<1>2. UNCHANGED <<fcFiles, fcName, fcTmp, fcRead, fcCalls, fcMet, fcLost, fcCut>>
  BY DEF FcMeasure
<1>3. /\ fcPc' \in [FcProcs -> {"idle", "open", "close", "rename", "unlink", "size", "read"}]
      /\ fcPc'[r] \in {"read", "idle"} /\ \A p \in FcProcs \ {r} : fcPc'[p] = fcPc[p]
  BY <1>1 DEF FcMeasure, FcShape, Goes
<1>4. fcFile[r] \in 1..Len(fcFiles) /\ Len(fcFiles[fcFile[r]]) \in 0..Blocks
  <2>1. fcFile[r] # 0
    BY <1>1 DEF FcShape
  <2>2. fcFile[r] \in 0..Len(fcFiles) /\ Len(fcFiles) \in Nat
    BY <1>1, FcKnown
  <2>3. fcFile[r] \in 1..Len(fcFiles)
    BY <2>1, <2>2
  <2> QED
    BY <1>1, <2>3, FcKnown
<1>5. /\ fcSize' \in [FcProcs -> 0..Blocks] /\ (fcPc'[r] = "read" => fcSize'[r] = Len(fcFiles[fcFile[r]]))
      /\ fcFile' \in [FcProcs -> 0..Len(fcFiles)] /\ (fcPc'[r] = "read" => fcFile'[r] = fcFile[r])
      /\ \A p \in FcProcs \ {r} : fcSize'[p] = fcSize[p] /\ fcFile'[p] = fcFile[p]
  <2>1. /\ 0 \in 0..Len(fcFiles) /\ fcFile \in [FcProcs -> 0..Len(fcFiles)] /\ fcSize \in [FcProcs -> 0..Blocks]
        /\ DOMAIN fcPc = FcProcs
    BY <1>1, FcKnown DEF FcShape
  <2> DEFINE m == Len(fcFiles[fcFile[r]])
  <2>2. m \in 0..Blocks
    BY <1>4
  <2>3. CASE fcSize' = [fcSize EXCEPT ![r] = m] /\ UNCHANGED <<fcFile, fcAnswer>>
    <3> HIDE DEF m
    <3>1. fcSize' \in [FcProcs -> 0..Blocks] /\ fcSize'[r] = m /\ \A p \in FcProcs \ {r} : fcSize'[p] = fcSize[p]
      BY <1>1, <2>1, <2>2, <2>3
    <3> QED
      BY <2>1, <2>3, <3>1 DEF m
  <2>4. CASE fcPc' = [fcPc EXCEPT ![r] = "idle"] /\ fcFile' = [fcFile EXCEPT ![r] = 0] /\ UNCHANGED fcSize
    <3>1. fcPc'[r] # "read"
      BY <1>1, <2>1, <2>4
    <3>2. fcFile' \in [FcProcs -> 0..Len(fcFiles)] /\ \A p \in FcProcs \ {r} : fcFile'[p] = fcFile[p]
      BY <1>1, <2>1, <2>4
    <3> QED
      BY <2>1, <2>4, <3>1, <3>2
  <2> QED
    BY <2>3, <2>4 DEF FcMeasure, Goes
<1>7. /\ fcAnswer' \in [FcProcs -> FcTold] /\ fcAnswer'[r] \in {fcAnswer[r], <<FALSE>>}
      /\ \A p \in FcProcs \ {r} : fcAnswer'[p] = fcAnswer[p]
  <2>1. fcAnswer \in [FcProcs -> FcTold] /\ <<FALSE>> \in FcTold
    BY <1>1, ToldAre DEF FcShape
  <2>2. fcAnswer' = fcAnswer \/ fcAnswer' = [fcAnswer EXCEPT ![r] = <<FALSE>>]
    BY DEF FcMeasure
  <2> QED
    BY <1>1, <2>1, <2>2
<1>8. FcShape'
  <2>1. \A v \in FcWriters : fcPc'[v] \notin {"size", "read"} /\ (fcPc'[v] \in {"open", "close"} => fcFile'[v] # 0)
    BY <1>1, <1>3, <1>5 DEF FcShape, FcProcs
  <2>2. \A p \in FcReaders : ~Busy(p)' /\ (fcPc'[p] # "idle" => fcFile'[p] # 0)
    <3>1. fcFile[r] # 0 /\ r \in FcReaders /\ FcReaders \subseteq FcProcs
      BY <1>1 DEF FcShape, FcProcs
    <3>2. fcPc'[r] # "idle" => fcFile'[r] # 0
      BY <1>3, <1>5, <3>1
    <3>3. ~Busy(r)'
      BY <1>3 DEF Busy
    <3>4. ASSUME NEW p \in FcReaders \ {r} PROVE ~Busy(p)' /\ (fcPc'[p] # "idle" => fcFile'[p] # 0)
      BY <1>1, <1>3, <1>5, <3>1 DEF FcShape, Busy
    <3> QED
      BY <3>2, <3>3, <3>4
  <2> QED
    BY <1>1, <1>2, <1>3, <1>5, <1>7, <2>1, <2>2 DEF FcShape
<1>9. ASSUME FcAlone PROVE FcAlone'
  <2>1. /\ fcFile[r] # fcTmp /\ FcWhole(fcFiles[fcFile[r]], fcLost) /\ fcRead[r] = << >> /\ ~fcCut[r]
        /\ fcAnswer[r] \in {<< >>, <<FALSE>>} \/ FcAnswerIs(fcAnswer[r], fcCut[r], fcLost)
    BY <1>1, <1>9 DEF FcAlone, FcReader
  <2>2. Len(<< >>) = 0 /\ Blocks \in Nat
    BY FileContentsAssumption
  <2>3. fcAnswer'[r] \in {<< >>, <<FALSE>>} \/ FcAnswerIs(fcAnswer'[r], fcCut'[r], fcLost')
    <3>1. fcCut' = fcCut /\ fcLost' = fcLost
      BY <1>2
    <3>2. CASE fcAnswer'[r] = <<FALSE>>
      BY <3>2
    <3>3. CASE fcAnswer'[r] = fcAnswer[r]
      BY <2>1, <3>1, <3>3
    <3> QED
      BY <1>7, <3>2, <3>3
  <2>4. fcPc'[r] \in {"size", "read"} =>
          /\ fcFile'[r] # fcTmp' /\ FcWhole(fcFiles'[fcFile'[r]], fcLost') /\ ~fcCut'[r]
          /\ fcSize'[r] = Len(fcFiles'[fcFile'[r]])
    BY <1>2, <1>3, <1>5, <2>1
  <2>5. fcRead'[r] = << >>
    BY <1>2, <2>1
  <2>6. FcReader(r)'
    <3>1. fcPc'[r] = "read" => Len(fcRead'[r]) <= fcSize'[r] /\ \A i \in 1..Len(fcRead'[r]) : FALSE
      BY <1>4, <1>5, <2>2, <2>5
    <3> QED
      BY <2>3, <2>4, <2>5, <3>1 DEF FcReader
  <2> QED
    BY <1>1, <1>2, <1>3, <1>5, <1>7, <1>9, <2>6, FcReaderMoves
<1> QED
  BY <1>2, <1>8, <1>9 DEF FcInv

\* A reader that read something more.
LEMMA FcReadOn ==
  ASSUME FcInv, NEW r \in FcReaders, fcPc[r] = "read",
         UNCHANGED <<fcFiles, fcName, fcTmp, fcPc, fcFile, fcSize, fcAnswer, fcCalls, fcMet, fcLost, fcCut>>,
         NEW m \in Nat, Len(fcRead[r]) < m, m <= Len(fcFiles[fcFile[r]]), m <= fcSize[r],
         fcRead' = [fcRead EXCEPT ![r] = @ \o SubSeq(fcFiles[fcFile[r]], Len(@) + 1, m)]
  PROVE  FcInv'
<1> DEFINE c == fcFiles[fcFile[r]]
           d == fcRead[r]
           t == SubSeq(c, Len(d) + 1, m)
<1>1. FcShape /\ r \in FcProcs /\ r \notin FcWriters
  BY FileContentsAssumption DEF FcInv, FcProcs
<1>2. fcFile[r] \in 1..Len(fcFiles)
  <2>1. fcFile[r] # 0
    BY <1>1 DEF FcShape
  <2>2. fcFile[r] \in 0..Len(fcFiles) /\ Len(fcFiles) \in Nat
    BY <1>1, FcKnown
  <2> QED
    BY <2>1, <2>2
<1>3. c \in Seq(FcBlock) /\ d \in Seq(FcBlock) /\ Len(d) \in Nat /\ Len(c) \in Nat
  BY <1>1, <1>2 DEF FcShape, FcContents
<1>4. fcRead' = [fcRead EXCEPT ![r] = d \o t]
  OBVIOUS
<1>5. Len(d) < m /\ m <= Len(c)
  OBVIOUS
<1> HIDE DEF c
<1>6. /\ t \in Seq(FcBlock) /\ Len(t) = m - Len(d)
      /\ \A i \in 1..(m - Len(d)) : t[i] = c[Len(d) + i]
  <2> HIDE DEF d
  <2> QED
    BY <1>3, <1>5
<1> HIDE DEF d, t
<1>7. /\ d \o t \in Seq(FcBlock) /\ Len(d \o t) = m
      /\ \A i \in 1..m : (d \o t)[i] = IF i <= Len(d) THEN d[i] ELSE c[i]
  BY <1>3, <1>5, <1>6
<1> DEFINE e == d \o t
<1>8. /\ fcRead' \in [FcReaders -> Seq(FcBlock)] /\ fcRead'[r] = e
      /\ \A p \in FcReaders \ {r} : fcRead'[p] = fcRead[p]
  <2>1. fcRead \in [FcReaders -> Seq(FcBlock)] /\ e \in Seq(FcBlock) /\ fcRead' = [fcRead EXCEPT ![r] = e]
    BY <1>1, <1>4, <1>7 DEF FcShape
  <2> HIDE DEF e
  <2> QED
    BY <2>1
<1>9. FcShape'
  <2>1. \A v \in FcWriters : fcPc'[v] \notin {"size", "read"} /\ (fcPc'[v] \in {"open", "close"} => fcFile'[v] # 0)
    BY <1>1 DEF FcShape
  <2>2. \A p \in FcReaders : ~Busy(p)' /\ (fcPc'[p] # "idle" => fcFile'[p] # 0)
    BY <1>1 DEF FcShape, Busy
  <2> QED
    BY <1>1, <1>8, <2>1, <2>2 DEF FcShape
<1>10. ASSUME FcAlone PROVE FcAlone'
  <2>1. FcReader(r)
    BY <1>10 DEF FcAlone
  <2>2. /\ fcFile[r] # fcTmp /\ FcWhole(c, fcLost) /\ ~fcCut[r] /\ fcSize[r] = Len(c)
        /\ \A i \in 1..Len(d) : d[i] = c[i]
        /\ fcAnswer[r] \in {<< >>, <<FALSE>>} \/ FcAnswerIs(fcAnswer[r], fcCut[r], fcLost)
    BY <2>1 DEF FcReader, c, d
  <2>3. Len(e) = m /\ m <= Len(c)
    BY <1>5, <1>7
  <2>4. \A i \in 1..m : e[i] = c[i]
    BY <1>3, <1>7, <2>2
  <2> HIDE DEF e
  <2>5. FcReader(r)'
    BY <1>8, <2>2, <2>3, <2>4 DEF FcReader, c
  <2> QED
    BY <1>1, <1>8, <1>10, <2>5, FcReaderMoves
<1> QED
  BY <1>9, <1>10 DEF FcInv

\* A reader that is done.
LEMMA FcReadDone ==
  ASSUME FcInv, NEW r \in FcReaders, fcPc[r] = "read", FcReadEnds(r),
         UNCHANGED <<fcFiles, fcName, fcTmp, fcCalls, fcMet, fcLost>>
  PROVE  FcInv'
<1> DEFINE c == fcFiles[fcFile[r]]
           d == fcRead[r]
           n == fcSize[r]
           a == [i \in 1..n |-> IF i <= Len(d) THEN d[i] ELSE <<"unset", i>>]
<1>1. FcShape /\ r \in FcProcs /\ r \notin FcWriters
  BY FileContentsAssumption DEF FcInv, FcProcs
<1>2. Len(fcFiles) \in Nat /\ Blocks \in Nat /\ n \in Nat /\ n <= Blocks
  BY <1>1, FcKnown
<1>3. d \in Seq(FcBlock) /\ Len(d) \in Nat
  BY <1>1 DEF FcShape
<1>4. a \in Seq(FcBlock)
  <2> HIDE DEF n, d
  <2>1. \A i \in 1..n : <<"unset", i>> \in FcBlock
    BY <1>2 DEF FcBlock
  <2>2. \A i \in 1..n : i <= Len(d) => d[i] \in FcBlock
    BY <1>2, <1>3
  <2>3. a \in [1..n -> FcBlock]
    BY <2>1, <2>2
  <2> HIDE DEF a
  <2> QED
    BY <1>2, <2>3
<1>5. fcAnswer' = [fcAnswer EXCEPT ![r] = <<TRUE, a>>]
  BY DEF FcReadEnds
<1>6. /\ fcAnswer' \in [FcProcs -> FcTold]
      /\ fcAnswer'[r] = <<TRUE, a>> /\ \A p \in FcProcs \ {r} : fcAnswer'[p] = fcAnswer[p]
  <2> HIDE DEF a
  <2> DEFINE told == <<TRUE, a>>
  <2>1. told \in FcTold
    BY <1>4 DEF FcTold
  <2>2. fcAnswer \in [FcProcs -> FcTold] /\ fcAnswer' = [fcAnswer EXCEPT ![r] = told]
    BY <1>1, <1>5 DEF FcShape
  <2> HIDE DEF told
  <2>3. fcAnswer' \in [FcProcs -> FcTold] /\ fcAnswer'[r] = told /\ \A p \in FcProcs \ {r} : fcAnswer'[p] = fcAnswer[p]
    BY <1>1, <2>1, <2>2
  <2> QED
    BY <2>3 DEF told
<1>7. /\ fcPc' \in [FcProcs -> {"idle", "open", "close", "rename", "unlink", "size", "read"}]
      /\ fcPc'[r] = "idle" /\ \A p \in FcProcs \ {r} : fcPc'[p] = fcPc[p]
  BY <1>1 DEF FcShape, FcReadEnds, Goes
<1>8. /\ fcFile' \in [FcProcs -> 0..Len(fcFiles)] /\ fcSize' \in [FcProcs -> 0..Blocks]
      /\ \A p \in FcProcs \ {r} : fcFile'[p] = fcFile[p] /\ fcSize'[p] = fcSize[p]
  BY <1>1, <1>2 DEF FcShape, FcReadEnds
<1>9. /\ fcRead' \in [FcReaders -> Seq(FcBlock)] /\ fcRead'[r] = << >>
      /\ \A p \in FcReaders \ {r} : fcRead'[p] = fcRead[p]
  BY <1>1 DEF FcShape, FcReadEnds
<1>10. /\ fcCut' \in [FcReaders -> BOOLEAN] /\ \A p \in FcReaders \ {r} : fcCut'[p] = fcCut[p]
       /\ Len(d) >= Min({Len(c), n}) \/ fcCut'[r]
  BY <1>1 DEF FcShape, FcReadEnds
<1>11. FcShape'
  <2> HIDE DEF a, c, d, n
  <2>1. \A v \in FcWriters : fcPc'[v] \notin {"size", "read"} /\ (fcPc'[v] \in {"open", "close"} => fcFile'[v] # 0)
    BY <1>1, <1>7, <1>8 DEF FcShape, FcProcs
  <2>2. \A p \in FcReaders : ~Busy(p)' /\ (fcPc'[p] # "idle" => fcFile'[p] # 0)
    BY <1>1, <1>7, <1>8 DEF FcShape, FcProcs, Busy
  <2> QED
    BY <1>1, <1>6, <1>7, <1>8, <1>9, <1>10, <2>1, <2>2 DEF FcShape
<1>12. ASSUME FcAlone PROVE FcAlone'
  <2>1. FcReader(r)
    BY <1>12 DEF FcAlone
  <2>2. /\ FcWhole(c, fcLost) /\ n = Len(c) /\ Len(d) <= n /\ \A i \in 1..Len(d) : d[i] = c[i]
    BY <2>1 DEF FcReader
  <2>3. PICK w \in FcWriters \cup {"old"} : FcFront(c, w, fcLost)
    BY <2>2 DEF FcWhole
  <2>4. Min({Len(c), n}) = n
    <3> HIDE DEF c, n
    <3> QED
      BY <1>2, <2>2, MinOfTwo
  <2>5. fcCut'[r] \/ Len(d) = n
    <3> HIDE DEF c, d, n
    <3> QED
      BY <1>2, <1>3, <1>10, <2>2, <2>4
  <2>6. a = ReadFront(Text(w), Len(d), n)
    <3>1. \A i \in 1..n : i <= Len(d) => d[i] = Text(w)[i]
      <4> HIDE DEF c, d, n
      <4>1. \A i \in 1..Blocks : Text(w)[i] = <<w, i>>
        BY TextIs
      <4>2. \A i \in 1..n : c[i] = <<w, i>> /\ i \in 1..Blocks
        BY <1>2, <2>2, <2>3 DEF FcFront
      <4>3. \A i \in 1..n : i <= Len(d) => i \in 1..Len(d)
        BY <1>2, <1>3
      <4> QED
        BY <2>2, <4>1, <4>2, <4>3
    <3> HIDE DEF c, d, n
    <3>2. a = [i \in 1..n |-> IF i <= Len(d) THEN Text(w)[i] ELSE <<"unset", i>>]
      BY <3>1
    <3> QED
      BY <3>2 DEF ReadFront
  <2>7. FcAnswerIs(fcAnswer'[r], fcCut'[r], fcLost)
    <3>1. n \in 0..Blocks /\ Len(d) \in 0..n
      <4> HIDE DEF c, d, n
      <4> QED
        BY <1>2, <1>3, <2>2
    <3>2. fcLost \/ n = Blocks
      BY <2>2, <2>3 DEF FcFront
    <3>3. fcAnswer'[r] = <<TRUE, ReadFront(Text(w), Len(d), n)>>
      BY <1>6, <2>6
    <3> HIDE DEF a, c, d, n
    <3> QED
      BY <2>5, <3>1, <3>2, <3>3 DEF FcAnswerIs
  <2>8. FcReader(r)'
    BY <1>7, <1>9, <2>7 DEF FcReader
  <2> HIDE DEF a, c, d, n
  <2> QED
    BY <1>1, <1>6, <1>7, <1>8, <1>9, <1>10, <1>12, <2>8, FcReaderMoves
<1> QED
  BY <1>11, <1>12 DEF FcInv

LEMMA FcReadKeeps == ASSUME FcInv, NEW r \in FcReaders, FcRead(r) PROVE FcInv'
<1> DEFINE c == fcFiles[fcFile[r]]
           n == Min({Len(c), fcSize[r]})
<1>1. fcPc[r] = "read" /\ UNCHANGED <<fcFiles, fcName, fcTmp, fcCalls, fcMet, fcLost>>
  BY DEF FcRead
<1>2. CASE /\ \E m \in (Len(fcRead[r]) + 1)..n : fcRead' = [fcRead EXCEPT ![r] = @ \o SubSeq(c, Len(@) + 1, m)]
           /\ UNCHANGED <<fcPc, fcFile, fcSize, fcAnswer, fcCut>>
  <2>1. PICK m \in (Len(fcRead[r]) + 1)..n : fcRead' = [fcRead EXCEPT ![r] = @ \o SubSeq(c, Len(@) + 1, m)]
    BY <1>2
  <2>2. FcShape /\ r \in FcProcs /\ Len(fcRead[r]) \in Nat
    <3>1. FcShape /\ r \in FcProcs
      BY DEF FcInv, FcProcs
    <3>2. fcRead[r] \in Seq(FcBlock)
      BY <3>1 DEF FcShape
    <3> QED
      BY <3>1, <3>2
  <2>3. fcFile[r] \in 1..Len(fcFiles)
    <3>1. fcFile[r] # 0
      BY <1>1, <2>2 DEF FcShape
    <3>2. fcFile[r] \in 0..Len(fcFiles) /\ Len(fcFiles) \in Nat
      BY <2>2, FcKnown
    <3> QED
      BY <3>1, <3>2
  <2>4. Len(c) \in Nat /\ fcSize[r] \in Nat
    BY <2>2, <2>3, FcKnown
  <2>5. n \in Nat /\ n <= Len(c) /\ n <= fcSize[r]
    <3> HIDE DEF c
    <3>1. n = IF Len(c) <= fcSize[r] THEN Len(c) ELSE fcSize[r]
      BY <2>4, MinOfTwo
    <3> QED
      BY <2>4, <3>1
  <2> HIDE DEF n
  <2>6. m \in Nat /\ Len(fcRead[r]) < m /\ m <= Len(c) /\ m <= fcSize[r]
    BY <2>1, <2>2, <2>4, <2>5
  <2> QED
    BY <1>1, <1>2, <2>1, <2>6, FcReadOn
<1>3. CASE FcReadEnds(r)
  BY <1>1, <1>3, FcReadDone
<1> QED
  BY <1>2, <1>3 DEF FcRead, FcReadMore

-----------------------------------------------------------------------------
\* What the promises need, as long as the temporary file is not shared.
LEMMA FcPromises == FcInv => FcCorrect
<1> SUFFICES ASSUME FcInv, ~fcMet PROVE FcCorrect
  BY DEF FcCorrect, FcAtomic, FcReadsWhole, FcAnswered
<1>1. FcShape /\ FcAlone
  BY DEF FcInv
<1>2. FcAtomic
  <2>1. PICK w \in FcWriters \cup {"old"} : FcFront(fcFiles[fcName], w, fcLost)
    BY <1>1 DEF FcAlone, FcWhole
  <2>2. fcFiles[fcName] \in FcContents
    BY <1>1 DEF FcShape
  <2>3. Text(w) \in Texts
    BY DEF Texts
  <2>4. fcFiles[fcName] = Text(w) \/ (fcLost /\ IsStrictPrefix(fcFiles[fcName], Text(w)))
    BY <2>1, <2>2, FrontIs
  <2> QED
    BY <2>3, <2>4 DEF FcAtomic
<1>3. FcReadsWhole
  <2> SUFFICES ASSUME NEW r \in FcReaders, fcAnswer[r] # << >>, fcAnswer[r][1]
               PROVE  \E t \in Texts, size \in 0..Blocks : \E n \in 0..size :
                        /\ fcAnswer[r][2] = ReadFront(t, n, size)
                        /\ fcLost \/ size = Blocks
                        /\ fcCut[r] \/ n = size
    BY DEF FcReadsWhole
  <2>1. fcAnswer[r] # <<FALSE>>
    <3>1. <<FALSE>>[1] = FALSE
      OBVIOUS
    <3> QED
      BY <3>1
  <2>2. FcAnswerIs(fcAnswer[r], fcCut[r], fcLost)
    BY <1>1, <2>1 DEF FcAlone, FcReader
  <2>3. PICK w \in FcWriters \cup {"old"}, size \in 0..Blocks : \E n \in 0..size :
               fcAnswer[r] = <<TRUE, ReadFront(Text(w), n, size)>> /\ (fcLost \/ size = Blocks) /\ (fcCut[r] \/ n = size)
    BY <2>2 DEF FcAnswerIs
  <2>4. PICK n \in 0..size :
               fcAnswer[r] = <<TRUE, ReadFront(Text(w), n, size)>> /\ (fcLost \/ size = Blocks) /\ (fcCut[r] \/ n = size)
    BY <2>3
  <2>5. Text(w) \in Texts /\ fcAnswer[r][2] = ReadFront(Text(w), n, size)
    BY <2>4 DEF Texts
  <2> QED
    BY <2>4, <2>5
<1>4. ASSUME NEW w \in FcWriters
      PROVE  /\ fcFiles[fcName] = Text(w) => fcAnswer[w] = <<TRUE>> \/ fcCalls[w] > 1
             /\ fcAnswer[w] = <<FALSE>> /\ fcCalls[w] = 1 => fcFiles[fcName] # Text(w)
  <2>1. FcWriter(w) /\ fcCalls[w] \in Nat
    BY <1>1 DEF FcAlone, FcShape
  <2>2. fcCalls[w] <= 1 \/ fcCalls[w] > 1
    BY <2>1
  <2>3. fcCalls[w] = 1 => fcCalls[w] <= 1
    BY <2>1
  <2> QED
    BY <2>1, <2>2, <2>3, AnswersDiffer DEF FcWriter
<1> QED
  BY <1>2, <1>3, <1>4 DEF FcCorrect, FcAnswered

\* No call, failure or crash of any process breaks the invariant of the files.
LEMMA FcSteps == FcInv /\ [FcNext]_fcVars => FcInv'
<1> SUFFICES ASSUME FcInv, [FcNext]_fcVars PROVE FcInv'
  OBVIOUS
<1>1. CASE UNCHANGED fcVars
  <2>1. FcShape'
    <3>1. FcShape
      BY DEF FcInv
    <3> QED
      BY <1>1, <3>1 DEF FcShape, fcVars, Busy
  <2>2. FcAlone => FcAlone'
    BY <1>1 DEF FcAlone, FcWriter, FcReader, Busy, fcVars, Texts, Text
  <2> QED
    BY <1>1, <2>1, <2>2 DEF FcInv, fcVars
<1>2. ASSUME NEW w \in FcWriters, FcOpen(w) \/ FcWrite(w) \/ FcClose(w) \/ FcRename(w) \/ FcUnlink(w) \/ FcCrash(w)
      PROVE  FcInv'
  BY <1>2, FcOpenKeeps, FcWriteKeeps, FcCloseKeeps, FcRenameKeeps, FcUnlinkKeeps, FcCrashKeeps
<1>3. ASSUME NEW r \in FcReaders, FcGet(r) \/ FcMeasure(r) \/ FcRead(r) PROVE FcInv'
  BY <1>3, FcGetKeeps, FcMeasureKeeps, FcReadKeeps
<1> QED
  BY <1>1, <1>2, <1>3 DEF FcNext

\* The files, and every process at them, stay in the shape that the promises need.
THEOREM FcSound == FcSpec => []FcInv
<1> QED
  BY FcStart, FcSteps, PTL DEF FcSpec

\* g_file_set_contents and g_file_get_contents, through any failure or crash, as long as no
\* two writers met at the temporary file: the name stands for one whole text, or, once an
\* fclose has failed unnoticed, for the beginning of one; what a reader is answered with TRUE
\* is that, with unset bytes in the place of what a failing read did not get; and a text that
\* is there was answered TRUE.
THEOREM FileContentsCorrect == FcSpec => []FcCorrect
<1> QED
  BY FcSound, FcPromises, PTL

-----------------------------------------------------------------------------
(* disk_info_load *)

\* The blocks, the list of them and what the drives said, while a load goes on.
DiShape ==
  /\ diDisk \in [1..Drives -> Sectors] /\ diDrive \in 1..Drives
  /\ diPass \in {"closed", "idle", "admin", "scsi", "smart"}
  /\ diMade \in Nat /\ diList \in Seq(1..diMade) /\ diTold \in Seq(Sectors)
  /\ diHeap \in [Range(diList) -> Sectors]
  /\ \A i, j \in 1..Len(diList) : diList[i] = diList[j] => i = j

\* The list has what was told, and in that order.
DiKnown ==
  /\ \A i \in 1..Len(diList) : \E k \in 1..Len(diTold) : diTold[k] = diHeap[diList[i]]
  /\ \A k \in 1..Len(diTold) : \E i \in 1..Len(diList) : diTold[k] = diHeap[diList[i]]
  /\ \A i, j \in 1..Len(diList) : i < j => ToldFirst(diHeap[diList[i]], diHeap[diList[j]])

DiInv ==
  /\ DiShape
  /\ diPass = "closed" => diList = << >>
  /\ diPass # "closed" => DiKnown

LEMMA DiKnownKept == ASSUME DiKnown, UNCHANGED <<diHeap, diList, diTold>> PROVE DiKnown'
<1>1. ASSUME NEW x, NEW y, ToldFirst(x, y) PROVE ToldFirst(x, y)'
  BY <1>1 DEF ToldFirst
<1>2. diHeap' = diHeap /\ diList' = diList /\ diTold' = diTold
  OBVIOUS
<1>3. \A i, j \in 1..Len(diList) : i < j => ToldFirst(diHeap[diList[i]], diHeap[diList[j]])'
  <2> SUFFICES ASSUME NEW i \in 1..Len(diList), NEW j \in 1..Len(diList), i < j
               PROVE  ToldFirst(diHeap[diList[i]], diHeap[diList[j]])'
    OBVIOUS
  <2>1. ToldFirst(diHeap[diList[i]], diHeap[diList[j]])
    BY DEF DiKnown
  <2> QED
    BY <1>2, <2>1 DEF ToldFirst
<1> QED
  BY <1>2, <1>3 DEF DiKnown

LEMMA NoBlocks == ASSUME NEW S, NEW f \in [{} -> S] PROVE f = << >>
OBVIOUS

LEMMA DiHeldIs ==
  ASSUME DiShape
  PROVE  /\ DOMAIN DiHeld = 1..Len(diList) /\ Len(diList) \in Nat
         /\ \A i \in 1..Len(diList) : DiHeld[i] = diHeap[diList[i]] /\ diList[i] \in 1..diMade
<1>1. DOMAIN diList = 1..Len(diList) /\ Len(diList) \in Nat /\ \A i \in 1..Len(diList) : diList[i] \in 1..diMade
  BY DEF DiShape
<1>2. \A i \in 1..Len(diList) : diList[i] \in Range(diList)
  BY <1>1 DEF Range
<1>3. DOMAIN diHeap = Range(diList)
  BY DEF DiShape
<1> QED
  BY <1>1, <1>2, <1>3 DEF DiHeld

LEMMA DiPromises == DiInv => DiCorrect
<1> SUFFICES ASSUME DiInv PROVE DiCorrect
  OBVIOUS
<1>1. /\ DiShape /\ DOMAIN DiHeld = 1..Len(diList) /\ Len(diList) \in Nat
      /\ \A i \in 1..Len(diList) : DiHeld[i] = diHeap[diList[i]] /\ diList[i] \in 1..diMade
  BY DiHeldIs DEF DiInv
<1>2. DOMAIN diTold = 1..Len(diTold) /\ DOMAIN diList = 1..Len(diList)
  BY <1>1 DEF DiShape
<1>3. DiListed
  <2> SUFFICES ASSUME diPass # "closed" PROVE DiListed
    BY DEF DiListed
  <2> DEFINE held(i) == diHeap[diList[i]]
             m == Len(diList)
             n == Len(diTold)
  <2>0. /\ \A i \in 1..m : \E k \in 1..n : diTold[k] = held(i)
        /\ \A k \in 1..n : \E i \in 1..m : diTold[k] = held(i)
        /\ \A i, j \in 1..m : i < j => ToldFirst(held(i), held(j))
    BY DEF DiInv, DiKnown
  <2>a. DOMAIN DiHeld = 1..m /\ DOMAIN diTold = 1..n /\ \A i \in 1..m : DiHeld[i] = held(i)
    BY <1>1, <1>2
  <2> HIDE DEF held, m, n
  <2>1. Range(DiHeld) = Range(diTold)
    <3>1. \A x : x \in Range(DiHeld) <=> \E i \in 1..m : x = held(i)
      BY <2>a DEF Range
    <3>2. \A x : x \in Range(diTold) <=> \E k \in 1..n : x = diTold[k]
      BY <2>a DEF Range
    <3> QED
      BY <2>0, <3>1, <3>2
  <2>2. ASSUME NEW i \in DOMAIN DiHeld, NEW j \in DOMAIN DiHeld, i < j PROVE ToldFirst(DiHeld[i], DiHeld[j])
    <3>1. i \in 1..m /\ j \in 1..m /\ DiHeld[i] = held(i) /\ DiHeld[j] = held(j)
      BY <2>a
    <3>2. ToldFirst(held(i), held(j))
      BY <2>0, <2>2, <3>1
    <3> QED
      BY <3>1, <3>2
  <2> QED
    BY <2>1, <2>2 DEF DiListed
<1>4. DiOwned
  <2>1. Range(diList) = DOMAIN diHeap
    BY <1>1 DEF DiShape
  <2>2. IsInjective(diList)
    BY <1>1, <1>2 DEF DiShape, IsInjective
  <2>3. ASSUME diPass = "closed" PROVE diHeap = << >>
    <3>1. diList = << >>
      BY <2>3 DEF DiInv
    <3>2. Range(diList) = {}
      BY <3>1 DEF Range
    <3>3. diHeap \in [{} -> Sectors]
      BY <1>1, <3>2 DEF DiShape
    <3> QED
      BY <3>3, NoBlocks
  <2> QED
    BY <2>1, <2>2, <2>3 DEF DiOwned
<1> QED
  BY <1>3, <1>4 DEF DiCorrect

LEMMA DiStart == DiInit => DiInv
<1> SUFFICES ASSUME DiInit PROVE DiInv
  OBVIOUS
<1>1. diList = << >> /\ diTold = << >> /\ diMade = 0 /\ diHeap = << >> /\ diPass = "closed" /\ diDrive = 1
      /\ diDisk \in [1..Drives -> Sectors]
  BY DEF DiInit
<1>2. Range(diList) = {} /\ Len(diList) = 0
  BY <1>1 DEF Range
<1>3. diHeap \in [Range(diList) -> Sectors]
  BY <1>1, <1>2
<1>4. 1 \in 1..Drives
  BY DiskInfoAssumption
<1>5. DiShape
  BY <1>1, <1>2, <1>3, <1>4 DEF DiShape
<1> QED
  BY <1>1, <1>5 DEF DiInv

\* The list is emptied, and what it pointed to is freed.
LEMMA DiEmptied ==
  ASSUME DiShape, diHeap' = DiWithout(diHeap, Range(diList)), diList' = << >>
  PROVE  diHeap' \in [Range(diList)' -> Sectors] /\ Len(diList') = 0
<1>1. DOMAIN diHeap \ Range(diList) = {}
  BY DEF DiShape
<1>2. diHeap' = [x \in {} |-> diHeap[x]]
  BY <1>1 DEF DiWithout
<1>3. Range(diList') = {} /\ Len(diList') = 0
  BY DEF Range
<1> QED
  BY <1>2, <1>3

LEMMA DiOpenKeeps == ASSUME DiInv, DiOpen PROVE DiInv'
<1>1. diList = << >> /\ DiShape /\ diTold' = << >> /\ diPass' = "idle" /\ UNCHANGED <<diDisk, diHeap, diMade, diList, diDrive>>
  BY DEF DiOpen, DiInv, diMemory
<1>2. DiShape'
  BY <1>1 DEF DiShape
<1>3. Len(diList') = 0 /\ Len(diTold') = 0
  BY <1>1
<1> QED
  BY <1>1, <1>2, <1>3 DEF DiInv, DiKnown

LEMMA DiCloseKeeps == ASSUME DiInv, DiClose PROVE DiInv'
<1>1. DiShape /\ diPass' = "closed" /\ diList' = << >> /\ diHeap' = DiWithout(diHeap, Range(diList))
      /\ UNCHANGED <<diMade, diDisk, diDrive, diTold>>
  BY DEF DiClose, DiInv
<1>2. diHeap' \in [Range(diList)' -> Sectors] /\ Len(diList') = 0
  BY <1>1, DiEmptied
<1>3. DiShape'
  BY <1>1, <1>2 DEF DiShape
<1> QED
  BY <1>1, <1>3 DEF DiInv

LEMMA DiLoadKeeps == ASSUME DiInv, DiLoad PROVE DiInv'
<1>1. DiShape /\ diPass' = "admin" /\ diList' = << >> /\ diHeap' = DiWithout(diHeap, Range(diList))
      /\ diDrive' = 1 /\ diTold' = << >> /\ UNCHANGED <<diMade, diDisk>>
  BY DEF DiLoad, DiInv
<1>2. diHeap' \in [Range(diList)' -> Sectors] /\ Len(diList') = 0 /\ Len(diTold') = 0
  BY <1>1, DiEmptied
<1>3. 1 \in 1..Drives
  BY DiskInfoAssumption
<1>4. DiShape'
  BY <1>1, <1>2, <1>3 DEF DiShape
<1> QED
  BY <1>1, <1>2, <1>4 DEF DiInv, DiKnown

LEMMA NextDriveIs ==
  ASSUME DiShape, Loading, NextDrive
  PROVE  diDrive' \in 1..Drives /\ diPass' \in {"idle", "admin", "scsi", "smart"} /\ diPass # "closed"
<1>1. diDrive' \in 1..Drives
  BY DiskInfoAssumption, SMTT(30) DEF DiShape, NextDrive
<1>2. diPass' \in {diPass, "scsi", "smart", "idle"}
  BY DEF NextDrive, NextPass
<1> QED
  BY <1>1, <1>2 DEF Loading

LEMMA SilentKeeps == ASSUME DiInv, DriveSilent PROVE DiInv'
<1>1. DiShape /\ UNCHANGED <<diDisk, diHeap, diMade, diList, diTold>>
      /\ diDrive' \in 1..Drives /\ diPass' \in {"idle", "admin", "scsi", "smart"} /\ diPass # "closed"
  BY NextDriveIs DEF DiInv, DriveSilent, diMemory
<1>2. DiShape'
  BY <1>1 DEF DiShape
<1>3. DiKnown'
  BY <1>1, DiKnownKept DEF DiInv
<1> QED
  BY <1>1, <1>2, <1>3 DEF DiInv

LEMMA ChangeKeeps == ASSUME DiInv, DriveChanges PROVE DiInv'
<1>1. DiShape /\ UNCHANGED <<diHeap, diMade, diList, diTold, diPass, diDrive>> /\ diDisk' \in [1..Drives -> Sectors]
  BY DEF DiInv, DriveChanges, diMemory, DiShape
<1>2. DiShape'
  BY <1>1 DEF DiShape
<1>3. DiKnown => DiKnown'
  BY <1>1, DiKnownKept
<1> QED
  BY <1>1, <1>2, <1>3 DEF DiInv

LEMMA AnswerKeeps == ASSUME DiInv, DriveAnswers PROVE DiInv'
<1>1. /\ DiShape /\ diDrive' \in 1..Drives /\ diPass' \in {"idle", "admin", "scsi", "smart"} /\ diPass # "closed"
      /\ diDisk' = diDisk
  BY NextDriveIs DEF DiInv, DriveAnswers
<1> DEFINE s == diDisk[IF diPass = "scsi" THEN ScsiOrder[diDrive] ELSE diDrive]
           n == Len(diTold)
           m == Len(diList)
<1>2. s \in Sectors
  BY <1>1, DiskInfoAssumption DEF DiShape
<1>3. AddIfNew(s) /\ diTold' = Append(diTold, s)
  BY DEF DriveAnswers
<1>4. n \in Nat /\ m \in Nat /\ diTold \in Seq(Sectors) /\ diMade \in Nat /\ diList \in Seq(1..diMade)
  BY <1>1 DEF DiShape
<1> HIDE DEF s
<1>5. diTold' \in Seq(Sectors) /\ Len(diTold') = n + 1 /\ diTold'[n + 1] = s /\ \A k \in 1..n : diTold'[k] = diTold[k]
  BY <1>2, <1>3, <1>4
<1>6. DOMAIN diTold = 1..n /\ DOMAIN diTold' = 1..(n + 1)
  BY <1>4, <1>5
<1> DEFINE held(i) == diHeap[diList[i]]
<1>7. /\ \A i \in 1..m : \E k \in 1..n : diTold[k] = held(i)
      /\ \A k \in 1..n : \E i \in 1..m : diTold[k] = held(i)
      /\ \A i, j \in 1..m : i < j => ToldFirst(held(i), held(j))
  BY <1>1 DEF DiInv, DiKnown
<1> HIDE DEF n, m
<1>8. ASSUME NEW x, NEW y, ToldFirst(x, y) PROVE ToldFirst(x, y)'
  <2>1. PICK k \in 1..n : diTold[k] = x /\ \A l \in 1..k : diTold[l] # y
    BY <1>6, <1>8 DEF ToldFirst
  <2>2. k \in 1..(n + 1) /\ diTold'[k] = x
    BY <1>4, <1>5, <2>1
  <2>3. \A l \in 1..k : diTold'[l] # y
    <3>1. \A l \in 1..k : l \in 1..n
      BY <1>4
    <3> QED
      BY <1>5, <2>1, <3>1
  <2> QED
    BY <1>6, <2>2, <2>3 DEF ToldFirst
<1>9. DOMAIN DiHeld = 1..m /\ \A i \in 1..m : DiHeld[i] = held(i) /\ diList[i] \in 1..diMade
  BY <1>1, DiHeldIs DEF m
<1>10. CASE s \in Range(DiHeld)
  <2>1. UNCHANGED <<diHeap, diMade, diList>>
    BY <1>3, <1>10 DEF AddIfNew, diMemory
  <2>2. PICK h \in 1..m : s = held(h)
    BY <1>9, <1>10 DEF Range
  <2>3. DiShape'
    BY <1>1, <1>5, <2>1 DEF DiShape
  <2>4. Len(diList') = m /\ \A i \in 1..m : (diHeap[diList[i]])' = held(i)
    BY <2>1 DEF m
  <2>5. \A i \in 1..m : \E k \in 1..(n + 1) : diTold'[k] = held(i)
    <3> SUFFICES ASSUME NEW i \in 1..m PROVE \E k \in 1..(n + 1) : diTold'[k] = held(i)
      OBVIOUS
    <3>1. PICK k \in 1..n : diTold[k] = held(i)
      BY <1>7
    <3>2. k \in 1..(n + 1)
      BY <1>4
    <3> QED
      BY <1>5, <3>1, <3>2
  <2>6. \A k \in 1..(n + 1) : \E i \in 1..m : diTold'[k] = held(i)
    <3> SUFFICES ASSUME NEW k \in 1..(n + 1) PROVE \E i \in 1..m : diTold'[k] = held(i)
      OBVIOUS
    <3>1. CASE k = n + 1
      BY <1>5, <2>2, <3>1
    <3>2. CASE k # n + 1
      <4>1. k \in 1..n
        BY <1>4, <3>2
      <4>2. PICK i \in 1..m : diTold[k] = held(i)
        BY <1>7, <4>1
      <4> QED
        BY <1>5, <4>1, <4>2
    <3> QED
      BY <3>1, <3>2
  <2>7. \A i, j \in 1..m : i < j => ToldFirst(held(i), held(j))'
    BY <1>7, <1>8, <2>1
  <2> QED
    BY <1>1, <1>5, <2>1, <2>3, <2>5, <2>6, <2>7 DEF DiInv, DiKnown, m
<1>11. CASE s \notin Range(DiHeld)
  <2> DEFINE b == diMade + 1
  <2>1. /\ diMade' = b /\ diList' = Append(diList, b) /\ b \in Nat
        /\ diHeap' = DiWith(diHeap, b, s)
    BY <1>3, <1>4, <1>11 DEF AddIfNew
  <2>2. \A i \in 1..m : held(i) # s /\ diList[i] # b /\ diList[i] \in 1..b
    BY <1>4, <1>9, <1>11 DEF Range
  <2> HIDE DEF b
  <2>3. /\ Len(diList') = m + 1 /\ diList'[m + 1] = b /\ \A i \in 1..m : diList'[i] = diList[i]
    BY <1>4, <2>1 DEF m
  <2>4. diList' \in Seq(1..b)
    <3>1. diList \in [1..m -> 1..b] /\ b \in 1..b
      <4>1. diList \in [1..m -> 1..diMade]
        BY <1>4 DEF m
      <4>2. b \in 1..b
        BY <1>4 DEF b
      <4> QED
        BY <2>2, <4>1, <4>2
    <3>2. diList \in Seq(1..b)
      BY <1>4, <3>1
    <3> DEFINE S == 1..b
    <3> HIDE DEF S
    <3>3. Append(diList, b) \in Seq(S)
      BY <3>1, <3>2 DEF S
    <3> QED
      BY <2>1, <3>3 DEF S
  <2>5. DOMAIN diHeap = Range(diList) /\ \A x \in DOMAIN diHeap : diHeap[x] \in Sectors
    BY <1>1 DEF DiShape
  <2>6. Range(diList') = Range(diList) \cup {b}
    <3>1. DOMAIN diList = 1..m /\ DOMAIN diList' = 1..(m + 1)
      BY <1>4, <2>3, <2>4 DEF m
    <3>2. \A x : (\E i \in 1..(m + 1) : diList'[i] = x) <=> x = b \/ \E i \in 1..m : diList[i] = x
      <4>1. \A i \in 1..(m + 1) : i \in 1..m \/ i = m + 1
        BY <1>4
      <4>2. m + 1 \in 1..(m + 1) /\ \A i \in 1..m : i \in 1..(m + 1)
        BY <1>4
      <4> QED
        BY <2>3, <4>1, <4>2
    <3> QED
      BY <3>1, <3>2, Zenon DEF Range
  <2>7. b \notin DOMAIN diHeap
    <3>1. DOMAIN diList = 1..m
      BY <1>4 DEF m
    <3> QED
      BY <2>2, <2>5, <3>1 DEF Range
  <2>8. /\ DOMAIN diHeap' = Range(diList') /\ diHeap'[b] = s
        /\ \A x \in DOMAIN diHeap : diHeap'[x] = diHeap[x]
    <3>2. diHeap' = [x \in DOMAIN diHeap \cup {b} |-> IF x = b THEN s ELSE diHeap[x]]
      BY <2>1 DEF DiWith
    <3>3. DOMAIN diHeap' = Range(diList')
      BY <2>5, <2>6, <3>2
    <3>4. diHeap'[b] = s
      BY <3>2
    <3>5. \A x \in DOMAIN diHeap : diHeap'[x] = diHeap[x]
      BY <2>7, <3>2
    <3> QED
      BY <3>3, <3>4, <3>5
  <2>9. diHeap' \in [Range(diList') -> Sectors]
    <3>1. diHeap' = [x \in DOMAIN diHeap \cup {b} |-> IF x = b THEN s ELSE diHeap[x]]
      BY <2>1 DEF DiWith
    <3>2. DOMAIN diHeap \cup {b} = Range(diList')
      BY <2>5, <2>6
    <3>4. diHeap' \in [DOMAIN diHeap \cup {b} -> Sectors]
      BY <1>2, <2>5, <3>1
    <3> QED
      BY <3>2, <3>4
  <2>10. \A i \in 1..m : diHeap'[diList'[i]] = held(i)
    <3>1. \A i \in 1..m : diList[i] \in DOMAIN diHeap
      BY <1>4, <2>5 DEF Range, m
    <3> QED
      BY <2>3, <2>8, <3>1
  <2>11. diHeap'[diList'[m + 1]] = s
    BY <2>3, <2>8
  <2>12. \A i, j \in 1..(m + 1) : diList'[i] = diList'[j] => i = j
    <3> SUFFICES ASSUME NEW i \in 1..(m + 1), NEW j \in 1..(m + 1), diList'[i] = diList'[j] PROVE i = j
      OBVIOUS
    <3>1. \A x \in 1..(m + 1) : x = m + 1 \/ x \in 1..m
      BY <1>4
    <3>2. \A x, y \in 1..m : diList[x] = diList[y] => x = y
      BY <1>1 DEF DiShape, m
    <3> QED
      BY <2>2, <2>3, <3>1, <3>2
  <2>13. DiShape'
    BY <1>1, <1>5, <2>1, <2>3, <2>4, <2>9, <2>12 DEF DiShape
  <2>14. \A i \in 1..(m + 1) : \E k \in 1..(n + 1) : diTold'[k] = diHeap'[diList'[i]]
    <3> SUFFICES ASSUME NEW i \in 1..(m + 1) PROVE \E k \in 1..(n + 1) : diTold'[k] = diHeap'[diList'[i]]
      OBVIOUS
    <3>1. CASE i = m + 1
      BY <1>4, <1>5, <2>11, <3>1
    <3>2. CASE i # m + 1
      <4>1. i \in 1..m
        BY <1>4, <3>2
      <4>2. PICK k \in 1..n : diTold[k] = held(i)
        BY <1>7, <4>1
      <4>3. k \in 1..(n + 1)
        BY <1>4
      <4> QED
        BY <1>5, <2>10, <4>1, <4>2, <4>3
    <3> QED
      BY <3>1, <3>2
  <2>15. \A k \in 1..(n + 1) : \E i \in 1..(m + 1) : diTold'[k] = diHeap'[diList'[i]]
    <3> SUFFICES ASSUME NEW k \in 1..(n + 1) PROVE \E i \in 1..(m + 1) : diTold'[k] = diHeap'[diList'[i]]
      OBVIOUS
    <3>1. CASE k = n + 1
      <4>1. m + 1 \in 1..(m + 1)
        BY <1>4
      <4> QED
        BY <1>5, <2>11, <3>1, <4>1
    <3>2. CASE k # n + 1
      <4>1. k \in 1..n
        BY <1>4, <3>2
      <4>2. PICK i \in 1..m : diTold[k] = held(i)
        BY <1>7, <4>1
      <4>3. i \in 1..(m + 1)
        BY <1>4
      <4> QED
        BY <1>5, <2>10, <4>1, <4>2, <4>3
    <3> QED
      BY <3>1, <3>2
  <2>16. ASSUME NEW i \in 1..(m + 1), NEW j \in 1..(m + 1), i < j
         PROVE  ToldFirst(diHeap[diList[i]], diHeap[diList[j]])'
    <3>1. i \in 1..m
      BY <1>4, <2>16
    <3>2. CASE j \in 1..m
      <4>1. ToldFirst(held(i), held(j))
        BY <1>7, <2>16, <3>1, <3>2
      <4>2. diHeap'[diList'[i]] = held(i) /\ diHeap'[diList'[j]] = held(j)
        BY <2>10, <3>1, <3>2
      <4> HIDE DEF held
      <4>3. \E k \in DOMAIN diTold' : diTold'[k] = held(i) /\ \A l \in 1..k : diTold'[l] # held(j)
        <5>1. PICK k \in 1..n : diTold[k] = held(i) /\ \A l \in 1..k : diTold[l] # held(j)
          BY <1>6, <4>1 DEF ToldFirst
        <5>2. k \in 1..(n + 1) /\ diTold'[k] = held(i)
          BY <1>4, <1>5, <5>1
        <5>3. \A l \in 1..k : l \in 1..n
          BY <1>4
        <5> QED
          BY <1>5, <1>6, <5>1, <5>2, <5>3
      <4> QED
        BY <4>2, <4>3 DEF ToldFirst
    <3>3. CASE j = m + 1
      <4>1. PICK k \in 1..n : diTold[k] = held(i)
        BY <1>7, <3>1
      <4>2. \A l \in 1..n : diTold[l] # s
        BY <1>7, <2>2
      <4>3. k \in 1..(n + 1) /\ diTold'[k] = held(i)
        BY <1>4, <1>5, <4>1, SMTT(30)
      <4>4. \A l \in 1..k : l \in 1..n
        BY <1>4
      <4>5. \A l \in 1..k : diTold'[l] # s
        BY <1>5, <4>2, <4>4
      <4>6. diHeap'[diList'[i]] = held(i) /\ diHeap'[diList'[j]] = s
        BY <2>10, <2>11, <3>1, <3>3
      <4> QED
        BY <1>6, <4>3, <4>5, <4>6 DEF ToldFirst
    <3> QED
      BY <1>4, <3>2, <3>3
  <2> QED
    BY <1>1, <1>5, <2>3, <2>13, <2>14, <2>15, <2>16 DEF DiInv, DiKnown
<1> QED
  BY <1>10, <1>11

LEMMA DiSteps == DiInv /\ [DiNext]_diVars => DiInv'
<1>1. ASSUME DiInv, UNCHANGED diVars PROVE DiInv'
  <2>1. DiShape'
    BY <1>1 DEF DiInv, DiShape, diVars, diMemory
  <2>2. DiKnown => DiKnown'
    BY <1>1, DiKnownKept DEF diVars, diMemory
  <2> QED
    <3>1. diPass' = diPass /\ diList' = diList
      BY <1>1 DEF diVars, diMemory
    <3> QED
      BY <1>1, <2>1, <2>2, <3>1 DEF DiInv
<1> QED
  BY <1>1, DiOpenKeeps, DiCloseKeeps, DiLoadKeeps, SilentKeeps, AnswerKeeps, ChangeKeeps DEF DiNext

\* The list of drives and the blocks it points to stay in the shape that the promises need.
THEOREM DiSound == DiSpec => []DiInv
<1> QED
  BY DiStart, DiSteps, PTL DEF DiSpec

\* disk_info_load: whatever the drives answer, to whichever of the three questions, the list
\* has each answer of this load once, in the order of the first time it was told; every
\* block is in the list once, or freed, and none is left when the list is disposed of.
THEOREM DiskInfoCorrect == DiSpec => []DiCorrect
<1> QED
  BY DiSound, DiPromises, PTL

-----------------------------------------------------------------------------
(* All of them, in one specification *)

\* Processes, files and drives keep all of their promises, together and with whatever
\* programs, calls, texts and drives the constants name, whatever fails, ends or is
\* killed in between.
THEOREM SystemSound == SystemSpec => []SystemCorrect
<1>1. SsInit /\ [][SsNext]_ssVars => []SsCorrect
  BY SsStart, SsSteps, SsInvCorrect, PTL
<1>2. SaInit /\ [][SaNext]_saVars => []SaCorrect
  BY SaStart, SaSteps, SaInvCorrect, PTL
<1>3. SystemCorrect <=> SsCorrect /\ SaCorrect /\ FcCorrect /\ DiCorrect
  BY DEF SystemCorrect
<1> QED
  BY <1>1, <1>2, <1>3, FileContentsCorrect, DiskInfoCorrect, PTL DEF SystemSpec

-----------------------------------------------------------------------------
(* The serial port, for any number of threads, any clients and requests    *)
(*                                                                         *)
(* SignalKept and FrameKept are not inductive: they need that the copy a   *)
(* call has read agrees with the driver in all that no other call has      *)
(* changed since (Fresh).                                                  *)

Parities == {"None", "Odd", "Even", "Mark", "Space"}
Stops    == {"None", "One", "Two", "OnePointFive"}

\* The types of what TypeOK does not speak of: the ghosts and the arguments.
Typed ==
  /\ DOMAIN copy = Threads /\ DOMAIN arg = Threads
  /\ since \in [Threads -> SUBSET (Outputs \cup {"term"})]
  /\ lost \subseteq Outputs /\ raced \in BOOLEAN
  /\ want \in [Outputs -> BOOLEAN]
  /\ frame \in [parity : {"None", "Odd", "Even"}, stop : {"One", "Two"}]
  /\ \A t \in Threads :
       /\ pc[t] = "set_signal" =>
            arg[t][1].signal \in Lines \cup {"NoneSignal"} /\ arg[t][1].value \in BOOLEAN
       /\ pc[t] = "set_attributes" => arg[t][1] \in Requests

\* A copy agrees with the driver in what no other call has changed since: on an output
\* line, which only set_signal writes, or on all of termios.
Fresh ==
  \A t \in Threads : copy[t] # << >> =>
    /\ pc[t] = "set_signal" =>
         \A o \in Outputs \ since[t] : (o \in copy[t][1]) <=> (o \in lines)
    /\ pc[t] = "set_attributes" /\ "term" \notin since[t] => copy[t][1] = term

PortInv == TypeOK /\ Typed /\ Fresh /\ SignalKept /\ FrameKept

-----------------------------------------------------------------------------
(* What a call computes *)

\* The settings that are written back are settings.
LEMMA SettingsTyped ==
  ASSUME NEW io \in Termios, NEW p \in Parities, NEW s \in Stops, NEW h, NEW b \in Legal
  PROVE  [Handshake(Parity(StopBits(io, s), p), h) EXCEPT !.baud = b] \in Termios
<1>1. StopBits(io, s) \in Termios
  BY DEF StopBits, Termios
<1>2. Parity(StopBits(io, s), p) \in Termios
  BY <1>1 DEF Parity, Termios
<1>3. /\ (h \in {"RequestToSend", "RequestToSendXOnXOff"}) \in BOOLEAN
      /\ (h \in {"XOnXOff", "RequestToSendXOnXOff"}) \in BOOLEAN
  OBVIOUS
<1> DEFINE c == h \in {"RequestToSend", "RequestToSendXOnXOff"}
           x == h \in {"XOnXOff", "RequestToSendXOnXOff"}
           ks == Parity(StopBits(io, s), p)
<1>4. Handshake(ks, h) = [ks EXCEPT !.crtscts = c, !.ixon = x]
  BY DEF Handshake
<1>5. [[ks EXCEPT !.crtscts = c, !.ixon = x] EXCEPT !.baud = b] \in Termios
  <2> HIDE DEF c, x, ks
  <2> SUFFICES ASSUME ks \in Termios, c \in BOOLEAN, x \in BOOLEAN
               PROVE  [[ks EXCEPT !.crtscts = c, !.ixon = x] EXCEPT !.baud = b] \in Termios
    BY <1>2, <1>3 DEF c, x, ks
  <2> QED  BY DEF Termios
<1> QED  BY <1>4, <1>5

\* The framing that is written back is the one asked for, or the one there was.
LEMMA FramingWritten ==
  ASSUME NEW io \in Termios, NEW p \in Parities, NEW s \in Stops, NEW h, NEW b
  PROVE  LET new == [Handshake(Parity(StopBits(io, s), p), h) EXCEPT !.baud = b]
         IN  /\ new.parenb = IF p \in {"Mark", "Space"} THEN io.parenb ELSE p # "None"
             /\ new.parodd = IF p \in {"Mark", "Space"} THEN io.parodd ELSE p = "Odd"
             /\ new.cstopb = IF s \in {"One", "Two"} THEN s = "Two" ELSE io.cstopb
<1>1. /\ StopBits(io, s) \in Termios
      /\ StopBits(io, s).parenb = io.parenb /\ StopBits(io, s).parodd = io.parodd
      /\ StopBits(io, s).cstopb = IF s \in {"One", "Two"} THEN s = "Two" ELSE io.cstopb
  BY DEF StopBits, Termios
<1>2. ASSUME NEW ks \in Termios
      PROVE  /\ Parity(ks, p) \in Termios /\ Parity(ks, p).cstopb = ks.cstopb
             /\ Parity(ks, p).parenb = IF p \in {"Mark", "Space"} THEN ks.parenb ELSE p # "None"
             /\ Parity(ks, p).parodd = IF p \in {"Mark", "Space"} THEN ks.parodd ELSE p = "Odd"
  BY DEF Parity, Termios, Parities
<1>3. ASSUME NEW ks \in Termios
      PROVE  LET new == [Handshake(ks, h) EXCEPT !.baud = b]
             IN  new.parenb = ks.parenb /\ new.parodd = ks.parodd /\ new.cstopb = ks.cstopb
  BY DEF Handshake, Termios
<1> QED  BY <1>1, <1>2, <1>3

-----------------------------------------------------------------------------
(* Steps *)

\* Every step keeps the types.
LEMMA TypesKept ==
  ASSUME TypeOK, Typed, [Next]_vars
  PROVE  TypeOK' /\ Typed'
<1> USE SerialPortAssumption DEF TypeOK, Typed
<1>1. ASSUME NEW t \in Threads, SignalIsSet(t) PROVE TypeOK' /\ Typed'
  BY <1>1 DEF SignalIsSet, Wanted, Leave, driver, ghosts
<1>2. ASSUME NEW t \in Threads, GetLines(t) PROVE TypeOK' /\ Typed'
  BY <1>2 DEF GetLines, driver, ghosts
<1>3. ASSUME NEW t \in Threads, SetLines(t) PROVE TypeOK' /\ Typed'
  <2> USE <1>3 DEF SetLines, Forget, Touched, Leave
  <2>1. lines' \subseteq Lines
    BY DEF NewLines, Lines, Outputs
  <2>2. TypeOK'
    BY <2>1
  <2>3. want' \in [Outputs -> BOOLEAN]
    BY DEF Wanted
  <2>4. lost' \subseteq Outputs
    OBVIOUS
  <2>5. Changed(t) \subseteq Outputs
    BY DEF Changed
  <2> QED  BY <2>2, <2>3, <2>4, <2>5
<1>4. ASSUME NEW t \in Threads, GetTermios(t) PROVE TypeOK' /\ Typed'
  BY <1>4 DEF GetTermios, driver, ghosts
<1>5. ASSUME NEW t \in Threads, SetTermios(t) PROVE TypeOK' /\ Typed'
  <2> USE <1>5 DEF SetTermios, Forget, Touched, Leave
  <2>1. /\ arg[t][1] \in Requests /\ copy[t][1] \in Termios
        /\ arg[t][1].parity \in Parities /\ arg[t][1].stop \in Stops
    BY DEF Parities, Stops
  <2>2. term' \in Termios
    BY <2>1, SettingsTyped
  <2>3. TypeOK'
    BY <2>2
  <2>4. frame' \in [parity : {"None", "Odd", "Even"}, stop : {"One", "Two"}]
    BY <2>1 DEF Parities
  <2>5. raced' \in BOOLEAN
    BY DEF SetsFraming
  <2> QED  BY <2>3, <2>4, <2>5
<1>6. ASSUME NEW t \in Threads, Fails(t) PROVE TypeOK' /\ Typed'
  BY <1>6 DEF Fails, Forget, Leave, driver, ghosts
<1>7. ASSUME NEW t \in Threads, PollReturns(t) PROVE TypeOK' /\ Typed'
  <2>1. HasInput \in BOOLEAN
    BY DEF HasInput
  <2> QED  BY <1>7, <2>1 DEF PollReturns, Polled, Leave, driver
<1>8. ASSUME NEW t \in Threads, PollFails(t) PROVE TypeOK' /\ Typed'
  BY <1>8 DEF PollFails, Polled, Leave, driver, ghosts
<1>9. ASSUME NEW t \in Threads, ReadReturns(t) PROVE TypeOK' /\ Typed'
  <2> USE <1>9 DEF ReadReturns, Leave
  <2>1. waiting' \in 0..MaxIn
    OBVIOUS
  <2> QED  BY <2>1
<1>10. ASSUME NEW t \in Threads, Interrupted(t) PROVE TypeOK' /\ Typed'
  BY <1>10 DEF Interrupted, driver, ghosts
<1>11. ASSUME NEW t \in Threads, Poll(t) PROVE TypeOK' /\ Typed'
  BY <1>11 DEF Poll, Enter, Idle, driver, ghosts
<1>12. ASSUME NEW t \in Threads, Read(t) PROVE TypeOK' /\ Typed'
  BY <1>12 DEF Read, Enter, Idle, driver, ghosts
<1>13. ASSUME NEW t \in Threads, Discard(t) PROVE TypeOK' /\ Typed'
  BY <1>13 DEF Discard, driver, ghosts
<1>14. ASSUME NEW t \in Threads, NEW s \in Signals, NEW v \in BOOLEAN, SetSignal(t, s, v) PROVE TypeOK' /\ Typed'
  BY <1>14 DEF SetSignal, Enter, Idle, driver, ghosts
<1>15. ASSUME NEW t \in Threads, NEW r \in Requests, SetAttributes(t, r) PROVE TypeOK' /\ Typed'
  BY <1>15 DEF SetAttributes, Enter, Idle, driver, ghosts
<1>16. ASSUME Arrive PROVE TypeOK' /\ Typed'
  BY <1>16 DEF Arrive, driver, ghosts
<1>17. ASSUME Shortage PROVE TypeOK' /\ Typed'
  BY <1>17 DEF Shortage, driver, ghosts
<1>18. ASSUME NEW l \in Signals \ (Outputs \cup {"NoneSignal"}), InputLine(l) PROVE TypeOK' /\ Typed'
  BY <1>18 DEF InputLine, driver, ghosts
<1>19. ASSUME UNCHANGED vars PROVE TypeOK' /\ Typed'
  BY <1>19 DEF vars, driver, ghosts
<1> QED  BY <1>1, <1>2, <1>3, <1>4, <1>5, <1>6, <1>7, <1>8, <1>9, <1>10, <1>11, <1>12, <1>13, <1>14, <1>15, <1>16, <1>17, <1>18, <1>19 DEF Next, Step


\* A copy stays fresh until another call writes the driver.
LEMMA FreshKept ==
  ASSUME TypeOK, Typed, Fresh, [Next]_vars
  PROVE  Fresh'
<1> USE SerialPortAssumption DEF TypeOK, Typed, Fresh
<1>1. ASSUME NEW t \in Threads, SignalIsSet(t) PROVE Fresh'
  BY <1>1 DEF SignalIsSet, Wanted, Leave, driver, ghosts
<1>2. ASSUME NEW t \in Threads, GetLines(t) PROVE Fresh'
  BY <1>2 DEF GetLines, driver, ghosts
<1>3. ASSUME NEW t \in Threads, SetLines(t) PROVE Fresh'
  <2> SUFFICES ASSUME NEW u \in Threads, copy'[u] # << >>
               PROVE  /\ pc'[u] = "set_signal" =>
                           \A o \in Outputs \ since'[u] : (o \in copy'[u][1]) <=> (o \in lines')
                      /\ pc'[u] = "set_attributes" /\ "term" \notin since'[u] => copy'[u][1] = term'
    OBVIOUS
  <2>1. u # t /\ copy'[u] = copy[u] /\ pc'[u] = pc[u] /\ term' = term
    BY <1>3 DEF SetLines, Forget, Leave
  <2>2. since'[u] = since[u] \cup Changed(t)
    BY <1>3, <2>1 DEF SetLines, Touched
  <2>3. \A o \in Outputs \ Changed(t) : (o \in lines') <=> (o \in lines)
    BY <1>3 DEF SetLines, Changed
  <2> QED  BY <2>1, <2>2, <2>3
<1>4. ASSUME NEW t \in Threads, GetTermios(t) PROVE Fresh'
  BY <1>4 DEF GetTermios, driver, ghosts
<1>5. ASSUME NEW t \in Threads, SetTermios(t) PROVE Fresh'
  BY <1>5 DEF SetTermios, Forget, Touched, Leave, driver, ghosts
<1>6. ASSUME NEW t \in Threads, Fails(t) PROVE Fresh'
  BY <1>6 DEF Fails, Forget, Leave, driver, ghosts
<1>7. ASSUME NEW t \in Threads, PollReturns(t) PROVE Fresh'
  BY <1>7 DEF PollReturns, Polled, Leave, HasInput, driver, ghosts
<1>8. ASSUME NEW t \in Threads, PollFails(t) PROVE Fresh'
  BY <1>8 DEF PollFails, Polled, Leave, driver, ghosts
<1>9. ASSUME NEW t \in Threads, ReadReturns(t) PROVE Fresh'
  BY <1>9 DEF ReadReturns, Leave, driver, ghosts
<1>10. ASSUME NEW t \in Threads, Interrupted(t) PROVE Fresh'
  BY <1>10 DEF Interrupted, driver, ghosts
<1>11. ASSUME NEW t \in Threads, Poll(t) PROVE Fresh'
  BY <1>11 DEF Poll, Enter, Idle, driver, ghosts
<1>12. ASSUME NEW t \in Threads, Read(t) PROVE Fresh'
  BY <1>12 DEF Read, Enter, Idle, driver, ghosts
<1>13. ASSUME NEW t \in Threads, Discard(t) PROVE Fresh'
  BY <1>13 DEF Discard, driver, ghosts
<1>14. ASSUME NEW t \in Threads, NEW s \in Signals, NEW v \in BOOLEAN, SetSignal(t, s, v) PROVE Fresh'
  BY <1>14 DEF SetSignal, Enter, Idle, driver, ghosts
<1>15. ASSUME NEW t \in Threads, NEW r \in Requests, SetAttributes(t, r) PROVE Fresh'
  BY <1>15 DEF SetAttributes, Enter, Idle, driver, ghosts
<1>16. ASSUME Arrive PROVE Fresh'
  BY <1>16 DEF Arrive, driver, ghosts
<1>17. ASSUME Shortage PROVE Fresh'
  BY <1>17 DEF Shortage, driver, ghosts
<1>18. ASSUME NEW l \in Signals \ (Outputs \cup {"NoneSignal"}), InputLine(l) PROVE Fresh'
  BY <1>18 DEF InputLine, driver, ghosts
<1>19. ASSUME UNCHANGED vars PROVE Fresh'
  BY <1>19 DEF vars, driver, ghosts
<1> QED  BY <1>1, <1>2, <1>3, <1>4, <1>5, <1>6, <1>7, <1>8, <1>9, <1>10, <1>11, <1>12, <1>13, <1>14, <1>15, <1>16, <1>17, <1>18, <1>19 DEF Next, Step


\* A line that is written is the line that was asked for.
LEMMA SignalsKept ==
  ASSUME TypeOK, Typed, Fresh, SignalKept, [Next]_vars
  PROVE  SignalKept'
<1> USE SerialPortAssumption DEF TypeOK, Typed, SignalKept
<1>1. ASSUME NEW t \in Threads, SignalIsSet(t) PROVE SignalKept'
  BY <1>1 DEF SignalIsSet, Wanted, Leave, driver, ghosts
<1>2. ASSUME NEW t \in Threads, GetLines(t) PROVE SignalKept'
  BY <1>2 DEF GetLines, driver, ghosts
<1>3. ASSUME NEW t \in Threads, SetLines(t) PROVE SignalKept'
  <2> SUFFICES ASSUME NEW o \in Outputs, o \notin lost'
               PROVE  (o \in lines') <=> want'[o]
    BY DEF SignalKept
  <2>1. /\ (o \in lines') <=> o \in WithLine(copy[t][1], arg[t][1].signal, arg[t][1].value)
        /\ want'[o] = IF o = arg[t][1].signal THEN arg[t][1].value ELSE want[o]
        /\ arg[t][1].value \in BOOLEAN
    BY <1>3 DEF SetLines, NewLines, Wanted
  <2>2. CASE o = arg[t][1].signal
    BY <2>1, <2>2 DEF WithLine, Lines, Outputs
  <2>3. CASE o # arg[t][1].signal
    <3>1. o \notin since[t] /\ o \notin lost
      BY <1>3, <2>3 DEF SetLines
    <3>2. (o \in copy[t][1]) <=> (o \in lines)
      BY <1>3, <3>1 DEF Fresh, SetLines
    <3>3. (o \in lines) <=> want[o]
      BY <3>1 DEF SignalKept
    <3>4. (o \in lines') <=> (o \in copy[t][1])
      BY <2>1, <2>3 DEF WithLine
    <3> QED  BY <2>1, <2>3, <3>2, <3>3, <3>4
  <2> QED  BY <2>2, <2>3
<1>4. ASSUME NEW t \in Threads, GetTermios(t) PROVE SignalKept'
  BY <1>4 DEF GetTermios, driver, ghosts
<1>5. ASSUME NEW t \in Threads, SetTermios(t) PROVE SignalKept'
  BY <1>5 DEF SetTermios, Forget, Touched, Leave, driver, ghosts
<1>6. ASSUME NEW t \in Threads, Fails(t) PROVE SignalKept'
  BY <1>6 DEF Fails, Forget, Leave, driver, ghosts
<1>7. ASSUME NEW t \in Threads, PollReturns(t) PROVE SignalKept'
  BY <1>7 DEF PollReturns, Polled, Leave, HasInput, driver, ghosts
<1>8. ASSUME NEW t \in Threads, PollFails(t) PROVE SignalKept'
  BY <1>8 DEF PollFails, Polled, Leave, driver, ghosts
<1>9. ASSUME NEW t \in Threads, ReadReturns(t) PROVE SignalKept'
  BY <1>9 DEF ReadReturns, Leave, driver, ghosts
<1>10. ASSUME NEW t \in Threads, Interrupted(t) PROVE SignalKept'
  BY <1>10 DEF Interrupted, driver, ghosts
<1>11. ASSUME NEW t \in Threads, Poll(t) PROVE SignalKept'
  BY <1>11 DEF Poll, Enter, Idle, driver, ghosts
<1>12. ASSUME NEW t \in Threads, Read(t) PROVE SignalKept'
  BY <1>12 DEF Read, Enter, Idle, driver, ghosts
<1>13. ASSUME NEW t \in Threads, Discard(t) PROVE SignalKept'
  BY <1>13 DEF Discard, driver, ghosts
<1>14. ASSUME NEW t \in Threads, NEW s \in Signals, NEW v \in BOOLEAN, SetSignal(t, s, v) PROVE SignalKept'
  BY <1>14 DEF SetSignal, Enter, Idle, driver, ghosts
<1>15. ASSUME NEW t \in Threads, NEW r \in Requests, SetAttributes(t, r) PROVE SignalKept'
  BY <1>15 DEF SetAttributes, Enter, Idle, driver, ghosts
<1>16. ASSUME Arrive PROVE SignalKept'
  BY <1>16 DEF Arrive, driver, ghosts
<1>17. ASSUME Shortage PROVE SignalKept'
  BY <1>17 DEF Shortage, driver, ghosts
<1>18. ASSUME NEW l \in Signals \ (Outputs \cup {"NoneSignal"}), InputLine(l) PROVE SignalKept'
  BY <1>18 DEF InputLine, driver, ghosts
<1>19. ASSUME UNCHANGED vars PROVE SignalKept'
  BY <1>19 DEF vars, driver, ghosts
<1> QED  BY <1>1, <1>2, <1>3, <1>4, <1>5, <1>6, <1>7, <1>8, <1>9, <1>10, <1>11, <1>12, <1>13, <1>14, <1>15, <1>16, <1>17, <1>18, <1>19 DEF Next, Step


\* The framing that is written is the one that was asked for.
LEMMA FramingKept ==
  ASSUME TypeOK, Typed, Fresh, FrameKept, [Next]_vars
  PROVE  FrameKept'
<1> USE SerialPortAssumption DEF TypeOK, Typed, FrameKept
<1>1. ASSUME NEW t \in Threads, SignalIsSet(t) PROVE FrameKept'
  BY <1>1 DEF SignalIsSet, Wanted, Leave, driver, ghosts
<1>2. ASSUME NEW t \in Threads, GetLines(t) PROVE FrameKept'
  BY <1>2 DEF GetLines, driver, ghosts
<1>3. ASSUME NEW t \in Threads, SetLines(t) PROVE FrameKept'
  BY <1>3 DEF SetLines, Wanted, Forget, Touched, Leave, driver, ghosts
<1>4. ASSUME NEW t \in Threads, GetTermios(t) PROVE FrameKept'
  BY <1>4 DEF GetTermios, driver, ghosts
<1>5. ASSUME NEW t \in Threads, SetTermios(t) PROVE FrameKept'
  <2> SUFFICES ASSUME ~raced'
               PROVE  /\ term'.parenb <=> frame'.parity # "None"
                      /\ term'.parodd <=> frame'.parity = "Odd"
                      /\ term'.cstopb <=> frame'.stop = "Two"
    BY DEF FrameKept
  <2> USE <1>5 DEF SetTermios
  <2>1. /\ pc[t] = "set_attributes" /\ copy[t] # << >> /\ copy[t][1] \in Termios
        /\ SetsFraming(arg[t][1]) \/ (~raced /\ copy[t][1] = term)
    BY DEF Fresh
  <2>2. arg[t][1] \in Requests /\ arg[t][1].parity \in Parities /\ arg[t][1].stop \in Stops
    BY DEF Parities, Stops
  <2>3. /\ term'.parenb = IF arg[t][1].parity \in {"Mark", "Space"} THEN copy[t][1].parenb ELSE arg[t][1].parity # "None"
        /\ term'.parodd = IF arg[t][1].parity \in {"Mark", "Space"} THEN copy[t][1].parodd ELSE arg[t][1].parity = "Odd"
        /\ term'.cstopb = IF arg[t][1].stop \in {"One", "Two"} THEN arg[t][1].stop = "Two" ELSE copy[t][1].cstopb
    BY <2>1, <2>2, FramingWritten
  <2>4. /\ frame'.parity = IF arg[t][1].parity \in {"Mark", "Space"} THEN frame.parity ELSE arg[t][1].parity
        /\ frame'.stop = IF arg[t][1].stop \in {"One", "Two"} THEN arg[t][1].stop ELSE frame.stop
    OBVIOUS
  <2> HIDE DEF SetTermios
  <2>5. CASE SetsFraming(arg[t][1])
    <3>1. arg[t][1].parity \notin {"Mark", "Space"} /\ arg[t][1].stop \in {"One", "Two"}
      BY <2>5 DEF SetsFraming
    <3>2. /\ term'.parenb = (arg[t][1].parity # "None") /\ term'.parodd = (arg[t][1].parity = "Odd")
          /\ term'.cstopb = (arg[t][1].stop = "Two")
      BY <2>3, <3>1, Zenon
    <3>3. frame'.parity = arg[t][1].parity /\ frame'.stop = arg[t][1].stop
      BY <2>4, <3>1, Zenon
    <3> QED  BY <3>2, <3>3, Zenon
  <2>6. CASE ~raced /\ copy[t][1] = term
    <3>1. /\ term.parenb <=> frame.parity # "None"
          /\ term.parodd <=> frame.parity = "Odd"
          /\ term.cstopb <=> frame.stop = "Two"
      BY <2>6
    <3>2. term.parenb \in BOOLEAN /\ term.parodd \in BOOLEAN /\ term.cstopb \in BOOLEAN
      BY DEF Termios
    <3> HIDE DEF TypeOK, Typed
    <3> QED  BY <2>3, <2>4, <2>6, <3>1, <3>2
  <2> QED  BY <2>1, <2>5, <2>6
<1>6. ASSUME NEW t \in Threads, Fails(t) PROVE FrameKept'
  BY <1>6 DEF Fails, Forget, Leave, driver, ghosts
<1>7. ASSUME NEW t \in Threads, PollReturns(t) PROVE FrameKept'
  BY <1>7 DEF PollReturns, Polled, Leave, HasInput, driver, ghosts
<1>8. ASSUME NEW t \in Threads, PollFails(t) PROVE FrameKept'
  BY <1>8 DEF PollFails, Polled, Leave, driver, ghosts
<1>9. ASSUME NEW t \in Threads, ReadReturns(t) PROVE FrameKept'
  BY <1>9 DEF ReadReturns, Leave, driver, ghosts
<1>10. ASSUME NEW t \in Threads, Interrupted(t) PROVE FrameKept'
  BY <1>10 DEF Interrupted, driver, ghosts
<1>11. ASSUME NEW t \in Threads, Poll(t) PROVE FrameKept'
  BY <1>11 DEF Poll, Enter, Idle, driver, ghosts
<1>12. ASSUME NEW t \in Threads, Read(t) PROVE FrameKept'
  BY <1>12 DEF Read, Enter, Idle, driver, ghosts
<1>13. ASSUME NEW t \in Threads, Discard(t) PROVE FrameKept'
  BY <1>13 DEF Discard, driver, ghosts
<1>14. ASSUME NEW t \in Threads, NEW s \in Signals, NEW v \in BOOLEAN, SetSignal(t, s, v) PROVE FrameKept'
  BY <1>14 DEF SetSignal, Enter, Idle, driver, ghosts
<1>15. ASSUME NEW t \in Threads, NEW r \in Requests, SetAttributes(t, r) PROVE FrameKept'
  BY <1>15 DEF SetAttributes, Enter, Idle, driver, ghosts
<1>16. ASSUME Arrive PROVE FrameKept'
  BY <1>16 DEF Arrive, driver, ghosts
<1>17. ASSUME Shortage PROVE FrameKept'
  BY <1>17 DEF Shortage, driver, ghosts
<1>18. ASSUME NEW l \in Signals \ (Outputs \cup {"NoneSignal"}), InputLine(l) PROVE FrameKept'
  BY <1>18 DEF InputLine, driver, ghosts
<1>19. ASSUME UNCHANGED vars PROVE FrameKept'
  BY <1>19 DEF vars, driver, ghosts
<1> QED  BY <1>1, <1>2, <1>3, <1>4, <1>5, <1>6, <1>7, <1>8, <1>9, <1>10, <1>11, <1>12, <1>13, <1>14, <1>15, <1>16, <1>17, <1>18, <1>19 DEF Next, Step

-----------------------------------------------------------------------------
(* Theorems *)

\* The invariant holds at the beginning.
LEMMA InvInit == Init => PortInv
<1> SUFFICES ASSUME Init PROVE PortInv
  OBVIOUS
<1> USE SerialPortAssumption DEF Init
<1>1. TypeOK
  <2>1. term \in Termios
    BY DEF Termios, Legal
  <2>2. waiting \in 0..MaxIn
    OBVIOUS
  <2> QED  BY <2>1, <2>2 DEF TypeOK
<1>2. Typed
  BY DEF Typed
<1>3. Fresh /\ SignalKept /\ FrameKept
  BY DEF Fresh, SignalKept, FrameKept, Outputs, Lines
<1> QED  BY <1>1, <1>2, <1>3 DEF PortInv

\* Every step keeps the invariant.
LEMMA InvKept == PortInv /\ [Next]_vars => PortInv'
BY TypesKept, FreshKept, SignalsKept, FramingKept DEF PortInv

\* What the properties below follow from, in every state of every behaviour.
THEOREM PortInvariance == Spec => []PortInv
BY InvInit, InvKept, PTL DEF Spec

\* The modem lines, the settings and the copies that calls hold of them are well formed
\* (serial.c:327, serial.c:503).
THEOREM PortTyped == Spec => []TypeOK
<1>1. PortInv => TypeOK
  BY DEF PortInv
<1> QED  BY <1>1, PortInvariance, PTL

\* set_signal (serial.c:503), for any number of threads, failing calls and whatever the
\* device does: an output line is what the last successful request for it asked, unless
\* a call for the other line read the lines before that request and wrote them after it.
THEOREM LinesAsAsked == Spec => []SignalKept
<1>1. PortInv => SignalKept
  BY DEF PortInv
<1> QED  BY <1>1, PortInvariance, PTL

\* set_attributes (serial.c:327): parity and stop bits are those of the last request for
\* a value that the code handles, unless a request that does not name both wrote back
\* what another request had replaced, and nobody has named both since.
THEOREM FramingAsAsked == Spec => []FrameKept
<1>1. PortInv => FrameKept
  BY DEF PortInv
<1> QED  BY <1>1, PortInvariance, PTL

=============================================================================
