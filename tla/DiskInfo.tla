------------------------------ MODULE DiskInfo ------------------------------
(***************************************************************************)
(* The serial numbers of the computer's drives (jm/diskinfo-win.c, on      *)
(* Windows NT) and the id code that jm/register.c makes of them.  A load   *)
(* asks the drives in three ways, one after the other; any call may fail,  *)
(* with administrator's rights or without, and a drive may answer another  *)
(* sector from one question to the next.                                   *)
(***************************************************************************)
EXTENDS Integers, Sequences, SequencesExt, FiniteSetsExt

CONSTANTS
  Drives,     \* how many drives are asked: MAX_IDE_DRIVES
  Sectors,    \* identify sectors
  Modelled,   \* the sectors with a model number
  ScsiOrder,  \* the drives in the order of the SCSI controllers
  MaxLoads,   \* bound: loads of a behaviour
  MaxChanges  \* bound: answers that change

ASSUME DiskInfoAssumption ==
  /\ Drives \in Nat \ {0} /\ MaxLoads \in Nat /\ MaxChanges \in Nat
  /\ Modelled \subseteq Sectors
  /\ ScsiOrder \in [1..Drives -> 1..Drives]

VARIABLES
  diDisk,     \* the sector that each drive answers
  diChanges,  \* how often that has changed
  diHeap,     \* the sectors that are allocated, by the number of the block
  diMade,     \* blocks allocated so far
  diList,     \* m_list: the numbers of blocks
  diPass,     \* "closed" | "idle" | "admin" | "scsi" | "smart"
  diDrive,    \* the drive that is asked next
  diTold,     \* the sectors this load has been answered, in order
  diLoads     \* loads so far

diMemory == <<diHeap, diMade, diList>>
diVars   == <<diDisk, diChanges, diMemory, diPass, diDrive, diTold, diLoads>>

DiTypeOK ==
  /\ diDisk \in [1..Drives -> Sectors]
  /\ DOMAIN diHeap \subseteq 1..diMade /\ \A b \in DOMAIN diHeap : diHeap[b] \in Sectors
  /\ diList \in Seq(1..diMade)
  /\ diPass \in {"closed", "idle", "admin", "scsi", "smart"} /\ diDrive \in 1..(Drives + 1)

-----------------------------------------------------------------------------
(* The list *)

DiWith(f, x, y) == [z \in DOMAIN f \cup {x} |-> IF z = x THEN y ELSE f[z]]
DiWithout(f, S) == [x \in DOMAIN f \ S |-> f[x]]

\* What the list points to; a block that is freed holds nothing that can be told.
DiHeld == [i \in DOMAIN diList |-> IF diList[i] \in DOMAIN diHeap THEN diHeap[diList[i]] ELSE "freed"]

\* Mutant: every answer is added.
AddAlways(sector) ==
  /\ diMade' = diMade + 1 /\ diHeap' = DiWith(diHeap, diMade', sector)
  /\ diList' = Append(diList, diMade')

\* add_if_new
AddIfNew(sector) ==
  IF sector \in Range(DiHeld) THEN UNCHANGED diMemory
  ELSE /\ diMade' = diMade + 1 /\ diHeap' = DiWith(diHeap, diMade', sector)
       /\ diList' = Append(diList, diMade')

-----------------------------------------------------------------------------
(* A program that loads now and then *)

DiInit ==
  /\ diDisk \in [1..Drives -> Sectors] /\ diChanges = 0
  /\ diHeap = << >> /\ diMade = 0 /\ diList = << >>
  /\ diPass = "closed" /\ diDrive = 1 /\ diTold = << >> /\ diLoads = 0

\* disk_info_init, from register_init
DiOpen ==
  /\ diPass = "closed" /\ diPass' = "idle" /\ diTold' = << >>
  /\ UNCHANGED <<diDisk, diChanges, diMemory, diDrive, diLoads>>

\* disk_info_dispose, from register_dispose
DiClose ==
  /\ diPass = "idle" /\ diPass' = "closed"
  /\ diHeap' = DiWithout(diHeap, Range(diList)) /\ diList' = << >> /\ UNCHANGED diMade
  /\ UNCHANGED <<diDisk, diChanges, diDrive, diTold, diLoads>>

\* Mutant: the list keeps the blocks that are freed.
DiLoadKept ==
  /\ diPass = "idle" /\ diLoads < MaxLoads
  /\ diHeap' = DiWithout(diHeap, Range(diList)) /\ UNCHANGED <<diList, diMade>>
  /\ diPass' = "admin" /\ diDrive' = 1 /\ diTold' = << >> /\ diLoads' = diLoads + 1
  /\ UNCHANGED <<diDisk, diChanges>>

\* disk_info_load up to its first question
DiLoad ==
  /\ diPass = "idle" /\ diLoads < MaxLoads
  /\ diHeap' = DiWithout(diHeap, Range(diList)) /\ diList' = << >> /\ UNCHANGED diMade
  /\ diPass' = "admin" /\ diDrive' = 1 /\ diTold' = << >> /\ diLoads' = diLoads + 1
  /\ UNCHANGED <<diDisk, diChanges>>

Loading == diPass \in {"admin", "scsi", "smart"}

\* All three passes are made, whatever the ones before have found.
NextPass == CASE diPass = "admin" -> "scsi" [] diPass = "scsi" -> "smart" [] OTHER -> "idle"

NextDrive ==
  IF diDrive < Drives THEN diDrive' = diDrive + 1 /\ UNCHANGED diPass ELSE diDrive' = 1 /\ diPass' = NextPass

\* A drive that cannot be opened or does not answer.
DriveSilent ==
  /\ Loading /\ NextDrive
  /\ UNCHANGED <<diDisk, diChanges, diMemory, diTold, diLoads>>

\* A drive's answer, for which SCSI asks a model number.
DriveAnswers ==
  /\ Loading /\ NextDrive
  /\ LET sector == diDisk[IF diPass = "scsi" THEN ScsiOrder[diDrive] ELSE diDrive]
     IN  /\ diPass = "scsi" => sector \in Modelled
         /\ AddIfNew(sector) /\ diTold' = Append(diTold, sector)
  /\ UNCHANGED <<diDisk, diChanges, diLoads>>

\* External: a drive answers something else from now on.
DriveChanges ==
  /\ diChanges < MaxChanges /\ diChanges' = diChanges + 1
  /\ \E d \in 1..Drives, s \in Sectors : diDisk' = [diDisk EXCEPT ![d] = s]
  /\ UNCHANGED <<diMemory, diPass, diDrive, diTold, diLoads>>

DiNext == DiOpen \/ DiClose \/ DiLoad \/ DriveSilent \/ DriveAnswers \/ DriveChanges

DiSpec == DiInit /\ [][DiNext]_diVars

-----------------------------------------------------------------------------
(* Properties *)

\* x was told, and y was not told before.
ToldFirst(x, y) == \E k \in DOMAIN diTold : diTold[k] = x /\ \A l \in 1..k : diTold[l] # y

\* A drive counts once though it answers several passes, in the order of its first
\* answer and whatever earlier loads have found: an id code is that of the drives now.
DiListed ==
  diPass # "closed" =>
    /\ Range(DiHeld) = Range(diTold)
    /\ \A i, j \in DOMAIN DiHeld : i < j => ToldFirst(DiHeld[i], DiHeld[j])

\* Every block is in the list, once, or freed; none is left when the list is.
DiOwned ==
  /\ Range(diList) = DOMAIN diHeap /\ IsInjective(diList)
  /\ diPass = "closed" => diHeap = << >>

DiCorrect == DiListed /\ DiOwned

=============================================================================
