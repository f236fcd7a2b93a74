-------------------------- MODULE CheckpointRegion --------------------------
(***************************************************************************)
(* The checkpoint segment: CheckpointNow and RecoverCheckpoint of          *)
(* layers/log.hpp, one flash access per step, with the process dying       *)
(* between any two of them.                                                *)
(*                                                                         *)
(* A checkpoint takes one sector.  CheckpointNow stamps it with the time   *)
(* of day, moves on to the next sector of the segment, round it, and       *)
(* writes it there; RecoverCheckpoint reads every sector and keeps the     *)
(* valid checkpoint with the latest time.  Of a checkpoint's contents the  *)
(* model keeps its time and a number, the order in which it was taken.     *)
(*                                                                         *)
(* Two things are assumed of the host: CLOCK_REALTIME is not set back      *)
(* between two checkpoints, and RecoverCheckpoint's reads succeed (Init    *)
(* ignores its result).                                                    *)
(***************************************************************************)
EXTENDS Integers

CONSTANTS
    CkptSegment,     \* flashData.checkpointSegment
    EraseBlocks,     \* erase blocks per segment
    BlockSectors,    \* FLASH_SECTORS_PER_BLOCK
    ErasesMayFail,   \* the host may fail to erase
    Times,           \* what NanosSinceEpoch may return
    MaxCheckpoints   \* bound on the checkpoints taken

ASSUME RegionAssumption ==
    /\ CkptSegment \in Nat \ {0}
    /\ EraseBlocks \in Nat \ {0}
    /\ BlockSectors \in Nat \ {0}
    /\ Times \subseteq Nat \ {0} /\ Times # {}
    /\ MaxCheckpoints \in Nat \ {0}

NSectors == EraseBlocks * BlockSectors
Sectors  == 0 .. NSectors - 1
Start    == CkptSegment * NSectors   \* checkpointSegmentStartSector

\* A checkpoint with isValid false: memset to 0, or never written.
NotValid   == [num |-> 0, time |-> 0]
Checkpoint == [num : Nat, time : Nat]

VARIABLES
    content,            \* the checkpoint stored in every sector
    full,               \* the sectors whose state is FLASH_STATE_FULL
    clock,              \* CLOCK_REALTIME
    pc,                 \* what the process does next
    checkpoint,         \* the member checkpoint
    checkpointSector,   \* the member, counted from Start
    currSector,         \* of RecoverCheckpoint, counted from Start
    rc,                 \* what the last CheckpointNow returned
    taken,              \* checkpoints taken so far
    recovered           \* the number RecoverCheckpoint came back with last

vars == <<content, full, clock, pc, checkpoint, checkpointSector, currSector,
          rc, taken, recovered>>

Running == {"idle", "erase", "write", "mark"}

----------------------------------------------------------------------------
(* CheckpointNow.                                                          *)

\* Mutant: the sector after the last is not brought back to the first.
StampCheckpointPastEnd ==
    /\ pc = "idle" /\ taken < MaxCheckpoints
    /\ \E now \in Times :
          /\ now > clock
          /\ clock' = now
          /\ checkpoint' = [num |-> taken + 1, time |-> now]
    /\ taken' = taken + 1
    /\ checkpointSector' = checkpointSector + 1
    /\ pc' = "write"
    /\ UNCHANGED <<content, full, currSector, rc, recovered>>

\* The destructor and every checkpointInterval-th segment call it.
StampCheckpoint ==
    /\ pc = "idle" /\ taken < MaxCheckpoints
    /\ \E now \in Times :
          /\ now > clock
          /\ clock' = now
          /\ checkpoint' = [num |-> taken + 1, time |-> now]
    /\ taken' = taken + 1
    /\ checkpointSector' = (checkpointSector + 1) % NSectors
    /\ pc' = IF (Start + checkpointSector') % BlockSectors = 0
               THEN "erase" ELSE "write"
    /\ UNCHANGED <<content, full, currSector, rc, recovered>>

\* The erase block the code computes for "erase old checkpoint".
EraseBlock == CkptSegment * EraseBlocks + (Start + checkpointSector) \div BlockSectors

\* Flash_Erase clears the sectors of that block; its result is ignored.
EraseOldCheckpoint ==
    /\ pc = "erase"
    /\ \/ full' = {s \in full : (Start + s) \div BlockSectors # EraseBlock}
       \/ ErasesMayFail /\ full' = full
    /\ pc' = "write"
    /\ UNCHANGED <<content, clock, checkpoint, checkpointSector, currSector, rc,
                   taken, recovered>>

\* Flash_Write up to the data: a full sector is refused, and the host may
\* fail to write.
WriteCheckpoint ==
    /\ pc = "write"
    /\ \/ /\ checkpointSector \notin full
          /\ content' = [content EXCEPT ![checkpointSector] = checkpoint]
          /\ pc' = "mark"
          /\ rc' = rc
       \/ /\ pc' = "idle"
          /\ rc' = 1
          /\ content' = content
    /\ UNCHANGED <<full, clock, checkpoint, checkpointSector, currSector, taken,
                   recovered>>

\* FlashSetState, and CheckpointNow returns.
MarkCheckpoint ==
    /\ pc = "mark"
    /\ full' = full \cup {checkpointSector}
    /\ rc' = 0
    /\ pc' = "idle"
    /\ UNCHANGED <<content, clock, checkpoint, checkpointSector, currSector,
                   taken, recovered>>

----------------------------------------------------------------------------

\* The process dies, or unmounts.
Stop ==
    /\ pc # "down"
    /\ pc' = "down"
    /\ UNCHANGED <<content, full, clock, checkpoint, checkpointSector, currSector,
                   rc, taken, recovered>>

\* Log::Init up to RecoverCheckpoint's loop.  checkpointSector is a member
\* without an initial value.
BeginRecovery ==
    /\ pc = "down"
    /\ pc' = "scan"
    /\ checkpoint' = NotValid
    /\ checkpointSector' \in Sectors
    /\ currSector' = 0
    /\ rc' = 0
    /\ UNCHANGED <<content, full, clock, taken, recovered>>

\* Mutant: the first valid checkpoint found is kept.
ScanSectorFirst ==
    /\ pc = "scan" /\ currSector < NSectors
    /\ IF content[currSector].num # 0 /\ checkpoint.num = 0
         THEN /\ checkpoint' = content[currSector]
              /\ checkpointSector' = currSector
         ELSE UNCHANGED <<checkpoint, checkpointSector>>
    /\ currSector' = currSector + 1
    /\ UNCHANGED <<content, full, clock, pc, rc, taken, recovered>>

\* Mutant: the loop passes over the first sector.
ScanSectorLate ==
    /\ pc = "scan" /\ currSector < NSectors
    /\ IF currSector > 0 /\ content[currSector].num # 0
            /\ checkpoint.time < content[currSector].time
         THEN /\ checkpoint' = content[currSector]
              /\ checkpointSector' = currSector
         ELSE UNCHANGED <<checkpoint, checkpointSector>>
    /\ currSector' = currSector + 1
    /\ UNCHANGED <<content, full, clock, pc, rc, taken, recovered>>

\* One iteration of the loop: if (curr.isValid && checkpoint.time < curr.time)
ScanSector ==
    /\ pc = "scan" /\ currSector < NSectors
    /\ IF content[currSector].num # 0 /\ checkpoint.time < content[currSector].time
         THEN /\ checkpoint' = content[currSector]
              /\ checkpointSector' = currSector
         ELSE UNCHANGED <<checkpoint, checkpointSector>>
    /\ currSector' = currSector + 1
    /\ UNCHANGED <<content, full, clock, pc, rc, taken, recovered>>

Recovered ==
    /\ pc = "scan" /\ currSector = NSectors
    /\ pc' = "idle"
    /\ recovered' = checkpoint.num
    /\ UNCHANGED <<content, full, clock, checkpoint, checkpointSector, currSector,
                   rc, taken>>

----------------------------------------------------------------------------

\* mklfs writes the first checkpoint into the first sector; the first mount
\* has found it.
Init ==
    \E now \in Times :
       LET first == [num |-> 1, time |-> now] IN
       /\ content = [s \in Sectors |-> IF s = 0 THEN first ELSE NotValid]
       /\ full = {0}
       /\ clock = now
       /\ pc = "idle"
       /\ checkpoint = first
       /\ checkpointSector = 0
       /\ currSector = NSectors
       /\ rc = 0
       /\ taken = 1
       /\ recovered = 1

Next ==
    \/ StampCheckpoint
    \/ EraseOldCheckpoint
    \/ WriteCheckpoint
    \/ MarkCheckpoint
    \/ Stop
    \/ BeginRecovery
    \/ ScanSector
    \/ Recovered

Spec == Init /\ [][Next]_vars

----------------------------------------------------------------------------

\* The state is well formed: checkpointSector, which CheckpointNow moves round
\* the segment, never leaves it, and neither does recovery's scan.
TypeOK ==
    /\ content \in [Sectors -> Checkpoint]
    /\ full \subseteq Sectors
    /\ clock \in Times
    /\ pc \in Running \cup {"down", "scan"}
    /\ checkpoint \in Checkpoint
    /\ checkpointSector \in Sectors
    /\ currSector \in 0 .. NSectors
    /\ rc \in {0, 1}
    /\ taken \in 1 .. MaxCheckpoints
    /\ recovered \in 0 .. MaxCheckpoints

\* assert(checkpoint.isValid) in CheckpointNow never fails: whatever was
\* interrupted, there is a valid checkpoint to recover.
CheckpointIsValid == pc \in Running => checkpoint.num # 0

\* The number of the newest checkpoint on flash.
Newest == CHOOSE n \in {content[s].num : s \in Sectors} :
              \A s \in Sectors : content[s].num <= n

\* README: recovery iterates through the segment and finds the most recent
\* checkpoint.
RecoversNewest == pc = "scan" /\ currSector = NSectors => checkpoint.num = Newest

Mode == IF pc \in Running THEN "mounted" ELSE "down"

Store == INSTANCE CheckpointStore WITH saved <- Newest, recovered <- recovered,
                                       mode <- Mode

\* The region is a store of one checkpoint: one that has been written is
\* never lost to a crash, a full sector or a later write, and every mount
\* comes back with the newest.
ImplementsStore == Store!Spec

\* README.md:54: checkpoints are written to the segment "circularly for wear
\* leveling", and log.hpp:615: CheckpointNow will "erase old checkpoint if
\* neccessary".  So where erases work, the sector that a checkpoint is about to
\* be written to is free, in every lap.
WrittenCircularly == pc = "write" => checkpointSector \notin full
=============================================================================
