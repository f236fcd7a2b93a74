---------------------------- MODULE LogRecovery ----------------------------
(***************************************************************************)
(* The log layer over many mounts: Log, with the process dying between two *)
(* calls or between two flash accesses of a call that writes the tail out, *)
(* with unmounting (the destructor) and with mounting again (Log::Init).   *)
(* What the process had in memory is gone; the client comes back with the  *)
(* addresses that the ifile inode of the checkpoint leads to.              *)
(***************************************************************************)
EXTENDS Log

VARIABLE
    misled   \* a checkpoint was taken with the ifile inode of a segment that the
             \* flash had refused

recoveryVars == <<vars, misled>>

----------------------------------------------------------------------------
(* Dying.  The memory variables keep their values, which nothing reads.    *)

Died == up' = FALSE /\ UNCHANGED <<memoryVars, blocks>>

Crash == up /\ Died /\ UNCHANGED flashVars

\* Flash_Erase clears and Flash_Write marks erase blocks from the first on.
Prefixes == {0 .. k - 1 : k \in 0 .. EraseBlocks}

\* "what if we erase and crash before write?"
CrashInPartialErase(o, d) ==
    /\ FillsTail /\ recoveredWithPartialSegment
    /\ \E bs \in Prefixes :
          /\ bs # {} /\ bs \subseteq Erasable(nand, tail.seg)
          /\ nand' = Flash_Erase(nand, tail.seg, bs)
    /\ Died
    /\ UNCHANGED <<media, table, used, saved>>

\* In Flash_Write of the segment: the data is there, the sectors are marked
\* full up to some erase block.
CrashInWrite(o, d) ==
    /\ FillsTail /\ ~ PartialEraseFails
    /\ ~ WriteFails(AfterPartialErase, tail.seg)
    /\ media' = [media EXCEPT ![tail.seg] = Placed(o, d).slots]
    /\ \E bs \in Prefixes : nand' = [AfterPartialErase EXCEPT !.full[tail.seg] = bs]
    /\ Died
    /\ UNCHANGED <<table, used, saved>>

\* The segment is on flash, and the table segment erased; the new table may
\* have been written to it without being marked yet.
CrashInTableWrite(o, d) ==
    LET n == Flash_Write(AfterPartialErase, tail.seg) IN
    /\ FillsTail /\ ~ PartialEraseFails
    /\ ~ WriteFails(AfterPartialErase, tail.seg)
    /\ media' = [media EXCEPT ![tail.seg] = Placed(o, d).slots]
    /\ nand' = TableErased(n)
    /\ table' \in {table, WriteSegmentUsageTable(n, Recount(usage, Placed(o, d)), table)}
    /\ Died
    /\ UNCHANGED <<used, saved>>

\* The segment and the table are on flash; so may be a checkpoint that is
\* due, its sector not marked yet.
CrashBeforeCheckpoint(o, d) ==
    LET n == Flash_Write(AfterPartialErase, tail.seg)
        u == Recount(usage, Placed(o, d)) IN
    /\ FillsTail /\ ~ PartialEraseFails
    /\ ~ WriteFails(AfterPartialErase, tail.seg)
    /\ media' = [media EXCEPT ![tail.seg] = Placed(o, d).slots]
    /\ table' = WriteSegmentUsageTable(n, u, table)
    /\ \/ /\ nand' = AfterTableWrite(n)
          /\ saved' = saved
       \/ /\ Saturate(writesSinceLastCheckpoint) >= Interval
          /\ NextSector \notin used
          /\ nand' = StrayErase(AfterTableWrite(n))
          /\ saved' = [last |-> LastSegmentWritten(Build(GetCleanSegment(u)), FALSE),
                       root |-> iFileINode, sector |-> NextSector]
    /\ used' = used
    /\ Died

----------------------------------------------------------------------------
(* Unmounting and mounting.                                                *)

\* The tail is still in memory because the flash refused it, and its ifile inode
\* is the one that the next checkpoint takes.
TailRefused == EmptyBlock(tail.slots) = 0 /\ ~ recoveredWithPartialSegment

Misled == misled' = (misled \/ (TailRefused /\ saved' # saved))

\* Mutant: the destructor saves the ifile inode that is in memory.
UnmountLatestINode ==
    /\ up
    /\ CheckpointNow(nand, tail, recoveredWithPartialSegment, iFileINode,
                     writesSinceLastCheckpoint)
    /\ Misled
    /\ up' = FALSE
    /\ UNCHANGED <<media, table, tail, cache, usage, iFileINode, ckptINode,
                   recoveredWithPartialSegment, rc, blocks>>

\* The destructor: a checkpoint, whatever was refused before.  The tail is not
\* written.
Unmount ==
    /\ up
    /\ CheckpointNow(nand, tail, recoveredWithPartialSegment, ckptINode,
                     writesSinceLastCheckpoint)
    /\ Misled
    /\ up' = FALSE
    /\ UNCHANGED <<media, table, tail, cache, usage, iFileINode, ckptINode,
                   recoveredWithPartialSegment, rc, blocks>>

\* Init reads the summary of lastSegmentWritten and fails if that is past the
\* end of the flash.  A client that frees nothing fills the segments in turn, so
\* that any other number is that of a segment written.
Mountable == saved.last # FLASH_FULL - 1

\* A full last segment is followed by the first clean one, any other is
\* filled up.
RecoveredTail(u) ==
    IF media[saved.last][SegBlocks] # NO_INUM
      THEN Build(GetCleanSegment(u))
      ELSE [seg |-> saved.last, slots |-> media[saved.last]]

\* Mutant: the usage table that Init reads is used for the tail and not kept.
MountWithoutTable ==
    /\ ~ up /\ Mountable
    /\ up' = TRUE
    /\ tail' = RecoveredTail(table)
    /\ usage' = [s \in DataSegments |-> 0]
    /\ cache' = <<>>
    /\ iFileINode' = saved.root
    /\ ckptINode' = saved.root
    /\ ckptSector' = saved.sector
    /\ recoveredWithPartialSegment' = (media[saved.last][SegBlocks] = NO_INUM)
    /\ writesSinceLastCheckpoint' = 0
    /\ rc' = 0
    /\ blocks' = saved.root
    /\ UNCHANGED flashVars

ReadSegmentUsageTable == table

\* Log::Log and Log::Init
Mount ==
    /\ ~ up /\ Mountable
    /\ up' = TRUE
    /\ usage' = ReadSegmentUsageTable
    /\ tail' = RecoveredTail(usage')
    /\ cache' = <<>>
    /\ iFileINode' = saved.root
    /\ ckptINode' = saved.root
    /\ ckptSector' = saved.sector
    /\ recoveredWithPartialSegment' = (media[saved.last][SegBlocks] = NO_INUM)
    /\ writesSinceLastCheckpoint' = 0
    /\ rc' = 0
    /\ blocks' = saved.root
    /\ UNCHANGED flashVars

----------------------------------------------------------------------------
(* A client that only appends: it neither frees blocks nor cleans.         *)

AppendStep ==
    \/ \E o \in Owners, d \in Data :
          \/ Log_Write(o, d)
          \/ CrashInPartialErase(o, d)
          \/ CrashInWrite(o, d)
          \/ CrashInTableWrite(o, d)
          \/ CrashBeforeCheckpoint(o, d)
    \/ \E o \in Owners : Log_Read(o)
    \/ UpdateIFileINode
    \/ Crash
    \/ Mount

AppendNext == (AppendStep /\ UNCHANGED misled) \/ Unmount

AppendInit == Init /\ misled = FALSE
AppendSpec == AppendInit /\ [][AppendNext]_recoveryVars

----------------------------------------------------------------------------

\* The usage table can still be replaced.
TableWritable == \A b \in EBs : nand.wear[TableSegment][b] < WearLimit

\* What the checkpoint on flash leads to is on flash.
SavedRootOnFlash ==
    \A o \in Owners : saved.root[o] # NoAddress =>
        media[saved.root[o].seg][saved.root[o].blk]
            = [own |-> o, val |-> saved.root[o].val]

\* At every moment the checkpoint on flash leads to blocks that are on flash,
\* with the contents they had: dying now loses what is newer, and nothing else.
\* Unmounting after the flash refused the tail is the one way to lose that.
SavedRootIntact == TableWritable /\ ~ misled => SavedRootOnFlash

\* Every mount, after whatever crash, finds usage counts that cover the
\* blocks it comes back with, so that GetCleanSegment does not hand out the
\* segment of one.
RecoveredUsageCoversLive == TableWritable => UsageCoversLive

\* A mount comes back with blocks that are where the recovered ifile says,
\* and keeps them while it writes more.
RecoveredLiveStored == TableWritable /\ ~ misled => LiveStored
=============================================================================
