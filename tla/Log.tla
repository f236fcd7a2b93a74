-------------------------------- MODULE Log --------------------------------
(***************************************************************************)
(* The log layer, layers/log.hpp, during one mount: the tail segment being *)
(* filled in memory, the segment cache, the segment usage table and its    *)
(* copy on flash, and the checkpoints.  One action per public operation,   *)
(* each with everything it calls, on a flash whose calls are atomic (Flash *)
(* models their steps).                                                    *)
(*                                                                         *)
(* The file layer above is a client that owns a set of file blocks.  It    *)
(* writes an owner's block, reads it at the address it was given, frees    *)
(* it, and tells the log the new ifile inode.  Of the ifile inode the log  *)
(* model keeps what recovery needs: which address every owner had when the *)
(* inode was last updated.                                                 *)
(***************************************************************************)
EXTENDS CacheQueue, Integers, FiniteSets

CONSTANTS
    CkptSegment,   \* flashData.checkpointSegment
    FlashSize,     \* flashData.flashSize, in segments
    SegBlocks,     \* flashData.segmentSize - 1: blocks after the summary block
    EraseBlocks,   \* erase blocks per segment
    BlockSectors,  \* FLASH_SECTORS_PER_BLOCK, for the checkpoint sectors
    WearLimit,     \* flashData.wearLimit
    CacheSize,     \* segmentCacheSize
    Interval,      \* checkpointInterval
    UIntBlocks,    \* 2^32 bytes, in blocks: where liveBytesInSegment wraps
    Owners,        \* the (inum, fileBlock) pairs of the client
    Data,          \* contents of a block
    Formatted,     \* the blocks mklfs writes: a sequence of slots
    NO_INUM,       \* an empty slot of a summary
    NoAddress      \* EMPTY_DIRECT_BLOCK_ADDRESS

Slot  == [own : Owners, val : Data]
Slots == [1 .. SegBlocks -> Slot \cup {NO_INUM}]

FirstSegment == CkptSegment + 1
DataSegments == FirstSegment .. FlashSize - 1
TableSegment == CkptSegment - 1
Segments     == DataSegments \cup {TableSegment}
EBs          == 0 .. EraseBlocks - 1
CkptSectors  == EraseBlocks * BlockSectors

\* (unsigned) -9: no segment has that number, nor the number before it.
FLASH_FULL   == FlashSize + 1

Address   == [seg : DataSegments, blk : 1 .. SegBlocks, val : Data]
INode     == [Owners -> Address \cup {NoAddress}]

ASSUME LogAssumption ==
    /\ CkptSegment \in Nat /\ CkptSegment >= 2
    /\ FlashSize \in Nat /\ FlashSize > CkptSegment + 1
    /\ SegBlocks \in Nat /\ SegBlocks > 0
    /\ EraseBlocks \in Nat \ {0}
    /\ BlockSectors \in Nat \ {0}
    /\ WearLimit \in Nat
    /\ CacheSize \in Nat \ {0}
    /\ Interval \in Nat
    /\ UIntBlocks \in Nat /\ UIntBlocks > SegBlocks
    /\ IsFiniteSet(Owners)
    /\ NO_INUM \notin Slot
    /\ NoAddress \notin Address
    /\ Formatted \in Seq(Slot) /\ Len(Formatted) \in 1 .. SegBlocks - 1
    /\ \A i, j \in DOMAIN Formatted :
          Formatted[i].own = Formatted[j].own => i = j

VARIABLES
    \* on flash
    media,         \* media[s]: the summary and the blocks of data segment s
    nand,          \* state and wear regions, per segment and erase block
    table,         \* the usage table stored in the table segment
    used,          \* the sectors of the checkpoint segment that are full
    saved,         \* the newest checkpoint stored there, and its sector
    \* in memory
    up,            \* FALSE once the process has terminated
    tail,          \* tailSegment
    cache,         \* segmentCache, entries [seg, slots]
    usage,         \* segmentUsageTable, live bytes counted in blocks
    iFileINode,
    ckptINode,     \* checkpoint.iFileINode
    ckptSector,    \* checkpointSector, within the checkpoint segment
    recoveredWithPartialSegment,
    writesSinceLastCheckpoint,
    rc,            \* what the last Log_Write or EraseSegment returned
    \* of the client
    blocks         \* where every owner's block is, and what was written there

flashVars  == <<media, nand, table, used, saved>>
memoryVars == <<tail, cache, usage, iFileINode, ckptINode, ckptSector,
                recoveredWithPartialSegment, writesSinceLastCheckpoint, rc>>
vars == <<flashVars, up, memoryVars, blocks>>

----------------------------------------------------------------------------
(* The flash calls of the log layer.  A device n has n.full[s], the erase  *)
(* blocks of segment s with a full sector, and n.wear[s][b].               *)

\* Mutant: a block exactly at its limit may still be erased.
ErasablePastLimit(n, s) == {b \in EBs : \A c \in 0 .. b : n.wear[s][c] <= WearLimit}

\* Flash_Erase works through the blocks in order up to the first worn one.
Erasable(n, s) == {b \in EBs : \A c \in 0 .. b : n.wear[s][c] < WearLimit}

Flash_Erase(n, s, bs) ==
    [full |-> [n.full EXCEPT ![s] = @ \ bs],
     wear |-> [n.wear EXCEPT ![s] =
                 [b \in EBs |-> IF b \in bs THEN n.wear[s][b] + 1
                                            ELSE n.wear[s][b]]]]

\* eraseSegment returns 0 only if every block of the segment was erased.
eraseSegment(n, s) == Flash_Erase(n, s, Erasable(n, s))
EraseFails(n, s)   == Erasable(n, s) # EBs

\* Flash_Write of a whole segment: refused if any sector of it is full.
WriteFails(n, s)   == n.full[s] # {}
Flash_Write(n, s)  == [n EXCEPT !.full[s] = EBs]

\* WriteSegmentUsageTable ignores whether the erase worked.
TableErased(n)         == eraseSegment(n, TableSegment)
TableFails(n)          == WriteFails(TableErased(n), TableSegment)
AfterTableWrite(n)     == IF TableFails(n) THEN TableErased(n)
                          ELSE Flash_Write(TableErased(n), TableSegment)
WriteSegmentUsageTable(n, u, t) == IF TableFails(n) THEN t ELSE u

----------------------------------------------------------------------------

\* The lowest block of the tail that is not in use, 0 if there is none.
EmptyBlock(slots) ==
    IF \E b \in 1 .. SegBlocks : slots[b] = NO_INUM
      THEN CHOOSE b \in 1 .. SegBlocks :
              /\ slots[b] = NO_INUM
              /\ \A c \in 1 .. b - 1 : slots[c] # NO_INUM
      ELSE 0

\* The first segment without live bytes, whether or not it has been erased.
GetCleanSegment(u) ==
    IF \E s \in DataSegments : u[s] = 0
      THEN CHOOSE s \in DataSegments :
              /\ u[s] = 0
              /\ \A t \in FirstSegment .. s - 1 : u[t] # 0
      ELSE FLASH_FULL

EmptySlots == [b \in 1 .. SegBlocks |-> NO_INUM]

\* SegmentFactory::Build
Build(s) == [seg |-> s, slots |-> EmptySlots]

\* Mutant: the recount stops one block early.
LiveBlocksOffByOne(slots) ==
    Cardinality({b \in 1 .. SegBlocks - 1 : slots[b] # NO_INUM})

\* writeSegment's recount of the segment it wrote
LiveBlocks(slots) == Cardinality({b \in 1 .. SegBlocks : slots[b] # NO_INUM})
Recount(u, t)     == [u EXCEPT ![t.seg] = LiveBlocks(t.slots)]

\* writesSinceLastCheckpoint is compared with the interval and nothing else,
\* so the model stops counting there.
Saturate(n) == IF n < Interval THEN n + 1 ELSE n

----------------------------------------------------------------------------
(* CheckpointNow, with tail t and partial flag p.  The next sector is      *)
(* ckptSector + 1, round the segment; it advances even if the write fails. *)
(* At the start of an erase block the code erases block                    *)
(*     checkpointSegment * perSegment + checkpointSector / 16              *)
(* with checkpointSector counted from the start of the flash, that is, a   *)
(* block of segment 2 * checkpointSegment, with the number within its      *)
(* segment that the sector's block has in the checkpoint segment.  mklfs   *)
(* makes the device 16 / blockSize times as large as the file system, so   *)
(* past the data segments the erase finds blocks that nothing uses.        *)

NextSector == (ckptSector + 1) % CkptSectors

LastSegmentWritten(t, p) == IF p THEN t.seg ELSE t.seg - 1

StrayErase(n) ==
    LET s == 2 * CkptSegment
    IN  IF s \in DataSegments
          THEN Flash_Erase(n, s, {b \in EBs : /\ NextSector = b * BlockSectors
                                              /\ n.wear[s][b] < WearLimit})
          ELSE n

CheckpointNow(n, t, p, inode, writes) ==
    /\ ckptSector' = NextSector
    /\ nand' = StrayErase(n)
    /\ IF NextSector \in used
         THEN /\ writesSinceLastCheckpoint' = writes
              /\ UNCHANGED <<used, saved>>
         ELSE /\ used' = used \cup {NextSector}
              /\ saved' = [last |-> LastSegmentWritten(t, p), root |-> inode,
                           sector |-> NextSector]
              /\ writesSinceLastCheckpoint' = 0

NoCheckpoint(n, writes) ==
    /\ nand' = n
    /\ writesSinceLastCheckpoint' = writes
    /\ UNCHANGED <<ckptSector, used, saved>>

----------------------------------------------------------------------------
(* Log_Write.                                                              *)

\* The tail with the block written at its first empty place.
Placed(o, d) ==
    [tail EXCEPT !.slots = [@ EXCEPT ![EmptyBlock(tail.slots)] =
                                         [own |-> o, val |-> d]]]

\* The client takes the address of a Log_Write that returned 0.
Addressed(o, d) ==
    blocks' = [blocks EXCEPT ![o] = [seg |-> tail.seg,
                                     blk |-> EmptyBlock(tail.slots), val |-> d]]

\* "FLASH IS FULL CANNOT WRITE"
WriteToFullFlash(o, d) ==
    /\ up /\ tail.seg >= FlashSize
    /\ rc' = 1
    /\ UNCHANGED <<flashVars, up, tail, cache, usage, iFileINode, ckptINode,
                   ckptSector, recoveredWithPartialSegment,
                   writesSinceLastCheckpoint, blocks>>

\* "No empty block in tail segment": throw, with nothing to rethrow.
WriteWithoutEmptyBlock(o, d) ==
    /\ up /\ tail.seg < FlashSize
    /\ EmptyBlock(tail.slots) = 0
    /\ up' = FALSE
    /\ UNCHANGED <<flashVars, memoryVars, blocks>>

\* The block goes into the tail, in memory only.
WriteBlock(o, d) ==
    /\ up /\ tail.seg < FlashSize
    /\ EmptyBlock(tail.slots) \in 1 .. SegBlocks - 1
    /\ tail' = Placed(o, d)
    /\ Addressed(o, d)
    /\ rc' = 0
    /\ UNCHANGED <<flashVars, up, cache, usage, iFileINode, ckptINode,
                   ckptSector, recoveredWithPartialSegment,
                   writesSinceLastCheckpoint>>

\* The block takes the last place of the tail, which is then written out.
FillsTail == up /\ tail.seg < FlashSize /\ EmptyBlock(tail.slots) = SegBlocks

\* A segment recovered half full is erased before it is written again.
PartialEraseFails == recoveredWithPartialSegment /\ EraseFails(nand, tail.seg)
AfterPartialErase == IF recoveredWithPartialSegment
                       THEN eraseSegment(nand, tail.seg) ELSE nand

\* That erase fails: the call returns 1 and leaves the tail full.
FillEraseFails(o, d) ==
    /\ FillsTail /\ PartialEraseFails
    /\ nand' = AfterPartialErase
    /\ tail' = Placed(o, d)
    /\ rc' = 1
    /\ UNCHANGED <<media, table, used, saved, up, cache, usage, iFileINode,
                   ckptINode, ckptSector, recoveredWithPartialSegment,
                   writesSinceLastCheckpoint, blocks>>

\* What writeSegment does whether or not Flash_Write took the segment.
\* n is the device after the Flash_Write.
SegmentWritten(o, d, n) ==
    /\ ckptINode' = iFileINode
    /\ usage' = Recount(usage, Placed(o, d))
    /\ table' = WriteSegmentUsageTable(n, usage', table)
    /\ recoveredWithPartialSegment' = FALSE
    /\ iFileINode' = iFileINode

\* Flash_Write refuses a segment that was not erased: the call returns 1,
\* but the checkpoint and the usage table are as if it had been written.
FillWriteFails(o, d) ==
    /\ FillsTail /\ ~ PartialEraseFails
    /\ WriteFails(AfterPartialErase, tail.seg)
    /\ SegmentWritten(o, d, AfterPartialErase)
    /\ tail' = Placed(o, d)
    /\ NoCheckpoint(AfterTableWrite(AfterPartialErase),
                    Saturate(writesSinceLastCheckpoint))
    /\ rc' = 1
    /\ UNCHANGED <<media, up, cache, blocks>>

\* The segment is written, goes into the cache, and a new tail is started.
FillWritten(o, d) ==
    LET n == Flash_Write(AfterPartialErase, tail.seg)
        w == Saturate(writesSinceLastCheckpoint)
    IN
    /\ FillsTail /\ ~ PartialEraseFails
    /\ ~ WriteFails(AfterPartialErase, tail.seg)
    /\ ~ containsEntry(cache, tail.seg)
    /\ media' = [media EXCEPT ![tail.seg] = Placed(o, d).slots]
    /\ SegmentWritten(o, d, n)
    /\ cache' = putEntry(cache, Placed(o, d), CacheSize)
    /\ tail' = Build(GetCleanSegment(usage'))
    /\ IF w >= Interval
         THEN CheckpointNow(AfterTableWrite(n), tail', FALSE, iFileINode, w)
         ELSE NoCheckpoint(AfterTableWrite(n), w)
    /\ Addressed(o, d)
    /\ rc' = 0
    /\ up' = up

\* An older copy of the segment is still cached: putEntry throws, after the
\* segment and the table have been written.
FillDuplicate(o, d) ==
    LET n == Flash_Write(AfterPartialErase, tail.seg) IN
    /\ FillsTail /\ ~ PartialEraseFails
    /\ ~ WriteFails(AfterPartialErase, tail.seg)
    /\ containsEntry(cache, tail.seg)
    /\ media' = [media EXCEPT ![tail.seg] = Placed(o, d).slots]
    /\ nand' = AfterTableWrite(n)
    /\ table' = WriteSegmentUsageTable(n, Recount(usage, Placed(o, d)), table)
    /\ up' = FALSE
    /\ UNCHANGED <<used, saved, memoryVars, blocks>>

Log_Write(o, d) ==
    \/ WriteToFullFlash(o, d)
    \/ WriteWithoutEmptyBlock(o, d)
    \/ WriteBlock(o, d)
    \/ FillEraseFails(o, d)
    \/ FillWriteFails(o, d)
    \/ FillWritten(o, d)
    \/ FillDuplicate(o, d)

----------------------------------------------------------------------------

\* Mutant: Log_Free clears the tail's place without comparing the segment.
Log_FreeAnySegment(o) ==
    /\ up /\ blocks[o] # NoAddress
    /\ tail' = [tail EXCEPT !.slots = [@ EXCEPT ![blocks[o].blk] = NO_INUM]]
    /\ usage' = [usage EXCEPT ![blocks[o].seg] = (@ + UIntBlocks - 1) % UIntBlocks]
    /\ blocks' = [blocks EXCEPT ![o] = NoAddress]
    /\ UNCHANGED <<flashVars, up, cache, iFileINode, ckptINode, ckptSector,
                   recoveredWithPartialSegment, writesSinceLastCheckpoint, rc>>

\* The client gives up an owner's block.  A block of the tail becomes empty
\* at once; the usage count goes down either way, modulo 2^32, although the
\* blocks of the tail were not counted.
Log_Free(o) ==
    /\ up /\ blocks[o] # NoAddress
    /\ LET a == blocks[o] IN
       /\ tail' = IF a.seg = tail.seg
                    THEN [tail EXCEPT !.slots = [@ EXCEPT ![a.blk] = NO_INUM]]
                    ELSE tail
       /\ usage' = [usage EXCEPT ![a.seg] = (@ + UIntBlocks - 1) % UIntBlocks]
    /\ blocks' = [blocks EXCEPT ![o] = NoAddress]
    /\ UNCHANGED <<flashVars, up, cache, iFileINode, ckptINode, ckptSector,
                   recoveredWithPartialSegment, writesSinceLastCheckpoint, rc>>

\* Mutant: a hit returns the front of the queue without moving the entry there.
getSegmentFront(s) ==
    IF containsEntry(cache, s) THEN cache[1].slots
    ELSE IF s = tail.seg THEN tail.slots ELSE media[s]

\* getSegment looks in the cache before it looks at the tail.
getSegment(s) ==
    IF containsEntry(cache, s) THEN cache[FindEntry(cache, s)].slots
    ELSE IF s = tail.seg THEN tail.slots ELSE media[s]

\* Log_Read at an owner's address.  The only state it changes is the cache;
\* "Attempting to reading dead block" throws.
Log_Read(o) ==
    /\ up /\ blocks[o] # NoAddress
    /\ LET s == blocks[o].seg IN
       /\ cache' = IF containsEntry(cache, s) THEN getEntry(cache, s)
                   ELSE IF s = tail.seg THEN cache
                   ELSE putEntry(cache, [seg |-> s, slots |-> media[s]], CacheSize)
       /\ up' = (getSegment(s)[blocks[o].blk] # NO_INUM)
    /\ UNCHANGED <<flashVars, tail, usage, iFileINode, ckptINode, ckptSector,
                   recoveredWithPartialSegment, writesSinceLastCheckpoint, rc,
                   blocks>>

UpdateIFileINode ==
    /\ up
    /\ iFileINode' = blocks
    /\ UNCHANGED <<flashVars, up, tail, cache, usage, ckptINode, ckptSector,
                   recoveredWithPartialSegment, writesSinceLastCheckpoint, rc,
                   blocks>>

\* The end of CleanLog's loop body: EraseSegment, whose result is ignored,
\* then InvalidateSegment.  The cleaner has moved the live blocks of the
\* segment to the tail before; the segment may be the tail itself, whose
\* old copy the cleaner read from flash.
EraseAndInvalidate(s) ==
    /\ up
    /\ s = tail.seg \/ \A o \in Owners : blocks[o] # NoAddress => blocks[o].seg # s
    /\ LET n == eraseSegment(nand, s) IN
       IF EraseFails(nand, s)
         THEN /\ nand' = n
              /\ rc' = 1
              /\ UNCHANGED <<usage, table>>
         ELSE /\ usage' = [usage EXCEPT ![s] = 0]
              /\ table' = WriteSegmentUsageTable(n, usage', table)
              /\ nand' = AfterTableWrite(n)
              /\ rc' = IF TableFails(n) THEN 1 ELSE 0
    /\ cache' = invalidateEntry(cache, s)
    /\ UNCHANGED <<media, used, saved, up, tail, iFileINode, ckptINode,
                   ckptSector, recoveredWithPartialSegment,
                   writesSinceLastCheckpoint, blocks>>

----------------------------------------------------------------------------

\* What mklfs leaves on flash: the ifile and the root directory at the start
\* of the first data segment, within its first erase block, as is the usage
\* table in its segment; the first checkpoint in sector 0.
FirstSlots == [b \in 1 .. SegBlocks |->
                  IF b \in DOMAIN Formatted THEN Formatted[b] ELSE NO_INUM]

FirstBlocks ==
    [o \in Owners |->
        IF \E b \in DOMAIN Formatted : Formatted[b].own = o
          THEN LET b == CHOOSE b \in DOMAIN Formatted : Formatted[b].own = o
               IN  [seg |-> FirstSegment, blk |-> b, val |-> Formatted[b].val]
          ELSE NoAddress]

FirstUsage == [s \in DataSegments |-> IF s = FirstSegment THEN Len(Formatted) ELSE 0]

mklfs ==
    /\ media = [s \in DataSegments |->
                   IF s = FirstSegment THEN FirstSlots ELSE EmptySlots]
    /\ nand = [full |-> [s \in Segments |->
                           IF s \in {FirstSegment, TableSegment} THEN {0} ELSE {}],
               wear |-> [s \in Segments |-> [b \in EBs |-> 0]]]
    /\ table = FirstUsage
    /\ used = {0}
    /\ saved = [last |-> FirstSegment, root |-> FirstBlocks, sector |-> 0]

\* Log::Init on a fresh file system: the segment written last is not full,
\* so it becomes the tail again.
FirstMount ==
    /\ up = TRUE
    /\ tail = [seg |-> FirstSegment, slots |-> FirstSlots]
    /\ cache = <<>>
    /\ usage = FirstUsage
    /\ iFileINode = FirstBlocks
    /\ ckptINode = FirstBlocks
    /\ ckptSector = 0
    /\ recoveredWithPartialSegment = TRUE
    /\ writesSinceLastCheckpoint = 0
    /\ rc = 0
    /\ blocks = FirstBlocks

Init == mklfs /\ FirstMount

Next ==
    \/ \E o \in Owners, d \in Data : Log_Write(o, d)
    \/ \E o \in Owners : Log_Free(o) \/ Log_Read(o)
    \/ UpdateIFileINode
    \/ \E s \in DataSegments : EraseAndInvalidate(s)

Spec == Init /\ [][Next]_vars

----------------------------------------------------------------------------

Nand == [full : [Segments -> SUBSET EBs],
         wear : [Segments -> [EBs -> 0 .. WearLimit]]]
Usage == [DataSegments -> 0 .. UIntBlocks - 1]

\* The state is well formed; no erase block is erased past the wear limit.
TypeOK ==
    /\ media \in [DataSegments -> Slots]
    /\ nand \in Nand
    /\ table \in Usage
    /\ used \in SUBSET (0 .. CkptSectors - 1)
    /\ saved \in [last : Nat, root : INode, sector : 0 .. CkptSectors - 1]
    /\ up \in BOOLEAN
    /\ tail \in [seg : DataSegments \cup {FLASH_FULL}, slots : Slots]
    /\ cache \in Seq([seg : DataSegments, slots : Slots])
    /\ Len(cache) <= CacheSize
    /\ usage \in Usage
    /\ iFileINode \in INode
    /\ ckptINode \in INode
    /\ ckptSector \in 0 .. CkptSectors - 1
    /\ recoveredWithPartialSegment \in BOOLEAN
    /\ writesSinceLastCheckpoint \in 0 .. Interval
    /\ rc \in {0, 1}
    /\ blocks \in INode

\* The client's blocks, by block number, in a segment.
LiveIn(s) == {b \in 1 .. SegBlocks :
                 \E o \in Owners : /\ blocks[o] # NoAddress
                                   /\ blocks[o].seg = s /\ blocks[o].blk = b}

\* The usage table never under-counts a written segment, so neither
\* GetCleanSegment nor the cleaner takes one with live blocks for free; nor
\* has the count of a written segment wrapped below zero.
UsageCoversLive ==
    \A s \in DataSegments \ {tail.seg} :
        Cardinality(LiveIn(s)) <= usage[s] /\ usage[s] <= SegBlocks

\* Every block the client holds an address for is intact where the address
\* says, in the tail or on flash, whatever was written, freed, cleaned or
\* refused since.  It follows that no two owners share a block.
LiveStored ==
    \A o \in Owners : blocks[o] # NoAddress =>
        (IF blocks[o].seg = tail.seg THEN tail.slots ELSE media[blocks[o].seg])
            [blocks[o].blk] = [own |-> o, val |-> blocks[o].val]

\* Log_Read of a block that has left the tail returns what was written,
\* however the cache came by its copy of the segment.
SettledReadsSeeWrites ==
    up => \A o \in Owners :
        blocks[o] # NoAddress /\ blocks[o].seg # tail.seg =>
            getSegment(blocks[o].seg)[blocks[o].blk]
                = [own |-> o, val |-> blocks[o].val]
=============================================================================
