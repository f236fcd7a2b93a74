----------------------------- MODULE FileLayer -----------------------------
(***************************************************************************)
(* The file layer, layers/file.hpp, on the log of one mount: files made of *)
(* blocks that a direct or an indirect address names, inodes kept in the   *)
(* ifile, and the ifile's own inode kept by the log.  One action per       *)
(* request of the directory layer, with every log call it makes.           *)
(*                                                                         *)
(* A request changes the record fs step by step, so each method is an      *)
(* operator from an fs to the fs it leaves behind.  The log is the one of  *)
(* module Log with a flash that obeys: erases and checkpoints never fail.  *)
(* A segment in the cache, which modules SegmentCache and Log model, holds *)
(* what is on flash, so that all there is to know of the cache here is     *)
(* whether a segment that becomes the tail while it is still full is read  *)
(* from there: keeps decides it, for every way the cache may have been     *)
(* used.  Such a tail is never written, so there is one in a mount.        *)
(*                                                                         *)
(* Sizes and offsets are counted in units: a unit of the ifile is a whole  *)
(* inode, a unit of another file a piece of its data, and a block has      *)
(* BlockSize units.  (96-byte inodes that straddle two blocks are left     *)
(* out.)                                                                   *)
(***************************************************************************)
EXTENDS Integers, Sequences, FiniteSets, SequencesExt, FiniteSetsExt

CONSTANTS
    NSegments,     \* the data segments of the flash are 1 .. NSegments
    SegBlocks,     \* blocks of a segment after its summary block
    NDirect,       \* direct addresses of an inode: 4 in the code
    NIndirect,     \* numLogAddrInBlock
    BlockSize,     \* blockSizeInBytes, in units
    Interval,      \* checkpointInterval
    UIntBlocks,    \* 2^32 bytes, in blocks: where liveBytesInSegment wraps
    Data,          \* a piece of a file's data
    Zero,          \* a piece full of zeros
    Extents,       \* the <<offset, length>> pairs that are written
    Sizes,         \* the sizes files are truncated to
    Modes,         \* the permissions files are given
    MaxINum,       \* bound: no file beyond this inum is created
    MaxRequests,   \* bound: the requests of a history
    NO_INUM,       \* an empty slot of a summary
    NoAddress,     \* EMPTY_DIRECT_BLOCK_ADDRESS in both fields
    Dead,          \* the read of a slot that is empty, where the code throws
    NoFile,        \* no file with this inum was created
    Unknown        \* a request on the file was refused: nothing is promised

IFILE_INUM          == 0
ROOT_DIRECTORY_INUM == 1
INDIRECT_BLOCK      == -1

DataSegments  == 1 .. NSegments
FLASH_FULL    == NSegments + 2
INums         == 1 .. MaxINum
maxFileBlocks == NDirect + NIndirect

ASSUME FileAssumption ==
    /\ {NSegments, SegBlocks, NDirect, NIndirect, BlockSize, MaxINum, MaxRequests}
          \subseteq Nat \ {0}
    \* mklfs fills two blocks and leaves the segment partly filled.
    /\ SegBlocks >= 3
    /\ Interval \in Nat
    /\ UIntBlocks \in Nat /\ UIntBlocks > SegBlocks
    /\ Extents \subseteq Nat \X Nat /\ Sizes \subseteq Nat
    \* An offset is never past the last block a file may have.
    /\ MaxINum <= maxFileBlocks * BlockSize
    /\ \A e \in Extents : e[1] + e[2] <= maxFileBlocks * BlockSize
    /\ \A n \in Sizes : n <= maxFileBlocks * BlockSize
    /\ Zero \notin Data
    /\ Modes # {}

VARIABLES
    fs,            \* the flash, the log and the file layer's own field
    contents,      \* what the caller of every file was promised
    requests       \* the requests made so far

vars == <<fs, contents, requests>>

Address      == [seg : DataSegments, blk : 1 .. SegBlocks]
MaybeAddress == Address \cup {NoAddress}
Unit         == Data \cup {Zero}

\* What a block of the log holds: units of a file, inodes of the ifile, or
\* the addresses of an indirect block.
INode ==
    [inUse : BOOLEAN, inum : 0 .. MaxINum, fileSize : Nat, permissions : Modes,
     direct : [0 .. NDirect - 1 -> MaybeAddress], indirect : MaybeAddress]
FileBlock     == [0 .. BlockSize - 1 -> Unit \cup INode]
IndirectBlock == [0 .. NIndirect - 1 -> MaybeAddress]
SummarySlot   == [inum : 0 .. MaxINum, fb : Int, data : FileBlock \cup IndirectBlock]

ASSUME SentinelAssumption ==
    /\ NoAddress \notin Address
    /\ Dead \notin MaybeAddress \cup INode
    /\ Dead \notin FileBlock \cup IndirectBlock
    /\ \A v \in {Dead, NoFile, Unknown} : v \notin Seq(Unit)
    /\ NoFile # Unknown
    /\ NO_INUM \notin SummarySlot

EmptySlots == [b \in 1 .. SegBlocks |-> NO_INUM]
ZeroBlock  == [u \in 0 .. BlockSize - 1 |-> Zero]
NoBlocks   == [b \in 0 .. NDirect - 1 |-> NoAddress]
NoIndirect == [b \in 0 .. NIndirect - 1 |-> NoAddress]

NewINode(inum, mode) ==
    [inUse |-> TRUE, inum |-> inum, fileSize |-> 0, permissions |-> mode,
     direct |-> NoBlocks, indirect |-> NoAddress]

\* What a read of no bytes leaves in a cleared inode.
ZeroINode == [NewINode(0, CHOOSE m \in Modes : TRUE) EXCEPT !.inUse = FALSE]

\* A lapse is something the code lets happen and carries on after.  "full":
\* the flash is full; "dirty": the segment of the tail was never erased, so it
\* cannot be written; "indirect": an indirect block was refused and the caller
\* was not told; "cached": the segment of the tail was never erased and the cache
\* still has its old blocks.  "terminated" is a throw, after which nothing runs.
Lapse(g, l) == [g EXCEPT !.lapses = @ \cup {l}]
Throw(g)    == Lapse(g, "terminated")

\* Blocks no file has any more and that no Log_Free was called for.
Leak(g, addresses) == [g EXCEPT !.leaked = @ \cup (addresses \ {NoAddress})]

----------------------------------------------------------------------------
(* The log. *)

EmptyBlocks(slots) == {b \in 1 .. SegBlocks : slots[b] = NO_INUM}
LiveBlocks(slots)  == SegBlocks - Cardinality(EmptyBlocks(slots))

\* getSegment: the cache is asked first, then the tail.  An old copy of the tail
\* stays cached until the end of the request; after that nothing is followed.
Slots(g, s) ==
    IF s = g.tail.seg /\ "cached" \notin g.lapses
    THEN g.tail.slots ELSE g.media[s]

GetCleanSegment(live) ==
    LET clean == {s \in DataSegments : live[s] = 0}
    IN  IF clean = {} THEN FLASH_FULL ELSE Min(clean)

Log_Read(g, a) ==
    LET slot == Slots(g, a.seg)[a.blk]
    IN  IF slot = NO_INUM THEN Dead ELSE slot.data

\* Mutant: the counter of live bytes does not wrap.
UnboundedFree(g, a) ==
    IF a = NoAddress THEN g
    ELSE [g EXCEPT !.live[a.seg] = @ - 1,
                   !.tail.slots = IF a.seg = g.tail.seg
                                  THEN [@ EXCEPT ![a.blk] = NO_INUM] ELSE @]

Log_Free(g, a) ==
    IF a = NoAddress THEN g
    ELSE [g EXCEPT !.live[a.seg] = (@ - 1) % UIntBlocks,
                   !.tail.slots = IF a.seg = g.tail.seg
                                  THEN [@ EXCEPT ![a.blk] = NO_INUM] ELSE @]

\* The usage of the tail's segment is counted again and saved, and the ifile's
\* inode kept for the next checkpoint, whether or not the flash takes the
\* segment.
Recounted(g) ==
    LET s    == g.tail.seg
        live == [g.live EXCEPT ![s] = LiveBlocks(g.tail.slots)]
    IN  [g EXCEPT !.live = live, !.aged = @ \cup {s}, !.partial = FALSE,
                  !.table = [live |-> live, aged |-> g.aged \cup {s}],
                  !.ckptINode = g.root,
                  !.writes = Min({@ + 1, Interval})]

\* Mutant: the ifile's inode of the moment is saved, not the one kept.
HastyCheckpointNow(g) ==
    [g EXCEPT !.writes = 0,
              !.saved = [root |-> g.root,
                         last |-> IF g.partial THEN g.tail.seg
                                  ELSE g.tail.seg - 1]]

\* The segment written last is taken to be the one before the tail.
CheckpointNow(g) ==
    [g EXCEPT !.writes = 0,
              !.saved = [root |-> g.ckptINode,
                         last |-> IF g.partial THEN g.tail.seg
                                  ELSE g.tail.seg - 1]]

\* The segment of the tail is on flash and the first segment without live
\* blocks becomes the tail.
NextTail(g) ==
    [g EXCEPT !.media[g.tail.seg] = g.tail.slots,
              !.full = @ \cup {g.tail.seg},
              !.tail = [seg |-> GetCleanSegment(g.live), slots |-> EmptySlots]]

\* The new tail may have been full, and the cache may still have it.
Reused(g) ==
    IF g.keeps /\ g.tail.seg \in g.full THEN Lapse(g, "cached") ELSE g

CheckpointIfDue(g) == IF g.writes >= Interval THEN CheckpointNow(g) ELSE g

\* A full tail goes to flash, which refuses a segment that was not erased.
\* Only the segment found partly filled at mount is erased first.
WriteTail(g) ==
    IF g.tail.seg \in g.full /\ ~ g.partial
    THEN [fs |-> Lapse(Recounted(g), "dirty"), ret |-> 1]
    ELSE [fs |-> CheckpointIfDue(Reused(NextTail(Recounted(g)))), ret |-> 0]

\* The slot goes into entry e of the tail, which is written when that was the
\* last one.
Place(g, e, slot) ==
    LET placed == [g EXCEPT !.tail.slots[e] = slot]
    IN  IF e = SegBlocks THEN WriteTail(placed) ELSE [fs |-> placed, ret |-> 0]

WithAddress(r, a) == [fs |-> r.fs, ret |-> r.ret, addr |-> a]

\* Mutant: the summary entry holds the block's number in its segment.
MislabelledWrite(g, inum, fileBlock, data) ==
    LET free == EmptyBlocks(g.tail.slots)
        e    == Min(free)
    IN  IF g.tail.seg = FLASH_FULL
        THEN [fs |-> Lapse(g, "full"), ret |-> 1, addr |-> NoAddress]
        ELSE IF free = {}
        THEN [fs |-> Throw(g), ret |-> 1, addr |-> NoAddress]
        ELSE WithAddress(Place(g, e, [inum |-> inum, fb |-> e, data |-> data]),
                         [seg |-> g.tail.seg, blk |-> e])

\* addr is the address the caller's variable was given, if it was.
Log_Write(g, inum, fileBlock, data) ==
    LET free == EmptyBlocks(g.tail.slots)
        e    == Min(free)
    IN  IF g.tail.seg = FLASH_FULL
        THEN [fs |-> Lapse(g, "full"), ret |-> 1, addr |-> NoAddress]
        ELSE IF free = {}
        THEN [fs |-> Throw(g), ret |-> 1, addr |-> NoAddress]
        ELSE WithAddress(
               Place(g, e, [inum |-> inum, fb |-> fileBlock, data |-> data]),
               [seg |-> g.tail.seg, blk |-> e])

----------------------------------------------------------------------------
(* Inodes and their blocks. *)

\* What the code makes of an old block of another kind is not followed.
Understood(g, v, kind) ==
    IF "cached" \in g.lapses /\ v \notin kind THEN Dead ELSE v

ReadIndirectBlocks(g, inode) ==
    IF inode.indirect = NoAddress THEN NoIndirect
    ELSE Understood(g, Log_Read(g, inode.indirect), IndirectBlock)

GetBlockAddress(g, inode, b) ==
    LET indirect == ReadIndirectBlocks(g, inode)
    IN  IF b < NDirect THEN inode.direct[b]
        ELSE IF indirect = Dead THEN Dead ELSE indirect[b - NDirect]

Fetch(g, a) ==
    CASE a = NoAddress -> ZeroBlock
      [] a = Dead      -> Dead
      [] OTHER         -> Log_Read(g, a)

ReadBlock(g, inode, b) == Fetch(g, GetBlockAddress(g, inode, b))

IndirectWritten(w, inode) ==
    [fs    |-> Leak(w.fs, {inode.indirect}),
     inode |-> IF w.addr = NoAddress THEN inode
               ELSE [inode EXCEPT !.indirect = w.addr],
     ret   |-> w.ret]

\* The indirect block is written anew.  Its summary entry holds the number the
\* old one had as a block of its segment: INDIRECT_BLOCK only for the first.
WriteIndirectBlocks(g, inode, blocks) ==
    IndirectWritten(
        Log_Write(g, inode.inum,
                  IF inode.indirect = NoAddress THEN INDIRECT_BLOCK
                  ELSE inode.indirect.blk, blocks),
        inode)

UpdateINodeBlock(g, inode, b, a) ==
    LET blocks == ReadIndirectBlocks(g, inode)
    IN  IF b < NDirect
        THEN [fs |-> g, inode |-> [inode EXCEPT !.direct[b] = a], ret |-> 0]
        ELSE IF blocks = Dead
        THEN [fs |-> Throw(g), inode |-> inode, ret |-> 1]
        ELSE WriteIndirectBlocks(g, inode, [blocks EXCEPT ![b - NDirect] = a])

\* The result of UpdateINodeBlock is not looked at.
Unchecked(u) ==
    [fs |-> IF u.ret # 0 THEN Lapse(u.fs, "indirect") ELSE u.fs,
     inode |-> u.inode, ret |-> 0]

\* Mutant: a refused write does not stop the ones that follow.
PersistentBlockWritten(w, inode, b) ==
    Unchecked(UpdateINodeBlock(w.fs, inode, b, w.addr))

\* Block b was written to the log, or refused.
BlockWritten(w, inode, b) ==
    IF w.ret # 0 THEN [fs |-> w.fs, inode |-> inode, ret |-> 1]
    ELSE Unchecked(UpdateINodeBlock(w.fs, inode, b, w.addr))

\* The block with the units replaced that a write covers.
Merged(data, b, offset, buffer) ==
    [u \in 0 .. BlockSize - 1 |->
       LET i == b * BlockSize + u - offset + 1
       IN  IF i \in DOMAIN buffer THEN buffer[i] ELSE data[u]]

\* Block b, which holds data, is freed and written elsewhere in the log.
ReplaceBlock(acc, b, data, offset, buffer) ==
    IF data = Dead THEN [acc EXCEPT !.fs = Throw(acc.fs), !.ret = 1]
    ELSE BlockWritten(
           Log_Write(Log_Free(acc.fs, GetBlockAddress(acc.fs, acc.inode, b)),
                     acc.inode.inum, b, Merged(data, b, offset, buffer)),
           acc.inode, b)

\* Mutant: a block is freed before it is read.
HastyWriteFileBlock(acc, b, offset, buffer) ==
    LET freed == [acc EXCEPT
          !.fs = Log_Free(acc.fs, GetBlockAddress(acc.fs, acc.inode, b))]
    IN  IF acc.ret # 0 THEN acc
        ELSE ReplaceBlock(freed, b, ReadBlock(freed.fs, freed.inode, b),
                          offset, buffer)

\* One turn of File_Write's loop, which ends at the first failure.
WriteFileBlock(acc, b, offset, buffer) ==
    IF acc.ret # 0 THEN acc
    ELSE ReplaceBlock(acc, b, ReadBlock(acc.fs, acc.inode, b), offset, buffer)

\* The turns of the loop for the blocks first .. last: a file has no more than
\* maxFileBlocks.
WriteFileBlocks(acc, first, last, offset, buffer) ==
    LET turn[n \in 0 .. maxFileBlocks] ==
          IF n = 0 THEN acc
          ELSE IF first + n - 1 > last THEN turn[n - 1]
          ELSE WriteFileBlock(turn[n - 1], first + n - 1, offset, buffer)
    IN  turn[maxFileBlocks]

\* File_Write after it has the inode and before it hands it to UpdateIFile.
WriteBlocks(g, inode, offset, buffer) ==
    IF offset > inode.fileSize
    THEN [fs |-> g, inode |-> inode, ret |-> 1]
    ELSE [WriteFileBlocks([fs |-> g, inode |-> inode, ret |-> 0],
                          offset \div BlockSize,
                          (offset + Len(buffer) - 1) \div BlockSize,
                          offset, buffer)
            EXCEPT !.inode.fileSize = Max({inode.fileSize, offset + Len(buffer)})]

RootWritten(w) ==
    IF w.ret # 0 THEN [fs |-> w.fs, ret |-> 1]
    ELSE [fs |-> [w.fs EXCEPT !.root = w.inode], ret |-> 0]

\* The ifile's inode goes to the log, any other is written into the ifile.
UpdateIFile(g, inode) ==
    IF inode.inum = IFILE_INUM
    THEN [fs |-> [g EXCEPT !.root = inode], ret |-> 0]
    ELSE RootWritten(WriteBlocks(g, g.root, inode.inum - 1, <<inode>>))

\* Dead stands for the throw of a failed read.
GetINode(g, inum) ==
    LET b     == (inum - 1) \div BlockSize
        block == ReadBlock(g, g.root, b)
    IN  CASE inum > g.iFileSize -> Dead
          [] inum = IFILE_INUM  -> g.root
          [] OTHER ->
               IF GetBlockAddress(g, g.root, b) = NoAddress \/ block = Dead
               THEN Dead
               ELSE IF inum > g.root.fileSize THEN ZeroINode
               ELSE Understood(g, block[(inum - 1) % BlockSize], INode)

\* Inodes are read in turn until one is not in use or cannot be read.
Unused(inode) == inode = Dead \/ ~ inode.inUse

GetUnusedINum(g) ==
    Min({i \in 1 .. g.iFileSize : Unused(GetINode(g, i))} \cup {g.iFileSize + 1})

\* The first length units of a file; Dead if a block of it is missing.
ReadUnits(g, inode, length) ==
    LET blocks == {i \div BlockSize : i \in 0 .. length - 1}
        Missing(b) == \/ GetBlockAddress(g, inode, b) = NoAddress
                      \/ ReadBlock(g, inode, b) = Dead
    IN  IF \E b \in blocks : Missing(b) THEN Dead
        ELSE LET block == [b \in blocks |-> ReadBlock(g, inode, b)]
             IN  [i \in 1 .. length |->
                    block[(i - 1) \div BlockSize][(i - 1) % BlockSize]]

\* File_Read of a whole file.
File_Read(g, inum) ==
    LET inode == GetINode(g, inum)
    IN  IF inode = Dead \/ ~ inode.inUse THEN Dead
        ELSE ReadUnits(g, inode, inode.fileSize)

\* What a client can see of file i.
Seen(g, i) ==
    LET inode == GetINode(g, i)
    IN  IF i > g.root.fileSize THEN NoFile
        ELSE IF inode = Dead THEN Dead
        ELSE IF ~ inode.inUse THEN NoFile
        ELSE ReadUnits(g, inode, inode.fileSize)

----------------------------------------------------------------------------
(* The requests: what each leaves in fs, and what it returns. *)

FileWritten(w) ==
    IF w.ret # 0 THEN [fs |-> w.fs, ret |-> 1] ELSE UpdateIFile(w.fs, w.inode)

File_Write(g, inum, offset, buffer) ==
    LET inode == GetINode(g, inum)
    IN  IF buffer = <<>> THEN [fs |-> g, ret |-> 0]
        ELSE IF inode = Dead THEN [fs |-> Throw(g), ret |-> 1]
        ELSE FileWritten(WriteBlocks(g, inode, offset, buffer))

\* InitNewINode: the ifile is counted as grown before its block is written.
InitNewINode(g, inum, mode) ==
    IF inum <= g.iFileSize /\ GetINode(g, inum) = Dead
    THEN [fs |-> Throw(g), ret |-> 1]
    ELSE UpdateIFile([g EXCEPT !.iFileSize = Max({@, inum})],
                     NewINode(inum, mode))

File_Create(g, mode) == InitNewINode(g, GetUnusedINum(g), mode)

DirectBlocksFreed(g, inode) ==
    LET freed[n \in 0 .. NDirect] ==
          IF n = 0 THEN g ELSE Log_Free(freed[n - 1], inode.direct[n - 1])
    IN  freed[NDirect]

\* The blocks whose addresses the indirect block holds are not freed.
IndirectLeaked(g, indirect) ==
    IF indirect = Dead THEN g
    ELSE Leak(g, {indirect[b] : b \in DOMAIN indirect})

\* Mutant: the indirect block is forgotten, not freed.
ForgetfulEmptied(g, inode) ==
    [fs    |-> IndirectLeaked(DirectBlocksFreed(g, inode),
                              ReadIndirectBlocks(g, inode)),
     inode |-> [inode EXCEPT !.direct = NoBlocks, !.indirect = NoAddress]]

\* The direct blocks and the indirect block are freed.
Emptied(g, inode) ==
    [fs    |-> IndirectLeaked(Log_Free(DirectBlocksFreed(g, inode), inode.indirect),
                              ReadIndirectBlocks(g, inode)),
     inode |-> [inode EXCEPT !.direct = NoBlocks, !.indirect = NoAddress]]

\* The result of UpdateIFile is ignored.
File_Free(g, inum) ==
    LET inode == GetINode(g, inum)
        e     == Emptied(g, inode)
    IN  IF inode = Dead THEN [fs |-> Throw(g), ret |-> 1]
        ELSE [fs |-> UpdateIFile(e.fs, [e.inode EXCEPT !.inUse = FALSE]).fs,
              ret |-> 0]

Resized(units, size) ==
    [i \in 1 .. size |-> IF i <= Len(units) THEN units[i] ELSE Zero]

\* Mutant: the emptied inode is not put back into the ifile.
ForgetfulTruncate(g, inum, size) ==
    LET inode == GetINode(g, inum)
        old   == ReadUnits(g, inode, inode.fileSize)
    IN  CASE inode = Dead -> [fs |-> Throw(g), ret |-> 1]
          [] inode # Dead /\ old = Dead -> [fs |-> Throw(g), ret |-> 1]
          [] OTHER -> File_Write(Emptied(g, inode).fs, inum, 0,
                                 Resized(old, size))

\* Read whole, emptied, and written again at the new size; whether the empty
\* inode reached the ifile is not looked at.
File_Truncate(g, inum, size) ==
    LET inode == GetINode(g, inum)
        old   == ReadUnits(g, inode, inode.fileSize)
        e     == Emptied(g, inode)
        u     == UpdateIFile(e.fs, [e.inode EXCEPT !.fileSize = 0])
    IN  CASE inode = Dead -> [fs |-> Throw(g), ret |-> 1]
          [] inode # Dead /\ old = Dead -> [fs |-> Throw(g), ret |-> 1]
          [] OTHER -> File_Write(u.fs, inum, 0, Resized(old, size))

\* File_Chmod, and File_Chown and File_AddLink in the same way: one field of
\* the inode is read, changed and written back.
File_Chmod(g, inum, mode) ==
    LET inode == GetINode(g, inum)
    IN  IF inode = Dead THEN [fs |-> Throw(g), ret |-> 1]
        ELSE UpdateIFile(g, [inode EXCEPT !.permissions = mode])

----------------------------------------------------------------------------
\* Histories are followed up to the first lapse.
Running  == fs.lapses = {}
Files    == {i \in INums : contents[i] # NoFile}
Promised == {i \in Files : contents[i] # Unknown}

\* Contents a write or a truncation leaves.
Overwritten(units, offset, buffer) ==
    [i \in 1 .. Max({Len(units), offset + Len(buffer)}) |->
        IF i - offset \in DOMAIN buffer THEN buffer[i - offset] ELSE units[i]]

\* r is what a request returned, promise what the caller may then rely on.
\* A truncation or a removal returns 0 even when it was refused, so once
\* something was refused a request promises nothing of the file it names.
Answer(r, inum, promise) ==
    /\ fs' = r.fs
    /\ contents' = [contents EXCEPT ![inum] =
                      IF r.ret = 0 /\ r.fs.lapses \subseteq {"cached"}
                      THEN promise ELSE Unknown]

CreateFile(mode) ==
    Answer(File_Create(fs, mode), GetUnusedINum(fs), <<>>)

WriteFile(inum, offset, buffer) ==
    Answer(File_Write(fs, inum, offset, buffer), inum,
           Overwritten(contents[inum], offset, buffer))

TruncateFile(inum, size) ==
    Answer(File_Truncate(fs, inum, size), inum, Resized(contents[inum], size))

ChmodFile(inum, mode) ==
    Answer(File_Chmod(fs, inum, mode), inum, contents[inum])

FreeFile(inum) ==
    Answer(File_Free(fs, inum), inum, NoFile)

\* mklfs leaves the ifile and the root directory in the first segment, which
\* the mount finds partly filled.
FirstSlots == [EmptySlots EXCEPT
    ![1] = [inum |-> IFILE_INUM, fb |-> 0,
            data |-> [ZeroBlock EXCEPT ![0] =
              [NewINode(ROOT_DIRECTORY_INUM, CHOOSE m \in Modes : TRUE) EXCEPT
                 !.fileSize = BlockSize,
                 !.direct[0] = [seg |-> 1, blk |-> 2]]]],
    ![2] = [inum |-> ROOT_DIRECTORY_INUM, fb |-> 0, data |-> ZeroBlock]]

FirstINode ==
    [NewINode(IFILE_INUM, CHOOSE m \in Modes : TRUE) EXCEPT
       !.fileSize = 1, !.direct[0] = [seg |-> 1, blk |-> 1]]

FirstUsage ==
    [live |-> [s \in DataSegments |-> IF s = 1 THEN 2 ELSE 0], aged |-> {1}]

mklfs(keeps) ==
    [media   |-> [s \in DataSegments |-> IF s = 1 THEN FirstSlots
                                         ELSE EmptySlots],
     full    |-> {1},
     tail    |-> [seg |-> 1, slots |-> FirstSlots],
     partial |-> TRUE,
     live    |-> FirstUsage.live, aged |-> FirstUsage.aged,
     table   |-> FirstUsage,
     root    |-> FirstINode,
     iFileSize |-> 1,
     ckptINode |-> FirstINode, writes |-> 0,
     saved   |-> [root |-> FirstINode, last |-> 1],
     lapses  |-> {},
     keeps   |-> keeps,
     leaked  |-> {}]

Init ==
    /\ \E keeps \in BOOLEAN : fs = mklfs(keeps)
    /\ contents = [i \in INums |-> IF i = ROOT_DIRECTORY_INUM
                                   THEN [u \in 1 .. BlockSize |-> Zero]
                                   ELSE NoFile]
    /\ requests = 0

\* A request that names file i.  The directory layer writes no further than the
\* end of a file, and never frees the root.
Request(i) ==
    \/ i = GetUnusedINum(fs) /\ \E m \in Modes : CreateFile(m)
    \/ /\ i \in Promised
       /\ \/ \E e \in Extents, d \in Data :
                /\ e[1] <= Len(contents[i])
                /\ WriteFile(i, e[1], [u \in 1 .. e[2] |-> d])
          \/ \E n \in Sizes : TruncateFile(i, n)
          \/ \E m \in Modes : ChmodFile(i, m)
          \/ i # ROOT_DIRECTORY_INUM /\ FreeFile(i)

Next ==
    /\ Running /\ requests < MaxRequests
    /\ requests' = requests + 1
    /\ \E i \in INums : Request(i)
Spec == Init /\ [][Next]_vars

----------------------------------------------------------------------------
(* Properties. *)

\* Where a file's blocks are, by block number; and its indirect block.
INodesOf(g) ==
    ({g.root} \cup {GetINode(g, i) : i \in 1 .. Min({g.iFileSize, g.root.fileSize})})
       \ {Dead}
Named(g, inode) ==
    {<<inode.inum, b, GetBlockAddress(g, inode, b)>> :
        b \in {c \in 0 .. maxFileBlocks - 1 :
                 GetBlockAddress(g, inode, c) \notin {NoAddress, Dead}}}
NamedBlocks(g)    == UNION {Named(g, inode) : inode \in INodesOf(g)}
IndirectBlocks(g) == {inode.indirect : inode \in INodesOf(g)} \ {NoAddress}
Reachable(g)      == {n[3] : n \in NamedBlocks(g)} \cup IndirectBlocks(g)

TypeOK ==
    /\ fs.full \subseteq DataSegments /\ fs.aged \subseteq DataSegments
    /\ fs.tail.seg \in 1 .. FLASH_FULL
    /\ fs.live \in [DataSegments -> 0 .. UIntBlocks - 1]
    /\ fs.table.live \in [DataSegments -> 0 .. UIntBlocks - 1]
    /\ fs.table.aged \subseteq DataSegments
    /\ fs.iFileSize \in INums
    /\ \A i \in Promised : contents[i] \in Seq(Data \cup {Zero})

\* As long as nothing was refused and no tail is read from the cache, every file
\* reads as its requests promised: the log's moves of data, of inodes and of the
\* ifile's own inode never lose or mix up a block.
ReadsSeeWrites ==
    fs.lapses = {} => \A i \in Promised : File_Read(fs, i) = contents[i]

\* A full flash refuses a request and leaves every other file as it was.
FullFlashSparesOthers ==
    fs.lapses = {"full"} => \A i \in Promised : File_Read(fs, i) = contents[i]

\* tests/file_test.cpp:219-228: what a write that returned 0 wrote is what a read
\* that returns 0 reads, also when the write went to a segment that had been in
\* use before.
WrittenIsReadBack ==
    fs.lapses \subseteq {"cached"} =>
       \A i \in Promised : File_Read(fs, i) \in {contents[i], Dead}

\* The process dies only after something else went wrong: a write was refused,
\* or the tail is read from the cache.
TerminatesOnlyAfterRefusal ==
    "terminated" \in fs.lapses => fs.lapses # {"terminated"}

\* A segment is counted as holding exactly the blocks that files have there,
\* and the ones that were leaked: GetCleanSegment and the cleaner never take a
\* block of a file for empty, and only indirect blocks are ever lost count of.
UsageIsExact ==
    fs.lapses = {} =>
       \A s \in DataSegments \ {fs.tail.seg} :
          fs.live[s] = Cardinality({a \in Reachable(fs) \cup fs.leaked : a.seg = s})

\* The summary of a segment says whose block each block of a file is, which is
\* how the cleaner and lfsck find the owner of a block.
SummariesNameOwners ==
    fs.lapses = {} =>
       \A n \in NamedBlocks(fs) :
          LET slot == Slots(fs, n[3].seg)[n[3].blk]
          IN  slot # NO_INUM /\ slot.inum = n[1] /\ slot.fb = n[2]
============================================================================
