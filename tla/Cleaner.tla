------------------------------ MODULE Cleaner ------------------------------
(***************************************************************************)
(* The cleaner, FileLayer::RunCleaner of layers/file.hpp, beside the       *)
(* requests of the file layer.  It works from the usage table on flash,    *)
(* copies the blocks of a segment that are still in use to the tail and    *)
(* erases the segment.  The directory layer calls it before each of its    *)
(* requests; here it may run between any two requests of the file layer.   *)
(***************************************************************************)
EXTENDS FileLayer

CONSTANTS
    CleaningStart, \* cleaningStartThreshold
    CleaningEnd    \* cleaningEndThreshold

ASSUME CleanerAssumption ==
    /\ CleaningStart \in Nat /\ CleaningEnd \in Nat
    \* Read as a block of a file, a block number of a segment is in range.
    /\ SegBlocks < maxFileBlocks

CleanSegments(table) == {s \in DataSegments : table.live[s] = 0}

\* ComputePolicy, with the live bytes counted in whole blocks: a segment that
\* was never written, or holds one live block, has policy 0 and is passed over.
Candidates(table) == {s \in table.aged : table.live[s] # 1}

\* (1 - u) * age / (1 + u) falls with the live blocks u; segments with as many
\* live blocks are told apart by age, and taken in any order here.
CleaningOrders(table) ==
    {q \in SetToSeqs(Candidates(table)) :
        \A i, j \in DOMAIN q : i < j => table.live[q[i]] <= table.live[q[j]]}

\* Where the owner that a summary names has the block now.  A summary entry
\* with a negative number is an indirect block's.
CurrentAddress(g, inode, fileBlock) ==
    IF fileBlock = INDIRECT_BLOCK THEN inode.indirect
    ELSE GetBlockAddress(g, inode, fileBlock)

\* The results of the calls are added up.
INodeMoved(u, ret) ==
    LET i == UpdateIFile(u.fs, u.inode)
    IN  [fs |-> i.fs, ret |-> ret + u.ret + i.ret]

\* The old block stays behind in the segment that is cleaned: Log_Free is not
\* called for it.
BlockMoved(w, inode, fileBlock, old) ==
    INodeMoved(UpdateINodeBlock(Leak(w.fs, {old}), inode, fileBlock, w.addr), w.ret)

\* Handing UpdateINodeBlock the number of an indirect block stores far outside
\* the buffer: the process dies.
StrayStore(w) == [fs |-> Throw(w.fs), ret |-> 1]

\* Mutant: a block that is moved is entered under the number 0.
MislabelledMove(g, inode, slot, old) ==
    IF slot.fb = INDIRECT_BLOCK
    THEN StrayStore(Log_Write(g, slot.inum, 0, slot.data))
    ELSE BlockMoved(Log_Write(g, slot.inum, 0, slot.data), inode, slot.fb, old)

\* A block still in use is written to the tail and its inode updated.
MoveBlock(g, inode, slot, old) ==
    IF slot.fb = INDIRECT_BLOCK
    THEN StrayStore(Log_Write(g, slot.inum, slot.fb, slot.data))
    ELSE BlockMoved(Log_Write(g, slot.inum, slot.fb, slot.data), inode, slot.fb, old)

\* Mutant: a block is moved also if the file has it elsewhere by now.
CredulousCleanBlock(acc, slots, s, b) ==
    LET g       == acc.fs
        slot    == slots[b]
        inode   == GetINode(g, slot.inum)
    IN  IF acc.ret # 0 \/ slot = NO_INUM THEN acc
        ELSE IF inode = Dead THEN [fs |-> Throw(g), ret |-> 1]
        ELSE MoveBlock(g, inode, slot, [seg |-> s, blk |-> b])

\* Block b of a segment whose slots were read from flash.
CleanBlock(acc, slots, s, b) ==
    LET g       == acc.fs
        slot    == slots[b]
        inode   == GetINode(g, slot.inum)
        current == CurrentAddress(g, inode, slot.fb)
    IN  IF acc.ret # 0 \/ slot = NO_INUM THEN acc
        ELSE IF inode = Dead THEN [fs |-> Throw(g), ret |-> 1]
        ELSE IF current = Dead THEN [fs |-> Throw(g), ret |-> 1]
        ELSE IF current # [seg |-> s, blk |-> b] THEN acc
        ELSE MoveBlock(g, inode, slot, current)

\* Lapses of the cleaner.  "stale": a segment is cleaned that the log has taken
\* into use again, so that its blocks on flash are not the ones files have.
\* "lost": an indirect block is taken for a block that nobody has.
CleanerLapses(g, s) ==
    {l \in {"stale", "lost"} :
       \/ l = "stale" /\ s = g.tail.seg
       \/ l = "lost" /\ \E a \in IndirectBlocks(g) :
             a.seg = s /\ g.media[s][a.blk].fb # INDIRECT_BLOCK}

\* The first count blocks of segment s.
CleanBlocks(g, s, count) ==
    LET turn[n \in 0 .. SegBlocks] ==
          IF n = 0 THEN [fs |-> g, ret |-> 0]
          ELSE CleanBlock(turn[n - 1], g.media[s], s, n)
    IN  turn[count]

\* Mutant: the last block of the segment is not looked at.
ShortCleanSegment(g, s) ==
    CleanBlocks([g EXCEPT !.lapses = @ \cup CleanerLapses(g, s)], s, SegBlocks - 1)

CleanSegment(g, s) ==
    CleanBlocks([g EXCEPT !.lapses = @ \cup CleanerLapses(g, s)], s, SegBlocks)

\* Mutant: the erased segment keeps its count of live blocks.
CountKeepingErase(g, s) ==
    [g EXCEPT !.full = @ \ {s}, !.aged = @ \ {s},
              !.table = [live |-> g.live, aged |-> g.aged \ {s}],
              !.leaked = {a \in @ : a.seg # s}]

EraseSegment(g, s) ==
    LET live == [g.live EXCEPT ![s] = 0]
        aged == g.aged \ {s}
    IN  [g EXCEPT !.full = @ \ {s}, !.live = live, !.aged = aged,
                  !.table = [live |-> live, aged |-> aged],
                  !.leaked = {a \in @ : a.seg # s}]

SegmentCleaned(c, s, clean) ==
    IF c.ret # 0 THEN [fs |-> c.fs, ret |-> c.ret, clean |-> clean]
    ELSE [fs |-> EraseSegment(c.fs, s), ret |-> 0, clean |-> clean + 1]

\* One turn of CleanLog's loop.  Every segment cleaned counts as one more clean
\* segment, also if it held nothing and was counted before.  What a turn after
\* a lapse reads as addresses is not followed.
CleanNext(acc, s) ==
    IF acc.ret # 0 \/ acc.clean >= CleaningEnd \/ acc.fs.lapses # {} THEN acc
    ELSE SegmentCleaned(CleanSegment(acc.fs, s), s, acc.clean)

CleanLog(g, order) ==
    LET turn[n \in 0 .. Len(order)] ==
          IF n = 0
          THEN [fs |-> g, ret |-> 0, clean |-> Cardinality(CleanSegments(g.table))]
          ELSE CleanNext(turn[n - 1], order[n])
    IN  turn[Len(order)]

RunCleaner ==
    /\ Cardinality(CleanSegments(fs.table)) <= CleaningStart
    /\ \E order \in CleaningOrders(fs.table) : fs' = CleanLog(fs, order).fs
    /\ UNCHANGED contents

CleanerNext ==
    /\ Running /\ requests < MaxRequests
    /\ requests' = requests + 1
    /\ \/ \E i \in INums : Request(i)
       \/ RunCleaner

CleanerSpec == Init /\ [][CleanerNext]_vars

----------------------------------------------------------------------------
(* Properties. *)

\* A segment that was erased, and is not the tail, holds no block of a file:
\* the cleaner erases a segment only once everything in it that a file still
\* has was copied.
ErasedSegmentsAreUnused ==
    fs.lapses = {} =>
       \A a \in Reachable(fs) : a.seg = fs.tail.seg \/ a.seg \in fs.full

\* The indirect block of a file is still an indirect block.
IndirectKept(inode) ==
    \/ inode.indirect = NoAddress
    \/ LET slot == Slots(fs, inode.indirect.seg)[inode.indirect.blk]
       IN  slot # NO_INUM /\ DOMAIN slot.data = DOMAIN NoIndirect

\* tests/cleaner_test.cpp:83-97 asserts that after a cleaning that returned 0
\* every file that was not freed reads as it was written: its direct blocks and
\* the blocks its indirect block names.
CleaningKeepsFiles ==
    fs.lapses \subseteq {"stale", "lost"} =>
       \A i \in Promised :
          /\ GetINode(fs, i) # Dead
          /\ IndirectKept(GetINode(fs, i))
          /\ File_Read(fs, i) = contents[i]
============================================================================
