--------------------------- MODULE FileLayerProofs ---------------------------
(***************************************************************************)
(* Proofs about the file layer, for every geometry of the flash and every  *)
(* set of requests.                                                        *)
(*                                                                         *)
(* First, the types, which also hold through requests that go on after     *)
(* they were refused: the record fs is followed through the methods a      *)
(* request calls, and nothing depends on what is read back from the log.   *)
(*                                                                         *)
(* Then, the files, until a request is refused.  The invariant FileInv of  *)
(* FileView says which files the log holds.  Each method gets a lemma      *)
(* named ...Done: from a log that holds some files it either was refused   *)
(* or leaves a log that holds the files it should.  Four safety properties *)
(* of FileLayer follow.                                                    *)
(*                                                                         *)
(* Last, what the request that is refused leaves of the other files: once  *)
(* a write meets a full flash nothing that a file is read through changes. *)
(***************************************************************************)
EXTENDS FileView, FiniteSetTheorems, WellFoundedInduction, TLAPS

\* What every step of a method does to the record: it keeps the types, and
\* never takes a lapse back.
Follows(g, h) == FsTyped(h) /\ g.lapses \subseteq h.lapses

LEMMA GeometryFacts ==
    /\ NSegments \in Nat \ {0} /\ SegBlocks \in Nat /\ SegBlocks >= 3
    /\ NDirect \in Nat \ {0} /\ NIndirect \in Nat \ {0} /\ BlockSize \in Nat \ {0}
    /\ MaxINum \in Nat \ {0} /\ maxFileBlocks \in Nat
    /\ UIntBlocks \in Nat /\ UIntBlocks > SegBlocks
    /\ FLASH_FULL \in Nat /\ FLASH_FULL \notin DataSegments
    /\ DataSegments \subseteq 1 .. FLASH_FULL /\ FLASH_FULL \in 1 .. FLASH_FULL
    /\ INums \subseteq Nat
BY FileAssumption DEF maxFileBlocks, FLASH_FULL, DataSegments, INums

----------------------------------------------------------------------------
(* Induction, and the largest and the least of a set. *)

\* A set with 0 in it and with the successor of every number in it holds all.
LEMMA InductionOnSets ==
    ASSUME NEW S, 0 \in S, \A n \in Nat : n \in S => n + 1 \in S
    PROVE  Nat \subseteq S
<1> DEFINE T == Nat \ S
<1>1. SUFFICES ASSUME T # {} PROVE FALSE
  OBVIOUS
<1>2. PICK x \in T : \A y \in T : ~ (<<y, x>> \in OpToRel(<, Nat))
  BY <1>1, NatLessThanWellFounded, WFMin
<1>3. \A y \in T : ~ (y < x)
  BY <1>2 DEF OpToRel
<1>4. x \in Nat /\ x \notin S
  OBVIOUS
<1>5. x - 1 \in Nat /\ x - 1 < x
  BY <1>4
<1>6. x - 1 \in S
  BY <1>5, <1>3
<1>7. (x - 1) + 1 = x
  BY <1>4
<1> QED
  BY <1>4, <1>5, <1>6, <1>7

LEMMA MaxOfTwo ==
    ASSUME NEW a \in Nat, NEW b \in Nat
    PROVE  Max({a, b}) = IF a >= b THEN a ELSE b
BY DEF Max

LEMMA MinOfNats ==
    ASSUME NEW T, T \subseteq Nat, T # {}
    PROVE  Min(T) \in T /\ \A y \in T : Min(T) <= y
<1>1. PICK x \in T : \A y \in T : ~ (<<y, x>> \in OpToRel(<, Nat))
  BY NatLessThanWellFounded, WFMin
<1>2. \A y \in T : ~ (y < x)
  BY <1>1 DEF OpToRel
<1>3. \A y \in T : x <= y
  BY <1>2
<1> QED
  BY <1>3 DEF Min

\* GetCleanSegment returns a segment counted as empty, or FLASH_FULL.
LEMMA CleanSegmentFound ==
    ASSUME NEW live
    PROVE  \/ GetCleanSegment(live) = FLASH_FULL
           \/ /\ GetCleanSegment(live) \in DataSegments
              /\ live[GetCleanSegment(live)] = 0
<1> DEFINE clean == {s \in DataSegments : live[s] = 0}
<1>1. CASE clean = {}
  BY <1>1 DEF GetCleanSegment
<1>2. CASE clean # {}
  <2>1. clean \subseteq Nat
    BY GeometryFacts DEF DataSegments
  <2>2. Min(clean) \in clean
    BY <1>2, <2>1, MinOfNats
  <2> QED
    BY <2>2, <1>2 DEF GetCleanSegment
<1> QED
  BY <1>1, <1>2

----------------------------------------------------------------------------
(* The log. *)

\* The tail's live blocks are counted in the width of the counter.
LEMMA LiveBlocksFit ==
    ASSUME NEW slots
    PROVE  LiveBlocks(slots) \in 0 .. UIntBlocks - 1
<1>1. EmptyBlocks(slots) \subseteq 1 .. SegBlocks
  BY DEF EmptyBlocks
<1>2. IsFiniteSet(1 .. SegBlocks) /\ Cardinality(1 .. SegBlocks) = SegBlocks
  BY FS_Interval, GeometryFacts
<1>3. /\ Cardinality(EmptyBlocks(slots)) \in Nat
      /\ Cardinality(EmptyBlocks(slots)) <= SegBlocks
  BY <1>1, <1>2, FS_Subset, FS_CardinalityType
<1> QED
  BY <1>3, GeometryFacts DEF LiveBlocks

\* A free takes one off a counter, which wraps within its width.
LEMMA Log_FreeFollows ==
    ASSUME NEW g, FsTyped(g), NEW a
    PROVE  Follows(g, Log_Free(g, a))
<1>1. CASE a = NoAddress
  BY <1>1 DEF Log_Free, Follows
<1>2. CASE a # NoAddress
  <2> DEFINE h == Log_Free(g, a)
             live == [g.live EXCEPT ![a.seg] = (@ - 1) % UIntBlocks]
  <2>1. h.live = live /\ DOMAIN h = StateFields
    BY <1>2 DEF Log_Free, FsTyped, StateFields
  <2>2. live \in LiveCounts
    <3>1. \A n \in 0 .. UIntBlocks - 1 : (n - 1) % UIntBlocks \in 0 .. UIntBlocks - 1
      BY GeometryFacts
    <3> QED
      BY <3>1 DEF FsTyped, LiveCounts
  <2>3. DOMAIN h.tail = {"seg", "slots"} /\ h.tail.seg = g.tail.seg
    BY <1>2 DEF Log_Free, FsTyped, StateFields
  <2>4. /\ h.full = g.full /\ h.aged = g.aged /\ h.table = g.table
        /\ h.iFileSize = g.iFileSize /\ h.lapses = g.lapses
    BY <1>2 DEF Log_Free, FsTyped, StateFields
  <2> QED
    BY <2>1, <2>2, <2>3, <2>4 DEF FsTyped, Follows
<1> QED
  BY <1>1, <1>2

LEMMA LapseFollows ==
    ASSUME NEW g, FsTyped(g), NEW l
    PROVE  Follows(g, Lapse(g, l)) /\ Follows(g, Throw(g))
BY DEF Lapse, Throw, FsTyped, StateFields, Follows

LEMMA LeakFollows ==
    ASSUME NEW g, FsTyped(g), NEW A
    PROVE  Follows(g, Leak(g, A))
BY DEF Leak, FsTyped, StateFields, Follows

LEMMA RecountedFollows ==
    ASSUME NEW g, FsTyped(g), g.tail.seg \in DataSegments
    PROVE  Follows(g, Recounted(g)) /\ Recounted(g).tail = g.tail
<1> DEFINE h == Recounted(g)
           live == [g.live EXCEPT ![g.tail.seg] = LiveBlocks(g.tail.slots)]
<1>1. live \in LiveCounts
  BY LiveBlocksFit DEF FsTyped, LiveCounts
<1>2. /\ h.live = live /\ h.aged = g.aged \cup {g.tail.seg}
      /\ h.table = [live |-> live, aged |-> g.aged \cup {g.tail.seg}]
      /\ h.tail = g.tail /\ h.full = g.full /\ h.iFileSize = g.iFileSize
      /\ h.lapses = g.lapses /\ DOMAIN h = StateFields
  BY DEF Recounted, FsTyped, StateFields
<1> QED
  BY <1>1, <1>2 DEF FsTyped, Follows

LEMMA NextTailFollows ==
    ASSUME NEW g, FsTyped(g), g.tail.seg \in DataSegments
    PROVE  Follows(g, NextTail(g))
<1> DEFINE h == NextTail(g)
<1>1. /\ DOMAIN h = StateFields /\ DOMAIN h.tail = {"seg", "slots"}
      /\ h.full = g.full \cup {g.tail.seg} /\ h.aged = g.aged
      /\ h.live = g.live /\ h.table = g.table /\ h.iFileSize = g.iFileSize
      /\ h.tail.seg = GetCleanSegment(g.live) /\ h.lapses = g.lapses
  BY DEF NextTail, FsTyped, StateFields
<1> QED
  BY <1>1, CleanSegmentFound DEF FsTyped, Follows

LEMMA CheckpointFollows ==
    ASSUME NEW g, FsTyped(g)
    PROVE  Follows(g, CheckpointNow(g)) /\ Follows(g, CheckpointIfDue(g))
BY DEF CheckpointNow, CheckpointIfDue, FsTyped, StateFields, Follows

LEMMA ReusedFollows ==
    ASSUME NEW g, FsTyped(g)
    PROVE  Follows(g, Reused(g))
BY LapseFollows DEF Reused, Follows

LEMMA WriteTailFollows ==
    ASSUME NEW g, FsTyped(g), g.tail.seg \in DataSegments
    PROVE  Follows(g, WriteTail(g).fs)
<1> DEFINE r == Recounted(g)
           n == Reused(NextTail(r))
<1>1. Follows(g, r) /\ r.tail.seg \in DataSegments
  BY RecountedFollows
<1>2. Follows(r, n)
  BY <1>1, NextTailFollows, ReusedFollows DEF Follows
<1> HIDE DEF n
<1>3. Follows(n, CheckpointIfDue(n))
  BY <1>2, CheckpointFollows DEF Follows
<1>4. Follows(r, Lapse(r, "dirty"))
  BY <1>1, LapseFollows DEF Follows
<1> HIDE DEF r
<1>5. \/ WriteTail(g).fs = Lapse(r, "dirty")
      \/ WriteTail(g).fs = CheckpointIfDue(n)
  BY DEF WriteTail, r, n
<1> QED
  BY <1>1, <1>2, <1>3, <1>4, <1>5 DEF Follows

\* Log_Write, refused or not, with a checkpoint or without.
LEMMA Log_WriteFollows ==
    ASSUME NEW g, FsTyped(g), NEW inum, NEW fileBlock, NEW data
    PROVE  Follows(g, Log_Write(g, inum, fileBlock, data).fs)
<1> DEFINE free == EmptyBlocks(g.tail.slots)
           e    == Min(free)
           slot == [inum |-> inum, fb |-> fileBlock, data |-> data]
           placed == [g EXCEPT !.tail.slots[e] = slot]
<1>1. CASE g.tail.seg = FLASH_FULL
  BY <1>1, LapseFollows DEF Log_Write
<1>2. CASE g.tail.seg # FLASH_FULL /\ free = {}
  BY <1>2, LapseFollows DEF Log_Write
<1>3. CASE g.tail.seg # FLASH_FULL /\ free # {}
  <2>1. Follows(g, placed) /\ placed.tail.seg = g.tail.seg
    BY DEF FsTyped, StateFields, Follows
  <2>2. g.tail.seg \in DataSegments
    BY <1>3 DEF FsTyped
  <2>3. Follows(g, Place(g, e, slot).fs)
    BY <2>1, <2>2, WriteTailFollows DEF Place, Follows
  <2>4. Log_Write(g, inum, fileBlock, data).fs = Place(g, e, slot).fs
    BY <1>3 DEF Log_Write, WithAddress
  <2> QED
    BY <2>3, <2>4
<1> QED
  BY <1>1, <1>2, <1>3

----------------------------------------------------------------------------
(* The blocks of a file. *)

\* What a step of a method leaves: the state, the inode in hand, a result.
AccFollows(g, acc) == DOMAIN acc = {"fs", "inode", "ret"} /\ Follows(g, acc.fs)

LEMMA UpdateINodeBlockFollows ==
    ASSUME NEW g, FsTyped(g), NEW inode, NEW b, NEW a
    PROVE  AccFollows(g, UpdateINodeBlock(g, inode, b, a))
<1> DEFINE blocks == ReadIndirectBlocks(g, inode)
           number == IF inode.indirect = NoAddress THEN INDIRECT_BLOCK
                     ELSE inode.indirect.blk
<1>1. ASSUME NEW data PROVE AccFollows(g, WriteIndirectBlocks(g, inode, data))
  <2>1. Follows(g, Log_Write(g, inode.inum, number, data).fs)
    BY Log_WriteFollows
  <2>2. ASSUME NEW w, Follows(g, w.fs) PROVE AccFollows(g, IndirectWritten(w, inode))
    BY <2>2, LeakFollows DEF IndirectWritten, AccFollows, Follows
  <2> QED
    BY <2>1, <2>2 DEF WriteIndirectBlocks
<1>2. Follows(g, Throw(g)) /\ Follows(g, g)
  BY LapseFollows DEF Follows
<1>3. CASE b < NDirect
  BY <1>2, <1>3 DEF UpdateINodeBlock, AccFollows
<1>4. CASE ~ (b < NDirect) /\ blocks = Dead
  BY <1>2, <1>4 DEF UpdateINodeBlock, AccFollows
<1>5. CASE ~ (b < NDirect) /\ blocks # Dead
  BY <1>1, <1>5 DEF UpdateINodeBlock
<1> QED
  BY <1>3, <1>4, <1>5

LEMMA BlockWrittenFollows ==
    ASSUME NEW w, FsTyped(w.fs), NEW inode, NEW b
    PROVE  AccFollows(w.fs, BlockWritten(w, inode, b))
<1>1. ASSUME NEW u, AccFollows(w.fs, u) PROVE AccFollows(w.fs, Unchecked(u))
  BY <1>1, LapseFollows DEF Unchecked, AccFollows, Follows
<1>2. AccFollows(w.fs, UpdateINodeBlock(w.fs, inode, b, w.addr))
  BY UpdateINodeBlockFollows
<1> QED
  BY <1>1, <1>2 DEF BlockWritten, AccFollows, Follows

LEMMA WriteFileBlockFollows ==
    ASSUME NEW acc, AccFollows(acc.fs, acc), NEW b, NEW offset, NEW buffer
    PROVE  AccFollows(acc.fs, WriteFileBlock(acc, b, offset, buffer))
<1> DEFINE data == ReadBlock(acc.fs, acc.inode, b)
<1>1. ASSUME NEW d PROVE AccFollows(acc.fs, ReplaceBlock(acc, b, d, offset, buffer))
  <2> DEFINE freed == Log_Free(acc.fs, GetBlockAddress(acc.fs, acc.inode, b))
             w == Log_Write(freed, acc.inode.inum, b, Merged(d, b, offset, buffer))
  <2>1. Follows(acc.fs, freed)
    BY Log_FreeFollows DEF AccFollows, Follows
  <2>2. Follows(freed, w.fs)
    BY <2>1, Log_WriteFollows DEF Follows
  <2> HIDE DEF freed
  <2>3. AccFollows(w.fs, BlockWritten(w, acc.inode, b))
    BY <2>2, BlockWrittenFollows DEF Follows
  <2> HIDE DEF w
  <2>4. AccFollows(acc.fs, BlockWritten(w, acc.inode, b))
    BY <2>1, <2>2, <2>3 DEF AccFollows, Follows
  <2>5. AccFollows(acc.fs, [acc EXCEPT !.fs = Throw(acc.fs), !.ret = 1])
    BY LapseFollows DEF AccFollows, Follows
  <2> QED
    BY <2>4, <2>5 DEF ReplaceBlock, freed, w
<1> QED
  BY <1>1 DEF WriteFileBlock

\* The turns of File_Write's loop: by induction, the function of the turns
\* exists.
LEMMA WriteFileBlocksTurns ==
    ASSUME NEW acc, NEW first, NEW last, NEW offset, NEW buffer
    PROVE  \E turn :
              /\ turn[0] = acc
              /\ \A n \in 1 .. maxFileBlocks :
                    turn[n] = IF first + n - 1 > last THEN turn[n - 1]
                              ELSE WriteFileBlock(turn[n - 1], first + n - 1, offset, buffer)
              /\ WriteFileBlocks(acc, first, last, offset, buffer) = turn[maxFileBlocks]
<1> DEFINE Turn(before, n) ==
             IF first + n - 1 > last THEN before
             ELSE WriteFileBlock(before, first + n - 1, offset, buffer)
           IsTurns(f, k) ==
             f = [n \in 0 .. k |-> IF n = 0 THEN acc ELSE Turn(f[n - 1], n)]
           Exists == {k \in Nat : \E f : IsTurns(f, k)}
<1>1. Nat \subseteq Exists
  <2>1. 0 \in Exists
    <3>1. IsTurns([n \in 0 .. 0 |-> acc], 0)
      OBVIOUS
    <3> QED
      BY <3>1
  <2>2. ASSUME NEW k \in Nat, k \in Exists PROVE k + 1 \in Exists
    <3>1. PICK f : IsTurns(f, k)
      BY <2>2
    <3> DEFINE h == [n \in 0 .. k + 1 |-> IF n <= k THEN f[n] ELSE Turn(f[k], k + 1)]
    <3> HIDE DEF Turn
    <3>2. IsTurns(h, k + 1)
      BY <3>1
    <3>3. k + 1 \in Nat
      OBVIOUS
    <3> HIDE DEF h, IsTurns
    <3> QED
      BY <3>2, <3>3
  <2> HIDE DEF Exists
  <2> QED
    BY <2>1, <2>2, InductionOnSets
<1>2. PICK f : IsTurns(f, maxFileBlocks)
  BY <1>1, GeometryFacts
<1> DEFINE turn == CHOOSE h : IsTurns(h, maxFileBlocks)
<1>3. IsTurns(turn, maxFileBlocks)
  BY <1>2
<1>4. WriteFileBlocks(acc, first, last, offset, buffer) = turn[maxFileBlocks]
  BY DEF WriteFileBlocks
<1> HIDE DEF turn
<1>5. turn[0] = acc /\ \A n \in 1 .. maxFileBlocks : turn[n] = Turn(turn[n - 1], n)
  <2> HIDE DEF Turn
  <2> QED
    BY <1>3, GeometryFacts
<1> QED
  BY <1>4, <1>5

\* By induction over the turns of the loop.
LEMMA WriteFileBlocksFollows ==
    ASSUME NEW acc, AccFollows(acc.fs, acc),
           NEW first, NEW last, NEW offset, NEW buffer
    PROVE  AccFollows(acc.fs, WriteFileBlocks(acc, first, last, offset, buffer))
<1> DEFINE Turn(before, n) ==
             IF first + n - 1 > last THEN before
             ELSE WriteFileBlock(before, first + n - 1, offset, buffer)
<1>1. PICK turn :
         /\ turn[0] = acc
         /\ \A n \in 1 .. maxFileBlocks : turn[n] = Turn(turn[n - 1], n)
         /\ WriteFileBlocks(acc, first, last, offset, buffer) = turn[maxFileBlocks]
  BY WriteFileBlocksTurns
<1> DEFINE Good == {k \in Nat : k <= maxFileBlocks => AccFollows(acc.fs, turn[k])}
<1>2. ASSUME NEW before, AccFollows(acc.fs, before), NEW n
      PROVE  AccFollows(acc.fs, Turn(before, n))
  <2>1. AccFollows(before.fs, before)
    BY <1>2 DEF AccFollows, Follows
  <2>2. AccFollows(before.fs, Turn(before, n))
    BY <2>1, WriteFileBlockFollows
  <2> QED
    BY <1>2, <2>2 DEF AccFollows, Follows
<1> HIDE DEF Turn
<1>3. 0 \in Good
  BY <1>1
<1>4. ASSUME NEW k \in Nat, k \in Good PROVE k + 1 \in Good
  <2>1. CASE k + 1 <= maxFileBlocks
    <3>1. AccFollows(acc.fs, turn[k])
      BY <1>4, <2>1, GeometryFacts
    <3>2. turn[k + 1] = Turn(turn[k], k + 1)
      BY <1>1, <2>1, GeometryFacts
    <3> QED
      BY <3>1, <3>2, <1>2
  <2> QED
    BY <2>1
<1> HIDE DEF Good
<1>5. maxFileBlocks \in Good
  BY <1>3, <1>4, InductionOnSets, GeometryFacts
<1> QED
  BY <1>1, <1>5 DEF Good

LEMMA WriteBlocksFollows ==
    ASSUME NEW g, FsTyped(g), NEW inode, NEW offset, NEW buffer
    PROVE  AccFollows(g, WriteBlocks(g, inode, offset, buffer))
<1> DEFINE start == [fs |-> g, inode |-> inode, ret |-> 0]
           first == offset \div BlockSize
           last  == (offset + Len(buffer) - 1) \div BlockSize
<1>1. AccFollows(g, start) /\ start.fs = g
  BY DEF AccFollows, Follows
<1>2. AccFollows(g, WriteFileBlocks(start, first, last, offset, buffer))
  BY <1>1, WriteFileBlocksFollows
<1>3. ASSUME NEW acc, AccFollows(g, acc), NEW size
      PROVE  AccFollows(g, [acc EXCEPT !.inode.fileSize = size])
  BY <1>3 DEF AccFollows
<1>4. CASE offset > inode.fileSize
  BY <1>4 DEF WriteBlocks, AccFollows, Follows
<1>5. CASE ~ (offset > inode.fileSize)
  <2> HIDE DEF start, first, last
  <2>1. WriteBlocks(g, inode, offset, buffer)
          = [WriteFileBlocks(start, first, last, offset, buffer)
               EXCEPT !.inode.fileSize = Max({inode.fileSize, offset + Len(buffer)})]
    BY <1>5 DEF WriteBlocks, start, first, last
  <2> QED
    BY <2>1, <1>2, <1>3
<1> QED
  BY <1>4, <1>5

LEMMA UpdateIFileFollows ==
    ASSUME NEW g, FsTyped(g), NEW inode
    PROVE  Follows(g, UpdateIFile(g, inode).fs)
<1>1. ASSUME NEW h, Follows(g, h), NEW root PROVE Follows(g, [h EXCEPT !.root = root])
  BY <1>1 DEF FsTyped, StateFields, Follows
<1> DEFINE w == WriteBlocks(g, g.root, inode.inum - 1, <<inode>>)
<1>2. Follows(g, w.fs)
  BY WriteBlocksFollows DEF AccFollows
<1>3. Follows(g, RootWritten(w).fs)
  BY <1>1, <1>2 DEF RootWritten
<1>4. Follows(g, g)
  BY DEF Follows
<1> QED
  BY <1>1, <1>3, <1>4 DEF UpdateIFile

\* The direct blocks are freed in turn: the function of the turns exists.
LEMMA DirectBlocksFreedTurns ==
    ASSUME NEW g, NEW inode
    PROVE  \E freed :
              /\ freed[0] = g
              /\ \A n \in 1 .. NDirect :
                    freed[n] = Log_Free(freed[n - 1], inode.direct[n - 1])
              /\ DirectBlocksFreed(g, inode) = freed[NDirect]
<1> DEFINE Turn(before, n) == Log_Free(before, inode.direct[n - 1])
           IsTurns(f, k) ==
             f = [n \in 0 .. k |-> IF n = 0 THEN g ELSE Turn(f[n - 1], n)]
           Exists == {k \in Nat : \E f : IsTurns(f, k)}
<1>1. Nat \subseteq Exists
  <2>1. 0 \in Exists
    <3>1. IsTurns([n \in 0 .. 0 |-> g], 0)
      OBVIOUS
    <3> QED
      BY <3>1
  <2>2. ASSUME NEW k \in Nat, k \in Exists PROVE k + 1 \in Exists
    <3>1. PICK f : IsTurns(f, k)
      BY <2>2
    <3> DEFINE h == [n \in 0 .. k + 1 |-> IF n <= k THEN f[n] ELSE Turn(f[k], k + 1)]
    <3> HIDE DEF Turn
    <3>2. IsTurns(h, k + 1)
      BY <3>1
    <3>3. k + 1 \in Nat
      OBVIOUS
    <3> HIDE DEF h, IsTurns
    <3> QED
      BY <3>2, <3>3
  <2> HIDE DEF Exists
  <2> QED
    BY <2>1, <2>2, InductionOnSets
<1>2. PICK f : IsTurns(f, NDirect)
  BY <1>1, GeometryFacts
<1> DEFINE freed == CHOOSE h : IsTurns(h, NDirect)
<1>3. IsTurns(freed, NDirect)
  BY <1>2
<1>4. DirectBlocksFreed(g, inode) = freed[NDirect]
  BY DEF DirectBlocksFreed
<1> HIDE DEF freed
<1>5. freed[0] = g /\ \A n \in 1 .. NDirect : freed[n] = Turn(freed[n - 1], n)
  <2> HIDE DEF Turn
  <2> QED
    BY <1>3, GeometryFacts
<1> QED
  BY <1>4, <1>5

\* By induction over the direct blocks.
LEMMA DirectBlocksFreedFollows ==
    ASSUME NEW g, FsTyped(g), NEW inode
    PROVE  Follows(g, DirectBlocksFreed(g, inode))
<1>1. PICK freed :
         /\ freed[0] = g
         /\ \A n \in 1 .. NDirect :
               freed[n] = Log_Free(freed[n - 1], inode.direct[n - 1])
         /\ DirectBlocksFreed(g, inode) = freed[NDirect]
  BY DirectBlocksFreedTurns
<1> DEFINE Good == {k \in Nat : k <= NDirect => Follows(g, freed[k])}
<1>2. 0 \in Good
  BY <1>1 DEF Follows
<1>3. ASSUME NEW k \in Nat, k \in Good PROVE k + 1 \in Good
  <2>1. CASE k + 1 <= NDirect
    <3>1. Follows(g, freed[k])
      BY <1>3, <2>1, GeometryFacts
    <3>2. freed[k + 1] = Log_Free(freed[k], inode.direct[k])
      BY <1>1, <2>1, GeometryFacts
    <3> QED
      BY <3>1, <3>2, Log_FreeFollows DEF Follows
  <2> QED
    BY <2>1
<1> HIDE DEF Good
<1>4. NDirect \in Good
  BY <1>2, <1>3, InductionOnSets, GeometryFacts
<1> QED
  BY <1>1, <1>4 DEF Good

LEMMA EmptiedFollows ==
    ASSUME NEW g, FsTyped(g), NEW inode
    PROVE  Follows(g, Emptied(g, inode).fs)
<1>1. Follows(g, Log_Free(DirectBlocksFreed(g, inode), inode.indirect))
  BY DirectBlocksFreedFollows, Log_FreeFollows DEF Follows
<1>2. ASSUME NEW h, Follows(g, h), NEW indirect PROVE Follows(g, IndirectLeaked(h, indirect))
  BY <1>2, LeakFollows DEF IndirectLeaked, Follows
<1> QED
  BY <1>1, <1>2 DEF Emptied

----------------------------------------------------------------------------
(* The requests. *)

LEMMA File_WriteFollows ==
    ASSUME NEW g, FsTyped(g), NEW inum, NEW offset, NEW buffer
    PROVE  Follows(g, File_Write(g, inum, offset, buffer).fs)
<1> DEFINE inode == GetINode(g, inum)
           w == WriteBlocks(g, inode, offset, buffer)
<1>1. Follows(g, w.fs)
  BY WriteBlocksFollows DEF AccFollows
<1>2. Follows(g, FileWritten(w).fs)
  BY <1>1, UpdateIFileFollows DEF FileWritten, Follows
<1>3. Follows(g, g) /\ Follows(g, Throw(g))
  BY LapseFollows DEF Follows
<1> QED
  BY <1>2, <1>3 DEF File_Write

LEMMA File_CreateFollows ==
    ASSUME NEW g, FsTyped(g), NEW mode, GetUnusedINum(g) \in INums
    PROVE  Follows(g, File_Create(g, mode).fs)
<1> DEFINE inum  == GetUnusedINum(g)
           grown == [g EXCEPT !.iFileSize = Max({@, inum})]
<1>1. Max({g.iFileSize, inum}) \in INums
  <2>1. ASSUME NEW a \in INums, NEW b \in INums PROVE Max({a, b}) \in INums
    BY MaxOfTwo, GeometryFacts
  <2> QED
    BY <2>1 DEF FsTyped
<1>2. Follows(g, grown)
  BY <1>1 DEF FsTyped, StateFields, Follows
<1>3. Follows(g, UpdateIFile(grown, NewINode(inum, mode)).fs)
  BY <1>2, UpdateIFileFollows DEF Follows
<1> QED
  BY <1>3, LapseFollows DEF File_Create, InitNewINode

LEMMA File_FreeFollows ==
    ASSUME NEW g, FsTyped(g), NEW inum
    PROVE  Follows(g, File_Free(g, inum).fs)
BY EmptiedFollows, UpdateIFileFollows, LapseFollows DEF File_Free, Follows

LEMMA File_TruncateFollows ==
    ASSUME NEW g, FsTyped(g), NEW inum, NEW size
    PROVE  Follows(g, File_Truncate(g, inum, size).fs)
<1> DEFINE inode == GetINode(g, inum)
           old   == ReadUnits(g, inode, inode.fileSize)
           e     == Emptied(g, inode)
           u     == UpdateIFile(e.fs, [e.inode EXCEPT !.fileSize = 0])
           w     == File_Write(u.fs, inum, 0, Resized(old, size))
<1>1. Follows(g, e.fs)
  BY EmptiedFollows
<1>2. Follows(e.fs, u.fs)
  BY <1>1, UpdateIFileFollows DEF Follows
<1>3. Follows(u.fs, w.fs)
  BY <1>2, File_WriteFollows DEF Follows
<1>4. Follows(g, Throw(g))
  BY LapseFollows
<1> HIDE DEF e, u, w
<1>5. \/ File_Truncate(g, inum, size) = [fs |-> Throw(g), ret |-> 1]
      \/ File_Truncate(g, inum, size) = w
  BY DEF File_Truncate, e, u, w
<1> QED
  BY <1>1, <1>2, <1>3, <1>4, <1>5 DEF Follows

LEMMA File_ChmodFollows ==
    ASSUME NEW g, FsTyped(g), NEW inum, NEW mode
    PROVE  Follows(g, File_Chmod(g, inum, mode).fs)
BY UpdateIFileFollows, LapseFollows DEF File_Chmod, Follows

----------------------------------------------------------------------------
(* The type invariant. *)

LEMMA TypeInvImplies == TypeInv => TypeOK
BY GeometryFacts DEF TypeInv, TypeOK, FsTyped, ContentsTyped, LiveCounts

LEMMA OverwrittenTyped ==
    ASSUME NEW units \in Seq(Unit), NEW offset \in Nat, offset <= Len(units),
           NEW buffer \in Seq(Unit)
    PROVE  Overwritten(units, offset, buffer) \in Seq(Unit)
<1> DEFINE size == Max({Len(units), offset + Len(buffer)})
           promise == Overwritten(units, offset, buffer)
<1>1. /\ size = IF Len(units) >= offset + Len(buffer) THEN Len(units)
                ELSE offset + Len(buffer)
      /\ size \in Nat /\ DOMAIN buffer = 1 .. Len(buffer)
  BY MaxOfTwo
<1>2. promise = [k \in 1 .. size |->
                   IF k - offset \in 1 .. Len(buffer) THEN buffer[k - offset] ELSE units[k]]
  BY <1>1 DEF Overwritten
<1>3. ASSUME NEW k \in 1 .. size, k - offset \notin 1 .. Len(buffer)
      PROVE  k \in 1 .. Len(units)
  BY <1>1, <1>3
<1> HIDE DEF promise, size
<1>4. ASSUME NEW k \in 1 .. size PROVE promise[k] \in Unit
  <2>1. CASE k - offset \in 1 .. Len(buffer)
    BY <1>2, <2>1
  <2>2. CASE k - offset \notin 1 .. Len(buffer)
    <3>1. promise[k] = units[k]
      BY <1>2, <2>2
    <3> QED
      BY <1>3, <2>2, <3>1
  <2> QED
    BY <2>1, <2>2
<1>5. promise \in Seq(Unit)
  BY <1>1, <1>2, <1>4
<1> QED
  BY <1>5 DEF promise

LEMMA InitTyped == Init => TypeInv
<1> SUFFICES ASSUME Init PROVE TypeInv
  OBVIOUS
<1>1. FsTyped(fs)
  <2>1. FirstUsage.live \in LiveCounts /\ FirstUsage.aged \subseteq DataSegments
    BY FileAssumption DEF FirstUsage, LiveCounts, DataSegments
  <2>2. 1 \in INums /\ 1 \in DataSegments
    BY GeometryFacts DEF INums, DataSegments
  <2> QED
    BY <2>1, <2>2 DEF Init, mklfs, FsTyped, StateFields
<1>2. ContentsTyped
  BY FileAssumption DEF Init, ContentsTyped, Promised, Files
<1> QED
  BY <1>1, <1>2 DEF TypeInv

\* What a request answers is typed if what it promises is.
LEMMA AnswerTyped ==
    ASSUME TypeInv, NEW r, NEW inum \in INums, NEW promise,
           FsTyped(r.fs),
           promise # NoFile /\ promise # Unknown => promise \in Seq(Data \cup {Zero}),
           Answer(r, inum, promise)
    PROVE  TypeInv'
BY DEF Answer, TypeInv, ContentsTyped, Promised, Files

LEMMA RequestTyped ==
    ASSUME TypeInv, NEW i \in INums, Request(i)
    PROVE  TypeInv'
<1>0. FsTyped(fs)
  BY DEF TypeInv
<1>1. ASSUME i = GetUnusedINum(fs), NEW mode \in Modes, CreateFile(mode)
      PROVE  TypeInv'
  <2>1. FsTyped(File_Create(fs, mode).fs)
    BY <1>0, <1>1, File_CreateFollows DEF Follows
  <2>2. <<>> \in Seq(Data \cup {Zero})
    OBVIOUS
  <2> QED
    BY <1>1, <2>1, <2>2, AnswerTyped DEF CreateFile
<1>2. ASSUME i \in Promised, NEW e \in Extents, NEW d \in Data,
             e[1] <= Len(contents[i]),
             WriteFile(i, e[1], [u \in 1 .. e[2] |-> d])
      PROVE  TypeInv'
  <2> DEFINE buffer == [u \in 1 .. e[2] |-> d]
             promise == Overwritten(contents[i], e[1], buffer)
  <2>1. FsTyped(File_Write(fs, i, e[1], buffer).fs)
    BY <1>0, File_WriteFollows DEF Follows
  <2>2. promise \in Seq(Data \cup {Zero})
    <3>1. e[1] \in Nat /\ e[2] \in Nat
      BY FileAssumption
    <3>2. contents[i] \in Seq(Unit)
      BY <1>2 DEF TypeInv, ContentsTyped, Unit
    <3>3. buffer \in Seq(Unit)
      BY <3>1 DEF Unit
    <3> HIDE DEF buffer
    <3> QED
      BY <1>2, <3>1, <3>2, <3>3, OverwrittenTyped DEF Unit
  <2> QED
    BY <1>2, <2>1, <2>2, AnswerTyped DEF WriteFile
<1>3. ASSUME i \in Promised, NEW n \in Sizes, TruncateFile(i, n)
      PROVE  TypeInv'
  <2>1. FsTyped(File_Truncate(fs, i, n).fs)
    BY <1>0, File_TruncateFollows DEF Follows
  <2>2. contents[i] \in Seq(Data \cup {Zero}) /\ n \in Nat
    BY <1>3, FileAssumption DEF TypeInv, ContentsTyped
  <2>3. Resized(contents[i], n) \in Seq(Data \cup {Zero})
    BY <2>2 DEF Resized
  <2> QED
    BY <1>3, <2>1, <2>3, AnswerTyped DEF TruncateFile
<1>4. ASSUME i \in Promised, NEW mode \in Modes, ChmodFile(i, mode)
      PROVE  TypeInv'
  <2>1. FsTyped(File_Chmod(fs, i, mode).fs)
    BY <1>0, File_ChmodFollows DEF Follows
  <2>2. contents[i] \in Seq(Data \cup {Zero})
    BY <1>4 DEF TypeInv, ContentsTyped
  <2> QED
    BY <1>4, <2>1, <2>2, AnswerTyped DEF ChmodFile
<1>5. ASSUME FreeFile(i)
      PROVE  TypeInv'
  <2>1. FsTyped(File_Free(fs, i).fs)
    BY <1>0, File_FreeFollows DEF Follows
  <2> QED
    BY <1>5, <2>1, AnswerTyped DEF FreeFile
<1> QED
  BY <1>1, <1>2, <1>3, <1>4, <1>5 DEF Request

\* Every request, refused or not, keeps the types: the segments in use are
\* segments of the flash, and every counter of live blocks stays in its width.
THEOREM FileLayerTypeCorrect == Spec => []TypeOK
<1>1. TypeInv /\ [Next]_vars => TypeInv'
  <2> SUFFICES ASSUME TypeInv, [Next]_vars PROVE TypeInv'
    OBVIOUS
  <2>1. CASE Next
    BY <2>1, RequestTyped DEF Next
  <2>2. CASE UNCHANGED vars
    BY <2>2 DEF vars, TypeInv, FsTyped, ContentsTyped, Promised, Files
  <2> QED
    BY <2>1, <2>2
<1> QED
  BY InitTyped, TypeInvImplies, <1>1, PTL DEF Spec

----------------------------------------------------------------------------
(* The log's account of the blocks in use. *)

\* A step of the log that leaves the inode of the ifile, the file layer's own
\* field and the lapses alone.
SameFile(g, h) ==
    /\ h.root = g.root /\ h.iFileSize = g.iFileSize
    /\ h.leaked = g.leaked /\ h.lapses = g.lapses

\* No segment with a block of L becomes the tail or is written.
Unwritten(g, h, L) ==
    \A s \in DataSegments :
       s # g.tail.seg /\ BlocksIn(L, s) # {} => s # h.tail.seg /\ h.media[s] = g.media[s]

Keeps(g, h, L) ==
    /\ \A a \in L : SlotAt(h, a) = SlotAt(g, a)
    /\ Unwritten(g, h, L)

LEMMA UnwrittenFollows ==
    ASSUME NEW f, NEW g, NEW h, NEW L, NEW K, Unwritten(f, g, L), Unwritten(g, h, K),
           L \subseteq K
    PROVE  Unwritten(f, h, L)
<1>1. \A s : BlocksIn(L, s) # {} => BlocksIn(K, s) # {}
  BY DEF BlocksIn
<1> QED
  BY <1>1 DEF Unwritten

LEMMA KeepsFollows ==
    ASSUME NEW f, NEW g, NEW h, NEW L, NEW K, Keeps(f, g, L), Keeps(g, h, K),
           L \subseteq K
    PROVE  Keeps(f, h, L)
BY UnwrittenFollows DEF Keeps

LEMMA AddressParts ==
    ASSUME NEW a \in Address
    PROVE  a.seg \in DataSegments /\ a.blk \in 1 .. SegBlocks /\ a = At(a.seg, a.blk)
BY DEF Address, At

LEMMA AtIsAddress ==
    ASSUME NEW s \in DataSegments, NEW b \in 1 .. SegBlocks
    PROVE  At(s, b) \in Address /\ At(s, b).seg = s /\ At(s, b).blk = b
BY DEF Address, At

LEMMA BlocksInFinite ==
    ASSUME NEW L, NEW s
    PROVE  /\ IsFiniteSet(BlocksIn(L, s))
           /\ Cardinality(BlocksIn(L, s)) \in 0 .. SegBlocks
           /\ Cardinality(BlocksIn(L, s)) = 0 <=> BlocksIn(L, s) = {}
<1>1. BlocksIn(L, s) \subseteq 1 .. SegBlocks
  BY DEF BlocksIn
<1>2. IsFiniteSet(1 .. SegBlocks) /\ Cardinality(1 .. SegBlocks) = SegBlocks
  BY FS_Interval, GeometryFacts
<1>3. /\ IsFiniteSet(BlocksIn(L, s))
      /\ Cardinality(BlocksIn(L, s)) <= SegBlocks
  BY <1>1, <1>2, FS_Subset
<1>4. Cardinality(BlocksIn(L, s)) \in Nat
  BY <1>3, FS_CardinalityType
<1>5. Cardinality(BlocksIn(L, s)) = 0 <=> BlocksIn(L, s) = {}
  BY <1>3, FS_EmptySet
<1> QED
  BY <1>3, <1>4, <1>5, GeometryFacts

LEMMA SlotOfLedger ==
    ASSUME NEW g, NEW L, Ledger(g, L), NEW a \in L
    PROVE  SlotAt(g, a) # NO_INUM
<1>1. a.seg \in DataSegments /\ a.blk \in BlocksIn(L, a.seg)
  BY AddressParts DEF Ledger, BlocksIn
<1>2. CASE a.seg = g.tail.seg
  <2>1. a.blk \notin EmptyBlocks(g.tail.slots) /\ a.blk \in 1 .. SegBlocks
    BY <1>1, <1>2 DEF Ledger, BlocksIn
  <2> QED
    BY <2>1, <1>2 DEF Ledger, SlotAt, Slots, EmptyBlocks
<1>3. CASE a.seg # g.tail.seg
  BY <1>1, <1>3 DEF Ledger, SlotAt, Slots
<1> QED
  BY <1>2, <1>3

\* A block in use that is freed is no longer counted, and no other changes.
LEMMA LedgerFreed ==
    ASSUME NEW g, NEW L, Ledger(g, L), NEW a \in L
    PROVE  LET h == Log_Free(g, a)
           IN  Ledger(h, L \ {a}) /\ SameFile(g, h) /\ Keeps(g, h, L \ {a})
<1> DEFINE h == Log_Free(g, a)
           M == L \ {a}
<1>0. /\ a \in Address /\ a # NoAddress /\ a = At(a.seg, a.blk)
      /\ a.seg \in DataSegments /\ a.blk \in 1 .. SegBlocks
      /\ FsTyped(g) /\ FsTyped(h)
  BY AddressParts, SentinelAssumption, Log_FreeFollows DEF Ledger, Follows
<1>1. /\ h = [g EXCEPT !.live[a.seg] = (@ - 1) % UIntBlocks,
                   !.tail.slots = IF a.seg = g.tail.seg
                                  THEN [@ EXCEPT ![a.blk] = NO_INUM] ELSE @]
  BY <1>0 DEF Log_Free
<1>2. /\ h.media = g.media /\ h.tail.seg = g.tail.seg /\ h.full = g.full
      /\ h.live = [g.live EXCEPT ![a.seg] = (@ - 1) % UIntBlocks]
      /\ h.tail.slots = IF a.seg = g.tail.seg
                        THEN [g.tail.slots EXCEPT ![a.blk] = NO_INUM] ELSE g.tail.slots
      /\ SameFile(g, h)
  BY <1>0, <1>1 DEF FsTyped, StateFields, SameFile
<1> HIDE DEF h
<1>3. /\ \A s \in DataSegments \ {a.seg} : BlocksIn(M, s) = BlocksIn(L, s)
      /\ BlocksIn(M, a.seg) = BlocksIn(L, a.seg) \ {a.blk}
      /\ a.blk \in BlocksIn(L, a.seg)
  BY <1>0 DEF BlocksIn, At
<1>8. /\ \A s \in DataSegments \ {g.tail.seg} :
            /\ g.live[s] = Cardinality(BlocksIn(L, s))
            /\ \A b \in BlocksIn(L, s) : g.media[s][b] # NO_INUM
      /\ DOMAIN g.live = DataSegments
  BY <1>0 DEF Ledger, FsTyped, LiveCounts
<1>9. ASSUME g.tail.seg \in DataSegments
      PROVE  /\ DOMAIN g.tail.slots = 1 .. SegBlocks
             /\ SegBlocks \in EmptyBlocks(g.tail.slots)
             /\ EmptyBlocks(g.tail.slots) = (1 .. SegBlocks) \ BlocksIn(L, g.tail.seg)
  BY <1>9 DEF Ledger
<1>10. M \subseteq Address /\ M \subseteq L /\ a \notin M
  BY DEF Ledger
<1>13. "cached" \notin g.lapses /\ h.lapses = g.lapses
  BY <1>2 DEF Ledger, SameFile
<1> HIDE DEF M
<1>4. ASSUME NEW s \in DataSegments \ {h.tail.seg}
      PROVE  /\ h.live[s] = Cardinality(BlocksIn(M, s))
             /\ \A b \in BlocksIn(M, s) : h.media[s][b] # NO_INUM
  <2>1. CASE s # a.seg
    BY <1>0, <1>2, <1>3, <1>8, <2>1
  <2>2. CASE s = a.seg
    <3> DEFINE n == Cardinality(BlocksIn(L, s))
    <3>1. Cardinality(BlocksIn(M, s)) = n - 1 /\ n \in 1 .. SegBlocks
      <4>1. Cardinality(BlocksIn(M, s)) = n - 1
        BY <1>3, <2>2, BlocksInFinite, FS_RemoveElement
      <4>2. n \in 0 .. SegBlocks /\ n # 0
        BY <1>3, <2>2, BlocksInFinite
      <4> QED
        BY <4>1, <4>2
    <3>2. g.live[s] = n
      BY <1>2, <1>8
    <3> HIDE DEF n
    <3>3. (n - 1) % UIntBlocks = n - 1
      <4>1. n - 1 \in 0 .. UIntBlocks - 1
        BY <3>1, GeometryFacts
      <4> QED
        BY <4>1, GeometryFacts
    <3>4. h.live[s] = n - 1
      BY <1>0, <1>2, <2>2, <3>2, <3>3 DEF FsTyped, LiveCounts
    <3> QED
      BY <1>2, <1>3, <1>8, <2>2, <3>1, <3>4
  <2> QED
    BY <2>1, <2>2
<1>5. ASSUME h.tail.seg \in DataSegments
      PROVE  /\ DOMAIN h.tail.slots = 1 .. SegBlocks
             /\ SegBlocks \in EmptyBlocks(h.tail.slots)
             /\ EmptyBlocks(h.tail.slots) = (1 .. SegBlocks) \ BlocksIn(M, h.tail.seg)
  <2>1. CASE h.tail.seg # a.seg
    BY <1>2, <1>3, <1>5, <1>9, <2>1
  <2>2. CASE h.tail.seg = a.seg
    <3>1. EmptyBlocks(h.tail.slots) = EmptyBlocks(g.tail.slots) \cup {a.blk}
      BY <1>0, <1>2, <1>5, <1>9, <2>2 DEF EmptyBlocks
    <3> QED
      BY <1>0, <1>2, <1>3, <1>5, <1>9, <2>2, <3>1
  <2> QED
    BY <2>1, <2>2
<1>11. /\ \A x \in M : x.seg \in h.full \cup {h.tail.seg}
       /\ \A s \in DataSegments : Labelled(h.media[s])
  BY <1>2, <1>10 DEF Ledger
<1>12. Labelled(h.tail.slots)
  <2>1. Labelled(g.tail.slots)
    BY DEF Ledger
  <2>2. CASE a.seg = g.tail.seg
    BY <1>0, <1>2, <1>9, <2>1, <2>2 DEF Labelled
  <2>3. CASE a.seg # g.tail.seg
    BY <1>2, <2>1, <2>3
  <2> QED
    BY <2>2, <2>3
<1>6. Ledger(h, M)
  <2>1. DOMAIN g.media = DataSegments
    BY DEF Ledger
  <2> QED
    BY <1>0, <1>2, <1>4, <1>5, <1>10, <1>11, <1>12, <1>13, <2>1 DEF Ledger
<1>7. Keeps(g, h, M)
  <2> SUFFICES ASSUME NEW x \in M PROVE SlotAt(h, x) = SlotAt(g, x)
    BY <1>2 DEF Keeps, Unwritten
  <2>1. x \in Address /\ x # a /\ x = At(x.seg, x.blk)
    BY <1>10, AddressParts
  <2>2. CASE x.seg = g.tail.seg /\ x.seg = a.seg
    <3>1. x.blk # a.blk
      BY <1>0, <2>1, <2>2
    <3> QED
      BY <1>2, <1>13, <2>2, <3>1 DEF SlotAt, Slots
  <2>3. CASE ~ (x.seg = g.tail.seg /\ x.seg = a.seg)
    BY <1>2, <1>13, <2>3 DEF SlotAt, Slots
  <2> QED
    BY <2>2, <2>3
<1> QED
  BY <1>2, <1>6, <1>7 DEF h, M

\* A full tail that the flash takes: its segment is counted as it is, and the
\* next tail is a segment where nothing is in use.
LEMMA LedgerTailWritten ==
    ASSUME NEW p, NEW M, FsTyped(p), M \subseteq Address, "cached" \notin p.lapses,
           DOMAIN p.media = DataSegments, p.tail.seg \in DataSegments,
           \A a \in M : a.seg \in p.full \cup {p.tail.seg},
           \A s \in DataSegments : Labelled(p.media[s]), Labelled(p.tail.slots),
           \A s \in DataSegments \ {p.tail.seg} :
              /\ p.live[s] = Cardinality(BlocksIn(M, s))
              /\ \A b \in BlocksIn(M, s) : p.media[s][b] # NO_INUM,
           EmptyBlocks(p.tail.slots) = (1 .. SegBlocks) \ BlocksIn(M, p.tail.seg),
           BlocksIn(M, p.tail.seg) # {}
    PROVE  LET h == CheckpointIfDue(NextTail(Recounted(p)))
           IN  Ledger(h, M) /\ SameFile(p, h) /\ Keeps(p, h, M)
<1> DEFINE t == p.tail.seg
           r == Recounted(p)
           n == NextTail(r)
           h == CheckpointIfDue(n)
<1>1. LiveBlocks(p.tail.slots) = Cardinality(BlocksIn(M, t))
  <2> DEFINE I == 1 .. SegBlocks
             B == BlocksIn(M, t)
  <2>1. IsFiniteSet(I) /\ Cardinality(I) = SegBlocks
    BY FS_Interval, GeometryFacts
  <2>2. I \cap B = B
    BY DEF BlocksIn
  <2>3. Cardinality(I \ B) = Cardinality(I) - Cardinality(I \cap B)
    BY <2>1, FS_Difference
  <2>4. Cardinality(B) \in Nat
    BY BlocksInFinite
  <2> HIDE DEF I, B
  <2>5. SegBlocks - (SegBlocks - Cardinality(B)) = Cardinality(B)
    BY <2>4, GeometryFacts
  <2> QED
    BY <2>1, <2>2, <2>3, <2>5 DEF LiveBlocks, I, B
<1>2. /\ FsTyped(r) /\ FsTyped(n) /\ FsTyped(h) /\ r.tail = p.tail
  BY RecountedFollows, NextTailFollows, CheckpointFollows DEF Follows
<1>3. /\ r.live = [p.live EXCEPT ![t] = LiveBlocks(p.tail.slots)]
      /\ r.media = p.media /\ r.full = p.full
      /\ SameFile(p, r)
  BY DEF Recounted, FsTyped, StateFields, SameFile
<1>4. \A s \in DataSegments : r.live[s] = Cardinality(BlocksIn(M, s))
  <2>1. r.live[t] = Cardinality(BlocksIn(M, t))
    BY <1>1, <1>3 DEF FsTyped, LiveCounts
  <2>2. ASSUME NEW s \in DataSegments \ {t} PROVE r.live[s] = Cardinality(BlocksIn(M, s))
    BY <1>3, <2>2 DEF FsTyped, LiveCounts
  <2> QED
    BY <2>1, <2>2
<1> HIDE DEF r
<1>5. /\ n.media = [p.media EXCEPT ![t] = p.tail.slots]
      /\ n.live = r.live /\ n.full = p.full \cup {t}
      /\ n.tail = [seg |-> GetCleanSegment(r.live), slots |-> EmptySlots]
      /\ SameFile(p, n)
  BY <1>2, <1>3 DEF NextTail, FsTyped, StateFields, SameFile
<1> HIDE DEF n
<1>6. /\ h.media = n.media /\ h.live = n.live /\ h.tail = n.tail /\ h.full = n.full
      /\ SameFile(p, h)
  BY <1>2, <1>5 DEF CheckpointIfDue, CheckpointNow, FsTyped, StateFields, SameFile
<1> HIDE DEF h
<1>13. "cached" \notin h.lapses
  BY <1>6 DEF SameFile
<1>7. h.tail.seg \in DataSegments => BlocksIn(M, h.tail.seg) = {}
  <2> DEFINE next == GetCleanSegment(r.live)
  <2>1. next = FLASH_FULL \/ (next \in DataSegments /\ r.live[next] = 0)
    BY CleanSegmentFound
  <2>2. h.tail.seg = next
    BY <1>5, <1>6
  <2> HIDE DEF next
  <2>3. ASSUME next \in DataSegments PROVE BlocksIn(M, next) = {}
    <3>1. Cardinality(BlocksIn(M, next)) = 0
      BY <1>4, <2>1, <2>3, GeometryFacts
    <3> QED
      BY <3>1, BlocksInFinite
  <2> QED
    BY <2>2, <2>3
<1>8. h.tail.seg # t
  BY <1>7
<1>9. ASSUME NEW s \in DataSegments, NEW b \in BlocksIn(M, s)
      PROVE  h.media[s][b] = Slots(p, s)[b] /\ Slots(p, s)[b] # NO_INUM
  <2>1. CASE s = t
    <3>1. b \in 1 .. SegBlocks /\ b \notin EmptyBlocks(p.tail.slots)
      BY <1>9, <2>1 DEF BlocksIn
    <3>2. h.media[s] = p.tail.slots
      BY <1>5, <1>6, <2>1
    <3> QED
      BY <2>1, <3>1, <3>2 DEF Slots, EmptyBlocks
  <2>2. CASE s # t
    <3>1. h.media[s] = p.media[s]
      BY <1>5, <1>6, <2>2
    <3>2. p.media[s][b] # NO_INUM
      BY <1>9, <2>2
    <3> QED
      BY <2>2, <3>1, <3>2 DEF Slots
  <2> QED
    BY <2>1, <2>2
<1>10. ASSUME h.tail.seg \in DataSegments
       PROVE  /\ DOMAIN h.tail.slots = 1 .. SegBlocks
              /\ SegBlocks \in EmptyBlocks(h.tail.slots)
              /\ EmptyBlocks(h.tail.slots) = (1 .. SegBlocks) \ BlocksIn(M, h.tail.seg)
  BY <1>5, <1>6, <1>7, <1>10, GeometryFacts DEF EmptySlots, EmptyBlocks
<1>11. Ledger(h, M)
  <2>1. DOMAIN h.media = DataSegments /\ \A s \in DataSegments : Labelled(h.media[s])
    BY <1>5, <1>6
  <2>2. Labelled(h.tail.slots)
    BY <1>5, <1>6 DEF EmptySlots, Labelled
  <2>3. \A a \in M : a.seg \in h.full \cup {h.tail.seg}
    BY <1>5, <1>6
  <2> QED
    BY <1>2, <1>4, <1>5, <1>6, <1>9, <1>10, <1>13, <2>1, <2>2, <2>3 DEF Ledger
<1>12. Keeps(p, h, M)
  <2>0. Unwritten(p, h, M)
    BY <1>5, <1>6, <1>7 DEF Unwritten
  <2> SUFFICES ASSUME NEW a \in M PROVE SlotAt(h, a) = SlotAt(p, a)
    BY <2>0 DEF Keeps
  <2>1. a.seg \in DataSegments /\ a.blk \in BlocksIn(M, a.seg)
    BY AddressParts DEF BlocksIn
  <2>2. a.seg # h.tail.seg
    BY <1>7, <2>1
  <2> QED
    BY <1>9, <2>1, <2>2 DEF SlotAt, Slots
<1> QED
  BY <1>6, <1>11, <1>12 DEF h, n, r

\* A tail read from the cache.
LEMMA ReusedRefused ==
    ASSUME NEW g, FsTyped(g), Reused(g) # g
    PROVE  Refused(CheckpointIfDue(Reused(g)))
<1>1. Reused(g) = Lapse(g, "cached")
  BY DEF Reused
<1>2. "cached" \in Reused(g).lapses /\ FsTyped(Reused(g))
  BY <1>1, ReusedFollows DEF Lapse, FsTyped, StateFields, Follows
<1> QED
  BY <1>2, CheckpointFollows DEF Refused, Follows

\* A write is refused, or its block is the last of a tail whose successor is read
\* from the cache, or it puts its block where none was in use.
LEMMA LedgerWritten ==
    ASSUME NEW g, NEW L, Ledger(g, L), NEW inum, NEW fileBlock, NEW data,
           [inum |-> inum, fb |-> fileBlock, data |-> data] # NO_INUM,
           inum \in Numbers, fileBlock \in Labels
    PROVE  LET w == Log_Write(g, inum, fileBlock, data)
           IN  \/ Refused(w.fs)
               \/ /\ w.ret = 0
                  /\ w.addr \in Address \ L /\ w.addr.seg = g.tail.seg
                  /\ Ledger(w.fs, L \cup {w.addr})
                  /\ SameFile(g, w.fs) /\ Keeps(g, w.fs, L)
                  /\ SlotAt(w.fs, w.addr) =
                       [inum |-> inum, fb |-> fileBlock, data |-> data]
<1> DEFINE w    == Log_Write(g, inum, fileBlock, data)
           slot == [inum |-> inum, fb |-> fileBlock, data |-> data]
           free == EmptyBlocks(g.tail.slots)
           e    == Min(free)
           t    == g.tail.seg
           a    == At(t, e)
           p    == [g EXCEPT !.tail.slots[e] = slot]
           M    == L \cup {a}
<1>0. FsTyped(g) /\ "lapses" \in DOMAIN g
  BY DEF Ledger, FsTyped, StateFields
<1>1. CASE t = FLASH_FULL
  BY <1>0, <1>1 DEF Log_Write, Lapse, Refused
<1>2. CASE t # FLASH_FULL
  <2>1. /\ t \in DataSegments
        /\ DOMAIN g.tail.slots = 1 .. SegBlocks
        /\ SegBlocks \in free
        /\ free = (1 .. SegBlocks) \ BlocksIn(L, t)
        /\ DOMAIN g.media = DataSegments
        /\ \A s \in DataSegments \ {t} :
              /\ g.live[s] = Cardinality(BlocksIn(L, s))
              /\ \A b \in BlocksIn(L, s) : g.media[s][b] # NO_INUM
        /\ L \subseteq Address
        /\ \A x \in L : x.seg \in g.full \cup {t}
        /\ \A s \in DataSegments : Labelled(g.media[s])
        /\ Labelled(g.tail.slots)
    BY <1>2 DEF Ledger, FsTyped
  <2>2. e \in free /\ e \in 1 .. SegBlocks /\ \A b \in free : e <= b
    BY <2>1, MinOfNats
  <2>3. a \in Address \ L /\ a.seg = t /\ a.blk = e
    BY <2>1, <2>2, AtIsAddress DEF BlocksIn
  <2>4. w = WithAddress(Place(g, e, slot), [seg |-> t, blk |-> e])
    BY <1>2, <2>1 DEF Log_Write
  <2>5. w.addr = a /\ w.fs = Place(g, e, slot).fs /\ w.ret = Place(g, e, slot).ret
    BY <2>4 DEF WithAddress, At
  <2>6. /\ FsTyped(p) /\ p.tail.seg = t /\ p.media = g.media /\ p.live = g.live
        /\ p.full = g.full
        /\ p.tail.slots = [g.tail.slots EXCEPT ![e] = slot]
        /\ SameFile(g, p) /\ "cached" \notin g.lapses /\ p.lapses = g.lapses
    BY <1>0 DEF Ledger, FsTyped, StateFields, SameFile
  <2> HIDE DEF p, w, e, a
  <2>7. /\ \A s \in DataSegments \ {t} : BlocksIn(M, s) = BlocksIn(L, s)
        /\ BlocksIn(M, t) = BlocksIn(L, t) \cup {e}
        /\ M \subseteq Address
    BY <2>1, <2>2, <2>3 DEF BlocksIn, At, a
  <2>8. DOMAIN p.tail.slots = 1 .. SegBlocks /\ EmptyBlocks(p.tail.slots) = free \ {e}
    BY <2>1, <2>2, <2>6 DEF EmptyBlocks
  <2>13. /\ Labelled(p.tail.slots) /\ \A s \in DataSegments : Labelled(p.media[s])
         /\ \A x \in M : x.seg \in p.full \cup {p.tail.seg}
    <3>1. slot.inum \in Numbers /\ slot.fb \in Labels
      OBVIOUS
    <3> HIDE DEF slot
    <3> QED
      BY <2>1, <2>2, <2>3, <2>6, <3>1 DEF Labelled
  <2> HIDE DEF free, M, slot
  <2>9. EmptyBlocks(p.tail.slots) = (1 .. SegBlocks) \ BlocksIn(M, t)
    BY <2>1, <2>7, <2>8
  <2>10. Keeps(g, p, L) /\ SlotAt(p, a) = slot
    <3>1. SlotAt(p, a) = slot
      BY <2>1, <2>2, <2>3, <2>6 DEF SlotAt, Slots
    <3>2. ASSUME NEW x \in L PROVE SlotAt(p, x) = SlotAt(g, x)
      <4>1. x \in Address /\ x # a /\ x = At(x.seg, x.blk)
        BY <2>1, <2>3, AddressParts
      <4>2. CASE x.seg = t
        <5>1. x.blk # e
          BY <4>1, <4>2 DEF a
        <5> QED
          BY <2>6, <4>2, <5>1 DEF SlotAt, Slots
      <4>3. CASE x.seg # t
        BY <2>6, <4>3 DEF SlotAt, Slots
      <4> QED
        BY <4>2, <4>3
    <3>3. Unwritten(g, p, L)
      BY <2>6 DEF Unwritten
    <3> QED
      BY <3>1, <3>2, <3>3 DEF Keeps
  <2>11. CASE e # SegBlocks
    <3>1. w.fs = p /\ w.ret = 0
      BY <2>5, <2>11 DEF Place, p
    <3>2. SegBlocks \in EmptyBlocks(p.tail.slots)
      BY <2>1, <2>8, <2>11
    <3>3. Ledger(p, M)
      BY <2>1, <2>6, <2>7, <2>8, <2>9, <2>13, <3>2 DEF Ledger
    <3> QED
      BY <2>3, <2>5, <2>6, <2>10, <3>1, <3>3 DEF w, M, slot
  <2>12. CASE e = SegBlocks
    <3>1. w.fs = WriteTail(p).fs /\ w.ret = WriteTail(p).ret
      BY <2>5, <2>12 DEF Place, p
    <3>2. CASE p.tail.seg \in p.full /\ ~ p.partial
      <4>1. w.fs = Lapse(Recounted(p), "dirty") /\ w.ret = 1
        BY <3>1, <3>2 DEF WriteTail
      <4>2. FsTyped(Recounted(p))
        BY <2>1, <2>6, RecountedFollows DEF Follows
      <4>3. Refused(w.fs)
        BY <4>1, <4>2 DEF Lapse, Refused, FsTyped, StateFields
      <4> QED
        BY <4>1, <4>3 DEF w
    <3>3. CASE ~ (p.tail.seg \in p.full /\ ~ p.partial)
      <4> DEFINE n == NextTail(Recounted(p))
                 h == CheckpointIfDue(n)
      <4>0. w.fs = CheckpointIfDue(Reused(n)) /\ w.ret = 0
        BY <3>1, <3>3 DEF WriteTail
      <4>5. FsTyped(n)
        BY <2>1, <2>6, RecountedFollows, NextTailFollows DEF Follows
      <4>6. CASE Reused(n) # n
        BY <4>0, <4>5, <4>6, ReusedRefused DEF w
      <4> SUFFICES ASSUME Reused(n) = n
                   PROVE  LET x == Log_Write(g, inum, fileBlock, data)
                          IN  /\ x.ret = 0
                              /\ x.addr \in Address \ L /\ x.addr.seg = g.tail.seg
                              /\ Ledger(x.fs, L \cup {x.addr})
                              /\ SameFile(g, x.fs) /\ Keeps(g, x.fs, L)
                              /\ SlotAt(x.fs, x.addr) =
                                   [inum |-> inum, fb |-> fileBlock, data |-> data]
        BY <4>6 DEF w
      <4>1. w.fs = h /\ w.ret = 0
        BY <4>0
      <4>2. Ledger(h, M) /\ SameFile(p, h) /\ Keeps(p, h, M)
        <5>1. BlocksIn(M, t) # {}
          BY <2>7
        <5>2. \A s \in DataSegments \ {p.tail.seg} :
                 /\ p.live[s] = Cardinality(BlocksIn(M, s))
                 /\ \A b \in BlocksIn(M, s) : p.media[s][b] # NO_INUM
          BY <2>1, <2>6, <2>7
        <5> QED
          BY <2>1, <2>6, <2>7, <2>9, <2>13, <5>1, <5>2, LedgerTailWritten
      <4>3. SlotAt(h, a) = slot /\ SameFile(g, h)
        BY <2>6, <2>10, <4>2 DEF Keeps, M, SameFile
      <4>4. Keeps(g, h, L)
        <5>1. L \subseteq M
          BY DEF M
        <5> QED
          BY <2>10, <4>2, <5>1, KeepsFollows
      <4> QED
        BY <2>3, <2>5, <4>1, <4>2, <4>3, <4>4 DEF w, M, slot
    <3> QED
      BY <3>2, <3>3
  <2> QED
    BY <2>11, <2>12
<1> QED
  BY <1>1, <1>2

----------------------------------------------------------------------------
(* What is read through the view of a log. *)

LEMMA BlockNumberFacts ==
    /\ BlockNumbers = 0 .. NDirect + NIndirect - 1
    /\ \A c \in 0 .. NIndirect - 1 : NDirect + c \in BlockNumbers /\ NDirect + c >= NDirect
    /\ \A b \in BlockNumbers : b >= NDirect => /\ b - NDirect \in 0 .. NIndirect - 1
                                               /\ NDirect + (b - NDirect) = b
    /\ \A b \in BlockNumbers : ~ (b >= NDirect) => b < NDirect /\ b \in 0 .. NDirect - 1
    /\ BlockNumbers \subseteq Int
BY GeometryFacts DEF BlockNumbers, maxFileBlocks

LEMMA ZeroBlockTyped == ZeroBlock \in FileBlock
BY DEF ZeroBlock, FileBlock, Unit

\* A log with a ledger reads no old copy of its tail.
LEMMA LedgerUncached ==
    ASSUME NEW g, NEW L, Ledger(g, L)
    PROVE  /\ "cached" \notin g.lapses
           /\ \A v, kind : Understood(g, v, kind) = v
BY DEF Ledger, Understood

\* What is read through an inode of the view.
LEMMA ViewReadsIndirect ==
    ASSUME NEW g, NEW M, NEW A, NEW D, NEW O, View(g, M, A, D, O), NEW i \in Numbers
    PROVE  LET stored == [c \in 0 .. NIndirect - 1 |-> A[i][NDirect + c]]
           IN  ReadIndirectBlocks(g, M[i]) = stored /\ stored \in IndirectBlock
<1> DEFINE stored == [c \in 0 .. NIndirect - 1 |-> A[i][NDirect + c]]
           ind == M[i].indirect
<1>1. A[i] \in [BlockNumbers -> MaybeAddress] /\ M[i] \in INode
  BY DEF View, Tree
<1>2. ind # NoAddress => ind \in InUse(O)
  BY <1>1 DEF View, Tree, InUse, MaybeAddress, Nobody, INode, Numbers
<1>3. stored \in IndirectBlock
  BY <1>1, BlockNumberFacts DEF IndirectBlock
<1>4. CASE ind = NoAddress
  <2>1. \A c \in 0 .. NIndirect - 1 : A[i][NDirect + c] = NoAddress
    BY <1>4, BlockNumberFacts DEF View, Tree
  <2> QED
    BY <1>3, <1>4, <2>1 DEF ReadIndirectBlocks, NoIndirect
<1>5. CASE ind # NoAddress
  <2>1. SlotAt(g, ind) # NO_INUM
    BY <1>2, <1>5, SlotOfLedger DEF View
  <2>2. SlotAt(g, ind).data = stored
    BY <1>5 DEF View, Held
  <2>3. \A v : Understood(g, v, IndirectBlock) = v
    BY LedgerUncached DEF View
  <2> QED
    BY <1>3, <1>5, <2>1, <2>2, <2>3 DEF ReadIndirectBlocks, Log_Read, SlotAt
<1> QED
  BY <1>4, <1>5

LEMMA ViewReadsBlock ==
    ASSUME NEW g, NEW M, NEW A, NEW D, NEW O, View(g, M, A, D, O),
           NEW i \in Numbers, NEW b \in BlockNumbers
    PROVE  /\ GetBlockAddress(g, M[i], b) = A[i][b]
           /\ ReadBlock(g, M[i], b) = D[i][b]
           /\ D[i][b] # Dead
<1> DEFINE stored == [c \in 0 .. NIndirect - 1 |-> A[i][NDirect + c]]
<1>1. A[i] \in [BlockNumbers -> MaybeAddress] /\ M[i] \in INode
  BY DEF View, Tree
<1>2. A[i][b] # NoAddress => A[i][b] \in InUse(O)
  BY <1>1 DEF View, Tree, InUse, MaybeAddress, Nobody, Numbers
<1>3. ReadIndirectBlocks(g, M[i]) = stored /\ stored # Dead
  BY ViewReadsIndirect, SentinelAssumption
<1> HIDE DEF stored
<1>4. GetBlockAddress(g, M[i], b) = A[i][b]
  <2>1. CASE b < NDirect
    BY <2>1 DEF GetBlockAddress, View, Tree
  <2>2. CASE ~ (b < NDirect)
    <3>1. b - NDirect \in 0 .. NIndirect - 1 /\ NDirect + (b - NDirect) = b
      BY <2>2, BlockNumberFacts, GeometryFacts DEF BlockNumbers
    <3>2. stored[b - NDirect] = A[i][b]
      BY <3>1 DEF stored
    <3> QED
      BY <1>3, <2>2, <3>2 DEF GetBlockAddress
  <2> QED
    BY <2>1, <2>2
<1>5. D[i][b] \in FileBlock /\ D[i][b] # Dead
  BY SentinelAssumption DEF View, Held
<1>6. A[i][b] \in MaybeAddress /\ A[i][b] # Dead
  BY <1>1, SentinelAssumption
<1>7. /\ A[i][b] = NoAddress => D[i][b] = ZeroBlock
      /\ A[i][b] # NoAddress =>
            SlotAt(g, A[i][b]) = [inum |-> i, fb |-> b, data |-> D[i][b]]
  BY DEF View, Held
<1>8. CASE A[i][b] = NoAddress
  BY <1>4, <1>5, <1>6, <1>7, <1>8 DEF ReadBlock, Fetch
<1>9. CASE A[i][b] # NoAddress
  <2>1. SlotAt(g, A[i][b]) # NO_INUM
    BY <1>2, <1>9, SlotOfLedger DEF View
  <2>2. SlotAt(g, A[i][b]).data = D[i][b]
    BY <1>7, <1>9
  <2> QED
    BY <1>4, <1>5, <1>6, <1>9, <2>1, <2>2 DEF ReadBlock, Fetch, Log_Read, SlotAt
<1> QED
  BY <1>4, <1>5, <1>8, <1>9

\* The blocks of the view are in use, and no two of them are the same.
LEMMA TreeFacts ==
    ASSUME NEW M, NEW A, NEW O, NEW leaked, Tree(M, A, O, leaked)
    PROVE  /\ \A j \in Numbers, c \in BlockNumbers : A[j][c] # NoAddress =>
                 A[j][c] \in InUse(O) /\ A[j][c] \in Address /\ O[A[j][c]] = <<j, c>>
           /\ \A j \in Numbers : M[j].indirect # NoAddress =>
                 /\ M[j].indirect \in InUse(O) /\ M[j].indirect \in Address
                 /\ O[M[j].indirect] = <<j, INDIRECT_BLOCK>>
           /\ \A x \in leaked : x \in InUse(O) /\ x \in Address /\ O[x] = Leaked
<1>1. ASSUME NEW j \in Numbers, NEW c \in BlockNumbers, A[j][c] # NoAddress
      PROVE  A[j][c] \in InUse(O) /\ A[j][c] \in Address /\ O[A[j][c]] = <<j, c>>
  <2>1. A[j][c] \in Address /\ O[A[j][c]] = <<j, c>>
    BY <1>1 DEF Tree, MaybeAddress
  <2> QED
    BY <2>1 DEF InUse, Nobody, Numbers
<1>2. ASSUME NEW j \in Numbers, M[j].indirect # NoAddress
      PROVE  /\ M[j].indirect \in InUse(O) /\ M[j].indirect \in Address
             /\ O[M[j].indirect] = <<j, INDIRECT_BLOCK>>
  <2>1. M[j].indirect \in Address /\ O[M[j].indirect] = <<j, INDIRECT_BLOCK>>
    BY <1>2 DEF Tree, MaybeAddress, INode
  <2> QED
    BY <2>1 DEF InUse, Nobody, Numbers
<1>3. ASSUME NEW x \in leaked PROVE x \in InUse(O) /\ x \in Address /\ O[x] = Leaked
  BY DEF Tree, InUse, Leaked, Nobody
<1> QED
  BY <1>1, <1>2, <1>3

\* Only the blocks of T are given to a file that did not have them.
Handed(O, P, T) == \A x \in Address \ T : P[x] \in {O[x], Nobody, Leaked}

\* The block at address a, if there is one, is leaked if it is in X, and so is
\* the indirect block at address old, if there is one.
Left(g, h, X, a, old) ==
    /\ X \subseteq {a} \ {NoAddress}
    /\ h.leaked = g.leaked \cup X \cup ({old} \ {NoAddress})

\* Block b of file i, which an inode names itself, was written to address a, and
\* the old one freed or, if it is in X, leaked.
LEMMA ViewDirectBlock ==
    ASSUME NEW g, NEW M, NEW A, NEW D, NEW O, View(g, M, A, D, O),
           NEW i \in Numbers, NEW b \in BlockNumbers, b < NDirect,
           NEW data \in FileBlock, NEW h, NEW a \in Address,
           NEW X, Left(g, h, X, A[i][b], NoAddress),
           a \notin (InUse(O) \ {A[i][b]}) \cup X,
           Ledger(h, (InUse(O) \ {A[i][b]}) \cup X \cup {a}),
           Keeps(g, h, InUse(O) \ {A[i][b]}),
           SlotAt(h, a) = [inum |-> i, fb |-> b, data |-> data]
    PROVE  \E P : /\ View(h, [M EXCEPT ![i].direct[b] = a], [A EXCEPT ![i][b] = a],
                          [D EXCEPT ![i][b] = data], P)
                  /\ Handed(O, P, {a})
<1> DEFINE L  == InUse(O) \ {A[i][b]}
           M1 == [M EXCEPT ![i].direct[b] = a]
           A1 == [A EXCEPT ![i][b] = a]
           D1 == [D EXCEPT ![i][b] = data]
           P  == [x \in Address |-> IF x = a THEN <<i, b>>
                                   ELSE IF x \in X THEN Leaked
                                   ELSE IF x = A[i][b] THEN Nobody ELSE O[x]]
<1>0. /\ Tree(M, A, O, g.leaked) /\ Held(g, M, A, D)
      /\ M \in [Numbers -> INode] /\ A \in [Numbers -> [BlockNumbers -> MaybeAddress]]
      /\ D \in [Numbers -> [BlockNumbers -> FileBlock]]
      /\ a # NoAddress
      /\ X \subseteq {A[i][b]} \ {NoAddress} /\ h.leaked = g.leaked \cup X
  BY SentinelAssumption DEF View, Tree, Held, Left
<1>1. /\ \A j \in Numbers, c \in BlockNumbers :
            A[j][c] # NoAddress /\ (j # i \/ c # b) => A[j][c] \in L
      /\ \A j \in Numbers : M[j].indirect # NoAddress => M[j].indirect \in L
      /\ g.leaked \subseteq L
  <2>0. /\ \A j \in Numbers, c \in BlockNumbers : A[j][c] # NoAddress =>
              A[j][c] \in InUse(O) /\ A[j][c] \in Address /\ O[A[j][c]] = <<j, c>>
        /\ \A j \in Numbers : M[j].indirect # NoAddress =>
              /\ M[j].indirect \in InUse(O) /\ M[j].indirect \in Address
              /\ O[M[j].indirect] = <<j, INDIRECT_BLOCK>>
        /\ \A x \in g.leaked : x \in InUse(O) /\ x \in Address /\ O[x] = Leaked
    <3>1. Tree(M, A, O, g.leaked)
      BY <1>0
    <3> QED
      BY ONLY <3>1, TreeFacts
  <2>1. A[i][b] # NoAddress => O[A[i][b]] = <<i, b>>
    BY <2>0
  <2>2. ASSUME NEW j \in Numbers, NEW c \in BlockNumbers,
               A[j][c] # NoAddress, j # i \/ c # b
        PROVE  A[j][c] \in L
    <3>1. A[j][c] \in InUse(O) /\ O[A[j][c]] = <<j, c>>
      BY <2>0, <2>2
    <3> QED
      BY <2>1, <2>2, <3>1
  <2>3. ASSUME NEW j \in Numbers, M[j].indirect # NoAddress
        PROVE  M[j].indirect \in L
    <3>1. M[j].indirect \in InUse(O) /\ O[M[j].indirect] = <<j, INDIRECT_BLOCK>>
      BY <2>0, <2>3
    <3>2. b # INDIRECT_BLOCK
      BY DEF INDIRECT_BLOCK, BlockNumbers
    <3> QED
      BY <2>1, <2>3, <3>1, <3>2
  <2>4. ASSUME NEW x \in g.leaked PROVE x \in L
    <3>1. x \in InUse(O) /\ O[x] = Leaked /\ x \in Address
      BY <2>0
    <3>2. <<i, b>> # Leaked
      BY DEF Leaked, Numbers
    <3> QED
      BY <2>1, <3>1, <3>2, SentinelAssumption
  <2> QED
    BY <2>2, <2>3, <2>4
<1>2. \A x \in L : x \in Address /\ P[x] = O[x] /\ SlotAt(h, x) = SlotAt(g, x)
  BY <1>0 DEF Keeps, InUse
<1>10. \A x \in X : x \in Address /\ x \notin L /\ x # a /\ P[x] = Leaked
  BY <1>0 DEF MaybeAddress
<1>3. InUse(P) = L \cup X \cup {a}
  <2>1. <<i, b>> # Nobody /\ Leaked # Nobody
    BY DEF Nobody, Leaked, Numbers
  <2> QED
    BY <1>10, <2>1 DEF InUse
<1>11. Handed(O, P, {a})
  BY DEF Handed
<1>4. /\ A1 \in [Numbers -> [BlockNumbers -> MaybeAddress]]
      /\ A1[i][b] = a
      /\ \A j \in Numbers, c \in BlockNumbers : j # i \/ c # b => A1[j][c] = A[j][c]
  BY <1>0 DEF MaybeAddress
<1>5. /\ D1 \in [Numbers -> [BlockNumbers -> FileBlock]]
      /\ D1[i][b] = data
      /\ \A j \in Numbers, c \in BlockNumbers : j # i \/ c # b => D1[j][c] = D[j][c]
  BY <1>0
<1>6. /\ M1 \in [Numbers -> INode] /\ b \in 0 .. NDirect - 1
      /\ \A j \in Numbers : M1[j].indirect = M[j].indirect /\ M1[j].inum = M[j].inum
      /\ M1[i].direct[b] = a
      /\ \A j \in Numbers, c \in 0 .. NDirect - 1 :
            j # i \/ c # b => M1[j].direct[c] = M[j].direct[c]
  <2>1. b \in 0 .. NDirect - 1
    BY BlockNumberFacts, GeometryFacts
  <2>2. M1 = [M EXCEPT ![i] = [M[i] EXCEPT !.direct = [M[i].direct EXCEPT ![b] = a]]]
    OBVIOUS
  <2>3. [M[i] EXCEPT !.direct = [M[i].direct EXCEPT ![b] = a]] \in INode
    BY <1>0, <2>1 DEF INode, MaybeAddress
  <2> QED
    BY <1>0, <2>1, <2>2, <2>3 DEF INode
<1> HIDE DEF M1, A1, D1, P, L
<1>7. Tree(M1, A1, P, h.leaked)
  <2>1. ASSUME NEW j \in Numbers, NEW c \in BlockNumbers
        PROVE  /\ c < NDirect => A1[j][c] = M1[j].direct[c]
               /\ c >= NDirect /\ M1[j].indirect = NoAddress => A1[j][c] = NoAddress
               /\ A1[j][c] # NoAddress => P[A1[j][c]] = <<j, c>>
    <3>1. CASE j = i /\ c = b
      <4>1. P[a] = <<i, b>>
        BY DEF P
      <4> QED
        BY <1>4, <1>6, <3>1, <4>1, GeometryFacts, BlockNumberFacts
    <3>2. CASE j # i \/ c # b
      <4>1. /\ c < NDirect => A[j][c] = M[j].direct[c] /\ c \in 0 .. NDirect - 1
            /\ c >= NDirect /\ M[j].indirect = NoAddress => A[j][c] = NoAddress
            /\ A[j][c] # NoAddress => O[A[j][c]] = <<j, c>>
        <5>1. c < NDirect => c \in 0 .. NDirect - 1
          BY BlockNumberFacts, GeometryFacts
        <5> QED
          BY <1>0, <5>1 DEF Tree
      <4> QED
        BY <1>1, <1>2, <1>4, <1>6, <3>2, <4>1
    <3> QED
      BY <3>1, <3>2
  <2>2. ASSUME NEW x \in Address
        PROVE  \/ P[x] = Nobody
               \/ P[x] = Leaked /\ x \in h.leaked
               \/ \E j \in Numbers : M1[j].indirect = x
               \/ \E j \in Numbers, c \in BlockNumbers : A1[j][c] = x
    <3>1. CASE x = a
      BY <1>4, <3>1
    <3>2. CASE x # a /\ x = A[i][b]
      BY <1>0, <1>10, <3>2 DEF P
    <3>3. CASE x # a /\ x # A[i][b]
      <4>1. P[x] = O[x]
        BY <1>0, <1>10, <3>3 DEF P
      <4>2. \/ O[x] = Nobody
            \/ O[x] = Leaked /\ x \in g.leaked
            \/ \E j \in Numbers : M[j].indirect = x
            \/ \E j \in Numbers, c \in BlockNumbers : A[j][c] = x
        BY <1>0 DEF Tree
      <4>3. g.leaked \subseteq h.leaked
        BY <1>0
      <4> HIDE DEF P
      <4> QED
        BY <1>4, <1>6, <3>3, <4>1, <4>2, <4>3
    <3> QED
      BY <3>1, <3>2, <3>3
  <2>3. \A j \in Numbers :
           M1[j].indirect # NoAddress => P[M1[j].indirect] = <<j, INDIRECT_BLOCK>>
    BY <1>0, <1>1, <1>2, <1>6 DEF Tree
  <2>4. \A x \in h.leaked : P[x] = Leaked
    BY <1>0, <1>1, <1>2, <1>10 DEF Tree
  <2>5. DOMAIN P = Address /\ h.leaked \subseteq Address
    BY <1>0, <1>10 DEF P, Tree
  <2>6. \A j \in Numbers : M1[j].inum = j
    BY <1>0, <1>6 DEF Tree
  <2> QED
    BY <1>4, <1>6, <2>1, <2>2, <2>3, <2>4, <2>5, <2>6 DEF Tree
<1>8. Held(h, M1, A1, D1)
  <2>1. ASSUME NEW j \in Numbers, NEW c \in BlockNumbers
        PROVE  /\ A1[j][c] = NoAddress => D1[j][c] = ZeroBlock
               /\ A1[j][c] # NoAddress =>
                    SlotAt(h, A1[j][c]) = [inum |-> j, fb |-> c, data |-> D1[j][c]]
    <3>1. CASE j = i /\ c = b
      BY <1>0, <1>4, <1>5, <3>1
    <3>2. CASE j # i \/ c # b
      <4>1. /\ A[j][c] = NoAddress => D[j][c] = ZeroBlock
            /\ A[j][c] # NoAddress =>
                 SlotAt(g, A[j][c]) = [inum |-> j, fb |-> c, data |-> D[j][c]]
        BY <1>0 DEF Held
      <4> QED
        BY <1>1, <1>2, <1>4, <1>5, <3>2, <4>1
    <3> QED
      BY <3>1, <3>2
  <2>2. ASSUME NEW j \in Numbers, M1[j].indirect # NoAddress
        PROVE  /\ SlotAt(h, M1[j].indirect).inum = j
               /\ SlotAt(h, M1[j].indirect).data
                    = [c \in 0 .. NIndirect - 1 |-> A1[j][NDirect + c]]
    <3>1. SlotAt(h, M[j].indirect) = SlotAt(g, M[j].indirect)
      BY <1>1, <1>2, <1>6, <2>2
    <3>2. /\ SlotAt(g, M[j].indirect).inum = j
          /\ SlotAt(g, M[j].indirect).data
               = [c \in 0 .. NIndirect - 1 |-> A[j][NDirect + c]]
      BY <1>0, <1>6, <2>2 DEF Held
    <3>3. \A c \in 0 .. NIndirect - 1 : A1[j][NDirect + c] = A[j][NDirect + c]
      BY <1>4, BlockNumberFacts, GeometryFacts
    <3> QED
      BY <1>6, <3>1, <3>2, <3>3
  <2> QED
    BY <1>5, <2>1, <2>2 DEF Held
<1>9. View(h, M1, A1, D1, P)
  BY <1>3, <1>7, <1>8 DEF View, L
<1> QED
  BY <1>9, <1>11 DEF M1, A1, D1

\* Block b of file i, which its indirect block names, was written to address a,
\* and the indirect block to address r: the old one is leaked, and the old block
\* freed or, if it is in X, leaked.
LEMMA ViewIndirectBlock ==
    ASSUME NEW g, NEW M, NEW A, NEW D, NEW O, View(g, M, A, D, O),
           NEW i \in Numbers, NEW b \in BlockNumbers, b >= NDirect,
           NEW data \in FileBlock, NEW h, NEW a \in Address, NEW r \in Address,
           NEW X, Left(g, h, X, A[i][b], M[i].indirect),
           a \notin (InUse(O) \ {A[i][b]}) \cup X,
           r \notin (InUse(O) \ {A[i][b]}) \cup X \cup {a},
           Ledger(h, (InUse(O) \ {A[i][b]}) \cup X \cup {a} \cup {r}),
           Keeps(g, h, InUse(O) \ {A[i][b]}),
           SlotAt(h, a) = [inum |-> i, fb |-> b, data |-> data],
           NEW num, NEW list, SlotAt(h, r) = [inum |-> i, fb |-> num, data |-> list],
           list = [[c \in 0 .. NIndirect - 1 |-> A[i][NDirect + c]]
                     EXCEPT ![b - NDirect] = a]
    PROVE  \E P : /\ View(h, [M EXCEPT ![i].indirect = r], [A EXCEPT ![i][b] = a],
                          [D EXCEPT ![i][b] = data], P)
                  /\ Handed(O, P, {a, r})
<1> DEFINE L  == InUse(O) \ {A[i][b]}
           old == M[i].indirect
           M1 == [M EXCEPT ![i].indirect = r]
           A1 == [A EXCEPT ![i][b] = a]
           D1 == [D EXCEPT ![i][b] = data]
           P  == [x \in Address |-> IF x = a THEN <<i, b>>
                                   ELSE IF x = r THEN <<i, INDIRECT_BLOCK>>
                                   ELSE IF x = old \/ x \in X THEN Leaked
                                   ELSE IF x = A[i][b] THEN Nobody ELSE O[x]]
<1>0. /\ Tree(M, A, O, g.leaked) /\ Held(g, M, A, D)
      /\ M \in [Numbers -> INode] /\ A \in [Numbers -> [BlockNumbers -> MaybeAddress]]
      /\ D \in [Numbers -> [BlockNumbers -> FileBlock]]
      /\ a # NoAddress /\ r # NoAddress /\ a # r
  BY SentinelAssumption DEF View, Tree, Held
<1>13. /\ X \subseteq {A[i][b]} \ {NoAddress}
       /\ h.leaked = g.leaked \cup X \cup ({old} \ {NoAddress})
  BY DEF Left
<1>1. /\ \A j \in Numbers, c \in BlockNumbers :
            A[j][c] # NoAddress /\ (j # i \/ c # b) => A[j][c] \in L \ {old}
      /\ \A j \in Numbers : M[j].indirect # NoAddress => M[j].indirect \in L
      /\ \A j \in Numbers : M[j].indirect # NoAddress /\ j # i => M[j].indirect # old
      /\ g.leaked \subseteq L \ {old}
  <2>0. /\ \A j \in Numbers, c \in BlockNumbers : A[j][c] # NoAddress =>
              A[j][c] \in InUse(O) /\ A[j][c] \in Address /\ O[A[j][c]] = <<j, c>>
        /\ \A j \in Numbers : M[j].indirect # NoAddress =>
              /\ M[j].indirect \in InUse(O) /\ M[j].indirect \in Address
              /\ O[M[j].indirect] = <<j, INDIRECT_BLOCK>>
        /\ \A x \in g.leaked : x \in InUse(O) /\ x \in Address /\ O[x] = Leaked
    <3>1. Tree(M, A, O, g.leaked)
      BY <1>0
    <3> QED
      BY ONLY <3>1, TreeFacts
  <2>1. A[i][b] # NoAddress => O[A[i][b]] = <<i, b>>
    BY <2>0
  <2>2. old # NoAddress => O[old] = <<i, INDIRECT_BLOCK>>
    BY <2>0
  <2> HIDE DEF old
  <2>3. ASSUME NEW j \in Numbers, NEW c \in BlockNumbers,
               A[j][c] # NoAddress, j # i \/ c # b
        PROVE  A[j][c] \in L \ {old}
    <3>1. A[j][c] \in InUse(O) /\ O[A[j][c]] = <<j, c>>
      BY <2>0, <2>3
    <3>2. c # INDIRECT_BLOCK
      BY DEF INDIRECT_BLOCK, BlockNumbers
    <3> QED
      BY <2>1, <2>2, <2>3, <3>1, <3>2
  <2>4. ASSUME NEW j \in Numbers, M[j].indirect # NoAddress
        PROVE  M[j].indirect \in L /\ (j # i => M[j].indirect # old)
    <3>1. M[j].indirect \in InUse(O) /\ O[M[j].indirect] = <<j, INDIRECT_BLOCK>>
      BY <2>0, <2>4
    <3>2. b # INDIRECT_BLOCK
      BY DEF INDIRECT_BLOCK, BlockNumbers
    <3> QED
      BY <2>1, <2>2, <2>4, <3>1, <3>2
  <2>5. ASSUME NEW x \in g.leaked PROVE x \in L \ {old}
    <3>1. x \in InUse(O) /\ O[x] = Leaked /\ x \in Address
      BY <2>0
    <3>2. <<i, b>> # Leaked /\ <<i, INDIRECT_BLOCK>> # Leaked
      BY DEF Leaked, Numbers
    <3> QED
      BY <2>1, <2>2, <3>1, <3>2, SentinelAssumption
  <2> QED
    BY <2>3, <2>4, <2>5
<1>2. \A x \in L : /\ x \in Address /\ SlotAt(h, x) = SlotAt(g, x)
                   /\ x # a /\ x # r
                   /\ x # old => P[x] = O[x]
  BY <1>13 DEF Keeps, InUse
<1>11. \A x \in X : x \in Address /\ x \notin L /\ x # a /\ x # r /\ P[x] = Leaked
  <2> HIDE DEF old
  <2> QED
    BY <1>0, <1>13 DEF MaybeAddress
<1>12. Handed(O, P, {a, r})
  <2> HIDE DEF old
  <2> QED
    BY DEF Handed
<1>3. InUse(P) = L \cup X \cup {a} \cup {r}
  <2>1. old # NoAddress => old \in L
    BY <1>1
  <2>2. <<i, b>> # Nobody /\ <<i, INDIRECT_BLOCK>> # Nobody /\ Leaked # Nobody
    BY DEF Nobody, Leaked, Numbers
  <2> HIDE DEF old
  <2>3. ASSUME NEW x \in Address
        PROVE  P[x] # Nobody <=> x \in L \cup X \cup {a} \cup {r}
    BY <1>11, <2>1, <2>2, SentinelAssumption DEF InUse
  <2> HIDE DEF P
  <2> QED
    BY <1>11, <2>3 DEF InUse
<1>4. /\ A1 \in [Numbers -> [BlockNumbers -> MaybeAddress]]
      /\ A1[i][b] = a
      /\ \A j \in Numbers, c \in BlockNumbers : j # i \/ c # b => A1[j][c] = A[j][c]
  BY <1>0 DEF MaybeAddress
<1>5. /\ D1 \in [Numbers -> [BlockNumbers -> FileBlock]]
      /\ D1[i][b] = data
      /\ \A j \in Numbers, c \in BlockNumbers : j # i \/ c # b => D1[j][c] = D[j][c]
  BY <1>0
<1>6. /\ M1 \in [Numbers -> INode]
      /\ \A j \in Numbers : M1[j].direct = M[j].direct /\ M1[j].inum = M[j].inum
      /\ M1[i].indirect = r
      /\ \A j \in Numbers : j # i => M1[j].indirect = M[j].indirect
  <2>1. M1 = [M EXCEPT ![i] = [M[i] EXCEPT !.indirect = r]]
    OBVIOUS
  <2>2. [M[i] EXCEPT !.indirect = r] \in INode
    <3>1. r \in MaybeAddress /\ M[i] \in INode
      BY <1>0 DEF MaybeAddress
    <3> QED
      BY <3>1 DEF INode
  <2> QED
    BY <1>0, <2>1, <2>2 DEF INode
<1>7. P[a] = <<i, b>> /\ P[r] = <<i, INDIRECT_BLOCK>> /\ (old # NoAddress => P[old] = Leaked)
  <2>1. old # NoAddress => old \in L /\ old \in Address /\ old # a /\ old # r
    BY <1>1, <1>2
  <2> HIDE DEF old
  <2> QED
    BY <1>0, <2>1
<1> HIDE DEF M1, A1, D1, P, L
<1>8. Tree(M1, A1, P, h.leaked)
  <2>1. ASSUME NEW j \in Numbers, NEW c \in BlockNumbers
        PROVE  /\ c < NDirect => A1[j][c] = M1[j].direct[c]
               /\ c >= NDirect /\ M1[j].indirect = NoAddress => A1[j][c] = NoAddress
               /\ A1[j][c] # NoAddress => P[A1[j][c]] = <<j, c>>
    <3>1. CASE j = i /\ c = b
      BY <1>0, <1>4, <1>6, <1>7, <3>1, GeometryFacts, BlockNumberFacts
    <3>2. CASE j # i \/ c # b
      <4>1. /\ c < NDirect => A[j][c] = M[j].direct[c]
            /\ c >= NDirect /\ M[j].indirect = NoAddress => A[j][c] = NoAddress
            /\ A[j][c] # NoAddress => O[A[j][c]] = <<j, c>>
        BY <1>0 DEF Tree
      <4>2. A1[j][c] = A[j][c] /\ M1[j].direct = M[j].direct
        BY <1>4, <1>6, <3>2
      <4>3. M1[j].indirect = NoAddress => M[j].indirect = NoAddress
        BY <1>0, <1>6
      <4>4. ASSUME A[j][c] # NoAddress PROVE P[A[j][c]] = O[A[j][c]]
        <5>1. A[j][c] \in L \ {old}
          BY <1>1, <3>2, <4>4
        <5> QED
          BY <1>2, <5>1
      <4> QED
        BY <4>1, <4>2, <4>3, <4>4
    <3> QED
      BY <3>1, <3>2
  <2>2. ASSUME NEW x \in Address
        PROVE  \/ P[x] = Nobody
               \/ P[x] = Leaked /\ x \in h.leaked
               \/ \E j \in Numbers : M1[j].indirect = x
               \/ \E j \in Numbers, c \in BlockNumbers : A1[j][c] = x
    <3>1. CASE x = a \/ x = r
      BY <1>4, <1>6, <3>1
    <3>2. CASE x # a /\ x # r /\ x = old
      BY <1>7, <1>13, <3>2, SentinelAssumption
    <3>5. CASE x \in X
      BY <1>11, <1>13, <3>5
    <3>3. CASE x # a /\ x # r /\ x # old /\ x = A[i][b]
      BY <3>3, <3>5 DEF P
    <3>4. CASE x # a /\ x # r /\ x # old /\ x # A[i][b]
      <4>1. P[x] = O[x]
        BY <1>11, <1>13, <3>4 DEF P
      <4>2. \/ O[x] = Nobody
            \/ O[x] = Leaked /\ x \in g.leaked
            \/ \E j \in Numbers : M[j].indirect = x
            \/ \E j \in Numbers, c \in BlockNumbers : A[j][c] = x
        BY <1>0 DEF Tree
      <4>3. g.leaked \subseteq h.leaked
        BY <1>13
      <4> HIDE DEF P
      <4> QED
        BY <1>4, <1>6, <3>4, <4>1, <4>2, <4>3
    <3> QED
      BY <3>1, <3>2, <3>3, <3>4, <3>5
  <2>3. ASSUME NEW j \in Numbers, M1[j].indirect # NoAddress
        PROVE  P[M1[j].indirect] = <<j, INDIRECT_BLOCK>>
    <3>1. CASE j = i
      BY <1>6, <1>7, <3>1
    <3>2. CASE j # i
      <4>1. M1[j].indirect = M[j].indirect /\ M[j].indirect # NoAddress
        BY <1>6, <2>3, <3>2
      <4>2. M[j].indirect \in L /\ M[j].indirect # old
        BY <1>1, <3>2, <4>1
      <4>3. P[M[j].indirect] = O[M[j].indirect]
        BY <1>2, <4>2
      <4>4. O[M[j].indirect] = <<j, INDIRECT_BLOCK>>
        BY <1>0, <4>1 DEF Tree
      <4> QED
        BY <4>1, <4>3, <4>4
    <3> QED
      BY <3>1, <3>2
  <2>4. ASSUME NEW x \in h.leaked PROVE P[x] = Leaked
    <3>1. CASE x \in g.leaked
      BY <1>0, <1>1, <1>2, <3>1 DEF Tree
    <3>2. CASE x = old /\ old # NoAddress
      BY <1>7, <3>2
    <3>3. CASE x \in X
      BY <1>11, <3>3
    <3> HIDE DEF P
    <3> QED
      BY <1>13, <3>1, <3>2, <3>3
  <2>5. DOMAIN P = Address /\ h.leaked \subseteq Address
    <3>1. old # NoAddress => old \in Address
      BY <1>1, <1>2
    <3> QED
      BY <1>0, <1>11, <1>13, <3>1 DEF P, Tree
  <2>6. \A j \in Numbers : M1[j].inum = j
    BY <1>0, <1>6 DEF Tree
  <2> QED
    BY <1>4, <1>6, <2>1, <2>2, <2>3, <2>4, <2>5, <2>6 DEF Tree
<1>9. Held(h, M1, A1, D1)
  <2>1. ASSUME NEW j \in Numbers, NEW c \in BlockNumbers
        PROVE  /\ A1[j][c] = NoAddress => D1[j][c] = ZeroBlock
               /\ A1[j][c] # NoAddress =>
                    SlotAt(h, A1[j][c]) = [inum |-> j, fb |-> c, data |-> D1[j][c]]
    <3>1. CASE j = i /\ c = b
      BY <1>0, <1>4, <1>5, <3>1
    <3>2. CASE j # i \/ c # b
      <4>1. /\ A[j][c] = NoAddress => D[j][c] = ZeroBlock
            /\ A[j][c] # NoAddress =>
                 SlotAt(g, A[j][c]) = [inum |-> j, fb |-> c, data |-> D[j][c]]
        BY <1>0 DEF Held
      <4> QED
        BY <1>1, <1>2, <1>4, <1>5, <3>2, <4>1
    <3> QED
      BY <3>1, <3>2
  <2>2. ASSUME NEW j \in Numbers, M1[j].indirect # NoAddress
        PROVE  /\ SlotAt(h, M1[j].indirect).inum = j
               /\ SlotAt(h, M1[j].indirect).data
                    = [c \in 0 .. NIndirect - 1 |-> A1[j][NDirect + c]]
    <3>1. CASE j # i
      <4>1. SlotAt(h, M[j].indirect) = SlotAt(g, M[j].indirect)
        BY <1>1, <1>2, <1>6, <2>2, <3>1
      <4>2. /\ SlotAt(g, M[j].indirect).inum = j
            /\ SlotAt(g, M[j].indirect).data
                 = [c \in 0 .. NIndirect - 1 |-> A[j][NDirect + c]]
        BY <1>0, <1>6, <2>2, <3>1 DEF Held
      <4>3. \A c \in 0 .. NIndirect - 1 : A1[j][NDirect + c] = A[j][NDirect + c]
        BY <1>4, <3>1, BlockNumberFacts
      <4>4. M1[j].indirect = M[j].indirect
        BY <1>6, <3>1
      <4>5. [c \in 0 .. NIndirect - 1 |-> A[j][NDirect + c]]
              = [c \in 0 .. NIndirect - 1 |-> A1[j][NDirect + c]]
        BY <4>3
      <4> QED
        BY <4>1, <4>2, <4>4, <4>5
    <3>2. CASE j = i
      <4> DEFINE stored == [c \in 0 .. NIndirect - 1 |-> A[i][NDirect + c]]
      <4>1. b - NDirect \in 0 .. NIndirect - 1 /\ NDirect + (b - NDirect) = b
        BY BlockNumberFacts
      <4>2. ASSUME NEW c \in 0 .. NIndirect - 1
            PROVE  [stored EXCEPT ![b - NDirect] = a][c] = A1[i][NDirect + c]
        <5>1. CASE c = b - NDirect
          BY <1>4, <4>1, <5>1
        <5>2. CASE c # b - NDirect
          <6>1. NDirect + c # b /\ NDirect + c \in BlockNumbers
            BY <5>2, BlockNumberFacts, GeometryFacts
          <6> QED
            BY <1>4, <5>2, <6>1
        <5> QED
          BY <5>1, <5>2
      <4>3. [stored EXCEPT ![b - NDirect] = a]
              = [c \in 0 .. NIndirect - 1 |-> A1[i][NDirect + c]]
        BY <4>2
      <4>4. SlotAt(h, M1[j].indirect) = [inum |-> j, fb |-> num, data |-> list]
        BY <1>6, <3>2
      <4>5. list = [c \in 0 .. NIndirect - 1 |-> A1[j][NDirect + c]]
        BY <3>2, <4>3
      <4> HIDE DEF M1, A1
      <4>6. SlotAt(h, M1[j].indirect).inum = j /\ SlotAt(h, M1[j].indirect).data = list
        BY ONLY <4>4
      <4> QED
        BY ONLY <4>5, <4>6
    <3> QED
      BY <3>1, <3>2
  <2> QED
    BY <1>5, <2>1, <2>2 DEF Held
<1>10. View(h, M1, A1, D1, P)
  BY <1>3, <1>8, <1>9 DEF View, L
<1> QED
  BY <1>10, <1>12 DEF M1, A1, D1

----------------------------------------------------------------------------
(* Writing blocks of a file. *)

\* Two inodes that differ in nothing but the addresses of blocks.
SameButBlocks(n, m) ==
    /\ m.inUse = n.inUse /\ m.inum = n.inum
    /\ m.fileSize = n.fileSize /\ m.permissions = n.permissions

\* Only blocks and inodes in hand changed.
SameState(g, h) ==
    h.root = g.root /\ h.iFileSize = g.iFileSize /\ h.lapses = g.lapses

LEMMA RefusedStays ==
    ASSUME NEW g, NEW h, Refused(g), Follows(g, h)
    PROVE  Refused(h)
BY DEF Refused, Follows

\* What was in use and is not the block that is replaced.
LEMMA OthersInUse ==
    ASSUME NEW g, NEW M, NEW A, NEW D, NEW O, View(g, M, A, D, O),
           NEW i \in Numbers, NEW b \in BlockNumbers
    PROVE  /\ M[i].indirect # NoAddress => M[i].indirect \in InUse(O) \ {A[i][b]}
           /\ g.leaked \subseteq InUse(O) \ {A[i][b]}
           /\ A[i][b] # NoAddress => A[i][b] \in InUse(O)
<1>1. Tree(M, A, O, g.leaked)
  BY DEF View
<1>2. /\ A[i][b] # NoAddress => A[i][b] \in InUse(O) /\ O[A[i][b]] = <<i, b>>
      /\ M[i].indirect # NoAddress =>
            M[i].indirect \in InUse(O) /\ O[M[i].indirect] = <<i, INDIRECT_BLOCK>>
      /\ \A x \in g.leaked : x \in InUse(O) /\ x \in Address /\ O[x] = Leaked
  BY <1>1, TreeFacts
<1>3. b # INDIRECT_BLOCK /\ <<i, b>> # Leaked
  BY DEF INDIRECT_BLOCK, BlockNumbers, Leaked, Numbers
<1>4. M[i].indirect # NoAddress => M[i].indirect # A[i][b]
  BY <1>2, <1>3
<1>5. \A x \in g.leaked : x # A[i][b]
  BY <1>2, <1>3, SentinelAssumption
<1> QED
  BY <1>2, <1>4, <1>5

\* Segment s holds a leaked block and is not the tail.
Pinned(g, s) == s # g.tail.seg /\ \E a \in g.leaked : a.seg = s

\* A pinned segment stays as it is, and no file is given a block of it.
Spared(g, O, h, P) ==
    \A s \in DataSegments : Pinned(g, s) =>
       /\ Pinned(h, s) /\ h.media[s] = g.media[s]
       /\ \A x \in Address : x.seg = s => P[x] \in {O[x], Nobody, Leaked}

LEMMA SparedFollows ==
    ASSUME NEW f, NEW g, NEW h, NEW O, NEW P, NEW Q,
           Spared(f, O, g, P), Spared(g, P, h, Q)
    PROVE  Spared(f, O, h, Q)
BY DEF Spared

\* Segments with a block of K, but not the tail, stay as they are, and no file is
\* given a block of them.
Untouched(g, O, K, h, P) ==
    \A s \in DataSegments : s # g.tail.seg /\ BlocksIn(K, s) # {} =>
       /\ s # h.tail.seg /\ h.media[s] = g.media[s]
       /\ \A x \in Address : x.seg = s => P[x] \in {O[x], Nobody, Leaked}

LEMMA WriteUntouched ==
    ASSUME NEW g, NEW h, NEW K, Unwritten(g, h, K),
           NEW O, NEW P, NEW T, Handed(O, P, T),
           \A x \in T, s \in DataSegments :
              s # g.tail.seg /\ BlocksIn(K, s) # {} => x.seg # s
    PROVE  Untouched(g, O, K, h, P)
BY DEF Untouched, Unwritten, Handed

LEMMA UntouchedSpares ==
    ASSUME NEW g, NEW h, NEW K, K \subseteq Address, NEW O, NEW P,
           g.leaked \subseteq K, g.leaked \subseteq h.leaked, Untouched(g, O, K, h, P)
    PROVE  Spared(g, O, h, P)
<1> SUFFICES ASSUME NEW s \in DataSegments, Pinned(g, s)
             PROVE  /\ Pinned(h, s) /\ h.media[s] = g.media[s]
                    /\ \A x \in Address : x.seg = s => P[x] \in {O[x], Nobody, Leaked}
  BY DEF Spared
<1>1. PICK a \in g.leaked : a.seg = s
  BY DEF Pinned
<1>2. BlocksIn(K, s) # {}
  BY <1>1, AddressParts DEF BlocksIn
<1> QED
  BY <1>1, <1>2 DEF Untouched, Pinned

\* The old block is freed.
LEMMA OldBlockFreed ==
    ASSUME NEW g, NEW M, NEW A, NEW D, NEW O, View(g, M, A, D, O),
           NEW i \in Numbers, NEW b \in BlockNumbers
    PROVE  LET h == Log_Free(g, A[i][b])
               L == InUse(O) \ {A[i][b]}
           IN  Ledger(h, L) /\ SameFile(g, h) /\ Keeps(g, h, L) /\ h.tail.seg = g.tail.seg
<1>0. Log_Free(g, A[i][b]).tail.seg = g.tail.seg
  BY DEF Log_Free, View, Ledger, FsTyped, StateFields
<1>1. Ledger(g, InUse(O)) /\ (A[i][b] # NoAddress => A[i][b] \in InUse(O))
  <2>1. Tree(M, A, O, g.leaked) /\ Ledger(g, InUse(O))
    BY DEF View
  <2> QED
    BY <2>1, TreeFacts
<1>2. CASE A[i][b] = NoAddress
  <2>1. InUse(O) \ {A[i][b]} = InUse(O)
    BY <1>2, SentinelAssumption DEF InUse
  <2>2. Log_Free(g, A[i][b]) = g
    BY <1>2 DEF Log_Free
  <2> QED
    BY <1>1, <2>1, <2>2 DEF SameFile, Keeps, Unwritten
<1>3. CASE A[i][b] # NoAddress
  BY <1>0, <1>1, <1>3, LedgerFreed
<1> QED
  BY <1>2, <1>3

\* The address of block b of file i was refused, or was set to a, where data is.
AddressDone(g, M, A, D, O, i, b, data, a, X, K, u) ==
    \/ Refused(u.fs)
    \/ /\ u.ret = 0 /\ SameState(g, u.fs) /\ SameButBlocks(M[i], u.inode)
       /\ g.leaked \cup X \subseteq u.fs.leaked
       /\ \E P : /\ View(u.fs, [M EXCEPT ![i] = u.inode], [A EXCEPT ![i][b] = a],
                          [D EXCEPT ![i][b] = data], P)
                 /\ Untouched(g, O, K, u.fs, P)

\* The block was written to the tail, and the old one freed or leaked.
LEMMA BlockPlaced ==
    ASSUME NEW g, NEW M, NEW A, NEW D, NEW O, View(g, M, A, D, O),
           NEW i \in Numbers, NEW b \in BlockNumbers,
           NEW data \in FileBlock, NEW h, NEW a \in Address, a.seg = g.tail.seg,
           NEW X, Left(g, h, X, A[i][b], NoAddress),
           NEW K, K = (InUse(O) \ {A[i][b]}) \cup X, a \notin K,
           Ledger(h, K \cup {a}), Keeps(g, h, K), SameState(g, h),
           SlotAt(h, a) = [inum |-> i, fb |-> b, data |-> data]
    PROVE  AddressDone(g, M, A, D, O, i, b, data, a, X, K,
                       UpdateINodeBlock(h, M[i], b, a))
<1> DEFINE L == InUse(O) \ {A[i][b]}
           u == UpdateINodeBlock(h, M[i], b, a)
<1> SUFFICES
      \/ Refused(u.fs)
      \/ /\ u.ret = 0 /\ SameState(g, u.fs) /\ SameButBlocks(M[i], u.inode)
         /\ g.leaked \cup X \subseteq u.fs.leaked
         /\ \E P : /\ View(u.fs, [M EXCEPT ![i] = u.inode], [A EXCEPT ![i][b] = a],
                            [D EXCEPT ![i][b] = data], P)
                   /\ Untouched(g, O, K, u.fs, P)
  BY DEF AddressDone
<1>0. /\ M[i] \in INode /\ M[i].inum = i /\ M \in [Numbers -> INode]
      /\ Ledger(g, InUse(O)) /\ FsTyped(g)
  BY DEF View, Tree, Ledger
<1>1. /\ L \subseteq K /\ K \subseteq InUse(O) /\ K \subseteq Address
      /\ g.leaked \subseteq L
      /\ M[i].indirect # NoAddress => M[i].indirect \in L
  BY OthersInUse DEF InUse, Left
<1>2. Keeps(g, h, L) /\ Unwritten(g, h, L)
  BY <1>1 DEF Keeps, Unwritten, BlocksIn
<1>3. View(g, M, A, D, O) /\ i \in Numbers /\ b \in BlockNumbers
  OBVIOUS
<1>4. /\ L = InUse(O) \ {A[i][b]} /\ K = L \cup X
  OBVIOUS
<1> HIDE DEF L
<1>5. CASE b < NDirect
  <2> DEFINE n == [M[i] EXCEPT !.direct[b] = a]
  <2>1. u = [fs |-> h, inode |-> n, ret |-> 0]
    BY <1>5 DEF UpdateINodeBlock
  <2>2. \E P : /\ View(h, [M EXCEPT ![i].direct[b] = a], [A EXCEPT ![i][b] = a],
                       [D EXCEPT ![i][b] = data], P)
               /\ Handed(O, P, {a})
    <3>1. /\ a \notin (InUse(O) \ {A[i][b]}) \cup X
          /\ Ledger(h, (InUse(O) \ {A[i][b]}) \cup X \cup {a})
          /\ Keeps(g, h, InUse(O) \ {A[i][b]})
      BY <1>2, <1>4
    <3>2. /\ a \in Address /\ data \in FileBlock
          /\ Left(g, h, X, A[i][b], NoAddress)
          /\ SlotAt(h, a) = [inum |-> i, fb |-> b, data |-> data]
      OBVIOUS
    <3> HIDE DEF n, u
    <3> QED
      BY ONLY <1>3, <1>5, <3>1, <3>2, ViewDirectBlock
  <2>3. \A P : Handed(O, P, {a}) => Untouched(g, O, K, h, P)
    <3>1. \A x \in {a}, s \in DataSegments :
             s # g.tail.seg /\ BlocksIn(K, s) # {} => x.seg # s
      OBVIOUS
    <3>2. Unwritten(g, h, K)
      BY DEF Keeps
    <3> QED
      BY <3>1, <3>2, WriteUntouched
  <2>4. [M EXCEPT ![i].direct[b] = a] = [M EXCEPT ![i] = n]
    OBVIOUS
  <2>5. SameButBlocks(M[i], n)
    BY <1>0 DEF SameButBlocks, INode
  <2>6. g.leaked \cup X \subseteq h.leaked
    BY DEF Left
  <2> HIDE DEF n, u
  <2> QED
    BY <2>1, <2>2, <2>3, <2>4, <2>5, <2>6
<1>6. CASE ~ (b < NDirect)
  <2> DEFINE stored == [c \in 0 .. NIndirect - 1 |-> A[i][NDirect + c]]
             num == IF M[i].indirect = NoAddress THEN INDIRECT_BLOCK ELSE M[i].indirect.blk
             next == [stored EXCEPT ![b - NDirect] = a]
             v == Log_Write(h, i, num, next)
             f == Leak(v.fs, {M[i].indirect})
  <2>1. ReadIndirectBlocks(h, M[i]) = stored /\ stored # Dead
    <3>1. ReadIndirectBlocks(g, M[i]) = stored /\ stored # Dead
      BY ViewReadsIndirect, SentinelAssumption
    <3>2. M[i].indirect # NoAddress => SlotAt(h, M[i].indirect) = SlotAt(g, M[i].indirect)
      BY <1>1, <1>2 DEF Keeps
    <3>3. /\ \A x : Understood(g, x, IndirectBlock) = x
          /\ \A x : Understood(h, x, IndirectBlock) = x
      BY <1>0, LedgerUncached
    <3> QED
      BY <3>1, <3>2, <3>3 DEF ReadIndirectBlocks, Log_Read, SlotAt
  <2>2. next \in IndirectBlock
    <3>1. stored \in IndirectBlock
      <4>1. A[i] \in [BlockNumbers -> MaybeAddress]
        BY DEF View, Tree
      <4> QED
        BY <4>1, BlockNumberFacts DEF IndirectBlock
    <3>2. a \in MaybeAddress
      BY DEF MaybeAddress
    <3> HIDE DEF stored
    <3> QED
      BY <3>1, <3>2 DEF IndirectBlock
  <2> HIDE DEF stored, next
  <2>3. [inum |-> i, fb |-> num, data |-> next] # NO_INUM /\ num \in Labels
    <3>1. num \in Int /\ num \in Labels
      BY <1>0 DEF INDIRECT_BLOCK, INode, MaybeAddress, Address, Labels
    <3>2. [inum |-> i, fb |-> num, data |-> next] \in SummarySlot
      BY <2>2, <3>1 DEF SummarySlot, Numbers
    <3> QED
      BY <3>1, <3>2, SentinelAssumption
  <2> HIDE DEF num
  <2>4. u = IndirectWritten(v, M[i])
    BY <1>0, <1>6, <2>1 DEF UpdateINodeBlock, WriteIndirectBlocks, next, num
  <2> HIDE DEF v, u
  <2>5. FsTyped(h) /\ Follows(h, v.fs) /\ Follows(v.fs, f) /\ u.fs = f /\ u.ret = v.ret
    BY <2>4, Log_WriteFollows, LeakFollows DEF Ledger, v, IndirectWritten, Follows
  <2>6. \/ Refused(v.fs)
        \/ /\ v.ret = 0
           /\ v.addr \in Address \ (K \cup {a}) /\ v.addr.seg = h.tail.seg
           /\ Ledger(v.fs, K \cup {a} \cup {v.addr})
           /\ SameFile(h, v.fs) /\ Keeps(h, v.fs, K \cup {a})
           /\ SlotAt(v.fs, v.addr) = [inum |-> i, fb |-> num, data |-> next]
    BY <2>3, LedgerWritten DEF v
  <2>7. CASE Refused(v.fs)
    BY <2>5, <2>7, RefusedStays
  <2>8. CASE /\ v.ret = 0
             /\ v.addr \in Address \ (K \cup {a}) /\ v.addr.seg = h.tail.seg
             /\ Ledger(v.fs, K \cup {a} \cup {v.addr})
             /\ SameFile(h, v.fs) /\ Keeps(h, v.fs, K \cup {a})
             /\ SlotAt(v.fs, v.addr) = [inum |-> i, fb |-> num, data |-> next]
    <3> DEFINE n == [M[i] EXCEPT !.indirect = v.addr]
    <3>1. u.fs = f /\ u.inode = n /\ u.ret = 0
      BY <2>4, <2>5, <2>8, SentinelAssumption DEF IndirectWritten
    <3>2. /\ f.media = v.fs.media /\ f.tail = v.fs.tail /\ f.live = v.fs.live
          /\ f.full = v.fs.full
          /\ f.leaked = v.fs.leaked \cup ({M[i].indirect} \ {NoAddress})
          /\ f.root = v.fs.root /\ f.iFileSize = v.fs.iFileSize
          /\ f.lapses = v.fs.lapses
      BY <2>5 DEF Leak, Follows, FsTyped, StateFields
    <3> HIDE DEF f
    <3>3. \A x : SlotAt(f, x) = SlotAt(v.fs, x)
      BY <3>2 DEF SlotAt, Slots
    <3>4. Ledger(f, K \cup {a} \cup {v.addr})
      <4>1. Ledger(v.fs, K \cup {a} \cup {v.addr}) /\ FsTyped(f)
        BY <2>5, <2>8 DEF Follows
      <4> QED
        BY ONLY <3>2, <4>1 DEF Ledger
    <3>5. /\ SlotAt(f, a) = [inum |-> i, fb |-> b, data |-> data]
          /\ SlotAt(f, v.addr) = [inum |-> i, fb |-> num, data |-> next]
          /\ Keeps(g, f, K) /\ Keeps(g, f, L)
      <4>1. Keeps(h, f, K \cup {a})
        BY <2>8, <3>2, <3>3 DEF Keeps, Unwritten
      <4>2. Keeps(g, f, K)
        BY <4>1, KeepsFollows
      <4>3. Keeps(g, f, L)
        BY <1>1, <4>2 DEF Keeps, Unwritten, BlocksIn
      <4> QED
        BY <2>8, <3>3, <4>1, <4>2, <4>3 DEF Keeps
    <3>6. /\ SameState(g, f) /\ Left(g, f, X, A[i][b], M[i].indirect)
          /\ g.leaked \cup X \subseteq f.leaked
      BY <2>8, <3>2 DEF SameFile, SameState, Left
    <3>7. \E P : /\ View(f, [M EXCEPT ![i].indirect = v.addr], [A EXCEPT ![i][b] = a],
                         [D EXCEPT ![i][b] = data], P)
                 /\ Handed(O, P, {a, v.addr})
      <4>1. /\ a \in Address /\ v.addr \in Address /\ data \in FileBlock
            /\ a \notin (InUse(O) \ {A[i][b]}) \cup X
            /\ v.addr \notin (InUse(O) \ {A[i][b]}) \cup X \cup {a}
            /\ Ledger(f, (InUse(O) \ {A[i][b]}) \cup X \cup {a} \cup {v.addr})
            /\ Keeps(g, f, InUse(O) \ {A[i][b]})
        BY <1>4, <2>8, <3>4, <3>5
      <4>2. b >= NDirect
        BY <1>6, BlockNumberFacts, GeometryFacts
      <4>3. next = [[c \in 0 .. NIndirect - 1 |-> A[i][NDirect + c]]
                      EXCEPT ![b - NDirect] = a]
        BY DEF next, stored
      <4> HIDE DEF n, v, num, next
      <4> QED
        BY ONLY <1>3, <3>5, <3>6, <4>1, <4>2, <4>3, ViewIndirectBlock
    <3>8. \A P : Handed(O, P, {a, v.addr}) => Untouched(g, O, K, f, P)
      <4>1. \A s \in DataSegments : s # g.tail.seg /\ BlocksIn(K, s) # {} => s # h.tail.seg
        BY DEF Keeps, Unwritten
      <4>2. \A x \in {a, v.addr}, s \in DataSegments :
               s # g.tail.seg /\ BlocksIn(K, s) # {} => x.seg # s
        BY <2>8, <4>1
      <4>3. Unwritten(g, f, K)
        BY <3>5 DEF Keeps
      <4> QED
        BY <4>2, <4>3, WriteUntouched
    <3>9. [M EXCEPT ![i].indirect = v.addr] = [M EXCEPT ![i] = n]
      OBVIOUS
    <3>10. SameButBlocks(M[i], n)
      BY <1>0 DEF SameButBlocks, INode
    <3> HIDE DEF n
    <3> QED
      BY <3>1, <3>6, <3>7, <3>8, <3>9, <3>10
  <2> QED
    BY <2>6, <2>7, <2>8
<1> QED
  BY <1>5, <1>6

\* A turn of File_Write's loop was refused, or put a block with the new data
\* in the place of block b of file i.
TurnDone(g, M, A, D, O, i, b, data, r) ==
    \/ Refused(r.fs)
    \/ /\ r.ret = 0 /\ SameState(g, r.fs) /\ SameButBlocks(M[i], r.inode)
       /\ \E a \in Address : \E P :
             /\ View(r.fs, [M EXCEPT ![i] = r.inode], [A EXCEPT ![i][b] = a],
                     [D EXCEPT ![i][b] = data], P)
             /\ Spared(g, O, r.fs, P)

LEMMA BlockReplaced ==
    ASSUME NEW g, NEW M, NEW A, NEW D, NEW O, View(g, M, A, D, O),
           NEW i \in Numbers, NEW b \in BlockNumbers, NEW offset, NEW buffer,
           Merged(D[i][b], b, offset, buffer) \in FileBlock,
           NEW acc, acc.fs = g, acc.inode = M[i], acc.ret = 0
    PROVE  TurnDone(g, M, A, D, O, i, b, Merged(D[i][b], b, offset, buffer),
                    WriteFileBlock(acc, b, offset, buffer))
<1> DEFINE r    == WriteFileBlock(acc, b, offset, buffer)
           new  == Merged(D[i][b], b, offset, buffer)
           L    == InUse(O) \ {A[i][b]}
           g1   == Log_Free(g, A[i][b])
           w    == Log_Write(g1, i, b, new)
           u    == UpdateINodeBlock(w.fs, M[i], b, w.addr)
           slot == [inum |-> i, fb |-> b, data |-> new]
<1> SUFFICES
      \/ Refused(r.fs)
      \/ /\ r.ret = 0 /\ SameState(g, r.fs) /\ SameButBlocks(M[i], r.inode)
         /\ \E a \in Address : \E P :
               /\ View(r.fs, [M EXCEPT ![i] = r.inode], [A EXCEPT ![i][b] = a],
                       [D EXCEPT ![i][b] = new], P)
               /\ Spared(g, O, r.fs, P)
  BY DEF TurnDone
<1>0. /\ M[i] \in INode /\ M[i].inum = i /\ M \in [Numbers -> INode]
      /\ Ledger(g, InUse(O)) /\ FsTyped(g)
  BY DEF View, Tree, Ledger
<1>1. r = BlockWritten(w, M[i], b)
  <2>1. /\ GetBlockAddress(g, M[i], b) = A[i][b] /\ ReadBlock(g, M[i], b) = D[i][b]
        /\ D[i][b] # Dead
    BY ViewReadsBlock
  <2> QED
    BY <1>0, <2>1 DEF WriteFileBlock, ReplaceBlock
<1>2. Ledger(g1, L) /\ SameFile(g, g1) /\ Keeps(g, g1, L) /\ g1.tail.seg = g.tail.seg
  BY OldBlockFreed
<1>7. L \subseteq Address /\ g.leaked \subseteq L
  BY OthersInUse DEF InUse
<1>3. slot # NO_INUM
  <2>1. slot \in SummarySlot
    BY BlockNumberFacts DEF SummarySlot, Numbers
  <2> QED
    BY <2>1, SentinelAssumption
<1> HIDE DEF g1, w, new, slot, L
<1>4. \/ Refused(w.fs)
      \/ /\ w.ret = 0
         /\ w.addr \in Address \ L /\ w.addr.seg = g1.tail.seg
         /\ Ledger(w.fs, L \cup {w.addr})
         /\ SameFile(g1, w.fs) /\ Keeps(g1, w.fs, L)
         /\ SlotAt(w.fs, w.addr) = slot
  <2>2. b \in Labels
    BY DEF Labels
  <2>1. \/ Refused(Log_Write(g1, i, b, new).fs)
        \/ LET v == Log_Write(g1, i, b, new)
           IN  /\ v.ret = 0
               /\ v.addr \in Address \ L /\ v.addr.seg = g1.tail.seg
               /\ Ledger(v.fs, L \cup {v.addr})
               /\ SameFile(g1, v.fs) /\ Keeps(g1, v.fs, L)
               /\ SlotAt(v.fs, v.addr) = [inum |-> i, fb |-> b, data |-> new]
    BY <1>2, <1>3, <2>2, LedgerWritten DEF slot
  <2> QED
    BY <2>1 DEF w, slot
<1>5. CASE Refused(w.fs)
  <2>1. AccFollows(w.fs, u) /\ FsTyped(u.fs)
    <3>1. FsTyped(w.fs)
      BY <1>2, Log_WriteFollows DEF Ledger, Follows, w
    <3> QED
      BY <3>1, UpdateINodeBlockFollows DEF AccFollows, Follows
  <2> HIDE DEF u, r
  <2>2. r.fs \in {w.fs, u.fs, Lapse(u.fs, "indirect")}
    BY <1>1 DEF BlockWritten, Unchecked, u
  <2>3. Refused(u.fs) /\ Refused(Lapse(u.fs, "indirect"))
    BY <1>5, <2>1, LapseFollows, RefusedStays DEF AccFollows
  <2> QED
    BY <1>5, <2>2, <2>3
<1>6. CASE /\ w.ret = 0
           /\ w.addr \in Address \ L /\ w.addr.seg = g1.tail.seg
           /\ Ledger(w.fs, L \cup {w.addr})
           /\ SameFile(g1, w.fs) /\ Keeps(g1, w.fs, L)
           /\ SlotAt(w.fs, w.addr) = slot
  <2> DEFINE a == w.addr
             X == {}
  <2>1. SameFile(g, w.fs) /\ Keeps(g, w.fs, L)
    BY <1>2, <1>6, KeepsFollows DEF SameFile
  <2>2. r = Unchecked(u)
    BY <1>1, <1>6 DEF BlockWritten
  <2>3. AddressDone(g, M, A, D, O, i, b, new, a, X, L, u)
    <3>1. L = (InUse(O) \ {A[i][b]}) \cup X /\ Left(g, w.fs, X, A[i][b], NoAddress)
      BY <2>1 DEF L, Left, SameFile
    <3> HIDE DEF X
    <3>2. /\ a \in Address /\ a.seg = g.tail.seg /\ a \notin L /\ new \in FileBlock
          /\ Ledger(w.fs, L \cup {a}) /\ Keeps(g, w.fs, L) /\ SameState(g, w.fs)
          /\ SlotAt(w.fs, a) = [inum |-> i, fb |-> b, data |-> new]
      BY <1>2, <1>6, <2>1 DEF SameFile, SameState, new, slot
    <3>3. View(g, M, A, D, O) /\ i \in Numbers /\ b \in BlockNumbers
      OBVIOUS
    <3>4. u = UpdateINodeBlock(w.fs, M[i], b, a)
      OBVIOUS
    <3> HIDE DEF a, u, r
    <3> QED
      BY ONLY <3>1, <3>2, <3>3, <3>4, BlockPlaced
  <2>4. AccFollows(w.fs, u)
    BY <1>6, UpdateINodeBlockFollows DEF Ledger
  <2> HIDE DEF u, r
  <2>5. CASE Refused(u.fs)
    <3>1. r.fs \in {u.fs, Lapse(u.fs, "indirect")}
      BY <2>2 DEF Unchecked
    <3>2. Follows(u.fs, Lapse(u.fs, "indirect"))
      BY <2>4, LapseFollows DEF AccFollows, Follows
    <3> QED
      BY <2>5, <3>1, <3>2, RefusedStays
  <2>6. CASE ~ Refused(u.fs)
    <3>1. /\ u.ret = 0 /\ SameState(g, u.fs) /\ SameButBlocks(M[i], u.inode)
          /\ g.leaked \subseteq u.fs.leaked
          /\ \E P : /\ View(u.fs, [M EXCEPT ![i] = u.inode], [A EXCEPT ![i][b] = a],
                             [D EXCEPT ![i][b] = new], P)
                    /\ Untouched(g, O, L, u.fs, P)
      BY <2>3, <2>6 DEF AddressDone
    <3>2. r.fs = u.fs /\ r.inode = u.inode /\ r.ret = 0
      BY <2>2, <3>1 DEF Unchecked
    <3>3. ASSUME NEW P, View(u.fs, [M EXCEPT ![i] = u.inode], [A EXCEPT ![i][b] = a],
                             [D EXCEPT ![i][b] = new], P),
                 Untouched(g, O, L, u.fs, P)
          PROVE  Spared(g, O, u.fs, P)
      <4>1. g.leaked \subseteq u.fs.leaked
        BY <3>1
      <4> QED
        BY <1>7, <3>3, <4>1, UntouchedSpares
    <3>4. a \in Address
      BY <1>6
    <3> HIDE DEF a
    <3> QED
      BY <3>1, <3>2, <3>3, <3>4
  <2> QED
    BY <2>5, <2>6
<1> QED
  BY <1>4, <1>5, <1>6

----------------------------------------------------------------------------
(* Units and blocks. *)

LEMMA DivMod ==
    ASSUME NEW u \in Nat
    PROVE  /\ u \div BlockSize \in Nat /\ u % BlockSize \in 0 .. BlockSize - 1
           /\ u = (u \div BlockSize) * BlockSize + (u % BlockSize)
<1>1. BlockSize \in Nat /\ BlockSize > 0
  BY GeometryFacts
<1> QED
  BY <1>1

LEMMA TimesMonotone ==
    ASSUME NEW x \in Nat, NEW y \in Nat, NEW z \in Nat, x <= y
    PROVE  x * z <= y * z
OBVIOUS

LEMMA DivMonotone ==
    ASSUME NEW u \in Nat, NEW v \in Nat, u <= v
    PROVE  u \div BlockSize <= v \div BlockSize
<1> DEFINE p == u \div BlockSize
           q == v \div BlockSize
<1>1. /\ p \in Nat /\ q \in Nat
      /\ p * BlockSize <= u /\ u < p * BlockSize + BlockSize
      /\ q * BlockSize <= v /\ v < q * BlockSize + BlockSize
      /\ BlockSize \in Nat
  BY DivMod, GeometryFacts
<1> HIDE DEF p, q
<1>2. ASSUME q + 1 <= p PROVE FALSE
  <2>1. (q + 1) * BlockSize <= p * BlockSize
    BY <1>1, <1>2, TimesMonotone
  <2>2. (q + 1) * BlockSize = q * BlockSize + BlockSize
    BY <1>1
  <2> QED
    BY <1>1, <2>1, <2>2
<1> QED
  BY <1>1, <1>2 DEF p, q

LEMMA DivOfBlock ==
    ASSUME NEW b \in Nat, NEW u \in 0 .. BlockSize - 1
    PROVE  /\ b * BlockSize + u \in Nat
           /\ (b * BlockSize + u) \div BlockSize = b
           /\ (b * BlockSize + u) % BlockSize = u
<1> DEFINE v == b * BlockSize + u
           q == v \div BlockSize
           r == v % BlockSize
<1>1. BlockSize \in Nat \ {0} /\ b * BlockSize \in Nat /\ v \in Nat
  BY GeometryFacts
<1>2. q \in Nat /\ r \in 0 .. BlockSize - 1 /\ v = q * BlockSize + r
  BY <1>1, DivMod
<1> HIDE DEF q, r
<1>3. ASSUME q + 1 <= b PROVE FALSE
  <2>1. (q + 1) * BlockSize <= b * BlockSize
    BY <1>1, <1>2, <1>3, TimesMonotone
  <2>2. (q + 1) * BlockSize = q * BlockSize + BlockSize
    BY <1>1, <1>2
  <2> QED
    BY <1>1, <1>2, <2>1, <2>2
<1>4. ASSUME b + 1 <= q PROVE FALSE
  <2>1. (b + 1) * BlockSize <= q * BlockSize
    BY <1>1, <1>2, <1>4, TimesMonotone
  <2>2. (b + 1) * BlockSize = b * BlockSize + BlockSize
    BY <1>1, <1>2
  <2> QED
    BY <1>1, <1>2, <2>1, <2>2
<1>5. q = b
  BY <1>1, <1>2, <1>3, <1>4
<1>6. r = u
  BY <1>1, <1>2, <1>5
<1> QED
  BY <1>1, <1>5, <1>6 DEF q, r

LEMMA BlockOfUnit ==
    ASSUME NEW u \in Nat, u < MaxUnits
    PROVE  u \div BlockSize \in BlockNumbers
<1> DEFINE q == u \div BlockSize
<1>1. q \in Nat /\ q * BlockSize <= u /\ BlockSize \in Nat /\ maxFileBlocks \in Nat
  BY DivMod, GeometryFacts
<1> HIDE DEF q
<1>2. ASSUME maxFileBlocks <= q PROVE FALSE
  <2>1. maxFileBlocks * BlockSize <= q * BlockSize
    BY <1>1, <1>2, TimesMonotone
  <2>2. maxFileBlocks * BlockSize \in Nat /\ q * BlockSize \in Nat
    BY <1>1
  <2> QED
    BY <1>1, <2>1, <2>2 DEF MaxUnits
<1> QED
  BY <1>1, <1>2 DEF BlockNumbers, q
----------------------------------------------------------------------------
(* File_Write's loop. *)

Stored == Unit \cup INode

LEMMA MergedTyped ==
    ASSUME NEW data \in FileBlock, NEW b, NEW offset, NEW buffer,
           \A k \in DOMAIN buffer : buffer[k] \in Stored
    PROVE  Merged(data, b, offset, buffer) \in FileBlock
BY DEF Merged, FileBlock, Stored

\* The blocks of S of file i are written over.
Rewritten(D, i, S, offset, buffer) ==
    [D EXCEPT ![i] = [c \in BlockNumbers |->
       IF c \in S THEN Merged(D[i][c], c, offset, buffer) ELSE D[i][c]]]

\* The blocks of S of file i have addresses, and the others the ones they had.
Placed(A, B, i, S) ==
    \A j \in Numbers, c \in BlockNumbers :
       /\ j # i \/ c \notin S => B[j][c] = A[j][c]
       /\ j = i /\ c \in S => B[j][c] # NoAddress

\* The turns of the loop for the blocks of S were refused, or wrote them.
LoopDone(g, M, A, D, O, i, S, offset, buffer, r) ==
    \/ Refused(r.fs)
    \/ /\ r.ret = 0 /\ SameState(g, r.fs) /\ SameButBlocks(M[i], r.inode)
       /\ \E B, P : /\ View(r.fs, [M EXCEPT ![i] = r.inode], B,
                            Rewritten(D, i, S, offset, buffer), P)
                    /\ Placed(A, B, i, S)
                    /\ Spared(g, O, r.fs, P)

LEMMA LoopTurn ==
    ASSUME NEW g, NEW M, NEW A, NEW D, NEW O, View(g, M, A, D, O),
           NEW i \in Numbers, NEW S, NEW b \in BlockNumbers, b \notin S,
           NEW offset, NEW buffer,
           \A k \in DOMAIN buffer : buffer[k] \in Stored,
           NEW acc, AccFollows(acc.fs, acc),
           LoopDone(g, M, A, D, O, i, S, offset, buffer, acc)
    PROVE  LoopDone(g, M, A, D, O, i, S \cup {b}, offset, buffer,
                    WriteFileBlock(acc, b, offset, buffer))
<1> DEFINE r == WriteFileBlock(acc, b, offset, buffer)
           T == S \cup {b}
<1>1. CASE Refused(acc.fs)
  <2>1. Follows(acc.fs, r.fs)
    BY WriteFileBlockFollows DEF AccFollows
  <2>2. Refused(r.fs)
    BY <1>1, <2>1, RefusedStays
  <2> QED
    BY <2>2 DEF LoopDone
<1>2. CASE ~ Refused(acc.fs)
  <2> DEFINE N == [M EXCEPT ![i] = acc.inode]
             E == Rewritten(D, i, S, offset, buffer)
  <2>1. acc.ret = 0 /\ SameState(g, acc.fs) /\ SameButBlocks(M[i], acc.inode)
    BY <1>2 DEF LoopDone
  <2>2. PICK B, Q : View(acc.fs, N, B, E, Q) /\ Placed(A, B, i, S) /\ Spared(g, O, acc.fs, Q)
    BY <1>2 DEF LoopDone
  <2>3. /\ M \in [Numbers -> INode] /\ D \in [Numbers -> [BlockNumbers -> FileBlock]]
    BY DEF View, Tree, Held
  <2>4. N[i] = acc.inode /\ E[i][b] = D[i][b] /\ D[i][b] \in FileBlock
    BY <2>3 DEF Rewritten
  <2> DEFINE new == Merged(E[i][b], b, offset, buffer)
  <2>5. new \in FileBlock
    BY <2>4, MergedTyped
  <2> HIDE DEF N, E, r, new
  <2>9. TurnDone(acc.fs, N, B, E, Q, i, b, new, r)
    BY <2>1, <2>2, <2>4, <2>5, BlockReplaced DEF r, new
  <2>6. \/ Refused(r.fs)
        \/ /\ r.ret = 0 /\ SameState(acc.fs, r.fs) /\ SameButBlocks(N[i], r.inode)
           /\ \E a \in Address : \E P :
                 /\ View(r.fs, [N EXCEPT ![i] = r.inode], [B EXCEPT ![i][b] = a],
                         [E EXCEPT ![i][b] = new], P)
                 /\ Spared(acc.fs, Q, r.fs, P)
    BY <2>9 DEF TurnDone
  <2>7. CASE Refused(r.fs)
    BY <2>7 DEF LoopDone, r
  <2>8. ASSUME r.ret = 0, SameState(acc.fs, r.fs), SameButBlocks(N[i], r.inode),
               NEW a \in Address, NEW P,
               View(r.fs, [N EXCEPT ![i] = r.inode], [B EXCEPT ![i][b] = a],
                    [E EXCEPT ![i][b] = new], P),
               Spared(acc.fs, Q, r.fs, P)
        PROVE  LoopDone(g, M, A, D, O, i, T, offset, buffer, r)
    <3> DEFINE C == [B EXCEPT ![i][b] = a]
    <3>1. [N EXCEPT ![i] = r.inode] = [M EXCEPT ![i] = r.inode]
      BY <2>3 DEF N
    <3>2. [E EXCEPT ![i][b] = new] = Rewritten(D, i, T, offset, buffer)
      <4> DEFINE R == Rewritten(D, i, T, offset, buffer)
      <4>1. /\ E \in [Numbers -> [BlockNumbers -> FileBlock]]
            /\ \A j \in Numbers : j # i => E[j] = D[j]
            /\ \A c \in BlockNumbers :
                  E[i][c] = IF c \in S THEN Merged(D[i][c], c, offset, buffer) ELSE D[i][c]
        <5>1. E \in [Numbers -> [BlockNumbers -> FileBlock]]
          BY <2>2 DEF View, Held
        <5> QED
          BY <5>1, <2>3 DEF E, Rewritten
      <4>2. [E EXCEPT ![i][b] = new] = [E EXCEPT ![i] = [E[i] EXCEPT ![b] = new]]
        OBVIOUS
      <4>3. [E[i] EXCEPT ![b] = new] = R[i]
        <5>1. R[i] = [c \in BlockNumbers |->
                        IF c \in T THEN Merged(D[i][c], c, offset, buffer) ELSE D[i][c]]
          BY <2>3 DEF Rewritten
        <5>2. \A c \in BlockNumbers : c # b => (c \in T <=> c \in S)
          OBVIOUS
        <5>3. E[i] \in [BlockNumbers -> FileBlock]
          BY <4>1
        <5>4. new = Merged(D[i][b], b, offset, buffer) /\ b \in T
          BY <2>4 DEF new
        <5> HIDE DEF R, T
        <5> QED
          BY <4>1, <5>1, <5>2, <5>3, <5>4
      <4>4. /\ DOMAIN R = Numbers /\ R = [j \in Numbers |-> R[j]]
            /\ \A j \in Numbers : j # i => R[j] = D[j]
        BY <2>3 DEF Rewritten
      <4> HIDE DEF R
      <4>5. ASSUME NEW j \in Numbers PROVE [E EXCEPT ![i] = R[i]][j] = R[j]
        BY <4>1, <4>4
      <4>6. [E EXCEPT ![i] = R[i]] = [j \in Numbers |-> [E EXCEPT ![i] = R[i]][j]]
        BY <4>1
      <4>7. [E EXCEPT ![i] = R[i]] = R
        BY <4>4, <4>5, <4>6
      <4> QED
        BY <4>2, <4>3, <4>7 DEF R
    <3>3. Placed(A, C, i, T)
      <4>1. B \in [Numbers -> [BlockNumbers -> MaybeAddress]]
        BY <2>2 DEF View, Tree
      <4>2. /\ C[i][b] = a /\ a # NoAddress
            /\ \A j \in Numbers, c \in BlockNumbers : j # i \/ c # b => C[j][c] = B[j][c]
        BY <4>1, SentinelAssumption
      <4> HIDE DEF C
      <4> QED
        BY <2>2, <4>2 DEF Placed
    <3>4. SameState(g, r.fs) /\ SameButBlocks(M[i], r.inode)
      BY <2>1, <2>4, <2>8 DEF SameState, SameButBlocks
    <3>5. Spared(g, O, r.fs, P)
      BY <2>2, <2>8, SparedFollows
    <3> HIDE DEF C, T
    <3> QED
      BY <2>8, <3>1, <3>2, <3>3, <3>4, <3>5 DEF LoopDone, C
  <2> QED
    BY <2>6, <2>7, <2>8 DEF r
<1> QED
  BY <1>1, <1>2

\* The blocks of a write before turn k of its loop.
Until(first, last, k) == {c \in first .. last : c < first + k}

\* The turns of the loop, each of which was refused or left the blocks up to
\* its own written.
LEMMA LoopTurns ==
    ASSUME NEW g, NEW M, NEW A, NEW D, NEW O, View(g, M, A, D, O),
           NEW i \in Numbers, NEW first \in BlockNumbers, NEW last \in BlockNumbers,
           NEW offset, NEW buffer,
           \A k \in DOMAIN buffer : buffer[k] \in Stored
    PROVE  \E turn :
             /\ turn[0] = [fs |-> g, inode |-> M[i], ret |-> 0]
             /\ \A n \in 1 .. maxFileBlocks :
                   turn[n] = IF first + n - 1 > last THEN turn[n - 1]
                             ELSE WriteFileBlock(turn[n - 1], first + n - 1, offset, buffer)
             /\ WriteFileBlocks([fs |-> g, inode |-> M[i], ret |-> 0],
                                first, last, offset, buffer) = turn[maxFileBlocks]
             /\ \A k \in 0 .. maxFileBlocks :
                   /\ AccFollows(turn[k].fs, turn[k])
                   /\ LoopDone(g, M, A, D, O, i, Until(first, last, k), offset, buffer, turn[k])
<1> DEFINE start == [fs |-> g, inode |-> M[i], ret |-> 0]
           Turn(before, n) ==
             IF first + n - 1 > last THEN before
             ELSE WriteFileBlock(before, first + n - 1, offset, buffer)
<1>0. /\ first \in Nat /\ last \in Nat /\ last < maxFileBlocks /\ maxFileBlocks \in Nat
      /\ FsTyped(g)
  BY GeometryFacts DEF BlockNumbers, View, Ledger
<1>1. PICK turn :
         /\ turn[0] = start
         /\ \A n \in 1 .. maxFileBlocks : turn[n] = Turn(turn[n - 1], n)
         /\ WriteFileBlocks(start, first, last, offset, buffer) = turn[maxFileBlocks]
  BY WriteFileBlocksTurns
<1> DEFINE Done(k) == /\ AccFollows(turn[k].fs, turn[k])
                      /\ LoopDone(g, M, A, D, O, i, Until(first, last, k), offset, buffer, turn[k])
           Good == {k \in Nat : k <= maxFileBlocks => Done(k)}
<1>2. Done(0)
  <2>1. AccFollows(g, start)
    BY <1>0 DEF AccFollows, Follows
  <2>2. Until(first, last, 0) = {}
    BY <1>0 DEF Until
  <2>3. LoopDone(g, M, A, D, O, i, {}, offset, buffer, start)
    <3>1. /\ M \in [Numbers -> INode] /\ D \in [Numbers -> [BlockNumbers -> FileBlock]]
      BY DEF View, Tree, Held
    <3>2. [M EXCEPT ![i] = M[i]] = M
      BY <3>1
    <3>3. Rewritten(D, i, {}, offset, buffer) = D
      <4>1. D[i] = [c \in BlockNumbers |-> D[i][c]]
        BY <3>1
      <4>2. Rewritten(D, i, {}, offset, buffer) = [D EXCEPT ![i] = D[i]]
        BY <4>1 DEF Rewritten
      <4> QED
        BY <3>1, <4>2
    <3>4. Placed(A, A, i, {})
      BY DEF Placed
    <3>5. SameState(g, g) /\ SameButBlocks(M[i], M[i]) /\ Spared(g, O, g, O)
      BY DEF SameState, SameButBlocks, Spared
    <3> QED
      BY <3>2, <3>3, <3>4, <3>5 DEF LoopDone
  <2> HIDE DEF start
  <2> QED
    BY <1>1, <2>1, <2>2, <2>3 DEF start
<1>3. 0 \in Good
  BY <1>2
<1> HIDE DEF start
<1>4. ASSUME NEW k \in Nat, k + 1 <= maxFileBlocks, Done(k) PROVE Done(k + 1)
  <2>1. turn[k + 1] = Turn(turn[k], k + 1)
    BY <1>1, <1>4, <1>0
  <2>2. CASE first + k > last
    <3>1. turn[k + 1] = turn[k]
      BY <1>0, <2>1, <2>2
    <3>2. Until(first, last, k + 1) = Until(first, last, k)
      BY <1>0, <2>2 DEF Until
    <3> QED
      BY <1>4, <3>1, <3>2
  <2>3. CASE ~ (first + k > last)
    <3> DEFINE b == first + k
    <3>1. b \in BlockNumbers /\ b \notin Until(first, last, k) /\ Until(first, last, k + 1) = Until(first, last, k) \cup {b}
      BY <1>0, <2>3 DEF BlockNumbers, Until
    <3>2. turn[k + 1] = WriteFileBlock(turn[k], b, offset, buffer)
      BY <1>0, <2>1, <2>3
    <3> HIDE DEF b
    <3>3. AccFollows(turn[k].fs, turn[k + 1])
      BY <1>4, <3>2, WriteFileBlockFollows
    <3>4. AccFollows(turn[k + 1].fs, turn[k + 1])
      BY <3>3 DEF AccFollows, Follows
    <3>5. LoopDone(g, M, A, D, O, i, Until(first, last, k) \cup {b}, offset, buffer, turn[k + 1])
      BY <1>4, <3>1, <3>2, LoopTurn
    <3> QED
      BY <3>1, <3>4, <3>5
  <2> QED
    BY <2>2, <2>3
<1>5. ASSUME NEW k \in 0 .. maxFileBlocks PROVE Done(k)
  <2> HIDE DEF Done
  <2>1. \A n \in Nat : n \in Good => n + 1 \in Good
    BY <1>0, <1>4
  <2>2. k \in Good
    <3> HIDE DEF Good
    <3>1. k \in Nat
      BY <1>0
    <3> QED
      BY <1>3, <2>1, <3>1, InductionOnSets
  <2> QED
    BY <2>2, <1>0
<1> QED
  BY <1>1, <1>5 DEF start

LEMMA BlocksWritten ==
    ASSUME NEW g, NEW M, NEW A, NEW D, NEW O, View(g, M, A, D, O),
           NEW i \in Numbers, NEW first \in BlockNumbers, NEW last \in BlockNumbers,
           NEW offset, NEW buffer,
           \A k \in DOMAIN buffer : buffer[k] \in Stored
    PROVE  LoopDone(g, M, A, D, O, i, first .. last, offset, buffer,
              WriteFileBlocks([fs |-> g, inode |-> M[i], ret |-> 0],
                              first, last, offset, buffer))
<1> DEFINE w == WriteFileBlocks([fs |-> g, inode |-> M[i], ret |-> 0],
                                first, last, offset, buffer)
<1>1. Until(first, last, maxFileBlocks) = first .. last /\ maxFileBlocks \in 0 .. maxFileBlocks
  BY GeometryFacts DEF BlockNumbers, Until
<1>2. PICK turn :
         /\ w = turn[maxFileBlocks]
         /\ \A k \in 0 .. maxFileBlocks :
               LoopDone(g, M, A, D, O, i, Until(first, last, k), offset, buffer, turn[k])
  BY LoopTurns
<1> QED
  BY <1>1, <1>2

----------------------------------------------------------------------------
(* Units of a file. *)

\* A view is one of addresses: nothing else of an inode matters to it.
LEMMA ViewINode ==
    ASSUME NEW g, NEW M, NEW A, NEW D, NEW O, View(g, M, A, D, O), NEW i \in Numbers,
           NEW n \in INode, n.inum = i, n.direct = M[i].direct, n.indirect = M[i].indirect
    PROVE  View(g, [M EXCEPT ![i] = n], A, D, O)
<1> DEFINE N == [M EXCEPT ![i] = n]
<1>1. Ledger(g, InUse(O)) /\ Tree(M, A, O, g.leaked) /\ Held(g, M, A, D)
  BY DEF View
<1>2. /\ N \in [Numbers -> INode]
      /\ \A j \in Numbers : /\ N[j].inum = j /\ N[j].direct = M[j].direct
                            /\ N[j].indirect = M[j].indirect
  BY <1>1 DEF Tree
<1> HIDE DEF N
<1>3. Tree(N, A, O, g.leaked)
  <2>1. \A j \in Numbers, b \in BlockNumbers :
           /\ b < NDirect => A[j][b] = N[j].direct[b]
           /\ b >= NDirect /\ N[j].indirect = NoAddress => A[j][b] = NoAddress
           /\ A[j][b] # NoAddress => O[A[j][b]] = <<j, b>>
    BY <1>1, <1>2 DEF Tree
  <2>2. \A j \in Numbers :
           N[j].indirect # NoAddress => O[N[j].indirect] = <<j, INDIRECT_BLOCK>>
    <3>1. \A j \in Numbers :
             M[j].indirect # NoAddress => O[M[j].indirect] = <<j, INDIRECT_BLOCK>>
      BY <1>1, TreeFacts
    <3>2. \A j \in Numbers : N[j].indirect = M[j].indirect
      BY <1>2
    <3> QED
      BY <3>1, <3>2
  <2>3. \A a \in Address :
           \/ O[a] = Nobody
           \/ O[a] = Leaked /\ a \in g.leaked
           \/ \E j \in Numbers : N[j].indirect = a
           \/ \E j \in Numbers, b \in BlockNumbers : A[j][b] = a
    <3> SUFFICES ASSUME NEW a \in Address
                 PROVE  \/ O[a] = Nobody
                        \/ O[a] = Leaked /\ a \in g.leaked
                        \/ \E j \in Numbers : N[j].indirect = a
                        \/ \E j \in Numbers, b \in BlockNumbers : A[j][b] = a
      OBVIOUS
    <3>1. \/ O[a] = Nobody
          \/ O[a] = Leaked /\ a \in g.leaked
          \/ \E j \in Numbers : M[j].indirect = a
          \/ \E j \in Numbers, b \in BlockNumbers : A[j][b] = a
      BY <1>1 DEF Tree
    <3>2. \A j \in Numbers : N[j].indirect = M[j].indirect
      BY <1>2
    <3> QED
      BY <3>1, <3>2
  <2> QED
    BY <1>1, <1>2, <2>1, <2>2, <2>3 DEF Tree
<1>4. Held(g, N, A, D)
  <2>1. \A j \in Numbers :
           N[j].indirect # NoAddress =>
              /\ SlotAt(g, N[j].indirect).inum = j
              /\ SlotAt(g, N[j].indirect).data
                   = [c \in 0 .. NIndirect - 1 |-> A[j][NDirect + c]]
    <3> SUFFICES ASSUME NEW j \in Numbers, N[j].indirect # NoAddress
                 PROVE  /\ SlotAt(g, N[j].indirect).inum = j
                        /\ SlotAt(g, N[j].indirect).data
                             = [c \in 0 .. NIndirect - 1 |-> A[j][NDirect + c]]
      OBVIOUS
    <3>1. N[j].indirect = M[j].indirect
      BY <1>2
    <3> QED
      BY <1>1, <3>1 DEF Held
  <2> QED
    BY <1>1, <2>1 DEF Held
<1> QED
  BY <1>1, <1>3, <1>4 DEF View, N

\* Unit u of a file after buffer was written at offset.
UnitsWritten(D, E, i, offset, buffer) ==
    \A u \in 0 .. MaxUnits - 1 :
       UnitOf(E[i], u) = IF u - offset + 1 \in DOMAIN buffer
                         THEN buffer[u - offset + 1] ELSE UnitOf(D[i], u)

LEMMA MaxUnitsFacts ==
    /\ MaxUnits \in Nat
    /\ \A u \in 0 .. MaxUnits - 1 :
          /\ u \in Nat /\ u \div BlockSize \in BlockNumbers
          /\ u % BlockSize \in 0 .. BlockSize - 1
<1>1. MaxUnits \in Nat
  BY GeometryFacts DEF MaxUnits
<1>2. ASSUME NEW u \in 0 .. MaxUnits - 1
      PROVE  /\ u \in Nat /\ u \div BlockSize \in BlockNumbers
             /\ u % BlockSize \in 0 .. BlockSize - 1
  <2>1. u \in Nat /\ u < MaxUnits
    BY <1>1, <1>2
  <2> QED
    BY <2>1, BlockOfUnit, DivMod
<1> QED
  BY <1>1, <1>2

LEMMA RewrittenUnits ==
    ASSUME NEW D \in [Numbers -> [BlockNumbers -> FileBlock]], NEW i \in Numbers,
           NEW offset \in Nat, NEW buffer \in Seq(Stored), buffer # <<>>,
           offset + Len(buffer) <= MaxUnits
    PROVE  LET S == offset \div BlockSize .. (offset + Len(buffer) - 1) \div BlockSize
           IN  UnitsWritten(D, Rewritten(D, i, S, offset, buffer), i, offset, buffer)
<1> DEFINE end == offset + Len(buffer) - 1
           S == offset \div BlockSize .. end \div BlockSize
           E == Rewritten(D, i, S, offset, buffer)
<1>0. Len(buffer) \in Nat \ {0} /\ DOMAIN buffer = 1 .. Len(buffer) /\ end \in Nat
  OBVIOUS
<1> SUFFICES ASSUME NEW u \in 0 .. MaxUnits - 1
             PROVE  UnitOf(E[i], u) = IF u - offset + 1 \in DOMAIN buffer
                                      THEN buffer[u - offset + 1] ELSE UnitOf(D[i], u)
  BY DEF UnitsWritten
<1> DEFINE b == u \div BlockSize
           v == u % BlockSize
<1>1. b \in BlockNumbers /\ v \in 0 .. BlockSize - 1 /\ u \in Nat /\ b \in Nat
      /\ u = b * BlockSize + v
  BY MaxUnitsFacts, DivMod
<1>2. E[i][b] = IF b \in S THEN Merged(D[i][b], b, offset, buffer) ELSE D[i][b]
  BY <1>1 DEF Rewritten
<1>3. Merged(D[i][b], b, offset, buffer)[v]
        = IF u - offset + 1 \in DOMAIN buffer THEN buffer[u - offset + 1] ELSE D[i][b][v]
  <2> HIDE DEF b, v
  <2>1. Merged(D[i][b], b, offset, buffer)[v]
          = LET k == b * BlockSize + v - offset + 1
            IN  IF k \in DOMAIN buffer THEN buffer[k] ELSE D[i][b][v]
    BY <1>1 DEF Merged
  <2>2. b * BlockSize + v - offset + 1 = u - offset + 1
    <3>1. /\ b * BlockSize + v = u /\ b * BlockSize \in Nat
          /\ v \in Nat /\ offset \in Nat
      BY <1>1, GeometryFacts
    <3> DEFINE c == b * BlockSize
    <3> HIDE DEF c
    <3> QED
      BY <3>1
  <2> QED
    BY <2>1, <2>2
<1>4. ASSUME u - offset + 1 \in DOMAIN buffer PROVE b \in S
  <2>1. offset <= u /\ u <= end
    BY <1>0, <1>1, <1>4
  <2>2. offset \div BlockSize <= b /\ b <= end \div BlockSize
    BY <1>0, <1>1, <2>1, DivMonotone
  <2>3. offset \div BlockSize \in Nat /\ end \div BlockSize \in Nat
    BY <1>0, DivMod
  <2> QED
    BY <1>1, <2>2, <2>3
<1> HIDE DEF E, S
<1> QED
  BY <1>2, <1>3, <1>4 DEF UnitOf

\* File i is the only one whose blocks changed: buffer was written at offset,
\* and no block that was there is gone.
Changed(A, D, B, E, i, offset, buffer) ==
    /\ \A j \in Numbers : j # i => B[j] = A[j] /\ E[j] = D[j]
    /\ UnitsWritten(D, E, i, offset, buffer)
    /\ \A u \in 0 .. MaxUnits - 1 :
          A[i][u \div BlockSize] # NoAddress \/ u - offset + 1 \in DOMAIN buffer
             => B[i][u \div BlockSize] # NoAddress

\* WriteBlocks was refused, or wrote buffer at offset of file i.
BlocksDone(g, M, A, D, O, i, offset, buffer, r) ==
    \/ Refused(r.fs)
    \/ /\ r.ret = 0 /\ SameState(g, r.fs)
       /\ r.inode.inUse = M[i].inUse /\ r.inode.permissions = M[i].permissions
       /\ r.inode.fileSize = Max({M[i].fileSize, offset + Len(buffer)})
       /\ \E B, E, P : /\ View(r.fs, [M EXCEPT ![i] = r.inode], B, E, P)
                       /\ Changed(A, D, B, E, i, offset, buffer)
                       /\ Spared(g, O, r.fs, P)

LEMMA WriteBlocksDone ==
    ASSUME NEW g, NEW M, NEW A, NEW D, NEW O, View(g, M, A, D, O),
           NEW i \in Numbers, NEW offset \in Nat, NEW buffer \in Seq(Stored),
           buffer # <<>>, offset <= M[i].fileSize, offset + Len(buffer) <= MaxUnits
    PROVE  BlocksDone(g, M, A, D, O, i, offset, buffer, WriteBlocks(g, M[i], offset, buffer))
<1> DEFINE first == offset \div BlockSize
           end   == offset + Len(buffer) - 1
           last  == end \div BlockSize
           size  == Max({M[i].fileSize, offset + Len(buffer)})
           w == WriteFileBlocks([fs |-> g, inode |-> M[i], ret |-> 0],
                                first, last, offset, buffer)
           r == WriteBlocks(g, M[i], offset, buffer)
           E == Rewritten(D, i, first .. last, offset, buffer)
<1>0. /\ Len(buffer) \in Nat \ {0} /\ DOMAIN buffer = 1 .. Len(buffer)
      /\ end \in Nat /\ offset \in Nat /\ offset <= end /\ end < MaxUnits
      /\ \A k \in DOMAIN buffer : buffer[k] \in Stored
  BY MaxUnitsFacts
<1>1. /\ M \in [Numbers -> INode] /\ A \in [Numbers -> [BlockNumbers -> MaybeAddress]]
      /\ D \in [Numbers -> [BlockNumbers -> FileBlock]]
      /\ M[i].fileSize \in Nat /\ FsTyped(g)
  BY DEF View, Tree, Held, INode, Ledger
<1>2. first \in BlockNumbers /\ last \in BlockNumbers
  BY <1>0, BlockOfUnit, MaxUnitsFacts
<1>3. r = [w EXCEPT !.inode.fileSize = size]
  <2>1. ~ (offset > M[i].fileSize)
    BY <1>0, <1>1
  <2> HIDE DEF first
  <2> QED
    BY <2>1 DEF WriteBlocks, first
<1>4. LoopDone(g, M, A, D, O, i, first .. last, offset, buffer, w)
  <2> HIDE DEF first, last
  <2> QED
    BY <1>0, <1>2, BlocksWritten
<1>5. AccFollows(g, w)
  <2> DEFINE acc == [fs |-> g, inode |-> M[i], ret |-> 0]
  <2>1. AccFollows(acc.fs, acc)
    BY <1>1 DEF AccFollows, Follows
  <2> HIDE DEF first, last
  <2> QED
    BY <2>1, WriteFileBlocksFollows
<1>6. size \in Nat
  BY <1>0, <1>1, MaxOfTwo
<1>7. UnitsWritten(D, E, i, offset, buffer)
  BY <1>0, <1>1, RewrittenUnits
<1> HIDE DEF w, r, size
<1>8. r.fs = w.fs /\ r.ret = w.ret /\ r.inode = [w.inode EXCEPT !.fileSize = size]
  BY <1>3, <1>5 DEF AccFollows
<1>9. CASE Refused(w.fs)
  BY <1>8, <1>9 DEF BlocksDone, r
<1>10. CASE ~ Refused(w.fs)
  <2>1. w.ret = 0 /\ SameState(g, w.fs) /\ SameButBlocks(M[i], w.inode)
    BY <1>4, <1>10 DEF LoopDone
  <2> HIDE DEF E, first, last
  <2>2. PICK B, P : /\ View(w.fs, [M EXCEPT ![i] = w.inode], B, E, P)
                    /\ Placed(A, B, i, first .. last) /\ Spared(g, O, w.fs, P)
    BY <1>4, <1>10 DEF LoopDone, E
  <2> DEFINE N == [M EXCEPT ![i] = w.inode]
  <2>3. /\ N \in [Numbers -> INode] /\ N[i] = w.inode /\ N[i].inum = i
        /\ B \in [Numbers -> [BlockNumbers -> MaybeAddress]]
        /\ E \in [Numbers -> [BlockNumbers -> FileBlock]]
    BY <1>1, <2>2 DEF View, Tree, Held
  <2>4. /\ r.inode \in INode /\ r.inode.inum = i
        /\ r.inode.direct = N[i].direct /\ r.inode.indirect = N[i].indirect
        /\ r.inode.inUse = M[i].inUse /\ r.inode.permissions = M[i].permissions
        /\ r.inode.fileSize = size
    BY <1>6, <1>8, <2>1, <2>3 DEF INode, SameButBlocks
  <2>5. View(r.fs, [M EXCEPT ![i] = r.inode], B, E, P)
    <3>1. View(w.fs, [N EXCEPT ![i] = r.inode], B, E, P)
      <4> HIDE DEF N
      <4> QED
        BY <2>2, <2>4, ViewINode DEF N
    <3>2. [N EXCEPT ![i] = r.inode] = [M EXCEPT ![i] = r.inode]
      BY <1>1
    <3> QED
      BY <1>8, <3>1, <3>2
  <2>6. Changed(A, D, B, E, i, offset, buffer)
    <3>1. ASSUME NEW j \in Numbers, j # i PROVE B[j] = A[j] /\ E[j] = D[j]
      <4>1. \A c \in BlockNumbers : B[j][c] = A[j][c]
        BY <2>2, <3>1 DEF Placed
      <4>2. A[j] \in [BlockNumbers -> MaybeAddress] /\ B[j] \in [BlockNumbers -> MaybeAddress]
        BY <1>1, <2>3
      <4>3. E[j] = D[j]
        BY <1>1, <3>1 DEF E, Rewritten
      <4> QED
        BY <4>1, <4>2, <4>3
    <3>2. ASSUME NEW u \in 0 .. MaxUnits - 1,
                 \/ A[i][u \div BlockSize] # NoAddress
                 \/ u - offset + 1 \in DOMAIN buffer
          PROVE  B[i][u \div BlockSize] # NoAddress
      <4> DEFINE b == u \div BlockSize
      <4>1. b \in BlockNumbers /\ u \in Nat
        BY MaxUnitsFacts
      <4>2. CASE b \in first .. last
        BY <2>2, <4>1, <4>2 DEF Placed
      <4>3. CASE b \notin first .. last
        <5>1. u - offset + 1 \notin DOMAIN buffer
          <6>1. SUFFICES ASSUME offset <= u, u <= end PROVE FALSE
            BY <1>0, <4>1
          <6>2. first <= b /\ b <= last
            BY <1>0, <4>1, <6>1, DivMonotone DEF first, last
          <6>3. first \in Nat /\ last \in Nat /\ b \in Nat
            BY <1>0, <4>1, DivMod DEF first, last
          <6> QED
            BY <4>3, <6>2, <6>3
        <5> QED
          BY <2>2, <3>2, <4>1, <4>3, <5>1 DEF Placed
      <4> QED
        BY <4>2, <4>3
    <3> QED
      BY <1>7, <3>1, <3>2 DEF Changed
  <2>7. r.ret = 0 /\ SameState(g, r.fs)
    BY <1>8, <2>1
  <2> QED
    BY <1>8, <2>2, <2>4, <2>5, <2>6, <2>7 DEF BlocksDone, r, size
<1> QED
  BY <1>9, <1>10

----------------------------------------------------------------------------
(* The ifile. *)

\* A view is one of the log: what else the file layer keeps does not matter.
LEMMA ViewSame ==
    ASSUME NEW g, NEW M, NEW A, NEW D, NEW O, View(g, M, A, D, O),
           NEW h, FsTyped(h), h.media = g.media, h.tail = g.tail, h.live = g.live,
           h.full = g.full, h.leaked = g.leaked, "cached" \notin h.lapses
    PROVE  View(h, M, A, D, O)
<1>1. Ledger(g, InUse(O)) /\ Tree(M, A, O, g.leaked) /\ Held(g, M, A, D)
  BY DEF View
<1>2. \A a : SlotAt(h, a) = SlotAt(g, a)
  BY <1>1, LedgerUncached DEF SlotAt, Slots
<1>3. Ledger(h, InUse(O))
  BY <1>1 DEF Ledger
<1>4. Held(h, M, A, D)
  <2>1. \A i \in Numbers :
           M[i].indirect # NoAddress =>
              /\ SlotAt(h, M[i].indirect).inum = i
              /\ SlotAt(h, M[i].indirect).data
                   = [c \in 0 .. NIndirect - 1 |-> A[i][NDirect + c]]
    <3> SUFFICES ASSUME NEW i \in Numbers, M[i].indirect # NoAddress
                 PROVE  /\ SlotAt(h, M[i].indirect).inum = i
                        /\ SlotAt(h, M[i].indirect).data
                             = [c \in 0 .. NIndirect - 1 |-> A[i][NDirect + c]]
      OBVIOUS
    <3>1. /\ SlotAt(g, M[i].indirect).inum = i
          /\ SlotAt(g, M[i].indirect).data
               = [c \in 0 .. NIndirect - 1 |-> A[i][NDirect + c]]
      BY <1>1 DEF Held
    <3> QED
      BY <1>2, <3>1
  <2> QED
    BY <1>1, <1>2, <2>1 DEF Held
<1> QED
  BY <1>1, <1>3, <1>4 DEF View

\* The state in which the inode of file i was changed, or is new, and is not
\* in the ifile yet.
InHand(g, M, A, D, O, i) ==
    /\ View(g, M, A, D, O)
    /\ M[IFILE_INUM] = g.root
    /\ i \in INums /\ i <= g.root.fileSize + 1
    /\ g.iFileSize = Max({g.root.fileSize, i})
    /\ \A j \in 1 .. g.root.fileSize : j # i => HasEntry(M, A, D, j)
    /\ \A j \in INums : Sound(M, A, j, g.iFileSize)

\* A request was refused, or every file is settled with the inode of M and the
\* blocks of D.
Done(g, O, M, D, count, r) ==
    \/ Refused(r.fs)
    \/ /\ r.ret = 0 /\ r.fs.lapses = {} /\ r.fs.iFileSize = count
       /\ \E N, B, E, P : /\ Settled(r.fs, N, B, E, P)
                          /\ \A j \in INums : N[j] = M[j] /\ E[j] = D[j]
                          /\ Spared(g, O, r.fs, P)

LEMMA INumFacts ==
    /\ IFILE_INUM \in Numbers /\ IFILE_INUM = 0
    /\ \A i \in INums : /\ i \in Numbers /\ i \in Nat /\ i # IFILE_INUM /\ i - 1 \in Nat
                        /\ i - 1 \in 0 .. MaxUnits - 1 /\ i <= MaxUnits
                        /\ (i - 1) \div BlockSize \in BlockNumbers
<1>1. MaxINum \in Nat \ {0} /\ MaxINum <= MaxUnits /\ MaxUnits \in Nat
  BY FileAssumption, GeometryFacts, MaxUnitsFacts DEF MaxUnits
<1>2. ASSUME NEW i \in INums
      PROVE  /\ i \in Numbers /\ i \in Nat /\ i # IFILE_INUM /\ i - 1 \in Nat
             /\ i - 1 \in 0 .. MaxUnits - 1 /\ i <= MaxUnits
  BY <1>1 DEF INums, Numbers, IFILE_INUM
<1>3. ASSUME NEW i \in INums PROVE (i - 1) \div BlockSize \in BlockNumbers
  BY <1>2, MaxUnitsFacts
<1>4. IFILE_INUM \in Numbers /\ IFILE_INUM = 0
  BY <1>1 DEF IFILE_INUM, Numbers
<1> QED
  BY <1>2, <1>3, <1>4

\* The inode in hand goes into the ifile.
LEMMA UpdateIFileDone ==
    ASSUME NEW g, NEW M, NEW A, NEW D, NEW O, NEW i, InHand(g, M, A, D, O, i),
           g.lapses = {}
    PROVE  Done(g, O, M, D, g.iFileSize, UpdateIFile(g, M[i]))
<1> DEFINE k == g.root.fileSize
           w == WriteBlocks(g, M[0], i - 1, <<M[i]>>)
           r == UpdateIFile(g, M[i])
<1>1. /\ View(g, M, A, D, O) /\ M[0] = g.root /\ i \in INums /\ i <= k + 1
      /\ g.iFileSize = Max({k, i})
      /\ \A j \in 1 .. k : j # i => HasEntry(M, A, D, j)
      /\ \A j \in INums : Sound(M, A, j, g.iFileSize)
  BY INumFacts DEF InHand
<1>2. /\ M \in [Numbers -> INode] /\ \A j \in Numbers : M[j].inum = j
      /\ 0 \in Numbers /\ i \in Numbers /\ i - 1 \in Nat /\ i # 0 /\ i \in Nat
      /\ M[i] \in INode /\ M[0] \in INode /\ FsTyped(g)
      /\ \A j \in INums : j \in Numbers /\ j # 0
  BY <1>1, INumFacts DEF View, Tree, Ledger
<1>3. k \in Nat /\ g.iFileSize = IF k >= i THEN k ELSE i
  <2>1. k \in Nat
    BY <1>1, <1>2 DEF INode
  <2> QED
    BY <1>1, <1>2, <2>1, MaxOfTwo
<1>4. r = RootWritten(w)
  BY <1>1, <1>2, INumFacts DEF UpdateIFile
<1>5. BlocksDone(g, M, A, D, O, 0, i - 1, <<M[i]>>, w)
  <2> DEFINE buffer == <<M[i]>>
  <2>1. /\ buffer \in Seq(Stored) /\ buffer # <<>> /\ Len(buffer) = 1
        /\ buffer = <<M[i]>>
    BY <1>2 DEF Stored
  <2>2. i - 1 <= M[0].fileSize /\ i - 1 + 1 <= MaxUnits
    BY <1>1, <1>2, <1>3, INumFacts
  <2> HIDE DEF buffer
  <2>3. BlocksDone(g, M, A, D, O, 0, i - 1, buffer, WriteBlocks(g, M[0], i - 1, buffer))
    BY <1>1, <1>2, <2>1, <2>2, WriteBlocksDone
  <2> QED
    BY <2>3 DEF buffer
<1>6. AccFollows(g, w)
  BY <1>2, WriteBlocksFollows
<1> HIDE DEF r, w
<1>7. CASE Refused(w.fs)
  <2>1. \/ r.fs = w.fs
        \/ r.fs = [w.fs EXCEPT !.root = w.inode]
    BY <1>4 DEF RootWritten
  <2>2. r.fs.lapses = w.fs.lapses
    BY <1>6, <2>1 DEF AccFollows, Follows, FsTyped, StateFields
  <2> QED
    BY <1>7, <2>2 DEF Done, Refused, r
<1>8. CASE ~ Refused(w.fs)
  <2> DEFINE N == [M EXCEPT ![0] = w.inode]
             h == r.fs
  <2>1. /\ w.ret = 0 /\ SameState(g, w.fs)
        /\ w.inode.fileSize = Max({k, (i - 1) + Len(<<M[i]>>)})
    BY <1>1, <1>5, <1>8 DEF BlocksDone
  <2>2. PICK B, E, P : /\ View(w.fs, N, B, E, P)
                       /\ Changed(A, D, B, E, 0, i - 1, <<M[i]>>)
                       /\ Spared(g, O, w.fs, P)
    BY <1>5, <1>8 DEF BlocksDone
  <2>3. w.inode.fileSize = g.iFileSize
    <3>1. (i - 1) + Len(<<M[i]>>) = i
      BY <1>2
    <3> QED
      BY <1>1, <2>1, <3>1
  <2>4. r.ret = 0 /\ h = [w.fs EXCEPT !.root = w.inode]
    BY <1>4, <2>1 DEF RootWritten
  <2>5. /\ FsTyped(h) /\ h.media = w.fs.media /\ h.tail = w.fs.tail
        /\ h.live = w.fs.live /\ h.leaked = w.fs.leaked /\ h.full = w.fs.full
        /\ h.root = w.inode /\ h.iFileSize = g.iFileSize /\ h.lapses = g.lapses
    BY <1>6, <2>1, <2>4 DEF AccFollows, Follows, FsTyped, StateFields, SameState
  <2>6. N[0] = w.inode /\ \A j \in INums : N[j] = M[j]
    BY <1>2
  <2> HIDE DEF N, h
  <2>7. View(h, N, B, E, P)
    BY <2>2, <2>5, ViewSame, LedgerUncached DEF View
  <2>8. /\ \A j \in INums : B[j] = A[j] /\ E[j] = D[j]
        /\ UnitsWritten(D, E, 0, i - 1, <<M[i]>>)
        /\ \A u \in 0 .. MaxUnits - 1 :
              \/ A[0][u \div BlockSize] # NoAddress
              \/ u - (i - 1) + 1 \in DOMAIN <<M[i]>>
              => B[0][u \div BlockSize] # NoAddress
    BY <1>2, <2>2 DEF Changed
  <2>9. ASSUME NEW j \in 1 .. h.iFileSize PROVE HasEntry(N, B, E, j)
    <3> DEFINE u == j - 1
               x == u - (i - 1) + 1
    <3>1. j \in INums /\ u \in 0 .. MaxUnits - 1 /\ j \in Nat
      <4>1. h.iFileSize \in INums
        BY <2>5 DEF FsTyped
      <4>2. j \in INums
        BY <4>1, GeometryFacts DEF INums
      <4> QED
        BY <4>2, INumFacts
    <3>2. DOMAIN <<M[i]>> = {1} /\ <<M[i]>>[1] = M[i] /\ (x \in {1} <=> j = i)
      BY <1>2, <3>1
    <3>3. UnitOf(E[0], u) = IF x \in {1} THEN <<M[i]>>[x] ELSE UnitOf(D[0], u)
      BY <2>8, <3>1, <3>2 DEF UnitsWritten
    <3>4. A[0][u \div BlockSize] # NoAddress \/ x \in {1} => B[0][u \div BlockSize] # NoAddress
      BY <2>8, <3>1, <3>2
    <3> HIDE DEF u, x
    <3>5. CASE j = i
      BY <2>6, <3>1, <3>2, <3>3, <3>4, <3>5, INumFacts DEF HasEntry, u
    <3>6. CASE j # i
      <4>1. j \in 1 .. k
        <5>1. j <= g.iFileSize /\ 1 <= j /\ g.iFileSize \in Nat
          BY <1>2, <1>3, <2>5, <3>1
        <5>2. i <= k + 1
          BY <1>1
        <5> QED
          BY <1>2, <1>3, <3>1, <3>6, <5>1, <5>2
      <4>2. A[0][u \div BlockSize] # NoAddress /\ UnitOf(D[0], u) = M[j]
        BY <1>1, <3>6, <4>1, INumFacts DEF HasEntry, u
      <4> QED
        BY <2>6, <3>1, <3>2, <3>3, <3>4, <3>6, <4>2, INumFacts DEF HasEntry, u
    <3> QED
      BY <3>5, <3>6
  <2>10. \A j \in INums : Sound(N, B, j, h.iFileSize)
    <3> SUFFICES ASSUME NEW j \in INums PROVE Sound(N, B, j, h.iFileSize)
      OBVIOUS
    <3>1. N[j] = M[j] /\ B[j] = A[j] /\ h.iFileSize = g.iFileSize
      BY <2>5, <2>6, <2>8
    <3>2. Sound(M, A, j, g.iFileSize)
      BY <1>1
    <3> QED
      BY <3>1, <3>2 DEF Sound
  <2>12. Spared(g, O, h, P)
    BY <2>2, <2>5 DEF Spared, Pinned
  <2>11. Settled(h, N, B, E, P)
    BY <2>3, <2>5, <2>6, <2>7, <2>9, <2>10, INumFacts DEF Settled
  <2> QED
    BY <2>4, <2>5, <2>6, <2>8, <2>11, <2>12 DEF Done, h, r
<1> QED
  BY <1>7, <1>8

----------------------------------------------------------------------------
(* What is read between two requests. *)

LEMMA SettledFacts ==
    ASSUME NEW g, NEW M, NEW A, NEW D, NEW O, Settled(g, M, A, D, O)
    PROVE  /\ View(g, M, A, D, O) /\ FsTyped(g) /\ Tree(M, A, O, g.leaked)
           /\ g.iFileSize \in INums /\ g.iFileSize \in Nat /\ g.root.fileSize = g.iFileSize
           /\ \A j \in 1 .. g.iFileSize : j \in INums /\ j \in Numbers
           /\ M \in [Numbers -> INode] /\ \A j \in Numbers : M[j].inum = j
           /\ \A j \in Numbers : M[j] # Dead
           /\ M[0] = g.root /\ 0 \in Numbers
<1>1. View(g, M, A, D, O) /\ Ledger(g, InUse(O)) /\ Tree(M, A, O, g.leaked)
  BY DEF Settled, View
<1>2. FsTyped(g) /\ g.iFileSize \in INums
  BY <1>1 DEF Ledger, FsTyped
<1>3. ASSUME NEW j \in 1 .. g.iFileSize PROVE j \in INums /\ j \in Numbers
  BY <1>2, <1>3, GeometryFacts DEF INums, Numbers
<1>4. M \in [Numbers -> INode] /\ \A j \in Numbers : M[j].inum = j
  BY <1>1 DEF Tree
<1>5. \A j \in Numbers : M[j] # Dead
  BY <1>4, SentinelAssumption
<1>6. M[0] = g.root /\ g.root.fileSize = g.iFileSize /\ 0 \in Numbers
  BY INumFacts DEF Settled
<1> QED
  BY <1>1, <1>2, <1>3, <1>4, <1>5, <1>6, INumFacts

\* The inode of a file that was created is found.
LEMMA SettledINode ==
    ASSUME NEW g, NEW M, NEW A, NEW D, NEW O, Settled(g, M, A, D, O),
           NEW i \in 1 .. g.iFileSize
    PROVE  GetINode(g, i) = M[i]
<1> DEFINE b == (i - 1) \div BlockSize
<1>1. /\ View(g, M, A, D, O) /\ i \in INums /\ b \in BlockNumbers /\ 0 \in Numbers
      /\ M[0] = g.root /\ g.root.fileSize = g.iFileSize /\ i # 0
      /\ ~ (i > g.iFileSize)
  BY SettledFacts, INumFacts
<1>2. A[0][b] # NoAddress /\ D[0][b][(i - 1) % BlockSize] = M[i]
  BY INumFacts DEF Settled, HasEntry, UnitOf
<1>3. /\ GetBlockAddress(g, g.root, b) = A[0][b]
      /\ ReadBlock(g, g.root, b) = D[0][b] /\ D[0][b] # Dead
  <2> HIDE DEF b
  <2>1. /\ GetBlockAddress(g, M[0], b) = A[0][b]
        /\ ReadBlock(g, M[0], b) = D[0][b] /\ D[0][b] # Dead
    BY <1>1, ViewReadsBlock
  <2> QED
    BY <1>1, <2>1
<1>4. \A v : Understood(g, v, INode) = v
  BY <1>1, LedgerUncached DEF View
<1> QED
  BY <1>1, <1>2, <1>3, <1>4 DEF GetINode, IFILE_INUM

\* The units of a file whose blocks are all there.
LEMMA UnitsRead ==
    ASSUME NEW g, NEW M, NEW A, NEW D, NEW O, View(g, M, A, D, O),
           NEW i \in Numbers, NEW length \in Nat, length <= MaxUnits,
           \A u \in 0 .. length - 1 : A[i][u \div BlockSize] # NoAddress
    PROVE  ReadUnits(g, M[i], length) = [k \in 1 .. length |-> UnitOf(D[i], k - 1)]
<1> DEFINE blocks == {u \div BlockSize : u \in 0 .. length - 1}
           Missing(b) == \/ GetBlockAddress(g, M[i], b) = NoAddress
                         \/ ReadBlock(g, M[i], b) = Dead
           block == [b \in blocks |-> ReadBlock(g, M[i], b)]
<1>1. ASSUME NEW b \in blocks
      PROVE  ~ Missing(b) /\ ReadBlock(g, M[i], b) = D[i][b]
  <2>1. PICK u \in 0 .. length - 1 : b = u \div BlockSize
    OBVIOUS
  <2>2. b \in BlockNumbers /\ A[i][b] # NoAddress
    BY <2>1, MaxUnitsFacts
  <2> HIDE DEF blocks
  <2>3. GetBlockAddress(g, M[i], b) = A[i][b] /\ ReadBlock(g, M[i], b) = D[i][b]
        /\ D[i][b] # Dead
    BY <2>2, ViewReadsBlock
  <2> QED
    BY <2>2, <2>3
<1>2. ReadUnits(g, M[i], length)
        = [k \in 1 .. length |-> block[(k - 1) \div BlockSize][(k - 1) % BlockSize]]
  BY <1>1 DEF ReadUnits
<1>3. ASSUME NEW k \in 1 .. length
      PROVE  block[(k - 1) \div BlockSize][(k - 1) % BlockSize] = UnitOf(D[i], k - 1)
  <2>1. (k - 1) \div BlockSize \in blocks
    OBVIOUS
  <2> HIDE DEF blocks
  <2> QED
    BY <1>1, <2>1 DEF UnitOf
<1> HIDE DEF block
<1> QED
  BY <1>2, <1>3

\* GetUnusedINum returns a file that is not in use, or the next one.
LEMMA SettledUnused ==
    ASSUME NEW g, NEW M, NEW A, NEW D, NEW O, Settled(g, M, A, D, O)
    PROVE  LET i == GetUnusedINum(g)
           IN  /\ \/ i = g.iFileSize + 1
                  \/ i \in 1 .. g.iFileSize /\ ~ M[i].inUse
               /\ \A j \in 1 .. g.iFileSize : j < i => M[j].inUse
<1> DEFINE T == {i \in 1 .. g.iFileSize : Unused(GetINode(g, i))} \cup {g.iFileSize + 1}
<1>1. g.iFileSize \in Nat /\ \A j \in 1 .. g.iFileSize : M[j] # Dead
  BY SettledFacts
<1>2. T \subseteq Nat /\ T # {}
  BY <1>1
<1> HIDE DEF T
<1>3. Min(T) \in T /\ \A j \in T : Min(T) <= j
  BY <1>2, MinOfNats
<1>4. ASSUME NEW i \in 1 .. g.iFileSize, Unused(GetINode(g, i)) PROVE ~ M[i].inUse
  <2>1. GetINode(g, i) = M[i]
    BY SettledINode
  <2> QED
    BY <1>1, <1>4, <2>1 DEF Unused
<1>5. GetUnusedINum(g) = Min(T)
  BY DEF GetUnusedINum, T
<1>6. ASSUME NEW j \in 1 .. g.iFileSize, j < Min(T) PROVE M[j].inUse
  <2>1. j \notin T
    <3>1. j \in Nat
      BY <1>1
    <3>4. Min(T) \in Nat
      BY <1>2, <1>3
    <3>2. j \in T => Min(T) <= j
      BY <1>3
    <3> DEFINE m == Min(T)
    <3>3. j < m /\ j \in Nat /\ m \in Nat /\ (j \in T => m <= j)
      BY <1>6, <3>1, <3>2, <3>4
    <3> HIDE DEF m
    <3> QED
      BY <3>3
  <2>2. GetINode(g, j) = M[j]
    BY SettledINode
  <2> QED
    BY <2>1, <2>2 DEF Unused, T
<1> QED
  BY <1>3, <1>4, <1>5, <1>6 DEF T

----------------------------------------------------------------------------
(* The properties of a state between two requests. *)

LEMMA SettledNamed ==
    ASSUME NEW g, NEW M, NEW A, NEW D, NEW O, Settled(g, M, A, D, O)
    PROVE  /\ INodesOf(g) = {M[i] : i \in 0 .. g.iFileSize}
           /\ \A i \in Numbers : Named(g, M[i]) =
                {<<i, b, A[i][b]>> : b \in {c \in BlockNumbers : A[i][c] # NoAddress}}
<1>1. INodesOf(g) = {M[i] : i \in 0 .. g.iFileSize}
  <2>1. Min({g.iFileSize, g.root.fileSize}) = g.iFileSize
    <3>1. {g.iFileSize, g.root.fileSize} \subseteq Nat /\ g.root.fileSize = g.iFileSize
      BY SettledFacts
    <3> QED
      BY <3>1, MinOfNats
  <2>2. \A i \in 1 .. g.iFileSize : GetINode(g, i) = M[i] /\ M[i] # Dead
    BY SettledINode, SettledFacts
  <2>3. g.root = M[0] /\ M[0] # Dead /\ g.iFileSize \in Nat
    BY SettledFacts
  <2>4. INodesOf(g) = ({g.root} \cup {GetINode(g, i) : i \in 1 .. g.iFileSize}) \ {Dead}
    BY <2>1 DEF INodesOf
  <2>5. {GetINode(g, i) : i \in 1 .. g.iFileSize} = {M[i] : i \in 1 .. g.iFileSize}
    BY <2>2
  <2>6. \A x : (\E i \in 0 .. g.iFileSize : x = M[i])
                 <=> x = M[0] \/ \E i \in 1 .. g.iFileSize : x = M[i]
    BY <2>3
  <2> QED
    BY <2>2, <2>3, <2>4, <2>5, <2>6
<1>2. ASSUME NEW i \in Numbers
      PROVE  Named(g, M[i]) =
               {<<i, b, A[i][b]>> : b \in {c \in BlockNumbers : A[i][c] # NoAddress}}
  <2>1. View(g, M, A, D, O) /\ M[i].inum = i
    BY SettledFacts
  <2>2. ASSUME NEW b \in BlockNumbers
        PROVE  GetBlockAddress(g, M[i], b) = A[i][b] /\ A[i][b] # Dead
    <3>1. GetBlockAddress(g, M[i], b) = A[i][b]
      BY <2>1, ViewReadsBlock
    <3>2. A[i][b] \in MaybeAddress
      BY <2>1 DEF View, Tree
    <3> QED
      BY <3>1, <3>2, SentinelAssumption
  <2>3. {c \in 0 .. maxFileBlocks - 1 : GetBlockAddress(g, M[i], c) \notin {NoAddress, Dead}}
          = {c \in BlockNumbers : A[i][c] # NoAddress}
    BY <2>2 DEF BlockNumbers
  <2> QED
    BY <2>1, <2>2, <2>3 DEF Named
<1> QED
  BY <1>1, <1>2

\* Files and leaks have every block in use.
LEMMA SettledInUse ==
    ASSUME NEW g, NEW M, NEW A, NEW D, NEW O, Settled(g, M, A, D, O)
    PROVE  Reachable(g) \cup g.leaked = InUse(O)
<1>1. /\ Tree(M, A, O, g.leaked) /\ g.iFileSize \in Nat
      /\ INodesOf(g) = {M[i] : i \in 0 .. g.iFileSize}
      /\ \A i \in Numbers : Named(g, M[i]) =
            {<<i, b, A[i][b]>> : b \in {c \in BlockNumbers : A[i][c] # NoAddress}}
      /\ \A i \in 0 .. g.iFileSize : i \in Numbers
  BY SettledFacts, SettledNamed
<1>2. ASSUME NEW i \in Numbers, i \notin 0 .. g.iFileSize
      PROVE  M[i].indirect = NoAddress /\ \A b \in BlockNumbers : A[i][b] = NoAddress
  <2>1. i \in INums /\ ~ (i <= g.iFileSize)
    BY <1>1, <1>2, GeometryFacts DEF Numbers, INums
  <2> QED
    BY <2>1 DEF Settled, Sound
<1>3. ASSUME NEW x \in Reachable(g) \cup g.leaked PROVE x \in InUse(O)
  <2>1. CASE x \in g.leaked
    BY <1>1, <2>1, TreeFacts
  <2>2. CASE x \in IndirectBlocks(g)
    <3>1. PICK i \in Numbers : x = M[i].indirect /\ x # NoAddress
      BY <1>1, <2>2 DEF IndirectBlocks
    <3> QED
      BY <1>1, <3>1, TreeFacts
  <2>3. ASSUME NEW n \in NamedBlocks(g), x = n[3] PROVE x \in InUse(O)
    <3>1. PICK i \in Numbers : n \in Named(g, M[i])
      BY <1>1, <2>3 DEF NamedBlocks
    <3>2. PICK b \in BlockNumbers : A[i][b] # NoAddress /\ n = <<i, b, A[i][b]>>
      BY <1>1, <3>1
    <3> QED
      BY <1>1, <2>3, <3>2, TreeFacts
  <2> QED
    BY <1>3, <2>1, <2>2, <2>3 DEF Reachable
<1>4. ASSUME NEW x \in InUse(O) PROVE x \in Reachable(g) \cup g.leaked
  <2>1. \/ x \in g.leaked
        \/ \E i \in Numbers : M[i].indirect = x
        \/ \E i \in Numbers, b \in BlockNumbers : A[i][b] = x
    BY <1>1 DEF Tree, InUse
  <2>2. x # NoAddress
    BY SentinelAssumption DEF InUse
  <2>3. ASSUME NEW i \in Numbers, M[i].indirect = x PROVE x \in Reachable(g)
    <3>1. i \in 0 .. g.iFileSize
      BY <1>2, <2>2, <2>3
    <3> QED
      BY <1>1, <2>2, <2>3, <3>1 DEF Reachable, IndirectBlocks
  <2>4. ASSUME NEW i \in Numbers, NEW b \in BlockNumbers, A[i][b] = x
        PROVE  x \in Reachable(g)
    <3>1. i \in 0 .. g.iFileSize
      BY <1>2, <2>2, <2>4
    <3>2. <<i, b, A[i][b]>> \in Named(g, M[i])
      BY <1>1, <2>2, <2>4
    <3>3. <<i, b, A[i][b]>> \in NamedBlocks(g)
      BY <1>1, <3>1, <3>2 DEF NamedBlocks
    <3> QED
      BY <2>4, <3>3 DEF Reachable
  <2> QED
    BY <2>1, <2>3, <2>4
<1> QED
  BY <1>3, <1>4

LEMMA SettledUsage ==
    ASSUME NEW g, NEW M, NEW A, NEW D, NEW O, Settled(g, M, A, D, O),
           NEW s \in DataSegments, s # g.tail.seg
    PROVE  g.live[s] = Cardinality({a \in Reachable(g) \cup g.leaked : a.seg = s})
<1> DEFINE L == InUse(O)
           S == {a \in L : a.seg = s}
           B == BlocksIn(L, s)
           f == [b \in B |-> At(s, b)]
<1>1. g.live[s] = Cardinality(B) /\ L \subseteq Address
  BY SettledFacts DEF View, Ledger
<1>2. IsFiniteSet(B)
  BY BlocksInFinite
<1>3. f \in Bijection(B, S)
  <2>1. \A b \in B : f[b] \in S
    BY AtIsAddress DEF BlocksIn, At
  <2>2. \A b, c \in B : f[b] = f[c] => b = c
    BY DEF At
  <2>3. \A a \in S : \E b \in B : f[b] = a
    BY <1>1, AddressParts DEF BlocksIn
  <2> HIDE DEF B, S
  <2>4. f \in [B -> S]
    BY <2>1
  <2>5. f \in Injection(B, S)
    BY <2>2, <2>4 DEF Injection, IsInjective
  <2>6. f \in Surjection(B, S)
    BY <2>3, <2>4 DEF Surjection
  <2> QED
    BY <2>5, <2>6 DEF Bijection
<1>4. Cardinality(S) = Cardinality(B)
  <2> HIDE DEF B, S, f
  <2>1. ExistsBijection(B, S)
    BY <1>3 DEF ExistsBijection
  <2> QED
    BY <1>2, <2>1, FS_Bijection
<1>5. Reachable(g) \cup g.leaked = L
  BY SettledInUse
<1> QED
  BY <1>1, <1>4, <1>5

LEMMA SettledSummaries ==
    ASSUME NEW g, NEW M, NEW A, NEW D, NEW O, Settled(g, M, A, D, O),
           NEW n \in NamedBlocks(g)
    PROVE  LET slot == Slots(g, n[3].seg)[n[3].blk]
           IN  slot # NO_INUM /\ slot.inum = n[1] /\ slot.fb = n[2]
<1>1. PICK i \in Numbers : n \in Named(g, M[i])
  <2>1. PICK inode \in INodesOf(g) : n \in Named(g, inode)
    BY DEF NamedBlocks
  <2>2. PICK i \in 0 .. g.iFileSize : inode = M[i]
    BY <2>1, SettledNamed
  <2>3. i \in Numbers
    BY SettledFacts
  <2> QED
    BY <2>1, <2>2, <2>3
<1>2. PICK b \in BlockNumbers : A[i][b] # NoAddress /\ n = <<i, b, A[i][b]>>
  BY <1>1, SettledNamed
<1>3. Held(g, M, A, D) /\ Ledger(g, InUse(O)) /\ Tree(M, A, O, g.leaked)
  BY SettledFacts DEF View
<1>4. SlotAt(g, A[i][b]) = [inum |-> i, fb |-> b, data |-> D[i][b]]
  BY <1>2, <1>3 DEF Held
<1>5. SlotAt(g, A[i][b]) # NO_INUM
  <2>1. A[i][b] \in InUse(O)
    BY <1>2, <1>3, TreeFacts
  <2> QED
    BY <1>3, <2>1, SlotOfLedger
<1> QED
  BY <1>2, <1>4, <1>5 DEF SlotAt

----------------------------------------------------------------------------
(* Freeing the blocks of a file. *)

\* The direct blocks of file i up to block n, and what n frees leave in use.
Directs(A, i, n) == {A[i][b] : b \in 0 .. n - 1} \ {NoAddress}

LEMMA DirectsFreed ==
    ASSUME NEW g, NEW M, NEW A, NEW D, NEW O, View(g, M, A, D, O), NEW i \in Numbers
    PROVE  LET h == DirectBlocksFreed(g, M[i])
               L == InUse(O) \ Directs(A, i, NDirect)
           IN  Ledger(h, L) /\ SameFile(g, h) /\ Keeps(g, h, L)
<1> DEFINE inode == M[i]
<1> HIDE DEF inode
<1>1. PICK freed :
         /\ freed[0] = g
         /\ \A n \in 1 .. NDirect :
               freed[n] = Log_Free(freed[n - 1], inode.direct[n - 1])
         /\ DirectBlocksFreed(g, inode) = freed[NDirect]
  BY DirectBlocksFreedTurns
<1> DEFINE L(n) == InUse(O) \ Directs(A, i, n)
           Freed(n) == /\ Ledger(freed[n], L(n)) /\ SameFile(g, freed[n])
                       /\ Keeps(g, freed[n], L(n))
           Good == {n \in Nat : n <= NDirect => Freed(n)}
<1>2. Ledger(g, InUse(O)) /\ Tree(M, A, O, g.leaked) /\ NDirect \in Nat
  BY GeometryFacts DEF View
<1>3. Freed(0)
  <2>1. L(0) = InUse(O)
    BY DEF Directs
  <2> HIDE DEF L
  <2> QED
    BY <1>1, <1>2, <2>1 DEF SameFile, Keeps, Unwritten
<1>4. ASSUME NEW n \in Nat, n + 1 <= NDirect, Freed(n) PROVE Freed(n + 1)
  <2> DEFINE a == A[i][n]
  <2>1. n \in BlockNumbers /\ n < NDirect
    BY <1>2, <1>4, GeometryFacts DEF BlockNumbers, maxFileBlocks
  <2>2. inode.direct[n] = a
    BY <1>2, <2>1 DEF Tree, inode
  <2>3. freed[n + 1] = Log_Free(freed[n], a)
    <3>1. n + 1 \in 1 .. NDirect /\ (n + 1) - 1 = n
      BY <1>2, <1>4
    <3>2. freed[n + 1] = Log_Free(freed[(n + 1) - 1], inode.direct[(n + 1) - 1])
      BY <1>1, <3>1
    <3> QED
      BY <2>2, <3>1, <3>2
  <2>4. L(n + 1) = L(n) \ {a}
    <3>1. 0 .. (n + 1) - 1 = (0 .. n - 1) \cup {n}
      BY <1>4
    <3>2. NoAddress \notin InUse(O)
      BY SentinelAssumption DEF InUse
    <3> QED
      BY <3>1, <3>2 DEF Directs
  <2>5. CASE a = NoAddress
    <3>1. freed[n + 1] = freed[n]
      BY <2>3, <2>5 DEF Log_Free
    <3>2. L(n + 1) = L(n)
      BY <2>4, <2>5, SentinelAssumption DEF InUse
    <3> HIDE DEF L
    <3> QED
      BY <1>4, <3>1, <3>2
  <2>6. CASE a # NoAddress
    <3>1. a \in L(n)
      <4>1. a \in InUse(O) /\ O[a] = <<i, n>>
        BY <1>2, <2>1, <2>6, TreeFacts
      <4>2. ASSUME NEW b \in 0 .. n - 1, A[i][b] = a PROVE FALSE
        <5>1. b \in BlockNumbers /\ b # n
          BY <1>2, <1>4, <2>1, GeometryFacts DEF BlockNumbers, maxFileBlocks
        <5>2. O[a] = <<i, b>>
          <6>1. A[i][b] # NoAddress
            BY <2>6, <4>2
          <6>2. O[A[i][b]] = <<i, b>>
            BY <1>2, <5>1, <6>1, TreeFacts
          <6> QED
            BY <4>2, <6>2
        <5> QED
          BY <4>1, <5>1, <5>2
      <4> QED
        BY <4>1, <4>2 DEF Directs
    <3> HIDE DEF L, a
    <3>2. /\ Ledger(freed[n + 1], L(n) \ {a}) /\ SameFile(freed[n], freed[n + 1])
          /\ Keeps(freed[n], freed[n + 1], L(n) \ {a})
      BY <1>4, <2>3, <3>1, LedgerFreed
    <3>3. Keeps(g, freed[n], L(n) \ {a})
      BY <1>4 DEF Keeps, Unwritten, BlocksIn
    <3>4. Keeps(g, freed[n + 1], L(n) \ {a})
      BY <3>2, <3>3, KeepsFollows
    <3> QED
      BY <1>4, <2>4, <3>2, <3>4 DEF SameFile
  <2> QED
    BY <2>5, <2>6
<1>5. Freed(NDirect)
  <2> HIDE DEF Freed
  <2>1. 0 \in Good /\ \A n \in Nat : n \in Good => n + 1 \in Good
    BY <1>2, <1>3, <1>4
  <2>2. NDirect \in Good
    <3> HIDE DEF Good
    <3> QED
      BY <1>2, <2>1, InductionOnSets
  <2> QED
    BY <2>2, <1>2
<1> QED
  BY <1>1, <1>5 DEF inode

NoAddresses == [b \in BlockNumbers |-> NoAddress]
ZeroBlocks  == [b \in BlockNumbers |-> ZeroBlock]

\* The blocks of file i that its indirect block names.
Listed(A, i) == {A[i][b] : b \in {c \in BlockNumbers : c >= NDirect}} \ {NoAddress}

\* A file has lost its blocks: the direct ones and the indirect block were
\* freed, and those that the indirect block names are leaked.
LEMMA ViewEmptied ==
    ASSUME NEW g, NEW M, NEW A, NEW D, NEW O, View(g, M, A, D, O), NEW i \in Numbers,
           NEW h, Ledger(h, InUse(O) \ (Directs(A, i, NDirect) \cup {M[i].indirect})),
           Keeps(g, h, InUse(O) \ (Directs(A, i, NDirect) \cup {M[i].indirect})),
           h.leaked = g.leaked \cup Listed(A, i),
           NEW n \in INode, n.inum = i, n.direct = NoBlocks, n.indirect = NoAddress
    PROVE  \E P : View(h, [M EXCEPT ![i] = n], [A EXCEPT ![i] = NoAddresses],
                       [D EXCEPT ![i] = ZeroBlocks], P)
<1> DEFINE G  == Directs(A, i, NDirect) \cup {M[i].indirect}
           M1 == [M EXCEPT ![i] = n]
           A1 == [A EXCEPT ![i] = NoAddresses]
           D1 == [D EXCEPT ![i] = ZeroBlocks]
           P  == [x \in Address |-> IF x \in G THEN Nobody
                                   ELSE IF x \in Listed(A, i) THEN Leaked ELSE O[x]]
<1>0. /\ Tree(M, A, O, g.leaked) /\ Held(g, M, A, D)
      /\ M \in [Numbers -> INode] /\ A \in [Numbers -> [BlockNumbers -> MaybeAddress]]
      /\ D \in [Numbers -> [BlockNumbers -> FileBlock]]
  BY DEF View, Tree, Held
<1>1. /\ \A j \in Numbers, c \in BlockNumbers : A[j][c] # NoAddress =>
            A[j][c] \in InUse(O) /\ A[j][c] \in Address /\ O[A[j][c]] = <<j, c>>
      /\ \A j \in Numbers : M[j].indirect # NoAddress =>
            /\ M[j].indirect \in InUse(O) /\ M[j].indirect \in Address
            /\ O[M[j].indirect] = <<j, INDIRECT_BLOCK>>
      /\ \A x \in g.leaked : x \in InUse(O) /\ x \in Address /\ O[x] = Leaked
  <2>1. Tree(M, A, O, g.leaked)
    BY <1>0
  <2> QED
    BY <2>1, TreeFacts
<1>2. \A b \in 0 .. NDirect - 1 : b \in BlockNumbers /\ ~ (b >= NDirect)
  BY GeometryFacts DEF BlockNumbers, maxFileBlocks
<1>3. \A x \in Address : x \in G =>
         \/ O[x] = <<i, INDIRECT_BLOCK>>
         \/ \E b \in BlockNumbers : ~ (b >= NDirect) /\ O[x] = <<i, b>>
  <2> SUFFICES ASSUME NEW x \in Address, x \in G
               PROVE  \/ O[x] = <<i, INDIRECT_BLOCK>>
                      \/ \E b \in BlockNumbers : ~ (b >= NDirect) /\ O[x] = <<i, b>>
    OBVIOUS
  <2>1. x # NoAddress
    BY SentinelAssumption
  <2>2. CASE x = M[i].indirect
    BY <1>1, <2>1, <2>2
  <2>3. ASSUME NEW b \in 0 .. NDirect - 1, x = A[i][b]
        PROVE  \E c \in BlockNumbers : ~ (c >= NDirect) /\ O[x] = <<i, c>>
    <3>1. b \in BlockNumbers /\ ~ (b >= NDirect)
      BY <1>2
    <3>2. O[A[i][b]] = <<i, b>>
      BY <1>1, <2>1, <2>3, <3>1
    <3> QED
      BY <2>3, <3>1, <3>2
  <2> QED
    BY <2>2, <2>3 DEF Directs
<1>4. \A x \in Listed(A, i) :
         /\ x \in InUse(O) /\ x \in Address
         /\ \E b \in BlockNumbers : b >= NDirect /\ O[x] = <<i, b>>
  BY <1>1 DEF Listed
<1>5. INDIRECT_BLOCK \notin BlockNumbers /\ \A j \in Numbers : j # -1
  BY DEF INDIRECT_BLOCK, BlockNumbers, Numbers
<1>6. \A x \in Listed(A, i) : x \notin G
  <2> SUFFICES ASSUME NEW x \in Listed(A, i), x \in G PROVE FALSE
    OBVIOUS
  <2>1. PICK b \in BlockNumbers : b >= NDirect /\ O[x] = <<i, b>>
    BY <1>4
  <2> HIDE DEF G
  <2>2. \/ O[x] = <<i, INDIRECT_BLOCK>>
        \/ \E c \in BlockNumbers : ~ (c >= NDirect) /\ O[x] = <<i, c>>
    BY <1>3, <1>4
  <2> QED
    BY <1>5, <2>1, <2>2
<1>7. InUse(P) = InUse(O) \ G
  <2>1. Leaked # Nobody
    BY DEF Leaked, Nobody
  <2> HIDE DEF G
  <2>2. ASSUME NEW x \in Address PROVE P[x] # Nobody <=> x \in InUse(O) \ G
    BY <1>4, <1>6, <2>1 DEF InUse
  <2> HIDE DEF P
  <2> QED
    BY <2>2 DEF InUse
<1>8. /\ A1 \in [Numbers -> [BlockNumbers -> MaybeAddress]]
      /\ \A c \in BlockNumbers : A1[i][c] = NoAddress
      /\ \A j \in Numbers : j # i => A1[j] = A[j]
  BY <1>0 DEF MaybeAddress, NoAddresses
<1>9. /\ D1 \in [Numbers -> [BlockNumbers -> FileBlock]]
      /\ \A c \in BlockNumbers : D1[i][c] = ZeroBlock
      /\ \A j \in Numbers : j # i => D1[j] = D[j]
  BY <1>0, ZeroBlockTyped DEF ZeroBlocks
<1>10. /\ M1 \in [Numbers -> INode] /\ \A j \in Numbers : M1[j].inum = j
       /\ M1[i].direct = NoBlocks /\ M1[i].indirect = NoAddress
       /\ \A j \in Numbers : j # i => M1[j] = M[j]
  BY <1>0 DEF Tree
<1>11. ASSUME NEW j \in Numbers, j # i, NEW c, NEW x \in Address, O[x] = <<j, c>>
       PROVE  x \notin G /\ x \notin Listed(A, i) /\ P[x] = O[x]
  <2>1. x \notin G
    BY <1>3, <1>11
  <2>2. x \notin Listed(A, i)
    BY <1>4, <1>11
  <2> QED
    BY <2>1, <2>2
<1>12. ASSUME NEW x \in g.leaked PROVE x \in Address /\ P[x] = Leaked
  <2>1. x \in Address /\ O[x] = Leaked
    BY <1>1
  <2>2. x \notin G
    BY <1>3, <1>5, <2>1 DEF Leaked
  <2> QED
    BY <2>1, <2>2
<1>13. ASSUME NEW x \in Listed(A, i) PROVE x \in Address /\ P[x] = Leaked
  BY <1>4, <1>6
<1>14. ASSUME NEW x \in Address
       PROVE  \/ P[x] = Nobody
              \/ P[x] = Leaked /\ x \in h.leaked
              \/ \E j \in Numbers : M1[j].indirect = x
              \/ \E j \in Numbers, c \in BlockNumbers : A1[j][c] = x
  <2>1. CASE x \in G
    BY <2>1
  <2>2. CASE x \in Listed(A, i)
    BY <1>13, <2>2
  <2>3. CASE x \notin G /\ x \notin Listed(A, i)
    <3>1. P[x] = O[x]
      BY <2>3
    <3> HIDE DEF P, M1, A1
    <3>2. \/ O[x] = Nobody
          \/ O[x] = Leaked /\ x \in g.leaked
          \/ \E j \in Numbers : M[j].indirect = x
          \/ \E j \in Numbers, c \in BlockNumbers : A[j][c] = x
      BY <1>0 DEF Tree
    <3>3. CASE O[x] = Nobody \/ (O[x] = Leaked /\ x \in g.leaked)
      BY <3>1, <3>3
    <3>4. ASSUME NEW j \in Numbers, M[j].indirect = x
          PROVE  \E k \in Numbers : M1[k].indirect = x
      BY <1>10, <2>3, <3>4
    <3>5. ASSUME NEW j \in Numbers, NEW c \in BlockNumbers, A[j][c] = x
          PROVE  \E k \in Numbers, d \in BlockNumbers : A1[k][d] = x
      <4>1. j # i
        <5> SUFFICES ASSUME j = i PROVE FALSE
          OBVIOUS
        <5>1. x # NoAddress
          BY SentinelAssumption
        <5>2. CASE c >= NDirect
          BY <2>3, <3>5, <5>1, <5>2 DEF Listed
        <5>3. CASE ~ (c >= NDirect)
          <6>1. c \in 0 .. NDirect - 1
            BY <5>3, BlockNumberFacts
          <6> QED
            BY <2>3, <3>5, <5>1, <6>1 DEF Directs
        <5> QED
          BY <5>2, <5>3
      <4> QED
        BY <1>8, <3>5, <4>1
    <3> QED
      BY <3>2, <3>3, <3>4, <3>5
  <2> QED
    BY <2>1, <2>2, <2>3
<1>15. DOMAIN P = Address
  OBVIOUS
<1>16. \A x \in InUse(O) \ G : SlotAt(h, x) = SlotAt(g, x)
  BY DEF Keeps
<1> HIDE DEF M1, A1, D1, P, G
<1>17. Tree(M1, A1, P, h.leaked)
  <2>1. ASSUME NEW j \in Numbers, NEW c \in BlockNumbers
        PROVE  /\ c < NDirect => A1[j][c] = M1[j].direct[c]
               /\ c >= NDirect /\ M1[j].indirect = NoAddress => A1[j][c] = NoAddress
               /\ A1[j][c] # NoAddress => P[A1[j][c]] = <<j, c>>
    <3>1. CASE j = i
      <4>1. c < NDirect => NoBlocks[c] = NoAddress
        BY BlockNumberFacts, GeometryFacts DEF NoBlocks
      <4> QED
        BY <1>8, <1>10, <3>1, <4>1
    <3>2. CASE j # i
      <4>1. /\ c < NDirect => A[j][c] = M[j].direct[c]
            /\ c >= NDirect /\ M[j].indirect = NoAddress => A[j][c] = NoAddress
        BY <1>0 DEF Tree
      <4>2. A[j][c] # NoAddress => P[A[j][c]] = <<j, c>>
        <5> SUFFICES ASSUME A[j][c] # NoAddress PROVE P[A[j][c]] = <<j, c>>
          OBVIOUS
        <5>1. A[j][c] \in Address /\ O[A[j][c]] = <<j, c>>
          BY <1>1
        <5>2. P[A[j][c]] = O[A[j][c]]
          BY <1>11, <3>2, <5>1
        <5> QED
          BY <5>1, <5>2
      <4> QED
        BY <1>8, <1>10, <3>2, <4>1, <4>2
    <3> QED
      BY <3>1, <3>2
  <2>2. ASSUME NEW j \in Numbers, M1[j].indirect # NoAddress
        PROVE  P[M1[j].indirect] = <<j, INDIRECT_BLOCK>>
    <3>1. j # i /\ M1[j] = M[j]
      BY <1>10, <2>2
    <3>2. M[j].indirect \in Address /\ O[M[j].indirect] = <<j, INDIRECT_BLOCK>>
      BY <1>1, <2>2, <3>1
    <3>3. P[M[j].indirect] = O[M[j].indirect]
      BY <1>11, <3>1, <3>2
    <3> QED
      BY <3>1, <3>2, <3>3
  <2>3. \A x \in h.leaked : x \in Address /\ P[x] = Leaked
    BY <1>12, <1>13
  <2> QED
    BY <1>8, <1>10, <1>14, <1>15, <2>1, <2>2, <2>3 DEF Tree
<1>18. Held(h, M1, A1, D1)
  <2>1. ASSUME NEW j \in Numbers, NEW c \in BlockNumbers
        PROVE  /\ A1[j][c] = NoAddress => D1[j][c] = ZeroBlock
               /\ A1[j][c] # NoAddress =>
                    SlotAt(h, A1[j][c]) = [inum |-> j, fb |-> c, data |-> D1[j][c]]
    <3>1. CASE j = i
      BY <1>8, <1>9, <3>1
    <3>2. CASE j # i
      <4>1. /\ A[j][c] = NoAddress => D[j][c] = ZeroBlock
            /\ A[j][c] # NoAddress =>
                 SlotAt(g, A[j][c]) = [inum |-> j, fb |-> c, data |-> D[j][c]]
        BY <1>0 DEF Held
      <4>2. A[j][c] # NoAddress => A[j][c] \in InUse(O) \ G
        BY <1>1, <1>11, <3>2
      <4> QED
        BY <1>8, <1>9, <1>16, <3>2, <4>1, <4>2
    <3> QED
      BY <3>1, <3>2
  <2>2. ASSUME NEW j \in Numbers, M1[j].indirect # NoAddress
        PROVE  /\ SlotAt(h, M1[j].indirect).inum = j
               /\ SlotAt(h, M1[j].indirect).data
                    = [c \in 0 .. NIndirect - 1 |-> A1[j][NDirect + c]]
    <3>1. j # i /\ M1[j] = M[j] /\ A1[j] = A[j]
      BY <1>8, <1>10, <2>2
    <3>2. M[j].indirect \in InUse(O) \ G
      BY <1>1, <1>11, <2>2, <3>1
    <3>3. /\ SlotAt(g, M[j].indirect).inum = j
          /\ SlotAt(g, M[j].indirect).data
               = [c \in 0 .. NIndirect - 1 |-> A[j][NDirect + c]]
      BY <1>0, <2>2, <3>1 DEF Held
    <3> QED
      BY <1>16, <3>1, <3>2, <3>3
  <2> QED
    BY <1>9, <2>1, <2>2 DEF Held
<1>19. View(h, M1, A1, D1, P)
  BY <1>7, <1>17, <1>18 DEF View, G
<1> QED
  BY <1>19 DEF M1, A1, D1

LEMMA EmptiedDone ==
    ASSUME NEW g, NEW M, NEW A, NEW D, NEW O, View(g, M, A, D, O), NEW i \in Numbers
    PROVE  LET e == Emptied(g, M[i])
           IN  /\ SameState(g, e.fs) /\ FsTyped(e.fs)
               /\ e.inode = [M[i] EXCEPT !.direct = NoBlocks, !.indirect = NoAddress]
               /\ e.inode \in INode
               /\ \A n \in INode :
                     /\ n.inum = i /\ n.direct = NoBlocks /\ n.indirect = NoAddress
                     => \E P : View(e.fs, [M EXCEPT ![i] = n],
                                    [A EXCEPT ![i] = NoAddresses],
                                    [D EXCEPT ![i] = ZeroBlocks], P)
<1> DEFINE e  == Emptied(g, M[i])
           h1 == DirectBlocksFreed(g, M[i])
           h2 == Log_Free(h1, M[i].indirect)
           ind == M[i].indirect
           L1 == InUse(O) \ Directs(A, i, NDirect)
           L2 == InUse(O) \ (Directs(A, i, NDirect) \cup {ind})
           stored == [c \in 0 .. NIndirect - 1 |-> A[i][NDirect + c]]
<1>1. Ledger(h1, L1) /\ SameFile(g, h1) /\ Keeps(g, h1, L1)
  BY DirectsFreed
<1>2. Tree(M, A, O, g.leaked) /\ M[i] \in INode /\ A[i] \in [BlockNumbers -> MaybeAddress]
      /\ FsTyped(g)
  BY DEF View, Tree, Ledger
<1>3. Ledger(h2, L2) /\ SameFile(g, h2) /\ Keeps(g, h2, L2)
  <2>1. CASE ind = NoAddress
    <3>1. L2 = L1
      BY <2>1, SentinelAssumption DEF InUse
    <3>2. h2 = h1
      BY <2>1 DEF Log_Free
    <3> HIDE DEF L1, L2, h1, h2
    <3> QED
      BY <1>1, <3>1, <3>2
  <2>2. CASE ind # NoAddress
    <3>1. ind \in InUse(O) /\ O[ind] = <<i, INDIRECT_BLOCK>>
      BY <1>2, <2>2, TreeFacts
    <3>2. ind \notin Directs(A, i, NDirect)
      <4> SUFFICES ASSUME NEW b \in 0 .. NDirect - 1, ind = A[i][b] PROVE FALSE
        BY DEF Directs
      <4>1. b \in BlockNumbers /\ b # INDIRECT_BLOCK
        BY GeometryFacts DEF BlockNumbers, maxFileBlocks, INDIRECT_BLOCK
      <4>2. O[ind] = <<i, b>>
        BY <1>2, <2>2, <4>1, TreeFacts
      <4> QED
        BY <3>1, <4>1, <4>2
    <3>3. ind \in L1 /\ L2 = L1 \ {ind}
      BY <3>1, <3>2
    <3> HIDE DEF L1, L2, h1, ind
    <3>4. Ledger(h2, L1 \ {ind}) /\ SameFile(h1, h2) /\ Keeps(h1, h2, L1 \ {ind})
      BY <1>1, <3>3, LedgerFreed DEF ind
    <3> HIDE DEF h2
    <3>5. Keeps(g, h1, L1 \ {ind})
      BY <1>1 DEF Keeps, Unwritten, BlocksIn
    <3>6. Keeps(g, h2, L1 \ {ind})
      BY <3>4, <3>5, KeepsFollows
    <3> QED
      BY <1>1, <3>3, <3>4, <3>6 DEF SameFile
  <2> QED
    BY <2>1, <2>2
<1>4. ReadIndirectBlocks(g, M[i]) = stored /\ stored # Dead
  BY ViewReadsIndirect, SentinelAssumption
<1>5. {stored[b] : b \in DOMAIN stored} \ {NoAddress} = Listed(A, i)
  <2>1. \A x : (\E b \in 0 .. NIndirect - 1 : x = A[i][NDirect + b])
               <=> (\E c \in BlockNumbers : c >= NDirect /\ x = A[i][c])
    BY BlockNumberFacts
  <2> QED
    BY <2>1 DEF Listed
<1> HIDE DEF h1, h2, L2, stored
<1>6. e.fs = Leak(h2, {stored[b] : b \in DOMAIN stored})
  BY <1>4 DEF Emptied, IndirectLeaked, h1, h2
<1>7. FsTyped(h2) /\ Follows(h2, e.fs)
  BY <1>3, <1>6, LeakFollows DEF Ledger
<1>8. /\ e.fs.leaked = h2.leaked \cup Listed(A, i)
      /\ e.fs.media = h2.media /\ e.fs.tail = h2.tail /\ e.fs.live = h2.live
      /\ e.fs.full = h2.full
      /\ e.fs.root = h2.root /\ e.fs.iFileSize = h2.iFileSize
      /\ e.fs.lapses = h2.lapses
  BY <1>5, <1>6, <1>7 DEF Leak, FsTyped, StateFields
<1>9. e.inode = [M[i] EXCEPT !.direct = NoBlocks, !.indirect = NoAddress]
  BY DEF Emptied
<1>10. e.inode \in INode
  BY <1>2, <1>9 DEF INode, NoBlocks, MaybeAddress
<1> HIDE DEF e
<1>11. Ledger(e.fs, L2) /\ Keeps(g, e.fs, L2) /\ SameState(g, e.fs)
       /\ e.fs.leaked = g.leaked \cup Listed(A, i)
  <2>1. \A a : SlotAt(e.fs, a) = SlotAt(h2, a)
    BY <1>8 DEF SlotAt, Slots
  <2>2. FsTyped(e.fs)
    BY <1>7 DEF Follows
  <2>3. Ledger(e.fs, L2)
    BY <1>3, <1>8, <2>2 DEF Ledger
  <2> QED
    BY <1>3, <1>8, <2>1, <2>3 DEF Keeps, Unwritten, SameFile, SameState
<1>12. ASSUME NEW n \in INode, n.inum = i, n.direct = NoBlocks, n.indirect = NoAddress
       PROVE  \E P : View(e.fs, [M EXCEPT ![i] = n], [A EXCEPT ![i] = NoAddresses],
                          [D EXCEPT ![i] = ZeroBlocks], P)
  BY <1>11, <1>12, ViewEmptied DEF L2
<1> QED
  BY <1>7, <1>9, <1>10, <1>11, <1>12 DEF e, Follows

----------------------------------------------------------------------------
(* What the requests make of the files. *)

\* A request on file i was refused, or it kept its promise and left every other
\* file as it was.
Outcome(g, M, D, i, promise, r) ==
    \/ Refused(r.fs)
    \/ /\ r.ret = 0 /\ r.fs.lapses = {}
       /\ g.iFileSize <= r.fs.iFileSize /\ i <= r.fs.iFileSize
       /\ \A j \in INums : j # i /\ j <= r.fs.iFileSize => j <= g.iFileSize
       /\ \E N, B, E, P :
             /\ Settled(r.fs, N, B, E, P)
             /\ \A j \in INums : j # i => N[j] = M[j] /\ E[j] = D[j]
             /\ Stands(N, E, i, promise)

\* The inode of a file that was created before is in hand.
LEMMA InHandAgain ==
    ASSUME NEW g, NEW M, NEW A, NEW D, NEW O, Settled(g, M, A, D, O),
           NEW i \in 1 .. g.iFileSize, NEW h, SameState(g, h),
           NEW n, NEW B, NEW E, NEW P, View(h, [M EXCEPT ![i] = n], B, E, P),
           \A j \in Numbers : j # i => B[j] = A[j] /\ E[j] = D[j],
           Sound([M EXCEPT ![i] = n], B, i, g.iFileSize)
    PROVE  InHand(h, [M EXCEPT ![i] = n], B, E, P, i)
<1> DEFINE N == [M EXCEPT ![i] = n]
           k == g.root.fileSize
<1>1. /\ M \in [Numbers -> INode] /\ 0 \in Numbers /\ i \in INums /\ i \in Numbers
      /\ i # 0 /\ M[0] = g.root /\ k = g.iFileSize /\ k \in Nat /\ i \in Nat
      /\ h.root = g.root /\ h.iFileSize = g.iFileSize
      /\ \A j \in 1 .. k : j \in Numbers
      /\ \A j \in INums : j \in Numbers
  BY SettledFacts, INumFacts DEF SameState
<1>2. Max({k, i}) = k /\ i <= k + 1
  <2>1. i <= k
    BY <1>1
  <2> QED
    BY <1>1, <2>1, MaxOfTwo
<1>3. \A j \in Numbers : j # i => N[j] = M[j]
  BY <1>1
<1>4. ASSUME NEW j \in 1 .. k, j # i PROVE HasEntry(N, B, E, j)
  <2>1. HasEntry(M, A, D, j)
    BY <1>1 DEF Settled
  <2>2. B[0] = A[0] /\ E[0] = D[0] /\ N[j] = M[j]
    BY <1>1, <1>3, <1>4
  <2> HIDE DEF N
  <2> QED
    BY <2>1, <2>2, INumFacts DEF HasEntry
<1>5. ASSUME NEW j \in INums PROVE Sound(N, B, j, g.iFileSize)
  <2>1. CASE j = i
    BY <2>1
  <2>2. CASE j # i
    <3>1. Sound(M, A, j, g.iFileSize)
      BY DEF Settled
    <3>2. N[j] = M[j] /\ B[j] = A[j]
      BY <1>1, <1>3, <2>2
    <3> HIDE DEF N
    <3> QED
      BY <3>1, <3>2 DEF Sound
  <2> QED
    BY <2>1, <2>2
<1>6. N[0] = h.root /\ View(h, N, B, E, P)
  BY <1>1
<1> HIDE DEF N
<1>7. InHand(h, N, B, E, P, i)
  BY <1>1, <1>2, <1>4, <1>5, <1>6, INumFacts DEF InHand
<1> QED
  BY <1>7 DEF N

\* The inode in hand is put back, and the request is done.
LEMMA PutBack ==
    ASSUME NEW g, NEW M, NEW A, NEW D, NEW O, Settled(g, M, A, D, O),
           NEW i \in 1 .. g.iFileSize, NEW h, SameState(g, h), g.lapses = {},
           NEW n, NEW B, NEW E, NEW P, View(h, [M EXCEPT ![i] = n], B, E, P),
           \A j \in Numbers : j # i => B[j] = A[j] /\ E[j] = D[j],
           Sound([M EXCEPT ![i] = n], B, i, g.iFileSize),
           NEW promise, Stands([M EXCEPT ![i] = n], E, i, promise)
    PROVE  Outcome(g, M, D, i, promise, UpdateIFile(h, n))
<1> DEFINE N == [M EXCEPT ![i] = n]
           r == UpdateIFile(h, n)
<1>1. /\ M \in [Numbers -> INode] /\ i \in Numbers /\ i \in INums
      /\ \A j \in INums : j \in Numbers
  BY SettledFacts, INumFacts
<1>2. N[i] = n /\ \A j \in Numbers : j # i => N[j] = M[j]
  BY <1>1
<1>3. h.lapses = {} /\ h.iFileSize = g.iFileSize
  BY DEF SameState
<1>4. InHand(h, N, B, E, P, i)
  BY InHandAgain
<1> HIDE DEF N, r
<1>5. Done(h, P, N, E, h.iFileSize, r)
  BY <1>2, <1>3, <1>4, UpdateIFileDone DEF r
<1>6. CASE Refused(r.fs)
  BY <1>6 DEF Outcome, r
<1>7. CASE ~ Refused(r.fs)
  <2>1. r.ret = 0 /\ r.fs.lapses = {} /\ r.fs.iFileSize = g.iFileSize
    BY <1>3, <1>5, <1>7 DEF Done
  <2>2. PICK N1, B1, E1, P1 : /\ Settled(r.fs, N1, B1, E1, P1)
                              /\ \A j \in INums : N1[j] = N[j] /\ E1[j] = E[j]
    BY <1>5, <1>7 DEF Done
  <2>3. \A j \in INums : j # i => N1[j] = M[j] /\ E1[j] = D[j]
    BY <1>1, <1>2, <2>2
  <2>4. Stands(N1, E1, i, promise)
    <3>1. Stands(N, E, i, promise)
      BY DEF N
    <3> QED
      BY <1>1, <2>2, <3>1 DEF Matches, Stands
  <2>5. /\ g.iFileSize <= r.fs.iFileSize /\ i <= r.fs.iFileSize
        /\ \A j \in INums : j # i /\ j <= r.fs.iFileSize => j <= g.iFileSize
    BY <2>1, SettledFacts
  <2> QED
    BY <2>1, <2>2, <2>3, <2>4, <2>5 DEF Outcome, r
<1> QED
  BY <1>6, <1>7

LEMMA File_WriteDone ==
    ASSUME NEW g, NEW M, NEW A, NEW D, NEW O, Settled(g, M, A, D, O), g.lapses = {},
           NEW i \in 1 .. g.iFileSize, NEW units, Matches(M, D, i, units),
           NEW offset \in Nat, offset <= Len(units),
           NEW buffer \in Seq(Unit), offset + Len(buffer) <= MaxUnits
    PROVE  Outcome(g, M, D, i, Overwritten(units, offset, buffer),
                   File_Write(g, i, offset, buffer))
<1> DEFINE r == File_Write(g, i, offset, buffer)
           w == WriteBlocks(g, M[i], offset, buffer)
           size == M[i].fileSize
           end == offset + Len(buffer)
           promise == Overwritten(units, offset, buffer)
<1>1. /\ View(g, M, A, D, O) /\ FsTyped(g) /\ M \in [Numbers -> INode]
      /\ i \in Numbers /\ M[i] \in INode /\ M[i] # Dead
      /\ i <= g.iFileSize /\ g.iFileSize <= g.iFileSize
      /\ GetINode(g, i) = M[i]
  BY SettledFacts, SettledINode
<1>2. /\ size \in Nat /\ M[i].inUse /\ units = [k \in 1 .. size |-> UnitOf(D[i], k - 1)]
      /\ Len(units) = size /\ offset <= size /\ end \in Nat
      /\ DOMAIN buffer = 1 .. Len(buffer) /\ Len(buffer) \in Nat
  BY <1>1 DEF Matches, INode
<1>3. /\ size <= MaxUnits
      /\ \A u \in 0 .. size - 1 : A[i][u \div BlockSize] # NoAddress
  <2>1. Sound(M, A, i, g.iFileSize)
    BY SettledFacts DEF Settled
  <2> QED
    BY <1>1, <1>2, <2>1 DEF Sound
<1>4. Max({size, end}) = IF size >= end THEN size ELSE end
  BY <1>2, MaxOfTwo
<1>5. promise = [k \in 1 .. Max({size, end}) |->
                   IF k - offset \in DOMAIN buffer THEN buffer[k - offset] ELSE units[k]]
  BY <1>2 DEF Overwritten
<1>6. CASE buffer = <<>>
  <2>1. r.fs = g /\ r.ret = 0
    BY <1>6 DEF File_Write
  <2>2. promise = units
    <3>1. end = offset /\ DOMAIN buffer = {}
      BY <1>6
    <3>2. Max({size, end}) = size
      BY <1>2, <1>4, <3>1
    <3>3. promise = [k \in 1 .. size |-> units[k]]
      BY <1>5, <3>1, <3>2
    <3> HIDE DEF promise
    <3> QED
      BY <1>2, <3>3
  <2>3. Stands(M, D, i, promise)
    BY <2>2 DEF Stands
  <2> HIDE DEF r, promise
  <2> QED
    BY <1>1, <2>1, <2>3 DEF Outcome, r, promise
<1>7. CASE buffer # <<>>
  <2>1. r = FileWritten(w)
    BY <1>1, <1>7 DEF File_Write
  <2>2. BlocksDone(g, M, A, D, O, i, offset, buffer, w)
    <3>1. buffer \in Seq(Stored)
      BY DEF Stored
    <3> QED
      BY <1>1, <1>2, <1>7, <3>1, WriteBlocksDone
  <2>3. AccFollows(g, w)
    BY <1>1, WriteBlocksFollows
  <2> HIDE DEF r, w, promise, end
  <2>4. CASE Refused(w.fs)
    <3>1. FsTyped(w.fs) /\ Follows(w.fs, r.fs)
      BY <2>1, <2>3, UpdateIFileFollows DEF FileWritten, AccFollows, Follows
    <3>2. Refused(r.fs)
      BY <2>4, <3>1, RefusedStays
    <3> QED
      BY <3>2 DEF Outcome, r
  <2>5. CASE ~ Refused(w.fs)
    <3> DEFINE N == [M EXCEPT ![i] = w.inode]
    <3>1. /\ w.ret = 0 /\ SameState(g, w.fs)
          /\ w.inode.inUse = M[i].inUse /\ w.inode.fileSize = Max({size, end})
      BY <2>2, <2>5 DEF BlocksDone, end
    <3>2. PICK B, E, P : /\ View(w.fs, N, B, E, P)
                         /\ Changed(A, D, B, E, i, offset, buffer)
      BY <2>2, <2>5 DEF BlocksDone
    <3>3. r = UpdateIFile(w.fs, w.inode)
      BY <2>1, <3>1 DEF FileWritten
    <3>4. N[i] = w.inode
      BY <1>1
    <3> HIDE DEF N
    <3>5. Sound(N, B, i, g.iFileSize)
      <4>1. Max({size, end}) <= MaxUnits
        BY <1>2, <1>3, <1>4 DEF end
      <4>2. ASSUME NEW u \in 0 .. Max({size, end}) - 1
            PROVE  B[i][u \div BlockSize] # NoAddress
        <5>1. u \in 0 .. MaxUnits - 1 /\ u \in Nat
          BY <1>2, <1>4, <4>1, MaxUnitsFacts
        <5>2. u \in 0 .. size - 1 \/ u - offset + 1 \in 1 .. Len(buffer)
          BY <1>2, <1>4, <4>2 DEF end
        <5>3. A[i][u \div BlockSize] # NoAddress \/ u - offset + 1 \in DOMAIN buffer
          BY <1>2, <1>3, <5>2
        <5> QED
          BY <3>2, <5>1, <5>3 DEF Changed
      <4> QED
        BY <1>1, <1>2, <3>1, <3>4, <4>1, <4>2 DEF Sound
    <3>6. Matches(N, E, i, promise)
      <4>1. ASSUME NEW k \in 1 .. Max({size, end})
            PROVE  (IF k - offset \in DOMAIN buffer THEN buffer[k - offset] ELSE units[k])
                     = UnitOf(E[i], k - 1)
        <5>1. k - 1 \in 0 .. MaxUnits - 1 /\ (k - 1) - offset + 1 = k - offset
          BY <1>2, <1>3, <1>4, MaxUnitsFacts DEF end
        <5>2. UnitOf(E[i], k - 1) = IF k - offset \in DOMAIN buffer
                                    THEN buffer[k - offset] ELSE UnitOf(D[i], k - 1)
          BY <3>2, <5>1 DEF Changed, UnitsWritten
        <5>3. ASSUME k - offset \notin DOMAIN buffer PROVE k \in 1 .. size
          BY <1>2, <1>4, <4>1, <5>3 DEF end
        <5> QED
          BY <1>2, <5>2, <5>3
      <4> DEFINE m == Max({size, end})
      <4> HIDE DEF m
      <4>2. promise = [k \in 1 .. m |-> UnitOf(E[i], k - 1)]
        BY <1>5, <4>1 DEF m, promise
      <4>3. promise \in Seq(Unit)
        <5>1. units \in Seq(Unit)
          BY DEF Matches
        <5> QED
          BY <5>1, OverwrittenTyped DEF promise
      <4> QED
        BY <1>2, <3>1, <3>4, <4>2, <4>3 DEF Matches, m
    <3>7. \A j \in Numbers : j # i => B[j] = A[j] /\ E[j] = D[j]
      BY <3>2 DEF Changed
    <3>8. Outcome(g, M, D, i, promise, UpdateIFile(w.fs, w.inode))
      <4>1. Stands(N, E, i, promise)
        BY <3>6 DEF Stands
      <4> QED
        BY <3>1, <3>2, <3>5, <3>7, <4>1, PutBack DEF N
    <3> QED
      BY <3>3, <3>8 DEF r, promise
  <2> QED
    BY <2>4, <2>5
<1> QED
  BY <1>6, <1>7

LEMMA File_ChmodDone ==
    ASSUME NEW g, NEW M, NEW A, NEW D, NEW O, Settled(g, M, A, D, O), g.lapses = {},
           NEW i \in 1 .. g.iFileSize, NEW units, Matches(M, D, i, units),
           NEW mode \in Modes
    PROVE  Outcome(g, M, D, i, units, File_Chmod(g, i, mode))
<1> DEFINE n == [M[i] EXCEPT !.permissions = mode]
           N == [M EXCEPT ![i] = n]
<1>1. /\ View(g, M, A, D, O) /\ M \in [Numbers -> INode] /\ M[i].inum = i
      /\ i \in Numbers /\ i \in INums /\ M[i] \in INode /\ M[i] # Dead
      /\ GetINode(g, i) = M[i]
  BY SettledFacts, SettledINode
<1>2. File_Chmod(g, i, mode) = UpdateIFile(g, n)
  BY <1>1 DEF File_Chmod
<1>3. /\ n \in INode /\ n.inum = i /\ n.direct = M[i].direct
      /\ n.indirect = M[i].indirect /\ n.inUse = M[i].inUse
      /\ n.fileSize = M[i].fileSize
  BY <1>1 DEF INode
<1> HIDE DEF n
<1>4. View(g, N, A, D, O)
  BY <1>1, <1>3, ViewINode
<1>5. N[i] = n
  BY <1>1
<1>6. Sound(M, A, i, g.iFileSize)
  BY <1>1 DEF Settled
<1> HIDE DEF N
<1>7. Sound(N, A, i, g.iFileSize) /\ Stands(N, D, i, units)
  BY <1>3, <1>5, <1>6 DEF Sound, Matches, Stands
<1>8. SameState(g, g)
  BY DEF SameState
<1>9. Outcome(g, M, D, i, units, UpdateIFile(g, n))
  BY <1>4, <1>7, <1>8, PutBack DEF N
<1> QED
  BY <1>2, <1>9

\* A file in use or not, emptied and put back with no units.
LEMMA EmptiedPutBack ==
    ASSUME NEW g, NEW M, NEW A, NEW D, NEW O, Settled(g, M, A, D, O), g.lapses = {},
           NEW i \in 1 .. g.iFileSize,
           NEW n \in INode, n.inum = i, n.direct = NoBlocks, n.indirect = NoAddress,
           n.inUse => n.fileSize = 0,
           NEW promise, IF n.inUse THEN promise = <<>> ELSE promise = NoFile
    PROVE  Outcome(g, M, D, i, promise, UpdateIFile(Emptied(g, M[i]).fs, n))
<1> DEFINE h == Emptied(g, M[i]).fs
           N == [M EXCEPT ![i] = n]
           B == [A EXCEPT ![i] = NoAddresses]
           E == [D EXCEPT ![i] = ZeroBlocks]
<1>1. /\ View(g, M, A, D, O) /\ M \in [Numbers -> INode]
      /\ A \in [Numbers -> [BlockNumbers -> MaybeAddress]]
      /\ D \in [Numbers -> [BlockNumbers -> FileBlock]]
      /\ i \in Numbers /\ i \in INums
  <2>1. View(g, M, A, D, O) /\ Tree(M, A, O, g.leaked) /\ i \in Numbers /\ i \in INums
    BY SettledFacts
  <2> QED
    BY <2>1 DEF View, Tree, Held
<1>2. SameState(g, h)
  BY <1>1, EmptiedDone
<1>3. PICK P : View(h, N, B, E, P)
  BY <1>1, EmptiedDone
<1>4. N[i] = n /\ B[i] = NoAddresses /\ \A j \in Numbers : j # i => B[j] = A[j] /\ E[j] = D[j]
  BY <1>1
<1> HIDE DEF N, B, E, h
<1>5. \A b \in BlockNumbers : B[i][b] = NoAddress
  BY <1>4 DEF NoAddresses
<1>6. Sound(N, B, i, g.iFileSize)
  <2>1. CASE n.inUse
    <3>1. n.fileSize = 0 /\ 0 <= MaxUnits /\ 0 .. 0 - 1 = {}
      BY <2>1, MaxUnitsFacts
    <3> QED
      BY <1>4, <1>5, <3>1 DEF Sound
  <2>2. CASE ~ n.inUse
    BY <1>4, <1>5, <2>2 DEF Sound
  <2> QED
    BY <2>1, <2>2
<1>7. Stands(N, E, i, promise)
  <2>1. CASE n.inUse
    <3>1. n.fileSize = 0 /\ promise = <<>> /\ <<>> \in Seq(Unit)
      BY <2>1
    <3>2. <<>> = [k \in 1 .. 0 |-> UnitOf(E[i], k - 1)]
      OBVIOUS
    <3> QED
      BY <1>4, <2>1, <3>1, <3>2 DEF Matches, Stands
  <2>2. CASE ~ n.inUse
    BY <1>4, <2>2 DEF Stands
  <2> QED
    BY <2>1, <2>2
<1>8. Outcome(g, M, D, i, promise, UpdateIFile(h, n))
  BY <1>2, <1>3, <1>4, <1>6, <1>7, PutBack DEF N
<1> QED
  BY <1>8 DEF h

LEMMA File_FreeDone ==
    ASSUME NEW g, NEW M, NEW A, NEW D, NEW O, Settled(g, M, A, D, O), g.lapses = {},
           NEW i \in 1 .. g.iFileSize
    PROVE  Outcome(g, M, D, i, NoFile, File_Free(g, i))
<1> DEFINE e == Emptied(g, M[i])
           n == [e.inode EXCEPT !.inUse = FALSE]
           u == UpdateIFile(e.fs, n)
           r == File_Free(g, i)
<1>1. /\ View(g, M, A, D, O) /\ M[i].inum = i
      /\ i \in Numbers /\ M[i] \in INode /\ M[i] # Dead /\ GetINode(g, i) = M[i]
  BY SettledFacts, SettledINode
<1>2. /\ e.inode = [M[i] EXCEPT !.direct = NoBlocks, !.indirect = NoAddress]
      /\ e.inode \in INode
  <2>1. View(g, M, A, D, O) /\ i \in Numbers
    BY <1>1
  <2>2. e.inode = [M[i] EXCEPT !.direct = NoBlocks, !.indirect = NoAddress]
    BY DEF Emptied
  <2> HIDE DEF e
  <2>3. e.inode \in INode
    BY <2>1, EmptiedDone DEF e
  <2> QED
    BY <2>2, <2>3
<1>3. r.fs = u.fs /\ r.ret = 0
  BY <1>1 DEF File_Free
<1> HIDE DEF e, r
<1>4. /\ n \in INode /\ n.inum = i /\ n.direct = NoBlocks /\ n.indirect = NoAddress
      /\ ~ n.inUse
  BY <1>1, <1>2 DEF INode
<1> HIDE DEF n
<1>5. Outcome(g, M, D, i, NoFile, UpdateIFile(e.fs, n))
  BY <1>4, EmptiedPutBack DEF e
<1> HIDE DEF u
<1>6. Outcome(g, M, D, i, NoFile, u)
  BY <1>5 DEF u
<1>7. Outcome(g, M, D, i, NoFile, r)
  BY <1>3, <1>6 DEF Outcome
<1> QED
  BY <1>7 DEF r

LEMMA File_TruncateDone ==
    ASSUME NEW g, NEW M, NEW A, NEW D, NEW O, Settled(g, M, A, D, O), g.lapses = {},
           NEW i \in 1 .. g.iFileSize, NEW units \in Seq(Unit), Matches(M, D, i, units),
           NEW size \in Sizes
    PROVE  Outcome(g, M, D, i, Resized(units, size), File_Truncate(g, i, size))
<1> DEFINE e == Emptied(g, M[i])
           n == [e.inode EXCEPT !.fileSize = 0]
           u == UpdateIFile(e.fs, n)
           buffer == Resized(units, size)
           r == File_Write(u.fs, i, 0, buffer)
<1>1. /\ View(g, M, A, D, O) /\ FsTyped(g) /\ M[i].inum = i
      /\ i \in Numbers /\ M[i] \in INode /\ M[i] # Dead /\ GetINode(g, i) = M[i]
      /\ i \in INums /\ i <= g.iFileSize
  BY SettledFacts, SettledINode
<1>2. M[i].inUse /\ M[i].fileSize \in Nat
      /\ units = [k \in 1 .. M[i].fileSize |-> UnitOf(D[i], k - 1)]
  BY <1>1 DEF Matches, INode
<1>3. ReadUnits(g, M[i], M[i].fileSize) = units
  <2>1. Sound(M, A, i, g.iFileSize)
    BY <1>1 DEF Settled
  <2>2. /\ M[i].fileSize <= MaxUnits
        /\ \A v \in 0 .. M[i].fileSize - 1 : A[i][v \div BlockSize] # NoAddress
    BY <1>1, <1>2, <2>1 DEF Sound
  <2> QED
    BY <1>1, <1>2, <2>2, UnitsRead
<1>4. units # Dead
  BY SentinelAssumption
<1>5. File_Truncate(g, i, size) = r
  BY <1>1, <1>3, <1>4 DEF File_Truncate
<1>6. /\ e.inode = [M[i] EXCEPT !.direct = NoBlocks, !.indirect = NoAddress]
      /\ e.inode \in INode /\ FsTyped(e.fs)
  <2>1. View(g, M, A, D, O) /\ i \in Numbers
    BY <1>1
  <2>2. e.inode = [M[i] EXCEPT !.direct = NoBlocks, !.indirect = NoAddress]
    BY DEF Emptied
  <2> HIDE DEF e
  <2>3. e.inode \in INode /\ FsTyped(e.fs)
    BY <2>1, EmptiedDone DEF e
  <2> QED
    BY <2>2, <2>3
<1> HIDE DEF e, r
<1>7. /\ n \in INode /\ n.inum = i /\ n.direct = NoBlocks /\ n.indirect = NoAddress
      /\ n.inUse /\ n.fileSize = 0
  BY <1>1, <1>2, <1>6 DEF INode
<1> HIDE DEF n
<1>8. Outcome(g, M, D, i, <<>>, UpdateIFile(e.fs, n))
  BY <1>7, EmptiedPutBack DEF e
<1>9. FsTyped(u.fs)
  BY <1>6, UpdateIFileFollows DEF Follows
<1> HIDE DEF u
<1>10. Outcome(g, M, D, i, <<>>, u)
  BY <1>8 DEF u
<1>11. /\ size \in Nat /\ size <= MaxUnits
       /\ buffer \in Seq(Unit) /\ Len(buffer) = size /\ DOMAIN buffer = 1 .. size
  <2>1. size \in Nat /\ size <= MaxUnits
    BY FileAssumption DEF MaxUnits
  <2>2. \A k \in 1 .. size : (IF k <= Len(units) THEN units[k] ELSE Zero) \in Unit
    BY <2>1 DEF Unit
  <2>3. buffer \in [1 .. size -> Unit]
    BY <2>2 DEF Resized
  <2> HIDE DEF buffer
  <2> QED
    BY <2>1, <2>3
<1>12. Overwritten(<<>>, 0, buffer) = buffer
  <2>1. Max({Len(<<>>), 0 + Len(buffer)}) = size
    BY <1>11, MaxOfTwo
  <2>2. buffer = [k \in 1 .. size |-> buffer[k]]
    BY <1>11
  <2>3. \A k \in 1 .. size : k - 0 = k
    BY <1>11
  <2> HIDE DEF buffer
  <2> QED
    BY <1>11, <2>1, <2>2, <2>3 DEF Overwritten
<1> HIDE DEF buffer
<1>13. CASE Refused(u.fs)
  <2>1. Refused(r.fs)
    BY <1>9, <1>13, File_WriteFollows, RefusedStays DEF r
  <2> QED
    BY <1>5, <2>1 DEF Outcome, buffer
<1>14. CASE ~ Refused(u.fs)
  <2>1. /\ u.fs.lapses = {} /\ g.iFileSize <= u.fs.iFileSize /\ i <= u.fs.iFileSize
        /\ \A j \in INums : j # i /\ j <= u.fs.iFileSize => j <= g.iFileSize
    BY <1>10, <1>14 DEF Outcome
  <2>2. PICK N, B, E, P : /\ Settled(u.fs, N, B, E, P)
                          /\ \A j \in INums : j # i => N[j] = M[j] /\ E[j] = D[j]
                          /\ Stands(N, E, i, <<>>)
    BY <1>10, <1>14 DEF Outcome
  <2>3. Matches(N, E, i, <<>>)
    <3>1. <<>> \in Seq(Unit)
      OBVIOUS
    <3> QED
      BY <2>2, <3>1, SentinelAssumption DEF Stands
  <2>4. Outcome(u.fs, N, E, i, buffer, r)
    <3>1. i \in 1 .. u.fs.iFileSize
      BY <2>1, <2>2, SettledFacts
    <3>2. 0 \in Nat /\ 0 <= Len(<<>>) /\ 0 + Len(buffer) <= MaxUnits
      BY <1>11
    <3>3. Outcome(u.fs, N, E, i, Overwritten(<<>>, 0, buffer), File_Write(u.fs, i, 0, buffer))
      BY <1>11, <2>1, <2>2, <2>3, <3>1, <3>2, File_WriteDone
    <3> QED
      BY <1>12, <3>3 DEF r
  <2>5. CASE Refused(r.fs)
    BY <1>5, <2>5 DEF Outcome, buffer
  <2>6. CASE ~ Refused(r.fs)
    <3>1. /\ r.ret = 0 /\ r.fs.lapses = {}
          /\ u.fs.iFileSize <= r.fs.iFileSize /\ i <= r.fs.iFileSize
          /\ \A j \in INums : j # i /\ j <= r.fs.iFileSize => j <= u.fs.iFileSize
      BY <2>4, <2>6 DEF Outcome
    <3>2. PICK N2, B2, E2, P2 : /\ Settled(r.fs, N2, B2, E2, P2)
                                /\ \A j \in INums : j # i => N2[j] = N[j] /\ E2[j] = E[j]
                                /\ Stands(N2, E2, i, buffer)
      BY <2>4, <2>6 DEF Outcome
    <3>3. \A j \in INums : j # i => N2[j] = M[j] /\ E2[j] = D[j]
      BY <2>2, <3>2
    <3>4. g.iFileSize <= r.fs.iFileSize
      <4>1. g.iFileSize \in Nat /\ u.fs.iFileSize \in Nat /\ r.fs.iFileSize \in Nat
        BY <2>2, <3>2, SettledFacts
      <4> QED
        BY <2>1, <3>1, <4>1
    <3>5. \A j \in INums : j # i /\ j <= r.fs.iFileSize => j <= g.iFileSize
      BY <2>1, <3>1
    <3>6. Outcome(g, M, D, i, buffer, r)
      BY <3>1, <3>2, <3>3, <3>4, <3>5 DEF Outcome
    <3> QED
      BY <1>5, <3>6 DEF buffer
  <2> QED
    BY <2>5, <2>6
<1> QED
  BY <1>13, <1>14

\* The new inode of a file that the ifile counts already.
LEMMA File_CreateInHand ==
    ASSUME NEW g, NEW M, NEW A, NEW D, NEW O, Settled(g, M, A, D, O),
           NEW i \in INums, i = GetUnusedINum(g), NEW mode \in Modes
    PROVE  LET count == Max({g.iFileSize, i})
               h == [g EXCEPT !.iFileSize = count]
               n == NewINode(i, mode)
               N == [M EXCEPT ![i] = n]
           IN  /\ File_Create(g, mode) = UpdateIFile(h, n)
               /\ InHand(h, N, A, D, O, i) /\ N[i] = n /\ h.iFileSize = count
               /\ FsTyped(h) /\ h.lapses = g.lapses
               /\ n.inUse /\ n.fileSize = 0
               /\ g.iFileSize <= count /\ i <= count
               /\ \A j \in INums : j <= count /\ j # i => j <= g.iFileSize
               /\ \A j \in INums : j # i => N[j] = M[j]
               /\ \A j \in Numbers : j # i => N[j] = M[j]
<1> DEFINE k == g.iFileSize
           count == Max({k, i})
           h == [g EXCEPT !.iFileSize = count]
           n == NewINode(i, mode)
           N == [M EXCEPT ![i] = n]
<1>1. /\ View(g, M, A, D, O) /\ FsTyped(g) /\ M \in [Numbers -> INode]
      /\ A \in [Numbers -> [BlockNumbers -> MaybeAddress]]
      /\ 0 \in Numbers /\ i \in Numbers /\ i # 0 /\ M[i] \in INode /\ i \in Nat
      /\ k \in INums /\ k \in Nat /\ M[0] = g.root /\ g.root.fileSize = k
      /\ \A j \in INums : j \in Numbers /\ j \in Nat
      /\ \A j \in 1 .. k : j \in INums
      /\ \A j \in Numbers : M[j] # Dead
  <2>1. /\ View(g, M, A, D, O) /\ FsTyped(g) /\ Tree(M, A, O, g.leaked)
        /\ k \in INums /\ k \in Nat /\ M[0] = g.root /\ g.root.fileSize = k
        /\ \A j \in 1 .. k : j \in INums
        /\ \A j \in Numbers : M[j] # Dead
        /\ M \in [Numbers -> INode] /\ 0 \in Numbers
    BY SettledFacts
  <2>2. \A j \in INums : j \in Numbers /\ j \in Nat /\ j # 0
    BY INumFacts
  <2>3. A \in [Numbers -> [BlockNumbers -> MaybeAddress]]
    BY <2>1 DEF Tree
  <2> QED
    BY <2>1, <2>2, <2>3
<1>2. i = k + 1 \/ (i \in 1 .. k /\ ~ M[i].inUse)
  BY SettledUnused
<1>3. M[i].indirect = NoAddress /\ \A b \in BlockNumbers : A[i][b] = NoAddress
  <2>1. Sound(M, A, i, k)
    BY DEF Settled
  <2>2. ~ (i <= k /\ M[i].inUse)
    BY <1>1, <1>2
  <2> QED
    BY <2>1, <2>2 DEF Sound
<1>4. M[i].direct = NoBlocks
  <2>1. \A b \in 0 .. NDirect - 1 : b \in BlockNumbers /\ b < NDirect
    BY GeometryFacts DEF BlockNumbers, maxFileBlocks
  <2>2. \A b \in 0 .. NDirect - 1 : M[i].direct[b] = NoAddress
    BY <1>1, <1>3, <2>1 DEF View, Tree
  <2>3. M[i].direct \in [0 .. NDirect - 1 -> MaybeAddress]
    BY <1>1 DEF INode
  <2> QED
    BY <2>2, <2>3 DEF NoBlocks
<1>5. File_Create(g, mode) = UpdateIFile(h, n)
  <2>1. i <= k => GetINode(g, i) # Dead
    <3> SUFFICES ASSUME i <= k PROVE GetINode(g, i) # Dead
      OBVIOUS
    <3>1. i \in 1 .. k
      BY <1>1, <1>2
    <3> QED
      BY <1>1, <3>1, SettledINode
  <2> QED
    BY <2>1 DEF File_Create, InitNewINode
<1>6. /\ count = (IF k >= i THEN k ELSE i) /\ count \in INums
      /\ k <= count /\ i <= count /\ i <= k + 1
      /\ \A j \in INums : j <= count /\ j # i => j <= k
  BY <1>1, <1>2, MaxOfTwo
<1> HIDE DEF count
<1>7. /\ FsTyped(h) /\ h.media = g.media /\ h.tail = g.tail /\ h.live = g.live
      /\ h.full = g.full /\ h.leaked = g.leaked /\ h.root = g.root /\ h.iFileSize = count
      /\ h.lapses = g.lapses
  BY <1>1, <1>6 DEF FsTyped, StateFields
<1> HIDE DEF h
<1>8. /\ n \in INode /\ n.inum = i /\ n.direct = NoBlocks /\ n.indirect = NoAddress
      /\ n.inUse /\ n.fileSize = 0
  <2>1. NoBlocks \in [0 .. NDirect - 1 -> MaybeAddress] /\ i \in 0 .. MaxINum
    BY <1>1 DEF NoBlocks, MaybeAddress, Numbers
  <2> QED
    BY <2>1 DEF NewINode, INode, MaybeAddress
<1> HIDE DEF n
<1>9. View(h, N, A, D, O)
  <2>1. View(h, M, A, D, O)
    BY <1>1, <1>7, ViewSame, LedgerUncached DEF View
  <2> QED
    BY <1>1, <1>3, <1>4, <1>8, <2>1, ViewINode
<1>10. N[i] = n /\ \A j \in Numbers : j # i => N[j] = M[j]
  BY <1>1
<1> HIDE DEF N
<1>11. InHand(h, N, A, D, O, i)
  <2>1. N[IFILE_INUM] = h.root /\ h.root.fileSize = k
    BY <1>1, <1>7, <1>10 DEF IFILE_INUM
  <2>2. ASSUME NEW j \in 1 .. k, j # i PROVE HasEntry(N, A, D, j)
    <3>1. HasEntry(M, A, D, j)
      BY DEF Settled
    <3> QED
      BY <1>1, <1>10, <2>2, <3>1 DEF HasEntry
  <2>3. ASSUME NEW j \in INums PROVE Sound(N, A, j, count)
    <3>1. CASE j = i
      <4>1. n.fileSize = 0 /\ 0 <= MaxUnits /\ 0 .. 0 - 1 = {}
        BY <1>8, MaxUnitsFacts
      <4> QED
        BY <1>6, <1>8, <1>10, <3>1, <4>1 DEF Sound
    <3>2. CASE j # i
      <4>1. Sound(M, A, j, k)
        BY DEF Settled
      <4>2. N[j] = M[j] /\ j \in Nat /\ (j <= count <=> j <= k)
        <5>1. count \in Nat
          BY <1>1, <1>6
        <5> QED
          BY <1>1, <1>6, <1>10, <3>2, <5>1
      <4> QED
        BY <4>1, <4>2 DEF Sound
    <3> QED
      BY <3>1, <3>2
  <2> QED
    BY <1>6, <1>7, <1>9, <2>1, <2>2, <2>3 DEF InHand, count
<1> QED
  BY <1>1, <1>5, <1>6, <1>7, <1>8, <1>10, <1>11 DEF count, h, n, N

LEMMA File_CreateDone ==
    ASSUME NEW g, NEW M, NEW A, NEW D, NEW O, Settled(g, M, A, D, O), g.lapses = {},
           NEW i \in INums, i = GetUnusedINum(g), NEW mode \in Modes
    PROVE  Outcome(g, M, D, i, <<>>, File_Create(g, mode))
<1> DEFINE count == Max({g.iFileSize, i})
           h == [g EXCEPT !.iFileSize = count]
           n == NewINode(i, mode)
           N == [M EXCEPT ![i] = n]
           r == UpdateIFile(h, n)
<1>1. /\ File_Create(g, mode) = r
      /\ InHand(h, N, A, D, O, i) /\ N[i] = n /\ h.iFileSize = count
      /\ FsTyped(h) /\ h.lapses = g.lapses
      /\ n.inUse /\ n.fileSize = 0
      /\ g.iFileSize <= count /\ i <= count
      /\ \A j \in INums : j <= count /\ j # i => j <= g.iFileSize
      /\ \A j \in INums : j # i => N[j] = M[j]
  BY File_CreateInHand
<1> HIDE DEF count, h, n, N
<1>2. Done(h, O, N, D, count, r)
  <2>1. Done(h, O, N, D, h.iFileSize, UpdateIFile(h, N[i]))
    BY <1>1, UpdateIFileDone
  <2> QED
    BY <1>1, <2>1
<1> HIDE DEF r
<1>3. CASE Refused(r.fs)
  BY <1>1, <1>3 DEF Outcome
<1>4. CASE ~ Refused(r.fs)
  <2>1. r.ret = 0 /\ r.fs.lapses = {} /\ r.fs.iFileSize = count
    BY <1>2, <1>4 DEF Done
  <2>2. PICK N1, B1, E1, P1 : /\ Settled(r.fs, N1, B1, E1, P1)
                              /\ \A j \in INums : N1[j] = N[j] /\ E1[j] = D[j]
    BY <1>2, <1>4 DEF Done
  <2>3. \A j \in INums : j # i => N1[j] = M[j] /\ E1[j] = D[j]
    BY <1>1, <2>2
  <2>4. Stands(N1, E1, i, <<>>)
    <3>1. N1[i].inUse /\ N1[i].fileSize = 0 /\ <<>> \in Seq(Unit)
      BY <1>1, <2>2
    <3>2. <<>> = [v \in 1 .. 0 |-> UnitOf(E1[i], v - 1)]
      OBVIOUS
    <3> QED
      BY <3>1, <3>2 DEF Matches, Stands
  <2>5. Outcome(g, M, D, i, <<>>, r)
    BY <1>1, <2>1, <2>2, <2>3, <2>4 DEF Outcome
  <2> QED
    BY <1>1, <2>5
<1> QED
  BY <1>3, <1>4

----------------------------------------------------------------------------
(* What mklfs leaves. *)

FirstMode  == CHOOSE m \in Modes : TRUE
BlankINode(j) == [NewINode(j, FirstMode) EXCEPT !.inUse = FALSE]
RootINode  ==
    [NewINode(ROOT_DIRECTORY_INUM, FirstMode) EXCEPT
       !.fileSize = BlockSize, !.direct[0] = At(1, 2)]
IFileBlock == [ZeroBlock EXCEPT ![0] = RootINode]

FirstINodes ==
    [j \in Numbers |-> IF j = 0 THEN FirstINode
                       ELSE IF j = 1 THEN RootINode ELSE BlankINode(j)]
FirstAddresses ==
    [j \in Numbers |-> [b \in BlockNumbers |->
       IF b = 0 /\ j = 0 THEN At(1, 1)
       ELSE IF b = 0 /\ j = 1 THEN At(1, 2) ELSE NoAddress]]
FirstBlocks ==
    [j \in Numbers |-> [b \in BlockNumbers |->
       IF b = 0 /\ j = 0 THEN IFileBlock ELSE ZeroBlock]]
FirstOwners ==
    [a \in Address |-> IF a = At(1, 1) THEN <<0, 0>>
                       ELSE IF a = At(1, 2) THEN <<1, 0>> ELSE Nobody]

LEMMA FirstFacts ==
    /\ 0 \in Numbers /\ 1 \in Numbers /\ 1 \in INums /\ 0 \in BlockNumbers
    /\ 0 \in 0 .. NDirect - 1 /\ 0 \in 0 .. BlockSize - 1
    /\ 1 \in DataSegments /\ 1 \in 1 .. SegBlocks /\ 2 \in 1 .. SegBlocks
    /\ SegBlocks \in 1 .. SegBlocks /\ SegBlocks # 1 /\ SegBlocks # 2
    /\ At(1, 1) \in Address /\ At(1, 2) \in Address /\ At(1, 1) # At(1, 2)
    /\ At(1, 1) # NoAddress /\ At(1, 2) # NoAddress
    /\ At(1, 1).seg = 1 /\ At(1, 1).blk = 1 /\ At(1, 2).seg = 1 /\ At(1, 2).blk = 2
<1>1. /\ 0 \in Numbers /\ 1 \in Numbers /\ 1 \in INums /\ 0 \in BlockNumbers
      /\ 0 \in 0 .. NDirect - 1 /\ 0 \in 0 .. BlockSize - 1
      /\ 1 \in DataSegments /\ 1 \in 1 .. SegBlocks /\ 2 \in 1 .. SegBlocks
      /\ SegBlocks \in 1 .. SegBlocks /\ SegBlocks # 1 /\ SegBlocks # 2
  BY GeometryFacts DEF Numbers, INums, BlockNumbers, DataSegments, maxFileBlocks
<1>2. /\ At(1, 1) \in Address /\ At(1, 2) \in Address
      /\ At(1, 1).seg = 1 /\ At(1, 1).blk = 1 /\ At(1, 2).seg = 1 /\ At(1, 2).blk = 2
  BY <1>1, AtIsAddress
<1> QED
  BY <1>1, <1>2, SentinelAssumption

LEMMA FirstINodesTyped ==
    /\ FirstINode \in INode /\ RootINode \in INode
    /\ \A j \in Numbers : BlankINode(j) \in INode
    /\ FirstINode.inum = 0 /\ RootINode.inum = 1
    /\ \A j \in Numbers : BlankINode(j).inum = j
    /\ FirstINode.indirect = NoAddress /\ RootINode.indirect = NoAddress
    /\ \A j \in Numbers : BlankINode(j).indirect = NoAddress /\ ~ BlankINode(j).inUse
    /\ \A b \in 0 .. NDirect - 1 :
          /\ FirstINode.direct[b] = IF b = 0 THEN At(1, 1) ELSE NoAddress
          /\ RootINode.direct[b] = IF b = 0 THEN At(1, 2) ELSE NoAddress
          /\ \A j \in Numbers : BlankINode(j).direct[b] = NoAddress
    /\ FirstINode.fileSize = 1 /\ RootINode.fileSize = BlockSize /\ RootINode.inUse
<1>1. FirstMode \in Modes
  BY FileAssumption DEF FirstMode
<1>2. NoBlocks \in [0 .. NDirect - 1 -> MaybeAddress]
      /\ \A b \in 0 .. NDirect - 1 : NoBlocks[b] = NoAddress
  BY DEF NoBlocks, MaybeAddress
<1> DEFINE d1 == [NoBlocks EXCEPT ![0] = At(1, 1)]
           d2 == [NoBlocks EXCEPT ![0] = At(1, 2)]
<1>3. /\ d1 \in [0 .. NDirect - 1 -> MaybeAddress]
      /\ d2 \in [0 .. NDirect - 1 -> MaybeAddress]
      /\ \A b \in 0 .. NDirect - 1 : /\ d1[b] = IF b = 0 THEN At(1, 1) ELSE NoAddress
                                     /\ d2[b] = IF b = 0 THEN At(1, 2) ELSE NoAddress
  BY <1>2, FirstFacts DEF MaybeAddress
<1> HIDE DEF d1, d2
<1>4. /\ BlockSize \in Nat /\ 0 \in 0 .. MaxINum /\ 1 \in 0 .. MaxINum
      /\ NoAddress \in MaybeAddress
  BY GeometryFacts DEF MaybeAddress
<1>5. ASSUME NEW j \in Numbers
      PROVE  LET n == NewINode(j, FirstMode)
             IN  /\ n \in INode /\ n.inUse /\ n.inum = j /\ n.fileSize = 0
                 /\ n.direct = NoBlocks /\ n.indirect = NoAddress
  BY <1>1, <1>2, <1>4 DEF NewINode, INode, Numbers
<1>6. /\ FirstINode \in INode /\ FirstINode.inum = 0 /\ FirstINode.direct = d1
      /\ FirstINode.indirect = NoAddress /\ FirstINode.fileSize = 1
  <2> DEFINE n == NewINode(0, FirstMode)
  <2>1. /\ n \in INode /\ n.inUse /\ n.inum = 0 /\ n.direct = NoBlocks
        /\ n.indirect = NoAddress
    BY <1>5, FirstFacts
  <2>2. FirstINode = [n EXCEPT !.fileSize = 1, !.direct[0] = At(1, 1)]
    BY DEF FirstINode, FirstMode, IFILE_INUM, At
  <2> HIDE DEF n
  <2> QED
    BY <1>3, <2>1, <2>2 DEF INode, d1
<1>7. /\ RootINode \in INode /\ RootINode.inum = 1 /\ RootINode.direct = d2
      /\ RootINode.indirect = NoAddress /\ RootINode.fileSize = BlockSize
      /\ RootINode.inUse
  <2> DEFINE n == NewINode(1, FirstMode)
  <2>1. /\ n \in INode /\ n.inUse /\ n.inum = 1 /\ n.direct = NoBlocks
        /\ n.indirect = NoAddress
    BY <1>5, FirstFacts
  <2>2. RootINode = [n EXCEPT !.fileSize = BlockSize, !.direct[0] = At(1, 2)]
    BY DEF RootINode, ROOT_DIRECTORY_INUM
  <2> HIDE DEF n
  <2> QED
    BY <1>3, <1>4, <2>1, <2>2 DEF INode, d2
<1>8. ASSUME NEW j \in Numbers
      PROVE  /\ BlankINode(j) \in INode /\ BlankINode(j).inum = j
             /\ BlankINode(j).direct = NoBlocks
             /\ BlankINode(j).indirect = NoAddress /\ ~ BlankINode(j).inUse
  <2> DEFINE n == NewINode(j, FirstMode)
  <2>1. n \in INode /\ n.inum = j /\ n.direct = NoBlocks /\ n.indirect = NoAddress
    BY <1>5
  <2>2. BlankINode(j) = [n EXCEPT !.inUse = FALSE]
    BY DEF BlankINode
  <2> HIDE DEF n
  <2> QED
    BY <2>1, <2>2 DEF INode
<1>9. ASSUME NEW b \in 0 .. NDirect - 1
      PROVE  /\ FirstINode.direct[b] = IF b = 0 THEN At(1, 1) ELSE NoAddress
             /\ RootINode.direct[b] = IF b = 0 THEN At(1, 2) ELSE NoAddress
             /\ \A j \in Numbers : BlankINode(j).direct[b] = NoAddress
  BY <1>2, <1>3, <1>6, <1>7, <1>8
<1> QED
  BY <1>6, <1>7, <1>8, <1>9

LEMMA FirstInUse == InUse(FirstOwners) = {At(1, 1), At(1, 2)}
<1>1. <<0, 0>> # Nobody /\ <<1, 0>> # Nobody
  BY DEF Nobody
<1> QED
  BY <1>1, FirstFacts DEF InUse, FirstOwners

LEMMA FirstSlotFacts ==
    /\ DOMAIN FirstSlots = 1 .. SegBlocks
    /\ FirstSlots[1] = [inum |-> 0, fb |-> 0, data |-> IFileBlock]
    /\ FirstSlots[2] = [inum |-> 1, fb |-> 0, data |-> ZeroBlock]
    /\ FirstSlots[1] # NO_INUM /\ FirstSlots[2] # NO_INUM
    /\ \A b \in 1 .. SegBlocks : b # 1 /\ b # 2 => FirstSlots[b] = NO_INUM
    /\ IFileBlock \in FileBlock
<1>1. FirstSlots = [EmptySlots EXCEPT
        ![1] = [inum |-> 0, fb |-> 0, data |-> IFileBlock],
        ![2] = [inum |-> 1, fb |-> 0, data |-> ZeroBlock]]
  BY DEF FirstSlots, IFileBlock, RootINode, FirstMode, At, IFILE_INUM,
         ROOT_DIRECTORY_INUM
<1>2. IFileBlock \in FileBlock
  BY FirstINodesTyped, FirstFacts DEF IFileBlock, FileBlock, ZeroBlock, Unit
<1>3. /\ [inum |-> 0, fb |-> 0, data |-> IFileBlock] \in SummarySlot
      /\ [inum |-> 1, fb |-> 0, data |-> ZeroBlock] \in SummarySlot
  BY <1>2, ZeroBlockTyped, FirstFacts DEF SummarySlot, Numbers
<1> QED
  BY <1>1, <1>2, <1>3, FirstFacts, SentinelAssumption DEF EmptySlots

LEMMA FirstLedger == Init => Ledger(fs, InUse(FirstOwners))
<1> SUFFICES ASSUME Init PROVE Ledger(fs, InUse(FirstOwners))
  OBVIOUS
<1> DEFINE L == {At(1, 1), At(1, 2)}
<1>1. /\ FsTyped(fs) /\ fs.tail = [seg |-> 1, slots |-> FirstSlots]
      /\ fs.media = [s \in DataSegments |-> IF s = 1 THEN FirstSlots ELSE EmptySlots]
      /\ fs.live = [s \in DataSegments |-> IF s = 1 THEN 2 ELSE 0]
      /\ fs.full = {1} /\ "cached" \notin fs.lapses
  <2>1. PICK keeps \in BOOLEAN : fs = mklfs(keeps)
    BY DEF Init
  <2> QED
    BY <2>1, InitTyped DEF mklfs, FirstUsage, TypeInv
<1>2. L \subseteq Address
  BY FirstFacts
<1>3. ASSUME NEW s \in DataSegments, s # 1 PROVE BlocksIn(L, s) = {}
  <2>1. \A b \in 1 .. SegBlocks : At(s, b) \notin L
    BY <1>3, AtIsAddress, FirstFacts
  <2> QED
    BY <2>1 DEF BlocksIn
<1>4. BlocksIn(L, 1) = {1, 2}
  <2>1. \A b \in 1 .. SegBlocks : At(1, b) \in L <=> b \in {1, 2}
    BY AtIsAddress, FirstFacts
  <2> QED
    BY <2>1, FirstFacts DEF BlocksIn
<1>5. EmptyBlocks(FirstSlots) = (1 .. SegBlocks) \ {1, 2}
  BY FirstSlotFacts, FirstFacts DEF EmptyBlocks
<1> HIDE DEF L
<1>9. Labelled(FirstSlots) /\ Labelled(EmptySlots)
  <2>1. 0 \in Labels
    BY FirstFacts DEF Labels
  <2>2. \A b \in 1 .. SegBlocks : EmptySlots[b] = NO_INUM
    BY DEF EmptySlots
  <2>3. Labelled(FirstSlots)
    BY <2>1, FirstSlotFacts, FirstFacts DEF Labelled
  <2>4. Labelled(EmptySlots)
    BY <2>2 DEF Labelled
  <2> QED
    BY <2>3, <2>4
<1>10. \A a \in L : a.seg = 1
  BY FirstFacts, AtIsAddress DEF L
<1>6. \A s \in DataSegments \ {1} :
         /\ fs.live[s] = Cardinality(BlocksIn(L, s))
         /\ \A b \in BlocksIn(L, s) : fs.media[s][b] # NO_INUM
  <2> SUFFICES ASSUME NEW s \in DataSegments, s # 1
               PROVE  /\ fs.live[s] = Cardinality(BlocksIn(L, s))
                      /\ \A b \in BlocksIn(L, s) : fs.media[s][b] # NO_INUM
    OBVIOUS
  <2>1. BlocksIn(L, s) = {} /\ Cardinality(BlocksIn(L, s)) = 0
    BY <1>3, BlocksInFinite
  <2>2. fs.live[s] = 0
    BY <1>1
  <2> QED
    BY <2>1, <2>2
<1>7. SegBlocks \in EmptyBlocks(FirstSlots)
  BY <1>5, FirstFacts
<1>8. Ledger(fs, L)
  BY <1>1, <1>2, <1>4, <1>5, <1>6, <1>7, <1>9, <1>10, FirstSlotFacts DEF Ledger
<1> QED
  BY <1>8, FirstInUse DEF L

LEMMA FirstTree == Tree(FirstINodes, FirstAddresses, FirstOwners, {})
<1> DEFINE M == FirstINodes
           A == FirstAddresses
           O == FirstOwners
<1>1. /\ M[0] = FirstINode /\ M[1] = RootINode
      /\ \A j \in Numbers : j # 0 /\ j # 1 => M[j] = BlankINode(j)
  BY FirstFacts DEF FirstINodes
<1>2. /\ M \in [Numbers -> INode] /\ \A j \in Numbers : M[j].inum = j
      /\ \A j \in Numbers : M[j].indirect = NoAddress
  BY <1>1, FirstINodesTyped DEF FirstINodes
<1>3. A \in [Numbers -> [BlockNumbers -> MaybeAddress]]
  BY FirstFacts DEF FirstAddresses, MaybeAddress
<1>4. /\ O[At(1, 1)] = <<0, 0>> /\ O[At(1, 2)] = <<1, 0>> /\ DOMAIN O = Address
      /\ \A a \in Address : a # At(1, 1) /\ a # At(1, 2) => O[a] = Nobody
  BY FirstFacts DEF FirstOwners
<1>5. \A j \in Numbers, b \in BlockNumbers :
         A[j][b] = IF b = 0 /\ j = 0 THEN At(1, 1)
                   ELSE IF b = 0 /\ j = 1 THEN At(1, 2) ELSE NoAddress
  BY DEF FirstAddresses
<1> HIDE DEF M, A, O
<1>6. ASSUME NEW j \in Numbers, NEW b \in BlockNumbers
      PROVE  /\ b < NDirect => A[j][b] = M[j].direct[b]
             /\ b >= NDirect => A[j][b] = NoAddress
             /\ A[j][b] # NoAddress => O[A[j][b]] = <<j, b>>
  <2>1. b < NDirect => b \in 0 .. NDirect - 1
    BY GeometryFacts DEF BlockNumbers
  <2>2. b >= NDirect => b # 0
    BY GeometryFacts
  <2>3. CASE j = 0
    BY <1>1, <1>4, <1>5, <2>1, <2>2, <2>3, FirstINodesTyped
  <2>4. CASE j = 1
    BY <1>1, <1>4, <1>5, <2>1, <2>2, <2>4, FirstINodesTyped
  <2>5. CASE j # 0 /\ j # 1
    BY <1>1, <1>5, <2>1, <2>5, FirstINodesTyped
  <2> QED
    BY <2>3, <2>4, <2>5
<1>7. ASSUME NEW a \in Address
      PROVE  O[a] = Nobody \/ \E j \in Numbers, b \in BlockNumbers : A[j][b] = a
  <2>1. CASE a = At(1, 1)
    BY <1>5, <2>1, FirstFacts
  <2>2. CASE a = At(1, 2)
    BY <1>5, <2>2, FirstFacts
  <2> QED
    BY <1>4, <2>1, <2>2
<1>8. Tree(M, A, O, {})
  BY <1>2, <1>3, <1>4, <1>6, <1>7 DEF Tree
<1> QED
  BY <1>8 DEF M, A, O

LEMMA FirstHeld == Init => Held(fs, FirstINodes, FirstAddresses, FirstBlocks)
<1> SUFFICES ASSUME Init PROVE Held(fs, FirstINodes, FirstAddresses, FirstBlocks)
  OBVIOUS
<1>1. fs.tail = [seg |-> 1, slots |-> FirstSlots] /\ "cached" \notin fs.lapses
  BY DEF Init, mklfs
<1>2. /\ SlotAt(fs, At(1, 1)) = [inum |-> 0, fb |-> 0, data |-> IFileBlock]
      /\ SlotAt(fs, At(1, 2)) = [inum |-> 1, fb |-> 0, data |-> ZeroBlock]
  BY <1>1, FirstFacts, FirstSlotFacts DEF SlotAt, Slots
<1>3. FirstBlocks \in [Numbers -> [BlockNumbers -> FileBlock]]
  BY FirstSlotFacts, ZeroBlockTyped DEF FirstBlocks
<1>4. \A j \in Numbers : FirstINodes[j].indirect = NoAddress
  BY FirstINodesTyped DEF FirstINodes
<1>5. ASSUME NEW j \in Numbers, NEW b \in BlockNumbers
      PROVE  /\ FirstAddresses[j][b] = NoAddress => FirstBlocks[j][b] = ZeroBlock
             /\ FirstAddresses[j][b] # NoAddress =>
                  SlotAt(fs, FirstAddresses[j][b])
                    = [inum |-> j, fb |-> b, data |-> FirstBlocks[j][b]]
  <2>1. FirstAddresses[j][b] = IF b = 0 /\ j = 0 THEN At(1, 1)
                               ELSE IF b = 0 /\ j = 1 THEN At(1, 2) ELSE NoAddress
    BY DEF FirstAddresses
  <2>2. FirstBlocks[j][b] = IF b = 0 /\ j = 0 THEN IFileBlock ELSE ZeroBlock
    BY DEF FirstBlocks
  <2> QED
    BY <1>2, <2>1, <2>2, FirstFacts
<1> QED
  BY <1>3, <1>4, <1>5 DEF Held

LEMMA FirstSettled ==
    Init => /\ Settled(fs, FirstINodes, FirstAddresses, FirstBlocks, FirstOwners)
            /\ Matches(FirstINodes, FirstBlocks, 1, [u \in 1 .. BlockSize |-> Zero])
<1> SUFFICES ASSUME Init
             PROVE  /\ Settled(fs, FirstINodes, FirstAddresses, FirstBlocks, FirstOwners)
                    /\ Matches(FirstINodes, FirstBlocks, 1, [u \in 1 .. BlockSize |-> Zero])
  OBVIOUS
<1> DEFINE M == FirstINodes
           A == FirstAddresses
           D == FirstBlocks
<1>1. fs.root = FirstINode /\ fs.iFileSize = 1 /\ fs.leaked = {}
  BY DEF Init, mklfs
<1>2. View(fs, M, A, D, FirstOwners)
  BY <1>1, FirstLedger, FirstTree, FirstHeld DEF View
<1>3. M[0] = FirstINode /\ M[1] = RootINode /\ \A j \in INums : j # 1 => M[j] = BlankINode(j)
  BY FirstFacts, INumFacts DEF FirstINodes, IFILE_INUM
<1>4. /\ A[0][0] = At(1, 1) /\ A[1][0] = At(1, 2)
      /\ \A j \in INums, b \in BlockNumbers : j # 1 => A[j][b] = NoAddress
  BY FirstFacts, INumFacts DEF FirstAddresses, IFILE_INUM
<1>5. D[0][0] = IFileBlock /\ D[1] = [b \in BlockNumbers |-> ZeroBlock]
      /\ IFileBlock[0] = RootINode
  BY FirstFacts DEF FirstBlocks, IFileBlock, ZeroBlock
<1> HIDE DEF M, A, D
<1>6. \A u \in 0 .. BlockSize - 1 : u \div BlockSize = 0 /\ u % BlockSize = u
  <2> SUFFICES ASSUME NEW u \in 0 .. BlockSize - 1
               PROVE  u \div BlockSize = 0 /\ u % BlockSize = u
    OBVIOUS
  <2>1. 0 * BlockSize + u = u
    BY GeometryFacts
  <2> QED
    BY <2>1, DivOfBlock
<1>7. HasEntry(M, A, D, 1)
  <2>1. 1 - 1 = 0 /\ 0 \div BlockSize = 0 /\ 0 % BlockSize = 0
    BY <1>6, FirstFacts
  <2> QED
    BY <1>3, <1>4, <1>5, <2>1, FirstFacts DEF HasEntry, UnitOf, IFILE_INUM
<1>8. ASSUME NEW j \in INums PROVE Sound(M, A, j, 1)
  <2>1. CASE j = 1
    <3>1. BlockSize <= MaxUnits
      <4>1. maxFileBlocks \in Nat /\ 1 <= maxFileBlocks /\ BlockSize \in Nat
        BY GeometryFacts DEF maxFileBlocks
      <4>2. 1 * BlockSize <= maxFileBlocks * BlockSize
        BY <4>1, TimesMonotone
      <4> QED
        BY <4>1, <4>2 DEF MaxUnits
    <3> QED
      BY <1>3, <1>4, <1>6, <2>1, <3>1, FirstINodesTyped, FirstFacts DEF Sound
  <2>2. CASE j # 1
    <3>1. j \in Numbers /\ j \in Nat /\ ~ (j <= 1)
      BY <2>2, GeometryFacts DEF INums, Numbers
    <3> QED
      BY <1>3, <1>4, <2>2, <3>1, FirstINodesTyped DEF Sound
  <2> QED
    BY <2>1, <2>2
<1>9. Settled(fs, M, A, D, FirstOwners)
  BY <1>1, <1>2, <1>3, <1>7, <1>8, FirstINodesTyped DEF Settled, IFILE_INUM
<1>10. Matches(M, D, 1, [u \in 1 .. BlockSize |-> Zero])
  <2>1. ASSUME NEW k \in 1 .. BlockSize PROVE UnitOf(D[1], k - 1) = Zero
    <3>1. k - 1 \in 0 .. BlockSize - 1
      BY GeometryFacts
    <3>2. (k - 1) \div BlockSize = 0 /\ (k - 1) % BlockSize = k - 1
      BY <1>6, <3>1
    <3> QED
      BY <1>5, <3>1, <3>2, FirstFacts DEF UnitOf, ZeroBlock
  <2>2. [u \in 1 .. BlockSize |-> Zero] \in Seq(Unit)
    BY GeometryFacts DEF Unit
  <2> QED
    BY <1>3, <2>1, <2>2, FirstINodesTyped DEF Matches
<1> QED
  BY <1>9, <1>10 DEF M, A, D

----------------------------------------------------------------------------
(* The invariant. *)

LEMMA InitKept == Init => FileInv
<1> SUFFICES ASSUME Init PROVE FileInv
  OBVIOUS
<1>1. Settled(fs, FirstINodes, FirstAddresses, FirstBlocks, FirstOwners)
  BY FirstSettled
<1>2. Promises(fs, FirstINodes, FirstBlocks)
  <2>1. fs.iFileSize = 1
    BY DEF Init, mklfs
  <2>2. contents = [i \in INums |-> IF i = 1 THEN [u \in 1 .. BlockSize |-> Zero]
                                    ELSE NoFile]
    BY DEF Init, ROOT_DIRECTORY_INUM
  <2>3. Matches(FirstINodes, FirstBlocks, 1, [u \in 1 .. BlockSize |-> Zero])
    BY FirstSettled
  <2>4. ASSUME NEW i \in INums, i <= 1 PROVE i = 1
    BY <2>4, GeometryFacts DEF INums
  <2> QED
    BY <2>1, <2>2, <2>3, <2>4, FirstFacts DEF Promises, Stands
<1>3. fs.lapses = {}
  BY DEF Init, mklfs
<1> QED
  BY <1>1, <1>2, <1>3, InitTyped DEF FileInv, FilesKept

\* A request with that outcome keeps what was promised.
LEMMA AnswerKept ==
    ASSUME TypeInv, NEW M, NEW A, NEW D, NEW O, Settled(fs, M, A, D, O),
           Promises(fs, M, D), NEW i \in INums, NEW promise, NEW r,
           Outcome(fs, M, D, i, promise, r), Answer(r, i, promise)
    PROVE  (FilesKept \/ Refused(fs))'
<1>1. fs' = r.fs
  BY DEF Answer
<1>2. CASE Refused(r.fs)
  BY <1>1, <1>2
<1>3. CASE ~ Refused(r.fs)
  <2>1. /\ r.ret = 0 /\ r.fs.lapses = {}
        /\ fs.iFileSize <= r.fs.iFileSize /\ i <= r.fs.iFileSize
        /\ \A j \in INums : j # i /\ j <= r.fs.iFileSize => j <= fs.iFileSize
    BY <1>3 DEF Outcome
  <2>2. PICK N, B, E, P : /\ Settled(r.fs, N, B, E, P)
                          /\ \A j \in INums : j # i => N[j] = M[j] /\ E[j] = D[j]
                          /\ Stands(N, E, i, promise)
    BY <1>3 DEF Outcome
  <2>3. contents' = [contents EXCEPT ![i] = promise] /\ DOMAIN contents = INums
    BY <2>1 DEF Answer, TypeInv, ContentsTyped
  <2>4. ASSUME NEW j \in INums
        PROVE  IF j <= r.fs.iFileSize THEN Stands(N, E, j, contents'[j])
               ELSE contents'[j] = NoFile
    <3>1. CASE j = i
      BY <2>1, <2>2, <2>3, <3>1
    <3>2. CASE j # i
      <4>1. contents'[j] = contents[j]
        BY <2>3, <3>2
      <4>2. j \in Nat /\ fs.iFileSize \in Nat /\ r.fs.iFileSize \in Nat
        BY <2>2, SettledFacts, INumFacts
      <4>3. CASE j <= r.fs.iFileSize
        <5>1. Stands(M, D, j, contents[j])
          BY <2>1, <3>2, <4>3 DEF Promises
        <5>2. Stands(N, E, j, contents[j])
          BY <2>2, <3>2, <5>1 DEF Stands, Matches
        <5> QED
          BY <4>1, <4>3, <5>2
      <4>4. CASE ~ (j <= r.fs.iFileSize)
        <5>1. ~ (j <= fs.iFileSize)
          BY <2>1, <4>2, <4>4
        <5> QED
          BY <4>1, <4>4, <5>1 DEF Promises
      <4> QED
        BY <4>3, <4>4
    <3> QED
      BY <3>1, <3>2
  <2>5. Settled(fs', N, B, E, P)
    BY <1>1, <2>2
  <2>6. \A j \in INums : IF j <= fs'.iFileSize THEN Stands(N, E, j, contents'[j])
                        ELSE contents'[j] = NoFile
    BY <1>1, <2>4
  <2> QED
    BY <1>1, <2>1, <2>5, <2>6 DEF FilesKept, Promises
<1> QED
  BY <1>2, <1>3

LEMMA RequestKept ==
    ASSUME TypeInv, FilesKept, NEW i \in INums, Request(i)
    PROVE  (FilesKept \/ Refused(fs))'
<1>1. PICK M, A, D, O : Settled(fs, M, A, D, O) /\ Promises(fs, M, D)
  BY DEF FilesKept
<1>2. fs.lapses = {}
  BY DEF FilesKept
<1>3. ASSUME i \in Promised
      PROVE  /\ i \in 1 .. fs.iFileSize /\ Matches(M, D, i, contents[i])
             /\ contents[i] \in Seq(Unit)
  <2>1. contents[i] # NoFile /\ contents[i] # Unknown
    BY <1>3 DEF Promised, Files
  <2>2. i <= fs.iFileSize /\ Matches(M, D, i, contents[i])
    BY <1>1, <2>1 DEF Promises, Stands
  <2>3. i \in 1 .. fs.iFileSize
    BY <1>1, <2>2, SettledFacts DEF INums
  <2> QED
    BY <2>2, <2>3 DEF Matches
<1>4. ASSUME i = GetUnusedINum(fs), NEW mode \in Modes, CreateFile(mode)
      PROVE  (FilesKept \/ Refused(fs))'
  <2>1. Outcome(fs, M, D, i, <<>>, File_Create(fs, mode))
    BY <1>1, <1>2, <1>4, File_CreateDone
  <2> QED
    BY <1>1, <1>4, <2>1, AnswerKept DEF CreateFile
<1>5. ASSUME i \in Promised, NEW e \in Extents, NEW d \in Data,
             e[1] <= Len(contents[i]),
             WriteFile(i, e[1], [u \in 1 .. e[2] |-> d])
      PROVE  (FilesKept \/ Refused(fs))'
  <2> DEFINE buffer == [u \in 1 .. e[2] |-> d]
  <2>1. e[1] \in Nat /\ e[2] \in Nat /\ e[1] + e[2] <= MaxUnits
    BY FileAssumption DEF MaxUnits
  <2>2. buffer \in Seq(Unit) /\ Len(buffer) = e[2]
    BY <2>1 DEF Unit
  <2> HIDE DEF buffer
  <2>3. Outcome(fs, M, D, i, Overwritten(contents[i], e[1], buffer),
                File_Write(fs, i, e[1], buffer))
    BY <1>1, <1>2, <1>3, <1>5, <2>1, <2>2, File_WriteDone
  <2> QED
    BY <1>1, <1>5, <2>3, AnswerKept DEF WriteFile, buffer
<1>6. ASSUME i \in Promised, NEW n \in Sizes, TruncateFile(i, n)
      PROVE  (FilesKept \/ Refused(fs))'
  <2>1. Outcome(fs, M, D, i, Resized(contents[i], n), File_Truncate(fs, i, n))
    BY <1>1, <1>2, <1>3, <1>6, File_TruncateDone
  <2> QED
    BY <1>1, <1>6, <2>1, AnswerKept DEF TruncateFile
<1>7. ASSUME i \in Promised, NEW mode \in Modes, ChmodFile(i, mode)
      PROVE  (FilesKept \/ Refused(fs))'
  <2>1. Outcome(fs, M, D, i, contents[i], File_Chmod(fs, i, mode))
    BY <1>1, <1>2, <1>3, <1>7, File_ChmodDone
  <2> QED
    BY <1>1, <1>7, <2>1, AnswerKept DEF ChmodFile
<1>8. ASSUME i \in Promised, FreeFile(i)
      PROVE  (FilesKept \/ Refused(fs))'
  <2>1. Outcome(fs, M, D, i, NoFile, File_Free(fs, i))
    BY <1>1, <1>2, <1>3, <1>8, File_FreeDone
  <2> QED
    BY <1>1, <1>8, <2>1, AnswerKept DEF FreeFile
<1> QED
  BY <1>4, <1>5, <1>6, <1>7, <1>8 DEF Request

LEMMA FileInvInductive == FileInv /\ [Next]_vars => FileInv'
<1> SUFFICES ASSUME FileInv, [Next]_vars PROVE FileInv'
  OBVIOUS
<1>1. CASE Next
  <2>1. fs.lapses = {}
    BY <1>1 DEF Next, Running
  <2>2. FilesKept
    BY <2>1 DEF FileInv, Refused
  <2>3. PICK i \in INums : Request(i)
    BY <1>1 DEF Next
  <2>4. TypeInv'
    BY <2>3, RequestTyped DEF FileInv
  <2>5. (FilesKept \/ Refused(fs))'
    BY <2>2, <2>3, RequestKept DEF FileInv
  <2> QED
    BY <2>4, <2>5 DEF FileInv
<1>2. CASE UNCHANGED vars
  <2>1. fs' = fs /\ contents' = contents
    BY <1>2 DEF vars
  <2>2. TypeInv'
    BY <2>1 DEF FileInv, TypeInv, FsTyped, ContentsTyped, Promised, Files
  <2>3. FilesKept => FilesKept'
    BY <2>1 DEF FilesKept, Promises
  <2>4. Refused(fs) => Refused(fs)'
    BY <2>1
  <2> QED
    BY <2>2, <2>3, <2>4 DEF FileInv
<1> QED
  BY <1>1, <1>2

\* File_Read of a file that a promise stands for.
LEMMA PromiseRead ==
    ASSUME NEW g, NEW M, NEW A, NEW D, NEW O, Settled(g, M, A, D, O),
           NEW i \in 1 .. g.iFileSize, NEW units, Matches(M, D, i, units)
    PROVE  File_Read(g, i) = units
<1>1. /\ View(g, M, A, D, O) /\ i \in Numbers /\ i \in INums /\ M[i] \in INode
      /\ M[i] # Dead /\ GetINode(g, i) = M[i] /\ i <= g.iFileSize
  BY SettledFacts, SettledINode
<1>2. M[i].inUse /\ M[i].fileSize \in Nat
      /\ units = [k \in 1 .. M[i].fileSize |-> UnitOf(D[i], k - 1)]
  BY <1>1 DEF Matches, INode
<1>3. Sound(M, A, i, g.iFileSize)
  BY <1>1 DEF Settled
<1>4. /\ M[i].fileSize <= MaxUnits
      /\ \A v \in 0 .. M[i].fileSize - 1 : A[i][v \div BlockSize] # NoAddress
  BY <1>1, <1>2, <1>3 DEF Sound
<1>5. ReadUnits(g, M[i], M[i].fileSize) = units
  BY <1>1, <1>2, <1>4, UnitsRead
<1> QED
  BY <1>1, <1>2, <1>5 DEF File_Read

\* A file reads as its last requests left it, through all the moves of its
\* blocks, of its inode in the ifile and of the ifile's own inode, which
\* File_Write, File_Truncate and UpdateIFile make.
THEOREM ReadsSeeTheWrites == Spec => []ReadsSeeWrites
<1>1. FileInv => ReadsSeeWrites
  <2> SUFFICES ASSUME FileInv, fs.lapses = {}, NEW i \in Promised
               PROVE  File_Read(fs, i) = contents[i]
    BY DEF ReadsSeeWrites
  <2>1. PICK M, A, D, O : Settled(fs, M, A, D, O) /\ Promises(fs, M, D)
    BY DEF FileInv, FilesKept, Refused
  <2>2. i \in INums /\ contents[i] # NoFile /\ contents[i] # Unknown
    BY DEF Promised, Files
  <2>3. i <= fs.iFileSize /\ Matches(M, D, i, contents[i])
    BY <2>1, <2>2 DEF Promises, Stands
  <2>4. i \in 1 .. fs.iFileSize
    BY <2>1, <2>2, <2>3, SettledFacts DEF INums
  <2> QED
    BY <2>1, <2>3, <2>4, PromiseRead
<1> QED
  BY InitKept, FileInvInductive, <1>1, PTL DEF Spec

\* No request makes the process throw unless the flash refused one before, or
\* refused that one: no read of the file layer meets a block that is gone.
THEOREM OnlyRefusalsTerminate == Spec => []TerminatesOnlyAfterRefusal
<1>1. FileInv => TerminatesOnlyAfterRefusal
  BY DEF FileInv, FilesKept, Refused, TerminatesOnlyAfterRefusal
<1> QED
  BY InitKept, FileInvInductive, <1>1, PTL DEF Spec

\* Log_Free and Log_Write count the live blocks of every segment right: the
\* blocks that files have there, and those File_Truncate and File_Free leak.
THEOREM UsageStaysExact == Spec => []UsageIsExact
<1>1. FileInv => UsageIsExact
  <2> SUFFICES ASSUME FileInv, fs.lapses = {}, NEW s \in DataSegments \ {fs.tail.seg}
               PROVE  fs.live[s]
                        = Cardinality({a \in Reachable(fs) \cup fs.leaked : a.seg = s})
    BY DEF UsageIsExact
  <2>1. PICK M, A, D, O : Settled(fs, M, A, D, O)
    BY DEF FileInv, FilesKept, Refused
  <2> QED
    BY <2>1, SettledUsage
<1> QED
  BY InitKept, FileInvInductive, <1>1, PTL DEF Spec

\* Every block a file has is labelled in its segment's summary with that file
\* and the block's number in it, wherever File_Write put it.
THEOREM SummariesStayRight == Spec => []SummariesNameOwners
<1>1. FileInv => SummariesNameOwners
  <2> SUFFICES ASSUME FileInv, fs.lapses = {}, NEW n \in NamedBlocks(fs)
               PROVE  LET slot == Slots(fs, n[3].seg)[n[3].blk]
                      IN  slot # NO_INUM /\ slot.inum = n[1] /\ slot.fb = n[2]
    BY DEF SummariesNameOwners
  <2>1. PICK M, A, D, O : Settled(fs, M, A, D, O)
    BY DEF FileInv, FilesKept, Refused
  <2> QED
    BY <2>1, SettledSummaries
<1> QED
  BY InitKept, FileInvInductive, <1>1, PTL DEF Spec

----------------------------------------------------------------------------
(* A full flash. *)

\* h has no tail to write to any more, and f differs from it in nothing that a
\* file is read through.
Frozen(h, f) ==
    /\ h.tail.seg = FLASH_FULL /\ FsTyped(f)
    /\ f.media = h.media /\ f.root = h.root /\ f.iFileSize = h.iFileSize
    /\ f.tail.seg = h.tail.seg /\ f.tail.slots = h.tail.slots
    /\ "cached" \notin f.lapses \cup h.lapses

LEMMA FrozenBlocks ==
    ASSUME NEW h, NEW f, Frozen(h, f), NEW inode, NEW b
    PROVE  /\ GetBlockAddress(f, inode, b) = GetBlockAddress(h, inode, b)
           /\ ReadBlock(f, inode, b) = ReadBlock(h, inode, b)
<1>1. \A s : Slots(f, s) = Slots(h, s)
  BY DEF Frozen, Slots
<1>2. \A a : Log_Read(f, a) = Log_Read(h, a)
  BY <1>1 DEF Log_Read
<1>3. ReadIndirectBlocks(f, inode) = ReadIndirectBlocks(h, inode)
  BY <1>2 DEF ReadIndirectBlocks, Understood, Frozen
<1>4. GetBlockAddress(f, inode, b) = GetBlockAddress(h, inode, b)
  BY <1>3 DEF GetBlockAddress
<1> QED
  BY <1>2, <1>4 DEF ReadBlock, Fetch

LEMMA FrozenUnits ==
    ASSUME NEW h, NEW f, Frozen(h, f), NEW inode, NEW length
    PROVE  ReadUnits(f, inode, length) = ReadUnits(h, inode, length)
<1> DEFINE blocks == {i \div BlockSize : i \in 0 .. length - 1}
           Missing(g, b) == \/ GetBlockAddress(g, inode, b) = NoAddress
                            \/ ReadBlock(g, inode, b) = Dead
           block(g) == [b \in blocks |-> ReadBlock(g, inode, b)]
           Units(g) == [i \in 1 .. length |->
                          block(g)[(i - 1) \div BlockSize][(i - 1) % BlockSize]]
<1>1. \A b : Missing(f, b) <=> Missing(h, b)
  BY FrozenBlocks
<1>2. block(f) = block(h)
  BY FrozenBlocks
<1>3. Units(f) = Units(h)
  <2> HIDE DEF block
  <2> QED
    BY <1>2
<1>4. \A g : ReadUnits(g, inode, length)
               = IF \E b \in blocks : Missing(g, b) THEN Dead ELSE Units(g)
  BY DEF ReadUnits
<1> HIDE DEF Units, Missing, blocks
<1> QED
  BY <1>1, <1>3, <1>4

LEMMA FrozenINode ==
    ASSUME NEW h, NEW f, Frozen(h, f), NEW i
    PROVE  GetINode(f, i) = GetINode(h, i)
<1> DEFINE b == (i - 1) \div BlockSize
<1>1. f.root = h.root /\ f.iFileSize = h.iFileSize
  BY DEF Frozen
<1>2. /\ GetBlockAddress(f, h.root, b) = GetBlockAddress(h, h.root, b)
      /\ ReadBlock(f, h.root, b) = ReadBlock(h, h.root, b)
  BY FrozenBlocks
<1>3. \A v : Understood(f, v, INode) = v /\ Understood(h, v, INode) = v
  BY DEF Understood, Frozen
<1> HIDE DEF b
<1>4. \A g : GetINode(g, i) =
        CASE i > g.iFileSize -> Dead
          [] i = IFILE_INUM  -> g.root
          [] OTHER ->
               IF GetBlockAddress(g, g.root, b) = NoAddress \/ ReadBlock(g, g.root, b) = Dead
               THEN Dead
               ELSE IF i > g.root.fileSize THEN ZeroINode
               ELSE Understood(g, ReadBlock(g, g.root, b)[(i - 1) % BlockSize], INode)
  BY DEF GetINode, b
<1> QED
  BY <1>1, <1>2, <1>3, <1>4

LEMMA FrozenRead ==
    ASSUME NEW h, NEW f, Frozen(h, f), NEW i
    PROVE  File_Read(f, i) = File_Read(h, i)
BY FrozenINode, FrozenUnits DEF File_Read

\* What the log still does: blocks are freed on flash, and writes refused.
LEMMA FreeFrozen ==
    ASSUME NEW h, NEW f, Frozen(h, f), NEW a \in MaybeAddress
    PROVE  Frozen(h, Log_Free(f, a))
<1>1. CASE a = NoAddress
  BY <1>1 DEF Log_Free
<1>2. CASE a # NoAddress
  <2> DEFINE k == Log_Free(f, a)
  <2>1. a.seg # f.tail.seg
    BY <1>2, AddressParts, GeometryFacts DEF Frozen, MaybeAddress
  <2>2. FsTyped(f) /\ FsTyped(k)
    BY Log_FreeFollows DEF Frozen, Follows
  <2>3. /\ k.media = f.media /\ k.root = f.root /\ k.iFileSize = f.iFileSize
        /\ k.tail.seg = f.tail.seg /\ k.tail.slots = f.tail.slots
        /\ k.lapses = f.lapses
    BY <1>2, <2>1, <2>2 DEF Log_Free, FsTyped, StateFields
  <2> HIDE DEF k
  <2>4. Frozen(h, k)
    BY <2>2, <2>3 DEF Frozen
  <2> QED
    BY <2>4 DEF k
<1> QED
  BY <1>1, <1>2

LEMMA RefusedFrozen ==
    ASSUME NEW h, NEW f, Frozen(h, f), NEW inum, NEW fileBlock, NEW data
    PROVE  /\ Log_Write(f, inum, fileBlock, data).ret = 1
           /\ Frozen(h, Log_Write(f, inum, fileBlock, data).fs)
<1>1. f.tail.seg = FLASH_FULL /\ FsTyped(f)
  BY DEF Frozen
<1>2. Log_Write(f, inum, fileBlock, data)
        = [fs |-> Lapse(f, "full"), ret |-> 1, addr |-> NoAddress]
  BY <1>1 DEF Log_Write
<1>3. FsTyped(Lapse(f, "full"))
  BY <1>1, LapseFollows DEF Follows
<1>4. Frozen(h, Lapse(f, "full"))
  BY <1>1, <1>3 DEF Frozen, Lapse, FsTyped, StateFields
<1> QED
  BY <1>2, <1>4

\* The first turn of a loop ends it.
LEMMA TurnFrozen ==
    ASSUME NEW h, NEW M, NEW A, NEW D, NEW O, View(h, M, A, D, O),
           NEW i \in Numbers, NEW b \in BlockNumbers, NEW offset, NEW buffer,
           NEW acc, Frozen(h, acc.fs), acc.inode = M[i], acc.ret = 0
    PROVE  /\ Frozen(h, WriteFileBlock(acc, b, offset, buffer).fs)
           /\ WriteFileBlock(acc, b, offset, buffer).ret = 1
<1> DEFINE g == Log_Free(acc.fs, A[i][b])
           w == Log_Write(g, M[i].inum, b, Merged(D[i][b], b, offset, buffer))
<1>1. /\ GetBlockAddress(acc.fs, M[i], b) = A[i][b]
      /\ ReadBlock(acc.fs, M[i], b) = D[i][b] /\ D[i][b] # Dead
  BY FrozenBlocks, ViewReadsBlock
<1>2. A[i][b] \in MaybeAddress
  BY DEF View, Tree
<1>3. w.ret = 1 /\ Frozen(h, w.fs)
  <2>1. Frozen(h, g)
    BY <1>2, FreeFrozen
  <2> HIDE DEF g
  <2> QED
    BY <2>1, RefusedFrozen
<1>4. WriteFileBlock(acc, b, offset, buffer) = BlockWritten(w, M[i], b)
  BY <1>1 DEF WriteFileBlock, ReplaceBlock
<1> HIDE DEF w
<1> QED
  BY <1>3, <1>4 DEF BlockWritten

LEMMA LoopFrozen ==
    ASSUME NEW h, NEW M, NEW A, NEW D, NEW O, View(h, M, A, D, O),
           NEW i \in Numbers, NEW first \in BlockNumbers, NEW last \in BlockNumbers,
           first <= last, NEW offset, NEW buffer,
           NEW f, Frozen(h, f)
    PROVE  LET w == WriteFileBlocks([fs |-> f, inode |-> M[i], ret |-> 0],
                                    first, last, offset, buffer)
           IN  Frozen(h, w.fs) /\ w.ret = 1
<1> DEFINE start == [fs |-> f, inode |-> M[i], ret |-> 0]
           Turn(before, n) ==
             IF first + n - 1 > last THEN before
             ELSE WriteFileBlock(before, first + n - 1, offset, buffer)
<1>0. first \in Nat /\ last \in Nat /\ maxFileBlocks \in Nat /\ first < maxFileBlocks
  BY GeometryFacts DEF BlockNumbers
<1>1. PICK turn :
         /\ turn[0] = start
         /\ \A n \in 1 .. maxFileBlocks : turn[n] = Turn(turn[n - 1], n)
         /\ WriteFileBlocks(start, first, last, offset, buffer) = turn[maxFileBlocks]
  BY WriteFileBlocksTurns
<1> DEFINE Ended(k) == Frozen(h, turn[k].fs) /\ turn[k].ret = 1
           Good == {k \in Nat : k + 1 <= maxFileBlocks => Ended(k + 1)}
<1>2. Ended(1)
  <2>1. turn[1] = WriteFileBlock(start, first, offset, buffer)
    <3>1. 1 \in 1 .. maxFileBlocks /\ 1 - 1 = 0 /\ first + 1 - 1 = first /\ ~ (first > last)
      BY <1>0
    <3> HIDE DEF start
    <3> QED
      BY <1>1, <3>1
  <2>2. start.fs = f /\ start.inode = M[i] /\ start.ret = 0
    OBVIOUS
  <2> HIDE DEF start
  <2> QED
    BY <2>1, <2>2, TurnFrozen
<1>3. ASSUME NEW k \in Nat, k \in Good PROVE k + 1 \in Good
  <2>1. CASE (k + 1) + 1 <= maxFileBlocks
    <3>1. Ended(k + 1)
      BY <1>0, <1>3, <2>1
    <3>2. turn[(k + 1) + 1] = Turn(turn[k + 1], (k + 1) + 1)
      BY <1>0, <1>1, <2>1
    <3>3. turn[(k + 1) + 1] = turn[k + 1]
      BY <3>1, <3>2 DEF WriteFileBlock
    <3> QED
      BY <3>1, <3>3
  <2> QED
    BY <2>1
<1>4. maxFileBlocks - 1 \in Good
  <2>1. 0 \in Good
    BY <1>2
  <2>2. maxFileBlocks - 1 \in Nat
    BY <1>0
  <2> HIDE DEF Good
  <2> QED
    BY <1>3, <2>1, <2>2, InductionOnSets
<1>5. Ended(maxFileBlocks)
  BY <1>0, <1>4
<1> QED
  BY <1>1, <1>5

\* So does every write.
LEMMA WriteBlocksFrozen ==
    ASSUME NEW h, NEW M, NEW A, NEW D, NEW O, View(h, M, A, D, O),
           NEW i \in Numbers, NEW offset \in Nat, NEW buffer \in Seq(Stored),
           buffer # <<>>, offset + Len(buffer) <= MaxUnits,
           NEW f, Frozen(h, f)
    PROVE  /\ Frozen(h, WriteBlocks(f, M[i], offset, buffer).fs)
           /\ WriteBlocks(f, M[i], offset, buffer).ret = 1
<1> DEFINE first == offset \div BlockSize
           end   == offset + Len(buffer) - 1
           last  == end \div BlockSize
           size  == Max({M[i].fileSize, offset + Len(buffer)})
           start == [fs |-> f, inode |-> M[i], ret |-> 0]
           w     == WriteFileBlocks(start, first, last, offset, buffer)
<1>0. Len(buffer) \in Nat \ {0} /\ end \in Nat /\ offset <= end /\ end < MaxUnits
  BY MaxUnitsFacts
<1>1. first \in BlockNumbers /\ last \in BlockNumbers /\ first <= last
  <2>1. first \in BlockNumbers /\ last \in BlockNumbers
    BY <1>0, BlockOfUnit, MaxUnitsFacts
  <2> QED
    BY <1>0, <2>1, DivMonotone, GeometryFacts
<1>2. Frozen(h, w.fs) /\ w.ret = 1
  <2> HIDE DEF first, last
  <2> QED
    BY <1>1, LoopFrozen
<1>3. DOMAIN w = {"fs", "inode", "ret"}
  <2>1. AccFollows(start.fs, start)
    BY DEF AccFollows, Follows, Frozen
  <2> HIDE DEF start, first, last
  <2> QED
    BY <2>1, WriteFileBlocksFollows DEF AccFollows
<1>4. CASE offset > M[i].fileSize
  BY <1>4 DEF WriteBlocks
<1>5. CASE ~ (offset > M[i].fileSize)
  <2>1. WriteBlocks(f, M[i], offset, buffer) = [w EXCEPT !.inode.fileSize = size]
    BY <1>5 DEF WriteBlocks
  <2> HIDE DEF w, size
  <2> QED
    BY <1>2, <1>3, <2>1
<1> QED
  BY <1>4, <1>5

LEMMA File_WriteFrozen ==
    ASSUME NEW h, NEW M, NEW A, NEW D, NEW O, Settled(h, M, A, D, O),
           NEW i \in 1 .. h.iFileSize, NEW offset \in Nat, NEW buffer \in Seq(Unit),
           offset + Len(buffer) <= MaxUnits,
           NEW f, Frozen(h, f)
    PROVE  Frozen(h, File_Write(f, i, offset, buffer).fs)
<1> DEFINE w == WriteBlocks(f, M[i], offset, buffer)
<1>1. View(h, M, A, D, O) /\ i \in Numbers /\ M[i] # Dead /\ GetINode(f, i) = M[i]
  BY SettledFacts, SettledINode, FrozenINode
<1>2. CASE buffer = <<>>
  BY <1>2 DEF File_Write
<1>3. CASE buffer # <<>>
  <2>1. w.ret = 1 /\ Frozen(h, w.fs)
    <3>1. buffer \in Seq(Stored)
      BY DEF Stored
    <3> QED
      BY <1>1, <1>3, <3>1, WriteBlocksFrozen
  <2> HIDE DEF w
  <2>2. File_Write(f, i, offset, buffer) = FileWritten(w)
    BY <1>1, <1>3 DEF File_Write, w
  <2> QED
    BY <2>1, <2>2 DEF FileWritten
<1> QED
  BY <1>2, <1>3

----------------------------------------------------------------------------
(* How the flash comes to be full. *)

\* A block is refused for want of a tail only when there was none.
LEMMA Log_WriteLapses ==
    ASSUME NEW g, FsTyped(g), g.lapses = {}, NEW inum, NEW fileBlock, NEW data
    PROVE  LET w == Log_Write(g, inum, fileBlock, data)
           IN  /\ w.ret = 0 => w.fs.lapses \in {{}, {"cached"}}
               /\ g.tail.seg # FLASH_FULL => "full" \notin w.fs.lapses
<1> DEFINE free == EmptyBlocks(g.tail.slots)
           e    == Min(free)
           slot == [inum |-> inum, fb |-> fileBlock, data |-> data]
           k    == [g EXCEPT !.tail.slots[e] = slot]
           w    == Log_Write(g, inum, fileBlock, data)
<1>1. CASE g.tail.seg = FLASH_FULL
  BY <1>1 DEF Log_Write
<1>2. CASE g.tail.seg # FLASH_FULL /\ free = {}
  <2>1. w = [fs |-> Throw(g), ret |-> 1, addr |-> NoAddress]
    BY <1>2 DEF Log_Write
  <2>2. Throw(g).lapses = {"terminated"}
    BY DEF Throw, Lapse, FsTyped, StateFields
  <2> QED
    BY <2>1, <2>2
<1>3. CASE g.tail.seg # FLASH_FULL /\ free # {}
  <2>1. w.fs = Place(g, e, slot).fs /\ w.ret = Place(g, e, slot).ret
    BY <1>3 DEF Log_Write, WithAddress
  <2>2. DOMAIN k = StateFields /\ k.lapses = {}
    BY DEF FsTyped, StateFields
  <2> HIDE DEF k
  <2>3. DOMAIN Recounted(k) = StateFields /\ Recounted(k).lapses = {}
    BY <2>2 DEF Recounted, StateFields
  <2>4. DOMAIN NextTail(Recounted(k)) = StateFields /\ NextTail(Recounted(k)).lapses = {}
    BY <2>3 DEF NextTail, StateFields
  <2>9. /\ DOMAIN Reused(NextTail(Recounted(k))) = StateFields
        /\ Reused(NextTail(Recounted(k))).lapses \in {{}, {"cached"}}
    BY <2>4 DEF Reused, Lapse, StateFields
  <2>5. CheckpointIfDue(Reused(NextTail(Recounted(k)))).lapses \in {{}, {"cached"}}
    BY <2>9 DEF CheckpointIfDue, CheckpointNow, StateFields
  <2>6. Lapse(Recounted(k), "dirty").lapses = {"dirty"}
    BY <2>3 DEF Lapse, StateFields
  <2>7. \/ WriteTail(k).ret = 0 /\ WriteTail(k).fs.lapses \in {{}, {"cached"}}
        \/ WriteTail(k).ret = 1 /\ WriteTail(k).fs.lapses = {"dirty"}
    BY <2>5, <2>6 DEF WriteTail
  <2>8. \/ Place(g, e, slot) = WriteTail(k)
        \/ Place(g, e, slot) = [fs |-> k, ret |-> 0]
    BY DEF Place, k
  <2> HIDE DEF w, e, slot
  <2> QED
    BY <2>1, <2>2, <2>7, <2>8 DEF w
<1> QED
  BY <1>1, <1>2, <1>3

\* A turn of File_Write's loop meets a full flash, and nothing worse, only when
\* there was no tail before it.
LEMMA TurnFills ==
    ASSUME NEW acc, AccFollows(acc.fs, acc), acc.fs.lapses = {}, NEW b, NEW offset,
           NEW buffer, WriteFileBlock(acc, b, offset, buffer).fs.lapses = {"full"}
    PROVE  acc.fs.tail.seg = FLASH_FULL
<1> DEFINE r    == WriteFileBlock(acc, b, offset, buffer)
           data == ReadBlock(acc.fs, acc.inode, b)
           a    == GetBlockAddress(acc.fs, acc.inode, b)
           g    == Log_Free(acc.fs, a)
           w    == Log_Write(g, acc.inode.inum, b, Merged(data, b, offset, buffer))
           u    == UpdateINodeBlock(w.fs, acc.inode, b, w.addr)
<1>1. FsTyped(acc.fs) /\ DOMAIN acc = {"fs", "inode", "ret"}
  BY DEF AccFollows, Follows
<1>2. acc.ret = 0 /\ data # Dead
  <2>1. r # acc
    BY DEF r
  <2>2. acc.ret = 0
    BY <2>1 DEF WriteFileBlock
  <2>3. ASSUME data = Dead PROVE FALSE
    <3>1. r.fs = Throw(acc.fs)
      BY <1>1, <2>2, <2>3 DEF WriteFileBlock, ReplaceBlock
    <3>2. "terminated" \in r.fs.lapses
      BY <1>1, <3>1 DEF Throw, Lapse, FsTyped, StateFields
    <3> QED
      BY <3>2 DEF r
  <2> QED
    BY <2>2, <2>3
<1>3. r = BlockWritten(w, acc.inode, b)
  BY <1>2 DEF WriteFileBlock, ReplaceBlock
<1>4. FsTyped(g) /\ g.lapses = {} /\ g.tail.seg = acc.fs.tail.seg
  <2>1. FsTyped(g)
    BY <1>1, Log_FreeFollows DEF Follows
  <2> HIDE DEF a
  <2>2. g.lapses = {} /\ g.tail.seg = acc.fs.tail.seg
    BY <1>1 DEF Log_Free, FsTyped, StateFields
  <2> QED
    BY <2>1, <2>2
<1> HIDE DEF g
<1>5. /\ w.ret = 0 => w.fs.lapses \in {{}, {"cached"}}
      /\ g.tail.seg # FLASH_FULL => "full" \notin w.fs.lapses
      /\ FsTyped(w.fs)
  BY <1>4, Log_WriteLapses, Log_WriteFollows DEF Follows
<1> HIDE DEF w
<1>6. CASE w.ret # 0
  <2>1. r.fs = w.fs
    BY <1>3, <1>6 DEF BlockWritten
  <2> QED
    BY <1>4, <1>5, <2>1 DEF r
<1>7. CASE w.ret = 0
  <2>1. r = Unchecked(u)
    BY <1>3, <1>7 DEF BlockWritten
  <2>2. Follows(w.fs, u.fs) /\ FsTyped(u.fs) /\ Follows(u.fs, Lapse(u.fs, "indirect"))
    <3>1. Follows(w.fs, u.fs) /\ FsTyped(u.fs)
      BY <1>5, UpdateINodeBlockFollows DEF AccFollows, Follows
    <3> QED
      BY <3>1, LapseFollows
  <2>6. w.fs.lapses = {}
    <3>1. r.fs \in {u.fs, Lapse(u.fs, "indirect")}
      BY <2>1 DEF Unchecked
    <3>2. "cached" \notin r.fs.lapses
      BY DEF r
    <3> QED
      BY <1>5, <1>7, <2>2, <3>1, <3>2 DEF Follows
  <2>3. u.ret = 0 => u.fs.lapses \in {{}, {"cached"}}
    <3>1. ASSUME NEW f, FsTyped(f), f.lapses = {}, NEW k
          PROVE  LET v == WriteIndirectBlocks(f, acc.inode, k)
                 IN  v.ret = 0 => v.fs.lapses \in {{}, {"cached"}}
      <4> DEFINE num == IF acc.inode.indirect = NoAddress THEN INDIRECT_BLOCK
                        ELSE acc.inode.indirect.blk
                 x == Log_Write(f, acc.inode.inum, num, k)
      <4>1. x.ret = 0 => x.fs.lapses \in {{}, {"cached"}}
        BY <3>1, Log_WriteLapses
      <4>2. FsTyped(x.fs)
        BY <3>1, Log_WriteFollows DEF Follows
      <4>3. WriteIndirectBlocks(f, acc.inode, k) = IndirectWritten(x, acc.inode)
        BY DEF WriteIndirectBlocks
      <4> HIDE DEF x
      <4> QED
        BY <4>1, <4>2, <4>3 DEF IndirectWritten, Leak, FsTyped, StateFields
    <3> QED
      BY <1>5, <2>6, <3>1 DEF UpdateINodeBlock
  <2> HIDE DEF u
  <2>4. CASE u.ret # 0
    <3>1. "indirect" \in r.fs.lapses
      BY <2>1, <2>2, <2>4 DEF Unchecked, Lapse, FsTyped, StateFields
    <3> QED
      BY <3>1 DEF r
  <2>5. CASE u.ret = 0
    <3>1. r.fs = u.fs
      BY <2>1, <2>5 DEF Unchecked
    <3> QED
      BY <2>3, <2>5, <3>1 DEF r
  <2> QED
    BY <2>4, <2>5
<1> QED
  BY <1>6, <1>7

\* The flash was found full at a point h of a request on file i, where every other
\* file and the ifile were as before, and nothing was read anew since.
OthersKept(g, M, A, D, i, f) ==
    \E h, N, B, E, P :
       /\ View(h, N, B, E, P) /\ Frozen(h, f)
       /\ h.root = g.root /\ g.iFileSize <= h.iFileSize
       /\ \A j \in Numbers : j # i => N[j] = M[j] /\ B[j] = A[j] /\ E[j] = D[j]

LEMMA LapsesGrow ==
    ASSUME NEW g, NEW h, Follows(g, h), h.lapses = {"full"}
    PROVE  g.lapses = {} \/ g.lapses = {"full"}
BY DEF Follows

LEMMA LoopStuck ==
    ASSUME NEW g, NEW M, NEW A, NEW D, NEW O, View(g, M, A, D, O), g.lapses = {},
           NEW i \in Numbers, NEW first \in BlockNumbers, NEW last \in BlockNumbers,
           NEW offset, NEW buffer,
           \A k \in DOMAIN buffer : buffer[k] \in Stored
    PROVE  LET w == WriteFileBlocks([fs |-> g, inode |-> M[i], ret |-> 0],
                                    first, last, offset, buffer)
           IN  w.fs.lapses = {"full"} =>
                  /\ w.ret = 1 /\ OthersKept(g, M, A, D, i, w.fs)
                  /\ first = last => Frozen(g, w.fs)
<1> DEFINE start == [fs |-> g, inode |-> M[i], ret |-> 0]
<1>0. /\ first \in Nat /\ last \in Nat /\ maxFileBlocks \in Nat
      /\ M \in [Numbers -> INode] /\ D \in [Numbers -> [BlockNumbers -> FileBlock]]
      /\ A \in [Numbers -> [BlockNumbers -> MaybeAddress]] /\ FsTyped(g)
      /\ g.iFileSize \in Nat
  <2>1. first \in Nat /\ last \in Nat /\ maxFileBlocks \in Nat
    BY GeometryFacts DEF BlockNumbers
  <2>2. /\ M \in [Numbers -> INode] /\ D \in [Numbers -> [BlockNumbers -> FileBlock]]
        /\ A \in [Numbers -> [BlockNumbers -> MaybeAddress]]
    BY DEF View, Tree, Held
  <2>3. FsTyped(g)
    BY DEF View, Ledger
  <2>4. g.iFileSize \in Nat
    BY <2>3, GeometryFacts DEF FsTyped
  <2> QED
    BY <2>1, <2>2, <2>3, <2>4
<1>1. PICK turn :
         /\ turn[0] = start
         /\ \A n \in 1 .. maxFileBlocks :
               turn[n] = IF first + n - 1 > last THEN turn[n - 1]
                         ELSE WriteFileBlock(turn[n - 1], first + n - 1, offset, buffer)
         /\ WriteFileBlocks(start, first, last, offset, buffer) = turn[maxFileBlocks]
         /\ \A k \in 0 .. maxFileBlocks :
               /\ AccFollows(turn[k].fs, turn[k])
               /\ LoopDone(g, M, A, D, O, i, Until(first, last, k), offset, buffer, turn[k])
  BY LoopTurns
<1> DEFINE Stuck(k) == turn[k].fs.lapses = {"full"} =>
                          /\ turn[k].ret = 1 /\ OthersKept(g, M, A, D, i, turn[k].fs)
                          /\ first = last => Frozen(g, turn[k].fs)
           Good == {k \in Nat : k <= maxFileBlocks => Stuck(k)}
<1>2. 0 \in Good
  BY <1>1
<1>3. ASSUME NEW k \in Nat, k + 1 <= maxFileBlocks, Stuck(k) PROVE Stuck(k + 1)
  <2> DEFINE acc == turn[k]
             b   == first + k
  <2>1. /\ k \in 0 .. maxFileBlocks /\ (k + 1) - 1 = k /\ first + (k + 1) - 1 = b
        /\ k + 1 \in 1 .. maxFileBlocks /\ b \in Nat
    BY <1>0, <1>3
  <2>2. /\ turn[k + 1] = IF b > last THEN acc ELSE WriteFileBlock(acc, b, offset, buffer)
        /\ AccFollows(acc.fs, acc)
        /\ LoopDone(g, M, A, D, O, i, Until(first, last, k), offset, buffer, acc)
    BY <1>1, <2>1
  <2>3. CASE b > last
    BY <1>3, <2>2, <2>3
  <2>4. CASE acc.fs.lapses = {"full"}
    <3>1. acc.ret = 1
      BY <1>3, <2>4
    <3>2. turn[k + 1] = acc
      BY <2>2, <3>1 DEF WriteFileBlock
    <3> QED
      BY <1>3, <3>2
  <2>5. CASE b <= last /\ acc.fs.lapses = {} /\ turn[k + 1].fs.lapses = {"full"}
    <3> DEFINE r == WriteFileBlock(acc, b, offset, buffer)
               N == [M EXCEPT ![i] = acc.inode]
    <3>1. turn[k + 1] = r /\ r.fs.lapses = {"full"}
      BY <1>0, <2>1, <2>2, <2>5
    <3>2. acc.fs.tail.seg = FLASH_FULL /\ FsTyped(acc.fs)
      BY <2>2, <2>5, <3>1, TurnFills DEF AccFollows, Follows
    <3>3. Frozen(acc.fs, acc.fs)
      BY <2>5, <3>2 DEF Frozen
    <3>4. ~ Refused(acc.fs)
      BY <2>5 DEF Refused
    <3>5. acc.ret = 0 /\ SameState(g, acc.fs)
      BY <2>2, <3>4 DEF LoopDone
    <3>6. PICK B, P : /\ View(acc.fs, N, B,
                              Rewritten(D, i, Until(first, last, k), offset, buffer), P)
                      /\ Placed(A, B, i, Until(first, last, k))
      BY <2>2, <3>4 DEF LoopDone
    <3> DEFINE E == Rewritten(D, i, Until(first, last, k), offset, buffer)
    <3>7. b \in BlockNumbers /\ N[i] = acc.inode
      <4>1. b \in BlockNumbers
        BY <1>0, <2>1, <2>5 DEF BlockNumbers
      <4> QED
        BY <1>0, <4>1
    <3>8. \A j \in Numbers : j # i => N[j] = M[j] /\ B[j] = A[j] /\ E[j] = D[j]
      <4> SUFFICES ASSUME NEW j \in Numbers, j # i
                   PROVE  N[j] = M[j] /\ B[j] = A[j] /\ E[j] = D[j]
        OBVIOUS
      <4>1. N[j] = M[j] /\ E[j] = D[j]
        BY <1>0 DEF Rewritten
      <4>2. B \in [Numbers -> [BlockNumbers -> MaybeAddress]]
        BY <3>6 DEF View, Tree
      <4>3. \A c \in BlockNumbers : B[j][c] = A[j][c]
        BY <3>6 DEF Placed
      <4>4. B[j] = A[j]
        <5>1. /\ B[j] \in [BlockNumbers -> MaybeAddress]
              /\ A[j] \in [BlockNumbers -> MaybeAddress]
          BY <1>0, <4>2
        <5> QED
          BY <4>3, <5>1
      <4> QED
        BY <4>1, <4>4
    <3> HIDE DEF acc, r, N, E, b
    <3>9. Frozen(acc.fs, r.fs) /\ r.ret = 1
      BY <3>3, <3>5, <3>6, <3>7, TurnFrozen DEF r, E
    <3>10. OthersKept(g, M, A, D, i, r.fs)
      BY <1>0, <3>5, <3>6, <3>8, <3>9 DEF OthersKept, SameState, E
    <3>11. ASSUME first = last PROVE Frozen(g, r.fs)
      <4>1. k = 0
        BY <1>0, <2>5, <3>11 DEF b
      <4>2. acc.fs = g
        BY <1>1, <4>1 DEF acc
      <4> QED
        BY <3>9, <4>2
    <3> QED
      BY <3>1, <3>9, <3>10, <3>11
  <2>6. CASE turn[k + 1].fs.lapses # {"full"}
    BY <2>6
  <2>7. CASE b <= last /\ turn[k + 1].fs.lapses = {"full"}
    <3>1. Follows(acc.fs, turn[k + 1].fs)
      BY <1>0, <2>1, <2>2, <2>7, WriteFileBlockFollows DEF AccFollows
    <3> HIDE DEF Stuck
    <3> QED
      BY <2>4, <2>5, <2>7, <3>1, LapsesGrow
  <2> HIDE DEF Stuck
  <2> QED
    BY <1>0, <2>1, <2>3, <2>6, <2>7
<1>4. maxFileBlocks \in Good
  <2> HIDE DEF Stuck
  <2>1. \A k \in Nat : k \in Good => k + 1 \in Good
    BY <1>0, <1>3
  <2> HIDE DEF Good
  <2> QED
    BY <1>0, <1>2, <2>1, InductionOnSets
<1>5. Stuck(maxFileBlocks)
  BY <1>0, <1>4
<1> QED
  BY <1>1, <1>5

LEMMA WriteBlocksStuck ==
    ASSUME NEW g, NEW M, NEW A, NEW D, NEW O, View(g, M, A, D, O), g.lapses = {},
           NEW i \in Numbers, NEW offset \in Nat, NEW buffer \in Seq(Stored),
           buffer # <<>>, offset + Len(buffer) <= MaxUnits,
           WriteBlocks(g, M[i], offset, buffer).fs.lapses = {"full"}
    PROVE  LET w == WriteBlocks(g, M[i], offset, buffer)
           IN  /\ w.ret = 1 /\ OthersKept(g, M, A, D, i, w.fs)
               /\ Len(buffer) = 1 => Frozen(g, w.fs)
<1> DEFINE first == offset \div BlockSize
           end   == offset + Len(buffer) - 1
           last  == end \div BlockSize
           size  == Max({M[i].fileSize, offset + Len(buffer)})
           start == [fs |-> g, inode |-> M[i], ret |-> 0]
           w     == WriteFileBlocks(start, first, last, offset, buffer)
           r     == WriteBlocks(g, M[i], offset, buffer)
<1>0. /\ Len(buffer) \in Nat \ {0} /\ end \in Nat /\ offset <= end /\ end < MaxUnits
      /\ \A k \in DOMAIN buffer : buffer[k] \in Stored
  BY MaxUnitsFacts
<1>1. first \in BlockNumbers /\ last \in BlockNumbers
  BY <1>0, BlockOfUnit, MaxUnitsFacts
<1>2. w.fs.lapses = {"full"} =>
         /\ w.ret = 1 /\ OthersKept(g, M, A, D, i, w.fs)
         /\ first = last => Frozen(g, w.fs)
  <2> HIDE DEF first, last
  <2> QED
    BY <1>0, <1>1, LoopStuck
<1>3. DOMAIN w = {"fs", "inode", "ret"}
  <2>1. FsTyped(g)
    BY DEF View, Ledger
  <2>2. AccFollows(start.fs, start)
    BY <2>1 DEF AccFollows, Follows
  <2> HIDE DEF start, first, last
  <2> QED
    BY <2>2, WriteFileBlocksFollows DEF AccFollows
<1>4. ~ (offset > M[i].fileSize)
  <2>1. ASSUME offset > M[i].fileSize PROVE r.fs = g
    BY <2>1 DEF WriteBlocks
  <2> QED
    BY <2>1
<1>5. r = [w EXCEPT !.inode.fileSize = size]
  BY <1>4 DEF WriteBlocks
<1>6. Len(buffer) = 1 => first = last
  BY <1>0
<1>7. r.fs.lapses = {"full"}
  OBVIOUS
<1> HIDE DEF w, size, first, last, r
<1>8. r.fs = w.fs /\ r.ret = w.ret
  BY <1>3, <1>5
<1> QED
  BY <1>2, <1>6, <1>7, <1>8 DEF r

\* A buffer of one unit goes into one block.
LEMMA OneBlockStuck ==
    ASSUME NEW g, NEW M, NEW A, NEW D, NEW O, View(g, M, A, D, O), g.lapses = {},
           NEW i \in Numbers, NEW offset \in Nat, NEW buffer \in Seq(Stored),
           buffer # <<>>, Len(buffer) = 1, offset + Len(buffer) <= MaxUnits,
           WriteBlocks(g, M[i], offset, buffer).fs.lapses = {"full"}
    PROVE  /\ WriteBlocks(g, M[i], offset, buffer).ret = 1
           /\ Frozen(g, WriteBlocks(g, M[i], offset, buffer).fs)
<1> DEFINE w == WriteBlocks(g, M[i], offset, buffer)
<1>1. w.fs.lapses = {"full"}
  OBVIOUS
<1> HIDE DEF w
<1>2. w.ret = 1 /\ OthersKept(g, M, A, D, i, w.fs) /\ (Len(buffer) = 1 => Frozen(g, w.fs))
  BY <1>1, WriteBlocksStuck DEF w
<1> QED
  BY <1>2 DEF w

\* The one block of the ifile that an inode goes into was refused.
LEMMA UpdateIFileStuck ==
    ASSUME NEW g, NEW M, NEW A, NEW D, NEW O, View(g, M, A, D, O), g.lapses = {},
           M[0] = g.root, NEW i \in INums, NEW n \in INode, n.inum = i,
           UpdateIFile(g, n).fs.lapses = {"full"}
    PROVE  Frozen(g, UpdateIFile(g, n).fs)
<1> DEFINE buffer == <<n>>
           w == WriteBlocks(g, M[0], i - 1, buffer)
           r == UpdateIFile(g, n)
<1>1. /\ i # 0 /\ 0 \in Numbers /\ i - 1 \in Nat /\ i - 1 + 1 <= MaxUnits
      /\ IFILE_INUM = 0 /\ FsTyped(g)
  BY INumFacts DEF View, Ledger
<1>2. r = RootWritten(w)
  BY <1>1 DEF UpdateIFile
<1>3. buffer \in Seq(Stored) /\ buffer # <<>>
  BY DEF Stored
<1>10. Len(buffer) = 1
  OBVIOUS
<1>4. AccFollows(g, w)
  BY <1>1, WriteBlocksFollows
<1>5. r.fs.lapses = {"full"}
  OBVIOUS
<1> HIDE DEF buffer, r
<1>9. (i - 1) + Len(buffer) <= MaxUnits
  BY <1>1, <1>10
<1>6. w.fs.lapses = {"full"} => w.ret = 1 /\ Frozen(g, w.fs)
  BY <1>1, <1>3, <1>9, <1>10, OneBlockStuck
<1> HIDE DEF w
<1>7. r.fs.lapses = w.fs.lapses
  BY <1>2, <1>4 DEF RootWritten, AccFollows, Follows, FsTyped, StateFields
<1>8. r.fs = w.fs
  BY <1>2, <1>5, <1>6, <1>7 DEF RootWritten
<1> QED
  BY <1>5, <1>6, <1>8 DEF r

\* Every file but file i reads from f as it does now.
OthersRead(g, M, D, i, f) ==
    \A j \in 1 .. g.iFileSize : j # i =>
       \A units : Matches(M, D, j, units) => File_Read(f, j) = units

LEMMA KeptOthersRead ==
    ASSUME NEW g, NEW M, NEW A, NEW D, NEW O, Settled(g, M, A, D, O),
           NEW i \in INums, NEW f, OthersKept(g, M, A, D, i, f)
    PROVE  OthersRead(g, M, D, i, f)
<1> SUFFICES ASSUME NEW j \in 1 .. g.iFileSize, j # i, NEW units, Matches(M, D, j, units)
             PROVE  File_Read(f, j) = units
  BY DEF OthersRead
<1>1. PICK h, N, B, E, P :
         /\ View(h, N, B, E, P) /\ Frozen(h, f)
         /\ h.root = g.root /\ g.iFileSize <= h.iFileSize
         /\ \A c \in Numbers : c # i => N[c] = M[c] /\ B[c] = A[c] /\ E[c] = D[c]
  BY DEF OthersKept
<1> DEFINE b == (j - 1) \div BlockSize
<1>2. /\ j \in INums /\ j \in Numbers /\ b \in BlockNumbers /\ 0 \in Numbers
      /\ M[0] = g.root /\ g.root.fileSize = g.iFileSize /\ j # 0 /\ i # 0
      /\ g.iFileSize \in Nat /\ M[j] \in INode /\ M[j] # Dead
  BY SettledFacts, INumFacts
<1>3. h.iFileSize \in Nat
  BY <1>1, GeometryFacts DEF View, Ledger, FsTyped
<1>4. N[j] = M[j] /\ B[j] = A[j] /\ E[j] = D[j] /\ N[0] = M[0] /\ B[0] = A[0] /\ E[0] = D[0]
  BY <1>1, <1>2
<1>5. A[0][b] # NoAddress /\ D[0][b][(j - 1) % BlockSize] = M[j]
  BY INumFacts DEF Settled, HasEntry, UnitOf
<1>6. GetINode(h, j) = M[j]
  <2>1. /\ GetBlockAddress(h, N[0], b) = B[0][b]
        /\ ReadBlock(h, N[0], b) = E[0][b] /\ E[0][b] # Dead
    <3> HIDE DEF b
    <3> QED
      BY <1>1, <1>2, ViewReadsBlock
  <2>2. h.root = N[0] /\ ~ (j > h.iFileSize) /\ ~ (j > h.root.fileSize)
    BY <1>1, <1>2, <1>3, <1>4
  <2>3. \A v : Understood(h, v, INode) = v
    BY <1>1 DEF Understood, Frozen
  <2> QED
    BY <1>2, <1>4, <1>5, <2>1, <2>2, <2>3 DEF GetINode, IFILE_INUM
<1>7. /\ M[j].inUse /\ M[j].fileSize \in Nat
      /\ units = [k \in 1 .. M[j].fileSize |-> UnitOf(D[j], k - 1)]
  BY <1>2 DEF Matches, INode
<1>8. /\ M[j].fileSize <= MaxUnits
      /\ \A v \in 0 .. M[j].fileSize - 1 : A[j][v \div BlockSize] # NoAddress
  <2>1. Sound(M, A, j, g.iFileSize)
    BY <1>2 DEF Settled
  <2> QED
    BY <1>2, <1>7, <2>1 DEF Sound
<1>9. ReadUnits(h, N[j], M[j].fileSize) = [k \in 1 .. M[j].fileSize |-> UnitOf(E[j], k - 1)]
  BY <1>1, <1>2, <1>4, <1>7, <1>8, UnitsRead
<1>10. File_Read(h, j) = units
  BY <1>2, <1>4, <1>6, <1>7, <1>9 DEF File_Read
<1> QED
  BY <1>1, <1>10, FrozenRead

----------------------------------------------------------------------------
(* The requests that a full flash refuses. *)

LEMMA FrozenKept ==
    ASSUME NEW g, NEW M, NEW A, NEW D, NEW O, View(g, M, A, D, O), NEW i,
           NEW f, Frozen(g, f)
    PROVE  OthersKept(g, M, A, D, i, f)
<1>1. g.iFileSize <= g.iFileSize
  <2>1. g.iFileSize \in Nat
    BY GeometryFacts DEF View, Ledger, FsTyped
  <2> QED
    BY <2>1
<1> QED
  BY <1>1 DEF OthersKept

LEMMA File_WriteStuck ==
    ASSUME NEW g, NEW M, NEW A, NEW D, NEW O, Settled(g, M, A, D, O), g.lapses = {},
           NEW i \in 1 .. g.iFileSize, NEW offset \in Nat, NEW buffer \in Seq(Unit),
           offset + Len(buffer) <= MaxUnits,
           File_Write(g, i, offset, buffer).fs.lapses = {"full"}
    PROVE  OthersRead(g, M, D, i, File_Write(g, i, offset, buffer).fs)
<1> DEFINE w == WriteBlocks(g, M[i], offset, buffer)
           r == File_Write(g, i, offset, buffer)
<1>1. /\ View(g, M, A, D, O) /\ FsTyped(g) /\ i \in Numbers /\ M \in [Numbers -> INode]
      /\ M[i] # Dead /\ GetINode(g, i) = M[i] /\ i \in INums /\ M[0] = g.root
      /\ g.iFileSize \in Nat /\ 0 \in Numbers
  BY SettledFacts, SettledINode
<1>2. buffer # <<>> /\ r.fs.lapses = {"full"}
  <2>1. buffer = <<>> => r.fs = g
    BY DEF File_Write
  <2> QED
    BY <2>1
<1>3. r = FileWritten(w)
  BY <1>1, <1>2 DEF File_Write
<1>4. AccFollows(g, w)
  BY <1>1, WriteBlocksFollows
<1>5. buffer \in Seq(Stored)
  BY DEF Stored
<1>6. w.fs.lapses = {"full"} => w.ret = 1 /\ OthersKept(g, M, A, D, i, w.fs)
  BY <1>1, <1>2, <1>5, WriteBlocksStuck
<1> HIDE DEF w, r
<1>7. CASE w.fs.lapses = {"full"}
  <2>1. r.fs = w.fs
    BY <1>3, <1>6, <1>7 DEF FileWritten
  <2> QED
    BY <1>1, <1>6, <1>7, <2>1, KeptOthersRead DEF r
<1>8. CASE w.fs.lapses = {}
  <2>1. r = UpdateIFile(w.fs, w.inode) /\ ~ Refused(w.fs)
    <3>1. w.ret # 0 => r.fs = w.fs
      BY <1>3 DEF FileWritten
    <3>2. w.ret = 0
      BY <1>2, <1>8, <3>1
    <3> QED
      BY <1>3, <1>8, <3>2 DEF FileWritten, Refused
  <2>2. offset <= M[i].fileSize
    <3>1. M[i].fileSize \in Nat
      BY <1>1 DEF INode
    <3>2. offset > M[i].fileSize => w.ret = 1
      BY DEF WriteBlocks, w
    <3>3. w.ret # 0 => r.fs = w.fs
      BY <1>3 DEF FileWritten
    <3> QED
      BY <1>2, <1>8, <3>1, <3>2, <3>3
  <2>3. BlocksDone(g, M, A, D, O, i, offset, buffer, w)
    BY <1>1, <1>2, <1>5, <2>2, WriteBlocksDone DEF w
  <2> DEFINE N == [M EXCEPT ![i] = w.inode]
  <2>4. PICK B, E, P : View(w.fs, N, B, E, P) /\ Changed(A, D, B, E, i, offset, buffer)
    BY <2>1, <2>3 DEF BlocksDone
  <2>5. SameState(g, w.fs)
    BY <2>1, <2>3 DEF BlocksDone
  <2>6. /\ N[i] = w.inode /\ i # 0 /\ N[0] = w.fs.root
        /\ \A j \in Numbers : j # i => N[j] = M[j] /\ B[j] = A[j] /\ E[j] = D[j]
    <3>1. \A j \in Numbers : j # i => B[j] = A[j] /\ E[j] = D[j]
      BY <2>4 DEF Changed
    <3>2. i # 0
      BY <1>1, INumFacts
    <3> QED
      BY <1>1, <2>5, <3>1, <3>2 DEF SameState
  <2>7. w.inode \in INode /\ w.inode.inum = i
    <3>1. N \in [Numbers -> INode] /\ N[i].inum = i
      BY <1>1, <2>4 DEF View, Tree
    <3> QED
      BY <1>1, <2>6, <3>1
  <2> HIDE DEF N
  <2>8. Frozen(w.fs, r.fs)
    BY <1>1, <1>2, <1>8, <2>1, <2>4, <2>6, <2>7, UpdateIFileStuck
  <2>9. g.iFileSize <= w.fs.iFileSize /\ w.fs.root = g.root
    BY <1>1, <2>5 DEF SameState
  <2>10. OthersKept(g, M, A, D, i, r.fs)
    BY <2>4, <2>6, <2>8, <2>9 DEF OthersKept
  <2> QED
    BY <1>1, <2>10, KeptOthersRead DEF r
<1>9. w.fs.lapses = {} \/ w.fs.lapses = {"full"}
  <2>1. FsTyped(w.fs)
    BY <1>4 DEF AccFollows, Follows
  <2>2. \/ r.fs = w.fs
        \/ r = UpdateIFile(w.fs, w.inode)
    BY <1>3 DEF FileWritten
  <2>3. Follows(w.fs, r.fs)
    BY <2>1, <2>2, UpdateIFileFollows DEF Follows
  <2> QED
    BY <1>2, <2>3, LapsesGrow
<1> QED
  BY <1>7, <1>8, <1>9

LEMMA File_ChmodStuck ==
    ASSUME NEW g, NEW M, NEW A, NEW D, NEW O, Settled(g, M, A, D, O), g.lapses = {},
           NEW i \in 1 .. g.iFileSize, NEW mode \in Modes,
           File_Chmod(g, i, mode).fs.lapses = {"full"}
    PROVE  OthersRead(g, M, D, i, File_Chmod(g, i, mode).fs)
<1> DEFINE n == [M[i] EXCEPT !.permissions = mode]
           r == File_Chmod(g, i, mode)
<1>1. /\ View(g, M, A, D, O) /\ M[i].inum = i /\ M[0] = g.root
      /\ i \in INums /\ M[i] \in INode /\ M[i] # Dead /\ GetINode(g, i) = M[i]
  BY SettledFacts, SettledINode
<1>2. r = UpdateIFile(g, n)
  BY <1>1 DEF File_Chmod
<1>3. n \in INode /\ n.inum = i
  BY <1>1 DEF INode
<1>4. r.fs.lapses = {"full"}
  OBVIOUS
<1> HIDE DEF n, r
<1>5. Frozen(g, r.fs)
  BY <1>1, <1>2, <1>3, <1>4, UpdateIFileStuck
<1> QED
  BY <1>1, <1>5, FrozenKept, KeptOthersRead DEF r

LEMMA File_CreateStuck ==
    ASSUME NEW g, NEW M, NEW A, NEW D, NEW O, Settled(g, M, A, D, O), g.lapses = {},
           NEW i \in INums, i = GetUnusedINum(g), NEW mode \in Modes,
           File_Create(g, mode).fs.lapses = {"full"}
    PROVE  OthersRead(g, M, D, i, File_Create(g, mode).fs)
<1> DEFINE h == [g EXCEPT !.iFileSize = Max({g.iFileSize, i})]
           n == NewINode(i, mode)
           r == File_Create(g, mode)
<1>1. /\ View(g, M, A, D, O) /\ FsTyped(g) /\ M[0] = g.root
      /\ g.iFileSize \in INums /\ g.iFileSize \in Nat
  BY SettledFacts
<1>2. r = UpdateIFile(h, n) /\ r.fs.lapses = {"full"}
  <2>1. ASSUME r.fs = Throw(g) PROVE FALSE
    <3>1. "terminated" \in r.fs.lapses
      BY <1>1, <2>1 DEF Throw, Lapse, FsTyped, StateFields
    <3> QED
      BY <3>1
  <2> QED
    BY <2>1 DEF File_Create, InitNewINode
<1>3. Max({g.iFileSize, i}) \in INums /\ g.iFileSize <= Max({g.iFileSize, i})
  <2>1. i \in Nat
    BY GeometryFacts
  <2> QED
    BY <1>1, <2>1, MaxOfTwo
<1>4. /\ FsTyped(h) /\ h.media = g.media /\ h.tail = g.tail /\ h.live = g.live
      /\ h.full = g.full /\ h.leaked = g.leaked /\ h.root = g.root
      /\ h.iFileSize = Max({g.iFileSize, i}) /\ h.lapses = g.lapses
  BY <1>1, <1>3 DEF FsTyped, StateFields
<1>5. n \in INode /\ n.inum = i
  <2>1. NoBlocks \in [0 .. NDirect - 1 -> MaybeAddress] /\ i \in 0 .. MaxINum
    BY INumFacts DEF NoBlocks, MaybeAddress, Numbers
  <2> QED
    BY <2>1 DEF NewINode, INode, MaybeAddress
<1> HIDE DEF h, n, r
<1>6. View(h, M, A, D, O)
  BY <1>1, <1>4, ViewSame, LedgerUncached DEF View
<1>7. Frozen(h, r.fs)
  BY <1>1, <1>2, <1>4, <1>5, <1>6, UpdateIFileStuck
<1>8. OthersKept(g, M, A, D, i, r.fs)
  BY <1>3, <1>4, <1>6, <1>7 DEF OthersKept
<1> QED
  BY <1>8, KeptOthersRead DEF r

\* Freeing leaves the tail where it is, and a full flash as it is.
Still(g, h) ==
    /\ FsTyped(h) /\ h.tail.seg = g.tail.seg
    /\ g.tail.seg = FLASH_FULL /\ "cached" \notin g.lapses => Frozen(g, h)

LEMMA StillFollows ==
    ASSUME NEW f, NEW g, NEW h, Still(f, g), Still(g, h)
    PROVE  Still(f, h)
BY DEF Still, Frozen

LEMMA FreeStill ==
    ASSUME NEW g, FsTyped(g), NEW a \in MaybeAddress
    PROVE  Still(g, Log_Free(g, a))
<1> DEFINE h == Log_Free(g, a)
<1>1. FsTyped(h)
  BY Log_FreeFollows DEF Follows
<1>2. h.tail.seg = g.tail.seg
  BY DEF Log_Free, FsTyped, StateFields
<1>3. g.tail.seg = FLASH_FULL /\ "cached" \notin g.lapses => Frozen(g, h)
  BY FreeFrozen DEF Frozen
<1> QED
  BY <1>1, <1>2, <1>3 DEF Still

LEMMA LeakStill ==
    ASSUME NEW g, FsTyped(g), NEW indirect
    PROVE  Still(g, IndirectLeaked(g, indirect))
<1>1. ASSUME NEW L PROVE Still(g, Leak(g, L))
  <2>1. FsTyped(Leak(g, L))
    BY LeakFollows DEF Follows
  <2>2. /\ Leak(g, L).media = g.media /\ Leak(g, L).root = g.root
        /\ Leak(g, L).iFileSize = g.iFileSize /\ Leak(g, L).tail = g.tail
        /\ Leak(g, L).lapses = g.lapses
    BY DEF Leak, FsTyped, StateFields
  <2> QED
    BY <2>1, <2>2 DEF Still, Frozen
<1>2. Still(g, g)
  BY DEF Still, Frozen
<1> QED
  BY <1>1, <1>2 DEF IndirectLeaked

\* By induction over the direct blocks.
LEMMA EmptiedStill ==
    ASSUME NEW g, FsTyped(g), NEW inode \in INode
    PROVE  Still(g, Emptied(g, inode).fs)
<1> DEFINE h == DirectBlocksFreed(g, inode)
<1>0. inode.indirect \in MaybeAddress /\ \A n \in 0 .. NDirect - 1 : inode.direct[n] \in MaybeAddress
  BY DEF INode
<1>1. Still(g, h)
  <2>1. PICK freed :
           /\ freed[0] = g
           /\ \A n \in 1 .. NDirect :
                 freed[n] = Log_Free(freed[n - 1], inode.direct[n - 1])
           /\ h = freed[NDirect]
    BY DirectBlocksFreedTurns
  <2> DEFINE Good == {k \in Nat : k <= NDirect => Still(g, freed[k])}
  <2>2. 0 \in Good
    BY <2>1 DEF Still, Frozen
  <2>3. ASSUME NEW k \in Nat, k \in Good PROVE k + 1 \in Good
    <3>1. CASE k + 1 <= NDirect
      <4>1. Still(g, freed[k])
        BY <2>3, <3>1, GeometryFacts
      <4>2. freed[k + 1] = Log_Free(freed[k], inode.direct[k])
        BY <2>1, <3>1, GeometryFacts
      <4>3. inode.direct[k] \in MaybeAddress
        BY <1>0, <3>1, GeometryFacts
      <4>4. Still(freed[k], freed[k + 1])
        BY <4>1, <4>2, <4>3, FreeStill DEF Still
      <4> QED
        BY <4>1, <4>4, StillFollows
    <3> QED
      BY <3>1
  <2> HIDE DEF Good
  <2>4. NDirect \in Good
    BY <2>2, <2>3, InductionOnSets, GeometryFacts
  <2> QED
    BY <2>1, <2>4, GeometryFacts DEF Good
<1> HIDE DEF h
<1>2. Still(g, Log_Free(h, inode.indirect))
  <2>1. Still(h, Log_Free(h, inode.indirect))
    BY <1>0, <1>1, FreeStill DEF Still
  <2> QED
    BY <1>1, <2>1, StillFollows
<1> DEFINE f == Log_Free(h, inode.indirect)
<1>3. Emptied(g, inode).fs = IndirectLeaked(f, ReadIndirectBlocks(g, inode))
  BY DEF Emptied, h
<1> HIDE DEF f
<1>4. Still(f, IndirectLeaked(f, ReadIndirectBlocks(g, inode)))
  BY <1>2, LeakStill DEF Still, f
<1> QED
  BY <1>2, <1>3, <1>4, StillFollows DEF f

\* The emptied inode was refused by the ifile.
LEMMA EmptiedStuck ==
    ASSUME NEW g, NEW M, NEW A, NEW D, NEW O, Settled(g, M, A, D, O), g.lapses = {},
           NEW i \in 1 .. g.iFileSize,
           NEW n \in INode, n.inum = i, n.direct = NoBlocks, n.indirect = NoAddress,
           UpdateIFile(Emptied(g, M[i]).fs, n).fs.lapses = {"full"}
    PROVE  Frozen(g, UpdateIFile(Emptied(g, M[i]).fs, n).fs)
<1> DEFINE h == Emptied(g, M[i]).fs
           N == [M EXCEPT ![i] = n]
           B == [A EXCEPT ![i] = NoAddresses]
           E == [D EXCEPT ![i] = ZeroBlocks]
           u == UpdateIFile(h, n)
<1>1. /\ View(g, M, A, D, O) /\ FsTyped(g) /\ M \in [Numbers -> INode]
      /\ M[0] = g.root /\ 0 \in Numbers /\ i \in Numbers /\ i \in INums /\ i # 0
  BY SettledFacts, INumFacts
<1>2. u.fs.lapses = {"full"}
  OBVIOUS
<1>3. SameState(g, h)
  BY <1>1, EmptiedDone
<1>4. PICK P : View(h, N, B, E, P)
  BY <1>1, EmptiedDone
<1>5. Still(g, h)
  BY <1>1, EmptiedStill
<1>6. h.lapses = {} /\ N[0] = h.root
  BY <1>1, <1>3 DEF SameState
<1> HIDE DEF h, N, B, E
<1>7. Frozen(h, u.fs)
  BY <1>1, <1>2, <1>4, <1>6, UpdateIFileStuck
<1> HIDE DEF u
<1>8. Frozen(g, u.fs)
  BY <1>5, <1>7 DEF Still, Frozen
<1> QED
  BY <1>8 DEF u, h

LEMMA File_FreeStuck ==
    ASSUME NEW g, NEW M, NEW A, NEW D, NEW O, Settled(g, M, A, D, O), g.lapses = {},
           NEW i \in 1 .. g.iFileSize, File_Free(g, i).fs.lapses = {"full"}
    PROVE  OthersRead(g, M, D, i, File_Free(g, i).fs)
<1> DEFINE e == Emptied(g, M[i])
           n == [e.inode EXCEPT !.inUse = FALSE]
           r == File_Free(g, i)
<1>1. /\ View(g, M, A, D, O) /\ M[i].inum = i /\ i \in INums
      /\ i \in Numbers /\ M[i] \in INode /\ M[i] # Dead /\ GetINode(g, i) = M[i]
  BY SettledFacts, SettledINode
<1>2. /\ e.inode = [M[i] EXCEPT !.direct = NoBlocks, !.indirect = NoAddress]
      /\ e.inode \in INode
  <2>1. e.inode = [M[i] EXCEPT !.direct = NoBlocks, !.indirect = NoAddress]
    BY DEF Emptied
  <2> HIDE DEF e
  <2>2. e.inode \in INode
    BY <1>1, EmptiedDone DEF e
  <2> QED
    BY <2>1, <2>2
<1>3. r.fs = UpdateIFile(e.fs, n).fs /\ r.fs.lapses = {"full"}
  BY <1>1 DEF File_Free
<1> HIDE DEF e, r
<1>4. n \in INode /\ n.inum = i /\ n.direct = NoBlocks /\ n.indirect = NoAddress
  BY <1>1, <1>2 DEF INode
<1> HIDE DEF n
<1>5. Frozen(g, r.fs)
  <2>1. UpdateIFile(e.fs, n).fs.lapses = {"full"}
    BY <1>3
  <2>2. Frozen(g, UpdateIFile(e.fs, n).fs)
    BY <1>4, <2>1, EmptiedStuck DEF e
  <2> QED
    BY <1>3, <2>2
<1>6. OthersKept(g, M, A, D, i, r.fs)
  BY <1>1, <1>5, FrozenKept
<1> QED
  BY <1>1, <1>6, KeptOthersRead DEF r

\* The file that was emptied is written again, or the empty inode was refused.
LEMMA File_TruncateStuck ==
    ASSUME NEW g, NEW M, NEW A, NEW D, NEW O, Settled(g, M, A, D, O), g.lapses = {},
           NEW i \in 1 .. g.iFileSize, NEW units \in Seq(Unit), Matches(M, D, i, units),
           NEW size \in Sizes, File_Truncate(g, i, size).fs.lapses = {"full"}
    PROVE  OthersRead(g, M, D, i, File_Truncate(g, i, size).fs)
<1> DEFINE e == Emptied(g, M[i])
           n == [e.inode EXCEPT !.fileSize = 0]
           u == UpdateIFile(e.fs, n)
           buffer == Resized(units, size)
           r == File_Write(u.fs, i, 0, buffer)
<1>1. /\ View(g, M, A, D, O) /\ FsTyped(g) /\ M[i].inum = i
      /\ i \in Numbers /\ M[i] \in INode /\ M[i] # Dead /\ GetINode(g, i) = M[i]
      /\ i \in INums /\ i <= g.iFileSize
  BY SettledFacts, SettledINode
<1>2. M[i].inUse /\ M[i].fileSize \in Nat
  BY <1>1 DEF Matches, INode
<1>3. ReadUnits(g, M[i], M[i].fileSize) = units
  BY <1>1, <1>2, PromiseRead DEF File_Read
<1>4. units # Dead
  BY SentinelAssumption
<1>5. File_Truncate(g, i, size) = r /\ r.fs.lapses = {"full"}
  BY <1>1, <1>3, <1>4 DEF File_Truncate
<1>6. /\ e.inode = [M[i] EXCEPT !.direct = NoBlocks, !.indirect = NoAddress]
      /\ e.inode \in INode /\ FsTyped(e.fs)
  <2>1. e.inode = [M[i] EXCEPT !.direct = NoBlocks, !.indirect = NoAddress]
    BY DEF Emptied
  <2> HIDE DEF e
  <2>2. e.inode \in INode /\ FsTyped(e.fs)
    BY <1>1, EmptiedDone DEF e
  <2> QED
    BY <2>1, <2>2
<1> HIDE DEF e, r
<1>7. /\ n \in INode /\ n.inum = i /\ n.direct = NoBlocks /\ n.indirect = NoAddress
      /\ n.inUse /\ n.fileSize = 0
  BY <1>1, <1>2, <1>6 DEF INode
<1> HIDE DEF n
<1>8. FsTyped(u.fs)
  BY <1>6, UpdateIFileFollows DEF Follows
<1>9. Follows(u.fs, r.fs)
  BY <1>8, File_WriteFollows DEF r
<1>10. buffer \in Seq(Unit) /\ 0 \in Nat /\ 0 + Len(buffer) <= MaxUnits
  <2>1. size \in Nat /\ size <= MaxUnits
    BY FileAssumption DEF MaxUnits
  <2>2. \A k \in 1 .. size : (IF k <= Len(units) THEN units[k] ELSE Zero) \in Unit
    BY <2>1 DEF Unit
  <2>3. buffer \in [1 .. size -> Unit]
    BY <2>2 DEF Resized
  <2> HIDE DEF buffer
  <2> QED
    BY <2>1, <2>3
<1> HIDE DEF buffer
<1>11. CASE u.fs.lapses = {"full"}
  <2>1. Frozen(g, u.fs)
    BY <1>7, <1>11, EmptiedStuck DEF e
  <2> HIDE DEF u
  <2>2. Frozen(g, r.fs)
    BY <1>10, <2>1, File_WriteFrozen DEF r
  <2>3. OthersKept(g, M, A, D, i, r.fs)
    BY <1>1, <2>2, FrozenKept
  <2> QED
    BY <1>1, <1>5, <2>3, KeptOthersRead
<1>12. CASE u.fs.lapses = {}
  <2>1. ~ Refused(u.fs)
    BY <1>12 DEF Refused
  <2>2. Outcome(g, M, D, i, <<>>, u)
    BY <1>7, EmptiedPutBack DEF e
  <2> HIDE DEF u
  <2>3. g.iFileSize <= u.fs.iFileSize /\ i <= u.fs.iFileSize
    BY <2>1, <2>2 DEF Outcome
  <2>4. PICK N, B, E, P : /\ Settled(u.fs, N, B, E, P)
                          /\ \A j \in INums : j # i => N[j] = M[j] /\ E[j] = D[j]
    BY <2>1, <2>2 DEF Outcome
  <2>5. g.iFileSize \in Nat /\ u.fs.iFileSize \in Nat /\ i \in 1 .. u.fs.iFileSize
    BY <2>3, <2>4, SettledFacts
  <2>6. OthersRead(u.fs, N, E, i, r.fs)
    BY <1>5, <1>10, <1>12, <2>4, <2>5, File_WriteStuck DEF r
  <2>7. ASSUME NEW j \in 1 .. g.iFileSize, j # i, NEW text, Matches(M, D, j, text)
        PROVE  File_Read(r.fs, j) = text
    <3>1. j \in 1 .. u.fs.iFileSize /\ j \in INums
      BY <2>3, <2>5, SettledFacts
    <3>2. Matches(N, E, j, text)
      BY <2>4, <2>7, <3>1 DEF Matches
    <3> QED
      BY <2>6, <2>7, <3>1, <3>2 DEF OthersRead
  <2> QED
    BY <1>5, <2>7 DEF OthersRead
<1>13. u.fs.lapses = {} \/ u.fs.lapses = {"full"}
  BY <1>5, <1>9, LapsesGrow
<1> QED
  BY <1>11, <1>12, <1>13

\* A request that the full flash refuses leaves what was promised of the others.
LEMMA AnswerSpares ==
    ASSUME TypeInv, NEW M, NEW A, NEW D, NEW O, Settled(fs, M, A, D, O),
           Promises(fs, M, D), NEW i \in INums, NEW promise, NEW r,
           r.fs.lapses = {"full"} => OthersRead(fs, M, D, i, r.fs),
           Answer(r, i, promise)
    PROVE  fs'.lapses = {"full"} =>
              \A j \in Promised' : File_Read(fs', j) = contents'[j]
<1> SUFFICES ASSUME fs'.lapses = {"full"}, NEW j \in Promised'
             PROVE  File_Read(fs', j) = contents'[j]
  OBVIOUS
<1>1. fs' = r.fs /\ r.fs.lapses # {}
  BY DEF Answer
<1>2. contents' = [contents EXCEPT ![i] = Unknown] /\ DOMAIN contents = INums
  BY <1>1 DEF Answer, TypeInv, ContentsTyped
<1>3. j \in INums /\ contents'[j] # NoFile /\ contents'[j] # Unknown
  BY DEF Promised, Files
<1>4. j # i /\ contents'[j] = contents[j]
  BY <1>2, <1>3
<1>5. j <= fs.iFileSize /\ Matches(M, D, j, contents[j])
  BY <1>3, <1>4 DEF Promises, Stands
<1>6. j \in 1 .. fs.iFileSize
  BY <1>3, <1>5, SettledFacts DEF INums
<1> QED
  BY <1>1, <1>4, <1>5, <1>6 DEF OthersRead

LEMMA RequestSpares ==
    ASSUME TypeInv, FilesKept, NEW i \in INums, Request(i)
    PROVE  fs'.lapses = {"full"} =>
              \A j \in Promised' : File_Read(fs', j) = contents'[j]
<1> DEFINE Spares == fs'.lapses = {"full"} =>
                        \A j \in Promised' : File_Read(fs', j) = contents'[j]
<1>1. PICK M, A, D, O : Settled(fs, M, A, D, O) /\ Promises(fs, M, D)
  BY DEF FilesKept
<1>2. fs.lapses = {}
  BY DEF FilesKept
<1>3. ASSUME i \in Promised
      PROVE  /\ i \in 1 .. fs.iFileSize /\ Matches(M, D, i, contents[i])
             /\ contents[i] \in Seq(Unit)
  <2>1. contents[i] # NoFile /\ contents[i] # Unknown
    BY <1>3 DEF Promised, Files
  <2>2. i <= fs.iFileSize /\ Matches(M, D, i, contents[i])
    BY <1>1, <2>1 DEF Promises, Stands
  <2>3. i \in 1 .. fs.iFileSize
    BY <1>1, <2>2, SettledFacts DEF INums
  <2> QED
    BY <2>2, <2>3 DEF Matches
<1> HIDE DEF Spares
<1>4. ASSUME NEW promise, NEW r, Answer(r, i, promise),
             r.fs.lapses = {"full"} => OthersRead(fs, M, D, i, r.fs)
      PROVE  Spares
  BY <1>1, <1>4, AnswerSpares DEF Spares
<1>5. ASSUME i = GetUnusedINum(fs), NEW mode \in Modes, CreateFile(mode)
      PROVE  Spares
  <2> DEFINE r == File_Create(fs, mode)
  <2>1. r.fs.lapses = {"full"} => OthersRead(fs, M, D, i, r.fs)
    BY <1>1, <1>2, <1>5, File_CreateStuck
  <2>2. Answer(r, i, <<>>)
    BY <1>5 DEF CreateFile
  <2> HIDE DEF r
  <2> QED
    BY <1>4, <2>1, <2>2
<1>6. ASSUME i \in Promised, NEW e \in Extents, NEW d \in Data,
             e[1] <= Len(contents[i]),
             WriteFile(i, e[1], [u \in 1 .. e[2] |-> d])
      PROVE  Spares
  <2> DEFINE buffer == [u \in 1 .. e[2] |-> d]
             r == File_Write(fs, i, e[1], buffer)
  <2>1. e[1] \in Nat /\ e[2] \in Nat /\ e[1] + e[2] <= MaxUnits
    BY FileAssumption DEF MaxUnits
  <2>2. buffer \in Seq(Unit) /\ Len(buffer) = e[2]
    BY <2>1 DEF Unit
  <2>3. Answer(r, i, Overwritten(contents[i], e[1], buffer))
    BY <1>6 DEF WriteFile
  <2> HIDE DEF buffer
  <2>4. r.fs.lapses = {"full"} => OthersRead(fs, M, D, i, r.fs)
    BY <1>1, <1>2, <1>3, <1>6, <2>1, <2>2, File_WriteStuck
  <2> HIDE DEF r
  <2> QED
    BY <1>4, <2>3, <2>4
<1>7. ASSUME i \in Promised, NEW n \in Sizes, TruncateFile(i, n)
      PROVE  Spares
  <2> DEFINE r == File_Truncate(fs, i, n)
  <2>1. r.fs.lapses = {"full"} => OthersRead(fs, M, D, i, r.fs)
    BY <1>1, <1>2, <1>3, <1>7, File_TruncateStuck
  <2>2. Answer(r, i, Resized(contents[i], n))
    BY <1>7 DEF TruncateFile
  <2> HIDE DEF r
  <2> QED
    BY <1>4, <2>1, <2>2
<1>8. ASSUME i \in Promised, NEW mode \in Modes, ChmodFile(i, mode)
      PROVE  Spares
  <2> DEFINE r == File_Chmod(fs, i, mode)
  <2>1. r.fs.lapses = {"full"} => OthersRead(fs, M, D, i, r.fs)
    BY <1>1, <1>2, <1>3, <1>8, File_ChmodStuck
  <2>2. Answer(r, i, contents[i])
    BY <1>8 DEF ChmodFile
  <2> HIDE DEF r
  <2> QED
    BY <1>4, <2>1, <2>2
<1>9. ASSUME i \in Promised, FreeFile(i)
      PROVE  Spares
  <2> DEFINE r == File_Free(fs, i)
  <2>1. r.fs.lapses = {"full"} => OthersRead(fs, M, D, i, r.fs)
    BY <1>1, <1>2, <1>3, <1>9, File_FreeStuck
  <2>2. Answer(r, i, NoFile)
    BY <1>9 DEF FreeFile
  <2> HIDE DEF r
  <2> QED
    BY <1>4, <2>1, <2>2
<1>10. Spares
  BY <1>5, <1>6, <1>7, <1>8, <1>9 DEF Request
<1> QED
  BY <1>10 DEF Spares

\* A request that meets a flash without a clean segment, at whichever of its
\* blocks, leaves every other file to be read as its last requests left it:
\* File_Write and File_Truncate free a block before they know that there is
\* room for the next, but never the block of another file or of the ifile.
THEOREM FullFlashSparesTheOthers == Spec => []FullFlashSparesOthers
<1> DEFINE Inv == FileInv /\ FullFlashSparesOthers
<1>1. Init => Inv
  <2>1. Init => fs.lapses = {}
    BY DEF Init, mklfs
  <2> QED
    BY <2>1, InitKept DEF FullFlashSparesOthers
<1>2. Inv /\ [Next]_vars => Inv'
  <2> SUFFICES ASSUME Inv, [Next]_vars PROVE FullFlashSparesOthers'
    BY FileInvInductive
  <2>1. CASE Next
    <3>1. fs.lapses = {}
      BY <2>1 DEF Next, Running
    <3>2. FilesKept /\ TypeInv
      BY <3>1 DEF FileInv, Refused
    <3>3. PICK i \in INums : Request(i)
      BY <2>1 DEF Next
    <3> QED
      BY <3>2, <3>3, RequestSpares DEF FullFlashSparesOthers
  <2>2. CASE UNCHANGED vars
    <3>1. fs' = fs /\ contents' = contents
      BY <2>2 DEF vars
    <3>2. Promised' = Promised
      BY <3>1 DEF Promised, Files
    <3> QED
      BY <3>1, <3>2 DEF FullFlashSparesOthers
  <2> QED
    BY <2>1, <2>2
<1> QED
  BY <1>1, <1>2, PTL DEF Spec
=============================================================================
