---------------------------- MODULE CleanerProofs ----------------------------
(***************************************************************************)
(* Proofs about the cleaner beside the requests of the file layer, and     *)
(* about the checkpoint of a mount, for every geometry of the flash, every *)
(* threshold and every order in which segments may be cleaned.             *)
(*                                                                         *)
(* First, the types, whatever is refused or goes wrong on the way.  Then,  *)
(* the files: until something lapses, every block that is moved is, of the *)
(* same file, in the tail, and a segment is erased once nothing but what   *)
(* was leaked is in it.  Last, what the checkpoint leads to while requests *)
(* alone run: each writes at most one segment, and none that the           *)
(* checkpoint needs but the one found partly filled.                       *)
(***************************************************************************)
EXTENDS CleanerStore, FileLayerProofs, Remount

----------------------------------------------------------------------------
(* The types. *)

LEMMA MoveBlockFollows ==
    ASSUME NEW g, FsTyped(g), NEW inode, NEW slot, NEW old
    PROVE  Follows(g, MoveBlock(g, inode, slot, old).fs)
<1> DEFINE w == Log_Write(g, slot.inum, slot.fb, slot.data)
           h == Leak(w.fs, {old})
           u == UpdateINodeBlock(h, inode, slot.fb, w.addr)
<1>1. Follows(g, w.fs)
  BY Log_WriteFollows
<1>2. Follows(w.fs, StrayStore(w).fs)
  BY <1>1, LapseFollows DEF StrayStore, Follows
<1>3. Follows(w.fs, h)
  BY <1>1, LeakFollows DEF Follows
<1>4. Follows(h, u.fs)
  BY <1>3, UpdateINodeBlockFollows DEF AccFollows, Follows
<1>5. Follows(u.fs, BlockMoved(w, inode, slot.fb, old).fs)
  BY <1>4, UpdateIFileFollows DEF BlockMoved, INodeMoved, Follows
<1> QED
  BY <1>1, <1>2, <1>3, <1>4, <1>5 DEF MoveBlock, Follows

LEMMA CleanBlockFollows ==
    ASSUME NEW acc, FsTyped(acc.fs), NEW slots, NEW s, NEW b
    PROVE  Follows(acc.fs, CleanBlock(acc, slots, s, b).fs)
BY MoveBlockFollows, LapseFollows DEF CleanBlock, Follows

\* The turns over the blocks of a segment.
LEMMA CleanBlocksTurns ==
    ASSUME NEW g, NEW s
    PROVE  \E turn :
              /\ turn[0] = [fs |-> g, ret |-> 0]
              /\ \A n \in 1 .. SegBlocks :
                    turn[n] = CleanBlock(turn[n - 1], g.media[s], s, n)
              /\ CleanBlocks(g, s, SegBlocks) = turn[SegBlocks]
<1> DEFINE start == [fs |-> g, ret |-> 0]
           Turn(before, n) == CleanBlock(before, g.media[s], s, n)
           IsTurns(f, k) ==
             f = [n \in 0 .. k |-> IF n = 0 THEN start ELSE Turn(f[n - 1], n)]
           Exists == {k \in Nat : \E f : IsTurns(f, k)}
<1>1. Nat \subseteq Exists
  <2> HIDE DEF start
  <2>1. 0 \in Exists
    <3>1. IsTurns([n \in 0 .. 0 |-> start], 0)
      OBVIOUS
    <3> QED
      BY <3>1
  <2>2. ASSUME NEW k \in Nat, k \in Exists PROVE k + 1 \in Exists
    <3>1. PICK f : IsTurns(f, k)
      BY <2>2
    <3> DEFINE ff == [n \in 0 .. k + 1 |-> IF n <= k THEN f[n] ELSE Turn(f[k], k + 1)]
    <3> HIDE DEF Turn
    <3>2. IsTurns(ff, k + 1)
      BY <3>1
    <3>3. k + 1 \in Nat
      OBVIOUS
    <3> HIDE DEF ff, IsTurns
    <3> QED
      BY <3>2, <3>3
  <2> HIDE DEF Exists
  <2> QED
    BY <2>1, <2>2, InductionOnSets
<1>2. PICK f : IsTurns(f, SegBlocks)
  BY <1>1, GeometryFacts
<1> DEFINE turn == CHOOSE ff : IsTurns(ff, SegBlocks)
<1>3. IsTurns(turn, SegBlocks)
  BY <1>2
<1>4. CleanBlocks(g, s, SegBlocks) = turn[SegBlocks]
  BY DEF CleanBlocks
<1>5. turn[0] = start
  <2> HIDE DEF Turn, turn, start
  <2> QED
    BY <1>3, GeometryFacts
<1>6. ASSUME NEW n \in 1 .. SegBlocks PROVE turn[n] = Turn(turn[n - 1], n)
  <2> HIDE DEF Turn, turn, start
  <2> QED
    BY <1>3, GeometryFacts
<1> HIDE DEF turn
<1> QED
  BY <1>4, <1>5, <1>6

\* And over the segments, in the order they are cleaned.
LEMMA CleanLogTurns ==
    ASSUME NEW g, NEW order, Len(order) \in Nat
    PROVE  \E turn :
              /\ turn[0] = [fs |-> g, ret |-> 0,
                            clean |-> Cardinality(CleanSegments(g.table))]
              /\ \A n \in 1 .. Len(order) : turn[n] = CleanNext(turn[n - 1], order[n])
              /\ CleanLog(g, order) = turn[Len(order)]
<1> DEFINE start == [fs |-> g, ret |-> 0,
                     clean |-> Cardinality(CleanSegments(g.table))]
           Turn(before, n) == CleanNext(before, order[n])
           IsTurns(f, k) ==
             f = [n \in 0 .. k |-> IF n = 0 THEN start ELSE Turn(f[n - 1], n)]
           Exists == {k \in Nat : \E f : IsTurns(f, k)}
<1>1. Nat \subseteq Exists
  <2> HIDE DEF start
  <2>1. 0 \in Exists
    <3>1. IsTurns([n \in 0 .. 0 |-> start], 0)
      OBVIOUS
    <3> QED
      BY <3>1
  <2>2. ASSUME NEW k \in Nat, k \in Exists PROVE k + 1 \in Exists
    <3>1. PICK f : IsTurns(f, k)
      BY <2>2
    <3> DEFINE ff == [n \in 0 .. k + 1 |-> IF n <= k THEN f[n] ELSE Turn(f[k], k + 1)]
    <3> HIDE DEF Turn
    <3>2. IsTurns(ff, k + 1)
      BY <3>1
    <3>3. k + 1 \in Nat
      OBVIOUS
    <3> HIDE DEF ff, IsTurns
    <3> QED
      BY <3>2, <3>3
  <2> HIDE DEF Exists
  <2> QED
    BY <2>1, <2>2, InductionOnSets
<1>2. PICK f : IsTurns(f, Len(order))
  BY <1>1
<1> DEFINE turn == CHOOSE ff : IsTurns(ff, Len(order))
<1>3. IsTurns(turn, Len(order))
  BY <1>2
<1>4. CleanLog(g, order) = turn[Len(order)]
  BY DEF CleanLog
<1>5. turn[0] = start
  <2> HIDE DEF Turn, turn, start
  <2> QED
    BY <1>3
<1>6. ASSUME NEW n \in 1 .. Len(order) PROVE turn[n] = Turn(turn[n - 1], n)
  <2> HIDE DEF Turn, turn, start
  <2> QED
    BY <1>3
<1> HIDE DEF turn
<1> QED
  BY <1>4, <1>5, <1>6

\* The state in which the cleaner starts with segment s.
Started(g, s) == [g EXCEPT !.lapses = @ \cup CleanerLapses(g, s)]

LEMMA StartedFollows ==
    ASSUME NEW g, FsTyped(g), NEW s
    PROVE  Follows(g, Started(g, s))
BY DEF Started, FsTyped, StateFields, Follows

LEMMA CleanSegmentFollows ==
    ASSUME NEW g, FsTyped(g), NEW s
    PROVE  Follows(g, CleanSegment(g, s).fs)
<1> DEFINE h == Started(g, s)
<1>1. PICK turn :
         /\ turn[0] = [fs |-> h, ret |-> 0]
         /\ \A n \in 1 .. SegBlocks :
               turn[n] = CleanBlock(turn[n - 1], h.media[s], s, n)
         /\ CleanBlocks(h, s, SegBlocks) = turn[SegBlocks]
  BY CleanBlocksTurns
<1> DEFINE Good == {k \in Nat : k <= SegBlocks => Follows(g, turn[k].fs)}
<1>2. 0 \in Good
  BY <1>1, StartedFollows
<1>3. ASSUME NEW k \in Nat, k \in Good PROVE k + 1 \in Good
  <2>1. CASE k + 1 <= SegBlocks
    <3>1. Follows(g, turn[k].fs)
      BY <1>3, <2>1, GeometryFacts
    <3>2. turn[k + 1] = CleanBlock(turn[k], h.media[s], s, k + 1)
      <4>1. k + 1 \in 1 .. SegBlocks /\ (k + 1) - 1 = k
        BY <2>1, GeometryFacts
      <4> HIDE DEF h
      <4> QED
        BY <1>1, <4>1
    <3>3. Follows(turn[k].fs, turn[k + 1].fs)
      BY <3>1, <3>2, CleanBlockFollows DEF Follows
    <3> QED
      BY <3>1, <3>3 DEF Follows
  <2> QED
    BY <2>1
<1>4. Nat \subseteq Good
  <2> HIDE DEF Good
  <2> QED
    BY <1>2, <1>3, InductionOnSets
<1>5. CleanSegment(g, s) = turn[SegBlocks]
  BY <1>1 DEF CleanSegment, Started
<1> QED
  BY <1>4, <1>5, GeometryFacts

LEMMA EraseFollows ==
    ASSUME NEW g, FsTyped(g), NEW s
    PROVE  Follows(g, EraseSegment(g, s))
<1> DEFINE live == [g.live EXCEPT ![s] = 0]
           h == EraseSegment(g, s)
<1>1. live \in LiveCounts
  <2>1. 0 \in 0 .. UIntBlocks - 1
    BY GeometryFacts
  <2> QED
    BY <2>1 DEF FsTyped, LiveCounts
<1>2. /\ DOMAIN h = StateFields /\ h.tail = g.tail
      /\ h.full = g.full \ {s} /\ h.aged = g.aged \ {s} /\ h.live = live
      /\ h.table = [live |-> live, aged |-> g.aged \ {s}]
      /\ h.iFileSize = g.iFileSize /\ h.lapses = g.lapses
  BY DEF EraseSegment, FsTyped, StateFields
<1> QED
  BY <1>1, <1>2 DEF FsTyped, Follows

LEMMA CleanNextFollows ==
    ASSUME NEW acc, FsTyped(acc.fs), NEW s
    PROVE  Follows(acc.fs, CleanNext(acc, s).fs)
<1> DEFINE c == CleanSegment(acc.fs, s)
<1>1. Follows(acc.fs, c.fs)
  BY CleanSegmentFollows
<1>2. Follows(c.fs, EraseSegment(c.fs, s)) /\ Follows(acc.fs, acc.fs)
  BY <1>1, EraseFollows DEF Follows
<1> HIDE DEF c
<1>3. \/ CleanNext(acc, s) = acc
      \/ CleanNext(acc, s).fs \in {c.fs, EraseSegment(c.fs, s)}
  BY DEF CleanNext, SegmentCleaned, c
<1> QED
  BY <1>1, <1>2, <1>3 DEF Follows

LEMMA CleanLogFollows ==
    ASSUME NEW g, FsTyped(g), NEW order, Len(order) \in Nat
    PROVE  Follows(g, CleanLog(g, order).fs)
<1>1. PICK turn :
         /\ turn[0] = [fs |-> g, ret |-> 0,
                       clean |-> Cardinality(CleanSegments(g.table))]
         /\ \A n \in 1 .. Len(order) : turn[n] = CleanNext(turn[n - 1], order[n])
         /\ CleanLog(g, order) = turn[Len(order)]
  BY CleanLogTurns
<1> DEFINE Good == {k \in Nat : k <= Len(order) => Follows(g, turn[k].fs)}
<1>2. 0 \in Good
  BY <1>1 DEF Follows
<1>3. ASSUME NEW k \in Nat, k \in Good PROVE k + 1 \in Good
  <2>1. CASE k + 1 <= Len(order)
    <3>1. Follows(g, turn[k].fs)
      BY <1>3, <2>1
    <3>2. turn[k + 1] = CleanNext(turn[k], order[k + 1])
      <4>1. k + 1 \in 1 .. Len(order) /\ (k + 1) - 1 = k
        BY <2>1
      <4> QED
        BY <1>1, <4>1
    <3>3. Follows(turn[k].fs, turn[k + 1].fs)
      BY <3>1, <3>2, CleanNextFollows DEF Follows
    <3> QED
      BY <3>1, <3>3 DEF Follows
  <2> QED
    BY <2>1
<1>4. Nat \subseteq Good
  <2> HIDE DEF Good
  <2> QED
    BY <1>2, <1>3, InductionOnSets
<1> QED
  BY <1>1, <1>4

\* The segments that are cleaned are segments of the flash, each one once.
LEMMA OrderFacts ==
    ASSUME TypeInv, NEW order \in CleaningOrders(fs.table)
    PROVE  order \in Seq(DataSegments) /\ Len(order) \in Nat
<1>1. IsFiniteSet(DataSegments)
  BY FS_Interval, GeometryFacts DEF DataSegments
<1>2. Candidates(fs.table) \subseteq DataSegments
  BY DEF Candidates, TypeInv, FsTyped
<1>3. Cardinality(Candidates(fs.table)) \in Nat
  BY <1>1, <1>2, FS_Subset, FS_CardinalityType
<1>4. order \in SetToSeqs(Candidates(fs.table))
  BY DEF CleaningOrders
<1>5. order \in [1 .. Cardinality(Candidates(fs.table)) -> Candidates(fs.table)]
  BY <1>4 DEF SetToSeqs
<1>6. order \in Seq(DataSegments)
  BY <1>2, <1>3, <1>5
<1> QED
  BY <1>6

LEMMA RunCleanerTyped ==
    ASSUME TypeInv, RunCleaner
    PROVE  TypeInv'
<1>1. PICK order \in CleaningOrders(fs.table) : fs' = CleanLog(fs, order).fs
  BY DEF RunCleaner
<1>2. FsTyped(fs')
  <2>1. Len(order) \in Nat
    BY OrderFacts
  <2> QED
    BY <1>1, <2>1, CleanLogFollows DEF TypeInv, Follows
<1> QED
  BY <1>2 DEF RunCleaner, TypeInv, ContentsTyped, Promised, Files

\* The cleaner keeps the types too, whichever of its steps is refused or goes
\* wrong.
THEOREM CleanerTypeCorrect == CleanerSpec => []TypeOK
<1>1. TypeInv /\ [CleanerNext]_vars => TypeInv'
  <2> SUFFICES ASSUME TypeInv, [CleanerNext]_vars PROVE TypeInv'
    OBVIOUS
  <2>1. ASSUME NEW i \in INums, Request(i) PROVE TypeInv'
    BY <2>1, RequestTyped
  <2>2. CASE UNCHANGED vars
    BY <2>2 DEF vars, TypeInv, FsTyped, ContentsTyped, Promised, Files
  <2> QED
    BY <2>1, <2>2, RunCleanerTyped DEF CleanerNext
<1> QED
  BY InitTyped, TypeInvImplies, <1>1, PTL DEF CleanerSpec

----------------------------------------------------------------------------
(* Moving a block. *)

\* The files are the ones they were; their blocks may be elsewhere.
SameFiles(M, D, N, E) == \A j \in INums : SameButBlocks(M[j], N[j]) /\ E[j] = D[j]

LEMMA SameFilesFollow ==
    ASSUME NEW M, NEW D, NEW N, NEW E, NEW K, NEW F,
           SameFiles(M, D, N, E), SameFiles(N, E, K, F)
    PROVE  SameFiles(M, D, K, F)
BY DEF SameFiles, SameButBlocks

\* Segment s is not the tail and is as it was, and no file was given a block of
\* it.
Cleared(g, O, s, h, P) ==
    /\ s # h.tail.seg /\ h.media[s] = g.media[s]
    /\ \A x \in Address : x.seg = s => P[x] \in {O[x], Nobody, Leaked}

\* The block at address old was moved out of segment s, or something lapsed.
MoveDone(g, M, D, O, s, old, r) ==
    \/ r.fs.lapses # {}
    \/ /\ r.ret = 0 /\ r.fs.iFileSize = g.iFileSize
       /\ \E N, B, E, P : /\ Settled(r.fs, N, B, E, P) /\ SameFiles(M, D, N, E)
                          /\ Cleared(g, O, s, r.fs, P) /\ P[old] \in {Nobody, Leaked}

\* The inode of file i, in hand with a new address, goes where it belongs.
LEMMA MovedINodeDone ==
    ASSUME NEW g, NEW M, NEW A, NEW D, NEW O, Settled(g, M, A, D, O), g.lapses = {},
           NEW i \in Numbers, NEW b \in BlockNumbers, A[i][b] # NoAddress,
           NEW h, SameState(g, h), NEW inode, SameButBlocks(M[i], inode),
           NEW a \in Address, NEW P,
           View(h, [M EXCEPT ![i] = inode], [A EXCEPT ![i][b] = a], D, P)
    PROVE  LET r == UpdateIFile(h, inode)
           IN  \/ Refused(r.fs)
               \/ /\ r.ret = 0 /\ r.fs.iFileSize = g.iFileSize
                  /\ \E N, B, E, Q : /\ Settled(r.fs, N, B, E, Q) /\ SameFiles(M, D, N, E)
                                     /\ Spared(h, P, r.fs, Q)
<1> DEFINE M1 == [M EXCEPT ![i] = inode]
           A1 == [A EXCEPT ![i][b] = a]
           r  == UpdateIFile(h, inode)
<1>1. /\ View(g, M, A, D, O) /\ M[0] = g.root /\ g.root.fileSize = g.iFileSize
      /\ g.iFileSize \in Nat /\ 0 \in Numbers
      /\ M \in [Numbers -> INode] /\ A \in [Numbers -> [BlockNumbers -> MaybeAddress]]
      /\ \A j \in Numbers : M[j].inum = j
      /\ \A j \in 1 .. g.iFileSize : j \in INums
  BY SettledFacts DEF Tree
<1>2. /\ M1[i] = inode /\ \A j \in Numbers : j # i => M1[j] = M[j]
      /\ inode.inum = i /\ inode.fileSize = M[i].fileSize /\ inode.inUse = M[i].inUse
      /\ \A j \in Numbers : SameButBlocks(M[j], M1[j])
  BY <1>1 DEF SameButBlocks
<1>3. /\ a # NoAddress
      /\ \A j \in Numbers, c \in BlockNumbers :
            A1[j][c] = IF j = i /\ c = b THEN a ELSE A[j][c]
      /\ \A j \in Numbers, c \in BlockNumbers : A1[j][c] = NoAddress <=> A[j][c] = NoAddress
  BY <1>1, SentinelAssumption
<1>4. h.root = g.root /\ h.iFileSize = g.iFileSize /\ h.lapses = {} /\ FsTyped(h)
  BY DEF SameState, View, Ledger
<1> HIDE DEF M1, A1
<1>5. \A j \in INums : Sound(M1, A1, j, g.iFileSize)
  <2> SUFFICES ASSUME NEW j \in INums PROVE Sound(M1, A1, j, g.iFileSize)
    OBVIOUS
  <2>1. j \in Numbers /\ j \in Nat
    BY INumFacts
  <2>2. Sound(M, A, j, g.iFileSize)
    BY DEF Settled
  <2>3. M1[j].inUse = M[j].inUse /\ M1[j].fileSize = M[j].fileSize
    BY <1>2, <2>1 DEF SameButBlocks
  <2>4. CASE j <= g.iFileSize /\ M[j].inUse
    <3>1. M[j].fileSize \in Nat /\ M[j].fileSize <= MaxUnits
      BY <1>1, <2>1, <2>2, <2>4 DEF Sound, INode
    <3>2. \A u \in 0 .. M[j].fileSize - 1 : u \div BlockSize \in BlockNumbers
      BY <3>1, MaxUnitsFacts
    <3> QED
      BY <1>3, <2>1, <2>2, <2>3, <2>4, <3>1, <3>2 DEF Sound
  <2>5. CASE ~ (j <= g.iFileSize /\ M[j].inUse)
    <3>1. M[j].indirect = NoAddress /\ \A c \in BlockNumbers : A[j][c] = NoAddress
      BY <2>2, <2>5 DEF Sound
    <3>2. j # i
      BY <3>1
    <3>3. M1[j] = M[j] /\ \A c \in BlockNumbers : A1[j][c] = NoAddress
      BY <1>2, <1>3, <2>1, <3>1, <3>2
    <3> QED
      BY <2>5, <3>1, <3>3 DEF Sound
  <2> QED
    BY <2>4, <2>5
<1>6. \A j \in 1 .. g.iFileSize : j # i => HasEntry(M1, A1, D, j)
  <2> SUFFICES ASSUME NEW j \in 1 .. g.iFileSize, j # i PROVE HasEntry(M1, A1, D, j)
    OBVIOUS
  <2>1. j \in Numbers /\ (j - 1) \div BlockSize \in BlockNumbers
    BY <1>1, INumFacts
  <2>2. A[0][(j - 1) \div BlockSize] # NoAddress /\ UnitOf(D[0], j - 1) = M[j]
    BY INumFacts DEF Settled, HasEntry
  <2>3. M1[j] = M[j] /\ A1[0][(j - 1) \div BlockSize] # NoAddress
    BY <1>1, <1>2, <1>3, <2>1, <2>2
  <2> QED
    BY <2>2, <2>3, INumFacts DEF HasEntry
<1>7. CASE i = 0
  <2>1. r.ret = 0 /\ r.fs = [h EXCEPT !.root = inode]
    BY <1>2, <1>7, INumFacts DEF UpdateIFile
  <2>2. /\ FsTyped(r.fs) /\ r.fs.media = h.media /\ r.fs.tail = h.tail
        /\ r.fs.live = h.live /\ r.fs.leaked = h.leaked /\ r.fs.full = h.full
        /\ r.fs.root = inode /\ r.fs.iFileSize = h.iFileSize
        /\ r.fs.lapses = {}
    BY <1>4, <2>1 DEF FsTyped, StateFields
  <2> HIDE DEF r
  <2>3. View(r.fs, M1, A1, D, P)
    <3>1. View(h, M1, A1, D, P)
      BY DEF M1, A1
    <3> QED
      BY <2>2, <3>1, ViewSame
  <2>4. Settled(r.fs, M1, A1, D, P)
    <3>1. \A j \in 1 .. g.iFileSize : HasEntry(M1, A1, D, j)
      BY <1>6, <1>7
    <3> QED
      BY <1>1, <1>2, <1>4, <1>5, <1>7, <2>2, <2>3, <3>1, INumFacts DEF Settled
  <2>5. Spared(h, P, r.fs, P)
    BY <2>2 DEF Spared, Pinned
  <2>6. SameFiles(M, D, M1, D)
    BY <1>2, INumFacts DEF SameFiles
  <2> QED
    BY <1>4, <2>1, <2>2, <2>4, <2>5, <2>6 DEF r
<1>8. CASE i # 0
  <2>1. i \in INums /\ i <= g.iFileSize /\ i \in Nat
    <3>1. i \in INums
      BY <1>8, GeometryFacts DEF Numbers, INums
    <3>2. Sound(M, A, i, g.iFileSize)
      BY <3>1 DEF Settled
    <3> QED
      BY <3>1, <3>2, INumFacts DEF Sound
  <2>2. InHand(h, M1, A1, D, P, i)
    <3>1. View(h, M1, A1, D, P)
      BY DEF M1, A1
    <3>2. M1[0] = h.root
      BY <1>1, <1>2, <1>4, <1>8
    <3>3. Max({g.iFileSize, i}) = g.iFileSize
      BY <1>1, <2>1, MaxOfTwo
    <3>4. /\ i <= h.root.fileSize + 1 /\ h.iFileSize = Max({h.root.fileSize, i})
          /\ \A j \in 1 .. h.root.fileSize : j # i => HasEntry(M1, A1, D, j)
          /\ \A j \in INums : Sound(M1, A1, j, h.iFileSize)
      <4>1. h.root.fileSize = g.iFileSize /\ h.iFileSize = g.iFileSize
        BY <1>1, <1>4
      <4>2. i <= g.iFileSize + 1
        BY <1>1, <2>1
      <4> QED
        BY ONLY <1>5, <1>6, <3>3, <4>1, <4>2
    <3> QED
      BY <2>1, <3>1, <3>2, <3>4, INumFacts DEF InHand
  <2>3. Done(h, P, M1, D, h.iFileSize, UpdateIFile(h, M1[i]))
    BY <1>4, <2>2, UpdateIFileDone
  <2>4. r = UpdateIFile(h, M1[i])
    BY <1>2
  <2> HIDE DEF r
  <2>5. CASE Refused(r.fs)
    BY <2>5 DEF r
  <2>6. CASE ~ Refused(r.fs)
    <3>1. PICK N, B, E, Q : /\ Settled(r.fs, N, B, E, Q)
                            /\ \A j \in INums : N[j] = M1[j] /\ E[j] = D[j]
                            /\ Spared(h, P, r.fs, Q)
      BY <2>3, <2>4, <2>6 DEF Done
    <3>2. r.ret = 0 /\ r.fs.iFileSize = g.iFileSize
      BY <1>4, <2>3, <2>4, <2>6 DEF Done
    <3>3. SameFiles(M, D, N, E)
      BY <1>2, <3>1, INumFacts DEF SameFiles
    <3> QED
      BY <3>1, <3>2, <3>3 DEF r
  <2> QED
    BY <2>5, <2>6
<1> QED
  BY <1>7, <1>8

LEMMA BlockMovedDone ==
    ASSUME NEW g, NEW M, NEW A, NEW D, NEW O, Settled(g, M, A, D, O), g.lapses = {},
           NEW i \in Numbers, NEW b \in BlockNumbers,
           NEW s \in DataSegments, s # g.tail.seg,
           NEW old \in Address, old.seg = s, A[i][b] = old
    PROVE  MoveDone(g, M, D, O, s, old,
                    MoveBlock(g, M[i], [inum |-> i, fb |-> b, data |-> D[i][b]], old))
<1> DEFINE data == D[i][b]
           w == Log_Write(g, i, b, data)
           a == w.addr
           h == Leak(w.fs, {old})
           u == UpdateINodeBlock(h, M[i], b, a)
           v == UpdateIFile(u.fs, u.inode)
           r == MoveBlock(g, M[i], [inum |-> i, fb |-> b, data |-> D[i][b]], old)
           L == InUse(O)
           X == {old}
<1>1. /\ View(g, M, A, D, O) /\ Ledger(g, L) /\ FsTyped(g) /\ Tree(M, A, O, g.leaked)
      /\ D \in [Numbers -> [BlockNumbers -> FileBlock]] /\ data \in FileBlock
  BY SettledFacts DEF View, Held
<1>2. old # NoAddress /\ old \in L /\ L \subseteq Address /\ (L \ {old}) \cup X = L
  <2>1. old # NoAddress
    BY SentinelAssumption
  <2>2. old \in L
    BY <1>1, <2>1, TreeFacts
  <2> QED
    BY <2>1, <2>2 DEF InUse
<1>3. r = [fs |-> v.fs, ret |-> w.ret + u.ret + v.ret]
  <2>1. b # INDIRECT_BLOCK
    BY DEF INDIRECT_BLOCK, BlockNumbers
  <2> QED
    BY <2>1 DEF MoveBlock, BlockMoved, INodeMoved
<1>4. Follows(g, w.fs) /\ Follows(w.fs, h) /\ Follows(h, u.fs) /\ Follows(u.fs, v.fs)
  <2>1. Follows(g, w.fs)
    BY <1>1, Log_WriteFollows
  <2>2. Follows(w.fs, h)
    BY <2>1, LeakFollows DEF Follows
  <2>3. Follows(h, u.fs)
    BY <2>2, UpdateINodeBlockFollows DEF AccFollows, Follows
  <2> QED
    BY <2>1, <2>2, <2>3, UpdateIFileFollows DEF Follows
<1>5. [inum |-> i, fb |-> b, data |-> data] # NO_INUM
  <2>1. [inum |-> i, fb |-> b, data |-> data] \in SummarySlot
    BY <1>1, BlockNumberFacts DEF SummarySlot, Numbers
  <2> QED
    BY <2>1, SentinelAssumption
<1> HIDE DEF w, L, data, r
<1>6. \/ Refused(w.fs)
      \/ /\ w.ret = 0
         /\ a \in Address \ L /\ a.seg = g.tail.seg
         /\ Ledger(w.fs, L \cup {a})
         /\ SameFile(g, w.fs) /\ Keeps(g, w.fs, L)
         /\ SlotAt(w.fs, a) = [inum |-> i, fb |-> b, data |-> data]
  <2>1. b \in Labels
    BY DEF Labels
  <2>2. \/ Refused(Log_Write(g, i, b, data).fs)
        \/ LET x == Log_Write(g, i, b, data)
           IN  /\ x.ret = 0
               /\ x.addr \in Address \ L /\ x.addr.seg = g.tail.seg
               /\ Ledger(x.fs, L \cup {x.addr})
               /\ SameFile(g, x.fs) /\ Keeps(g, x.fs, L)
               /\ SlotAt(x.fs, x.addr) = [inum |-> i, fb |-> b, data |-> data]
    <3>1. Ledger(g, L) /\ i \in Numbers
      BY <1>1
    <3> QED
      BY ONLY <1>5, <2>1, <3>1, LedgerWritten
  <2> QED
    BY <2>2 DEF w
<1>7. CASE Refused(w.fs)
  <2>1. Refused(v.fs)
    BY <1>4, <1>7, RefusedStays
  <2> QED
    BY <1>3, <2>1 DEF MoveDone, Refused, r
<1>8. CASE /\ w.ret = 0
           /\ a \in Address \ L /\ a.seg = g.tail.seg
           /\ Ledger(w.fs, L \cup {a})
           /\ SameFile(g, w.fs) /\ Keeps(g, w.fs, L)
           /\ SlotAt(w.fs, a) = [inum |-> i, fb |-> b, data |-> data]
  <2> HIDE DEF v, u
  <2>1. /\ h.media = w.fs.media /\ h.tail = w.fs.tail /\ h.live = w.fs.live
        /\ h.full = w.fs.full /\ h.leaked = w.fs.leaked \cup {old}
        /\ h.root = w.fs.root /\ h.iFileSize = w.fs.iFileSize
        /\ h.lapses = w.fs.lapses /\ FsTyped(h)
    BY <1>2, <1>4 DEF Leak, Follows, FsTyped, StateFields
  <2> HIDE DEF h
  <2>2. /\ Ledger(h, L \cup {a}) /\ Keeps(g, h, L) /\ SameState(g, h)
        /\ SlotAt(h, a) = [inum |-> i, fb |-> b, data |-> data]
        /\ h.leaked = g.leaked \cup X
    <3>1. Ledger(w.fs, L \cup {a})
      BY <1>8
    <3>2. Ledger(h, L \cup {a})
      BY ONLY <2>1, <3>1 DEF Ledger
    <3>3. \A x : SlotAt(h, x) = SlotAt(w.fs, x)
      BY <2>1 DEF SlotAt, Slots
    <3> HIDE DEF a
    <3> QED
      BY <1>8, <2>1, <3>2, <3>3 DEF Keeps, Unwritten, SameState, SameFile
  <2>3. AddressDone(g, M, A, D, O, i, b, data, a, X, L, u)
    <3>1. L = (InUse(O) \ {A[i][b]}) \cup X /\ Left(g, h, X, A[i][b], NoAddress)
      BY <1>2, <2>2 DEF L, Left
    <3>2. a \in Address /\ a.seg = g.tail.seg /\ a \notin L /\ data \in FileBlock
      BY <1>1, <1>8
    <3>3. View(g, M, A, D, O) /\ i \in Numbers /\ b \in BlockNumbers
      BY <1>1
    <3>4. u = UpdateINodeBlock(h, M[i], b, a)
      BY DEF u
    <3> HIDE DEF a, X
    <3> QED
      BY ONLY <2>2, <3>1, <3>2, <3>3, <3>4, BlockPlaced
  <2>4. CASE Refused(u.fs)
    <3>1. Refused(v.fs)
      BY <1>4, <2>4, RefusedStays
    <3> QED
      BY <1>3, <3>1 DEF MoveDone, Refused, r
  <2>5. CASE ~ Refused(u.fs)
    <3> DEFINE M1 == [M EXCEPT ![i] = u.inode]
               A1 == [A EXCEPT ![i][b] = a]
    <3>1. PICK P : View(u.fs, M1, A1, [D EXCEPT ![i][b] = data], P)
                   /\ Untouched(g, O, L, u.fs, P)
      BY <2>3, <2>5 DEF AddressDone
    <3>2. /\ u.ret = 0 /\ SameState(g, u.fs) /\ SameButBlocks(M[i], u.inode)
          /\ old \in u.fs.leaked
      BY <2>3, <2>5 DEF AddressDone
    <3>3. [D EXCEPT ![i][b] = data] = D
      BY <1>1 DEF data
    <3>4. Cleared(g, O, s, u.fs, P) /\ Pinned(u.fs, s) /\ P[old] = Leaked
      <4>1. BlocksIn(L, s) # {}
        BY <1>2, AddressParts DEF BlocksIn
      <4>2. Tree(M1, A1, P, u.fs.leaked)
        BY <3>1 DEF View
      <4> HIDE DEF M1, A1
      <4>3. P[old] = Leaked
        BY <3>2, <4>2, TreeFacts
      <4> QED
        BY <3>1, <3>2, <4>1, <4>3 DEF Untouched, Cleared, Pinned
    <3>5. \/ Refused(v.fs)
          \/ /\ v.ret = 0 /\ v.fs.iFileSize = g.iFileSize
             /\ \E N, B, E, Q : /\ Settled(v.fs, N, B, E, Q) /\ SameFiles(M, D, N, E)
                                /\ Spared(u.fs, P, v.fs, Q)
      <4>1. View(u.fs, [M EXCEPT ![i] = u.inode], [A EXCEPT ![i][b] = a], D, P)
        BY <3>1, <3>3
      <4>2. a \in Address /\ A[i][b] # NoAddress
        BY <1>2, <1>8
      <4> HIDE DEF a
      <4> QED
        BY <3>2, <4>1, <4>2, MovedINodeDone DEF v
    <3>6. CASE Refused(v.fs)
      BY <1>3, <3>6 DEF MoveDone, Refused, r
    <3>7. CASE ~ Refused(v.fs)
      <4>1. PICK N, B, E, Q : /\ Settled(v.fs, N, B, E, Q) /\ SameFiles(M, D, N, E)
                              /\ Spared(u.fs, P, v.fs, Q)
        BY <3>5, <3>7
      <4>2. r.fs = v.fs /\ r.ret = 0 /\ v.fs.iFileSize = g.iFileSize
        BY <1>3, <1>8, <3>2, <3>5, <3>7 DEF r
      <4>3. Cleared(g, O, s, v.fs, Q) /\ Q[old] \in {Nobody, Leaked}
        <5>1. /\ Pinned(v.fs, s) /\ v.fs.media[s] = u.fs.media[s]
              /\ \A x \in Address : x.seg = s => Q[x] \in {P[x], Nobody, Leaked}
          BY <3>4, <4>1 DEF Spared
        <5>2. /\ u.fs.media[s] = g.media[s]
              /\ \A x \in Address : x.seg = s => P[x] \in {O[x], Nobody, Leaked}
          BY <3>4 DEF Cleared
        <5>3. \A x \in Address : x.seg = s => Q[x] \in {O[x], Nobody, Leaked}
          BY <5>1, <5>2
        <5>4. Q[old] \in {Nobody, Leaked}
          BY <3>4, <5>1
        <5> QED
          BY <5>1, <5>2, <5>3, <5>4 DEF Cleared, Pinned
      <4> QED
        BY <4>1, <4>2, <4>3 DEF MoveDone, r
    <3> QED
      BY <3>6, <3>7
  <2> QED
    BY <2>4, <2>5
<1> QED
  BY <1>6, <1>7, <1>8

----------------------------------------------------------------------------
(* Cleaning a segment. *)

\* Blocks 1 .. n of segment s, which held slots, were looked at: no file has one
\* of them any more, or something lapsed.
BlocksCleaned(g, M, D, slots, s, n, acc) ==
    \/ acc.fs.lapses # {}
    \/ /\ acc.ret = 0 /\ acc.fs.lapses = {} /\ acc.fs.iFileSize = g.iFileSize
       /\ \E N, B, E, P :
             /\ Settled(acc.fs, N, B, E, P) /\ SameFiles(M, D, N, E)
             /\ s # acc.fs.tail.seg /\ acc.fs.media[s] = slots
             /\ \A b \in 1 .. SegBlocks, i \in Numbers :
                   P[At(s, b)] = <<i, INDIRECT_BLOCK>> => slots[b].fb = INDIRECT_BLOCK
             /\ \A b \in 1 .. n : P[At(s, b)] \in {Nobody, Leaked}

LEMMA ThrowLapses ==
    ASSUME NEW g, FsTyped(g)
    PROVE  Throw(g).lapses # {}
BY DEF Throw, Lapse, FsTyped, StateFields

\* The owners of a block in use.
LEMMA OwnerFacts ==
    ASSUME NEW M, NEW A, NEW O, NEW leaked, Tree(M, A, O, leaked), NEW a \in Address
    PROVE  \/ O[a] \in {Nobody, Leaked}
           \/ \E i \in Numbers : M[i].indirect = a /\ O[a] = <<i, INDIRECT_BLOCK>>
           \/ \E i \in Numbers, b \in BlockNumbers : A[i][b] = a /\ O[a] = <<i, b>>
<1>1. a # NoAddress
  BY SentinelAssumption
<1>2. \/ O[a] \in {Nobody, Leaked}
      \/ \E i \in Numbers : M[i].indirect = a
      \/ \E i \in Numbers, b \in BlockNumbers : A[i][b] = a
  BY DEF Tree
<1>3. ASSUME NEW i \in Numbers, M[i].indirect = a PROVE O[a] = <<i, INDIRECT_BLOCK>>
  BY <1>1, <1>3, TreeFacts
<1>4. ASSUME NEW i \in Numbers, NEW b \in BlockNumbers, A[i][b] = a PROVE O[a] = <<i, b>>
  BY <1>1, <1>4, TreeFacts
<1> QED
  BY <1>2, <1>3, <1>4

\* Where the cleaner finds the block that a summary names.
LEMMA CurrentAddressFound ==
    ASSUME NEW g, NEW M, NEW A, NEW D, NEW O, View(g, M, A, D, O),
           NEW i \in Numbers, NEW c \in Labels
    PROVE  /\ c = INDIRECT_BLOCK => CurrentAddress(g, M[i], c) = M[i].indirect
           /\ c # INDIRECT_BLOCK =>
                 c \in BlockNumbers /\ CurrentAddress(g, M[i], c) = A[i][c]
           /\ CurrentAddress(g, M[i], c) # Dead
<1>1. M[i].indirect \in MaybeAddress /\ A[i] \in [BlockNumbers -> MaybeAddress]
  BY DEF View, Tree, INode
<1>2. CASE c = INDIRECT_BLOCK
  BY <1>1, <1>2, SentinelAssumption DEF CurrentAddress
<1>3. CASE c # INDIRECT_BLOCK
  <2>1. c \in BlockNumbers
    BY <1>3, CleanerAssumption, GeometryFacts DEF Labels, BlockNumbers
  <2>2. CurrentAddress(g, M[i], c) = A[i][c]
    BY <1>3, <2>1, ViewReadsBlock DEF CurrentAddress
  <2> QED
    BY <1>1, <1>3, <2>1, <2>2, SentinelAssumption
<1> QED
  BY <1>2, <1>3

LEMMA CleanBlockDone ==
    ASSUME NEW g, NEW M, NEW D, NEW slots, NEW s \in DataSegments,
           NEW n \in Nat, n + 1 \in 1 .. SegBlocks,
           NEW acc, FsTyped(acc.fs), BlocksCleaned(g, M, D, slots, s, n, acc)
    PROVE  BlocksCleaned(g, M, D, slots, s, n + 1, CleanBlock(acc, slots, s, n + 1))
<1> DEFINE f == acc.fs
           r == CleanBlock(acc, slots, s, n + 1)
           a == At(s, n + 1)
           slot == slots[n + 1]
<1>1. CASE f.lapses # {}
  <2>1. Follows(f, r.fs)
    BY CleanBlockFollows
  <2> QED
    BY <1>1, <2>1 DEF BlocksCleaned, Follows
<1>2. CASE f.lapses = {}
  <2>1. acc.ret = 0 /\ f.iFileSize = g.iFileSize
    BY <1>2 DEF BlocksCleaned
  <2>2. PICK N, B, E, P :
          /\ Settled(f, N, B, E, P) /\ SameFiles(M, D, N, E)
          /\ s # f.tail.seg /\ f.media[s] = slots
          /\ \A b \in 1 .. SegBlocks, i \in Numbers :
                P[At(s, b)] = <<i, INDIRECT_BLOCK>> => slots[b].fb = INDIRECT_BLOCK
          /\ \A b \in 1 .. n : P[At(s, b)] \in {Nobody, Leaked}
    BY <1>2 DEF BlocksCleaned
  <2>3. /\ View(f, N, B, E, P) /\ Tree(N, B, P, f.leaked) /\ Ledger(f, InUse(P))
        /\ Held(f, N, B, E) /\ N[0] = f.root
    BY <2>2, SettledFacts DEF View
  <2>4. a \in Address /\ a.seg = s /\ a.blk = n + 1
    BY AtIsAddress
  <2>5. SlotAt(f, a) = slot
    BY <2>2, <2>4 DEF SlotAt, Slots
  <2>6. ASSUME r = acc, P[a] \in {Nobody, Leaked}
        PROVE  BlocksCleaned(g, M, D, slots, s, n + 1, r)
    <3>1. \A b \in 1 .. n + 1 : P[At(s, b)] \in {Nobody, Leaked}
      BY <2>2, <2>6
    <3> QED
      BY <1>2, <2>1, <2>2, <2>6, <3>1 DEF BlocksCleaned
  <2>7. ASSUME r.fs = Throw(f) PROVE BlocksCleaned(g, M, D, slots, s, n + 1, r)
    BY <2>7, ThrowLapses DEF BlocksCleaned
  <2>8. CASE slot = NO_INUM
    <3>1. P[a] = Nobody
      BY <2>3, <2>4, <2>5, <2>8, SlotOfLedger DEF InUse
    <3>2. r = acc
      BY <2>8 DEF CleanBlock
    <3> QED
      BY <2>6, <3>1, <3>2
  <2>9. CASE slot # NO_INUM
    <3> DEFINE i == slot.inum
               c == slot.fb
    <3>1. i \in Numbers /\ c \in Labels
      BY <2>2, <2>3, <2>9 DEF Ledger, Labelled
    <3>2. GetINode(f, i) = Dead \/ GetINode(f, i) = N[i]
      <4>1. i = 0 \/ i \in 1 .. f.iFileSize \/ i > f.iFileSize
        BY <2>2, <3>1, SettledFacts DEF Numbers
      <4>2. CASE i = 0
        BY <2>2, <2>3, <4>2, SettledFacts DEF GetINode, IFILE_INUM
      <4>3. CASE i \in 1 .. f.iFileSize
        BY <2>2, <4>3, SettledINode
      <4>4. CASE i > f.iFileSize
        <5>1. i # IFILE_INUM
          BY <2>2, <4>4, SettledFacts, INumFacts
        <5> HIDE DEF i
        <5> QED
          BY <4>4, <5>1 DEF GetINode
      <4> QED
        BY <4>1, <4>2, <4>3, <4>4
    <3>3. CASE GetINode(f, i) = Dead
      BY <2>1, <2>7, <2>9, <3>3 DEF CleanBlock
    <3>4. CASE GetINode(f, i) # Dead
      <4> DEFINE current == CurrentAddress(f, N[i], c)
      <4>1. GetINode(f, i) = N[i]
        BY <3>2, <3>4
      <4>2. /\ c = INDIRECT_BLOCK => current = N[i].indirect
            /\ c # INDIRECT_BLOCK => c \in BlockNumbers /\ current = B[i][c]
            /\ current # Dead
        BY <2>3, <3>1, CurrentAddressFound
      <4>3. r = IF current # a THEN acc ELSE MoveBlock(f, N[i], slot, current)
        BY <2>1, <2>9, <3>4, <4>1, <4>2 DEF CleanBlock, At
      <4> HIDE DEF current, r
      <4>4. CASE current # a
        <5>1. ASSUME NEW j \in Numbers, N[j].indirect = a, P[a] = <<j, INDIRECT_BLOCK>>
              PROVE  FALSE
          <6>1. c = INDIRECT_BLOCK
            BY <2>2, <5>1
          <6>2. i = j
            BY <2>3, <2>4, <2>5, <5>1, SentinelAssumption DEF Held
          <6> QED
            BY <4>2, <4>4, <5>1, <6>1, <6>2
        <5>2. ASSUME NEW j \in Numbers, NEW b \in BlockNumbers, B[j][b] = a
              PROVE  FALSE
          <6>1. slot = [inum |-> j, fb |-> b, data |-> E[j][b]]
            BY <2>3, <2>4, <2>5, <5>2, SentinelAssumption DEF Held
          <6>2. i = j /\ c = b
            BY <6>1
          <6>3. c # INDIRECT_BLOCK
            BY <6>2 DEF INDIRECT_BLOCK, BlockNumbers
          <6> QED
            BY <4>2, <4>4, <5>2, <6>2, <6>3
        <5>3. P[a] \in {Nobody, Leaked}
          BY <2>3, <2>4, <5>1, <5>2, OwnerFacts
        <5> QED
          BY <2>6, <4>3, <4>4, <5>3 DEF r
      <4>5. CASE current = a /\ c = INDIRECT_BLOCK
        <5> DEFINE w == Log_Write(f, i, c, slot.data)
        <5>1. r = StrayStore(w)
          BY <4>3, <4>5 DEF MoveBlock
        <5>2. FsTyped(w.fs)
          BY Log_WriteFollows DEF Follows
        <5> HIDE DEF w
        <5>3. r.fs.lapses # {}
          BY <5>1, <5>2, ThrowLapses DEF StrayStore
        <5> QED
          BY <5>3 DEF BlocksCleaned, r
      <4>6. CASE current = a /\ c # INDIRECT_BLOCK
        <5>1. B[i][c] = a /\ c \in BlockNumbers
          BY <4>2, <4>6
        <5>2. slot = [inum |-> i, fb |-> c, data |-> E[i][c]]
          BY <2>3, <2>4, <2>5, <3>1, <5>1, SentinelAssumption DEF Held
        <5>3. r = MoveBlock(f, N[i], [inum |-> i, fb |-> c, data |-> E[i][c]], a)
          BY <4>3, <4>6, <5>2
        <5> HIDE DEF a, slot, i, c
        <5>4. MoveDone(f, N, E, P, s, a, r)
          BY <1>2, <2>2, <2>4, <3>1, <5>1, <5>3, BlockMovedDone
        <5>5. CASE r.fs.lapses # {}
          BY <5>5 DEF BlocksCleaned, r
        <5>6. CASE r.fs.lapses = {}
          <6>1. PICK K, C, F, Q : /\ Settled(r.fs, K, C, F, Q) /\ SameFiles(N, E, K, F)
                                  /\ Cleared(f, P, s, r.fs, Q) /\ Q[a] \in {Nobody, Leaked}
            BY <5>4, <5>6 DEF MoveDone
          <6>2. r.ret = 0 /\ r.fs.iFileSize = g.iFileSize
            BY <2>1, <5>4, <5>6 DEF MoveDone
          <6>3. SameFiles(M, D, K, F)
            BY <2>2, <6>1, SameFilesFollow
          <6>4. s # r.fs.tail.seg /\ r.fs.media[s] = slots
            BY <2>2, <6>1 DEF Cleared
          <6>5. \A b \in 1 .. SegBlocks : Q[At(s, b)] \in {P[At(s, b)], Nobody, Leaked}
            BY <6>1, AtIsAddress DEF Cleared
          <6>6. \A b \in 1 .. SegBlocks, j \in Numbers :
                   Q[At(s, b)] = <<j, INDIRECT_BLOCK>> => slots[b].fb = INDIRECT_BLOCK
            <7>1. \A j \in Numbers : <<j, INDIRECT_BLOCK>> \notin {Nobody, Leaked}
              BY DEF Nobody, Leaked, Numbers
            <7> QED
              BY <2>2, <6>5, <7>1
          <6>7. \A b \in 1 .. n + 1 : Q[At(s, b)] \in {Nobody, Leaked}
            <7>1. \A b \in 1 .. n : b \in 1 .. SegBlocks
              BY GeometryFacts
            <7> QED
              BY <2>2, <6>1, <6>5, <7>1 DEF a
          <6> QED
            BY <5>6, <6>1, <6>2, <6>3, <6>4, <6>6, <6>7 DEF BlocksCleaned, r
        <5> QED
          BY <5>5, <5>6 DEF r
      <4> QED
        BY <4>4, <4>5, <4>6 DEF r
    <3> QED
      BY <3>3, <3>4
  <2> QED
    BY <2>8, <2>9
<1> QED
  BY <1>1, <1>2

\* A segment that is neither stale nor has lost an indirect block.
LEMMA SegmentStarted ==
    ASSUME NEW g, NEW M, NEW A, NEW D, NEW O, Settled(g, M, A, D, O), g.lapses = {},
           NEW s \in DataSegments
    PROVE  LET h == Started(g, s)
           IN  BlocksCleaned(g, M, D, h.media[s], s, 0, [fs |-> h, ret |-> 0])
<1> DEFINE h == Started(g, s)
<1>1. FsTyped(g) /\ Tree(M, A, O, g.leaked) /\ View(g, M, A, D, O)
  BY SettledFacts
<1>2. /\ h.lapses = CleanerLapses(g, s) /\ FsTyped(h)
      /\ h.media = g.media /\ h.tail = g.tail /\ h.live = g.live /\ h.full = g.full
      /\ h.leaked = g.leaked /\ h.root = g.root /\ h.iFileSize = g.iFileSize
  BY <1>1, StartedFollows DEF Started, FsTyped, StateFields, Follows
<1> HIDE DEF h
<1>3. CASE h.lapses # {}
  BY <1>3 DEF BlocksCleaned, h
<1>4. CASE h.lapses = {}
  <2>1. Settled(h, M, A, D, O)
    <3>1. View(h, M, A, D, O)
      BY <1>1, <1>2, <1>4, ViewSame
    <3> QED
      BY <1>2, <3>1 DEF Settled
  <2>2. /\ s # g.tail.seg
        /\ \A a \in IndirectBlocks(g) :
              a.seg = s => g.media[s][a.blk].fb = INDIRECT_BLOCK
    <3>1. "stale" \notin CleanerLapses(g, s) /\ "lost" \notin CleanerLapses(g, s)
      BY <1>2, <1>4
    <3> QED
      BY <3>1 DEF CleanerLapses
  <2>3. ASSUME NEW b \in 1 .. SegBlocks, NEW i \in Numbers,
               O[At(s, b)] = <<i, INDIRECT_BLOCK>>
        PROVE  g.media[s][b].fb = INDIRECT_BLOCK
    <3> DEFINE a == At(s, b)
    <3>1. a \in Address /\ a.seg = s /\ a.blk = b
      BY AtIsAddress
    <3>2. M[i].indirect = a
      <4>1. <<i, INDIRECT_BLOCK>> \notin {Nobody, Leaked}
        BY DEF Nobody, Leaked, Numbers
      <4>2. \A c \in BlockNumbers : c # INDIRECT_BLOCK
        BY DEF INDIRECT_BLOCK, BlockNumbers
      <4> HIDE DEF a
      <4>3. O[a] = <<i, INDIRECT_BLOCK>>
        BY <2>3 DEF a
      <4>4. ASSUME NEW j \in Numbers, O[a] = <<j, INDIRECT_BLOCK>> PROVE j = i
        BY <4>3, <4>4
      <4>5. ASSUME NEW j \in Numbers, NEW c \in BlockNumbers, O[a] = <<j, c>> PROVE FALSE
        BY <4>2, <4>3, <4>5
      <4>6. O[a] \notin {Nobody, Leaked}
        BY <4>1, <4>3
      <4> QED
        BY <1>1, <3>1, <4>4, <4>5, <4>6, OwnerFacts
    <3>3. a # NoAddress
      BY <3>1, SentinelAssumption
    <3>4. i \in 0 .. g.iFileSize
      <4>1. CASE i = 0
        BY <4>1, SettledFacts
      <4>2. CASE i # 0
        <5>1. i \in INums
          BY <4>2, GeometryFacts DEF Numbers, INums
        <5>2. Sound(M, A, i, g.iFileSize)
          BY <5>1 DEF Settled
        <5> QED
          BY <3>2, <3>3, <5>1, <5>2, SettledFacts, INumFacts DEF Sound
      <4> QED
        BY <4>1, <4>2
    <3>5. a \in IndirectBlocks(g)
      <4>1. INodesOf(g) = {M[j] : j \in 0 .. g.iFileSize}
        BY SettledNamed
      <4> QED
        BY <3>2, <3>3, <3>4, <4>1 DEF IndirectBlocks
    <3> QED
      BY <2>2, <3>1, <3>5
  <2>4. SameFiles(M, D, M, D)
    BY DEF SameFiles, SameButBlocks
  <2>5. \A b \in 1 .. 0 : O[At(s, b)] \in {Nobody, Leaked}
    OBVIOUS
  <2>6. /\ h.iFileSize = g.iFileSize /\ s # h.tail.seg /\ h.media[s] = h.media[s]
        /\ \A b \in 1 .. SegBlocks, i \in Numbers :
              O[At(s, b)] = <<i, INDIRECT_BLOCK>> => h.media[s][b].fb = INDIRECT_BLOCK
    BY <1>2, <2>2, <2>3
  <2> DEFINE acc == [fs |-> h, ret |-> 0]
  <2>7. acc.fs = h /\ acc.ret = 0
    OBVIOUS
  <2> HIDE DEF acc
  <2>8. BlocksCleaned(g, M, D, h.media[s], s, 0, acc)
    BY <1>4, <2>1, <2>4, <2>5, <2>6, <2>7 DEF BlocksCleaned
  <2> QED
    BY <2>8 DEF acc, h
<1> QED
  BY <1>3, <1>4

LEMMA CleanSegmentDone ==
    ASSUME NEW g, NEW M, NEW A, NEW D, NEW O, Settled(g, M, A, D, O), g.lapses = {},
           NEW s \in DataSegments
    PROVE  \E slots : BlocksCleaned(g, M, D, slots, s, SegBlocks, CleanSegment(g, s))
<1> DEFINE h == Started(g, s)
           slots == h.media[s]
<1>1. PICK turn :
         /\ turn[0] = [fs |-> h, ret |-> 0]
         /\ \A n \in 1 .. SegBlocks :
               turn[n] = CleanBlock(turn[n - 1], h.media[s], s, n)
         /\ CleanBlocks(h, s, SegBlocks) = turn[SegBlocks]
  BY CleanBlocksTurns
<1>2. FsTyped(g) /\ FsTyped(h)
  BY SettledFacts, StartedFollows DEF Follows
<1>3. BlocksCleaned(g, M, D, slots, s, 0, turn[0])
  BY <1>1, SegmentStarted
<1>4. turn[0].fs = h
  BY <1>1
<1> HIDE DEF h, slots
<1> DEFINE Good == {k \in Nat : k <= SegBlocks =>
                      FsTyped(turn[k].fs) /\ BlocksCleaned(g, M, D, slots, s, k, turn[k])}
<1>5. 0 \in Good
  BY <1>2, <1>3, <1>4
<1>6. ASSUME NEW k \in Nat, k \in Good PROVE k + 1 \in Good
  <2>1. CASE k + 1 <= SegBlocks
    <3>1. FsTyped(turn[k].fs) /\ BlocksCleaned(g, M, D, slots, s, k, turn[k])
      BY <1>6, <2>1, GeometryFacts
    <3>2. k + 1 \in 1 .. SegBlocks /\ (k + 1) - 1 = k
      BY <2>1, GeometryFacts
    <3>3. turn[k + 1] = CleanBlock(turn[k], slots, s, k + 1)
      BY <1>1, <3>2 DEF slots
    <3>4. BlocksCleaned(g, M, D, slots, s, k + 1, turn[k + 1])
      BY <3>1, <3>2, <3>3, CleanBlockDone
    <3>5. FsTyped(turn[k + 1].fs)
      BY <3>1, <3>3, CleanBlockFollows DEF Follows
    <3> QED
      BY <3>4, <3>5
  <2> QED
    BY <2>1
<1>7. Nat \subseteq Good
  <2> HIDE DEF Good
  <2> QED
    BY <1>5, <1>6, InductionOnSets
<1>8. CleanSegment(g, s) = turn[SegBlocks]
  BY <1>1 DEF CleanSegment, Started, h
<1>9. BlocksCleaned(g, M, D, slots, s, SegBlocks, turn[SegBlocks])
  BY <1>7, GeometryFacts
<1> QED
  BY <1>8, <1>9

----------------------------------------------------------------------------
(* Erasing a segment. *)

\* A segment in which no file has a block can be erased.
LEMMA EraseDone ==
    ASSUME NEW g, NEW M, NEW A, NEW D, NEW O, Settled(g, M, A, D, O),
           NEW s \in DataSegments, s # g.tail.seg,
           \A b \in 1 .. SegBlocks : O[At(s, b)] \in {Nobody, Leaked}
    PROVE  Settled(EraseSegment(g, s), M, A, D,
                   [x \in Address |-> IF x.seg = s THEN Nobody ELSE O[x]])
<1> DEFINE h == EraseSegment(g, s)
           Q == [x \in Address |-> IF x.seg = s THEN Nobody ELSE O[x]]
           L == InUse(O)
           K == InUse(Q)
<1>1. /\ View(g, M, A, D, O) /\ FsTyped(g) /\ Tree(M, A, O, g.leaked)
      /\ Ledger(g, L) /\ Held(g, M, A, D)
  BY SettledFacts DEF View
<1>2. /\ h.media = g.media /\ h.tail = g.tail /\ h.root = g.root
      /\ h.iFileSize = g.iFileSize /\ h.full = g.full \ {s}
      /\ h.lapses = g.lapses /\ h.live = [g.live EXCEPT ![s] = 0]
      /\ h.leaked = {a \in g.leaked : a.seg # s}
  BY <1>1 DEF EraseSegment, FsTyped, StateFields
<1>3. FsTyped(h)
  BY <1>1, EraseFollows DEF Follows
<1> HIDE DEF h
<1>4. \A x \in Address : Q[x] = IF x.seg = s THEN Nobody ELSE O[x]
  OBVIOUS
<1>5. DOMAIN Q = Address
  OBVIOUS
<1> HIDE DEF Q
<1>6. \A x \in Address : x.seg = s => O[x] \in {Nobody, Leaked}
  BY AddressParts
<1>7. K = {x \in L : x.seg # s}
  BY <1>4 DEF InUse
<1>8. K \subseteq L /\ \A t \in DataSegments :
         BlocksIn(K, t) = IF t = s THEN {} ELSE BlocksIn(L, t)
  BY <1>7, AtIsAddress DEF BlocksIn
<1>9. Ledger(h, K)
  <2> HIDE DEF K, L
  <2>1. K \subseteq Address /\ \A a \in K : a.seg \in h.full \cup {h.tail.seg}
    BY <1>1, <1>2, <1>7 DEF Ledger
  <2>2. /\ DOMAIN h.media = DataSegments
        /\ \A t \in DataSegments : Labelled(h.media[t])
        /\ Labelled(h.tail.slots)
    BY <1>1, <1>2 DEF Ledger
  <2>3. ASSUME NEW t \in DataSegments \ {h.tail.seg}
        PROVE  /\ h.live[t] = Cardinality(BlocksIn(K, t))
               /\ \A b \in BlocksIn(K, t) : h.media[t][b] # NO_INUM
    <3>1. CASE t = s
      <4>1. BlocksIn(K, t) = {} /\ Cardinality(BlocksIn(K, t)) = 0
        BY <1>8, <3>1, BlocksInFinite
      <4>2. h.live[t] = 0
        BY <1>1, <1>2, <3>1 DEF FsTyped, LiveCounts
      <4> QED
        BY <4>1, <4>2
    <3>2. CASE t # s
      <4>1. h.live[t] = g.live[t]
        BY <1>1, <1>2, <3>2 DEF FsTyped, LiveCounts
      <4>2. BlocksIn(K, t) = BlocksIn(L, t)
        BY <1>8, <3>2
      <4> QED
        BY <1>1, <1>2, <4>1, <4>2 DEF Ledger
    <3> QED
      BY <3>1, <3>2
  <2>4. h.tail.seg \in DataSegments =>
          /\ DOMAIN h.tail.slots = 1 .. SegBlocks
          /\ SegBlocks \in EmptyBlocks(h.tail.slots)
          /\ EmptyBlocks(h.tail.slots) = (1 .. SegBlocks) \ BlocksIn(K, h.tail.seg)
    <3>1. h.tail.seg \in DataSegments => BlocksIn(K, h.tail.seg) = BlocksIn(L, g.tail.seg)
      BY <1>2, <1>8
    <3> QED
      BY <1>1, <1>2, <3>1 DEF Ledger
  <2> QED
    BY <1>1, <1>2, <1>3, <2>1, <2>2, <2>3, <2>4 DEF Ledger
<1>10. Tree(M, A, Q, h.leaked)
  <2>1. \A x \in Address : O[x] \notin {Nobody, Leaked} => Q[x] = O[x]
    BY <1>4, <1>6
  <2>2. ASSUME NEW i \in Numbers, NEW b \in BlockNumbers, A[i][b] # NoAddress
        PROVE  Q[A[i][b]] = <<i, b>>
    <3>1. A[i][b] \in Address /\ O[A[i][b]] = <<i, b>>
      BY <1>1, <2>2, TreeFacts
    <3>2. <<i, b>> \notin {Nobody, Leaked}
      BY DEF Nobody, Leaked, Numbers
    <3> QED
      BY <2>1, <3>1, <3>2
  <2>3. ASSUME NEW i \in Numbers, M[i].indirect # NoAddress
        PROVE  Q[M[i].indirect] = <<i, INDIRECT_BLOCK>>
    <3>1. M[i].indirect \in Address /\ O[M[i].indirect] = <<i, INDIRECT_BLOCK>>
      BY <1>1, <2>3, TreeFacts
    <3>2. <<i, INDIRECT_BLOCK>> \notin {Nobody, Leaked}
      BY DEF Nobody, Leaked, Numbers
    <3> QED
      BY <2>1, <3>1, <3>2
  <2>4. h.leaked \subseteq Address /\ \A a \in h.leaked : Q[a] = Leaked
    BY <1>1, <1>2, <1>4 DEF Tree
  <2>5. ASSUME NEW a \in Address
        PROVE  \/ Q[a] = Nobody
               \/ Q[a] = Leaked /\ a \in h.leaked
               \/ \E i \in Numbers : M[i].indirect = a
               \/ \E i \in Numbers, b \in BlockNumbers : A[i][b] = a
    <3>1. CASE a.seg = s
      BY <1>4, <3>1
    <3>2. CASE a.seg # s
      <4>1. Q[a] = O[a] /\ (a \in g.leaked => a \in h.leaked)
        BY <1>2, <1>4, <3>2
      <4> QED
        BY <1>1, <4>1 DEF Tree
    <3> QED
      BY <3>1, <3>2
  <2> QED
    BY <1>1, <1>5, <2>2, <2>3, <2>4, <2>5 DEF Tree
<1>11. Held(h, M, A, D)
  <2>1. \A a : SlotAt(h, a) = SlotAt(g, a)
    BY <1>2 DEF SlotAt, Slots
  <2>2. \A i \in Numbers :
           M[i].indirect # NoAddress =>
              /\ SlotAt(h, M[i].indirect).inum = i
              /\ SlotAt(h, M[i].indirect).data
                   = [c \in 0 .. NIndirect - 1 |-> A[i][NDirect + c]]
    <3> SUFFICES ASSUME NEW i \in Numbers, M[i].indirect # NoAddress
                 PROVE  /\ SlotAt(h, M[i].indirect).inum = i
                        /\ SlotAt(h, M[i].indirect).data
                             = [c \in 0 .. NIndirect - 1 |-> A[i][NDirect + c]]
      OBVIOUS
    <3>1. /\ SlotAt(g, M[i].indirect).inum = i
          /\ SlotAt(g, M[i].indirect).data
               = [c \in 0 .. NIndirect - 1 |-> A[i][NDirect + c]]
      BY <1>1 DEF Held
    <3> QED
      BY <2>1, <3>1
  <2> QED
    BY <1>1, <2>1, <2>2 DEF Held
<1>12. View(h, M, A, D, Q)
  BY <1>9, <1>10, <1>11 DEF View
<1>13. Settled(h, M, A, D, Q)
  BY <1>2, <1>12 DEF Settled
<1> QED
  BY <1>13 DEF h, Q

\* Something lapsed, or the files are the ones they were.
CleanedDone(g, M, D, h) ==
    \/ h.lapses # {}
    \/ /\ h.lapses = {} /\ h.iFileSize = g.iFileSize
       /\ \E N, B, E, P : Settled(h, N, B, E, P) /\ SameFiles(M, D, N, E)

\* Cleaning a segment and then erasing it.
LEMMA CleanNextDone ==
    ASSUME NEW g, NEW M, NEW D, NEW acc, acc.ret = 0 \/ acc.fs.lapses # {},
           FsTyped(acc.fs), CleanedDone(g, M, D, acc.fs), NEW s \in DataSegments
    PROVE  LET r == CleanNext(acc, s)
           IN  (r.ret = 0 \/ r.fs.lapses # {}) /\ CleanedDone(g, M, D, r.fs)
<1> DEFINE f == acc.fs
           r == CleanNext(acc, s)
           c == CleanSegment(f, s)
<1>1. CASE acc.ret # 0 \/ acc.clean >= CleaningEnd \/ f.lapses # {}
  BY <1>1 DEF CleanNext
<1>2. CASE ~ (acc.ret # 0 \/ acc.clean >= CleaningEnd \/ f.lapses # {})
  <2>1. r = SegmentCleaned(c, s, acc.clean) /\ f.lapses = {}
    BY <1>2 DEF CleanNext
  <2>2. f.iFileSize = g.iFileSize
    BY <2>1 DEF CleanedDone
  <2>3. PICK N, B, E, P : Settled(f, N, B, E, P) /\ SameFiles(M, D, N, E)
    BY <2>1 DEF CleanedDone
  <2>4. FsTyped(c.fs)
    BY CleanSegmentFollows DEF Follows
  <2> DEFINE e == EraseSegment(c.fs, s)
  <2>5. e.lapses = c.fs.lapses /\ e.iFileSize = c.fs.iFileSize
    BY <2>4 DEF EraseSegment, FsTyped, StateFields
  <2>6. r.fs = IF c.ret # 0 THEN c.fs ELSE e
    BY <2>1 DEF SegmentCleaned
  <2>7. r.ret = c.ret
    BY <2>1 DEF SegmentCleaned
  <2>8. PICK slots : BlocksCleaned(f, N, E, slots, s, SegBlocks, c)
    BY <2>1, <2>3, CleanSegmentDone
  <2> HIDE DEF c, e, r
  <2>9. CASE c.fs.lapses # {}
    <3>1. r.fs.lapses # {}
      BY <2>5, <2>6, <2>9
    <3> QED
      BY <3>1 DEF CleanedDone, r
  <2>10. CASE c.fs.lapses = {}
    <3>1. c.ret = 0 /\ c.fs.iFileSize = f.iFileSize
      BY <2>8, <2>10 DEF BlocksCleaned
    <3>2. PICK K, C, F, Q :
             /\ Settled(c.fs, K, C, F, Q) /\ SameFiles(N, E, K, F)
             /\ s # c.fs.tail.seg
             /\ \A b \in 1 .. SegBlocks : Q[At(s, b)] \in {Nobody, Leaked}
      BY <2>8, <2>10 DEF BlocksCleaned
    <3>3. \E R : Settled(e, K, C, F, R)
      BY <3>2, EraseDone DEF e
    <3>4. SameFiles(M, D, K, F)
      BY <2>3, <3>2, SameFilesFollow
    <3>5. CleanedDone(g, M, D, e)
      BY <2>2, <2>5, <2>10, <3>1, <3>3, <3>4 DEF CleanedDone
    <3>6. r.fs = e /\ r.ret = 0
      BY <2>6, <2>7, <3>1
    <3> QED
      BY <3>5, <3>6 DEF r
  <2> QED
    BY <2>9, <2>10
<1> QED
  BY <1>1, <1>2

LEMMA CleanLogDone ==
    ASSUME NEW g, NEW M, NEW A, NEW D, NEW O, Settled(g, M, A, D, O), g.lapses = {},
           NEW order \in Seq(DataSegments), Len(order) \in Nat
    PROVE  CleanedDone(g, M, D, CleanLog(g, order).fs)
<1>1. PICK turn :
         /\ turn[0] = [fs |-> g, ret |-> 0,
                       clean |-> Cardinality(CleanSegments(g.table))]
         /\ \A n \in 1 .. Len(order) : turn[n] = CleanNext(turn[n - 1], order[n])
         /\ CleanLog(g, order) = turn[Len(order)]
  BY CleanLogTurns
<1> DEFINE Fine(acc) == /\ FsTyped(acc.fs) /\ (acc.ret = 0 \/ acc.fs.lapses # {})
                        /\ CleanedDone(g, M, D, acc.fs)
           Good == {k \in Nat : k <= Len(order) => Fine(turn[k])}
<1>2. 0 \in Good
  <2>1. FsTyped(g)
    BY SettledFacts
  <2>2. SameFiles(M, D, M, D)
    BY DEF SameFiles, SameButBlocks
  <2>3. CleanedDone(g, M, D, g)
    BY <2>2 DEF CleanedDone
  <2>4. turn[0].fs = g /\ turn[0].ret = 0
    BY <1>1
  <2> QED
    BY <2>1, <2>3, <2>4
<1>3. ASSUME NEW k \in Nat, k \in Good PROVE k + 1 \in Good
  <2>1. CASE k + 1 <= Len(order)
    <3>1. Fine(turn[k])
      BY <1>3, <2>1
    <3>2. k + 1 \in 1 .. Len(order) /\ (k + 1) - 1 = k
      BY <2>1
    <3>3. turn[k + 1] = CleanNext(turn[k], order[k + 1])
      BY <1>1, <3>2
    <3>4. order[k + 1] \in DataSegments
      BY <3>2
    <3>5. FsTyped(turn[k + 1].fs)
      BY <3>1, <3>3, CleanNextFollows DEF Follows
    <3>6. /\ turn[k + 1].ret = 0 \/ turn[k + 1].fs.lapses # {}
          /\ CleanedDone(g, M, D, turn[k + 1].fs)
      BY <3>1, <3>3, <3>4, CleanNextDone
    <3> QED
      BY <3>5, <3>6
  <2> QED
    BY <2>1
<1>4. Nat \subseteq Good
  <2> HIDE DEF Good
  <2> QED
    BY <1>2, <1>3, InductionOnSets
<1> QED
  BY <1>1, <1>4

----------------------------------------------------------------------------
(* The invariant. *)

\* The files are kept, or something lapsed and histories end.
CleanerInv == TypeInv /\ (FilesKept \/ fs.lapses # {})

\* Nobody can tell that the cleaner ran.
LEMMA RunCleanerKept ==
    ASSUME TypeInv, FilesKept, RunCleaner
    PROVE  (FilesKept \/ fs.lapses # {})'
<1>1. PICK M, A, D, O : Settled(fs, M, A, D, O) /\ Promises(fs, M, D)
  BY DEF FilesKept
<1>2. PICK order \in CleaningOrders(fs.table) : fs' = CleanLog(fs, order).fs
  BY DEF RunCleaner
<1>3. fs.lapses = {}
  BY DEF FilesKept
<1>4. CleanedDone(fs, M, D, fs')
  BY <1>1, <1>2, <1>3, OrderFacts, CleanLogDone
<1>5. CASE fs'.lapses # {}
  BY <1>5
<1>6. CASE fs'.lapses = {}
  <2>1. PICK N, B, E, P : Settled(fs', N, B, E, P) /\ SameFiles(M, D, N, E)
    BY <1>4, <1>6 DEF CleanedDone
  <2>2. fs'.iFileSize = fs.iFileSize
    BY <1>4, <1>6 DEF CleanedDone
  <2>3. ASSUME NEW i \in INums, NEW promise, Stands(M, D, i, promise)
        PROVE  Stands(N, E, i, promise)
    BY <2>1, <2>3 DEF SameFiles, SameButBlocks, Stands, Matches
  <2>4. \A i \in INums : IF i <= fs'.iFileSize THEN Stands(N, E, i, contents'[i])
                        ELSE contents'[i] = NoFile
    BY <1>1, <2>2, <2>3 DEF Promises, RunCleaner
  <2> QED
    BY <1>6, <2>1, <2>4 DEF FilesKept, Promises
<1> QED
  BY <1>5, <1>6

LEMMA CleanerInvInductive == CleanerInv /\ [CleanerNext]_vars => CleanerInv'
<1> SUFFICES ASSUME CleanerInv, [CleanerNext]_vars PROVE CleanerInv'
  OBVIOUS
<1>1. CASE CleanerNext
  <2>1. FilesKept /\ TypeInv
    BY <1>1 DEF CleanerNext, Running, CleanerInv
  <2>2. CASE RunCleaner
    BY <2>1, <2>2, RunCleanerTyped, RunCleanerKept DEF CleanerInv
  <2>3. ASSUME NEW i \in INums, Request(i) PROVE CleanerInv'
    <3>1. TypeInv'
      BY <2>1, <2>3, RequestTyped
    <3>2. (FilesKept \/ Refused(fs))'
      BY <2>1, <2>3, RequestKept
    <3>3. Refused(fs)' => fs'.lapses # {}
      BY DEF Refused
    <3> QED
      BY <3>1, <3>2, <3>3 DEF CleanerInv
  <2> QED
    BY <1>1, <2>2, <2>3 DEF CleanerNext
<1>2. CASE UNCHANGED vars
  <2>1. fs' = fs /\ contents' = contents
    BY <1>2 DEF vars
  <2>2. TypeInv'
    BY <2>1 DEF CleanerInv, TypeInv, FsTyped, ContentsTyped, Promised, Files
  <2>3. FilesKept => FilesKept'
    BY <2>1 DEF FilesKept, Promises
  <2> QED
    BY <2>1, <2>2, <2>3 DEF CleanerInv
<1> QED
  BY <1>1, <1>2

LEMMA InitCleaner == Init => CleanerInv
BY InitKept DEF FileInv, CleanerInv, Refused

LEMMA CleanerSettled ==
    ASSUME CleanerInv, fs.lapses = {}
    PROVE  \E M, A, D, O : Settled(fs, M, A, D, O) /\ Promises(fs, M, D)
BY DEF CleanerInv, FilesKept

\* The cleaner erases a segment only once nothing in it is of a file any more,
\* so that GetCleanSegment can hand it to the log.
THEOREM ErasedAreUnused == CleanerSpec => []ErasedSegmentsAreUnused
<1>1. CleanerInv => ErasedSegmentsAreUnused
  <2> SUFFICES ASSUME CleanerInv, fs.lapses = {}, NEW a \in Reachable(fs)
               PROVE  a.seg = fs.tail.seg \/ a.seg \in fs.full
    BY DEF ErasedSegmentsAreUnused
  <2>1. PICK M, A, D, O : Settled(fs, M, A, D, O)
    BY CleanerSettled
  <2>2. a \in InUse(O)
    BY <2>1, SettledInUse
  <2>3. Ledger(fs, InUse(O))
    BY <2>1, SettledFacts DEF View
  <2> QED
    BY <2>2, <2>3 DEF Ledger
<1> QED
  BY InitCleaner, CleanerInvInductive, <1>1, PTL DEF CleanerSpec

\* Beside the cleaner, too, the live blocks of every segment are counted right:
\* the blocks that it copies without freeing them included.
THEOREM CleanerCountsExactly == CleanerSpec => []UsageIsExact
<1>1. CleanerInv => UsageIsExact
  <2> SUFFICES ASSUME CleanerInv, fs.lapses = {}, NEW s \in DataSegments \ {fs.tail.seg}
               PROVE  fs.live[s]
                        = Cardinality({a \in Reachable(fs) \cup fs.leaked : a.seg = s})
    BY DEF UsageIsExact
  <2>1. PICK M, A, D, O : Settled(fs, M, A, D, O)
    BY CleanerSettled
  <2> QED
    BY <2>1, SettledUsage
<1> QED
  BY InitCleaner, CleanerInvInductive, <1>1, PTL DEF CleanerSpec

\* And every block that it copies is labelled with the file that has it.
THEOREM CleanerLabelsOwners == CleanerSpec => []SummariesNameOwners
<1>1. CleanerInv => SummariesNameOwners
  <2> SUFFICES ASSUME CleanerInv, fs.lapses = {}, NEW n \in NamedBlocks(fs)
               PROVE  LET slot == Slots(fs, n[3].seg)[n[3].blk]
                      IN  slot # NO_INUM /\ slot.inum = n[1] /\ slot.fb = n[2]
    BY DEF SummariesNameOwners
  <2>1. PICK M, A, D, O : Settled(fs, M, A, D, O)
    BY CleanerSettled
  <2> QED
    BY <2>1, SettledSummaries
<1> QED
  BY InitCleaner, CleanerInvInductive, <1>1, PTL DEF CleanerSpec

\* Every file reads as its last requests left it, wherever the cleaner has
\* moved its blocks since.
THEOREM CleaningSparesReads == CleanerSpec => []ReadsSeeWrites
<1>1. CleanerInv => ReadsSeeWrites
  <2> SUFFICES ASSUME CleanerInv, fs.lapses = {}, NEW i \in Promised
               PROVE  File_Read(fs, i) = contents[i]
    BY DEF ReadsSeeWrites
  <2>1. PICK M, A, D, O : Settled(fs, M, A, D, O) /\ Promises(fs, M, D)
    BY CleanerSettled
  <2>2. i \in INums /\ contents[i] # NoFile
    BY DEF Promised, Files
  <2>3. i <= fs.iFileSize /\ Matches(M, D, i, contents[i])
    BY <2>1, <2>2 DEF Promises, Stands
  <2>4. i \in 1 .. fs.iFileSize
    BY <2>1, <2>2, <2>3, SettledFacts DEF INums
  <2> QED
    BY <2>1, <2>3, <2>4, PromiseRead
<1> QED
  BY InitCleaner, CleanerInvInductive, <1>1, PTL DEF CleanerSpec

----------------------------------------------------------------------------
(* The store of files. *)

\* What can be seen of file i in a view that keeps what units promises.
LEMMA SeenPromised ==
    ASSUME NEW g, NEW M, NEW A, NEW D, NEW O, Settled(g, M, A, D, O),
           NEW i \in INums, NEW units,
           IF i <= g.iFileSize THEN Stands(M, D, i, units) ELSE units = NoFile
    PROVE  Seen(g, i) = units
<1>1. /\ g.root.fileSize = g.iFileSize /\ g.iFileSize \in Nat
      /\ i \in Nat /\ \A j \in Numbers : M[j] # Dead
  BY SettledFacts, INumFacts
<1>2. CASE i > g.iFileSize
  BY <1>1, <1>2 DEF Seen
<1>3. CASE i <= g.iFileSize
  <2>1. i \in 1 .. g.iFileSize /\ i \in Numbers
    BY <1>1, <1>3, INumFacts DEF INums
  <2>2. GetINode(g, i) = M[i] /\ M[i] # Dead
    BY <1>1, <2>1, SettledINode
  <2>3. ~ (i > g.root.fileSize)
    BY <1>1, <1>3
  <2>4. CASE units = NoFile /\ ~ M[i].inUse
    BY <2>2, <2>3, <2>4 DEF Seen
  <2>5. CASE Matches(M, D, i, units)
    <3>1. File_Read(g, i) = units
      BY <2>1, <2>5, PromiseRead
    <3>2. M[i].inUse
      BY <2>5 DEF Matches
    <3> QED
      BY <2>2, <2>3, <3>1, <3>2 DEF Seen, File_Read
  <2> QED
    BY <1>3, <2>4, <2>5 DEF Stands
<1> QED
  BY <1>1, <1>2, <1>3

\* Until something lapses, a client sees what was promised.
SeesPromises == /\ seen.failed = FALSE
                /\ seen.files = [i \in INums |-> contents[i]]

LEMMA PromisesSeen ==
    ASSUME CleanerInv, seen = Visible(fs), fs.lapses = {}
    PROVE  SeesPromises
<1>1. PICK M, A, D, O : Settled(fs, M, A, D, O) /\ Promises(fs, M, D)
  BY CleanerSettled
<1>2. \A i \in INums : Seen(fs, i) = contents[i]
  BY <1>1, SeenPromised DEF Promises
<1> QED
  BY <1>2 DEF Visible, SeesPromises

LEMMA PromisesSeenNext ==
    ASSUME CleanerInv', seen' = Visible(fs'), fs'.lapses = {}
    PROVE  SeesPromises'
<1>1. PICK M, A, D, O : Settled(fs', M, A, D, O) /\ Promises(fs, M, D)'
  BY DEF CleanerInv, FilesKept
<1>2. \A i \in INums : Seen(fs', i) = contents'[i]
  BY <1>1, SeenPromised DEF Promises
<1> QED
  BY <1>2 DEF Visible, SeesPromises

\* A new file has the lowest number that no file has.
LEMMA NewFileFound ==
    ASSUME NEW M, NEW A, NEW D, NEW O, Settled(fs, M, A, D, O), Promises(fs, M, D),
           NEW i \in INums, i = GetUnusedINum(fs)
    PROVE  contents[i] = NoFile /\ \A j \in INums : j < i => contents[j] # NoFile
<1>1. fs.iFileSize \in Nat /\ \A j \in INums : j \in Nat /\ j >= 1
  BY SettledFacts, INumFacts DEF INums
<1>2. /\ i = fs.iFileSize + 1 \/ (i \in 1 .. fs.iFileSize /\ ~ M[i].inUse)
      /\ \A j \in 1 .. fs.iFileSize : j < i => M[j].inUse
  BY SettledUnused
<1>3. contents[i] = NoFile
  <2>1. CASE i = fs.iFileSize + 1
    <3>1. ~ (i <= fs.iFileSize)
      BY <1>1, <2>1
    <3> QED
      BY <3>1 DEF Promises
  <2>2. CASE i \in 1 .. fs.iFileSize /\ ~ M[i].inUse
    <3>1. i <= fs.iFileSize
      BY <2>2
    <3> QED
      BY <2>2, <3>1 DEF Promises, Stands, Matches
  <2> QED
    BY <1>2, <2>1, <2>2
<1>4. ASSUME NEW j \in INums, j < i PROVE contents[j] # NoFile
  <2>1. j \in 1 .. fs.iFileSize /\ j <= fs.iFileSize
    BY <1>1, <1>2, <1>4
  <2>2. M[j].inUse
    BY <1>2, <1>4, <2>1
  <2>3. contents[j] \in Seq(Unit)
    BY <2>1, <2>2 DEF Promises, Stands, Matches
  <2> QED
    BY <2>3, SentinelAssumption
<1> QED
  BY <1>3, <1>4

\* A write leaves what the store says.
LEMMA OverwrittenWritten ==
    ASSUME NEW units \in Seq(Unit), NEW e \in Extents, NEW d
    PROVE  Overwritten(units, e[1], [u \in 1 .. e[2] |-> d]) = Store!Written(units, e, d)
<1> DEFINE buffer == [u \in 1 .. e[2] |-> d]
           size == IF Len(units) > e[1] + e[2] THEN Len(units) ELSE e[1] + e[2]
<1>1. e[1] \in Nat /\ e[2] \in Nat /\ Len(units) \in Nat
  BY FileAssumption
<1>2. Len(buffer) = e[2] /\ DOMAIN buffer = 1 .. e[2]
  BY <1>1
<1>3. Max({Len(units), e[1] + e[2]}) = size
  BY <1>1, MaxOfTwo
<1>4. size \in Nat
  BY <1>1
<1> HIDE DEF size
<1>5. ASSUME NEW k \in 1 .. size
      PROVE  (IF k - e[1] \in 1 .. e[2] THEN buffer[k - e[1]] ELSE units[k])
               = (IF e[1] < k /\ k <= e[1] + e[2] THEN d ELSE units[k])
  <2>1. k \in Nat /\ (k - e[1] \in 1 .. e[2] <=> e[1] < k /\ k <= e[1] + e[2])
    BY <1>1, <1>4
  <2> QED
    BY <2>1
<1>6. Overwritten(units, e[1], buffer)
        = [k \in 1 .. size |-> IF k - e[1] \in 1 .. e[2] THEN buffer[k - e[1]] ELSE units[k]]
  BY <1>2, <1>3 DEF Overwritten
<1>7. Store!Written(units, e, d)
        = [k \in 1 .. size |-> IF e[1] < k /\ k <= e[1] + e[2] THEN d ELSE units[k]]
  BY DEF Store!Written, size
<1> HIDE DEF buffer
<1>8. Overwritten(units, e[1], buffer) = Store!Written(units, e, d)
  BY <1>5, <1>6, <1>7
<1> QED
  BY <1>8 DEF buffer

LEMMA ResizedTruncated ==
    ASSUME NEW units, NEW n
    PROVE  Resized(units, n) = Store!Truncated(units, n)
BY DEF Resized, Store!Truncated

LEMMA ResizedTyped ==
    ASSUME NEW units \in Seq(Unit), NEW n \in Nat
    PROVE  Resized(units, n) \in Seq(Unit)
<1>1. \A k \in 1 .. n : (IF k <= Len(units) THEN units[k] ELSE Zero) \in Unit
  BY DEF Unit
<1> QED
  BY <1>1 DEF Resized

\* What a request that kept its promise makes of the contents.
LEMMA AnswerPromised ==
    ASSUME TypeInv, CleanerInv', fs'.lapses = {}, NEW i \in INums, NEW r, NEW promise,
           Answer(r, i, promise)
    PROVE  contents'[i] = promise /\ \A j \in INums : j # i => contents'[j] = contents[j]
<1>1. contents'[i] # Unknown
  <2>1. PICK M, A, D, O : Settled(fs', M, A, D, O) /\ Promises(fs, M, D)'
    BY DEF CleanerInv, FilesKept
  <2>2. contents'[i] = NoFile \/ contents'[i] \in Seq(Unit)
    BY <2>1 DEF Promises, Stands, Matches
  <2> QED
    BY <2>2, SentinelAssumption
<1>2. DOMAIN contents = INums
  BY DEF TypeInv, ContentsTyped
<1> QED
  BY <1>1, <1>2 DEF Answer

\* A request changes the file it names as the store says, or nothing anyone
\* can see.
LEMMA RequestSeen ==
    ASSUME TypeInv, FilesKept, CleanerInv', fs'.lapses = {}, NEW i \in INums, Request(i),
           SeesPromises, SeesPromises'
    PROVE  Store!Request \/ UNCHANGED Store!vars
<1>1. PICK M, A, D, O : Settled(fs, M, A, D, O) /\ Promises(fs, M, D)
  BY DEF FilesKept
<1>2. /\ \A j \in INums : seen.files[j] = contents[j] /\ seen'.files[j] = contents'[j]
      /\ seen.failed = FALSE /\ seen'.failed = FALSE
      /\ seen.files = [j \in INums |-> contents[j]]
      /\ seen'.files = [j \in INums |-> contents'[j]]
  BY DEF SeesPromises
<1>3. ASSUME i \in Promised
      PROVE  contents[i] \in Seq(Unit) /\ contents[i] # NoFile
  BY <1>3 DEF TypeInv, ContentsTyped, Promised, Files, Unit
<1>4. ASSUME NEW promise, NEW r, Answer(r, i, promise),
             \/ /\ contents[i] = NoFile /\ promise = <<>>
                /\ \A j \in INums : j < i => contents[j] # NoFile
             \/ /\ contents[i] # NoFile /\ promise \in Store!Outcomes(contents[i])
                /\ i = ROOT_DIRECTORY_INUM => promise # NoFile
      PROVE  Store!Request
  <2>1. contents'[i] = promise /\ \A j \in INums : j # i => contents'[j] = contents[j]
    BY <1>4, AnswerPromised
  <2>2. \A j \in INums \ {i} : seen'.files[j] = seen.files[j]
    BY <1>2, <2>1
  <2>3. Store!Create(i) \/ Store!Change(i)
    BY <1>2, <1>4, <2>1 DEF Store!Create, Store!Change
  <2> QED
    BY <1>2, <2>2, <2>3 DEF Store!Request
<1>5. ASSUME i = GetUnusedINum(fs), NEW mode \in Modes, CreateFile(mode)
      PROVE  Store!Request
  <2>1. contents[i] = NoFile /\ \A j \in INums : j < i => contents[j] # NoFile
    BY <1>1, <1>5, NewFileFound
  <2> QED
    BY <1>4, <1>5, <2>1 DEF CreateFile
<1>6. ASSUME i \in Promised, NEW e \in Extents, NEW d \in Data,
             e[1] <= Len(contents[i]),
             WriteFile(i, e[1], [u \in 1 .. e[2] |-> d])
      PROVE  Store!Request
  <2> DEFINE buffer == [u \in 1 .. e[2] |-> d]
             promise == Overwritten(contents[i], e[1], buffer)
  <2>1. e[1] \in Nat /\ e[2] \in Nat
    BY FileAssumption
  <2>2. buffer \in Seq(Unit)
    BY <2>1 DEF Unit
  <2>3. promise = Store!Written(contents[i], e, d)
    BY <1>3, <1>6, OverwrittenWritten
  <2>4. promise \in Store!Outcomes(contents[i])
    BY <1>6, <2>3 DEF Store!Outcomes
  <2>5. Answer(File_Write(fs, i, e[1], buffer), i, promise)
    BY <1>6 DEF WriteFile
  <2> HIDE DEF buffer
  <2>6. promise \in Seq(Unit)
    BY <1>3, <1>6, <2>1, <2>2, OverwrittenTyped
  <2> HIDE DEF promise
  <2> QED
    BY <1>3, <1>4, <1>6, <2>4, <2>5, <2>6, SentinelAssumption
<1>7. ASSUME i \in Promised, NEW n \in Sizes, TruncateFile(i, n)
      PROVE  Store!Request
  <2> DEFINE promise == Resized(contents[i], n)
  <2>1. promise \in Store!Outcomes(contents[i])
    BY ResizedTruncated DEF Store!Outcomes
  <2>2. promise \in Seq(Unit)
    BY <1>3, <1>7, FileAssumption, ResizedTyped
  <2>3. Answer(File_Truncate(fs, i, n), i, promise)
    BY <1>7 DEF TruncateFile
  <2> HIDE DEF promise
  <2> QED
    BY <1>3, <1>4, <1>7, <2>1, <2>2, <2>3, SentinelAssumption
<1>8. ASSUME i \in Promised, i # ROOT_DIRECTORY_INUM, FreeFile(i)
      PROVE  Store!Request
  <2>1. NoFile \in Store!Outcomes(contents[i])
    BY DEF Store!Outcomes
  <2> QED
    BY <1>3, <1>4, <1>8, <2>1 DEF FreeFile
<1>9. ASSUME i \in Promised, NEW mode \in Modes, ChmodFile(i, mode)
      PROVE  UNCHANGED Store!vars
  <2>1. contents'[i] = contents[i] /\ \A j \in INums : j # i => contents'[j] = contents[j]
    BY <1>9, AnswerPromised DEF ChmodFile
  <2>2. \A j \in INums : contents'[j] = contents[j]
    BY <2>1
  <2>3. seen'.files = seen.files /\ seen'.failed = seen.failed
    BY <1>2, <2>2
  <2> QED
    BY <2>3 DEF Store!vars
<1>10. CASE i = GetUnusedINum(fs) /\ \E mode \in Modes : CreateFile(mode)
  BY <1>5, <1>10
<1>11. CASE i \in Promised /\ \E e \in Extents, d \in Data :
               /\ e[1] <= Len(contents[i])
               /\ WriteFile(i, e[1], [u \in 1 .. e[2] |-> d])
  BY <1>6, <1>11
<1>12. CASE i \in Promised /\ \E n \in Sizes : TruncateFile(i, n)
  BY <1>7, <1>12
<1>13. CASE i \in Promised /\ \E mode \in Modes : ChmodFile(i, mode)
  BY <1>9, <1>13
<1>14. CASE i \in Promised /\ i # ROOT_DIRECTORY_INUM /\ FreeFile(i)
  BY <1>8, <1>14
<1> QED
  BY <1>10, <1>11, <1>12, <1>13, <1>14 DEF Request

\* The view follows the cleaner, step by step.
LEMMA ViewFollows == ViewedSpec => CleanerSpec
<1>1. ViewedInit => Init
  BY DEF ViewedInit
<1>2. [ViewedNext]_<<vars, seen>> => [CleanerNext]_vars
  BY DEF ViewedNext
<1> QED
  BY <1>1, <1>2, PTL DEF ViewedSpec, CleanerSpec

ViewInv == CleanerInv /\ seen = Visible(fs)

LEMMA ViewInvInductive ==
    /\ ViewedInit => ViewInv
    /\ ViewInv /\ [ViewedNext]_<<vars, seen>> => ViewInv'
<1>1. ViewedInit => ViewInv
  BY InitCleaner DEF ViewedInit, ViewInv
<1>2. ASSUME ViewInv, [ViewedNext]_<<vars, seen>> PROVE ViewInv'
  <2>1. CleanerInv'
    BY <1>2, CleanerInvInductive DEF ViewInv, ViewedNext
  <2>2. seen' = Visible(fs')
    BY <1>2 DEF ViewInv, ViewedNext, vars
  <2> QED
    BY <2>1, <2>2 DEF ViewInv
<1> QED
  BY <1>1, <1>2

LEMMA StoreStarts == ViewedInit => Store!Init
<1> SUFFICES ASSUME ViewedInit PROVE Store!Init
  OBVIOUS
<1>1. CleanerInv /\ seen = Visible(fs) /\ fs.lapses = {}
  <2>1. Init /\ seen = Visible(fs)
    BY DEF ViewedInit
  <2>2. fs.lapses = {}
    BY <2>1 DEF Init, mklfs
  <2> QED
    BY <2>1, <2>2, InitCleaner
<1>2. SeesPromises
  BY <1>1, PromisesSeen
<1>3. contents = [i \in INums |-> IF i = ROOT_DIRECTORY_INUM
                                  THEN [u \in 1 .. BlockSize |-> Zero] ELSE NoFile]
  BY DEF ViewedInit, Init
<1>4. seen.files = [i \in INums |-> IF i = ROOT_DIRECTORY_INUM
                                    THEN [u \in 1 .. BlockSize |-> Zero] ELSE NoFile]
  BY <1>2, <1>3 DEF SeesPromises
<1> QED
  BY <1>2, <1>4 DEF Store!Init, SeesPromises

LEMMA StoreSteps ==
    ViewInv /\ ViewInv' /\ [ViewedNext]_<<vars, seen>> => [Store!Next]_(Store!vars)
<1> SUFFICES ASSUME ViewInv, ViewInv', [ViewedNext]_<<vars, seen>>
             PROVE  [Store!Next]_(Store!vars)
  OBVIOUS
<1>1. CASE UNCHANGED <<vars, seen>>
  BY <1>1 DEF Store!vars
<1>2. CASE ViewedNext
  <2>1. CleanerInv /\ CleanerInv' /\ seen = Visible(fs) /\ seen' = Visible(fs')
    BY DEF ViewInv
  <2>2. CleanerNext /\ fs.lapses = {}
    BY <1>2 DEF ViewedNext, CleanerNext, Running
  <2>3. TypeInv /\ FilesKept
    BY <2>1, <2>2 DEF CleanerInv
  <2>4. SeesPromises
    BY <2>1, <2>2, PromisesSeen
  <2>5. CASE fs'.lapses # {}
    <3>1. seen'.failed = TRUE /\ seen'.files = [i \in INums |-> Unknown]
      BY <2>1, <2>5 DEF Visible
    <3> QED
      BY <3>1 DEF Store!Refuse, Store!Next
  <2>6. CASE fs'.lapses = {}
    <3>1. SeesPromises'
      BY <2>1, <2>6, PromisesSeenNext
    <3>2. CASE RunCleaner
      <4>1. contents' = contents
        BY <3>2 DEF RunCleaner
      <4>2. seen'.files = seen.files /\ seen'.failed = seen.failed
        BY <2>4, <3>1, <4>1 DEF SeesPromises
      <4> QED
        BY <4>2 DEF Store!vars
    <3>3. ASSUME NEW i \in INums, Request(i)
          PROVE  [Store!Next]_(Store!vars)
      <4>1. Store!Request \/ UNCHANGED Store!vars
        BY <2>1, <2>3, <2>4, <2>6, <3>1, <3>3, RequestSeen
      <4> QED
        BY <4>1 DEF Store!Next
    <3> QED
      BY <2>2, <3>2, <3>3 DEF CleanerNext
  <2> QED
    BY <2>5, <2>6
<1> QED
  BY <1>1, <1>2

\* The file layer with its cleaner is a store of files: what File_Read and the
\* inodes show of them changes by one request at a time and as it asks, a new
\* file takes the lowest number that is free, and cleaning shows in nothing.
THEOREM StoreImplemented == ViewedSpec => ImplementsFileStore
BY ViewInvInductive, StoreStarts, StoreSteps, PTL
   DEF ViewedSpec, ImplementsFileStore, Store!Spec

----------------------------------------------------------------------------
(* What an inode of the ifile leads to. *)

\* What the log holds at every address, and what is there on flash.
InLog(g)   == [a \in Address |-> SlotAt(g, a)]
OnMedia(g) == [a \in Address |-> g.media[a.seg][a.blk]]

\* Blocks that were written are still what they were.
Retains(at, to) == \A a \in Address : at[a] # NO_INUM => to[a] = at[a]

\* The inodes M, addresses A and data D of the ifile M[IFILE_INUM] and of the
\* files it counts, except those of U, are what the slots at each address say.
Leads(at, M, A, D, U) ==
    /\ M \in [Numbers -> INode]
    /\ A \in [Numbers -> [BlockNumbers -> MaybeAddress]]
    /\ D \in [Numbers -> [BlockNumbers -> FileBlock]]
    /\ \A j \in Numbers \ U : j <= M[IFILE_INUM].fileSize =>
          /\ M[j].inum = j
          /\ \A b \in BlockNumbers :
                /\ b < NDirect => A[j][b] = M[j].direct[b]
                /\ b >= NDirect /\ M[j].indirect = NoAddress => A[j][b] = NoAddress
                /\ A[j][b] = NoAddress => D[j][b] = ZeroBlock
                /\ A[j][b] # NoAddress =>
                      at[A[j][b]] = [inum |-> j, fb |-> b, data |-> D[j][b]]
          /\ M[j].indirect # NoAddress =>
                /\ at[M[j].indirect] # NO_INUM
                /\ at[M[j].indirect].inum = j
                /\ at[M[j].indirect].data
                     = [c \in 0 .. NIndirect - 1 |-> A[j][NDirect + c]]

\* The files are C, as far as that is known.
Known(M, A, D, C) ==
    \A j \in INums : C[j] # Unknown =>
       IF j <= M[IFILE_INUM].fileSize
       THEN /\ HasEntry(M, A, D, j) /\ Sound(M, A, j, M[IFILE_INUM].fileSize)
            /\ Stands(M, D, j, C[j])
       ELSE C[j] = NoFile

\* The files of which nothing is known.
Torn(C) == {j \in INums : C[j] = Unknown}

\* The ifile inode root leads to the files of C.
LeadsTo(at, root, C) ==
    \E M, A, D : /\ M[IFILE_INUM] = root
                 /\ Leads(at, M, A, D, Torn(C)) /\ Known(M, A, D, C)

\* Blocks outside X that were written are still what they were.
LEMMA LeadsKept ==
    ASSUME NEW at, NEW M, NEW A, NEW D, NEW U, Leads(at, M, A, D, U),
           NEW to, NEW X,
           \A x \in Address \ X : at[x] # NO_INUM => to[x] = at[x],
           \A j \in Numbers \ U : /\ M[j].indirect \notin X
                                  /\ \A b \in BlockNumbers : A[j][b] \notin X
    PROVE  Leads(to, M, A, D, U)
<1> DEFINE n == M[IFILE_INUM].fileSize
<1>1. /\ M \in [Numbers -> INode]
      /\ A \in [Numbers -> [BlockNumbers -> MaybeAddress]]
      /\ D \in [Numbers -> [BlockNumbers -> FileBlock]]
  BY DEF Leads
<1>2. ASSUME NEW j \in Numbers \ U, j <= n
      PROVE  /\ M[j].inum = j
             /\ \A b \in BlockNumbers :
                   /\ b < NDirect => A[j][b] = M[j].direct[b]
                   /\ b >= NDirect /\ M[j].indirect = NoAddress => A[j][b] = NoAddress
                   /\ A[j][b] = NoAddress => D[j][b] = ZeroBlock
                   /\ A[j][b] # NoAddress =>
                         at[A[j][b]] = [inum |-> j, fb |-> b, data |-> D[j][b]]
             /\ M[j].indirect # NoAddress =>
                   /\ at[M[j].indirect] # NO_INUM
                   /\ at[M[j].indirect].inum = j
                   /\ at[M[j].indirect].data
                        = [c \in 0 .. NIndirect - 1 |-> A[j][NDirect + c]]
  BY <1>2 DEF Leads
<1>3. ASSUME NEW j \in Numbers \ U, j <= n, NEW b \in BlockNumbers, A[j][b] # NoAddress
      PROVE  to[A[j][b]] = [inum |-> j, fb |-> b, data |-> D[j][b]]
  <2>1. at[A[j][b]] = [inum |-> j, fb |-> b, data |-> D[j][b]]
    BY <1>2, <1>3
  <2>2. [inum |-> j, fb |-> b, data |-> D[j][b]] \in SummarySlot
    <3>1. j \in 0 .. MaxINum /\ b \in Int /\ D[j][b] \in FileBlock
      BY <1>1, <1>3, BlockNumberFacts DEF Numbers
    <3> QED
      BY <3>1 DEF SummarySlot
  <2>3. at[A[j][b]] # NO_INUM
    BY <2>1, <2>2, SentinelAssumption
  <2>4. A[j][b] \in Address \ X
    BY <1>1, <1>3 DEF MaybeAddress
  <2> QED
    BY <2>1, <2>3, <2>4
<1>4. ASSUME NEW j \in Numbers \ U, j <= n, M[j].indirect # NoAddress
      PROVE  to[M[j].indirect] = at[M[j].indirect]
  <2>1. M[j].indirect \in Address \ X
    BY <1>1, <1>4 DEF MaybeAddress, INode
  <2> QED
    BY <1>2, <1>4, <2>1
<1> HIDE DEF n
<1>5. ASSUME NEW j \in Numbers \ U, j <= n
      PROVE  /\ M[j].inum = j
             /\ \A b \in BlockNumbers :
                   /\ b < NDirect => A[j][b] = M[j].direct[b]
                   /\ b >= NDirect /\ M[j].indirect = NoAddress => A[j][b] = NoAddress
                   /\ A[j][b] = NoAddress => D[j][b] = ZeroBlock
                   /\ A[j][b] # NoAddress =>
                         to[A[j][b]] = [inum |-> j, fb |-> b, data |-> D[j][b]]
             /\ M[j].indirect # NoAddress =>
                   /\ to[M[j].indirect] # NO_INUM
                   /\ to[M[j].indirect].inum = j
                   /\ to[M[j].indirect].data
                        = [c \in 0 .. NIndirect - 1 |-> A[j][NDirect + c]]
  <2>1. M[j].indirect # NoAddress =>
                   /\ to[M[j].indirect] # NO_INUM
                   /\ to[M[j].indirect].inum = j
                   /\ to[M[j].indirect].data
                        = [c \in 0 .. NIndirect - 1 |-> A[j][NDirect + c]]
    <3> SUFFICES ASSUME M[j].indirect # NoAddress
                 PROVE  /\ to[M[j].indirect] # NO_INUM
                        /\ to[M[j].indirect].inum = j
                        /\ to[M[j].indirect].data
                             = [c \in 0 .. NIndirect - 1 |-> A[j][NDirect + c]]
      OBVIOUS
    <3> QED
      BY <1>2, <1>4, <1>5
  <2> QED
    BY <1>2, <1>3, <1>5, <2>1
<1> QED
  BY <1>1, <1>5 DEF Leads, n

LEMMA LeadsToKept ==
    ASSUME NEW at, NEW to, Retains(at, to), NEW root, NEW C, LeadsTo(at, root, C)
    PROVE  LeadsTo(to, root, C)
<1>1. PICK M, A, D : /\ M[IFILE_INUM] = root
                     /\ Leads(at, M, A, D, Torn(C)) /\ Known(M, A, D, C)
  BY DEF LeadsTo
<1>2. Leads(to, M, A, D, Torn(C))
  <2> DEFINE X == {}
  <2>1. /\ \A x \in Address \ X : at[x] # NO_INUM => to[x] = at[x]
        /\ \A j \in Numbers \ Torn(C) : /\ M[j].indirect \notin X
                                        /\ \A b \in BlockNumbers : A[j][b] \notin X
    BY DEF Retains
  <2> HIDE DEF X
  <2> QED
    BY <1>1, <2>1, LeadsKept
<1> QED
  BY <1>1, <1>2 DEF LeadsTo

\* What a view of the log shows of the files.
LEMMA ViewLeads ==
    ASSUME NEW g, NEW M, NEW A, NEW D, NEW O, View(g, M, A, D, O), NEW U
    PROVE  Leads(InLog(g), M, A, D, U)
<1> DEFINE at == InLog(g)
<1>1. /\ Tree(M, A, O, g.leaked) /\ Held(g, M, A, D) /\ Ledger(g, InUse(O))
      /\ M \in [Numbers -> INode] /\ \A i \in Numbers : M[i].inum = i
      /\ A \in [Numbers -> [BlockNumbers -> MaybeAddress]]
      /\ D \in [Numbers -> [BlockNumbers -> FileBlock]]
  BY DEF View, Tree, Held
<1>2. \A a \in Address : at[a] = SlotAt(g, a)
  BY DEF InLog
<1>3. ASSUME NEW j \in Numbers, NEW b \in BlockNumbers
      PROVE  /\ b < NDirect => A[j][b] = M[j].direct[b]
             /\ b >= NDirect /\ M[j].indirect = NoAddress => A[j][b] = NoAddress
             /\ A[j][b] = NoAddress => D[j][b] = ZeroBlock
             /\ A[j][b] # NoAddress =>
                   at[A[j][b]] = [inum |-> j, fb |-> b, data |-> D[j][b]]
  <2>1. A[j][b] # NoAddress => A[j][b] \in Address
    BY <1>1 DEF MaybeAddress
  <2>2. /\ A[j][b] = NoAddress => D[j][b] = ZeroBlock
        /\ A[j][b] # NoAddress =>
              SlotAt(g, A[j][b]) = [inum |-> j, fb |-> b, data |-> D[j][b]]
    BY <1>1 DEF Held
  <2>3. /\ b < NDirect => A[j][b] = M[j].direct[b]
        /\ b >= NDirect /\ M[j].indirect = NoAddress => A[j][b] = NoAddress
    BY <1>1 DEF Tree
  <2> QED
    BY <1>2, <2>1, <2>2, <2>3
<1>4. ASSUME NEW j \in Numbers, M[j].indirect # NoAddress
      PROVE  /\ at[M[j].indirect] # NO_INUM
             /\ at[M[j].indirect].inum = j
             /\ at[M[j].indirect].data
                  = [c \in 0 .. NIndirect - 1 |-> A[j][NDirect + c]]
  <2>1. M[j].indirect \in InUse(O) /\ M[j].indirect \in Address
    BY <1>1, <1>4, TreeFacts
  <2>2. SlotAt(g, M[j].indirect) # NO_INUM
    BY <1>1, <2>1, SlotOfLedger
  <2>3. /\ SlotAt(g, M[j].indirect).inum = j
        /\ SlotAt(g, M[j].indirect).data
             = [c \in 0 .. NIndirect - 1 |-> A[j][NDirect + c]]
    BY <1>1, <1>4 DEF Held
  <2> QED
    BY <1>2, <2>1, <2>2, <2>3
<1> HIDE DEF at
<1> QED
  BY <1>1, <1>3, <1>4 DEF Leads, at

----------------------------------------------------------------------------
(* What a write does to the flash. *)

\* A segment that was not written is empty, and one found partly filled has
\* its last block empty.
Shape(g) ==
    /\ FsTyped(g) /\ DOMAIN g.media = DataSegments
    /\ g.tail.seg \in DataSegments => DOMAIN g.tail.slots = 1 .. SegBlocks
    /\ \A s \in DataSegments \ g.full : g.media[s] = EmptySlots
    /\ g.partial => /\ g.tail.seg \in DataSegments
                    /\ g.media[g.tail.seg][SegBlocks] = NO_INUM

\* There is no tail that the flash would take.
Halted(g) == g.tail.seg = FLASH_FULL \/ (g.tail.seg \in g.full /\ ~ g.partial)

\* Nothing went to flash.
Unflushed(g, h) ==
    /\ h.media = g.media /\ h.full = g.full /\ h.saved = g.saved
    /\ h.partial <=> g.partial
    /\ h.root = g.root /\ h.tail.seg = g.tail.seg
    /\ "cached" \in h.lapses <=> "cached" \in g.lapses
    /\ "dirty" \in h.lapses \/ h.ckptINode = g.ckptINode

\* The segment that is the tail now is one the flash would not take.
Reuses(g, h) == h.lapses = g.lapses \cup {"cached"} /\ Halted(h)

\* The tail, of which only the last block was empty, went to flash with slot.
Flushed(g, h, slot) ==
    /\ g.tail.seg \in DataSegments /\ ~ Halted(g)
    /\ EmptyBlocks(g.tail.slots) = {SegBlocks}
    /\ h.media = [g.media EXCEPT ![g.tail.seg] = [g.tail.slots EXCEPT ![SegBlocks] = slot]]
    /\ h.full = g.full \cup {g.tail.seg} /\ ~ h.partial
    /\ h.root = g.root /\ h.ckptINode = g.root
    /\ h.saved = g.saved \/ h.saved.root = g.root
    /\ h.lapses = g.lapses \/ Reuses(g, h)
    /\ h.tail.slots = EmptySlots

LEMMA HaltedSame ==
    ASSUME NEW g, NEW h, Unflushed(g, h)
    PROVE  Halted(h) <=> Halted(g)
BY DEF Unflushed, Halted

\* A step that leaves the flash alone and adds to the tail.
LEMMA UnflushedShape ==
    ASSUME NEW g, Shape(g), NEW h, FsTyped(h), Unflushed(g, h),
           DOMAIN h.tail.slots = DOMAIN g.tail.slots
    PROVE  Shape(h)
BY DEF Shape, Unflushed

LEMMA LastBlock ==
    ASSUME NEW S, S \subseteq 1 .. SegBlocks, S # {}
    PROVE  /\ Min(S) \in S /\ \A b \in S : Min(S) <= b
           /\ Min(S) = SegBlocks => S = {SegBlocks}
<1>1. S \subseteq Nat
  BY GeometryFacts
<1>2. Min(S) \in S /\ \A b \in S : Min(S) <= b
  BY <1>1, MinOfNats
<1>3. \A b \in 1 .. SegBlocks : SegBlocks <= b => b = SegBlocks
  BY GeometryFacts
<1> QED
  BY <1>2, <1>3

\* The tail goes to flash or is refused.
LEMMA TailKinds ==
    ASSUME NEW p, Shape(p), p.tail.seg \in DataSegments
    PROVE  LET w == WriteTail(p)
           IN  \/ /\ p.tail.seg \in p.full /\ ~ p.partial
                  /\ Unflushed(p, w.fs) /\ w.fs.tail = p.tail
                  /\ Refused(w.fs) /\ FsTyped(w.fs)
               \/ /\ ~ Halted(p)
                  /\ w.fs.media = [p.media EXCEPT ![p.tail.seg] = p.tail.slots]
                  /\ w.fs.full = p.full \cup {p.tail.seg} /\ ~ w.fs.partial
                  /\ w.fs.root = p.root /\ w.fs.ckptINode = p.root
                  /\ w.fs.saved = p.saved \/ w.fs.saved.root = p.root
                  /\ w.fs.lapses = p.lapses \/ Reuses(p, w.fs)
                  /\ w.fs.tail.slots = EmptySlots /\ FsTyped(w.fs)
<1> DEFINE r == Recounted(p)
           n == NextTail(r)
           m == Reused(n)
           c == CheckpointIfDue(m)
           w == WriteTail(p)
<1>1. FsTyped(p) /\ p.tail.seg # FLASH_FULL
  BY GeometryFacts DEF Shape
<1>2. /\ FsTyped(r) /\ r.tail = p.tail /\ r.media = p.media /\ r.full = p.full
      /\ r.saved = p.saved /\ r.root = p.root /\ r.ckptINode = p.root
      /\ r.lapses = p.lapses /\ r.partial = FALSE
  BY <1>1, RecountedFollows DEF Recounted, FsTyped, StateFields, Follows
<1>3. FsTyped(w.fs)
  BY <1>1, WriteTailFollows DEF Follows
<1> HIDE DEF r
<1>4. CASE p.tail.seg \in p.full /\ ~ p.partial
  <2>1. w.fs = Lapse(r, "dirty")
    BY <1>4 DEF WriteTail, r
  <2>2. /\ w.fs.lapses = r.lapses \cup {"dirty"} /\ w.fs.tail = r.tail
        /\ w.fs.media = r.media /\ w.fs.full = r.full /\ w.fs.saved = r.saved
        /\ w.fs.root = r.root /\ w.fs.partial = FALSE
    BY <1>2, <2>1 DEF Lapse, FsTyped, StateFields
  <2> HIDE DEF w
  <2>3. Refused(w.fs)
    BY <2>2 DEF Refused
  <2>4. Unflushed(p, w.fs)
    BY <1>2, <1>4, <2>2, <2>3 DEF Unflushed
  <2> QED
    BY <1>2, <1>3, <1>4, <2>2, <2>3, <2>4 DEF w
<1>5. CASE ~ (p.tail.seg \in p.full /\ ~ p.partial)
  <2>1. w.fs = c
    BY <1>5 DEF WriteTail, r
  <2>2. /\ n.media = [r.media EXCEPT ![r.tail.seg] = r.tail.slots]
        /\ n.full = r.full \cup {r.tail.seg} /\ n.partial = FALSE
        /\ n.root = r.root /\ n.ckptINode = r.ckptINode /\ n.saved = r.saved
        /\ n.lapses = r.lapses /\ n.tail.slots = EmptySlots /\ DOMAIN n = StateFields
    BY <1>2 DEF NextTail, FsTyped, StateFields
  <2> HIDE DEF n
  <2>5. /\ m.media = n.media /\ m.full = n.full /\ m.partial = n.partial
        /\ m.root = n.root /\ m.ckptINode = n.ckptINode /\ m.saved = n.saved
        /\ m.tail = n.tail /\ DOMAIN m = StateFields
        /\ \/ m.lapses = n.lapses
           \/ m.lapses = n.lapses \cup {"cached"} /\ m.tail.seg \in m.full
    BY <2>2 DEF Reused, Lapse, StateFields
  <2> HIDE DEF m
  <2>3. /\ c.media = m.media /\ c.full = m.full /\ c.partial = m.partial
        /\ c.root = m.root /\ c.ckptINode = m.ckptINode /\ c.lapses = m.lapses
        /\ c.tail = m.tail
        /\ c.saved = m.saved \/ c.saved.root = m.ckptINode
    BY <2>5 DEF CheckpointIfDue, CheckpointNow, StateFields
  <2> HIDE DEF c, w
  <2>4. ~ Halted(p)
    BY <1>1, <1>5 DEF Halted
  <2>6. w.fs.lapses = p.lapses \/ Reuses(p, w.fs)
    BY <1>2, <2>1, <2>2, <2>3, <2>5 DEF Reuses, Halted
  <2> QED
    BY <1>2, <1>3, <2>1, <2>2, <2>3, <2>4, <2>5, <2>6 DEF w
<1> QED
  BY <1>4, <1>5

\* A write either leaves the flash alone, and is refused only if the flash would
\* take no tail, or is the last of its segment.
LEMMA WriteKinds ==
    ASSUME NEW g, Shape(g), NEW inum, NEW fileBlock, NEW data
    PROVE  LET h == Log_Write(g, inum, fileBlock, data).fs
           IN  /\ Shape(h)
               /\ \/ /\ Unflushed(g, h) /\ Retains(InLog(g), InLog(h))
                     /\ Refused(h) => Refused(g) \/ Halted(g)
                  \/ Flushed(g, h, [inum |-> inum, fb |-> fileBlock, data |-> data])
<1> DEFINE slot == [inum |-> inum, fb |-> fileBlock, data |-> data]
           w    == Log_Write(g, inum, fileBlock, data)
           h    == w.fs
           free == EmptyBlocks(g.tail.slots)
           e    == Min(free)
           p    == [g EXCEPT !.tail.slots[e] = slot]
           t    == g.tail.seg
<1>0. FsTyped(g) /\ FsTyped(h)
  BY Log_WriteFollows DEF Shape, Follows
<1>1. ASSUME NEW k, FsTyped(k), k.tail = g.tail, k.media = g.media,
             "cached" \in k.lapses <=> "cached" \in g.lapses
      PROVE  Retains(InLog(g), InLog(k))
  BY <1>1 DEF Retains, InLog, SlotAt, Slots
<1>2. CASE t = FLASH_FULL
  <2>1. h = Lapse(g, "full")
    BY <1>2 DEF Log_Write
  <2>2. Unflushed(g, h) /\ h.tail = g.tail /\ Halted(g)
    BY <1>0, <1>2, <2>1 DEF Unflushed, Halted, Lapse, FsTyped, StateFields
  <2> HIDE DEF h
  <2>3. Shape(h) /\ Retains(InLog(g), InLog(h))
    BY <1>0, <1>1, <2>2, UnflushedShape DEF Unflushed
  <2> QED
    BY <2>2, <2>3 DEF h, w
<1>3. CASE t # FLASH_FULL /\ free = {}
  <2>1. h = Throw(g)
    BY <1>3 DEF Log_Write
  <2>2. Unflushed(g, h) /\ h.tail = g.tail /\ h.lapses = g.lapses \cup {"terminated"}
    BY <1>0, <2>1 DEF Unflushed, Throw, Lapse, FsTyped, StateFields
  <2> HIDE DEF h
  <2>3. Shape(h) /\ Retains(InLog(g), InLog(h))
    BY <1>0, <1>1, <2>2, UnflushedShape DEF Unflushed
  <2>4. Refused(h) => Refused(g)
    BY <2>2 DEF Refused
  <2> QED
    BY <2>2, <2>3, <2>4 DEF h, w
<1>4. CASE t # FLASH_FULL /\ free # {}
  <2>1. /\ t \in DataSegments /\ DOMAIN g.tail.slots = 1 .. SegBlocks
        /\ DOMAIN g.media = DataSegments
    BY <1>0, <1>4 DEF Shape, FsTyped
  <2>2. free \subseteq 1 .. SegBlocks
    BY DEF EmptyBlocks
  <2>3. e \in free /\ (e = SegBlocks => free = {SegBlocks})
    BY <1>4, <2>2, LastBlock
  <2>4. e \in 1 .. SegBlocks /\ g.tail.slots[e] = NO_INUM
    BY <2>3 DEF EmptyBlocks
  <2> HIDE DEF e
  <2>5. h = Place(g, e, slot).fs
    BY <1>4 DEF Log_Write, WithAddress, e
  <2>6. /\ Unflushed(g, p) /\ p.lapses = g.lapses /\ FsTyped(p)
        /\ p.tail.seg = t /\ p.tail.slots = [g.tail.slots EXCEPT ![e] = slot]
        /\ p.saved = g.saved /\ p.root = g.root /\ p.media = g.media
        /\ p.ckptINode = g.ckptINode
    BY <1>0 DEF Unflushed, FsTyped, StateFields
  <2> HIDE DEF p
  <2>7. DOMAIN p.tail.slots = DOMAIN g.tail.slots
    BY <2>6
  <2>8. Shape(p)
    BY <2>6, <2>7, UnflushedShape
  <2>9. ASSUME NEW k, k.tail = p.tail, k.media = p.media,
               "cached" \in k.lapses <=> "cached" \in g.lapses
        PROVE  Retains(InLog(g), InLog(k))
    <3> SUFFICES ASSUME NEW a \in Address, InLog(g)[a] # NO_INUM
                 PROVE  InLog(k)[a] = InLog(g)[a]
      BY DEF Retains
    <3>1. a.seg \in DataSegments /\ a.blk \in 1 .. SegBlocks
      BY AddressParts
    <3>2. CASE a.seg = t /\ "cached" \notin g.lapses
      <4>1. g.tail.slots[a.blk] # NO_INUM
        BY <3>2 DEF InLog, SlotAt, Slots
      <4>2. p.tail.slots[a.blk] = g.tail.slots[a.blk]
        BY <2>1, <2>4, <2>6, <3>1, <4>1
      <4> QED
        BY <2>6, <2>9, <3>2, <4>2 DEF InLog, SlotAt, Slots
    <3>3. CASE a.seg # t \/ "cached" \in g.lapses
      BY <2>6, <2>9, <3>3 DEF InLog, SlotAt, Slots
    <3> QED
      BY <3>2, <3>3
  <2>10. CASE e # SegBlocks
    <3>1. h = p
      BY <2>5, <2>10 DEF Place, p
    <3> HIDE DEF h
    <3>2. Refused(h) => Refused(g)
      BY <2>6, <3>1 DEF Refused
    <3> QED
      BY <2>6, <2>8, <2>9, <3>1, <3>2 DEF h, w
  <2>11. CASE e = SegBlocks
    <3>1. h = WriteTail(p).fs
      BY <2>5, <2>11 DEF Place, p
    <3> HIDE DEF h
    <3>2. CASE /\ p.tail.seg \in p.full /\ ~ p.partial
               /\ Unflushed(p, h) /\ h.tail = p.tail
               /\ Refused(h) /\ FsTyped(h)
      <4>1. Unflushed(g, h) /\ Halted(g)
        BY <2>6, <3>2 DEF Unflushed, Halted
      <4>2. Shape(h)
        BY <2>8, <3>2, UnflushedShape
      <4>3. Retains(InLog(g), InLog(h))
        BY <2>6, <2>9, <3>2 DEF Unflushed
      <4> QED
        BY <4>1, <4>2, <4>3 DEF h, w
    <3>3. CASE /\ ~ Halted(p)
               /\ h.media = [p.media EXCEPT ![p.tail.seg] = p.tail.slots]
               /\ h.full = p.full \cup {p.tail.seg} /\ ~ h.partial
               /\ h.root = p.root /\ h.ckptINode = p.root
               /\ h.saved = p.saved \/ h.saved.root = p.root
               /\ h.lapses = p.lapses \/ Reuses(p, h)
               /\ h.tail.slots = EmptySlots /\ FsTyped(h)
      <4>1. ~ Halted(g) /\ p.full = g.full
        BY <2>6, <3>3, HaltedSame DEF Unflushed
      <4>2. free = {SegBlocks}
        BY <2>3, <2>11
      <4>3. Flushed(g, h, slot)
        BY <2>1, <2>6, <2>11, <3>3, <4>1, <4>2 DEF Flushed, Reuses
      <4>4. Shape(h)
        <5>1. DOMAIN h.media = DataSegments /\ DOMAIN EmptySlots = 1 .. SegBlocks
          BY <2>1, <2>6, <3>3 DEF EmptySlots
        <5>2. \A s \in DataSegments \ h.full : h.media[s] = EmptySlots
          BY <2>1, <2>8, <2>6, <3>3 DEF Shape
        <5> QED
          BY <3>3, <5>1, <5>2 DEF Shape
      <4> QED
        BY <4>3, <4>4 DEF h, w
    <3> QED
      BY <2>1, <2>6, <2>8, <3>1, <3>2, <3>3, TailKinds
  <2> QED
    BY <2>10, <2>11
<1> QED
  BY <1>2, <1>3, <1>4

----------------------------------------------------------------------------
(* What a request does to the flash. *)

\* A block that was empty is not any more.
Filled(g, f) == \E a \in Address : OnMedia(g)[a] = NO_INUM /\ OnMedia(f)[a] # NO_INUM

\* Until the segment found at mount is written, the first block of the ifile
\* stays where mklfs put it.
Pin(f) ==
    f.partial => /\ f.tail.seg = 1 /\ f.root.direct[0] = At(1, 1)
                 /\ f.root.fileSize \in Nat /\ 1 <= f.root.fileSize

\* The files that mklfs counts.
FirstOnly(C) == [j \in INums |-> IF j = ROOT_DIRECTORY_INUM THEN C[j] ELSE NoFile]

\* A request that started in g has left the flash alone, or what it keeps for the
\* next checkpoint leads to the files of C, and so does what a checkpoint holds
\* that it wrote.
Carried(g, C, f) ==
    /\ Shape(f) /\ Pin(f) /\ (Refused(f) => Halted(f))
    /\ \/ /\ f.media = g.media /\ f.full = g.full /\ f.saved = g.saved
          /\ f.partial <=> g.partial
          /\ "dirty" \in f.lapses \/ f.ckptINode = g.ckptINode
       \/ /\ Filled(g, f) /\ ~ f.partial
          /\ "dirty" \in f.lapses \/ LeadsTo(OnMedia(f), f.ckptINode, C)
          /\ g.partial \/ Retains(OnMedia(g), OnMedia(f))
          /\ \/ /\ f.saved = g.saved
                /\ g.partial => LeadsTo(OnMedia(f), FirstINode, FirstOnly(C))
             \/ LeadsTo(OnMedia(f), f.saved.root, C)

\* The next write of a block leaves the flash alone, or finds the files of C.
Room(f)     == \E b \in EmptyBlocks(f.tail.slots) : b # SegBlocks
Ready(f, C) == LeadsTo(InLog(f), f.root, C) \/ Room(f) \/ Halted(f)

\* The ifile's inode of mklfs leads to what became of the root directory.
LEMMA PinLeads ==
    ASSUME NEW at, NEW root, NEW C, LeadsTo(at, root, C),
           root.direct[0] = At(1, 1), root.fileSize \in Nat, 1 <= root.fileSize
    PROVE  LeadsTo(at, FirstINode, FirstOnly(C))
<1>1. PICK M, A, D : /\ M[IFILE_INUM] = root
                     /\ Leads(at, M, A, D, Torn(C)) /\ Known(M, A, D, C)
  BY DEF LeadsTo
<1> DEFINE N == [M EXCEPT ![0] = FirstINode]
           B == [A EXCEPT ![0] = [c \in BlockNumbers |-> IF c = 0 THEN At(1, 1)
                                                         ELSE NoAddress]]
           E == [D EXCEPT ![0] = [c \in BlockNumbers |-> IF c = 0 THEN D[0][0]
                                                         ELSE ZeroBlock]]
           K == FirstOnly(C)
<1>0. /\ 0 \in Numbers /\ IFILE_INUM = 0 /\ 1 \in INums /\ 1 \in Numbers
      /\ ROOT_DIRECTORY_INUM = 1 /\ 0 \in BlockNumbers /\ 0 < NDirect
      /\ At(1, 1) \in Address /\ At(1, 1) # NoAddress
      /\ \A j \in INums : j \in Numbers /\ j \in Nat /\ j # 0
  <2>1. 0 \in Numbers /\ 1 \in Numbers /\ 1 \in INums /\ 0 \in BlockNumbers
    BY FirstFacts
  <2>2. At(1, 1) \in Address /\ At(1, 1) # NoAddress
    BY FirstFacts
  <2>3. IFILE_INUM = 0 /\ \A j \in INums : j \in Numbers /\ j \in Nat /\ j # IFILE_INUM
    BY INumFacts
  <2>4. ROOT_DIRECTORY_INUM = 1 /\ 0 < NDirect
    <3>1. NDirect \in Nat \ {0}
      BY GeometryFacts
    <3> QED BY <3>1 DEF ROOT_DIRECTORY_INUM
  <2> QED BY <2>1, <2>2, <2>3, <2>4
<1>2. /\ FirstINode \in INode /\ FirstINode.inum = 0 /\ FirstINode.fileSize = 1
      /\ FirstINode.indirect = NoAddress
      /\ \A b \in 0 .. NDirect - 1 :
            FirstINode.direct[b] = IF b = 0 THEN At(1, 1) ELSE NoAddress
  BY FirstINodesTyped
<1>3. /\ M \in [Numbers -> INode]
      /\ A \in [Numbers -> [BlockNumbers -> MaybeAddress]]
      /\ D \in [Numbers -> [BlockNumbers -> FileBlock]]
      /\ M[0] = root
  BY <1>0, <1>1 DEF Leads
<1>4. /\ N \in [Numbers -> INode] /\ B \in [Numbers -> [BlockNumbers -> MaybeAddress]]
      /\ E \in [Numbers -> [BlockNumbers -> FileBlock]]
  <2>1. [c \in BlockNumbers |-> IF c = 0 THEN At(1, 1) ELSE NoAddress]
           \in [BlockNumbers -> MaybeAddress]
    BY <1>0 DEF MaybeAddress
  <2>2. [c \in BlockNumbers |-> IF c = 0 THEN D[0][0] ELSE ZeroBlock]
           \in [BlockNumbers -> FileBlock]
    BY <1>0, <1>3, ZeroBlockTyped
  <2> QED
    BY <1>2, <1>3, <2>1, <2>2
<1>5. /\ N[0] = FirstINode
      /\ \A c \in BlockNumbers : /\ B[0][c] = IF c = 0 THEN At(1, 1) ELSE NoAddress
                                 /\ E[0][c] = IF c = 0 THEN D[0][0] ELSE ZeroBlock
      /\ N[1] = M[1] /\ B[1] = A[1] /\ E[1] = D[1]
  BY <1>0, <1>3
<1> HIDE DEF N, B, E
<1>6. 1 \notin Torn(K) => 1 \in Numbers \ Torn(C) /\ C[1] # Unknown /\ K[1] = C[1]
  BY <1>0 DEF Torn, FirstOnly
<1>7. A[0][0] = At(1, 1) /\ at[At(1, 1)] = [inum |-> 0, fb |-> 0, data |-> D[0][0]]
  <2>1. 0 \in Numbers \ Torn(C) /\ 0 <= M[0].fileSize
    BY <1>0, <1>3 DEF Torn
  <2>2. A[0][0] = M[0].direct[0]
    BY <1>0, <1>1, <2>1 DEF Leads
  <2>3. A[0][0] = At(1, 1)
    BY <1>3, <2>2
  <2>4. A[0][0] # NoAddress =>
           at[A[0][0]] = [inum |-> 0, fb |-> 0, data |-> D[0][0]]
    BY <1>0, <1>1, <2>1 DEF Leads
  <2> QED
    BY <1>0, <2>3, <2>4
<1>8. ASSUME NEW j \in Numbers \ Torn(K), j <= 1
      PROVE  /\ N[j].inum = j
             /\ \A b \in BlockNumbers :
                   /\ b < NDirect => B[j][b] = N[j].direct[b]
                   /\ b >= NDirect /\ N[j].indirect = NoAddress => B[j][b] = NoAddress
                   /\ B[j][b] = NoAddress => E[j][b] = ZeroBlock
                   /\ B[j][b] # NoAddress =>
                         at[B[j][b]] = [inum |-> j, fb |-> b, data |-> E[j][b]]
             /\ N[j].indirect # NoAddress =>
                   /\ at[N[j].indirect] # NO_INUM
                   /\ at[N[j].indirect].inum = j
                   /\ at[N[j].indirect].data
                        = [c \in 0 .. NIndirect - 1 |-> B[j][NDirect + c]]
  <2>1. CASE j = 0
    <3>1. ASSUME NEW b \in BlockNumbers
          PROVE  /\ b < NDirect => B[0][b] = FirstINode.direct[b]
                 /\ b >= NDirect => B[0][b] = NoAddress
                 /\ B[0][b] = NoAddress => E[0][b] = ZeroBlock
                 /\ B[0][b] # NoAddress =>
                       at[B[0][b]] = [inum |-> 0, fb |-> b, data |-> E[0][b]]
      <4>1. b < NDirect => b \in 0 .. NDirect - 1
        BY BlockNumberFacts, GeometryFacts DEF BlockNumbers
      <4> QED
        BY <1>0, <1>2, <1>5, <1>7, <4>1, GeometryFacts
    <3> QED
      BY <1>2, <1>5, <2>1, <3>1
  <2>2. CASE j # 0
    <3>1. j = 1 /\ 1 \in Numbers \ Torn(C) /\ 1 <= M[0].fileSize
      BY <1>0, <1>3, <1>6, <1>8, <2>2 DEF Numbers
    <3> QED
      BY <1>0, <1>1, <1>5, <3>1 DEF Leads
  <2> QED
    BY <2>1, <2>2
<1>9. Leads(at, N, B, E, Torn(K))
  BY <1>0, <1>2, <1>4, <1>5, <1>8 DEF Leads
<1>10. ASSUME NEW j \in INums, K[j] # Unknown
       PROVE  IF j <= 1 THEN /\ HasEntry(N, B, E, j) /\ Sound(N, B, j, 1)
                             /\ Stands(N, E, j, K[j])
              ELSE K[j] = NoFile
  <2>1. CASE j = 1
    <3>1. C[1] # Unknown /\ K[1] = C[1]
      BY <1>10, <2>1, <1>0 DEF FirstOnly
    <3>2. /\ HasEntry(M, A, D, 1) /\ Sound(M, A, 1, M[0].fileSize)
          /\ Stands(M, D, 1, C[1])
      BY <1>0, <1>1, <1>3, <3>1 DEF Known
    <3>3. Sound(N, B, 1, 1)
      BY <1>3, <1>5, <3>2 DEF Sound
    <3>4. Stands(N, E, 1, K[1])
      BY <1>5, <3>1, <3>2 DEF Stands, Matches
    <3>5. HasEntry(N, B, E, 1)
      <4>1. (1 - 1) \div BlockSize = 0 /\ (1 - 1) % BlockSize = 0
        BY GeometryFacts
      <4>2. (1 - 1) \div BlockSize \in BlockNumbers
        BY <1>0, <4>1
      <4> QED
        BY <1>0, <1>5, <3>2, <4>1 DEF HasEntry, UnitOf
    <3> QED
      BY <2>1, <3>3, <3>4, <3>5
  <2>2. CASE j # 1
    BY <1>0, <1>10, <2>2 DEF FirstOnly
  <2> QED
    BY <2>1, <2>2
<1>11. Known(N, B, E, K)
  BY <1>0, <1>2, <1>5, <1>10 DEF Known
<1> QED
  BY <1>0, <1>5, <1>9, <1>11 DEF LeadsTo

\* A step that leaves the flash alone.
LEMMA UnflushedCarried ==
    ASSUME NEW g, NEW C, NEW f, Carried(g, C, f), NEW h, Unflushed(f, h), Shape(h),
           "dirty" \in f.lapses => "dirty" \in h.lapses, Refused(h) => Halted(f)
    PROVE  Carried(g, C, h)
<1>1. Halted(h) <=> Halted(f)
  BY HaltedSame
<1>2. OnMedia(h) = OnMedia(f)
  BY DEF OnMedia, Unflushed
<1>3. Pin(h)
  BY DEF Carried, Pin, Unflushed
<1>4. CASE /\ f.media = g.media /\ f.full = g.full /\ f.saved = g.saved
           /\ f.partial <=> g.partial
           /\ "dirty" \in f.lapses \/ f.ckptINode = g.ckptINode
  BY <1>1, <1>3, <1>4 DEF Carried, Unflushed
<1>5. CASE /\ Filled(g, f) /\ ~ f.partial
           /\ "dirty" \in f.lapses \/ LeadsTo(OnMedia(f), f.ckptINode, C)
           /\ g.partial \/ Retains(OnMedia(g), OnMedia(f))
           /\ \/ /\ f.saved = g.saved
                 /\ g.partial => LeadsTo(OnMedia(f), FirstINode, FirstOnly(C))
              \/ LeadsTo(OnMedia(f), f.saved.root, C)
  <2>1. Filled(g, h)
    BY <1>2, <1>5 DEF Filled
  <2>2. h.saved = f.saved /\ ~ h.partial /\ ("dirty" \in h.lapses \/ h.ckptINode = f.ckptINode)
    BY <1>5 DEF Unflushed
  <2> QED
    BY <1>1, <1>2, <1>3, <1>5, <2>1, <2>2 DEF Carried
<1> QED
  BY <1>4, <1>5 DEF Carried

\* The write of a segment.
LEMMA FlushedCarried ==
    ASSUME NEW g, NEW C, NEW f, Carried(g, C, f), LeadsTo(InLog(f), f.root, C),
           NEW slot, slot # NO_INUM, NEW h, Flushed(f, h, slot), Shape(h)
    PROVE  Carried(g, C, h)
<1> DEFINE t    == f.tail.seg
           last == At(t, SegBlocks)
<1>1. /\ t \in DataSegments /\ SegBlocks \in 1 .. SegBlocks
      /\ DOMAIN f.media = DataSegments /\ DOMAIN f.tail.slots = 1 .. SegBlocks
      /\ \A b \in 1 .. SegBlocks : b # SegBlocks => f.tail.slots[b] # NO_INUM
      /\ f.tail.slots[SegBlocks] = NO_INUM
      /\ h.media = [f.media EXCEPT ![t] = [f.tail.slots EXCEPT ![SegBlocks] = slot]]
  BY GeometryFacts DEF Flushed, Carried, Shape, EmptyBlocks
<1>2. last \in Address /\ last.seg = t /\ last.blk = SegBlocks
  BY <1>1, AtIsAddress
<1>3. OnMedia(h)[last] = slot
  BY <1>1, <1>2 DEF OnMedia
<1>4. \A a \in Address : a.seg # t => OnMedia(h)[a] = OnMedia(f)[a]
  BY <1>1 DEF OnMedia
<1>11. "cached" \notin f.lapses
  BY DEF Carried, Flushed, Refused
<1>5. Retains(InLog(f), OnMedia(h))
  <2> SUFFICES ASSUME NEW a \in Address, InLog(f)[a] # NO_INUM
               PROVE  OnMedia(h)[a] = InLog(f)[a]
    BY DEF Retains
  <2>1. a.blk \in 1 .. SegBlocks
    BY AddressParts
  <2>2. CASE a.seg = t
    <3>1. InLog(f)[a] = f.tail.slots[a.blk]
      BY <1>11, <2>2 DEF InLog, SlotAt, Slots
    <3>2. a.blk # SegBlocks
      BY <1>1, <3>1
    <3> QED
      BY <1>1, <2>1, <2>2, <3>1, <3>2 DEF OnMedia
  <2>3. CASE a.seg # t
    BY <1>4, <2>3 DEF InLog, SlotAt, Slots, OnMedia
  <2> QED
    BY <2>2, <2>3
<1>6. LeadsTo(OnMedia(h), f.root, C)
  BY <1>5, LeadsToKept
<1>7. /\ Shape(f) /\ Pin(f) /\ ~ h.partial /\ h.ckptINode = f.root
      /\ h.saved = f.saved \/ h.saved.root = f.root
      /\ h.lapses = f.lapses \/ Reuses(f, h)
      /\ ~ Halted(f) /\ f.tail.seg # FLASH_FULL
      /\ f.tail.seg \in f.full => f.partial
  BY DEF Carried, Flushed, Halted
<1>8. Pin(h) /\ (Refused(h) => Halted(h))
  BY <1>7 DEF Pin, Refused, Carried, Reuses
<1> HIDE DEF t, last
<1>9. CASE f.partial
  <2>1. f.media = g.media /\ f.saved = g.saved /\ g.partial
    BY <1>9 DEF Carried
  <2>2. OnMedia(f)[last] = NO_INUM
    BY <1>2, <1>7, <1>9 DEF Shape, OnMedia, t
  <2>3. Filled(g, h)
    BY <1>2, <1>3, <2>1, <2>2 DEF Filled, OnMedia
  <2>4. LeadsTo(OnMedia(h), FirstINode, FirstOnly(C))
    BY <1>6, <1>7, <1>9, PinLeads DEF Pin
  <2>5. h.saved = g.saved \/ LeadsTo(OnMedia(h), h.saved.root, C)
    BY <1>6, <1>7, <2>1
  <2> QED
    BY <1>6, <1>7, <1>8, <2>1, <2>3, <2>4, <2>5 DEF Carried
<1>10. CASE ~ f.partial
  <2>1. f.media[t] = EmptySlots
    BY <1>1, <1>7, <1>10 DEF Shape, t
  <2>2. \A a \in Address : a.seg = t => OnMedia(f)[a] = NO_INUM
    BY <2>1, AddressParts DEF OnMedia, EmptySlots
  <2>3. Retains(OnMedia(f), OnMedia(h))
    BY <1>4, <2>2 DEF Retains
  <2>4. CASE /\ f.media = g.media /\ f.saved = g.saved /\ ~ g.partial
    <3>1. OnMedia(g) = OnMedia(f)
      BY <2>4 DEF OnMedia
    <3>2. Filled(g, h)
      BY <1>2, <1>3, <2>2, <3>1 DEF Filled
    <3>3. h.saved = g.saved \/ LeadsTo(OnMedia(h), h.saved.root, C)
      BY <1>6, <1>7, <2>4
    <3> QED
      BY <1>6, <1>7, <1>8, <2>3, <2>4, <3>1, <3>2, <3>3 DEF Carried
  <2>5. CASE /\ Filled(g, f)
             /\ g.partial \/ Retains(OnMedia(g), OnMedia(f))
             /\ \/ /\ f.saved = g.saved
                   /\ g.partial => LeadsTo(OnMedia(f), FirstINode, FirstOnly(C))
                \/ LeadsTo(OnMedia(f), f.saved.root, C)
    <3>1. Filled(g, h)
      BY <2>3, <2>5 DEF Filled, Retains
    <3>2. g.partial \/ Retains(OnMedia(g), OnMedia(h))
      BY <2>3, <2>5 DEF Retains
    <3>3. \/ /\ h.saved = g.saved
             /\ g.partial => LeadsTo(OnMedia(h), FirstINode, FirstOnly(C))
          \/ LeadsTo(OnMedia(h), h.saved.root, C)
      <4>1. CASE h.saved = f.saved
        BY <2>3, <2>5, <4>1, LeadsToKept
      <4>2. CASE h.saved.root = f.root
        BY <1>6, <4>2
      <4> QED
        BY <1>7, <4>1, <4>2
    <3> QED
      BY <1>6, <1>7, <1>8, <3>1, <3>2, <3>3 DEF Carried
  <2> QED
    BY <1>10, <2>4, <2>5 DEF Carried
<1> QED
  BY <1>9, <1>10

\* A write that is ready.
LEMMA WriteCarried ==
    ASSUME NEW g, NEW C, NEW f, Carried(g, C, f), Ready(f, C),
           NEW inum, NEW fileBlock, NEW data,
           \/ Halted(f) \/ Room(f)
           \/ [inum |-> inum, fb |-> fileBlock, data |-> data] # NO_INUM
    PROVE  LET h == Log_Write(f, inum, fileBlock, data).fs
           IN  /\ Carried(g, C, h)
               /\ LeadsTo(InLog(f), f.root, C) \/ Halted(f) => Ready(h, C)
<1> DEFINE slot == [inum |-> inum, fb |-> fileBlock, data |-> data]
           h    == Log_Write(f, inum, fileBlock, data).fs
<1>1. Shape(f) /\ FsTyped(f) /\ (Refused(f) => Halted(f))
  BY DEF Carried, Shape
<1>2. "dirty" \in f.lapses => "dirty" \in h.lapses
  BY <1>1, Log_WriteFollows DEF Follows
<1>3. /\ Shape(h)
      /\ \/ /\ Unflushed(f, h) /\ Retains(InLog(f), InLog(h))
            /\ Refused(h) => Refused(f) \/ Halted(f)
         \/ Flushed(f, h, slot)
  BY <1>1, WriteKinds
<1> HIDE DEF h
<1>4. CASE /\ Unflushed(f, h) /\ Retains(InLog(f), InLog(h))
           /\ Refused(h) => Refused(f) \/ Halted(f)
  <2>1. Carried(g, C, h)
    BY <1>1, <1>2, <1>3, <1>4, UnflushedCarried
  <2>2. LeadsTo(InLog(f), f.root, C) => LeadsTo(InLog(h), h.root, C)
    BY <1>4, LeadsToKept DEF Unflushed
  <2>3. Halted(f) => Halted(h)
    BY <1>4, HaltedSame
  <2> QED
    BY <2>1, <2>2, <2>3 DEF Ready, h
<1>5. CASE Flushed(f, h, slot)
  <2>1. ~ Room(f) /\ ~ Halted(f)
    BY <1>5 DEF Flushed, Room
  <2>2. LeadsTo(InLog(f), f.root, C)
    BY <2>1 DEF Ready
  <2>3. Carried(g, C, h)
    BY <1>3, <1>5, <2>1, <2>2, FlushedCarried
  <2>4. Room(h)
    <3>1. 1 \in 1 .. SegBlocks /\ 1 # SegBlocks
      BY GeometryFacts
    <3> QED
      BY <1>5, <3>1 DEF Flushed, Room, EmptyBlocks, EmptySlots
  <2> QED
    BY <2>3, <2>4 DEF Ready, h
<1> QED
  BY <1>3, <1>4, <1>5

----------------------------------------------------------------------------
(* Steps that write nothing to flash. *)

\* At most the tail's slots, the counts and the lapses change.
Quiet(f, h) ==
    /\ FsTyped(h) /\ h.media = f.media /\ h.full = f.full /\ h.saved = f.saved
    /\ h.partial = f.partial /\ h.root = f.root /\ h.ckptINode = f.ckptINode
    /\ h.tail.seg = f.tail.seg /\ DOMAIN h.tail.slots = DOMAIN f.tail.slots
    /\ \A l \in {"full", "dirty", "cached"} : l \in h.lapses <=> l \in f.lapses

LEMMA QuietFollows ==
    ASSUME NEW f, NEW g, NEW h, Quiet(f, g), Quiet(g, h)
    PROVE  Quiet(f, h)
BY DEF Quiet

LEMMA FreeQuiet ==
    ASSUME NEW f, FsTyped(f), NEW a
    PROVE  Quiet(f, Log_Free(f, a))
<1> DEFINE h == Log_Free(f, a)
<1>1. FsTyped(h)
  BY Log_FreeFollows DEF Follows
<1>2. CASE a = NoAddress
  BY <1>1, <1>2 DEF Log_Free, Quiet
<1>3. CASE a # NoAddress
  <2>1. /\ h.media = f.media /\ h.full = f.full /\ h.saved = f.saved
        /\ h.partial = f.partial /\ h.root = f.root /\ h.ckptINode = f.ckptINode
        /\ h.tail.seg = f.tail.seg /\ h.lapses = f.lapses
        /\ h.tail.slots = IF a.seg = f.tail.seg
                          THEN [f.tail.slots EXCEPT ![a.blk] = NO_INUM] ELSE f.tail.slots
    BY <1>3 DEF Log_Free, FsTyped, StateFields
  <2> HIDE DEF h
  <2>2. DOMAIN h.tail.slots = DOMAIN f.tail.slots
    BY <2>1
  <2> QED
    BY <1>1, <2>1, <2>2 DEF Quiet, Refused, h
<1> QED
  BY <1>2, <1>3

LEMMA LapseQuiet ==
    ASSUME NEW f, FsTyped(f), NEW l, l \notin {"full", "dirty", "cached"}
    PROVE  Quiet(f, Lapse(f, l))
BY LapseFollows DEF Lapse, Quiet, Refused, Follows, FsTyped, StateFields

LEMMA LeakQuiet ==
    ASSUME NEW f, FsTyped(f), NEW X
    PROVE  Quiet(f, Leak(f, X))
BY LeakFollows DEF Leak, Quiet, Refused, Follows, FsTyped, StateFields

LEMMA QuietCarried ==
    ASSUME NEW g, NEW C, NEW f, Carried(g, C, f), NEW h, Quiet(f, h)
    PROVE  /\ Carried(g, C, h) /\ (Halted(h) <=> Halted(f))
<1>1. Unflushed(f, h) /\ FsTyped(h)
  BY DEF Quiet, Unflushed
<1>2. Shape(h)
  BY <1>1, UnflushedShape DEF Carried, Quiet
<1>3. /\ Refused(h) => Halted(f)
      /\ "dirty" \in f.lapses => "dirty" \in h.lapses
  BY DEF Quiet, Carried, Refused
<1> QED
  BY <1>1, <1>2, <1>3, UnflushedCarried, HaltedSame

\* When there is no tail that the flash would take, the rest of a request leaves
\* the flash alone.
Resting(g, C, f) == Carried(g, C, f) /\ Halted(f)

LEMMA QuietRests ==
    ASSUME NEW g, NEW C, NEW f, Resting(g, C, f), NEW h, Quiet(f, h)
    PROVE  Resting(g, C, h)
BY QuietCarried DEF Resting

LEMMA Log_WriteRests ==
    ASSUME NEW g, NEW C, NEW f, Resting(g, C, f), NEW inum, NEW fileBlock, NEW data
    PROVE  Resting(g, C, Log_Write(f, inum, fileBlock, data).fs)
<1> DEFINE h == Log_Write(f, inum, fileBlock, data).fs
<1>1. Carried(g, C, h)
  BY WriteCarried DEF Ready, Resting
<1>2. Unflushed(f, h)
  BY WriteKinds DEF Resting, Carried, Flushed
<1> HIDE DEF h
<1> QED
  BY <1>1, <1>2, HaltedSame DEF Resting, h

LEMMA RestingTyped ==
    ASSUME NEW g, NEW C, NEW f, Resting(g, C, f)
    PROVE  FsTyped(f)
BY DEF Resting, Carried, Shape

\* With nowhere to write, the rest of each step of a request.
LEMMA UpdateINodeBlockRests ==
    ASSUME NEW g, NEW C, NEW f, Resting(g, C, f), NEW inode, NEW b, NEW a
    PROVE  Resting(g, C, UpdateINodeBlock(f, inode, b, a).fs)
<1> DEFINE blocks == ReadIndirectBlocks(f, inode)
           number == IF inode.indirect = NoAddress THEN INDIRECT_BLOCK
                     ELSE inode.indirect.blk
<1>1. ASSUME NEW data PROVE Resting(g, C, WriteIndirectBlocks(f, inode, data).fs)
  <2>1. Resting(g, C, Log_Write(f, inode.inum, number, data).fs)
    BY Log_WriteRests
  <2>2. ASSUME NEW w, Resting(g, C, w.fs)
        PROVE  Resting(g, C, IndirectWritten(w, inode).fs)
    BY <2>2, LeakQuiet, QuietRests, RestingTyped DEF IndirectWritten
  <2> QED
    BY <2>1, <2>2 DEF WriteIndirectBlocks
<1>2. Resting(g, C, Throw(f))
  BY LapseQuiet, QuietRests, RestingTyped DEF Throw
<1>3. CASE b < NDirect
  BY <1>3 DEF UpdateINodeBlock
<1>4. CASE ~ (b < NDirect) /\ blocks = Dead
  BY <1>2, <1>4 DEF UpdateINodeBlock
<1>5. CASE ~ (b < NDirect) /\ blocks # Dead
  BY <1>1, <1>5 DEF UpdateINodeBlock
<1> QED
  BY <1>3, <1>4, <1>5

LEMMA BlockWrittenRests ==
    ASSUME NEW g, NEW C, NEW w, Resting(g, C, w.fs), NEW inode, NEW b
    PROVE  Resting(g, C, BlockWritten(w, inode, b).fs)
<1>1. ASSUME NEW u, Resting(g, C, u.fs) PROVE Resting(g, C, Unchecked(u).fs)
  BY <1>1, LapseQuiet, QuietRests, RestingTyped DEF Unchecked
<1>2. Resting(g, C, UpdateINodeBlock(w.fs, inode, b, w.addr).fs)
  BY UpdateINodeBlockRests
<1> QED
  BY <1>1, <1>2 DEF BlockWritten

LEMMA WriteFileBlockRests ==
    ASSUME NEW g, NEW C, NEW acc, AccFollows(acc.fs, acc), Resting(g, C, acc.fs),
           NEW b, NEW offset, NEW buffer
    PROVE  Resting(g, C, WriteFileBlock(acc, b, offset, buffer).fs)
<1>1. ASSUME NEW d PROVE Resting(g, C, ReplaceBlock(acc, b, d, offset, buffer).fs)
  <2> DEFINE freed == Log_Free(acc.fs, GetBlockAddress(acc.fs, acc.inode, b))
             w == Log_Write(freed, acc.inode.inum, b, Merged(d, b, offset, buffer))
  <2>1. Resting(g, C, freed)
    BY FreeQuiet, QuietRests, RestingTyped
  <2> HIDE DEF freed
  <2>2. Resting(g, C, w.fs)
    BY <2>1, Log_WriteRests
  <2> HIDE DEF w
  <2>3. Resting(g, C, BlockWritten(w, acc.inode, b).fs)
    BY <2>2, BlockWrittenRests
  <2>4. Resting(g, C, Throw(acc.fs))
    BY LapseQuiet, QuietRests, RestingTyped DEF Throw
  <2>5. [acc EXCEPT !.fs = Throw(acc.fs), !.ret = 1].fs = Throw(acc.fs)
    BY DEF AccFollows
  <2> QED
    BY <2>3, <2>4, <2>5 DEF ReplaceBlock, freed, w
<1> QED
  BY <1>1 DEF WriteFileBlock

LEMMA WriteFileBlocksRests ==
    ASSUME NEW g, NEW C, NEW acc, AccFollows(acc.fs, acc), Resting(g, C, acc.fs),
           NEW first, NEW last, NEW offset, NEW buffer
    PROVE  Resting(g, C, WriteFileBlocks(acc, first, last, offset, buffer).fs)
<1> DEFINE Turn(before, n) ==
             IF first + n - 1 > last THEN before
             ELSE WriteFileBlock(before, first + n - 1, offset, buffer)
<1>0. maxFileBlocks \in Nat
  BY GeometryFacts
<1>1. PICK turn :
         /\ turn[0] = acc
         /\ \A n \in 1 .. maxFileBlocks : turn[n] = Turn(turn[n - 1], n)
         /\ WriteFileBlocks(acc, first, last, offset, buffer) = turn[maxFileBlocks]
  BY WriteFileBlocksTurns
<1> DEFINE Rests(k) == AccFollows(turn[k].fs, turn[k]) /\ Resting(g, C, turn[k].fs)
           Good == {k \in Nat : k <= maxFileBlocks => Rests(k)}
<1>2. 0 \in Good
  BY <1>1
<1>3. ASSUME NEW k \in Nat, k \in Good PROVE k + 1 \in Good
  <2> SUFFICES ASSUME k + 1 <= maxFileBlocks PROVE Rests(k + 1)
    OBVIOUS
  <2>1. Rests(k)
    BY <1>0, <1>3
  <2>2. turn[k + 1] = Turn(turn[k], k + 1)
    BY <1>0, <1>1
  <2>3. ASSUME NEW b
        PROVE  LET r == WriteFileBlock(turn[k], b, offset, buffer)
               IN  AccFollows(r.fs, r) /\ Resting(g, C, r.fs)
    BY <2>1, WriteFileBlockRests, WriteFileBlockFollows DEF AccFollows, Follows
  <2> QED
    BY <2>1, <2>2, <2>3
<1>4. maxFileBlocks \in Good
  <2> HIDE DEF Good
  <2> QED
    BY <1>0, <1>2, <1>3, InductionOnSets
<1> QED
  BY <1>0, <1>1, <1>4

LEMMA WriteBlocksRests ==
    ASSUME NEW g, NEW C, NEW f, Resting(g, C, f), NEW inode, NEW offset, NEW buffer
    PROVE  Resting(g, C, WriteBlocks(f, inode, offset, buffer).fs)
<1> DEFINE start == [fs |-> f, inode |-> inode, ret |-> 0]
           first == offset \div BlockSize
           last  == (offset + Len(buffer) - 1) \div BlockSize
           size  == Max({inode.fileSize, offset + Len(buffer)})
           w     == WriteFileBlocks(start, first, last, offset, buffer)
<1>1. AccFollows(start.fs, start) /\ start.fs = f
  BY RestingTyped DEF AccFollows, Follows
<1> HIDE DEF start, first, last
<1>2. Resting(g, C, w.fs) /\ DOMAIN w = {"fs", "inode", "ret"}
  BY <1>1, WriteFileBlocksRests, WriteFileBlocksFollows DEF AccFollows
<1> HIDE DEF w, size
<1>3. [w EXCEPT !.inode.fileSize = size].fs = w.fs
  BY <1>2
<1>4. \/ WriteBlocks(f, inode, offset, buffer) = [fs |-> f, inode |-> inode, ret |-> 1]
      \/ WriteBlocks(f, inode, offset, buffer) = [w EXCEPT !.inode.fileSize = size]
  BY DEF WriteBlocks, w, size, start, first, last
<1> QED
  BY <1>2, <1>3, <1>4

\* Another inode of the ifile.
LEMMA RootCarried ==
    ASSUME NEW g, NEW C, NEW f, Carried(g, C, f), NEW root,
           f.partial => /\ root.direct[0] = At(1, 1)
                        /\ root.fileSize \in Nat /\ 1 <= root.fileSize
    PROVE  LET h == [f EXCEPT !.root = root]
           IN  Carried(g, C, h) /\ (Halted(h) <=> Halted(f))
<1> DEFINE h == [f EXCEPT !.root = root]
<1>1. /\ h.media = f.media /\ h.full = f.full /\ h.saved = f.saved
      /\ h.partial = f.partial /\ h.ckptINode = f.ckptINode /\ h.tail = f.tail
      /\ h.lapses = f.lapses /\ FsTyped(h) /\ h.root = root
  BY DEF Carried, Shape, FsTyped, StateFields
<1> HIDE DEF h
<1>2. /\ OnMedia(h) = OnMedia(f) /\ (Refused(h) <=> Refused(f))
      /\ (Halted(h) <=> Halted(f))
  BY <1>1 DEF OnMedia, Refused, Halted
<1>3. Shape(h) /\ Pin(h)
  BY <1>1 DEF Carried, Shape, Pin
<1>4. Carried(g, C, h)
  <2>1. Filled(g, h) <=> Filled(g, f)
    BY <1>2 DEF Filled
  <2> QED
    BY <1>1, <1>2, <1>3, <2>1 DEF Carried
<1> QED
  BY <1>2, <1>4 DEF h

LEMMA UpdateIFileRests ==
    ASSUME NEW g, NEW C, NEW f, Resting(g, C, f), NEW inode
    PROVE  Resting(g, C, UpdateIFile(f, inode).fs)
<1>1. ASSUME NEW h, Resting(g, C, h), NEW root
      PROVE  Resting(g, C, [h EXCEPT !.root = root])
  <2>1. ~ h.partial
    BY <1>1, GeometryFacts DEF Resting, Halted, Carried, Shape
  <2> QED
    BY <1>1, <2>1, RootCarried DEF Resting
<1> DEFINE w == WriteBlocks(f, f.root, inode.inum - 1, <<inode>>)
<1>2. Resting(g, C, w.fs)
  BY WriteBlocksRests
<1> HIDE DEF w
<1>3. Resting(g, C, RootWritten(w).fs)
  BY <1>1, <1>2 DEF RootWritten
<1> QED
  BY <1>1, <1>3 DEF UpdateIFile, w

LEMMA File_WriteRests ==
    ASSUME NEW g, NEW C, NEW f, Resting(g, C, f), NEW i, NEW offset, NEW buffer
    PROVE  Resting(g, C, File_Write(f, i, offset, buffer).fs)
<1> DEFINE inode == GetINode(f, i)
           w == WriteBlocks(f, inode, offset, buffer)
<1>1. Resting(g, C, w.fs)
  BY WriteBlocksRests
<1>2. Resting(g, C, FileWritten(w).fs)
  BY <1>1, UpdateIFileRests DEF FileWritten
<1>3. Resting(g, C, Throw(f))
  BY LapseQuiet, QuietRests, RestingTyped DEF Throw
<1> QED
  BY <1>2, <1>3 DEF File_Write

\* What is freed before a file is emptied.
LEMMA DirectBlocksFreedQuiet ==
    ASSUME NEW f, FsTyped(f), NEW inode
    PROVE  Quiet(f, DirectBlocksFreed(f, inode))
<1>0. NDirect \in Nat
  BY GeometryFacts
<1>1. PICK freed :
         /\ freed[0] = f
         /\ \A n \in 1 .. NDirect :
               freed[n] = Log_Free(freed[n - 1], inode.direct[n - 1])
         /\ DirectBlocksFreed(f, inode) = freed[NDirect]
  BY DirectBlocksFreedTurns
<1> DEFINE Good == {k \in Nat : k <= NDirect => Quiet(f, freed[k])}
<1>2. 0 \in Good
  BY <1>1 DEF Quiet
<1>3. ASSUME NEW k \in Nat, k \in Good PROVE k + 1 \in Good
  <2> SUFFICES ASSUME k + 1 <= NDirect PROVE Quiet(f, freed[k + 1])
    OBVIOUS
  <2>1. Quiet(f, freed[k])
    BY <1>0, <1>3
  <2>2. freed[k + 1] = Log_Free(freed[k], inode.direct[k])
    BY <1>0, <1>1
  <2> QED
    BY <2>1, <2>2, FreeQuiet, QuietFollows DEF Quiet
<1>4. NDirect \in Good
  <2> HIDE DEF Good
  <2> QED
    BY <1>0, <1>2, <1>3, InductionOnSets
<1> QED
  BY <1>0, <1>1, <1>4

LEMMA EmptiedQuiet ==
    ASSUME NEW f, FsTyped(f), NEW inode
    PROVE  Quiet(f, Emptied(f, inode).fs)
<1> DEFINE d == DirectBlocksFreed(f, inode)
           h == Log_Free(d, inode.indirect)
           n == IndirectLeaked(h, ReadIndirectBlocks(f, inode))
<1>1. Quiet(f, d)
  BY DirectBlocksFreedQuiet
<1> HIDE DEF d
<1>2. Quiet(f, h)
  BY <1>1, FreeQuiet, QuietFollows DEF Quiet
<1> HIDE DEF h
<1>3. Quiet(f, n)
  BY <1>2, LeakQuiet, QuietFollows DEF IndirectLeaked, Quiet
<1> QED
  BY <1>3 DEF Emptied, n, h, d

----------------------------------------------------------------------------
(* The writes of a request that finds its files. *)

\* What a view of the log knows of the files.
LEMMA ViewReady ==
    ASSUME NEW f, NEW M, NEW A, NEW D, NEW O, View(f, M, A, D, O),
           M[IFILE_INUM] = f.root, NEW C, Known(M, A, D, C)
    PROVE  LeadsTo(InLog(f), f.root, C)
BY ViewLeads DEF LeadsTo

\* A step that changes the log only at address a, where no file has a block that
\* is known.
LEMMA ReadyApart ==
    ASSUME NEW f, NEW M, NEW A, NEW D, NEW O, View(f, M, A, D, O),
           M[IFILE_INUM] = f.root, NEW C, Known(M, A, D, C),
           NEW h, h.root = f.root, NEW X,
           \A x \in Address \ X : SlotAt(h, x) = SlotAt(f, x),
           \A j \in Numbers \ Torn(C) : /\ M[j].indirect \notin X
                                        /\ \A b \in BlockNumbers : A[j][b] \notin X
    PROVE  LeadsTo(InLog(h), h.root, C)
<1>1. Leads(InLog(f), M, A, D, Torn(C))
  BY ViewLeads
<1>2. \A x \in Address \ X : InLog(f)[x] # NO_INUM => InLog(h)[x] = InLog(f)[x]
  BY DEF InLog
<1>3. Leads(InLog(h), M, A, D, Torn(C))
  BY <1>1, <1>2, LeadsKept
<1> QED
  BY <1>3 DEF LeadsTo

LEMMA FreeSlots ==
    ASSUME NEW f, FsTyped(f), NEW a \in MaybeAddress, NEW x \in Address,
           x # a \/ a.seg # f.tail.seg
    PROVE  SlotAt(Log_Free(f, a), x) = SlotAt(f, x)
<1> DEFINE h == Log_Free(f, a)
<1>1. CASE a = NoAddress
  BY <1>1 DEF Log_Free
<1>2. CASE a # NoAddress
  <2>1. /\ h.media = f.media /\ h.tail.seg = f.tail.seg /\ h.lapses = f.lapses
        /\ h.tail.slots = IF a.seg = f.tail.seg
                          THEN [f.tail.slots EXCEPT ![a.blk] = NO_INUM] ELSE f.tail.slots
    BY <1>2 DEF Log_Free, FsTyped, StateFields
  <2>2. a \in Address
    BY <1>2 DEF MaybeAddress
  <2>3. a.seg = f.tail.seg /\ x.seg = f.tail.seg => x.blk # a.blk
    BY <2>2, AddressParts
  <2> HIDE DEF h
  <2>4. x.seg = f.tail.seg => h.tail.slots[x.blk] = f.tail.slots[x.blk]
    BY <2>1, <2>3
  <2>5. SlotAt(h, x) = SlotAt(f, x)
    BY <2>1, <2>4 DEF SlotAt, Slots
  <2> QED
    BY <2>5 DEF h
<1> QED
  BY <1>1, <1>2

\* A block of another file is none of file i's.
LEMMA BlocksApart ==
    ASSUME NEW f, NEW M, NEW A, NEW D, NEW O, View(f, M, A, D, O),
           NEW i \in Numbers, NEW b \in BlockNumbers, NEW X, X = {A[i][b]} \ {NoAddress},
           NEW j \in Numbers, j # i
    PROVE  /\ M[j].indirect \notin X /\ \A c \in BlockNumbers : A[j][c] \notin X
<1>1. Tree(M, A, O, f.leaked)
  BY DEF View
<1>2. A[i][b] # NoAddress => O[A[i][b]] = <<i, b>>
  BY <1>1, TreeFacts
<1>3. M[j].indirect # NoAddress => O[M[j].indirect] = <<j, INDIRECT_BLOCK>>
  BY <1>1, TreeFacts
<1>4. \A c \in BlockNumbers : A[j][c] # NoAddress => O[A[j][c]] = <<j, c>>
  BY <1>1, TreeFacts
<1> QED
  BY <1>2, <1>3, <1>4

LEMMA SlotTyped ==
    ASSUME NEW i \in Numbers, NEW b \in Int, NEW data \in FileBlock \cup IndirectBlock
    PROVE  [inum |-> i, fb |-> b, data |-> data] # NO_INUM
<1>1. [inum |-> i, fb |-> b, data |-> data] \in SummarySlot
  BY DEF SummarySlot, Numbers
<1> QED
  BY <1>1, SentinelAssumption

\* Block b of file i was written, and its address is put into the inode.
LEMMA BlockWrittenCarried ==
    ASSUME NEW g, NEW C, NEW f, NEW M, NEW A, NEW D, NEW O, View(f, M, A, D, O),
           NEW i \in Numbers, NEW b \in BlockNumbers,
           NEW w, Carried(g, C, w.fs),
           w.ret = 0 /\ ~ Refused(w.fs) =>
              /\ Ready(w.fs, C) /\ w.addr \in Address
              /\ M[i].indirect # NoAddress =>
                    SlotAt(w.fs, M[i].indirect) = SlotAt(f, M[i].indirect)
    PROVE  Carried(g, C, BlockWritten(w, M[i], b).fs)
<1> DEFINE inode == M[i]
           u == UpdateINodeBlock(w.fs, inode, b, w.addr)
<1>1. ASSUME NEW h, Carried(g, C, h), NEW l, l \notin {"full", "dirty", "cached"}
      PROVE  Carried(g, C, Lapse(h, l))
  <2>1. FsTyped(h)
    BY <1>1 DEF Carried, Shape
  <2> QED
    BY <1>1, <2>1, LapseQuiet, QuietCarried
<1>2. CASE w.ret # 0
  BY <1>2 DEF BlockWritten
<1>4. CASE Refused(w.fs)
  <2>1. Resting(g, C, w.fs)
    BY <1>4 DEF Resting, Carried
  <2> QED
    BY <2>1, BlockWrittenRests DEF Resting
<1>3. CASE w.ret = 0 /\ ~ Refused(w.fs)
  <2>1. Carried(g, C, u.fs)
    <3> DEFINE blocks == ReadIndirectBlocks(w.fs, inode)
    <3>1. CASE b < NDirect
      BY <3>1 DEF UpdateINodeBlock
    <3>2. CASE ~ (b < NDirect) /\ blocks = Dead
      BY <1>1, <3>2 DEF UpdateINodeBlock, Throw
    <3>3. CASE ~ (b < NDirect) /\ blocks # Dead
      <4> DEFINE number == IF inode.indirect = NoAddress THEN INDIRECT_BLOCK
                           ELSE inode.indirect.blk
                 data == [blocks EXCEPT ![b - NDirect] = w.addr]
                 v == Log_Write(w.fs, inode.inum, number, data)
      <4>1. inode.inum = i /\ inode \in INode
        BY DEF View, Tree
      <4>2. blocks \in IndirectBlock
        <5> DEFINE stored == [c \in 0 .. NIndirect - 1 |-> A[i][NDirect + c]]
        <5>1. ReadIndirectBlocks(f, M[i]) = stored /\ stored \in IndirectBlock
          BY ViewReadsIndirect
        <5> HIDE DEF stored
        <5>2. CASE inode.indirect = NoAddress
          BY <5>1, <5>2 DEF ReadIndirectBlocks
        <5>3. CASE inode.indirect # NoAddress
          <6>1. SlotAt(w.fs, inode.indirect) = SlotAt(f, inode.indirect)
            BY <1>3, <5>3
          <6>2. Log_Read(w.fs, inode.indirect) = Log_Read(f, inode.indirect)
            BY <6>1 DEF Log_Read, SlotAt
          <6>3. /\ \A x : Understood(w.fs, x, IndirectBlock) = x
                /\ \A x : Understood(f, x, IndirectBlock) = x
            BY <1>3, LedgerUncached DEF View, Understood, Refused
          <6> QED
            BY <5>1, <5>3, <6>2, <6>3 DEF ReadIndirectBlocks
        <5> QED
          BY <5>2, <5>3
      <4>3. number \in Int
        <5>1. inode.indirect # NoAddress => inode.indirect \in Address
          BY <4>1 DEF INode, MaybeAddress
        <5>2. inode.indirect # NoAddress => inode.indirect.blk \in Int
          BY <5>1, AddressParts, GeometryFacts
        <5> QED
          BY <5>2 DEF INDIRECT_BLOCK
      <4>4. data \in IndirectBlock
        BY <1>3, <4>2 DEF IndirectBlock, MaybeAddress
      <4> HIDE DEF blocks, number, data
      <4>5. [inum |-> inode.inum, fb |-> number, data |-> data] # NO_INUM
        BY <4>1, <4>3, <4>4, SlotTyped
      <4>6. Carried(g, C, v.fs)
        BY <1>3, <4>5, WriteCarried
      <4>7. u = IndirectWritten(v, inode)
        BY <3>3 DEF UpdateINodeBlock, WriteIndirectBlocks, blocks, number, data
      <4> HIDE DEF u, v
      <4>8. u.fs = Leak(v.fs, {inode.indirect})
        BY <4>7 DEF IndirectWritten
      <4>9. FsTyped(v.fs)
        BY <4>6 DEF Carried, Shape
      <4> QED
        BY <4>6, <4>8, <4>9, LeakQuiet, QuietCarried DEF u
    <3> QED
      BY <3>1, <3>2, <3>3
  <2>2. Carried(g, C, Unchecked(u).fs)
    BY <1>1, <2>1 DEF Unchecked
  <2> QED
    BY <1>3, <2>2 DEF BlockWritten
<1> QED
  BY <1>2, <1>3, <1>4

\* A turn of File_Write's loop in which each write is ready.
LEMMA TurnCarried ==
    ASSUME NEW g, NEW C, NEW f, NEW M, NEW A, NEW D, NEW O, View(f, M, A, D, O),
           NEW i \in Numbers, NEW b \in BlockNumbers, NEW offset, NEW buffer,
           NEW new, new = Merged(D[i][b], b, offset, buffer), new \in FileBlock,
           NEW acc, acc.fs = f, acc.inode = M[i], acc.ret = 0,
           Carried(g, C, f),
           NEW k, k = Log_Free(f, A[i][b]), Ready(k, C),
           Log_Write(k, i, b, new).ret = 0 => Ready(Log_Write(k, i, b, new).fs, C)
    PROVE  Carried(g, C, WriteFileBlock(acc, b, offset, buffer).fs)
<1> DEFINE w == Log_Write(k, i, b, new)
           L == InUse(O) \ {A[i][b]}
<1>0. M[i].inum = i
  BY DEF View, Tree
<1>1. WriteFileBlock(acc, b, offset, buffer) = BlockWritten(w, M[i], b)
  <2>1. /\ GetBlockAddress(f, M[i], b) = A[i][b] /\ ReadBlock(f, M[i], b) = D[i][b]
        /\ D[i][b] # Dead
    BY ViewReadsBlock
  <2> QED
    BY <1>0, <2>1 DEF WriteFileBlock, ReplaceBlock
<1>2. Ledger(k, L) /\ Keeps(f, k, L) /\ FsTyped(f)
  <2>1. /\ Ledger(Log_Free(f, A[i][b]), InUse(O) \ {A[i][b]})
        /\ Keeps(f, Log_Free(f, A[i][b]), InUse(O) \ {A[i][b]})
    BY OldBlockFreed
  <2>2. FsTyped(f)
    BY DEF View, Ledger
  <2> QED
    BY <2>1, <2>2
<1>3. M[i].indirect # NoAddress => M[i].indirect \in L
  BY OthersInUse
<1>4. [inum |-> i, fb |-> b, data |-> new] # NO_INUM
  BY SlotTyped, BlockNumberFacts
<1>5. Carried(g, C, k)
  BY <1>2, FreeQuiet, QuietCarried
<1>6. Carried(g, C, w.fs)
  BY <1>4, <1>5, WriteCarried
<1>7. b \in Labels
  BY DEF Labels
<1>8. w.ret = 0 /\ ~ Refused(w.fs) => w.addr \in Address /\ Keeps(k, w.fs, L)
  <2> HIDE DEF L
  <2>1. \/ Refused(Log_Write(k, i, b, new).fs)
        \/ LET v == Log_Write(k, i, b, new)
           IN  /\ v.ret = 0
               /\ v.addr \in Address \ L /\ v.addr.seg = k.tail.seg
               /\ Ledger(v.fs, L \cup {v.addr})
               /\ SameFile(k, v.fs) /\ Keeps(k, v.fs, L)
               /\ SlotAt(v.fs, v.addr) = [inum |-> i, fb |-> b, data |-> new]
    BY <1>2, <1>4, <1>7, LedgerWritten
  <2> QED
    BY <2>1
<1> HIDE DEF w, L
<1>9. w.ret = 0 /\ ~ Refused(w.fs) =>
         /\ Ready(w.fs, C) /\ w.addr \in Address
         /\ M[i].indirect # NoAddress =>
               SlotAt(w.fs, M[i].indirect) = SlotAt(f, M[i].indirect)
  BY <1>2, <1>3, <1>8 DEF Keeps, w
<1>10. Carried(g, C, BlockWritten(w, M[i], b).fs)
  BY <1>6, <1>9, BlockWrittenCarried
<1> QED
  BY <1>1, <1>10

----------------------------------------------------------------------------
(* What each request carries. *)

\* What is known of the others, when only file i changed, of which nothing is.
LEMMA KnownOthers ==
    ASSUME NEW M, NEW A, NEW D, NEW C, Known(M, A, D, C),
           NEW i \in INums, C[i] = Unknown, NEW N, NEW B, NEW E,
           \A j \in Numbers : j # i => N[j] = M[j] /\ B[j] = A[j] /\ E[j] = D[j]
    PROVE  Known(N, B, E, C)
<1>1. /\ N[IFILE_INUM] = M[IFILE_INUM] /\ B[IFILE_INUM] = A[IFILE_INUM]
      /\ E[IFILE_INUM] = D[IFILE_INUM]
  BY INumFacts
<1> SUFFICES ASSUME NEW j \in INums, C[j] # Unknown
             PROVE  IF j <= N[IFILE_INUM].fileSize
                    THEN /\ HasEntry(N, B, E, j) /\ Sound(N, B, j, N[IFILE_INUM].fileSize)
                         /\ Stands(N, E, j, C[j])
                    ELSE C[j] = NoFile
  BY DEF Known
<1>2. N[j] = M[j] /\ B[j] = A[j] /\ E[j] = D[j]
  BY INumFacts
<1>3. IF j <= M[IFILE_INUM].fileSize
      THEN /\ HasEntry(M, A, D, j) /\ Sound(M, A, j, M[IFILE_INUM].fileSize)
           /\ Stands(M, D, j, C[j])
      ELSE C[j] = NoFile
  BY DEF Known
<1>4. /\ HasEntry(N, B, E, j) <=> HasEntry(M, A, D, j)
      /\ Sound(N, B, j, N[IFILE_INUM].fileSize) <=> Sound(M, A, j, M[IFILE_INUM].fileSize)
      /\ Stands(N, E, j, C[j]) <=> Stands(M, D, j, C[j])
  BY <1>1, <1>2 DEF HasEntry, UnitOf, Sound, Stands, Matches
<1> QED
  BY <1>1, <1>3, <1>4

\* The turn of a file of which nothing is known.
LEMMA DataTurn ==
    ASSUME NEW g, NEW C, NEW f, NEW M, NEW A, NEW D, NEW O, View(f, M, A, D, O),
           M[IFILE_INUM] = f.root, Known(M, A, D, C), Carried(g, C, f),
           NEW i \in INums, C[i] = Unknown, NEW b \in BlockNumbers,
           NEW offset, NEW buffer, Merged(D[i][b], b, offset, buffer) \in FileBlock,
           NEW acc, acc.fs = f, acc.inode = M[i], acc.ret = 0
    PROVE  Carried(g, C, WriteFileBlock(acc, b, offset, buffer).fs)
<1> DEFINE a   == A[i][b]
           k   == Log_Free(f, a)
           new == Merged(D[i][b], b, offset, buffer)
           X   == {a} \ {NoAddress}
           w   == Log_Write(k, i, b, new)
<1>0. i \in Numbers /\ FsTyped(f) /\ a \in MaybeAddress
  BY INumFacts DEF View, Ledger, Tree
<1>1. Quiet(f, k)
  BY <1>0, FreeQuiet
<1>2. Carried(g, C, k) /\ k.root = f.root
  BY <1>1, QuietCarried DEF Quiet
<1>3. LeadsTo(InLog(k), k.root, C)
  <2>1. \A x \in Address \ X : SlotAt(k, x) = SlotAt(f, x)
    <3> SUFFICES ASSUME NEW x \in Address, x \notin X PROVE SlotAt(k, x) = SlotAt(f, x)
      OBVIOUS
    <3>1. x # a
      BY SentinelAssumption
    <3> QED
      BY <1>0, <3>1, FreeSlots
  <2>2. ASSUME NEW j \in Numbers \ Torn(C)
        PROVE  M[j].indirect \notin X /\ \A c \in BlockNumbers : A[j][c] \notin X
    <3>1. j # i
      BY DEF Torn
    <3>2. X = {A[i][b]} \ {NoAddress}
      OBVIOUS
    <3> HIDE DEF X
    <3> QED
      BY <1>0, <3>1, <3>2, BlocksApart
  <2> HIDE DEF X, k
  <2> QED
    BY <1>2, <2>1, <2>2, ReadyApart
<1>4. [inum |-> i, fb |-> b, data |-> new] # NO_INUM
  BY <1>0, SlotTyped, BlockNumberFacts
<1>5. Ready(k, C)
  BY <1>3 DEF Ready
<1>6. Ready(Log_Write(k, i, b, new).fs, C)
  <2> HIDE DEF k, new
  <2>1. LET h == Log_Write(k, i, b, new).fs
        IN  LeadsTo(InLog(k), k.root, C) \/ Halted(k) => Ready(h, C)
    BY <1>2, <1>4, <1>5, WriteCarried
  <2> QED
    BY <1>3, <2>1
<1>7. k = Log_Free(f, A[i][b]) /\ new = Merged(D[i][b], b, offset, buffer)
  OBVIOUS
<1>8. new \in FileBlock
  OBVIOUS
<1> HIDE DEF k, new
<1> QED
  BY <1>0, <1>5, <1>6, <1>7, <1>8, TurnCarried

\* The loop of File_Write on such a file.
LEMMA DataLoop ==
    ASSUME NEW g, NEW C, NEW f, NEW M, NEW A, NEW D, NEW O, View(f, M, A, D, O),
           M[IFILE_INUM] = f.root, Known(M, A, D, C), Carried(g, C, f),
           NEW i \in INums, C[i] = Unknown,
           NEW first \in BlockNumbers, NEW last \in BlockNumbers, NEW offset, NEW buffer,
           \A n \in DOMAIN buffer : buffer[n] \in Stored
    PROVE  Carried(g, C, WriteFileBlocks([fs |-> f, inode |-> M[i], ret |-> 0],
                                         first, last, offset, buffer).fs)
<1>0. maxFileBlocks \in Nat /\ i \in Numbers /\ first \in Nat /\ last \in Nat
  BY GeometryFacts, INumFacts DEF BlockNumbers
<1>1. PICK turn :
         /\ turn[0] = [fs |-> f, inode |-> M[i], ret |-> 0]
         /\ \A n \in 1 .. maxFileBlocks :
               turn[n] = IF first + n - 1 > last THEN turn[n - 1]
                         ELSE WriteFileBlock(turn[n - 1], first + n - 1, offset, buffer)
         /\ WriteFileBlocks([fs |-> f, inode |-> M[i], ret |-> 0],
                            first, last, offset, buffer) = turn[maxFileBlocks]
         /\ \A k \in 0 .. maxFileBlocks :
               /\ AccFollows(turn[k].fs, turn[k])
               /\ LoopDone(f, M, A, D, O, i, Until(first, last, k), offset, buffer, turn[k])
  BY <1>0, LoopTurns
<1> DEFINE Good == {k \in Nat : k <= maxFileBlocks => Carried(g, C, turn[k].fs)}
<1>2. 0 \in Good
  BY <1>1
<1>3. ASSUME NEW k \in Nat, k \in Good PROVE k + 1 \in Good
  <2> SUFFICES ASSUME k + 1 <= maxFileBlocks PROVE Carried(g, C, turn[k + 1].fs)
    OBVIOUS
  <2> DEFINE t == turn[k]
             b == first + k
  <2>1. Carried(g, C, t.fs) /\ k \in 0 .. maxFileBlocks
    BY <1>0, <1>3
  <2>2. turn[k + 1] = IF b > last THEN t ELSE WriteFileBlock(t, b, offset, buffer)
    <3>1. k + 1 \in 1 .. maxFileBlocks /\ (k + 1) - 1 = k /\ first + (k + 1) - 1 = b
      BY <1>0
    <3> QED
      BY <1>1, <3>1
  <2>3. AccFollows(t.fs, t) /\ LoopDone(f, M, A, D, O, i, Until(first, last, k), offset, buffer, t)
    BY <1>1, <2>1
  <2> HIDE DEF t
  <2>4. CASE b > last
    BY <2>1, <2>2, <2>4
  <2>5. CASE ~ (b > last) /\ Refused(t.fs)
    <3>1. Resting(g, C, t.fs)
      BY <2>1, <2>5 DEF Resting, Carried
    <3> QED
      BY <2>2, <2>3, <2>5, <3>1, WriteFileBlockRests DEF Resting
  <2>6. CASE ~ (b > last) /\ ~ Refused(t.fs)
    <3> DEFINE E == Rewritten(D, i, Until(first, last, k), offset, buffer)
               N == [M EXCEPT ![i] = t.inode]
    <3>1. t.ret = 0 /\ t.fs.root = f.root
      BY <2>3, <2>6 DEF LoopDone, SameState
    <3>2. PICK B, P : /\ View(t.fs, N, B, E, P)
                      /\ Placed(A, B, i, Until(first, last, k))
      BY <2>3, <2>6 DEF LoopDone
    <3>3. /\ M \in [Numbers -> INode] /\ A \in [Numbers -> [BlockNumbers -> MaybeAddress]]
          /\ D \in [Numbers -> [BlockNumbers -> FileBlock]]
      BY DEF View, Tree, Held
    <3>4. /\ B \in [Numbers -> [BlockNumbers -> MaybeAddress]]
          /\ E \in [Numbers -> [BlockNumbers -> FileBlock]]
      BY <3>2 DEF View, Tree, Held
    <3>5. ASSUME NEW j \in Numbers, j # i
          PROVE  N[j] = M[j] /\ B[j] = A[j] /\ E[j] = D[j]
      <4>1. N[j] = M[j] /\ E[j] = D[j]
        BY <3>3, <3>5 DEF Rewritten
      <4>2. \A c \in BlockNumbers : B[j][c] = A[j][c]
        BY <3>2, <3>5 DEF Placed
      <4>3. B[j] = A[j]
        <5>1. B[j] \in [BlockNumbers -> MaybeAddress] /\ A[j] \in [BlockNumbers -> MaybeAddress]
          BY <3>3, <3>4
        <5> QED
          BY <4>2, <5>1
      <4> QED
        BY <4>1, <4>3
    <3>6. N[i] = t.inode /\ N[IFILE_INUM] = t.fs.root
      <4>1. IFILE_INUM # i /\ IFILE_INUM \in Numbers
        BY INumFacts
      <4> QED
        BY <1>0, <3>1, <3>3, <3>5, <4>1
    <3>7. b \in BlockNumbers
      BY <1>0, <2>6 DEF BlockNumbers
    <3> HIDE DEF N, E, b
    <3>8. Known(N, B, E, C)
      BY <3>5, KnownOthers
    <3>9. Merged(E[i][b], b, offset, buffer) \in FileBlock
      BY <1>0, <3>4, <3>7, MergedTyped
    <3>10. Carried(g, C, WriteFileBlock(t, b, offset, buffer).fs)
      BY <2>1, <3>1, <3>2, <3>6, <3>7, <3>8, <3>9, DataTurn
    <3> QED
      BY <2>2, <2>6, <3>10
  <2> QED
    BY <2>4, <2>5, <2>6
<1>4. maxFileBlocks \in Good
  <2> HIDE DEF Good
  <2> QED
    BY <1>0, <1>2, <1>3, InductionOnSets
<1> QED
  BY <1>0, <1>1, <1>4

\* What a turn of the loop is, when there is a block to be read.
LEMMA TurnIs ==
    ASSUME NEW f, NEW M, NEW A, NEW D, NEW O, View(f, M, A, D, O),
           NEW i \in Numbers, NEW b \in BlockNumbers, NEW offset, NEW buffer,
           NEW acc, acc.fs = f, acc.inode = M[i], acc.ret = 0
    PROVE  WriteFileBlock(acc, b, offset, buffer)
             = BlockWritten(Log_Write(Log_Free(f, A[i][b]), i, b,
                                      Merged(D[i][b], b, offset, buffer)), M[i], b)
<1>1. M[i].inum = i
  BY DEF View, Tree
<1>2. /\ GetBlockAddress(f, M[i], b) = A[i][b] /\ ReadBlock(f, M[i], b) = D[i][b]
      /\ D[i][b] # Dead
  BY ViewReadsBlock
<1> QED
  BY <1>1, <1>2 DEF WriteFileBlock, ReplaceBlock

\* A loop of one turn.
LEMMA OneTurn ==
    ASSUME NEW acc, NEW b \in BlockNumbers, NEW offset, NEW buffer
    PROVE  WriteFileBlocks(acc, b, b, offset, buffer) = WriteFileBlock(acc, b, offset, buffer)
<1>0. maxFileBlocks \in Nat /\ b \in Nat /\ 1 \in 1 .. maxFileBlocks
  BY GeometryFacts DEF BlockNumbers
<1>1. PICK turn :
         /\ turn[0] = acc
         /\ \A n \in 1 .. maxFileBlocks :
               turn[n] = IF b + n - 1 > b THEN turn[n - 1]
                         ELSE WriteFileBlock(turn[n - 1], b + n - 1, offset, buffer)
         /\ WriteFileBlocks(acc, b, b, offset, buffer) = turn[maxFileBlocks]
  BY WriteFileBlocksTurns
<1>2. turn[1] = WriteFileBlock(acc, b, offset, buffer)
  <2>1. b + 1 - 1 = b /\ 1 - 1 = 0 /\ ~ (b + 1 - 1 > b)
    BY <1>0
  <2> QED
    BY <1>0, <1>1, <2>1
<1> DEFINE Good == {k \in Nat : k + 1 <= maxFileBlocks => turn[k + 1] = turn[1]}
<1>3. 0 \in Good
  OBVIOUS
<1>4. ASSUME NEW k \in Nat, k \in Good PROVE k + 1 \in Good
  <2> SUFFICES ASSUME k + 1 + 1 <= maxFileBlocks PROVE turn[k + 1 + 1] = turn[1]
    OBVIOUS
  <2>1. turn[k + 1] = turn[1]
    BY <1>0, <1>4
  <2>2. /\ k + 1 + 1 \in 1 .. maxFileBlocks /\ (k + 1 + 1) - 1 = k + 1
        /\ b + (k + 1 + 1) - 1 > b
    BY <1>0
  <2> QED
    BY <1>1, <2>1, <2>2
<1>5. maxFileBlocks - 1 \in Nat /\ (maxFileBlocks - 1) + 1 = maxFileBlocks
  BY <1>0
<1>6. maxFileBlocks - 1 \in Good
  <2> HIDE DEF Good
  <2> QED
    BY <1>3, <1>4, <1>5, InductionOnSets
<1> QED
  BY <1>0, <1>1, <1>2, <1>5, <1>6

\* The inode of file i goes into its block of the ifile and leaves the others
\* there as they were.
LEMMA EntryMerged ==
    ASSUME NEW M, NEW A, NEW C, NEW D \in [Numbers -> [BlockNumbers -> FileBlock]],
           Known(M, A, D, C), NEW i \in INums, C[i] = Unknown, NEW n,
           NEW b, b = (i - 1) \div BlockSize,
           NEW E, E = [D EXCEPT ![IFILE_INUM] =
                         [D[IFILE_INUM] EXCEPT ![b] = Merged(D[IFILE_INUM][b], b, i - 1, <<n>>)]]
    PROVE  Known(M, A, E, C)
<1>1. b \in BlockNumbers /\ IFILE_INUM \in Numbers
  BY INumFacts
<1>2. /\ E[IFILE_INUM] = [D[IFILE_INUM] EXCEPT
                            ![b] = Merged(D[IFILE_INUM][b], b, i - 1, <<n>>)]
      /\ \A j \in INums : E[j] = D[j]
  BY <1>1, INumFacts
<1>3. ASSUME NEW j \in INums, j # i
      PROVE  UnitOf(E[IFILE_INUM], j - 1) = UnitOf(D[IFILE_INUM], j - 1)
  <2> DEFINE c == (j - 1) \div BlockSize
             v == (j - 1) % BlockSize
  <2>1. /\ j - 1 \in Nat /\ c \in BlockNumbers /\ c \in Nat /\ v \in 0 .. BlockSize - 1
        /\ j - 1 = c * BlockSize + v /\ i \in Nat /\ j \in Nat
    BY INumFacts, DivMod
  <2> HIDE DEF c, v
  <2>2. CASE c = b
    <3>1. b * BlockSize + v - (i - 1) + 1 = j - 1 - (i - 1) + 1
      BY <2>1, <2>2, GeometryFacts
    <3>2. j - 1 - (i - 1) + 1 # 1
      BY <1>3, <2>1
    <3>3. DOMAIN <<n>> = {1}
      OBVIOUS
    <3>4. b * BlockSize + v - (i - 1) + 1 \notin DOMAIN <<n>>
      BY <3>1, <3>2, <3>3
    <3>5. Merged(D[IFILE_INUM][b], b, i - 1, <<n>>)[v] = D[IFILE_INUM][b][v]
      BY <2>1, <3>4 DEF Merged
    <3>6. E[IFILE_INUM][c] = Merged(D[IFILE_INUM][b], b, i - 1, <<n>>)
      BY <1>1, <1>2, <2>2
    <3> QED
      BY <2>2, <3>5, <3>6 DEF UnitOf, c, v
  <2>3. CASE c # b
    <3>1. E[IFILE_INUM][c] = D[IFILE_INUM][c]
      BY <1>1, <1>2, <2>1, <2>3
    <3> QED
      BY <3>1 DEF UnitOf, c
  <2> QED
    BY <2>2, <2>3
<1> SUFFICES ASSUME NEW j \in INums, C[j] # Unknown
             PROVE  IF j <= M[IFILE_INUM].fileSize
                    THEN /\ HasEntry(M, A, E, j) /\ Sound(M, A, j, M[IFILE_INUM].fileSize)
                         /\ Stands(M, E, j, C[j])
                    ELSE C[j] = NoFile
  BY DEF Known
<1>4. IF j <= M[IFILE_INUM].fileSize
      THEN /\ HasEntry(M, A, D, j) /\ Sound(M, A, j, M[IFILE_INUM].fileSize)
           /\ Stands(M, D, j, C[j])
      ELSE C[j] = NoFile
  BY DEF Known
<1>5. HasEntry(M, A, E, j) <=> HasEntry(M, A, D, j)
  <2>1. j # i
    OBVIOUS
  <2>2. UnitOf(E[IFILE_INUM], j - 1) = UnitOf(D[IFILE_INUM], j - 1)
    BY <1>3, <2>1
  <2> QED
    BY <2>2 DEF HasEntry
<1>6. Stands(M, E, j, C[j]) <=> Stands(M, D, j, C[j])
  <2>1. E[j] = D[j]
    BY <1>2
  <2> QED
    BY <2>1 DEF Stands, Matches
<1> QED
  BY <1>4, <1>5, <1>6

\* A block of the ifile is written where the old one was in the tail: the ifile's
\* old inode leads to the new block.
LEMMA InPlace ==
    ASSUME NEW C, NEW f, NEW M, NEW A, NEW D, NEW O, View(f, M, A, D, O),
           M[IFILE_INUM] = f.root, Known(M, A, D, C),
           NEW i \in INums, C[i] = Unknown, NEW n \in INode,
           NEW b, b = (i - 1) \div BlockSize,
           NEW new, new = Merged(D[IFILE_INUM][b], b, i - 1, <<n>>),
           NEW a \in Address, a = A[IFILE_INUM][b],
           NEW h, h.root = f.root,
           SlotAt(h, a) = [inum |-> IFILE_INUM, fb |-> b, data |-> new],
           \A x \in Address : x # a => SlotAt(h, x) = SlotAt(f, x)
    PROVE  LeadsTo(InLog(h), h.root, C)
<1> DEFINE E  == [D EXCEPT ![IFILE_INUM] = [D[IFILE_INUM] EXCEPT ![b] = new]]
           at == InLog(f)
           to == InLog(h)
<1>1. /\ Tree(M, A, O, f.leaked) /\ Held(f, M, A, D) /\ a # NoAddress
      /\ D \in [Numbers -> [BlockNumbers -> FileBlock]]
      /\ A \in [Numbers -> [BlockNumbers -> MaybeAddress]]
      /\ IFILE_INUM \in Numbers /\ b \in BlockNumbers
  BY INumFacts, SentinelAssumption DEF View, Held, Tree
<1>2. new \in FileBlock
  BY <1>1, MergedTyped DEF Stored
<1>3. E \in [Numbers -> [BlockNumbers -> FileBlock]]
  BY <1>1, <1>2
<1>4. /\ E[IFILE_INUM][b] = new
      /\ \A j \in Numbers, c \in BlockNumbers : j # IFILE_INUM \/ c # b => E[j][c] = D[j][c]
  BY <1>1
<1>5. Known(M, A, E, C)
  <2>1. E = [D EXCEPT ![IFILE_INUM] =
               [D[IFILE_INUM] EXCEPT ![b] = Merged(D[IFILE_INUM][b], b, i - 1, <<n>>)]]
    OBVIOUS
  <2> HIDE DEF E
  <2> QED
    BY <1>1, <2>1, EntryMerged
<1>6. /\ O[a] = <<IFILE_INUM, b>>
      /\ \A j \in Numbers, c \in BlockNumbers : A[j][c] # NoAddress => O[A[j][c]] = <<j, c>>
      /\ \A j \in Numbers : M[j].indirect # NoAddress =>
            O[M[j].indirect] = <<j, INDIRECT_BLOCK>> /\ M[j].indirect \in Address
  <2>1. /\ \A j \in Numbers, c \in BlockNumbers : A[j][c] # NoAddress => O[A[j][c]] = <<j, c>>
        /\ \A j \in Numbers : M[j].indirect # NoAddress =>
              O[M[j].indirect] = <<j, INDIRECT_BLOCK>> /\ M[j].indirect \in Address
    <3>1. Tree(M, A, O, f.leaked)
      BY <1>1
    <3> QED
      BY ONLY <3>1, TreeFacts
  <2> QED
    BY <1>1, <2>1
<1>7. b # INDIRECT_BLOCK
  BY <1>1 DEF INDIRECT_BLOCK, BlockNumbers
<1>8. Leads(at, M, A, D, Torn(C))
  BY ViewLeads
<1>9. \A x \in Address : to[x] = SlotAt(h, x) /\ at[x] = SlotAt(f, x)
  BY DEF InLog
<1> HIDE DEF E, at, to
<1>10. ASSUME NEW j \in Numbers \ Torn(C), j <= M[IFILE_INUM].fileSize
       PROVE  /\ M[j].inum = j
              /\ \A c \in BlockNumbers :
                    /\ c < NDirect => A[j][c] = M[j].direct[c]
                    /\ c >= NDirect /\ M[j].indirect = NoAddress => A[j][c] = NoAddress
                    /\ A[j][c] = NoAddress => D[j][c] = ZeroBlock
                    /\ A[j][c] # NoAddress =>
                          at[A[j][c]] = [inum |-> j, fb |-> c, data |-> D[j][c]]
              /\ M[j].indirect # NoAddress =>
                    /\ at[M[j].indirect] # NO_INUM
                    /\ at[M[j].indirect].inum = j
                    /\ at[M[j].indirect].data
                         = [c \in 0 .. NIndirect - 1 |-> A[j][NDirect + c]]
  BY <1>8, <1>10 DEF Leads
<1>11. ASSUME NEW j \in Numbers \ Torn(C), j <= M[IFILE_INUM].fileSize, NEW c \in BlockNumbers
       PROVE  /\ A[j][c] = NoAddress => E[j][c] = ZeroBlock
              /\ A[j][c] # NoAddress =>
                    to[A[j][c]] = [inum |-> j, fb |-> c, data |-> E[j][c]]
  <2>1. CASE j = IFILE_INUM /\ c = b
    BY <1>1, <1>4, <1>9, <2>1
  <2>2. CASE j # IFILE_INUM \/ c # b
    <3>1. E[j][c] = D[j][c]
      BY <1>4, <2>2
    <3>2. A[j][c] # NoAddress => A[j][c] \in Address /\ A[j][c] # a
      <4>1. <<j, c>> # <<IFILE_INUM, b>>
        BY <2>2
      <4>2. A[j][c] \in MaybeAddress
        BY <1>1
      <4> QED
        BY <1>6, <4>1, <4>2 DEF MaybeAddress
    <3>3. A[j][c] # NoAddress => to[A[j][c]] = at[A[j][c]]
      BY <1>9, <3>2
    <3>4. /\ A[j][c] = NoAddress => D[j][c] = ZeroBlock
          /\ A[j][c] # NoAddress =>
                at[A[j][c]] = [inum |-> j, fb |-> c, data |-> D[j][c]]
      BY <1>10, <1>11
    <3> QED
      BY <3>1, <3>3, <3>4
  <2> QED
    BY <2>1, <2>2
<1>12. ASSUME NEW j \in Numbers, M[j].indirect # NoAddress
       PROVE  to[M[j].indirect] = at[M[j].indirect]
  <2>1. M[j].indirect # a /\ M[j].indirect \in Address
    BY <1>6, <1>7, <1>12
  <2> QED
    BY <1>9, <2>1
<1>13. Leads(to, M, A, E, Torn(C))
  <2> SUFFICES ASSUME NEW j \in Numbers \ Torn(C), j <= M[IFILE_INUM].fileSize
               PROVE  /\ M[j].inum = j
                      /\ \A c \in BlockNumbers :
                            /\ c < NDirect => A[j][c] = M[j].direct[c]
                            /\ c >= NDirect /\ M[j].indirect = NoAddress
                                  => A[j][c] = NoAddress
                            /\ A[j][c] = NoAddress => E[j][c] = ZeroBlock
                            /\ A[j][c] # NoAddress =>
                                  to[A[j][c]] = [inum |-> j, fb |-> c, data |-> E[j][c]]
                      /\ M[j].indirect # NoAddress =>
                            /\ to[M[j].indirect] # NO_INUM
                            /\ to[M[j].indirect].inum = j
                            /\ to[M[j].indirect].data
                                 = [c \in 0 .. NIndirect - 1 |-> A[j][NDirect + c]]
    BY <1>1, <1>3 DEF Leads, Tree
  <2>1. M[j].indirect # NoAddress =>
           /\ to[M[j].indirect] # NO_INUM
           /\ to[M[j].indirect].inum = j
           /\ to[M[j].indirect].data
                = [c \in 0 .. NIndirect - 1 |-> A[j][NDirect + c]]
    <3> SUFFICES ASSUME M[j].indirect # NoAddress
                 PROVE  /\ to[M[j].indirect] # NO_INUM
                        /\ to[M[j].indirect].inum = j
                        /\ to[M[j].indirect].data
                             = [c \in 0 .. NIndirect - 1 |-> A[j][NDirect + c]]
      OBVIOUS
    <3> QED
      BY <1>10, <1>12
  <2> QED
    BY <1>10, <1>11, <2>1
<1> QED
  BY <1>5, <1>13 DEF LeadsTo, to

\* The block of the ifile with the inode of file i is written.
LEMMA IfileTurn ==
    ASSUME NEW g, NEW C, NEW f, NEW M, NEW A, NEW D, NEW O, View(f, M, A, D, O),
           M[IFILE_INUM] = f.root, Known(M, A, D, C), Carried(g, C, f),
           NEW i \in INums, C[i] = Unknown, NEW n \in INode,
           NEW b, b = (i - 1) \div BlockSize,
           NEW acc, acc.fs = f, acc.inode = M[IFILE_INUM], acc.ret = 0
    PROVE  Carried(g, C, WriteFileBlock(acc, b, i - 1, <<n>>).fs)
<1> DEFINE a    == A[IFILE_INUM][b]
           k    == Log_Free(f, a)
           new  == Merged(D[IFILE_INUM][b], b, i - 1, <<n>>)
           slot == [inum |-> IFILE_INUM, fb |-> b, data |-> new]
           w    == Log_Write(k, IFILE_INUM, b, new)
           free == EmptyBlocks(k.tail.slots)
           e    == Min(free)
<1>0. /\ IFILE_INUM \in Numbers /\ b \in BlockNumbers /\ FsTyped(f) /\ a \in MaybeAddress
      /\ Ledger(f, InUse(O)) /\ Tree(M, A, O, f.leaked)
      /\ D \in [Numbers -> [BlockNumbers -> FileBlock]]
  BY INumFacts DEF View, Ledger, Tree, Held
<1>1. Quiet(f, k)
  BY <1>0, FreeQuiet
<1>2. Carried(g, C, k) /\ k.root = f.root /\ FsTyped(k)
  BY <1>1, QuietCarried DEF Quiet
<1>3. new \in FileBlock
  BY <1>0, MergedTyped DEF Stored
<1>4. slot # NO_INUM
  BY <1>0, <1>3, SlotTyped, BlockNumberFacts
<1>5. ASSUME Ready(k, C), Ready(w.fs, C)
      PROVE  Carried(g, C, WriteFileBlock(acc, b, i - 1, <<n>>).fs)
  <2>1. k = Log_Free(f, A[IFILE_INUM][b]) /\ new = Merged(D[IFILE_INUM][b], b, i - 1, <<n>>)
    OBVIOUS
  <2>2. Ready(Log_Write(k, IFILE_INUM, b, new).fs, C)
    BY <1>5
  <2> HIDE DEF k, new, w
  <2> QED
    BY <1>0, <1>3, <1>5, <2>1, <2>2, TurnCarried
<1>6. CASE ~ (a \in Address /\ a.seg = f.tail.seg)
  <2>1. \A x \in Address : SlotAt(k, x) = SlotAt(f, x)
    <3> SUFFICES ASSUME NEW x \in Address PROVE SlotAt(k, x) = SlotAt(f, x)
      OBVIOUS
    <3>1. x # a \/ a.seg # f.tail.seg
      BY <1>0, <1>6 DEF MaybeAddress
    <3> QED
      BY <1>0, <3>1, FreeSlots
  <2> DEFINE X == {}
  <2>2. \A x \in Address \ X : SlotAt(k, x) = SlotAt(f, x)
    BY <2>1
  <2>3. LeadsTo(InLog(k), k.root, C)
    <3>1. \A j \in Numbers \ Torn(C) : /\ M[j].indirect \notin X
                                       /\ \A c \in BlockNumbers : A[j][c] \notin X
      OBVIOUS
    <3>2. /\ View(f, M, A, D, O) /\ M[IFILE_INUM] = f.root /\ Known(M, A, D, C)
          /\ k.root = f.root
      BY <1>2
    <3> HIDE DEF X, k
    <3> QED
      BY ONLY <2>2, <3>1, <3>2, ReadyApart
  <2> HIDE DEF k, new
  <2>4. Ready(k, C)
    BY <2>3 DEF Ready
  <2>5. LET h == Log_Write(k, IFILE_INUM, b, new).fs
        IN  LeadsTo(InLog(k), k.root, C) \/ Halted(k) => Ready(h, C)
    BY <1>2, <1>4, <2>4, WriteCarried
  <2> QED
    BY <1>5, <2>3, <2>4, <2>5
<1>7. CASE a \in Address /\ a.seg = f.tail.seg
  <2>1. /\ a.seg \in DataSegments /\ a.blk \in 1 .. SegBlocks /\ a = At(a.seg, a.blk)
        /\ a # NoAddress
    BY <1>7, AddressParts, SentinelAssumption
  <2>2. /\ f.tail.seg \in DataSegments /\ f.tail.seg # FLASH_FULL
        /\ DOMAIN f.tail.slots = 1 .. SegBlocks /\ f.tail.slots[SegBlocks] = NO_INUM
    BY <1>0, <1>7, <2>1, GeometryFacts DEF Ledger, EmptyBlocks
  <2>12. "cached" \notin f.lapses
    BY <1>0, LedgerUncached
  <2>3. f.tail.slots[a.blk] # NO_INUM
    <3>1. a \in InUse(O)
      BY <1>0, <2>1, TreeFacts
    <3>2. SlotAt(f, a) # NO_INUM
      BY <1>0, <3>1, SlotOfLedger
    <3> QED
      BY <1>7, <2>12, <3>2 DEF SlotAt, Slots
  <2>4. /\ k.media = f.media /\ k.tail.seg = f.tail.seg /\ DOMAIN k = StateFields
        /\ k.lapses = f.lapses
        /\ DOMAIN k.tail = {"seg", "slots"}
        /\ k.tail.slots = [f.tail.slots EXCEPT ![a.blk] = NO_INUM]
    BY <1>0, <1>2, <1>7, <2>1 DEF Log_Free, FsTyped, StateFields
  <2>5. a.blk # SegBlocks /\ a.blk \in free /\ free \subseteq 1 .. SegBlocks
    BY <2>1, <2>2, <2>3, <2>4 DEF EmptyBlocks
  <2>6. Ready(k, C)
    BY <2>5 DEF Ready, Room
  <2>7. e \in free /\ e <= a.blk /\ e \in 1 .. SegBlocks /\ e # SegBlocks
    <3>1. free \subseteq Nat /\ free # {}
      BY <2>5, GeometryFacts
    <3>2. e \in free /\ e <= a.blk
      BY <2>5, <3>1, MinOfNats
    <3> QED
      BY <2>1, <2>5, <3>2, GeometryFacts
  <2> HIDE DEF e, k, new, slot
  <2>8. w.fs = [k EXCEPT !.tail.slots[e] = slot]
    BY <2>2, <2>4, <2>5, <2>7 DEF Log_Write, WithAddress, Place, e, slot
  <2> HIDE DEF w
  <2>9. /\ w.fs.media = k.media /\ w.fs.tail.seg = k.tail.seg /\ w.fs.root = f.root
        /\ w.fs.lapses = f.lapses
        /\ w.fs.tail.slots = [k.tail.slots EXCEPT ![e] = slot]
    BY <1>2, <2>4, <2>8 DEF StateFields
  <2>10. CASE e # a.blk
    <3>1. a.blk \in EmptyBlocks(w.fs.tail.slots)
      BY <2>5, <2>9, <2>10 DEF EmptyBlocks
    <3>2. Ready(w.fs, C)
      BY <2>5, <3>1 DEF Ready, Room
    <3> QED
      BY <1>5, <2>6, <3>2
  <2>11. CASE e = a.blk
    <3>1. SlotAt(w.fs, a) = slot
      BY <1>7, <2>1, <2>2, <2>4, <2>9, <2>11, <2>12 DEF SlotAt, Slots
    <3>2. ASSUME NEW x \in Address, x # a PROVE SlotAt(w.fs, x) = SlotAt(f, x)
      <4>1. CASE x.seg = f.tail.seg
        <5>1. x.blk # a.blk /\ x.blk \in 1 .. SegBlocks
          BY <1>7, <2>1, <3>2, <4>1, AddressParts
        <5>2. k.tail.slots[x.blk] = f.tail.slots[x.blk] /\ x.blk \in DOMAIN k.tail.slots
          BY <2>2, <2>4, <5>1
        <5>3. w.fs.tail.slots[x.blk] = f.tail.slots[x.blk]
          BY <2>9, <2>11, <5>1, <5>2
        <5> QED
          BY <2>4, <2>9, <2>12, <4>1, <5>3 DEF SlotAt, Slots
      <4>2. CASE x.seg # f.tail.seg
        <5>1. w.fs.tail.seg = f.tail.seg /\ w.fs.media = f.media
          BY <2>4, <2>9
        <5> QED
          BY <2>9, <2>12, <4>2, <5>1 DEF SlotAt, Slots
      <4> QED
        BY <4>1, <4>2
    <3>3. SlotAt(w.fs, a) = [inum |-> IFILE_INUM, fb |-> b, data |-> new]
      BY <3>1 DEF slot
    <3>4. new = Merged(D[IFILE_INUM][b], b, i - 1, <<n>>)
      BY DEF new
    <3> DEFINE h == w.fs
    <3>5. /\ h.root = f.root /\ SlotAt(h, a) = [inum |-> IFILE_INUM, fb |-> b, data |-> new]
          /\ \A x \in Address : x # a => SlotAt(h, x) = SlotAt(f, x)
          /\ a \in Address
      BY <1>7, <2>9, <3>2, <3>3
    <3> HIDE DEF h
    <3>6. a = A[IFILE_INUM][b]
      OBVIOUS
    <3> HIDE DEF a
    <3>7. LeadsTo(InLog(h), h.root, C)
      BY <3>4, <3>5, <3>6, InPlace
    <3> QED
      BY <1>5, <2>6, <3>7 DEF Ready, h
  <2> QED
    BY <2>10, <2>11
<1> QED
  BY <1>6, <1>7

\* In the segment that mklfs filled, the first block of the ifile takes the place
\* of the old one.
LEMMA IfilePinned ==
    ASSUME NEW f, NEW M, NEW A, NEW D, NEW O, View(f, M, A, D, O),
           M[IFILE_INUM] = f.root, Pin(f), f.partial,
           NEW b \in BlockNumbers, NEW offset, NEW buffer,
           NEW acc, acc.fs = f, acc.inode = M[IFILE_INUM], acc.ret = 0
    PROVE  WriteFileBlock(acc, b, offset, buffer).inode.direct[0] = At(1, 1)
<1> DEFINE a    == A[IFILE_INUM][b]
           k    == Log_Free(f, a)
           new  == Merged(D[IFILE_INUM][b], b, offset, buffer)
           w    == Log_Write(k, IFILE_INUM, b, new)
           r    == WriteFileBlock(acc, b, offset, buffer)
           inode == M[IFILE_INUM]
           free == EmptyBlocks(k.tail.slots)
           e    == Min(free)
<1>0. /\ IFILE_INUM \in Numbers /\ FsTyped(f) /\ inode \in INode
      /\ Ledger(f, InUse(O)) /\ Tree(M, A, O, f.leaked)
      /\ 0 \in BlockNumbers /\ 0 \in 0 .. NDirect - 1 /\ 0 < NDirect
      /\ IFILE_INUM = 0
  <2>1. Ledger(f, InUse(O)) /\ Tree(M, A, O, f.leaked)
    BY DEF View
  <2>2. FsTyped(f) /\ M \in [Numbers -> INode]
    BY <2>1 DEF Ledger, Tree
  <2> QED
    BY <2>1, <2>2, INumFacts, FirstFacts, GeometryFacts
<1>1. f.tail.seg = 1 /\ inode.direct[0] = At(1, 1)
  BY DEF Pin
<1>2. r = BlockWritten(w, inode, b)
  BY <1>0, TurnIs
<1>3. CASE b = 0
  <2>1. a = At(1, 1)
    BY <1>0, <1>1, <1>3 DEF Tree
  <2>2. /\ At(1, 1) # NoAddress /\ At(1, 1).seg = 1 /\ At(1, 1).blk = 1
        /\ 1 \in DataSegments /\ 1 \in 1 .. SegBlocks /\ 1 # SegBlocks /\ 1 # FLASH_FULL
    BY FirstFacts, GeometryFacts
  <2>3. /\ k.tail.seg = 1 /\ k.tail.slots = [f.tail.slots EXCEPT ![1] = NO_INUM]
        /\ DOMAIN k = StateFields /\ DOMAIN k.tail = {"seg", "slots"}
    BY <1>0, <1>1, <2>1, <2>2 DEF Log_Free, FsTyped, StateFields
  <2>4. DOMAIN f.tail.slots = 1 .. SegBlocks
    BY <1>0, <1>1, <2>2 DEF Ledger
  <2>5. 1 \in free /\ free \subseteq 1 .. SegBlocks
    BY <2>2, <2>3, <2>4 DEF EmptyBlocks
  <2>6. e = 1
    <3>1. free \subseteq Nat /\ free # {}
      BY <2>5, GeometryFacts
    <3>2. e \in free /\ e <= 1
      BY <2>5, <3>1, MinOfNats
    <3> QED
      BY <2>5, <3>2, GeometryFacts
  <2> HIDE DEF e, k, a, new
  <2>7. w.ret = 0 /\ w.addr = At(1, 1)
    BY <2>2, <2>3, <2>5, <2>6 DEF Log_Write, WithAddress, Place, e, At
  <2> HIDE DEF w
  <2>8. r = Unchecked(UpdateINodeBlock(w.fs, inode, b, w.addr))
    BY <1>2, <2>7 DEF BlockWritten
  <2>9. r.inode = [inode EXCEPT !.direct[0] = At(1, 1)]
    BY <1>0, <1>3, <2>7, <2>8 DEF UpdateINodeBlock, Unchecked
  <2>10. inode.direct \in [0 .. NDirect - 1 -> MaybeAddress]
    BY <1>0 DEF INode
  <2> HIDE DEF inode, r
  <2>11. r.inode.direct = [inode.direct EXCEPT ![0] = At(1, 1)]
    BY <1>0, <2>9 DEF INode
  <2> QED
    BY <1>0, <2>10, <2>11 DEF r
<1>4. CASE b # 0
  <2> DEFINE u == UpdateINodeBlock(w.fs, inode, b, w.addr)
  <2> HIDE DEF w
  <2>1. r.inode = inode \/ r.inode = u.inode
    BY <1>2 DEF BlockWritten, Unchecked
  <2>2. u.inode.direct[0] = inode.direct[0]
    <3>1. CASE b < NDirect
      <4>1. u.inode = [inode EXCEPT !.direct[b] = w.addr]
        BY <3>1 DEF UpdateINodeBlock
      <4>2. inode.direct \in [0 .. NDirect - 1 -> MaybeAddress]
        BY <1>0 DEF INode
      <4> HIDE DEF inode, u
      <4>3. u.inode.direct = [inode.direct EXCEPT ![b] = w.addr]
        BY <1>0, <4>1 DEF INode
      <4> QED
        BY <1>0, <1>4, <4>2, <4>3
    <3>2. CASE ~ (b < NDirect)
      <4>1. ASSUME NEW v PROVE IndirectWritten(v, inode).inode.direct[0] = inode.direct[0]
        BY <1>0 DEF IndirectWritten, INode
      <4>2. \/ u.inode = inode
            \/ \E v : u = IndirectWritten(v, inode)
        BY <3>2 DEF UpdateINodeBlock, WriteIndirectBlocks
      <4> QED
        BY <4>1, <4>2
    <3> QED
      BY <3>1, <3>2
  <2> QED
    BY <1>1, <2>1, <2>2
<1> QED
  BY <1>3, <1>4

\* Since a request is part of itself.
LEMMA CarriedItself ==
    ASSUME NEW g, NEW C, NEW f, Carried(g, C, f)
    PROVE  Carried(f, C, f)
BY DEF Carried

\* The inode in hand goes into the ifile.
LEMMA UpdateIFileCarried ==
    ASSUME NEW g, NEW C, NEW f, NEW M, NEW A, NEW D, NEW O, NEW i,
           InHand(f, M, A, D, O, i), Known(M, A, D, C), Carried(g, C, f),
           C[i] = Unknown
    PROVE  Carried(g, C, UpdateIFile(f, M[i]).fs)
<1> DEFINE k     == f.root.fileSize
           b     == (i - 1) \div BlockSize
           n     == M[i]
           start == [fs |-> f, inode |-> f.root, ret |-> 0]
           t     == WriteFileBlock(start, b, i - 1, <<n>>)
           w     == WriteBlocks(f, f.root, i - 1, <<n>>)
           r     == UpdateIFile(f, n)
<1>1. /\ View(f, M, A, D, O) /\ M[0] = f.root /\ i \in INums /\ i <= k + 1
      /\ M \in [Numbers -> INode] /\ \A j \in Numbers : M[j].inum = j
      /\ 0 \in Numbers /\ i \in Numbers /\ i - 1 \in Nat /\ i # 0 /\ i \in Nat
      /\ n \in INode /\ f.root \in INode /\ FsTyped(f) /\ IFILE_INUM = 0
      /\ b \in BlockNumbers
  BY INumFacts DEF InHand, View, Tree, Ledger
<1>2. k \in Nat
  BY <1>1 DEF INode
<1>3. r = RootWritten(w)
  BY <1>1 DEF UpdateIFile
<1>4. w = [t EXCEPT !.inode.fileSize = Max({k, i})]
  <2>1. Len(<<n>>) = 1 /\ (i - 1) + 1 - 1 = i - 1 /\ (i - 1) + 1 = i /\ ~ (i - 1 > k)
    BY <1>1, <1>2
  <2>2. WriteFileBlocks(start, b, b, i - 1, <<n>>) = t
    BY <1>1, OneTurn
  <2> HIDE DEF t
  <2> QED
    BY <2>1, <2>2 DEF WriteBlocks
<1>5. AccFollows(f, t)
  <2>1. AccFollows(start.fs, start) /\ start.fs = f
    BY <1>1 DEF AccFollows, Follows
  <2> HIDE DEF start
  <2> QED
    BY <2>1, WriteFileBlockFollows
<1>6. start.fs = f /\ start.inode = M[IFILE_INUM] /\ start.ret = 0
  BY <1>1
<1>7. Carried(g, C, t.fs) /\ Carried(f, C, t.fs)
  <2>1. b = (i - 1) \div BlockSize /\ M[IFILE_INUM] = f.root
    BY <1>1
  <2> HIDE DEF b, n, start
  <2> QED
    BY <1>1, <1>6, <2>1, IfileTurn, CarriedItself
<1>8. f.partial => t.inode.direct[0] = At(1, 1)
  <2>1. Pin(f) /\ M[IFILE_INUM] = f.root
    BY <1>1 DEF Carried
  <2> HIDE DEF b, n, start
  <2> QED
    BY <1>1, <1>6, <2>1, IfilePinned
<1> HIDE DEF t
<1>9. /\ w.fs = t.fs
      /\ w.inode = [t.inode EXCEPT !.fileSize = Max({k, i})]
  BY <1>4, <1>5 DEF AccFollows
<1>10. Max({k, i}) \in Nat /\ 1 <= Max({k, i})
  <2>1. Max({k, i}) = IF k >= i THEN k ELSE i
    BY <1>1, <1>2, MaxOfTwo
  <2> QED
    BY <1>1, <1>2, <2>1
<1> HIDE DEF w, r
<1>11. CASE w.ret # 0
  BY <1>3, <1>7, <1>9, <1>11 DEF RootWritten, r
<1>12. CASE w.ret = 0
  <2>1. r.fs = [t.fs EXCEPT !.root = w.inode]
    BY <1>3, <1>9, <1>12 DEF RootWritten
  <2>2. t.fs.partial => /\ w.inode.direct[0] = At(1, 1)
                        /\ w.inode.fileSize \in Nat /\ 1 <= w.inode.fileSize
    <3> SUFFICES ASSUME t.fs.partial
                 PROVE  /\ w.inode.direct[0] = At(1, 1)
                        /\ w.inode.fileSize \in Nat /\ 1 <= w.inode.fileSize
      OBVIOUS
    <3>1. f.partial
      BY <1>7 DEF Carried
    <3>2. t.inode.direct[0] = At(1, 1)
      BY <1>8, <3>1
    <3> QED
      BY <1>9, <1>10, <3>2
  <2>3. Carried(g, C, [t.fs EXCEPT !.root = w.inode])
    BY <1>7, <2>2, RootCarried
  <2> QED
    BY <2>1, <2>3 DEF r
<1> QED
  BY <1>11, <1>12

\* What is known of the files between two requests.
LEMMA SettledKnown ==
    ASSUME NEW f, NEW M, NEW A, NEW D, NEW O, Settled(f, M, A, D, O), NEW C,
           \A j \in INums : C[j] # Unknown =>
              IF j <= f.iFileSize THEN Stands(M, D, j, C[j]) ELSE C[j] = NoFile
    PROVE  Known(M, A, D, C)
<1>1. /\ M[IFILE_INUM].fileSize = f.iFileSize
      /\ \A j \in 1 .. f.iFileSize : HasEntry(M, A, D, j)
      /\ \A j \in INums : Sound(M, A, j, f.iFileSize)
      /\ f.iFileSize \in Nat
  BY SettledFacts DEF Settled
<1>2. \A j \in INums : j \in Nat /\ 1 <= j
  BY GeometryFacts DEF INums
<1> QED
  BY <1>1, <1>2 DEF Known

\* And after a request on a file of which nothing is.
LEMMA OutcomeKnown ==
    ASSUME NEW f, NEW M, NEW A, NEW D, NEW O, Settled(f, M, A, D, O),
           NEW C, Known(M, A, D, C), NEW i \in INums, C[i] = Unknown,
           NEW promise, NEW r, Outcome(f, M, D, i, promise, r), ~ Refused(r.fs)
    PROVE  \E N, B, E, P : /\ Settled(r.fs, N, B, E, P) /\ Known(N, B, E, C)
                           /\ Stands(N, E, i, promise)
<1>1. /\ f.iFileSize <= r.fs.iFileSize /\ i <= r.fs.iFileSize
      /\ \A j \in INums : j # i /\ j <= r.fs.iFileSize => j <= f.iFileSize
  BY DEF Outcome
<1>2. PICK N, B, E, P : /\ Settled(r.fs, N, B, E, P)
                        /\ \A j \in INums : j # i => N[j] = M[j] /\ E[j] = D[j]
                        /\ Stands(N, E, i, promise)
  BY DEF Outcome
<1>3. /\ M[IFILE_INUM].fileSize = f.iFileSize /\ f.iFileSize \in Nat
      /\ r.fs.iFileSize \in Nat /\ \A j \in INums : j \in Nat
  BY <1>2, SettledFacts, GeometryFacts DEF Settled
<1>4. ASSUME NEW j \in INums, C[j] # Unknown
      PROVE  IF j <= r.fs.iFileSize THEN Stands(N, E, j, C[j]) ELSE C[j] = NoFile
  <2>1. IF j <= f.iFileSize THEN Stands(M, D, j, C[j]) ELSE C[j] = NoFile
    BY <1>3, <1>4 DEF Known
  <2>2. j # i
    BY <1>4
  <2>3. N[j] = M[j] /\ E[j] = D[j]
    BY <1>2, <2>2
  <2>4. Stands(M, D, j, C[j]) => Stands(N, E, j, C[j])
    BY <2>3 DEF Stands, Matches
  <2>5. j <= r.fs.iFileSize <=> j <= f.iFileSize
    BY <1>1, <1>3, <2>2
  <2> QED
    BY <2>1, <2>4, <2>5
<1>5. Known(N, B, E, C)
  BY <1>2, <1>4, SettledKnown
<1> QED
  BY <1>2, <1>5

\* The blocks of a write go to the log.
LEMMA WriteBlocksCarried ==
    ASSUME NEW g, NEW C, NEW f, NEW M, NEW A, NEW D, NEW O, View(f, M, A, D, O),
           M[IFILE_INUM] = f.root, Known(M, A, D, C), Carried(g, C, f),
           NEW i \in INums, C[i] = Unknown,
           NEW offset \in Nat, NEW buffer \in Seq(Stored), buffer # <<>>,
           offset <= M[i].fileSize, offset + Len(buffer) <= MaxUnits
    PROVE  Carried(g, C, WriteBlocks(f, M[i], offset, buffer).fs)
<1> DEFINE start == [fs |-> f, inode |-> M[i], ret |-> 0]
           first == offset \div BlockSize
           end   == offset + Len(buffer) - 1
           last  == end \div BlockSize
           size  == Max({M[i].fileSize, offset + Len(buffer)})
           w     == WriteFileBlocks(start, first, last, offset, buffer)
<1>1. /\ Len(buffer) \in Nat \ {0} /\ \A n \in DOMAIN buffer : buffer[n] \in Stored
      /\ M[i] \in INode /\ M[i].fileSize \in Nat /\ MaxUnits \in Nat /\ FsTyped(f)
  BY INumFacts, MaxUnitsFacts DEF View, Tree, INode, Ledger
<1>2. end \in Nat /\ end < MaxUnits /\ offset < MaxUnits /\ ~ (offset > M[i].fileSize)
  BY <1>1
<1>3. first \in BlockNumbers /\ last \in BlockNumbers
  <2> HIDE DEF end
  <2> QED
    BY <1>2, BlockOfUnit
<1>4. Carried(g, C, w.fs)
  <2> HIDE DEF first, last
  <2> QED
    BY <1>1, <1>3, DataLoop
<1>5. DOMAIN w = {"fs", "inode", "ret"}
  <2>1. AccFollows(start.fs, start)
    BY <1>1 DEF AccFollows, Follows
  <2> HIDE DEF start, first, last
  <2> QED
    BY <2>1, WriteFileBlocksFollows DEF AccFollows
<1>6. WriteBlocks(f, M[i], offset, buffer) = [w EXCEPT !.inode.fileSize = size]
  BY <1>2 DEF WriteBlocks
<1> HIDE DEF w, size
<1>7. [w EXCEPT !.inode.fileSize = size].fs = w.fs
  BY <1>5
<1> QED
  BY <1>4, <1>6, <1>7

\* A changed inode is put back.
LEMMA PutBackCarried ==
    ASSUME NEW g, NEW C, NEW f, NEW M, NEW A, NEW D, NEW O, Settled(f, M, A, D, O),
           Known(M, A, D, C), NEW i \in 1 .. f.iFileSize, C[i] = Unknown,
           NEW h, SameState(f, h), Carried(g, C, h),
           NEW N, NEW B, NEW E, NEW P, View(h, N, B, E, P),
           \A j \in Numbers : j # i => N[j] = M[j] /\ B[j] = A[j] /\ E[j] = D[j],
           Sound(N, B, i, f.iFileSize)
    PROVE  Carried(g, C, UpdateIFile(h, N[i]).fs)
<1>1. /\ M \in [Numbers -> INode] /\ N \in [Numbers -> INode]
      /\ i \in Numbers /\ i \in INums
  BY SettledFacts, INumFacts DEF View, Tree
<1>2. N = [M EXCEPT ![i] = N[i]]
  BY <1>1
<1> DEFINE n == N[i]
<1>3. /\ View(h, [M EXCEPT ![i] = n], B, E, P)
      /\ Sound([M EXCEPT ![i] = n], B, i, f.iFileSize)
      /\ \A j \in Numbers : j # i => B[j] = A[j] /\ E[j] = D[j]
  BY <1>2
<1> HIDE DEF n
<1>4. InHand(h, [M EXCEPT ![i] = n], B, E, P, i)
  BY <1>3, InHandAgain
<1>5. InHand(h, N, B, E, P, i)
  BY <1>2, <1>4 DEF n
<1>6. Known(N, B, E, C)
  BY <1>1, KnownOthers
<1> QED
  BY <1>5, <1>6, UpdateIFileCarried

\* The requests.
LEMMA File_WriteCarried ==
    ASSUME NEW g, NEW C, NEW f, NEW M, NEW A, NEW D, NEW O, Settled(f, M, A, D, O),
           Known(M, A, D, C), Carried(g, C, f),
           NEW i \in 1 .. f.iFileSize, C[i] = Unknown,
           NEW units, Matches(M, D, i, units), NEW offset \in Nat, offset <= Len(units),
           NEW buffer \in Seq(Unit), offset + Len(buffer) <= MaxUnits
    PROVE  Carried(g, C, File_Write(f, i, offset, buffer).fs)
<1> DEFINE w == WriteBlocks(f, M[i], offset, buffer)
           size == M[i].fileSize
           end == offset + Len(buffer)
           r == File_Write(f, i, offset, buffer)
<1>1. /\ View(f, M, A, D, O) /\ M \in [Numbers -> INode] /\ M[IFILE_INUM] = f.root
      /\ i \in Numbers /\ i \in INums /\ M[i] \in INode /\ M[i] # Dead
      /\ i <= f.iFileSize /\ GetINode(f, i) = M[i]
  BY SettledFacts, SettledINode DEF Settled
<1>2. /\ size \in Nat /\ M[i].inUse /\ units = [k \in 1 .. size |-> UnitOf(D[i], k - 1)]
      /\ Len(units) = size /\ offset <= size /\ end \in Nat
      /\ DOMAIN buffer = 1 .. Len(buffer) /\ Len(buffer) \in Nat
  BY <1>1 DEF Matches, INode
<1>3. /\ size <= MaxUnits
      /\ \A u \in 0 .. size - 1 : A[i][u \div BlockSize] # NoAddress
  <2>1. Sound(M, A, i, f.iFileSize)
    BY <1>1 DEF Settled
  <2> QED
    BY <1>1, <1>2, <2>1 DEF Sound
<1>4. Max({size, end}) = IF size >= end THEN size ELSE end
  BY <1>2, MaxOfTwo
<1>5. CASE buffer = <<>>
  BY <1>5 DEF File_Write
<1>6. CASE buffer # <<>>
  <2>1. r = FileWritten(w)
    BY <1>1, <1>6 DEF File_Write
  <2>2. BlocksDone(f, M, A, D, O, i, offset, buffer, w) /\ Carried(g, C, w.fs)
    <3>1. buffer \in Seq(Stored)
      BY DEF Stored
    <3> QED
      BY <1>1, <1>2, <1>6, <3>1, WriteBlocksDone, WriteBlocksCarried
  <2> HIDE DEF r, w, end
  <2>3. CASE w.ret # 0
    BY <2>1, <2>2, <2>3 DEF FileWritten, r
  <2>4. CASE w.ret = 0 /\ Refused(w.fs)
    <3>1. r = UpdateIFile(w.fs, w.inode)
      BY <2>1, <2>4 DEF FileWritten
    <3>2. Resting(g, C, w.fs)
      BY <2>2, <2>4 DEF Resting, Carried
    <3> QED
      BY <3>1, <3>2, UpdateIFileRests DEF Resting, r
  <2>5. CASE w.ret = 0 /\ ~ Refused(w.fs)
    <3> DEFINE N == [M EXCEPT ![i] = w.inode]
    <3>1. /\ SameState(f, w.fs)
          /\ w.inode.inUse = M[i].inUse /\ w.inode.fileSize = Max({size, end})
      BY <2>2, <2>5 DEF BlocksDone, end
    <3>2. PICK B, E, P : /\ View(w.fs, N, B, E, P)
                         /\ Changed(A, D, B, E, i, offset, buffer)
      BY <2>2, <2>5 DEF BlocksDone
    <3>3. r = UpdateIFile(w.fs, w.inode)
      BY <2>1, <2>5 DEF FileWritten
    <3>4. N[i] = w.inode
      BY <1>1
    <3> HIDE DEF N
    <3>5. Sound(N, B, i, f.iFileSize)
      <4>1. Max({size, end}) <= MaxUnits
        BY <1>2, <1>3, <1>4 DEF end
      <4>2. ASSUME NEW u \in 0 .. Max({size, end}) - 1
            PROVE  B[i][u \div BlockSize] # NoAddress
        <5>1. u \in 0 .. MaxUnits - 1 /\ u \in Nat
          BY <1>2, <1>4, <4>1, MaxUnitsFacts
        <5>2. u \in 0 .. size - 1 \/ u - offset + 1 \in 1 .. Len(buffer)
          BY <1>2, <1>4, <4>2 DEF end
        <5>3. A[i][u \div BlockSize] # NoAddress \/ u - offset + 1 \in DOMAIN buffer
          BY <1>2, <1>3, <5>2
        <5> QED
          BY <3>2, <5>1, <5>3 DEF Changed
      <4> QED
        BY <1>1, <1>2, <3>1, <3>4, <4>1, <4>2 DEF Sound
    <3>6. \A j \in Numbers : j # i => B[j] = A[j] /\ E[j] = D[j]
      BY <3>2 DEF Changed
    <3>7. \A j \in Numbers : j # i => N[j] = M[j] /\ B[j] = A[j] /\ E[j] = D[j]
      BY <1>1, <3>6 DEF N
    <3>8. Carried(g, C, UpdateIFile(w.fs, N[i]).fs)
      BY <2>2, <3>1, <3>2, <3>5, <3>7, PutBackCarried
    <3> QED
      BY <3>3, <3>4, <3>8 DEF r
  <2> QED
    BY <2>3, <2>4, <2>5
<1> QED
  BY <1>5, <1>6

LEMMA File_ChmodCarried ==
    ASSUME NEW g, NEW C, NEW f, NEW M, NEW A, NEW D, NEW O, Settled(f, M, A, D, O),
           Known(M, A, D, C), Carried(g, C, f),
           NEW i \in 1 .. f.iFileSize, C[i] = Unknown, NEW mode \in Modes
    PROVE  Carried(g, C, File_Chmod(f, i, mode).fs)
<1> DEFINE n == [M[i] EXCEPT !.permissions = mode]
           N == [M EXCEPT ![i] = n]
<1>1. /\ View(f, M, A, D, O) /\ M \in [Numbers -> INode] /\ M[i].inum = i
      /\ i \in Numbers /\ i \in INums /\ M[i] \in INode /\ M[i] # Dead
      /\ GetINode(f, i) = M[i]
  BY SettledFacts, SettledINode
<1>2. File_Chmod(f, i, mode) = UpdateIFile(f, n)
  BY <1>1 DEF File_Chmod
<1>3. /\ n \in INode /\ n.inum = i /\ n.direct = M[i].direct
      /\ n.indirect = M[i].indirect /\ n.inUse = M[i].inUse
      /\ n.fileSize = M[i].fileSize
  BY <1>1 DEF INode
<1> HIDE DEF n
<1>4. View(f, N, A, D, O)
  BY <1>1, <1>3, ViewINode
<1>5. N[i] = n
  BY <1>1
<1>6. Sound(M, A, i, f.iFileSize)
  BY <1>1 DEF Settled
<1> HIDE DEF N
<1>7. Sound(N, A, i, f.iFileSize)
  BY <1>3, <1>5, <1>6 DEF Sound
<1>8. SameState(f, f)
  BY DEF SameState
<1>9. InHand(f, N, A, D, O, i)
  <2>1. View(f, [M EXCEPT ![i] = n], A, D, O) /\ Sound([M EXCEPT ![i] = n], A, i, f.iFileSize)
    BY <1>4, <1>7 DEF N
  <2>2. InHand(f, [M EXCEPT ![i] = n], A, D, O, i)
    BY <1>8, <2>1, InHandAgain
  <2> QED
    BY <2>2 DEF N
<1>10. Known(N, A, D, C)
  BY <1>1, KnownOthers DEF N
<1>11. Carried(g, C, UpdateIFile(f, N[i]).fs)
  BY <1>9, <1>10, UpdateIFileCarried
<1> QED
  BY <1>2, <1>5, <1>11

\* A file is emptied and put back with no units.
LEMMA EmptiedCarried ==
    ASSUME NEW g, NEW C, NEW f, NEW M, NEW A, NEW D, NEW O, Settled(f, M, A, D, O),
           Known(M, A, D, C), Carried(g, C, f),
           NEW i \in 1 .. f.iFileSize, C[i] = Unknown,
           NEW n \in INode, n.inum = i, n.direct = NoBlocks, n.indirect = NoAddress,
           n.inUse => n.fileSize = 0
    PROVE  Carried(g, C, UpdateIFile(Emptied(f, M[i]).fs, n).fs)
<1> DEFINE h == Emptied(f, M[i]).fs
           N == [M EXCEPT ![i] = n]
           B == [A EXCEPT ![i] = NoAddresses]
           E == [D EXCEPT ![i] = ZeroBlocks]
<1>1. /\ View(f, M, A, D, O) /\ M \in [Numbers -> INode]
      /\ A \in [Numbers -> [BlockNumbers -> MaybeAddress]]
      /\ D \in [Numbers -> [BlockNumbers -> FileBlock]]
      /\ i \in Numbers /\ i \in INums /\ FsTyped(f)
  <2>1. /\ View(f, M, A, D, O) /\ Tree(M, A, O, f.leaked) /\ i \in Numbers /\ i \in INums
        /\ FsTyped(f)
    BY SettledFacts
  <2> QED
    BY <2>1 DEF View, Tree, Held
<1>2. SameState(f, h)
  BY <1>1, EmptiedDone
<1>3. PICK P : View(h, N, B, E, P)
  BY <1>1, EmptiedDone
<1>4. Carried(g, C, h)
  BY <1>1, EmptiedQuiet, QuietCarried
<1>5. /\ N[i] = n /\ B[i] = NoAddresses
      /\ \A j \in Numbers : j # i => N[j] = M[j] /\ B[j] = A[j] /\ E[j] = D[j]
  BY <1>1
<1> HIDE DEF N, B, E, h
<1>6. \A b \in BlockNumbers : B[i][b] = NoAddress
  BY <1>5 DEF NoAddresses
<1>7. Sound(N, B, i, f.iFileSize)
  <2>1. CASE n.inUse
    <3>1. n.fileSize = 0 /\ 0 <= MaxUnits /\ 0 .. 0 - 1 = {}
      BY <2>1, MaxUnitsFacts
    <3> QED
      BY <1>5, <1>6, <3>1 DEF Sound
  <2>2. CASE ~ n.inUse
    BY <1>5, <1>6, <2>2 DEF Sound
  <2> QED
    BY <2>1, <2>2
<1>8. InHand(h, N, B, E, P, i)
  <2>1. /\ View(h, [M EXCEPT ![i] = n], B, E, P) /\ Sound([M EXCEPT ![i] = n], B, i, f.iFileSize)
        /\ \A j \in Numbers : j # i => B[j] = A[j] /\ E[j] = D[j]
    BY <1>3, <1>5, <1>7 DEF N
  <2>2. InHand(h, [M EXCEPT ![i] = n], B, E, P, i)
    BY <1>2, <2>1, InHandAgain
  <2> QED
    BY <2>2 DEF N
<1>9. Known(N, B, E, C)
  BY <1>1, <1>5, KnownOthers
<1>10. Carried(g, C, UpdateIFile(h, N[i]).fs)
  BY <1>4, <1>8, <1>9, UpdateIFileCarried
<1> QED
  BY <1>5, <1>10 DEF h

LEMMA File_FreeCarried ==
    ASSUME NEW g, NEW C, NEW f, NEW M, NEW A, NEW D, NEW O, Settled(f, M, A, D, O),
           Known(M, A, D, C), Carried(g, C, f), NEW i \in 1 .. f.iFileSize, C[i] = Unknown
    PROVE  Carried(g, C, File_Free(f, i).fs)
<1> DEFINE e == Emptied(f, M[i])
           n == [e.inode EXCEPT !.inUse = FALSE]
           u == UpdateIFile(e.fs, n)
           r == File_Free(f, i)
<1>1. /\ View(f, M, A, D, O) /\ M[i].inum = i
      /\ i \in Numbers /\ M[i] \in INode /\ M[i] # Dead /\ GetINode(f, i) = M[i]
  BY SettledFacts, SettledINode
<1>2. /\ e.inode = [M[i] EXCEPT !.direct = NoBlocks, !.indirect = NoAddress]
      /\ e.inode \in INode
  <2>1. View(f, M, A, D, O) /\ i \in Numbers
    BY <1>1
  <2>2. e.inode = [M[i] EXCEPT !.direct = NoBlocks, !.indirect = NoAddress]
    BY DEF Emptied
  <2> HIDE DEF e
  <2>3. e.inode \in INode
    BY <2>1, EmptiedDone DEF e
  <2> QED
    BY <2>2, <2>3
<1>3. r.fs = u.fs
  BY <1>1 DEF File_Free
<1> HIDE DEF e, r
<1>4. /\ n \in INode /\ n.inum = i /\ n.direct = NoBlocks /\ n.indirect = NoAddress
      /\ ~ n.inUse
  BY <1>1, <1>2 DEF INode
<1> HIDE DEF n
<1>5. Carried(g, C, UpdateIFile(e.fs, n).fs)
  BY <1>4, EmptiedCarried DEF e
<1> QED
  BY <1>3, <1>5 DEF r

LEMMA File_TruncateCarried ==
    ASSUME NEW g, NEW C, NEW f, NEW M, NEW A, NEW D, NEW O, Settled(f, M, A, D, O),
           f.lapses = {}, Known(M, A, D, C), Carried(g, C, f),
           NEW i \in 1 .. f.iFileSize, C[i] = Unknown,
           NEW units \in Seq(Unit), Matches(M, D, i, units), NEW size \in Sizes
    PROVE  Carried(g, C, File_Truncate(f, i, size).fs)
<1> DEFINE e == Emptied(f, M[i])
           n == [e.inode EXCEPT !.fileSize = 0]
           u == UpdateIFile(e.fs, n)
           buffer == Resized(units, size)
           r == File_Write(u.fs, i, 0, buffer)
<1>1. /\ View(f, M, A, D, O) /\ FsTyped(f) /\ M[i].inum = i
      /\ i \in Numbers /\ M[i] \in INode /\ M[i] # Dead /\ GetINode(f, i) = M[i]
      /\ i \in INums /\ i <= f.iFileSize
  BY SettledFacts, SettledINode
<1>2. /\ M[i].inUse /\ M[i].fileSize \in Nat
      /\ units = [k \in 1 .. M[i].fileSize |-> UnitOf(D[i], k - 1)]
  BY <1>1 DEF Matches, INode
<1>3. ReadUnits(f, M[i], M[i].fileSize) = units
  <2>1. Sound(M, A, i, f.iFileSize)
    BY <1>1 DEF Settled
  <2>2. /\ M[i].fileSize <= MaxUnits
        /\ \A v \in 0 .. M[i].fileSize - 1 : A[i][v \div BlockSize] # NoAddress
    BY <1>1, <1>2, <2>1 DEF Sound
  <2> QED
    BY <1>1, <1>2, <2>2, UnitsRead
<1>4. units # Dead
  BY SentinelAssumption
<1>5. File_Truncate(f, i, size) = r
  BY <1>1, <1>3, <1>4 DEF File_Truncate
<1>6. /\ e.inode = [M[i] EXCEPT !.direct = NoBlocks, !.indirect = NoAddress]
      /\ e.inode \in INode
  <2>1. View(f, M, A, D, O) /\ i \in Numbers
    BY <1>1
  <2>2. e.inode = [M[i] EXCEPT !.direct = NoBlocks, !.indirect = NoAddress]
    BY DEF Emptied
  <2> HIDE DEF e
  <2>3. e.inode \in INode
    BY <2>1, EmptiedDone DEF e
  <2> QED
    BY <2>2, <2>3
<1> HIDE DEF e, r
<1>7. /\ n \in INode /\ n.inum = i /\ n.direct = NoBlocks /\ n.indirect = NoAddress
      /\ n.inUse /\ n.fileSize = 0
  BY <1>1, <1>2, <1>6 DEF INode
<1> HIDE DEF n
<1>8. Outcome(f, M, D, i, <<>>, UpdateIFile(e.fs, n)) /\ Carried(g, C, UpdateIFile(e.fs, n).fs)
  BY <1>7, EmptiedPutBack, EmptiedCarried DEF e
<1> HIDE DEF u
<1>9. Outcome(f, M, D, i, <<>>, u) /\ Carried(g, C, u.fs)
  BY <1>8 DEF u
<1>10. buffer \in Seq(Unit) /\ 0 + Len(buffer) <= MaxUnits
  <2>1. size \in Nat /\ size <= MaxUnits
    BY FileAssumption DEF MaxUnits
  <2>2. \A k \in 1 .. size : (IF k <= Len(units) THEN units[k] ELSE Zero) \in Unit
    BY <2>1 DEF Unit
  <2>3. buffer \in [1 .. size -> Unit]
    BY <2>2 DEF Resized
  <2> HIDE DEF buffer
  <2> QED
    BY <2>1, <2>3
<1> HIDE DEF buffer
<1>11. CASE Refused(u.fs)
  <2>1. Resting(g, C, u.fs)
    BY <1>9, <1>11 DEF Resting, Carried
  <2>2. Carried(g, C, r.fs)
    BY <2>1, File_WriteRests DEF Resting, r
  <2> QED
    BY <1>5, <2>2
<1>12. CASE ~ Refused(u.fs)
  <2>1. i <= u.fs.iFileSize
    BY <1>9, <1>12 DEF Outcome
  <2>2. PICK N, B, E, P : /\ Settled(u.fs, N, B, E, P) /\ Known(N, B, E, C)
                          /\ Stands(N, E, i, <<>>)
    BY <1>1, <1>9, <1>12, OutcomeKnown
  <2>3. Matches(N, E, i, <<>>)
    <3>1. <<>> \in Seq(Unit)
      OBVIOUS
    <3> QED
      BY <2>2, <3>1, SentinelAssumption DEF Stands
  <2>4. i \in 1 .. u.fs.iFileSize
    BY <2>1, <2>2, SettledFacts
  <2>5. 0 \in Nat /\ 0 <= Len(<<>>)
    OBVIOUS
  <2>6. Carried(g, C, File_Write(u.fs, i, 0, buffer).fs)
    BY <1>9, <1>10, <2>2, <2>3, <2>4, <2>5, File_WriteCarried
  <2> QED
    BY <1>5, <2>6 DEF r
<1> QED
  BY <1>11, <1>12

\* The new inode is put into the ifile, which counts it already.
LEMMA File_CreateCarried ==
    ASSUME NEW g, NEW C, NEW f, NEW M, NEW A, NEW D, NEW O, Settled(f, M, A, D, O),
           Known(M, A, D, C), Carried(g, C, f),
           NEW i \in INums, i = GetUnusedINum(f), C[i] = Unknown, NEW mode \in Modes
    PROVE  Carried(g, C, File_Create(f, mode).fs)
<1> DEFINE count == Max({f.iFileSize, i})
           h == [f EXCEPT !.iFileSize = count]
           n == NewINode(i, mode)
           N == [M EXCEPT ![i] = n]
<1>1. /\ File_Create(f, mode) = UpdateIFile(h, n)
      /\ InHand(h, N, A, D, O, i) /\ N[i] = n /\ FsTyped(h)
      /\ \A j \in Numbers : j # i => N[j] = M[j]
  <2>1. Settled(f, M, A, D, O) /\ i \in INums /\ i = GetUnusedINum(f) /\ mode \in Modes
    OBVIOUS
  <2> QED
    BY ONLY <2>1, File_CreateInHand, SMTT(60)
<1>2. Carried(g, C, h)
  <2>1. /\ h.media = f.media /\ h.full = f.full /\ h.saved = f.saved
        /\ h.partial = f.partial /\ h.root = f.root /\ h.ckptINode = f.ckptINode
        /\ h.tail = f.tail /\ h.lapses = f.lapses /\ FsTyped(h)
    BY <1>1, SettledFacts DEF FsTyped, StateFields
  <2> HIDE DEF h
  <2>2. Quiet(f, h)
    BY <2>1 DEF Quiet, Refused
  <2> QED
    BY <2>2, QuietCarried
<1> HIDE DEF h, n, N
<1>3. Known(N, A, D, C)
  BY <1>1, KnownOthers
<1>4. Carried(g, C, UpdateIFile(h, N[i]).fs)
  BY <1>1, <1>2, <1>3, UpdateIFileCarried
<1> QED
  BY <1>1, <1>4

----------------------------------------------------------------------------
(* What a checkpoint leads to can be read. *)

\* Nothing hides the flash.
Bare(g, M, A, D, U) ==
    /\ g.tail.seg = FLASH_FULL /\ Leads(OnMedia(g), M, A, D, U)
    /\ M[IFILE_INUM] = g.root /\ g.root.fileSize = g.iFileSize

LEMMA BareSlot ==
    ASSUME NEW g, g.tail.seg = FLASH_FULL, NEW a \in Address
    PROVE  Log_Read(g, a) = IF OnMedia(g)[a] = NO_INUM THEN Dead ELSE OnMedia(g)[a].data
BY AddressParts, GeometryFacts DEF Log_Read, Slots, OnMedia

\* The slots at the addresses of file j are its own.
Owns(at, M, A, D, j) ==
    /\ M[j] \in INode /\ M[j].inum = j
    /\ A[j] \in [BlockNumbers -> MaybeAddress]
    /\ \A b \in BlockNumbers :
          /\ D[j][b] \in FileBlock
          /\ b < NDirect => A[j][b] = M[j].direct[b]
          /\ b >= NDirect /\ M[j].indirect = NoAddress => A[j][b] = NoAddress
          /\ A[j][b] = NoAddress => D[j][b] = ZeroBlock
          /\ A[j][b] # NoAddress =>
                /\ A[j][b] \in Address
                /\ at[A[j][b]] = [inum |-> j, fb |-> b, data |-> D[j][b]]
                /\ at[A[j][b]] # NO_INUM
    /\ M[j].indirect # NoAddress =>
          /\ M[j].indirect \in Address
          /\ at[M[j].indirect] # NO_INUM
          /\ at[M[j].indirect].inum = j
          /\ at[M[j].indirect].data
               = [c \in 0 .. NIndirect - 1 |-> A[j][NDirect + c]]

LEMMA LeadsOwns ==
    ASSUME NEW at, NEW M, NEW A, NEW D, NEW U, Leads(at, M, A, D, U),
           NEW j \in Numbers \ U, j <= M[IFILE_INUM].fileSize
    PROVE  Owns(at, M, A, D, j)
<1>1. M[j] \in INode /\ A[j] \in [BlockNumbers -> MaybeAddress]
      /\ \A b \in BlockNumbers : D[j][b] \in FileBlock
  BY DEF Leads
<1>2. /\ M[j].inum = j
      /\ \A b \in BlockNumbers :
            /\ b < NDirect => A[j][b] = M[j].direct[b]
            /\ b >= NDirect /\ M[j].indirect = NoAddress => A[j][b] = NoAddress
            /\ A[j][b] = NoAddress => D[j][b] = ZeroBlock
            /\ A[j][b] # NoAddress =>
                  at[A[j][b]] = [inum |-> j, fb |-> b, data |-> D[j][b]]
      /\ M[j].indirect # NoAddress =>
            /\ at[M[j].indirect] # NO_INUM
            /\ at[M[j].indirect].inum = j
            /\ at[M[j].indirect].data = [c \in 0 .. NIndirect - 1 |-> A[j][NDirect + c]]
  BY DEF Leads
<1>3. M[j].indirect # NoAddress => M[j].indirect \in Address
  BY <1>1 DEF INode, MaybeAddress
<1>4. ASSUME NEW b \in BlockNumbers, A[j][b] # NoAddress
      PROVE  A[j][b] \in Address /\ at[A[j][b]] # NO_INUM
  <2>1. A[j][b] \in Address
    BY <1>1, <1>4 DEF MaybeAddress
  <2>2. [inum |-> j, fb |-> b, data |-> D[j][b]] \in SummarySlot
    <3>1. j \in 0 .. MaxINum /\ b \in Int /\ D[j][b] \in FileBlock
      BY <1>1, BlockNumberFacts DEF Numbers
    <3> QED
      BY <3>1 DEF SummarySlot
  <2> QED
    BY <1>2, <1>4, <2>1, <2>2, SentinelAssumption
<1> QED
  BY <1>1, <1>2, <1>3, <1>4 DEF Owns

LEMMA BareOwns ==
    ASSUME NEW g, NEW M, NEW A, NEW D, NEW U, Bare(g, M, A, D, U),
           NEW j \in Numbers \ U, j <= g.iFileSize
    PROVE  Owns(OnMedia(g), M, A, D, j)
BY LeadsOwns DEF Bare

LEMMA BareIndirect ==
    ASSUME NEW g, NEW M, NEW A, NEW D, NEW U, Bare(g, M, A, D, U),
           NEW j \in Numbers \ U, j <= g.iFileSize
    PROVE  LET stored == [c \in 0 .. NIndirect - 1 |-> A[j][NDirect + c]]
           IN  ReadIndirectBlocks(g, M[j]) = stored /\ stored # Dead
<1> DEFINE stored == [c \in 0 .. NIndirect - 1 |-> A[j][NDirect + c]]
           ind == M[j].indirect
<1>1. g.tail.seg = FLASH_FULL /\ Owns(OnMedia(g), M, A, D, j)
  BY BareOwns DEF Bare
<1>2. /\ A[j] \in [BlockNumbers -> MaybeAddress]
      /\ \A b \in BlockNumbers :
            b >= NDirect /\ ind = NoAddress => A[j][b] = NoAddress
      /\ ind # NoAddress => /\ ind \in Address /\ OnMedia(g)[ind] # NO_INUM
                            /\ OnMedia(g)[ind].data = stored
  BY <1>1 DEF Owns
<1>3. stored \in IndirectBlock
  BY <1>2, BlockNumberFacts DEF IndirectBlock
<1>4. CASE ind = NoAddress
  <2>1. \A c \in 0 .. NIndirect - 1 : A[j][NDirect + c] = NoAddress
    BY <1>2, <1>4, BlockNumberFacts
  <2> QED
    BY <1>3, <1>4, <2>1, SentinelAssumption DEF ReadIndirectBlocks, NoIndirect
<1>5. CASE ind # NoAddress
  <2>1. Log_Read(g, ind) = stored
    BY <1>1, <1>2, <1>5, BareSlot
  <2>2. ReadIndirectBlocks(g, M[j]) = stored
    BY <1>3, <1>5, <2>1 DEF ReadIndirectBlocks, Understood
  <2> QED
    BY <1>3, <2>2, SentinelAssumption
<1> QED
  BY <1>4, <1>5

LEMMA BareBlock ==
    ASSUME NEW g, NEW M, NEW A, NEW D, NEW U, Bare(g, M, A, D, U),
           NEW j \in Numbers \ U, j <= g.iFileSize, NEW b \in BlockNumbers
    PROVE  /\ GetBlockAddress(g, M[j], b) = A[j][b]
           /\ ReadBlock(g, M[j], b) = D[j][b]
           /\ D[j][b] # Dead
<1> DEFINE stored == [c \in 0 .. NIndirect - 1 |-> A[j][NDirect + c]]
<1>1. g.tail.seg = FLASH_FULL /\ Owns(OnMedia(g), M, A, D, j)
  BY BareOwns DEF Bare
<1>2. /\ A[j] \in [BlockNumbers -> MaybeAddress] /\ D[j][b] \in FileBlock
      /\ b < NDirect => A[j][b] = M[j].direct[b]
      /\ A[j][b] = NoAddress => D[j][b] = ZeroBlock
      /\ A[j][b] # NoAddress =>
            /\ A[j][b] \in Address
            /\ OnMedia(g)[A[j][b]] = [inum |-> j, fb |-> b, data |-> D[j][b]]
            /\ OnMedia(g)[A[j][b]] # NO_INUM
  BY <1>1 DEF Owns
<1>3. ReadIndirectBlocks(g, M[j]) = stored /\ stored # Dead
  BY BareIndirect
<1> HIDE DEF stored
<1>4. GetBlockAddress(g, M[j], b) = A[j][b]
  <2>1. CASE b < NDirect
    BY <1>2, <2>1 DEF GetBlockAddress
  <2>2. CASE ~ (b < NDirect)
    <3>1. b - NDirect \in 0 .. NIndirect - 1 /\ NDirect + (b - NDirect) = b
      BY <2>2, BlockNumberFacts, GeometryFacts DEF BlockNumbers
    <3>2. stored[b - NDirect] = A[j][b]
      BY <3>1 DEF stored
    <3> QED
      BY <1>3, <2>2, <3>2 DEF GetBlockAddress
  <2> QED
    BY <2>1, <2>2
<1>5. D[j][b] # Dead /\ A[j][b] # Dead
  BY <1>2, SentinelAssumption
<1>6. CASE A[j][b] = NoAddress
  BY <1>2, <1>4, <1>5, <1>6 DEF ReadBlock, Fetch
<1>7. CASE A[j][b] # NoAddress
  <2>1. Log_Read(g, A[j][b]) = D[j][b]
    BY <1>1, <1>2, <1>7, BareSlot
  <2> QED
    BY <1>4, <1>5, <1>7, <2>1 DEF ReadBlock, Fetch
<1> QED
  BY <1>4, <1>5, <1>6, <1>7

LEMMA BareUnits ==
    ASSUME NEW g, NEW M, NEW A, NEW D, NEW U, Bare(g, M, A, D, U),
           NEW j \in Numbers \ U, j <= g.iFileSize,
           NEW length \in Nat, length <= MaxUnits,
           \A u \in 0 .. length - 1 : A[j][u \div BlockSize] # NoAddress
    PROVE  ReadUnits(g, M[j], length) = [k \in 1 .. length |-> UnitOf(D[j], k - 1)]
<1> DEFINE blocks == {u \div BlockSize : u \in 0 .. length - 1}
           Missing(b) == \/ GetBlockAddress(g, M[j], b) = NoAddress
                         \/ ReadBlock(g, M[j], b) = Dead
           block == [b \in blocks |-> ReadBlock(g, M[j], b)]
<1>1. ASSUME NEW b \in blocks
      PROVE  ~ Missing(b) /\ ReadBlock(g, M[j], b) = D[j][b]
  <2>1. PICK u \in 0 .. length - 1 : b = u \div BlockSize
    OBVIOUS
  <2>2. b \in BlockNumbers /\ A[j][b] # NoAddress
    BY <2>1, MaxUnitsFacts
  <2> HIDE DEF blocks
  <2>3. GetBlockAddress(g, M[j], b) = A[j][b] /\ ReadBlock(g, M[j], b) = D[j][b]
        /\ D[j][b] # Dead
    BY <2>2, BareBlock
  <2> QED
    BY <2>2, <2>3
<1>2. ReadUnits(g, M[j], length)
        = [k \in 1 .. length |-> block[(k - 1) \div BlockSize][(k - 1) % BlockSize]]
  BY <1>1 DEF ReadUnits
<1>3. ASSUME NEW k \in 1 .. length
      PROVE  block[(k - 1) \div BlockSize][(k - 1) % BlockSize] = UnitOf(D[j], k - 1)
  <2>1. (k - 1) \div BlockSize \in blocks
    OBVIOUS
  <2> HIDE DEF blocks
  <2> QED
    BY <1>1, <2>1 DEF UnitOf
<1> HIDE DEF block
<1> QED
  BY <1>2, <1>3

\* The blocks an inode names are its own.
LEMMA BareKept ==
    ASSUME NEW g, NEW M, NEW A, NEW D, NEW U, Bare(g, M, A, D, U),
           NEW j \in Numbers \ U, j <= g.iFileSize
    PROVE  Kept(g, M[j])
<1>1. Owns(OnMedia(g), M, A, D, j)
  BY BareOwns
<1>2. M[j] \in INode /\ M[j].inum = j
  BY <1>1 DEF Owns
<1> SUFFICES ASSUME NEW a \in (Range(M[j].direct) \cup {M[j].indirect}) \ {NoAddress}
             PROVE  g.media[a.seg][a.blk] # NO_INUM /\ g.media[a.seg][a.blk].inum = j
  BY <1>2 DEF Kept
<1>3. a \in Address /\ OnMedia(g)[a] # NO_INUM /\ OnMedia(g)[a].inum = j
  <2>1. CASE a = M[j].indirect
    BY <1>1, <2>1 DEF Owns
  <2>2. CASE a # M[j].indirect
    <3>1. PICK b \in 0 .. NDirect - 1 : a = M[j].direct[b]
      BY <1>2, <2>2 DEF Range, INode
    <3>2. b \in BlockNumbers /\ b < NDirect
      BY GeometryFacts DEF BlockNumbers, maxFileBlocks
    <3>3. /\ A[j][b] = M[j].direct[b]
          /\ A[j][b] # NoAddress =>
                /\ A[j][b] \in Address
                /\ OnMedia(g)[A[j][b]] = [inum |-> j, fb |-> b, data |-> D[j][b]]
                /\ OnMedia(g)[A[j][b]] # NO_INUM
      BY <1>1, <3>2 DEF Owns
    <3> QED
      BY <3>1, <3>3
  <2> QED
    BY <2>1, <2>2
<1> QED
  BY <1>3 DEF OnMedia

\* A file that the checkpoint leads to is what reading it gives.
LEMMA SavedReads ==
    ASSUME FsTyped(fs), NEW S, LeadsTo(OnMedia(fs), fs.saved.root, S),
           NEW i \in INums, S[i] # Unknown
    PROVE  SavedFile(i) = S[i]
<1> DEFINE g == OnFlash(fs)
           inode == GetINode(g, i)
<1>1. PICK M, A, D : /\ M[IFILE_INUM] = fs.saved.root
                     /\ Leads(OnMedia(fs), M, A, D, Torn(S)) /\ Known(M, A, D, S)
  BY DEF LeadsTo
<1>2. /\ g.tail.seg = FLASH_FULL /\ g.media = fs.media /\ g.root = fs.saved.root
      /\ g.iFileSize = fs.saved.root.fileSize
  BY DEF OnFlash, FsTyped, StateFields
<1>3. SavedFile(i) = IF ~ Kept(g, g.root) THEN Dead
                     ELSE IF inode # Dead /\ inode.inUse /\ ~ Kept(g, inode) THEN Dead
                     ELSE Seen(g, i)
  BY DEF SavedFile
<1> HIDE DEF g
<1>4. Bare(g, M, A, D, Torn(S))
  BY <1>1, <1>2 DEF Bare, OnMedia
<1>5. /\ i \in Numbers \ Torn(S) /\ 0 \in Numbers \ Torn(S) /\ IFILE_INUM = 0
      /\ i \in Nat /\ i # 0 /\ M[0] = g.root
      /\ (i - 1) \div BlockSize \in BlockNumbers
  BY <1>1, <1>2, INumFacts DEF Torn
<1>6. g.iFileSize \in Nat /\ 0 <= g.iFileSize
  BY <1>1, <1>2, <1>5 DEF Leads, INode
<1>7. Kept(g, g.root)
  BY <1>4, <1>5, <1>6, BareKept
<1>8. CASE i <= g.iFileSize
  <2> DEFINE b == (i - 1) \div BlockSize
  <2>1. HasEntry(M, A, D, i) /\ Sound(M, A, i, g.iFileSize) /\ Stands(M, D, i, S[i])
    BY <1>1, <1>2, <1>8 DEF Known
  <2>2. A[0][b] # NoAddress /\ D[0][b][(i - 1) % BlockSize] = M[i]
    BY <1>5, <2>1 DEF HasEntry, UnitOf
  <2>3. /\ GetBlockAddress(g, g.root, b) = A[0][b]
        /\ ReadBlock(g, g.root, b) = D[0][b] /\ D[0][b] # Dead
    <3> HIDE DEF b
    <3>1. b \in BlockNumbers
      BY <1>5 DEF b
    <3>2. /\ GetBlockAddress(g, M[0], b) = A[0][b]
          /\ ReadBlock(g, M[0], b) = D[0][b] /\ D[0][b] # Dead
      BY <1>4, <1>5, <1>6, <3>1, BareBlock
    <3> QED
      BY <1>5, <3>2
  <2>4. ~ (i > g.iFileSize) /\ ~ (i > g.root.fileSize)
    BY <1>2, <1>5, <1>6, <1>8
  <2>6. M[i] \in INode /\ M[i] # Dead
    BY <1>1, <1>5, SentinelAssumption DEF Leads
  <2>5. inode = M[i]
    <3>1. Understood(g, M[i], INode) = M[i]
      BY <2>6 DEF Understood
    <3> QED
      BY <1>5, <2>2, <2>3, <2>4, <3>1 DEF GetINode, IFILE_INUM
  <2>7. Kept(g, M[i])
    BY <1>4, <1>5, <1>8, BareKept
  <2>8. SavedFile(i) = IF ~ M[i].inUse THEN NoFile
                       ELSE ReadUnits(g, M[i], M[i].fileSize)
    BY <1>3, <1>7, <2>4, <2>5, <2>6, <2>7 DEF Seen
  <2>9. CASE M[i].inUse
    <3>1. M[i].fileSize \in Nat
      BY <2>6 DEF INode
    <3>2. /\ M[i].fileSize <= MaxUnits
          /\ \A u \in 0 .. M[i].fileSize - 1 : A[i][u \div BlockSize] # NoAddress
      BY <1>8, <2>1, <2>9 DEF Sound
    <3>3. ReadUnits(g, M[i], M[i].fileSize)
            = [k \in 1 .. M[i].fileSize |-> UnitOf(D[i], k - 1)]
      BY <1>4, <1>5, <1>8, <3>1, <3>2, BareUnits
    <3> QED
      BY <2>1, <2>8, <2>9, <3>3 DEF Stands, Matches
  <2>10. CASE ~ M[i].inUse
    BY <2>1, <2>8, <2>10 DEF Stands, Matches
  <2> QED
    BY <2>9, <2>10
<1>9. CASE ~ (i <= g.iFileSize)
  <2>1. S[i] = NoFile
    BY <1>1, <1>2, <1>9 DEF Known
  <2>2. i > g.iFileSize /\ i > g.root.fileSize
    BY <1>2, <1>5, <1>6, <1>9
  <2>3. inode = Dead
    BY <1>5, <2>2 DEF GetINode, IFILE_INUM
  <2> QED
    BY <1>3, <1>7, <2>1, <2>2, <2>3 DEF Seen
<1> QED
  BY <1>8, <1>9

----------------------------------------------------------------------------
(* Requests. *)

\* Each request, whatever is refused: the file it names is the only one that it
\* leaves half changed on flash.
LEMMA RequestCarried ==
    ASSUME TypeInv, FilesKept, Shape(fs), Pin(fs), NEW i \in INums, Request(i)
    PROVE  Carried(fs, [contents EXCEPT ![i] = Unknown], fs')
<1> DEFINE C == [contents EXCEPT ![i] = Unknown]
<1>1. PICK M, A, D, O : Settled(fs, M, A, D, O) /\ Promises(fs, M, D)
  BY DEF FilesKept
<1>2. fs.lapses = {}
  BY DEF FilesKept
<1>3. ASSUME i \in Promised
      PROVE  /\ i \in 1 .. fs.iFileSize /\ Matches(M, D, i, contents[i])
             /\ contents[i] \in Seq(Unit)
  <2>1. contents[i] # NoFile /\ contents[i] # Unknown
    BY <1>3 DEF Promised, Files
  <2>2. i <= fs.iFileSize /\ Matches(M, D, i, contents[i])
    BY <1>1, <2>1 DEF Promises, Stands
  <2>3. i \in 1 .. fs.iFileSize
    BY <1>1, <2>2, SettledFacts DEF INums
  <2> QED
    BY <2>2, <2>3 DEF Matches
<1>4. DOMAIN contents = INums
  BY DEF TypeInv, ContentsTyped
<1>5. C[i] = Unknown /\ \A j \in INums : j # i => C[j] = contents[j]
  BY <1>4
<1> HIDE DEF C
<1>6. Known(M, A, D, C)
  <2>1. \A j \in INums : C[j] # Unknown =>
           IF j <= fs.iFileSize THEN Stands(M, D, j, C[j]) ELSE C[j] = NoFile
    BY <1>1, <1>5 DEF Promises
  <2> QED
    BY <1>1, <2>1, SettledKnown
<1>7. Carried(fs, C, fs)
  BY <1>2 DEF Carried, Refused
<1> DEFINE Fine == Carried(fs, C, fs')
<1> HIDE DEF Fine
<1>8. ASSUME i = GetUnusedINum(fs), NEW mode \in Modes, CreateFile(mode)
      PROVE  Fine
  <2>1. Carried(fs, C, File_Create(fs, mode).fs)
    BY <1>1, <1>5, <1>6, <1>7, <1>8, File_CreateCarried
  <2> QED
    BY <1>8, <2>1 DEF CreateFile, Answer, Fine
<1>9. ASSUME i \in Promised, NEW e \in Extents, NEW d \in Data,
             e[1] <= Len(contents[i]),
             WriteFile(i, e[1], [u \in 1 .. e[2] |-> d])
      PROVE  Fine
  <2> DEFINE buffer == [u \in 1 .. e[2] |-> d]
             offset == e[1]
  <2>1. offset \in Nat /\ e[2] \in Nat /\ offset + e[2] <= MaxUnits
    BY FileAssumption DEF MaxUnits
  <2>2. buffer \in Seq(Unit) /\ Len(buffer) = e[2]
    BY <2>1 DEF Unit
  <2>3. fs' = File_Write(fs, i, offset, buffer).fs /\ offset <= Len(contents[i])
    BY <1>9 DEF WriteFile, Answer
  <2> HIDE DEF buffer, offset
  <2>4. offset + Len(buffer) <= MaxUnits
    BY <2>1, <2>2
  <2>5. Carried(fs, C, File_Write(fs, i, offset, buffer).fs)
    BY <1>1, <1>3, <1>5, <1>6, <1>7, <1>9, <2>1, <2>2, <2>3, <2>4, File_WriteCarried
  <2> QED
    BY <2>3, <2>5 DEF Fine
<1>10. ASSUME i \in Promised, NEW n \in Sizes, TruncateFile(i, n)
      PROVE  Fine
  <2>1. Carried(fs, C, File_Truncate(fs, i, n).fs)
    BY <1>1, <1>2, <1>3, <1>5, <1>6, <1>7, <1>10, File_TruncateCarried
  <2> QED
    BY <1>10, <2>1 DEF TruncateFile, Answer, Fine
<1>11. ASSUME i \in Promised, NEW mode \in Modes, ChmodFile(i, mode)
      PROVE  Fine
  <2>1. Carried(fs, C, File_Chmod(fs, i, mode).fs)
    BY <1>1, <1>3, <1>5, <1>6, <1>7, <1>11, File_ChmodCarried
  <2> QED
    BY <1>11, <2>1 DEF ChmodFile, Answer, Fine
<1>12. ASSUME i \in Promised, FreeFile(i)
      PROVE  Fine
  <2>1. Carried(fs, C, File_Free(fs, i).fs)
    BY <1>1, <1>3, <1>5, <1>6, <1>7, <1>12, File_FreeCarried
  <2> QED
    BY <1>12, <2>1 DEF FreeFile, Answer, Fine
<1>13. Fine
  BY <1>8, <1>9, <1>10, <1>11, <1>12 DEF Request
<1> QED
  BY <1>13 DEF Fine, C

----------------------------------------------------------------------------
(* One mount. *)

\* What the checkpoint on flash leads to is in past.saved, and what the ifile
\* inode kept for the next one leads to is in past.ckpt.  Until the segment
\* found partly filled is written, the checkpoint is that of mklfs.
SavedLeads ==
    \E S : /\ \A j \in INums : S[j] \in past.saved[j]
           /\ LeadsTo(OnMedia(fs), fs.saved.root, S)
NextLeads ==
    \E K : /\ past.ckpt = [j \in INums |-> {K[j]}]
           /\ LeadsTo(OnMedia(fs), fs.ckptINode, K)
FirstKept ==
    fs.partial => /\ fs.saved.root = FirstINode
                  /\ \A j \in INums : j # ROOT_DIRECTORY_INUM => NoFile \in past.saved[j]

Mounting == TypeInv /\ FilesKept /\ Shape(fs) /\ Pin(fs) /\ FirstKept
MountInv ==
    /\ FsTyped(fs) /\ DOMAIN past = {"ckpt", "saved"}
    /\ up \/ "misled" \notin fs.lapses => SavedLeads
    /\ up /\ "dirty" \notin fs.lapses => NextLeads
    /\ up /\ Running => Mounting

LEMMA MountInvSafe == MountInv => SavedFilesIntact
<1> SUFFICES ASSUME MountInv, "misled" \notin fs.lapses, NEW i \in INums
             PROVE  Unknown \in past.saved[i] \/ SavedFile(i) \in past.saved[i]
  BY DEF SavedFilesIntact
<1>1. PICK S : /\ \A j \in INums : S[j] \in past.saved[j]
               /\ LeadsTo(OnMedia(fs), fs.saved.root, S)
  BY DEF MountInv, SavedLeads
<1>2. CASE S[i] = Unknown
  BY <1>1, <1>2
<1>3. CASE S[i] # Unknown
  <2>1. SavedFile(i) = S[i]
    BY <1>1, <1>3, SavedReads DEF MountInv
  <2> QED
    BY <1>1, <2>1
<1> QED
  BY <1>2, <1>3

LEMMA MountInvInit == RemountInit => MountInv
<1> SUFFICES ASSUME RemountInit PROVE MountInv
  OBVIOUS
<1>1. /\ Init
      /\ past = [ckpt  |-> [i \in INums |-> {contents[i]}],
                 saved |-> [i \in INums |-> {contents[i]}]]
  BY DEF RemountInit
<1>2. FileInv
  BY <1>1, InitKept
<1>3. /\ fs.media = [s \in DataSegments |-> IF s = 1 THEN FirstSlots ELSE EmptySlots]
      /\ fs.full = {1} /\ fs.tail = [seg |-> 1, slots |-> FirstSlots] /\ fs.partial
      /\ fs.root = FirstINode /\ fs.iFileSize = 1 /\ fs.ckptINode = FirstINode
      /\ fs.saved.root = FirstINode /\ fs.lapses = {}
  BY <1>1 DEF Init, mklfs
<1>4. TypeInv /\ FsTyped(fs) /\ FilesKept
  BY <1>2, <1>3 DEF FileInv, TypeInv, Refused
<1>5. DOMAIN FirstSlots = 1 .. SegBlocks /\ FirstSlots[SegBlocks] = NO_INUM
  BY FirstFacts DEF FirstSlots, EmptySlots
<1>6. Shape(fs)
  BY <1>3, <1>4, <1>5, FirstFacts DEF Shape
<1>7. Pin(fs)
  BY <1>3, FirstINodesTyped, FirstFacts DEF Pin
<1>8. LeadsTo(OnMedia(fs), FirstINode, contents)
  <2>1. PICK M, A, D, O : Settled(fs, M, A, D, O) /\ Promises(fs, M, D)
    BY <1>4 DEF FilesKept
  <2>2. View(fs, M, A, D, O) /\ M[IFILE_INUM] = FirstINode
    BY <1>3, <2>1 DEF Settled
  <2>3. Leads(InLog(fs), M, A, D, Torn(contents))
    BY <2>2, ViewLeads
  <2>4. InLog(fs) = OnMedia(fs)
    <3>1. \A a \in Address : SlotAt(fs, a) = fs.media[a.seg][a.blk]
      <4> SUFFICES ASSUME NEW a \in Address
                   PROVE  SlotAt(fs, a) = fs.media[a.seg][a.blk]
        OBVIOUS
      <4>1. fs.tail.seg = 1 /\ fs.tail.slots = FirstSlots /\ a.seg \in DataSegments
            /\ fs.media[a.seg] = IF a.seg = 1 THEN FirstSlots ELSE EmptySlots
        BY <1>3, AddressParts
      <4> QED
        BY <4>1 DEF SlotAt, Slots
    <3> QED
      BY <3>1 DEF InLog, OnMedia
  <2>5. Known(M, A, D, contents)
    <3>1. \A j \in INums : contents[j] # Unknown =>
             IF j <= fs.iFileSize THEN Stands(M, D, j, contents[j])
             ELSE contents[j] = NoFile
      BY <2>1 DEF Promises
    <3> QED
      BY <2>1, <3>1, SettledKnown
  <2> QED
    BY <2>2, <2>3, <2>4, <2>5 DEF LeadsTo
<1>9. SavedLeads
  BY <1>1, <1>3, <1>8 DEF SavedLeads
<1>10. NextLeads
  BY <1>1, <1>3, <1>8 DEF NextLeads
<1>11. FirstKept
  <2>1. \A j \in INums : j # ROOT_DIRECTORY_INUM => contents[j] = NoFile
    BY <1>1 DEF Init
  <2> QED
    BY <1>1, <1>3, <2>1 DEF FirstKept
<1> QED
  BY <1>1, <1>4, <1>6, <1>7, <1>9, <1>10, <1>11 DEF MountInv, Mounting

\* A request that left the flash alone changes nothing of what is remembered,
\* and one that did not has left file i torn.
LEMMA ServeKept == MountInv /\ Serve => MountInv'
<1> SUFFICES ASSUME MountInv, Serve PROVE MountInv'
  OBVIOUS
<1>1. up /\ Running /\ up' = up
  BY DEF Serve
<1>2. /\ TypeInv /\ FilesKept /\ Shape(fs) /\ Pin(fs) /\ NextLeads /\ FirstKept
      /\ SavedLeads
  BY <1>1 DEF MountInv, Mounting, Running
<1>3. PICK i \in INums : Request(i) /\ Remember(i)
  BY DEF Serve
<1> DEFINE C == [contents EXCEPT ![i] = Unknown]
           torn == [k \in INums |-> IF k = i THEN {Unknown} ELSE {contents[k]}]
<1>4. Carried(fs, C, fs')
  BY <1>2, <1>3, RequestCarried
<1>5. TypeInv' /\ (FilesKept \/ Refused(fs))'
  BY <1>2, <1>3, RequestTyped, RequestKept
<1>6. FsTyped(fs') /\ DOMAIN past' = {"ckpt", "saved"}
  BY <1>3, <1>5 DEF TypeInv, Remember
<1>7. Shape(fs') /\ Pin(fs')
  BY <1>4 DEF Carried
<1>8. (up /\ Running)' => FilesKept' /\ ~ Refused(fs')
  BY <1>5 DEF Running, Refused
<1>9. torn = [k \in INums |-> {C[k]}]
  BY <1>2 DEF TypeInv, ContentsTyped
<1>10. C[ROOT_DIRECTORY_INUM] \in torn[ROOT_DIRECTORY_INUM] /\ ROOT_DIRECTORY_INUM \in INums
  BY <1>9, FirstFacts DEF ROOT_DIRECTORY_INUM
<1>11. CASE /\ fs'.media = fs.media /\ fs'.saved = fs.saved
            /\ fs'.partial <=> fs.partial
            /\ "dirty" \in fs'.lapses \/ fs'.ckptINode = fs.ckptINode
  <2>1. past'.ckpt = past.ckpt /\ past'.saved = [k \in INums |-> past.saved[k]]
    BY <1>3, <1>11 DEF Remember
  <2>2. OnMedia(fs') = OnMedia(fs)
    BY <1>11 DEF OnMedia
  <2>3. SavedLeads'
    BY <1>2, <1>11, <2>1, <2>2 DEF SavedLeads
  <2>4. "dirty" \notin fs'.lapses => NextLeads'
    BY <1>2, <1>11, <2>1, <2>2 DEF NextLeads
  <2>5. FirstKept'
    BY <1>2, <1>11, <2>1 DEF FirstKept
  <2> QED
    BY <1>5, <1>6, <1>7, <1>8, <2>3, <2>4, <2>5 DEF MountInv, Mounting
<1>12. CASE /\ Filled(fs, fs') /\ ~ fs'.partial
            /\ "dirty" \in fs'.lapses \/ LeadsTo(OnMedia(fs'), fs'.ckptINode, C)
            /\ fs.partial \/ Retains(OnMedia(fs), OnMedia(fs'))
            /\ \/ /\ fs'.saved = fs.saved
                  /\ fs.partial => LeadsTo(OnMedia(fs'), FirstINode, FirstOnly(C))
               \/ LeadsTo(OnMedia(fs'), fs'.saved.root, C)
  <2>1. fs'.media # fs.media
    BY <1>12 DEF Filled, OnMedia
  <2>2. /\ past'.ckpt = torn
        /\ fs'.saved # fs.saved => past'.saved = torn
        /\ fs'.saved = fs.saved =>
              past'.saved = [k \in INums |->
                               past.saved[k] \cup (IF fs.partial THEN torn[k] ELSE {})]
    BY <1>3, <2>1 DEF Remember
  <2> HIDE DEF C
  <2>3. torn = [k \in INums |-> {C[k]}]
    BY <1>9
  <2> HIDE DEF torn
  <2>4. "dirty" \notin fs'.lapses => NextLeads'
    BY <1>12, <2>2, <2>3 DEF NextLeads
  <2>5. FirstKept'
    BY <1>12 DEF FirstKept
  <2>6. SavedLeads'
    <3>1. CASE fs'.saved # fs.saved
      BY <1>12, <2>2, <2>3, <3>1 DEF SavedLeads
    <3>2. CASE fs'.saved = fs.saved /\ fs.partial
      <4>1. CASE LeadsTo(OnMedia(fs'), FirstINode, FirstOnly(C))
        <5>1. fs'.saved.root = FirstINode
          BY <1>2, <3>2 DEF FirstKept
        <5>2. ASSUME NEW j \in INums PROVE FirstOnly(C)[j] \in past'.saved[j]
          BY <1>2, <2>2, <2>3, <3>2 DEF FirstOnly, FirstKept
        <5> QED
          BY <4>1, <5>1, <5>2 DEF SavedLeads
      <4>2. CASE LeadsTo(OnMedia(fs'), fs'.saved.root, C)
        <5>1. \A j \in INums : C[j] \in past'.saved[j]
          BY <2>2, <2>3, <3>2
        <5> QED
          BY <4>2, <5>1 DEF SavedLeads
      <4> QED
        BY <1>12, <3>2, <4>1, <4>2
    <3>3. CASE fs'.saved = fs.saved /\ ~ fs.partial
      <4>1. PICK S : /\ \A j \in INums : S[j] \in past.saved[j]
                     /\ LeadsTo(OnMedia(fs), fs.saved.root, S)
        BY <1>2 DEF SavedLeads
      <4>2. LeadsTo(OnMedia(fs'), fs'.saved.root, S)
        BY <1>12, <3>3, <4>1, LeadsToKept
      <4>3. \A j \in INums : S[j] \in past'.saved[j]
        BY <2>2, <3>3, <4>1
      <4> QED
        BY <4>2, <4>3 DEF SavedLeads
    <3> QED
      BY <3>1, <3>2, <3>3
  <2> QED
    BY <1>5, <1>6, <1>7, <1>8, <2>4, <2>5, <2>6 DEF MountInv, Mounting
<1> QED
  BY <1>4, <1>11, <1>12 DEF Carried

\* The inode that was kept goes into the checkpoint, with the versions that it
\* leads to, unless it is that of a segment that was refused.
LEMMA UnmountKept == MountInv /\ Unmount => MountInv'
<1> SUFFICES ASSUME MountInv, Unmount PROVE MountInv'
  OBVIOUS
<1> DEFINE n == CheckpointNow(fs)
<1>1. /\ FsTyped(fs) /\ up /\ ~ up' /\ DOMAIN past = {"ckpt", "saved"}
      /\ fs' = Destructed(fs) /\ past' = [past EXCEPT !.saved = past.ckpt]
  BY DEF Unmount, MountInv
<1>2. FsTyped(n) /\ FsTyped(fs')
  BY <1>1, CheckpointFollows, LapseFollows DEF Follows, Destructed
<1>3. n.media = fs.media /\ n.saved.root = fs.ckptINode
  BY <1>1 DEF CheckpointNow, FsTyped, StateFields
<1>4. past'.saved = past.ckpt /\ DOMAIN past' = {"ckpt", "saved"}
  BY <1>1
<1>5. CASE "dirty" \in fs.lapses
  <2>1. fs' = Lapse(n, "misled")
    BY <1>1, <1>5 DEF Destructed
  <2> HIDE DEF n
  <2>2. "misled" \in fs'.lapses
    BY <1>2, <2>1 DEF Lapse, FsTyped, StateFields
  <2> QED
    BY <1>1, <1>2, <1>4, <2>2 DEF MountInv
<1>6. CASE "dirty" \notin fs.lapses
  <2>1. fs' = n
    BY <1>1, <1>6 DEF Destructed
  <2>2. PICK K : /\ past.ckpt = [j \in INums |-> {K[j]}]
                 /\ LeadsTo(OnMedia(fs), fs.ckptINode, K)
    BY <1>1, <1>6 DEF MountInv, NextLeads
  <2> HIDE DEF n
  <2>3. OnMedia(fs') = OnMedia(fs)
    BY <1>3, <2>1 DEF OnMedia
  <2>4. \A j \in INums : K[j] \in past'.saved[j]
    BY <1>4, <2>2
  <2>5. SavedLeads'
    BY <1>3, <2>1, <2>2, <2>3, <2>4 DEF SavedLeads
  <2> QED
    BY <1>1, <1>2, <1>4, <2>5 DEF MountInv
<1> QED
  BY <1>5, <1>6

\* What the checkpoint on flash leads to, at every moment of a mount and after
\* it ended, whenever that was: every file as it was when the last segment
\* before the checkpoint was written, except one that was being changed.  A
\* checkpoint that the destructor took after a segment was refused is left out.
THEOREM CheckpointLeadsToTheFiles == OneMountSpec => []SavedFilesIntact
<1>1. MountInv /\ [OneMountNext]_remountVars => MountInv'
  <2> SUFFICES ASSUME MountInv, [OneMountNext]_remountVars PROVE MountInv'
    OBVIOUS
  <2>1. CASE Crash
    BY <2>1 DEF Crash, MountInv, SavedLeads, FsTyped
  <2>2. CASE UNCHANGED remountVars
    <3>1. fs' = fs /\ contents' = contents /\ up' = up /\ past' = past
      BY <2>2 DEF remountVars, vars
    <3>2. TypeInv => TypeInv'
      BY <3>1 DEF TypeInv, FsTyped, ContentsTyped, Promised, Files
    <3>3. FilesKept => FilesKept'
      BY <3>1 DEF FilesKept, Promises
    <3> QED
      BY <3>1, <3>2, <3>3
      DEF MountInv, Mounting, SavedLeads, NextLeads, FirstKept, Running
  <2> QED
    BY <2>1, <2>2, ServeKept, UnmountKept DEF OneMountNext, Step
<1> QED
  BY <1>1, MountInvInit, MountInvSafe, PTL DEF OneMountSpec
=============================================================================
