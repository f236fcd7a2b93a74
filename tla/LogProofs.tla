----------------------------- MODULE LogProofs -----------------------------
(***************************************************************************)
(* Proofs about the log layer, for every geometry of the flash, every      *)
(* cache size and checkpoint interval, and every set of client blocks.     *)
(* First about one mount, the specification of Log; then about many, with  *)
(* any number of crashes, unmountings and mountings, the specification of  *)
(* LogRecovery: what a mount recovers is on flash, and stays there.        *)
(***************************************************************************)
EXTENDS LogRecovery, CacheQueueProofs, FiniteSetTheorems

\* The inductive invariant.  The usage counts are right only because a
\* block's place on flash identifies its owner (LiveStored), and a place is
\* kept only because its segment is counted as in use (UsageCoversLive).
LogInv == TypeOK /\ UsageCoversLive /\ LiveStored

----------------------------------------------------------------------------
(* The operators the actions are built from.                               *)

LEMMA SegmentFacts ==
    /\ DataSegments \subseteq Nat
    /\ DataSegments \subseteq Segments
    /\ TableSegment \in Segments
    /\ FirstSegment \in DataSegments
    /\ FLASH_FULL \notin DataSegments
    /\ FLASH_FULL \in Nat
    /\ \A s \in DataSegments : s >= 1 /\ s < FlashSize
BY LogAssumption DEF DataSegments, Segments, TableSegment, FirstSegment, FLASH_FULL

LEMMA CkptSectorsPositive == CkptSectors \in Nat \ {0}
BY LogAssumption, SMTT(30) DEF CkptSectors

LEMMA EmptyBlockIsEmpty ==
    ASSUME NEW slots \in Slots
    PROVE  /\ EmptyBlock(slots) \in 0 .. SegBlocks
           /\ EmptyBlock(slots) # 0 => slots[EmptyBlock(slots)] = NO_INUM
           /\ \A c \in 1 .. SegBlocks :
                 EmptyBlock(slots) = 0 \/ c < EmptyBlock(slots) => slots[c] # NO_INUM
<1>1. CASE \E b \in 1 .. SegBlocks : slots[b] = NO_INUM
  <2> DEFINE T == {b \in 1 .. SegBlocks : slots[b] = NO_INUM}
  <2>1. T \subseteq Nat /\ T # {}
    BY <1>1
  <2> HIDE DEF T
  <2>2. PICK b \in T : \A c \in T : b <= c
    BY <2>1, LeastNat
  <2>3. /\ b \in 1 .. SegBlocks
        /\ slots[b] = NO_INUM
        /\ \A c \in 1 .. b - 1 : slots[c] # NO_INUM
    BY <2>2, LogAssumption DEF T
  <2> DEFINE e == EmptyBlock(slots)
  <2>4. /\ e \in 1 .. SegBlocks
        /\ slots[e] = NO_INUM
        /\ \A c \in 1 .. e - 1 : slots[c] # NO_INUM
    BY <1>1, <2>3 DEF EmptyBlock
  <2> HIDE DEF e
  <2>5. e # 0
    BY <2>4, LogAssumption
  <2>6. ASSUME NEW c \in 1 .. SegBlocks, c < e PROVE slots[c] # NO_INUM
    BY <2>4, <2>6, LogAssumption
  <2> QED BY <2>4, <2>5, <2>6, LogAssumption DEF e
<1>2. CASE ~ \E b \in 1 .. SegBlocks : slots[b] = NO_INUM
  BY <1>2, LogAssumption DEF EmptyBlock
<1> QED BY <1>1, <1>2

LEMMA CleanSegmentIsClean ==
    ASSUME NEW u \in Usage
    PROVE  /\ GetCleanSegment(u) \in DataSegments \cup {FLASH_FULL}
           /\ GetCleanSegment(u) \in DataSegments => u[GetCleanSegment(u)] = 0
           /\ \A s \in DataSegments :
                 GetCleanSegment(u) = FLASH_FULL \/ s < GetCleanSegment(u) => u[s] # 0
<1>1. CASE \E s \in DataSegments : u[s] = 0
  <2> DEFINE T == {s \in DataSegments : u[s] = 0}
  <2>1. T \subseteq Nat /\ T # {}
    BY <1>1, SegmentFacts
  <2> HIDE DEF T
  <2>2. PICK s \in T : \A t \in T : s <= t
    BY <2>1, LeastNat
  <2>3. /\ s \in DataSegments
        /\ u[s] = 0
        /\ \A t \in FirstSegment .. s - 1 : u[t] # 0
    BY <2>2, LogAssumption DEF T, DataSegments, FirstSegment
  <2> DEFINE g == GetCleanSegment(u)
  <2>4. /\ g \in DataSegments
        /\ u[g] = 0
        /\ \A t \in FirstSegment .. g - 1 : u[t] # 0
    BY <1>1, <2>3 DEF GetCleanSegment
  <2> HIDE DEF g
  <2>5. g # FLASH_FULL
    BY <2>4, SegmentFacts
  <2>6. ASSUME NEW t \in DataSegments, t < g PROVE u[t] # 0
    BY <2>4, <2>6, LogAssumption DEF DataSegments, FirstSegment
  <2> QED BY <2>4, <2>5, <2>6 DEF g
<1>2. CASE ~ \E s \in DataSegments : u[s] = 0
  BY <1>2, SegmentFacts DEF GetCleanSegment
<1> QED BY <1>1, <1>2

\* Sets of blocks of a segment are finite and at most SegBlocks large.
LEMMA BlockSets ==
    ASSUME NEW B, B \subseteq 1 .. SegBlocks
    PROVE  /\ IsFiniteSet(B)
           /\ Cardinality(B) \in 0 .. SegBlocks
           /\ \A A : A \subseteq B => Cardinality(A) <= Cardinality(B)
           /\ \A A : A \subseteq B => Cardinality(A) \in Nat
           /\ B # {} => Cardinality(B) > 0
<1>1. /\ IsFiniteSet(1 .. SegBlocks)
      /\ Cardinality(1 .. SegBlocks) = SegBlocks
  BY FS_Interval, LogAssumption
<1>2. IsFiniteSet(B) /\ Cardinality(B) <= SegBlocks
  BY <1>1, FS_Subset
<1>3. Cardinality(B) \in Nat
  BY <1>2, FS_CardinalityType
<1>4. \A A : A \subseteq B => Cardinality(A) <= Cardinality(B) /\ IsFiniteSet(A)
  BY <1>2, FS_Subset
<1>5. \A A : A \subseteq B => Cardinality(A) \in Nat
  BY <1>4, FS_CardinalityType
<1>6. B # {} => Cardinality(B) # 0
  BY <1>2, FS_EmptySet
<1> QED BY <1>2, <1>3, <1>4, <1>5, <1>6, LogAssumption

LEMMA LiveBlocksCounts ==
    ASSUME NEW slots \in Slots
    PROVE  /\ LiveBlocks(slots) \in 0 .. SegBlocks
           /\ \A A : A \subseteq {b \in 1 .. SegBlocks : slots[b] # NO_INUM} =>
                        Cardinality(A) <= LiveBlocks(slots)
           /\ (\E b \in 1 .. SegBlocks : slots[b] # NO_INUM) => LiveBlocks(slots) > 0
<1> DEFINE B == {b \in 1 .. SegBlocks : slots[b] # NO_INUM}
<1>1. B \subseteq 1 .. SegBlocks
  OBVIOUS
<1>2. (\E b \in 1 .. SegBlocks : slots[b] # NO_INUM) => B # {}
  OBVIOUS
<1>3. LiveBlocks(slots) = Cardinality(B)
  BY DEF LiveBlocks
<1> HIDE DEF B
<1>4. /\ Cardinality(B) \in 0 .. SegBlocks
      /\ \A A : A \subseteq B => Cardinality(A) <= Cardinality(B)
      /\ B # {} => Cardinality(B) > 0
  BY <1>1, BlockSets
<1> QED BY <1>2, <1>3, <1>4 DEF B

\* The flash calls keep the device well formed and no block above its limit.
LEMMA EraseType ==
    ASSUME NEW n \in Nand, NEW s \in Segments, NEW bs \in SUBSET EBs,
           \A b \in bs : n.wear[s][b] < WearLimit
    PROVE  Flash_Erase(n, s, bs) \in Nand
<1> DEFINE f == [n.full EXCEPT ![s] = @ \ bs]
           w == [b \in EBs |-> IF b \in bs THEN n.wear[s][b] + 1 ELSE n.wear[s][b]]
           v == [n.wear EXCEPT ![s] = w]
<1>1. /\ n.full \in [Segments -> SUBSET EBs]
      /\ n.wear \in [Segments -> [EBs -> 0 .. WearLimit]]
  BY DEF Nand
<1>2. f \in [Segments -> SUBSET EBs]
  BY <1>1
<1>3. w \in [EBs -> 0 .. WearLimit]
  BY <1>1, LogAssumption
<1>4. v \in [Segments -> [EBs -> 0 .. WearLimit]]
  BY <1>1, <1>3
<1>5. Flash_Erase(n, s, bs) = [full |-> f, wear |-> v]
  BY DEF Flash_Erase
<1> HIDE DEF f, w, v
<1> QED BY <1>2, <1>4, <1>5 DEF Nand

LEMMA NandOps ==
    ASSUME NEW n \in Nand, NEW s \in Segments
    PROVE  /\ eraseSegment(n, s) \in Nand
           /\ Flash_Write(n, s) \in Nand
<1>1. /\ Erasable(n, s) \in SUBSET EBs
      /\ \A b \in Erasable(n, s) : n.wear[s][b] < WearLimit
  BY DEF Erasable, EBs
<1>2. Flash_Write(n, s) \in Nand
  BY DEF Flash_Write, Nand
<1> QED BY <1>1, <1>2, EraseType DEF eraseSegment

LEMMA TableOps ==
    ASSUME NEW n \in Nand
    PROVE  /\ AfterTableWrite(n) \in Nand
           /\ \A u, t \in Usage : WriteSegmentUsageTable(n, u, t) \in Usage
<1>1. TableErased(n) \in Nand
  BY SegmentFacts, NandOps DEF TableErased
<1>2. Flash_Write(TableErased(n), TableSegment) \in Nand
  BY <1>1, SegmentFacts, NandOps
<1> QED BY <1>1, <1>2 DEF AfterTableWrite, WriteSegmentUsageTable

LEMMA StrayEraseType ==
    ASSUME NEW n \in Nand
    PROVE  StrayErase(n) \in Nand
BY SegmentFacts, EraseType DEF StrayErase

LEMMA NextSectorType == TypeOK => NextSector \in 0 .. CkptSectors - 1
<1> SUFFICES ASSUME TypeOK PROVE NextSector \in 0 .. CkptSectors - 1
  OBVIOUS
<1>1. ckptSector + 1 \in Nat
  BY CkptSectorsPositive DEF TypeOK
<1>2. \A m \in Nat, k \in Nat \ {0} : m % k \in 0 .. k - 1
  OBVIOUS
<1> QED BY <1>1, <1>2, CkptSectorsPositive DEF NextSector

LEMMA LastSegmentWrittenType ==
    ASSUME NEW t \in [seg : DataSegments \cup {FLASH_FULL}, slots : Slots],
           NEW p \in BOOLEAN
    PROVE  LastSegmentWritten(t, p) \in Nat
<1>1. t.seg \in DataSegments \/ t.seg = FLASH_FULL
  OBVIOUS
<1>2. FLASH_FULL \in Nat /\ FLASH_FULL >= 1
  BY LogAssumption DEF FLASH_FULL
<1>3. t.seg \in Nat /\ t.seg >= 1
  BY <1>1, <1>2, SegmentFacts
<1> QED BY <1>3 DEF LastSegmentWritten

\* CheckpointNow and NoCheckpoint keep what they assign well formed.
LEMMA CheckpointType ==
    ASSUME TypeOK, NEW n \in Nand, NEW w \in 0 .. Interval,
           \/ NoCheckpoint(n, w)
           \/ \E t \in [seg : DataSegments \cup {FLASH_FULL}, slots : Slots],
                 p \in BOOLEAN, i \in INode : CheckpointNow(n, t, p, i, w)
    PROVE  /\ nand' \in Nand
           /\ used' \in SUBSET (0 .. CkptSectors - 1)
           /\ saved' \in [last : Nat, root : INode, sector : 0 .. CkptSectors - 1]
           /\ ckptSector' \in 0 .. CkptSectors - 1
           /\ writesSinceLastCheckpoint' \in 0 .. Interval
<1>1. CASE NoCheckpoint(n, w)
  BY <1>1 DEF NoCheckpoint, TypeOK
<1>2. ASSUME NEW t \in [seg : DataSegments \cup {FLASH_FULL}, slots : Slots],
             NEW p \in BOOLEAN, NEW i \in INode,
             CheckpointNow(n, t, p, i, w)
      PROVE  /\ nand' \in Nand
             /\ used' \in SUBSET (0 .. CkptSectors - 1)
             /\ saved' \in [last : Nat, root : INode, sector : 0 .. CkptSectors - 1]
             /\ ckptSector' \in 0 .. CkptSectors - 1
             /\ writesSinceLastCheckpoint' \in 0 .. Interval
  <2>1. NextSector \in 0 .. CkptSectors - 1
    BY NextSectorType
  <2>2. StrayErase(n) \in Nand
    BY StrayEraseType
  <2>3. LastSegmentWritten(t, p) \in Nat
    BY LastSegmentWrittenType
  <2>4. [last |-> LastSegmentWritten(t, p), root |-> i, sector |-> NextSector]
            \in [last : Nat, root : INode, sector : 0 .. CkptSectors - 1]
    BY <2>1, <2>3
  <2>5. 0 \in 0 .. Interval
    BY LogAssumption
  <2> QED BY <1>2, <2>1, <2>2, <2>4, <2>5 DEF CheckpointNow, TypeOK
<1> QED BY <1>1, <1>2

LEMMA SaturateType ==
    ASSUME NEW w \in 0 .. Interval
    PROVE  Saturate(w) \in 0 .. Interval
BY LogAssumption DEF Saturate

LEMMA AddressFields ==
    ASSUME NEW f \in INode, NEW o \in Owners, f[o] # NoAddress
    PROVE  /\ f[o] \in Address
           /\ f[o].seg \in DataSegments
           /\ f[o].blk \in 1 .. SegBlocks
           /\ f[o].val \in Data
BY DEF INode, Address

\* The tail with the new block in place.
LEMMA PlacedFacts ==
    ASSUME TypeOK, NEW o \in Owners, NEW d \in Data,
           EmptyBlock(tail.slots) # 0
    PROVE  /\ EmptyBlock(tail.slots) \in 1 .. SegBlocks
           /\ tail.slots[EmptyBlock(tail.slots)] = NO_INUM
           /\ Placed(o, d).seg = tail.seg
           /\ Placed(o, d).slots \in Slots
           /\ Placed(o, d) \in [seg : DataSegments \cup {FLASH_FULL}, slots : Slots]
           /\ Placed(o, d).slots[EmptyBlock(tail.slots)] = [own |-> o, val |-> d]
           /\ \A b \in 1 .. SegBlocks :
                 b # EmptyBlock(tail.slots) =>
                    Placed(o, d).slots[b] = tail.slots[b]
<1> DEFINE e == EmptyBlock(tail.slots)
           new == [tail.slots EXCEPT ![e] = [own |-> o, val |-> d]]
<1>1. tail.slots \in Slots /\ tail.seg \in DataSegments \cup {FLASH_FULL}
  BY DEF TypeOK
<1>2. e \in 1 .. SegBlocks /\ tail.slots[e] = NO_INUM
  BY <1>1, EmptyBlockIsEmpty, LogAssumption
<1>3. Placed(o, d) = [seg |-> tail.seg, slots |-> new]
  BY DEF Placed, TypeOK
<1> HIDE DEF e
<1>4. /\ new \in Slots
      /\ new[e] = [own |-> o, val |-> d]
      /\ \A b \in 1 .. SegBlocks : b # e => new[b] = tail.slots[b]
  BY <1>1, <1>2 DEF Slots, Slot
<1> HIDE DEF new
<1> QED BY <1>1, <1>2, <1>3, <1>4 DEF e

\* No owner's block is at an empty place of the tail.
LEMMA EmptyIsNotLive ==
    ASSUME TypeOK, LiveStored, NEW p \in Owners,
           blocks[p] # NoAddress, blocks[p].seg = tail.seg
    PROVE  tail.slots[blocks[p].blk] # NO_INUM
<1>1. blocks[p].val \in Data
  BY AddressFields DEF TypeOK
<1>2. tail.slots[blocks[p].blk] = [own |-> p, val |-> blocks[p].val]
  BY DEF LiveStored
<1> QED BY <1>1, <1>2, LogAssumption DEF Slot

----------------------------------------------------------------------------
(* The invariant holds after mklfs and the first mount.                    *)

LEMMA FirstFacts ==
    /\ FirstSlots \in Slots
    /\ EmptySlots \in Slots
    /\ FirstBlocks \in INode
    /\ FirstUsage \in Usage
    /\ \A o \in Owners : FirstBlocks[o] # NoAddress =>
          /\ FirstBlocks[o].seg = FirstSegment
          /\ FirstSlots[FirstBlocks[o].blk] = [own |-> o, val |-> FirstBlocks[o].val]
<1>1. DOMAIN Formatted \subseteq 1 .. SegBlocks - 1
  BY LogAssumption
<1>2. \A b \in DOMAIN Formatted : Formatted[b] \in Slot
  BY LogAssumption
<1>3. FirstSlots \in Slots /\ EmptySlots \in Slots
  BY <1>2 DEF FirstSlots, EmptySlots, Slots
<1>4. FirstUsage \in Usage
  BY LogAssumption DEF FirstUsage, Usage
<1>5. ASSUME NEW o \in Owners
      PROVE  /\ FirstBlocks[o] \in Address \cup {NoAddress}
             /\ FirstBlocks[o] # NoAddress =>
                  /\ FirstBlocks[o].seg = FirstSegment
                  /\ FirstSlots[FirstBlocks[o].blk]
                        = [own |-> o, val |-> FirstBlocks[o].val]
  <2>1. CASE \E b \in DOMAIN Formatted : Formatted[b].own = o
    <3> DEFINE b == CHOOSE b \in DOMAIN Formatted : Formatted[b].own = o
    <3>1. b \in DOMAIN Formatted /\ Formatted[b].own = o
      BY <2>1
    <3>2. FirstBlocks[o] = [seg |-> FirstSegment, blk |-> b, val |-> Formatted[b].val]
      BY <2>1 DEF FirstBlocks
    <3> HIDE DEF b
    <3>3. b \in 1 .. SegBlocks /\ FirstSlots[b] = Formatted[b]
      BY <1>1, <3>1, LogAssumption DEF FirstSlots
    <3>4. Formatted[b] = [own |-> o, val |-> Formatted[b].val] /\ Formatted[b].val \in Data
      BY <1>2, <3>1 DEF Slot
    <3> QED BY <3>2, <3>3, <3>4, SegmentFacts DEF Address
  <2>2. CASE ~ \E b \in DOMAIN Formatted : Formatted[b].own = o
    BY <2>2 DEF FirstBlocks
  <2> QED BY <2>1, <2>2
<1>6. FirstBlocks \in INode
  <2>1. FirstBlocks = [o \in Owners |-> FirstBlocks[o]]
    BY DEF FirstBlocks
  <2> QED BY <1>5, <2>1 DEF INode
<1> QED BY <1>3, <1>4, <1>5, <1>6

LEMMA InitLogInv == Init => LogInv
<1> SUFFICES ASSUME Init PROVE LogInv
  OBVIOUS
<1>1. nand \in Nand
  <2>1. 0 \in EBs
    BY LogAssumption DEF EBs
  <2> QED BY <2>1, LogAssumption DEF Init, mklfs, Nand
<1>2. used \in SUBSET (0 .. CkptSectors - 1) /\ ckptSector \in 0 .. CkptSectors - 1
  BY CkptSectorsPositive DEF Init, mklfs, FirstMount
<1>3. saved \in [last : Nat, root : INode, sector : 0 .. CkptSectors - 1]
  <2>1. 0 \in 0 .. CkptSectors - 1 /\ FirstSegment \in Nat
    BY SegmentFacts, CkptSectorsPositive
  <2> QED BY <2>1, FirstFacts DEF Init, mklfs
<1>4. cache \in Seq([seg : DataSegments, slots : Slots]) /\ Len(cache) <= CacheSize
  BY LogAssumption DEF Init, FirstMount
<1>5. media \in [DataSegments -> Slots]
  BY FirstFacts DEF Init, mklfs
<1>6. TypeOK
  BY <1>1, <1>2, <1>3, <1>4, <1>5, FirstFacts, SegmentFacts, LogAssumption
     DEF Init, mklfs, FirstMount, TypeOK
<1>7. LiveStored
  BY FirstFacts DEF Init, FirstMount, LiveStored
<1>8. UsageCoversLive
  <2> SUFFICES ASSUME NEW s \in DataSegments \ {tail.seg}
               PROVE  Cardinality(LiveIn(s)) <= usage[s] /\ usage[s] <= SegBlocks
    BY DEF UsageCoversLive
  <2>1. s # FirstSegment /\ usage[s] = 0
    BY DEF Init, FirstMount, FirstUsage
  <2>2. LiveIn(s) = {}
    BY <2>1, FirstFacts DEF LiveIn, Init, FirstMount
  <2> QED BY <2>1, <2>2, FS_EmptySet, LogAssumption
<1> QED BY <1>6, <1>7, <1>8 DEF LogInv

----------------------------------------------------------------------------
(* Type correctness.  It needs no other invariant, so it also holds where   *)
(* the usage table does not cover what the client has.                      *)

LEMMA TailIsData ==
    ASSUME TypeOK, tail.seg < FlashSize
    PROVE  tail.seg \in DataSegments
BY LogAssumption DEF TypeOK, FLASH_FULL

\* Taking an address in the tail moves no block of another segment there.
LEMMA AddressedFacts ==
    ASSUME TypeOK, NEW o \in Owners, NEW d \in Data, Addressed(o, d),
           EmptyBlock(tail.slots) # 0, tail.seg \in DataSegments
    PROVE  /\ blocks' \in INode
           /\ blocks'[o] # NoAddress
           /\ blocks'[o].seg = tail.seg
           /\ blocks'[o].blk = EmptyBlock(tail.slots)
           /\ blocks'[o].val = d
           /\ \A p \in Owners : p # o => blocks'[p] = blocks[p]
           /\ \A s \in DataSegments \ {tail.seg} : LiveIn(s)' \subseteq LiveIn(s)
<1> DEFINE a == [seg |-> tail.seg, blk |-> EmptyBlock(tail.slots), val |-> d]
<1>1. EmptyBlock(tail.slots) \in 1 .. SegBlocks
  BY PlacedFacts
<1>2. a \in Address /\ a # NoAddress
  BY <1>1, LogAssumption DEF Address
<1>3. blocks' = [blocks EXCEPT ![o] = a]
  BY DEF Addressed
<1>4. a.seg = tail.seg /\ a.blk = EmptyBlock(tail.slots) /\ a.val = d
  OBVIOUS
<1> HIDE DEF a
<1>5. /\ blocks' \in INode
      /\ blocks'[o] = a
      /\ \A p \in Owners : p # o => blocks'[p] = blocks[p]
  BY <1>2, <1>3 DEF TypeOK, INode
<1>6. \A s \in DataSegments \ {tail.seg} : LiveIn(s)' \subseteq LiveIn(s)
  BY <1>4, <1>5 DEF LiveIn
<1> QED BY <1>2, <1>4, <1>5, <1>6

\* The device the tail is written to, and the one after it.
LEMMA FillDevice ==
    ASSUME TypeOK, tail.seg \in DataSegments
    PROVE  /\ AfterPartialErase \in Nand
           /\ Flash_Write(AfterPartialErase, tail.seg) \in Nand
<1>1. tail.seg \in Segments
  BY SegmentFacts
<1>2. AfterPartialErase \in Nand
  BY <1>1, NandOps DEF AfterPartialErase, TypeOK
<1> QED BY <1>1, <1>2, NandOps

LEMMA FillsTailFacts ==
    ASSUME TypeOK, FillsTail
    PROVE  /\ tail.seg \in DataSegments
           /\ EmptyBlock(tail.slots) = SegBlocks
           /\ EmptyBlock(tail.slots) # 0
BY TailIsData, LogAssumption DEF FillsTail

\* writeSegment's bookkeeping: the recounted segment has the block just placed.
LEMMA SegmentWrittenFacts ==
    ASSUME TypeOK, NEW o \in Owners, NEW d \in Data, NEW n \in Nand,
           SegmentWritten(o, d, n), FillsTail
    PROVE  /\ usage' \in Usage
           /\ table' \in Usage
           /\ ckptINode' \in INode
           /\ iFileINode' \in INode
           /\ recoveredWithPartialSegment' \in BOOLEAN
           /\ usage'[tail.seg] = LiveBlocks(Placed(o, d).slots)
           /\ usage'[tail.seg] \in 1 .. SegBlocks
           /\ \A s \in DataSegments \ {tail.seg} : usage'[s] = usage[s]
<1>1. tail.seg \in DataSegments /\ EmptyBlock(tail.slots) # 0
  BY FillsTailFacts
<1>2. /\ Placed(o, d).seg = tail.seg
      /\ Placed(o, d).slots \in Slots
      /\ EmptyBlock(tail.slots) \in 1 .. SegBlocks
      /\ Placed(o, d).slots[EmptyBlock(tail.slots)] = [own |-> o, val |-> d]
  BY <1>1, PlacedFacts
<1>3. Placed(o, d).slots[EmptyBlock(tail.slots)] # NO_INUM
  BY <1>2, LogAssumption DEF Slot
<1> DEFINE c == LiveBlocks(Placed(o, d).slots)
<1>4. c \in 1 .. SegBlocks
  BY <1>2, <1>3, LiveBlocksCounts, LogAssumption
<1>5. usage' = [usage EXCEPT ![tail.seg] = c]
  BY <1>2 DEF SegmentWritten, Recount
<1> HIDE DEF c
<1>6. /\ usage' \in Usage
      /\ usage'[tail.seg] = c
      /\ \A s \in DataSegments \ {tail.seg} : usage'[s] = usage[s]
  BY <1>1, <1>4, <1>5, LogAssumption DEF TypeOK, Usage
<1>7. table' \in Usage
  BY <1>6, TableOps DEF SegmentWritten, TypeOK
<1>8. /\ ckptINode' \in INode /\ iFileINode' \in INode
      /\ recoveredWithPartialSegment' \in BOOLEAN
  BY DEF SegmentWritten, TypeOK
<1> QED BY <1>4, <1>6, <1>7, <1>8 DEF c

LEMMA EmptySlotsType == EmptySlots \in Slots
BY DEF EmptySlots, Slots

LEMMA FillEraseFailsType ==
    ASSUME TypeOK, NEW o \in Owners, NEW d \in Data, FillEraseFails(o, d)
    PROVE  TypeOK'
<1>1. tail.seg \in DataSegments /\ EmptyBlock(tail.slots) # 0
  BY FillsTailFacts DEF FillEraseFails
<1>2. tail' \in [seg : DataSegments \cup {FLASH_FULL}, slots : Slots]
  BY <1>1, PlacedFacts DEF FillEraseFails
<1>3. nand' \in Nand
  BY <1>1, FillDevice DEF FillEraseFails
<1> QED BY <1>2, <1>3 DEF FillEraseFails, TypeOK

LEMMA FillWriteFailsType ==
    ASSUME TypeOK, NEW o \in Owners, NEW d \in Data, FillWriteFails(o, d)
    PROVE  TypeOK'
<1> DEFINE n == AfterPartialErase
           w == Saturate(writesSinceLastCheckpoint)
<1>1. tail.seg \in DataSegments /\ EmptyBlock(tail.slots) # 0
  BY FillsTailFacts DEF FillWriteFails
<1>2. tail' \in [seg : DataSegments \cup {FLASH_FULL}, slots : Slots]
  BY <1>1, PlacedFacts DEF FillWriteFails
<1>3. n \in Nand
  BY <1>1, FillDevice
<1>4. AfterTableWrite(n) \in Nand
  BY <1>3, TableOps
<1>5. w \in 0 .. Interval
  BY SaturateType DEF TypeOK
<1>6. SegmentWritten(o, d, n) /\ NoCheckpoint(AfterTableWrite(n), w)
  BY DEF FillWriteFails
<1> HIDE DEF n, w
<1>7. /\ usage' \in Usage /\ table' \in Usage
      /\ ckptINode' \in INode /\ iFileINode' \in INode
      /\ recoveredWithPartialSegment' \in BOOLEAN
  BY <1>3, <1>6, SegmentWrittenFacts DEF FillWriteFails
<1>8. /\ nand' \in Nand
      /\ used' \in SUBSET (0 .. CkptSectors - 1)
      /\ saved' \in [last : Nat, root : INode, sector : 0 .. CkptSectors - 1]
      /\ ckptSector' \in 0 .. CkptSectors - 1
      /\ writesSinceLastCheckpoint' \in 0 .. Interval
  BY <1>4, <1>5, <1>6, CheckpointType
<1> QED BY <1>2, <1>7, <1>8 DEF FillWriteFails, TypeOK

\* The segment written and its place in the usage table.
LEMMA WrittenFacts ==
    ASSUME TypeOK, FillsTail, NEW o \in Owners, NEW d \in Data
    PROVE  /\ [media EXCEPT ![tail.seg] = Placed(o, d).slots] \in [DataSegments -> Slots]
           /\ Recount(usage, Placed(o, d)) \in Usage
<1> DEFINE slots == Placed(o, d).slots
<1>1. tail.seg \in DataSegments /\ EmptyBlock(tail.slots) # 0
  BY FillsTailFacts
<1>2. slots \in Slots /\ Placed(o, d).seg = tail.seg
  BY <1>1, PlacedFacts
<1>3. LiveBlocks(slots) \in 0 .. UIntBlocks - 1
  BY <1>2, LiveBlocksCounts, LogAssumption
<1>4. Recount(usage, Placed(o, d)) = [usage EXCEPT ![tail.seg] = LiveBlocks(slots)]
  BY <1>2 DEF Recount
<1> HIDE DEF slots
<1> QED BY <1>1, <1>2, <1>3, <1>4 DEF TypeOK, Usage, slots

LEMMA FillDuplicateType ==
    ASSUME TypeOK, NEW o \in Owners, NEW d \in Data, FillDuplicate(o, d)
    PROVE  TypeOK'
<1> DEFINE n == Flash_Write(AfterPartialErase, tail.seg)
           u == Recount(usage, Placed(o, d))
<1>1. tail.seg \in DataSegments
  BY FillsTailFacts DEF FillDuplicate
<1>2. n \in Nand
  BY <1>1, FillDevice
<1>3. media' \in [DataSegments -> Slots] /\ u \in Usage
  BY WrittenFacts DEF FillDuplicate
<1>4. nand' = AfterTableWrite(n) /\ table' = WriteSegmentUsageTable(n, u, table)
  BY DEF FillDuplicate
<1> HIDE DEF n, u
<1>5. nand' \in Nand /\ table' \in Usage
  BY <1>2, <1>3, <1>4, TableOps DEF TypeOK
<1> QED BY <1>3, <1>5 DEF FillDuplicate, memoryVars, TypeOK

LEMMA FillWrittenType ==
    ASSUME TypeOK, NEW o \in Owners, NEW d \in Data, FillWritten(o, d)
    PROVE  TypeOK'
<1> DEFINE n == Flash_Write(AfterPartialErase, tail.seg)
           w == Saturate(writesSinceLastCheckpoint)
           new == Placed(o, d)
<1>1. tail.seg \in DataSegments /\ EmptyBlock(tail.slots) # 0 /\ FillsTail
  BY FillsTailFacts DEF FillWritten
<1>2. new \in [seg : DataSegments, slots : Slots]
  BY <1>1, PlacedFacts
<1>3. blocks' \in INode
  BY <1>1, AddressedFacts DEF FillWritten
<1>4. n \in Nand /\ AfterTableWrite(n) \in Nand
  BY <1>1, FillDevice, TableOps
<1>5. w \in 0 .. Interval
  BY SaturateType DEF TypeOK
<1>6. media' \in [DataSegments -> Slots]
  BY WrittenFacts DEF FillWritten
<1>7. /\ SegmentWritten(o, d, n)
      /\ cache' = putEntry(cache, new, CacheSize)
      /\ tail' = Build(GetCleanSegment(usage'))
      /\ IF w >= Interval
           THEN CheckpointNow(AfterTableWrite(n), tail', FALSE, iFileINode, w)
           ELSE NoCheckpoint(AfterTableWrite(n), w)
      /\ rc' = 0 /\ up' = up
  BY DEF FillWritten
<1> HIDE DEF n, w, new
<1>8. /\ usage' \in Usage /\ table' \in Usage
      /\ ckptINode' \in INode /\ iFileINode' \in INode
      /\ recoveredWithPartialSegment' \in BOOLEAN
  BY <1>1, <1>4, <1>7, SegmentWrittenFacts
<1>9. tail' \in [seg : DataSegments \cup {FLASH_FULL}, slots : Slots]
  BY <1>7, <1>8, CleanSegmentIsClean, EmptySlotsType DEF Build
<1>10. /\ nand' \in Nand
       /\ used' \in SUBSET (0 .. CkptSectors - 1)
       /\ saved' \in [last : Nat, root : INode, sector : 0 .. CkptSectors - 1]
       /\ ckptSector' \in 0 .. CkptSectors - 1
       /\ writesSinceLastCheckpoint' \in 0 .. Interval
  <2>1. iFileINode \in INode /\ FALSE \in BOOLEAN
    BY DEF TypeOK
  <2> QED BY <1>4, <1>5, <1>7, <1>9, <2>1, CheckpointType
<1>11. /\ cache' \in Seq([seg : DataSegments, slots : Slots])
       /\ Len(cache') <= CacheSize
  BY <1>2, <1>7, putEntryType, LogAssumption DEF TypeOK
<1> QED BY <1>3, <1>6, <1>7, <1>8, <1>9, <1>10, <1>11 DEF TypeOK

LEMMA Log_WriteType ==
    ASSUME TypeOK, NEW o \in Owners, NEW d \in Data, Log_Write(o, d)
    PROVE  TypeOK'
<1>1. CASE WriteToFullFlash(o, d)
  BY <1>1 DEF WriteToFullFlash, flashVars, TypeOK
<1>2. CASE WriteWithoutEmptyBlock(o, d)
  BY <1>2 DEF WriteWithoutEmptyBlock, flashVars, memoryVars, TypeOK
<1>3. CASE WriteBlock(o, d)
  <2>1. tail.seg \in DataSegments /\ EmptyBlock(tail.slots) # 0
    BY <1>3, TailIsData DEF WriteBlock
  <2>2. tail' \in [seg : DataSegments \cup {FLASH_FULL}, slots : Slots]
    BY <1>3, <2>1, PlacedFacts DEF WriteBlock
  <2>3. blocks' \in INode
    BY <1>3, <2>1, AddressedFacts DEF WriteBlock
  <2> QED BY <1>3, <2>2, <2>3 DEF WriteBlock, flashVars, TypeOK
<1> QED BY <1>1, <1>2, <1>3, FillEraseFailsType, FillWriteFailsType, FillDuplicateType,
           FillWrittenType DEF Log_Write

LEMMA Log_FreeType ==
    ASSUME TypeOK, NEW o \in Owners, Log_Free(o)
    PROVE  TypeOK'
<1> DEFINE a == blocks[o]
<1>1. a \in Address /\ a.seg \in DataSegments
  BY AddressFields DEF Log_Free, TypeOK
<1>2. /\ tail' = IF a.seg = tail.seg
                   THEN [tail EXCEPT !.slots = [@ EXCEPT ![a.blk] = NO_INUM]]
                   ELSE tail
      /\ usage' = [usage EXCEPT ![a.seg] = (@ + UIntBlocks - 1) % UIntBlocks]
      /\ blocks' = [blocks EXCEPT ![o] = NoAddress]
      /\ UNCHANGED <<media, nand, table, used, saved, up, cache, iFileINode,
                     ckptINode, ckptSector, recoveredWithPartialSegment,
                     writesSinceLastCheckpoint, rc>>
  BY DEF Log_Free, flashVars
<1> HIDE DEF a
<1>3. (usage[a.seg] + UIntBlocks - 1) % UIntBlocks \in 0 .. UIntBlocks - 1
  <2>1. \A m \in Nat, k \in Nat \ {0} : m % k \in 0 .. k - 1
    OBVIOUS
  <2>2. usage[a.seg] + UIntBlocks - 1 \in Nat
    BY <1>1, LogAssumption DEF TypeOK, Usage
  <2>3. UIntBlocks \in Nat \ {0}
    BY LogAssumption
  <2> QED BY <2>1, <2>2, <2>3
<1>4. usage' \in Usage
  BY <1>1, <1>2, <1>3 DEF TypeOK, Usage
<1>5. tail' \in [seg : DataSegments \cup {FLASH_FULL}, slots : Slots]
  <2>1. [tail.slots EXCEPT ![a.blk] = NO_INUM] \in Slots
    BY DEF TypeOK, Slots
  <2> QED BY <1>2, <2>1 DEF TypeOK
<1>6. blocks' \in INode
  BY <1>2 DEF TypeOK, INode
<1> QED BY <1>2, <1>4, <1>5, <1>6 DEF TypeOK

LEMMA Log_ReadType ==
    ASSUME TypeOK, NEW o \in Owners, Log_Read(o)
    PROVE  TypeOK'
<1> DEFINE s == blocks[o].seg
           C == [seg : DataSegments, slots : Slots]
<1>1. s \in DataSegments
  BY AddressFields DEF Log_Read, TypeOK
<1>2. cache \in Seq(C) /\ Len(cache) <= CacheSize
  BY DEF TypeOK
<1>3. cache' = IF containsEntry(cache, s) THEN getEntry(cache, s)
               ELSE IF s = tail.seg THEN cache
               ELSE putEntry(cache, [seg |-> s, slots |-> media[s]], CacheSize)
  BY DEF Log_Read
<1>4. [seg |-> s, slots |-> media[s]] \in C
  BY <1>1 DEF TypeOK
<1> HIDE DEF C, s
<1>5. cache' \in Seq(C) /\ Len(cache') <= CacheSize
  <2>1. CASE containsEntry(cache, s)
    BY <1>2, <1>3, <2>1, getEntryType
  <2>2. CASE ~ containsEntry(cache, s) /\ s = tail.seg
    BY <1>2, <1>3, <2>2
  <2>3. CASE ~ containsEntry(cache, s) /\ s # tail.seg
    BY <1>2, <1>3, <1>4, <2>3, putEntryType, LogAssumption
  <2> QED BY <2>1, <2>2, <2>3
<1>6. up' \in BOOLEAN
  BY DEF Log_Read
<1> QED BY <1>5, <1>6 DEF Log_Read, flashVars, TypeOK, C

LEMMA UpdateIFileINodeType ==
    ASSUME TypeOK, UpdateIFileINode
    PROVE  TypeOK'
BY DEF UpdateIFileINode, flashVars, TypeOK

LEMMA EraseAndInvalidateType ==
    ASSUME TypeOK, NEW s \in DataSegments, EraseAndInvalidate(s)
    PROVE  TypeOK'
<1> DEFINE n == eraseSegment(nand, s)
           C == [seg : DataSegments, slots : Slots]
<1>1. n \in Nand /\ AfterTableWrite(n) \in Nand
  BY SegmentFacts, NandOps, TableOps DEF TypeOK
<1>2. [usage EXCEPT ![s] = 0] \in Usage
  BY LogAssumption DEF TypeOK, Usage
<1>3. /\ nand' \in Nand /\ table' \in Usage
      /\ rc' \in {0, 1}
      /\ usage' \in Usage
  BY <1>1, <1>2, TableOps DEF EraseAndInvalidate, TypeOK
<1>4. cache' \in Seq(C) /\ Len(cache') <= CacheSize
  <2>1. cache \in Seq(C) /\ Len(cache) <= CacheSize
    BY DEF TypeOK
  <2>2. cache' = invalidateEntry(cache, s)
    BY DEF EraseAndInvalidate
  <2> HIDE DEF C
  <2> QED BY <2>1, <2>2, invalidateEntryType, LogAssumption
<1> QED BY <1>3, <1>4 DEF EraseAndInvalidate, TypeOK

----------------------------------------------------------------------------
(* Every action preserves the invariant.                                   *)

\* A step that moves no block, keeps the usage counts outside the tail and
\* writes over empty places of the tail only.
LEMMA BlocksKept ==
    ASSUME LogInv, blocks' = blocks, tail'.seg = tail.seg,
           \A s \in DataSegments \ {tail.seg} : media'[s] = media[s],
           \A b \in 1 .. SegBlocks :
               tail.slots[b] # NO_INUM => tail'.slots[b] = tail.slots[b],
           \A s \in DataSegments \ {tail.seg} : usage'[s] = usage[s]
    PROVE  UsageCoversLive' /\ LiveStored'
<1>1. \A s : LiveIn(s)' = LiveIn(s)
  BY DEF LiveIn
<1>2. UsageCoversLive'
  BY <1>1 DEF UsageCoversLive, LogInv
<1>3. LiveStored'
  <2> SUFFICES ASSUME NEW o \in Owners, blocks[o] # NoAddress
               PROVE  (IF blocks[o].seg = tail.seg THEN tail'.slots
                                                   ELSE media'[blocks[o].seg])
                          [blocks[o].blk] = [own |-> o, val |-> blocks[o].val]
    BY DEF LiveStored
  <2>1. blocks[o].blk \in 1 .. SegBlocks /\ blocks[o].seg \in DataSegments
    BY AddressFields DEF LogInv, TypeOK
  <2>2. CASE blocks[o].seg = tail.seg
    <3>1. tail.slots[blocks[o].blk] # NO_INUM
      BY <2>2, EmptyIsNotLive DEF LogInv
    <3> QED BY <2>1, <2>2, <3>1 DEF LogInv, LiveStored
  <2>3. CASE blocks[o].seg # tail.seg
    BY <2>1, <2>3 DEF LogInv, LiveStored
  <2> QED BY <2>2, <2>3
<1> QED BY <1>2, <1>3

LEMMA WriteToFullFlashStep ==
    ASSUME LogInv, NEW o \in Owners, NEW d \in Data, WriteToFullFlash(o, d)
    PROVE  LogInv'
<1>1. TypeOK'
  BY Log_WriteType DEF Log_Write, LogInv
<1>2. UsageCoversLive' /\ LiveStored'
  BY BlocksKept DEF WriteToFullFlash, flashVars
<1> QED BY <1>1, <1>2 DEF LogInv

LEMMA WriteWithoutEmptyBlockStep ==
    ASSUME LogInv, NEW o \in Owners, NEW d \in Data, WriteWithoutEmptyBlock(o, d)
    PROVE  LogInv'
<1>1. TypeOK'
  BY Log_WriteType DEF Log_Write, LogInv
<1>2. UsageCoversLive' /\ LiveStored'
  BY BlocksKept DEF WriteWithoutEmptyBlock, flashVars, memoryVars
<1> QED BY <1>1, <1>2 DEF LogInv

\* A count that does not grow stays covered.
LEMMA CoveredBySubset ==
    ASSUME LogInv, NEW s \in DataSegments \ {tail.seg}, NEW B, B \subseteq LiveIn(s)
    PROVE  Cardinality(B) \in Nat /\ Cardinality(B) <= usage[s] /\ usage[s] <= SegBlocks
<1>1. LiveIn(s) \subseteq 1 .. SegBlocks
  BY DEF LiveIn
<1>2. /\ Cardinality(B) <= Cardinality(LiveIn(s)) /\ Cardinality(B) \in Nat
      /\ Cardinality(LiveIn(s)) \in 0 .. SegBlocks
  BY <1>1, BlockSets
<1>3. Cardinality(LiveIn(s)) <= usage[s] /\ usage[s] <= SegBlocks
  BY DEF LogInv, UsageCoversLive
<1>4. usage[s] \in Nat
  BY LogAssumption DEF LogInv, TypeOK, Usage
<1> QED BY <1>2, <1>3, <1>4, LogAssumption

LEMMA WriteBlockStep ==
    ASSUME LogInv, NEW o \in Owners, NEW d \in Data, WriteBlock(o, d)
    PROVE  LogInv'
<1> DEFINE e == EmptyBlock(tail.slots)
<1>1. tail.seg \in DataSegments /\ e # 0
  BY TailIsData DEF WriteBlock, LogInv
<1>2. /\ tail'.seg = tail.seg
      /\ e \in 1 .. SegBlocks
      /\ tail.slots[e] = NO_INUM
      /\ tail'.slots[e] = [own |-> o, val |-> d]
      /\ \A b \in 1 .. SegBlocks : b # e => tail'.slots[b] = tail.slots[b]
  BY <1>1, PlacedFacts DEF WriteBlock, LogInv
<1>3. /\ blocks'[o] # NoAddress
      /\ blocks'[o].seg = tail.seg
      /\ blocks'[o].blk = e
      /\ blocks'[o].val = d
      /\ \A p \in Owners : p # o => blocks'[p] = blocks[p]
      /\ \A s \in DataSegments \ {tail.seg} : LiveIn(s)' \subseteq LiveIn(s)
  BY <1>1, AddressedFacts DEF WriteBlock, LogInv
<1> HIDE DEF e
<1>4. TypeOK'
  BY Log_WriteType DEF Log_Write, LogInv
<1>5. UsageCoversLive'
  <2> SUFFICES ASSUME NEW s \in DataSegments \ {tail.seg}
               PROVE  Cardinality(LiveIn(s)') <= usage[s] /\ usage[s] <= SegBlocks
    BY <1>2 DEF UsageCoversLive, WriteBlock
  <2> QED BY <1>3, CoveredBySubset
<1>6. LiveStored'
  <2> SUFFICES ASSUME NEW p \in Owners, blocks'[p] # NoAddress
               PROVE  (IF blocks'[p].seg = tail.seg THEN tail'.slots
                                                    ELSE media[blocks'[p].seg])
                          [blocks'[p].blk] = [own |-> p, val |-> blocks'[p].val]
    BY <1>2 DEF LiveStored, WriteBlock, flashVars
  <2>1. CASE p = o
    BY <1>2, <1>3, <2>1
  <2>2. CASE p # o
    <3>1. blocks'[p] = blocks[p] /\ blocks[p].blk \in 1 .. SegBlocks
      BY <1>3, <2>2, AddressFields DEF LogInv, TypeOK
    <3>2. CASE blocks[p].seg = tail.seg
      <4>1. blocks[p].blk # e
        BY <1>2, <3>1, <3>2, EmptyIsNotLive DEF LogInv
      <4> QED BY <1>2, <3>1, <3>2, <4>1 DEF LogInv, LiveStored
    <3>3. CASE blocks[p].seg # tail.seg
      BY <3>1, <3>3 DEF LogInv, LiveStored
    <3> QED BY <3>2, <3>3
  <2> QED BY <2>1, <2>2
<1> QED BY <1>4, <1>5, <1>6 DEF LogInv

LEMMA FillEraseFailsStep ==
    ASSUME LogInv, NEW o \in Owners, NEW d \in Data, FillEraseFails(o, d)
    PROVE  LogInv'
<1>1. EmptyBlock(tail.slots) # 0
  BY FillsTailFacts DEF FillEraseFails, LogInv
<1>2. /\ tail'.seg = tail.seg
      /\ \A b \in 1 .. SegBlocks :
            tail.slots[b] # NO_INUM => tail'.slots[b] = tail.slots[b]
  BY <1>1, PlacedFacts DEF FillEraseFails, LogInv
<1>3. TypeOK'
  BY FillEraseFailsType DEF LogInv
<1>4. UsageCoversLive' /\ LiveStored'
  BY <1>2, BlocksKept DEF FillEraseFails
<1> QED BY <1>3, <1>4 DEF LogInv

LEMMA FillWriteFailsStep ==
    ASSUME LogInv, NEW o \in Owners, NEW d \in Data, FillWriteFails(o, d)
    PROVE  LogInv'
<1>1. tail.seg \in DataSegments /\ EmptyBlock(tail.slots) # 0
  BY FillsTailFacts DEF FillWriteFails, LogInv
<1>2. /\ tail'.seg = tail.seg
      /\ \A b \in 1 .. SegBlocks :
            tail.slots[b] # NO_INUM => tail'.slots[b] = tail.slots[b]
  BY <1>1, PlacedFacts DEF FillWriteFails, LogInv
<1>3. \A s \in DataSegments \ {tail.seg} : usage'[s] = usage[s]
  <2>1. AfterPartialErase \in Nand /\ SegmentWritten(o, d, AfterPartialErase)
    BY <1>1, FillDevice DEF FillWriteFails, LogInv
  <2> QED BY <2>1, SegmentWrittenFacts DEF FillWriteFails, LogInv
<1>4. TypeOK'
  BY FillWriteFailsType DEF LogInv
<1>5. UsageCoversLive' /\ LiveStored'
  BY <1>2, <1>3, BlocksKept DEF FillWriteFails
<1> QED BY <1>4, <1>5 DEF LogInv

LEMMA FillDuplicateStep ==
    ASSUME LogInv, NEW o \in Owners, NEW d \in Data, FillDuplicate(o, d)
    PROVE  LogInv'
<1>1. \A s \in DataSegments \ {tail.seg} : media'[s] = media[s]
  BY DEF FillDuplicate, LogInv, TypeOK
<1>2. TypeOK'
  BY FillDuplicateType DEF LogInv
<1>3. UsageCoversLive' /\ LiveStored'
  BY <1>1, BlocksKept DEF FillDuplicate, memoryVars
<1> QED BY <1>2, <1>3 DEF LogInv

LEMMA FillWrittenStep ==
    ASSUME LogInv, NEW o \in Owners, NEW d \in Data, FillWritten(o, d)
    PROVE  LogInv'
<1> DEFINE n == Flash_Write(AfterPartialErase, tail.seg)
           e == EmptyBlock(tail.slots)
           new == Placed(o, d)
<1>1. tail.seg \in DataSegments /\ e # 0 /\ FillsTail
  BY FillsTailFacts DEF FillWritten, LogInv
<1>2. /\ new.slots \in Slots
      /\ new \in [seg : DataSegments, slots : Slots]
      /\ e \in 1 .. SegBlocks
      /\ tail.slots[e] = NO_INUM
      /\ new.slots[e] = [own |-> o, val |-> d]
      /\ \A b \in 1 .. SegBlocks : b # e => new.slots[b] = tail.slots[b]
  BY <1>1, PlacedFacts DEF LogInv
<1>3. /\ blocks' \in INode
      /\ blocks'[o] # NoAddress
      /\ blocks'[o].seg = tail.seg
      /\ blocks'[o].blk = e
      /\ blocks'[o].val = d
      /\ \A p \in Owners : p # o => blocks'[p] = blocks[p]
      /\ \A s \in DataSegments \ {tail.seg} : LiveIn(s)' \subseteq LiveIn(s)
  BY <1>1, AddressedFacts DEF FillWritten, LogInv
<1>4. n \in Nand
  BY <1>1, FillDevice DEF LogInv
<1>5. TypeOK'
  BY FillWrittenType DEF LogInv
<1>6. /\ media' = [media EXCEPT ![tail.seg] = new.slots]
      /\ SegmentWritten(o, d, n)
      /\ tail' = Build(GetCleanSegment(usage'))
  BY DEF FillWritten
<1>7. /\ usage' \in Usage
      /\ usage'[tail.seg] = LiveBlocks(new.slots)
      /\ usage'[tail.seg] \in 1 .. SegBlocks
      /\ \A s \in DataSegments \ {tail.seg} : usage'[s] = usage[s]
  BY <1>1, <1>4, <1>6, SegmentWrittenFacts DEF LogInv
<1>8. \A A : A \subseteq {b \in 1 .. SegBlocks : new.slots[b] # NO_INUM} =>
                Cardinality(A) <= LiveBlocks(new.slots)
  BY <1>2, LiveBlocksCounts
<1> HIDE DEF n, e, new
<1>9. tail'.seg \in DataSegments => usage'[tail'.seg] = 0
  BY <1>6, <1>7, CleanSegmentIsClean DEF Build
<1>10. tail'.seg # tail.seg
  BY <1>1, <1>7, <1>9
\* No block of the client is in the segment the new tail reuses.
<1>11. ASSUME NEW p \in Owners, blocks'[p] # NoAddress
       PROVE  blocks'[p].seg # tail'.seg
  <2> SUFFICES ASSUME blocks'[p].seg = tail'.seg PROVE FALSE
    OBVIOUS
  <2>1. blocks'[p].seg \in DataSegments /\ blocks'[p].blk \in 1 .. SegBlocks
    BY <1>3, <1>11, AddressFields
  <2> PICK s \in DataSegments : s = tail'.seg
    BY <2>1
  <2>2. s \in DataSegments \ {tail.seg} /\ usage[s] = 0
    BY <1>7, <1>9, <1>10, <2>1
  <2>3. blocks'[p].blk \in LiveIn(s)'
    BY <1>11, <2>1 DEF LiveIn
  <2>4. LiveIn(s)' \subseteq 1 .. SegBlocks /\ LiveIn(s)' # {}
    BY <2>3 DEF LiveIn
  <2>5. Cardinality(LiveIn(s)') > 0
    BY <2>4, BlockSets
  <2>6. Cardinality(LiveIn(s)') \in Nat /\ Cardinality(LiveIn(s)') <= usage[s]
    BY <1>3, <2>2, CoveredBySubset
  <2> QED BY <2>2, <2>5, <2>6
<1>12. LiveStored'
  <2> SUFFICES ASSUME NEW p \in Owners, blocks'[p] # NoAddress
               PROVE  media'[blocks'[p].seg][blocks'[p].blk]
                         = [own |-> p, val |-> blocks'[p].val]
    BY <1>11 DEF LiveStored
  <2>1. CASE p = o
    BY <1>1, <1>2, <1>3, <1>6, <2>1 DEF LogInv, TypeOK
  <2>2. CASE p # o
    <3>1. /\ blocks'[p] = blocks[p]
          /\ blocks[p].seg \in DataSegments /\ blocks[p].blk \in 1 .. SegBlocks
      BY <1>3, <2>2, AddressFields DEF LogInv, TypeOK
    <3>2. CASE blocks[p].seg = tail.seg
      <4>1. blocks[p].blk # e
        BY <1>2, <3>1, <3>2, EmptyIsNotLive DEF LogInv
      <4>2. media'[tail.seg] = new.slots
        BY <1>1, <1>6 DEF LogInv, TypeOK
      <4> QED BY <1>2, <3>1, <3>2, <4>1, <4>2 DEF LogInv, LiveStored
    <3>3. CASE blocks[p].seg # tail.seg
      <4>1. media'[blocks[p].seg] = media[blocks[p].seg]
        BY <1>6, <3>1, <3>3 DEF LogInv, TypeOK
      <4> QED BY <3>1, <3>3, <4>1 DEF LogInv, LiveStored
    <3> QED BY <3>2, <3>3
  <2> QED BY <2>1, <2>2
<1>13. UsageCoversLive'
  <2> SUFFICES ASSUME NEW s \in DataSegments
               PROVE  Cardinality(LiveIn(s)') <= usage'[s] /\ usage'[s] <= SegBlocks
    BY DEF UsageCoversLive
  <2>1. CASE s = tail.seg
    <3>1. LiveIn(s)' \subseteq {b \in 1 .. SegBlocks : new.slots[b] # NO_INUM}
      <4> SUFFICES ASSUME NEW p \in Owners, blocks'[p] # NoAddress,
                          blocks'[p].seg = tail.seg
                   PROVE  new.slots[blocks'[p].blk] # NO_INUM
        BY <2>1 DEF LiveIn
      <4>1. blocks'[p].val \in Data
        BY <1>3, AddressFields
      <4>2. media'[tail.seg] = new.slots
        BY <1>1, <1>6 DEF LogInv, TypeOK
      <4>3. new.slots[blocks'[p].blk] = [own |-> p, val |-> blocks'[p].val]
        BY <1>10, <1>12, <4>2 DEF LiveStored
      <4> QED BY <4>1, <4>3, LogAssumption DEF Slot
    <3>2. usage'[s] \in 1 .. SegBlocks
      BY <1>7, <2>1
    <3> QED BY <1>7, <1>8, <2>1, <3>1, <3>2
  <2>2. CASE s # tail.seg
    BY <1>3, <1>7, <2>2, CoveredBySubset
  <2> QED BY <2>1, <2>2
<1> QED BY <1>5, <1>12, <1>13 DEF LogInv

\* Counting down modulo 2^32 is counting down, above zero.
LEMMA CountDown ==
    ASSUME NEW u \in 1 .. SegBlocks
    PROVE  (u + UIntBlocks - 1) % UIntBlocks = u - 1
<1>1. \A k \in Nat \ {0} : \A m \in 0 .. k - 1 : (m + k) % k = m
  OBVIOUS
<1>2. u - 1 \in 0 .. UIntBlocks - 1 /\ UIntBlocks \in Nat \ {0}
  BY LogAssumption
<1>3. u + UIntBlocks - 1 = (u - 1) + UIntBlocks
  BY LogAssumption
<1> QED BY <1>1, <1>2, <1>3

LEMMA Log_FreeStep ==
    ASSUME LogInv, NEW o \in Owners, Log_Free(o)
    PROVE  LogInv'
<1> DEFINE a == blocks[o]
<1>1. /\ a # NoAddress
      /\ a.seg \in DataSegments /\ a.blk \in 1 .. SegBlocks /\ a.val \in Data
  BY AddressFields DEF Log_Free, LogInv, TypeOK
<1>2. /\ tail' = IF a.seg = tail.seg
                   THEN [tail EXCEPT !.slots = [@ EXCEPT ![a.blk] = NO_INUM]]
                   ELSE tail
      /\ usage' = [usage EXCEPT ![a.seg] = (@ + UIntBlocks - 1) % UIntBlocks]
      /\ blocks' = [blocks EXCEPT ![o] = NoAddress]
      /\ UNCHANGED <<media, nand, table, used, saved, up, cache, iFileINode,
                     ckptINode, ckptSector, recoveredWithPartialSegment,
                     writesSinceLastCheckpoint, rc>>
  BY DEF Log_Free, flashVars
\* Its place holds the block itself, so no other owner's.
<1>3. ASSUME NEW p \in Owners, p # o, blocks[p] # NoAddress
      PROVE  blocks[p].seg # a.seg \/ blocks[p].blk # a.blk
  <2> DEFINE place == (IF a.seg = tail.seg THEN tail.slots ELSE media[a.seg])[a.blk]
  <2>1. place = [own |-> o, val |-> a.val]
    BY <1>1 DEF LogInv, LiveStored
  <2>2. blocks[p].seg = a.seg /\ blocks[p].blk = a.blk =>
           place = [own |-> p, val |-> blocks[p].val]
    BY <1>3 DEF LogInv, LiveStored
  <2>3. \A x, y : [own |-> p, val |-> x] # [own |-> o, val |-> y]
    BY <1>3
  <2> HIDE DEF a, place
  <2> QED BY <2>1, <2>2, <2>3
<1> HIDE DEF a
<1>4. /\ usage'[a.seg] = (usage[a.seg] + UIntBlocks - 1) % UIntBlocks
      /\ \A s \in DataSegments : s # a.seg => usage'[s] = usage[s]
  BY <1>1, <1>2 DEF LogInv, TypeOK, Usage
<1>5. /\ tail'.seg = tail.seg
      /\ a.seg # tail.seg => tail' = tail
      /\ \A b \in 1 .. SegBlocks : b # a.blk => tail'.slots[b] = tail.slots[b]
  <2>1. CASE a.seg = tail.seg
    <3>1. tail' = [seg |-> tail.seg, slots |-> [tail.slots EXCEPT ![a.blk] = NO_INUM]]
      BY <1>2, <2>1 DEF LogInv, TypeOK
    <3> QED BY <1>1, <2>1, <3>1 DEF LogInv, TypeOK, Slots
  <2>2. CASE a.seg # tail.seg
    BY <1>2, <2>2 DEF LogInv, TypeOK
  <2> QED BY <2>1, <2>2
<1>6. /\ blocks' \in INode
      /\ blocks'[o] = NoAddress
      /\ \A p \in Owners : p # o => blocks'[p] = blocks[p]
  BY <1>2 DEF LogInv, TypeOK, INode
<1>7. TypeOK'
  BY Log_FreeType DEF LogInv
<1>8. LiveStored'
  <2> SUFFICES ASSUME NEW p \in Owners, blocks'[p] # NoAddress
               PROVE  (IF blocks'[p].seg = tail.seg THEN tail'.slots
                                                    ELSE media[blocks'[p].seg])
                          [blocks'[p].blk] = [own |-> p, val |-> blocks'[p].val]
    BY <1>2, <1>5 DEF LiveStored
  <2>1. p # o /\ blocks'[p] = blocks[p] /\ blocks[p].blk \in 1 .. SegBlocks
    BY <1>6, AddressFields DEF LogInv, TypeOK
  <2>2. CASE blocks[p].seg = tail.seg
    <3>1. tail'.slots[blocks[p].blk] = tail.slots[blocks[p].blk]
      BY <1>3, <1>5, <2>1, <2>2
    <3> QED BY <2>1, <2>2, <3>1 DEF LogInv, LiveStored
  <2>3. CASE blocks[p].seg # tail.seg
    BY <2>1, <2>3 DEF LogInv, LiveStored
  <2> QED BY <2>2, <2>3
<1>9. \A s \in DataSegments : LiveIn(s)' \subseteq LiveIn(s)
  BY <1>6 DEF LiveIn
<1>10. UsageCoversLive'
  <2> SUFFICES ASSUME NEW s \in DataSegments \ {tail.seg}
               PROVE  Cardinality(LiveIn(s)') <= usage'[s] /\ usage'[s] <= SegBlocks
    BY <1>5 DEF UsageCoversLive
  <2>1. CASE s # a.seg
    BY <1>4, <1>9, <2>1, CoveredBySubset
  <2>2. CASE s = a.seg
    <3>1. a.blk \in LiveIn(s)
      BY <1>1, <2>2 DEF LiveIn, a
    <3>2. LiveIn(s)' \subseteq LiveIn(s) \ {a.blk}
      BY <1>3, <1>6, <2>2 DEF LiveIn
    <3>3. LiveIn(s) \subseteq 1 .. SegBlocks
      BY DEF LiveIn
    <3>4. IsFiniteSet(LiveIn(s)) /\ Cardinality(LiveIn(s)) \in 0 .. SegBlocks
      BY <3>3, BlockSets
    <3>5. Cardinality(LiveIn(s) \ {a.blk}) = Cardinality(LiveIn(s)) - 1
      BY <3>1, <3>4, FS_RemoveElement
    <3>6. Cardinality(LiveIn(s)) > 0
      BY <3>1, <3>3, BlockSets
    <3>7. LiveIn(s) \ {a.blk} \subseteq 1 .. SegBlocks
      BY <3>3
    <3>8. Cardinality(LiveIn(s)') <= Cardinality(LiveIn(s) \ {a.blk})
          /\ Cardinality(LiveIn(s)') \in Nat
      BY <3>2, <3>7, BlockSets
    <3>9. /\ Cardinality(LiveIn(s)) <= usage[s] /\ usage[s] <= SegBlocks
          /\ usage[s] \in Nat
      BY LogAssumption DEF LogInv, TypeOK, Usage, UsageCoversLive
    <3>10. usage[s] \in 1 .. SegBlocks
      BY <3>4, <3>6, <3>9
    <3>11. usage'[s] = usage[s] - 1
      BY <1>4, <2>2, <3>10, CountDown
    <3> QED BY <3>4, <3>5, <3>8, <3>9, <3>10, <3>11, LogAssumption
  <2> QED BY <2>1, <2>2
<1> QED BY <1>7, <1>8, <1>10 DEF LogInv

LEMMA Log_ReadStep ==
    ASSUME LogInv, NEW o \in Owners, Log_Read(o)
    PROVE  LogInv'
<1>1. TypeOK'
  BY Log_ReadType DEF LogInv
<1>2. UsageCoversLive' /\ LiveStored'
  BY BlocksKept DEF Log_Read, flashVars
<1> QED BY <1>1, <1>2 DEF LogInv

LEMMA UpdateIFileINodeStep ==
    ASSUME LogInv, UpdateIFileINode
    PROVE  LogInv'
<1>1. TypeOK'
  BY UpdateIFileINodeType DEF LogInv
<1>2. UsageCoversLive' /\ LiveStored'
  BY BlocksKept DEF UpdateIFileINode, flashVars
<1> QED BY <1>1, <1>2 DEF LogInv

LEMMA EraseAndInvalidateStep ==
    ASSUME LogInv, NEW s \in DataSegments, EraseAndInvalidate(s)
    PROVE  LogInv'
<1>1. TypeOK'
  BY EraseAndInvalidateType DEF LogInv
<1>2. usage' = usage \/ usage' = [usage EXCEPT ![s] = 0]
  BY DEF EraseAndInvalidate
<1>3. LiveStored'
  BY DEF EraseAndInvalidate, LogInv, LiveStored
<1>4. UsageCoversLive'
  <2> SUFFICES ASSUME NEW r \in DataSegments \ {tail.seg}
               PROVE  Cardinality(LiveIn(r)') <= usage'[r] /\ usage'[r] <= SegBlocks
    BY DEF UsageCoversLive, EraseAndInvalidate
  <2>1. LiveIn(r)' = LiveIn(r)
    BY DEF LiveIn, EraseAndInvalidate
  <2>2. CASE usage'[r] = usage[r]
    BY <2>1, <2>2, CoveredBySubset
  <2>3. CASE usage'[r] # usage[r]
    <3>1. r = s /\ usage'[r] = 0
      BY <1>2, <2>3 DEF LogInv, TypeOK, Usage
    <3>2. LiveIn(r)' = {}
      BY <2>1, <3>1 DEF EraseAndInvalidate, LiveIn
    <3> QED BY <3>1, <3>2, FS_EmptySet, LogAssumption
  <2> QED BY <2>2, <2>3
<1> QED BY <1>1, <1>3, <1>4 DEF LogInv

----------------------------------------------------------------------------

LEMMA LogInvStep == LogInv /\ [Next]_vars => LogInv'
<1> SUFFICES ASSUME LogInv, [Next]_vars PROVE LogInv'
  OBVIOUS
<1>1. ASSUME NEW o \in Owners, NEW d \in Data, Log_Write(o, d) PROVE LogInv'
  BY <1>1, WriteToFullFlashStep, WriteWithoutEmptyBlockStep, WriteBlockStep,
     FillEraseFailsStep, FillWriteFailsStep, FillWrittenStep, FillDuplicateStep
     DEF Log_Write
<1>2. ASSUME NEW o \in Owners, Log_Free(o) \/ Log_Read(o) PROVE LogInv'
  BY <1>2, Log_FreeStep, Log_ReadStep
<1>3. CASE UpdateIFileINode
  BY <1>3, UpdateIFileINodeStep
<1>4. ASSUME NEW s \in DataSegments, EraseAndInvalidate(s) PROVE LogInv'
  BY <1>4, EraseAndInvalidateStep
<1>5. CASE UNCHANGED vars
  <2>1. TypeOK'
    BY <1>5 DEF vars, flashVars, memoryVars, LogInv, TypeOK
  <2>2. UsageCoversLive' /\ LiveStored'
    BY <1>5, BlocksKept DEF vars, flashVars, memoryVars
  <2> QED BY <2>1, <2>2 DEF LogInv
<1> QED BY <1>1, <1>2, <1>3, <1>4, <1>5 DEF Next

THEOREM LogInvariant == Spec => []LogInv
BY InitLogInv, LogInvStep, PTL DEF Spec

\* The log's state stays well formed and no erase block is worn past the
\* limit, by any sequence of writes, frees, reads, checkpoints and cleanings.
THEOREM LogTypeCorrect == Spec => []TypeOK
<1>1. LogInv => TypeOK
  BY DEF LogInv
<1> QED BY <1>1, LogInvariant, PTL

\* The usage table never under-counts the live blocks of a written segment:
\* a segment GetCleanSegment hands out holds no block of the client.
THEOREM LogUsageCoversLive == Spec => []UsageCoversLive
<1>1. LogInv => UsageCoversLive
  BY DEF LogInv
<1> QED BY <1>1, LogInvariant, PTL

\* A block the client holds an address for stays where Log_Write put it, in
\* the tail or on flash, until the client frees it.
THEOREM LogKeepsLiveBlocks == Spec => []LiveStored
<1>1. LogInv => LiveStored
  BY DEF LogInv
<1> QED BY <1>1, LogInvariant, PTL

----------------------------------------------------------------------------
(* The cache.                                                              *)

\* Every copy is the segment as it is on flash, except one of the segment that
\* the log uses again as its tail: the write of that tail ends the process,
\* or the cleaner takes the copy away, before the tail moves on.
CacheFresh ==
    up => \A i \in DOMAIN cache :
             cache[i].seg = tail.seg \/ cache[i].slots = media[cache[i].seg]

\* A step that makes up no entry and leaves the flash and the tail's number.
LEMMA FreshKept ==
    ASSUME CacheFresh, up' => up, tail'.seg = tail.seg, media' = media,
           \A k \in DOMAIN cache' : \E m \in DOMAIN cache : cache'[k] = cache[m]
    PROVE  CacheFresh'
BY DEF CacheFresh

LEMMA FreshFillWritten ==
    ASSUME LogInv, CacheFresh, NEW o \in Owners, NEW d \in Data, FillWritten(o, d)
    PROVE  CacheFresh'
<1> DEFINE C == [seg : DataSegments, slots : Slots]
           e == Placed(o, d)
<1>1. cache \in Seq(C) /\ tail.seg \in DataSegments /\ up
  BY TailIsData DEF FillWritten, FillsTail, LogInv, TypeOK
<1>2. e \in C /\ e.seg = tail.seg
  <2>1. EmptyBlock(tail.slots) # 0 /\ TypeOK
    BY LogAssumption DEF FillWritten, FillsTail, LogInv
  <2> QED BY <1>1, <2>1, PlacedFacts
<1>3. /\ cache' = putEntry(cache, e, CacheSize)
      /\ media' = [media EXCEPT ![tail.seg] = e.slots]
      /\ ~ containsEntry(cache, tail.seg)
  BY DEF FillWritten
<1>4. media \in [DataSegments -> Slots]
  BY DEF LogInv, TypeOK
<1> HIDE DEF C, e
<1>5. \A m \in DOMAIN cache : cache[m].seg # tail.seg /\ cache[m] \in C
  BY <1>1, <1>3 DEF containsEntry
<1>6. \A m \in DOMAIN cache : cache[m].slots = media'[cache[m].seg]
  <2> TAKE m \in DOMAIN cache
  <2>1. cache[m].slots = media[cache[m].seg] /\ cache[m].seg # tail.seg
    BY <1>1, <1>5 DEF CacheFresh
  <2>2. cache[m].seg \in DataSegments
    BY <1>5 DEF C
  <2> QED BY <1>3, <1>4, <2>1, <2>2
<1>7. e.slots = media'[e.seg]
  BY <1>1, <1>2, <1>3, <1>4
<1>8. \A k \in DOMAIN cache' : cache'[k] = e \/ \E m \in DOMAIN cache : cache'[k] = cache[m]
  BY <1>1, <1>2, <1>3, putEntryEntries, LogAssumption
<1> QED BY <1>6, <1>7, <1>8 DEF CacheFresh

LEMMA FreshRead ==
    ASSUME LogInv, CacheFresh, NEW o \in Owners, Log_Read(o)
    PROVE  CacheFresh'
<1> DEFINE s == blocks[o].seg
           C == [seg : DataSegments, slots : Slots]
           e == [seg |-> s, slots |-> media[s]]
<1>1. s \in DataSegments /\ cache \in Seq(C) /\ up
  BY AddressFields DEF Log_Read, LogInv, TypeOK
<1>2. e \in C /\ e.slots = media[e.seg]
  BY <1>1 DEF LogInv, TypeOK
<1>3. cache' = IF containsEntry(cache, s) THEN getEntry(cache, s)
               ELSE IF s = tail.seg THEN cache
               ELSE putEntry(cache, e, CacheSize)
  BY DEF Log_Read
<1>4. media' = media /\ tail' = tail
  BY DEF Log_Read, flashVars
<1> HIDE DEF C, e, s
<1>5. \A k \in DOMAIN cache' : cache'[k] = e \/ \E m \in DOMAIN cache : cache'[k] = cache[m]
  <2>1. CASE containsEntry(cache, s)
    BY <1>1, <1>3, <2>1, getEntryEntries
  <2>2. CASE ~ containsEntry(cache, s) /\ s = tail.seg
    BY <1>3, <2>2
  <2>3. CASE ~ containsEntry(cache, s) /\ s # tail.seg
    BY <1>1, <1>2, <1>3, <2>3, putEntryEntries, LogAssumption
  <2> QED BY <2>1, <2>2, <2>3
<1> QED BY <1>1, <1>2, <1>4, <1>5 DEF CacheFresh

LEMMA FreshErase ==
    ASSUME LogInv, CacheFresh, NEW s \in DataSegments, EraseAndInvalidate(s)
    PROVE  CacheFresh'
<1>1. /\ cache \in Seq([seg : DataSegments, slots : Slots])
      /\ cache' = invalidateEntry(cache, s)
      /\ up' = up /\ media' = media /\ tail' = tail
  BY DEF EraseAndInvalidate, LogInv, TypeOK
<1>2. \A k \in DOMAIN cache' : \E m \in DOMAIN cache : cache'[k] = cache[m]
  BY <1>1, invalidateEntryEntries
<1> QED BY <1>1, <1>2, FreshKept

LEMMA CacheFreshStep == LogInv /\ CacheFresh /\ [Next]_vars => CacheFresh'
<1> SUFFICES ASSUME LogInv, CacheFresh, [Next]_vars PROVE CacheFresh'
  OBVIOUS
<1>1. ASSUME NEW o \in Owners, NEW d \in Data, Log_Write(o, d) PROVE CacheFresh'
  <2>1. CASE WriteToFullFlash(o, d) \/ WriteWithoutEmptyBlock(o, d)
    BY <2>1, FreshKept DEF WriteToFullFlash, WriteWithoutEmptyBlock, flashVars, memoryVars
  <2>2. CASE WriteBlock(o, d) \/ FillEraseFails(o, d) \/ FillWriteFails(o, d)
    <3>1. tail' = Placed(o, d) /\ UNCHANGED <<up, cache, media>>
      BY <2>2 DEF WriteBlock, FillEraseFails, FillWriteFails, flashVars
    <3>2. tail'.seg = tail.seg
      BY <3>1 DEF Placed, LogInv, TypeOK
    <3> QED BY <3>1, <3>2, FreshKept
  <2>3. CASE FillWritten(o, d)
    BY <2>3, FreshFillWritten
  <2>4. CASE FillDuplicate(o, d)
    BY <2>4 DEF FillDuplicate, CacheFresh
  <2> QED BY <1>1, <2>1, <2>2, <2>3, <2>4 DEF Log_Write
<1>2. ASSUME NEW o \in Owners, Log_Free(o) PROVE CacheFresh'
  BY <1>2, FreshKept DEF Log_Free, flashVars
<1>3. ASSUME NEW o \in Owners, Log_Read(o) PROVE CacheFresh'
  BY <1>3, FreshRead
<1>4. CASE UpdateIFileINode
  BY <1>4, FreshKept DEF UpdateIFileINode, flashVars
<1>5. ASSUME NEW s \in DataSegments, EraseAndInvalidate(s) PROVE CacheFresh'
  BY <1>5, FreshErase
<1>6. CASE UNCHANGED vars
  BY <1>6, FreshKept DEF vars, flashVars, memoryVars
<1> QED BY <1>1, <1>2, <1>3, <1>4, <1>5, <1>6 DEF Next

\* A read of a block that is out of the tail returns what was written there,
\* whichever of the cache and the flash getSegment takes it from.
THEOREM LogReadsSeeWrites == Spec => []SettledReadsSeeWrites
<1>1. Init => CacheFresh
  BY DEF Init, FirstMount, CacheFresh
<1>2. LogInv /\ CacheFresh => SettledReadsSeeWrites
  <2> SUFFICES ASSUME LogInv, CacheFresh, up, NEW o \in Owners,
                      blocks[o] # NoAddress, blocks[o].seg # tail.seg
               PROVE  getSegment(blocks[o].seg)[blocks[o].blk]
                         = [own |-> o, val |-> blocks[o].val]
    BY DEF SettledReadsSeeWrites
  <2> DEFINE s == blocks[o].seg
  <2>1. media[s][blocks[o].blk] = [own |-> o, val |-> blocks[o].val]
    BY DEF LogInv, LiveStored
  <2>2. getSegment(s) = media[s]
    <3>1. CASE containsEntry(cache, s)
      <4>1. cache \in Seq([seg : DataSegments, slots : Slots])
        BY DEF LogInv, TypeOK
      <4>2. FindEntry(cache, s) \in DOMAIN cache /\ cache[FindEntry(cache, s)].seg = s
        BY <3>1, <4>1, FindEntryFinds
      <4> QED BY <3>1, <4>2 DEF CacheFresh, getSegment
    <3>2. CASE ~ containsEntry(cache, s)
      BY <3>2 DEF getSegment
    <3> QED BY <3>1, <3>2
  <2> QED BY <2>1, <2>2
<1> QED BY <1>1, <1>2, LogInvariant, CacheFreshStep, PTL DEF Spec

----------------------------------------------------------------------------
(* Many mounts: type correctness.                                          *)

LEMMA PrefixesAreEBs == \A bs \in Prefixes : bs \subseteq EBs
BY LogAssumption DEF Prefixes, EBs

LEMMA DiedType ==
    ASSUME TypeOK, Died, media' \in [DataSegments -> Slots], nand' \in Nand,
           table' \in Usage, used' = used,
           saved' \in [last : Nat, root : INode, sector : 0 .. CkptSectors - 1]
    PROVE  TypeOK'
BY DEF Died, memoryVars, TypeOK

LEMMA CrashInPartialEraseType ==
    ASSUME TypeOK, NEW o \in Owners, NEW d \in Data, CrashInPartialErase(o, d)
    PROVE  TypeOK'
<1>1. PICK bs \in Prefixes : /\ bs \subseteq Erasable(nand, tail.seg)
                             /\ nand' = Flash_Erase(nand, tail.seg, bs)
  BY DEF CrashInPartialErase
<1>2. tail.seg \in Segments
  BY FillsTailFacts, SegmentFacts DEF CrashInPartialErase
<1>3. bs \in SUBSET EBs /\ \A b \in bs : nand.wear[tail.seg][b] < WearLimit
  BY <1>1, PrefixesAreEBs DEF Erasable, EBs
<1>4. nand' \in Nand
  BY <1>1, <1>2, <1>3, EraseType DEF TypeOK
<1> QED BY <1>4, DiedType DEF CrashInPartialErase, TypeOK

LEMMA CrashInWriteType ==
    ASSUME TypeOK, NEW o \in Owners, NEW d \in Data, CrashInWrite(o, d)
    PROVE  TypeOK'
<1>1. tail.seg \in DataSegments /\ tail.seg \in Segments
  BY FillsTailFacts, SegmentFacts DEF CrashInWrite
<1>2. PICK bs \in Prefixes : nand' = [AfterPartialErase EXCEPT !.full[tail.seg] = bs]
  BY DEF CrashInWrite
<1>3. AfterPartialErase \in Nand
  BY <1>1, FillDevice
<1>4. nand' \in Nand
  BY <1>1, <1>2, <1>3, PrefixesAreEBs DEF Nand
<1>5. media' \in [DataSegments -> Slots]
  BY WrittenFacts DEF CrashInWrite
<1> QED BY <1>4, <1>5, DiedType DEF CrashInWrite, TypeOK

LEMMA CrashInTableWriteType ==
    ASSUME TypeOK, NEW o \in Owners, NEW d \in Data, CrashInTableWrite(o, d)
    PROVE  TypeOK'
<1> DEFINE n == Flash_Write(AfterPartialErase, tail.seg)
           u == Recount(usage, Placed(o, d))
<1>1. /\ FillsTail
      /\ media' = [media EXCEPT ![tail.seg] = Placed(o, d).slots]
  BY DEF CrashInTableWrite
<1>2. n \in Nand
  BY <1>1, FillsTailFacts, FillDevice
<1>3. media' \in [DataSegments -> Slots] /\ u \in Usage
  BY <1>1, WrittenFacts
<1>4. /\ nand' = TableErased(n)
      /\ table' \in {table, WriteSegmentUsageTable(n, u, table)}
  BY DEF CrashInTableWrite
<1> HIDE DEF n, u
<1>5. nand' \in Nand
  BY <1>2, <1>4, SegmentFacts, NandOps DEF TableErased
<1>6. table' \in Usage
  <2>1. table \in Usage
    BY DEF TypeOK
  <2>2. WriteSegmentUsageTable(n, u, table) \in Usage
    BY <1>2, <1>3, <2>1, TableOps
  <2> QED BY <1>4, <2>1, <2>2
<1> QED BY <1>3, <1>5, <1>6, DiedType DEF CrashInTableWrite, TypeOK

LEMMA CrashBeforeCheckpointType ==
    ASSUME TypeOK, NEW o \in Owners, NEW d \in Data, CrashBeforeCheckpoint(o, d)
    PROVE  TypeOK'
<1> DEFINE n == Flash_Write(AfterPartialErase, tail.seg)
           u == Recount(usage, Placed(o, d))
           t == Build(GetCleanSegment(u))
<1>1. /\ FillsTail
      /\ media' = [media EXCEPT ![tail.seg] = Placed(o, d).slots]
  BY DEF CrashBeforeCheckpoint
<1>2. n \in Nand
  BY <1>1, FillsTailFacts, FillDevice
<1>3. media' \in [DataSegments -> Slots] /\ u \in Usage
  BY <1>1, WrittenFacts
<1>4. /\ table' = WriteSegmentUsageTable(n, u, table)
      /\ \/ nand' = AfterTableWrite(n) /\ saved' = saved
         \/ /\ nand' = StrayErase(AfterTableWrite(n))
            /\ saved' = [last |-> LastSegmentWritten(t, FALSE),
                         root |-> iFileINode, sector |-> NextSector]
  BY DEF CrashBeforeCheckpoint
<1> HIDE DEF n, u
<1>5. nand' \in Nand /\ table' \in Usage
  BY <1>2, <1>3, <1>4, TableOps, StrayEraseType DEF TypeOK
<1>6. t \in [seg : DataSegments \cup {FLASH_FULL}, slots : Slots]
  BY <1>3, CleanSegmentIsClean, EmptySlotsType DEF Build
<1> HIDE DEF t
<1>7. LastSegmentWritten(t, FALSE) \in Nat /\ NextSector \in 0 .. CkptSectors - 1
  BY <1>6, LastSegmentWrittenType, NextSectorType
<1>8. saved' \in [last : Nat, root : INode, sector : 0 .. CkptSectors - 1]
  <2>1. /\ saved \in [last : Nat, root : INode, sector : 0 .. CkptSectors - 1]
        /\ iFileINode \in INode
    BY DEF TypeOK
  <2> DEFINE l == LastSegmentWritten(t, FALSE)
             r == [last |-> l, root |-> iFileINode, sector |-> NextSector]
  <2>2. saved' = saved \/ saved' = r
    BY <1>4
  <2>3. l \in Nat
    BY <1>7
  <2> HIDE DEF l
  <2>4. r \in [last : Nat, root : INode, sector : 0 .. CkptSectors - 1]
    BY <1>7, <2>1, <2>3
  <2> QED BY <2>1, <2>2, <2>4
<1> QED BY <1>3, <1>5, <1>8, DiedType DEF CrashBeforeCheckpoint

LEMMA UnmountType ==
    ASSUME TypeOK, Unmount
    PROVE  TypeOK'
<1> DEFINE w == writesSinceLastCheckpoint
<1>1. /\ nand' \in Nand
      /\ used' \in SUBSET (0 .. CkptSectors - 1)
      /\ saved' \in [last : Nat, root : INode, sector : 0 .. CkptSectors - 1]
      /\ ckptSector' \in 0 .. CkptSectors - 1
      /\ writesSinceLastCheckpoint' \in 0 .. Interval
  <2>1. /\ CheckpointNow(nand, tail, recoveredWithPartialSegment, ckptINode, w)
        /\ nand \in Nand /\ w \in 0 .. Interval
        /\ tail \in [seg : DataSegments \cup {FLASH_FULL}, slots : Slots]
        /\ recoveredWithPartialSegment \in BOOLEAN
        /\ ckptINode \in INode
    BY DEF Unmount, TypeOK
  <2> HIDE DEF w
  <2> QED BY <2>1, CheckpointType
<1> QED BY <1>1 DEF Unmount, TypeOK

----------------------------------------------------------------------------
(* What the flash calls do to the sectors of the data segments.            *)

\* Erasing fills no erase block; writing fills those of one segment.
LEMMA FullAfterErase ==
    ASSUME NEW n \in Nand, NEW s \in Segments, NEW bs \in SUBSET EBs, NEW r \in Segments
    PROVE  Flash_Erase(n, s, bs).full[r] \subseteq n.full[r]
BY DEF Flash_Erase, Nand

LEMMA FullAfterWrite ==
    ASSUME NEW n \in Nand, NEW s \in Segments, NEW r \in Segments, r # s
    PROVE  Flash_Write(n, s).full[r] = n.full[r]
BY DEF Flash_Write, Nand

LEMMA FullAfterTable ==
    ASSUME NEW n \in Nand, NEW r \in DataSegments
    PROVE  /\ TableErased(n) \in Nand
           /\ TableErased(n).full[r] \subseteq n.full[r]
           /\ AfterTableWrite(n) \in Nand
           /\ AfterTableWrite(n).full[r] \subseteq n.full[r]
<1>1. /\ TableSegment \in Segments /\ r \in Segments /\ r # TableSegment
  BY SegmentFacts, LogAssumption DEF DataSegments, FirstSegment, TableSegment
<1>2. TableErased(n) \in Nand
  BY <1>1, NandOps DEF TableErased
<1>3. Erasable(n, TableSegment) \in SUBSET EBs
  BY DEF Erasable
<1>4. TableErased(n).full[r] \subseteq n.full[r]
  BY <1>1, <1>3, FullAfterErase DEF TableErased, eraseSegment
<1>5. Flash_Write(TableErased(n), TableSegment).full[r] = TableErased(n).full[r]
  BY <1>1, <1>2, FullAfterWrite
<1>6. AfterTableWrite(n) \in Nand
  BY TableOps
<1> QED BY <1>2, <1>4, <1>5, <1>6 DEF AfterTableWrite

LEMMA FullAfterStrayErase ==
    ASSUME NEW n \in Nand, NEW r \in DataSegments
    PROVE  StrayErase(n).full[r] \subseteq n.full[r]
<1> DEFINE s == 2 * CkptSegment
           bs == {b \in EBs : NextSector = b * BlockSectors /\ n.wear[s][b] < WearLimit}
<1>1. bs \in SUBSET EBs
  OBVIOUS
<1>2. StrayErase(n) = IF s \in DataSegments THEN Flash_Erase(n, s, bs) ELSE n
  BY DEF StrayErase
<1> HIDE DEF s, bs
<1>3. DataSegments \subseteq Segments
  BY SegmentFacts
<1> QED BY <1>1, <1>2, <1>3, FullAfterErase

LEMMA FullAfterPartialErase ==
    ASSUME TypeOK, tail.seg \in DataSegments, NEW r \in DataSegments
    PROVE  /\ AfterPartialErase \in Nand
           /\ AfterPartialErase.full[r] \subseteq nand.full[r]
           /\ Flash_Write(AfterPartialErase, tail.seg) \in Nand
           /\ r # tail.seg =>
                Flash_Write(AfterPartialErase, tail.seg).full[r] \subseteq nand.full[r]
<1>1. /\ tail.seg \in Segments /\ r \in Segments /\ nand \in Nand
      /\ Erasable(nand, tail.seg) \in SUBSET EBs
  BY SegmentFacts DEF TypeOK, Erasable
<1>2. AfterPartialErase.full[r] \subseteq nand.full[r]
  BY <1>1, FullAfterErase DEF AfterPartialErase, eraseSegment
<1>3. /\ AfterPartialErase \in Nand
      /\ Flash_Write(AfterPartialErase, tail.seg) \in Nand
  BY FillDevice
<1> QED BY <1>1, <1>2, <1>3, FullAfterWrite

\* Filling the last empty place leaves a tail without one.
LEMMA FilledTailIsFull ==
    ASSUME TypeOK, FillsTail, NEW o \in Owners, NEW d \in Data
    PROVE  /\ EmptyBlock(Placed(o, d).slots) = 0
           /\ Placed(o, d).slots # EmptySlots
           /\ Placed(o, d).seg = tail.seg
           /\ tail.seg \in DataSegments
<1> DEFINE slots == Placed(o, d).slots
<1>1. /\ EmptyBlock(tail.slots) = SegBlocks /\ tail.seg \in DataSegments
      /\ EmptyBlock(tail.slots) # 0
  BY FillsTailFacts
<1>2. /\ slots \in Slots
      /\ slots[SegBlocks] = [own |-> o, val |-> d]
      /\ \A b \in 1 .. SegBlocks : b # SegBlocks => slots[b] = tail.slots[b]
      /\ Placed(o, d).seg = tail.seg
  BY <1>1, PlacedFacts
<1>3. \A b \in 1 .. SegBlocks : b < SegBlocks => tail.slots[b] # NO_INUM
  BY <1>1, EmptyBlockIsEmpty DEF TypeOK
<1>4. slots[SegBlocks] # NO_INUM /\ SegBlocks \in 1 .. SegBlocks
  BY <1>2, LogAssumption DEF Slot
<1> HIDE DEF slots
<1>5. \A b \in 1 .. SegBlocks : slots[b] # NO_INUM
  <2> SUFFICES ASSUME NEW b \in 1 .. SegBlocks PROVE slots[b] # NO_INUM
    OBVIOUS
  <2>1. CASE b = SegBlocks
    BY <1>4, <2>1
  <2>2. CASE b # SegBlocks
    <3>1. b < SegBlocks /\ slots[b] = tail.slots[b]
      BY <1>2, <2>2, LogAssumption
    <3> QED BY <1>3, <3>1
  <2> QED BY <2>1, <2>2
<1>6. EmptyBlock(slots) = 0
  BY <1>5, LogAssumption DEF EmptyBlock
<1>7. slots # EmptySlots
  BY <1>4 DEF EmptySlots
<1> QED BY <1>1, <1>2, <1>6, <1>7 DEF slots

----------------------------------------------------------------------------
(* A checkpoint names a segment with blocks.                               *)

Used(s) == media[s] # EmptySlots

LastIsWritten == saved.last \in DataSegments /\ Used(saved.last)

\* Log::Init finds a segment to start from, unless the checkpoint was taken
\* with a full flash.
Recoverable == LastIsWritten \/ saved.last = FLASH_FULL - 1

\* A segment that is counted, or that was written to, has blocks; the first
\* one, with what mklfs wrote, is always counted.
CountedAreUsed ==
    /\ table[FirstSegment] # 0
    /\ \A s \in DataSegments : table[s] # 0 \/ nand.full[s] # {} => Used(s)

\* The segment before number g can be named by a checkpoint.
Follows(g, m) ==
    g # FLASH_FULL => g > FirstSegment /\ m[g - 1] # EmptySlots

\* The checkpoint that unmounting writes will name a segment with blocks.
TailIsRecoverable ==
    up => /\ usage[FirstSegment] # 0
          /\ \A s \in DataSegments : usage[s] # 0 => Used(s)
          /\ IF recoveredWithPartialSegment
               THEN tail.seg \in DataSegments /\ Used(tail.seg)
               ELSE Follows(tail.seg, media)

MountInv == Recoverable /\ CountedAreUsed /\ TailIsRecoverable

LEMMA CleanSegmentFollows ==
    ASSUME NEW u \in Usage, u[FirstSegment] # 0, NEW m,
           \A s \in DataSegments : u[s] # 0 => m[s] # EmptySlots
    PROVE  Follows(GetCleanSegment(u), m)
<1> DEFINE g == GetCleanSegment(u)
<1>1. /\ g \in DataSegments \cup {FLASH_FULL}
      /\ g \in DataSegments => u[g] = 0
      /\ \A s \in DataSegments : g = FLASH_FULL \/ s < g => u[s] # 0
  BY CleanSegmentIsClean
<1> HIDE DEF g
<1>2. CASE g = FLASH_FULL
  BY <1>1, <1>2 DEF Follows, g
<1>3. CASE g # FLASH_FULL
  <2>1. g \in DataSegments /\ g # FirstSegment
    BY <1>1, <1>3
  <2>2. g > FirstSegment /\ g - 1 \in DataSegments /\ g - 1 < g
    BY <2>1, LogAssumption DEF DataSegments, FirstSegment
  <2> QED BY <1>1, <1>3, <2>2 DEF Follows, g
<1> QED BY <1>2, <1>3

\* A checkpoint that names the segment before the tail, or a recovered tail.
LEMMA FollowsRecoverable ==
    ASSUME NEW g \in DataSegments \cup {FLASH_FULL}, Follows(g, media'),
           saved'.last = g - 1
    PROVE  Recoverable'
<1>1. CASE g = FLASH_FULL
  BY <1>1 DEF Recoverable
<1>2. CASE g # FLASH_FULL
  <2>1. g - 1 \in DataSegments /\ media'[g - 1] # EmptySlots
    BY <1>2, LogAssumption DEF Follows, DataSegments, FirstSegment
  <2> QED BY <2>1 DEF Recoverable, LastIsWritten, Used
<1> QED BY <1>1, <1>2

\* Nothing that has been written becomes empty again.
LEMMA RecoverableKept ==
    ASSUME Recoverable, saved'.last = saved.last,
           \A s \in DataSegments : Used(s) => Used(s)'
    PROVE  Recoverable'
BY DEF Recoverable, LastIsWritten

LEMMA InitMountInv == Init => MountInv
<1> SUFFICES ASSUME Init PROVE MountInv
  OBVIOUS
<1>1. 1 \in DOMAIN Formatted /\ Formatted[1] \in Slot /\ 1 \in 1 .. SegBlocks
  BY LogAssumption
<1>2. FirstSlots[1] = Formatted[1]
  BY <1>1 DEF FirstSlots
<1>3. FirstSlots # EmptySlots
  BY <1>1, <1>2, LogAssumption DEF EmptySlots
<1>4. FirstSegment \in DataSegments
  BY SegmentFacts
<1>5. Used(FirstSegment)
  BY <1>3, <1>4 DEF Init, mklfs, Used
<1>6. Recoverable
  BY <1>4, <1>5 DEF Init, mklfs, Recoverable, LastIsWritten
<1>7. FirstUsage[FirstSegment] # 0 /\ \A s \in DataSegments : FirstUsage[s] # 0 => s = FirstSegment
  BY <1>4, LogAssumption DEF FirstUsage
<1>8. \A s \in DataSegments : nand.full[s] # {} => s = FirstSegment
  <2>1. \A s \in DataSegments : s # TableSegment /\ s \in Segments
    BY SegmentFacts, LogAssumption DEF DataSegments, FirstSegment, TableSegment
  <2> QED BY <2>1 DEF Init, mklfs
<1>9. CountedAreUsed
  BY <1>5, <1>7, <1>8 DEF Init, mklfs, CountedAreUsed
<1>10. TailIsRecoverable
  BY <1>4, <1>5, <1>7 DEF Init, FirstMount, TailIsRecoverable
<1> QED BY <1>6, <1>9, <1>10 DEF MountInv

\* A step that leaves the flash and the number of the tail.
LEMMA MountInvKept ==
    ASSUME MountInv, UNCHANGED flashVars, up' => up, usage' = usage,
           tail'.seg = tail.seg,
           recoveredWithPartialSegment' = recoveredWithPartialSegment
    PROVE  MountInv'
BY DEF MountInv, flashVars, Recoverable, LastIsWritten, CountedAreUsed, TailIsRecoverable,
       Used

\* The full tail on flash: the counts are those of segments with blocks, with
\* the recounted tail as with the table as it was.
LEMMA FilledUsed ==
    ASSUME TypeOK, MountInv, FillsTail, NEW o \in Owners, NEW d \in Data,
           media' = [media EXCEPT ![tail.seg] = Placed(o, d).slots]
    PROVE  /\ media'[tail.seg] # EmptySlots
           /\ \A s \in DataSegments : Used(s) => Used(s)'
           /\ Recount(usage, Placed(o, d)) \in Usage
           /\ Recount(usage, Placed(o, d))[FirstSegment] # 0
           /\ \A s \in DataSegments :
                 Recount(usage, Placed(o, d))[s] # 0 => Used(s)'
           /\ \A s \in DataSegments : table[s] # 0 => Used(s)'
<1> DEFINE u == Recount(usage, Placed(o, d))
           slots == Placed(o, d).slots
<1>1. /\ tail.seg \in DataSegments /\ slots # EmptySlots
      /\ Placed(o, d).seg = tail.seg
  BY FilledTailIsFull
<1>2. media'[tail.seg] = slots /\ \A s \in DataSegments \ {tail.seg} : media'[s] = media[s]
  BY <1>1 DEF TypeOK
<1>3. u = [usage EXCEPT ![tail.seg] = LiveBlocks(slots)]
  BY <1>1 DEF Recount
<1>4. LiveBlocks(slots) # 0
  <2>1. /\ slots \in Slots /\ EmptyBlock(tail.slots) \in 1 .. SegBlocks
        /\ slots[EmptyBlock(tail.slots)] = [own |-> o, val |-> d]
    BY PlacedFacts, FillsTailFacts
  <2>2. \E b \in 1 .. SegBlocks : slots[b] # NO_INUM
    BY <2>1, LogAssumption DEF Slot
  <2> HIDE DEF slots
  <2> QED BY <2>1, <2>2, LiveBlocksCounts
<1>5. u \in Usage
  BY WrittenFacts
<1> HIDE DEF slots, u
<1>6. /\ u[tail.seg] # 0
      /\ \A s \in DataSegments \ {tail.seg} : u[s] = usage[s]
  BY <1>1, <1>3, <1>4 DEF TypeOK, Usage
<1>7. media'[tail.seg] # EmptySlots /\ \A s \in DataSegments : Used(s) => Used(s)'
  BY <1>1, <1>2 DEF Used
<1>8. up
  BY DEF FillsTail
<1>9. u[FirstSegment] # 0
  BY <1>6, <1>8, SegmentFacts DEF MountInv, TailIsRecoverable
<1>10. ASSUME NEW s \in DataSegments, u[s] # 0 PROVE Used(s)'
  <2>1. CASE s = tail.seg
    BY <1>7, <2>1 DEF Used
  <2>2. CASE s # tail.seg
    BY <1>6, <1>7, <1>8, <1>10, <2>2 DEF MountInv, TailIsRecoverable
  <2> QED BY <2>1, <2>2
<1>11. \A s \in DataSegments : table[s] # 0 => Used(s)'
  BY <1>7 DEF MountInv, CountedAreUsed
<1> QED BY <1>5, <1>7, <1>9, <1>10, <1>11 DEF u

\* What is on flash once the full tail has been written, wherever the process
\* then dies.
LEMMA FilledRecoverable ==
    ASSUME TypeOK, MountInv, FillsTail, NEW o \in Owners, NEW d \in Data,
           media' = [media EXCEPT ![tail.seg] = Placed(o, d).slots],
           \/ saved'.last = saved.last
           \/ saved'.last = LastSegmentWritten(
                  Build(GetCleanSegment(Recount(usage, Placed(o, d)))), FALSE),
           table' = table \/ table' = Recount(usage, Placed(o, d)),
           \A s \in DataSegments \ {tail.seg} : nand'.full[s] \subseteq nand.full[s]
    PROVE  Recoverable' /\ CountedAreUsed'
<1> DEFINE u == Recount(usage, Placed(o, d))
<1>1. /\ media'[tail.seg] # EmptySlots
      /\ \A s \in DataSegments : Used(s) => Used(s)'
      /\ u \in Usage
      /\ u[FirstSegment] # 0
      /\ \A s \in DataSegments : u[s] # 0 => Used(s)'
      /\ \A s \in DataSegments : table[s] # 0 => Used(s)'
  BY FilledUsed
<1>2. table' = table \/ table' = u
  OBVIOUS
<1>3. saved'.last = saved.last \/ saved'.last = GetCleanSegment(u) - 1
  BY DEF LastSegmentWritten, Build
<1> HIDE DEF u
<1>4. Recoverable'
  <2>1. CASE saved'.last = saved.last
    BY <1>1, <2>1, RecoverableKept DEF MountInv
  <2>2. CASE saved'.last = GetCleanSegment(u) - 1
    <3>1. Follows(GetCleanSegment(u), media')
      BY <1>1, CleanSegmentFollows DEF Used
    <3>2. GetCleanSegment(u) \in DataSegments \cup {FLASH_FULL}
      BY <1>1, CleanSegmentIsClean
    <3> QED BY <2>2, <3>1, <3>2, FollowsRecoverable
  <2> QED BY <1>3, <2>1, <2>2
<1>5. table'[FirstSegment] # 0 /\ \A s \in DataSegments : table'[s] # 0 => Used(s)'
  BY <1>1, <1>2 DEF MountInv, CountedAreUsed
<1>6. ASSUME NEW s \in DataSegments, nand'.full[s] # {} PROVE Used(s)'
  <2>1. CASE s = tail.seg
    BY <1>1, <2>1 DEF Used
  <2>2. CASE s # tail.seg
    BY <1>1, <1>6, <2>2 DEF MountInv, CountedAreUsed
  <2> QED BY <2>1, <2>2
<1> QED BY <1>4, <1>5, <1>6 DEF CountedAreUsed

\* The device after the tail and the table have been written.
LEMMA FilledDevice ==
    ASSUME TypeOK, FillsTail, NEW s \in DataSegments \ {tail.seg}
    PROVE  LET n == Flash_Write(AfterPartialErase, tail.seg) IN
           /\ n \in Nand
           /\ TableErased(n).full[s] \subseteq nand.full[s]
           /\ AfterTableWrite(n).full[s] \subseteq nand.full[s]
           /\ StrayErase(AfterTableWrite(n)).full[s] \subseteq nand.full[s]
<1> DEFINE n == Flash_Write(AfterPartialErase, tail.seg)
<1>1. n \in Nand /\ n.full[s] \subseteq nand.full[s]
  BY FilledTailIsFull, FullAfterPartialErase, FillsTailFacts
<1> HIDE DEF n
<1>2. /\ AfterTableWrite(n) \in Nand
      /\ TableErased(n).full[s] \subseteq n.full[s]
      /\ AfterTableWrite(n).full[s] \subseteq n.full[s]
  BY <1>1, FullAfterTable
<1>3. StrayErase(AfterTableWrite(n)).full[s] \subseteq AfterTableWrite(n).full[s]
  BY <1>2, FullAfterStrayErase
<1> QED BY <1>1, <1>2, <1>3 DEF n

\* What CheckpointNow does to the device and to the newest checkpoint.
LEMMA CheckpointEffect ==
    ASSUME NEW n, NEW t, NEW p, NEW i, NEW w, CheckpointNow(n, t, p, i, w)
    PROVE  /\ nand' = StrayErase(n)
           /\ \/ saved' = saved
              \/ saved'.last = LastSegmentWritten(t, p) /\ saved'.root = i
<1>1. \/ saved' = saved
      \/ saved' = [last |-> LastSegmentWritten(t, p), root |-> i, sector |-> NextSector]
  BY DEF CheckpointNow
<1> QED BY <1>1 DEF CheckpointNow

\* WriteSegmentUsageTable stores the new table or leaves the old one.
LEMMA TableOldOrNew ==
    \A n, u, t : WriteSegmentUsageTable(n, u, t) \in {t, u}
BY DEF WriteSegmentUsageTable

LEMMA MountFillEraseFails ==
    ASSUME TypeOK, MountInv, NEW o \in Owners, NEW d \in Data, FillEraseFails(o, d)
    PROVE  MountInv'
<1>1. /\ FillsTail /\ tail' = Placed(o, d) /\ nand' = AfterPartialErase
      /\ UNCHANGED <<media, table, saved, usage, recoveredWithPartialSegment>>
  BY DEF FillEraseFails
<1>2. tail'.seg = tail.seg
  BY <1>1, FilledTailIsFull
<1>3. \A s \in DataSegments : nand'.full[s] \subseteq nand.full[s]
  BY <1>1, FilledTailIsFull, FullAfterPartialErase
<1>4. Recoverable'
  BY <1>1, RecoverableKept DEF MountInv, Used
<1>5. CountedAreUsed'
  BY <1>1, <1>3 DEF MountInv, CountedAreUsed, Used
<1>6. TailIsRecoverable'
  BY <1>1, <1>2 DEF MountInv, TailIsRecoverable, Used, FillsTail
<1> QED BY <1>4, <1>5, <1>6 DEF MountInv

\* A recovered segment has been erased just before, so it is not refused.
LEMMA OnlyUnerasedRefused ==
    ASSUME TypeOK, NEW o \in Owners, NEW d \in Data, FillWriteFails(o, d)
    PROVE  ~ recoveredWithPartialSegment
<1> SUFFICES ASSUME recoveredWithPartialSegment PROVE FALSE
  OBVIOUS
<1>1. /\ Erasable(nand, tail.seg) = EBs
      /\ AfterPartialErase = Flash_Erase(nand, tail.seg, EBs)
      /\ AfterPartialErase.full[tail.seg] # {}
  BY DEF FillWriteFails, PartialEraseFails, EraseFails, AfterPartialErase, eraseSegment,
         WriteFails
<1>2. tail.seg \in Segments
  BY FillsTailFacts, SegmentFacts DEF FillWriteFails
<1> QED BY <1>1, <1>2 DEF Flash_Erase, TypeOK, Nand

\* A segment that refuses the tail was not erased, so there is something in it.
LEMMA MountFillWriteFails ==
    ASSUME TypeOK, MountInv, NEW o \in Owners, NEW d \in Data, FillWriteFails(o, d)
    PROVE  MountInv'
<1> DEFINE n == AfterPartialErase
           u == Recount(usage, Placed(o, d))
<1>1. /\ FillsTail /\ tail' = Placed(o, d)
      /\ WriteFails(n, tail.seg)
      /\ nand' = AfterTableWrite(n)
      /\ usage' = u
      /\ table' = WriteSegmentUsageTable(n, u, table)
      /\ recoveredWithPartialSegment' = FALSE
      /\ UNCHANGED <<media, saved>>
  BY DEF FillWriteFails, SegmentWritten, NoCheckpoint
<1>2. tail'.seg = tail.seg /\ tail.seg \in DataSegments /\ Placed(o, d).seg = tail.seg
  BY <1>1, FilledTailIsFull
<1>3. n \in Nand /\ \A s \in DataSegments : n.full[s] \subseteq nand.full[s]
  BY <1>2, FullAfterPartialErase
<1>4. u = [usage EXCEPT ![tail.seg] = LiveBlocks(Placed(o, d).slots)]
  BY <1>2 DEF Recount
<1>5. u \in Usage
  BY <1>1, WrittenFacts
<1>6. n.full[tail.seg] # {}
  BY <1>1 DEF WriteFails
<1>7. table' = table \/ table' = u
  BY <1>1, TableOldOrNew
<1> HIDE DEF n
<1>8. Used(tail.seg)
  BY <1>2, <1>3, <1>6 DEF MountInv, CountedAreUsed
<1>9. u[FirstSegment] # 0 /\ \A s \in DataSegments : u[s] # 0 => Used(s)
  <2>1. u[tail.seg] # 0
    <3>1. [media EXCEPT ![tail.seg] = Placed(o, d).slots] \in [DataSegments -> Slots]
      BY <1>1, WrittenFacts
    <3>2. /\ Placed(o, d).slots \in Slots /\ EmptyBlock(tail.slots) \in 1 .. SegBlocks
          /\ Placed(o, d).slots[EmptyBlock(tail.slots)] = [own |-> o, val |-> d]
      BY <1>1, PlacedFacts, FillsTailFacts
    <3>3. \E b \in 1 .. SegBlocks : Placed(o, d).slots[b] # NO_INUM
      BY <3>2, LogAssumption DEF Slot
    <3>4. LiveBlocks(Placed(o, d).slots) # 0
      BY <3>2, <3>3, LiveBlocksCounts
    <3> QED BY <1>2, <1>4, <3>4 DEF TypeOK, Usage
  <2>2. \A s \in DataSegments \ {tail.seg} : u[s] = usage[s]
    BY <1>4 DEF TypeOK, Usage
  <2>3. up
    BY <1>1 DEF FillsTail
  <2> HIDE DEF u
  <2>4. u[FirstSegment] # 0
    BY <2>1, <2>2, <2>3, SegmentFacts DEF MountInv, TailIsRecoverable
  <2>5. \A s \in DataSegments : u[s] # 0 => Used(s)
    BY <1>8, <2>2, <2>3 DEF MountInv, TailIsRecoverable
  <2> QED BY <2>4, <2>5
<1>10. \A s \in DataSegments : nand'.full[s] \subseteq nand.full[s]
  BY <1>1, <1>3, FullAfterTable
<1> HIDE DEF u
<1>11. Recoverable'
  BY <1>1, RecoverableKept DEF MountInv, Used
<1>12. CountedAreUsed'
  BY <1>1, <1>7, <1>9, <1>10 DEF MountInv, CountedAreUsed, Used
<1>13. ~ recoveredWithPartialSegment
  BY OnlyUnerasedRefused
<1>14. TailIsRecoverable'
  BY <1>1, <1>2, <1>9, <1>13 DEF MountInv, TailIsRecoverable, Used, Follows, FillsTail
<1> QED BY <1>11, <1>12, <1>14 DEF MountInv

LEMMA MountFillWritten ==
    ASSUME TypeOK, MountInv, NEW o \in Owners, NEW d \in Data, FillWritten(o, d)
    PROVE  MountInv'
<1> DEFINE n == Flash_Write(AfterPartialErase, tail.seg)
           u == Recount(usage, Placed(o, d))
           w == Saturate(writesSinceLastCheckpoint)
<1>1. /\ FillsTail
      /\ media' = [media EXCEPT ![tail.seg] = Placed(o, d).slots]
      /\ usage' = u
      /\ table' = WriteSegmentUsageTable(n, u, table)
      /\ recoveredWithPartialSegment' = FALSE
      /\ tail' = Build(GetCleanSegment(usage'))
      /\ IF w >= Interval
           THEN CheckpointNow(AfterTableWrite(n), tail', FALSE, iFileINode, w)
           ELSE NoCheckpoint(AfterTableWrite(n), w)
  BY DEF FillWritten, SegmentWritten
<1>2. nand' = AfterTableWrite(n) \/ nand' = StrayErase(AfterTableWrite(n))
  BY <1>1 DEF CheckpointNow, NoCheckpoint
<1>3. saved'.last = saved.last \/ saved'.last = LastSegmentWritten(tail', FALSE)
  BY <1>1, CheckpointEffect DEF NoCheckpoint
<1>4. \A s \in DataSegments \ {tail.seg} : nand'.full[s] \subseteq nand.full[s]
  BY <1>1, <1>2, FilledDevice
<1>5. table' = table \/ table' = u
  BY <1>1, TableOldOrNew
<1>6. Recoverable' /\ CountedAreUsed'
  <2>1. tail' = Build(GetCleanSegment(u))
    BY <1>1
  <2> HIDE DEF n, w
  <2> QED BY <1>1, <1>3, <1>4, <1>5, <2>1, FilledRecoverable
<1>7. /\ u \in Usage
      /\ u[FirstSegment] # 0
      /\ \A s \in DataSegments : u[s] # 0 => Used(s)'
  BY <1>1, FilledUsed
<1> HIDE DEF n, u, w
<1>8. Follows(GetCleanSegment(u), media')
  BY <1>7, CleanSegmentFollows DEF Used
<1>9. TailIsRecoverable'
  BY <1>1, <1>7, <1>8 DEF TailIsRecoverable, Build
<1> QED BY <1>6, <1>9 DEF MountInv

LEMMA MountLog_Write ==
    ASSUME TypeOK, MountInv, NEW o \in Owners, NEW d \in Data, Log_Write(o, d)
    PROVE  MountInv'
<1>1. CASE WriteToFullFlash(o, d)
  BY <1>1, MountInvKept DEF WriteToFullFlash
<1>2. CASE WriteWithoutEmptyBlock(o, d)
  BY <1>2, MountInvKept DEF WriteWithoutEmptyBlock, memoryVars
<1>3. CASE WriteBlock(o, d)
  <2>1. tail'.seg = tail.seg
    BY <1>3 DEF WriteBlock, Placed, TypeOK
  <2> QED BY <1>3, <2>1, MountInvKept DEF WriteBlock
<1>4. CASE FillDuplicate(o, d)
  <2> DEFINE n == Flash_Write(AfterPartialErase, tail.seg)
             u == Recount(usage, Placed(o, d))
  <2>1. /\ FillsTail
        /\ media' = [media EXCEPT ![tail.seg] = Placed(o, d).slots]
        /\ nand' = AfterTableWrite(n)
        /\ table' = WriteSegmentUsageTable(n, u, table)
        /\ saved' = saved
        /\ up' = FALSE
    BY <1>4 DEF FillDuplicate
  <2>2. \A s \in DataSegments \ {tail.seg} : nand'.full[s] \subseteq nand.full[s]
    BY <2>1, FilledDevice
  <2>3. table' = table \/ table' = u
    BY <2>1, TableOldOrNew
  <2> HIDE DEF n
  <2>4. Recoverable' /\ CountedAreUsed'
    BY <2>1, <2>2, <2>3, FilledRecoverable
  <2> QED BY <2>1, <2>4 DEF MountInv, TailIsRecoverable
<1> QED BY <1>1, <1>2, <1>3, <1>4, MountFillEraseFails, MountFillWriteFails,
           MountFillWritten DEF Log_Write

LEMMA MountCrashInPartialErase ==
    ASSUME TypeOK, MountInv, NEW o \in Owners, NEW d \in Data, CrashInPartialErase(o, d)
    PROVE  MountInv'
<1>1. PICK bs \in Prefixes : nand' = Flash_Erase(nand, tail.seg, bs)
  BY DEF CrashInPartialErase
<1>2. tail.seg \in Segments /\ DataSegments \subseteq Segments
  BY FillsTailFacts, SegmentFacts DEF CrashInPartialErase
<1>3. \A s \in DataSegments : nand'.full[s] \subseteq nand.full[s]
  BY <1>1, <1>2, PrefixesAreEBs, FullAfterErase DEF TypeOK
<1>4. /\ UNCHANGED <<media, table, saved>> /\ up' = FALSE
  BY DEF CrashInPartialErase, Died
<1>5. Recoverable'
  BY <1>4, RecoverableKept DEF MountInv, Used
<1>6. CountedAreUsed'
  BY <1>3, <1>4 DEF MountInv, CountedAreUsed, Used
<1> QED BY <1>4, <1>5, <1>6 DEF MountInv, TailIsRecoverable

LEMMA MountCrashInWrite ==
    ASSUME TypeOK, MountInv, NEW o \in Owners, NEW d \in Data, CrashInWrite(o, d)
    PROVE  MountInv'
<1>1. /\ FillsTail
      /\ media' = [media EXCEPT ![tail.seg] = Placed(o, d).slots]
      /\ UNCHANGED <<table, saved>>
      /\ up' = FALSE
  BY DEF CrashInWrite, Died
<1>2. PICK bs \in Prefixes : nand' = [AfterPartialErase EXCEPT !.full[tail.seg] = bs]
  BY DEF CrashInWrite
<1>3. ASSUME NEW s \in DataSegments \ {tail.seg}
      PROVE  nand'.full[s] \subseteq nand.full[s]
  <2>1. /\ AfterPartialErase \in Nand
        /\ AfterPartialErase.full[s] \subseteq nand.full[s]
        /\ s \in Segments /\ tail.seg \in Segments
    BY <1>1, FilledTailIsFull, FillsTailFacts, FullAfterPartialErase, SegmentFacts
  <2> QED BY <1>2, <2>1 DEF Nand
<1>4. Recoverable' /\ CountedAreUsed'
  BY <1>1, <1>3, FilledRecoverable
<1> QED BY <1>1, <1>4 DEF MountInv, TailIsRecoverable

LEMMA MountCrashInTableWrite ==
    ASSUME TypeOK, MountInv, NEW o \in Owners, NEW d \in Data, CrashInTableWrite(o, d)
    PROVE  MountInv'
<1> DEFINE n == Flash_Write(AfterPartialErase, tail.seg)
           u == Recount(usage, Placed(o, d))
<1>1. /\ FillsTail
      /\ media' = [media EXCEPT ![tail.seg] = Placed(o, d).slots]
      /\ nand' = TableErased(n)
      /\ table' \in {table, WriteSegmentUsageTable(n, u, table)}
      /\ saved' = saved
      /\ up' = FALSE
  BY DEF CrashInTableWrite, Died
<1>2. \A s \in DataSegments \ {tail.seg} : nand'.full[s] \subseteq nand.full[s]
  BY <1>1, FilledDevice
<1>3. table' = table \/ table' = u
  BY <1>1, TableOldOrNew
<1> HIDE DEF n
<1>4. Recoverable' /\ CountedAreUsed'
  BY <1>1, <1>2, <1>3, FilledRecoverable
<1> QED BY <1>1, <1>4 DEF MountInv, TailIsRecoverable

LEMMA MountCrashBeforeCheckpoint ==
    ASSUME TypeOK, MountInv, NEW o \in Owners, NEW d \in Data, CrashBeforeCheckpoint(o, d)
    PROVE  MountInv'
<1> DEFINE n == Flash_Write(AfterPartialErase, tail.seg)
           u == Recount(usage, Placed(o, d))
           l == LastSegmentWritten(Build(GetCleanSegment(u)), FALSE)
<1>1. /\ FillsTail
      /\ media' = [media EXCEPT ![tail.seg] = Placed(o, d).slots]
      /\ table' = WriteSegmentUsageTable(n, u, table)
      /\ up' = FALSE
      /\ \/ nand' = AfterTableWrite(n) /\ saved' = saved
         \/ /\ nand' = StrayErase(AfterTableWrite(n))
            /\ saved' = [last |-> l, root |-> iFileINode, sector |-> NextSector]
  BY DEF CrashBeforeCheckpoint, Died
<1>2. \A s \in DataSegments \ {tail.seg} : nand'.full[s] \subseteq nand.full[s]
  BY <1>1, FilledDevice
<1>3. table' = table \/ table' = u
  BY <1>1, TableOldOrNew
<1> HIDE DEF n
<1>4. saved'.last = saved.last \/ saved'.last = l
  <2> HIDE DEF l
  <2> QED BY <1>1
<1>5. Recoverable' /\ CountedAreUsed'
  BY <1>1, <1>2, <1>3, <1>4, FilledRecoverable
<1> QED BY <1>1, <1>5 DEF MountInv, TailIsRecoverable

LEMMA MountUnmount ==
    ASSUME TypeOK, MountInv, Unmount
    PROVE  MountInv'
<1>1. /\ up /\ up' = FALSE
      /\ CheckpointNow(nand, tail, recoveredWithPartialSegment, ckptINode,
                       writesSinceLastCheckpoint)
      /\ UNCHANGED <<media, table>>
  BY DEF Unmount
<1>2. /\ nand' = StrayErase(nand)
      /\ \/ saved' = saved
         \/ saved'.last = LastSegmentWritten(tail, recoveredWithPartialSegment)
  BY <1>1, CheckpointEffect
<1>3. \A s \in DataSegments : nand'.full[s] \subseteq nand.full[s]
  BY <1>2, FullAfterStrayErase DEF TypeOK
<1>4. CountedAreUsed'
  BY <1>1, <1>3 DEF MountInv, CountedAreUsed, Used
<1>5. Recoverable'
  <2>1. CASE saved' = saved
    BY <1>1, <2>1, RecoverableKept DEF MountInv, Used
  <2>2. CASE saved'.last = tail.seg /\ recoveredWithPartialSegment
    BY <1>1, <2>2 DEF MountInv, TailIsRecoverable, Recoverable, LastIsWritten, Used
  <2>3. CASE saved'.last = tail.seg - 1 /\ ~ recoveredWithPartialSegment
    <3>1. Follows(tail.seg, media')
      BY <1>1, <2>3 DEF MountInv, TailIsRecoverable
    <3>2. tail.seg \in DataSegments \cup {FLASH_FULL}
      BY DEF TypeOK
    <3> QED BY <2>3, <3>1, <3>2, FollowsRecoverable
  <2> QED BY <1>2, <2>1, <2>2, <2>3 DEF LastSegmentWritten
<1> QED BY <1>1, <1>4, <1>5 DEF MountInv, TailIsRecoverable

LEMMA MountMount ==
    ASSUME TypeOK, MountInv, Mount
    PROVE  MountInv'
<1>1. /\ Mountable
      /\ usage' = table
      /\ tail' = RecoveredTail(table)
      /\ recoveredWithPartialSegment' = (media[saved.last][SegBlocks] = NO_INUM)
      /\ UNCHANGED <<media, nand, table, saved>>
  BY DEF Mount, flashVars, ReadSegmentUsageTable
<1>2. Recoverable' /\ CountedAreUsed'
  BY <1>1 DEF MountInv, Recoverable, LastIsWritten, CountedAreUsed, Used
<1>3. CASE media[saved.last][SegBlocks] = NO_INUM
  <2>1. tail'.seg \in DataSegments /\ Used(tail'.seg)
    BY <1>1, <1>3 DEF RecoveredTail, MountInv, Recoverable, Mountable, LastIsWritten, Used
  <2> QED BY <1>1, <1>2, <1>3, <2>1 DEF MountInv, TailIsRecoverable, CountedAreUsed, Used
<1>4. CASE media[saved.last][SegBlocks] # NO_INUM
  <2>1. tail'.seg = GetCleanSegment(table)
    BY <1>1, <1>4 DEF RecoveredTail, Build
  <2>2. Follows(GetCleanSegment(table), media)
    <3>1. table \in Usage
      BY DEF TypeOK
    <3> QED BY <3>1, CleanSegmentFollows DEF MountInv, CountedAreUsed, Used
  <2> QED BY <1>1, <1>2, <1>4, <2>1, <2>2 DEF MountInv, TailIsRecoverable, CountedAreUsed, Used
<1> QED BY <1>3, <1>4

LEMMA MountInvStep ==
    ASSUME TypeOK, MountInv, [AppendNext]_vars
    PROVE  MountInv'
<1>1. ASSUME NEW o \in Owners, NEW d \in Data,
             \/ Log_Write(o, d)
             \/ CrashInPartialErase(o, d)
             \/ CrashInWrite(o, d)
             \/ CrashInTableWrite(o, d)
             \/ CrashBeforeCheckpoint(o, d)
      PROVE  MountInv'
  BY <1>1, MountLog_Write, MountCrashInPartialErase, MountCrashInWrite,
     MountCrashInTableWrite, MountCrashBeforeCheckpoint
<1>2. ASSUME NEW o \in Owners, Log_Read(o) PROVE MountInv'
  BY <1>2, MountInvKept DEF Log_Read
<1>3. CASE UpdateIFileINode
  BY <1>3, MountInvKept DEF UpdateIFileINode
<1>4. CASE Crash
  BY <1>4, MountInvKept DEF Crash, Died, memoryVars
<1>5. CASE Unmount
  BY <1>5, MountUnmount
<1>6. CASE Mount
  BY <1>6, MountMount
<1>7. CASE UNCHANGED vars
  BY <1>7, MountInvKept DEF vars, memoryVars
<1> QED BY <1>1, <1>2, <1>3, <1>4, <1>5, <1>6, <1>7 DEF AppendNext, AppendStep

\* The tail Init builds is the last segment or one without live bytes.
LEMMA RecoveredTailType ==
    ASSUME TypeOK, Recoverable, Mountable, NEW u \in Usage
    PROVE  RecoveredTail(u) \in [seg : DataSegments \cup {FLASH_FULL}, slots : Slots]
BY CleanSegmentIsClean, EmptySlotsType
   DEF RecoveredTail, Build, Mountable, Recoverable, LastIsWritten, TypeOK

LEMMA MountType ==
    ASSUME TypeOK, MountInv, Mount
    PROVE  TypeOK'
<1>1. usage' \in Usage
  BY DEF Mount, ReadSegmentUsageTable, TypeOK
<1>2. tail' \in [seg : DataSegments \cup {FLASH_FULL}, slots : Slots]
  BY <1>1, RecoveredTailType DEF Mount, MountInv
<1>3. cache' \in Seq([seg : DataSegments, slots : Slots]) /\ Len(cache') <= CacheSize
  BY LogAssumption DEF Mount
<1>4. 0 \in 0 .. Interval
  BY LogAssumption
<1> QED BY <1>1, <1>2, <1>3, <1>4 DEF Mount, flashVars, TypeOK

LEMMA AppendTypeStep ==
    ASSUME TypeOK, MountInv, [AppendNext]_vars
    PROVE  TypeOK'
<1>1. ASSUME NEW o \in Owners, NEW d \in Data,
             \/ Log_Write(o, d)
             \/ CrashInPartialErase(o, d)
             \/ CrashInWrite(o, d)
             \/ CrashInTableWrite(o, d)
             \/ CrashBeforeCheckpoint(o, d)
      PROVE  TypeOK'
  BY <1>1, Log_WriteType, CrashInPartialEraseType, CrashInWriteType,
     CrashInTableWriteType, CrashBeforeCheckpointType
<1>2. ASSUME NEW o \in Owners, Log_Read(o) PROVE TypeOK'
  BY <1>2, Log_ReadType
<1>3. CASE UpdateIFileINode
  BY <1>3, UpdateIFileINodeType
<1>4. CASE Crash
  BY <1>4, DiedType DEF Crash, flashVars, TypeOK
<1>5. CASE Unmount
  BY <1>5, UnmountType
<1>6. CASE Mount
  BY <1>6, MountType
<1>7. CASE UNCHANGED vars
  BY <1>7 DEF vars, flashVars, memoryVars, TypeOK
<1> QED BY <1>1, <1>2, <1>3, <1>4, <1>5, <1>6, <1>7 DEF AppendNext, AppendStep

\* The state stays well formed over any number of mounts: what a mount makes
\* of the flash, after whatever crash, is a log that can be written to.  A
\* checkpoint names the last segment that was written, or says that the flash
\* is full.
THEOREM RecoveryTypeCorrect == AppendSpec => []TypeOK
<1>1. TypeOK /\ MountInv /\ [AppendNext]_recoveryVars => (TypeOK /\ MountInv)'
  <2> SUFFICES ASSUME TypeOK, MountInv, [AppendNext]_vars PROVE TypeOK' /\ MountInv'
    BY DEF recoveryVars
  <2> QED BY AppendTypeStep, MountInvStep
<1>2. AppendInit => TypeOK /\ MountInv
  BY InitLogInv, InitMountInv DEF LogInv, AppendInit
<1> QED BY <1>1, <1>2, PTL DEF AppendSpec

----------------------------------------------------------------------------
(* The table segment only wears, and while it can be erased the usage table *)
(* is replaced.                                                            *)

\* TableWritable, of a device.
Writable(n) == \A b \in EBs : n.wear[TableSegment][b] < WearLimit

LEMMA WritableErase ==
    ASSUME NEW n \in Nand, NEW s \in Segments, NEW bs \in SUBSET EBs
    PROVE  /\ Flash_Erase(n, s, bs).wear \in [Segments -> [EBs -> Nat]]
           /\ Writable(Flash_Erase(n, s, bs)) => Writable(n)
           /\ s # TableSegment => (Writable(n) => Writable(Flash_Erase(n, s, bs)))
<1> DEFINE w == [b \in EBs |-> IF b \in bs THEN n.wear[s][b] + 1 ELSE n.wear[s][b]]
           m == Flash_Erase(n, s, bs)
<1>1. /\ n.wear \in [Segments -> [EBs -> Nat]]
      /\ TableSegment \in Segments /\ WearLimit \in Nat
  BY SegmentFacts, LogAssumption DEF Nand
<1>2. m.wear = [n.wear EXCEPT ![s] = w]
  BY DEF Flash_Erase
<1>3. w \in [EBs -> Nat] /\ \A b \in EBs : n.wear[s][b] <= w[b]
  BY <1>1
<1> HIDE DEF w, m
<1>4. m.wear \in [Segments -> [EBs -> Nat]]
  BY <1>1, <1>2, <1>3
<1>5. \A b \in EBs : n.wear[TableSegment][b] <= m.wear[TableSegment][b]
  BY <1>1, <1>2, <1>3
<1>6. Writable(m) => Writable(n)
  BY <1>1, <1>4, <1>5 DEF Writable
<1>7. s # TableSegment => (Writable(n) => Writable(m))
  BY <1>1, <1>2 DEF Writable
<1> QED BY <1>4, <1>6, <1>7 DEF m

LEMMA WritableWrite ==
    ASSUME NEW n \in Nand, NEW s \in Segments
    PROVE  Writable(Flash_Write(n, s)) <=> Writable(n)
BY DEF Flash_Write, Writable, Nand

LEMMA WritableTable ==
    ASSUME NEW n \in Nand
    PROVE  /\ Writable(TableErased(n)) => Writable(n)
           /\ Writable(AfterTableWrite(n)) => Writable(n)
<1>1. TableSegment \in Segments /\ Erasable(n, TableSegment) \in SUBSET EBs
  BY SegmentFacts DEF Erasable
<1>2. TableErased(n) \in Nand
  BY <1>1, NandOps DEF TableErased
<1>3. Writable(TableErased(n)) => Writable(n)
  BY <1>1, WritableErase DEF TableErased, eraseSegment
<1> QED BY <1>1, <1>2, <1>3, WritableWrite DEF AfterTableWrite

\* The new table takes the place of the old one.
LEMMA TableReplaced ==
    ASSUME NEW n \in Nand, Writable(n), NEW u, NEW t
    PROVE  WriteSegmentUsageTable(n, u, t) = u
<1>1. TableSegment \in Segments
  BY SegmentFacts
<1>2. Erasable(n, TableSegment) = EBs
  <2>1. \A b \in EBs : 0 .. b \subseteq EBs
    BY LogAssumption DEF EBs
  <2> QED BY <2>1 DEF Erasable, Writable
<1>3. TableErased(n).full[TableSegment] = {}
  BY <1>1, <1>2 DEF TableErased, eraseSegment, Flash_Erase, Nand
<1> QED BY <1>3 DEF WriteSegmentUsageTable, TableFails, WriteFails

LEMMA WritableStrayErase ==
    ASSUME NEW n \in Nand
    PROVE  Writable(StrayErase(n)) => Writable(n)
<1> DEFINE s == 2 * CkptSegment
           bs == {b \in EBs : NextSector = b * BlockSectors /\ n.wear[s][b] < WearLimit}
<1>1. bs \in SUBSET EBs
  OBVIOUS
<1>2. StrayErase(n) = IF s \in DataSegments THEN Flash_Erase(n, s, bs) ELSE n
  BY DEF StrayErase
<1> HIDE DEF s, bs
<1>3. DataSegments \subseteq Segments
  BY SegmentFacts
<1> QED BY <1>1, <1>2, <1>3, WritableErase

\* The devices that writing out the tail goes through.
LEMMA WritableFilled ==
    ASSUME TypeOK, tail.seg \in DataSegments
    PROVE  LET n == Flash_Write(AfterPartialErase, tail.seg) IN
           /\ AfterPartialErase \in Nand /\ n \in Nand
           /\ Writable(AfterPartialErase) <=> TableWritable
           /\ Writable(n) <=> TableWritable
<1>1. /\ tail.seg \in Segments /\ tail.seg # TableSegment
      /\ nand \in Nand /\ Erasable(nand, tail.seg) \in SUBSET EBs
  BY SegmentFacts, LogAssumption DEF TypeOK, Erasable, DataSegments, FirstSegment, TableSegment
<1>2. TableWritable <=> Writable(nand)
  BY DEF TableWritable, Writable
<1>3. Writable(AfterPartialErase) <=> Writable(nand)
  BY <1>1, WritableErase DEF AfterPartialErase, eraseSegment
<1>4. AfterPartialErase \in Nand /\ Flash_Write(AfterPartialErase, tail.seg) \in Nand
  BY FillDevice
<1> QED BY <1>1, <1>2, <1>3, <1>4, WritableWrite

\* A step that erases something leaves the table no more writable.
LEMMA WritableKept ==
    ASSUME TypeOK, [AppendNext]_vars
    PROVE  TableWritable' => TableWritable
<1>1. TableWritable <=> Writable(nand)
  BY DEF TableWritable, Writable
<1>2. TableWritable' <=> Writable(nand')
  BY DEF TableWritable, Writable
<1>3. nand \in Nand
  BY DEF TypeOK
<1>4. ASSUME NEW o \in Owners, NEW d \in Data, Log_Write(o, d)
      PROVE  Writable(nand') => Writable(nand)
  <2> DEFINE n == Flash_Write(AfterPartialErase, tail.seg)
  <2>1. CASE nand' = nand
    BY <2>1
  <2>2. CASE FillsTail
    <3>1. /\ AfterPartialErase \in Nand /\ n \in Nand
          /\ Writable(AfterPartialErase) <=> TableWritable
          /\ Writable(n) <=> TableWritable
      BY <2>2, FillsTailFacts, WritableFilled
    <3>2. \/ nand' = nand
          \/ nand' = AfterPartialErase
          \/ nand' = AfterTableWrite(AfterPartialErase)
          \/ nand' = AfterTableWrite(n)
          \/ nand' = StrayErase(AfterTableWrite(n))
      BY <1>4, CheckpointEffect DEF Log_Write, WriteToFullFlash, WriteWithoutEmptyBlock, WriteBlock,
         FillEraseFails, FillWriteFails, FillWritten, FillDuplicate, flashVars, NoCheckpoint,
         CheckpointNow
    <3> HIDE DEF n
    <3>3. AfterTableWrite(n) \in Nand
      BY <3>1, TableOps
    <3> QED BY <1>1, <3>1, <3>2, <3>3, WritableTable, WritableStrayErase
  <2> QED BY <1>4, <2>1, <2>2 DEF Log_Write, WriteToFullFlash, WriteWithoutEmptyBlock,
             WriteBlock, FillEraseFails, FillWriteFails, FillWritten, FillDuplicate, flashVars
<1>5. ASSUME NEW o \in Owners, NEW d \in Data, CrashInPartialErase(o, d)
      PROVE  Writable(nand') => Writable(nand)
  <2>1. PICK bs \in Prefixes : nand' = Flash_Erase(nand, tail.seg, bs)
    BY <1>5 DEF CrashInPartialErase
  <2>2. tail.seg \in Segments
    BY <1>5, FillsTailFacts, SegmentFacts DEF CrashInPartialErase
  <2> QED BY <1>3, <2>1, <2>2, PrefixesAreEBs, WritableErase
<1>6. ASSUME NEW o \in Owners, NEW d \in Data, CrashInWrite(o, d)
      PROVE  Writable(nand') => Writable(nand)
  <2>1. PICK bs \in Prefixes : nand' = [AfterPartialErase EXCEPT !.full[tail.seg] = bs]
    BY <1>6 DEF CrashInWrite
  <2>2. Writable(AfterPartialErase) => TableWritable
    BY <1>6, FillsTailFacts, WritableFilled DEF CrashInWrite
  <2> QED BY <1>1, <2>1, <2>2 DEF Writable
<1>7. ASSUME NEW o \in Owners, NEW d \in Data,
             CrashInTableWrite(o, d) \/ CrashBeforeCheckpoint(o, d)
      PROVE  Writable(nand') => Writable(nand)
  <2> DEFINE n == Flash_Write(AfterPartialErase, tail.seg)
  <2>1. /\ FillsTail
        /\ \/ nand' = TableErased(n)
           \/ nand' = AfterTableWrite(n)
           \/ nand' = StrayErase(AfterTableWrite(n))
    BY <1>7 DEF CrashInTableWrite, CrashBeforeCheckpoint
  <2>2. n \in Nand /\ (Writable(n) <=> TableWritable)
    BY <2>1, FillsTailFacts, WritableFilled
  <2> HIDE DEF n
  <2>3. AfterTableWrite(n) \in Nand
    BY <2>2, TableOps
  <2> QED BY <1>1, <2>1, <2>2, <2>3, WritableTable, WritableStrayErase
<1>8. CASE Unmount
  <2>1. nand' = StrayErase(nand)
    BY <1>8, CheckpointEffect DEF Unmount
  <2> QED BY <1>1, <1>2, <1>3, <2>1, WritableStrayErase
<1>9. CASE nand' = nand
  BY <1>9 DEF TableWritable
<1> QED BY <1>1, <1>2, <1>4, <1>5, <1>6, <1>7, <1>8, <1>9
        DEF AppendNext, AppendStep, Log_Read, UpdateIFileINode, Crash, Mount, flashVars, vars

----------------------------------------------------------------------------
(* Inodes whose blocks are on a flash with the segments m and the table u, *)
(* or there and in a tail t.                                               *)

OnFlash(f, m) ==
    \A o \in Owners : f[o] # NoAddress =>
        m[f[o].seg][f[o].blk] = [own |-> o, val |-> f[o].val]

InLog(f, m, t) ==
    \A o \in Owners : f[o] # NoAddress =>
        (IF f[o].seg = t.seg THEN t.slots ELSE m[f[o].seg])[f[o].blk]
            = [own |-> o, val |-> f[o].val]

\* The places of segment s that an inode names.
PlacesIn(f, s) ==
    {b \in 1 .. SegBlocks :
        \E o \in Owners : f[o] # NoAddress /\ f[o].seg = s /\ f[o].blk = b}

Covers(u, f, S) == \A s \in S : Cardinality(PlacesIn(f, s)) <= u[s]

Settled(f, m, u) == OnFlash(f, m) /\ Covers(u, f, DataSegments)

Held(f, m, t, u) == InLog(f, m, t) /\ Covers(u, f, DataSegments \ {t.seg})

LEMMA PlacesFacts ==
    ASSUME NEW f, NEW s
    PROVE  /\ PlacesIn(f, s) \subseteq 1 .. SegBlocks
           /\ Cardinality(PlacesIn(f, s)) \in 0 .. SegBlocks
           /\ PlacesIn(f, s) # {} => Cardinality(PlacesIn(f, s)) > 0
<1>1. PlacesIn(f, s) \subseteq 1 .. SegBlocks
  BY DEF PlacesIn
<1> QED BY <1>1, BlockSets

\* Nothing the flash has is in a segment without live bytes, so a new tail
\* may reuse one.
LEMMA SettledBeforeCleanTail ==
    ASSUME NEW f \in INode, NEW m, NEW u \in Usage, Settled(f, m, u),
           NEW t, t.seg \in DataSegments => u[t.seg] = 0
    PROVE  Held(f, m, t, u)
<1>1. ASSUME NEW o \in Owners, f[o] # NoAddress PROVE f[o].seg # t.seg
  <2> SUFFICES ASSUME f[o].seg = t.seg PROVE FALSE
    OBVIOUS
  <2>1. f[o].seg \in DataSegments /\ f[o].blk \in 1 .. SegBlocks
    BY <1>1, AddressFields
  <2>2. f[o].blk \in PlacesIn(f, t.seg)
    BY <1>1, <2>1 DEF PlacesIn
  <2>3. Cardinality(PlacesIn(f, t.seg)) > 0 /\ Cardinality(PlacesIn(f, t.seg)) \in Nat
    BY <2>2, PlacesFacts
  <2>4. Cardinality(PlacesIn(f, t.seg)) <= 0
    BY <2>1 DEF Settled, Covers
  <2> QED BY <2>3, <2>4
<1> QED BY <1>1 DEF Settled, Held, OnFlash, InLog, Covers

\* A segment taken up again as the tail still has its blocks.
LEMMA SettledBeforeOldTail ==
    ASSUME NEW f, NEW m, NEW u, Settled(f, m, u), NEW t, t.slots = m[t.seg]
    PROVE  Held(f, m, t, u)
BY DEF Settled, Held, OnFlash, InLog, Covers

\* A place an inode names is not empty.
LEMMA PlacesNotEmpty ==
    ASSUME NEW f \in INode, NEW m, NEW t, InLog(f, m, t),
           NEW o \in Owners, f[o] # NoAddress, f[o].seg = t.seg
    PROVE  f[o].blk \in 1 .. SegBlocks /\ t.slots[f[o].blk] # NO_INUM
<1>1. f[o].val \in Data /\ f[o].blk \in 1 .. SegBlocks
  BY AddressFields
<1>2. t.slots[f[o].blk] = [own |-> o, val |-> f[o].val]
  BY DEF InLog
<1> QED BY <1>1, <1>2, LogAssumption DEF Slot

\* More blocks in empty places of the tail, and other counts for it.
LEMMA HeldKept ==
    ASSUME NEW f \in INode, NEW m, NEW t, NEW u, Held(f, m, t, u),
           NEW n, NEW r, NEW v, r.seg = t.seg,
           \A b \in 1 .. SegBlocks : t.slots[b] # NO_INUM => r.slots[b] = t.slots[b],
           \A s \in DataSegments \ {t.seg} : n[s] = m[s] /\ v[s] = u[s]
    PROVE  Held(f, n, r, v)
<1>1. ASSUME NEW o \in Owners, f[o] # NoAddress
      PROVE  (IF f[o].seg = r.seg THEN r.slots ELSE n[f[o].seg])[f[o].blk]
                = [own |-> o, val |-> f[o].val]
  <2>1. f[o].seg \in DataSegments
    BY <1>1, AddressFields
  <2>2. CASE f[o].seg = t.seg
    <3>1. f[o].blk \in 1 .. SegBlocks /\ t.slots[f[o].blk] # NO_INUM
      BY <1>1, <2>2, PlacesNotEmpty DEF Held
    <3> QED BY <1>1, <2>2, <3>1 DEF Held, InLog
  <2>3. CASE f[o].seg # t.seg
    BY <1>1, <2>1, <2>3 DEF Held, InLog
  <2> QED BY <2>2, <2>3
<1>2. Covers(v, f, DataSegments \ {r.seg})
  BY DEF Held, Covers
<1> QED BY <1>1, <1>2 DEF Held, InLog

\* The tail written out with new blocks in empty places, and recounted.
LEMMA HeldIsWritten ==
    ASSUME NEW f \in INode, NEW m \in [DataSegments -> Slots], NEW t, NEW u \in Usage,
           Held(f, m, t, u), t.seg \in DataSegments,
           NEW slots \in Slots,
           \A b \in 1 .. SegBlocks : t.slots[b] # NO_INUM => slots[b] = t.slots[b]
    PROVE  /\ OnFlash(f, [m EXCEPT ![t.seg] = slots])
           /\ Covers([u EXCEPT ![t.seg] = LiveBlocks(slots)], f, DataSegments)
<1> DEFINE n == [m EXCEPT ![t.seg] = slots]
           v == [u EXCEPT ![t.seg] = LiveBlocks(slots)]
<1>1. n[t.seg] = slots /\ \A s \in DataSegments \ {t.seg} : n[s] = m[s]
  OBVIOUS
<1>2. v[t.seg] = LiveBlocks(slots) /\ \A s \in DataSegments \ {t.seg} : v[s] = u[s]
  BY DEF Usage
<1> HIDE DEF n, v
<1>3. ASSUME NEW o \in Owners, f[o] # NoAddress
      PROVE  /\ n[f[o].seg][f[o].blk] = [own |-> o, val |-> f[o].val]
             /\ f[o].seg = t.seg => slots[f[o].blk] # NO_INUM
  <2>1. f[o].seg \in DataSegments
    BY <1>3, AddressFields
  <2>2. CASE f[o].seg = t.seg
    <3>1. f[o].blk \in 1 .. SegBlocks /\ t.slots[f[o].blk] # NO_INUM
      BY <1>3, <2>2, PlacesNotEmpty DEF Held
    <3> QED BY <1>1, <1>3, <2>2, <3>1 DEF Held, InLog
  <2>3. CASE f[o].seg # t.seg
    BY <1>1, <1>3, <2>1, <2>3 DEF Held, InLog
  <2> QED BY <2>2, <2>3
<1>4. OnFlash(f, n)
  BY <1>3 DEF OnFlash
<1>5. Covers(v, f, DataSegments)
  <2> SUFFICES ASSUME NEW s \in DataSegments
               PROVE  Cardinality(PlacesIn(f, s)) <= v[s]
    BY DEF Covers
  <2>1. CASE s = t.seg
    <3>1. PlacesIn(f, s) \subseteq {b \in 1 .. SegBlocks : slots[b] # NO_INUM}
      BY <1>3, <2>1 DEF PlacesIn
    <3> QED BY <1>2, <2>1, <3>1, LiveBlocksCounts
  <2>2. CASE s # t.seg
    BY <1>2, <2>2 DEF Held, Covers
  <2> QED BY <2>1, <2>2
<1> QED BY <1>4, <1>5 DEF n, v

----------------------------------------------------------------------------
(* What is saved is on flash, and what a mount makes of it stays there.    *)

\* The inductive invariant, while the usage table can be replaced.  The
\* blocks the newest checkpoint leads to are on flash and counted in the table
\* there.  Mounted, those, and those of the ifile inode that the next
\* checkpoint may save, are kept by what is written meanwhile, since the
\* counts in memory are the ones on flash; and the ifile inode that unmounting
\* would save is one whose blocks have been written out, unless the flash
\* refused the tail.
SavedInv ==
    /\ Settled(saved.root, media, table)
    /\ \A s \in DataSegments : table[s] <= SegBlocks
    /\ UsageCoversLive
    /\ LiveStored
    /\ up => /\ usage = table
             /\ Held(saved.root, media, tail, usage)
             /\ Held(iFileINode, media, tail, usage)
             /\ ~ TailRefused => Settled(ckptINode, media, table)

LEMMA INodes ==
    TypeOK => saved.root \in INode /\ iFileINode \in INode /\ ckptINode \in INode
              /\ blocks \in INode
BY DEF TypeOK

\* LogInv says of the client's blocks what Held says of an inode.
LEMMA BlocksAreHeld ==
    ASSUME LogInv
    PROVE  Held(blocks, media, tail, usage)
<1>1. \A s : LiveIn(s) = PlacesIn(blocks, s)
  BY DEF LiveIn, PlacesIn
<1> QED BY <1>1 DEF LogInv, UsageCoversLive, LiveStored, Held, InLog, Covers

LEMMA InitSavedInv == Init => SavedInv
<1> SUFFICES ASSUME Init PROVE SavedInv
  OBVIOUS
<1>1. LogInv
  BY InitLogInv
<1>2. /\ media[FirstSegment] = FirstSlots /\ FirstSegment \in DataSegments
      /\ table = FirstUsage /\ usage = FirstUsage
      /\ saved.root = FirstBlocks /\ iFileINode = FirstBlocks /\ ckptINode = FirstBlocks
      /\ tail.seg = FirstSegment /\ tail.slots = FirstSlots
  BY SegmentFacts DEF Init, mklfs, FirstMount
<1>3. OnFlash(FirstBlocks, media)
  BY <1>2, FirstFacts DEF OnFlash
<1>4. ASSUME NEW s \in DataSegments
      PROVE  /\ Cardinality(PlacesIn(FirstBlocks, s)) <= FirstUsage[s]
             /\ FirstUsage[s] <= SegBlocks
  <2>1. CASE s = FirstSegment
    <3>1. PlacesIn(FirstBlocks, s) \subseteq 1 .. Len(Formatted)
      <4> SUFFICES ASSUME NEW o \in Owners, FirstBlocks[o] # NoAddress
                   PROVE  FirstBlocks[o].blk \in 1 .. Len(Formatted)
        BY DEF PlacesIn
      <4>1. FirstBlocks[o].blk \in 1 .. SegBlocks
        BY FirstFacts, AddressFields
      <4>2. FirstSlots[FirstBlocks[o].blk] = [own |-> o, val |-> FirstBlocks[o].val]
        BY FirstFacts
      <4>3. FirstBlocks[o].val \in Data
        BY FirstFacts, AddressFields
      <4>4. FirstSlots[FirstBlocks[o].blk] # NO_INUM
        BY <4>2, <4>3, LogAssumption DEF Slot
      <4>5. FirstBlocks[o].blk \in DOMAIN Formatted
        BY <4>1, <4>4 DEF FirstSlots
      <4> QED BY <4>5, LogAssumption
    <3>2. IsFiniteSet(1 .. Len(Formatted)) /\ Cardinality(1 .. Len(Formatted)) = Len(Formatted)
      <4>1. Len(Formatted) \in 1 .. SegBlocks - 1 /\ SegBlocks \in Nat
        BY LogAssumption
      <4> DEFINE k == Len(Formatted)
      <4>2. k \in Nat /\ 1 <= k
        BY <4>1
      <4> HIDE DEF k
      <4>3. IsFiniteSet(1 .. k) /\ Cardinality(1 .. k) = k
        BY <4>2, FS_Interval
      <4> QED BY <4>3 DEF k
    <3>3. Cardinality(PlacesIn(FirstBlocks, s)) <= Len(Formatted)
      BY <3>1, <3>2, FS_Subset
    <3> QED BY <2>1, <3>3, LogAssumption DEF FirstUsage
  <2>2. CASE s # FirstSegment
    <3>1. PlacesIn(FirstBlocks, s) = {}
      BY <2>2, FirstFacts DEF PlacesIn
    <3> QED BY <2>2, <3>1, FS_EmptySet, LogAssumption DEF FirstUsage
  <2> QED BY <2>1, <2>2
<1>5. Settled(FirstBlocks, media, FirstUsage)
  BY <1>3, <1>4 DEF Settled, Covers
<1>6. Held(FirstBlocks, media, tail, FirstUsage)
  BY <1>2, <1>5, SettledBeforeOldTail
<1> QED BY <1>1, <1>2, <1>4, <1>5, <1>6 DEF SavedInv, LogInv

\* The tail written out: what the flash leads to is there and counted, in the
\* table that was there before and in the recounted one.
LEMMA FilledSettled ==
    ASSUME TypeOK, SavedInv, FillsTail, NEW o \in Owners, NEW d \in Data,
           NEW m, m = [media EXCEPT ![tail.seg] = Placed(o, d).slots],
           NEW u, u = Recount(usage, Placed(o, d))
    PROVE  /\ Settled(saved.root, m, u)
           /\ Settled(iFileINode, m, u)
           /\ Settled(saved.root, m, table)
           /\ \A s \in DataSegments : u[s] <= SegBlocks
<1> DEFINE slots == Placed(o, d).slots
<1>1. up /\ tail.seg \in DataSegments /\ EmptyBlock(tail.slots) # 0
  BY FillsTailFacts DEF FillsTail
<1>2. /\ Placed(o, d).seg = tail.seg
      /\ slots \in Slots
      /\ \A b \in 1 .. SegBlocks : tail.slots[b] # NO_INUM => slots[b] = tail.slots[b]
  BY <1>1, PlacedFacts
<1>3. u = [usage EXCEPT ![tail.seg] = LiveBlocks(slots)]
  BY <1>2 DEF Recount
<1> HIDE DEF slots
<1>4. /\ media \in [DataSegments -> Slots] /\ usage \in Usage
      /\ saved.root \in INode /\ iFileINode \in INode
      /\ Held(saved.root, media, tail, usage)
      /\ Held(iFileINode, media, tail, usage)
  BY <1>1, INodes DEF TypeOK, SavedInv
<1>5. m = [media EXCEPT ![tail.seg] = slots]
  BY DEF slots
<1>6. ASSUME NEW f \in INode, Held(f, media, tail, usage)
      PROVE  Settled(f, m, u)
  <2>1. /\ OnFlash(f, [media EXCEPT ![tail.seg] = slots])
        /\ Covers([usage EXCEPT ![tail.seg] = LiveBlocks(slots)], f, DataSegments)
    BY <1>1, <1>2, <1>4, <1>6, HeldIsWritten
  <2> QED BY <1>3, <1>5, <2>1 DEF Settled
<1>7. Settled(saved.root, m, table)
  BY <1>4, <1>6 DEF SavedInv, Settled
<1>8. \A s \in DataSegments : u[s] <= SegBlocks
  <2>1. LiveBlocks(slots) <= SegBlocks
    BY <1>2, LiveBlocksCounts
  <2>2. \A s \in DataSegments : usage[s] <= SegBlocks
    BY <1>1 DEF SavedInv
  <2> QED BY <1>3, <1>4, <2>1, <2>2 DEF Usage
<1> QED BY <1>4, <1>6, <1>7, <1>8

\* A step in which the process ends with the memory it had.
LEMMA SavedDied ==
    ASSUME TypeOK, SavedInv, up' = FALSE, UNCHANGED <<tail, usage, blocks>>,
           \A s \in DataSegments \ {tail.seg} : media'[s] = media[s],
           Settled(saved'.root, media', table'),
           \A s \in DataSegments : table'[s] <= SegBlocks
    PROVE  SavedInv'
<1>1. UsageCoversLive' /\ LiveStored'
  BY BlocksKept DEF SavedInv, LogInv
<1> QED BY <1>1 DEF SavedInv

LEMMA SavedFillDuplicate ==
    ASSUME TypeOK, TableWritable, SavedInv, NEW o \in Owners, NEW d \in Data,
           FillDuplicate(o, d)
    PROVE  SavedInv'
<1> DEFINE n == Flash_Write(AfterPartialErase, tail.seg)
           u == Recount(usage, Placed(o, d))
<1>1. /\ FillsTail
      /\ media' = [media EXCEPT ![tail.seg] = Placed(o, d).slots]
      /\ table' = WriteSegmentUsageTable(n, u, table)
      /\ up' = FALSE
      /\ UNCHANGED <<saved, tail, usage, blocks>>
  BY DEF FillDuplicate, memoryVars
<1>2. table' = u
  BY <1>1, FillsTailFacts, WritableFilled, TableReplaced
<1> HIDE DEF n, u
<1>3. /\ Settled(saved'.root, media', table')
      /\ \A s \in DataSegments : table'[s] <= SegBlocks
  BY <1>1, <1>2, FilledSettled DEF u
<1>4. \A s \in DataSegments \ {tail.seg} : media'[s] = media[s]
  BY <1>1 DEF TypeOK
<1> QED BY <1>1, <1>3, <1>4, SavedDied

LEMMA SavedCrashInPartialErase ==
    ASSUME TypeOK, SavedInv, NEW o \in Owners, NEW d \in Data, CrashInPartialErase(o, d)
    PROVE  SavedInv'
<1>1. up' = FALSE /\ UNCHANGED <<media, table, saved, tail, usage, blocks>>
  BY DEF CrashInPartialErase, Died, memoryVars
<1> QED BY <1>1, SavedDied DEF SavedInv

LEMMA SavedCrashInWrite ==
    ASSUME TypeOK, SavedInv, NEW o \in Owners, NEW d \in Data, CrashInWrite(o, d)
    PROVE  SavedInv'
<1>1. /\ FillsTail
      /\ media' = [media EXCEPT ![tail.seg] = Placed(o, d).slots]
      /\ up' = FALSE
      /\ UNCHANGED <<table, saved, tail, usage, blocks>>
  BY DEF CrashInWrite, Died, memoryVars
<1>2. Settled(saved'.root, media', table')
  BY <1>1, FilledSettled
<1>3. \A s \in DataSegments \ {tail.seg} : media'[s] = media[s]
  BY <1>1 DEF TypeOK
<1> QED BY <1>1, <1>2, <1>3, SavedDied DEF SavedInv

LEMMA SavedCrashInTableWrite ==
    ASSUME TypeOK, TableWritable, SavedInv, NEW o \in Owners, NEW d \in Data,
           CrashInTableWrite(o, d)
    PROVE  SavedInv'
<1> DEFINE n == Flash_Write(AfterPartialErase, tail.seg)
           u == Recount(usage, Placed(o, d))
<1>1. /\ FillsTail
      /\ media' = [media EXCEPT ![tail.seg] = Placed(o, d).slots]
      /\ table' \in {table, WriteSegmentUsageTable(n, u, table)}
      /\ up' = FALSE
      /\ UNCHANGED <<saved, tail, usage, blocks>>
  BY DEF CrashInTableWrite, Died, memoryVars
<1>2. table' = table \/ table' = u
  BY <1>1, TableOldOrNew
<1> HIDE DEF n, u
<1>3. /\ Settled(saved'.root, media', table')
      /\ \A s \in DataSegments : table'[s] <= SegBlocks
  BY <1>1, <1>2, FilledSettled DEF u, SavedInv
<1>4. \A s \in DataSegments \ {tail.seg} : media'[s] = media[s]
  BY <1>1 DEF TypeOK
<1> QED BY <1>1, <1>3, <1>4, SavedDied

LEMMA SavedCrashBeforeCheckpoint ==
    ASSUME TypeOK, TableWritable, SavedInv, NEW o \in Owners, NEW d \in Data,
           CrashBeforeCheckpoint(o, d)
    PROVE  SavedInv'
<1> DEFINE n == Flash_Write(AfterPartialErase, tail.seg)
           u == Recount(usage, Placed(o, d))
<1>1. /\ FillsTail
      /\ media' = [media EXCEPT ![tail.seg] = Placed(o, d).slots]
      /\ table' = WriteSegmentUsageTable(n, u, table)
      /\ up' = FALSE
      /\ UNCHANGED <<tail, usage, blocks>>
  BY DEF CrashBeforeCheckpoint, Died, memoryVars
<1>2. saved'.root = saved.root \/ saved'.root = iFileINode
  <2> DEFINE l == LastSegmentWritten(Build(GetCleanSegment(u)), FALSE)
  <2>1. \/ saved' = saved
        \/ saved' = [last |-> l, root |-> iFileINode, sector |-> NextSector]
    BY DEF CrashBeforeCheckpoint
  <2> HIDE DEF l
  <2> QED BY <2>1
<1>3. table' = u
  BY <1>1, FillsTailFacts, WritableFilled, TableReplaced
<1> HIDE DEF n, u
<1>4. /\ Settled(saved'.root, media', table')
      /\ \A s \in DataSegments : table'[s] <= SegBlocks
  BY <1>1, <1>2, <1>3, FilledSettled DEF u
<1>5. \A s \in DataSegments \ {tail.seg} : media'[s] = media[s]
  BY <1>1 DEF TypeOK
<1> QED BY <1>1, <1>4, <1>5, SavedDied

\* A step that leaves the flash and the counts, and writes over empty places of
\* the tail only.
LEMMA SavedKept ==
    ASSUME TypeOK, SavedInv, UNCHANGED <<media, table, saved, usage, iFileINode, ckptINode>>,
           up' => up, tail'.seg = tail.seg,
           \A b \in 1 .. SegBlocks :
               tail.slots[b] # NO_INUM => tail'.slots[b] = tail.slots[b],
           ~ TailRefused' => ~ TailRefused,
           UsageCoversLive', LiveStored'
    PROVE  SavedInv'
<1>1. ASSUME up', NEW f \in INode, Held(f, media, tail, usage)
      PROVE  Held(f, media, tail', usage)
  BY <1>1, HeldKept
<1> QED BY <1>1, INodes DEF SavedInv

LEMMA SavedFillEraseFails ==
    ASSUME TypeOK, SavedInv, NEW o \in Owners, NEW d \in Data, FillEraseFails(o, d)
    PROVE  SavedInv'
<1>1. /\ FillsTail /\ tail' = Placed(o, d)
      /\ UNCHANGED <<media, table, saved, usage, iFileINode, ckptINode, up>>
  BY DEF FillEraseFails
<1>2. /\ ~ TailRefused
      /\ tail'.seg = tail.seg
      /\ \A b \in 1 .. SegBlocks :
            tail.slots[b] # NO_INUM => tail'.slots[b] = tail.slots[b]
  BY <1>1, FillsTailFacts, PlacedFacts DEF TailRefused
<1>3. UsageCoversLive' /\ LiveStored'
  BY FillEraseFailsStep DEF SavedInv, LogInv
<1> QED BY <1>1, <1>2, <1>3, SavedKept

LEMMA SavedWriteBlock ==
    ASSUME TypeOK, SavedInv, NEW o \in Owners, NEW d \in Data, WriteBlock(o, d)
    PROVE  SavedInv'
<1>1. /\ up /\ tail.seg < FlashSize /\ tail' = Placed(o, d)
      /\ EmptyBlock(tail.slots) # 0
      /\ UNCHANGED <<media, table, saved, usage, iFileINode, ckptINode, up>>
  BY LogAssumption DEF WriteBlock, flashVars
<1>2. /\ tail'.seg = tail.seg /\ ~ TailRefused
      /\ \A b \in 1 .. SegBlocks :
            tail.slots[b] # NO_INUM => tail'.slots[b] = tail.slots[b]
  BY <1>1, TailIsData, PlacedFacts DEF TailRefused
<1>3. UsageCoversLive' /\ LiveStored'
  BY WriteBlockStep DEF SavedInv, LogInv
<1> QED BY <1>1, <1>2, <1>3, SavedKept

\* The segment was refused, but the table counts it: it counts no less than
\* what the segment still holds.
LEMMA SavedFillWriteFails ==
    ASSUME TypeOK, TableWritable, SavedInv, NEW o \in Owners, NEW d \in Data,
           FillWriteFails(o, d)
    PROVE  SavedInv'
<1> DEFINE u == Recount(usage, Placed(o, d))
           m == [media EXCEPT ![tail.seg] = Placed(o, d).slots]
<1>1. /\ FillsTail /\ tail' = Placed(o, d)
      /\ usage' = u
      /\ table' = WriteSegmentUsageTable(AfterPartialErase, u, table)
      /\ recoveredWithPartialSegment' = FALSE
      /\ UNCHANGED <<media, saved, iFileINode, up>>
  BY DEF FillWriteFails, SegmentWritten, NoCheckpoint
<1>2. table' = u
  BY <1>1, FillsTailFacts, WritableFilled, TableReplaced
<1>3. /\ tail'.seg = tail.seg
      /\ \A b \in 1 .. SegBlocks :
            tail.slots[b] # NO_INUM => tail'.slots[b] = tail.slots[b]
  BY <1>1, FillsTailFacts, PlacedFacts
<1>4. TailRefused'
  BY <1>1, FilledTailIsFull DEF TailRefused
<1>5. \A s \in DataSegments \ {tail.seg} : u[s] = usage[s]
  BY <1>1, <1>3 DEF Recount, TypeOK, Usage
<1> HIDE DEF u, m
<1>6. /\ Settled(saved.root, m, u)
      /\ \A s \in DataSegments : u[s] <= SegBlocks
  BY <1>1, FilledSettled DEF u, m
<1>7. Settled(saved.root, media, u)
  BY <1>6 DEF SavedInv, Settled
<1>8. ASSUME NEW f \in INode, Held(f, media, tail, usage)
      PROVE  Held(f, media, tail', u)
  BY <1>3, <1>5, <1>8, HeldKept
<1>9. up /\ Held(saved.root, media, tail', u) /\ Held(iFileINode, media, tail', u)
  BY <1>1, <1>8, INodes DEF SavedInv, FillsTail
<1>10. UsageCoversLive' /\ LiveStored'
  BY FillWriteFailsStep DEF SavedInv, LogInv
<1> QED BY <1>1, <1>2, <1>4, <1>6, <1>7, <1>9, <1>10 DEF SavedInv

\* The new tail takes a segment that is counted as empty, which nothing the
\* checkpoint or the ifile inode leads to is in.
LEMMA SavedFillWritten ==
    ASSUME TypeOK, TableWritable, SavedInv, NEW o \in Owners, NEW d \in Data,
           FillWritten(o, d)
    PROVE  SavedInv'
<1> DEFINE n == Flash_Write(AfterPartialErase, tail.seg)
           u == Recount(usage, Placed(o, d))
           w == Saturate(writesSinceLastCheckpoint)
<1>1. /\ FillsTail
      /\ media' = [media EXCEPT ![tail.seg] = Placed(o, d).slots]
      /\ usage' = u
      /\ table' = WriteSegmentUsageTable(n, u, table)
      /\ tail' = Build(GetCleanSegment(u))
      /\ ckptINode' = iFileINode /\ iFileINode' = iFileINode
      /\ up' = up
  BY DEF FillWritten, SegmentWritten
<1>2. saved'.root = saved.root \/ saved'.root = iFileINode
  <2>1. IF w >= Interval
          THEN CheckpointNow(AfterTableWrite(n), tail', FALSE, iFileINode, w)
          ELSE NoCheckpoint(AfterTableWrite(n), w)
    BY DEF FillWritten
  <2> HIDE DEF n, w
  <2> QED BY <2>1, CheckpointEffect DEF NoCheckpoint
<1>3. table' = u
  BY <1>1, FillsTailFacts, WritableFilled, TableReplaced
<1>4. u \in Usage
  BY <1>1, WrittenFacts
<1> HIDE DEF n, u, w
<1>5. /\ Settled(saved.root, media', u)
      /\ Settled(iFileINode, media', u)
      /\ \A s \in DataSegments : u[s] <= SegBlocks
  BY <1>1, FilledSettled DEF u
<1>6. tail'.seg \in DataSegments => u[tail'.seg] = 0
  BY <1>1, <1>4, CleanSegmentIsClean DEF Build
<1>7. /\ Held(saved.root, media', tail', u)
      /\ Held(iFileINode, media', tail', u)
  BY <1>4, <1>5, <1>6, INodes, SettledBeforeCleanTail
<1>8. UsageCoversLive' /\ LiveStored'
  BY FillWrittenStep DEF SavedInv, LogInv
<1> QED BY <1>1, <1>2, <1>3, <1>5, <1>7, <1>8 DEF SavedInv

LEMMA SavedUpdateIFileINode ==
    ASSUME TypeOK, SavedInv, UpdateIFileINode
    PROVE  SavedInv'
<1>1. /\ up /\ iFileINode' = blocks
      /\ TailRefused' <=> TailRefused
      /\ UNCHANGED <<media, table, saved, up, tail, usage, ckptINode>>
  BY DEF UpdateIFileINode, flashVars, TailRefused
<1>2. LogInv
  BY DEF SavedInv, LogInv
<1>3. UsageCoversLive' /\ LiveStored'
  BY <1>2, UpdateIFileINodeStep DEF LogInv
<1> QED BY <1>1, <1>2, <1>3, BlocksAreHeld DEF SavedInv

LEMMA SavedUnmount ==
    ASSUME TypeOK, SavedInv, Unmount, ~ misled'
    PROVE  SavedInv'
<1>1. /\ up /\ up' = FALSE
      /\ ~ TailRefused \/ saved' = saved
      /\ UNCHANGED <<media, table, tail, usage, blocks>>
  BY DEF Unmount, Misled
<1>2. saved'.root = saved.root \/ saved'.root = ckptINode
  <2>1. CheckpointNow(nand, tail, recoveredWithPartialSegment, ckptINode,
                      writesSinceLastCheckpoint)
    BY DEF Unmount
  <2> QED BY <2>1, CheckpointEffect
<1>3. Settled(saved'.root, media', table')
  BY <1>1, <1>2 DEF SavedInv
<1> QED BY <1>1, <1>3, SavedDied DEF SavedInv

\* The blocks a mount comes back with are those of the checkpoint, and the tail
\* it builds is the segment as it is on flash, or one counted as empty.
LEMMA SavedMount ==
    ASSUME TypeOK, SavedInv, Mount
    PROVE  SavedInv'
<1>1. /\ usage' = table
      /\ tail' = RecoveredTail(table)
      /\ iFileINode' = saved.root /\ ckptINode' = saved.root
      /\ blocks' = saved.root
      /\ UNCHANGED <<media, table, saved>>
  BY DEF Mount, flashVars, ReadSegmentUsageTable
<1>3. table \in Usage /\ saved.root \in INode
  BY INodes DEF TypeOK
<1>4. Held(saved.root, media, tail', table)
  <2>1. CASE media[saved.last][SegBlocks] # NO_INUM
    <3>1. tail'.seg = GetCleanSegment(table)
      BY <1>1, <2>1 DEF RecoveredTail, Build
    <3>2. tail'.seg \in DataSegments => table[tail'.seg] = 0
      BY <1>3, <3>1, CleanSegmentIsClean
    <3> QED BY <1>3, <3>2, SettledBeforeCleanTail DEF SavedInv
  <2>2. CASE media[saved.last][SegBlocks] = NO_INUM
    <3>1. tail'.slots = media[tail'.seg]
      BY <1>1, <2>2 DEF RecoveredTail
    <3> QED BY <3>1, SettledBeforeOldTail DEF SavedInv
  <2> QED BY <2>1, <2>2
<1>5. \A s : LiveIn(s)' = PlacesIn(saved.root, s)
  BY <1>1 DEF LiveIn, PlacesIn
<1>6. UsageCoversLive'
  BY <1>1, <1>5 DEF SavedInv, Settled, Covers, UsageCoversLive
<1>7. LiveStored'
  BY <1>1, <1>4 DEF Held, InLog, LiveStored
<1> QED BY <1>1, <1>4, <1>6, <1>7 DEF SavedInv

LEMMA SavedInvStep ==
    ASSUME TypeOK, TableWritable /\ ~ misled => SavedInv, [AppendNext]_recoveryVars,
           TableWritable', ~ misled'
    PROVE  SavedInv'
<1>1. TableWritable /\ ~ misled /\ SavedInv
  <2>1. [AppendNext]_vars
    BY DEF recoveryVars
  <2>2. ~ misled
    BY DEF AppendNext, Unmount, Misled, recoveryVars
  <2> QED BY <2>1, <2>2, WritableKept
<1>2. LogInv
  BY <1>1 DEF SavedInv, LogInv
<1>3. ASSUME NEW o \in Owners, NEW d \in Data, Log_Write(o, d) PROVE SavedInv'
  <2>1. CASE WriteToFullFlash(o, d)
    <3>1. UsageCoversLive' /\ LiveStored'
      BY <1>2, <2>1, WriteToFullFlashStep DEF LogInv
    <3> QED BY <1>1, <2>1, <3>1, SavedKept DEF WriteToFullFlash, flashVars, TailRefused
  <2>2. CASE WriteWithoutEmptyBlock(o, d)
    <3>1. UsageCoversLive' /\ LiveStored'
      BY <1>2, <2>2, WriteWithoutEmptyBlockStep DEF LogInv
    <3> QED BY <1>1, <2>2, <3>1, SavedKept
            DEF WriteWithoutEmptyBlock, flashVars, memoryVars, TailRefused
  <2> QED BY <1>1, <1>3, <2>1, <2>2, SavedWriteBlock, SavedFillEraseFails,
             SavedFillWriteFails, SavedFillWritten, SavedFillDuplicate DEF Log_Write
<1>4. ASSUME NEW o \in Owners, NEW d \in Data,
             \/ CrashInPartialErase(o, d)
             \/ CrashInWrite(o, d)
             \/ CrashInTableWrite(o, d)
             \/ CrashBeforeCheckpoint(o, d)
      PROVE  SavedInv'
  BY <1>1, <1>4, SavedCrashInPartialErase, SavedCrashInWrite, SavedCrashInTableWrite,
     SavedCrashBeforeCheckpoint
<1>5. ASSUME NEW o \in Owners, Log_Read(o) PROVE SavedInv'
  <2>1. UsageCoversLive' /\ LiveStored'
    BY <1>2, <1>5, Log_ReadStep DEF LogInv
  <2>2. /\ up /\ (TailRefused' <=> TailRefused)
        /\ UNCHANGED <<media, table, saved, tail, usage, iFileINode, ckptINode>>
    BY <1>5 DEF Log_Read, flashVars, TailRefused
  <2> QED BY <1>1, <2>1, <2>2, SavedKept
<1>6. CASE UpdateIFileINode
  BY <1>1, <1>6, SavedUpdateIFileINode
<1>7. CASE Crash
  <2>1. up' = FALSE /\ UNCHANGED <<media, table, saved, tail, usage, blocks>>
    BY <1>7 DEF Crash, Died, flashVars, memoryVars
  <2> QED BY <1>1, <2>1, SavedDied DEF SavedInv
<1>8. CASE Unmount
  BY <1>1, <1>8, SavedUnmount
<1>9. CASE Mount
  BY <1>1, <1>9, SavedMount
<1>10. CASE UNCHANGED recoveryVars
  <2>1. /\ UNCHANGED <<media, table, saved, up, tail, usage, iFileINode, ckptINode, blocks>>
        /\ TailRefused' <=> TailRefused
    BY <1>10 DEF recoveryVars, vars, flashVars, memoryVars, TailRefused
  <2>2. UsageCoversLive' /\ LiveStored'
    BY <1>2, <2>1, BlocksKept
  <2> QED BY <1>1, <2>1, <2>2, SavedKept
<1> QED BY <1>3, <1>4, <1>5, <1>6, <1>7, <1>8, <1>9, <1>10 DEF AppendNext, AppendStep

\* While the usage table can be replaced and no refused tail was unmounted, a
\* mount, a death or a refused write leaves the state as SavedInv has it: flash,
\* table and memory agree on the blocks that the next recovery needs.
THEOREM RecoveryInvariant == AppendSpec => [](TableWritable /\ ~ misled => SavedInv)
<1>1. AppendInit => (TableWritable /\ ~ misled => SavedInv)
  BY InitSavedInv DEF AppendInit
<1>2. TypeOK /\ (TableWritable /\ ~ misled => SavedInv) /\ [AppendNext]_recoveryVars
        => (TableWritable /\ ~ misled => SavedInv)'
  BY SavedInvStep
<1> QED BY <1>1, <1>2, RecoveryTypeCorrect, PTL DEF AppendSpec

\* Whatever was written, refused, crashed, unmounted or mounted: the newest
\* checkpoint leads to blocks that are on flash, with the contents they had
\* when their addresses were saved, until the file system is unmounted with a
\* tail that the flash refused.
THEOREM RecoveryKeepsSavedRoot == AppendSpec => []SavedRootIntact
<1>1. (TableWritable /\ ~ misled => SavedInv) => SavedRootIntact
  BY DEF SavedInv, Settled, OnFlash, SavedRootIntact, SavedRootOnFlash
<1> QED BY <1>1, RecoveryInvariant, PTL

\* In every mount of such a checkpoint the blocks that the recovered ifile
\* names, and those written since, are where their addresses say.
THEOREM RecoveryKeepsBlocks == AppendSpec => []RecoveredLiveStored
<1>1. (TableWritable /\ ~ misled => SavedInv) => RecoveredLiveStored
  BY DEF SavedInv, RecoveredLiveStored
<1> QED BY <1>1, RecoveryInvariant, PTL

----------------------------------------------------------------------------
(* Counts.  They do not depend on what the flash holds, so that they also   *)
(* cover the blocks of a checkpoint that was misled.                        *)

\* While the usage table can be replaced, the counts in memory are the ones on
\* flash, and cover the blocks of every ifile inode that a checkpoint has, is
\* about to get, or may get later.
CoverInv ==
    /\ Covers(table, saved.root, DataSegments)
    /\ \A s \in DataSegments : table[s] <= SegBlocks
    /\ UsageCoversLive
    /\ up => /\ usage = table
             /\ Covers(table, ckptINode, DataSegments)
             /\ Covers(table, iFileINode, DataSegments \ {tail.seg})

LEMMA LiveArePlaces ==
    /\ \A s : LiveIn(s) = PlacesIn(blocks, s)
    /\ UsageCoversLive <=> /\ Covers(usage, blocks, DataSegments \ {tail.seg})
                           /\ \A s \in DataSegments \ {tail.seg} : usage[s] <= SegBlocks
<1>1. \A s : LiveIn(s) = PlacesIn(blocks, s)
  BY DEF LiveIn, PlacesIn
<1> QED BY <1>1 DEF UsageCoversLive, Covers

\* Nothing but the client's blocks, the tail's number and the counts matter.
LEMMA CoverKept ==
    ASSUME UsageCoversLive, UNCHANGED <<usage, blocks>>, tail'.seg = tail.seg
    PROVE  UsageCoversLive'
<1>1. \A s : LiveIn(s)' = LiveIn(s)
  BY DEF LiveIn
<1> QED BY <1>1 DEF UsageCoversLive

LEMMA PlacesSubset ==
    ASSUME NEW f, NEW g, NEW s, PlacesIn(f, s) \subseteq PlacesIn(g, s)
    PROVE  Cardinality(PlacesIn(f, s)) <= Cardinality(PlacesIn(g, s))
<1>1. IsFiniteSet(PlacesIn(g, s))
  BY PlacesFacts, BlockSets
<1> QED BY <1>1, FS_Subset

\* All the places of a tail written out are counted.
LEMMA AllPlacesCounted ==
    ASSUME TypeOK, FillsTail, NEW o \in Owners, NEW d \in Data, NEW f
    PROVE  /\ Cardinality(PlacesIn(f, tail.seg)) <= Recount(usage, Placed(o, d))[tail.seg]
           /\ Recount(usage, Placed(o, d))[tail.seg] <= SegBlocks
           /\ Recount(usage, Placed(o, d)) \in Usage
           /\ tail.seg \in DataSegments
           /\ \A s \in DataSegments \ {tail.seg} :
                 Recount(usage, Placed(o, d))[s] = usage[s]
<1> DEFINE slots == Placed(o, d).slots
           u == Recount(usage, Placed(o, d))
<1>1. /\ tail.seg \in DataSegments /\ Placed(o, d).seg = tail.seg
      /\ EmptyBlock(slots) = 0
  BY FilledTailIsFull
<1>2. slots \in Slots
  BY PlacedFacts, FillsTailFacts
<1>3. u = [usage EXCEPT ![tail.seg] = LiveBlocks(slots)] /\ u \in Usage
  BY <1>1, WrittenFacts DEF Recount
<1> HIDE DEF slots, u
<1>4. \A b \in 1 .. SegBlocks : slots[b] # NO_INUM
  BY <1>1, <1>2, EmptyBlockIsEmpty
<1>5. PlacesIn(f, tail.seg) \subseteq {b \in 1 .. SegBlocks : slots[b] # NO_INUM}
  BY <1>4, PlacesFacts
<1>6. /\ Cardinality(PlacesIn(f, tail.seg)) <= LiveBlocks(slots)
      /\ LiveBlocks(slots) <= SegBlocks
  BY <1>2, <1>5, LiveBlocksCounts
<1>7. u[tail.seg] = LiveBlocks(slots) /\ \A s \in DataSegments \ {tail.seg} : u[s] = usage[s]
  BY <1>1, <1>3 DEF TypeOK, Usage
<1> QED BY <1>1, <1>3, <1>6, <1>7 DEF u

LEMMA FilledCovers ==
    ASSUME TypeOK, FillsTail, NEW o \in Owners, NEW d \in Data,
           NEW u, u = Recount(usage, Placed(o, d)),
           \A s \in DataSegments \ {tail.seg} : usage[s] <= SegBlocks
    PROVE  /\ \A f : Covers(usage, f, DataSegments \ {tail.seg}) => Covers(u, f, DataSegments)
           /\ \A s \in DataSegments : u[s] <= SegBlocks
           /\ u \in Usage /\ tail.seg \in DataSegments
           /\ \A s \in DataSegments \ {tail.seg} : u[s] = usage[s]
BY AllPlacesCounted DEF Covers

LEMMA InitCoverInv == Init => CoverInv
<1> SUFFICES ASSUME Init PROVE CoverInv
  OBVIOUS
<1>1. SavedInv
  BY InitSavedInv
<1> QED BY <1>1 DEF SavedInv, CoverInv, Settled, Held, Covers, Init, FirstMount, mklfs

LEMMA CoverFillWrites ==
    ASSUME TypeOK, TableWritable, CoverInv, NEW o \in Owners, NEW d \in Data,
           FillWriteFails(o, d) \/ FillWritten(o, d)
    PROVE  CoverInv'
<1> DEFINE u == Recount(usage, Placed(o, d))
           w == Saturate(writesSinceLastCheckpoint)
<1>1. /\ FillsTail /\ up /\ up' = up
      /\ usage' = u /\ table' = u
      /\ ckptINode' = iFileINode /\ iFileINode' = iFileINode
  <2>1. tail.seg \in DataSegments
    BY FillsTailFacts DEF FillWriteFails, FillWritten
  <2> QED BY <2>1, WritableFilled, TableReplaced
          DEF FillWriteFails, FillWritten, SegmentWritten, FillsTail
<1>2. saved'.root = saved.root \/ saved'.root = iFileINode
  <2> DEFINE n == Flash_Write(AfterPartialErase, tail.seg)
  <2>1. \/ NoCheckpoint(AfterTableWrite(AfterPartialErase), w)
        \/ NoCheckpoint(AfterTableWrite(n), w)
        \/ CheckpointNow(AfterTableWrite(n), tail', FALSE, iFileINode, w)
    BY DEF FillWriteFails, FillWritten
  <2> HIDE DEF n, w
  <2> QED BY <2>1, CheckpointEffect DEF NoCheckpoint
<1>3. /\ \A s \in DataSegments \ {tail.seg} : usage[s] <= SegBlocks
      /\ Covers(usage, saved.root, DataSegments \ {tail.seg})
      /\ Covers(usage, iFileINode, DataSegments \ {tail.seg})
      /\ Covers(usage, blocks, DataSegments \ {tail.seg})
  BY <1>1, LiveArePlaces DEF CoverInv, Covers
<1>4. \/ tail'.seg = tail.seg /\ blocks' = blocks
      \/ /\ tail'.seg \in DataSegments => u[tail'.seg] = 0
         /\ blocks' = [blocks EXCEPT ![o] = [seg |-> tail.seg,
                                     blk |-> EmptyBlock(tail.slots), val |-> d]]
  <2>1. CASE FillWriteFails(o, d)
    BY <2>1, FilledTailIsFull DEF FillWriteFails
  <2>2. CASE FillWritten(o, d)
    <3>1. tail' = Build(GetCleanSegment(u)) /\ u \in Usage
      BY <1>1, <1>3, <2>2, FilledCovers DEF FillWritten
    <3> HIDE DEF u
    <3> QED BY <2>2, <3>1, CleanSegmentIsClean DEF FillWritten, Addressed, Build
  <2> QED BY <2>1, <2>2
<1> HIDE DEF u, w
<1>5. /\ \A f : Covers(usage, f, DataSegments \ {tail.seg}) => Covers(u, f, DataSegments)
      /\ \A s \in DataSegments : u[s] <= SegBlocks
      /\ u \in Usage /\ tail.seg \in DataSegments
      /\ \A s \in DataSegments \ {tail.seg} : u[s] = usage[s]
  BY <1>1, <1>3, FilledCovers DEF u
<1>6. Covers(u, blocks', DataSegments \ {tail'.seg})
  <2> SUFFICES ASSUME NEW s \in DataSegments \ {tail'.seg}
               PROVE  Cardinality(PlacesIn(blocks', s)) <= u[s]
    BY DEF Covers
  <2>1. CASE s = tail.seg
    BY <1>1, <2>1, AllPlacesCounted DEF u
  <2>2. CASE s # tail.seg
    <3>1. PlacesIn(blocks', s) \subseteq PlacesIn(blocks, s)
      BY <1>4, <2>2 DEF PlacesIn, TypeOK, INode
    <3>2. Cardinality(PlacesIn(blocks', s)) <= Cardinality(PlacesIn(blocks, s))
      BY <3>1, PlacesSubset
    <3>3. Cardinality(PlacesIn(blocks, s)) <= u[s]
      BY <1>3, <1>5 DEF Covers
    <3>4. /\ Cardinality(PlacesIn(blocks', s)) \in Nat
          /\ Cardinality(PlacesIn(blocks, s)) \in Nat /\ u[s] \in Nat
      BY <1>5, PlacesFacts DEF Usage
    <3> QED BY <3>2, <3>3, <3>4
  <2> QED BY <2>1, <2>2
<1>7. UsageCoversLive'
  <2>1. \A s : LiveIn(s)' = PlacesIn(blocks', s)
    BY DEF LiveIn, PlacesIn
  <2> QED BY <1>1, <1>5, <1>6, <2>1 DEF UsageCoversLive, Covers
<1>8. Covers(u, saved'.root, DataSegments)
  BY <1>2, <1>3, <1>5
<1>9. Covers(u, iFileINode, DataSegments)
  BY <1>3, <1>5
<1> QED BY <1>1, <1>5, <1>7, <1>8, <1>9 DEF CoverInv, Covers

\* A step in which the process ends, with the segment written out or not.
LEMMA CoverDied ==
    ASSUME TypeOK, CoverInv, up' = FALSE, UNCHANGED <<tail, usage, blocks>>,
           Covers(table', saved'.root, DataSegments),
           \A s \in DataSegments : table'[s] <= SegBlocks
    PROVE  CoverInv'
BY CoverKept DEF CoverInv

LEMMA CoverCrash ==
    ASSUME TypeOK, TableWritable, CoverInv, NEW o \in Owners, NEW d \in Data,
           \/ FillDuplicate(o, d)
           \/ CrashInPartialErase(o, d)
           \/ CrashInWrite(o, d)
           \/ CrashInTableWrite(o, d)
           \/ CrashBeforeCheckpoint(o, d)
    PROVE  CoverInv'
<1> DEFINE n == Flash_Write(AfterPartialErase, tail.seg)
           u == Recount(usage, Placed(o, d))
<1>1. /\ FillsTail /\ up /\ up' = FALSE
      /\ UNCHANGED <<tail, usage, blocks>>
  BY DEF FillDuplicate, CrashInPartialErase, CrashInWrite, CrashInTableWrite,
         CrashBeforeCheckpoint, Died, memoryVars, FillsTail
<1>2. WriteSegmentUsageTable(n, u, table) = u
  BY <1>1, FillsTailFacts, WritableFilled, TableReplaced
<1>3. \/ table' = table /\ saved' = saved
      \/ table' = u /\ (saved'.root = saved.root \/ saved'.root = iFileINode)
  <2> DEFINE l == LastSegmentWritten(Build(GetCleanSegment(u)), FALSE)
  <2>1. CASE CrashBeforeCheckpoint(o, d)
    <3>1. /\ table' = WriteSegmentUsageTable(n, u, table)
          /\ \/ saved' = saved
             \/ saved' = [last |-> l, root |-> iFileINode, sector |-> NextSector]
      BY <2>1 DEF CrashBeforeCheckpoint
    <3> HIDE DEF l, n, u
    <3> QED BY <1>2, <3>1
  <2> QED BY <1>2, <2>1 DEF FillDuplicate, CrashInPartialErase, CrashInWrite, CrashInTableWrite
<1>4. /\ \A s \in DataSegments \ {tail.seg} : usage[s] <= SegBlocks
      /\ Covers(usage, saved.root, DataSegments \ {tail.seg})
      /\ Covers(usage, iFileINode, DataSegments \ {tail.seg})
  BY <1>1 DEF CoverInv, Covers
<1> HIDE DEF n, u
<1>5. /\ \A f : Covers(usage, f, DataSegments \ {tail.seg}) => Covers(u, f, DataSegments)
      /\ \A s \in DataSegments : u[s] <= SegBlocks
  BY <1>1, <1>4, FilledCovers DEF u
<1>6. /\ Covers(table', saved'.root, DataSegments)
      /\ \A s \in DataSegments : table'[s] <= SegBlocks
  BY <1>3, <1>4, <1>5 DEF CoverInv
<1> QED BY <1>1, <1>6, CoverDied

LEMMA CoverInvStep ==
    ASSUME TypeOK, TableWritable => CoverInv, [AppendNext]_recoveryVars, TableWritable'
    PROVE  CoverInv'
<1>1. TableWritable /\ CoverInv
  <2>1. [AppendNext]_vars
    BY DEF recoveryVars
  <2> QED BY <2>1, WritableKept
<1>2. ASSUME UNCHANGED <<table, saved, usage, ckptINode, iFileINode, blocks>>,
             tail'.seg = tail.seg, up' => up
      PROVE  CoverInv'
  BY <1>1, <1>2, CoverKept DEF CoverInv
<1>3. ASSUME NEW o \in Owners, NEW d \in Data, Log_Write(o, d) PROVE CoverInv'
  <2>1. CASE WriteBlock(o, d)
    <3>1. /\ up /\ tail'.seg = tail.seg
          /\ UNCHANGED <<table, saved, up, usage, ckptINode, iFileINode>>
          /\ blocks' = [blocks EXCEPT ![o] = [seg |-> tail.seg,
                                     blk |-> EmptyBlock(tail.slots), val |-> d]]
      BY <2>1 DEF WriteBlock, Placed, Addressed, flashVars, TypeOK
    <3>2. UsageCoversLive'
      <4> SUFFICES ASSUME NEW s \in DataSegments \ {tail.seg}
                   PROVE  Cardinality(LiveIn(s)') <= usage[s] /\ usage[s] <= SegBlocks
        BY <3>1 DEF UsageCoversLive
      <4>1. LiveIn(s)' = PlacesIn(blocks', s)
        BY DEF LiveIn, PlacesIn
      <4>2. PlacesIn(blocks', s) \subseteq PlacesIn(blocks, s)
        BY <3>1 DEF PlacesIn, TypeOK, INode
      <4>3. Cardinality(PlacesIn(blocks', s)) <= Cardinality(PlacesIn(blocks, s))
        BY <4>2, PlacesSubset
      <4>4. Cardinality(PlacesIn(blocks, s)) <= usage[s] /\ usage[s] <= SegBlocks
        BY <1>1, LiveArePlaces DEF CoverInv, Covers
      <4>5. /\ Cardinality(PlacesIn(blocks', s)) \in Nat
            /\ Cardinality(PlacesIn(blocks, s)) \in Nat /\ usage[s] \in Nat
        BY PlacesFacts DEF TypeOK, Usage
      <4> QED BY <4>1, <4>3, <4>4, <4>5
    <3> QED BY <1>1, <3>1, <3>2 DEF CoverInv
  <2>2. CASE WriteToFullFlash(o, d)
    BY <1>2, <2>2 DEF WriteToFullFlash, flashVars
  <2>3. CASE WriteWithoutEmptyBlock(o, d)
    BY <1>2, <2>3 DEF WriteWithoutEmptyBlock, flashVars, memoryVars
  <2>4. CASE FillEraseFails(o, d)
    BY <1>2, <2>4, FilledTailIsFull DEF FillEraseFails
  <2> QED BY <1>1, <1>3, <2>1, <2>2, <2>3, <2>4, CoverFillWrites, CoverCrash DEF Log_Write
<1>4. ASSUME NEW o \in Owners, NEW d \in Data,
             \/ CrashInPartialErase(o, d)
             \/ CrashInWrite(o, d)
             \/ CrashInTableWrite(o, d)
             \/ CrashBeforeCheckpoint(o, d)
      PROVE  CoverInv'
  BY <1>1, <1>4, CoverCrash
<1>5. ASSUME NEW o \in Owners, Log_Read(o) PROVE CoverInv'
  BY <1>2, <1>5 DEF Log_Read, flashVars
<1>6. CASE UpdateIFileINode
  <2>1. /\ up /\ iFileINode' = blocks
        /\ UNCHANGED <<table, saved, up, tail, usage, ckptINode, blocks>>
    BY <1>6 DEF UpdateIFileINode, flashVars
  <2>2. UsageCoversLive'
    BY <1>1, <2>1, CoverKept DEF CoverInv
  <2>3. Covers(table, blocks, DataSegments \ {tail.seg})
    BY <1>1, <2>1, LiveArePlaces DEF CoverInv
  <2> QED BY <1>1, <2>1, <2>2, <2>3 DEF CoverInv
<1>7. CASE Crash
  BY <1>2, <1>7 DEF Crash, Died, flashVars, memoryVars
<1>8. CASE Unmount
  <2>1. /\ up /\ up' = FALSE
        /\ UNCHANGED <<table, tail, usage, blocks>>
        /\ CheckpointNow(nand, tail, recoveredWithPartialSegment, ckptINode,
                         writesSinceLastCheckpoint)
    BY <1>8 DEF Unmount
  <2>2. saved'.root = saved.root \/ saved'.root = ckptINode
    BY <2>1, CheckpointEffect
  <2>3. Covers(table', saved'.root, DataSegments)
    BY <1>1, <2>1, <2>2 DEF CoverInv
  <2> QED BY <1>1, <2>1, <2>3, CoverDied DEF CoverInv
<1>9. CASE Mount
  <2>1. /\ usage' = table /\ iFileINode' = saved.root /\ ckptINode' = saved.root
        /\ blocks' = saved.root
        /\ UNCHANGED <<table, saved>>
    BY <1>9 DEF Mount, flashVars, ReadSegmentUsageTable
  <2>2. \A s : LiveIn(s)' = PlacesIn(saved.root, s)
    BY <2>1 DEF LiveIn, PlacesIn
  <2>3. UsageCoversLive'
    BY <1>1, <2>1, <2>2 DEF CoverInv, Covers, UsageCoversLive
  <2> QED BY <1>1, <2>1, <2>3 DEF CoverInv, Covers
<1>10. CASE UNCHANGED recoveryVars
  BY <1>2, <1>10 DEF recoveryVars, vars, flashVars, memoryVars
<1> QED BY <1>3, <1>4, <1>5, <1>6, <1>7, <1>8, <1>9, <1>10 DEF AppendNext, AppendStep

\* In every mount, of a misled checkpoint too, the usage table covers the blocks
\* the mount came back with and those written since.
THEOREM RecoveryUsageCoversLive == AppendSpec => []RecoveredUsageCoversLive
<1>1. AppendInit => (TableWritable => CoverInv)
  BY InitCoverInv DEF AppendInit
<1>2. TypeOK /\ (TableWritable => CoverInv) /\ [AppendNext]_recoveryVars
        => (TableWritable => CoverInv)'
  BY CoverInvStep
<1>3. (TableWritable => CoverInv) => RecoveredUsageCoversLive
  BY DEF CoverInv, RecoveredUsageCoversLive
<1> QED BY <1>1, <1>2, <1>3, RecoveryTypeCorrect, PTL DEF AppendSpec

=============================================================================
