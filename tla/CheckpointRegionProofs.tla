----------------------- MODULE CheckpointRegionProofs -----------------------
(***************************************************************************)
(* Proofs about the checkpoint region, for every size of the segment and   *)
(* any number of checkpoints, crashes and recoveries, under a clock that   *)
(* only goes forward.                                                      *)
(***************************************************************************)
EXTENDS CheckpointRegion, TLAPS, WellFoundedInduction

\* The checkpoints on flash are ordered by time as they are by number, and
\* none is younger than the clock.
Ordered ==
    /\ \A s \in Sectors : content[s].time <= clock /\ content[s].num <= taken
    /\ \A s \in Sectors : content[s].num = 0 <=> content[s].time = 0
    /\ \A s, t \in Sectors :
          content[s].num < content[t].num => content[s].time < content[t].time

SomeValid == \E s \in Sectors : content[s].num # 0

\* The checkpoint about to be written is newer than all on flash.
Pending ==
    /\ pc \in Running => /\ checkpoint.num # 0
                         /\ checkpoint.num <= taken
                         /\ checkpoint.time <= clock
    /\ pc \in {"erase", "write"} =>
          \A s \in Sectors : /\ content[s].num < checkpoint.num
                             /\ content[s].time < checkpoint.time

\* The scan holds the newest of the sectors it has read.
Scanned ==
    pc = "scan" =>
       /\ \/ checkpoint = NotValid
          \/ \E s \in Sectors : checkpoint = content[s]
       /\ \A s \in Sectors : s < currSector => content[s].time <= checkpoint.time

RegionInv == TypeOK /\ Ordered /\ SomeValid /\ Pending /\ Scanned

LEMMA SectorFacts ==
    /\ NSectors \in Nat \ {0}
    /\ 0 \in Sectors
    /\ \A s \in Sectors : (s + 1) % NSectors \in Sectors
<1>1. NSectors \in Nat \ {0}
  BY RegionAssumption, SMTT(30) DEF NSectors
<1>2. \A m \in Nat, k \in Nat \ {0} : m % k \in 0 .. k - 1
  OBVIOUS
<1>3. \A s \in Sectors : s + 1 \in Nat
  BY <1>1 DEF Sectors
<1> QED BY <1>1, <1>2, <1>3 DEF Sectors

LEMMA GreatestIsChosen ==
    ASSUME NEW c, NEW t \in Sectors,
           \A s \in Sectors : c[s].num \in Nat /\ c[s].num <= c[t].num
    PROVE  (CHOOSE n \in {c[s].num : s \in Sectors} :
                \A s \in Sectors : c[s].num <= n) = c[t].num
<1> DEFINE N == {c[s].num : s \in Sectors}
           P(n) == \A s \in Sectors : c[s].num <= n
           g == CHOOSE n \in N : P(n)
<1>1. c[t].num \in N /\ P(c[t].num)
  OBVIOUS
<1>2. \A n \in N : P(n) => n = c[t].num
  OBVIOUS
<1> HIDE DEF N, P
<1>3. g \in N /\ P(g)
  BY <1>1
<1>4. g = c[t].num
  BY <1>2, <1>3
<1> QED BY <1>4 DEF N, P

LEMMA NewestIsNewest ==
    ASSUME TypeOK, NEW t \in Sectors,
           \A s \in Sectors : content[s].num <= content[t].num
    PROVE  Newest = content[t].num
BY GreatestIsChosen DEF Newest, TypeOK, Checkpoint

\* There is a newest checkpoint: the numbers are bounded by taken.
LEMMA NewestExists ==
    ASSUME TypeOK, Ordered
    PROVE  \E t \in Sectors : \A s \in Sectors : content[s].num <= content[t].num
<1> DEFINE D == {taken - content[s].num : s \in Sectors}
<1>1. \A s \in Sectors : content[s].num \in Nat /\ content[s].num <= taken
  BY DEF TypeOK, Checkpoint, Ordered
<1>2. taken \in Nat
  BY RegionAssumption DEF TypeOK
<1>3. D \subseteq Nat /\ D # {}
  BY <1>1, <1>2, SectorFacts
<1> HIDE DEF D
<1>4. PICK d \in D : \A e \in D : ~ (<<e, d>> \in OpToRel(<, Nat))
  BY <1>3, NatLessThanWellFounded, WFMin
<1>5. \A e \in D : ~ (e < d)
  BY <1>3, <1>4 DEF OpToRel
<1>6. PICK t \in Sectors : d = taken - content[t].num
  BY DEF D
<1>7. ASSUME NEW s \in Sectors PROVE content[s].num <= content[t].num
  <2>1. taken - content[s].num \in D
    BY DEF D
  <2>2. ~ (taken - content[s].num < taken - content[t].num)
    BY <1>5, <1>6, <2>1
  <2> QED BY <1>1, <1>2, <2>2
<1> QED BY <1>7

----------------------------------------------------------------------------

LEMMA InitRegionInv == Init => RegionInv
<1> SUFFICES ASSUME Init PROVE RegionInv
  OBVIOUS
<1>1. PICK now \in Times :
         /\ content = [s \in Sectors |-> IF s = 0 THEN [num |-> 1, time |-> now]
                                                  ELSE NotValid]
         /\ full = {0} /\ clock = now /\ pc = "idle"
         /\ checkpoint = [num |-> 1, time |-> now]
         /\ checkpointSector = 0 /\ currSector = NSectors /\ rc = 0
         /\ taken = 1 /\ recovered = 1
  BY DEF Init
<1>2. now \in Nat /\ now > 0
  BY RegionAssumption
<1>3. \A s \in Sectors :
         /\ s = 0 => content[s].num = 1 /\ content[s].time = now
         /\ s # 0 => content[s].num = 0 /\ content[s].time = 0
  BY <1>1 DEF NotValid
<1>4. TypeOK
  <2>1. [num |-> 1, time |-> now] \in Checkpoint /\ NotValid \in Checkpoint
    BY <1>2 DEF Checkpoint, NotValid
  <2>2. content \in [Sectors -> Checkpoint] /\ checkpoint \in Checkpoint
    BY <1>1, <2>1
  <2>3. currSector \in 0 .. NSectors
    BY <1>1, SectorFacts
  <2> QED BY <1>1, <2>2, <2>3, SectorFacts, RegionAssumption DEF TypeOK, Running
<1>5. Ordered
  BY <1>1, <1>2, <1>3 DEF Ordered
<1>6. SomeValid
  BY <1>3, SectorFacts DEF SomeValid
<1>7. Pending
  <2>1. checkpoint.num = 1 /\ checkpoint.time = now
    BY <1>1
  <2> QED BY <1>1, <1>2, <2>1 DEF Pending
<1>8. Scanned
  BY <1>1 DEF Scanned
<1> QED BY <1>4, <1>5, <1>6, <1>7, <1>8 DEF RegionInv

LEMMA StampStep == RegionInv /\ StampCheckpoint => RegionInv'
<1> SUFFICES ASSUME RegionInv, StampCheckpoint PROVE RegionInv'
  OBVIOUS
<1>1. PICK now \in Times :
         /\ now > clock /\ clock' = now
         /\ checkpoint' = [num |-> taken + 1, time |-> now]
  BY DEF StampCheckpoint
<1>2. /\ content' = content /\ taken' = taken + 1 /\ pc' \in {"erase", "write"}
      /\ taken < MaxCheckpoints
  BY DEF StampCheckpoint
<1>3. /\ clock \in Nat /\ now \in Nat
      /\ taken \in Nat /\ taken >= 1 /\ taken' \in 1 .. MaxCheckpoints
      /\ \A s \in Sectors : content[s].num \in Nat /\ content[s].time \in Nat
  BY <1>2, RegionAssumption DEF RegionInv, TypeOK, Checkpoint
<1>4. checkpointSector' \in Sectors
  BY SectorFacts DEF StampCheckpoint, RegionInv, TypeOK
<1>5. TypeOK'
  BY <1>1, <1>2, <1>3, <1>4 DEF StampCheckpoint, RegionInv, TypeOK, Checkpoint, Running
<1>6. Ordered'
  BY <1>1, <1>2, <1>3 DEF RegionInv, Ordered
<1>7. SomeValid' /\ Scanned'
  BY <1>2 DEF RegionInv, SomeValid, Scanned
<1>8. Pending'
  BY <1>1, <1>2, <1>3 DEF RegionInv, Pending, Ordered
<1> QED BY <1>5, <1>6, <1>7, <1>8 DEF RegionInv

LEMMA WriteStep == RegionInv /\ WriteCheckpoint => RegionInv'
<1> SUFFICES ASSUME RegionInv, WriteCheckpoint PROVE RegionInv'
  OBVIOUS
<1>1. /\ pc = "write" /\ clock' = clock /\ taken' = taken
      /\ checkpoint' = checkpoint /\ full' = full
      /\ checkpointSector' = checkpointSector /\ currSector' = currSector
      /\ recovered' = recovered /\ pc' \in {"mark", "idle"} /\ rc' \in {0, 1}
  BY DEF WriteCheckpoint, RegionInv, TypeOK
<1>2. /\ checkpoint \in Checkpoint /\ checkpoint.num \in Nat /\ checkpoint.time \in Nat
      /\ checkpoint.num # 0 /\ checkpoint.num <= taken /\ checkpoint.time <= clock
      /\ \A s \in Sectors : /\ content[s].num < checkpoint.num
                            /\ content[s].time < checkpoint.time
                            /\ content[s].num \in Nat /\ content[s].time \in Nat
  BY <1>1 DEF RegionInv, TypeOK, Pending, Checkpoint, Running
<1>3. CASE content' = content
  BY <1>1, <1>2, <1>3
     DEF RegionInv, TypeOK, Ordered, SomeValid, Pending, Scanned, Running
<1>4. CASE content' = [content EXCEPT ![checkpointSector] = checkpoint]
  <2>1. /\ checkpointSector \in Sectors
        /\ content'[checkpointSector] = checkpoint
        /\ \A s \in Sectors : s # checkpointSector => content'[s] = content[s]
    BY <1>4 DEF RegionInv, TypeOK
  <2>2. TypeOK'
    BY <1>1, <1>2, <1>4 DEF RegionInv, TypeOK, Running
  <2>3. Ordered'
    <3>1. checkpoint.time # 0
      BY <1>2, SectorFacts
    <3> QED BY <1>1, <1>2, <2>1, <3>1 DEF RegionInv, Ordered
  <2>4. SomeValid'
    BY <1>2, <2>1 DEF SomeValid
  <2>5. Pending' /\ Scanned'
    BY <1>1, <1>2 DEF Pending, Scanned, Running
  <2> QED BY <2>2, <2>3, <2>4, <2>5 DEF RegionInv
<1> QED BY <1>3, <1>4 DEF WriteCheckpoint

LEMMA ScanStep == RegionInv /\ ScanSector => RegionInv'
<1> SUFFICES ASSUME RegionInv, ScanSector PROVE RegionInv'
  OBVIOUS
<1>1. /\ pc = "scan" /\ pc' = "scan" /\ currSector < NSectors
      /\ currSector' = currSector + 1
      /\ content' = content /\ clock' = clock /\ taken' = taken /\ full' = full
      /\ rc' = rc /\ recovered' = recovered
  BY DEF ScanSector
<1>2. /\ currSector \in Sectors /\ currSector' \in 0 .. NSectors
      /\ Sectors \subseteq Nat /\ currSector \in Nat
      /\ checkpoint.time \in Nat
      /\ \A s \in Sectors : /\ content[s] \in Checkpoint
                            /\ content[s].num \in Nat /\ content[s].time \in Nat
  BY <1>1, SectorFacts DEF RegionInv, TypeOK, Checkpoint, Sectors
<1>3. \A s \in Sectors : s < currSector' => s < currSector \/ s = currSector
  <2>1. currSector' = currSector + 1 /\ currSector \in Nat
    BY <1>1, <1>2
  <2>2. \A s \in Nat : s < currSector + 1 => s < currSector \/ s = currSector
    BY <2>1
  <2> QED BY <1>2, <2>1, <2>2
<1>4. \A s \in Sectors : s < currSector => content[s].time <= checkpoint.time
  BY <1>1 DEF RegionInv, Scanned
<1>5. CASE /\ content[currSector].num # 0
           /\ checkpoint.time < content[currSector].time
  <2>1. checkpoint' = content[currSector] /\ checkpointSector' = currSector
    BY <1>5 DEF ScanSector
  <2>2. Scanned'
    <3>1. \A s \in Sectors : s < currSector => content[s].time <= content[currSector].time
      BY <1>2, <1>5, <1>4
    <3>2. content[currSector].time <= content[currSector].time
      BY <1>2
    <3>3. \A s \in Sectors : s < currSector' => content'[s].time <= checkpoint'.time
      BY <1>1, <1>3, <2>1, <3>1, <3>2
    <3> QED BY <1>1, <1>2, <2>1, <3>3 DEF Scanned
  <2>3. TypeOK'
    BY <1>1, <1>2, <2>1 DEF RegionInv, TypeOK
  <2> QED BY <1>1, <2>2, <2>3 DEF RegionInv, Ordered, SomeValid, Pending, Running
<1>6. CASE ~ (/\ content[currSector].num # 0
              /\ checkpoint.time < content[currSector].time)
  <2>1. checkpoint' = checkpoint /\ checkpointSector' = checkpointSector
    BY <1>6 DEF ScanSector
  <2>2. content[currSector].time <= checkpoint.time
    BY <1>2, <1>6 DEF RegionInv, Ordered
  <2>3. Scanned'
    <3>1. \A s \in Sectors : s < currSector' => content'[s].time <= checkpoint'.time
      BY <1>1, <1>3, <1>4, <2>1, <2>2
    <3> QED BY <1>1, <2>1, <3>1 DEF RegionInv, Scanned
  <2>4. TypeOK'
    BY <1>1, <1>2, <2>1 DEF RegionInv, TypeOK
  <2> QED BY <1>1, <2>3, <2>4 DEF RegionInv, Ordered, SomeValid, Pending, Running
<1> QED BY <1>5, <1>6

\* The end of the scan: the checkpoint held is the newest.
LEMMA ScanEnd ==
    ASSUME RegionInv, pc = "scan", currSector = NSectors
    PROVE  /\ checkpoint.num = Newest
           /\ checkpoint.num # 0 /\ checkpoint.num <= taken
           /\ checkpoint.time <= clock
<1>1. \A s \in Sectors : /\ content[s].num \in Nat /\ content[s].time \in Nat
                         /\ content[s].time <= checkpoint.time
  BY SectorFacts DEF RegionInv, TypeOK, Checkpoint, Scanned, Sectors
<1>2. PICK v \in Sectors : content[v].num # 0
  BY DEF RegionInv, SomeValid
<1>3. content[v].time # 0
  BY <1>2 DEF RegionInv, Ordered
<1>4. checkpoint # NotValid
  BY <1>1, <1>3 DEF NotValid
<1>5. PICK t \in Sectors : checkpoint = content[t]
  BY <1>4 DEF RegionInv, Scanned
<1>6. \A s \in Sectors : content[s].num <= content[t].num
  BY <1>1, <1>5 DEF RegionInv, Ordered
<1>7. Newest = content[t].num
  BY <1>6, NewestIsNewest DEF RegionInv
<1>8. content[t].num # 0
  BY <1>1, <1>2, <1>6
<1> QED BY <1>5, <1>7, <1>8 DEF RegionInv, Ordered

LEMMA RegionInvStep == RegionInv /\ [Next]_vars => RegionInv'
<1> SUFFICES ASSUME RegionInv, [Next]_vars PROVE RegionInv'
  OBVIOUS
<1> USE DEF RegionInv
<1>1. CASE EraseOldCheckpoint
  BY <1>1 DEF EraseOldCheckpoint, TypeOK, Ordered, SomeValid, Pending, Scanned, Running
<1>2. CASE MarkCheckpoint
  BY <1>2 DEF MarkCheckpoint, TypeOK, Ordered, SomeValid, Pending, Scanned, Running
<1>3. CASE Stop
  BY <1>3 DEF Stop, TypeOK, Ordered, SomeValid, Pending, Scanned, Running
<1>4. CASE BeginRecovery
  <2>1. TypeOK'
    BY <1>4, SectorFacts DEF BeginRecovery, TypeOK, NotValid, Checkpoint
  <2>2. \A s \in Sectors : ~ (s < 0)
    BY DEF Sectors
  <2> QED BY <1>4, <2>1, <2>2
     DEF BeginRecovery, Ordered, SomeValid, Pending, Scanned, Running
<1>5. CASE Recovered
  <2>1. /\ checkpoint.num # 0 /\ checkpoint.num <= taken /\ checkpoint.time <= clock
        /\ checkpoint.num \in Nat
    BY <1>5, ScanEnd DEF Recovered, TypeOK, Checkpoint
  <2>2. recovered' \in 0 .. MaxCheckpoints
    BY <1>5, <2>1, RegionAssumption DEF Recovered, TypeOK
  <2>3. TypeOK'
    BY <1>5, <2>2 DEF Recovered, TypeOK, Running
  <2> QED BY <1>5, <2>1, <2>3
     DEF Recovered, Ordered, SomeValid, Pending, Scanned, Running
<1>6. CASE UNCHANGED vars
  BY <1>6 DEF vars, TypeOK, Ordered, SomeValid, Pending, Scanned, Running
<1> QED BY <1>1, <1>2, <1>3, <1>4, <1>5, <1>6, StampStep, WriteStep, ScanStep DEF Next

THEOREM RegionInvariant == Spec => []RegionInv
BY InitRegionInv, RegionInvStep, PTL DEF Spec

\* The members and the segment stay well formed, through any crashes.
THEOREM RegionTypeCorrect == Spec => []TypeOK
<1>1. RegionInv => TypeOK
  BY DEF RegionInv
<1> QED BY <1>1, RegionInvariant, PTL

\* CheckpointNow's assertion holds: there is always a checkpoint to recover.
THEOREM RegionCheckpointIsValid == Spec => []CheckpointIsValid
<1>1. RegionInv => CheckpointIsValid
  BY DEF RegionInv, Pending, CheckpointIsValid
<1> QED BY <1>1, RegionInvariant, PTL

\* The scan of RecoverCheckpoint ends with the newest checkpoint on flash.
THEOREM RegionRecoversNewest == Spec => []RecoversNewest
<1>1. RegionInv => RecoversNewest
  BY ScanEnd DEF RecoversNewest
<1> QED BY <1>1, RegionInvariant, PTL

----------------------------------------------------------------------------
(* The region implements a store of one checkpoint.                        *)

LEMMA StoreStep ==
    ASSUME RegionInv, RegionInv', [Next]_vars
    PROVE  [Store!Next]_<<Newest, recovered, Mode>>
<1>1. ASSUME content' = content PROVE Newest' = Newest
  BY <1>1 DEF Newest
<1>2. CASE WriteCheckpoint /\ content' # content
  <2>1. /\ pc = "write" /\ checkpointSector \in Sectors
        /\ content' = [content EXCEPT ![checkpointSector] = checkpoint]
        /\ recovered' = recovered
        /\ pc' \in {"mark", "idle"}
    BY <1>2 DEF WriteCheckpoint, RegionInv, TypeOK
  <2>2. \A s \in Sectors : content[s].num < checkpoint.num /\ content[s].num \in Nat
    BY <2>1 DEF RegionInv, Pending, TypeOK, Checkpoint
  <2>3. checkpoint.num \in Nat
    BY DEF RegionInv, TypeOK, Checkpoint
  <2>4. PICK t \in Sectors : \A s \in Sectors : content[s].num <= content[t].num
    BY NewestExists DEF RegionInv
  <2>5. Newest = content[t].num
    BY <2>4, NewestIsNewest DEF RegionInv
  <2>6. PICK u \in Sectors : \A s \in Sectors : content'[s].num <= content'[u].num
    <3>1. /\ content'[checkpointSector].num = checkpoint.num
          /\ \A s \in Sectors : s # checkpointSector => content'[s] = content[s]
      BY <2>1 DEF RegionInv, TypeOK
    <3>2. \A s \in Sectors : content'[s].num <= content'[checkpointSector].num
      BY <2>2, <2>3, <3>1
    <3> QED BY <2>1, <3>2
  <2>7. Newest' = content'[u].num
    <3>1. \A s \in Sectors : content'[s].num \in Nat
      BY DEF RegionInv, TypeOK, Checkpoint
    <3> QED BY <2>6, <3>1, GreatestIsChosen DEF Newest
  <2>8. content'[checkpointSector].num = checkpoint.num /\ content'[u].num \in Nat
    BY <2>1 DEF RegionInv, TypeOK, Checkpoint
  <2>9. content'[u].num > content[t].num
    BY <2>1, <2>2, <2>3, <2>6, <2>8
  <2>10. Newest' \in Nat /\ Newest' > Newest
    BY <2>5, <2>7, <2>8, <2>9
  <2>11. Mode = "mounted" /\ Mode' = Mode
    BY <2>1 DEF Mode, Running
  <2> QED BY <2>1, <2>10, <2>11 DEF Store!Next, Store!Save
<1>3. CASE Recovered
  <2>1. recovered' = Newest /\ Newest' = Newest
    BY <1>1, <1>3, ScanEnd DEF Recovered
  <2>2. Mode = "down" /\ Mode' = "mounted"
    BY <1>3 DEF Recovered, Mode, Running
  <2> QED BY <2>1, <2>2 DEF Store!Next, Store!Recover
<1>4. CASE Stop
  <2>1. Newest' = Newest /\ recovered' = recovered /\ Mode' = "down"
    BY <1>1, <1>4 DEF Stop, Mode, Running
  <2>2. Mode = "mounted" \/ Mode = "down"
    BY DEF Mode
  <2> QED BY <2>1, <2>2 DEF Store!Next, Store!Unmount
<1>5. CASE content' = content /\ recovered' = recovered /\ Mode' = Mode
  BY <1>1, <1>5
<1>6. CASE Next /\ ~ Recovered /\ ~ WriteCheckpoint /\ ~ Stop
  <2>1. content' = content /\ recovered' = recovered
    BY <1>6 DEF Next, StampCheckpoint, EraseOldCheckpoint, MarkCheckpoint,
               BeginRecovery, ScanSector
  <2>2. Mode' = Mode
    BY <1>6 DEF Next, StampCheckpoint, EraseOldCheckpoint, MarkCheckpoint,
               BeginRecovery, ScanSector, Mode, Running
  <2> QED BY <1>5, <2>1, <2>2
<1>7. CASE WriteCheckpoint /\ content' = content
  <2>1. recovered' = recovered /\ Mode' = Mode
    BY <1>7 DEF WriteCheckpoint, Mode, Running
  <2> QED BY <1>5, <1>7, <2>1
<1>8. CASE UNCHANGED vars
  BY <1>5, <1>8 DEF vars, Mode
<1> QED BY <1>2, <1>3, <1>4, <1>6, <1>7, <1>8

\* Through crashes at any step the segment behaves as a store that holds the
\* newest checkpoint written and gives it back on every mount.
THEOREM RegionImplementsStore == Spec => ImplementsStore
<1>1. Init => Store!Init
  <2> SUFFICES ASSUME Init PROVE Newest = 1 /\ recovered = 1 /\ Mode = "mounted"
    BY DEF Store!Init
  <2>1. RegionInv
    BY InitRegionInv
  <2>2. \A s \in Sectors : content[s].num <= content[0].num
    BY SectorFacts DEF Init, NotValid
  <2>3. content[0].num = 1 /\ recovered = 1
    BY SectorFacts DEF Init
  <2>4. Mode = "mounted"
    BY DEF Init, Mode, Running
  <2> QED BY <2>1, <2>2, <2>3, <2>4, SectorFacts, NewestIsNewest DEF RegionInv
<1>2. RegionInv /\ RegionInv' /\ [Next]_vars => [Store!Next]_<<Newest, recovered, Mode>>
  BY StoreStep
<1> QED BY <1>1, <1>2, RegionInvariant, PTL DEF Spec, ImplementsStore, Store!Spec, Store!storeVars

----------------------------------------------------------------------------
(* The sectors of the segment never lie in the erase block erased.         *)

LEMMA MulMonotone ==
    ASSUME NEW x \in Nat, NEW y \in Nat, NEW b \in Nat, y <= x
    PROVE  y * b <= x * b
<1> DEFINE d == x - y
<1>1. d \in Nat /\ x = y + d
  OBVIOUS
<1> HIDE DEF d
<1>2. x * b = y * b + d * b
  BY <1>1
<1>3. d * b \in Nat /\ y * b \in Nat
  BY <1>1
<1> QED BY <1>2, <1>3

LEMMA DivBounds ==
    ASSUME NEW n \in Nat, NEW k \in Nat, NEW b \in Nat \ {0}
    PROVE  /\ n \div b \in Nat
           /\ n < k * b => n \div b < k
           /\ n >= k * b => n \div b >= k
<1> DEFINE q == n \div b
<1>1. q \in Nat /\ q * b <= n /\ n < q * b + b
  OBVIOUS
<1> HIDE DEF q
<1>2. q * b \in Nat /\ k * b \in Nat /\ (q + 1) * b = q * b + b
  BY <1>1
<1>3. k <= q => k * b <= q * b
  BY <1>1, MulMonotone
<1>4. q + 1 <= k => (q + 1) * b <= k * b
  BY <1>1, MulMonotone
<1>5. n < k * b => q < k
  BY <1>1, <1>2, <1>3
<1>6. n >= k * b => q >= k
  BY <1>1, <1>2, <1>4
<1> QED BY <1>1, <1>5, <1>6 DEF q

LEMMA EraseMissesRegion ==
    ASSUME TypeOK, NEW s \in Sectors
    PROVE  (Start + s) \div BlockSectors # EraseBlock
<1> DEFINE b == BlockSectors
           e == EraseBlocks
           c == CkptSegment
           i == checkpointSector
           ce == c * e
           n == ce * b
           k == (c + 1) * e
<1>1. /\ b \in Nat \ {0} /\ e \in Nat \ {0} /\ c \in Nat \ {0}
      /\ Start = c * (e * b) /\ NSectors = e * b
      /\ s \in 0 .. e * b - 1 /\ i \in 0 .. e * b - 1
  BY RegionAssumption DEF Start, NSectors, Sectors, TypeOK
<1>2. /\ ce \in Nat /\ n \in Nat /\ e * b \in Nat
      /\ Start = n
      /\ k = ce + e /\ k * b = n + e * b /\ k \in Nat
  BY <1>1, SMTT(30)
<1>3. ce >= e
  <2>1. 1 * e <= c * e
    BY <1>1, MulMonotone
  <2> QED BY <1>1, <2>1
<1>4. EraseBlock = ce + ((n + i) \div b)
  BY <1>2 DEF EraseBlock
<1> HIDE DEF b, e, c, i, ce, n, k
<1>5. n + s \in Nat /\ n + s < k * b /\ n + i \in Nat /\ n + i >= ce * b
  BY <1>1, <1>2 DEF n
<1>6. (n + s) \div b < k /\ (n + s) \div b \in Nat
  BY <1>1, <1>2, <1>5, DivBounds
<1>7. (n + i) \div b >= ce /\ (n + i) \div b \in Nat
  BY <1>1, <1>2, <1>5, DivBounds
<1>8. (n + s) \div b # ce + ((n + i) \div b)
  BY <1>1, <1>2, <1>3, <1>6, <1>7
<1> QED BY <1>2, <1>4, <1>8 DEF b

\* However large the segment is and wherever it lies, the erase of "old
\* checkpoints" frees none of its sectors, whether it succeeds or not: the
\* segment fills up for good.
THEOREM RegionFillsForGood == Spec => [][full \subseteq full']_vars
<1>1. RegionInv /\ [Next]_vars => [full \subseteq full']_vars
  <2> SUFFICES ASSUME RegionInv, Next PROVE full \subseteq full'
    OBVIOUS
  <2>1. CASE EraseOldCheckpoint
    <3>1. {s \in full : (Start + s) \div BlockSectors # EraseBlock} = full
      BY EraseMissesRegion DEF RegionInv, TypeOK
    <3> QED BY <2>1, <3>1 DEF EraseOldCheckpoint
  <2>2. CASE ~ EraseOldCheckpoint
    BY <2>2 DEF Next, StampCheckpoint, WriteCheckpoint, MarkCheckpoint, Stop,
               BeginRecovery, ScanSector, Recovered
  <2> QED BY <2>1, <2>2
<1> QED BY <1>1, RegionInvariant, PTL DEF Spec
=============================================================================
