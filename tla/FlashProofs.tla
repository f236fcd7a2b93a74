---------------------------- MODULE FlashProofs ----------------------------
(***************************************************************************)
(* Proofs about the flash emulator, for every device size and wear limit.  *)
(***************************************************************************)
EXTENDS Flash, TLAPS

\* What a write in progress knows: its range was empty when checked, and by
\* the marking phase holds the data, marked up to the sector it has come to.
WriteInv ==
    call.op = "write" =>
        /\ call.first >= 0
        /\ call.end <= NSectors
        /\ call.pc = "io" =>
              /\ call.at = call.first
              /\ \A s \in call.first .. call.end - 1 : state[s] = EMPTY
        /\ call.pc = "mark" =>
              /\ \A s \in call.first .. call.end - 1 : content[s] = call.data
              /\ \A s \in call.first .. call.end - 1 :
                    s < call.at => state[s] = FULL

\* What an erase in progress knows: while it clears a block it has given up
\* the block's data and has charged the block for a clearing that has not
\* begun when it stands at the first sector.
EraseInv ==
    call.op = "erase" =>
        /\ call.at >= 0
        /\ call.end <= Blocks
        /\ call.pc = "clear" =>
              /\ call.at < call.end
              /\ call.sector \in SectorsOf(call.at)
              /\ \A s \in Sectors : s \in SectorsOf(call.at) => acked[s] = Blank
              /\ call.sector = call.at * SectorsPerBlock =>
                    erasures[call.at] + 1 <= wear[call.at]

\* The inductive invariant.
FlashInv == TypeOK /\ AckedReadable /\ WearCharged /\ WriteInv /\ EraseInv

\* The product in NSectors is a natural number, and so are block offsets.
LEMMA SizesAreNat ==
    /\ NSectors \in Nat
    /\ \A b \in Int : b * SectorsPerBlock \in Int
    /\ \A b \in Int : (b + 1) * SectorsPerBlock = b * SectorsPerBlock + SectorsPerBlock
BY FlashAssumption, SMTT(30) DEF NSectors

\* A call record tells by its op which kind of call it is.
LEMMA CallKinds ==
    ASSUME TypeOK
    PROVE  /\ call.op = "write" => call \in WriteCalls
           /\ call.op = "erase" => call \in EraseCalls
           /\ call = Idle => call.op = "idle"
BY DEF TypeOK, Idle, WriteCalls, EraseCalls

LEMMA FlashInit == Flash_Create => FlashInv
BY FlashAssumption, SizesAreNat
   DEF Flash_Create, FlashInv, TypeOK, AckedReadable, WearCharged, WriteInv,
       EraseInv, Idle, EMPTY, FULL, Sectors, BlockNums

\* Every step of the device keeps the invariant: one step per action.
LEMMA FlashStep == FlashInv /\ [Next]_vars => FlashInv'
<1> SUFFICES ASSUME FlashInv, [Next]_vars PROVE FlashInv'
  OBVIOUS
<1>0. /\ call.op = "write" => call \in WriteCalls
      /\ call.op = "erase" => call \in EraseCalls
      /\ call = Idle => call.op = "idle"
      /\ NSectors \in Nat
  BY CallKinds, SizesAreNat DEF FlashInv
<1> USE FlashAssumption, <1>0 DEF FlashInv, FlashGetState, FlashSetState, Flash_GetWear, FlashSetWear
<1>1. ASSUME NEW first \in 0 .. NSectors, NEW count \in 0 .. NSectors,
             NEW d \in Data, CheckStates(first, count, d)
      PROVE  FlashInv'
  <2>1. TypeOK'
    BY <1>1 DEF CheckStates, TypeOK, Idle, WriteCalls
  <2>2. AckedReadable' /\ WearCharged'
    BY <1>1 DEF CheckStates, AckedReadable, WearCharged
  <2>3. WriteInv'
    BY <1>1 DEF CheckStates, WriteInv, Idle, TypeOK, EMPTY, FULL, Sectors
  <2>4. EraseInv'
    BY <1>1 DEF CheckStates, EraseInv, Idle
  <2> QED BY <2>1, <2>2, <2>3, <2>4
<1>2. ASSUME NEW block \in BlockNums, NEW count \in 0 .. Blocks,
             block + count <= Blocks, Flash_Erase(block, count)
      PROVE  FlashInv'
  <2>1. TypeOK'
    BY <1>2 DEF Flash_Erase, TypeOK, Idle, EraseCalls, BlockNums
  <2>2. AckedReadable' /\ WearCharged'
    BY <1>2 DEF Flash_Erase, AckedReadable, WearCharged
  <2>3. WriteInv' /\ EraseInv'
    BY <1>2 DEF Flash_Erase, WriteInv, EraseInv, BlockNums
  <2> QED BY <2>1, <2>2, <2>3
<1>3. CASE FlashIO
  <2>0. call \in WriteCalls
    BY <1>3 DEF FlashIO
  <2>1. PICK last \in call.first .. call.end :
          /\ content' = [s \in Sectors |-> IF s \in call.first .. last - 1
                                             THEN call.data ELSE content[s]]
          /\ IF last = call.end
               THEN call' = [call EXCEPT !.pc = "mark"] /\ rc' = rc
               ELSE call' = Idle /\ rc' = 1
    BY <1>3 DEF FlashIO
  <2>2. UNCHANGED <<state, wear, acked, erasures>>
    BY <1>3 DEF FlashIO
  <2>3. TypeOK'
    BY <2>0, <2>1, <2>2 DEF TypeOK, Idle, WriteCalls
  <2>4. AckedReadable'
    <3>1. \A s \in Sectors : s \in call.first .. last - 1 => state[s] = EMPTY
      BY <1>3, <2>0, <2>1 DEF FlashIO, WriteInv, WriteCalls
    <3> QED BY <2>1, <2>2, <3>1 DEF AckedReadable, EMPTY, FULL
  <2>5. WearCharged'
    BY <2>2 DEF WearCharged
  <2>6. WriteInv'
    <3>1. CASE last = call.end
      <4>1. \A s \in call.first .. call.end - 1 : s \in Sectors
        BY <1>3, <2>0 DEF FlashIO, WriteInv, WriteCalls, Sectors
      <4> QED BY <1>3, <2>0, <2>1, <2>2, <3>1, <4>1
              DEF FlashIO, WriteInv, WriteCalls
    <3>2. CASE last # call.end
      BY <2>1, <3>2 DEF WriteInv, Idle
    <3> QED BY <3>1, <3>2
  <2>7. EraseInv'
    BY <1>3, <2>0, <2>1 DEF FlashIO, EraseInv, WriteCalls, Idle
  <2> QED BY <2>3, <2>4, <2>5, <2>6, <2>7
<1>4. CASE MarkFull
  <2>0. call \in WriteCalls
    BY <1>4 DEF MarkFull
  <2>1. TypeOK'
    BY <1>4, <2>0 DEF MarkFull, TypeOK, Idle, WriteCalls, FULL
  <2>2. AckedReadable'
    BY <1>4, <2>0 DEF MarkFull, AckedReadable, WriteInv, WriteCalls,
                      TypeOK, EMPTY, FULL
  <2>3. WearCharged'
    BY <1>4 DEF MarkFull, WearCharged
  <2>4. WriteInv'
    <3>1. CASE call.at < call.end
      <4>1. \A s \in call.first .. call.end - 1 : s \in Sectors
        BY <1>4, <2>0 DEF MarkFull, WriteInv, WriteCalls, Sectors
      <4> QED BY <1>4, <2>0, <3>1, <4>1
              DEF MarkFull, WriteInv, WriteCalls, TypeOK
    <3>2. CASE ~ (call.at < call.end)
      BY <1>4, <3>2 DEF MarkFull, WriteInv, Idle
    <3> QED BY <3>1, <3>2
  <2>5. EraseInv'
    BY <1>4, <2>0 DEF MarkFull, EraseInv, WriteCalls, Idle
  <2> QED BY <2>1, <2>2, <2>3, <2>4, <2>5
<1>5. CASE ChargeWear
  <2>0. call \in EraseCalls /\ call.op = "erase" /\ call.pc = "wear"
    BY <1>5 DEF ChargeWear
  <2>1. CASE call.at >= call.end \/ wear[call.at] >= WearLimit
    BY <1>5, <2>0, <2>1 DEF ChargeWear, TypeOK, AckedReadable, WearCharged,
                            WriteInv, EraseInv, Idle
  <2>2. CASE ~ (call.at >= call.end \/ wear[call.at] >= WearLimit)
    <3>0. call.at \in BlockNums
      BY <2>0, <2>2 DEF EraseInv, EraseCalls, BlockNums
    <3>a. call.at * SectorsPerBlock \in Int
      BY <3>0, SizesAreNat DEF BlockNums
    <3>b. call' = [call EXCEPT !.pc = "clear",
                               !.sector = call.at * SectorsPerBlock]
      BY <1>5, <2>0, <2>2 DEF ChargeWear
    <3>c. /\ call' \in EraseCalls
          /\ call'.op = "erase"
          /\ call'.pc = "clear"
          /\ call'.at = call.at
          /\ call'.end = call.end
          /\ call'.sector = call.at * SectorsPerBlock
      BY <2>0, <3>a, <3>b DEF EraseCalls
    <3>1. TypeOK'
      BY <1>5, <2>0, <2>2, <3>0, <3>c DEF ChargeWear, TypeOK
    <3>2. AckedReadable'
      BY <1>5, <2>2 DEF ChargeWear, AckedReadable
    <3>3. WearCharged'
      BY <1>5, <2>2, <3>0 DEF ChargeWear, WearCharged, TypeOK
    <3>4. WriteInv'
      BY <1>5, <2>0, <2>2 DEF ChargeWear, WriteInv, EraseCalls
    <3>5. EraseInv'
      <4>1. call.at * SectorsPerBlock \in SectorsOf(call.at)
        BY <3>0 DEF SectorsOf, BlockNums
      <4>2. erasures[call.at] + 1 <= wear'[call.at]
        BY <1>5, <2>2, <3>0 DEF ChargeWear, WearCharged, TypeOK
      <4>3. \A s \in Sectors : s \in SectorsOf(call.at) => acked'[s] = Blank
        BY <1>5, <2>0, <2>2 DEF ChargeWear
      <4>4. erasures' = erasures
        BY <1>5 DEF ChargeWear
      <4> QED BY <2>0, <2>2, <3>0, <3>c, <4>1, <4>2, <4>3, <4>4
              DEF EraseInv, EraseCalls, BlockNums
    <3> QED BY <3>1, <3>2, <3>3, <3>4, <3>5
  <2> QED BY <2>1, <2>2
<1>6. CASE ClearSector
  <2>0. call \in EraseCalls /\ call.op = "erase" /\ call.pc = "clear"
    BY <1>6 DEF ClearSector
  <2>1. call.at \in BlockNums
    BY <2>0 DEF EraseInv, EraseCalls, BlockNums
  <2>2. TypeOK'
    <3>a. \/ call' = [call EXCEPT !.sector = @ + 1]
          \/ call' = [call EXCEPT !.pc = "wear", !.at = @ + 1]
      BY <1>6 DEF ClearSector
    <3>1. call' \in EraseCalls
      <4>1. CASE call' = [call EXCEPT !.sector = @ + 1]
        BY <2>0, <4>1 DEF EraseCalls
      <4>2. CASE call' = [call EXCEPT !.pc = "wear", !.at = @ + 1]
        <5>1. call' = [op |-> "erase", pc |-> "wear", end |-> call.end,
                       at |-> call.at + 1, sector |-> call.sector]
          BY <2>0, <4>2 DEF EraseCalls
        <5>2. call.at + 1 \in Int /\ call.end \in Int /\ call.sector \in Int
          BY <2>0 DEF EraseCalls
        <5> QED BY <5>1, <5>2 DEF EraseCalls
      <4> QED BY <3>a, <4>1, <4>2
    <3>2. erasures' \in [BlockNums -> Nat]
      BY <1>6, <2>0, <2>1 DEF ClearSector, TypeOK
    <3>3. state' \in [Sectors -> {EMPTY, FULL}]
      BY <1>6 DEF ClearSector, TypeOK
    <3> QED BY <1>6, <3>1, <3>2, <3>3 DEF ClearSector, TypeOK
  <2>3. AckedReadable'
    BY <1>6, <2>0 DEF ClearSector, AckedReadable, EraseInv, TypeOK
  <2>4. WearCharged'
    BY <1>6, <2>0, <2>1 DEF ClearSector, WearCharged, EraseInv, TypeOK
  <2>5. WriteInv'
    BY <1>6, <2>0 DEF ClearSector, WriteInv, EraseCalls
  <2>6. EraseInv'
    <3>0. /\ call.at * SectorsPerBlock \in Int
          /\ (call.at + 1) * SectorsPerBlock
                = call.at * SectorsPerBlock + SectorsPerBlock
      BY <2>1, SizesAreNat DEF BlockNums
    <3>1. CASE call.sector + 1 < (call.at + 1) * SectorsPerBlock
      <4>1. /\ call' \in EraseCalls
            /\ call'.op = "erase"
            /\ call'.at = call.at
            /\ call'.end = call.end
            /\ call'.sector = call.sector + 1
        BY <1>6, <2>0, <3>1 DEF ClearSector, EraseCalls
      <4>2. call'.sector \in SectorsOf(call.at)
        BY <2>0, <3>0, <3>1, <4>1 DEF EraseInv, EraseCalls, SectorsOf
      <4>3. call'.sector # call.at * SectorsPerBlock
        BY <2>0, <3>0, <4>1 DEF EraseInv, EraseCalls, SectorsOf
      <4>4. acked' = acked
        BY <1>6 DEF ClearSector
      <4> QED BY <2>0, <4>1, <4>2, <4>3, <4>4 DEF EraseInv
    <3>2. CASE ~ (call.sector + 1 < (call.at + 1) * SectorsPerBlock)
      <4>1. call' = [call EXCEPT !.pc = "wear", !.at = @ + 1]
        BY <1>6, <3>2 DEF ClearSector
      <4>2. /\ call'.pc = "wear"
            /\ call'.at = call.at + 1
            /\ call'.end = call.end
        BY <2>0, <4>1 DEF EraseCalls
      <4> QED BY <2>0, <2>1, <4>2 DEF EraseInv, BlockNums
    <3> QED BY <3>1, <3>2
  <2> QED BY <2>2, <2>3, <2>4, <2>5, <2>6
<1>7. CASE HostFailure
  BY <1>7 DEF HostFailure, TypeOK, AckedReadable, WearCharged, WriteInv,
              EraseInv, Idle
<1>8. CASE UNCHANGED vars
  BY <1>8 DEF vars, TypeOK, AckedReadable, WearCharged, WriteInv, EraseInv
<1> QED
  BY <1>1, <1>2, <1>3, <1>4, <1>5, <1>6, <1>7, <1>8 DEF Next, Requests, Progress

\* The invariant holds in every reachable state of the emulator.
THEOREM FlashInvariant == Spec => []FlashInv
BY FlashInit, FlashStep, PTL DEF Spec

\* Type correctness: in particular Flash_Erase never drives a block past the
\* wear limit of its header.
THEOREM FlashTypeCorrect == Spec => []TypeOK
BY FlashInvariant, PTL DEF FlashInv

\* Data acknowledged by Flash_Write survives every later call, failure and
\* crash until its block is erased.
THEOREM FlashKeepsAckedData == Spec => []AckedReadable
BY FlashInvariant, PTL DEF FlashInv

\* Flash_Erase charges a block before it starts to clear it.
THEOREM FlashChargesWear == Spec => []WearCharged
BY FlashInvariant, PTL DEF FlashInv

\* No step programs a sector that is marked full.
THEOREM FlashProgramsOnlyEmpty == Spec => ProgramOnlyEmpty
<1>1. FlashInv /\ [Next]_vars =>
        [\A s \in Sectors : content'[s] # content[s] => state[s] = EMPTY]_vars
  <2> SUFFICES ASSUME FlashInv, Next, NEW s \in Sectors,
                      content'[s] # content[s]
               PROVE  state[s] = EMPTY
    BY DEF vars
  <2> USE FlashAssumption, SizesAreNat, CallKinds DEF FlashInv
  <2>1. CASE FlashIO
    BY <2>1 DEF FlashIO, WriteInv, WriteCalls
  <2>2. CASE ~ FlashIO
    BY <2>2 DEF Next, Requests, Progress, CheckStates, Flash_Erase,
                MarkFull, ChargeWear, ClearSector, HostFailure
  <2> QED BY <2>1, <2>2
<1> QED BY <1>1, FlashInvariant, PTL DEF Spec, ProgramOnlyEmpty
=============================================================================
