------------------------------- MODULE Flash -------------------------------
(***************************************************************************)
(* The flash emulator of layers/flash/flash.c, one host system call per    *)
(* step.  A virtual flash is a host file with three regions: one state     *)
(* byte per sector, one wear counter per erase block, and the data.  The   *)
(* regions are updated by separate write(2) calls, so a process that dies  *)
(* (or a host call that fails) between two of them leaves the regions in   *)
(* whatever combination they had reached.  Flash_Write checks every sector *)
(* it is about to program, moves the data with one write(2), then marks    *)
(* the sectors full one at a time.  Flash_Erase charges the wear of a      *)
(* block, then marks its sectors empty one at a time; it never touches the *)
(* data region.                                                            *)
(***************************************************************************)
EXTENDS Integers

CONSTANTS
    Blocks,            \* hdr.blocks, the number of erase blocks
    SectorsPerBlock,   \* FLASH_SECTORS_PER_BLOCK
    WearLimit,         \* hdr.wearLimit
    Data,              \* what a caller may write to a sector
    Blank              \* the zeroes ftruncate leaves in the data region

ASSUME FlashAssumption ==
    /\ Blocks \in Nat \ {0}
    /\ SectorsPerBlock \in Nat \ {0}
    /\ WearLimit \in Nat
    /\ Blank \notin Data

NSectors      == Blocks * SectorsPerBlock
Sectors       == 0 .. NSectors - 1
BlockNums     == 0 .. Blocks - 1
SectorsOf(b)  == b * SectorsPerBlock .. b * SectorsPerBlock + SectorsPerBlock - 1
EMPTY         == 0
FULL          == 1

VARIABLES
    state,     \* state region: EMPTY or FULL for every sector
    content,   \* data region
    wear,      \* wear region
    call,      \* the call in progress: its arguments and how far it is
    rc,        \* what the host calls of this call, or the last call, returned
    acked,     \* ghost: data of the Flash_Write that returned 0, until erased
    erasures   \* ghost: how often a block's sectors have begun to be cleared

vars == <<state, content, wear, call, rc, acked, erasures>>

Idle == [op |-> "idle"]

\* pc is what the call does next; at is the sector (write) or the block
\* (erase) it has come to, and sector the sector of that block.
WriteCalls == [op : {"write"}, pc : {"io", "mark"}, first : Int, end : Int,
               at : Int, data : Data]
EraseCalls == [op : {"erase"}, pc : {"wear", "clear"}, end : Int,
               at : Int, sector : Int]

\* The accessors of the state and wear regions, one host call each.
FlashGetState(s)    == state[s]
FlashSetState(s, v) == state' = [state EXCEPT ![s] = v]
Flash_GetWear(b)    == wear[b]
FlashSetWear(b, w)  == wear' = [wear EXCEPT ![b] = w]

----------------------------------------------------------------------------

\* A device as Flash_Create leaves it: ftruncate gives a file of zeroes.
Flash_Create ==
    /\ state    = [s \in Sectors |-> EMPTY]
    /\ content  = [s \in Sectors |-> Blank]
    /\ wear     = [b \in BlockNums |-> 0]
    /\ call     = Idle
    /\ rc       = 0
    /\ acked    = [s \in Sectors |-> Blank]
    /\ erasures = [b \in BlockNums |-> 0]

\* Mutant: the check loop stops one sector early.
CheckStatesOffByOne(first, count, d) ==
    /\ call = Idle
    /\ first + count <= NSectors
    /\ \A s \in first .. first + count - 2 : FlashGetState(s) # FULL
    /\ call' = [op |-> "write", pc |-> "io", first |-> first,
                end |-> first + count, at |-> first, data |-> d]
    /\ rc' = 0
    /\ UNCHANGED <<state, content, wear, acked, erasures>>

\* Flash_Write up to the FlashIO call: no sector of the range may be full.
\* A range that leaves the device is refused by the bound check of FlashIO,
\* whatever FlashGetState read behind the state region.
CheckStates(first, count, d) ==
    /\ call = Idle
    /\ IF /\ first + count <= NSectors
          /\ \A s \in first .. first + count - 1 : FlashGetState(s) # FULL
         THEN /\ call' = [op |-> "write", pc |-> "io", first |-> first,
                          end |-> first + count, at |-> first, data |-> d]
              /\ rc' = 0
         ELSE /\ rc' = 1
              /\ call' = Idle
    /\ UNCHANGED <<state, content, wear, acked, erasures>>

\* The write(2) of FlashIO.  It may stop short, after any number of sectors;
\* the call then returns 1 with no sector marked.
FlashIO ==
    /\ call.op = "write" /\ call.pc = "io"
    /\ \E last \in call.first .. call.end :
          /\ content' = [s \in Sectors |-> IF s \in call.first .. last - 1
                                             THEN call.data ELSE content[s]]
          /\ IF last = call.end
               THEN call' = [call EXCEPT !.pc = "mark"] /\ rc' = rc
               ELSE call' = Idle /\ rc' = 1
    /\ UNCHANGED <<state, wear, acked, erasures>>

\* Mutant: the range counts as written although its last sector is unmarked.
MarkFullForgetsLast ==
    /\ call.op = "write" /\ call.pc = "mark"
    /\ IF call.at < call.end - 1
         THEN /\ FlashSetState(call.at, FULL)
              /\ call'  = [call EXCEPT !.at = @ + 1]
              /\ UNCHANGED <<rc, acked>>
         ELSE /\ rc'    = 0
              /\ call'  = Idle
              /\ acked' = [s \in Sectors |-> IF s \in call.first .. call.end - 1
                                               THEN call.data ELSE acked[s]]
              /\ state' = state
    /\ UNCHANGED <<content, wear, erasures>>

\* Mutant: the loop counter of the marking loop is never advanced.
MarkFullStuck ==
    /\ call.op = "write" /\ call.pc = "mark"
    /\ FlashSetState(call.at, FULL)
    /\ UNCHANGED <<content, wear, call, rc, acked, erasures>>

\* One FlashSetState(FULL) of Flash_Write's last loop, and the return once
\* every sector is marked (at once for an empty range).
MarkFull ==
    /\ call.op = "write" /\ call.pc = "mark"
    /\ IF call.at < call.end
         THEN /\ FlashSetState(call.at, FULL)
              /\ call'  = [call EXCEPT !.at = @ + 1]
              /\ UNCHANGED <<rc, acked>>
         ELSE /\ rc'    = 0
              /\ call'  = Idle
              /\ acked' = [s \in Sectors |-> IF s \in call.first .. call.end - 1
                                               THEN call.data ELSE acked[s]]
              /\ state' = state
    /\ UNCHANGED <<content, wear, erasures>>

\* Flash_Erase(block, count) starts.  It has no bound check of its own;
\* its callers (log.hpp, mklfs.cpp) name blocks of the device.
Flash_Erase(block, count) ==
    /\ call = Idle
    /\ call' = [op |-> "erase", pc |-> "wear", end |-> block + count,
                at |-> block, sector |-> 0]
    /\ rc' = 0
    /\ UNCHANGED <<state, content, wear, acked, erasures>>

\* Mutant: a block exactly at its limit may still be erased.
ChargeWearPastLimit ==
    /\ call.op = "erase" /\ call.pc = "wear" /\ call.at < call.end
    /\ Flash_GetWear(call.at) <= WearLimit
    /\ FlashSetWear(call.at, Flash_GetWear(call.at) + 1)
    /\ call'  = [call EXCEPT !.pc = "clear",
                             !.sector = call.at * SectorsPerBlock]
    /\ acked' = [s \in Sectors |-> IF s \in SectorsOf(call.at)
                                     THEN Blank ELSE acked[s]]
    /\ UNCHANGED <<state, content, rc, erasures>>

\* Mutant: the incremented wear is not written back before the clearing.
ChargeWearLate ==
    /\ call.op = "erase" /\ call.pc = "wear" /\ call.at < call.end
    /\ Flash_GetWear(call.at) < WearLimit
    /\ call'  = [call EXCEPT !.pc = "clear",
                             !.sector = call.at * SectorsPerBlock]
    /\ acked' = [s \in Sectors |-> IF s \in SectorsOf(call.at)
                                     THEN Blank ELSE acked[s]]
    /\ UNCHANGED <<state, content, wear, rc, erasures>>

\* Flash_GetWear and FlashSetWear for the next block: the wear is charged
\* before any sector of the block is cleared, and a block at its limit ends
\* the call with the earlier blocks erased.
ChargeWear ==
    /\ call.op = "erase" /\ call.pc = "wear"
    /\ IF call.at >= call.end
         THEN rc' = 0 /\ call' = Idle /\ UNCHANGED <<wear, acked>>
         ELSE IF Flash_GetWear(call.at) >= WearLimit
         THEN rc' = 1 /\ call' = Idle /\ UNCHANGED <<wear, acked>>
         ELSE /\ FlashSetWear(call.at, Flash_GetWear(call.at) + 1)
              /\ call'  = [call EXCEPT !.pc = "clear",
                                       !.sector = call.at * SectorsPerBlock]
              /\ acked' = [s \in Sectors |-> IF s \in SectorsOf(call.at)
                                               THEN Blank ELSE acked[s]]
              /\ rc' = rc
    /\ UNCHANGED <<state, content, erasures>>

\* One FlashSetState(EMPTY) of Flash_Erase's inner loop; after the last
\* sector of the block the outer loop goes on to the next block.
ClearSector ==
    /\ call.op = "erase" /\ call.pc = "clear"
    /\ FlashSetState(call.sector, EMPTY)
    /\ IF call.sector + 1 < (call.at + 1) * SectorsPerBlock
         THEN call' = [call EXCEPT !.sector = @ + 1]
         ELSE call' = [call EXCEPT !.pc = "wear", !.at = @ + 1]
    /\ erasures' = IF call.sector = call.at * SectorsPerBlock
                     THEN [erasures EXCEPT ![call.at] = @ + 1] ELSE erasures
    /\ UNCHANGED <<content, wear, rc, acked>>

\* The process dies in a call, or an lseek, read or write of the host fails
\* and the call returns 1 where it stands.
HostFailure ==
    /\ call # Idle
    /\ call' = Idle
    /\ rc' = 1
    /\ UNCHANGED <<state, content, wear, acked, erasures>>

----------------------------------------------------------------------------

Requests ==
    \/ \E first \in 0 .. NSectors, count \in 0 .. NSectors, d \in Data :
          CheckStates(first, count, d)
    \/ \E block \in BlockNums, count \in 0 .. Blocks :
          block + count <= Blocks /\ Flash_Erase(block, count)

\* One step of the call in progress.
Progress == FlashIO \/ MarkFull \/ ChargeWear \/ ClearSector

Next == Requests \/ Progress \/ HostFailure

Spec == Flash_Create /\ [][Next]_vars

\* The calls are plain loops of a running process: one that can take its
\* next step does.
FairSpec == Spec /\ WF_vars(Progress)

----------------------------------------------------------------------------

\* The regions keep their shape and no wear counter passes the limit.
TypeOK ==
    /\ state    \in [Sectors -> {EMPTY, FULL}]
    /\ content  \in [Sectors -> Data \cup {Blank}]
    /\ wear     \in [BlockNums -> 0 .. WearLimit]
    /\ call     \in {Idle} \cup WriteCalls \cup EraseCalls
    /\ rc       \in {0, 1}
    /\ acked    \in [Sectors -> Data \cup {Blank}]
    /\ erasures \in [BlockNums -> Nat]

\* Flash_Write's promise: what a call that returned 0 wrote is still there,
\* and protected by its full marks, until an erase of the block starts; no
\* failed, short or interrupted call in between disturbs it.
AckedReadable ==
    \A s \in Sectors :
        acked[s] # Blank => state[s] = FULL /\ content[s] = acked[s]

\* Wear is never under-counted: a block whose sectors have begun to be
\* cleared was charged first, even when the process dies in Flash_Erase.
WearCharged == \A b \in BlockNums : erasures[b] <= wear[b]

\* A sector is never programmed twice without an erase: the data region
\* changes only where the state region says empty.
ProgramOnlyEmpty ==
    [][\A s \in Sectors : content'[s] # content[s] => state[s] = EMPTY]_vars

\* Every Flash_Write and Flash_Erase returns.
CallsReturn == (call # Idle) ~> (call = Idle)
=============================================================================
