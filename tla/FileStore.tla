----------------------------- MODULE FileStore -----------------------------
(***************************************************************************)
(* What the file layer promises as long as nothing is refused: numbered    *)
(* files, each a sequence of units, that change only by the request that   *)
(* names them.  No blocks, no inodes, no log, and cleaning is no step.     *)
(***************************************************************************)
EXTENDS Integers, Sequences

CONSTANTS
    INums,       \* the numbers of files
    Root,        \* the file that always exists
    RootSize,    \* its size at first
    Data, Zero,  \* what a unit of a file is
    Extents,     \* the <<offset, length>> pairs that are written
    Sizes,       \* the sizes files are truncated to
    NoFile,      \* no file has the number
    Unknown      \* nothing is promised

VARIABLES
    files,       \* by number
    failed       \* something was refused

vars == <<files, failed>>

Init ==
    /\ files = [i \in INums |-> IF i = Root THEN [u \in 1 .. RootSize |-> Zero]
                                ELSE NoFile]
    /\ failed = FALSE

\* A write starts in the file or at its end, and may make it longer.
Written(units, e, d) ==
    LET Covers(k) == e[1] < k /\ k <= e[1] + e[2]
        size      == IF Len(units) > e[1] + e[2] THEN Len(units) ELSE e[1] + e[2]
    IN  [k \in 1 .. size |-> IF Covers(k) THEN d ELSE units[k]]

Truncated(units, n) ==
    [k \in 1 .. n |-> IF k <= Len(units) THEN units[k] ELSE Zero]

\* What a request that names a file may leave of it.
Outcomes(units) ==
    {Written(units, e, d) : e \in {x \in Extents : x[1] <= Len(units)}, d \in Data}
    \cup {Truncated(units, n) : n \in Sizes}
    \cup {NoFile}

\* A new file is empty and has the lowest free number.
Create(i) ==
    /\ files[i] = NoFile
    /\ \A j \in INums : j < i => files[j] # NoFile
    /\ files'[i] = <<>>

Change(i) ==
    /\ files[i] # NoFile
    /\ i = Root => files'[i] # NoFile
    /\ files'[i] \in Outcomes(files[i])

Request ==
    /\ ~ failed /\ failed' = FALSE
    /\ \E i \in INums :
          /\ \A j \in INums \ {i} : files'[j] = files[j]
          /\ Create(i) \/ Change(i)

Refuse == failed' = TRUE /\ files' = [i \in INums |-> Unknown]

Next == Request \/ Refuse

Spec == Init /\ [][Next]_vars
============================================================================
