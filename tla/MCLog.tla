------------------------------- MODULE MCLog -------------------------------
(* Model-checking instance of the log layer.                               *)
EXTENDS Log, TLC

CONSTANTS o1, o2, d1, d2

\* mklfs writes one block, of owner o1.
OneBlock == <<[own |-> o1, val |-> d1]>>

\* During one mount the log only writes to these variables; no guard reads
\* them and no invariant of the run that uses this view mentions them beyond
\* their type, so states that differ only there need not be told apart.
WithoutRecoveryData ==
    <<media, nand, used, up, tail, cache, usage, ckptSector,
      recoveredWithPartialSegment, writesSinceLastCheckpoint, rc, blocks>>
=============================================================================
