--------------------------- MODULE MCLogRecovery ---------------------------
(* Model-checking instance of the log layer over many mounts.              *)
EXTENDS LogRecovery, TLC

CONSTANTS o1, o2, d1, d2

\* mklfs writes one block, of owner o1.
OneBlock == <<[own |-> o1, val |-> d1]>>

\* What is in memory when the process dies is of no consequence.
OnlyFlashWhenDown == <<flashVars, up, misled, IF up THEN <<memoryVars, blocks>> ELSE <<>>>>
=============================================================================
