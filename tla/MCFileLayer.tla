---------------------------- MODULE MCFileLayer ----------------------------
(* A small instance of the file layer. *)
EXTENDS FileLayer, TLC

CONSTANTS d1, d2

MCSymmetry == Permutations({d1, d2})
MCData    == {d1, d2}
MCExtents == {<<0, 1>>, <<1, 2>>, <<1, 4>>}
MCSizes   == {0, 3}
MCModes   == {0}
============================================================================
