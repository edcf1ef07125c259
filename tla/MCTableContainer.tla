--------------------------- MODULE MCTableContainer ---------------------------
(***************************************************************************)
(* Two names, two threads.                                                 *)
(***************************************************************************)
EXTENDS TableContainer, TLC

CONSTANTS t1, t2

MCName == {1, 2}
MCThread == {t1, t2}
MCSymmetry == Permutations(MCThread)
================================================================================
