--------------------------- MODULE MCUpdateCheck ---------------------------
(* Small instances of UpdateCheck for TLC.                                 *)
EXTENDS UpdateCheck, TLC

Symmetry == Permutations(Procs)
=============================================================================
