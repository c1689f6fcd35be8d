----------------------------- MODULE MCBranches -----------------------------
(* Small instances of Branches for TLC.                                    *)
EXTENDS Branches, TLC

(* Every document has its id and its live_when fields.                     *)
Unforced == [b \in Bodies |-> b]

Symmetry == Permutations(Bodies) \cup Permutations(Users)

SymmetryOfRecords == Symmetry \cup Permutations(Records)
=============================================================================
