--------------------------- MODULE MCBranchStore ---------------------------
(* Small instances of BranchStore for TLC.                                 *)
EXTENDS BranchStore, TLC

CONSTANTS main, f1, f2, p1

MCForks == {f1, f2}

Symmetry == Permutations({f1, f2})
=============================================================================
