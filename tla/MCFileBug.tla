----------------------------- MODULE MCFileBug -----------------------------
(* Instances of FileBug for TLC.                                            *)
EXTENDS FileBug, TLC

CONSTANTS j1, j2, j3, j4
TwoJobs == {j1, j2}
FourJobs == {j1, j2, j3, j4}

\* Jobs are told apart by nothing but their names.
Symmetry == Permutations(Jobs)
=============================================================================
