----------------------------- MODULE MCQuiesce ------------------------------
(* Small instances of the quiet window. *)
EXTENDS Quiesce, TLC

CONSTANTS w1, w2, run1, run2, b1, b2

MCSymmetry == Permutations(Writer) \cup Permutations(Run) \cup Permutations(Backup)
=============================================================================
