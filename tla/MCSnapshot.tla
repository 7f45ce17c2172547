----------------------------- MODULE MCSnapshot -----------------------------
(* Snapshot with interchangeable writers, for TLC.                       *)
EXTENDS Snapshot, TLC

Symmetry == Permutations(Writers)
=============================================================================
