---------------------------- MODULE MCLockManager ----------------------------
(* Values for the model checker: two lock modes, and symmetry.             *)
EXTENDS LockManager, TLC

ShareExclusive(m) == IF m = "X" THEN {"S", "X"} ELSE {"X"}

Symmetry == Permutations(Procs) \union Permutations(Locks)
=============================================================================
