---------------------------- MODULE MCAsyncQueue ----------------------------
EXTENDS AsyncQueue, TLC

CONSTANTS b1, b2, b3

\* All backends in one database, or the last one in a database of its own.
OneDatabase == [b \in Backends |-> "db"]
TwoDatabases == (b3 :> "other") @@ [b \in Backends |-> "db"]

Symmetry == Permutations(Backends)
SymmetryTwo == Permutations({b1, b2})
=============================================================================
