------------------------------ MODULE MCSyncRep ------------------------------
(* Values for the model checker: synchronous_standby_names, and symmetry. *)
EXTENDS SyncRep, TLC

CONSTANTS b1, b2, s1, s2

OnlyFirst == <<s1>>
FirstThenSecond == <<s1, s2>>
Anybody == <<AnyName>>

NamedOrNot == {<<>>, OnlyFirst}
AllConfigs == {<<>>, OnlyFirst, FirstThenSecond, Anybody}
NoneOrTwo == {<<>>, FirstThenSecond}
Symmetry == Permutations(Backends)
=============================================================================
