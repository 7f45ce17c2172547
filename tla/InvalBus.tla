------------------------------ MODULE InvalBus ------------------------------
(***************************************************************************)
(* What shared cache invalidation promises: a broadcast that every member  *)
(* takes message by message in the order of publication, from the moment   *)
(* it joined, unless a reset makes it discard its caches and skip          *)
(* messages.  SInval implements this module.                               *)
(***************************************************************************)
EXTENDS Naturals

CONSTANT Slots  \* the slots for members

VARIABLES
  published,  \* messages published so far
  member,     \* the slots taken by a member
  position    \* [Slots -> messages whose effect the member's caches reflect]

vars == <<published, member, position>>

Init ==
  /\ published = 0
  /\ member = {}
  /\ position = [s \in Slots |-> 0]

Publish ==
  /\ published' > published
  /\ UNCHANGED <<member, position>>

Join(s) ==
  /\ s \notin member
  /\ member' = member \cup {s}
  /\ position' = [position EXCEPT ![s] = published]
  /\ UNCHANGED published

Leave(s) ==
  /\ s \in member
  /\ member' = member \ {s}
  /\ position' = [position EXCEPT ![s] = 0]
  /\ UNCHANGED published

\* Process the next message.
Take(s) ==
  /\ s \in member
  /\ position[s] < published
  /\ position' = [position EXCEPT ![s] = @ + 1]
  /\ UNCHANGED <<published, member>>

\* Discard all cached state, which deals with every message so far.
Reset(s) ==
  /\ s \in member
  /\ position' = [position EXCEPT ![s] = published]
  /\ UNCHANGED <<published, member>>

Next ==
  \/ Publish
  \/ \E s \in Slots : Join(s) \/ Leave(s) \/ Take(s) \/ Reset(s)

Spec == Init /\ [][Next]_vars
=============================================================================
