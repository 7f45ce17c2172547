------------------------------- MODULE RWLock -------------------------------
(***************************************************************************)
(* What an LWLock promises its callers: a reader/writer lock.              *)
(* LWLock implements this module.                                          *)
(***************************************************************************)
CONSTANTS
  Procs,  \* the processes
  Locks   \* the locks

EX == "LW_EXCLUSIVE"
SH == "LW_SHARED"
Modes == {EX, SH}
NotHeld == "not held"

VARIABLE held  \* [Procs -> [Locks -> the mode a process holds a lock in]]

Init == held = [p \in Procs |-> [l \in Locks |-> NotHeld]]

\* A reader needs the absence of a writer, a writer that of anybody.
Compatible(l, m) ==
  \A q \in Procs : held[q][l] # EX /\ (m = EX => held[q][l] = NotHeld)

Acquire(p, l, m) ==
  /\ Compatible(l, m)
  /\ held' = [held EXCEPT ![p][l] = m]

Release(p, l) ==
  /\ held[p][l] # NotHeld
  /\ held' = [held EXCEPT ![p][l] = NotHeld]

Next ==
  \E p \in Procs, l \in Locks :
    Release(p, l) \/ \E m \in Modes : Acquire(p, l, m)

Spec == Init /\ [][Next]_held
=============================================================================
