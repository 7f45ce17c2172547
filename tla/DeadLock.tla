------------------------------- MODULE DeadLock -------------------------------
(***************************************************************************)
(* The deadlock detector of storage/lmgr/deadlock.c: a pure function of    *)
(* the lock table, which it is given locked.                               *)
(*                                                                         *)
(* A waiter is hard-blocked by the holders its request conflicts with, and *)
(* soft-blocked by the waiters ahead of it whose requests conflict with    *)
(* its own.  A cycle of hard edges is a deadlock; one with a soft edge may *)
(* be broken by turning that edge around, that is by letting the waiter go *)
(* ahead of its blocker.  A constraint is such an edge.                    *)
(***************************************************************************)
EXTENDS Integers, Sequences, FiniteSets, SequencesExt, FiniteSetsExt

CONSTANTS
    Procs, Locks,
    Conflicts(_)    \* conflictTab: the modes a mode conflicts with

VARIABLES
    held,           \* held[l][p]: PROCLOCK.holdMask
    queue,          \* queue[l]: LOCK.waitProcs
    awaited         \* awaited[p]: PGPROC.waitLock and waitLockMode

WaitLock(p) == awaited[p][1]
WaitMode(p) == awaited[p][2]
Meets(m, modes) == Conflicts(m) \intersect modes # {}

Waiting(p) == \E l \in Locks : p \in ToSet(queue[l])

-----------------------------------------------------------------------------
(* The waits-for graph, if the queues were in the order ord.               *)

HardEdge(p, q) == Waiting(p) /\ p # q /\ Meets(WaitMode(p), held[WaitLock(p)][q])

Ahead(ord, p) ==
    LET s == ord[WaitLock(p)]
    IN  {q \in ToSet(s) : \E i, j \in DOMAIN s : i < j /\ s[i] = q /\ s[j] = p}

SoftEdge(ord, p, q) ==
    Waiting(p) /\ q \in Ahead(ord, p) /\ Meets(WaitMode(p), {WaitMode(q)})

-----------------------------------------------------------------------------
(* FindLockCycle: the cycles through p, as sequences that begin with p.    *)
(* Which one the search meets first depends on the order in which a lock   *)
(* lists its holders; any may be it.                                       *)

NextOn(c, i) == c[(i % Len(c)) + 1]

IsCycle(ord, c) ==
    \A i \in DOMAIN c : HardEdge(c[i], NextOn(c, i)) \/ SoftEdge(ord, c[i], NextOn(c, i))

FindLockCycle(ord, p) ==
    {c \in {<<p>> \o s : s \in SetToAllKPermutations(Procs \ {p})} : IsCycle(ord, c)}

Edge(c, i) == [waiter |-> c[i], blocker |-> NextOn(c, i)]

\* An edge both hard and soft is a hard one.  The deepest comes first.
\* Mutant: the edge that closes the cycle is forgotten.
SoftEdgesMutant(c) ==
    SelectSeq(Reverse([i \in 1..(Len(c) - 1) |-> Edge(c, i)]),
              LAMBDA e : ~HardEdge(e.waiter, e.blocker))

SoftEdges(c) ==
    SelectSeq(Reverse([i \in DOMAIN c |-> Edge(c, i)]),
              LAMBDA e : ~HardEdge(e.waiter, e.blocker))

-----------------------------------------------------------------------------
(* ExpandConstraints                                                       *)

\* From the back: the last that need not be before one still to be placed.
\* What it cannot place is missing from the result.
RECURSIVE TopoSort(_, _)
TopoSort(s, cs) ==
    LET free == {i \in DOMAIN s : \A e \in cs : e.waiter = s[i] => e.blocker \notin ToSet(s)}
    IN  IF free = {} THEN <<>>
        ELSE Append(TopoSort(RemoveAt(s, Max(free)), cs), s[Max(free)])

Reordered(cs) == {WaitLock(e.waiter) : e \in ToSet(cs)}

ExpandConstraints(cs) ==
    [l \in Locks |-> IF l \in Reordered(cs) THEN TopoSort(queue[l], ToSet(cs)) ELSE queue[l]]

Consistent(cs) == \A l \in Locks : Len(ExpandConstraints(cs)[l]) = Len(queue[l])

-----------------------------------------------------------------------------
(* TestConfiguration                                                       *)

\* The processes the constraints move may have run into a new cycle.
Checked(p, cs) ==
    FlattenSeq([i \in DOMAIN cs |-> <<cs[i].waiter, cs[i].blocker>>]) \o <<p>>

OnCycle(p, cs) ==
    LET ord == ExpandConstraints(cs)
    IN  SelectSeq(Checked(p, cs), LAMBDA q : FindLockCycle(ord, q) # {})

IsHard(p, cs) ==
    \/ ~Consistent(cs)
    \/ \E q \in ToSet(Checked(p, cs)) :
        \E c \in FindLockCycle(ExpandConstraints(cs), q) : SoftEdges(c) = <<>>

-----------------------------------------------------------------------------
(* DeadLockCheckRecurse: what it can return, the constraints that solve it *)
(* or Hard.  The soft cycle to break is that of the last process checked.  *)

Hard == [solved |-> FALSE, constraints |-> <<>>]
Solution(cs) == [solved |-> TRUE, constraints |-> cs]

RECURSIVE DeadLockCheckRecurse(_, _), TryEdges(_, _, _)
DeadLockCheckRecurse(p, cs) ==
    IF IsHard(p, cs) THEN {Hard}
    ELSE IF OnCycle(p, cs) = <<>> THEN {Solution(cs)}
    ELSE UNION {TryEdges(p, cs, SoftEdges(c)) :
                    c \in FindLockCycle(ExpandConstraints(cs), Last(OnCycle(p, cs)))}

TryEdges(p, cs, edges) ==
    IF edges = <<>> THEN {Hard}
    ELSE LET found == DeadLockCheckRecurse(p, Append(cs, Head(edges)))
         IN  (found \ {Hard})
             \union IF Hard \in found THEN TryEdges(p, cs, Tail(edges)) ELSE {}

DeadLockCheck(p) == DeadLockCheckRecurse(p, <<>>)

-----------------------------------------------------------------------------
(* What a deadlock is, whatever the detector does.                         *)

\* Every way to order the waiters of every lock.
Orders ==
    LET perms(l) == SetToSeqs(ToSet(queue[l]))
    IN  {ord \in [Locks -> UNION {perms(l) : l \in Locks}] : \A l \in Locks : ord[l] \in perms(l)}

Deadlocked(ord) == \E p \in Procs : FindLockCycle(ord, p) # {}
=============================================================================
