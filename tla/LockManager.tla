----------------------------- MODULE LockManager -----------------------------
(***************************************************************************)
(* Heavyweight locks: the lock table of storage/lmgr/lock.c, its wait      *)
(* queues in storage/lmgr/proc.c and the deadlock detector of              *)
(* storage/lmgr/deadlock.c.                                                *)
(*                                                                         *)
(* A request that conflicts with a holder, or with somebody who waits      *)
(* already, joins the queue of the lock.  Whoever releases a lock grants   *)
(* it to the waiters that can have it and wakes them.  A waiter that has   *)
(* slept for deadlock_timeout looks for a cycle: if reordering the queues  *)
(* breaks it, that is done, else the waiter gives up.                      *)
(*                                                                         *)
(* The table changes only under the partition locks, so every change is    *)
(* one step.  What runs without them is the waiter: it is woken by its     *)
(* semaphore, which may have units left over from an earlier wait, and a   *)
(* cancel or the alarm may come before it notices that it has the lock.    *)
(*                                                                         *)
(* The counts requested[] and granted[] and the masks made from them are   *)
(* those of the holders and waiters, and PGPROC.heldLocks is what a waiter *)
(* holds; they are not variables of their own.                             *)
(***************************************************************************)
EXTENDS DeadLock

CONSTANTS
    Modes,
    MaxCancels      \* bound: cancel requests

VARIABLES
    status,      \* PGPROC.waitStatus
    sem,         \* its semaphore
    alarm,       \* deadlock_timeout_active
    pc,          \* "run", "sleep", "release"
    local,       \* its LOCALLOCK table
    todo,        \* what it has still to release
    cancels      \* bound

vars == <<held, queue, awaited, status, sem, alarm, pc, local, todo, cancels>>

Nothing == <<>>
Targets == Locks \X Modes

Init ==
    /\ held = [l \in Locks |-> [p \in Procs |-> {}]]
    /\ queue = [l \in Locks |-> <<>>]
    /\ awaited = [p \in Procs |-> Nothing]
    /\ status = [p \in Procs |-> "OK"]
    /\ sem = [p \in Procs |-> 0]
    /\ alarm = [p \in Procs |-> FALSE]
    /\ pc = [p \in Procs |-> "run"]
    /\ local = [p \in Procs |-> {}]
    /\ todo = [p \in Procs |-> {}]
    /\ cancels = 0

-----------------------------------------------------------------------------
(* Conflicts *)

\* A process's own locks never conflict.  h: the holders of one lock.
LockCheckConflicts(h, m, p) == \E q \in Procs \ {p} : Meets(m, h[q])

WaitMask(l) == {WaitMode(p) : p \in ToSet(queue[l])}

-----------------------------------------------------------------------------
(* Waking.  A lock as ProcLockWakeup goes through its queue: its holders,  *)
(* who stays in the queue, who is woken.                                   *)

Visit(v, p) ==
    IF \/ \E q \in ToSet(v.queue) : Meets(WaitMode(p), {WaitMode(q)})
       \/ LockCheckConflicts(v.held, WaitMode(p), p)
    THEN [v EXCEPT !.queue = Append(@, p)]
    ELSE [v EXCEPT !.held[p] = @ \union {WaitMode(p)}, !.woken = @ \union {p}]

ProcLockWakeup(h, q) == FoldLeft(Visit, [held |-> h, queue |-> <<>>, woken |-> {}], q)

NoWakeup(h, q) == [held |-> h, queue |-> q, woken |-> {}]

\* The locks in DOMAIN new have changed so; the woken have their locks.
Changed(new) ==
    /\ held' = [l \in Locks |-> IF l \in DOMAIN new THEN new[l].held ELSE held[l]]
    /\ queue' = [l \in Locks |-> IF l \in DOMAIN new THEN new[l].queue ELSE queue[l]]

Woken(new) == UNION {new[l].woken : l \in DOMAIN new}
Only(l, v) == [x \in {l} |-> v]

\* ProcWakeup of all that are woken.  The status is only looked at in a
\* wait; done are those whose wait is over.
\* Mutant: those whose wait is over get a unit, too.
WakeUpMutant(woken, done) ==
    /\ status' = [p \in Procs |-> IF p \in woken \union done THEN "OK" ELSE status[p]]
    /\ sem' = [p \in Procs |-> IF p \in woken \union done THEN sem[p] + 1 ELSE sem[p]]

WakeUp(woken, done) ==
    /\ status' = [p \in Procs |-> IF p \in woken \union done THEN "OK" ELSE status[p]]
    /\ sem' = [p \in Procs |-> IF p \in woken THEN sem[p] + 1 ELSE sem[p]]

Without(q, p) == SelectSeq(q, LAMBDA x : x # p)

\* Mutant: nobody behind p is woken.
RemoveFromWaitQueueMutant(l, p) == NoWakeup(held[l], Without(queue[l], p))
RemoveFromWaitQueue(l, p) == ProcLockWakeup(held[l], Without(queue[l], p))

-----------------------------------------------------------------------------
(* LockAcquire.  A lock asked for again is counted in the LOCALLOCK only.  *)

CanGrant(p, l, m) == ~Meets(m, WaitMask(l)) /\ ~LockCheckConflicts(held[l], m, p)

Grant(p, l, m) ==
    /\ held' = [held EXCEPT ![l][p] = @ \union {m}]
    /\ local' = [local EXCEPT ![p] = @ \union {<<l, m>>}]
    /\ UNCHANGED <<queue, awaited, status, sem, alarm, pc, todo, cancels>>

\* Where ProcSleep stops: at the first waiter that must wait for p, or at
\* the end.
MustWaitFor(p, l, q) == Meets(WaitMode(q), held[l][p])

Stop(p, l) ==
    LET firsts == {i \in DOMAIN queue[l] : MustWaitFor(p, l, queue[l][i])}
    IN  IF firsts = {} THEN Len(queue[l]) + 1 ELSE Min(firsts)

Stopped(p, l) == Stop(p, l) <= Len(queue[l])

\* The waiter it stops at holds what it wants: a deadlock.
EarlyDeadlock(p, l, m) == Stopped(p, l) /\ Meets(m, held[l][queue[l][Stop(p, l)]])

\* It goes before that waiter and need not wait at all.
\* Mutant: only the waiters ahead are looked at, not the holders.
NoNeedToWaitMutant(p, l, m) ==
    /\ Stopped(p, l)
    /\ ~EarlyDeadlock(p, l, m)
    /\ ~Meets(m, {WaitMode(queue[l][i]) : i \in 1..(Stop(p, l) - 1)})

NoNeedToWait(p, l, m) ==
    /\ Stopped(p, l)
    /\ ~EarlyDeadlock(p, l, m)
    /\ ~Meets(m, {WaitMode(queue[l][i]) : i \in 1..(Stop(p, l) - 1)})
    /\ ~LockCheckConflicts(held[l], m, p)

LockAcquire(p, l, m) ==
    /\ pc[p] = "run" /\ m \notin held[l][p]
    /\ CanGrant(p, l, m)
    /\ Grant(p, l, m)

ProcSleepGrants(p, l, m) ==
    /\ pc[p] = "run" /\ m \notin held[l][p]
    /\ ~CanGrant(p, l, m)
    /\ NoNeedToWait(p, l, m)
    /\ Grant(p, l, m)

ProcSleep(p, l, m) ==
    /\ pc[p] = "run" /\ m \notin held[l][p]
    /\ ~CanGrant(p, l, m) /\ ~EarlyDeadlock(p, l, m) /\ ~NoNeedToWait(p, l, m)
    /\ queue' = [queue EXCEPT ![l] = InsertAt(@, Stop(p, l), p)]
    /\ awaited' = [awaited EXCEPT ![p] = <<l, m>>]
    /\ status' = [status EXCEPT ![p] = "WAITING"]
    /\ alarm' = [alarm EXCEPT ![p] = TRUE]
    /\ pc' = [pc EXCEPT ![p] = "sleep"]
    /\ UNCHANGED <<held, sem, local, todo, cancels>>

-----------------------------------------------------------------------------
(* The end of a transaction, and errors.  A subtransaction that aborts     *)
(* gives its locks back one by one, by LockRelease; the transaction goes   *)
(* on.                                                                     *)

HeldBy(p) == {t \in Targets : t[2] \in held[t[1]][p]}

\* LockReleaseAll at commit: what the LOCALLOCK table says.
Commit(p) ==
    /\ pc[p] = "run" /\ local[p] # {}
    /\ todo' = [todo EXCEPT ![p] = local[p]]
    /\ local' = [local EXCEPT ![p] = {}]
    /\ pc' = [pc EXCEPT ![p] = "release"]
    /\ UNCHANGED <<held, queue, awaited, status, sem, alarm, cancels>>

\* LockReleaseAll at abort: everything the shared table says, which is h.
AbortMain(p, h) ==
    /\ todo' = [todo EXCEPT ![p] = h]
    /\ local' = [local EXCEPT ![p] = {}]
    /\ pc' = [pc EXCEPT ![p] = IF h = {} THEN "run" ELSE "release"]

AbortSub(p, granted) ==
    /\ local' = [local EXCEPT ![p] = @ \union granted]
    /\ pc' = [pc EXCEPT ![p] = "run"]
    /\ UNCHANGED todo

Abort(p, granted) == AbortMain(p, HeldBy(p)) \/ AbortSub(p, granted)

\* p is put into the queue and taken out of it at once, which wakes whom it
\* can.
DeadLockAtOnce(p, l, m) ==
    /\ pc[p] = "run" /\ m \notin held[l][p]
    /\ ~CanGrant(p, l, m)
    /\ EarlyDeadlock(p, l, m)
    /\ LET v == ProcLockWakeup(held[l], queue[l])
       IN  Changed(Only(l, v)) /\ WakeUp(v.woken, {p})
    /\ Abort(p, {})
    /\ UNCHANGED <<awaited, alarm, cancels>>

-----------------------------------------------------------------------------
(* Releasing                                                               *)

\* UnGrantLock of the modes ms, then CleanUpLock.
WakeupNeeded(l, ms) == \E m \in ms : Meets(m, WaitMask(l))

UnGrant(p, l, ms) ==
    LET h == [held[l] EXCEPT ![p] = @ \ ms]
        v == IF WakeupNeeded(l, ms) THEN ProcLockWakeup(h, queue[l]) ELSE NoWakeup(h, queue[l])
    IN  Changed(Only(l, v)) /\ WakeUp(v.woken, {})

LockRelease(p, l, m) ==
    /\ pc[p] = "run" /\ <<l, m>> \in local[p]
    /\ UnGrant(p, l, {m})
    /\ local' = [local EXCEPT ![p] = @ \ {<<l, m>>}]
    /\ UNCHANGED <<awaited, alarm, pc, todo, cancels>>

\* One PROCLOCK of LockReleaseAll.
ReleaseNext(p, l) ==
    LET these == {t \in todo[p] : t[1] = l}
    IN  /\ pc[p] = "release" /\ these # {}
        /\ UnGrant(p, l, {t[2] : t \in these})
        /\ todo' = [todo EXCEPT ![p] = @ \ these]
        /\ pc' = [pc EXCEPT ![p] = IF these = todo[p] THEN "run" ELSE "release"]
        /\ UNCHANGED <<awaited, alarm, local, cancels>>

-----------------------------------------------------------------------------
(* The waiter                                                              *)

\* PGSemaphoreLock returns: the lock is there, or the deadlock is reported,
\* or it was a leftover.
LeftOver(p) == status[p] = "WAITING" /\ UNCHANGED <<awaited, status, alarm, pc, local, todo>>

WaitOver(p) ==
    /\ awaited' = [awaited EXCEPT ![p] = Nothing]
    /\ status' = [status EXCEPT ![p] = "OK"]
    /\ alarm' = [alarm EXCEPT ![p] = FALSE]

Acquired(p) ==
    /\ status[p] = "OK"
    /\ WaitOver(p)
    /\ local' = [local EXCEPT ![p] = @ \union {awaited[p]}]
    /\ pc' = [pc EXCEPT ![p] = "run"]
    /\ UNCHANGED todo

DeadLockReport(p) == status[p] = "ERROR" /\ WaitOver(p) /\ Abort(p, {})

Awake(p) ==
    /\ pc[p] = "sleep" /\ sem[p] > 0
    /\ sem' = [sem EXCEPT ![p] = @ - 1]
    /\ LeftOver(p) \/ Acquired(p) \/ DeadLockReport(p)
    /\ UNCHANGED <<held, queue, cancels>>

\* LockWaitCancel of a cancel request: off the queue, if still on it; if the
\* lock has been granted after all, the transaction has it.
CancelQueued(p) ==
    /\ Waiting(p)
    /\ LET l == WaitLock(p)
           v == RemoveFromWaitQueue(l, p)
       IN  Changed(Only(l, v)) /\ WakeUp(v.woken, {p})
    /\ Abort(p, {})

\* Mutant: the lock granted at the last moment is not recorded.
CancelDequeuedMutant(p) ==
    /\ ~Waiting(p)
    /\ status' = [status EXCEPT ![p] = "OK"]
    /\ Abort(p, {})
    /\ UNCHANGED <<held, queue, sem>>

CancelDequeued(p) ==
    /\ ~Waiting(p)
    /\ status' = [status EXCEPT ![p] = "OK"]
    /\ Abort(p, IF status[p] = "OK" THEN {awaited[p]} ELSE {})
    /\ UNCHANGED <<held, queue, sem>>

LockWaitCancel(p) ==
    /\ pc[p] = "sleep"
    /\ cancels < MaxCancels
    /\ cancels' = cancels + 1
    /\ awaited' = [awaited EXCEPT ![p] = Nothing]
    /\ alarm' = [alarm EXCEPT ![p] = FALSE]
    /\ CancelQueued(p) \/ CancelDequeued(p)

-----------------------------------------------------------------------------
(* CheckDeadLock, when the alarm goes off                                  *)

TooLate(p) == ~Waiting(p) /\ UNCHANGED <<held, queue, status, sem>>

\* Mutant: the handler does not unlock the semaphore.
HardDeadlockMutant(p) ==
    /\ Waiting(p) /\ Hard \in DeadLockCheck(p)
    /\ LET l == WaitLock(p)
           v == RemoveFromWaitQueue(l, p)
       IN  /\ Changed(Only(l, v))
           /\ status' = [q \in Procs |-> IF q = p THEN "ERROR"
                                         ELSE IF q \in v.woken THEN "OK" ELSE status[q]]
           /\ sem' = [q \in Procs |-> IF q \in v.woken THEN sem[q] + 1 ELSE sem[q]]

HardDeadlock(p) ==
    /\ Waiting(p) /\ Hard \in DeadLockCheck(p)
    /\ LET l == WaitLock(p)
           v == RemoveFromWaitQueue(l, p)
       IN  /\ Changed(Only(l, v))
           /\ status' = [q \in Procs |-> IF q = p THEN "ERROR"
                                         ELSE IF q \in v.woken THEN "OK" ELSE status[q]]
           /\ sem' = [q \in Procs |-> IF q \in v.woken \union {p} THEN sem[q] + 1 ELSE sem[q]]

\* Applies the constraints, if any.
\* Mutant: it only reports that a deadlock has been avoided.
NoHardDeadlockMutant(p) ==
    /\ Waiting(p) /\ DeadLockCheck(p) # {Hard}
    /\ UNCHANGED <<held, queue, status, sem>>

NoHardDeadlock(p) ==
    /\ Waiting(p)
    /\ \E found \in DeadLockCheck(p) \ {Hard} :
        LET cs == found.constraints
            new == [l \in Reordered(cs) |-> ProcLockWakeup(held[l], ExpandConstraints(cs)[l])]
        IN  Changed(new) /\ WakeUp(Woken(new), {})

CheckDeadLock(p) ==
    /\ pc[p] = "sleep" /\ alarm[p]
    /\ alarm' = [alarm EXCEPT ![p] = FALSE]
    /\ TooLate(p) \/ HardDeadlock(p) \/ NoHardDeadlock(p)
    /\ UNCHANGED <<awaited, pc, local, todo, cancels>>

-----------------------------------------------------------------------------

Next ==
    \E p \in Procs :
        \/ \E l \in Locks, m \in Modes :
            \/ LockAcquire(p, l, m)
            \/ ProcSleepGrants(p, l, m)
            \/ ProcSleep(p, l, m)
            \/ DeadLockAtOnce(p, l, m)
            \/ LockRelease(p, l, m)
        \/ \E l \in Locks : ReleaseNext(p, l)
        \/ Commit(p)
        \/ Awake(p)
        \/ LockWaitCancel(p)
        \/ CheckDeadLock(p)

Spec == Init /\ [][Next]_vars

-----------------------------------------------------------------------------
(* Properties                                                              *)

\* Every variable has its type; nobody is in two queues or twice in one, and
\* only a cancelled wait leaves a unit in a semaphore.
TypeOK ==
    /\ held \in [Locks -> [Procs -> SUBSET Modes]]
    /\ \A l \in Locks : queue[l] \in Seq(Procs) /\ IsInjective(queue[l])
    /\ \A k, l \in Locks : k # l => ToSet(queue[k]) \intersect ToSet(queue[l]) = {}
    /\ \A p \in Procs : awaited[p] \in Targets \union {Nothing}
    /\ status \in [Procs -> {"OK", "WAITING", "ERROR"}]
    /\ \A p \in Procs : sem[p] \in 0..(cancels + 1)
    /\ alarm \in [Procs -> BOOLEAN]
    /\ pc \in [Procs -> {"run", "sleep", "release"}]
    /\ local \in [Procs -> SUBSET Targets]
    /\ todo \in [Procs -> SUBSET Targets]
    /\ cancels \in 0..MaxCancels

\* No two processes hold conflicting modes of one lock, however grants,
\* queue jumping and reordering mix (lock.c, GrantLock).
NoConflictingHolders ==
    \A l \in Locks : \A p, q \in Procs :
        p # q => \A m \in held[l][p] : ~Meets(m, held[l][q])

\* The LOCALLOCK table agrees with the shared one but for a lock just
\* granted, so a lock that was granted as its waiter was cancelled is
\* released some day (proc.c, LockWaitCancel).
LockTablesAgree ==
    \A p \in Procs :
        HeldBy(p) = local[p] \union todo[p] \union
                    IF pc[p] = "sleep" /\ status[p] = "OK" THEN {awaited[p]} ELSE {}

\* The lock tables never grant what conflicts, and both of them know of all
\* that is granted (lock.c).
LockTablesSound == TypeOK /\ NoConflictingHolders /\ LockTablesAgree

\* Nobody waits for a lock it could have: every change that makes a waiter
\* grantable wakes it (lock.c, UnGrantLock and RemoveFromWaitQueue).
NobodyGrantable ==
    \A l \in Locks : \A i \in DOMAIN queue[l] :
        LET p == queue[l][i]
        IN  \/ LockCheckConflicts(held[l], WaitMode(p), p)
            \/ Meets(WaitMode(p), {WaitMode(queue[l][j]) : j \in 1..(i - 1)})

\* Who sleeps is in the queue or has a semaphore unit to come out with.
SleepersWakeable ==
    \A p \in Procs :
        pc[p] = "sleep" =>
            IF status[p] = "WAITING" THEN p \in ToSet(queue[WaitLock(p)]) ELSE sem[p] > 0

\* Every cycle of waiters has one whose alarm is still to come, so that
\* somebody finds it (proc.c, CheckDeadLock looks once).
CyclesWillBeFound ==
    \A p \in Procs : \A c \in FindLockCycle(queue, p) : \E q \in ToSet(c) : alarm[q]

\* Who is thrown out by the deadlock check could not have been saved by any
\* order of the queues (deadlock.c, DeadLockCheck).
DeadlocksAreReal ==
    [][ \A p \in Procs :
          (pc[p] = "sleep" /\ pc'[p] = "sleep" /\ status[p] = "WAITING" /\ status'[p] = "ERROR")
             => \A ord \in Orders : Deadlocked(ord) ]_vars

\* The alarm of a waiter goes off (which is weak fairness of CheckDeadLock:
\* an alarm stays set until that step or the end of the wait), a woken
\* process runs, and the clients end their transactions.
Fairness ==
    \A p \in Procs :
        /\ []<>~alarm[p]
        /\ WF_vars(Awake(p) \/ \E l \in Locks : ReleaseNext(p, l))
        /\ SF_vars(Commit(p))

FairSpec == Spec /\ Fairness

\* A wait ends, by the lock or by an error, unless others are given locks
\* that conflict with the request again and again, as the deadlock check
\* does when it lets them go first (proc.c, ProcSleep).
Overtaken(p) ==
    \E q \in Procs : \E m \in held'[WaitLock(p)][q] \ held[WaitLock(p)][q] : Meets(WaitMode(p), {m})

WaitsEnd ==
    \A p \in Procs :
        <>[](pc[p] = "sleep") => []<><<Waiting(p) /\ Overtaken(p)>>_vars
=============================================================================
