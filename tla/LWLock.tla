------------------------------- MODULE LWLock -------------------------------
(***************************************************************************)
(* Lightweight locks: storage/lmgr/lwlock.c.                               *)
(*                                                                         *)
(* An LWLock is a reader/writer lock in shared memory: two counters, a     *)
(* FIFO of waiting processes and a flag, releaseOK, all changed under a    *)
(* spinlock.  A release never hands the lock over: it takes waiters off    *)
(* the queue, wakes them through their process semaphore and lets them     *)
(* compete again.  releaseOK stops further wakeups until one of those      *)
(* waiters has run.  The semaphore is shared with ProcWaitForSignal (and   *)
(* the regular lock manager), so an LWLock waiter may swallow a signal     *)
(* that was meant for somebody else and must put it back.                  *)
(*                                                                         *)
(* One step is one spinlock-protected section, one semaphore operation, or *)
(* one of the two writes the waker makes outside the spinlock.  The queue  *)
(* linked through lwWaitLink is the sequence queue[l].                     *)
(***************************************************************************)
EXTENDS Integers, Sequences, FiniteSets

CONSTANTS
  Procs,      \* the processes that own a PGPROC
  NoProc,     \* a NULL PGPROC pointer
  Locks,      \* the LWLockIds
  MaxHeld,    \* MAX_SIMUL_LWLOCKS
  MaxSignals  \* bound: foreign signals outstanding per process

ASSUME LWLockAssumption ==
  /\ NoProc \notin Procs
  /\ IsFiniteSet(Procs)
  /\ IsFiniteSet(Locks)
  /\ Locks # {}
  /\ MaxHeld \in Nat \ {0}
  /\ MaxSignals \in Nat

EX == "LW_EXCLUSIVE"
SH == "LW_SHARED"
Modes == {EX, SH}
NotHeld == "not held"

VARIABLES
  exclusive,   \* [Locks -> number of exclusive holders]
  shared,      \* [Locks -> number of shared holders]
  releaseOK,   \* [Locks -> may a release wake waiters?]
  queue,       \* [Locks -> the list head .. tail of waiting processes]
  lwWaiting,   \* [Procs -> still waiting for an LWLock?]
  lwExclusive, \* [Procs -> waiting for exclusive access?]
  sem,         \* [Procs -> value of the process semaphore]
  held,        \* [Procs -> held_lwlocks, with the mode each was taken in]
  holdoff,     \* [Procs -> InterruptHoldoffCount]
  pc,          \* [Procs -> where the process is]
  req,         \* [Procs -> arguments and locals of LWLockAcquire]
  wakeup,      \* [Procs -> dequeued waiters LWLockRelease has yet to wake]
  hand,        \* [Procs -> waiter whose lwWaiting is cleared, not yet posted]
  recovering,  \* [Procs -> in error recovery (LWLockReleaseAll)?]
  pending      \* history: foreign signals sent to a process, not consumed

lockVars == <<exclusive, shared, releaseOK, queue>>
waitVars == <<lwWaiting, lwExclusive>>
wakeVars == <<wakeup, hand>>
vars == <<lockVars, waitVars, sem, held, holdoff, pc, req, wakeVars,
          recovering, pending>>

Request == [lock : Locks, mode : Modes, retry : BOOLEAN, extraWaits : Nat]

NewRequest(l, m) == [lock |-> l, mode |-> m, retry |-> FALSE, extraWaits |-> 0]

\* No call in progress.
NoRequest == NewRequest(CHOOSE l \in Locks : TRUE, SH)

HeldLocks(p) == {l \in Locks : held[p][l] # NotHeld}
NumHeld(p) == Cardinality(HeldLocks(p))

LockFree(l) == exclusive[l] = 0 /\ shared[l] = 0

\* Mutant: a writer does not look for readers.
GrantablePastReaders(l, m) == exclusive[l] = 0

\* The grant test at the top of the acquisition loop.
Grantable(l, m) == exclusive[l] = 0 /\ (m = EX => shared[l] = 0)

Init ==
  /\ exclusive = [l \in Locks |-> 0]
  /\ shared = [l \in Locks |-> 0]
  /\ releaseOK = [l \in Locks |-> TRUE]
  /\ queue = [l \in Locks |-> <<>>]
  /\ lwWaiting = [p \in Procs |-> FALSE]
  /\ lwExclusive = [p \in Procs |-> FALSE]
  /\ sem = [p \in Procs |-> 0]
  /\ held = [p \in Procs |-> [l \in Locks |-> NotHeld]]
  /\ holdoff = [p \in Procs |-> 0]
  /\ pc = [p \in Procs |-> "run"]
  /\ req = [p \in Procs |-> NoRequest]
  /\ wakeup = [p \in Procs |-> <<>>]
  /\ hand = [p \in Procs |-> NoProc]
  /\ recovering = [p \in Procs |-> FALSE]
  /\ pending = [p \in Procs |-> 0]

-----------------------------------------------------------------------------
(***************************************************************************)
(* Acquiring                                                               *)
(***************************************************************************)

\* Count lock l as taken by p in mode m (exclusive++ / shared++ and the
\* entry in held_lwlocks).
Grant(p, l, m) ==
  /\ exclusive' = [exclusive EXCEPT ![l] = IF m = EX THEN @ + 1 ELSE @]
  /\ shared' = [shared EXCEPT ![l] = IF m = SH THEN @ + 1 ELSE @]
  /\ held' = [held EXCEPT ![p][l] = m]

\* Mutant: a waiter that is woken does not set the flag again.
ReleaseOKLeftAlone(l, retry) == releaseOK[l]

\* A waiter that was woken allows releases to wake others again.
ReleaseOKAfterTry(l, retry) == releaseOK[l] \/ retry

\* Entry of LWLockAcquire: room in held_lwlocks, HOLD_INTERRUPTS.  Nobody takes
\* a lock that he holds already, which would wait for itself; nothing is said
\* of the order of several locks.  Without room the call raises an error, which
\* is RaiseError below.
LWLockAcquire(p, l, m) ==
  /\ pc[p] = "run" /\ ~recovering[p]
  /\ held[p][l] = NotHeld
  /\ NumHeld(p) < MaxHeld
  /\ holdoff' = [holdoff EXCEPT ![p] = @ + 1]
  /\ req' = [req EXCEPT ![p] = NewRequest(l, m)]
  /\ pc' = [pc EXCEPT ![p] = "try"]
  /\ UNCHANGED <<lockVars, waitVars, sem, held, wakeVars, recovering, pending>>

\* Mutant: the absorbed wakeups are dropped.
GiveBackNothing(p) == 0

\* Wakeups absorbed by the wait that the semaphore is owed.
GiveBack(p) == req[p].extraWaits

\* The section under the spinlock when the lock can be had; the absorbed
\* wakeups are given back to the semaphore on the way out.
TryGranted(p) ==
  LET r == req[p] IN
  /\ pc[p] = "try"
  /\ Grantable(r.lock, r.mode)
  /\ Grant(p, r.lock, r.mode)
  /\ releaseOK' = [releaseOK EXCEPT ![r.lock] = ReleaseOKAfterTry(r.lock, r.retry)]
  /\ sem' = [sem EXCEPT ![p] = @ + GiveBack(p)]
  /\ req' = [req EXCEPT ![p] = NoRequest]
  /\ pc' = [pc EXCEPT ![p] = "run"]
  /\ UNCHANGED <<queue, waitVars, holdoff, wakeVars, recovering, pending>>

\* The same section when it cannot: join the tail of the queue.
TryMustWait(p) ==
  LET r == req[p] IN
  /\ pc[p] = "try"
  /\ ~Grantable(r.lock, r.mode)
  /\ releaseOK' = [releaseOK EXCEPT ![r.lock] = ReleaseOKAfterTry(r.lock, r.retry)]
  /\ lwWaiting' = [lwWaiting EXCEPT ![p] = TRUE]
  /\ lwExclusive' = [lwExclusive EXCEPT ![p] = (r.mode = EX)]
  /\ queue' = [queue EXCEPT ![r.lock] = Append(@, p)]
  /\ pc' = [pc EXCEPT ![p] = "sleep"]
  /\ UNCHANGED <<exclusive, shared, sem, held, holdoff, req, wakeVars,
                 recovering, pending>>

\* PGSemaphoreLock returns but nobody has taken us off the queue: the signal
\* was meant for somebody else.
AbsorbSignal(p) ==
  /\ pc[p] = "sleep"
  /\ sem[p] > 0
  /\ lwWaiting[p]
  /\ sem' = [sem EXCEPT ![p] = @ - 1]
  /\ req' = [req EXCEPT ![p].extraWaits = @ + 1]
  /\ UNCHANGED <<lockVars, waitVars, held, holdoff, pc, wakeVars, recovering,
                 pending>>

\* PGSemaphoreLock returns after a waker cleared lwWaiting: try again.
Awakened(p) ==
  /\ pc[p] = "sleep"
  /\ sem[p] > 0
  /\ ~lwWaiting[p]
  /\ sem' = [sem EXCEPT ![p] = @ - 1]
  /\ req' = [req EXCEPT ![p].retry = TRUE]
  /\ pc' = [pc EXCEPT ![p] = "try"]
  /\ UNCHANGED <<lockVars, waitVars, held, holdoff, wakeVars, recovering,
                 pending>>

\* LWLockConditionalAcquire, successful.  A failed call changes nothing.
LWLockConditionalAcquire(p, l, m) ==
  /\ pc[p] = "run" /\ ~recovering[p]
  /\ held[p][l] = NotHeld
  /\ NumHeld(p) < MaxHeld
  /\ Grantable(l, m)
  /\ Grant(p, l, m)
  /\ holdoff' = [holdoff EXCEPT ![p] = @ + 1]
  /\ UNCHANGED <<releaseOK, queue, waitVars, sem, pc, req, wakeVars,
                 recovering, pending>>

-----------------------------------------------------------------------------
(***************************************************************************)
(* Releasing                                                               *)
(***************************************************************************)

\* k is the number of waiters a release of l takes off the queue, given the
\* counters it leaves: the first alone if it wants exclusive access, else
\* every shared waiter up to the first exclusive one; none if the lock is
\* still held or an earlier wakeup has not been acted upon.
DequeueCount(l, k) ==
  LET q == queue[l] IN
  IF q # <<>> /\ exclusive'[l] = 0 /\ shared'[l] = 0 /\ releaseOK[l]
  THEN /\ k >= 1
       /\ IF lwExclusive[q[1]]
          THEN k = 1
          ELSE /\ \A i \in 1..k : ~lwExclusive[q[i]]
               /\ k < Len(q) => lwExclusive[q[k + 1]]
  ELSE k = 0

\* Mutant: the waker gives up the dequeued waiters but the first.
WakeFirstOnly(l, k) == SubSeq(queue[l], 1, IF k > 0 THEN 1 ELSE 0)

\* The waiters a release of l has to wake.
ToWake(l, k) == SubSeq(queue[l], 1, k)

\* Mutant: only shared holds are counted down.
SharedDecrement(l) == shared[l] - 1

\* The number of shared holders a release leaves.
SharedAfterRelease(l) == IF exclusive[l] > 0 THEN shared[l] ELSE shared[l] - 1

\* LWLockRelease up to the release of the spinlock.  The counter to decrement
\* is chosen by looking at the lock, not at what the process holds.
ReleaseSection(p, l) ==
  /\ held' = [held EXCEPT ![p][l] = NotHeld]
  /\ exclusive' = [exclusive EXCEPT ![l] = IF @ > 0 THEN @ - 1 ELSE @]
  /\ shared' = [shared EXCEPT ![l] = SharedAfterRelease(l)]
  /\ \E k \in 0..Len(queue[l]) :
       /\ DequeueCount(l, k)
       /\ wakeup' = [wakeup EXCEPT ![p] = ToWake(l, k)]
       /\ queue' = [queue EXCEPT ![l] = SubSeq(@, k + 1, Len(@))]
       /\ releaseOK' = [releaseOK EXCEPT ![l] = @ /\ k = 0]
  /\ pc' = [pc EXCEPT ![p] = "wake"]

LWLockRelease(p, l) ==
  /\ pc[p] = "run" /\ ~recovering[p]
  /\ held[p][l] # NotHeld
  /\ ReleaseSection(p, l)
  /\ UNCHANGED <<waitVars, sem, holdoff, req, hand, recovering, pending>>

\* The loop after the spinlock: unlink the next waiter and clear its flag ...
ClearWaiter(p) ==
  /\ pc[p] = "wake"
  /\ hand[p] = NoProc
  /\ wakeup[p] # <<>>
  /\ hand' = [hand EXCEPT ![p] = Head(wakeup[p])]
  /\ wakeup' = [wakeup EXCEPT ![p] = Tail(@)]
  /\ lwWaiting' = [lwWaiting EXCEPT ![Head(wakeup[p])] = FALSE]
  /\ UNCHANGED <<lockVars, lwExclusive, sem, held, holdoff, pc, req,
                 recovering, pending>>

\* ... then PGSemaphoreUnlock it.
PostWaiter(p) ==
  /\ pc[p] = "wake"
  /\ hand[p] # NoProc
  /\ sem' = [sem EXCEPT ![hand[p]] = @ + 1]
  /\ hand' = [hand EXCEPT ![p] = NoProc]
  /\ UNCHANGED <<lockVars, waitVars, held, holdoff, pc, req, wakeup,
                 recovering, pending>>

\* RESUME_INTERRUPTS at the end of LWLockRelease.
ReleaseDone(p) ==
  /\ pc[p] = "wake"
  /\ hand[p] = NoProc /\ wakeup[p] = <<>>
  /\ holdoff' = [holdoff EXCEPT ![p] = @ - 1]
  /\ pc' = [pc EXCEPT ![p] = "run"]
  /\ UNCHANGED <<lockVars, waitVars, sem, held, req, wakeVars, recovering,
                 pending>>

-----------------------------------------------------------------------------
(***************************************************************************)
(* Error recovery                                                          *)
(***************************************************************************)

\* Mutant: the holdoff count of the interrupted code is kept.
HoldoffKept(p) == holdoff[p] + 1

\* InterruptHoldoffCount after errfinish and the handler's HOLD_INTERRUPTS.
HoldoffAfterError(p) == 1

\* ereport(ERROR) outside lwlock.c, or "too many LWLocks taken" on entry to
\* an acquisition: errfinish zeroes InterruptHoldoffCount and the handler
\* holds interrupts once for the cleanup.
RaiseError(p) ==
  /\ pc[p] = "run" /\ ~recovering[p]
  /\ holdoff' = [holdoff EXCEPT ![p] = HoldoffAfterError(p)]
  /\ recovering' = [recovering EXCEPT ![p] = TRUE]
  /\ UNCHANGED <<lockVars, waitVars, sem, held, pc, req, wakeVars, pending>>

\* One iteration of LWLockReleaseAll.
LWLockReleaseAll(p, l) ==
  /\ pc[p] = "run" /\ recovering[p]
  /\ held[p][l] # NotHeld
  /\ ReleaseSection(p, l)
  /\ holdoff' = [holdoff EXCEPT ![p] = @ + 1]
  /\ UNCHANGED <<waitVars, sem, req, hand, recovering, pending>>

\* LWLockReleaseAll has nothing left; the handler resumes interrupts.
RecoveryDone(p) ==
  /\ pc[p] = "run" /\ recovering[p]
  /\ HeldLocks(p) = {}
  /\ holdoff' = [holdoff EXCEPT ![p] = @ - 1]
  /\ recovering' = [recovering EXCEPT ![p] = FALSE]
  /\ UNCHANGED <<lockVars, waitVars, sem, held, pc, req, wakeVars, pending>>

-----------------------------------------------------------------------------
(***************************************************************************)
(* The other users of the process semaphore                                *)
(***************************************************************************)

ProcSendSignal(p) ==
  /\ pending[p] < MaxSignals
  /\ sem' = [sem EXCEPT ![p] = @ + 1]
  /\ pending' = [pending EXCEPT ![p] = @ + 1]
  /\ UNCHANGED <<lockVars, waitVars, held, holdoff, pc, req, wakeVars,
                 recovering>>

\* A process waits for a signal with no LWLock held.
ProcWaitForSignal(p) ==
  /\ pc[p] = "run" /\ ~recovering[p]
  /\ HeldLocks(p) = {}
  /\ sem[p] > 0
  /\ sem' = [sem EXCEPT ![p] = @ - 1]
  /\ pending' = [pending EXCEPT ![p] = @ - 1]
  /\ UNCHANGED <<lockVars, waitVars, held, holdoff, pc, req, wakeVars,
                 recovering>>

-----------------------------------------------------------------------------
\* What a process does once it is inside lwlock.c, without waiting for its
\* caller.
LWLockStep(p) ==
  \/ TryGranted(p) \/ TryMustWait(p)
  \/ AbsorbSignal(p) \/ Awakened(p)
  \/ ClearWaiter(p) \/ PostWaiter(p) \/ ReleaseDone(p)

Recover(p) == RecoveryDone(p) \/ \E l \in Locks : LWLockReleaseAll(p, l)

Next ==
  \E p \in Procs :
    \/ \E l \in Locks, m \in Modes :
         LWLockAcquire(p, l, m) \/ LWLockConditionalAcquire(p, l, m)
    \/ \E l \in Locks : LWLockRelease(p, l)
    \/ LWLockStep(p)
    \/ RaiseError(p)
    \/ Recover(p)
    \/ ProcSendSignal(p)
    \/ ProcWaitForSignal(p)

Spec == Init /\ [][Next]_vars

\* The kernel keeps scheduling every process that can run, and the spinlock
\* sections are short, so a process inside lwlock.c or in error recovery
\* always gets on.  Nothing forces a process to call or to release.
FairSpec == Spec /\ \A p \in Procs : WF_vars(LWLockStep(p) \/ Recover(p))
-----------------------------------------------------------------------------
Abstract == INSTANCE RWLock

\* LWLock implements the reader/writer lock of RWLock: no interleaving of
\* retries, wakeups, conditional calls and error recovery grants a lock that
\* is not compatible with what others hold.
ImplementsRWLock == Abstract!Spec

(***************************************************************************)
(* Properties                                                              *)
(***************************************************************************)

\* Every variable keeps its type.
TypeOK ==
  /\ exclusive \in [Locks -> 0..1]
  /\ shared \in [Locks -> Nat]
  /\ releaseOK \in [Locks -> BOOLEAN]
  /\ queue \in [Locks -> Seq(Procs)]
  /\ lwWaiting \in [Procs -> BOOLEAN]
  /\ lwExclusive \in [Procs -> BOOLEAN]
  /\ sem \in [Procs -> Nat]
  /\ held \in [Procs -> [Locks -> Modes \cup {NotHeld}]]
  /\ holdoff \in [Procs -> Nat]
  /\ pc \in [Procs -> {"run", "try", "sleep", "wake"}]
  /\ req \in [Procs -> Request]
  /\ wakeup \in [Procs -> Seq(Procs)]
  /\ hand \in [Procs -> Procs \cup {NoProc}]
  /\ recovering \in [Procs -> BOOLEAN]
  /\ pending \in [Procs -> Nat]

\* A process that holds a lock exclusively shares it with nobody: what every
\* user of LWLockAcquire relies on, and what the release path, which looks
\* only at the counters, must not spoil.
MutualExclusion ==
  \A l \in Locks, p, q \in Procs :
    held[p][l] = EX /\ p # q => held[q][l] = NotHeld

Holders(l, m) == {p \in Procs : held[p][l] = m}

\* The counters in shared memory are the number of processes that believe
\* they hold the lock in each mode, through retries and error recovery.
CountersMatchHolders ==
  \A l \in Locks :
    /\ exclusive[l] = Cardinality(Holders(l, EX))
    /\ shared[l] = Cardinality(Holders(l, SH))

IsIn(p, s) == \E i \in 1..Len(s) : s[i] = p

\* p was taken off the queue of l and has not competed for it again.
Retrier(l, p) ==
  /\ req[p].lock = l
  /\ \/ pc[p] = "try" /\ req[p].retry
     \/ pc[p] = "sleep" /\ ~IsIn(p, queue[l])

\* When a lock is free but processes queue for it, some dequeued waiter is on
\* its way: releaseOK never stays false with nobody left to set it again.
NoLostWakeup ==
  \A l \in Locks :
    LockFree(l) /\ queue[l] # <<>> => \E p \in Procs : Retrier(l, p)

\* A sleeper is in the queue of its lock, in the hands of a waker, or can
\* take its semaphore at once: none is dequeued and then forgotten.
NoSleeperForgotten ==
  \A p \in Procs :
    pc[p] = "sleep" =>
      \/ IsIn(p, queue[req[p].lock])
      \/ \E w \in Procs : IsIn(p, wakeup[w]) \/ hand[w] = p
      \/ ~lwWaiting[p] /\ sem[p] > 0

\* No waiter is forgotten: the locks have a process that will look at the queue,
\* and the sleepers one that will wake them (LWLockRelease, LWLockAcquire).
NoWaiterForgotten == TypeOK /\ NoLostWakeup /\ NoSleeperForgotten

\* Signals of other modules absorbed by an LWLock wait are given back and no
\* LWLock wakeup is left over: in "run" the semaphore counts exactly the
\* signals that are still to be consumed, less posts on their way.
SignalsConserved ==
  \A p \in Procs :
    sem[p] + req[p].extraWaits + Cardinality({w \in Procs : hand[w] = p})
      = pending[p] + (IF pc[p] = "sleep" /\ ~lwWaiting[p] THEN 1 ELSE 0)

\* Cancel and die interrupts are held off once for every lock held or being
\* acquired or released, and once for error recovery, where the count was
\* reset: it neither leaks nor drops to zero inside a protected section.
InterruptsHeldOff ==
  \A p \in Procs :
    holdoff[p] = (IF recovering[p] THEN 1 ELSE NumHeld(p))
                 + (IF pc[p] = "run" THEN 0 ELSE 1)

\* A lock that becomes free again and again does not leave a process asleep
\* on it for ever, whatever order releases, retries and new callers run in.
SleepersWoken ==
  \A p \in Procs, l \in Locks :
    LET asleep == pc[p] = "sleep" /\ req[p].lock = l
    IN  []<>LockFree(l) => (asleep ~> ~asleep)
=============================================================================
