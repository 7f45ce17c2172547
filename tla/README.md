# A TLA+ project for the sp12 repository

The repository holds the assignments of a database course: two script
assignments (`hw1`, `hw2`), a Rails skeleton (`hw3/bearPlanner`), and two
copies of the PostgreSQL 9.1.2 server (`hw4`, `hw5`) to which the course adds a
similarity join.  The program with a core of its own is the server; `hw5` is
the later copy, and paths below are relative to
`src/hw5/postgresql-9.1.2/src/backend/`.

This project models the parts of the server in which several processes, or a
process and its signal handlers, depend on each other in ways tests hardly
reach, and the two join components the course worked on.

## 1. Inventory

| Component | State | Operations | Interacts with |
|---|---|---|---|
| Lightweight locks, `storage/lmgr/lwlock.c` | per lock: two counters, queue, `releaseOK`; per process: `lwWaiting`, `lwExclusive`, semaphore, `held_lwlocks` | acquire, conditional acquire, release, release all | everything in shared memory; shares the semaphore with `ProcWaitForSignal`; error handler of `tcop/postgres.c` |
| Shared invalidation, `storage/ipc/sinvaladt.c`, `sinval.c` | ring of messages, `minMsgNum`, `maxMsgNum`, a position and flags per backend; a static array per process | insert, read, clean up, arrive, leave, give out local transaction ids | LWLocks, process signals, the caches of each backend (`utils/cache/inval.c`) |
| LISTEN/NOTIFY, `commands/async.c` | a queue with head and tail, a position per listening backend; lists of pending actions and notifications | commit hooks, abort hook, read the queue, signal, advance the tail, exit | `access/transam/xact.c`, clog, one heavyweight lock, process signals |
| Process signals, `storage/ipc/procsignal.c` | a flag per process and reason | send, check, handle | the two above |
| Client loop, `tcop/postgres.c` | enable and note flags for each kind of interrupt, transaction block state | read a command, run it, recover from an error, cancel | `sinval.c`, `async.c` |
| Similarity index, `executor/simjoinUtil.c` | an array of (trigram; tuple) entries | store, finalize (sort), find a list, walk it | the similarity join node, which is unfinished |
| Nested-loop join, `executor/nodeNestloop.c` | two scans, three flags | next row, rescan | the executor and its two subplans |
| Latches, `port/unix_latch.c` | `is_set`, a self-pipe and a flag `waiting` per process | set, reset, wait | signals; synchronous replication and the walsender |
| Synchronous replication, `replication/syncrep.c`, and walsender slots, `replication/walsender.c` | a queue of waiters by LSN, a state per waiter, the released LSN, whether standbys are defined; per slot: standby, state, priority, flushed LSN | wait, cancel, release, wake, reload of the configuration, a standby comes, replies, goes | `xact.c` (commit), latches, background writer |
| Checkpoints, `postmaster/bgwriter.c`, `storage/smgr/md.c`, `storage/buffer/bufmgr.c`, `access/transam/xlog.c` | three counters, flags, a queue of requests; a table of pending fsyncs and a list of pending unlinks; dirty flags | modify, write, create, drop, request, absorb, sync, unlink, fail | backends, operating system, WAL |
| Heavyweight locks, `storage/lmgr/lock.c`, `proc.c`, `deadlock.c` | holders, wait queues, a local table per process, semaphore, deadlock timer | acquire, sleep, wake up, release, cancel, check for deadlock | everything that locks a table or a row |
| Transactions and snapshots, `access/transam/varsup.c`, `xact.c`, `clog.c`, `subtrans.c`, `transam.c`, `storage/ipc/procarray.c`, `utils/time/tqual.c` | next and latest completed xid; per process: xid, subtransaction cache, xmin, the last status it fetched from the commit log; commit log, parents; hint bits | assign, commit, abort, take a snapshot, look at a tuple, compute the horizon | everything that reads tuples; vacuum; `async.c` |
| SLRU pages, serializable isolation, WAL insertion and recovery, two-phase commit, postmaster, autovacuum, planner, the other executor nodes | | | not modelled, see section 8 |

What is hard in them:

* **LWLocks.**  A release wakes waiters but does not hand the lock over; a
  flag suppresses wakeups while one is under way.  Whether somebody sleeps for
  ever depends on the order of releases, retries, and semaphore posts meant
  for somebody else.  Correct means: mutual exclusion, exact counters, no lost
  wakeup, no lost signal, interrupts held off as long as needed.
* **Shared invalidation.**  Readers run in parallel with a writer; cleanup
  resets laggards, renumbers everything and gives its locks up half way; the
  read routine is re-entered from its own callbacks and may be left by an
  error.  Correct means: every backend applies every message once, in order,
  or discards its caches.
* **LISTEN/NOTIFY.**  Queue entries are written before their transaction
  commits and read after; listeners register before they commit; the tail is
  moved by whoever read from it, after letting go of the lock.  Correct means:
  what commits after a LISTEN has committed is delivered to it, once, in order
  of commit, and the queue drains.
* **Signals.**  A handler may run between any two accesses to two flags, and
  does transactions of its own.  Correct means: no work is nested in work, and
  nothing is left unserviced.
* **Similarity index.**  Boundary cases of search, scan and walk, and a
  comparison by wrapping subtraction.
* **Nested-loop join.**  State kept from call to call, a rescan at any moment.
* **Synchronous replication.**  A waiter looks at its state without the lock
  and sleeps on a latch that is three pieces of state; walsenders inherit the
  slots, and with them the positions, of others; the configuration reaches
  every process at its own time.  Correct means: a commit reported as
  replicated is on a standby's disk, and nobody waits who need not.
* **Checkpoints.**  A write by a backend is made durable by another process
  that hears of it through a bounded queue, while files are dropped and their
  numbers used again, and fsync may fail.  Correct means: a completed checkpoint
  covers what was written before it, and whoever asked for one got that.
* **Heavyweight locks.**  Waiters are granted by others, cancelled, reordered
  and thrown out; the deadlock check runs once per wait.  Correct means:
  no conflicting grants, no waiter that could be granted, every cycle found,
  no victim without a cycle.
* **Snapshots.**  Ids are assigned without the lock that scans take, the
  commit log is written before the proc array is left, subtransactions
  overflow into a log of their own.  Correct means: a snapshot shows exactly
  what had ended when it was taken, and a hint bit says what becomes of the
  transaction.

The full list of hazards, each at its line and with the properties that cover
it, is in `PROJECT.json`.

## 2. Modules

| Module | Models | State and actions |
|---|---|---|
| `RWLock` | what an LWLock promises: a reader/writer lock | `held` |
| `LWLock` | `lwlock.c`, with `ProcSendSignal`/`ProcWaitForSignal` of `proc.c` and the error handler's `LWLockReleaseAll` | one action per section under the spinlock, semaphore operation, and write of the waker outside the spinlock; the list linked by `lwWaitLink` is a sequence |
| `InvalBus` | what shared invalidation promises: an ordered broadcast with resets | `published`, `member`, `position` |
| `SInval` | `sinvaladt.c`, `sinval.c` | a variable per field of `SISeg` and `ProcState` and per local of a call; one action per hold of a lock, per message copied into or out of the ring, per call of the invalidation function.  Cleanup holds both locks exclusively and is one step |
| `AsyncQueue` | `async.c` and the calls to it in `xact.c` and `postgres.c` | one action per hold of `AsyncQueueLock`, per entry read (readers hold no such lock), per signal sent, per step of commit and abort |
| `IdleInterrupts` | the interrupt routines of `sinval.c` and `async.c`, `procsignal_sigusr1_handler`, the client read of `postgres.c` | one process as a stack of frames; one action per access to a flag; a signal pushes a frame anywhere |
| `SimIndex` | `simjoinUtil.c` | the array and the locals of the search; one action per iteration of a loop |
| `NestLoop` | `nodeNestloop.c` | the fields of `NestLoopState` and the places in the two scans; one action per round of the loop or early return |
| `SyncRep` | `syncrep.c`, the slots of `walsender.c`, the latch of `unix_latch.c`, the reload of `synchronous_standby_names`, cancel and termination | the fields of `WalSndCtl`, `WalSnd`, `PGPROC` and `Latch`; one action per critical section of `SyncRepLock`, per step of waking one waiter, per access to latch, pipe and signal flags |
| `Checkpoint` | the request side of `bgwriter.c`, the pending table of `md.c`, the dirty flags of `bufmgr.c`, `CreateCheckPoint` | a file or relation carries the state of the operation on it; one action per spinlock section or system call; the background writer is a program counter |
| `DeadLock` | `deadlock.c` as a function from lock table to outcome | what the recursive search can return, for every order of the holders |
| `LockManager` | `lock.c` and the waiting of `proc.c`, using `DeadLock` | holders, queues, local tables, semaphores, alarms; one action per hold of the partition lock |
| `Snapshot` | xid assignment, commit log, subtransaction log, proc array, snapshots, visibility and hint bits | the fields of `PGPROC`, `pg_clog`, `pg_subtrans`; one action per entry scanned, per page of the commit log written, per question of a visibility test; `cached` is the status that `transam.c` keeps |
| `LWLockProofs`, `SInvalProofs`, `SimIndexProofs`, `NestLoopProofs`, `SyncRepProofs`, `CheckpointProofs`, `SnapshotProofs`, `AsyncQueueProofs` | proofs about the module of the name, section 6; each begins with the facts about numbers it needs.  `SInvalProofs` extends `IdleInterrupts` as well | |
| `MCAsyncQueue`, `MCSyncRep`, `MCLockManager`, `MCSnapshot` | values and symmetry for TLC | the other modules are instantiated by their .cfg files alone |

Operators marked `Mutant:` are not part of a model.  Each is a plausible
mistake in the operator after it, kept beside it so that one can put it in its
place and see the property named for it in `PROJECT.json` fail.

How the modules fit together: `SInval` and `AsyncQueue` take the LWLocks that
`LWLock` models as what `RWLock` promises (atomic sections, or a variable for
the holder), which is justified by `ImplementsRWLock`.  Both of them deliver a
signal by setting a note flag; how a process turns notes into work while it is
idle is `IdleInterrupts`, whose "work" is a read in the other two.  The commit
that `AsyncQueue` takes as one step of `xstate` is spelled out in `Snapshot`:
clog first, then the proc array.  `SyncRep` stands between the two, in
`RecordTransactionCommit`.  `Snapshot` and `LockManager` use LWLocks as
atomic sections, and so does `Checkpoint` with spinlocks.

### Abstractions

* A message, notification, channel, trigram or tuple is a number or model value.
* `LWLock`: any lock may be asked for in any order, as `lwlock.c` has it; that
  callers avoid deadlock among several locks is their affair and not modelled.
* `SInval`: `knows`, what a backend has applied, advances when the invalidation
  function is called, as the code's index does before the call
  (`sinval.c:91-93`, 119-121).  A message whose function throws is not applied
  again; the model counts it as reflected.
* `SInval`: a message is its serial number since startup; `base` (a history
  variable) is what wraparounds have subtracted, so that the properties can
  speak of serials while the code's arithmetic stays as it is.  Only one
  process may be send-only (the Startup process).
* `AsyncQueue`: a queue position is the number of entries before it; a page
  holds one entry.  `xstate` stands for clog and the proc array.  Transactions
  appear at their commit, with the lists they have collected.
* `NestLoop`: quals, subplans and row counts of the target list are data,
  chosen at the start and without effect on each other.
* `SyncRep`: the WAL is a number, all of it flushed; a standby is what its
  replies say.  Connections, changes of the configuration, cancels and
  terminations share one bound, `MaxEvents`.  What is left of a wait that was
  cancelled (`waitLSN` reset) is part of the cancel.
* `Checkpoint`: one page is a file and one segment a fork.  A drop is assumed
  not to be so slow that a whole checkpoint passes between its forks (a file it
  has passed is "retired").  A failed fsync leaves the data as it was, as the
  code assumes.  Fetching the flags and clearing the signal are one step, and so
  are setting the flags and sending the signal; the retries when the background
  writer is not running, their error, and the interrupt that may end them
  (`bgwriter.c:985-1010`) are left out.  `smgrpreckpt` and the choice of the REDO
  point are one step, so that the order that `md.c:1176` asks for is not tested.
* `LockManager`: counts and masks are those of the holders and waiters.  Which
  cycle a search meets first is left open.  Releases by an aborted
  subtransaction are steps of `LockRelease`.  The limits of the workspace of
  `deadlock.c` (314-315, 378-379), which make it give up on a deadlock that a
  reordering might solve, are left out; three processes do not reach them.
* `Snapshot`: each xid inserts one tuple, and a reader asks about that one.  The
  scan of the array in `TransactionIdIsInProgress` and the climb of
  `TransactionIdDidAbort` are one step each; those of `GetSnapshotData`,
  `GetOldestXmin` and `TransactionIdDidCommit` are not.  A scan reads all fields
  of one entry in one step, while the code reads them one after the other
  (`procarray.c:1261-1309`) and `varsup.c` stores without the lock: that xids are
  fetched just once is not exercised.  Whether the commit record is on disk
  when `SetHintBits` looks (`tqual.c:111-118`) is left open, so that a committed
  hint may or may not be set.
* `SimIndex`: addresses wrap modulo `2 * Half`, and lie in the lower half as
  user-space addresses do.  Callers store all entries before they finalize, and
  no more than the array holds: the store at `simjoinUtil.c:36` has no check
  against the 50000 entries of line 17, and past them the code writes outside
  the array.

## 3. Runs

Each passing run finishes within four minutes with two workers.

| Run | Question | Bounds and why they are enough | States |
|---|---|---|---|
| `lwlock` | exact counters, no waiter forgotten, no signal lost, interrupt holdoff, refinement of `RWLock`, nobody sleeps for ever | 3 processes, 1 lock, 1 foreign signal: a holder, a retrying waiter and a queued one at once; one lock fills `held_lwlocks`, so that the error and the recovery from it are reached.  Several locks held at once are covered by the proofs of section 6 | 559 k |
| `sinval` | unread messages intact, caught up on return, refinement of `InvalBus`, local transaction ids | 2 backends, ring of 2, wraparound at 2, 3 messages in groups of up to 2, fetch array of 1, one read nested in another, 2 local ids; `SIG_THRESHOLD` is 0 instead of half of the ring, so that a signal and a reset both fit into it: an overtaken reader, a wraparound, a reset and a signal in the middle of an insertion, a slot used again | 6.3 M |
| `async` | nothing missed, once and in order, nothing unread is lost or blocked, no listener and no tail forgotten | 2 backends, 3 transactions of up to two commands, queue of 2, an error of each kind, one exit: a full queue, an aborted entry between committed ones, a read cut off between two entries | 3.1 M |
| `idle` | one service at a time and never inside a command, signals serviced | 2 errors and 2 cancels; no bound on signals | 184 k |
| `simindex` | sorted, found, inside the array | every array of up to 4 entries over 3 trigrams and 3 addresses | 325 k |
| `nestloop` | result is the join by definition, the join ends | 2 by 2 tuples, all quals, 4 join types, sets of 0, 1 or 2 rows, 1 rescan | 2.1 M |
| `syncrep` | the queue holds who waits, no lost wakeup, acknowledged means replicated | 2 backends, 2 standbys of different priority, 2 slots, 2 commits, 2 events: a queue of two in either order, a slot inherited by a worse standby, a change of configuration between test and sleep | 1.3 M |
| `checkpoint_files` | no fsync forgotten, numbers not reused too early, drops harmless, completed checkpoints durable | 1 relation of two forks, a request queue of 2, cycle counter modulo 2: dirtied again while written, dropped and created again during a checkpoint, compaction of a full queue, a checkpoint repeated after a failed fsync | 2.9 M |
| `checkpoint_requests` | a request gets what it asked for, and returns | 1 waiting requester, counters modulo 4, 1 relation, checkpoints that others start and that fail | 455 k |
| `lockmgr` | tables sound, nobody grantable waits, sleepers wake, cycles found, victims deadlocked | 3 processes, 2 locks, a shared and an exclusive mode, 1 cancel: hard and soft cycles, upgrades, a grant that races a cancel, a reordered queue | 78 k |
| `snapshot` | snapshots exact, hints final, a tree commits at once, horizon safe | 2 writers, 1 reader, 4 xids, 2 per page, 1 subtransaction cached per process.  An overflow needs a transaction with 2 subtransactions, and something to race it a fourth xid; a tree of 3 spans two pages.  The one reader computes the horizon too, between its snapshots, against writers that get xids and commit; that another process is in the middle of a snapshot is what `Snapshot_horizon` adds | 8.4 M |

`syncrep_detached`, the twelfth run, is expected to find a violation; see section 4.

`AsyncQueue`, `SimIndex`, `NestLoop` and the modules from `syncrep` on are
checked without deadlock checking: transactions, commits, xids and events are
bounded and clients may stop, a query ends with an error, a join with NULL.  In
the other modules a deadlock would be an error and is looked for.

A property of the table that is a conjunction has its parts as definitions of
their own: `NoWaiterForgotten`, `ServicedOneByOne`, `QueueReadable`,
`LockTablesSound` and `UnreadMessagesIntact` among them, and each contains the
type invariant of its module.

In the runs of `AsyncQueue` a transaction has at most one LISTEN or
UNLISTEN command; with two of them the code does what `AsyncQueue_registered.cfg`
shows, and a backend that is not registered is not sent anything, so that the
delivery properties do not hold.  For the same reason `NoMissedNotification`
owes a listener only what the tail has not passed before the commit
(`AsyncQueue_uncommitted.cfg` shows the rest).  Delivery is
promised unless a read has ended in an error (`gaveUp`): nothing in the code
takes such a read up again.

More configurations are kept for use by hand.  They pass, unless said otherwise,
and ask the same modules about other bounds, or parts of a property by
themselves.

| Configuration | Module | What it adds |
|---|---|---|
| `SInval_ring` | `SInval` | a ring of 3 with 4 messages; delivery in order and room after cleanup as properties of their own (5.8 M states) |
| `SInval_slots` | `SInval` | 3 slots, of which a middle one stays while the last leaves; 3 local ids, past the overflow of the counter |
| `AsyncQueue_tail` | `MCAsyncQueue` | 3 backends in 2 databases, so that a reader of another database holds the tail back |
| `AsyncQueue_live` | `MCAsyncQueue` | delivery and draining as liveness properties, under fair scheduling (218 k) |
| `SimIndex_walk` | `SimIndex` | every list is walked to its end and every probe returns |
| `SyncRep_live` | `MCSyncRep` | a wait that is over is left, and emptying `synchronous_standby_names` releases everybody, without the timeout of the latch (488 k) |
| `LockManager_live` | `MCLockManager` | a wait ends unless others overtake it for ever (179 k) |
| `Snapshot_horizon` | `MCSnapshot` | two processes that each write, take snapshots and run vacuum: the horizon is computed while another one is in the middle of a snapshot it has not published (443 k with 2 xids; 15 M with 3) |
| `AsyncQueue_uncommitted`, `AsyncQueue_registered`, `IdleInterrupts_lost`, `Checkpoint_unlogged`, `Snapshot_hints` | | violated, see section 4 |

## 4. Where the code differs from its comments

The run `syncrep_detached` checks one property that restates an assertion
(`DetachedOnReturn`), and finds it violated.  `SyncRepWaitForLSN` ends with
`Assert(SHMQueueIsDetached(&(MyProc->syncRepLinks)))` (`syncrep.c:260`).
`SyncRepWakeQueue` sets a waiter's state to `SYNC_REP_WAIT_COMPLETE` (548)
before it unlinks it (553), and the waiter reads its state without the lock
(184): it can arrive at the assertion still linked.  Without assertions it goes
on to reset its fields while the walsender is at work on the queue, which the
comment at 255-258 rules out.  Every other property of `SyncRep` holds all the
same.

Five configurations used by hand show other places, each with one property that
restates a comment.

| Configuration, property | Comment | What the code does |
|---|---|---|
| `AsyncQueue_uncommitted`, `ListenerBeforeUncommitted` | `async.c:964-967`: starting at the tail ensures that no uncommitted notification is missed | with nobody listening the tail moves to the head, past uncommitted entries, and a LISTEN that commits first starts behind them |
| `AsyncQueue_registered`, `ListenersRegistered` | `async.c:41-42`: every listening backend is registered | `UNLISTEN a; LISTEN b` in one transaction, when `a` is the only channel, ends listening and unregistered |
| `IdleInterrupts_lost`, `NoSignalLeftBehind` | `async.c:1756-1757`: after the loop there is no unserviced interrupt | an error in the catchup service skips the handler's check for notify, and the SIGUSR1 is gone |
| `Checkpoint_unlogged`, `OnlyPermanentMarked` | `bufmgr.c:1182-1185`: only a shutdown checkpoint writes buffers of unlogged relations | line 1187 sets a bit of `flags` where the mask should be set; unlogged buffers are marked as well |
| `Snapshot_hints`, `CommittedHintsWait` | `tqual.c:13-26`: a tuple must not be taken as committed while a later snapshot takes its transaction to be running, so `TransactionIdIsInProgress` is asked before `TransactionIdDidCommit` | if the subtransactions of a transaction have overflowed, the former asks the commit log itself (`procarray.c:921`), and `transam.c:89-95` remembers a final answer.  Between the commit record and the end of the entry in the array, the first look at a subtransaction finds its parent there and answers "in progress"; the second returns "no" at line 763 from what is remembered, and the committed hint is set |

In the last one `HeapTupleSatisfiesMVCC` is not misled, because it asks its
snapshot as well (`SnapshotIsExact`); the routines that have no snapshot are.
What holds of hints is `HintsAreFinal`: a committed one is never set before the
commit is in the log, and before the transaction has left the array only in
this case.

More places of the models follow the code where a comment says something else.

* The header of `syncrep.c` (33-36) lets a standby take part once it has caught
  up.  `SyncRepReleaseWaiters` asks that only of the walsender that runs it; in
  its search for the highest priority (396-407) the `state` of the other slots
  does not count.  A standby of better priority that is still catching up
  therefore keeps the one that could release the waiters from doing so.
* `sinval.c:138` clears the catchup flag also for a signal that came after the
  last read (`Finish`); the backend, with `signaled` set, is not signalled again
  until it reads of its own accord.
* `sinvaladt.c:605` leaves the send-only Startup process out of the minimum, so
  that its position leaves the ring (`nextMsgNum` of `SInval` may be negative).
* A cancel request at an idle backend disables both kinds of interrupt and is
  then ignored (`postgres.c:2683`, 2951-2955); they stay disabled until the
  next command.  `NothingUnservicedAtWait` and `SignalsServiced` are therefore
  about a backend that was not cancelled.

## 5. Fairness

* `LWLock`: weak fairness for each process on its steps inside `lwlock.c` and
  in error recovery.  The kernel schedules runnable processes and spinlock
  sections are short.  Nothing forces a call or a release; `SleepersWoken`
  assumes instead that the lock becomes free again and again.
* `AsyncQueue`: weak fairness on the steps of commit, abort, reading and
  signal handling.  Nothing forces a transaction to start, or an error.
* `IdleInterrupts`: weak fairness on the process; strong fairness on the
  delivery of SIGUSR1, which is blocked while its handler runs and is delivered
  when it is unblocked.  `SignalsServiced` assumes that the backend comes to
  wait for its client outside a block again and again, without errors and
  cancels.
* `SyncRep`: weak fairness for each waiting backend, the arrival of SIGUSR1,
  the waker of the queue, and the background writer's look at SIGHUP.
  Nothing is assumed of standbys, nor of the timeout of the latch wait, which
  `WaitLatch` calls vestigial.
* `Checkpoint`: weak fairness for the background writer in a checkpoint, its
  answer to a signal and its look at the request queue when idle, for
  operations under way and for a requester that polls the counters.
* `LockManager`: a woken process runs, a deadlock timer is not set for ever
  (it fires or the wait is over), and clients end their transactions, with
  strong fairness because a process may wait in between.  The detector lets
  others go first, which can happen again and again, so `WaitsEnd` excuses a
  waiter that is overtaken for ever.
* `Snapshot` promises safety only.
* The fairness of `AsyncQueue`, `SyncRep` and `LockManager` is used by the
  `_live` configurations only, which are run by hand.
* `SimIndex`, `NestLoop`: a single process goes on in its loop; the executor
  calls a node until it returns NULL.

## 6. Proofs

Each proof is about `Spec` (`IdleSpec` in `IdleInterrupts`) with all constants arbitrary.  Its assumptions are
the named `ASSUME`s of the component's module, which TLC evaluates in every
run; where one is more than a type, it is named below.  A theorem follows from
an inductive invariant that TLC had checked on the configurations of section 3
first.

`LWLockProofs`, for any finite sets of processes and locks, any `MaxHeld`
and any number of signals:

* `CountersMatchHoldersHolds`, `MutualExclusionHolds`: the counters alone do
  not imply exclusion, nor does exclusion keep the counters.  The inductive
  invariant `CountInv` says that an exclusive holder is alone, that the
  counters are the cardinalities of the sets of holders, and that a process in
  an acquisition does not yet hold the lock.  With it the release, which
  looks at the counters only, decrements the right one.
* `RefinesRWLock`: each step grants a compatible lock, releases one, or leaves
  `held` alone (`ImplementsRWLock`).
* `InterruptsHeldOffHolds`: `HoldoffInv` adds to the property that recovery
  does not wait for a lock.
* `NoWaiterForgottenHolds`: `WaitInv` puts every waiting process in the queue
  of its lock or the list of one releaser, once; `RetryInv` adds that while
  `releaseOK` is off a dequeued process is on its way to set it again.
* `SignalsConservedHolds`: `SignalInv` accounts for the units of each
  semaphore.  A waker may still have a process in hand that a foreign signal
  has awakened meanwhile, and that sleeps again; so one process can be in the
  hand of several wakers, and the invariant counts them.

`SInvalProofs`, for any number of backends, any ring and any thresholds that
`SInvalAssumption` admits (the group of messages written at once fits into the
ring, and the wraparound is a multiple of its size):

* `IInvHolds`.  `PlaceInv` and `LockInv` tie locals and locks to the place a
  backend is at.  `RingInv` and `WriteInv` say what is in the ring, a writer's
  unpublished messages included; without the latter, and that a writer has
  room for its whole group, publication would not keep the former.
  `PositionInv` keeps readers inside the ring, `DeliveryInv` says that fetched
  and unread messages continue what the caches reflect, and `CallInv` how far
  each of the nested calls has come.
* `UnreadMessagesIntactHolds`, `DeliveryInOrderHolds`, `CaughtUpOnReturnHolds`
  and `ActiveBackendsSeenHolds` are parts of it.  `CleanupMakesRoomHolds` needs
  in addition that the new minimum is at least the low bound.
* `RefinesInvalBus`: publication, arrival, departure, each call of the
  invalidation function and each reset are steps of `InvalBus`; everything
  else, the renumbering at a wraparound in particular, changes nothing there.
* `LXIDsSuccessiveHolds`: `LXIDInv` says that the counter of a slot, in the
  backend while there is one and in `procState` in between, follows the last id
  given out, modulo `LXIDModulus` with 0 left out.

The last part of `SInvalProofs` is about `IdleInterrupts`, where the
catchup interrupts that the ring sends are serviced, for any number of cancels
and errors:

* `ServicedOneByOneHolds`: the flags say little by themselves, because a frame
  may have taken one down and owe it to the frames below.  `ClientInv`
  therefore says of each place what a frame at it wants of each flag: that it is
  down as long as the frame is there (`Blocks`); that it is up, unless a frame
  above has borrowed it (`Entitled`); or that it is the borrower (`Borrows`) and
  was right to find it up (`BorrowedWasUp`).  `Shape` is the order in which
  frames can lie on each other.  While a command, an abort or the work of an
  interrupt is in the stack, all above it only leaves notes (`QuietIsQuiet`),
  and a note that is left while its flag is up is about to be found by some frame
  (`NotesAreFound`).
* That the stack has at most six frames follows: below its top and above the main
  loop are handlers, frames just below one, and loops that have borrowed their
  flag, and there is at most one of each for each kind (`StackIsShort`).
* The invariant is about a stack, flags and counters as parameters (`StackInv`), and
  the lemmas `FrameChangeInv`, `FrameCallInv` and `FrameReturnInv` say once what
  a step may do to the top of a stack; each action then only has to be shown to
  be such a step.

`SyncRepProofs`, for any numbers of backends, walsenders and standbys:

* `WaitersQueuedHolds`: `LsnInv` ties what a backend waits for to where it is,
  `WakerInv` is about the holder of `SyncRepLock`, and `QueueInv` about the
  queue while it is being woken, when the property itself says nothing.
* `NoLostWakeupHolds`: `LatchInv` adds that a backend between the test of its
  state and the sleep has its latch set if its wait is over.
* `AckedIsReplicatedHolds`: `AckInv` says that what is released, and what a
  slot reports, is on the disk of a standby.

`CheckpointProofs`, for any relations, forks and requesters, any length of the
queue (`CounterModulus` at least 4; it is 2^32 in the code):

* `IInvHolds`.  `UnlinkInv` says that at most one unlink of a relation is
  pending, `ForgetInv` and `FdInv` that what is left from the previous relation
  of a number does not touch the next one, `RevokedInv` that a file that may be
  missing has its requests revoked, `PendingInv` that nothing is forgotten.
  `CoveredInv` says what a running checkpoint still has to do for what was
  changed before its REDO point.
* `NothingForgottenHolds`, `ReuseNotReplayedHolds`, `DropDoesNotFailHolds` and
  `CheckpointDurableHolds` follow.
* `RequestServedHolds`: `CountInv` bounds how far the counters can be ahead of a
  request, and `ServedInv` says that a request is still to be taken up, is being
  served, has been served, or will return an error.

`SnapshotProofs`, for any writers, readers and number of xids:

* `CachesCompleteHolds`: `XidOrder` puts the xids of a transaction in order and
  ties what ends to what runs.
* `HorizonIsSafeHolds`: `OldInv` says for each process in the middle of a scan
  how old the oldest xid is that its result can still have to respect.  A scan
  of the array is not atomic, and the horizon may be computed in between.
* `TreeCommitsAtOnceHolds`: `ForestInv` says that what a process runs is a tree
  in `pg_subtrans`, apart from the subtransaction it is about to enter, and that
  the trees of two processes and what has committed have no xid in common.
  `LogInv` says how far the writing of a tree has come and accounts for every
  xid: it runs, or has committed, or the log has it aborted.  The recursive
  functions over `pg_subtrans` are defined because links go back in time, which
  `Recursions` carries along as an invariant.
* `HintsAreFinalHolds`: `HintInv` is what a visibility test knows between its
  steps.  An xid that it did not find in the array is over (`Settled`), or
  belongs to a transaction whose root it has noted down and will find again in
  `pg_subtrans`, or is the one whose status the process remembers.  What is
  remembered is final, which is `CacheRight`: aborted in the log, or committed
  there with the whole tree written, though perhaps still in the array.  So what
  the test then reads in the commit log stays.
* `SnapshotIsExactHolds`: `AnswerInv` says that a snapshot, and each part of one
  that is being made, lists the root of every tree that runs and what its cache
  held, or has the overflow flag, and nothing of what had committed before.  The
  walk in `pg_subtrans` that stops below `TransactionXmin` still reaches that
  root because `OldInv` keeps the xmin of the process behind it.

`AsyncQueueProofs`, for any backends, databases, channels and transactions, and
any size of the queue:

* `UncommittedAtTheEnd` (`CommitOrder`, a part of `QueueReadable`): `Types` says
  where a backend can be, `XactInv` what has become of its transaction there.
  `WriterInv` ties the entries in progress to the holder of the lock on
  "database 0" and puts them at the end of the queue.
* `NothingDeliveredTwice`: `DeliveryInv` says that whatever was sent is behind the
  backend, or will be after the read it is in.  A backend that begins to listen
  goes back to the tail; its first read sends nothing because it is not
  listening yet, and gets past what was sent before because only entries in
  progress stop it.
* `ListeningIsRegistered`, `QueueIsReadable`, `NoNotificationMissed`,
  `NobodyForgotten` and `TailWillBeAdvanced` are about behaviours in which no
  transaction listens after an UNLISTEN (`ListensFirst`, a hypothesis that
  speaks of the pending actions only).  The code does not satisfy them
  without it: that is the second disagreement of section 4, and a backend
  that is not in the array is not looked at by anyone.
  `OneActionListensFirst` shows that one command for each transaction is
  enough, as in the runs.
* For these, `PositionInv` says that no listener is behind the tail,
  `RegisteredInv` who is in the array, `AheadInv` that what is in progress and
  still in the queue is ahead of every listener, in the middle of a read too.
  `MissInv` says the same of what a listener is owed, and that the channels whose
  LISTEN has committed are those that `AtCommit_Notify` is about to leave.
* `NoForgottenListener` is inductive given these: a read that ends has got to the
  first entry in progress, so nothing that was committed when it began
  is left, and whatever commits later has a notifier that has still to
  look at the positions.  `TailInv` strengthens `TailNotForgotten`: a
  notifier counts only while nobody is registered.

`SimIndexProofs`, for any number of entries:

* `SearchInvariant`: the index is ordered once finalized; outside `imin..imax`
  there is no entry with the key; a scan stands on the list or just before it;
  an id returned is the first of its list.
* `FirstEntryFoundHolds`, `TypeOKHolds` (no access outside the array) and
  `PostingsSortedHolds` follow.  The last needs the assumption that addresses
  lie in one half of the address space.
* `WholeListWalkedHolds` (the invariant of the configuration `SimIndex_walk`):
  finalizing keeps every entry as often as it was stored (`EntriesKept`: what
  `qsort` leaves is a permutation, and `SameCount` turns a correspondence of
  places into equal counts); the caller has walked what lies between the start of
  the list and its id, and when there is no id left, the whole list
  (`WalkedFrom`).

`NestLoopProofs`, for inputs of any size, any quals and row counts (at most two
rows of a join tuple), all four join types and any number of rescans:

* `ReturnsTheJoin` (`ResultIsJoin`): `LoopInv` says that the rows returned
  (`out`), followed by the rows of the last join tuple that are still to be
  projected, are `Done`: what the outer tuples before the current one contribute
  by the definition of the join, and what the current one has given up to the
  place in the inner scan.  `MatchedInv` ties `nl_MatchedOuter` to the
  definition: it is set if and only if the current outer tuple has had a match,
  and until then nothing was given for it; this is what lets the end of the
  inner scan decide whether the row with nulls is due, and a semijoin take the
  first match for the least one.
* `JoinResult` flattens a sequence of sequences.  `SumsAre` gives the flattening
  as a function of the number of sequences, by induction over a set, and that
  function has a value at every moment of the scan.

Only model-checked:

* the liveness properties (`SleepersWoken`, `RequestsReturn`, `SignalsServiced`,
  `JoinEnds` and those of the `_live` configurations): fairness and ENABLED are
  out of the prover's reach;
* `LockManager` and `DeadLock`: the search of `deadlock.c` is a recursive
  operator, which the prover does not handle.

## 7. Plan

Done, in this order: `LWLock` with `RWLock` and proofs; `SInval` with
`InvalBus` and proofs; `AsyncQueue`, `IdleInterrupts`, `SimIndex`, `NestLoop`,
`SyncRep`, `Checkpoint` and `Snapshot` with proofs; `DeadLock` and `LockManager`.

Next, to prove: safety properties of `LockManager`, once `DeadLock` is written
with recursive functions.

Next, to model:

1. `Slru`: page slots, I/O in progress, the victim search.
2. `AsyncPages`: page arithmetic of the queue (`asyncQueuePagePrecedesLogically`,
   `asyncQueueIsFull`, `asyncQueueAdvance`, dummy entries, truncation) with
   positions as the code has them, shown to implement the positions of
   `AsyncQueue`.
3. Pending lists of `async.c` under subtransactions (`AtSubCommit_Notify`,
   `AtSubAbort_Notify`, duplicates).
4. An abstract specification of visibility, a sequence of commits and a prefix
   per snapshot, that `Snapshot` implements.
5. Buffer pins and the clock sweep.

## 8. Not modelled

* `nodeSimjoin.c` is unfinished: `ExecInitSimJoin` advances a pointer, takes
  the size of the array from the wrong address and ends in `elog(ERROR)`.
* The CS186 block of `ExecInitNestLoop` that extracts column numbers only
  serves the similarity join.
* A FATAL exit inside `ProcessCompletedNotifies` (`async.c:1101`).
* Of checkpoints: restartpoints, the shutdown checkpoint, DROP DATABASE, and a
  background writer that stops.
* Of heavyweight locks: session and advisory locks, requests that do not wait,
  a full table, `log_lock_waits`, the cancelling of autovacuum, prepared
  transactions.
* Of snapshots: hot standby, crash, wraparound of xids, the exclusion of lazy
  vacuum, the horizon of one database, `vacuum_defer_cleanup_age`, tuples
  that are deleted or locked.
* The write-ahead log, recovery and most of what lives on disk: mostly I/O,
  too large for a faithful model of this kind.
* Planner, parser, the other executor nodes and access methods: large pure
  computations on data.
* Serializable isolation, autovacuum, postmaster, statistics: systems of their
  own.
* `hw4` is the earlier copy of the same server.  `hw3/bearPlanner` is a
  skeleton with sign-up, log-in and log-out on a database that serializes its
  writers.  `hw2` has holes where queries should be.  `hw1` has no state.
