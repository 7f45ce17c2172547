------------------------------- MODULE SyncRep -------------------------------
(***************************************************************************)
(* Synchronous replication on the primary (replication/syncrep.c), the     *)
(* walsender slots it looks at (replication/walsender.c) and the process   *)
(* latch its waiters sleep on (port/unix_latch.c).                         *)
(*                                                                         *)
(* A backend whose transaction is committed locally queues itself by the   *)
(* position (LSN) of its commit record and sleeps.  A walsender that hears *)
(* from its standby how far the standby's disk has come releases all       *)
(* waiters up to there, provided that it serves the standby of the highest *)
(* priority.  The background writer releases everybody when                *)
(* synchronous_standby_names is emptied.                                   *)
(*                                                                         *)
(* The queue, the states and the release position change under             *)
(* SyncRepLock, but a waiter looks at its state without it, and latches    *)
(* are set and reset without any lock: releasing one waiter is therefore   *)
(* several steps here, and so is waiting on the latch.  A critical section *)
(* that nobody can look into is one step.                                  *)
(***************************************************************************)
EXTENDS Integers, Sequences, FiniteSets, SequencesExt

CONSTANTS
    Backends,     \* processes that commit
    MaxWalSenders,\* max_wal_senders: slots of WalSndCtl->walsnds
    Standbys,     \* standby servers, named by their application_name
    AnyName,      \* the entry "*" of synchronous_standby_names
    Configs,      \* values synchronous_standby_names may take
    FirstConfig,  \* and the one the server starts with
    Nobody,       \* no process, no standby, no message
    MaxLSN,       \* bound: commit records
    MaxEvents     \* bound: connections of standbys, changes of the configuration
                  \* file, cancel and terminate signals, all together

Slots == 1 .. MaxWalSenders
BgWriter == 0              \* as a waker; the slots count from 1
Wakers == Slots \union {BgWriter}
LSNs == 0 .. MaxLSN

ASSUME ConstantsAssumption ==
    /\ MaxWalSenders \in Nat /\ MaxLSN \in Nat /\ MaxEvents \in Nat
    /\ IsFiniteSet(Standbys) /\ FirstConfig \in Configs
    /\ \A names \in Configs : names \in Seq(Standbys \union {AnyName})
    /\ Nobody \notin Backends \union Standbys \union Wakers \union LSNs
    /\ AnyName \notin Standbys

VARIABLES
    conf,         \* synchronous_standby_names in the configuration file
    seen,         \* what each backend and the background writer read of it
    insertLSN,    \* end of the WAL, all of it flushed
    lock,         \* SyncRepLock: the process that holds it for several steps
    released,     \* WalSndCtl->lsn
    defined,      \* WalSndCtl->sync_standbys_defined
    queue,        \* WalSndCtl->SyncRepQueue
    state,        \* PGPROC.syncRepState
    waitLSN,      \* PGPROC.waitLSN
    \* A walsender slot
    served,       \* standby of the walsender that owns the slot (pid # 0)
    sndState,     \* WalSnd.state
    priority,     \* WalSnd.sync_standby_priority
    flush,        \* WalSnd.flush
    todo,         \* what the walsender is about to do
    \* Waking the queue (walsender or background writer)
    waking,       \* [by: waker, all: whole queue?, proc: thisproc, at: step]
    \* The standbys
    disk,         \* WAL on the standby's disk, as far as it has reported it
    \* A backend
    pc,
    commitLSN,    \* argument of SyncRepWaitForLSN
    queryCancel,  \* QueryCancelPending
    procDie,      \* ProcDiePending
    \* Its latch
    isSet,        \* procLatch.is_set
    pipe,         \* a byte is in the self-pipe
    sigusr1,      \* SIGUSR1 on its way
    \* History
    confs,        \* the names in force so far
    excused,      \* backends let go because no standby was named
    events        \* bound

confVars == <<conf, seen, confs>>
slotVars == <<served, sndState, priority, flush, todo>>
queueVars == <<released, defined, queue, state, waitLSN>>
latchVars == <<isSet, pipe, sigusr1>>
backendVars == <<pc, commitLSN, excused, queryCancel, procDie>>
vars == <<events, confVars, insertLSN, lock, queueVars, slotVars, waking,
          disk, backendVars, latchVars>>

SleepSteps == {"drain", "check", "select"}
WaitSteps == {"reset", "test", "interrupts", "die", "cancel"} \union SleepSteps

NotWaking == [by |-> Nobody, all |-> FALSE, proc |-> Nobody, at |-> "next"]

-----------------------------------------------------------------------------
(* Priorities *)

SyncStandbysDefined(names) == names # <<>>

\* Place of the first entry that names the standby, or 0.
SyncRepGetStandbyPriority(names, s) ==
    LET places == {i \in DOMAIN names : names[i] \in {s, AnyName}}
    IN  IF places = {} THEN 0 ELSE CHOOSE i \in places : \A j \in places : i =< j

\* The slot whose walsender may release waiters: the first one of the highest
\* priority (the lowest number) among those in use.  Its state is not looked at.
SyncCandidates == {w \in Slots : served[w] # Nobody /\ priority[w] > 0}
IsSyncWalSnd(w) ==
    /\ w \in SyncCandidates
    /\ \A v \in SyncCandidates :
        \/ priority[w] < priority[v]
        \/ priority[w] = priority[v] /\ w =< v

-----------------------------------------------------------------------------
Init ==
    /\ conf = FirstConfig
    /\ seen = [p \in Backends \union {BgWriter} |-> FirstConfig]
    /\ insertLSN = 0
    /\ lock = Nobody
    /\ released = 0
    /\ defined = SyncStandbysDefined(FirstConfig)
    /\ queue = <<>>
    /\ state = [b \in Backends |-> "NOT_WAITING"]
    /\ waitLSN = [b \in Backends |-> 0]
    /\ served = [w \in Slots |-> Nobody]
    /\ sndState = [w \in Slots |-> "STARTUP"]
    /\ priority = [w \in Slots |-> 0]
    /\ flush = [w \in Slots |-> 0]
    /\ todo = [w \in Slots |-> "none"]
    /\ waking = NotWaking
    /\ disk = [s \in Standbys |-> 0]
    /\ pc = [b \in Backends |-> "idle"]
    /\ commitLSN = [b \in Backends |-> 0]
    /\ queryCancel = [b \in Backends |-> FALSE]
    /\ procDie = [b \in Backends |-> FALSE]
    /\ isSet = [b \in Backends |-> FALSE]
    /\ pipe = [b \in Backends |-> FALSE]
    /\ sigusr1 = [b \in Backends |-> FALSE]
    /\ confs = {FirstConfig} /\ excused = {}
    /\ events = 0

-----------------------------------------------------------------------------
(* Configuration *)

\* The administrator edits the file and sends SIGHUP.
ChangeConfig ==
    /\ events < MaxEvents
    /\ \E names \in Configs \ {conf} :
        /\ conf' = names
        /\ confs' = confs \union {names}
    /\ events' = events + 1
    /\ UNCHANGED <<seen, insertLSN, lock, queueVars, slotVars, waking,
                   disk, backendVars, latchVars>>

\* A backend reads it between two commands.
BackendReload(b) ==
    /\ pc[b] = "idle" /\ seen[b] # conf
    /\ seen' = [seen EXCEPT ![b] = conf]
    /\ UNCHANGED <<events, conf, confs, insertLSN, lock, queueVars, slotVars,
                   waking, disk, backendVars, latchVars>>

\* The background writer reads it in its main loop, and
\* SyncRepUpdateSyncStandbysDefined compares it with the shared flag.
BgWriterReload ==
    /\ waking.by # BgWriter /\ seen[BgWriter] # conf
    /\ defined = SyncStandbysDefined(seen[BgWriter])
    /\ seen' = [seen EXCEPT ![BgWriter] = conf]
    /\ UNCHANGED <<events, conf, confs, insertLSN, lock, queueVars, slotVars,
                   waking, disk, backendVars, latchVars>>

SyncRepUpdateSyncStandbysDefined ==
    /\ waking.by # BgWriter /\ lock = Nobody
    /\ defined # SyncStandbysDefined(seen[BgWriter])
    /\ IF SyncStandbysDefined(seen[BgWriter])
       THEN defined' = TRUE /\ UNCHANGED <<lock, waking>>
       ELSE /\ lock' = BgWriter
            /\ waking' = [NotWaking EXCEPT !.by = BgWriter, !.all = TRUE]
            /\ UNCHANGED defined
    /\ UNCHANGED <<events, confVars, insertLSN, released, queue, state, waitLSN,
                   slotVars, disk, backendVars, latchVars>>

-----------------------------------------------------------------------------
(* A backend: SyncRepWaitForLSN *)

\* The commit record is written and flushed (RecordTransactionCommit).
Commit(b) ==
    /\ pc[b] = "idle" /\ ~procDie[b] /\ insertLSN < MaxLSN
    /\ insertLSN' = insertLSN + 1
    /\ commitLSN' = [commitLSN EXCEPT ![b] = insertLSN + 1]
    /\ pc' = [pc EXCEPT ![b] = "commit"]
    /\ UNCHANGED <<events, confVars, lock, queueVars, slotVars, waking, disk,
                   excused, queryCancel, procDie, latchVars>>

Return(b) ==
    /\ pc' = [pc EXCEPT ![b] = "idle"]
    /\ commitLSN' = [commitLSN EXCEPT ![b] = 0]
    /\ excused' = excused \ {b}

\* Fast exit: this backend knows of no synchronous standby.
FastExit(b) ==
    /\ pc[b] = "commit" /\ ~SyncStandbysDefined(seen[b])
    /\ Return(b)
    /\ UNCHANGED <<events, confVars, insertLSN, lock, queueVars, slotVars, waking,
                   disk, queryCancel, procDie, latchVars>>

\* Mutant: sync_standbys_defined is not looked at.
NeedToWaitMutant(b) == commitLSN[b] > released

\* Found out under the lock: is there still anything to wait for?
NeedToWait(b) == defined /\ commitLSN[b] > released

NoWaitNeeded(b) ==
    /\ pc[b] = "commit" /\ SyncStandbysDefined(seen[b]) /\ lock = Nobody
    /\ ~NeedToWait(b)
    /\ Return(b)
    /\ UNCHANGED <<events, confVars, insertLSN, lock, queueVars, slotVars, waking,
                   disk, queryCancel, procDie, latchVars>>

\* Mutant: always at the tail.
SyncRepQueueInsertMutant(b) == Append(queue, b)

\* Behind the last waiter with a smaller LSN, looking from the tail.
SyncRepQueueInsert(b) ==
    LET before == {i \in DOMAIN queue : waitLSN[queue[i]] < commitLSN[b]}
        last == IF before = {} THEN 0
                ELSE CHOOSE i \in before : \A j \in before : j =< i
    IN  InsertAt(queue, last + 1, b)

Enqueue(b) ==
    /\ pc[b] = "commit" /\ SyncStandbysDefined(seen[b]) /\ lock = Nobody
    /\ NeedToWait(b)
    /\ waitLSN' = [waitLSN EXCEPT ![b] = commitLSN[b]]
    /\ state' = [state EXCEPT ![b] = "WAITING"]
    /\ queue' = SyncRepQueueInsert(b)
    /\ pc' = [pc EXCEPT ![b] = "reset"]
    /\ UNCHANGED <<events, confVars, insertLSN, lock, released, defined, slotVars, waking,
                   disk, commitLSN, excused, queryCancel, procDie, latchVars>>

\* A step inside the wait loop that changes nothing but the backend's place.
Goto(b, from, to) ==
    /\ pc[b] = from
    /\ pc' = [pc EXCEPT ![b] = to]
    /\ UNCHANGED <<events, confVars, insertLSN, lock, queueVars, slotVars, waking,
                   disk, commitLSN, excused, procDie>>

ResetLatch(b) ==
    /\ Goto(b, "reset", "test")
    /\ isSet' = [isSet EXCEPT ![b] = FALSE]
    /\ UNCHANGED <<queryCancel, pipe, sigusr1>>

\* "Complete" is true whenever it is seen; "waiting" may be stale and is only
\* believed when read again under the lock.
TestState(b) ==
    /\ \/ state[b] = "WAIT_COMPLETE" /\ Goto(b, "test", "cleanup")
       \/ state[b] # "WAIT_COMPLETE" /\ lock = Nobody /\ Goto(b, "test", "interrupts")
    /\ UNCHANGED <<queryCancel, latchVars>>

\* Mutant: the latch is reset after the state and the flags were tested.
TestInterruptsMutant(b) ==
    /\ Goto(b, "interrupts", CASE procDie[b] -> "die"
                               [] queryCancel[b] /\ ~procDie[b] -> "cancel"
                               [] OTHER -> "drain")
    /\ queryCancel' = [queryCancel EXCEPT ![b] = @ /\ procDie[b]]
    /\ isSet' = [isSet EXCEPT ![b] = FALSE]
    /\ UNCHANGED <<pipe, sigusr1>>

\* Termination comes before cancellation; only the latter is used up by it.
TestInterrupts(b) ==
    /\ Goto(b, "interrupts", CASE procDie[b] -> "die"
                               [] queryCancel[b] /\ ~procDie[b] -> "cancel"
                               [] OTHER -> "drain")
    /\ queryCancel' = [queryCancel EXCEPT ![b] = @ /\ procDie[b]]
    /\ UNCHANGED latchVars

\* Mutant: the waiter stays on the queue.
LeaveQueueMutant(b) == queue

LeaveQueue(b) == RemoveFirst(queue, b)

\* SyncRepCancelWait and the end of SyncRepWaitForLSN.  The client of a
\* cancelled wait gets a warning; a terminated one is told nothing any more.
SyncRepCancelWait(b) ==
    /\ pc[b] \in {"die", "cancel"} /\ lock = Nobody
    /\ queue' = LeaveQueue(b)
    /\ state' = [state EXCEPT ![b] = "NOT_WAITING"]
    /\ waitLSN' = [waitLSN EXCEPT ![b] = 0]
    /\ Return(b)
    /\ UNCHANGED <<events, confVars, insertLSN, lock, released, defined, slotVars, waking,
                   disk, queryCancel, procDie,
                   latchVars>>

\* The wait is over: clean up without the lock and leave.
WaitDone(b) ==
    /\ pc[b] = "cleanup"
    /\ state' = [state EXCEPT ![b] = "NOT_WAITING"]
    /\ waitLSN' = [waitLSN EXCEPT ![b] = 0]
    /\ Return(b)
    /\ UNCHANGED <<events, confVars, insertLSN, lock, released, defined, queue, slotVars,
                   waking, disk, queryCancel, procDie, latchVars>>

\* A backend that was told to terminate exits, and another one takes its PGPROC
\* (ProcKill, InitProcess).  The latch stays as it is.
Terminate(b) ==
    /\ pc[b] = "idle" /\ procDie[b]
    /\ b \in ToSet(queue) => lock = Nobody
    /\ queue' = LeaveQueue(b)
    /\ procDie' = [procDie EXCEPT ![b] = FALSE]
    /\ queryCancel' = [queryCancel EXCEPT ![b] = FALSE]
    /\ sigusr1' = [sigusr1 EXCEPT ![b] = FALSE]
    /\ pipe' = [pipe EXCEPT ![b] = FALSE]
    /\ UNCHANGED <<events, confVars, insertLSN, lock, released, defined, state, waitLSN,
                   slotVars, waking, disk, pc, commitLSN, excused, isSet>>

-----------------------------------------------------------------------------
(* WaitLatch and signal handlers *)

\* The self-pipe is drained before is_set is looked at.  A byte written to it
\* any earlier is gone: "waiting" counts from here.
DrainSelfPipe(b) ==
    /\ Goto(b, "drain", "check")
    /\ pipe' = [pipe EXCEPT ![b] = FALSE]
    /\ UNCHANGED <<queryCancel, isSet, sigusr1>>

waiting(b) == pc[b] \in {"check", "select"}

CheckLatch(b) ==
    /\ Goto(b, "check", IF isSet[b] THEN "reset" ELSE "select")
    /\ UNCHANGED <<queryCancel, latchVars>>

\* select() finds the byte.
SelectReady(b) ==
    /\ pipe[b] /\ Goto(b, "select", "drain")
    /\ UNCHANGED <<queryCancel, latchVars>>

\* The 10 seconds are over.
SelectTimeout(b) ==
    /\ Goto(b, "select", "reset")
    /\ UNCHANGED <<queryCancel, latchVars>>

\* A handler ran: select() ends with EINTR or is restarted by the system.
AfterHandler(b) ==
    \/ UNCHANGED pc
    \/ pc[b] = "select" /\ pc' = [pc EXCEPT ![b] = "drain"]

\* latch_sigusr1_handler
Sigusr1Handler(b) ==
    /\ sigusr1[b]
    /\ sigusr1' = [sigusr1 EXCEPT ![b] = FALSE]
    /\ pipe' = [pipe EXCEPT ![b] = @ \/ waiting(b)]
    /\ AfterHandler(b)
    /\ UNCHANGED <<events, confVars, insertLSN, lock, queueVars, slotVars, waking,
                   disk, commitLSN, excused, queryCancel, procDie, isSet>>

\* Mutant: no byte into the self-pipe; the signal itself is to end select().
SetOwnLatchMutant(b) ==
    /\ isSet' = [isSet EXCEPT ![b] = TRUE]
    /\ AfterHandler(b)
    /\ UNCHANGED <<pipe, sigusr1>>

\* SetLatch of a process on its own latch, in a signal handler.
SetOwnLatch(b) ==
    /\ isSet' = [isSet EXCEPT ![b] = TRUE]
    /\ pipe' = [pipe EXCEPT ![b] = @ \/ (waiting(b) /\ ~isSet[b])]
    /\ AfterHandler(b)
    /\ UNCHANGED sigusr1

StatementCancelHandler(b) ==
    /\ events < MaxEvents /\ pc[b] # "idle"
    /\ events' = events + 1
    /\ queryCancel' = [queryCancel EXCEPT ![b] = TRUE]
    /\ SetOwnLatch(b)
    /\ UNCHANGED <<confVars, insertLSN, lock, queueVars, slotVars, waking,
                   disk, commitLSN, excused, procDie>>

Die(b) ==
    /\ events < MaxEvents /\ ~procDie[b]
    /\ events' = events + 1
    /\ procDie' = [procDie EXCEPT ![b] = TRUE]
    /\ SetOwnLatch(b)
    /\ UNCHANGED <<confVars, insertLSN, lock, queueVars, slotVars, waking,
                   disk, commitLSN, excused, queryCancel>>

-----------------------------------------------------------------------------
(* A walsender and its standby *)

\* A standby connects and is given the first free slot (InitWalSnd), also while
\* the walsender of its last connection has not noticed that it is broken.  The
\* priority and the flush position of the slot's last owner stay in it.
InitWalSnd(s) ==
    /\ events < MaxEvents
    /\ \E w \in Slots :
        /\ served[w] = Nobody
        /\ \A v \in Slots : v < w => served[v] # Nobody
        /\ served' = [served EXCEPT ![w] = s]
        /\ sndState' = [sndState EXCEPT ![w] = "STARTUP"]
        /\ todo' = [todo EXCEPT ![w] = "init"]
    /\ events' = events + 1
    /\ UNCHANGED <<confVars, insertLSN, lock, queueVars, priority, flush, waking,
                   disk, backendVars, latchVars>>

\* SyncRepInitConfig: after the handshake has started replication, and whenever
\* the configuration was read anew.  The lock is taken for a change only.
SyncRepInitConfig(w) ==
    LET new == SyncRepGetStandbyPriority(conf, served[w])
    IN  /\ todo[w] = "init" \/ (todo[w] = "loop" /\ priority[w] # new)
        /\ lock = Nobody \/ priority[w] = new
        /\ priority' = [priority EXCEPT ![w] = new]
        /\ sndState' = [sndState EXCEPT ![w] = IF todo[w] = "init" THEN "CATCHUP" ELSE @]
        /\ todo' = [todo EXCEPT ![w] = "loop"]
        /\ UNCHANGED <<events, confVars, insertLSN, lock, queueVars, served, flush, waking, disk, backendVars, latchVars>>

\* All WAL was sent once (WalSndLoop).
CaughtUp(w) ==
    /\ todo[w] = "loop" /\ sndState[w] = "CATCHUP"
    /\ sndState' = [sndState EXCEPT ![w] = "STREAMING"]
    /\ UNCHANGED <<events, confVars, insertLSN, lock, queueVars, served, priority, flush,
                   todo, waking, disk, backendVars, latchVars>>

\* The walsender exits: shutdown, a broken connection, replication_timeout.
WalSndKill(w) ==
    /\ todo[w] \in {"init", "loop"}
    /\ served' = [served EXCEPT ![w] = Nobody]
    /\ todo' = [todo EXCEPT ![w] = "none"]
    /\ UNCHANGED <<events, confVars, insertLSN, lock, queueVars, sndState, priority, flush, waking, disk, backendVars, latchVars>>

\* The standby has flushed more WAL, or none, and its reply arrives.
ProcessStandbyReplyMessage(w) ==
    /\ todo[w] = "loop"
    /\ \E lsn \in disk[served[w]] .. insertLSN :
        /\ disk' = [disk EXCEPT ![served[w]] = lsn]
        /\ flush' = [flush EXCEPT ![w] = lsn]
    /\ todo' = [todo EXCEPT ![w] =
                  IF priority[w] = 0 \/ sndState[w] # "STREAMING" THEN @ ELSE "release"]
    /\ UNCHANGED <<events, confVars, insertLSN, lock, queueVars, served, sndState, priority, waking, backendVars, latchVars>>

SyncRepReleaseWaiters(w) ==
    /\ todo[w] = "release" /\ lock = Nobody
    /\ IF IsSyncWalSnd(w) /\ released < flush[w]
       THEN /\ released' = flush[w]
            /\ lock' = w
            /\ waking' = [NotWaking EXCEPT !.by = w]
            /\ todo' = [todo EXCEPT ![w] = "wake"]
       ELSE todo' = [todo EXCEPT ![w] = "loop"] /\ UNCHANGED <<released, lock, waking>>
    /\ UNCHANGED <<events, confVars, insertLSN, defined, queue, state, waitLSN, served,
                   sndState, priority, flush, disk, backendVars,
                   latchVars>>

-----------------------------------------------------------------------------
(* SyncRepWakeQueue, by the holder of SyncRepLock *)

\* Mutant: one position too far.
MoreToWakeMutant ==
    /\ queue # <<>>
    /\ waking.all \/ waitLSN[Head(queue)] =< released + 1

MoreToWake ==
    /\ queue # <<>>
    /\ waking.all \/ waitLSN[Head(queue)] =< released

\* The state first: from here on the waiter may leave by itself.
WakeComplete ==
    /\ waking.by # Nobody /\ waking.at = "next" /\ MoreToWake
    /\ state' = [state EXCEPT ![Head(queue)] = "WAIT_COMPLETE"]
    /\ waking' = [waking EXCEPT !.proc = Head(queue), !.at = "delete"]
    /\ excused' = IF waking.all THEN excused \union {Head(queue)} ELSE excused
    /\ UNCHANGED <<events, confVars, insertLSN, lock, released, defined, queue, waitLSN,
                   slotVars, disk, pc, commitLSN, queryCancel,
                   procDie, latchVars>>

\* Then the queue, and the first half of SetLatch.
WakeSetLatch ==
    /\ waking.at = "delete"
    /\ queue' = LeaveQueue(waking.proc)
    /\ isSet' = [isSet EXCEPT ![waking.proc] = TRUE]
    /\ waking' = IF isSet[waking.proc]
                 THEN [waking EXCEPT !.proc = Nobody, !.at = "next"]
                 ELSE [waking EXCEPT !.at = "signal"]
    /\ UNCHANGED <<events, confVars, insertLSN, lock, released, defined, state, waitLSN,
                   slotVars, disk, backendVars, pipe, sigusr1>>

\* The second half signals the owner of the latch.
WakeSignal ==
    /\ waking.at = "signal"
    /\ sigusr1' = [sigusr1 EXCEPT ![waking.proc] = TRUE]
    /\ waking' = [waking EXCEPT !.proc = Nobody, !.at = "next"]
    /\ UNCHANGED <<events, confVars, insertLSN, lock, queueVars, slotVars, disk,
                   backendVars, isSet, pipe>>

\* The queue is done and the lock released.
WakeEnd ==
    /\ waking.by # Nobody /\ waking.at = "next" /\ ~MoreToWake
    /\ waking' = NotWaking
    /\ lock' = Nobody
    /\ defined' = (defined /\ ~waking.all)
    /\ todo' = IF waking.by = BgWriter THEN todo
               ELSE [todo EXCEPT ![waking.by] = "loop"]
    /\ UNCHANGED <<events, confVars, insertLSN, released, queue, state, waitLSN, served,
                   sndState, priority, flush, disk, backendVars,
                   latchVars>>

-----------------------------------------------------------------------------
SyncRepWait(b) ==
    \/ FastExit(b) \/ NoWaitNeeded(b) \/ Enqueue(b)
    \/ ResetLatch(b) \/ TestState(b) \/ TestInterrupts(b)
    \/ SyncRepCancelWait(b) \/ WaitDone(b)
    \/ DrainSelfPipe(b) \/ CheckLatch(b) \/ SelectReady(b)

SyncRepWakeQueue == WakeComplete \/ WakeSetLatch \/ WakeSignal \/ WakeEnd

BgWriterStep == BgWriterReload \/ SyncRepUpdateSyncStandbysDefined

WalSndStep(w) ==
    \/ SyncRepInitConfig(w) \/ CaughtUp(w)
    \/ ProcessStandbyReplyMessage(w) \/ SyncRepReleaseWaiters(w)

Next ==
    \/ ChangeConfig \/ BgWriterStep \/ SyncRepWakeQueue
    \/ \E b \in Backends :
        \/ BackendReload(b) \/ Commit(b) \/ SyncRepWait(b) \/ Terminate(b)
        \/ SelectTimeout(b) \/ Sigusr1Handler(b)
        \/ StatementCancelHandler(b) \/ Die(b)
    \/ \E w \in Slots : WalSndStep(w) \/ WalSndKill(w)
    \/ \E s \in Standbys : InitWalSnd(s)

Spec == Init /\ [][Next]_vars

\* A process that can take a step of its own takes it some time, signals arrive,
\* and the background writer notices SIGHUP.  Nothing is assumed of the standbys
\* and of the timeout of a latch wait.
Fairness ==
    /\ \A b \in Backends : WF_vars(SyncRepWait(b)) /\ WF_vars(Sigusr1Handler(b))
    /\ WF_vars(SyncRepWakeQueue)
    /\ WF_vars(BgWriterStep)

FairSpec == Spec /\ Fairness

-----------------------------------------------------------------------------
(* Properties *)

TypeOK ==
    /\ conf \in Configs /\ confs \subseteq Configs /\ conf \in confs
    /\ seen \in [Backends \union {BgWriter} -> Configs]
    /\ insertLSN \in LSNs /\ released \in LSNs /\ defined \in BOOLEAN
    /\ lock \in Wakers \union {Nobody}
    /\ queue \in Seq(Backends) /\ IsInjective(queue)
    /\ state \in [Backends -> {"NOT_WAITING", "WAITING", "WAIT_COMPLETE"}]
    /\ waitLSN \in [Backends -> LSNs] /\ commitLSN \in [Backends -> LSNs]
    /\ served \in [Slots -> Standbys \union {Nobody}]
    /\ sndState \in [Slots -> {"STARTUP", "CATCHUP", "STREAMING"}]
    /\ priority \in [Slots -> Nat] /\ flush \in [Slots -> LSNs]
    /\ todo \in [Slots -> {"none", "init", "loop", "release", "wake"}]
    /\ waking \in [by : Wakers \union {Nobody}, all : BOOLEAN,
                   proc : Backends \union {Nobody},
                   at : {"next", "delete", "signal"}]
    /\ disk \in [Standbys -> LSNs]
    /\ pc \in [Backends -> {"idle", "commit", "cleanup"} \union WaitSteps]
    /\ excused \subseteq Backends
    /\ queryCancel \in [Backends -> BOOLEAN] /\ procDie \in [Backends -> BOOLEAN]
    /\ isSet \in [Backends -> BOOLEAN]
    /\ pipe \in [Backends -> BOOLEAN] /\ sigusr1 \in [Backends -> BOOLEAN]

\* What synchronous replication is for: a commit that is acknowledged without a
\* warning is on the disk of a standby that was named at some time, unless the
\* backend is let go because nobody is named.  Releasing happens by position,
\* by a walsender that may have inherited its slot, and the backend leaves by a
\* state it reads without a lock.
OnNamedStandby(lsn) ==
    \E s \in Standbys, names \in confs :
        SyncRepGetStandbyPriority(names, s) > 0 /\ disk[s] >= lsn

AckedIsReplicated ==
    [][\A b \in Backends :
          /\ WaitDone(b) => b \in excused \/ OnNamedStandby(commitLSN[b])
          /\ NoWaitNeeded(b) => ~defined \/ OnNamedStandby(commitLSN[b])]_vars

\* Whenever SyncRepLock is free, the queue holds exactly the backends that
\* wait, in the order of their commit records (SyncRepQueueIsOrderedByLSN), and
\* all of them rightly: none is behind the position already released, and none
\* got in after the queue was emptied for good (the interlock described in
\* SyncRepUpdateSyncStandbysDefined).
WaitersQueued ==
    /\ TypeOK
    /\ lock = Nobody =>
        /\ ToSet(queue) = {b \in Backends : state[b] = "WAITING"}
        /\ \A i, j \in DOMAIN queue : i < j => waitLSN[queue[i]] < waitLSN[queue[j]]
        /\ \A b \in ToSet(queue) : defined /\ released < waitLSN[b]

\* No lost wakeup in the latch: a backend on its way to sleep, or asleep, that
\* was released, cancelled or terminated has its latch set, and if it sleeps
\* with the latch set a byte or a signal is there or the setter still has to
\* send it.
NoLostWakeup ==
    \A b \in Backends :
        /\ pc[b] \in SleepSteps /\ ( \/ queryCancel[b] \/ procDie[b]
                                     \/ state[b] = "WAIT_COMPLETE" /\
                                            waking.proc # b )
            => isSet[b]
        /\ pc[b] = "select" /\ isSet[b]
            => \/ pipe[b] \/ sigusr1[b]
               \/ waking.proc = b /\ waking.at = "signal"

\* A wait that was completed, cancelled or cut off comes to its end, even if the
\* timeout of the latch wait never fires (WaitLatch: "Ideally, the timeout
\* parameter is vestigial").
WaitEnds ==
    \A b \in Backends :
        ( \/ state[b] = "WAIT_COMPLETE"
          \/ pc[b] \in WaitSteps /\ (queryCancel[b] \/ procDie[b]) )
            ~> pc[b] = "idle"

\* Nobody remains wedged when synchronous_standby_names is emptied, not even a
\* backend that has not reloaded its configuration and joins the queue later.
UnsetReleasesAll ==
    \A b \in Backends :
        pc[b] \in WaitSteps /\ conf = <<>> ~> pc[b] = "idle" \/ conf # <<>>

\* The assertion at the end of SyncRepWaitForLSN: a backend that leaves is not
\* on the queue any more.
DetachedOnReturn == \A b \in Backends : pc[b] = "cleanup" => b \notin ToSet(queue)

=============================================================================
