----------------------------- MODULE Checkpoint -----------------------------
(***************************************************************************)
(* Checkpoints: the request counters and the queue of fsync requests of    *)
(* postmaster/bgwriter.c, the table of pending fsyncs and the list of      *)
(* pending unlinks of storage/smgr/md.c, the buffer writes of              *)
(* storage/buffer/bufmgr.c and CreateCheckPoint of access/transam/xlog.c.  *)
(*                                                                         *)
(* Backends write buffers to the operating system and leave the fsync to   *)
(* the background writer, which does it at the next checkpoint.  A         *)
(* relation that is dropped keeps an empty first file until a checkpoint   *)
(* is over, so that its number is not used again while a crash could still *)
(* replay the drop.                                                        *)
(*                                                                         *)
(* One page stands for a file and one segment for a fork.  "main" is the   *)
(* fork whose file is kept, "fsm" any other one.  Operations of backends   *)
(* that take several steps are state of the file or relation they work on; *)
(* which process runs them makes no difference.  An fsync that fails       *)
(* leaves the data as it was, as the code assumes.                         *)
(***************************************************************************)
EXTENDS Integers, Sequences, FiniteSets, SequencesExt, FiniteSetsExt, Functions

CONSTANTS
    Rels,          \* relation file nodes
    Forked,        \* those that have a second fork
    Unlogged,      \* those of unlogged relations
    ShortLived,    \* those that may be dropped
    Requesters,    \* processes in RequestCheckpoint(CHECKPOINT_FORCE | _WAIT)
    MaxRequests,   \* BgWriterShmem->max_requests
    CycleModulus,  \* CycleCtr wraps around here (2^16 in the code)
    CounterModulus \* ckpt_started, ckpt_done, ckpt_failed do here (2^32)

ASSUME ConstantsAssumption ==
    /\ Forked \subseteq Rels /\ Unlogged \subseteq Rels /\ ShortLived \subseteq Rels
    /\ MaxRequests \in Nat \ {0}
    /\ CycleModulus \in Nat /\ CycleModulus >= 2
    /\ CounterModulus \in Nat \ {0} /\ (Requesters # {} => CounterModulus >= 4)
    /\ "ckpt" \notin Requesters

Files == (Rels \X {"main"}) \union (Forked \X {"fsm"})
Permanent == {f \in Files : f[1] \notin Unlogged}
Main(r) == <<r, "main">>
Observers == Requesters \union {"ckpt"}
NoFile == <<>>

VARIABLES
    \* Files and buffers
    file,        \* "live", "dropped" (its buffers are gone), "none", "retired"
    dirty,       \* the buffer is newer than the operating system's copy
    io,          \* a backend has written the buffer, BM_DIRTY is still set
    unsynced,    \* the operating system's copy is newer than the disk's
    needed,      \* BM_CHECKPOINT_NEEDED
    drop,        \* where smgrDoPendingDeletes is with a relation
    \* Shared by backends and background writer
    queue,       \* requests[]
    force,       \* CHECKPOINT_FORCE in ckpt_flags
    started, done, failed,
    signal,      \* checkpoint_requested
    \* The background writer
    at,          \* where it is
    forced,      \* flags of the running checkpoint
    ops,         \* pendingOpsTable
    unlinks,     \* pendingUnlinks
    syncCtr,     \* mdsync_cycle_ctr
    ckptCtr,     \* mdckpt_cycle_ctr
    syncBusy,    \* mdsync_in_progress
    failures,    \* file that could not be opened once
    fd,          \* descriptors: "closed", "open", "stale" (of a removed file)
    \* The WAL
    logged,      \* something was inserted since the last REDO point
    quiet,       \* the last checkpoint record is at its REDO point and last
    \* Requesters
    req,
    \* History
    unwritten,   \* <<o, f>>: changes of f that count for o are in the buffer
    unfsynced,   \* <<o, f>>: ... are with the operating system only
    replay,      \* drops a crash would replay now
    replayNext   \* and once the running checkpoint is complete

fileVars == <<file, drop>>
bufVars == <<dirty, io, needed>>
ctrVars == <<force, started, done, failed, signal>>
mdVars == <<ops, unlinks, syncCtr, ckptCtr, syncBusy, failures>>
walVars == <<logged, quiet>>
owedVars == <<unwritten, unfsynced>>
replayVars == <<replay, replayNext>>
vars == <<fileVars, bufVars, unsynced, queue, ctrVars, at, forced, mdVars, fd,
          walVars, req, owedVars, replayVars>>

IdleRequest == [at |-> "idle", oldStarted |-> 0, oldFailed |-> 0, newStarted |-> 0]

Init ==
    /\ file = [f \in Files |-> "live"]
    /\ dirty = {} /\ io = {} /\ unsynced = {} /\ needed = {}
    /\ drop = [r \in Rels |-> "no"]
    /\ queue = <<>>
    /\ force = FALSE /\ signal = FALSE
    /\ started = 0 /\ done = 0 /\ failed = 0
    /\ at = "loop" /\ forced = FALSE
    /\ ops = <<>> /\ unlinks = <<>>
    /\ syncCtr = 0 /\ ckptCtr = 0 /\ syncBusy = FALSE /\ failures = NoFile
    /\ fd = [f \in Files |-> "closed"]
    /\ logged = FALSE /\ quiet = TRUE
    /\ req = [q \in Requesters |-> IdleRequest]
    /\ unwritten = {} /\ unfsynced = {}
    /\ replay = {} /\ replayNext = {}

-----------------------------------------------------------------------------
(* What is owed to whom: a ghost of the buffers and files *)

Of(f) == Observers \X {f}

\* From now on, o counts on what is in the buffers and files.
Count(o) ==
    /\ unwritten' = {x \in unwritten : x[1] # o} \union {<<o, f>> : f \in dirty \intersect Permanent}
    /\ unfsynced' = {x \in unfsynced : x[1] # o}
                        \union {<<o, f>> : f \in (unsynced \ dirty) \intersect Permanent}

\* The buffer of f is copied to the operating system.
Write(f) ==
    /\ dirty' = dirty \ {f}
    /\ unwritten' = unwritten \ Of(f)
    /\ unfsynced' = unfsynced \union (unwritten \intersect Of(f))
    /\ unsynced' = unsynced \union {f}

Fsync(f) ==
    /\ unsynced' = unsynced \ {f}
    /\ unfsynced' = unfsynced \ Of(f)

-----------------------------------------------------------------------------
(* The request queue *)

\* A request is skipped if it is followed by a later, identical one.
CompactBgwriterRequestQueue(q) ==
    FoldRight(LAMBDA r, kept : IF Contains(kept, r) THEN kept ELSE <<r>> \o kept, q, <<>>)

\* The queue takes another request, if need be once it is compacted.
Room ==
    \/ Len(queue) < MaxRequests
    \/ Len(CompactBgwriterRequestQueue(queue)) < Len(queue)

ForwardFsyncRequest(type, f) ==
    /\ Room
    /\ queue' = Append(IF Len(queue) < MaxRequests THEN queue
                                                   ELSE CompactBgwriterRequestQueue(queue),
                       [type |-> type, file |-> f])

-----------------------------------------------------------------------------
(* The background writer's side of it: md.c.  A state of its private       *)
(* memory is [ops, unlinks].                                               *)

Pending == [ops |-> ops, unlinks |-> unlinks]

\* An entry that exists keeps its cycle unless it is canceled.
RememberFsync(p, f) ==
    IF f \in DOMAIN p.ops /\ ~p.ops[f].canceled THEN p ELSE
    [p EXCEPT !.ops = [g \in DOMAIN p.ops \union {f} |->
        IF g = f THEN [cycle |-> syncCtr, canceled |-> FALSE] ELSE p.ops[g]]]

RememberForget(p, f) ==
    [p EXCEPT !.ops = [g \in DOMAIN p.ops |->
        [p.ops[g] EXCEPT !.canceled = @ \/ g = f]]]

RememberUnlink(p, r) ==
    [p EXCEPT !.unlinks = Append(@, [rel |-> r, cycle |-> ckptCtr])]

RememberFsyncRequest(p, request) ==
    CASE request.type = "fsync" -> RememberFsync(p, request.file)
      [] request.type = "forget" -> RememberForget(p, request.file)
      [] request.type = "unlink" -> RememberUnlink(p, request.file[1])

\* The state after AbsorbFsyncRequests; the queue is then empty.
Absorbed == FoldLeft(RememberFsyncRequest, Pending, queue)
AbsorbFsyncRequests ==
    /\ queue' = <<>>
    /\ ops' = Absorbed.ops /\ unlinks' = Absorbed.unlinks

-----------------------------------------------------------------------------
(* Backends: pages and files *)

\* MarkBufferDirty and XLogInsert, under the buffer's exclusive content lock,
\* which nobody gets while the page is written.
Modify(f) ==
    /\ file[f] = "live" /\ f \notin io
    /\ dirty' = dirty \union {f}
    /\ logged' = (logged \/ f \in Permanent)
    /\ quiet' = (quiet /\ f \notin Permanent)
    /\ UNCHANGED <<fileVars, io, needed, unsynced, queue, ctrVars, at, forced,
                   mdVars, fd, req, owedVars, replayVars>>

\* FlushBuffer: a backend writes the page to the operating system ...
BackendWrite(f) ==
    /\ f \in dirty /\ f \notin io
    /\ Write(f)
    /\ io' = io \union {f}
    /\ UNCHANGED <<fileVars, needed, queue, ctrVars, at, forced, mdVars, fd,
                   walVars, req, replayVars>>

\* Mutant: BM_CHECKPOINT_NEEDED is left set.
BackendWrittenMutant(f) ==
    /\ f \in io
    /\ \/ ForwardFsyncRequest("fsync", f) /\ UNCHANGED <<unsynced, unfsynced>>
       \/ ~Room /\ Fsync(f) /\ UNCHANGED queue
    /\ io' = io \ {f}
    /\ UNCHANGED <<needed, fileVars, dirty, ctrVars, at, forced, mdVars, fd, walVars,
                   req, unwritten, replayVars>>

\* ... and, in register_dirty_segment, passes the fsync on, or does it itself
\* if the queue stays full.  TerminateBufferIO then clears the dirty bit.
BackendWritten(f) ==
    /\ f \in io
    /\ \/ ForwardFsyncRequest("fsync", f) /\ UNCHANGED <<unsynced, unfsynced>>
       \/ ~Room /\ Fsync(f) /\ UNCHANGED queue
    /\ io' = io \ {f}
    /\ needed' = needed \ {f}
    /\ UNCHANGED <<fileVars, dirty, ctrVars, at, forced, mdVars, fd, walVars,
                   req, unwritten, replayVars>>

\* A relation is made under a number that no file has.
Create(r) ==
    /\ file[Main(r)] = "none"
    /\ file' = [f \in Files |-> IF f[1] = r THEN "live" ELSE file[f]]
    /\ UNCHANGED <<drop, bufVars, unsynced, queue, ctrVars, at, forced, mdVars,
                   fd, walVars, req, owedVars, replayVars>>

\* The commit of a transaction that drops the relation is in the WAL;
\* smgrDoPendingDeletes begins.
DropRelation(r) ==
    /\ r \in ShortLived /\ file[Main(r)] = "live" /\ drop[r] = "no"
    /\ drop' = [drop EXCEPT ![r] = "mainBuffers"]
    /\ logged' = TRUE /\ quiet' = FALSE
    /\ replay' = replay \union {r} /\ replayNext' = replayNext \union {r}
    /\ UNCHANGED <<file, bufVars, unsynced, queue, ctrVars, at, forced, mdVars,
                   fd, req, owedVars>>

\* DropRelFileNodeBuffers waits for a write of the buffer to end.
DropBuffers(f) ==
    /\ f \notin io
    /\ file' = [file EXCEPT ![f] = "dropped"]
    /\ dirty' = dirty \ {f} /\ needed' = needed \ {f}
    /\ unsynced' = unsynced \ {f}
    /\ unwritten' = unwritten \ Of(f) /\ unfsynced' = unfsynced \ Of(f)
    /\ UNCHANGED <<io, queue, ctrVars, at, forced, mdVars, fd, walVars, req, replayVars>>

DropMainBuffers(r) ==
    /\ drop[r] = "mainBuffers"
    /\ DropBuffers(Main(r))
    /\ drop' = [drop EXCEPT ![r] = "mainForget"]

\* mdunlink of the main fork: ForgetRelationFsyncRequests and
\* register_unlink try until there is room in the queue.  The file is
\* truncated in between.
ForgetMain(r) ==
    /\ drop[r] = "mainForget"
    /\ ForwardFsyncRequest("forget", Main(r))
    /\ drop' = [drop EXCEPT ![r] = "mainUnlink"]
    /\ UNCHANGED <<file, bufVars, unsynced, ctrVars, at, forced, mdVars, fd,
                   walVars, req, owedVars, replayVars>>

RegisterUnlink(r) ==
    /\ drop[r] = "mainUnlink"
    /\ ForwardFsyncRequest("unlink", Main(r))
    /\ drop' = [drop EXCEPT ![r] = IF r \in Forked THEN "fsmBuffers" ELSE "no"]
    /\ UNCHANGED <<file, bufVars, unsynced, ctrVars, at, forced, mdVars, fd,
                   walVars, req, owedVars, replayVars>>

DropForkBuffers(r) ==
    /\ drop[r] = "fsmBuffers"
    /\ DropBuffers(<<r, "fsm">>)
    /\ drop' = [drop EXCEPT ![r] = "fsmForget"]

\* Mutant: the requests for the file are not revoked.
ForgetForkMutant(r) ==
    /\ drop[r] = "fsmForget"
    /\ drop' = [drop EXCEPT ![r] = "fsmUnlink"]
    /\ UNCHANGED <<queue, file, bufVars, unsynced, ctrVars, at, forced, mdVars, fd,
                   walVars, req, owedVars, replayVars>>

\* mdunlink of another fork: the file goes at once.
ForgetFork(r) ==
    /\ drop[r] = "fsmForget"
    /\ ForwardFsyncRequest("forget", <<r, "fsm">>)
    /\ drop' = [drop EXCEPT ![r] = "fsmUnlink"]
    /\ UNCHANGED <<file, bufVars, unsynced, ctrVars, at, forced, mdVars, fd,
                   walVars, req, owedVars, replayVars>>

\* The files in gone are removed; descriptors of them stay behind.  A drop
\* that is so slow that its main file goes before it is over is not modelled
\* any further: its number stays unused.
Removed(gone) ==
    /\ file' = [f \in Files |->
            IF f \notin gone THEN file[f]
            ELSE IF f = Main(f[1]) /\ drop[f[1]] # "no" THEN "retired" ELSE "none"]
    /\ fd' = [f \in Files |-> IF f \in gone /\ fd[f] = "open" THEN "stale" ELSE fd[f]]

UnlinkFork(r) ==
    /\ drop[r] = "fsmUnlink"
    /\ Removed({<<r, "fsm">>})
    /\ drop' = [drop EXCEPT ![r] = "no"]
    /\ UNCHANGED <<bufVars, unsynced, queue, ctrVars, at, forced, mdVars,
                   walVars, req, owedVars, replayVars>>

-----------------------------------------------------------------------------
(* Backends: RequestCheckpoint.  The counters are ints that wrap around.   *)

Plus1(n) == (n + 1) % CounterModulus
Ahead(m, n) == (m - n) % CounterModulus     \* m - n as an unsigned difference
NotBehind(m, n) == Ahead(m, n) < CounterModulus \div 2

RequestCheckpoint(q) ==
    /\ req[q].at = "idle"
    /\ force' = TRUE /\ signal' = TRUE
    /\ req' = [req EXCEPT ![q] = [at |-> "start", oldStarted |-> started,
                                  oldFailed |-> failed, newStarted |-> 0]]
    /\ Count(q)
    /\ UNCHANGED <<fileVars, bufVars, unsynced, queue, started, done, failed, at,
                   forced, mdVars, fd, walVars, replayVars>>

\* Mutant: the counter is not read again once a checkpoint has started.
CheckpointStartedMutant(q) ==
    /\ req[q].at = "start" /\ started # req[q].oldStarted
    /\ req' = [req EXCEPT ![q].at = "done", ![q].newStarted = req[q].oldStarted]
    /\ UNCHANGED <<fileVars, bufVars, unsynced, queue, ctrVars, at, forced, mdVars,
                   fd, walVars, owedVars, replayVars>>

CheckpointStarted(q) ==
    /\ req[q].at = "start" /\ started # req[q].oldStarted
    /\ req' = [req EXCEPT ![q].at = "done", ![q].newStarted = started]
    /\ UNCHANGED <<fileVars, bufVars, unsynced, queue, ctrVars, at, forced, mdVars,
                   fd, walVars, owedVars, replayVars>>

\* Returns, with an error if a checkpoint has failed in the meantime.
CheckpointDone(q) ==
    /\ req[q].at = "done" /\ NotBehind(done, req[q].newStarted)
    /\ req' = [req EXCEPT ![q] = IdleRequest]
    /\ unwritten' = {x \in unwritten : x[1] # q}
    /\ unfsynced' = {x \in unfsynced : x[1] # q}
    /\ UNCHANGED <<fileVars, bufVars, unsynced, queue, ctrVars, at, forced, mdVars,
                   fd, walVars, replayVars>>

Succeeds(q) == CheckpointDone(q) /\ failed = req[q].oldFailed

\* No requester sleeps through so many checkpoints that the counters wrap
\* around under it: at most half their range passes until it has seen a
\* checkpoint start, and as much again until it has seen it end.
NobodyFarBehind == \A q \in Requesters :
    LET seen == IF req[q].at = "start" THEN req[q].oldStarted ELSE req[q].newStarted
    IN  req[q].at = "idle" \/ Ahead(started, seen) < CounterModulus \div 2 - 1

-----------------------------------------------------------------------------
(* The background writer *)

\* Between checkpoints, and every few writes and fsyncs of one.
BgAbsorb ==
    /\ at \in {"loop", "write", "sync"} /\ queue # <<>>
    /\ AbsorbFsyncRequests
    /\ UNCHANGED <<fileVars, bufVars, unsynced, ctrVars, at, forced, syncCtr, ckptCtr,
                   syncBusy, failures, fd, walVars, req, owedVars, replayVars>>

\* The background writer writes a page.  It opens the file if need be, and its
\* request to fsync goes straight into its own table, which is p before.
BgFlush(f, p) ==
    /\ f \in dirty /\ f \notin io
    /\ Write(f)
    /\ needed' = needed \ {f}
    /\ ops' = RememberFsync(p, f).ops /\ unlinks' = p.unlinks
    /\ fd' = [fd EXCEPT ![f] = IF @ = "closed" THEN "open" ELSE @]
    /\ UNCHANGED <<fileVars, io, ctrVars, at, forced, syncCtr, ckptCtr,
                   syncBusy, failures, walVars, req, replayVars>>

\* Mutant: without absorbing the queue first.
BgBufferSyncMutant(f) ==
    /\ at \in {"loop", "write"}
    /\ BgFlush(f, Pending) /\ UNCHANGED queue

\* A round of the main loop without a checkpoint, or a nap between the writes
\* of one: the queue is absorbed, then any page may be written.
BgBufferSync(f) ==
    /\ at \in {"loop", "write"}
    /\ BgFlush(f, Absorbed) /\ queue' = <<>>

\* BufferSync writes the pages it has marked.
SyncOneBuffer(f) ==
    /\ at = "write" /\ f \in needed
    /\ BgFlush(f, Pending) /\ UNCHANGED queue

\* Requested or due by time.  The flags are fetched and the start is
\* announced at once.
BeginCheckpoint ==
    /\ at = "loop" /\ NobodyFarBehind
    /\ AbsorbFsyncRequests
    /\ signal' = FALSE
    /\ forced' = force /\ force' = FALSE
    /\ started' = Plus1(started)
    /\ at' = "prepare"
    /\ UNCHANGED <<fileVars, bufVars, unsynced, done, failed, syncCtr, ckptCtr, syncBusy,
                   failures, fd, walVars, req, owedVars, replayVars>>

\* smgrpreckpt, then the REDO point, unless nothing happened since the last
\* checkpoint.
PrepareCheckpoint ==
    /\ at = "prepare"
    /\ unlinks' = [i \in DOMAIN unlinks |-> [unlinks[i] EXCEPT !.cycle = ckptCtr]]
    /\ ckptCtr' = (ckptCtr + 1) % CycleModulus
    /\ IF ~forced /\ quiet
       THEN at' = "finish" /\ UNCHANGED <<logged, owedVars, replayNext>>
       ELSE at' = "mark" /\ logged' = FALSE /\ Count("ckpt") /\ replayNext' = {}
    /\ UNCHANGED <<fileVars, bufVars, unsynced, queue, ctrVars, forced, ops, syncCtr,
                   syncBusy, failures, fd, quiet, req, replay>>

\* BufferSync marks the buffers that have BM_DIRTY.
MarkBuffers ==
    /\ at = "mark"
    /\ needed' = needed \union dirty \union io
    /\ at' = "write"
    /\ UNCHANGED <<fileVars, dirty, io, unsynced, queue, ctrVars, forced, mdVars, fd,
                   walVars, req, owedVars, replayVars>>

\* Mutant: entries left over by a failed mdsync keep their cycle.
BeginSyncMutant ==
    /\ at = "write" /\ needed = {}
    /\ AbsorbFsyncRequests
    /\ syncCtr' = (syncCtr + 1) % CycleModulus
    /\ syncBusy' = TRUE
    /\ at' = "sync"
    /\ UNCHANGED <<fileVars, bufVars, unsynced, ctrVars, forced, ckptCtr, failures, fd,
                   walVars, req, owedVars, replayVars>>

\* All marked buffers are written: mdsync begins.
BeginSync ==
    /\ at = "write" /\ needed = {}
    /\ queue' = <<>>
    /\ unlinks' = Absorbed.unlinks
    /\ ops' = [f \in DOMAIN Absorbed.ops |->
                [Absorbed.ops[f] EXCEPT !.cycle = IF syncBusy THEN syncCtr ELSE @]]
    /\ syncCtr' = (syncCtr + 1) % CycleModulus
    /\ syncBusy' = TRUE
    /\ at' = "sync"
    /\ UNCHANGED <<fileVars, bufVars, unsynced, ctrVars, forced, ckptCtr, failures, fd,
                   walVars, req, owedVars, replayVars>>

\* An entry is done with.
Done(p, f) == Restrict(p, DOMAIN p \ {f})

Due == {f \in DOMAIN ops : ops[f].cycle # syncCtr}

\* mdsync: a canceled entry is deleted, a file that can be opened is synced.
\* A descriptor that is open is used as it is, unless fd.c has closed it.
SyncFile(f) ==
    /\ at = "sync" /\ f \in Due /\ failures \in {NoFile, f}
    /\ \/ ops[f].canceled /\ UNCHANGED <<fd, unsynced, unfsynced>>
       \/ ~ops[f].canceled /\ fd[f] = "stale" /\ UNCHANGED <<fd, unsynced, unfsynced>>
       \/ /\ ~ops[f].canceled /\ file[f] \in {"live", "dropped"}
          /\ fd' = [fd EXCEPT ![f] = "open"]
          /\ Fsync(f)
    /\ ops' = Done(ops, f)
    /\ failures' = NoFile
    /\ UNCHANGED <<fileVars, bufVars, queue, ctrVars, at, forced, unlinks, syncCtr, ckptCtr,
                   syncBusy, walVars, req, unwritten, replayVars>>

\* The file is not there: requests are absorbed and, if the entry is still
\* not canceled, there is one more try.
SyncMissing(f) ==
    /\ at = "sync" /\ f \in Due /\ failures = NoFile
    /\ ~ops[f].canceled /\ file[f] \in {"none", "retired"}
    /\ queue' = <<>> /\ unlinks' = Absorbed.unlinks
    /\ IF Absorbed.ops[f].canceled
       THEN ops' = Done(Absorbed.ops, f) /\ UNCHANGED failures
       ELSE ops' = Absorbed.ops /\ failures' = f
    /\ fd' = [fd EXCEPT ![f] = "closed"]
    /\ UNCHANGED <<fileVars, bufVars, unsynced, ctrVars, at, forced, syncCtr, ckptCtr,
                   syncBusy, walVars, req, owedVars, replayVars>>

\* mdpostckpt stops at the first entry made since mdpreckpt.
\* Mutant: it takes all.
OldUnlinksMutant == Len(unlinks)
OldUnlinks ==
    Max({n \in 0 .. Len(unlinks) : \A i \in 1 .. n : unlinks[i].cycle # ckptCtr})

\* The checkpoint record is in the WAL and named by the control file; then
\* mdpostckpt removes files.
CompleteCheckpoint ==
    /\ at = "sync" /\ Due = {} /\ failures = NoFile
    /\ syncBusy' = FALSE
    /\ quiet' = ~logged
    /\ replay' = replayNext
    /\ Removed({Main(unlinks[i].rel) : i \in 1 .. OldUnlinks})
    /\ unlinks' = SubSeq(unlinks, OldUnlinks + 1, Len(unlinks))
    /\ at' = "finish"
    /\ UNCHANGED <<drop, bufVars, unsynced, queue, ctrVars, forced, ops, syncCtr, ckptCtr,
                   failures, logged, req, owedVars, replayNext>>

CloseAll == fd' = [f \in Files |-> "closed"]

\* smgrcloseall, and waiting requesters are told.
FinishCheckpoint ==
    /\ at = "finish"
    /\ CloseAll
    /\ done' = started
    /\ at' = "loop"
    /\ UNCHANGED <<fileVars, bufVars, unsynced, queue, force, started, failed, signal, forced,
                   mdVars, walVars, req, owedVars, replayVars>>

\* Mutant: the waiting requesters are not told.
CheckpointFailsMutant ==
    /\ at \in {"write", "sync"}
    /\ failed' = Plus1(failed) /\ failures' = NoFile
    /\ CloseAll
    /\ at' = "loop"
    /\ UNCHANGED <<done, fileVars, bufVars, unsynced, queue, force, started, signal, forced, ops,
                   unlinks, syncCtr, ckptCtr, syncBusy, walVars, req, owedVars, replayVars>>

\* A write or an fsync fails: the error handler of the main loop.
CheckpointFails ==
    /\ at \in {"write", "sync"}
    /\ failed' = Plus1(failed) /\ done' = started /\ failures' = NoFile
    /\ CloseAll
    /\ at' = "loop"
    /\ UNCHANGED <<fileVars, bufVars, unsynced, queue, force, started, signal, forced, ops,
                   unlinks, syncCtr, ckptCtr, syncBusy, walVars, req, owedVars, replayVars>>

BgStep ==
    \/ \E f \in Files : SyncOneBuffer(f) \/ SyncFile(f) \/ SyncMissing(f)
    \/ PrepareCheckpoint \/ MarkBuffers \/ BeginSync
    \/ CompleteCheckpoint \/ FinishCheckpoint

DropStep(r) ==
    \/ DropMainBuffers(r) \/ ForgetMain(r) \/ RegisterUnlink(r)
    \/ DropForkBuffers(r) \/ ForgetFork(r) \/ UnlinkFork(r)

Next ==
    \/ \E f \in Files : Modify(f) \/ BackendWrite(f) \/ BackendWritten(f)
    \/ \E r \in Rels : Create(r) \/ DropRelation(r) \/ DropStep(r)
    \/ \E q \in Requesters : RequestCheckpoint(q) \/ CheckpointStarted(q) \/ CheckpointDone(q)
    \/ BgAbsorb \/ BeginCheckpoint \/ CheckpointFails \/ BgStep
    \/ \E f \in Files : BgBufferSync(f)

Spec == Init /\ [][Next]_vars

-----------------------------------------------------------------------------
\* Each process goes on with what it is doing, a requester looks at the
\* counters again and again, and the background writer's loop comes round to
\* the queue and to a signal.
Fairness ==
    /\ WF_vars(BgStep)
    /\ WF_vars(signal /\ BeginCheckpoint)
    /\ WF_vars(at = "loop" /\ BgAbsorb)
    /\ \A f \in Files : WF_vars(BackendWritten(f))
    /\ \A r \in Rels : WF_vars(DropStep(r))
    /\ \A q \in Requesters : WF_vars(CheckpointStarted(q) \/ CheckpointDone(q))

FairSpec == Spec /\ Fairness

-----------------------------------------------------------------------------
(* Properties *)

Owed(o) == {x \in unwritten \union unfsynced : x[1] = o}

\* Every variable has its type, an fsync or unlink of the table is of this
\* cycle or the one before, and only a buffer that has still to be written is
\* marked for the checkpoint.
TypeOK ==
    /\ file \in [Files -> {"live", "dropped", "none", "retired"}]
    /\ fd \in [Files -> {"closed", "open", "stale"}]
    /\ dirty \subseteq {f \in Files : file[f] = "live"}
    /\ io \subseteq {f \in Files : file[f] = "live"}
    /\ unsynced \subseteq {f \in Files : file[f] = "live"}
    /\ needed \subseteq dirty \union io
    /\ Len(queue) =< MaxRequests
    /\ \A i \in DOMAIN queue : queue[i] \in [type : {"fsync", "forget", "unlink"}, file : Files]
    /\ {force, signal, forced, syncBusy, logged, quiet} \subseteq BOOLEAN
    /\ {started, done, failed} \subseteq 0 .. CounterModulus - 1
    /\ at \in {"loop", "prepare", "mark", "write", "sync", "finish"}
    /\ DOMAIN ops \subseteq Files
    /\ \A f \in DOMAIN ops : ops[f] \in [cycle : 0 .. CycleModulus - 1, canceled : BOOLEAN]
    /\ at = "sync" => \A f \in Due : (ops[f].cycle + 1) % CycleModulus = syncCtr
    /\ \A i \in DOMAIN unlinks : unlinks[i] \in [rel : Rels, cycle : 0 .. CycleModulus - 1]
    /\ replay \subseteq Rels /\ replayNext \subseteq replay

\* What was in a buffer or with the operating system at the REDO point of a
\* checkpoint is on disk when the checkpoint is complete: whoever wrote the
\* page in the meantime, whichever requests were queued, forgotten, compacted
\* or left over by checkpoints that failed.  (CreateCheckPoint, mdsync)
CheckpointDurable == [][CompleteCheckpoint => Owed("ckpt") = {}]_vars

\* When RequestCheckpoint returns without an error, everything that was
\* changed before it was called is on disk, although the checkpoint may be
\* one that somebody else asked for, and the counters wrap around.
\* (bgwriter.c:74-96)
RequestServed == [][\A q \in Requesters : Succeeds(q) => Owed(q) = {}]_vars

\* A file with data that is only with the operating system has an fsync
\* pending that nothing revokes: in the table, in the queue, or with the
\* backend that has just written it.
RequestPending(f) ==
    \/ f \in io
    \/ \E i \in DOMAIN queue :
        /\ queue[i] = [type |-> "fsync", file |-> f]
        /\ \A j \in i + 1 .. Len(queue) : queue[j] # [type |-> "forget", file |-> f]
    \/ /\ f \in DOMAIN ops /\ ~ops[f].canceled
       /\ \A j \in DOMAIN queue : queue[j] # [type |-> "forget", file |-> f]
NothingForgotten == TypeOK /\ \A f \in unsynced : RequestPending(f)

\* A relation that got the number of a dropped one is not removed again by
\* the replay of the drop: while a crash would replay it, the old file is
\* there and keeps the number in use.  (mdunlink, md.c:310-327)
ReuseNotReplayed == \A r \in Rels :
    file[Main(r)] = "live" /\ drop[r] = "no" => r \notin replay

\* A file that is dropped while the checkpoint runs does not make it fail:
\* if it cannot be opened, the request to forget it has been queued.
\* (mdsync, md.c:1018-1026)
DropDoesNotFail == failures = NoFile

\* "Unless this is a shutdown checkpoint, we write only permanent, dirty
\* buffers" (bufmgr.c:1182).  The code does not do that.
OnlyPermanentMarked == [][MarkBuffers => needed' \ needed \subseteq Permanent]_vars

\* Whoever asked for a checkpoint gets an answer, also if it fails.
RequestsReturn == \A q \in Requesters : req[q].at # "idle" ~> req[q].at = "idle"
=============================================================================
