------------------------------- MODULE Snapshot -------------------------------
(***************************************************************************)
(* Who sees what: transaction ids (access/transam/varsup.c), the commit    *)
(* log and the subtransaction log (clog.c, subtrans.c, transam.c), the     *)
(* proc array and the snapshots made from it (storage/ipc/procarray.c),    *)
(* and the visibility test with its hint bits (utils/time/tqual.c).        *)
(*                                                                         *)
(* A transaction gets a transaction id (xid), and its subtransactions get  *)
(* more, as they write.  When it ends it enters that into the commit log,  *)
(* page by page, and only then leaves the proc array.  A snapshot lists    *)
(* the xids that run.  A reader that meets an xid in a tuple asks whether  *)
(* it runs, then the commit log, then its snapshot, each at a time of its  *)
(* own.                                                                    *)
(*                                                                         *)
(* ProcArrayLock is shared by those who scan the array, and exclusive for  *)
(* who leaves it; xids are assigned without it, in the middle of scans.    *)
(* The tuple of an xid is the one tuple that it has inserted.              *)
(***************************************************************************)
EXTENDS Integers, Sequences, FiniteSets, FiniteSetsExt

CONSTANTS
    Writers,            \* processes that assign xids
    Readers,            \* processes that take snapshots
    Vacuums,            \* those of them that compute the horizon too
    MaxXid,             \* bound: xids assigned
    XidsPerPage,        \* CLOG_XACTS_PER_PAGE
    MaxCachedSubxids    \* PGPROC_MAX_CACHED_SUBXIDS

Procs == Writers \union Readers
Xids == 1..MaxXid
Invalid == 0            \* InvalidTransactionId

ASSUME BoundsAssumption ==
    MaxXid \in Nat /\ XidsPerPage \in Nat \ {0} /\ MaxCachedSubxids \in Nat

VARIABLES
    nextXid, latestCompletedXid,
    xid, subxids, overflowed, xmin,     \* PGPROC
    clog,               \* pg_clog
    parent,             \* pg_subtrans
    children,           \* a transaction's own list of its subtransactions
    linking,            \* a subtransaction and its parent, not yet in pg_subtrans
    pc,                 \* "run", or what ends: "subabort", "commit", "abort"
    ending,             \* the xids that end
    todo,               \* what is still to be written for them into the commit log
    scan,               \* a scan of the proc array
    snap,               \* a process's snapshot
    ask,                \* the tuple it looks at
    cached,             \* cachedFetchXid and cachedFetchXidStatus
    hint,               \* HEAP_XMIN_COMMITTED and HEAP_XMIN_INVALID
    done,               \* xids that have committed and left the array
    past,               \* what a snapshot should see: done, when it was taken
    horizon             \* the latest OldestXmin anybody has computed

shared == <<nextXid, latestCompletedXid, xid, subxids, overflowed, clog, parent, done>>
own == <<children, linking, pc, ending, todo>>
reading == <<scan, snap, ask, cached, past>>
vars == <<shared, own, reading, xmin, hint, horizon>>

Idle == [at |-> "idle"]
InProgress == "in progress"
SubCommitted == "subcommitted"
Committed == "committed"
Aborted == "aborted"

Init ==
    /\ nextXid = 1 /\ latestCompletedXid = Invalid
    /\ xid = [p \in Procs |-> Invalid]
    /\ subxids = [p \in Procs |-> {}]
    /\ overflowed = [p \in Procs |-> FALSE]
    /\ xmin = [p \in Procs |-> Invalid]
    /\ clog = [x \in Xids |-> InProgress]
    /\ parent = [x \in Xids |-> Invalid]
    /\ children = [p \in Procs |-> {}]
    /\ linking = [p \in Procs |-> Idle]
    /\ pc = [p \in Procs |-> "run"]
    /\ ending = [p \in Procs |-> {}]
    /\ todo = [p \in Procs |-> <<>>]
    /\ scan = [p \in Procs |-> Idle]
    /\ snap = [p \in Procs |-> Idle]
    /\ ask = [p \in Procs |-> Idle]
    /\ cached = [p \in Procs |-> [of |-> Invalid, status |-> InProgress]]
    /\ hint = [x \in Xids |-> "none"]
    /\ done = {}
    /\ past = [p \in Procs |-> {}]
    /\ horizon = Invalid

\* ProcArrayLock can be had exclusively.
\* Mutant: it is not waited for.
NobodyScansMutant == TRUE
NobodyScans == \A p \in Procs : scan[p] = Idle

\* A process is one thread.
Free(p) == pc[p] = "run" /\ linking[p] = Idle /\ scan[p] = Idle /\ ask[p] = Idle

Tree(p) == {xid[p]} \union children[p]

\* A valid xid that is smaller.
Earlier(x, y) == IF x # Invalid /\ x < y THEN x ELSE y
Later(x, y) == IF x < y THEN y ELSE x

-----------------------------------------------------------------------------
(* pg_subtrans                                                             *)

Ancestors ==
    LET anc[x \in Xids] == IF parent[x] = Invalid THEN {} ELSE {parent[x]} \union anc[parent[x]]
    IN  anc

\* SubTransGetTopmostTransaction stops below TransactionXmin.
Topmost(x, transactionXmin) ==
    LET top[y \in Xids] ==
            IF y < transactionXmin \/ parent[y] = Invalid THEN y ELSE top[parent[y]]
    IN  top[x]

\* A subtransaction none of whose younger siblings has begun may still run.
MayBeLive(p, x) ==
    \A y \in Xids : (y > x /\ xid[p] \in Ancestors[y]) => x \in Ancestors[y]

-----------------------------------------------------------------------------
(* GetNewTransactionId and AssignTransactionId                             *)

AssignXid(p) ==
    /\ Free(p) /\ xid[p] = Invalid /\ nextXid <= MaxXid
    /\ xid' = [xid EXCEPT ![p] = nextXid]
    /\ nextXid' = nextXid + 1
    /\ UNCHANGED <<latestCompletedXid, subxids, overflowed, clog, parent, done, own, reading,
                   xmin, hint, horizon>>

StoreSubxid(p, x) ==
    IF Cardinality(subxids[p]) < MaxCachedSubxids
    THEN subxids' = [subxids EXCEPT ![p] = @ \union {x}] /\ UNCHANGED overflowed
    ELSE overflowed' = [overflowed EXCEPT ![p] = TRUE] /\ UNCHANGED subxids

AssignSubxid(p) ==
    /\ Free(p) /\ xid[p] # Invalid /\ nextXid <= MaxXid
    /\ StoreSubxid(p, nextXid)
    /\ nextXid' = nextXid + 1
    /\ \E x \in Tree(p) :
        /\ MayBeLive(p, x)
        /\ linking' = [linking EXCEPT ![p] = [at |-> "link", sub |-> nextXid, under |-> x]]
    /\ UNCHANGED <<latestCompletedXid, xid, clog, parent, done, children, pc, ending, todo,
                   reading, xmin, hint, horizon>>

SubTransSetParent(p) ==
    /\ linking[p] # Idle
    /\ parent' = [parent EXCEPT ![linking[p].sub] = linking[p].under]
    /\ children' = [children EXCEPT ![p] = @ \union {linking[p].sub}]
    /\ linking' = [linking EXCEPT ![p] = Idle]
    /\ UNCHANGED <<nextXid, latestCompletedXid, xid, subxids, overflowed, clog, done,
                   pc, ending, todo, reading, xmin, hint, horizon>>

\* Tuples have this xid: it is in pg_subtrans first.
\* Mutant: the link is made after the first tuple.
WrittenMutant(x) == x < nextXid
Written(x) == x < nextXid /\ \A p \in Procs : linking[p] # Idle => linking[p].sub # x

-----------------------------------------------------------------------------
(* TransactionIdSetTreeStatus writes a page of the commit log at a time.   *)
(* If a commit needs more than one, the subtransactions on the others are  *)
(* first marked subcommitted, which leaves the question to the parent.     *)

Page(x) == x \div XidsPerPage

\* What is still to be written, the lowest page first.
Writes(xs, status) == IF xs = {} THEN <<>> ELSE <<[xids |-> xs, status |-> status]>>

FirstPage(xs) == {x \in xs : Page(x) = Min({Page(y) : y \in xs})}

\* Mutant: every page at once to its final status.
SetTreeStatusMutant(x, subs, status) == Writes({x} \union subs, status)

SetTreeStatus(x, subs, status) ==
    LET first == {y \in subs : Page(y) = Page(x)}
        rest == subs \ first
    IN  (IF status = Committed THEN Writes(rest, SubCommitted) ELSE <<>>)
            \o Writes({x} \union first, status)
            \o Writes(rest, status)

End(p, x, subs, what, status) ==
    /\ pc' = [pc EXCEPT ![p] = what]
    /\ ending' = [ending EXCEPT ![p] = {x} \union subs]
    /\ todo' = [todo EXCEPT ![p] = SetTreeStatus(x, subs, status)]
    /\ UNCHANGED <<shared, children, linking, reading, xmin, hint, horizon>>

RecordTransactionCommit(p) ==
    Free(p) /\ xid[p] # Invalid /\ End(p, xid[p], children[p], "commit", Committed)

RecordTransactionAbort(p) ==
    Free(p) /\ xid[p] # Invalid /\ End(p, xid[p], children[p], "abort", Aborted)

RecordSubtransactionAbort(p) ==
    /\ Free(p)
    /\ \E x \in children[p] :
        /\ MayBeLive(p, x)
        /\ End(p, x, {y \in children[p] : x \in Ancestors[y]}, "subabort", Aborted)

SetPageStatus(p) ==
    /\ todo[p] # <<>>
    /\ LET w == Head(todo[p])
           now == FirstPage(w.xids)
       IN  /\ clog' = [x \in Xids |-> IF x \in now THEN w.status ELSE clog[x]]
           /\ todo' = [todo EXCEPT ![p] = Writes(w.xids \ now, w.status) \o Tail(@)]
    /\ UNCHANGED <<nextXid, latestCompletedXid, xid, subxids, overflowed, parent, done,
                   children, linking, pc, ending, reading, xmin, hint, horizon>>

-----------------------------------------------------------------------------
(* Leaving the proc array, with the lock held exclusively                  *)

\* Mutant: the subtransactions are forgotten.
LatestXidMutant(p) == Later(latestCompletedXid, Min(ending[p]))
LatestXid(p) == Later(latestCompletedXid, Max(ending[p]))

Ended(p) == todo[p] = <<>> /\ NobodyScans

ProcArrayEndTransaction(p) ==
    /\ pc[p] \in {"commit", "abort"} /\ Ended(p)
    /\ xid' = [xid EXCEPT ![p] = Invalid]
    /\ xmin' = [xmin EXCEPT ![p] = Invalid]
    /\ subxids' = [subxids EXCEPT ![p] = {}]
    /\ overflowed' = [overflowed EXCEPT ![p] = FALSE]
    /\ latestCompletedXid' = LatestXid(p)
    /\ done' = IF pc[p] = "commit" THEN done \union ending[p] ELSE done
    /\ children' = [children EXCEPT ![p] = {}]
    /\ pc' = [pc EXCEPT ![p] = "run"]
    /\ ending' = [ending EXCEPT ![p] = {}]
    /\ snap' = [snap EXCEPT ![p] = Idle]
    /\ past' = [past EXCEPT ![p] = {}]
    /\ UNCHANGED <<nextXid, clog, parent, linking, todo, scan, ask, cached, hint, horizon>>

\* Mutant: the cached subtransactions stay.
RemovedMutant(p) == subxids
Removed(p) == [subxids EXCEPT ![p] = @ \ ending[p]]

XidCacheRemoveRunningXids(p) ==
    /\ pc[p] = "subabort" /\ Ended(p)
    /\ subxids' = Removed(p)
    /\ latestCompletedXid' = LatestXid(p)
    /\ children' = [children EXCEPT ![p] = @ \ ending[p]]
    /\ pc' = [pc EXCEPT ![p] = "run"]
    /\ ending' = [ending EXCEPT ![p] = {}]
    /\ UNCHANGED <<nextXid, xid, overflowed, clog, parent, done, linking, todo, reading,
                   xmin, hint, horizon>>

-----------------------------------------------------------------------------
(* GetSnapshotData and GetOldestXmin look at one PGPROC after the other.   *)

BeginScan(p, what) ==
    LET next == latestCompletedXid + 1
    IN  scan' = [scan EXCEPT ![p] =
            [at |-> what, left |-> Procs, xmax |-> next, xmin |-> next, globalxmin |-> next,
             xip |-> {}, subxip |-> {}, suboverflowed |-> FALSE]]

BeginSnapshot(p) ==
    /\ p \in Readers /\ Free(p)
    /\ BeginScan(p, "snapshot")
    /\ snap' = [snap EXCEPT ![p] = Idle]
    /\ past' = [past EXCEPT ![p] = done]
    /\ UNCHANGED <<shared, own, ask, cached, xmin, hint, horizon>>

BeginOldestXmin(p) ==
    /\ p \in Vacuums /\ Free(p)
    /\ BeginScan(p, "oldest")
    /\ UNCHANGED <<shared, own, snap, ask, cached, past, xmin, hint, horizon>>

\* What GetSnapshotData takes from q: nothing but xmin of one that began
\* after it did.
SawForSnapshot(p, q, s) ==
    LET t == [s EXCEPT !.globalxmin = Earlier(xmin[q], @)]
        others == IF q = p THEN {} ELSE {xid[q]} \ {Invalid}
    IN  IF xid[q] >= s.xmax THEN t
        ELSE [t EXCEPT !.xip = @ \union others,
                       !.xmin = Earlier(xid[q], @),
                       !.suboverflowed = @ \/ (q # p /\ overflowed[q]),
                       !.subxip = IF s.suboverflowed \/ q = p \/ overflowed[q] THEN @
                                  ELSE @ \union subxids[q]]

\* Mutant: a transaction that has no snapshot yet is ignored.
SawForOldestMutant(q, s) == [s EXCEPT !.xmin = Earlier(xmin[q], @)]
SawForOldest(q, s) == [s EXCEPT !.xmin = Earlier(xmin[q], Earlier(xid[q], @))]

LookAt(p, q) ==
    /\ scan[p] # Idle /\ q \in scan[p].left
    /\ LET s == [scan[p] EXCEPT !.left = @ \ {q}]
       IN  scan' = [scan EXCEPT ![p] =
                      IF s.at = "snapshot" THEN SawForSnapshot(p, q, s) ELSE SawForOldest(q, s)]
    /\ UNCHANGED <<shared, own, snap, ask, cached, past, xmin, hint, horizon>>

ScanDone(p, what) == scan[p].at = what /\ scan[p].left = {}

\* Sets MyProc->xmin, unless an older snapshot has, and RecentGlobalXmin.
SnapshotDone(p) ==
    /\ ScanDone(p, "snapshot")
    /\ snap' = [snap EXCEPT ![p] = scan[p]]
    /\ xmin' = [xmin EXCEPT ![p] = IF @ = Invalid THEN scan[p].xmin ELSE @]
    /\ horizon' = Later(horizon, Earlier(scan[p].xmin, scan[p].globalxmin))
    /\ scan' = [scan EXCEPT ![p] = Idle]
    /\ UNCHANGED <<shared, own, ask, cached, past, hint>>

OldestXminDone(p) ==
    /\ ScanDone(p, "oldest")
    /\ horizon' = Later(horizon, scan[p].xmin)
    /\ scan' = [scan EXCEPT ![p] = Idle]
    /\ UNCHANGED <<shared, own, snap, ask, cached, past, xmin, hint>>

\* SnapshotResetXmin, without the lock.
SnapshotResetXmin(p) ==
    /\ Free(p) /\ snap[p] # Idle
    /\ snap' = [snap EXCEPT ![p] = Idle]
    /\ past' = [past EXCEPT ![p] = {}]
    /\ xmin' = [xmin EXCEPT ![p] = Invalid]
    /\ UNCHANGED <<shared, own, scan, ask, cached, hint, horizon>>

-----------------------------------------------------------------------------
(* HeapTupleSatisfiesMVCC of a tuple that xid x has inserted               *)

Answer(x, visible) == [at |-> "answered", of |-> x, visible |-> visible]

XidInMVCCSnapshot(p, x) ==
    LET s == snap[p]
        y == IF s.suboverflowed THEN Topmost(x, xmin[p]) ELSE x
    IN  /\ x >= s.xmin
        /\ \/ x >= s.xmax
           \/ (~s.suboverflowed /\ x \in s.subxip)
           \/ (y >= s.xmin /\ y \in s.xip)

\* TransactionIdIsInProgress has two answers without the array: RecentXmin,
\* and what it knows of the xid that it fetched last.
KnownCompleted(p, x) == x < snap[p].xmin \/ x = cached[p].of

\* Then up to the end of its scan.
FoundRunning(p, x) ==
    /\ ~KnownCompleted(p, x)
    /\ \/ x > latestCompletedXid
       \/ \E q \in Procs \ {p} : xid[q] # Invalid /\ (xid[q] = x \/ (xid[q] < x /\ x \in subxids[q]))

\* Those whose subtransactions are not all in the array.
Uncached(p, x) ==
    IF KnownCompleted(p, x) THEN {}
    ELSE {xid[q] : q \in {r \in Procs \ {p} : xid[r] # Invalid /\ xid[r] < x /\ overflowed[r]}}

AskClog(x) == [at |-> "clog", of |-> x, fetch |-> x]

LookUp(p, x) ==
    /\ p \in Readers /\ Free(p) /\ snap[p] # Idle
    /\ Written(x) /\ x \notin Tree(p)
    /\ ask' = [ask EXCEPT ![p] =
          CASE hint[x] = Committed -> Answer(x, ~XidInMVCCSnapshot(p, x))
            [] hint[x] = Aborted -> Answer(x, FALSE)
            [] OTHER -> IF FoundRunning(p, x) THEN Answer(x, FALSE)
                        ELSE IF Uncached(p, x) = {} THEN AskClog(x)
                        ELSE [at |-> "subtrans", of |-> x, tops |-> Uncached(p, x)]]
    /\ UNCHANGED <<shared, own, scan, snap, cached, past, xmin, hint, horizon>>

\* TransactionLogFetch keeps what it fetched if that cannot change any more.
\* Mutant: it keeps whatever it fetched.
FinalMutant(status) == TRUE
Final(status) == status \in {Committed, Aborted}

Status(p, y) == IF y = cached[p].of THEN cached[p].status ELSE clog[y]

Remember(p, y) ==
    cached' = IF Final(Status(p, y))
              THEN [cached EXCEPT ![p] = [of |-> y, status |-> Status(p, y)]]
              ELSE cached

\* A subcommitted transaction shares the fate of its parent.
AskParent(p, y) == Status(p, y) = SubCommitted /\ y >= xmin[p] /\ parent[y] # Invalid

\* The last one that TransactionIdDidAbort fetches.
LastFetched(p, x) ==
    LET last[y \in Xids] == IF AskParent(p, y) THEN last[parent[y]] ELSE y
    IN  last[x]

DidAbort(p, x) == Status(p, LastFetched(p, x)) \in {Aborted, SubCommitted}

\* The rest of TransactionIdIsInProgress, without the lock.
LookIntoSubtrans(p) ==
    /\ ask[p].at = "subtrans"
    /\ LET x == ask[p].of
           top == Topmost(x, xmin[p])
       IN  /\ Remember(p, LastFetched(p, x))
           /\ ask' = [ask EXCEPT ![p] =
                  IF top # x /\ top \in ask[p].tops /\ ~DidAbort(p, x)
                  THEN Answer(x, FALSE)
                  ELSE AskClog(x)]
    /\ UNCHANGED <<shared, own, scan, snap, past, xmin, hint, horizon>>

\* TransactionIdDidCommit: a fetch from the commit log, and SetHintBits, which
\* leaves the bit alone while the commit record is not on disk.
DidCommitYes(p, x, y) ==
    /\ Status(p, y) = Committed
    /\ hint' = [hint EXCEPT ![x] = Committed] \/ UNCHANGED hint
    /\ ask' = [ask EXCEPT ![p] = Answer(x, ~XidInMVCCSnapshot(p, x))]

DidCommitAskParent(p, x, y) ==
    /\ AskParent(p, y)
    /\ ask' = [ask EXCEPT ![p].fetch = parent[y]]
    /\ UNCHANGED hint

DidCommitNo(p, x, y) ==
    /\ Status(p, y) # Committed /\ ~AskParent(p, y)
    /\ hint' = [hint EXCEPT ![x] = Aborted]
    /\ ask' = [ask EXCEPT ![p] = Answer(x, FALSE)]

LookIntoClog(p) ==
    /\ ask[p].at = "clog"
    /\ LET x == ask[p].of
           y == ask[p].fetch
       IN  /\ Remember(p, y)
           /\ DidCommitYes(p, x, y) \/ DidCommitAskParent(p, x, y) \/ DidCommitNo(p, x, y)
    /\ UNCHANGED <<shared, own, scan, snap, past, xmin, horizon>>

GoOn(p) ==
    /\ ask[p].at = "answered"
    /\ ask' = [ask EXCEPT ![p] = Idle]
    /\ UNCHANGED <<shared, own, scan, snap, cached, past, xmin, hint, horizon>>

-----------------------------------------------------------------------------

WriterStep(p) ==
    \/ AssignXid(p) \/ AssignSubxid(p) \/ SubTransSetParent(p)
    \/ RecordTransactionCommit(p) \/ RecordTransactionAbort(p) \/ RecordSubtransactionAbort(p)
    \/ SetPageStatus(p)
    \/ ProcArrayEndTransaction(p) \/ XidCacheRemoveRunningXids(p)

ReaderStep(p) ==
    \/ BeginSnapshot(p) \/ BeginOldestXmin(p)
    \/ \E q \in Procs : LookAt(p, q)
    \/ SnapshotDone(p) \/ OldestXminDone(p) \/ SnapshotResetXmin(p)
    \/ \E x \in Xids : LookUp(p, x)
    \/ LookIntoSubtrans(p) \/ LookIntoClog(p) \/ GoOn(p)

Next == (\E p \in Writers : WriterStep(p)) \/ (\E p \in Readers : ReaderStep(p))

Spec == Init /\ [][Next]_vars

-----------------------------------------------------------------------------
(* Properties                                                              *)

\* Every variable has its type.
TypeOK ==
    /\ nextXid \in 1..(MaxXid + 1) /\ latestCompletedXid \in 0..MaxXid
    /\ xid \in [Procs -> 0..MaxXid] /\ xmin \in [Procs -> 0..(MaxXid + 1)]
    /\ overflowed \in [Procs -> BOOLEAN]
    /\ clog \in [Xids -> {InProgress, SubCommitted, Committed, Aborted}]
    /\ parent \in [Xids -> 0..MaxXid]
    /\ pc \in [Procs -> {"run", "subabort", "commit", "abort"}]
    /\ hint \in [Xids -> {"none", Committed, Aborted}]
    /\ cached \in [Procs -> [of : 0..MaxXid,
                            status : {InProgress, SubCommitted, Committed, Aborted}]]
    /\ horizon \in 0..(MaxXid + 1)
    /\ done \subseteq Xids
    /\ \A p \in Procs :
        children[p] \subseteq Xids /\ ending[p] \subseteq Tree(p) /\ past[p] \subseteq done

\* The running subtransactions of a process, also the one that it is about to
\* enter into pg_subtrans.
RunningSubs(p) ==
    children[p] \union IF linking[p] = Idle THEN {} ELSE {linking[p].sub}

\* The cache in PGPROC holds all of them and nothing else, unless it says that
\* it does not (varsup.c, XidCacheRemoveRunningXids).
CachesComplete ==
    \A p \in Procs :
        /\ subxids[p] \subseteq RunningSubs(p)
        /\ overflowed[p] \/ RunningSubs(p) \subseteq subxids[p]

\* A snapshot shows exactly what had committed when it was taken, whenever
\* it is asked and whatever commits meanwhile: transactions with all their
\* subtransactions or not at all (tqual.c, HeapTupleSatisfiesMVCC).
SnapshotIsExact ==
    /\ TypeOK /\ CachesComplete
    /\ \A p \in Procs : ask[p].at = "answered" => (ask[p].visible <=> ask[p].of \in past[p])

\* The commit of x is in the log, and its transaction still in the array with
\* subtransactions that the array had no room for.
LoggedEarly(p, x) == overflowed[p] /\ x \in Tree(p) /\ clog[xid[p]] = Committed

\* A hint bit is for ever, so it says what becomes of the transaction.  A
\* committed one may come before the transaction has left the array, if its
\* subtransactions overflowed, but not before the commit is in the log
\* (tqual.c, SetHintBits; procarray.c, TransactionIdIsInProgress).
HintsAreFinal ==
    \A x \in Xids :
        /\ hint[x] = Committed => x \in done \/ \E p \in Procs : LoggedEarly(p, x)
        /\ hint[x] = Aborted => clog[x] = Aborted

\* Nobody takes a transaction to be committed that a later snapshot still takes
\* to be running: it has left the array (tqual.c:13-26).
CommittedHintsWait == \A x \in Xids : hint[x] = Committed => x \in done

\* The commit log shows a commit at once for the whole tree, at every moment
\* in between its pages (clog.c, TransactionIdSetTreeStatus).
ShownCommitted ==
    LET shown[x \in Xids] ==
            \/ clog[x] = Committed
            \/ clog[x] = SubCommitted /\ parent[x] # Invalid /\ shown[parent[x]]
    IN  shown

TreeCommitsAtOnce ==
    \A p \in Procs :
        pc[p] = "commit" => \A x, y \in ending[p] : ShownCommitted[x] = ShownCommitted[y]

\* What vacuum may remove nobody needs: a transaction before any horizon ever
\* computed, if it has committed, is seen by every snapshot in use, so what
\* it has deleted is seen by none (procarray.c, GetOldestXmin).
HorizonIsSafe ==
    \A p \in Procs :
        snap[p] # Idle => \A x \in done : x < horizon => x \in past[p]
=============================================================================
