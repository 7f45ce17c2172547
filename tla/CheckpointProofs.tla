--------------------------- MODULE CheckpointProofs ---------------------------
(***************************************************************************)
(* Proofs about Checkpoint, for every set of relations and requesters,     *)
(* every length of the queue and every range of the counters.              *)
(*                                                                         *)
(* TypeInt, BufferInv and DropInv are about what a step does to files and  *)
(* buffers.  UnlinkInv says that at most one unlink of a relation is       *)
(* pending, ForgetInv and FdInv that what is left over from the previous   *)
(* relation of a number does no harm to the next one, RevokedInv that a    *)
(* file that may be missing has its requests revoked.  PendingInv is that  *)
(* nothing is forgotten; on it and SyncInv rests CoveredInv, what a        *)
(* running checkpoint still has to do for what is owed to it.  CountInv    *)
(* and ServedInv carry that over to the requesters.                        *)
(***************************************************************************)
EXTENDS Checkpoint, WellFoundedInduction, SequenceTheorems, TLAPS

-----------------------------------------------------------------------------
(***************************************************************************)
(* Facts about numbers                                                     *)
(***************************************************************************)

\* The least element of a set of natural numbers.
LEMMA MinIsLeast ==
    ASSUME NEW T \in SUBSET Nat, T # {}
    PROVE  Min(T) \in T /\ \A y \in T : Min(T) <= y
<1>. DEFINE R == {ij \in Nat \X Nat : ij[1] < ij[2]}
<1>1. IsWellFoundedOn(R, Nat)
    BY NatLessThanWellFounded DEF OpToRel
<1>2. PICK x \in T : \A y \in T : <<y, x>> \notin R
    BY <1>1, WFMin
<1>3. ASSUME NEW y \in T PROVE x <= y
    <2>1. x \in Nat /\ y \in Nat /\ ~(y < x)
        BY <1>2
    <2>. QED  BY <2>1
<1>. QED  BY <1>3 DEF Min

\* The greatest element of a set of numbers that has a bound.
LEMMA MaxIsGreatest ==
    ASSUME NEW T \in SUBSET Nat, T # {}, NEW n \in Nat, \A y \in T : y <= n
    PROVE  Max(T) \in T /\ \A y \in T : y <= Max(T)
<1>. DEFINE R == {ij \in Nat \X Nat : ij[1] < ij[2]}
            D == {n - y : y \in T}
<1>1. IsWellFoundedOn(R, Nat)
    BY NatLessThanWellFounded DEF OpToRel
<1>2. D \in SUBSET Nat /\ D # {}
    <2>1. \A y \in T : n - y \in Nat
        OBVIOUS
    <2>. QED  BY <2>1
<1>3. PICK d \in D : \A e \in D : <<e, d>> \notin R
    <2>. HIDE DEF D, R
    <2>. QED  BY <1>1, <1>2, WFMin
<1>4. PICK x \in T : d = n - x
    BY <1>3
<1>5. ASSUME NEW y \in T PROVE y <= x
    <2>1. x \in Nat /\ y \in Nat /\ n - y \in D /\ n - y \in Nat /\ n - x \in Nat
        BY <1>2
    <2>2. ~(n - y < n - x)
        BY <1>3, <1>4, <2>1
    <2>. QED  BY <2>1, <2>2
<1>6. \A y \in T : x >= y
    BY <1>5
<1>7. Max(T) \in T /\ \A y \in T : Max(T) >= y
    BY <1>6 DEF Max
<1>. QED  BY <1>7

\* A set that 0 is in, and with each number below n the next one, has all
\* numbers up to n.
LEMMA Induction ==
    ASSUME NEW T, NEW n \in Nat, 0 \in T,
           \A k \in 0 .. n : k < n /\ k \in T => k + 1 \in T
    PROVE  \A k \in 0 .. n : k \in T
<1>. DEFINE Missing == {k \in 0 .. n : k \notin T}
<1>. SUFFICES ASSUME Missing # {} PROVE FALSE
    OBVIOUS
<1>1. PICK m \in Missing : \A k \in Missing : m <= k
    <2>1. Missing \in SUBSET Nat
        OBVIOUS
    <2>. HIDE DEF Missing
    <2>. QED  BY <2>1, MinIsLeast
<1>2. m \in 0 .. n /\ m # 0 /\ m - 1 \in 0 .. n /\ m - 1 < n
    BY <1>1
<1>3. m - 1 \in T
    BY <1>1, <1>2
<1>. QED  BY <1>1, <1>2, <1>3

\* A counter below n steps to the next number, or from the last one to 0.
LEMMA SuccessorIs ==
    ASSUME NEW n \in Nat \ {0}, NEW m \in 0 .. n - 1
    PROVE  /\ m + 1 < n => (m + 1) % n = m + 1
           /\ m + 1 = n => (m + 1) % n = 0
           /\ (m + 1) % n \in 0 .. n - 1
OBVIOUS

\* A difference of two counters is itself, or lacks one turn.
LEMMA DifferenceIs ==
    ASSUME NEW n \in Nat \ {0}, NEW a \in 0 .. n - 1, NEW b \in 0 .. n - 1
    PROVE  /\ b <= a => (a - b) % n = a - b
           /\ a < b => (a - b) % n = a - b + n
           /\ (a - b) % n \in 0 .. n - 1
OBVIOUS

-----------------------------------------------------------------------------

FsyncOf(f) == [type |-> "fsync", file |-> f]
ForgetOf(f) == [type |-> "forget", file |-> f]
UnlinkOf(r) == [type |-> "unlink", file |-> Main(r)]
Has(q, r) == \E i \in DOMAIN q : q[i] = r
Queued(r) == Has(queue, r)

\* In q, there is an r with no t behind it.
NotFollowed(q, r, t) ==
    \E i \in DOMAIN q : q[i] = r /\ \A j \in DOMAIN q : j > i => q[j] # t

Requests == {FsyncOf(f) : f \in Files} \union {ForgetOf(f) : f \in Files}
                \union {UnlinkOf(r) : r \in Rels}
Cycles == 0 .. CycleModulus - 1
Counters == 0 .. CounterModulus - 1
Entries == [cycle : Cycles, canceled : BOOLEAN]

FileTypes ==
    /\ file \in [Files -> {"live", "dropped", "none", "retired"}]
    /\ fd \in [Files -> {"closed", "open", "stale"}]
    /\ drop \in [Rels -> {"no", "mainBuffers", "mainForget", "mainUnlink",
                          "fsmBuffers", "fsmForget", "fsmUnlink"}]
    /\ dirty \subseteq Files /\ io \subseteq Files
    /\ unsynced \subseteq Files /\ needed \subseteq Files
    /\ unwritten \subseteq Observers \X Permanent
    /\ unfsynced \subseteq Observers \X Permanent
    /\ replay \subseteq Rels /\ replayNext \subseteq replay

RequestTypes ==
    /\ queue \in Seq(Requests) /\ Len(queue) <= MaxRequests
    /\ DOMAIN ops \subseteq Files /\ ops \in [DOMAIN ops -> Entries]
    /\ unlinks \in Seq([rel : Rels, cycle : Cycles])
    /\ syncCtr \in Cycles /\ ckptCtr \in Cycles

ControlTypes ==
    /\ force \in BOOLEAN /\ signal \in BOOLEAN /\ forced \in BOOLEAN
    /\ syncBusy \in BOOLEAN /\ logged \in BOOLEAN /\ quiet \in BOOLEAN
    /\ started \in Counters /\ done \in Counters /\ failed \in Counters
    /\ at \in {"loop", "prepare", "mark", "write", "sync", "finish"}
    /\ req \in [Requesters -> [at : {"idle", "start", "done"}, oldStarted : Counters,
                               oldFailed : Counters, newStarted : Counters]]

TypeInt == FileTypes /\ RequestTypes /\ ControlTypes

\* Only a live file has data on its way to the disk.
BufferInv ==
    /\ \A f \in dirty \union io \union unsynced : file[f] = "live"
    /\ dirty \intersect io = {}
    /\ needed \subseteq dirty \union io
    /\ \A x \in unwritten : x[2] \in dirty
    /\ \A x \in unfsynced : x[2] \in unsynced

Dropping(r) ==
    /\ drop[r] = "mainBuffers" => file[Main(r)] = "live"
    /\ drop[r] \in {"mainForget", "mainUnlink"} => file[Main(r)] = "dropped"
    /\ drop[r] \in {"fsmBuffers", "fsmForget", "fsmUnlink"}
        => r \in Forked /\ file[Main(r)] \in {"dropped", "retired"}
    /\ drop[r] \in {"fsmForget", "fsmUnlink"} => file[<<r, "fsm">>] = "dropped"
    /\ file[Main(r)] = "none" => drop[r] = "no"
DropInv == \A r \in Rels : Dropping(r)

Once(q, r) == \A i, j \in DOMAIN q : q[i] = UnlinkOf(r) /\ q[j] = UnlinkOf(r) => i = j
Unlinking(r) == Queued(UnlinkOf(r)) \/ \E i \in DOMAIN unlinks : unlinks[i].rel = r
OneUnlink(r) ==
    /\ Unlinking(r) => /\ file[Main(r)] = "dropped"
                       /\ drop[r] \notin {"mainBuffers", "mainForget", "mainUnlink"}
    /\ Once(queue, r)
    /\ \A i, j \in DOMAIN unlinks : unlinks[i].rel = r /\ unlinks[j].rel = r => i = j
    /\ \A i \in DOMAIN unlinks : unlinks[i].rel = r => ~Queued(UnlinkOf(r))
UnlinkInv == \A r \in Rels : OneUnlink(r)

\* A file of a relation whose number is still in use.
Left(f) == file[f] # "live" /\ file[Main(f[1])] \in {"dropped", "retired"}
Running == at \in {"prepare", "mark", "write", "sync"}
ForgetInv == Running => \A f \in Files : Queued(ForgetOf(f)) => Left(f)
FdInv == at # "finish" => \A f \in Files : fd[f] = "stale" => Left(f)

\* An fsync is queued or in the table that nothing revokes.
RequestedIn(q, f) ==
    \/ NotFollowed(q, FsyncOf(f), ForgetOf(f))
    \/ f \in DOMAIN ops /\ ~ops[f].canceled /\ ~Has(q, ForgetOf(f))
Requested(f) == RequestedIn(queue, f)

\* The requests of a file that may be missing have been revoked.
ForgetStep(f) == IF f = Main(f[1]) THEN "mainForget" ELSE "fsmForget"
Gone(f) == file[f] # "live" /\ drop[f[1]] # ForgetStep(f)
RevokedInv == \A f \in Files : Gone(f) => ~Requested(f)

PendingInv == \A f \in unsynced : f \in io \/ Requested(f)

SyncInv ==
    /\ failures = NoFile
    /\ at = "sync" => syncBusy
    /\ \A f \in DOMAIN ops :
        /\ ~syncBusy => ops[f].cycle = syncCtr
        /\ at = "sync" => ops[f].cycle = syncCtr \/ (ops[f].cycle + 1) % CycleModulus = syncCtr

\* A drop that a crash would still replay has its file in place.
Replaying(r) ==
    /\ r \in replay => file[Main(r)] # "none"
    /\ r \in replay /\ file[Main(r)] = "live" => drop[r] # "no"
    /\ r \in replayNext /\ at \in {"mark", "write", "sync"}
        => \A i \in DOMAIN unlinks : unlinks[i].rel = r => unlinks[i].cycle = ckptCtr
ReplayInv == \A r \in Rels : Replaying(r)

\* What a running checkpoint has still to do with the part of f in what is
\* owed to o.
Covers(o, f) ==
    /\ at = "mark" /\ <<o, f>> \in unfsynced => f \in io \/ Requested(f)
    /\ at = "write" /\ <<o, f>> \in unfsynced => f \in io \intersect needed \/ Requested(f)
    /\ at = "write" /\ <<o, f>> \in unwritten => f \in needed
    /\ at = "sync" /\ <<o, f>> \in unfsynced
        => f \in Due /\ ~ops[f].canceled /\ ~Queued(ForgetOf(f))
    /\ at = "sync" => <<o, f>> \notin unwritten
CoveredBy(o) == \A f \in Files : Covers(o, f)
CoveredInv == CoveredBy("ckpt")

Half == CounterModulus \div 2
Busy == IF at = "loop" THEN 0 ELSE 1

\* The counters since a request.
Counted(q) ==
    /\ req[q].at = "idle" => Owed(q) = {}
    /\ req[q].at # "idle" =>
        Ahead(failed, req[q].oldFailed) + Busy <= Ahead(started, req[q].oldStarted) + 1
    /\ req[q].at = "start" => Ahead(started, req[q].oldStarted) < Half
    /\ req[q].at = "done" =>
        /\ Ahead(started, req[q].newStarted) < Half
        /\ Ahead(started, req[q].newStarted) + Half > Ahead(started, req[q].oldStarted)
CountInv ==
    /\ started = IF at = "loop" THEN done ELSE Plus1(done)
    /\ \A q \in Requesters : Counted(q)

\* A request is still to be taken up, is served, will return an error, or is
\* being served.
Served(q) ==
    \/ req[q].at = "start" /\ started = req[q].oldStarted /\ force
    \/ Owed(q) = {}
    \/ failed # req[q].oldFailed
    \/ /\ Running /\ (at = "prepare" => forced)
       /\ req[q].at = "done" => req[q].newStarted = started
       /\ CoveredBy(q)
ServedInv == \A q \in Requesters : req[q].at # "idle" => Served(q)

FilesInv == TypeInt /\ BufferInv /\ DropInv /\ UnlinkInv /\ ForgetInv /\ FdInv
SyncingInv == FilesInv /\ RevokedInv /\ PendingInv /\ SyncInv /\ ReplayInv /\ CoveredInv
IInv == SyncingInv /\ CountInv /\ ServedInv

-----------------------------------------------------------------------------
(***************************************************************************)
(* Absorbing and compacting the queue, one request at a time               *)
(***************************************************************************)

\* Absorbed is what the requests of the queue make of the table, in order.
AbsorbsTo(g, T) ==
    g = [s \in SUBSET T |-> IF s = {} THEN Pending
                            ELSE RememberFsyncRequest(g[s \ {Max(s)}], queue[Max(s)])]

LEMMA AbsorbedIs ==
    ASSUME TypeInt
    PROVE  \E a : /\ a[0] = Pending
                  /\ \A k \in 0 .. Len(queue) : k < Len(queue) =>
                        a[k + 1] = RememberFsyncRequest(a[k], queue[k + 1])
                  /\ a[Len(queue)] = Absorbed
<1>. DEFINE n == Len(queue)
            Ex == {k \in 0 .. n : \E g : AbsorbsTo(g, 1 .. k)}
<1>1. n \in Nat /\ DOMAIN queue = 1 .. n
    BY DEF TypeInt, RequestTypes
<1>2. ASSUME NEW s \in SUBSET (1 .. n), s # {}
      PROVE  Max(s) \in s /\ \A y \in s : y <= Max(s)
    <2>1. s \in SUBSET Nat /\ \A y \in s : y <= n
        OBVIOUS
    <2>. QED  BY <1>1, <1>2, <2>1, MaxIsGreatest
<1>3. 0 \in Ex
    <2>. DEFINE g == [s \in SUBSET (1 .. 0) |-> Pending]
    <2>1. \A s \in SUBSET (1 .. 0) : s = {}
        OBVIOUS
    <2>2. AbsorbsTo(g, 1 .. 0)
        BY <2>1 DEF AbsorbsTo
    <2>. QED  BY <1>1, <2>2
<1>4. ASSUME NEW k \in 0 .. n, k < n, k \in Ex PROVE k + 1 \in Ex
    <2>1. PICK g : AbsorbsTo(g, 1 .. k)
        BY <1>4
    <2>. DEFINE h == [s \in SUBSET (1 .. k + 1) |->
                        IF k + 1 \in s THEN RememberFsyncRequest(g[s \ {k + 1}], queue[k + 1])
                                       ELSE g[s]]
    <2>2. ASSUME NEW s \in SUBSET (1 .. k + 1)
          PROVE  h[s] = IF s = {} THEN Pending
                        ELSE RememberFsyncRequest(h[s \ {Max(s)}], queue[Max(s)])
        <3>1. CASE k + 1 \in s
            <4>1. Max(s) = k + 1
                <5>1. s \in SUBSET (1 .. n) /\ s # {}
                    BY <1>1, <1>4, <3>1
                <5>2. Max(s) \in s /\ \A y \in s : y <= Max(s)
                    BY <1>2, <5>1
                <5>3. k + 1 <= Max(s)
                    BY <3>1, <5>2
                <5>4. ASSUME NEW m \in s, k + 1 <= m PROVE m = k + 1
                    BY <1>1, <5>4
                <5>. QED  BY <5>2, <5>3, <5>4
            <4>2. s \ {k + 1} \in SUBSET (1 .. k) /\ s \ {k + 1} \in SUBSET (1 .. k + 1)
                OBVIOUS
            <4>3. h[s \ {k + 1}] = g[s \ {k + 1}]
                BY <4>2
            <4>. QED  BY <3>1, <4>1, <4>3
        <3>2. CASE k + 1 \notin s
            <4>1. s \in SUBSET (1 .. k)
                BY <3>2
            <4>2. h[s] = g[s]
                BY <3>2
            <4>3. s # {} => /\ Max(s) \in s /\ s \ {Max(s)} \in SUBSET (1 .. k)
                            /\ s \ {Max(s)} \in SUBSET (1 .. k + 1)
                <5>1. s \in SUBSET (1 .. n)
                    BY <1>1, <1>4, <4>1
                <5>. QED  BY <1>2, <4>1, <5>1
            <4>4. s # {} => h[s \ {Max(s)}] = g[s \ {Max(s)}]
                BY <4>3
            <4>. QED  BY <2>1, <4>1, <4>2, <4>4 DEF AbsorbsTo
        <3>. QED  BY <3>1, <3>2
    <2>. HIDE DEF h
    <2>3. AbsorbsTo(h, 1 .. k + 1)
        BY <2>2 DEF AbsorbsTo, h
    <2>. QED  BY <1>1, <1>4, <2>3
<1>5. n \in Ex
    <2>. HIDE DEF Ex, n
    <2>1. \A k \in 0 .. n : k \in Ex
        BY <1>1, <1>3, <1>4, Induction
    <2>. QED  BY <1>1, <2>1
<1>. DEFINE iter == CHOOSE g : AbsorbsTo(g, DOMAIN queue)
<1>6. AbsorbsTo(iter, DOMAIN queue)
    BY <1>1, <1>5
<1>7. Absorbed = iter[DOMAIN queue]
    BY DEF Absorbed, FoldLeft, MapThenFoldSet, AbsorbsTo
<1>. DEFINE a == [k \in 0 .. n |-> iter[1 .. k]]
<1>. HIDE DEF iter
<1>8. a[0] = Pending /\ a[n] = Absorbed
    <2>1. 1 .. 0 = {} /\ {} \in SUBSET DOMAIN queue
        BY <1>1
    <2>. QED  BY <1>1, <1>6, <1>7, <2>1 DEF AbsorbsTo
<1>9. ASSUME NEW k \in 0 .. n, k < n
      PROVE  a[k + 1] = RememberFsyncRequest(a[k], queue[k + 1])
    <2>1. k + 1 \in 0 .. n /\ 1 .. k + 1 \in SUBSET (1 .. k + 1) /\ 1 .. k + 1 # {}
        BY <1>1, <1>9
    <2>2. Max(1 .. k + 1) = k + 1
        <3>1. 1 .. k + 1 \in SUBSET (1 .. n) /\ k + 1 \in 1 .. k + 1
            BY <1>1, <1>9
        <3>2. Max(1 .. k + 1) \in 1 .. k + 1 /\ k + 1 <= Max(1 .. k + 1)
            BY <1>2, <2>1, <3>1
        <3>. QED  BY <3>2
    <2>3. (1 .. k + 1) \ {k + 1} = 1 .. k /\ 1 .. k + 1 \in SUBSET DOMAIN queue
        BY <1>1, <2>1
    <2>. QED  BY <1>6, <2>1, <2>2, <2>3 DEF AbsorbsTo
<1>. QED  BY <1>8, <1>9

\* Compacting goes through the queue from its end.
Keeping(r, kept) == IF Contains(kept, r) THEN kept ELSE <<r>> \o kept
CompactsTo(g, T) ==
    g = [s \in SUBSET T |-> IF s = {} THEN <<>>
                            ELSE Keeping(queue[Min(s)], g[s \ {Min(s)}])]

LEMMA CompactedIs ==
    ASSUME TypeInt
    PROVE  \E c : /\ c[0] = <<>>
                  /\ \A k \in 0 .. Len(queue) : k < Len(queue) =>
                        c[k + 1] = Keeping(queue[Len(queue) - k], c[k])
                  /\ c[Len(queue)] = CompactBgwriterRequestQueue(queue)
<1>. DEFINE n == Len(queue)
            Rear(k) == (n - k + 1) .. n
            Ex == {k \in 0 .. n : \E g : CompactsTo(g, Rear(k))}
<1>1. n \in Nat /\ DOMAIN queue = 1 .. n
    BY DEF TypeInt, RequestTypes
<1>2. ASSUME NEW s \in SUBSET (1 .. n), s # {}
      PROVE  Min(s) \in s /\ \A y \in s : Min(s) <= y
    <2>1. s \in SUBSET Nat
        OBVIOUS
    <2>. QED  BY <1>2, <2>1, MinIsLeast
<1>3. 0 \in Ex
    <2>. DEFINE g == [s \in SUBSET Rear(0) |-> <<>>]
    <2>1. \A s \in SUBSET Rear(0) : s = {}
        BY <1>1
    <2>2. CompactsTo(g, Rear(0))
        BY <2>1 DEF CompactsTo
    <2>. QED  BY <1>1, <2>2
<1>4. ASSUME NEW k \in 0 .. n, k < n, k \in Ex PROVE k + 1 \in Ex
    <2>1. PICK g : CompactsTo(g, Rear(k))
        BY <1>4
    <2>. DEFINE x == n - k
                T == Rear(k + 1)
                h == [s \in SUBSET T |->
                        IF x \in s THEN Keeping(queue[x], g[s \ {x}]) ELSE g[s]]
    <2>2. /\ T = Rear(k) \union {x} /\ x \notin Rear(k) /\ T \subseteq 1 .. n
          /\ \A y \in T : x <= y
        BY <1>1, <1>4
    <2>. HIDE DEF Rear, T, x
    <2>3. ASSUME NEW s \in SUBSET T
          PROVE  h[s] = IF s = {} THEN <<>> ELSE Keeping(queue[Min(s)], h[s \ {Min(s)}])
        <3>1. CASE x \in s
            <4>1. Min(s) = x
                <5>1. s \in SUBSET (1 .. n) /\ s # {}
                    BY <2>2, <3>1
                <5>2. Min(s) \in s /\ \A y \in s : Min(s) <= y
                    BY <1>2, <5>1
                <5>3. Min(s) <= x /\ x <= Min(s) /\ Min(s) \in 1 .. n /\ x \in 1 .. n
                    BY <2>2, <3>1, <5>1, <5>2
                <5>. QED  BY <5>3
            <4>2. s \ {x} \in SUBSET Rear(k) /\ s \ {x} \in SUBSET T
                BY <2>2
            <4>3. h[s \ {x}] = g[s \ {x}]
                BY <4>2
            <4>. QED  BY <3>1, <4>1, <4>3
        <3>2. CASE x \notin s
            <4>1. s \in SUBSET Rear(k)
                BY <2>2, <3>2
            <4>2. h[s] = g[s]
                BY <3>2
            <4>3. s # {} => /\ Min(s) \in s /\ s \ {Min(s)} \in SUBSET Rear(k)
                            /\ s \ {Min(s)} \in SUBSET T
                <5>1. s \in SUBSET (1 .. n)
                    BY <2>2
                <5>. QED  BY <1>2, <4>1, <5>1
            <4>4. s # {} => h[s \ {Min(s)}] = g[s \ {Min(s)}]
                BY <3>2, <4>3
            <4>. QED  BY <2>1, <4>1, <4>2, <4>4 DEF CompactsTo
        <3>. QED  BY <3>1, <3>2
    <2>. HIDE DEF h
    <2>4. CompactsTo(h, T)
        BY <2>3 DEF CompactsTo, h
    <2>. QED  BY <1>1, <1>4, <2>4 DEF T
<1>5. n \in Ex
    <2>. HIDE DEF Ex, n
    <2>1. \A k \in 0 .. n : k \in Ex
        BY <1>1, <1>3, <1>4, Induction
    <2>. QED  BY <1>1, <2>1
<1>. DEFINE iter == CHOOSE g : CompactsTo(g, DOMAIN queue)
<1>6. CompactsTo(iter, DOMAIN queue)
    <2>1. Rear(n) = DOMAIN queue
        BY <1>1
    <2>. HIDE DEF Rear
    <2>. QED  BY <1>5, <2>1
<1>7. CompactBgwriterRequestQueue(queue) = iter[DOMAIN queue]
    BY DEF CompactBgwriterRequestQueue, FoldRight, MapThenFoldSet, CompactsTo, Keeping
<1>. DEFINE c == [k \in 0 .. n |-> iter[Rear(k)]]
<1>. HIDE DEF iter
<1>8. c[0] = <<>> /\ c[n] = CompactBgwriterRequestQueue(queue)
    <2>1. Rear(0) = {} /\ {} \in SUBSET DOMAIN queue /\ Rear(n) = DOMAIN queue
        BY <1>1
    <2>. QED  BY <1>1, <1>6, <1>7, <2>1 DEF CompactsTo
<1>9. ASSUME NEW k \in 0 .. n, k < n
      PROVE  c[k + 1] = Keeping(queue[n - k], c[k])
    <2>. DEFINE T == Rear(k + 1)
    <2>1. /\ k + 1 \in 0 .. n /\ T \in SUBSET (1 .. n) /\ n - k \in T
          /\ \A y \in T : n - k <= y
          /\ T \ {n - k} = Rear(k)
        BY <1>1, <1>9
    <2>2. Min(T) = n - k
        <3>1. Min(T) \in T /\ \A y \in T : Min(T) <= y
            BY <1>2, <2>1
        <3>2. Min(T) <= n - k /\ n - k <= Min(T) /\ Min(T) \in 1 .. n /\ n - k \in 1 .. n
            BY <2>1, <3>1
        <3>. QED  BY <3>2
    <2>3. iter[T] = Keeping(queue[n - k], iter[T \ {n - k}])
        <3>. HIDE DEF T
        <3>. QED  BY <1>1, <1>6, <2>1, <2>2 DEF CompactsTo
    <2>. QED  BY <2>1, <2>3
<1>. QED  BY <1>8, <1>9

\* The compacted queue has the same requests, each once, and the last ones of
\* two different requests are in the order they had.
Compacts(c, q) ==
    /\ c \in Seq(Requests) /\ Len(c) <= Len(q)
    /\ \A r \in Requests : Has(c, r) <=> Has(q, r)
    /\ \A i, j \in DOMAIN c : c[i] = c[j] => i = j
    /\ \A r, t \in Requests : r # t => (NotFollowed(c, r, t) <=> NotFollowed(q, r, t))

\* p is q with x in front of it.
Prefixed(p, x, q) ==
    /\ p \in Seq(Requests) /\ Len(p) = Len(q) + 1 /\ p[1] = x
    /\ \A i \in DOMAIN q : i + 1 \in DOMAIN p /\ p[i + 1] = q[i]
    /\ \A i \in DOMAIN p : i # 1 => i - 1 \in DOMAIN q /\ p[i] = q[i - 1]
    /\ \A r \in Requests : Has(p, r) <=> r = x \/ Has(q, r)
    /\ \A r, t \in Requests :
            NotFollowed(p, r, t) <=> NotFollowed(q, r, t) \/ (r = x /\ ~Has(q, t))

LEMMA InFront ==
    ASSUME NEW q \in Seq(Requests), NEW x \in Requests
    PROVE  Prefixed(<<x>> \o q, x, q)
<1>. DEFINE p == <<x>> \o q
<1>1. /\ p \in Seq(Requests) /\ Len(p) = Len(q) + 1 /\ p[1] = x
      /\ DOMAIN p = 1 .. Len(q) + 1 /\ DOMAIN q = 1 .. Len(q) /\ Len(q) \in Nat
      /\ \A i \in 1 .. Len(q) : p[i + 1] = q[i]
    BY ConcatProperties
<1>2. \A i \in DOMAIN q : i + 1 \in DOMAIN p /\ p[i + 1] = q[i]
    BY <1>1
<1>3. ASSUME NEW i \in DOMAIN p, i # 1 PROVE i - 1 \in DOMAIN q /\ p[i] = q[i - 1]
    <2>1. PICK j \in DOMAIN q : i = j + 1
        <3>1. i - 1 \in DOMAIN q /\ i = (i - 1) + 1
            BY <1>1, <1>3
        <3>. QED  BY <3>1
    <2>. QED  BY <1>1, <2>1
<1>4. ASSUME NEW r \in Requests
      PROVE  Has(p, r) <=> r = x \/ Has(q, r)
    <2>1. ASSUME NEW i \in DOMAIN p, p[i] = r PROVE r = x \/ \E j \in DOMAIN q : q[j] = r
        BY <1>1, <1>3, <2>1
    <2>2. 1 \in DOMAIN p /\ p[1] = x
        BY <1>1
    <2>. QED  BY <1>2, <2>1, <2>2 DEF Has
<1>5. ASSUME NEW r \in Requests, NEW t \in Requests
      PROVE  NotFollowed(p, r, t) <=> NotFollowed(q, r, t) \/ (r = x /\ ~Has(q, t))
    <2>1. ASSUME NotFollowed(q, r, t) PROVE NotFollowed(p, r, t)
        <3>1. PICK i \in DOMAIN q : q[i] = r /\ \A j \in DOMAIN q : j > i => q[j] # t
            BY <2>1 DEF NotFollowed
        <3>2. ASSUME NEW j \in DOMAIN p, j > i + 1 PROVE p[j] # t
            BY <1>1, <1>3, <3>1, <3>2
        <3>. QED  BY <1>2, <3>1, <3>2 DEF NotFollowed
    <2>2. ASSUME r = x, ~Has(q, t) PROVE NotFollowed(p, r, t)
        <3>1. ASSUME NEW j \in DOMAIN p, j > 1 PROVE p[j] # t
            BY <1>1, <1>3, <2>2, <3>1 DEF Has
        <3>. QED  BY <1>1, <2>2, <3>1 DEF NotFollowed
    <2>3. ASSUME NotFollowed(p, r, t), ~(r = x /\ ~Has(q, t))
          PROVE  NotFollowed(q, r, t)
        <3>1. PICK i \in DOMAIN p : p[i] = r /\ \A j \in DOMAIN p : j > i => p[j] # t
            BY <2>3 DEF NotFollowed
        <3>2. i # 1
            <4>1. ASSUME i = 1, NEW j \in DOMAIN q PROVE q[j] # t
                <5>1. j + 1 \in DOMAIN p /\ j + 1 > i /\ p[j + 1] = q[j]
                    BY <1>1, <1>2, <4>1
                <5>. QED  BY <3>1, <5>1
            <4>. QED  BY <1>1, <2>3, <3>1, <4>1 DEF Has
        <3>3. i - 1 \in DOMAIN q /\ q[i - 1] = r
            BY <1>3, <3>1, <3>2
        <3>4. ASSUME NEW j \in DOMAIN q, j > i - 1 PROVE q[j] # t
            <4>1. j + 1 \in DOMAIN p /\ j + 1 > i /\ p[j + 1] = q[j]
                BY <1>1, <1>2, <3>4
            <4>. QED  BY <3>1, <4>1
        <3>. QED  BY <3>3, <3>4 DEF NotFollowed
    <2>. QED  BY <2>1, <2>2, <2>3
<1>. HIDE DEF p
<1>6. Prefixed(p, x, q)
    BY <1>1, <1>2, <1>3, <1>4, <1>5 DEF Prefixed
<1>. QED  BY <1>6 DEF p

LEMMA CompactsOneMore ==
    ASSUME NEW c \in Seq(Requests), NEW q \in Seq(Requests), NEW x \in Requests,
           Compacts(c, q), NEW d, d = Keeping(x, c), NEW p, p = <<x>> \o q
    PROVE  Compacts(d, p)
<1>1. Prefixed(p, x, q)
    BY InFront
<1>2. DOMAIN c = 1 .. Len(c) /\ Len(c) \in Nat /\ Len(q) \in Nat
    OBVIOUS
<1>3. CASE Contains(c, x)
    <2>1. d = c
        BY <1>3 DEF Keeping
    <2>2. Has(q, x)
        BY <1>2, <1>3 DEF Compacts, Contains, Has
    <2>3. ASSUME NEW t \in Requests, ~Has(q, t) PROVE NotFollowed(q, x, t)
        BY <2>2, <2>3 DEF Prefixed, NotFollowed, Has
    <2>4. Len(d) <= Len(p) /\ \A i, j \in DOMAIN d : d[i] = d[j] => i = j
        BY <1>1, <1>2, <2>1 DEF Prefixed, Compacts
    <2>5. \A r \in Requests : Has(d, r) <=> Has(p, r)
        BY <1>1, <2>1, <2>2 DEF Prefixed, Compacts
    <2>6. \A r, t \in Requests : r # t => (NotFollowed(d, r, t) <=> NotFollowed(p, r, t))
        BY <1>1, <2>1, <2>3 DEF Prefixed, Compacts
    <2>. QED  BY <2>1, <2>4, <2>5, <2>6 DEF Compacts
<1>4. CASE ~Contains(c, x)
    <2>1. d = <<x>> \o c
        BY <1>4 DEF Keeping
    <2>2. Prefixed(d, x, c)
        BY <2>1, InFront
    <2>3. ~Has(c, x)
        BY <1>2, <1>4 DEF Contains, Has
    <2>4. \A r, t \in Requests : r # t => (NotFollowed(d, r, t) <=> NotFollowed(p, r, t))
        BY <1>1, <2>2 DEF Prefixed, Compacts
    <2>5. \A r \in Requests : Has(d, r) <=> Has(p, r)
        BY <1>1, <2>2 DEF Prefixed, Compacts
    <2>6. \A i, j \in DOMAIN d : d[i] = d[j] => i = j
        <3>1. ASSUME NEW i \in DOMAIN d, NEW j \in DOMAIN d, d[i] = d[j], i # 1, j # 1
              PROVE  i = j
            <4>1. /\ i - 1 \in DOMAIN c /\ j - 1 \in DOMAIN c
                  /\ c[i - 1] = d[i] /\ c[j - 1] = d[j]
                BY <2>2, <3>1 DEF Prefixed
            <4>2. i - 1 = j - 1
                BY <3>1, <4>1 DEF Compacts
            <4>. QED  BY <2>2, <4>2 DEF Prefixed
        <3>2. ASSUME NEW i \in DOMAIN d, i # 1 PROVE d[i] # d[1]
            BY <2>2, <2>3, <3>2 DEF Prefixed, Has
        <3>. QED  BY <3>1, <3>2
    <2>7. Len(d) <= Len(p)
        BY <1>1, <1>2, <2>2 DEF Prefixed, Compacts
    <2>. QED  BY <2>2, <2>4, <2>5, <2>6, <2>7 DEF Prefixed, Compacts
<1>. QED  BY <1>3, <1>4

LEMMA CompactedKeeps ==
    ASSUME TypeInt
    PROVE  Compacts(CompactBgwriterRequestQueue(queue), queue)
<1>. DEFINE n == Len(queue)
            Rear(k) == SubSeq(queue, n - k + 1, n)
<1>1. n \in Nat /\ queue \in Seq(Requests) /\ DOMAIN queue = 1 .. n
    BY DEF TypeInt, RequestTypes
<1>2. PICK c : /\ c[0] = <<>>
               /\ \A k \in 0 .. n : k < n => c[k + 1] = Keeping(queue[n - k], c[k])
               /\ c[n] = CompactBgwriterRequestQueue(queue)
    BY CompactedIs
<1>. DEFINE T == {k \in 0 .. n : Compacts(c[k], Rear(k))}
<1>3. 0 \in T
    <2>1. Rear(0) = <<>>
        BY <1>1
    <2>2. Compacts(<<>>, <<>>)
        <3>1. DOMAIN <<>> = {} /\ <<>> \in Seq(Requests) /\ Len(<<>>) = 0
            OBVIOUS
        <3>. QED  BY <3>1 DEF Compacts, NotFollowed, Has
    <2>3. Compacts(c[0], Rear(0))
        BY <1>2, <2>1, <2>2
    <2>. QED  BY <1>1, <2>3
<1>4. ASSUME NEW k \in 0 .. n, k < n, k \in T PROVE k + 1 \in T
    <2>1. queue[n - k] \in Requests /\ k + 1 \in 0 .. n
        BY <1>1, <1>4
    <2>2. Rear(k + 1) = <<queue[n - k]>> \o Rear(k) /\ Rear(k) \in Seq(Requests)
        BY <1>1, <1>4
    <2>3. Compacts(c[k], Rear(k)) /\ c[k] \in Seq(Requests)
        BY <1>4 DEF Compacts
    <2>4. c[k + 1] = Keeping(queue[n - k], c[k])
        BY <1>2, <1>4
    <2>. HIDE DEF Rear, n
    <2>5. Compacts(c[k + 1], Rear(k + 1))
        BY <2>1, <2>2, <2>3, <2>4, CompactsOneMore
    <2>. QED  BY <2>1, <2>5
<1>5. n \in T
    <2>. HIDE DEF T, n
    <2>1. \A k \in 0 .. n : k \in T
        BY <1>1, <1>3, <1>4, Induction
    <2>. QED  BY <1>1, <2>1
<1>6. Rear(n) = queue
    BY <1>1
<1>. QED  BY <1>2, <1>5, <1>6

LEMMA AtEnd ==
    ASSUME NEW q \in Seq(Requests), NEW x \in Requests
    PROVE  /\ Append(q, x) \in Seq(Requests)
           /\ \A r : Has(Append(q, x), r) <=> Has(q, r) \/ x = r
           /\ \A r, t : r # t => (NotFollowed(Append(q, x), r, t) <=>
                                    (NotFollowed(q, r, t) /\ x # t) \/ x = r)
<1>. DEFINE p == Append(q, x)
<1>1. /\ p \in Seq(Requests) /\ DOMAIN p = 1 .. Len(q) + 1 /\ DOMAIN q = 1 .. Len(q)
      /\ Len(q) \in Nat /\ p[Len(q) + 1] = x
      /\ \A i \in DOMAIN q : i \in DOMAIN p /\ p[i] = q[i]
      /\ \A i \in DOMAIN p : i \in DOMAIN q \/ i = Len(q) + 1
    BY AppendProperties
<1>. HIDE DEF p
<1>2. \A r : Has(p, r) <=> Has(q, r) \/ x = r
    BY <1>1 DEF Has
<1>3. ASSUME NEW r, NEW t, r # t
      PROVE  NotFollowed(p, r, t) <=> (NotFollowed(q, r, t) /\ x # t) \/ x = r
    <2>1. ASSUME NotFollowed(p, r, t), x # r PROVE NotFollowed(q, r, t) /\ x # t
        <3>1. PICK i \in DOMAIN p : p[i] = r /\ \A j \in DOMAIN p : j > i => p[j] # t
            BY <2>1 DEF NotFollowed
        <3>2. i \in DOMAIN q /\ Len(q) + 1 > i /\ Len(q) + 1 \in DOMAIN p
            BY <1>1, <2>1, <3>1
        <3>. QED  BY <1>1, <3>1, <3>2 DEF NotFollowed
    <2>2. ASSUME NotFollowed(q, r, t), x # t PROVE NotFollowed(p, r, t)
        <3>1. PICK i \in DOMAIN q : q[i] = r /\ \A j \in DOMAIN q : j > i => q[j] # t
            BY <2>2 DEF NotFollowed
        <3>2. ASSUME NEW j \in DOMAIN p, j > i PROVE p[j] # t
            BY <1>1, <2>2, <3>1, <3>2
        <3>. QED  BY <1>1, <3>1, <3>2 DEF NotFollowed
    <2>3. ASSUME x = r PROVE NotFollowed(p, r, t)
        <3>1. ASSUME NEW j \in DOMAIN p, j > Len(q) + 1 PROVE FALSE
            BY <1>1, <3>1
        <3>2. Len(q) + 1 \in DOMAIN p
            BY <1>1
        <3>. QED  BY <1>1, <2>3, <3>1, <3>2 DEF NotFollowed
    <2>. QED  BY <2>1, <2>2, <2>3
<1>. QED  BY <1>1, <1>2, <1>3 DEF p

\* Table o and list u are what absorbing q leaves.
EntryAbsorbed(o, q, f) ==
    /\ o[f].cycle # syncCtr => f \in DOMAIN ops /\ o[f].cycle = ops[f].cycle
    /\ f \in DOMAIN ops /\ ~ops[f].canceled /\ ~Has(q, ForgetOf(f)) => o[f] = ops[f]
    /\ ~o[f].canceled <=> RequestedIn(q, f)
AbsorbedOps(o, q) ==
    /\ DOMAIN o = DOMAIN ops \union {f \in Files : Has(q, FsyncOf(f))}
    /\ o \in [DOMAIN o -> Entries]
    /\ \A f \in DOMAIN o : EntryAbsorbed(o, q, f)

OnceAdded(u, r) == \A i, j \in DOMAIN u :
    i > Len(unlinks) /\ j > Len(unlinks) /\ u[i].rel = r /\ u[j].rel = r => i = j
AbsorbedUnlinks(u, q) ==
    /\ u \in Seq([rel : Rels, cycle : Cycles])
    /\ Len(u) >= Len(unlinks)
    /\ \A i \in DOMAIN unlinks : u[i] = unlinks[i]
    /\ \A i \in DOMAIN u : i > Len(unlinks) => u[i].cycle = ckptCtr /\ Has(q, UnlinkOf(u[i].rel))
    /\ \A r \in Rels : Once(q, r) => OnceAdded(u, r)
Absorbs(p, q) ==
    /\ p = [ops |-> p.ops, unlinks |-> p.unlinks]
    /\ AbsorbedOps(p.ops, q) /\ AbsorbedUnlinks(p.unlinks, q)

LEMMA RequestKinds ==
    ASSUME NEW x \in Requests
    PROVE  \/ \E f \in Files : x = FsyncOf(f)
           \/ \E f \in Files : x = ForgetOf(f)
           \/ \E r \in Rels : x = UnlinkOf(r)
BY DEF Requests

\* Requests are different if their types or files are.
LEMMA RequestsDiffer ==
    /\ \A f, g : FsyncOf(f) # ForgetOf(g) /\ (FsyncOf(f) = FsyncOf(g) => f = g)
    /\ \A f, g : ForgetOf(f) = ForgetOf(g) => f = g
    /\ \A f, r : FsyncOf(f) # UnlinkOf(r) /\ ForgetOf(f) # UnlinkOf(r)
    /\ \A r, s : UnlinkOf(r) = UnlinkOf(s) => r = s
<1>1. \A f, r : /\ FsyncOf(f).type = "fsync" /\ FsyncOf(f).file = f
                /\ ForgetOf(f).type = "forget" /\ ForgetOf(f).file = f
                /\ UnlinkOf(r).type = "unlink" /\ UnlinkOf(r).file = Main(r)
    BY DEF FsyncOf, ForgetOf, UnlinkOf
<1>2. \A r, s : Main(r) = Main(s) => r = s
    BY DEF Main
<1>. QED  BY <1>1, <1>2

LEMMA FsyncRemembered ==
    ASSUME TypeInt, NEW q \in Seq(Requests), NEW o, AbsorbedOps(o, q), NEW g \in Files,
           NEW p, p = IF g \in DOMAIN o /\ ~o[g].canceled THEN o
                      ELSE [h \in DOMAIN o \union {g} |->
                                IF h = g THEN [cycle |-> syncCtr, canceled |-> FALSE] ELSE o[h]]
    PROVE  AbsorbedOps(p, Append(q, FsyncOf(g)))
<1>. DEFINE r == Append(q, FsyncOf(g))
<1>1. FsyncOf(g) \in Requests
    BY DEF Requests
<1>2. \A f \in Files : /\ Has(r, FsyncOf(f)) <=> Has(q, FsyncOf(f)) \/ f = g
                       /\ Has(r, ForgetOf(f)) <=> Has(q, ForgetOf(f))
                       /\ NotFollowed(r, FsyncOf(f), ForgetOf(f)) <=>
                            NotFollowed(q, FsyncOf(f), ForgetOf(f)) \/ f = g
    BY <1>1, AtEnd, RequestsDiffer
<1>. HIDE DEF r
<1>3. \A f \in Files : RequestedIn(r, f) <=> RequestedIn(q, f) \/ f = g
    BY <1>2 DEF RequestedIn
<1>4. DOMAIN o \subseteq Files /\ syncCtr \in Cycles /\ DOMAIN ops \subseteq Files
    BY DEF AbsorbedOps, TypeInt, RequestTypes
<1>5. CASE g \in DOMAIN o /\ ~o[g].canceled
    <2>1. p = o
        BY <1>5
    <2>2. DOMAIN p = DOMAIN ops \union {f \in Files : Has(r, FsyncOf(f))}
        BY <1>2, <1>4, <1>5, <2>1 DEF AbsorbedOps
    <2>3. RequestedIn(q, g)
        BY <1>5 DEF AbsorbedOps, EntryAbsorbed
    <2>4. ASSUME NEW f \in DOMAIN p PROVE EntryAbsorbed(p, r, f)
        <3>1. EntryAbsorbed(o, q, f) /\ f \in Files
            BY <1>4, <2>1 DEF AbsorbedOps
        <3>. QED  BY <1>2, <1>3, <2>1, <2>3, <3>1 DEF EntryAbsorbed
    <2>5. p \in [DOMAIN p -> Entries]
        BY <2>1 DEF AbsorbedOps
    <2>. QED  BY <2>2, <2>4, <2>5 DEF AbsorbedOps, r
<1>6. CASE ~(g \in DOMAIN o /\ ~o[g].canceled)
    <2>1. p = [h \in DOMAIN o \union {g} |->
                    IF h = g THEN [cycle |-> syncCtr, canceled |-> FALSE] ELSE o[h]]
        BY <1>6
    <2>2. DOMAIN p = DOMAIN ops \union {f \in Files : Has(r, FsyncOf(f))}
        BY <1>2, <1>4, <2>1 DEF AbsorbedOps
    <2>3. p[g] = [cycle |-> syncCtr, canceled |-> FALSE] /\ p[g] \in Entries
        <3>1. p[g] = [cycle |-> syncCtr, canceled |-> FALSE]
            BY <2>1
        <3>2. [cycle |-> syncCtr, canceled |-> FALSE] \in Entries
            BY <1>4 DEF Entries
        <3>. QED  BY <3>1, <3>2
    <2>4. \A f \in DOMAIN o : f # g => p[f] = o[f] /\ o[f] \in Entries
        BY <2>1 DEF AbsorbedOps
    <2>5. p \in [DOMAIN p -> Entries]
        BY <2>1, <2>3, <2>4
    <2>6. ASSUME g \in DOMAIN ops, ~ops[g].canceled, ~Has(r, ForgetOf(g)) PROVE FALSE
        <3>1. g \in DOMAIN o /\ o[g] = ops[g]
            BY <1>2, <2>6 DEF AbsorbedOps, EntryAbsorbed
        <3>. QED  BY <1>6, <2>6, <3>1
    <2>7. ASSUME NEW f \in DOMAIN p PROVE EntryAbsorbed(p, r, f)
        <3>1. CASE f = g
            BY <1>3, <2>3, <2>6, <3>1 DEF EntryAbsorbed
        <3>2. CASE f # g
            <4>1. f \in DOMAIN o /\ p[f] = o[f] /\ f \in Files
                BY <1>4, <2>1, <2>4, <3>2
            <4>2. EntryAbsorbed(o, q, f)
                BY <4>1 DEF AbsorbedOps
            <4>. QED  BY <1>2, <1>3, <3>2, <4>1, <4>2 DEF EntryAbsorbed
        <3>. QED  BY <3>1, <3>2
    <2>. QED  BY <2>2, <2>5, <2>7 DEF AbsorbedOps, r
<1>. QED  BY <1>5, <1>6

LEMMA ForgetRemembered ==
    ASSUME TypeInt, NEW q \in Seq(Requests), NEW o, AbsorbedOps(o, q), NEW g \in Files,
           NEW p, p = [h \in DOMAIN o |-> [o[h] EXCEPT !.canceled = @ \/ h = g]]
    PROVE  AbsorbedOps(p, Append(q, ForgetOf(g)))
<1>. DEFINE r == Append(q, ForgetOf(g))
<1>1. ForgetOf(g) \in Requests
    BY DEF Requests
<1>2. \A f \in Files : /\ Has(r, FsyncOf(f)) <=> Has(q, FsyncOf(f))
                       /\ Has(r, ForgetOf(f)) <=> Has(q, ForgetOf(f)) \/ f = g
                       /\ NotFollowed(r, FsyncOf(f), ForgetOf(f)) <=>
                            NotFollowed(q, FsyncOf(f), ForgetOf(f)) /\ f # g
    BY <1>1, AtEnd, RequestsDiffer
<1>. HIDE DEF r
<1>3. \A f \in Files : RequestedIn(r, f) <=> RequestedIn(q, f) /\ f # g
    BY <1>2 DEF RequestedIn
<1>4. DOMAIN o \subseteq Files /\ DOMAIN ops \subseteq Files
    BY DEF AbsorbedOps, TypeInt, RequestTypes
<1>5. DOMAIN p = DOMAIN ops \union {f \in Files : Has(r, FsyncOf(f))}
    BY <1>2, <1>4 DEF AbsorbedOps
<1>6. ASSUME NEW f \in DOMAIN p
      PROVE  /\ p[f] \in Entries /\ p[f].cycle = o[f].cycle /\ o[f] \in Entries
             /\ p[f].canceled <=> o[f].canceled \/ f = g
             /\ f # g => p[f] = o[f]
    <2>1. o[f] \in Entries /\ f \in DOMAIN o
        BY DEF AbsorbedOps
    <2>2. p[f] = [o[f] EXCEPT !.canceled = o[f].canceled \/ f = g]
        BY <2>1
    <2>3. o[f] = [cycle |-> o[f].cycle, canceled |-> o[f].canceled] /\ o[f].cycle \in Cycles
          /\ o[f].canceled \in BOOLEAN
        BY <2>1 DEF Entries
    <2>4. p[f] = [cycle |-> o[f].cycle, canceled |-> (o[f].canceled \/ f = g)]
        BY <2>2, <2>3
    <2>5. (o[f].canceled \/ f = g) \in BOOLEAN
        BY <2>3
    <2>6. p[f] \in Entries
        BY <2>3, <2>4, <2>5 DEF Entries
    <2>7. p[f].cycle = o[f].cycle /\ (p[f].canceled <=> o[f].canceled \/ f = g)
        BY <2>4
    <2>8. f # g => p[f] = o[f]
        <3>1. f # g => (o[f].canceled \/ f = g) = o[f].canceled
            BY <2>3
        <3>. QED  BY <2>3, <2>4, <3>1
    <2>. QED  BY <2>1, <2>6, <2>7, <2>8
<1>7. p \in [DOMAIN p -> Entries]
    BY <1>6
<1>8. ASSUME NEW f \in DOMAIN p PROVE EntryAbsorbed(p, r, f)
    <2>1. f \in DOMAIN o /\ f \in Files /\ EntryAbsorbed(o, q, f)
        BY <1>4 DEF AbsorbedOps
    <2>. QED  BY <1>2, <1>3, <1>6, <2>1 DEF EntryAbsorbed
<1>. QED  BY <1>5, <1>7, <1>8 DEF AbsorbedOps, r

LEMMA UnlinkRemembered ==
    ASSUME TypeInt, NEW q \in Seq(Requests), NEW u, AbsorbedUnlinks(u, q), NEW s \in Rels,
           NEW v, v = Append(u, [rel |-> s, cycle |-> ckptCtr])
    PROVE  AbsorbedUnlinks(v, Append(q, UnlinkOf(s)))
<1>. DEFINE x == UnlinkOf(s)
            p == Append(q, x)
<1>1. x \in Requests
    BY DEF Requests
<1>2. /\ p \in Seq(Requests) /\ DOMAIN p = 1 .. Len(q) + 1 /\ DOMAIN q = 1 .. Len(q)
      /\ Len(q) \in Nat /\ p[Len(q) + 1] = x
      /\ \A i \in DOMAIN q : i \in DOMAIN p /\ p[i] = q[i]
    BY <1>1, AppendProperties
<1>3. \A r : Has(p, r) <=> Has(q, r) \/ x = r
    BY <1>1, AtEnd
<1>. HIDE DEF p
<1>4. /\ v \in Seq([rel : Rels, cycle : Cycles]) /\ Len(v) = Len(u) + 1 /\ Len(u) \in Nat
      /\ v[Len(u) + 1].rel = s /\ v[Len(u) + 1].cycle = ckptCtr
      /\ DOMAIN v = 1 .. Len(u) + 1 /\ DOMAIN u = 1 .. Len(u)
      /\ \A i \in DOMAIN u : i \in DOMAIN v /\ v[i] = u[i]
      /\ Len(unlinks) \in Nat /\ DOMAIN unlinks = 1 .. Len(unlinks)
      /\ Len(u) >= Len(unlinks)
    <2>1. [rel |-> s, cycle |-> ckptCtr] \in [rel : Rels, cycle : Cycles]
        BY DEF TypeInt, RequestTypes
    <2>2. u \in Seq([rel : Rels, cycle : Cycles]) /\ Len(u) >= Len(unlinks)
          /\ unlinks \in Seq([rel : Rels, cycle : Cycles])
        BY DEF AbsorbedUnlinks, TypeInt, RequestTypes
    <2>. QED  BY <2>1, <2>2, AppendProperties
<1>5. \A i \in DOMAIN unlinks : v[i] = unlinks[i]
    <2>1. \A i \in DOMAIN unlinks : i \in DOMAIN u
        BY <1>4
    <2>. QED  BY <1>4, <2>1 DEF AbsorbedUnlinks
<1>6. ASSUME NEW i \in DOMAIN v, i > Len(unlinks)
      PROVE  v[i].cycle = ckptCtr /\ Has(p, UnlinkOf(v[i].rel))
    <2>1. CASE i = Len(u) + 1
        BY <1>3, <1>4, <2>1
    <2>2. CASE i \in DOMAIN u
        BY <1>3, <1>4, <1>6, <2>2 DEF AbsorbedUnlinks
    <2>. QED  BY <1>4, <2>1, <2>2
<1>7. ASSUME NEW r \in Rels, Once(p, r),
             NEW i \in DOMAIN v, NEW j \in DOMAIN v, i > Len(unlinks), j > Len(unlinks),
             v[i].rel = r, v[j].rel = r
      PROVE  i = j
    <2>1. Once(q, r)
        BY <1>2, <1>7 DEF Once
    <2>2. OnceAdded(u, r)
        BY <2>1 DEF AbsorbedUnlinks
    <2>3. ASSUME r = s PROVE ~Has(q, UnlinkOf(s))
        <3>1. ASSUME NEW k \in DOMAIN q, q[k] = UnlinkOf(s) PROVE FALSE
            <4>1. k \in DOMAIN p /\ Len(q) + 1 \in DOMAIN p /\ k # Len(q) + 1
                BY <1>2
            <4>2. p[k] = UnlinkOf(r) /\ p[Len(q) + 1] = UnlinkOf(r)
                BY <1>2, <2>3, <3>1
            <4>. QED  BY <1>7, <4>1, <4>2 DEF Once
        <3>. QED  BY <3>1 DEF Has
    <2>4. ASSUME NEW k \in DOMAIN u, k > Len(unlinks), u[k].rel = s, r = s PROVE FALSE
        BY <2>3, <2>4 DEF AbsorbedUnlinks
    <2>5. CASE i \in DOMAIN u /\ j \in DOMAIN u
        BY <1>4, <1>7, <2>2, <2>5 DEF OnceAdded
    <2>6. CASE i = Len(u) + 1 \/ j = Len(u) + 1
        <3>1. r = s
            BY <1>4, <1>7, <2>6
        <3>2. i \notin DOMAIN u /\ j \notin DOMAIN u
            BY <1>4, <1>7, <2>4, <3>1
        <3>. QED  BY <1>4, <3>2
    <2>. QED  BY <1>4, <2>5, <2>6
<1>8. \A r \in Rels : Once(p, r) => OnceAdded(v, r)
    BY <1>7 DEF OnceAdded
<1>9. Len(v) >= Len(unlinks)
    BY <1>4
<1>. QED  BY <1>4, <1>5, <1>6, <1>8, <1>9 DEF AbsorbedUnlinks, p

LEMMA UnlinksStay ==
    ASSUME NEW q \in Seq(Requests), NEW u, AbsorbedUnlinks(u, q), NEW x \in Requests
    PROVE  AbsorbedUnlinks(u, Append(q, x))
<1>1. \A i \in DOMAIN q : i \in DOMAIN Append(q, x) /\ Append(q, x)[i] = q[i]
    BY AppendProperties
<1>2. \A r \in Rels : Once(Append(q, x), r) => Once(q, r)
    BY <1>1 DEF Once
<1>3. \A r : Has(q, r) => Has(Append(q, x), r)
    BY AtEnd
<1>. QED  BY <1>2, <1>3 DEF AbsorbedUnlinks

LEMMA OpsStay ==
    ASSUME TypeInt, NEW q \in Seq(Requests), NEW o, AbsorbedOps(o, q), NEW s \in Rels
    PROVE  AbsorbedOps(o, Append(q, UnlinkOf(s)))
<1>. DEFINE r == Append(q, UnlinkOf(s))
<1>1. UnlinkOf(s) \in Requests
    BY DEF Requests
<1>2. \A f \in Files : /\ Has(r, FsyncOf(f)) <=> Has(q, FsyncOf(f))
                       /\ Has(r, ForgetOf(f)) <=> Has(q, ForgetOf(f))
                       /\ NotFollowed(r, FsyncOf(f), ForgetOf(f)) <=>
                            NotFollowed(q, FsyncOf(f), ForgetOf(f))
    BY <1>1, AtEnd, RequestsDiffer
<1>3. DOMAIN o = DOMAIN ops \union {f \in Files : Has(q, FsyncOf(f))}
    BY DEF AbsorbedOps
<1>. HIDE DEF r
<1>4. ASSUME NEW f \in DOMAIN o PROVE EntryAbsorbed(o, r, f)
    <2>1. f \in Files /\ EntryAbsorbed(o, q, f)
        BY <1>3 DEF AbsorbedOps, TypeInt, RequestTypes
    <2>. QED  BY <1>2, <2>1 DEF EntryAbsorbed, RequestedIn
<1>. QED  BY <1>2, <1>3, <1>4 DEF AbsorbedOps, r

LEMMA AbsorbsOneMore ==
    ASSUME TypeInt, NEW q \in Seq(Requests), NEW x \in Requests, NEW p, Absorbs(p, q)
    PROVE  Absorbs(RememberFsyncRequest(p, x), Append(q, x))
<1>. DEFINE d == RememberFsyncRequest(p, x)
            o == p.ops
            u == p.unlinks
<1>1. p = [ops |-> o, unlinks |-> u] /\ AbsorbedOps(o, q) /\ AbsorbedUnlinks(u, q)
    BY DEF Absorbs
<1>2. CASE \E f \in Files : x = FsyncOf(f)
    <2>1. PICK g \in Files : x = FsyncOf(g)
        BY <1>2
    <2>2. d = RememberFsync(p, g)
        BY <2>1 DEF RememberFsyncRequest, FsyncOf
    <2>3. d = [ops |-> IF g \in DOMAIN o /\ ~o[g].canceled THEN o
                      ELSE [h \in DOMAIN o \union {g} |->
                                IF h = g THEN [cycle |-> syncCtr, canceled |-> FALSE] ELSE o[h]],
               unlinks |-> u]
        BY <1>1, <2>2 DEF RememberFsync
    <2>4. d.ops = IF g \in DOMAIN o /\ ~o[g].canceled THEN o
                  ELSE [h \in DOMAIN o \union {g} |->
                            IF h = g THEN [cycle |-> syncCtr, canceled |-> FALSE] ELSE o[h]]
        BY <2>3
    <2>5. d = [ops |-> d.ops, unlinks |-> d.unlinks] /\ d.unlinks = u
        BY <2>3
    <2>. HIDE DEF d, o, u
    <2>6. AbsorbedOps(d.ops, Append(q, x))
        BY <1>1, <2>1, <2>4, FsyncRemembered
    <2>7. AbsorbedUnlinks(d.unlinks, Append(q, x))
        BY <1>1, <2>5, UnlinksStay
    <2>. QED  BY <2>5, <2>6, <2>7 DEF Absorbs, d
<1>3. CASE \E f \in Files : x = ForgetOf(f)
    <2>1. PICK g \in Files : x = ForgetOf(g)
        BY <1>3
    <2>2. d = RememberForget(p, g)
        BY <2>1 DEF RememberFsyncRequest, ForgetOf
    <2>3. d = [ops |-> [h \in DOMAIN o |-> [o[h] EXCEPT !.canceled = @ \/ h = g]],
               unlinks |-> u]
        BY <1>1, <2>2 DEF RememberForget
    <2>4. d.ops = [h \in DOMAIN o |-> [o[h] EXCEPT !.canceled = @ \/ h = g]]
        BY <2>3
    <2>5. d = [ops |-> d.ops, unlinks |-> d.unlinks] /\ d.unlinks = u
        BY <2>3
    <2>. HIDE DEF d, o, u
    <2>6. AbsorbedOps(d.ops, Append(q, x))
        BY <1>1, <2>1, <2>4, ForgetRemembered
    <2>7. AbsorbedUnlinks(d.unlinks, Append(q, x))
        BY <1>1, <2>5, UnlinksStay
    <2>. QED  BY <2>5, <2>6, <2>7 DEF Absorbs, d
<1>4. CASE \E r \in Rels : x = UnlinkOf(r)
    <2>1. PICK s \in Rels : x = UnlinkOf(s)
        BY <1>4
    <2>2. d = RememberUnlink(p, s)
        BY <2>1 DEF RememberFsyncRequest, UnlinkOf, Main
    <2>3. d = [ops |-> o, unlinks |-> Append(u, [rel |-> s, cycle |-> ckptCtr])]
        BY <1>1, <2>2 DEF RememberUnlink
    <2>4. d.unlinks = Append(u, [rel |-> s, cycle |-> ckptCtr])
        BY <2>3
    <2>5. d = [ops |-> d.ops, unlinks |-> d.unlinks] /\ d.ops = o
        BY <2>3
    <2>. HIDE DEF d, o, u
    <2>6. AbsorbedOps(d.ops, Append(q, x))
        BY <1>1, <2>1, <2>5, OpsStay
    <2>7. AbsorbedUnlinks(d.unlinks, Append(q, x))
        BY <1>1, <2>1, <2>4, UnlinkRemembered
    <2>. QED  BY <2>5, <2>6, <2>7 DEF Absorbs, d
<1>. QED  BY <1>2, <1>3, <1>4, RequestKinds

LEMMA AbsorbedKeeps ==
    ASSUME TypeInt
    PROVE  Absorbs(Absorbed, queue)
<1>. DEFINE n == Len(queue)
            First(k) == SubSeq(queue, 1, k)
<1>1. n \in Nat /\ queue \in Seq(Requests) /\ DOMAIN queue = 1 .. n
    BY DEF TypeInt, RequestTypes
<1>2. PICK a : /\ a[0] = Pending
               /\ \A k \in 0 .. n : k < n => a[k + 1] = RememberFsyncRequest(a[k], queue[k + 1])
               /\ a[n] = Absorbed
    BY AbsorbedIs
<1>. DEFINE T == {k \in 0 .. n : Absorbs(a[k], First(k))}
<1>3. 0 \in T
    <2>1. First(0) = <<>>
        BY <1>1
    <2>2. \A r : ~Has(<<>>, r)
        BY DEF Has
    <2>3. \A r, t : ~NotFollowed(<<>>, r, t)
        BY DEF NotFollowed
    <2>4. ops \in [DOMAIN ops -> Entries] /\ DOMAIN ops \subseteq Files
          /\ unlinks \in Seq([rel : Rels, cycle : Cycles])
        BY DEF TypeInt, RequestTypes
    <2>5. AbsorbedOps(ops, <<>>)
        BY <2>2, <2>3, <2>4 DEF AbsorbedOps, EntryAbsorbed, RequestedIn
    <2>6. AbsorbedUnlinks(unlinks, <<>>)
        <3>1. \A i \in DOMAIN unlinks : ~(i > Len(unlinks))
            BY <2>4
        <3>. QED  BY <2>4, <3>1 DEF AbsorbedUnlinks, OnceAdded
    <2>7. Absorbs(Pending, <<>>)
        BY <2>5, <2>6 DEF Absorbs, Pending
    <2>8. Absorbs(a[0], First(0))
        BY <1>2, <2>1, <2>7
    <2>. QED  BY <1>1, <2>8
<1>4. ASSUME NEW k \in 0 .. n, k < n, k \in T PROVE k + 1 \in T
    <2>1. queue[k + 1] \in Requests /\ k + 1 \in 0 .. n
        BY <1>1, <1>4
    <2>2. First(k + 1) = Append(First(k), queue[k + 1]) /\ First(k) \in Seq(Requests)
        BY <1>1, <1>4
    <2>3. Absorbs(a[k], First(k))
        BY <1>4
    <2>4. a[k + 1] = RememberFsyncRequest(a[k], queue[k + 1])
        BY <1>2, <1>4
    <2>. HIDE DEF First, n
    <2>5. Absorbs(a[k + 1], First(k + 1))
        BY <2>1, <2>2, <2>3, <2>4, AbsorbsOneMore
    <2>. QED  BY <2>1, <2>5
<1>5. n \in T
    <2>. HIDE DEF T, n
    <2>1. \A k \in 0 .. n : k \in T
        BY <1>1, <1>3, <1>4, Induction
    <2>. QED  BY <1>1, <2>1
<1>6. First(n) = queue
    BY <1>1
<1>. QED  BY <1>2, <1>5, <1>6

\* What a step does to the queue that puts x into it.
Forwarded(x) ==
    /\ queue' \in Seq(Requests) /\ Len(queue') <= MaxRequests
    /\ \A r \in Requests : Has(queue', r) <=> Has(queue, r) \/ r = x
    /\ \A r, t \in Requests : r # t =>
            (NotFollowed(queue', r, t) <=> (NotFollowed(queue, r, t) /\ x # t) \/ x = r)
    /\ \A s \in Rels : Once(queue, s) /\ (x = UnlinkOf(s) => ~Has(queue, x)) => Once(queue', s)

LEMMA OnceMore ==
    ASSUME NEW q \in Seq(Requests), NEW x \in Requests, NEW s \in Rels,
           Once(q, s), x = UnlinkOf(s) => ~Has(q, x)
    PROVE  Once(Append(q, x), s)
<1>1. /\ DOMAIN Append(q, x) = 1 .. Len(q) + 1 /\ DOMAIN q = 1 .. Len(q)
      /\ Len(q) \in Nat /\ Append(q, x)[Len(q) + 1] = x
      /\ \A i \in DOMAIN q : Append(q, x)[i] = q[i]
    BY AppendProperties
<1>2. ASSUME NEW i \in DOMAIN Append(q, x), NEW j \in DOMAIN Append(q, x),
             Append(q, x)[i] = UnlinkOf(s), Append(q, x)[j] = UnlinkOf(s)
      PROVE  i = j
    <2>1. CASE i \in DOMAIN q /\ j \in DOMAIN q
        BY <1>1, <1>2, <2>1 DEF Once
    <2>2. CASE i = Len(q) + 1 \/ j = Len(q) + 1
        <3>1. x = UnlinkOf(s) /\ ~Has(q, x)
            BY <1>1, <1>2, <2>2
        <3>2. i \notin DOMAIN q /\ j \notin DOMAIN q
            BY <1>1, <1>2, <3>1 DEF Has
        <3>. QED  BY <1>1, <3>2
    <2>. QED  BY <1>1, <2>1, <2>2
<1>. QED  BY <1>2 DEF Once

LEMMA ForwardIs ==
    ASSUME TypeInt, NEW type, NEW f \in Files, NEW x \in Requests,
           x = [type |-> type, file |-> f], ForwardFsyncRequest(type, f)
    PROVE  Forwarded(x)
<1>. DEFINE c == CompactBgwriterRequestQueue(queue)
<1>1. queue \in Seq(Requests) /\ Len(queue) \in Nat /\ Len(queue) <= MaxRequests
      /\ MaxRequests \in Nat
    BY ConstantsAssumption DEF TypeInt, RequestTypes
<1>2. Compacts(c, queue)
    BY CompactedKeeps
<1>. HIDE DEF c
<1>3. PICK q \in Seq(Requests) :
        /\ q = IF Len(queue) < MaxRequests THEN queue ELSE c
        /\ queue' = Append(q, x)
    BY <1>1, <1>2 DEF ForwardFsyncRequest, Compacts, c
<1>4. \A r \in Requests : Has(q, r) <=> Has(queue, r)
    BY <1>2, <1>3 DEF Compacts
<1>5. \A r, t \in Requests : r # t => (NotFollowed(q, r, t) <=> NotFollowed(queue, r, t))
    BY <1>2, <1>3 DEF Compacts
<1>6. Len(q) + 1 <= MaxRequests /\ Len(q) \in Nat
    <2>1. CASE Len(queue) < MaxRequests
        BY <1>1, <1>3, <2>1
    <2>2. CASE ~(Len(queue) < MaxRequests)
        <3>1. Len(c) < Len(queue) /\ q = c
            BY <1>3, <2>2 DEF ForwardFsyncRequest, Room, c
        <3>. QED  BY <1>1, <3>1
    <2>. QED  BY <2>1, <2>2
<1>7. queue' \in Seq(Requests) /\ Len(queue') = Len(q) + 1
    BY <1>3, AppendProperties
<1>8. /\ \A r \in Requests : Has(queue', r) <=> Has(queue, r) \/ r = x
      /\ \A r, t \in Requests : r # t =>
            (NotFollowed(queue', r, t) <=> (NotFollowed(queue, r, t) /\ x # t) \/ x = r)
    BY <1>3, <1>4, <1>5, AtEnd
<1>9. ASSUME NEW s \in Rels, Once(queue, s), x = UnlinkOf(s) => ~Has(queue, x)
      PROVE  Once(queue', s)
    <2>1. Once(q, s)
        <3>1. CASE q = queue
            BY <1>9, <3>1
        <3>2. CASE q = c
            BY <1>2, <3>2 DEF Compacts, Once
        <3>. QED  BY <1>3, <3>1, <3>2
    <2>. QED  BY <1>3, <1>4, <1>9, <2>1, OnceMore
<1>. QED  BY <1>6, <1>7, <1>8, <1>9 DEF Forwarded

\* The table after an absorption, and what is then still requested.
LEMMA AbsorbedTable ==
    ASSUME TypeInt, NEW o, o = Absorbed.ops
    PROVE  /\ DOMAIN o \subseteq Files /\ o \in [DOMAIN o -> Entries]
           /\ DOMAIN ops \subseteq DOMAIN o
           /\ \A f \in DOMAIN o : o[f].cycle # syncCtr => f \in DOMAIN ops
                                                       /\ o[f].cycle = ops[f].cycle
           /\ \A f \in DOMAIN ops : ~ops[f].canceled /\ ~Queued(ForgetOf(f)) => o[f] = ops[f]
           /\ \A f \in Files : (f \in DOMAIN o /\ ~o[f].canceled) <=> Requested(f)
<1>1. AbsorbedOps(o, queue)
    BY AbsorbedKeeps DEF Absorbs
<1>2. DOMAIN o = DOMAIN ops \union {f \in Files : Has(queue, FsyncOf(f))}
      /\ o \in [DOMAIN o -> Entries] /\ \A f \in DOMAIN o : EntryAbsorbed(o, queue, f)
    BY <1>1 DEF AbsorbedOps
<1>3. DOMAIN ops \subseteq Files
    BY DEF TypeInt, RequestTypes
<1>4. ASSUME NEW f \in Files PROVE (f \in DOMAIN o /\ ~o[f].canceled) <=> Requested(f)
    <2>1. Requested(f) => f \in DOMAIN o
        BY <1>2 DEF Requested, RequestedIn, NotFollowed, Has
    <2>. QED  BY <1>2, <2>1 DEF EntryAbsorbed, Requested
<1>5. \A f \in DOMAIN o : o[f].cycle # syncCtr => f \in DOMAIN ops /\ o[f].cycle = ops[f].cycle
    BY <1>2 DEF EntryAbsorbed
<1>6. \A f \in DOMAIN ops : ~ops[f].canceled /\ ~Queued(ForgetOf(f)) => o[f] = ops[f]
    BY <1>2 DEF EntryAbsorbed, Queued
<1>. QED  BY <1>2, <1>3, <1>4, <1>5, <1>6

LEMMA AbsorbedList ==
    ASSUME TypeInt, NEW u, u = Absorbed.unlinks
    PROVE  /\ u \in Seq([rel : Rels, cycle : Cycles])
           /\ \A i \in DOMAIN u : \/ i \in DOMAIN unlinks /\ u[i] = unlinks[i]
                                  \/ u[i].cycle = ckptCtr /\ Queued(UnlinkOf(u[i].rel))
           /\ \A r \in Rels : OneUnlink(r) =>
                \A i, j \in DOMAIN u : u[i].rel = r /\ u[j].rel = r => i = j
<1>1. AbsorbedUnlinks(u, queue)
    BY AbsorbedKeeps DEF Absorbs
<1>2. u \in Seq([rel : Rels, cycle : Cycles]) /\ Len(u) >= Len(unlinks)
      /\ \A i \in DOMAIN unlinks : u[i] = unlinks[i]
    BY <1>1 DEF AbsorbedUnlinks
<1>3. unlinks \in Seq([rel : Rels, cycle : Cycles])
    BY DEF TypeInt, RequestTypes
<1>4. /\ DOMAIN u = 1 .. Len(u) /\ DOMAIN unlinks = 1 .. Len(unlinks)
      /\ Len(u) \in Nat /\ Len(unlinks) \in Nat
    BY <1>2, <1>3
<1>5. \A i \in DOMAIN u : i \in DOMAIN unlinks \/ i > Len(unlinks)
    BY <1>4
<1>6. \A i \in DOMAIN u : \/ i \in DOMAIN unlinks /\ u[i] = unlinks[i]
                          \/ /\ i > Len(unlinks)
                             /\ u[i].cycle = ckptCtr /\ Has(queue, UnlinkOf(u[i].rel))
    BY <1>1, <1>2, <1>5 DEF AbsorbedUnlinks
<1>7. ASSUME NEW r \in Rels, OneUnlink(r), NEW i \in DOMAIN u, NEW j \in DOMAIN u,
             u[i].rel = r, u[j].rel = r
      PROVE  i = j
    <2>1. OnceAdded(u, r)
        BY <1>1, <1>7 DEF AbsorbedUnlinks, OneUnlink
    <2>2. CASE i > Len(unlinks) /\ j > Len(unlinks)
        BY <1>7, <2>1, <2>2 DEF OnceAdded
    <2>3. CASE i \in DOMAIN unlinks /\ j \in DOMAIN unlinks
        BY <1>2, <1>7, <2>3 DEF OneUnlink
    <2>4. ASSUME NEW k \in DOMAIN unlinks, NEW l \in DOMAIN u, l > Len(unlinks),
                 u[k].rel = r, u[l].rel = r
          PROVE  FALSE
        <3>1. Has(queue, UnlinkOf(r))
            BY <1>4, <1>6, <2>4
        <3>2. unlinks[k].rel = r
            BY <1>2, <2>4
        <3>. QED  BY <1>7, <3>1, <3>2 DEF OneUnlink, Queued
    <2>. QED  BY <1>5, <1>7, <2>2, <2>3, <2>4
<1>8. \A i \in DOMAIN u : \/ i \in DOMAIN unlinks /\ u[i] = unlinks[i]
                          \/ u[i].cycle = ckptCtr /\ Queued(UnlinkOf(u[i].rel))
    BY <1>6 DEF Queued
<1>9. \A r \in Rels : OneUnlink(r) =>
            \A i, j \in DOMAIN u : u[i].rel = r /\ u[j].rel = r => i = j
    BY <1>7
<1>. QED  BY <1>2, <1>8, <1>9

\* The entries of unlinks that mdpostckpt takes.
LEMMA OldUnlinksIs ==
    ASSUME TypeInt
    PROVE  /\ OldUnlinks \in 0 .. Len(unlinks)
           /\ \A i \in 1 .. OldUnlinks : unlinks[i].cycle # ckptCtr
<1>. DEFINE T == {n \in 0 .. Len(unlinks) : \A i \in 1 .. n : unlinks[i].cycle # ckptCtr}
<1>1. Len(unlinks) \in Nat
    BY DEF TypeInt, RequestTypes
<1>2. T \in SUBSET Nat /\ 0 \in T /\ \A n \in T : n <= Len(unlinks)
    BY <1>1
<1>3. Max(T) \in T
    <2>. HIDE DEF T
    <2>. QED  BY <1>1, <1>2, MaxIsGreatest
<1>. QED  BY <1>3 DEF OldUnlinks

-----------------------------------------------------------------------------
(***************************************************************************)
(* Steps and types                                                         *)
(***************************************************************************)

LEMMA NextSplits ==
    [Next]_vars <=>
        \/ \E f \in Files :
            \/ Modify(f) \/ BackendWrite(f) \/ BackendWritten(f)
            \/ BgBufferSync(f) \/ SyncOneBuffer(f) \/ SyncFile(f) \/ SyncMissing(f)
        \/ \E r \in Rels :
            \/ Create(r) \/ DropRelation(r) \/ DropMainBuffers(r) \/ ForgetMain(r)
            \/ RegisterUnlink(r) \/ DropForkBuffers(r) \/ ForgetFork(r) \/ UnlinkFork(r)
        \/ \E q \in Requesters :
            RequestCheckpoint(q) \/ CheckpointStarted(q) \/ CheckpointDone(q)
        \/ BgAbsorb \/ BeginCheckpoint \/ CheckpointFails \/ PrepareCheckpoint
        \/ MarkBuffers \/ BeginSync \/ CompleteCheckpoint \/ FinishCheckpoint
        \/ UNCHANGED vars
BY DEF Next, BgStep, DropStep

LEMMA MainIsFile ==
    /\ \A r \in Rels : Main(r) \in Files /\ Main(r)[1] = r
    /\ \A r \in Forked : <<r, "fsm">> \in Files /\ r \in Rels
    /\ \A r, s : Main(r) # <<s, "fsm">> /\ (Main(r) = Main(s) => r = s)
    /\ \A f \in Files : f[1] \in Rels /\ f = <<f[1], f[2]>> /\ Main(f[1]) \in Files
    /\ \A f \in Files : f = Main(f[1]) \/ (f[1] \in Forked /\ f = <<f[1], "fsm">>)
BY ConstantsAssumption DEF Main, Files

\* Table d is o with an fsync of f remembered.
WithFsync(d, o, f) ==
    /\ DOMAIN d = DOMAIN o \union {f} /\ d \in [DOMAIN d -> Entries]
    /\ ~d[f].canceled
    /\ \A g \in DOMAIN o : g # f => d[g] = o[g]
    /\ d[f].cycle # syncCtr => f \in DOMAIN o /\ d[f] = o[f]
    /\ f \in DOMAIN o /\ ~o[f].canceled => d[f] = o[f]

LEMMA RememberedFsync ==
    ASSUME TypeInt, NEW o, o \in [DOMAIN o -> Entries], DOMAIN o \subseteq Files,
           NEW f \in Files, NEW u, NEW p, p = [ops |-> o, unlinks |-> u]
    PROVE  WithFsync(RememberFsync(p, f).ops, o, f)
<1>. DEFINE d == RememberFsync(p, f).ops
<1>1. syncCtr \in Cycles
    BY DEF TypeInt, RequestTypes
<1>2. CASE f \in DOMAIN o /\ ~o[f].canceled
    <2>1. d = o
        BY <1>2 DEF RememberFsync
    <2>. HIDE DEF d
    <2>2. WithFsync(d, o, f)
        BY <1>2, <2>1 DEF WithFsync
    <2>. QED  BY <2>2 DEF d
<1>3. CASE ~(f \in DOMAIN o /\ ~o[f].canceled)
    <2>1. d = [g \in DOMAIN o \union {f} |->
                    IF g = f THEN [cycle |-> syncCtr, canceled |-> FALSE] ELSE o[g]]
        BY <1>3 DEF RememberFsync
    <2>2. d[f] = [cycle |-> syncCtr, canceled |-> FALSE]
        BY <2>1
    <2>3. [cycle |-> syncCtr, canceled |-> FALSE] \in Entries
        BY <1>1 DEF Entries
    <2>4. DOMAIN d = DOMAIN o \union {f} /\ d \in [DOMAIN d -> Entries]
        BY <2>1, <2>3
    <2>5. \A g \in DOMAIN o : g # f => d[g] = o[g]
        BY <2>1
    <2>6. ~d[f].canceled /\ d[f].cycle = syncCtr
        BY <2>2
    <2>. HIDE DEF d
    <2>7. WithFsync(d, o, f)
        BY <1>3, <2>4, <2>5, <2>6 DEF WithFsync
    <2>. QED  BY <2>7 DEF d
<1>. QED  BY <1>2, <1>3

\* The table after the background writer has written a page of f, from the
\* table p with or without the queue absorbed.
LEMMA FlushedTable ==
    ASSUME TypeInt, NEW f \in Files, NEW p, p = Pending \/ p = Absorbed, BgFlush(f, p),
           NEW o, o = p.ops
    PROVE  /\ DOMAIN o \subseteq Files /\ o \in [DOMAIN o -> Entries]
           /\ WithFsync(ops', o, f)
<1>1. ops' = RememberFsync(p, f).ops
    BY DEF BgFlush
<1>2. DOMAIN o \subseteq Files /\ o \in [DOMAIN o -> Entries]
    BY AbsorbedTable DEF TypeInt, RequestTypes, Pending
<1>3. p = [ops |-> o, unlinks |-> p.unlinks]
    BY AbsorbedKeeps DEF Absorbs, Pending
<1>. QED  BY <1>1, <1>2, <1>3, RememberedFsync

\* With the queue empty, the table says what is requested.
LEMMA QueueEmptied ==
    ASSUME TypeInt, queue' = <<>>, NEW f \in Files
    PROVE  Requested(f)' <=> f \in DOMAIN ops' /\ ~ops'[f].canceled
BY DEF Requested, RequestedIn, NotFollowed, Has

LEMMA CountTypes ==
    ASSUME FileTypes, NEW o \in Observers, Count(o)
    PROVE  /\ unwritten' \subseteq Observers \X Permanent
           /\ unfsynced' \subseteq Observers \X Permanent
<1>1. \A x \in unwritten' : x \in unwritten \/ \E f \in Permanent : x = <<o, f>>
    BY DEF Count
<1>2. \A x \in unfsynced' : x \in unfsynced \/ \E f \in Permanent : x = <<o, f>>
    BY DEF Count
<1>3. unwritten \subseteq Observers \X Permanent /\ unfsynced \subseteq Observers \X Permanent
    BY DEF FileTypes
<1>4. \A f \in Permanent : <<o, f>> \in Observers \X Permanent
    OBVIOUS
<1>5. ASSUME NEW x \in unwritten' PROVE x \in Observers \X Permanent
    BY <1>1, <1>3, <1>4
<1>6. ASSUME NEW x \in unfsynced' PROVE x \in Observers \X Permanent
    BY <1>2, <1>3, <1>4
<1>. QED  BY <1>5, <1>6

LEMMA FileTypesStep == TypeInt /\ [Next]_vars => FileTypes'
<1>. SUFFICES ASSUME TypeInt, [Next]_vars PROVE FileTypes'
    OBVIOUS
<1>0. FileTypes
    BY DEF TypeInt
<1>2. ASSUME UNCHANGED <<fileVars, bufVars, unsynced, fd, owedVars, replayVars>> PROVE FileTypes'
    BY <1>0, <1>2 DEF FileTypes, fileVars, bufVars, owedVars, replayVars
<1>3. ASSUME NEW f \in Files, Modify(f) \/ BackendWrite(f) \/ BackendWritten(f) PROVE FileTypes'
    BY <1>0, <1>3 DEF Modify, BackendWrite, BackendWritten, Write, Fsync, FileTypes, fileVars,
        owedVars, replayVars
<1>4. ASSUME NEW f \in Files, NEW p, BgFlush(f, p) PROVE FileTypes'
    BY <1>0, <1>4 DEF BgFlush, Write, FileTypes, fileVars, replayVars
<1>5. ASSUME NEW f \in Files, SyncFile(f) \/ SyncMissing(f) PROVE FileTypes'
    BY <1>0, <1>5 DEF SyncFile, SyncMissing, Fsync, FileTypes, fileVars, bufVars, owedVars,
        replayVars
<1>6. ASSUME NEW r \in Rels, Create(r) \/ DropRelation(r) PROVE FileTypes'
    BY <1>0, <1>6 DEF Create, DropRelation, FileTypes, fileVars, bufVars, owedVars, replayVars
<1>7. ASSUME NEW r \in Rels, DropMainBuffers(r) \/ DropForkBuffers(r) PROVE FileTypes'
    BY <1>0, <1>7 DEF DropMainBuffers, DropForkBuffers, DropBuffers, FileTypes, replayVars
<1>8. ASSUME NEW r \in Rels, ForgetMain(r) \/ RegisterUnlink(r) \/ ForgetFork(r) PROVE FileTypes'
    BY <1>0, <1>8 DEF ForgetMain, RegisterUnlink, ForgetFork, FileTypes, bufVars, owedVars,
        replayVars
<1>9. ASSUME NEW gone, Removed(gone)
      PROVE  /\ file' \in [Files -> {"live", "dropped", "none", "retired"}]
             /\ fd' \in [Files -> {"closed", "open", "stale"}]
    BY <1>0, <1>9 DEF Removed, FileTypes
<1>10. ASSUME NEW r \in Rels, UnlinkFork(r) PROVE FileTypes'
    BY <1>0, <1>9, <1>10 DEF UnlinkFork, FileTypes, bufVars, owedVars, replayVars
<1>11. ASSUME NEW q \in Requesters,
              RequestCheckpoint(q) \/ CheckpointStarted(q) \/ CheckpointDone(q)
       PROVE  FileTypes'
    <2>1. Count(q) => /\ unwritten' \subseteq Observers \X Permanent
                      /\ unfsynced' \subseteq Observers \X Permanent
        BY <1>0, CountTypes DEF Observers
    <2>. QED  BY <1>0, <1>11, <2>1 DEF RequestCheckpoint, CheckpointStarted, CheckpointDone,
                FileTypes, fileVars, bufVars, owedVars, replayVars
<1>12. ASSUME PrepareCheckpoint PROVE FileTypes'
    <2>1. Count("ckpt") => /\ unwritten' \subseteq Observers \X Permanent
                           /\ unfsynced' \subseteq Observers \X Permanent
        BY <1>0, CountTypes DEF Observers
    <2>. QED  BY <1>0, <1>12, <2>1 DEF PrepareCheckpoint, FileTypes, fileVars, bufVars, owedVars
<1>13. ASSUME BgAbsorb \/ BeginCheckpoint \/ BeginSync PROVE FileTypes'
    BY <1>2, <1>13 DEF BgAbsorb, BeginCheckpoint, BeginSync
<1>14. ASSUME CheckpointFails \/ MarkBuffers \/ FinishCheckpoint PROVE FileTypes'
    BY <1>0, <1>14 DEF CheckpointFails, MarkBuffers, FinishCheckpoint, CloseAll, FileTypes,
        fileVars, bufVars, owedVars, replayVars
<1>15. ASSUME CompleteCheckpoint PROVE FileTypes'
    BY <1>0, <1>9, <1>15 DEF CompleteCheckpoint, FileTypes, bufVars, owedVars
<1>16. CASE UNCHANGED vars
    BY <1>2, <1>16 DEF vars
<1>. QED
    BY <1>3, <1>4, <1>5, <1>6, <1>7, <1>8, <1>10, <1>11, <1>12, <1>13, <1>14, <1>15, <1>16,
       NextSplits DEF BgBufferSync, SyncOneBuffer

\* The steps that put a request into the queue.
LEMMA ForwardSteps ==
    ASSUME TypeInt
    PROVE  /\ \A f \in Files : BackendWritten(f) /\ queue' # queue => Forwarded(FsyncOf(f))
           /\ \A r \in Rels : ForgetMain(r) => Forwarded(ForgetOf(Main(r)))
           /\ \A r \in Rels : RegisterUnlink(r) => Forwarded(UnlinkOf(r))
           /\ \A r \in Forked : ForgetFork(r) => Forwarded(ForgetOf(<<r, "fsm">>))
<1>1. ASSUME NEW f \in Files, BackendWritten(f), queue' # queue PROVE Forwarded(FsyncOf(f))
    <2>1. ForwardFsyncRequest("fsync", f) /\ FsyncOf(f) \in Requests
        BY <1>1 DEF BackendWritten, Requests
    <2>. QED  BY <2>1, ForwardIs DEF FsyncOf
<1>2. ASSUME NEW r \in Rels, ForgetMain(r) PROVE Forwarded(ForgetOf(Main(r)))
    <2>1. ForwardFsyncRequest("forget", Main(r)) /\ ForgetOf(Main(r)) \in Requests
          /\ Main(r) \in Files
        BY <1>2, MainIsFile DEF ForgetMain, Requests
    <2>. QED  BY <2>1, ForwardIs DEF ForgetOf
<1>3. ASSUME NEW r \in Rels, RegisterUnlink(r) PROVE Forwarded(UnlinkOf(r))
    <2>1. ForwardFsyncRequest("unlink", Main(r)) /\ UnlinkOf(r) \in Requests
          /\ Main(r) \in Files
        BY <1>3, MainIsFile DEF RegisterUnlink, Requests
    <2>. QED  BY <2>1, ForwardIs DEF UnlinkOf
<1>4. ASSUME NEW r \in Forked, ForgetFork(r) PROVE Forwarded(ForgetOf(<<r, "fsm">>))
    <2>1. ForwardFsyncRequest("forget", <<r, "fsm">>) /\ <<r, "fsm">> \in Files
          /\ ForgetOf(<<r, "fsm">>) \in Requests
        BY <1>4, MainIsFile DEF ForgetFork, Requests
    <2>. QED  BY <2>1, ForwardIs DEF ForgetOf
<1>. QED  BY <1>1, <1>2, <1>3, <1>4

LEMMA RequestTypesStep == TypeInt /\ DropInv /\ [Next]_vars => RequestTypes'
<1>. SUFFICES ASSUME TypeInt, DropInv, [Next]_vars PROVE RequestTypes'
    OBVIOUS
<1>0. RequestTypes
    BY DEF TypeInt
<1>1. <<>> \in Seq(Requests) /\ Len(<<>>) <= MaxRequests
    BY ConstantsAssumption
<1>2. ASSUME UNCHANGED <<queue, ops, unlinks, syncCtr, ckptCtr>> PROVE RequestTypes'
    BY <1>0, <1>2 DEF RequestTypes
<1>3. ASSUME NEW x, Forwarded(x), UNCHANGED mdVars PROVE RequestTypes'
    BY <1>0, <1>3 DEF RequestTypes, Forwarded, mdVars
<1>4. /\ DOMAIN Absorbed.ops \subseteq Files /\ Absorbed.ops \in [DOMAIN Absorbed.ops -> Entries]
      /\ Absorbed.unlinks \in Seq([rel : Rels, cycle : Cycles])
    BY AbsorbedTable, AbsorbedList
<1>5. ASSUME AbsorbFsyncRequests, UNCHANGED <<syncCtr, ckptCtr>> PROVE RequestTypes'
    BY <1>0, <1>1, <1>4, <1>5 DEF RequestTypes, AbsorbFsyncRequests
<1>6. ASSUME NEW f \in Files, Modify(f) \/ BackendWrite(f) PROVE RequestTypes'
    BY <1>2, <1>6 DEF Modify, BackendWrite, mdVars
<1>7. ASSUME NEW f \in Files, BackendWritten(f) PROVE RequestTypes'
    <2>1. UNCHANGED mdVars
        BY <1>7 DEF BackendWritten
    <2>. QED  BY <1>2, <1>3, <1>7, <2>1, ForwardSteps DEF mdVars
<1>8. ASSUME NEW f \in Files, BgBufferSync(f) \/ SyncOneBuffer(f) PROVE RequestTypes'
    <2>1. PICK p : /\ BgFlush(f, p) /\ (p = Pending \/ p = Absorbed)
                   /\ queue' = queue \/ queue' = <<>>
        BY <1>8 DEF BgBufferSync, SyncOneBuffer
    <2>2. WithFsync(ops', p.ops, f) /\ DOMAIN p.ops \subseteq Files
        BY <2>1, FlushedTable
    <2>3. unlinks' = p.unlinks /\ UNCHANGED <<syncCtr, ckptCtr>>
        BY <2>1 DEF BgFlush
    <2>4. unlinks' \in Seq([rel : Rels, cycle : Cycles])
        BY <1>0, <1>4, <2>1, <2>3 DEF Pending, RequestTypes
    <2>5. queue' \in Seq(Requests) /\ Len(queue') <= MaxRequests
        BY <1>0, <1>1, <2>1 DEF RequestTypes
    <2>. QED  BY <1>0, <2>2, <2>3, <2>4, <2>5 DEF RequestTypes, WithFsync
<1>9. ASSUME NEW f \in Files, SyncFile(f) PROVE RequestTypes'
    <2>1. /\ UNCHANGED <<queue, unlinks, syncCtr, ckptCtr>>
          /\ ops' = [g \in DOMAIN ops \ {f} |-> ops[g]]
        BY <1>9 DEF SyncFile, Done, Restrict
    <2>. QED  BY <1>0, <2>1 DEF RequestTypes
<1>10. ASSUME NEW f \in Files, SyncMissing(f) PROVE RequestTypes'
    <2>1. /\ queue' = <<>> /\ unlinks' = Absorbed.unlinks
          /\ UNCHANGED <<syncCtr, ckptCtr>>
          /\ \/ ops' = Absorbed.ops
             \/ ops' = [g \in DOMAIN Absorbed.ops \ {f} |-> Absorbed.ops[g]]
        BY <1>10 DEF SyncMissing, Done, Restrict
    <2>. QED  BY <1>0, <1>1, <1>4, <2>1 DEF RequestTypes
<1>11. ASSUME NEW r \in Rels,
              \/ Create(r) \/ DropRelation(r) \/ DropMainBuffers(r)
              \/ DropForkBuffers(r) \/ UnlinkFork(r)
       PROVE  RequestTypes'
    BY <1>2, <1>11 DEF Create, DropRelation, DropMainBuffers, DropForkBuffers, DropBuffers,
        UnlinkFork, mdVars
<1>12. ASSUME NEW r \in Rels, ForgetMain(r) \/ RegisterUnlink(r) \/ ForgetFork(r)
       PROVE  RequestTypes'
    <2>1. ForgetFork(r) => r \in Forked
        BY DEF ForgetFork, DropInv, Dropping
    <2>2. UNCHANGED mdVars
        BY <1>12 DEF ForgetMain, RegisterUnlink, ForgetFork
    <2>. QED  BY <1>3, <1>12, <2>1, <2>2, ForwardSteps
<1>13. ASSUME NEW q \in Requesters,
              RequestCheckpoint(q) \/ CheckpointStarted(q) \/ CheckpointDone(q)
       PROVE  RequestTypes'
    BY <1>2, <1>13 DEF RequestCheckpoint, CheckpointStarted, CheckpointDone, mdVars
<1>14. ASSUME BgAbsorb \/ BeginCheckpoint PROVE RequestTypes'
    BY <1>5, <1>14 DEF BgAbsorb, BeginCheckpoint
<1>15. ASSUME CheckpointFails \/ MarkBuffers \/ FinishCheckpoint PROVE RequestTypes'
    BY <1>2, <1>15 DEF CheckpointFails, MarkBuffers, FinishCheckpoint, mdVars
<1>16. CycleModulus \in Nat \ {0} /\ \A c \in Cycles : (c + 1) % CycleModulus \in Cycles
    BY ConstantsAssumption, SuccessorIs DEF Cycles
<1>17. ASSUME PrepareCheckpoint PROVE RequestTypes'
    <2>1. /\ unlinks' = [i \in DOMAIN unlinks |-> [unlinks[i] EXCEPT !.cycle = ckptCtr]]
          /\ ckptCtr' = (ckptCtr + 1) % CycleModulus
          /\ UNCHANGED <<queue, ops, syncCtr>>
        BY <1>17 DEF PrepareCheckpoint
    <2>2. unlinks \in Seq([rel : Rels, cycle : Cycles]) /\ ckptCtr \in Cycles
        BY <1>0 DEF RequestTypes
    <2>3. ASSUME NEW i \in DOMAIN unlinks
          PROVE  [unlinks[i] EXCEPT !.cycle = ckptCtr] \in [rel : Rels, cycle : Cycles]
        <3>1. i \in 1 .. Len(unlinks)
            BY <2>2
        <3>2. unlinks[i] \in [rel : Rels, cycle : Cycles]
            BY <2>2, <3>1, ElementOfSeq
        <3>. QED  BY <2>2, <3>2
    <2>4. DOMAIN unlinks = 1 .. Len(unlinks) /\ Len(unlinks) \in Nat
        BY <2>2
    <2>5. unlinks' \in [1 .. Len(unlinks) -> [rel : Rels, cycle : Cycles]]
        BY <2>1, <2>3, <2>4
    <2>6. unlinks' \in Seq([rel : Rels, cycle : Cycles])
        BY <2>4, <2>5, SeqDef, ZenonT(60)
    <2>. QED  BY <1>0, <1>16, <2>1, <2>6 DEF RequestTypes
<1>18. ASSUME BeginSync PROVE RequestTypes'
    <2>. DEFINE o == Absorbed.ops
    <2>1. /\ queue' = <<>> /\ unlinks' = Absorbed.unlinks
          /\ ops' = [f \in DOMAIN o |-> [o[f] EXCEPT !.cycle = IF syncBusy THEN syncCtr ELSE @]]
          /\ syncCtr' = (syncCtr + 1) % CycleModulus /\ ckptCtr' = ckptCtr
        BY <1>18 DEF BeginSync
    <2>. HIDE DEF o
    <2>2. ops' \in [DOMAIN ops' -> Entries] /\ DOMAIN ops' \subseteq Files
        <3>1. ASSUME NEW f \in DOMAIN o PROVE ops'[f] \in Entries
            <4>1. o[f] \in Entries /\ syncCtr \in Cycles
                BY <1>0, <1>4 DEF o, RequestTypes
            <4>2. ops'[f] = [o[f] EXCEPT !.cycle = IF syncBusy THEN syncCtr ELSE o[f].cycle]
                BY <2>1
            <4>. QED  BY <4>1, <4>2 DEF Entries
        <3>. QED  BY <1>4, <2>1, <3>1 DEF o
    <2>. QED  BY <1>0, <1>1, <1>4, <1>16, <2>1, <2>2 DEF RequestTypes
<1>19. ASSUME CompleteCheckpoint PROVE RequestTypes'
    <2>1. /\ unlinks' = SubSeq(unlinks, OldUnlinks + 1, Len(unlinks))
          /\ UNCHANGED <<queue, ops, syncCtr, ckptCtr>>
        BY <1>19 DEF CompleteCheckpoint
    <2>2. unlinks' \in Seq([rel : Rels, cycle : Cycles])
        <3>1. OldUnlinks \in 0 .. Len(unlinks) /\ unlinks \in Seq([rel : Rels, cycle : Cycles])
              /\ Len(unlinks) \in Nat
            BY <1>0, OldUnlinksIs DEF RequestTypes
        <3>2. \A i \in OldUnlinks + 1 .. Len(unlinks) : i \in 1 .. Len(unlinks)
            BY <3>1
        <3>3. \A i \in OldUnlinks + 1 .. Len(unlinks) : unlinks[i] \in [rel : Rels, cycle : Cycles]
            BY <3>1, <3>2, ElementOfSeq
        <3>. HIDE DEF OldUnlinks
        <3>. QED  BY <2>1, <3>1, <3>3, SubSeqProperties
    <2>. QED  BY <1>0, <2>1, <2>2 DEF RequestTypes
<1>20. CASE UNCHANGED vars
    BY <1>2, <1>20 DEF vars, mdVars
<1>. QED
    BY <1>6, <1>7, <1>8, <1>9, <1>10, <1>11, <1>12, <1>13, <1>14, <1>15, <1>17, <1>18,
       <1>19, <1>20, NextSplits

LEMMA ControlTypesStep == TypeInt /\ [Next]_vars => ControlTypes'
<1>. SUFFICES ASSUME TypeInt, [Next]_vars PROVE ControlTypes'
    OBVIOUS
<1>0. ControlTypes
    BY DEF TypeInt
<1>1. ASSUME UNCHANGED <<ctrVars, forced, syncBusy, walVars, at, req>> PROVE ControlTypes'
    BY <1>0, <1>1 DEF ControlTypes, ctrVars, walVars
<1>2. \A c \in Counters : Plus1(c) \in Counters
    BY ConstantsAssumption, SuccessorIs DEF Counters, Plus1
<1>3. 0 \in Counters
    BY ConstantsAssumption DEF Counters
<1>4. ASSUME NEW f \in Files,
             \/ BackendWrite(f) \/ BackendWritten(f) \/ BgBufferSync(f)
             \/ SyncOneBuffer(f) \/ SyncFile(f) \/ SyncMissing(f)
      PROVE  ControlTypes'
    BY <1>1, <1>4 DEF BackendWrite, BackendWritten, BgBufferSync, SyncOneBuffer, BgFlush,
        SyncFile, SyncMissing, mdVars
<1>5. ASSUME NEW f \in Files, Modify(f) PROVE ControlTypes'
    <2>1. logged' \in BOOLEAN /\ quiet' \in BOOLEAN
        BY <1>0, <1>5 DEF Modify, ControlTypes
    <2>. QED  BY <1>0, <1>5, <2>1 DEF Modify, ControlTypes, ctrVars, mdVars
<1>6. ASSUME NEW r \in Rels,
             \/ Create(r) \/ DropMainBuffers(r) \/ ForgetMain(r)
             \/ RegisterUnlink(r) \/ DropForkBuffers(r) \/ ForgetFork(r) \/ UnlinkFork(r)
      PROVE  ControlTypes'
    BY <1>1, <1>6 DEF Create, DropMainBuffers, ForgetMain, RegisterUnlink,
        DropForkBuffers, DropBuffers, ForgetFork, UnlinkFork, mdVars
<1>7. ASSUME NEW r \in Rels, DropRelation(r) PROVE ControlTypes'
    BY <1>0, <1>7 DEF DropRelation, ControlTypes, ctrVars, mdVars
<1>8. ASSUME NEW q \in Requesters, RequestCheckpoint(q) PROVE ControlTypes'
    BY <1>0, <1>3, <1>8 DEF RequestCheckpoint, ControlTypes, mdVars, walVars
<1>9. ASSUME NEW q \in Requesters, CheckpointStarted(q) PROVE ControlTypes'
    BY <1>0, <1>9 DEF CheckpointStarted, ControlTypes, ctrVars, mdVars, walVars
<1>10. ASSUME NEW q \in Requesters, CheckpointDone(q) PROVE ControlTypes'
    BY <1>0, <1>3, <1>10 DEF CheckpointDone, IdleRequest, ControlTypes, ctrVars, mdVars, walVars
<1>11. ASSUME BgAbsorb PROVE ControlTypes'
    BY <1>1, <1>11 DEF BgAbsorb
<1>12. ASSUME BeginCheckpoint PROVE ControlTypes'
    BY <1>0, <1>2, <1>12 DEF BeginCheckpoint, ControlTypes, walVars
<1>13. ASSUME CheckpointFails PROVE ControlTypes'
    BY <1>0, <1>2, <1>13 DEF CheckpointFails, ControlTypes, walVars
<1>14. ASSUME PrepareCheckpoint PROVE ControlTypes'
    BY <1>0, <1>14 DEF PrepareCheckpoint, ControlTypes, ctrVars
<1>15. ASSUME MarkBuffers PROVE ControlTypes'
    BY <1>0, <1>15 DEF MarkBuffers, ControlTypes, ctrVars, mdVars, walVars
<1>16. ASSUME BeginSync PROVE ControlTypes'
    BY <1>0, <1>16 DEF BeginSync, ControlTypes, ctrVars, walVars
<1>17. ASSUME CompleteCheckpoint PROVE ControlTypes'
    <2>1. quiet' \in BOOLEAN
        BY <1>0, <1>17 DEF CompleteCheckpoint, ControlTypes
    <2>. QED  BY <1>0, <1>17, <2>1 DEF CompleteCheckpoint, ControlTypes, ctrVars
<1>18. ASSUME FinishCheckpoint PROVE ControlTypes'
    BY <1>0, <1>18 DEF FinishCheckpoint, ControlTypes, mdVars, walVars
<1>19. CASE UNCHANGED vars
    BY <1>1, <1>19 DEF vars, mdVars
<1>. QED
    BY <1>4, <1>5, <1>6, <1>7, <1>8, <1>9, <1>10, <1>11, <1>12, <1>13, <1>14, <1>15, <1>16,
       <1>17, <1>18, <1>19, NextSplits

-----------------------------------------------------------------------------
(***************************************************************************)
(* Files, buffers and drops                                                *)
(***************************************************************************)

LEMMA OwedIsOf ==
    ASSUME TypeInt, NEW x \in unwritten \union unfsynced
    PROVE  x[2] \in Files /\ x = <<x[1], x[2]>> /\ x \in Of(x[2])
BY DEF TypeInt, FileTypes, Permanent, Of

LEMMA UnlinkTypes ==
    ASSUME TypeInt
    PROVE  /\ DOMAIN unlinks = 1 .. Len(unlinks) /\ Len(unlinks) \in Nat
           /\ \A i \in DOMAIN unlinks : unlinks[i].rel \in Rels /\ unlinks[i].cycle \in Cycles
<1>1. unlinks \in Seq([rel : Rels, cycle : Cycles])
    BY DEF TypeInt, RequestTypes
<1>2. DOMAIN unlinks = 1 .. Len(unlinks) /\ Len(unlinks) \in Nat
    BY <1>1
<1>3. ASSUME NEW i \in DOMAIN unlinks PROVE unlinks[i].rel \in Rels /\ unlinks[i].cycle \in Cycles
    <2>1. unlinks[i] \in [rel : Rels, cycle : Cycles]
        BY <1>1, <1>2, ElementOfSeq
    <2>. QED  BY <2>1
<1>. QED  BY <1>2, <1>3

\* The files that go when a checkpoint is complete are those of dropped
\* relations.
LEMMA OldAreDropped ==
    ASSUME TypeInt, UnlinkInv, NEW f \in {Main(unlinks[i].rel) : i \in 1 .. OldUnlinks}
    PROVE  /\ f \in Files /\ f = Main(f[1]) /\ file[f] = "dropped"
           /\ drop[f[1]] \notin {"mainBuffers", "mainForget", "mainUnlink"}
           /\ \E i \in DOMAIN unlinks : unlinks[i].rel = f[1] /\ unlinks[i].cycle # ckptCtr
<1>1. PICK i \in 1 .. OldUnlinks : f = Main(unlinks[i].rel)
    OBVIOUS
<1>2. unlinks \in Seq([rel : Rels, cycle : Cycles]) /\ Len(unlinks) \in Nat
    BY DEF TypeInt, RequestTypes
<1>3. i \in DOMAIN unlinks /\ unlinks[i].cycle # ckptCtr
    BY <1>2, OldUnlinksIs
<1>4. unlinks[i].rel \in Rels
    BY <1>3, UnlinkTypes
<1>5. f[1] = unlinks[i].rel /\ f \in Files
    BY <1>1, <1>4, MainIsFile
<1>. QED  BY <1>1, <1>3, <1>4, <1>5 DEF UnlinkInv, OneUnlink, Unlinking

LEMMA BufferInvStep ==
    TypeInt /\ BufferInv /\ DropInv /\ UnlinkInv /\ [Next]_vars => BufferInv'
<1>. SUFFICES ASSUME TypeInt, BufferInv, DropInv, UnlinkInv, [Next]_vars PROVE BufferInv'
    OBVIOUS
<1>0. /\ FileTypes
      /\ \A x \in unwritten \union unfsynced : x[2] \in Files /\ x = <<x[1], x[2]>> /\ x \in Of(x[2])
    BY OwedIsOf DEF TypeInt
<1>1. ASSUME UNCHANGED <<file, bufVars, unsynced, owedVars>> PROVE BufferInv'
    BY <1>1 DEF BufferInv, bufVars, owedVars
<1>2. ASSUME NEW f \in Files, Modify(f) PROVE BufferInv'
    BY <1>2 DEF Modify, BufferInv, fileVars, owedVars
<1>3. ASSUME NEW f \in Files, Write(f) , f \in dirty, f \notin io
      PROVE  /\ dirty' = dirty \ {f} /\ unsynced' = unsynced \union {f}
             /\ \A x \in unwritten' : x[2] \in dirty'
             /\ \A x \in unfsynced' : x[2] \in unsynced'
    <2>1. \A x \in unwritten' : x \in unwritten /\ x[2] # f
        BY <1>0, <1>3 DEF Write
    <2>2. \A x \in unfsynced' : x \in unfsynced \/ x[2] = f
        BY <1>0, <1>3 DEF Write, Of
    <2>. QED  BY <1>3, <2>1, <2>2 DEF BufferInv, Write
<1>4. ASSUME NEW f \in Files, BackendWrite(f) PROVE BufferInv'
    BY <1>3, <1>4 DEF BackendWrite, BufferInv, fileVars
<1>5. ASSUME NEW f \in Files, Fsync(f)
      PROVE  unsynced' \subseteq unsynced /\ \A x \in unfsynced' : x[2] \in unsynced'
    BY <1>0, <1>5 DEF Fsync, BufferInv
<1>6. ASSUME NEW f \in Files, BackendWritten(f) PROVE BufferInv'
    BY <1>5, <1>6 DEF BackendWritten, BufferInv, fileVars
<1>7. ASSUME NEW f \in Files, NEW p, BgFlush(f, p) PROVE BufferInv'
    BY <1>3, <1>7 DEF BgFlush, BufferInv, fileVars
<1>8. ASSUME NEW f \in Files, SyncFile(f) PROVE BufferInv'
    BY <1>5, <1>8 DEF SyncFile, BufferInv, fileVars, bufVars
<1>9. ASSUME NEW f \in Files, SyncMissing(f) PROVE BufferInv'
    BY <1>1, <1>9 DEF SyncMissing, fileVars
<1>10. ASSUME NEW r \in Rels, Create(r) PROVE BufferInv'
    BY <1>0, <1>10 DEF Create, BufferInv, FileTypes, bufVars, owedVars
<1>11. ASSUME NEW f \in Files, DropBuffers(f) PROVE BufferInv'
    <2>1. \A x \in unwritten' : x \in unwritten /\ x[2] # f
        BY <1>0, <1>11 DEF DropBuffers
    <2>2. \A x \in unfsynced' : x \in unfsynced /\ x[2] # f
        BY <1>0, <1>11 DEF DropBuffers
    <2>. QED  BY <1>0, <1>11, <2>1, <2>2 DEF DropBuffers, BufferInv, FileTypes
<1>12. ASSUME NEW r \in Rels,
              DropRelation(r) \/ ForgetMain(r) \/ RegisterUnlink(r) \/ ForgetFork(r)
       PROVE  BufferInv'
    BY <1>1, <1>12 DEF DropRelation, ForgetMain, RegisterUnlink, ForgetFork
<1>13. ASSUME NEW r \in Rels, DropMainBuffers(r) \/ DropForkBuffers(r) PROVE BufferInv'
    <2>1. DropForkBuffers(r) => <<r, "fsm">> \in Files
        BY MainIsFile DEF DropForkBuffers, DropInv, Dropping
    <2>. QED  BY <1>11, <1>13, <2>1, MainIsFile DEF DropMainBuffers, DropForkBuffers
<1>14. ASSUME NEW gone, \A f \in gone : file[f] = "dropped", Removed(gone),
              UNCHANGED <<bufVars, unsynced, owedVars>>
       PROVE  BufferInv'
    <2>1. \A f \in Files : file[f] = "live" => file'[f] = "live"
        BY <1>14 DEF Removed
    <2>. QED  BY <1>0, <1>14, <2>1 DEF BufferInv, FileTypes, bufVars, owedVars
<1>15. ASSUME NEW r \in Rels, UnlinkFork(r) PROVE BufferInv'
    <2>1. \A f \in {<<r, "fsm">>} : file[f] = "dropped"
        BY <1>15 DEF UnlinkFork, DropInv, Dropping
    <2>. QED  BY <1>14, <1>15, <2>1 DEF UnlinkFork
<1>16. ASSUME CompleteCheckpoint PROVE BufferInv'
    <2>. DEFINE gone == {Main(unlinks[i].rel) : i \in 1 .. OldUnlinks}
    <2>1. Removed(gone) /\ UNCHANGED <<bufVars, unsynced, owedVars>>
        BY <1>16 DEF CompleteCheckpoint, owedVars
    <2>2. \A f \in gone : file[f] = "dropped"
        BY OldAreDropped
    <2>. HIDE DEF gone
    <2>. QED  BY <1>14, <2>1, <2>2
<1>17. ASSUME NEW o, Count(o), UNCHANGED <<file, bufVars, unsynced>> PROVE BufferInv'
    <2>1. \A x \in unwritten' : x \in unwritten \/ x[2] \in dirty
        BY <1>17 DEF Count
    <2>2. \A x \in unfsynced' : x \in unfsynced \/ x[2] \in unsynced
        BY <1>17 DEF Count
    <2>. QED  BY <1>17, <2>1, <2>2 DEF BufferInv, bufVars
<1>18. ASSUME NEW q \in Requesters,
              RequestCheckpoint(q) \/ CheckpointStarted(q) \/ CheckpointDone(q)
       PROVE  BufferInv'
    <2>1. ASSUME RequestCheckpoint(q) PROVE BufferInv'
        BY <1>17, <2>1 DEF RequestCheckpoint, fileVars
    <2>2. ASSUME CheckpointStarted(q) PROVE BufferInv'
        BY <1>1, <2>2 DEF CheckpointStarted, fileVars
    <2>3. ASSUME CheckpointDone(q) PROVE BufferInv'
        BY <2>3 DEF CheckpointDone, BufferInv, fileVars, bufVars
    <2>. QED  BY <1>18, <2>1, <2>2, <2>3
<1>19. ASSUME PrepareCheckpoint PROVE BufferInv'
    BY <1>1, <1>17, <1>19 DEF PrepareCheckpoint, fileVars
<1>20. ASSUME MarkBuffers PROVE BufferInv'
    BY <1>20 DEF MarkBuffers, BufferInv, fileVars, owedVars
<1>21. ASSUME BgAbsorb \/ BeginCheckpoint \/ BeginSync \/ CheckpointFails \/ FinishCheckpoint
       PROVE  BufferInv'
    BY <1>1, <1>21 DEF BgAbsorb, BeginCheckpoint, BeginSync, CheckpointFails, FinishCheckpoint,
        fileVars
<1>22. CASE UNCHANGED vars
    BY <1>1, <1>22 DEF vars, fileVars
<1>. QED
    BY <1>2, <1>4, <1>6, <1>7, <1>8, <1>9, <1>10, <1>12, <1>13, <1>15, <1>16, <1>18, <1>19,
       <1>20, <1>21, <1>22, NextSplits DEF BgBufferSync, SyncOneBuffer

LEMMA DropInvStep == TypeInt /\ DropInv /\ UnlinkInv /\ [Next]_vars => DropInv'
<1>. SUFFICES ASSUME TypeInt, DropInv, UnlinkInv, [Next]_vars, NEW s \in Rels PROVE Dropping(s)'
    BY DEF DropInv
<1>0. FileTypes /\ Dropping(s) /\ Main(s) \in Files
      /\ \A r \in Rels : Main(r) # <<s, "fsm">> /\ Main(s) # <<r, "fsm">>
                         /\ (Main(r) = Main(s) => r = s)
    BY MainIsFile DEF DropInv, TypeInt
<1>1. ASSUME UNCHANGED fileVars PROVE Dropping(s)'
    BY <1>0, <1>1 DEF Dropping, fileVars
<1>2. ASSUME NEW f \in Files,
             \/ Modify(f) \/ BackendWrite(f) \/ BackendWritten(f) \/ BgBufferSync(f)
             \/ SyncOneBuffer(f) \/ SyncFile(f) \/ SyncMissing(f)
      PROVE  Dropping(s)'
    BY <1>1, <1>2 DEF Modify, BackendWrite, BackendWritten, BgBufferSync, SyncOneBuffer, BgFlush,
        SyncFile, SyncMissing
<1>3. ASSUME NEW r \in Rels, Create(r) PROVE Dropping(s)'
    <2>1. file' = [f \in Files |-> IF f[1] = r THEN "live" ELSE file[f]] /\ drop' = drop
          /\ drop[r] = "no"
        BY <1>3 DEF Create, DropInv, Dropping
    <2>2. CASE s = r
        <3>1. file'[Main(s)] = "live"
            BY <1>0, <2>1, <2>2 DEF Main
        <3>. QED  BY <2>1, <2>2, <3>1 DEF Dropping
    <2>3. CASE s # r
        <3>1. file'[Main(s)] = file[Main(s)]
            BY <1>0, <2>1, <2>3 DEF Main
        <3>2. s \in Forked => file'[<<s, "fsm">>] = file[<<s, "fsm">>]
            BY <2>1, <2>3, MainIsFile
        <3>. QED  BY <1>0, <2>1, <3>1, <3>2 DEF Dropping
    <2>. QED  BY <2>2, <2>3
<1>4. ASSUME NEW r \in Rels, DropRelation(r) PROVE Dropping(s)'
    BY <1>0, <1>4 DEF DropRelation, Dropping, FileTypes
<1>5. ASSUME NEW r \in Rels, DropMainBuffers(r) PROVE Dropping(s)'
    BY <1>0, <1>5, MainIsFile DEF DropMainBuffers, DropBuffers, Dropping, FileTypes
<1>6. ASSUME NEW r \in Rels, ForgetMain(r) \/ RegisterUnlink(r) PROVE Dropping(s)'
    BY <1>0, <1>6 DEF ForgetMain, RegisterUnlink, Dropping, FileTypes
<1>7. ASSUME NEW r \in Rels, DropForkBuffers(r) PROVE Dropping(s)'
    <2>1. <<r, "fsm">> \in Files
        BY <1>7, MainIsFile DEF DropForkBuffers, DropInv, Dropping
    <2>2. /\ file' = [file EXCEPT ![<<r, "fsm">>] = "dropped"]
          /\ drop[r] = "fsmBuffers" /\ drop' = [drop EXCEPT ![r] = "fsmForget"]
        BY <1>7 DEF DropForkBuffers, DropBuffers
    <2>3. file'[Main(s)] = file[Main(s)]
        BY <1>0, <2>2 DEF FileTypes
    <2>4. CASE s = r
        BY <1>0, <2>1, <2>2, <2>3, <2>4 DEF Dropping, FileTypes
    <2>5. CASE s # r
        <3>1. <<s, "fsm">> # <<r, "fsm">>
            BY <2>5
        <3>2. s \in Forked => <<s, "fsm">> \in Files
            BY MainIsFile
        <3>. QED  BY <1>0, <2>2, <2>3, <2>5, <3>1, <3>2 DEF Dropping, FileTypes
    <2>. QED  BY <2>4, <2>5
<1>8. ASSUME NEW r \in Rels, ForgetFork(r) PROVE Dropping(s)'
    BY <1>0, <1>8 DEF ForgetFork, Dropping, FileTypes
<1>9. ASSUME NEW r \in Rels, UnlinkFork(r) PROVE Dropping(s)'
    <2>1. /\ \A f \in Files : f \notin {<<r, "fsm">>} => file'[f] = file[f]
          /\ drop' = [drop EXCEPT ![r] = "no"]
        BY <1>9 DEF UnlinkFork, Removed
    <2>2. file'[Main(s)] = file[Main(s)]
        BY <1>0, <2>1
    <2>3. CASE s = r
        BY <1>0, <2>1, <2>2, <2>3 DEF Dropping, FileTypes
    <2>4. CASE s # r
        <3>1. s \in Forked => file'[<<s, "fsm">>] = file[<<s, "fsm">>]
            BY <2>1, <2>4, MainIsFile
        <3>. QED  BY <1>0, <2>1, <2>2, <2>4, <3>1 DEF Dropping, FileTypes
    <2>. QED  BY <2>3, <2>4
<1>10. ASSUME CompleteCheckpoint PROVE Dropping(s)'
    <2>. DEFINE gone == {Main(unlinks[i].rel) : i \in 1 .. OldUnlinks}
    <2>1. Removed(gone) /\ drop' = drop
        BY <1>10 DEF CompleteCheckpoint
    <2>2. \A f \in gone : /\ f = Main(f[1]) /\ file[f] = "dropped"
                          /\ drop[f[1]] \notin {"mainBuffers", "mainForget", "mainUnlink"}
        BY OldAreDropped
    <2>. HIDE DEF gone
    <2>3. \A f \in Files : file'[f] = IF f \notin gone THEN file[f]
                             ELSE IF f = Main(f[1]) /\ drop[f[1]] # "no" THEN "retired" ELSE "none"
        BY <2>1 DEF Removed
    <2>4. s \in Forked => file'[<<s, "fsm">>] = file[<<s, "fsm">>]
        <3>1. s \in Forked => <<s, "fsm">> \in Files /\ Main(s) # <<s, "fsm">>
            BY MainIsFile
        <3>2. <<s, "fsm">>[1] = s
            OBVIOUS
        <3>. QED  BY <2>2, <2>3, <3>1, <3>2
    <2>5. CASE Main(s) \in gone
        <3>1. Main(s)[1] = s
            BY MainIsFile
        <3>2. file'[Main(s)] = IF drop[s] # "no" THEN "retired" ELSE "none"
            BY <1>0, <2>3, <2>5, <3>1
        <3>. QED  BY <1>0, <2>1, <2>2, <2>4, <2>5, <3>1, <3>2 DEF Dropping
    <2>6. CASE Main(s) \notin gone
        <3>1. file'[Main(s)] = file[Main(s)]
            BY <1>0, <2>3, <2>6
        <3>. QED  BY <1>0, <2>1, <2>4, <3>1 DEF Dropping
    <2>. QED  BY <2>5, <2>6
<1>11. ASSUME NEW q \in Requesters,
              RequestCheckpoint(q) \/ CheckpointStarted(q) \/ CheckpointDone(q)
       PROVE  Dropping(s)'
    BY <1>1, <1>11 DEF RequestCheckpoint, CheckpointStarted, CheckpointDone
<1>12. ASSUME \/ BgAbsorb \/ BeginCheckpoint \/ BeginSync \/ CheckpointFails
              \/ FinishCheckpoint \/ PrepareCheckpoint \/ MarkBuffers
       PROVE  Dropping(s)'
    BY <1>1, <1>12 DEF BgAbsorb, BeginCheckpoint, BeginSync, CheckpointFails, FinishCheckpoint,
        PrepareCheckpoint, MarkBuffers
<1>13. CASE UNCHANGED vars
    BY <1>1, <1>13 DEF vars
<1>. QED
    BY <1>2, <1>3, <1>4, <1>5, <1>6, <1>7, <1>8, <1>9, <1>10, <1>11, <1>12, <1>13, NextSplits

-----------------------------------------------------------------------------
(***************************************************************************)
(* Pending unlinks                                                         *)
(***************************************************************************)

\* The drop of g's relation revokes the requests for g.
ForgetFile(g) ==
    \/ g = Main(g[1]) /\ ForgetMain(g[1])
    \/ g = <<g[1], "fsm">> /\ ForgetFork(g[1])

\* What a step may do to the queue and to the list of unlinks.
ListStep ==
    \/ UNCHANGED <<queue, unlinks>>
    \/ \E x \in Requests : /\ Forwarded(x) /\ unlinks' = unlinks
                           /\ \A r \in Rels : x = UnlinkOf(r) => RegisterUnlink(r)
                           /\ \A f \in Files : x = ForgetOf(f) => ForgetFile(f)
    \/ queue' = <<>> /\ unlinks' = Absorbed.unlinks
    \/ queue' = queue /\ PrepareCheckpoint
    \/ queue' = queue /\ CompleteCheckpoint

LEMMA ListSteps == TypeInt /\ DropInv /\ [Next]_vars => ListStep
<1>. SUFFICES ASSUME TypeInt, DropInv, [Next]_vars PROVE ListStep
    OBVIOUS
<1>1. ASSUME UNCHANGED <<queue, unlinks>> PROVE ListStep
    BY <1>1 DEF ListStep
<1>2. ASSUME queue' = <<>>, unlinks' = Absorbed.unlinks PROVE ListStep
    BY <1>2 DEF ListStep
<1>3. ASSUME NEW f \in Files, Modify(f) \/ BackendWrite(f) PROVE ListStep
    BY <1>1, <1>3 DEF Modify, BackendWrite, mdVars
<1>4. ASSUME NEW f \in Files, BackendWritten(f) PROVE ListStep
    <2>1. unlinks' = unlinks
        BY <1>4 DEF BackendWritten, mdVars
    <2>2. queue' # queue => Forwarded(FsyncOf(f))
        BY <1>4, ForwardSteps
    <2>3. FsyncOf(f) \in Requests /\ (\A r \in Rels : FsyncOf(f) # UnlinkOf(r))
          /\ \A g \in Files : FsyncOf(f) # ForgetOf(g)
        BY RequestsDiffer DEF Requests
    <2>. QED  BY <1>1, <2>1, <2>2, <2>3 DEF ListStep
<1>5. ASSUME NEW f \in Files, BgBufferSync(f) \/ SyncOneBuffer(f) \/ SyncFile(f) \/ SyncMissing(f)
      PROVE  ListStep
    BY <1>1, <1>2, <1>5 DEF BgBufferSync, SyncOneBuffer, BgFlush, Pending, SyncFile, SyncMissing
<1>6. ASSUME NEW r \in Rels,
             \/ Create(r) \/ DropRelation(r) \/ DropMainBuffers(r)
             \/ DropForkBuffers(r) \/ UnlinkFork(r)
      PROVE  ListStep
    BY <1>1, <1>6 DEF Create, DropRelation, DropMainBuffers, DropForkBuffers, DropBuffers,
        UnlinkFork, mdVars
<1>7. ASSUME NEW r \in Rels, RegisterUnlink(r) PROVE ListStep
    <2>1. UnlinkOf(r) \in Requests /\ (\A s \in Rels : UnlinkOf(r) = UnlinkOf(s) => r = s)
          /\ \A g \in Files : UnlinkOf(r) # ForgetOf(g)
        BY RequestsDiffer DEF Requests
    <2>2. Forwarded(UnlinkOf(r)) /\ unlinks' = unlinks
        BY <1>7, ForwardSteps DEF RegisterUnlink, mdVars
    <2>3. \A s \in Rels : UnlinkOf(r) = UnlinkOf(s) => RegisterUnlink(s)
        BY <1>7, <2>1
    <2>. QED  BY <2>1, <2>2, <2>3 DEF ListStep
<1>8. ASSUME NEW f \in Files, Forwarded(ForgetOf(f)), unlinks' = unlinks, ForgetFile(f)
      PROVE  ListStep
    <2>1. ForgetOf(f) \in Requests /\ (\A s \in Rels : ForgetOf(f) # UnlinkOf(s))
          /\ \A g \in Files : ForgetOf(f) = ForgetOf(g) => f = g
        BY RequestsDiffer DEF Requests
    <2>2. \A g \in Files : ForgetOf(f) = ForgetOf(g) => ForgetFile(g)
        BY <1>8, <2>1
    <2>. QED  BY <1>8, <2>1, <2>2 DEF ListStep
<1>9. ASSUME NEW r \in Rels, ForgetMain(r) \/ ForgetFork(r) PROVE ListStep
    <2>1. ForgetFork(r) => r \in Forked
        BY DEF ForgetFork, DropInv, Dropping
    <2>2. unlinks' = unlinks
        BY <1>9 DEF ForgetMain, ForgetFork, mdVars
    <2>3. ForgetMain(r) => ForgetFile(Main(r))
        BY MainIsFile DEF ForgetFile
    <2>4. ForgetFork(r) => ForgetFile(<<r, "fsm">>)
        BY DEF ForgetFile
    <2>. QED  BY <1>8, <1>9, <2>1, <2>2, <2>3, <2>4, ForwardSteps, MainIsFile
<1>10. ASSUME NEW q \in Requesters,
              RequestCheckpoint(q) \/ CheckpointStarted(q) \/ CheckpointDone(q)
       PROVE  ListStep
    BY <1>1, <1>10 DEF RequestCheckpoint, CheckpointStarted, CheckpointDone, mdVars
<1>11. ASSUME BgAbsorb \/ BeginCheckpoint \/ BeginSync PROVE ListStep
    BY <1>2, <1>11 DEF BgAbsorb, BeginCheckpoint, BeginSync, AbsorbFsyncRequests
<1>12. ASSUME CheckpointFails \/ MarkBuffers \/ FinishCheckpoint PROVE ListStep
    BY <1>1, <1>12 DEF CheckpointFails, MarkBuffers, FinishCheckpoint, mdVars
<1>13. ASSUME PrepareCheckpoint \/ CompleteCheckpoint PROVE ListStep
    BY <1>13 DEF ListStep, PrepareCheckpoint, CompleteCheckpoint
<1>14. CASE UNCHANGED vars
    BY <1>1, <1>14 DEF vars, mdVars
<1>. QED
    BY <1>3, <1>4, <1>5, <1>6, <1>7, <1>9, <1>10, <1>11, <1>12, <1>13, <1>14, NextSplits

\* The list of unlinks after mdpostckpt.
LEMMA UnlinksLeft ==
    ASSUME TypeInt, CompleteCheckpoint
    PROVE  \A i \in DOMAIN unlinks' : i + OldUnlinks \in DOMAIN unlinks
                                      /\ unlinks'[i] = unlinks[i + OldUnlinks]
<1>. DEFINE k == OldUnlinks
            n == Len(unlinks)
            u == SubSeq(unlinks, k + 1, n)
<1>1. k \in 0 .. n /\ n \in Nat /\ DOMAIN unlinks = 1 .. n /\ unlinks' = u
    BY OldUnlinksIs, UnlinkTypes DEF CompleteCheckpoint
<1>2. unlinks \in Seq([rel : Rels, cycle : Cycles])
    BY DEF TypeInt, RequestTypes
<1>. HIDE DEF k
<1>3. ASSUME NEW i \in k + 1 .. n PROVE unlinks[i] \in [rel : Rels, cycle : Cycles]
    <2>1. i \in 1 .. n
        BY <1>1
    <2>. QED  BY <1>2, <2>1, ElementOfSeq
<1>. HIDE DEF n
<1>4. /\ u \in Seq([rel : Rels, cycle : Cycles])
      /\ Len(u) = n - k /\ \A i \in 1 .. n - k : u[i] = unlinks[i + k]
    <2>1. /\ Len(u) = IF k + 1 <= n THEN n - (k + 1) + 1 ELSE 0
          /\ \A i \in 1 .. n - (k + 1) + 1 : u[i] = unlinks[k + 1 + i - 1]
          /\ u \in Seq([rel : Rels, cycle : Cycles])
        BY <1>1, <1>3, SubSeqProperties
    <2>2. n - (k + 1) + 1 = n - k /\ \A i \in Int : k + 1 + i - 1 = i + k
        BY <1>1
    <2>3. Len(u) = n - k
        BY <1>1, <2>1
    <2>4. ASSUME NEW i \in 1 .. n - k PROVE u[i] = unlinks[i + k]
        BY <1>1, <2>1, <2>2
    <2>. QED  BY <2>1, <2>3, <2>4
<1>5. DOMAIN u = 1 .. n - k
    BY <1>4
<1>. HIDE DEF u
<1>6. \A i \in DOMAIN u : i + k \in DOMAIN unlinks /\ u[i] = unlinks[i + k]
    BY <1>1, <1>4, <1>5
<1>. QED  BY <1>1, <1>6 DEF k

Lists(r) ==
    /\ Once(queue, r)
    /\ \A i, j \in DOMAIN unlinks : unlinks[i].rel = r /\ unlinks[j].rel = r => i = j
    /\ \A i \in DOMAIN unlinks : unlinks[i].rel = r => ~Queued(UnlinkOf(r))

\* No step but RegisterUnlink adds an unlink of r.
LEMMA ListsMove ==
    ASSUME TypeInt, DropInv, ListStep, NEW r \in Rels, OneUnlink(r),
           RegisterUnlink(r) => ~Unlinking(r)
    PROVE  /\ Unlinking(r)' => Unlinking(r) \/ RegisterUnlink(r)
           /\ Lists(r)'
<1>1. UnlinkOf(r) \in Requests
    BY DEF Requests
<1>2. Lists(r)
    BY DEF OneUnlink, Lists
<1>3. CASE UNCHANGED <<queue, unlinks>>
    BY <1>2, <1>3 DEF Lists, Unlinking, Queued, Has, Once
<1>4. ASSUME NEW x \in Requests, Forwarded(x), unlinks' = unlinks,
             x = UnlinkOf(r) => RegisterUnlink(r)
      PROVE  /\ Unlinking(r)' => Unlinking(r) \/ RegisterUnlink(r)
             /\ Lists(r)'
    <2>1. Queued(UnlinkOf(r))' <=> Queued(UnlinkOf(r)) \/ UnlinkOf(r) = x
        BY <1>1, <1>4 DEF Forwarded, Queued, Has
    <2>2. x = UnlinkOf(r) => ~Has(queue, x)
        BY <1>4 DEF Unlinking, Queued
    <2>3. Once(queue, r)'
        BY <1>2, <1>4, <2>2 DEF Forwarded, Lists, Once
    <2>4. \A i \in DOMAIN unlinks : unlinks[i].rel = r => x # UnlinkOf(r)
        BY <1>4 DEF Unlinking
    <2>. QED  BY <1>2, <1>4, <2>1, <2>3, <2>4 DEF Lists, Unlinking
<1>5. CASE queue' = <<>> /\ unlinks' = Absorbed.unlinks
    <2>. DEFINE u == Absorbed.unlinks
    <2>1. /\ \A i \in DOMAIN u : \/ i \in DOMAIN unlinks /\ u[i] = unlinks[i]
                                 \/ u[i].cycle = ckptCtr /\ Queued(UnlinkOf(u[i].rel))
          /\ \A i, j \in DOMAIN u : u[i].rel = r /\ u[j].rel = r => i = j
        BY AbsorbedList
    <2>. HIDE DEF u
    <2>2. ~Queued(UnlinkOf(r))' /\ Once(queue, r)'
        BY <1>5 DEF Queued, Has, Once
    <2>3. \A i \in DOMAIN u : u[i].rel = r => Unlinking(r)
        BY <2>1 DEF Unlinking
    <2>4. unlinks' = u
        BY <1>5 DEF u
    <2>. QED  BY <2>1, <2>2, <2>3, <2>4 DEF Unlinking, Lists
<1>6. CASE queue' = queue /\ PrepareCheckpoint
    <2>1. unlinks' = [i \in DOMAIN unlinks |-> [unlinks[i] EXCEPT !.cycle = ckptCtr]]
        BY <1>6 DEF PrepareCheckpoint
    <2>2. unlinks \in Seq([rel : Rels, cycle : Cycles])
        BY DEF TypeInt, RequestTypes
    <2>3. ASSUME NEW i \in DOMAIN unlinks PROVE unlinks'[i].rel = unlinks[i].rel
        <3>1. unlinks[i] \in [rel : Rels, cycle : Cycles]
            BY <2>2, UnlinkTypes, ElementOfSeq
        <3>. QED  BY <2>1, <3>1
    <2>4. DOMAIN unlinks' = DOMAIN unlinks
        BY <2>1
    <2>. QED  BY <1>2, <1>6, <2>3, <2>4 DEF Lists, Unlinking, Queued, Has, Once
<1>7. CASE queue' = queue /\ CompleteCheckpoint
    <2>1. \A i \in DOMAIN unlinks' : i + OldUnlinks \in DOMAIN unlinks
                                      /\ unlinks'[i] = unlinks[i + OldUnlinks]
        BY <1>7, UnlinksLeft
    <2>2. OldUnlinks \in Nat /\ \A i \in DOMAIN unlinks' : i \in Nat
        <3>1. unlinks' = SubSeq(unlinks, OldUnlinks + 1, Len(unlinks))
            BY <1>7 DEF CompleteCheckpoint
        <3>. QED  BY <3>1, OldUnlinksIs, UnlinkTypes
    <2>3. \A i, j \in DOMAIN unlinks' : unlinks'[i].rel = r /\ unlinks'[j].rel = r => i = j
        BY <1>2, <2>1, <2>2 DEF Lists
    <2>. QED  BY <1>2, <1>7, <2>1, <2>3 DEF Lists, Unlinking, Queued, Has, Once
<1>. QED  BY <1>3, <1>4, <1>5, <1>6, <1>7 DEF ListStep

\* A main file that is there but dropped stays so until its unlink is done.
LEMMA DroppedStays ==
    ASSUME TypeInt, DropInv, [Next]_vars, NEW r \in Rels, file[Main(r)] = "dropped",
           drop[r] \notin {"mainBuffers", "mainForget", "mainUnlink"},
           CompleteCheckpoint => Main(r) \notin {Main(unlinks[i].rel) : i \in 1 .. OldUnlinks}
    PROVE  /\ file'[Main(r)] = "dropped"
           /\ drop'[r] \notin {"mainBuffers", "mainForget", "mainUnlink"}
<1>. DEFINE Goal == /\ file'[Main(r)] = "dropped"
                    /\ drop'[r] \notin {"mainBuffers", "mainForget", "mainUnlink"}
<1>0. FileTypes /\ Main(r) \in Files /\ Main(r)[1] = r
      /\ \A s \in Rels : Main(r) # <<s, "fsm">> /\ (Main(s) = Main(r) => s = r)
    BY MainIsFile DEF TypeInt
<1>1. ASSUME UNCHANGED fileVars PROVE Goal
    BY <1>1 DEF fileVars
<1>2. ASSUME NEW f \in Files,
             \/ Modify(f) \/ BackendWrite(f) \/ BackendWritten(f) \/ BgBufferSync(f)
             \/ SyncOneBuffer(f) \/ SyncFile(f) \/ SyncMissing(f)
      PROVE  Goal
    BY <1>1, <1>2 DEF Modify, BackendWrite, BackendWritten, BgBufferSync, SyncOneBuffer, BgFlush,
        SyncFile, SyncMissing
<1>3. ASSUME NEW s \in Rels, Create(s) PROVE Goal
    BY <1>0, <1>3 DEF Create
<1>4. ASSUME NEW s \in Rels, DropRelation(s) \/ ForgetMain(s) \/ RegisterUnlink(s) \/ ForgetFork(s)
      PROVE  Goal
    BY <1>0, <1>4 DEF DropRelation, ForgetMain, RegisterUnlink, ForgetFork, FileTypes
<1>5. ASSUME NEW s \in Rels, DropMainBuffers(s) \/ DropForkBuffers(s) PROVE Goal
    BY <1>0, <1>5 DEF DropMainBuffers, DropForkBuffers, DropBuffers, FileTypes
<1>6. ASSUME NEW s \in Rels, UnlinkFork(s) PROVE Goal
    BY <1>0, <1>6 DEF UnlinkFork, Removed, FileTypes
<1>7. ASSUME CompleteCheckpoint PROVE Goal
    BY <1>0, <1>7 DEF CompleteCheckpoint, Removed
<1>8. ASSUME NEW q \in Requesters,
              RequestCheckpoint(q) \/ CheckpointStarted(q) \/ CheckpointDone(q)
       PROVE  Goal
    BY <1>1, <1>8 DEF RequestCheckpoint, CheckpointStarted, CheckpointDone
<1>9. ASSUME \/ BgAbsorb \/ BeginCheckpoint \/ BeginSync \/ CheckpointFails
             \/ FinishCheckpoint \/ PrepareCheckpoint \/ MarkBuffers
       PROVE  Goal
    BY <1>1, <1>9 DEF BgAbsorb, BeginCheckpoint, BeginSync, CheckpointFails, FinishCheckpoint,
        PrepareCheckpoint, MarkBuffers
<1>10. CASE UNCHANGED vars
    BY <1>1, <1>10 DEF vars
<1>. QED
    BY <1>2, <1>3, <1>4, <1>5, <1>6, <1>7, <1>8, <1>9, <1>10, NextSplits

LEMMA UnlinkInvStep == TypeInt /\ DropInv /\ UnlinkInv /\ [Next]_vars => UnlinkInv'
<1>. SUFFICES ASSUME TypeInt, DropInv, UnlinkInv, [Next]_vars, NEW r \in Rels PROVE OneUnlink(r)'
    BY DEF UnlinkInv
<1>1. OneUnlink(r) /\ Dropping(r)
    BY DEF UnlinkInv, DropInv
<1>2. RegisterUnlink(r) => ~Unlinking(r) /\ drop[r] = "mainUnlink"
    BY <1>1 DEF RegisterUnlink, OneUnlink
<1>3. ListStep
    BY ListSteps
<1>4. (Unlinking(r)' => Unlinking(r) \/ RegisterUnlink(r)) /\ Lists(r)'
    BY <1>1, <1>2, <1>3, ListsMove
<1>5. ASSUME Unlinking(r)'
      PROVE  /\ file'[Main(r)] = "dropped"
             /\ drop'[r] \notin {"mainBuffers", "mainForget", "mainUnlink"}
    <2>1. CASE RegisterUnlink(r)
        <3>1. /\ drop' = [drop EXCEPT ![r] = IF r \in Forked THEN "fsmBuffers" ELSE "no"]
              /\ file' = file
            BY <2>1 DEF RegisterUnlink
        <3>. QED  BY <1>1, <1>2, <2>1, <3>1 DEF Dropping, TypeInt, FileTypes
    <2>2. CASE Unlinking(r)
        <3>1. ASSUME CompleteCheckpoint, Main(r) \in {Main(unlinks[i].rel) : i \in 1 .. OldUnlinks}
              PROVE  FALSE
            <4>1. PICK i \in 1 .. OldUnlinks : Main(unlinks[i].rel) = Main(r)
                BY <3>1
            <4>2. i \in DOMAIN unlinks /\ OldUnlinks \in Nat
                BY OldUnlinksIs, UnlinkTypes
            <4>3. unlinks[i].rel = r
                BY <4>1, <4>2, UnlinkTypes, MainIsFile
            <4>4. ~Queued(UnlinkOf(r))'
                BY <1>1, <3>1, <4>2, <4>3 DEF OneUnlink, CompleteCheckpoint, Queued, Has
            <4>5. PICK j \in DOMAIN unlinks' : unlinks'[j].rel = r
                BY <1>5, <4>4 DEF Unlinking
            <4>6. j + OldUnlinks \in DOMAIN unlinks /\ unlinks[j + OldUnlinks].rel = r
                BY <3>1, <4>5, UnlinksLeft
            <4>7. j + OldUnlinks = i
                BY <1>1, <4>2, <4>3, <4>6 DEF OneUnlink
            <4>8. j \in Nat /\ j > 0
                <5>1. unlinks' = SubSeq(unlinks, OldUnlinks + 1, Len(unlinks))
                    BY <3>1 DEF CompleteCheckpoint
                <5>. QED  BY <4>2, <4>5, <5>1, UnlinkTypes
            <4>. QED  BY <4>2, <4>7, <4>8
        <3>2. file[Main(r)] = "dropped" /\ drop[r] \notin {"mainBuffers", "mainForget", "mainUnlink"}
            BY <1>1, <2>2 DEF OneUnlink
        <3>. QED  BY <3>1, <3>2, DroppedStays
    <2>. QED  BY <1>4, <1>5, <2>1, <2>2
<1>. QED  BY <1>4, <1>5 DEF OneUnlink, Lists

-----------------------------------------------------------------------------
(***************************************************************************)
(* What is requested                                                       *)
(***************************************************************************)

LEMMA SameRequests ==
    ASSUME UNCHANGED <<queue, ops>>, NEW g
    PROVE  Requested(g)' <=> Requested(g)
BY DEF Requested, RequestedIn, NotFollowed, Has

LEMMA FsyncForwarded ==
    ASSUME NEW f \in Files, NEW g \in Files, Forwarded(FsyncOf(f)), ops' = ops
    PROVE  Requested(g)' <=> Requested(g) \/ g = f
<1>1. FsyncOf(g) \in Requests /\ ForgetOf(g) \in Requests
    BY DEF Requests
<1>2. NotFollowed(queue', FsyncOf(g), ForgetOf(g)) <=>
        NotFollowed(queue, FsyncOf(g), ForgetOf(g)) \/ g = f
    BY <1>1, RequestsDiffer DEF Forwarded
<1>3. Has(queue', ForgetOf(g)) <=> Has(queue, ForgetOf(g))
    BY <1>1, RequestsDiffer DEF Forwarded
<1>4. Requested(g)' <=> \/ NotFollowed(queue', FsyncOf(g), ForgetOf(g))
                        \/ g \in DOMAIN ops /\ ~ops[g].canceled /\ ~Has(queue', ForgetOf(g))
    BY DEF Requested, RequestedIn, NotFollowed, Has
<1>. QED  BY <1>2, <1>3, <1>4 DEF Requested, RequestedIn

LEMMA ForgetForwarded ==
    ASSUME NEW f \in Files, NEW g \in Files, Forwarded(ForgetOf(f)), ops' = ops
    PROVE  Requested(g)' <=> Requested(g) /\ g # f
<1>1. FsyncOf(g) \in Requests /\ ForgetOf(g) \in Requests
    BY DEF Requests
<1>2. NotFollowed(queue', FsyncOf(g), ForgetOf(g)) <=>
        NotFollowed(queue, FsyncOf(g), ForgetOf(g)) /\ g # f
    BY <1>1, RequestsDiffer DEF Forwarded
<1>3. Has(queue', ForgetOf(g)) <=> Has(queue, ForgetOf(g)) \/ g = f
    BY <1>1, RequestsDiffer DEF Forwarded
<1>4. Requested(g)' <=> \/ NotFollowed(queue', FsyncOf(g), ForgetOf(g))
                        \/ g \in DOMAIN ops /\ ~ops[g].canceled /\ ~Has(queue', ForgetOf(g))
    BY DEF Requested, RequestedIn, NotFollowed, Has
<1>. QED  BY <1>2, <1>3, <1>4 DEF Requested, RequestedIn

LEMMA UnlinkForwarded ==
    ASSUME NEW r \in Rels, NEW g \in Files, Forwarded(UnlinkOf(r)), ops' = ops
    PROVE  Requested(g)' <=> Requested(g)
<1>1. FsyncOf(g) \in Requests /\ ForgetOf(g) \in Requests
    BY DEF Requests
<1>2. NotFollowed(queue', FsyncOf(g), ForgetOf(g)) <=> NotFollowed(queue, FsyncOf(g), ForgetOf(g))
    BY <1>1, RequestsDiffer DEF Forwarded
<1>3. Has(queue', ForgetOf(g)) <=> Has(queue, ForgetOf(g))
    BY <1>1, RequestsDiffer DEF Forwarded
<1>4. Requested(g)' <=> \/ NotFollowed(queue', FsyncOf(g), ForgetOf(g))
                        \/ g \in DOMAIN ops /\ ~ops[g].canceled /\ ~Has(queue', ForgetOf(g))
    BY DEF Requested, RequestedIn, NotFollowed, Has
<1>. QED  BY <1>2, <1>3, <1>4 DEF Requested, RequestedIn

LEMMA AbsorbedRequests ==
    ASSUME TypeInt, queue' = <<>>, ops' = Absorbed.ops, NEW g \in Files
    PROVE  Requested(g)' <=> Requested(g)
BY QueueEmptied, AbsorbedTable

\* The background writer's own request.
LEMMA FlushedRequests ==
    ASSUME TypeInt, NEW f \in Files, NEW g \in Files, NEW p, BgFlush(f, p),
           \/ p = Pending /\ queue' = queue
           \/ p = Absorbed /\ queue' = <<>>
    PROVE  /\ g # f => (Requested(g)' <=> Requested(g))
           /\ g = f => Requested(g)' \/ (queue' = queue /\ Queued(ForgetOf(g)))
<1>1. DOMAIN p.ops \subseteq Files /\ WithFsync(ops', p.ops, f)
    BY FlushedTable
<1>2. CASE p = Pending /\ queue' = queue
    <2>1. WithFsync(ops', ops, f)
        BY <1>1, <1>2 DEF Pending
    <2>2. Requested(g)' <=>
            \/ NotFollowed(queue, FsyncOf(g), ForgetOf(g))
            \/ g \in DOMAIN ops' /\ ~ops'[g].canceled /\ ~Has(queue, ForgetOf(g))
        BY <1>2 DEF Requested, RequestedIn, NotFollowed, Has
    <2>3. g # f => (g \in DOMAIN ops' <=> g \in DOMAIN ops)
                   /\ (g \in DOMAIN ops => ops'[g] = ops[g])
        BY <2>1 DEF WithFsync
    <2>4. g = f => g \in DOMAIN ops' /\ ~ops'[g].canceled
        BY <2>1 DEF WithFsync
    <2>. QED  BY <1>2, <2>2, <2>3, <2>4 DEF Requested, RequestedIn, Queued
<1>3. CASE p = Absorbed /\ queue' = <<>>
    <2>. DEFINE o == Absorbed.ops
    <2>1. WithFsync(ops', o, f)
        BY <1>1, <1>3
    <2>2. (g \in DOMAIN o /\ ~o[g].canceled) <=> Requested(g)
        BY AbsorbedTable
    <2>3. Requested(g)' <=> g \in DOMAIN ops' /\ ~ops'[g].canceled
        BY <1>3, QueueEmptied
    <2>. HIDE DEF o
    <2>4. g # f => (g \in DOMAIN ops' <=> g \in DOMAIN o) /\ (g \in DOMAIN o => ops'[g] = o[g])
        BY <2>1 DEF WithFsync
    <2>5. g = f => g \in DOMAIN ops' /\ ~ops'[g].canceled
        BY <2>1 DEF WithFsync
    <2>. QED  BY <2>2, <2>3, <2>4, <2>5
<1>. QED  BY <1>2, <1>3

\* The fsyncs of a checkpoint: f is done with, or tried again.
LEMMA SyncedRequests ==
    ASSUME TypeInt, NEW f \in Files, NEW g \in Files, SyncFile(f) \/ SyncMissing(f)
    PROVE  /\ Requested(g)' => Requested(g)
           /\ g # f => (Requested(g)' <=> Requested(g))
           /\ g = f /\ SyncFile(f) /\ ops[f].canceled => (Requested(g)' <=> Requested(g))
<1>1. CASE SyncFile(f)
    <2>1. queue' = queue /\ ops' = [h \in DOMAIN ops \ {f} |-> ops[h]] /\ f \in DOMAIN ops
        BY <1>1 DEF SyncFile, Done, Restrict, Due
    <2>2. Requested(g)' <=>
            \/ NotFollowed(queue, FsyncOf(g), ForgetOf(g))
            \/ g \in DOMAIN ops' /\ ~ops'[g].canceled /\ ~Has(queue, ForgetOf(g))
        BY <2>1 DEF Requested, RequestedIn, NotFollowed, Has
    <2>3. g # f => (g \in DOMAIN ops' <=> g \in DOMAIN ops)
                   /\ (g \in DOMAIN ops => ops'[g] = ops[g])
        BY <2>1
    <2>4. g = f => g \notin DOMAIN ops'
        BY <2>1
    <2>5. ~SyncMissing(f) \/ ~ops[f].canceled
        BY DEF SyncMissing
    <2>. QED  BY <2>1, <2>2, <2>3, <2>4, <2>5 DEF Requested, RequestedIn
<1>2. CASE SyncMissing(f)
    <2>. DEFINE o == Absorbed.ops
    <2>1. queue' = <<>> /\ (ops' = o \/ ops' = [h \in DOMAIN o \ {f} |-> o[h]])
        BY <1>2 DEF SyncMissing, Done, Restrict
    <2>2. (g \in DOMAIN o /\ ~o[g].canceled) <=> Requested(g)
        BY AbsorbedTable
    <2>3. Requested(g)' <=> g \in DOMAIN ops' /\ ~ops'[g].canceled
        BY <2>1, QueueEmptied
    <2>. HIDE DEF o
    <2>4. g # f => (g \in DOMAIN ops' <=> g \in DOMAIN o) /\ (g \in DOMAIN o => ops'[g] = o[g])
        BY <2>1
    <2>5. g = f => g \notin DOMAIN ops' \/ ops' = o
        BY <2>1
    <2>6. ~ops[f].canceled
        BY <1>2 DEF SyncMissing
    <2>. QED  BY <2>2, <2>3, <2>4, <2>5, <2>6
<1>. QED  BY <1>1, <1>2

LEMMA SyncBegun ==
    ASSUME TypeInt, BeginSync, NEW g \in Files
    PROVE  Requested(g)' <=> Requested(g)
<1>. DEFINE o == Absorbed.ops
<1>1. /\ queue' = <<>>
      /\ ops' = [f \in DOMAIN o |-> [o[f] EXCEPT !.cycle = IF syncBusy THEN syncCtr ELSE @]]
    BY DEF BeginSync
<1>2. (g \in DOMAIN o /\ ~o[g].canceled) <=> Requested(g)
    BY AbsorbedTable
<1>3. Requested(g)' <=> g \in DOMAIN ops' /\ ~ops'[g].canceled
    BY <1>1, QueueEmptied
<1>4. o \in [DOMAIN o -> Entries]
    BY AbsorbedTable
<1>. HIDE DEF o
<1>5. DOMAIN ops' = DOMAIN o
    BY <1>1
<1>6. ASSUME g \in DOMAIN o PROVE ops'[g].canceled = o[g].canceled
    <2>1. o[g] \in Entries
        BY <1>4, <1>6
    <2>. QED  BY <1>1, <1>6, <2>1 DEF Entries
<1>. QED  BY <1>2, <1>3, <1>5, <1>6

\* Who has written a page has requested the fsync, or done it.
LEMMA WrittenRequested ==
    ASSUME TypeInt, BufferInv, ForgetInv, NEW f \in Files
    PROVE  /\ BackendWritten(f) =>
                (Forwarded(FsyncOf(f)) /\ UNCHANGED <<unsynced, unfsynced>>)
                \/ (Fsync(f) /\ queue' = queue)
           /\ BgBufferSync(f) \/ SyncOneBuffer(f) => Requested(f)'
<1>1. ASSUME BackendWritten(f)
      PROVE  (Forwarded(FsyncOf(f)) /\ UNCHANGED <<unsynced, unfsynced>>)
             \/ (Fsync(f) /\ queue' = queue)
    <2>1. FsyncOf(f) \in Requests
        BY DEF Requests
    <2>2. ForwardFsyncRequest("fsync", f) => Forwarded(FsyncOf(f))
        BY <2>1, ForwardIs DEF FsyncOf
    <2>. QED  BY <1>1, <2>2 DEF BackendWritten
<1>2. ASSUME BgBufferSync(f) PROVE Requested(f)'
    <2>1. BgFlush(f, Absorbed) /\ queue' = <<>>
        BY <1>2 DEF BgBufferSync
    <2>2. WithFsync(ops', Absorbed.ops, f)
        BY <2>1, FlushedTable
    <2>3. f \in DOMAIN ops' /\ ~ops'[f].canceled
        BY <2>2 DEF WithFsync
    <2>. QED  BY <2>1, <2>3, QueueEmptied
<1>3. ASSUME SyncOneBuffer(f) PROVE Requested(f)'
    <2>1. at = "write" /\ BgFlush(f, Pending) /\ queue' = queue
        BY <1>3 DEF SyncOneBuffer
    <2>2. f \in dirty
        BY <2>1 DEF BgFlush
    <2>3. ~Queued(ForgetOf(f))
        BY <2>1, <2>2 DEF BufferInv, ForgetInv, Running, Left
    <2>. QED  BY <2>1, <2>3, FlushedRequests
<1>. QED  BY <1>1, <1>2, <1>3

LEMMA RequestSteps ==
    ASSUME TypeInt, BufferInv, DropInv, ForgetInv, [Next]_vars, NEW g \in Files
    PROVE  /\ Requested(g)' => Requested(g) \/ g \in dirty \union io
           /\ Requested(g) => \/ Requested(g)' \/ ForgetFile(g) \/ SyncMissing(g)
                              \/ SyncFile(g) /\ ~ops[g].canceled
           /\ ForgetFile(g) => ~Requested(g)'
<1>. DEFINE Goal == /\ Requested(g)' => Requested(g) \/ g \in dirty \union io
                    /\ Requested(g) => \/ Requested(g)' \/ ForgetFile(g) \/ SyncMissing(g)
                                       \/ SyncFile(g) /\ ~ops[g].canceled
<1>0. g[1] \in Rels /\ \A r \in Rels : (Main(r) = g => r = g[1])
                                       /\ (<<r, "fsm">> = g => r = g[1])
    BY MainIsFile
<1>1. ASSUME UNCHANGED <<queue, ops>> PROVE Goal
    BY <1>1, SameRequests
<1>2. ASSUME NEW f \in Files, Modify(f) \/ BackendWrite(f) PROVE Goal
    BY <1>1, <1>2 DEF Modify, BackendWrite, mdVars
<1>3. ASSUME NEW f \in Files, BackendWritten(f) PROVE Goal
    <2>1. ops' = ops /\ f \in io
        BY <1>3 DEF BackendWritten, mdVars
    <2>2. CASE Forwarded(FsyncOf(f))
        BY <2>1, <2>2, FsyncForwarded
    <2>3. CASE queue' = queue
        BY <1>1, <2>1, <2>3
    <2>. QED  BY <1>3, <2>2, <2>3, WrittenRequested
<1>4. ASSUME NEW f \in Files, BgBufferSync(f) \/ SyncOneBuffer(f) PROVE Goal
    <2>1. PICK p : /\ BgFlush(f, p)
                   /\ \/ p = Pending /\ queue' = queue
                      \/ p = Absorbed /\ queue' = <<>>
        BY <1>4 DEF BgBufferSync, SyncOneBuffer
    <2>2. g # f => (Requested(g)' <=> Requested(g))
        BY <2>1, FlushedRequests
    <2>3. Requested(f)' /\ f \in dirty
        BY <1>4, <2>1, WrittenRequested DEF BgFlush
    <2>. QED  BY <2>2, <2>3
<1>5. ASSUME NEW f \in Files, SyncFile(f) \/ SyncMissing(f) PROVE Goal
    BY <1>5, SyncedRequests
<1>6. ASSUME NEW r \in Rels,
             \/ Create(r) \/ DropRelation(r) \/ DropMainBuffers(r)
             \/ DropForkBuffers(r) \/ UnlinkFork(r)
      PROVE  Goal
    BY <1>1, <1>6 DEF Create, DropRelation, DropMainBuffers, DropForkBuffers, DropBuffers,
        UnlinkFork, mdVars
<1>7. ASSUME NEW r \in Rels, RegisterUnlink(r) PROVE Goal
    <2>1. Forwarded(UnlinkOf(r)) /\ ops' = ops
        BY <1>7, ForwardSteps DEF RegisterUnlink, mdVars
    <2>. QED  BY <2>1, UnlinkForwarded
<1>8. ASSUME NEW r \in Rels, ForgetMain(r) PROVE Goal
    <2>1. Forwarded(ForgetOf(Main(r))) /\ ops' = ops /\ Main(r) \in Files
        BY <1>8, ForwardSteps, MainIsFile DEF ForgetMain, mdVars
    <2>2. Requested(g)' <=> Requested(g) /\ g # Main(r)
        BY <2>1, ForgetForwarded
    <2>. QED  BY <1>0, <1>8, <2>2 DEF ForgetFile
<1>9. ASSUME NEW r \in Rels, ForgetFork(r) PROVE Goal
    <2>1. r \in Forked
        BY <1>9 DEF ForgetFork, DropInv, Dropping
    <2>2. Forwarded(ForgetOf(<<r, "fsm">>)) /\ ops' = ops /\ <<r, "fsm">> \in Files
        BY <1>9, <2>1, ForwardSteps, MainIsFile DEF ForgetFork, mdVars
    <2>3. Requested(g)' <=> Requested(g) /\ g # <<r, "fsm">>
        BY <2>2, ForgetForwarded
    <2>. QED  BY <1>0, <1>9, <2>3 DEF ForgetFile
<1>10. ASSUME NEW q \in Requesters,
              RequestCheckpoint(q) \/ CheckpointStarted(q) \/ CheckpointDone(q)
       PROVE  Goal
    BY <1>1, <1>10 DEF RequestCheckpoint, CheckpointStarted, CheckpointDone, mdVars
<1>11. ASSUME BgAbsorb \/ BeginCheckpoint PROVE Goal
    BY <1>11, AbsorbedRequests DEF BgAbsorb, BeginCheckpoint, AbsorbFsyncRequests
<1>12. ASSUME BeginSync PROVE Goal
    BY <1>12, SyncBegun
<1>13. ASSUME \/ CheckpointFails \/ FinishCheckpoint \/ PrepareCheckpoint \/ MarkBuffers
              \/ CompleteCheckpoint
       PROVE  Goal
    BY <1>1, <1>13 DEF CheckpointFails, FinishCheckpoint, PrepareCheckpoint, MarkBuffers,
        CompleteCheckpoint, mdVars
<1>14. ASSUME UNCHANGED vars PROVE Goal
    BY <1>1, <1>14 DEF vars, mdVars
<1>15. Goal
    BY <1>2, <1>3, <1>4, <1>5, <1>6, <1>7, <1>8, <1>9, <1>10, <1>11, <1>12, <1>13, <1>14,
       NextSplits
<1>16. ASSUME ForgetFile(g) PROVE ~Requested(g)'
    <2>1. CASE g = Main(g[1]) /\ ForgetMain(g[1])
        <3>1. Forwarded(ForgetOf(g)) /\ ops' = ops
            BY <1>0, <2>1, ForwardSteps DEF ForgetMain, mdVars
        <3>. QED  BY <3>1, ForgetForwarded
    <2>2. CASE g = <<g[1], "fsm">> /\ ForgetFork(g[1])
        <3>1. g[1] \in Forked
            BY <1>0, <2>2 DEF ForgetFork, DropInv, Dropping
        <3>2. Forwarded(ForgetOf(g)) /\ ops' = ops
            BY <2>2, <3>1, ForwardSteps DEF ForgetFork, mdVars
        <3>. QED  BY <3>2, ForgetForwarded
    <2>. QED  BY <1>16, <2>1, <2>2 DEF ForgetFile
<1>. QED  BY <1>15, <1>16

-----------------------------------------------------------------------------
(***************************************************************************)
(* Files that are gone                                                     *)
(***************************************************************************)

LEMMA GoneSteps ==
    ASSUME TypeInt, DropInv, UnlinkInv, [Next]_vars, NEW g \in Files, Gone(g)'
    PROVE  Gone(g) \/ ForgetFile(g)
<1>0. FileTypes /\ g[1] \in Rels /\ Main(g[1]) \in Files
      /\ (g = Main(g[1]) \/ (g[1] \in Forked /\ g = <<g[1], "fsm">>))
    BY MainIsFile DEF TypeInt
<1>. DEFINE Goal == Gone(g) \/ ForgetFile(g)
<1>1. file'[g] # "live" /\ drop'[g[1]] # ForgetStep(g)
    BY DEF Gone, ForgetStep
<1>2. ASSUME UNCHANGED fileVars PROVE Goal
    BY <1>1, <1>2 DEF Gone, fileVars
<1>3. ASSUME NEW f \in Files,
             \/ Modify(f) \/ BackendWrite(f) \/ BackendWritten(f) \/ BgBufferSync(f)
             \/ SyncOneBuffer(f) \/ SyncFile(f) \/ SyncMissing(f)
      PROVE  Goal
    BY <1>2, <1>3 DEF Modify, BackendWrite, BackendWritten, BgBufferSync, SyncOneBuffer, BgFlush,
        SyncFile, SyncMissing
<1>4. ASSUME NEW r \in Rels, Create(r) PROVE Goal
    BY <1>0, <1>1, <1>4 DEF Create, Gone
<1>5. ASSUME NEW r \in Rels, DropRelation(r) \/ RegisterUnlink(r) PROVE Goal
    BY <1>0, <1>1, <1>5 DEF DropRelation, RegisterUnlink, Gone, ForgetStep, FileTypes
<1>6. ASSUME NEW r \in Rels, DropMainBuffers(r) PROVE Goal
    <2>1. /\ file' = [file EXCEPT ![Main(r)] = "dropped"]
          /\ drop[r] = "mainBuffers" /\ drop' = [drop EXCEPT ![r] = "mainForget"]
        BY <1>6 DEF DropMainBuffers, DropBuffers
    <2>2. Main(r)[1] = r
        BY MainIsFile
    <2>3. g # Main(r)
        BY <1>0, <1>1, <2>1, <2>2 DEF ForgetStep, FileTypes
    <2>. QED  BY <1>0, <1>1, <2>1, <2>3 DEF Gone, ForgetStep, FileTypes
<1>7. ASSUME NEW r \in Rels, DropForkBuffers(r) PROVE Goal
    <2>1. /\ file' = [file EXCEPT ![<<r, "fsm">>] = "dropped"]
          /\ drop[r] = "fsmBuffers" /\ drop' = [drop EXCEPT ![r] = "fsmForget"]
        BY <1>7 DEF DropForkBuffers, DropBuffers
    <2>2. <<r, "fsm">>[1] = r /\ <<r, "fsm">> # Main(r)
        BY MainIsFile
    <2>3. g # <<r, "fsm">>
        BY <1>0, <1>1, <2>1, <2>2 DEF ForgetStep, FileTypes
    <2>. QED  BY <1>0, <1>1, <2>1, <2>3 DEF Gone, ForgetStep, FileTypes
<1>8. ASSUME NEW r \in Rels, ForgetMain(r) PROVE Goal
    BY <1>0, <1>1, <1>8 DEF ForgetMain, Gone, ForgetStep, ForgetFile, FileTypes
<1>9. ASSUME NEW r \in Rels, ForgetFork(r) PROVE Goal
    BY <1>0, <1>1, <1>9 DEF ForgetFork, Gone, ForgetStep, ForgetFile, FileTypes
<1>10. ASSUME NEW r \in Rels, UnlinkFork(r) PROVE Goal
    <2>1. /\ \A f \in Files : f \notin {<<r, "fsm">>} => file'[f] = file[f]
          /\ drop[r] = "fsmUnlink" /\ drop' = [drop EXCEPT ![r] = "no"]
          /\ file[<<r, "fsm">>] = "dropped"
        BY <1>10 DEF UnlinkFork, Removed, DropInv, Dropping
    <2>. QED  BY <1>0, <1>1, <2>1 DEF Gone, ForgetStep, FileTypes
<1>11. ASSUME CompleteCheckpoint PROVE Goal
    <2>. DEFINE gone == {Main(unlinks[i].rel) : i \in 1 .. OldUnlinks}
    <2>1. (\A f \in Files : f \notin gone => file'[f] = file[f]) /\ drop' = drop
        BY <1>11 DEF CompleteCheckpoint, Removed
    <2>2. \A f \in gone : file[f] = "dropped"
        BY OldAreDropped
    <2>. HIDE DEF gone
    <2>. QED  BY <1>0, <1>1, <2>1, <2>2 DEF Gone
<1>12. ASSUME NEW q \in Requesters,
              RequestCheckpoint(q) \/ CheckpointStarted(q) \/ CheckpointDone(q)
       PROVE  Goal
    BY <1>2, <1>12 DEF RequestCheckpoint, CheckpointStarted, CheckpointDone
<1>13. ASSUME \/ BgAbsorb \/ BeginCheckpoint \/ BeginSync \/ CheckpointFails
              \/ FinishCheckpoint \/ PrepareCheckpoint \/ MarkBuffers
       PROVE  Goal
    BY <1>2, <1>13 DEF BgAbsorb, BeginCheckpoint, BeginSync, CheckpointFails, FinishCheckpoint,
        PrepareCheckpoint, MarkBuffers
<1>14. CASE UNCHANGED vars
    BY <1>2, <1>14 DEF vars
<1>. QED
    BY <1>3, <1>4, <1>5, <1>6, <1>7, <1>8, <1>9, <1>10, <1>11, <1>12, <1>13, <1>14, NextSplits

LEMMA RevokedInvStep ==
    TypeInt /\ BufferInv /\ DropInv /\ UnlinkInv /\ ForgetInv /\ RevokedInv /\ [Next]_vars
        => RevokedInv'
<1>. SUFFICES ASSUME TypeInt, BufferInv, DropInv, UnlinkInv, ForgetInv, RevokedInv, [Next]_vars,
                     NEW g \in Files, Gone(g)'
              PROVE  ~Requested(g)'
    BY DEF RevokedInv
<1>1. CASE Gone(g)
    <2>1. ~Requested(g) /\ g \notin dirty \union io
        BY <1>1 DEF RevokedInv, BufferInv, Gone
    <2>. QED  BY <2>1, RequestSteps
<1>2. CASE ForgetFile(g)
    BY <1>2, RequestSteps
<1>. QED  BY <1>1, <1>2, GoneSteps

\* The number of a file whose data are not on disk is not given up.
LEMMA LeftStays ==
    ASSUME TypeInt, DropInv, UnlinkInv, [Next]_vars, ~CompleteCheckpoint, NEW g \in Files, Left(g)
    PROVE  Left(g)'
<1>0. FileTypes /\ g[1] \in Rels /\ Main(g[1]) \in Files /\ Main(g[1])[1] = g[1]
      /\ \A r \in Rels : Main(g[1]) # <<r, "fsm">> /\ (Main(r) = Main(g[1]) => r = g[1])
    BY MainIsFile DEF TypeInt
<1>1. file[g] # "live" /\ file[Main(g[1])] \in {"dropped", "retired"}
    BY DEF Left
<1>2. ASSUME UNCHANGED file PROVE Left(g)'
    BY <1>1, <1>2 DEF Left
<1>3. ASSUME NEW f \in Files,
             \/ Modify(f) \/ BackendWrite(f) \/ BackendWritten(f) \/ BgBufferSync(f)
             \/ SyncOneBuffer(f) \/ SyncFile(f) \/ SyncMissing(f)
      PROVE  Left(g)'
    BY <1>2, <1>3 DEF Modify, BackendWrite, BackendWritten, BgBufferSync, SyncOneBuffer, BgFlush,
        SyncFile, SyncMissing, fileVars
<1>4. ASSUME NEW r \in Rels, Create(r) PROVE Left(g)'
    BY <1>0, <1>1, <1>4 DEF Create, Left
<1>5. ASSUME NEW r \in Rels,
             DropRelation(r) \/ ForgetMain(r) \/ RegisterUnlink(r) \/ ForgetFork(r)
      PROVE  Left(g)'
    BY <1>2, <1>5 DEF DropRelation, ForgetMain, RegisterUnlink, ForgetFork
<1>6. ASSUME NEW r \in Rels, DropMainBuffers(r) \/ DropForkBuffers(r) PROVE Left(g)'
    <2>1. PICK f : file' = [file EXCEPT ![f] = "dropped"]
        BY <1>6 DEF DropMainBuffers, DropForkBuffers, DropBuffers
    <2>. QED  BY <1>0, <1>1, <2>1 DEF Left, FileTypes
<1>7. ASSUME NEW r \in Rels, UnlinkFork(r) PROVE Left(g)'
    <2>1. \A f \in Files : IF f \notin {<<r, "fsm">>} THEN file'[f] = file[f]
                                                      ELSE file'[f] \in {"retired", "none"}
        BY <1>7 DEF UnlinkFork, Removed
    <2>2. file'[Main(g[1])] = file[Main(g[1])]
        BY <1>0, <2>1
    <2>3. file'[g] # "live"
        BY <1>1, <2>1
    <2>. QED  BY <1>1, <2>2, <2>3 DEF Left
<1>8. ASSUME NEW q \in Requesters,
             RequestCheckpoint(q) \/ CheckpointStarted(q) \/ CheckpointDone(q)
      PROVE  Left(g)'
    BY <1>2, <1>8 DEF RequestCheckpoint, CheckpointStarted, CheckpointDone, fileVars
<1>9. ASSUME \/ BgAbsorb \/ BeginCheckpoint \/ BeginSync \/ CheckpointFails
             \/ FinishCheckpoint \/ PrepareCheckpoint \/ MarkBuffers
      PROVE  Left(g)'
    BY <1>2, <1>9 DEF BgAbsorb, BeginCheckpoint, BeginSync, CheckpointFails, FinishCheckpoint,
        PrepareCheckpoint, MarkBuffers, fileVars
<1>10. CASE UNCHANGED vars
    BY <1>2, <1>10 DEF vars, fileVars
<1>. QED
    BY <1>3, <1>4, <1>5, <1>6, <1>7, <1>8, <1>9, <1>10, NextSplits

\* How the checkpoint moves on.
LEMMA AtSteps ==
    ASSUME [Next]_vars, at' # at
    PROVE  \/ BeginCheckpoint \/ PrepareCheckpoint \/ MarkBuffers \/ BeginSync
           \/ CompleteCheckpoint \/ FinishCheckpoint \/ CheckpointFails
BY NextSplits DEF Modify, BackendWrite, BackendWritten, BgBufferSync, SyncOneBuffer, BgFlush,
    SyncFile, SyncMissing, Create, DropRelation, DropMainBuffers, ForgetMain, RegisterUnlink,
    DropForkBuffers, DropBuffers, ForgetFork, UnlinkFork, RequestCheckpoint, CheckpointStarted,
    CheckpointDone, BgAbsorb, vars

LEMMA ForgetInvStep ==
    TypeInt /\ DropInv /\ UnlinkInv /\ ForgetInv /\ [Next]_vars => ForgetInv'
<1>. SUFFICES ASSUME TypeInt, DropInv, UnlinkInv, ForgetInv, [Next]_vars,
                     Running', NEW g \in Files, Queued(ForgetOf(g))'
              PROVE  Left(g)'
    BY DEF ForgetInv
<1>1. queue' # <<>>
    BY DEF Queued, Has
<1>2. Running /\ ~CompleteCheckpoint
    <2>1. ~BeginCheckpoint
        BY <1>1 DEF BeginCheckpoint, AbsorbFsyncRequests
    <2>2. at' \in {"prepare", "mark", "write", "sync"}
        BY DEF Running
    <2>3. ~CompleteCheckpoint /\ ~FinishCheckpoint /\ ~CheckpointFails
        BY <2>2 DEF CompleteCheckpoint, FinishCheckpoint, CheckpointFails
    <2>4. PrepareCheckpoint \/ MarkBuffers \/ BeginSync => Running
        BY DEF PrepareCheckpoint, MarkBuffers, BeginSync, Running
    <2>. QED  BY <2>1, <2>2, <2>3, <2>4, AtSteps DEF Running
<1>3. Queued(ForgetOf(g)) \/ ForgetFile(g)
    <2>1. ForgetOf(g) \in Requests
        BY DEF Requests
    <2>. QED  BY <1>1, <2>1, ListSteps DEF ListStep, Forwarded, Queued, Has
<1>4. CASE Queued(ForgetOf(g))
    BY <1>2, <1>4, LeftStays DEF ForgetInv
<1>5. CASE ForgetFile(g)
    <2>1. file' = file /\ g[1] \in Rels
        BY <1>5, MainIsFile DEF ForgetFile, ForgetMain, ForgetFork
    <2>2. file[g] = "dropped" /\ file[Main(g[1])] \in {"dropped", "retired"}
        BY <1>5, <2>1 DEF ForgetFile, ForgetMain, ForgetFork, DropInv, Dropping
    <2>. QED  BY <2>1, <2>2 DEF Left
<1>. QED  BY <1>3, <1>4, <1>5

LEMMA FdInvStep == TypeInt /\ DropInv /\ UnlinkInv /\ FdInv /\ [Next]_vars => FdInv'
<1>. SUFFICES ASSUME TypeInt, DropInv, UnlinkInv, FdInv, [Next]_vars,
                     at' # "finish", NEW g \in Files, fd'[g] = "stale"
              PROVE  Left(g)'
    BY DEF FdInv
<1>0. FileTypes
    BY DEF TypeInt
<1>1. at # "finish" /\ ~CompleteCheckpoint
    <2>1. ~FinishCheckpoint
        BY DEF FinishCheckpoint, CloseAll
    <2>2. ~CompleteCheckpoint
        BY DEF CompleteCheckpoint
    <2>. QED
        BY <2>1, <2>2, AtSteps DEF BeginCheckpoint, PrepareCheckpoint, MarkBuffers, BeginSync,
            CheckpointFails
<1>2. ASSUME fd[g] = "stale" PROVE Left(g)'
    BY <1>1, <1>2, LeftStays DEF FdInv
<1>3. ASSUME UNCHANGED fd PROVE Left(g)'
    BY <1>2, <1>3
<1>4. ASSUME NEW f \in Files, Modify(f) \/ BackendWrite(f) \/ BackendWritten(f) PROVE Left(g)'
    BY <1>3, <1>4 DEF Modify, BackendWrite, BackendWritten
<1>5. ASSUME NEW f \in Files, BgBufferSync(f) \/ SyncOneBuffer(f) PROVE Left(g)'
    BY <1>0, <1>2, <1>5 DEF BgBufferSync, SyncOneBuffer, BgFlush, FileTypes
<1>6. ASSUME NEW f \in Files, SyncFile(f) \/ SyncMissing(f) PROVE Left(g)'
    BY <1>0, <1>2, <1>6 DEF SyncFile, SyncMissing, FileTypes
<1>7. ASSUME NEW r \in Rels,
             \/ Create(r) \/ DropRelation(r) \/ DropMainBuffers(r) \/ ForgetMain(r)
             \/ RegisterUnlink(r) \/ DropForkBuffers(r) \/ ForgetFork(r)
      PROVE  Left(g)'
    BY <1>3, <1>7 DEF Create, DropRelation, DropMainBuffers, ForgetMain, RegisterUnlink,
        DropForkBuffers, DropBuffers, ForgetFork
<1>8. ASSUME NEW r \in Rels, UnlinkFork(r) PROVE Left(g)'
    <2>1. CASE g = <<r, "fsm">>
        <3>1. g[1] = r /\ Main(r) # g /\ Main(r) \in Files
            BY <2>1, MainIsFile
        <3>2. file[Main(r)] \in {"dropped", "retired"}
            BY <1>8 DEF UnlinkFork, DropInv, Dropping
        <3>3. file[g] # "live"
            BY <1>8, <2>1 DEF UnlinkFork, DropInv, Dropping
        <3>. QED  BY <1>1, <3>1, <3>2, <3>3, LeftStays DEF Left
    <2>2. CASE g # <<r, "fsm">>
        BY <1>2, <1>8, <2>2 DEF UnlinkFork, Removed
    <2>. QED  BY <2>1, <2>2
<1>9. ASSUME NEW q \in Requesters,
             RequestCheckpoint(q) \/ CheckpointStarted(q) \/ CheckpointDone(q)
      PROVE  Left(g)'
    BY <1>3, <1>9 DEF RequestCheckpoint, CheckpointStarted, CheckpointDone
<1>10. ASSUME \/ BgAbsorb \/ BeginCheckpoint \/ BeginSync \/ PrepareCheckpoint \/ MarkBuffers
       PROVE  Left(g)'
    BY <1>3, <1>10 DEF BgAbsorb, BeginCheckpoint, BeginSync, PrepareCheckpoint, MarkBuffers
<1>11. ASSUME CheckpointFails \/ FinishCheckpoint PROVE Left(g)'
    BY <1>11 DEF CheckpointFails, FinishCheckpoint, CloseAll
<1>12. CASE UNCHANGED vars
    BY <1>3, <1>12 DEF vars
<1>. QED
    BY <1>1, <1>4, <1>5, <1>6, <1>7, <1>8, <1>9, <1>10, <1>11, <1>12, NextSplits

-----------------------------------------------------------------------------
(***************************************************************************)
(* Nothing is forgotten                                                    *)
(***************************************************************************)

LEMMA PendingInvStep ==
    /\ TypeInt /\ BufferInv /\ DropInv /\ ForgetInv /\ FdInv /\ PendingInv /\ [Next]_vars
    => PendingInv'
<1>. SUFFICES ASSUME TypeInt, BufferInv, DropInv, ForgetInv, FdInv, PendingInv, [Next]_vars,
                     NEW g \in unsynced'
              PROVE  g \in io' \/ Requested(g)'
    BY DEF PendingInv
<1>0. FileTypes
    BY DEF TypeInt
<1>. DEFINE Goal == g \in io' \/ Requested(g)'
<1>1. ASSUME g \in unsynced, g \in io => g \in io' PROVE Goal
    <2>1. file[g] = "live" /\ g \in Files
        BY <1>0, <1>1 DEF BufferInv, FileTypes
    <2>2. ~ForgetFile(g) /\ ~SyncMissing(g)
        BY <2>1, MainIsFile DEF ForgetFile, ForgetMain, ForgetFork, DropInv, Dropping, SyncMissing
    <2>3. ASSUME SyncFile(g) PROVE ops[g].canceled
        <3>1. fd[g] # "stale"
            BY <2>1, <2>3 DEF SyncFile, FdInv, Left
        <3>. QED  BY <2>3, <3>1 DEF SyncFile, Fsync
    <2>4. g \in io \/ Requested(g)
        BY <1>1 DEF PendingInv
    <2>. QED  BY <1>1, <2>1, <2>2, <2>3, <2>4, RequestSteps
<1>2. ASSUME NEW f \in Files, BackendWrite(f) PROVE Goal
    BY <1>1, <1>2 DEF BackendWrite, Write
<1>3. ASSUME NEW f \in Files, BackendWritten(f) PROVE Goal
    <2>1. /\ io' = io \ {f} /\ ops' = ops
          /\ \/ Forwarded(FsyncOf(f)) /\ unsynced' = unsynced
             \/ Fsync(f)
        BY <1>3, WrittenRequested DEF BackendWritten, mdVars
    <2>2. CASE g = f
        <3>1. Forwarded(FsyncOf(f))
            BY <2>1, <2>2 DEF Fsync
        <3>. QED  BY <2>1, <2>2, <3>1, FsyncForwarded
    <2>3. CASE g # f
        <3>1. g \in unsynced
            BY <2>1, <2>3 DEF Fsync
        <3>. QED  BY <1>1, <2>1, <2>3, <3>1
    <2>. QED  BY <2>2, <2>3
<1>4. ASSUME NEW f \in Files, BgBufferSync(f) \/ SyncOneBuffer(f) PROVE Goal
    <2>1. CASE g = f
        BY <1>4, <2>1, WrittenRequested
    <2>2. CASE g # f
        <3>1. g \in unsynced /\ io' = io
            BY <1>4, <2>2 DEF BgBufferSync, SyncOneBuffer, BgFlush, Write
        <3>. QED  BY <1>1, <3>1
    <2>. QED  BY <2>1, <2>2
<1>5. ASSUME unsynced' \subseteq unsynced, io' = io PROVE Goal
    BY <1>1, <1>5
<1>6. ASSUME NEW f \in Files, Modify(f) \/ SyncFile(f) \/ SyncMissing(f) PROVE Goal
    BY <1>5, <1>6 DEF Modify, SyncFile, SyncMissing, Fsync, bufVars
<1>7. ASSUME NEW r \in Rels,
             \/ Create(r) \/ DropRelation(r) \/ DropMainBuffers(r) \/ ForgetMain(r)
             \/ RegisterUnlink(r) \/ DropForkBuffers(r) \/ ForgetFork(r) \/ UnlinkFork(r)
      PROVE  Goal
    BY <1>5, <1>7 DEF Create, DropRelation, DropMainBuffers, ForgetMain, RegisterUnlink,
        DropForkBuffers, DropBuffers, ForgetFork, UnlinkFork, bufVars
<1>8. ASSUME NEW q \in Requesters,
             RequestCheckpoint(q) \/ CheckpointStarted(q) \/ CheckpointDone(q)
      PROVE  Goal
    BY <1>5, <1>8 DEF RequestCheckpoint, CheckpointStarted, CheckpointDone, bufVars
<1>9. ASSUME \/ BgAbsorb \/ BeginCheckpoint \/ BeginSync \/ PrepareCheckpoint \/ MarkBuffers
             \/ CheckpointFails \/ CompleteCheckpoint \/ FinishCheckpoint
      PROVE  Goal
    BY <1>5, <1>9 DEF BgAbsorb, BeginCheckpoint, BeginSync, PrepareCheckpoint, MarkBuffers,
        CheckpointFails, CompleteCheckpoint, FinishCheckpoint, bufVars
<1>10. ASSUME UNCHANGED vars PROVE Goal
    BY <1>5, <1>10 DEF vars, bufVars
<1>. QED
    BY <1>2, <1>3, <1>4, <1>6, <1>7, <1>8, <1>9, <1>10, NextSplits

-----------------------------------------------------------------------------
(***************************************************************************)
(* The cycles of the table                                                 *)
(***************************************************************************)

\* No step but BeginSync makes an entry of an earlier cycle.
LEMMA CycleSteps ==
    ASSUME TypeInt, [Next]_vars, ~BeginSync
    PROVE  /\ syncCtr' = syncCtr
           /\ syncBusy' = syncBusy \/ CompleteCheckpoint
           /\ \A g \in DOMAIN ops' : ops'[g].cycle # syncCtr =>
                    g \in DOMAIN ops /\ ops'[g].cycle = ops[g].cycle
<1>. DEFINE Goal == /\ syncCtr' = syncCtr
                    /\ syncBusy' = syncBusy \/ CompleteCheckpoint
                    /\ \A g \in DOMAIN ops' : ops'[g].cycle # syncCtr =>
                            g \in DOMAIN ops /\ ops'[g].cycle = ops[g].cycle
<1>1. ASSUME UNCHANGED <<ops, syncCtr>>, syncBusy' = syncBusy \/ CompleteCheckpoint PROVE Goal
    BY <1>1
<1>. DEFINE o == Absorbed.ops
<1>2. \A g \in DOMAIN o : o[g].cycle # syncCtr => g \in DOMAIN ops /\ o[g].cycle = ops[g].cycle
    BY AbsorbedTable
<1>. HIDE DEF o
<1>3. ASSUME NEW f \in Files, Modify(f) \/ BackendWrite(f) \/ BackendWritten(f) PROVE Goal
    BY <1>1, <1>3 DEF Modify, BackendWrite, BackendWritten, mdVars
<1>4. ASSUME NEW f \in Files, BgBufferSync(f) \/ SyncOneBuffer(f) PROVE Goal
    <2>1. PICK p : BgFlush(f, p) /\ (p = Pending \/ p = Absorbed)
        BY <1>4 DEF BgBufferSync, SyncOneBuffer
    <2>2. WithFsync(ops', p.ops, f)
        BY <2>1, FlushedTable
    <2>3. p.ops = ops \/ p.ops = o
        BY <2>1 DEF Pending, o
    <2>4. \A g \in DOMAIN ops' : ops'[g].cycle # syncCtr => g \in DOMAIN p.ops /\ ops'[g] = p.ops[g]
        BY <2>2 DEF WithFsync
    <2>5. UNCHANGED <<syncCtr, syncBusy>>
        BY <2>1 DEF BgFlush
    <2>. QED  BY <1>2, <2>3, <2>4, <2>5
<1>5. ASSUME NEW f \in Files, SyncFile(f) \/ SyncMissing(f) PROVE Goal
    <2>1. \/ ops' = [g \in DOMAIN ops \ {f} |-> ops[g]]
          \/ ops' = [g \in DOMAIN o \ {f} |-> o[g]]
          \/ ops' = o
        BY <1>5 DEF SyncFile, SyncMissing, Done, Restrict, o
    <2>2. UNCHANGED <<syncCtr, syncBusy>>
        BY <1>5 DEF SyncFile, SyncMissing
    <2>. QED  BY <1>2, <2>1, <2>2
<1>6. ASSUME NEW r \in Rels,
             \/ Create(r) \/ DropRelation(r) \/ DropMainBuffers(r) \/ ForgetMain(r)
             \/ RegisterUnlink(r) \/ DropForkBuffers(r) \/ ForgetFork(r) \/ UnlinkFork(r)
      PROVE  Goal
    BY <1>1, <1>6 DEF Create, DropRelation, DropMainBuffers, ForgetMain, RegisterUnlink,
        DropForkBuffers, DropBuffers, ForgetFork, UnlinkFork, mdVars
<1>7. ASSUME NEW q \in Requesters,
             RequestCheckpoint(q) \/ CheckpointStarted(q) \/ CheckpointDone(q)
      PROVE  Goal
    BY <1>1, <1>7 DEF RequestCheckpoint, CheckpointStarted, CheckpointDone, mdVars
<1>8. ASSUME BgAbsorb \/ BeginCheckpoint PROVE Goal
    <2>1. ops' = o /\ UNCHANGED <<syncCtr, syncBusy>>
        BY <1>8 DEF BgAbsorb, BeginCheckpoint, AbsorbFsyncRequests, o
    <2>. QED  BY <1>2, <2>1
<1>9. ASSUME \/ PrepareCheckpoint \/ MarkBuffers \/ CheckpointFails \/ CompleteCheckpoint
             \/ FinishCheckpoint
      PROVE  Goal
    BY <1>1, <1>9 DEF PrepareCheckpoint, MarkBuffers, CheckpointFails, CompleteCheckpoint,
        FinishCheckpoint, mdVars
<1>10. CASE UNCHANGED vars
    BY <1>1, <1>10 DEF vars, mdVars
<1>. QED
    BY <1>3, <1>4, <1>5, <1>6, <1>7, <1>8, <1>9, <1>10, NextSplits

\* All entries are of this cycle when mdsync begins, a new or an old one.
LEMMA SyncBegins ==
    ASSUME TypeInt, SyncInv, BeginSync
    PROVE  /\ queue' = <<>> /\ syncCtr' = (syncCtr + 1) % CycleModulus /\ syncCtr' # syncCtr
           /\ \A g \in DOMAIN ops' : ops'[g].cycle = syncCtr
<1>. DEFINE o == Absorbed.ops
<1>1. /\ queue' = <<>> /\ syncCtr' = (syncCtr + 1) % CycleModulus
      /\ ops' = [f \in DOMAIN o |-> [o[f] EXCEPT !.cycle = IF syncBusy THEN syncCtr ELSE @]]
    BY DEF BeginSync
<1>2. /\ o \in [DOMAIN o -> Entries]
      /\ \A g \in DOMAIN o : o[g].cycle # syncCtr => g \in DOMAIN ops /\ o[g].cycle = ops[g].cycle
    BY AbsorbedTable
<1>3. syncCtr' # syncCtr
    <2>1. syncCtr \in 0 .. CycleModulus - 1 /\ CycleModulus \in Nat \ {0} /\ CycleModulus >= 2
        BY ConstantsAssumption DEF TypeInt, RequestTypes, Cycles
    <2>. QED  BY <1>1, <2>1, SuccessorIs
<1>. HIDE DEF o
<1>4. ASSUME NEW g \in DOMAIN ops' PROVE ops'[g].cycle = syncCtr
    <2>1. g \in DOMAIN o /\ o[g] \in Entries
        BY <1>1, <1>2
    <2>2. ops'[g] = [o[g] EXCEPT !.cycle = IF syncBusy THEN syncCtr ELSE o[g].cycle]
        BY <1>1, <2>1
    <2>3. ops'[g].cycle = IF syncBusy THEN syncCtr ELSE o[g].cycle
        BY <2>1, <2>2 DEF Entries
    <2>4. ~syncBusy => o[g].cycle = syncCtr
        BY <1>2, <2>1 DEF SyncInv
    <2>. QED  BY <2>3, <2>4
<1>. QED  BY <1>1, <1>3, <1>4

LEMMA SyncInvStep ==
    TypeInt /\ DropInv /\ RevokedInv /\ SyncInv /\ [Next]_vars => SyncInv'
<1>. SUFFICES ASSUME TypeInt, DropInv, RevokedInv, SyncInv, [Next]_vars PROVE SyncInv'
    OBVIOUS
<1>1. failures' = NoFile
    <2>1. ASSUME NEW f \in Files, SyncMissing(f) PROVE failures' = failures
        <3>1. file[f] \in {"none", "retired"} /\ f \in DOMAIN ops
            BY <2>1 DEF SyncMissing, Due
        <3>2. Gone(f)
            <4>1. f[1] \in Rels /\ (f = Main(f[1]) \/ f = <<f[1], "fsm">>)
                BY MainIsFile
            <4>. QED  BY <3>1, <4>1 DEF Gone, ForgetStep, DropInv, Dropping
        <3>3. ~Requested(f)
            BY <3>2 DEF RevokedInv
        <3>4. Absorbed.ops[f].canceled
            BY <3>1, <3>3, AbsorbedTable
        <3>. QED  BY <2>1, <3>4 DEF SyncMissing
    <2>2. failures = NoFile
        BY DEF SyncInv
    <2>. QED  BY <2>1, <2>2, NextSplits DEF Modify, BackendWrite, BackendWritten, BgBufferSync,
                SyncOneBuffer, BgFlush, SyncFile, Create, DropRelation, DropMainBuffers,
                ForgetMain, RegisterUnlink, DropForkBuffers, DropBuffers, ForgetFork, UnlinkFork,
                RequestCheckpoint, CheckpointStarted, CheckpointDone, BgAbsorb, BeginCheckpoint,
                CheckpointFails, PrepareCheckpoint, MarkBuffers, BeginSync, CompleteCheckpoint,
                FinishCheckpoint, mdVars, vars
<1>2. CASE BeginSync
    <2>1. syncBusy' = TRUE
        BY <1>2 DEF BeginSync
    <2>. QED  BY <1>1, <1>2, <2>1, SyncBegins DEF SyncInv
<1>3. CASE CompleteCheckpoint
    <2>1. /\ at' = "finish" /\ syncBusy' = FALSE /\ UNCHANGED <<ops, syncCtr>>
          /\ \A f \in DOMAIN ops : ops[f].cycle = syncCtr
        BY <1>3 DEF CompleteCheckpoint, Due
    <2>. QED  BY <1>1, <2>1 DEF SyncInv
<1>4. CASE ~BeginSync /\ ~CompleteCheckpoint
    <2>1. at' = "sync" => at = "sync"
        BY <1>4, AtSteps DEF BeginCheckpoint, PrepareCheckpoint, MarkBuffers, FinishCheckpoint,
            CheckpointFails
    <2>2. /\ syncCtr' = syncCtr /\ syncBusy' = syncBusy
          /\ \A g \in DOMAIN ops' : ops'[g].cycle # syncCtr =>
                g \in DOMAIN ops /\ ops'[g].cycle = ops[g].cycle
        BY <1>4, CycleSteps
    <2>. QED  BY <1>1, <2>1, <2>2 DEF SyncInv
<1>. QED  BY <1>2, <1>3, <1>4

-----------------------------------------------------------------------------
(***************************************************************************)
(* Drops that a crash would replay                                         *)
(***************************************************************************)

LEMMA ReplayInvStep ==
    TypeInt /\ DropInv /\ UnlinkInv /\ ReplayInv /\ [Next]_vars => ReplayInv'
<1>. SUFFICES ASSUME TypeInt, DropInv, UnlinkInv, ReplayInv, [Next]_vars, NEW s \in Rels
              PROVE  Replaying(s)'
    BY DEF ReplayInv
<1>0. /\ FileTypes /\ Replaying(s) /\ Dropping(s) /\ OneUnlink(s) /\ Main(s) \in Files
      /\ Main(s)[1] = s
      /\ \A r \in Rels : Main(s) # <<r, "fsm">> /\ (Main(r) = Main(s) => r = s)
    BY MainIsFile DEF ReplayInv, DropInv, UnlinkInv, TypeInt
<1>. DEFINE Late == {"mark", "write", "sync"}
            Marked == \A i \in DOMAIN unlinks : unlinks[i].rel = s => unlinks[i].cycle = ckptCtr
\* The list of unlinks, without what DropRelation adds to replayNext.
<1>1. ASSUME ~PrepareCheckpoint, ~CompleteCheckpoint, at' \in Late, Marked PROVE Marked'
    <2>1. ckptCtr' = ckptCtr
        BY <1>1, NextSplits DEF Modify, BackendWrite, BackendWritten, BgBufferSync,
            SyncOneBuffer, BgFlush, SyncFile, SyncMissing, Create, DropRelation, DropMainBuffers,
            ForgetMain, RegisterUnlink, DropForkBuffers, DropBuffers, ForgetFork, UnlinkFork,
            RequestCheckpoint, CheckpointStarted, CheckpointDone, BgAbsorb, BeginCheckpoint,
            CheckpointFails, MarkBuffers, BeginSync, FinishCheckpoint, mdVars, vars
    <2>2. CASE unlinks' = unlinks
        BY <1>1, <2>1, <2>2
    <2>3. CASE unlinks' = Absorbed.unlinks
        <3>. DEFINE u == Absorbed.unlinks
        <3>1. \A i \in DOMAIN u : \/ i \in DOMAIN unlinks /\ u[i] = unlinks[i]
                                  \/ u[i].cycle = ckptCtr
            BY AbsorbedList
        <3>. HIDE DEF u
        <3>2. unlinks' = u
            BY <2>3 DEF u
        <3>. QED  BY <1>1, <2>1, <3>1, <3>2
    <2>. QED  BY <1>1, <2>2, <2>3, ListSteps DEF ListStep
<1>2. at' \in Late => at \in Late \/ PrepareCheckpoint
    BY AtSteps DEF BeginCheckpoint, MarkBuffers, BeginSync, CompleteCheckpoint,
        FinishCheckpoint, CheckpointFails
<1>3. ASSUME UNCHANGED <<file, drop, replayVars>>, ~PrepareCheckpoint, ~CompleteCheckpoint
      PROVE  Replaying(s)'
    BY <1>0, <1>1, <1>2, <1>3 DEF Replaying, replayVars
<1>4. ASSUME UNCHANGED replayVars, ~PrepareCheckpoint, ~CompleteCheckpoint,
             s \in replay => /\ file'[Main(s)] # "none"
                             /\ file'[Main(s)] = "live" => drop'[s] # "no"
      PROVE  Replaying(s)'
    BY <1>0, <1>1, <1>2, <1>4 DEF Replaying, replayVars
<1>5. ASSUME NEW r \in Rels, Create(r) PROVE Replaying(s)'
    <2>1. file'[Main(s)] = IF s = r THEN "live" ELSE file[Main(s)]
        BY <1>0, <1>5 DEF Create
    <2>2. s = r => s \notin replay
        BY <1>0, <1>5 DEF Create, Replaying
    <2>3. UNCHANGED <<drop, replayVars, at>>
        BY <1>5 DEF Create
    <2>4. ~PrepareCheckpoint /\ ~CompleteCheckpoint
        BY <2>3 DEF PrepareCheckpoint, CompleteCheckpoint
    <2>. QED  BY <1>0, <1>4, <2>1, <2>2, <2>3, <2>4 DEF Replaying
<1>6. ASSUME NEW r \in Rels, DropRelation(r) PROVE Replaying(s)'
    <2>1. /\ file' = file /\ drop' = [drop EXCEPT ![r] = "mainBuffers"] /\ at' = at
          /\ file[Main(r)] = "live"
          /\ replay' = replay \union {r} /\ replayNext' = replayNext \union {r}
        BY <1>6 DEF DropRelation
    <2>2. ~PrepareCheckpoint /\ ~CompleteCheckpoint
        BY <2>1 DEF PrepareCheckpoint, CompleteCheckpoint
    <2>3. s = r => Marked
        BY <1>0, <2>1 DEF OneUnlink, Unlinking
    <2>4. s \in replayNext /\ at \in Late => Marked
        BY <1>0 DEF Replaying
    <2>5. s \in replayNext' /\ at' \in Late => Marked'
        BY <1>1, <2>1, <2>2, <2>3, <2>4
    <2>. QED  BY <1>0, <2>1, <2>5 DEF Replaying, FileTypes
<1>7. ASSUME NEW r \in Rels, DropMainBuffers(r) \/ DropForkBuffers(r) PROVE Replaying(s)'
    <2>1. UNCHANGED <<at, replayVars>>
        BY <1>7 DEF DropMainBuffers, DropForkBuffers, DropBuffers
    <2>2. ~PrepareCheckpoint /\ ~CompleteCheckpoint
        BY <2>1 DEF PrepareCheckpoint, CompleteCheckpoint
    <2>3. file'[Main(s)] \in {file[Main(s)], "dropped"} /\ (drop[s] # "no" => drop'[s] # "no")
        BY <1>0, <1>7 DEF DropMainBuffers, DropForkBuffers, DropBuffers, FileTypes
    <2>. QED  BY <1>0, <1>4, <2>1, <2>2, <2>3 DEF Replaying
<1>8. ASSUME NEW r \in Rels, ForgetMain(r) \/ RegisterUnlink(r) \/ ForgetFork(r)
      PROVE  Replaying(s)'
    <2>1. UNCHANGED <<at, file, replayVars>>
        BY <1>8 DEF ForgetMain, RegisterUnlink, ForgetFork
    <2>2. ~PrepareCheckpoint /\ ~CompleteCheckpoint
        BY <2>1 DEF PrepareCheckpoint, CompleteCheckpoint
    <2>3. file[Main(s)] = "live" /\ drop[s] # "no" => drop'[s] # "no"
        BY <1>0, <1>8 DEF ForgetMain, RegisterUnlink, ForgetFork, FileTypes, Dropping
    <2>. QED  BY <1>0, <1>4, <2>1, <2>2, <2>3 DEF Replaying
<1>9. ASSUME NEW r \in Rels, UnlinkFork(r) PROVE Replaying(s)'
    <2>1. UNCHANGED <<at, replayVars>>
        BY <1>9 DEF UnlinkFork
    <2>2. ~PrepareCheckpoint /\ ~CompleteCheckpoint
        BY <2>1 DEF PrepareCheckpoint, CompleteCheckpoint
    <2>3. file'[Main(s)] = file[Main(s)]
        BY <1>0, <1>9 DEF UnlinkFork, Removed
    <2>4. file[Main(s)] = "live" /\ drop[s] # "no" => drop'[s] # "no"
        BY <1>0, <1>9 DEF UnlinkFork, FileTypes, Dropping
    <2>. QED  BY <1>0, <1>4, <2>1, <2>2, <2>3, <2>4 DEF Replaying
<1>10. ASSUME CompleteCheckpoint PROVE Replaying(s)'
    <2>. DEFINE gone == {Main(unlinks[i].rel) : i \in 1 .. OldUnlinks}
    <2>1. /\ \A f \in Files : IF f \notin gone THEN file'[f] = file[f]
                                               ELSE file'[f] \in {"retired", "none"}
          /\ drop' = drop /\ at = "sync" /\ at' = "finish"
          /\ replay' = replayNext
        BY <1>10 DEF CompleteCheckpoint, Removed
    <2>2. ASSUME s \in replayNext PROVE Main(s) \notin gone
        <3>1. ASSUME Main(s) \in gone PROVE FALSE
            <4>1. \E i \in DOMAIN unlinks : unlinks[i].rel = Main(s)[1] /\ unlinks[i].cycle # ckptCtr
                BY <3>1, OldAreDropped
            <4>. QED  BY <1>0, <2>1, <2>2, <4>1 DEF Replaying
        <3>. QED  BY <3>1
    <2>. HIDE DEF gone
    <2>. QED  BY <1>0, <2>1, <2>2 DEF Replaying, FileTypes
<1>11. ASSUME PrepareCheckpoint PROVE Replaying(s)'
    <2>1. UNCHANGED <<file, drop, replay>> /\ (at' = "finish" \/ replayNext' = {})
        BY <1>11 DEF PrepareCheckpoint, fileVars
    <2>. QED  BY <1>0, <2>1 DEF Replaying
<1>12. CASE UNCHANGED <<file, drop, replayVars>>
    BY <1>3, <1>10, <1>11, <1>12
<1>13. ASSUME NEW f \in Files,
             \/ Modify(f) \/ BackendWrite(f) \/ BackendWritten(f) \/ BgBufferSync(f)
             \/ SyncOneBuffer(f) \/ SyncFile(f) \/ SyncMissing(f)
       PROVE  Replaying(s)'
    BY <1>12, <1>13 DEF Modify, BackendWrite, BackendWritten, BgBufferSync, SyncOneBuffer,
        BgFlush, SyncFile, SyncMissing, fileVars
<1>14. ASSUME NEW q \in Requesters,
              RequestCheckpoint(q) \/ CheckpointStarted(q) \/ CheckpointDone(q)
       PROVE  Replaying(s)'
    BY <1>12, <1>14 DEF RequestCheckpoint, CheckpointStarted, CheckpointDone, fileVars
<1>15. ASSUME BgAbsorb \/ BeginCheckpoint \/ MarkBuffers \/ BeginSync \/ CheckpointFails
              \/ FinishCheckpoint
       PROVE  Replaying(s)'
    BY <1>12, <1>15 DEF BgAbsorb, BeginCheckpoint, MarkBuffers, BeginSync, CheckpointFails,
        FinishCheckpoint, fileVars
<1>16. CASE UNCHANGED vars
    BY <1>12, <1>16 DEF vars, fileVars
<1>. QED
    BY <1>5, <1>6, <1>7, <1>8, <1>9, <1>10, <1>11, <1>13, <1>14, <1>15, <1>16, NextSplits

-----------------------------------------------------------------------------
(***************************************************************************)
(* What a checkpoint covers                                                *)
(***************************************************************************)

\* What o counts on only moves from the buffers to the operating system and
\* from there to the disk.
LEMMA OwedSteps ==
    ASSUME [Next]_vars, NEW o \in Observers, ~(o \in Requesters /\ RequestCheckpoint(o)),
           o = "ckpt" => ~PrepareCheckpoint, NEW f \in Files
    PROVE  /\ <<o, f>> \in unwritten' => <<o, f>> \in unwritten
           /\ <<o, f>> \in unfsynced' =>
                \/ <<o, f>> \in unfsynced
                \/ <<o, f>> \in unwritten /\ (BackendWrite(f) \/ BgBufferSync(f) \/ SyncOneBuffer(f))
<1>. DEFINE x == <<o, f>>
            Goal == /\ x \in unwritten' => x \in unwritten
                    /\ x \in unfsynced' =>
                        \/ x \in unfsynced
                        \/ x \in unwritten /\ (BackendWrite(f) \/ BgBufferSync(f) \/ SyncOneBuffer(f))
<1>1. ASSUME unwritten' \subseteq unwritten, unfsynced' \subseteq unfsynced PROVE Goal
    BY <1>1
<1>2. ASSUME NEW g \in Files, BackendWrite(g) \/ BgBufferSync(g) \/ SyncOneBuffer(g) PROVE Goal
    <2>1. x \in Of(g) => f = g
        BY DEF Of
    <2>. QED  BY <1>2, <2>1 DEF BackendWrite, BgBufferSync, SyncOneBuffer, BgFlush, Write
<1>3. ASSUME NEW g \in Files, Modify(g) \/ BackendWritten(g) \/ SyncFile(g) \/ SyncMissing(g)
      PROVE  Goal
    BY <1>1, <1>3 DEF Modify, BackendWritten, SyncFile, SyncMissing, Fsync, owedVars
<1>4. ASSUME NEW r \in Rels,
             \/ Create(r) \/ DropRelation(r) \/ DropMainBuffers(r) \/ ForgetMain(r)
             \/ RegisterUnlink(r) \/ DropForkBuffers(r) \/ ForgetFork(r) \/ UnlinkFork(r)
      PROVE  Goal
    BY <1>1, <1>4 DEF Create, DropRelation, DropMainBuffers, ForgetMain, RegisterUnlink,
        DropForkBuffers, DropBuffers, ForgetFork, UnlinkFork, owedVars
<1>5. ASSUME NEW p, p # o, Count(p) PROVE Goal
    BY <1>5 DEF Count
<1>6. ASSUME NEW q \in Requesters, RequestCheckpoint(q) PROVE Goal
    <2>1. q # o /\ Count(q)
        BY <1>6 DEF RequestCheckpoint
    <2>. QED  BY <1>5, <2>1
<1>7. ASSUME NEW q \in Requesters, CheckpointStarted(q) \/ CheckpointDone(q) PROVE Goal
    BY <1>1, <1>7 DEF CheckpointStarted, CheckpointDone, owedVars
<1>8. ASSUME PrepareCheckpoint PROVE Goal
    <2>1. o # "ckpt" /\ (Count("ckpt") \/ UNCHANGED owedVars)
        BY <1>8 DEF PrepareCheckpoint
    <2>. QED  BY <1>1, <1>5, <2>1 DEF owedVars
<1>9. ASSUME \/ BgAbsorb \/ BeginCheckpoint \/ MarkBuffers \/ BeginSync \/ CheckpointFails
             \/ CompleteCheckpoint \/ FinishCheckpoint
      PROVE  Goal
    BY <1>1, <1>9 DEF BgAbsorb, BeginCheckpoint, MarkBuffers, BeginSync, CheckpointFails,
        CompleteCheckpoint, FinishCheckpoint, owedVars
<1>10. CASE UNCHANGED vars
    BY <1>1, <1>10 DEF vars, owedVars
<1>. QED
    BY <1>2, <1>3, <1>4, <1>6, <1>7, <1>8, <1>9, <1>10, NextSplits

LEMMA CoveredFromMark ==
    ASSUME TypeInt', BufferInv', PendingInv', NEW o, at' = "mark"
    PROVE  CoveredBy(o)'
<1>1. ASSUME NEW f \in Files, <<o, f>> \in unfsynced' PROVE f \in io' \/ Requested(f)'
    <2>1. <<o, f>>[2] \in unsynced'
        BY <1>1 DEF BufferInv
    <2>. QED  BY <2>1 DEF PendingInv
<1>. QED  BY <1>1 DEF CoveredBy, Covers

LEMMA CoveredBelow ==
    ASSUME at' \notin {"mark", "write", "sync"}, NEW o
    PROVE  CoveredBy(o)'
BY DEF CoveredBy, Covers

\* The buffers are written.
LEMMA CoveredWhileWriting ==
    ASSUME TypeInt, BufferInv, DropInv, ForgetInv, [Next]_vars, at = "write", at' = "write",
           NEW o \in Observers, ~(o \in Requesters /\ RequestCheckpoint(o)),
           NEW f \in Files, Covers(o, f)
    PROVE  Covers(o, f)'
<1>0. /\ <<o, f>> \in unfsynced => f \in io \intersect needed \/ Requested(f)
      /\ <<o, f>> \in unwritten => f \in needed
    BY DEF Covers
<1>. DEFINE Goal == /\ <<o, f>> \in unfsynced' => f \in io' \intersect needed' \/ Requested(f)'
                    /\ <<o, f>> \in unwritten' => f \in needed'
<1>1. /\ <<o, f>> \in unwritten' => <<o, f>> \in unwritten
      /\ <<o, f>> \in unfsynced' =>
            \/ <<o, f>> \in unfsynced
            \/ <<o, f>> \in unwritten /\ (BackendWrite(f) \/ BgBufferSync(f) \/ SyncOneBuffer(f))
    <2>1. ~PrepareCheckpoint
        BY DEF PrepareCheckpoint
    <2>. QED  BY <2>1, OwedSteps
<1>2. /\ <<o, f>> \in unfsynced => file[f] = "live"
      /\ <<o, f>> \in unwritten => f \in dirty /\ f \notin io
    <2>1. <<o, f>> \in unwritten => <<o, f>>[2] \in dirty
        BY DEF BufferInv
    <2>2. <<o, f>> \in unfsynced => <<o, f>>[2] \in unsynced
        BY DEF BufferInv
    <2>. QED  BY <2>1, <2>2 DEF BufferInv
<1>3. <<o, f>> \in unfsynced /\ Requested(f) => Requested(f)'
    <2>1. file[f] = "live" => ~ForgetFile(f)
        BY MainIsFile DEF ForgetFile, ForgetMain, ForgetFork, DropInv, Dropping
    <2>2. ~SyncMissing(f) /\ ~SyncFile(f)
        BY DEF SyncMissing, SyncFile
    <2>. QED  BY <1>2, <2>1, <2>2, RequestSteps
<1>4. ASSUME f \in needed => f \in needed', f \in io => f \in io',
             ~BackendWrite(f), ~BgBufferSync(f), ~SyncOneBuffer(f)
      PROVE  Goal
    BY <1>0, <1>1, <1>3, <1>4
<1>5. ASSUME NEW g \in Files, BackendWrite(g) PROVE Goal
    BY <1>0, <1>1, <1>3, <1>5 DEF BackendWrite, BgBufferSync, SyncOneBuffer, BgFlush
<1>6. ASSUME NEW g \in Files, BackendWritten(g) PROVE Goal
    <2>0. io' = io \ {g} /\ needed' = needed \ {g} /\ g \in io /\ ops' = ops /\ dirty' = dirty
        BY <1>6 DEF BackendWritten, mdVars
    <2>1. CASE g # f
        <3>1. ~BackendWrite(f) /\ ~BgBufferSync(f) /\ ~SyncOneBuffer(f)
            BY <2>0 DEF BackendWrite, BgBufferSync, SyncOneBuffer, BgFlush, Write
        <3>. QED  BY <1>4, <2>0, <2>1, <3>1
    <2>2. CASE g = f
        <3>1. <<o, f>> \notin unwritten
            BY <1>2, <2>0, <2>2
        <3>2. Forwarded(FsyncOf(f)) \/ Fsync(f)
            BY <1>6, <2>2, WrittenRequested
        <3>3. Forwarded(FsyncOf(f)) => Requested(f)'
            BY <2>0, FsyncForwarded
        <3>4. Fsync(f) => <<o, f>> \notin unfsynced'
            BY DEF Fsync, Of
        <3>. QED  BY <1>1, <3>1, <3>2, <3>3, <3>4
    <2>. QED  BY <2>1, <2>2
<1>7. ASSUME NEW g \in Files, BgBufferSync(g) \/ SyncOneBuffer(g) PROVE Goal
    <2>0. io' = io /\ needed' = needed \ {g} /\ dirty' = dirty \ {g} /\ g \in dirty
          /\ unwritten' = unwritten \ Of(g)
        BY <1>7 DEF BgBufferSync, SyncOneBuffer, BgFlush, Write
    <2>1. CASE g # f
        <3>1. ~BackendWrite(f) /\ ~BgBufferSync(f) /\ ~SyncOneBuffer(f)
            BY <2>0, <2>1 DEF BackendWrite, BgBufferSync, SyncOneBuffer, BgFlush, Write
        <3>. QED  BY <1>4, <2>0, <2>1, <3>1
    <2>2. CASE g = f
        <3>1. Requested(f)'
            BY <1>7, <2>2, WrittenRequested
        <3>2. <<o, f>> \notin unwritten'
            BY <2>0, <2>2 DEF Of
        <3>. QED  BY <3>1, <3>2
    <2>. QED  BY <2>1, <2>2
<1>8. ASSUME UNCHANGED <<dirty, needed, io>> PROVE Goal
    <2>1. ~BackendWrite(f) /\ ~BgBufferSync(f) /\ ~SyncOneBuffer(f)
        BY <1>8 DEF BackendWrite, BgBufferSync, SyncOneBuffer, BgFlush, Write
    <2>. QED  BY <1>4, <1>8, <2>1
<1>9. ASSUME NEW g \in Files, Modify(g) PROVE Goal
    <2>1. ~BackendWrite(f) /\ ~BgBufferSync(f) /\ ~SyncOneBuffer(f) /\ UNCHANGED <<needed, io>>
        BY <1>9 DEF Modify, BackendWrite, BgBufferSync, SyncOneBuffer, BgFlush, Write
    <2>. QED  BY <1>4, <2>1
<1>10. ASSUME NEW g \in Files, DropBuffers(g) PROVE Goal
    <2>0. /\ io' = io /\ needed' = needed \ {g} /\ g \notin io
          /\ unwritten' = unwritten \ Of(g) /\ unfsynced' = unfsynced \ Of(g)
        BY <1>10 DEF DropBuffers
    <2>1. CASE g # f
        <3>1. <<o, f>> \in unfsynced' => <<o, f>> \in unfsynced
            BY <2>0
        <3>. QED  BY <1>0, <1>1, <1>3, <2>0, <2>1, <3>1
    <2>2. CASE g = f
        BY <2>0, <2>2 DEF Of
    <2>. QED  BY <2>1, <2>2
<1>11. ASSUME NEW r \in Rels, DropMainBuffers(r) \/ DropForkBuffers(r) PROVE Goal
    <2>1. DropForkBuffers(r) => <<r, "fsm">> \in Files
        BY MainIsFile DEF DropForkBuffers, DropInv, Dropping
    <2>. QED  BY <1>10, <1>11, <2>1, MainIsFile DEF DropMainBuffers, DropForkBuffers
<1>12. ASSUME NEW g \in Files, SyncFile(g) \/ SyncMissing(g) PROVE Goal
    BY <1>12 DEF SyncFile, SyncMissing
<1>13. ASSUME NEW r \in Rels,
              \/ Create(r) \/ DropRelation(r) \/ ForgetMain(r)
              \/ RegisterUnlink(r) \/ ForgetFork(r) \/ UnlinkFork(r)
       PROVE  Goal
    BY <1>8, <1>13 DEF Create, DropRelation, ForgetMain, RegisterUnlink, ForgetFork, UnlinkFork,
        bufVars
<1>14. ASSUME NEW q \in Requesters,
              RequestCheckpoint(q) \/ CheckpointStarted(q) \/ CheckpointDone(q)
       PROVE  Goal
    BY <1>8, <1>14 DEF RequestCheckpoint, CheckpointStarted, CheckpointDone, bufVars
<1>15. ASSUME BgAbsorb PROVE Goal
    BY <1>8, <1>15 DEF BgAbsorb, bufVars
<1>16. ASSUME \/ BeginCheckpoint \/ PrepareCheckpoint \/ MarkBuffers \/ BeginSync
              \/ CheckpointFails \/ CompleteCheckpoint \/ FinishCheckpoint
       PROVE  Goal
    BY <1>16 DEF BeginCheckpoint, PrepareCheckpoint, MarkBuffers, BeginSync,
        CheckpointFails, CompleteCheckpoint, FinishCheckpoint
<1>17. ASSUME UNCHANGED vars PROVE Goal
    BY <1>8, <1>17 DEF vars, bufVars
<1>18. Goal
    BY <1>5, <1>6, <1>7, <1>9, <1>11, <1>12, <1>13, <1>14, <1>15, <1>16, <1>17, NextSplits
<1>. QED  BY <1>18 DEF Covers

\* The files are synced.
LEMMA CoveredWhileSyncing ==
    ASSUME TypeInt, BufferInv, DropInv, FdInv, [Next]_vars, at = "sync", at' = "sync",
           NEW o \in Observers, ~(o \in Requesters /\ RequestCheckpoint(o)),
           NEW f \in Files, Covers(o, f)
    PROVE  Covers(o, f)'
<1>0. /\ <<o, f>> \in unfsynced => f \in Due /\ ~ops[f].canceled /\ ~Queued(ForgetOf(f))
      /\ <<o, f>> \notin unwritten
    BY DEF Covers
<1>1. /\ <<o, f>> \notin unwritten'
      /\ <<o, f>> \in unfsynced' => <<o, f>> \in unfsynced
    <2>1. ~PrepareCheckpoint
        BY DEF PrepareCheckpoint
    <2>. QED  BY <1>0, <2>1, OwedSteps
<1>. SUFFICES ASSUME <<o, f>> \in unfsynced'
              PROVE  f \in Due' /\ ~ops'[f].canceled /\ ~Queued(ForgetOf(f))'
    BY <1>1 DEF Covers
<1>. DEFINE Goal == f \in Due' /\ ~ops'[f].canceled /\ ~Queued(ForgetOf(f))'
<1>2. f \in DOMAIN ops /\ ops[f].cycle # syncCtr /\ ~ops[f].canceled /\ ~Queued(ForgetOf(f))
    BY <1>0, <1>1 DEF Due
<1>3. file[f] = "live"
    <2>1. <<o, f>>[2] \in unsynced
        BY <1>1 DEF BufferInv
    <2>. QED  BY <2>1 DEF BufferInv
<1>4. ~Queued(ForgetOf(f))'
    <2>1. ForgetOf(f) \in Requests
        BY DEF Requests
    <2>2. ~ForgetFile(f)
        BY <1>3, MainIsFile DEF ForgetFile, ForgetMain, ForgetFork, DropInv, Dropping
    <2>. QED  BY <1>2, <2>1, <2>2, ListSteps DEF ListStep, Forwarded, Queued, Has
<1>5. ~BeginSync
    BY DEF BeginSync
<1>6. syncCtr' = syncCtr
    BY <1>5, CycleSteps
<1>7. ASSUME f \in DOMAIN ops', ops'[f] = ops[f] PROVE Goal
    BY <1>2, <1>4, <1>6, <1>7 DEF Due
<1>8. Absorbed.ops[f] = ops[f] /\ f \in DOMAIN Absorbed.ops
    BY <1>2, AbsorbedTable
<1>9. CASE ops' = ops
    BY <1>2, <1>7, <1>9
<1>10. CASE ops' = Absorbed.ops
    BY <1>7, <1>8, <1>10
<1>11. ASSUME NEW g \in Files,
              \/ Modify(g) \/ BackendWrite(g) \/ BackendWritten(g) \/ BgBufferSync(g)
              \/ SyncOneBuffer(g)
       PROVE  Goal
    BY <1>9, <1>11 DEF Modify, BackendWrite, BackendWritten, BgBufferSync, SyncOneBuffer, mdVars
<1>12. ASSUME NEW g \in Files, SyncFile(g) PROVE Goal
    <2>1. g # f
        <3>1. ASSUME g = f PROVE FALSE
            <4>1. fd[f] # "stale"
                BY <1>3 DEF FdInv, Left
            <4>2. Fsync(f)
                BY <1>2, <1>12, <3>1, <4>1 DEF SyncFile
            <4>. QED  BY <4>2 DEF Fsync, Of
        <3>. QED  BY <3>1
    <2>2. ops' = [h \in DOMAIN ops \ {g} |-> ops[h]]
        BY <1>12 DEF SyncFile, Done, Restrict
    <2>. QED  BY <1>2, <1>7, <2>1, <2>2
<1>13. ASSUME NEW g \in Files, SyncMissing(g) PROVE Goal
    <2>1. g # f
        BY <1>3, <1>13 DEF SyncMissing
    <2>. DEFINE a == Absorbed.ops
    <2>2. ops' = a \/ ops' = [h \in DOMAIN a \ {g} |-> a[h]]
        BY <1>13 DEF SyncMissing, Done, Restrict
    <2>3. a[f] = ops[f] /\ f \in DOMAIN a
        BY <1>8
    <2>. HIDE DEF a
    <2>. QED  BY <1>7, <2>1, <2>2, <2>3
<1>14. ASSUME NEW r \in Rels,
              \/ Create(r) \/ DropRelation(r) \/ DropMainBuffers(r) \/ ForgetMain(r)
              \/ RegisterUnlink(r) \/ DropForkBuffers(r) \/ ForgetFork(r) \/ UnlinkFork(r)
       PROVE  Goal
    BY <1>9, <1>14 DEF Create, DropRelation, DropMainBuffers, ForgetMain, RegisterUnlink,
        DropForkBuffers, DropBuffers, ForgetFork, UnlinkFork, mdVars
<1>15. ASSUME NEW q \in Requesters,
              RequestCheckpoint(q) \/ CheckpointStarted(q) \/ CheckpointDone(q)
       PROVE  Goal
    BY <1>9, <1>15 DEF RequestCheckpoint, CheckpointStarted, CheckpointDone, mdVars
<1>16. ASSUME BgAbsorb PROVE Goal
    BY <1>10, <1>16 DEF BgAbsorb, AbsorbFsyncRequests
<1>17. ASSUME \/ BeginCheckpoint \/ PrepareCheckpoint \/ MarkBuffers \/ BeginSync
              \/ CheckpointFails \/ CompleteCheckpoint \/ FinishCheckpoint
       PROVE  Goal
    BY <1>17 DEF BeginCheckpoint, PrepareCheckpoint, MarkBuffers, BeginSync,
        CheckpointFails, CompleteCheckpoint, FinishCheckpoint
<1>18. CASE UNCHANGED vars
    BY <1>9, <1>18 DEF vars, mdVars
<1>. QED
    BY <1>11, <1>12, <1>13, <1>14, <1>15, <1>16, <1>17, <1>18, NextSplits

\* What a checkpoint covers it goes on covering.
LEMMA CoveredStep ==
    ASSUME TypeInt, BufferInv, DropInv, ForgetInv, FdInv, SyncInv, [Next]_vars,
           TypeInt', BufferInv', PendingInv',
           NEW o \in Observers, ~(o \in Requesters /\ RequestCheckpoint(o)), CoveredBy(o)
    PROVE  CoveredBy(o)'
<1>1. CASE at' \notin {"mark", "write", "sync"}
    BY <1>1, CoveredBelow
<1>2. CASE at' = "mark"
    BY <1>2, CoveredFromMark
<1>3. CASE at' = "write"
    <2>. SUFFICES ASSUME NEW f \in Files PROVE Covers(o, f)'
        BY DEF CoveredBy
    <2>1. Covers(o, f)
        BY DEF CoveredBy
    <2>2. at = "write" \/ MarkBuffers
        BY <1>3, AtSteps DEF BeginCheckpoint, PrepareCheckpoint, BeginSync, CompleteCheckpoint,
            FinishCheckpoint, CheckpointFails
    <2>3. CASE at = "write"
        BY <1>3, <2>1, <2>3, CoveredWhileWriting
    <2>4. CASE MarkBuffers
        <3>1. /\ at = "mark" /\ needed' = needed \union dirty \union io
              /\ UNCHANGED <<io, queue, ops, unwritten, unfsynced>>
            BY <2>4 DEF MarkBuffers, mdVars, owedVars
        <3>2. Requested(f)' <=> Requested(f)
            BY <3>1, SameRequests
        <3>3. <<o, f>> \in unwritten => <<o, f>>[2] \in dirty
            BY DEF BufferInv
        <3>. QED  BY <1>3, <2>1, <3>1, <3>2, <3>3 DEF Covers
    <2>. QED  BY <2>2, <2>3, <2>4
<1>4. CASE at' = "sync"
    <2>. SUFFICES ASSUME NEW f \in Files PROVE Covers(o, f)'
        BY DEF CoveredBy
    <2>1. Covers(o, f)
        BY DEF CoveredBy
    <2>2. at = "sync" \/ BeginSync
        BY <1>4, AtSteps DEF BeginCheckpoint, PrepareCheckpoint, MarkBuffers, CompleteCheckpoint,
            FinishCheckpoint, CheckpointFails
    <2>3. CASE at = "sync"
        BY <1>4, <2>1, <2>3, CoveredWhileSyncing
    <2>4. CASE BeginSync
        <3>1. at = "write" /\ needed = {} /\ UNCHANGED <<unwritten, unfsynced>>
            BY <2>4 DEF BeginSync, owedVars
        <3>2. <<o, f>> \notin unwritten' /\ (<<o, f>> \in unfsynced' => Requested(f))
            BY <2>1, <3>1 DEF Covers
        <3>3. queue' = <<>> /\ syncCtr' # syncCtr /\ \A g \in DOMAIN ops' : ops'[g].cycle = syncCtr
            BY <2>4, SyncBegins
        <3>4. Requested(f) => f \in DOMAIN ops' /\ ~ops'[f].canceled
            BY <2>4, <3>3, SyncBegun, QueueEmptied
        <3>5. ~Queued(ForgetOf(f))'
            BY <3>3 DEF Queued, Has
        <3>. QED  BY <1>4, <3>2, <3>3, <3>4, <3>5 DEF Covers, Due
    <2>. QED  BY <2>2, <2>3, <2>4
<1>. QED  BY <1>1, <1>2, <1>3, <1>4

LEMMA CoveredInvStep ==
    ASSUME TypeInt, BufferInv, DropInv, ForgetInv, FdInv, SyncInv, [Next]_vars,
           TypeInt', BufferInv', PendingInv', CoveredInv
    PROVE  CoveredInv'
BY CoveredStep, ConstantsAssumption DEF CoveredInv, Observers

\* A checkpoint that is complete owes nothing to whom it covers.
LEMMA NothingOwed ==
    ASSUME TypeInt, NEW o \in Observers, CoveredBy(o), at = "sync", Due = {}
    PROVE  Owed(o) = {}
<1>1. ASSUME NEW x \in unwritten \union unfsynced, x[1] = o PROVE FALSE
    <2>1. x[2] \in Files /\ x = <<o, x[2]>>
        BY <1>1, OwedIsOf
    <2>2. Covers(o, x[2])
        BY <2>1 DEF CoveredBy
    <2>. QED  BY <1>1, <2>1, <2>2 DEF Covers
<1>. QED  BY <1>1 DEF Owed

-----------------------------------------------------------------------------
(***************************************************************************)
(* The counters                                                            *)
(***************************************************************************)

LEMMA AheadIs ==
    ASSUME NEW m \in Counters, NEW n \in Counters
    PROVE  /\ Ahead(m, n) \in Counters
           /\ Ahead(m, n) = 0 <=> m = n
           /\ Ahead(m, n) + 1 < CounterModulus => Ahead(Plus1(m), n) = Ahead(m, n) + 1
           /\ Ahead(m, n) + 1 = CounterModulus => Ahead(Plus1(m), n) = 0
           /\ Ahead(m, Plus1(m)) = CounterModulus - 1
           /\ Plus1(m) \in Counters
<1>. DEFINE M == CounterModulus
<1>1. M \in Nat \ {0} /\ m \in 0 .. M - 1 /\ n \in 0 .. M - 1
    BY ConstantsAssumption DEF Counters
<1>. HIDE DEF M
<1>2. /\ m + 1 < M => (m + 1) % M = m + 1
      /\ m + 1 = M => (m + 1) % M = 0
      /\ (m + 1) % M \in 0 .. M - 1
    BY <1>1, SuccessorIs
<1>3. PICK p \in 0 .. M - 1 : p = (m + 1) % M
    BY <1>2
<1>4. /\ n <= m => (m - n) % M = m - n
      /\ m < n => (m - n) % M = m - n + M
    BY <1>1, DifferenceIs
<1>5. /\ n <= p => (p - n) % M = p - n
      /\ p < n => (p - n) % M = p - n + M
    BY <1>1, DifferenceIs
<1>6. /\ p <= m => (m - p) % M = m - p
      /\ m < p => (m - p) % M = m - p + M
    BY <1>1, DifferenceIs
<1>7. (m + 1 < M /\ p = m + 1) \/ (m + 1 = M /\ p = 0)
    BY <1>1, <1>2, <1>3
<1>8. (m - n) % M \in 0 .. M - 1 /\ ((m - n) % M = 0 <=> m = n)
    BY <1>1, <1>4
<1>9. /\ ((m - n) % M) + 1 < M => (p - n) % M = ((m - n) % M) + 1
      /\ ((m - n) % M) + 1 = M => (p - n) % M = 0
    BY <1>1, <1>4, <1>5, <1>7
<1>10. (m - p) % M = M - 1
    BY <1>1, <1>6, <1>7
<1>. QED  BY <1>2, <1>3, <1>8, <1>9, <1>10 DEF Counters, Ahead, Plus1, M

LEMMA OwedNone ==
    ASSUME TypeInt', [Next]_vars, NEW o \in Observers,
           ~(o \in Requesters /\ RequestCheckpoint(o)), o = "ckpt" => ~PrepareCheckpoint,
           Owed(o) = {}
    PROVE  Owed(o)' = {}
<1>1. ASSUME NEW x \in unwritten' \union unfsynced', x[1] = o PROVE FALSE
    <2>1. x[2] \in Files /\ x = <<o, x[2]>>
        BY <1>1 DEF TypeInt, FileTypes, Permanent
    <2>2. <<o, x[2]>> \in unwritten \union unfsynced
        BY <1>1, <2>1, OwedSteps
    <2>. QED  BY <2>2 DEF Owed
<1>. QED  BY <1>1 DEF Owed

LEMMA RequestTyped ==
    ASSUME TypeInt, NEW q \in Requesters
    PROVE  /\ req[q].at \in {"idle", "start", "done"} /\ req[q].oldStarted \in Counters
           /\ req[q].oldFailed \in Counters /\ req[q].newStarted \in Counters
           /\ started \in Counters /\ done \in Counters /\ failed \in Counters
           /\ q \in Observers /\ q # "ckpt"
<1>1. req[q] \in [at : {"idle", "start", "done"}, oldStarted : Counters,
                  oldFailed : Counters, newStarted : Counters]
    BY DEF TypeInt, ControlTypes
<1>. QED  BY <1>1, ConstantsAssumption DEF TypeInt, ControlTypes, Observers

\* The steps that change a request or the counters.
LEMMA RequestMoves ==
    ASSUME TypeInt, [Next]_vars, NEW q \in Requesters
    PROVE  \/ BeginCheckpoint \/ CheckpointFails
           \/ RequestCheckpoint(q) \/ CheckpointStarted(q) \/ CheckpointDone(q)
           \/ /\ req'[q] = req[q] /\ UNCHANGED <<started, failed>>
              /\ (at = "loop" => at' = "loop") /\ (force => force')
<1>. DEFINE Goal == /\ req'[q] = req[q] /\ UNCHANGED <<started, failed>>
                    /\ (at = "loop" => at' = "loop") /\ (force => force')
<1>1. ASSUME UNCHANGED <<req, ctrVars, at>> PROVE Goal
    BY <1>1 DEF ctrVars
<1>2. ASSUME NEW f \in Files,
             \/ Modify(f) \/ BackendWrite(f) \/ BackendWritten(f) \/ BgBufferSync(f)
             \/ SyncOneBuffer(f) \/ SyncFile(f) \/ SyncMissing(f)
      PROVE  Goal
    BY <1>1, <1>2 DEF Modify, BackendWrite, BackendWritten, BgBufferSync, SyncOneBuffer,
        BgFlush, SyncFile, SyncMissing
<1>3. ASSUME NEW r \in Rels,
             \/ Create(r) \/ DropRelation(r) \/ DropMainBuffers(r) \/ ForgetMain(r)
             \/ RegisterUnlink(r) \/ DropForkBuffers(r) \/ ForgetFork(r) \/ UnlinkFork(r)
      PROVE  Goal
    BY <1>1, <1>3 DEF Create, DropRelation, DropMainBuffers, ForgetMain, RegisterUnlink,
        DropForkBuffers, DropBuffers, ForgetFork, UnlinkFork
<1>4. ASSUME NEW p \in Requesters, p # q,
             RequestCheckpoint(p) \/ CheckpointStarted(p) \/ CheckpointDone(p)
      PROVE  Goal
    BY <1>4 DEF RequestCheckpoint, CheckpointStarted, CheckpointDone, ctrVars, TypeInt,
        ControlTypes
<1>5. ASSUME \/ BgAbsorb \/ PrepareCheckpoint \/ MarkBuffers \/ BeginSync
             \/ CompleteCheckpoint \/ FinishCheckpoint
      PROVE  Goal
    BY <1>5 DEF BgAbsorb, PrepareCheckpoint, MarkBuffers, BeginSync, CompleteCheckpoint,
        FinishCheckpoint, ctrVars
<1>6. CASE UNCHANGED vars
    BY <1>1, <1>6 DEF vars
<1>. QED
    BY <1>2, <1>3, <1>4, <1>5, <1>6, NextSplits

LEMMA CountInvStep ==
    TypeInt /\ CountInv /\ [Next]_vars /\ TypeInt' => CountInv'
<1>. SUFFICES ASSUME TypeInt, CountInv, [Next]_vars, TypeInt' PROVE CountInv'
    OBVIOUS
<1>1. started' = IF at' = "loop" THEN done' ELSE Plus1(done')
    <2>0. started = IF at = "loop" THEN done ELSE Plus1(done)
        BY DEF CountInv
    <2>1. ASSUME UNCHANGED <<started, done>>, at = "loop" <=> at' = "loop"
          PROVE  started' = IF at' = "loop" THEN done' ELSE Plus1(done')
        BY <2>0, <2>1
    <2>2. CASE BeginCheckpoint
        BY <2>0, <2>2 DEF BeginCheckpoint
    <2>3. CASE CheckpointFails \/ FinishCheckpoint
        BY <2>3 DEF CheckpointFails, FinishCheckpoint
    <2>4. CASE PrepareCheckpoint \/ MarkBuffers \/ BeginSync \/ CompleteCheckpoint
        BY <2>1, <2>4 DEF PrepareCheckpoint, MarkBuffers, BeginSync, CompleteCheckpoint, ctrVars
    <2>5. ASSUME UNCHANGED <<started, done, at>>
          PROVE  started' = IF at' = "loop" THEN done' ELSE Plus1(done')
        BY <2>1, <2>5
    <2>. QED
        BY <2>2, <2>3, <2>4, <2>5, NextSplits, ZenonT(60) DEF Modify, BackendWrite, BackendWritten,
            BgBufferSync, SyncOneBuffer, BgFlush, SyncFile, SyncMissing, Create, DropRelation,
            DropMainBuffers, ForgetMain, RegisterUnlink, DropForkBuffers, DropBuffers,
            ForgetFork, UnlinkFork, RequestCheckpoint, CheckpointStarted, CheckpointDone,
            BgAbsorb, ctrVars, vars
<1>2. ASSUME NEW q \in Requesters PROVE Counted(q)'
    <2>0. /\ CounterModulus \in Nat /\ CounterModulus >= 4 /\ Half \in Nat
          /\ 2 * Half <= CounterModulus /\ Half >= 2
        BY <1>2, ConstantsAssumption DEF Half
    <2>1. Counted(q) /\ Busy \in {0, 1}
        BY <1>2 DEF CountInv, Busy
    <2>2. /\ req[q].at \in {"idle", "start", "done"} /\ req[q].oldStarted \in Counters
          /\ req[q].oldFailed \in Counters /\ req[q].newStarted \in Counters
          /\ started \in Counters /\ failed \in Counters
          /\ q \in Observers /\ q # "ckpt"
        BY <1>2, RequestTyped
    <2>3. ASSUME req'[q] = req[q], req[q].at = "idle" PROVE Counted(q)'
        <3>1. ~RequestCheckpoint(q)
            BY <1>2, <2>3 DEF RequestCheckpoint, TypeInt, ControlTypes
        <3>. QED  BY <2>1, <2>2, <2>3, <3>1, OwedNone DEF Counted
    <2>. DEFINE s == Ahead(started, req[q].oldStarted)
                n == Ahead(started, req[q].newStarted)
                f == Ahead(failed, req[q].oldFailed)
    <2>4. /\ s \in Nat /\ s < CounterModulus /\ n \in Nat /\ n < CounterModulus
          /\ f \in Nat /\ f < CounterModulus
        <3>1. s \in Counters /\ n \in Counters /\ f \in Counters
            BY <2>2, AheadIs
        <3>. HIDE DEF s, n, f
        <3>. QED  BY <2>0, <3>1 DEF Counters
    <2>. HIDE DEF s, n, f
    <2>5. ASSUME req'[q] = req[q], UNCHANGED <<started, failed>>, Busy' <= Busy PROVE Counted(q)'
        <3>1. CASE req[q].at = "idle"
            BY <2>3, <2>5, <3>1
        <3>2. CASE req[q].at # "idle"
            <4>1. f + Busy' <= s + 1
                <5>1. f + Busy <= s + 1 /\ Busy' \in {0, 1}
                    BY <2>1, <3>2 DEF Counted, f, s, Busy
                <5>2. \A b, c \in {0, 1} : f + b <= s + 1 /\ c <= b => f + c <= s + 1
                    BY <2>4
                <5>. QED  BY <2>1, <2>5, <5>1, <5>2
            <4>2. Half' = Half
                BY DEF Half
            <4>. QED  BY <2>1, <2>5, <3>2, <4>1, <4>2 DEF Counted, f, s
        <3>. QED  BY <3>1, <3>2
    <2>6. CASE BeginCheckpoint
        <3>1. /\ req' = req /\ failed' = failed /\ started' = Plus1(started) /\ NobodyFarBehind
              /\ at = "loop" /\ at' = "prepare"
            BY <2>6 DEF BeginCheckpoint
        <3>2. CASE req[q].at = "idle"
            BY <2>3, <3>1, <3>2
        <3>3. CASE req[q].at # "idle"
            <4>1. IF req[q].at = "start" THEN s < Half - 1 ELSE n < Half - 1
                BY <1>2, <3>1, <3>3 DEF NobodyFarBehind, s, n, Half
            <4>2. /\ f <= s + 1
                  /\ req[q].at = "done" => n + Half > s
                <5>1. Busy = 0
                    BY <3>1 DEF Busy
                <5>2. f + Busy <= s + 1 /\ (req[q].at = "done" => n + Half > s)
                    BY <2>1, <3>3 DEF Counted, f, s, n
                <5>. QED  BY <2>4, <5>1, <5>2
            <4>3. req[q].at = "start" \/ req[q].at = "done"
                BY <2>2, <3>3
            <4>4. s + 1 < CounterModulus
                BY <2>0, <2>4, <4>1, <4>2, <4>3
            <4>5. Ahead(started', req[q].oldStarted) = s + 1
                BY <2>2, <3>1, <4>4, AheadIs DEF s
            <4>6. req[q].at = "done" => Ahead(started', req[q].newStarted) = n + 1
                <5>1. req[q].at = "done" => n + 1 < CounterModulus
                    BY <2>0, <2>4, <4>1
                <5>. QED  BY <2>2, <3>1, <5>1, AheadIs DEF n
            <4>7. Busy' = 1
                BY <3>1 DEF Busy
            <4>8. f + 1 <= (s + 1) + 1
                BY <2>4, <4>2
            <4>9. req[q].at = "start" => s + 1 < Half
                BY <2>0, <2>4, <4>1
            <4>10. req[q].at = "done" => n + 1 < Half /\ (n + 1) + Half > s + 1
                BY <2>0, <2>4, <4>1, <4>2
            <4>11. Half' = Half
                BY DEF Half
            <4>. QED
                BY <3>1, <3>3, <4>5, <4>6, <4>7, <4>8, <4>9, <4>10, <4>11 DEF Counted, f
        <3>. QED  BY <3>2, <3>3
    <2>7. CASE CheckpointFails
        <3>1. /\ req' = req /\ failed' = Plus1(failed) /\ started' = started
              /\ at \in {"write", "sync"} /\ at' = "loop"
            BY <2>7 DEF CheckpointFails
        <3>2. CASE req[q].at = "idle"
            BY <2>3, <3>1, <3>2
        <3>3. CASE req[q].at # "idle"
            <4>1. Ahead(failed', req[q].oldFailed) \in {f + 1, 0}
                <5>1. f + 1 < CounterModulus \/ f + 1 = CounterModulus
                    BY <2>0, <2>4
                <5>. QED  BY <2>2, <3>1, <5>1, AheadIs DEF f
            <4>2. Busy = 1 /\ Busy' = 0
                BY <3>1 DEF Busy
            <4>3. f + Busy <= s + 1
                BY <2>1, <3>3 DEF Counted, f, s
            <4>4. f + 1 <= s + 1
                BY <4>2, <4>3
            <4>5. Ahead(failed', req[q].oldFailed) + Busy' <= s + 1
                BY <2>4, <4>1, <4>2, <4>4
            <4>6. Half' = Half
                BY DEF Half
            <4>. QED  BY <2>1, <3>1, <3>3, <4>5, <4>6 DEF Counted, s
        <3>. QED  BY <3>2, <3>3
    <2>8. CASE RequestCheckpoint(q)
        <3>1. /\ req'[q].at = "start" /\ req'[q].oldStarted = started' /\ req'[q].oldFailed = failed'
              /\ started' \in Counters /\ failed' \in Counters
            BY <1>2, <2>2, <2>8 DEF RequestCheckpoint, TypeInt, ControlTypes
        <3>2. Ahead(started', started') = 0 /\ Ahead(failed', failed') = 0
            BY <3>1, AheadIs
        <3>3. Busy' \in {0, 1} /\ Half' = Half
            BY DEF Busy, Half
        <3>4. Busy' <= 1
            BY <3>3
        <3>5. Ahead(failed', req'[q].oldFailed) + Busy' <= Ahead(started', req'[q].oldStarted) + 1
            BY <3>1, <3>2, <3>3, <3>4
        <3>6. Ahead(started', req'[q].oldStarted) = 0 /\ 0 < Half'
            BY <2>0, <3>1, <3>2, <3>3
        <3>. QED  BY <3>1, <3>5, <3>6 DEF Counted
    <2>9. CASE CheckpointStarted(q)
        <3>1. /\ req'[q] = [req[q] EXCEPT !.at = "done", !.newStarted = started]
              /\ req[q].at = "start"
              /\ UNCHANGED <<started, failed, at>>
            BY <1>2, <2>9 DEF CheckpointStarted, TypeInt, ControlTypes, ctrVars
        <3>2. req[q] \in [at : {"idle", "start", "done"}, oldStarted : Counters,
                          oldFailed : Counters, newStarted : Counters]
            BY <1>2 DEF TypeInt, ControlTypes
        <3>3. /\ req'[q].at = "done" /\ req'[q].oldStarted = req[q].oldStarted
              /\ req'[q].oldFailed = req[q].oldFailed /\ req'[q].newStarted = started
            BY <3>1, <3>2
        <3>4. Ahead(started, started) = 0
            BY <2>2, AheadIs
        <3>5. s < Half /\ f + Busy <= s + 1
            BY <2>1, <3>1 DEF Counted, s, f
        <3>6. Busy' = Busy /\ Half' = Half
            BY <3>1 DEF Busy, Half
        <3>7. 0 < Half /\ 0 + Half > s
            BY <2>0, <2>4, <3>5
        <3>. QED  BY <3>1, <3>3, <3>4, <3>5, <3>6, <3>7 DEF Counted, s, f
    <2>10. CASE CheckpointDone(q)
        <3>1. req'[q].at = "idle"
            BY <1>2, <2>10 DEF CheckpointDone, IdleRequest, TypeInt, ControlTypes
        <3>2. Owed(q)' = {}
            BY <2>10 DEF CheckpointDone, Owed
        <3>. QED  BY <3>1, <3>2 DEF Counted
    <2>11. CASE /\ req'[q] = req[q] /\ UNCHANGED <<started, failed>>
                /\ (at = "loop" => at' = "loop") /\ (force => force')
        <3>1. Busy' <= Busy
            BY <2>11 DEF Busy
        <3>. QED  BY <2>5, <2>11, <3>1
    <2>. QED  BY <1>2, <2>6, <2>7, <2>8, <2>9, <2>10, <2>11, RequestMoves
<1>. QED  BY <1>1, <1>2 DEF CountInv

-----------------------------------------------------------------------------
(***************************************************************************)
(* The requesters                                                          *)
(***************************************************************************)

LEMMA ServedInvStep ==
    ASSUME SyncingInv, CountInv, ServedInv, [Next]_vars, TypeInt', BufferInv', PendingInv'
    PROVE  ServedInv'
<1>. SUFFICES ASSUME NEW q \in Requesters, req'[q].at # "idle" PROVE Served(q)'
    BY DEF ServedInv
<1>0. /\ TypeInt /\ BufferInv /\ DropInv /\ ForgetInv /\ FdInv /\ SyncInv
      /\ req[q].at # "idle" => Served(q)
      /\ Counted(q)
    BY DEF SyncingInv, FilesInv, ServedInv, CountInv
<1>1. /\ req[q].at \in {"idle", "start", "done"} /\ req[q].oldStarted \in Counters
      /\ req[q].oldFailed \in Counters /\ req[q].newStarted \in Counters
      /\ started \in Counters /\ failed \in Counters
      /\ q \in Observers /\ q # "ckpt"
    BY <1>0, RequestTyped
<1>2. ASSUME ~RequestCheckpoint(q)
      PROVE  /\ CoveredBy(q) => CoveredBy(q)'
             /\ Owed(q) = {} => Owed(q)' = {}
    BY <1>0, <1>1, <1>2, CoveredStep, OwedNone
<1>3. CASE RequestCheckpoint(q)
    <2>1. req'[q].at = "start" /\ req'[q].oldStarted = started /\ force' /\ started' = started
        BY <1>0, <1>3 DEF RequestCheckpoint, TypeInt, ControlTypes
    <2>. QED  BY <2>1 DEF Served
<1>4. CASE CheckpointDone(q)
    BY <1>0, <1>4 DEF CheckpointDone, IdleRequest, TypeInt, ControlTypes
<1>5. CASE CheckpointStarted(q)
    <2>1. /\ req'[q] = [req[q] EXCEPT !.at = "done", !.newStarted = started]
          /\ req[q].at = "start" /\ started # req[q].oldStarted
          /\ UNCHANGED <<started, failed, at, forced>> /\ ~RequestCheckpoint(q)
        BY <1>0, <1>5 DEF CheckpointStarted, TypeInt, ControlTypes, ctrVars, RequestCheckpoint
    <2>2. req[q] \in [at : {"idle", "start", "done"}, oldStarted : Counters,
                      oldFailed : Counters, newStarted : Counters]
        BY <1>0 DEF TypeInt, ControlTypes
    <2>3. req'[q].oldFailed = req[q].oldFailed /\ req'[q].newStarted = started
        BY <2>1, <2>2
    <2>4. Running' <=> Running
        BY <2>1 DEF Running
    <2>. QED  BY <1>0, <1>2, <2>1, <2>3, <2>4 DEF Served
<1>6. CASE BeginCheckpoint
    <2>1. /\ req' = req /\ failed' = failed /\ at = "loop" /\ at' = "prepare" /\ forced' = force
        BY <1>6 DEF BeginCheckpoint
    <2>2. ~RequestCheckpoint(q)
        BY <2>1 DEF RequestCheckpoint
    <2>3. Running' /\ ~Running
        BY <2>1 DEF Running
    <2>4. CoveredBy(q)'
        BY <2>1, CoveredBelow
    <2>5. CASE req[q].at = "start" /\ started = req[q].oldStarted /\ force
        BY <2>1, <2>3, <2>4, <2>5 DEF Served
    <2>6. CASE Owed(q) = {}
        BY <1>2, <2>2, <2>6 DEF Served
    <2>7. CASE failed # req[q].oldFailed
        BY <2>1, <2>7 DEF Served
    <2>. QED  BY <1>0, <2>1, <2>3, <2>5, <2>6, <2>7 DEF Served
<1>7. CASE CheckpointFails
    <2>. DEFINE s == Ahead(started, req[q].oldStarted)
                n == Ahead(started, req[q].newStarted)
                f == Ahead(failed, req[q].oldFailed)
    <2>0. /\ req' = req /\ failed' = Plus1(failed) /\ started' = started
          /\ at \in {"write", "sync"}
        BY <1>7 DEF CheckpointFails
    <2>1. /\ CounterModulus \in Nat /\ CounterModulus >= 4 /\ Half \in Nat
          /\ 2 * Half <= CounterModulus /\ Half >= 2
        BY ConstantsAssumption DEF Half
    <2>2. s \in Counters /\ n \in Counters /\ f \in Counters
        BY <1>1, AheadIs
    <2>3. /\ f + Busy <= s + 1
          /\ req[q].at = "start" => s < Half
          /\ req[q].at = "done" => n < Half /\ n + Half > s
          /\ req[q].at # "idle"
        BY <1>0, <2>0 DEF Counted
    <2>4. Busy = 1
        BY <2>0 DEF Busy
    <2>. HIDE DEF s, n, f
    <2>5. f + 1 <= s + 1 /\ s \in Nat /\ n \in Nat /\ f \in Nat
        BY <2>1, <2>2, <2>3, <2>4 DEF Counters
    <2>6. s + 1 < CounterModulus
        BY <1>1, <2>1, <2>3, <2>5
    <2>7. Ahead(failed', req[q].oldFailed) = f + 1
        <3>1. f + 1 < CounterModulus
            BY <2>1, <2>5, <2>6
        <3>. QED  BY <1>1, <2>0, <3>1, AheadIs DEF f
    <2>8. failed' # req[q].oldFailed
        <3>1. f + 1 # 0
            BY <2>5
        <3>. QED  BY <1>1, <2>7, <3>1, AheadIs, ZenonT(60)
    <2>. QED  BY <2>0, <2>8 DEF Served
<1>8. CASE /\ req'[q] = req[q] /\ UNCHANGED <<started, failed>>
           /\ (at = "loop" => at' = "loop") /\ (force => force')
    <2>1. ~RequestCheckpoint(q) /\ req[q].at # "idle"
        BY <1>8 DEF RequestCheckpoint
    <2>2. Served(q)
        BY <1>0, <2>1
    <2>3. CASE req[q].at = "start" /\ started = req[q].oldStarted /\ force
        BY <1>8, <2>3 DEF Served
    <2>4. CASE Owed(q) = {}
        BY <1>2, <2>1, <2>4 DEF Served
    <2>5. CASE failed # req[q].oldFailed
        BY <1>8, <2>5 DEF Served
    <2>6. CASE /\ Running /\ (at = "prepare" => forced)
               /\ req[q].at = "done" => req[q].newStarted = started
               /\ CoveredBy(q)
        <3>1. CoveredBy(q)'
            BY <1>2, <2>1, <2>6
        <3>2. CASE CompleteCheckpoint
            <4>1. Owed(q) = {}
                BY <1>0, <1>1, <2>6, <3>2, NothingOwed DEF CompleteCheckpoint
            <4>. QED  BY <1>2, <2>1, <4>1 DEF Served
        <3>3. CASE PrepareCheckpoint
            <4>1. at' = "mark"
                BY <2>6, <3>3 DEF PrepareCheckpoint
            <4>2. Running'
                BY <4>1 DEF Running
            <4>. QED  BY <1>8, <2>6, <3>1, <4>1, <4>2 DEF Served
        <3>4. CASE BeginCheckpoint \/ CheckpointFails \/ FinishCheckpoint
            <4>1. ~BeginCheckpoint /\ ~FinishCheckpoint
                BY <2>6 DEF BeginCheckpoint, FinishCheckpoint, Running
            <4>. QED  BY <1>7, <3>4, <4>1
        <3>5. CASE MarkBuffers \/ BeginSync
            <4>1. at' \in {"write", "sync"}
                BY <3>5 DEF MarkBuffers, BeginSync
            <4>2. Running'
                BY <4>1 DEF Running
            <4>. QED  BY <1>8, <2>6, <3>1, <4>1, <4>2 DEF Served
        <3>6. CASE at' = at
            <4>1. Running' /\ (at' = "prepare" => forced)
                BY <2>6, <3>6 DEF Running
            <4>2. at' = "prepare" => forced'
                <5>1. ~BeginCheckpoint
                    BY <3>6 DEF BeginCheckpoint
                <5>2. forced' = forced
                    BY <5>1, NextSplits DEF Modify, BackendWrite, BackendWritten, BgBufferSync,
                        SyncOneBuffer, BgFlush, SyncFile, SyncMissing, Create, DropRelation,
                        DropMainBuffers, ForgetMain, RegisterUnlink, DropForkBuffers,
                        DropBuffers, ForgetFork, UnlinkFork, RequestCheckpoint,
                        CheckpointStarted, CheckpointDone, BgAbsorb, CheckpointFails,
                        PrepareCheckpoint, MarkBuffers, BeginSync, CompleteCheckpoint,
                        FinishCheckpoint, vars
                <5>. QED  BY <4>1, <5>2
            <4>. QED  BY <1>8, <2>6, <3>1, <4>1, <4>2 DEF Served
        <3>. QED  BY <3>2, <3>3, <3>4, <3>5, <3>6, AtSteps
    <2>. QED  BY <2>2, <2>3, <2>4, <2>5, <2>6 DEF Served
<1>. QED  BY <1>0, <1>3, <1>4, <1>5, <1>6, <1>7, <1>8, RequestMoves

-----------------------------------------------------------------------------
(***************************************************************************)
(* The theorems                                                            *)
(***************************************************************************)

LEMMA InitInv == Init => IInv
<1>. SUFFICES ASSUME Init PROVE IInv
    OBVIOUS
<1>0. /\ CycleModulus \in Nat \ {0} /\ CounterModulus \in Nat \ {0} /\ MaxRequests \in Nat
      /\ 0 \in Cycles /\ 0 \in Counters
    BY ConstantsAssumption DEF Cycles, Counters
<1>1. FileTypes
    BY DEF Init, FileTypes
<1>2. RequestTypes
    <2>1. <<>> \in Seq(Requests) /\ Len(<<>>) = 0 /\ <<>> \in Seq([rel : Rels, cycle : Cycles])
          /\ DOMAIN <<>> = {} /\ <<>> \in [{} -> Entries]
        OBVIOUS
    <2>. QED  BY <1>0, <2>1 DEF Init, RequestTypes
<1>3. ControlTypes
    BY <1>0 DEF Init, ControlTypes, IdleRequest
<1>4. BufferInv /\ DropInv
    BY MainIsFile DEF Init, BufferInv, DropInv, Dropping
<1>5. queue = <<>> /\ unlinks = <<>> /\ ops = <<>> /\ DOMAIN <<>> = {}
    BY DEF Init
<1>6. UnlinkInv /\ ForgetInv
    BY <1>5 DEF UnlinkInv, OneUnlink, Once, Unlinking, Queued, Has, ForgetInv
<1>7. FdInv /\ PendingInv
    BY DEF Init, FdInv, PendingInv
<1>8. RevokedInv /\ SyncInv
    BY <1>5 DEF Init, RevokedInv, Gone, Requested, RequestedIn, NotFollowed, SyncInv
<1>9. ReplayInv /\ CoveredInv
    BY DEF Init, ReplayInv, Replaying, CoveredInv, CoveredBy, Covers
<1>10. CountInv /\ ServedInv
    BY DEF Init, CountInv, Counted, ServedInv, IdleRequest, Owed
<1>. QED
    BY <1>1, <1>2, <1>3, <1>4, <1>6, <1>7, <1>8, <1>9, <1>10
    DEF IInv, SyncingInv, FilesInv, TypeInt

LEMMA NextInv == IInv /\ [Next]_vars => IInv'
<1>. SUFFICES ASSUME IInv, [Next]_vars PROVE IInv'
    OBVIOUS
<1>0. /\ TypeInt /\ BufferInv /\ DropInv /\ UnlinkInv /\ ForgetInv /\ FdInv /\ RevokedInv
      /\ PendingInv /\ SyncInv /\ ReplayInv /\ CoveredInv /\ SyncingInv /\ CountInv /\ ServedInv
    BY DEF IInv, SyncingInv, FilesInv
<1>1. TypeInt'
    <2>1. FileTypes' /\ RequestTypes' /\ ControlTypes'
        BY <1>0, FileTypesStep, RequestTypesStep, ControlTypesStep
    <2>. QED  BY <2>1 DEF TypeInt
<1>2. BufferInv' /\ DropInv' /\ UnlinkInv' /\ ForgetInv' /\ FdInv'
    BY <1>0, BufferInvStep, DropInvStep, UnlinkInvStep, ForgetInvStep, FdInvStep
<1>3. RevokedInv' /\ PendingInv' /\ SyncInv' /\ ReplayInv'
    BY <1>0, RevokedInvStep, PendingInvStep, SyncInvStep, ReplayInvStep
<1>4. CoveredInv'
    BY <1>0, <1>1, <1>2, <1>3, CoveredInvStep
<1>5. CountInv' /\ ServedInv'
    BY <1>0, <1>1, <1>2, <1>3, CountInvStep, ServedInvStep
<1>. QED  BY <1>1, <1>2, <1>3, <1>4, <1>5 DEF IInv, SyncingInv, FilesInv

\* The inductive invariant of files, requests, the pending table and the
\* counters of checkpoints.
THEOREM IInvHolds == Spec => []IInv
BY InitInv, NextInv, PTL DEF Spec

\* A file with data that is only with the operating system has an fsync
\* pending that nothing revokes, and every variable has its type: requests
\* may be compacted, absorbed late, revoked for the file that had the name
\* before, or left over by checkpoints that failed.  (register_dirty_segment,
\* ForwardFsyncRequest, RememberFsyncRequest, mdsync)
THEOREM NothingForgottenHolds == Spec => []NothingForgotten
<1>1. IInv => NothingForgotten
    <2>. SUFFICES ASSUME IInv PROVE NothingForgotten
        OBVIOUS
    <2>0. /\ FileTypes /\ RequestTypes /\ ControlTypes
          /\ BufferInv /\ PendingInv /\ SyncInv
        BY DEF IInv, SyncingInv, FilesInv, TypeInt
    <2>1. ASSUME NEW f \in unsynced PROVE RequestPending(f)
        <3>1. f \in io \/ Requested(f)
            BY <2>1, <2>0 DEF PendingInv
        <3>2. CASE NotFollowed(queue, FsyncOf(f), ForgetOf(f))
            <4>1. PICK i \in DOMAIN queue : /\ queue[i] = FsyncOf(f)
                        /\ \A j \in DOMAIN queue : j > i => queue[j] # ForgetOf(f)
                BY <3>2 DEF NotFollowed
            <4>2. DOMAIN queue = 1 .. Len(queue) /\ Len(queue) \in Nat
                BY <2>0 DEF RequestTypes
            <4>3. \A j \in i + 1 .. Len(queue) : j \in DOMAIN queue /\ j > i
                BY <4>2
            <4>. QED  BY <4>1, <4>3 DEF RequestPending, FsyncOf, ForgetOf
        <3>3. CASE f \in DOMAIN ops /\ ~ops[f].canceled /\ ~Has(queue, ForgetOf(f))
            BY <3>3 DEF RequestPending, Has, ForgetOf
        <3>. QED  BY <3>1, <3>2, <3>3 DEF RequestPending, Requested, RequestedIn
    <2>2. /\ file \in [Files -> {"live", "dropped", "none", "retired"}]
          /\ fd \in [Files -> {"closed", "open", "stale"}]
          /\ replay \subseteq Rels /\ replayNext \subseteq replay
        BY <2>0 DEF FileTypes
    <2>3. /\ dirty \subseteq {f \in Files : file[f] = "live"}
          /\ io \subseteq {f \in Files : file[f] = "live"}
          /\ unsynced \subseteq {f \in Files : file[f] = "live"}
          /\ needed \subseteq dirty \union io
        BY <2>0 DEF BufferInv, FileTypes
    <2>4. /\ Len(queue) <= MaxRequests
          /\ \A i \in DOMAIN queue :
                queue[i] \in [type : {"fsync", "forget", "unlink"}, file : Files]
        <3>1. queue \in Seq(Requests)
            BY <2>0 DEF RequestTypes
        <3>2. \A i \in DOMAIN queue : queue[i] \in Requests
            BY <3>1
        <3>3. \A x \in Requests : x \in [type : {"fsync", "forget", "unlink"}, file : Files]
            BY MainIsFile DEF Requests, FsyncOf, ForgetOf, UnlinkOf
        <3>. QED  BY <2>0, <3>2, <3>3 DEF RequestTypes
    <2>5. /\ {force, signal, forced, syncBusy, logged, quiet} \subseteq BOOLEAN
          /\ {started, done, failed} \subseteq 0 .. CounterModulus - 1
          /\ at \in {"loop", "prepare", "mark", "write", "sync", "finish"}
        BY <2>0 DEF ControlTypes, Counters
    <2>6. /\ DOMAIN ops \subseteq Files
          /\ \A f \in DOMAIN ops : ops[f] \in [cycle : 0 .. CycleModulus - 1, canceled : BOOLEAN]
        BY <2>0 DEF RequestTypes, Entries, Cycles
    <2>7. at = "sync" => \A f \in Due : (ops[f].cycle + 1) % CycleModulus = syncCtr
        BY <2>0 DEF SyncInv, Due
    <2>8. \A i \in DOMAIN unlinks : unlinks[i] \in [rel : Rels, cycle : 0 .. CycleModulus - 1]
        <3>. SUFFICES ASSUME NEW i \in DOMAIN unlinks
                      PROVE  unlinks[i] \in [rel : Rels, cycle : 0 .. CycleModulus - 1]
            OBVIOUS
        <3>1. unlinks \in Seq([rel : Rels, cycle : Cycles])
            BY <2>0 DEF RequestTypes
        <3>2. i \in 1 .. Len(unlinks)
            BY <3>1
        <3>3. unlinks[i] \in [rel : Rels, cycle : Cycles]
            BY <3>1, <3>2, ElementOfSeq
        <3>. QED  BY <3>3 DEF Cycles
    <2>9. TypeOK
        BY <2>2, <2>3, <2>4, <2>5, <2>6, <2>7, <2>8 DEF TypeOK
    <2>. QED  BY <2>1, <2>9 DEF NothingForgotten
<1>. QED  BY <1>1, IInvHolds, PTL

\* A relation that got the number of a dropped one is not removed again by
\* the replay of the drop, however drops and checkpoints overlap.
\* (mdunlink, mdpreckpt, mdpostckpt)
THEOREM ReuseNotReplayedHolds == Spec => []ReuseNotReplayed
<1>1. IInv => ReuseNotReplayed
    BY DEF IInv, SyncingInv, ReplayInv, Replaying, ReuseNotReplayed
<1>. QED  BY <1>1, IInvHolds, PTL

\* A file that mdsync cannot open has its fsync requests revoked by then, so
\* that a drop never makes a checkpoint fail.  (mdsync, mdunlink)
THEOREM DropDoesNotFailHolds == Spec => []DropDoesNotFail
<1>1. IInv => DropDoesNotFail
    BY DEF IInv, SyncingInv, SyncInv, DropDoesNotFail
<1>. QED  BY <1>1, IInvHolds, PTL

\* When a checkpoint is complete, all that was in a buffer or with the
\* operating system at its REDO point is on disk.  (CreateCheckPoint,
\* BufferSync, mdsync)
THEOREM CheckpointDurableHolds == Spec => CheckpointDurable
<1>1. IInv /\ [Next]_vars => [CompleteCheckpoint => Owed("ckpt") = {}]_vars
    <2>. SUFFICES ASSUME IInv, CompleteCheckpoint PROVE Owed("ckpt") = {}
        OBVIOUS
    <2>1. TypeInt /\ CoveredBy("ckpt") /\ "ckpt" \in Observers
        BY DEF IInv, SyncingInv, FilesInv, CoveredInv, Observers
    <2>2. at = "sync" /\ Due = {}
        BY DEF CompleteCheckpoint
    <2>. QED  BY <2>1, <2>2, NothingOwed
<1>. QED  BY <1>1, IInvHolds, PTL DEF Spec, CheckpointDurable

\* When RequestCheckpoint returns without an error, everything that was
\* changed before the call is on disk: the flag it set was taken up by a
\* checkpoint that had not begun, no failure it has missed came in between,
\* and the wrapped counters tell it so.  (RequestCheckpoint, BackgroundWriterMain)
THEOREM RequestServedHolds == Spec => RequestServed
<1>1. IInv /\ [Next]_vars => [\A q \in Requesters : Succeeds(q) => Owed(q) = {}]_vars
    <2>. SUFFICES ASSUME IInv, NEW q \in Requesters, Succeeds(q) PROVE Owed(q) = {}
        OBVIOUS
    <2>1. req[q].at = "done" /\ NotBehind(done, req[q].newStarted) /\ failed = req[q].oldFailed
        BY DEF Succeeds, CheckpointDone
    <2>2. Served(q) /\ TypeInt
        BY <2>1 DEF IInv, SyncingInv, FilesInv, ServedInv
    <2>3. ASSUME Running, req[q].newStarted = started PROVE FALSE
        <3>1. started = Plus1(done) /\ done \in Counters
            BY <2>2, <2>3, RequestTyped DEF IInv, CountInv, Running
        <3>2. Ahead(done, started) = CounterModulus - 1
            BY <3>1, AheadIs
        <3>3. CounterModulus \in Nat /\ CounterModulus >= 4
            BY ConstantsAssumption
        <3>4. ~(CounterModulus - 1 < CounterModulus \div 2)
            BY <3>3
        <3>. QED  BY <2>1, <2>3, <3>2, <3>4 DEF NotBehind
    <2>. QED  BY <2>1, <2>2, <2>3 DEF Served
<1>. QED  BY <1>1, IInvHolds, PTL DEF Spec, RequestServed
=============================================================================
