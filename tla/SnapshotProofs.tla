--------------------------- MODULE SnapshotProofs ---------------------------
(***************************************************************************)
(* Proofs about Snapshot, for every set of writers and readers and every   *)
(* number of transaction ids.                                              *)
(*                                                                         *)
(* The invariant is built in layers, each inductive relative to the ones   *)
(* before it.  TypeInt and LogTypes are the types.  XidOrder puts the xids *)
(* of a transaction in order and ties what ends to what runs.              *)
(* CachesComplete says what the caches in PGPROC hold.  OldInv says how    *)
(* old the oldest thing is that a scan, a process's xmin and the horizon   *)
(* still have to respect; the horizon's safety is a part of it.  ForestInv *)
(* is about the trees in pg_subtrans, and LogInv about what the commit log *)
(* says of them while they end: a commit shows at once.  HintInv is what a *)
(* visibility test knows at each of its steps and remembers after it, and  *)
(* with it the hint bits are final.  AnswerInv says what the lists of a    *)
(* snapshot hold and do not hold, and from it what the test answers.       *)
(***************************************************************************)
EXTENDS Snapshot, WellFoundedInduction, SequenceTheorems, TLAPS

-----------------------------------------------------------------------------
(***************************************************************************)
(* Facts about numbers                                                     *)
(***************************************************************************)

\* The least element of a set of natural numbers.
LEMMA MinIsLeast ==
    ASSUME NEW T \in SUBSET Nat, T # {}
    PROVE  Min(T) \in T /\ \A y \in T : Min(T) <= y
<1>. DEFINE R == {ij \in Nat \X Nat : ij[1] < ij[2]}
<1>1. IsWellFoundedOn(R, Nat)
    BY NatLessThanWellFounded DEF OpToRel
<1>2. PICK x \in T : \A y \in T : <<y, x>> \notin R
    BY <1>1, WFMin
<1>3. ASSUME NEW y \in T PROVE x <= y
    <2>1. x \in Nat /\ y \in Nat /\ ~(y < x)
        BY <1>2
    <2>. QED  BY <2>1
<1>. QED  BY <1>3 DEF Min

\* The greatest element of a set of numbers that has a bound.
LEMMA MaxIsGreatest ==
    ASSUME NEW T \in SUBSET Nat, T # {}, NEW n \in Nat, \A y \in T : y <= n
    PROVE  Max(T) \in T /\ \A y \in T : y <= Max(T)
<1>. DEFINE R == {ij \in Nat \X Nat : ij[1] < ij[2]}
            D == {n - y : y \in T}
<1>1. IsWellFoundedOn(R, Nat)
    BY NatLessThanWellFounded DEF OpToRel
<1>2. D \in SUBSET Nat /\ D # {}
    <2>1. \A y \in T : n - y \in Nat
        OBVIOUS
    <2>. QED  BY <2>1
<1>3. PICK d \in D : \A e \in D : <<e, d>> \notin R
    <2>. HIDE DEF D, R
    <2>. QED  BY <1>1, <1>2, WFMin
<1>4. PICK x \in T : d = n - x
    BY <1>3
<1>5. ASSUME NEW y \in T PROVE y <= x
    <2>1. x \in Nat /\ y \in Nat /\ n - y \in D /\ n - y \in Nat /\ n - x \in Nat
        BY <1>2
    <2>2. ~(n - y < n - x)
        BY <1>3, <1>4, <2>1
    <2>. QED  BY <2>1, <2>2
<1>6. \A y \in T : x >= y
    BY <1>5
<1>7. Max(T) \in T /\ \A y \in T : Max(T) >= y
    BY <1>6 DEF Max
<1>. QED  BY <1>7

-----------------------------------------------------------------------------

Link == [at : {"link"}, sub : Nat, under : Nat]

\* A scan in progress, and what a finished one leaves as a snapshot.
Scan == [at : {"snapshot", "oldest"}, left : SUBSET Procs, xmax : Nat, xmin : Nat,
         globalxmin : Nat, xip : SUBSET Nat, subxip : SUBSET Nat,
         suboverflowed : BOOLEAN]

TypeInt ==
    /\ nextXid \in Nat \ {0} /\ latestCompletedXid \in Nat
    /\ xid \in [Procs -> Nat] /\ xmin \in [Procs -> Nat]
    /\ subxids \in [Procs -> SUBSET Nat] /\ overflowed \in [Procs -> BOOLEAN]
    /\ children \in [Procs -> SUBSET Nat]
    /\ linking \in [Procs -> {Idle} \union Link]
    /\ pc \in [Procs -> {"run", "subabort", "commit", "abort"}]
    /\ ending \in [Procs -> SUBSET Nat]
    /\ scan \in [Procs -> {Idle} \union Scan]
    /\ snap \in [Procs -> {Idle} \union Scan]
    /\ done \in SUBSET Nat
    /\ past \in [Procs -> SUBSET Nat]
    /\ horizon \in Nat

-----------------------------------------------------------------------------
(***************************************************************************)
(* Numbers                                                                 *)
(***************************************************************************)

\* The operators on xids, Invalid being older than none.
LEMMA EarlierIs ==
    ASSUME NEW x \in Nat, NEW y \in Nat
    PROVE  /\ Earlier(x, y) \in Nat /\ Earlier(x, y) <= y
           /\ x # Invalid => Earlier(x, y) <= x
           /\ y # Invalid => Earlier(x, y) # Invalid
BY DEF Earlier, Invalid

LEMMA LaterIs ==
    ASSUME NEW x \in Nat, NEW y \in Nat
    PROVE  /\ Later(x, y) \in {x, y}
           /\ x <= Later(x, y) /\ y <= Later(x, y)
BY DEF Later

LEMMA IdleIsNoRecord == Idle \notin Scan /\ Idle \notin Link
<1>1. Idle.at = "idle"
    BY DEF Idle
<1>. QED  BY <1>1 DEF Scan, Link

-----------------------------------------------------------------------------
(***************************************************************************)
(* Types                                                                   *)
(***************************************************************************)

\* What one look at a PGPROC does to a scan for a snapshot.
LEMMA SawForSnapshotIs ==
    ASSUME TypeInt, NEW p \in Procs, NEW q \in Procs, NEW s \in Scan
    PROVE  LET t == SawForSnapshot(p, q, s)
           IN  /\ t \in Scan /\ t.at = s.at /\ t.left = s.left /\ t.xmax = s.xmax
               /\ t.xmin = IF xid[q] >= s.xmax THEN s.xmin
                           ELSE Earlier(xid[q], s.xmin)
               /\ t.globalxmin = Earlier(xmin[q], s.globalxmin)
<1>. DEFINE t == [s EXCEPT !.globalxmin = Earlier(xmin[q], @)]
            others == IF q = p THEN {} ELSE {xid[q]} \ {Invalid}
<1>1. /\ xid[q] \in Nat /\ xmin[q] \in Nat
      /\ overflowed[q] \in BOOLEAN /\ subxids[q] \in SUBSET Nat
      /\ others \in SUBSET Nat
    BY DEF TypeInt
<1>2. /\ s.xmin \in Nat /\ s.globalxmin \in Nat /\ s.xip \in SUBSET Nat
      /\ s.subxip \in SUBSET Nat /\ s.suboverflowed \in BOOLEAN
    BY DEF Scan
<1>3. /\ Earlier(xmin[q], s.globalxmin) \in Nat
      /\ Earlier(xid[q], s.xmin) \in Nat
    BY <1>1, <1>2, EarlierIs
<1>4. t \in Scan
    BY <1>3 DEF Scan
<1>5. CASE xid[q] >= s.xmax
    BY <1>4, <1>5 DEF SawForSnapshot, Scan
<1>6. CASE ~(xid[q] >= s.xmax)
    <2>. DEFINE flag == t.suboverflowed \/ (q # p /\ overflowed[q])
                subs == IF s.suboverflowed \/ q = p \/ overflowed[q] THEN t.subxip
                        ELSE t.subxip \union subxids[q]
                u == [t EXCEPT !.xip = @ \union others,
                               !.xmin = Earlier(xid[q], @),
                               !.suboverflowed = flag,
                               !.subxip = subs]
    <2>1. SawForSnapshot(p, q, s) = u
        BY <1>6 DEF SawForSnapshot
    <2>2. /\ t.xip \union others \in SUBSET Nat /\ t.xmin = s.xmin
          /\ flag \in BOOLEAN /\ subs \in SUBSET Nat
        BY <1>1, <1>2, <1>4 DEF Scan
    <2>3. u \in Scan
        BY <1>3, <1>4, <2>2 DEF Scan
    <2>. QED  BY <1>4, <1>6, <2>1, <2>2, <2>3 DEF Scan
<1>. QED  BY <1>5, <1>6

\* And to a scan for the oldest xmin.
LEMMA SawForOldestIs ==
    ASSUME TypeInt, NEW q \in Procs, NEW s \in Scan
    PROVE  LET t == SawForOldest(q, s)
           IN  /\ t \in Scan /\ t.at = s.at /\ t.left = s.left /\ t.xmax = s.xmax
               /\ t.xmin = Earlier(xmin[q], Earlier(xid[q], s.xmin))
               /\ t.globalxmin = s.globalxmin
<1>1. xid[q] \in Nat /\ xmin[q] \in Nat /\ s.xmin \in Nat
    BY DEF TypeInt, Scan
<1>2. Earlier(xmin[q], Earlier(xid[q], s.xmin)) \in Nat
    BY <1>1, EarlierIs
<1>. QED  BY <1>2 DEF SawForOldest, Scan

LEMMA TypeInit == Init => TypeInt
BY DEF Init, TypeInt, Invalid

\* The steps that concern neither the array nor a snapshot.
Elsewhere(p) ==
    \/ SetPageStatus(p)
    \/ \E x \in Xids : LookUp(p, x)
    \/ LookIntoSubtrans(p) \/ LookIntoClog(p) \/ GoOn(p)

LEMMA ElsewhereUnchanged ==
    ASSUME NEW p \in Procs, Elsewhere(p)
    PROVE  UNCHANGED <<nextXid, latestCompletedXid, xid, subxids, overflowed, xmin,
                       children, linking, pc, ending, scan, snap, done, past, horizon>>
<1>. USE DEF shared, own, reading
<1>1. CASE SetPageStatus(p)
    BY <1>1 DEF SetPageStatus
<1>2. CASE \E x \in Xids : LookUp(p, x)
    <2>1. PICK x \in Xids : LookUp(p, x)
        BY <1>2
    <2>2. UNCHANGED <<shared, own, scan, snap, cached, past, xmin, hint, horizon>>
        BY <2>1 DEF LookUp
    <2>. QED  BY <2>2
<1>3. CASE LookIntoSubtrans(p)
    BY <1>3 DEF LookIntoSubtrans
<1>4. CASE LookIntoClog(p)
    BY <1>4 DEF LookIntoClog
<1>5. CASE GoOn(p)
    BY <1>5 DEF GoOn
<1>. QED  BY <1>1, <1>2, <1>3, <1>4, <1>5 DEF Elsewhere

\* What ends when a transaction or a subtransaction does.
LEMMA EndIs ==
    ASSUME NEW p \in Procs,
           \/ RecordTransactionCommit(p) \/ RecordTransactionAbort(p)
           \/ RecordSubtransactionAbort(p)
    PROVE  /\ Free(p)
           /\ \E x \in Tree(p), subs \in SUBSET children[p],
                 what \in {"subabort", "commit", "abort"},
                 status \in {Committed, Aborted} :
                /\ End(p, x, subs, what, status)
                /\ what # "subabort" => x = xid[p] /\ subs = children[p] /\ x # Invalid
                /\ what = "subabort" => x \in children[p]
                /\ what = "commit" <=> status = Committed
<1>1. CASE RecordTransactionCommit(p) \/ RecordTransactionAbort(p)
    BY <1>1 DEF RecordTransactionCommit, RecordTransactionAbort, Tree, Committed, Aborted
<1>2. CASE RecordSubtransactionAbort(p)
    <2>1. PICK x \in children[p] :
              End(p, x, {y \in children[p] : x \in Ancestors[y]}, "subabort", Aborted)
        BY <1>2 DEF RecordSubtransactionAbort
    <2>2. /\ {y \in children[p] : x \in Ancestors[y]} \in SUBSET children[p]
          /\ x \in Tree(p) /\ Free(p) /\ Aborted # Committed
        BY <1>2 DEF Tree, RecordSubtransactionAbort, Committed, Aborted
    <2>. QED  BY <2>1, <2>2
<1>. QED  BY <1>1, <1>2

(***************************************************************************)
(* The xids of a transaction are in the order of their assignment, and     *)
(* what ends belongs to a transaction that runs and links nothing.         *)
(***************************************************************************)
Ordered(p) ==
    /\ xid[p] < nextXid
    /\ \A x \in RunningSubs(p) : xid[p] # Invalid /\ xid[p] < x /\ x < nextXid
    /\ ending[p] \subseteq Tree(p)
    /\ pc[p] = "run" => ending[p] = {}
    /\ pc[p] # "run" => xid[p] # Invalid /\ ending[p] # {} /\ linking[p] = Idle

XidOrder == latestCompletedXid < nextXid /\ \A p \in Procs : Ordered(p)

\* A transaction that ends leaves the latest completed xid between what it
\* was and the next one.
LEMMA LatestXidIs ==
    ASSUME TypeInt, XidOrder, NEW p \in Procs, pc[p] # "run"
    PROVE  /\ LatestXid(p) \in Nat
           /\ latestCompletedXid <= LatestXid(p) /\ LatestXid(p) < nextXid
<1>1. ending[p] \in SUBSET Nat /\ ending[p] # {} /\ nextXid \in Nat
    BY DEF TypeInt, XidOrder, Ordered
<1>2. ASSUME NEW x \in ending[p] PROVE x < nextXid
    <2>1. x \in Tree(p) /\ xid[p] < nextXid /\ Ordered(p)
        BY <1>2 DEF XidOrder, Ordered
    <2>. QED  BY <2>1 DEF Ordered, Tree, RunningSubs
<1>3. Max(ending[p]) \in ending[p]
    <2>1. \A x \in ending[p] : x <= nextXid
        BY <1>1, <1>2
    <2>. QED  BY <1>1, <2>1, MaxIsGreatest
<1>4. Max(ending[p]) \in Nat /\ Max(ending[p]) < nextXid
    BY <1>1, <1>2, <1>3
<1>5. latestCompletedXid \in Nat /\ latestCompletedXid < nextXid
    BY DEF TypeInt, XidOrder
<1>. QED  BY <1>4, <1>5, LaterIs DEF LatestXid

LEMMA TypeStep == TypeInt /\ XidOrder /\ [Next]_vars => TypeInt'
<1>. SUFFICES ASSUME TypeInt, XidOrder, [Next]_vars PROVE TypeInt'
    OBVIOUS
<1>. USE DEF shared, own, reading
<1>1. ASSUME NEW p \in Procs, AssignXid(p) PROVE TypeInt'
    BY <1>1 DEF AssignXid, TypeInt
<1>2. ASSUME NEW p \in Procs, AssignSubxid(p) PROVE TypeInt'
    <2>1. /\ subxids' \in [Procs -> SUBSET Nat]
          /\ overflowed' \in [Procs -> BOOLEAN]
        <3>1. /\ subxids \in [Procs -> SUBSET Nat] /\ nextXid \in Nat
              /\ overflowed \in [Procs -> BOOLEAN] /\ StoreSubxid(p, nextXid)
            BY <1>2 DEF AssignSubxid, TypeInt
        <3>2. CASE Cardinality(subxids[p]) < MaxCachedSubxids
            <4>1. /\ subxids' = [subxids EXCEPT ![p] = @ \union {nextXid}]
                  /\ overflowed' = overflowed
                BY <3>1, <3>2 DEF StoreSubxid
            <4>. QED  BY <3>1, <4>1
        <3>3. CASE ~(Cardinality(subxids[p]) < MaxCachedSubxids)
            <4>1. /\ overflowed' = [overflowed EXCEPT ![p] = TRUE]
                  /\ subxids' = subxids
                BY <3>1, <3>3 DEF StoreSubxid
            <4>. QED  BY <3>1, <4>1
        <3>. QED  BY <3>2, <3>3
    <2>2. linking' \in [Procs -> {Idle} \union Link]
        <3>1. PICK x \in Tree(p) : linking' =
                [linking EXCEPT ![p] = [at |-> "link", sub |-> nextXid, under |-> x]]
            BY <1>2 DEF AssignSubxid
        <3>2. x \in Nat
            BY <3>1 DEF Tree, TypeInt
        <3>3. [at |-> "link", sub |-> nextXid, under |-> x] \in Link
            BY <3>2 DEF Link, TypeInt
        <3>. QED  BY <3>1, <3>3 DEF TypeInt
    <2>. QED  BY <1>2, <2>1, <2>2 DEF AssignSubxid, TypeInt
<1>3. ASSUME NEW p \in Procs, SubTransSetParent(p) PROVE TypeInt'
    <2>1. linking[p].sub \in Nat
        BY <1>3 DEF SubTransSetParent, TypeInt, Link
    <2>. QED  BY <1>3, <2>1 DEF SubTransSetParent, TypeInt
<1>4. ASSUME NEW p \in Procs,
             \/ RecordTransactionCommit(p) \/ RecordTransactionAbort(p)
             \/ RecordSubtransactionAbort(p)
      PROVE  TypeInt'
    <2>1. PICK x \in Tree(p), subs \in SUBSET children[p],
               what \in {"subabort", "commit", "abort"},
               status \in {Committed, Aborted} : End(p, x, subs, what, status)
        BY <1>4 DEF RecordTransactionCommit, RecordTransactionAbort,
                    RecordSubtransactionAbort, Tree
    <2>2. {x} \union subs \in SUBSET Nat
        BY <2>1 DEF Tree, TypeInt
    <2>. QED  BY <2>1, <2>2 DEF End, TypeInt
<1>5. ASSUME NEW p \in Procs, ProcArrayEndTransaction(p) PROVE TypeInt'
    <2>1. LatestXid(p) \in Nat
        BY <1>5, LatestXidIs DEF ProcArrayEndTransaction
    <2>2. done' \in SUBSET Nat
        BY <1>5 DEF ProcArrayEndTransaction, TypeInt
    <2>. QED  BY <1>5, <2>1, <2>2 DEF ProcArrayEndTransaction, TypeInt, Invalid
<1>6. ASSUME NEW p \in Procs, XidCacheRemoveRunningXids(p) PROVE TypeInt'
    <2>1. LatestXid(p) \in Nat
        BY <1>6, LatestXidIs DEF XidCacheRemoveRunningXids
    <2>2. subxids' \in [Procs -> SUBSET Nat] /\ children' \in [Procs -> SUBSET Nat]
        BY <1>6 DEF XidCacheRemoveRunningXids, Removed, TypeInt
    <2>. QED  BY <1>6, <2>1, <2>2 DEF XidCacheRemoveRunningXids, TypeInt
<1>7. ASSUME NEW p \in Procs, BeginSnapshot(p) \/ BeginOldestXmin(p) PROVE TypeInt'
    <2>1. PICK what \in {"snapshot", "oldest"} : BeginScan(p, what)
        BY <1>7 DEF BeginSnapshot, BeginOldestXmin
    <2>2. scan' \in [Procs -> {Idle} \union Scan]
        BY <2>1 DEF BeginScan, Scan, TypeInt
    <2>3. /\ snap' \in [Procs -> {Idle} \union Scan]
          /\ past' \in [Procs -> SUBSET Nat]
        BY <1>7 DEF BeginSnapshot, BeginOldestXmin, TypeInt
    <2>. QED  BY <1>7, <2>2, <2>3 DEF BeginSnapshot, BeginOldestXmin, TypeInt
<1>8. ASSUME NEW p \in Procs, NEW q \in Procs, LookAt(p, q) PROVE TypeInt'
    <2>. DEFINE s == [scan[p] EXCEPT !.left = @ \ {q}]
    <2>1. s \in Scan
        BY <1>8, SMTT(30) DEF LookAt, TypeInt, Scan
    <2>2. SawForSnapshot(p, q, s) \in Scan /\ SawForOldest(q, s) \in Scan
        BY <2>1, SawForSnapshotIs, SawForOldestIs
    <2>3. scan' \in [Procs -> {Idle} \union Scan]
        BY <1>8, <2>2 DEF LookAt, TypeInt
    <2>. QED  BY <1>8, <2>3 DEF LookAt, TypeInt
<1>9. ASSUME NEW p \in Procs, SnapshotDone(p) \/ OldestXminDone(p) PROVE TypeInt'
    <2>1. scan[p] \in Scan
        BY <1>9 DEF SnapshotDone, OldestXminDone, ScanDone, TypeInt, Idle
    <2>2. scan[p].xmin \in Nat /\ scan[p].globalxmin \in Nat /\ horizon \in Nat
        BY <2>1 DEF Scan, TypeInt
    <2>3. /\ Later(horizon, Earlier(scan[p].xmin, scan[p].globalxmin)) \in Nat
          /\ Later(horizon, scan[p].xmin) \in Nat
        BY <2>2, EarlierIs, LaterIs, ZenonT(60)
    <2>4. horizon' \in Nat
        BY <1>9, <2>3 DEF SnapshotDone, OldestXminDone
    <2>5. xmin' \in [Procs -> Nat]
        BY <1>9, <2>2 DEF SnapshotDone, OldestXminDone, TypeInt
    <2>6. /\ snap' \in [Procs -> {Idle} \union Scan]
          /\ scan' \in [Procs -> {Idle} \union Scan]
        BY <1>9, <2>1 DEF SnapshotDone, OldestXminDone, TypeInt
    <2>. QED  BY <1>9, <2>4, <2>5, <2>6 DEF SnapshotDone, OldestXminDone, TypeInt
<1>10. ASSUME NEW p \in Procs, SnapshotResetXmin(p) PROVE TypeInt'
    BY <1>10 DEF SnapshotResetXmin, TypeInt, Invalid
<1>11. ASSUME NEW p \in Procs, Elsewhere(p) PROVE TypeInt'
    BY <1>11, ElsewhereUnchanged DEF TypeInt
<1>12. CASE UNCHANGED vars
    BY <1>12 DEF vars, TypeInt
<1>. QED
    BY <1>1, <1>2, <1>3, <1>4, <1>5, <1>6, <1>7, <1>8, <1>9, <1>10, <1>11, <1>12
    DEF Next, WriterStep, ReaderStep, Procs, Elsewhere

-----------------------------------------------------------------------------
(***************************************************************************)
(* The order of xids                                                       *)
(***************************************************************************)

LEMMA OrderInit == Init => XidOrder
BY DEF Init, XidOrder, Ordered, RunningSubs, Tree, Invalid

\* A transaction is concerned by its own steps alone.
LEMMA OthersStayOrdered ==
    ASSUME TypeInt, NEW p \in Procs, Ordered(p), nextXid' \in Nat, nextXid <= nextXid',
           xid'[p] = xid[p], children'[p] = children[p], linking'[p] = linking[p],
           pc'[p] = pc[p], ending'[p] = ending[p]
    PROVE  Ordered(p)'
<1>1. RunningSubs(p)' = RunningSubs(p) /\ Tree(p)' = Tree(p)
    BY DEF RunningSubs, Tree
<1>2. xid[p] \in Nat /\ nextXid \in Nat /\ RunningSubs(p) \in SUBSET Nat
    BY DEF TypeInt, RunningSubs, Link
<1>3. \A x \in RunningSubs(p) : x < nextXid'
    BY <1>2 DEF Ordered
<1>. QED  BY <1>1, <1>2, <1>3 DEF Ordered

LEMMA OrderStep == TypeInt /\ TypeInt' /\ XidOrder /\ [Next]_vars => XidOrder'
<1>. SUFFICES ASSUME TypeInt, TypeInt', XidOrder, [Next]_vars PROVE XidOrder'
    OBVIOUS
<1>. USE DEF shared, own, reading
<1>0. /\ nextXid \in Nat /\ latestCompletedXid \in Nat /\ nextXid' \in Nat
      /\ latestCompletedXid < nextXid
      /\ \A p \in Procs : Ordered(p) /\ xid[p] \in Nat /\ children[p] \in SUBSET Nat
    BY DEF TypeInt, XidOrder
<1>1. ASSUME NEW p \in Procs, AssignXid(p) PROVE XidOrder'
    <2>1. RunningSubs(p) = {}
        BY <1>0, <1>1 DEF AssignXid, Ordered
    <2>2. RunningSubs(p)' = {}
        BY <1>1, <2>1 DEF AssignXid, RunningSubs
    <2>3. xid'[p] = nextXid /\ nextXid' = nextXid + 1
        BY <1>1 DEF AssignXid, TypeInt
    <2>4. pc'[p] = "run" /\ ending'[p] = {}
        BY <1>0, <1>1 DEF AssignXid, Free, Ordered
    <2>5. Ordered(p)'
        BY <1>0, <2>2, <2>3, <2>4 DEF Ordered
    <2>6. ASSUME NEW q \in Procs, q # p PROVE Ordered(q)'
        BY <1>0, <1>1, <2>6, OthersStayOrdered DEF AssignXid, TypeInt
    <2>7. latestCompletedXid' < nextXid'
        BY <1>0, <1>1 DEF AssignXid
    <2>. QED  BY <2>5, <2>6, <2>7 DEF XidOrder
<1>2. ASSUME NEW p \in Procs, AssignSubxid(p) PROVE XidOrder'
    <2>1. PICK x \in Tree(p) : linking' =
            [linking EXCEPT ![p] = [at |-> "link", sub |-> nextXid, under |-> x]]
        BY <1>2 DEF AssignSubxid
    <2>2. linking'[p].sub = nextXid /\ linking'[p] # Idle /\ linking[p] = Idle
        BY <1>2, <2>1, IdleIsNoRecord DEF AssignSubxid, Free, TypeInt, Idle
    <2>3. RunningSubs(p)' = RunningSubs(p) \union {nextXid}
        BY <1>2, <2>2 DEF RunningSubs, AssignSubxid
    <2>4. /\ xid'[p] = xid[p] /\ xid[p] # Invalid /\ nextXid' = nextXid + 1
          /\ pc'[p] = "run" /\ pc[p] = "run" /\ ending'[p] = ending[p]
        BY <1>2 DEF AssignSubxid, Free
    <2>5. \A y \in RunningSubs(p) : xid[p] < y /\ y < nextXid
        BY <1>0 DEF Ordered
    <2>6. RunningSubs(p) \in SUBSET Nat
        BY DEF TypeInt, RunningSubs, Link
    <2>7. \A y \in RunningSubs(p)' : xid[p] < y /\ y < nextXid'
        BY <1>0, <2>3, <2>4, <2>5, <2>6 DEF Ordered
    <2>8. Ordered(p)'
        BY <1>0, <2>4, <2>7 DEF Ordered
    <2>9. ASSUME NEW q \in Procs, q # p PROVE Ordered(q)'
        BY <1>0, <1>2, <2>1, <2>9, OthersStayOrdered DEF AssignSubxid, TypeInt
    <2>10. latestCompletedXid' < nextXid'
        BY <1>0, <1>2 DEF AssignSubxid
    <2>. QED  BY <2>8, <2>9, <2>10 DEF XidOrder
<1>3. ASSUME NEW p \in Procs, SubTransSetParent(p) PROVE XidOrder'
    <2>1. RunningSubs(p)' = RunningSubs(p)
        BY <1>3 DEF SubTransSetParent, RunningSubs, TypeInt
    <2>2. /\ UNCHANGED <<nextXid, latestCompletedXid, xid, pc, ending>>
          /\ pc[p] = "run" /\ ending[p] = {}
        BY <1>0, <1>3 DEF SubTransSetParent, Ordered
    <2>3. Ordered(p)'
        BY <1>0, <2>1, <2>2 DEF Ordered
    <2>4. ASSUME NEW q \in Procs, q # p PROVE Ordered(q)'
        BY <1>0, <1>3, <2>4, OthersStayOrdered DEF SubTransSetParent, TypeInt
    <2>. QED  BY <1>0, <2>2, <2>3, <2>4 DEF XidOrder
<1>4. ASSUME NEW p \in Procs,
             \/ RecordTransactionCommit(p) \/ RecordTransactionAbort(p)
             \/ RecordSubtransactionAbort(p)
      PROVE  XidOrder'
    <2>1. PICK x \in Tree(p), subs \in SUBSET children[p],
               what \in {"subabort", "commit", "abort"},
               status \in {Committed, Aborted} :
                   /\ End(p, x, subs, what, status)
                   /\ what # "subabort" => x = xid[p] /\ x # Invalid
                   /\ what = "subabort" => x \in children[p]
        BY <1>4, EndIs
    <2>2. /\ Free(p) /\ xid[p] # Invalid
          /\ RunningSubs(p)' = RunningSubs(p) /\ Tree(p)' = Tree(p)
        <3>1. Free(p)
            BY <1>4, EndIs
        <3>2. RunningSubs(p)' = RunningSubs(p) /\ Tree(p)' = Tree(p)
            BY <2>1 DEF End, RunningSubs, Tree
        <3>3. xid[p] # Invalid
            BY <1>0, <2>1 DEF Ordered, RunningSubs
        <3>. QED  BY <3>1, <3>2, <3>3
    <2>3. UNCHANGED <<nextXid, latestCompletedXid, xid, children, linking>>
        BY <2>1 DEF End
    <2>4. pc'[p] = what /\ ending'[p] = {x} \union subs
        BY <2>1 DEF End, TypeInt
    <2>5. {x} \union subs \subseteq Tree(p)
        BY <2>1 DEF Tree
    <2>6. Ordered(p)'
        BY <1>0, <2>2, <2>3, <2>4, <2>5 DEF Ordered, Free
    <2>7. ASSUME NEW q \in Procs, q # p PROVE Ordered(q)'
        BY <1>0, <2>1, <2>3, <2>7, OthersStayOrdered DEF End, TypeInt
    <2>. QED  BY <1>0, <2>3, <2>6, <2>7 DEF XidOrder
<1>5. ASSUME NEW p \in Procs,
             ProcArrayEndTransaction(p) \/ XidCacheRemoveRunningXids(p)
      PROVE  XidOrder'
    <2>1. /\ pc[p] # "run" /\ latestCompletedXid' = LatestXid(p)
          /\ UNCHANGED <<nextXid, linking>>
        BY <1>5 DEF ProcArrayEndTransaction, XidCacheRemoveRunningXids
    <2>2. latestCompletedXid' < nextXid'
        BY <2>1, LatestXidIs
    <2>3. pc'[p] = "run" /\ ending'[p] = {} /\ linking'[p] = Idle
        BY <1>0, <1>5, <2>1 DEF ProcArrayEndTransaction, XidCacheRemoveRunningXids,
            Ordered, TypeInt
    <2>4. ASSUME ProcArrayEndTransaction(p) PROVE Ordered(p)'
        <3>1. xid'[p] = Invalid /\ children'[p] = {}
            BY <2>4 DEF ProcArrayEndTransaction, TypeInt
        <3>2. xid[p] # Invalid /\ xid[p] < nextXid
            BY <1>0, <2>1 DEF Ordered
        <3>3. RunningSubs(p)' = {}
            BY <2>3, <3>1 DEF RunningSubs
        <3>. QED  BY <1>0, <2>1, <2>3, <3>1, <3>2, <3>3 DEF Ordered, Invalid
    <2>5. ASSUME XidCacheRemoveRunningXids(p) PROVE Ordered(p)'
        <3>1. xid'[p] = xid[p] /\ children'[p] \subseteq children[p]
            BY <2>5 DEF XidCacheRemoveRunningXids, TypeInt
        <3>2. RunningSubs(p)' \subseteq RunningSubs(p)
            BY <2>3, <3>1 DEF RunningSubs
        <3>. QED  BY <1>0, <2>1, <2>3, <3>1, <3>2 DEF Ordered
    <2>6. ASSUME NEW q \in Procs, q # p PROVE Ordered(q)'
        BY <1>0, <1>5, <2>1, <2>6, OthersStayOrdered
        DEF ProcArrayEndTransaction, XidCacheRemoveRunningXids, TypeInt
    <2>. QED  BY <1>5, <2>2, <2>4, <2>5, <2>6 DEF XidOrder
<1>6. ASSUME UNCHANGED <<nextXid, latestCompletedXid, xid, children, linking, pc, ending>>
      PROVE  XidOrder'
    <2>1. ASSUME NEW q \in Procs PROVE Ordered(q)'
        BY <1>0, <1>6, OthersStayOrdered
    <2>. QED  BY <1>0, <1>6, <2>1 DEF XidOrder
<1>7. ASSUME NEW p \in Procs,
             \/ BeginSnapshot(p) \/ BeginOldestXmin(p) \/ \E q \in Procs : LookAt(p, q)
             \/ SnapshotDone(p) \/ OldestXminDone(p) \/ SnapshotResetXmin(p)
      PROVE  XidOrder'
    BY <1>6, <1>7 DEF BeginSnapshot, BeginOldestXmin, LookAt, SnapshotDone,
        OldestXminDone, SnapshotResetXmin
<1>8. ASSUME NEW p \in Procs, Elsewhere(p) PROVE XidOrder'
    BY <1>6, <1>8, ElsewhereUnchanged
<1>9. CASE UNCHANGED vars
    BY <1>6, <1>9 DEF vars
<1>. QED
    BY <1>1, <1>2, <1>3, <1>4, <1>5, <1>7, <1>8, <1>9
    DEF Next, WriterStep, ReaderStep, Procs, Elsewhere

LEMMA OrderInvariant == Spec => [](TypeInt /\ XidOrder)
BY TypeInit, TypeStep, OrderInit, OrderStep, PTL DEF Spec

-----------------------------------------------------------------------------
(***************************************************************************)
(* The caches of subtransactions                                           *)
(***************************************************************************)
Cached(p) ==
    /\ subxids[p] \subseteq RunningSubs(p)
    /\ overflowed[p] \/ RunningSubs(p) \subseteq subxids[p]

LEMMA CachesInit == Init => CachesComplete
BY DEF Init, CachesComplete, RunningSubs

LEMMA CachesStep == TypeInt /\ XidOrder /\ CachesComplete /\ [Next]_vars => CachesComplete'
<1>. SUFFICES ASSUME TypeInt, XidOrder, CachesComplete, [Next]_vars,
                     NEW q \in Procs
              PROVE  Cached(q)'
    BY DEF CachesComplete, Cached
<1>. USE DEF shared, own, reading
<1>0. Cached(q)
    BY DEF CachesComplete, Cached
<1>1. ASSUME subxids'[q] = subxids[q], overflowed'[q] = overflowed[q],
             RunningSubs(q)' = RunningSubs(q)
      PROVE  Cached(q)'
    BY <1>0, <1>1 DEF Cached
<1>2. ASSUME NEW p \in Procs, AssignXid(p) PROVE Cached(q)'
    BY <1>1, <1>2 DEF AssignXid, RunningSubs
<1>3. ASSUME NEW p \in Procs, AssignSubxid(p) PROVE Cached(q)'
    <2>1. PICK x \in Tree(p) : linking' =
            [linking EXCEPT ![p] = [at |-> "link", sub |-> nextXid, under |-> x]]
        BY <1>3 DEF AssignSubxid
    <2>2. children' = children /\ StoreSubxid(p, nextXid)
        BY <1>3 DEF AssignSubxid
    <2>3. CASE q # p
        <3>1. RunningSubs(q)' = RunningSubs(q)
            BY <2>1, <2>2, <2>3 DEF RunningSubs, TypeInt
        <3>2. subxids'[q] = subxids[q] /\ overflowed'[q] = overflowed[q]
            <4>1. CASE Cardinality(subxids[p]) < MaxCachedSubxids
                BY <2>2, <2>3, <4>1 DEF StoreSubxid, TypeInt
            <4>2. CASE ~(Cardinality(subxids[p]) < MaxCachedSubxids)
                BY <2>2, <2>3, <4>2 DEF StoreSubxid, TypeInt
            <4>. QED  BY <4>1, <4>2
        <3>. QED  BY <1>1, <3>1, <3>2
    <2>4. CASE q = p
        <3>1. linking'[p].sub = nextXid /\ linking'[p] # Idle /\ linking[p] = Idle
            BY <1>3, <2>1, IdleIsNoRecord DEF AssignSubxid, Free, TypeInt, Idle
        <3>2. RunningSubs(p)' = RunningSubs(p) \union {nextXid}
            BY <2>2, <3>1 DEF RunningSubs
        <3>3. CASE Cardinality(subxids[p]) < MaxCachedSubxids
            <4>1. subxids'[p] = subxids[p] \union {nextXid} /\ overflowed' = overflowed
                BY <2>2, <3>3 DEF StoreSubxid, TypeInt
            <4>. QED  BY <1>0, <2>4, <3>2, <4>1 DEF Cached
        <3>4. CASE ~(Cardinality(subxids[p]) < MaxCachedSubxids)
            <4>1. subxids' = subxids /\ overflowed'[p] = TRUE
                BY <2>2, <3>4 DEF StoreSubxid, TypeInt
            <4>. QED  BY <1>0, <2>4, <3>2, <4>1 DEF Cached
        <3>. QED  BY <3>3, <3>4
    <2>. QED  BY <2>3, <2>4
<1>4. ASSUME NEW p \in Procs, SubTransSetParent(p) PROVE Cached(q)'
    <2>1. RunningSubs(q)' = RunningSubs(q)
        BY <1>4 DEF SubTransSetParent, RunningSubs, TypeInt
    <2>. QED  BY <1>1, <1>4, <2>1 DEF SubTransSetParent
<1>5. ASSUME NEW p \in Procs,
             \/ RecordTransactionCommit(p) \/ RecordTransactionAbort(p)
             \/ RecordSubtransactionAbort(p)
      PROVE  Cached(q)'
    BY <1>1, <1>5, EndIs DEF End, RunningSubs
<1>6. ASSUME NEW p \in Procs, ProcArrayEndTransaction(p) PROVE Cached(q)'
    <2>1. linking[p] = Idle /\ linking' = linking
        BY <1>6 DEF ProcArrayEndTransaction, XidOrder, Ordered
    <2>2. CASE q = p
        <3>1. subxids'[p] = {} /\ children'[p] = {}
            BY <1>6 DEF ProcArrayEndTransaction, TypeInt
        <3>2. RunningSubs(p)' = {}
            BY <2>1, <3>1 DEF RunningSubs
        <3>. QED  BY <2>2, <3>1, <3>2 DEF Cached
    <2>3. CASE q # p
        <3>1. UNCHANGED <<subxids[q], overflowed[q], children[q], linking[q]>>
            BY <1>6, <2>3 DEF ProcArrayEndTransaction, TypeInt
        <3>. QED  BY <1>1, <3>1 DEF RunningSubs
    <2>. QED  BY <2>2, <2>3
<1>7. ASSUME NEW p \in Procs, XidCacheRemoveRunningXids(p) PROVE Cached(q)'
    <2>1. linking[p] = Idle /\ linking' = linking /\ overflowed' = overflowed
        BY <1>7 DEF XidCacheRemoveRunningXids, XidOrder, Ordered
    <2>2. CASE q = p
        <3>1. /\ subxids'[p] = subxids[p] \ ending[p]
              /\ children'[p] = children[p] \ ending[p]
            BY <1>7 DEF XidCacheRemoveRunningXids, Removed, TypeInt
        <3>2. /\ RunningSubs(p) = children[p]
              /\ RunningSubs(p)' = children[p] \ ending[p]
            BY <2>1, <3>1 DEF RunningSubs
        <3>. QED  BY <1>0, <2>1, <2>2, <3>1, <3>2 DEF Cached
    <2>3. CASE q # p
        <3>1. UNCHANGED <<subxids[q], overflowed[q], children[q], linking[q]>>
            BY <1>7, <2>3 DEF XidCacheRemoveRunningXids, Removed, TypeInt
        <3>. QED  BY <1>1, <3>1 DEF RunningSubs
    <2>. QED  BY <2>2, <2>3
<1>8. ASSUME NEW p \in Procs,
             \/ BeginSnapshot(p) \/ BeginOldestXmin(p) \/ \E r \in Procs : LookAt(p, r)
             \/ SnapshotDone(p) \/ OldestXminDone(p) \/ SnapshotResetXmin(p)
      PROVE  Cached(q)'
    BY <1>1, <1>8 DEF BeginSnapshot, BeginOldestXmin, LookAt, SnapshotDone,
        OldestXminDone, SnapshotResetXmin, RunningSubs
<1>9. ASSUME NEW p \in Procs, Elsewhere(p) PROVE Cached(q)'
    BY <1>1, <1>9, ElsewhereUnchanged DEF RunningSubs
<1>10. CASE UNCHANGED vars
    BY <1>1, <1>10 DEF vars, RunningSubs
<1>. QED
    BY <1>2, <1>3, <1>4, <1>5, <1>6, <1>7, <1>8, <1>9, <1>10
    DEF Next, WriterStep, ReaderStep, Procs, Elsewhere

\* The cache in PGPROC holds the running subtransactions of its transaction
\* and nothing else, or says that it does not (varsup.c, procarray.c).
THEOREM CachesCompleteHolds == Spec => []CachesComplete
<1>1. Init => CachesComplete
    BY CachesInit
<1>2. TypeInt /\ XidOrder /\ CachesComplete /\ [Next]_vars => CachesComplete'
    BY CachesStep
<1>. QED  BY <1>1, <1>2, OrderInvariant, PTL DEF Spec

-----------------------------------------------------------------------------
(***************************************************************************)
(* How old a horizon must be.  Whatever runs is not before the horizon,    *)
(* nor before anybody's xmin; what a snapshot does not show although it    *)
(* has committed is not before the xmin of its process; and a scan that is *)
(* still under way respects everybody that it has left behind, of whom     *)
(* those with a newer snapshot see all that has committed.                 *)
(***************************************************************************)
HorizonOld ==
    /\ horizon <= latestCompletedXid + 1
    /\ \A q \in Procs : xid[q] # Invalid => horizon <= xid[q]

XminOld(p) ==
    xmin[p] # Invalid =>
        /\ xmin[p] <= latestCompletedXid + 1
        /\ \A q \in Procs : xid[q] # Invalid => xmin[p] <= xid[q]

Kept(p) ==
    snap[p] # Idle => /\ xmin[p] # Invalid
                      /\ \A x \in done \ past[p] : xmin[p] <= x

\* What the scan s will raise the horizon to.
Bound(s) == IF s.at = "snapshot" THEN Earlier(s.xmin, s.globalxmin) ELSE s.xmin

Respects(s, q) ==
    /\ xid[q] # Invalid => s.xmin <= xid[q]
    /\ snap[q] # Idle => past[q] = done \/ Bound(s) <= xmin[q]

ScanSound(p) ==
    scan[p] # Idle =>
        /\ scan[p].xmax = latestCompletedXid + 1
        /\ scan[p].xmin # Invalid /\ scan[p].xmin <= scan[p].xmax
        /\ scan[p].globalxmin # Invalid
        /\ scan[p].at = "snapshot" => snap[p] = Idle /\ past[p] = done
        /\ \A q \in Procs \ scan[p].left : Respects(scan[p], q)

Safe(p) == snap[p] # Idle => \A x \in done : x < horizon => x \in past[p]

OldInv == HorizonOld /\ \A p \in Procs : XminOld(p) /\ Kept(p) /\ ScanSound(p) /\ Safe(p)

LEMMA OldInit == Init => OldInv
BY DEF Init, OldInv, HorizonOld, XminOld, Kept, ScanSound, Safe, Invalid

\* It depends on these variables only.
LEMMA OldStays ==
    ASSUME OldInv,
           UNCHANGED <<latestCompletedXid, xid, xmin, scan, snap, done, past, horizon>>
    PROVE  OldInv'
BY DEF OldInv, HorizonOld, XminOld, Kept, ScanSound, Respects, Safe

LEMMA BoundIs ==
    ASSUME NEW s \in Scan, s.xmin # Invalid, s.globalxmin # Invalid
    PROVE  /\ Bound(s) \in Nat /\ Bound(s) <= s.xmin
           /\ s.at = "snapshot" => Bound(s) <= s.globalxmin
           /\ Bound(s) = s.xmin \/ Bound(s) = s.globalxmin
BY DEF Scan, Bound, Earlier, Invalid

\* One look keeps what the scan respects and adds the process looked at.
LEMMA LookRespects ==
    ASSUME TypeInt, NEW p \in Procs, NEW q \in Procs, NEW s \in Scan, NEW t \in Scan,
           s.xmin # Invalid, s.xmin <= s.xmax, s.globalxmin # Invalid,
           t = IF s.at = "snapshot" THEN SawForSnapshot(p, q, s) ELSE SawForOldest(q, s)
    PROVE  /\ t.at = s.at /\ t.left = s.left /\ t.xmax = s.xmax
           /\ t.xmin # Invalid /\ t.xmin <= t.xmax /\ t.globalxmin # Invalid
           /\ \A r \in Procs : Respects(s, r) => Respects(t, r)
           /\ (snap[q] # Idle => xmin[q] # Invalid) => Respects(t, q)
<1>1. /\ s.xmin \in Nat /\ s.globalxmin \in Nat /\ s.xmax \in Nat
      /\ t.xmin \in Nat /\ t.globalxmin \in Nat
      /\ s.at \in {"snapshot", "oldest"}
    BY DEF Scan
<1>2. xid \in [Procs -> Nat] /\ xmin \in [Procs -> Nat]
    BY DEF TypeInt
<1>3. /\ t.at = s.at /\ t.left = s.left /\ t.xmax = s.xmax
      /\ t.xmin # Invalid /\ t.xmin <= s.xmin
      /\ t.globalxmin # Invalid /\ t.globalxmin <= s.globalxmin
      /\ xid[q] # Invalid => t.xmin <= xid[q]
      /\ xmin[q] # Invalid =>
            IF s.at = "snapshot" THEN t.globalxmin <= xmin[q] ELSE t.xmin <= xmin[q]
    <2>1. CASE s.at = "snapshot"
        <3>1. /\ t.at = s.at /\ t.left = s.left /\ t.xmax = s.xmax
              /\ t.xmin = IF xid[q] >= s.xmax THEN s.xmin ELSE Earlier(xid[q], s.xmin)
              /\ t.globalxmin = Earlier(xmin[q], s.globalxmin)
            BY <2>1, SawForSnapshotIs
        <3>2. xid[q] \in Nat /\ xmin[q] \in Nat
            BY <1>2
        <3>3. /\ Earlier(xid[q], s.xmin) <= s.xmin /\ Earlier(xid[q], s.xmin) # Invalid
              /\ xid[q] # Invalid => Earlier(xid[q], s.xmin) <= xid[q]
            BY <1>1, <3>2, EarlierIs
        <3>4. /\ t.globalxmin <= s.globalxmin /\ t.globalxmin # Invalid
              /\ xmin[q] # Invalid => t.globalxmin <= xmin[q]
            <4>1. LET y == Earlier(xmin[q], s.globalxmin)
                  IN  y <= s.globalxmin /\ y # Invalid /\ (xmin[q] # Invalid => y <= xmin[q])
                BY <1>1, <3>2, EarlierIs
            <4>. QED  BY <3>1, <4>1
        <3>5. CASE xid[q] >= s.xmax
            <4>1. t.xmin = s.xmin
                BY <3>1, <3>5
            <4>2. s.xmin <= xid[q]
                BY <1>1, <3>2, <3>5
            <4>. QED  BY <1>1, <2>1, <3>1, <3>4, <4>1, <4>2
        <3>6. CASE ~(xid[q] >= s.xmax)
            <4>1. t.xmin = Earlier(xid[q], s.xmin)
                BY <3>1, <3>6
            <4>. QED  BY <2>1, <3>1, <3>3, <3>4, <4>1
        <3>. QED  BY <3>5, <3>6
    <2>2. CASE s.at = "oldest"
        <3>1. /\ t.at = s.at /\ t.left = s.left /\ t.xmax = s.xmax
              /\ t.xmin = Earlier(xmin[q], Earlier(xid[q], s.xmin))
              /\ t.globalxmin = s.globalxmin
            BY <2>2, SawForOldestIs
        <3>2. /\ Earlier(xid[q], s.xmin) \in Nat /\ Earlier(xid[q], s.xmin) <= s.xmin
              /\ Earlier(xid[q], s.xmin) # Invalid
              /\ xid[q] # Invalid => Earlier(xid[q], s.xmin) <= xid[q]
            BY <1>1, <1>2, EarlierIs
        <3>3. /\ t.xmin <= Earlier(xid[q], s.xmin) /\ t.xmin # Invalid
              /\ xmin[q] # Invalid => t.xmin <= xmin[q]
            <4>1. xmin[q] \in Nat
                BY <1>2
            <4>2. LET y == Earlier(xid[q], s.xmin)
                      z == Earlier(xmin[q], y)
                  IN  z <= y /\ z # Invalid /\ (xmin[q] # Invalid => z <= xmin[q])
                BY <3>2, <4>1, EarlierIs
            <4>. QED  BY <3>1, <4>2
        <3>4. t.xmin <= s.xmin /\ (xid[q] # Invalid => t.xmin <= xid[q])
            <4>1. xid[q] \in Nat
                BY <1>2
            <4>. QED  BY <1>1, <3>2, <3>3, <4>1
        <3>5. s.globalxmin <= s.globalxmin /\ s.at # "snapshot"
            BY <1>1, <2>2
        <3>. QED  BY <3>1, <3>3, <3>4, <3>5
    <2>. QED  BY <1>1, <2>1, <2>2
<1>4. /\ Bound(t) <= Bound(s) /\ Bound(t) \in Nat /\ Bound(s) \in Nat
      /\ xmin[q] # Invalid => Bound(t) <= xmin[q]
    BY <1>1, <1>2, <1>3 DEF Bound, Earlier
<1>5. ASSUME NEW r \in Procs, Respects(s, r) PROVE Respects(t, r)
    <2>1. xid[r] # Invalid => t.xmin <= xid[r]
        BY <1>1, <1>2, <1>3, <1>5 DEF Respects
    <2>2. Bound(s) <= xmin[r] => Bound(t) <= xmin[r]
        BY <1>2, <1>4
    <2>. QED  BY <1>5, <2>1, <2>2 DEF Respects
<1>6. (snap[q] # Idle => xmin[q] # Invalid) => Respects(t, q)
    BY <1>3, <1>4 DEF Respects
<1>. QED  BY <1>1, <1>3, <1>5, <1>6

LEMMA OldStep == TypeInt /\ TypeInt' /\ XidOrder /\ OldInv /\ [Next]_vars => OldInv'
<1>. SUFFICES ASSUME TypeInt, TypeInt', XidOrder, OldInv, [Next]_vars PROVE OldInv'
    OBVIOUS
<1>. USE DEF shared, own, reading
<1>0. /\ nextXid \in Nat /\ latestCompletedXid \in Nat /\ latestCompletedXid < nextXid
      /\ xid \in [Procs -> Nat] /\ xmin \in [Procs -> Nat] /\ horizon \in Nat
      /\ done \in SUBSET Nat /\ past \in [Procs -> SUBSET Nat]
      /\ scan \in [Procs -> {Idle} \union Scan] /\ snap \in [Procs -> {Idle} \union Scan]
      /\ HorizonOld
      /\ \A p \in Procs : XminOld(p) /\ Kept(p) /\ ScanSound(p) /\ Safe(p)
    BY DEF TypeInt, XidOrder, OldInv
<1>1. ASSUME NEW p \in Procs, AssignXid(p) PROVE OldInv'
    <2>1. /\ xid' = [xid EXCEPT ![p] = nextXid]
          /\ UNCHANGED <<latestCompletedXid, xmin, scan, snap, done, past, horizon>>
        BY <1>1 DEF AssignXid
    <2>2. \A q \in Procs : xid'[q] = xid[q] \/ latestCompletedXid + 1 <= xid'[q]
        BY <1>0, <2>1
    <2>3. HorizonOld'
        BY <1>0, <2>1, <2>2 DEF HorizonOld
    <2>4. ASSUME NEW q \in Procs PROVE XminOld(q)' /\ Kept(q)' /\ Safe(q)'
        <3>1. XminOld(q)'
            BY <1>0, <2>1, <2>2 DEF XminOld
        <3>. QED  BY <1>0, <2>1, <3>1 DEF Kept, Safe
    <2>5. ASSUME NEW q \in Procs, scan[q] # Idle, NEW r \in Procs, Respects(scan[q], r)
          PROVE  Respects(scan[q], r)'
        <3>1. scan[q].xmin \in Nat /\ scan[q].xmin <= latestCompletedXid + 1
            BY <1>0, <2>5 DEF ScanSound, Scan
        <3>2. xid'[r] # Invalid => scan[q].xmin <= xid'[r]
            BY <1>0, <2>1, <2>2, <2>5, <3>1 DEF Respects
        <3>. QED  BY <2>1, <2>5, <3>2 DEF Respects
    <2>6. ASSUME NEW q \in Procs PROVE ScanSound(q)'
        BY <1>0, <2>1, <2>5 DEF ScanSound
    <2>. QED  BY <2>3, <2>4, <2>6 DEF OldInv
<1>2. ASSUME NEW p \in Procs, ProcArrayEndTransaction(p) PROVE OldInv'
    <2>1. /\ pc[p] # "run" /\ NobodyScans /\ latestCompletedXid' = LatestXid(p)
          /\ xid' = [xid EXCEPT ![p] = Invalid] /\ xmin' = [xmin EXCEPT ![p] = Invalid]
          /\ snap' = [snap EXCEPT ![p] = Idle] /\ past' = [past EXCEPT ![p] = {}]
          /\ scan' = scan /\ horizon' = horizon
          /\ done' = done \/ done' = done \union ending[p]
        BY <1>2 DEF ProcArrayEndTransaction, Ended
    <2>2. latestCompletedXid' \in Nat /\ latestCompletedXid <= latestCompletedXid'
        BY <2>1, LatestXidIs
    <2>3. xid[p] # Invalid /\ Ordered(p)
        BY <2>1 DEF XidOrder, Ordered
    <2>4. \A x \in ending[p] : x \in Nat /\ xid[p] <= x
        <3>1. ASSUME NEW x \in ending[p] PROVE x \in Nat /\ xid[p] <= x
            <4>1. x \in Tree(p) /\ ending[p] \in SUBSET Nat
                BY <2>3 DEF Ordered, TypeInt
            <4>2. x = xid[p] \/ x \in RunningSubs(p)
                BY <4>1 DEF Tree, RunningSubs
            <4>. QED  BY <1>0, <2>3, <4>1, <4>2 DEF Ordered
        <3>. QED  BY <3>1
    <2>5. HorizonOld'
        BY <1>0, <2>1, <2>2 DEF HorizonOld
    <2>6. ASSUME NEW q \in Procs PROVE XminOld(q)' /\ ScanSound(q)'
        <3>1. XminOld(q)'
            BY <1>0, <2>1, <2>2 DEF XminOld
        <3>. QED  BY <2>1, <3>1 DEF ScanSound, NobodyScans
    <2>7. ASSUME NEW q \in Procs PROVE Kept(q)' /\ Safe(q)'
        <3>1. CASE q = p
            BY <1>0, <2>1, <3>1 DEF Kept, Safe
        <3>2. CASE q # p
            <4>1. snap'[q] = snap[q] /\ past'[q] = past[q] /\ xmin'[q] = xmin[q]
                BY <1>0, <2>1, <3>2
            <4>2. Kept(q)'
                <5>1. snap[q] # Idle => xmin[q] # Invalid /\ xmin[q] <= xid[p]
                    BY <1>0, <2>3 DEF Kept, XminOld
                <5>2. ASSUME snap[q] # Idle, NEW x \in ending[p] PROVE xmin[q] <= x
                    BY <1>0, <2>4, <5>1, <5>2
                <5>. QED  BY <1>0, <2>1, <4>1, <5>2 DEF Kept
            <4>3. Safe(q)'
                <5>1. horizon <= xid[p]
                    BY <1>0, <2>3 DEF HorizonOld
                <5>2. ASSUME NEW x \in ending[p] PROVE ~(x < horizon)
                    BY <1>0, <2>4, <5>1, <5>2
                <5>. QED  BY <1>0, <2>1, <4>1, <5>2 DEF Safe
            <4>. QED  BY <4>2, <4>3
        <3>. QED  BY <3>1, <3>2
    <2>. QED  BY <2>5, <2>6, <2>7 DEF OldInv
<1>3. ASSUME NEW p \in Procs, XidCacheRemoveRunningXids(p) PROVE OldInv'
    <2>1. /\ pc[p] # "run" /\ NobodyScans /\ latestCompletedXid' = LatestXid(p)
          /\ UNCHANGED <<xid, xmin, scan, snap, done, past, horizon>>
        BY <1>3 DEF XidCacheRemoveRunningXids, Ended
    <2>2. latestCompletedXid' \in Nat /\ latestCompletedXid <= latestCompletedXid'
        BY <2>1, LatestXidIs
    <2>3. HorizonOld'
        BY <1>0, <2>1, <2>2 DEF HorizonOld
    <2>4. ASSUME NEW q \in Procs PROVE XminOld(q)' /\ ScanSound(q)'
        <3>1. XminOld(q)'
            BY <1>0, <2>1, <2>2 DEF XminOld
        <3>. QED  BY <2>1, <3>1 DEF ScanSound, NobodyScans
    <2>5. ASSUME NEW q \in Procs PROVE Kept(q)' /\ Safe(q)'
        BY <1>0, <2>1 DEF Kept, Safe
    <2>. QED  BY <2>3, <2>4, <2>5 DEF OldInv
<1>4. ASSUME NEW p \in Procs, BeginSnapshot(p) \/ BeginOldestXmin(p) PROVE OldInv'
    <2>1. /\ UNCHANGED <<latestCompletedXid, xid, xmin, done, horizon>>
          /\ \/ BeginScan(p, "oldest") /\ UNCHANGED <<snap, past>>
             \/ /\ BeginScan(p, "snapshot") /\ snap' = [snap EXCEPT ![p] = Idle]
                /\ past' = [past EXCEPT ![p] = done]
        BY <1>4 DEF BeginSnapshot, BeginOldestXmin
    <2>2. HorizonOld' /\ \A q \in Procs : XminOld(q)'
        BY <1>0, <2>1 DEF HorizonOld, XminOld
    <2>3. ASSUME NEW q \in Procs
          PROVE  \/ snap'[q] = snap[q] /\ past'[q] = past[q]
                 \/ snap'[q] = Idle /\ past'[q] = done
        BY <1>0, <2>1
    <2>4. ASSUME NEW q \in Procs PROVE Kept(q)' /\ Safe(q)'
        BY <1>0, <2>1, <2>3 DEF Kept, Safe
    <2>5. ASSUME NEW q \in Procs, q # p PROVE ScanSound(q)'
        <3>1. scan'[q] = scan[q] /\ snap'[q] = snap[q] /\ past'[q] = past[q]
            BY <1>0, <2>1, <2>5 DEF BeginScan
        <3>2. ASSUME NEW r \in Procs, Respects(scan[q], r) PROVE Respects(scan[q], r)'
            BY <2>1, <2>3, <3>1, <3>2 DEF Respects, Bound
        <3>. QED  BY <1>0, <2>1, <3>1, <3>2 DEF ScanSound
    <2>6. ScanSound(p)'
        <3>1. /\ scan'[p].left = Procs /\ scan'[p].xmax = latestCompletedXid + 1
              /\ scan'[p].xmin = latestCompletedXid + 1
              /\ scan'[p].globalxmin = latestCompletedXid + 1
              /\ scan'[p].at = "snapshot" => snap'[p] = Idle /\ past'[p] = done
            BY <1>0, <2>1 DEF BeginScan
        <3>. QED  BY <1>0, <2>1, <3>1 DEF ScanSound, Invalid
    <2>. QED  BY <2>2, <2>4, <2>5, <2>6 DEF OldInv
<1>5. ASSUME NEW p \in Procs, NEW q \in Procs, LookAt(p, q) PROVE OldInv'
    <2>1. /\ UNCHANGED <<latestCompletedXid, xid, xmin, snap, done, past, horizon>>
          /\ scan[p] \in Scan /\ scan[p] # Idle
        BY <1>0, <1>5 DEF LookAt
    <2>2. HorizonOld' /\ \A r \in Procs : XminOld(r)' /\ Kept(r)' /\ Safe(r)'
        BY <1>0, <2>1 DEF HorizonOld, XminOld, Kept, Safe
    <2>3. ASSUME NEW r \in Procs, r # p PROVE ScanSound(r)'
        <3>1. scan'[r] = scan[r]
            BY <1>0, <1>5, <2>3 DEF LookAt
        <3>. QED  BY <1>0, <2>1, <3>1 DEF ScanSound, Respects
    <2>4. ScanSound(p)'
        <3>1. PICK s \in Scan : s = [scan[p] EXCEPT !.left = @ \ {q}]
            BY <2>1 DEF Scan
        <3>2. /\ s.at = scan[p].at /\ s.left = scan[p].left \ {q}
              /\ s.xmax = scan[p].xmax /\ s.xmin = scan[p].xmin
              /\ s.globalxmin = scan[p].globalxmin
            BY <2>1, <3>1 DEF Scan
        <3>3. PICK t \in Scan :
                /\ t = IF s.at = "snapshot" THEN SawForSnapshot(p, q, s) ELSE SawForOldest(q, s)
                /\ scan'[p] = t
            <4>1. SawForSnapshot(p, q, s) \in Scan /\ SawForOldest(q, s) \in Scan
                BY SawForSnapshotIs, SawForOldestIs
            <4>2. scan'[p] = IF s.at = "snapshot" THEN SawForSnapshot(p, q, s)
                             ELSE SawForOldest(q, s)
                BY <1>0, <1>5, <3>1 DEF LookAt
            <4>. QED  BY <4>1, <4>2
        <3>4. /\ s.xmax = latestCompletedXid + 1
              /\ s.xmin # Invalid /\ s.xmin <= s.xmax /\ s.globalxmin # Invalid
              /\ s.at = "snapshot" => snap[p] = Idle /\ past[p] = done
            BY <1>0, <2>1, <3>2 DEF ScanSound
        <3>5. /\ t.at = s.at /\ t.left = s.left /\ t.xmax = s.xmax
              /\ t.xmin # Invalid /\ t.xmin <= t.xmax /\ t.globalxmin # Invalid
              /\ \A r \in Procs : Respects(s, r) => Respects(t, r)
              /\ (snap[q] # Idle => xmin[q] # Invalid) => Respects(t, q)
            BY <3>3, <3>4, LookRespects
        <3>6. \A r \in Procs \ scan[p].left : Respects(s, r)
            BY <1>0, <2>1, <3>2 DEF ScanSound, Respects, Bound
        <3>7. Respects(t, q)
            BY <1>0, <3>5 DEF Kept
        <3>8. \A r \in Procs \ t.left : Respects(t, r)
            BY <3>2, <3>5, <3>6, <3>7
        <3>9. \A r \in Procs \ t.left : Respects(t, r)'
            BY <2>1, <3>3, <3>8 DEF Respects, Bound
        <3>. QED  BY <2>1, <3>3, <3>4, <3>5, <3>9 DEF ScanSound
    <2>. QED  BY <2>2, <2>3, <2>4 DEF OldInv
<1>6. ASSUME NEW p \in Procs, SnapshotDone(p) PROVE OldInv'
    <2>. DEFINE s == scan[p]
    <2>1. s \in Scan /\ s.at = "snapshot" /\ s.left = {} /\ s # Idle
        BY <1>0, <1>6 DEF SnapshotDone, ScanDone, Idle
    <2>2. /\ s.xmin # Invalid /\ s.xmin <= latestCompletedXid + 1 /\ s.globalxmin # Invalid
          /\ snap[p] = Idle /\ past[p] = done /\ s.xmin \in Nat
          /\ \A q \in Procs : Respects(s, q)
        BY <1>0, <2>1 DEF ScanSound, Scan
    <2>3. /\ Bound(s) \in Nat /\ Bound(s) <= s.xmin
          /\ Bound(s) = Earlier(s.xmin, s.globalxmin)
        BY <2>1, <2>2, BoundIs DEF Bound
    <2>4. /\ snap' = [snap EXCEPT ![p] = s] /\ scan' = [scan EXCEPT ![p] = Idle]
          /\ xmin' = [xmin EXCEPT ![p] = IF @ = Invalid THEN s.xmin ELSE @]
          /\ horizon' = Later(horizon, Bound(s))
          /\ UNCHANGED <<latestCompletedXid, xid, done, past>>
        BY <1>6, <2>3 DEF SnapshotDone
    <2>5. horizon' \in {horizon, Bound(s)}
        BY <1>0, <2>3, <2>4, LaterIs
    <2>6. HorizonOld'
        <3>1. \A q \in Procs : xid[q] # Invalid => Bound(s) <= xid[q]
            BY <1>0, <2>2, <2>3 DEF Respects
        <3>. QED  BY <1>0, <2>2, <2>3, <2>4, <2>5, <3>1 DEF HorizonOld
    <2>7. ASSUME NEW q \in Procs PROVE XminOld(q)' /\ Kept(q)'
        <3>1. XminOld(q)'
            BY <1>0, <2>2, <2>4 DEF XminOld, Respects
        <3>. QED  BY <1>0, <2>2, <2>4, <3>1 DEF Kept
    <2>8. ASSUME NEW q \in Procs, snap'[q] # Idle, NEW x \in done, x < horizon'
          PROVE  x \in past[q]
        <3>1. CASE q = p
            BY <2>2, <3>1
        <3>2. CASE q # p /\ x < horizon
            BY <1>0, <2>4, <2>8, <3>2 DEF Safe
        <3>3. CASE q # p /\ x < Bound(s)
            <4>1. snap[q] # Idle
                BY <1>0, <2>4, <2>8, <3>3
            <4>2. past[q] = done \/ Bound(s) <= xmin[q]
                BY <2>2, <4>1 DEF Respects
            <4>3. \A y \in done \ past[q] : xmin[q] <= y
                BY <1>0, <4>1 DEF Kept
            <4>4. xmin[q] \in Nat /\ x \in Nat
                BY <1>0
            <4>. QED  BY <2>3, <3>3, <4>2, <4>3, <4>4
        <3>. QED  BY <2>5, <2>8, <3>1, <3>2, <3>3
    <2>9. ASSUME NEW q \in Procs PROVE ScanSound(q)'
        <3>1. CASE q = p
            BY <1>0, <2>4, <3>1 DEF ScanSound
        <3>2. CASE q # p
            <4>1. scan'[q] = scan[q] /\ snap'[q] = snap[q]
                BY <1>0, <2>4, <3>2
            <4>2. ASSUME NEW r \in Procs, Respects(scan[q], r) PROVE Respects(scan[q], r)'
                <5>1. \/ snap'[r] = snap[r] /\ xmin'[r] = xmin[r]
                      \/ past[r] = done
                    BY <1>0, <2>2, <2>4
                <5>. QED  BY <2>4, <4>1, <4>2, <5>1 DEF Respects, Bound
            <4>. QED  BY <1>0, <2>4, <4>1, <4>2 DEF ScanSound
        <3>. QED  BY <3>1, <3>2
    <2>. QED  BY <2>4, <2>6, <2>7, <2>8, <2>9 DEF OldInv, Safe
<1>7. ASSUME NEW p \in Procs, OldestXminDone(p) PROVE OldInv'
    <2>. DEFINE s == scan[p]
    <2>1. s \in Scan /\ s.at = "oldest" /\ s.left = {} /\ s # Idle
        BY <1>0, <1>7 DEF OldestXminDone, ScanDone, Idle
    <2>2. /\ s.xmin \in Nat /\ s.xmin <= latestCompletedXid + 1 /\ Bound(s) = s.xmin
          /\ \A q \in Procs : Respects(s, q)
        BY <1>0, <2>1 DEF ScanSound, Scan, Bound
    <2>3. /\ scan' = [scan EXCEPT ![p] = Idle] /\ horizon' = Later(horizon, s.xmin)
          /\ UNCHANGED <<latestCompletedXid, xid, xmin, snap, done, past>>
        BY <1>7 DEF OldestXminDone
    <2>4. horizon' \in {horizon, s.xmin}
        BY <1>0, <2>2, <2>3, LaterIs
    <2>5. HorizonOld'
        <3>1. \A q \in Procs : xid[q] # Invalid => s.xmin <= xid[q]
            BY <2>2 DEF Respects
        <3>. QED  BY <1>0, <2>2, <2>3, <2>4, <3>1 DEF HorizonOld
    <2>6. ASSUME NEW q \in Procs PROVE XminOld(q)' /\ Kept(q)'
        BY <1>0, <2>3 DEF XminOld, Kept
    <2>7. ASSUME NEW q \in Procs, snap'[q] # Idle, NEW x \in done, x < horizon'
          PROVE  x \in past[q]
        <3>1. CASE x < horizon
            BY <1>0, <2>3, <2>7, <3>1 DEF Safe
        <3>2. CASE x < s.xmin
            <4>1. past[q] = done \/ s.xmin <= xmin[q]
                BY <2>2, <2>3, <2>7 DEF Respects
            <4>2. \A y \in done \ past[q] : xmin[q] <= y
                BY <1>0, <2>3, <2>7 DEF Kept
            <4>3. xmin[q] \in Nat /\ x \in Nat
                BY <1>0
            <4>. QED  BY <2>2, <3>2, <4>1, <4>2, <4>3
        <3>. QED  BY <2>4, <2>7, <3>1, <3>2
    <2>8. ASSUME NEW q \in Procs PROVE ScanSound(q)'
        <3>1. CASE q = p
            BY <1>0, <2>3, <3>1 DEF ScanSound
        <3>2. CASE q # p
            <4>1. scan'[q] = scan[q]
                BY <1>0, <2>3, <3>2
            <4>. QED  BY <1>0, <2>3, <4>1 DEF ScanSound, Respects, Bound
        <3>. QED  BY <3>1, <3>2
    <2>. QED  BY <2>3, <2>5, <2>6, <2>7, <2>8 DEF OldInv, Safe
<1>8. ASSUME NEW p \in Procs, SnapshotResetXmin(p) PROVE OldInv'
    <2>1. /\ snap' = [snap EXCEPT ![p] = Idle] /\ past' = [past EXCEPT ![p] = {}]
          /\ xmin' = [xmin EXCEPT ![p] = Invalid] /\ scan[p] = Idle
          /\ UNCHANGED <<latestCompletedXid, xid, scan, done, horizon>>
        BY <1>8 DEF SnapshotResetXmin, Free
    <2>2. HorizonOld'
        BY <1>0, <2>1 DEF HorizonOld
    <2>3. ASSUME NEW q \in Procs PROVE XminOld(q)'
        BY <1>0, <2>1 DEF XminOld
    <2>4. ASSUME NEW q \in Procs PROVE Kept(q)' /\ Safe(q)'
        <3>1. snap'[q] = Idle \/ UNCHANGED <<snap[q], past[q], xmin[q]>>
            BY <1>0, <2>1
        <3>. QED  BY <1>0, <2>1, <3>1 DEF Kept, Safe
    <2>5. ASSUME NEW q \in Procs, scan[q] # Idle PROVE ScanSound(q)'
        <3>1. UNCHANGED <<snap[q], past[q], scan[q]>>
            BY <1>0, <2>1, <2>5
        <3>2. ASSUME NEW r \in Procs, Respects(scan[q], r) PROVE Respects(scan[q], r)'
            <4>1. snap'[r] = Idle \/ UNCHANGED <<snap[r], past[r], xmin[r]>>
                BY <1>0, <2>1
            <4>. QED  BY <2>1, <3>1, <3>2, <4>1 DEF Respects, Bound
        <3>. QED  BY <1>0, <2>1, <2>5, <3>1, <3>2 DEF ScanSound
    <2>6. ASSUME NEW q \in Procs PROVE ScanSound(q)'
        BY <2>1, <2>5 DEF ScanSound
    <2>. QED  BY <2>2, <2>3, <2>4, <2>6 DEF OldInv
<1>9. ASSUME NEW p \in Procs, AssignSubxid(p) PROVE OldInv'
    BY <1>9, OldStays DEF AssignSubxid
<1>10. ASSUME NEW p \in Procs, SubTransSetParent(p) PROVE OldInv'
    BY <1>10, OldStays DEF SubTransSetParent
<1>11. ASSUME NEW p \in Procs,
              \/ RecordTransactionCommit(p) \/ RecordTransactionAbort(p)
              \/ RecordSubtransactionAbort(p)
       PROVE  OldInv'
    BY <1>11, EndIs, OldStays DEF End
<1>12. ASSUME NEW p \in Procs, Elsewhere(p) PROVE OldInv'
    BY <1>12, ElsewhereUnchanged, OldStays
<1>13. CASE UNCHANGED vars
    BY <1>13, OldStays DEF vars
<1>. QED
    BY <1>1, <1>2, <1>3, <1>4, <1>5, <1>6, <1>7, <1>8, <1>9, <1>10, <1>11, <1>12, <1>13
    DEF Next, WriterStep, ReaderStep, Procs, Elsewhere

\* A transaction before any horizon ever computed, if it has committed, is seen
\* by every snapshot in use: vacuum removes nothing that anybody needs
\* (procarray.c, GetOldestXmin and GetSnapshotData).
THEOREM HorizonIsSafeHolds == Spec => []HorizonIsSafe
<1>1. Init => OldInv
    BY OldInit
<1>2. TypeInt /\ TypeInt' /\ XidOrder /\ OldInv /\ [Next]_vars => OldInv'
    BY OldStep
<1>3. OldInv => HorizonIsSafe
    BY DEF OldInv, Safe, HorizonIsSafe
<1>. QED  BY <1>1, <1>2, <1>3, OrderInvariant, PTL DEF Spec
-----------------------------------------------------------------------------
(***************************************************************************)
(* The trees of subtransactions.  What a process runs is a tree in         *)
(* pg_subtrans, apart from the subtransaction that it is about to enter;   *)
(* the trees of two processes, and what has committed, have no xid in      *)
(* common.                                                                 *)
(***************************************************************************)
Statuses == {InProgress, SubCommitted, Committed, Aborted}

Write == [xids : SUBSET Nat, status : {SubCommitted, Committed, Aborted}]

Question ==
    [at : {"subtrans"}, of : Xids, tops : SUBSET Nat]
    \union [at : {"clog"}, of : Xids, fetch : Xids]
    \union [at : {"answered"}, of : Xids, visible : BOOLEAN]

Fetched == [of : {Invalid} \union Xids, status : Statuses]

LogTypes ==
    /\ nextXid <= MaxXid + 1
    /\ clog \in [Xids -> Statuses] /\ parent \in [Xids -> Nat]
    /\ todo \in [Procs -> Seq(Write)]
    /\ hint \in [Xids -> {"none", Committed, Aborted}]
    /\ ask \in [Procs -> {Idle} \union Question]
    /\ cached \in [Procs -> Fetched]

\* The xids of what a process runs.
Own(p) == (Tree(p) \union RunningSubs(p)) \ {Invalid}

\* The links are from later to earlier xids.
LinksGoBack ==
    \A x \in Xids :
        parent[x] # Invalid => parent[x] \in Xids /\ parent[x] < x /\ x < nextXid

Linked(p) ==
    /\ xid[p] # Invalid => parent[xid[p]] = Invalid
    /\ \A x \in children[p] : parent[x] \in Tree(p)
    /\ linking[p] # Idle =>
        /\ linking[p].under \in Tree(p) /\ linking[p].under < linking[p].sub
        /\ linking[p].sub \notin Tree(p) /\ parent[linking[p].sub] = Invalid
        /\ \A x \in Xids : parent[x] # linking[p].sub

\* What ends is a tree, or the subtree of one subtransaction.
EndsWhole(p) ==
    /\ pc[p] \in {"commit", "abort"} => ending[p] = Tree(p)
    /\ pc[p] = "subabort" =>
        /\ ending[p] \subseteq children[p]
        /\ \A x \in children[p] : parent[x] \in ending[p] => x \in ending[p]

Apart(p) ==
    /\ Own(p) \intersect done = {}
    /\ \A q \in Procs : q # p => Own(p) \intersect Own(q) = {}

DoneBefore == \A x \in done : x # Invalid /\ x <= latestCompletedXid

(***************************************************************************)
(* The recursive functions over pg_subtrans are defined, which a new link  *)
(* preserves since nothing is below it yet.  The second form goes up from  *)
(* the xids in a set: Topmost does from those after TransactionXmin, and   *)
(* LastFetched from the subcommitted ones.  The third is ShownCommitted:   *)
(* a set of xids that decide, and one of those that leave it to the        *)
(* parent.                                                                 *)
(***************************************************************************)
AncestorsOf(anc) ==
    anc = [x \in Xids |-> IF parent[x] = Invalid THEN {} ELSE {parent[x]} \union anc[parent[x]]]

TopsOf(top, t) ==
    top = [x \in Xids |-> IF x < t \/ parent[x] = Invalid THEN x ELSE top[parent[x]]]

LastOf(last, B) ==
    last = [x \in Xids |-> IF x \in B /\ parent[x] # Invalid THEN last[parent[x]] ELSE x]

DecidedBy(g, A, B) ==
    g = [x \in Xids |-> x \in A \/ (x \in B /\ parent[x] # Invalid /\ g[parent[x]])]

Recursions ==
    /\ \E anc : AncestorsOf(anc)
    /\ \A B \in SUBSET Xids : \E last : LastOf(last, B)
    /\ \A A, B \in SUBSET Xids : \E g : DecidedBy(g, A, B)

ForestInv ==
    /\ LinksGoBack /\ DoneBefore /\ Recursions
    /\ \A p \in Procs : Linked(p) /\ EndsWhole(p) /\ Apart(p)

LEMMA RecursionsStay == Recursions /\ parent' = parent => Recursions'
<1>. SUFFICES ASSUME Recursions, parent' = parent PROVE Recursions'
    OBVIOUS
<1>1. \E anc : AncestorsOf(anc)'
    BY DEF Recursions, AncestorsOf
<1>2. \A B \in SUBSET Xids : \E last : LastOf(last, B)'
    BY DEF Recursions, LastOf
<1>3. \A A, B \in SUBSET Xids : \E g : DecidedBy(g, A, B)'
    BY DEF Recursions, DecidedBy
<1>. QED  BY <1>1, <1>2, <1>3 DEF Recursions

LEMMA AncestorsIs == Recursions => AncestorsOf(Ancestors)
BY Zenon DEF Recursions, AncestorsOf, Ancestors

LEMMA TopmostIs ==
    ASSUME Recursions, NEW t \in Nat
    PROVE  \E top : TopsOf(top, t) /\ \A x \in Xids : Topmost(x, t) = top[x]
<1>. DEFINE B == {x \in Xids : ~(x < t)}
<1>1. PICK last : LastOf(last, B)
    BY DEF Recursions
<1>2. TopsOf(last, t)
    <2>1. last = [x \in Xids |-> IF x \in B /\ parent[x] # Invalid THEN last[parent[x]] ELSE x]
        BY <1>1, Zenon DEF LastOf
    <2>2. \A x \in Xids :
            (IF x \in B /\ parent[x] # Invalid THEN last[parent[x]] ELSE x) =
            (IF x < t \/ parent[x] = Invalid THEN x ELSE last[parent[x]])
        OBVIOUS
    <2>. HIDE DEF B
    <2>. QED  BY <2>1, <2>2 DEF TopsOf
<1>. DEFINE top == CHOOSE top : TopsOf(top, t)
<1>3. TopsOf(top, t)
    BY <1>2
<1>4. ASSUME NEW x \in Xids PROVE Topmost(x, t) = top[x]
    BY DEF Topmost, TopsOf
<1>. QED  BY <1>3, <1>4

\* One new link, to an xid that has none itself and that no link is to.
LEMMA RecursionsGrow ==
    ASSUME Recursions, NEW s \in Xids, NEW u \in Xids,
           parent \in [Xids -> Nat], parent' = [parent EXCEPT ![s] = u],
           u # s, u # Invalid, \A x \in Xids : parent[x] # s,
           \A x \in Xids : parent[x] # Invalid => parent[x] \in Xids
    PROVE  Recursions'
<1>0. /\ parent'[s] = u /\ \A x \in Xids \ {s} : parent'[x] = parent[x]
      /\ \A x \in Xids : parent[x] # Invalid => parent[x] \in Xids \ {s}
    OBVIOUS
<1>1. \E anc : AncestorsOf(anc)'
    <2>1. PICK anc : AncestorsOf(anc)
        BY DEF Recursions
    <2>. DEFINE new == [anc EXCEPT ![s] = {u} \union anc[u]]
    <2>2. /\ new \in [Xids -> {new[x] : x \in Xids}]
          /\ new[s] = {u} \union anc[u] /\ \A x \in Xids \ {s} : new[x] = anc[x]
        BY <2>1 DEF AncestorsOf
    <2>. HIDE DEF new
    <2>3. ASSUME NEW x \in Xids
          PROVE  new[x] = IF parent'[x] = Invalid THEN {}
                          ELSE {parent'[x]} \union new[parent'[x]]
        <3>1. CASE x = s
            BY <1>0, <2>2, <3>1
        <3>2. CASE x # s
            <4>1. anc[x] = IF parent[x] = Invalid THEN {} ELSE {parent[x]} \union anc[parent[x]]
                BY <2>1, Zenon DEF AncestorsOf
            <4>2. parent[x] # Invalid => parent[x] \in Xids \ {s}
                BY <1>0
            <4>. QED  BY <1>0, <2>2, <3>2, <4>1, <4>2
        <3>. QED  BY <3>1, <3>2
    <2>4. AncestorsOf(new)'
        BY <2>2, <2>3 DEF AncestorsOf
    <2>. QED  BY <2>4
<1>2. ASSUME NEW B \in SUBSET Xids PROVE \E last : LastOf(last, B)'
    <2>1. PICK last : LastOf(last, B)
        BY DEF Recursions
    <2>. DEFINE new == [last EXCEPT ![s] = IF s \in B THEN last[u] ELSE s]
    <2>2. /\ new \in [Xids -> {new[x] : x \in Xids}]
          /\ new[s] = IF s \in B THEN last[u] ELSE s
          /\ \A x \in Xids \ {s} : new[x] = last[x]
        BY <2>1 DEF LastOf
    <2>. HIDE DEF new
    <2>3. ASSUME NEW x \in Xids
          PROVE  new[x] = IF x \in B /\ parent'[x] # Invalid THEN new[parent'[x]] ELSE x
        <3>1. CASE x = s
            BY <1>0, <2>2, <3>1
        <3>2. CASE x # s
            <4>1. last[x] = IF x \in B /\ parent[x] # Invalid THEN last[parent[x]] ELSE x
                BY <2>1, Zenon DEF LastOf
            <4>2. parent[x] # Invalid => parent[x] \in Xids \ {s}
                BY <1>0
            <4>. QED  BY <1>0, <2>2, <3>2, <4>1, <4>2
        <3>. QED  BY <3>1, <3>2
    <2>4. LastOf(new, B)'
        BY <2>2, <2>3 DEF LastOf
    <2>. QED  BY <2>4
<1>3. ASSUME NEW A \in SUBSET Xids, NEW B \in SUBSET Xids PROVE \E g : DecidedBy(g, A, B)'
    <2>1. PICK g : DecidedBy(g, A, B)
        BY DEF Recursions
    <2>. DEFINE new == [g EXCEPT ![s] = s \in A \/ (s \in B /\ g[u])]
    <2>2. /\ new \in [Xids -> {new[x] : x \in Xids}]
          /\ new[s] = (s \in A \/ (s \in B /\ g[u]))
          /\ \A x \in Xids \ {s} : new[x] = g[x]
        BY <2>1 DEF DecidedBy
    <2>. HIDE DEF new
    <2>3. ASSUME NEW x \in Xids
          PROVE  new[x] = (x \in A \/ (x \in B /\ parent'[x] # Invalid /\ new[parent'[x]]))
        <3>1. CASE x = s
            BY <1>0, <2>2, <3>1
        <3>2. CASE x # s
            <4>1. g[x] = (x \in A \/ (x \in B /\ parent[x] # Invalid /\ g[parent[x]]))
                BY <2>1, Zenon DEF DecidedBy
            <4>2. parent[x] # Invalid => parent[x] \in Xids \ {s}
                BY <1>0
            <4>. QED  BY <1>0, <2>2, <3>2, <4>1, <4>2
        <3>. QED  BY <3>1, <3>2
    <2>4. DecidedBy(new, A, B)'
        BY <2>2, <2>3 DEF DecidedBy
    <2>. QED  BY <2>4
<1>. QED  BY <1>1, <1>2, <1>3 DEF Recursions

LEMMA OwnIs ==
    ASSUME TypeInt, XidOrder, NEW p \in Procs
    PROVE  /\ Own(p) = IF xid[p] = Invalid THEN {} ELSE {xid[p]} \union RunningSubs(p)
           /\ xid[p] # Invalid => Tree(p) \subseteq Own(p)
           /\ xid[p] = Invalid => children[p] = {} /\ linking[p] = Idle
           /\ children[p] \subseteq RunningSubs(p) /\ Own(p) \subseteq Nat
           /\ \A x \in Own(p) : x # Invalid /\ xid[p] <= x /\ x < nextXid
<1>1. /\ Ordered(p) /\ xid[p] \in Nat /\ nextXid \in Nat /\ children[p] \in SUBSET Nat
      /\ RunningSubs(p) \in SUBSET Nat
    BY DEF TypeInt, XidOrder, RunningSubs, Link
<1>2. children[p] \subseteq RunningSubs(p)
    BY DEF RunningSubs
<1>3. xid[p] = Invalid => RunningSubs(p) = {}
    BY <1>1 DEF Ordered
<1>4. xid[p] = Invalid => children[p] = {} /\ linking[p] = Idle
    BY <1>2, <1>3 DEF RunningSubs
<1>5. \A x \in RunningSubs(p) : x # Invalid /\ xid[p] <= x /\ x < nextXid
    BY <1>1 DEF Ordered, Invalid
<1>6. Own(p) = IF xid[p] = Invalid THEN {} ELSE {xid[p]} \union RunningSubs(p)
    BY <1>2, <1>3, <1>4, <1>5 DEF Own, Tree
<1>7. xid[p] < nextXid
    BY <1>1 DEF Ordered
<1>. QED  BY <1>1, <1>2, <1>4, <1>5, <1>6, <1>7 DEF Tree

LEMMA OwnInXids ==
    ASSUME TypeInt, XidOrder, LogTypes, NEW p \in Procs
    PROVE  Own(p) \subseteq Xids
<1>1. nextXid \in Nat /\ nextXid <= MaxXid + 1 /\ MaxXid \in Nat
    BY BoundsAssumption DEF TypeInt, LogTypes
<1>2. \A x \in Own(p) : x \in Nat /\ x # Invalid /\ x < nextXid
    BY OwnIs
<1>. QED  BY <1>1, <1>2 DEF Xids, Invalid

\* A new xid is nobody's, and not in pg_subtrans.
LEMMA NewIsFresh ==
    ASSUME TypeInt, XidOrder, LogTypes, ForestInv, nextXid <= MaxXid
    PROVE  /\ nextXid \in Xids /\ nextXid # Invalid /\ parent[nextXid] = Invalid
           /\ nextXid \notin done /\ \A p \in Procs : nextXid \notin Own(p)
           /\ \A x \in Xids : parent[x] # nextXid
<1>1. nextXid \in Nat \ {0} /\ MaxXid \in Nat /\ latestCompletedXid < nextXid
      /\ latestCompletedXid \in Nat /\ LinksGoBack /\ DoneBefore
    BY BoundsAssumption DEF TypeInt, XidOrder, ForestInv
<1>2. nextXid \in Xids /\ nextXid # Invalid
    BY <1>1 DEF Xids, Invalid
<1>3. parent[nextXid] = Invalid /\ \A x \in Xids : parent[x] # nextXid
    BY <1>1, <1>2 DEF LinksGoBack, Xids
<1>4. nextXid \notin done
    BY <1>1 DEF DoneBefore
<1>5. ASSUME NEW p \in Procs, nextXid \in Own(p) PROVE FALSE
    BY <1>1, <1>5, OwnIs
<1>. QED  BY <1>2, <1>3, <1>4, <1>5

LEMMA EndingIsBefore ==
    ASSUME TypeInt, XidOrder, NEW p \in Procs, pc[p] # "run", NEW x \in ending[p]
    PROVE  x # Invalid /\ x <= LatestXid(p)
<1>1. /\ ending[p] \in SUBSET Nat /\ nextXid \in Nat /\ latestCompletedXid \in Nat
      /\ xid[p] # Invalid /\ ending[p] \subseteq Tree(p)
    BY DEF TypeInt, XidOrder, Ordered
<1>2. \A y \in ending[p] : y # Invalid /\ y <= nextXid
    <2>1. ending[p] \subseteq Own(p)
        BY <1>1, OwnIs
    <2>. QED  BY <1>1, <2>1, OwnIs
<1>3. Max(ending[p]) \in ending[p] /\ x <= Max(ending[p])
    BY <1>1, <1>2, MaxIsGreatest
<1>4. Max(ending[p]) <= Later(latestCompletedXid, Max(ending[p]))
    BY <1>1, <1>3, LaterIs
<1>5. Later(latestCompletedXid, Max(ending[p])) \in Nat
    BY <1>1, <1>3, LaterIs
<1>. QED  BY <1>1, <1>2, <1>3, <1>4, <1>5 DEF LatestXid

LEMMA ForestInit == Init => ForestInv
<1>. SUFFICES ASSUME Init PROVE ForestInv
    OBVIOUS
<1>1. \A x \in Xids : parent[x] = Invalid
    BY DEF Init
<1>2. LinksGoBack /\ DoneBefore
    BY <1>1 DEF Init, LinksGoBack, DoneBefore
<1>3. ASSUME NEW p \in Procs PROVE Linked(p) /\ EndsWhole(p) /\ Apart(p)
    BY DEF Init, Linked, EndsWhole, Apart, Own, Tree, RunningSubs, Invalid
<1>4. AncestorsOf([x \in Xids |-> {}])
    BY <1>1 DEF AncestorsOf
<1>5. \A B \in SUBSET Xids : LastOf([x \in Xids |-> x], B)
    BY <1>1 DEF LastOf
<1>6. ASSUME NEW A \in SUBSET Xids, NEW B \in SUBSET Xids
      PROVE  \E g : DecidedBy(g, A, B)
    <2>. DEFINE g == [x \in Xids |-> x \in A]
    <2>1. /\ g \in [Xids -> {g[x] : x \in Xids}]
          /\ \A x \in Xids : g[x] = (x \in A)
        OBVIOUS
    <2>. HIDE DEF g
    <2>2. ASSUME NEW x \in Xids
          PROVE  g[x] = (x \in A \/ (x \in B /\ parent[x] # Invalid /\ g[parent[x]]))
        BY <1>1, <2>1
    <2>3. DecidedBy(g, A, B)
        BY <2>1, <2>2 DEF DecidedBy
    <2>. QED  BY <2>3
<1>. QED  BY <1>2, <1>3, <1>4, <1>5, <1>6 DEF ForestInv, Recursions

LEMMA ForestStays ==
    ASSUME ForestInv,
           UNCHANGED <<nextXid, latestCompletedXid, xid, parent, children, linking, pc,
                       ending, done>>
    PROVE  ForestInv'
<1>1. LinksGoBack' /\ DoneBefore' /\ Recursions'
    BY RecursionsStay DEF ForestInv, LinksGoBack, DoneBefore
<1>2. ASSUME NEW p \in Procs PROVE Linked(p)' /\ EndsWhole(p)' /\ Apart(p)'
    BY DEF ForestInv, Linked, EndsWhole, Apart, Own, Tree, RunningSubs
<1>. QED  BY <1>1, <1>2 DEF ForestInv

\* The steps of a reader on the array, and those of its visibility test.
ReadsArray(p) ==
    \/ BeginSnapshot(p) \/ BeginOldestXmin(p) \/ \E q \in Procs : LookAt(p, q)
    \/ SnapshotDone(p) \/ OldestXminDone(p) \/ SnapshotResetXmin(p)

Asks(p) ==
    (\E x \in Xids : LookUp(p, x)) \/ LookIntoSubtrans(p) \/ LookIntoClog(p) \/ GoOn(p)

Ends(p) ==
    RecordTransactionCommit(p) \/ RecordTransactionAbort(p) \/ RecordSubtransactionAbort(p)

LEMMA NextSplits ==
    ASSUME [Next]_vars
    PROVE  \/ \E p \in Procs :
                \/ AssignXid(p) \/ AssignSubxid(p) \/ SubTransSetParent(p) \/ Ends(p)
                \/ SetPageStatus(p) \/ ProcArrayEndTransaction(p)
                \/ XidCacheRemoveRunningXids(p) \/ ReadsArray(p) \/ Asks(p)
           \/ UNCHANGED vars
BY DEF Next, WriterStep, ReaderStep, Procs, Ends, ReadsArray, Asks

LEMMA ReadsArrayKeeps ==
    ASSUME NEW p \in Procs, ReadsArray(p)
    PROVE  UNCHANGED <<shared, own, ask, cached, hint>>
BY DEF ReadsArray, BeginSnapshot, BeginOldestXmin, LookAt, SnapshotDone, OldestXminDone,
    SnapshotResetXmin

LEMMA AsksKeeps ==
    ASSUME NEW p \in Procs, Asks(p)
    PROVE  UNCHANGED <<shared, own, scan, snap, past, xmin, horizon>>
<1>1. CASE \E x \in Xids : LookUp(p, x)
    <2>1. PICK x \in Xids : LookUp(p, x)
        BY <1>1
    <2>. QED  BY <2>1 DEF LookUp
<1>. QED  BY <1>1 DEF Asks, LookIntoSubtrans, LookIntoClog, GoOn

LEMMA ForestStep ==
    TypeInt /\ TypeInt' /\ XidOrder /\ XidOrder' /\ LogTypes /\ ForestInv /\ [Next]_vars
        => ForestInv'
<1>. SUFFICES ASSUME TypeInt, TypeInt', XidOrder, XidOrder', LogTypes, ForestInv, [Next]_vars
              PROVE  ForestInv'
    OBVIOUS
<1>. USE DEF shared, own, reading
<1>0. /\ nextXid \in Nat /\ latestCompletedXid \in Nat /\ nextXid' \in Nat
      /\ nextXid <= MaxXid + 1 /\ MaxXid \in Nat /\ done \in SUBSET Nat
      /\ parent \in [Xids -> Nat] /\ LinksGoBack /\ DoneBefore /\ Recursions
      /\ \A p \in Procs : Linked(p) /\ EndsWhole(p) /\ Apart(p) /\ Ordered(p)
      /\ \A p \in Procs : xid[p] \in Nat /\ children[p] \in SUBSET Nat
    BY BoundsAssumption DEF TypeInt, XidOrder, LogTypes, ForestInv
<1>1. ASSUME NEW p \in Procs, AssignXid(p) PROVE ForestInv'
    <2>1. /\ Free(p) /\ xid[p] = Invalid /\ nextXid <= MaxXid
          /\ xid' = [xid EXCEPT ![p] = nextXid] /\ nextXid' = nextXid + 1
          /\ UNCHANGED <<latestCompletedXid, parent, children, linking, pc, ending, done>>
        BY <1>1 DEF AssignXid
    <2>2. LinksGoBack' /\ DoneBefore' /\ Recursions'
        <3>1. LinksGoBack'
            BY <1>0, <2>1 DEF LinksGoBack, Xids
        <3>. QED  BY <1>0, <2>1, <3>1, RecursionsStay DEF DoneBefore
    <2>3. xid'[p] = nextXid /\ children[p] = {} /\ linking[p] = Idle /\ pc[p] = "run"
        BY <2>1, OwnIs DEF TypeInt, Free
    <2>4. Own(p)' = {nextXid} /\ \A q \in Procs \ {p} : Own(q)' = Own(q)
        <3>1. nextXid # Invalid
            BY <2>1, NewIsFresh
        <3>2. Own(p)' = {nextXid}
            BY <2>1, <2>3, <3>1 DEF Own, Tree, RunningSubs
        <3>. QED  BY <2>1, <3>2 DEF Own, Tree, RunningSubs, TypeInt
    <2>5. Linked(p)' /\ EndsWhole(p)'
        BY <2>1, <2>3, NewIsFresh DEF Linked, EndsWhole
    <2>6. ASSUME NEW q \in Procs, q # p PROVE Linked(q)' /\ EndsWhole(q)'
        <3>1. xid'[q] = xid[q]
            BY <2>1, <2>6
        <3>. QED  BY <1>0, <2>1, <3>1 DEF Linked, EndsWhole, Tree
    <2>7. ASSUME NEW q \in Procs PROVE Apart(q)'
        BY <1>0, <2>1, <2>4, NewIsFresh DEF Apart
    <2>. QED  BY <2>2, <2>5, <2>6, <2>7 DEF ForestInv
<1>2. ASSUME NEW p \in Procs, AssignSubxid(p) PROVE ForestInv'
    <2>1. /\ Free(p) /\ xid[p] # Invalid /\ nextXid <= MaxXid /\ nextXid' = nextXid + 1
          /\ UNCHANGED <<latestCompletedXid, xid, parent, children, pc, ending, done>>
        BY <1>2 DEF AssignSubxid
    <2>2. PICK u \in Tree(p) : linking' =
            [linking EXCEPT ![p] = [at |-> "link", sub |-> nextXid, under |-> u]]
        BY <1>2 DEF AssignSubxid
    <2>3. LinksGoBack' /\ DoneBefore' /\ Recursions'
        <3>1. LinksGoBack'
            BY <1>0, <2>1 DEF LinksGoBack, Xids
        <3>. QED  BY <1>0, <2>1, <3>1, RecursionsStay DEF DoneBefore
    <2>4. /\ linking'[p].sub = nextXid /\ linking'[p].under = u /\ linking'[p] # Idle
          /\ linking[p] = Idle /\ pc[p] = "run"
        BY <2>1, <2>2, IdleIsNoRecord DEF Free, TypeInt, Idle
    <2>5. /\ Own(p)' = Own(p) \union {nextXid}
          /\ \A q \in Procs \ {p} : Own(q)' = Own(q) /\ linking'[q] = linking[q]
        <3>1. nextXid # Invalid
            BY <2>1, NewIsFresh
        <3>2. RunningSubs(p)' = children[p] \union {nextXid} /\ RunningSubs(p) = children[p]
            BY <2>1, <2>4 DEF RunningSubs
        <3>3. Tree(p)' = Tree(p)
            BY <2>1 DEF Tree
        <3>4. Own(p)' = Own(p) \union {nextXid}
            BY <3>1, <3>2, <3>3 DEF Own
        <3>5. \A q \in Procs \ {p} : linking'[q] = linking[q]
            BY <2>2 DEF TypeInt
        <3>6. \A q \in Procs \ {p} : Own(q)' = Own(q)
            BY <2>1, <3>5 DEF Own, Tree, RunningSubs
        <3>. QED  BY <3>4, <3>5, <3>6
    <2>6. Linked(p)' /\ EndsWhole(p)'
        <3>1. Tree(p)' = Tree(p) /\ u \in Own(p)
            BY <2>1, <2>2, OwnIs DEF Tree
        <3>2. u < nextXid /\ nextXid \notin Tree(p)
            BY <2>1, <3>1, OwnIs, NewIsFresh
        <3>3. /\ xid'[p] = xid[p] /\ children'[p] = children[p] /\ parent' = parent
              /\ parent[nextXid] = Invalid /\ \A x \in Xids : parent[x] # nextXid
            BY <2>1, NewIsFresh
        <3>4. Linked(p)'
            BY <1>0, <2>2, <2>4, <3>1, <3>2, <3>3 DEF Linked
        <3>. QED  BY <2>1, <2>4, <3>4 DEF EndsWhole
    <2>7. ASSUME NEW q \in Procs, q # p PROVE Linked(q)' /\ EndsWhole(q)'
        BY <1>0, <2>1, <2>5, <2>7 DEF Linked, EndsWhole, Tree
    <2>8. ASSUME NEW q \in Procs PROVE Apart(q)'
        BY <1>0, <2>1, <2>5, NewIsFresh DEF Apart
    <2>. QED  BY <2>3, <2>6, <2>7, <2>8 DEF ForestInv
<1>3. ASSUME NEW p \in Procs, SubTransSetParent(p) PROVE ForestInv'
    <2>. DEFINE s == linking[p].sub
                u == linking[p].under
    <2>1. /\ linking[p] # Idle /\ parent' = [parent EXCEPT ![s] = u]
          /\ children' = [children EXCEPT ![p] = @ \union {s}]
          /\ linking' = [linking EXCEPT ![p] = Idle]
          /\ UNCHANGED <<nextXid, latestCompletedXid, xid, pc, ending, done>>
        BY <1>3 DEF SubTransSetParent
    <2>2. /\ u \in Tree(p) /\ u < s /\ s \notin Tree(p) /\ parent[s] = Invalid
          /\ \A x \in Xids : parent[x] # s
        BY <1>0, <2>1 DEF Linked
    <2>3. /\ s \in RunningSubs(p) /\ xid[p] # Invalid /\ pc[p] = "run"
        BY <1>0, <2>1, OwnIs DEF RunningSubs, Ordered
    <2>4. s \in Own(p) /\ u \in Own(p)
        BY <2>2, <2>3, OwnIs
    <2>5. /\ s \in Xids /\ u \in Xids /\ u # Invalid /\ s # Invalid /\ s # u
          /\ s < nextXid /\ s \in Nat /\ u \in Nat
        <3>1. s \in Nat /\ u \in Nat /\ s # Invalid /\ u # Invalid /\ s < nextXid /\ u < nextXid
            BY <2>4, OwnIs
        <3>. QED  BY <1>0, <2>2, <3>1 DEF Xids, Invalid
    <2>. HIDE DEF s, u
    <2>6. parent'[s] = u /\ \A x \in Xids \ {s} : parent'[x] = parent[x]
        BY <1>0, <2>1, <2>5
    <2>7. LinksGoBack' /\ DoneBefore' /\ Recursions'
        <3>1. LinksGoBack'
            BY <1>0, <2>1, <2>2, <2>5, <2>6 DEF LinksGoBack
        <3>2. \A x \in Xids : parent[x] # Invalid => parent[x] \in Xids
            BY <1>0 DEF LinksGoBack
        <3>3. Recursions'
            BY <1>0, <2>1, <2>2, <2>5, <3>2, RecursionsGrow
        <3>. QED  BY <1>0, <2>1, <3>1, <3>3 DEF DoneBefore
    <2>8. /\ children'[p] = children[p] \union {s} /\ linking'[p] = Idle
          /\ \A q \in Procs \ {p} : children'[q] = children[q] /\ linking'[q] = linking[q]
        BY <2>1 DEF TypeInt
    <2>9. \A q \in Procs : Own(q)' = Own(q)
        <3>1. RunningSubs(p)' = RunningSubs(p) /\ RunningSubs(p) = children[p] \union {s}
            BY <2>1, <2>8 DEF RunningSubs, s
        <3>2. xid'[p] = xid[p] /\ Tree(p)' = Tree(p) \union {s}
            BY <2>1, <2>8 DEF Tree
        <3>3. Own(p)' = Own(p)
            BY <3>1, <3>2 DEF Own
        <3>. QED  BY <2>1, <2>8, <3>3 DEF Own, Tree, RunningSubs
    <2>10. Linked(p)' /\ EndsWhole(p)'
        <3>1. xid'[p] = xid[p] /\ xid[p] # s /\ xid[p] \in Xids /\ pc'[p] = "run"
            <4>1. xid[p] \in Own(p) /\ xid[p] < nextXid
                BY <1>0, <2>3, OwnIs DEF Ordered
            <4>2. xid[p] \in Tree(p)
                BY DEF Tree
            <4>. QED  BY <1>0, <2>1, <2>2, <2>3, <4>1, <4>2 DEF Xids, Invalid
        <3>2. Tree(p)' = Tree(p) \union {s}
            BY <2>1, <2>8 DEF Tree
        <3>3. \A x \in children[p] : x \in Xids /\ x # s
            <4>1. \A x \in children[p] : x \in Own(p) /\ x \in Tree(p)
                BY <2>3, OwnIs DEF Tree
            <4>. QED  BY <1>0, <2>2, <4>1, OwnIs DEF Xids, Invalid
        <3>4. Linked(p)'
            BY <1>0, <2>2, <2>6, <2>8, <3>1, <3>2, <3>3 DEF Linked
        <3>. QED  BY <3>1, <3>4 DEF EndsWhole
    <2>11. ASSUME NEW q \in Procs, q # p PROVE Linked(q)' /\ EndsWhole(q)'
        <3>1. /\ xid'[q] = xid[q] /\ children'[q] = children[q] /\ linking'[q] = linking[q]
              /\ pc'[q] = pc[q] /\ ending'[q] = ending[q] /\ Tree(q)' = Tree(q)
            BY <2>1, <2>8, <2>11 DEF Tree
        <3>2. \A x \in Own(q) : x \in Xids /\ x # s /\ x # u
            BY <1>0, <2>4, <2>11, OwnIs DEF Apart, Xids, Invalid
        <3>3. /\ xid[q] # Invalid => xid[q] \in Own(q)
              /\ \A x \in children[q] : x \in Own(q)
              /\ linking[q] # Idle => linking[q].sub \in Own(q)
            BY OwnIs DEF RunningSubs
        <3>4. \A x \in Own(q) : parent'[x] = parent[x]
            BY <2>6, <3>2
        <3>5. Linked(q)'
            BY <1>0, <2>6, <3>1, <3>2, <3>3, <3>4 DEF Linked
        <3>6. EndsWhole(q)'
            BY <1>0, <3>1, <3>3, <3>4 DEF EndsWhole
        <3>. QED  BY <3>5, <3>6
    <2>12. ASSUME NEW q \in Procs PROVE Apart(q)'
        BY <1>0, <2>1, <2>9 DEF Apart
    <2>. QED  BY <2>7, <2>10, <2>11, <2>12 DEF ForestInv
<1>4. ASSUME NEW p \in Procs, Ends(p) PROVE ForestInv'
    <2>1. PICK x \in Tree(p), subs \in SUBSET children[p],
               what \in {"subabort", "commit", "abort"},
               status \in {Committed, Aborted} :
                   /\ End(p, x, subs, what, status)
                   /\ what # "subabort" => x = xid[p] /\ subs = children[p]
        BY <1>4, EndIs DEF Ends
    <2>2. /\ UNCHANGED <<nextXid, latestCompletedXid, xid, parent, children, linking, done>>
          /\ pc' = [pc EXCEPT ![p] = what] /\ ending' = [ending EXCEPT ![p] = {x} \union subs]
        BY <2>1 DEF End
    <2>3. LinksGoBack' /\ DoneBefore' /\ Recursions'
        <3>1. LinksGoBack'
            BY <1>0, <2>2 DEF LinksGoBack
        <3>. QED  BY <1>0, <2>2, <3>1, RecursionsStay DEF DoneBefore
    <2>4. \A q \in Procs : Linked(q)' /\ Own(q)' = Own(q) /\ Tree(q)' = Tree(q)
        BY <1>0, <2>2 DEF Linked, Own, Tree, RunningSubs
    <2>5. \A q \in Procs : Apart(q)'
        BY <1>0, <2>2, <2>4 DEF Apart
    <2>6. EndsWhole(p)'
        <3>1. pc'[p] = what /\ ending'[p] = {x} \union subs
            BY <2>2 DEF TypeInt
        <3>2. CASE what # "subabort"
            BY <2>1, <2>4, <3>1, <3>2 DEF EndsWhole, Tree
        <3>3. CASE what = "subabort"
            <4>1. PICK z \in children[p] :
                    End(p, z, {y \in children[p] : z \in Ancestors[y]}, "subabort", Aborted)
                BY <1>4, <2>2, <3>1, <3>3 DEF Ends, RecordTransactionCommit,
                    RecordTransactionAbort, RecordSubtransactionAbort, End, TypeInt
            <4>2. ending'[p] = {z} \union {y \in children[p] : z \in Ancestors[y]}
                BY <4>1 DEF End, TypeInt
            <4>3. ASSUME NEW y \in children[p], parent[y] \in ending'[p]
                  PROVE  y \in ending'[p]
                <5>1. children[p] \subseteq Xids /\ Invalid \notin children[p]
                    <6>1. \A w \in children[p] : w \in Nat /\ w # Invalid /\ w < nextXid
                        BY OwnIs, <1>0
                    <6>. QED  BY <1>0, <6>1 DEF Xids, Invalid
                <5>2. parent[y] # Invalid
                    BY <4>2, <4>3, <5>1
                <5>3. \A w \in Xids : parent[w] # Invalid =>
                        Ancestors[w] = {parent[w]} \union Ancestors[parent[w]]
                    BY <1>0, AncestorsIs, Zenon DEF AncestorsOf
                <5>4. parent[y] = z \/ z \in Ancestors[parent[y]]
                    BY <4>2, <4>3
                <5>. QED  BY <4>2, <5>1, <5>2, <5>3, <5>4
            <4>. QED  BY <2>2, <3>1, <3>3, <4>2, <4>3 DEF EndsWhole
        <3>. QED  BY <3>2, <3>3
    <2>7. ASSUME NEW q \in Procs, q # p PROVE EndsWhole(q)'
        <3>1. pc'[q] = pc[q] /\ ending'[q] = ending[q]
            BY <2>2, <2>7
        <3>. QED  BY <1>0, <2>2, <2>4, <3>1 DEF EndsWhole
    <2>. QED  BY <2>3, <2>4, <2>5, <2>6, <2>7 DEF ForestInv
<1>5. ASSUME NEW p \in Procs, ProcArrayEndTransaction(p) PROVE ForestInv'
    <2>1. /\ pc[p] \in {"commit", "abort"} /\ latestCompletedXid' = LatestXid(p)
          /\ xid' = [xid EXCEPT ![p] = Invalid] /\ children' = [children EXCEPT ![p] = {}]
          /\ pc' = [pc EXCEPT ![p] = "run"] /\ ending' = [ending EXCEPT ![p] = {}]
          /\ done' = done \/ done' = done \union ending[p]
          /\ UNCHANGED <<nextXid, parent, linking>>
        BY <1>5 DEF ProcArrayEndTransaction
    <2>2. /\ linking[p] = Idle /\ xid[p] # Invalid /\ ending[p] = Tree(p)
          /\ ending[p] \subseteq Own(p)
        BY <1>0, <2>1, OwnIs DEF Ordered, EndsWhole
    <2>3. LinksGoBack' /\ DoneBefore' /\ Recursions'
        <3>1. LinksGoBack'
            BY <1>0, <2>1 DEF LinksGoBack
        <3>2. \A x \in ending[p] : x # Invalid /\ x <= latestCompletedXid'
            BY <2>1, EndingIsBefore
        <3>3. latestCompletedXid <= latestCompletedXid' /\ latestCompletedXid' \in Nat
            BY <2>1, LatestXidIs
        <3>4. \A x \in done : x # Invalid /\ x <= latestCompletedXid'
            BY <1>0, <3>3 DEF DoneBefore
        <3>5. DoneBefore'
            BY <2>1, <3>2, <3>4 DEF DoneBefore
        <3>. QED  BY <1>0, <2>1, <3>1, <3>5, RecursionsStay
    <2>4. /\ xid'[p] = Invalid /\ children'[p] = {} /\ linking'[p] = Idle /\ pc'[p] = "run"
          /\ \A q \in Procs \ {p} : /\ xid'[q] = xid[q] /\ children'[q] = children[q]
                                    /\ pc'[q] = pc[q] /\ ending'[q] = ending[q]
        BY <2>1, <2>2 DEF TypeInt
    <2>5. Own(p)' = {} /\ Linked(p)' /\ EndsWhole(p)'
        BY <2>4 DEF Own, Tree, RunningSubs, Linked, EndsWhole
    <2>6. ASSUME NEW q \in Procs, q # p
          PROVE  Own(q)' = Own(q) /\ Linked(q)' /\ EndsWhole(q)'
        BY <1>0, <2>1, <2>4, <2>6 DEF Own, Tree, RunningSubs, Linked, EndsWhole
    <2>7. ASSUME NEW q \in Procs PROVE Apart(q)'
        <3>1. CASE q = p
            BY <2>5, <3>1 DEF Apart
        <3>2. CASE q # p
            BY <1>0, <2>1, <2>2, <2>5, <2>6, <3>2 DEF Apart
        <3>. QED  BY <3>1, <3>2
    <2>. QED  BY <2>3, <2>5, <2>6, <2>7 DEF ForestInv
<1>6. ASSUME NEW p \in Procs, XidCacheRemoveRunningXids(p) PROVE ForestInv'
    <2>1. /\ pc[p] = "subabort" /\ latestCompletedXid' = LatestXid(p)
          /\ children' = [children EXCEPT ![p] = @ \ ending[p]]
          /\ pc' = [pc EXCEPT ![p] = "run"] /\ ending' = [ending EXCEPT ![p] = {}]
          /\ UNCHANGED <<nextXid, xid, parent, linking, done>>
        BY <1>6 DEF XidCacheRemoveRunningXids
    <2>2. /\ linking[p] = Idle /\ xid[p] # Invalid /\ ending[p] \subseteq children[p]
          /\ \A x \in children[p] : parent[x] \in ending[p] => x \in ending[p]
        BY <1>0, <2>1 DEF Ordered, EndsWhole
    <2>3. LinksGoBack' /\ DoneBefore' /\ Recursions'
        <3>1. LinksGoBack'
            BY <1>0, <2>1 DEF LinksGoBack
        <3>2. latestCompletedXid <= latestCompletedXid' /\ latestCompletedXid' \in Nat
            BY <2>1, LatestXidIs
        <3>3. DoneBefore'
            BY <1>0, <2>1, <3>2 DEF DoneBefore
        <3>. QED  BY <1>0, <2>1, <3>1, <3>3, RecursionsStay
    <2>4. /\ children'[p] = children[p] \ ending[p] /\ pc'[p] = "run"
          /\ \A q \in Procs \ {p} : /\ children'[q] = children[q]
                                    /\ pc'[q] = pc[q] /\ ending'[q] = ending[q]
        BY <2>1 DEF TypeInt
    <2>5. Own(p)' \subseteq Own(p) /\ EndsWhole(p)'
        BY <2>1, <2>4 DEF Own, Tree, RunningSubs, EndsWhole
    <2>6. Linked(p)'
        <3>1. \A x \in children'[p] : parent'[x] \in Tree(p)'
            BY <1>0, <2>1, <2>2, <2>4 DEF Linked, Tree
        <3>. QED  BY <1>0, <2>1, <2>2, <3>1 DEF Linked
    <2>7. ASSUME NEW q \in Procs, q # p
          PROVE  Own(q)' = Own(q) /\ Linked(q)' /\ EndsWhole(q)'
        BY <1>0, <2>1, <2>4, <2>7 DEF Own, Tree, RunningSubs, Linked, EndsWhole
    <2>8. ASSUME NEW q \in Procs PROVE Apart(q)'
        <3>1. CASE q = p
            BY <1>0, <2>1, <2>5, <2>7, <3>1 DEF Apart
        <3>2. CASE q # p
            BY <1>0, <2>1, <2>5, <2>7, <3>2 DEF Apart
        <3>. QED  BY <3>1, <3>2
    <2>. QED  BY <2>3, <2>5, <2>6, <2>7, <2>8 DEF ForestInv
<1>7. ASSUME NEW p \in Procs, SetPageStatus(p) PROVE ForestInv'
    BY <1>7, ForestStays DEF SetPageStatus
<1>8. ASSUME NEW p \in Procs, ReadsArray(p) \/ Asks(p) PROVE ForestInv'
    BY <1>8, ForestStays, ReadsArrayKeeps, AsksKeeps
<1>9. CASE UNCHANGED vars
    BY <1>9, ForestStays DEF vars
<1>. QED  BY <1>1, <1>2, <1>3, <1>4, <1>5, <1>6, <1>7, <1>8, <1>9, NextSplits

-----------------------------------------------------------------------------
(***************************************************************************)
(* What the commit log says.                                               *)
(***************************************************************************)
LEMMA WritesAre ==
    ASSUME NEW xs \in SUBSET Nat, NEW st \in {SubCommitted, Committed, Aborted},
           NEW s \in Seq(Write)
    PROVE  Writes(xs, st) \in Seq(Write) /\ Writes(xs, st) \o s \in Seq(Write)
<1>1. [xids |-> xs, status |-> st] \in Write
    BY DEF Write
<1>2. CASE xs = {}
    BY <1>2 DEF Writes
<1>3. CASE xs # {}
    <2>1. PICK w \in Write : w = [xids |-> xs, status |-> st]
        BY <1>1
    <2>2. Writes(xs, st) = <<w>>
        BY <1>3, <2>1, Zenon DEF Writes
    <2>. QED  BY <2>2
<1>. QED  BY <1>2, <1>3

\* Unless there is nothing to write, they are the first of what is to do.
LEMMA WritesFirst ==
    ASSUME NEW xs \in SUBSET Nat, NEW st \in {SubCommitted, Committed, Aborted},
           NEW s \in Seq(Write), NEW t, t = Writes(xs, st) \o s, xs # {}
    PROVE  t # <<>> /\ Head(t) = [xids |-> xs, status |-> st] /\ Tail(t) = s
<1>1. PICK w \in Write : w = [xids |-> xs, status |-> st]
    BY DEF Write
<1>2. Writes(xs, st) = <<w>>
    BY <1>1, Zenon DEF Writes
<1>3. t \in Seq(Write) /\ t = <<w>> \o s
    BY <1>2, ConcatProperties
<1>4. /\ Len(t) = Len(s) + 1 /\ Len(s) \in Nat /\ t[1] = w
      /\ \A i \in 1 .. Len(s) : t[i + 1] = s[i]
    BY <1>3, ConcatProperties
<1>5. t # <<>> /\ Head(t) = w
    BY <1>3, <1>4
<1>6. /\ Tail(t) \in Seq(Write) /\ Len(Tail(t)) = Len(s)
      /\ \A i \in 1 .. Len(s) : Tail(t)[i] = s[i]
    BY <1>3, <1>4, <1>5, HeadTailProperties
<1>7. Tail(t) = s
    BY <1>4, <1>6, SeqEqual
<1>. QED  BY <1>1, <1>5, <1>7, Zenon

LEMMA TreeStatusIs ==
    ASSUME NEW x \in Nat, NEW subs \in SUBSET Nat, NEW st \in {Committed, Aborted}
    PROVE  SetTreeStatus(x, subs, st) \in Seq(Write)
<1>. DEFINE first == {y \in subs : Page(y) = Page(x)}
            rest == subs \ first
<1>1. rest \in SUBSET Nat /\ {x} \union first \in SUBSET Nat
    OBVIOUS
<1>. HIDE DEF first, rest
<1>2. /\ Writes(rest, SubCommitted) \in Seq(Write) /\ Writes(rest, st) \in Seq(Write)
      /\ Writes({x} \union first, st) \in Seq(Write) /\ <<>> \in Seq(Write)
    <2>1. <<>> \in Seq(Write)
        OBVIOUS
    <2>. QED  BY <1>1, <2>1, WritesAre
<1>3. \A a, b, c \in Seq(Write) : a \o b \o c \in Seq(Write)
    OBVIOUS
<1>. QED  BY <1>2, <1>3 DEF SetTreeStatus, first, rest

LEMMA HeadTail ==
    ASSUME NEW s \in Seq(Write), s # <<>>
    PROVE  Head(s) \in Write /\ Tail(s) \in Seq(Write)
OBVIOUS

(***************************************************************************)
(* Fetches from the commit log.                                            *)
(***************************************************************************)
FetchesOf(last, p) == last = [y \in Xids |-> IF AskParent(p, y) THEN last[parent[y]] ELSE y]

LEMMA LastFetchedIs ==
    ASSUME Recursions, NEW p \in Procs
    PROVE  \E last : FetchesOf(last, p) /\ \A x \in Xids : LastFetched(p, x) = last[x]
<1>. DEFINE B == {y \in Xids : AskParent(p, y)}
<1>1. PICK last : LastOf(last, B)
    BY DEF Recursions
<1>2. FetchesOf(last, p)
    <2>1. last = [x \in Xids |-> IF x \in B /\ parent[x] # Invalid THEN last[parent[x]] ELSE x]
        BY <1>1, Zenon DEF LastOf
    <2>2. \A x \in Xids :
            (IF x \in B /\ parent[x] # Invalid THEN last[parent[x]] ELSE x) =
            (IF AskParent(p, x) THEN last[parent[x]] ELSE x)
        BY DEF AskParent
    <2>. HIDE DEF B
    <2>. QED  BY <2>1, <2>2 DEF FetchesOf
<1>. DEFINE l == CHOOSE u : FetchesOf(u, p)
<1>3. FetchesOf(l, p)
    BY <1>2
<1>4. ASSUME NEW x \in Xids PROVE LastFetched(p, x) = l[x]
    BY DEF LastFetched, FetchesOf
<1>. QED  BY <1>3, <1>4

\* TransactionIdDidAbort stays in a set of xids that it does not have to leave
\* for a parent, and ends where it need not ask a parent.
LEMMA LastFetchedInside ==
    ASSUME Recursions, LinksGoBack, NEW p \in Procs, NEW C, C \subseteq Xids,
           \A y \in C : AskParent(p, y) => parent[y] \in C, NEW x \in C
    PROVE  /\ LastFetched(p, x) \in C /\ ~AskParent(p, LastFetched(p, x))
           /\ ~AskParent(p, x) => LastFetched(p, x) = x
<1>1. PICK last : FetchesOf(last, p) /\ \A y \in Xids : LastFetched(p, y) = last[y]
    BY LastFetchedIs
<1>2. ASSUME NEW y \in Xids PROVE last[y] = IF AskParent(p, y) THEN last[parent[y]] ELSE y
    BY <1>1, Zenon DEF FetchesOf
<1>. DEFINE T == {y \in C : ~(last[y] \in C /\ ~AskParent(p, last[y]))}
<1>3. ASSUME T # {} PROVE FALSE
    <2>1. PICK y \in T : \A z \in T : y <= z
        <3>1. T \in SUBSET C /\ C \in SUBSET Nat
            BY BoundsAssumption DEF Xids
        <3>. HIDE DEF T
        <3>2. T \in SUBSET Nat
            BY <3>1
        <3>. QED  BY <1>3, <3>2, MinIsLeast
    <2>2. y \in Xids /\ y \in C /\ AskParent(p, y)
        BY <1>2, <2>1
    <2>3. parent[y] \in C /\ parent[y] < y /\ last[y] = last[parent[y]]
          /\ parent[y] \in Nat /\ y \in Nat
        BY <1>2, <2>2, BoundsAssumption DEF AskParent, LinksGoBack, Xids
    <2>. QED  BY <2>1, <2>2, <2>3
<1>. QED  BY <1>1, <1>2, <1>3

LEMMA RememberIs ==
    ASSUME LogTypes, NEW p \in Procs, NEW y \in Xids, Remember(p, y)
    PROVE  /\ Status(p, y) \in Statuses /\ cached' \in [Procs -> Fetched]
           /\ \A q \in Procs \ {p} : cached'[q] = cached[q]
           /\ \/ cached'[p] = cached[p]
              \/ /\ cached'[p].of = y /\ cached'[p].status = Status(p, y)
                 /\ Status(p, y) \in {Committed, Aborted}
<1>1. cached \in [Procs -> Fetched] /\ clog \in [Xids -> Statuses]
    BY DEF LogTypes
<1>2. Status(p, y) \in Statuses
    BY <1>1 DEF Status, Fetched
<1>3. PICK f \in Fetched : f = [of |-> y, status |-> Status(p, y)]
    BY <1>2 DEF Fetched
<1>4. \/ cached' = cached
      \/ Status(p, y) \in {Committed, Aborted} /\ cached' = [cached EXCEPT ![p] = f]
    BY <1>3 DEF Remember, Final
<1>. QED  BY <1>1, <1>2, <1>3, <1>4

LEMMA LogTypesInit == Init => LogTypes
BY BoundsAssumption DEF Init, LogTypes, Statuses, Fetched, Write, Xids, Invalid

LEMMA LogTypesStep == TypeInt /\ TypeInt' /\ XidOrder /\ LogTypes /\ ForestInv /\ [Next]_vars => LogTypes'
<1>. SUFFICES ASSUME TypeInt, TypeInt', XidOrder, LogTypes, ForestInv, [Next]_vars PROVE LogTypes'
    OBVIOUS
<1>. USE DEF shared, own, reading
<1>0. /\ nextXid \in Nat /\ MaxXid \in Nat /\ nextXid <= MaxXid + 1
      /\ clog \in [Xids -> Statuses] /\ parent \in [Xids -> Nat]
      /\ todo \in [Procs -> Seq(Write)]
      /\ hint \in [Xids -> {"none", Committed, Aborted}]
      /\ ask \in [Procs -> {Idle} \union Question] /\ cached \in [Procs -> Fetched]
    BY BoundsAssumption DEF TypeInt, LogTypes
<1>1. ASSUME NEW p \in Procs, AssignXid(p) \/ AssignSubxid(p) PROVE LogTypes'
    <2>1. nextXid <= MaxXid /\ nextXid' = nextXid + 1 /\ UNCHANGED <<clog, parent, todo, hint, ask, cached>>
        BY <1>1 DEF AssignXid, AssignSubxid
    <2>. QED  BY <1>0, <2>1 DEF LogTypes
<1>2. ASSUME NEW p \in Procs, SubTransSetParent(p) PROVE LogTypes'
    <2>1. linking[p].under \in Nat
        BY <1>2 DEF SubTransSetParent, TypeInt, Link
    <2>2. /\ parent' = [parent EXCEPT ![linking[p].sub] = linking[p].under]
          /\ UNCHANGED <<nextXid, clog, todo, hint, ask, cached>>
        BY <1>2 DEF SubTransSetParent
    <2>. QED  BY <1>0, <2>1, <2>2 DEF LogTypes
<1>3. ASSUME NEW p \in Procs, Ends(p) PROVE LogTypes'
    <2>1. PICK x \in Tree(p), subs \in SUBSET children[p],
               what \in {"subabort", "commit", "abort"},
               status \in {Committed, Aborted} : End(p, x, subs, what, status)
        BY <1>3, EndIs DEF Ends
    <2>2. x \in Nat /\ subs \in SUBSET Nat
        BY <2>1 DEF TypeInt, Tree
    <2>3. SetTreeStatus(x, subs, status) \in Seq(Write)
        BY <2>2, TreeStatusIs
    <2>4. /\ todo' = [todo EXCEPT ![p] = SetTreeStatus(x, subs, status)]
          /\ UNCHANGED <<nextXid, clog, parent, hint, ask, cached>>
        BY <2>1 DEF End
    <2>. QED  BY <1>0, <2>3, <2>4 DEF LogTypes
<1>4. ASSUME NEW p \in Procs, SetPageStatus(p) PROVE LogTypes'
    <2>1. PICK w \in Write, s \in Seq(Write) : w = Head(todo[p]) /\ s = Tail(todo[p])
        BY <1>0, <1>4, HeadTail DEF SetPageStatus
    <2>2. PICK now : now = FirstPage(w.xids)
        OBVIOUS
    <2>3. w.status \in {SubCommitted, Committed, Aborted} /\ w.xids \ now \in SUBSET Nat
        BY <2>1 DEF Write
    <2>4. /\ clog' = [x \in Xids |-> IF x \in now THEN w.status ELSE clog[x]]
          /\ todo' = [todo EXCEPT ![p] = Writes(w.xids \ now, w.status) \o s]
          /\ UNCHANGED <<nextXid, parent, hint, ask, cached>>
        BY <1>4, <2>1, <2>2 DEF SetPageStatus
    <2>5. clog' \in [Xids -> Statuses]
        BY <1>0, <2>3, <2>4 DEF Statuses
    <2>6. todo' \in [Procs -> Seq(Write)]
        BY <1>0, <2>3, <2>4, WritesAre
    <2>. QED  BY <1>0, <2>4, <2>5, <2>6 DEF LogTypes
<1>5. ASSUME NEW p \in Procs, ProcArrayEndTransaction(p) \/ XidCacheRemoveRunningXids(p)
      PROVE  LogTypes'
    BY <1>0, <1>5 DEF ProcArrayEndTransaction, XidCacheRemoveRunningXids, LogTypes
<1>6. ASSUME NEW p \in Procs, ReadsArray(p) PROVE LogTypes'
    BY <1>0, <1>6, ReadsArrayKeeps DEF LogTypes
<1>7. CASE UNCHANGED vars
    BY <1>0, <1>7 DEF vars, LogTypes
<1>8. ASSUME NEW p \in Procs, Asks(p) PROVE LogTypes'
    <2>1. UNCHANGED <<nextXid, clog, parent, todo>>
        BY <1>8, AsksKeeps
    <2>2. CASE \E x \in Xids : LookUp(p, x)
        <3>1. PICK x \in Xids : LookUp(p, x)
            BY <2>2
        <3>2. Uncached(p, x) \in SUBSET Nat
            BY DEF Uncached, TypeInt
        <3>3. PICK a \in Question : ask' = [ask EXCEPT ![p] = a]
            <4>1. /\ \A v \in BOOLEAN : Answer(x, v) \in Question
                  /\ XidInMVCCSnapshot(p, x) \in BOOLEAN
                BY DEF Answer, Question, XidInMVCCSnapshot
            <4>2. /\ [at |-> "subtrans", of |-> x, tops |-> Uncached(p, x)] \in Question
                  /\ AskClog(x) \in Question
                BY <3>2 DEF Question, AskClog
            <4>. QED  BY <3>1, <4>1, <4>2 DEF LookUp
        <3>. QED  BY <1>0, <2>1, <3>1, <3>3 DEF LookUp, LogTypes
    <2>3. CASE LookIntoSubtrans(p)
        <3>1. PICK x \in Xids : x = ask[p].of
            <4>1. ask[p] \in Question
                BY <1>0, <2>3 DEF LookIntoSubtrans, Idle
            <4>. QED  BY <4>1 DEF Question
        <3>2. Answer(x, FALSE) \in Question /\ AskClog(x) \in Question
            BY DEF Answer, AskClog, Question
        <3>3. ask' = [ask EXCEPT ![p] = Answer(x, FALSE)] \/ ask' = [ask EXCEPT ![p] = AskClog(x)]
            BY <2>3, <3>1 DEF LookIntoSubtrans
        <3>4. cached' \in [Procs -> Fetched]
            <4>1. Recursions /\ LinksGoBack /\ \A y \in Xids : AskParent(p, y) => parent[y] \in Xids
                BY DEF ForestInv, LinksGoBack, AskParent
            <4>2. LastFetched(p, x) \in Xids
                BY <4>1, LastFetchedInside
            <4>3. Remember(p, LastFetched(p, x))
                BY <2>3, <3>1 DEF LookIntoSubtrans
            <4>. QED  BY <4>2, <4>3, RememberIs
        <3>5. hint' = hint
            BY <2>3 DEF LookIntoSubtrans
        <3>. QED  BY <1>0, <2>1, <3>2, <3>3, <3>4, <3>5 DEF LogTypes
    <2>4. CASE LookIntoClog(p)
        <3>1. PICK a \in [at : {"clog"}, of : Xids, fetch : Xids] : a = ask[p]
            BY <1>0, <2>4 DEF LookIntoClog, Idle, Question
        <3>2. PICK x \in Xids, y \in Xids : x = a.of /\ y = a.fetch
            BY <3>1
        <3>3. cached' \in [Procs -> Fetched]
            <4>1. Remember(p, y)
                BY <2>4, <3>1, <3>2 DEF LookIntoClog
            <4>. QED  BY <4>1, RememberIs
        <3>4. CASE DidCommitYes(p, x, y) \/ DidCommitNo(p, x, y)
            <4>1. PICK v \in BOOLEAN, h \in {"none", Committed, Aborted} :
                    /\ ask' = [ask EXCEPT ![p] = Answer(x, v)]
                    /\ hint' = [hint EXCEPT ![x] = h]
                <5>1. hint' = hint => hint' = [hint EXCEPT ![x] = hint[x]]
                    BY <1>0
                <5>. QED  BY <1>0, <3>4, <5>1 DEF DidCommitYes, DidCommitNo, XidInMVCCSnapshot
            <4>2. Answer(x, v) \in Question
                BY DEF Answer, Question
            <4>. QED  BY <1>0, <2>1, <3>3, <4>1, <4>2 DEF LogTypes
        <3>5. CASE DidCommitAskParent(p, x, y)
            <4>1. parent[y] # Invalid
                  /\ ask' = [ask EXCEPT ![p].fetch = parent[y]] /\ hint' = hint
                BY <3>5 DEF DidCommitAskParent, AskParent
            <4>2. parent[y] \in Xids
                BY <4>1 DEF ForestInv, LinksGoBack
            <4>3. PICK b \in Question : b = [a EXCEPT !.fetch = parent[y]]
                BY <4>2 DEF Question
            <4>4. ask' = [ask EXCEPT ![p] = b]
                BY <3>1, <4>1, <4>3
            <4>. QED  BY <1>0, <2>1, <3>3, <4>1, <4>4 DEF LogTypes
        <3>. QED  BY <2>4, <3>1, <3>2, <3>4, <3>5 DEF LookIntoClog
    <2>5. CASE GoOn(p)
        BY <1>0, <2>1, <2>5 DEF GoOn, LogTypes
    <2>. QED  BY <1>8, <2>2, <2>3, <2>4, <2>5 DEF Asks
<1>. QED  BY <1>1, <1>2, <1>3, <1>4, <1>5, <1>6, <1>7, <1>8, NextSplits

\* What TransactionIdSetTreeStatus has still to write for a commit: before it
\* has written the page of the top transaction, and after.
Rest(p) == {x \in children[p] : Page(x) # Page(xid[p])}

BeforeCommit(p, left) ==
    /\ todo[p] = Writes(left, SubCommitted)
                    \o (Writes(Tree(p) \ Rest(p), Committed) \o Writes(Rest(p), Committed))
    /\ \A x \in Tree(p) :
        clog[x] = IF x \in Rest(p) \ left THEN SubCommitted ELSE InProgress

AfterCommit(p, left) ==
    /\ todo[p] = Writes(left, Committed)
    /\ \A x \in Tree(p) : clog[x] = IF x \in left THEN SubCommitted ELSE Committed

Aborting(p, now, later) ==
    /\ todo[p] = Writes(now, Aborted) \o Writes(later, Aborted)
    /\ now \intersect later = {}
    /\ \A x \in ending[p] : clog[x] = IF x \in now \union later THEN InProgress ELSE Aborted

Logged(p) ==
    /\ pc[p] = "run" => todo[p] = <<>>
    /\ pc[p] = "commit" =>
        \E left \in SUBSET Rest(p) : BeforeCommit(p, left) \/ AfterCommit(p, left)
    /\ pc[p] \in {"abort", "subabort"} =>
        \E now, later \in SUBSET ending[p] : Aborting(p, now, later)
    /\ \A x \in Own(p) \ ending[p] : clog[x] = InProgress

\* Every xid is to come, running or over.
Accounted ==
    \A x \in Xids :
        /\ x >= nextXid => clog[x] = InProgress
        /\ x < nextXid => x \in done \/ clog[x] = Aborted \/ \E p \in Procs : x \in Own(p)

DoneTrees ==
    \A x \in done : clog[x] = Committed /\ (parent[x] # Invalid => parent[x] \in done)

LogInv == Accounted /\ DoneTrees /\ \A p \in Procs : Logged(p)

\* What each step does to the xids of the processes.
OthersKeep(p) == \A q \in Procs \ {p} : Own(q)' = Own(q)

LEMMA OwnSteps ==
    ASSUME TypeInt, XidOrder, LogTypes, ForestInv, NEW p \in Procs
    PROVE  /\ AssignXid(p) => Own(p)' = {nextXid} /\ OthersKeep(p)
           /\ AssignSubxid(p) => Own(p)' = Own(p) \union {nextXid} /\ OthersKeep(p)
           /\ SubTransSetParent(p) => Own(p)' = Own(p) /\ OthersKeep(p)
           /\ ProcArrayEndTransaction(p) =>
                Own(p)' = {} /\ Own(p) = ending[p] /\ OthersKeep(p)
           /\ XidCacheRemoveRunningXids(p) =>
                /\ Own(p)' = Own(p) \ ending[p] /\ ending[p] \subseteq children[p]
                /\ OthersKeep(p)
<1>. USE DEF shared, own, reading
<1>0. /\ nextXid # Invalid /\ Ordered(p) /\ EndsWhole(p) /\ Linked(p)
      /\ xid[p] \in Nat /\ children[p] \in SUBSET Nat /\ LinksGoBack
    BY DEF TypeInt, XidOrder, ForestInv, Invalid
<1>1. ASSUME AssignXid(p) PROVE Own(p)' = {nextXid} /\ OthersKeep(p)
    <2>1. /\ xid[p] = Invalid /\ xid' = [xid EXCEPT ![p] = nextXid]
          /\ UNCHANGED <<children, linking>>
        BY <1>1 DEF AssignXid
    <2>2. xid'[p] = nextXid /\ children[p] = {} /\ linking[p] = Idle
        BY <2>1, OwnIs DEF TypeInt
    <2>3. Own(p)' = {nextXid}
        BY <1>0, <2>1, <2>2 DEF Own, Tree, RunningSubs
    <2>. QED  BY <2>1, <2>3 DEF OthersKeep, Own, Tree, RunningSubs, TypeInt
<1>2. ASSUME AssignSubxid(p) PROVE Own(p)' = Own(p) \union {nextXid} /\ OthersKeep(p)
    <2>1. Free(p) /\ xid[p] # Invalid /\ UNCHANGED <<xid, children>>
        BY <1>2 DEF AssignSubxid
    <2>2. PICK u \in Tree(p) : linking' =
            [linking EXCEPT ![p] = [at |-> "link", sub |-> nextXid, under |-> u]]
        BY <1>2 DEF AssignSubxid
    <2>3. linking'[p].sub = nextXid /\ linking'[p] # Idle /\ linking[p] = Idle
        BY <2>1, <2>2 DEF Free, TypeInt, Idle
    <2>4. RunningSubs(p)' = children[p] \union {nextXid} /\ RunningSubs(p) = children[p]
        BY <2>1, <2>3 DEF RunningSubs
    <2>5. Tree(p)' = Tree(p)
        BY <2>1 DEF Tree
    <2>6. Own(p)' = Own(p) \union {nextXid}
        BY <1>0, <2>4, <2>5 DEF Own
    <2>7. \A q \in Procs \ {p} : linking'[q] = linking[q]
        BY <2>2 DEF TypeInt
    <2>. QED  BY <2>1, <2>6, <2>7 DEF OthersKeep, Own, Tree, RunningSubs
<1>3. ASSUME SubTransSetParent(p) PROVE Own(p)' = Own(p) /\ OthersKeep(p)
    <2>. DEFINE s == linking[p].sub
    <2>1. /\ linking[p] # Idle /\ children' = [children EXCEPT ![p] = @ \union {s}]
          /\ linking' = [linking EXCEPT ![p] = Idle] /\ xid' = xid
        BY <1>3 DEF SubTransSetParent
    <2>2. /\ children'[p] = children[p] \union {s} /\ linking'[p] = Idle
          /\ \A q \in Procs \ {p} : children'[q] = children[q] /\ linking'[q] = linking[q]
        BY <2>1 DEF TypeInt
    <2>3. RunningSubs(p)' = RunningSubs(p) /\ RunningSubs(p) = children[p] \union {s}
        BY <2>1, <2>2 DEF RunningSubs
    <2>4. Tree(p)' = Tree(p) \union {s}
        BY <2>1, <2>2 DEF Tree
    <2>5. Own(p)' = Own(p)
        BY <2>3, <2>4 DEF Own
    <2>. QED  BY <2>1, <2>2, <2>5 DEF OthersKeep, Own, Tree, RunningSubs
<1>4. ASSUME ProcArrayEndTransaction(p)
      PROVE  Own(p)' = {} /\ Own(p) = ending[p] /\ OthersKeep(p)
    <2>1. /\ pc[p] \in {"commit", "abort"} /\ UNCHANGED linking
          /\ xid' = [xid EXCEPT ![p] = Invalid] /\ children' = [children EXCEPT ![p] = {}]
        BY <1>4 DEF ProcArrayEndTransaction
    <2>2. linking[p] = Idle /\ xid[p] # Invalid /\ ending[p] = Tree(p)
        BY <1>0, <2>1 DEF Ordered, EndsWhole
    <2>3. xid'[p] = Invalid /\ children'[p] = {} /\ linking'[p] = Idle
        BY <2>1, <2>2 DEF TypeInt
    <2>4. Own(p)' = {}
        BY <2>3 DEF Own, Tree, RunningSubs
    <2>5. RunningSubs(p) = children[p]
        BY <2>2 DEF RunningSubs
    <2>6. Own(p) = ending[p]
        BY <2>2, <2>5, OwnIs DEF Tree
    <2>. QED  BY <2>1, <2>4, <2>6 DEF OthersKeep, Own, Tree, RunningSubs, TypeInt
<1>5. ASSUME XidCacheRemoveRunningXids(p)
      PROVE  /\ Own(p)' = Own(p) \ ending[p] /\ ending[p] \subseteq children[p]
             /\ OthersKeep(p)
    <2>1. /\ pc[p] = "subabort" /\ UNCHANGED <<xid, linking>>
          /\ children' = [children EXCEPT ![p] = @ \ ending[p]]
        BY <1>5 DEF XidCacheRemoveRunningXids
    <2>2. linking[p] = Idle /\ xid[p] # Invalid /\ ending[p] \subseteq children[p]
        BY <1>0, <2>1 DEF Ordered, EndsWhole
    <2>3. /\ xid'[p] = xid[p] /\ children'[p] = children[p] \ ending[p] /\ linking'[p] = Idle
          /\ RunningSubs(p) = children[p]
        BY <2>1, <2>2 DEF TypeInt, RunningSubs
    <2>4. xid[p] \notin ending[p]
        BY <1>0, <2>2, <2>3 DEF Ordered
    <2>5. Own(p)' = Own(p) \ ending[p]
        BY <2>2, <2>3, <2>4 DEF Own, Tree, RunningSubs
    <2>. QED  BY <2>1, <2>2, <2>5 DEF OthersKeep, Own, Tree, RunningSubs, TypeInt
<1>. QED  BY <1>1, <1>2, <1>3, <1>4, <1>5

\* A write to the commit log shortens the first of the writes to do.
WritesPage(p, xs, st, s) ==
    \E now \in SUBSET xs :
        /\ now = FirstPage(xs)
        /\ clog' = [x \in Xids |-> IF x \in now THEN st ELSE clog[x]]
        /\ todo' = [todo EXCEPT ![p] = Writes(xs \ now, st) \o s]

LEMMA PageWritten ==
    ASSUME NEW p, NEW xs \in SUBSET Nat, NEW st \in {SubCommitted, Committed, Aborted},
           NEW s \in Seq(Write), SetPageStatus(p), xs # {}, todo[p] = Writes(xs, st) \o s
    PROVE  WritesPage(p, xs, st, s)
<1>1. PICK t : t = Writes(xs, st) \o s
    OBVIOUS
<1>2. Head(t) = [xids |-> xs, status |-> st] /\ Tail(t) = s
    BY <1>1, WritesFirst, Zenon
<1>3. PICK now \in SUBSET xs : now = FirstPage(xs)
    BY DEF FirstPage
<1>4. PICK w : w = Head(t)
    OBVIOUS
<1>5. w.xids = xs /\ w.status = st
    BY <1>2, <1>4
<1>6. /\ clog' = [x \in Xids |-> IF x \in FirstPage(w.xids) THEN w.status ELSE clog[x]]
      /\ todo' = [todo EXCEPT ![p] = Writes(w.xids \ FirstPage(w.xids), w.status) \o Tail(t)]
    BY <1>1, <1>4, Zenon DEF SetPageStatus
<1>. QED  BY <1>2, <1>3, <1>5, <1>6 DEF WritesPage

LEMMA EmptyWrites == \A st : Writes({}, st) = <<>>
BY DEF Writes

LEMMA NothingToWrite ==
    ASSUME NEW xs \in SUBSET Nat, NEW st \in {SubCommitted, Committed, Aborted},
           NEW s \in Seq(Write), Writes(xs, st) \o s = <<>>
    PROVE  xs = {} /\ s = <<>>
<1>1. PICK t : t = Writes(xs, st) \o s
    OBVIOUS
<1>2. xs = {}
    BY <1>1, WritesFirst, Zenon
<1>3. Writes(xs, st) \o s = s
    <2>1. Writes(xs, st) = <<>>
        BY <1>2, EmptyWrites
    <2>. QED  BY <2>1
<1>. QED  BY <1>2, <1>3

\* The xids on one page are written together.
LEMMA OnePage ==
    ASSUME NEW xs \in SUBSET Nat, NEW x \in xs, \A y \in xs : Page(y) = Page(x)
    PROVE  FirstPage(xs) = xs
<1>1. {Page(y) : y \in xs} = {Page(x)}
    OBVIOUS
<1>2. Page(x) \in Int
    BY BoundsAssumption DEF Page
<1>3. Min({Page(x)}) = Page(x)
    BY <1>2 DEF Min
<1>. QED  BY <1>1, <1>3 DEF FirstPage

\* What a commit has to write at first, and an abort.
LEMMA CommitWrites ==
    ASSUME TypeInt, XidOrder, NEW p \in Procs, xid[p] # Invalid
    PROVE  SetTreeStatus(xid[p], children[p], Committed) =
                Writes(Rest(p), SubCommitted)
                    \o (Writes(Tree(p) \ Rest(p), Committed) \o Writes(Rest(p), Committed))
<1>1. /\ xid[p] \in Nat /\ children[p] \in SUBSET Nat /\ xid[p] \notin children[p]
    BY OwnIs DEF TypeInt, XidOrder, Ordered, RunningSubs
<1>. DEFINE first == {y \in children[p] : Page(y) = Page(xid[p])}
            a == Writes(Rest(p), SubCommitted)
            b == Writes(Tree(p) \ Rest(p), Committed)
            c == Writes(Rest(p), Committed)
<1>2. children[p] \ first = Rest(p) /\ {xid[p]} \union first = Tree(p) \ Rest(p)
      /\ Rest(p) \in SUBSET Nat /\ Tree(p) \ Rest(p) \in SUBSET Nat
    BY <1>1 DEF Rest, Tree
<1>3. SetTreeStatus(xid[p], children[p], Committed) = a \o b \o c
    BY <1>2, Zenon DEF SetTreeStatus
<1>4. a \in Seq(Write) /\ b \in Seq(Write) /\ c \in Seq(Write)
    <2>1. <<>> \in Seq(Write)
        OBVIOUS
    <2>. QED  BY <1>2, <2>1, WritesAre
<1>5. (a \o b) \o c = a \o (b \o c)
    <2>. HIDE DEF a, b, c
    <2>. QED  BY <1>4, ConcatAssociative, SMTT(30)
<1>. QED  BY <1>3, <1>5

LEMMA AbortWrites ==
    ASSUME NEW x \in Nat, NEW subs \in SUBSET Nat
    PROVE  \E now, later \in SUBSET ({x} \union subs) :
                /\ SetTreeStatus(x, subs, Aborted) = Writes(now, Aborted) \o Writes(later, Aborted)
                /\ now \intersect later = {} /\ now \union later = {x} \union subs
<1>. DEFINE first == {y \in subs : Page(y) = Page(x)}
            now == {x} \union first
            later == subs \ now
<1>1. subs \ first = later
    <2>1. x \in subs => x \in first
        OBVIOUS
    <2>. QED  BY <2>1
<1>2. SetTreeStatus(x, subs, Aborted) = <<>> \o Writes(now, Aborted) \o Writes(later, Aborted)
    BY <1>1 DEF SetTreeStatus, Aborted, Committed
<1>3. <<>> \in Seq(Write)
    OBVIOUS
<1>4. Writes(now, Aborted) \in Seq(Write)
    BY <1>3, WritesAre
<1>5. <<>> \o Writes(now, Aborted) = Writes(now, Aborted)
    BY <1>4
<1>6. /\ now \in SUBSET ({x} \union subs) /\ later \in SUBSET ({x} \union subs)
      /\ now \intersect later = {} /\ now \union later = {x} \union subs
    OBVIOUS
<1>. HIDE DEF now, later
<1>. QED  BY <1>2, <1>5, <1>6

LEMMA LogInit == Init => LogInv
<1>. SUFFICES ASSUME Init PROVE LogInv
    OBVIOUS
<1>1. \A x \in Xids : clog[x] = InProgress /\ x >= nextXid
    BY DEF Init, Xids
<1>2. Accounted
    <2>1. nextXid = 1
        BY DEF Init
    <2>. QED  BY <1>1, <2>1 DEF Accounted, Xids
<1>3. ASSUME NEW p \in Procs PROVE Logged(p)
    <2>1. pc[p] = "run" /\ todo[p] = <<>> /\ Own(p) = {}
        BY DEF Init, Own, Tree, RunningSubs
    <2>. QED  BY <2>1 DEF Logged
<1>4. DoneTrees
    BY DEF Init, DoneTrees
<1>. QED  BY <1>2, <1>3, <1>4 DEF LogInv

\* A step of another process leaves what a process writes alone.
LEMMA LoggedStays ==
    ASSUME TypeInt, XidOrder, ForestInv, NEW p \in Procs, Logged(p),
           xid'[p] = xid[p], children'[p] = children[p], pc'[p] = pc[p],
           ending'[p] = ending[p], todo'[p] = todo[p], Own(p)' = Own(p),
           \A x \in Own(p) : clog'[x] = clog[x]
    PROVE  Logged(p)'
<1>1. Tree(p)' = Tree(p) /\ Rest(p)' = Rest(p)
    BY DEF Tree, Rest
<1>2. pc[p] # "run" => Tree(p) \subseteq Own(p) /\ ending[p] \subseteq Tree(p)
    <2>1. Ordered(p)
        BY DEF XidOrder
    <2>. QED  BY <2>1, OwnIs DEF Ordered
<1>3. ASSUME pc[p] = "commit", NEW left \in SUBSET Rest(p)
      PROVE  /\ BeforeCommit(p, left) => BeforeCommit(p, left)'
             /\ AfterCommit(p, left) => AfterCommit(p, left)'
    <2>1. \A x \in Tree(p) : clog'[x] = clog[x]
        BY <1>2, <1>3
    <2>. QED  BY <1>1, <2>1 DEF BeforeCommit, AfterCommit
<1>4. ASSUME pc[p] \in {"abort", "subabort"}, NEW now, NEW later, Aborting(p, now, later)
      PROVE  Aborting(p, now, later)'
    <2>1. \A x \in ending[p] : clog'[x] = clog[x]
        BY <1>2, <1>4
    <2>. QED  BY <1>4, <2>1 DEF Aborting
<1>5. pc'[p] = "commit" =>
        \E left \in SUBSET Rest(p)' : BeforeCommit(p, left)' \/ AfterCommit(p, left)'
    BY <1>1, <1>3 DEF Logged
<1>6. pc'[p] \in {"abort", "subabort"} =>
        \E now, later \in SUBSET ending'[p] : Aborting(p, now, later)'
    BY <1>4 DEF Logged
<1>7. /\ pc'[p] = "run" => todo'[p] = <<>>
      /\ \A x \in Own(p)' \ ending'[p] : clog'[x] = InProgress
    BY DEF Logged
<1>. QED  BY <1>5, <1>6, <1>7 DEF Logged

\* What a process that ends still has to write, after one more write.
LEMMA CommitGoesOn ==
    ASSUME TypeInt, XidOrder, LogTypes, ForestInv, NEW p \in Procs, SetPageStatus(p),
           pc[p] = "commit", NEW left \in SUBSET Rest(p),
           BeforeCommit(p, left) \/ AfterCommit(p, left)
    PROVE  /\ \E some \in SUBSET Rest(p) : BeforeCommit(p, some)' \/ AfterCommit(p, some)'
           /\ \A x \in Xids \ Tree(p) : clog'[x] = clog[x]
           /\ \A q \in Procs \ {p} : todo'[q] = todo[q]
<1>1. /\ xid[p] # Invalid /\ Tree(p) \subseteq Own(p) /\ Own(p) \subseteq Xids
      /\ Tree(p) \in SUBSET Nat /\ Rest(p) \in SUBSET Nat /\ left \in SUBSET Nat
      /\ Rest(p) \subseteq Tree(p) /\ xid[p] \in Tree(p) \ Rest(p)
      /\ Tree(p) \ Rest(p) \in SUBSET Nat /\ UNCHANGED <<xid, children>>
    <2>1. xid[p] # Invalid /\ Ordered(p)
        BY DEF XidOrder, Ordered
    <2>2. Tree(p) \subseteq Own(p) /\ Own(p) \subseteq Nat /\ Own(p) \subseteq Xids
        BY <2>1, OwnIs, OwnInXids
    <2>3. xid[p] \notin children[p]
        BY <2>1, OwnIs DEF TypeInt, Ordered
    <2>. QED  BY <2>1, <2>2, <2>3 DEF Tree, Rest, SetPageStatus
<1>. DEFINE b == Writes(Tree(p) \ Rest(p), Committed)
            c == Writes(Rest(p), Committed)
<1>2. b \in Seq(Write) /\ c \in Seq(Write) /\ b \o c \in Seq(Write) /\ <<>> \in Seq(Write)
    <2>1. <<>> \in Seq(Write)
        OBVIOUS
    <2>2. c \in Seq(Write)
        BY <1>1, <2>1, WritesAre
    <2>. QED  BY <1>1, <2>1, <2>2, WritesAre
<1>3. Tree(p)' = Tree(p) /\ Rest(p)' = Rest(p) /\ b' = b /\ c' = c
    BY <1>1 DEF Tree, Rest
<1>. HIDE DEF b, c
<1>4. CASE BeforeCommit(p, left) /\ left # {}
    <2>1. todo[p] = Writes(left, SubCommitted) \o (b \o c)
        BY <1>4 DEF BeforeCommit, b, c
    <2>2. PICK now \in SUBSET left :
            /\ clog' = [x \in Xids |-> IF x \in now THEN SubCommitted ELSE clog[x]]
            /\ todo' = [todo EXCEPT ![p] = Writes(left \ now, SubCommitted) \o (b \o c)]
        <3>1. WritesPage(p, left, SubCommitted, b \o c)
            BY <1>1, <1>2, <1>4, <2>1, PageWritten
        <3>. QED  BY <3>1 DEF WritesPage
    <2>3. BeforeCommit(p, left \ now)'
        BY <1>1, <1>3, <1>4, <2>2 DEF BeforeCommit, LogTypes, b, c
    <2>. QED  BY <1>1, <2>2, <2>3 DEF LogTypes
<1>5. CASE BeforeCommit(p, left) /\ left = {}
    <2>1. todo[p] = b \o c
        <3>1. Writes(left, SubCommitted) = <<>>
            BY <1>5, EmptyWrites
        <3>2. todo[p] = Writes(left, SubCommitted) \o (b \o c)
            BY <1>5 DEF BeforeCommit, b, c
        <3>. QED  BY <1>2, <3>1, <3>2
    <2>2. FirstPage(Tree(p) \ Rest(p)) = Tree(p) \ Rest(p)
        <3>1. \A y \in Tree(p) \ Rest(p) : Page(y) = Page(xid[p])
            BY DEF Tree, Rest
        <3>. QED  BY <1>1, <3>1, OnePage
    <2>3. /\ clog' = [x \in Xids |-> IF x \in Tree(p) \ Rest(p) THEN Committed ELSE clog[x]]
          /\ todo' = [todo EXCEPT ![p] =
                Writes((Tree(p) \ Rest(p)) \ (Tree(p) \ Rest(p)), Committed) \o c]
        <3>1. Tree(p) \ Rest(p) # {} /\ todo[p] = Writes(Tree(p) \ Rest(p), Committed) \o c
            BY <1>1, <2>1 DEF b
        <3>2. WritesPage(p, Tree(p) \ Rest(p), Committed, c)
            BY <1>1, <1>2, <3>1, PageWritten
        <3>. QED  BY <2>2, <3>2 DEF WritesPage
    <2>4. todo' = [todo EXCEPT ![p] = c]
        <3>1. Writes((Tree(p) \ Rest(p)) \ (Tree(p) \ Rest(p)), Committed) = <<>>
            <4>1. (Tree(p) \ Rest(p)) \ (Tree(p) \ Rest(p)) = {}
                OBVIOUS
            <4>. QED  BY <4>1, EmptyWrites
        <3>2. <<>> \o c = c
            BY <1>2
        <3>. QED  BY <2>3, <3>1, <3>2
    <2>5. AfterCommit(p, Rest(p))'
        BY <1>1, <1>3, <1>5, <2>3, <2>4, ZenonT(60) DEF BeforeCommit, AfterCommit, LogTypes, c
    <2>. QED  BY <1>1, <1>3, <2>3, <2>4, <2>5 DEF LogTypes
<1>6. CASE AfterCommit(p, left)
    <2>1. left # {}
        <3>1. todo[p] # <<>>
            BY DEF SetPageStatus
        <3>. QED  BY <1>6, <3>1, EmptyWrites DEF AfterCommit
    <2>2. Writes(left, Committed) \in Seq(Write) /\ todo[p] = Writes(left, Committed) \o <<>>
        BY <1>1, <1>2, <1>6, WritesAre DEF AfterCommit
    <2>3. PICK now \in SUBSET left :
            /\ clog' = [x \in Xids |-> IF x \in now THEN Committed ELSE clog[x]]
            /\ todo' = [todo EXCEPT ![p] = Writes(left \ now, Committed) \o <<>>]
        <3>1. WritesPage(p, left, Committed, <<>>)
            BY <1>1, <1>2, <2>1, <2>2, PageWritten
        <3>. QED  BY <3>1 DEF WritesPage
    <2>4. Writes(left \ now, Committed) \o <<>> = Writes(left \ now, Committed)
        BY <1>1, <1>2, WritesAre
    <2>5. AfterCommit(p, left \ now)'
        BY <1>1, <1>3, <1>6, <2>3, <2>4 DEF AfterCommit, LogTypes
    <2>. QED  BY <1>1, <2>3, <2>5 DEF LogTypes
<1>. QED  BY <1>4, <1>5, <1>6

LEMMA AbortGoesOn ==
    ASSUME TypeInt, LogTypes, NEW p \in Procs, SetPageStatus(p),
           NEW now \in SUBSET ending[p], NEW later \in SUBSET ending[p],
           ending[p] \subseteq Xids, Aborting(p, now, later)
    PROVE  /\ \E n, l \in SUBSET ending[p] : Aborting(p, n, l)'
           /\ \A x \in Xids \ ending[p] : clog'[x] = clog[x]
           /\ \A x \in Xids : clog[x] = Aborted => clog'[x] = Aborted
           /\ \A q \in Procs \ {p} : todo'[q] = todo[q]
<1>. DEFINE c == Writes(later, Aborted)
<1>1. now \in SUBSET Nat /\ later \in SUBSET Nat /\ <<>> \in Seq(Write)
    BY DEF TypeInt
<1>2. c \in Seq(Write) /\ todo[p] = Writes(now, Aborted) \o c /\ ending'[p] = ending[p]
    BY <1>1, WritesAre DEF Aborting, SetPageStatus
<1>. HIDE DEF c
<1>3. CASE now # {}
    <2>1. WritesPage(p, now, Aborted, c)
        BY <1>1, <1>2, <1>3, PageWritten
    <2>2. PICK some \in SUBSET now :
            /\ clog' = [x \in Xids |-> IF x \in some THEN Aborted ELSE clog[x]]
            /\ todo' = [todo EXCEPT ![p] = Writes(now \ some, Aborted) \o c]
        BY <2>1 DEF WritesPage
    <2>3. Aborting(p, now \ some, later)'
        BY <1>2, <2>2 DEF Aborting, LogTypes, c
    <2>. QED  BY <2>2, <2>3 DEF LogTypes
<1>4. CASE now = {}
    <2>1. todo[p] = c
        <3>1. Writes(now, Aborted) = <<>>
            BY <1>4, EmptyWrites
        <3>. QED  BY <1>2, <3>1
    <2>2. later # {} /\ todo[p] = Writes(later, Aborted) \o <<>>
        <3>1. c # <<>>
            BY <2>1 DEF SetPageStatus
        <3>2. later # {}
            BY <3>1, EmptyWrites DEF c
        <3>3. c \o <<>> = c
            BY <1>2
        <3>. QED  BY <2>1, <3>2, <3>3 DEF c
    <2>3. WritesPage(p, later, Aborted, <<>>)
        BY <1>1, <2>2, PageWritten
    <2>4. PICK some \in SUBSET later :
            /\ clog' = [x \in Xids |-> IF x \in some THEN Aborted ELSE clog[x]]
            /\ todo' = [todo EXCEPT ![p] = Writes(later \ some, Aborted) \o <<>>]
        BY <2>3 DEF WritesPage
    <2>5. Writes({}, Aborted) = <<>>
        BY EmptyWrites
    <2>6. Aborting(p, later \ some, {})'
        BY <1>2, <1>4, <2>4, <2>5 DEF Aborting, LogTypes
    <2>. QED  BY <2>4, <2>6 DEF LogTypes
<1>. QED  BY <1>3, <1>4

\* A commit and an abort write to what ends, and to what is not aborted.
LEMMA LogWritten ==
    ASSUME TypeInt, XidOrder, LogTypes, ForestInv, NEW p \in Procs, SetPageStatus(p), Logged(p)
    PROVE  /\ Logged(p)' /\ pc[p] # "run" /\ ending[p] \subseteq Own(p)
           /\ \A x \in Xids \ ending[p] : clog'[x] = clog[x]
           /\ \A q \in Procs \ {p} : todo'[q] = todo[q]
           /\ \A x \in Xids : clog[x] \in {Committed, Aborted} => clog'[x] = clog[x]
<1>1. /\ pc[p] # "run" /\ Ordered(p) /\ EndsWhole(p)
      /\ pc[p] \in {"commit", "abort", "subabort"}
    BY DEF SetPageStatus, Logged, XidOrder, ForestInv, TypeInt
<1>2. /\ ending[p] \subseteq Own(p) /\ ending[p] \subseteq Xids
      /\ UNCHANGED <<nextXid, xid, children, linking, pc, ending>>
    <2>1. ending[p] \subseteq Own(p) /\ Own(p) \subseteq Xids
        BY <1>1, OwnIs, OwnInXids DEF Ordered
    <2>. QED  BY <2>1 DEF SetPageStatus
<1>3. CASE pc[p] = "commit"
    <2>1. ending[p] = Tree(p)
        BY <1>1, <1>3 DEF EndsWhole
    <2>2. PICK left \in SUBSET Rest(p) : BeforeCommit(p, left) \/ AfterCommit(p, left)
        BY <1>3 DEF Logged
    <2>3. /\ \E some \in SUBSET Rest(p) : BeforeCommit(p, some)' \/ AfterCommit(p, some)'
          /\ \A x \in Xids \ Tree(p) : clog'[x] = clog[x]
          /\ \A q \in Procs \ {p} : todo'[q] = todo[q]
        BY <1>3, <2>2, CommitGoesOn
    <2>4. Rest(p)' = Rest(p) /\ Own(p)' = Own(p)
        BY <1>2 DEF Rest, Own, Tree, RunningSubs
    <2>5. Logged(p)'
        <3>1. \A x \in Own(p) \ ending[p] : clog'[x] = InProgress
            <4>1. Own(p) \subseteq Xids
                BY OwnInXids
            <4>. QED  BY <2>1, <2>3, <4>1 DEF Logged
        <3>. QED  BY <1>2, <1>3, <2>3, <2>4, <3>1 DEF Logged
    <2>6. \A x \in ending[p] : clog[x] # Aborted
        <3>1. Aborted # InProgress /\ Aborted # SubCommitted /\ Aborted # Committed
            BY DEF InProgress, SubCommitted, Committed, Aborted
        <3>. QED  BY <2>1, <2>2, <3>1 DEF BeforeCommit, AfterCommit
    <2>7. \A x \in ending[p] : clog[x] = Committed => clog'[x] = Committed
        <3>1. InProgress # Committed /\ SubCommitted # Committed
            BY DEF InProgress, SubCommitted, Committed
        <3>2. CASE BeforeCommit(p, left)
            BY <2>1, <3>1, <3>2 DEF BeforeCommit
        <3>3. CASE AfterCommit(p, left)
            <4>1. todo[p] # <<>> /\ todo[p] = Writes(left, Committed)
                BY <3>3 DEF SetPageStatus, AfterCommit
            <4>2. todo[p] = <<[xids |-> left, status |-> Committed]>>
                BY <4>1 DEF Writes
            <4>3. Head(todo[p]).status = Committed
                BY <4>2
            <4>. QED  BY <1>2, <4>3 DEF SetPageStatus
        <3>. QED  BY <2>2, <3>2, <3>3
    <2>. QED  BY <1>1, <1>2, <2>1, <2>3, <2>5, <2>6, <2>7
<1>4. CASE pc[p] \in {"abort", "subabort"}
    <2>1. PICK now, later \in SUBSET ending[p] : Aborting(p, now, later)
        BY <1>4 DEF Logged
    <2>2. /\ \E n, l \in SUBSET ending[p] : Aborting(p, n, l)'
          /\ \A x \in Xids \ ending[p] : clog'[x] = clog[x]
          /\ \A x \in Xids : clog[x] = Aborted => clog'[x] = Aborted
          /\ \A q \in Procs \ {p} : todo'[q] = todo[q]
        BY <1>2, <2>1, AbortGoesOn
    <2>3. Own(p)' = Own(p)
        BY <1>2 DEF Own, Tree, RunningSubs
    <2>4. Logged(p)'
        <3>1. \A x \in Own(p) \ ending[p] : clog'[x] = InProgress
            <4>1. Own(p) \subseteq Xids
                BY OwnInXids
            <4>. QED  BY <2>2, <4>1 DEF Logged
        <3>. QED  BY <1>2, <1>4, <2>2, <2>3, <3>1 DEF Logged
    <2>5. \A x \in ending[p] : clog[x] # Committed
        <3>1. Committed # InProgress /\ Committed # Aborted
            BY DEF InProgress, Committed, Aborted
        <3>. QED  BY <2>1, <3>1 DEF Aborting
    <2>. QED  BY <1>1, <1>2, <2>2, <2>4, <2>5
<1>. QED  BY <1>1, <1>3, <1>4

\* Nothing is left to write.
LEMMA CommitDone ==
    ASSUME TypeInt, XidOrder, NEW p \in Procs, Logged(p), pc[p] = "commit", todo[p] = <<>>
    PROVE  \A x \in Tree(p) : clog[x] = Committed
<1>1. PICK left \in SUBSET Rest(p) : BeforeCommit(p, left) \/ AfterCommit(p, left)
    BY DEF Logged
<1>2. /\ Rest(p) \in SUBSET Nat /\ Tree(p) \ Rest(p) \in SUBSET Nat /\ <<>> \in Seq(Write)
      /\ xid[p] \in Tree(p) \ Rest(p)
    <2>1. Ordered(p) /\ xid[p] \in Nat /\ children[p] \in SUBSET Nat
        BY DEF TypeInt, XidOrder
    <2>2. xid[p] \notin children[p]
        BY <2>1, OwnIs DEF Ordered
    <2>. QED  BY <2>1, <2>2 DEF Tree, Rest
<1>. DEFINE b == Writes(Tree(p) \ Rest(p), Committed)
            c == Writes(Rest(p), Committed)
<1>3. b \in Seq(Write) /\ c \in Seq(Write) /\ b \o c \in Seq(Write)
    <2>1. c \in Seq(Write)
        BY <1>2, WritesAre
    <2>. QED  BY <1>2, <2>1, WritesAre
<1>4. ASSUME BeforeCommit(p, left) PROVE FALSE
    <2>1. Writes(left, SubCommitted) \o (b \o c) = <<>>
        BY <1>4 DEF BeforeCommit
    <2>2. b \o c = <<>>
        <3>. HIDE DEF b, c
        <3>. QED  BY <1>2, <1>3, <2>1, NothingToWrite
    <2>. QED  BY <1>2, <1>3, <2>2, NothingToWrite
<1>5. AfterCommit(p, left)
    BY <1>1, <1>4
<1>6. left = {}
    <2>1. left \in SUBSET Nat /\ <<>> \in Seq(Write)
        BY <1>2
    <2>2. Writes(left, Committed) \in Seq(Write)
        BY <2>1, WritesAre
    <2>3. Writes(left, Committed) \o <<>> = <<>>
        BY <1>5, <2>2 DEF AfterCommit
    <2>. QED  BY <2>1, <2>3, NothingToWrite
<1>. QED  BY <1>5, <1>6 DEF AfterCommit

LEMMA AbortDone ==
    ASSUME TypeInt, NEW p \in Procs, Logged(p), pc[p] \in {"abort", "subabort"}, todo[p] = <<>>
    PROVE  \A x \in ending[p] : clog[x] = Aborted
<1>1. PICK now, later \in SUBSET ending[p] : Aborting(p, now, later)
    BY DEF Logged
<1>. DEFINE c == Writes(later, Aborted)
<1>2. now \in SUBSET Nat /\ later \in SUBSET Nat /\ <<>> \in Seq(Write)
    BY DEF TypeInt
<1>3. c \in Seq(Write) /\ Writes(now, Aborted) \o c = <<>>
    BY <1>1, <1>2, WritesAre DEF Aborting
<1>4. now = {} /\ c = <<>>
    <2>. HIDE DEF c
    <2>. QED  BY <1>2, <1>3, NothingToWrite
<1>5. later = {}
    <2>1. c \o <<>> = <<>>
        BY <1>4
    <2>. QED  BY <1>2, <2>1, NothingToWrite
<1>. QED  BY <1>1, <1>4, <1>5 DEF Aborting

LEMMA LogStep ==
    TypeInt /\ TypeInt' /\ XidOrder /\ XidOrder' /\ LogTypes /\ LogTypes' /\ ForestInv
        /\ ForestInv' /\ LogInv /\ [Next]_vars => LogInv'
<1>. SUFFICES ASSUME TypeInt, TypeInt', XidOrder, XidOrder', LogTypes, LogTypes', ForestInv,
                     ForestInv', LogInv, [Next]_vars
              PROVE  LogInv'
    OBVIOUS
<1>. USE DEF shared, own, reading
<1>0. /\ nextXid \in Nat /\ nextXid' \in Nat /\ MaxXid \in Nat /\ Xids \subseteq Nat
      /\ Accounted /\ DoneTrees /\ DoneBefore /\ LinksGoBack
      /\ \A p \in Procs : Logged(p) /\ Linked(p) /\ EndsWhole(p) /\ Apart(p) /\ Ordered(p)
      /\ \A p \in Procs : Own(p) \subseteq Xids
    BY BoundsAssumption, OwnInXids DEF TypeInt, XidOrder, ForestInv, LogInv, Xids
<1>1. ASSUME NEW p \in Procs, AssignXid(p) PROVE LogInv'
    <2>1. /\ Free(p) /\ nextXid <= MaxXid /\ xid' = [xid EXCEPT ![p] = nextXid]
          /\ nextXid' = nextXid + 1
          /\ UNCHANGED <<clog, parent, done, children, linking, pc, ending, todo>>
        BY <1>1 DEF AssignXid
    <2>2. Own(p)' = {nextXid} /\ OthersKeep(p)
        BY <1>1, OwnSteps
    <2>3. nextXid \in Xids /\ clog[nextXid] = InProgress /\ \A q \in Procs : nextXid \notin Own(q)
        BY <1>0, <2>1, NewIsFresh DEF Accounted
    <2>4. Logged(p)'
        BY <1>0, <2>1, <2>2, <2>3 DEF Logged, Free
    <2>5. ASSUME NEW q \in Procs, q # p PROVE Logged(q)'
        <3>1. Own(q)' = Own(q) /\ xid'[q] = xid[q]
            BY <2>1, <2>2, <2>5 DEF OthersKeep
        <3>. QED  BY <1>0, <2>1, <3>1, LoggedStays
    <2>6. Accounted'
        <3>1. Own(p) = {}
            BY <2>1, <1>1, OwnIs DEF AssignXid
        <3>. QED  BY <1>0, <2>1, <2>2, <2>3, <3>1 DEF Accounted, OthersKeep
    <2>7. DoneTrees'
        BY <1>0, <2>1 DEF DoneTrees
    <2>. QED  BY <2>4, <2>5, <2>6, <2>7 DEF LogInv
<1>2. ASSUME NEW p \in Procs, AssignSubxid(p) PROVE LogInv'
    <2>1. /\ Free(p) /\ nextXid <= MaxXid /\ nextXid' = nextXid + 1
          /\ UNCHANGED <<xid, clog, parent, done, children, pc, ending, todo>>
        BY <1>2 DEF AssignSubxid
    <2>2. Own(p)' = Own(p) \union {nextXid} /\ OthersKeep(p)
        BY <1>2, OwnSteps
    <2>3. nextXid \in Xids /\ clog[nextXid] = InProgress
        BY <1>0, <2>1, NewIsFresh DEF Accounted
    <2>4. Logged(p)'
        BY <1>0, <2>1, <2>2, <2>3 DEF Logged, Free
    <2>5. ASSUME NEW q \in Procs, q # p PROVE Logged(q)'
        <3>1. Own(q)' = Own(q)
            BY <2>2, <2>5 DEF OthersKeep
        <3>. QED  BY <1>0, <2>1, <3>1, LoggedStays
    <2>6. Accounted'
        BY <1>0, <2>1, <2>2, <2>3 DEF Accounted, OthersKeep
    <2>7. DoneTrees'
        BY <1>0, <2>1 DEF DoneTrees
    <2>. QED  BY <2>4, <2>5, <2>6, <2>7 DEF LogInv
<1>3. ASSUME NEW p \in Procs, SubTransSetParent(p) PROVE LogInv'
    <2>1. /\ linking[p] # Idle
          /\ parent' = [parent EXCEPT ![linking[p].sub] = linking[p].under]
          /\ children' = [children EXCEPT ![p] = @ \union {linking[p].sub}]
          /\ UNCHANGED <<nextXid, xid, clog, done, pc, ending, todo>>
        BY <1>3 DEF SubTransSetParent
    <2>2. \A q \in Procs : Own(q)' = Own(q)
        BY <1>3, OwnSteps DEF OthersKeep
    <2>3. linking[p].sub \in Own(p) /\ pc[p] = "run"
        <3>1. linking[p].sub \in RunningSubs(p) /\ pc[p] = "run"
            BY <1>0, <2>1 DEF RunningSubs, Ordered
        <3>. QED  BY <1>0, <3>1, OwnIs DEF Ordered
    <2>4. Logged(p)'
        BY <1>0, <2>1, <2>2, <2>3 DEF Logged
    <2>5. ASSUME NEW q \in Procs, q # p PROVE Logged(q)'
        <3>1. children'[q] = children[q]
            BY <2>1, <2>5 DEF TypeInt
        <3>. QED  BY <1>0, <2>1, <2>2, <3>1, LoggedStays
    <2>6. Accounted'
        BY <1>0, <2>1, <2>2 DEF Accounted
    <2>7. DoneTrees'
        <3>1. linking[p].sub \notin done
            BY <1>0, <2>3 DEF Apart
        <3>. QED  BY <1>0, <2>1, <3>1 DEF DoneTrees, LogTypes
    <2>. QED  BY <2>4, <2>5, <2>6, <2>7 DEF LogInv
<1>4. ASSUME NEW p \in Procs, Ends(p) PROVE LogInv'
    <2>1. PICK x \in Tree(p), subs \in SUBSET children[p],
               what \in {"subabort", "commit", "abort"},
               status \in {Committed, Aborted} :
                   /\ End(p, x, subs, what, status)
                   /\ what # "subabort" => x = xid[p] /\ subs = children[p] /\ x # Invalid
                   /\ what = "commit" <=> status = Committed
        BY <1>4, EndIs DEF Ends
    <2>2. /\ UNCHANGED <<nextXid, xid, clog, parent, done, children, linking>>
          /\ pc' = [pc EXCEPT ![p] = what] /\ ending' = [ending EXCEPT ![p] = {x} \union subs]
          /\ todo' = [todo EXCEPT ![p] = SetTreeStatus(x, subs, status)]
        BY <2>1 DEF End
    <2>3. pc[p] = "run" /\ ending[p] = {} /\ \A y \in Own(p) : clog[y] = InProgress
        <3>1. Free(p)
            BY <1>4, EndIs DEF Ends
        <3>. QED  BY <1>0, <3>1 DEF Free, Ordered, Logged
    <2>4. \A q \in Procs : Own(q)' = Own(q) /\ Tree(q)' = Tree(q) /\ Rest(q)' = Rest(q)
        BY <2>2 DEF Own, Tree, Rest, RunningSubs
    <2>5. /\ pc'[p] = what /\ ending'[p] = {x} \union subs
          /\ todo'[p] = SetTreeStatus(x, subs, status)
        BY <2>2 DEF TypeInt, LogTypes
    <2>6. Tree(p) \subseteq Own(p) /\ Tree(p) \in SUBSET Nat /\ xid[p] # Invalid
        <3>1. Ordered(p)' /\ xid'[p] = xid[p]
            BY <2>2 DEF XidOrder
        <3>2. what # "run"
            OBVIOUS
        <3>. QED  BY <2>5, <3>1, <3>2, OwnIs DEF Ordered
    <2>7. Logged(p)'
        <3>1. CASE what = "commit"
            <4>1. BeforeCommit(p, Rest(p))'
                BY <2>1, <2>2, <2>3, <2>4, <2>5, <2>6, <3>1, CommitWrites DEF BeforeCommit
            <4>2. Tree(p) \ {x} = subs \ {x} /\ ending'[p] = Tree(p)
                BY <2>1, <2>5, <3>1 DEF Tree
            <4>. QED  BY <2>2, <2>3, <2>4, <2>5, <3>1, <4>1, <4>2 DEF Logged
        <3>2. CASE what # "commit"
            <4>1. x \in Nat /\ subs \in SUBSET Nat /\ status = Aborted
                BY <2>1, <2>6, <3>2 DEF Tree
            <4>2. PICK now, later \in SUBSET ({x} \union subs) :
                    /\ SetTreeStatus(x, subs, Aborted)
                            = Writes(now, Aborted) \o Writes(later, Aborted)
                    /\ now \intersect later = {} /\ now \union later = {x} \union subs
                BY <4>1, AbortWrites
            <4>3. {x} \union subs \subseteq Own(p)
                BY <2>6 DEF Tree
            <4>4. Aborting(p, now, later)'
                BY <2>2, <2>3, <2>5, <4>1, <4>2, <4>3 DEF Aborting
            <4>. QED  BY <2>1, <2>2, <2>3, <2>4, <2>5, <3>2, <4>4 DEF Logged
        <3>. QED  BY <3>1, <3>2
    <2>8. ASSUME NEW q \in Procs, q # p PROVE Logged(q)'
        <3>1. pc'[q] = pc[q] /\ ending'[q] = ending[q] /\ todo'[q] = todo[q]
            BY <2>2, <2>8
        <3>. QED  BY <1>0, <2>2, <2>4, <3>1, LoggedStays
    <2>9. Accounted' /\ DoneTrees'
        BY <1>0, <2>2, <2>4 DEF Accounted, DoneTrees
    <2>. QED  BY <2>7, <2>8, <2>9 DEF LogInv
<1>5. ASSUME NEW p \in Procs, SetPageStatus(p) PROVE LogInv'
    <2>1. /\ UNCHANGED <<nextXid, xid, parent, done, children, linking, pc, ending>>
          /\ \A q \in Procs : Own(q)' = Own(q)
        BY <1>5 DEF SetPageStatus, Own, Tree, RunningSubs
    <2>2. /\ Logged(p)' /\ ending[p] \subseteq Own(p)
          /\ \A x \in Xids \ ending[p] : clog'[x] = clog[x]
          /\ \A q \in Procs \ {p} : todo'[q] = todo[q]
          /\ \A x \in Xids : clog[x] = Aborted => clog'[x] = Aborted
        BY <1>0, <1>5, LogWritten
    <2>3. ASSUME NEW q \in Procs, q # p PROVE Logged(q)'
        <3>1. \A x \in Own(q) : clog'[x] = clog[x]
            BY <1>0, <2>2, <2>3 DEF Apart
        <3>. QED  BY <1>0, <2>1, <2>2, <2>3, <3>1, LoggedStays
    <2>4. Accounted'
        <3>1. ASSUME NEW x \in Xids, x >= nextXid PROVE clog'[x] = InProgress
            <4>1. x \notin Own(p)
                BY <1>0, <3>1, OwnIs
            <4>. QED  BY <1>0, <2>2, <3>1, <4>1 DEF Accounted
        <3>. QED  BY <1>0, <2>1, <2>2, <3>1 DEF Accounted
    <2>5. DoneTrees'
        <3>1. \A x \in done : x \notin ending[p] /\ x \in Xids
            <4>1. \A x \in done : x \in Nat /\ x # Invalid /\ x < nextXid
                BY <1>0 DEF DoneBefore, XidOrder, TypeInt
            <4>. QED  BY <1>0, <2>2, <4>1 DEF Apart, LogTypes, Xids, Invalid
        <3>. QED  BY <1>0, <2>1, <2>2, <3>1 DEF DoneTrees
    <2>. QED  BY <2>2, <2>3, <2>4, <2>5 DEF LogInv
<1>6. ASSUME NEW p \in Procs, ProcArrayEndTransaction(p) PROVE LogInv'
    <2>1. /\ pc[p] \in {"commit", "abort"} /\ todo[p] = <<>>
          /\ pc' = [pc EXCEPT ![p] = "run"] /\ ending' = [ending EXCEPT ![p] = {}]
          /\ xid' = [xid EXCEPT ![p] = Invalid] /\ children' = [children EXCEPT ![p] = {}]
          /\ done' = (IF pc[p] = "commit" THEN done \union ending[p] ELSE done)
          /\ UNCHANGED <<nextXid, clog, parent, linking, todo>>
        BY <1>6 DEF ProcArrayEndTransaction, Ended
    <2>2. Own(p)' = {} /\ Own(p) = ending[p] /\ OthersKeep(p)
        BY <1>6, OwnSteps
    <2>3. ending[p] = Tree(p) /\ pc'[p] = "run" /\ Linked(p) /\ xid[p] # Invalid
        BY <1>0, <2>1 DEF EndsWhole, TypeInt, Ordered
    <2>4. pc[p] = "commit" => \A x \in ending[p] :
            clog[x] = Committed /\ (parent[x] # Invalid => parent[x] \in ending[p])
        BY <1>0, <2>1, <2>3, CommitDone DEF Linked, Tree
    <2>5. pc[p] = "abort" => \A x \in ending[p] : clog[x] = Aborted
        BY <1>0, <2>1, AbortDone
    <2>6. Logged(p)'
        BY <2>1, <2>2, <2>3 DEF Logged
    <2>7. ASSUME NEW q \in Procs, q # p PROVE Logged(q)'
        <3>1. /\ Own(q)' = Own(q) /\ xid'[q] = xid[q] /\ children'[q] = children[q]
              /\ pc'[q] = pc[q] /\ ending'[q] = ending[q]
            BY <2>1, <2>2, <2>7 DEF OthersKeep
        <3>. QED  BY <1>0, <2>1, <3>1, LoggedStays
    <2>8. Accounted'
        <3>1. \A x \in ending[p] : x \in done' \/ clog[x] = Aborted
            BY <2>1, <2>5
        <3>2. done \subseteq done'
            BY <2>1
        <3>. QED  BY <1>0, <2>1, <2>2, <3>1, <3>2 DEF Accounted, OthersKeep
    <2>9. DoneTrees'
        BY <1>0, <2>1, <2>4 DEF DoneTrees
    <2>. QED  BY <2>6, <2>7, <2>8, <2>9 DEF LogInv
<1>7. ASSUME NEW p \in Procs, XidCacheRemoveRunningXids(p) PROVE LogInv'
    <2>1. /\ pc[p] = "subabort" /\ todo[p] = <<>>
          /\ pc' = [pc EXCEPT ![p] = "run"] /\ ending' = [ending EXCEPT ![p] = {}]
          /\ children' = [children EXCEPT ![p] = @ \ ending[p]]
          /\ UNCHANGED <<nextXid, xid, clog, parent, done, linking, todo>>
        BY <1>7 DEF XidCacheRemoveRunningXids, Ended
    <2>2. Own(p)' = Own(p) \ ending[p] /\ OthersKeep(p)
        BY <1>7, OwnSteps
    <2>3. \A x \in ending[p] : clog[x] = Aborted
        BY <1>0, <2>1, AbortDone
    <2>4. pc'[p] = "run"
        BY <2>1 DEF TypeInt
    <2>5. Logged(p)'
        BY <1>0, <2>1, <2>2, <2>4 DEF Logged
    <2>6. ASSUME NEW q \in Procs, q # p PROVE Logged(q)'
        <3>1. /\ Own(q)' = Own(q) /\ children'[q] = children[q]
              /\ pc'[q] = pc[q] /\ ending'[q] = ending[q]
            BY <2>1, <2>2, <2>6 DEF OthersKeep
        <3>. QED  BY <1>0, <2>1, <3>1, LoggedStays
    <2>7. Accounted'
        BY <1>0, <2>1, <2>2, <2>3 DEF Accounted, OthersKeep
    <2>8. DoneTrees'
        BY <1>0, <2>1 DEF DoneTrees
    <2>. QED  BY <2>5, <2>6, <2>7, <2>8 DEF LogInv
<1>8. ASSUME UNCHANGED <<shared, own>> PROVE LogInv'
    <2>1. ASSUME NEW q \in Procs PROVE Logged(q)' /\ Own(q)' = Own(q)
        <3>1. Own(q)' = Own(q)
            BY <1>8 DEF Own, Tree, RunningSubs
        <3>. QED  BY <1>0, <1>8, <3>1, LoggedStays
    <2>. QED  BY <1>0, <1>8, <2>1 DEF LogInv, Accounted, DoneTrees
<1>9. ASSUME NEW p \in Procs, ReadsArray(p) \/ Asks(p) PROVE LogInv'
    BY <1>8, <1>9, ReadsArrayKeeps, AsksKeeps
<1>10. CASE UNCHANGED vars
    BY <1>8, <1>10 DEF vars
<1>. QED  BY <1>1, <1>2, <1>3, <1>4, <1>5, <1>6, <1>7, <1>9, <1>10, NextSplits

ShownOf(shown) ==
    shown = [x \in Xids |-> \/ clog[x] = Committed
                            \/ clog[x] = SubCommitted /\ parent[x] # Invalid /\ shown[parent[x]]]

LEMMA ShownIs ==
    ASSUME Recursions
    PROVE  \A x \in Xids :
            /\ ShownCommitted[x] \in BOOLEAN
            /\ ShownCommitted[x] <=>
                \/ clog[x] = Committed
                \/ clog[x] = SubCommitted /\ parent[x] # Invalid /\ ShownCommitted[parent[x]]
<1>. DEFINE A == {x \in Xids : clog[x] = Committed}
            B == {x \in Xids : clog[x] = SubCommitted}
<1>1. PICK g : DecidedBy(g, A, B)
    BY DEF Recursions
<1>2. ShownOf(g)
    <2>1. g = [x \in Xids |-> x \in A \/ (x \in B /\ parent[x] # Invalid /\ g[parent[x]])]
        BY <1>1, Zenon DEF DecidedBy
    <2>2. \A x \in Xids : (x \in A \/ (x \in B /\ parent[x] # Invalid /\ g[parent[x]])) =
                (\/ clog[x] = Committed
                 \/ clog[x] = SubCommitted /\ parent[x] # Invalid /\ g[parent[x]])
        OBVIOUS
    <2>. HIDE DEF A, B
    <2>. QED  BY <2>1, <2>2 DEF ShownOf
<1>3. ShownOf(ShownCommitted)
    BY <1>2, Zenon DEF ShownOf, ShownCommitted
<1>4. ASSUME NEW x \in Xids
      PROVE  ShownCommitted[x] =
                (\/ clog[x] = Committed
                 \/ clog[x] = SubCommitted /\ parent[x] # Invalid /\ ShownCommitted[parent[x]])
    BY <1>3, Zenon DEF ShownOf
<1>. QED  BY <1>4, Zenon

LEMMA CommitIsWhole ==
    ASSUME TypeInt, XidOrder, LogTypes, ForestInv, LogInv PROVE TreeCommitsAtOnce
<1>. SUFFICES ASSUME NEW p \in Procs, pc[p] = "commit"
              PROVE  \A x, y \in ending[p] : ShownCommitted[x] = ShownCommitted[y]
    BY DEF TreeCommitsAtOnce
<1>1. /\ ending[p] = Tree(p) /\ Linked(p) /\ Logged(p) /\ LinksGoBack /\ Recursions
      /\ Tree(p) \subseteq Own(p) /\ Own(p) \subseteq Xids /\ Xids \subseteq Nat
    <2>1. Ordered(p) /\ EndsWhole(p) /\ MaxXid \in Nat
        BY BoundsAssumption DEF XidOrder, ForestInv
    <2>. QED  BY <2>1, OwnIs, OwnInXids DEF ForestInv, LogInv, Ordered, EndsWhole, Xids
<1>2. ASSUME NEW x \in Rest(p)
      PROVE  x \in Xids /\ parent[x] \in Tree(p) /\ parent[x] # Invalid /\ parent[x] < x
    <2>1. x \in children[p] /\ x \in Xids /\ parent[x] \in Tree(p)
        BY <1>1 DEF Rest, Tree, Linked
    <2>2. parent[x] # Invalid
        BY <1>1, <2>1, OwnIs
    <2>. QED  BY <1>1, <2>1, <2>2 DEF LinksGoBack
<1>3. PICK left \in SUBSET Rest(p) : BeforeCommit(p, left) \/ AfterCommit(p, left)
    BY <1>1 DEF Logged
<1>4. InProgress # Committed /\ InProgress # SubCommitted /\ SubCommitted # Committed
    BY DEF InProgress, Committed, SubCommitted
<1>5. CASE BeforeCommit(p, left)
    <2>. DEFINE T == {x \in Tree(p) : ShownCommitted[x]}
    <2>1. ASSUME T # {} PROVE FALSE
        <3>1. PICK x \in T : \A y \in T : x <= y
            <4>1. T \in SUBSET Nat
                BY <1>1
            <4>. HIDE DEF T
            <4>. QED  BY <2>1, <4>1, MinIsLeast
        <3>2. clog[x] # Committed
            BY <1>4, <1>5 DEF BeforeCommit
        <3>3. clog[x] = SubCommitted /\ ShownCommitted[parent[x]]
            BY <1>1, <3>1, <3>2, ShownIs
        <3>4. x \in Rest(p)
            BY <1>4, <1>5, <3>3 DEF BeforeCommit
        <3>5. parent[x] \in T /\ parent[x] < x /\ parent[x] \in Nat /\ x \in Nat
            BY <1>1, <1>2, <3>3, <3>4
        <3>. QED  BY <3>1, <3>5
    <2>2. \A x \in Tree(p) : ~ShownCommitted[x] /\ ShownCommitted[x] \in BOOLEAN
        BY <1>1, <2>1, ShownIs
    <2>. QED  BY <1>1, <2>2
<1>6. CASE AfterCommit(p, left)
    <2>. DEFINE T == {x \in Tree(p) : ~ShownCommitted[x]}
    <2>1. ASSUME T # {} PROVE FALSE
        <3>1. PICK x \in T : \A y \in T : x <= y
            <4>1. T \in SUBSET Nat
                BY <1>1
            <4>. HIDE DEF T
            <4>. QED  BY <2>1, <4>1, MinIsLeast
        <3>2. clog[x] # Committed
            BY <1>1, <3>1, ShownIs
        <3>3. x \in Rest(p) /\ clog[x] = SubCommitted
            BY <1>6, <3>2 DEF AfterCommit
        <3>4. ~ShownCommitted[parent[x]]
            BY <1>1, <1>2, <3>1, <3>3, ShownIs
        <3>5. parent[x] \in T /\ parent[x] < x /\ parent[x] \in Nat /\ x \in Nat
            BY <1>1, <1>2, <3>3, <3>4
        <3>. QED  BY <3>1, <3>5
    <2>2. \A x \in Tree(p) : ShownCommitted[x] /\ ShownCommitted[x] \in BOOLEAN
        BY <1>1, <2>1, ShownIs
    <2>. QED  BY <1>1, <2>2
<1>. QED  BY <1>3, <1>5, <1>6

\* All that the commit log has to be, together.
LEMMA LogInvariant == Spec => [](TypeInt /\ XidOrder /\ LogTypes /\ ForestInv /\ LogInv)
<1>1. Init => LogTypes /\ ForestInv /\ LogInv
    BY LogTypesInit, ForestInit, LogInit
<1>2. TypeInt /\ TypeInt' /\ XidOrder /\ XidOrder' /\ LogTypes /\ ForestInv /\ LogInv
        /\ [Next]_vars => LogTypes' /\ ForestInv' /\ LogInv'
    BY LogTypesStep, ForestStep, LogStep
<1>. QED  BY <1>1, <1>2, OrderInvariant, PTL DEF Spec

\* The commit log shows a commit at once for the whole tree, at every moment in
\* between its pages (clog.c, TransactionIdSetTreeStatus).
THEOREM TreeCommitsAtOnceHolds == Spec => []TreeCommitsAtOnce
<1>1. TypeInt /\ XidOrder /\ LogTypes /\ ForestInv /\ LogInv => TreeCommitsAtOnce
    BY CommitIsWhole
<1>. QED  BY <1>1, LogInvariant, PTL
-----------------------------------------------------------------------------
(***************************************************************************)
(* Hint bits.  An xid that a reader does not find running, nor below a     *)
(* running transaction, is over, or the reader has cached its final        *)
(* status: its hint is set for good.                                       *)
(***************************************************************************)

\* A tree whose root is r.
Rooted(C, r) ==
    /\ r \in C /\ C \subseteq Xids /\ parent[r] = Invalid
    /\ \A x \in C \ {r} : parent[x] \in C

LEMMA TreeIsRooted ==
    ASSUME TypeInt, XidOrder, LogTypes, ForestInv, NEW p \in Procs, xid[p] # Invalid
    PROVE  Rooted(Tree(p), xid[p])
<1>1. Tree(p) \subseteq Own(p) /\ Own(p) \subseteq Xids /\ Linked(p)
    BY OwnIs, OwnInXids DEF ForestInv
<1>. QED  BY <1>1 DEF Rooted, Linked, Tree

LEMMA RootIsTopmost ==
    ASSUME ForestInv, NEW C, NEW r, Rooted(C, r), NEW t \in Nat, t <= r
    PROVE  \A x \in C : r <= x /\ Topmost(x, t) = r
<1>1. /\ C \subseteq Xids /\ Xids \subseteq Nat /\ Invalid \notin Xids /\ r \in C
      /\ LinksGoBack /\ Recursions
      /\ \A x \in C \ {r} : parent[x] \in C /\ parent[x] < x
    <2>1. MaxXid \in Nat /\ LinksGoBack /\ Recursions
        BY BoundsAssumption DEF ForestInv
    <2>2. Xids \subseteq Nat /\ Invalid \notin Xids
        BY <2>1 DEF Xids, Invalid
    <2>. QED  BY <2>1, <2>2 DEF Rooted, LinksGoBack
<1>2. PICK top : TopsOf(top, t) /\ \A x \in Xids : Topmost(x, t) = top[x]
    BY <1>1, TopmostIs
<1>3. ASSUME NEW x \in Xids
      PROVE  top[x] = IF x < t \/ parent[x] = Invalid THEN x ELSE top[parent[x]]
    BY <1>2, Zenon DEF TopsOf
<1>. DEFINE T == {x \in C : ~(r <= x /\ top[x] = r)}
<1>4. ASSUME T # {} PROVE FALSE
    <2>1. PICK x \in T : \A y \in T : x <= y
        <3>1. T \in SUBSET Nat
            BY <1>1
        <3>. HIDE DEF T
        <3>. QED  BY <1>4, <3>1, MinIsLeast
    <2>2. x \in Xids /\ x \in Nat /\ r \in Nat /\ parent[r] = Invalid
        BY <1>1 DEF Rooted
    <2>3. x # r
        BY <1>3, <2>2
    <2>4. parent[x] \in C /\ parent[x] < x /\ parent[x] \in Nat /\ parent[x] # Invalid
        BY <1>1, <2>3
    <2>5. r <= parent[x] /\ top[parent[x]] = r
        BY <2>1, <2>2, <2>4
    <2>. QED  BY <1>3, <2>2, <2>4, <2>5
<1>. QED  BY <1>1, <1>2, <1>4

\* What the commit log may say of the xids of a transaction that runs or ends.
LEMMA TreeStatuses ==
    ASSUME TypeInt, XidOrder, LogTypes, ForestInv, LogInv, NEW q \in Procs, xid[q] # Invalid,
           NEW y \in Tree(q)
    PROVE  /\ y \in Xids /\ y \in Own(q) /\ xid[q] <= y
           /\ clog[y] = SubCommitted => pc[q] = "commit" /\ parent[y] # Invalid
           /\ clog[y] = Committed => pc[q] = "commit" /\ clog[xid[q]] = Committed
           /\ pc[q] = "commit" => clog[y] # Aborted
<1>1. /\ y \in Own(q) /\ y \in Xids /\ xid[q] <= y /\ xid[q] \in Own(q) /\ Logged(q)
      /\ EndsWhole(q) /\ Ordered(q) /\ Linked(q)
      /\ pc[q] \in {"run", "subabort", "commit", "abort"}
    BY OwnIs, OwnInXids DEF TypeInt, XidOrder, ForestInv, LogInv, Tree
<1>2. /\ InProgress # SubCommitted /\ InProgress # Committed /\ InProgress # Aborted
      /\ SubCommitted # Committed /\ SubCommitted # Aborted /\ Committed # Aborted
    BY DEF InProgress, SubCommitted, Committed, Aborted
<1>3. pc[q] # "commit" => clog[y] \in {InProgress, Aborted}
    <2>1. CASE y \notin ending[q]
        BY <1>1, <2>1 DEF Logged
    <2>2. CASE y \in ending[q] /\ pc[q] # "commit"
        <3>1. pc[q] \in {"abort", "subabort"}
            BY <1>1, <2>2 DEF Ordered
        <3>2. PICK now, later \in SUBSET ending[q] : Aborting(q, now, later)
            BY <1>1, <3>1 DEF Logged
        <3>. QED  BY <2>2, <3>2 DEF Aborting
    <2>. QED  BY <2>1, <2>2
<1>4. ASSUME pc[q] = "commit"
      PROVE  /\ clog[y] = SubCommitted => parent[y] # Invalid
             /\ clog[y] = Committed => clog[xid[q]] = Committed
             /\ clog[y] # Aborted
    <2>1. PICK left \in SUBSET Rest(q) : BeforeCommit(q, left) \/ AfterCommit(q, left)
        BY <1>1, <1>4 DEF Logged
    <2>2. xid[q] \in Tree(q) \ Rest(q)
        BY DEF Tree, Rest
    <2>3. \A x \in Rest(q) : parent[x] # Invalid
        <3>1. \A x \in children[q] : parent[x] \in Tree(q) /\ Tree(q) \subseteq Own(q)
            BY <1>1, OwnIs DEF Linked
        <3>. QED  BY <3>1, OwnIs DEF Rest
    <2>. QED  BY <1>2, <2>1, <2>2, <2>3 DEF BeforeCommit, AfterCommit
<1>. QED  BY <1>1, <1>2, <1>3, <1>4

\* A commit that is logged early is one that is under way.
LEMMA EarlyIs ==
    ASSUME TypeInt, XidOrder, LogTypes, ForestInv, LogInv, NEW q \in Procs, NEW x \in Xids,
           LoggedEarly(q, x)
    PROVE  pc[q] = "commit" /\ xid[q] # Invalid /\ x \in Own(q) /\ ending[q] = Tree(q)
<1>1. xid[q] # Invalid
    <2>1. Invalid \notin Xids
        BY BoundsAssumption DEF Xids, Invalid
    <2>. QED  BY <2>1, OwnIs DEF LoggedEarly, Tree
<1>2. pc[q] = "commit"
    BY <1>1, TreeStatuses DEF LoggedEarly, Tree
<1>3. x \in Own(q)
    BY <1>1, TreeStatuses DEF LoggedEarly
<1>. QED  BY <1>1, <1>2, <1>3 DEF ForestInv, EndsWhole

\* What has become of a transaction that is over.
Settled(x) == x \in done \/ clog[x] = Aborted

\* Its commit is in the log, whether or not it has left the array.
CommitLogged(x) == x \in done \/ \E q \in Procs : LoggedEarly(q, x)

\* A process remembers of the commit log what cannot change.
CacheRight(p) ==
    cached[p].of # Invalid =>
        /\ cached[p].status \in {Committed, Aborted}
        /\ cached[p].status = Committed => CommitLogged(cached[p].of)
        /\ cached[p].status = Aborted => clog[cached[p].of] = Aborted

\* A process asks the commit log about what is over, or what it remembers.
Asked(p) ==
    ask[p] # Idle =>
        LET x == ask[p].of
        IN  /\ snap[p] # Idle /\ pc[p] = "run" /\ linking[p] = Idle /\ scan[p] = Idle
            /\ Written(x)
            /\ ask[p].at = "subtrans" =>
                \/ Settled(x)
                \/ \E q \in Procs : /\ x \in children[q] /\ overflowed[q]
                                    /\ xid[q] \in ask[p].tops /\ xmin[p] <= xid[q]
            /\ ask[p].at = "clog" => (Settled(x) \/ cached[p].of = x) /\ ask[p].fetch = x

SnapOld(p) ==
    snap[p] # Idle =>
        /\ snap[p].xmin <= nextXid
        /\ \A q \in Procs : xid[q] # Invalid => snap[p].xmin <= xid[q]

HintInv == HintsAreFinal /\ \A p \in Procs : SnapOld(p) /\ Asked(p) /\ CacheRight(p)

LEMMA HintInit == Init => HintInv
BY DEF Init, HintInv, HintsAreFinal, SnapOld, Asked, CacheRight, Committed, Aborted

\* What a fetch says, from the cache or from the log.
LEMMA StatusIs ==
    ASSUME LogTypes, LogInv, NEW p \in Procs, CacheRight(p), NEW y \in Xids
    PROVE  /\ Status(p, y) = Aborted => clog[y] = Aborted
           /\ Status(p, y) = SubCommitted => clog[y] = SubCommitted
           /\ Status(p, y) = Committed => clog[y] = Committed \/ CommitLogged(y)
           /\ Settled(y) \/ cached[p].of = y =>
                /\ Status(p, y) \in {Committed, Aborted}
                /\ Status(p, y) = Committed => CommitLogged(y)
<1>1. /\ Invalid \notin Xids /\ Committed # SubCommitted /\ Aborted # SubCommitted
      /\ Committed # Aborted
    BY BoundsAssumption DEF Xids, Invalid, Committed, SubCommitted, Aborted
<1>2. CASE y = cached[p].of
    <2>1. Status(p, y) = cached[p].status /\ cached[p].of # Invalid
        BY <1>1, <1>2 DEF Status
    <2>. QED  BY <1>1, <1>2, <2>1 DEF CacheRight
<1>3. CASE y # cached[p].of
    <2>1. Status(p, y) = clog[y]
        BY <1>3 DEF Status
    <2>. QED  BY <1>1, <1>3, <2>1 DEF Settled, CommitLogged, LogInv, DoneTrees
<1>. QED  BY <1>2, <1>3

\* What a process remembers stays right while it fetches.
LEMMA CacheStaysRight ==
    ASSUME LogTypes, LogInv, NEW p \in Procs, CacheRight(p), NEW y \in Xids, Remember(p, y),
           clog[y] = Committed => CommitLogged(y),
           UNCHANGED <<clog, done, xid, children, overflowed>>
    PROVE  CacheRight(p)'
<1>1. \A x : CommitLogged(x)' = CommitLogged(x)
    BY DEF CommitLogged, LoggedEarly, Tree
<1>2. Committed # Aborted
    BY DEF Committed, Aborted
<1>3. CASE cached'[p] = cached[p]
    BY <1>1, <1>3 DEF CacheRight
<1>4. CASE /\ cached'[p].of = y /\ cached'[p].status = Status(p, y)
           /\ Status(p, y) \in {Committed, Aborted}
    BY <1>1, <1>2, <1>4, StatusIs DEF CacheRight
<1>. QED  BY <1>3, <1>4, RememberIs

\* TransactionIdDidAbort of a subtransaction stays among the xids of the
\* transaction, and says what the log says.
LEMMA FetchesInTree ==
    ASSUME TypeInt, XidOrder, LogTypes, ForestInv, LogInv, NEW p \in Procs, CacheRight(p),
           NEW q \in Procs, NEW x \in children[q], xmin[p] <= xid[q]
    PROVE  /\ LastFetched(p, x) \in Tree(q)
           /\ DidAbort(p, x) => clog[x] = Aborted
<1>. DEFINE f == LastFetched(p, x)
<1>1. /\ xid[q] # Invalid /\ x \in Tree(q) /\ Tree(q) \subseteq Xids /\ Linked(q)
      /\ Recursions /\ LinksGoBack /\ xid[q] \in Nat /\ xmin[p] \in Nat /\ Xids \subseteq Nat
    <2>1. xid[q] # Invalid
        BY OwnIs
    <2>2. Tree(q) \subseteq Xids
        BY <2>1, TreeStatuses
    <2>3. Xids \subseteq Nat
        BY BoundsAssumption DEF Xids
    <2>. QED  BY <2>1, <2>2, <2>3 DEF TypeInt, ForestInv, Tree
<1>2. /\ f \in Tree(q) /\ ~AskParent(p, f) /\ (~AskParent(p, x) => f = x)
    <2>1. \A y \in Tree(q) : AskParent(p, y) => parent[y] \in Tree(q)
        BY <1>1 DEF AskParent, Linked, Tree
    <2>. QED  BY <1>1, <2>1, LastFetchedInside
<1>. HIDE DEF f
<1>3. Status(p, f) # SubCommitted
    <2>1. ASSUME Status(p, f) = SubCommitted PROVE FALSE
        <3>1. clog[f] = SubCommitted
            BY <1>1, <1>2, <2>1, StatusIs
        <3>2. parent[f] # Invalid /\ xid[q] <= f /\ f \in Nat
            BY <1>1, <1>2, <3>1, TreeStatuses
        <3>3. f >= xmin[p]
            BY <1>1, <3>2
        <3>. QED  BY <1>2, <2>1, <3>2, <3>3 DEF AskParent
    <2>. QED  BY <2>1
<1>4. ASSUME Status(p, f) = Aborted PROVE clog[x] = Aborted
    <2>1. clog[f] = Aborted
        BY <1>1, <1>2, <1>4, StatusIs
    <2>2. pc[q] # "commit"
        BY <1>1, <1>2, <2>1, TreeStatuses
    <2>3. clog[x] # SubCommitted
        BY <1>1, <2>2, TreeStatuses
    <2>4. ~AskParent(p, x)
        BY <1>1, <2>3, StatusIs DEF AskParent
    <2>. QED  BY <1>2, <2>1, <2>4
<1>. QED  BY <1>2, <1>3, <1>4 DEF DidAbort, f

\* What any step may change.
LEMMA StepsAre ==
    ASSUME TypeInt, [Next]_vars
    PROVE  /\ nextXid <= nextXid' /\ done \subseteq done'
           /\ \A q \in Procs : xid'[q] # Invalid => xid'[q] = xid[q] \/ xid'[q] = nextXid
           /\ \A q \in Procs :
                linking'[q] # Idle => linking'[q] = linking[q] \/ linking'[q].sub = nextXid
           /\ \A q \in Procs : snap'[q] # Idle => snap'[q] = snap[q] \/ SnapshotDone(q)
<1>. USE DEF shared, own, reading
<1>0. /\ nextXid \in Nat
      /\ xid \in [Procs -> Nat] /\ linking \in [Procs -> {Idle} \union Link]
      /\ snap \in [Procs -> {Idle} \union Scan]
    BY DEF TypeInt
<1>1. ASSUME NEW p \in Procs, AssignXid(p) PROVE
           /\ nextXid <= nextXid' /\ done \subseteq done'
           /\ \A q \in Procs : xid'[q] # Invalid => xid'[q] = xid[q] \/ xid'[q] = nextXid
           /\ UNCHANGED <<linking, snap>>
    BY <1>0, <1>1 DEF AssignXid
<1>2. ASSUME NEW p \in Procs, AssignSubxid(p) PROVE
           /\ nextXid <= nextXid' /\ done \subseteq done'
           /\ \A q \in Procs :
                linking'[q] # Idle => linking'[q] = linking[q] \/ linking'[q].sub = nextXid
           /\ UNCHANGED <<xid, snap>>
    <2>1. PICK u \in Tree(p) : linking' =
            [linking EXCEPT ![p] = [at |-> "link", sub |-> nextXid, under |-> u]]
        BY <1>2 DEF AssignSubxid
    <2>. QED  BY <1>0, <1>2, <2>1 DEF AssignSubxid
<1>3. ASSUME NEW p \in Procs, SubTransSetParent(p) PROVE
           /\ nextXid <= nextXid' /\ done \subseteq done'
           /\ \A q \in Procs : linking'[q] # Idle => linking'[q] = linking[q]
           /\ UNCHANGED <<xid, snap>>
    BY <1>0, <1>3 DEF SubTransSetParent
<1>4. ASSUME NEW p \in Procs, Ends(p) \/ SetPageStatus(p) \/ Asks(p) PROVE
           UNCHANGED <<nextXid, done, xid, linking, snap>>
    <2>1. ASSUME Ends(p) PROVE UNCHANGED <<nextXid, done, xid, linking, snap>>
        BY <2>1, EndIs DEF Ends, End
    <2>. QED  BY <1>4, <2>1, AsksKeeps DEF SetPageStatus
<1>5. ASSUME NEW p \in Procs, ProcArrayEndTransaction(p) PROVE
           /\ nextXid <= nextXid' /\ done \subseteq done'
           /\ \A q \in Procs : xid'[q] # Invalid => xid'[q] = xid[q]
           /\ \A q \in Procs : snap'[q] # Idle => snap'[q] = snap[q]
           /\ UNCHANGED linking
    BY <1>0, <1>5 DEF ProcArrayEndTransaction
<1>6. ASSUME NEW p \in Procs, XidCacheRemoveRunningXids(p) PROVE
           UNCHANGED <<nextXid, done, xid, linking, snap>>
    BY <1>6 DEF XidCacheRemoveRunningXids
<1>7. ASSUME NEW p \in Procs, ReadsArray(p) PROVE
           /\ \A q \in Procs : snap'[q] # Idle => snap'[q] = snap[q] \/ SnapshotDone(q)
           /\ UNCHANGED <<nextXid, done, xid, linking>>
    <2>1. UNCHANGED <<nextXid, done, xid, linking>>
        BY <1>7, ReadsArrayKeeps
    <2>2. snap' = [snap EXCEPT ![p] = Idle] \/ snap' = snap \/ SnapshotDone(p)
        BY <1>7 DEF ReadsArray, BeginSnapshot, BeginOldestXmin, LookAt, OldestXminDone,
            SnapshotResetXmin
    <2>3. CASE SnapshotDone(p)
        BY <1>0, <2>1, <2>3 DEF SnapshotDone
    <2>. QED  BY <1>0, <2>1, <2>2, <2>3
<1>8. CASE UNCHANGED vars
    BY <1>0, <1>8 DEF vars
<1>. QED  BY <1>0, <1>1, <1>2, <1>3, <1>4, <1>5, <1>6, <1>7, <1>8, NextSplits

\* What runs goes on, or is over.
LEMMA TreeSettles ==
    ASSUME TypeInt, XidOrder, LogTypes, ForestInv, LogInv, [Next]_vars,
           NEW q \in Procs, NEW x \in children[q]
    PROVE  \/ x \in children'[q] /\ xid'[q] = xid[q] /\ (overflowed[q] => overflowed'[q])
           \/ Settled(x)'
<1>. USE DEF shared, own, reading
<1>0. /\ xid[q] # Invalid /\ x \in Own(q) /\ Logged(q) /\ EndsWhole(q)
      /\ xid \in [Procs -> Nat] /\ children \in [Procs -> SUBSET Nat]
      /\ overflowed \in [Procs -> BOOLEAN]
    BY OwnIs DEF TypeInt, ForestInv, LogInv
<1>1. ASSUME NEW p \in Procs, AssignXid(p)
      PROVE  x \in children'[q] /\ xid'[q] = xid[q] /\ (overflowed[q] => overflowed'[q])
    BY <1>0, <1>1 DEF AssignXid
<1>2. ASSUME NEW p \in Procs, AssignSubxid(p) \/ SubTransSetParent(p) \/ SetPageStatus(p)
      PROVE  x \in children'[q] /\ xid'[q] = xid[q] /\ (overflowed[q] => overflowed'[q])
    BY <1>0, <1>2 DEF AssignSubxid, StoreSubxid, SubTransSetParent, SetPageStatus
<1>3. ASSUME NEW p \in Procs, Ends(p) \/ ReadsArray(p) \/ Asks(p)
      PROVE  x \in children'[q] /\ xid'[q] = xid[q] /\ (overflowed[q] => overflowed'[q])
    <2>1. ASSUME Ends(p) PROVE UNCHANGED <<xid, children, overflowed>>
        BY <2>1, EndIs DEF Ends, End
    <2>. QED  BY <1>3, <2>1, ReadsArrayKeeps, AsksKeeps
<1>4. ASSUME NEW p \in Procs, ProcArrayEndTransaction(p)
      PROVE  \/ x \in children'[q] /\ xid'[q] = xid[q] /\ (overflowed[q] => overflowed'[q])
           \/ Settled(x)'
    <2>1. CASE p = q
        <3>1. /\ pc[q] \in {"commit", "abort"} /\ todo[q] = <<>>
              /\ done' = (IF pc[q] = "commit" THEN done \union ending[q] ELSE done)
              /\ clog' = clog
            BY <1>4, <2>1 DEF ProcArrayEndTransaction, Ended
        <3>2. x \in ending[q]
            BY <1>4, <1>0, <2>1, OwnSteps
        <3>3. pc[q] = "abort" => clog[x] = Aborted
            BY <1>0, <3>1, <3>2, AbortDone
        <3>. QED  BY <3>1, <3>2, <3>3 DEF Settled
    <2>2. CASE p # q
        BY <1>0, <1>4, <2>2 DEF ProcArrayEndTransaction
    <2>. QED  BY <2>1, <2>2
<1>5. ASSUME NEW p \in Procs, XidCacheRemoveRunningXids(p)
      PROVE  \/ x \in children'[q] /\ xid'[q] = xid[q] /\ (overflowed[q] => overflowed'[q])
           \/ Settled(x)'
    <2>1. /\ pc[p] = "subabort" /\ todo[p] = <<>> /\ UNCHANGED <<xid, clog, overflowed>>
          /\ children' = [children EXCEPT ![p] = @ \ ending[p]]
        BY <1>5 DEF XidCacheRemoveRunningXids, Ended
    <2>2. CASE p = q /\ x \in ending[q]
        <3>1. clog[x] = Aborted
            BY <1>0, <2>1, <2>2, AbortDone
        <3>. QED  BY <2>1, <3>1 DEF Settled
    <2>3. CASE p # q \/ x \notin ending[q]
        BY <1>0, <2>1, <2>3
    <2>. QED  BY <2>2, <2>3
<1>6. CASE UNCHANGED vars
    BY <1>6 DEF vars
<1>. QED  BY <1>1, <1>2, <1>3, <1>4, <1>5, <1>6, NextSplits

\* What is over stays so.
LEMMA SettledStays ==
    ASSUME TypeInt, XidOrder, LogTypes, ForestInv, LogInv, [Next]_vars, NEW x \in Xids
    PROVE  /\ clog[x] \in {Committed, Aborted} => clog'[x] = clog[x]
           /\ Settled(x) => Settled(x)'
<1>. USE DEF shared, own, reading
<1>1. clog[x] \in {Committed, Aborted} => clog'[x] = clog[x]
    <2>1. ASSUME NEW p \in Procs, SetPageStatus(p)
          PROVE  clog[x] \in {Committed, Aborted} => clog'[x] = clog[x]
        BY <2>1, LogWritten DEF LogInv
    <2>2. ASSUME NEW p \in Procs, Ends(p) PROVE UNCHANGED clog
        BY <2>2, EndIs DEF Ends, End
    <2>3. ASSUME NEW p \in Procs,
                 \/ AssignXid(p) \/ AssignSubxid(p) \/ SubTransSetParent(p)
                 \/ ProcArrayEndTransaction(p) \/ XidCacheRemoveRunningXids(p)
          PROVE  UNCHANGED clog
        BY <2>3 DEF AssignXid, AssignSubxid, SubTransSetParent, ProcArrayEndTransaction,
            XidCacheRemoveRunningXids
    <2>4. ASSUME NEW p \in Procs, ReadsArray(p) \/ Asks(p) PROVE UNCHANGED clog
        BY <2>4, ReadsArrayKeeps, AsksKeeps
    <2>5. CASE UNCHANGED vars
        BY <2>5 DEF vars
    <2>. QED  BY <2>1, <2>2, <2>3, <2>4, <2>5, NextSplits
<1>2. done \subseteq done'
    BY StepsAre
<1>. QED  BY <1>1, <1>2 DEF Settled

\* A commit that is logged early stays logged, and then leaves the array.
LEMMA EarlyStays ==
    ASSUME TypeInt, XidOrder, LogTypes, ForestInv, LogInv, [Next]_vars, NEW q \in Procs,
           NEW x \in Xids, LoggedEarly(q, x)
    PROVE  LoggedEarly(q, x)' \/ x \in done'
<1>. USE DEF shared, own, reading
<1>0. /\ pc[q] = "commit" /\ xid[q] # Invalid /\ x \in Own(q) /\ ending[q] = Tree(q)
      /\ overflowed[q] /\ x \in Tree(q) /\ clog[xid[q]] = Committed /\ xid[q] \in Xids
      /\ linking[q] = Idle
    <2>1. /\ pc[q] = "commit" /\ xid[q] # Invalid /\ x \in Own(q) /\ ending[q] = Tree(q)
          /\ overflowed[q] /\ x \in Tree(q) /\ clog[xid[q]] = Committed
        BY EarlyIs DEF LoggedEarly
    <2>2. xid[q] \in Xids
        BY <2>1, TreeStatuses DEF Tree
    <2>. QED  BY <2>1, <2>2 DEF XidOrder, Ordered
<1>1. ASSUME xid'[q] = xid[q], children'[q] = children[q], overflowed'[q] = overflowed[q]
      PROVE  LoggedEarly(q, x)'
    <2>1. clog'[xid[q]] = Committed
        BY <1>0, SettledStays
    <2>. QED  BY <1>0, <1>1, <2>1 DEF LoggedEarly, Tree
<1>2. /\ xid \in [Procs -> Nat] /\ children \in [Procs -> SUBSET Nat]
      /\ overflowed \in [Procs -> BOOLEAN]
    BY DEF TypeInt
<1>3. ASSUME NEW p \in Procs, AssignXid(p) \/ AssignSubxid(p) \/ SubTransSetParent(p)
      PROVE  xid'[q] = xid[q] /\ children'[q] = children[q] /\ overflowed'[q] = overflowed[q]
    <2>1. p # q
        BY <1>0, <1>3 DEF AssignXid, AssignSubxid, SubTransSetParent, Free
    <2>. QED  BY <1>2, <1>3, <2>1 DEF AssignXid, AssignSubxid, StoreSubxid, SubTransSetParent
<1>4. ASSUME NEW p \in Procs, Ends(p) \/ SetPageStatus(p) \/ ReadsArray(p) \/ Asks(p)
      PROVE  UNCHANGED <<xid, children, overflowed>>
    <2>1. ASSUME Ends(p) PROVE UNCHANGED <<xid, children, overflowed>>
        BY <2>1, EndIs DEF Ends, End
    <2>. QED  BY <1>4, <2>1, ReadsArrayKeeps, AsksKeeps DEF SetPageStatus
<1>5. ASSUME NEW p \in Procs, ProcArrayEndTransaction(p), p = q PROVE x \in done'
    BY <1>0, <1>5 DEF ProcArrayEndTransaction
<1>6. ASSUME NEW p \in Procs, ProcArrayEndTransaction(p) \/ XidCacheRemoveRunningXids(p), p # q
      PROVE  xid'[q] = xid[q] /\ children'[q] = children[q] /\ overflowed'[q] = overflowed[q]
    BY <1>2, <1>6 DEF ProcArrayEndTransaction, XidCacheRemoveRunningXids
<1>7. ASSUME XidCacheRemoveRunningXids(q) PROVE FALSE
    BY <1>0, <1>7 DEF XidCacheRemoveRunningXids
<1>8. CASE UNCHANGED vars
    BY <1>1, <1>8 DEF vars
<1>. QED  BY <1>1, <1>3, <1>4, <1>5, <1>6, <1>7, <1>8, NextSplits

LEMMA CommitStaysLogged ==
    ASSUME TypeInt, XidOrder, LogTypes, ForestInv, LogInv, [Next]_vars, NEW x \in Xids,
           CommitLogged(x)
    PROVE  CommitLogged(x)'
<1>1. CASE x \in done
    BY <1>1, StepsAre DEF CommitLogged
<1>2. CASE \E q \in Procs : LoggedEarly(q, x)
    BY <1>2, EarlyStays DEF CommitLogged
<1>. QED  BY <1>1, <1>2 DEF CommitLogged

\* A question, a hint and what a process remembers are changed by the steps of
\* a visibility test only.
LEMMA AskChanges ==
    ASSUME LogTypes, [Next]_vars
    PROVE  \/ UNCHANGED <<ask, cached, hint>>
           \/ \E q \in Procs : /\ Asks(q)
                               /\ \A p \in Procs \ {q} : ask'[p] = ask[p] /\ cached'[p] = cached[p]
<1>. USE DEF shared, own, reading
<1>1. ASSUME NEW q \in Procs, Asks(q)
      PROVE  \A p \in Procs \ {q} : ask'[p] = ask[p] /\ cached'[p] = cached[p]
    <2>1. ask \in [Procs -> {Idle} \union Question] /\ cached \in [Procs -> Fetched]
        BY DEF LogTypes
    <2>2. \A p \in Procs \ {q} : ask'[p] = ask[p]
        BY <1>1, <2>1 DEF Asks, LookUp, LookIntoSubtrans, LookIntoClog, DidCommitYes,
            DidCommitAskParent, DidCommitNo, GoOn
    <2>3. cached' = cached \/ \E y : Remember(q, y)
        BY <1>1 DEF Asks, LookUp, LookIntoSubtrans, LookIntoClog, GoOn
    <2>4. \A y : Remember(q, y) => \A p \in Procs \ {q} : cached'[p] = cached[p]
        BY <2>1 DEF Remember
    <2>. QED  BY <2>2, <2>3, <2>4
<1>2. ASSUME NEW q \in Procs, Ends(q) PROVE UNCHANGED <<ask, cached, hint>>
    BY <1>2, EndIs DEF Ends, End
<1>3. ASSUME NEW q \in Procs, ReadsArray(q) PROVE UNCHANGED <<ask, cached, hint>>
    BY <1>3, ReadsArrayKeeps
<1>4. ASSUME NEW q \in Procs,
             \/ AssignXid(q) \/ AssignSubxid(q) \/ SubTransSetParent(q) \/ SetPageStatus(q)
             \/ ProcArrayEndTransaction(q) \/ XidCacheRemoveRunningXids(q)
      PROVE  UNCHANGED <<ask, cached, hint>>
    BY <1>4 DEF AssignXid, AssignSubxid, SubTransSetParent, SetPageStatus,
        ProcArrayEndTransaction, XidCacheRemoveRunningXids
<1>5. CASE UNCHANGED vars
    BY <1>5 DEF vars
<1>. QED  BY <1>1, <1>2, <1>3, <1>4, <1>5, NextSplits

\* While a process looks at a tuple it does nothing else, and others do not
\* change what is its own.
LEMMA AskerWaits ==
    ASSUME TypeInt, LogTypes, [Next]_vars, NEW p \in Procs, ask[p] # Idle, snap[p] # Idle,
           pc[p] = "run", linking[p] = Idle, scan[p] = Idle
    PROVE  /\ pc'[p] = "run" /\ linking'[p] = Idle /\ scan'[p] = Idle
           /\ snap'[p] = snap[p] /\ xmin'[p] = xmin[p] /\ past'[p] = past[p]
<1>. USE DEF shared, own, reading
<1>0. /\ pc \in [Procs -> {"run", "subabort", "commit", "abort"}]
      /\ linking \in [Procs -> {Idle} \union Link]
      /\ snap \in [Procs -> {Idle} \union Scan] /\ scan \in [Procs -> {Idle} \union Scan]
      /\ xmin \in [Procs -> Nat] /\ past \in [Procs -> SUBSET Nat] /\ Idle.at = "idle"
    BY DEF TypeInt, Idle
<1>1. ASSUME NEW q \in Procs, AssignXid(q) \/ AssignSubxid(q) \/ SubTransSetParent(q)
      PROVE  UNCHANGED <<pc, scan, snap, xmin, past>> /\ linking'[p] = Idle
    <2>1. CASE AssignXid(q) \/ SubTransSetParent(q)
        BY <1>0, <2>1 DEF AssignXid, SubTransSetParent
    <2>2. CASE AssignSubxid(q)
        <3>1. q # p
            BY <2>2 DEF AssignSubxid, Free
        <3>2. PICK u : linking' =
                [linking EXCEPT ![q] = [at |-> "link", sub |-> nextXid, under |-> u]]
            BY <2>2 DEF AssignSubxid
        <3>. QED  BY <1>0, <2>2, <3>1, <3>2 DEF AssignSubxid
    <2>. QED  BY <1>1, <2>1, <2>2
<1>2. ASSUME NEW q \in Procs, Ends(q)
      PROVE  UNCHANGED <<linking, scan, snap, xmin, past>> /\ pc'[p] = "run"
    <2>1. Free(q) /\ \E what : pc' = [pc EXCEPT ![q] = what]
          /\ UNCHANGED <<linking, scan, snap, xmin, past>>
        BY <1>2, EndIs DEF Ends, End
    <2>2. q # p
        BY <2>1 DEF Free
    <2>. QED  BY <1>0, <2>1, <2>2
<1>3. ASSUME NEW q \in Procs, SetPageStatus(q)
      PROVE  UNCHANGED <<pc, linking, scan, snap, xmin, past>>
    BY <1>3 DEF SetPageStatus
<1>4. ASSUME NEW q \in Procs, ProcArrayEndTransaction(q) \/ XidCacheRemoveRunningXids(q)
      PROVE  /\ UNCHANGED <<linking, scan>> /\ pc'[p] = "run"
             /\ snap'[p] = snap[p] /\ xmin'[p] = xmin[p] /\ past'[p] = past[p]
    <2>1. q # p
        BY <1>4 DEF ProcArrayEndTransaction, XidCacheRemoveRunningXids
    <2>. QED  BY <1>0, <1>4, <2>1 DEF ProcArrayEndTransaction, XidCacheRemoveRunningXids
<1>5. ASSUME NEW q \in Procs, ReadsArray(q)
      PROVE  /\ UNCHANGED <<pc, linking>> /\ scan'[p] = Idle
             /\ snap'[p] = snap[p] /\ xmin'[p] = xmin[p] /\ past'[p] = past[p]
    <2>1. q # p
        BY <1>0, <1>5 DEF ReadsArray, BeginSnapshot, BeginOldestXmin, LookAt, SnapshotDone,
            OldestXminDone, SnapshotResetXmin, ScanDone, Free
    <2>2. UNCHANGED <<pc, linking>>
        BY <1>5, ReadsArrayKeeps
    <2>3. scan'[p] = scan[p] /\ snap'[p] = snap[p] /\ xmin'[p] = xmin[p] /\ past'[p] = past[p]
        <3>1. CASE BeginSnapshot(q) \/ BeginOldestXmin(q)
            BY <1>0, <2>1, <3>1 DEF BeginSnapshot, BeginOldestXmin, BeginScan
        <3>2. CASE \E r \in Procs : LookAt(q, r)
            BY <1>0, <2>1, <3>2 DEF LookAt
        <3>3. CASE SnapshotDone(q) \/ OldestXminDone(q) \/ SnapshotResetXmin(q)
            BY <1>0, <2>1, <3>3 DEF SnapshotDone, OldestXminDone, SnapshotResetXmin
        <3>. QED  BY <1>5, <3>1, <3>2, <3>3 DEF ReadsArray
    <2>. QED  BY <2>2, <2>3
<1>6. ASSUME NEW q \in Procs, Asks(q)
      PROVE  UNCHANGED <<pc, linking, scan, snap, xmin, past>>
    BY <1>6, AsksKeeps
<1>7. CASE UNCHANGED vars
    BY <1>7 DEF vars
<1>. QED  BY <1>1, <1>2, <1>3, <1>4, <1>5, <1>6, <1>7, NextSplits

LEMMA WrittenStays ==
    ASSUME TypeInt, TypeInt', [Next]_vars, NEW x \in Xids, Written(x)
    PROVE  Written(x)'
<1>1. /\ nextXid \in Nat /\ nextXid' >= nextXid /\ x \in Nat
      /\ \A q \in Procs :
            linking'[q] # Idle => linking'[q] = linking[q] \/ linking'[q].sub = nextXid
    BY BoundsAssumption, StepsAre DEF TypeInt, Xids
<1>2. x < nextXid /\ \A q \in Procs : linking[q] # Idle => linking[q].sub # x
    BY DEF Written
<1>3. nextXid' \in Nat
    BY DEF TypeInt
<1>4. \A q \in Procs : linking'[q] # Idle => linking'[q].sub # x
    BY <1>1, <1>2
<1>. QED  BY <1>1, <1>2, <1>3, <1>4 DEF Written

\* What a reader does not find in the array is over, or below a transaction
\* whose subtransactions are not all there.
LEMMA NotFound ==
    ASSUME TypeInt, XidOrder, LogTypes, ForestInv, LogInv, CachesComplete, OldInv,
           NEW p \in Procs, SnapOld(p), Free(p), snap[p] # Idle, NEW x \in Xids,
           Written(x), x \notin Tree(p), ~FoundRunning(p, x), x # cached[p].of
    PROVE  \/ Settled(x)
           \/ \E q \in Procs : /\ x \in children[q] /\ overflowed[q]
                               /\ xid[q] \in Uncached(p, x) /\ xmin[p] <= xid[q]
<1>1. SUFFICES ASSUME ~Settled(x)
      PROVE  \E q \in Procs : /\ x \in children[q] /\ overflowed[q]
                              /\ xid[q] \in Uncached(p, x) /\ xmin[p] <= xid[q]
    OBVIOUS
<1>2. PICK q \in Procs : x \in Own(q)
    BY <1>1 DEF Written, LogInv, Accounted, Settled
<1>3. q # p
    BY <1>2 DEF Own, RunningSubs, Free, Tree
<1>4. /\ xid[q] # Invalid /\ xid[q] \in Nat /\ x \in Nat /\ snap[p].xmin \in Nat
      /\ x = xid[q] \/ x \in RunningSubs(q)
      /\ snap[p].xmin <= xid[q] /\ xid[q] <= x /\ xmin[p] # Invalid /\ xmin[p] <= xid[q]
    BY <1>2, OwnIs DEF TypeInt, Scan, SnapOld, OldInv, XminOld, Kept, Xids
<1>5. ~KnownCompleted(p, x)
    BY <1>4 DEF KnownCompleted
<1>6. x # xid[q]
    BY <1>3, <1>4, <1>5 DEF FoundRunning
<1>7. x \in children[q] /\ xid[q] < x
    BY <1>4, <1>6 DEF RunningSubs, Written
<1>8. overflowed[q]
    BY <1>3, <1>4, <1>5, <1>6, <1>7 DEF FoundRunning, CachesComplete
<1>. QED  BY <1>3, <1>4, <1>5, <1>7, <1>8 DEF Uncached

\* The steps of a visibility test.
LEMMA AskedStep ==
    ASSUME TypeInt, TypeInt', XidOrder, LogTypes, LogTypes', ForestInv, LogInv, CachesComplete,
           OldInv, NEW p \in Procs, Asks(p), SnapOld(p), Asked(p), CacheRight(p), HintsAreFinal
    PROVE  Asked(p)' /\ CacheRight(p)' /\ HintsAreFinal'
<1>. USE DEF shared, own, reading
<1>0. /\ UNCHANGED <<shared, own, scan, snap, past, xmin, horizon>>
      /\ ask \in [Procs -> {Idle} \union Question] /\ hint \in [Xids -> {"none", Committed, Aborted}]
      /\ \A x \in Xids : Settled(x)' = Settled(x) /\ Written(x)' = Written(x)
      /\ \A x : CommitLogged(x)' = CommitLogged(x)
      /\ Idle.at = "idle" /\ Committed # Aborted
    <2>1. UNCHANGED <<shared, own, scan, snap, past, xmin, horizon>>
        BY AsksKeeps
    <2>2. \A x : CommitLogged(x)' = CommitLogged(x)
        BY <2>1 DEF CommitLogged, LoggedEarly, Tree
    <2>. QED  BY <2>1, <2>2 DEF LogTypes, Settled, Written, Idle, Committed, Aborted
<1>1. HintsAreFinal <=> \A x \in Xids : /\ hint[x] = Committed => CommitLogged(x)
                                        /\ hint[x] = Aborted => clog[x] = Aborted
    BY DEF HintsAreFinal, CommitLogged
<1>2. HintsAreFinal' <=> \A x \in Xids : /\ hint'[x] = Committed => CommitLogged(x)
                                         /\ hint'[x] = Aborted => clog[x] = Aborted
    BY <1>0 DEF HintsAreFinal, CommitLogged
<1>3. ASSUME cached' = cached PROVE CacheRight(p)'
    BY <1>0, <1>3 DEF CacheRight
<1>4. ASSUME NEW x \in Xids, LookUp(p, x) PROVE Asked(p)' /\ CacheRight(p)' /\ HintsAreFinal'
    <2>1. /\ Free(p) /\ snap[p] # Idle /\ Written(x) /\ x \notin Tree(p)
          /\ hint' = hint /\ cached' = cached
        BY <1>4 DEF LookUp
    <2>2. PICK a : a = ask'[p]
        OBVIOUS
    <2>3. \/ a.at = "answered" /\ a.of = x
          \/ a = AskClog(x) /\ ~FoundRunning(p, x) /\ Uncached(p, x) = {}
          \/ /\ a = [at |-> "subtrans", of |-> x, tops |-> Uncached(p, x)]
             /\ ~FoundRunning(p, x) /\ Uncached(p, x) # {}
        BY <1>0, <1>4, <2>2 DEF LookUp, Answer
    <2>4. ~FoundRunning(p, x) =>
            \/ Settled(x)
            \/ x = cached[p].of
            \/ \E q \in Procs : /\ x \in children[q] /\ overflowed[q]
                                /\ xid[q] \in Uncached(p, x) /\ xmin[p] <= xid[q]
        BY <2>1, NotFound
    <2>5. x = cached[p].of => Uncached(p, x) = {}
        BY DEF Uncached, KnownCompleted
    <2>6. CacheRight(p)' /\ HintsAreFinal'
        BY <1>1, <1>2, <1>3, <2>1
    <2>7. CASE a.at = "answered" /\ a.of = x
        BY <1>0, <2>1, <2>2, <2>6, <2>7 DEF Asked, Free
    <2>8. CASE a = AskClog(x) /\ ~FoundRunning(p, x) /\ Uncached(p, x) = {}
        <3>1. a.at = "clog" /\ a.of = x /\ a.fetch = x /\ (Settled(x) \/ cached[p].of = x)
            BY <2>4, <2>8 DEF AskClog
        <3>. QED  BY <1>0, <2>1, <2>2, <2>6, <3>1 DEF Asked, Free
    <2>9. CASE /\ a = [at |-> "subtrans", of |-> x, tops |-> Uncached(p, x)]
               /\ ~FoundRunning(p, x) /\ Uncached(p, x) # {}
        <3>1. /\ a.at = "subtrans" /\ a.of = x
              /\ \/ Settled(x)
                 \/ \E q \in Procs : /\ x \in children[q] /\ overflowed[q]
                                     /\ xid[q] \in a.tops /\ xmin[p] <= xid[q]
            BY <2>4, <2>5, <2>9
        <3>. QED  BY <1>0, <2>1, <2>2, <2>6, <3>1 DEF Asked, Free
    <2>. QED  BY <2>3, <2>7, <2>8, <2>9
<1>5. ASSUME LookIntoSubtrans(p) PROVE Asked(p)' /\ CacheRight(p)' /\ HintsAreFinal'
    <2>1. PICK a \in Question, x \in Xids : a = ask[p] /\ x = a.of
        <3>1. ask[p] \in Question
            BY <1>0, <1>5 DEF LookIntoSubtrans
        <3>. QED  BY <3>1 DEF Question
    <2>2. /\ a.at = "subtrans" /\ hint' = hint /\ Remember(p, LastFetched(p, x))
          /\ ask' = [ask EXCEPT ![p] =
               IF Topmost(x, xmin[p]) # x /\ Topmost(x, xmin[p]) \in a.tops /\ ~DidAbort(p, x)
               THEN Answer(x, FALSE)
               ELSE AskClog(x)]
        BY <1>5, <2>1, Zenon DEF LookIntoSubtrans
    <2>3. /\ snap[p] # Idle /\ pc[p] = "run" /\ linking[p] = Idle /\ scan[p] = Idle /\ Written(x)
          /\ \/ Settled(x)
             \/ \E q \in Procs : /\ x \in children[q] /\ overflowed[q]
                                 /\ xid[q] \in a.tops /\ xmin[p] <= xid[q]
        BY <1>0, <2>1, <2>2 DEF Asked
    <2>4. ASSUME ~Settled(x)
          PROVE  /\ Topmost(x, xmin[p]) # x /\ Topmost(x, xmin[p]) \in a.tops /\ ~DidAbort(p, x)
                 /\ LastFetched(p, x) \in Xids
                 /\ clog[LastFetched(p, x)] = Committed => CommitLogged(LastFetched(p, x))
        <3>1. PICK q \in Procs : /\ x \in children[q] /\ overflowed[q]
                                 /\ xid[q] \in a.tops /\ xmin[p] <= xid[q]
            BY <2>3, <2>4
        <3>2. xid[q] # Invalid /\ x \in Tree(q) /\ xid[q] # x /\ xmin[p] \in Nat
            <4>1. xid[q] # Invalid /\ x \in RunningSubs(q)
                BY <3>1, OwnIs
            <4>. QED  BY <3>1, <4>1 DEF TypeInt, XidOrder, Ordered, Tree
        <3>3. Topmost(x, xmin[p]) = xid[q]
            BY <3>1, <3>2, TreeIsRooted, RootIsTopmost
        <3>4. LastFetched(p, x) \in Tree(q) /\ ~DidAbort(p, x)
            BY <2>4, <3>1, FetchesInTree DEF Settled
        <3>5. LastFetched(p, x) \in Xids
              /\ (clog[LastFetched(p, x)] = Committed => LoggedEarly(q, LastFetched(p, x)))
            BY <3>1, <3>2, <3>4, TreeStatuses DEF LoggedEarly
        <3>. QED  BY <3>1, <3>2, <3>3, <3>4, <3>5 DEF CommitLogged
    <2>5. ASSUME Settled(x) PROVE LastFetched(p, x) = x
        <3>1. ~AskParent(p, x)
            BY <2>5, StatusIs DEF AskParent, SubCommitted, Committed, Aborted
        <3>2. Recursions /\ LinksGoBack /\ \A y \in Xids : AskParent(p, y) => parent[y] \in Xids
            BY DEF ForestInv, LinksGoBack, AskParent
        <3>. QED  BY <3>1, <3>2, LastFetchedInside
    <2>6. /\ LastFetched(p, x) \in Xids
          /\ clog[LastFetched(p, x)] = Committed => CommitLogged(LastFetched(p, x))
        <3>1. Settled(x) => (clog[x] = Committed => CommitLogged(x))
            BY <1>0 DEF Settled, CommitLogged
        <3>. QED  BY <2>4, <2>5, <3>1
    <2>7. PICK b : b = ask'[p]
        OBVIOUS
    <2>8. b.of = x /\ (b.at = "answered" \/ (b.at = "clog" /\ b.fetch = x /\ Settled(x)))
        <3>1. b = Answer(x, FALSE) \/ (Settled(x) /\ b = AskClog(x))
            BY <1>0, <2>2, <2>4, <2>7
        <3>. QED  BY <3>1 DEF Answer, AskClog
    <2>9. HintsAreFinal'
        BY <1>1, <1>2, <2>2
    <2>10. CacheRight(p)'
        BY <1>0, <2>2, <2>6, CacheStaysRight
    <2>. QED  BY <1>0, <2>3, <2>7, <2>8, <2>9, <2>10 DEF Asked
<1>6. ASSUME LookIntoClog(p) PROVE Asked(p)' /\ CacheRight(p)' /\ HintsAreFinal'
    <2>1. PICK a \in Question, x \in Xids : a = ask[p] /\ x = a.of
        <3>1. ask[p] \in Question
            BY <1>0, <1>6 DEF LookIntoClog
        <3>. QED  BY <3>1 DEF Question
    <2>2. /\ snap[p] # Idle /\ pc[p] = "run" /\ linking[p] = Idle /\ scan[p] = Idle /\ Written(x)
          /\ a.at = "clog" /\ (Settled(x) \/ cached[p].of = x) /\ a.fetch = x
        BY <1>0, <1>6, <2>1 DEF Asked, LookIntoClog
    <2>3. /\ DidCommitYes(p, x, x) \/ DidCommitAskParent(p, x, x) \/ DidCommitNo(p, x, x)
          /\ Remember(p, x)
        BY <1>6, <2>1, <2>2 DEF LookIntoClog
    <2>4. /\ Status(p, x) \in {Committed, Aborted}
          /\ Status(p, x) = Committed => CommitLogged(x)
          /\ Status(p, x) = Aborted => clog[x] = Aborted
        BY <2>2, StatusIs
    <2>5. HintsAreFinal' /\ \E v : ask' = [ask EXCEPT ![p] = Answer(x, v)]
        <3>1. CASE DidCommitYes(p, x, x)
            <4>1. Status(p, x) = Committed /\ \E v : ask' = [ask EXCEPT ![p] = Answer(x, v)]
                  /\ (hint' = [hint EXCEPT ![x] = Committed] \/ hint' = hint)
                BY <3>1 DEF DidCommitYes
            <4>2. ASSUME NEW y \in Xids
                  PROVE  hint'[y] = hint[y] \/ (hint'[y] = Committed /\ y = x)
                BY <1>0, <4>1
            <4>3. HintsAreFinal'
                BY <1>0, <1>1, <1>2, <2>4, <4>1, <4>2
            <4>. QED  BY <4>1, <4>3
        <3>2. CASE DidCommitNo(p, x, x)
            <4>1. clog[x] = Aborted /\ hint' = [hint EXCEPT ![x] = Aborted]
                  /\ \E v : ask' = [ask EXCEPT ![p] = Answer(x, v)]
                BY <2>4, <3>2 DEF DidCommitNo
            <4>. QED  BY <1>0, <1>1, <1>2, <4>1
        <3>3. ~DidCommitAskParent(p, x, x)
            BY <2>4 DEF DidCommitAskParent, AskParent, SubCommitted, Committed, Aborted
        <3>. QED  BY <2>3, <3>1, <3>2, <3>3
    <2>6. ask'[p].at = "answered" /\ ask'[p].of = x
        BY <1>0, <2>5 DEF Answer
    <2>7. CacheRight(p)'
        <3>1. CASE Settled(x)
            <4>1. clog[x] = Committed => CommitLogged(x)
                BY <1>0, <3>1 DEF Settled, CommitLogged
            <4>. QED  BY <1>0, <2>3, <4>1, CacheStaysRight
        <3>2. CASE cached[p].of = x
            <4>1. Status(p, x) = cached[p].status
                BY <3>2 DEF Status
            <4>2. cached'[p].of = cached[p].of /\ cached'[p].status = cached[p].status
                BY <2>3, <3>2, <4>1, RememberIs
            <4>. QED  BY <1>0, <4>2 DEF CacheRight
        <3>. QED  BY <2>2, <3>1, <3>2
    <2>. QED  BY <1>0, <2>2, <2>5, <2>6, <2>7 DEF Asked
<1>7. ASSUME GoOn(p) PROVE Asked(p)' /\ CacheRight(p)' /\ HintsAreFinal'
    <2>1. cached' = cached /\ hint' = hint /\ ask'[p] = Idle
        BY <1>0, <1>7 DEF GoOn
    <2>. QED  BY <1>1, <1>2, <1>3, <2>1 DEF Asked
<1>. QED  BY <1>4, <1>5, <1>6, <1>7 DEF Asks

LEMMA HintStep ==
    TypeInt /\ TypeInt' /\ XidOrder /\ LogTypes /\ LogTypes' /\ ForestInv /\ LogInv
        /\ CachesComplete /\ OldInv /\ HintInv /\ [Next]_vars => HintInv'
<1>. SUFFICES ASSUME TypeInt, TypeInt', XidOrder, LogTypes, LogTypes', ForestInv, LogInv,
                     CachesComplete, OldInv, HintInv, [Next]_vars
              PROVE  HintInv'
    OBVIOUS
<1>1. ASSUME NEW p \in Procs PROVE SnapOld(p)'
    <2>1. /\ nextXid <= nextXid' /\ nextXid \in Nat /\ nextXid' \in Nat
          /\ \A q \in Procs : xid'[q] # Invalid => xid'[q] = xid[q] \/ xid'[q] = nextXid
          /\ snap'[p] # Idle => snap'[p] = snap[p] \/ SnapshotDone(p)
        BY StepsAre DEF TypeInt
    <2>2. CASE snap'[p] # Idle /\ snap'[p] = snap[p]
        <3>1. snap[p].xmin \in Nat /\ snap[p].xmin <= nextXid
              /\ \A q \in Procs : xid[q] # Invalid => snap[p].xmin <= xid[q]
            BY <2>2 DEF HintInv, SnapOld, TypeInt, Scan
        <3>. QED  BY <2>1, <2>2, <3>1 DEF SnapOld
    <2>3. CASE SnapshotDone(p)
        <3>1. /\ snap'[p] = scan[p] /\ scan[p] \in Scan /\ scan[p].left = {}
              /\ UNCHANGED <<nextXid, xid>> /\ scan[p] # Idle
            BY <2>3, IdleIsNoRecord DEF SnapshotDone, ScanDone, TypeInt, shared, Idle
        <3>2. scan[p].xmin <= scan[p].xmax /\ scan[p].xmax = latestCompletedXid + 1
              /\ \A q \in Procs : xid[q] # Invalid => scan[p].xmin <= xid[q]
            BY <3>1 DEF OldInv, ScanSound, Respects
        <3>3. scan[p].xmin <= nextXid
            BY <3>1, <3>2 DEF Scan, XidOrder, TypeInt
        <3>. QED  BY <3>1, <3>2, <3>3 DEF SnapOld
    <2>. QED  BY <2>1, <2>2, <2>3 DEF SnapOld
<1>2. HintsAreFinal' /\ \A p \in Procs : Asked(p)' /\ CacheRight(p)'
    <2>1. ASSUME NEW p \in Procs, ask[p] # Idle, ask'[p] = ask[p], cached'[p] = cached[p]
          PROVE  Asked(p)'
        <3>1. PICK a \in Question, x \in Xids : a = ask[p] /\ x = a.of
            <4>1. ask[p] \in Question
                BY <2>1 DEF LogTypes
            <4>. QED  BY <4>1 DEF Question
        <3>2. /\ snap[p] # Idle /\ pc[p] = "run" /\ linking[p] = Idle /\ scan[p] = Idle
              /\ Written(x)
              /\ a.at = "subtrans" =>
                   \/ Settled(x)
                   \/ \E q \in Procs : /\ x \in children[q] /\ overflowed[q]
                                       /\ xid[q] \in a.tops /\ xmin[p] <= xid[q]
              /\ a.at = "clog" => (Settled(x) \/ cached[p].of = x) /\ a.fetch = x
            BY <2>1, <3>1 DEF HintInv, Asked
        <3>3. /\ snap'[p] = snap[p] /\ pc'[p] = "run" /\ linking'[p] = Idle /\ scan'[p] = Idle
              /\ xmin'[p] = xmin[p] /\ Written(x)' /\ (Settled(x) => Settled(x)')
            BY <2>1, <3>2, AskerWaits, WrittenStays, SettledStays
        <3>4. a.at = "subtrans" =>
                \/ Settled(x)'
                \/ \E q \in Procs : /\ x \in children'[q] /\ overflowed'[q]
                                    /\ xid'[q] \in a.tops /\ xmin'[p] <= xid'[q]
            BY <3>2, <3>3, TreeSettles
        <3>. QED  BY <2>1, <3>1, <3>2, <3>3, <3>4 DEF Asked
    <2>2. ASSUME NEW p \in Procs, ask'[p] = ask[p], cached'[p] = cached[p] PROVE Asked(p)'
        BY <2>1, <2>2 DEF Asked
    <2>3. ASSUME NEW p \in Procs, cached'[p] = cached[p] PROVE CacheRight(p)'
        <3>1. CacheRight(p)
            BY DEF HintInv
        <3>2. PICK y \in {Invalid} \union Xids : y = cached[p].of
            BY DEF LogTypes, Fetched
        <3>3. y # Invalid =>
                /\ CommitLogged(y) => CommitLogged(y)'
                /\ clog[y] = Aborted => clog'[y] = Aborted
            BY CommitStaysLogged, SettledStays
        <3>. QED  BY <2>3, <3>1, <3>2, <3>3 DEF CacheRight
    <2>4. CASE UNCHANGED <<ask, cached, hint>>
        <3>1. ASSUME NEW x \in Xids
              PROVE  /\ hint'[x] = Committed => CommitLogged(x)'
                     /\ hint'[x] = Aborted => clog'[x] = Aborted
            <4>1. /\ hint[x] = Committed => CommitLogged(x)
                  /\ hint[x] = Aborted => clog[x] = Aborted
                BY DEF HintInv, HintsAreFinal, CommitLogged
            <4>. QED  BY <2>4, <4>1, CommitStaysLogged, SettledStays
        <3>2. HintsAreFinal'
            BY <3>1 DEF HintsAreFinal, CommitLogged
        <3>. QED  BY <2>2, <2>3, <2>4, <3>2
    <2>5. ASSUME NEW q \in Procs, Asks(q),
                 \A p \in Procs \ {q} : ask'[p] = ask[p] /\ cached'[p] = cached[p]
          PROVE  HintsAreFinal' /\ \A p \in Procs : Asked(p)' /\ CacheRight(p)'
        <3>1. Asked(q)' /\ CacheRight(q)' /\ HintsAreFinal'
            BY <2>5, AskedStep DEF HintInv
        <3>. QED  BY <2>2, <2>3, <2>5, <3>1
    <2>. QED  BY <2>4, <2>5, AskChanges
<1>. QED  BY <1>1, <1>2 DEF HintInv

\* A hint bit is for ever and says what becomes of the transaction, although a
\* committed one may come while the transaction is still in the array: what the
\* reader has cached of the commit log lets it skip the array (tqual.c,
\* SetHintBits; procarray.c, TransactionIdIsInProgress; transam.c,
\* TransactionLogFetch).
THEOREM HintsAreFinalHolds == Spec => []HintsAreFinal
<1>1. Init => CachesComplete /\ OldInv /\ HintInv
    BY CachesInit, OldInit, HintInit
<1>2. TypeInt /\ TypeInt' /\ XidOrder /\ LogTypes /\ LogTypes' /\ ForestInv /\ LogInv
        /\ CachesComplete /\ OldInv /\ HintInv /\ [Next]_vars
            => CachesComplete' /\ OldInv' /\ HintInv'
    BY CachesStep, OldStep, HintStep
<1>3. HintInv => HintsAreFinal
    BY DEF HintInv
<1>. QED  BY <1>1, <1>2, <1>3, LogInvariant, PTL DEF Spec
-----------------------------------------------------------------------------
(***************************************************************************)
(* Snapshots.  A snapshot lists the root of every tree that runs or has    *)
(* committed since, with its subtransactions unless it says that they are  *)
(* not all there, and it lists nothing of what had committed before.       *)
(***************************************************************************)
InList(s, root, x) ==
    /\ s.xmin <= root /\ root \in s.xip
    /\ s.suboverflowed \/ x \in s.xip \/ x \in s.subxip

\* A snapshot, or one that is being made, has nothing of the past.
NothingPast(p, s) == \A x \in past[p] : x < s.xmax /\ x \notin s.xip /\ x \notin s.subxip

Closed(p) == \A x \in past[p] : parent[x] # Invalid => parent[x] \in past[p]

ScanExact(p) ==
    (scan[p] # Idle /\ scan[p].at = "snapshot") =>
        /\ NothingPast(p, scan[p])
        /\ \A q \in Procs \ (scan[p].left \union {p}) : \A x \in Own(q) :
              x < scan[p].xmax => InList(scan[p], xid[q], x)

SnapExact(p) ==
    snap[p] # Idle =>
        /\ snap[p].xmin <= snap[p].xmax /\ snap[p].xmax <= nextXid
        /\ NothingPast(p, snap[p])
        /\ \A q \in Procs \ {p} : \A x \in Own(q) :
              x < snap[p].xmax => InList(snap[p], xid[q], x)
        /\ \A x \in done \ past[p] : x < snap[p].xmax =>
              \E C \in SUBSET done, r \in done :
                  x \in C /\ Rooted(C, r) /\ InList(snap[p], r, x)

Lists(p) == past[p] \subseteq done /\ Closed(p) /\ ScanExact(p) /\ SnapExact(p)

LEMMA ListsInit == Init => \A p \in Procs : Lists(p)
BY DEF Init, Lists, Closed, ScanExact, SnapExact

\* An xid is new or it runs already, and the links of what has committed stay.
LEMMA OwnGrows ==
    ASSUME TypeInt, XidOrder, LogTypes, ForestInv, [Next]_vars
    PROVE  /\ \A q \in Procs : \A x \in Own(q)' :
                (x \in Own(q) /\ xid'[q] = xid[q]) \/ x = nextXid
           /\ \A x \in done : parent'[x] = parent[x]
<1>. USE DEF shared, own, reading
<1>0. /\ xid \in [Procs -> Nat] /\ done \in SUBSET Xids
      /\ parent \in [Xids -> Nat] /\ \A p \in Procs : Apart(p)
    <2>1. \A x \in done : x \in Nat /\ x # Invalid /\ x < nextXid
        BY DEF ForestInv, DoneBefore, XidOrder, TypeInt
    <2>2. nextXid \in Nat /\ MaxXid \in Nat /\ nextXid <= MaxXid + 1
        BY BoundsAssumption DEF TypeInt, LogTypes
    <2>3. done \in SUBSET Xids
        BY <2>1, <2>2 DEF Xids, Invalid
    <2>. QED  BY <2>3 DEF TypeInt, LogTypes, ForestInv
<1>1. ASSUME NEW p \in Procs, AssignXid(p) PROVE
        /\ Own(p)' = {nextXid} /\ OthersKeep(p) /\ \A q \in Procs \ {p} : xid'[q] = xid[q]
        /\ parent' = parent
    BY <1>0, <1>1, OwnSteps DEF AssignXid
<1>2. ASSUME NEW p \in Procs, AssignSubxid(p) PROVE
        /\ Own(p)' = Own(p) \union {nextXid} /\ OthersKeep(p) /\ UNCHANGED <<xid, parent>>
    BY <1>2, OwnSteps DEF AssignSubxid
<1>3. ASSUME NEW p \in Procs, SubTransSetParent(p) PROVE
        /\ Own(p)' = Own(p) /\ OthersKeep(p) /\ xid' = xid
        /\ \A x \in done : parent'[x] = parent[x]
    <2>1. /\ linking[p] # Idle /\ xid' = xid
          /\ parent' = [parent EXCEPT ![linking[p].sub] = linking[p].under]
        BY <1>3 DEF SubTransSetParent
    <2>2. linking[p].sub \in RunningSubs(p)
        BY <2>1 DEF RunningSubs
    <2>3. linking[p].sub \in Own(p)
        BY <2>1, <2>2, OwnIs DEF XidOrder, Ordered
    <2>. QED  BY <1>0, <1>3, <2>1, <2>3, OwnSteps DEF Apart
<1>4. ASSUME NEW p \in Procs, ProcArrayEndTransaction(p) PROVE
        /\ Own(p)' = {} /\ OthersKeep(p) /\ \A q \in Procs \ {p} : xid'[q] = xid[q]
        /\ parent' = parent
    BY <1>0, <1>4, OwnSteps DEF ProcArrayEndTransaction
<1>5. ASSUME NEW p \in Procs, XidCacheRemoveRunningXids(p) PROVE
        /\ Own(p)' \subseteq Own(p) /\ OthersKeep(p) /\ UNCHANGED <<xid, parent>>
    BY <1>5, OwnSteps DEF XidCacheRemoveRunningXids
<1>6. ASSUME UNCHANGED <<xid, children, linking, parent>> PROVE
        (\A q \in Procs : Own(q)' = Own(q)) /\ UNCHANGED <<xid, parent>>
    BY <1>6 DEF Own, Tree, RunningSubs
<1>7. ASSUME NEW p \in Procs, Ends(p) \/ SetPageStatus(p) \/ ReadsArray(p) \/ Asks(p)
      PROVE  UNCHANGED <<xid, children, linking, parent>>
    <2>1. ASSUME Ends(p) PROVE UNCHANGED <<xid, children, linking, parent>>
        BY <2>1, EndIs DEF Ends, End
    <2>. QED  BY <1>7, <2>1, ReadsArrayKeeps, AsksKeeps DEF SetPageStatus
<1>8. CASE UNCHANGED vars
    BY <1>6, <1>8 DEF vars
<1>9. CASE \E p \in Procs : AssignXid(p) \/ AssignSubxid(p) \/ SubTransSetParent(p)
    BY <1>1, <1>2, <1>3, <1>9 DEF OthersKeep
<1>10. CASE \E p \in Procs : ProcArrayEndTransaction(p) \/ XidCacheRemoveRunningXids(p)
    BY <1>4, <1>5, <1>10 DEF OthersKeep
<1>11. CASE \E p \in Procs : Ends(p) \/ SetPageStatus(p) \/ ReadsArray(p) \/ Asks(p)
    BY <1>6, <1>7, <1>11
<1>. QED  BY <1>8, <1>9, <1>10, <1>11, NextSplits

\* A step that does not concern a process's lists, or drops them.
LEMMA ListsStay ==
    ASSUME TypeInt, TypeInt', XidOrder, LogTypes, ForestInv, OldInv, [Next]_vars,
           NEW p \in Procs, Lists(p), snap'[p] = snap[p] \/ snap'[p] = Idle, scan'[p] = scan[p] \/ scan'[p] = Idle,
           past'[p] = past[p],
           \/ done' = done
           \/ /\ scan'[p] = Idle
              /\ \E q \in Procs \ {p}, C \in SUBSET Nat, r \in Nat :
                    r \in C /\ C = Own(q) /\ r = xid[q] /\ done' = done \union C /\ Rooted(C, r)'
    PROVE  Lists(p)'
<1>1. /\ nextXid \in Nat /\ nextXid' \in Nat /\ nextXid <= nextXid'
      /\ latestCompletedXid \in Nat /\ latestCompletedXid < nextXid /\ done \subseteq done'
      /\ \A x \in done : parent'[x] = parent[x]
      /\ \A q \in Procs : \A x \in Own(q)' :
            (x \in Own(q) /\ xid'[q] = xid[q]) \/ x = nextXid
      /\ scan[p] \in {Idle} \union Scan /\ snap[p] \in {Idle} \union Scan
    BY OwnGrows, StepsAre DEF TypeInt, XidOrder
<1>2. past'[p] \subseteq done' /\ Closed(p)'
    BY <1>1 DEF Lists, Closed
<1>3. ScanExact(p)'
    <2>1. SUFFICES ASSUME scan[p] # Idle, scan'[p] = scan[p], scan[p].at = "snapshot"
                   PROVE  ScanExact(p)'
        BY DEF ScanExact
    <2>2. PICK s \in Scan : s = scan[p]
        BY <1>1, <2>1
    <2>3. s.xmax \in Nat /\ s.xmax <= nextXid
        BY <1>1, <2>1, <2>2 DEF OldInv, ScanSound, Scan
    <2>4. NothingPast(p, s) /\ \A q \in Procs \ (s.left \union {p}) : \A x \in Own(q) :
              x < s.xmax => InList(s, xid[q], x)
        BY <2>1, <2>2 DEF Lists, ScanExact
    <2>5. NothingPast(p, s)'
        BY <2>4 DEF NothingPast
    <2>6. \A q \in Procs \ (s.left \union {p}) : \A x \in Own(q)' :
              x < s.xmax => InList(s, xid'[q], x)
        BY <1>1, <2>3, <2>4
    <2>. QED  BY <2>1, <2>2, <2>5, <2>6 DEF ScanExact, InList
<1>4. SnapExact(p)'
    <2>1. SUFFICES ASSUME snap[p] # Idle, snap'[p] = snap[p] PROVE SnapExact(p)'
        BY DEF SnapExact
    <2>2. PICK s \in Scan : s = snap[p]
        BY <1>1, <2>1
    <2>3. /\ s.xmax \in Nat /\ s.xmin <= s.xmax /\ s.xmax <= nextXid /\ NothingPast(p, s)
          /\ \A q \in Procs \ {p} : \A x \in Own(q) : x < s.xmax => InList(s, xid[q], x)
          /\ \A x \in done \ past[p] : x < s.xmax =>
                \E C \in SUBSET done, r \in done : x \in C /\ Rooted(C, r) /\ InList(s, r, x)
        BY <2>1, <2>2 DEF Lists, SnapExact, Scan
    <2>4. NothingPast(p, s)' /\ s.xmax <= nextXid'
        BY <1>1, <2>3 DEF NothingPast
    <2>5. \A q \in Procs \ {p} : \A x \in Own(q)' : x < s.xmax => InList(s, xid'[q], x)
        BY <1>1, <2>3
    <2>6. ASSUME NEW x \in done' \ past[p], x < s.xmax
          PROVE  \E C \in SUBSET done', r \in done' :
                    x \in C /\ Rooted(C, r)' /\ InList(s, r, x)
        <3>1. CASE x \in done
            <4>1. PICK C \in SUBSET done, r \in done : x \in C /\ Rooted(C, r) /\ InList(s, r, x)
                BY <2>3, <2>6, <3>1
            <4>2. Rooted(C, r)'
                BY <1>1, <4>1 DEF Rooted
            <4>. QED  BY <1>1, <4>1, <4>2
        <3>2. CASE x \notin done
            <4>1. PICK q \in Procs \ {p}, C \in SUBSET Nat, r \in Nat :
                    r \in C /\ C = Own(q) /\ r = xid[q] /\ done' = done \union C /\ Rooted(C, r)'
                BY <2>6, <3>2
            <4>. QED  BY <2>3, <2>6, <3>2, <4>1
        <3>. QED  BY <3>1, <3>2
    <2>. QED  BY <2>1, <2>2, <2>3, <2>4, <2>5, <2>6 DEF SnapExact, InList
<1>. QED  BY <1>2, <1>3, <1>4 DEF Lists

\* What one look at a PGPROC adds to the lists.
LEMMA SeenLists ==
    ASSUME TypeInt, NEW p \in Procs, NEW q \in Procs, NEW s \in Scan,
           NEW n, n = SawForSnapshot(p, q, s)
    PROVE  IF xid[q] >= s.xmax \/ q = p
           THEN n.xip = s.xip /\ n.subxip = s.subxip /\ n.suboverflowed = s.suboverflowed
           ELSE /\ n.xip = s.xip \union ({xid[q]} \ {Invalid})
                /\ n.suboverflowed = (s.suboverflowed \/ overflowed[q])
                /\ n.subxip = IF s.suboverflowed \/ overflowed[q] THEN s.subxip
                              ELSE s.subxip \union subxids[q]
<1>. DEFINE t == [s EXCEPT !.globalxmin = Earlier(xmin[q], @)]
            others == IF q = p THEN {} ELSE {xid[q]} \ {Invalid}
            flag == t.suboverflowed \/ (q # p /\ overflowed[q])
            subs == IF s.suboverflowed \/ q = p \/ overflowed[q] THEN t.subxip
                    ELSE t.subxip \union subxids[q]
            u == [t EXCEPT !.xip = @ \union others, !.xmin = Earlier(xid[q], @),
                           !.suboverflowed = flag, !.subxip = subs]
<1>1. t.xip = s.xip /\ t.subxip = s.subxip /\ t.suboverflowed = s.suboverflowed
    BY DEF Scan
<1>2. CASE xid[q] >= s.xmax
    BY <1>1, <1>2 DEF SawForSnapshot
<1>3. CASE ~(xid[q] >= s.xmax)
    <2>1. SawForSnapshot(p, q, s) = u
        BY <1>3 DEF SawForSnapshot
    <2>2. u.xip = t.xip \union others /\ u.suboverflowed = flag /\ u.subxip = subs
        BY DEF Scan
    <2>3. s.suboverflowed \in BOOLEAN /\ overflowed[q] \in BOOLEAN
        BY DEF Scan, TypeInt
    <2>. QED  BY <1>1, <1>3, <2>1, <2>2, <2>3
<1>. QED  BY <1>2, <1>3

\* They get what the process runs, and nothing of the past.
LEMMA LookLists ==
    ASSUME TypeInt, XidOrder, LogTypes, ForestInv, CachesComplete, NEW p \in Procs,
           NEW q \in Procs, NEW s \in Scan, NEW t \in Scan, t = SawForSnapshot(p, q, s),
           past[p] \subseteq done, NothingPast(p, s)
    PROVE  /\ NothingPast(p, t)
           /\ \A r, x \in Nat : InList(s, r, x) => InList(t, r, x)
           /\ q # p => \A x \in Own(q) : x < t.xmax => InList(t, xid[q], x)
<1>1. /\ xid[q] \in Nat /\ s.xmin \in Nat /\ s.xmax \in Nat /\ t.xmax = s.xmax
      /\ t.xmin = IF xid[q] >= s.xmax THEN s.xmin ELSE Earlier(xid[q], s.xmin)
      /\ s.suboverflowed \in BOOLEAN /\ overflowed[q] \in BOOLEAN
    <2>. DEFINE u == SawForSnapshot(p, q, s)
    <2>1. u.xmax = s.xmax /\ u.xmin = IF xid[q] >= s.xmax THEN s.xmin ELSE Earlier(xid[q], s.xmin)
        BY SawForSnapshotIs
    <2>2. t = u
        OBVIOUS
    <2>. HIDE DEF u
    <2>. QED  BY <2>1, <2>2 DEF TypeInt, Scan
<1>2. /\ t.xmin \in Nat /\ t.xmin <= s.xmin
      /\ (xid[q] # Invalid /\ xid[q] < s.xmax) => t.xmin <= xid[q]
    <2>1. /\ Earlier(xid[q], s.xmin) \in Nat /\ Earlier(xid[q], s.xmin) <= s.xmin
          /\ xid[q] # Invalid => Earlier(xid[q], s.xmin) <= xid[q]
        BY <1>1, EarlierIs
    <2>. QED  BY <1>1, <2>1
<1>3. IF xid[q] >= s.xmax \/ q = p
      THEN t.xip = s.xip /\ t.subxip = s.subxip /\ t.suboverflowed = s.suboverflowed
      ELSE /\ t.xip = s.xip \union ({xid[q]} \ {Invalid})
           /\ t.suboverflowed = (s.suboverflowed \/ overflowed[q])
           /\ t.subxip = IF s.suboverflowed \/ overflowed[q] THEN s.subxip
                         ELSE s.subxip \union subxids[q]
    BY SeenLists
<1>4. /\ subxids[q] \subseteq RunningSubs(q)
      /\ overflowed[q] \/ RunningSubs(q) \subseteq subxids[q]
    BY DEF CachesComplete
<1>5. /\ xid[q] = Invalid => Own(q) = {} /\ RunningSubs(q) = {}
      /\ xid[q] # Invalid => Own(q) = {xid[q]} \union RunningSubs(q)
      /\ \A x \in Own(q) : xid[q] <= x /\ x \in Nat
      /\ Own(q) \intersect past[p] = {}
    <2>1. Apart(q) /\ Ordered(q)
        BY DEF ForestInv, XidOrder
    <2>2. xid[q] = Invalid => RunningSubs(q) = {}
        BY <2>1 DEF Ordered
    <2>. QED  BY <2>1, <2>2, OwnIs DEF Apart
<1>6. NothingPast(p, t)
    <2>. SUFFICES ASSUME NEW x \in past[p]
                  PROVE  x < t.xmax /\ x \notin t.xip /\ x \notin t.subxip
        BY DEF NothingPast
    <2>1. x < s.xmax /\ x \notin s.xip /\ x \notin s.subxip /\ x \notin Own(q)
        BY <1>5 DEF NothingPast
    <2>2. x \notin {xid[q]} \ {Invalid} /\ x \notin subxids[q]
        BY <1>4, <1>5, <2>1
    <2>. QED  BY <1>1, <1>3, <2>1, <2>2
<1>7. ASSUME NEW r \in Nat, NEW x \in Nat, InList(s, r, x) PROVE InList(t, r, x)
    <2>1. s.xip \subseteq t.xip /\ s.subxip \subseteq t.subxip
          /\ (s.suboverflowed => t.suboverflowed)
        BY <1>3
    <2>. QED  BY <1>1, <1>2, <1>7, <2>1 DEF InList
<1>8. ASSUME q # p, NEW x \in Own(q), x < t.xmax PROVE InList(t, xid[q], x)
    <2>1. xid[q] # Invalid /\ xid[q] < s.xmax /\ (x = xid[q] \/ x \in RunningSubs(q))
        BY <1>1, <1>5, <1>8
    <2>2. xid[q] \in t.xip /\ t.xmin <= xid[q]
        BY <1>1, <1>2, <1>3, <1>8, <2>1
    <2>3. t.suboverflowed \/ RunningSubs(q) \subseteq t.subxip
        BY <1>1, <1>3, <1>4, <1>8, <2>1
    <2>. QED  BY <2>1, <2>2, <2>3 DEF InList
<1>. QED  BY <1>6, <1>7, <1>8

\* The steps of a reader on the array.
LEMMA ListsRead ==
    ASSUME TypeInt, TypeInt', XidOrder, LogTypes, ForestInv, LogInv, CachesComplete, OldInv,
           NEW p \in Procs, ReadsArray(p), \A r \in Procs : Lists(r)
    PROVE  \A r \in Procs : Lists(r)'
<1>. USE DEF shared, own, reading
<1>0. /\ nextXid \in Nat /\ latestCompletedXid \in Nat /\ latestCompletedXid < nextXid
      /\ done \in SUBSET Nat /\ past \in [Procs -> SUBSET Nat]
      /\ scan \in [Procs -> {Idle} \union Scan] /\ snap \in [Procs -> {Idle} \union Scan]
      /\ ScanSound(p) /\ DoneBefore /\ Idle \notin Scan
    BY IdleIsNoRecord DEF TypeInt, XidOrder, OldInv, ForestInv
<1>1. UNCHANGED <<shared, own>> /\ \A r \in Procs : Own(r)' = Own(r)
    BY ReadsArrayKeeps DEF Own, Tree, RunningSubs
<1>2. ASSUME NEW r \in Procs, past'[r] = past[r], snap'[r] = snap[r] \/ snap'[r] = Idle
      PROVE  past'[r] \subseteq done' /\ Closed(r)' /\ SnapExact(r)'
    <2>1. Lists(r)
        OBVIOUS
    <2>2. past'[r] \subseteq done' /\ Closed(r)'
        BY <1>1, <1>2, <2>1 DEF Lists, Closed
    <2>3. CASE snap'[r] = Idle
        BY <2>2, <2>3 DEF SnapExact
    <2>4. CASE snap'[r] = snap[r]
        BY <1>1, <1>2, <2>1, <2>2, <2>4 DEF Lists, SnapExact, NothingPast, InList, Rooted
    <2>. QED  BY <1>2, <2>2, <2>3, <2>4
<1>3. ASSUME NEW r \in Procs, past'[r] = past[r], snap'[r] = snap[r] \/ snap'[r] = Idle,
             scan'[r] = Idle \/ scan'[r] = scan[r] \/ scan'[r].at = "oldest"
      PROVE  Lists(r)'
    <2>1. CASE scan'[r] = Idle \/ scan'[r].at = "oldest"
        BY <1>2, <1>3, <2>1 DEF Lists, ScanExact
    <2>2. CASE scan'[r] = scan[r]
        <3>1. ScanExact(r)
            BY DEF Lists
        <3>2. ScanExact(r)'
            BY <1>1, <1>3, <2>2, <3>1 DEF ScanExact, NothingPast, InList
        <3>. QED  BY <1>2, <1>3, <3>2 DEF Lists
    <2>. QED  BY <1>3, <2>1, <2>2
<1>4. CASE BeginSnapshot(p)
    <2>1. /\ snap' = [snap EXCEPT ![p] = Idle] /\ past' = [past EXCEPT ![p] = done]
          /\ scan' = [scan EXCEPT ![p] = scan'[p]]
          /\ scan'[p].xmax = latestCompletedXid + 1 /\ scan'[p].left = Procs
          /\ scan'[p].xip = {} /\ scan'[p].subxip = {}
        BY <1>0, <1>4 DEF BeginSnapshot, BeginScan
    <2>2. Lists(p)'
        <3>1. past'[p] = done /\ snap'[p] = Idle
            BY <1>0, <2>1
        <3>2. Closed(p)'
            BY <1>1, <3>1 DEF Closed, LogInv, DoneTrees
        <3>3. NothingPast(p, scan[p])'
            BY <1>0, <2>1, <3>1 DEF NothingPast, DoneBefore
        <3>4. ScanExact(p)' /\ SnapExact(p)'
            BY <2>1, <3>1, <3>3 DEF ScanExact, SnapExact
        <3>. QED  BY <1>1, <3>1, <3>2, <3>4 DEF Lists
    <2>. QED  BY <1>0, <1>3, <2>1, <2>2
<1>5. CASE BeginOldestXmin(p)
    <2>1. /\ UNCHANGED <<snap, past>> /\ scan' = [scan EXCEPT ![p] = scan'[p]]
          /\ scan'[p].at = "oldest"
        BY <1>0, <1>5 DEF BeginOldestXmin, BeginScan
    <2>. QED  BY <1>0, <1>3, <2>1
<1>6. ASSUME NEW q \in Procs, LookAt(p, q) PROVE \A r \in Procs : Lists(r)'
    <2>. DEFINE s == [scan[p] EXCEPT !.left = @ \ {q}]
                t == IF s.at = "snapshot" THEN SawForSnapshot(p, q, s) ELSE SawForOldest(q, s)
    <2>1. /\ scan[p] \in Scan /\ UNCHANGED <<snap, past>> /\ scan' = [scan EXCEPT ![p] = t]
        BY <1>0, <1>6 DEF LookAt
    <2>2. /\ s \in Scan /\ s.at = scan[p].at /\ s.left = scan[p].left \ {q}
          /\ s.xmax = scan[p].xmax /\ s.xmin = scan[p].xmin /\ s.xip = scan[p].xip
          /\ s.subxip = scan[p].subxip /\ s.suboverflowed = scan[p].suboverflowed
        BY <2>1 DEF Scan
    <2>. HIDE DEF s
    <2>3. t \in Scan /\ t.at = s.at /\ t.left = s.left /\ t.xmax = s.xmax
        BY <2>2, SawForSnapshotIs, SawForOldestIs
    <2>4. Lists(p)'
        <3>1. CASE s.at # "snapshot"
            BY <1>0, <1>3, <2>1, <2>2, <2>3, <3>1 DEF Scan
        <3>2. CASE s.at = "snapshot"
            <4>1. /\ t = SawForSnapshot(p, q, s) /\ scan'[p] = t /\ snap[p] = Idle
                  /\ scan[p] # Idle /\ past'[p] = past[p] /\ snap'[p] = snap[p]
                BY <1>0, <2>1, <2>2, <3>2 DEF ScanSound
            <4>. HIDE DEF t
            <4>2. /\ NothingPast(p, scan[p]) /\ past[p] \subseteq done
                  /\ \A r \in Procs \ (scan[p].left \union {p}) : \A x \in Own(r) :
                        x < scan[p].xmax => InList(scan[p], xid[r], x)
                BY <2>2, <3>2, <4>1 DEF Lists, ScanExact
            <4>3. NothingPast(p, s)
                BY <2>2, <4>2 DEF NothingPast
            <4>4. /\ NothingPast(p, t)
                  /\ \A r, x \in Nat : InList(s, r, x) => InList(t, r, x)
                  /\ q # p => \A x \in Own(q) : x < t.xmax => InList(t, xid[q], x)
                BY <2>2, <2>3, <4>1, <4>2, <4>3, LookLists
            <4>5. ASSUME NEW r \in Procs \ (t.left \union {p}), NEW x \in Own(r), x < t.xmax
                  PROVE  InList(t, xid[r], x)
                <5>1. CASE r = q
                    BY <4>4, <4>5, <5>1
                <5>2. CASE r # q
                    <6>1. r \in Procs \ (scan[p].left \union {p}) /\ x < scan[p].xmax
                        BY <2>2, <2>3, <4>5, <5>2
                    <6>2. InList(s, xid[r], x)
                        BY <2>2, <4>2, <6>1 DEF InList
                    <6>3. xid[r] \in Nat /\ x \in Nat
                        BY OwnIs DEF TypeInt
                    <6>. QED  BY <4>4, <6>2, <6>3
                <5>. QED  BY <5>1, <5>2
            <4>6. ScanExact(p)'
                BY <1>1, <4>1, <4>4, <4>5 DEF ScanExact, NothingPast, InList
            <4>. QED  BY <1>2, <4>1, <4>6 DEF Lists
        <3>. QED  BY <3>1, <3>2
    <2>. QED  BY <1>0, <1>3, <2>1, <2>4
<1>7. CASE SnapshotDone(p)
    <2>1. /\ scan[p].at = "snapshot" /\ scan[p].left = {} /\ UNCHANGED past
          /\ snap' = [snap EXCEPT ![p] = scan[p]] /\ scan' = [scan EXCEPT ![p] = Idle]
        BY <1>7 DEF SnapshotDone, ScanDone
    <2>2. scan[p] # Idle
        BY <2>1 DEF Idle
    <2>3. Lists(p)'
        <3>1. past[p] = done /\ snap'[p] = scan[p] /\ scan'[p] = Idle /\ scan[p].xmax \in Nat
              /\ scan[p].xmax = latestCompletedXid + 1 /\ scan[p].xmin <= scan[p].xmax
            BY <1>0, <2>1, <2>2 DEF ScanSound
        <3>2. /\ NothingPast(p, scan[p]) /\ Closed(p)
              /\ \A q \in Procs \ {p} : \A x \in Own(q) :
                    x < scan[p].xmax => InList(scan[p], xid[q], x)
            BY <2>1, <2>2 DEF Lists, ScanExact
        <3>3. scan[p].xmax <= nextXid
            BY <1>0, <3>1
        <3>4. SnapExact(p)'
            BY <1>1, <2>1, <3>1, <3>2, <3>3 DEF SnapExact, NothingPast, InList
        <3>5. Closed(p)' /\ past'[p] \subseteq done'
            BY <1>1, <2>1, <3>1, <3>2 DEF Closed
        <3>. QED  BY <3>1, <3>4, <3>5 DEF Lists, ScanExact
    <2>. QED  BY <1>0, <1>3, <2>1, <2>3
<1>8. CASE OldestXminDone(p)
    <2>1. UNCHANGED <<snap, past>> /\ scan' = [scan EXCEPT ![p] = Idle]
        BY <1>8 DEF OldestXminDone
    <2>. QED  BY <1>0, <1>3, <2>1
<1>9. CASE SnapshotResetXmin(p)
    <2>1. /\ snap' = [snap EXCEPT ![p] = Idle] /\ past' = [past EXCEPT ![p] = {}]
          /\ scan' = scan /\ scan[p] = Idle
        BY <1>9 DEF SnapshotResetXmin, Free
    <2>2. Lists(p)'
        BY <1>0, <1>1, <2>1 DEF Lists, Closed, ScanExact, SnapExact
    <2>. QED  BY <1>0, <1>3, <2>1, <2>2
<1>. QED  BY <1>4, <1>5, <1>6, <1>7, <1>8, <1>9 DEF ReadsArray

LEMMA ListsStep ==
    TypeInt /\ TypeInt' /\ XidOrder /\ LogTypes /\ ForestInv /\ LogInv /\ CachesComplete
        /\ OldInv /\ (\A p \in Procs : Lists(p)) /\ [Next]_vars => \A p \in Procs : Lists(p)'
<1>. SUFFICES ASSUME TypeInt, TypeInt', XidOrder, LogTypes, ForestInv, LogInv, CachesComplete,
                     OldInv, \A p \in Procs : Lists(p), [Next]_vars
              PROVE  \A p \in Procs : Lists(p)'
    OBVIOUS
<1>. USE DEF shared, own, reading
<1>1. ASSUME UNCHANGED <<scan, snap, past, done>> PROVE \A p \in Procs : Lists(p)'
    BY <1>1, ListsStay
<1>2. ASSUME NEW p \in Procs, ProcArrayEndTransaction(p) PROVE \A r \in Procs : Lists(r)'
    <2>1. /\ pc[p] \in {"commit", "abort"} /\ NobodyScans /\ scan' = scan /\ parent' = parent
          /\ snap' = [snap EXCEPT ![p] = Idle] /\ past' = [past EXCEPT ![p] = {}]
          /\ done' = IF pc[p] = "commit" THEN done \union ending[p] ELSE done
        BY <1>2 DEF ProcArrayEndTransaction, Ended
    <2>2. snap \in [Procs -> {Idle} \union Scan] /\ past \in [Procs -> SUBSET Nat]
        BY DEF TypeInt
    <2>3. \A r \in Procs : scan'[r] = Idle
        BY <2>1 DEF NobodyScans
    <2>4. /\ Own(p) = Tree(p) /\ ending[p] = Tree(p) /\ Tree(p) \subseteq Nat
          /\ xid[p] \in Nat /\ xid[p] \in Tree(p) /\ Rooted(Tree(p), xid[p])
        <3>1. Ordered(p) /\ EndsWhole(p) /\ Own(p) = ending[p]
            BY <1>2, OwnSteps DEF XidOrder, ForestInv
        <3>2. xid[p] # Invalid /\ ending[p] = Tree(p)
            BY <2>1, <3>1 DEF Ordered, EndsWhole
        <3>. QED  BY <3>1, <3>2, TreeIsRooted, OwnIs DEF Tree, TypeInt
    <2>5. Lists(p)'
        <3>1. snap'[p] = Idle /\ past'[p] = {} /\ scan'[p] = Idle
            BY <2>1, <2>2, <2>3
        <3>. QED  BY <3>1 DEF Lists, Closed, ScanExact, SnapExact
    <2>6. ASSUME NEW r \in Procs \ {p} PROVE Lists(r)'
        <3>1. snap'[r] = snap[r] /\ past'[r] = past[r] /\ scan'[r] = Idle /\ Lists(r)
            BY <2>1, <2>2, <2>3
        <3>2. CASE pc[p] = "commit"
            <4>1. \E q \in Procs \ {r}, C \in SUBSET Nat, n \in Nat :
                    n \in C /\ C = Own(q) /\ n = xid[q] /\ done' = done \union C /\ Rooted(C, n)'
                <5>1. ASSUME NEW D \in SUBSET Nat, NEW m \in Nat, Rooted(D, m)
                      PROVE  Rooted(D, m)'
                    BY <2>1, <5>1 DEF Rooted
                <5>. QED  BY <2>1, <2>4, <2>6, <3>2, <5>1
            <4>. QED  BY <3>1, <4>1, ListsStay
        <3>3. CASE pc[p] # "commit"
            BY <2>1, <3>1, <3>3, ListsStay
        <3>. QED  BY <3>2, <3>3
    <2>. QED  BY <2>5, <2>6
<1>3. ASSUME NEW p \in Procs, ReadsArray(p) PROVE \A r \in Procs : Lists(r)'
    BY <1>3, ListsRead
<1>4. ASSUME NEW p \in Procs, AssignXid(p) \/ AssignSubxid(p) \/ SubTransSetParent(p)
      PROVE  UNCHANGED <<scan, snap, past, done>>
    BY <1>4 DEF AssignXid, AssignSubxid, SubTransSetParent
<1>5. ASSUME NEW p \in Procs,
             SetPageStatus(p) \/ XidCacheRemoveRunningXids(p) \/ Ends(p) \/ Asks(p)
      PROVE  UNCHANGED <<scan, snap, past, done>>
    <2>1. ASSUME Ends(p) PROVE UNCHANGED <<scan, snap, past, done>>
        BY <2>1, EndIs DEF Ends, End
    <2>. QED  BY <1>5, <2>1, AsksKeeps DEF SetPageStatus, XidCacheRemoveRunningXids
<1>6. CASE UNCHANGED vars
    BY <1>1, <1>6 DEF vars
<1>. QED  BY <1>1, <1>2, <1>3, <1>4, <1>5, <1>6, NextSplits

\* Going up in pg_subtrans does not leave a set that has its own parents.
LEMMA TopmostInside ==
    ASSUME ForestInv, NEW P, P \subseteq Xids,
           \A x \in P : parent[x] # Invalid => parent[x] \in P, NEW t \in Nat
    PROVE  \A x \in P : Topmost(x, t) \in P
<1>1. /\ Xids \subseteq Nat /\ Recursions
      /\ \A x \in P : parent[x] # Invalid => parent[x] \in P /\ parent[x] < x
    BY BoundsAssumption DEF Xids, ForestInv, LinksGoBack
<1>2. PICK top : TopsOf(top, t) /\ \A x \in Xids : Topmost(x, t) = top[x]
    BY <1>1, TopmostIs
<1>3. ASSUME NEW x \in Xids
      PROVE  top[x] = IF x < t \/ parent[x] = Invalid THEN x ELSE top[parent[x]]
    BY <1>2, Zenon DEF TopsOf
<1>. DEFINE T == {x \in P : top[x] \notin P}
<1>4. ASSUME T # {} PROVE FALSE
    <2>1. PICK x \in T : \A y \in T : x <= y
        <3>1. T \in SUBSET Nat
            BY <1>1
        <3>. HIDE DEF T
        <3>. QED  BY <1>4, <3>1, MinIsLeast
    <2>2. x \in Xids /\ x \in Nat /\ x \in P /\ top[x] \notin P
        BY <1>1
    <2>3. parent[x] # Invalid /\ top[x] = top[parent[x]]
        BY <1>3, <2>2
    <2>4. parent[x] \in P /\ parent[x] < x /\ parent[x] \in Nat
        BY <1>1, <2>2, <2>3
    <2>. QED  BY <2>1, <2>2, <2>3, <2>4
<1>. QED  BY <1>2, <1>4

\* Of what has committed a snapshot shows what had committed when it was taken.
LEMMA SeesPast ==
    ASSUME TypeInt, XidOrder, LogTypes, ForestInv, OldInv, NEW p \in Procs, Lists(p),
           snap[p] # Idle, NEW x \in done
    PROVE  XidInMVCCSnapshot(p, x) <=> x \notin past[p]
<1>1. PICK s \in Scan : s = snap[p]
    BY DEF TypeInt
<1>2. /\ s.xmin \in Nat /\ s.xmax \in Nat /\ s.xmin <= s.xmax /\ NothingPast(p, s)
      /\ x \in Nat /\ done \in SUBSET Nat /\ xmin[p] \in Nat
      /\ past[p] \subseteq done /\ past[p] \subseteq Xids /\ Closed(p) /\ Kept(p)
      /\ \A z \in done \ past[p] : z < s.xmax =>
              \E C \in SUBSET done, r \in done :
                  z \in C /\ Rooted(C, r) /\ InList(s, r, z)
    <2>1. /\ nextXid \in Nat /\ latestCompletedXid < nextXid /\ latestCompletedXid \in Nat
          /\ MaxXid \in Nat /\ nextXid <= MaxXid + 1 /\ done \in SUBSET Nat
        BY BoundsAssumption DEF TypeInt, XidOrder, LogTypes
    <2>2. done \subseteq Xids
        BY <2>1 DEF ForestInv, DoneBefore, Xids, Invalid
    <2>. QED  BY <1>1, <2>1, <2>2 DEF Lists, SnapExact, Scan, TypeInt, OldInv
<1>. DEFINE y == IF s.suboverflowed THEN Topmost(x, xmin[p]) ELSE x
<1>3. XidInMVCCSnapshot(p, x) <=>
          /\ x >= s.xmin
          /\ \/ x >= s.xmax
             \/ ~s.suboverflowed /\ x \in s.subxip
             \/ y >= s.xmin /\ y \in s.xip
    BY <1>1 DEF XidInMVCCSnapshot
<1>4. CASE x \in past[p]
    <2>1. x < s.xmax /\ x \notin s.xip /\ x \notin s.subxip
        BY <1>2, <1>4 DEF NothingPast
    <2>2. Topmost(x, xmin[p]) \in past[p]
        BY <1>2, <1>4, TopmostInside DEF Closed
    <2>3. y \notin s.xip
        BY <1>2, <2>1, <2>2 DEF NothingPast
    <2>. HIDE DEF y
    <2>. QED  BY <1>2, <1>3, <1>4, <2>1, <2>3
<1>5. CASE x \notin past[p] /\ x < s.xmax
    <2>1. PICK C \in SUBSET done, r \in done : x \in C /\ Rooted(C, r) /\ InList(s, r, x)
        BY <1>2, <1>5
    <2>2. s.xmin <= r /\ r \in s.xip /\ r \in Nat
        BY <1>2, <2>1 DEF InList
    <2>3. r \notin past[p]
        BY <1>2, <2>2 DEF NothingPast
    <2>4. xmin[p] <= r
        BY <1>2, <2>1, <2>3 DEF Kept
    <2>5. r <= x /\ Topmost(x, xmin[p]) = r
        BY <1>2, <2>1, <2>2, <2>4, RootIsTopmost
    <2>6. s.suboverflowed \/ x \in s.xip \/ x \in s.subxip
        BY <2>1 DEF InList
    <2>7. x >= s.xmin
        BY <1>2, <2>2, <2>5
    <2>. QED  BY <1>2, <1>3, <1>5, <2>2, <2>5, <2>6, <2>7
<1>6. CASE x \notin past[p] /\ ~(x < s.xmax)
    BY <1>2, <1>3, <1>6
<1>. QED  BY <1>4, <1>5, <1>6

\* A snapshot has as running what has not left the array, also if the commit
\* is in the log.
LEMMA SeesRunning ==
    ASSUME TypeInt, XidOrder, LogTypes, ForestInv, LogInv, OldInv, NEW p \in Procs, Lists(p),
           snap[p] # Idle, pc[p] = "run", NEW x \in Xids, NEW q \in Procs, LoggedEarly(q, x)
    PROVE  XidInMVCCSnapshot(p, x) /\ x \notin past[p]
<1>1. PICK s \in Scan : s = snap[p]
    BY DEF TypeInt
<1>2. /\ q # p /\ xid[q] # Invalid /\ x \in Own(q) /\ x \in Tree(q) /\ xid[q] \in Nat
      /\ xid[q] <= x /\ x \in Nat
    <2>1. pc[q] = "commit" /\ xid[q] # Invalid /\ x \in Own(q) /\ x \in Tree(q)
        BY EarlyIs DEF LoggedEarly
    <2>. QED  BY <2>1, OwnIs DEF TypeInt
<1>3. /\ s.xmin \in Nat /\ s.xmax \in Nat /\ s.xmin <= s.xmax /\ s.suboverflowed \in BOOLEAN
      /\ x < s.xmax => InList(s, xid[q], x)
      /\ xmin[p] \in Nat /\ xmin[p] <= xid[q]
    BY <1>1, <1>2 DEF Scan, Lists, SnapExact, OldInv, XminOld, Kept, TypeInt
<1>4. x \notin past[p]
    BY <1>2 DEF Lists, ForestInv, Apart
<1>5. Topmost(x, xmin[p]) = xid[q]
    BY <1>2, <1>3, TreeIsRooted, RootIsTopmost
<1>6. CASE x < s.xmax
    <2>1. /\ s.xmin <= xid[q] /\ xid[q] \in s.xip
          /\ s.suboverflowed \/ x \in s.xip \/ x \in s.subxip
        BY <1>3, <1>6 DEF InList
    <2>2. x >= s.xmin /\ xid[q] >= s.xmin
        BY <1>2, <1>3, <2>1
    <2>. QED  BY <1>1, <1>3, <1>4, <1>5, <2>1, <2>2 DEF XidInMVCCSnapshot
<1>7. CASE ~(x < s.xmax)
    <2>1. x >= s.xmax /\ x >= s.xmin
        BY <1>2, <1>3, <1>7
    <2>. QED  BY <1>1, <1>4, <2>1 DEF XidInMVCCSnapshot
<1>. QED  BY <1>6, <1>7

\* Of what the commit log shows as committed it shows what had committed when
\* it was taken.
LEMMA SeesCommitted ==
    ASSUME TypeInt, XidOrder, LogTypes, ForestInv, LogInv, OldInv, NEW p \in Procs, Lists(p),
           snap[p] # Idle, pc[p] = "run", NEW x \in Xids, CommitLogged(x)
    PROVE  \E v \in BOOLEAN : v = ~XidInMVCCSnapshot(p, x) /\ (v <=> x \in past[p])
<1>1. ~XidInMVCCSnapshot(p, x) <=> x \in past[p]
    <2>1. CASE x \in done
        BY <2>1, SeesPast
    <2>2. CASE \E q \in Procs : LoggedEarly(q, x)
        BY <2>2, SeesRunning
    <2>. QED  BY <2>1, <2>2 DEF CommitLogged
<1>2. XidInMVCCSnapshot(p, x) \in BOOLEAN
    BY DEF XidInMVCCSnapshot
<1>. DEFINE v == ~XidInMVCCSnapshot(p, x)
<1>3. v \in BOOLEAN /\ v = ~XidInMVCCSnapshot(p, x) /\ (v <=> x \in past[p])
    BY <1>1, <1>2
<1>. QED  BY <1>3

(***************************************************************************)
(* What a visibility test answers, and what it knows before it does.       *)
(***************************************************************************)
AnswerRight(p) ==
    /\ ask[p].at = "answered" => (ask[p].visible <=> ask[p].of \in past[p])
    /\ ask[p].at = "subtrans" => ask[p].tops \intersect past[p] = {}

\* What runs has not committed.
LEMMA RunningIsNotDone ==
    ASSUME TypeInt, XidOrder, ForestInv, CachesComplete, NEW p \in Procs, NEW x \in Xids
    PROVE  /\ FoundRunning(p, x) => x \notin done
           /\ Uncached(p, x) \intersect done = {}
<1>1. /\ DoneBefore /\ latestCompletedXid \in Nat /\ done \in SUBSET Nat
      /\ \A q \in Procs : Apart(q) /\ Ordered(q) /\ subxids[q] \subseteq RunningSubs(q)
    BY DEF ForestInv, TypeInt, XidOrder, CachesComplete
<1>2. ASSUME NEW q \in Procs, xid[q] # Invalid PROVE xid[q] \notin done /\ x \notin subxids[q] \intersect done
    <2>1. xid[q] \in Own(q) /\ RunningSubs(q) \subseteq Own(q)
        BY <1>2, OwnIs DEF Tree
    <2>. QED  BY <1>1, <2>1 DEF Apart
<1>3. FoundRunning(p, x) => x \notin done
    <2>1. ASSUME x > latestCompletedXid PROVE x \notin done
        BY <1>1, <2>1 DEF DoneBefore
    <2>. QED  BY <1>2, <2>1 DEF FoundRunning
<1>4. Uncached(p, x) \intersect done = {}
    BY <1>2 DEF Uncached
<1>. QED  BY <1>3, <1>4

\* The steps of a visibility test.
LEMMA AnswerStep ==
    ASSUME TypeInt, XidOrder, LogTypes, LogTypes', ForestInv, LogInv, CachesComplete,
           OldInv, HintsAreFinal, NEW p \in Procs, Asks(p), Asked(p), CacheRight(p), Lists(p),
           AnswerRight(p)
    PROVE  AnswerRight(p)'
<1>. USE DEF shared, own, reading
<1>0. /\ past'[p] = past[p] /\ past[p] \subseteq done /\ done \subseteq Xids
      /\ ask \in [Procs -> {Idle} \union Question] /\ Closed(p)
      /\ \A x \in done : clog[x] = Committed
      /\ Idle.at = "idle" /\ Committed # Aborted
    <2>1. done \subseteq Xids
        <3>1. /\ nextXid \in Nat /\ latestCompletedXid < nextXid /\ latestCompletedXid \in Nat
              /\ MaxXid \in Nat /\ nextXid <= MaxXid + 1 /\ done \in SUBSET Nat
            BY BoundsAssumption DEF TypeInt, XidOrder, LogTypes
        <3>. QED  BY <3>1 DEF ForestInv, DoneBefore, Xids, Invalid
    <2>2. past' = past
        BY AsksKeeps
    <2>. QED  BY <2>1, <2>2 DEF LogTypes, Lists, LogInv, DoneTrees, Idle, Committed, Aborted
<1>1. ASSUME NEW x \in Xids, NEW v \in BOOLEAN, v <=> x \in past[p],
             ask' = [ask EXCEPT ![p] = Answer(x, v)]
      PROVE  AnswerRight(p)'
    <2>1. ask'[p].at = "answered" /\ ask'[p].of = x /\ ask'[p].visible = v
        BY <1>0, <1>1 DEF Answer
    <2>. QED  BY <1>0, <1>1, <2>1 DEF AnswerRight
<1>2. ASSUME NEW x \in Xids, LookUp(p, x) PROVE AnswerRight(p)'
    <2>1. snap[p] # Idle /\ pc[p] = "run"
        BY <1>2 DEF LookUp, Free
    <2>2. CASE hint[x] = Committed
        <3>1. ask' = [ask EXCEPT ![p] = Answer(x, ~XidInMVCCSnapshot(p, x))]
            BY <1>0, <1>2, <2>2, Zenon DEF LookUp
        <3>2. CommitLogged(x)
            BY <2>2 DEF HintsAreFinal, CommitLogged
        <3>3. PICK v \in BOOLEAN : v = ~XidInMVCCSnapshot(p, x) /\ (v <=> x \in past[p])
            BY <2>1, <3>2, SeesCommitted
        <3>. QED  BY <1>1, <3>1, <3>3
    <2>3. CASE hint[x] = Aborted
        <3>1. ask' = [ask EXCEPT ![p] = Answer(x, FALSE)]
            BY <1>0, <1>2, <2>3, Zenon DEF LookUp
        <3>2. x \notin past[p]
            BY <1>0, <2>3 DEF HintsAreFinal
        <3>. QED  BY <1>1, <3>1, <3>2
    <2>4. CASE hint[x] # Committed /\ hint[x] # Aborted
        <3>1. ask' = [ask EXCEPT ![p] =
                IF FoundRunning(p, x) THEN Answer(x, FALSE)
                ELSE IF Uncached(p, x) = {} THEN AskClog(x)
                ELSE [at |-> "subtrans", of |-> x, tops |-> Uncached(p, x)]]
            BY <1>2, <2>4 DEF LookUp
        <3>2. CASE FoundRunning(p, x)
            <4>1. x \notin past[p]
                BY <1>0, <3>2, RunningIsNotDone
            <4>. QED  BY <1>1, <3>1, <3>2, <4>1
        <3>3. CASE ~FoundRunning(p, x)
            <4>1. \/ ask'[p].at = "subtrans" /\ ask'[p].tops = Uncached(p, x)
                  \/ ask'[p].at = "clog"
                BY <1>0, <3>1, <3>3 DEF AskClog
            <4>2. Uncached(p, x) \intersect past[p] = {}
                BY <1>0, RunningIsNotDone
            <4>. QED  BY <1>0, <4>1, <4>2 DEF AnswerRight
        <3>. QED  BY <3>2, <3>3
    <2>. QED  BY <2>2, <2>3, <2>4
<1>3. ASSUME LookIntoSubtrans(p) PROVE AnswerRight(p)'
    <2>1. PICK a \in Question, x \in Xids : a = ask[p] /\ x = a.of
        <3>1. ask[p] \in Question
            BY <1>0, <1>3 DEF LookIntoSubtrans
        <3>. QED  BY <3>1 DEF Question
    <2>2. /\ a.at = "subtrans"
          /\ ask' = [ask EXCEPT ![p] =
               IF Topmost(x, xmin[p]) # x /\ Topmost(x, xmin[p]) \in a.tops /\ ~DidAbort(p, x)
               THEN Answer(x, FALSE)
               ELSE AskClog(x)]
        BY <1>3, <2>1, Zenon DEF LookIntoSubtrans
    <2>3. CASE Topmost(x, xmin[p]) \in a.tops
                 /\ ask' = [ask EXCEPT ![p] = Answer(x, FALSE)]
        <3>1. Topmost(x, xmin[p]) \notin past[p]
            BY <2>1, <2>2, <2>3 DEF AnswerRight
        <3>2. xmin[p] \in Nat /\ past[p] \subseteq Xids
            BY <1>0 DEF TypeInt
        <3>3. x \notin past[p]
            BY <1>0, <3>1, <3>2, TopmostInside DEF Closed
        <3>. QED  BY <1>1, <2>3, <3>3
    <2>4. CASE ask' = [ask EXCEPT ![p] = AskClog(x)]
        <3>1. ask'[p].at = "clog"
            BY <1>0, <2>4 DEF AskClog
        <3>. QED  BY <3>1 DEF AnswerRight
    <2>. QED  BY <2>2, <2>3, <2>4
<1>4. ASSUME LookIntoClog(p) PROVE AnswerRight(p)'
    <2>1. PICK a \in Question, x \in Xids : a = ask[p] /\ x = a.of
        <3>1. ask[p] \in Question
            BY <1>0, <1>4 DEF LookIntoClog
        <3>. QED  BY <3>1 DEF Question
    <2>2. /\ snap[p] # Idle /\ pc[p] = "run" /\ a.at = "clog" /\ a.fetch = x
          /\ Settled(x) \/ cached[p].of = x
        BY <1>0, <1>4, <2>1 DEF Asked, LookIntoClog
    <2>3. DidCommitYes(p, x, x) \/ DidCommitAskParent(p, x, x) \/ DidCommitNo(p, x, x)
        BY <1>4, <2>1, <2>2 DEF LookIntoClog
    <2>4. /\ Status(p, x) \in {Committed, Aborted}
          /\ Status(p, x) = Committed => CommitLogged(x)
          /\ Status(p, x) = Aborted => clog[x] = Aborted
        BY <2>2, StatusIs
    <2>5. CASE DidCommitYes(p, x, x)
        <3>1. ask' = [ask EXCEPT ![p] = Answer(x, ~XidInMVCCSnapshot(p, x))]
            BY <2>5 DEF DidCommitYes
        <3>2. CommitLogged(x)
            BY <2>4, <2>5 DEF DidCommitYes
        <3>3. PICK v \in BOOLEAN : v = ~XidInMVCCSnapshot(p, x) /\ (v <=> x \in past[p])
            BY <2>2, <3>2, SeesCommitted
        <3>. QED  BY <1>1, <3>1, <3>3
    <2>6. CASE DidCommitNo(p, x, x)
        <3>1. clog[x] = Aborted /\ ask' = [ask EXCEPT ![p] = Answer(x, FALSE)]
            BY <2>4, <2>6 DEF DidCommitNo
        <3>. QED  BY <1>0, <1>1, <3>1
    <2>7. ~DidCommitAskParent(p, x, x)
        BY <2>4 DEF DidCommitAskParent, AskParent, SubCommitted, Committed, Aborted
    <2>. QED  BY <2>3, <2>5, <2>6, <2>7
<1>5. ASSUME GoOn(p) PROVE AnswerRight(p)'
    BY <1>0, <1>5 DEF GoOn, AnswerRight
<1>. QED  BY <1>2, <1>3, <1>4, <1>5 DEF Asks

AnswerInv == \A p \in Procs : Lists(p) /\ AnswerRight(p)

LEMMA AnswerInit == Init => AnswerInv
BY ListsInit DEF Init, AnswerInv, AnswerRight, Idle

LEMMA AnswersStep ==
    TypeInt /\ TypeInt' /\ XidOrder /\ LogTypes /\ LogTypes' /\ ForestInv /\ LogInv
        /\ CachesComplete /\ OldInv /\ HintInv /\ AnswerInv /\ [Next]_vars => AnswerInv'
<1>. SUFFICES ASSUME TypeInt, TypeInt', XidOrder, LogTypes, LogTypes', ForestInv, LogInv,
                     CachesComplete, OldInv, HintInv, AnswerInv, [Next]_vars
              PROVE  AnswerInv'
    OBVIOUS
<1>1. \A p \in Procs : Lists(p)'
    BY ListsStep DEF AnswerInv
<1>2. ASSUME NEW p \in Procs, ask'[p] = ask[p] PROVE AnswerRight(p)'
    <2>1. CASE ask[p] = Idle
        BY <1>2, <2>1 DEF AnswerRight, Idle
    <2>2. CASE ask[p] # Idle
        <3>1. snap[p] # Idle /\ pc[p] = "run" /\ linking[p] = Idle /\ scan[p] = Idle
            BY <2>2 DEF HintInv, Asked
        <3>2. past'[p] = past[p]
            BY <2>2, <3>1, AskerWaits
        <3>. QED  BY <1>2, <3>2 DEF AnswerInv, AnswerRight
    <2>. QED  BY <2>1, <2>2
<1>3. ASSUME NEW q \in Procs, Asks(q), \A p \in Procs \ {q} : ask'[p] = ask[p]
      PROVE  \A p \in Procs : AnswerRight(p)'
    <2>1. AnswerRight(q)'
        BY <1>3, AnswerStep DEF AnswerInv, HintInv
    <2>. QED  BY <1>2, <1>3, <2>1
<1>4. \A p \in Procs : AnswerRight(p)'
    BY <1>2, <1>3, AskChanges
<1>. QED  BY <1>1, <1>4 DEF AnswerInv

\* The types with their bounds.
LEMMA TypesAre ==
    ASSUME TypeInt, XidOrder, LogTypes, ForestInv, OldInv, AnswerInv
    PROVE  TypeOK
<1>1. /\ nextXid \in Nat \ {0} /\ latestCompletedXid \in Nat /\ latestCompletedXid < nextXid
      /\ MaxXid \in Nat /\ nextXid <= MaxXid + 1 /\ horizon \in Nat
      /\ horizon <= latestCompletedXid + 1
    BY BoundsAssumption DEF TypeInt, XidOrder, LogTypes, OldInv, HorizonOld
<1>2. xid \in [Procs -> 0..MaxXid]
    <2>1. \A p \in Procs : xid[p] \in Nat /\ xid[p] < nextXid
        BY DEF TypeInt, XidOrder, Ordered
    <2>2. \A p \in Procs : xid[p] \in 0..MaxXid
        BY <1>1, <2>1
    <2>. QED  BY <2>2 DEF TypeInt
<1>3. xmin \in [Procs -> 0..(MaxXid + 1)]
    <2>1. \A p \in Procs : xmin[p] \in Nat /\ (xmin[p] # 0 => xmin[p] <= latestCompletedXid + 1)
        BY DEF TypeInt, OldInv, XminOld, Invalid
    <2>2. \A p \in Procs : xmin[p] \in 0..(MaxXid + 1)
        BY <1>1, <2>1
    <2>. QED  BY <2>2 DEF TypeInt
<1>4. parent \in [Xids -> 0..MaxXid]
    <2>1. \A x \in Xids : parent[x] \in 0..MaxXid
        BY <1>1 DEF ForestInv, LinksGoBack, Xids, Invalid
    <2>. QED  BY <2>1 DEF LogTypes
<1>5. done \subseteq Xids
    BY <1>1 DEF TypeInt, ForestInv, DoneBefore, Xids, Invalid
<1>6. ASSUME NEW p \in Procs
      PROVE  children[p] \subseteq Xids /\ ending[p] \subseteq Tree(p) /\ past[p] \subseteq done
    <2>1. children[p] \subseteq Own(p)
        BY OwnIs DEF Tree
    <2>. QED  BY <2>1, OwnInXids DEF XidOrder, Ordered, AnswerInv, Lists
<1>7. /\ overflowed \in [Procs -> BOOLEAN] /\ hint \in [Xids -> {"none", Committed, Aborted}]
      /\ clog \in [Xids -> {InProgress, SubCommitted, Committed, Aborted}]
      /\ pc \in [Procs -> {"run", "subabort", "commit", "abort"}]
    BY DEF TypeInt, LogTypes, Statuses
<1>8. cached \in [Procs -> [of : 0..MaxXid, status : Statuses]]
    <2>1. {Invalid} \union Xids = 0..MaxXid
        BY <1>1 DEF Xids, Invalid
    <2>. QED  BY <2>1 DEF LogTypes, Fetched
<1>9. nextXid \in 1..(MaxXid + 1) /\ latestCompletedXid \in 0..MaxXid /\ horizon \in 0..(MaxXid + 1)
    BY <1>1
<1>. QED  BY <1>2, <1>3, <1>4, <1>5, <1>6, <1>7, <1>8, <1>9 DEF TypeOK, Statuses

\* A visibility test answers for every transaction, and for all of its
\* subtransactions alike, whether it had committed when the snapshot was taken,
\* whatever commits between the steps of the test and whatever of the
\* subtransactions the array had no room for (tqual.c, HeapTupleSatisfiesMVCC;
\* procarray.c, GetSnapshotData).
THEOREM SnapshotIsExactHolds == Spec => []SnapshotIsExact
<1>1. Init => CachesComplete /\ OldInv /\ HintInv /\ AnswerInv
    BY CachesInit, OldInit, HintInit, AnswerInit
<1>2. TypeInt /\ TypeInt' /\ XidOrder /\ LogTypes /\ LogTypes' /\ ForestInv /\ LogInv
        /\ CachesComplete /\ OldInv /\ HintInv /\ AnswerInv /\ [Next]_vars
            => CachesComplete' /\ OldInv' /\ HintInv' /\ AnswerInv'
    BY CachesStep, OldStep, HintStep, AnswersStep
<1>3. TypeInt /\ XidOrder /\ LogTypes /\ ForestInv /\ CachesComplete /\ OldInv /\ AnswerInv
        => SnapshotIsExact
    BY TypesAre DEF SnapshotIsExact, AnswerInv, AnswerRight
<1>. QED  BY <1>1, <1>2, <1>3, LogInvariant, PTL DEF Spec
=============================================================================
