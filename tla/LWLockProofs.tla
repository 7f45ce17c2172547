---------------------------- MODULE LWLockProofs ----------------------------
(***************************************************************************)
(* Proofs about LWLock, for every set of processes and locks.              *)
(*                                                                         *)
(* The invariant is built in layers.  TypeInt is inductive by itself and   *)
(* leaves the counters that are decremented in Int.  CountInv relates the  *)
(* counters in shared memory to what the processes hold; mutual exclusion  *)
(* and the refinement of RWLock follow from it.                            *)
(***************************************************************************)
EXTENDS LWLock, FiniteSetTheorems, SequenceTheorems, TLAPS

TypeInt ==
  /\ exclusive \in [Locks -> 0..1]
  /\ shared \in [Locks -> Int]
  /\ releaseOK \in [Locks -> BOOLEAN]
  /\ queue \in [Locks -> Seq(Procs)]
  /\ lwWaiting \in [Procs -> BOOLEAN]
  /\ lwExclusive \in [Procs -> BOOLEAN]
  /\ sem \in [Procs -> Nat]
  /\ held \in [Procs -> [Locks -> Modes \cup {NotHeld}]]
  /\ holdoff \in [Procs -> Int]
  /\ pc \in [Procs -> {"run", "try", "sleep", "wake"}]
  /\ req \in [Procs -> Request]
  /\ wakeup \in [Procs -> Seq(Procs)]
  /\ hand \in [Procs -> Procs \cup {NoProc}]
  /\ recovering \in [Procs -> BOOLEAN]
  /\ pending \in [Procs -> Int]

\* The request of an idle process is well formed.
LEMMA NoRequestType == NoRequest \in Request
BY LWLockAssumption DEF NoRequest, NewRequest, Request, Modes

\* A part of a sequence of processes is a sequence of processes.
LEMMA PartOfQueue ==
  ASSUME NEW q \in Seq(Procs), NEW m \in Nat, NEW n \in Nat,
         m >= 1, n <= Len(q)
  PROVE  SubSeq(q, m, n) \in Seq(Procs)
<1>1. \A i \in m..n : q[i] \in Procs
  BY LenProperties, ElementOfSeq
<1>. QED  BY <1>1, SubSeqProperties

\* A release keeps the types of everything it writes.
LEMMA ReleaseSectionType ==
  ASSUME TypeInt, NEW p \in Procs, NEW l \in Locks, ReleaseSection(p, l)
  PROVE  /\ exclusive' \in [Locks -> 0..1]
         /\ shared' \in [Locks -> Int]
         /\ releaseOK' \in [Locks -> BOOLEAN]
         /\ queue' \in [Locks -> Seq(Procs)]
         /\ held' \in [Procs -> [Locks -> Modes \cup {NotHeld}]]
         /\ pc' \in [Procs -> {"run", "try", "sleep", "wake"}]
         /\ wakeup' \in [Procs -> Seq(Procs)]
<1>1. exclusive' \in [Locks -> 0..1]
  BY SMTT(30) DEF ReleaseSection, TypeInt
<1>2. shared' \in [Locks -> Int]
  BY DEF ReleaseSection, TypeInt, SharedAfterRelease
<1>3. held' \in [Procs -> [Locks -> Modes \cup {NotHeld}]]
  BY DEF ReleaseSection, TypeInt
<1>4. pc' \in [Procs -> {"run", "try", "sleep", "wake"}]
  BY DEF ReleaseSection, TypeInt
<1>5. PICK k \in 0..Len(queue[l]) :
        /\ wakeup' = [wakeup EXCEPT ![p] = SubSeq(queue[l], 1, k)]
        /\ queue' = [queue EXCEPT ![l] = SubSeq(@, k + 1, Len(@))]
        /\ releaseOK' = [releaseOK EXCEPT ![l] = @ /\ k = 0]
  BY DEF ReleaseSection, ToWake
<1>6. queue[l] \in Seq(Procs) /\ Len(queue[l]) \in Nat
  BY LenProperties DEF TypeInt
<1>7. /\ SubSeq(queue[l], 1, k) \in Seq(Procs)
      /\ SubSeq(queue[l], k + 1, Len(queue[l])) \in Seq(Procs)
  BY <1>5, <1>6, PartOfQueue
<1>8. wakeup' \in [Procs -> Seq(Procs)]
  BY <1>5, <1>7 DEF TypeInt
<1>9. queue' \in [Locks -> Seq(Procs)]
  BY <1>5, <1>7 DEF TypeInt
<1>10. releaseOK' \in [Locks -> BOOLEAN]
  BY <1>5 DEF TypeInt
<1>. QED  BY <1>1, <1>2, <1>3, <1>4, <1>8, <1>9, <1>10

LEMMA TypeInit == Init => TypeInt
<1>1. <<>> \in Seq(Procs)
  BY EmptySeq
<1>2. ASSUME Init PROVE held \in [Procs -> [Locks -> Modes \cup {NotHeld}]]
  BY <1>2 DEF Init
<1>. QED  BY <1>1, <1>2, NoRequestType DEF Init, TypeInt

LEMMA TypeStep == TypeInt /\ [Next]_vars => TypeInt'
<1>. SUFFICES ASSUME TypeInt, [Next]_vars PROVE TypeInt'
  OBVIOUS
<1>. USE DEF lockVars, waitVars, wakeVars
<1>1. ASSUME NEW p \in Procs, NEW l \in Locks, NEW m \in Modes,
             LWLockAcquire(p, l, m)
      PROVE  TypeInt'
  <2>1. NewRequest(l, m) \in Request
    BY DEF NewRequest, Request
  <2>. QED  BY <1>1, <2>1 DEF LWLockAcquire, TypeInt
<1>2. ASSUME NEW p \in Procs, NEW l \in Locks, NEW m \in Modes,
             LWLockConditionalAcquire(p, l, m)
      PROVE  TypeInt'
  <2>1. /\ exclusive' \in [Locks -> 0..1]
        /\ shared' \in [Locks -> Int]
        /\ held' \in [Procs -> [Locks -> Modes \cup {NotHeld}]]
    BY <1>2 DEF LWLockConditionalAcquire, Grant, Grantable, TypeInt
  <2>2. holdoff' \in [Procs -> Int]
    BY <1>2 DEF LWLockConditionalAcquire, TypeInt
  <2>. QED  BY <1>2, <2>1, <2>2 DEF LWLockConditionalAcquire, TypeInt
<1>3. ASSUME NEW p \in Procs, TryGranted(p)
      PROVE  TypeInt'
  <2>1. req[p] \in Request
    BY DEF TypeInt
  <2>2. /\ exclusive' \in [Locks -> 0..1]
        /\ shared' \in [Locks -> Int]
        /\ held' \in [Procs -> [Locks -> Modes \cup {NotHeld}]]
    BY <1>3, <2>1 DEF TryGranted, Grant, Grantable, TypeInt, Request
  <2>3. sem' \in [Procs -> Nat]
    BY <1>3, <2>1, SMTT(30) DEF TryGranted, GiveBack, TypeInt, Request
  <2>4. releaseOK' \in [Locks -> BOOLEAN]
    BY <1>3, <2>1 DEF TryGranted, ReleaseOKAfterTry, TypeInt, Request
  <2>. QED  BY <1>3, <2>2, <2>3, <2>4, NoRequestType DEF TryGranted, TypeInt
<1>4. ASSUME NEW p \in Procs, TryMustWait(p)
      PROVE  TypeInt'
  <2>1. req[p] \in Request
    BY DEF TypeInt
  <2>2. releaseOK' \in [Locks -> BOOLEAN]
    BY <1>4, <2>1 DEF TryMustWait, ReleaseOKAfterTry, TypeInt, Request
  <2>3. queue' \in [Locks -> Seq(Procs)]
    BY <1>4, <2>1, AppendProperties DEF TryMustWait, TypeInt, Request
  <2>4. /\ lwWaiting' \in [Procs -> BOOLEAN]
        /\ lwExclusive' \in [Procs -> BOOLEAN]
    BY <1>4, <2>1 DEF TryMustWait, TypeInt, Request
  <2>. QED  BY <1>4, <2>2, <2>3, <2>4 DEF TryMustWait, TypeInt
<1>5. ASSUME NEW p \in Procs, AbsorbSignal(p)
      PROVE  TypeInt'
  <2>1. req' \in [Procs -> Request]
    <3>1. req[p] \in Request
      BY DEF TypeInt
    <3>2. [req[p] EXCEPT !.extraWaits = @ + 1] \in Request
      BY <3>1 DEF Request
    <3>. QED  BY <1>5, <3>2 DEF AbsorbSignal, TypeInt
  <2>. QED  BY <1>5, <2>1 DEF AbsorbSignal, TypeInt
<1>6. ASSUME NEW p \in Procs, Awakened(p)
      PROVE  TypeInt'
  <2>1. req' \in [Procs -> Request]
    <3>1. req[p] \in Request
      BY DEF TypeInt
    <3>2. [req[p] EXCEPT !.retry = TRUE] \in Request
      BY <3>1 DEF Request
    <3>. QED  BY <1>6, <3>2 DEF Awakened, TypeInt
  <2>. QED  BY <1>6, <2>1 DEF Awakened, TypeInt
<1>7. ASSUME NEW p \in Procs, NEW l \in Locks, LWLockRelease(p, l)
      PROVE  TypeInt'
  <2>1. ReleaseSection(p, l)
    BY <1>7 DEF LWLockRelease
  <2>. QED  BY <1>7, <2>1, ReleaseSectionType DEF LWLockRelease, TypeInt
<1>8. ASSUME NEW p \in Procs, ClearWaiter(p)
      PROVE  TypeInt'
  <2>1. Head(wakeup[p]) \in Procs /\ Tail(wakeup[p]) \in Seq(Procs)
    BY <1>8, HeadTailProperties DEF ClearWaiter, TypeInt
  <2>. QED  BY <1>8, <2>1 DEF ClearWaiter, TypeInt
<1>9. ASSUME NEW p \in Procs, PostWaiter(p)
      PROVE  TypeInt'
  BY <1>9 DEF PostWaiter, TypeInt
<1>10. ASSUME NEW p \in Procs, ReleaseDone(p)
       PROVE  TypeInt'
  BY <1>10 DEF ReleaseDone, TypeInt
<1>11. ASSUME NEW p \in Procs, RaiseError(p)
       PROVE  TypeInt'
  BY <1>11 DEF RaiseError, HoldoffAfterError, TypeInt
<1>12. ASSUME NEW p \in Procs, NEW l \in Locks, LWLockReleaseAll(p, l)
       PROVE  TypeInt'
  <2>1. ReleaseSection(p, l)
    BY <1>12 DEF LWLockReleaseAll
  <2>2. holdoff' \in [Procs -> Int]
    BY <1>12 DEF LWLockReleaseAll, TypeInt
  <2>. QED
    BY <1>12, <2>1, <2>2, ReleaseSectionType DEF LWLockReleaseAll, TypeInt
<1>13. ASSUME NEW p \in Procs, RecoveryDone(p)
       PROVE  TypeInt'
  BY <1>13 DEF RecoveryDone, TypeInt
<1>14. ASSUME NEW p \in Procs, ProcSendSignal(p)
       PROVE  TypeInt'
  BY <1>14 DEF ProcSendSignal, TypeInt
<1>15. ASSUME NEW p \in Procs, ProcWaitForSignal(p)
       PROVE  TypeInt'
  BY <1>15 DEF ProcWaitForSignal, TypeInt
<1>16. CASE UNCHANGED vars
  BY <1>16 DEF vars, TypeInt
<1>. QED
  BY <1>1, <1>2, <1>3, <1>4, <1>5, <1>6, <1>7, <1>8, <1>9, <1>10, <1>11,
     <1>12, <1>13, <1>14, <1>15, <1>16
     DEF Next, LWLockStep, Recover

LEMMA TypeInvariant == Spec => []TypeInt
BY TypeInit, TypeStep, PTL DEF Spec

-----------------------------------------------------------------------------
(***************************************************************************)
(* The counters and the holders                                            *)
(***************************************************************************)

\* Readers and a writer never overlap.
ExclusiveAlone == \A l \in Locks : exclusive[l] = 0 \/ shared[l] = 0

\* A process that competes for a lock does not hold it.
NotYetHeld ==
  \A p \in Procs : pc[p] \in {"try", "sleep"} => held[p][req[p].lock] = NotHeld

CountInv == ExclusiveAlone /\ CountersMatchHolders /\ NotYetHeld

\* The holders of a lock in a mode form a finite set.
LEMMA HoldersFinite ==
  \A l, m : /\ IsFiniteSet(Holders(l, m))
            /\ Cardinality(Holders(l, m)) \in Nat
            /\ Cardinality(Holders(l, m)) = 0 <=> Holders(l, m) = {}
<1>. TAKE l, m
<1>1. Holders(l, m) \subseteq Procs
  BY DEF Holders
<1>. QED
  BY <1>1, LWLockAssumption, FS_Subset, FS_CardinalityType, FS_EmptySet

\* Taking a lock that is not held adds one holder in that mode.
LEMMA HoldersAfterGrant ==
  ASSUME TypeInt, NEW p \in Procs, NEW l \in Locks, NEW m \in Modes,
         held[p][l] = NotHeld,
         held' = [held EXCEPT ![p][l] = m]
  PROVE  \A k \in Locks, n \in Modes :
           Cardinality(Holders(k, n)') =
             Cardinality(Holders(k, n)) + (IF k = l /\ n = m THEN 1 ELSE 0)
<1>. TAKE k \in Locks, n \in Modes
<1>1. p \notin Holders(l, n)
  BY DEF Holders, Modes, EX, SH, NotHeld
<1>2. Holders(k, n)' =
        IF k = l /\ n = m THEN Holders(k, n) \cup {p} ELSE Holders(k, n)
  BY <1>1 DEF Holders, TypeInt, Modes, EX, SH, NotHeld
<1>3. CASE k = l /\ n = m
  BY <1>1, <1>2, <1>3, HoldersFinite, FS_AddElement, ZenonT(60)
<1>4. CASE ~(k = l /\ n = m)
  BY <1>2, <1>4, HoldersFinite
<1>. QED  BY <1>3, <1>4

\* Giving a lock up removes one holder in the mode it was held in.
LEMMA HoldersAfterRelease ==
  ASSUME TypeInt, NEW p \in Procs, NEW l \in Locks,
         held[p][l] # NotHeld,
         held' = [held EXCEPT ![p][l] = NotHeld]
  PROVE  \A k \in Locks, n \in Modes :
           Cardinality(Holders(k, n)') =
             Cardinality(Holders(k, n))
               - (IF k = l /\ n = held[p][l] THEN 1 ELSE 0)
<1>. TAKE k \in Locks, n \in Modes
<1>1. Holders(k, n)' =
        IF k = l /\ n = held[p][l] THEN Holders(k, n) \ {p} ELSE Holders(k, n)
  BY DEF Holders, TypeInt, Modes, EX, SH, NotHeld
<1>2. CASE k = l /\ n = held[p][l]
  <2>1. p \in Holders(k, n)
    BY <1>2 DEF Holders
  <2>. QED  BY <1>1, <1>2, <2>1, HoldersFinite, FS_RemoveElement, ZenonT(60)
<1>3. CASE ~(k = l /\ n = held[p][l])
  BY <1>1, <1>3, HoldersFinite
<1>. QED  BY <1>2, <1>3

\* Taking a grantable lock keeps the counters right.
LEMMA GrantCounts ==
  ASSUME TypeInt, ExclusiveAlone, CountersMatchHolders,
         NEW p \in Procs, NEW l \in Locks, NEW m \in Modes,
         held[p][l] = NotHeld, Grantable(l, m), Grant(p, l, m)
  PROVE  ExclusiveAlone' /\ CountersMatchHolders'
<1>1. \A k \in Locks, n \in Modes :
        Cardinality(Holders(k, n)') =
          Cardinality(Holders(k, n)) + (IF k = l /\ n = m THEN 1 ELSE 0)
  BY HoldersAfterGrant, ZenonT(60) DEF Grant
<1>2. /\ exclusive' = [exclusive EXCEPT ![l] = IF m = EX THEN @ + 1 ELSE @]
      /\ shared' = [shared EXCEPT ![l] = IF m = SH THEN @ + 1 ELSE @]
  BY DEF Grant
<1>3. CountersMatchHolders'
  <2>. SUFFICES ASSUME NEW k \in Locks
                PROVE  /\ exclusive'[k] = Cardinality(Holders(k, EX)')
                       /\ shared'[k] = Cardinality(Holders(k, SH)')
    BY DEF CountersMatchHolders
  <2>1. /\ exclusive[k] = Cardinality(Holders(k, EX))
        /\ shared[k] = Cardinality(Holders(k, SH))
    BY DEF CountersMatchHolders
  <2>2. /\ Cardinality(Holders(k, EX)') =
             Cardinality(Holders(k, EX)) + (IF k = l /\ m = EX THEN 1 ELSE 0)
        /\ Cardinality(Holders(k, SH)') =
             Cardinality(Holders(k, SH)) + (IF k = l /\ m = SH THEN 1 ELSE 0)
    BY <1>1 DEF Modes
  <2>3. exclusive[k] \in Int /\ shared[k] \in Int
    BY DEF TypeInt
  <2>. QED  BY <1>2, <2>1, <2>2, <2>3 DEF TypeInt
<1>4. ExclusiveAlone'
  BY <1>2 DEF ExclusiveAlone, Grantable, TypeInt, Modes, EX, SH
<1>. QED  BY <1>3, <1>4

\* A release, which reads off the counters what to decrement, decrements the
\* counter of the mode the process held.
LEMMA ReleaseCounts ==
  ASSUME TypeInt, ExclusiveAlone, CountersMatchHolders,
         NEW p \in Procs, NEW l \in Locks,
         held[p][l] # NotHeld, ReleaseSection(p, l)
  PROVE  ExclusiveAlone' /\ CountersMatchHolders'
<1>1. \A k \in Locks, n \in Modes :
        Cardinality(Holders(k, n)') =
          Cardinality(Holders(k, n))
            - (IF k = l /\ n = held[p][l] THEN 1 ELSE 0)
  BY HoldersAfterRelease DEF ReleaseSection
<1>2. /\ exclusive' = [exclusive EXCEPT ![l] = IF @ > 0 THEN @ - 1 ELSE @]
      /\ shared' = [shared EXCEPT ![l] = IF exclusive[l] > 0
                                         THEN shared[l] ELSE shared[l] - 1]
  BY DEF ReleaseSection, SharedAfterRelease
<1>3. held[p][l] \in Modes
  BY DEF TypeInt
<1>4. Cardinality(Holders(l, held[p][l])) > 0
  <2>1. p \in Holders(l, held[p][l])
    BY DEF Holders
  <2>. QED  BY <2>1, HoldersFinite
<1>5. exclusive[l] > 0 <=> held[p][l] = EX
  <2>1. /\ exclusive[l] = Cardinality(Holders(l, EX))
        /\ shared[l] = Cardinality(Holders(l, SH))
        /\ exclusive[l] = 0 \/ shared[l] = 0
    BY DEF CountersMatchHolders, ExclusiveAlone
  <2>2. held[p][l] = EX \/ held[p][l] = SH
    BY <1>3 DEF Modes
  <2>3. exclusive[l] \in 0..1 /\ shared[l] \in Int /\ EX # SH
    BY DEF TypeInt, EX, SH
  <2>. QED  BY <1>4, <2>1, <2>2, <2>3
<1>6. CountersMatchHolders'
  <2>. SUFFICES ASSUME NEW k \in Locks
                PROVE  /\ exclusive'[k] = Cardinality(Holders(k, EX)')
                       /\ shared'[k] = Cardinality(Holders(k, SH)')
    BY DEF CountersMatchHolders
  <2>1. /\ exclusive[k] = Cardinality(Holders(k, EX))
        /\ shared[k] = Cardinality(Holders(k, SH))
    BY DEF CountersMatchHolders
  <2>2. /\ Cardinality(Holders(k, EX)') = Cardinality(Holders(k, EX))
             - (IF k = l /\ held[p][l] = EX THEN 1 ELSE 0)
        /\ Cardinality(Holders(k, SH)') = Cardinality(Holders(k, SH))
             - (IF k = l /\ held[p][l] = SH THEN 1 ELSE 0)
    BY <1>1 DEF Modes
  <2>3. held[p][l] = EX \/ held[p][l] = SH
    BY <1>3 DEF Modes
  <2>4. EX # SH
    BY DEF EX, SH
  <2>5. exclusive[k] \in Int /\ shared[k] \in Int
    BY DEF TypeInt
  <2>. QED  BY <1>2, <1>5, <2>1, <2>2, <2>3, <2>4, <2>5 DEF TypeInt
<1>7. ExclusiveAlone'
  <2>. SUFFICES ASSUME NEW k \in Locks
                PROVE  exclusive'[k] = 0 \/ shared'[k] = 0
    BY DEF ExclusiveAlone
  <2>1. exclusive[k] \in 0..1 /\ shared[k] \in Int
    BY DEF TypeInt
  <2>2. exclusive[k] = 0 \/ shared[k] = 0
    BY DEF ExclusiveAlone
  <2>. QED  BY <1>2, <2>1, <2>2 DEF TypeInt
<1>. QED  BY <1>6, <1>7

LEMMA CountInit == Init => CountInv
<1>. SUFFICES ASSUME Init PROVE CountInv
  OBVIOUS
<1>1. ASSUME NEW l \in Locks, NEW m \in Modes PROVE Holders(l, m) = {}
  BY DEF Init, Holders, Modes, EX, SH, NotHeld
<1>2. \A l \in Locks : /\ Cardinality(Holders(l, EX)) = 0
                       /\ Cardinality(Holders(l, SH)) = 0
  BY <1>1, FS_EmptySet DEF Modes
<1>3. CountersMatchHolders
  BY <1>2 DEF Init, CountersMatchHolders
<1>4. ExclusiveAlone /\ NotYetHeld
  BY DEF Init, ExclusiveAlone, NotYetHeld
<1>. QED  BY <1>3, <1>4 DEF CountInv

\* A step that leaves the counters and what is held alone keeps them right.
LEMMA CountUnchanged ==
  ASSUME ExclusiveAlone, CountersMatchHolders,
         UNCHANGED <<exclusive, shared, held>>
  PROVE  ExclusiveAlone' /\ CountersMatchHolders'
BY DEF ExclusiveAlone, CountersMatchHolders, Holders

LEMMA CountStep == TypeInt /\ CountInv /\ [Next]_vars => CountInv'
<1>. SUFFICES ASSUME TypeInt, CountInv, [Next]_vars PROVE CountInv'
  OBVIOUS
<1>. USE DEF CountInv, lockVars, waitVars, wakeVars
<1>1. ASSUME NEW p \in Procs, NEW l \in Locks, NEW m \in Modes,
             LWLockAcquire(p, l, m)
      PROVE  CountInv'
  <2>1. held[p][l] = NotHeld
    BY <1>1 DEF LWLockAcquire
  <2>2. NotYetHeld'
    BY <1>1, <2>1 DEF LWLockAcquire, NotYetHeld, NewRequest, TypeInt
  <2>. QED  BY <1>1, <2>2, CountUnchanged DEF LWLockAcquire
<1>2. ASSUME NEW p \in Procs, NEW l \in Locks, NEW m \in Modes,
             LWLockConditionalAcquire(p, l, m)
      PROVE  CountInv'
  <2>1. ExclusiveAlone' /\ CountersMatchHolders'
    BY <1>2, GrantCounts DEF LWLockConditionalAcquire
  <2>2. NotYetHeld'
    BY <1>2 DEF LWLockConditionalAcquire, Grant, NotYetHeld, TypeInt, Request
  <2>. QED  BY <2>1, <2>2
<1>3. ASSUME NEW p \in Procs, TryGranted(p)
      PROVE  CountInv'
  <2>1. req[p].lock \in Locks /\ req[p].mode \in Modes
    BY DEF TypeInt, Request
  <2>2. held[p][req[p].lock] = NotHeld
    BY <1>3 DEF TryGranted, NotYetHeld
  <2>3. ExclusiveAlone' /\ CountersMatchHolders'
    BY <1>3, <2>1, <2>2, GrantCounts DEF TryGranted
  <2>4. NotYetHeld'
    BY <1>3 DEF TryGranted, Grant, NotYetHeld, TypeInt, Request
  <2>. QED  BY <2>3, <2>4
<1>4. ASSUME NEW p \in Procs, TryMustWait(p)
      PROVE  CountInv'
  <2>1. NotYetHeld'
    BY <1>4 DEF TryMustWait, NotYetHeld, TypeInt
  <2>. QED  BY <1>4, <2>1, CountUnchanged DEF TryMustWait
<1>5. ASSUME NEW p \in Procs, AbsorbSignal(p)
      PROVE  CountInv'
  <2>1. req[p] \in Request
    BY DEF TypeInt
  <2>2. [req[p] EXCEPT !.extraWaits = @ + 1].lock = req[p].lock
    BY <2>1 DEF Request
  <2>3. NotYetHeld'
    BY <1>5, <2>2 DEF AbsorbSignal, NotYetHeld, TypeInt
  <2>. QED  BY <1>5, <2>3, CountUnchanged DEF AbsorbSignal
<1>6. ASSUME NEW p \in Procs, Awakened(p)
      PROVE  CountInv'
  <2>1. req[p] \in Request
    BY DEF TypeInt
  <2>2. [req[p] EXCEPT !.retry = TRUE].lock = req[p].lock
    BY <2>1 DEF Request
  <2>3. NotYetHeld'
    BY <1>6, <2>2 DEF Awakened, NotYetHeld, TypeInt
  <2>. QED  BY <1>6, <2>3, CountUnchanged DEF Awakened
<1>7. ASSUME NEW p \in Procs, NEW l \in Locks,
             LWLockRelease(p, l) \/ LWLockReleaseAll(p, l)
      PROVE  CountInv'
  <2>1. held[p][l] # NotHeld /\ ReleaseSection(p, l) /\ req' = req
    BY <1>7 DEF LWLockRelease, LWLockReleaseAll
  <2>2. ExclusiveAlone' /\ CountersMatchHolders'
    BY <2>1, ReleaseCounts
  <2>3. NotYetHeld'
    BY <2>1 DEF ReleaseSection, NotYetHeld, TypeInt, Request
  <2>. QED  BY <2>2, <2>3
<1>8. ASSUME NEW p \in Procs,
             ReleaseDone(p)
      PROVE  CountInv'
  <2>1. NotYetHeld'
    BY <1>8 DEF ReleaseDone, NotYetHeld, TypeInt
  <2>. QED  BY <1>8, <2>1, CountUnchanged DEF ReleaseDone
<1>9. ASSUME UNCHANGED <<exclusive, shared, held, pc, req>>
      PROVE  CountInv'
  <2>1. NotYetHeld'
    BY <1>9 DEF NotYetHeld
  <2>. QED  BY <1>9, <2>1, CountUnchanged
<1>10. ASSUME NEW p \in Procs,
              \/ ClearWaiter(p) \/ PostWaiter(p)
              \/ RaiseError(p) \/ RecoveryDone(p)
              \/ ProcSendSignal(p) \/ ProcWaitForSignal(p)
       PROVE  CountInv'
  <2>1. UNCHANGED <<exclusive, shared, held, pc, req>>
    BY <1>10 DEF ClearWaiter, PostWaiter, RaiseError, RecoveryDone,
                 ProcSendSignal, ProcWaitForSignal
  <2>. QED  BY <1>9, <2>1
<1>11. CASE UNCHANGED vars
  BY <1>9, <1>11 DEF vars
<1>. QED
  BY <1>1, <1>2, <1>3, <1>4, <1>5, <1>6, <1>7, <1>8, <1>10, <1>11
     DEF Next, LWLockStep, Recover

LEMMA CountInvariant == Spec => []CountInv
BY CountInit, CountStep, TypeInvariant, PTL DEF Spec

\* The counters every grant decision is based on are exact, for any number of
\* processes and locks: retries, dequeued waiters and error recovery count
\* each hold once and give it back once.
THEOREM CountersMatchHoldersHolds == Spec => []CountersMatchHolders
BY CountInvariant, PTL DEF CountInv

\* The counters rule out a reader or a second writer beside a writer.
LEMMA CountersExclude == TypeInt /\ CountInv => MutualExclusion
<1>. SUFFICES ASSUME TypeInt, CountInv,
                     NEW l \in Locks, NEW p \in Procs, NEW q \in Procs,
                     held[p][l] = EX, p # q, held[q][l] # NotHeld
              PROVE  FALSE
  BY DEF MutualExclusion
<1>1. /\ exclusive[l] = Cardinality(Holders(l, EX))
      /\ shared[l] = Cardinality(Holders(l, SH))
      /\ exclusive[l] = 0 \/ shared[l] = 0
      /\ exclusive[l] \in 0..1
  BY DEF CountInv, CountersMatchHolders, ExclusiveAlone, TypeInt
<1>2. p \in Holders(l, EX)
  BY DEF Holders
<1>3. exclusive[l] = 1 /\ shared[l] = 0
  BY <1>1, <1>2, HoldersFinite
<1>4. held[q][l] # SH
  BY <1>1, <1>3, HoldersFinite DEF Holders
<1>5. held[q][l] = EX
  BY <1>4 DEF TypeInt, Modes
<1>6. q \in Holders(l, EX)
  BY <1>5 DEF Holders
<1>7. PICK x : Holders(l, EX) = {x}
  BY <1>1, <1>3, HoldersFinite, FS_Singleton
<1>. QED  BY <1>2, <1>6, <1>7

\* Any number of processes taking, giving back and losing locks to errors in
\* any order never share an exclusively held lock.
THEOREM MutualExclusionHolds == Spec => []MutualExclusion
BY TypeInvariant, CountInvariant, CountersExclude, PTL

-----------------------------------------------------------------------------
(***************************************************************************)
(* Refinement of the reader/writer lock                                    *)
(***************************************************************************)

\* The grant test, which sees only the counters, implies that the requested
\* mode is compatible with what every process holds.
LEMMA GrantableCompatible ==
  ASSUME TypeInt, CountInv, NEW l \in Locks, NEW m \in Modes, Grantable(l, m)
  PROVE  Abstract!Compatible(l, m)
<1>. SUFFICES ASSUME NEW q \in Procs
              PROVE  held[q][l] # EX /\ (m = EX => held[q][l] = NotHeld)
  BY DEF Abstract!Compatible, Abstract!EX, Abstract!NotHeld, EX, NotHeld
<1>1. /\ exclusive[l] = Cardinality(Holders(l, EX))
      /\ shared[l] = Cardinality(Holders(l, SH))
  BY DEF CountInv, CountersMatchHolders
<1>2. exclusive[l] = 0 /\ (m = EX => shared[l] = 0)
  BY DEF Grantable
<1>3. Holders(l, EX) = {} /\ (m = EX => Holders(l, SH) = {})
  BY <1>1, <1>2, HoldersFinite
<1>4. held[q][l] # EX /\ (m = EX => held[q][l] # SH)
  BY <1>3 DEF Holders
<1>. QED  BY <1>4 DEF TypeInt, Modes

\* Every step of LWLock takes or gives back one lock of RWLock, or stutters.
LEMMA StepRefines ==
  TypeInt /\ CountInv /\ [Next]_vars => [Abstract!Next]_held
<1>. SUFFICES ASSUME TypeInt, CountInv, [Next]_vars
              PROVE  [Abstract!Next]_held
  OBVIOUS
<1>. USE DEF lockVars, waitVars, wakeVars
<1>0. Abstract!Modes = Modes /\ Abstract!NotHeld = NotHeld
  BY DEF Abstract!Modes, Abstract!EX, Abstract!SH, Abstract!NotHeld,
         Modes, EX, SH, NotHeld
<1>1. ASSUME NEW p \in Procs, NEW l \in Locks, NEW m \in Modes,
             Grantable(l, m), Grant(p, l, m)
      PROVE  Abstract!Next
  <2>1. Abstract!Acquire(p, l, m)
    BY <1>1, GrantableCompatible DEF Abstract!Acquire, Grant
  <2>. QED  BY <1>0, <2>1 DEF Abstract!Next
<1>2. ASSUME NEW p \in Procs, NEW l \in Locks,
             held[p][l] # NotHeld, ReleaseSection(p, l)
      PROVE  Abstract!Next
  <2>1. Abstract!Release(p, l)
    BY <1>0, <1>2 DEF Abstract!Release, ReleaseSection
  <2>. QED  BY <2>1 DEF Abstract!Next
<1>3. ASSUME NEW p \in Procs, NEW l \in Locks, NEW m \in Modes,
             LWLockConditionalAcquire(p, l, m)
      PROVE  Abstract!Next
  BY <1>1, <1>3 DEF LWLockConditionalAcquire
<1>4. ASSUME NEW p \in Procs, TryGranted(p)
      PROVE  Abstract!Next
  <2>1. req[p].lock \in Locks /\ req[p].mode \in Modes
    BY DEF TypeInt, Request
  <2>. QED  BY <1>1, <1>4, <2>1 DEF TryGranted
<1>5. ASSUME NEW p \in Procs, NEW l \in Locks,
             LWLockRelease(p, l) \/ LWLockReleaseAll(p, l)
      PROVE  Abstract!Next
  BY <1>2, <1>5 DEF LWLockRelease, LWLockReleaseAll
<1>6. ASSUME NEW p \in Procs,
             \/ \E l \in Locks, m \in Modes : LWLockAcquire(p, l, m)
             \/ TryMustWait(p) \/ AbsorbSignal(p) \/ Awakened(p)
             \/ ClearWaiter(p) \/ PostWaiter(p) \/ ReleaseDone(p)
             \/ RaiseError(p) \/ RecoveryDone(p)
             \/ ProcSendSignal(p) \/ ProcWaitForSignal(p)
      PROVE  UNCHANGED held
  BY <1>6 DEF LWLockAcquire, TryMustWait, AbsorbSignal, Awakened, ClearWaiter,
              PostWaiter, ReleaseDone, RaiseError, RecoveryDone,
              ProcSendSignal, ProcWaitForSignal
<1>7. CASE UNCHANGED vars
  BY <1>7 DEF vars
<1>. QED
  BY <1>3, <1>4, <1>5, <1>6, <1>7 DEF Next, LWLockStep, Recover

\* LWLock implements RWLock for every set of processes and locks.
THEOREM RefinesRWLock == Spec => ImplementsRWLock
<1>1. Init => Abstract!Init
  BY DEF Init, Abstract!Init, NotHeld, Abstract!NotHeld
<1>. QED
  BY <1>1, StepRefines, TypeInvariant, CountInvariant, PTL
     DEF Spec, ImplementsRWLock, Abstract!Spec

-----------------------------------------------------------------------------
(***************************************************************************)
(* Held-off interrupts                                                     *)
(***************************************************************************)

\* Error recovery never waits for a lock.
RecoveryDoesNotWait ==
  \A p \in Procs : pc[p] \in {"try", "sleep"} => ~recovering[p]

HoldoffInv == InterruptsHeldOff /\ RecoveryDoesNotWait

\* What a process holds is a finite set of locks.
LEMMA HeldFinite ==
  \A p : /\ IsFiniteSet(HeldLocks(p))
         /\ NumHeld(p) \in Nat
         /\ NumHeld(p) = 0 <=> HeldLocks(p) = {}
<1>. TAKE p
<1>1. HeldLocks(p) \subseteq Locks
  BY DEF HeldLocks
<1>. QED
  BY <1>1, LWLockAssumption, FS_Subset, FS_CardinalityType, FS_EmptySet
     DEF NumHeld

\* Taking or giving up a lock changes the number of locks a process holds by
\* one, and that of no other process.
LEMMA NumHeldAfter ==
  ASSUME TypeInt, NEW p \in Procs, NEW l \in Locks,
         NEW m \in Modes \cup {NotHeld},
         held' = [held EXCEPT ![p][l] = m],
         (held[p][l] = NotHeld) # (m = NotHeld)
  PROVE  \A q \in Procs :
           NumHeld(q)' = IF q # p THEN NumHeld(q)
                         ELSE IF m = NotHeld THEN NumHeld(q) - 1
                         ELSE NumHeld(q) + 1
<1>. TAKE q \in Procs
<1>1. HeldLocks(q)' = IF q # p THEN HeldLocks(q)
                      ELSE IF m = NotHeld THEN HeldLocks(q) \ {l}
                      ELSE HeldLocks(q) \cup {l}
  BY DEF HeldLocks, TypeInt
<1>2. CASE q # p
  BY <1>1, <1>2 DEF NumHeld
<1>3. CASE q = p /\ m = NotHeld
  <2>1. l \in HeldLocks(q)
    BY <1>3 DEF HeldLocks
  <2>. QED  BY <1>1, <1>3, <2>1, HeldFinite, FS_RemoveElement, ZenonT(60) DEF NumHeld
<1>4. CASE q = p /\ m # NotHeld
  <2>1. l \notin HeldLocks(q)
    BY <1>4 DEF HeldLocks
  <2>. QED  BY <1>1, <1>4, <2>1, HeldFinite, FS_AddElement, SMTT(30) DEF NumHeld
<1>. QED  BY <1>2, <1>3, <1>4

LEMMA HoldoffInit == Init => HoldoffInv
<1>. SUFFICES ASSUME Init PROVE HoldoffInv
  OBVIOUS
<1>1. ASSUME NEW p \in Procs PROVE HeldLocks(p) = {}
  BY DEF Init, HeldLocks
<1>2. \A p \in Procs : NumHeld(p) = 0
  BY <1>1, HeldFinite
<1>. QED  BY <1>2 DEF Init, HoldoffInv, InterruptsHeldOff, RecoveryDoesNotWait

\* The invariant for one process.
HeldOffOf(p) ==
  holdoff[p] = (IF recovering[p] THEN 1 ELSE NumHeld(p))
               + (IF pc[p] = "run" THEN 0 ELSE 1)

\* A step of p that keeps the invariant for p, and the state of the others,
\* keeps the invariant.
LEMMA HoldoffLocal ==
  ASSUME TypeInt, HoldoffInv, NEW p \in Procs,
         \A q \in Procs \ {p} :
           /\ holdoff'[q] = holdoff[q] /\ recovering'[q] = recovering[q]
           /\ pc'[q] = pc[q] /\ NumHeld(q)' = NumHeld(q),
         HeldOffOf(p)',
         pc'[p] \in {"try", "sleep"} => ~recovering'[p]
  PROVE  HoldoffInv'
<1>. USE DEF HeldOffOf
<1>1. ASSUME NEW q \in Procs PROVE HeldOffOf(q)'
  BY DEF HoldoffInv, InterruptsHeldOff
<1>2. InterruptsHeldOff'
  BY <1>1 DEF InterruptsHeldOff
<1>3. RecoveryDoesNotWait'
  BY DEF HoldoffInv, RecoveryDoesNotWait
<1>. QED  BY <1>2, <1>3 DEF HoldoffInv

LEMMA HoldoffStep == TypeInt /\ CountInv /\ HoldoffInv /\ [Next]_vars => HoldoffInv'
<1>. SUFFICES ASSUME TypeInt, CountInv, HoldoffInv, [Next]_vars
              PROVE  HoldoffInv'
  OBVIOUS
<1>. USE DEF lockVars, waitVars, wakeVars
<1>0. ASSUME NEW p \in Procs
      PROVE  /\ HeldOffOf(p)
             /\ pc[p] \in {"try", "sleep"} => ~recovering[p]
             /\ holdoff[p] \in Int /\ NumHeld(p) \in Nat
  BY HeldFinite DEF HoldoffInv, InterruptsHeldOff, RecoveryDoesNotWait,
     HeldOffOf, TypeInt
<1>1. ASSUME held' = held PROVE \A q : NumHeld(q)' = NumHeld(q)
  BY <1>1 DEF NumHeld, HeldLocks
<1>2. ASSUME NEW p \in Procs, NEW l \in Locks, NEW m \in Modes,
             LWLockAcquire(p, l, m)
      PROVE  HoldoffInv'
  <2>1. HeldOffOf(p)'
    BY <1>0, <1>1, <1>2 DEF LWLockAcquire, HeldOffOf, TypeInt
  <2>. QED  BY <1>1, <1>2, <2>1, HoldoffLocal DEF LWLockAcquire, TypeInt
<1>3. ASSUME NEW p \in Procs, NEW l \in Locks, NEW m \in Modes,
             LWLockConditionalAcquire(p, l, m)
      PROVE  HoldoffInv'
  <2>1. \A q \in Procs :
          NumHeld(q)' = IF q # p THEN NumHeld(q) ELSE NumHeld(q) + 1
    BY <1>3, NumHeldAfter
       DEF LWLockConditionalAcquire, Grant, Modes, EX, SH, NotHeld
  <2>2. HeldOffOf(p)'
    BY <1>0, <1>3, <2>1 DEF LWLockConditionalAcquire, HeldOffOf, TypeInt
  <2>. QED
    BY <1>3, <2>1, <2>2, HoldoffLocal DEF LWLockConditionalAcquire, TypeInt
<1>4. ASSUME NEW p \in Procs, TryGranted(p)
      PROVE  HoldoffInv'
  <2>1. req[p].lock \in Locks /\ req[p].mode \in Modes
    BY DEF TypeInt, Request
  <2>2. held[p][req[p].lock] = NotHeld
    BY <1>4 DEF TryGranted, CountInv, NotYetHeld
  <2>3. \A q \in Procs :
          NumHeld(q)' = IF q # p THEN NumHeld(q) ELSE NumHeld(q) + 1
    BY <1>4, <2>1, <2>2, NumHeldAfter
       DEF TryGranted, Grant, Modes, EX, SH, NotHeld
  <2>4. HeldOffOf(p)'
    <3>1. /\ pc[p] = "try" /\ pc'[p] = "run"
          /\ UNCHANGED <<holdoff, recovering>>
      BY <1>4 DEF TryGranted, TypeInt
    <3>. QED  BY <1>0, <2>3, <3>1 DEF HeldOffOf
  <2>. QED  BY <1>4, <2>3, <2>4, HoldoffLocal DEF TryGranted, TypeInt
<1>5. ASSUME NEW p \in Procs,
             TryMustWait(p) \/ AbsorbSignal(p) \/ Awakened(p)
      PROVE  HoldoffInv'
  <2>1. /\ UNCHANGED <<held, holdoff, recovering>>
        /\ pc[p] \in {"try", "sleep"} /\ pc'[p] \in {"try", "sleep"}
        /\ \A q \in Procs \ {p} : pc'[q] = pc[q]
    BY <1>5 DEF TryMustWait, AbsorbSignal, Awakened, TypeInt
  <2>2. HeldOffOf(p)'
    BY <1>0, <1>1, <2>1 DEF HeldOffOf
  <2>. QED  BY <1>0, <1>1, <2>1, <2>2, HoldoffLocal
<1>6. ASSUME NEW p \in Procs, NEW l \in Locks,
             LWLockRelease(p, l) \/ LWLockReleaseAll(p, l)
      PROVE  HoldoffInv'
  <2>1. held[p][l] # NotHeld /\ ReleaseSection(p, l)
    BY <1>6 DEF LWLockRelease, LWLockReleaseAll
  <2>2. \A q \in Procs :
          NumHeld(q)' = IF q # p THEN NumHeld(q) ELSE NumHeld(q) - 1
    <3>1. /\ held' = [held EXCEPT ![p][l] = NotHeld]
          /\ NotHeld \in Modes \cup {NotHeld}
      BY <2>1 DEF ReleaseSection
    <3>2. (held[p][l] = NotHeld) # (NotHeld = NotHeld)
      BY <2>1
    <3>. QED  BY <3>1, <3>2, NumHeldAfter, ZenonT(60)
  <2>3. pc[p] = "run" /\ pc' = [pc EXCEPT ![p] = "wake"]
    BY <1>6, <2>1 DEF LWLockRelease, LWLockReleaseAll, ReleaseSection
  <2>4. /\ recovering' = recovering
        /\ holdoff' = IF recovering[p] THEN [holdoff EXCEPT ![p] = @ + 1]
                                       ELSE holdoff
    BY <1>6 DEF LWLockRelease, LWLockReleaseAll
  <2>5. HeldOffOf(p)'
    BY <1>0, <2>2, <2>3, <2>4 DEF HeldOffOf, TypeInt
  <2>. QED  BY <2>2, <2>3, <2>4, <2>5, HoldoffLocal DEF TypeInt
<1>7. ASSUME NEW p \in Procs, ReleaseDone(p)
      PROVE  HoldoffInv'
  <2>1. HeldOffOf(p)'
    <3>1. /\ pc[p] = "wake" /\ pc'[p] = "run"
          /\ holdoff'[p] = holdoff[p] - 1
          /\ UNCHANGED <<held, recovering>>
      BY <1>7 DEF ReleaseDone, TypeInt
    <3>. QED  BY <1>0, <1>1, <3>1 DEF HeldOffOf
  <2>. QED  BY <1>1, <1>7, <2>1, HoldoffLocal DEF ReleaseDone, TypeInt
<1>8. ASSUME NEW p \in Procs, RaiseError(p)
      PROVE  HoldoffInv'
  <2>1. HeldOffOf(p)'
    BY <1>0, <1>1, <1>8
       DEF RaiseError, HoldoffAfterError, HeldOffOf, TypeInt
  <2>. QED
    BY <1>1, <1>8, <2>1, HoldoffLocal DEF RaiseError, TypeInt
<1>9. ASSUME NEW p \in Procs, RecoveryDone(p)
      PROVE  HoldoffInv'
  <2>1. NumHeld(p) = 0
    BY <1>9, HeldFinite DEF RecoveryDone
  <2>2. HeldOffOf(p)'
    BY <1>0, <1>1, <1>9, <2>1 DEF RecoveryDone, HeldOffOf, TypeInt
  <2>. QED  BY <1>1, <1>9, <2>2, HoldoffLocal DEF RecoveryDone, TypeInt
<1>10. ASSUME UNCHANGED <<held, holdoff, recovering, pc>>
       PROVE  HoldoffInv'
  BY <1>1, <1>10 DEF HoldoffInv, InterruptsHeldOff, RecoveryDoesNotWait
<1>11. ASSUME NEW p \in Procs,
              \/ ClearWaiter(p) \/ PostWaiter(p)
              \/ ProcSendSignal(p) \/ ProcWaitForSignal(p)
       PROVE  HoldoffInv'
  BY <1>10, <1>11 DEF ClearWaiter, PostWaiter, ProcSendSignal, ProcWaitForSignal
<1>12. CASE UNCHANGED vars
  BY <1>10, <1>12 DEF vars
<1>. QED
  BY <1>2, <1>3, <1>4, <1>5, <1>6, <1>7, <1>8, <1>9, <1>11, <1>12
     DEF Next, LWLockStep, Recover

\* Interrupts stay held off exactly as long as locks are held or being taken
\* or given back, through errors, for any number of processes and locks.
THEOREM InterruptsHeldOffHolds == Spec => []InterruptsHeldOff
<1>1. Spec => []HoldoffInv
  BY HoldoffInit, HoldoffStep, TypeInvariant, CountInvariant, PTL DEF Spec
<1>. QED  BY <1>1, PTL DEF HoldoffInv

-----------------------------------------------------------------------------
(***************************************************************************)
(* No waiter is forgotten.  WaitInv says where a waiting process can be:   *)
(* in the queue of the lock it asked for, once, or in the list of one      *)
(* releaser, once, and nowhere else.  RetryInv adds what releaseOK stands  *)
(* for: while it is off, a dequeued process is on its way to set it again. *)
(* SignalInv accounts for the units of the process semaphores.  The first  *)
(* does not need the others; the second needs the first, and so does the   *)
(* third.                                                                  *)
(***************************************************************************)


\* p sleeps in LWLockAcquire and no waker has cleared its flag.
Waiting(p) == pc[p] = "sleep" /\ lwWaiting[p]

\* A queued process waits for that lock, and is nowhere else.
QueueSound ==
  \A l \in Locks : \A i \in 1..Len(queue[l]) :
    /\ Waiting(queue[l][i])
    /\ req[queue[l][i]].lock = l
    /\ \A j \in 1..Len(queue[l]) : queue[l][i] = queue[l][j] => i = j
    /\ \A w \in Procs : \A j \in 1..Len(wakeup[w]) : queue[l][i] # wakeup[w][j]

\* A dequeued process still waits, and one releaser has it once.
WakeupSound ==
  \A w \in Procs : \A i \in 1..Len(wakeup[w]) :
    /\ Waiting(wakeup[w][i])
    /\ \A v \in Procs : \A j \in 1..Len(wakeup[v]) :
         wakeup[w][i] = wakeup[v][j] => w = v /\ i = j

\* Only a process inside LWLockRelease has others to wake.
WakerBusy ==
  \A w \in Procs : hand[w] # NoProc \/ wakeup[w] # <<>> => pc[w] = "wake"

\* A waiting process is in the queue of its lock or in a releaser's list.
WaiterPlaced ==
  \A p \in Procs :
    Waiting(p) => \/ IsIn(p, queue[req[p].lock])
                  \/ \E w \in Procs : IsIn(p, wakeup[w])

WaitInv == QueueSound /\ WakeupSound /\ WakerBusy /\ WaiterPlaced

-----------------------------------------------------------------------------
(***************************************************************************)
(* Where a waiting process is                                              *)
(***************************************************************************)

\* Queues and lists of dequeued waiters hold processes.
LEMMA WaiterTypes ==
  ASSUME TypeInt
  PROVE  /\ \A l \in Locks :
              /\ queue[l] \in Seq(Procs) /\ Len(queue[l]) \in Nat
              /\ \A i \in 1..Len(queue[l]) : queue[l][i] \in Procs
         /\ \A w \in Procs :
              /\ wakeup[w] \in Seq(Procs) /\ Len(wakeup[w]) \in Nat
              /\ \A i \in 1..Len(wakeup[w]) : wakeup[w][i] \in Procs
<1>1. /\ \A l \in Locks : queue[l] \in Seq(Procs)
      /\ \A w \in Procs : wakeup[w] \in Seq(Procs)
  BY DEF TypeInt
<1>. QED  BY <1>1, ElementOfSeq, LenProperties

LEMMA WaitInit == Init => WaitInv
<1>. SUFFICES ASSUME Init PROVE WaitInv
  OBVIOUS
<1>1. /\ \A l \in Locks : Len(queue[l]) = 0
      /\ \A w \in Procs : Len(wakeup[w]) = 0 /\ wakeup[w] = <<>>
  BY EmptySeq DEF Init
<1>2. \A p \in Procs : ~Waiting(p) /\ hand[p] = NoProc
  BY DEF Init, Waiting
<1>. QED
  BY <1>1, <1>2 DEF WaitInv, QueueSound, WakeupSound, WakerBusy, WaiterPlaced

\* A step that moves no waiter keeps them where they are.
LEMMA WaitersUnmoved ==
  ASSUME TypeInt, WaitInv, UNCHANGED <<queue, wakeup>>,
         \A p \in Procs : Waiting(p)' = Waiting(p),
         \A p \in Procs : Waiting(p) => req'[p].lock = req[p].lock,
         WakerBusy'
  PROVE  WaitInv'
<1>1. /\ \A l \in Locks : \A i \in 1..Len(queue[l]) : queue[l][i] \in Procs
      /\ \A w \in Procs : \A i \in 1..Len(wakeup[w]) : wakeup[w][i] \in Procs
  BY ElementOfSeq DEF TypeInt
<1>2. QueueSound'
  BY <1>1 DEF WaitInv, QueueSound
<1>3. WakeupSound'
  BY <1>1 DEF WaitInv, WakeupSound
<1>4. WaiterPlaced'
  BY DEF WaitInv, WaiterPlaced, IsIn
<1>. QED  BY <1>2, <1>3, <1>4 DEF WaitInv

\* A caller that cannot have the lock joins the tail of its queue.
LEMMA WaiterJoins ==
  ASSUME TypeInt, WaitInv, NEW p \in Procs, TryMustWait(p)
  PROVE  WaitInv'
<1>. USE DEF lockVars, waitVars, wakeVars
<1>0. req[p].lock \in Locks
  BY DEF TypeInt, Request
<1>. SUFFICES ASSUME NEW l \in Locks, l = req[p].lock PROVE WaitInv'
  BY <1>0
<1>1. /\ pc[p] = "try" /\ ~Waiting(p)
      /\ Len(queue[l]) \in Nat
  BY WaiterTypes DEF TryMustWait, Waiting
<1>2. /\ Len(queue'[l]) = Len(queue[l]) + 1
      /\ \A i \in 1..Len(queue[l]) : queue'[l][i] = queue[l][i]
      /\ queue'[l][Len(queue[l]) + 1] = p
      /\ \A k \in Locks \ {l} : queue'[k] = queue[k]
  <2>1. queue' = [queue EXCEPT ![l] = Append(queue[l], p)]
    BY DEF TryMustWait
  <2>. QED  BY WaiterTypes, <2>1, AppendProperties DEF TypeInt
<1>3. req' = req /\ wakeup' = wakeup /\ hand' = hand
  BY DEF TryMustWait
<1>4. /\ Waiting(p)'
      /\ \A x \in Procs \ {p} : Waiting(x)' = Waiting(x) /\ pc'[x] = pc[x]
  BY DEF TryMustWait, Waiting, TypeInt
<1>5. ASSUME NEW k \in Locks, NEW i \in 1..Len(queue[k])
      PROVE  queue[k][i] \in Procs \ {p}
  BY <1>1, WaiterTypes DEF WaitInv, QueueSound
<1>6. ASSUME NEW w \in Procs, NEW i \in 1..Len(wakeup[w])
      PROVE  wakeup[w][i] \in Procs \ {p}
  BY <1>1, WaiterTypes DEF WaitInv, WakeupSound
<1>7. QueueSound'
  <2>. SUFFICES ASSUME NEW k \in Locks, NEW i \in 1..Len(queue'[k])
                PROVE  /\ Waiting(queue[k][i])'
                       /\ req'[queue'[k][i]].lock = k
                       /\ \A j \in 1..Len(queue'[k]) :
                            queue'[k][i] = queue'[k][j] => i = j
                       /\ \A w \in Procs : \A j \in 1..Len(wakeup'[w]) :
                            queue'[k][i] # wakeup'[w][j]
    BY DEF QueueSound
  <2>1. CASE k # l
    <3>1. queue'[k] = queue[k]
      BY <1>2, <2>1
    <3>2. queue[k][i] \in Procs \ {p}
      BY <1>5, <3>1
    <3>. QED
      BY <1>3, <1>4, <3>1, <3>2 DEF WaitInv, QueueSound
  <2>2. CASE k = l /\ i = Len(queue[l]) + 1
    <3>1. queue'[k][i] = p
      BY <1>2, <2>2
    <3>2. ASSUME NEW j \in 1..Len(queue'[k]), i # j PROVE queue'[k][j] # p
      <4>1. j \in 1..Len(queue[l]) /\ queue'[k][j] = queue[l][j]
        BY <1>1, <1>2, <2>2, <3>2
      <4>. QED  BY <1>5, <4>1
    <3>3. Waiting(queue[k][i])'
      BY <1>4, <3>1 DEF Waiting
    <3>. QED  BY <1>3, <1>6, <2>2, <3>1, <3>2, <3>3
  <2>3. CASE k = l /\ i # Len(queue[l]) + 1
    <3>1. i \in 1..Len(queue[l]) /\ queue'[l][i] = queue[l][i]
      BY <1>1, <1>2, <2>3
    <3>2. queue[l][i] \in Procs \ {p}
      BY <1>5, <3>1
    <3>3. /\ Waiting(queue[l][i]) /\ req[queue[l][i]].lock = l
          /\ \A j \in 1..Len(queue[l]) : queue[l][i] = queue[l][j] => i = j
          /\ \A w \in Procs : \A j \in 1..Len(wakeup[w]) :
               queue[l][i] # wakeup[w][j]
      BY <3>1 DEF WaitInv, QueueSound
    <3>4. \A j \in 1..Len(queue'[l]) : queue[l][i] = queue'[l][j] => i = j
      BY <1>1, <1>2, <3>2, <3>3, SMTT(30)
    <3>5. Waiting(queue[l][i])'
      <4>. SUFFICES ASSUME NEW x \in Procs, x = queue'[l][i] PROVE Waiting(x)'
        BY <3>1, <3>2 DEF Waiting
      <4>. QED  BY <1>4, <3>1, <3>2, <3>3
    <3>. QED  BY <1>3, <2>3, <3>1, <3>3, <3>4, <3>5
  <2>. QED  BY <2>1, <2>2, <2>3
<1>8. WakeupSound'
  BY <1>3, <1>4, <1>6 DEF WaitInv, WakeupSound
<1>9. WakerBusy'
  BY <1>1, <1>3, <1>4 DEF WaitInv, WakerBusy
<1>10. WaiterPlaced'
  <2>. SUFFICES ASSUME NEW x \in Procs, Waiting(x)'
                PROVE  \/ IsIn(x, queue'[req[x].lock])
                       \/ \E w \in Procs : IsIn(x, wakeup[w])
    BY <1>3 DEF WaiterPlaced, IsIn
  <2>1. CASE x = p
    BY <1>1, <1>2, <2>1 DEF IsIn
  <2>2. CASE x # p /\ IsIn(x, queue[req[x].lock])
    <3>1. req[x].lock \in Locks
      BY DEF TypeInt, Request
    <3>2. PICK i \in 1..Len(queue[req[x].lock]) : queue[req[x].lock][i] = x
      BY <2>2 DEF IsIn
    <3>3. /\ i \in 1..Len(queue'[req[x].lock])
          /\ queue'[req[x].lock][i] = x
      <4>1. CASE req[x].lock = l
        BY <1>1, <1>2, <3>2, <4>1, SMTT(30)
      <4>2. CASE req[x].lock # l
        BY <1>2, <3>1, <3>2, <4>2
      <4>. QED  BY <4>1, <4>2
    <3>. QED  BY <3>3 DEF IsIn
  <2>3. CASE x # p /\ \E w \in Procs : IsIn(x, wakeup[w])
    BY <2>3
  <2>. QED  BY <1>4, <2>1, <2>2, <2>3 DEF WaitInv, WaiterPlaced
<1>. QED  BY <1>7, <1>8, <1>9, <1>10 DEF WaitInv

\* A releaser unlinks the first process it has to wake and clears its flag.
LEMMA WaiterLeaves ==
  ASSUME TypeInt, WaitInv, NEW p \in Procs, ClearWaiter(p)
  PROVE  WaitInv'
<1>. USE DEF lockVars, waitVars, wakeVars
<1>1. /\ wakeup[p] \in Seq(Procs) /\ wakeup[p] # <<>> /\ Len(wakeup[p]) \in Nat
      /\ Head(wakeup[p]) = wakeup[p][1] /\ Len(wakeup[p]) >= 1
  BY WaiterTypes, EmptySeq DEF ClearWaiter
<1>. SUFFICES ASSUME NEW x \in Procs, x = wakeup[p][1] PROVE WaitInv'
  BY <1>1, WaiterTypes
<1>2. /\ Len(wakeup'[p]) = Len(wakeup[p]) - 1
      /\ \A i \in 1..Len(wakeup[p]) - 1 : wakeup'[p][i] = wakeup[p][i + 1]
      /\ \A w \in Procs \ {p} : wakeup'[w] = wakeup[w]
  <2>1. wakeup' = [wakeup EXCEPT ![p] = Tail(wakeup[p])]
    BY DEF ClearWaiter
  <2>. QED  BY <1>1, <2>1, HeadTailProperties DEF TypeInt
<1>3. /\ UNCHANGED <<queue, req, pc>>
      /\ lwWaiting' = [lwWaiting EXCEPT ![x] = FALSE]
      /\ hand' = [hand EXCEPT ![p] = x]
      /\ pc[p] = "wake"
  BY <1>1 DEF ClearWaiter
<1>4. ~Waiting(x)' /\ \A y \in Procs \ {x} : Waiting(y)' = Waiting(y)
  BY <1>3 DEF Waiting, TypeInt
<1>5. \A w \in Procs : \A i \in 1..Len(wakeup[w]) :
        wakeup[w][i] = x => w = p /\ i = 1
  BY <1>1 DEF WaitInv, WakeupSound
<1>6. ASSUME NEW w \in Procs, NEW i \in 1..Len(wakeup'[w])
      PROVE  /\ wakeup'[w][i] \in Procs \ {x}
             /\ LET j == IF w = p THEN i + 1 ELSE i
                IN  j \in 1..Len(wakeup[w]) /\ wakeup'[w][i] = wakeup[w][j]
  <2>1. CASE w = p
    <3>1. i + 1 \in 1..Len(wakeup[p]) /\ wakeup'[p][i] = wakeup[p][i + 1]
      BY <1>1, <1>2, <2>1
    <3>. QED  BY <1>5, <2>1, <3>1, WaiterTypes
  <2>2. CASE w # p
    BY <1>2, <1>5, <2>2, WaiterTypes
  <2>. QED  BY <2>1, <2>2
<1>7. ASSUME NEW l \in Locks, NEW i \in 1..Len(queue[l])
      PROVE  queue[l][i] \in Procs \ {x}
  BY <1>1, WaiterTypes DEF WaitInv, QueueSound
<1>8. QueueSound'
  <2>. SUFFICES ASSUME NEW l \in Locks, NEW i \in 1..Len(queue[l])
                PROVE  /\ Waiting(queue[l][i])'
                       /\ req[queue[l][i]].lock = l
                       /\ \A j \in 1..Len(queue[l]) :
                            queue[l][i] = queue[l][j] => i = j
                       /\ \A w \in Procs : \A j \in 1..Len(wakeup'[w]) :
                            queue[l][i] # wakeup'[w][j]
    BY <1>3 DEF QueueSound
  <2>1. Waiting(queue[l][i]) /\ queue'[l][i] = queue[l][i]
    BY <1>3 DEF WaitInv, QueueSound
  <2>2. Waiting(queue[l][i])'
    BY <1>3, <1>7, <2>1 DEF Waiting, TypeInt
  <2>3. ASSUME NEW w \in Procs, NEW j \in 1..Len(wakeup'[w])
        PROVE  queue[l][i] # wakeup'[w][j]
    <3>1. PICK a \in 1..Len(wakeup[w]) : wakeup'[w][j] = wakeup[w][a]
      <4>. DEFINE k == IF w = p THEN j + 1 ELSE j
      <4>1. k \in 1..Len(wakeup[w]) /\ wakeup'[w][j] = wakeup[w][k]
        BY <1>6
      <4>. HIDE DEF k
      <4>. QED  BY <4>1
    <3>2. \A b \in 1..Len(wakeup[w]) : queue[l][i] # wakeup[w][b]
      BY DEF WaitInv, QueueSound
    <3>. QED  BY <3>1, <3>2
  <2>. QED  BY <2>2, <2>3 DEF WaitInv, QueueSound
<1>9. WakeupSound'
  <2>. SUFFICES ASSUME NEW w \in Procs, NEW i \in 1..Len(wakeup'[w])
                PROVE  /\ Waiting(wakeup[w][i])'
                       /\ \A v \in Procs : \A j \in 1..Len(wakeup'[v]) :
                            wakeup'[w][i] = wakeup'[v][j] => w = v /\ i = j
    BY DEF WakeupSound
  <2>1. Waiting(wakeup[w][i])'
    <3>. SUFFICES ASSUME NEW y \in Procs \ {x}, y = wakeup'[w][i]
                  PROVE  Waiting(y)'
      BY <1>6 DEF Waiting
    <3>1. Waiting(y)
      BY <1>6 DEF WaitInv, WakeupSound
    <3>. QED  BY <1>4, <3>1
  <2>2. ASSUME NEW v \in Procs, NEW j \in 1..Len(wakeup'[v]),
               wakeup'[w][i] = wakeup'[v][j]
        PROVE  w = v /\ i = j
    <3>1. PICK a \in 1..Len(wakeup[w]) :
            /\ wakeup'[w][i] = wakeup[w][a]
            /\ a = IF w = p THEN i + 1 ELSE i
      BY <1>6
    <3>2. PICK b \in 1..Len(wakeup[v]) :
            /\ wakeup'[v][j] = wakeup[v][b]
            /\ b = IF v = p THEN j + 1 ELSE j
      BY <1>6
    <3>5. \A c \in 1..Len(wakeup[w]) : \A d \in 1..Len(wakeup[v]) :
            wakeup[w][c] = wakeup[v][d] => w = v /\ c = d
      BY <2>2 DEF WaitInv, WakeupSound
    <3>3. w = v /\ a = b
      BY <2>2, <3>5, <3>1, <3>2
    <3>4. i \in Int /\ j \in Int
      BY <2>2
    <3>. QED  BY <3>1, <3>2, <3>3, <3>4
  <2>. QED  BY <2>1, <2>2
<1>10. WakerBusy'
  BY <1>2, <1>3 DEF WaitInv, WakerBusy, TypeInt
<1>11. WaiterPlaced'
  <2>. SUFFICES ASSUME NEW y \in Procs, Waiting(y)', ~IsIn(y, queue[req[y].lock])
                PROVE  \E w \in Procs : IsIn(y, wakeup'[w])
    BY <1>3 DEF WaiterPlaced, IsIn
  <2>1. y # x /\ Waiting(y)
    BY <1>4
  <2>2. PICK w \in Procs : IsIn(y, wakeup[w])
    BY <2>1 DEF WaitInv, WaiterPlaced
  <2>5. PICK i \in 1..Len(wakeup[w]) : wakeup[w][i] = y
    BY <2>2 DEF IsIn
  <2>3. CASE w # p
    BY <1>2, <2>3, <2>5 DEF IsIn
  <2>4. CASE w = p
    <3>1. i - 1 \in 1..Len(wakeup'[p]) /\ wakeup'[p][i - 1] = y
      BY <1>1, <1>2, <2>1, <2>5, <2>4
    <3>. QED  BY <3>1 DEF IsIn
  <2>. QED  BY <2>3, <2>4
<1>. QED  BY <1>8, <1>9, <1>10, <1>11 DEF WaitInv

\* A release splits the queue in two: the first k processes go to the
\* releaser's list, the others stay.
LEMMA ReleaseSplits ==
  ASSUME TypeInt, NEW p \in Procs, NEW l \in Locks, ReleaseSection(p, l)
  PROVE  \E k \in 0..Len(queue[l]) :
           /\ DequeueCount(l, k)
           /\ Len(wakeup'[p]) = k
           /\ \A i \in 1..k : wakeup'[p][i] = queue[l][i]
           /\ \A w \in Procs \ {p} : wakeup'[w] = wakeup[w]
           /\ Len(queue'[l]) = Len(queue[l]) - k
           /\ \A i \in 1..Len(queue[l]) - k : queue'[l][i] = queue[l][i + k]
           /\ \A m \in Locks \ {l} : queue'[m] = queue[m]
           /\ releaseOK' = [releaseOK EXCEPT ![l] = releaseOK[l] /\ k = 0]
<1>1. PICK k \in 0..Len(queue[l]) :
        /\ DequeueCount(l, k)
        /\ wakeup' = [wakeup EXCEPT ![p] = SubSeq(queue[l], 1, k)]
        /\ queue' = [queue EXCEPT ![l] = SubSeq(queue[l], k + 1, Len(queue[l]))]
        /\ releaseOK' = [releaseOK EXCEPT ![l] = releaseOK[l] /\ k = 0]
  BY DEF ReleaseSection, ToWake
<1>2. /\ Len(queue[l]) \in Nat
      /\ \A i \in 1..Len(queue[l]) : queue[l][i] \in Procs
  BY WaiterTypes
<1>3. /\ Len(SubSeq(queue[l], 1, k)) = k
      /\ \A i \in 1..k : SubSeq(queue[l], 1, k)[i] = queue[l][i]
  <2>1. \A i \in 1..k : queue[l][i] \in Procs
    BY <1>2
  <2>2. /\ Len(SubSeq(queue[l], 1, k)) = IF 1 <= k THEN k - 1 + 1 ELSE 0
        /\ \A i \in 1..k - 1 + 1 : SubSeq(queue[l], 1, k)[i] = queue[l][1 + i - 1]
    BY <1>1, <1>2, <2>1, SubSeqProperties
  <2>. QED  BY <1>2, <2>2
<1>4. /\ Len(SubSeq(queue[l], k + 1, Len(queue[l]))) = Len(queue[l]) - k
      /\ \A i \in 1..Len(queue[l]) - k :
           SubSeq(queue[l], k + 1, Len(queue[l]))[i] = queue[l][i + k]
  BY <1>1, <1>2, SubSeqProperties, SMTT(30)
<1>. QED  BY <1>1, <1>3, <1>4 DEF TypeInt

\* A release moves the head of the queue to the list of a releaser that had
\* nobody to wake.
LEMMA WaitersDequeued ==
  ASSUME TypeInt, WaitInv, NEW p \in Procs, NEW l \in Locks,
         pc[p] = "run", ReleaseSection(p, l), UNCHANGED <<lwWaiting, req, hand>>
  PROVE  WaitInv'
<1>1. PICK k \in 0..Len(queue[l]) :
        /\ Len(wakeup'[p]) = k
        /\ \A i \in 1..k : wakeup'[p][i] = queue[l][i]
        /\ \A w \in Procs \ {p} : wakeup'[w] = wakeup[w]
        /\ Len(queue'[l]) = Len(queue[l]) - k
        /\ \A i \in 1..Len(queue[l]) - k : queue'[l][i] = queue[l][i + k]
        /\ \A m \in Locks \ {l} : queue'[m] = queue[m]
  BY ReleaseSplits
<1>2. Len(queue[l]) \in Nat /\ k \in Nat /\ k <= Len(queue[l])
  BY <1>1, WaiterTypes
<1>3. wakeup[p] = <<>> /\ hand[p] = NoProc
  BY DEF WaitInv, WakerBusy
<1>4. /\ pc' = [pc EXCEPT ![p] = "wake"]
      /\ \A x \in Procs : Waiting(x)' = Waiting(x)
  BY DEF ReleaseSection, Waiting, TypeInt
<1>5. ASSUME NEW m \in Locks, NEW i \in 1..Len(queue'[m])
      PROVE  LET j == IF m = l THEN i + k ELSE i
             IN  j \in 1..Len(queue[m]) /\ queue'[m][i] = queue[m][j]
  BY <1>1, <1>2
<1>6. ASSUME NEW w \in Procs, NEW i \in 1..Len(wakeup'[w])
      PROVE  \/ /\ w = p /\ i \in 1..k /\ i \in 1..Len(queue[l])
                /\ wakeup'[w][i] = queue[l][i]
             \/ /\ w # p /\ i \in 1..Len(wakeup[w])
                /\ wakeup'[w][i] = wakeup[w][i]
  BY <1>1, <1>2
<1>7. /\ \A m \in Locks : \A i \in 1..Len(queue[m]) :
           Waiting(queue[m][i]) /\ req[queue[m][i]].lock = m
      /\ \A m \in Locks : \A i \in 1..Len(queue[m]), j \in 1..Len(queue[m]) :
           queue[m][i] = queue[m][j] => i = j
      /\ \A m \in Locks : \A i \in 1..Len(queue[m]) : \A w \in Procs :
           \A j \in 1..Len(wakeup[w]) : queue[m][i] # wakeup[w][j]
  BY DEF WaitInv, QueueSound
<1>8. QueueSound'
  <2>. SUFFICES ASSUME NEW m \in Locks, NEW i \in 1..Len(queue'[m])
                PROVE  /\ Waiting(queue[m][i])'
                       /\ req[queue'[m][i]].lock = m
                       /\ \A j \in 1..Len(queue'[m]) :
                            queue'[m][i] = queue'[m][j] => i = j
                       /\ \A w \in Procs : \A j \in 1..Len(wakeup'[w]) :
                            queue'[m][i] # wakeup'[w][j]
    BY DEF QueueSound
  <2>1. PICK a \in 1..Len(queue[m]) : /\ queue'[m][i] = queue[m][a]
                                      /\ a = IF m = l THEN i + k ELSE i
    BY <1>5
  <2>2. Waiting(queue[m][i])'
    <3>. SUFFICES ASSUME NEW x \in Procs, x = queue'[m][i] PROVE Waiting(x)'
      BY <2>1, WaiterTypes DEF Waiting
    <3>. QED  BY <1>4, <1>7, <2>1
  <2>3. req[queue'[m][i]].lock = m
    BY <1>7, <2>1
  <2>4. ASSUME NEW j \in 1..Len(queue'[m]), queue'[m][i] = queue'[m][j]
        PROVE  i = j
    <3>1. PICK b \in 1..Len(queue[m]) : /\ queue'[m][j] = queue[m][b]
                                        /\ b = IF m = l THEN j + k ELSE j
      BY <1>5, <2>4
    <3>2. a = b
      BY <1>7, <2>1, <2>4, <3>1
    <3>3. i \in Int /\ j \in Int
      BY <2>4
    <3>. QED  BY <1>2, <2>1, <3>1, <3>2, <3>3
  <2>5. ASSUME NEW w \in Procs, NEW j \in 1..Len(wakeup'[w])
        PROVE  queue'[m][i] # wakeup'[w][j]
    <3>1. CASE w # p
      BY <1>6, <1>7, <2>1, <2>5, <3>1
    <3>2. CASE w = p /\ m = l
      <4>1. /\ j \in 1..k /\ j \in 1..Len(queue[l])
            /\ wakeup'[w][j] = queue[l][j]
        BY <1>6, <2>5, <3>2
      <4>2. a # j
        BY <1>2, <2>1, <3>2, <4>1
      <4>. QED  BY <1>7, <2>1, <3>2, <4>1, <4>2
    <3>3. CASE w = p /\ m # l
      <4>1. j \in 1..Len(queue[l]) /\ wakeup'[w][j] = queue[l][j]
        BY <1>6, <2>5, <3>3
      <4>. QED  BY <1>7, <2>1, <3>3, <4>1, SMTT(30)
    <3>. QED  BY <3>1, <3>2, <3>3
  <2>. QED  BY <2>2, <2>3, <2>4, <2>5
<1>9. WakeupSound'
  <2>. SUFFICES ASSUME NEW w \in Procs, NEW i \in 1..Len(wakeup'[w])
                PROVE  /\ Waiting(wakeup[w][i])'
                       /\ \A v \in Procs : \A j \in 1..Len(wakeup'[v]) :
                            wakeup'[w][i] = wakeup'[v][j] => w = v /\ i = j
    BY DEF WakeupSound
  <2>0. /\ \A u \in Procs : \A c \in 1..Len(wakeup[u]) : Waiting(wakeup[u][c])
        /\ \A u, v \in Procs : \A c \in 1..Len(wakeup[u]) :
             \A d \in 1..Len(wakeup[v]) :
               wakeup[u][c] = wakeup[v][d] => u = v /\ c = d
    BY DEF WaitInv, WakeupSound
  <2>1. Waiting(wakeup[w][i])'
    <3>. SUFFICES ASSUME NEW x \in Procs, x = wakeup'[w][i] PROVE Waiting(x)'
      BY <1>6, WaiterTypes, SMTT(30) DEF Waiting
    <3>. QED  BY <1>4, <1>6, <1>7, <2>0
  <2>2. ASSUME NEW v \in Procs, NEW j \in 1..Len(wakeup'[v]),
               wakeup'[w][i] = wakeup'[v][j]
        PROVE  w = v /\ i = j
    <3>1. CASE w = p /\ v = p
      BY <1>6, <1>7, <2>2, <3>1
    <3>2. CASE w = p /\ v # p
      BY <1>6, <1>7, <2>2, <3>2
    <3>3. CASE w # p /\ v = p
      BY <1>6, <1>7, <2>2, <3>3
    <3>4. CASE w # p /\ v # p
      BY <1>6, <2>0, <2>2, <3>4
    <3>. QED  BY <3>1, <3>2, <3>3, <3>4
  <2>. QED  BY <2>1, <2>2
<1>10. WakerBusy'
  BY <1>1, <1>4 DEF WaitInv, WakerBusy, TypeInt
<1>11. WaiterPlaced'
  <2>. SUFFICES ASSUME NEW x \in Procs, Waiting(x)
                PROVE  \/ IsIn(x, queue'[req[x].lock])
                       \/ \E w \in Procs : IsIn(x, wakeup'[w])
    BY <1>4 DEF WaiterPlaced, IsIn
  <2>1. CASE \E w \in Procs : IsIn(x, wakeup[w])
    <3>1. PICK w \in Procs : IsIn(x, wakeup[w])
      BY <2>1
    <3>2. w # p
      BY <1>3, <3>1, EmptySeq DEF IsIn
    <3>. QED  BY <1>1, <3>1, <3>2
  <2>2. CASE IsIn(x, queue[req[x].lock])
    <3>1. req[x].lock \in Locks
      BY DEF TypeInt, Request
    <3>2. PICK i \in 1..Len(queue[req[x].lock]) : queue[req[x].lock][i] = x
      BY <2>2 DEF IsIn
    <3>3. CASE req[x].lock # l
      BY <1>1, <2>2, <3>1, <3>3
    <3>4. CASE req[x].lock = l /\ i <= k
      <4>1. i \in 1..Len(wakeup'[p]) /\ wakeup'[p][i] = x
        BY <1>1, <1>2, <3>2, <3>4
      <4>. QED  BY <4>1 DEF IsIn
    <3>5. CASE req[x].lock = l /\ ~(i <= k)
      <4>1. i - k \in 1..Len(queue'[l]) /\ queue'[l][i - k] = x
        BY <1>1, <1>2, <3>2, <3>5
      <4>. QED  BY <3>5, <4>1 DEF IsIn
    <3>. QED  BY <3>3, <3>4, <3>5
  <2>. QED  BY <2>1, <2>2 DEF WaitInv, WaiterPlaced
<1>. QED  BY <1>8, <1>9, <1>10, <1>11 DEF WaitInv

LEMMA WaitStep == TypeInt /\ WaitInv /\ [Next]_vars => WaitInv'
<1>. SUFFICES ASSUME TypeInt, WaitInv, [Next]_vars PROVE WaitInv'
  OBVIOUS
<1>. USE DEF lockVars, waitVars, wakeVars
<1>1. ASSUME NEW p \in Procs, NEW l \in Locks, NEW m \in Modes,
             LWLockAcquire(p, l, m)
      PROVE  WaitInv'
  <2>1. /\ UNCHANGED <<queue, wakeup, hand, lwWaiting>>
        /\ pc[p] = "run" /\ pc' = [pc EXCEPT ![p] = "try"]
        /\ \A q \in Procs \ {p} : req'[q] = req[q]
    BY <1>1 DEF LWLockAcquire, TypeInt
  <2>2. WakerBusy'
    BY <2>1 DEF WaitInv, WakerBusy, TypeInt
  <2>. QED  BY <2>1, <2>2, WaitersUnmoved DEF Waiting, TypeInt
<1>2. ASSUME NEW p \in Procs, TryGranted(p)
      PROVE  WaitInv'
  <2>1. /\ UNCHANGED <<queue, wakeup, hand, lwWaiting>>
        /\ pc[p] = "try" /\ pc' = [pc EXCEPT ![p] = "run"]
        /\ \A q \in Procs \ {p} : req'[q] = req[q]
    BY <1>2 DEF TryGranted, TypeInt
  <2>2. WakerBusy'
    BY <2>1 DEF WaitInv, WakerBusy, TypeInt
  <2>. QED  BY <2>1, <2>2, WaitersUnmoved DEF Waiting, TypeInt
<1>3. ASSUME NEW p \in Procs, AbsorbSignal(p)
      PROVE  WaitInv'
  <2>1. /\ UNCHANGED <<queue, wakeup, hand, lwWaiting, pc>>
        /\ req' = [req EXCEPT ![p].extraWaits = @ + 1]
    BY <1>3 DEF AbsorbSignal
  <2>2. \A q \in Procs : req'[q].lock = req[q].lock
    BY <2>1 DEF TypeInt, Request
  <2>3. WakerBusy'
    BY <2>1 DEF WaitInv, WakerBusy
  <2>. QED  BY <2>1, <2>2, <2>3, WaitersUnmoved DEF Waiting
<1>4. ASSUME NEW p \in Procs, Awakened(p)
      PROVE  WaitInv'
  <2>1. /\ UNCHANGED <<queue, wakeup, hand, lwWaiting>>
        /\ pc[p] = "sleep" /\ ~lwWaiting[p] /\ pc' = [pc EXCEPT ![p] = "try"]
        /\ \A q \in Procs \ {p} : req'[q] = req[q]
    BY <1>4 DEF Awakened, TypeInt
  <2>2. WakerBusy'
    BY <2>1 DEF WaitInv, WakerBusy, TypeInt
  <2>. QED  BY <2>1, <2>2, WaitersUnmoved DEF Waiting, TypeInt
<1>5. ASSUME NEW p \in Procs, NEW l \in Locks,
             LWLockRelease(p, l) \/ LWLockReleaseAll(p, l)
      PROVE  WaitInv'
  BY <1>5, WaitersDequeued DEF LWLockRelease, LWLockReleaseAll
<1>6. ASSUME NEW p \in Procs, PostWaiter(p) \/ ReleaseDone(p)
      PROVE  WaitInv'
  <2>1. /\ UNCHANGED <<queue, wakeup, lwWaiting, req>>
        /\ pc[p] = "wake"
        /\ \A q \in Procs \ {p} : pc'[q] = pc[q] /\ hand'[q] = hand[q]
        /\ hand'[p] = NoProc /\ pc'[p] # "sleep"
        /\ pc'[p] = "wake" \/ wakeup[p] = <<>>
    BY <1>6 DEF PostWaiter, ReleaseDone, TypeInt
  <2>2. WakerBusy'
    BY <2>1 DEF WaitInv, WakerBusy
  <2>. QED  BY <2>1, <2>2, WaitersUnmoved DEF Waiting
<1>7. ASSUME UNCHANGED <<queue, wakeup, hand, lwWaiting, pc, req>>
      PROVE  WaitInv'
  <2>1. WakerBusy'
    BY <1>7 DEF WaitInv, WakerBusy
  <2>. QED  BY <1>7, <2>1, WaitersUnmoved DEF Waiting
<1>8. ASSUME NEW p \in Procs,
             \/ \E l \in Locks, m \in Modes : LWLockConditionalAcquire(p, l, m)
             \/ RaiseError(p) \/ RecoveryDone(p)
             \/ ProcSendSignal(p) \/ ProcWaitForSignal(p)
      PROVE  WaitInv'
  BY <1>7, <1>8 DEF LWLockConditionalAcquire, RaiseError, RecoveryDone,
                    ProcSendSignal, ProcWaitForSignal
<1>9. CASE UNCHANGED vars
  BY <1>7, <1>9 DEF vars
<1>. QED
  BY <1>1, <1>2, <1>3, <1>4, <1>5, <1>6, <1>8, <1>9, WaiterJoins, WaiterLeaves
     DEF Next, LWLockStep, Recover

LEMMA WaitInvariant == Spec => []WaitInv
BY WaitInit, WaitStep, TypeInvariant, PTL DEF Spec

-----------------------------------------------------------------------------
(***************************************************************************)
(* What releaseOK stands for                                               *)
(***************************************************************************)

\* While wakeups of a lock are switched off, a dequeued process is on its way
\* to compete for it again and switch them on.
RetryComing == \A l \in Locks : ~releaseOK[l] => \E p \in Procs : Retrier(l, p)

RetryInv == RetryComing /\ NoLostWakeup

\* A step that leaves releaseOK alone, loses no retrier and does not free a
\* lock somebody queues for keeps the promise.
LEMMA RetriersStay ==
  ASSUME RetryInv, releaseOK' = releaseOK,
         \A l \in Locks, p \in Procs : Retrier(l, p) => Retrier(l, p)',
         \A l \in Locks : LockFree(l)' => LockFree(l),
         \A l \in Locks : queue'[l] # <<>> => queue[l] # <<>>
  PROVE  RetryInv'
BY DEF RetryInv, RetryComing, NoLostWakeup

\* A process that has retried switches the wakeups of its lock on again; one
\* that came new to the lock was not what the others counted on.
LEMMA RetrierActs ==
  ASSUME TypeInt, RetryInv, NEW p \in Procs, NEW k \in Locks,
         pc[p] = "try", k = req[p].lock,
         releaseOK' = [releaseOK EXCEPT ![k] = ReleaseOKAfterTry(k, req[p].retry)],
         ~LockFree(k)',
         \A l \in Locks \ {k} : queue'[l] = queue[l] /\ LockFree(l)' = LockFree(l),
         \A l \in Locks, q \in Procs \ {p} : Retrier(l, q) => Retrier(l, q)'
  PROVE  RetryInv'
<1>1. req[p].retry \in BOOLEAN /\ releaseOK[k] \in BOOLEAN
  BY DEF TypeInt, Request
<1>2. /\ releaseOK'[k] = (releaseOK[k] \/ req[p].retry)
      /\ \A l \in Locks \ {k} : releaseOK'[l] = releaseOK[l]
  BY DEF ReleaseOKAfterTry, TypeInt
<1>. SUFFICES ASSUME NEW l \in Locks,
                     \/ ~releaseOK'[l]
                     \/ LockFree(l)' /\ queue'[l] # <<>>
              PROVE  \E q \in Procs : Retrier(l, q)'
  BY DEF RetryInv, RetryComing, NoLostWakeup
<1>3. CASE l = k
  <2>1. ~releaseOK[l] /\ ~req[p].retry
    BY <1>1, <1>2, <1>3
  <2>2. PICK q \in Procs : Retrier(l, q)
    BY <2>1 DEF RetryInv, RetryComing
  <2>3. q # p
    BY <2>1, <2>2 DEF Retrier
  <2>. QED  BY <2>2, <2>3
<1>4. CASE l # k
  <2>1. PICK q \in Procs : Retrier(l, q)
    BY <1>2, <1>4 DEF RetryInv, RetryComing, NoLostWakeup
  <2>2. q # p
    BY <1>4, <2>1 DEF Retrier
  <2>. QED  BY <2>1, <2>2
<1>. QED  BY <1>3, <1>4

LEMMA RetryStep ==
  TypeInt /\ CountInv /\ WaitInv /\ RetryInv /\ [Next]_vars => RetryInv'
<1>. SUFFICES ASSUME TypeInt, CountInv, WaitInv, RetryInv, [Next]_vars
              PROVE  RetryInv'
  OBVIOUS
<1>. USE DEF lockVars, waitVars, wakeVars
<1>1. ASSUME NEW p \in Procs, NEW l \in Locks, NEW m \in Modes,
             LWLockAcquire(p, l, m)
      PROVE  RetryInv'
  <2>1. /\ UNCHANGED <<exclusive, shared, releaseOK, queue>>
        /\ pc[p] = "run"
        /\ \A q \in Procs \ {p} : req'[q] = req[q] /\ pc'[q] = pc[q]
    BY <1>1 DEF LWLockAcquire, TypeInt
  <2>. QED  BY <2>1, RetriersStay DEF Retrier, LockFree
<1>2. ASSUME NEW p \in Procs, NEW l \in Locks, NEW m \in Modes,
             Grantable(l, m), Grant(p, l, m)
      PROVE  /\ ~LockFree(l)'
             /\ \A k \in Locks \ {l} : LockFree(k)' = LockFree(k)
  <2>1. shared[l] \in Nat
    BY HoldersFinite DEF CountInv, CountersMatchHolders
  <2>. QED
    BY <1>2, <2>1 DEF Grant, Grantable, LockFree, TypeInt, Modes, EX, SH
<1>3. ASSUME NEW p \in Procs, NEW l \in Locks, NEW m \in Modes,
             LWLockConditionalAcquire(p, l, m)
      PROVE  RetryInv'
  <2>1. \A k \in Locks : LockFree(k)' => LockFree(k)
    BY <1>2, <1>3 DEF LWLockConditionalAcquire
  <2>2. UNCHANGED <<releaseOK, queue, pc, req>>
    BY <1>3 DEF LWLockConditionalAcquire
  <2>. QED  BY <2>1, <2>2, RetriersStay DEF Retrier
<1>4. ASSUME NEW p \in Procs, TryGranted(p)
      PROVE  RetryInv'
  <2>. SUFFICES ASSUME NEW k \in Locks, k = req[p].lock PROVE RetryInv'
    BY DEF TypeInt, Request
  <2>1. req[p].mode \in Modes
    BY DEF TypeInt, Request
  <2>2. ~LockFree(k)' /\ \A l \in Locks \ {k} : LockFree(l)' = LockFree(l)
    BY <1>2, <1>4, <2>1 DEF TryGranted
  <2>3. /\ pc[p] = "try" /\ queue' = queue
        /\ \A q \in Procs \ {p} : req'[q] = req[q] /\ pc'[q] = pc[q]
        /\ releaseOK' = [releaseOK EXCEPT ![k] = ReleaseOKAfterTry(k, req[p].retry)]
    BY <1>4 DEF TryGranted, TypeInt
  <2>4. \A l \in Locks, q \in Procs \ {p} : Retrier(l, q) => Retrier(l, q)'
    BY <2>3 DEF Retrier
  <2>. QED  BY <2>2, <2>3, <2>4, RetrierActs
<1>5. ASSUME NEW p \in Procs, TryMustWait(p)
      PROVE  RetryInv'
  <2>. SUFFICES ASSUME NEW k \in Locks, k = req[p].lock PROVE RetryInv'
    BY DEF TypeInt, Request
  <2>1. /\ pc[p] = "try" /\ ~Grantable(k, req[p].mode)
        /\ UNCHANGED <<exclusive, shared, req>>
        /\ queue' = [queue EXCEPT ![k] = Append(queue[k], p)]
        /\ \A q \in Procs \ {p} : pc'[q] = pc[q]
        /\ releaseOK' = [releaseOK EXCEPT ![k] = ReleaseOKAfterTry(k, req[p].retry)]
    BY <1>5 DEF TryMustWait, TypeInt
  <2>2. ~LockFree(k)' /\ \A l \in Locks \ {k} : LockFree(l)' = LockFree(l)
    BY <2>1 DEF LockFree, Grantable
  <2>3. \A l \in Locks \ {k} : queue'[l] = queue[l]
    BY <2>1 DEF TypeInt
  <2>4. ASSUME NEW l \in Locks, NEW q \in Procs \ {p}, ~IsIn(q, queue[l])
        PROVE  ~IsIn(q, queue'[l])
    <3>1. CASE l = k
      <4>1. /\ Len(queue'[k]) = Len(queue[k]) + 1
            /\ \A i \in 1..Len(queue[k]) : queue'[k][i] = queue[k][i]
            /\ queue'[k][Len(queue[k]) + 1] = p
            /\ Len(queue[k]) \in Nat
        BY <2>1, WaiterTypes, AppendProperties, SMTT(30) DEF TypeInt
      <4>. QED  BY <2>4, <3>1, <4>1, SMTT(30) DEF IsIn
    <3>2. CASE l # k
      BY <2>3, <2>4, <3>2
    <3>. QED  BY <3>1, <3>2
  <2>5. \A l \in Locks, q \in Procs \ {p} : Retrier(l, q) => Retrier(l, q)'
    BY <2>1, <2>4 DEF Retrier, IsIn
  <2>. QED  BY <2>1, <2>2, <2>3, <2>5, RetrierActs
<1>6. ASSUME NEW p \in Procs, AbsorbSignal(p) \/ Awakened(p)
      PROVE  RetryInv'
  <2>1. /\ UNCHANGED <<exclusive, shared, releaseOK, queue>>
        /\ \A q \in Procs \ {p} : req'[q] = req[q] /\ pc'[q] = pc[q]
        /\ req'[p].lock = req[p].lock /\ pc[p] = "sleep"
        /\ \/ pc'[p] = "sleep"
           \/ pc'[p] = "try" /\ req'[p].retry
    BY <1>6 DEF AbsorbSignal, Awakened, TypeInt, Request
  <2>2. \A l \in Locks, q \in Procs : Retrier(l, q) => Retrier(l, q)'
    BY <2>1 DEF Retrier
  <2>. QED  BY <2>1, <2>2, RetriersStay DEF LockFree
<1>7. ASSUME NEW p \in Procs, NEW l \in Locks,
             LWLockRelease(p, l) \/ LWLockReleaseAll(p, l)
      PROVE  RetryInv'
  <2>1. /\ ReleaseSection(p, l) /\ req' = req
        /\ pc[p] = "run" /\ pc' = [pc EXCEPT ![p] = "wake"]
        /\ \A m \in Locks \ {l} : LockFree(m)' = LockFree(m)
    BY <1>7 DEF LWLockRelease, LWLockReleaseAll, ReleaseSection, LockFree, TypeInt
  <2>2. PICK k \in 0..Len(queue[l]) :
          /\ DequeueCount(l, k)
          /\ Len(queue'[l]) = Len(queue[l]) - k
          /\ \A i \in 1..Len(queue[l]) - k : queue'[l][i] = queue[l][i + k]
          /\ \A m \in Locks \ {l} : queue'[m] = queue[m]
          /\ releaseOK' = [releaseOK EXCEPT ![l] = releaseOK[l] /\ k = 0]
    BY <2>1, ReleaseSplits
  <2>3. /\ Len(queue[l]) \in Nat /\ k \in Nat
        /\ queue[l] \in Seq(Procs)
    BY <2>2, WaiterTypes
  <2>4. ASSUME NEW m \in Locks, NEW q \in Procs, Retrier(m, q)
        PROVE  Retrier(m, q)'
    <3>1. pc'[q] = pc[q]
      BY <2>1, <2>4 DEF Retrier, TypeInt
    <3>2. ASSUME NEW i \in 1..Len(queue'[m]), queue'[m][i] = q
          PROVE  IsIn(q, queue[m])
      <4>1. CASE m = l
        <5>1. i + k \in 1..Len(queue[l]) /\ queue[l][i + k] = q
          BY <2>2, <2>3, <3>2, <4>1
        <5>. QED  BY <4>1, <5>1 DEF IsIn
      <4>2. CASE m # l
        BY <2>2, <3>2, <4>2 DEF IsIn
      <4>. QED  BY <4>1, <4>2
    <3>. QED  BY <2>1, <2>4, <3>1, <3>2 DEF Retrier, IsIn
  <2>. SUFFICES ASSUME NEW m \in Locks,
                       \/ ~releaseOK'[m]
                       \/ LockFree(m)' /\ queue'[m] # <<>>
                PROVE  \E q \in Procs : Retrier(m, q)'
    BY DEF RetryInv, RetryComing, NoLostWakeup
  <2>5. CASE m # l
    <3>1. \E q \in Procs : Retrier(m, q)
      BY <2>1, <2>2, <2>5 DEF RetryInv, RetryComing, NoLostWakeup, TypeInt
    <3>. QED  BY <2>4, <3>1
  <2>6. CASE m = l /\ k = 0
    <3>1. releaseOK'[l] = releaseOK[l]
      BY <2>2, <2>6 DEF TypeInt
    <3>2. ~releaseOK[l]
      <4>1. ASSUME LockFree(l)', queue'[l] # <<>> PROVE ~releaseOK[l]
        <5>1. Len(queue'[l]) > 0
          <6>1. queue' \in [Locks -> Seq(Procs)]
            BY <2>1, ReleaseSectionType
          <6>. QED  BY <4>1, <6>1, EmptySeq
        <5>2. queue[l] # <<>>
          BY <2>2, <2>3, <2>6, <5>1, EmptySeq
        <5>. QED  BY <2>2, <2>6, <4>1, <5>2 DEF DequeueCount, LockFree
      <4>. QED  BY <2>6, <3>1, <4>1
    <3>3. \E q \in Procs : Retrier(l, q)
      BY <3>2 DEF RetryInv, RetryComing
    <3>. QED  BY <2>4, <2>6, <3>3
  <2>7. CASE m = l /\ k # 0
    <3>1. 1 \in 1..Len(queue[l])
      BY <2>2, <2>3, <2>7
    <3>. SUFFICES ASSUME NEW x \in Procs, x = queue[l][1]
                  PROVE  Retrier(l, x)'
      BY <2>7, <3>1, WaiterTypes
    <3>2. Waiting(x) /\ req[x].lock = l
      BY <3>1 DEF WaitInv, QueueSound
    <3>3. \A j \in 1..Len(queue[l]) : queue[l][j] = x => j = 1
      BY <3>1 DEF WaitInv, QueueSound
    <3>4. ASSUME NEW i \in 1..Len(queue'[l]) PROVE queue'[l][i] # x
      <4>1. /\ i + k \in 1..Len(queue[l]) /\ i + k # 1
            /\ queue'[l][i] = queue[l][i + k]
        BY <2>2, <2>3, <2>7, <3>4
      <4>. QED  BY <3>3, <4>1
    <3>. QED  BY <2>1, <3>2, <3>4 DEF Retrier, Waiting, IsIn, TypeInt
  <2>. QED  BY <2>5, <2>6, <2>7
<1>8. ASSUME NEW p \in Procs, ReleaseDone(p)
      PROVE  RetryInv'
  <2>1. /\ UNCHANGED <<exclusive, shared, releaseOK, queue, req>>
        /\ pc[p] = "wake" /\ \A q \in Procs \ {p} : pc'[q] = pc[q]
    BY <1>8 DEF ReleaseDone, TypeInt
  <2>. QED  BY <2>1, RetriersStay DEF Retrier, LockFree
<1>9. ASSUME UNCHANGED <<exclusive, shared, releaseOK, queue, pc, req>>
      PROVE  RetryInv'
  BY <1>9, RetriersStay DEF Retrier, LockFree
<1>10. ASSUME NEW p \in Procs,
              \/ ClearWaiter(p) \/ PostWaiter(p)
              \/ RaiseError(p) \/ RecoveryDone(p)
              \/ ProcSendSignal(p) \/ ProcWaitForSignal(p)
       PROVE  RetryInv'
  BY <1>9, <1>10 DEF ClearWaiter, PostWaiter, RaiseError, RecoveryDone,
                     ProcSendSignal, ProcWaitForSignal
<1>11. CASE UNCHANGED vars
  BY <1>9, <1>11 DEF vars
<1>. QED
  BY <1>1, <1>3, <1>4, <1>5, <1>6, <1>7, <1>8, <1>10, <1>11
     DEF Next, LWLockStep, Recover

LEMMA RetryInvariant == Spec => []RetryInv
<1>1. Init => RetryInv
  BY DEF Init, RetryInv, RetryComing, NoLostWakeup
<1>. QED
  BY <1>1, RetryStep, TypeInvariant, CountInvariant, WaitInvariant, PTL DEF Spec

-----------------------------------------------------------------------------
(***************************************************************************)
(* The units of the process semaphores                                     *)
(***************************************************************************)

\* The wakers that have cleared the flag of p and not posted it yet.
Wakers(p) == {w \in Procs : hand[w] = p}

\* p was woken and has not taken the unit its waker owes it.
Woken(p) == pc[p] = "sleep" /\ ~lwWaiting[p]

\* The account of one process: besides what SignalsConserved says, what a wait
\* has absorbed is no more than what was sent, and a process outside
\* LWLockAcquire has absorbed nothing.
SignalsOf(p) ==
  /\ sem[p] + req[p].extraWaits + Cardinality(Wakers(p))
       = pending[p] + (IF Woken(p) THEN 1 ELSE 0)
  /\ req[p].extraWaits <= pending[p]
  /\ pc[p] \in {"run", "wake"} => req[p].extraWaits = 0

SignalInv == \A p \in Procs : SignalsOf(p)

LEMMA WakersFinite ==
  \A p : /\ IsFiniteSet(Wakers(p))
         /\ Cardinality(Wakers(p)) \in Nat
         /\ Cardinality(Wakers(p)) = 0 <=> Wakers(p) = {}
<1>. TAKE p
<1>1. Wakers(p) \subseteq Procs
  BY DEF Wakers
<1>. QED
  BY <1>1, LWLockAssumption, FS_Subset, FS_CardinalityType, FS_EmptySet

\* A waker that takes a process in hand is one more for that process.
LEMMA WakersAfterClear ==
  ASSUME TypeInt, NEW p \in Procs, NEW x \in Procs, hand[p] = NoProc,
         hand' = [hand EXCEPT ![p] = x]
  PROVE  \A q \in Procs : Cardinality(Wakers(q)') =
           Cardinality(Wakers(q)) + (IF q = x THEN 1 ELSE 0)
<1>. TAKE q \in Procs
<1>1. p \notin Wakers(q)
  BY LWLockAssumption DEF Wakers
<1>2. Wakers(q)' = IF q = x THEN Wakers(q) \cup {p} ELSE Wakers(q)
  BY LWLockAssumption, SMTT(30) DEF Wakers, TypeInt
<1>. QED  BY <1>1, <1>2, WakersFinite, FS_AddElement

\* A waker that has posted a process is one less for that process.
LEMMA WakersAfterPost ==
  ASSUME TypeInt, NEW p \in Procs, NEW x \in Procs, hand[p] = x,
         hand' = [hand EXCEPT ![p] = NoProc]
  PROVE  \A q \in Procs : Cardinality(Wakers(q)') =
           Cardinality(Wakers(q)) - (IF q = x THEN 1 ELSE 0)
<1>. TAKE q \in Procs
<1>1. p \in Wakers(x)
  BY DEF Wakers
<1>2. /\ hand'[p] # q /\ hand[p] = x
      /\ \A w \in Procs \ {p} : hand'[w] = hand[w]
  BY LWLockAssumption DEF TypeInt
<1>3. Wakers(q)' = Wakers(q) \ {p}
  BY <1>2 DEF Wakers
<1>4. CASE q = x
  BY <1>1, <1>3, <1>4, WakersFinite, FS_RemoveElement
<1>5. CASE q # x
  <2>1. Wakers(q)' = Wakers(q)
    BY <1>2, <1>3, <1>5 DEF Wakers
  <2>. QED  BY <1>5, <2>1, WakersFinite
<1>. QED  BY <1>4, <1>5

LEMMA SignalInit == Init => SignalInv
<1>. SUFFICES ASSUME Init, NEW p \in Procs PROVE SignalsOf(p)
  BY DEF SignalInv
<1>1. Wakers(p) = {}
  BY LWLockAssumption DEF Init, Wakers
<1>2. Cardinality(Wakers(p)) = 0
  BY <1>1, WakersFinite
<1>3. /\ sem[p] = 0 /\ pending[p] = 0 /\ req[p].extraWaits = 0
      /\ pc[p] = "run"
  BY DEF Init, NoRequest, NewRequest
<1>. QED  BY <1>2, <1>3 DEF SignalsOf, Woken

\* A step that touches the account of x only.
LEMMA SignalLocal ==
  ASSUME SignalInv, NEW x \in Procs, SignalsOf(x)',
         \A q \in Procs \ {x} :
           /\ sem'[q] = sem[q] /\ pending'[q] = pending[q]
           /\ req'[q] = req[q] /\ pc'[q] = pc[q]
           /\ lwWaiting'[q] = lwWaiting[q]
           /\ Cardinality(Wakers(q)') = Cardinality(Wakers(q))
  PROVE  SignalInv'
<1>. SUFFICES ASSUME NEW q \in Procs \ {x} PROVE SignalsOf(q)'
  BY DEF SignalInv
<1>. QED  BY DEF SignalInv, SignalsOf, Woken

LEMMA SignalStep ==
  TypeInt /\ WaitInv /\ SignalInv /\ [Next]_vars => SignalInv'
<1>. SUFFICES ASSUME TypeInt, WaitInv, SignalInv, [Next]_vars
              PROVE  SignalInv'
  OBVIOUS
<1>. USE DEF lockVars, waitVars, wakeVars
<1>0. ASSUME NEW p \in Procs
      PROVE  /\ SignalsOf(p)
             /\ sem[p] \in Nat /\ pending[p] \in Int
             /\ req[p] \in Request /\ req[p].extraWaits \in Nat
             /\ Cardinality(Wakers(p)) \in Nat
  BY WakersFinite DEF SignalInv, TypeInt, Request
<1>1. ASSUME hand' = hand PROVE \A p : Wakers(p)' = Wakers(p)
  BY <1>1 DEF Wakers
<1>2. ASSUME NEW p \in Procs, NEW l \in Locks, NEW m \in Modes,
             LWLockAcquire(p, l, m)
      PROVE  SignalInv'
  <2>1. /\ UNCHANGED <<sem, pending, lwWaiting, hand>>
        /\ pc[p] = "run" /\ pc'[p] = "try" /\ req'[p].extraWaits = 0
        /\ \A q \in Procs \ {p} : req'[q] = req[q] /\ pc'[q] = pc[q]
    BY <1>2 DEF LWLockAcquire, NewRequest, TypeInt
  <2>2. SignalsOf(p)'
    BY <1>0, <1>1, <2>1 DEF SignalsOf, Woken
  <2>. QED  BY <1>1, <2>1, <2>2, SignalLocal
<1>3. ASSUME NEW p \in Procs, TryGranted(p)
      PROVE  SignalInv'
  <2>1. /\ UNCHANGED <<pending, lwWaiting, hand>>
        /\ pc[p] = "try" /\ pc'[p] = "run" /\ req'[p].extraWaits = 0
        /\ sem'[p] = sem[p] + req[p].extraWaits
        /\ \A q \in Procs \ {p} :
             req'[q] = req[q] /\ pc'[q] = pc[q] /\ sem'[q] = sem[q]
    BY <1>3 DEF TryGranted, GiveBack, NoRequest, NewRequest, TypeInt
  <2>2. SignalsOf(p)'
    BY <1>0, <1>1, <2>1 DEF SignalsOf, Woken
  <2>. QED  BY <1>1, <2>1, <2>2, SignalLocal
<1>4. ASSUME NEW p \in Procs, TryMustWait(p)
      PROVE  SignalInv'
  <2>1. /\ UNCHANGED <<sem, pending, hand, req>>
        /\ pc[p] = "try" /\ pc'[p] = "sleep" /\ lwWaiting'[p]
        /\ \A q \in Procs \ {p} :
             lwWaiting'[q] = lwWaiting[q] /\ pc'[q] = pc[q]
    BY <1>4 DEF TryMustWait, TypeInt
  <2>2. SignalsOf(p)'
    BY <1>0, <1>1, <2>1 DEF SignalsOf, Woken
  <2>. QED  BY <1>1, <2>1, <2>2, SignalLocal
<1>5. ASSUME NEW p \in Procs, AbsorbSignal(p)
      PROVE  SignalInv'
  <2>1. /\ UNCHANGED <<pending, hand, pc, lwWaiting>>
        /\ pc[p] = "sleep" /\ lwWaiting[p]
        /\ sem[p] > 0 /\ sem'[p] = sem[p] - 1
        /\ req'[p].extraWaits = req[p].extraWaits + 1
        /\ \A q \in Procs \ {p} : req'[q] = req[q] /\ sem'[q] = sem[q]
    BY <1>0, <1>5 DEF AbsorbSignal, TypeInt, Request
  <2>2. SignalsOf(p)'
    BY <1>0, <1>1, <2>1 DEF SignalsOf, Woken
  <2>. QED  BY <1>1, <2>1, <2>2, SignalLocal
<1>6. ASSUME NEW p \in Procs, Awakened(p)
      PROVE  SignalInv'
  <2>1. /\ UNCHANGED <<pending, hand, lwWaiting>>
        /\ pc[p] = "sleep" /\ ~lwWaiting[p] /\ pc'[p] = "try"
        /\ sem[p] > 0 /\ sem'[p] = sem[p] - 1
        /\ req'[p].extraWaits = req[p].extraWaits
        /\ \A q \in Procs \ {p} :
             req'[q] = req[q] /\ sem'[q] = sem[q] /\ pc'[q] = pc[q]
    BY <1>0, <1>6 DEF Awakened, TypeInt, Request
  <2>2. SignalsOf(p)'
    BY <1>0, <1>1, <2>1 DEF SignalsOf, Woken
  <2>. QED  BY <1>1, <2>1, <2>2, SignalLocal
<1>7. ASSUME NEW p \in Procs,
             \/ ReleaseDone(p)
             \/ \E l \in Locks : LWLockRelease(p, l) \/ LWLockReleaseAll(p, l)
      PROVE  SignalInv'
  <2>1. /\ UNCHANGED <<sem, pending, hand, lwWaiting, req>>
        /\ pc[p] \in {"run", "wake"} /\ pc'[p] \in {"run", "wake"}
        /\ \A q \in Procs \ {p} : pc'[q] = pc[q]
    BY <1>7 DEF ReleaseDone, LWLockRelease, LWLockReleaseAll, ReleaseSection,
                TypeInt
  <2>2. SignalsOf(p)'
    BY <1>0, <1>1, <2>1 DEF SignalsOf, Woken
  <2>. QED  BY <1>1, <2>1, <2>2, SignalLocal
<1>8. ASSUME NEW p \in Procs, ClearWaiter(p)
      PROVE  SignalInv'
  <2>1. /\ wakeup[p] # <<>> /\ Head(wakeup[p]) = wakeup[p][1]
        /\ 1 \in 1..Len(wakeup[p])
    BY <1>8, WaiterTypes, EmptySeq DEF ClearWaiter
  <2>. SUFFICES ASSUME NEW x \in Procs, x = wakeup[p][1] PROVE SignalInv'
    BY <2>1, WaiterTypes
  <2>2. Waiting(x)
    BY <2>1 DEF WaitInv, WakeupSound
  <2>3. /\ UNCHANGED <<sem, pending, req, pc>>
        /\ hand[p] = NoProc /\ hand' = [hand EXCEPT ![p] = x]
        /\ lwWaiting' = [lwWaiting EXCEPT ![x] = FALSE]
    BY <1>8, <2>1 DEF ClearWaiter
  <2>4. /\ Cardinality(Wakers(x)') = Cardinality(Wakers(x)) + 1
        /\ \A q \in Procs \ {x} : Cardinality(Wakers(q)') = Cardinality(Wakers(q))
    <3>1. \A q \in Procs : Cardinality(Wakers(q)') =
            Cardinality(Wakers(q)) + (IF q = x THEN 1 ELSE 0)
      BY <2>3, WakersAfterClear
    <3>. QED  BY <1>0, <3>1
  <2>5. SignalsOf(x)'
    <3>1. ~Woken(x) /\ Woken(x)' /\ pc[x] = "sleep"
      BY <2>2, <2>3 DEF Woken, Waiting, TypeInt
    <3>2. /\ sem[x] + req[x].extraWaits + Cardinality(Wakers(x)) = pending[x]
          /\ req[x].extraWaits <= pending[x]
      BY <1>0, <3>1 DEF SignalsOf
    <3>3. sem[x] + req[x].extraWaits + Cardinality(Wakers(x)') = pending[x] + 1
      BY <1>0, <2>4, <3>2
    <3>. QED  BY <2>3, <3>1, <3>2, <3>3 DEF SignalsOf
  <2>6. \A q \in Procs \ {x} : lwWaiting'[q] = lwWaiting[q]
    BY <2>3 DEF TypeInt
  <2>. QED  BY <2>3, <2>4, <2>5, <2>6, SignalLocal
<1>9. ASSUME NEW p \in Procs, PostWaiter(p)
      PROVE  SignalInv'
  <2>. SUFFICES ASSUME NEW x \in Procs, x = hand[p] PROVE SignalInv'
    BY <1>9 DEF PostWaiter, TypeInt
  <2>1. /\ UNCHANGED <<pending, req, pc, lwWaiting>>
        /\ hand' = [hand EXCEPT ![p] = NoProc]
        /\ sem' = [sem EXCEPT ![x] = sem[x] + 1]
    BY <1>9 DEF PostWaiter
  <2>2. /\ Cardinality(Wakers(x)') = Cardinality(Wakers(x)) - 1
        /\ \A q \in Procs \ {x} : Cardinality(Wakers(q)') = Cardinality(Wakers(q))
    <3>1. \A q \in Procs : Cardinality(Wakers(q)') =
            Cardinality(Wakers(q)) - (IF q = x THEN 1 ELSE 0)
      BY <2>1, WakersAfterPost
    <3>. QED  BY <1>0, <3>1
  <2>3. SignalsOf(x)'
    BY <1>0, <2>1, <2>2, SMTT(30) DEF SignalsOf, Woken, TypeInt
  <2>4. \A q \in Procs \ {x} : sem'[q] = sem[q]
    BY <2>1 DEF TypeInt
  <2>. QED  BY <2>1, <2>2, <2>3, <2>4, SignalLocal
<1>10. ASSUME NEW p \in Procs, ProcSendSignal(p)
       PROVE  SignalInv'
  <2>1. /\ UNCHANGED <<hand, req, pc, lwWaiting>>
        /\ sem'[p] = sem[p] + 1 /\ pending'[p] = pending[p] + 1
        /\ \A q \in Procs \ {p} : sem'[q] = sem[q] /\ pending'[q] = pending[q]
    BY <1>10 DEF ProcSendSignal, TypeInt
  <2>2. SignalsOf(p)'
    BY <1>0, <1>1, <2>1 DEF SignalsOf, Woken
  <2>. QED  BY <1>1, <2>1, <2>2, SignalLocal
<1>11. ASSUME NEW p \in Procs, ProcWaitForSignal(p)
       PROVE  SignalInv'
  <2>1. /\ UNCHANGED <<hand, req, pc, lwWaiting>> /\ pc[p] = "run"
        /\ sem[p] > 0 /\ sem'[p] = sem[p] - 1 /\ pending'[p] = pending[p] - 1
        /\ \A q \in Procs \ {p} : sem'[q] = sem[q] /\ pending'[q] = pending[q]
    BY <1>11 DEF ProcWaitForSignal, TypeInt
  <2>2. SignalsOf(p)'
    <3>1. ~Woken(p) /\ ~Woken(p)'
      BY <2>1 DEF Woken
    <3>2. /\ sem[p] + Cardinality(Wakers(p)) = pending[p]
          /\ req[p].extraWaits = 0
      BY <1>0, <2>1, <3>1 DEF SignalsOf
    <3>3. /\ sem'[p] + 0 + Cardinality(Wakers(p)) = pending'[p] + 0
          /\ 0 <= pending'[p]
      BY <1>0, <2>1, <3>2
    <3>. QED  BY <1>1, <2>1, <3>1, <3>2, <3>3 DEF SignalsOf
  <2>. QED  BY <1>1, <2>1, <2>2, SignalLocal
<1>12. ASSUME UNCHANGED <<sem, pending, hand, req, pc, lwWaiting>>
       PROVE  SignalInv'
  BY <1>1, <1>12 DEF SignalInv, SignalsOf, Woken
<1>13. ASSUME NEW p \in Procs,
              \/ \E l \in Locks, m \in Modes : LWLockConditionalAcquire(p, l, m)
              \/ RaiseError(p) \/ RecoveryDone(p)
       PROVE  SignalInv'
  BY <1>12, <1>13 DEF LWLockConditionalAcquire, RaiseError, RecoveryDone
<1>14. CASE UNCHANGED vars
  BY <1>12, <1>14 DEF vars
<1>. QED
  BY <1>2, <1>3, <1>4, <1>5, <1>6, <1>7, <1>8, <1>9, <1>10, <1>11, <1>13, <1>14
     DEF Next, LWLockStep, Recover

LEMMA SignalInvariant == Spec => []SignalInv
BY SignalInit, SignalStep, TypeInvariant, WaitInvariant, PTL DEF Spec

\* Semaphore posts are conserved for any number of processes and locks: each
\* unit is a signal still to be consumed or a wakeup still to be taken, however
\* waits absorb signals, wakers are preempted and foreign signals arrive.
THEOREM SignalsConservedHolds == Spec => []SignalsConserved
<1>1. SignalInv => SignalsConserved
  BY DEF SignalInv, SignalsOf, SignalsConserved, Wakers, Woken
<1>. QED  BY <1>1, SignalInvariant, PTL

-----------------------------------------------------------------------------
(***************************************************************************)
(* Nobody is forgotten                                                     *)
(***************************************************************************)

\* A woken process has its unit, or the waker that will post it.
LEMMA SleepersInHand == TypeInt /\ WaitInv /\ SignalInv => NoSleeperForgotten
<1>. SUFFICES ASSUME TypeInt, WaitInv, SignalInv,
                     NEW p \in Procs, pc[p] = "sleep"
              PROVE  \/ IsIn(p, queue[req[p].lock])
                     \/ \E w \in Procs : IsIn(p, wakeup[w]) \/ hand[w] = p
                     \/ ~lwWaiting[p] /\ sem[p] > 0
  BY DEF NoSleeperForgotten
<1>1. CASE lwWaiting[p]
  BY <1>1 DEF WaitInv, WaiterPlaced, Waiting
<1>2. CASE ~lwWaiting[p] /\ Wakers(p) # {}
  BY <1>2 DEF Wakers
<1>3. CASE ~lwWaiting[p] /\ Wakers(p) = {}
  <2>1. /\ sem[p] + req[p].extraWaits + 0 = pending[p] + 1
        /\ req[p].extraWaits <= pending[p]
    BY <1>3, WakersFinite DEF SignalInv, SignalsOf, Woken
  <2>2. sem[p] \in Nat /\ req[p].extraWaits \in Nat /\ pending[p] \in Int
    BY DEF TypeInt, Request
  <2>. QED  BY <1>3, <2>1, <2>2
<1>. QED  BY <1>1, <1>2, <1>3

\* The counters that are decremented never drop below zero.
LEMMA TypesHold ==
  TypeInt /\ CountInv /\ HoldoffInv /\ SignalInv => TypeOK
<1>. SUFFICES ASSUME TypeInt, CountInv, HoldoffInv, SignalInv PROVE TypeOK
  OBVIOUS
<1>1. \A l \in Locks : shared[l] \in Nat
  BY HoldersFinite DEF CountInv, CountersMatchHolders
<1>2. \A p \in Procs : holdoff[p] \in Nat
  BY HeldFinite DEF HoldoffInv, InterruptsHeldOff
<1>3. \A p \in Procs : pending[p] \in Nat
  <2>. TAKE p \in Procs
  <2>1. req[p].extraWaits <= pending[p]
    BY DEF SignalInv, SignalsOf
  <2>2. req[p].extraWaits \in Nat /\ pending[p] \in Int
    BY DEF TypeInt, Request
  <2>. QED  BY <2>1, <2>2
<1>. QED  BY <1>1, <1>2, <1>3 DEF TypeInt, TypeOK

\* A free lock with a queue always has a dequeued process coming back to it, a
\* sleeper always has a queue, a waker or a unit of its semaphore, and every
\* counter keeps its type, for any number of processes and locks.
THEOREM NoWaiterForgottenHolds == Spec => []NoWaiterForgotten
<1>1. Spec => []HoldoffInv
  BY HoldoffInit, HoldoffStep, TypeInvariant, CountInvariant, PTL DEF Spec
<1>2. RetryInv => NoLostWakeup
  BY DEF RetryInv
<1>3. TypeOK /\ NoLostWakeup /\ NoSleeperForgotten => NoWaiterForgotten
  BY DEF NoWaiterForgotten
<1>. QED
  BY <1>1, <1>2, <1>3, TypeInvariant, CountInvariant, WaitInvariant,
     RetryInvariant, SignalInvariant, SleepersInHand, TypesHold, PTL
=============================================================================
