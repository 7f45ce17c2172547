---------------------------- MODULE SyncRepProofs ----------------------------
(***************************************************************************)
(* Proofs about SyncRep, for every number of backends, walsenders,         *)
(* standbys and configurations.                                            *)
(*                                                                         *)
(* LsnInv ties what a backend waits for to where it is.  WakerInv is about *)
(* the holder of SyncRepLock, and QueueInv about the queue at every moment *)
(* also while it is being woken.  On them rest the two safety invariants;  *)
(* AckInv adds what a walsender knows of its standby.                      *)
(***************************************************************************)
EXTENDS SyncRep, WellFoundedInduction, SequenceTheorems, TLAPS

-----------------------------------------------------------------------------
(***************************************************************************)
(* Facts about numbers                                                     *)
(***************************************************************************)

\* The least element of a set of natural numbers.
LEMMA MinIsLeast ==
    ASSUME NEW T \in SUBSET Nat, T # {}
    PROVE  Min(T) \in T /\ \A y \in T : Min(T) <= y
<1>. DEFINE R == {ij \in Nat \X Nat : ij[1] < ij[2]}
<1>1. IsWellFoundedOn(R, Nat)
    BY NatLessThanWellFounded DEF OpToRel
<1>2. PICK x \in T : \A y \in T : <<y, x>> \notin R
    BY <1>1, WFMin
<1>3. ASSUME NEW y \in T PROVE x <= y
    <2>1. x \in Nat /\ y \in Nat /\ ~(y < x)
        BY <1>2
    <2>. QED  BY <2>1
<1>. QED  BY <1>3 DEF Min

\* The greatest element of a set of numbers that has a bound.
LEMMA MaxIsGreatest ==
    ASSUME NEW T \in SUBSET Nat, T # {}, NEW n \in Nat, \A y \in T : y <= n
    PROVE  Max(T) \in T /\ \A y \in T : y <= Max(T)
<1>. DEFINE R == {ij \in Nat \X Nat : ij[1] < ij[2]}
            D == {n - y : y \in T}
<1>1. IsWellFoundedOn(R, Nat)
    BY NatLessThanWellFounded DEF OpToRel
<1>2. D \in SUBSET Nat /\ D # {}
    <2>1. \A y \in T : n - y \in Nat
        OBVIOUS
    <2>. QED  BY <2>1
<1>3. PICK d \in D : \A e \in D : <<e, d>> \notin R
    <2>. HIDE DEF D, R
    <2>. QED  BY <1>1, <1>2, WFMin
<1>4. PICK x \in T : d = n - x
    BY <1>3
<1>5. ASSUME NEW y \in T PROVE y <= x
    <2>1. x \in Nat /\ y \in Nat /\ n - y \in D /\ n - y \in Nat /\ n - x \in Nat
        BY <1>2
    <2>2. ~(n - y < n - x)
        BY <1>3, <1>4, <2>1
    <2>. QED  BY <2>1, <2>2
<1>6. \A y \in T : x >= y
    BY <1>5
<1>7. Max(T) \in T /\ \A y \in T : Max(T) >= y
    BY <1>6 DEF Max
<1>. QED  BY <1>7

-----------------------------------------------------------------------------

LsnInv ==
    /\ \A b \in Backends :
        /\ pc[b] = "idle" <=> commitLSN[b] = 0
        /\ commitLSN[b] <= insertLSN
        /\ pc[b] \in {"idle", "commit"} <=> state[b] = "NOT_WAITING"
        /\ pc[b] = "cleanup" => state[b] = "WAIT_COMPLETE"
        /\ waitLSN[b] = IF state[b] = "NOT_WAITING" THEN 0 ELSE commitLSN[b]
    /\ \A b, c \in Backends : commitLSN[b] = commitLSN[c] => b = c \/ commitLSN[b] = 0

WakerInv ==
    /\ lock = waking.by
    /\ waking.by = Nobody => waking = NotWaking
    /\ waking.all <=> waking.by = BgWriter
    /\ waking.at = "next" <=> waking.proc = Nobody
    /\ waking.by \in Slots => todo[waking.by] = "wake"
    /\ \A w \in Slots : todo[w] # "none" => served[w] # Nobody

Sorted(q) == \A i, j \in DOMAIN q : i < j => waitLSN[q[i]] < waitLSN[q[j]]

QueueInv ==
    /\ Sorted(queue)
    /\ \A i \in DOMAIN queue :
            state[queue[i]] = "WAITING" \/ (waking.at = "delete" /\ i = 1)
    /\ \A b \in Backends : state[b] = "WAITING" => \E i \in DOMAIN queue : queue[i] = b
    /\ waking.at = "delete" =>
            queue # <<>> /\ queue[1] = waking.proc /\ state[queue[1]] # "WAITING"
    /\ queue # <<>> => defined
    /\ lock = Nobody => \A i \in DOMAIN queue : released < waitLSN[queue[i]]

\* A backend that has tested its state and does not know yet that its wait is
\* over has its latch set.
LatchInv ==
    \A b \in Backends :
        /\ pc[b] \in SleepSteps => (queryCancel[b] \/ procDie[b] => isSet[b])
        /\ pc[b] \in SleepSteps \union {"interrupts"} =>
            (state[b] = "WAIT_COMPLETE" /\ ~(waking.proc = b /\ waking.at = "delete")
                => isSet[b])
        /\ pc[b] = "select" /\ isSet[b]
            => \/ pipe[b] \/ sigusr1[b]
               \/ waking.proc = b /\ waking.at = "signal"

\* What a walsender knows of its standby, and what has been released.
Named(s) == \E names \in confs : SyncRepGetStandbyPriority(names, s) > 0

AckInv ==
    /\ \A w \in Slots :
        /\ todo[w] \in {"loop", "release", "wake"} /\ priority[w] > 0 => Named(served[w])
        /\ todo[w] = "release" => priority[w] > 0 /\ flush[w] <= disk[served[w]]
    /\ released > 0 => \E s \in Standbys : Named(s) /\ released <= disk[s]
    /\ \A b \in Backends :
        state[b] = "WAIT_COMPLETE" => b \in excused \/ commitLSN[b] <= released

-----------------------------------------------------------------------------
(***************************************************************************)
(* Sequences                                                               *)
(***************************************************************************)

\* SHMQueueDelete takes one element out and leaves the others in their order.
LEMMA RemovedIs ==
    ASSUME NEW S, NEW q \in Seq(S), NEW x, IsInjective(q)
    PROVE  LET r == RemoveFirst(q, x)
           IN  /\ r \in Seq(S)
               /\ \A i \in DOMAIN r : r[i] # x
               /\ \A i \in DOMAIN q : q[i] # x => \E j \in DOMAIN r : r[j] = q[i]
               /\ \A i, j \in DOMAIN r : i < j =>
                    \E k, l \in DOMAIN q : k < l /\ r[i] = q[k] /\ r[j] = q[l]
               /\ \A i \in DOMAIN r : \E k \in DOMAIN q :
                    r[i] = q[k] /\ (q[1] = x => k > 1)
<1>. DEFINE r == RemoveFirst(q, x)
<1>1. CASE ~ \E i \in 1..Len(q) : q[i] = x
    BY <1>1 DEF RemoveFirst
<1>2. CASE \E i \in 1..Len(q) : q[i] = x
    <2>. DEFINE I == {i \in 1..Len(q) : q[i] = x}
    <2>1. PICK k \in I : TRUE
        BY <1>2
    <2>2. Min(I) = k
        <3>1. \A i \in I : i = k
            BY <2>1 DEF IsInjective
        <3>2. k \in Nat /\ \A i \in I : k <= i
            BY <3>1
        <3>. QED  BY <3>1, <3>2 DEF Min
    <2>3. r = SubSeq(q, 1, k - 1) \o SubSeq(q, k + 1, Len(q))
        BY <1>2, <2>1, <2>2 DEF RemoveFirst, RemoveAt, SelectInSeq
    <2>4. /\ k \in 1..Len(q) /\ q[k] = x
          /\ \A i \in 1..Len(q) : q[i] = x => i = k
        BY <2>1 DEF IsInjective
    <2>5. /\ Len(r) = Len(q) - 1 /\ r \in Seq(S)
          /\ \A i \in 1..(Len(q) - 1) : r[i] = IF i < k THEN q[i] ELSE q[i + 1]
        <3>. DEFINE a == SubSeq(q, 1, k - 1)
                    b == SubSeq(q, k + 1, Len(q))
        <3>1. /\ a \in Seq(S) /\ Len(a) = k - 1
              /\ \A i \in 1..(k - 1) : a[i] = q[i]
            BY <2>4
        <3>2. /\ b \in Seq(S) /\ Len(b) = Len(q) - k
              /\ \A i \in 1..(Len(q) - k) : b[i] = q[i + k]
            BY <2>4
        <3>. HIDE DEF a, b
        <3>3. r = a \o b
            BY <2>3 DEF a, b
        <3>. HIDE DEF r
        <3>4. r \in Seq(S) /\ Len(r) = Len(q) - 1
            BY <2>4, <3>1, <3>2, <3>3, SMTT(30)
        <3>5. ASSUME NEW i \in 1..(Len(q) - 1)
              PROVE  r[i] = IF i < k THEN q[i] ELSE q[i + 1]
            <4>1. CASE i < k
                BY <2>4, <3>1, <3>2, <3>3, <4>1
            <4>2. CASE i >= k
                <5>1. r[i] = b[i - (k - 1)]
                    BY <2>4, <3>1, <3>2, <3>3, <4>2
                <5>2. i - (k - 1) \in 1..(Len(q) - k) /\ (i - (k - 1)) + k = i + 1
                    BY <2>4, <4>2
                <5>. QED  BY <3>2, <4>2, <5>1, <5>2
            <4>. QED  BY <2>4, <4>1, <4>2
        <3>. QED  BY <3>4, <3>5
    <2>6. \A i \in DOMAIN r : i \in 1..(Len(q) - 1)
        BY <2>5
    <2>7. ASSUME NEW i \in DOMAIN q, q[i] # x PROVE \E j \in DOMAIN r : r[j] = q[i]
        <3>1. i \in 1..Len(q) /\ i # k
            BY <2>4, <2>7
        <3>2. CASE i < k
            BY <2>4, <2>5, <3>1, <3>2
        <3>3. CASE i > k
            <4>1. i - 1 \in DOMAIN r /\ r[i - 1] = q[i]
                BY <2>4, <2>5, <3>1, <3>3
            <4>. QED  BY <4>1
        <3>. QED  BY <2>4, <3>1, <3>2, <3>3
    <2>. DEFINE at(i) == IF i < k THEN i ELSE i + 1
    <2>8. \A i \in DOMAIN r : at(i) \in 1..Len(q) /\ r[i] = q[at(i)] /\ at(i) # k
        BY <2>4, <2>5, <2>6
    <2>9. \A i, j \in DOMAIN r : i < j => at(i) < at(j)
        BY <2>4, <2>6
    <2>10. \A i \in DOMAIN r : q[1] = x => at(i) > 1
        BY <2>4, <2>8
    <2>. HIDE DEF at, r
    <2>11. \A i \in DOMAIN r : r[i] # x
        BY <2>4, <2>8
    <2>12. ASSUME NEW i \in DOMAIN r, NEW j \in DOMAIN r, i < j
           PROVE  \E m, n \in DOMAIN q : m < n /\ r[i] = q[m] /\ r[j] = q[n]
        <3>1. at(i) \in DOMAIN q /\ at(j) \in DOMAIN q /\ at(i) < at(j)
            BY <2>8, <2>9, <2>12
        <3>. QED  BY <2>8, <3>1
    <2>13. ASSUME NEW i \in DOMAIN r
           PROVE  \E m \in DOMAIN q : r[i] = q[m] /\ (q[1] = x => m > 1)
        <3>1. at(i) \in DOMAIN q
            BY <2>8
        <3>. QED  BY <2>8, <2>10, <3>1
    <2>. QED  BY <2>5, <2>7, <2>11, <2>12, <2>13 DEF r
<1>. QED  BY <1>1, <1>2

\* SHMQueueInsertAfter puts one in behind the k-th.
LEMMA InsertedIs ==
    ASSUME NEW S, NEW q \in Seq(S), NEW x \in S, NEW k \in Nat, k <= Len(q),
           NEW j, j = k + 1, NEW r, r = InsertAt(q, j, x)
    PROVE  /\ r \in Seq(S) /\ Len(r) = Len(q) + 1
           /\ \A i \in 1..(Len(q) + 1) : i <= k => r[i] = q[i]
           /\ r[k + 1] = x
           /\ \A i \in 1..(Len(q) + 1) : i > k + 1 => r[i] = q[i - 1]
<1>. DEFINE a == SubSeq(q, 1, k)
            b == SubSeq(q, k + 1, Len(q))
<1>1. a \in Seq(S) /\ Len(a) = k /\ \A i \in 1..k : a[i] = q[i]
    OBVIOUS
<1>2. /\ b \in Seq(S) /\ Len(b) = Len(q) - k
      /\ \A i \in 1..(Len(q) - k) : b[i] = q[i + k]
    OBVIOUS
<1>3. r = (a \o <<x>>) \o b
    <2>1. (k + 1) - 1 = k
        OBVIOUS
    <2>. QED  BY <2>1 DEF InsertAt
<1>. HIDE DEF a, b
<1>4. PICK c \in Seq(S) : c = a \o <<x>>
    <2>1. <<x>> \in Seq(S)
        OBVIOUS
    <2>. QED  BY <1>1, <2>1, ConcatProperties
<1>5. Len(c) = k + 1 /\ c[k + 1] = x /\ \A i \in 1..k : c[i] = q[i]
    <2>1. <<x>> \in Seq(S) /\ Len(<<x>>) = 1 /\ <<x>>[1] = x
        OBVIOUS
    <2>2. /\ Len(c) = Len(a) + 1
          /\ \A i \in 1..(Len(a) + 1) :
                c[i] = IF i <= Len(a) THEN a[i] ELSE <<x>>[i - Len(a)]
        BY <1>1, <1>4, <2>1, ConcatProperties
    <2>. QED  BY <1>1, <2>1, <2>2
<1>6. r = c \o b
    BY <1>3, <1>4
<1>7. /\ r \in Seq(S) /\ Len(r) = Len(q) + 1
      /\ \A i \in 1..(Len(q) + 1) :
            r[i] = IF i <= k + 1 THEN c[i] ELSE b[i - (k + 1)]
    <2>1. /\ r \in Seq(S) /\ Len(r) = Len(c) + Len(b)
          /\ \A i \in 1..(Len(c) + Len(b)) :
                r[i] = IF i <= Len(c) THEN c[i] ELSE b[i - Len(c)]
        <3>1. /\ c \o b \in Seq(S) /\ Len(c \o b) = Len(c) + Len(b)
              /\ \A i \in 1..(Len(c) + Len(b)) :
                    (c \o b)[i] = IF i <= Len(c) THEN c[i] ELSE b[i - Len(c)]
            BY <1>2, ConcatProperties
        <3>. QED  BY <1>6, <3>1
    <2>2. Len(c) + Len(b) = Len(q) + 1
        BY <1>2, <1>5
    <2>. QED  BY <1>5, <2>1, <2>2
<1>8. ASSUME NEW i \in 1..(Len(q) + 1)
      PROVE  r[i] = IF i <= k THEN q[i] ELSE IF i = k + 1 THEN x ELSE q[i - 1]
    <2>1. CASE i <= k + 1
        <3>1. r[i] = c[i]
            BY <1>7, <2>1
        <3>. QED  BY <1>5, <2>1, <3>1
    <2>2. CASE i > k + 1
        <3>1. r[i] = b[i - (k + 1)]
            BY <1>7, <2>2
        <3>2. i - (k + 1) \in 1..(Len(q) - k) /\ (i - (k + 1)) + k = i - 1
            BY <2>2
        <3>. QED  BY <1>2, <2>2, <3>1, <3>2, SMTT(30)
    <2>. QED  BY <2>1, <2>2
<1>9. k + 1 \in 1..(Len(q) + 1) /\ ~(k + 1 <= k)
    OBVIOUS
<1>. QED  BY <1>7, <1>8, <1>9

-----------------------------------------------------------------------------
(***************************************************************************)
(* Types                                                                   *)
(***************************************************************************)

LEMMA PriorityIsNatural ==
    ASSUME NEW names \in Configs, NEW s
    PROVE  SyncRepGetStandbyPriority(names, s) \in Nat
<1>. DEFINE places == {i \in DOMAIN names : names[i] \in {s, AnyName}}
<1>1. places \in SUBSET Nat
    BY ConstantsAssumption
<1>2. CASE places = {}
    BY <1>2 DEF SyncRepGetStandbyPriority
<1>3. CASE places # {}
    <2>1. \E i \in places : \A j \in places : i =< j
        BY <1>1, <1>3, MinIsLeast
    <2>2. (CHOOSE i \in places : \A j \in places : i =< j) \in places
        BY <2>1
    <2>. QED  BY <1>1, <1>3, <2>2 DEF SyncRepGetStandbyPriority
<1>. QED  BY <1>2, <1>3

\* Where SyncRepQueueInsert puts a backend.
LEMMA PlaceIs ==
    ASSUME TypeOK, NEW b \in Backends
    PROVE  \E k \in 0..Len(queue) :
            /\ SyncRepQueueInsert(b) = InsertAt(queue, k + 1, b)
            /\ k > 0 => waitLSN[queue[k]] < commitLSN[b]
            /\ \A i \in DOMAIN queue : i > k => ~(waitLSN[queue[i]] < commitLSN[b])
<1>. DEFINE before == {i \in DOMAIN queue : waitLSN[queue[i]] < commitLSN[b]}
            last == IF before = {} THEN 0
                    ELSE CHOOSE i \in before : \A j \in before : j =< i
<1>1. /\ DOMAIN queue = 1..Len(queue) /\ Len(queue) \in Nat
      /\ before \in SUBSET Nat /\ before \subseteq 1..Len(queue)
    BY DEF TypeOK
<1>2. SyncRepQueueInsert(b) = InsertAt(queue, last + 1, b)
    BY DEF SyncRepQueueInsert
<1>3. CASE before = {}
    BY <1>1, <1>2, <1>3
<1>4. CASE before # {}
    <2>1. \A i \in before : i <= Len(queue)
        BY <1>1
    <2>2. \E i \in before : \A j \in before : j =< i
        BY <1>1, <1>4, <2>1, MaxIsGreatest
    <2>3. last \in before /\ \A j \in before : j =< last
        BY <1>4, <2>2
    <2>4. \A i \in DOMAIN queue : i > last => i \notin before
        BY <1>1, <2>3
    <2>5. last \in 0..Len(queue) /\ waitLSN[queue[last]] < commitLSN[b]
        BY <1>1, <2>3
    <2>6. \A i \in DOMAIN queue : i > last => ~(waitLSN[queue[i]] < commitLSN[b])
        BY <2>4
    <2>. HIDE DEF last, before
    <2>. QED  BY <1>2, <2>5, <2>6
<1>. QED  BY <1>3, <1>4

\* A backend that joins the queue is new there, and keeps it in order.
LEMMA JoinsInOrder ==
    ASSUME TypeOK, LsnInv, QueueInv, NEW b \in Backends, Enqueue(b)
    PROVE  /\ queue' \in Seq(Backends) /\ IsInjective(queue') /\ Sorted(queue)'
           /\ \A i \in DOMAIN queue' :
                queue'[i] = b \/ \E j \in DOMAIN queue : queue'[i] = queue[j]
           /\ \E i \in DOMAIN queue' : queue'[i] = b
           /\ \A j \in DOMAIN queue : \E i \in DOMAIN queue' : queue'[i] = queue[j]
           /\ \A j \in DOMAIN queue : queue[j] # b
<1>. DEFINE n == Len(queue)
            c == commitLSN[b]
<1>1. PICK k \in 0..n :
        /\ queue' = InsertAt(queue, k + 1, b)
        /\ k > 0 => waitLSN[queue[k]] < c
        /\ \A i \in DOMAIN queue : i > k => ~(waitLSN[queue[i]] < c)
    BY PlaceIs DEF Enqueue
<1>2. /\ queue \in Seq(Backends) /\ n \in Nat /\ DOMAIN queue = 1..n
      /\ c \in Nat /\ waitLSN \in [Backends -> Nat] /\ IsInjective(queue)
    BY DEF TypeOK, LSNs
<1>3. /\ queue' \in Seq(Backends) /\ Len(queue') = n + 1 /\ DOMAIN queue' = 1..(n + 1)
      /\ \A i \in 1..(n + 1) :
            queue'[i] = IF i <= k THEN queue[i] ELSE IF i = k + 1 THEN b ELSE queue[i - 1]
    <2>1. queue \in Seq(Backends) /\ k \in 0..Len(queue) /\ b \in Backends
        BY <1>2
    <2>2. /\ queue' \in Seq(Backends) /\ Len(queue') = n + 1
          /\ \A i \in 1..(n + 1) :
               queue'[i] = IF i <= k THEN queue[i] ELSE IF i = k + 1 THEN b ELSE queue[i - 1]
        <3>1. PICK q \in Seq(Backends) : q = queue
            BY <2>1
        <3>2. PICK r : r = InsertAt(q, k + 1, b)
            OBVIOUS
        <3>3. k \in Nat /\ k <= Len(q)
            BY <2>1, <3>1
        <3>4. ASSUME NEW i \in 1..(Len(q) + 1)
              PROVE  r[i] = IF i <= k THEN q[i] ELSE IF i = k + 1 THEN b ELSE q[i - 1]
            <4>1. \A m \in 1..(Len(q) + 1) : m <= k => r[m] = q[m]
                BY <3>2, <3>3, InsertedIs
            <4>2. r[k + 1] = b
                BY <3>2, <3>3, InsertedIs
            <4>3. \A m \in 1..(Len(q) + 1) : m > k + 1 => r[m] = q[m - 1]
                BY <3>2, <3>3, InsertedIs
            <4>. QED  BY <3>3, <4>1, <4>2, <4>3
        <3>5. r \in Seq(Backends) /\ Len(r) = Len(q) + 1
            BY <3>2, <3>3, InsertedIs
        <3>. QED  BY <1>1, <3>1, <3>2, <3>4, <3>5
    <2>3. DOMAIN queue' = 1..(n + 1)
        BY <2>2
    <2>. QED  BY <2>2, <2>3
<1>4. /\ pc[b] = "commit" /\ c # 0 /\ lock = Nobody
      /\ waitLSN' = [waitLSN EXCEPT ![b] = c]
    BY DEF Enqueue, LsnInv, NeedToWait
<1>5. ASSUME NEW j \in 1..n
      PROVE  /\ queue[j] # b /\ waitLSN'[queue[j]] = waitLSN[queue[j]]
             /\ waitLSN[queue[j]] \in Nat /\ waitLSN[queue[j]] # c
    <2>1. PICK d \in Backends : d = queue[j]
        BY <1>2
    <2>2. state[b] = "NOT_WAITING"
        BY <1>4 DEF LsnInv
    <2>3. ASSUME state[d] = "NOT_WAITING" PROVE FALSE
        <3>1. waking.at = "delete" /\ j = 1
            BY <1>2, <2>1, <2>3 DEF QueueInv
        <3>2. released < waitLSN[queue[1]]
            BY <1>2, <1>4, <3>1 DEF QueueInv
        <3>3. waitLSN[queue[1]] = 0
            BY <2>1, <2>3, <3>1 DEF LsnInv
        <3>4. released \in Nat
            BY DEF TypeOK, LSNs
        <3>. QED  BY <3>2, <3>3, <3>4
    <2>4. d # b /\ waitLSN[d] = commitLSN[d]
        BY <2>2, <2>3 DEF LsnInv
    <2>5. commitLSN[d] # c
        BY <1>4, <2>4 DEF LsnInv
    <2>. QED  BY <1>2, <1>4, <2>1, <2>4, <2>5
<1>6. ASSUME NEW i \in 1..n, NEW j \in 1..n, i < j
      PROVE  waitLSN[queue[i]] < waitLSN[queue[j]]
    BY <1>2, <1>6 DEF QueueInv, Sorted
<1>7. ASSUME NEW i \in 1..n PROVE i <= k => waitLSN[queue[i]] < c
    <2>1. CASE i = k
        BY <1>1, <2>1
    <2>2. CASE i < k
        <3>1. k \in 1..n /\ k > 0
            BY <2>2
        <3>2. waitLSN[queue[k]] < c /\ waitLSN[queue[i]] < waitLSN[queue[k]]
            BY <1>1, <1>6, <2>2, <3>1
        <3>. QED  BY <1>2, <1>5, <3>1, <3>2
    <2>. QED  BY <2>1, <2>2
<1>8. ASSUME NEW i \in 1..n PROVE i > k => c < waitLSN[queue[i]]
    BY <1>1, <1>2, <1>5
<1>. DEFINE from(i) == IF i <= k THEN i ELSE i - 1
<1>9. \A i \in 1..(n + 1) : i # k + 1 =>
          from(i) \in 1..n /\ queue'[i] = queue[from(i)] /\ (from(i) <= k <=> i <= k)
    BY <1>1, <1>2, <1>3, SMTT(30)
<1>10. waitLSN'[b] = c /\ queue'[k + 1] = b /\ k + 1 \in 1..(n + 1)
    BY <1>1, <1>2, <1>3, <1>4
<1>11. ASSUME NEW i \in DOMAIN queue', NEW j \in DOMAIN queue', i < j
       PROVE  waitLSN'[queue'[i]] < waitLSN'[queue'[j]]
    <2>1. i \in 1..(n + 1) /\ j \in 1..(n + 1)
        BY <1>3
    <2>2. CASE i = k + 1
        <3>1. j # k + 1 /\ ~(j <= k)
            BY <1>11, <2>1, <2>2
        <3>2. from(j) \in 1..n /\ queue'[j] = queue[from(j)] /\ from(j) > k
            BY <1>9, <2>1, <3>1
        <3>. QED  BY <1>5, <1>8, <1>10, <2>2, <3>2
    <2>3. CASE j = k + 1
        <3>1. i # k + 1 /\ i <= k
            BY <1>11, <2>1, <2>3
        <3>2. from(i) \in 1..n /\ queue'[i] = queue[from(i)] /\ from(i) <= k
            BY <1>9, <2>1, <3>1
        <3>. QED  BY <1>5, <1>7, <1>10, <2>3, <3>2
    <2>4. CASE i # k + 1 /\ j # k + 1
        <3>1. /\ from(i) \in 1..n /\ queue'[i] = queue[from(i)]
              /\ from(j) \in 1..n /\ queue'[j] = queue[from(j)]
            BY <1>9, <2>1, <2>4
        <3>2. from(i) < from(j)
            BY <1>11, <2>1, <2>4
        <3>3. waitLSN[queue[from(i)]] < waitLSN[queue[from(j)]]
            BY <1>6, <3>1, <3>2
        <3>. QED  BY <1>5, <3>1, <3>3
    <2>. QED  BY <2>2, <2>3, <2>4
<1>12. Sorted(queue)'
    BY <1>11 DEF Sorted
<1>13. ASSUME NEW i \in DOMAIN queue' PROVE waitLSN'[queue'[i]] \in Nat
    <2>1. queue'[i] \in Backends
        BY <1>3
    <2>. QED  BY <1>2, <1>4, <2>1
<1>14. ASSUME NEW i \in DOMAIN queue', NEW j \in DOMAIN queue', queue'[i] = queue'[j]
       PROVE  i = j
    <2>1. i \in Nat /\ j \in Nat
        BY <1>3
    <2>2. ~(i < j) /\ ~(j < i)
        BY <1>11, <1>13, <1>14
    <2>. QED  BY <2>1, <2>2
<1>15. ASSUME NEW j \in DOMAIN queue PROVE \E i \in DOMAIN queue' : queue'[i] = queue[j]
    <2>1. CASE j <= k
        <3>1. j \in 1..(n + 1) /\ queue'[j] = queue[j]
            BY <1>2, <1>3, <2>1
        <3>. QED  BY <1>3, <3>1
    <2>2. CASE j > k
        <3>1. j + 1 \in 1..(n + 1) /\ ~(j + 1 <= k) /\ j + 1 # k + 1 /\ (j + 1) - 1 = j
            BY <1>2, <2>2
        <3>. QED  BY <1>3, <3>1
    <2>. QED  BY <1>2, <2>1, <2>2
<1>16. ASSUME NEW i \in DOMAIN queue'
       PROVE  queue'[i] = b \/ \E j \in DOMAIN queue : queue'[i] = queue[j]
    <2>1. CASE i = k + 1
        BY <1>10, <2>1
    <2>2. CASE i # k + 1
        <3>1. from(i) \in 1..n /\ queue'[i] = queue[from(i)]
            BY <1>3, <1>9, <2>2
        <3>. HIDE DEF from
        <3>. QED  BY <1>2, <3>1
    <2>. QED  BY <2>1, <2>2
<1>17. \A j \in DOMAIN queue : queue[j] # b
    BY <1>2, <1>5
<1>. QED  BY <1>3, <1>10, <1>12, <1>14, <1>15, <1>16, <1>17 DEF IsInjective

\* Taking one out keeps the types and the order.
LEMMA LeavesInOrder ==
    ASSUME TypeOK, NEW x
    PROVE  /\ LeaveQueue(x) \in Seq(Backends) /\ IsInjective(LeaveQueue(x))
           /\ Sorted(queue) => Sorted(LeaveQueue(x))
<1>. DEFINE r == LeaveQueue(x)
<1>1. queue \in Seq(Backends) /\ IsInjective(queue)
    BY DEF TypeOK
<1>2. /\ r \in Seq(Backends)
      /\ \A i, j \in DOMAIN r : i < j =>
            \E k, l \in DOMAIN queue : k < l /\ r[i] = queue[k] /\ r[j] = queue[l]
    BY <1>1, RemovedIs DEF LeaveQueue
<1>. HIDE DEF r
<1>3. ASSUME NEW i \in DOMAIN r, NEW j \in DOMAIN r, i < j PROVE r[i] # r[j]
    <2>1. PICK k \in DOMAIN queue, l \in DOMAIN queue :
            k < l /\ r[i] = queue[k] /\ r[j] = queue[l]
        BY <1>2, <1>3
    <2>2. k \in Nat /\ l \in Nat
        BY <1>1
    <2>. QED  BY <1>1, <2>1, <2>2 DEF IsInjective
<1>4. IsInjective(r)
    <2>1. \A i \in DOMAIN r : i \in Nat
        BY <1>2
    <2>. QED  BY <1>3, <2>1 DEF IsInjective
<1>5. Sorted(queue) => Sorted(r)
    BY <1>2 DEF Sorted
<1>. QED  BY <1>2, <1>4, <1>5 DEF r

-----------------------------------------------------------------------------
(***************************************************************************)
(* The inductive step, action by action                                    *)
(***************************************************************************)

\* The queue and what depends on it change in these steps only.
LoopStep(b) ==
    \/ ResetLatch(b) \/ TestState(b) \/ TestInterrupts(b)
    \/ DrainSelfPipe(b) \/ CheckLatch(b) \/ SelectReady(b) \/ SelectTimeout(b)

HandlerStep(b) == Sigusr1Handler(b) \/ StatementCancelHandler(b) \/ Die(b)

SlotStep ==
    \/ \E w \in Slots : \/ SyncRepInitConfig(w) \/ CaughtUp(w) \/ WalSndKill(w)
                        \/ ProcessStandbyReplyMessage(w)
    \/ \E s \in Standbys : InitWalSnd(s)

ConfigStep == ChangeConfig \/ BgWriterReload \/ \E b \in Backends : BackendReload(b)

LEMMA NextSplits ==
    ASSUME [Next]_vars
    PROVE  \/ ConfigStep \/ SlotStep
           \/ SyncRepUpdateSyncStandbysDefined
           \/ \E w \in Slots : SyncRepReleaseWaiters(w)
           \/ WakeComplete \/ WakeSetLatch \/ WakeSignal \/ WakeEnd
           \/ \E b \in Backends :
                \/ Commit(b) \/ FastExit(b) \/ NoWaitNeeded(b) \/ Enqueue(b)
                \/ LoopStep(b) \/ HandlerStep(b)
                \/ SyncRepCancelWait(b) \/ WaitDone(b) \/ Terminate(b)
           \/ UNCHANGED vars
BY DEF Next, ConfigStep, SlotStep, LoopStep, HandlerStep, BgWriterStep,
       SyncRepWakeQueue, SyncRepWait, WalSndStep

\* What a step inside the wait loop leaves alone, and where it leads.
LEMMA LoopStepIs ==
    ASSUME TypeOK, NEW b \in Backends, LoopStep(b)
    PROVE  /\ UNCHANGED <<events, confVars, insertLSN, lock, queueVars, slotVars, waking,
                          disk, commitLSN, excused, procDie, sigusr1>>
           /\ pc[b] \in WaitSteps
           /\ \E at \in WaitSteps \union {"cleanup"} :
                /\ pc' = [pc EXCEPT ![b] = at]
                /\ at = "cleanup" => state[b] = "WAIT_COMPLETE"
           /\ isSet' \in [Backends -> BOOLEAN] /\ pipe' \in [Backends -> BOOLEAN]
           /\ queryCancel' \in [Backends -> BOOLEAN]
<1>. USE DEF Goto, WaitSteps, SleepSteps, latchVars
<1>1. CASE ResetLatch(b)
    BY <1>1 DEF ResetLatch, TypeOK
<1>2. CASE TestState(b)
    BY <1>2 DEF TestState, TypeOK
<1>3. CASE TestInterrupts(b)
    <2>1. PICK at \in {"die", "cancel", "drain"} : Goto(b, "interrupts", at)
        BY <1>3 DEF TestInterrupts
    <2>2. queryCancel' \in [Backends -> BOOLEAN]
        <3>1. PICK v \in BOOLEAN : queryCancel' = [queryCancel EXCEPT ![b] = v]
            <4>1. (queryCancel[b] /\ procDie[b]) \in BOOLEAN
                OBVIOUS
            <4>. QED  BY <1>3, <4>1 DEF TestInterrupts
        <3>. QED  BY <3>1 DEF TypeOK
    <2>3. UNCHANGED latchVars
        BY <1>3 DEF TestInterrupts
    <2>. QED  BY <2>1, <2>2, <2>3 DEF TypeOK
<1>4. CASE DrainSelfPipe(b)
    BY <1>4 DEF DrainSelfPipe, TypeOK
<1>5. CASE CheckLatch(b)
    <2>1. PICK at \in {"reset", "select"} : Goto(b, "check", at)
        BY <1>5 DEF CheckLatch
    <2>. QED  BY <1>5, <2>1 DEF CheckLatch, TypeOK
<1>6. CASE SelectReady(b) \/ SelectTimeout(b)
    BY <1>6 DEF SelectReady, SelectTimeout, TypeOK
<1>. QED  BY <1>1, <1>2, <1>3, <1>4, <1>5, <1>6 DEF LoopStep

LEMMA HandlerStepIs ==
    ASSUME TypeOK, NEW b \in Backends, HandlerStep(b)
    PROVE  /\ UNCHANGED <<confVars, insertLSN, lock, queueVars, slotVars, waking,
                          disk, commitLSN, excused>>
           /\ \/ pc' = pc
              \/ pc[b] = "select" /\ pc' = [pc EXCEPT ![b] = "drain"]
           /\ isSet' \in [Backends -> BOOLEAN] /\ pipe' \in [Backends -> BOOLEAN]
           /\ sigusr1' \in [Backends -> BOOLEAN]
           /\ queryCancel' \in [Backends -> BOOLEAN] /\ procDie' \in [Backends -> BOOLEAN]
<1>1. CASE Sigusr1Handler(b)
    <2>1. PICK v \in BOOLEAN : pipe' = [pipe EXCEPT ![b] = v]
        <3>1. (pipe[b] \/ waiting(b)) \in BOOLEAN
            OBVIOUS
        <3>. QED  BY <1>1, <3>1 DEF Sigusr1Handler
    <2>. QED  BY <1>1, <2>1 DEF Sigusr1Handler, AfterHandler, TypeOK
<1>2. CASE StatementCancelHandler(b) \/ Die(b)
    <2>1. SetOwnLatch(b)
        BY <1>2 DEF StatementCancelHandler, Die
    <2>2. PICK v \in BOOLEAN : pipe' = [pipe EXCEPT ![b] = v]
        <3>1. (pipe[b] \/ (waiting(b) /\ ~isSet[b])) \in BOOLEAN
            OBVIOUS
        <3>. QED  BY <2>1, <3>1 DEF SetOwnLatch
    <2>3. /\ isSet' \in [Backends -> BOOLEAN] /\ pipe' \in [Backends -> BOOLEAN]
          /\ sigusr1' \in [Backends -> BOOLEAN]
          /\ \/ pc' = pc
             \/ pc[b] = "select" /\ pc' = [pc EXCEPT ![b] = "drain"]
        BY <2>1, <2>2 DEF SetOwnLatch, AfterHandler, TypeOK
    <2>4. /\ queryCancel' \in [Backends -> BOOLEAN] /\ procDie' \in [Backends -> BOOLEAN]
          /\ UNCHANGED <<confVars, insertLSN, lock, queueVars, slotVars, waking,
                         disk, commitLSN, excused>>
        BY <1>2 DEF StatementCancelHandler, Die, TypeOK
    <2>. QED  BY <2>3, <2>4
<1>. QED  BY <1>1, <1>2 DEF HandlerStep

LEMMA NobodyIs == Nobody \notin Backends /\ Nobody \notin Wakers /\ BgWriter \notin Slots
BY ConstantsAssumption DEF Wakers, BgWriter, Slots

LEMMA TypeInit == Init => TypeOK
<1>. SUFFICES ASSUME Init PROVE TypeOK
    OBVIOUS
<1>1. <<>> \in Seq(Backends) /\ IsInjective(<<>>)
    BY DEF IsInjective
<1>2. 0 \in LSNs /\ FirstConfig \in Configs
    BY ConstantsAssumption DEF LSNs
<1>3. SyncStandbysDefined(FirstConfig) \in BOOLEAN
    BY DEF SyncStandbysDefined
<1>. QED  BY <1>1, <1>2, <1>3 DEF Init, TypeOK, NotWaking, Wakers

\* TypeOK in parts.
ConfTypes ==
    /\ conf \in Configs /\ confs \subseteq Configs /\ conf \in confs
    /\ seen \in [Backends \union {BgWriter} -> Configs]

SlotTypes ==
    /\ served \in [Slots -> Standbys \union {Nobody}]
    /\ sndState \in [Slots -> {"STARTUP", "CATCHUP", "STREAMING"}]
    /\ priority \in [Slots -> Nat] /\ flush \in [Slots -> LSNs]
    /\ todo \in [Slots -> {"none", "init", "loop", "release", "wake"}]
    /\ disk \in [Standbys -> LSNs]

WaitTypes ==
    /\ insertLSN \in LSNs /\ released \in LSNs /\ defined \in BOOLEAN
    /\ queue \in Seq(Backends) /\ IsInjective(queue)
    /\ state \in [Backends -> {"NOT_WAITING", "WAITING", "WAIT_COMPLETE"}]
    /\ waitLSN \in [Backends -> LSNs] /\ commitLSN \in [Backends -> LSNs]
    /\ pc \in [Backends -> {"idle", "commit", "cleanup"} \union WaitSteps]
    /\ excused \subseteq Backends

WakerTypes ==
    /\ lock \in Wakers \union {Nobody}
    /\ waking \in [by : Wakers \union {Nobody}, all : BOOLEAN,
                   proc : Backends \union {Nobody},
                   at : {"next", "delete", "signal"}]

FlagTypes ==
    /\ queryCancel \in [Backends -> BOOLEAN] /\ procDie \in [Backends -> BOOLEAN]
    /\ isSet \in [Backends -> BOOLEAN]
    /\ pipe \in [Backends -> BOOLEAN] /\ sigusr1 \in [Backends -> BOOLEAN]

LEMMA TypeParts == TypeOK <=> ConfTypes /\ SlotTypes /\ WaitTypes /\ WakerTypes /\ FlagTypes
<1>1. TypeOK => ConfTypes
    BY DEF TypeOK, ConfTypes
<1>2. TypeOK => SlotTypes
    BY DEF TypeOK, SlotTypes
<1>3. TypeOK => WaitTypes
    BY DEF TypeOK, WaitTypes
<1>4. TypeOK => WakerTypes
    BY DEF TypeOK, WakerTypes
<1>5. TypeOK => FlagTypes
    BY DEF TypeOK, FlagTypes
<1>6. ASSUME ConfTypes, SlotTypes, WaitTypes, WakerTypes, FlagTypes PROVE TypeOK
    BY <1>6 DEF TypeOK, ConfTypes, SlotTypes, WaitTypes, WakerTypes, FlagTypes
<1>. QED  BY <1>1, <1>2, <1>3, <1>4, <1>5, <1>6

LEMMA TypePartsPrimed ==
    ConfTypes' /\ SlotTypes' /\ WaitTypes' /\ WakerTypes' /\ FlagTypes' => TypeOK'
BY TypeParts, PTL

LEMMA TypeStep ==
    ASSUME TypeOK, LsnInv, WakerInv, QueueInv, [Next]_vars
    PROVE  TypeOK'
<1>. USE DEF confVars, slotVars, queueVars, latchVars, backendVars
<1>0. ConfTypes /\ SlotTypes /\ WaitTypes /\ WakerTypes /\ FlagTypes
    BY TypeParts
<1>1. CASE ConfigStep
    <2>1. SlotTypes' /\ WaitTypes' /\ WakerTypes' /\ FlagTypes'
        BY <1>0, <1>1 DEF ConfigStep, ChangeConfig, BgWriterReload, BackendReload,
            SlotTypes, WaitTypes, WakerTypes, FlagTypes
    <2>2. ASSUME ChangeConfig PROVE ConfTypes'
        BY <1>0, <2>2 DEF ChangeConfig, ConfTypes
    <2>3. ASSUME BgWriterReload PROVE ConfTypes'
        BY <1>0, <2>3 DEF BgWriterReload, ConfTypes
    <2>4. ASSUME NEW b \in Backends, BackendReload(b) PROVE ConfTypes'
        BY <1>0, <2>4 DEF BackendReload, ConfTypes
    <2>. QED  BY <1>1, <2>1, <2>2, <2>3, <2>4, TypePartsPrimed DEF ConfigStep
<1>2. CASE SlotStep
    <2>1. ASSUME NEW w \in Slots, SyncRepInitConfig(w) PROVE TypeOK'
        <3>1. PICK new \in Nat : priority' = [priority EXCEPT ![w] = new]
            BY <2>1, PriorityIsNatural DEF SyncRepInitConfig, TypeOK
        <3>2. sndState' \in [Slots -> {"STARTUP", "CATCHUP", "STREAMING"}]
            BY <2>1 DEF SyncRepInitConfig, TypeOK
        <3>. QED  BY <2>1, <3>1, <3>2 DEF SyncRepInitConfig, TypeOK
    <2>2. ASSUME NEW w \in Slots, CaughtUp(w) \/ WalSndKill(w) PROVE TypeOK'
        BY <2>2, ZenonT(60) DEF CaughtUp, WalSndKill, TypeOK
    <2>3. ASSUME NEW w \in Slots, ProcessStandbyReplyMessage(w) PROVE TypeOK'
        <3>1. PICK lsn \in disk[served[w]] .. insertLSN :
                /\ disk' = [disk EXCEPT ![served[w]] = lsn]
                /\ flush' = [flush EXCEPT ![w] = lsn]
            BY <2>3 DEF ProcessStandbyReplyMessage
        <3>2. served[w] \in Standbys
            BY <1>0, <2>3 DEF ProcessStandbyReplyMessage, WakerInv, SlotTypes
        <3>3. lsn \in LSNs
            BY <3>1, <3>2, ConstantsAssumption DEF TypeOK, LSNs
        <3>4. todo' \in [Slots -> {"none", "init", "loop", "release", "wake"}]
            BY <2>3 DEF ProcessStandbyReplyMessage, TypeOK
        <3>5. SlotTypes'
            BY <1>0, <2>3, <3>1, <3>2, <3>3, <3>4
            DEF ProcessStandbyReplyMessage, SlotTypes
        <3>6. ConfTypes' /\ WaitTypes' /\ WakerTypes' /\ FlagTypes'
            BY <1>0, <2>3 DEF ProcessStandbyReplyMessage,
                ConfTypes, WaitTypes, WakerTypes, FlagTypes
        <3>. QED  BY <3>5, <3>6, TypePartsPrimed
    <2>4. ASSUME NEW s \in Standbys, InitWalSnd(s) PROVE TypeOK'
        BY <2>4 DEF InitWalSnd, TypeOK
    <2>. QED  BY <1>2, <2>1, <2>2, <2>3, <2>4 DEF SlotStep
<1>3. CASE SyncRepUpdateSyncStandbysDefined
    BY <1>3, ZenonT(60) DEF SyncRepUpdateSyncStandbysDefined, NotWaking, TypeOK, Wakers
<1>4. ASSUME NEW w \in Slots, SyncRepReleaseWaiters(w) PROVE TypeOK'
    <2>1. WakerTypes'
        BY <1>0, <1>4 DEF SyncRepReleaseWaiters, NotWaking, WakerTypes, Wakers
    <2>2. WaitTypes'
        BY <1>0, <1>4 DEF SyncRepReleaseWaiters, WaitTypes, SlotTypes
    <2>3. SlotTypes'
        BY <1>0, <1>4 DEF SyncRepReleaseWaiters, SlotTypes
    <2>4. ConfTypes' /\ FlagTypes'
        BY <1>0, <1>4 DEF SyncRepReleaseWaiters, ConfTypes, FlagTypes
    <2>. QED  BY <2>1, <2>2, <2>3, <2>4, TypePartsPrimed
<1>5. CASE WakeComplete
    <2>1. queue[1] \in Backends
        BY <1>5 DEF WakeComplete, MoreToWake, TypeOK
    <2>2. state' = [state EXCEPT ![queue[1]] = "WAIT_COMPLETE"]
        BY <1>5 DEF WakeComplete
    <2>3. waking' = [waking EXCEPT !.proc = queue[1], !.at = "delete"]
        BY <1>5 DEF WakeComplete
    <2>4. excused' \subseteq Backends
        BY <1>5, <2>1 DEF WakeComplete, TypeOK
    <2>. QED  BY <1>5, <2>1, <2>2, <2>3, <2>4 DEF WakeComplete, TypeOK
<1>6. CASE WakeSetLatch
    <2>1. queue' \in Seq(Backends) /\ IsInjective(queue')
        BY <1>6, LeavesInOrder DEF WakeSetLatch
    <2>. QED  BY <1>6, <2>1 DEF WakeSetLatch, TypeOK
<1>7. CASE WakeSignal
    BY <1>7 DEF WakeSignal, TypeOK
<1>8. CASE WakeEnd
    <2>1. defined' \in BOOLEAN
        BY <1>8 DEF WakeEnd, TypeOK
    <2>. QED  BY <1>8, <2>1 DEF WakeEnd, TypeOK, NotWaking
<1>9. ASSUME NEW b \in Backends, Commit(b) PROVE TypeOK'
    <2>1. insertLSN + 1 \in LSNs
        BY <1>9, ConstantsAssumption DEF Commit, TypeOK, LSNs
    <2>. QED  BY <1>9, <2>1 DEF Commit, TypeOK
<1>10. ASSUME NEW b \in Backends, FastExit(b) \/ NoWaitNeeded(b) \/ WaitDone(b)
       PROVE  TypeOK'
    <2>1. 0 \in LSNs
        BY ConstantsAssumption DEF LSNs
    <2>2. WaitTypes'
        BY <1>0, <1>10, <2>1 DEF FastExit, NoWaitNeeded, WaitDone, Return, WaitTypes
    <2>3. ConfTypes' /\ SlotTypes' /\ WakerTypes' /\ FlagTypes'
        BY <1>0, <1>10 DEF FastExit, NoWaitNeeded, WaitDone,
            ConfTypes, SlotTypes, WakerTypes, FlagTypes
    <2>. QED  BY <2>2, <2>3, TypePartsPrimed
<1>11. ASSUME NEW b \in Backends, Enqueue(b) PROVE TypeOK'
    <2>1. queue' \in Seq(Backends) /\ IsInjective(queue')
        BY <1>11, JoinsInOrder
    <2>. QED  BY <1>11, <2>1 DEF Enqueue, TypeOK, WaitSteps
<1>12. ASSUME NEW b \in Backends, LoopStep(b) PROVE TypeOK'
    <2>1. ConfTypes' /\ SlotTypes' /\ WakerTypes'
        BY <1>0, <1>12, LoopStepIs DEF ConfTypes, SlotTypes, WakerTypes
    <2>2. WaitTypes'
        BY <1>0, <1>12, LoopStepIs DEF WaitTypes
    <2>3. FlagTypes'
        BY <1>0, <1>12, LoopStepIs DEF FlagTypes
    <2>. QED  BY <2>1, <2>2, <2>3, TypePartsPrimed
<1>13. ASSUME NEW b \in Backends, HandlerStep(b) PROVE TypeOK'
    <2>1. ConfTypes' /\ SlotTypes' /\ WakerTypes'
        BY <1>0, <1>13, HandlerStepIs DEF ConfTypes, SlotTypes, WakerTypes
    <2>2. WaitTypes'
        BY <1>0, <1>13, HandlerStepIs DEF WaitTypes, WaitSteps, SleepSteps
    <2>3. FlagTypes'
        BY <1>0, <1>13, HandlerStepIs DEF FlagTypes
    <2>. QED  BY <2>1, <2>2, <2>3, TypePartsPrimed
<1>14. ASSUME NEW b \in Backends, SyncRepCancelWait(b) \/ Terminate(b) PROVE TypeOK'
    <2>1. queue' \in Seq(Backends) /\ IsInjective(queue')
        BY <1>14, LeavesInOrder DEF SyncRepCancelWait, Terminate
    <2>2. 0 \in LSNs
        BY ConstantsAssumption DEF LSNs
    <2>3. WaitTypes'
        BY <1>0, <1>14, <2>1, <2>2, SMTT(30) DEF SyncRepCancelWait, Terminate, Return, WaitTypes
    <2>4. ConfTypes' /\ SlotTypes' /\ WakerTypes' /\ FlagTypes'
        BY <1>0, <1>14 DEF SyncRepCancelWait, Terminate,
            ConfTypes, SlotTypes, WakerTypes, FlagTypes
    <2>. QED  BY <2>3, <2>4, TypePartsPrimed
<1>15. CASE UNCHANGED vars
    BY <1>15 DEF vars, TypeOK
<1>. QED
    BY <1>1, <1>2, <1>3, <1>4, <1>5, <1>6, <1>7, <1>8, <1>9, <1>10, <1>11, <1>12,
       <1>13, <1>14, <1>15, NextSplits

LEMMA LsnStep ==
    ASSUME TypeOK, TypeOK', LsnInv, WakerInv, QueueInv, [Next]_vars
    PROVE  LsnInv'
<1>. USE DEF confVars, slotVars, queueVars, latchVars, backendVars
<1>0. /\ insertLSN \in Nat /\ commitLSN \in [Backends -> Nat]
      /\ waitLSN \in [Backends -> Nat]
      /\ state \in [Backends -> {"NOT_WAITING", "WAITING", "WAIT_COMPLETE"}]
      /\ pc \in [Backends -> {"idle", "commit", "cleanup"} \union WaitSteps]
      /\ {"idle", "commit", "cleanup"} \intersect WaitSteps = {}
    BY DEF TypeOK, LSNs, WaitSteps, SleepSteps
<1>1. ASSUME UNCHANGED <<insertLSN, commitLSN, waitLSN, state, pc>> PROVE LsnInv'
    BY <1>1 DEF LsnInv
<1>2. CASE ConfigStep
    BY <1>1, <1>2 DEF ConfigStep, ChangeConfig, BgWriterReload, BackendReload
<1>3. CASE SlotStep
    BY <1>1, <1>3 DEF SlotStep, SyncRepInitConfig, CaughtUp, WalSndKill,
        ProcessStandbyReplyMessage, InitWalSnd
<1>4. CASE SyncRepUpdateSyncStandbysDefined \/ WakeSetLatch \/ WakeSignal \/ WakeEnd
    BY <1>1, <1>4 DEF SyncRepUpdateSyncStandbysDefined, WakeSetLatch, WakeSignal, WakeEnd
<1>5. ASSUME NEW w \in Slots, SyncRepReleaseWaiters(w) PROVE LsnInv'
    BY <1>1, <1>5 DEF SyncRepReleaseWaiters
<1>6. CASE WakeComplete
    <2>1. PICK b \in Backends : b = queue[1] /\ state[b] = "WAITING"
        BY <1>6 DEF WakeComplete, MoreToWake, TypeOK, QueueInv
    <2>2. state' = [state EXCEPT ![b] = "WAIT_COMPLETE"]
        BY <1>6, <2>1 DEF WakeComplete
    <2>. QED  BY <1>0, <1>6, <2>1, <2>2 DEF WakeComplete, LsnInv
<1>7. ASSUME NEW b \in Backends, Commit(b) PROVE LsnInv'
    BY <1>0, <1>7 DEF Commit, LsnInv
<1>8. ASSUME NEW b \in Backends, FastExit(b) \/ NoWaitNeeded(b) PROVE LsnInv'
    BY <1>0, <1>8 DEF FastExit, NoWaitNeeded, Return, LsnInv
<1>9. ASSUME NEW b \in Backends, Enqueue(b) PROVE LsnInv'
    BY <1>0, <1>9 DEF Enqueue, LsnInv, WaitSteps
<1>10. ASSUME NEW b \in Backends, SyncRepCancelWait(b) \/ WaitDone(b) PROVE LsnInv'
    BY <1>0, <1>10 DEF SyncRepCancelWait, WaitDone, Return, LsnInv, WaitSteps
<1>11. ASSUME NEW b \in Backends, Terminate(b) PROVE LsnInv'
    BY <1>1, <1>11 DEF Terminate
<1>12. ASSUME NEW b \in Backends, LoopStep(b) PROVE LsnInv'
    <2>1. PICK at \in WaitSteps \union {"cleanup"} :
            pc' = [pc EXCEPT ![b] = at] /\ (at = "cleanup" => state[b] = "WAIT_COMPLETE")
        BY <1>12, LoopStepIs
    <2>2. pc[b] \in WaitSteps /\ UNCHANGED <<insertLSN, commitLSN, waitLSN, state>>
        BY <1>12, LoopStepIs
    <2>. QED  BY <1>0, <2>1, <2>2 DEF LsnInv
<1>13. ASSUME NEW b \in Backends, HandlerStep(b) PROVE LsnInv'
    <2>1. UNCHANGED <<insertLSN, commitLSN, waitLSN, state>>
        BY <1>13, HandlerStepIs
    <2>2. pc' = pc \/ (pc[b] = "select" /\ pc' = [pc EXCEPT ![b] = "drain"])
        BY <1>13, HandlerStepIs
    <2>. QED  BY <1>0, <1>1, <2>1, <2>2 DEF LsnInv
<1>14. CASE UNCHANGED vars
    BY <1>1, <1>14 DEF vars
<1>. QED
    BY <1>2, <1>3, <1>4, <1>5, <1>6, <1>7, <1>8, <1>9, <1>10, <1>11, <1>12, <1>13,
       <1>14, NextSplits

\* The lock is held by whoever wakes.
LEMMA WakerStep ==
    ASSUME TypeOK, WakerInv, [Next]_vars
    PROVE  WakerInv'
<1>. USE DEF confVars, slotVars, queueVars, latchVars, backendVars
<1>0. /\ todo \in [Slots -> {"none", "init", "loop", "release", "wake"}]
      /\ served \in [Slots -> Standbys \union {Nobody}] /\ BgWriter \notin Slots
      /\ waking \in [by : Wakers \union {Nobody}, all : BOOLEAN,
                     proc : Backends \union {Nobody},
                     at : {"next", "delete", "signal"}]
      /\ Nobody \notin Wakers /\ Nobody \notin Standbys /\ Nobody \notin Backends
    BY ConstantsAssumption, NobodyIs DEF TypeOK
<1>1. ASSUME UNCHANGED <<lock, waking, todo, served>> PROVE WakerInv'
    BY <1>1 DEF WakerInv
<1>2. CASE ConfigStep
    BY <1>1, <1>2 DEF ConfigStep, ChangeConfig, BgWriterReload, BackendReload
<1>3. CASE SlotStep
    <2>1. ASSUME NEW w \in Slots,
                 SyncRepInitConfig(w) \/ CaughtUp(w) \/ ProcessStandbyReplyMessage(w)
          PROVE  WakerInv'
        BY <1>0, <2>1 DEF SyncRepInitConfig, CaughtUp, ProcessStandbyReplyMessage, WakerInv
    <2>2. ASSUME NEW w \in Slots, WalSndKill(w) PROVE WakerInv'
        BY <1>0, <2>2 DEF WalSndKill, WakerInv
    <2>3. ASSUME NEW s \in Standbys, InitWalSnd(s) PROVE WakerInv'
        BY <1>0, <2>3 DEF InitWalSnd, WakerInv
    <2>. QED  BY <1>3, <2>1, <2>2, <2>3 DEF SlotStep
<1>4. CASE SyncRepUpdateSyncStandbysDefined
    BY <1>0, <1>4 DEF SyncRepUpdateSyncStandbysDefined, WakerInv, NotWaking, Wakers
<1>5. ASSUME NEW w \in Slots, SyncRepReleaseWaiters(w) PROVE WakerInv'
    <2>1. CASE IsSyncWalSnd(w) /\ released < flush[w]
        <3>1. /\ waking' = [NotWaking EXCEPT !.by = w] /\ lock' = w /\ served' = served
              /\ todo' = [todo EXCEPT ![w] = "wake"] /\ todo[w] = "release"
            BY <1>5, <2>1 DEF SyncRepReleaseWaiters
        <3>. QED  BY <1>0, <3>1 DEF WakerInv, NotWaking, Wakers
    <2>2. CASE ~(IsSyncWalSnd(w) /\ released < flush[w])
        <3>1. /\ waking' = waking /\ lock' = lock /\ served' = served
              /\ todo' = [todo EXCEPT ![w] = "loop"] /\ todo[w] = "release"
            BY <1>5, <2>2 DEF SyncRepReleaseWaiters
        <3>. QED  BY <1>0, <3>1 DEF WakerInv
    <2>. QED  BY <2>1, <2>2
<1>6. CASE WakeComplete
    <2>1. queue[1] \in Backends
        BY <1>6 DEF WakeComplete, MoreToWake, TypeOK
    <2>2. waking' = [waking EXCEPT !.proc = queue[1], !.at = "delete"]
        BY <1>6 DEF WakeComplete
    <2>. QED  BY <1>0, <1>6, <2>1, <2>2 DEF WakeComplete, WakerInv, NotWaking
<1>7. CASE WakeSetLatch \/ WakeSignal
    <2>1. waking.by # Nobody
        BY <1>7 DEF WakeSetLatch, WakeSignal, WakerInv, NotWaking
    <2>. QED  BY <1>0, <1>7, <2>1 DEF WakeSetLatch, WakeSignal, WakerInv
<1>8. CASE WakeEnd
    <2>1. CASE waking.by = BgWriter
        BY <1>0, <1>8, <2>1 DEF WakeEnd, WakerInv, NotWaking, Wakers
    <2>2. CASE waking.by # BgWriter
        <3>1. waking.by \in Slots /\ todo' = [todo EXCEPT ![waking.by] = "loop"]
            BY <1>0, <1>8, <2>2 DEF WakeEnd, Wakers
        <3>2. todo[waking.by] = "wake" /\ served[waking.by] # Nobody
            BY <3>1 DEF WakerInv
        <3>. QED  BY <1>0, <1>8, <2>2, <3>1, <3>2 DEF WakeEnd, WakerInv, NotWaking, Wakers
    <2>. QED  BY <2>1, <2>2
<1>9. ASSUME NEW b \in Backends,
             \/ Commit(b) \/ FastExit(b) \/ NoWaitNeeded(b) \/ Enqueue(b)
             \/ SyncRepCancelWait(b) \/ WaitDone(b) \/ Terminate(b)
      PROVE  WakerInv'
    BY <1>1, <1>9 DEF Commit, FastExit, NoWaitNeeded, Enqueue, SyncRepCancelWait,
        WaitDone, Terminate
<1>10. ASSUME NEW b \in Backends, LoopStep(b) PROVE WakerInv'
    BY <1>1, <1>10, LoopStepIs
<1>11. ASSUME NEW b \in Backends, HandlerStep(b) PROVE WakerInv'
    BY <1>1, <1>11, HandlerStepIs
<1>12. CASE UNCHANGED vars
    BY <1>1, <1>12 DEF vars
<1>. QED
    BY <1>2, <1>3, <1>4, <1>5, <1>6, <1>7, <1>8, <1>9, <1>10, <1>11, <1>12, NextSplits

LEMMA QueueStep ==
    ASSUME TypeOK, TypeOK', LsnInv, WakerInv, WakerInv', QueueInv, [Next]_vars
    PROVE  QueueInv'
<1>. USE DEF confVars, slotVars, queueVars, latchVars, backendVars
<1>0. /\ released \in Nat /\ waitLSN \in [Backends -> Nat]
      /\ state \in [Backends -> {"NOT_WAITING", "WAITING", "WAIT_COMPLETE"}]
      /\ queue \in Seq(Backends) /\ IsInjective(queue)
      /\ waking \in [by : Wakers \union {Nobody}, all : BOOLEAN,
                     proc : Backends \union {Nobody},
                     at : {"next", "delete", "signal"}]
      /\ Nobody \notin Wakers
    BY NobodyIs DEF TypeOK, LSNs
<1>1. ASSUME UNCHANGED <<queue, state, waitLSN, waking, defined, released, lock>>
      PROVE  QueueInv'
    BY <1>1 DEF QueueInv, Sorted
<1>2. CASE ConfigStep
    BY <1>1, <1>2 DEF ConfigStep, ChangeConfig, BgWriterReload, BackendReload
<1>3. CASE SlotStep
    BY <1>1, <1>3 DEF SlotStep, SyncRepInitConfig, CaughtUp, WalSndKill,
        ProcessStandbyReplyMessage, InitWalSnd
<1>4. lock = Nobody => waking.at = "next"
    BY DEF WakerInv, NotWaking
<1>5. CASE SyncRepUpdateSyncStandbysDefined
    <2>1. /\ UNCHANGED <<queue, state, waitLSN, released>> /\ waking.at = "next"
          /\ waking'.at = "next"
          /\ \/ defined' = TRUE /\ lock' = lock
             \/ defined' = defined /\ lock' = BgWriter
        BY <1>4, <1>5 DEF SyncRepUpdateSyncStandbysDefined, NotWaking
    <2>2. BgWriter # Nobody
        BY NobodyIs DEF Wakers
    <2>. QED  BY <2>1, <2>2 DEF QueueInv, Sorted
<1>6. ASSUME NEW w \in Slots, SyncRepReleaseWaiters(w) PROVE QueueInv'
    <2>1. CASE IsSyncWalSnd(w) /\ released < flush[w]
        <3>1. /\ UNCHANGED <<queue, state, waitLSN, defined>> /\ waking.at = "next"
              /\ waking'.at = "next" /\ lock' = w
            BY <1>4, <1>6, <2>1 DEF SyncRepReleaseWaiters, NotWaking
        <3>2. w # Nobody
            BY NobodyIs DEF Wakers
        <3>. QED  BY <3>1, <3>2 DEF QueueInv, Sorted
    <2>2. CASE ~(IsSyncWalSnd(w) /\ released < flush[w])
        BY <1>1, <1>6, <2>2 DEF SyncRepReleaseWaiters
    <2>. QED  BY <2>1, <2>2
<1>7. CASE WakeComplete
    <2>1. /\ queue # <<>> /\ queue[1] \in Backends /\ 1 \in DOMAIN queue
          /\ waking.at = "next" /\ waking.by # Nobody
        BY <1>0, <1>7 DEF WakeComplete, MoreToWake
    <2>2. /\ state' = [state EXCEPT ![queue[1]] = "WAIT_COMPLETE"]
          /\ waking' = [waking EXCEPT !.proc = queue[1], !.at = "delete"]
          /\ UNCHANGED <<queue, waitLSN, defined, released, lock>>
        BY <1>7 DEF WakeComplete
    <2>3. waking'.at = "delete" /\ waking'.proc = queue[1] /\ lock # Nobody
        BY <1>0, <2>1, <2>2 DEF WakerInv
    <2>4. \A i \in DOMAIN queue : state'[queue[i]] = "WAITING" \/ i = 1
        <3>1. ASSUME NEW i \in DOMAIN queue, i # 1 PROVE state'[queue[i]] = "WAITING"
            <4>1. queue[i] # queue[1] /\ queue[i] \in Backends
                BY <1>0, <2>1, <3>1 DEF IsInjective
            <4>2. state[queue[i]] = "WAITING"
                BY <2>1, <3>1 DEF QueueInv
            <4>. QED  BY <1>0, <2>2, <4>1, <4>2
        <3>. QED  BY <3>1
    <2>5. \A b \in Backends : state'[b] = "WAITING" => state[b] = "WAITING"
        BY <1>0, <2>2
    <2>6. state'[queue[1]] # "WAITING"
        BY <1>0, <2>1, <2>2
    <2>. QED  BY <2>1, <2>2, <2>3, <2>4, <2>5, <2>6 DEF QueueInv, Sorted
<1>8. CASE WakeSetLatch
    <2>1. /\ waking.at = "delete" /\ queue' = LeaveQueue(waking.proc)
          /\ UNCHANGED <<state, waitLSN, defined, released, lock>>
        BY <1>8 DEF WakeSetLatch
    <2>2. /\ queue # <<>> /\ queue[1] = waking.proc /\ state[queue[1]] # "WAITING"
        BY <2>1 DEF QueueInv
    <2>3. waking'.at # "delete" /\ lock # Nobody
        BY <1>0, <1>4, <1>8, <2>1 DEF WakeSetLatch
    <2>4. /\ \A i \in DOMAIN queue : queue[i] # waking.proc =>
                \E j \in DOMAIN queue' : queue'[j] = queue[i]
          /\ \A i \in DOMAIN queue' : \E k \in DOMAIN queue : queue'[i] = queue[k] /\ k > 1
        BY <1>0, <2>1, <2>2, RemovedIs DEF LeaveQueue
    <2>5. Sorted(queue')
        BY <2>1, LeavesInOrder DEF QueueInv
    <2>6. Sorted(queue)'
        BY <2>1, <2>5 DEF Sorted
    <2>7. ASSUME NEW i \in DOMAIN queue' PROVE state'[queue'[i]] = "WAITING"
        <3>1. PICK k \in DOMAIN queue : queue'[i] = queue[k] /\ k > 1
            BY <2>4
        <3>2. k # 1
            BY <1>0, <3>1
        <3>. QED  BY <2>1, <3>1, <3>2 DEF QueueInv
    <2>8. ASSUME NEW b \in Backends, state'[b] = "WAITING"
          PROVE  \E i \in DOMAIN queue' : queue'[i] = b
        <3>1. PICK i \in DOMAIN queue : queue[i] = b
            BY <2>1, <2>8 DEF QueueInv
        <3>2. b # waking.proc
            BY <2>1, <2>2, <2>8
        <3>. QED  BY <2>4, <3>1, <3>2
    <2>9. queue' # <<>> => defined'
        BY <2>1, <2>2 DEF QueueInv
    <2>. QED  BY <2>1, <2>3, <2>6, <2>7, <2>8, <2>9 DEF QueueInv
<1>9. CASE WakeSignal
    <2>1. /\ UNCHANGED <<queue, state, waitLSN, defined, released, lock>>
          /\ waking.at = "signal" /\ waking'.at = "next"
        BY <1>0, <1>9 DEF WakeSignal
    <2>. QED  BY <2>1 DEF QueueInv, Sorted
<1>10. CASE WakeEnd
    <2>1. /\ UNCHANGED <<queue, state, waitLSN, released>>
          /\ waking.at = "next" /\ waking'.at = "next"
          /\ defined' = (defined /\ ~waking.all) /\ ~MoreToWake
        BY <1>10 DEF WakeEnd, NotWaking
    <2>2. ASSUME queue # <<>> PROVE defined' /\ ~(waitLSN[queue[1]] =< released)
        <3>1. ~waking.all /\ ~(waitLSN[Head(queue)] =< released)
            BY <2>1, <2>2 DEF MoreToWake
        <3>2. Head(queue) = queue[1]
            BY <1>0, <2>2
        <3>3. defined
            BY <2>2 DEF QueueInv
        <3>. QED  BY <2>1, <3>1, <3>2, <3>3
    <2>3. ASSUME NEW i \in DOMAIN queue PROVE released < waitLSN[queue[i]]
        <3>1. queue # <<>> /\ 1 \in DOMAIN queue
            BY <1>0
        <3>2. queue[i] \in Backends /\ queue[1] \in Backends /\ i \in Nat /\ i >= 1
            BY <1>0, <3>1
        <3>3. waitLSN[queue[i]] \in Nat /\ waitLSN[queue[1]] \in Nat
            BY <1>0, <3>2
        <3>4. i = 1 \/ waitLSN[queue[1]] < waitLSN[queue[i]]
            BY <3>1, <3>2 DEF QueueInv, Sorted
        <3>5. released < waitLSN[queue[1]]
            BY <1>0, <2>2, <3>1, <3>3
        <3>. QED  BY <1>0, <3>3, <3>4, <3>5
    <2>. QED  BY <2>1, <2>2, <2>3 DEF QueueInv, Sorted
<1>11. ASSUME NEW b \in Backends, Commit(b) \/ FastExit(b) \/ NoWaitNeeded(b)
       PROVE  QueueInv'
    BY <1>1, <1>11 DEF Commit, FastExit, NoWaitNeeded
<1>12. ASSUME NEW b \in Backends, Enqueue(b) PROVE QueueInv'
    <2>1. /\ Sorted(queue)'
          /\ \A i \in DOMAIN queue' :
                queue'[i] = b \/ \E j \in DOMAIN queue : queue'[i] = queue[j]
          /\ \E i \in DOMAIN queue' : queue'[i] = b
          /\ \A j \in DOMAIN queue : \E i \in DOMAIN queue' : queue'[i] = queue[j]
          /\ \A j \in DOMAIN queue : queue[j] # b
        BY <1>12, JoinsInOrder
    <2>2. /\ lock = Nobody /\ defined /\ commitLSN[b] > released
          /\ state' = [state EXCEPT ![b] = "WAITING"]
          /\ waitLSN' = [waitLSN EXCEPT ![b] = commitLSN[b]]
          /\ UNCHANGED <<defined, released, lock, waking>>
        BY <1>12 DEF Enqueue, NeedToWait
    <2>3. waking.at = "next"
        BY <1>4, <2>2
    <2>4. ASSUME NEW i \in DOMAIN queue'
          PROVE  state'[queue'[i]] = "WAITING" /\ released < waitLSN'[queue'[i]]
        <3>1. CASE queue'[i] = b
            <4>1. state'[b] = "WAITING" /\ waitLSN'[b] = commitLSN[b]
                BY <1>0, <2>2
            <4>2. commitLSN[b] \in Nat
                BY DEF TypeOK, LSNs
            <4>. QED  BY <1>0, <2>2, <3>1, <4>1, <4>2
        <3>2. ASSUME NEW j \in DOMAIN queue, queue'[i] = queue[j]
              PROVE  state'[queue'[i]] = "WAITING" /\ released < waitLSN'[queue'[i]]
            <4>1. queue[j] # b /\ queue[j] \in Backends
                BY <1>0, <2>1
            <4>2. state[queue[j]] = "WAITING" /\ released < waitLSN[queue[j]]
                BY <2>2, <2>3 DEF QueueInv
            <4>. QED  BY <1>0, <2>2, <3>2, <4>1, <4>2
        <3>. QED  BY <2>1, <3>1, <3>2
    <2>5. ASSUME NEW c \in Backends, state'[c] = "WAITING"
          PROVE  \E i \in DOMAIN queue' : queue'[i] = c
        <3>1. CASE c = b
            BY <2>1, <3>1
        <3>2. CASE c # b
            <4>1. PICK j \in DOMAIN queue : queue[j] = c
                BY <1>0, <2>2, <2>5, <3>2 DEF QueueInv
            <4>. QED  BY <2>1, <4>1
        <3>. QED  BY <3>1, <3>2
    <2>. QED  BY <2>1, <2>2, <2>3, <2>4, <2>5 DEF QueueInv
<1>13. ASSUME NEW b \in Backends, SyncRepCancelWait(b) PROVE QueueInv'
    <2>1. /\ lock = Nobody /\ queue' = LeaveQueue(b)
          /\ state' = [state EXCEPT ![b] = "NOT_WAITING"]
          /\ waitLSN' = [waitLSN EXCEPT ![b] = 0]
          /\ UNCHANGED <<defined, released, lock, waking>>
        BY <1>13 DEF SyncRepCancelWait
    <2>2. waking.at = "next"
        BY <1>4, <2>1
    <2>3. /\ \A i \in DOMAIN queue' : queue'[i] # b
          /\ \A i \in DOMAIN queue : queue[i] # b => \E j \in DOMAIN queue' : queue'[j] = queue[i]
          /\ \A i \in DOMAIN queue' : \E k \in DOMAIN queue : queue'[i] = queue[k]
        BY <1>0, <2>1, RemovedIs DEF LeaveQueue
    <2>4. \A i \in DOMAIN queue' : /\ queue'[i] \in Backends
                                   /\ waitLSN'[queue'[i]] = waitLSN[queue'[i]]
                                   /\ state'[queue'[i]] = state[queue'[i]]
        BY <1>0, <2>1, <2>3
    <2>5. Sorted(queue')
        BY <2>1, LeavesInOrder DEF QueueInv
    <2>6. Sorted(queue)'
        BY <2>4, <2>5 DEF Sorted
    <2>7. ASSUME NEW i \in DOMAIN queue'
          PROVE  state'[queue'[i]] = "WAITING" /\ released < waitLSN'[queue'[i]]
        <3>1. PICK k \in DOMAIN queue : queue'[i] = queue[k]
            BY <2>3
        <3>. QED  BY <2>1, <2>2, <2>4, <3>1 DEF QueueInv
    <2>8. ASSUME NEW c \in Backends, state'[c] = "WAITING"
          PROVE  \E i \in DOMAIN queue' : queue'[i] = c
        <3>1. c # b /\ state[c] = "WAITING"
            BY <1>0, <2>1, <2>8
        <3>2. PICK i \in DOMAIN queue : queue[i] = c
            BY <3>1 DEF QueueInv
        <3>. QED  BY <2>3, <3>1, <3>2
    <2>9. queue' # <<>> => defined'
        <3>1. queue' # <<>> => queue # <<>>
            BY <1>0, <2>1 DEF LeaveQueue, RemoveFirst
        <3>. QED  BY <2>1, <3>1 DEF QueueInv
    <2>. QED  BY <2>1, <2>2, <2>6, <2>7, <2>8, <2>9 DEF QueueInv
<1>14. ASSUME NEW b \in Backends, WaitDone(b) PROVE QueueInv'
    <2>1. /\ pc[b] = "cleanup" /\ state[b] = "WAIT_COMPLETE"
          /\ state' = [state EXCEPT ![b] = "NOT_WAITING"]
          /\ waitLSN' = [waitLSN EXCEPT ![b] = 0]
          /\ UNCHANGED <<queue, defined, released, lock, waking>>
        BY <1>14 DEF WaitDone, LsnInv
    <2>2. ASSUME NEW i \in DOMAIN queue, queue[i] = b
          PROVE  i = 1 /\ waking.at = "delete" /\ lock # Nobody
        BY <1>4, <2>1, <2>2 DEF QueueInv
    <2>3. ASSUME NEW i \in DOMAIN queue, NEW j \in DOMAIN queue, i < j
          PROVE  waitLSN'[queue[i]] < waitLSN'[queue[j]]
        <3>1. waitLSN[queue[i]] < waitLSN[queue[j]]
            BY <2>3 DEF QueueInv, Sorted
        <3>2. queue[i] \in Backends /\ queue[j] \in Backends /\ j # 1
            BY <1>0, <2>3
        <3>3. queue[j] # b
            BY <2>2, <3>2
        <3>4. waitLSN'[queue[j]] = waitLSN[queue[j]]
            BY <1>0, <2>1, <3>2, <3>3
        <3>5. waitLSN'[queue[i]] = 0 \/ waitLSN'[queue[i]] = waitLSN[queue[i]]
            BY <1>0, <2>1, <3>2
        <3>6. waitLSN[queue[i]] \in Nat /\ waitLSN[queue[j]] \in Nat
            BY <1>0, <3>2
        <3>. QED  BY <3>1, <3>4, <3>5, <3>6
    <2>4. Sorted(queue)'
        BY <2>1, <2>3 DEF Sorted
    <2>5. ASSUME NEW i \in DOMAIN queue, queue[i] # b
          PROVE  state'[queue[i]] = state[queue[i]] /\ waitLSN'[queue[i]] = waitLSN[queue[i]]
        <3>1. queue[i] \in Backends
            BY <1>0
        <3>. QED  BY <1>0, <2>1, <2>5, <3>1
    <2>6. \A i \in DOMAIN queue :
              state'[queue[i]] = "WAITING" \/ (waking.at = "delete" /\ i = 1)
        BY <2>2, <2>5 DEF QueueInv
    <2>7. \A c \in Backends : state'[c] = "WAITING" => state[c] = "WAITING"
        BY <1>0, <2>1
    <2>8. waking.at = "delete" => state'[queue[1]] # "WAITING"
        <3>1. CASE waking.at = "delete"
            <4>1. queue # <<>> /\ state[queue[1]] # "WAITING"
                BY <3>1 DEF QueueInv
            <4>2. queue[1] \in Backends
                BY <1>0, <4>1
            <4>. QED  BY <2>7, <4>1, <4>2
        <3>. QED  BY <3>1
    <2>9. lock = Nobody => \A i \in DOMAIN queue : released < waitLSN'[queue[i]]
        BY <2>2, <2>5 DEF QueueInv
    <2>. QED  BY <2>1, <2>4, <2>6, <2>7, <2>8, <2>9 DEF QueueInv
<1>15. ASSUME NEW b \in Backends, Terminate(b) PROVE QueueInv'
    <2>1. /\ pc[b] = "idle" /\ queue' = LeaveQueue(b)
          /\ (\E i \in DOMAIN queue : queue[i] = b) => lock = Nobody
          /\ UNCHANGED <<state, waitLSN, defined, released, lock, waking>>
        BY <1>15 DEF Terminate, ToSet
    <2>2. state[b] = "NOT_WAITING"
        BY <2>1 DEF LsnInv
    <2>3. ~ \E i \in DOMAIN queue : queue[i] = b
        BY <1>4, <2>1, <2>2 DEF QueueInv
    <2>4. queue' = queue
        BY <1>0, <2>1, <2>3 DEF LeaveQueue, RemoveFirst
    <2>. QED  BY <1>1, <2>1, <2>4
<1>16. ASSUME NEW b \in Backends, LoopStep(b) PROVE QueueInv'
    BY <1>1, <1>16, LoopStepIs
<1>17. ASSUME NEW b \in Backends, HandlerStep(b) PROVE QueueInv'
    BY <1>1, <1>17, HandlerStepIs
<1>18. CASE UNCHANGED vars
    BY <1>1, <1>18 DEF vars
<1>. QED
    BY <1>2, <1>3, <1>5, <1>6, <1>7, <1>8, <1>9, <1>10, <1>11, <1>12, <1>13, <1>14,
       <1>15, <1>16, <1>17, <1>18, NextSplits

LEMMA WaitInvInit == Init => LsnInv /\ WakerInv /\ QueueInv
<1>. SUFFICES ASSUME Init PROVE LsnInv /\ WakerInv /\ QueueInv
    OBVIOUS
<1>1. BgWriter # Nobody
    BY NobodyIs DEF Wakers
<1>2. LsnInv
    BY DEF Init, LsnInv
<1>3. WakerInv
    BY <1>1, NobodyIs DEF Init, WakerInv, NotWaking, Wakers
<1>4. QueueInv
    BY DEF Init, QueueInv, Sorted, NotWaking
<1>. QED  BY <1>2, <1>3, <1>4

LEMMA WaitInvariant == Spec => [](TypeOK /\ LsnInv /\ WakerInv /\ QueueInv)
<1>1. Init => TypeOK /\ LsnInv /\ WakerInv /\ QueueInv
    BY TypeInit, WaitInvInit
<1>2. TypeOK /\ LsnInv /\ WakerInv /\ QueueInv /\ [Next]_vars
        => TypeOK' /\ LsnInv' /\ WakerInv' /\ QueueInv'
    BY TypeStep, LsnStep, WakerStep, QueueStep
<1>. QED  BY <1>1, <1>2, PTL DEF Spec

\* Whenever SyncRepLock is free, the queue holds exactly the backends that wait,
\* in the order of their commit records, none of them behind the position
\* released, and none if no standby is named (syncrep.c, SyncRepQueueInsert,
\* SyncRepWakeQueue, SyncRepUpdateSyncStandbysDefined).
THEOREM WaitersQueuedHolds == Spec => []WaitersQueued
<1>1. TypeOK /\ LsnInv /\ WakerInv /\ QueueInv => WaitersQueued
    <2>. SUFFICES ASSUME TypeOK, WakerInv, QueueInv, lock = Nobody
                  PROVE  /\ ToSet(queue) = {b \in Backends : state[b] = "WAITING"}
                         /\ Sorted(queue)
                         /\ \A b \in ToSet(queue) : defined /\ released < waitLSN[b]
        BY DEF WaitersQueued, Sorted
    <2>1. waking.at = "next"
        BY DEF WakerInv, NotWaking
    <2>2. \A i \in DOMAIN queue : state[queue[i]] = "WAITING" /\ queue[i] \in Backends
        BY <2>1 DEF QueueInv, TypeOK
    <2>3. \A b \in Backends : state[b] = "WAITING" => b \in ToSet(queue)
        BY DEF QueueInv, ToSet
    <2>4. ASSUME NEW b \in ToSet(queue) PROVE defined /\ released < waitLSN[b]
        <3>1. PICK i \in DOMAIN queue : queue[i] = b
            BY DEF ToSet
        <3>2. queue # <<>>
            BY <3>1
        <3>. QED  BY <3>1, <3>2 DEF QueueInv
    <2>. QED  BY <2>2, <2>3, <2>4 DEF QueueInv, ToSet
<1>. QED  BY <1>1, WaitInvariant, PTL

-----------------------------------------------------------------------------
(***************************************************************************)
(* The latch                                                               *)
(***************************************************************************)

LEMMA LatchInit == Init => LatchInv
BY DEF Init, LatchInv, SleepSteps

\* It is an account of each backend by itself.
Latched(b) ==
    /\ pc[b] \in SleepSteps => (queryCancel[b] \/ procDie[b] => isSet[b])
    /\ pc[b] \in SleepSteps \union {"interrupts"} =>
        (state[b] = "WAIT_COMPLETE" /\ ~(waking.proc = b /\ waking.at = "delete")
            => isSet[b])
    /\ pc[b] = "select" /\ isSet[b]
        => \/ pipe[b] \/ sigusr1[b]
           \/ waking.proc = b /\ waking.at = "signal"

LEMMA LatchStep ==
    ASSUME TypeOK, LsnInv, WakerInv, QueueInv, LatchInv, [Next]_vars
    PROVE  LatchInv'
<1>. SUFFICES ASSUME NEW b \in Backends PROVE Latched(b)'
    BY DEF LatchInv, Latched
<1>. USE DEF confVars, slotVars, queueVars, latchVars, backendVars
<1>0. /\ Latched(b)
      /\ state \in [Backends -> {"NOT_WAITING", "WAITING", "WAIT_COMPLETE"}]
      /\ pc \in [Backends -> {"idle", "commit", "cleanup"} \union WaitSteps]
      /\ waking \in [by : Wakers \union {Nobody}, all : BOOLEAN,
                     proc : Backends \union {Nobody},
                     at : {"next", "delete", "signal"}]
      /\ queryCancel \in [Backends -> BOOLEAN] /\ procDie \in [Backends -> BOOLEAN]
      /\ isSet \in [Backends -> BOOLEAN]
      /\ pipe \in [Backends -> BOOLEAN] /\ sigusr1 \in [Backends -> BOOLEAN]
      /\ Nobody # b
    BY NobodyIs DEF TypeOK, LatchInv, Latched
<1>1. ASSUME UNCHANGED <<pc[b], queryCancel[b], procDie[b], isSet[b], pipe[b], sigusr1[b],
                         state[b]>>,
             \/ UNCHANGED waking
             \/ waking.proc = Nobody /\ waking'.proc = Nobody
      PROVE  Latched(b)'
    BY <1>0, <1>1 DEF Latched
<1>2. CASE ConfigStep
    BY <1>1, <1>2 DEF ConfigStep, ChangeConfig, BgWriterReload, BackendReload
<1>3. CASE SlotStep
    BY <1>1, <1>3 DEF SlotStep, SyncRepInitConfig, CaughtUp, WalSndKill,
        ProcessStandbyReplyMessage, InitWalSnd
<1>4. CASE SyncRepUpdateSyncStandbysDefined \/ \E w \in Slots : SyncRepReleaseWaiters(w)
    <2>1. lock = Nobody /\ waking = NotWaking
        BY <1>4 DEF SyncRepUpdateSyncStandbysDefined, SyncRepReleaseWaiters, WakerInv
    <2>2. waking'.proc = Nobody /\ waking.proc = Nobody
        <3>1. \/ waking' = waking
              \/ \E p \in Wakers, all \in BOOLEAN :
                    waking' = [by |-> p, all |-> all, proc |-> Nobody, at |-> "next"]
            BY <1>4 DEF SyncRepUpdateSyncStandbysDefined, SyncRepReleaseWaiters, NotWaking,
                Wakers
        <3>. QED  BY <2>1, <3>1 DEF NotWaking
    <2>. QED  BY <1>1, <1>4, <2>2
         DEF SyncRepUpdateSyncStandbysDefined, SyncRepReleaseWaiters
<1>5. CASE WakeComplete
    <2>1. queue[1] \in Backends /\ waking.at = "next"
        BY <1>5 DEF WakeComplete, MoreToWake, TypeOK
    <2>2. /\ state' = [state EXCEPT ![queue[1]] = "WAIT_COMPLETE"]
          /\ waking' = [waking EXCEPT !.proc = queue[1], !.at = "delete"]
          /\ UNCHANGED <<pc, queryCancel, procDie, isSet, pipe, sigusr1>>
        BY <1>5 DEF WakeComplete
    <2>3. waking'.proc = queue[1] /\ waking'.at = "delete"
        BY <1>0, <2>2
    <2>4. queue[1] # b => state'[b] = state[b] /\ waking'.proc # b
        BY <1>0, <2>1, <2>2, <2>3
    <2>. QED  BY <1>0, <2>1, <2>2, <2>3, <2>4 DEF Latched
<1>6. CASE WakeSetLatch
    <2>. DEFINE p == waking.proc
    <2>1. /\ waking.at = "delete" /\ isSet' = [isSet EXCEPT ![p] = TRUE]
          /\ waking' = IF isSet[p] THEN [waking EXCEPT !.proc = Nobody, !.at = "next"]
                       ELSE [waking EXCEPT !.at = "signal"]
          /\ UNCHANGED <<pc, queryCancel, procDie, state, pipe, sigusr1>>
        BY <1>6 DEF WakeSetLatch
    <2>2. waking'.at # "delete"
        BY <1>0, <2>1
    <2>3. CASE p = b
        <3>1. isSet'[b] = TRUE
            BY <1>0, <2>1, <2>3
        <3>2. isSet[b] \/ (waking'.proc = b /\ waking'.at = "signal")
            BY <1>0, <2>1, <2>3
        <3>3. pc[b] = "select" /\ isSet[b] => pipe[b] \/ sigusr1[b]
            BY <1>0, <2>1 DEF Latched
        <3>. QED  BY <2>1, <3>1, <3>2, <3>3 DEF Latched
    <2>4. CASE p # b
        <3>1. isSet'[b] = isSet[b] /\ waking'.proc # b
            BY <1>0, <2>1, <2>4
        <3>. QED  BY <1>0, <2>1, <2>4, <3>1 DEF Latched
    <2>. QED  BY <2>3, <2>4
<1>7. CASE WakeSignal
    <2>. DEFINE p == waking.proc
    <2>1. /\ waking.at = "signal" /\ sigusr1' = [sigusr1 EXCEPT ![p] = TRUE]
          /\ waking' = [waking EXCEPT !.proc = Nobody, !.at = "next"]
          /\ UNCHANGED <<pc, queryCancel, procDie, state, pipe, isSet>>
        BY <1>7 DEF WakeSignal
    <2>2. waking'.proc = Nobody /\ waking'.at = "next"
        BY <1>0, <2>1
    <2>3. CASE p = b
        <3>1. sigusr1'[b] = TRUE
            BY <1>0, <2>1, <2>3
        <3>. QED  BY <1>0, <2>1, <2>2, <2>3, <3>1 DEF Latched
    <2>4. CASE p # b
        <3>1. sigusr1'[b] = sigusr1[b]
            BY <1>0, <2>1, <2>4
        <3>. QED  BY <1>0, <2>1, <2>2, <2>4, <3>1 DEF Latched
    <2>. QED  BY <2>3, <2>4
<1>8. CASE WakeEnd
    <2>1. waking.at = "next" /\ waking' = NotWaking
        BY <1>8 DEF WakeEnd
    <2>2. waking.proc = Nobody /\ waking'.proc = Nobody
        BY <2>1 DEF WakerInv, NotWaking
    <2>. QED  BY <1>1, <1>8, <2>2 DEF WakeEnd
<1>9. ASSUME NEW c \in Backends, c # b,
             \/ Commit(c) \/ FastExit(c) \/ NoWaitNeeded(c) \/ Enqueue(c)
             \/ LoopStep(c) \/ HandlerStep(c)
             \/ SyncRepCancelWait(c) \/ WaitDone(c) \/ Terminate(c)
      PROVE  Latched(b)'
    <2>1. waking' = waking
        BY <1>9 DEF Commit, FastExit, NoWaitNeeded, Enqueue, LoopStep, ResetLatch, TestState,
            TestInterrupts, DrainSelfPipe, CheckLatch, SelectReady, SelectTimeout, Goto,
            HandlerStep, Sigusr1Handler, StatementCancelHandler, Die,
            SyncRepCancelWait, WaitDone, Terminate
    <2>2. CASE \/ Commit(c) \/ FastExit(c) \/ NoWaitNeeded(c) \/ Enqueue(c)
               \/ SyncRepCancelWait(c) \/ WaitDone(c) \/ Terminate(c)
        <3>1. UNCHANGED <<pc[b], queryCancel[b], procDie[b], isSet[b], pipe[b], sigusr1[b],
                          state[b]>>
            BY <1>0, <1>9, <2>2 DEF Commit, FastExit, NoWaitNeeded, Enqueue,
                SyncRepCancelWait, WaitDone, Terminate, Return
        <3>. QED  BY <1>1, <2>1, <3>1
    <2>3. CASE LoopStep(c)
        <3>1. UNCHANGED <<pc[b], queryCancel[b], procDie[b], isSet[b], pipe[b], sigusr1[b],
                          state[b]>>
            BY <1>0, <1>9, <2>3 DEF LoopStep, ResetLatch, TestState,
                TestInterrupts, DrainSelfPipe, CheckLatch, SelectReady, SelectTimeout, Goto
        <3>. QED  BY <1>1, <2>1, <3>1
    <2>4. CASE HandlerStep(c)
        <3>1. UNCHANGED <<pc[b], queryCancel[b], procDie[b], isSet[b], pipe[b], sigusr1[b],
                          state[b]>>
            BY <1>0, <1>9, <2>4 DEF HandlerStep, Sigusr1Handler, StatementCancelHandler, Die,
                SetOwnLatch, AfterHandler
        <3>. QED  BY <1>1, <2>1, <3>1
    <2>. QED  BY <1>9, <2>2, <2>3, <2>4
<1>10. CASE Commit(b) \/ FastExit(b) \/ NoWaitNeeded(b)
    <2>1. pc'[b] \in {"idle", "commit"}
        BY <1>0, <1>10 DEF Commit, FastExit, NoWaitNeeded, Return
    <2>. QED  BY <2>1 DEF Latched, SleepSteps
<1>11. CASE Enqueue(b)
    <2>1. pc'[b] = "reset"
        BY <1>0, <1>11 DEF Enqueue
    <2>. QED  BY <2>1 DEF Latched, SleepSteps
<1>12. CASE SyncRepCancelWait(b) \/ WaitDone(b)
    <2>1. pc'[b] = "idle"
        BY <1>0, <1>12 DEF SyncRepCancelWait, WaitDone, Return
    <2>. QED  BY <2>1 DEF Latched, SleepSteps
<1>13. CASE Terminate(b)
    <2>1. pc'[b] = "idle"
        BY <1>13 DEF Terminate
    <2>. QED  BY <2>1 DEF Latched, SleepSteps
<1>14. CASE ResetLatch(b)
    <2>1. pc'[b] = "test"
        BY <1>0, <1>14 DEF ResetLatch, Goto
    <2>. QED  BY <2>1 DEF Latched, SleepSteps
<1>15. CASE TestState(b)
    <2>1. CASE state[b] = "WAIT_COMPLETE" /\ Goto(b, "test", "cleanup")
        <3>1. pc'[b] = "cleanup"
            BY <1>0, <2>1 DEF Goto
        <3>. QED  BY <3>1 DEF Latched, SleepSteps
    <2>2. CASE state[b] # "WAIT_COMPLETE" /\ Goto(b, "test", "interrupts")
        <3>1. pc'[b] = "interrupts" /\ state'[b] # "WAIT_COMPLETE"
            BY <1>0, <2>2 DEF Goto
        <3>. QED  BY <3>1 DEF Latched, SleepSteps
    <2>. QED  BY <1>15, <2>1, <2>2 DEF TestState
<1>16. CASE TestInterrupts(b)
    <2>1. /\ pc[b] = "interrupts" /\ UNCHANGED <<procDie, isSet, state, waking>>
          /\ pc'[b] \in {"die", "cancel", "drain"}
          /\ pc'[b] = "drain" => ~procDie[b] /\ ~queryCancel[b]
        BY <1>0, <1>16 DEF TestInterrupts, Goto
    <2>2. ~queryCancel[b] => ~queryCancel'[b]
        BY <1>0, <1>16 DEF TestInterrupts
    <2>. QED  BY <1>0, <2>1, <2>2 DEF Latched, SleepSteps
<1>17. CASE DrainSelfPipe(b)
    <2>1. /\ pc[b] = "drain" /\ pc'[b] = "check"
          /\ UNCHANGED <<procDie, isSet, state, waking, queryCancel>>
        BY <1>0, <1>17 DEF DrainSelfPipe, Goto
    <2>. QED  BY <1>0, <2>1 DEF Latched, SleepSteps
<1>18. CASE CheckLatch(b)
    <2>1. /\ pc[b] = "check" /\ pc'[b] = (IF isSet[b] THEN "reset" ELSE "select")
          /\ UNCHANGED <<procDie, isSet, state, waking, queryCancel>>
        BY <1>0, <1>18 DEF CheckLatch, Goto
    <2>. QED  BY <1>0, <2>1 DEF Latched, SleepSteps
<1>19. CASE SelectReady(b) \/ SelectTimeout(b)
    <2>1. /\ pc[b] = "select" /\ pc'[b] \in {"drain", "reset"}
          /\ UNCHANGED <<procDie, isSet, state, waking, queryCancel>>
        BY <1>0, <1>19 DEF SelectReady, SelectTimeout, Goto
    <2>. QED  BY <1>0, <2>1 DEF Latched, SleepSteps
<1>20. CASE Sigusr1Handler(b)
    <2>1. /\ UNCHANGED <<procDie, isSet, state, waking, queryCancel>>
          /\ pc'[b] = pc[b] \/ (pc[b] = "select" /\ pc'[b] = "drain")
          /\ pc[b] = "select" => pipe'[b]
        BY <1>0, <1>20 DEF Sigusr1Handler, AfterHandler, waiting
    <2>. QED  BY <1>0, <2>1 DEF Latched, SleepSteps
<1>21. CASE StatementCancelHandler(b) \/ Die(b)
    <2>1. /\ SetOwnLatch(b) /\ UNCHANGED <<state, waking>>
        BY <1>21 DEF StatementCancelHandler, Die
    <2>2. /\ isSet'[b] = TRUE /\ sigusr1' = sigusr1
          /\ pc'[b] = pc[b] \/ (pc[b] = "select" /\ pc'[b] = "drain")
        BY <1>0, <2>1 DEF SetOwnLatch, AfterHandler
    <2>3. pipe[b] => pipe'[b]
        BY <1>0, <2>1 DEF SetOwnLatch
    <2>4. pc[b] = "select" /\ ~isSet[b] => pipe'[b]
        BY <1>0, <2>1 DEF SetOwnLatch, waiting
    <2>. QED  BY <1>0, <2>1, <2>2, <2>3, <2>4 DEF Latched
<1>22. CASE UNCHANGED vars
    BY <1>1, <1>22 DEF vars
<1>. QED
    BY <1>2, <1>3, <1>4, <1>5, <1>6, <1>7, <1>8, <1>9, <1>10, <1>11, <1>12, <1>13,
       <1>14, <1>15, <1>16, <1>17, <1>18, <1>19, <1>20, <1>21, <1>22, NextSplits
    DEF LoopStep, HandlerStep

\* No wakeup is lost in the latch: a backend on its way to sleep that has been
\* released, cancelled or terminated has its latch set, and asleep with the latch
\* set it has a byte or a signal coming (unix_latch.c, syncrep.c).
THEOREM NoLostWakeupHolds == Spec => []NoLostWakeup
<1>1. Init => LatchInv
    BY LatchInit
<1>2. TypeOK /\ LsnInv /\ WakerInv /\ QueueInv /\ LatchInv /\ [Next]_vars => LatchInv'
    BY LatchStep
<1>3. LatchInv => NoLostWakeup
    BY DEF LatchInv, NoLostWakeup
<1>. QED  BY <1>1, <1>2, <1>3, WaitInvariant, PTL DEF Spec

-----------------------------------------------------------------------------
(***************************************************************************)
(* What is acknowledged                                                    *)
(***************************************************************************)

LEMMA AckInit == Init => AckInv
BY DEF Init, AckInv, NotWaking

SlotAcks(w) ==
    /\ todo[w] \in {"loop", "release", "wake"} /\ priority[w] > 0 => Named(served[w])
    /\ todo[w] = "release" => priority[w] > 0 /\ flush[w] <= disk[served[w]]

BackendAcks(b) == state[b] = "WAIT_COMPLETE" => b \in excused \/ commitLSN[b] <= released

ReleasedAcks == released > 0 => \E s \in Standbys : Named(s) /\ released <= disk[s]

LEMMA AckParts ==
    AckInv <=> /\ \A w \in Slots : SlotAcks(w)
               /\ ReleasedAcks
               /\ \A b \in Backends : BackendAcks(b)
BY DEF AckInv, SlotAcks, ReleasedAcks, BackendAcks

LEMMA AckPartsPrimed ==
    ASSUME \A w \in Slots : SlotAcks(w)', ReleasedAcks', \A b \in Backends : BackendAcks(b)'
    PROVE  AckInv'
BY DEF AckInv, SlotAcks, ReleasedAcks, BackendAcks

LEMMA AckStep ==
    ASSUME TypeOK, TypeOK', LsnInv, WakerInv, QueueInv, AckInv, [Next]_vars
    PROVE  AckInv'
<1>. USE DEF confVars, slotVars, queueVars, latchVars, backendVars
<1>0. /\ SlotTypes /\ ConfTypes /\ released \in Nat /\ insertLSN \in Nat
      /\ commitLSN \in [Backends -> Nat] /\ excused \subseteq Backends
      /\ state \in [Backends -> {"NOT_WAITING", "WAITING", "WAIT_COMPLETE"}]
      /\ disk \in [Standbys -> Nat] /\ flush \in [Slots -> Nat]
      /\ \A w \in Slots : SlotAcks(w) /\ (todo[w] # "none" => served[w] \in Standbys)
      /\ ReleasedAcks
      /\ \A b \in Backends : BackendAcks(b)
    <2>1. /\ SlotTypes /\ ConfTypes /\ released \in Nat /\ insertLSN \in Nat
          /\ commitLSN \in [Backends -> Nat] /\ excused \subseteq Backends
          /\ state \in [Backends -> {"NOT_WAITING", "WAITING", "WAIT_COMPLETE"}]
          /\ disk \in [Standbys -> Nat] /\ flush \in [Slots -> Nat]
        BY TypeParts, SMTT(30) DEF TypeOK, LSNs
    <2>2. \A w \in Slots : todo[w] # "none" => served[w] \in Standbys
        BY <2>1 DEF SlotTypes, WakerInv
    <2>. QED  BY <2>1, <2>2, AckParts
<1>1. ASSUME UNCHANGED <<confs, slotVars, disk>>
      PROVE  \A w \in Slots : SlotAcks(w)'
    BY <1>0, <1>1 DEF SlotAcks, Named
<1>2. ASSUME UNCHANGED <<confs, disk, released>> PROVE ReleasedAcks'
    BY <1>0, <1>2 DEF ReleasedAcks, Named
<1>3. ASSUME UNCHANGED <<state, excused, commitLSN, released>>
      PROVE  \A b \in Backends : BackendAcks(b)'
    BY <1>0, <1>3 DEF BackendAcks
<1>4. CASE ConfigStep
    <2>1. /\ confs \subseteq confs'
          /\ UNCHANGED <<slotVars, disk, released, state, excused, commitLSN>>
        BY <1>0, <1>4 DEF ConfigStep, ChangeConfig, BgWriterReload, BackendReload
    <2>2. \A s : Named(s) => Named(s)'
        BY <2>1 DEF Named
    <2>3. \A w \in Slots : SlotAcks(w)'
        BY <1>0, <2>1, <2>2 DEF SlotAcks
    <2>4. ReleasedAcks'
        BY <1>0, <2>1, <2>2 DEF ReleasedAcks
    <2>. QED  BY <1>3, <2>1, <2>3, <2>4, AckPartsPrimed
<1>5. ASSUME NEW w \in Slots, SyncRepInitConfig(w) PROVE AckInv'
    <2>. DEFINE new == SyncRepGetStandbyPriority(conf, served[w])
    <2>1. /\ priority' = [priority EXCEPT ![w] = new] /\ todo' = [todo EXCEPT ![w] = "loop"]
          /\ UNCHANGED <<confs, served, flush, disk, released, state, excused, commitLSN>>
        BY <1>5 DEF SyncRepInitConfig
    <2>2. new > 0 => Named(served[w])'
        BY <1>0, <2>1 DEF Named, ConfTypes
    <2>3. SlotAcks(w)'
        BY <1>0, <2>1, <2>2 DEF SlotAcks, SlotTypes
    <2>4. ASSUME NEW v \in Slots, v # w PROVE SlotAcks(v)'
        BY <1>0, <2>1, <2>4 DEF SlotAcks, SlotTypes, Named
    <2>. QED  BY <1>2, <1>3, <2>1, <2>3, <2>4, AckPartsPrimed
<1>6. ASSUME NEW w \in Slots, CaughtUp(w) \/ WalSndKill(w) PROVE AckInv'
    <2>1. UNCHANGED <<confs, priority, flush, disk, released, state, excused, commitLSN>>
        BY <1>6 DEF CaughtUp, WalSndKill
    <2>2. ASSUME NEW v \in Slots
          PROVE  \/ UNCHANGED <<todo[v], served[v]>>
                 \/ todo'[v] = "none"
        BY <1>0, <1>6 DEF CaughtUp, WalSndKill, SlotTypes
    <2>3. ASSUME NEW v \in Slots PROVE SlotAcks(v)'
        BY <1>0, <2>1, <2>2 DEF SlotAcks, Named
    <2>. QED  BY <1>2, <1>3, <2>1, <2>3, AckPartsPrimed
<1>7. ASSUME NEW w \in Slots, ProcessStandbyReplyMessage(w) PROVE AckInv'
    <2>1. PICK lsn \in disk[served[w]] .. insertLSN :
            /\ disk' = [disk EXCEPT ![served[w]] = lsn]
            /\ flush' = [flush EXCEPT ![w] = lsn]
        BY <1>7 DEF ProcessStandbyReplyMessage
    <2>2. /\ todo[w] = "loop" /\ served[w] \in Standbys
          /\ todo' = [todo EXCEPT ![w] =
                IF priority[w] = 0 \/ sndState[w] # "STREAMING" THEN @ ELSE "release"]
          /\ UNCHANGED <<confs, served, priority, released, state, excused, commitLSN>>
        BY <1>0, <1>7 DEF ProcessStandbyReplyMessage
    <2>3. lsn \in Nat /\ disk[served[w]] <= lsn
        BY <1>0, <2>1, <2>2
    <2>4. \A s \in Standbys : disk'[s] \in Nat /\ disk[s] \in Nat /\ disk[s] <= disk'[s]
        BY <1>0, <2>1, <2>3
    <2>5. ReleasedAcks'
        <3>1. ASSUME NEW s \in Standbys, released <= disk[s] PROVE released <= disk'[s]
            BY <1>0, <2>4, <3>1
        <3>. QED  BY <1>0, <2>2, <3>1 DEF ReleasedAcks, Named
    <2>6. SlotAcks(w)'
        <3>1. flush'[w] = lsn /\ disk'[served[w]] = lsn
            BY <1>0, <2>1, <2>2
        <3>2. todo'[w] \in {"loop", "release"} /\ (todo'[w] = "release" => priority[w] # 0)
            BY <1>0, <2>2 DEF SlotTypes
        <3>3. priority[w] \in Nat
            BY <1>0 DEF SlotTypes
        <3>4. priority[w] > 0 => Named(served[w])
            BY <1>0, <2>2 DEF SlotAcks
        <3>5. Named(served[w])' <=> Named(served[w])
            BY <2>2 DEF Named
        <3>. QED  BY <2>2, <2>3, <3>1, <3>2, <3>3, <3>4, <3>5 DEF SlotAcks
    <2>7. ASSUME NEW v \in Slots, v # w PROVE SlotAcks(v)'
        <3>1. todo'[v] = todo[v] /\ flush'[v] = flush[v]
            BY <1>0, <2>1, <2>2, <2>7 DEF SlotTypes
        <3>2. todo[v] = "release" => served[v] \in Standbys /\ flush[v] <= disk[served[v]]
            BY <1>0 DEF SlotAcks
        <3>3. todo[v] = "release" => flush[v] <= disk'[served[v]]
            BY <1>0, <2>4, <3>2
        <3>4. Named(served[v])' <=> Named(served[v])
            BY <2>2 DEF Named
        <3>. QED  BY <1>0, <2>2, <3>1, <3>3, <3>4 DEF SlotAcks
    <2>. QED  BY <1>3, <2>2, <2>5, <2>6, <2>7, AckPartsPrimed
<1>8. ASSUME NEW s \in Standbys, InitWalSnd(s) PROVE AckInv'
    <2>1. UNCHANGED <<confs, priority, flush, disk, released, state, excused, commitLSN>>
        BY <1>8 DEF InitWalSnd
    <2>2. ASSUME NEW v \in Slots
          PROVE  UNCHANGED <<todo[v], served[v]>> \/ todo'[v] = "init"
        BY <1>0, <1>8 DEF InitWalSnd, SlotTypes
    <2>3. ASSUME NEW v \in Slots PROVE SlotAcks(v)'
        BY <1>0, <2>1, <2>2 DEF SlotAcks, Named
    <2>. QED  BY <1>2, <1>3, <2>1, <2>3, AckPartsPrimed
<1>9. ASSUME NEW w \in Slots, SyncRepReleaseWaiters(w) PROVE AckInv'
    <2>1. /\ todo[w] = "release"
          /\ UNCHANGED <<confs, served, priority, flush, disk, state, excused, commitLSN>>
          /\ \/ released' = flush[w] /\ released < flush[w] /\ todo' = [todo EXCEPT ![w] = "wake"]
             \/ released' = released /\ todo' = [todo EXCEPT ![w] = "loop"]
        BY <1>9 DEF SyncRepReleaseWaiters
    <2>2. /\ Named(served[w]) /\ served[w] \in Standbys /\ flush[w] <= disk[served[w]]
        BY <1>0, <2>1 DEF SlotAcks
    <2>3. ReleasedAcks'
        BY <1>0, <2>1, <2>2 DEF ReleasedAcks, Named
    <2>4. ASSUME NEW v \in Slots PROVE SlotAcks(v)'
        <3>1. \/ todo'[v] = todo[v]
              \/ todo'[v] \in {"wake", "loop"} /\ todo[v] = "release"
            BY <1>0, <2>1 DEF SlotTypes
        <3>2. Named(served[v])' <=> Named(served[v])
            BY <2>1 DEF Named
        <3>. QED  BY <1>0, <2>1, <3>1, <3>2 DEF SlotAcks
    <2>5. ASSUME NEW b \in Backends PROVE BackendAcks(b)'
        <3>1. released <= released' /\ released' \in Nat
            BY <1>0, <2>1
        <3>2. commitLSN[b] \in Nat
            BY <1>0
        <3>. QED  BY <1>0, <2>1, <3>1, <3>2 DEF BackendAcks
    <2>. QED  BY <2>3, <2>4, <2>5, AckPartsPrimed
<1>10. CASE WakeComplete
    <2>1. PICK p \in Backends : p = queue[1] /\ p = Head(queue) /\ state[p] = "WAITING"
        BY <1>10 DEF WakeComplete, MoreToWake, TypeOK, QueueInv
    <2>2. /\ state' = [state EXCEPT ![p] = "WAIT_COMPLETE"]
          /\ excused' = IF waking.all THEN excused \union {p} ELSE excused
          /\ waking.all \/ waitLSN[p] =< released
          /\ UNCHANGED <<confs, slotVars, disk, released, commitLSN>>
        BY <1>10, <2>1 DEF WakeComplete, MoreToWake
    <2>3. waitLSN[p] = commitLSN[p]
        BY <2>1 DEF LsnInv
    <2>4. BackendAcks(p)'
        BY <1>0, <2>2, <2>3 DEF BackendAcks
    <2>5. ASSUME NEW b \in Backends, b # p PROVE BackendAcks(b)'
        BY <1>0, <2>2, <2>5 DEF BackendAcks
    <2>. QED  BY <1>1, <1>2, <2>2, <2>4, <2>5, AckPartsPrimed
<1>11. CASE WakeSetLatch \/ WakeSignal \/ SyncRepUpdateSyncStandbysDefined
    <2>1. UNCHANGED <<confs, slotVars, disk, released, state, excused, commitLSN>>
        BY <1>11 DEF WakeSetLatch, WakeSignal, SyncRepUpdateSyncStandbysDefined
    <2>. QED  BY <1>1, <1>2, <1>3, <2>1, AckPartsPrimed
<1>12. CASE WakeEnd
    <2>1. UNCHANGED <<confs, served, priority, flush, disk, released, state, excused, commitLSN>>
        BY <1>12 DEF WakeEnd
    <2>2. ASSUME NEW v \in Slots PROVE SlotAcks(v)'
        <3>1. \/ todo'[v] = todo[v]
              \/ todo'[v] = "loop" /\ todo[v] = "wake"
            BY <1>0, <1>12 DEF WakeEnd, WakerInv, SlotTypes
        <3>2. Named(served[v])' <=> Named(served[v])
            BY <2>1 DEF Named
        <3>. QED  BY <1>0, <2>1, <3>1, <3>2 DEF SlotAcks
    <2>. QED  BY <1>2, <1>3, <2>1, <2>2, AckPartsPrimed
<1>13. ASSUME NEW b \in Backends,
              \/ Commit(b) \/ FastExit(b) \/ NoWaitNeeded(b) \/ Enqueue(b)
              \/ SyncRepCancelWait(b) \/ WaitDone(b)
       PROVE  AckInv'
    <2>1. UNCHANGED <<confs, slotVars, disk, released>>
        BY <1>13 DEF Commit, FastExit, NoWaitNeeded, Enqueue, SyncRepCancelWait, WaitDone
    <2>2. state'[b] # "WAIT_COMPLETE"
        <3>1. CASE Commit(b) \/ FastExit(b) \/ NoWaitNeeded(b)
            <4>1. state' = state /\ pc[b] \in {"idle", "commit"}
                BY <3>1 DEF Commit, FastExit, NoWaitNeeded
            <4>. QED  BY <4>1 DEF LsnInv
        <3>2. CASE Enqueue(b) \/ SyncRepCancelWait(b) \/ WaitDone(b)
            BY <1>0, <3>2 DEF Enqueue, SyncRepCancelWait, WaitDone
        <3>. QED  BY <1>13, <3>1, <3>2
    <2>3. ASSUME NEW c \in Backends, c # b PROVE BackendAcks(c)'
        <3>1. /\ state'[c] = state[c] /\ commitLSN'[c] = commitLSN[c]
              /\ c \in excused => c \in excused'
            BY <1>0, <1>13, <2>3 DEF Commit, FastExit, NoWaitNeeded, Enqueue,
                SyncRepCancelWait, WaitDone, Return
        <3>. QED  BY <1>0, <2>1, <3>1 DEF BackendAcks
    <2>4. BackendAcks(b)'
        BY <2>2 DEF BackendAcks
    <2>. QED  BY <1>1, <1>2, <2>1, <2>3, <2>4, AckPartsPrimed
<1>14. ASSUME NEW b \in Backends, Terminate(b) \/ LoopStep(b) \/ HandlerStep(b) PROVE AckInv'
    <2>1. UNCHANGED <<confs, slotVars, disk, released, state, excused, commitLSN>>
        BY <1>14, LoopStepIs, HandlerStepIs DEF Terminate
    <2>. QED  BY <1>1, <1>2, <1>3, <2>1, AckPartsPrimed
<1>15. CASE UNCHANGED vars
    BY <1>1, <1>2, <1>3, <1>15, AckPartsPrimed DEF vars
<1>. QED
    BY <1>4, <1>5, <1>6, <1>7, <1>8, <1>9, <1>10, <1>11, <1>12, <1>13, <1>14, <1>15,
       NextSplits DEF SlotStep

\* A commit acknowledged without a warning is on the disk of a standby that was
\* named at some time, unless its backend was let go because nobody is
\* (syncrep.c, SyncRepWaitForLSN and SyncRepReleaseWaiters).
THEOREM AckedIsReplicatedHolds == Spec => AckedIsReplicated
<1>. DEFINE Inv == TypeOK /\ LsnInv /\ AckInv
            Acked == \A b \in Backends :
                /\ WaitDone(b) => b \in excused \/ OnNamedStandby(commitLSN[b])
                /\ NoWaitNeeded(b) => ~defined \/ OnNamedStandby(commitLSN[b])
<1>1. Spec => []AckInv
    <2>1. Init => AckInv
        BY AckInit
    <2>2. TypeOK /\ LsnInv /\ WakerInv /\ QueueInv /\ TypeOK' /\ AckInv /\ [Next]_vars
            => AckInv'
        BY AckStep
    <2>. QED  BY <2>1, <2>2, WaitInvariant, PTL DEF Spec
<1>2. Inv => Acked
    <2>. SUFFICES ASSUME Inv, NEW b \in Backends
                  PROVE  /\ WaitDone(b) => b \in excused \/ OnNamedStandby(commitLSN[b])
                         /\ NoWaitNeeded(b) => ~defined \/ OnNamedStandby(commitLSN[b])
        OBVIOUS
    <2>1. /\ commitLSN[b] \in Nat /\ released \in Nat
          /\ \A s \in Standbys : disk[s] \in Nat
        BY DEF TypeOK, LSNs
    <2>2. commitLSN[b] > 0 /\ commitLSN[b] <= released => OnNamedStandby(commitLSN[b])
        <3>1. SUFFICES ASSUME commitLSN[b] > 0, commitLSN[b] <= released
                       PROVE  OnNamedStandby(commitLSN[b])
            OBVIOUS
        <3>2. PICK s \in Standbys : Named(s) /\ released <= disk[s]
            BY <2>1, <3>1 DEF AckInv
        <3>3. disk[s] >= commitLSN[b]
            BY <2>1, <3>1, <3>2
        <3>. QED  BY <3>2, <3>3 DEF OnNamedStandby, Named
    <2>3. WaitDone(b) => pc[b] = "cleanup" /\ state[b] = "WAIT_COMPLETE" /\ commitLSN[b] # 0
        BY DEF WaitDone, LsnInv
    <2>4. NoWaitNeeded(b) => /\ commitLSN[b] # 0
                             /\ ~defined \/ ~(commitLSN[b] > released)
        BY DEF NoWaitNeeded, NeedToWait, LsnInv
    <2>. QED  BY <2>1, <2>2, <2>3, <2>4 DEF AckInv
<1>3. Inv /\ [Next]_vars => [Acked]_vars
    BY <1>2
<1>. QED  BY <1>1, <1>3, WaitInvariant, PTL DEF Spec, AckedIsReplicated
=============================================================================
