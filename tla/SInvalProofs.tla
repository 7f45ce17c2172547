---------------------------- MODULE SInvalProofs ----------------------------
(***************************************************************************)
(* Proofs about SInval, for every number of backends, every size of the    *)
(* ring and every setting of its thresholds.                               *)
(*                                                                         *)
(* PlaceInv and LockInv tie what a backend has in hand to where it is.     *)
(* RingInv says what is in the ring, also while a writer is at work, and   *)
(* PositionInv that readers stay inside it.  On these rests DeliveryInv,   *)
(* that fetched and unread messages continue what the caches reflect; it   *)
(* gives the refinement of InvalBus.  CallInv adds how far each call of a  *)
(* recursion has come, and LXIDInv is about local transaction ids alone.   *)
(*                                                                         *)
(* The last part is about IdleInterrupts, where the signals of SInval      *)
(* arrive: ClientInv says what each frame of the stack wants of the flags. *)
(***************************************************************************)
EXTENDS SInval, IdleInterrupts,
        WellFoundedInduction, FiniteSetTheorems, SequenceTheorems, TLAPS

-----------------------------------------------------------------------------
(***************************************************************************)
(* Facts about numbers                                                     *)
(***************************************************************************)

\* The least element of a set of natural numbers.
LEMMA MinIsLeast ==
    ASSUME NEW T \in SUBSET Nat, T # {}
    PROVE  Min(T) \in T /\ \A y \in T : Min(T) <= y
<1>. DEFINE R == {ij \in Nat \X Nat : ij[1] < ij[2]}
<1>1. IsWellFoundedOn(R, Nat)
    BY NatLessThanWellFounded DEF OpToRel
<1>2. PICK x \in T : \A y \in T : <<y, x>> \notin R
    BY <1>1, WFMin
<1>3. ASSUME NEW y \in T PROVE x <= y
    <2>1. x \in Nat /\ y \in Nat /\ ~(y < x)
        BY <1>2
    <2>. QED  BY <2>1
<1>. QED  BY <1>3 DEF Min

\* The greatest element of a set of numbers that has a bound.
LEMMA MaxIsGreatest ==
    ASSUME NEW T \in SUBSET Nat, T # {}, NEW n \in Nat, \A y \in T : y <= n
    PROVE  Max(T) \in T /\ \A y \in T : y <= Max(T)
<1>. DEFINE R == {ij \in Nat \X Nat : ij[1] < ij[2]}
            D == {n - y : y \in T}
<1>1. IsWellFoundedOn(R, Nat)
    BY NatLessThanWellFounded DEF OpToRel
<1>2. D \in SUBSET Nat /\ D # {}
    <2>1. \A y \in T : n - y \in Nat
        OBVIOUS
    <2>. QED  BY <2>1
<1>3. PICK d \in D : \A e \in D : <<e, d>> \notin R
    <2>. HIDE DEF D, R
    <2>. QED  BY <1>1, <1>2, WFMin
<1>4. PICK x \in T : d = n - x
    BY <1>3
<1>5. ASSUME NEW y \in T PROVE y <= x
    <2>1. x \in Nat /\ y \in Nat /\ n - y \in D /\ n - y \in Nat /\ n - x \in Nat
        BY <1>2
    <2>2. ~(n - y < n - x)
        BY <1>3, <1>4, <2>1
    <2>. QED  BY <2>1, <2>2
<1>6. \A y \in T : x >= y
    BY <1>5
<1>7. Max(T) \in T /\ \A y \in T : Max(T) >= y
    BY <1>6 DEF Max
<1>. QED  BY <1>7

LEMMA Division ==
    ASSUME NEW n \in Nat \ {0}, NEW a \in Int
    PROVE  a = n * (a \div n) + (a % n) /\ a % n \in 0 .. n - 1 /\ a \div n \in Int
OBVIOUS

LEMMA NextMultiple ==
    ASSUME NEW n \in Nat \ {0}, NEW j \in Int, NEW k \in Int, j < k
    PROVE  n * k >= n * j + n
<1>1. n * (k - j - 1) >= 0
    OBVIOUS
<1>2. n * (k - j - 1) = n * k - n * j - n
    OBVIOUS
<1>. QED  BY <1>1, <1>2

\* Numbers that are less than n apart differ modulo n.
LEMMA ModuloDiffers ==
    ASSUME NEW n \in Nat \ {0}, NEW a \in Int, NEW b \in Int, a < b, b - a < n
    PROVE  a % n # b % n
<1>. SUFFICES ASSUME a % n = b % n PROVE FALSE
    OBVIOUS
<1>. DEFINE j == a \div n
            k == b \div n
            r == a % n
<1>1. a = n * j + r /\ b = n * k + r /\ j \in Int /\ k \in Int /\ r \in 0 .. n - 1
    BY Division
<1>. HIDE DEF j, k, r
<1>2. n * j \in Int /\ n * k \in Int
    BY <1>1
<1>3. CASE j < k
    <2>1. n * k >= n * j + n
        BY <1>1, <1>3, NextMultiple
    <2>. QED  BY <2>1, <1>1, <1>2
<1>4. CASE j = k
    BY <1>1, <1>4
<1>5. CASE k < j
    <2>1. n * j >= n * k + n
        BY <1>1, <1>5, NextMultiple
    <2>. QED  BY <2>1, <1>1, <1>2
<1>. QED  BY <1>1, <1>3, <1>4, <1>5

\* Full turns do not count modulo n.
LEMMA ModuloTurns ==
    ASSUME NEW n \in Nat \ {0}, NEW a \in Int, NEW w \in Int, w % n = 0
    PROVE  (a + w) % n = a % n
<1>. DEFINE j == a \div n
            k == w \div n
            m == (a + w) \div n
            r == a % n
            t == (a + w) % n
<1>1. a = n * j + r /\ j \in Int /\ r \in 0 .. n - 1
    BY Division
<1>2. w = n * k /\ k \in Int
    BY Division
<1>3. a + w = n * m + t /\ m \in Int /\ t \in 0 .. n - 1
    BY Division, SMTT(30)
<1>. HIDE DEF j, k, m, r, t
<1>4. n * (m - j - k) = r - t
    <2>1. n * (m - j - k) = n * m - n * j - n * k
        BY <1>1, <1>2, <1>3
    <2>2. n * m \in Int /\ n * j \in Int /\ n * k \in Int
        BY <1>1, <1>2, <1>3
    <2>. QED  BY <1>1, <1>2, <1>3, <2>1, <2>2
<1>5. CASE m - j - k > 0
    <2>1. n * (m - j - k) >= n * 0 + n
        BY <1>1, <1>2, <1>3, <1>5, NextMultiple
    <2>. QED  BY <2>1, <1>1, <1>3, <1>4
<1>6. CASE m - j - k < 0
    <2>1. n * 0 >= n * (m - j - k) + n
        BY <1>1, <1>2, <1>3, <1>6, NextMultiple
    <2>. QED  BY <2>1, <1>1, <1>3, <1>4
<1>7. CASE m - j - k = 0
    BY <1>1, <1>3, <1>4, <1>7
<1>8. r = t
    BY <1>1, <1>2, <1>3, <1>5, <1>6, <1>7
<1>. QED  BY <1>8 DEF r, t

-----------------------------------------------------------------------------

WriteLabels == {"insert", "check", "signalForInsert", "relock", "write"}
ReadLabels == {"drain", "apply", "function", "get", "read", "done",
               "passOn", "signal", "return"}
Labels == {"run"} \union WriteLabels \union ReadLabels
Frames == [at : {"drain", "apply", "done"}, entry : Nat]

RingTypes ==
    /\ minMsgNum \in Nat /\ maxMsgNum \in Nat /\ nextThreshold \in Nat
    /\ base \in Nat /\ sent \in Nat
    /\ buffer \in [0..MAXNUMMESSAGES - 1 -> Nat \union {-1}]
    /\ writeLock \in Slots \union {NoSlot} /\ readers \subseteq Slots

StateTypes ==
    /\ lastBackend \in 0..MaxBackends
    /\ active \in [Slots -> BOOLEAN] /\ resetState \in [Slots -> BOOLEAN]
    /\ signaled \in [Slots -> BOOLEAN] /\ sendOnly \in [Slots -> BOOLEAN]
    /\ procSignal \in [Slots -> BOOLEAN] /\ occurred \in [Slots -> BOOLEAN]
    /\ signalTo \in [Slots -> Slots \union {NoSlot}]
    /\ nextMsgNum \in [Slots -> Int]

CallTypes ==
    /\ pc \in [Slots -> Labels]
    /\ toInsert \in [Slots -> Nat] /\ thisTime \in [Slots -> Nat]
    /\ written \in [Slots -> Nat] /\ nummsgs \in [Slots -> Nat]
    /\ readMax \in [Slots -> Int]
    /\ pend \in [Slots -> Seq(Nat)] /\ frames \in [Slots -> Seq(Frames)]
    /\ knows \in [Slots -> Nat]

LXIDs == 0..LXIDModulus - 1

LXIDTypes ==
    /\ nextLXID \in [Slots -> LXIDs] /\ localLXID \in [Slots -> LXIDs]
    /\ lastLXID \in [Slots -> LXIDs] /\ issued \in [Slots -> Nat]

TypeInt == RingTypes /\ StateTypes /\ CallTypes

Placed(s) ==
    /\ ~active[s] => pc[s] = "run" /\ pend[s] = <<>> /\ knows[s] = 0
    /\ active[s] => s <= lastBackend
    /\ sendOnly[s] => pc[s] \notin ReadLabels /\ pend[s] = <<>> /\ knows[s] = 0
    /\ pc[s] \in ReadLabels <=> Depth(s) # 0
    /\ pc[s] = "insert" => toInsert[s] > 0
    /\ pc[s] \in WriteLabels \ {"insert"} => thisTime[s] \in 1..WRITE_QUANTUM
    /\ pc[s] \in {"check", "signalForInsert", "relock"} => written[s] = 0

Locked(s) ==
    /\ pc[s] \in {"check", "write"} <=> writeLock = s
    /\ pc[s] = "read" <=> s \in readers

\* The messages with numbers from a up to b are in the ring.
InRing(a, b) == \A num \in a..b - 1 : buffer[num % MAXNUMMESSAGES] = Serial(num)

RingInv ==
    /\ minMsgNum <= maxMsgNum /\ maxMsgNum - minMsgNum <= MAXNUMMESSAGES
    /\ CountersBounded
    /\ InRing(minMsgNum, maxMsgNum)

\* A writer has room for its messages, and what it has written so far is in
\* the ring, beyond the messages published.
Writing(s) == pc[s] = "write" =>
    /\ written[s] <= thisTime[s]
    /\ maxMsgNum + thisTime[s] - minMsgNum <= MAXNUMMESSAGES
    /\ InRing(maxMsgNum, maxMsgNum + written[s])

Positioned(s) ==
    /\ s \in Current => minMsgNum <= nextMsgNum[s] /\ nextMsgNum[s] <= maxMsgNum
    /\ pc[s] = "get" => pend[s] = <<>>
    /\ pc[s] = "read" => /\ ~resetState[s] /\ Len(pend[s]) <= MAXINVALMSGS
                         /\ readMax[s] <= maxMsgNum

\* What a backend has dealt with once it has processed what it has fetched.
Reach(s) == knows[s] + Len(pend[s])

Members == {s \in Slots : active[s] /\ ~sendOnly[s]}

Delivered(s) == s \in Members =>
    /\ \A i \in 1..Len(pend[s]) : pend[s][i] = knows[s] + i - 1
    /\ Reach(s) <= Serial(maxMsgNum)
    /\ ~resetState[s] => Serial(nextMsgNum[s]) = Reach(s)

\* The i-th call has fetched messages, and is processing them.
Fetched(s, i) == frames[s][i].at = "apply" \/ (i = Depth(s) /\ pc[s] = "apply")

\* What the calls that are not the last one need: while nobody fetches anew,
\* and the last fetch has not filled the array, a call that has fetched
\* reaches as far as it must.
CallReaches(s, i) ==
    /\ frames[s][i].entry <= Serial(maxMsgNum)
    /\ pc[s] = "read" => frames[s][i].entry <= Serial(readMax[s])
    /\ Fetched(s, i) /\ pc[s] \notin {"get", "read"} /\ nummsgs[s] # MAXINVALMSGS
        => frames[s][i].entry <= Reach(s)
    /\ frames[s][i].at = "done" => frames[s][i].entry <= knows[s]

\* The last call leaves when it has caught up.
LastCall(s) == Depth(s) # 0 =>
    /\ pc[s] \in {"passOn", "signal", "return"} => Top(s).entry <= knows[s]
    /\ pc[s] = "done" => Top(s).at = "done"

Called(s) == LastCall(s) /\ \A i \in 1..Depth(s) : CallReaches(s, i)

PlaceInv == \A s \in Slots : Placed(s)
LockInv == \A s \in Slots : Locked(s)
WriteInv == \A s \in Slots : Writing(s)
PositionInv == \A s \in Slots : Positioned(s)
DeliveryInv == \A s \in Slots : Delivered(s)
CallInv == \A s \in Slots : Called(s)

IInv ==
    /\ TypeInt /\ PlaceInv /\ LockInv /\ RingInv
    /\ WriteInv /\ PositionInv /\ DeliveryInv /\ CallInv

\* The counter of a slot goes on from the last local transaction id.
LXIDInv ==
    /\ LXIDTypes
    /\ \A s \in Slots :
        LXIDFrom(IF active[s] THEN localLXID[s] ELSE nextLXID[s])
            = (lastLXID[s] % (LXIDModulus - 1)) + 1
-----------------------------------------------------------------------------
(***************************************************************************)
(* Constants and sequences                                                 *)
(***************************************************************************)

LEMMA RingSize ==
    /\ MAXNUMMESSAGES \in Nat \ {0} /\ MSGNUMWRAPAROUND \in Nat \ {0}
    /\ MSGNUMWRAPAROUND % MAXNUMMESSAGES = 0 /\ MAXNUMMESSAGES <= MSGNUMWRAPAROUND
    /\ WRITE_QUANTUM \in 1..MAXNUMMESSAGES
    /\ MaxBackends \in Nat \ {0} /\ MAXINVALMSGS \in Nat \ {0}
<1>1. /\ MAXNUMMESSAGES \in Nat \ {0} /\ MSGNUMWRAPAROUND \in Nat \ {0}
      /\ MSGNUMWRAPAROUND % MAXNUMMESSAGES = 0
      /\ WRITE_QUANTUM \in Nat \ {0} /\ WRITE_QUANTUM <= MAXNUMMESSAGES
      /\ MaxBackends \in Nat \ {0} /\ MAXINVALMSGS \in Nat \ {0}
    BY SInvalAssumption
<1>2. MAXNUMMESSAGES <= MSGNUMWRAPAROUND
    BY <1>1
<1>. QED  BY <1>1, <1>2

LEMMA SlotsAre ==
    /\ NoSlot \notin Slots /\ Slots \subseteq Nat \ {0}
    /\ \A s \in Slots : s <= MaxBackends
BY NoSlotAssumption, RingSize DEF Slots

\* The stack q with the place of frame d changed.
PlaceSet(q, d, l) == [q EXCEPT ![d].at = l]

LEMMA FrameSet ==
    ASSUME NEW q \in Seq(Frames), NEW d \in 1..Len(q), NEW l \in {"drain", "apply", "done"}
    PROVE  LET r == PlaceSet(q, d, l)
           IN  /\ r \in Seq(Frames) /\ Len(r) = Len(q)
               /\ \A i \in 1..Len(q) : /\ r[i].entry = q[i].entry
                                      /\ r[i].at = IF i = d THEN l ELSE q[i].at
<1>. DEFINE r == PlaceSet(q, d, l)
<1>1. Len(q) \in Nat /\ q \in [1..Len(q) -> Frames]
    BY LenProperties
<1>2. r = [q EXCEPT ![d] = [@ EXCEPT !.at = l]]
    BY DEF PlaceSet
<1>3. q[d] \in Frames
    BY <1>1
<1>4. [q[d] EXCEPT !.at = l] \in Frames
    BY <1>3 DEF Frames
<1>5. r \in [1..Len(q) -> Frames]
    BY <1>1, <1>2, <1>4
<1>6. r \in Seq(Frames) /\ Len(r) = Len(q)
    BY <1>1, <1>5, SeqDef
<1>7. ASSUME NEW i \in 1..Len(q)
      PROVE  r[i].entry = q[i].entry /\ r[i].at = IF i = d THEN l ELSE q[i].at
    <2>1. q[i] \in Frames
        BY <1>1
    <2>. QED  BY <1>1, <1>2, <2>1 DEF Frames
<1>. QED  BY <1>6, <1>7

LEMMA CallTyped ==
    ASSUME TypeInt, NEW s \in Slots
    PROVE  /\ frames[s] \in Seq(Frames) /\ Depth(s) \in Nat
           /\ pend[s] \in Seq(Nat) /\ Len(pend[s]) \in Nat
           /\ knows[s] \in Nat /\ Reach(s) \in Nat
           /\ nextMsgNum[s] \in Int /\ readMax[s] \in Int /\ nummsgs[s] \in Nat
           /\ Serial(maxMsgNum) \in Nat /\ pc[s] \in Labels
           /\ \A i \in 1..Depth(s) : /\ frames[s][i].entry \in Nat
                                     /\ frames[s][i].at \in {"drain", "apply", "done"}
<1>1. /\ frames[s] \in Seq(Frames) /\ pend[s] \in Seq(Nat) /\ knows[s] \in Nat
      /\ nextMsgNum[s] \in Int /\ readMax[s] \in Int /\ nummsgs[s] \in Nat
      /\ maxMsgNum \in Nat /\ base \in Nat /\ pc[s] \in Labels
    BY DEF TypeInt, CallTypes, StateTypes, RingTypes
<1>2. Depth(s) \in Nat /\ Len(pend[s]) \in Nat
    BY <1>1 DEF Depth
<1>3. ASSUME NEW i \in 1..Depth(s)
      PROVE  frames[s][i].entry \in Nat /\ frames[s][i].at \in {"drain", "apply", "done"}
    <2>1. frames[s][i] \in Frames
        BY <1>1, ElementOfSeq DEF Depth
    <2>. QED  BY <2>1 DEF Frames
<1>. QED  BY <1>1, <1>2, <1>3 DEF Reach, Serial

-----------------------------------------------------------------------------
(***************************************************************************)
(* What a step leaves alone                                                *)
(***************************************************************************)

\* Nothing that belongs to slot t changes.
KeptSlot(t) ==
    /\ active'[t] = active[t] /\ sendOnly'[t] = sendOnly[t]
    /\ resetState'[t] = resetState[t] /\ nextMsgNum'[t] = nextMsgNum[t]
    /\ pc'[t] = pc[t] /\ frames'[t] = frames[t] /\ knows'[t] = knows[t]
    /\ pend'[t] = pend[t] /\ nummsgs'[t] = nummsgs[t] /\ readMax'[t] = readMax[t]
    /\ toInsert'[t] = toInsert[t] /\ thisTime'[t] = thisTime[t]
    /\ written'[t] = written[t]

\* The counters are as they were, but that messages may be published.
RingGrows ==
    /\ minMsgNum' = minMsgNum /\ base' = base
    /\ maxMsgNum' \in Nat /\ maxMsgNum <= maxMsgNum'

LEMMA SerialGrows ==
    ASSUME TypeInt, RingGrows
    PROVE  /\ Serial(maxMsgNum) \in Nat /\ Serial(maxMsgNum)' \in Nat
           /\ Serial(maxMsgNum) <= Serial(maxMsgNum)'
<1>1. maxMsgNum \in Nat /\ base \in Nat
    BY DEF TypeInt, RingTypes
<1>2. maxMsgNum' \in Nat /\ maxMsgNum <= maxMsgNum' /\ base' = base
    BY DEF RingGrows
<1>3. PICK m \in Nat : m = maxMsgNum'
    BY <1>2
<1>4. maxMsgNum <= m
    BY <1>2, <1>3
<1>5. maxMsgNum + base \in Nat /\ m + base \in Nat /\ maxMsgNum + base <= m + base
    BY <1>1, <1>4
<1>6. Serial(maxMsgNum) = maxMsgNum + base /\ Serial(maxMsgNum)' = m + base
    BY <1>2, <1>3 DEF Serial
<1>. QED  BY <1>5, <1>6

LEMMA CallsKept ==
    ASSUME TypeInt, RingGrows, NEW t \in Slots, Called(t),
           pc'[t] = pc[t], frames'[t] = frames[t], knows'[t] = knows[t],
           pend'[t] = pend[t], nummsgs'[t] = nummsgs[t], readMax'[t] = readMax[t]
    PROVE  Called(t)'
<1>1. Depth(t)' = Depth(t) /\ Top(t)' = Top(t) /\ Reach(t)' = Reach(t)
    BY DEF Depth, Top, Reach
<1>2. LastCall(t)'
    BY <1>1 DEF Called, LastCall
<1>3. /\ Serial(maxMsgNum)' \in Nat /\ Serial(maxMsgNum) <= Serial(maxMsgNum)'
      /\ Serial(readMax[t])' = Serial(readMax[t]) /\ Serial(maxMsgNum) \in Nat
    <2>1. Serial(readMax[t])' = Serial(readMax[t])
        BY DEF RingGrows, Serial
    <2>. QED  BY <2>1, SerialGrows
<1>4. ASSUME NEW i \in 1..Depth(t) PROVE CallReaches(t, i)'
    <2>1. CallReaches(t, i) /\ frames[t][i].entry \in Nat
        BY CallTyped DEF Called
    <2>2. Fetched(t, i)' <=> Fetched(t, i)
        BY <1>1 DEF Fetched
    <2>. QED  BY <1>1, <1>3, <2>1, <2>2 DEF CallReaches
<1>. QED  BY <1>1, <1>2, <1>4 DEF Called

LEMMA SlotKept ==
    ASSUME TypeInt, RingGrows, NEW t \in Slots, KeptSlot(t), active[t] => t <= lastBackend',
           Placed(t), Positioned(t), Delivered(t), Called(t)
    PROVE  Placed(t)' /\ Positioned(t)' /\ Delivered(t)' /\ Called(t)'
<1>1. Placed(t)'
    BY DEF KeptSlot, Placed, Depth
<1>2. Positioned(t)'
    <2>1. nextMsgNum[t] \in Int /\ readMax[t] \in Int /\ maxMsgNum \in Nat
        BY DEF TypeInt, StateTypes, CallTypes, RingTypes
    <2>. QED  BY <2>1 DEF KeptSlot, RingGrows, Positioned, Current
<1>3. Delivered(t)'
    <2>1. /\ pend[t] \in Seq(Nat) /\ knows[t] \in Nat /\ nextMsgNum[t] \in Int
          /\ base \in Nat /\ maxMsgNum \in Nat /\ Reach(t) \in Nat
        BY CallTyped DEF TypeInt, RingTypes
    <2>2. Reach(t)' = Reach(t)
        BY DEF KeptSlot, Reach
    <2>3. SUFFICES ASSUME t \in Members PROVE Delivered(t)'
        BY DEF Delivered, Members, KeptSlot
    <2>4. Reach(t)' <= Serial(maxMsgNum)'
        BY <2>1, <2>2, <2>3 DEF Delivered, RingGrows, Serial
    <2>. QED  BY <2>1, <2>2, <2>3, <2>4 DEF KeptSlot, RingGrows, Delivered, Members, Serial
<1>4. Called(t)'
    BY CallsKept DEF KeptSlot
<1>. QED  BY <1>1, <1>2, <1>3, <1>4

\* The step of one backend keeps the invariant when it does so for the ring,
\* the locks and its own slot.
LEMMA SlotStep ==
    ASSUME IInv, NEW s \in Slots, \A t \in Slots \ {s} : KeptSlot(t),
           RingGrows, TypeInt', LockInv', RingInv', WriteInv',
           \A t \in Slots \ {s} : active[t] => t <= lastBackend',
           Placed(s)', Positioned(s)', Delivered(s)', Called(s)'
    PROVE  IInv'
<1>1. ASSUME NEW t \in Slots \ {s}
      PROVE  Placed(t)' /\ Positioned(t)' /\ Delivered(t)' /\ Called(t)'
    BY SlotKept DEF IInv, PlaceInv, PositionInv, DeliveryInv, CallInv
<1>2. Slots' = Slots
    BY DEF Slots
<1>3. PlaceInv' /\ PositionInv' /\ DeliveryInv' /\ CallInv'
    BY <1>1, <1>2 DEF PlaceInv, PositionInv, DeliveryInv, CallInv
<1>. QED  BY <1>3 DEF IInv

\* The messages in the ring are those that were, and no writer begins.
LEMMA RingKept ==
    ASSUME RingInv, WriteInv, UNCHANGED ring, UNCHANGED base,
           \A t \in Slots : pc'[t] = "write" =>
                pc[t] = "write" /\ thisTime'[t] = thisTime[t] /\ written'[t] = written[t]
    PROVE  RingInv' /\ WriteInv'
<1>1. UNCHANGED <<minMsgNum, maxMsgNum, buffer, base>>
    BY DEF ring
<1>2. RingInv'
    BY <1>1 DEF RingInv, CountersBounded, InRing, Serial
<1>3. ASSUME NEW t \in Slots PROVE Writing(t)'
    BY <1>1 DEF WriteInv, Writing, InRing, Serial
<1>. QED  BY <1>2, <1>3 DEF WriteInv, Slots

\* A step that moves one backend from one place without a lock to another.
LEMMA LocksKept ==
    ASSUME TypeInt, LockInv, UNCHANGED locks, NEW s \in Slots, NEW l, pc' = [pc EXCEPT ![s] = l],
           {pc[s], l} \intersect {"check", "write", "read"} = {}
    PROVE  LockInv'
<1>1. ASSUME NEW t \in Slots PROVE Locked(t)'
    <2>1. Locked(t) /\ pc \in [Slots -> Labels] /\ UNCHANGED <<writeLock, readers>>
        BY DEF TypeInt, CallTypes, LockInv, locks
    <2>2. CASE t = s
        <3>1. pc'[t] = l
            BY <2>1, <2>2
        <3>. QED  BY <2>1, <2>2, <3>1 DEF Locked
    <2>3. CASE t # s
        BY <2>1, <2>3 DEF Locked
    <2>. QED  BY <2>2, <2>3
<1>. QED  BY <1>1 DEF LockInv, Slots

-----------------------------------------------------------------------------
(***************************************************************************)
(* Writers                                                                 *)
(***************************************************************************)

\* Outside of ReceiveSharedInvalidMessages, the variables of a reader stay.
LEMMA OutsideCalls ==
    ASSUME TypeInt, RingGrows, NEW s \in Slots, Placed(s), Positioned(s), Delivered(s),
           pc[s] \notin ReadLabels, pc'[s] \notin ReadLabels,
           active'[s] = active[s], sendOnly'[s] = sendOnly[s],
           resetState'[s] = resetState[s], nextMsgNum'[s] = nextMsgNum[s],
           frames'[s] = frames[s], knows'[s] = knows[s], pend'[s] = pend[s]
    PROVE  Positioned(s)' /\ Delivered(s)' /\ Called(s)'
<1>1. pc'[s] # "get" /\ pc'[s] # "read" /\ Depth(s) = 0 /\ Depth(s)' = 0
    BY DEF Placed, ReadLabels, Depth
<1>2. Positioned(s)'
    <2>1. nextMsgNum[s] \in Int /\ maxMsgNum \in Nat
        BY DEF TypeInt, StateTypes, RingTypes
    <2>. QED  BY <1>1, <2>1 DEF RingGrows, Positioned, Current
<1>3. Called(s)'
    BY <1>1 DEF Called, LastCall
<1>4. Delivered(s)'
    <2>1. /\ pend[s] \in Seq(Nat) /\ knows[s] \in Nat /\ nextMsgNum[s] \in Int
          /\ base \in Nat /\ maxMsgNum \in Nat /\ Reach(s) \in Nat
        BY CallTyped DEF TypeInt, RingTypes
    <2>2. Reach(s)' = Reach(s)
        BY DEF Reach
    <2>3. SUFFICES ASSUME s \in Members PROVE Delivered(s)'
        BY DEF Delivered, Members
    <2>4. Reach(s)' <= Serial(maxMsgNum)'
        BY <2>1, <2>2, <2>3 DEF Delivered, RingGrows, Serial
    <2>. QED  BY <2>1, <2>2, <2>3, <2>4 DEF RingGrows, Delivered, Members, Serial
<1>. QED  BY <1>2, <1>3, <1>4

\* A step of a writer, on its own variables, the ring and the lock.
LEMMA WriterStep ==
    ASSUME IInv, NEW s \in Slots, NEW l, pc' = [pc EXCEPT ![s] = l],
           active[s], pc[s] \notin ReadLabels, l \notin ReadLabels,
           UNCHANGED <<procState, reading, knows>>, RingGrows,
           \A t \in Slots \ {s} : /\ toInsert'[t] = toInsert[t]
                                  /\ thisTime'[t] = thisTime[t]
                                  /\ written'[t] = written[t],
           l = "insert" => toInsert'[s] > 0,
           l \in WriteLabels \ {"insert"} => thisTime'[s] \in 1..WRITE_QUANTUM,
           l \in {"check", "signalForInsert", "relock"} => written'[s] = 0,
           TypeInt', LockInv', RingInv', WriteInv'
    PROVE  IInv'
<1>1. TypeInt /\ Placed(s) /\ Positioned(s) /\ Delivered(s) /\ pc \in [Slots -> Labels]
    BY DEF IInv, PlaceInv, PositionInv, DeliveryInv, TypeInt, CallTypes
<1>2. pc'[s] = l /\ \A t \in Slots \ {s} : pc'[t] = pc[t]
    BY <1>1
<1>3. \A t \in Slots \ {s} : KeptSlot(t)
    BY <1>2 DEF KeptSlot, procState, reading
<1>4. Placed(s)'
    BY <1>1, <1>2 DEF Placed, procState, reading, Depth
<1>5. Positioned(s)' /\ Delivered(s)' /\ Called(s)'
    BY <1>1, <1>2, OutsideCalls DEF procState, reading
<1>6. \A t \in Slots \ {s} : active[t] => t <= lastBackend'
    BY DEF procState, IInv, PlaceInv, Placed
<1>. QED  BY <1>3, <1>4, <1>5, <1>6, SlotStep

LEMMA BeginInsert ==
    ASSUME IInv, NEW s \in Slots, NEW n \in 1..MaxInsert, SIInsertDataEntries(s, n)
    PROVE  IInv'
<1>0. TypeInt /\ LockInv /\ RingInv /\ WriteInv
    BY DEF IInv
<1>1. /\ active[s] /\ pc[s] = "run" /\ pc' = [pc EXCEPT ![s] = "insert"]
      /\ toInsert' = [toInsert EXCEPT ![s] = n] /\ sent' = sent + n
      /\ UNCHANGED <<ring, procState, locks, thisTime, written, reading, catchup,
                     lxids, base, knows>>
    BY DEF SIInsertDataEntries, Running, Goto
<1>2. n \in Nat \ {0}
    BY SInvalAssumption
<1>3. TypeInt'
    BY <1>0, <1>1, <1>2, SMTT(30) DEF TypeInt, RingTypes, StateTypes, CallTypes, ring, procState,
        locks, reading, catchup, Labels, WriteLabels, Slots
<1>4. pc \in [Slots -> Labels] /\ toInsert \in [Slots -> Nat]
    BY <1>0 DEF TypeInt, CallTypes
<1>5. toInsert'[s] = n /\ \A t \in Slots \ {s} : toInsert'[t] = toInsert[t]
    BY <1>1, <1>4
<1>6. RingGrows
    BY <1>0, <1>1 DEF RingGrows, ring, TypeInt, RingTypes
<1>7. LockInv'
    BY <1>0, <1>1, LocksKept
<1>8. RingInv' /\ WriteInv'
    <2>1. \A t \in Slots : pc'[t] = "write" => pc[t] = "write"
        BY <1>1, <1>4
    <2>. QED  BY <1>0, <1>1, <2>1, RingKept
<1>9. /\ "insert" \notin ReadLabels /\ pc[s] \notin ReadLabels
      /\ "insert" \notin WriteLabels \ {"insert"}
      /\ "insert" \notin {"check", "signalForInsert", "relock"}
    BY <1>1 DEF ReadLabels, WriteLabels
<1>10. UNCHANGED <<procState, reading, knows>> /\ UNCHANGED thisTime /\ UNCHANGED written
    BY <1>1
<1>11. toInsert'[s] > 0
    BY <1>2, <1>5
<1>. QED  BY <1>1, <1>3, <1>5, <1>6, <1>7, <1>8, <1>9, <1>10, <1>11, WriterStep

\* A writer takes SInvalWriteLock.
LEMMA LockTaken ==
    ASSUME TypeInt, LockInv, NEW s \in Slots, pc' = [pc EXCEPT ![s] = "check"],
           pc[s] \notin {"check", "write", "read"},
           writeLock = NoSlot, writeLock' = s, UNCHANGED readers
    PROVE  LockInv'
<1>1. ASSUME NEW t \in Slots PROVE Locked(t)'
    <2>1. /\ Locked(t) /\ pc \in [Slots -> Labels] /\ t # NoSlot
        BY NoSlotAssumption DEF TypeInt, CallTypes, LockInv
    <2>2. CASE t = s
        <3>1. pc'[t] = "check"
            BY <2>1, <2>2
        <3>. QED  BY <2>1, <2>2, <3>1 DEF Locked
    <2>3. CASE t # s
        BY <2>1, <2>3 DEF Locked
    <2>. QED  BY <2>2, <2>3
<1>. QED  BY <1>1 DEF LockInv, Slots

LEMMA LockForInsertKeeps ==
    ASSUME IInv, NEW s \in Slots, LockForInsert(s)
    PROVE  IInv'
<1>0. TypeInt /\ LockInv /\ RingInv /\ WriteInv /\ Placed(s)
    BY DEF IInv, PlaceInv
<1>. DEFINE quantum == Min({toInsert[s], WRITE_QUANTUM})
<1>1. /\ pc[s] = "insert" /\ pc' = [pc EXCEPT ![s] = "check"]
      /\ writeLock = NoSlot /\ writeLock' = s
      /\ thisTime' = [thisTime EXCEPT ![s] = quantum]
      /\ toInsert' = [toInsert EXCEPT ![s] = @ - quantum]
      /\ written' = [written EXCEPT ![s] = 0]
      /\ UNCHANGED <<ring, procState, readers, sent, reading, catchup, lxids,
                     base, knows>>
    BY DEF LockForInsert, Goto
<1>2. /\ pc \in [Slots -> Labels] /\ toInsert \in [Slots -> Nat]
      /\ thisTime \in [Slots -> Nat] /\ written \in [Slots -> Nat]
    BY <1>0 DEF TypeInt, CallTypes
<1>3. quantum \in 1..WRITE_QUANTUM /\ quantum <= toInsert[s]
    <2>1. toInsert[s] \in Nat \ {0} /\ WRITE_QUANTUM \in Nat \ {0}
        BY <1>0, <1>1, <1>2, RingSize DEF Placed
    <2>. DEFINE T == {toInsert[s], WRITE_QUANTUM}
    <2>2. T \in SUBSET Nat /\ T # {}
        BY <2>1
    <2>3. Min(T) \in T /\ \A y \in T : Min(T) <= y
        BY <2>2, MinIsLeast
    <2>. QED  BY <2>1, <2>3
<1>. HIDE DEF quantum
<1>4. TypeInt'
    <2>1. quantum \in Nat /\ toInsert[s] - quantum \in Nat
        BY <1>2, <1>3, RingSize
    <2>2. CallTypes'
        BY <1>0, <1>1, <2>1 DEF TypeInt, CallTypes, reading, Labels, WriteLabels, Slots
    <2>3. RingTypes'
        BY <1>0, <1>1 DEF TypeInt, RingTypes, ring, Slots
    <2>4. StateTypes'
        BY <1>0, <1>1 DEF TypeInt, StateTypes, procState, catchup, Slots
    <2>. QED  BY <2>2, <2>3, <2>4 DEF TypeInt
<1>5. /\ \A t \in Slots \ {s} : /\ toInsert'[t] = toInsert[t]
                                /\ thisTime'[t] = thisTime[t] /\ written'[t] = written[t]
      /\ thisTime'[s] = quantum /\ written'[s] = 0
    BY <1>1, <1>2
<1>6. RingGrows
    BY <1>0, <1>1 DEF RingGrows, ring, TypeInt, RingTypes
<1>7. LockInv'
    BY <1>0, <1>1, LockTaken
<1>8. RingInv' /\ WriteInv'
    <2>1. \A t \in Slots : pc'[t] = "write" => pc[t] = "write" /\ t # s
        BY <1>1, <1>2
    <2>. QED  BY <1>0, <1>1, <1>5, <2>1, RingKept
<1>9. /\ "check" \notin ReadLabels /\ pc[s] \notin ReadLabels /\ pc[s] # "run"
    BY <1>1 DEF ReadLabels
<1>10. UNCHANGED <<procState, reading, knows>> /\ active[s]
    BY <1>0, <1>1 DEF Placed
<1>. QED  BY <1>1, <1>3, <1>4, <1>5, <1>6, <1>7, <1>8, <1>9, <1>10, WriterStep

LEMMA SignalForInsertKeeps ==
    ASSUME IInv, NEW s \in Slots, SignalForInsert(s)
    PROVE  IInv'
<1>0. TypeInt /\ LockInv /\ RingInv /\ WriteInv /\ Placed(s)
    BY DEF IInv, PlaceInv
<1>1. /\ pc[s] = "signalForInsert" /\ pc' = [pc EXCEPT ![s] = "relock"]
      /\ procSignal' = [t \in Slots |-> procSignal[t] \/ t = signalTo[s]]
      /\ signalTo' = [signalTo EXCEPT ![s] = NoSlot]
      /\ UNCHANGED <<ring, procState, locks, writing, reading, occurred, lxids,
                     base, knows>>
    BY DEF SignalForInsert, SendProcSignal, Goto
<1>2. pc \in [Slots -> Labels]
    BY <1>0 DEF TypeInt, CallTypes
<1>3. TypeInt'
    <2>1. CallTypes'
        BY <1>0, <1>1 DEF TypeInt, CallTypes, reading, writing, Labels, WriteLabels, Slots
    <2>2. RingTypes'
        BY <1>0, <1>1 DEF TypeInt, RingTypes, ring, locks, writing, Slots
    <2>3. StateTypes'
        BY <1>0, <1>1 DEF TypeInt, StateTypes, procState, Slots
    <2>. QED  BY <2>1, <2>2, <2>3 DEF TypeInt
<1>4. UNCHANGED <<toInsert, thisTime, written>>
    BY <1>1 DEF writing
<1>5. RingGrows
    BY <1>0, <1>1 DEF RingGrows, ring, TypeInt, RingTypes
<1>6. LockInv'
    BY <1>0, <1>1, LocksKept
<1>7. RingInv' /\ WriteInv'
    <2>1. \A t \in Slots : pc'[t] = "write" => pc[t] = "write"
        BY <1>1, <1>2
    <2>. QED  BY <1>0, <1>1, <1>4, <2>1, RingKept
<1>8. /\ "relock" \notin ReadLabels /\ pc[s] \notin ReadLabels
      /\ UNCHANGED <<procState, reading, knows>>
    BY <1>1 DEF ReadLabels
<1>9. active[s] /\ thisTime[s] \in 1..WRITE_QUANTUM /\ written[s] = 0
    BY <1>0, <1>1 DEF Placed, WriteLabels
<1>. QED  BY <1>1, <1>3, <1>4, <1>5, <1>6, <1>7, <1>8, <1>9, WriterStep

LEMMA RelockForInsertKeeps ==
    ASSUME IInv, NEW s \in Slots, RelockForInsert(s)
    PROVE  IInv'
<1>0. TypeInt /\ LockInv /\ RingInv /\ WriteInv /\ Placed(s)
    BY DEF IInv, PlaceInv
<1>1. /\ pc[s] = "relock" /\ pc' = [pc EXCEPT ![s] = "check"]
      /\ writeLock = NoSlot /\ writeLock' = s
      /\ UNCHANGED <<ring, procState, readers, writing, reading, catchup, lxids,
                     base, knows>>
    BY DEF RelockForInsert, Goto
<1>2. pc \in [Slots -> Labels]
    BY <1>0 DEF TypeInt, CallTypes
<1>3. TypeInt'
    <2>1. CallTypes'
        BY <1>0, <1>1 DEF TypeInt, CallTypes, reading, writing, Labels, WriteLabels, Slots
    <2>2. RingTypes'
        BY <1>0, <1>1 DEF TypeInt, RingTypes, ring, writing, Slots
    <2>3. StateTypes'
        BY <1>0, <1>1 DEF TypeInt, StateTypes, procState, catchup, Slots
    <2>. QED  BY <2>1, <2>2, <2>3 DEF TypeInt
<1>4. UNCHANGED <<toInsert, thisTime, written>>
    BY <1>1 DEF writing
<1>5. RingGrows
    BY <1>0, <1>1 DEF RingGrows, ring, TypeInt, RingTypes
<1>6. LockInv'
    BY <1>0, <1>1, LockTaken
<1>7. RingInv' /\ WriteInv'
    <2>1. \A t \in Slots : pc'[t] = "write" => pc[t] = "write"
        BY <1>1, <1>2
    <2>. QED  BY <1>0, <1>1, <1>4, <2>1, RingKept
<1>8. /\ "check" \notin ReadLabels /\ pc[s] \notin ReadLabels
      /\ UNCHANGED <<procState, reading, knows>>
    BY <1>1 DEF ReadLabels
<1>9. active[s] /\ thisTime[s] \in 1..WRITE_QUANTUM /\ written[s] = 0
    BY <1>0, <1>1 DEF Placed, WriteLabels
<1>. QED  BY <1>1, <1>3, <1>4, <1>5, <1>6, <1>7, <1>8, <1>9, WriterStep

\* A message goes to a place in the ring that no message readers look at has.
LEMMA WriteMessageKeeps ==
    ASSUME IInv, NEW s \in Slots, WriteMessage(s)
    PROVE  IInv'
<1>0. /\ TypeInt /\ LockInv /\ RingInv /\ WriteInv /\ Placed(s) /\ Locked(s) /\ Writing(s)
    BY DEF IInv, PlaceInv, LockInv, WriteInv
<1>. DEFINE num == maxMsgNum + written[s]
            serial == Serial(num)
<1>1. /\ \/ pc[s] = "check" /\ ~MustClean(thisTime[s])
         \/ pc[s] = "write" /\ written[s] < thisTime[s]
      /\ buffer' = [buffer EXCEPT ![num % MAXNUMMESSAGES] = serial]
      /\ written' = [written EXCEPT ![s] = @ + 1]
      /\ pc' = [pc EXCEPT ![s] = "write"]
      /\ UNCHANGED <<minMsgNum, maxMsgNum, nextThreshold, procState, locks,
                     toInsert, thisTime, sent, reading, catchup, lxids, base, knows>>
    BY DEF WriteMessage, Goto
<1>2. /\ pc \in [Slots -> Labels] /\ written \in [Slots -> Nat]
      /\ thisTime \in [Slots -> Nat] /\ minMsgNum \in Nat /\ maxMsgNum \in Nat /\ base \in Nat
      /\ buffer \in [0..MAXNUMMESSAGES - 1 -> Nat \union {-1}]
      /\ MAXNUMMESSAGES \in Nat \ {0}
    BY <1>0, RingSize DEF TypeInt, CallTypes, RingTypes
<1>3. /\ thisTime[s] \in 1..WRITE_QUANTUM /\ active[s] /\ writeLock = s
      /\ pc[s] \notin ReadLabels
    BY <1>0, <1>1 DEF Placed, WriteLabels, ReadLabels, Locked
\* There is room.
<1>4. /\ written[s] < thisTime[s]
      /\ maxMsgNum + thisTime[s] - minMsgNum <= MAXNUMMESSAGES
      /\ InRing(maxMsgNum, maxMsgNum + written[s])
    <2>1. CASE pc[s] = "check" /\ ~MustClean(thisTime[s])
        <3>1. written[s] = 0
            BY <1>0, <2>1 DEF Placed
        <3>2. InRing(maxMsgNum, maxMsgNum + written[s])
            BY <3>1, <1>2 DEF InRing
        <3>3. maxMsgNum - minMsgNum + thisTime[s] <= MAXNUMMESSAGES
            BY <2>1, <1>2 DEF MustClean
        <3>. QED  BY <3>1, <3>2, <3>3, <1>2, <1>3, RingSize
    <2>2. CASE pc[s] = "write" /\ written[s] < thisTime[s]
        BY <2>2, <1>0 DEF Writing
    <2>. QED  BY <1>1, <2>1, <2>2
<1>5. /\ written[s] \in Nat /\ num \in Nat /\ num \in Int /\ serial \in Nat
      /\ num % MAXNUMMESSAGES \in 0..MAXNUMMESSAGES - 1
    <2>1. written[s] \in Nat
        BY <1>2
    <2>2. num \in Nat
        BY <2>1, <1>2
    <2>3. num % MAXNUMMESSAGES \in 0..MAXNUMMESSAGES - 1
        BY <2>2, <1>2
    <2>. QED  BY <2>1, <2>2, <2>3, <1>2 DEF Serial
<1>6. TypeInt'
    <2>1. CallTypes'
        <3>1. pc' \in [Slots -> Labels]
            BY <1>1, <1>2 DEF Labels, WriteLabels
        <3>2. written' \in [Slots -> Nat]
            BY <1>1, <1>2
        <3>. QED  BY <3>1, <3>2, <1>0, <1>1 DEF TypeInt, CallTypes, reading, Slots
    <2>2. buffer' \in [0..MAXNUMMESSAGES - 1 -> Nat \union {-1}]
        BY <1>1, <1>2, <1>5
    <2>3. RingTypes'
        BY <1>0, <1>1, <2>2 DEF TypeInt, RingTypes, locks, Slots
    <2>4. StateTypes'
        BY <1>0, <1>1 DEF TypeInt, StateTypes, procState, catchup, Slots
    <2>. QED  BY <2>1, <2>3, <2>4 DEF TypeInt
\* The messages that are there stay.
<1>7. ASSUME NEW n \in minMsgNum..num - 1
      PROVE  buffer'[n % MAXNUMMESSAGES] = buffer[n % MAXNUMMESSAGES]
    <2>1. /\ n \in Int /\ n < num /\ num - n < MAXNUMMESSAGES
          /\ n % MAXNUMMESSAGES \in 0..MAXNUMMESSAGES - 1
        BY <1>2, <1>4, <1>5, SMTT(30)
    <2>. HIDE DEF num, serial
    <2>2. n % MAXNUMMESSAGES # num % MAXNUMMESSAGES
        BY <2>1, <1>2, <1>5, ModuloDiffers
    <2>. QED  BY <2>1, <2>2, <1>1, <1>2
<1>8. \A n : Serial(n)' = Serial(n)
    BY <1>1 DEF Serial
<1>9. RingInv'
    <2>1. InRing(minMsgNum, maxMsgNum)'
        <3>. SUFFICES ASSUME NEW n \in minMsgNum..maxMsgNum - 1
                      PROVE  buffer'[n % MAXNUMMESSAGES] = Serial(n)
            BY <1>1, <1>8 DEF InRing
        <3>1. n \in minMsgNum..num - 1
            BY <1>2
        <3>. QED  BY <3>1, <1>7, <1>0 DEF RingInv, InRing
    <2>. QED  BY <2>1, <1>0, <1>1 DEF RingInv, CountersBounded
<1>10. /\ pc'[s] = "write" /\ written'[s] = written[s] + 1
       /\ \A t \in Slots \ {s} : pc'[t] = pc[t] /\ written'[t] = written[t]
    BY <1>1, <1>2
<1>11. WriteInv'
    <2>1. ASSUME NEW t \in Slots, t # s PROVE Writing(t)'
        <3>1. Locked(t) /\ pc'[t] = pc[t]
            BY <2>1, <1>0, <1>10 DEF LockInv
        <3>. QED  BY <3>1, <2>1, <1>3 DEF Locked, Writing
    <2>2. Writing(s)'
        <3>1. written[s] + 1 <= thisTime[s]
            BY <1>2, <1>4
        <3>2. InRing(maxMsgNum, maxMsgNum + written[s])'
            <4>. SUFFICES ASSUME NEW n \in maxMsgNum..(maxMsgNum + (written[s] + 1)) - 1
                          PROVE  buffer'[n % MAXNUMMESSAGES] = Serial(n)
                BY <1>1, <1>8, <1>10 DEF InRing
            <4>1. CASE n = num
                <5>1. buffer'[num % MAXNUMMESSAGES] = serial
                    BY <1>1, <1>2, <1>5
                <5>. QED  BY <5>1, <4>1
            <4>2. CASE n # num
                <5>1. n \in maxMsgNum..(maxMsgNum + written[s]) - 1 /\ n \in minMsgNum..num - 1
                    BY <4>2, <1>0, <1>2 DEF RingInv
                <5>. QED  BY <5>1, <1>4, <1>7 DEF InRing
            <4>. QED  BY <4>1, <4>2
        <3>. QED  BY <3>1, <3>2, <1>1, <1>4, <1>10 DEF Writing
    <2>. QED  BY <2>1, <2>2 DEF WriteInv, Slots
<1>12. LockInv'
    <2>1. ASSUME NEW t \in Slots PROVE Locked(t)'
        BY <1>0, <1>1, <1>3, <1>10 DEF LockInv, Locked, locks
    <2>. QED  BY <2>1 DEF LockInv, Slots
<1>13. RingGrows
    BY <1>1, <1>2 DEF RingGrows
<1>14. /\ "write" \notin ReadLabels /\ "write" \in WriteLabels \ {"insert"}
       /\ "write" \notin {"check", "signalForInsert", "relock"}
       /\ thisTime' = thisTime /\ toInsert' = toInsert
       /\ UNCHANGED <<procState, reading, knows>>
    BY <1>1 DEF ReadLabels, WriteLabels
<1>. QED  BY <1>1, <1>3, <1>6, <1>9, <1>10, <1>11, <1>12, <1>13, <1>14, WriterStep

LEMMA PublishKeeps ==
    ASSUME IInv, NEW s \in Slots, Publish(s)
    PROVE  IInv'
<1>0. TypeInt /\ LockInv /\ RingInv /\ WriteInv /\ Placed(s) /\ Locked(s) /\ Writing(s)
    BY DEF IInv, PlaceInv, LockInv, WriteInv
<1>. DEFINE l == IF toInsert[s] > 0 THEN "insert" ELSE "run"
<1>1. /\ pc[s] = "write" /\ written[s] = thisTime[s] /\ pc' = [pc EXCEPT ![s] = l]
      /\ maxMsgNum' = maxMsgNum + thisTime[s] /\ writeLock' = NoSlot
      /\ thisTime' = [thisTime EXCEPT ![s] = 0] /\ written' = [written EXCEPT ![s] = 0]
      /\ UNCHANGED <<minMsgNum, nextThreshold, buffer, procState, readers, toInsert,
                     sent, reading, catchup, lxids, base, knows>>
    BY DEF Publish, Goto
<1>2. /\ pc \in [Slots -> Labels] /\ written \in [Slots -> Nat] /\ toInsert \in [Slots -> Nat]
      /\ thisTime \in [Slots -> Nat] /\ minMsgNum \in Nat /\ maxMsgNum \in Nat /\ base \in Nat
      /\ MAXNUMMESSAGES \in Nat \ {0} /\ MSGNUMWRAPAROUND \in Nat
    BY <1>0, RingSize DEF TypeInt, CallTypes, RingTypes
<1>3. /\ active[s] /\ writeLock = s /\ pc[s] \notin ReadLabels
      /\ maxMsgNum + thisTime[s] - minMsgNum <= MAXNUMMESSAGES
      /\ InRing(maxMsgNum, maxMsgNum + thisTime[s])
      /\ thisTime[s] \in Nat
    BY <1>0, <1>1, <1>2 DEF Placed, ReadLabels, Locked, Writing
<1>4. l \in {"insert", "run"} /\ (l = "insert" => toInsert[s] > 0)
    OBVIOUS
<1>. HIDE DEF l
<1>5. TypeInt'
    <2>1. CallTypes'
        BY <1>0, <1>1, <1>2, <1>4 DEF TypeInt, CallTypes, reading, Labels, WriteLabels, Slots
    <2>2. RingTypes'
        BY <1>0, <1>1, <1>3 DEF TypeInt, RingTypes, Slots
    <2>3. StateTypes'
        BY <1>0, <1>1 DEF TypeInt, StateTypes, procState, catchup, Slots
    <2>. QED  BY <2>1, <2>2, <2>3 DEF TypeInt
<1>6. RingInv'
    <2>1. \A n : Serial(n)' = Serial(n)
        BY <1>1 DEF Serial
    <2>2. InRing(minMsgNum, maxMsgNum)'
        <3>. SUFFICES ASSUME NEW n \in minMsgNum..(maxMsgNum + thisTime[s]) - 1
                      PROVE  buffer[n % MAXNUMMESSAGES] = Serial(n)
            BY <1>1, <2>1 DEF InRing
        <3>1. n \in minMsgNum..maxMsgNum - 1 \/ n \in maxMsgNum..(maxMsgNum + thisTime[s]) - 1
            BY <1>2, <1>3
        <3>. QED  BY <3>1, <1>0, <1>3 DEF RingInv, InRing
    <2>3. /\ minMsgNum <= maxMsgNum + thisTime[s]
          /\ maxMsgNum + thisTime[s] < MSGNUMWRAPAROUND + MAXNUMMESSAGES
        BY <1>0, <1>2, <1>3 DEF RingInv, CountersBounded
    <2>4. maxMsgNum' - minMsgNum' <= MAXNUMMESSAGES
        BY <1>1, <1>2, <1>3
    <2>. QED  BY <2>2, <2>3, <2>4, <1>0, <1>1 DEF RingInv, CountersBounded
<1>7. /\ pc'[s] = l
      /\ \A t \in Slots \ {s} : /\ pc'[t] = pc[t] /\ written'[t] = written[t]
                                /\ thisTime'[t] = thisTime[t]
    BY <1>1, <1>2
<1>8. ASSUME NEW t \in Slots PROVE Locked(t)' /\ pc'[t] # "write"
    <2>1. Locked(t) /\ t # NoSlot
        BY <1>0, NoSlotAssumption DEF LockInv
    <2>2. CASE t = s
        BY <2>1, <2>2, <1>1, <1>4, <1>7 DEF Locked
    <2>3. CASE t # s
        BY <2>1, <2>3, <1>1, <1>3, <1>7 DEF Locked
    <2>. QED  BY <2>2, <2>3
<1>9. LockInv' /\ WriteInv'
    BY <1>8 DEF LockInv, WriteInv, Writing, Slots
<1>10. RingGrows
    BY <1>1, <1>2, <1>3 DEF RingGrows
<1>11. /\ l \notin ReadLabels /\ l \notin WriteLabels \ {"insert"}
       /\ l \notin {"check", "signalForInsert", "relock"}
       /\ toInsert' = toInsert /\ UNCHANGED <<procState, reading, knows>>
    BY <1>1, <1>4 DEF ReadLabels, WriteLabels
<1>. QED  BY <1>1, <1>3, <1>4, <1>5, <1>6, <1>7, <1>9, <1>10, <1>11, WriterStep

-----------------------------------------------------------------------------
(***************************************************************************)
(* Readers                                                                 *)
(***************************************************************************)

\* A step inside ReceiveSharedInvalidMessages, into or out of it.
LEMMA ReaderStep ==
    ASSUME IInv, NEW s \in Slots, NEW l, pc' = [pc EXCEPT ![s] = l],
           active[s], ~sendOnly[s], pc[s] \notin WriteLabels, l \notin WriteLabels,
           UNCHANGED <<ring, active, sendOnly, lastBackend, writeLock, writing, base>>,
           \A t \in Slots \ {s} :
                /\ resetState'[t] = resetState[t] /\ nextMsgNum'[t] = nextMsgNum[t]
                /\ frames'[t] = frames[t] /\ knows'[t] = knows[t] /\ pend'[t] = pend[t]
                /\ nummsgs'[t] = nummsgs[t] /\ readMax'[t] = readMax[t],
           readers' = IF l = "read" THEN readers \union {s} ELSE readers \ {s},
           CallTypes', StateTypes', l \in ReadLabels <=> Depth(s)' # 0,
           Positioned(s)', Delivered(s)', Called(s)'
    PROVE  IInv'
<1>1. /\ TypeInt /\ LockInv /\ RingInv /\ WriteInv /\ Placed(s)
      /\ pc \in [Slots -> Labels] /\ readers \subseteq Slots
    BY DEF IInv, PlaceInv, TypeInt, CallTypes, RingTypes
<1>2. pc'[s] = l /\ \A t \in Slots \ {s} : pc'[t] = pc[t]
    BY <1>1
<1>3. UNCHANGED <<toInsert, thisTime, written, sent>>
    BY DEF writing
<1>4. \A t \in Slots \ {s} : KeptSlot(t)
    BY <1>2, <1>3 DEF KeptSlot
<1>5. RingGrows
    BY <1>1 DEF RingGrows, ring, TypeInt, RingTypes
<1>6. TypeInt'
    BY <1>1, <1>3 DEF TypeInt, RingTypes, ring, Slots
<1>7. ASSUME NEW t \in Slots PROVE Locked(t)'
    <2>1. Locked(t)
        BY <1>1 DEF LockInv
    <2>2. CASE t = s
        BY <2>1, <2>2, <1>2 DEF Locked, WriteLabels
    <2>3. CASE t # s
        BY <2>1, <2>3, <1>2 DEF Locked
    <2>. QED  BY <2>2, <2>3
<1>8. LockInv'
    BY <1>7 DEF LockInv, Slots
<1>9. RingInv' /\ WriteInv'
    <2>1. \A t \in Slots : pc'[t] = "write" => pc[t] = "write"
        BY <1>2 DEF WriteLabels
    <2>. QED  BY <1>1, <1>3, <2>1, RingKept
<1>10. Placed(s)'
    BY <1>1, <1>2 DEF Placed, WriteLabels
<1>11. \A t \in Slots \ {s} : active[t] => t <= lastBackend'
    BY DEF IInv, PlaceInv, Placed
<1>. QED  BY <1>4, <1>5, <1>6, <1>8, <1>9, <1>10, <1>11, SlotStep

\* Who is inside is a member, in a call, and writes nothing.
LEMMA ReaderPlace ==
    ASSUME IInv, NEW s \in Slots, pc[s] \in ReadLabels
    PROVE  /\ active[s] /\ ~sendOnly[s] /\ s \in Members
           /\ pc[s] \notin WriteLabels /\ Depth(s) \in Nat \ {0}
           /\ Top(s) \in Frames /\ Depth(s) \in 1..Depth(s)
           /\ Positioned(s) /\ Delivered(s) /\ Called(s)
<1>1. Placed(s) /\ TypeInt /\ Positioned(s) /\ Delivered(s) /\ Called(s)
    BY DEF IInv, PlaceInv, PositionInv, DeliveryInv, CallInv
<1>2. pc[s] # "run" /\ pc[s] \notin WriteLabels
    BY DEF ReadLabels, WriteLabels
<1>3. active[s] \in BOOLEAN /\ sendOnly[s] \in BOOLEAN
    BY <1>1 DEF TypeInt, StateTypes
<1>4. active[s] /\ ~sendOnly[s] /\ Depth(s) # 0
    BY <1>1, <1>2, <1>3 DEF Placed
<1>5. Depth(s) \in Nat /\ frames[s] \in Seq(Frames)
    BY <1>1, CallTyped
<1>6. Depth(s) \in 1..Depth(s)
    BY <1>4, <1>5
<1>7. Top(s) \in Frames
    BY <1>5, <1>6, ElementOfSeq DEF Depth, Top
<1>. QED  BY <1>1, <1>2, <1>4, <1>5, <1>6, <1>7 DEF Members

\* What was fetched, and where to go on, is as it was.
LEMMA DeliveryKept ==
    ASSUME NEW s \in Slots, Delivered(s), UNCHANGED <<active, sendOnly, maxMsgNum, base>>,
           nextMsgNum'[s] = nextMsgNum[s], resetState'[s] = resetState[s],
           knows'[s] = knows[s], pend'[s] = pend[s]
    PROVE  Delivered(s)'
<1>1. Reach(s)' = Reach(s) /\ Serial(maxMsgNum)' = Serial(maxMsgNum)
      /\ Serial(nextMsgNum[s])' = Serial(nextMsgNum[s])
    BY DEF Reach, Serial
<1>. QED  BY <1>1 DEF Delivered, Members

LEMMA ReceiveKeeps ==
    ASSUME IInv, NEW s \in Slots, ReceiveSharedInvalidMessages(s)
    PROVE  IInv'
<1>. DEFINE f == [at |-> "drain", entry |-> Serial(maxMsgNum)]
<1>1. /\ \/ active[s] /\ pc[s] = "run" /\ ~sendOnly[s]
         \/ pc[s] = "function"
      /\ frames' = [frames EXCEPT ![s] = Append(@, f)]
      /\ pc' = [pc EXCEPT ![s] = "drain"]
      /\ UNCHANGED <<ring, procState, locks, writing, readMax, pend, nummsgs,
                     catchup, lxids, base, knows>>
    BY DEF ReceiveSharedInvalidMessages, Running, Goto
<1>2. /\ TypeInt /\ Placed(s) /\ Locked(s) /\ Delivered(s) /\ Positioned(s) /\ Called(s)
      /\ pc \in [Slots -> Labels] /\ frames \in [Slots -> Seq(Frames)]
    BY DEF IInv, PlaceInv, LockInv, DeliveryInv, PositionInv, CallInv, TypeInt, CallTypes
<1>3. active[s] /\ ~sendOnly[s] /\ pc[s] \notin WriteLabels
    BY <1>1, ReaderPlace DEF WriteLabels, ReadLabels
<1>4. /\ frames[s] \in Seq(Frames) /\ Depth(s) \in Nat /\ f \in Frames
      /\ Serial(maxMsgNum) \in Nat
    BY <1>2, CallTyped DEF Frames
<1>. DEFINE q == Append(frames[s], f)
<1>5. /\ q \in Seq(Frames) /\ Len(q) = Depth(s) + 1
      /\ \A i \in 1..Depth(s) : q[i] = frames[s][i]
      /\ q[Depth(s) + 1] = f
    BY <1>4, AppendProperties DEF Depth
<1>6. frames'[s] = q /\ \A t \in Slots \ {s} : frames'[t] = frames[t]
    BY <1>1, <1>2
<1>. HIDE DEF q, f
<1>7. CallTypes'
    <2>1. frames' \in [Slots -> Seq(Frames)]
        BY <1>1, <1>2, <1>5 DEF q
    <2>2. pc' \in [Slots -> Labels]
        BY <1>1, <1>2 DEF Labels, ReadLabels
    <2>. QED  BY <2>1, <2>2, <1>1, <1>2 DEF TypeInt, CallTypes, writing, Slots
<1>8. StateTypes'
    BY <1>1, <1>2 DEF TypeInt, StateTypes, procState, catchup, Slots
<1>9. Depth(s)' = Depth(s) + 1 /\ pc'[s] = "drain"
    BY <1>1, <1>2, <1>5, <1>6 DEF Depth
<1>10. UNCHANGED <<active, sendOnly, lastBackend, resetState, nextMsgNum, maxMsgNum,
                   writeLock, readers>>
    BY <1>1 DEF procState, ring, locks
<1>11. Positioned(s)'
    BY <1>1, <1>2, <1>9 DEF Positioned, Current, ring, procState
<1>12. Delivered(s)'
    BY <1>1, <1>2, <1>10, DeliveryKept
<1>13. Called(s)'
    <2>1. LastCall(s)'
        BY <1>9 DEF LastCall
    <2>2. Serial(maxMsgNum)' = Serial(maxMsgNum) /\ Reach(s)' = Reach(s)
        BY <1>1, <1>10 DEF Serial, Reach
    <2>3. ASSUME NEW i \in 1..Depth(s) PROVE CallReaches(s, i)'
        <3>1. CallReaches(s, i) /\ frames'[s][i] = frames[s][i]
            BY <1>2, <1>5, <1>6 DEF Called
        <3>2. pc[s] \notin {"get", "read"}
            BY <1>1
        <3>3. Fetched(s, i)' => Fetched(s, i)
            BY <1>9, <3>1 DEF Fetched
        <3>. QED  BY <3>1, <3>2, <3>3, <2>2, <1>1, <1>9 DEF CallReaches
    <2>4. PICK d \in Nat : d = Depth(s) + 1
        BY <1>4
    <2>5. CallReaches(s, d)'
        <3>1. frames'[s][d] = f
            BY <1>5, <1>6, <2>4
        <3>2. /\ frames'[s][d].entry = Serial(maxMsgNum) /\ frames'[s][d].at = "drain"
              /\ Serial(maxMsgNum) <= Serial(maxMsgNum)'
            BY <3>1, <2>2, <1>4 DEF f
        <3>3. ~Fetched(s, d)'
            BY <3>2, <1>9 DEF Fetched
        <3>. QED  BY <3>2, <3>3, <1>9 DEF CallReaches
    <2>6. ASSUME NEW i \in 1..Depth(s)' PROVE CallReaches(s, i)'
        <3>1. i \in 1..Depth(s) \/ i = d
            BY <1>4, <1>9, <2>4
        <3>. QED  BY <3>1, <2>3, <2>5
    <2>. QED  BY <2>1, <2>6 DEF Called
<1>14. "drain" \in ReadLabels /\ "drain" \notin WriteLabels /\ Depth(s)' # 0
    BY <1>4, <1>9 DEF ReadLabels, WriteLabels
<1>15. readers' = readers \ {s}
    BY <1>1, <1>2, <1>10 DEF Locked
<1>. QED  BY <1>1, <1>3, <1>6, <1>7, <1>8, <1>10, <1>11, <1>12, <1>13, <1>14, <1>15, ReaderStep

\* Whoever has a call under way knows his place; the parts of the invariant
\* that a step of a reader needs.
LEMMA ReaderFacts ==
    ASSUME IInv, NEW s \in Slots, pc[s] \in ReadLabels
    PROVE  /\ TypeInt /\ Placed(s) /\ Locked(s) /\ Positioned(s) /\ Delivered(s) /\ Called(s)
           /\ pc \in [Slots -> Labels] /\ frames \in [Slots -> Seq(Frames)]
           /\ pend \in [Slots -> Seq(Nat)] /\ knows \in [Slots -> Nat]
           /\ nummsgs \in [Slots -> Nat] /\ readMax \in [Slots -> Int]
           /\ nextMsgNum \in [Slots -> Int]
BY DEF IInv, PlaceInv, LockInv, PositionInv, DeliveryInv, CallInv, TypeInt, CallTypes,
       StateTypes

\* One message is taken from those fetched.
LEMMA CallInvalFunctionKeeps ==
    ASSUME IInv, NEW s \in Slots, CallInvalFunction(s)
    PROVE  /\ IInv' /\ s \in Members /\ knows[s] < Serial(maxMsgNum)
           /\ knows' = [knows EXCEPT ![s] = knows[s] + 1]
<1>1. /\ pc[s] \in {"drain", "apply"} /\ pend[s] # <<>>
      /\ knows' = [knows EXCEPT ![s] = Head(pend[s]) + 1]
      /\ pend' = [pend EXCEPT ![s] = Tail(@)]
      /\ frames' = [frames EXCEPT ![s][Depth(s)].at = pc[s]]
      /\ pc' = [pc EXCEPT ![s] = "function"]
      /\ UNCHANGED <<ring, procState, locks, writing, readMax, nummsgs, catchup, lxids,
                     base>>
    BY DEF CallInvalFunction, Goto
<1>2. pc[s] \in ReadLabels
    BY <1>1 DEF ReadLabels
<1>3. /\ TypeInt /\ Placed(s) /\ Locked(s) /\ Positioned(s) /\ Delivered(s) /\ Called(s)
      /\ pc \in [Slots -> Labels] /\ frames \in [Slots -> Seq(Frames)]
      /\ pend \in [Slots -> Seq(Nat)] /\ knows \in [Slots -> Nat]
    BY <1>2, ReaderFacts
<1>4. /\ active[s] /\ ~sendOnly[s] /\ s \in Members /\ pc[s] \notin WriteLabels
      /\ Depth(s) \in 1..Depth(s) /\ Depth(s) \in Nat \ {0}
    BY <1>2, ReaderPlace
<1>. DEFINE q == PlaceSet(frames[s], Depth(s), pc[s])
<1>5. /\ q \in Seq(Frames) /\ Len(q) = Depth(s)
      /\ \A i \in 1..Depth(s) : /\ q[i].entry = frames[s][i].entry
                                /\ q[i].at = IF i = Depth(s) THEN pc[s] ELSE frames[s][i].at
    <2>1. frames[s] \in Seq(Frames) /\ pc[s] \in {"drain", "apply", "done"}
        BY <1>1, <1>3
    <2>2. Depth(s) \in 1..Len(frames[s])
        BY <1>4 DEF Depth
    <2>. QED  BY <2>1, <2>2, FrameSet DEF Depth
<1>6. frames' = [frames EXCEPT ![s] = q]
    BY <1>1 DEF PlaceSet
<1>. HIDE DEF q
<1>7. frames'[s] = q /\ Depth(s)' = Depth(s)
      /\ \A t \in Slots \ {s} : frames'[t] = frames[t]
    BY <1>3, <1>5, <1>6 DEF Depth
\* What becomes of the messages.
<1>8. /\ pend[s] \in Seq(Nat) /\ Len(pend[s]) \in Nat \ {0}
      /\ Head(pend[s]) = pend[s][1] /\ Tail(pend[s]) \in Seq(Nat)
      /\ Len(Tail(pend[s])) = Len(pend[s]) - 1
      /\ \A i \in 1..Len(pend[s]) - 1 : Tail(pend[s])[i] = pend[s][i + 1]
    <2>1. pend[s] \in Seq(Nat)
        BY <1>3
    <2>. QED  BY <2>1, <1>1, HeadTailProperties, EmptySeq
<1>9. knows[s] \in Nat /\ Reach(s) \in Nat /\ Serial(maxMsgNum) \in Nat
      /\ Serial(nextMsgNum[s]) \in Int
    BY <1>3, CallTyped, SMTT(30) DEF Serial, TypeInt, RingTypes
<1>10. Head(pend[s]) + 1 = knows[s] + 1
    <2>1. 1 \in 1..Len(pend[s])
        BY <1>8
    <2>2. pend[s][1] = knows[s] + 1 - 1
        BY <2>1, <1>3, <1>4 DEF Delivered
    <2>. QED  BY <2>2, <1>8, <1>9
<1>11. /\ knows' = [knows EXCEPT ![s] = knows[s] + 1]
       /\ knows'[s] = knows[s] + 1 /\ pend'[s] = Tail(pend[s])
       /\ \A t \in Slots \ {s} : knows'[t] = knows[t] /\ pend'[t] = pend[t]
    BY <1>1, <1>3, <1>10
<1>12. Reach(s)' = Reach(s)
    BY <1>8, <1>9, <1>11 DEF Reach
<1>13. knows[s] < Serial(maxMsgNum)
    BY <1>3, <1>4, <1>8, <1>9 DEF Delivered, Reach
<1>14. CallTypes'
    <2>1. frames' \in [Slots -> Seq(Frames)]
        BY <1>3, <1>5, <1>6
    <2>2. pc' \in [Slots -> Labels]
        BY <1>1, <1>3 DEF Labels, ReadLabels
    <2>3. knows' \in [Slots -> Nat] /\ pend' \in [Slots -> Seq(Nat)]
        BY <1>1, <1>3, <1>8, <1>9, <1>11
    <2>. QED  BY <2>1, <2>2, <2>3, <1>1, <1>3 DEF TypeInt, CallTypes, writing, Slots
<1>15. StateTypes'
    BY <1>1, <1>3 DEF TypeInt, StateTypes, procState, catchup, Slots
<1>16. UNCHANGED <<active, sendOnly, lastBackend, resetState, nextMsgNum, maxMsgNum,
                   writeLock, readers>> /\ pc'[s] = "function"
    BY <1>1, <1>3 DEF procState, ring, locks
<1>17. Positioned(s)'
    BY <1>1, <1>3, <1>16 DEF Positioned, Current, ring, procState
<1>18. Delivered(s)'
    <2>1. Serial(maxMsgNum)' = Serial(maxMsgNum) /\ Serial(nextMsgNum[s])' = Serial(nextMsgNum[s])
        BY <1>1, <1>16 DEF Serial
    <2>2. ASSUME NEW i \in 1..Len(Tail(pend[s])) PROVE pend'[s][i] = knows'[s] + i - 1
        <3>1. i \in 1..Len(pend[s]) - 1 /\ i + 1 \in 1..Len(pend[s]) /\ i \in Int
            BY <1>8
        <3>2. Tail(pend[s])[i] = knows[s] + (i + 1) - 1
            BY <3>1, <1>3, <1>4, <1>8 DEF Delivered
        <3>. QED  BY <3>1, <3>2, <1>9, <1>11
    <2>. QED  BY <2>1, <2>2, <1>3, <1>4, <1>11, <1>12, <1>16 DEF Delivered, Members
<1>19. Called(s)'
    <2>1. LastCall(s)'
        BY <1>16 DEF LastCall
    <2>2. Serial(maxMsgNum)' = Serial(maxMsgNum)
        BY <1>1, <1>16 DEF Serial
    <2>3. ASSUME NEW i \in 1..Depth(s) PROVE CallReaches(s, i)'
        <3>1. CallReaches(s, i) /\ frames[s][i].entry \in Nat
            BY <1>3, CallTyped DEF Called
        <3>2. /\ frames'[s][i].entry = frames[s][i].entry
              /\ frames'[s][i].at = IF i = Depth(s) THEN pc[s] ELSE frames[s][i].at
            BY <1>5, <1>7
        <3>3. Fetched(s, i)' => Fetched(s, i)
            BY <1>7, <1>16, <3>2 DEF Fetched
        <3>4. frames'[s][i].at = "done" => frames[s][i].at = "done"
            BY <1>1, <3>2
        <3>. QED  BY <3>1, <3>2, <3>3, <3>4, <2>2, <1>1, <1>9, <1>11, <1>12, <1>16
                  DEF CallReaches
    <2>. QED  BY <2>1, <2>3, <1>7 DEF Called
<1>20. "function" \in ReadLabels /\ "function" \notin WriteLabels /\ Depth(s)' # 0
    BY <1>4, <1>7 DEF ReadLabels, WriteLabels
<1>21. readers' = readers \ {s}
    BY <1>1, <1>3, <1>16 DEF Locked
<1>22. IInv'
    BY <1>1, <1>4, <1>7, <1>11, <1>14, <1>15, <1>16, <1>17, <1>18, <1>19, <1>20, <1>21,
       ReaderStep
<1>. QED  BY <1>4, <1>11, <1>13, <1>22

\* A step between the places of ReceiveSharedInvalidMessages: nothing is
\* fetched and nothing processed.
LEMMA MoveStep ==
    ASSUME IInv, NEW s \in Slots, pc[s] \in ReadLabels,
           NEW l \in Labels, pc' = [pc EXCEPT ![s] = l], l \notin WriteLabels,
           UNCHANGED <<ring, active, sendOnly, lastBackend, resetState, nextMsgNum,
                       writeLock, writing, base, pend, knows>>,
           nummsgs' \in [Slots -> Nat], readMax' \in [Slots -> Int],
           frames' \in [Slots -> Seq(Frames)],
           \A t \in Slots \ {s} : /\ frames'[t] = frames[t] /\ nummsgs'[t] = nummsgs[t]
                                  /\ readMax'[t] = readMax[t],
           readers' = IF l = "read" THEN readers \union {s} ELSE readers \ {s},
           StateTypes', l \in ReadLabels <=> Depth(s)' # 0,
           l \in {"get", "read"} => pend[s] = <<>>,
           l = "read" => ~resetState[s] /\ readMax'[s] <= maxMsgNum,
           Called(s)'
    PROVE  IInv'
<1>1. /\ TypeInt /\ Placed(s) /\ Locked(s) /\ Positioned(s) /\ Delivered(s) /\ Called(s)
      /\ pc \in [Slots -> Labels]
      /\ pend \in [Slots -> Seq(Nat)] /\ knows \in [Slots -> Nat]
    BY ReaderFacts
<1>2. active[s] /\ ~sendOnly[s] /\ s \in Members /\ pc[s] \notin WriteLabels
    BY ReaderPlace
<1>3. pc'[s] = l /\ UNCHANGED <<minMsgNum, maxMsgNum>>
    BY <1>1 DEF ring
<1>4. CallTypes'
    <2>1. pc' \in [Slots -> Labels]
        BY <1>1
    <2>. QED  BY <2>1, <1>1 DEF TypeInt, CallTypes, writing, Slots, Labels, ReadLabels,
                  WriteLabels, Frames
<1>5. Positioned(s)'
    <2>1. pend[s] = <<>> => Len(pend[s]) <= MAXINVALMSGS
        BY RingSize
    <2>. QED  BY <2>1, <1>1, <1>3 DEF Positioned, Current
<1>6. Delivered(s)'
    BY <1>1, <1>3, DeliveryKept
<1>. QED  BY <1>2, <1>4, <1>5, <1>6, ReaderStep

\* The calls below the last one stay as they are.
LEMMA CallsMove ==
    ASSUME IInv, NEW s \in Slots, pc[s] \in ReadLabels, pc[s] \notin {"get", "read"},
           pc'[s] \notin {"read"}, UNCHANGED <<maxMsgNum, base, pend, knows>>,
           frames'[s] = frames[s],
           nummsgs'[s] = nummsgs[s] \/ pc'[s] = "get",
           pc'[s] = "apply" => Top(s).at = "apply" \/ pc[s] = "apply",
           LastCall(s)'
    PROVE  Called(s)'
<1>1. Called(s) /\ TypeInt
    BY ReaderFacts
<1>2. Depth(s)' = Depth(s) /\ Reach(s)' = Reach(s) /\ Serial(maxMsgNum)' = Serial(maxMsgNum)
    BY DEF Depth, Reach, Serial
<1>3. ASSUME NEW i \in 1..Depth(s) PROVE CallReaches(s, i)'
    <2>1. CallReaches(s, i)
        BY <1>1 DEF Called
    <2>2. Fetched(s, i)' => Fetched(s, i)
        BY <1>2 DEF Fetched, Top
    <2>. QED  BY <2>1, <2>2, <1>2 DEF CallReaches
<1>. QED  BY <1>2, <1>3 DEF Called

LEMMA FunctionReturnsKeeps ==
    ASSUME IInv, NEW s \in Slots, FunctionReturns(s)
    PROVE  IInv'
<1>. DEFINE l == Top(s).at
<1>1. /\ pc[s] = "function" /\ pc' = [pc EXCEPT ![s] = l]
      /\ UNCHANGED <<ring, procState, locks, writing, reading, catchup, lxids,
                     base, knows>>
    BY DEF FunctionReturns, Goto
<1>2. pc[s] \in ReadLabels
    BY <1>1 DEF ReadLabels
<1>3. /\ TypeInt /\ Placed(s) /\ Locked(s) /\ Called(s) /\ pc \in [Slots -> Labels]
      /\ nummsgs \in [Slots -> Nat] /\ readMax \in [Slots -> Int]
      /\ frames \in [Slots -> Seq(Frames)]
    BY <1>2, ReaderFacts
<1>4. l \in {"drain", "apply", "done"} /\ Depth(s) # 0
    BY <1>2, ReaderPlace DEF Frames
<1>. HIDE DEF l
<1>5. l \in Labels /\ l \in ReadLabels /\ l \notin WriteLabels /\ l \notin {"get", "read"}
    BY <1>4 DEF Labels, ReadLabels, WriteLabels
<1>6. UNCHANGED <<readMax, pend, nummsgs, frames, writeLock, readers, maxMsgNum>> /\ pc'[s] = l
    BY <1>1, <1>3 DEF reading, locks, ring
<1>7. StateTypes'
    BY <1>1, <1>3 DEF TypeInt, StateTypes, procState, catchup, Slots
<1>8. Depth(s)' = Depth(s) /\ Top(s)' = Top(s)
    BY <1>6 DEF Depth, Top
<1>9. Called(s)'
    <2>1. LastCall(s)'
        BY <1>4, <1>5, <1>6, <1>8 DEF LastCall, l
    <2>. QED  BY <2>1, <1>1, <1>2, <1>5, <1>6, CallsMove DEF l
<1>10. readers' = readers \ {s}
    BY <1>1, <1>3, <1>6 DEF Locked
<1>. QED  BY <1>1, <1>2, <1>3, <1>4, <1>5, <1>6, <1>7, <1>8, <1>9, <1>10, MoveStep
          DEF procState

LEMMA FunctionFailsKeeps ==
    ASSUME IInv, NEW s \in Slots, FunctionFails(s)
    PROVE  IInv'
<1>1. /\ pc[s] = "function" /\ pc' = [pc EXCEPT ![s] = "run"]
      /\ frames' = [frames EXCEPT ![s] = <<>>]
      /\ UNCHANGED <<ring, procState, locks, writing, readMax, pend, nummsgs,
                     catchup, lxids, base, knows>>
    BY DEF FunctionFails, Goto
<1>2. pc[s] \in ReadLabels
    BY <1>1 DEF ReadLabels
<1>3. /\ TypeInt /\ Placed(s) /\ Locked(s) /\ Called(s) /\ pc \in [Slots -> Labels]
      /\ nummsgs \in [Slots -> Nat] /\ readMax \in [Slots -> Int]
      /\ frames \in [Slots -> Seq(Frames)]
    BY <1>2, ReaderFacts
<1>4. "run" \in Labels /\ "run" \notin ReadLabels /\ "run" \notin WriteLabels
    BY DEF Labels, ReadLabels, WriteLabels
<1>5. UNCHANGED <<writeLock, readers, maxMsgNum>> /\ frames'[s] = <<>>
      /\ \A t \in Slots \ {s} : frames'[t] = frames[t]
    BY <1>1, <1>3 DEF locks, ring
<1>6. StateTypes'
    BY <1>1, <1>3 DEF TypeInt, StateTypes, procState, catchup, Slots
<1>7. Depth(s)' = 0
    BY <1>5 DEF Depth
<1>8. Called(s)'
    BY <1>7 DEF Called, LastCall
<1>9. readers' = readers \ {s}
    BY <1>1, <1>3, <1>5 DEF Locked
<1>10. frames' \in [Slots -> Seq(Frames)]
    BY <1>1, <1>3, EmptySeq
<1>. QED  BY <1>1, <1>2, <1>3, <1>4, <1>5, <1>6, <1>7, <1>8, <1>9, <1>10, MoveStep
          DEF procState

LEMMA FetchKeeps ==
    ASSUME IInv, NEW s \in Slots, Fetch(s)
    PROVE  IInv'
<1>1. /\ pc[s] \in {"drain", "apply"} /\ pend[s] = <<>>
      /\ pc' = [pc EXCEPT ![s] = "get"] /\ nummsgs' = [nummsgs EXCEPT ![s] = 0]
      /\ UNCHANGED <<ring, procState, locks, writing, readMax, pend, frames,
                     catchup, lxids, base, knows>>
    BY DEF Fetch, Goto
<1>2. pc[s] \in ReadLabels
    BY <1>1 DEF ReadLabels
<1>3. /\ TypeInt /\ Placed(s) /\ Locked(s) /\ Called(s) /\ pc \in [Slots -> Labels]
      /\ nummsgs \in [Slots -> Nat] /\ readMax \in [Slots -> Int]
      /\ frames \in [Slots -> Seq(Frames)]
    BY <1>2, ReaderFacts
<1>4. "get" \in Labels /\ "get" \in ReadLabels /\ "get" \notin WriteLabels /\ Depth(s) # 0
    BY <1>2, ReaderPlace DEF Labels, ReadLabels, WriteLabels
<1>5. /\ UNCHANGED <<writeLock, readers, maxMsgNum>> /\ pc'[s] = "get"
      /\ nummsgs' \in [Slots -> Nat]
      /\ \A t \in Slots \ {s} : nummsgs'[t] = nummsgs[t]
    BY <1>1, <1>3 DEF locks, ring
<1>6. StateTypes'
    BY <1>1, <1>3 DEF TypeInt, StateTypes, procState, catchup, Slots
<1>7. Depth(s)' = Depth(s)
    BY <1>1 DEF Depth
<1>8. Called(s)'
    <2>1. LastCall(s)'
        BY <1>5 DEF LastCall
    <2>. QED  BY <2>1, <1>1, <1>2, <1>5, CallsMove
<1>9. readers' = readers \ {s}
    BY <1>1, <1>3, <1>5 DEF Locked
<1>. QED  BY <1>1, <1>2, <1>3, <1>4, <1>5, <1>6, <1>7, <1>8, <1>9, MoveStep
          DEF procState

\* Who leaves the loop has caught up with what was queued when it came.
LEMMA FinishKeeps ==
    ASSUME IInv, NEW s \in Slots, Finish(s)
    PROVE  IInv'
<1>. DEFINE l == IF occurred[s] THEN "passOn" ELSE "return"
<1>1. /\ \/ pc[s] = "apply" /\ CaughtUp(s)
         \/ pc[s] = "done"
      /\ occurred' = [occurred EXCEPT ![s] = FALSE]
      /\ pc' = [pc EXCEPT ![s] = l]
      /\ UNCHANGED <<ring, procState, locks, writing, reading, signalTo,
                     procSignal, lxids, base, knows>>
    BY DEF Finish, Goto
<1>2. pc[s] \in ReadLabels
    BY <1>1 DEF ReadLabels
<1>3. /\ TypeInt /\ Placed(s) /\ Locked(s) /\ Called(s) /\ pc \in [Slots -> Labels]
      /\ nummsgs \in [Slots -> Nat] /\ readMax \in [Slots -> Int]
      /\ frames \in [Slots -> Seq(Frames)]
    BY <1>2, ReaderFacts
<1>4. l \in {"passOn", "return"} /\ Depth(s) # 0 /\ Depth(s) \in 1..Depth(s)
    BY <1>2, ReaderPlace
<1>. HIDE DEF l
<1>5. l \in Labels /\ l \in ReadLabels /\ l \notin WriteLabels
    BY <1>4 DEF Labels, ReadLabels, WriteLabels
<1>6. UNCHANGED <<readMax, pend, nummsgs, frames, writeLock, readers, maxMsgNum>> /\ pc'[s] = l
    BY <1>1, <1>3 DEF reading, locks, ring
<1>7. StateTypes'
    BY <1>1, <1>3 DEF TypeInt, StateTypes, procState, Slots
<1>8. Depth(s)' = Depth(s) /\ Top(s)' = Top(s)
    BY <1>6 DEF Depth, Top
<1>9. Top(s).entry <= knows[s]
    <2>1. CallReaches(s, Depth(s)) /\ LastCall(s)
        BY <1>3, <1>4 DEF Called
    <2>2. CASE pc[s] = "apply" /\ CaughtUp(s)
        <3>1. Reach(s) = knows[s]
            BY <2>2, <1>3, CallTyped DEF CaughtUp, Reach
        <3>. QED  BY <3>1, <2>1, <2>2 DEF CallReaches, Fetched, CaughtUp, Top
    <2>3. CASE pc[s] = "done"
        BY <2>1, <2>3, <1>4 DEF LastCall, CallReaches, Top
    <2>. QED  BY <1>1, <2>2, <2>3
<1>10. Called(s)'
    <2>1. LastCall(s)'
        BY <1>1, <1>4, <1>6, <1>8, <1>9 DEF LastCall
    <2>. QED  BY <2>1, <1>1, <1>2, <1>4, <1>6, CallsMove
<1>11. readers' = readers \ {s}
    BY <1>1, <1>3, <1>6 DEF Locked
<1>. QED  BY <1>1, <1>2, <1>3, <1>4, <1>5, <1>6, <1>7, <1>8, <1>10, <1>11, MoveStep
          DEF procState

LEMMA SignalKeeps ==
    ASSUME IInv, NEW s \in Slots, Signal(s)
    PROVE  IInv'
<1>1. /\ pc[s] = "signal" /\ pc' = [pc EXCEPT ![s] = "return"]
      /\ procSignal' = [t \in Slots |-> procSignal[t] \/ t = signalTo[s]]
      /\ signalTo' = [signalTo EXCEPT ![s] = NoSlot]
      /\ UNCHANGED <<ring, procState, locks, writing, reading, occurred, lxids,
                     base, knows>>
    BY DEF Signal, SendProcSignal, Goto
<1>2. pc[s] \in ReadLabels
    BY <1>1 DEF ReadLabels
<1>3. /\ TypeInt /\ Placed(s) /\ Locked(s) /\ Called(s) /\ pc \in [Slots -> Labels]
      /\ nummsgs \in [Slots -> Nat] /\ readMax \in [Slots -> Int]
      /\ frames \in [Slots -> Seq(Frames)]
    BY <1>2, ReaderFacts
<1>4. /\ "return" \in Labels /\ "return" \in ReadLabels /\ "return" \notin WriteLabels
      /\ Depth(s) # 0
    BY <1>2, ReaderPlace DEF Labels, ReadLabels, WriteLabels
<1>5. /\ UNCHANGED <<readMax, pend, nummsgs, frames, writeLock, readers, maxMsgNum>>
      /\ pc'[s] = "return"
    BY <1>1, <1>3 DEF reading, locks, ring
<1>6. StateTypes'
    BY <1>1, <1>3 DEF TypeInt, StateTypes, procState, Slots
<1>7. Depth(s)' = Depth(s) /\ Top(s)' = Top(s)
    BY <1>5 DEF Depth, Top
<1>8. Called(s)'
    <2>1. LastCall(s)'
        BY <1>1, <1>3, <1>5, <1>7 DEF Called, LastCall
    <2>. QED  BY <2>1, <1>1, <1>2, <1>5, CallsMove
<1>9. readers' = readers \ {s}
    BY <1>1, <1>3, <1>5 DEF Locked
<1>. QED  BY <1>1, <1>2, <1>3, <1>4, <1>5, <1>6, <1>7, <1>8, <1>9, MoveStep
          DEF procState

LEMMA ReturnKeeps ==
    ASSUME IInv, NEW s \in Slots, Return(s)
    PROVE  IInv'
<1>. DEFINE l == IF Depth(s) = 1 THEN "run" ELSE "function"
            q == Front(frames[s])
<1>1. /\ pc[s] = "return" /\ pc' = [pc EXCEPT ![s] = l]
      /\ frames' = [frames EXCEPT ![s] = q]
      /\ UNCHANGED <<ring, procState, locks, writing, readMax, pend, nummsgs,
                     catchup, lxids, base, knows>>
    BY DEF Return, Goto
<1>2. pc[s] \in ReadLabels
    BY <1>1 DEF ReadLabels
<1>3. /\ TypeInt /\ Placed(s) /\ Locked(s) /\ Called(s) /\ pc \in [Slots -> Labels]
      /\ nummsgs \in [Slots -> Nat] /\ readMax \in [Slots -> Int]
      /\ frames \in [Slots -> Seq(Frames)]
    BY <1>2, ReaderFacts
<1>4. Depth(s) \in Nat \ {0} /\ frames[s] \in Seq(Frames)
    BY <1>2, <1>3, ReaderPlace
<1>5. /\ q \in Seq(Frames) /\ Len(q) = Depth(s) - 1
      /\ \A i \in 1..Depth(s) - 1 : q[i] = frames[s][i]
    BY <1>4 DEF Front, Depth
<1>6. /\ l \in {"run", "function"} /\ l \in Labels /\ l \notin WriteLabels
      /\ l \in ReadLabels <=> Depth(s) # 1
    BY DEF Labels, ReadLabels, WriteLabels
<1>. HIDE DEF l, q
<1>7. /\ UNCHANGED <<writeLock, readers, maxMsgNum>> /\ pc'[s] = l /\ frames'[s] = q
      /\ \A t \in Slots \ {s} : frames'[t] = frames[t]
    BY <1>1, <1>3 DEF locks, ring
<1>8. StateTypes'
    BY <1>1, <1>3 DEF TypeInt, StateTypes, procState, catchup, Slots
<1>9. Depth(s)' = Depth(s) - 1
    BY <1>5, <1>7 DEF Depth
<1>10. Called(s)'
    <2>1. LastCall(s)'
        BY <1>6, <1>7 DEF LastCall
    <2>2. Serial(maxMsgNum)' = Serial(maxMsgNum) /\ Reach(s)' = Reach(s)
        BY <1>1, <1>7 DEF Serial, Reach
    <2>3. ASSUME NEW i \in 1..Depth(s) - 1 PROVE CallReaches(s, i)'
        <3>0. i \in 1..Depth(s)
            BY <1>4
        <3>1. CallReaches(s, i) /\ frames'[s][i] = frames[s][i]
            BY <3>0, <1>3, <1>5, <1>7 DEF Called
        <3>2. Fetched(s, i)' => Fetched(s, i)
            BY <3>1, <1>6, <1>7 DEF Fetched
        <3>. QED  BY <3>1, <3>2, <2>2, <1>1, <1>6, <1>7 DEF CallReaches
    <2>. QED  BY <2>1, <2>3, <1>9 DEF Called
<1>11. frames' \in [Slots -> Seq(Frames)]
    BY <1>1, <1>3, <1>5
<1>12. l \in ReadLabels <=> Depth(s)' # 0
    BY <1>4, <1>6, <1>9
<1>13. readers' = readers \ {s}
    BY <1>1, <1>3, <1>7 DEF Locked
<1>. QED  BY <1>1, <1>2, <1>3, <1>6, <1>7, <1>8, <1>10, <1>11, <1>12, <1>13, MoveStep
          DEF procState

LEMMA GetBeginKeeps ==
    ASSUME IInv, NEW s \in Slots, GetBegin(s)
    PROVE  IInv'
<1>1. /\ pc[s] = "get" /\ ~resetState[s] /\ readers' = readers \union {s}
      /\ readMax' = [readMax EXCEPT ![s] = maxMsgNum]
      /\ pc' = [pc EXCEPT ![s] = "read"]
      /\ UNCHANGED <<ring, procState, writeLock, writing, pend, nummsgs, frames,
                     catchup, lxids, base, knows>>
    BY DEF GetBegin, Goto
<1>2. pc[s] \in ReadLabels
    BY <1>1 DEF ReadLabels
<1>3. /\ TypeInt /\ Placed(s) /\ Locked(s) /\ Called(s) /\ Positioned(s)
      /\ pc \in [Slots -> Labels] /\ maxMsgNum \in Nat
      /\ nummsgs \in [Slots -> Nat] /\ readMax \in [Slots -> Int]
      /\ frames \in [Slots -> Seq(Frames)]
    BY <1>2, ReaderFacts DEF TypeInt, RingTypes
<1>4. "read" \in Labels /\ "read" \in ReadLabels /\ "read" \notin WriteLabels /\ Depth(s) # 0
    BY <1>2, ReaderPlace DEF Labels, ReadLabels, WriteLabels
<1>5. /\ UNCHANGED maxMsgNum /\ pc'[s] = "read" /\ readMax'[s] = maxMsgNum
      /\ readMax' \in [Slots -> Int]
      /\ \A t \in Slots \ {s} : readMax'[t] = readMax[t]
    BY <1>1, <1>3 DEF ring
<1>6. StateTypes'
    BY <1>1, <1>3 DEF TypeInt, StateTypes, procState, catchup, Slots
<1>7. Depth(s)' = Depth(s)
    BY <1>1 DEF Depth
<1>8. Called(s)'
    <2>1. LastCall(s)'
        BY <1>5 DEF LastCall
    <2>2. /\ Serial(maxMsgNum)' = Serial(maxMsgNum)
          /\ Serial(readMax[s])' = Serial(maxMsgNum)
        BY <1>1, <1>5 DEF Serial
    <2>3. ASSUME NEW i \in 1..Depth(s) PROVE CallReaches(s, i)'
        <3>1. CallReaches(s, i)
            BY <1>3 DEF Called
        <3>. QED  BY <3>1, <2>2, <1>1, <1>5 DEF CallReaches
    <2>. QED  BY <2>1, <2>3, <1>7 DEF Called
<1>9. pend[s] = <<>> /\ maxMsgNum <= maxMsgNum
    BY <1>1, <1>3 DEF Positioned
<1>. QED  BY <1>1, <1>2, <1>3, <1>4, <1>5, <1>6, <1>7, <1>8, <1>9, MoveStep
          DEF procState

\* A fetch that has not filled the array has got all messages up to the
\* newest one it saw.
LEMMA GetEndKeeps ==
    ASSUME IInv, NEW s \in Slots, GetEnd(s)
    PROVE  IInv'
<1>1. /\ pc[s] = "read" /\ ~More(s)
      /\ signaled' = [signaled EXCEPT ![s] = SignaledAfterGet(s)]
      /\ readers' = readers \ {s}
      /\ nummsgs' = [nummsgs EXCEPT ![s] = Len(pend[s])]
      /\ readMax' = [readMax EXCEPT ![s] = 0]
      /\ pc' = [pc EXCEPT ![s] = "apply"]
      /\ UNCHANGED <<ring, active, nextMsgNum, resetState, sendOnly, lastBackend,
                     writeLock, writing, pend, frames, catchup, lxids, base, knows>>
    BY DEF GetEnd, Goto
<1>2. pc[s] \in ReadLabels
    BY <1>1 DEF ReadLabels
<1>3. /\ TypeInt /\ Placed(s) /\ Locked(s) /\ Called(s) /\ Positioned(s) /\ Delivered(s)
      /\ pc \in [Slots -> Labels] /\ s \in Members
      /\ nummsgs \in [Slots -> Nat] /\ readMax \in [Slots -> Int]
      /\ frames \in [Slots -> Seq(Frames)]
    BY <1>2, ReaderFacts, ReaderPlace
<1>4. "apply" \in Labels /\ "apply" \in ReadLabels /\ "apply" \notin WriteLabels /\ Depth(s) # 0
    BY <1>2, ReaderPlace DEF Labels, ReadLabels, WriteLabels
<1>5. Len(pend[s]) \in Nat
    BY <1>3, CallTyped
<1>6. /\ UNCHANGED maxMsgNum /\ pc'[s] = "apply" /\ nummsgs'[s] = Len(pend[s])
      /\ readMax' \in [Slots -> Int] /\ nummsgs' \in [Slots -> Nat]
      /\ \A t \in Slots \ {s} : readMax'[t] = readMax[t] /\ nummsgs'[t] = nummsgs[t]
    BY <1>1, <1>3, <1>5 DEF ring
<1>7. StateTypes'
    <2>1. SignaledAfterGet(s) \in BOOLEAN
        BY DEF SignaledAfterGet
    <2>. QED  BY <2>1, <1>1, <1>3 DEF TypeInt, StateTypes, catchup, Slots
<1>8. Depth(s)' = Depth(s)
    BY <1>1 DEF Depth
<1>9. Len(pend[s]) # MAXINVALMSGS => Serial(readMax[s]) <= Reach(s)
    <2>. SUFFICES ASSUME Len(pend[s]) # MAXINVALMSGS PROVE Serial(readMax[s]) <= Reach(s)
        OBVIOUS
    <2>1. Len(pend[s]) <= MAXINVALMSGS /\ ~resetState[s]
        BY <1>1, <1>3 DEF Positioned
    <2>2. Len(pend[s]) < MAXINVALMSGS
        BY <2>1, <1>5, RingSize
    <2>3. ~(nextMsgNum[s] < readMax[s])
        BY <2>2, <1>1 DEF More
    <2>4. Serial(nextMsgNum[s]) = Reach(s)
        BY <2>1, <1>3 DEF Delivered
    <2>5. base \in Nat /\ nextMsgNum[s] \in Int /\ readMax[s] \in Int
        BY <1>3 DEF TypeInt, RingTypes, StateTypes
    <2>. QED  BY <2>3, <2>4, <2>5 DEF Serial
<1>10. Called(s)'
    <2>1. LastCall(s)'
        BY <1>6 DEF LastCall
    <2>2. Serial(maxMsgNum)' = Serial(maxMsgNum) /\ Reach(s)' = Reach(s)
        BY <1>1, <1>6 DEF Serial, Reach
    <2>3. ASSUME NEW i \in 1..Depth(s) PROVE CallReaches(s, i)'
        <3>1. CallReaches(s, i) /\ frames[s][i].entry \in Nat
            BY <1>3, CallTyped DEF Called
        <3>2. frames[s][i].entry <= Serial(readMax[s])
            BY <3>1, <1>1 DEF CallReaches
        <3>3. Serial(readMax[s]) \in Int /\ Reach(s) \in Nat
            BY <1>3, CallTyped DEF Serial, TypeInt, RingTypes
        <3>4. nummsgs'[s] # MAXINVALMSGS => frames[s][i].entry <= Reach(s)
            BY <3>1, <3>2, <3>3, <1>6, <1>9
        <3>. QED  BY <3>1, <3>4, <2>2, <1>1, <1>6 DEF CallReaches
    <2>. QED  BY <2>1, <2>3, <1>8 DEF Called
<1>. QED  BY <1>1, <1>2, <1>3, <1>4, <1>6, <1>7, <1>8, <1>10, MoveStep

\* The next unread message is in the ring, and it is the one that follows
\* those fetched before.
LEMMA ReadMessageKeeps ==
    ASSUME IInv, NEW s \in Slots, ReadMessage(s)
    PROVE  IInv'
<1>. DEFINE m == buffer[nextMsgNum[s] % MAXNUMMESSAGES]
            q == Append(pend[s], m)
<1>1. /\ pc[s] = "read" /\ More(s)
      /\ pend' = [pend EXCEPT ![s] = q]
      /\ nextMsgNum' = [nextMsgNum EXCEPT ![s] = nextMsgNum[s] + 1]
      /\ UNCHANGED <<ring, active, resetState, signaled, sendOnly, lastBackend,
                     locks, pc, writing, readMax, nummsgs, frames, catchup, lxids,
                     base, knows>>
    BY DEF ReadMessage
<1>2. pc[s] \in ReadLabels
    BY <1>1 DEF ReadLabels
<1>3. /\ TypeInt /\ Placed(s) /\ Locked(s) /\ Called(s) /\ Positioned(s) /\ Delivered(s)
      /\ RingInv /\ s \in Members
      /\ pc \in [Slots -> Labels] /\ pend \in [Slots -> Seq(Nat)]
      /\ nextMsgNum \in [Slots -> Int]
    BY <1>2, ReaderFacts, ReaderPlace DEF IInv
<1>4. /\ pend[s] \in Seq(Nat) /\ Len(pend[s]) \in Nat /\ knows[s] \in Nat
      /\ Reach(s) \in Nat /\ Serial(maxMsgNum) \in Nat
      /\ minMsgNum \in Nat /\ maxMsgNum \in Nat /\ base \in Nat
      /\ nextMsgNum[s] \in Int /\ readMax[s] \in Int
    BY <1>3, CallTyped DEF TypeInt, RingTypes
<1>5. /\ ~resetState[s] /\ s \in Current /\ nextMsgNum[s] < readMax[s]
      /\ readMax[s] <= maxMsgNum /\ minMsgNum <= nextMsgNum[s]
      /\ Len(pend[s]) < MAXINVALMSGS
    BY <1>1, <1>3 DEF Positioned, More, Members, Current
<1>6. m = Reach(s)
    <2>1. nextMsgNum[s] \in minMsgNum..maxMsgNum - 1
        BY <1>4, <1>5
    <2>2. m = Serial(nextMsgNum[s])
        BY <2>1, <1>3 DEF RingInv, InRing
    <2>. QED  BY <2>2, <1>3, <1>5 DEF Delivered
<1>. HIDE DEF m
<1>7. /\ q \in Seq(Nat) /\ Len(q) = Len(pend[s]) + 1
      /\ \A i \in 1..Len(pend[s]) : q[i] = pend[s][i]
      /\ q[Len(pend[s]) + 1] = m
    BY <1>4, <1>6, AppendProperties
<1>. HIDE DEF q
<1>8. /\ pend'[s] = q /\ nextMsgNum'[s] = nextMsgNum[s] + 1
      /\ \A t \in Slots \ {s} : pend'[t] = pend[t] /\ nextMsgNum'[t] = nextMsgNum[t]
      /\ UNCHANGED <<minMsgNum, maxMsgNum, writeLock, readers, frames, nummsgs, readMax>>
      /\ pc'[s] = "read"
    BY <1>1, <1>3 DEF ring, locks
<1>9. Reach(s)' = Reach(s) + 1 /\ Serial(nextMsgNum[s])' = Serial(nextMsgNum[s]) + 1
      /\ Serial(maxMsgNum)' = Serial(maxMsgNum)
    <2>1. knows'[s] = knows[s] /\ base' = base
        BY <1>1
    <2>2. Reach(s)' = knows[s] + Len(q)
        BY <2>1, <1>8 DEF Reach
    <2>3. Reach(s)' = Reach(s) + 1
        <3>1. knows[s] + (Len(pend[s]) + 1) = (knows[s] + Len(pend[s])) + 1
            BY <1>4
        <3>. QED  BY <2>2, <3>1, <1>7 DEF Reach
    <2>4. nextMsgNum'[s] = nextMsgNum[s] + 1 /\ nextMsgNum[s] \in Int /\ base \in Nat
        BY <1>4, <1>8
    <2>5. Serial(nextMsgNum[s])' = Serial(nextMsgNum[s]) + 1
        BY <2>1, <2>4 DEF Serial
    <2>6. Serial(maxMsgNum)' = Serial(maxMsgNum)
        BY <2>1, <1>8 DEF Serial
    <2>. QED  BY <2>3, <2>5, <2>6
<1>10. CallTypes' /\ StateTypes'
    <2>1. pend' \in [Slots -> Seq(Nat)] /\ nextMsgNum' \in [Slots -> Int]
        BY <1>1, <1>3, <1>4, <1>7
    <2>2. CallTypes'
        BY <2>1, <1>1, <1>3, <1>8 DEF TypeInt, CallTypes, writing, Slots
    <2>3. StateTypes'
        BY <2>1, <1>1, <1>3 DEF TypeInt, StateTypes, catchup, Slots
    <2>. QED  BY <2>2, <2>3
<1>11. Positioned(s)'
    <2>1. /\ minMsgNum <= nextMsgNum[s] + 1 /\ nextMsgNum[s] + 1 <= maxMsgNum
          /\ Len(pend[s]) + 1 <= MAXINVALMSGS
        BY <1>4, <1>5, RingSize, SMTT(30)
    <2>. QED  BY <2>1, <1>1, <1>5, <1>7, <1>8 DEF Positioned
<1>12. Delivered(s)'
    <2>1. Serial(nextMsgNum[s]) = Reach(s)
        BY <1>3, <1>5 DEF Delivered
    <2>2. Reach(s) + 1 <= Serial(maxMsgNum)
        BY <2>1, <1>4, <1>5 DEF Serial
    <2>3. ASSUME NEW i \in 1..Len(q) PROVE q[i] = knows[s] + i - 1
        <3>1. CASE i \in 1..Len(pend[s])
            BY <3>1, <1>3, <1>7 DEF Delivered
        <3>2. CASE i = Len(pend[s]) + 1
            BY <3>2, <1>4, <1>6, <1>7 DEF Reach
        <3>3. i \in 1..Len(pend[s]) \/ i = Len(pend[s]) + 1
            BY <1>4, <1>7
        <3>. QED  BY <3>1, <3>2, <3>3
    <2>. QED  BY <2>1, <2>2, <2>3, <1>1, <1>8, <1>9 DEF Delivered
<1>13. Called(s)'
    <2>1. Depth(s)' = Depth(s) /\ LastCall(s)'
        BY <1>8 DEF Depth, LastCall
    <2>2. Serial(readMax[s])' = Serial(readMax[s])
        BY <1>1, <1>8 DEF Serial
    <2>3. ASSUME NEW i \in 1..Depth(s) PROVE CallReaches(s, i)'
        <3>1. CallReaches(s, i)
            BY <1>3 DEF Called
        <3>. QED  BY <3>1, <2>2, <1>1, <1>8, <1>9 DEF CallReaches
    <2>. QED  BY <2>1, <2>3 DEF Called
<1>14. pc' = [pc EXCEPT ![s] = "read"] /\ readers' = readers \union {s}
    BY <1>1, <1>3, <1>8 DEF Locked
<1>15. /\ active[s] /\ ~sendOnly[s] /\ pc[s] \notin WriteLabels
       /\ "read" \in ReadLabels /\ "read" \notin WriteLabels /\ Depth(s)' # 0
    BY <1>2, <1>8, ReaderPlace DEF ReadLabels, WriteLabels, Depth
<1>. QED  BY <1>1, <1>8, <1>10, <1>11, <1>12, <1>13, <1>14, <1>15, ReaderStep

\* After a reset there is nothing to process any more.
LEMMA GetResetKeeps ==
    ASSUME IInv, NEW s \in Slots, GetReset(s)
    PROVE  /\ IInv' /\ s \in Members
           /\ knows' = [knows EXCEPT ![s] = Serial(maxMsgNum)]
<1>1. /\ pc[s] = "get"
      /\ nextMsgNum' = [nextMsgNum EXCEPT ![s] = maxMsgNum]
      /\ resetState' = [resetState EXCEPT ![s] = FALSE]
      /\ signaled' = [signaled EXCEPT ![s] = FALSE]
      /\ knows' = [knows EXCEPT ![s] = Serial(maxMsgNum)]
      /\ frames' = [frames EXCEPT ![s][Depth(s)].at = "done"]
      /\ pc' = [pc EXCEPT ![s] = "function"]
      /\ UNCHANGED <<ring, active, sendOnly, lastBackend, locks, writing, readMax,
                     pend, nummsgs, catchup, lxids, base>>
    BY DEF GetReset, AfterReset, Goto
<1>2. pc[s] \in ReadLabels
    BY <1>1 DEF ReadLabels
<1>3. /\ TypeInt /\ Placed(s) /\ Locked(s) /\ Called(s) /\ Positioned(s) /\ Delivered(s)
      /\ RingInv /\ s \in Members
      /\ pc \in [Slots -> Labels] /\ knows \in [Slots -> Nat]
      /\ nextMsgNum \in [Slots -> Int] /\ frames \in [Slots -> Seq(Frames)]
    BY <1>2, ReaderFacts, ReaderPlace DEF IInv
<1>4. /\ active[s] /\ ~sendOnly[s] /\ s \in Members /\ pc[s] \notin WriteLabels
      /\ Depth(s) \in 1..Depth(s) /\ Depth(s) \in Nat \ {0}
    BY <1>2, ReaderPlace
<1>5. /\ pend[s] = <<>> /\ Len(pend[s]) = 0 /\ knows[s] \in Nat
      /\ Reach(s) \in Nat /\ Serial(maxMsgNum) \in Nat
      /\ minMsgNum \in Nat /\ maxMsgNum \in Nat /\ base \in Nat
      /\ Reach(s) <= Serial(maxMsgNum)
    BY <1>1, <1>3, CallTyped DEF TypeInt, RingTypes, Positioned, Delivered
<1>. DEFINE q == PlaceSet(frames[s], Depth(s), "done")
<1>6. /\ q \in Seq(Frames) /\ Len(q) = Depth(s)
      /\ \A i \in 1..Depth(s) : /\ q[i].entry = frames[s][i].entry
                                /\ q[i].at = IF i = Depth(s) THEN "done" ELSE frames[s][i].at
    <2>1. frames[s] \in Seq(Frames) /\ Depth(s) \in 1..Len(frames[s])
        BY <1>3, <1>4 DEF Depth
    <2>. QED  BY <2>1, FrameSet DEF Depth
<1>7. frames' = [frames EXCEPT ![s] = q]
    BY <1>1 DEF PlaceSet
<1>. HIDE DEF q
<1>8. /\ frames'[s] = q /\ Depth(s)' = Depth(s)
      /\ knows'[s] = Serial(maxMsgNum) /\ nextMsgNum'[s] = maxMsgNum /\ ~resetState'[s]
      /\ UNCHANGED <<minMsgNum, maxMsgNum, writeLock, readers, pend, nummsgs, readMax>>
      /\ pc'[s] = "function"
    BY <1>1, <1>3, <1>6, <1>7 DEF Depth, ring, locks, TypeInt, StateTypes
<1>9. \A t \in Slots \ {s} : /\ frames'[t] = frames[t] /\ knows'[t] = knows[t]
                             /\ nextMsgNum'[t] = nextMsgNum[t]
                             /\ resetState'[t] = resetState[t]
    BY <1>1, <1>3, <1>7 DEF TypeInt, StateTypes
<1>10. CallTypes' /\ StateTypes'
    <2>1. /\ frames' \in [Slots -> Seq(Frames)] /\ pc' \in [Slots -> Labels]
          /\ knows' \in [Slots -> Nat] /\ nextMsgNum' \in [Slots -> Int]
        <3>1. frames' \in [Slots -> Seq(Frames)]
            BY <1>3, <1>6, <1>7
        <3>2. pc' \in [Slots -> Labels]
            BY <1>1, <1>3 DEF Labels, ReadLabels
        <3>3. knows' \in [Slots -> Nat]
            BY <1>1, <1>3, <1>5
        <3>4. nextMsgNum' \in [Slots -> Int]
            BY <1>1, <1>3, <1>5
        <3>. QED  BY <3>1, <3>2, <3>3, <3>4
    <2>2. CallTypes'
        BY <2>1, <1>1, <1>3, <1>8 DEF TypeInt, CallTypes, writing, Slots
    <2>3. StateTypes'
        BY <2>1, <1>1, <1>3 DEF TypeInt, StateTypes, catchup, Slots
    <2>. QED  BY <2>2, <2>3
<1>11. Reach(s)' = Serial(maxMsgNum) /\ Serial(nextMsgNum[s])' = Serial(maxMsgNum)
       /\ Serial(maxMsgNum)' = Serial(maxMsgNum)
    BY <1>1, <1>5, <1>8 DEF Reach, Serial
<1>12. Positioned(s)'
    BY <1>3, <1>5, <1>8 DEF Positioned, RingInv
<1>13. Delivered(s)'
    BY <1>5, <1>8, <1>11 DEF Delivered
<1>14. Called(s)'
    <2>1. LastCall(s)'
        BY <1>8 DEF LastCall
    <2>2. ASSUME NEW i \in 1..Depth(s) PROVE CallReaches(s, i)'
        <3>1. CallReaches(s, i) /\ frames'[s][i].entry = frames[s][i].entry
            BY <1>3, <1>6, <1>8 DEF Called
        <3>. QED  BY <3>1, <1>8, <1>11 DEF CallReaches
    <2>. QED  BY <2>1, <2>2, <1>8 DEF Called
<1>15. "function" \in ReadLabels /\ "function" \notin WriteLabels /\ Depth(s)' # 0
    BY <1>4, <1>8 DEF ReadLabels, WriteLabels
<1>16. readers' = readers \ {s}
    BY <1>1, <1>3, <1>8 DEF Locked
<1>17. IInv'
    BY <1>1, <1>4, <1>8, <1>9, <1>10, <1>12, <1>13, <1>14, <1>15, <1>16, ReaderStep
<1>. QED  BY <1>1, <1>4, <1>17

-----------------------------------------------------------------------------
(***************************************************************************)
(* Cleanup                                                                 *)
(***************************************************************************)

\* Who is looked at by SICleanupQueue is inside the ring.
LEMMA KeptAre ==
    ASSUME IInv, NEW n \in 0..MAXNUMMESSAGES
    PROVE  /\ Kept(n) \subseteq Slots
           /\ \A s \in Kept(n) : /\ nextMsgNum[s] \in Nat /\ minMsgNum <= nextMsgNum[s]
                                 /\ LowBound(n) <= nextMsgNum[s]
                                 /\ nextMsgNum[s] <= maxMsgNum
           /\ LowBound(n) = maxMsgNum - (MAXNUMMESSAGES - n)
           /\ minMsgNum \in Nat /\ maxMsgNum \in Nat /\ base \in Nat
<1>1. /\ TypeInt /\ PositionInv /\ lastBackend \in 0..MaxBackends
      /\ nextMsgNum \in [Slots -> Int] /\ MAXNUMMESSAGES \in Nat \ {0} /\ MaxBackends \in Nat
      /\ minMsgNum \in Nat /\ maxMsgNum \in Nat /\ base \in Nat
    BY RingSize DEF IInv, TypeInt, StateTypes, RingTypes
<1>2. LowBound(n) = maxMsgNum - (MAXNUMMESSAGES - n) /\ LowBound(n) \in Int
    BY <1>1 DEF LowBound
<1>3. Receivers \subseteq Current
    BY <1>1 DEF Receivers, Current, Slots
<1>4. ASSUME NEW s \in Kept(n)
      PROVE  /\ s \in Slots /\ nextMsgNum[s] \in Nat /\ minMsgNum <= nextMsgNum[s]
             /\ LowBound(n) <= nextMsgNum[s] /\ nextMsgNum[s] <= maxMsgNum
    <2>1. s \in Current /\ s \in Slots /\ ~(nextMsgNum[s] < LowBound(n))
        BY <1>3 DEF Kept, TooFarBack, Current
    <2>2. minMsgNum <= nextMsgNum[s] /\ nextMsgNum[s] <= maxMsgNum /\ nextMsgNum[s] \in Int
        BY <2>1, <1>1 DEF PositionInv, Positioned
    <2>. QED  BY <2>1, <2>2, <1>1, <1>2
<1>. QED  BY <1>1, <1>2, <1>4

\* The new minimum makes room for n messages, and loses none of those that
\* somebody has still to read.
LEMMA NewMinIs ==
    ASSUME IInv, NEW n \in 0..MAXNUMMESSAGES
    PROVE  /\ NewMin(n) \in Nat /\ minMsgNum <= NewMin(n) /\ NewMin(n) <= maxMsgNum
           /\ maxMsgNum - NewMin(n) <= MAXNUMMESSAGES - n
           /\ \A s \in Kept(n) : NewMin(n) <= nextMsgNum[s]
<1>. DEFINE T == {maxMsgNum} \union {nextMsgNum[s] : s \in Kept(n)}
<1>1. /\ \A s \in Kept(n) : /\ nextMsgNum[s] \in Nat /\ minMsgNum <= nextMsgNum[s]
                            /\ LowBound(n) <= nextMsgNum[s]
                            /\ nextMsgNum[s] <= maxMsgNum
      /\ LowBound(n) = maxMsgNum - (MAXNUMMESSAGES - n)
      /\ minMsgNum \in Nat /\ maxMsgNum \in Nat /\ MAXNUMMESSAGES \in Nat
      /\ minMsgNum <= maxMsgNum
    BY KeptAre, RingSize DEF IInv, RingInv
<1>2. T \in SUBSET Nat /\ T # {}
    BY <1>1
<1>3. Min(T) \in T /\ \A y \in T : Min(T) <= y
    BY <1>2, MinIsLeast
<1>4. \A y \in T : y \in Nat /\ minMsgNum <= y /\ LowBound(n) <= y /\ y <= maxMsgNum
    BY <1>1
<1>5. /\ Min(T) \in Nat /\ minMsgNum <= Min(T) /\ Min(T) <= maxMsgNum
      /\ LowBound(n) <= Min(T)
    BY <1>3, <1>4
<1>6. \A s \in Kept(n) : Min(T) <= nextMsgNum[s]
    BY <1>3
<1>7. maxMsgNum - Min(T) <= MAXNUMMESSAGES - n
    BY <1>1, <1>5
<1>. QED  BY <1>5, <1>6, <1>7 DEF NewMin

LEMMA WrapIs ==
    ASSUME IInv, NEW min \in Nat, min <= maxMsgNum
    PROVE  /\ Wrap(min) \in Nat /\ Wrap(min) % MAXNUMMESSAGES = 0 /\ Wrap(min) <= min
           /\ min - Wrap(min) < MSGNUMWRAPAROUND
           /\ maxMsgNum - min <= MAXNUMMESSAGES =>
                maxMsgNum - Wrap(min) < MSGNUMWRAPAROUND + MAXNUMMESSAGES
<1>1. /\ MAXNUMMESSAGES \in Nat \ {0} /\ MSGNUMWRAPAROUND \in Nat \ {0}
      /\ MAXNUMMESSAGES <= MSGNUMWRAPAROUND /\ MSGNUMWRAPAROUND % MAXNUMMESSAGES = 0
      /\ 0 % MAXNUMMESSAGES = 0
      /\ maxMsgNum \in Nat /\ maxMsgNum < MSGNUMWRAPAROUND + MAXNUMMESSAGES
    BY RingSize DEF IInv, TypeInt, RingTypes, RingInv, CountersBounded
<1>2. CASE min >= MSGNUMWRAPAROUND
    <2>1. Wrap(min) = MSGNUMWRAPAROUND
        BY <1>2 DEF Wrap
    <2>. QED  BY <2>1, <1>1, <1>2
<1>3. CASE ~(min >= MSGNUMWRAPAROUND)
    <2>1. Wrap(min) = 0
        BY <1>3 DEF Wrap
    <2>. QED  BY <2>1, <1>1, <1>3
<1>. QED  BY <1>2, <1>3

LEMMA ThresholdIs ==
    ASSUME NEW m \in Nat
    PROVE  Threshold(m) \in Nat
<1>1. CLEANUP_MIN \in Nat /\ CLEANUP_QUANTUM \in Nat \ {0}
    BY SInvalAssumption
<1>2. m \div CLEANUP_QUANTUM \in Nat
    BY <1>1
<1>3. (m \div CLEANUP_QUANTUM + 1) * CLEANUP_QUANTUM \in Nat
    BY <1>1, <1>2
<1>. QED  BY <1>1, <1>3 DEF Threshold

LEMMA NeedSigIs ==
    ASSUME IInv, NEW n \in 0..MAXNUMMESSAGES
    PROVE  NeedSig(n) \in Slots \union {NoSlot}
<1>. DEFINE L == Laggards(n)
            F == {s \in L : \A t \in L : nextMsgNum[s] <= nextMsgNum[t]}
<1>1. /\ L \subseteq Slots /\ \A s \in L : nextMsgNum[s] \in Nat
      /\ Slots \subseteq Nat
    BY KeptAre, SlotsAre DEF Laggards
<1>2. CASE L = {}
    BY <1>2 DEF NeedSig
<1>3. CASE L # {}
    <2>. DEFINE N == {nextMsgNum[s] : s \in L}
    <2>1. N \in SUBSET Nat /\ N # {}
        BY <1>1, <1>3
    <2>2. PICK x \in N : \A y \in N : x <= y
        BY <2>1, MinIsLeast
    <2>3. F # {}
        BY <2>2
    <2>4. F \in SUBSET Nat /\ F \subseteq Slots
        BY <1>1
    <2>5. Min(F) \in F
        BY <2>3, <2>4, MinIsLeast
    <2>. QED  BY <2>4, <2>5, <1>3 DEF NeedSig
<1>. QED  BY <1>2, <1>3

\* Cleanup renumbers the messages in the ring, the positions and the history
\* together, and puts whoever is in the way in reset state.
LEMMA CleanupStep ==
    ASSUME IInv, NEW s \in Slots, NEW n \in 0..MAXNUMMESSAGES, CleanupSection(n),
           NEW l \in Labels, pc' = [pc EXCEPT ![s] = l],
           pc[s] \notin {"get", "apply"}, l \notin {"write", "get", "read", "apply"},
           \A t \in Slots : pc[t] # "write",
           UNCHANGED <<writing, reading, knows, procSignal, occurred>>,
           signalTo' \in [Slots -> Slots \union {NoSlot}],
           writeLock' \in Slots \union {NoSlot},
           LockInv', Placed(s)', LastCall(s)'
    PROVE  IInv' /\ Serial(maxMsgNum)' = Serial(maxMsgNum)
<1>. DEFINE min == NewMin(n)
            wrap == Wrap(min)
            sig == NeedSig(n)
<1>1. /\ readers = {}
      /\ resetState' = [t \in Slots |-> resetState[t] \/ t \in TooFarBack(n)]
      /\ minMsgNum' = min - wrap /\ maxMsgNum' = maxMsgNum - wrap
      /\ nextMsgNum' = [t \in Slots |->
                            nextMsgNum[t] - (IF t <= lastBackend THEN wrap ELSE 0)]
      /\ nextThreshold' = Threshold(maxMsgNum - min)
      /\ signaled' = [t \in Slots |-> signaled[t] \/ t = sig]
      /\ base' = base + wrap
      /\ UNCHANGED <<buffer, active, sendOnly, lastBackend, readers>>
    BY DEF CleanupSection
<1>2. /\ min \in Nat /\ minMsgNum <= min /\ min <= maxMsgNum
      /\ maxMsgNum - min <= MAXNUMMESSAGES - n
      /\ \A t \in Kept(n) : min <= nextMsgNum[t]
    BY NewMinIs
<1>3. /\ minMsgNum \in Nat /\ maxMsgNum \in Nat /\ base \in Nat
      /\ MAXNUMMESSAGES \in Nat \ {0} /\ n \in Nat
      /\ maxMsgNum - min <= MAXNUMMESSAGES /\ maxMsgNum - min \in Nat
    BY <1>2, KeptAre, RingSize
<1>. HIDE DEF min
<1>4. /\ wrap \in Nat /\ wrap % MAXNUMMESSAGES = 0 /\ wrap <= min
      /\ min - wrap < MSGNUMWRAPAROUND
      /\ maxMsgNum - wrap < MSGNUMWRAPAROUND + MAXNUMMESSAGES
    BY <1>2, <1>3, WrapIs
<1>. HIDE DEF wrap, sig
<1>5. /\ TypeInt /\ LockInv /\ PlaceInv /\ RingInv /\ PositionInv /\ DeliveryInv /\ CallInv
      /\ pc \in [Slots -> Labels] /\ nextMsgNum \in [Slots -> Int]
      /\ lastBackend \in 0..MaxBackends
    BY DEF IInv, TypeInt, CallTypes, StateTypes
<1>6. /\ UNCHANGED <<toInsert, thisTime, written, sent, readMax, pend, nummsgs, frames, knows>>
      /\ pc'[s] = l /\ \A t \in Slots \ {s} : pc'[t] = pc[t]
    BY <1>5 DEF writing, reading
<1>7. Slots \subseteq Nat /\ (\A t \in Slots : t <= MaxBackends) /\ MaxBackends \in Nat
    BY SlotsAre, RingSize
<1>8. TypeInt'
    <2>1. RingTypes'
        <3>1. min - wrap \in Nat /\ maxMsgNum - wrap \in Nat /\ base + wrap \in Nat
            BY <1>2, <1>3, <1>4
        <3>2. Threshold(maxMsgNum - min) \in Nat
            BY <1>3, ThresholdIs
        <3>. QED  BY <3>1, <3>2, <1>1, <1>5, <1>6 DEF TypeInt, RingTypes, Slots
    <2>2. StateTypes'
        <3>1. nextMsgNum' \in [Slots -> Int]
            BY <1>1, <1>4, <1>5
        <3>2. resetState' \in [Slots -> BOOLEAN] /\ signaled' \in [Slots -> BOOLEAN]
            BY <1>1, <1>5 DEF TypeInt, StateTypes
        <3>. QED  BY <3>1, <3>2, <1>1, <1>5 DEF TypeInt, StateTypes, Slots
    <2>3. CallTypes'
        BY <1>5, <1>6 DEF TypeInt, CallTypes, Slots, Labels, ReadLabels, WriteLabels, Frames
    <2>. QED  BY <2>1, <2>2, <2>3 DEF TypeInt
<1>9. Serial(maxMsgNum)' = Serial(maxMsgNum)
    BY <1>1, <1>3, <1>4 DEF Serial
<1>10. RingInv'
    <2>1. InRing(minMsgNum, maxMsgNum)'
        <3>. SUFFICES ASSUME NEW num \in min - wrap..(maxMsgNum - wrap) - 1
                      PROVE  buffer[num % MAXNUMMESSAGES] = num + (base + wrap)
            BY <1>1 DEF InRing, Serial
        <3>1. num \in Int /\ num + wrap \in minMsgNum..maxMsgNum - 1
            BY <1>2, <1>3, <1>4
        <3>2. (num + wrap) % MAXNUMMESSAGES = num % MAXNUMMESSAGES
            BY <3>1, <1>3, <1>4, ModuloTurns
        <3>3. buffer[(num + wrap) % MAXNUMMESSAGES] = Serial(num + wrap)
            BY <3>1, <1>5 DEF RingInv, InRing
        <3>. QED  BY <3>1, <3>2, <3>3, <1>3, <1>4 DEF Serial
    <2>2. /\ min - wrap <= maxMsgNum - wrap
          /\ (maxMsgNum - wrap) - (min - wrap) <= MAXNUMMESSAGES
        BY <1>2, <1>3, <1>4
    <2>. QED  BY <2>1, <2>2, <1>1, <1>4 DEF RingInv, CountersBounded
<1>11. WriteInv'
    <2>1. \A t \in Slots : pc'[t] # "write"
        BY <1>6
    <2>. QED  BY <2>1 DEF WriteInv, Writing, Slots
<1>12. \A t \in Slots : pc[t] # "read" /\ pc'[t] # "read"
    BY <1>1, <1>5, <1>6 DEF LockInv, Locked
<1>13. ASSUME NEW t \in Slots PROVE Placed(t)'
    <2>1. CASE t = s
        BY <2>1
    <2>2. CASE t # s
        BY <2>2, <1>1, <1>5, <1>6 DEF PlaceInv, Placed, Depth
    <2>. QED  BY <2>1, <2>2
<1>14. ASSUME NEW t \in Slots, active[t]
       PROVE  nextMsgNum'[t] = nextMsgNum[t] - wrap /\ nextMsgNum[t] \in Int
    <2>1. t <= lastBackend
        BY <1>14, <1>5 DEF PlaceInv, Placed
    <2>. QED  BY <2>1, <1>1, <1>5
<1>15. ASSUME NEW t \in Slots PROVE Positioned(t)'
    <2>1. Positioned(t)
        BY <1>5 DEF PositionInv
    <2>2. ASSUME t \in Current'
          PROVE  min - wrap <= nextMsgNum'[t] /\ nextMsgNum'[t] <= maxMsgNum - wrap
        <3>1. active[t] /\ ~sendOnly[t] /\ ~resetState'[t]
            BY <2>2, <1>1 DEF Current
        <3>2. ~resetState[t] /\ t \notin TooFarBack(n)
            BY <3>1, <1>1
        <3>3. t \in Kept(n) /\ t \in Current
            <4>1. t \in 1..lastBackend
                BY <3>1, <1>5 DEF PlaceInv, Placed, Slots
            <4>. QED  BY <4>1, <3>1, <3>2 DEF Kept, Receivers, Current
        <3>4. min <= nextMsgNum[t] /\ nextMsgNum[t] <= maxMsgNum
            BY <3>3, <2>1, <1>2 DEF Positioned
        <3>5. nextMsgNum'[t] = nextMsgNum[t] - wrap /\ nextMsgNum[t] \in Int
            BY <3>1, <1>14
        <3>6. min \in Nat /\ wrap \in Nat /\ maxMsgNum \in Nat
            BY <1>2, <1>3, <1>4
        <3>. QED  BY <3>4, <3>5, <3>6
    <2>3. pc'[t] = "get" => pend'[t] = <<>>
        BY <2>1, <1>6 DEF Positioned
    <2>. QED  BY <2>2, <2>3, <1>1, <1>12 DEF Positioned
<1>16. ASSUME NEW t \in Slots PROVE Delivered(t)'
    <2>. SUFFICES ASSUME t \in Members' PROVE Delivered(t)'
        BY DEF Delivered
    <2>1. t \in Members /\ active[t] /\ Delivered(t)
        BY <1>1, <1>5 DEF Members, DeliveryInv
    <2>2. Reach(t)' = Reach(t)
        BY <1>6 DEF Reach
    <2>3. Serial(nextMsgNum[t])' = Serial(nextMsgNum[t])
        BY <2>1, <1>1, <1>3, <1>4, <1>14 DEF Serial
    <2>4. ~resetState'[t] => ~resetState[t]
        BY <1>1
    <2>. QED  BY <2>1, <2>2, <2>3, <2>4, <1>6, <1>9 DEF Delivered
<1>17. ASSUME NEW t \in Slots PROVE Called(t)'
    <2>1. Depth(t)' = Depth(t) /\ Top(t)' = Top(t) /\ Reach(t)' = Reach(t)
        BY <1>6 DEF Depth, Top, Reach
    <2>2. LastCall(t)'
        <3>1. CASE t = s
            BY <3>1
        <3>2. CASE t # s
            BY <3>2, <2>1, <1>5, <1>6 DEF CallInv, Called, LastCall
        <3>. QED  BY <3>1, <3>2
    <2>3. ASSUME NEW i \in 1..Depth(t) PROVE CallReaches(t, i)'
        <3>1. CallReaches(t, i)
            BY <1>5 DEF CallInv, Called
        <3>2. (pc'[t] = "apply" => pc[t] = "apply") /\ (pc[t] \in {"get", "read"} => pc'[t] = pc[t])
            BY <1>6, <1>12
        <3>3. Fetched(t, i)' => Fetched(t, i)
            BY <2>1, <3>2, <1>6 DEF Fetched
        <3>. QED  BY <3>1, <3>2, <3>3, <2>1, <1>6, <1>9, <1>12 DEF CallReaches
    <2>. QED  BY <2>1, <2>2, <2>3 DEF Called
<1>18. PlaceInv' /\ PositionInv' /\ DeliveryInv' /\ CallInv'
    BY <1>13, <1>15, <1>16, <1>17 DEF PlaceInv, PositionInv, DeliveryInv, CallInv, Slots
<1>. QED  BY <1>8, <1>9, <1>10, <1>11, <1>18 DEF IInv

\* SICleanupQueue called by a writer keeps the lock, or gives it up to signal.
LEMMA CleanForInsertKeeps ==
    ASSUME IInv, NEW s \in Slots, CleanForInsert(s)
    PROVE  IInv' /\ Serial(maxMsgNum)' = Serial(maxMsgNum)
<1>. DEFINE n == thisTime[s]
            sig == NeedSig(n)
            l == IF sig = NoSlot THEN "check" ELSE "signalForInsert"
<1>1. /\ pc[s] = "check" /\ CleanupSection(n)
      /\ signalTo' = [signalTo EXCEPT ![s] = sig]
      /\ IF sig = NoSlot
         THEN UNCHANGED <<writeLock, pc>>
         ELSE writeLock' = NoSlot /\ pc' = [pc EXCEPT ![s] = "signalForInsert"]
      /\ UNCHANGED <<writing, reading, procSignal, occurred, lxids, knows>>
    BY DEF CleanForInsert, Goto
<1>2. /\ TypeInt /\ LockInv /\ Placed(s) /\ Locked(s)
      /\ pc \in [Slots -> Labels] /\ signalTo \in [Slots -> Slots \union {NoSlot}]
      /\ writeLock \in Slots \union {NoSlot}
    BY DEF IInv, PlaceInv, LockInv, TypeInt, CallTypes, StateTypes, RingTypes
<1>3. n \in 1..WRITE_QUANTUM /\ n \in 0..MAXNUMMESSAGES
    BY <1>1, <1>2, RingSize DEF Placed, WriteLabels
<1>4. active[s] /\ written[s] = 0 /\ Depth(s) = 0 /\ writeLock = s
    BY <1>1, <1>2 DEF Placed, Locked, ReadLabels
<1>5. sig \in Slots \union {NoSlot}
    BY <1>3, NeedSigIs
<1>6. pc' = [pc EXCEPT ![s] = l]
    BY <1>1, <1>2
<1>7. writeLock' = (IF sig = NoSlot THEN s ELSE NoSlot) /\ readers' = readers
    BY <1>1, <1>4 DEF CleanupSection
<1>8. /\ l \in {"check", "signalForInsert"} /\ (l = "check" <=> sig = NoSlot)
      /\ l \in Labels /\ l \notin ReadLabels /\ l \notin {"write", "get", "read", "apply"}
    BY DEF Labels, WriteLabels, ReadLabels
<1>. HIDE DEF l, sig, n
<1>9. signalTo' \in [Slots -> Slots \union {NoSlot}]
    BY <1>1, <1>2, <1>5
<1>10. /\ UNCHANGED <<toInsert, thisTime, written, sent, frames, pend, active, sendOnly,
                      lastBackend>>
       /\ pc'[s] = l /\ \A t \in Slots \ {s} : pc'[t] = pc[t]
    BY <1>1, <1>2, <1>6 DEF writing, reading, CleanupSection
<1>11. ASSUME NEW t \in Slots PROVE Locked(t)' /\ pc[t] # "write"
    <2>1. Locked(t) /\ t # NoSlot
        BY <1>2, NoSlotAssumption DEF LockInv
    <2>2. CASE t = s
        BY <2>1, <2>2, <1>1, <1>7, <1>8, <1>10 DEF Locked
    <2>3. CASE t # s
        BY <2>1, <2>3, <1>4, <1>7, <1>10 DEF Locked
    <2>. QED  BY <2>2, <2>3
<1>12. LockInv'
    BY <1>11 DEF LockInv, Slots
<1>13. Placed(s)' /\ LastCall(s)'
    <2>1. Depth(s)' = 0
        BY <1>4, <1>10 DEF Depth
    <2>2. pc'[s] \in WriteLabels \ {"insert"} /\ pc'[s] \notin ReadLabels /\ pc'[s] # "run"
        BY <1>8, <1>10 DEF WriteLabels
    <2>3. thisTime'[s] \in 1..WRITE_QUANTUM
        BY <1>3, <1>10 DEF n
    <2>4. Placed(s)'
        BY <2>1, <2>2, <2>3, <1>1, <1>2, <1>4, <1>10 DEF Placed
    <2>. QED  BY <2>1, <2>4 DEF LastCall
<1>14. pc[s] \notin {"get", "apply"} /\ writeLock' \in Slots \union {NoSlot}
    BY <1>1, <1>7
<1>. QED  BY <1>1, <1>3, <1>6, <1>8, <1>9, <1>11, <1>12, <1>13, <1>14, CleanupStep

\* SICleanupQueue called by a backend that has caught up.
LEMMA PassOnKeeps ==
    ASSUME IInv, NEW s \in Slots, PassOn(s)
    PROVE  IInv' /\ Serial(maxMsgNum)' = Serial(maxMsgNum)
<1>. DEFINE sig == NeedSig(0)
            l == IF sig = NoSlot THEN "return" ELSE "signal"
<1>1. /\ pc[s] = "passOn" /\ writeLock = NoSlot /\ CleanupSection(0)
      /\ signalTo' = [signalTo EXCEPT ![s] = sig]
      /\ pc' = [pc EXCEPT ![s] = l]
      /\ UNCHANGED <<writeLock, writing, reading, procSignal, occurred, lxids, knows>>
    BY DEF PassOn, Goto
<1>2. pc[s] \in ReadLabels
    BY <1>1 DEF ReadLabels
<1>3. /\ TypeInt /\ LockInv /\ Placed(s) /\ Locked(s) /\ Called(s)
      /\ pc \in [Slots -> Labels] /\ signalTo \in [Slots -> Slots \union {NoSlot}]
    BY DEF IInv, PlaceInv, LockInv, CallInv, TypeInt, CallTypes, StateTypes
<1>4. active[s] /\ ~sendOnly[s] /\ Depth(s) \in Nat \ {0}
    BY <1>2, ReaderPlace
<1>5. 0 \in 0..MAXNUMMESSAGES
    BY RingSize
<1>6. sig \in Slots \union {NoSlot}
    BY <1>5, NeedSigIs
<1>7. /\ l \in {"return", "signal"} /\ l \in Labels /\ l \in ReadLabels
      /\ l \notin WriteLabels /\ l \notin {"write", "get", "read", "apply"}
    BY DEF Labels, WriteLabels, ReadLabels
<1>. HIDE DEF l, sig
<1>8. signalTo' \in [Slots -> Slots \union {NoSlot}]
    BY <1>1, <1>3, <1>6
<1>9. /\ UNCHANGED <<toInsert, thisTime, written, sent, frames, pend, active, sendOnly,
                     lastBackend, readers>>
      /\ pc'[s] = l /\ \A t \in Slots \ {s} : pc'[t] = pc[t]
    BY <1>1, <1>3 DEF writing, reading, CleanupSection
<1>10. ASSUME NEW t \in Slots PROVE Locked(t)' /\ pc[t] # "write"
    <2>1. Locked(t) /\ t # NoSlot
        BY <1>3, NoSlotAssumption DEF LockInv
    <2>2. CASE t = s
        BY <2>1, <2>2, <1>1, <1>7, <1>9 DEF Locked
    <2>3. CASE t # s
        BY <2>1, <2>3, <1>1, <1>9 DEF Locked
    <2>. QED  BY <2>2, <2>3
<1>11. LockInv'
    BY <1>10 DEF LockInv, Slots
<1>12. Depth(s)' = Depth(s) /\ Top(s)' = Top(s)
    BY <1>9 DEF Depth, Top
<1>13. Placed(s)'
    BY <1>1, <1>2, <1>3, <1>4, <1>7, <1>9, <1>12 DEF Placed, WriteLabels
<1>14. LastCall(s)'
    BY <1>1, <1>3, <1>4, <1>7, <1>9, <1>12 DEF LastCall, Called
<1>15. pc[s] \notin {"get", "apply"} /\ writeLock' \in Slots \union {NoSlot}
    BY <1>1
<1>. QED  BY <1>1, <1>5, <1>7, <1>8, <1>10, <1>11, <1>13, <1>14, <1>15, CleanupStep

-----------------------------------------------------------------------------
(***************************************************************************)
(* Backends come and go                                                    *)
(***************************************************************************)

LEMMA SlotForNewIs ==
    ASSUME IInv, SlotForNewBackend # NoSlot
    PROVE  SlotForNewBackend \in Slots /\ ~active[SlotForNewBackend]
<1>1. /\ lastBackend \in 0..MaxBackends /\ MaxBackends \in Nat
      /\ \A t \in Slots : active[t] => t <= lastBackend
    BY RingSize DEF IInv, TypeInt, StateTypes, PlaceInv, Placed
<1>2. CASE FreeSlots # {}
    <2>1. FreeSlots \in SUBSET Nat /\ FreeSlots \subseteq Slots
        BY <1>1 DEF FreeSlots, Slots
    <2>2. Min(FreeSlots) \in FreeSlots
        BY <2>1, <1>2, MinIsLeast
    <2>3. SlotForNewBackend = Min(FreeSlots)
        BY <1>2 DEF SlotForNewBackend
    <2>. QED  BY <2>1, <2>2, <2>3 DEF FreeSlots
<1>3. CASE FreeSlots = {}
    <2>1. lastBackend < MaxBackends /\ SlotForNewBackend = lastBackend + 1
        BY <1>3 DEF SlotForNewBackend
    <2>2. lastBackend + 1 \in Slots /\ ~(lastBackend + 1 <= lastBackend)
        BY <2>1, <1>1 DEF Slots
    <2>. QED  BY <2>1, <2>2, <1>1
<1>. QED  BY <1>2, <1>3

\* A new backend has everything read, and nothing of its predecessor left.
LEMMA BackendInitKeeps ==
    ASSUME IInv, NEW isSendOnly \in BOOLEAN, SharedInvalBackendInit(isSendOnly)
    PROVE  /\ IInv' /\ Serial(maxMsgNum)' = Serial(maxMsgNum)
           /\ \/ Members' = Members /\ knows' = knows
              \/ \E s \in Slots \ Members :
                    /\ Members' = Members \union {s}
                    /\ knows' = [knows EXCEPT ![s] = Serial(maxMsgNum)]
<1>0. PICK s \in Slots : s = SlotForNewBackend /\ ~active[s]
    <2>1. SlotForNewBackend # NoSlot
        BY DEF SharedInvalBackendInit
    <2>. QED  BY <2>1, SlotForNewIs
<1>1. /\ lastBackend' = IF s > lastBackend THEN s ELSE lastBackend
      /\ localLXID' = [localLXID EXCEPT ![s] = nextLXID[s]]
      /\ active' = [active EXCEPT ![s] = TRUE]
      /\ nextMsgNum' = [nextMsgNum EXCEPT ![s] = maxMsgNum]
      /\ resetState' = [resetState EXCEPT ![s] = FALSE]
      /\ signaled' = [signaled EXCEPT ![s] = FALSE]
      /\ sendOnly' = [sendOnly EXCEPT ![s] = isSendOnly]
      /\ knows' = [knows EXCEPT ![s] = IF isSendOnly THEN 0 ELSE Serial(maxMsgNum)]
      /\ UNCHANGED <<ring, locks, pc, writing, reading, catchup, nextLXID,
                     lastLXID, issued, base>>
    BY <1>0 DEF SharedInvalBackendInit, StartPosition
<1>2. s \in Slots /\ ~active[s]
    BY <1>0
<1>3. /\ TypeInt /\ LockInv /\ RingInv /\ WriteInv /\ Placed(s) /\ Locked(s)
      /\ active \in [Slots -> BOOLEAN] /\ sendOnly \in [Slots -> BOOLEAN]
      /\ resetState \in [Slots -> BOOLEAN] /\ nextMsgNum \in [Slots -> Int]
      /\ knows \in [Slots -> Nat] /\ maxMsgNum \in Nat /\ Serial(maxMsgNum) \in Nat
      /\ lastBackend \in 0..MaxBackends
    BY <1>2, CallTyped DEF IInv, PlaceInv, LockInv, TypeInt, CallTypes, StateTypes, RingTypes
<1>4. pc[s] = "run" /\ pend[s] = <<>> /\ knows[s] = 0 /\ Depth(s) = 0
    BY <1>2, <1>3 DEF Placed, ReadLabels
<1>5. s <= MaxBackends /\ s \in Nat \ {0}
    BY <1>2, SlotsAre
<1>6. /\ active'[s] /\ ~resetState'[s] /\ nextMsgNum'[s] = maxMsgNum
      /\ sendOnly'[s] = isSendOnly
      /\ knows'[s] = IF isSendOnly THEN 0 ELSE Serial(maxMsgNum)
      /\ \A t \in Slots \ {s} : /\ active'[t] = active[t] /\ sendOnly'[t] = sendOnly[t]
                                /\ resetState'[t] = resetState[t]
                                /\ nextMsgNum'[t] = nextMsgNum[t] /\ knows'[t] = knows[t]
    BY <1>1, <1>2, <1>3
<1>7. /\ UNCHANGED <<toInsert, thisTime, written, sent, readMax, pend, nummsgs, frames,
                     writeLock, readers, minMsgNum, maxMsgNum, nextThreshold, buffer>>
    BY <1>1 DEF writing, reading, locks, ring
<1>8. \A t \in Slots \ {s} : KeptSlot(t)
    BY <1>1, <1>6, <1>7 DEF KeptSlot
<1>9. RingGrows
    BY <1>1, <1>3, <1>7 DEF RingGrows, TypeInt, RingTypes
<1>10. TypeInt'
    <2>1. RingTypes'
        BY <1>1, <1>3, <1>7 DEF TypeInt, RingTypes, Slots
    <2>2. StateTypes'
        <3>1. lastBackend' \in 0..MaxBackends
            BY <1>1, <1>3, <1>5
        <3>2. /\ active' \in [Slots -> BOOLEAN] /\ sendOnly' \in [Slots -> BOOLEAN]
              /\ resetState' \in [Slots -> BOOLEAN]
            BY <1>1, <1>3
        <3>3. nextMsgNum' \in [Slots -> Int]
            BY <1>1, <1>3
        <3>4. /\ signaled' \in [Slots -> BOOLEAN] /\ occurred' \in [Slots -> BOOLEAN]
              /\ procSignal' \in [Slots -> BOOLEAN]
              /\ signalTo' \in [Slots -> Slots \union {NoSlot}]
            BY <1>1, <1>3 DEF TypeInt, StateTypes, catchup
        <3>. QED  BY <3>1, <3>2, <3>3, <3>4 DEF StateTypes, Slots
    <2>3. knows' \in [Slots -> Nat]
        BY <1>1, <1>3
    <2>4. CallTypes'
        BY <2>3, <1>1, <1>3, <1>7 DEF TypeInt, CallTypes, Slots, Labels, ReadLabels,
           WriteLabels, Frames
    <2>. QED  BY <2>1, <2>2, <2>4 DEF TypeInt
<1>11. LockInv'
    BY <1>1, <1>3, <1>7 DEF LockInv, Locked, Slots
<1>12. RingInv' /\ WriteInv'
    BY <1>1, <1>3, <1>7, RingKept
<1>13. \A t \in Slots \ {s} : active[t] => t <= lastBackend'
    <2>1. \A t \in Slots : active[t] => t <= lastBackend
        BY DEF IInv, PlaceInv, Placed
    <2>2. Slots \subseteq Nat
        BY SlotsAre
    <2>. QED  BY <2>1, <2>2, <1>1, <1>3, <1>5
<1>14. Placed(s)'
    <2>1. s <= lastBackend'
        BY <1>1, <1>3, <1>5
    <2>2. Depth(s)' = 0 /\ pc'[s] = "run"
        BY <1>1, <1>4, <1>7 DEF Depth
    <2>. QED  BY <2>1, <2>2, <1>4, <1>6, <1>7 DEF Placed, ReadLabels, WriteLabels
<1>15. Positioned(s)'
    BY <1>1, <1>3, <1>4, <1>6, <1>7 DEF Positioned, RingInv
<1>16. Delivered(s)'
    <2>1. Serial(maxMsgNum)' = Serial(maxMsgNum)
          /\ Serial(nextMsgNum[s])' = Serial(maxMsgNum)
        BY <1>1, <1>6, <1>7 DEF Serial
    <2>2. CASE isSendOnly
        BY <2>2, <1>6 DEF Delivered, Members
    <2>3. CASE ~isSendOnly
        <3>1. knows'[s] = Serial(maxMsgNum) /\ pend'[s] = <<>>
            BY <2>3, <1>4, <1>6, <1>7
        <3>2. Reach(s)' = Serial(maxMsgNum) /\ Len(pend'[s]) = 0
            BY <3>1, <1>3 DEF Reach
        <3>. QED  BY <2>1, <3>2, <1>3 DEF Delivered
    <2>. QED  BY <2>2, <2>3
<1>17. Called(s)'
    <2>1. Depth(s)' = 0
        BY <1>4, <1>7 DEF Depth
    <2>. QED  BY <2>1 DEF Called, LastCall
<1>18. IInv'
    BY <1>2, <1>8, <1>9, <1>10, <1>11, <1>12, <1>13, <1>14, <1>15, <1>16, <1>17, SlotStep
<1>19. Serial(maxMsgNum)' = Serial(maxMsgNum)
    BY <1>1, <1>7 DEF Serial
<1>20. CASE isSendOnly
    <2>1. Members' = Members
        BY <1>20, <1>2, <1>6 DEF Members, Slots
    <2>2. knows' = knows
        BY <1>20, <1>1, <1>3, <1>4
    <2>. QED  BY <2>1, <2>2, <1>18, <1>19
<1>21. CASE ~isSendOnly
    <2>1. Members' = Members \union {s} /\ s \in Slots \ Members
        BY <1>21, <1>2, <1>6 DEF Members, Slots
    <2>2. knows' = [knows EXCEPT ![s] = Serial(maxMsgNum)]
        BY <1>21, <1>1
    <2>. QED  BY <2>1, <2>2, <1>18, <1>19
<1>. QED  BY <1>20, <1>21

LEMMA LastWithoutIs ==
    ASSUME IInv, NEW s \in Slots
    PROVE  /\ LastBackendWithout(s) \in 0..MaxBackends
           /\ \A t \in Slots \ {s} : active[t] => t <= LastBackendWithout(s)
<1>. DEFINE T == {0} \union {t \in 1..lastBackend : active[t] /\ t # s}
<1>1. /\ lastBackend \in 0..MaxBackends /\ MaxBackends \in Nat
      /\ \A t \in Slots : active[t] => t <= lastBackend
    BY RingSize DEF IInv, TypeInt, StateTypes, PlaceInv, Placed
<1>2. T \in SUBSET Nat /\ T # {} /\ \A y \in T : y <= MaxBackends
    BY <1>1
<1>3. Max(T) \in T /\ \A y \in T : y <= Max(T)
    BY <1>1, <1>2, MaxIsGreatest
<1>4. Max(T) \in 0..MaxBackends
    BY <1>1, <1>2, <1>3
<1>5. \A t \in Slots \ {s} : active[t] => t \in T
    BY <1>1 DEF Slots
<1>. QED  BY <1>3, <1>4, <1>5 DEF LastBackendWithout

LEMMA BackendExitKeeps ==
    ASSUME IInv, NEW s \in Slots, CleanupInvalidationState(s)
    PROVE  /\ IInv' /\ Serial(maxMsgNum)' = Serial(maxMsgNum)
           /\ \/ Members' = Members /\ knows' = knows
              \/ s \in Members /\ Members' = Members \ {s} /\ knows' = [knows EXCEPT ![s] = 0]
<1>1. /\ active[s] /\ pc[s] = "run"
      /\ nextLXID' = [nextLXID EXCEPT ![s] = LXIDSaved(s)]
      /\ active' = [active EXCEPT ![s] = FALSE]
      /\ nextMsgNum' = [nextMsgNum EXCEPT ![s] = 0]
      /\ resetState' = [resetState EXCEPT ![s] = FALSE]
      /\ signaled' = [signaled EXCEPT ![s] = FALSE]
      /\ lastBackend' = LastBackendWithout(s)
      /\ pend' = [pend EXCEPT ![s] = <<>>]
      /\ nummsgs' = [nummsgs EXCEPT ![s] = 0]
      /\ readMax' = [readMax EXCEPT ![s] = 0]
      /\ knows' = [knows EXCEPT ![s] = 0]
      /\ occurred' = [occurred EXCEPT ![s] = FALSE]
      /\ procSignal' = [procSignal EXCEPT ![s] = FALSE]
      /\ signalTo' = [t \in Slots |-> IF signalTo[t] = s THEN NoSlot ELSE signalTo[t]]
      /\ UNCHANGED <<ring, sendOnly, locks, pc, writing, frames, lastLXID, issued, base>>
    BY DEF CleanupInvalidationState, Running
<1>2. /\ TypeInt /\ LockInv /\ RingInv /\ WriteInv /\ Placed(s) /\ Locked(s)
      /\ active \in [Slots -> BOOLEAN] /\ sendOnly \in [Slots -> BOOLEAN]
      /\ resetState \in [Slots -> BOOLEAN] /\ nextMsgNum \in [Slots -> Int]
      /\ knows \in [Slots -> Nat] /\ pend \in [Slots -> Seq(Nat)]
      /\ nummsgs \in [Slots -> Nat] /\ readMax \in [Slots -> Int]
    BY DEF IInv, PlaceInv, LockInv, TypeInt, CallTypes, StateTypes
<1>3. Depth(s) = 0
    BY <1>1, <1>2 DEF Placed, ReadLabels
<1>4. /\ ~active'[s] /\ pend'[s] = <<>> /\ knows'[s] = 0 /\ pc'[s] = "run"
      /\ \A t \in Slots \ {s} : /\ active'[t] = active[t] /\ resetState'[t] = resetState[t]
                                /\ nextMsgNum'[t] = nextMsgNum[t] /\ knows'[t] = knows[t]
                                /\ pend'[t] = pend[t] /\ nummsgs'[t] = nummsgs[t]
                                /\ readMax'[t] = readMax[t]
    BY <1>1, <1>2
<1>5. UNCHANGED <<toInsert, thisTime, written, sent, writeLock, readers, minMsgNum,
                  maxMsgNum, nextThreshold, buffer>>
    BY <1>1 DEF writing, locks, ring
<1>6. \A t \in Slots \ {s} : KeptSlot(t)
    BY <1>1, <1>4, <1>5 DEF KeptSlot
<1>7. RingGrows
    BY <1>1, <1>2, <1>5 DEF RingGrows, TypeInt, RingTypes
<1>8. TypeInt'
    <2>1. RingTypes'
        BY <1>1, <1>2, <1>5 DEF TypeInt, RingTypes, Slots
    <2>2. StateTypes'
        <3>1. lastBackend' \in 0..MaxBackends
            BY <1>1, LastWithoutIs
        <3>2. /\ active' \in [Slots -> BOOLEAN] /\ resetState' \in [Slots -> BOOLEAN]
              /\ nextMsgNum' \in [Slots -> Int]
            BY <1>1, <1>2
        <3>3. signalTo' \in [Slots -> Slots \union {NoSlot}]
            BY <1>1, <1>2 DEF TypeInt, StateTypes
        <3>4. /\ signaled' \in [Slots -> BOOLEAN] /\ occurred' \in [Slots -> BOOLEAN]
              /\ procSignal' \in [Slots -> BOOLEAN]
            BY <1>1, <1>2 DEF TypeInt, StateTypes
        <3>. QED  BY <3>1, <3>2, <3>3, <3>4, <1>1, <1>2 DEF StateTypes, Slots
    <2>3. /\ knows' \in [Slots -> Nat] /\ pend' \in [Slots -> Seq(Nat)]
          /\ nummsgs' \in [Slots -> Nat] /\ readMax' \in [Slots -> Int]
        BY <1>1, <1>2, EmptySeq
    <2>4. CallTypes'
        BY <2>3, <1>1, <1>2, <1>5 DEF TypeInt, CallTypes, Slots, Labels, ReadLabels,
           WriteLabels, Frames
    <2>. QED  BY <2>1, <2>2, <2>4 DEF TypeInt
<1>9. LockInv'
    BY <1>1, <1>2, <1>5 DEF LockInv, Locked, Slots
<1>10. RingInv' /\ WriteInv'
    BY <1>1, <1>2, <1>5, RingKept
<1>11. \A t \in Slots \ {s} : active[t] => t <= lastBackend'
    BY <1>1, LastWithoutIs
<1>12. Depth(s)' = 0
    BY <1>1, <1>3 DEF Depth
<1>13. Placed(s)'
    BY <1>4, <1>12 DEF Placed, ReadLabels, WriteLabels
<1>14. Positioned(s)' /\ Delivered(s)' /\ Called(s)'
    BY <1>4, <1>12 DEF Positioned, Current, Delivered, Members, Called, LastCall
<1>15. IInv'
    BY <1>6, <1>7, <1>8, <1>9, <1>10, <1>11, <1>13, <1>14, SlotStep
<1>16. Serial(maxMsgNum)' = Serial(maxMsgNum)
    BY <1>1, <1>5 DEF Serial
<1>17. CASE sendOnly[s]
    <2>1. Members' = Members
        BY <1>17, <1>1, <1>4 DEF Members, Slots
    <2>2. knows' = knows
        BY <1>17, <1>1, <1>2 DEF Placed
    <2>. QED  BY <2>1, <2>2, <1>15, <1>16
<1>18. CASE ~sendOnly[s]
    <2>1. s \in Members /\ Members' = Members \ {s}
        BY <1>18, <1>1, <1>4 DEF Members, Slots
    <2>. QED  BY <2>1, <1>1, <1>15, <1>16
<1>. QED  BY <1>17, <1>18

-----------------------------------------------------------------------------
(***************************************************************************)
(* The invariant holds                                                     *)
(***************************************************************************)

\* Local transaction ids, signals sent and interrupts noted are nothing to the
\* invariant but their types.
LEMMA ElsewhereKeeps ==
    ASSUME IInv, StateTypes',
           UNCHANGED <<ring, active, nextMsgNum, resetState, sendOnly, lastBackend, locks,
                       pc, writing, reading, base, knows>>
    PROVE  IInv'
<1>1. /\ UNCHANGED <<minMsgNum, maxMsgNum, nextThreshold, buffer, writeLock, readers>>
      /\ UNCHANGED <<toInsert, thisTime, written, sent, readMax, pend, nummsgs, frames>>
    BY DEF ring, locks, writing, reading
<1>2. Slots' = Slots
    BY DEF Slots
<1>3. TypeInt'
    BY <1>1, <1>2 DEF IInv, TypeInt, RingTypes, CallTypes
<1>4. PlaceInv' /\ LockInv'
    BY <1>1, <1>2 DEF IInv, PlaceInv, Placed, Depth, LockInv, Locked
<1>5. RingInv' /\ WriteInv'
    BY <1>1, RingKept DEF IInv
<1>6. PositionInv' /\ DeliveryInv'
    BY <1>1, <1>2 DEF IInv, PositionInv, Positioned, Current, DeliveryInv, Delivered,
       Members, Reach, Serial
<1>7. RingGrows /\ TypeInt
    BY <1>1 DEF IInv, RingGrows, TypeInt, RingTypes
<1>8. ASSUME NEW t \in Slots PROVE Called(t)'
    BY <1>1, <1>7, CallsKept DEF IInv, CallInv
<1>. QED  BY <1>2, <1>3, <1>4, <1>5, <1>6, <1>8 DEF IInv, CallInv

LEMMA IInvInit == Init => IInv
<1>. SUFFICES ASSUME Init PROVE IInv
    OBVIOUS
<1>1. \A s \in Slots : /\ ~active[s] /\ ~sendOnly[s] /\ pc[s] = "run"
                       /\ pend[s] = <<>> /\ knows[s] = 0 /\ frames[s] = <<>>
    BY DEF Init
<1>2. \A s \in Slots : Depth(s) = 0
    BY <1>1 DEF Depth
<1>3. MAXNUMMESSAGES \in Nat /\ MSGNUMWRAPAROUND \in Nat \ {0} /\ MaxBackends \in Nat
      /\ CLEANUP_MIN \in Nat
    BY SInvalAssumption
<1>4. TypeInt
    <2>1. RingTypes
        BY <1>3 DEF Init, RingTypes
    <2>2. StateTypes
        BY <1>3 DEF Init, StateTypes
    <2>3. CallTypes
        <3>1. pc \in [Slots -> Labels]
            BY DEF Init, Labels
        <3>2. <<>> \in Seq(Nat) /\ <<>> \in Seq(Frames)
            BY EmptySeq
        <3>. QED  BY <3>1, <3>2 DEF Init, CallTypes
    <2>. QED  BY <2>1, <2>2, <2>3 DEF TypeInt
<1>5. PlaceInv
    BY <1>1, <1>2 DEF PlaceInv, Placed, ReadLabels, WriteLabels
<1>6. LockInv
    BY <1>1, NoSlotAssumption DEF LockInv, Locked, Init
<1>7. RingInv
    BY <1>3 DEF RingInv, CountersBounded, InRing, Init
<1>8. WriteInv /\ PositionInv /\ DeliveryInv
    BY <1>1 DEF WriteInv, Writing, PositionInv, Positioned, Current, DeliveryInv, Delivered,
       Members
<1>9. CallInv
    BY <1>2 DEF CallInv, Called, LastCall
<1>. QED  BY <1>4, <1>5, <1>6, <1>7, <1>8, <1>9 DEF IInv

LEMMA StepKeeps ==
    ASSUME IInv, NEW s \in Slots, Step(s)
    PROVE  IInv'
<1>1. CASE LockForInsert(s)
    BY <1>1, LockForInsertKeeps
<1>2. CASE CleanForInsert(s)
    BY <1>2, CleanForInsertKeeps
<1>3. CASE SignalForInsert(s)
    BY <1>3, SignalForInsertKeeps
<1>4. CASE RelockForInsert(s)
    BY <1>4, RelockForInsertKeeps
<1>5. CASE WriteMessage(s)
    BY <1>5, WriteMessageKeeps
<1>6. CASE Publish(s)
    BY <1>6, PublishKeeps
<1>7. CASE CallInvalFunction(s)
    BY <1>7, CallInvalFunctionKeeps
<1>8. CASE FunctionReturns(s)
    BY <1>8, FunctionReturnsKeeps
<1>9. CASE Fetch(s)
    BY <1>9, FetchKeeps
<1>10. CASE GetReset(s)
    BY <1>10, GetResetKeeps
<1>11. CASE GetBegin(s)
    BY <1>11, GetBeginKeeps
<1>12. CASE ReadMessage(s)
    BY <1>12, ReadMessageKeeps
<1>13. CASE GetEnd(s)
    BY <1>13, GetEndKeeps
<1>14. CASE Finish(s)
    BY <1>14, FinishKeeps
<1>15. CASE PassOn(s)
    BY <1>15, PassOnKeeps
<1>16. CASE Signal(s)
    BY <1>16, SignalKeeps
<1>17. CASE Return(s)
    BY <1>17, ReturnKeeps
<1>18. CASE HandleCatchupInterrupt(s)
    <2>1. StateTypes'
        BY <1>18 DEF HandleCatchupInterrupt, IInv, TypeInt, StateTypes, procState, Slots
    <2>. QED  BY <1>18, <2>1, ElsewhereKeeps DEF HandleCatchupInterrupt, procState
<1>. QED  BY <1>1, <1>2, <1>3, <1>4, <1>5, <1>6, <1>7, <1>8, <1>9, <1>10, <1>11, <1>12,
          <1>13, <1>14, <1>15, <1>16, <1>17, <1>18 DEF Step

LEMMA IInvNext ==
    ASSUME IInv, [Next]_vars
    PROVE  IInv'
<1>1. ASSUME NEW isSendOnly \in BOOLEAN, SharedInvalBackendInit(isSendOnly) PROVE IInv'
    BY <1>1, BackendInitKeeps
<1>2. ASSUME NEW s \in Slots, CleanupInvalidationState(s) PROVE IInv'
    BY <1>2, BackendExitKeeps
<1>3. ASSUME NEW s \in Slots, GetNextLocalTransactionId(s) PROVE IInv'
    <2>1. UNCHANGED <<ring, procState, locks, pc, writing, reading, catchup, base, knows>>
        BY <1>3, Zenon DEF GetNextLocalTransactionId
    <2>2. StateTypes'
        BY <2>1 DEF IInv, TypeInt, StateTypes, procState, catchup, Slots
    <2>. QED  BY <2>1, <2>2, ElsewhereKeeps DEF procState
<1>4. ASSUME NEW s \in Slots, NEW n \in 1..MaxInsert, SIInsertDataEntries(s, n) PROVE IInv'
    BY <1>4, BeginInsert
<1>5. ASSUME NEW s \in Slots, ReceiveSharedInvalidMessages(s) PROVE IInv'
    BY <1>5, ReceiveKeeps
<1>6. ASSUME NEW s \in Slots, FunctionFails(s) PROVE IInv'
    BY <1>6, FunctionFailsKeeps
<1>7. ASSUME NEW s \in Slots, Step(s) PROVE IInv'
    BY <1>7, StepKeeps
<1>8. CASE UNCHANGED vars
    <2>1. UNCHANGED <<ring, procState, locks, pc, writing, reading, catchup, base, knows>>
        BY <1>8 DEF vars
    <2>2. StateTypes'
        BY <2>1 DEF IInv, TypeInt, StateTypes, procState, catchup, Slots
    <2>. QED  BY <2>1, <2>2, ElsewhereKeeps DEF procState
<1>. QED  BY <1>1, <1>2, <1>3, <1>4, <1>5, <1>6, <1>7, <1>8 DEF Next

\* The inductive invariant of the shared invalidation queue.
THEOREM IInvHolds == Spec => []IInv
<1>1. IInv /\ [Next]_vars => IInv'
    BY IInvNext
<1>. QED  BY <1>1, IInvInit, PTL DEF Spec

-----------------------------------------------------------------------------
(***************************************************************************)
(* Local transaction ids                                                   *)
(***************************************************************************)

\* The counter of slot s, wherever it is kept.
Counter(s) == IF active[s] THEN localLXID[s] ELSE nextLXID[s]

Successive(s) == LXIDFrom(Counter(s)) = (lastLXID[s] % (LXIDModulus - 1)) + 1

\* Counting modulo LXIDModulus and skipping 0 is counting modulo one less.
LEMMA LXIDTurns ==
    ASSUME NEW x \in LXIDs
    PROVE  /\ LXIDFrom(x) \in LXIDs \ {0}
           /\ (LXIDFrom(x) + 1) % LXIDModulus \in LXIDs
           /\ LXIDFrom((LXIDFrom(x) + 1) % LXIDModulus)
                = (LXIDFrom(x) % (LXIDModulus - 1)) + 1
<1>. DEFINE r == LXIDFrom(x)
            n == LXIDModulus
<1>1. n \in Nat \ {0} /\ n > 1 /\ n - 1 \in Nat \ {0}
    BY SInvalAssumption
<1>2. r \in 1..n - 1
    BY <1>1 DEF LXIDFrom, InvalidLXID, LXIDs
<1>. HIDE DEF r
<1>3. CASE r = n - 1
    <2>1. (r + 1) % n = 0 /\ r % (n - 1) = 0
        BY <1>1, <1>3
    <2>. QED  BY <2>1, <1>1, <1>2 DEF r, LXIDFrom, InvalidLXID, LXIDs
<1>4. CASE r # n - 1
    <2>1. (r + 1) % n = r + 1 /\ r % (n - 1) = r
        BY <1>1, <1>2, <1>4
    <2>2. LXIDFrom(r + 1) = r + 1
        BY <1>2 DEF LXIDFrom, InvalidLXID
    <2>. QED  BY <2>1, <2>2, <1>1, <1>2, <1>4 DEF r, LXIDs
<1>. QED  BY <1>3, <1>4

LEMMA LXIDInvInit == Init => LXIDInv
<1>. SUFFICES ASSUME Init PROVE LXIDInv
    OBVIOUS
<1>1. LXIDModulus \in Nat /\ LXIDModulus - 1 \in Nat \ {0}
    BY SInvalAssumption
<1>2. 0 % (LXIDModulus - 1) = 0 /\ 0 \in LXIDs
    BY <1>1 DEF LXIDs
<1>3. LXIDTypes
    BY <1>2 DEF Init, LXIDTypes, InvalidLXID
<1>4. \A s \in Slots : /\ LXIDFrom(IF active[s] THEN localLXID[s] ELSE nextLXID[s]) = 1
                       /\ lastLXID[s] = 0
    BY DEF Init, LXIDFrom, InvalidLXID
<1>. QED  BY <1>2, <1>3, <1>4 DEF LXIDInv

\* The four places where the ids and the slots change; each keeps the counter
\* of its slot, or gives the next id from it.
LEMMA LXIDInvNext ==
    ASSUME IInv, LXIDInv, [Next]_vars
    PROVE  /\ LXIDInv'
           /\ \A s \in Slots : issued'[s] # issued[s] =>
                lastLXID'[s] = (lastLXID[s] % (LXIDModulus - 1)) + 1
<1>1. /\ nextLXID \in [Slots -> LXIDs] /\ localLXID \in [Slots -> LXIDs]
      /\ lastLXID \in [Slots -> LXIDs] /\ issued \in [Slots -> Nat]
      /\ active \in [Slots -> BOOLEAN]
      /\ Slots' = Slots /\ LXIDs' = LXIDs /\ 0 \in LXIDs
      /\ \A s \in Slots : Successive(s)
    BY SInvalAssumption DEF LXIDInv, LXIDTypes, IInv, TypeInt, StateTypes, Slots, LXIDs,
       Successive, Counter
<1>2. ASSUME LXIDTypes', UNCHANGED issued, \A t \in Slots : Successive(t)'
      PROVE  /\ LXIDInv'
             /\ \A s \in Slots : issued'[s] # issued[s] =>
                lastLXID'[s] = (lastLXID[s] % (LXIDModulus - 1)) + 1
    BY <1>1, <1>2 DEF LXIDInv, Successive, Counter
<1>3. ASSUME UNCHANGED <<active, lxids>>
      PROVE  LXIDTypes' /\ UNCHANGED issued /\ \A t \in Slots : Successive(t)'
    BY <1>1, <1>3 DEF lxids, LXIDTypes, Successive, Counter
<1>4. ASSUME NEW isSendOnly \in BOOLEAN, SharedInvalBackendInit(isSendOnly)
      PROVE  LXIDTypes' /\ UNCHANGED issued /\ \A t \in Slots : Successive(t)'
    <2>1. PICK s \in Slots : s = SlotForNewBackend /\ ~active[s]
        <3>1. SlotForNewBackend # NoSlot
            BY <1>4 DEF SharedInvalBackendInit
        <3>. QED  BY <3>1, SlotForNewIs
    <2>2. /\ localLXID' = [localLXID EXCEPT ![s] = nextLXID[s]]
          /\ active' = [active EXCEPT ![s] = TRUE]
          /\ UNCHANGED <<nextLXID, lastLXID, issued>>
        BY <1>4, <2>1 DEF SharedInvalBackendInit
    <2>3. LXIDTypes'
        BY <1>1, <2>2 DEF LXIDTypes
    <2>4. \A t \in Slots : Counter(t)' = Counter(t)
        BY <1>1, <2>1, <2>2 DEF Counter
    <2>. QED  BY <1>1, <2>2, <2>3, <2>4 DEF Successive
<1>5. ASSUME NEW s \in Slots, CleanupInvalidationState(s)
      PROVE  LXIDTypes' /\ UNCHANGED issued /\ \A t \in Slots : Successive(t)'
    <2>1. /\ active[s]
          /\ nextLXID' = [nextLXID EXCEPT ![s] = localLXID[s]]
          /\ localLXID' = [localLXID EXCEPT ![s] = InvalidLXID]
          /\ active' = [active EXCEPT ![s] = FALSE]
          /\ UNCHANGED <<lastLXID, issued>>
        BY <1>5 DEF CleanupInvalidationState, Running, LXIDSaved
    <2>2. LXIDTypes'
        BY <1>1, <2>1 DEF LXIDTypes, InvalidLXID
    <2>3. \A t \in Slots : Counter(t)' = Counter(t)
        BY <1>1, <2>1 DEF Counter
    <2>. QED  BY <1>1, <2>1, <2>2, <2>3 DEF Successive
<1>6. ASSUME NEW s \in Slots, GetNextLocalTransactionId(s)
      PROVE  /\ LXIDInv'
             /\ \A t \in Slots : issued'[t] # issued[t] =>
                lastLXID'[t] = (lastLXID[t] % (LXIDModulus - 1)) + 1
    <2>. DEFINE r == LXIDFrom(localLXID[s])
                c == (r + 1) % LXIDModulus
    <2>1. /\ active[s]
          /\ lastLXID' = [lastLXID EXCEPT ![s] = r]
          /\ localLXID' = [localLXID EXCEPT ![s] = c]
          /\ issued' = [issued EXCEPT ![s] = @ + 1]
          /\ UNCHANGED procState /\ UNCHANGED nextLXID
        BY <1>6, Zenon DEF GetNextLocalTransactionId, Running
    <2>2. localLXID[s] \in LXIDs
        BY <1>1
    <2>3. /\ r \in LXIDs \ {0} /\ c \in LXIDs
          /\ LXIDFrom(c) = (r % (LXIDModulus - 1)) + 1
        BY <2>2, LXIDTurns
    <2>4. r = (lastLXID[s] % (LXIDModulus - 1)) + 1
        BY <1>1, <2>1 DEF Successive, Counter
    <2>. HIDE DEF r, c
    <2>5. UNCHANGED active
        BY <2>1 DEF procState
    <2>6. LXIDTypes'
        BY <1>1, <2>1, <2>3 DEF LXIDTypes
    <2>7. ASSUME NEW t \in Slots PROVE Successive(t)'
        <3>1. CASE t = s
            <4>1. Counter(t)' = c /\ lastLXID'[t] = r
                BY <1>1, <2>1, <2>5, <3>1 DEF Counter
            <4>. QED  BY <4>1, <2>3 DEF Successive
        <3>2. CASE t # s
            <4>1. Counter(t)' = Counter(t) /\ lastLXID'[t] = lastLXID[t]
                BY <1>1, <2>1, <2>5, <3>2 DEF Counter
            <4>. QED  BY <4>1, <1>1 DEF Successive
        <3>. QED  BY <3>1, <3>2
    <2>8. \A t \in Slots : issued'[t] # issued[t] => t = s
        BY <1>1, <2>1
    <2>9. lastLXID'[s] = r
        BY <1>1, <2>1
    <2>. QED  BY <1>1, <2>4, <2>6, <2>7, <2>8, <2>9 DEF LXIDInv, Successive, Counter
<1>7. ASSUME NEW s \in Slots, NEW n \in 1..MaxInsert, SIInsertDataEntries(s, n)
      PROVE  UNCHANGED <<active, lxids>>
    BY <1>7 DEF SIInsertDataEntries, procState
<1>8. ASSUME NEW s \in Slots, ReceiveSharedInvalidMessages(s) \/ FunctionFails(s)
      PROVE  UNCHANGED <<active, lxids>>
    BY <1>8 DEF ReceiveSharedInvalidMessages, FunctionFails, procState
<1>9. ASSUME NEW s \in Slots, Step(s)
      PROVE  UNCHANGED <<active, lxids>>
    BY <1>9 DEF Step, LockForInsert, CleanForInsert, SignalForInsert, RelockForInsert,
       WriteMessage, Publish, CallInvalFunction, FunctionReturns, Fetch, GetReset, GetBegin,
       ReadMessage, GetEnd, Finish, PassOn, Signal, Return, HandleCatchupInterrupt,
       CleanupSection, procState
<1>10. UNCHANGED vars => UNCHANGED <<active, lxids>>
    BY DEF vars, procState
<1>. QED  BY <1>2, <1>3, <1>4, <1>5, <1>6, <1>7, <1>8, <1>9, <1>10 DEF Next

LEMMA LXIDInvHolds == Spec => [](IInv /\ LXIDInv)
<1>1. IInv /\ LXIDInv /\ [Next]_vars => (IInv /\ LXIDInv)'
    BY IInvNext, LXIDInvNext
<1>. QED  BY <1>1, IInvInit, LXIDInvInit, PTL DEF Spec

\* The backends of a slot, one after the other, are given successive local
\* transaction ids, none of them the invalid one (GetNextLocalTransactionId,
\* and the counter handed on in procState by CleanupInvalidationState and
\* SharedInvalBackendInit).
THEOREM LXIDsSuccessiveHolds == Spec => LXIDsSuccessive
<1>1. IInv /\ LXIDInv /\ [Next]_vars =>
        [\A s \in Slots : issued'[s] # issued[s] =>
            lastLXID'[s] = (lastLXID[s] % (LXIDModulus - 1)) + 1]_vars
    BY LXIDInvNext
<1>. QED  BY <1>1, LXIDInvHolds, PTL DEF Spec, LXIDsSuccessive

-----------------------------------------------------------------------------
(***************************************************************************)
(* What the invariant gives                                                *)
(***************************************************************************)

\* No message that a backend has still to read is overwritten, whatever the
\* writers do while the locks are given up for a signal, and the counters stay
\* bounded across wraparounds (SIInsertDataEntries, SICleanupQueue).
THEOREM UnreadMessagesIntactHolds == Spec => []UnreadMessagesIntact
<1>1. IInv /\ LXIDInv => UnreadMessagesIntact
    <2>. SUFFICES ASSUME IInv, LXIDInv PROVE UnreadMessagesIntact
        OBVIOUS
    <2>1. /\ nextLXID \in [Slots -> Nat] /\ localLXID \in [Slots -> Nat]
          /\ lastLXID \in [Slots -> Nat] /\ issued \in [Slots -> Nat]
        <3>1. LXIDs \subseteq Nat
            BY SInvalAssumption DEF LXIDs
        <3>. QED  BY <3>1 DEF LXIDInv, LXIDTypes
    <2>2. lastBackend \in Nat
        BY RingSize DEF IInv, TypeInt, StateTypes
    <2>3. TypeOK
        BY <2>1, <2>2 DEF TypeOK, IInv, TypeInt, RingTypes, StateTypes, CallTypes
    <2>. QED  BY <2>3 DEF UnreadMessagesIntact, IInv, RingInv, InRing, PositionInv, Positioned,
              Current
<1>. QED  BY <1>1, LXIDInvHolds, PTL

\* What a backend has fetched and what it will read next continue what its
\* caches reflect, with no gap and no repetition (ReceiveSharedInvalidMessages,
\* SIGetDataEntries).
THEOREM DeliveryInOrderHolds == Spec => []DeliveryInOrder
<1>1. IInv => DeliveryInOrder
    BY DEF IInv, DeliveryInv, Delivered, DeliveryInOrder, Current, Members, Reach
<1>. QED  BY <1>1, IInvHolds, PTL

\* ReceiveSharedInvalidMessages processes all messages that had been queued
\* before it was entered, recursive calls included.
THEOREM CaughtUpOnReturnHolds == Spec => []CaughtUpOnReturn
<1>1. IInv => CaughtUpOnReturn
    <2>. SUFFICES ASSUME IInv, NEW s \in Slots, pc[s] \in {"passOn", "signal", "return"}
                  PROVE  knows[s] >= Top(s).entry
        BY DEF CaughtUpOnReturn
    <2>1. TypeInt /\ Depth(s) # 0 /\ LastCall(s)
        BY DEF IInv, PlaceInv, Placed, ReadLabels, CallInv, Called
    <2>2. Top(s).entry <= knows[s]
        BY <2>1 DEF LastCall
    <2>3. Depth(s) \in 1..Depth(s)
        BY <2>1, CallTyped
    <2>4. Top(s).entry \in Nat /\ knows[s] \in Nat
        BY <2>1, <2>3, CallTyped DEF Top
    <2>. QED  BY <2>2, <2>4
<1>. QED  BY <1>1, IInvHolds, PTL

\* Cleanup looks at every active backend, though it stops at lastBackend.
THEOREM ActiveBackendsSeenHolds == Spec => []ActiveBackendsSeen
<1>1. IInv => ActiveBackendsSeen
    BY DEF IInv, PlaceInv, Placed, ActiveBackendsSeen
<1>. QED  BY <1>1, IInvHolds, PTL

LEMMA ThresholdAbove ==
    ASSUME NEW m \in Nat
    PROVE  m < Threshold(m)
<1>1. CLEANUP_MIN \in Nat /\ CLEANUP_QUANTUM \in Nat \ {0}
    BY SInvalAssumption
<1>. DEFINE q == m \div CLEANUP_QUANTUM
            r == m % CLEANUP_QUANTUM
<1>2. m = CLEANUP_QUANTUM * q + r /\ r \in 0..CLEANUP_QUANTUM - 1 /\ q \in Int
    BY <1>1, Division
<1>. HIDE DEF q, r
<1>3. (q + 1) * CLEANUP_QUANTUM = CLEANUP_QUANTUM * q + CLEANUP_QUANTUM
    BY <1>1, <1>2
<1>4. m < (q + 1) * CLEANUP_QUANTUM
    BY <1>1, <1>2, <1>3
<1>. QED  BY <1>1, <1>4 DEF Threshold, q

\* A writer that cleans up and need not signal has room for its messages, so
\* that its loop goes round again only after a signal (SIInsertDataEntries).
THEOREM CleanupMakesRoomHolds == Spec => CleanupMakesRoom
<1>1. ASSUME IInv, NEW s \in Slots, CleanForInsert(s)
      PROVE  ~MustClean(thisTime[s])'
    <2>. DEFINE n == thisTime[s]
                min == NewMin(n)
                wrap == Wrap(min)
    <2>1. /\ pc[s] = "check" /\ UNCHANGED thisTime
          /\ minMsgNum' = min - wrap /\ maxMsgNum' = maxMsgNum - wrap
          /\ nextThreshold' = Threshold(maxMsgNum - min)
        BY <1>1 DEF CleanForInsert, CleanupSection, writing
    <2>2. n \in 1..WRITE_QUANTUM /\ n \in 0..MAXNUMMESSAGES
        BY <1>1, <2>1, RingSize DEF IInv, PlaceInv, Placed, WriteLabels
    <2>3. /\ min \in Nat /\ min <= maxMsgNum /\ maxMsgNum \in Nat
          /\ maxMsgNum - min <= MAXNUMMESSAGES - n /\ MAXNUMMESSAGES \in Nat
        BY <1>1, <2>2, NewMinIs, RingSize DEF IInv, TypeInt, RingTypes
    <2>4. wrap \in Nat
        BY <1>1, <2>3, WrapIs
    <2>. HIDE DEF n, min, wrap
    <2>5. maxMsgNum' - minMsgNum' = maxMsgNum - min /\ maxMsgNum - min \in Nat
        BY <2>1, <2>3, <2>4
    <2>6. maxMsgNum - min < Threshold(maxMsgNum - min)
        BY <2>5, ThresholdAbove
    <2>7. Threshold(maxMsgNum - min) \in Nat
        BY <2>5, ThresholdIs
    <2>8. thisTime'[s] = n
        BY <2>1 DEF n
    <2>9. MustClean(thisTime[s])' <=>
            \/ maxMsgNum' - minMsgNum' + thisTime'[s] > MAXNUMMESSAGES
            \/ maxMsgNum' - minMsgNum' >= nextThreshold'
        BY DEF MustClean
    <2>. QED  BY <2>1, <2>2, <2>3, <2>5, <2>6, <2>7, <2>8, <2>9
<1>2. IInv /\ [Next]_vars =>
        [\A s \in Slots : CleanForInsert(s) /\ signalTo'[s] = NoSlot
            => ~MustClean(thisTime[s])']_vars
    BY <1>1
<1>. QED  BY <1>2, IInvHolds, PTL DEF Spec, CleanupMakesRoom

-----------------------------------------------------------------------------
(***************************************************************************)
(* The refinement of InvalBus                                              *)
(***************************************************************************)

\* What the abstract specification sees of a step.
BusKept == /\ Serial(maxMsgNum)' = Serial(maxMsgNum)
           /\ Members' = Members /\ knows' = knows

LEMMA BusKeptIs ==
    ASSUME BusKept PROVE UNCHANGED Abstract!vars
BY DEF BusKept, Members, Abstract!vars

\* The steps inside a call that publish, take or reset, and the others.
LEMMA StepIs ==
    ASSUME IInv, NEW s \in Slots, Step(s)
    PROVE  [Abstract!Next]_(Abstract!vars)
<1>1. /\ maxMsgNum \in Nat /\ base \in Nat /\ knows \in [Slots -> Nat]
    BY DEF IInv, TypeInt, RingTypes, CallTypes
<1>2. ASSUME UNCHANGED <<maxMsgNum, base, active, sendOnly, knows>> PROVE BusKept
    BY <1>2 DEF BusKept, Serial, Members, Slots
<1>3. CASE Publish(s)
    <2>1. thisTime[s] \in 1..WRITE_QUANTUM /\ WRITE_QUANTUM \in Nat
        BY <1>3, RingSize DEF Publish, IInv, PlaceInv, Placed, WriteLabels
    <2>2. /\ maxMsgNum' = maxMsgNum + thisTime[s]
          /\ UNCHANGED <<base, active, sendOnly, knows>>
        BY <1>3 DEF Publish, procState
    <2>3. Serial(maxMsgNum)' > Serial(maxMsgNum)
        BY <2>1, <2>2, <1>1 DEF Serial
    <2>4. Members' = Members
        BY <2>2 DEF Members, Slots
    <2>5. Abstract!Publish
        BY <2>2, <2>3, <2>4 DEF Abstract!Publish, Members
    <2>. QED  BY <2>5 DEF Abstract!Next
<1>4. CASE CallInvalFunction(s)
    <2>1. /\ s \in Members /\ knows[s] < Serial(maxMsgNum)
          /\ knows' = [knows EXCEPT ![s] = knows[s] + 1]
        BY <1>4, CallInvalFunctionKeeps
    <2>2. UNCHANGED <<maxMsgNum, base, active, sendOnly>>
        BY <1>4 DEF CallInvalFunction, ring, procState
    <2>3. Serial(maxMsgNum)' = Serial(maxMsgNum) /\ Members' = Members
        BY <2>2 DEF Serial, Members, Slots
    <2>4. Abstract!Take(s)
        BY <2>1, <2>3 DEF Abstract!Take, Members
    <2>. QED  BY <2>4 DEF Abstract!Next
<1>5. CASE GetReset(s)
    <2>1. s \in Members /\ knows' = [knows EXCEPT ![s] = Serial(maxMsgNum)]
        BY <1>5, GetResetKeeps
    <2>2. UNCHANGED <<maxMsgNum, base, active, sendOnly>>
        BY <1>5 DEF GetReset, ring
    <2>3. Serial(maxMsgNum)' = Serial(maxMsgNum) /\ Members' = Members
        BY <2>2 DEF Serial, Members, Slots
    <2>4. Abstract!Reset(s)
        BY <2>1, <2>3 DEF Abstract!Reset, Members
    <2>. QED  BY <2>4 DEF Abstract!Next
<1>6. CASE CleanForInsert(s)
    <2>1. Serial(maxMsgNum)' = Serial(maxMsgNum)
        BY <1>6, CleanForInsertKeeps
    <2>2. UNCHANGED <<active, sendOnly, knows>>
        BY <1>6 DEF CleanForInsert, CleanupSection
    <2>3. BusKept
        BY <2>1, <2>2 DEF BusKept, Members, Slots
    <2>. QED  BY <2>3, BusKeptIs
<1>7. CASE PassOn(s)
    <2>1. Serial(maxMsgNum)' = Serial(maxMsgNum)
        BY <1>7, PassOnKeeps
    <2>2. UNCHANGED <<active, sendOnly, knows>>
        BY <1>7 DEF PassOn, CleanupSection
    <2>3. BusKept
        BY <2>1, <2>2 DEF BusKept, Members, Slots
    <2>. QED  BY <2>3, BusKeptIs
<1>8. CASE LockForInsert(s) \/ SignalForInsert(s) \/ RelockForInsert(s) \/ WriteMessage(s)
    <2>1. UNCHANGED <<maxMsgNum, base, active, sendOnly, knows>>
        BY <1>8 DEF LockForInsert, SignalForInsert, RelockForInsert, WriteMessage, ring,
           procState
    <2>. QED  BY <2>1, <1>2, BusKeptIs
<1>9. CASE \/ FunctionReturns(s) \/ Fetch(s) \/ GetBegin(s) \/ ReadMessage(s) \/ GetEnd(s)
           \/ Finish(s) \/ Signal(s) \/ Return(s) \/ HandleCatchupInterrupt(s)
    <2>1. UNCHANGED <<maxMsgNum, base, active, sendOnly, knows>>
        BY <1>9 DEF FunctionReturns, Fetch, GetBegin, ReadMessage, GetEnd, Finish, Signal,
           Return, HandleCatchupInterrupt, ring, procState
    <2>. QED  BY <2>1, <1>2, BusKeptIs
<1>. QED  BY <1>3, <1>4, <1>5, <1>6, <1>7, <1>8, <1>9 DEF Step

LEMMA NextIs ==
    ASSUME IInv, [Next]_vars
    PROVE  [Abstract!Next]_(Abstract!vars)
<1>1. ASSUME UNCHANGED <<maxMsgNum, base, active, sendOnly, knows>>
      PROVE  [Abstract!Next]_(Abstract!vars)
    <2>1. BusKept
        BY <1>1 DEF BusKept, Serial, Members, Slots
    <2>. QED  BY <2>1, BusKeptIs
<1>2. ASSUME NEW isSendOnly \in BOOLEAN, SharedInvalBackendInit(isSendOnly)
      PROVE  [Abstract!Next]_(Abstract!vars)
    <2>1. /\ Serial(maxMsgNum)' = Serial(maxMsgNum)
          /\ \/ Members' = Members /\ knows' = knows
             \/ \E s \in Slots \ Members :
                    /\ Members' = Members \union {s}
                    /\ knows' = [knows EXCEPT ![s] = Serial(maxMsgNum)]
        BY <1>2, BackendInitKeeps
    <2>2. CASE Members' = Members /\ knows' = knows
        BY <2>1, <2>2, BusKeptIs DEF BusKept
    <2>3. ASSUME NEW s \in Slots \ Members, Members' = Members \union {s},
                 knows' = [knows EXCEPT ![s] = Serial(maxMsgNum)]
          PROVE  Abstract!Next
        <3>1. Abstract!Join(s)
            BY <2>1, <2>3 DEF Abstract!Join, Members
        <3>. QED  BY <3>1 DEF Abstract!Next
    <2>. QED  BY <2>1, <2>2, <2>3
<1>3. ASSUME NEW s \in Slots, CleanupInvalidationState(s)
      PROVE  [Abstract!Next]_(Abstract!vars)
    <2>1. /\ Serial(maxMsgNum)' = Serial(maxMsgNum)
          /\ \/ Members' = Members /\ knows' = knows
             \/ s \in Members /\ Members' = Members \ {s} /\ knows' = [knows EXCEPT ![s] = 0]
        BY <1>3, BackendExitKeeps
    <2>2. CASE Members' = Members /\ knows' = knows
        BY <2>1, <2>2, BusKeptIs DEF BusKept
    <2>3. CASE s \in Members /\ Members' = Members \ {s} /\ knows' = [knows EXCEPT ![s] = 0]
        <3>1. Abstract!Leave(s)
            BY <2>1, <2>3 DEF Abstract!Leave, Members
        <3>. QED  BY <3>1 DEF Abstract!Next
    <2>. QED  BY <2>1, <2>2, <2>3
<1>4. ASSUME NEW s \in Slots, GetNextLocalTransactionId(s)
      PROVE  [Abstract!Next]_(Abstract!vars)
    <2>1. UNCHANGED <<ring, procState, base, knows>>
        BY <1>4, Zenon DEF GetNextLocalTransactionId
    <2>. QED  BY <2>1, <1>1 DEF ring, procState
<1>5. ASSUME NEW s \in Slots, NEW n \in 1..MaxInsert, SIInsertDataEntries(s, n)
      PROVE  [Abstract!Next]_(Abstract!vars)
    BY <1>5, <1>1 DEF SIInsertDataEntries, ring, procState
<1>6. ASSUME NEW s \in Slots, ReceiveSharedInvalidMessages(s) \/ FunctionFails(s)
      PROVE  [Abstract!Next]_(Abstract!vars)
    BY <1>6, <1>1 DEF ReceiveSharedInvalidMessages, FunctionFails, ring, procState
<1>7. ASSUME NEW s \in Slots, Step(s)
      PROVE  [Abstract!Next]_(Abstract!vars)
    BY <1>7, StepIs
<1>8. CASE UNCHANGED vars
    BY <1>8, <1>1 DEF vars, ring, procState
<1>. QED  BY <1>2, <1>3, <1>4, <1>5, <1>6, <1>7, <1>8 DEF Next

LEMMA InitIs == Init => Abstract!Init
<1>. SUFFICES ASSUME Init PROVE Abstract!Init
    OBVIOUS
<1>1. Serial(maxMsgNum) = 0 /\ Members = {}
    BY DEF Init, Serial, Members
<1>2. knows = [s \in Slots |-> 0]
    BY DEF Init
<1>. QED  BY <1>1, <1>2 DEF Abstract!Init, Members

\* The ring with its two locks, its cleanups, resets and signals implements a
\* broadcast: every member takes the messages one by one in the order they were
\* published in, from where it joined, or jumps ahead of them by a reset.
THEOREM RefinesInvalBus == Spec => ImplementsInvalBus
<1>1. IInv /\ [Next]_vars => [Abstract!Next]_(Abstract!vars)
    BY NextIs
<1>. QED  BY <1>1, InitIs, IInvHolds, PTL DEF Spec, ImplementsInvalBus, Abstract!Spec

-----------------------------------------------------------------------------
(***************************************************************************)
(* How a backend reacts to the signals while it waits for its client:      *)
(* the invariant of IdleInterrupts                                         *)
(***************************************************************************)

FrameType == [kind : Kinds, at : Places, reenable : BOOLEAN]
FlagType == [Kinds -> BOOLEAN]

MainPlaces == {"busy", "prepareNotify", "prepareCatchup", "wait", "ended",
               "endedCatchup", "cleanup", "cleanupCatchup", "abort"}
CancelPlaces == {"cancel", "cancelCatchup"}
HandlerPlaces == {"sigusr1", "sigusr1Notify", "end"}
ProcessPlaces == {"process", "save", "disableOther", "work", "reenable"}

\* Both kinds are disabled.
Quiet == {"busy", "prepareNotify", "abort", "work", "reenable"}

\* A handler that only leaves a note.
Noting == HandlerPlaces \cup {"handle", "handleDisabled"}

\* Kind k is disabled as long as frame f is in the stack.
Blocks(f, k) ==
  \/ f.at \in Quiet
  \/ f.kind = k /\ f.at \in {"enable", "testAgain", "handleNote", "handleDisabled"}
  \/ f.kind = Other(k) /\ f.at = "disableOther" /\ ~f.reenable
  \/ k = "notify" /\ f.at \in {"endedCatchup", "cleanupCatchup"}
  \/ k = "catchup" /\ f.at = "prepareCatchup"

\* Frame f has taken the flag of k down, and will put it up again.
Borrows(f, k) ==
  \/ f.kind = k /\ f.at \in {"enable", "testAgain", "handleNote"}
  \/ f.kind = Other(k) /\ f.at \in {"work", "reenable"} /\ f.reenable

\* What EnableWorks says, with ib for inBlock.
Works(k, ib) == k = "notify" => ~ib

\* Frame f finds k enabled, unless a frame above has borrowed the flag.
Entitled(f, k, ib, ca) ==
  \/ f.kind = k /\ f.at \in {"test", "disable", "handleEnabled"}
  \/ f.kind = Other(k) /\ f.at = "disableOther" /\ f.reenable
  \/ f.at = "wait" /\ ca = 0 /\ Works(k, ib)
  \/ f.at = "prepareCatchup" /\ k = "notify" /\ Works(k, ib)

\* Frame f is about to look for a note.
Looks(f, k) == f.kind = k /\ f.at \in {"test", "disable"}

\* The order in which frames can lie on each other.
Shape(s, ca) ==
  /\ \A i \in 1..Len(s) : s[i].at \in MainPlaces <=> i = 1
  /\ \A i \in 1..Len(s) : s[i].at \in ProcessPlaces =>
        i > 1 /\ s[i - 1].at = "enable" /\ s[i - 1].kind = s[i].kind
  /\ \A i \in 1..Len(s) : s[i].at \in CancelPlaces =>
        i = 2 /\ s[1].at = "wait" /\ ca > 0
  /\ \A i \in 2..Len(s) - 1 :
        s[i].at = "enable" \/ s[i].at \in HandlerPlaces \/ s[i + 1].at \in HandlerPlaces
  /\ \A i, j \in 1..Len(s) :
        s[i].at \in HandlerPlaces /\ s[j].at \in HandlerPlaces => i = j

BlockedIsDown(s, en) ==
  \A i \in 1..Len(s), k \in Kinds : Blocks(s[i], k) => ~en[k]

\* A flag that is borrowed was up: nobody below wants it down.
BorrowedWasUp(s) ==
  \A i, j \in 1..Len(s), k \in Kinds : i < j /\ Borrows(s[j], k) => ~Blocks(s[i], k)

EntitledIsServed(s, en, ib, ca) ==
  \A i \in 1..Len(s), k \in Kinds : Entitled(s[i], k, ib, ca) =>
     en[k] \/ \E j \in 1..Len(s) : i < j /\ Borrows(s[j], k)

ClosedInBlock(s, en, ib, ca) ==
  ib => /\ ~en["notify"]
        /\ \A i \in 1..Len(s) : /\ ~Borrows(s[i], "notify")
                                /\ ~Entitled(s[i], "notify", ib, ca)

QuietIsQuiet(s) ==
  \A i, j \in 1..Len(s) : i < j /\ s[i].at \in Quiet => s[j].at \in Noting

NotesAreFound(s, en, oc) ==
  \A k \in Kinds : en[k] /\ oc[k] => \E i \in 1..Len(s) : Looks(s[i], k)

\* The invariant, for stack s, flags en and oc, block state ib and cancels ca.
StackInv(s, en, oc, ib, ca) ==
  /\ Shape(s, ca)
  /\ BlockedIsDown(s, en)
  /\ BorrowedWasUp(s)
  /\ EntitledIsServed(s, en, ib, ca)
  /\ ClosedInBlock(s, en, ib, ca)
  /\ QuietIsQuiet(s)
  /\ NotesAreFound(s, en, oc)

ClientTypes ==
  /\ enabled \in FlagType
  /\ noted \in FlagType
  /\ signalFlag \in FlagType
  /\ {sigusr1, inBlock, listening} \subseteq BOOLEAN
  /\ stack \in Seq(FrameType)
  /\ stack # <<>>
  /\ cancels \in Nat

ClientInv == ClientTypes /\ StackInv(stack, enabled, noted, inBlock, cancels)

FrameChanged(s, t, f) ==
  /\ t \in Seq(FrameType) /\ Len(t) = Len(s) /\ t[Len(s)] = f
  /\ \A i \in 1..Len(s) - 1 : t[i] = s[i]

FrameCalled(s, t, f, g) ==
  /\ t \in Seq(FrameType) /\ Len(t) = Len(s) + 1 /\ t[Len(s)] = f /\ t[Len(s) + 1] = g
  /\ \A i \in 1..Len(s) - 1 : t[i] = s[i]

FrameReturned(s, t) ==
  /\ t \in Seq(FrameType) /\ Len(s) > 1 /\ Len(t) = Len(s) - 1
  /\ \A i \in 1..Len(t) : t[i] = s[i]

NobodyEntitled(s, ib, ca) ==
  \A i \in 1..Len(s) - 1, k \in Kinds : ~Entitled(s[i], k, ib, ca)

\* The conditions under which the top e of stack s may become f, while en and oc
\* become en2 and oc2.
SafeChange(s, e, f, en, en2, oc, oc2, ib, ca) ==
  /\ f.at \in MainPlaces <=> e.at \in MainPlaces
  /\ f.at \in ProcessPlaces => e.at \in ProcessPlaces /\ f.kind = e.kind
  /\ f.at \in CancelPlaces => e.at \in CancelPlaces
  /\ f.at \in HandlerPlaces <=> e.at \in HandlerPlaces
  /\ \A k \in Kinds : Blocks(f, k) => ~en2[k]
  /\ \A k \in Kinds : en2[k] => en[k] \/ Borrows(e, k)
  /\ \A k \in Kinds : Borrows(f, k) => en[k] \/ Borrows(e, k)
  /\ \A k \in Kinds : Entitled(f, k, ib, ca) => en2[k]
  /\ \/ \A k \in Kinds : en[k] \/ Borrows(e, k) => en2[k] \/ Borrows(f, k)
     \/ NobodyEntitled(s, ib, ca)
  /\ f.at \in Noting \/ e.at \notin Noting \/ \E k \in Kinds : en[k]
  /\ \A k \in Kinds : en2[k] /\ oc2[k] => Looks(f, k) \/ (en[k] /\ oc[k]
        /\ ~Looks(e, k))

\* The conditions under which the top e may become f and call g.
SafeCall(s, e, f, g, en, ib, ca) ==
  /\ f.at \in MainPlaces <=> e.at \in MainPlaces
  /\ f.at \in ProcessPlaces => e.at \in ProcessPlaces /\ f.kind = e.kind
  /\ f.at \in CancelPlaces => e.at \in CancelPlaces
  /\ f.at \in HandlerPlaces <=> e.at \in HandlerPlaces
  /\ g.at \notin MainPlaces /\ g.at \notin CancelPlaces
  /\ g.at \in ProcessPlaces => f.at = "enable" /\ f.kind = g.kind
  /\ Len(s) = 1 \/ f.at = "enable" \/ f.at \in HandlerPlaces \/ g.at \in HandlerPlaces
  /\ g.at \in HandlerPlaces => \A i \in 1..Len(s) : s[i].at \notin HandlerPlaces
  /\ \A k \in Kinds : Blocks(f, k) \/ Blocks(g, k) => ~en[k]
  /\ \A k \in Kinds : Borrows(f, k) <=> Borrows(e, k)
  /\ \A k \in Kinds : Borrows(g, k) => Len(s) = 1 /\ ~Blocks(f, k) /\ Works(k, ib)
  /\ \A k \in Kinds : Entitled(f, k, ib, ca) => Works(k, ib) /\ (en[k] \/ Borrows(g,
        k))
  /\ \A k \in Kinds : ~Entitled(g, k, ib, ca)
  /\ f.at \in Noting \/ e.at \notin Noting
  /\ g.at \in Noting \/ (f.at \notin Quiet /\ e.at \notin Noting)
  /\ \A k \in Kinds : Looks(e, k) => Looks(f, k)

\* The conditions under which the top e may return.
SafeReturn(s, e, en, en2, oc, oc2, ib, ca) ==
  /\ \A k \in Kinds : ~Borrows(e, k)
  /\ \A k \in Kinds : en2[k] => en[k]
  /\ (\A k \in Kinds : en[k] => en2[k]) \/ NobodyEntitled(s, ib, ca)
  /\ \A k \in Kinds : en2[k] /\ oc2[k] => en[k] /\ oc[k] /\ ~Looks(e, k)

\* The top of the stack changes.
LEMMA FrameChangeInv ==
    ASSUME NEW s \in Seq(FrameType), NEW t, NEW f \in FrameType, NEW e, e = s[Len(s)],
           s # <<>>,
           NEW en \in FlagType, NEW en2 \in FlagType, NEW oc \in FlagType,
           NEW oc2 \in FlagType,
           NEW ib \in BOOLEAN, NEW ca \in Nat,
           FrameChanged(s, t, f), StackInv(s, en, oc, ib, ca),
           SafeChange(s, e, f, en, en2, oc, oc2, ib, ca)
    PROVE  StackInv(t, en2, oc2, ib, ca)
<1> USE DEF SafeChange, NobodyEntitled
<1> DEFINE n == Len(s)
<1>1. /\ n \in Nat \ {0} /\ Len(t) = n /\ t[n] = f
      /\ \A i \in 1..n - 1 : t[i] = s[i] /\ i \in 1..n
      /\ \A i \in 1..n : i = n \/ i \in 1..n - 1
  BY DEF FrameChanged
<1> HIDE DEF n
<1>2. e = s[n]
  BY DEF n
<1>3. Shape(s, ca)
  BY DEF StackInv
<1>4. Shape(t, ca)
  <2>1. ASSUME NEW i \in 1..n PROVE t[i].at \in MainPlaces <=> i = 1
    <3>1. s[i].at \in MainPlaces <=> i = 1
      BY <1>3, Zenon DEF Shape, n
    <3> QED
      BY <1>1, <1>2, <3>1
  <2>2. ASSUME NEW i \in 1..n, t[i].at \in ProcessPlaces
        PROVE  i > 1 /\ t[i - 1].at = "enable" /\ t[i - 1].kind = t[i].kind
    <3>1. s[i].at \in ProcessPlaces /\ t[i].kind = s[i].kind
      BY <1>1, <1>2, <2>2
    <3>2. i > 1 /\ s[i - 1].at = "enable" /\ s[i - 1].kind = s[i].kind
      BY <1>3, <3>1, Zenon DEF Shape, n
    <3>3. i - 1 \in 1..n - 1
      BY <1>1, <3>2
    <3> QED
      BY <1>1, <3>1, <3>2, <3>3
  <2>3. ASSUME NEW i \in 1..n, t[i].at \in CancelPlaces
        PROVE  i = 2 /\ t[1].at = "wait" /\ ca > 0
    <3>1. s[i].at \in CancelPlaces
      BY <1>1, <1>2, <2>3
    <3>2. i = 2 /\ s[1].at = "wait" /\ ca > 0
      BY <1>3, <3>1, Zenon DEF Shape, n
    <3> QED
      BY <1>1, <3>2
  <2>4. ASSUME NEW i \in 2..n - 1
        PROVE  t[i].at = "enable" \/ t[i].at \in HandlerPlaces
               \/ t[i + 1].at \in HandlerPlaces
    <3>1. s[i].at = "enable" \/ s[i].at \in HandlerPlaces \/ s[i + 1].at \in HandlerPlaces
      BY <1>3, Zenon DEF Shape, n
    <3>2. i \in 1..n - 1 /\ i + 1 \in 1..n
      BY <1>1
    <3> QED
      BY <1>1, <1>2, <3>1, <3>2
  <2>5. ASSUME NEW i \in 1..n, NEW j \in 1..n,
               t[i].at \in HandlerPlaces, t[j].at \in HandlerPlaces
        PROVE  i = j
    <3>1. s[i].at \in HandlerPlaces /\ s[j].at \in HandlerPlaces
      BY <1>1, <1>2, <2>5
    <3> QED
      BY <1>3, <3>1, Zenon DEF Shape, n
  <2> QED
    BY <1>1, <2>1, <2>2, <2>3, <2>4, <2>5, Zenon DEF Shape
<1>5. BlockedIsDown(s, en) /\ BorrowedWasUp(s)
  BY DEF StackInv
<1>6. ASSUME NEW k \in Kinds, en[k] \/ Borrows(e, k), NEW i \in 1..n - 1
      PROVE  ~Blocks(s[i], k)
  <2>1. i \in 1..n /\ n \in 1..n /\ i < n
    BY <1>1
  <2> QED
    BY <1>2, <1>5, <1>6, <2>1, Zenon DEF BlockedIsDown, BorrowedWasUp, n
<1>7. BlockedIsDown(t, en2)
  <2>1. ASSUME NEW i \in 1..n, NEW k \in Kinds, Blocks(t[i], k), en2[k] PROVE FALSE
    <3>1. CASE i = n
      BY <1>1, <2>1, <3>1, Zenon
    <3>2. CASE i \in 1..n - 1
      BY <1>1, <1>6, <2>1, <3>2, Zenon
    <3> QED
      BY <1>1, <3>1, <3>2
  <2> QED
    BY <1>1, <2>1, Zenon DEF BlockedIsDown
<1>8. BorrowedWasUp(t)
  <2>1. ASSUME NEW i \in 1..n, NEW j \in 1..n, NEW k \in Kinds, i < j, Borrows(t[j],
               k)
        PROVE  ~Blocks(t[i], k)
    <3>1. i \in 1..n - 1
      BY <1>1, <2>1
    <3>2. CASE j = n
      BY <1>1, <1>6, <2>1, <3>1, <3>2, Zenon
    <3>3. CASE j \in 1..n - 1
      BY <1>1, <1>5, <2>1, <3>1, <3>3, Zenon DEF BorrowedWasUp, n
    <3> QED
      BY <1>1, <3>2, <3>3
  <2> QED
    BY <1>1, <2>1, Zenon DEF BorrowedWasUp
<1>9. EntitledIsServed(t, en2, ib, ca)
  <2>1. ASSUME NEW i \in 1..n, NEW k \in Kinds, Entitled(t[i], k, ib, ca)
        PROVE  en2[k] \/ \E j \in 1..n : i < j /\ Borrows(t[j], k)
    <3>1. CASE i = n
      BY <1>1, <2>1, <3>1, Zenon
    <3>2. CASE i \in 1..n - 1
      <4>1. Entitled(s[i], k, ib, ca) /\ i < n /\ n \in 1..n
        BY <1>1, <2>1, <3>2
      <4>2. en[k] \/ \E j \in 1..n : i < j /\ Borrows(s[j], k)
        BY <4>1, Zenon DEF StackInv, EntitledIsServed, n
      <4>3. en[k] \/ Borrows(e, k) => en2[k] \/ Borrows(f, k)
        BY <3>2, <4>1, Zenon DEF n
      <4>4. CASE en[k] \/ Borrows(e, k)
        BY <1>1, <4>1, <4>3, <4>4, Zenon
      <4>5. ASSUME NEW j \in 1..n, i < j, Borrows(s[j], k), ~Borrows(e, k)
            PROVE  Borrows(t[j], k)
        <5>1. j \in 1..n - 1
          BY <1>1, <1>2, <4>5
        <5> QED
          BY <1>1, <4>5, <5>1
      <4> QED
        BY <4>2, <4>4, <4>5
    <3> QED
      BY <1>1, <3>1, <3>2
  <2> QED
    BY <1>1, <2>1, Zenon DEF EntitledIsServed
<1>10. ClosedInBlock(t, en2, ib, ca)
  <2>1. ASSUME ib
        PROVE  /\ ~en["notify"]
               /\ \A i \in 1..n : /\ ~Borrows(s[i], "notify")
                                  /\ ~Entitled(s[i], "notify", ib, ca)
    BY <2>1, Zenon DEF StackInv, ClosedInBlock, n
  <2>2. "notify" \in Kinds /\ n \in 1..n
    BY <1>1 DEF Kinds
  <2>3. ASSUME ib PROVE ~en2["notify"] /\ ~Borrows(f, "notify")
    BY <1>2, <2>1, <2>2, <2>3, Zenon
  <2>4. ASSUME ib PROVE ~Entitled(f, "notify", ib, ca)
    BY <2>2, <2>3, <2>4, Zenon
  <2>5. ASSUME ib, NEW i \in 1..n
        PROVE  ~Borrows(t[i], "notify") /\ ~Entitled(t[i], "notify", ib, ca)
    <3>1. CASE i = n
      BY <1>1, <2>3, <2>4, <2>5, <3>1, Zenon
    <3>2. CASE i \in 1..n - 1
      BY <1>1, <2>1, <2>5, <3>2, Zenon
    <3> QED
      BY <1>1, <3>1, <3>2
  <2> QED
    BY <1>1, <2>3, <2>5, Zenon DEF ClosedInBlock
<1>11. QuietIsQuiet(t)
  <2>1. ASSUME NEW i \in 1..n, NEW j \in 1..n, i < j, t[i].at \in Quiet
        PROVE  t[j].at \in Noting
    <3>1. i \in 1..n - 1 /\ s[i].at \in Quiet
      BY <1>1, <2>1
    <3>2. s[j].at \in Noting
      BY <1>1, <2>1, <3>1, Zenon DEF StackInv, QuietIsQuiet, n
    <3>3. CASE j = n
      <4>1. \A k \in Kinds : ~en[k]
        BY <1>1, <1>5, <3>1, Zenon DEF BlockedIsDown, Blocks, n
      <4> QED
        BY <1>1, <1>2, <3>2, <3>3, <4>1, Zenon
    <3>4. CASE j \in 1..n - 1
      BY <1>1, <3>2, <3>4
    <3> QED
      BY <1>1, <3>3, <3>4
  <2> QED
    BY <1>1, <2>1, Zenon DEF QuietIsQuiet
<1>12. NotesAreFound(t, en2, oc2)
  <2>1. ASSUME NEW k \in Kinds, en2[k], oc2[k] PROVE \E i \in 1..n : Looks(t[i], k)
    <3>1. CASE Looks(f, k)
      <4>1. n \in 1..n
        BY <1>1
      <4> QED
        BY <1>1, <3>1, <4>1, Zenon
    <3>2. CASE en[k] /\ oc[k] /\ ~Looks(e, k)
      <4>1. PICK i \in 1..n : Looks(s[i], k)
        BY <3>2, Zenon DEF StackInv, NotesAreFound, n
      <4>2. i \in 1..n - 1
        BY <1>1, <1>2, <3>2, <4>1
      <4> QED
        BY <1>1, <4>1, <4>2, Zenon
    <3> QED
      BY <2>1, <3>1, <3>2, Zenon
  <2> QED
    BY <1>1, <2>1, Zenon DEF NotesAreFound
<1> QED
  BY <1>4, <1>7, <1>8, <1>9, <1>10, <1>11, <1>12, Zenon DEF StackInv

\* The top of the stack changes, and a frame is put on it.
LEMMA FrameCallInv ==
    ASSUME NEW s \in Seq(FrameType), NEW t, NEW f \in FrameType, NEW g \in FrameType,
           NEW e, e = s[Len(s)], s # <<>>,
           NEW en \in FlagType, NEW oc \in FlagType, NEW ib \in BOOLEAN, NEW ca \in Nat,
           FrameCalled(s, t, f, g), StackInv(s, en, oc, ib, ca),
           SafeCall(s, e, f, g, en, ib, ca)
    PROVE  StackInv(t, en, oc, ib, ca)
<1> USE DEF SafeCall
<1> DEFINE n == Len(s)
           m == Len(t)
<1>1. /\ n \in Nat \ {0} /\ m = n + 1 /\ t[n] = f /\ t[m] = g
      /\ \A i \in 1..n - 1 : t[i] = s[i] /\ i \in 1..n /\ i \in 1..m /\ i < n /\ i < m
      /\ \A i \in 1..n : i = n \/ i \in 1..n - 1
      /\ \A i \in 1..m : i = m \/ i = n \/ i \in 1..n - 1
      /\ n \in 1..n /\ n \in 1..m /\ m \in 1..m /\ n < m /\ ~(m < n)
  BY DEF FrameCalled
<1>2. e = s[n] /\ (Len(s) = 1 <=> n = 1)
  BY DEF n
<1>3. Shape(s, ca)
  BY DEF StackInv
<1> HIDE DEF n, m
<1>4. Shape(t, ca)
  <2>1. ASSUME NEW i \in 1..m PROVE t[i].at \in MainPlaces <=> i = 1
    <3>1. CASE i = m
      BY <1>1, <3>1
    <3>2. CASE i \in 1..n
      <4>1. s[i].at \in MainPlaces <=> i = 1
        BY <1>3, <3>2, Zenon DEF Shape, n
      <4> QED
        BY <1>1, <1>2, <3>2, <4>1
    <3> QED
      BY <1>1, <3>1, <3>2
  <2>2. ASSUME NEW i \in 1..m, t[i].at \in ProcessPlaces
        PROVE  i > 1 /\ t[i - 1].at = "enable" /\ t[i - 1].kind = t[i].kind
    <3>1. CASE i = m
      <4>1. i - 1 = n /\ i > 1
        BY <1>1, <3>1
      <4> QED
        BY <1>1, <2>2, <3>1, <4>1
    <3>2. CASE i \in 1..n
      <4>1. s[i].at \in ProcessPlaces /\ t[i].kind = s[i].kind
        BY <1>1, <1>2, <2>2, <3>2
      <4>2. i > 1 /\ s[i - 1].at = "enable" /\ s[i - 1].kind = s[i].kind
        BY <1>3, <3>2, <4>1, Zenon DEF Shape, n
      <4>3. i - 1 \in 1..n - 1
        BY <1>1, <3>2, <4>2
      <4> QED
        BY <1>1, <4>1, <4>2, <4>3
    <3> QED
      BY <1>1, <3>1, <3>2
  <2>3. ASSUME NEW i \in 1..m, t[i].at \in CancelPlaces
        PROVE  i = 2 /\ t[1].at = "wait" /\ ca > 0
    <3>1. i \in 1..n /\ s[i].at \in CancelPlaces
      BY <1>1, <1>2, <2>3
    <3>2. i = 2 /\ s[1].at = "wait" /\ ca > 0
      BY <1>3, <3>1, Zenon DEF Shape, n
    <3>3. 1 \in 1..n - 1
      BY <1>1, <3>1, <3>2
    <3> QED
      BY <1>1, <3>2, <3>3
  <2>4. ASSUME NEW i \in 2..m - 1
        PROVE  t[i].at = "enable" \/ t[i].at \in HandlerPlaces
               \/ t[i + 1].at \in HandlerPlaces
    <3>1. CASE i = n
      <4>1. n # 1 /\ i + 1 = m
        BY <1>1, <3>1
      <4> QED
        BY <1>1, <1>2, <3>1, <4>1
    <3>2. CASE i \in 2..n - 1
      <4>1. s[i].at = "enable" \/ s[i].at \in HandlerPlaces \/ s[i + 1].at \in HandlerPlaces
        BY <1>3, <3>2, Zenon DEF Shape, n
      <4>2. i \in 1..n - 1 /\ i + 1 \in 1..n
        BY <1>1, <3>2
      <4> QED
        BY <1>1, <1>2, <4>1, <4>2
    <3> QED
      BY <1>1, <3>1, <3>2
  <2>5. ASSUME NEW i \in 1..n, t[i].at \in HandlerPlaces PROVE s[i].at \in HandlerPlaces
    BY <1>1, <1>2, <2>5
  <2>6. ASSUME NEW i \in 1..m, NEW j \in 1..m,
               t[i].at \in HandlerPlaces, t[j].at \in HandlerPlaces
        PROVE  i = j
    <3>1. CASE i \in 1..n /\ j \in 1..n
      <4>1. s[i].at \in HandlerPlaces /\ s[j].at \in HandlerPlaces
        BY <2>5, <2>6, <3>1
      <4> QED
        BY <1>3, <3>1, <4>1, Zenon DEF Shape, n
    <3>2. CASE i = m \/ j = m
      <4>1. ASSUME NEW l \in 1..n PROVE ~(t[l].at \in HandlerPlaces
                   /\ g.at \in HandlerPlaces)
        BY <2>5, <4>1, Zenon DEF n
      <4> QED
        BY <1>1, <2>6, <3>2, <4>1
    <3> QED
      BY <1>1, <3>1, <3>2
  <2> QED
    BY <2>1, <2>2, <2>3, <2>4, <2>6, Zenon DEF Shape, m
<1>5. BlockedIsDown(s, en) /\ BorrowedWasUp(s)
  BY DEF StackInv
<1>6. \A i \in 1..n, k \in Kinds : Borrows(t[i], k) <=> Borrows(s[i], k)
  BY <1>1, <1>2
<1>7. BlockedIsDown(t, en)
  <2>1. ASSUME NEW i \in 1..m, NEW k \in Kinds, Blocks(t[i], k) PROVE ~en[k]
    <3>1. CASE i = m \/ i = n
      BY <1>1, <2>1, <3>1, Zenon
    <3>2. CASE i \in 1..n - 1
      BY <1>1, <1>5, <2>1, <3>2, Zenon DEF BlockedIsDown, n
    <3> QED
      BY <1>1, <3>1, <3>2
  <2> QED
    BY <2>1, Zenon DEF BlockedIsDown, m
<1>8. BorrowedWasUp(t)
  <2>1. ASSUME NEW i \in 1..m, NEW j \in 1..m, NEW k \in Kinds, i < j, Borrows(t[j],
               k)
        PROVE  ~Blocks(t[i], k)
    <3>1. CASE j = m
      <4>1. n = 1 /\ ~Blocks(f, k)
        BY <1>1, <1>2, <2>1, <3>1, Zenon
      <4>2. i = n
        BY <1>1, <2>1, <3>1, <4>1
      <4> QED
        BY <1>1, <4>1, <4>2
    <3>2. CASE j \in 1..n
      <4>1. i \in 1..n - 1
        BY <1>1, <2>1, <3>2
      <4>2. Borrows(s[j], k)
        BY <1>6, <2>1, <3>2
      <4>3. ~Blocks(s[i], k)
        BY <1>1, <1>5, <2>1, <3>2, <4>1, <4>2, Zenon DEF BorrowedWasUp, n
      <4> QED
        BY <1>1, <4>1, <4>3
    <3> QED
      BY <1>1, <3>1, <3>2
  <2> QED
    BY <2>1, Zenon DEF BorrowedWasUp, m
<1>9. EntitledIsServed(t, en, ib, ca)
  <2>1. ASSUME NEW i \in 1..m, NEW k \in Kinds, Entitled(t[i], k, ib, ca)
        PROVE  en[k] \/ \E j \in 1..m : i < j /\ Borrows(t[j], k)
    <3>1. CASE i = m
      BY <1>1, <2>1, <3>1, Zenon
    <3>2. CASE i = n
      BY <1>1, <2>1, <3>2, Zenon
    <3>3. CASE i \in 1..n - 1
      <4>1. en[k] \/ \E j \in 1..n : i < j /\ Borrows(s[j], k)
        BY <1>1, <2>1, <3>3, Zenon DEF StackInv, EntitledIsServed, n
      <4>2. \A j \in 1..n : j \in 1..m
        BY <1>1
      <4> QED
        BY <1>6, <4>1, <4>2, Zenon
    <3> QED
      BY <1>1, <3>1, <3>2, <3>3
  <2> QED
    BY <2>1, Zenon DEF EntitledIsServed, m
<1>10. ClosedInBlock(t, en, ib, ca)
  <2>1. ASSUME ib
        PROVE  /\ ~en["notify"]
               /\ \A i \in 1..n : /\ ~Borrows(s[i], "notify")
                                  /\ ~Entitled(s[i], "notify", ib, ca)
    BY <2>1, Zenon DEF StackInv, ClosedInBlock, n
  <2>2. "notify" \in Kinds /\ (ib => ~Works("notify", ib))
    BY DEF Kinds, Works
  <2>3. ASSUME ib, NEW i \in 1..m
        PROVE  ~Borrows(t[i], "notify") /\ ~Entitled(t[i], "notify", ib, ca)
    <3>1. CASE i = m
      BY <1>1, <2>2, <2>3, <3>1, Zenon
    <3>2. CASE i = n
      BY <1>1, <1>6, <2>1, <2>2, <2>3, <3>2, Zenon
    <3>3. CASE i \in 1..n - 1
      BY <1>1, <2>1, <2>3, <3>3, Zenon
    <3> QED
      BY <1>1, <3>1, <3>2, <3>3
  <2> QED
    BY <2>1, <2>3, Zenon DEF ClosedInBlock, m
<1>11. QuietIsQuiet(t)
  <2>1. ASSUME NEW i \in 1..m, NEW j \in 1..m, i < j, t[i].at \in Quiet
        PROVE  t[j].at \in Noting
    <3>1. CASE i = n
      BY <1>1, <2>1, <3>1
    <3>2. CASE i \in 1..n - 1
      <4>1. \A l \in 1..n : i < l => s[l].at \in Noting
        BY <1>1, <2>1, <3>2, Zenon DEF StackInv, QuietIsQuiet, n
      <4>2. e.at \in Noting
        BY <1>1, <1>2, <3>2, <4>1
      <4> QED
        BY <1>1, <2>1, <4>1, <4>2
    <3> QED
      BY <1>1, <2>1, <3>1, <3>2
  <2> QED
    BY <2>1, Zenon DEF QuietIsQuiet, m
<1>12. NotesAreFound(t, en, oc)
  <2>1. ASSUME NEW k \in Kinds, en[k], oc[k] PROVE \E i \in 1..m : Looks(t[i], k)
    <3>1. PICK i \in 1..n : Looks(s[i], k)
      BY <2>1, Zenon DEF StackInv, NotesAreFound, n
    <3>2. Looks(t[i], k) /\ i \in 1..m
      BY <1>1, <1>2, <3>1
    <3> QED
      BY <3>2
  <2> QED
    BY <2>1, Zenon DEF NotesAreFound, m
<1> QED
  BY <1>4, <1>7, <1>8, <1>9, <1>10, <1>11, <1>12, Zenon DEF StackInv

\* The frame on top is left.
LEMMA FrameReturnInv ==
    ASSUME NEW s \in Seq(FrameType), NEW t, NEW e, e = s[Len(s)],
           NEW en \in FlagType, NEW en2 \in FlagType, NEW oc \in FlagType,
           NEW oc2 \in FlagType,
           NEW ib \in BOOLEAN, NEW ca \in Nat,
           FrameReturned(s, t), StackInv(s, en, oc, ib, ca),
           SafeReturn(s, e, en, en2, oc, oc2, ib, ca)
    PROVE  StackInv(t, en2, oc2, ib, ca)
<1> USE DEF SafeReturn, NobodyEntitled
<1> DEFINE n == Len(s)
           m == Len(t)
<1>1. /\ n \in Nat \ {0, 1} /\ m = n - 1
      /\ \A i \in 1..m : t[i] = s[i] /\ i \in 1..n /\ i \in 1..n - 1 /\ i < n
      /\ \A i \in 1..n : i = n \/ i \in 1..m
      /\ \A i \in 2..m - 1 : i \in 1..m /\ i + 1 \in 1..m /\ i \in 2..n - 1
      /\ \A i \in 2..m : i - 1 \in 1..m
      /\ 1 \in 1..m /\ n \in 1..n
  BY SMTT(30) DEF FrameReturned
<1>2. e = s[n]
  BY DEF n
<1>3. Shape(s, ca)
  BY DEF StackInv
<1> HIDE DEF n, m
<1>4. Shape(t, ca)
  <2>1. ASSUME NEW i \in 1..m PROVE t[i].at \in MainPlaces <=> i = 1
    BY <1>1, <1>3, <2>1, Zenon DEF Shape, n
  <2>2. ASSUME NEW i \in 1..m, t[i].at \in ProcessPlaces
        PROVE  i > 1 /\ t[i - 1].at = "enable" /\ t[i - 1].kind = t[i].kind
    <3>1. s[i].at \in ProcessPlaces /\ t[i] = s[i] /\ i \in 1..n
      BY <1>1, <2>2
    <3>2. i > 1 /\ s[i - 1].at = "enable" /\ s[i - 1].kind = s[i].kind
      BY <1>3, <3>1, Zenon DEF Shape, n
    <3>3. i - 1 \in 1..m
      BY <1>1, <3>2
    <3> QED
      BY <1>1, <3>1, <3>2, <3>3
  <2>3. ASSUME NEW i \in 1..m, t[i].at \in CancelPlaces
        PROVE  i = 2 /\ t[1].at = "wait" /\ ca > 0
    BY <1>1, <1>3, <2>3, Zenon DEF Shape, n
  <2>4. ASSUME NEW i \in 2..m - 1
        PROVE  t[i].at = "enable" \/ t[i].at \in HandlerPlaces
               \/ t[i + 1].at \in HandlerPlaces
    BY <1>1, <1>3, <2>4, Zenon DEF Shape, n
  <2>5. ASSUME NEW i \in 1..m, NEW j \in 1..m,
               t[i].at \in HandlerPlaces, t[j].at \in HandlerPlaces
        PROVE  i = j
    BY <1>1, <1>3, <2>5, Zenon DEF Shape, n
  <2> QED
    BY <2>1, <2>2, <2>3, <2>4, <2>5, Zenon DEF Shape, m
<1>5. BlockedIsDown(t, en2)
  BY <1>1, Zenon DEF StackInv, BlockedIsDown, n, m
<1>6. BorrowedWasUp(t)
  BY <1>1, Zenon DEF StackInv, BorrowedWasUp, n, m
<1>7. EntitledIsServed(t, en2, ib, ca)
  <2>1. ASSUME NEW i \in 1..m, NEW k \in Kinds, Entitled(t[i], k, ib, ca)
        PROVE  en2[k] \/ \E j \in 1..m : i < j /\ Borrows(t[j], k)
    <3>1. Entitled(s[i], k, ib, ca) /\ i \in 1..n - 1 /\ i \in 1..n
      BY <1>1, <2>1
    <3>2. en[k] => en2[k]
      BY <3>1, Zenon DEF n
    <3>3. en[k] \/ \E j \in 1..n : i < j /\ Borrows(s[j], k)
      BY <3>1, Zenon DEF StackInv, EntitledIsServed, n
    <3>4. ASSUME NEW j \in 1..n, i < j, Borrows(s[j], k)
          PROVE  j \in 1..m /\ Borrows(t[j], k)
      BY <1>1, <1>2, <3>4, Zenon
    <3> QED
      BY <3>2, <3>3, <3>4, Zenon
  <2> QED
    BY <2>1, Zenon DEF EntitledIsServed, m
<1>8. ClosedInBlock(t, en2, ib, ca)
  <2>1. "notify" \in Kinds
    BY DEF Kinds
  <2> QED
    BY <1>1, <2>1, Zenon DEF StackInv, ClosedInBlock, n, m
<1>9. QuietIsQuiet(t)
  BY <1>1, Zenon DEF StackInv, QuietIsQuiet, n, m
<1>10. NotesAreFound(t, en2, oc2)
  <2>1. ASSUME NEW k \in Kinds, en2[k], oc2[k] PROVE \E i \in 1..m : Looks(t[i], k)
    <3>1. en[k] /\ oc[k] /\ ~Looks(e, k)
      BY <2>1
    <3>2. PICK i \in 1..n : Looks(s[i], k)
      BY <3>1, Zenon DEF StackInv, NotesAreFound, n
    <3> QED
      BY <1>1, <1>2, <3>1, <3>2, Zenon
  <2> QED
    BY <2>1, Zenon DEF NotesAreFound, m
<1> QED
  BY <1>4, <1>5, <1>6, <1>7, <1>8, <1>9, <1>10, Zenon DEF StackInv

\* What Goto, Call and Return do to the stack.
LEMMA StackFacts ==
    ASSUME ClientTypes
    PROVE  /\ stack \in Seq(FrameType) /\ stack # <<>>
           /\ Len(stack) \in Nat \ {0} /\ Len(stack) \in 1..Len(stack)
           /\ \A i \in 1..Len(stack) - 1 : i \in 1..Len(stack) /\ i # Len(stack)
           /\ TopFrame = stack[Len(stack)] /\ TopFrame \in FrameType
BY DEF ClientTypes, TopFrame

LEMMA TopMoved ==
    ASSUME ClientTypes, NEW label \in Places
    PROVE  /\ FrameChanged(stack, Moved(label), [TopFrame EXCEPT !.at = label])
           /\ [TopFrame EXCEPT !.at = label] \in FrameType
<1>1. [TopFrame EXCEPT !.at = label] \in FrameType
  BY StackFacts DEF FrameType
<1>2. Moved(label) = [stack EXCEPT ![Len(stack)] = [TopFrame EXCEPT !.at = label]]
  BY Zenon DEF Moved, TopFrame
<1>3. /\ Moved(label) \in Seq(FrameType) /\ Len(Moved(label)) = Len(stack)
      /\ \A i \in 1..Len(stack) :
            Moved(label)[i] = IF i = Len(stack)
                                   THEN [TopFrame EXCEPT !.at = label] ELSE stack[i]
  BY <1>1, <1>2, StackFacts, ExceptSeq
<1> QED
  BY <1>1, <1>3, StackFacts, Zenon DEF FrameChanged

LEMMA GotoChanges ==
    ASSUME ClientTypes, NEW label \in Places, stack' = Moved(label)
    PROVE  /\ FrameChanged(stack, stack', [TopFrame EXCEPT !.at = label])
           /\ [TopFrame EXCEPT !.at = label] \in FrameType
BY TopMoved, Zenon

LEMMA CallCalls ==
    ASSUME ClientTypes, NEW label \in Places, NEW g \in FrameType,
           stack' = Append(Moved(label), g)
    PROVE  /\ FrameCalled(stack, stack', [TopFrame EXCEPT !.at = label], g)
           /\ [TopFrame EXCEPT !.at = label] \in FrameType
<1>1. FrameChanged(stack, Moved(label), [TopFrame EXCEPT !.at = label])
  BY TopMoved
<1>2. PICK t : t = Moved(label)
  OBVIOUS
<1>3. stack' = Append(t, g) /\ t \in Seq(FrameType) /\ Len(t) = Len(stack)
  BY <1>1, <1>2, Zenon DEF FrameChanged
<1>4. /\ stack' \in Seq(FrameType) /\ Len(stack') = Len(stack) + 1
      /\ \A i \in 1..Len(stack) : stack'[i] = t[i]
      /\ stack'[Len(stack) + 1] = g
  BY <1>3, AppendProperties
<1> QED
  BY <1>1, <1>2, <1>4, TopMoved, StackFacts, Zenon DEF FrameCalled, FrameChanged

LEMMA AppendCalls ==
    ASSUME ClientTypes, NEW g \in FrameType, stack' = Append(stack, g)
    PROVE  FrameCalled(stack, stack', TopFrame, g)
<1>1. /\ stack' \in Seq(FrameType) /\ Len(stack') = Len(stack) + 1
      /\ \A i \in 1..Len(stack) : stack'[i] = stack[i]
      /\ stack'[Len(stack) + 1] = g
  BY StackFacts, AppendProperties
<1> QED
  BY <1>1, StackFacts, Zenon DEF FrameCalled

LEMMA FrontFacts ==
    ASSUME ClientTypes
    PROVE  /\ Front(stack) \in Seq(FrameType) /\ Len(Front(stack)) = Len(stack) - 1
           /\ \A i \in 1..Len(stack) - 1 : Front(stack)[i] = stack[i]
<1>1. PICK m \in Nat \ {0} : m = Len(stack)
  BY StackFacts
<1>2. PICK n \in Nat : n = m - 1
  BY <1>1
<1>3. /\ n \in Int /\ 1 \in Int /\ n - 1 + 1 = n /\ (1 <= n \/ n = 0)
      /\ \A i \in 1..n : 1 + i - 1 = i /\ i \in 1..m
  BY <1>2
<1>4. \A i \in 1..n : stack[i] \in FrameType
  BY <1>1, <1>3, StackFacts
<1>5. Front(stack) = SubSeq(stack, 1, n)
  BY <1>1, <1>2, Zenon DEF Front
<1>6. /\ SubSeq(stack, 1, n) \in Seq(FrameType)
      /\ Len(SubSeq(stack, 1, n)) = IF 1 <= n THEN n - 1 + 1 ELSE 0
      /\ \A i \in 1..n - 1 + 1 : SubSeq(stack, 1, n)[i] = stack[1 + i - 1]
  <2>1. \A i \in 1..n : stack[i] \in FrameType /\ n \in Int /\ 1 \in Int
    BY <1>3, <1>4
  <2> QED
    BY <1>3, <1>4, <2>1, SubSeqProperties
<1>7. Len(SubSeq(stack, 1, n)) = n
  <2>1. PICK l : l = Len(SubSeq(stack, 1, n))
    OBVIOUS
  <2>2. l = IF 1 <= n THEN n - 1 + 1 ELSE 0
    BY <1>6, <2>1, Zenon
  <2> QED
    BY <1>3, <2>1, <2>2
<1> QED
  BY <1>1, <1>2, <1>3, <1>5, <1>6, <1>7, Zenon

LEMMA ReturnReturns ==
    ASSUME ClientTypes, Len(stack) # 1, stack' = Front(stack)
    PROVE  FrameReturned(stack, stack')
<1>1. PICK n : n = Len(stack)
  OBVIOUS
<1>2. n \in Nat \ {0} /\ n # 1
  BY <1>1, StackFacts, Zenon
<1>3. n > 1
  BY <1>2
<1> QED
  BY <1>1, <1>3, FrontFacts, Zenon DEF FrameReturned

LEMMA ReplaceChanges ==
    ASSUME ClientTypes, NEW f \in FrameType, stack' = Append(Front(stack), f)
    PROVE  FrameChanged(stack, stack', f)
<1>1. PICK t : t = Front(stack)
  OBVIOUS
<1>2. PICK n : n = Len(stack)
  OBVIOUS
<1>3. /\ t \in Seq(FrameType) /\ Len(t) = n - 1 /\ stack' = Append(t, f)
      /\ \A i \in 1..n - 1 : t[i] = stack[i]
  BY <1>1, <1>2, FrontFacts, Zenon
<1>4. /\ stack' \in Seq(FrameType) /\ Len(stack') = n - 1 + 1
      /\ \A i \in 1..n - 1 : stack'[i] = t[i]
      /\ stack'[n - 1 + 1] = f
  BY <1>3, AppendProperties
<1>5. n - 1 + 1 = n
  BY <1>2, StackFacts
<1> QED
  BY <1>2, <1>3, <1>4, <1>5, Zenon DEF FrameChanged

\* What the invariant says of the top of the stack.
LEMMA TopFacts ==
    ASSUME ClientInv
    PROVE  /\ TopFrame \in FrameType /\ TopFrame = stack[Len(stack)]
           /\ Len(stack) \in Nat \ {0}
           /\ Len(stack) \in 1..Len(stack)
           /\ TopFrame.at \in MainPlaces <=> Len(stack) = 1
           /\ \A k \in Kinds : Blocks(TopFrame, k) => ~enabled[k]
           /\ \A k \in Kinds : Entitled(TopFrame, k, inBlock, cancels) =>
                 enabled[k]
           /\ TopFrame.at \in ProcessPlaces => ~enabled[TopFrame.kind]
           /\ TopFrame.at \in CancelPlaces => NobodyEntitled(stack, inBlock, cancels)
<1>1. /\ stack \in Seq(FrameType) /\ stack # <<>>
      /\ StackInv(stack, enabled, noted, inBlock, cancels)
      /\ enabled \in FlagType /\ cancels \in Nat
  BY DEF ClientInv, ClientTypes
<1>2. /\ TopFrame \in FrameType /\ TopFrame = stack[Len(stack)]
         /\ Len(stack) \in Nat \ {0}
      /\ Len(stack) \in 1..Len(stack)
  BY <1>1 DEF TopFrame
<1>3. TopFrame.at \in MainPlaces <=> Len(stack) = 1
  BY <1>1, <1>2, Zenon DEF StackInv, Shape
<1>4. \A k \in Kinds : Blocks(TopFrame, k) => ~enabled[k]
  BY <1>1, <1>2, Zenon DEF StackInv, BlockedIsDown
<1>5. ASSUME NEW k \in Kinds, Entitled(TopFrame, k, inBlock, cancels)
             PROVE enabled[k]
  <2>1. enabled[k] \/ \E j \in 1..Len(stack) : Len(stack) < j
    BY <1>1, <1>2, <1>5, Zenon DEF StackInv, EntitledIsServed
  <2> QED
    BY <1>2, <2>1
<1>6. ASSUME TopFrame.at \in ProcessPlaces PROVE ~enabled[TopFrame.kind]
  <2>1. /\ Len(stack) > 1 /\ stack[Len(stack) - 1].at = "enable"
        /\ stack[Len(stack) - 1].kind = TopFrame.kind
    BY <1>1, <1>2, <1>6, Zenon DEF StackInv, Shape
  <2>2. Len(stack) - 1 \in 1..Len(stack) /\ TopFrame.kind \in Kinds
    BY <1>2, <2>1 DEF FrameType
  <2>3. Blocks(stack[Len(stack) - 1], TopFrame.kind)
    BY <2>1 DEF Blocks
  <2> QED
    BY <1>1, <2>2, <2>3, Zenon DEF StackInv, BlockedIsDown
<1>7. ASSUME TopFrame.at \in CancelPlaces, NEW i \in 1..Len(stack) - 1,
             NEW k \in Kinds
      PROVE  ~Entitled(stack[i], k, inBlock, cancels)
  <2>1. Len(stack) = 2 /\ stack[1].at = "wait" /\ cancels > 0
    BY <1>1, <1>2, <1>7, Zenon DEF StackInv, Shape
  <2>2. i = 1 /\ cancels # 0
    BY <1>1, <1>2, <2>1
  <2>3. PICK f : f = stack[1]
    OBVIOUS
  <2>4. f.at = "wait"
    BY <2>1, <2>3, Zenon
  <2>5. ~Entitled(f, k, inBlock, cancels)
    BY <2>2, <2>4 DEF Entitled
  <2> QED
    BY <2>2, <2>3, <2>5, Zenon
<1>8. TopFrame.at \in CancelPlaces => NobodyEntitled(stack, inBlock, cancels)
  BY <1>7, Zenon DEF NobodyEntitled
<1> QED
  BY <1>2, <1>3, <1>4, <1>5, <1>6, <1>8, Zenon

\* From the stack to the invariant.
LEMMA InvNext ==
    ASSUME stack' \in Seq(FrameType), Len(stack') # 0,
           enabled' \in FlagType, noted' \in FlagType, signalFlag' \in FlagType,
           {sigusr1', inBlock', listening'} \subseteq BOOLEAN, cancels' \in Nat,
           StackInv(stack', enabled', noted', inBlock', cancels')
    PROVE  ClientInv'
<1>1. stack' # <<>>
  OBVIOUS
<1> QED
  BY <1>1, Zenon DEF ClientInv, ClientTypes

LEMMA ChangeStep ==
    ASSUME ClientInv, NEW f \in FrameType, FrameChanged(stack, stack', f),
           enabled' \in FlagType, noted' \in FlagType, signalFlag' \in FlagType,
           UNCHANGED <<sigusr1, session, bounds>>,
           SafeChange(stack, TopFrame, f, enabled, enabled', noted, noted', inBlock,
           cancels)
    PROVE  ClientInv'
<1>1. /\ stack \in Seq(FrameType) /\ stack # <<>> /\ enabled \in FlagType
      /\ noted \in FlagType /\ inBlock \in BOOLEAN /\ cancels \in Nat
      /\ StackInv(stack, enabled, noted, inBlock, cancels)
      /\ TopFrame = stack[Len(stack)]
  BY DEF ClientInv, ClientTypes, TopFrame
<1>2. StackInv(stack', enabled', noted', inBlock, cancels)
  BY <1>1, FrameChangeInv
<1>3. /\ {sigusr1', inBlock', listening'} \subseteq BOOLEAN
      /\ inBlock' = inBlock /\ cancels' = cancels
  BY DEF ClientInv, ClientTypes, session, bounds
<1>4. stack' \in Seq(FrameType) /\ Len(stack') # 0
  BY <1>1 DEF FrameChanged
<1> QED
  BY <1>1, <1>2, <1>3, <1>4, InvNext, Zenon

LEMMA CallStep ==
    ASSUME ClientInv, NEW f \in FrameType, NEW g \in FrameType,
           FrameCalled(stack, stack', f, g),
           UNCHANGED <<flags, session, bounds>>,
           signalFlag' \in FlagType, sigusr1' \in BOOLEAN,
           SafeCall(stack, TopFrame, f, g, enabled, inBlock, cancels)
    PROVE  ClientInv'
<1>1. /\ stack \in Seq(FrameType) /\ stack # <<>> /\ enabled \in FlagType
      /\ noted \in FlagType /\ inBlock \in BOOLEAN /\ cancels \in Nat
      /\ StackInv(stack, enabled, noted, inBlock, cancels)
      /\ TopFrame = stack[Len(stack)]
  BY DEF ClientInv, ClientTypes, TopFrame
<1>2. StackInv(stack', enabled, noted, inBlock, cancels)
  BY <1>1, FrameCallInv, Zenon
<1>3. /\ {sigusr1', inBlock', listening'} \subseteq BOOLEAN
      /\ inBlock' = inBlock /\ cancels' = cancels /\ enabled' = enabled /\ noted' = noted
  BY DEF ClientInv, ClientTypes, flags, session, bounds
<1>4. stack' \in Seq(FrameType) /\ Len(stack') # 0
  BY <1>1 DEF FrameCalled
<1> QED
  BY <1>1, <1>2, <1>3, <1>4, InvNext, Zenon

LEMMA ReturnStep ==
    ASSUME ClientInv, Len(stack) # 1, stack' = Front(stack),
           UNCHANGED <<sigusr1, session, bounds>>,
           enabled' \in FlagType, noted' \in FlagType, signalFlag' \in FlagType,
           SafeReturn(stack, TopFrame, enabled, enabled', noted, noted', inBlock, cancels)
    PROVE  ClientInv'
<1>1. /\ stack \in Seq(FrameType) /\ stack # <<>> /\ enabled \in FlagType
      /\ noted \in FlagType /\ inBlock \in BOOLEAN /\ cancels \in Nat
      /\ StackInv(stack, enabled, noted, inBlock, cancels)
      /\ TopFrame = stack[Len(stack)]
  BY DEF ClientInv, ClientTypes, TopFrame
<1>2. FrameReturned(stack, stack')
  BY ReturnReturns DEF ClientInv
<1>3. StackInv(stack', enabled', noted', inBlock, cancels)
  BY <1>1, <1>2, FrameReturnInv
<1>4. /\ {sigusr1', inBlock', listening'} \subseteq BOOLEAN
      /\ inBlock' = inBlock /\ cancels' = cancels
  BY DEF ClientInv, ClientTypes, session, bounds
<1>5. stack' \in Seq(FrameType) /\ Len(stack') # 0
  BY <1>2 DEF FrameReturned
<1> QED
  BY <1>1, <1>3, <1>4, <1>5, InvNext, Zenon

LEMMA GotoStep ==
    ASSUME ClientInv, NEW label \in Places, stack' = Moved(label),
           enabled' \in FlagType, noted' \in FlagType, signalFlag' \in FlagType,
           UNCHANGED <<sigusr1, session, bounds>>,
           \A f \in FrameType : f.at = label /\ f.kind = TopFrame.kind
              /\ f.reenable = TopFrame.reenable =>
             SafeChange(stack, TopFrame, f, enabled, enabled', noted, noted', inBlock,
             cancels)
    PROVE  ClientInv'
<1>1. PICK f : f = [TopFrame EXCEPT !.at = label]
  OBVIOUS
<1>2. FrameChanged(stack, stack', f) /\ f \in FrameType
  BY <1>1, GotoChanges, Zenon DEF ClientInv
<1>3. f.at = label /\ f.kind = TopFrame.kind /\ f.reenable = TopFrame.reenable
  BY <1>1, TopFacts DEF FrameType
<1>4. SafeChange(stack, TopFrame, f, enabled, enabled', noted, noted', inBlock, cancels)
  BY <1>2, <1>3, Zenon
<1> QED
  BY <1>2, <1>4, ChangeStep

LEMMA CallTopStep ==
    ASSUME ClientInv, NEW label \in Places, NEW g \in FrameType,
           stack' = Append(Moved(label), g),
           UNCHANGED <<flags, sigusr1, session, bounds>>,
           signalFlag' \in FlagType,
           \A f \in FrameType : f.at = label /\ f.kind = TopFrame.kind
              /\ f.reenable = TopFrame.reenable =>
             SafeCall(stack, TopFrame, f, g, enabled, inBlock, cancels)
    PROVE  ClientInv'
<1>1. PICK f : f = [TopFrame EXCEPT !.at = label]
  OBVIOUS
<1>2. FrameCalled(stack, stack', f, g) /\ f \in FrameType
  BY <1>1, CallCalls, Zenon DEF ClientInv
<1>3. f.at = label /\ f.kind = TopFrame.kind /\ f.reenable = TopFrame.reenable
  BY <1>1, TopFacts DEF FrameType
<1>4. SafeCall(stack, TopFrame, f, g, enabled, inBlock, cancels)
  BY <1>2, <1>3, Zenon
<1>5. sigusr1' \in BOOLEAN
  BY DEF ClientInv, ClientTypes
<1> QED
  BY <1>2, <1>4, <1>5, CallStep

-----------------------------------------------------------------------------
(***************************************************************************)
(* Each step of IdleInterrupts preserves ClientInv                         *)
(***************************************************************************)

LEMMA HandleKept == ASSUME ClientInv, Handle PROVE ClientInv'
<1>1. /\ enabled \in FlagType /\ noted \in FlagType
      /\ enabled' = enabled /\ noted' = noted
      /\ UNCHANGED <<sigusr1, session, bounds>>
      /\ enabled' \in FlagType /\ noted' \in FlagType /\ signalFlag' \in FlagType
  BY DEF Handle, flags, signals, ClientInv, ClientTypes
<1>2. TopFrame.at = "handle" /\ TopFrame \in FrameType
  BY TopFacts DEF Handle, At
<1>3. CASE enabled[TopFrame.kind]
  <2>1. stack' = Moved("handleEnabled")
    BY <1>3, Zenon DEF Handle, GoOn
  <2>2. \A f \in FrameType :
           f.at = "handleEnabled" /\ f.kind = TopFrame.kind
           /\ f.reenable = TopFrame.reenable =>
             SafeChange(stack, TopFrame, f, enabled, enabled', noted, noted', inBlock,
             cancels)
    BY <1>1, <1>2, <1>3 DEF SafeChange, Blocks, Borrows, Entitled, Looks, MainPlaces,
       ProcessPlaces, CancelPlaces, HandlerPlaces, Quiet, Noting, FrameType, FlagType,
       Kinds, Other
  <2> QED
    BY <1>1, <2>1, <2>2, GotoStep, ZenonT(60) DEF Places
<1>4. CASE ~enabled[TopFrame.kind]
  <2>1. stack' = Moved("handleDisabled")
    BY <1>4, Zenon DEF Handle, GoOn
  <2>2. \A f \in FrameType :
           f.at = "handleDisabled" /\ f.kind = TopFrame.kind
           /\ f.reenable = TopFrame.reenable =>
             SafeChange(stack, TopFrame, f, enabled, enabled', noted, noted', inBlock,
             cancels)
    BY <1>1, <1>2, <1>4 DEF SafeChange, Blocks, Borrows, Entitled, Looks, MainPlaces,
       ProcessPlaces, CancelPlaces, HandlerPlaces, Quiet, Noting, FrameType, FlagType,
       Kinds, Other
  <2> QED
    BY <1>1, <2>1, <2>2, GotoStep, ZenonT(60) DEF Places
<1> QED
  BY <1>3, <1>4

LEMMA HandlerEndKept == ASSUME ClientInv, HandlerEnd PROVE ClientInv'
<1>1. /\ enabled \in FlagType /\ noted \in FlagType
      /\ enabled' = enabled /\ noted' = noted
      /\ UNCHANGED <<sigusr1, session, bounds>>
      /\ enabled' \in FlagType /\ noted' \in FlagType /\ signalFlag' \in FlagType
  BY DEF HandlerEnd, flags, signals, ClientInv, ClientTypes
<1>2. TopFrame.at = "end" /\ TopFrame \in FrameType /\ stack' = Front(stack)
      /\ Len(stack) # 1
  BY TopFacts DEF HandlerEnd, At, Leave, MainPlaces
<1>3. SafeReturn(stack, TopFrame, enabled, enabled', noted, noted', inBlock, cancels)
  BY <1>1, <1>2 DEF SafeReturn, Borrows, Looks
<1> QED
  BY <1>1, <1>2, <1>3, ReturnStep, Zenon

LEMMA HandleDisabledKept == ASSUME ClientInv, HandleDisabled PROVE ClientInv'
<1>1. /\ enabled \in FlagType /\ noted \in FlagType
      /\ enabled' = enabled /\ noted' = [noted EXCEPT ![TopFrame.kind] = TRUE]
      /\ UNCHANGED <<sigusr1, session, bounds>>
      /\ enabled' \in FlagType /\ noted' \in FlagType /\ signalFlag' \in FlagType
  BY DEF HandleDisabled, Set, signals, ClientInv, ClientTypes, FlagType
<1>2. TopFrame.at = "handleDisabled" /\ TopFrame \in FrameType /\ stack' = Front(stack)
      /\ Len(stack) # 1
  BY TopFacts DEF HandleDisabled, At, Leave, MainPlaces
<1>3. ~enabled[TopFrame.kind]
  BY <1>2, TopFacts DEF Blocks, FrameType
<1>4. SafeReturn(stack, TopFrame, enabled, enabled', noted, noted', inBlock, cancels)
  BY <1>1, <1>2, <1>3 DEF SafeReturn, Borrows, Looks, FlagType, FrameType
<1> QED
  BY <1>1, <1>2, <1>4, ReturnStep, Zenon

LEMMA CheckProcSignalKept == ASSUME ClientInv, CheckProcSignal PROVE ClientInv'
<1>1. /\ enabled \in FlagType /\ noted \in FlagType
      /\ enabled' = enabled /\ noted' = noted
      /\ UNCHANGED <<flags, sigusr1, session, bounds>>
      /\ UNCHANGED <<sigusr1, session, bounds>>
      /\ enabled' \in FlagType /\ noted' \in FlagType
  BY DEF CheckProcSignal, flags, ClientInv, ClientTypes
<1>2. PICK k \in Kinds : k = IF At("sigusr1") THEN "catchup" ELSE "notify"
  BY DEF Kinds
<1>3. PICK next \in Places : next = IF k = "catchup" THEN "sigusr1Notify" ELSE "end"
  BY DEF Places
<1>4. /\ signalFlag' = [signalFlag EXCEPT ![k] = FALSE]
      /\ IF signalFlag[k] THEN stack' = Append(Moved(next), Frame(k, "handle"))
         ELSE IF next = "end" THEN stack' = Front(stack) ELSE stack' = Moved(next)
  BY <1>2, <1>3, Zenon DEF CheckProcSignal, Set, Call, Leave, GoOn
<1>5. signalFlag' \in FlagType
  BY <1>4 DEF ClientInv, ClientTypes, FlagType
<1>6. TopFrame.at \in {"sigusr1", "sigusr1Notify"} /\ TopFrame \in FrameType
      /\ Len(stack) # 1
  BY TopFacts DEF CheckProcSignal, MainPlaces
<1>7. \/ TopFrame.at = "sigusr1" /\ next = "sigusr1Notify"
      \/ TopFrame.at = "sigusr1Notify" /\ next = "end"
  BY <1>2, <1>3, <1>6 DEF At
<1>8. CASE signalFlag[k]
  <2>1. PICK g \in FrameType : g = Frame(k, "handle")
    BY DEF Frame, FrameType, Places
  <2>2. g.at = "handle" /\ g.kind = k
    BY <2>1 DEF Frame
  <2>3. stack' = Append(Moved(next), g)
    BY <1>4, <1>8, <2>1, Zenon
  <2>4. \A f \in FrameType :
           f.at = next /\ f.kind = TopFrame.kind /\ f.reenable = TopFrame.reenable =>
             SafeCall(stack, TopFrame, f, g, enabled, inBlock, cancels)
    BY <1>6, <1>7, <2>2 DEF SafeCall, Blocks, Borrows, Entitled, Looks, MainPlaces,
       ProcessPlaces, CancelPlaces, HandlerPlaces, Quiet, Noting, FrameType
  <2> QED
    BY <1>1, <1>5, <2>3, <2>4, CallTopStep, Zenon
<1>9. CASE ~signalFlag[k] /\ next = "end"
  <2>1. stack' = Front(stack)
    BY <1>4, <1>9, Zenon
  <2>2. SafeReturn(stack, TopFrame, enabled, enabled', noted, noted', inBlock, cancels)
    BY <1>1, <1>6 DEF SafeReturn, Borrows, Looks
  <2> QED
    BY <1>1, <1>5, <1>6, <2>1, <2>2, ReturnStep, Zenon
<1>10. CASE ~signalFlag[k] /\ next # "end"
  <2>1. stack' = Moved(next)
    BY <1>4, <1>10, Zenon
  <2>2. \A f \in FrameType :
           f.at = next /\ f.kind = TopFrame.kind /\ f.reenable = TopFrame.reenable =>
             SafeChange(stack, TopFrame, f, enabled, enabled', noted, noted', inBlock,
             cancels)
    BY <1>1, <1>6, <1>7, <1>10 DEF SafeChange, Blocks, Borrows, Entitled, Looks,
       MainPlaces, ProcessPlaces, CancelPlaces, HandlerPlaces, Quiet, Noting, FrameType
  <2> QED
    BY <1>1, <1>5, <2>1, <2>2, GotoStep, Zenon
<1> QED
  BY <1>8, <1>9, <1>10

LEMMA HandleEnabledKept == ASSUME ClientInv, HandleEnabled PROVE ClientInv'
<1>1. ClientTypes /\ TopFrame \in FrameType
  BY TopFacts DEF ClientInv
<1>2. CASE At("handleEnabled")
  <2>1. /\ enabled' = [enabled EXCEPT ![TopFrame.kind] = FALSE] /\ noted' = noted
        /\ UNCHANGED <<sigusr1, session, bounds>> /\ signalFlag' = signalFlag
        /\ stack' = Moved("handleNote")
    BY <1>2 DEF HandleEnabled, At, Set, GoOn, signals
  <2>2. enabled' \in FlagType /\ noted' \in FlagType /\ signalFlag' \in FlagType
    BY <1>1, <2>1 DEF ClientTypes, FlagType
  <2>3. enabled[TopFrame.kind]
    BY <1>1, <1>2, TopFacts DEF At, Entitled, FrameType
  <2>4. \A f \in FrameType :
           f.at = "handleNote" /\ f.kind = TopFrame.kind
           /\ f.reenable = TopFrame.reenable =>
             SafeChange(stack, TopFrame, f, enabled, enabled', noted, noted', inBlock,
             cancels)
    BY <1>1, <1>2, <2>1, <2>3 DEF At, ClientTypes, SafeChange, Blocks, Borrows,
       Entitled, Looks, MainPlaces, ProcessPlaces, CancelPlaces, HandlerPlaces, Quiet,
       Noting, FrameType, FlagType, Kinds, Other
  <2> QED
    BY <2>1, <2>2, <2>4, GotoStep, ZenonT(60) DEF Places
<1>3. CASE At("handleNote")
  <2>1. /\ noted' = [noted EXCEPT ![TopFrame.kind] = TRUE] /\ enabled' = enabled
        /\ UNCHANGED <<sigusr1, session, bounds>> /\ signalFlag' = signalFlag
        /\ stack' = Moved("enable")
    BY <1>3 DEF HandleEnabled, At, Set, GoOn, signals
  <2>2. enabled' \in FlagType /\ noted' \in FlagType /\ signalFlag' \in FlagType
    BY <1>1, <2>1 DEF ClientTypes, FlagType
  <2>3. ~enabled[TopFrame.kind]
    BY <1>1, <1>3, TopFacts DEF At, Blocks, FrameType
  <2>4. \A f \in FrameType :
           f.at = "enable" /\ f.kind = TopFrame.kind
           /\ f.reenable = TopFrame.reenable =>
             SafeChange(stack, TopFrame, f, enabled, enabled', noted, noted', inBlock,
             cancels)
    BY <1>1, <1>3, <2>1, <2>3 DEF At, ClientTypes, SafeChange, Blocks, Borrows,
       Entitled, Looks, MainPlaces, ProcessPlaces, CancelPlaces, HandlerPlaces, Quiet,
       Noting, FrameType, FlagType, Kinds, Other
  <2> QED
    BY <2>1, <2>2, <2>4, GotoStep, ZenonT(60) DEF Places
<1> QED
  BY <1>2, <1>3 DEF HandleEnabled

LEMMA LoopEnableKept == ASSUME ClientInv, LoopEnable PROVE ClientInv'
<1>1. ClientTypes /\ TopFrame \in FrameType /\ TopFrame.at = "enable"
  BY TopFacts DEF ClientInv, LoopEnable, At
<1>2. /\ enabled' = [enabled EXCEPT ![TopFrame.kind] = TRUE] /\ noted' = noted
      /\ UNCHANGED <<sigusr1, session, bounds>> /\ signalFlag' = signalFlag
      /\ stack' = Moved("test")
  BY DEF LoopEnable, Set, GoOn, signals
<1>3. enabled' \in FlagType /\ noted' \in FlagType /\ signalFlag' \in FlagType
  BY <1>1, <1>2 DEF ClientTypes, FlagType
<1>4. \A f \in FrameType :
         f.at = "test" /\ f.kind = TopFrame.kind /\ f.reenable = TopFrame.reenable =>
           SafeChange(stack, TopFrame, f, enabled, enabled', noted, noted', inBlock,
           cancels)
  BY <1>1, <1>2 DEF ClientTypes, SafeChange, Blocks, Borrows, Entitled, Looks,
     MainPlaces, ProcessPlaces, CancelPlaces, HandlerPlaces, Quiet, Noting, FrameType,
     FlagType, Kinds, Other
<1> QED
  BY <1>2, <1>3, <1>4, GotoStep, ZenonT(60) DEF Places

LEMMA LoopTestKept == ASSUME ClientInv, LoopTest PROVE ClientInv'
<1>1. ClientTypes /\ TopFrame \in FrameType /\ TopFrame.at = "test" /\ Len(stack) # 1
  BY TopFacts DEF ClientInv, LoopTest, At, MainPlaces
<1>2. /\ enabled' = enabled /\ noted' = noted
      /\ UNCHANGED <<sigusr1, session, bounds>> /\ signalFlag' = signalFlag
      /\ enabled' \in FlagType /\ noted' \in FlagType /\ signalFlag' \in FlagType
  BY <1>1 DEF LoopTest, flags, signals, ClientTypes
<1>3. enabled[TopFrame.kind]
  BY <1>1, TopFacts DEF Entitled, FrameType
<1>4. CASE noted[TopFrame.kind]
  <2>1. stack' = Moved("disable")
    BY <1>4, Zenon DEF LoopTest, BeforeWork, GoOn
  <2>2. \A f \in FrameType :
           f.at = "disable" /\ f.kind = TopFrame.kind
           /\ f.reenable = TopFrame.reenable =>
             SafeChange(stack, TopFrame, f, enabled, enabled', noted, noted', inBlock,
             cancels)
    BY <1>1, <1>2, <1>3 DEF ClientTypes, SafeChange, Blocks, Borrows, Entitled, Looks,
       MainPlaces, ProcessPlaces, CancelPlaces, HandlerPlaces, Quiet, Noting, FrameType,
       FlagType, Kinds, Other
  <2> QED
    BY <1>2, <2>1, <2>2, GotoStep, ZenonT(60) DEF Places
<1>5. CASE ~noted[TopFrame.kind]
  <2>1. stack' = Front(stack)
    BY <1>5, Zenon DEF LoopTest, Leave
  <2>2. SafeReturn(stack, TopFrame, enabled, enabled', noted, noted', inBlock, cancels)
    BY <1>1, <1>2, <1>5 DEF SafeReturn, Borrows, Looks
  <2> QED
    BY <1>1, <1>2, <2>1, <2>2, ReturnStep, Zenon
<1> QED
  BY <1>4, <1>5

LEMMA LoopDisableKept == ASSUME ClientInv, LoopDisable PROVE ClientInv'
<1>1. ClientTypes /\ TopFrame \in FrameType /\ TopFrame.at = "disable"
  BY TopFacts DEF ClientInv, LoopDisable, At
<1>2. /\ enabled' = [enabled EXCEPT ![TopFrame.kind] = FALSE] /\ noted' = noted
      /\ UNCHANGED <<sigusr1, session, bounds>> /\ signalFlag' = signalFlag
      /\ stack' = Moved("testAgain")
  BY DEF LoopDisable, Set, GoOn, signals
<1>3. enabled' \in FlagType /\ noted' \in FlagType /\ signalFlag' \in FlagType
  BY <1>1, <1>2 DEF ClientTypes, FlagType
<1>4. enabled[TopFrame.kind]
  BY <1>1, TopFacts DEF Entitled, FrameType
<1>5. \A f \in FrameType :
         f.at = "testAgain" /\ f.kind = TopFrame.kind
         /\ f.reenable = TopFrame.reenable =>
           SafeChange(stack, TopFrame, f, enabled, enabled', noted, noted', inBlock,
           cancels)
  BY <1>1, <1>2, <1>4 DEF ClientTypes, SafeChange, Blocks, Borrows, Entitled, Looks,
     MainPlaces, ProcessPlaces, CancelPlaces, HandlerPlaces, Quiet, Noting, FrameType,
     FlagType, Kinds, Other
<1> QED
  BY <1>2, <1>3, <1>5, GotoStep, ZenonT(60) DEF Places

LEMMA LoopTestAgainKept == ASSUME ClientInv, LoopTestAgain PROVE ClientInv'
<1>1. ClientTypes /\ TopFrame \in FrameType /\ TopFrame.at = "testAgain"
  BY TopFacts DEF ClientInv, LoopTestAgain, At
<1>2. /\ enabled' = enabled /\ noted' = noted
      /\ UNCHANGED <<sigusr1, session, bounds>> /\ signalFlag' = signalFlag
      /\ UNCHANGED <<flags, sigusr1, session, bounds>>
      /\ enabled' \in FlagType /\ noted' \in FlagType /\ signalFlag' \in FlagType
  BY <1>1 DEF LoopTestAgain, flags, signals, ClientTypes
<1>3. ~enabled[TopFrame.kind]
  BY <1>1, TopFacts DEF Blocks, FrameType
<1>4. CASE noted[TopFrame.kind]
  <2>1. PICK g \in FrameType : g = Frame(TopFrame.kind, "process")
    BY <1>1 DEF Frame, FrameType, Places
  <2>2. g.at = "process" /\ g.kind = TopFrame.kind
    BY <2>1 DEF Frame
  <2>3. stack' = Append(Moved("enable"), g)
    BY <1>4, <2>1, Zenon DEF LoopTestAgain, Call
  <2>4. \A f \in FrameType :
           f.at = "enable" /\ f.kind = TopFrame.kind
           /\ f.reenable = TopFrame.reenable =>
             SafeCall(stack, TopFrame, f, g, enabled, inBlock, cancels)
    BY <1>1, <1>3, <2>2 DEF SafeCall, Blocks, Borrows, Entitled, Looks, MainPlaces,
       ProcessPlaces, CancelPlaces, HandlerPlaces, Quiet, Noting, FrameType
  <2> QED
    BY <1>2, <2>3, <2>4, CallTopStep, ZenonT(60) DEF Places
<1>5. CASE ~noted[TopFrame.kind]
  <2>1. stack' = Moved("enable")
    BY <1>5, Zenon DEF LoopTestAgain, GoOn
  <2>2. \A f \in FrameType :
           f.at = "enable" /\ f.kind = TopFrame.kind
           /\ f.reenable = TopFrame.reenable =>
             SafeChange(stack, TopFrame, f, enabled, enabled', noted, noted', inBlock,
             cancels)
    BY <1>1, <1>2, <1>3 DEF ClientTypes, SafeChange, Blocks, Borrows, Entitled, Looks,
       MainPlaces, ProcessPlaces, CancelPlaces, HandlerPlaces, Quiet, Noting, FrameType,
       FlagType, Kinds, Other
  <2> QED
    BY <1>2, <2>1, <2>2, GotoStep, ZenonT(60) DEF Places
<1> QED
  BY <1>4, <1>5

LEMMA ProcessKept == ASSUME ClientInv, Process PROVE ClientInv'
<1>1. ClientTypes /\ TopFrame \in FrameType /\ TopFrame.at = "process" /\ Len(stack) # 1
  BY TopFacts DEF ClientInv, Process, At, MainPlaces
<1>2. /\ enabled' = enabled /\ UNCHANGED <<sigusr1, session, bounds>>
         /\ signalFlag' = signalFlag
      /\ enabled' \in FlagType /\ signalFlag' \in FlagType /\ enabled \in FlagType
      /\ noted \in FlagType
  BY <1>1 DEF Process, signals, ClientTypes
<1>3. /\ noted' \in FlagType
      /\ \A k \in Kinds : noted'[k] => noted[k]
  <2>1. noted' = noted \/ noted' = [noted EXCEPT ![TopFrame.kind] = FALSE]
    BY Zenon DEF Process, Set
  <2> QED
    BY <1>1, <1>2, <2>1 DEF FlagType, FrameType
<1>4. CASE TopFrame.kind = "notify" /\ ~listening
  <2>1. stack' = Front(stack)
    BY <1>4, Zenon DEF Process, Leave
  <2>2. SafeReturn(stack, TopFrame, enabled, enabled', noted, noted', inBlock, cancels)
    BY <1>1, <1>2, <1>3 DEF SafeReturn, Borrows, Looks
  <2> QED
    BY <1>1, <1>2, <1>3, <2>1, <2>2, ReturnStep, Zenon
<1>5. CASE ~(TopFrame.kind = "notify" /\ ~listening)
  <2>1. stack' = Moved("save")
    BY <1>5, Zenon DEF Process, GoOn
  <2>2. \A f \in FrameType :
           f.at = "save" /\ f.kind = TopFrame.kind /\ f.reenable = TopFrame.reenable =>
             SafeChange(stack, TopFrame, f, enabled, enabled', noted, noted', inBlock,
             cancels)
    BY <1>1, <1>2, <1>3 DEF SafeChange, Blocks, Borrows, Entitled, Looks, MainPlaces,
       ProcessPlaces, CancelPlaces, HandlerPlaces, Quiet, Noting, FrameType
  <2> QED
    BY <1>2, <1>3, <2>1, <2>2, GotoStep, ZenonT(60) DEF Places
<1> QED
  BY <1>4, <1>5

LEMMA SaveOtherKept == ASSUME ClientInv, SaveOther PROVE ClientInv'
<1>1. ClientTypes /\ TopFrame \in FrameType /\ TopFrame.at = "save"
  BY TopFacts DEF ClientInv, SaveOther, At
<1>2. /\ enabled' = enabled /\ noted' = noted
      /\ UNCHANGED <<sigusr1, session, bounds>> /\ signalFlag' = signalFlag
      /\ enabled' \in FlagType /\ noted' \in FlagType /\ signalFlag' \in FlagType
  BY <1>1 DEF SaveOther, flags, signals, ClientTypes
<1>3. PICK f : f = [kind |-> TopFrame.kind, at |-> "disableOther",
           reenable |-> enabled[Other(TopFrame.kind)]]
  OBVIOUS
<1>4. /\ f \in FrameType /\ f.kind = TopFrame.kind /\ f.at = "disableOther"
      /\ f.reenable = enabled[Other(TopFrame.kind)]
  <2>1. TopFrame.kind \in Kinds /\ Other(TopFrame.kind) \in Kinds
    BY <1>1 DEF FrameType, Kinds, Other
  <2>2. enabled[Other(TopFrame.kind)] \in BOOLEAN
    BY <1>1, <2>1 DEF ClientTypes, FlagType
  <2> QED
    BY <1>3, <2>1, <2>2 DEF FrameType, Places
<1>5. FrameChanged(stack, stack', f)
  BY <1>1, <1>3, <1>4, ReplaceChanges, Zenon DEF SaveOther
<1>6. SafeChange(stack, TopFrame, f, enabled, enabled', noted, noted', inBlock, cancels)
  BY <1>1, <1>2, <1>4 DEF ClientTypes, SafeChange, Blocks, Borrows, Entitled, Looks,
     MainPlaces, ProcessPlaces, CancelPlaces, HandlerPlaces, Quiet, Noting, FrameType,
     FlagType, Kinds, Other
<1> QED
  BY <1>2, <1>4, <1>5, <1>6, ChangeStep, Zenon

LEMMA DisableOtherKept == ASSUME ClientInv, DisableOther PROVE ClientInv'
<1>1. ClientTypes /\ TopFrame \in FrameType /\ TopFrame.at = "disableOther"
  BY TopFacts DEF ClientInv, DisableOther, At
<1>2. /\ enabled' = [enabled EXCEPT ![Other(TopFrame.kind)] = FALSE]
      /\ noted' = noted
      /\ UNCHANGED <<sigusr1, session, bounds>> /\ signalFlag' = signalFlag
      /\ stack' = Moved("work")
  BY DEF DisableOther, Set, GoOn, signals
<1>3. enabled' \in FlagType /\ noted' \in FlagType /\ signalFlag' \in FlagType
  BY <1>1, <1>2 DEF ClientTypes, FlagType
<1>4. ~enabled[TopFrame.kind]
      /\ (enabled[Other(TopFrame.kind)] <=> TopFrame.reenable)
  <2>1. TopFrame.kind \in Kinds /\ Other(TopFrame.kind) \in Kinds
        /\ Other(Other(TopFrame.kind)) = TopFrame.kind
    BY <1>1 DEF FrameType, Kinds, Other
  <2>2. ~enabled[TopFrame.kind]
    BY <1>1, TopFacts DEF ProcessPlaces
  <2>3. TopFrame.reenable => enabled[Other(TopFrame.kind)]
    BY <1>1, <2>1, TopFacts DEF Entitled
  <2>4. ~TopFrame.reenable => ~enabled[Other(TopFrame.kind)]
    BY <1>1, <2>1, TopFacts DEF Blocks
  <2> QED
    BY <2>2, <2>3, <2>4, Zenon
<1>5. \A f \in FrameType :
         f.at = "work" /\ f.kind = TopFrame.kind /\ f.reenable = TopFrame.reenable =>
           SafeChange(stack, TopFrame, f, enabled, enabled', noted, noted', inBlock,
           cancels)
  BY <1>1, <1>2, <1>4 DEF ClientTypes, SafeChange, Blocks, Borrows, Entitled, Looks,
     MainPlaces, ProcessPlaces, CancelPlaces, HandlerPlaces, Quiet, Noting, FrameType,
     FlagType, Kinds, Other
<1> QED
  BY <1>2, <1>3, <1>5, GotoStep, ZenonT(60) DEF Places

LEMMA WorkKept == ASSUME ClientInv, Work PROVE ClientInv'
<1>1. ClientTypes /\ TopFrame \in FrameType /\ TopFrame.at = "work"
  BY TopFacts DEF ClientInv, Work, At
<1>2. /\ noted' = [noted EXCEPT !["catchup"] = FALSE] /\ enabled' = enabled
      /\ UNCHANGED <<sigusr1, session, bounds>> /\ signalFlag' = signalFlag
      /\ stack' = Moved("reenable")
  BY DEF Work, Set, GoOn, signals
<1>3. enabled' \in FlagType /\ noted' \in FlagType /\ signalFlag' \in FlagType
  BY <1>1, <1>2 DEF ClientTypes, FlagType
<1>4. \A k \in Kinds : ~enabled[k]
  BY <1>1, TopFacts DEF Blocks, Quiet
<1>5. \A f \in FrameType :
         f.at = "reenable" /\ f.kind = TopFrame.kind
         /\ f.reenable = TopFrame.reenable =>
           SafeChange(stack, TopFrame, f, enabled, enabled', noted, noted', inBlock,
           cancels)
  BY <1>1, <1>2, <1>4 DEF ClientTypes, SafeChange, Blocks, Borrows, Entitled, Looks,
     MainPlaces, ProcessPlaces, CancelPlaces, HandlerPlaces, Quiet, Noting, FrameType,
     FlagType, Kinds, Other
<1> QED
  BY <1>2, <1>3, <1>5, GotoStep, ZenonT(60) DEF Places

LEMMA EndProcessKept == ASSUME ClientInv, EndProcess PROVE ClientInv'
<1>1. ClientTypes /\ TopFrame \in FrameType /\ TopFrame.at = "reenable"
      /\ Len(stack) # 1
  BY TopFacts DEF ClientInv, EndProcess, At, MainPlaces
<1>2. /\ enabled' = enabled /\ noted' = noted
      /\ UNCHANGED <<sigusr1, session, bounds>> /\ signalFlag' = signalFlag
      /\ enabled' \in FlagType /\ noted' \in FlagType /\ signalFlag' \in FlagType
  BY <1>1 DEF EndProcess, flags, signals, ClientTypes
<1>3. \A k \in Kinds : ~enabled[k]
  BY <1>1, TopFacts DEF Blocks, Quiet
<1>4. /\ TopFrame.kind \in Kinds /\ Other(TopFrame.kind) \in Kinds
      /\ \A k \in Kinds : k = TopFrame.kind \/ k = Other(TopFrame.kind)
      /\ Other(TopFrame.kind) # TopFrame.kind
         /\ Other(Other(TopFrame.kind)) = TopFrame.kind
  BY <1>1 DEF FrameType, Kinds, Other
<1>5. CASE TopFrame.reenable /\ EnableWorks(Other(TopFrame.kind))
  <2>1. PICK f \in FrameType : f = Frame(Other(TopFrame.kind), "enable")
    BY <1>4 DEF Frame, FrameType, Places
  <2>2. f.kind = Other(TopFrame.kind) /\ f.at = "enable"
    BY <2>1 DEF Frame
  <2>3. stack' = Append(Front(stack), f)
    BY <1>5, <2>1, Zenon DEF EndProcess, Reenable
  <2>4. SafeChange(stack, TopFrame, f, enabled, enabled', noted, noted', inBlock, cancels)
    BY <1>1, <1>2, <1>3, <1>4, <1>5, <2>2 DEF SafeChange, Blocks, Borrows, Entitled,
       Looks, MainPlaces, ProcessPlaces, CancelPlaces, HandlerPlaces, Quiet, Noting
  <2> QED
    BY <1>1, <1>2, <2>3, <2>4, ReplaceChanges, ChangeStep, Zenon
<1>6. CASE ~(TopFrame.reenable /\ EnableWorks(Other(TopFrame.kind)))
  <2>1. stack' = Front(stack)
    BY <1>6, Zenon DEF EndProcess, Reenable, Leave
  <2>2. ~TopFrame.reenable
    <3>1. SUFFICES ASSUME TopFrame.reenable PROVE FALSE
      OBVIOUS
    <3>2. Other(TopFrame.kind) = "notify" /\ inBlock
      BY <1>6, <3>1 DEF EnableWorks
    <3>3. Borrows(TopFrame, "notify") /\ "notify" \in Kinds
      BY <1>1, <1>4, <3>1, <3>2 DEF Borrows, Kinds
    <3>4. ~Borrows(TopFrame, "notify")
      BY <3>2, TopFacts, Zenon DEF ClientInv, StackInv, ClosedInBlock
    <3> QED
      BY <3>3, <3>4
  <2>3. SafeReturn(stack, TopFrame, enabled, enabled', noted, noted', inBlock, cancels)
    BY <1>1, <1>2, <1>3, <1>4, <2>2 DEF SafeReturn, Borrows
  <2> QED
    BY <1>1, <1>2, <2>1, <2>3, ReturnStep, Zenon
<1> QED
  BY <1>5, <1>6

LEMMA PrepareForClientReadKept == ASSUME ClientInv, PrepareForClientRead
PROVE ClientInv'
<1>1. /\ ClientTypes /\ TopFrame \in FrameType
      /\ TopFrame.at \in {"prepareNotify", "prepareCatchup"}
      /\ Len(stack) = 1
  BY TopFacts DEF ClientInv, PrepareForClientRead, At, MainPlaces
<1>2. /\ enabled' = enabled /\ noted' = noted
      /\ UNCHANGED <<sigusr1, session, bounds>> /\ signalFlag' = signalFlag
      /\ UNCHANGED <<flags, sigusr1, session, bounds>>
      /\ enabled' \in FlagType /\ noted' \in FlagType /\ signalFlag' \in FlagType
  BY <1>1 DEF PrepareForClientRead, flags, signals, ClientTypes
<1>3. stack[1] = TopFrame
  BY <1>1, TopFacts
<1>4. CASE At("prepareNotify")
  <2>1. \A k \in Kinds : ~enabled[k]
    BY <1>4, TopFacts DEF At, Blocks, Quiet
  <2>2. CASE EnableWorks("notify")
    <3>1. PICK g \in FrameType : g = Frame("notify", "enable")
      BY DEF Frame, FrameType, Places, Kinds
    <3>2. g.at = "enable" /\ g.kind = "notify"
      BY <3>1 DEF Frame
    <3>3. stack' = Append(Moved("prepareCatchup"), g)
      BY <1>4, <2>2, <3>1 DEF PrepareForClientRead, At, Call
    <3>4. \A f \in FrameType :
             f.at = "prepareCatchup" /\ f.kind = TopFrame.kind
             /\ f.reenable = TopFrame.reenable =>
               SafeCall(stack, TopFrame, f, g, enabled, inBlock, cancels)
      BY <1>1, <1>4, <2>1, <2>2, <3>2 DEF At, EnableWorks, Works, SafeCall, Blocks,
         Borrows, Entitled, Looks, MainPlaces, ProcessPlaces, CancelPlaces,
         HandlerPlaces, Quiet, Noting, FrameType
    <3> QED
      BY <1>2, <3>3, <3>4, CallTopStep, ZenonT(60) DEF Places
  <2>3. CASE ~EnableWorks("notify")
    <3>1. stack' = Moved("prepareCatchup")
      BY <1>4, <2>3 DEF PrepareForClientRead, At, GoOn
    <3>2. \A f \in FrameType :
             f.at = "prepareCatchup" /\ f.kind = TopFrame.kind
             /\ f.reenable = TopFrame.reenable =>
               SafeChange(stack, TopFrame, f, enabled, enabled', noted, noted', inBlock,
               cancels)
      BY <1>1, <1>2, <1>4, <2>1, <2>3 DEF At, EnableWorks, Works, SafeChange, Blocks,
         Borrows, Entitled, Looks, MainPlaces, ProcessPlaces, CancelPlaces,
         HandlerPlaces, Quiet, Noting, FrameType
    <3> QED
      BY <1>2, <3>1, <3>2, GotoStep, ZenonT(60) DEF Places
  <2> QED
    BY <2>2, <2>3
<1>5. CASE At("prepareCatchup")
  <2>1. PICK g \in FrameType : g = Frame("catchup", "enable")
    BY DEF Frame, FrameType, Places, Kinds
  <2>2. g.at = "enable" /\ g.kind = "catchup"
    BY <2>1 DEF Frame
  <2>3. stack' = Append(Moved("wait"), g)
    BY <1>5, <2>1 DEF PrepareForClientRead, At, Call
  <2>4. ~enabled["catchup"] /\ (Works("notify", inBlock) => enabled["notify"])
    BY <1>5, TopFacts DEF At, Blocks, Entitled, Kinds
  <2>5. \A f \in FrameType :
           f.at = "wait" /\ f.kind = TopFrame.kind /\ f.reenable = TopFrame.reenable =>
             SafeCall(stack, TopFrame, f, g, enabled, inBlock, cancels)
    BY <1>1, <1>5, <2>2, <2>4 DEF At, Works, SafeCall, Blocks, Borrows, Entitled, Looks,
       MainPlaces, ProcessPlaces, CancelPlaces, HandlerPlaces, Quiet, Noting, FrameType,
       Kinds
  <2> QED
    BY <1>2, <2>3, <2>5, CallTopStep, ZenonT(60) DEF Places
<1> QED
  BY <1>4, <1>5 DEF PrepareForClientRead

LEMMA NobodyBelow ==
    ASSUME ClientInv, Len(stack) = 1
    PROVE  NobodyEntitled(stack, inBlock, cancels)
<1>1. 1..Len(stack) - 1 = {}
  OBVIOUS
<1> QED
  BY <1>1, Zenon DEF NobodyEntitled

LEMMA DisableBothKept == ASSUME ClientInv, DisableBoth PROVE ClientInv'
<1>1. ClientTypes /\ TopFrame \in FrameType
  BY TopFacts DEF ClientInv
<1>2. ASSUME TopFrame.at \in {"ended", "cancel", "cleanup", "endedCatchup",
             "cancelCatchup",
                         "cleanupCatchup"}
      PROVE  NobodyEntitled(stack, inBlock, cancels)
  <2>1. CASE TopFrame.at \in CancelPlaces
    BY <2>1, TopFacts
  <2>2. CASE TopFrame.at \in MainPlaces
    BY <2>2, TopFacts, NobodyBelow
  <2> QED
    BY <1>2, <2>1, <2>2 DEF CancelPlaces, MainPlaces
<1>3. CASE TopFrame.at \in {"ended", "cancel", "cleanup"}
  <2>1. /\ enabled' = [enabled EXCEPT !["notify"] = FALSE] /\ noted' = noted
        /\ UNCHANGED <<sigusr1, session, bounds>> /\ signalFlag' = signalFlag
    BY <1>3 DEF DisableBoth, Set, signals
  <2>2. enabled' \in FlagType /\ noted' \in FlagType /\ signalFlag' \in FlagType
    BY <1>1, <2>1 DEF ClientTypes, FlagType
  <2>3. PICK label \in Places :
           /\ stack' = Moved(label)
           /\ \/ TopFrame.at = "ended" /\ label = "endedCatchup"
              \/ TopFrame.at = "cancel" /\ label = "cancelCatchup"
              \/ TopFrame.at = "cleanup" /\ label = "cleanupCatchup"
    <3>1. CASE TopFrame.at = "ended"
      BY <1>3, <3>1 DEF DisableBoth, At, GoOn, Places
    <3>2. CASE TopFrame.at = "cancel"
      BY <1>3, <3>2 DEF DisableBoth, At, GoOn, Places
    <3>3. CASE TopFrame.at = "cleanup"
      BY <1>3, <3>3 DEF DisableBoth, At, GoOn, Places
    <3> QED
      BY <1>3, <3>1, <3>2, <3>3
  <2>4. \A f \in FrameType :
           f.at = label /\ f.kind = TopFrame.kind /\ f.reenable = TopFrame.reenable =>
             SafeChange(stack, TopFrame, f, enabled, enabled', noted, noted', inBlock,
             cancels)
    BY <1>1, <1>2, <1>3, <2>1, <2>3 DEF ClientTypes, SafeChange, Blocks, Borrows,
       Entitled, Looks, MainPlaces, ProcessPlaces, CancelPlaces, HandlerPlaces, Quiet,
       Noting, FrameType, FlagType, Kinds
  <2> QED
    BY <2>1, <2>2, <2>3, <2>4, GotoStep, Zenon
<1>4. CASE TopFrame.at \in {"endedCatchup", "cancelCatchup", "cleanupCatchup"}
  <2>1. /\ enabled' = [enabled EXCEPT !["catchup"] = FALSE] /\ noted' = noted
        /\ UNCHANGED <<sigusr1, session, bounds>> /\ signalFlag' = signalFlag
    BY <1>4 DEF DisableBoth, Set, signals
  <2>2. enabled' \in FlagType /\ noted' \in FlagType /\ signalFlag' \in FlagType
    BY <1>1, <2>1 DEF ClientTypes, FlagType
  <2>3. CASE TopFrame.at = "cancelCatchup"
    <3>1. stack' = Front(stack) /\ Len(stack) # 1
      BY <1>4, <2>3, TopFacts DEF DisableBoth, At, Leave, MainPlaces
    <3>2. SafeReturn(stack, TopFrame, enabled, enabled', noted, noted', inBlock, cancels)
      BY <1>1, <1>2, <2>1, <2>3 DEF ClientTypes, SafeReturn, Borrows, Looks, FlagType,
         Kinds
    <3> QED
      BY <2>1, <2>2, <3>1, <3>2, ReturnStep, Zenon
  <2>4. CASE TopFrame.at # "cancelCatchup"
    <3>1. PICK label \in Places :
             stack' = Moved(label) /\ label \in {"busy", "abort"}
      <4>1. CASE TopFrame.at = "endedCatchup"
        BY <1>4, <4>1 DEF DisableBoth, At, GoOn, Places
      <4>2. CASE TopFrame.at = "cleanupCatchup"
        BY <1>4, <4>2 DEF DisableBoth, At, GoOn, Places
      <4> QED
        BY <1>4, <2>4, <4>1, <4>2
    <3>2. ~enabled["notify"]
      BY <1>4, <2>4, TopFacts DEF Blocks, Kinds
    <3>3. \A f \in FrameType :
             f.at = label /\ f.kind = TopFrame.kind /\ f.reenable = TopFrame.reenable =>
               SafeChange(stack, TopFrame, f, enabled, enabled', noted, noted', inBlock,
               cancels)
      BY <1>1, <1>2, <1>4, <2>1, <2>4, <3>1, <3>2 DEF ClientTypes, SafeChange, Blocks,
         Borrows, Entitled, Looks, MainPlaces, ProcessPlaces, CancelPlaces,
         HandlerPlaces, Quiet, Noting, FrameType, FlagType, Kinds
    <3> QED
      BY <2>1, <2>2, <3>1, <3>3, GotoStep, Zenon
  <2> QED
    BY <2>3, <2>4
<1> QED
  BY <1>3, <1>4 DEF DisableBoth

LEMMA AbortCurrentTransactionKept == ASSUME ClientInv, AbortCurrentTransaction
PROVE ClientInv'
<1>1. ClientTypes /\ TopFrame \in FrameType /\ TopFrame.at = "abort"
  BY TopFacts DEF ClientInv, AbortCurrentTransaction, At
<1>2. /\ enabled' = enabled /\ noted' = noted
      /\ UNCHANGED <<sigusr1, session, bounds>> /\ signalFlag' = signalFlag
      /\ enabled' \in FlagType /\ noted' \in FlagType /\ signalFlag' \in FlagType
      /\ stack' = Moved("prepareNotify")
  BY <1>1 DEF AbortCurrentTransaction, GoOn, flags, signals, ClientTypes
<1>3. \A k \in Kinds : ~enabled[k]
  BY <1>1, TopFacts DEF Blocks, Quiet
<1>4. \A f \in FrameType :
         f.at = "prepareNotify" /\ f.kind = TopFrame.kind
         /\ f.reenable = TopFrame.reenable =>
           SafeChange(stack, TopFrame, f, enabled, enabled', noted, noted', inBlock,
           cancels)
  BY <1>1, <1>2, <1>3 DEF SafeChange, Blocks, Borrows, Entitled, Looks, MainPlaces,
     ProcessPlaces, CancelPlaces, HandlerPlaces, Quiet, Noting, FrameType
<1> QED
  BY <1>2, <1>4, GotoStep, ZenonT(60) DEF Places

LEMMA ClientSendsKept == ASSUME ClientInv, ClientSends PROVE ClientInv'
<1>1. ClientTypes /\ TopFrame \in FrameType /\ TopFrame.at = "wait"
  BY TopFacts DEF ClientInv, ClientSends, At
<1>2. /\ enabled' = enabled /\ noted' = noted
      /\ UNCHANGED <<sigusr1, session, bounds>> /\ signalFlag' = signalFlag
      /\ enabled' \in FlagType /\ noted' \in FlagType /\ signalFlag' \in FlagType
      /\ stack' = Moved("ended")
  BY <1>1 DEF ClientSends, GoOn, flags, signals, ClientTypes
<1>3. \A f \in FrameType :
         f.at = "ended" /\ f.kind = TopFrame.kind /\ f.reenable = TopFrame.reenable =>
           SafeChange(stack, TopFrame, f, enabled, enabled', noted, noted', inBlock,
           cancels)
  BY <1>1, <1>2 DEF SafeChange, Blocks, Borrows, Entitled, Looks, MainPlaces,
     ProcessPlaces, CancelPlaces, HandlerPlaces, Quiet, Noting, FrameType
<1> QED
  BY <1>2, <1>3, GotoStep, ZenonT(60) DEF Places

LEMMA DeliverSIGUSR1Kept == ASSUME ClientInv, DeliverSIGUSR1 PROVE ClientInv'
<1>1. ClientTypes /\ TopFrame \in FrameType
  BY TopFacts DEF ClientInv
<1>2. /\ UNCHANGED <<flags, session, bounds>>
         /\ signalFlag' \in FlagType /\ sigusr1' \in BOOLEAN
  BY <1>1 DEF DeliverSIGUSR1, ClientTypes
<1>3. PICK g \in FrameType : g = Frame("catchup", "sigusr1")
  BY DEF Frame, FrameType, Places, Kinds
<1>4. g.at = "sigusr1"
  BY <1>3 DEF Frame
<1>5. FrameCalled(stack, stack', TopFrame, g)
  BY <1>1, <1>3, AppendCalls, Zenon DEF DeliverSIGUSR1
<1>6. \A i \in 1..Len(stack) : stack[i].at \notin HandlerPlaces
  BY Zenon DEF DeliverSIGUSR1, InHandler, HandlerPlaces
<1>7. TopFrame.at \notin HandlerPlaces
  BY <1>6, TopFacts, Zenon
<1>8. \A k \in Kinds : ~Blocks(g, k) /\ ~Borrows(g, k) /\ ~Entitled(g, k, inBlock,
         cancels)
  BY <1>4 DEF Blocks, Borrows, Entitled, Quiet
<1>9. \A k \in Kinds : Entitled(TopFrame, k, inBlock, cancels) => Works(k, inBlock)
  <2>1. ASSUME inBlock PROVE ~Entitled(TopFrame, "notify", inBlock, cancels)
    BY <2>1, TopFacts, Zenon DEF ClientInv, StackInv, ClosedInBlock
  <2> QED
    BY <2>1, Zenon DEF Works
<1>10. SafeCall(stack, TopFrame, TopFrame, g, enabled, inBlock, cancels)
  <2>1. g.at \in Noting /\ g.at \in HandlerPlaces /\ g.at \notin MainPlaces
        /\ g.at \notin CancelPlaces /\ g.at \notin ProcessPlaces
    BY <1>4 DEF Noting, HandlerPlaces, MainPlaces, CancelPlaces, ProcessPlaces
  <2> QED
    BY <1>6, <1>8, <1>9, <2>1, TopFacts, Zenon DEF SafeCall
<1> QED
  BY <1>1, <1>2, <1>5, <1>10, CallStep, Zenon

\* A stack of one frame, both kinds disabled.
LEMMA FreshInv ==
    ASSUME NEW s \in Seq(FrameType), Len(s) = 1, NEW e \in FrameType, e = s[1],
           e.at \in {"busy", "prepareNotify", "cleanup"},
           NEW en \in FlagType, NEW oc, NEW ib, NEW ca, \A k \in Kinds : ~en[k]
    PROVE  StackInv(s, en, oc, ib, ca)
<1>1. /\ \A i \in 1..Len(s) : s[i] = e /\ i = 1
      /\ \A i \in 2..Len(s) - 1 : FALSE
      /\ 1 \in 1..Len(s) /\ \A i, j \in 1..Len(s) : ~(i < j)
  OBVIOUS
<1>2. /\ e.at \in MainPlaces /\ e.at \notin ProcessPlaces /\ e.at \notin CancelPlaces
      /\ "notify" \in Kinds
      /\ \A k \in Kinds : ~Borrows(e, k) /\ ~Entitled(e, k, ib, ca)
  BY DEF MainPlaces, ProcessPlaces, CancelPlaces, Kinds, Borrows, Entitled
<1>3. Shape(s, ca)
  BY <1>1, <1>2, Zenon DEF Shape
<1>4. BlockedIsDown(s, en) /\ BorrowedWasUp(s) /\ EntitledIsServed(s, en, ib, ca)
  BY <1>1, <1>2, Zenon DEF BlockedIsDown, BorrowedWasUp, EntitledIsServed
<1>5. ClosedInBlock(s, en, ib, ca) /\ QuietIsQuiet(s) /\ NotesAreFound(s, en, oc)
  BY <1>1, <1>2, Zenon DEF ClosedInBlock, QuietIsQuiet, NotesAreFound
<1> QED
  BY <1>3, <1>4, <1>5, Zenon DEF StackInv

LEMMA ClientInitKept == IdleInit => ClientInv
<1> SUFFICES ASSUME IdleInit PROVE ClientInv
  OBVIOUS
<1>1. PICK f \in FrameType : f = Main("busy")
  BY DEF Main, Frame, FrameType, Places, Kinds
<1>2. stack = <<f>> /\ f.at = "busy"
  BY <1>1 DEF IdleInit, Main, Frame
<1>3. stack \in Seq(FrameType) /\ Len(stack) = 1 /\ stack[1] = f /\ stack # <<>>
  BY <1>2
<1>4. /\ enabled \in FlagType /\ noted \in FlagType /\ signalFlag \in FlagType
      /\ {sigusr1, inBlock, listening} \subseteq BOOLEAN /\ cancels \in Nat
      /\ \A k \in Kinds : ~enabled[k]
  BY DEF IdleInit, FlagType
<1>5. StackInv(stack, enabled, noted, inBlock, cancels)
  BY <1>2, <1>3, <1>4, FreshInv
<1> QED
  BY <1>3, <1>4, <1>5 DEF ClientInv, ClientTypes

LEMMA CommandDoneKept ==
    ASSUME ClientInv, NEW block \in BOOLEAN, NEW listen \in BOOLEAN,
           CommandDone(block, listen)
    PROVE  ClientInv'
<1>1. ClientTypes /\ TopFrame \in FrameType /\ TopFrame.at = "busy" /\ Len(stack) = 1
  BY TopFacts DEF ClientInv, CommandDone, At, MainPlaces
<1>2. \A k \in Kinds : ~enabled[k]
  BY <1>1, TopFacts DEF Blocks, Quiet
<1>3. PICK f : f = [TopFrame EXCEPT !.at = "prepareNotify"]
  OBVIOUS
<1>4. f \in FrameType /\ f.at = "prepareNotify"
  BY <1>1, <1>3 DEF FrameType, Places
<1>5. stack' = Moved("prepareNotify")
  BY Zenon DEF CommandDone, GoOn
<1>6. FrameChanged(stack, stack', f)
  BY <1>1, <1>3, <1>5, GotoChanges, Zenon DEF Places
<1>7. stack' \in Seq(FrameType) /\ Len(stack') = 1 /\ stack'[1] = f
  BY <1>1, <1>6 DEF FrameChanged
<1>8. /\ enabled' = enabled /\ enabled \in FlagType /\ noted' \in FlagType
      /\ signalFlag' \in FlagType
      /\ {sigusr1', inBlock', listening'} \subseteq BOOLEAN /\ cancels' \in Nat
  BY <1>1 DEF CommandDone, flags, signals, bounds, ClientTypes
<1>9. StackInv(stack', enabled', noted', inBlock', cancels')
  BY <1>2, <1>4, <1>7, <1>8, FreshInv
<1> QED
  BY <1>7, <1>8, <1>9, InvNext

LEMMA ErrorKept == ASSUME ClientInv, Error PROVE ClientInv'
<1>1. ClientTypes /\ TopFrame \in FrameType /\ TopFrame.at \in {"busy", "work"}
  BY TopFacts DEF ClientInv, Error, At
<1>2. \A k \in Kinds : ~enabled[k]
  BY <1>1, TopFacts DEF Blocks, Quiet
<1>3. PICK f \in FrameType : f = Main("cleanup")
  BY DEF Main, Frame, FrameType, Places, Kinds
<1>4. stack' = <<f>> /\ f.at = "cleanup"
  BY <1>3 DEF Error, Main, Frame
<1>5. stack' \in Seq(FrameType) /\ Len(stack') = 1 /\ stack'[1] = f
  BY <1>4
<1>6. /\ enabled' = enabled /\ enabled \in FlagType /\ noted' \in FlagType
      /\ signalFlag' \in FlagType
      /\ {sigusr1', inBlock', listening'} \subseteq BOOLEAN /\ cancels' \in Nat
  BY <1>1 DEF Error, flags, signals, session, ClientTypes
<1>7. StackInv(stack', enabled', noted', inBlock', cancels')
  BY <1>2, <1>4, <1>5, <1>6, FreshInv
<1> QED
  BY <1>5, <1>6, <1>7, InvNext

\* A cancel signal arrives in the wait for the client.
LEMMA CancelInv ==
    ASSUME NEW s \in Seq(FrameType), Len(s) = 1, NEW e \in FrameType, e = s[1], e.at =
           "wait",
           NEW t \in Seq(FrameType), Len(t) = 2, NEW g \in FrameType, t[1] = e, t[2] = g,
           g.at = "cancel",
           NEW en \in FlagType, NEW oc \in FlagType, NEW ib \in BOOLEAN, NEW ca \in Nat,
           StackInv(s, en, oc, ib, ca)
    PROVE  StackInv(t, en, oc, ib, ca + 1)
<1>1. /\ \A i \in 1..2 : i = 1 \/ i = 2
      /\ 1 \in 1..2 /\ 2 \in 1..2 /\ 1 \in 1..Len(s) /\ \A i \in 1..Len(s) : i = 1
      /\ \A i \in 2..Len(t) - 1 : FALSE
      /\ \A i, j \in 1..2 : i < j => i = 1 /\ j = 2
      /\ 1 # 2 /\ ca + 1 > 0 /\ ca + 1 # 0
  OBVIOUS
<1>2. /\ e.at \in MainPlaces /\ e.at \notin ProcessPlaces /\ e.at \notin CancelPlaces
      /\ e.at \notin HandlerPlaces /\ e.at \notin Quiet
      /\ g.at \notin MainPlaces /\ g.at \notin ProcessPlaces /\ g.at \in CancelPlaces
      /\ g.at \notin HandlerPlaces /\ g.at \notin Quiet
  BY DEF MainPlaces, ProcessPlaces, CancelPlaces, HandlerPlaces, Quiet
<1>3. \A k \in Kinds : /\ ~Borrows(e, k) /\ ~Entitled(e, k, ib, ca + 1)
         /\ ~Blocks(e, k)
                       /\ ~Borrows(g, k) /\ ~Entitled(g, k, ib, ca + 1) /\ ~Blocks(g, k)
                       /\ ~Looks(e, k)
  BY <1>1, <1>2 DEF Borrows, Entitled, Blocks, Looks
<1>4. Shape(t, ca + 1)
  <2>1. \A i \in 1..2 : t[i].at \in MainPlaces <=> i = 1
    BY <1>1, <1>2
  <2>2. \A i \in 1..2 : t[i].at \notin ProcessPlaces /\ t[i].at \notin HandlerPlaces
    BY <1>1, <1>2
  <2>3. \A i \in 1..2 : t[i].at \in CancelPlaces => i = 2 /\ t[1].at = "wait" /\ ca + 1 > 0
    BY <1>1, <1>2
  <2> QED
    BY <1>1, <2>1, <2>2, <2>3, Zenon DEF Shape
<1>5. BlockedIsDown(t, en) /\ BorrowedWasUp(t) /\ EntitledIsServed(t, en, ib, ca + 1)
  BY <1>1, <1>3, Zenon DEF BlockedIsDown, BorrowedWasUp, EntitledIsServed
<1>6. ClosedInBlock(t, en, ib, ca + 1)
  <2>1. ASSUME ib PROVE ~en["notify"]
    BY <2>1, Zenon DEF StackInv, ClosedInBlock
  <2>2. "notify" \in Kinds
    BY DEF Kinds
  <2> QED
    BY <1>1, <1>3, <2>1, <2>2, Zenon DEF ClosedInBlock
<1>7. QuietIsQuiet(t)
  BY <1>1, <1>2, Zenon DEF QuietIsQuiet
<1>8. NotesAreFound(t, en, oc)
  BY <1>1, <1>3, Zenon DEF StackInv, NotesAreFound
<1> QED
  BY <1>4, <1>5, <1>6, <1>7, <1>8, Zenon DEF StackInv

LEMMA StatementCancelHandlerKept == ASSUME ClientInv, StatementCancelHandler
PROVE ClientInv'
<1>1. ClientTypes /\ TopFrame \in FrameType /\ TopFrame.at = "wait" /\ Len(stack) = 1
      /\ stack[1] = TopFrame
  BY TopFacts DEF ClientInv, StatementCancelHandler, At, MainPlaces
<1>2. PICK g \in FrameType : g = Main("cancel")
  BY DEF Main, Frame, FrameType, Places, Kinds
<1>3. g.at = "cancel" /\ stack' = Append(stack, g)
  BY <1>2 DEF StatementCancelHandler, Main, Frame
<1>4. FrameCalled(stack, stack', TopFrame, g)
  BY <1>1, <1>3, AppendCalls, Zenon
<1>5. stack' \in Seq(FrameType) /\ Len(stack') = 2 /\ stack'[1] = TopFrame /\ stack'[2] =
      g
  BY <1>1, <1>4 DEF FrameCalled
<1>6. /\ enabled' = enabled /\ noted' = noted /\ inBlock' = inBlock
      /\ cancels' = cancels + 1 /\ signalFlag' \in FlagType
      /\ {sigusr1', inBlock', listening'} \subseteq BOOLEAN /\ cancels' \in Nat
      /\ enabled \in FlagType /\ noted \in FlagType /\ inBlock \in BOOLEAN
         /\ cancels \in Nat
      /\ stack \in Seq(FrameType)
  BY <1>1 DEF StatementCancelHandler, flags, signals, session, ClientTypes
<1>7. StackInv(stack', enabled', noted', inBlock', cancels')
  BY <1>1, <1>3, <1>5, <1>6, CancelInv DEF ClientInv
<1> QED
  BY <1>5, <1>6, <1>7, InvNext

LEMMA StackKept ==
    ASSUME ClientInv, UNCHANGED <<flags, session, stack, cancels>>,
           signalFlag' \in FlagType, sigusr1' \in BOOLEAN
    PROVE  ClientInv'
<1>1. /\ enabled' = enabled /\ noted' = noted /\ inBlock' = inBlock /\ stack' = stack
      /\ cancels' = cancels /\ listening' = listening
  BY DEF flags, session
<1>2. stack' \in Seq(FrameType) /\ Len(stack') # 0
  BY <1>1, StackFacts DEF ClientInv
<1>3. /\ StackInv(stack', enabled', noted', inBlock', cancels')
      /\ enabled' \in FlagType /\ noted' \in FlagType /\ cancels' \in Nat
      /\ {sigusr1', inBlock', listening'} \subseteq BOOLEAN
  BY <1>1 DEF ClientInv, ClientTypes
<1> QED
  BY <1>2, <1>3, InvNext

LEMMA SendProcSignalKept ==
    ASSUME ClientInv, NEW k \in Kinds, OtherSendsProcSignal(k)
    PROVE  ClientInv'
<1>1. signalFlag' \in FlagType /\ sigusr1' \in BOOLEAN
  BY DEF OtherSendsProcSignal, Set, ClientInv, ClientTypes, FlagType
<1>2. UNCHANGED <<flags, session, stack, cancels>>
  BY DEF OtherSendsProcSignal, bounds
<1> QED
  BY <1>1, <1>2, StackKept

LEMMA ClientStepInv == ClientInv /\ [IdleNext]_idleVars => ClientInv'
<1> SUFFICES ASSUME ClientInv, [IdleNext]_idleVars PROVE ClientInv'
  OBVIOUS
<1>1. CASE \E k \in Kinds : OtherSendsProcSignal(k)
  BY <1>1, SendProcSignalKept
<1>2. CASE DeliverSIGUSR1
  BY <1>2, DeliverSIGUSR1Kept
<1>3. CASE IdleStep
  <2>1. CASE \E block, listen \in BOOLEAN : CommandDone(block, listen)
    BY <2>1, CommandDoneKept
  <2> QED
    BY <1>3, <2>1, CheckProcSignalKept, HandlerEndKept, HandleKept, HandleDisabledKept,
       HandleEnabledKept, LoopEnableKept, LoopTestKept, LoopDisableKept,
       LoopTestAgainKept, ProcessKept, SaveOtherKept, DisableOtherKept, WorkKept,
       EndProcessKept, PrepareForClientReadKept, DisableBothKept,
       AbortCurrentTransactionKept, Zenon DEF IdleStep
<1>4. CASE ClientSends
  BY <1>4, ClientSendsKept
<1>5. CASE StatementCancelHandler
  BY <1>5, StatementCancelHandlerKept
<1>6. CASE Error
  BY <1>6, ErrorKept
<1>7. CASE UNCHANGED idleVars
  <2>1. UNCHANGED <<flags, session, stack, cancels>> /\ signalFlag' =
        signalFlag
        /\ sigusr1' = sigusr1
    BY <1>7 DEF idleVars, signals, bounds
  <2> QED
    BY <2>1, StackKept DEF ClientInv, ClientTypes
<1> QED
  BY <1>1, <1>2, <1>3, <1>4, <1>5, <1>6, <1>7, Zenon DEF IdleNext


-----------------------------------------------------------------------------
(***************************************************************************)
(* What the invariant says of the service                                  *)
(***************************************************************************)

\* Below the top and above the main loop, each frame is one of four, and there
\* is at most one of each.
LEMMA StackIsShort ==
    ASSUME NEW s \in Seq(FrameType), NEW en, NEW oc, NEW ib, NEW ca,
           StackInv(s, en, oc, ib, ca)
    PROVE  Len(s) <= 6
<1> DEFINE n == Len(s)
           Enables(i, k) == s[i].at = "enable" /\ s[i].kind = k
           Handler(i) == s[i].at \in HandlerPlaces
<1> SUFFICES ASSUME n > 6 PROVE FALSE
  BY DEF n
<1>1. n \in Nat /\ \A i \in 2..6 : i \in 2..n - 1 /\ i \in 1..n /\ i + 1 \in 1..n
  OBVIOUS
<1>2. ASSUME NEW i \in 1..n PROVE s[i].kind \in Kinds
  <2>1. s[i] \in FrameType
    OBVIOUS
  <2> QED
    BY <2>1 DEF FrameType
<1>3. ASSUME NEW i \in 2..6
      PROVE  Enables(i, "catchup") \/ Enables(i, "notify") \/ Handler(i) \/ Handler(i + 1)
  <2>1. s[i].at = "enable" \/ Handler(i) \/ Handler(i + 1)
    BY <1>1, Zenon DEF StackInv, Shape
  <2>2. s[i].kind \in {"catchup", "notify"}
    BY <1>1, <1>2 DEF Kinds
  <2> QED
    BY <2>1, <2>2
<1>4. ASSUME NEW i \in 2..6, NEW j \in 2..6, i < j, NEW k \in Kinds, Enables(i, k)
      PROVE  ~Enables(j, k)
  <2>1. Blocks(s[i], k) /\ (Enables(j, k) => Borrows(s[j], k))
    BY <1>4 DEF Blocks, Borrows
  <2> QED
    BY <1>1, <1>4, <2>1, Zenon DEF StackInv, BorrowedWasUp
<1>5. \A i, j \in 1..n : Handler(i) /\ Handler(j) => i = j
  BY Zenon DEF StackInv, Shape
<1> HIDE DEF Enables, Handler
<1>6. "catchup" \in Kinds /\ "notify" \in Kinds
  BY DEF Kinds
<1>7. \A i, j \in 2..6 : i < j => /\ ~(Enables(i, "catchup") /\ Enables(j, "catchup"))
                                  /\ ~(Enables(i, "notify") /\ Enables(j, "notify"))
                                  /\ ~(Handler(i) /\ Handler(j))
                                  /\ ~(Handler(i + 1) /\ Handler(j + 1))
  BY <1>1, <1>4, <1>5, <1>6
<1> QED
  BY <1>3, <1>7

LEMMA TypeHolds == ClientInv => IdleTypeOK
<1> SUFFICES ASSUME ClientInv PROVE IdleTypeOK
  OBVIOUS
<1>1. Len(stack) <= 6
  BY StackIsShort, Zenon DEF ClientInv, ClientTypes
<1> QED
  BY <1>1 DEF ClientInv, ClientTypes, IdleTypeOK, FlagType, FrameType

LEMMA OneService == ClientInv => OneServiceAtATime
<1> SUFFICES ASSUME ClientInv PROVE OneServiceAtATime
  OBVIOUS
<1>1. ASSUME NEW i \in InTransaction, NEW j \in InTransaction, i < j
             PROVE FALSE
  <2>1. /\ i \in 1..Len(stack) /\ j \in 1..Len(stack)
        /\ stack[i].at \in Quiet /\ stack[j].at \notin Noting
    BY DEF InTransaction, Quiet, Noting, HandlerPlaces
  <2> QED
    BY <1>1, <2>1, Zenon DEF ClientInv, StackInv, QuietIsQuiet
<1>2. InTransaction \subseteq Int
  BY DEF InTransaction
<1>3. ASSUME NEW i \in InTransaction PROVE InTransaction = {i}
  <2>1. ASSUME NEW j \in InTransaction PROVE j = i
    <3>1. i < j \/ j < i \/ i = j
      BY <1>2
    <3> QED
      BY <1>1, <1>3, <3>1, Zenon
  <2> QED
    BY <1>3, <2>1, Zenon
<1>4. CASE InTransaction = {}
  BY <1>4, FS_EmptySet DEF OneServiceAtATime
<1>5. CASE InTransaction # {}
  <2>1. PICK i : InTransaction = {i}
    BY <1>3, <1>5
  <2>2. Cardinality({i}) = 1
    BY FS_Singleton
  <2> QED
    BY <2>1, <2>2 DEF OneServiceAtATime
<1> QED
  BY <1>4, <1>5

LEMMA NothingUnserviced == ClientInv => NothingUnservicedAtWait
<1> SUFFICES ASSUME ClientInv, Idle, cancels = 0, NEW k \in Kinds,
             EnableWorks(k)
             PROVE  enabled[k] /\ ~noted[k]
  BY DEF NothingUnservicedAtWait
<1>1. /\ 1 \in 1..Len(stack) /\ \A i \in 1..Len(stack) : i = 1
      /\ stack[1].at = "wait"
  BY DEF Idle, TopFrame, At
<1>2. Entitled(stack[1], k, inBlock, cancels)
  BY <1>1 DEF Entitled, Works, EnableWorks
<1>3. enabled[k]
  BY <1>1, <1>2 DEF ClientInv, StackInv, EntitledIsServed
<1>4. ~Looks(stack[1], k)
  BY <1>1 DEF Looks
<1> QED
  BY <1>1, <1>3, <1>4, Zenon DEF ClientInv, StackInv, NotesAreFound

LEMMA NoServiceInACommand == ClientInv => NoServiceWhileBusy
<1> SUFFICES ASSUME ClientInv, stack[1].at = "busy", NEW k \in Kinds
             PROVE ~enabled[k]
  BY DEF NoServiceWhileBusy
<1>1. 1 \in 1..Len(stack)
  BY StackFacts DEF ClientInv
<1>2. Blocks(stack[1], k)
  BY DEF Blocks, Quiet
<1> QED
  BY <1>1, <1>2, Zenon DEF ClientInv, StackInv, BlockedIsDown

\* A backend does at most one piece of work at a time, none while it runs a
\* command, and has none left to do when it waits for its client, whatever
\* signals interrupt whatever step, for any number of cancels and errors.
THEOREM ServicedOneByOneHolds == IdleSpec => []ServicedOneByOne
<1>1. IdleInit => ClientInv
  BY ClientInitKept
<1>2. ClientInv /\ [IdleNext]_idleVars => ClientInv'
  BY ClientStepInv
<1>3. ClientInv => ServicedOneByOne
  BY TypeHolds, OneService, NothingUnserviced, NoServiceInACommand DEF ServicedOneByOne
<1> QED
  BY <1>1, <1>2, <1>3, PTL DEF IdleSpec

=============================================================================
