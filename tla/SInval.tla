------------------------------- MODULE SInval -------------------------------
(***************************************************************************)
(* Shared cache invalidation: storage/ipc/sinvaladt.c and sinval.c.        *)
(*                                                                         *)
(* Writers append messages to a ring in shared memory; every backend reads *)
(* them at its own position, nextMsgNum.  A backend that stands in the way *)
(* of a writer is put in reset state: it misses messages, and discards its *)
(* caches instead.  Two LWLocks protect the ring.  SInvalWriteLock         *)
(* serializes writers, cleanup, and the arrival and departure of backends; *)
(* readers share SInvalReadLock with each other and run in parallel with a *)
(* writer; cleanup holds both, so it is one step here and SInvalReadLock   *)
(* in exclusive mode needs no variable.                                    *)
(*                                                                         *)
(* A message is its serial number: the how many-th message it is since     *)
(* startup.  Message numbers are serials less base, what the wraparounds   *)
(* of the counters have subtracted so far.                                 *)
(***************************************************************************)
EXTENDS Integers, SequencesExt

CONSTANTS
  MaxBackends,       \* size of the procState array
  NoSlot,            \* no backend
  MAXNUMMESSAGES, MSGNUMWRAPAROUND, CLEANUP_MIN, CLEANUP_QUANTUM,
  SIG_THRESHOLD, WRITE_QUANTUM,
  MAXINVALMSGS,      \* size of the array ReceiveSharedInvalidMessages fills
  LXIDModulus,       \* 2^32, the local transaction ids
  MaxInsert,         \* bound: messages in one call of SIInsertDataEntries
  MaxMessages,       \* bound: messages inserted altogether
  MaxDepth,          \* bound: nested calls of ReceiveSharedInvalidMessages
  MaxLXIDs           \* bound: local transaction ids given out altogether

ASSUME SInvalAssumption ==
  /\ {MaxBackends, MAXNUMMESSAGES, MSGNUMWRAPAROUND, CLEANUP_MIN,
      CLEANUP_QUANTUM, WRITE_QUANTUM, MAXINVALMSGS, MaxInsert, MaxDepth}
        \subseteq Nat \ {0}
  /\ {SIG_THRESHOLD, MaxMessages, MaxLXIDs} \subseteq Nat
  /\ LXIDModulus \in Nat /\ LXIDModulus > 1
  /\ MSGNUMWRAPAROUND % MAXNUMMESSAGES = 0
  /\ CLEANUP_MIN <= MAXNUMMESSAGES
  /\ WRITE_QUANTUM <= MAXNUMMESSAGES

Slots == 1..MaxBackends

ASSUME NoSlotAssumption == NoSlot \notin Slots

InvalidLXID == 0

VARIABLES
  minMsgNum, maxMsgNum, nextThreshold, lastBackend,
  buffer,      \* [0..MAXNUMMESSAGES-1 -> message]
  active,      \* [Slots -> procPid # 0]
  nextMsgNum, resetState, signaled, sendOnly, nextLXID, \* ProcState, by slot
  writeLock,   \* the backend that holds SInvalWriteLock
  readers,     \* the backends that hold SInvalReadLock, in shared mode
  pc,          \* [Slots -> where the backend in the slot is]
  toInsert,    \* [Slots -> n of SIInsertDataEntries]
  thisTime,    \* [Slots -> nthistime]
  written,     \* [Slots -> messages of this quantum in the ring already]
  readMax,     \* [Slots -> max of SIGetDataEntries]
  pend,        \* [Slots -> messages[nextmsg .. nummsgs-1]]
  nummsgs,     \* [Slots -> nummsgs]
  frames,      \* [Slots -> calls of ReceiveSharedInvalidMessages, a stack]
  signalTo,    \* [Slots -> whom SICleanupQueue is about to signal]
  procSignal,  \* [Slots -> a catchup signal is sent and not delivered]
  occurred,    \* [Slots -> catchupInterruptOccurred]
  localLXID,   \* [Slots -> nextLocalTransactionId]
  base,        \* history: total subtracted from the counters
  knows,       \* history: [Slots -> serial up to which the caches are current]
  lastLXID,    \* history: [Slots -> last local transaction id given out]
  sent,        \* counter: messages inserted or being inserted
  issued       \* counter: [Slots -> local transaction ids given out]

ring == <<minMsgNum, maxMsgNum, nextThreshold, buffer>>
procState == <<active, nextMsgNum, resetState, signaled, sendOnly, lastBackend>>
locks == <<writeLock, readers>>
writing == <<toInsert, thisTime, written, sent>>
reading == <<readMax, pend, nummsgs, frames>>
catchup == <<signalTo, procSignal, occurred>>
lxids == <<nextLXID, localLXID, lastLXID, issued>>
vars == <<ring, procState, locks, pc, writing, reading, catchup, lxids,
          base, knows>>

Serial(num) == num + base

Init ==
  /\ minMsgNum = 0 /\ maxMsgNum = 0
  /\ nextThreshold = CLEANUP_MIN
  /\ lastBackend = 0
  /\ buffer = [i \in 0..MAXNUMMESSAGES - 1 |-> -1]
  /\ active = [s \in Slots |-> FALSE]
  /\ nextMsgNum = [s \in Slots |-> 0]
  /\ resetState = [s \in Slots |-> FALSE]
  /\ signaled = [s \in Slots |-> FALSE]
  /\ sendOnly = [s \in Slots |-> FALSE]
  /\ nextLXID = [s \in Slots |-> InvalidLXID]
  /\ writeLock = NoSlot /\ readers = {}
  /\ pc = [s \in Slots |-> "run"]
  /\ toInsert = [s \in Slots |-> 0]
  /\ thisTime = [s \in Slots |-> 0]
  /\ written = [s \in Slots |-> 0]
  /\ readMax = [s \in Slots |-> 0]
  /\ pend = [s \in Slots |-> <<>>]
  /\ nummsgs = [s \in Slots |-> 0]
  /\ frames = [s \in Slots |-> <<>>]
  /\ signalTo = [s \in Slots |-> NoSlot]
  /\ procSignal = [s \in Slots |-> FALSE]
  /\ occurred = [s \in Slots |-> FALSE]
  /\ localLXID = [s \in Slots |-> InvalidLXID]
  /\ base = 0
  /\ knows = [s \in Slots |-> 0]
  /\ lastLXID = [s \in Slots |-> InvalidLXID]
  /\ sent = 0
  /\ issued = [s \in Slots |-> 0]

Goto(s, label) == pc' = [pc EXCEPT ![s] = label]

Running(s) == active[s] /\ pc[s] = "run"
-----------------------------------------------------------------------------
(***************************************************************************)
(* Backends come and go                                                    *)
(***************************************************************************)

\* Mutant: a backend starts at the oldest message in the ring.
StartAtOldest == minMsgNum

\* A backend starts with all extant messages read.
StartPosition == maxMsgNum

FreeSlots == {s \in 1..lastBackend : ~active[s]}

\* The first free slot, or the next one never used; NoSlot when there is none
\* (then the caller fails without a trace).
SlotForNewBackend ==
  IF FreeSlots # {} THEN Min(FreeSlots)
  ELSE IF lastBackend < MaxBackends THEN lastBackend + 1 ELSE NoSlot

\* Only the Startup process, of which there is one, is send-only.
SharedInvalBackendInit(isSendOnly) ==
  LET s == SlotForNewBackend IN
  /\ writeLock = NoSlot
  /\ s # NoSlot
  /\ isSendOnly => \A t \in Slots : ~(active[t] /\ sendOnly[t])
  /\ lastBackend' = IF s > lastBackend THEN s ELSE lastBackend
  /\ localLXID' = [localLXID EXCEPT ![s] = nextLXID[s]]
  /\ active' = [active EXCEPT ![s] = TRUE]
  /\ nextMsgNum' = [nextMsgNum EXCEPT ![s] = StartPosition]
  /\ resetState' = [resetState EXCEPT ![s] = FALSE]
  /\ signaled' = [signaled EXCEPT ![s] = FALSE]
  /\ sendOnly' = [sendOnly EXCEPT ![s] = isSendOnly]
  /\ knows' = [knows EXCEPT ![s] = IF isSendOnly THEN 0 ELSE Serial(maxMsgNum)]
  /\ UNCHANGED <<ring, locks, pc, writing, reading, catchup, nextLXID,
                 lastLXID, issued, base>>

\* Mutant: the array is taken to end below the leaving backend.
LastBelow(s) == s - 1

\* lastBackend once s has left: the last slot still active.
LastBackendWithout(s) ==
  Max({0} \cup {t \in 1..lastBackend : active[t] /\ t # s})

\* Mutant: the slot's counter is not updated on exit.
LXIDNotSaved(s) == nextLXID[s]

LXIDSaved(s) == localLXID[s]

\* The static variables of the process go with it, and a signal on its way
\* to it finds no such process any more.
CleanupInvalidationState(s) ==
  /\ Running(s)
  /\ writeLock = NoSlot
  /\ nextLXID' = [nextLXID EXCEPT ![s] = LXIDSaved(s)]
  /\ active' = [active EXCEPT ![s] = FALSE]
  /\ nextMsgNum' = [nextMsgNum EXCEPT ![s] = 0]
  /\ resetState' = [resetState EXCEPT ![s] = FALSE]
  /\ signaled' = [signaled EXCEPT ![s] = FALSE]
  /\ lastBackend' = LastBackendWithout(s)
  /\ localLXID' = [localLXID EXCEPT ![s] = InvalidLXID]
  /\ pend' = [pend EXCEPT ![s] = <<>>]
  /\ nummsgs' = [nummsgs EXCEPT ![s] = 0]
  /\ readMax' = [readMax EXCEPT ![s] = 0]
  /\ knows' = [knows EXCEPT ![s] = 0]
  /\ occurred' = [occurred EXCEPT ![s] = FALSE]
  /\ procSignal' = [procSignal EXCEPT ![s] = FALSE]
  /\ signalTo' = [t \in Slots |-> IF signalTo[t] = s THEN NoSlot ELSE signalTo[t]]
  /\ UNCHANGED <<ring, sendOnly, locks, pc, writing, frames, lastLXID, issued,
                 base>>

\* The id after x; InvalidLocalTransactionId is skipped.
LXIDFrom(x) == IF x = InvalidLXID THEN InvalidLXID + 1 ELSE x

GetNextLocalTransactionId(s) ==
  LET result == LXIDFrom(localLXID[s]) IN
  /\ Running(s)
  /\ FoldFunction(+, 0, issued) < MaxLXIDs
  /\ lastLXID' = [lastLXID EXCEPT ![s] = result]
  /\ localLXID' = [localLXID EXCEPT ![s] = (result + 1) % LXIDModulus]
  /\ issued' = [issued EXCEPT ![s] = @ + 1]
  /\ UNCHANGED <<ring, procState, locks, pc, writing, reading, catchup,
                 nextLXID, base, knows>>
-----------------------------------------------------------------------------
(***************************************************************************)
(* SICleanupQueue                                                          *)
(***************************************************************************)

\* Mutant: room for the caller's messages is forgotten.
LowBoundWithoutRoom(minFree) == maxMsgNum - MAXNUMMESSAGES

\* Who is below this position stands in the way of minFree new messages.
LowBound(minFree) == maxMsgNum - MAXNUMMESSAGES + minFree

\* The backends cleanup looks at.
Receivers ==
  {s \in 1..lastBackend : active[s] /\ ~resetState[s] /\ ~sendOnly[s]}

TooFarBack(minFree) == {s \in Receivers : nextMsgNum[s] < LowBound(minFree)}

Kept(minFree) == Receivers \ TooFarBack(minFree)

NewMin(minFree) == Min({maxMsgNum} \cup {nextMsgNum[s] : s \in Kept(minFree)})

\* Those far enough behind for a catchup signal who have not had one.
Laggards(minFree) ==
  {s \in Kept(minFree) :
     nextMsgNum[s] < maxMsgNum - SIG_THRESHOLD /\ ~signaled[s]}

\* The furthest back of them; the first in the array among equals.
NeedSig(minFree) ==
  LET L == Laggards(minFree)
      furthest == {s \in L : \A t \in L : nextMsgNum[s] <= nextMsgNum[t]}
  IN  IF L = {} THEN NoSlot ELSE Min(furthest)

\* Mutant: the newest message decides instead of the oldest.
WrapByMax(min) == IF maxMsgNum >= MSGNUMWRAPAROUND THEN MSGNUMWRAPAROUND ELSE 0

\* Mutant: the counters are never reduced.
WrapNever(min) == 0

\* What is subtracted from all counters to keep them from overflowing.
Wrap(min) == IF min >= MSGNUMWRAPAROUND THEN MSGNUMWRAPAROUND ELSE 0

\* The fill at which the next insertion cleans up again.
Threshold(numMsgs) ==
  IF numMsgs < CLEANUP_MIN
  THEN CLEANUP_MIN
  ELSE (numMsgs \div CLEANUP_QUANTUM + 1) * CLEANUP_QUANTUM

\* The section under both locks.
CleanupSection(minFree) ==
  LET min == NewMin(minFree)
      wrap == Wrap(min)
      sig == NeedSig(minFree)
  IN
  /\ readers = {}
  /\ resetState' = [s \in Slots |-> resetState[s] \/ s \in TooFarBack(minFree)]
  /\ minMsgNum' = min - wrap
  /\ maxMsgNum' = maxMsgNum - wrap
  /\ nextMsgNum' = [s \in Slots |->
                      nextMsgNum[s] - (IF s <= lastBackend THEN wrap ELSE 0)]
  /\ nextThreshold' = Threshold(maxMsgNum - min)
  /\ signaled' = [s \in Slots |-> signaled[s] \/ s = sig]
  /\ base' = base + wrap
  /\ UNCHANGED <<buffer, active, sendOnly, lastBackend, readers>>

\* SendProcSignal, with no lock held: the flag in the slot of the process.
SendProcSignal(s) ==
  /\ procSignal' = [t \in Slots |-> procSignal[t] \/ t = signalTo[s]]
  /\ signalTo' = [signalTo EXCEPT ![s] = NoSlot]

-----------------------------------------------------------------------------
(***************************************************************************)
(* Writing: SIInsertDataEntries                                            *)
(***************************************************************************)

SIInsertDataEntries(s, n) ==
  /\ Running(s)
  /\ sent + n <= MaxMessages
  /\ toInsert' = [toInsert EXCEPT ![s] = n]
  /\ sent' = sent + n
  /\ Goto(s, "insert")
  /\ UNCHANGED <<ring, procState, locks, thisTime, written, reading, catchup,
                 lxids, base, knows>>

\* Take SInvalWriteLock for the next group of messages.
LockForInsert(s) ==
  LET quantum == Min({toInsert[s], WRITE_QUANTUM}) IN
  /\ pc[s] = "insert"
  /\ writeLock = NoSlot
  /\ writeLock' = s
  /\ thisTime' = [thisTime EXCEPT ![s] = quantum]
  /\ toInsert' = [toInsert EXCEPT ![s] = @ - quantum]
  /\ written' = [written EXCEPT ![s] = 0]
  /\ Goto(s, "check")
  /\ UNCHANGED <<ring, procState, readers, sent, reading, catchup, lxids,
                 base, knows>>

\* Mutant: the ring may grow past its size.
MustCleanPastEnd(n) == maxMsgNum - minMsgNum >= nextThreshold

\* Is there no room for n messages, or the threshold reached?
MustClean(n) ==
  LET numMsgs == maxMsgNum - minMsgNum IN
  numMsgs + n > MAXNUMMESSAGES \/ numMsgs >= nextThreshold

\* SICleanupQueue called by a writer.  If somebody needs a signal both locks
\* are given up for it, and others may use up the room before they are back.
CleanForInsert(s) ==
  /\ pc[s] = "check"
  /\ MustClean(thisTime[s])
  /\ CleanupSection(thisTime[s])
  /\ signalTo' = [signalTo EXCEPT ![s] = NeedSig(thisTime[s])]
  /\ IF NeedSig(thisTime[s]) = NoSlot
     THEN UNCHANGED <<writeLock, pc>>
     ELSE writeLock' = NoSlot /\ Goto(s, "signalForInsert")
  /\ UNCHANGED <<writing, reading, procSignal, occurred, lxids, knows>>

SignalForInsert(s) ==
  /\ pc[s] = "signalForInsert"
  /\ SendProcSignal(s)
  /\ Goto(s, "relock")
  /\ UNCHANGED <<ring, procState, locks, writing, reading, occurred, lxids,
                 base, knows>>

RelockForInsert(s) ==
  /\ pc[s] = "relock"
  /\ writeLock = NoSlot
  /\ writeLock' = s
  /\ Goto(s, "check")
  /\ UNCHANGED <<ring, procState, readers, writing, reading, catchup, lxids,
                 base, knows>>

\* Store one message in the ring, beyond what readers look at.
WriteMessage(s) ==
  LET num == maxMsgNum + written[s] IN
  /\ \/ pc[s] = "check" /\ ~MustClean(thisTime[s])
     \/ pc[s] = "write" /\ written[s] < thisTime[s]
  /\ buffer' = [buffer EXCEPT ![num % MAXNUMMESSAGES] = Serial(num)]
  /\ written' = [written EXCEPT ![s] = @ + 1]
  /\ Goto(s, "write")
  /\ UNCHANGED <<minMsgNum, maxMsgNum, nextThreshold, procState, locks,
                 toInsert, thisTime, sent, reading, catchup, lxids, base, knows>>

\* Make the group visible: maxMsgNum, under the spinlock.
Publish(s) ==
  /\ pc[s] = "write"
  /\ written[s] = thisTime[s]
  /\ maxMsgNum' = maxMsgNum + thisTime[s]
  /\ writeLock' = NoSlot
  /\ thisTime' = [thisTime EXCEPT ![s] = 0]
  /\ written' = [written EXCEPT ![s] = 0]
  /\ Goto(s, IF toInsert[s] > 0 THEN "insert" ELSE "run")
  /\ UNCHANGED <<minMsgNum, nextThreshold, buffer, procState, readers, toInsert,
                 sent, reading, catchup, lxids, base, knows>>

-----------------------------------------------------------------------------
(***************************************************************************)
(* Reading: ReceiveSharedInvalidMessages and SIGetDataEntries              *)
(***************************************************************************)

Depth(s) == Len(frames[s])
Top(s) == frames[s][Depth(s)]

\* A call of ReceiveSharedInvalidMessages, from outside or out of the
\* invalidation or reset function of another call: "at" is where a frame is
\* while it runs one of them, entry what had been queued on entry.
ReceiveSharedInvalidMessages(s) ==
  /\ \/ Running(s) /\ ~sendOnly[s]
     \/ pc[s] = "function" /\ Depth(s) < MaxDepth
  /\ frames' = [frames EXCEPT ![s] =
                  Append(@, [at |-> "drain", entry |-> Serial(maxMsgNum)])]
  /\ Goto(s, "drain")
  /\ UNCHANGED <<ring, procState, locks, writing, readMax, pend, nummsgs,
                 catchup, lxids, base, knows>>

\* Run the invalidation function on the next message: first on those an outer
\* call has fetched (line 89), then on our own (line 117).
CallInvalFunction(s) ==
  /\ pc[s] \in {"drain", "apply"}
  /\ pend[s] # <<>>
  /\ knows' = [knows EXCEPT ![s] = Head(pend[s]) + 1]
  /\ pend' = [pend EXCEPT ![s] = Tail(@)]
  /\ frames' = [frames EXCEPT ![s][Depth(s)].at = pc[s]]
  /\ Goto(s, "function")
  /\ UNCHANGED <<ring, procState, locks, writing, readMax, nummsgs, catchup,
                 lxids, base>>

FunctionReturns(s) ==
  /\ pc[s] = "function"
  /\ Goto(s, Top(s).at)
  /\ UNCHANGED <<ring, procState, locks, writing, reading, catchup, lxids,
                 base, knows>>

\* An error in the invalidation function unwinds all calls; the messages that
\* are fetched stay in the static array for the next call.
FunctionFails(s) ==
  /\ pc[s] = "function"
  /\ frames' = [frames EXCEPT ![s] = <<>>]
  /\ Goto(s, "run")
  /\ UNCHANGED <<ring, procState, locks, writing, readMax, pend, nummsgs,
                 catchup, lxids, base, knows>>

\* Line 100: no messages left of an outer call, fetch some.
Fetch(s) ==
  /\ \/ pc[s] = "drain" /\ pend[s] = <<>>
     \/ pc[s] = "apply" /\ pend[s] = <<>> /\ nummsgs[s] = MAXINVALMSGS
  /\ nummsgs' = [nummsgs EXCEPT ![s] = 0]
  /\ Goto(s, "get")
  /\ UNCHANGED <<ring, procState, locks, writing, readMax, pend, frames,
                 catchup, lxids, base, knows>>

\* Mutant: a reset backend resumes at its old position.
AfterResetOldPosition(s) == nextMsgNum[s]

\* Where a backend goes on reading after a reset.
AfterReset(s) == maxMsgNum

\* SIGetDataEntries finds us in reset state.  The reset function discards all
\* cached state, so that every message queued so far is dealt with.
GetReset(s) ==
  /\ pc[s] = "get"
  /\ resetState[s]
  /\ nextMsgNum' = [nextMsgNum EXCEPT ![s] = AfterReset(s)]
  /\ resetState' = [resetState EXCEPT ![s] = FALSE]
  /\ signaled' = [signaled EXCEPT ![s] = FALSE]
  /\ knows' = [knows EXCEPT ![s] = Serial(maxMsgNum)]
  /\ frames' = [frames EXCEPT ![s][Depth(s)].at = "done"]
  /\ Goto(s, "function")
  /\ UNCHANGED <<ring, active, sendOnly, lastBackend, locks, writing, readMax,
                 pend, nummsgs, catchup, lxids, base>>

\* SIGetDataEntries up to the copy loop: the lock, and maxMsgNum as it is now.
GetBegin(s) ==
  /\ pc[s] = "get"
  /\ ~resetState[s]
  /\ readers' = readers \cup {s}
  /\ readMax' = [readMax EXCEPT ![s] = maxMsgNum]
  /\ Goto(s, "read")
  /\ UNCHANGED <<ring, procState, writeLock, writing, pend, nummsgs, frames,
                 catchup, lxids, base, knows>>

More(s) == Len(pend[s]) < MAXINVALMSGS /\ nextMsgNum[s] < readMax[s]

\* Copy one message out of the ring.
ReadMessage(s) ==
  /\ pc[s] = "read"
  /\ More(s)
  /\ pend' = [pend EXCEPT ![s] =
                Append(@, buffer[nextMsgNum[s] % MAXNUMMESSAGES])]
  /\ nextMsgNum' = [nextMsgNum EXCEPT ![s] = @ + 1]
  /\ UNCHANGED <<ring, active, resetState, signaled, sendOnly, lastBackend,
                 locks, pc, writing, readMax, nummsgs, frames, catchup, lxids,
                 base, knows>>

\* The signaled flag after a read: down if we have caught up.
SignaledAfterGet(s) == signaled[s] /\ nextMsgNum[s] < readMax[s]

GetEnd(s) ==
  /\ pc[s] = "read"
  /\ ~More(s)
  /\ signaled' = [signaled EXCEPT ![s] = SignaledAfterGet(s)]
  /\ readers' = readers \ {s}
  /\ nummsgs' = [nummsgs EXCEPT ![s] = Len(pend[s])]
  /\ readMax' = [readMax EXCEPT ![s] = 0]
  /\ Goto(s, "apply")
  /\ UNCHANGED <<ring, active, nextMsgNum, resetState, sendOnly, lastBackend,
                 writeLock, writing, pend, frames, catchup, lxids, base, knows>>

\* Mutant: a full array is not followed by another read.
CaughtUpAlways(s) == pend[s] = <<>>

\* Everything fetched is processed, and the last fetch, possibly that of an
\* inner call, was not a full array.
CaughtUp(s) == pend[s] = <<>> /\ nummsgs[s] # MAXINVALMSGS

\* Line 138: after the loop, or a reset, see whether a catchup interrupt is to
\* be passed on.
Finish(s) ==
  /\ \/ pc[s] = "apply" /\ CaughtUp(s)
     \/ pc[s] = "done"
  /\ occurred' = [occurred EXCEPT ![s] = FALSE]
  /\ Goto(s, IF occurred[s] THEN "passOn" ELSE "return")
  /\ UNCHANGED <<ring, procState, locks, writing, reading, signalTo,
                 procSignal, lxids, base, knows>>

\* SICleanupQueue called by a backend that has caught up.
PassOn(s) ==
  /\ pc[s] = "passOn"
  /\ writeLock = NoSlot
  /\ CleanupSection(0)
  /\ signalTo' = [signalTo EXCEPT ![s] = NeedSig(0)]
  /\ Goto(s, IF NeedSig(0) = NoSlot THEN "return" ELSE "signal")
  /\ UNCHANGED <<writeLock, writing, reading, procSignal, occurred, lxids,
                 knows>>

Signal(s) ==
  /\ pc[s] = "signal"
  /\ SendProcSignal(s)
  /\ Goto(s, "return")
  /\ UNCHANGED <<ring, procState, locks, writing, reading, occurred, lxids,
                 base, knows>>

\* ReceiveSharedInvalidMessages returns, to the function it was called from.
Return(s) ==
  /\ pc[s] = "return"
  /\ frames' = [frames EXCEPT ![s] = Front(@)]
  /\ Goto(s, IF Depth(s) = 1 THEN "run" ELSE "function")
  /\ UNCHANGED <<ring, procState, locks, writing, readMax, pend, nummsgs,
                 catchup, lxids, base, knows>>

\* The signal arrives, in whatever the process is doing.  (An idle process
\* then calls ReceiveSharedInvalidMessages; a call may come at any time here.)
HandleCatchupInterrupt(s) ==
  /\ procSignal[s]
  /\ procSignal' = [procSignal EXCEPT ![s] = FALSE]
  /\ occurred' = [occurred EXCEPT ![s] = TRUE]
  /\ UNCHANGED <<ring, procState, locks, pc, writing, reading, signalTo, lxids,
                 base, knows>>

-----------------------------------------------------------------------------
\* A backend goes on inside a call.
Step(s) ==
  \/ LockForInsert(s) \/ CleanForInsert(s) \/ SignalForInsert(s)
  \/ RelockForInsert(s) \/ WriteMessage(s) \/ Publish(s)
  \/ CallInvalFunction(s) \/ FunctionReturns(s) \/ Fetch(s)
  \/ GetReset(s) \/ GetBegin(s) \/ ReadMessage(s) \/ GetEnd(s)
  \/ Finish(s) \/ PassOn(s) \/ Signal(s) \/ Return(s)
  \/ HandleCatchupInterrupt(s)

Next ==
  \/ \E isSendOnly \in BOOLEAN : SharedInvalBackendInit(isSendOnly)
  \/ \E s \in Slots :
       \/ CleanupInvalidationState(s)
       \/ GetNextLocalTransactionId(s)
       \/ \E n \in 1..MaxInsert : SIInsertDataEntries(s, n)
       \/ ReceiveSharedInvalidMessages(s)
       \/ FunctionFails(s)
       \/ Step(s)

Spec == Init /\ [][Next]_vars

-----------------------------------------------------------------------------
(***************************************************************************)
(* Properties                                                              *)
(***************************************************************************)

\* Every variable keeps its type.
TypeOK ==
  /\ {minMsgNum, maxMsgNum, nextThreshold, lastBackend, base, sent} \subseteq Nat
  /\ \A v \in {active, resetState, signaled, sendOnly, procSignal, occurred} :
       v \in [Slots -> BOOLEAN]
  /\ \A v \in {nextLXID, toInsert, thisTime, written, nummsgs, localLXID,
               knows, lastLXID, issued} : v \in [Slots -> Nat]
  /\ nextMsgNum \in [Slots -> Int] /\ readMax \in [Slots -> Int]
  /\ buffer \in [0..MAXNUMMESSAGES - 1 -> Nat \cup {-1}]
  /\ pend \in [Slots -> Seq(Nat)]
  /\ writeLock \in Slots \cup {NoSlot}
  /\ signalTo \in [Slots -> Slots \cup {NoSlot}]
  /\ readers \subseteq Slots

\* The message counters stay below MSGNUMWRAPAROUND by the size of the ring
\* at most, so that they never overflow an int.
CountersBounded ==
  /\ minMsgNum < MSGNUMWRAPAROUND
  /\ maxMsgNum < MSGNUMWRAPAROUND + MAXNUMMESSAGES

\* The active backends that read messages and need not reset.
Current == {s \in Slots : active[s] /\ ~sendOnly[s] /\ ~resetState[s]}

\* No message that a current backend has still to read is overwritten: the
\* ring keeps all of them, at the places their numbers say, whatever writers
\* do while the locks are given up for a signal, and across wraparounds of the
\* counters, which stay bounded (SICleanupQueue).
UnreadMessagesIntact ==
  /\ TypeOK /\ CountersBounded
  /\ maxMsgNum - minMsgNum <= MAXNUMMESSAGES
  /\ \A num \in minMsgNum..maxMsgNum - 1 :
       buffer[num % MAXNUMMESSAGES] = Serial(num)
  /\ \A s \in Current : minMsgNum <= nextMsgNum[s] /\ nextMsgNum[s] <= maxMsgNum

\* What a backend has fetched and what it will read next continue what its
\* caches reflect, with no gap and no repetition: also after errors in the
\* invalidation function and under recursion.
DeliveryInOrder ==
  \A s \in Current :
    /\ \A i \in 1..Len(pend[s]) : pend[s][i] = knows[s] + i - 1
    /\ Serial(nextMsgNum[s]) = knows[s] + Len(pend[s])

\* ReceiveSharedInvalidMessages processes all messages that had been queued
\* before it was entered (sinval.c, head comment), recursive calls included.
CaughtUpOnReturn ==
  \A s \in Slots :
    pc[s] \in {"passOn", "signal", "return"} => knows[s] >= Top(s).entry

\* Cleanup, which looks at the slots up to lastBackend only, sees every active
\* backend, whatever order backends come and go in.
ActiveBackendsSeen == \A s \in Slots : active[s] => s <= lastBackend

\* A writer that cleans up and need not signal has room for its messages, so
\* that its loop goes round again only after a signal.
CleanupMakesRoom ==
  [][\A s \in Slots :
       CleanForInsert(s) /\ signalTo'[s] = NoSlot => ~MustClean(thisTime[s])']_vars

\* The backends of a slot, one after the other, are given successive local
\* transaction ids, never the invalid one: a virtual transaction id comes back
\* only after all the others.
LXIDsSuccessive ==
  [][\A s \in Slots :
       issued'[s] # issued[s] =>
         lastLXID'[s] = (lastLXID[s] % (LXIDModulus - 1)) + 1]_vars

Abstract == INSTANCE InvalBus WITH
  published <- Serial(maxMsgNum),
  member <- {s \in Slots : active[s] /\ ~sendOnly[s]},
  position <- knows

\* The ring implements a broadcast that every member takes message by message
\* in the order of publication, or jumps ahead of by a reset.
ImplementsInvalBus == Abstract!Spec
=============================================================================
