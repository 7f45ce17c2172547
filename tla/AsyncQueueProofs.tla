-------------------------- MODULE AsyncQueueProofs --------------------------
(***************************************************************************)
(* Proofs about AsyncQueue, for every number of backends, databases,       *)
(* channels and transactions and every size of the queue.                  *)
(*                                                                         *)
(* Types says where a backend can be, XactInv what its transaction has     *)
(* come to there, and WriterInv that the entries in progress are those of  *)
(* the holder of the lock and at the end of the queue: this is CommitOrder.*)
(* On it rests DeliveryInv, that what was sent is behind the backend.      *)
(*                                                                         *)
(* RegisteredInv is not an invariant of the code: UNLISTEN of the last     *)
(* channel and then LISTEN in one transaction leave a backend that listens *)
(* out of the array.  The results that need the registration are about     *)
(* behaviours without such a transaction (ListensFirst).  AheadInv and     *)
(* MissInv are about what a listener is owed, TailInv about the tail.      *)
(***************************************************************************)
EXTENDS AsyncQueue, WellFoundedInduction, SequenceTheorems, TLAPS

-----------------------------------------------------------------------------
(***************************************************************************)
(* Facts about numbers                                                     *)
(***************************************************************************)

\* The least element of a set of natural numbers.
LEMMA MinIsLeast ==
    ASSUME NEW T \in SUBSET Nat, T # {}
    PROVE  Min(T) \in T /\ \A y \in T : Min(T) <= y
<1>. DEFINE R == {ij \in Nat \X Nat : ij[1] < ij[2]}
<1>1. IsWellFoundedOn(R, Nat)
    BY NatLessThanWellFounded DEF OpToRel
<1>2. PICK x \in T : \A y \in T : <<y, x>> \notin R
    BY <1>1, WFMin
<1>3. ASSUME NEW y \in T PROVE x <= y
    <2>1. x \in Nat /\ y \in Nat /\ ~(y < x)
        BY <1>2
    <2>. QED  BY <2>1
<1>. QED  BY <1>3 DEF Min

-----------------------------------------------------------------------------

Reading == {"read", "entries", "update"}
Labels == {"idle", "preflight", "lock", "add", "commit", "release", "atcommit",
           "completed", "signal", "abort", "recordAbort", "advance", "exit"}
          \cup Reading
Returns == {"idle", "lock", "atcommit", "recordAbort", "exit"}

\* Where the backend is for its transaction: subroutines count as their return.
At(b) == IF pc[b] \in Reading \cup {"advance"} THEN ret[b] ELSE pc[b]

\* From the start of a transaction to its commit or abort.
Running == {"preflight", "lock", "add", "commit", "abort", "recordAbort"}
\* From the commit to the end of AtCommit_Notify.
Committing == {"release", "atcommit"}

ReadBounds(b) ==
    /\ rd[b].oldpos <= rd[b].pos
    /\ rd[b].pos <= rd[b].head
    /\ rd[b].head <= QueueHead
    /\ pc[b] \in {"entries", "update"} => rd[b].oldpos = pos[b]

EntryType == [xid : Nat, channel : Channels, db : Range(Database)]

QueueTypes ==
    /\ log \in Seq(EntryType) /\ tail \in 0..QueueHead
    /\ pos \in [Backends -> 0..QueueHead]
    /\ owed \in [Backends -> SUBSET (1..QueueHead)]
    /\ delivered \in [Backends -> Seq(1..QueueHead)]

ListenTypes ==
    /\ listenChannels \in [Backends -> SUBSET Channels]
    /\ effective \in [Backends -> SUBSET Channels]
    /\ pendingActions \in [Backends -> Seq(Actions)]
    /\ pendingNotifies \in [Backends -> Seq(Channels)]

FlagTypes ==
    /\ registered \in [Backends -> BOOLEAN] /\ initialListen \in [Backends -> BOOLEAN]
    /\ hasSent \in [Backends -> BOOLEAN] /\ onExit \in [Backends -> BOOLEAN]
    /\ signalled \in [Backends -> BOOLEAN] /\ procSignal \in [Backends -> BOOLEAN]
    /\ occurred \in [Backends -> BOOLEAN] /\ gaveUp \in [Backends -> BOOLEAN]
    /\ targets \in [Backends -> SUBSET Backends]

XactTypes ==
    /\ xstate \in Seq({"inProgress", "committed", "aborted"})
    /\ xid \in [Backends -> Xids \cup {NoXid}]
    /\ writer \in Backends \cup {NoBackend}

PlaceTypes ==
    /\ pc \in [Backends -> Labels] /\ ret \in [Backends -> Returns]
    /\ rd \in [Backends -> [pos : Nat, oldpos : Nat, head : Nat]]
    /\ \A b \in Backends : pc[b] \in Reading => ret[b] \in {"lock", "idle"}

ReadInv == \A b \in Backends : ReadBounds(b)

Types == QueueTypes /\ ListenTypes /\ FlagTypes /\ XactTypes /\ PlaceTypes /\ ReadInv

XactOf(b) ==
    /\ At(b) \in Running => xid[b] # NoXid /\ xstate[xid[b]] = "inProgress"
    /\ At(b) \in Committing => xid[b] # NoXid /\ xstate[xid[b]] = "committed"
    /\ At(b) \notin Running \cup Committing => xid[b] = NoXid /\ pendingActions[b] = <<>>
    /\ At(b) = "recordAbort" => pendingActions[b] = <<>>

XactInv ==
    /\ \A b \in Backends : XactOf(b)
    /\ \A b, c \in Backends : xid[b] = xid[c] => b = c \/ xid[b] = NoXid
    /\ \A i \in 1..QueueHead : log[i].xid \in Xids

InProgress(i) == xstate[log[i].xid] = "inProgress"

WriterOf(b) ==
    /\ pc[b] = "add" => writer = b
    /\ writer = b =>
          hasSent[b] /\ At(b) \in {"add", "commit", "release", "abort", "recordAbort"}

WriterEntries ==
    /\ \A i \in 1..QueueHead : InProgress(i) =>
          writer \in Backends /\ log[i].xid = xid[writer]
    /\ \A i, j \in 1..QueueHead : i < j /\ InProgress(i) => log[j].xid = log[i].xid

WriterInv == WriterEntries /\ \A b \in Backends : WriterOf(b)

\* An entry that was sent to the client lies behind the backend.  A backend
\* that has begun to listen, at the tail, gets there with its initial read.
SentBefore(b, i) ==
    /\ pc[b] \notin Reading => i <= pos[b]
    /\ pc[b] = "read" /\ ret[b] # "lock" => i <= pos[b]
    /\ pc[b] = "entries" => i <= IF ret[b] = "lock" THEN rd[b].head ELSE rd[b].pos
    /\ pc[b] = "update" => i <= rd[b].pos

InitialRead(b) == pc[b] \in Reading /\ ret[b] = "lock"

DeliveryOf(b) ==
    /\ InitialRead(b) => listenChannels[b] = {}
    /\ \A k \in 1..Len(delivered[b]) :
          /\ SentBefore(b, delivered[b][k])
          /\ xstate[log[delivered[b][k]].xid] = "committed"
    /\ \A k, m \in 1..Len(delivered[b]) : k < m => delivered[b][k] < delivered[b][m]

DeliveryInv == \A b \in Backends : DeliveryOf(b)

\* A registered backend is not behind the tail.
PositionInv == \A b \in Backends : registered[b] => tail <= pos[b]

HasListen(actions) == \E i \in DOMAIN actions : actions[i].kind = "LISTEN"
WantsListen(b) == HasListen(pendingActions[b])

\* No transaction listens after an UNLISTEN.
ListensFirst ==
    \A b \in Backends : \A i, j \in DOMAIN pendingActions[b] :
        i < j /\ pendingActions[b][j].kind = "LISTEN"
          => pendingActions[b][i].kind = "LISTEN"

RegisteredOf(b) ==
    /\ listenChannels[b] # {} => registered[b]
    /\ pc[b] \in Reading => registered[b]
    /\ WantsListen(b) /\ pc[b] # "preflight" => registered[b]
    /\ registered[b] => onExit[b]
    /\ At(b) = "exit" => ~registered[b]

RegisteredInv == \A b \in Backends : RegisteredOf(b)

\* What is in progress and not behind the tail is ahead of every listener.
AheadOf(b) ==
    registered[b] => \A i \in 1..QueueHead :
        InProgress(i) /\ log[i].db = Database[b] /\ tail < i =>
            pos[b] < i /\ (pc[b] \in {"entries", "update"} => rd[b].pos < i)

AheadInv == \A b \in Backends : AheadOf(b)

EffectiveOf(b) ==
    effective[b] = IF At(b) \in Committing
                   THEN AfterActions(listenChannels[b], pendingActions[b])
                   ELSE listenChannels[b]

MissOf(b) ==
    \A i \in owed[b] :
        /\ log[i].channel \in effective[b] /\ log[i].db = Database[b]
        /\ xstate[log[i].xid] = "committed"
        /\ tail < i /\ pos[b] < i
        /\ pc[b] \in {"entries", "update"} => rd[b].pos < i

MissInv == \A b \in Backends : EffectiveOf(b) /\ MissOf(b)

\* The tail is behind the slowest listener, or the head.
Lags == tail < QueueHead /\ \A b \in Backends : registered[b] => tail < pos[b]

\* Nobody is registered, and b has found no one else for the tail.
TailLeftTo(b) ==
    /\ \A c \in Backends : ~registered[c]
    /\ \/ hasSent[b]
       \/ pc[b] = "signal" /\ targets[b] = {} /\ ~signalled[b] /\ listenChannels[b] = {}

TailInv == Lags => \E b \in Backends : pc[b] = "advance" \/ TailLeftTo(b)

-----------------------------------------------------------------------------
(***************************************************************************)
(* Types                                                                   *)
(***************************************************************************)

\* The steps of a backend.
Moves(b) ==
    \/ \E actions \in ActionLists, notifies \in NotifyLists :
          StartCommit(b, actions, notifies)
    \/ CommitError(b) \/ SendError(b) \/ Exit(b) \/ Step(b)

LEMMA TypesAreTypeOK ==
    Types => TypeOK
<1>. SUFFICES ASSUME Types PROVE TypeOK
    OBVIOUS
<1>1. \A v \in {registered, initialListen, hasSent, onExit, signalled,
                procSignal, occurred, gaveUp} : v \in [Backends -> BOOLEAN]
    BY DEF Types, FlagTypes
<1>2. targets \in [Backends -> SUBSET Backends]
    BY DEF Types, FlagTypes
<1>. QED  BY <1>1, <1>2, Zenon DEF Types, TypeOK, QueueTypes, ListenTypes, XactTypes, EntryType

LEMMA BoundedSeqs ==
    ASSUME NEW S, NEW n \in Nat, NEW s \in BoundedSeq(S, n)
    PROVE  s \in Seq(S)
<1>1. PICK m \in 0..n : s \in [1..m -> S]
    BY DEF BoundedSeq, SeqOf
<1>. QED  BY <1>1

\* The least position is one of the queue, and no listener is behind it.
LEMMA SlowestIs ==
    ASSUME QueueTypes
    PROVE  /\ SlowestPosition \in 0..QueueHead
           /\ \A b \in Backends : registered[b] => SlowestPosition <= pos[b]
           /\ \/ SlowestPosition = QueueHead
              \/ \E b \in Backends : registered[b] /\ SlowestPosition = pos[b]
<1>. DEFINE P == {QueueHead} \cup {pos[b] : b \in {c \in Backends : registered[c]}}
<1>1. QueueHead \in Nat
    BY DEF QueueTypes, QueueHead
<1>2. P \in SUBSET (0..QueueHead) /\ P # {} /\ P \in SUBSET Nat
    BY <1>1 DEF QueueTypes
<1>3. SlowestPosition = Min(P)
    BY DEF SlowestPosition
<1>4. Min(P) \in P /\ \A y \in P : Min(P) <= y
    <2>. HIDE DEF P
    <2>. QED  BY <1>2, MinIsLeast
<1>5. ASSUME NEW b \in Backends, registered[b] PROVE Min(P) <= pos[b]
    <2>1. pos[b] \in P
        BY <1>5
    <2>. QED  BY <1>4, <2>1
<1>6. \/ Min(P) = QueueHead
      \/ \E b \in Backends : registered[b] /\ Min(P) = pos[b]
    BY <1>4
<1>. QED  BY <1>2, <1>3, <1>4, <1>5, <1>6
LEMMA InitTypes ==
    Init => Types
<1>. SUFFICES ASSUME Init PROVE Types
    OBVIOUS
<1>1. log = <<>> /\ QueueHead = 0 /\ xstate = <<>>
    BY DEF Init, QueueHead
<1>2. QueueTypes
    BY <1>1 DEF Init, QueueTypes
<1>3. ListenTypes /\ FlagTypes
    BY DEF Init, ListenTypes, FlagTypes
<1>4. XactTypes
    BY <1>1 DEF Init, XactTypes, NoXid
<1>5. PlaceTypes
    BY DEF Init, PlaceTypes, NoRead, Labels, Returns, Reading
<1>6. ReadInv
    BY <1>1 DEF Init, ReadInv, ReadBounds, NoRead
<1>. QED  BY <1>2, <1>3, <1>4, <1>5, <1>6 DEF Types
LEMMA QueueTypesStep ==
    ASSUME NEW b \in Backends, Types,
           \/ AddEntry(b) \/ AdvanceTail(b) \/ ReadEntry(b) \/ SendError(b)
           \/ ReadUpdate(b) \/ ListenPreCommit(b) \/ RecordCommit(b)
           \/ Exit(b) \/ Restart(b)
    PROVE  QueueTypes'
<1>. USE DEF Types, QueueTypes, QueueHead
<1>. QueueHead \in Nat
    OBVIOUS
<1>1. CASE AddEntry(b)
    <2>1. /\ log' = Append(log, [xid |-> xid[b], channel |-> Head(pendingNotifies[b]),
                                 db |-> Database[b]])
          /\ UNCHANGED <<tail, pos, owed, delivered>>
        BY <1>1 DEF AddEntry, listeners, client
    <2>2. [xid |-> xid[b], channel |-> Head(pendingNotifies[b]),
           db |-> Database[b]] \in EntryType
        <3>1. xid[b] \in Nat
            <4>1. Len(xstate) \in Nat /\ xid[b] \in Xids \cup {NoXid}
                BY DEF XactTypes
            <4>. QED  BY <4>1 DEF Xids, NoXid
        <3>2. Head(pendingNotifies[b]) \in Channels
            BY <1>1 DEF AddEntry, ListenTypes
        <3>3. Database[b] \in Range(Database)
            <4>1. DOMAIN Database = Backends
                BY AsyncQueueAssumption
            <4>. QED  BY <4>1 DEF Range
        <3>. QED  BY <3>1, <3>2, <3>3 DEF EntryType
    <2>3. log' \in Seq(EntryType) /\ Len(log') = Len(log) + 1
        BY <2>1, <2>2
    <2>4. ASSUME NEW c \in Backends PROVE delivered[c] \in Seq(1..Len(log'))
        BY <2>3
    <2>. QED  BY <2>1, <2>3, <2>4
<1>2. CASE AdvanceTail(b)
    <2>1. tail' \in 0..QueueHead /\ UNCHANGED <<log, pos, owed, delivered>>
        BY <1>2, SlowestIs DEF AdvanceTail, listeners, client
    <2>. QED  BY <2>1
<1>3. CASE ReadEntry(b)
    <2>1. rd[b].pos + 1 \in 1..QueueHead
        BY <1>3 DEF ReadEntry, PlaceTypes, ReadInv, ReadBounds
    <2>2. delivered' \in [Backends -> Seq(1..QueueHead)]
        <3>1. Append(delivered[b], rd[b].pos + 1) \in Seq(1..QueueHead)
            BY <2>1
        <3>. QED  BY <1>3, <3>1 DEF ReadEntry
    <2>3. owed' \in [Backends -> SUBSET (1..QueueHead)]
        BY <1>3 DEF ReadEntry
    <2>. QED  BY <1>3, <2>2, <2>3 DEF ReadEntry, queue, listeners
<1>4. CASE SendError(b)
    <2>1. owed' \in [Backends -> SUBSET (1..QueueHead)]
        BY <1>4 DEF SendError
    <2>. QED  BY <1>4, <2>1 DEF SendError, queue, listeners
<1>5. CASE ReadUpdate(b)
    <2>1. rd[b].pos \in 0..QueueHead
        BY DEF PlaceTypes, ReadInv, ReadBounds
    <2>. QED  BY <1>5, <2>1 DEF ReadUpdate, PositionAfterRead, queue, client
<1>6. CASE ListenPreCommit(b)
    <2>1. pos' \in [Backends -> 0..QueueHead]
        BY <1>6 DEF ListenPreCommit, ListenFrom, listeners
    <2>. QED  BY <1>6, <2>1 DEF ListenPreCommit, queue, client
<1>7. CASE RecordCommit(b)
    <2>1. owed' \in [Backends -> SUBSET (1..QueueHead)]
        BY <1>7 DEF RecordCommit, Entries
    <2>. QED  BY <1>7, <2>1 DEF RecordCommit, queue, listeners
<1>8. CASE Exit(b)
    <2>1. owed' \in [Backends -> SUBSET (1..QueueHead)]
        BY <1>8 DEF Exit
    <2>. QED  BY <1>8, <2>1 DEF Exit, queue
<1>9. CASE Restart(b)
    <2>1. delivered' \in [Backends -> Seq(1..QueueHead)]
        BY <1>9 DEF Restart
    <2>. QED  BY <1>9, <2>1 DEF Restart, queue, listeners
<1>. QED  BY <1>1, <1>2, <1>3, <1>4, <1>5, <1>6, <1>7, <1>8, <1>9
LEMMA ListenTypesStep ==
    ASSUME NEW b \in Backends, Types,
           \/ \E actions \in ActionLists, notifies \in NotifyLists :
                StartCommit(b, actions, notifies)
           \/ AddEntry(b) \/ RecordCommit(b) \/ AtCommitAction(b)
           \/ AtCommitEnd(b) \/ AtAbort(b) \/ Exit(b)
    PROVE  ListenTypes'
<1>. USE DEF Types, ListenTypes
<1>1. ASSUME NEW actions \in ActionLists, NEW notifies \in NotifyLists,
             StartCommit(b, actions, notifies)
      PROVE  ListenTypes'
    <2>1. MaxActions \in Nat /\ MaxNotifies \in Nat
        BY AsyncQueueAssumption
    <2>2. actions \in Seq(Actions)
        BY <2>1, BoundedSeqs DEF ActionLists
    <2>3. notifies \in Seq(Channels)
        BY <2>1, BoundedSeqs DEF NotifyLists
    <2>. QED  BY <1>1, <2>2, <2>3 DEF StartCommit, client
<1>2. CASE AddEntry(b)
    <2>1. Tail(pendingNotifies[b]) \in Seq(Channels)
        BY <1>2 DEF AddEntry
    <2>2. pendingNotifies' \in [Backends -> Seq(Channels)]
        BY <1>2, <2>1 DEF AddEntry
    <2>. QED  BY <1>2, <2>2 DEF AddEntry, client
<1>3. CASE RecordCommit(b)
    <2>1. AfterActions(effective[b], pendingActions[b]) \in SUBSET Channels
        BY DEF AfterActions
    <2>2. effective' \in [Backends -> SUBSET Channels]
        BY <1>3, <2>1 DEF RecordCommit
    <2>. QED  BY <1>3, <2>2 DEF RecordCommit, pending
<1>4. CASE AtCommitAction(b)
    <2>. DEFINE a == Head(pendingActions[b])
                channels == AfterAction(listenChannels[b], a)
    <2>1. a \in Actions /\ Tail(pendingActions[b]) \in Seq(Actions)
        BY <1>4 DEF AtCommitAction
    <2>2. channels \in SUBSET Channels
        <3>1. a.kind = "LISTEN" \/ a.kind = "UNLISTEN" \/ a.kind = "UNLISTEN_ALL"
            BY <2>1, AsyncQueueAssumption DEF Actions
        <3>2. a.kind = "LISTEN" => a.channel \in Channels
            BY <2>1 DEF Actions
        <3>. QED  BY <3>1, <3>2 DEF AfterAction
    <2>3. /\ listenChannels' = [listenChannels EXCEPT ![b] = channels]
          /\ pendingActions' = [pendingActions EXCEPT ![b] = Tail(@)]
          /\ UNCHANGED <<effective, pendingNotifies>>
        BY <1>4 DEF AtCommitAction, client
    <2>. HIDE DEF channels
    <2>4. listenChannels' \in [Backends -> SUBSET Channels]
        BY <2>2, <2>3
    <2>5. pendingActions' \in [Backends -> Seq(Actions)]
        BY <2>1, <2>3
    <2>. QED  BY <2>3, <2>4, <2>5
<1>5. CASE AtCommitEnd(b)
    <2>1. pendingNotifies' \in [Backends -> Seq(Channels)]
        BY <1>5 DEF AtCommitEnd
    <2>. QED  BY <1>5, <2>1 DEF AtCommitEnd, client
<1>6. CASE AtAbort(b)
    <2>1. /\ pendingNotifies' \in [Backends -> Seq(Channels)]
          /\ pendingActions' \in [Backends -> Seq(Actions)]
        BY <1>6 DEF AtAbort
    <2>. QED  BY <1>6, <2>1 DEF AtAbort, client
<1>7. CASE Exit(b)
    <2>1. /\ effective' \in [Backends -> SUBSET Channels]
          /\ listenChannels' \in [Backends -> SUBSET Channels]
        BY <1>7 DEF Exit
    <2>. QED  BY <1>7, <2>1 DEF Exit, pending
<1>. QED  BY <1>1, <1>2, <1>3, <1>4, <1>5, <1>6, <1>7

LEMMA FlagTypesStep ==
    ASSUME NEW b \in Backends, Types,
           \/ ReadBegin(b) \/ SendError(b) \/ ListenPreCommit(b) \/ LockQueue(b)
           \/ AtCommitAction(b) \/ AtCommitEnd(b) \/ AtAbort(b)
           \/ CompletedNotifies(b) \/ SignalsSent(b)
           \/ \E c \in Backends : SendSignal(b, c)
           \/ HandleNotifyInterrupt(b) \/ ProcessIncomingNotify(b)
           \/ Exit(b) \/ Restart(b)
    PROVE  FlagTypes'
<1>. USE DEF Types, FlagTypes, pending, flags, signals, client, listeners
<1>1. CASE ReadBegin(b) \/ SendError(b)
    BY <1>1 DEF ReadBegin, SendError
<1>2. CASE ListenPreCommit(b)
    BY <1>2 DEF ListenPreCommit
<1>3. CASE LockQueue(b)
    BY <1>3 DEF LockQueue
<1>4. CASE AtCommitAction(b) \/ AtCommitEnd(b) \/ AtAbort(b)
    BY <1>4 DEF AtCommitAction, AtCommitEnd, AtAbort, Unregister
<1>5. CASE CompletedNotifies(b)
    <2>1. Behind(b) \in SUBSET Backends
        BY DEF Behind
    <2>2. CASE hasSent[b]
        <3>1. targets' = [targets EXCEPT ![b] = Behind(b)]
            BY <1>5, <2>2 DEF CompletedNotifies
        <3>2. targets' \in [Backends -> SUBSET Backends]
            BY <2>1, <3>1
        <3>3. /\ hasSent' = [hasSent EXCEPT ![b] = FALSE]
              /\ signalled' = [signalled EXCEPT ![b] = FALSE]
            BY <1>5, <2>2 DEF CompletedNotifies
        <3>. QED  BY <1>5, <3>2, <3>3 DEF CompletedNotifies
    <2>3. CASE ~hasSent[b]
        BY <1>5, <2>3 DEF CompletedNotifies
    <2>. QED  BY <2>2, <2>3
<1>6. CASE SignalsSent(b)
    BY <1>6 DEF SignalsSent
<1>7. CASE \E c \in Backends : SendSignal(b, c)
    BY <1>7 DEF SendSignal
<1>8. CASE HandleNotifyInterrupt(b) \/ ProcessIncomingNotify(b)
    BY <1>8 DEF HandleNotifyInterrupt, ProcessIncomingNotify
<1>9. CASE Exit(b)
    BY <1>9 DEF Exit, Unregister
<1>10. CASE Restart(b)
    BY <1>10 DEF Restart
<1>. QED  BY <1>1, <1>2, <1>3, <1>4, <1>5, <1>6, <1>7, <1>8, <1>9, <1>10

LEMMA XactTypesStep ==
    ASSUME NEW b \in Backends, Types,
           \/ \E actions \in ActionLists, notifies \in NotifyLists :
                StartCommit(b, actions, notifies)
           \/ LockQueue(b) \/ RecordCommit(b) \/ ReleaseLocks(b)
           \/ AtCommitEnd(b) \/ RecordAbort(b)
    PROVE  XactTypes'
<1>. USE DEF Types, XactTypes, Xids, NoXid
<1>. DEFINE X == {"inProgress", "committed", "aborted"}
<1>. Len(xstate) \in Nat
    OBVIOUS
<1>1. ASSUME NEW actions \in ActionLists, NEW notifies \in NotifyLists,
             StartCommit(b, actions, notifies)
      PROVE  XactTypes'
    <2>1. xstate' \in Seq(X) /\ Len(xstate') = Len(xstate) + 1
        BY <1>1 DEF StartCommit
    <2>. QED  BY <1>1, <2>1 DEF StartCommit
<1>2. ASSUME NEW v \in X, xstate' = [xstate EXCEPT ![xid[b]] = v]
      PROVE  xstate' \in Seq(X) /\ Len(xstate') = Len(xstate)
    <2>. xstate \in Seq(X)
        OBVIOUS
    <2>1. CASE xid[b] \in 1..Len(xstate)
        BY <1>2, <2>1, ExceptSeq
    <2>2. CASE xid[b] \notin 1..Len(xstate)
        <3>1. xstate' = xstate
            BY <1>2, <2>2
        <3>. QED  BY <3>1
    <2>. QED  BY <2>1, <2>2
<1>3. CASE LockQueue(b)
    BY <1>3 DEF LockQueue
<1>4. CASE RecordCommit(b)
    <2>1. xstate' \in Seq(X) /\ Len(xstate') = Len(xstate)
        BY <1>2, <1>4 DEF RecordCommit
    <2>. QED  BY <1>4, <2>1 DEF RecordCommit
<1>5. CASE ReleaseLocks(b)
    BY <1>5 DEF ReleaseLocks, WriterWithout
<1>6. CASE AtCommitEnd(b)
    BY <1>6 DEF AtCommitEnd
<1>7. CASE RecordAbort(b)
    <2>1. xstate' \in Seq(X) /\ Len(xstate') = Len(xstate)
        BY <1>2, <1>7 DEF RecordAbort
    <2>. QED  BY <1>7, <2>1 DEF RecordAbort, WriterWithout
<1>. QED  BY <1>1, <1>3, <1>4, <1>5, <1>6, <1>7

\* Every step moves one backend, from where it can be to where it can be.
LEMMA PlaceTypesStep ==
    ASSUME NEW b \in Backends, Types, Moves(b)
    PROVE  PlaceTypes'
<1>. USE DEF Types, PlaceTypes, Labels, Returns, Reading, Goto, Call
<1>1. ASSUME NEW actions \in ActionLists, NEW notifies \in NotifyLists,
             StartCommit(b, actions, notifies)
      PROVE  PlaceTypes'
    BY <1>1 DEF StartCommit
<1>2. CASE CommitError(b)
    BY <1>2 DEF CommitError
<1>3. CASE SendError(b)
    BY <1>3 DEF SendError
<1>4. CASE Exit(b)
    BY <1>4, ZenonT(60) DEF Exit, Unregister
<1>5. CASE ReadBegin(b)
    <2>1. pos[b] \in Nat /\ QueueHead \in Nat
        BY DEF QueueTypes, QueueHead
    <2>2. rd' \in [Backends -> [pos : Nat, oldpos : Nat, head : Nat]]
        BY <1>5, <2>1 DEF ReadBegin
    <2>. QED  BY <1>5, <2>2 DEF ReadBegin
<1>6. CASE ReadEntry(b)
    <2>1. [rd[b] EXCEPT !.pos = @ + 1] \in [pos : Nat, oldpos : Nat, head : Nat]
        OBVIOUS
    <2>2. rd' = [rd EXCEPT ![b] = [rd[b] EXCEPT !.pos = @ + 1]]
        BY <1>6 DEF ReadEntry
    <2>. QED  BY <1>6, <2>1, <2>2 DEF ReadEntry
<1>7. CASE ReadStops(b) \/ AdvanceTail(b)
    BY <1>7 DEF ReadStops, AdvanceTail
<1>8. CASE ReadUpdate(b)
    BY <1>8 DEF ReadUpdate, NoRead
<1>9. CASE ListenPreCommit(b) \/ LockQueue(b) \/ AddEntry(b) \/ QueueFullError(b)
    BY <1>9, ZenonT(60) DEF ListenPreCommit, LockQueue, AddEntry, QueueFullError
<1>10. CASE RecordCommit(b) \/ ReleaseLocks(b) \/ AtCommitEnd(b) \/ RecordAbort(b)
    BY <1>10 DEF RecordCommit, ReleaseLocks, AtCommitEnd, RecordAbort
<1>11. CASE AtCommitAction(b) \/ AtAbort(b)
    <2>1. /\ rd' = rd
          /\ \/ UNCHANGED <<pc, ret>>
             \/ Call(b, "advance", "atcommit")
             \/ Call(b, "advance", "recordAbort")
             \/ Goto(b, "atcommit") /\ UNCHANGED ret
             \/ Goto(b, "recordAbort") /\ UNCHANGED ret
        BY <1>11 DEF AtCommitAction, AtAbort, Unregister
    <2>. QED  BY <2>1
<1>12. CASE CompletedNotifies(b) \/ SignalsSent(b) \/ \E c \in Backends : SendSignal(b, c)
    BY <1>12, ZenonT(60) DEF CompletedNotifies, SignalsSent, SendSignal
<1>13. CASE HandleNotifyInterrupt(b) \/ ProcessIncomingNotify(b) \/ Restart(b)
    BY <1>13, ZenonT(60) DEF HandleNotifyInterrupt, ProcessIncomingNotify, Restart
<1>. QED  BY <1>1, <1>2, <1>3, <1>4, <1>5, <1>6, <1>7, <1>8, <1>9, <1>10,
             <1>11, <1>12, <1>13 DEF Moves, Step

\* A step of a backend leaves what belongs to the others alone.
LEMMA OthersStay ==
    ASSUME NEW b \in Backends, NEW c \in Backends, c # b, Types, Moves(b)
    PROVE  /\ pc'[c] = pc[c] /\ ret'[c] = ret[c] /\ rd'[c] = rd[c]
           /\ pos'[c] = pos[c] /\ registered'[c] = registered[c]
           /\ xid'[c] = xid[c] /\ listenChannels'[c] = listenChannels[c]
           /\ pendingActions'[c] = pendingActions[c]
           /\ hasSent'[c] = hasSent[c] /\ onExit'[c] = onExit[c]
           /\ signalled'[c] = signalled[c] /\ gaveUp'[c] = gaveUp[c]
           /\ delivered'[c] = delivered[c] /\ effective'[c] = effective[c]
<1>. USE DEF Types, QueueTypes, ListenTypes, FlagTypes, XactTypes, PlaceTypes,
             Goto, Call, Unregister, queue, listeners, xact, pending, flags, signals,
             client
<1>1. CASE \E actions \in ActionLists, notifies \in NotifyLists :
             StartCommit(b, actions, notifies)
    BY <1>1 DEF StartCommit
<1>2. CASE CommitError(b) \/ QueueFullError(b)
    BY <1>2 DEF CommitError, QueueFullError
<1>3. CASE SendError(b) \/ ReadBegin(b)
    BY <1>3, SMTT(30) DEF SendError, ReadBegin
<1>4. CASE Exit(b)
    BY <1>4, SMTT(30) DEF Exit
<1>5. CASE ReadEntry(b)
    BY <1>5 DEF ReadEntry
<1>6. CASE ReadStops(b) \/ AdvanceTail(b)
    BY <1>6 DEF ReadStops, AdvanceTail
<1>7. CASE ReadUpdate(b)
    BY <1>7 DEF ReadUpdate
<1>8. CASE ListenPreCommit(b)
    BY <1>8, SMTT(30) DEF ListenPreCommit
<1>9. CASE LockQueue(b) \/ AddEntry(b)
    BY <1>9, SMTT(30) DEF LockQueue, AddEntry
<1>10. CASE RecordCommit(b)
    BY <1>10 DEF RecordCommit
<1>11. CASE ReleaseLocks(b) \/ AtCommitEnd(b) \/ RecordAbort(b)
    BY <1>11 DEF ReleaseLocks, AtCommitEnd, RecordAbort
<1>12. CASE AtCommitAction(b)
    BY <1>12, SMTT(30) DEF AtCommitAction
<1>13. CASE AtAbort(b)
    BY <1>13, SMTT(30) DEF AtAbort
<1>14. CASE CompletedNotifies(b)
    BY <1>14, SMTT(30) DEF CompletedNotifies
<1>15. CASE SignalsSent(b) \/ \E d \in Backends : SendSignal(b, d)
    BY <1>15, SMTT(30) DEF SignalsSent, SendSignal
<1>16. CASE HandleNotifyInterrupt(b) \/ ProcessIncomingNotify(b) \/ Restart(b)
    BY <1>16, SMTT(30) DEF HandleNotifyInterrupt, ProcessIncomingNotify, Restart
<1>. QED  BY <1>1, <1>2, <1>3, <1>4, <1>5, <1>6, <1>7, <1>8, <1>9, <1>10, <1>11,
             <1>12, <1>13, <1>14, <1>15, <1>16 DEF Moves, Step

\* The queue only grows at its end, and only the owner of the lock adds to it.
LEMMA LogGrows ==
    ASSUME NEW b \in Backends, Types, Moves(b)
    PROVE  /\ QueueHead \in Nat /\ QueueHead' \in Nat /\ QueueHead <= QueueHead'
           /\ \A i \in 1..QueueHead : log'[i] = log[i] /\ i \in 1..QueueHead'
           /\ \/ log' = log /\ QueueHead' = QueueHead
              \/ /\ AddEntry(b) /\ QueueHead' = QueueHead + 1
                 /\ log'[QueueHead + 1] = [xid |-> xid[b],
                        channel |-> Head(pendingNotifies[b]), db |-> Database[b]]
<1>. USE DEF QueueHead
<1>. log \in Seq(EntryType) /\ Len(log) \in Nat
    BY DEF Types, QueueTypes
<1>1. CASE AddEntry(b)
    <2>. DEFINE e == [xid |-> xid[b], channel |-> Head(pendingNotifies[b]),
                      db |-> Database[b]]
    <2>1. log' = Append(log, e)
        BY <1>1 DEF AddEntry
    <2>. HIDE DEF e
    <2>2. /\ Len(log') = Len(log) + 1 /\ log'[Len(log) + 1] = e
          /\ \A i \in 1..Len(log) : log'[i] = log[i]
        BY <2>1, AppendProperties
    <2>. QED  BY <1>1, <2>2 DEF e
<1>2. CASE ~AddEntry(b)
    <2>1. log' = log
        BY <1>2 DEF Moves, Step, StartCommit, CommitError, SendError, Exit,
           ReadBegin, ReadEntry, ReadStops, ReadUpdate, AdvanceTail,
           ListenPreCommit, LockQueue, QueueFullError, RecordCommit,
           ReleaseLocks, AtCommitAction, AtCommitEnd, AtAbort, RecordAbort,
           CompletedNotifies, SignalsSent, SendSignal, HandleNotifyInterrupt,
           ProcessIncomingNotify, Restart, queue
    <2>. QED  BY <2>1
<1>. QED  BY <1>1, <1>2

\* The state of a transaction is set once by its backend.
LEMMA StateChanges ==
    ASSUME NEW b \in Backends, Types, Moves(b)
    PROVE  /\ Len(xstate) \in Nat /\ Len(xstate) <= Len(xstate')
           /\ \/ xstate' = xstate
              \/ /\ \E actions \in ActionLists, notifies \in NotifyLists :
                       StartCommit(b, actions, notifies)
                 /\ Len(xstate') = Len(xstate) + 1
                 /\ xstate'[Len(xstate) + 1] = "inProgress"
              \/ /\ RecordCommit(b) /\ Len(xstate') = Len(xstate)
                 /\ xid[b] # NoXid => xstate'[xid[b]] = "committed"
              \/ /\ RecordAbort(b) /\ Len(xstate') = Len(xstate)
                 /\ xid[b] # NoXid => xstate'[xid[b]] = "aborted"
           /\ \A x \in Xids : xstate'[x] # xstate[x] =>
                 x = xid[b] /\ (RecordCommit(b) \/ RecordAbort(b))
<1>. xstate \in Seq({"inProgress", "committed", "aborted"}) /\ Len(xstate) \in Nat
    BY DEF Types, XactTypes
<1>1. ASSUME NEW actions \in ActionLists, NEW notifies \in NotifyLists,
             StartCommit(b, actions, notifies)
      PROVE  /\ Len(xstate') = Len(xstate) + 1
             /\ xstate'[Len(xstate) + 1] = "inProgress"
             /\ \A x \in Xids : xstate'[x] = xstate[x]
    <2>1. xstate' = Append(xstate, "inProgress")
        BY <1>1 DEF StartCommit
    <2>. QED  BY <2>1, AppendProperties DEF Xids
<1>2. ASSUME NEW v, xstate' = [xstate EXCEPT ![xid[b]] = v]
      PROVE  /\ Len(xstate') = Len(xstate)
             /\ xid[b] # NoXid => xstate'[xid[b]] = v
             /\ \A x \in Xids : xstate'[x] # xstate[x] => x = xid[b]
    <2>1. xid[b] \in Xids \cup {NoXid} /\ DOMAIN xstate = Xids
        BY DEF Types, XactTypes, Xids
    <2>2. DOMAIN xstate' = Xids /\ \A x \in Xids : x # xid[b] => xstate'[x] = xstate[x]
        BY <1>2, <2>1
    <2>3. Len(xstate') = Len(xstate)
        BY <2>2 DEF Xids
    <2>. QED  BY <1>2, <2>1, <2>2, <2>3
<1>3. CASE RecordCommit(b)
    <2>1. xstate' = [xstate EXCEPT ![xid[b]] = "committed"]
        BY <1>3 DEF RecordCommit
    <2>. QED  BY <1>2, <1>3, <2>1
<1>4. CASE RecordAbort(b)
    <2>1. xstate' = [xstate EXCEPT ![xid[b]] = "aborted"]
        BY <1>4 DEF RecordAbort
    <2>. QED  BY <1>2, <1>4, <2>1
<1>5. CASE /\ ~RecordCommit(b) /\ ~RecordAbort(b)
           /\ ~\E actions \in ActionLists, notifies \in NotifyLists :
                  StartCommit(b, actions, notifies)
    <2>1. xstate' = xstate
        BY <1>5 DEF Moves, Step, CommitError, SendError, Exit,
           ReadBegin, ReadEntry, ReadStops, ReadUpdate, AdvanceTail,
           ListenPreCommit, LockQueue, AddEntry, QueueFullError,
           ReleaseLocks, AtCommitAction, AtCommitEnd, AtAbort,
           CompletedNotifies, SignalsSent, SendSignal, HandleNotifyInterrupt,
           ProcessIncomingNotify, Restart, xact
    <2>. QED  BY <2>1
<1>. QED  BY <1>1, <1>3, <1>4, <1>5

\* Only the steps of a read lead to where the queue is read, or go on there.
LEMMA EntersRead ==
    ASSUME NEW b \in Backends, Types, Moves(b), pc'[b] \in {"entries", "update"},
           ~ReadBegin(b), ~ReadEntry(b), ~SendError(b), ~ReadStops(b)
    PROVE  pc' = pc /\ pos' = pos /\ registered' = registered /\ ret' = ret /\ rd' = rd
           /\ listenChannels' = listenChannels /\ HandleNotifyInterrupt(b)
<1>. USE DEF Goto, Call, Unregister, listeners, signals
<1>. pc \in [Backends -> Labels] /\ ret[b] \in Returns
    BY DEF Types, PlaceTypes
<1>. USE DEF Returns
<1>1. CASE \E actions \in ActionLists, notifies \in NotifyLists :
             StartCommit(b, actions, notifies)
    BY <1>1 DEF StartCommit
<1>2. CASE CommitError(b) \/ QueueFullError(b) \/ AdvanceTail(b) \/ ReadUpdate(b)
    BY <1>2 DEF CommitError, QueueFullError, AdvanceTail, ReadUpdate
<1>3. CASE Exit(b) \/ AtCommitAction(b) \/ AtAbort(b)
    BY <1>3 DEF Exit, AtCommitAction, AtAbort
<1>4. CASE ListenPreCommit(b) \/ LockQueue(b) \/ AddEntry(b)
    BY <1>4 DEF ListenPreCommit, LockQueue, AddEntry
<1>5. CASE RecordCommit(b) \/ ReleaseLocks(b) \/ AtCommitEnd(b) \/ RecordAbort(b)
    BY <1>5 DEF RecordCommit, ReleaseLocks, AtCommitEnd, RecordAbort
<1>6. CASE CompletedNotifies(b) \/ SignalsSent(b)
    BY <1>6 DEF CompletedNotifies, SignalsSent
<1>7. CASE \E c \in Backends : SendSignal(b, c)
    BY <1>7 DEF SendSignal
<1>8. CASE HandleNotifyInterrupt(b)
    BY <1>8 DEF HandleNotifyInterrupt
<1>9. CASE ProcessIncomingNotify(b) \/ Restart(b)
    BY <1>9 DEF ProcessIncomingNotify, Restart
<1>. QED  BY <1>1, <1>2, <1>3, <1>4, <1>5, <1>6, <1>7, <1>8, <1>9 DEF Moves, Step

\* A read keeps inside the queue, and its position comes from the array.
LEMMA ReadInvStep ==
    ASSUME NEW b \in Backends, Types, Moves(b)
    PROVE  ReadInv'
<1>1. QueueHead \in Nat /\ QueueHead' \in Nat /\ QueueHead <= QueueHead'
    BY LogGrows
<1>2. ASSUME NEW c \in Backends, c # b PROVE ReadBounds(c)'
    <2>1. /\ pc'[c] = pc[c] /\ rd'[c] = rd[c] /\ pos'[c] = pos[c]
        BY <1>2, OthersStay
    <2>2. ReadBounds(c) /\ rd[c].head \in Nat
        BY DEF Types, ReadInv, PlaceTypes
    <2>. QED  BY <1>1, <2>1, <2>2 DEF ReadBounds
<1>3. ReadBounds(b)'
    <2>. USE DEF ReadBounds
    <2>1. /\ ReadBounds(b) /\ pos[b] \in 0..QueueHead
          /\ rd[b] \in [pos : Nat, oldpos : Nat, head : Nat]
          /\ pc \in [Backends -> Labels]
          /\ rd \in [Backends -> [pos : Nat, oldpos : Nat, head : Nat]]
        BY DEF Types, ReadInv, PlaceTypes, QueueTypes
    <2>2. CASE ReadBegin(b)
        <3>1. pos' = pos
            BY <2>2 DEF ReadBegin, listeners
        <3>2. CASE pos[b] = QueueHead
            BY <1>1, <2>1, <2>2, <3>1, <3>2 DEF ReadBegin, Goto, PlaceTypes, Types, Returns
        <3>3. CASE pos[b] # QueueHead
            <4>1. rd'[b] = [pos |-> pos[b], oldpos |-> pos[b], head |-> QueueHead]
                BY <2>1, <2>2, <3>3 DEF ReadBegin
            <4>. QED  BY <1>1, <2>1, <3>1, <4>1
        <3>. QED  BY <3>2, <3>3
    <2>3. CASE ReadEntry(b) \/ SendError(b)
        <3>1. /\ rd[b].pos < rd[b].head
              /\ rd'[b].pos = rd[b].pos + 1
              /\ rd'[b].oldpos = rd[b].oldpos /\ rd'[b].head = rd[b].head
              /\ pos' = pos /\ pc[b] = "entries"
            BY <2>1, <2>3 DEF ReadEntry, SendError, listeners
        <3>. QED  BY <1>1, <2>1, <3>1
    <2>4. CASE ReadUpdate(b)
        <3>1. rd'[b] = NoRead
            BY <2>1, <2>4 DEF ReadUpdate
        <3>2. pc'[b] \notin {"entries", "update"}
            BY <2>1, <2>4 DEF ReadUpdate, Goto, Types, PlaceTypes, Returns
        <3>. QED  BY <1>1, <3>1, <3>2 DEF NoRead
    <2>5. CASE ReadStops(b)
        BY <1>1, <2>1, <2>5 DEF ReadStops, listeners
    <2>6. CASE ~ (ReadBegin(b) \/ ReadEntry(b) \/ SendError(b) \/ ReadUpdate(b) \/ ReadStops(b))
        <3>1. rd' = rd
            BY <2>6 DEF Moves, Step, StartCommit, CommitError, Exit, AdvanceTail,
               ListenPreCommit, LockQueue, AddEntry, QueueFullError, RecordCommit,
               ReleaseLocks, AtCommitAction, AtCommitEnd, AtAbort, RecordAbort,
               CompletedNotifies, SignalsSent, SendSignal, HandleNotifyInterrupt,
               ProcessIncomingNotify, Restart
        <3>2. pc'[b] \in {"entries", "update"} => pc'[b] = pc[b] /\ pos'[b] = pos[b]
            BY <2>6, EntersRead
        <3>. QED  BY <1>1, <2>1, <3>1, <3>2
    <2>. QED  BY <2>2, <2>3, <2>4, <2>5, <2>6
<1>. QED  BY <1>2, <1>3 DEF ReadInv

LEMMA TypesStep ==
    ASSUME NEW b \in Backends, Types, Moves(b)
    PROVE  Types'
<1>1. QueueTypes'
    <2>1. CASE \/ AddEntry(b) \/ AdvanceTail(b) \/ ReadEntry(b) \/ SendError(b)
               \/ ReadUpdate(b) \/ ListenPreCommit(b) \/ RecordCommit(b)
               \/ Exit(b) \/ Restart(b)
        BY <2>1, QueueTypesStep
    <2>2. CASE ~ (\/ AddEntry(b) \/ AdvanceTail(b) \/ ReadEntry(b) \/ SendError(b)
                  \/ ReadUpdate(b) \/ ListenPreCommit(b) \/ RecordCommit(b)
                  \/ Exit(b) \/ Restart(b))
        <3>1. UNCHANGED <<log, tail, pos, owed, delivered>>
            BY <2>2 DEF Moves, Step, StartCommit, CommitError, ReadBegin, ReadStops,
               LockQueue, QueueFullError, ReleaseLocks, AtCommitAction, AtCommitEnd,
               AtAbort, RecordAbort, CompletedNotifies, SignalsSent, SendSignal,
               HandleNotifyInterrupt, ProcessIncomingNotify, queue, listeners, client
        <3>. QED  BY <3>1 DEF Types, QueueTypes, QueueHead
    <2>. QED  BY <2>1, <2>2
<1>2. ListenTypes'
    <2>1. CASE \/ \E actions \in ActionLists, notifies \in NotifyLists :
                    StartCommit(b, actions, notifies)
               \/ AddEntry(b) \/ RecordCommit(b) \/ AtCommitAction(b)
               \/ AtCommitEnd(b) \/ AtAbort(b) \/ Exit(b)
        BY <2>1, ListenTypesStep
    <2>2. CASE ~ (\/ \E actions \in ActionLists, notifies \in NotifyLists :
                       StartCommit(b, actions, notifies)
                  \/ AddEntry(b) \/ RecordCommit(b) \/ AtCommitAction(b)
                  \/ AtCommitEnd(b) \/ AtAbort(b) \/ Exit(b))
        <3>1. UNCHANGED <<listenChannels, effective, pendingActions, pendingNotifies>>
            BY <2>2 DEF Moves, Step, CommitError, SendError, ReadBegin, ReadEntry,
               ReadStops, ReadUpdate, AdvanceTail, ListenPreCommit, LockQueue,
               QueueFullError, ReleaseLocks, RecordAbort, CompletedNotifies, SignalsSent,
               SendSignal, HandleNotifyInterrupt, ProcessIncomingNotify, Restart,
               pending, client
        <3>. QED  BY <3>1 DEF Types, ListenTypes
    <2>. QED  BY <2>1, <2>2
<1>3. FlagTypes'
    <2>1. CASE \/ ReadBegin(b) \/ SendError(b) \/ ListenPreCommit(b) \/ LockQueue(b)
               \/ AtCommitAction(b) \/ AtCommitEnd(b) \/ AtAbort(b)
               \/ CompletedNotifies(b) \/ SignalsSent(b)
               \/ \E c \in Backends : SendSignal(b, c)
               \/ HandleNotifyInterrupt(b) \/ ProcessIncomingNotify(b)
               \/ Exit(b) \/ Restart(b)
        BY <2>1, FlagTypesStep
    <2>2. CASE \/ \E actions \in ActionLists, notifies \in NotifyLists :
                    StartCommit(b, actions, notifies)
               \/ CommitError(b) \/ ReadEntry(b) \/ ReadStops(b) \/ ReadUpdate(b)
               \/ AdvanceTail(b) \/ AddEntry(b) \/ QueueFullError(b)
               \/ RecordCommit(b) \/ ReleaseLocks(b) \/ RecordAbort(b)
        <3>1. UNCHANGED <<registered, initialListen, hasSent, onExit, signalled,
                          procSignal, occurred, gaveUp, targets>>
            BY <2>2 DEF StartCommit, CommitError, ReadEntry, ReadStops, ReadUpdate,
               AdvanceTail, AddEntry, QueueFullError, RecordCommit, ReleaseLocks,
               RecordAbort, listeners, pending, flags, signals, client
        <3>. QED  BY <3>1 DEF Types, FlagTypes
    <2>. QED  BY <2>1, <2>2 DEF Moves, Step
<1>4. XactTypes'
    <2>1. CASE \/ \E actions \in ActionLists, notifies \in NotifyLists :
                    StartCommit(b, actions, notifies)
               \/ LockQueue(b) \/ RecordCommit(b) \/ ReleaseLocks(b)
               \/ AtCommitEnd(b) \/ RecordAbort(b)
        BY <2>1, XactTypesStep
    <2>2. CASE ~ (\/ \E actions \in ActionLists, notifies \in NotifyLists :
                       StartCommit(b, actions, notifies)
                  \/ LockQueue(b) \/ RecordCommit(b) \/ ReleaseLocks(b)
                  \/ AtCommitEnd(b) \/ RecordAbort(b))
        <3>1. UNCHANGED <<xstate, xid, writer>>
            BY <2>2 DEF Moves, Step, CommitError, SendError, Exit, ReadBegin, ReadEntry,
               ReadStops, ReadUpdate, AdvanceTail, ListenPreCommit, AddEntry,
               QueueFullError, AtCommitAction, AtAbort, CompletedNotifies, SignalsSent,
               SendSignal, HandleNotifyInterrupt, ProcessIncomingNotify, Restart, xact
        <3>. QED  BY <3>1 DEF Types, XactTypes, Xids
    <2>. QED  BY <2>1, <2>2
<1>. QED  BY <1>1, <1>2, <1>3, <1>4, PlaceTypesStep, ReadInvStep DEF Types

LEMMA TypesStutter ==
    ASSUME Types, UNCHANGED vars
    PROVE  Types'
BY DEF Types, QueueTypes, ListenTypes, FlagTypes, XactTypes, PlaceTypes, ReadInv,
   ReadBounds, QueueHead, Xids, vars, queue, listeners, xact, pending, flags, signals, client

LEMMA NextMoves ==
    Next <=> \E b \in Backends : Moves(b)
BY DEF Next, Moves

\* Every variable keeps its type, and every backend is where the code can be.
LEMMA SpecTypes ==
    Spec => []Types
<1>1. Init => Types
    BY InitTypes
<1>2. Types /\ [Next]_vars => Types'
    BY NextMoves, TypesStep, TypesStutter
<1>. QED  BY <1>1, <1>2, PTL DEF Spec

-----------------------------------------------------------------------------
(***************************************************************************)
(* Transactions                                                            *)
(***************************************************************************)

LEMMA InitXact ==
    Init => XactInv
<1>. SUFFICES ASSUME Init PROVE XactInv
    OBVIOUS
<1>1. QueueHead = 0
    BY DEF Init, QueueHead
<1>. QED  BY <1>1 DEF Init, XactInv, XactOf, At, Running, Committing, Reading

\* What a step makes of the transaction of its backend.
LEMMA XactOfStep ==
    ASSUME NEW b \in Backends, Types, Moves(b), XactOf(b)
    PROVE  XactOf(b)'
<1>. USE DEF XactOf, At, Running, Committing, Reading, Goto, Call, Unregister
<1>1. /\ pc \in [Backends -> Labels] /\ ret \in [Backends -> Returns]
      /\ pendingActions \in [Backends -> Seq(Actions)]
      /\ xid \in [Backends -> Xids \cup {NoXid}]
      /\ pc[b] \in Reading => ret[b] \in {"lock", "idle"}
    BY DEF Types, PlaceTypes, ListenTypes, XactTypes
<1>2. /\ \A x \in Xids : xstate'[x] # xstate[x] => RecordCommit(b) \/ RecordAbort(b)
      /\ xid[b] # NoXid => xid[b] \in Xids
    BY <1>1, StateChanges
<1>. USE DEF xact, pending
<1>3. ASSUME NEW actions \in ActionLists, NEW notifies \in NotifyLists,
             StartCommit(b, actions, notifies)
      PROVE  XactOf(b)'
    <2>1. Len(xstate) \in Nat /\ xstate'[Len(xstate) + 1] = "inProgress"
        BY <1>3, StateChanges DEF StartCommit, RecordCommit, RecordAbort
    <2>2. xid'[b] = Len(xstate) + 1 /\ pc'[b] \in {"preflight", "lock"}
        BY <1>1, <1>3 DEF StartCommit
    <2>. QED  BY <2>1, <2>2 DEF NoXid
<1>4. CASE CommitError(b) \/ QueueFullError(b)
    BY <1>1, <1>4 DEF CommitError, QueueFullError
<1>5. CASE SendError(b) \/ ReadEntry(b) \/ ReadStops(b)
    BY <1>1, <1>5 DEF SendError, ReadEntry, ReadStops
<1>6. CASE ReadBegin(b) \/ ReadUpdate(b) \/ AdvanceTail(b)
    BY <1>1, <1>6 DEF ReadBegin, ReadUpdate, AdvanceTail, Returns
<1>7. CASE Exit(b)
    BY <1>1, <1>7 DEF Exit
<1>8. CASE ListenPreCommit(b) \/ LockQueue(b)
    BY <1>1, <1>8 DEF ListenPreCommit, LockQueue
<1>9. CASE AddEntry(b)
    BY <1>1, <1>9 DEF AddEntry
<1>10. CASE RecordCommit(b)
    <2>1. xid[b] # NoXid
        BY <1>10 DEF RecordCommit
    <2>2. xstate'[xid[b]] = "committed"
        <3>1. xid[b] \in DOMAIN xstate
            BY <1>2, <2>1 DEF Types, XactTypes, Xids
        <3>. QED  BY <1>10, <3>1 DEF RecordCommit
    <2>. QED  BY <1>1, <1>10, <2>1, <2>2 DEF RecordCommit
<1>11. CASE ReleaseLocks(b)
    BY <1>1, <1>11 DEF ReleaseLocks
<1>12. CASE AtCommitEnd(b) \/ RecordAbort(b)
    BY <1>1, <1>12 DEF AtCommitEnd, RecordAbort
<1>13. CASE AtCommitAction(b)
    BY <1>1, <1>13 DEF AtCommitAction
<1>14. CASE AtAbort(b)
    BY <1>1, <1>14 DEF AtAbort
<1>15. CASE CompletedNotifies(b) \/ SignalsSent(b) \/ \E c \in Backends : SendSignal(b, c)
    BY <1>1, <1>15 DEF CompletedNotifies, SignalsSent, SendSignal
<1>16. CASE HandleNotifyInterrupt(b) \/ ProcessIncomingNotify(b) \/ Restart(b)
    BY <1>1, <1>16 DEF HandleNotifyInterrupt, ProcessIncomingNotify, Restart
<1>. QED  BY <1>3, <1>4, <1>5, <1>6, <1>7, <1>8, <1>9, <1>10, <1>11, <1>12, <1>13,
             <1>14, <1>15, <1>16 DEF Moves, Step

\* A step leaves the xid of its backend, drops it, or takes a new one.
LEMMA XidChanges ==
    ASSUME NEW b \in Backends, Types, Moves(b)
    PROVE  \/ xid' = xid
           \/ xid'[b] = NoXid
           \/ xid'[b] = Len(xstate) + 1
<1>. xid \in [Backends -> Xids \cup {NoXid}]
    BY DEF Types, XactTypes
<1>1. CASE \E actions \in ActionLists, notifies \in NotifyLists :
              StartCommit(b, actions, notifies)
    BY <1>1 DEF StartCommit
<1>2. CASE AtCommitEnd(b) \/ RecordAbort(b)
    BY <1>2 DEF AtCommitEnd, RecordAbort
<1>3. CASE ~ (\/ AtCommitEnd(b) \/ RecordAbort(b)
              \/ \E actions \in ActionLists, notifies \in NotifyLists :
                    StartCommit(b, actions, notifies))
    BY <1>3 DEF Moves, Step, CommitError, SendError, Exit, ReadBegin, ReadEntry,
       ReadStops, ReadUpdate, AdvanceTail, ListenPreCommit, LockQueue, AddEntry,
       QueueFullError, RecordCommit, ReleaseLocks, AtCommitAction, AtAbort,
       CompletedNotifies, SignalsSent, SendSignal, HandleNotifyInterrupt,
       ProcessIncomingNotify, Restart, xact
<1>. QED  BY <1>1, <1>2, <1>3

LEMMA XactStep ==
    ASSUME NEW b \in Backends, Types, XactInv, Moves(b)
    PROVE  XactInv'
<1>1. /\ Len(xstate) \in Nat /\ Len(xstate) <= Len(xstate')
      /\ \A c \in Backends : xid[c] \in 1..Len(xstate) \cup {0}
    BY StateChanges DEF Types, XactTypes, Xids, NoXid
<1>2. ASSUME NEW c \in Backends, c # b PROVE XactOf(c)'
    <2>1. At(c)' = At(c) /\ xid'[c] = xid[c] /\ pendingActions'[c] = pendingActions[c]
        BY <1>2, OthersStay DEF At
    <2>2. XactOf(c)
        BY DEF XactInv
    <2>3. ASSUME At(c) \in Running \cup Committing PROVE xstate'[xid[c]] = xstate[xid[c]]
        <3>1. xid[c] # NoXid /\ xid[c] # xid[b]
            BY <1>2, <2>2, <2>3 DEF XactInv, XactOf
        <3>2. xid[c] \in Xids
            BY <3>1 DEF Types, XactTypes
        <3>. QED  BY <3>1, <3>2, StateChanges
    <2>. QED  BY <2>1, <2>2, <2>3 DEF XactOf
<1>3. XactOf(b)'
    BY XactOfStep DEF XactInv
<1>4. ASSUME NEW c \in Backends, NEW d \in Backends, xid'[c] = xid'[d], c # d
      PROVE  xid'[c] = NoXid
    <2>1. \A e \in Backends \ {b} : xid'[e] = xid[e]
        BY OthersStay
    <2>2. xid[c] = xid[d] => xid[c] = NoXid
        BY <1>4 DEF XactInv
    <2>. QED  BY <1>1, <1>4, <2>1, <2>2, XidChanges DEF NoXid
<1>5. ASSUME NEW i \in 1..QueueHead' PROVE log'[i].xid \in Xids'
    <2>1. CASE i \in 1..QueueHead
        <3>1. log'[i] = log[i]
            BY <2>1, LogGrows
        <3>2. log[i].xid \in Xids
            BY <2>1 DEF XactInv
        <3>. QED  BY <1>1, <3>1, <3>2 DEF Xids
    <2>2. CASE i \notin 1..QueueHead
        <3>1. AddEntry(b) /\ log'[i].xid = xid[b]
            <4>1. /\ QueueHead \in Nat /\ QueueHead' # QueueHead
                  /\ AddEntry(b) /\ QueueHead' = QueueHead + 1
                  /\ log'[QueueHead + 1] = [xid |-> xid[b],
                         channel |-> Head(pendingNotifies[b]), db |-> Database[b]]
                BY <1>5, <2>2, LogGrows
            <4>2. i = QueueHead + 1
                BY <1>5, <2>2, <4>1
            <4>. QED  BY <4>1, <4>2
        <3>2. xid[b] # NoXid
            BY <3>1 DEF XactInv, XactOf, AddEntry, At, Running, Reading
        <3>. QED  BY <1>1, <3>1, <3>2 DEF Xids, NoXid
    <2>. QED  BY <2>1, <2>2
<1>. QED  BY <1>2, <1>3, <1>4, <1>5 DEF XactInv

LEMMA XactStutter ==
    ASSUME XactInv, UNCHANGED vars
    PROVE  XactInv'
BY DEF XactInv, XactOf, At, QueueHead, Xids, vars, queue, xact, pending

LEMMA SpecXact ==
    Spec => []XactInv
<1>1. Init => XactInv
    BY InitXact
<1>2. Types /\ XactInv /\ [Next]_vars => XactInv'
    BY NextMoves, XactStep, XactStutter
<1>. QED  BY <1>1, <1>2, SpecTypes, PTL DEF Spec

-----------------------------------------------------------------------------
(***************************************************************************)
(* Entries in progress are those of the writer                             *)
(***************************************************************************)

LEMMA InitWriter ==
    Init => WriterInv
<1>. SUFFICES ASSUME Init PROVE WriterInv
    OBVIOUS
<1>1. QueueHead = 0 /\ \A b \in Backends : writer # b /\ pc[b] = "idle"
    BY AsyncQueueAssumption DEF Init, QueueHead
<1>. QED  BY <1>1 DEF WriterInv, WriterOf, WriterEntries

LEMMA WriterChanges ==
    ASSUME NEW b \in Backends, Types, Moves(b)
    PROVE  \/ writer' = writer
           \/ LockQueue(b) /\ writer = NoBackend /\ writer' = b
           \/ /\ ReleaseLocks(b) \/ RecordAbort(b)
              /\ writer' = IF writer = b THEN NoBackend ELSE writer
<1>1. CASE LockQueue(b)
    BY <1>1 DEF LockQueue, MayWrite
<1>2. CASE ReleaseLocks(b) \/ RecordAbort(b)
    BY <1>2 DEF ReleaseLocks, RecordAbort, WriterWithout
<1>3. CASE ~ (LockQueue(b) \/ ReleaseLocks(b) \/ RecordAbort(b))
    BY <1>3 DEF Moves, Step, StartCommit, CommitError, SendError, Exit, ReadBegin,
       ReadEntry, ReadStops, ReadUpdate, AdvanceTail, ListenPreCommit, AddEntry,
       QueueFullError, RecordCommit, AtCommitAction, AtCommitEnd, AtAbort,
       CompletedNotifies, SignalsSent, SendSignal, HandleNotifyInterrupt,
       ProcessIncomingNotify, Restart, xact
<1>. QED  BY <1>1, <1>2, <1>3

LEMMA WriterOfStep ==
    ASSUME NEW b \in Backends, Types, Moves(b), WriterOf(b)
    PROVE  WriterOf(b)'
<1>. USE DEF WriterOf, At, Reading, Goto, Call, Unregister
<1>1. /\ pc \in [Backends -> Labels] /\ ret \in [Backends -> Returns]
      /\ hasSent \in [Backends -> BOOLEAN]
      /\ pc[b] \in Reading => ret[b] \in {"lock", "idle"}
      /\ b # NoBackend
    BY AsyncQueueAssumption DEF Types, PlaceTypes, FlagTypes
<1>. USE DEF xact, flags
<1>2. CASE \E actions \in ActionLists, notifies \in NotifyLists :
               StartCommit(b, actions, notifies)
    BY <1>1, <1>2 DEF StartCommit
<1>3. CASE CommitError(b) \/ QueueFullError(b)
    BY <1>1, <1>3 DEF CommitError, QueueFullError
<1>4. CASE SendError(b) \/ ReadEntry(b) \/ ReadStops(b)
    BY <1>1, <1>4 DEF SendError, ReadEntry, ReadStops
<1>5. CASE ReadBegin(b) \/ ReadUpdate(b) \/ AdvanceTail(b)
    BY <1>1, <1>5 DEF ReadBegin, ReadUpdate, AdvanceTail, Returns
<1>6. CASE Exit(b)
    BY <1>1, <1>6 DEF Exit
<1>7. CASE ListenPreCommit(b)
    BY <1>1, <1>7 DEF ListenPreCommit
<1>8. CASE LockQueue(b)
    BY <1>1, <1>8 DEF LockQueue
<1>9. CASE AddEntry(b)
    BY <1>1, <1>9 DEF AddEntry
<1>10. CASE RecordCommit(b)
    BY <1>1, <1>10 DEF RecordCommit
<1>11. CASE ReleaseLocks(b) \/ RecordAbort(b)
    BY <1>1, <1>11 DEF ReleaseLocks, RecordAbort, WriterWithout
<1>12. CASE AtCommitAction(b) \/ AtCommitEnd(b)
    BY <1>1, <1>12 DEF AtCommitAction, AtCommitEnd
<1>13. CASE AtAbort(b)
    BY <1>1, <1>13 DEF AtAbort
<1>14. CASE CompletedNotifies(b) \/ SignalsSent(b) \/ \E c \in Backends : SendSignal(b, c)
    BY <1>1, <1>14 DEF CompletedNotifies, SignalsSent, SendSignal
<1>15. CASE HandleNotifyInterrupt(b) \/ ProcessIncomingNotify(b) \/ Restart(b)
    BY <1>1, <1>15 DEF HandleNotifyInterrupt, ProcessIncomingNotify, Restart
<1>. QED  BY <1>2, <1>3, <1>4, <1>5, <1>6, <1>7, <1>8, <1>9, <1>10, <1>11, <1>12,
             <1>13, <1>14, <1>15 DEF Moves, Step

\* An entry in progress after a step was in progress before, or is added.
LEMMA InProgressBefore ==
    ASSUME NEW b \in Backends, Types, XactInv, Moves(b), NEW i \in 1..QueueHead',
           InProgress(i)'
    PROVE  \/ /\ i \in 1..QueueHead /\ log'[i] = log[i] /\ InProgress(i)
              /\ ~(log[i].xid = xid[b] /\ (RecordCommit(b) \/ RecordAbort(b)))
           \/ /\ i = QueueHead + 1 /\ AddEntry(b)
              /\ log'[i].xid = xid[b] /\ log'[i].db = Database[b]
<1>1. CASE i \in 1..QueueHead
    <2>1. log'[i] = log[i]
        BY <1>1, LogGrows
    <2>2. log[i].xid \in Xids
        BY <1>1 DEF XactInv
    <2>3. CASE log[i].xid = xid[b] /\ (RecordCommit(b) \/ RecordAbort(b))
        <3>1. xid[b] \in DOMAIN xstate
            BY <2>2, <2>3 DEF Types, XactTypes, Xids
        <3>2. xstate'[xid[b]] \in {"committed", "aborted"}
            BY <2>3, <3>1 DEF RecordCommit, RecordAbort
        <3>. QED  BY <2>1, <2>3, <3>2 DEF InProgress
    <2>4. CASE ~ (log[i].xid = xid[b] /\ (RecordCommit(b) \/ RecordAbort(b)))
        <3>1. xstate'[log[i].xid] = xstate[log[i].xid]
            BY <2>2, <2>4, StateChanges
        <3>. QED  BY <1>1, <2>1, <2>4, <3>1 DEF InProgress
    <2>. QED  BY <2>3, <2>4
<1>2. CASE i \notin 1..QueueHead
    <2>1. /\ QueueHead \in Nat /\ QueueHead' # QueueHead
          /\ AddEntry(b) /\ QueueHead' = QueueHead + 1
          /\ log'[QueueHead + 1] = [xid |-> xid[b],
                 channel |-> Head(pendingNotifies[b]), db |-> Database[b]]
        BY <1>2, LogGrows
    <2>2. i = QueueHead + 1
        BY <1>2, <2>1
    <2>. QED  BY <2>1, <2>2
<1>. QED  BY <1>1, <1>2

LEMMA WriterEntriesStep ==
    ASSUME NEW b \in Backends, Types, XactInv, WriterInv, Moves(b)
    PROVE  WriterEntries'
<1>0. QueueHead \in Nat /\ b # NoBackend
    BY LogGrows, AsyncQueueAssumption
<1>1. ASSUME NEW i \in 1..QueueHead', InProgress(i)'
      PROVE  writer' \in Backends /\ log'[i].xid = xid'[writer']
    <2>1. CASE /\ i \in 1..QueueHead /\ log'[i] = log[i] /\ InProgress(i)
               /\ ~(log[i].xid = xid[b] /\ (RecordCommit(b) \/ RecordAbort(b)))
        <3>1. writer \in Backends /\ log[i].xid = xid[writer]
            BY <2>1 DEF WriterInv, WriterEntries
        <3>2. writer' = writer
            <4>1. CASE LockQueue(b) /\ writer = NoBackend
                BY <3>1, <4>1, AsyncQueueAssumption
            <4>2. CASE ReleaseLocks(b)
                <5>1. xstate[xid[b]] = "committed"
                    BY <4>2 DEF ReleaseLocks, XactInv, XactOf, At, Committing, Reading
                <5>2. writer # b
                    BY <2>1, <3>1, <5>1 DEF InProgress
                <5>. QED  BY <4>2, <5>2 DEF ReleaseLocks, WriterWithout
            <4>3. CASE RecordAbort(b)
                <5>1. writer # b
                    BY <2>1, <3>1, <4>3
                <5>. QED  BY <4>3, <5>1 DEF RecordAbort, WriterWithout
            <4>. QED  BY <4>1, <4>2, <4>3, WriterChanges
        <3>3. xid'[writer] = xid[writer]
            <4>1. CASE writer # b
                BY <3>1, <4>1, OthersStay
            <4>2. CASE writer = b
                <5>1. At(b) \in {"add", "commit", "release", "abort", "recordAbort"}
                    BY <3>1, <4>2 DEF WriterInv, WriterOf
                <5>2. ~RecordAbort(b)
                    BY <2>1, <3>1, <4>2
                <5>3. xid' = xid
                    BY <5>1, <5>2 DEF Moves, Step, At, Reading, StartCommit, CommitError,
                       SendError, Exit, ReadBegin, ReadEntry, ReadStops, ReadUpdate,
                       AdvanceTail, ListenPreCommit, LockQueue, AddEntry, QueueFullError,
                       RecordCommit, ReleaseLocks, AtCommitAction, AtCommitEnd, AtAbort,
                       CompletedNotifies, SignalsSent, SendSignal, HandleNotifyInterrupt,
                       ProcessIncomingNotify, Restart, xact
                <5>. QED  BY <5>3
            <4>. QED  BY <4>1, <4>2
        <3>. QED  BY <2>1, <3>1, <3>2, <3>3
    <2>2. CASE /\ i = QueueHead + 1 /\ AddEntry(b)
               /\ log'[i].xid = xid[b]
        <3>1. writer = b
            BY <2>2 DEF AddEntry, WriterInv, WriterOf
        <3>2. writer' = writer /\ xid' = xid
            BY <2>2 DEF AddEntry, xact
        <3>. QED  BY <2>2, <3>1, <3>2
    <2>. QED  BY <1>1, <2>1, <2>2, InProgressBefore
<1>2. ASSUME NEW i \in 1..QueueHead', NEW j \in 1..QueueHead', i < j, InProgress(i)'
      PROVE  log'[j].xid = log'[i].xid
    <2>1. QueueHead' \in {QueueHead, QueueHead + 1}
        BY LogGrows
    <2>2. i \in 1..QueueHead /\ log'[i] = log[i] /\ InProgress(i)
        BY <1>0, <1>2, <2>1, InProgressBefore
    <2>3. CASE j \in 1..QueueHead
        <3>1. log'[j] = log[j]
            BY <2>3, LogGrows
        <3>. QED  BY <1>2, <2>2, <2>3, <3>1 DEF WriterInv, WriterEntries
    <2>4. CASE j \notin 1..QueueHead
        <3>1. /\ QueueHead' # QueueHead /\ AddEntry(b)
              /\ log'[QueueHead + 1] = [xid |-> xid[b],
                     channel |-> Head(pendingNotifies[b]), db |-> Database[b]]
            BY <1>2, <2>4, LogGrows
        <3>2. j = QueueHead + 1
            BY <1>0, <1>2, <2>1, <2>4
        <3>3. writer = b
            BY <3>1 DEF AddEntry, WriterInv, WriterOf
        <3>4. log[i].xid = xid[b]
            BY <2>2, <3>3 DEF WriterInv, WriterEntries
        <3>. QED  BY <2>2, <3>1, <3>2, <3>4
    <2>. QED  BY <2>3, <2>4
<1>. QED  BY <1>1, <1>2 DEF WriterEntries

LEMMA WriterStep ==
    ASSUME NEW b \in Backends, Types, XactInv, WriterInv, Moves(b)
    PROVE  WriterInv'
<1>1. ASSUME NEW c \in Backends, c # b PROVE WriterOf(c)'
    <2>1. /\ pc'[c] = pc[c] /\ At(c)' = At(c) /\ hasSent'[c] = hasSent[c]
        BY <1>1, OthersStay DEF At
    <2>2. WriterOf(c)
        BY DEF WriterInv
    <2>3. writer' = c <=> writer = c
        BY <1>1, WriterChanges, AsyncQueueAssumption
    <2>. QED  BY <2>1, <2>2, <2>3 DEF WriterOf
<1>2. WriterOf(b)'
    BY WriterOfStep DEF WriterInv
<1>. QED  BY <1>1, <1>2, WriterEntriesStep DEF WriterInv

LEMMA WriterStutter ==
    ASSUME WriterInv, UNCHANGED vars
    PROVE  WriterInv'
BY DEF WriterInv, WriterOf, WriterEntries, InProgress, At, QueueHead, vars, queue, xact,
   flags

LEMMA SpecWriter ==
    Spec => []WriterInv
<1>1. Init => WriterInv
    BY InitWriter
<1>2. Types /\ XactInv /\ WriterInv /\ [Next]_vars => WriterInv'
    BY NextMoves, WriterStep, WriterStutter
<1>. QED  BY <1>1, <1>2, SpecTypes, SpecXact, PTL DEF Spec

LEMMA WriterGivesOrder ==
    WriterInv => CommitOrder
<1>. SUFFICES ASSUME WriterInv, NEW i \in 1..QueueHead, NEW j \in 1..QueueHead,
                     i < j, xstate[log[j].xid] = "committed"
              PROVE  xstate[log[i].xid] # "inProgress"
    BY DEF CommitOrder
<1>1. InProgress(i) => log[j].xid = log[i].xid
    BY DEF WriterInv, WriterEntries
<1>. QED  BY <1>1 DEF InProgress

\* No uncommitted notification is before a committed one in the queue: those
\* who write to it take turns, from the first entry to the end of the
\* transaction (async.c:827).
THEOREM UncommittedAtTheEnd ==
    Spec => []CommitOrder
BY SpecWriter, WriterGivesOrder, PTL

-----------------------------------------------------------------------------
(***************************************************************************)
(* Delivery in order                                                       *)
(***************************************************************************)

LEMMA InitDelivery ==
    Init => DeliveryInv
BY DEF Init, DeliveryInv, DeliveryOf, InitialRead, Reading

\* What is committed stays so, and so do the entries sent.
LEMMA CommittedStays ==
    ASSUME NEW b \in Backends, Types, XactInv, Moves(b), NEW i \in 1..QueueHead,
           xstate[log[i].xid] = "committed"
    PROVE  log'[i] = log[i] /\ xstate'[log[i].xid] = "committed"
<1>1. log[i].xid \in Xids /\ log'[i] = log[i]
    BY LogGrows DEF XactInv
<1>2. ASSUME RecordCommit(b) \/ RecordAbort(b)
      PROVE  xstate[xid[b]] = "inProgress"
    BY <1>2 DEF RecordCommit, RecordAbort, XactInv, XactOf, At, Running, Reading
<1>3. xstate'[log[i].xid] = xstate[log[i].xid]
    BY <1>1, <1>2, StateChanges
<1>. QED  BY <1>1, <1>3

\* Reading stops at the first entry in progress, so that everything committed
\* that was in the queue then lies before it.
LEMMA StopsAfterCommitted ==
    ASSUME NEW b \in Backends, Types, WriterInv, ReadStops(b),
           NEW i \in 1..QueueHead, i <= rd[b].head, xstate[log[i].xid] = "committed"
    PROVE  i <= rd[b].pos
<1>. DEFINE k == rd[b].pos + 1
<1>1. /\ rd[b].pos \in Nat /\ rd[b].head \in Nat /\ QueueHead \in Nat
      /\ rd[b].pos <= rd[b].head /\ rd[b].head <= QueueHead
    BY DEF Types, PlaceTypes, ReadInv, ReadBounds, QueueTypes, QueueHead
<1>2. SUFFICES ASSUME rd[b].pos < i PROVE FALSE
    BY <1>1
<1>3. k \in 1..QueueHead /\ rd[b].pos < rd[b].head
    BY <1>1, <1>2
<1>4. InProgress(k)
    BY <1>3 DEF ReadStops, Passable, InProgress
<1>5. i # k
    BY <1>4 DEF InProgress
<1>6. k < i
    BY <1>1, <1>2, <1>5
<1>. HIDE DEF k
<1>7. log[i].xid = log[k].xid
    BY <1>3, <1>4, <1>6 DEF WriterInv, WriterEntries
<1>. QED  BY <1>4, <1>7 DEF InProgress

\* These are the ways to a read of the queue.
LEMMA NotToRead ==
    ASSUME NEW b \in Backends, Types, Moves(b), ~ListenPreCommit(b),
           ~HandleNotifyInterrupt(b), ~SignalsSent(b), ~ProcessIncomingNotify(b)
    PROVE  pc'[b] # "read"
<1>. USE DEF Goto, Call, Unregister
<1>. pc \in [Backends -> Labels] /\ ret[b] \in Returns
    BY DEF Types, PlaceTypes
<1>. USE DEF Returns
<1>1. CASE \E actions \in ActionLists, notifies \in NotifyLists :
             StartCommit(b, actions, notifies)
    BY <1>1 DEF StartCommit
<1>2. CASE CommitError(b) \/ QueueFullError(b) \/ AdvanceTail(b) \/ ReadUpdate(b)
    BY <1>2 DEF CommitError, QueueFullError, AdvanceTail, ReadUpdate
<1>3. CASE ReadBegin(b) \/ ReadEntry(b) \/ ReadStops(b) \/ SendError(b)
    BY <1>3 DEF ReadBegin, ReadEntry, ReadStops, SendError
<1>4. CASE Exit(b) \/ AtCommitAction(b) \/ AtAbort(b)
    BY <1>4 DEF Exit, AtCommitAction, AtAbort
<1>5. CASE LockQueue(b) \/ AddEntry(b)
    BY <1>5 DEF LockQueue, AddEntry
<1>6. CASE RecordCommit(b) \/ ReleaseLocks(b) \/ AtCommitEnd(b) \/ RecordAbort(b)
    BY <1>6 DEF RecordCommit, ReleaseLocks, AtCommitEnd, RecordAbort
<1>7. CASE CompletedNotifies(b) \/ Restart(b)
    BY <1>7 DEF CompletedNotifies, Restart
<1>8. CASE \E c \in Backends : SendSignal(b, c)
    BY <1>8 DEF SendSignal
<1>. QED  BY <1>1, <1>2, <1>3, <1>4, <1>5, <1>6, <1>7, <1>8 DEF Moves, Step

LEMMA SentBeforeStep ==
    ASSUME NEW b \in Backends, Types, WriterInv, Moves(b), NEW i \in 1..QueueHead,
           InitialRead(b) => listenChannels[b] = {},
           SentBefore(b, i), xstate[log[i].xid] = "committed"
    PROVE  SentBefore(b, i)'
<1>. USE DEF SentBefore, Goto, Call, Reading
<1>1. /\ pc \in [Backends -> Labels] /\ ret \in [Backends -> Returns]
      /\ rd \in [Backends -> [pos : Nat, oldpos : Nat, head : Nat]]
      /\ pos \in [Backends -> 0..QueueHead] /\ QueueHead \in Nat
      /\ ReadBounds(b)
    BY DEF Types, PlaceTypes, QueueTypes, ReadInv, QueueHead
<1>2. CASE ReadBegin(b)
    <2>1. pos' = pos /\ ret' = ret
        BY <1>2 DEF ReadBegin, listeners
    <2>2. CASE pos[b] = QueueHead
        BY <1>1, <1>2, <2>1, <2>2 DEF ReadBegin, Returns
    <2>3. CASE pos[b] # QueueHead
        <3>1. /\ rd'[b] = [pos |-> pos[b], oldpos |-> pos[b], head |-> QueueHead]
              /\ pc'[b] = "entries" /\ pc[b] = "read"
            BY <1>1, <1>2, <2>3 DEF ReadBegin
        <3>. QED  BY <1>1, <2>1, <3>1
    <2>. QED  BY <2>2, <2>3
<1>3. CASE ReadEntry(b)
    <2>1. /\ rd'[b].pos = rd[b].pos + 1 /\ rd'[b].head = rd[b].head
          /\ pc' = pc /\ ret' = ret /\ pc[b] = "entries"
        BY <1>1, <1>3 DEF ReadEntry
    <2>. QED  BY <1>1, <2>1
<1>4. CASE SendError(b)
    <2>1. /\ rd'[b].pos = rd[b].pos + 1
          /\ pc[b] = "entries" /\ pc'[b] = "update"
        BY <1>1, <1>4 DEF SendError
    <2>2. ret[b] # "lock"
        BY <1>4, <2>1 DEF SendError, ToDeliver, InitialRead
    <2>. QED  BY <1>1, <2>1, <2>2
<1>5. CASE ReadStops(b)
    <2>1. /\ rd' = rd /\ pc[b] = "entries" /\ pc'[b] = "update"
        BY <1>1, <1>5 DEF ReadStops
    <2>2. i <= rd[b].head => i <= rd[b].pos
        BY <1>5, StopsAfterCommitted
    <2>. QED  BY <1>1, <2>1, <2>2
<1>6. CASE ReadUpdate(b)
    BY <1>1, <1>6 DEF ReadUpdate, PositionAfterRead, Returns
<1>7. CASE ListenPreCommit(b)
    BY <1>1, <1>7 DEF ListenPreCommit, listeners
<1>8. CASE HandleNotifyInterrupt(b)
    BY <1>8 DEF HandleNotifyInterrupt, listeners
<1>9. CASE ~ (\/ ReadBegin(b) \/ ReadEntry(b) \/ SendError(b) \/ ReadStops(b)
              \/ ReadUpdate(b) \/ ListenPreCommit(b) \/ HandleNotifyInterrupt(b))
    <2>1. pc[b] \notin Reading /\ pos' = pos
        BY <1>9 DEF Moves, Step, StartCommit, CommitError, Exit, AdvanceTail,
           LockQueue, AddEntry, QueueFullError, RecordCommit, ReleaseLocks,
           AtCommitAction, AtCommitEnd, AtAbort, RecordAbort, CompletedNotifies,
           SignalsSent, SendSignal, ProcessIncomingNotify, Restart, listeners
    <2>2. pc'[b] \notin {"entries", "update"}
        BY <1>9, EntersRead
    <2>. QED  BY <2>1, <2>2
<1>. QED  BY <1>2, <1>3, <1>4, <1>5, <1>6, <1>7, <1>8, <1>9

\* The first read of a new listener is over before it listens on a channel.
LEMMA InitialReadStep ==
    ASSUME NEW b \in Backends, Types, Moves(b),
           InitialRead(b) => listenChannels[b] = {}, InitialRead(b)'
    PROVE  listenChannels'[b] = {}
<1>. USE DEF InitialRead, Goto, Call, Reading
<1>1. /\ pc \in [Backends -> Labels] /\ ret \in [Backends -> Returns]
    BY DEF Types, PlaceTypes
<1>2. CASE pc'[b] \in {"entries", "update"}
    <2>1. CASE ReadBegin(b) \/ ReadEntry(b) \/ SendError(b) \/ ReadStops(b)
        <3>1. listenChannels' = listenChannels /\ pc[b] \in Reading /\ ret' = ret
            BY <2>1 DEF ReadBegin, ReadEntry, SendError, ReadStops
        <3>. QED  BY <3>1
    <2>2. CASE ~ (ReadBegin(b) \/ ReadEntry(b) \/ SendError(b) \/ ReadStops(b))
        <3>1. pc' = pc /\ ret' = ret /\ listenChannels' = listenChannels
            BY <1>2, <2>2, EntersRead
        <3>. QED  BY <3>1
    <2>. QED  BY <2>1, <2>2
<1>3. CASE pc'[b] = "read"
    <2>1. CASE ListenPreCommit(b)
        BY <1>1, <1>3, <2>1 DEF ListenPreCommit
    <2>2. CASE HandleNotifyInterrupt(b)
        BY <2>2 DEF HandleNotifyInterrupt
    <2>3. CASE SignalsSent(b) \/ ProcessIncomingNotify(b)
        BY <1>1, <1>3, <2>3 DEF SignalsSent, ProcessIncomingNotify
    <2>4. CASE ~ (\/ ListenPreCommit(b) \/ HandleNotifyInterrupt(b)
                  \/ SignalsSent(b) \/ ProcessIncomingNotify(b))
        BY <1>1, <1>3, <2>4, NotToRead
    <2>. QED  BY <2>1, <2>2, <2>3, <2>4
<1>. QED  BY <1>2, <1>3

\* What is sent is the entry behind everything sent before.
LEMMA ReadEntrySends ==
    ASSUME NEW b \in Backends, NEW e, e = rd[b].pos + 1,
           Types, DeliveryOf(b), ReadEntry(b)
    PROVE  /\ SentBefore(b, e)' /\ e \in 1..QueueHead
           /\ \/ delivered'[b] = delivered[b]
              \/ /\ delivered'[b] = Append(delivered[b], e)
                 /\ xstate[log[e].xid] = "committed"
                 /\ \A k \in 1..Len(delivered[b]) : delivered[b][k] < e
<1>1. /\ rd \in [Backends -> [pos : Nat, oldpos : Nat, head : Nat]]
      /\ QueueHead \in Nat /\ ReadBounds(b) /\ pc[b] = "entries"
      /\ delivered \in [Backends -> Seq(1..QueueHead)]
    BY DEF Types, PlaceTypes, QueueTypes, ReadInv, QueueHead, ReadEntry
<1>2. rd[b].pos < rd[b].head /\ rd'[b].pos = rd[b].pos + 1 /\ rd'[b].head = rd[b].head
    BY <1>1 DEF ReadEntry
<1>3. pc' = pc /\ ret' = ret
    BY DEF ReadEntry
<1>4. SentBefore(b, e)'
    BY <1>1, <1>2, <1>3 DEF SentBefore, Reading, ReadBounds
<1>5. e \in 1..QueueHead
    BY <1>1, <1>2 DEF ReadBounds
<1>6. CASE ToDeliver(b, log[e])
    <2>1. delivered'[b] = Append(delivered[b], e)
        BY <1>1, <1>6 DEF ReadEntry
    <2>2. xstate[log[e].xid] = "committed"
        BY <1>6 DEF ToDeliver
    <2>3. ret[b] # "lock"
        BY <1>1, <1>6 DEF ToDeliver, DeliveryOf, InitialRead, Reading
    <2>4. ASSUME NEW k \in 1..Len(delivered[b]) PROVE delivered[b][k] < e
        <3>1. SentBefore(b, delivered[b][k]) /\ delivered[b][k] \in Nat
            BY <1>1 DEF DeliveryOf
        <3>. QED  BY <1>1, <2>3, <3>1 DEF SentBefore
    <2>. QED  BY <1>4, <1>5, <2>1, <2>2, <2>4
<1>7. CASE ~ToDeliver(b, log[e])
    <2>1. delivered'[b] = delivered[b]
        BY <1>1, <1>7 DEF ReadEntry
    <2>. QED  BY <1>4, <1>5, <2>1
<1>. QED  BY <1>6, <1>7

LEMMA DeliveryOfStep ==
    ASSUME NEW b \in Backends, Types, XactInv, WriterInv, DeliveryOf(b), Moves(b)
    PROVE  DeliveryOf(b)'
<1>1. InitialRead(b)' => listenChannels'[b] = {}
    BY InitialReadStep DEF DeliveryOf
<1>2. delivered[b] \in Seq(1..QueueHead) /\ Len(delivered[b]) \in Nat /\ QueueHead \in Nat
    BY DEF Types, QueueTypes, QueueHead
<1>3. ASSUME NEW k \in 1..Len(delivered[b]), NEW i, i = delivered[b][k]
      PROVE  SentBefore(b, i)' /\ xstate'[log'[i].xid] = "committed"
    <2>1. i \in 1..QueueHead /\ SentBefore(b, i) /\ xstate[log[i].xid] = "committed"
        BY <1>2, <1>3 DEF DeliveryOf
    <2>2. SentBefore(b, i)'
        BY <2>1, SentBeforeStep DEF DeliveryOf
    <2>3. log'[i] = log[i] /\ xstate'[log[i].xid] = "committed"
        BY <2>1, CommittedStays
    <2>. QED  BY <2>2, <2>3
<1>4. CASE delivered'[b] = delivered[b]
    BY <1>1, <1>3, <1>4 DEF DeliveryOf, SentBefore
<1>5. CASE delivered'[b] = <<>>
    BY <1>1, <1>5 DEF DeliveryOf
<1>6. ASSUME NEW e, e = rd[b].pos + 1, ReadEntry(b),
             delivered'[b] = Append(delivered[b], e),
             xstate[log[e].xid] = "committed",
             \A k \in 1..Len(delivered[b]) : delivered[b][k] < e
      PROVE  DeliveryOf(b)'
    <2>. DEFINE n == Len(delivered[b])
    <2>1. SentBefore(b, e)' /\ e \in 1..QueueHead
        BY <1>6, ReadEntrySends
    <2>2. xstate'[log'[e].xid] = "committed"
        BY <1>6, <2>1, CommittedStays
    <2>3. /\ Len(delivered'[b]) = n + 1
          /\ \A k \in 1..n : delivered'[b][k] = delivered[b][k]
          /\ delivered'[b][n + 1] = e
        BY <1>2, <1>6, <2>1, AppendProperties
    <2>4. n \in Nat /\ n = Len(delivered[b])
        BY <1>2
    <2>. HIDE DEF n
    <2>5. ASSUME NEW k \in 1..n + 1, NEW i, i = delivered'[b][k]
          PROVE  SentBefore(b, i)' /\ xstate'[log'[i].xid] = "committed"
        <3>1. CASE k \in 1..n
            <4>1. k \in 1..Len(delivered[b]) /\ i = delivered[b][k]
                BY <2>3, <2>4, <2>5, <3>1
            <4>. QED  BY <1>3, <4>1
        <3>2. CASE k = n + 1
            BY <2>1, <2>2, <2>3, <2>5, <3>2
        <3>. QED  BY <2>4, <3>1, <3>2
    <2>6. ASSUME NEW k \in 1..n + 1, NEW m \in 1..n + 1, k < m
          PROVE  delivered'[b][k] < delivered'[b][m]
        <3>1. k \in 1..n
            BY <2>4, <2>6
        <3>2. CASE m \in 1..n
            BY <2>3, <2>4, <2>6, <3>1, <3>2 DEF DeliveryOf
        <3>3. CASE m = n + 1
            BY <1>6, <2>3, <2>4, <3>1, <3>3
        <3>. QED  BY <2>4, <3>2, <3>3
    <2>. QED  BY <1>1, <2>3, <2>5, <2>6 DEF DeliveryOf, SentBefore
<1>7. \/ delivered'[b] = delivered[b] \/ delivered'[b] = <<>> \/ ReadEntry(b)
    <2>. delivered \in [Backends -> Seq(1..QueueHead)]
        BY DEF Types, QueueTypes
    <2>1. CASE Restart(b)
        BY <2>1 DEF Restart
    <2>2. CASE ~ (Restart(b) \/ ReadEntry(b))
        BY <2>2 DEF Moves, Step, StartCommit, CommitError, SendError, Exit, ReadBegin,
           ReadStops, ReadUpdate, AdvanceTail, ListenPreCommit, LockQueue, AddEntry,
           QueueFullError, RecordCommit, ReleaseLocks, AtCommitAction, AtCommitEnd,
           AtAbort, RecordAbort, CompletedNotifies, SignalsSent, SendSignal,
           HandleNotifyInterrupt, ProcessIncomingNotify, client
    <2>. QED  BY <2>1, <2>2
<1>. QED  BY <1>4, <1>5, <1>6, <1>7, ReadEntrySends

LEMMA DeliveryStep ==
    ASSUME NEW b \in Backends, Types, XactInv, WriterInv, DeliveryInv, Moves(b)
    PROVE  DeliveryInv'
<1>1. ASSUME NEW c \in Backends, c # b PROVE DeliveryOf(c)'
    <2>1. /\ pc'[c] = pc[c] /\ ret'[c] = ret[c] /\ rd'[c] = rd[c] /\ pos'[c] = pos[c]
          /\ listenChannels'[c] = listenChannels[c] /\ delivered'[c] = delivered[c]
        BY <1>1, OthersStay
    <2>2. DeliveryOf(c)
        BY DEF DeliveryInv
    <2>3. ASSUME NEW k \in 1..Len(delivered[c])
          PROVE  xstate'[log'[delivered[c][k]].xid] = "committed"
        <3>1. /\ delivered[c][k] \in 1..QueueHead
              /\ xstate[log[delivered[c][k]].xid] = "committed"
            <4>1. delivered[c] \in Seq(1..QueueHead)
                BY DEF Types, QueueTypes
            <4>2. delivered[c][k] \in 1..QueueHead
                BY <4>1, ElementOfSeq
            <4>. QED  BY <2>2, <4>2 DEF DeliveryOf
        <3>2. PICK i \in 1..QueueHead : i = delivered[c][k]
            BY <3>1
        <3>. QED  BY <3>1, <3>2, CommittedStays
    <2>. QED  BY <2>1, <2>2, <2>3 DEF DeliveryOf, SentBefore, InitialRead
<1>2. DeliveryOf(b)'
    BY DeliveryOfStep DEF DeliveryInv
<1>. QED  BY <1>1, <1>2 DEF DeliveryInv

LEMMA DeliveryStutter ==
    ASSUME DeliveryInv, UNCHANGED vars
    PROVE  DeliveryInv'
BY DEF DeliveryInv, DeliveryOf, SentBefore, InitialRead, vars, queue, listeners, xact, client

LEMMA SpecDelivery ==
    Spec => []DeliveryInv
<1>1. Init => DeliveryInv
    BY InitDelivery
<1>2. Types /\ XactInv /\ WriterInv /\ DeliveryInv /\ [Next]_vars => DeliveryInv'
    BY NextMoves, DeliveryStep, DeliveryStutter
<1>. QED  BY <1>1, <1>2, SpecTypes, SpecXact, SpecWriter, PTL DEF Spec

\* A client gets notifications in the order of the queue, and none twice: also
\* when its backend unlistens and listens again, from the tail, the first read
\* takes it past whatever it has sent before it sends anything.
THEOREM NothingDeliveredTwice ==
    Spec => []DeliveredOnceInOrder
<1>1. Types /\ DeliveryInv => DeliveredOnceInOrder
    <2>. SUFFICES ASSUME Types, DeliveryInv, NEW b \in Backends,
                         NEW i \in 1..Len(delivered[b]) - 1
                  PROVE  delivered[b][i] < delivered[b][i + 1]
        BY DEF DeliveredOnceInOrder
    <2>1. Len(delivered[b]) \in Nat
        BY DEF Types, QueueTypes
    <2>2. i \in 1..Len(delivered[b]) /\ i + 1 \in 1..Len(delivered[b]) /\ i < i + 1
        BY <2>1
    <2>. QED  BY <2>2 DEF DeliveryInv, DeliveryOf
<1>. QED  BY <1>1, SpecTypes, SpecDelivery, PTL

-----------------------------------------------------------------------------
(***************************************************************************)
(* Positions and the tail                                                  *)
(***************************************************************************)

LEMMA TailChanges ==
    ASSUME NEW b \in Backends, Types, PositionInv, Moves(b)
    PROVE  /\ tail \in Nat /\ tail' \in Nat /\ tail <= tail'
           /\ \/ tail' = tail
              \/ AdvanceTail(b) /\ tail' = SlowestPosition
<1>1. tail \in 0..QueueHead /\ QueueHead \in Nat /\ pos \in [Backends -> 0..QueueHead]
    BY DEF Types, QueueTypes, QueueHead
<1>2. CASE AdvanceTail(b)
    <2>1. tail' = SlowestPosition
        BY <1>2 DEF AdvanceTail
    <2>2. /\ SlowestPosition \in 0..QueueHead
          /\ \/ SlowestPosition = QueueHead
             \/ \E c \in Backends : registered[c] /\ SlowestPosition = pos[c]
        BY SlowestIs DEF Types
    <2>3. tail <= SlowestPosition
        BY <1>1, <2>2 DEF PositionInv
    <2>. QED  BY <1>1, <1>2, <2>1, <2>2, <2>3
<1>3. CASE ~AdvanceTail(b)
    <2>1. tail' = tail
        BY <1>3 DEF Moves, Step, StartCommit, CommitError, SendError, Exit, ReadBegin,
           ReadEntry, ReadStops, ReadUpdate, ListenPreCommit, LockQueue, AddEntry,
           QueueFullError, RecordCommit, ReleaseLocks, AtCommitAction, AtCommitEnd,
           AtAbort, RecordAbort, CompletedNotifies, SignalsSent, SendSignal,
           HandleNotifyInterrupt, ProcessIncomingNotify, Restart, queue
    <2>. QED  BY <1>1, <2>1
<1>. QED  BY <1>2, <1>3

\* A step leaves the place of its backend in the array, or enters it there at
\* the tail, moves it on after a read, or takes it out.
LEMMA PlaceChanges ==
    ASSUME NEW b \in Backends, Types, Moves(b)
    PROVE  \/ pos' = pos /\ registered' = registered
           \/ ListenPreCommit(b) /\ registered'[b] /\ pos'[b] = tail /\ pos[b] \in Nat
           \/ /\ ReadUpdate(b) /\ registered' = registered
              /\ pos'[b] = rd[b].pos /\ pos[b] <= pos'[b]
           \/ /\ AtCommitAction(b) \/ AtAbort(b) \/ Exit(b)
              /\ pos' = pos /\ registered'[b] = FALSE
              /\ IF AdvanceOnLeaving(b) THEN pc'[b] = "advance" ELSE pc[b] # "advance"
<1>1. /\ pos \in [Backends -> 0..QueueHead] /\ registered \in [Backends -> BOOLEAN]
      /\ pc \in [Backends -> Labels] /\ QueueHead \in Nat
      /\ rd \in [Backends -> [pos : Nat, oldpos : Nat, head : Nat]]
    BY DEF Types, QueueTypes, FlagTypes, PlaceTypes, QueueHead
<1>2. CASE ListenPreCommit(b)
    BY <1>1, <1>2 DEF ListenPreCommit, ListenFrom, listeners
<1>3. CASE ReadUpdate(b)
    <2>1. rd[b].oldpos = pos[b] /\ rd[b].oldpos <= rd[b].pos
        BY <1>3 DEF ReadUpdate, Types, ReadInv, ReadBounds
    <2>. QED  BY <1>1, <1>3, <2>1 DEF ReadUpdate, PositionAfterRead
<1>4. CASE AtCommitAction(b)
    BY <1>1, <1>4 DEF AtCommitAction, Unregister, Call, Goto
<1>5. CASE AtAbort(b)
    BY <1>1, <1>5 DEF AtAbort, Unregister, Call, Goto
<1>6. CASE Exit(b)
    BY <1>1, <1>6 DEF Exit, Unregister, Call, Goto
<1>7. CASE ~ (\/ ListenPreCommit(b) \/ ReadUpdate(b) \/ AtCommitAction(b)
              \/ AtAbort(b) \/ Exit(b))
    BY <1>7 DEF Moves, Step, StartCommit, CommitError, SendError, ReadBegin, ReadEntry,
       ReadStops, AdvanceTail, LockQueue, AddEntry, QueueFullError, RecordCommit,
       ReleaseLocks, AtCommitEnd, RecordAbort, CompletedNotifies, SignalsSent,
       SendSignal, HandleNotifyInterrupt, ProcessIncomingNotify, Restart, listeners
<1>. QED  BY <1>2, <1>3, <1>4, <1>5, <1>6, <1>7

LEMMA PositionStep ==
    ASSUME NEW b \in Backends, Types, PositionInv, Moves(b)
    PROVE  PositionInv'
<1>1. /\ tail \in Nat /\ QueueHead \in Nat /\ pos \in [Backends -> 0..QueueHead]
    BY DEF Types, QueueTypes, QueueHead
<1>2. ASSUME NEW c \in Backends, registered'[c] PROVE tail' <= pos'[c]
    <2>1. CASE AdvanceTail(b)
        <3>1. registered' = registered /\ pos' = pos /\ tail' = SlowestPosition
            BY <2>1 DEF AdvanceTail, listeners
        <3>. QED  BY <1>2, <3>1, SlowestIs DEF Types
    <2>2. CASE ~AdvanceTail(b)
        <3>1. tail' = tail
            BY <2>2, TailChanges
        <3>2. CASE c # b
            <4>1. registered'[c] = registered[c] /\ pos'[c] = pos[c]
                BY <3>2, OthersStay
            <4>. QED  BY <1>2, <3>1, <4>1 DEF PositionInv
        <3>3. CASE c = b
            <4>1. registered[b] => tail <= pos[b]
                BY DEF PositionInv
            <4>2. CASE pos' = pos /\ registered' = registered
                BY <1>2, <3>1, <3>3, <4>1, <4>2
            <4>3. CASE pos'[b] = tail
                BY <1>1, <3>1, <3>3, <4>3
            <4>4. CASE /\ ReadUpdate(b) /\ registered' = registered
                       /\ pos'[b] = rd[b].pos /\ pos[b] <= pos'[b]
                <5>1. rd[b].pos \in Nat /\ pos[b] \in Nat
                    BY <1>1 DEF Types, PlaceTypes
                <5>. QED  BY <1>1, <1>2, <3>1, <3>3, <4>1, <4>4, <5>1
            <4>. QED  BY <1>2, <3>3, <4>2, <4>3, <4>4, PlaceChanges
        <3>. QED  BY <3>2, <3>3
    <2>. QED  BY <2>1, <2>2
<1>. QED  BY <1>2 DEF PositionInv

\* A registered backend is not behind the tail.
LEMMA SpecPosition ==
    Spec => []PositionInv
<1>1. Init => PositionInv
    BY DEF Init, PositionInv
<1>2. Types /\ PositionInv /\ [Next]_vars => PositionInv'
    <2>1. PositionInv /\ UNCHANGED vars => PositionInv'
        BY DEF PositionInv, vars, queue, listeners
    <2>. QED  BY <2>1, NextMoves, PositionStep
<1>. QED  BY <1>1, <1>2, SpecTypes, PTL DEF Spec

-----------------------------------------------------------------------------
(***************************************************************************)
(* Lists of actions                                                        *)
(***************************************************************************)

LEMMA ActionsTail ==
    ASSUME NEW acts \in Seq(Actions), acts # <<>>
    PROVE  /\ Head(acts) = acts[1] /\ Head(acts) \in Actions
           /\ 1 \in DOMAIN acts /\ Tail(acts) \in Seq(Actions)
           /\ \A i \in DOMAIN Tail(acts) :
                 i + 1 \in DOMAIN acts /\ 1 < i + 1 /\ Tail(acts)[i] = acts[i + 1]
           /\ \A i \in DOMAIN acts : i # 1 =>
                 i - 1 \in DOMAIN Tail(acts) /\ Tail(acts)[i - 1] = acts[i]
<1>1. /\ Len(acts) \in Nat \ {0} /\ DOMAIN acts = 1..Len(acts) /\ Head(acts) = acts[1]
      /\ Head(acts) \in Actions
    OBVIOUS
<1>2. /\ Tail(acts) \in Seq(Actions) /\ Len(Tail(acts)) = Len(acts) - 1
      /\ DOMAIN Tail(acts) = 1..Len(acts) - 1
      /\ \A i \in 1..Len(acts) - 1 : Tail(acts)[i] = acts[i + 1]
    BY <1>1
<1>. QED  BY <1>1, <1>2

LEMMA ActionKinds ==
    ASSUME NEW a \in Actions
    PROVE  /\ a.kind \in {"LISTEN", "UNLISTEN", "UNLISTEN_ALL"}
           /\ a.kind = "LISTEN" => a.channel \in Channels
<1>1. Kinds \subseteq {"LISTEN", "UNLISTEN", "UNLISTEN_ALL"}
    BY AsyncQueueAssumption
<1>. QED  BY <1>1 DEF Actions

\* One action adds or drops what it says.
LEMMA AfterActionIs ==
    ASSUME NEW a \in Actions, NEW ch \in SUBSET Channels
    PROVE  /\ \A c \in Channels : c \in AfterAction(ch, a) <=>
                 \/ a.kind = "LISTEN" /\ a.channel = c
                 \/ c \in ch /\ ~Drops(a, c)
           /\ AfterAction(ch, a) \in SUBSET Channels
           /\ a.kind = "LISTEN" => AfterAction(ch, a) # {}
           /\ a.kind # "LISTEN" => AfterAction(ch, a) \subseteq ch
<1>1. CASE a.kind = "LISTEN"
    <2>1. AfterAction(ch, a) = ch \cup {a.channel}
        BY <1>1 DEF AfterAction
    <2>. QED  BY <1>1, <2>1, ActionKinds DEF Drops
<1>2. CASE a.kind = "UNLISTEN"
    <2>1. AfterAction(ch, a) = ch \ {a.channel}
        BY <1>2 DEF AfterAction
    <2>. QED  BY <1>2, <2>1 DEF Drops
<1>3. CASE a.kind = "UNLISTEN_ALL"
    <2>1. AfterAction(ch, a) = {}
        BY <1>3 DEF AfterAction
    <2>. QED  BY <1>3, <2>1 DEF Drops
<1>. QED  BY <1>1, <1>2, <1>3, ActionKinds

LEMMA AfterNoActions ==
    ASSUME NEW ch \in SUBSET Channels
    PROVE  AfterActions(ch, <<>>) = ch
BY DEF AfterActions

\* Doing the first action first comes to the same.
LEMMA AfterFirstAction ==
    ASSUME NEW acts \in Seq(Actions), acts # <<>>, NEW ch \in SUBSET Channels
    PROVE  AfterActions(AfterAction(ch, Head(acts)), Tail(acts)) = AfterActions(ch, acts)
<1>. DEFINE a == Head(acts)
            rest == Tail(acts)
            first == AfterAction(ch, a)
<1>1. /\ a = acts[1] /\ a \in Actions /\ 1 \in DOMAIN acts
      /\ \A i \in DOMAIN rest : i + 1 \in DOMAIN acts /\ 1 < i + 1 /\ rest[i] = acts[i + 1]
      /\ \A i \in DOMAIN acts : i # 1 => i - 1 \in DOMAIN rest /\ rest[i - 1] = acts[i]
      /\ DOMAIN acts \subseteq Nat \ {0} /\ DOMAIN rest \subseteq Nat \ {0}
    <2>1. /\ DOMAIN acts = 1..Len(acts) /\ rest \in Seq(Actions)
        BY ActionsTail
    <2>2. DOMAIN rest = 1..Len(rest)
        BY <2>1
    <2>. QED  BY <2>1, <2>2, ActionsTail
<1>. HIDE DEF a, rest
<1>2. ASSUME NEW c \in Channels
      PROVE  c \in AfterActions(first, rest) <=> c \in AfterActions(ch, acts)
    <2>. DEFINE Later(i) == \A j \in DOMAIN acts : j > i => ~Drops(acts[j], c)
                LaterRest(i) == \A j \in DOMAIN rest : j > i => ~Drops(rest[j], c)
    <2>1. /\ first \in SUBSET Channels
          /\ c \in first <=> (a.kind = "LISTEN" /\ a.channel = c) \/ (c \in ch /\ ~Drops(a, c))
        BY <1>1, AfterActionIs
    <2>. HIDE DEF first
    <2>2. (\A j \in DOMAIN rest : ~Drops(rest[j], c)) <=> Later(1)
        <3>1. ASSUME \A j \in DOMAIN rest : ~Drops(rest[j], c), NEW j \in DOMAIN acts, j > 1
              PROVE  ~Drops(acts[j], c)
            <4>1. j - 1 \in DOMAIN rest /\ rest[j - 1] = acts[j]
                BY <1>1, <3>1
            <4>. QED  BY <3>1, <4>1
        <3>2. ASSUME Later(1), NEW j \in DOMAIN rest
              PROVE  ~Drops(rest[j], c)
            BY <1>1, <3>2
        <3>. QED  BY <3>1, <3>2
    <2>3. ASSUME NEW i \in DOMAIN rest PROVE LaterRest(i) <=> Later(i + 1)
        <3>1. ASSUME LaterRest(i), NEW j \in DOMAIN acts, j > i + 1 PROVE ~Drops(acts[j], c)
            <4>1. j - 1 \in DOMAIN rest /\ rest[j - 1] = acts[j] /\ j - 1 > i
                BY <1>1, <3>1
            <4>. QED  BY <3>1, <4>1
        <3>2. ASSUME Later(i + 1), NEW j \in DOMAIN rest, j > i PROVE ~Drops(rest[j], c)
            <4>1. j + 1 \in DOMAIN acts /\ rest[j] = acts[j + 1] /\ j + 1 > i + 1
                BY <1>1, <3>2
            <4>. QED  BY <3>2, <4>1
        <3>. QED  BY <3>1, <3>2
    <2>. HIDE DEF Later, LaterRest
    <2>4. c \in AfterActions(first, rest) <=>
             \/ c \in first /\ Later(1)
             \/ \E i \in DOMAIN rest :
                   rest[i].kind = "LISTEN" /\ rest[i].channel = c /\ Later(i + 1)
        BY <2>1, <2>2, <2>3 DEF AfterActions, LaterRest
    <2>5. c \in AfterActions(ch, acts) <=>
             \/ c \in ch /\ ~Drops(a, c) /\ Later(1)
             \/ \E i \in DOMAIN acts :
                   acts[i].kind = "LISTEN" /\ acts[i].channel = c /\ Later(i)
        <3>1. (\A j \in DOMAIN acts : ~Drops(acts[j], c)) <=> ~Drops(a, c) /\ Later(1)
            BY <1>1 DEF Later
        <3>. QED  BY <3>1 DEF AfterActions, Later
    <2>6. (\E i \in DOMAIN acts : acts[i].kind = "LISTEN" /\ acts[i].channel = c /\ Later(i))
          <=> \/ a.kind = "LISTEN" /\ a.channel = c /\ Later(1)
              \/ \E i \in DOMAIN rest :
                    rest[i].kind = "LISTEN" /\ rest[i].channel = c /\ Later(i + 1)
        <3>1. ASSUME NEW i \in DOMAIN acts, i # 1, acts[i].kind = "LISTEN",
                     acts[i].channel = c, Later(i)
              PROVE  \E k \in DOMAIN rest :
                        rest[k].kind = "LISTEN" /\ rest[k].channel = c /\ Later(k + 1)
            <4>1. i - 1 \in DOMAIN rest /\ rest[i - 1] = acts[i] /\ (i - 1) + 1 = i
                BY <1>1, <3>1
            <4>. QED  BY <3>1, <4>1
        <3>. QED  BY <1>1, <3>1
    <2>. QED  BY <2>1, <2>4, <2>5, <2>6
<1>3. AfterActions(first, rest) \subseteq Channels /\ AfterActions(ch, acts) \subseteq Channels
    BY DEF AfterActions
<1>4. AfterActions(first, rest) = AfterActions(ch, acts)
    <2>. HIDE DEF first
    <2>. QED  BY <1>2, <1>3
<1>. QED  BY <1>4 DEF a, rest

\* What is listened on after the actions was so before, or one of them is LISTEN.
LEMMA AfterActionsListens ==
    ASSUME NEW acts \in Seq(Actions), NEW ch \in SUBSET Channels, AfterActions(ch, acts) # {}
    PROVE  ch # {} \/ HasListen(acts)
BY DEF AfterActions, HasListen

-----------------------------------------------------------------------------
(***************************************************************************)
(* Listeners are registered                                                *)
(***************************************************************************)

\* A pending LISTEN was there before, or has just begun.
LEMMA WantsListenBefore ==
    ASSUME NEW b \in Backends, Types, Moves(b), WantsListen(b)'
    PROVE  \/ /\ WantsListen(b) /\ ~AtAbort(b)
              /\ pendingActions' = pendingActions \/ AtCommitAction(b)
           \/ pc'[b] = "preflight"
<1>. pendingActions \in [Backends -> Seq(Actions)] /\ pc \in [Backends -> Labels]
    BY DEF Types, ListenTypes, PlaceTypes
<1>1. ASSUME NEW actions \in ActionLists, NEW notifies \in NotifyLists,
             StartCommit(b, actions, notifies)
      PROVE  pc'[b] = "preflight"
    <2>1. pendingActions'[b] = actions
        BY <1>1 DEF StartCommit
    <2>. QED  BY <1>1, <2>1 DEF StartCommit, WantsListen, HasListen, Goto
<1>2. CASE AtCommitAction(b)
    <2>1. /\ pendingActions'[b] = Tail(pendingActions[b])
          /\ pendingActions[b] \in Seq(Actions) /\ pendingActions[b] # <<>>
        BY <1>2 DEF AtCommitAction
    <2>2. WantsListen(b)
        BY <2>1, ActionsTail DEF WantsListen, HasListen
    <2>3. ~AtAbort(b)
        BY <1>2 DEF AtCommitAction, AtAbort
    <2>. QED  BY <1>2, <2>2, <2>3
<1>3. CASE AtAbort(b)
    <2>1. pendingActions'[b] = <<>>
        BY <1>3 DEF AtAbort
    <2>. QED  BY <2>1 DEF WantsListen, HasListen
<1>4. CASE ~ (\/ AtCommitAction(b) \/ AtAbort(b)
              \/ \E actions \in ActionLists, notifies \in NotifyLists :
                    StartCommit(b, actions, notifies))
    <2>1. pendingActions' = pendingActions
        BY <1>4 DEF Moves, Step, CommitError, SendError, Exit, ReadBegin, ReadEntry,
           ReadStops, ReadUpdate, AdvanceTail, ListenPreCommit, LockQueue, AddEntry,
           QueueFullError, RecordCommit, ReleaseLocks, AtCommitEnd, RecordAbort,
           CompletedNotifies, SignalsSent, SendSignal, HandleNotifyInterrupt,
           ProcessIncomingNotify, Restart, pending
    <2>. QED  BY <1>4, <2>1 DEF WantsListen
<1>. QED  BY <1>1, <1>2, <1>3, <1>4

\* If the first action is not LISTEN then none is.
LEMMA ListensFirstEnds ==
    ASSUME NEW b \in Backends, Types, ListensFirst, pendingActions[b] # <<>>,
           Head(pendingActions[b]).kind # "LISTEN"
    PROVE  ~WantsListen(b)
<1>1. pendingActions[b] \in Seq(Actions)
    BY DEF Types, ListenTypes
<1>2. /\ Head(pendingActions[b]) = pendingActions[b][1] /\ 1 \in DOMAIN pendingActions[b]
      /\ DOMAIN pendingActions[b] \subseteq Nat \ {0}
    BY <1>1, ActionsTail
<1>. QED  BY <1>2 DEF ListensFirst, WantsListen, HasListen

\* The way out of preflight and of the main loop.
LEMMA StaysInPreflight ==
    ASSUME NEW b \in Backends, Types, Moves(b), pc[b] = "preflight", ~ListenPreCommit(b)
    PROVE  pc'[b] = "preflight"
<1>. pc \in [Backends -> Labels]
    BY DEF Types, PlaceTypes
<1>1. HandleNotifyInterrupt(b)
    BY DEF Moves, Step, StartCommit, CommitError, SendError, Exit, ReadBegin,
       ReadEntry, ReadStops, ReadUpdate, AdvanceTail, LockQueue, AddEntry,
       QueueFullError, RecordCommit, ReleaseLocks, AtCommitAction, AtCommitEnd, AtAbort,
       RecordAbort, CompletedNotifies, SignalsSent, SendSignal, ProcessIncomingNotify,
       Restart
<1>. QED  BY <1>1 DEF HandleNotifyInterrupt

LEMMA ExitOnly ==
    ASSUME NEW b \in Backends, Types, Moves(b), ~Exit(b), At(b)' = "exit"
    PROVE  At(b) = "exit"
<1>. USE DEF At, Reading, Goto, Call, Unregister
<1>1. /\ pc \in [Backends -> Labels] /\ ret \in [Backends -> Returns]
      /\ pc[b] \in Reading => ret[b] \in {"lock", "idle"}
    BY DEF Types, PlaceTypes
<1>2. CASE \E actions \in ActionLists, notifies \in NotifyLists :
               StartCommit(b, actions, notifies)
    BY <1>1, <1>2 DEF StartCommit
<1>3. CASE CommitError(b) \/ QueueFullError(b) \/ SendError(b)
    BY <1>1, <1>3 DEF CommitError, QueueFullError, SendError
<1>4. CASE ReadBegin(b) \/ ReadEntry(b) \/ ReadStops(b) \/ ReadUpdate(b)
    BY <1>1, <1>4 DEF ReadBegin, ReadEntry, ReadStops, ReadUpdate
<1>5. CASE AdvanceTail(b)
    BY <1>1, <1>5 DEF AdvanceTail
<1>6. CASE ListenPreCommit(b) \/ LockQueue(b) \/ AddEntry(b)
    BY <1>1, <1>6 DEF ListenPreCommit, LockQueue, AddEntry
<1>7. CASE RecordCommit(b) \/ ReleaseLocks(b) \/ AtCommitEnd(b) \/ RecordAbort(b)
    BY <1>1, <1>7 DEF RecordCommit, ReleaseLocks, AtCommitEnd, RecordAbort
<1>8. CASE AtCommitAction(b) \/ AtAbort(b)
    BY <1>1, <1>8 DEF AtCommitAction, AtAbort
<1>9. CASE CompletedNotifies(b) \/ SignalsSent(b) \/ \E c \in Backends : SendSignal(b, c)
    BY <1>1, <1>9 DEF CompletedNotifies, SignalsSent, SendSignal
<1>10. CASE HandleNotifyInterrupt(b) \/ ProcessIncomingNotify(b) \/ Restart(b)
    BY <1>1, <1>10 DEF HandleNotifyInterrupt, ProcessIncomingNotify, Restart
<1>. QED  BY <1>2, <1>3, <1>4, <1>5, <1>6, <1>7, <1>8, <1>9, <1>10 DEF Moves, Step

\* The steps that touch the array, the channels or the exit handler.
LEMMA RegisteredOfChange ==
    ASSUME NEW b \in Backends, Types, XactInv, RegisteredOf(b), ListensFirst,
           \/ ListenPreCommit(b) \/ AtCommitAction(b) \/ AtAbort(b)
           \/ Exit(b) \/ Restart(b)
    PROVE  RegisteredOf(b)'
<1>. USE DEF RegisteredOf, At, Reading, Goto, Call, Unregister
<1>1. /\ pc \in [Backends -> Labels] /\ ret \in [Backends -> Returns]
      /\ registered \in [Backends -> BOOLEAN] /\ onExit \in [Backends -> BOOLEAN]
      /\ listenChannels \in [Backends -> SUBSET Channels]
      /\ pendingActions \in [Backends -> Seq(Actions)]
    BY DEF Types, PlaceTypes, FlagTypes, ListenTypes
<1>2. CASE ListenPreCommit(b)
    <2>1. pendingActions' = pendingActions
        BY <1>2 DEF ListenPreCommit
    <2>2. CASE listenChannels[b] # {}
        BY <1>1, <1>2, <2>2 DEF ListenPreCommit, listeners
    <2>3. CASE listenChannels[b] = {}
        <3>1. registered'[b] /\ onExit'[b] /\ pc'[b] = "read" /\ ret'[b] = "lock"
            BY <1>1, <1>2, <2>3 DEF ListenPreCommit
        <3>. QED  BY <3>1
    <2>. QED  BY <2>2, <2>3
<1>3. CASE AtCommitAction(b)
    <2>. DEFINE a == Head(pendingActions[b])
                channels == AfterAction(listenChannels[b], a)
    <2>1. /\ pc[b] = "atcommit" /\ pendingActions[b] # <<>>
          /\ listenChannels' = [listenChannels EXCEPT ![b] = channels]
          /\ IF a.kind # "LISTEN" /\ channels = {}
             THEN Unregister(b, "atcommit") ELSE UNCHANGED <<registered, pc, ret>>
          /\ onExit' = onExit
        BY <1>3 DEF AtCommitAction, flags
    <2>2. /\ a \in Actions /\ listenChannels'[b] = channels
          /\ a.kind = "LISTEN" => WantsListen(b)
          /\ a.kind # "LISTEN" => ~WantsListen(b) /\ channels \subseteq listenChannels[b]
        <3>1. a \in Actions /\ a = pendingActions[b][1] /\ 1 \in DOMAIN pendingActions[b]
            BY <1>1, <2>1, ActionsTail
        <3>2. a.kind # "LISTEN" => channels \subseteq listenChannels[b]
            BY <1>1, <3>1, AfterActionIs
        <3>3. a.kind # "LISTEN" => ~WantsListen(b)
            BY <2>1, ListensFirstEnds
        <3>4. a.kind = "LISTEN" => WantsListen(b)
            BY <3>1 DEF WantsListen, HasListen
        <3>. QED  BY <1>1, <2>1, <3>1, <3>2, <3>3, <3>4
    <2>. HIDE DEF a, channels
    <2>3. WantsListen(b)' => WantsListen(b)
        <3>1. pc'[b] # "preflight"
            BY <1>1, <2>1
        <3>. QED  BY <1>3, <3>1, WantsListenBefore DEF Moves, Step
    <2>4. CASE a.kind = "LISTEN"
        BY <1>1, <2>1, <2>2, <2>4
    <2>5. CASE a.kind # "LISTEN" /\ channels # {}
        BY <1>1, <2>1, <2>2, <2>3, <2>5
    <2>6. CASE a.kind # "LISTEN" /\ channels = {}
        <3>1. /\ registered'[b] = FALSE
              /\ \/ pc'[b] = "advance" /\ ret'[b] = "atcommit"
                 \/ pc'[b] = "atcommit"
            BY <1>1, <2>1, <2>6
        <3>. QED  BY <2>2, <2>3, <2>6, <3>1
    <2>. QED  BY <2>4, <2>5, <2>6
<1>4. CASE AtAbort(b)
    <2>1. ~WantsListen(b)'
        BY <1>1, <1>4 DEF AtAbort, WantsListen, HasListen
    <2>. QED  BY <1>1, <1>4, <2>1 DEF AtAbort, flags
<1>5. CASE Exit(b)
    <2>1. pendingActions[b] = <<>> /\ pendingActions' = pendingActions /\ pc[b] = "idle"
        BY <1>5 DEF Exit, pending, XactInv, XactOf, Running, Committing
    <2>2. ~WantsListen(b)'
        BY <2>1 DEF WantsListen, HasListen
    <2>3. CASE onExit[b]
        <3>1. /\ listenChannels'[b] = {} /\ registered'[b] = FALSE
              /\ pc'[b] \notin Reading
            BY <1>1, <1>5, <2>3 DEF Exit
        <3>. QED  BY <2>2, <3>1
    <2>4. CASE ~onExit[b]
        BY <1>1, <1>5, <2>2, <2>4 DEF Exit, flags
    <2>. QED  BY <2>3, <2>4
<1>6. CASE Restart(b)
    <2>1. pendingActions[b] = <<>> /\ pendingActions' = pendingActions
        BY <1>6 DEF Restart, pending, XactInv, XactOf, Running, Committing
    <2>2. ~WantsListen(b)'
        BY <2>1 DEF WantsListen, HasListen
    <2>. QED  BY <1>1, <1>6, <2>2 DEF Restart, listeners
<1>. QED  BY <1>2, <1>3, <1>4, <1>5, <1>6

LEMMA RegisteredOfStep ==
    ASSUME NEW b \in Backends, Types, XactInv, RegisteredOf(b), ListensFirst, Moves(b)
    PROVE  RegisteredOf(b)'
<1>1. CASE \/ ListenPreCommit(b) \/ AtCommitAction(b) \/ AtAbort(b)
           \/ Exit(b) \/ Restart(b)
    BY <1>1, RegisteredOfChange
<1>2. CASE ~ (\/ ListenPreCommit(b) \/ AtCommitAction(b) \/ AtAbort(b)
              \/ Exit(b) \/ Restart(b))
    <2>1. UNCHANGED <<registered, onExit, listenChannels>>
        BY <1>2 DEF Moves, Step, StartCommit, CommitError, SendError, ReadBegin,
           ReadEntry, ReadStops, ReadUpdate, AdvanceTail, LockQueue, AddEntry,
           QueueFullError, RecordCommit, ReleaseLocks, AtCommitEnd, RecordAbort,
           CompletedNotifies, SignalsSent, SendSignal, HandleNotifyInterrupt,
           ProcessIncomingNotify, listeners, flags
    <2>2. WantsListen(b)' /\ pc'[b] # "preflight" => registered[b]
        <3>1. ASSUME pc[b] = "preflight", pc'[b] # "preflight" PROVE FALSE
            BY <1>2, <3>1, StaysInPreflight
        <3>. QED  BY <3>1, WantsListenBefore DEF RegisteredOf
    <2>3. pc'[b] \in Reading => registered[b]
        <3>1. CASE pc[b] \in Reading
            BY <3>1 DEF RegisteredOf
        <3>2. CASE pc[b] \notin Reading
            <4>1. ASSUME pc'[b] = "read" PROVE listenChannels[b] # {}
                <5>. pc \in [Backends -> Labels]
                    BY DEF Types, PlaceTypes
                <5>1. SignalsSent(b) \/ ProcessIncomingNotify(b)
                    BY <1>2, <3>2, <4>1, NotToRead DEF HandleNotifyInterrupt, Reading
                <5>. QED  BY <4>1, <5>1 DEF SignalsSent, ProcessIncomingNotify, Call, Goto
            <4>2. pc'[b] \notin {"entries", "update"}
                BY <3>2, EntersRead DEF ReadBegin, ReadEntry, SendError, ReadStops, Reading
            <4>. QED  BY <4>1, <4>2 DEF RegisteredOf, Reading
        <3>. QED  BY <3>1, <3>2
    <2>4. At(b)' = "exit" => At(b) = "exit"
        BY <1>2, ExitOnly
    <2>. QED  BY <2>1, <2>2, <2>3, <2>4 DEF RegisteredOf
<1>. QED  BY <1>1, <1>2

LEMMA RegisteredStep ==
    ASSUME NEW b \in Backends, Types, XactInv, RegisteredInv, ListensFirst, Moves(b)
    PROVE  RegisteredInv'
<1>1. ASSUME NEW c \in Backends, c # b PROVE RegisteredOf(c)'
    <2>1. /\ pc'[c] = pc[c] /\ At(c)' = At(c) /\ registered'[c] = registered[c]
          /\ listenChannels'[c] = listenChannels[c] /\ onExit'[c] = onExit[c]
          /\ WantsListen(c)' = WantsListen(c)
        BY <1>1, OthersStay DEF At, WantsListen
    <2>. QED  BY <2>1 DEF RegisteredInv, RegisteredOf
<1>2. RegisteredOf(b)'
    BY RegisteredOfStep DEF RegisteredInv
<1>. QED  BY <1>1, <1>2 DEF RegisteredInv

LEMMA InitRegistered ==
    Init => RegisteredInv
BY DEF Init, RegisteredInv, RegisteredOf, WantsListen, HasListen, At, Reading

LEMMA RegisteredStutter ==
    ASSUME RegisteredInv, UNCHANGED vars
    PROVE  RegisteredInv'
BY DEF RegisteredInv, RegisteredOf, WantsListen, At, vars, listeners, flags, pending

LEMMA SpecRegistered ==
    Spec /\ []ListensFirst => []RegisteredInv
<1>1. Init => RegisteredInv
    BY InitRegistered
<1>2. Types /\ XactInv /\ ListensFirst /\ RegisteredInv /\ [Next]_vars => RegisteredInv'
    BY NextMoves, RegisteredStep, RegisteredStutter
<1>. QED  BY <1>1, <1>2, SpecTypes, SpecXact, PTL DEF Spec

\* Every backend that listens on a channel is in the array (async.c:42), unless
\* a transaction listens after an UNLISTEN.
THEOREM ListeningIsRegistered ==
    Spec /\ []ListensFirst => []ListenersRegistered
<1>1. RegisteredInv => ListenersRegistered
    BY DEF RegisteredInv, RegisteredOf, ListenersRegistered
<1>. QED  BY <1>1, SpecRegistered, PTL

\* Nothing a listener has still to read, also while it reads without a lock, is
\* behind the tail, and none of it that is committed has to be waited for.
THEOREM QueueIsReadable ==
    Spec /\ []ListensFirst => []QueueReadable
<1>1. Types /\ WriterInv /\ PositionInv /\ RegisteredInv => QueueReadable
    <2>. SUFFICES ASSUME Types, WriterInv, PositionInv, RegisteredInv
                  PROVE  QueueReadable
        OBVIOUS
    <2>1. ASSUME NEW b \in Backends, pc[b] = "entries"
          PROVE  registered[b] /\ tail <= rd[b].pos
        <3>1. registered[b] /\ tail <= pos[b]
            BY <2>1 DEF RegisteredInv, RegisteredOf, Reading, PositionInv
        <3>2. /\ pos[b] <= rd[b].pos /\ pos[b] \in Nat /\ rd[b].pos \in Nat /\ tail \in Nat
            <4>1. Len(log) \in Nat
                BY DEF Types, QueueTypes
            <4>. QED  BY <2>1, <4>1 DEF Types, ReadInv, ReadBounds, QueueTypes, PlaceTypes,
                         QueueHead
        <3>. QED  BY <3>1, <3>2
    <2>2. TailBehindReaders
        BY <2>1 DEF TailBehindReaders, PositionInv
    <2>. QED  BY <2>2, TypesAreTypeOK, WriterGivesOrder DEF QueueReadable
<1>. QED  BY <1>1, SpecTypes, SpecWriter, SpecPosition, SpecRegistered, PTL

\* With one command for each transaction the condition always holds.
THEOREM OneActionListensFirst ==
    ASSUME MaxActions <= 1
    PROVE  Spec => []ListensFirst
<1>. DEFINE Short == \A b \in Backends : Len(pendingActions[b]) <= 1
<1>1. Init => Short
    BY DEF Init
<1>2. ASSUME Types, Short, [Next]_vars PROVE Short'
    <2>1. CASE UNCHANGED vars
        BY <1>2, <2>1 DEF vars, pending
    <2>2. ASSUME NEW b \in Backends, Moves(b) PROVE Short'
        <3>. pendingActions \in [Backends -> Seq(Actions)]
            BY <1>2 DEF Types, ListenTypes
        <3>1. Len(pendingActions'[b]) <= 1
            <4>1. ASSUME NEW actions \in ActionLists, NEW notifies \in NotifyLists,
                         StartCommit(b, actions, notifies)
                  PROVE  Len(pendingActions'[b]) <= 1
                <5>1. MaxActions \in Nat /\ pendingActions'[b] = actions
                    BY <4>1, AsyncQueueAssumption DEF StartCommit
                <5>2. PICK m \in 0..MaxActions : actions \in [1..m -> Actions]
                    BY DEF ActionLists, BoundedSeq, SeqOf
                <5>3. Len(actions) = m
                    BY <5>1, <5>2
                <5>. QED  BY <5>1, <5>3
            <4>2. CASE AtCommitAction(b)
                <5>1. /\ pendingActions[b] # <<>> /\ pendingActions[b] \in Seq(Actions)
                      /\ pendingActions'[b] = Tail(pendingActions[b])
                    BY <4>2 DEF AtCommitAction
                <5>. QED  BY <1>2, <5>1
            <4>3. CASE AtAbort(b)
                <5>1. pendingActions'[b] = <<>>
                    BY <4>3 DEF AtAbort
                <5>. QED  BY <5>1
            <4>4. CASE ~ (\/ AtCommitAction(b) \/ AtAbort(b)
                          \/ \E actions \in ActionLists, notifies \in NotifyLists :
                                StartCommit(b, actions, notifies))
                <5>1. pendingActions' = pendingActions
                    BY <2>2, <4>4 DEF Moves, Step, CommitError, SendError, Exit, ReadBegin,
                       ReadEntry, ReadStops, ReadUpdate, AdvanceTail, ListenPreCommit,
                       LockQueue, AddEntry, QueueFullError, RecordCommit, ReleaseLocks,
                       AtCommitEnd, RecordAbort, CompletedNotifies, SignalsSent, SendSignal,
                       HandleNotifyInterrupt, ProcessIncomingNotify, Restart, pending
                <5>. QED  BY <1>2, <5>1
            <4>. QED  BY <4>1, <4>2, <4>3, <4>4
        <3>2. ASSUME NEW c \in Backends, c # b PROVE Len(pendingActions'[c]) <= 1
            <4>1. pendingActions'[c] = pendingActions[c]
                BY <1>2, <2>2, <3>2, OthersStay
            <4>. QED  BY <1>2, <4>1
        <3>. QED  BY <3>1, <3>2
    <2>. QED  BY <1>2, <2>1, <2>2, NextMoves
<1>3. Types /\ Short => ListensFirst
    <2>. SUFFICES ASSUME Types, Short, NEW b \in Backends,
                         NEW i \in DOMAIN pendingActions[b],
                         NEW j \in DOMAIN pendingActions[b], i < j
                  PROVE  FALSE
        BY DEF ListensFirst
    <2>1. pendingActions[b] \in Seq(Actions) /\ Len(pendingActions[b]) <= 1
        BY DEF Types, ListenTypes
    <2>. QED  BY <2>1
<1>. HIDE DEF Short
<1>4. Spec => []Short
    <2>1. Types /\ Short /\ [Next]_vars => Short'
        BY <1>2
    <2>. QED  BY <1>1, <2>1, SpecTypes, PTL DEF Spec
<1>. QED  BY <1>3, <1>4, SpecTypes, PTL

-----------------------------------------------------------------------------
(***************************************************************************)
(* What is in progress is ahead of the listeners                           *)
(***************************************************************************)

\* How the position of a read moves.
LEMMA ReadMoves ==
    ASSUME NEW b \in Backends, Types, Moves(b), pc'[b] \in {"entries", "update"}
    PROVE  /\ pos' = pos
           /\ \/ ReadBegin(b) /\ rd'[b].pos = pos[b]
              \/ pc[b] \in {"entries", "update"} /\ rd'[b].pos = rd[b].pos
              \/ /\ ReadEntry(b) \/ SendError(b)
                 /\ pc[b] = "entries" /\ rd'[b].pos = rd[b].pos + 1
                 /\ rd[b].pos + 1 \in 1..QueueHead
                 /\ Passable(b, log[rd[b].pos + 1])
<1>. USE DEF Goto
<1>1. /\ pc \in [Backends -> Labels] /\ ret[b] \in Returns /\ QueueHead \in Nat
      /\ rd \in [Backends -> [pos : Nat, oldpos : Nat, head : Nat]] /\ ReadBounds(b)
    BY DEF Types, PlaceTypes, QueueTypes, ReadInv, QueueHead
<1>2. CASE ReadBegin(b)
    <2>1. pos[b] # QueueHead
        BY <1>1, <1>2 DEF ReadBegin, Returns
    <2>2. rd'[b].pos = pos[b]
        BY <1>1, <1>2, <2>1 DEF ReadBegin
    <2>. QED  BY <1>2, <2>2 DEF ReadBegin, listeners
<1>3. CASE ReadEntry(b) \/ SendError(b)
    <2>1. /\ pc[b] = "entries" /\ rd'[b].pos = rd[b].pos + 1 /\ rd[b].pos < rd[b].head
          /\ pos' = pos
        BY <1>1, <1>3 DEF ReadEntry, SendError, listeners
    <2>2. rd[b].pos + 1 \in 1..QueueHead
        BY <1>1, <2>1 DEF ReadBounds
    <2>3. Passable(b, log[rd[b].pos + 1])
        BY <1>3 DEF ReadEntry, SendError, ToDeliver, Passable
    <2>. QED  BY <1>3, <2>1, <2>2, <2>3
<1>4. CASE ReadStops(b)
    BY <1>1, <1>4 DEF ReadStops, listeners
<1>5. CASE ~ (ReadBegin(b) \/ ReadEntry(b) \/ SendError(b) \/ ReadStops(b))
    <2>1. pc' = pc /\ pos' = pos /\ rd' = rd
        BY <1>5, EntersRead
    <2>. QED  BY <2>1
<1>. QED  BY <1>2, <1>3, <1>4, <1>5

LEMMA RegisteredBeforeRead ==
    ASSUME NEW b \in Backends, Types, Moves(b), pc'[b] \in {"entries", "update"},
           registered'[b]
    PROVE  registered[b]
<1>1. CASE ReadBegin(b) \/ ReadEntry(b) \/ SendError(b) \/ ReadStops(b)
    BY <1>1 DEF ReadBegin, ReadEntry, SendError, ReadStops, listeners
<1>2. CASE ~ (ReadBegin(b) \/ ReadEntry(b) \/ SendError(b) \/ ReadStops(b))
    BY <1>2, EntersRead
<1>. QED  BY <1>1, <1>2

LEMMA AheadStep ==
    ASSUME NEW b \in Backends, Types, XactInv, PositionInv, AheadInv, Moves(b)
    PROVE  AheadInv'
<1>. /\ QueueHead \in Nat /\ pos \in [Backends -> 0..QueueHead]
    BY DEF Types, QueueTypes, QueueHead
<1>0. /\ QueueHead \in Nat /\ pos \in [Backends -> 0..QueueHead] /\ tail \in Nat /\ tail' \in Nat
      /\ tail <= tail'
    BY TailChanges
<1>1. ASSUME NEW c \in Backends, registered'[c], NEW i \in 1..QueueHead', InProgress(i)',
             log'[i].db = Database[c], tail' < i
      PROVE  pos'[c] < i /\ (pc'[c] \in {"entries", "update"} => rd'[c].pos < i)
    <2>0. ReadBounds(c) /\ rd[c].pos \in Nat /\ rd[c].head \in Nat
        BY DEF Types, ReadInv, PlaceTypes
    <2>1. CASE i = QueueHead + 1 /\ AddEntry(b)
        <3>1. pos' = pos /\ rd' = rd
            BY <2>1 DEF AddEntry, listeners
        <3>. QED  BY <1>0, <2>0, <2>1, <3>1 DEF ReadBounds
    <2>2. CASE i \in 1..QueueHead /\ log'[i] = log[i] /\ InProgress(i)
        <3>1. log[i].db = Database[c] /\ tail < i
            BY <1>0, <1>1, <2>2
        <3>2. registered[c] => pos[c] < i /\ (pc[c] \in {"entries", "update"} => rd[c].pos < i)
            BY <2>2, <3>1 DEF AheadInv, AheadOf
        <3>3. CASE c # b
            <4>1. /\ registered'[c] = registered[c] /\ pos'[c] = pos[c]
                  /\ pc'[c] = pc[c] /\ rd'[c] = rd[c]
                BY <3>3, OthersStay
            <4>. QED  BY <1>1, <3>2, <4>1
        <3>4. CASE c = b
            <4>1. pos'[b] < i
                <5>1. CASE pos' = pos /\ registered' = registered
                    BY <1>1, <3>2, <3>4, <5>1
                <5>2. CASE pos'[b] = tail
                    BY <3>1, <5>2
                <5>3. CASE /\ ReadUpdate(b) /\ registered' = registered
                           /\ pos'[b] = rd[b].pos
                    BY <1>1, <3>2, <3>4, <5>3 DEF ReadUpdate
                <5>. QED  BY <1>1, <3>4, <5>1, <5>2, <5>3, PlaceChanges
            <4>2. ASSUME pc'[b] \in {"entries", "update"} PROVE rd'[b].pos < i
                <5>1. registered[b]
                    BY <1>1, <3>4, <4>2, RegisteredBeforeRead
                <5>2. CASE rd'[b].pos = pos[b]
                    BY <3>2, <3>4, <5>1, <5>2
                <5>3. CASE pc[b] \in {"entries", "update"} /\ rd'[b].pos = rd[b].pos
                    BY <3>2, <3>4, <5>1, <5>3
                <5>4. CASE /\ pc[b] = "entries" /\ rd'[b].pos = rd[b].pos + 1
                           /\ Passable(b, log[rd[b].pos + 1])
                    <6>1. rd[b].pos < i
                        BY <3>2, <3>4, <5>1, <5>4
                    <6>2. i # rd[b].pos + 1
                        BY <2>2, <3>1, <3>4, <5>4 DEF Passable, InProgress
                    <6>. QED  BY <2>0, <3>4, <5>4, <6>1, <6>2
                <5>. QED  BY <4>2, <5>2, <5>3, <5>4, ReadMoves
            <4>. QED  BY <3>4, <4>1, <4>2
        <3>. QED  BY <3>3, <3>4
    <2>. QED  BY <1>1, <2>1, <2>2, InProgressBefore
<1>. QED  BY <1>1 DEF AheadInv, AheadOf, InProgress

LEMMA SpecAhead ==
    Spec => []AheadInv
<1>1. Init => AheadInv
    BY DEF Init, AheadInv, AheadOf
<1>2. Types /\ XactInv /\ PositionInv /\ AheadInv /\ [Next]_vars => AheadInv'
    <2>1. AheadInv /\ UNCHANGED vars => AheadInv'
        BY DEF AheadInv, AheadOf, InProgress, QueueHead, vars, queue, listeners, xact
    <2>. QED  BY <2>1, NextMoves, AheadStep
<1>. QED  BY <1>1, <1>2, SpecTypes, SpecXact, SpecPosition, PTL DEF Spec

-----------------------------------------------------------------------------
(***************************************************************************)
(* What a listener is owed is ahead of it                                  *)
(***************************************************************************)

\* These steps leave a backend inside AtCommit_Notify, or outside.
LEMMA CommittingStays ==
    ASSUME NEW b \in Backends, Types, Moves(b),
           ~RecordCommit(b), ~AtCommitAction(b), ~AtCommitEnd(b)
    PROVE  At(b)' \in Committing <=> At(b) \in Committing
<1>. USE DEF At, Committing, Reading, Goto, Call, Unregister
<1>1. /\ pc \in [Backends -> Labels] /\ ret \in [Backends -> Returns]
      /\ pc[b] \in Reading => ret[b] \in {"lock", "idle"}
    BY DEF Types, PlaceTypes
<1>2. CASE \E actions \in ActionLists, notifies \in NotifyLists :
               StartCommit(b, actions, notifies)
    BY <1>1, <1>2 DEF StartCommit
<1>3. CASE CommitError(b) \/ QueueFullError(b) \/ SendError(b)
    BY <1>1, <1>3 DEF CommitError, QueueFullError, SendError
<1>4. CASE ReadBegin(b) \/ ReadEntry(b) \/ ReadStops(b) \/ ReadUpdate(b)
    BY <1>1, <1>4 DEF ReadBegin, ReadEntry, ReadStops, ReadUpdate
<1>5. CASE AdvanceTail(b)
    BY <1>1, <1>5 DEF AdvanceTail, Returns
<1>6. CASE ListenPreCommit(b) \/ LockQueue(b) \/ AddEntry(b)
    BY <1>1, <1>6 DEF ListenPreCommit, LockQueue, AddEntry
<1>7. CASE ReleaseLocks(b) \/ RecordAbort(b)
    BY <1>1, <1>7 DEF ReleaseLocks, RecordAbort
<1>8. CASE AtAbort(b) \/ Exit(b)
    BY <1>1, <1>8 DEF AtAbort, Exit
<1>9. CASE CompletedNotifies(b) \/ SignalsSent(b) \/ \E c \in Backends : SendSignal(b, c)
    BY <1>1, <1>9 DEF CompletedNotifies, SignalsSent, SendSignal
<1>10. CASE HandleNotifyInterrupt(b) \/ ProcessIncomingNotify(b) \/ Restart(b)
    BY <1>1, <1>10 DEF HandleNotifyInterrupt, ProcessIncomingNotify, Restart
<1>. QED  BY <1>2, <1>3, <1>4, <1>5, <1>6, <1>7, <1>8, <1>9, <1>10 DEF Moves, Step

\* The committed channels are those listened on when all is done.
LEMMA EffectiveOfStep ==
    ASSUME NEW b \in Backends, Types, XactInv, RegisteredInv, EffectiveOf(b), Moves(b)
    PROVE  EffectiveOf(b)'
<1>1. /\ pc \in [Backends -> Labels] /\ effective \in [Backends -> SUBSET Channels]
      /\ listenChannels \in [Backends -> SUBSET Channels]
      /\ pendingActions \in [Backends -> Seq(Actions)]
    BY DEF Types, PlaceTypes, ListenTypes
<1>2. CASE RecordCommit(b)
    <2>1. effective'[b] = AfterActions(effective[b], pendingActions[b])
        BY <1>1, <1>2 DEF RecordCommit
    <2>2. /\ pc[b] = "commit" /\ pc'[b] = "release"
          /\ listenChannels' = listenChannels /\ pendingActions' = pendingActions
        BY <1>1, <1>2 DEF RecordCommit, Goto, pending
    <2>3. At(b) \notin Committing /\ At(b)' \in Committing
        BY <2>2 DEF At, Committing, Reading
    <2>. QED  BY <2>1, <2>2, <2>3 DEF EffectiveOf
<1>3. CASE AtCommitAction(b)
    <2>. DEFINE a == Head(pendingActions[b])
                channels == AfterAction(listenChannels[b], a)
    <2>1. /\ pc[b] = "atcommit" /\ pendingActions[b] # <<>>
          /\ listenChannels' = [listenChannels EXCEPT ![b] = channels]
          /\ pendingActions' = [pendingActions EXCEPT ![b] = Tail(@)]
          /\ \/ pc' = pc
             \/ Call(b, "advance", "atcommit")
             \/ Goto(b, "atcommit")
          /\ effective' = effective
        BY <1>3 DEF AtCommitAction, Unregister, client
    <2>2. listenChannels'[b] = channels /\ pendingActions'[b] = Tail(pendingActions[b])
        BY <1>1, <2>1
    <2>3. ret \in [Backends -> Returns]
        BY DEF Types, PlaceTypes
    <2>4. At(b) \in Committing /\ At(b)' \in Committing
        BY <1>1, <2>1, <2>3 DEF At, Committing, Reading, Call, Goto
    <2>5. AfterActions(channels, Tail(pendingActions[b]))
            = AfterActions(listenChannels[b], pendingActions[b])
        BY <1>1, <2>1, AfterFirstAction
    <2>. HIDE DEF channels
    <2>. QED  BY <2>1, <2>2, <2>4, <2>5 DEF EffectiveOf
<1>4. CASE AtCommitEnd(b)
    <2>1. /\ pc[b] = "atcommit" /\ pc'[b] = "completed" /\ pendingActions[b] = <<>>
          /\ listenChannels' = listenChannels /\ effective' = effective
        BY <1>1, <1>4 DEF AtCommitEnd, Goto, client
    <2>2. At(b) \in Committing /\ At(b)' \notin Committing
        BY <2>1 DEF At, Committing, Reading
    <2>. QED  BY <1>1, <2>1, <2>2, AfterNoActions DEF EffectiveOf
<1>5. CASE Exit(b)
    <2>1. At(b) \notin Committing /\ At(b)' \notin Committing
        BY <1>5, CommittingStays DEF Moves, Exit, At, Committing, Reading,
           RecordCommit, AtCommitAction, AtCommitEnd
    <2>2. effective'[b] = {}
        BY <1>1, <1>5 DEF Exit
    <2>3. listenChannels'[b] = {}
        BY <1>1, <1>5 DEF Exit, RegisteredInv, RegisteredOf
    <2>. QED  BY <2>1, <2>2, <2>3 DEF EffectiveOf
<1>6. CASE ~ (RecordCommit(b) \/ AtCommitAction(b) \/ AtCommitEnd(b) \/ Exit(b))
    <2>1. /\ At(b)' \in Committing <=> At(b) \in Committing
          /\ effective' = effective /\ listenChannels' = listenChannels
        BY <1>6, CommittingStays, Zenon DEF Moves, Step, StartCommit, CommitError, SendError,
           ReadBegin, ReadEntry, ReadStops, ReadUpdate, AdvanceTail, ListenPreCommit,
           LockQueue, AddEntry, QueueFullError, ReleaseLocks, AtAbort, RecordAbort,
           CompletedNotifies, SignalsSent, SendSignal, HandleNotifyInterrupt,
           ProcessIncomingNotify, Restart, client
    <2>2. At(b) \in Committing => pendingActions' = pendingActions
        BY <1>6, Zenon DEF Moves, Step, At, StartCommit, CommitError, SendError,
           ReadBegin, ReadEntry, ReadStops, ReadUpdate, AdvanceTail, ListenPreCommit,
           LockQueue, AddEntry, QueueFullError, ReleaseLocks, AtAbort, RecordAbort,
           CompletedNotifies, SignalsSent, SendSignal, HandleNotifyInterrupt,
           ProcessIncomingNotify, Restart, pending, Committing, Reading
    <2>. QED  BY <2>1, <2>2 DEF EffectiveOf
<1>. QED  BY <1>2, <1>3, <1>4, <1>5, <1>6

LEMMA EffectiveRegistered ==
    ASSUME NEW b \in Backends, Types, RegisteredInv, EffectiveOf(b), effective[b] # {}
    PROVE  registered[b]
<1>1. RegisteredOf(b) /\ pendingActions[b] \in Seq(Actions) /\ listenChannels[b] \in SUBSET Channels
    BY DEF Types, ListenTypes, RegisteredInv
<1>2. CASE At(b) \in Committing
    <2>1. listenChannels[b] # {} \/ WantsListen(b)
        BY <1>1, <1>2, AfterActionsListens DEF EffectiveOf, WantsListen
    <2>2. pc[b] # "preflight"
        BY <1>2 DEF At, Committing, Reading
    <2>. QED  BY <1>1, <2>1, <2>2 DEF RegisteredOf
<1>3. CASE At(b) \notin Committing
    BY <1>1, <1>3 DEF EffectiveOf, RegisteredOf
<1>. QED  BY <1>2, <1>3

\* An entry is owed from before, or committed by this step and on a channel
\* whose LISTEN is committed.
LEMMA OwedChanges ==
    ASSUME NEW b \in Backends, NEW c \in Backends, Types, Moves(b), NEW i \in owed'[c]
    PROVE  \/ i \in owed[c] /\ ~RecordCommit(b) /\ ~(Exit(b) /\ c = b)
           \/ i \in owed[c] /\ RecordCommit(b) /\ log[i].channel \in effective'[c]
           \/ /\ RecordCommit(b) /\ i \in 1..QueueHead /\ log[i].xid = xid[b]
              /\ log[i].channel \in effective'[c] /\ log[i].db = Database[c] /\ tail < i
<1>. owed \in [Backends -> SUBSET (1..QueueHead)] /\ tail \in 0..QueueHead /\ QueueHead \in Nat
    BY DEF Types, QueueTypes, QueueHead
<1>1. CASE RecordCommit(b)
    <2>1. owed'[c] = {k \in owed[c] : log[k].channel \in effective'[c]}
                        \cup {k \in Entries(xid[b], effective'[c], c) : k > tail}
        BY <1>1 DEF RecordCommit
    <2>. QED  BY <1>1, <2>1 DEF Entries
<1>2. CASE ReadEntry(b)
    <2>1. i \in owed[c]
        BY <1>2 DEF ReadEntry
    <2>. QED  BY <1>2, <2>1 DEF ReadEntry, RecordCommit, Exit
<1>3. CASE SendError(b)
    <2>1. i \in owed[c]
        BY <1>3 DEF SendError
    <2>. QED  BY <1>3, <2>1 DEF SendError, RecordCommit, Exit
<1>4. CASE Exit(b)
    <2>1. i \in owed[c] /\ c # b
        BY <1>4 DEF Exit
    <2>. QED  BY <1>4, <2>1 DEF RecordCommit, Exit
<1>5. CASE ~ (RecordCommit(b) \/ ReadEntry(b) \/ SendError(b) \/ Exit(b))
    <2>1. owed' = owed
        BY <1>5 DEF Moves, Step, StartCommit, CommitError, ReadBegin, ReadStops,
           ReadUpdate, AdvanceTail, ListenPreCommit, LockQueue, AddEntry, QueueFullError,
           ReleaseLocks, AtCommitAction, AtCommitEnd, AtAbort, RecordAbort,
           CompletedNotifies, SignalsSent, SendSignal, HandleNotifyInterrupt,
           ProcessIncomingNotify, Restart, client
    <2>. QED  BY <1>5, <2>1
<1>. QED  BY <1>1, <1>2, <1>3, <1>4, <1>5

\* A listener is not taken past what it is owed.
LEMMA OwedStaysAhead ==
    ASSUME NEW b \in Backends, NEW i \in 1..QueueHead, Types, Moves(b), XactInv,
           EffectiveOf(b), i \in owed[b], i \in owed'[b], MissOf(b)
    PROVE  pos'[b] < i /\ (pc'[b] \in {"entries", "update"} => rd'[b].pos < i)
<1>1. /\ pos[b] < i /\ tail < i /\ (pc[b] \in {"entries", "update"} => rd[b].pos < i)
      /\ rd[b].pos \in Nat
    BY DEF MissOf, Types, PlaceTypes
<1>2. pos'[b] < i
    BY <1>1, PlaceChanges DEF ReadUpdate
<1>3. ASSUME pc[b] = "entries", rd'[b].pos = rd[b].pos + 1, ReadEntry(b) \/ SendError(b)
      PROVE  i # rd[b].pos + 1
    <2>. SUFFICES ASSUME i = rd[b].pos + 1 PROVE FALSE
        OBVIOUS
    <2>1. effective[b] = listenChannels[b]
        BY <1>3 DEF EffectiveOf, At, Committing, Reading, Types, PlaceTypes
    <2>2. ToDeliver(b, log[i])
        BY <2>1 DEF MissOf, ToDeliver
    <2>3. owed \in [Backends -> SUBSET (1..QueueHead)]
        BY DEF Types, QueueTypes
    <2>. QED  BY <1>3, <2>2, <2>3 DEF ReadEntry, SendError
<1>4. ASSUME pc'[b] \in {"entries", "update"} PROVE rd'[b].pos < i
    BY <1>1, <1>3, <1>4, ReadMoves
<1>. QED  BY <1>2, <1>4

LEMMA MissStep ==
    ASSUME NEW b \in Backends, Types, XactInv, PositionInv, RegisteredInv, AheadInv,
           MissInv, Moves(b)
    PROVE  MissInv'
<1>0. /\ QueueHead \in Nat /\ pos \in [Backends -> 0..QueueHead] /\ tail \in Nat
      /\ \A c \in Backends : owed[c] \subseteq 1..QueueHead
    BY DEF Types, QueueTypes, QueueHead
<1>1. ASSUME NEW c \in Backends PROVE EffectiveOf(c)'
    <2>1. CASE c # b
        <3>1. /\ effective'[c] = effective[c] /\ listenChannels'[c] = listenChannels[c]
              /\ pendingActions'[c] = pendingActions[c] /\ At(c)' = At(c)
            BY <2>1, OthersStay DEF At
        <3>. QED  BY <3>1 DEF MissInv, EffectiveOf
    <2>2. CASE c = b
        BY <2>2, EffectiveOfStep DEF MissInv
    <2>. QED  BY <2>1, <2>2
<1>2. ASSUME NEW c \in Backends, NEW i \in owed'[c]
      PROVE  /\ log'[i].channel \in effective'[c] /\ log'[i].db = Database[c]
             /\ xstate'[log'[i].xid] = "committed"
             /\ tail' < i /\ pos'[c] < i
             /\ pc'[c] \in {"entries", "update"} => rd'[c].pos < i
    <2>1. ASSUME i \in owed[c]
          PROVE  /\ i \in 1..QueueHead /\ log'[i] = log[i]
                 /\ log[i].channel \in effective[c] /\ log[i].db = Database[c]
                 /\ xstate'[log[i].xid] = "committed"
                 /\ tail' < i /\ pos'[c] < i
                 /\ pc'[c] \in {"entries", "update"} => rd'[c].pos < i
        <3>1. /\ i \in 1..QueueHead
              /\ log[i].channel \in effective[c] /\ log[i].db = Database[c]
              /\ xstate[log[i].xid] = "committed"
              /\ tail < i /\ pos[c] < i
              /\ pc[c] \in {"entries", "update"} => rd[c].pos < i
            BY <1>0, <2>1 DEF MissInv, MissOf
        <3>2. log'[i] = log[i] /\ xstate'[log[i].xid] = "committed"
            BY <3>1, CommittedStays
        <3>3. tail' < i
            <4>1. registered[c]
                BY <3>1, EffectiveRegistered DEF MissInv
            <4>2. SlowestPosition <= pos[c] /\ SlowestPosition \in 0..QueueHead
                BY <4>1, SlowestIs DEF Types
            <4>. QED  BY <1>0, <3>1, <4>2, TailChanges
        <3>4. pos'[c] < i /\ (pc'[c] \in {"entries", "update"} => rd'[c].pos < i)
            <4>1. CASE c # b
                <5>1. pos'[c] = pos[c] /\ pc'[c] = pc[c] /\ rd'[c] = rd[c]
                    BY <4>1, OthersStay
                <5>. QED  BY <3>1, <5>1
            <4>2. CASE c = b
                BY <1>2, <2>1, <3>1, <4>2, OwedStaysAhead DEF MissInv
            <4>. QED  BY <4>1, <4>2
        <3>. QED  BY <3>1, <3>2, <3>3, <3>4
    <2>2. CASE i \in owed[c] /\ ~RecordCommit(b) /\ ~(Exit(b) /\ c = b)
        <3>1. effective'[c] = effective[c]
            <4>1. CASE c # b
                BY <4>1, OthersStay
            <4>2. CASE c = b
                BY <2>2, <4>2 DEF Moves, Step, StartCommit, CommitError, SendError, ReadBegin,
                   ReadEntry, ReadStops, ReadUpdate, AdvanceTail, ListenPreCommit, LockQueue,
                   AddEntry, QueueFullError, ReleaseLocks, AtCommitAction, AtCommitEnd,
                   AtAbort, RecordAbort, CompletedNotifies, SignalsSent, SendSignal,
                   HandleNotifyInterrupt, ProcessIncomingNotify, Restart, client
            <4>. QED  BY <4>1, <4>2
        <3>. QED  BY <2>1, <2>2, <3>1
    <2>3. CASE i \in owed[c] /\ RecordCommit(b) /\ log[i].channel \in effective'[c]
        BY <2>1, <2>3
    <2>4. CASE /\ RecordCommit(b) /\ i \in 1..QueueHead /\ log[i].xid = xid[b]
               /\ log[i].channel \in effective'[c] /\ log[i].db = Database[c] /\ tail < i
        <3>1. /\ pc[b] = "commit" /\ UNCHANGED <<log, tail, pos, rd>>
              /\ xstate' = [xstate EXCEPT ![xid[b]] = "committed"]
              /\ effective' = [effective EXCEPT ![b] = AfterActions(@, pendingActions[b])]
              /\ pc' = [pc EXCEPT ![b] = "release"]
            BY <2>4 DEF RecordCommit, queue, listeners, Goto
        <3>2. InProgress(i) /\ xstate'[log[i].xid] = "committed"
            <4>1. xstate[xid[b]] = "inProgress"
                BY <3>1 DEF XactInv, XactOf, At, Running, Reading
            <4>2. xid[b] \in DOMAIN xstate
                <5>1. xid[b] \in Xids
                    BY <2>4 DEF XactInv
                <5>. QED  BY <5>1 DEF Types, XactTypes, Xids
            <4>. QED  BY <2>4, <3>1, <4>1, <4>2 DEF InProgress
        <3>3. registered[c]
            <4>1. CASE c # b
                <5>1. effective'[c] = effective[c]
                    BY <4>1, OthersStay
                <5>. QED  BY <2>4, <5>1, EffectiveRegistered DEF MissInv
            <4>2. CASE c = b
                <5>1. /\ effective[b] \in SUBSET Channels /\ pendingActions[b] \in Seq(Actions)
                      /\ effective \in [Backends -> SUBSET Channels]
                    BY DEF Types, ListenTypes
                <5>2. AfterActions(effective[b], pendingActions[b]) # {}
                    BY <2>4, <3>1, <4>2, <5>1
                <5>3. effective[b] # {} \/ WantsListen(b)
                    BY <5>1, <5>2, AfterActionsListens DEF WantsListen
                <5>4. WantsListen(b) => registered[b]
                    BY <3>1 DEF RegisteredInv, RegisteredOf
                <5>. QED  BY <4>2, <5>3, <5>4, EffectiveRegistered DEF MissInv
            <4>. QED  BY <4>1, <4>2
        <3>4. pos[c] < i /\ (pc[c] \in {"entries", "update"} => rd[c].pos < i)
            BY <2>4, <3>2, <3>3 DEF AheadInv, AheadOf
        <3>5. pc'[c] \in {"entries", "update"} => pc[c] \in {"entries", "update"}
            BY <3>1 DEF Types, PlaceTypes
        <3>. QED  BY <2>4, <3>1, <3>2, <3>4, <3>5
    <2>. QED  BY <2>2, <2>3, <2>4, OwedChanges
<1>. QED  BY <1>1, <1>2 DEF MissInv, MissOf

LEMMA SpecMiss ==
    Spec /\ []ListensFirst => []MissInv
<1>1. Init => MissInv
    BY DEF Init, MissInv, MissOf, EffectiveOf, At, Committing, Reading
<1>2. Types /\ XactInv /\ PositionInv /\ RegisteredInv /\ AheadInv /\ MissInv
        /\ [Next]_vars => MissInv'
    <2>1. MissInv /\ UNCHANGED vars => MissInv'
        BY DEF MissInv, MissOf, EffectiveOf, At, vars, queue, listeners, xact, pending, client
    <2>. QED  BY <2>1, NextMoves, MissStep
<1>. QED  BY <1>1, <1>2, SpecTypes, SpecXact, SpecPosition, SpecRegistered, SpecAhead,
             PTL DEF Spec

\* What commits while a backend listens stays in the queue, ahead of the
\* backend, until it is sent: neither the moment of registration, nor a read
\* beside the commit, nor the tail gets past it.
THEOREM NoNotificationMissed ==
    Spec /\ []ListensFirst => []NoMissedNotification
<1>1. Types /\ RegisteredInv /\ MissInv => NoMissedNotification
    <2>. SUFFICES ASSUME Types, RegisteredInv, MissInv, NEW b \in Backends, NEW i \in owed[b]
                  PROVE  /\ registered[b] /\ tail < i /\ pos[b] < i
                         /\ pc[b] = "entries" => rd[b].pos < i
        BY DEF NoMissedNotification
    <2>1. EffectiveOf(b) /\ effective[b] # {}
        BY DEF MissInv, MissOf
    <2>. QED  BY <2>1, EffectiveRegistered DEF MissInv, MissOf
<1>. QED  BY <1>1, SpecTypes, SpecRegistered, SpecMiss, PTL

-----------------------------------------------------------------------------
(***************************************************************************)
(* Nobody is forgotten                                                     *)
(***************************************************************************)

\* NoForgottenListener is inductive on the invariants above.  The steps that
\* hand the entry on, one lemma each for its reader and for its notifier.
LEMMA CaredForByReader ==
    ASSUME NEW b \in Backends, NEW i \in 1..QueueHead, Types, WriterInv, RegisteredOf(b),
           registered[b], pos[b] < i, pc[b] = "entries" => rd[b].pos < i,
           pc[b] \in {"idle", "signal"} => listenChannels[b] # {},
           xstate[log[i].xid] = "committed", Moves(b),
           \/ gaveUp[b] \/ procSignal[b] \/ occurred[b] \/ pc[b] \in {"read", "signal"}
           \/ pc[b] = "entries" /\ i <= rd[b].head
    PROVE  \/ gaveUp'[b] \/ procSignal'[b] \/ occurred'[b] \/ pc'[b] \in {"read", "signal"}
           \/ pc'[b] = "entries" /\ i <= rd'[b].head
<1>1. /\ pc \in [Backends -> Labels] /\ i <= QueueHead /\ QueueHead \in Nat
      /\ gaveUp \in [Backends -> BOOLEAN] /\ procSignal \in [Backends -> BOOLEAN]
      /\ occurred \in [Backends -> BOOLEAN] /\ pos[b] \in 0..QueueHead
      /\ rd \in [Backends -> [pos : Nat, oldpos : Nat, head : Nat]]
    BY DEF Types, PlaceTypes, FlagTypes, QueueTypes, QueueHead
<1>. USE DEF Goto, Call
<1>2. CASE ReadBegin(b)
    <2>1. pos[b] # QueueHead
        BY <1>1
    <2>2. pc'[b] = "entries" /\ rd'[b].head = QueueHead
        BY <1>1, <1>2, <2>1 DEF ReadBegin
    <2>. QED  BY <1>1, <2>2
<1>3. CASE ReadEntry(b)
    <2>1. pc' = pc /\ gaveUp' = gaveUp /\ procSignal' = procSignal /\ occurred' = occurred
        BY <1>3 DEF ReadEntry, signals
    <2>2. rd'[b].head = rd[b].head
        BY <1>1, <1>3 DEF ReadEntry
    <2>. QED  BY <2>1, <2>2
<1>4. CASE SendError(b)
    BY <1>1, <1>4 DEF SendError
<1>5. CASE ReadStops(b)
    <2>1. pc[b] = "entries" /\ UNCHANGED <<gaveUp, procSignal, occurred>>
        BY <1>5 DEF ReadStops, signals, client
    <2>2. rd[b].pos \in Nat /\ rd[b].head \in Nat
        BY <1>1
    <2>3. ~(i <= rd[b].head)
        BY <1>1, <1>5, <2>1, <2>2, StopsAfterCommitted
    <2>. QED  BY <2>1, <2>3
<1>6. CASE SignalsSent(b) \/ ProcessIncomingNotify(b)
    <2>1. listenChannels[b] # {}
        BY <1>6 DEF SignalsSent, ProcessIncomingNotify
    <2>. QED  BY <1>1, <1>6, <2>1 DEF SignalsSent, ProcessIncomingNotify
<1>7. CASE HandleNotifyInterrupt(b)
    BY <1>1, <1>7 DEF HandleNotifyInterrupt
<1>8. CASE \E c \in Backends : SendSignal(b, c)
    BY <1>1, <1>8 DEF SendSignal, client
<1>9. CASE Restart(b)
    BY <1>9 DEF Restart, RegisteredOf, At, Reading
<1>10. CASE ~ (\/ ReadBegin(b) \/ ReadEntry(b) \/ SendError(b) \/ ReadStops(b)
               \/ SignalsSent(b) \/ ProcessIncomingNotify(b) \/ HandleNotifyInterrupt(b)
               \/ Restart(b) \/ \E c \in Backends : SendSignal(b, c))
    <2>1. /\ UNCHANGED <<gaveUp, procSignal, occurred>>
          /\ pc[b] \notin {"read", "signal", "entries"}
        BY <1>10 DEF Moves, Step, StartCommit, CommitError, Exit, ReadUpdate, AdvanceTail,
           ListenPreCommit, LockQueue, AddEntry, QueueFullError, RecordCommit, ReleaseLocks,
           AtCommitAction, AtCommitEnd, AtAbort, RecordAbort, CompletedNotifies, signals,
           client
    <2>. QED  BY <2>1
<1>. QED  BY <1>2, <1>3, <1>4, <1>5, <1>6, <1>7, <1>8, <1>9, <1>10

LEMMA SentUntilCompleted ==
    ASSUME NEW b \in Backends, NEW d \in Backends, Types, Moves(b), hasSent[d]
    PROVE  hasSent'[d] \/ (CompletedNotifies(b) /\ d = b)
<1>1. hasSent \in [Backends -> BOOLEAN]
    BY DEF Types, FlagTypes
<1>2. CASE LockQueue(b)
    BY <1>1, <1>2 DEF LockQueue
<1>3. CASE CompletedNotifies(b)
    BY <1>1, <1>3 DEF CompletedNotifies
<1>4. CASE ~ (LockQueue(b) \/ CompletedNotifies(b))
    BY <1>4 DEF Moves, Step, StartCommit, CommitError, SendError, Exit, ReadBegin,
       ReadEntry, ReadStops, ReadUpdate, AdvanceTail, ListenPreCommit, AddEntry,
       QueueFullError, RecordCommit, ReleaseLocks, AtCommitAction, AtCommitEnd, AtAbort,
       RecordAbort, SignalsSent, SendSignal, HandleNotifyInterrupt, ProcessIncomingNotify,
       Restart, flags
<1>. QED  BY <1>2, <1>3, <1>4

\* Who is on the list of a notifier gets its signal, unless it exits.
LEMMA TargetUntilSignalled ==
    ASSUME NEW b \in Backends, NEW c \in Backends, NEW d \in Backends, Types, Moves(b),
           c \in targets[d]
    PROVE  \/ c \in targets'[d]
           \/ SendSignal(b, c) /\ procSignal'[c]
           \/ Restart(b) /\ c = b
           \/ CompletedNotifies(b) /\ hasSent[b]
<1>1. targets \in [Backends -> SUBSET Backends] /\ procSignal \in [Backends -> BOOLEAN]
    BY DEF Types, FlagTypes
<1>2. CASE CompletedNotifies(b)
    BY <1>1, <1>2 DEF CompletedNotifies
<1>3. ASSUME NEW e \in Backends, SendSignal(b, e)
      PROVE  c \in targets'[d] \/ (SendSignal(b, c) /\ procSignal'[c])
    BY <1>1, <1>3 DEF SendSignal
<1>4. CASE Restart(b)
    BY <1>1, <1>4 DEF Restart
<1>5. CASE ~ (CompletedNotifies(b) \/ Restart(b) \/ \E e \in Backends : SendSignal(b, e))
    BY <1>5 DEF Moves, Step, StartCommit, CommitError, SendError, Exit, ReadBegin,
       ReadEntry, ReadStops, ReadUpdate, AdvanceTail, ListenPreCommit, LockQueue, AddEntry,
       QueueFullError, RecordCommit, ReleaseLocks, AtCommitAction, AtCommitEnd, AtAbort,
       RecordAbort, SignalsSent, HandleNotifyInterrupt, ProcessIncomingNotify, signals
<1>. QED  BY <1>2, <1>3, <1>4, <1>5

\* A notifier that gets to its signals has everybody on its list who is behind.
LEMMA CompletedTargets ==
    ASSUME NEW b \in Backends, NEW c \in Backends, Types, CompletedNotifies(b), hasSent[b],
           registered[c], pos[c] # QueueHead
    PROVE  IF c = b THEN pc'[c] = "signal" ELSE c \in targets'[b]
<1>1. pc \in [Backends -> Labels] /\ targets \in [Backends -> SUBSET Backends]
    BY DEF Types, PlaceTypes, FlagTypes
<1>2. pc'[b] = "signal" /\ targets'[b] = Behind(b)
    BY <1>1 DEF CompletedNotifies, Goto
<1>. QED  BY <1>2 DEF Behind

\* Only a backend itself forgets the signals sent to it.
LEMMA SignalsOfOthers ==
    ASSUME NEW b \in Backends, NEW c \in Backends, c # b, Types, Moves(b)
    PROVE  /\ procSignal[c] => procSignal'[c]
           /\ occurred[c] => occurred'[c]
<1>1. procSignal \in [Backends -> BOOLEAN] /\ occurred \in [Backends -> BOOLEAN]
    BY DEF Types, FlagTypes
<1>2. CASE \E d \in Backends : SendSignal(b, d)
    BY <1>1, <1>2 DEF SendSignal
<1>3. CASE HandleNotifyInterrupt(b) \/ ProcessIncomingNotify(b) \/ Restart(b)
    BY <1>1, <1>3 DEF HandleNotifyInterrupt, ProcessIncomingNotify, Restart
<1>4. CASE ~ (\/ HandleNotifyInterrupt(b) \/ ProcessIncomingNotify(b) \/ Restart(b)
              \/ \E d \in Backends : SendSignal(b, d))
    BY <1>4 DEF Moves, Step, StartCommit, CommitError, SendError, Exit, ReadBegin,
       ReadEntry, ReadStops, ReadUpdate, AdvanceTail, ListenPreCommit, LockQueue, AddEntry,
       QueueFullError, RecordCommit, ReleaseLocks, AtCommitAction, AtCommitEnd, AtAbort,
       RecordAbort, CompletedNotifies, SignalsSent, signals
<1>. QED  BY <1>2, <1>3, <1>4

LEMMA ForgottenStep ==
    ASSUME NEW b \in Backends, Types, XactInv, WriterInv, RegisteredInv, MissInv,
           NoForgottenListener, Moves(b)
    PROVE  NoForgottenListener'
<1>. DEFINE Reader(c, i) == \/ gaveUp[c] \/ procSignal[c] \/ occurred[c]
                            \/ pc[c] \in {"read", "signal"}
                            \/ pc[c] = "entries" /\ i <= rd[c].head
            Cared(c, i) == Reader(c, i) \/ \E d \in Backends : hasSent[d] \/ c \in targets[d]
<1>1. ASSUME NEW c \in Backends, NEW i, i \in owed[c]
      PROVE  /\ i \in 1..QueueHead /\ xstate[log[i].xid] = "committed"
             /\ registered[c] /\ RegisteredOf(c) /\ Cared(c, i)
             /\ pos[c] < i /\ (pc[c] = "entries" => rd[c].pos < i)
             /\ pc[c] \in {"idle", "signal"} => listenChannels[c] # {}
             /\ ~(Restart(c) /\ c = b)
    <2>1. /\ xstate[log[i].xid] = "committed" /\ pos[c] < i
          /\ pc[c] = "entries" => rd[c].pos < i
          /\ effective[c] # {} /\ EffectiveOf(c) /\ RegisteredOf(c)
        BY <1>1 DEF MissInv, MissOf, RegisteredInv
    <2>2. i \in 1..QueueHead
        BY <1>1 DEF Types, QueueTypes
    <2>3. registered[c]
        BY <2>1, EffectiveRegistered
    <2>4. pc[c] \in {"idle", "signal"} => listenChannels[c] # {}
        BY <2>1 DEF EffectiveOf, At, Reading, Committing
    <2>5. ~Restart(c)
        BY <2>1, <2>3 DEF Restart, RegisteredOf, At, Reading
    <2>. QED  BY <1>1, <2>1, <2>2, <2>3, <2>4, <2>5 DEF NoForgottenListener
<1>2. ASSUME NEW c \in Backends, NEW i, i \in owed[c] PROVE Cared(c, i)'
    <2>1. CASE Reader(c, i)
        <3>1. CASE c = b
            <4>1. Reader(b, i)'
                BY <1>1, <1>2, <2>1, <3>1, CaredForByReader DEF WriterInv
            <4>. QED  BY <3>1, <4>1
        <3>2. CASE c # b
            <4>1. /\ gaveUp'[c] = gaveUp[c] /\ pc'[c] = pc[c] /\ rd'[c] = rd[c]
                  /\ procSignal[c] => procSignal'[c]
                  /\ occurred[c] => occurred'[c]
                BY <3>2, OthersStay, SignalsOfOthers
            <4>. QED  BY <2>1, <4>1
        <3>. QED  BY <3>1, <3>2
    <2>2. CASE CompletedNotifies(b) /\ hasSent[b]
        <3>1. pos[c] # QueueHead
            BY <1>1, <1>2 DEF Types, QueueTypes, QueueHead
        <3>2. IF c = b THEN pc'[c] = "signal" ELSE c \in targets'[b]
            BY <1>1, <1>2, <2>2, <3>1, CompletedTargets
        <3>. QED  BY <3>2
    <2>3. ASSUME ~(CompletedNotifies(b) /\ hasSent[b]), NEW d \in Backends, hasSent[d]
          PROVE  hasSent'[d]
        BY <2>3, SentUntilCompleted
    <2>4. ASSUME ~(CompletedNotifies(b) /\ hasSent[b]), NEW d \in Backends, c \in targets[d]
          PROVE  c \in targets'[d] \/ procSignal'[c]
        BY <1>1, <1>2, <2>4, TargetUntilSignalled
    <2>. QED  BY <1>1, <1>2, <2>1, <2>2, <2>3, <2>4
<1>3. ASSUME NEW c \in Backends, NEW i, i \in owed'[c], i \notin owed[c] PROVE Cared(c, i)'
    <2>1. RecordCommit(b) /\ i \in 1..QueueHead /\ log[i].xid = xid[b]
        BY <1>3, OwedChanges
    <2>2. xid[b] # NoXid /\ InProgress(i)
        BY <2>1 DEF RecordCommit, XactInv, XactOf, At, Running, Reading, InProgress
    <2>3. writer \in Backends /\ xid[writer] = xid[b]
        BY <2>1, <2>2 DEF WriterInv, WriterEntries
    <2>4. writer = b
        BY <2>2, <2>3 DEF XactInv
    <2>5. hasSent[b] /\ hasSent' = hasSent
        BY <2>1, <2>4 DEF WriterInv, WriterOf, RecordCommit, flags
    <2>. QED  BY <2>5
<1>4. ASSUME NEW c \in Backends, NEW i \in owed'[c] PROVE Cared(c, i)'
    BY <1>2, <1>3
<1>. QED  BY <1>4 DEF NoForgottenListener

\* No order of reads, commits and signals leaves a listener behind: whoever is
\* owed a notification is reading, has a signal, or is to get one.
THEOREM NobodyForgotten ==
    Spec /\ []ListensFirst => []NoForgottenListener
<1>1. Init => NoForgottenListener
    BY DEF Init, NoForgottenListener
<1>2. Types /\ XactInv /\ WriterInv /\ RegisteredInv /\ MissInv /\ NoForgottenListener
        /\ [Next]_vars => NoForgottenListener'
    <2>1. NoForgottenListener /\ UNCHANGED vars => NoForgottenListener'
        BY DEF NoForgottenListener, vars, flags, signals, client
    <2>. QED  BY <2>1, NextMoves, ForgottenStep
<1>. QED  BY <1>1, <1>2, SpecTypes, SpecXact, SpecWriter, SpecRegistered, SpecMiss,
             PTL DEF Spec

-----------------------------------------------------------------------------
(***************************************************************************)
(* The tail is not forgotten                                               *)
(***************************************************************************)

LEMMA LagIs ==
    Types => (tail < SlowestPosition <=> Lags)
<1>. SUFFICES ASSUME Types PROVE tail < SlowestPosition <=> Lags
    OBVIOUS
<1>1. /\ tail \in Nat /\ QueueHead \in Nat /\ pos \in [Backends -> 0..QueueHead]
    BY DEF Types, QueueTypes, QueueHead
<1>2. /\ SlowestPosition \in 0..QueueHead
      /\ \A b \in Backends : registered[b] => SlowestPosition <= pos[b]
      /\ \/ SlowestPosition = QueueHead
         \/ \E b \in Backends : registered[b] /\ SlowestPosition = pos[b]
    BY SlowestIs DEF Types
<1>3. ASSUME tail < SlowestPosition PROVE Lags
    BY <1>1, <1>2, <1>3 DEF Lags
<1>4. ASSUME Lags PROVE tail < SlowestPosition
    BY <1>1, <1>2, <1>4 DEF Lags
<1>. QED  BY <1>3, <1>4

\* After asyncQueueAdvanceTail, and with a new listener, the tail does not lag.
LEMMA LagEnds ==
    ASSUME NEW b \in Backends, Types, Moves(b),
           AdvanceTail(b) \/ (ListenPreCommit(b) /\ listenChannels[b] = {})
    PROVE  ~Lags'
<1>1. /\ tail \in Nat /\ QueueHead \in Nat /\ pos \in [Backends -> 0..QueueHead]
      /\ registered \in [Backends -> BOOLEAN]
    BY DEF Types, QueueTypes, FlagTypes, QueueHead
<1>2. CASE AdvanceTail(b)
    <2>1. /\ tail' = SlowestPosition /\ log' = log
          /\ pos' = pos /\ registered' = registered
        BY <1>2 DEF AdvanceTail, listeners
    <2>2. QueueHead' = QueueHead
        BY <2>1 DEF QueueHead
    <2>3. \/ SlowestPosition = QueueHead
          \/ \E c \in Backends : registered[c] /\ SlowestPosition = pos[c]
        BY SlowestIs DEF Types
    <2>. QED  BY <1>1, <2>1, <2>2, <2>3 DEF Lags
<1>3. CASE ListenPreCommit(b) /\ listenChannels[b] = {}
    <2>1. tail' = tail /\ registered'[b] /\ pos'[b] = tail
        BY <1>1, <1>3 DEF ListenPreCommit, ListenFrom, queue
    <2>. QED  BY <1>1, <2>1 DEF Lags
<1>. QED  BY <1>2, <1>3

\* Whoever makes the tail lag is to advance it: a reader or a backend that goes
\* away from the tail at once, a writer when it has looked for listeners.
LEMMA LagBegins ==
    ASSUME NEW b \in Backends, Types, WriterInv, PositionInv, RegisteredInv, Moves(b), Lags'
    PROVE  Lags \/ pc'[b] = "advance" \/ TailLeftTo(b)'
<1>1. /\ tail \in Nat /\ QueueHead \in Nat /\ pos \in [Backends -> 0..QueueHead]
      /\ registered \in [Backends -> BOOLEAN] /\ pc \in [Backends -> Labels]
      /\ rd \in [Backends -> [pos : Nat, oldpos : Nat, head : Nat]]
    BY DEF Types, QueueTypes, FlagTypes, PlaceTypes, QueueHead
<1>2. tail' = tail
    BY LagEnds, TailChanges
<1>3. CASE AddEntry(b)
    <2>1. /\ pos' = pos /\ registered' = registered /\ hasSent' = hasSent
          /\ QueueHead' = QueueHead + 1 /\ hasSent[b]
        <3>1. pc[b] = "add" /\ hasSent[b]
            BY <1>3 DEF AddEntry, WriterInv, WriterOf
        <3>2. log' = Append(log, [xid |-> xid[b], channel |-> Head(pendingNotifies[b]),
                                  db |-> Database[b]])
            BY <1>3 DEF AddEntry
        <3>3. QueueHead' = QueueHead + 1
            BY <3>2, AppendProperties DEF QueueHead, Types, QueueTypes
        <3>. QED  BY <1>3, <3>1, <3>3 DEF AddEntry, listeners, flags
    <2>2. CASE \E c \in Backends : registered[c]
        <3>1. PICK c \in Backends : registered[c]
            BY <2>2
        <3>2. tail < pos[c] /\ pos[c] <= QueueHead
            BY <1>1, <1>2, <2>1, <3>1 DEF Lags
        <3>. QED  BY <1>1, <1>2, <2>1, <3>2 DEF Lags
    <2>3. CASE \A c \in Backends : ~registered[c]
        BY <2>1, <2>3 DEF TailLeftTo
    <2>. QED  BY <2>2, <2>3
<1>4. CASE ~AddEntry(b) /\ pos' = pos /\ registered' = registered
    <2>1. QueueHead' = QueueHead
        BY <1>4, LogGrows
    <2>. QED  BY <1>2, <1>4, <2>1 DEF Lags
<1>5. CASE ReadUpdate(b)
    <2>1. /\ registered' = registered /\ log' = log /\ pos' = [pos EXCEPT ![b] = rd[b].pos]
          /\ pc[b] = "update"
          /\ pc' = [pc EXCEPT ![b] = IF rd[b].oldpos = tail THEN "advance" ELSE ret[b]]
        BY <1>5 DEF ReadUpdate, PositionAfterRead, WasLaziest, Goto, queue
    <2>2. rd[b].oldpos = pos[b]
        BY <2>1 DEF Types, ReadInv, ReadBounds
    <2>3. tail <= pos[b]
        BY <2>1 DEF RegisteredInv, RegisteredOf, Reading, PositionInv
    <2>4. CASE rd[b].oldpos = tail
        BY <1>1, <2>1, <2>4
    <2>5. CASE rd[b].oldpos # tail
        <3>1. tail < pos[b] /\ pos[b] <= QueueHead
            <4>1. pos[b] \in 0..QueueHead
                BY <1>1
            <4>. QED  BY <1>1, <2>2, <2>3, <2>5, <4>1
        <3>2. ASSUME NEW c \in Backends, registered[c] PROVE tail < pos[c]
            <4>1. c # b => pos'[c] = pos[c]
                BY <1>1, <2>1
            <4>. QED  BY <1>2, <2>1, <3>1, <3>2, <4>1 DEF Lags
        <3>. QED  BY <1>1, <3>1, <3>2 DEF Lags
    <2>. QED  BY <2>4, <2>5
<1>6. CASE /\ AtCommitAction(b) \/ AtAbort(b) \/ Exit(b)
           /\ pos' = pos /\ registered'[b] = FALSE
           /\ IF AdvanceOnLeaving(b) THEN pc'[b] = "advance" ELSE pc[b] # "advance"
    <2>1. log' = log
        BY <1>6 DEF AtCommitAction, AtAbort, Exit, queue
    <2>2. QueueHead' = QueueHead
        BY <2>1 DEF QueueHead
    <2>3. CASE registered[b] /\ pos[b] = tail
        BY <1>6, <2>3 DEF AdvanceOnLeaving
    <2>4. CASE ~(registered[b] /\ pos[b] = tail)
        <3>1. registered[b] => tail < pos[b]
            BY <1>1, <2>4 DEF PositionInv
        <3>2. ASSUME NEW c \in Backends, registered[c] PROVE tail < pos[c]
            <4>1. c # b => registered'[c] = registered[c]
                BY OthersStay
            <4>. QED  BY <1>2, <1>6, <3>1, <3>2, <4>1 DEF Lags
        <3>. QED  BY <1>2, <2>2, <3>2 DEF Lags
    <2>. QED  BY <2>3, <2>4
<1>7. CASE ListenPreCommit(b)
    <2>1. listenChannels[b] # {}
        BY <1>7, LagEnds
    <2>2. pos' = pos /\ registered' = registered
        BY <1>7, <2>1 DEF ListenPreCommit, listeners
    <2>. QED  BY <1>3, <1>4, <2>2
<1>. QED  BY <1>3, <1>4, <1>5, <1>6, <1>7, PlaceChanges

\* A backend in asyncQueueAdvanceTail stays there until it has advanced the tail.
LEMMA StaysToAdvance ==
    ASSUME NEW b \in Backends, Types, Moves(b), pc[b] = "advance", ~AdvanceTail(b)
    PROVE  pc'[b] = "advance"
<1>. pc \in [Backends -> Labels]
    BY DEF Types, PlaceTypes
<1>1. HandleNotifyInterrupt(b)
    BY DEF Moves, Step, StartCommit, CommitError, SendError, Exit, ReadBegin,
       ReadEntry, ReadStops, ReadUpdate, ListenPreCommit, LockQueue, AddEntry,
       QueueFullError, RecordCommit, ReleaseLocks, AtCommitAction, AtCommitEnd, AtAbort,
       RecordAbort, CompletedNotifies, SignalsSent, SendSignal, ProcessIncomingNotify,
       Restart
<1>. QED  BY <1>1 DEF HandleNotifyInterrupt

\* A notifier with no one on its list stays there or goes to advance the tail.
LEMMA LeftToNotifier ==
    ASSUME NEW b \in Backends, Types, Moves(b), pc[b] = "signal", targets[b] = {},
           ~signalled[b], listenChannels[b] = {}
    PROVE  \/ pc'[b] = "advance"
           \/ /\ pc'[b] = "signal" /\ targets'[b] = {} /\ ~signalled'[b]
              /\ listenChannels'[b] = {}
<1>. pc \in [Backends -> Labels]
    BY DEF Types, PlaceTypes
<1>1. SignalsSent(b) \/ HandleNotifyInterrupt(b)
    BY DEF Moves, Step, StartCommit, CommitError, SendError, Exit, ReadBegin,
       ReadEntry, ReadStops, ReadUpdate, AdvanceTail, ListenPreCommit, LockQueue, AddEntry,
       QueueFullError, RecordCommit, ReleaseLocks, AtCommitAction, AtCommitEnd, AtAbort,
       RecordAbort, CompletedNotifies, SendSignal, ProcessIncomingNotify, Restart
<1>2. CASE SignalsSent(b)
    BY <1>2 DEF SignalsSent, NobodyElse, Call, Goto
<1>3. CASE HandleNotifyInterrupt(b)
    BY <1>3 DEF HandleNotifyInterrupt
<1>. QED  BY <1>1, <1>2, <1>3

\* A notifier's list changes by its own steps and by exits.
LEMMA TargetsOfOthers ==
    ASSUME NEW b \in Backends, NEW c \in Backends, c # b, Types, Moves(b)
    PROVE  targets'[c] \subseteq targets[c]
<1>1. targets \in [Backends -> SUBSET Backends]
    BY DEF Types, FlagTypes
<1>2. CASE CompletedNotifies(b) \/ \E d \in Backends : SendSignal(b, d)
    BY <1>1, <1>2 DEF CompletedNotifies, SendSignal
<1>3. CASE Restart(b)
    BY <1>1, <1>3 DEF Restart
<1>4. CASE ~ (CompletedNotifies(b) \/ Restart(b) \/ \E d \in Backends : SendSignal(b, d))
    BY <1>4 DEF Moves, Step, StartCommit, CommitError, SendError, Exit, ReadBegin,
       ReadEntry, ReadStops, ReadUpdate, AdvanceTail, ListenPreCommit, LockQueue, AddEntry,
       QueueFullError, RecordCommit, ReleaseLocks, AtCommitAction, AtCommitEnd, AtAbort,
       RecordAbort, SignalsSent, HandleNotifyInterrupt, ProcessIncomingNotify, signals
<1>. QED  BY <1>2, <1>3, <1>4

LEMMA TailLeftToStep ==
    ASSUME NEW b \in Backends, NEW c \in Backends, Types, RegisteredInv, Moves(b),
           TailLeftTo(c), Lags'
    PROVE  pc'[c] = "advance" \/ TailLeftTo(c)'
<1>1. /\ pc \in [Backends -> Labels] /\ targets \in [Backends -> SUBSET Backends]
      /\ signalled \in [Backends -> BOOLEAN]
    BY DEF Types, PlaceTypes, FlagTypes
<1>2. ASSUME NEW d \in Backends PROVE ~registered'[d]
    <2>1. listenChannels[b] = {}
        BY DEF TailLeftTo, RegisteredInv, RegisteredOf
    <2>2. ~ListenPreCommit(b)
        BY <2>1, LagEnds
    <2>3. CASE d # b
        BY <2>3, OthersStay DEF TailLeftTo
    <2>4. CASE d = b
        BY <2>2, <2>4, PlaceChanges DEF TailLeftTo
    <2>. QED  BY <2>3, <2>4
<1>3. CASE hasSent[c]
    <2>1. CASE hasSent'[c]
        BY <1>2, <2>1 DEF TailLeftTo
    <2>2. CASE CompletedNotifies(b) /\ c = b
        <3>1. Behind(b) = {} /\ listenChannels[b] = {}
            BY DEF TailLeftTo, Behind, RegisteredInv, RegisteredOf
        <3>2. /\ pc'[b] = "signal" /\ targets'[b] = {} /\ ~signalled'[b]
              /\ listenChannels' = listenChannels
            BY <1>1, <1>3, <2>2, <3>1 DEF CompletedNotifies, Goto
        <3>. QED  BY <1>2, <2>2, <3>1, <3>2 DEF TailLeftTo
    <2>. QED  BY <1>3, <2>1, <2>2, SentUntilCompleted
<1>4. CASE /\ pc[c] = "signal" /\ targets[c] = {} /\ ~signalled[c]
           /\ listenChannels[c] = {}
    <2>1. CASE c = b
        BY <1>2, <1>4, <2>1, LeftToNotifier DEF TailLeftTo
    <2>2. CASE c # b
        <3>1. /\ pc'[c] = pc[c] /\ signalled'[c] = signalled[c]
              /\ listenChannels'[c] = listenChannels[c] /\ targets'[c] \subseteq targets[c]
            BY <2>2, OthersStay, TargetsOfOthers
        <3>. QED  BY <1>2, <1>4, <3>1 DEF TailLeftTo
    <2>. QED  BY <2>1, <2>2
<1>. QED  BY <1>3, <1>4 DEF TailLeftTo

LEMMA TailStep ==
    ASSUME NEW b \in Backends, Types, WriterInv, PositionInv, RegisteredInv, TailInv, Moves(b)
    PROVE  TailInv'
<1>. SUFFICES ASSUME Lags'
              PROVE  \E c \in Backends : pc'[c] = "advance" \/ TailLeftTo(c)'
    BY DEF TailInv
<1>1. CASE pc'[b] = "advance" \/ TailLeftTo(b)'
    BY <1>1
<1>2. CASE Lags
    <2>1. PICK c \in Backends : pc[c] = "advance" \/ TailLeftTo(c)
        BY <1>2 DEF TailInv
    <2>2. ASSUME pc[c] = "advance" PROVE pc'[c] = "advance"
        <3>1. CASE c = b
            BY <2>2, <3>1, StaysToAdvance, LagEnds
        <3>2. CASE c # b
            BY <2>2, <3>2, OthersStay
        <3>. QED  BY <3>1, <3>2
    <2>3. ASSUME TailLeftTo(c) PROVE pc'[c] = "advance" \/ TailLeftTo(c)'
        BY <2>3, TailLeftToStep
    <2>. QED  BY <2>1, <2>2, <2>3
<1>. QED  BY <1>1, <1>2, LagBegins

\* If the tail lags behind the slowest listener, somebody is on its way to
\* advance it: no backend reads, leaves, or notifies nobody, and forgets it.
THEOREM TailWillBeAdvanced ==
    Spec /\ []ListensFirst => []TailNotForgotten
<1>1. Init => TailInv
    BY DEF Init, TailInv, Lags, QueueHead
<1>2. Types /\ WriterInv /\ PositionInv /\ RegisteredInv /\ TailInv /\ [Next]_vars => TailInv'
    <2>1. TailInv /\ UNCHANGED vars => TailInv'
        BY DEF TailInv, TailLeftTo, Lags, QueueHead, vars, queue, listeners, flags, signals
    <2>. QED  BY <2>1, NextMoves, TailStep
<1>3. Types /\ TailInv => TailNotForgotten
    BY LagIs DEF TailInv, TailLeftTo, TailNotForgotten
<1>. QED  BY <1>1, <1>2, <1>3, SpecTypes, SpecWriter, SpecPosition, SpecRegistered,
             PTL DEF Spec
=============================================================================
