----------------------------- MODULE AsyncQueue -----------------------------
(***************************************************************************)
(* LISTEN / NOTIFY: commands/async.c, with the places of access/transam/   *)
(* xact.c and tcop/postgres.c that call it.                                *)
(*                                                                         *)
(* There is one queue of notifications for all backends.  A transaction    *)
(* that commits appends its notifications before it is marked committed,   *)
(* under a lock that serializes such transactions until they are over.     *)
(* Every listening backend reads the queue at a position of its own and    *)
(* stops at a notification whose transaction is still in progress.  After  *)
(* its transaction a notifier signals the listeners that are behind.  The  *)
(* tail of the queue follows the slowest of them.                          *)
(*                                                                         *)
(* A queue position is the number of entries before it: log is all that    *)
(* was ever queued, and what lies before tail is gone.  AsyncQueueLock     *)
(* protects sections that are single steps here.                           *)
(***************************************************************************)
EXTENDS Integers, SequencesExt

CONSTANTS
  Backends,
  NoBackend,
  Channels,
  Database,      \* [Backends -> the database a backend is connected to]
  QueueSize,     \* entries between tail and head that fill the queue
  Kinds,         \* bound: the commands used, "LISTEN", "UNLISTEN", "UNLISTEN_ALL"
  MaxActions,    \* bound: LISTEN and UNLISTEN commands in a transaction
  MaxNotifies,   \* bound: notifications of a transaction
  MaxCommands,   \* bound: commands of both kinds in a transaction
  MaxXacts,      \* bound: transactions that use this module
  MaxErrors,     \* bound: errors while a transaction commits
  MaxSendErrors, \* bound: errors while a notification is sent to the client
  MaxExits       \* bound: backends that exit

ASSUME AsyncQueueAssumption ==
  /\ NoBackend \notin Backends
  /\ DOMAIN Database = Backends
  /\ Kinds \subseteq {"LISTEN", "UNLISTEN", "UNLISTEN_ALL"}
  /\ {QueueSize, MaxXacts} \subseteq Nat \ {0}
  /\ {MaxActions, MaxNotifies, MaxCommands, MaxErrors,
      MaxSendErrors, MaxExits} \subseteq Nat

Actions == [kind : Kinds \ {"UNLISTEN_ALL"}, channel : Channels]
           \cup [kind : Kinds \cap {"UNLISTEN_ALL"}]

VARIABLES
  log,            \* the queue: QUEUE_HEAD is Len(log)
  tail,           \* QUEUE_TAIL
  registered,     \* [Backends -> the backend is in the listener array]
  pos,            \* [Backends -> QUEUE_BACKEND_POS]
  writer,         \* who holds the lock on "database 0"
  xstate,         \* clog and the proc array: the state of each transaction
  listenChannels, \* [Backends -> set of channels]
  pendingActions, pendingNotifies, \* [Backends -> sequence]
  initialListen,  \* [Backends -> backendHasExecutedInitialListen]
  hasSent,        \* [Backends -> backendHasSentNotifications]
  onExit,         \* [Backends -> unlistenExitRegistered]
  pc,             \* [Backends -> where the backend is]
  ret,            \* [Backends -> where asyncQueueReadAllNotifications,
                  \*   asyncQueueUnregister or asyncQueueAdvanceTail returns]
  xid,            \* [Backends -> its transaction]
  rd,             \* [Backends -> pos, oldpos and head of a read]
  targets,        \* [Backends -> backends SignalBackends is yet to signal]
  signalled,      \* [Backends -> signalled]
  procSignal,     \* [Backends -> a signal is sent and not delivered]
  occurred,       \* [Backends -> notifyInterruptOccurred]
  delivered,      \* history: [Backends -> entries sent to the client]
  effective,      \* history: [Backends -> channels whose LISTEN is committed]
  owed,           \* history: [Backends -> entries the client is to be sent]
  gaveUp,         \* history: [Backends -> the last read ended in an error]
  errors, sendErrors, exits \* counters

queue == <<log, tail>>
listeners == <<registered, pos>>
xact == <<writer, xstate, xid>>
pending == <<pendingActions, pendingNotifies, initialListen>>
flags == <<hasSent, onExit>>
signals == <<targets, signalled, procSignal, occurred>>
client == <<delivered, effective, owed, gaveUp>>
bounds == <<errors, sendErrors, exits>>
vars == <<queue, listeners, xact, listenChannels, pending, flags, pc, ret, rd,
          signals, client, bounds>>

QueueHead == Len(log)
Xids == 1..Len(xstate)
NoXid == 0

NoRead == [pos |-> 0, oldpos |-> 0, head |-> 0]

Init ==
  /\ log = <<>> /\ tail = 0
  /\ registered = [b \in Backends |-> FALSE]
  /\ pos = [b \in Backends |-> 0]
  /\ writer = NoBackend
  /\ xstate = <<>>
  /\ xid = [b \in Backends |-> NoXid]
  /\ listenChannels = [b \in Backends |-> {}]
  /\ pendingActions = [b \in Backends |-> <<>>]
  /\ pendingNotifies = [b \in Backends |-> <<>>]
  /\ initialListen = [b \in Backends |-> FALSE]
  /\ hasSent = [b \in Backends |-> FALSE]
  /\ onExit = [b \in Backends |-> FALSE]
  /\ pc = [b \in Backends |-> "idle"]
  /\ ret = [b \in Backends |-> "idle"]
  /\ rd = [b \in Backends |-> NoRead]
  /\ targets = [b \in Backends |-> {}]
  /\ signalled = [b \in Backends |-> FALSE]
  /\ procSignal = [b \in Backends |-> FALSE]
  /\ occurred = [b \in Backends |-> FALSE]
  /\ delivered = [b \in Backends |-> <<>>]
  /\ effective = [b \in Backends |-> {}]
  /\ owed = [b \in Backends |-> {}]
  /\ gaveUp = [b \in Backends |-> FALSE]
  /\ errors = 0 /\ sendErrors = 0 /\ exits = 0

Goto(b, label) == pc' = [pc EXCEPT ![b] = label]

\* Call one of the subroutines that several places call.
Call(b, label, return) ==
  /\ Goto(b, label)
  /\ ret' = [ret EXCEPT ![b] = return]

\* Channels listened to after an action.
AfterAction(channels, a) ==
  CASE a.kind = "LISTEN"     -> channels \cup {a.channel}
    [] a.kind = "UNLISTEN"   -> channels \ {a.channel}
    [] a.kind = "UNLISTEN_ALL" -> {}

\* The action ends listening on channel c.
Drops(a, c) == a.kind = "UNLISTEN_ALL" \/ (a.kind = "UNLISTEN" /\ a.channel = c)

\* The channels after all actions, in their order: those listened on before, or
\* since one of the actions, that no later one drops.
AfterActions(channels, actions) ==
  {c \in Channels :
     \/ c \in channels /\ \A j \in DOMAIN actions : ~Drops(actions[j], c)
     \/ \E i \in DOMAIN actions :
          /\ actions[i].kind = "LISTEN" /\ actions[i].channel = c
          /\ \A j \in DOMAIN actions : j > i => ~Drops(actions[j], c)}

-----------------------------------------------------------------------------
(***************************************************************************)
(* Reading the queue                                                       *)
(***************************************************************************)

\* asyncQueueReadAllNotifications fetches its position and the head.
ReadBegin(b) ==
  /\ pc[b] = "read"
  /\ IF pos[b] = QueueHead
     THEN Goto(b, ret[b]) /\ UNCHANGED rd
     ELSE /\ rd' = [rd EXCEPT ![b] = [pos |-> pos[b], oldpos |-> pos[b],
                                      head |-> QueueHead]]
          /\ Goto(b, "entries")
  /\ gaveUp' = [gaveUp EXCEPT ![b] = FALSE]
  /\ UNCHANGED <<queue, listeners, xact, listenChannels, pending, flags, ret,
                 signals, delivered, effective, owed, bounds>>

\* Mutant: a notification in progress is skipped.
PassableUnlessSent(b, e) == TRUE

\* A reader stops at a notification of its database whose transaction has
\* neither committed nor aborted.
Passable(b, e) ==
  e.db = Database[b] => xstate[e.xid] # "inProgress"

ToDeliver(b, e) ==
  /\ e.db = Database[b]
  /\ xstate[e.xid] = "committed"
  /\ e.channel \in listenChannels[b]

\* One round of the loop in asyncQueueProcessPageEntries.
ReadEntry(b) ==
  LET e == log[rd[b].pos + 1] IN
  /\ pc[b] = "entries"
  /\ rd[b].pos < rd[b].head
  /\ Passable(b, e)
  /\ rd' = [rd EXCEPT ![b].pos = @ + 1]
  /\ delivered' = [delivered EXCEPT ![b] =
                     IF ToDeliver(b, e) THEN Append(@, rd[b].pos + 1) ELSE @]
  /\ owed' = [owed EXCEPT ![b] = @ \ (IF ToDeliver(b, e) THEN {rd[b].pos + 1}
                                      ELSE {})]
  /\ UNCHANGED <<queue, listeners, xact, listenChannels, pending, flags, pc,
                 ret, signals, effective, gaveUp, bounds>>

\* NotifyMyFrontEnd fails: the notification is passed and not sent again, and
\* the read ends there, in an error that takes the backend to its main loop.
SendError(b) ==
  /\ pc[b] = "entries"
  /\ rd[b].pos < rd[b].head
  /\ ToDeliver(b, log[rd[b].pos + 1])
  /\ sendErrors < MaxSendErrors
  /\ sendErrors' = sendErrors + 1
  /\ rd' = [rd EXCEPT ![b].pos = @ + 1]
  /\ owed' = [owed EXCEPT ![b] = @ \ {rd[b].pos + 1}]
  /\ gaveUp' = [gaveUp EXCEPT ![b] = TRUE]
  /\ Goto(b, "update")
  /\ UNCHANGED <<queue, listeners, xact, listenChannels, pending, flags, ret,
                 signals, delivered, effective, errors, exits>>

ReadStops(b) ==
  /\ pc[b] = "entries"
  /\ rd[b].pos < rd[b].head => ~Passable(b, log[rd[b].pos + 1])
  /\ Goto(b, "update")
  /\ UNCHANGED <<queue, listeners, xact, listenChannels, pending, flags, ret,
                 rd, signals, client, bounds>>

\* Did we read from the tail?
WasLaziest(b) == rd[b].oldpos = tail

\* Mutant: the position is not moved.
PositionBeforeRead(b) == rd[b].oldpos

\* Past everything that was sent or skipped, and past what could not be sent.
PositionAfterRead(b) == rd[b].pos

ReadUpdate(b) ==
  /\ pc[b] = "update"
  /\ pos' = [pos EXCEPT ![b] = PositionAfterRead(b)]
  /\ rd' = [rd EXCEPT ![b] = NoRead]
  /\ Goto(b, IF WasLaziest(b) THEN "advance" ELSE ret[b])
  /\ UNCHANGED <<queue, registered, xact, listenChannels, pending, flags, ret,
                 signals, client, bounds>>

\* Mutant: the tail follows the head.
SlowestPositionIgnored == QueueHead

\* The least position of the listeners, the head if there are none.
SlowestPosition == Min({QueueHead} \cup {pos[b] : b \in {c \in Backends : registered[c]}})

\* asyncQueueAdvanceTail.
AdvanceTail(b) ==
  /\ pc[b] = "advance"
  /\ tail' = SlowestPosition
  /\ Goto(b, ret[b])
  /\ UNCHANGED <<log, listeners, xact, listenChannels, pending, flags, ret,
                 rd, signals, client, bounds>>

\* Mutant: nobody takes care of the tail on leaving.
LeaveTail(b) == FALSE

\* Do we leave the array from the tail?
AdvanceOnLeaving(b) == registered[b] /\ pos[b] = tail

\* asyncQueueUnregister, going on at label next.
Unregister(b, next) ==
  /\ registered' = [registered EXCEPT ![b] = FALSE]
  /\ IF AdvanceOnLeaving(b)
     THEN Call(b, "advance", next)
     ELSE Goto(b, next) /\ UNCHANGED ret

-----------------------------------------------------------------------------
(***************************************************************************)
(* Commit and abort                                                        *)
(***************************************************************************)

\* A transaction with LISTEN, UNLISTEN or NOTIFY commands starts to commit,
\* in PreCommit_Notify.  Equal notifications were collapsed as they came;
\* UNLISTEN is not queued if we cannot possibly be listening.
StartCommit(b, actions, notifies) ==
  /\ pc[b] = "idle"
  /\ Len(xstate) < MaxXacts
  /\ Len(actions) + Len(notifies) \in 1..MaxCommands
  /\ actions # <<>> /\ actions[1].kind # "LISTEN" => onExit[b]
  /\ xid' = [xid EXCEPT ![b] = Len(xstate) + 1]
  /\ xstate' = Append(xstate, "inProgress")
  /\ pendingActions' = [pendingActions EXCEPT ![b] = actions]
  /\ pendingNotifies' = [pendingNotifies EXCEPT ![b] = notifies]
  /\ Goto(b, IF \E i \in DOMAIN actions : actions[i].kind = "LISTEN"
             THEN "preflight" ELSE "lock")
  /\ UNCHANGED <<queue, listeners, writer, listenChannels, initialListen,
                 flags, ret, rd, signals, client, bounds>>

\* Mutant: a new listener starts behind the entry at the tail.
ListenFromNext == tail + 1

\* A new listener starts at the tail.
ListenFrom == tail

\* Exec_ListenPreCommit: the first LISTEN of a backend that does not listen.
ListenPreCommit(b) ==
  /\ pc[b] = "preflight"
  /\ IF listenChannels[b] # {}
     THEN Goto(b, "lock") /\ UNCHANGED <<ret, listeners, initialListen, onExit>>
     ELSE /\ initialListen' = [initialListen EXCEPT ![b] = TRUE]
          /\ onExit' = [onExit EXCEPT ![b] = TRUE]
          /\ registered' = [registered EXCEPT ![b] = TRUE]
          /\ pos' = [pos EXCEPT ![b] = ListenFrom]
          /\ Call(b, "read", "lock")
  /\ UNCHANGED <<queue, xact, listenChannels, pendingActions, pendingNotifies,
                 hasSent, rd, signals, client, bounds>>

\* Mutant: notifying transactions do not wait for each other.
MayWriteAlways(b) == TRUE

\* The lock on "database 0" is free.
MayWrite(b) == writer = NoBackend

\* Take the lock that serializes writers, if there is anything to write.
LockQueue(b) ==
  /\ pc[b] = "lock"
  /\ IF pendingNotifies[b] = <<>>
     THEN Goto(b, "commit") /\ UNCHANGED <<writer, hasSent>>
     ELSE /\ MayWrite(b)
          /\ writer' = b
          /\ hasSent' = [hasSent EXCEPT ![b] = TRUE]
          /\ Goto(b, "add")
  /\ UNCHANGED <<queue, listeners, xstate, xid, listenChannels, pending, onExit,
                 ret, rd, signals, client, bounds>>

QueueIsFull == QueueHead - tail >= QueueSize

\* Queue one notification.  In the code a page of them goes in under one hold
\* of AsyncQueueLock; a page holds one entry here.
AddEntry(b) ==
  /\ pc[b] = "add"
  /\ pendingNotifies[b] # <<>>
  /\ ~QueueIsFull
  /\ log' = Append(log, [xid |-> xid[b], channel |-> Head(pendingNotifies[b]),
                         db |-> Database[b]])
  /\ pendingNotifies' = [pendingNotifies EXCEPT ![b] = Tail(@)]
  /\ Goto(b, IF Len(pendingNotifies[b]) = 1 THEN "commit" ELSE "add")
  /\ UNCHANGED <<tail, listeners, xact, listenChannels, pendingActions,
                 initialListen, flags, ret, rd, signals, client, bounds>>

\* "too many notifications in the NOTIFY queue"
QueueFullError(b) ==
  /\ pc[b] = "add"
  /\ QueueIsFull
  /\ Goto(b, "abort")
  /\ UNCHANGED <<queue, listeners, xact, listenChannels, pending, flags, ret,
                 rd, signals, client, bounds>>

\* Any other error on the way to the commit, a cancel request for one.
CommitError(b) ==
  /\ pc[b] \in {"lock", "add", "commit"}
  /\ errors < MaxErrors
  /\ errors' = errors + 1
  /\ Goto(b, "abort")
  /\ UNCHANGED <<queue, listeners, xact, listenChannels, pending, flags, ret,
                 rd, signals, client, sendErrors, exits>>

\* The entries of transaction x on these channels in the database of b.
Entries(x, channels, b) ==
  {i \in 1..QueueHead : /\ log[i].xid = x
                    /\ log[i].channel \in channels
                    /\ log[i].db = Database[b]}

\* RecordTransactionCommit: marked committed in clog.  From here on whoever
\* listens, the backend itself included, is owed the notifications, except for
\* those the tail has passed while they were uncommitted: a backend that begins
\* to listen then does not see them (ListenerBeforeUncommitted below).
RecordCommit(b) ==
  LET listens == [effective EXCEPT ![b] = AfterActions(@, pendingActions[b])] IN
  /\ pc[b] = "commit"
  /\ xstate' = [xstate EXCEPT ![xid[b]] = "committed"]
  /\ effective' = listens
  /\ owed' = [c \in Backends |->
                {i \in owed[c] : log[i].channel \in listens[c]}
                  \cup {i \in Entries(xid[b], listens[c], c) : i > tail}]
  /\ Goto(b, "release")
  /\ UNCHANGED <<queue, listeners, writer, xid, listenChannels, pending, flags,
                 ret, rd, signals, delivered, gaveUp, bounds>>

WriterWithout(b) == IF writer = b THEN NoBackend ELSE writer

\* The locks of the transaction are released.
ReleaseLocks(b) ==
  /\ pc[b] = "release"
  /\ writer' = WriterWithout(b)
  /\ Goto(b, "atcommit")
  /\ UNCHANGED <<queue, listeners, xstate, xid, listenChannels, pending, flags,
                 ret, rd, signals, client, bounds>>

\* AtCommit_Notify, one pending action: Exec_ListenCommit, Exec_UnlistenCommit
\* or Exec_UnlistenAllCommit.
AtCommitAction(b) ==
  LET a == Head(pendingActions[b])
      channels == AfterAction(listenChannels[b], a)
  IN
  /\ pc[b] = "atcommit"
  /\ pendingActions[b] # <<>>
  /\ listenChannels' = [listenChannels EXCEPT ![b] = channels]
  /\ pendingActions' = [pendingActions EXCEPT ![b] = Tail(@)]
  /\ IF a.kind # "LISTEN" /\ channels = {}
     THEN Unregister(b, "atcommit")
     ELSE UNCHANGED <<registered, pc, ret>>
  /\ UNCHANGED <<queue, pos, xact, pendingNotifies, initialListen, flags, rd,
                 signals, client, bounds>>

AtCommitEnd(b) ==
  /\ pc[b] = "atcommit"
  /\ pendingActions[b] = <<>>
  /\ initialListen' = [initialListen EXCEPT ![b] = FALSE]
  /\ pendingNotifies' = [pendingNotifies EXCEPT ![b] = <<>>]
  /\ xid' = [xid EXCEPT ![b] = NoXid]
  /\ Goto(b, "completed")
  /\ UNCHANGED <<queue, listeners, writer, xstate, listenChannels,
                 pendingActions, flags, ret, rd, signals, client, bounds>>

\* AtAbort_Notify.
AtAbort(b) ==
  /\ pc[b] = "abort"
  /\ initialListen' = [initialListen EXCEPT ![b] = FALSE]
  /\ pendingActions' = [pendingActions EXCEPT ![b] = <<>>]
  /\ pendingNotifies' = [pendingNotifies EXCEPT ![b] = <<>>]
  /\ IF initialListen[b] /\ listenChannels[b] = {}
     THEN Unregister(b, "recordAbort")
     ELSE Goto(b, "recordAbort") /\ UNCHANGED <<registered, ret>>
  /\ UNCHANGED <<queue, pos, xact, listenChannels, flags, rd, signals, client,
                 bounds>>

\* RecordTransactionAbort, and the release of the locks.
RecordAbort(b) ==
  /\ pc[b] = "recordAbort"
  /\ xstate' = [xstate EXCEPT ![xid[b]] = "aborted"]
  /\ xid' = [xid EXCEPT ![b] = NoXid]
  /\ writer' = WriterWithout(b)
  /\ Goto(b, "completed")
  /\ UNCHANGED <<queue, listeners, listenChannels, pending, flags, ret, rd,
                 signals, client, bounds>>

-----------------------------------------------------------------------------
(***************************************************************************)
(* ProcessCompletedNotifies, signals, and the idle backend                 *)
(***************************************************************************)

\* Mutant: only the slowest listeners are signalled.
BehindSlowest(b) == {c \in Backends \ {b} : registered[c] /\ pos[c] = tail
                                            /\ pos[c] # QueueHead}

\* The other listeners that are not up to date.
Behind(b) == {c \in Backends \ {b} : registered[c] /\ pos[c] # QueueHead}

\* SignalBackends makes a list of whom to signal, under AsyncQueueLock.
CompletedNotifies(b) ==
  /\ pc[b] = "completed"
  /\ IF hasSent[b]
     THEN /\ hasSent' = [hasSent EXCEPT ![b] = FALSE]
          /\ targets' = [targets EXCEPT ![b] = Behind(b)]
          /\ signalled' = [signalled EXCEPT ![b] = FALSE]
          /\ Goto(b, "signal")
     ELSE Goto(b, "idle") /\ UNCHANGED <<hasSent, targets, signalled>>
  /\ UNCHANGED <<queue, listeners, xact, listenChannels, pending, onExit, ret,
                 rd, procSignal, occurred, client, bounds>>

\* A process that has exited meanwhile is not in targets any more.
SendSignal(b, c) ==
  /\ pc[b] = "signal"
  /\ c \in targets[b]
  /\ procSignal' = [procSignal EXCEPT ![c] = TRUE]
  /\ targets' = [targets EXCEPT ![b] = @ \ {c}]
  /\ signalled' = [signalled EXCEPT ![b] = TRUE]
  /\ UNCHANGED <<queue, listeners, xact, listenChannels, pending, flags, pc,
                 ret, rd, occurred, client, bounds>>

\* Mutant: nobody takes care of notifications to nobody.
LeftToOthers(b) == FALSE

\* With no listener signalled and not listening, we are the only one left to
\* advance the tail.
NobodyElse(b) == ~signalled[b]

\* After the signals we read the queue ourselves if we listen.
SignalsSent(b) ==
  /\ pc[b] = "signal"
  /\ targets[b] = {}
  /\ signalled' = [signalled EXCEPT ![b] = FALSE]
  /\ IF listenChannels[b] # {} THEN Call(b, "read", "idle")
     ELSE IF NobodyElse(b) THEN Call(b, "advance", "idle")
     ELSE Goto(b, "idle") /\ UNCHANGED ret
  /\ UNCHANGED <<queue, listeners, xact, listenChannels, pending, flags, rd,
                 targets, procSignal, occurred, client, bounds>>

\* HandleNotifyInterrupt: the signal is delivered.  What an idle backend does
\* about it is the next action.
HandleNotifyInterrupt(b) ==
  /\ procSignal[b]
  /\ procSignal' = [procSignal EXCEPT ![b] = FALSE]
  /\ occurred' = [occurred EXCEPT ![b] = TRUE]
  /\ UNCHANGED <<queue, listeners, xact, listenChannels, pending, flags, pc,
                 ret, rd, targets, signalled, client, bounds>>

ProcessIncomingNotify(b) ==
  /\ pc[b] = "idle"
  /\ occurred[b]
  /\ occurred' = [occurred EXCEPT ![b] = FALSE]
  /\ IF listenChannels[b] # {}
     THEN Call(b, "read", "idle")
     ELSE UNCHANGED <<pc, ret>>
  /\ UNCHANGED <<queue, listeners, xact, listenChannels, pending, flags, rd,
                 targets, signalled, procSignal, client, bounds>>

\* Async_UnlistenOnExit.
Exit(b) ==
  /\ pc[b] = "idle"
  /\ exits < MaxExits
  /\ exits' = exits + 1
  /\ effective' = [effective EXCEPT ![b] = {}]
  /\ owed' = [owed EXCEPT ![b] = {}]
  /\ IF onExit[b]
     THEN /\ listenChannels' = [listenChannels EXCEPT ![b] = {}]
          /\ Unregister(b, "exit")
     ELSE Goto(b, "exit") /\ UNCHANGED <<listenChannels, registered, ret>>
  /\ UNCHANGED <<queue, pos, xact, pending, flags, rd, signals, delivered,
                 gaveUp, errors, sendErrors>>

\* The process is gone: signals do not find it any more.  A new one takes the
\* slot.
Restart(b) ==
  /\ pc[b] = "exit"
  /\ onExit' = [onExit EXCEPT ![b] = FALSE]
  /\ targets' = [c \in Backends |-> targets[c] \ {b}]
  /\ procSignal' = [procSignal EXCEPT ![b] = FALSE]
  /\ occurred' = [occurred EXCEPT ![b] = FALSE]
  /\ delivered' = [delivered EXCEPT ![b] = <<>>]
  /\ gaveUp' = [gaveUp EXCEPT ![b] = FALSE]
  /\ Goto(b, "idle")
  /\ UNCHANGED <<queue, listeners, xact, listenChannels, pending, hasSent, ret,
                 rd, signalled, effective, owed, bounds>>

-----------------------------------------------------------------------------
Step(b) ==
  \/ ReadBegin(b) \/ ReadEntry(b) \/ ReadStops(b) \/ ReadUpdate(b)
  \/ AdvanceTail(b)
  \/ ListenPreCommit(b) \/ LockQueue(b) \/ AddEntry(b) \/ QueueFullError(b)
  \/ RecordCommit(b) \/ ReleaseLocks(b) \/ AtCommitAction(b) \/ AtCommitEnd(b)
  \/ AtAbort(b) \/ RecordAbort(b)
  \/ CompletedNotifies(b) \/ SignalsSent(b)
  \/ \E c \in Backends : SendSignal(b, c)
  \/ HandleNotifyInterrupt(b) \/ ProcessIncomingNotify(b)
  \/ Restart(b)

\* The sequences of pending actions and notifications of a transaction.
ActionLists == BoundedSeq(Actions, MaxActions)
NotifyLists ==
  {s \in BoundedSeq(Channels, MaxNotifies) : IsInjective(s)}

Next ==
  \E b \in Backends :
    \/ \E actions \in ActionLists, notifies \in NotifyLists :
         StartCommit(b, actions, notifies)
    \/ CommitError(b)
    \/ SendError(b)
    \/ Exit(b)
    \/ Step(b)

Spec == Init /\ [][Next]_vars

\* A backend that is inside a commit, an abort, a read or ProcessCompleted-
\* Notifies gets on, and an idle one reacts to its signals.  Nothing forces
\* transactions to start, or errors to happen.
FairSpec == Spec /\ \A b \in Backends : WF_vars(Step(b))

-----------------------------------------------------------------------------
(***************************************************************************)
(* Properties                                                              *)
(***************************************************************************)

\* Every variable keeps its type.
TypeOK ==
  /\ log \in Seq([xid : Nat, channel : Channels, db : Range(Database)])
  /\ tail \in 0..QueueHead
  /\ \A v \in {registered, initialListen, hasSent, onExit, signalled,
               procSignal, occurred, gaveUp} : v \in [Backends -> BOOLEAN]
  /\ pos \in [Backends -> 0..QueueHead]
  /\ writer \in Backends \cup {NoBackend}
  /\ xstate \in Seq({"inProgress", "committed", "aborted"})
  /\ xid \in [Backends -> Xids \cup {NoXid}]
  /\ listenChannels \in [Backends -> SUBSET Channels]
  /\ effective \in [Backends -> SUBSET Channels]
  /\ pendingActions \in [Backends -> Seq(Actions)]
  /\ pendingNotifies \in [Backends -> Seq(Channels)]
  /\ targets \in [Backends -> SUBSET Backends]
  /\ owed \in [Backends -> SUBSET (1..QueueHead)]
  /\ delivered \in [Backends -> Seq(1..QueueHead)]

\* A notification that commits when the LISTEN of a backend has committed is
\* still in the queue and ahead of the backend until it is delivered: neither
\* the moment of registration, nor a concurrent read, nor the tail gets past it.
NoMissedNotification ==
  \A b \in Backends : \A i \in owed[b] :
    /\ registered[b]
    /\ tail < i /\ pos[b] < i
    /\ pc[b] = "entries" => rd[b].pos < i

\* A backend delivers notifications in the order of the queue and none twice,
\* also when it unlistens, listens again and starts from the tail.
DeliveredOnceInOrder ==
  \A b \in Backends : \A i \in 1..Len(delivered[b]) - 1 :
    delivered[b][i] < delivered[b][i + 1]

\* There are never uncommitted queue entries ahead of committed ones, so that
\* an uncommitted transaction cannot block delivery (async.c:827).
CommitOrder ==
  \A i, j \in 1..QueueHead :
    i < j /\ xstate[log[j].xid] = "committed"
      => xstate[log[i].xid] # "inProgress"

\* Nothing at or after the position of a registered backend, or of one that is
\* reading without a lock, is behind the tail and may be truncated.
TailBehindReaders ==
  \A b \in Backends :
    /\ registered[b] => tail <= pos[b]
    /\ pc[b] = "entries" => registered[b] /\ tail <= rd[b].pos

\* The queue can be read from its tail to its head by every listener at any
\* moment, and what is committed of it without waiting (asyncQueueReadAll-
\* Notifications).
QueueReadable == TypeOK /\ CommitOrder /\ TailBehindReaders

\* If the tail lags behind the slowest listener, somebody is on its way to
\* advance it: a backend in asyncQueueAdvanceTail, or a notifier that has still
\* to see whom it signals or has found no one.
TailNotForgotten ==
  tail < SlowestPosition =>
    \E b \in Backends :
      \/ pc[b] = "advance"
      \/ hasSent[b]
      \/ /\ pc[b] = "signal" /\ targets[b] = {} /\ ~signalled[b]
         /\ listenChannels[b] = {}

\* A backend that is owed a notification is reading, has a signal, or is to get
\* one: no order of reads, commits and signals leaves it behind.  Only an error
\* while it sends a notification does.
NoForgottenListener ==
  \A b \in Backends : \A i \in owed[b] :
    \/ gaveUp[b]
    \/ procSignal[b] \/ occurred[b]
    \/ pc[b] \in {"read", "signal"}
    \/ pc[b] = "entries" /\ i <= rd[b].head
    \/ \E c \in Backends : hasSent[c] \/ b \in targets[c]

\* async.c:964-967: a new listener starts at the tail, which ensures that it cannot
\* miss any not-yet-committed notification: none is behind a listener.
ListenerBeforeUncommitted ==
  \A b \in Backends : \A i \in 1..QueueHead :
    /\ registered[b]
    /\ log[i].db = Database[b]
    /\ xstate[log[i].xid] = "inProgress"
    => pos[b] < i

\* async.c:42: every backend that listens on a channel is in the array.
ListenersRegistered ==
  \A b \in Backends : listenChannels[b] # {} => registered[b]

\* What a listener is owed it gets in the end, unless an error has made it
\* give up the rest of a read (async.c, ProcessCompletedNotifies,
\* HandleNotifyInterrupt).
NotificationsDelivered ==
  \A b \in Backends, i \in 1..(MaxXacts * MaxNotifies) :
    i \in owed[b] ~> i \notin owed[b] \/ gaveUp[b]

\* The queue does not stay in use once nobody needs it: when everybody has
\* read it the tail reaches the head, unless somebody has given up reading
\* (async.c, asyncQueueAdvanceTail).
QueueDrained ==
  tail # QueueHead ~> tail = QueueHead \/ \E b \in Backends : gaveUp[b]
=============================================================================
