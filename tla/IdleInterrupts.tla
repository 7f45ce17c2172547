--------------------------- MODULE IdleInterrupts ---------------------------
(***************************************************************************)
(* How one backend reacts to the signals of sinvaladt.c and async.c while  *)
(* it waits for its client: Enable-, Disable-, HandleCatchupInterrupt and  *)
(* ProcessCatchupEvent of storage/ipc/sinval.c, their four counterparts in *)
(* commands/async.c, procsignal_sigusr1_handler, and the parts of tcop/    *)
(* postgres.c around a client read.                                        *)
(*                                                                         *)
(* There are two kinds of interrupt, which are treated alike but for a few *)
(* points: for each a flag that tells the signal handler to do the work at *)
(* once, enabled, and a flag for it to leave a note in, noted.  The        *)
(* process is a stack of frames.  A signal handler may run between any two *)
(* accesses to a flag; it is a frame on top of what it interrupts.  An     *)
(* error discards all frames but the main loop, which cleans up.           *)
(*                                                                         *)
(* No name is one of SInval, so that a module of proofs can extend both.   *)
(***************************************************************************)
EXTENDS Integers, SequencesExt

CONSTANTS
  MaxCancels, \* bound: query cancel signals
  MaxErrors   \* bound: errors

ASSUME IdleInterruptsAssumption == {MaxCancels, MaxErrors} \subseteq Nat

Kinds == {"catchup", "notify"}
Other(k) == IF k = "catchup" THEN "notify" ELSE "catchup"

VARIABLES
  enabled,    \* [Kinds -> catchup- / notifyInterruptEnabled]
  noted,      \* [Kinds -> catchup- / notifyInterruptOccurred]
  signalFlag, \* [Kinds -> pss_signalFlags]
  sigusr1,    \* SIGUSR1 is sent and not delivered
  inBlock,    \* IsTransactionOrTransactionBlock, between commands
  listening,  \* listenChannels # NIL
  stack,      \* the stack, the main loop first
  cancels, errors \* counters

flags == <<enabled, noted>>
signals == <<signalFlag, sigusr1>>
session == <<inBlock, listening>>
bounds == <<cancels, errors>>
idleVars == <<flags, signals, session, stack, bounds>>

\* A frame: the kind of interrupt it is about, where it is, and in a frame of
\* ProcessCatchupEvent or ProcessIncomingNotify, whether to enable the other
\* kind again.
Frame(k, at) == [kind |-> k, at |-> at, reenable |-> FALSE]

Main(at) == Frame("catchup", at)

IdleInit ==
  /\ enabled = [k \in Kinds |-> FALSE]
  /\ noted = [k \in Kinds |-> FALSE]
  /\ signalFlag = [k \in Kinds |-> FALSE] /\ sigusr1 = FALSE
  /\ inBlock = FALSE /\ listening = FALSE
  /\ stack = <<Main("busy")>>
  /\ cancels = 0 /\ errors = 0

TopFrame == stack[Len(stack)]
At(label) == TopFrame.at = label

\* The stack with its top frame at another place, and with a frame on top.
Moved(label) == [stack EXCEPT ![Len(stack)].at = label]
GoOn(label) == stack' = Moved(label)
Call(next, frame) == stack' = Append(Moved(next), frame)
Leave == stack' = Front(stack)

Set(flag, k, value) == flag' = [flag EXCEPT ![k] = value]

-----------------------------------------------------------------------------
(***************************************************************************)
(* Signals                                                                 *)
(***************************************************************************)

\* SendProcSignal in another backend.
OtherSendsProcSignal(k) ==
  /\ Set(signalFlag, k, TRUE)
  /\ sigusr1' = TRUE
  /\ UNCHANGED <<flags, session, stack, bounds>>

InHandler == \E i \in 1..Len(stack) :
  stack[i].at \in {"sigusr1", "sigusr1Notify", "end"}

\* The kernel runs procsignal_sigusr1_handler, during which it blocks SIGUSR1;
\* an error that leaves the handler unblocks it.
DeliverSIGUSR1 ==
  /\ sigusr1
  /\ ~InHandler
  /\ sigusr1' = FALSE
  /\ stack' = Append(stack, Frame("catchup", "sigusr1"))
  /\ UNCHANGED <<flags, signalFlag, session, bounds>>

\* CheckProcSignal, and the handler of the kind; first catchup, then notify.
CheckProcSignal ==
  LET k == IF At("sigusr1") THEN "catchup" ELSE "notify"
      next == IF k = "catchup" THEN "sigusr1Notify" ELSE "end"
  IN
  /\ TopFrame.at \in {"sigusr1", "sigusr1Notify"}
  /\ Set(signalFlag, k, FALSE)
  /\ IF signalFlag[k] THEN Call(next, Frame(k, "handle"))
     ELSE IF next = "end" THEN Leave ELSE GoOn(next)
  /\ UNCHANGED <<flags, sigusr1, session, bounds>>

HandlerEnd ==
  /\ At("end")
  /\ Leave
  /\ UNCHANGED <<flags, signals, session, bounds>>

\* HandleCatchupInterrupt, HandleNotifyInterrupt: with the flag up do the work
\* here, else leave a note.
Handle ==
  /\ At("handle")
  /\ GoOn(IF enabled[TopFrame.kind] THEN "handleEnabled" ELSE "handleDisabled")
  /\ UNCHANGED <<flags, signals, session, bounds>>

HandleDisabled ==
  /\ At("handleDisabled")
  /\ Set(noted, TopFrame.kind, TRUE)
  /\ Leave
  /\ UNCHANGED <<enabled, signals, session, bounds>>

\* Disable any recursive signal, do at least one iteration.
HandleEnabled ==
  \/ /\ At("handleEnabled")
     /\ Set(enabled, TopFrame.kind, FALSE)
     /\ GoOn("handleNote")
     /\ UNCHANGED <<noted, signals, session, bounds>>
  \/ /\ At("handleNote")
     /\ Set(noted, TopFrame.kind, TRUE)
     /\ GoOn("enable")
     /\ UNCHANGED <<enabled, signals, session, bounds>>

-----------------------------------------------------------------------------
(***************************************************************************)
(* The loop of EnableCatchupInterrupt, EnableNotifyInterrupt and the two   *)
(* handlers                                                                *)
(***************************************************************************)

\* Up before the test, so that no interrupt between the two goes unserviced.
LoopEnable ==
  /\ At("enable")
  /\ Set(enabled, TopFrame.kind, TRUE)
  /\ GoOn("test")
  /\ UNCHANGED <<noted, signals, session, bounds>>

\* Mutant: the flag stays up during the work.
WorkAtOnce == "testAgain"

\* Where the loop goes on when there is work.
BeforeWork == "disable"

LoopTest ==
  /\ At("test")
  /\ IF noted[TopFrame.kind] THEN GoOn(BeforeWork) ELSE Leave
  /\ UNCHANGED <<flags, signals, session, bounds>>

LoopDisable ==
  /\ At("disable")
  /\ Set(enabled, TopFrame.kind, FALSE)
  /\ GoOn("testAgain")
  /\ UNCHANGED <<noted, signals, session, bounds>>

\* An interrupt before the flag was down may have done the work.
LoopTestAgain ==
  /\ At("testAgain")
  /\ IF noted[TopFrame.kind]
     THEN Call("enable", Frame(TopFrame.kind, "process"))
     ELSE GoOn("enable")
  /\ UNCHANGED <<flags, signals, session, bounds>>

-----------------------------------------------------------------------------
(***************************************************************************)
(* ProcessCatchupEvent and ProcessIncomingNotify                           *)
(***************************************************************************)

\* ProcessIncomingNotify resets its own flag first, and returns if there is
\* nothing to listen to.
Process ==
  LET k == TopFrame.kind IN
  /\ At("process")
  /\ IF k = "notify"
     THEN /\ Set(noted, k, FALSE)
          /\ IF listening THEN GoOn("save") ELSE Leave
     ELSE GoOn("save") /\ UNCHANGED noted
  /\ UNCHANGED <<enabled, signals, session, bounds>>

\* Disable...Interrupt of the other kind: save the flag ...
SaveOther ==
  /\ At("save")
  /\ stack' = Append(Front(stack),
                      [kind |-> TopFrame.kind, at |-> "disableOther",
                       reenable |-> enabled[Other(TopFrame.kind)]])
  /\ UNCHANGED <<flags, signals, session, bounds>>

\* ... and take it down.
DisableOther ==
  /\ At("disableOther")
  /\ Set(enabled, Other(TopFrame.kind), FALSE)
  /\ GoOn("work")
  /\ UNCHANGED <<noted, signals, session, bounds>>

\* A transaction, or in a catchup event inside a transaction block just
\* AcceptInvalidationMessages, which a transaction start calls as well: it
\* clears the flag of catchup interrupts.
Work ==
  /\ At("work")
  /\ Set(noted, "catchup", FALSE)
  /\ GoOn("reenable")
  /\ UNCHANGED <<enabled, signals, session, bounds>>

\* Mutant: the other kind is enabled in any case.
ReenableAlways(saved) == TRUE

\* Mutant: the other kind stays disabled.
ReenableNever(saved) == FALSE

\* Enable the other kind again if it was enabled.
Reenable(saved) == saved

\* EnableNotifyInterrupt does nothing inside a transaction block.
EnableWorks(k) == k = "notify" => ~inBlock

EndProcess ==
  LET k == Other(TopFrame.kind) IN
  /\ At("reenable")
  /\ IF Reenable(TopFrame.reenable) /\ EnableWorks(k)
     THEN stack' = Append(Front(stack), Frame(k, "enable"))
     ELSE Leave
  /\ UNCHANGED <<flags, signals, session, bounds>>

-----------------------------------------------------------------------------
(***************************************************************************)
(* The main loop                                                           *)
(***************************************************************************)

\* The command is done: the session may listen now, and be in a block.
CommandDone(block, listen) ==
  /\ At("busy")
  /\ inBlock' = block
  /\ listening' = listen
  /\ GoOn("prepareNotify")
  /\ UNCHANGED <<flags, signals, bounds>>

\* prepare_for_client_read.
PrepareForClientRead ==
  \/ /\ At("prepareNotify")
     /\ IF EnableWorks("notify")
        THEN Call("prepareCatchup", Frame("notify", "enable"))
        ELSE GoOn("prepareCatchup")
     /\ UNCHANGED <<flags, signals, session, bounds>>
  \/ /\ At("prepareCatchup")
     /\ Call("wait", Frame("catchup", "enable"))
     /\ UNCHANGED <<flags, signals, session, bounds>>

\* The client sends a command: client_read_ended.
ClientSends ==
  /\ At("wait")
  /\ GoOn("ended")
  /\ UNCHANGED <<flags, signals, session, bounds>>

\* DisableNotifyInterrupt, DisableCatchupInterrupt, in client_read_ended, in
\* the handler of a cancel signal, and in the cleanup after an error.
DisableBoth ==
  \/ /\ TopFrame.at \in {"ended", "cancel", "cleanup"}
     /\ Set(enabled, "notify", FALSE)
     /\ GoOn(CASE At("ended")   -> "endedCatchup"
               [] At("cancel")  -> "cancelCatchup"
               [] At("cleanup") -> "cleanupCatchup")
     /\ UNCHANGED <<noted, signals, session, bounds>>
  \/ /\ TopFrame.at \in {"endedCatchup", "cancelCatchup", "cleanupCatchup"}
     /\ Set(enabled, "catchup", FALSE)
     /\ CASE At("endedCatchup")   -> GoOn("busy")
          [] At("cancelCatchup")  -> Leave
          [] At("cleanupCatchup") -> GoOn("abort")
     /\ UNCHANGED <<noted, signals, session, bounds>>

\* StatementCancelHandler, with ImmediateInterruptOK.  ProcessInterrupts then
\* ignores the cancel because the backend is reading a command.
StatementCancelHandler ==
  /\ At("wait")
  /\ cancels < MaxCancels
  /\ cancels' = cancels + 1
  /\ stack' = Append(stack, Main("cancel"))
  /\ UNCHANGED <<flags, signals, session, errors>>

\* An error in a command, or in the work of an interrupt: siglongjmp.
Error ==
  /\ TopFrame.at \in {"busy", "work"}
  /\ errors < MaxErrors
  /\ errors' = errors + 1
  /\ stack' = <<Main("cleanup")>>
  /\ UNCHANGED <<flags, signals, session, cancels>>

\* AbortCurrentTransaction; a block stays one, in the aborted state.
AbortCurrentTransaction ==
  /\ At("abort")
  /\ GoOn("prepareNotify")
  /\ UNCHANGED <<flags, signals, session, bounds>>

-----------------------------------------------------------------------------
IdleStep ==
  \/ CheckProcSignal \/ HandlerEnd \/ Handle \/ HandleDisabled \/ HandleEnabled
  \/ LoopEnable \/ LoopTest \/ LoopDisable \/ LoopTestAgain
  \/ Process \/ SaveOther \/ DisableOther \/ Work \/ EndProcess
  \/ PrepareForClientRead \/ DisableBoth \/ AbortCurrentTransaction
  \/ \E block, listen \in BOOLEAN : CommandDone(block, listen)

IdleNext ==
  \/ \E k \in Kinds : OtherSendsProcSignal(k)
  \/ DeliverSIGUSR1
  \/ IdleStep
  \/ ClientSends
  \/ StatementCancelHandler
  \/ Error

IdleSpec == IdleInit /\ [][IdleNext]_idleVars

\* The process runs, commands end, and signals are delivered in the end.
IdleFairSpec == IdleSpec /\ WF_idleVars(IdleStep) /\ SF_idleVars(DeliverSIGUSR1)

-----------------------------------------------------------------------------
(***************************************************************************)
(* Properties                                                              *)
(***************************************************************************)

\* Where a frame can be.
Places ==
  {"busy", "prepareNotify", "prepareCatchup", "wait", "ended", "endedCatchup",
   "cleanup", "cleanupCatchup", "abort", "cancel", "cancelCatchup", "sigusr1",
   "sigusr1Notify", "end", "handle", "handleEnabled", "handleDisabled",
   "handleNote", "enable", "test", "disable", "testAgain", "process", "save",
   "disableOther", "work", "reenable"}

\* Every variable keeps its type, and the stack stays short: interrupts do not
\* pile up on each other.
IdleTypeOK ==
  /\ enabled \in [Kinds -> BOOLEAN]
  /\ noted \in [Kinds -> BOOLEAN]
  /\ signalFlag \in [Kinds -> BOOLEAN]
  /\ {sigusr1, inBlock, listening} \subseteq BOOLEAN
  /\ stack \in Seq([kind : Kinds, at : Places, reenable : BOOLEAN])
  /\ stack # <<>>
  /\ Len(stack) <= 6

\* The frames that run a transaction, or use the state of one.
InTransaction ==
  {i \in 1..Len(stack) : stack[i].at \in {"work", "busy", "abort"}}

\* The work of an interrupt never begins on top of a command, of an abort or of
\* the work of another interrupt, whatever the signals interrupt.
OneServiceAtATime == Cardinality(InTransaction) <= 1

Idle == Len(stack) = 1 /\ At("wait")

\* A backend that waits for its client is open to both kinds of interrupt and
\* has left none unserviced; in a transaction block, to catchup interrupts.
\* (A cancel request that the waiting backend ignores spoils this, see
\* StatementCancelHandler.)
NothingUnservicedAtWait ==
  Idle /\ cancels = 0 =>
    \A k \in Kinds : EnableWorks(k) => enabled[k] /\ ~noted[k]

\* While a command runs both kinds of interrupt are noted down only.
NoServiceWhileBusy ==
  stack[1].at = "busy" => \A k \in Kinds : ~enabled[k]

\* At most one piece of work at a time, none at a busy time, and none left to be
\* done by a backend that waits (EnableNotifyInterrupt, EnableCatchupInterrupt
\* and their counterparts).
ServicedOneByOne ==
  IdleTypeOK /\ OneServiceAtATime /\ NothingUnservicedAtWait /\ NoServiceWhileBusy

\* async.c:1756-1757: a backend that goes to wait knows that there is no
\* unserviced interrupt: a flag set in its ProcSignalSlot comes with a SIGUSR1.
NoSignalLeftBehind == Idle => \A k \in Kinds : signalFlag[k] => sigusr1

\* Without errors and cancels a backend that is sent a signal notices, and
\* leaves no note of it for ever, provided that it keeps coming to wait for its
\* client outside a block.
SignalsServiced ==
  [](errors = 0 /\ cancels = 0) /\ []<>(Idle /\ ~inBlock) =>
    \A k \in Kinds : /\ signalFlag[k] ~> ~signalFlag[k]
                     /\ noted[k] ~> ~noted[k]
=============================================================================
