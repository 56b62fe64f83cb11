-------------------------- MODULE ConditionVariable --------------------------
(***************************************************************************)
(* DistributedConditionVariableAlgorithm and DistributedConditionVariable. *)
(* A waiter announces itself with COND_WAIT, and every other process keeps *)
(* a table of the waiters it has heard of.  notifyOne sends COND_NOTIFY to *)
(* the first of its own table.  A waiter whose predicate holds broadcasts  *)
(* COND_WAIT_END and waits until every process has confirmed that it has   *)
(* erased the condition variable from its table.                           *)
(*                                                                         *)
(* The predicate of wait() is the caller's: here it may hold or not each   *)
(* time it is evaluated.                                                   *)
(***************************************************************************)
EXTENDS RicartAgrawala

CONSTANTS
  CondName,      \* names of the registered condition variables
  MutexOf,       \* MutexOf[c]: the mutex of the monitor that c belongs to
  NotifyOutside, \* TRUE: clients also notify without holding the mutex
  MaxCalls,      \* bound: MaxCalls[p] calls of wait and notify in process p
  MaxSpurious    \* bound: no spurious wake-up of p after MaxSpurious[p] locks

ASSUME CondAssumption ==
  /\ CondName \subseteq Message
  /\ MutexOf \in [CondName -> MutexName]
  /\ NotifyOutside \in BOOLEAN
  /\ MaxCalls \in [Process -> Nat] /\ MaxSpurious \in [Process -> Nat]

VARIABLES
  waiting,               \* waiting[p][c]: where p's main thread is in wait(c)
  receivedConfirmations, \* receivedConfirmations[p]: local of p's wait call
  conditionalWaits,      \* conditionalWaits[p][c]: the waiters p knows of
  recipients,            \* recipients[p][c]: picked by a notify of p, not yet sent to
  calls                  \* calls[p]: calls of wait and notify so far

condVars == <<waiting, receivedConfirmations, conditionalWaits, recipients, calls>>
allCondVars == <<vars, condVars>>

(* out: not in wait.  inside: COND_WAIT sent; evaluating the predicate with  *)
(* the mutex held, giving it back, blocked without it, or taking it again.   *)
(* woken: no longer blocked, the mutex still to be taken.  confirming:       *)
(* COND_WAIT_END sent, confirmations missing.                                *)
WaitStage == {"out", "inside", "woken", "confirming"}

(* What the table keeps of a COND_WAIT packet. *)
Waiter == [lamportTime : Nat, source : Process]

CondTypeOK ==
  /\ TypeOK
  /\ waiting \in [Process -> [CondName -> WaitStage]]
  /\ receivedConfirmations \in [Process -> SUBSET Process]
  /\ conditionalWaits \in [Process -> [CondName -> SUBSET Waiter]]
  /\ recipients \in [Process -> [CondName -> SUBSET Process]]
  /\ calls \in [Process -> Nat]

CondInit ==
  /\ Init
  /\ waiting = [p \in Process |-> [c \in CondName |-> "out"]]
  /\ receivedConfirmations = [p \in Process |-> {}]
  /\ conditionalWaits = [p \in Process |-> [c \in CondName |-> {}]]
  /\ recipients = [p \in Process |-> [c \in CondName |-> {}]]
  /\ calls = [p \in Process |-> 0]

-----------------------------------------------------------------------------
(* Main thread: wait. *)

(* p's main thread is in no call of the library. *)
Free(p) ==
  /\ Idle(p)
  /\ \A c \in CondName : waiting[p][c] = "out" /\ recipients[p][c] = {}

Call(p) ==
  /\ Free(p)
  /\ calls[p] < MaxCalls[p]
  /\ calls' = [calls EXCEPT ![p] = @ + 1]

SetWaiting(p, c, stage) == waiting' = [waiting EXCEPT ![p][c] = stage]

HoldsMutexOf(p, c) == phase[p][MutexOf[c]] = "held"

(* wait(): it throws unless the mutex is owned.  Notifications are subscribed *)
(* to before COND_WAIT is sent.                                               *)
Wait(p, c) ==
  /\ Call(p)
  /\ HoldsMutexOf(p, c)
  /\ Send(p, OtherProcesses(p), "COND_WAIT", c)
  /\ SetWaiting(p, c, "inside")
  /\ UNCHANGED <<recv, mutexVars, receivedConfirmations, conditionalWaits, recipients>>

(* The predicate does not hold: condition_variable_any takes its own lock    *)
(* and unlocks the mutex.                                                    *)
Block(p, c) ==
  /\ waiting[p][c] = "inside"
  /\ acquires[p] < MaxAcquires[p]
  /\ Unlock(p, MutexOf[c])
  /\ UNCHANGED condVars

Blocked(p, c) == waiting[p][c] = "inside" /\ phase[p][MutexOf[c]] = "free"

(* A blocked std::condition_variable may wake unasked. *)
WakeSpuriously(p, c) ==
  /\ acquires[p] <= MaxSpurious[p]
  /\ Blocked(p, c)
  /\ SetWaiting(p, c, "woken")
  /\ UNCHANGED <<vars, receivedConfirmations, conditionalWaits, recipients, calls>>

(* condition_variable_any locks the mutex again, and the predicate is next. *)
Relock(p, c) ==
  /\ waiting[p][c] = "woken"
  /\ Subscribe(p, MutexOf[c])
  /\ SetWaiting(p, c, "inside")
  /\ UNCHANGED <<receivedConfirmations, conditionalWaits, recipients, calls>>

(* The predicate holds: subscribe to the confirmations, send COND_WAIT_END. *)
EndWait(p, c) ==
  /\ waiting[p][c] = "inside"
  /\ HoldsMutexOf(p, c)
  /\ Send(p, OtherProcesses(p), "COND_WAIT_END", c)
  /\ SetWaiting(p, c, "confirming")
  /\ UNCHANGED <<recv, mutexVars, receivedConfirmations, conditionalWaits, recipients, calls>>

(* A fault to check against: one confirmation too few is enough. *)
OneConfirmationShort(p) ==
  Cardinality(receivedConfirmations[p]) >= NumberOfProcesses - 2

(* A fault to check against: one's own confirmation, which nobody sends. *)
OneConfirmationMore(p) ==
  Cardinality(receivedConfirmations[p]) = NumberOfProcesses

AreConfirmationsComplete(p) ==
  Cardinality(receivedConfirmations[p]) = NumberOfProcesses - 1

(* Everybody has confirmed: both subscriptions are dropped, wait() returns. *)
Confirmed(p, c) ==
  /\ waiting[p][c] = "confirming"
  /\ AreConfirmationsComplete(p)
  /\ receivedConfirmations' = [receivedConfirmations EXCEPT ![p] = {}]
  /\ SetWaiting(p, c, "out")
  /\ UNCHANGED <<vars, conditionalWaits, recipients, calls>>

-----------------------------------------------------------------------------
(* Main thread: notify. *)

(* A fault to check against: clients notify whenever they like. *)
MayNotifyAnywhere(p, c) == TRUE

(* Where the clients call notify: in an entry, or also after it. *)
MayNotify(p, c) == HoldsMutexOf(p, c) \/ NotifyOutside

(* The waiters that compare lowest. *)
First(ws) == {w \in ws : \A v \in ws : w.lamportTime <= v.lamportTime}

(* A fault to check against: the notified waiter is taken off the table. *)
PopOne(p, c) ==
  /\ Call(p)
  /\ MayNotify(p, c)
  /\ \E w \in First(conditionalWaits[p][c]) :
       /\ recipients' = [recipients EXCEPT ![p][c] = {w.source}]
       /\ conditionalWaits' = [conditionalWaits EXCEPT ![p][c] = @ \ {w}]
  /\ UNCHANGED <<vars, waiting, receivedConfirmations>>

(* notifyOne(): the first of the table, which it stays on.  With an empty    *)
(* table it returns without an effect.                                       *)
NotifyOne(p, c) ==
  /\ Call(p)
  /\ MayNotify(p, c)
  /\ \E w \in First(conditionalWaits[p][c]) :
       recipients' = [recipients EXCEPT ![p][c] = {w.source}]
  /\ UNCHANGED <<vars, waiting, receivedConfirmations, conditionalWaits>>

(* notifyAll(): the same with everybody on the table. *)
NotifyAll(p, c) ==
  /\ Call(p)
  /\ MayNotify(p, c)
  /\ conditionalWaits[p][c] # {}
  /\ recipients' = [recipients EXCEPT ![p][c] = {w.source : w \in conditionalWaits[p][c]}]
  /\ UNCHANGED <<vars, waiting, receivedConfirmations, conditionalWaits>>

(* notifyAll() with nobody on the table: it tests whether the table has an   *)
(* entry for any condition variable, and may send to nobody at all.          *)
NotifyNobody(p, c) ==
  /\ Call(p)
  /\ MayNotify(p, c)
  /\ conditionalWaits[p][c] = {}
  /\ Send(p, {}, "COND_NOTIFY", c)
  /\ UNCHANGED <<recv, mutexVars, waiting, receivedConfirmations, conditionalWaits, recipients>>

(* Both send after they have given conditionalWaitsMutex back. *)
SendNotify(p, c) ==
  /\ recipients[p][c] # {}
  /\ Send(p, recipients[p][c], "COND_NOTIFY", c)
  /\ recipients' = [recipients EXCEPT ![p][c] = {}]
  /\ UNCHANGED <<recv, mutexVars, waiting, receivedConfirmations, conditionalWaits, calls>>

-----------------------------------------------------------------------------
(* Receiving thread. *)

(* COND_WAIT: std::set<Packet> compares times alone, so it takes a waiter    *)
(* only if no other has its time.                                            *)
ListWaiter(p) ==
  /\ InHand(p, "COND_WAIT")
  /\ \E packet \in Received(p) :
       LET c == packet.message
           w == [lamportTime |-> packet.lamportTime, source |-> packet.source]
           taken == \E v \in conditionalWaits[p][c] : v.lamportTime = w.lamportTime
       IN  conditionalWaits' =
             [conditionalWaits EXCEPT ![p][c] = IF taken THEN @ ELSE @ \cup {w}]
  /\ Dispatched(p)
  /\ UNCHANGED <<clock, chan, mutexVars, waiting, receivedConfirmations, recipients, calls>>

(* A fault to check against: confirmed, but not erased. *)
ConfirmOnly(p) ==
  /\ InHand(p, "COND_WAIT_END")
  /\ Send(p, {recv[p].source}, "COND_WAIT_END_CONFIRM", recv[p].message)
  /\ Dispatched(p)
  /\ UNCHANGED <<mutexVars, condVars>>

(* COND_WAIT_END: erase the entry of the condition variable, confirm. *)
EraseWaiters(p) ==
  /\ InHand(p, "COND_WAIT_END")
  /\ LET c == recv[p].message
     IN  /\ conditionalWaits' = [conditionalWaits EXCEPT ![p][c] = {}]
         /\ Send(p, {recv[p].source}, "COND_WAIT_END_CONFIRM", c)
  /\ Dispatched(p)
  /\ UNCHANGED <<mutexVars, waiting, receivedConfirmations, recipients, calls>>

(* COND_NOTIFY, subscribed to during wait(): wakes the main thread if it is  *)
(* blocked.  While it gives the mutex back it holds the lock that            *)
(* condition_variable_any::notify_one needs.                                 *)
Notified(p) ==
  /\ InHand(p, "COND_NOTIFY")
  /\ LET c == recv[p].message
     IN  /\ waiting[p][c] # "out"
         /\ phase[p][MutexOf[c]] # "releasing"
         /\ waiting' = IF Blocked(p, c) THEN [waiting EXCEPT ![p][c] = "woken"] ELSE waiting
  /\ Dispatched(p)
  /\ UNCHANGED <<clock, chan, mutexVars, receivedConfirmations, conditionalWaits, recipients, calls>>

(* A fault to check against: confirmations told apart by their times. *)
AddConfirmationByTime(p) ==
  /\ InHand(p, "COND_WAIT_END_CONFIRM")
  /\ waiting[p][recv[p].message] = "confirming"
  /\ receivedConfirmations' = [receivedConfirmations EXCEPT ![p] = @ \cup {recv[p].lamportTime}]
  /\ Dispatched(p)
  /\ UNCHANGED <<clock, chan, mutexVars, waiting, conditionalWaits, recipients, calls>>

(* COND_WAIT_END_CONFIRM, subscribed to from COND_WAIT_END on. *)
AddConfirmation(p) ==
  /\ InHand(p, "COND_WAIT_END_CONFIRM")
  /\ waiting[p][recv[p].message] = "confirming"
  /\ receivedConfirmations' = [receivedConfirmations EXCEPT ![p] = @ \cup {recv[p].source}]
  /\ Dispatched(p)
  /\ UNCHANGED <<clock, chan, mutexVars, waiting, conditionalWaits, recipients, calls>>

-----------------------------------------------------------------------------
(* The calls a main thread makes once it is in wait or notify. *)
InCondCall(p, c) ==
  \/ Relock(p, c)
  \/ EndWait(p, c)
  \/ Confirmed(p, c)
  \/ SendNotify(p, c)

CondCallback(p) == ListWaiter(p) \/ EraseWaiters(p) \/ Notified(p) \/ AddConfirmation(p)

CondReceiver(p) == (Receiver(p) /\ UNCHANGED condVars) \/ CondCallback(p)

CondNext ==
  \/ \E p \in Process, m \in MutexName :
       \/ Free(p) /\ (Subscribe(p, m) \/ Unlock(p, m)) /\ UNCHANGED condVars
       \/ InCall(p, m) /\ UNCHANGED condVars
  \/ \E p \in Process, c \in CondName :
       \/ Wait(p, c)
       \/ Block(p, c)
       \/ WakeSpuriously(p, c)
       \/ NotifyOne(p, c)
       \/ NotifyAll(p, c)
       \/ NotifyNobody(p, c)
       \/ InCondCall(p, c)
  \/ \E p \in Process : CondReceiver(p)

CondSpec == CondInit /\ [][CondNext]_allCondVars

(* As in FairSpec, and a predicate that keeps holding is found to hold. *)
CondFairness ==
  \A p \in Process :
    /\ WF_allCondVars(CondReceiver(p))
    /\ \A m \in MutexName :
         /\ WF_allCondVars(InCall(p, m) /\ UNCHANGED condVars)
         /\ WF_allCondVars(Free(p) /\ Unlock(p, m) /\ UNCHANGED condVars)
    /\ \A c \in CondName : WF_allCondVars(InCondCall(p, c))

CondFairSpec == CondSpec /\ CondFairness

-----------------------------------------------------------------------------
(* A COND_NOTIFY finds the subscription of a wait; otherwise threadFunction  *)
(* throws and the process dies.  Holds for clients that notify while they    *)
(* hold the mutex.                                                           *)
NotificationExpected ==
  \A p \in Process : InHand(p, "COND_NOTIFY") => waiting[p][recv[p].message] # "out"

(* No notification is wasted on a process that is about to block: between    *)
(* the evaluation of the predicate and the moment it blocks, which           *)
(* condition_variable_any does not make atomic for notify_one, none arrives. *)
NoNotifyWhileHeld ==
  \A p \in Process : InHand(p, "COND_NOTIFY") => ~HoldsMutexOf(p, recv[p].message)

(* Every COND_WAIT_END_CONFIRM belongs to the wait in progress and is new to *)
(* it: none is left over for a later wait to count.                          *)
ConfirmationExpected ==
  \A p \in Process :
    InHand(p, "COND_WAIT_END_CONFIRM") =>
      /\ waiting[p][recv[p].message] = "confirming"
      /\ recv[p].source \notin receivedConfirmations[p]

(* Nobody stays on a table after its wait: this is what the confirmations    *)
(* are for.                                                                  *)
TablesCurrent ==
  \A p \in Process : \A c \in CondName :
    \A w \in conditionalWaits[p][c] : waiting[w.source][c] # "out"

(* A COND_WAIT is never dropped because another waiter has its time.         *)
EveryWaiterTaken ==
  \A p \in Process :
    InHand(p, "COND_WAIT") =>
      \A w \in conditionalWaits[p][recv[p].message] : w.lamportTime # recv[p].lamportTime

(* While a process is blocked in wait(), a notifyOne of whoever holds the    *)
(* mutex has somebody to notify, as std::condition_variable promises.  Holds *)
(* for two processes.                                                        *)
NotifyFindsWaiter ==
  \A p, q \in Process : \A c \in CondName :
    p # q /\ Blocked(p, c) /\ HoldsMutexOf(q, c) => conditionalWaits[q][c] # {}

(* Once its predicate holds, wait() returns: all the others confirm, also    *)
(* those that are blocked, releasing or about to lock.                       *)
WaitReturns ==
  \A p \in Process : \A c \in CondName : waiting[p][c] = "confirming" ~> waiting[p][c] = "out"

NotificationSent(p, c) ==
  \E q \in Process : \E i \in 1 .. Len(chan[q][p]) :
    chan[q][p][i].messageType = "COND_NOTIFY" /\ chan[q][p][i].message = c

(* A blocked process that has been sent a notification takes the mutex again *)
(* and evaluates its predicate.                                              *)
NotifiedTestsAgain ==
  \A p \in Process : \A c \in CondName :
    Blocked(p, c) /\ NotificationSent(p, c) ~> waiting[p][c] = "inside" /\ HoldsMutexOf(p, c)
=============================================================================
