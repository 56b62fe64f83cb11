------------------------------ MODULE ProdCons ------------------------------
(***************************************************************************)
(* The distributed producer-consumer programs of src/examples/distributed: *)
(* processes of even rank produce, those of odd rank consume, through one  *)
(* or two monitors whose shared variables are a ring buffer (with Boost: a *)
(* std::queue).  An entry locks, waits on a condition variable until the   *)
(* buffer is not full (not empty), changes it, notifies, broadcasts it and *)
(* unlocks.  The constants select the program.                             *)
(*                                                                         *)
(* A State of DistributedMonitor is the string that saveState() returns    *)
(* for the shared variables; entries work on what restoreState() makes of  *)
(* it.                                                                     *)
(***************************************************************************)
EXTENDS DistributedMonitor, ConditionVariable, RingBuffer

CONSTANTS
  MonitorOrder,      \* the monitors in the order in which the main loop uses them
  NotFull,           \* NotFull[m]: what producers wait for and consumers notify
  NotEmpty,          \* NotEmpty[m]: what consumers wait for and producers notify
  NotifyAfterUnlock, \* TRUE: the UnlockFirst program
  MaxEntries         \* bound: MaxEntries[p] entries of process p

ASSUME ProgramAssumption ==
  /\ State = SavedState /\ InitState = Save(EmptyRing)
  /\ Item = 0 .. Cardinality(Item) - 1
  /\ MonitorOrder \in Seq(MutexName) \ {<<>>}
  /\ NotFull \in [MutexName -> CondName] /\ NotEmpty \in [MutexName -> CondName]
  /\ \A m \in MutexName : MutexOf[NotFull[m]] = m /\ MutexOf[NotEmpty[m]] = m
  /\ NotifyAfterUnlock \in BOOLEAN
  /\ MaxEntries \in [Process -> Nat]

VARIABLES
  step,    \* step[p]: the next statement of p's entry
  entries, \* entries[p]: entries that p has completed
  consumed \* consumed[m]: what consume() of monitor m has returned, in all processes

progVars == <<step, entries, consumed>>
allProgVars == <<vars, monitorVars, condVars, progVars>>

Step == {"enter", "wait", "body", "notify", "exit"}

ProgTypeOK ==
  /\ MonitorTypeOK
  /\ CondTypeOK
  /\ step \in [Process -> Step]
  /\ entries \in [Process -> Nat]
  /\ consumed \in [MutexName -> Seq(Item)]

ProgInit ==
  /\ MonitorInit
  /\ CondInit
  /\ step = [p \in Process |-> "enter"]
  /\ entries = [p \in Process |-> 0]
  /\ consumed = [m \in MutexName |-> <<>>]

-----------------------------------------------------------------------------
IsProducer(p) == p % 2 = 0

(* The monitor of p's current entry, and the condition variables in it. *)
Current(p) == MonitorOrder[(entries[p] % Len(MonitorOrder)) + 1]
WaitsOn(p) == IF IsProducer(p) THEN NotFull[Current(p)] ELSE NotEmpty[Current(p)]
Notifies(p) == IF IsProducer(p) THEN NotEmpty[Current(p)] ELSE NotFull[Current(p)]

(* The variables of the monitor of p's current entry, in p. *)
Variables(p) == Restore(shared[p][Current(p)])

(* The predicate of p's wait. *)
Predicate(p) == IF IsProducer(p) THEN ~IsFull(Variables(p)) ELSE ~IsEmpty(Variables(p))

(* The value of the loop variable i of a producer. *)
NextItem(p) == (entries[p] \div Len(MonitorOrder)) % Cardinality(Item)

(* What an entry may leave, for the constant Effect. *)
Operations ==
  [p \in Process |-> [s \in State |->
     IF IsProducer(p) THEN {Save(Push(Restore(s), i)) : i \in Item} \cap State
     ELSE {Save(Pop(Restore(s)))} \cap State]]

ASSUME EffectAssumption == Effect = Operations

Goto(p, s) == step' = [step EXCEPT ![p] = s]

AtStep(p, s) == Free(p) /\ step[p] = s

(* produce() or consume(): auto sync = synchronized(). *)
EnterEntry(p) ==
  /\ AtStep(p, "enter")
  /\ entries[p] < MaxEntries[p]
  /\ Enter(p, Current(p))
  /\ Goto(p, "wait")
  /\ UNCHANGED <<condVars, entries, consumed>>

(* cv.wait(mutex, predicate) ... *)
StartWait(p) ==
  /\ AtStep(p, "wait")
  /\ Wait(p, WaitsOn(p))
  /\ Goto(p, "body")
  /\ UNCHANGED <<monitorVars, entries, consumed>>

(* A fault to check against: "if" in place of "while". *)
TestOnce(p) ==
  /\ IF Predicate(p) \/ acquires[p] > entries[p] + 1
     THEN EndWait(p, WaitsOn(p))
     ELSE Block(p, WaitsOn(p))
  /\ UNCHANGED <<monitorVars, progVars>>

(* ... the predicate, evaluated with the mutex held. *)
TestPredicate(p) ==
  /\ IF Predicate(p) THEN EndWait(p, WaitsOn(p)) ELSE Block(p, WaitsOn(p))
  /\ UNCHANGED <<monitorVars, progVars>>

(* The next item is put in, or the oldest one taken out. *)
Change(p) ==
  /\ AtStep(p, "body")
  /\ Body(p, Current(p))
  /\ LET m == Current(p)
     IN  IF IsProducer(p)
         THEN /\ shared'[p][m] = Save(Push(Variables(p), NextItem(p)))
              /\ UNCHANGED consumed
         ELSE consumed' = [consumed EXCEPT ![m] = Append(@, Front(Variables(p)))]
  /\ Goto(p, IF NotifyAfterUnlock THEN "exit" ELSE "notify")
  /\ UNCHANGED <<condVars, entries>>

(* A fault to check against: one notifies those that wait for the same. *)
NotifyOwnKind(p) ==
  /\ AtStep(p, "notify")
  /\ \/ NotifyOne(p, WaitsOn(p))
     \/ conditionalWaits[p][WaitsOn(p)] = {} /\ UNCHANGED <<vars, condVars>>
  /\ IF NotifyAfterUnlock
     THEN Goto(p, "enter") /\ entries' = [entries EXCEPT ![p] = @ + 1]
     ELSE Goto(p, "exit") /\ UNCHANGED entries
  /\ UNCHANGED <<monitorVars, consumed>>

(* cv.notify_one(): with an empty table it does nothing. *)
Notify(p) ==
  /\ AtStep(p, "notify")
  /\ \/ NotifyOne(p, Notifies(p))
     \/ conditionalWaits[p][Notifies(p)] = {} /\ UNCHANGED <<vars, condVars>>
  /\ IF NotifyAfterUnlock
     THEN Goto(p, "enter") /\ entries' = [entries EXCEPT ![p] = @ + 1]
     ELSE Goto(p, "exit") /\ UNCHANGED entries
  /\ UNCHANGED <<monitorVars, consumed>>

(* The end of the scope of sync: SYNC ... *)
SyncAtExit(p) ==
  /\ AtStep(p, "exit")
  /\ SendSync(p, Current(p))
  /\ UNCHANGED <<condVars, progVars>>

(* ... and unlock. *)
UnlockAtExit(p) ==
  /\ AtStep(p, "exit")
  /\ Leave(p, Current(p))
  /\ IF NotifyAfterUnlock
     THEN Goto(p, "notify") /\ UNCHANGED entries
     ELSE Goto(p, "enter") /\ entries' = [entries EXCEPT ![p] = @ + 1]
  /\ UNCHANGED <<condVars, consumed>>

(* The library's own steps in the main thread. *)
LibraryCall(p) ==
  /\ \/ \E m \in MutexName : InCall(p, m) /\ UNCHANGED condVars
     \/ \E c \in CondName : Relock(p, c) \/ Confirmed(p, c) \/ SendNotify(p, c)
  /\ UNCHANGED <<monitorVars, progVars>>

(* The wait under wait() returns although nobody has notified. *)
WakeUnasked(p) ==
  /\ \E c \in CondName : WakeSpuriously(p, c)
  /\ UNCHANGED <<monitorVars, progVars>>

MainThread(p) ==
  \/ EnterEntry(p)
  \/ StartWait(p)
  \/ TestPredicate(p)
  \/ Change(p)
  \/ Notify(p)
  \/ SyncAtExit(p)
  \/ UnlockAtExit(p)
  \/ LibraryCall(p)

ReceivingThread(p) ==
  /\ \/ CondReceiver(p) /\ UNCHANGED monitorVars
     \/ RestoreState(p) /\ UNCHANGED condVars
  /\ UNCHANGED progVars

ProgNext == \E p \in Process : MainThread(p) \/ WakeUnasked(p) \/ ReceivingThread(p)

ProgSpec == ProgInit /\ [][ProgNext]_allProgVars

(* The operating system runs both threads of every process.  It may wake one *)
(* of them unasked, but nothing makes it.                                    *)
ProgFairSpec ==
  /\ ProgSpec
  /\ \A p \in Process :
       WF_allProgVars(MainThread(p)) /\ WF_allProgVars(ReceivingThread(p))

-----------------------------------------------------------------------------
(* The program is a set of bounded buffers: what the last entry has written  *)
(* is the buffer, every entry adds one item to its end, never beyond the     *)
(* capacity, or takes one from its front.  Each entry works on a copy of its *)
(* own, and wait() exchanges packets with everybody between the test of the  *)
(* predicate and the change.  Holds for one producer and one consumer.       *)
Buffers == INSTANCE BoundedBuffer WITH
  Name <- MutexName,
  content <- [m \in MutexName |-> Content(Restore(latest[m]))],
  consumed <- consumed
ImplementsBuffers == Buffers!BufferSpec

(* Every entry that is begun ends, as long as the other side goes on: nobody *)
(* sleeps through the notification meant for it.                             *)
EntriesEnd == \A p \in Process : step[p] = "wait" ~> step[p] = "enter"
=============================================================================
