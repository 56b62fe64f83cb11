---------------------------- MODULE LocalProdCons ----------------------------
(***************************************************************************)
(* The producer-consumer programs of src/examples/local: the threads of    *)
(* one process share a std::queue under a std::mutex, and wait on one or   *)
(* two std::condition_variables.  They are the counterparts, with nothing  *)
(* but the standard library, of the programs in ProdCons.  An operation    *)
(* unlocks before it notifies.                                             *)
(***************************************************************************)
EXTENDS Integers, Sequences, FiniteSets

CONSTANTS
  Thread,
  NoThread,    \* the mutex is free
  CondVar,     \* the condition variables
  Item,        \* what is produced: 0 .. MAX_QUEUE_SIZE - 1
  Capacity,    \* MAX_QUEUE_SIZE
  Program,     \* the programs: who produces and consumes, on which variables
  MaxCalls,    \* bound: MaxCalls[t] operations of thread t
  MaxSpurious  \* bound: spurious wake-ups in a run

ASSUME LocalAssumption ==
  /\ NoThread \notin Thread
  /\ Capacity \in Nat \ {0}
  /\ IsFiniteSet(Item) /\ Item = 0 .. Cardinality(Item) - 1 /\ 0 \in Item
  /\ Program \subseteq [producers : SUBSET Thread, consumers : SUBSET Thread,
                        notFull : CondVar, notEmpty : CondVar, notifyAll : BOOLEAN]
  /\ \A g \in Program : g.producers \cap g.consumers = {}
  /\ MaxCalls \in [Thread -> Nat] /\ MaxSpurious \in Nat

VARIABLES
  program,  \* the program that runs
  mutex,    \* who holds the mutex
  queue,
  at,       \* at[t]: where t is in produce() or consume()
  calls,    \* calls[t]: operations that t has completed
  consumed, \* what consume() has returned, in this order
  spurious  \* spurious wake-ups so far

localVars == <<program, mutex, queue, at, calls, consumed, spurious>>

(* asleep: blocked in wait(), mutex given back.  woken: to lock it again.    *)
(* changed: queue changed, mutex held.  unlocked: still to notify.           *)
At == {"outside", "test", "asleep", "woken", "changed", "unlocked"}

LocalTypeOK ==
  /\ program \in Program
  /\ mutex \in Thread \cup {NoThread}
  /\ queue \in Seq(Item) /\ Len(queue) <= Capacity
  /\ at \in [Thread -> At]
  /\ \A t \in Thread : at[t] \in {"test", "changed"} <=> mutex = t
  /\ calls \in [Thread -> Nat]
  /\ consumed \in Seq(Item)
  /\ spurious \in 0 .. MaxSpurious

LocalInit ==
  /\ program \in Program
  /\ mutex = NoThread
  /\ queue = <<>>
  /\ at = [t \in Thread |-> "outside"]
  /\ calls = [t \in Thread |-> 0]
  /\ consumed = <<>>
  /\ spurious = 0

-----------------------------------------------------------------------------
Produces(t) == t \in program.producers
Runs(t) == t \in program.producers \cup program.consumers

WaitsOn(t) == IF Produces(t) THEN program.notFull ELSE program.notEmpty
Notifies(t) == IF Produces(t) THEN program.notEmpty ELSE program.notFull

(* A fault to check against: room for one more. *)
IsFullOneLate == Len(queue) > Capacity

IsFull == Len(queue) >= Capacity
IsEmpty == queue = <<>>
Predicate(t) == IF Produces(t) THEN ~IsFull ELSE ~IsEmpty

(* The value of the loop variable i of a producer. *)
NextItem(t) == calls[t] % Cardinality(Item)

Goto(t, s) == at' = [at EXCEPT ![t] = s]

(* std::unique_lock: at the start of an operation, and when wait() goes on. *)
Lock(t) ==
  /\ \/ at[t] = "woken"
     \/ at[t] = "outside" /\ Runs(t) /\ calls[t] < MaxCalls[t]
  /\ mutex = NoThread
  /\ mutex' = t
  /\ Goto(t, "test")
  /\ UNCHANGED <<program, queue, calls, consumed, spurious>>

(* A std::condition_variable unlocks and blocks in one step. *)
Sleep(t) ==
  /\ at[t] = "test" /\ ~Predicate(t)
  /\ mutex' = NoThread
  /\ Goto(t, "asleep")
  /\ UNCHANGED <<program, queue, calls, consumed, spurious>>

(* A std::condition_variable may wake unasked. *)
WakeSpuriously(t) ==
  /\ at[t] = "asleep" /\ spurious < MaxSpurious
  /\ spurious' = spurious + 1
  /\ Goto(t, "woken")
  /\ UNCHANGED <<program, mutex, queue, calls, consumed>>

(* A fault to check against: a producer that has been woken does not test. *)
OperateOnceWoken(t) ==
  /\ at[t] = "test" /\ (Predicate(t) \/ (Produces(t) /\ spurious > 0))
  /\ IF Produces(t)
     THEN queue' = Append(queue, NextItem(t)) /\ UNCHANGED consumed
     ELSE queue' = Tail(queue) /\ consumed' = Append(consumed, Head(queue))
  /\ Goto(t, "changed")
  /\ UNCHANGED <<program, mutex, calls, spurious>>

(* The predicate holds: put the next item in, or take the oldest one out. *)
Operate(t) ==
  /\ at[t] = "test" /\ Predicate(t)
  /\ IF Produces(t)
     THEN queue' = Append(queue, NextItem(t)) /\ UNCHANGED consumed
     ELSE queue' = Tail(queue) /\ consumed' = Append(consumed, Head(queue))
  /\ Goto(t, "changed")
  /\ UNCHANGED <<program, mutex, calls, spurious>>

(* lock.unlock(). *)
Unlock(t) ==
  /\ at[t] = "changed"
  /\ mutex' = NoThread
  /\ Goto(t, "unlocked")
  /\ UNCHANGED <<program, queue, calls, consumed, spurious>>

(* A fault to check against: whoever waits for the same is notified. *)
WokenOfOwnKind(t) ==
  LET sleepers == {u \in Thread : at[u] = "asleep" /\ WaitsOn(u) = WaitsOn(t)}
  IN  IF sleepers = {} THEN {{}} ELSE {{u} : u \in sleepers}

(* The threads that a notification of t may wake. *)
Woken(t) ==
  LET sleepers == {u \in Thread : at[u] = "asleep" /\ WaitsOn(u) = Notifies(t)}
  IN  IF program.notifyAll \/ sleepers = {} THEN {sleepers} ELSE {{u} : u \in sleepers}

(* notify_one() or notify_all(), and the operation returns. *)
Notify(t) ==
  /\ at[t] = "unlocked"
  /\ \E woken \in Woken(t) :
       at' = [u \in Thread |-> IF u = t THEN "outside" ELSE IF u \in woken THEN "woken" ELSE at[u]]
  /\ calls' = [calls EXCEPT ![t] = @ + 1]
  /\ UNCHANGED <<program, mutex, queue, consumed, spurious>>

ThreadStep(t) == Lock(t) \/ Sleep(t) \/ Operate(t) \/ Unlock(t) \/ Notify(t)

LocalNext == \E t \in Thread : ThreadStep(t) \/ WakeSpuriously(t)

LocalSpec == LocalInit /\ [][LocalNext]_localVars

(* The operating system runs every thread. *)
LocalFairSpec == LocalSpec /\ \A t \in Thread : WF_localVars(ThreadStep(t))

-----------------------------------------------------------------------------
(* Each program is a bounded first-in first-out buffer, whichever threads    *)
(* are woken, by a notification of the other side or by none.                *)
Buffer == INSTANCE BoundedBuffer WITH
  Name <- {1}, content <- <<queue>>, consumed <- <<consumed>>
ImplementsBuffer == Buffer!BufferSpec

(* No wake-up is lost although operations notify after they have unlocked:   *)
(* when a sleeping thread could go on, a notification of its condition       *)
(* variable is still to come.                                                *)
SleepersNotified ==
  \A t \in Thread :
    at[t] = "asleep" /\ Predicate(t) =>
      \E u \in Thread : at[u] \in {"changed", "unlocked"} /\ Notifies(u) = WaitsOn(t)

(* Every operation returns, as long as the other side goes on. *)
CallsReturn == \A t \in Thread : at[t] # "outside" ~> at[t] = "outside"
=============================================================================
