------------------------- MODULE LocalProdConsProofs -------------------------
(***************************************************************************)
(* Theorems about LocalProdCons, for any number of threads and any         *)
(* capacity: the programs are bounded buffers, and no wake-up is lost.     *)
(***************************************************************************)
EXTENDS LocalProdCons, FiniteSetTheorems, TLAPS

(* A thread that is in an operation is one of the program's.                 *)
InProgram == \A t \in Thread : at[t] # "outside" => Runs(t)

(* The inductive invariant. *)
LocalInv == LocalTypeOK /\ InProgram

LEMMA ItemFacts ==
  /\ Cardinality(Item) \in Nat \ {0}
  /\ \A n \in Nat : n % Cardinality(Item) \in Item
  <1>1. Cardinality(Item) \in Nat
    BY LocalAssumption, FS_CardinalityType
  <1>2. Cardinality(Item) # 0
    BY <1>1, LocalAssumption
  <1>3. \A n \in Nat : n % Cardinality(Item) \in 0 .. Cardinality(Item) - 1
    BY <1>1, <1>2
  <1> QED
    BY <1>1, <1>2, <1>3, LocalAssumption

LEMMA LocalInvInit == LocalInit => LocalInv
  BY LocalAssumption DEF LocalInit, LocalInv, LocalTypeOK, InProgram, At

(* The step that changes the queue. *)
LEMMA Operated ==
  ASSUME LocalInv, NEW t \in Thread, Operate(t)
  PROVE  /\ mutex = t /\ at' = [at EXCEPT ![t] = "changed"]
         /\ UNCHANGED <<program, mutex, calls, spurious>>
         /\ \/ /\ Produces(t) /\ NextItem(t) \in Item /\ Len(queue) < Capacity
               /\ queue' = Append(queue, NextItem(t)) /\ consumed' = consumed
            \/ /\ ~Produces(t) /\ queue # <<>>
               /\ queue' = Tail(queue) /\ consumed' = Append(consumed, Head(queue))
         /\ queue' \in Seq(Item) /\ Len(queue') <= Capacity /\ consumed' \in Seq(Item)
  <1>1. /\ mutex = t /\ at' = [at EXCEPT ![t] = "changed"]
        /\ UNCHANGED <<program, mutex, calls, spurious>>
    BY DEF Operate, Goto, LocalInv, LocalTypeOK
  <1>2. queue \in Seq(Item) /\ consumed \in Seq(Item) /\ Len(queue) <= Capacity /\ Capacity \in Nat
    BY LocalAssumption DEF LocalInv, LocalTypeOK
  <1>3. CASE Produces(t)
    <2>1. NextItem(t) \in Item
      BY ItemFacts DEF NextItem, LocalInv, LocalTypeOK
    <2>2. /\ Len(queue) < Capacity
          /\ queue' = Append(queue, NextItem(t)) /\ consumed' = consumed
      BY <1>2, <1>3 DEF Operate, Predicate, IsFull
    <2>3. queue' \in Seq(Item) /\ Len(queue') <= Capacity
      BY <1>2, <2>1, <2>2
    <2> QED
      BY <1>1, <1>2, <1>3, <2>1, <2>2, <2>3
  <1>4. CASE ~Produces(t)
    <2>1. /\ queue # <<>>
          /\ queue' = Tail(queue) /\ consumed' = Append(consumed, Head(queue))
      BY <1>4 DEF Operate, Predicate, IsEmpty
    <2>2. queue' \in Seq(Item) /\ Len(queue') <= Capacity /\ consumed' \in Seq(Item)
      BY <1>2, <2>1
    <2> QED
      BY <1>1, <1>4, <2>1, <2>2
  <1> QED
    BY <1>3, <1>4

(* The notification wakes sleeping threads, and no other thread moves. *)
LEMMA Notified ==
  ASSUME LocalInv, NEW t \in Thread, Notify(t)
  PROVE  /\ at[t] = "unlocked"
         /\ UNCHANGED <<program, mutex, queue, consumed, spurious>>
         /\ calls' = [calls EXCEPT ![t] = @ + 1]
         /\ at' \in [Thread -> At] /\ at'[t] = "outside"
         /\ \E woken \in Woken(t) :
              /\ woken \subseteq {u \in Thread : at[u] = "asleep" /\ WaitsOn(u) = Notifies(t)}
              /\ \A u \in Thread : u # t => at'[u] = IF u \in woken THEN "woken" ELSE at[u]
  <1>1. PICK woken \in Woken(t) :
          at' = [u \in Thread |-> IF u = t THEN "outside" ELSE IF u \in woken THEN "woken" ELSE at[u]]
    BY DEF Notify
  <1>2. woken \subseteq {u \in Thread : at[u] = "asleep" /\ WaitsOn(u) = Notifies(t)}
    BY DEF Woken
  <1>3. at' \in [Thread -> At] /\ at'[t] = "outside"
    BY <1>1 DEF LocalInv, LocalTypeOK, At
  <1> QED
    BY <1>1, <1>2, <1>3 DEF Notify

LEMMA LocalInvStep == LocalInv /\ [LocalNext]_localVars => LocalInv'
  <1> SUFFICES ASSUME LocalInv, [LocalNext]_localVars PROVE LocalInv'
    OBVIOUS
  <1>1. CASE UNCHANGED localVars
    BY <1>1 DEF localVars, LocalInv, LocalTypeOK, InProgram, Runs
  <1>2. ASSUME NEW t \in Thread, ThreadStep(t) \/ WakeSpuriously(t)
        PROVE  LocalInv'
    <2> USE DEF LocalInv, LocalTypeOK, InProgram, Runs, At
    <2>1. CASE Lock(t)
      BY <2>1, LocalAssumption DEF Lock, Goto
    <2>2. CASE Sleep(t)
      BY <2>2, LocalAssumption DEF Sleep, Goto
    <2>3. CASE WakeSpuriously(t)
      BY <2>3, LocalAssumption DEF WakeSpuriously, Goto
    <2>4. CASE Operate(t)
      BY <2>4, Operated
    <2>5. CASE Unlock(t)
      BY <2>5, LocalAssumption DEF Unlock, Goto
    <2>6. CASE Notify(t)
      <3>1. PICK woken \in Woken(t) :
              /\ woken \subseteq {u \in Thread : at[u] = "asleep" /\ WaitsOn(u) = Notifies(t)}
              /\ \A u \in Thread : u # t => at'[u] = IF u \in woken THEN "woken" ELSE at[u]
        BY <2>6, Notified
      <3>2. /\ at[t] = "unlocked" /\ at'[t] = "outside" /\ at' \in [Thread -> At]
            /\ UNCHANGED <<program, mutex, queue, consumed, spurious>>
            /\ calls' = [calls EXCEPT ![t] = @ + 1]
        BY <2>6, Notified
      <3>5. calls' \in [Thread -> Nat]
        BY <3>2
      <3>3. \A u \in Thread : at'[u] \in {"test", "changed"} <=> mutex' = u
        BY <3>1, <3>2
      <3>4. \A u \in Thread : at'[u] # "outside" => at[u] # "outside"
        BY <3>1, <3>2
      <3> QED
        BY <3>2, <3>3, <3>4, <3>5
    <2> QED
      BY <1>2, <2>1, <2>2, <2>3, <2>4, <2>5, <2>6 DEF ThreadStep
  <1> QED
    BY <1>1, <1>2 DEF LocalNext

(* LocalInv holds in every state of every run of every program.              *)
THEOREM LocalInvariant == LocalSpec => []LocalInv
  BY LocalInvInit, LocalInvStep, PTL DEF LocalSpec

(* The mutex is held by the thread that tests or changes the queue and by no *)
(* other one, and the queue is never longer than MAX_QUEUE_SIZE.             *)
THEOREM LocalTypeCorrect == LocalSpec => []LocalTypeOK
  <1>1. LocalInv => LocalTypeOK
    BY DEF LocalInv
  <1> QED
    BY <1>1, LocalInvariant, PTL

-----------------------------------------------------------------------------
(* Wake-ups. *)

(* A program that wakes one sleeper at a time has one thread on each side.   *)
OneOnEachSide ==
  \A g \in Program : g.notifyAll \/
    /\ \A t, u \in g.producers : t = u
    /\ \A t, u \in g.consumers : t = u

(* Whoever still sleeps after a notification did not wait for it. *)
LEMMA AllWoken ==
  ASSUME OneOnEachSide, LocalInv, NEW u \in Thread, Notify(u),
         NEW t \in Thread, at[t] = "asleep", at'[t] = "asleep"
  PROVE  WaitsOn(t) # Notifies(u)
  <1> SUFFICES ASSUME WaitsOn(t) = Notifies(u) PROVE FALSE
    OBVIOUS
  <1> DEFINE sleepers == {v \in Thread : at[v] = "asleep" /\ WaitsOn(v) = Notifies(u)}
  <1>1. t \in sleepers /\ t # u
    BY Notified
  <1>2. PICK woken \in Woken(u) :
          \A v \in Thread : v # u => at'[v] = IF v \in woken THEN "woken" ELSE at[v]
    BY Notified
  <1>3. t \notin woken
    BY <1>1, <1>2
  <1>4. ~program.notifyAll /\ \E v \in sleepers : woken = {v}
    BY <1>1, <1>3 DEF Woken
  <1>5. PICK v \in sleepers : woken = {v}
    BY <1>4
  <1>6. v # t /\ v # u /\ at[u] = "unlocked"
    BY <1>3, <1>5, Notified
  <1>7. Runs(t) /\ Runs(u) /\ Runs(v)
    BY <1>1, <1>5, <1>6 DEF LocalInv, InProgram
  <1>8. program \in Program
    BY DEF LocalInv, LocalTypeOK
  <1> QED
    BY <1>1, <1>4, <1>6, <1>7, <1>8 DEF OneOnEachSide, Runs

(* The notification that a sleeping thread waits for is still to come. *)
StillToCome(t) == \E u \in Thread : at[u] \in {"changed", "unlocked"} /\ Notifies(u) = WaitsOn(t)

LEMMA SleepersStep ==
  ASSUME OneOnEachSide, LocalInv, SleepersNotified, [LocalNext]_localVars
  PROVE  SleepersNotified'
  <1> SUFFICES ASSUME NEW t \in Thread, at'[t] = "asleep", Predicate(t)'
               PROVE  StillToCome(t)'
    BY DEF SleepersNotified, StillToCome
  <1>0. program' = program
    BY DEF LocalNext, ThreadStep, Lock, Sleep, Operate, Unlock, Notify, WakeSpuriously, localVars
  <1>1. \A u : Notifies(u)' = Notifies(u) /\ WaitsOn(u)' = WaitsOn(u) /\ Produces(u)' = Produces(u)
    BY <1>0 DEF Notifies, WaitsOn, Produces
  <1>2. at[t] = "asleep" /\ Predicate(t) => StillToCome(t)
    BY DEF SleepersNotified, StillToCome
  <1>3. ASSUME UNCHANGED queue, at[t] = "asleep",
               \A u \in Thread : at[u] \in {"changed", "unlocked"} =>
                                   at'[u] \in {"changed", "unlocked"}
        PROVE  StillToCome(t)'
    <2>1. Predicate(t)
      BY <1>1, <1>3 DEF Predicate, IsFull, IsEmpty
    <2> QED
      BY <1>1, <1>2, <1>3, <2>1 DEF StillToCome
  <1>4. CASE UNCHANGED localVars
    BY <1>3, <1>4 DEF localVars
  <1>5. ASSUME NEW u \in Thread, ThreadStep(u) \/ WakeSpuriously(u)
        PROVE  StillToCome(t)'
    <2> USE DEF LocalInv, LocalTypeOK, At
    <2>1. CASE Lock(u) \/ WakeSpuriously(u) \/ Unlock(u)
      BY <1>3, <2>1 DEF Lock, WakeSpuriously, Unlock, Goto
    <2>2. CASE Sleep(u)
      <3>1. t # u
        BY <1>1, <2>2 DEF Sleep, Predicate, IsFull, IsEmpty
      <3> QED
        BY <1>3, <2>2, <3>1 DEF Sleep, Goto
    <2>3. CASE Operate(u)
      <3>1. t # u /\ at[t] = "asleep" /\ at'[u] = "changed"
        BY <2>3, Operated
      <3>2. CASE Predicate(t)
        <4>1. \A v \in Thread : at[v] \in {"changed", "unlocked"} =>
                                  at'[v] \in {"changed", "unlocked"}
          BY <2>3, Operated
        <4> QED
          BY <1>1, <1>2, <3>1, <3>2, <4>1 DEF StillToCome
      <3>3. CASE ~Predicate(t)
        <4>1. Produces(u) # Produces(t)
          <5>1. queue \in Seq(Item) /\ Capacity \in Nat
            BY LocalAssumption
          <5>2. CASE Produces(t)
            <6>1. Len(queue) >= Capacity /\ ~(Len(queue') >= Capacity)
              BY <1>1, <3>3, <5>2 DEF Predicate, IsFull
            <6>2. ~Produces(u)
              BY <2>3, <5>1, <6>1, Operated
            <6> QED
              BY <5>2, <6>2
          <5>3. CASE ~Produces(t)
            <6>1. queue = <<>> /\ queue' # <<>>
              BY <1>1, <3>3, <5>3 DEF Predicate, IsEmpty
            <6>2. Produces(u)
              BY <2>3, <6>1, Operated
            <6> QED
              BY <5>3, <6>2
          <5> QED
            BY <5>2, <5>3
        <4>2. Notifies(u) = WaitsOn(t)
          BY <4>1 DEF Notifies, WaitsOn, Produces
        <4> QED
          BY <1>1, <3>1, <4>2 DEF StillToCome
      <3> QED
        BY <3>2, <3>3
    <2>4. CASE Notify(u)
      <3>1. at[t] = "asleep" /\ queue' = queue /\ t # u
        BY <2>4, Notified
      <3>2. Predicate(t)
        BY <1>1, <3>1 DEF Predicate, IsFull, IsEmpty
      <3>3. PICK v \in Thread : at[v] \in {"changed", "unlocked"} /\ Notifies(v) = WaitsOn(t)
        BY <1>2, <3>1, <3>2 DEF StillToCome
      <3>4. v # u
        BY <2>4, <3>1, <3>3, AllWoken
      <3>5. at'[v] = at[v]
        BY <2>4, <3>3, <3>4, Notified
      <3> QED
        BY <1>1, <3>3, <3>5 DEF StillToCome
    <2> QED
      BY <1>5, <2>1, <2>2, <2>3, <2>4 DEF ThreadStep
  <1> QED
    BY <1>4, <1>5 DEF LocalNext

(* A thread does not sleep on while it could go on, unless a notification    *)
(* for it is still to come, although operations notify without the mutex.    *)
(* notify_one() is enough where one thread produces and one consumes.        *)
THEOREM NoWakeUpLost ==
  ASSUME OneOnEachSide
  PROVE  LocalSpec => []SleepersNotified
  <1>1. LocalInit => SleepersNotified
    BY DEF LocalInit, SleepersNotified
  <1> QED
    BY <1>1, LocalInvariant, SleepersStep, PTL DEF LocalSpec

-----------------------------------------------------------------------------
(* The buffer. *)

LEMMA Singleton == \A x : <<x>> = [b \in {1} |-> x]
  OBVIOUS

LEMMA BufferStep ==
  ASSUME LocalInv, [LocalNext]_localVars
  PROVE  [Buffer!BufferNext]_(Buffer!bufferVars)
  <1>1. CASE UNCHANGED <<queue, consumed>>
    BY <1>1 DEF Buffer!bufferVars
  <1>2. ASSUME NEW t \in Thread, Operate(t)
        PROVE  Buffer!BufferNext
    <2>1. CASE Produces(t)
      <3>1. /\ NextItem(t) \in Item /\ Len(queue) < Capacity
            /\ queue' = Append(queue, NextItem(t)) /\ consumed' = consumed
        BY <1>2, <2>1, Operated
      <3>2. <<queue'>> = [<<queue>> EXCEPT ![1] = Append(@, NextItem(t))]
        BY <3>1
      <3>3. Buffer!Put(1)
        BY <3>1, <3>2 DEF Buffer!Put
      <3> QED
        BY <3>3 DEF Buffer!BufferNext
    <2>2. CASE ~Produces(t)
      <3>1. /\ queue # <<>>
            /\ queue' = Tail(queue) /\ consumed' = Append(consumed, Head(queue))
        BY <1>2, <2>2, Operated
      <3>2. /\ <<queue'>> = [<<queue>> EXCEPT ![1] = Tail(@)]
            /\ <<consumed'>> = [<<consumed>> EXCEPT ![1] = Append(@, Head(queue))]
        BY <3>1
      <3>3. Buffer!Get(1)
        BY <3>1, <3>2 DEF Buffer!Get
      <3> QED
        BY <3>3 DEF Buffer!BufferNext
    <2> QED
      BY <2>1, <2>2
  <1> QED
    BY <1>1, <1>2 DEF LocalNext, ThreadStep, Lock, Sleep, Unlock, Notify, WakeSpuriously, localVars

(* The programs of src/examples/local are bounded first-in first-out         *)
(* buffers, with any number of threads: an operation puts one item in or     *)
(* takes the oldest one out, and the queue is never over- or underrun.       *)
THEOREM LocalBuffer == LocalSpec => ImplementsBuffer
  <1>1. LocalInit => Buffer!BufferInit
    BY Singleton DEF LocalInit, Buffer!BufferInit
  <1> QED
    BY <1>1, LocalInvariant, BufferStep, PTL DEF LocalSpec, ImplementsBuffer, Buffer!BufferSpec
=============================================================================
