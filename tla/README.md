# Verification of DistributedMonitor

TLA+ models, TLC configurations and TLAPS proofs for the C++ library in `src/`
(paths below are relative to `src/src/` unless they start with `src/`).

## 1. The system

Processes started by `mpirun` share named mutexes, condition variables and
monitors. Nothing is central: every process runs the same code, a *main thread*
that calls the library and a *receiving thread* that runs the callbacks of
incoming packets.

| component | state it keeps | operations | talks to |
|---|---|---|---|
| Communicator (`communication/Mpi*Communicator`) | Lamport clock, `communicationMutex` | send to a set of ranks, blocking receive, receive with timeout | MPI |
| CommunicationManager | subscriptions, receiving thread, `terminate` | listen, subscribe, unsubscribe, send; loop: receive, run the callbacks | Communicator (calls), all algorithms (callbacks) |
| RicartAgrawalaExclusionAlgorithm | `queuedMutexes`, `receivedRequests`, registered names; agreements local to a call | acquireMutex, releaseMutex; callbacks for MUTEX_REQUEST and MUTEX_AGREEMENT | CommunicationManager |
| DistributedMutex | `owned` | lock, unlock, try_lock | the exclusion algorithm |
| DistributedConditionVariable(Algorithm) | `conditionalWaits`; confirmations local to a call | wait, notifyOne, notifyAll; callbacks for COND_WAIT, COND_WAIT_END, COND_NOTIFY, COND_WAIT_END_CONFIRM | CommunicationManager, DistributedMutex |
| DistributedMonitor, DistributedMonitorHelper | the user's shared variables, one copy per process | entry (lock), end of entry (saveState, broadcast SYNC, unlock); callback: restoreState | DistributedMutex, CommunicationManager |
| Distributed examples (`examples/distributed/`) | bounded buffer, loop variable | produce, consume, main loop | monitor, condition variables |
| Local examples (`examples/local/`) | `std::queue`, `std::mutex`, one or two `std::condition_variable`s | produce, consume | the standard library only |
| Logger, utilities | console colours, string helpers | | none of the protocol |

What makes each component correct, and what makes that hard:

* **Communicator**: a later packet carries a larger time than anything its
  sender has seen; packets of one sender arrive in order, packets of different
  senders in any order. Hard: two threads share the clock; the optimized variant
  rewrites the time of a received packet.
* **Exclusion**: one holder at a time, grants in request order, every request
  answered exactly once, every `lock()` returns. Hard: requests cross on the
  network, ties, a release that answers several requests one after the other
  while new ones arrive, subscriptions that live only as long as a call.
* **Monitor**: an entry sees the changes of the previous entry, and nobody
  rewrites the variables under it. Hard: no lock protects the variables from the
  receiving thread; only the order of packets does.
* **Condition variables**: a waiter that should be woken is woken, a notification
  never finds its subscription gone. Hard: the table of waiters is replicated
  and edited by packets of different senders.
* **Examples**: the program is a bounded first-in first-out buffer and does not
  stop. Hard: every process works on a copy, `wait()` exchanges packets with
  everybody between the test of the predicate and the change, wake-ups may be
  spurious.
* **Dispatch**: every packet finds a callback (otherwise the process throws),
  the first one included; no callback outlives the call that it refers to. Hard:
  subscriptions come and go with calls, and packets arrive while a process is
  still constructing its objects.

`PROJECT.json` lists every hazard at its line, with the properties that cover it.

## 2. Modules

| module | models | built on |
|---|---|---|
| `Communicator` | clock, send, receive, one packet in hand of the receiving thread | |
| `Lock` | what the exclusion algorithm promises, without messages | |
| `RicartAgrawala` | acquireMutex, releaseMutex, both callbacks, lock/unlock; its properties | `Communicator`, implements `Lock` |
| `ScopedLock` | try_lock, and `std::scoped_lock` on top of it | `RicartAgrawala` |
| `RicartAgrawalaProofs` | inductive invariant and theorems | `RicartAgrawala`, `ScopedLock` |
| `DistributedMonitor` | monitor entries and SYNC packets | `RicartAgrawala` |
| `DistributedMonitorProofs` | inductive invariants and theorems | `DistributedMonitor`, `RicartAgrawalaProofs` |
| `ConditionVariable` | wait, notify_one, notify_all, the four callbacks, the table of waiters | `RicartAgrawala` |
| `ConditionVariableProofs` | inductive invariants and theorems | `ConditionVariable`, `RicartAgrawalaProofs` |
| `RingBuffer` | the buffer of the programs without Boost, its serialisation | |
| `BoundedBuffer` | what the producer-consumer programs promise | |
| `ProdCons` | the six distributed programs | `DistributedMonitor`, `ConditionVariable`, `RingBuffer`; implements `BoundedBuffer` |
| `ProdConsProofs` | what the ring's operators do; inductive invariant, refinement step and theorems of the programs | `ProdCons`, `DistributedMonitorProofs`, `ConditionVariableProofs` |
| `LocalProdCons` | the three local programs | implements `BoundedBuffer` |
| `LocalProdConsProofs` | inductive invariants, refinement step and theorems | `LocalProdCons` |
| `SyncFormat` | the bytes of a SYNC message; theorems | |
| `Threads` | start-up, acquireMutex, releaseMutex and wait, one step per `std::mutex` | `Communicator`, implements `ConditionVariable` |
| `ThreadsProofs` | inductive invariant, refinement step and theorems | `Threads`, `ConditionVariableProofs` (as an instance) |
| `MpiTransport` | both communicators on MPI messages | implements `Communicator` |
| `MpiTransportProofs` | lemmas about streams of MPI messages; inductive invariant, refinement step and theorems | `MpiTransport` |
| `MC...` | instances of the module of that name for TLC | |

`DistributedMonitor` and `ConditionVariable` extend the same `RicartAgrawala`
and share its variables: `ProdCons` puts both on top of one exclusion algorithm,
one clock and one set of channels, as the programs do. A step that the upper
module does not add to leaves the upper variables alone.

### How state and actions correspond to the code

`Communicator`. `clock[p]` is `currentLamportTime`, `chan[p][q]` what MPI holds
of p's sends to q, `recv[p]` the packet the receiving thread is dispatching. A
`Send` is one step although the code loops over the recipients: the loop holds
`communicationMutex`, the packets are identical, and a receiver cannot tell
whether a copy to another receiver is already out. `Receive` takes the packet
and merges the clocks in one step: nobody else takes from the channel, and until
the merge the packet has no effect. `MpiTransport` has these steps one by one,
and its refinement confirms both simplifications.

`RicartAgrawala`. The main thread's position is `phase[p][m]`.

| step | code |
|---|---|
| `Subscribe` | `lock()`, acquireMutex up to `subscribe` |
| `Queue` | `queue()`: broadcast and record the time, under `queuedMutexesMutex` |
| `Acquired` | the wait ends, `unsubscribe`, `owned = true` |
| `Unlock` | `unlock()` takes the two `std::mutex`es of releaseMutex |
| `AnswerDelayed` | one `sendAgreement` of the loop in releaseMutex |
| `Released` | `clear`, `erase`, give the mutexes back, `owned = false` |
| `ReceiveAny` | `communicator->receive()` in the receiving thread |
| `ProcessRequest` | MUTEX_REQUEST callback: agree or delay |
| `AddAgreement` | MUTEX_AGREEMENT callback |

`receivedRequests` and `receivedAgreements` hold ranks, not packets:
`Packet::operator==` and the hash ignore the time, and type and name are fixed
by the set, so two packets in such a set are equal exactly when their sources
are. The callback of a request waits for `queuedMutexesMutex` while the main
thread is releasing (`MutexStateLocked`). A packet without a subscription
would end the process with an exception; here its callback is just never enabled,
and `NoUnexpectedAgreement`, `NotificationExpected` and `ConfirmationExpected`
say that the situation does not occur.

`DistributedMonitor`. `stage[p][m]` is how far the main thread is in an entry.
`Enter` is the helper's constructor, `SendSync` and `Leave` its destructor,
`Body` the user's code in between, `RestoreState` the SYNC callback. `latest` is
a ghost: what the last entry of the monitor has written, in whatever process.

`ConditionVariable`. `waiting[p][c]` is how far the main thread is in `wait(c)`;
`conditionalWaits` and `receivedConfirmations` are the code's.

| step | code |
|---|---|
| `Wait` | subscribe to COND_NOTIFY, broadcast COND_WAIT |
| `Block` | `realCond.wait`: the predicate is false, the distributed mutex is unlocked |
| `WakeSpuriously`, `Relock` | a spurious return of the underlying wait; `mutex.lock()` of `condition_variable_any` |
| `EndWait` | the predicate is true: subscribe, broadcast COND_WAIT_END |
| `Confirmed` | everybody has confirmed, unsubscribe, return |
| `NotifyOne`, `NotifyAll`, `NotifyNobody` | up to `guard.unlock()`: who is to be notified (`notifyAll` with an empty set still sends, to nobody) |
| `SendNotify` | the send, after the table's mutex has been given back |
| `ListWaiter`, `EraseWaiters`, `Notified`, `AddConfirmation` | the callbacks of COND_WAIT, COND_WAIT_END, COND_NOTIFY, COND_WAIT_END_CONFIRM |

The table keeps time and source of a packet, because `std::set<Packet>` orders by
time alone. In `ConditionVariable` a predicate may hold or not each time it is
evaluated; `ProdCons` evaluates the real one.

`ProdCons`. The constants select the program: `MonitorOrder` (one or two
monitors), `NotFull`/`NotEmpty` (one or two condition variables),
`NotifyAfterUnlock` (UnlockFirst). A state of a monitor is the string
`saveState()` returns: eight chars in the code, `3 + Capacity` here; `Char`
bounds the values of one of them, with one more on each side than they take. The
`std::queue` of the Boost programs is the content of that ring.

`LocalProdCons`. Its variable `program` says which of the three programs runs;
it is chosen at the start, so one run has all three.

`Threads`. `main[p]` and `receiving[p]` are where the two threads are; who holds
which `std::mutex` follows from that. `frame[p]` is the call whose local variables
the callback in progress refers to. acquireMutex and wait end alike (a
subscription, packets to everybody, a set of answers with its mutex and condition
variable) and share these steps.

| step | code |
|---|---|
| `Register`, `Listen` | the first lines of a program: algorithms, monitors and mutexes are constructed, then `listen()` starts the receiving thread; until then MPI keeps the packets |
| `CallAcquire`, `CallWait` | a call with its local variables |
| `Hear`, `Announce` | wait: subscribe to COND_NOTIFY, broadcast COND_WAIT; its predicate holds at once here |
| `Subscribe` | subscribe to the answers |
| `SendRequests`, `Record`; `SendWaitEnd` | `queue()` in its two halves; COND_WAIT_END |
| `LockAnswers`, `Test`, `WakeSpuriously` | lock the mutex of the set, look at it and go on or sleep, wake for no reason |
| `Unhear`, `Unsubscribe`, `Return` | the calls of unsubscribe, with that mutex held; the local variables go |
| `CallRelease`, `Answer`, `Clear`, `Unlocked` | releaseMutex and `owned = false` |
| `ReceivePacket`, `StartCallback`, `EndCallback` | the loop of threadFunction, `subscriptionMutex` held from the second to the third |
| `AnswerRequest`; `ListWaiter`, `EraseWaiters` | the callbacks of MUTEX_REQUEST, COND_WAIT and COND_WAIT_END |
| `LockForAnswer`, `AddAnswer`, `NotifyMain` | the callbacks of MUTEX_AGREEMENT and COND_WAIT_END_CONFIRM: lock the set, insert and unlock, notify |

`Atomic` maps these steps to `ConditionVariable`, and so to `RicartAgrawala` on
which it is built: a request counts as queued when it has been sent, a callback as
done when it has had its effect.

`MpiTransport`. `optimized`, chosen at the start, says which communicator the
system runs on. `sending[p][t]` is what a thread still has to hand to MPI,
`taken[p]` the MPI messages of the packet that the receiving thread is putting
together. `MpiSend` blocks while the channel holds `BufferSize` messages. `Stamp`
is the unlocked read of the clock in updateTimestamp, together with the
`Logger::log` that follows it and needs `communicationMutex` again. `GiveUp` is a
receive with a timeout that returns empty-handed; where the simple communicator
loses a part of a packet by it, `gaveUp` is set and the behaviour ends, since
nothing is promised from then on.

`SyncFormat` and `ScopedLock` have no run of their own: they consist of operators
and of a scenario of `RicartAgrawala`, and what is said of them is proved, of
`ScopedLock` in `RicartAgrawalaProofs`. The first
takes a message for a sequence of chars and computes with the widths of `char`
and `size_t`; the rest of the project takes it for a record of name and state,
which is right for the names that `UnpackPacked` admits.

## 3. What is checked

Definitions named "A fault to check against" are the code with a plausible
mistake in it; no specification uses them. `PROJECT.json` pairs each property
with one that breaks it.

| run | instance | shows |
|---|---|---|
| `optimized_deadlock` | 2 processes on the optimized communicator | **violation**: two contenders delay each other for ever |
| `sync_order` | 3 processes, 1 monitor, 1 entry each | **violation**: SYNC packets of two senders applied in the wrong order |
| `wait_two` | 2 processes, 1 condition variable, 2 acquisitions and 2 calls each | every packet finds its subscription; a notification never falls between predicate and sleep; a blocked process can be notified; `lock()` and `wait()` return; a notified process tests again |
| `lock_wait_three` | 3 processes, 1 mutex, 4 acquisitions and no wait; or two that lock and wait, with spurious wake-ups, and one that answers | mutual exclusion, grants in the order of the requests, no standoff, no agreement without its subscription, no deadlock; confirmations of several processes; tables hold only waiters; no COND_WAIT dropped for equal times |
| `lost_waiter` | 3 processes, two wait | **violation**: COND_WAIT_END of one waiter erases the other |
| `buffer_two` | producer and consumer, 1 monitor, 2 condition variables, capacity 2, 3 and 2 entries, spurious wake-ups | the program is a bounded buffer; every entry ends; the inductive invariant of the composition (`ProgInv`) |
| `buffer_monitors` | producer and consumer, 2 monitors in turn, capacity 1, 2 and 3 entries | two bounded buffers and, below, two locks (refinement of `Lock`); the inductive invariant of exclusion and monitor (`MonitorInv`); each request in one place; an entry starts from the latest state; no restore under an entry |
| `unlock_first` | producer and consumer of the UnlockFirst program | **violation**: a notification reaches a process that has left `wait()` |
| `local_programs` | the three local programs, 2 or 4 threads, 3 operations each, capacity 2, 1 spurious wake-up | bounded buffers; no lost wake-up; every operation returns |
| `threads_three` | 3 processes, two of which acquire, one calls wait, two calls in all | no packet comes before its callback, also at start-up; callbacks never outlive the call they refer to; no lock cycle; calls return; refinement of `ConditionVariable` |
| `mpi_three` | 3 processes, 3 packets, with and without text, both communicators, one buffered MPI message per channel | packets stay whole unless the simple communicator gives up in between; refinement of `Communicator` |
| `blocked_sends` | 2 processes, 2 packets from each main thread, one buffered MPI message per channel | **violation**: both processes block in `MPI_Send` for ever |

**Bounds.** `MaxAcquires[p]` limits the calls of `lock()` and with them the
clocks, `MaxCalls[p]` those of wait and notify, `MaxEntries[p]` the entries of a
program, `MaxWaits[p]` and a further bound on all calls those of `Threads`,
`MaxSends[p]` the packets of a thread, `BufferSize` what MPI holds of
one channel, `Capacity` the buffer (5 in the programs). `MaxSpurious[p]` allows
spurious wake-ups of p up to that many locks; in the local programs it is their
number. Three processes give a holder, a waiter that is delayed and a third whose
packets arrive between those of the other two; every pairwise race (crossing
requests, ties) needs two. A second acquisition is what lets an agreement, a
delayed request or a time of an earlier round meet a later one. A capacity of 2
with 3 items makes the ring full, the producer wait and the indices wrap around.
The capacity of 1 in `buffer_monitors` does not wrap
(putIndex and getIndex stay 0); what wraps is `buffer_two`.
One condition variable and one mutex suffice for `wait_two` and
`lock_wait_three`: callbacks touch the table of one name at a time. `threads_three` needs three processes so that an
answer is not always the last one and two answers can race the same call; a second
call is what a late callback could hit. Ranks break ties, so processes are not symmetric and
no symmetry set is used.

`lock_wait_three` bounds the states by the constraint `Scenario`: a process waits only as long
as rank 2 has not locked, and rank 2 locks only as long as nobody has waited. Each
scenario is a bound of its own (who locks how often, who waits), and one run checks
both; it claims nothing about liveness.

`sync_order` and `lost_waiter` look for a counterexample in the schedules in
which one process at a time is in `lock()` (`InTurnSpec`): these are behaviours of
the full specification, so a violation found there is one of it. No property is
claimed from these runs.

Runs set `CHECK_DEADLOCK FALSE` where the system may stop: programs and threads
that have made all their bounded calls, a process blocked in a `wait()` that
nobody has to end, the standoff of the optimized communicator. In
`lock_wait_three` deadlock is checked, with `Ended` as the intended ends: nothing under
way, no mutex held or asked for, and nobody in a call but those blocked in `wait()`.

**Fairness.** Each thread is weakly fair as a whole: a thread is scheduled, not
an individual statement of it (`InCall` or `MainThread`; `Receiver`,
`ReceivingThread` or `ReceivingLoop`; `ThreadStep`). The operating system gives
this to a runnable thread and MPI to a matched receive. Beyond it:
`CondFairSpec` lets a client that holds a mutex with nothing to do unlock it in
the end, and lets a predicate that keeps holding be found to hold; `ProgFairSpec`
needs nothing more, because the programs decide; `ThreadSpec` lets a critical
section end and assumes only finitely many spurious wake-ups. The last is
necessary: a thread that keeps waking spuriously can keep the callback from
`allAgreementsMutex` for ever. `MpiFairSpec` has the threads of both sides run
and MPI make progress; a receive never has to give up. Calling `lock()`, `wait()` or `notify` is never
forced, so `NotifiedTestsAgain` is about a process that has been sent a
notification, and `wait_two` does not claim that a waiter is ever notified;
`buffer_two` does, for the programs. A spurious wake-up is never forced either: it is
an action of its own (`WakeUnasked` in `ProdCons`, `WakeSpuriously` elsewhere), outside
every fairness condition, so that it cannot stand in for a lost notification.

**Findings.**
1. `MpiOptimizedCommunicator.cpp:93` stores the receiver's clock as the time of
   the received packet. The comparison in canSendAgreement then delays a request
   that was earlier than the own one. With both sides doing so nobody proceeds
   (`optimized_deadlock`). Exclusion itself is not affected (theorem `Exclusion`).
2. `DistributedProdConsSingleCV.cpp:18-21` states that whoever enters a monitor
   has the latest information because channels are FIFO. They are FIFO per
   sender: from three processes on, the SYNC of the entry before last may be
   applied after the SYNC of the last one (`sync_order`). With two processes the
   statement holds (theorem `LatestForTwo`).
3. `DistributedConditionVariableAlgorithm.h:41` erases all waiters of the
   condition variable when one of them ends its wait. With three processes
   another waiter is then forgotten, and `notify_one` finds nobody
   (`lost_waiter`).
4. `DistributedProdConsSingleCVUnlockFirst.cpp` notifies after its entry. The
   waiter that notifyOne has picked may have been woken by an earlier
   notification and have left `wait()`: the packet finds no subscription and
   the receiving thread throws (`unlock_first`). The local programs do the same
   with standard condition variables, where it is harmless (`local_programs`).
5. `DistributedProdConsTwoMonitors.cpp:13` presents two monitors in one program
   "without interfering with each other". `send()` holds `communicationMutex` while
   `MPI_Send` blocks (`MpiSimpleCommunicator.cpp:16`), and a receive cannot end
   without that mutex (`:45`). Two processes, each in an entry of another monitor,
   that send each other COND_WAIT and COND_WAIT_END with no more than one MPI message
   buffered per channel, block each other for ever (`blocked_sends`). An MPI that
   buffers small messages, as they usually do, hides it.

The receive with a timeout is promised nothing by `ImplementsCommunicator` once
the simple communicator has given up with a header in hand or on its way; without
that exception the property fails. No program calls it.

## 4. What is proved

For every value of the constants, in particular every number of processes.

| theorem | statement |
|---|---|
| `RicartAgrawalaProofs!TypeCorrect` | `Spec => []TypeOK` |
| `Invariant` | `Spec => []IInv` |
| `Exclusion` | `Spec => []MutualExclusion` |
| `Order` | `Spec => []HolderRequestedFirst` |
| `AgreementsExpected` | `Spec => []NoUnexpectedAgreement` |
| `OneAnswer` | `Spec => []RequestInOnePlace` |
| `NoStandoff` | `~Optimized` implies `Spec => []NoMutualDelay` |
| `Implements` | `Spec => ImplementsLock` |
| `EmbraceForEver` | two processes in `std::scoped_lock` that each hold the mutex the other is in try_lock of stay so for ever |
| `DistributedMonitorProofs!MonitorInvariant` | `MonitorSpec => []MonitorInv` |
| `MonitorTypeCorrect` | `MonitorSpec => []MonitorTypeOK` |
| `MonitorExclusion` | `MonitorSpec => []MutualExclusion` |
| `RestoreOutsideEntry` | `MonitorSpec => []NoRestoreDuringEntry` |
| `LatestForTwo` | `NumberOfProcesses = 2` implies `MonitorSpec => []LatestOnEntry` |
| `ConditionVariableProofs!CondInvariant` | `CondSpec => []CondInv` |
| `CondTypeCorrect` | `CondSpec => []CondTypeOK` |
| `CondExclusion` | `CondSpec => []MutualExclusion` |
| `CondOrder` | `CondSpec => []HolderRequestedFirst` |
| `CondAgreementsExpected` | `CondSpec => []NoUnexpectedAgreement` |
| `CondNoStandoff` | `~Optimized` implies `CondSpec => []NoMutualDelay` |
| `Tables` | `CondSpec => []TablesCurrent` |
| `Confirmations` | `CondSpec => []ConfirmationExpected` |
| `WaitersTaken` | `CondSpec => []EveryWaiterTaken` |
| `NotifyInvariant` | `~NotifyOutside` implies `CondSpec => [](CondInv /\ NotifyInv)` |
| `Notifications` | `~NotifyOutside` implies `CondSpec => []NotificationExpected` |
| `NoNotificationLost` | `~NotifyOutside` implies `CondSpec => []NoNotifyWhileHeld` |
| `FindsWaiter` | `NumberOfProcesses = 2` implies `CondSpec => []NotifyFindsWaiter` |
| `ThreadsProofs!ThreadInvariant` | `ThreadSpec => []ThreadInv` |
| `ThreadTypeCorrect` | `ThreadSpec => []ThreadTypeOK` |
| `FrameInPlace` | `ThreadSpec => []CallbackHasFrame` |
| `NoPacketUnwanted` | `ThreadSpec => []CallbackFound` |
| `LocksInOrder` | `ThreadSpec => []NoLockCycle` |
| `Implements` | `ThreadSpec => ImplementsConditionVariable` |
| `ThreadExclusion` | no two processes of `ThreadSpec` are between the return of `lock()` and the call of `unlock()` of one mutex |
| `LocalProdConsProofs!LocalTypeCorrect` | `LocalSpec => []LocalTypeOK` |
| `NoWakeUpLost` | `OneOnEachSide` implies `LocalSpec => []SleepersNotified` |
| `LocalBuffer` | `LocalSpec => ImplementsBuffer` |
| `ProdConsProofs!RestoreSaved` | `Restore(Save(r)) = r` |
| `PushAppends`, `PopTakesFirst` | on a ring that is not full (empty), produce (consume) acts on `Content` as on a queue and leaves a ring |
| `ProgInvariant` | `ProgSpec => []ProgInv` |
| `ProgTypeCorrect` | `ProgSpec => []ProgTypeOK` |
| `ProgRestoreOutsideEntry` | `ProgSpec => []NoRestoreDuringEntry` |
| `ProgRequests` | `ProgSpec => []RequestInOnePlace` |
| `RingsInOrder` | `ProgSpec => []RingInv`: every copy of the variables is a ring |
| `ChangedAsTested` | `ProgSpec => [][TestedChange]_allProgVars`: variables change where the mutex is held and the predicate is true |
| `ProgNotifications` | `~NotifyOutside` implies `ProgSpec => []NotificationExpected` |
| `ProgLatestForTwo` | `NumberOfProcesses = 2` implies `ProgSpec => []LatestOnEntry` |
| `ProgImplementsBuffers` | `NumberOfProcesses = 2` implies `ProgSpec => ImplementsBuffers` |
| `MpiTransportProofs!MpiInvariant` | `MpiSpec => []MpiInv` |
| `MpiTypeCorrect` | `MpiSpec => []MpiTypeOK`: header and text are never taken for each other |
| `MpiImplements` | `MpiSpec => ImplementsCommunicator` |
| `SyncFormat!UnpackPacked` | a SYNC message is read back as the name and state it was made of, for names of up to 255 chars, or 127 where `char` is signed |
| `LongNameLost` | where `char` is signed, a longer name that the assertion of DistributedMonitor admits is not found in its own message, unless the state is empty |

The assumptions are those the modules name: at least one process, mutex names
and SYNC contents are messages, `NoPacket` is not a packet, `NoSend` is not what a
send() has left to do, the capacity is positive and 0 is an item, a local program's
producers and consumers are different threads, and the entries of the distributed
programs are produce and consume on a ring (`EffectAssumption`). All but `NoStandoff` hold on both
communicators. Some theorems need more, and runs show why: `~NotifyOutside`
(clients notify inside their entries) fails for the UnlockFirst program only, and
`unlock_first` shows what then happens; `NumberOfProcesses = 2` is needed by
`LatestForTwo`, and so by `ProgLatestForTwo` and `ProgImplementsBuffers`
(`sync_order`), and by `FindsWaiter` (`lost_waiter`). `OneOnEachSide` is discussed
below.

**Exclusion** is not inductive: it depends on packets that are still on the way.
`IInv` adds, for every ordered pair of processes and every mutex, where the
outstanding request is (`RequestInOnePlace`), that a process in a call has its
request's time in `queuedMutexes` (`Queued`), and what times are known
(`Timely`): a packet is not later than its sender's clock; once q has answered
p, q's clock has passed p's time, so any later request of q orders after p's;
and if q answered while it was itself queued, its own request orders after p's.
When p holds the mutex every q has been counted (`AllAgreed`, from the
cardinality of the set of agreements), so every other request in the system
orders after p's, and two holders would each precede the other. `DelayInv`, for
the simple communicator only, says that a delayed request orders after the
delayer's. Each action has its lemma (`...Step`); facts about appending to and
taking from a channel are stated once and reused.

**The monitor.** That the receiving thread stays away from the variables during
an entry rests on the order of packets alone. `SyncBeforeAgreement` says it for
every pair: in q's channel to p every SYNC of m is in front of every agreement to
m, and as long as a SYNC is under way or in hand, p has not counted q's agreement
and does not hold m. `MonitorInv` joins it to `IInv`; a `RestoreState` that ran
in an entry of p would have its SYNC in hand while p holds m. For two processes
`CatchesUp` adds that the last SYNC under way carries `latest`, or, if there is
none, that p's variables already are `latest`; together with
`SyncBeforeAgreement` an entry of p finds them so. With three processes
`CatchesUp` fails: the channel of one sender says nothing of the other's.

**The condition variables.** Every conjunct of `CondInv` beyond `IInv` is about
one pair of processes and one condition variable. `Announced`: p's COND_WAIT is
on its way to q, or p is on q's table, only while p is in `wait()` and q has not
confirmed its end, and COND_WAIT is in front of COND_WAIT_END in the channel.
`ConfirmedOnce`: from the COND_WAIT_END on, q's confirmation is in exactly one
place. `TablesCurrent` is not inductive because it does not know what is under
way: a table is right after `wait()` because the last confirmation comes after the
table was edited. `SentHolding` is the same argument as `SyncBeforeAgreement`: a
packet sent with the mutex held is dispatched before the sender's next agreement
is counted, hence before the receiver holds the mutex. For COND_WAIT it is part
of `CondInv`; for COND_NOTIFY it is `NotifyInv`, which adds that a process that
has been picked is in `wait()` and has yet to take the mutex back. Whoever
notifies without the mutex breaks it, so it needs `~NotifyOutside`.
`EveryWaiterTaken` rests on times (`TakenInv`): two announcements of the same
condition variable are made by holders of its mutex, and the second holder has
merged the first one's clock (`PassedOn`), so their times differ. On the optimized
communicator it is the receiver's own clock that makes them differ.
`FindsWaiter` adds `KnownInv`: with two processes nobody else's COND_WAIT_END can
erase a waiter. The packets of a mutex, of a SYNC and of a condition variable do
not touch each other's variables; `OtherStep` and `PacketStep` of the lower
modules say so once, and show that `IInv` survives any packet of another kind.

**The threads.** `ThreadInv` has a local part, which relates the position of each
of the two threads to the packet in hand, the subscription and the local
variables of the call, and the invariants of `ConditionVariable` with the
refinement mapping substituted. The local part alone is not inductive: that the
callback of an answer runs only in the call that asked for it
(`CallbackHasFrame`) is because at most one answer of each process is under way
(`CondInv`), so nobody can be counted again once all are. Conversely, a
step implements `ConditionVariable` only where the local part holds. So both are
proved together, one action at a time: the local invariant and the step that it
maps to, or the stutter (`NextMapped`). The theorems about `ConditionVariable`
then hold of the threads; `ThreadExclusion` is the one that users of the library
rely on, stated on the threads' own variables.

**The distributed programs.** A step of a program is a step of the monitor with
the condition variables unchanged, a step of the condition variables with the
monitor unchanged, or one of both: `Block` gives the mutex up and `Relock` takes
it back in the middle of an entry (`ProgParts`). The packets of one are packets of
another kind to the other. `MonitorInv` and `CondInv` therefore survive together
(`BothInv`), although neither specification contains the other's steps. `ProgInv`
adds what only the program knows. `WaitEntry`: a process is in `wait(c)` only in
an entry whose kind waits on c, after the constructor and before the change, so
an entry that has saved or sent its state cannot go back to sleep. `OpenEntry`: an
entry holds its mutex except where it is queued, or asleep. `RingInv`: every copy of the
variables in a process, and every state in a SYNC wherever it is, is the `Save` of
a ring whose indices belong together, and while an entry has yet to change its
copy after `wait()` the predicate holds. That last conjunct is where the three
components meet: the predicate was true before COND_WAIT_END and its
confirmations were exchanged, and stays so because no SYNC is dispatched under
an entry (`NoRestoreDuringEntry`). From it follow that no ring overflows or runs
empty, for any number of processes and of older copies. For two processes
`CatchesUp` carries over, since `wait()` changes no variable, and the copy that
an entry changes is the `latest` one; `PushAppends` and `PopTakesFirst` then make
a `Put` or a `Get` of that step and everything else is a stutter.

**The local programs.** The refinement takes one step per operation, under the
mutex. `SleepersNotified` is inductive with `LocalTypeOK` and the fact that only
the program's threads are in operations: what makes the predicate of a sleeper
true is an operation of the other side, whose notification is then still to come.
With `notify_one` it may go to another sleeper. `OneOnEachSide` excludes
that: the program that uses `notify_one` (TwoCV) has one producer and one
consumer, the two others use `notify_all`. `LocalBuffer` needs no such assumption.

**The byte layout.** Both theorems rest on one lemma that says where length, name
and state are in a message (`Packed`) and on what a char makes of a length
(`KeptLength`, `NegativeLength`). With a signed `char` a length of 128 to 255 is
read as a huge `size_t`, so `substr` returns the whole rest of the message.
The monitor's assertion allows these names; the names in the repository are short.

**scoped_lock.** README.md:84 of the library offers DistributedMutex to
`std::scoped_lock`, which avoids deadlock by a try_lock that fails when somebody
else has the mutex. Here it fails only when its own process has it, and otherwise
waits (`TryLockWaits`). A process in that call unlocks nothing (`TryLockStep`),
and by `MutualExclusion` neither of the two gets the other's mutex.

**The transport.** `MpiInv` is about the stream of MPI messages from one process to
another: what the receiver has taken for its packet, what MPI carries, what the
sender's threads have yet to hand over. In every stream a text follows each header
that announces one and stands nowhere else (`Framed`). This needs
`communicationMutex`: only one thread of a process is in send() (`OneSends`), so a
stream grows by one whole packet at a time, in `BeginSend`, and handing over or
taking a message moves it within its stream (`MpiSendStep`, `TakeStep`). A receiving
thread without a packet therefore finds a header and no text (`FirstTaken`), whoever
it is from; one that awaits a text finds it first in the channel of the header's
sender (`AwaitedText`). For the refinement the packets of a stream are counted by
their first messages; a complete packet that is appended is one packet more
(`AppendPacket`), and without its first packet a stream has the others
(`TakePacket`). These two lemmas need a bijection between the k-th packet and where
it begins (`BeginOfFacts`) rather than an induction. `Stamped` says that the time a
callback sees lies between the merged clock and the current one. The
invariant ends, as the promise does, when a receive with a timeout gives up on the
simple communicator; the types alone are kept.

**Only model-checked:** liveness (the prover handles neither fairness nor ENABLED).
Entries of two monitors nested in each other are in the specification that the
theorems are about, but in no run: the programs do not nest.

## 5. Not modelled, and the plan

Every invariant and refinement that a passing run checks is also stated by a
theorem, `ImplementsLock` for the exclusion on its own (`Spec`) and not yet for
the program that `buffer_monitors` runs it on. What else could be added are
theorems for three and more processes about weaker promises of the monitor than
`LatestOnEntry`, which fails there.

Left out for good:

* Destruction: `~CommunicationManager`, `~DistributedMonitor`, `unregisterMutex`,
  `unregisterCV`, `MPI_Finalize`. Every distributed program ends in an endless
  loop in `main()`, so no state that the repository can reach has a destructor
  running, and what a program that returned would do depends on where it
  stops its peers, of which the code says nothing. (The subscriptions of the two
  algorithms capture `this` and are never dropped, and the join in the manager's
  destructor waits for a packet that need not come: both would matter then.)
* Logging, string formatting, terminal colours and the debugger helper: no
  protocol state. The one effect that logging has, a wait for
  `communicationMutex`, is in `MpiTransport`.
* The archive format of Boost, and MPI itself beyond order, matching and limited
  buffering.
* The `std::mutex`es around `notifyOne` and `notifyAll`: each is given back before
  anything is sent, and no other but the logger's is taken while it is held.
