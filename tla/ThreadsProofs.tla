---------------------------- MODULE ThreadsProofs ----------------------------
(***************************************************************************)
(* Theorems about Threads: the two threads of every process, one           *)
(* std::mutex at a time, implement ConditionVariable, and with its         *)
(* invariants no callback outlives the call that has lent it its local     *)
(* variables.                                                              *)
(***************************************************************************)
EXTENDS Threads, TLAPS

(* The refinement mapping of Threads, with what is proved of the             *)
(* specification that it leads to.                                           *)
A == INSTANCE ConditionVariableProofs WITH
  CondName <- MutexName, MutexOf <- OwnName, NotifyOutside <- FALSE,
  MaxCalls <- MaxWaits, MaxSpurious <- Never,
  recv <- recvBar, phase <- phaseBar, queuedMutexes <- queuedBar,
  receivedRequests <- requestsBar, receivedAgreements <- agreementsBar,
  acquires <- acquiresBar, waiting <- waitingBar, receivedConfirmations <- confirmationsBar,
  recipients <- Nobody, calls <- callsBar

(* Where a main thread is subscribed to the answers. *)
Subscribed == {"queue", "record", "answers", "test", "asleep", "unhear", "unsubscribe"}

(* The main thread and its local variables: the set of answers fills only    *)
(* while the call is subscribed, and is full when the call goes on.  wait()  *)
(* runs with the mutex owned, acquireMutex without.                          *)
MainInv(p) ==
  /\ main[p] \in Subscribed => subscription[p] = CallNumber(p)
  /\ main[p] \notin Subscribed => subscription[p] = 0 /\ answers[p] = {}
  /\ answers[p] \subseteq OtherProcesses(p)
  /\ main[p] \in {"unhear", "unsubscribe"} => AreAnswersComplete(p)
  /\ main[p] \in {"hear", "announce", "unhear"} \cup Releasing => InWait(p)
  /\ main[p] = "record" => ~InWait(p)
  /\ main[p] \in Calling => IF InWait(p) THEN waits[p] # 0 ELSE acquires[p] # 0
  /\ acquires[p] <= MaxAcquires[p] /\ waits[p] <= MaxWaits[p]

(* The receiving thread: what it has in hand at each step, and that the call *)
(* whose callback it runs is still subscribed.                               *)
ReceivingInv(p) ==
  /\ receiving[p] = "off" <=> main[p] \in Starting
  /\ recv[p] = NoPacket <=> receiving[p] \in {"off", "receive"}
  /\ receiving[p] = "request" => InHand(p, "MUTEX_REQUEST")
  /\ receiving[p] = "table" => InHand(p, "COND_WAIT") \/ InHand(p, "COND_WAIT_END")
  /\ receiving[p] \in {"answer", "add"} => WantsAnswer(p)
  /\ receiving[p] \in {"answer", "add", "notify"} =>
       frame[p] = subscription[p] /\ subscription[p] # 0
  /\ receiving[p] = "add" => main[p] \notin {"test", "unhear", "unsubscribe", "return"}

(* No process of this program notifies or synchronizes. *)
ThreadTypes == {"MUTEX_REQUEST", "MUTEX_AGREEMENT", "COND_WAIT", "COND_WAIT_END",
                "COND_WAIT_END_CONFIRM"}

Kinds ==
  /\ \A p, q \in Process : \A i \in 1 .. Len(chan[p][q]) :
       chan[p][q][i].messageType \in ThreadTypes
  /\ \A p \in Process : recv[p] # NoPacket => recv[p].messageType \in ThreadTypes

LocalInv == ThreadTypeOK /\ Kinds /\ \A p \in Process : MainInv(p) /\ ReceivingInv(p)

(* The inductive invariant. *)
ThreadInv == LocalInv /\ A!CondInv /\ A!TakenInv

-----------------------------------------------------------------------------
(* The theorems about ConditionVariable, for the mapped variables. *)

(* Their assumptions. *)
LEMMA Given ==
  /\ NumberOfProcesses \in Nat \ {0} /\ NoPacket \notin A!Packet /\ Optimized \in BOOLEAN
  /\ MutexName \subseteq Message /\ MaxAcquires \in [A!Process -> Nat]
  /\ OwnName \in [MutexName -> MutexName] /\ FALSE \in BOOLEAN
  /\ MaxWaits \in [A!Process -> Nat] /\ Never \in [A!Process -> Nat]
  BY CommunicatorAssumption, ThreadAssumption
  DEF OwnName, Never, A!Process, A!Packet, A!MessageType, Process, Packet, MessageType

LEMMA AtomicInit == A!CondInit => A!CondInv /\ A!TakenInv
  BY Given, A!CondInvInit, A!TakenInvInit

LEMMA AtomicStep ==
  A!CondInv /\ A!TakenInv /\ [A!CondNext]_(A!allCondVars) => A!CondInv' /\ A!TakenInv'
  BY Given, A!CondInvStep, A!TakenInvStep

(* The names of Communicator that the mapping leaves alone. *)
LEMMA SameNames ==
  /\ A!Process = Process
  /\ \A p : A!OtherProcesses(p) = OtherProcesses(p)
  /\ A!Packet = Packet
  BY DEF A!Process, Process, A!OtherProcesses, OtherProcesses, A!Packet, Packet,
         A!MessageType, MessageType

LEMMA Ranks ==
  /\ Process \subseteq Nat
  /\ \A p \in Process : OtherProcesses(p) \subseteq Process /\ p \notin OtherProcesses(p)
  BY CommunicatorAssumption DEF Process, OtherProcesses

(* All the answers are those of all the other processes. *)
LEMMA AllAnswers ==
  ASSUME NEW p \in Process, NEW S \in SUBSET OtherProcesses(p),
         Cardinality(S) = NumberOfProcesses - 1
  PROVE  S = OtherProcesses(p)
  <1>1. A!Cardinality(S) = Cardinality(S)
    BY DEF A!Cardinality, Cardinality
  <1> QED
    BY <1>1, Given, SameNames, A!AllAgreed

(* What the variables of ConditionVariable are mapped to, point by point. *)
LEMMA Mapped ==
  ASSUME NEW p \in Process
  PROVE  /\ recvBar[p] = RecvOf(p)
         /\ acquiresBar[p] = AcquiresOf(p)
         /\ confirmationsBar[p] = ConfirmationsOf(p)
         /\ callsBar[p] = WaitsOf(p)
         /\ \A m \in MutexName :
              /\ phaseBar[p][m] = PhaseOf(p, m)
              /\ queuedBar[p][m] = QueuedOf(p, m)
              /\ requestsBar[p][m] = RequestsOf(p, m)
              /\ agreementsBar[p][m] = AgreementsOf(p, m)
              /\ waitingBar[p][m] = WaitStageOf(p, m)
              /\ Nobody[p][m] = {}
              /\ OwnName[m] = m
  BY DEF recvBar, acquiresBar, confirmationsBar, callsBar, phaseBar, queuedBar, requestsBar,
         agreementsBar, waitingBar, Nobody, OwnName

-----------------------------------------------------------------------------
(* The packet in p's hand, before its callback has had its effect. *)

(* An agreement belongs to the acquireMutex in progress and is new to it. *)
LEMMA AgreementInHand ==
  ASSUME ThreadInv, NEW p \in Process, InHand(p, "MUTEX_AGREEMENT"), recvBar[p] = recv[p]
  PROVE  /\ recv[p].message = call[p] /\ ~InWait(p)
         /\ main[p] \in {"record", "answers", "test", "asleep", "unsubscribe"}
         /\ recv[p].source \notin answers[p]
         /\ A!AgreementSubscribed(p, recv[p].message)
  <1> DEFINE m == recv[p].message
  <1>0. /\ recv[p] # NoPacket /\ recv[p].messageType = "MUTEX_AGREEMENT"
        /\ p \in A!Process
    BY SameNames DEF InHand
  <1>1. PICK q \in A!OtherProcesses(p) : A!Genuine(recv[p], q)
    BY <1>0 DEF ThreadInv, A!CondInv, A!IInv, A!PacketInv
  <1>2. m \in MutexName /\ A!AgreementInHand(p, q, m) /\ recv[p].source = q
    BY <1>0, <1>1 DEF A!Genuine, A!AgreementInHand, A!HeldInHand, A!InHand
  <1>3. A!OnePlace(p, q, m)
    BY <1>0, <1>2 DEF ThreadInv, A!CondInv, A!IInv, A!RequestInOnePlace
  <1> HIDE DEF m
  <1>4. phaseBar[p][m] = "waiting" /\ q \notin agreementsBar[p][m]
    BY <1>2, <1>3 DEF A!OnePlace, A!Answered, A!Counted
  <1>5. PhaseOf(p, m) = "waiting" /\ q \notin AgreementsOf(p, m)
    BY <1>2, <1>4, Mapped
  <1>6. /\ call[p] = m /\ ~owned[p][m]
        /\ main[p] \in {"record", "answers", "test", "asleep", "unsubscribe"}
    BY <1>5 DEF PhaseOf, Releasing
  <1> QED
    BY <1>2, <1>4, <1>5, <1>6 DEF AgreementsOf, InWait, m, A!AgreementSubscribed

(* A confirmation belongs to the wait in progress and is new to it. *)
LEMMA ConfirmationInHand ==
  ASSUME ThreadInv, NEW p \in Process, InHand(p, "COND_WAIT_END_CONFIRM"), recvBar[p] = recv[p]
  PROVE  /\ recv[p].message = call[p] /\ InWait(p)
         /\ main[p] \in {"answers", "test", "asleep", "unhear", "unsubscribe"}
         /\ recv[p].source \notin answers[p]
         /\ waitingBar[p][recv[p].message] = "confirming"
  <1> DEFINE c == recv[p].message
  <1>1. p \in A!Process /\ A!InHand(p, "COND_WAIT_END_CONFIRM")
    BY SameNames DEF InHand, A!InHand
  <1>2. c \in MutexName
    BY <1>1, Given, A!HandFacts DEF ThreadInv, A!CondType
  <1>3. A!ConfirmationExpected
    BY Given, A!ConfirmationFromInv DEF ThreadInv
  <1> HIDE DEF c
  <1>4. waitingBar[p][c] = "confirming" /\ recv[p].source \notin confirmationsBar[p]
    BY <1>1, <1>3 DEF A!ConfirmationExpected, c
  <1>5. WaitStageOf(p, c) = "confirming" /\ recv[p].source \notin ConfirmationsOf(p)
    BY <1>2, <1>4, Mapped
  <1>6. /\ call[p] = c /\ InWait(p)
        /\ main[p] \in {"answers", "test", "asleep", "unhear", "unsubscribe"}
    BY <1>5 DEF WaitStageOf
  <1> QED
    BY <1>4, <1>5, <1>6 DEF ConfirmationsOf, c

(* No waiter on the table has the time of a COND_WAIT. *)
LEMMA WaiterInHand ==
  ASSUME ThreadInv, NEW p \in Process, InHand(p, "COND_WAIT"), recvBar[p] = recv[p]
  PROVE  \A w \in conditionalWaits[p][recv[p].message] : w.lamportTime # recv[p].lamportTime
  <1>1. A!EveryWaiterTaken
    BY Given, A!TakenFromInv DEF ThreadInv
  <1> QED
    BY <1>1, SameNames DEF A!EveryWaiterTaken, InHand, A!InHand

(* It comes from another process, and the callback of the optimized          *)
(* communicator may find it with the time that it has.                       *)
LEMMA SenderInHand ==
  ASSUME ThreadInv, NEW p \in Process, recv[p] # NoPacket, recvBar[p] = recv[p]
  PROVE  /\ recv[p] \in Packet
         /\ recv[p].source \in OtherProcesses(p)
         /\ recv[p] \in A!Received(p)
  <1>0. p \in A!Process /\ recv[p] \in Packet
    BY SameNames DEF ThreadInv, LocalInv, ThreadTypeOK, CommTypeOK
  <1>1. PICK q \in A!OtherProcesses(p) : A!Genuine(recv[p], q)
    BY <1>0 DEF ThreadInv, A!CondInv, A!IInv, A!PacketInv
  <1>2. recv[p].source \in OtherProcesses(p)
    BY <1>1, SameNames DEF A!Genuine
  <1>3. CASE Optimized
    <2>1. recv[p].lamportTime <= clock[p]
      BY <1>0, <1>3 DEF ThreadInv, A!TakenInv, A!StampedInTurn
    <2>2. recv[p].lamportTime \in Nat /\ clock[p] \in Nat
      BY <1>0 DEF Packet, ThreadInv, LocalInv, ThreadTypeOK, CommTypeOK
    <2>3. recv[p].lamportTime \in recv[p].lamportTime .. clock[p]
      BY <2>1, <2>2
    <2>4. recv[p] = [recv[p] EXCEPT !.lamportTime = recv[p].lamportTime]
      BY <1>0 DEF Packet
    <2> QED
      BY <1>0, <1>2, <1>3, <2>3, <2>4 DEF A!Received
  <1>4. CASE ~Optimized
    BY <1>0, <1>2, <1>4 DEF A!Received
  <1> QED
    BY <1>3, <1>4

-----------------------------------------------------------------------------
(* What follows from the invariant. *)

LEMMA Counts ==
  ASSUME ThreadTypeOK, NEW p \in Process
  PROVE  acquires[p] \in Nat /\ waits[p] \in Nat /\ CallNumber(p) \in Nat
  BY DEF ThreadTypeOK, CallNumber

LEMMA CalledOnce ==
  ASSUME ThreadInv, NEW p \in Process, main[p] \in Subscribed
  PROVE  subscription[p] = CallNumber(p) /\ subscription[p] # 0
  <1>1. waits[p] # 0 \/ acquires[p] # 0
    BY DEF ThreadInv, LocalInv, MainInv, Subscribed, Calling
  <1>2. subscription[p] = CallNumber(p)
    BY DEF ThreadInv, LocalInv, MainInv
  <1> QED
    BY <1>1, <1>2, Counts DEF ThreadInv, LocalInv, CallNumber

LEMMA FoundFromInv == ThreadInv => CallbackFound
  <1> SUFFICES ASSUME ThreadInv, NEW p \in Process, receiving[p] = "lock"
               PROVE  WantsRequest(p) \/ WantsWait(p) \/ WantsAnswer(p)
    BY DEF CallbackFound
  <1>1. recvBar[p] = recv[p]
    BY Mapped DEF RecvOf
  <1>2. recv[p] # NoPacket /\ main[p] # "register"
    BY DEF ThreadInv, LocalInv, ReceivingInv, Starting
  <1>3. recv[p].messageType \in ThreadTypes
    BY <1>2 DEF ThreadInv, LocalInv, Kinds
  <1>4. CASE recv[p].messageType \in {"MUTEX_REQUEST", "COND_WAIT", "COND_WAIT_END"}
    BY <1>2, <1>4 DEF WantsRequest, WantsWait, InHand
  <1>5. CASE InHand(p, "MUTEX_AGREEMENT")
    <2>1. recv[p].message = call[p] /\ ~InWait(p) /\ main[p] \in Subscribed
      BY <1>1, <1>5, AgreementInHand DEF Subscribed
    <2> QED
      BY <1>5, <2>1, CalledOnce DEF WantsAnswer
  <1>6. CASE InHand(p, "COND_WAIT_END_CONFIRM")
    <2>1. recv[p].message = call[p] /\ InWait(p) /\ main[p] \in Subscribed
      BY <1>1, <1>6, ConfirmationInHand DEF Subscribed
    <2> QED
      BY <1>6, <2>1, CalledOnce DEF WantsAnswer
  <1> QED
    BY <1>2, <1>3, <1>4, <1>5, <1>6 DEF ThreadTypes, InHand

LEMMA FrameFromInv == ThreadInv => CallbackHasFrame
  <1> SUFFICES ASSUME ThreadInv, NEW p \in Process, receiving[p] \in {"answer", "add", "notify"}
               PROVE  frame[p] = CallNumber(p) /\ main[p] \in Calling
    BY DEF CallbackHasFrame
  <1>1. frame[p] = subscription[p] /\ main[p] \in Subscribed
    BY DEF ThreadInv, LocalInv, ReceivingInv, MainInv
  <1> QED
    BY <1>1, CalledOnce DEF Subscribed, Calling

(* A callback that has yet to add its answer finds the set not full. *)
LEMMA StillMissing ==
  ASSUME ThreadInv, NEW p \in Process, receiving[p] \in {"answer", "add"}
  PROVE  /\ recv[p] # NoPacket /\ recvBar[p] = recv[p]
         /\ recv[p].message = call[p]
         /\ recv[p].source \in OtherProcesses(p) \ answers[p]
         /\ main[p] \in {"record", "answers", "test", "asleep"}
  <1>1. WantsAnswer(p) /\ recvBar[p] = recv[p]
    BY Mapped DEF RecvOf, ThreadInv, LocalInv, ReceivingInv
  <1>2. recv[p] # NoPacket /\ recv[p].source \in OtherProcesses(p)
    BY <1>1, SenderInHand DEF WantsAnswer, InHand
  <1>3. /\ recv[p].source \notin answers[p]
        /\ main[p] \in {"record", "answers", "test", "asleep", "unhear", "unsubscribe"}
    BY <1>1, AgreementInHand, ConfirmationInHand DEF WantsAnswer
  <1>4. main[p] \notin {"unhear", "unsubscribe"}
    BY <1>2, <1>3, AllAnswers DEF ThreadInv, LocalInv, MainInv, AreAnswersComplete
  <1> QED
    BY <1>1, <1>2, <1>3, <1>4 DEF WantsAnswer

LEMMA NoCycleFromInv == ThreadInv => NoLockCycle
  BY StillMissing DEF NoLockCycle

-----------------------------------------------------------------------------
(* A step of p leaves the threads of the other processes alone. *)

StepOf(p) ==
  \/ \E m \in MutexName : CallAcquire(p, m) \/ CallWait(p, m)
  \/ MainThread(p)
  \/ WakeSpuriously(p)
  \/ ReceivingThread(p)

Unmoved(q) ==
  /\ recv'[q] = recv[q] /\ receiving'[q] = receiving[q] /\ frame'[q] = frame[q]
  /\ main'[q] = main[q] /\ call'[q] = call[q] /\ subscription'[q] = subscription[q]
  /\ sent'[q] = sent[q] /\ toAnswer'[q] = toAnswer[q] /\ owned'[q] = owned[q]
  /\ queuedMutexes'[q] = queuedMutexes[q] /\ receivedRequests'[q] = receivedRequests[q]
  /\ conditionalWaits'[q] = conditionalWaits[q] /\ answers'[q] = answers[q]
  /\ acquires'[q] = acquires[q] /\ waits'[q] = waits[q]

LEMMA MainUnmoved ==
  ASSUME ThreadTypeOK, NEW p \in Process, NEW q \in Process, q # p,
         \/ \E m \in MutexName : CallAcquire(p, m) \/ CallWait(p, m)
         \/ MainThread(p)
         \/ WakeSpuriously(p)
  PROVE  Unmoved(q)
  <1> USE DEF Unmoved, ThreadTypeOK, CommTypeOK, MainGoes, ReceivingGoes, callVars, countVars,
              sharedVars, commVars
  <1>1. ASSUME NEW m \in MutexName, CallAcquire(p, m) \/ CallWait(p, m)
        PROVE  Unmoved(q)
    BY <1>1 DEF CallAcquire, CallWait
  <1>2. CASE Register(p) \/ Listen(p) \/ Hear(p) \/ LockAnswers(p) \/ Test(p) \/ Unhear(p)
             \/ WakeSpuriously(p)
    BY <1>2 DEF Register, Listen, Hear, LockAnswers, Test, Unhear, WakeSpuriously
  <1>3. CASE Announce(p)
    BY <1>3 DEF Announce, Send
  <1>4. CASE SendWaitEnd(p)
    BY <1>4 DEF SendWaitEnd, Send
  <1>5. CASE SendRequests(p)
    BY <1>5 DEF SendRequests, Send
  <1>6. CASE \E r \in Process : Answer(p, r)
    BY <1>6 DEF Answer, Send
  <1>7. CASE Subscribe(p)
    BY <1>7 DEF Subscribe
  <1>8. CASE Record(p)
    BY <1>8 DEF Record
  <1>9. CASE Unsubscribe(p)
    BY <1>9 DEF Unsubscribe
  <1>10. CASE Return(p)
    BY <1>10 DEF Return
  <1>11. CASE \E m \in MutexName : CallRelease(p, m)
    BY <1>11 DEF CallRelease
  <1>12. CASE Clear(p)
    BY <1>12 DEF Clear
  <1>13. CASE Unlocked(p)
    BY <1>13 DEF Unlocked
  <1> QED
    BY <1>1, <1>2, <1>3, <1>4, <1>5, <1>6, <1>7, <1>8, <1>9, <1>10, <1>11, <1>12, <1>13 DEF MainThread

LEMMA ReceivingUnmoved ==
  ASSUME ThreadTypeOK, NEW p \in Process, NEW q \in Process, q # p, ReceivingThread(p)
  PROVE  Unmoved(q)
  <1> USE DEF Unmoved, ThreadTypeOK, CommTypeOK, MainGoes, ReceivingGoes, callVars, countVars,
              sharedVars, commVars
  <1>1. CASE ReceivePacket(p) \/ EndCallback(p)
    BY <1>1 DEF ReceivePacket, EndCallback, Receive, Dispatched
  <1>2. CASE StartCallback(p)
    <2>1. frame' = frame \/ frame' = [frame EXCEPT ![p] = subscription[p]]
      BY <1>2 DEF StartCallback
    <2>2. \E step : receiving' = [receiving EXCEPT ![p] = step]
      BY <1>2 DEF StartCallback
    <2>3. UNCHANGED <<commVars, main, call, subscription, sent, toAnswer, owned, sharedVars>>
      BY <1>2 DEF StartCallback
    <2>4. frame'[q] = frame[q] /\ receiving'[q] = receiving[q]
      BY <2>1, <2>2
    <2> QED
      BY <2>3, <2>4
  <1>5. CASE LockForAnswer(p)
    BY <1>5 DEF LockForAnswer
  <1>6. CASE AddAnswer(p)
    BY <1>6 DEF AddAnswer
  <1>7. CASE NotifyMain(p)
    BY <1>7 DEF NotifyMain
  <1>3. CASE AnswerRequest(p)
    BY <1>3 DEF AnswerRequest, Send
  <1>4. CASE ListWaiter(p) \/ EraseWaiters(p)
    BY <1>4 DEF ListWaiter, EraseWaiters, Send
  <1> QED
    BY <1>1, <1>2, <1>3, <1>4, <1>5, <1>6, <1>7 DEF ReceivingThread

(* What is said of q stays so. *)
LEMMA UnmovedInv ==
  ASSUME NEW q, Unmoved(q), MainInv(q), ReceivingInv(q)
  PROVE  MainInv(q)' /\ ReceivingInv(q)'
  BY DEF Unmoved, MainInv, ReceivingInv, InWait, CallNumber, WantsAnswer, InHand, OtherProcesses,
         AreAnswersComplete

LEMMA UnmovedMapped ==
  ASSUME NEW q, Unmoved(q)
  PROVE  /\ RecvOf(q)' = RecvOf(q)
         /\ AcquiresOf(q)' = AcquiresOf(q)
         /\ ConfirmationsOf(q)' = ConfirmationsOf(q)
         /\ WaitsOf(q)' = WaitsOf(q)
         /\ \A m \in MutexName :
              /\ PhaseOf(q, m)' = PhaseOf(q, m)
              /\ QueuedOf(q, m)' = QueuedOf(q, m)
              /\ RequestsOf(q, m)' = RequestsOf(q, m)
              /\ AgreementsOf(q, m)' = AgreementsOf(q, m)
              /\ WaitStageOf(q, m)' = WaitStageOf(q, m)
  BY DEF Unmoved, RecvOf, AcquiresOf, ConfirmationsOf, WaitsOf, PhaseOf, QueuedOf, RequestsOf,
         AgreementsOf, WaitStageOf, InWait

(* The mapped variables after a step of p, from the values at p. *)

LEMMA Stays ==
  ASSUME NEW p \in Process, \A q \in Process : q # p => Unmoved(q)
  PROVE  /\ RecvOf(p)' = RecvOf(p) => UNCHANGED recvBar
         /\ AcquiresOf(p)' = AcquiresOf(p) => UNCHANGED acquiresBar
         /\ ConfirmationsOf(p)' = ConfirmationsOf(p) => UNCHANGED confirmationsBar
         /\ WaitsOf(p)' = WaitsOf(p) => UNCHANGED callsBar
         /\ (\A m \in MutexName : PhaseOf(p, m)' = PhaseOf(p, m)) => UNCHANGED phaseBar
         /\ (\A m \in MutexName : QueuedOf(p, m)' = QueuedOf(p, m)) => UNCHANGED queuedBar
         /\ (\A m \in MutexName : RequestsOf(p, m)' = RequestsOf(p, m)) => UNCHANGED requestsBar
         /\ (\A m \in MutexName : AgreementsOf(p, m)' = AgreementsOf(p, m))
            => UNCHANGED agreementsBar
         /\ (\A m \in MutexName : WaitStageOf(p, m)' = WaitStageOf(p, m)) => UNCHANGED waitingBar
  <1>1. RecvOf(p)' = RecvOf(p) => UNCHANGED recvBar
    BY UnmovedMapped DEF recvBar
  <1>2. AcquiresOf(p)' = AcquiresOf(p) => UNCHANGED acquiresBar
    BY UnmovedMapped DEF acquiresBar
  <1>3. ConfirmationsOf(p)' = ConfirmationsOf(p) => UNCHANGED confirmationsBar
    BY UnmovedMapped DEF confirmationsBar
  <1>4. WaitsOf(p)' = WaitsOf(p) => UNCHANGED callsBar
    BY UnmovedMapped DEF callsBar
  <1>5. (\A m \in MutexName : PhaseOf(p, m)' = PhaseOf(p, m)) => UNCHANGED phaseBar
    BY UnmovedMapped DEF phaseBar
  <1>6. (\A m \in MutexName : QueuedOf(p, m)' = QueuedOf(p, m)) => UNCHANGED queuedBar
    BY UnmovedMapped DEF queuedBar
  <1>7. (\A m \in MutexName : RequestsOf(p, m)' = RequestsOf(p, m)) => UNCHANGED requestsBar
    BY UnmovedMapped DEF requestsBar
  <1>8. (\A m \in MutexName : AgreementsOf(p, m)' = AgreementsOf(p, m))
        => UNCHANGED agreementsBar
    BY UnmovedMapped DEF agreementsBar
  <1>9. (\A m \in MutexName : WaitStageOf(p, m)' = WaitStageOf(p, m)) => UNCHANGED waitingBar
    BY UnmovedMapped DEF waitingBar
  <1> QED
    BY <1>1, <1>2, <1>3, <1>4, <1>5, <1>6, <1>7, <1>8, <1>9

LEMMA RecvMoves ==
  ASSUME NEW p \in Process, \A q \in Process : q # p => Unmoved(q), NEW v, RecvOf(p)' = v
  PROVE  recvBar' = [recvBar EXCEPT ![p] = v]
  BY UnmovedMapped DEF recvBar

LEMMA AcquiresMoves ==
  ASSUME NEW p \in Process, \A q \in Process : q # p => Unmoved(q), NEW v, AcquiresOf(p)' = v
  PROVE  acquiresBar' = [acquiresBar EXCEPT ![p] = v]
  BY UnmovedMapped DEF acquiresBar

LEMMA ConfirmationsMoves ==
  ASSUME NEW p \in Process, \A q \in Process : q # p => Unmoved(q), NEW v, ConfirmationsOf(p)' = v
  PROVE  confirmationsBar' = [confirmationsBar EXCEPT ![p] = v]
  BY UnmovedMapped DEF confirmationsBar

LEMMA CallsMoves ==
  ASSUME NEW p \in Process, \A q \in Process : q # p => Unmoved(q), NEW v, WaitsOf(p)' = v
  PROVE  callsBar' = [callsBar EXCEPT ![p] = v]
  BY UnmovedMapped DEF callsBar

LEMMA PhaseMoves ==
  ASSUME NEW p \in Process, \A q \in Process : q # p => Unmoved(q), NEW n \in MutexName, NEW v,
         \A m \in MutexName : PhaseOf(p, m)' = IF m = n THEN v ELSE PhaseOf(p, m)
  PROVE  phaseBar' = [phaseBar EXCEPT ![p][n] = v]
  BY UnmovedMapped DEF phaseBar

LEMMA QueuedMoves ==
  ASSUME NEW p \in Process, \A q \in Process : q # p => Unmoved(q), NEW n \in MutexName, NEW v,
         \A m \in MutexName : QueuedOf(p, m)' = IF m = n THEN v ELSE QueuedOf(p, m)
  PROVE  queuedBar' = [queuedBar EXCEPT ![p][n] = v]
  BY UnmovedMapped DEF queuedBar

LEMMA RequestsMoves ==
  ASSUME NEW p \in Process, \A q \in Process : q # p => Unmoved(q), NEW n \in MutexName, NEW v,
         \A m \in MutexName : RequestsOf(p, m)' = IF m = n THEN v ELSE RequestsOf(p, m)
  PROVE  requestsBar' = [requestsBar EXCEPT ![p][n] = v]
  BY UnmovedMapped DEF requestsBar

LEMMA AgreementsMoves ==
  ASSUME NEW p \in Process, \A q \in Process : q # p => Unmoved(q), NEW n \in MutexName, NEW v,
         \A m \in MutexName : AgreementsOf(p, m)' = IF m = n THEN v ELSE AgreementsOf(p, m)
  PROVE  agreementsBar' = [agreementsBar EXCEPT ![p][n] = v]
  BY UnmovedMapped DEF agreementsBar

LEMMA WaitingMoves ==
  ASSUME NEW p \in Process, \A q \in Process : q # p => Unmoved(q), NEW n \in MutexName, NEW v,
         \A m \in MutexName : WaitStageOf(p, m)' = IF m = n THEN v ELSE WaitStageOf(p, m)
  PROVE  waitingBar' = [waitingBar EXCEPT ![p][n] = v]
  BY UnmovedMapped DEF waitingBar

(* A step that the mapping hides: ConditionVariable stutters. *)
Hidden(p) ==
  /\ RecvOf(p)' = RecvOf(p)
  /\ AcquiresOf(p)' = AcquiresOf(p)
  /\ ConfirmationsOf(p)' = ConfirmationsOf(p)
  /\ WaitsOf(p)' = WaitsOf(p)
  /\ \A m \in MutexName :
       /\ PhaseOf(p, m)' = PhaseOf(p, m)
       /\ QueuedOf(p, m)' = QueuedOf(p, m)
       /\ RequestsOf(p, m)' = RequestsOf(p, m)
       /\ AgreementsOf(p, m)' = AgreementsOf(p, m)
       /\ WaitStageOf(p, m)' = WaitStageOf(p, m)

LEMMA Stutter ==
  ASSUME NEW p \in Process, \A q \in Process : q # p => Unmoved(q), Hidden(p),
         UNCHANGED <<clock, chan, conditionalWaits>>
  PROVE  UNCHANGED A!allCondVars
  BY Stays DEF Hidden, A!allCondVars, A!vars, A!condVars, A!commVars, A!mutexVars, Nobody

(* The main thread between two calls, and on its way through a call. *)
LEMMA CallHidden ==
  ASSUME ThreadInv, NEW p \in Process, NEW m \in MutexName, CallAcquire(p, m) \/ CallWait(p, m)
  PROVE  Hidden(p)
  <1>1. /\ main[p] = "idle" /\ call'[p] = m /\ answers[p] = {}
        /\ UNCHANGED <<commVars, receiving, owned, queuedMutexes, receivedRequests, answers>>
        /\ acquires[p] \in Nat /\ waits[p] \in Nat
    BY DEF CallAcquire, CallWait, MainGoes, ThreadInv, LocalInv, ThreadTypeOK, MainInv, Subscribed
  <1>2. CASE CallAcquire(p, m)
    <2>1. /\ main'[p] = "subscribe" /\ ~owned[p][m]
          /\ acquires'[p] = acquires[p] + 1 /\ waits'[p] = waits[p]
      BY <1>2 DEF CallAcquire, MainGoes, ThreadInv, LocalInv, ThreadTypeOK
    <2> QED
      BY <1>1, <2>1 DEF Hidden, RecvOf, AcquiresOf, ConfirmationsOf, WaitsOf, PhaseOf, QueuedOf,
         RequestsOf, AgreementsOf, WaitStageOf, InWait, Releasing, commVars
  <1>3. CASE CallWait(p, m)
    <2>1. /\ main'[p] = "hear" /\ owned[p][m]
          /\ acquires'[p] = acquires[p] /\ waits'[p] = waits[p] + 1
      BY <1>3 DEF CallWait, MainGoes, ThreadInv, LocalInv, ThreadTypeOK
    <2> QED
      BY <1>1, <2>1 DEF Hidden, RecvOf, AcquiresOf, ConfirmationsOf, WaitsOf, PhaseOf, QueuedOf,
         RequestsOf, AgreementsOf, WaitStageOf, InWait, Releasing, commVars
  <1> QED
    BY <1>2, <1>3

HiddenMoves(p) ==
  {<<"register", "listen">>, <<"listen", "idle">>, <<"hear", "announce">>, <<"answers", "test">>,
   <<"test", "asleep">>, <<"asleep", "answers">>, <<"unhear", "unsubscribe">>}
  \cup (IF InWait(p) THEN {<<"subscribe", "queue">>, <<"test", "unhear">>}
                     ELSE {<<"test", "unsubscribe">>})

LEMMA MoveHidden ==
  ASSUME ThreadInv, NEW p \in Process, RecvOf(p)' = RecvOf(p),
         UNCHANGED <<call, sent, toAnswer, owned, sharedVars>>,
         main'[p] = main[p] \/ <<main[p], main'[p]>> \in HiddenMoves(p)
  PROVE  Hidden(p)
  <1> USE DEF Hidden, AcquiresOf, ConfirmationsOf, WaitsOf, PhaseOf, QueuedOf, RequestsOf,
              AgreementsOf, WaitStageOf, InWait, Releasing, sharedVars, countVars
  <1>1. CASE main'[p] = main[p]
    BY <1>1
  <1>2. CASE <<main[p], main'[p]>> \in HiddenMoves(p)
    <2>1. main[p] = "unhear" => InWait(p)
      BY DEF ThreadInv, LocalInv, MainInv
    <2> QED
      BY <1>2, <2>1 DEF HiddenMoves
  <1> QED
    BY <1>1, <1>2

LEMMA MainHidden ==
  ASSUME ThreadInv, NEW p \in Process,
         \/ Register(p) \/ Listen(p) \/ Hear(p) \/ LockAnswers(p) \/ Test(p)
         \/ WakeSpuriously(p) \/ Unhear(p) \/ NotifyMain(p)
         \/ Subscribe(p) /\ InWait(p)
  PROVE  Hidden(p)
  <1> USE DEF ThreadInv, LocalInv, ThreadTypeOK, MainGoes, ReceivingGoes, HiddenMoves, RecvOf,
              commVars, callVars
  <1>1. CASE Register(p) \/ Hear(p) \/ LockAnswers(p) \/ WakeSpuriously(p) \/ Unhear(p)
    BY <1>1, MoveHidden DEF Register, Hear, LockAnswers, WakeSpuriously, Unhear
  <1>2. CASE Listen(p)
    BY <1>2, MoveHidden DEF Listen
  <1>3. CASE Test(p)
    BY <1>3, MoveHidden DEF Test
  <1>4. CASE NotifyMain(p)
    BY <1>4, MoveHidden DEF NotifyMain
  <1>5. CASE Subscribe(p) /\ InWait(p)
    BY <1>5, MoveHidden DEF Subscribe
  <1> QED
    BY <1>1, <1>2, <1>3, <1>4, <1>5

LEMMA RecordHidden ==
  ASSUME ThreadInv, NEW p \in Process, Record(p)
  PROVE  Hidden(p)
  <1>1. /\ main[p] = "record" /\ main'[p] = "answers" /\ ~InWait(p) /\ call[p] \in MutexName
        /\ UNCHANGED <<commVars, receiving, callVars, receivedRequests, conditionalWaits,
                       answers, countVars>>
    BY DEF Record, MainGoes, ThreadInv, LocalInv, ThreadTypeOK, MainInv
  <1>2. \A m \in MutexName :
          queuedMutexes'[p][m] = IF m = call[p] THEN sent[p] ELSE queuedMutexes[p][m]
    BY DEF Record, ThreadInv, LocalInv, ThreadTypeOK
  <1> QED
    BY <1>1, <1>2 DEF Hidden, RecvOf, AcquiresOf, ConfirmationsOf, WaitsOf, PhaseOf, QueuedOf,
       RequestsOf, AgreementsOf, WaitStageOf, InWait, Releasing, commVars, callVars, countVars

LEMMA ReturnHidden ==
  ASSUME ThreadInv, NEW p \in Process, Return(p)
  PROVE  Hidden(p)
  <1>1. /\ main[p] = "return" /\ main'[p] = "idle" /\ call[p] \in MutexName /\ answers[p] = {}
        /\ UNCHANGED <<commVars, receiving, call, sent, toAnswer, sharedVars>>
    BY DEF Return, MainGoes, ThreadInv, LocalInv, ThreadTypeOK, MainInv, Subscribed
  <1>2. \A m \in MutexName : owned'[p][m] = IF m = call[p] THEN TRUE ELSE owned[p][m]
    BY DEF Return, ThreadInv, LocalInv, ThreadTypeOK
  <1> QED
    BY <1>1, <1>2 DEF Hidden, RecvOf, AcquiresOf, ConfirmationsOf, WaitsOf, PhaseOf, QueuedOf,
       RequestsOf, AgreementsOf, WaitStageOf, InWait, Releasing, commVars, sharedVars, countVars

LEMMA UnlockedHidden ==
  ASSUME ThreadInv, NEW p \in Process, Unlocked(p)
  PROVE  Hidden(p)
  <1>1. /\ main[p] = "unlocked" /\ main'[p] = "idle" /\ call[p] \in MutexName /\ answers[p] = {}
        /\ UNCHANGED <<commVars, receiving, call, sent, toAnswer, sharedVars>>
    BY DEF Unlocked, MainGoes, ThreadInv, LocalInv, ThreadTypeOK, MainInv, Subscribed
  <1>2. \A m \in MutexName : owned'[p][m] = IF m = call[p] THEN FALSE ELSE owned[p][m]
    BY DEF Unlocked, ThreadInv, LocalInv, ThreadTypeOK
  <1> QED
    BY <1>1, <1>2 DEF Hidden, RecvOf, AcquiresOf, ConfirmationsOf, WaitsOf, PhaseOf, QueuedOf,
       RequestsOf, AgreementsOf, WaitStageOf, InWait, Releasing, commVars, sharedVars, countVars

(* The receiving thread before and after the effect of a callback. *)
LEMMA ReceivingHidden ==
  ASSUME ThreadInv, NEW p \in Process, StartCallback(p) \/ LockForAnswer(p) \/ EndCallback(p)
  PROVE  Hidden(p) /\ UNCHANGED <<clock, chan, conditionalWaits>>
  <1> USE DEF ReceivingGoes, commVars, callVars, sharedVars
  <1>1. /\ main'[p] = main[p]
        /\ UNCHANGED <<clock, chan, call, sent, toAnswer, owned, sharedVars>>
    BY DEF StartCallback, LockForAnswer, EndCallback
  <1>2. RecvOf(p)' = RecvOf(p)
    <2> USE DEF RecvOf, ThreadInv, LocalInv, ThreadTypeOK, CommTypeOK
    <2>1. CASE StartCallback(p)
      BY <2>1 DEF StartCallback
    <2>2. CASE LockForAnswer(p)
      BY <2>2 DEF LockForAnswer
    <2>3. CASE EndCallback(p)
      BY <2>3 DEF EndCallback, Dispatched
    <2> QED
      BY <2>1, <2>2, <2>3
  <1> QED
    BY <1>1, <1>2, MoveHidden

-----------------------------------------------------------------------------
(* The steps that ConditionVariable sees. *)

LEMMA SendMapped ==
  ASSUME NEW p, NEW R, NEW type, NEW msg, Send(p, R, type, msg)
  PROVE  A!Send(p, R, type, msg)
  BY SameNames DEF Send, A!Send, NextPacket, A!NextPacket

LEMMA MainNext ==
  ASSUME NEW p \in Process, NEW m \in MutexName,
         \/ A!Wait(p, m) \/ A!EndWait(p, m) \/ A!Confirmed(p, m)
         \/ A!Free(p) /\ (A!Subscribe(p, m) \/ A!Unlock(p, m)) /\ UNCHANGED A!condVars
         \/ A!InCall(p, m) /\ UNCHANGED A!condVars
  PROVE  A!CondNext
  BY SameNames DEF A!CondNext, A!InCondCall

LEMMA ReceivingNext ==
  ASSUME NEW p \in Process, A!CondReceiver(p)
  PROVE  A!CondNext
  BY SameNames DEF A!CondNext

(* The main thread is in no call that ConditionVariable sees. *)
LEMMA MainFree ==
  ASSUME NEW p \in Process,
         main[p] \in {"idle", "announce"} \/ (main[p] = "subscribe" /\ ~InWait(p))
  PROVE  A!Free(p) /\ A!Idle(p)
  <1>1. \A m \in MutexName : PhaseOf(p, m) \in {"free", "held"} /\ WaitStageOf(p, m) = "out"
    BY DEF PhaseOf, WaitStageOf, InWait, Releasing
  <1> QED
    BY <1>1, Mapped DEF A!Free, A!Idle

LEMMA AnnounceStep ==
  ASSUME ThreadInv, NEW p \in Process, \A q \in Process : q # p => Unmoved(q), Announce(p)
  PROVE  A!CondNext
  <1>0. PICK c \in MutexName : c = call[p]
    BY DEF ThreadInv, LocalInv, ThreadTypeOK
  <1>1. /\ main[p] = "announce" /\ main'[p] = "subscribe"
        /\ InWait(p) /\ waits[p] \in Nat /\ waits[p] # 0 /\ waits[p] <= MaxWaits[p]
        /\ MaxWaits[p] \in Nat
        /\ UNCHANGED <<recv, receiving, callVars, sharedVars>>
    BY ThreadAssumption
    DEF Announce, MainGoes, ThreadInv, LocalInv, ThreadTypeOK, MainInv, Calling
  <1>2. A!Send(p, A!OtherProcesses(p), "COND_WAIT", c)
    BY <1>0, SendMapped, SameNames DEF Announce
  <1>3. /\ RecvOf(p)' = RecvOf(p)
        /\ AcquiresOf(p)' = AcquiresOf(p)
        /\ ConfirmationsOf(p)' = ConfirmationsOf(p)
        /\ WaitsOf(p) = waits[p] - 1 /\ WaitsOf(p)' = waits[p]
        /\ \A m \in MutexName :
             /\ PhaseOf(p, m)' = PhaseOf(p, m)
             /\ QueuedOf(p, m)' = QueuedOf(p, m)
             /\ RequestsOf(p, m)' = RequestsOf(p, m)
             /\ AgreementsOf(p, m)' = AgreementsOf(p, m)
             /\ WaitStageOf(p, m)' = IF m = c THEN "inside" ELSE WaitStageOf(p, m)
        /\ PhaseOf(p, c) = "held"
    BY <1>0, <1>1 DEF RecvOf, AcquiresOf, ConfirmationsOf, WaitsOf, PhaseOf, QueuedOf, RequestsOf,
       AgreementsOf, WaitStageOf, InWait, Releasing, callVars, sharedVars, countVars
  <1>4. UNCHANGED <<recvBar, A!mutexVars, confirmationsBar, conditionalWaits, Nobody>>
    BY <1>1, <1>3, Stays DEF A!mutexVars, Nobody, sharedVars
  <1>5. waitingBar' = [waitingBar EXCEPT ![p][c] = "inside"]
    BY <1>3, WaitingMoves
  <1>6. A!Call(p)
    <2>1. A!Free(p)
      BY <1>1, MainFree
    <2>2. callsBar[p] = waits[p] - 1 /\ callsBar' = [callsBar EXCEPT ![p] = waits[p]]
      BY <1>3, Mapped, CallsMoves
    <2>3. callsBar[p] < MaxWaits[p] /\ callsBar[p] + 1 = waits[p]
      BY <1>1, <2>2
    <2> QED
      BY <2>1, <2>2, <2>3 DEF A!Call
  <1>7. A!HoldsMutexOf(p, c)
    BY <1>3, Mapped DEF A!HoldsMutexOf
  <1> QED
    BY <1>2, <1>4, <1>5, <1>6, <1>7, MainNext DEF A!Wait, A!SetWaiting

LEMMA SendWaitEndStep ==
  ASSUME ThreadInv, NEW p \in Process, \A q \in Process : q # p => Unmoved(q), SendWaitEnd(p)
  PROVE  A!CondNext
  <1>0. PICK c \in MutexName : c = call[p]
    BY DEF ThreadInv, LocalInv, ThreadTypeOK
  <1>1. /\ main[p] = "queue" /\ main'[p] = "answers" /\ InWait(p)
        /\ UNCHANGED <<recv, receiving, callVars, sharedVars>>
    BY DEF SendWaitEnd, MainGoes, ThreadInv, LocalInv, ThreadTypeOK
  <1>2. A!Send(p, A!OtherProcesses(p), "COND_WAIT_END", c)
    BY <1>0, SendMapped, SameNames DEF SendWaitEnd
  <1>3. /\ RecvOf(p)' = RecvOf(p)
        /\ AcquiresOf(p)' = AcquiresOf(p)
        /\ ConfirmationsOf(p)' = ConfirmationsOf(p)
        /\ WaitsOf(p)' = WaitsOf(p)
        /\ \A m \in MutexName :
             /\ PhaseOf(p, m)' = PhaseOf(p, m)
             /\ QueuedOf(p, m)' = QueuedOf(p, m)
             /\ RequestsOf(p, m)' = RequestsOf(p, m)
             /\ AgreementsOf(p, m)' = AgreementsOf(p, m)
             /\ WaitStageOf(p, m)' = IF m = c THEN "confirming" ELSE WaitStageOf(p, m)
        /\ PhaseOf(p, c) = "held" /\ WaitStageOf(p, c) = "inside"
    BY <1>0, <1>1 DEF RecvOf, AcquiresOf, ConfirmationsOf, WaitsOf, PhaseOf, QueuedOf, RequestsOf,
       AgreementsOf, WaitStageOf, InWait, Releasing, callVars, sharedVars, countVars
  <1>4. UNCHANGED <<recvBar, A!mutexVars, confirmationsBar, conditionalWaits, Nobody, callsBar>>
    BY <1>1, <1>3, Stays DEF A!mutexVars, Nobody, sharedVars
  <1>5. waitingBar' = [waitingBar EXCEPT ![p][c] = "confirming"]
    BY <1>3, WaitingMoves
  <1>6. A!HoldsMutexOf(p, c) /\ waitingBar[p][c] = "inside"
    BY <1>3, Mapped DEF A!HoldsMutexOf
  <1> QED
    BY <1>2, <1>4, <1>5, <1>6, MainNext DEF A!EndWait, A!SetWaiting

LEMMA SubscribeStep ==
  ASSUME ThreadInv, NEW p \in Process, \A q \in Process : q # p => Unmoved(q),
         Subscribe(p), ~InWait(p)
  PROVE  A!CondNext
  <1>0. PICK m \in MutexName : m = call[p]
    BY DEF ThreadInv, LocalInv, ThreadTypeOK
  <1>1. /\ main[p] = "subscribe" /\ main'[p] = "queue"
        /\ acquires[p] \in Nat /\ acquires[p] # 0 /\ acquires[p] <= MaxAcquires[p]
        /\ MaxAcquires[p] \in Nat
        /\ UNCHANGED <<commVars, receiving, call, sent, toAnswer, owned, sharedVars>>
    BY ThreadAssumption
    DEF Subscribe, MainGoes, ThreadInv, LocalInv, ThreadTypeOK, MainInv, Calling
  <1>2. /\ RecvOf(p)' = RecvOf(p)
        /\ AcquiresOf(p) = acquires[p] - 1 /\ AcquiresOf(p)' = acquires[p]
        /\ ConfirmationsOf(p)' = ConfirmationsOf(p)
        /\ WaitsOf(p)' = WaitsOf(p)
        /\ \A k \in MutexName :
             /\ PhaseOf(p, k)' = IF k = m THEN "subscribed" ELSE PhaseOf(p, k)
             /\ QueuedOf(p, k)' = QueuedOf(p, k)
             /\ RequestsOf(p, k)' = RequestsOf(p, k)
             /\ AgreementsOf(p, k)' = AgreementsOf(p, k)
             /\ WaitStageOf(p, k)' = WaitStageOf(p, k)
        /\ PhaseOf(p, m) = "free"
    BY <1>0, <1>1 DEF RecvOf, AcquiresOf, ConfirmationsOf, WaitsOf, PhaseOf, QueuedOf, RequestsOf,
       AgreementsOf, WaitStageOf, InWait, Releasing, commVars, sharedVars, countVars
  <1>3. UNCHANGED <<A!commVars, queuedBar, requestsBar, agreementsBar, A!condVars>>
    BY <1>1, <1>2, Stays DEF A!commVars, A!condVars, Nobody, commVars, sharedVars
  <1>4. phaseBar' = [phaseBar EXCEPT ![p][m] = "subscribed"]
    BY <1>2, PhaseMoves
  <1>5. acquiresBar[p] = acquires[p] - 1 /\ acquiresBar' = [acquiresBar EXCEPT ![p] = acquires[p]]
    BY <1>2, Mapped, AcquiresMoves
  <1>6. acquiresBar[p] < MaxAcquires[p] /\ acquiresBar[p] + 1 = acquires[p]
    BY <1>1, <1>5
  <1>7. A!Free(p) /\ A!Idle(p) /\ phaseBar[p][m] = "free"
    BY <1>1, <1>2, MainFree, Mapped
  <1>8. A!Subscribe(p, m)
    BY <1>3, <1>4, <1>5, <1>6, <1>7 DEF A!Subscribe, A!SetPhase
  <1> QED
    BY <1>3, <1>7, <1>8, MainNext

LEMMA SendRequestsStep ==
  ASSUME ThreadInv, NEW p \in Process, \A q \in Process : q # p => Unmoved(q), SendRequests(p)
  PROVE  A!CondNext
  <1>0. PICK m \in MutexName : m = call[p]
    BY DEF ThreadInv, LocalInv, ThreadTypeOK
  <1>1. /\ main[p] = "queue" /\ main'[p] = "record" /\ ~InWait(p) /\ sent'[p] = clock[p] + 1
        /\ UNCHANGED <<recv, receiving, call, toAnswer, owned, sharedVars>>
    BY DEF SendRequests, MainGoes, ThreadInv, LocalInv, ThreadTypeOK
  <1>2. A!Send(p, A!OtherProcesses(p), "MUTEX_REQUEST", m)
    BY <1>0, SendMapped, SameNames DEF SendRequests
  <1>3. /\ RecvOf(p)' = RecvOf(p)
        /\ AcquiresOf(p)' = AcquiresOf(p)
        /\ ConfirmationsOf(p)' = ConfirmationsOf(p)
        /\ WaitsOf(p)' = WaitsOf(p)
        /\ \A k \in MutexName :
             /\ PhaseOf(p, k)' = IF k = m THEN "waiting" ELSE PhaseOf(p, k)
             /\ QueuedOf(p, k)' = IF k = m THEN clock[p] + 1 ELSE QueuedOf(p, k)
             /\ RequestsOf(p, k)' = RequestsOf(p, k)
             /\ AgreementsOf(p, k)' = AgreementsOf(p, k)
             /\ WaitStageOf(p, k)' = WaitStageOf(p, k)
        /\ PhaseOf(p, m) = "subscribed"
    BY <1>0, <1>1 DEF RecvOf, AcquiresOf, ConfirmationsOf, WaitsOf, PhaseOf, QueuedOf, RequestsOf,
       AgreementsOf, WaitStageOf, InWait, Releasing, sharedVars, countVars
  <1>4. UNCHANGED <<recvBar, requestsBar, agreementsBar, acquiresBar, A!condVars>>
    BY <1>1, <1>3, Stays DEF A!condVars, Nobody, sharedVars
  <1>5. phaseBar' = [phaseBar EXCEPT ![p][m] = "waiting"] /\ phaseBar[p][m] = "subscribed"
    <2>1. phaseBar' = [phaseBar EXCEPT ![p][m] = "waiting"]
      BY <1>3, PhaseMoves
    <2> QED
      BY <1>3, <2>1, Mapped
  <1>6. queuedBar' = [queuedBar EXCEPT ![p][m] = clock[p] + 1]
    BY <1>3, QueuedMoves
  <1>7. A!Queue(p, m)
    BY <1>2, <1>4, <1>5, <1>6 DEF A!Queue, A!SetPhase
  <1> QED
    BY <1>4, <1>7, MainNext DEF A!InCall

(* The call has all its answers: it drops its subscription, and from here on *)
(* the mutex counts as held, or the wait as over.                            *)
LEMMA UnsubscribeStep ==
  ASSUME ThreadInv, NEW p \in Process, \A q \in Process : q # p => Unmoved(q), Unsubscribe(p)
  PROVE  A!CondNext
  <1>0. PICK m \in MutexName : m = call[p]
    BY DEF ThreadInv, LocalInv, ThreadTypeOK
  <1>1. /\ main[p] = "unsubscribe" /\ main'[p] = "return" /\ answers'[p] = {}
        /\ A!Cardinality(answers[p]) = NumberOfProcesses - 1
        /\ UNCHANGED <<commVars, receiving, call, frame, sent, toAnswer, owned, queuedMutexes,
                       receivedRequests, conditionalWaits, countVars>>
    BY DEF Unsubscribe, MainGoes, ThreadInv, LocalInv, ThreadTypeOK, MainInv, AreAnswersComplete,
       A!Cardinality, Cardinality
  <1>2. CASE InWait(p)
    <2>1. /\ RecvOf(p)' = RecvOf(p)
          /\ AcquiresOf(p)' = AcquiresOf(p)
          /\ ConfirmationsOf(p)' = {} /\ ConfirmationsOf(p) = answers[p]
          /\ WaitsOf(p)' = WaitsOf(p)
          /\ \A k \in MutexName :
               /\ PhaseOf(p, k)' = PhaseOf(p, k)
               /\ QueuedOf(p, k)' = QueuedOf(p, k)
               /\ RequestsOf(p, k)' = RequestsOf(p, k)
               /\ AgreementsOf(p, k)' = AgreementsOf(p, k)
               /\ WaitStageOf(p, k)' = IF k = m THEN "out" ELSE WaitStageOf(p, k)
          /\ WaitStageOf(p, m) = "confirming"
      BY <1>0, <1>1, <1>2 DEF RecvOf, AcquiresOf, ConfirmationsOf, WaitsOf, PhaseOf, QueuedOf, RequestsOf,
       AgreementsOf, WaitStageOf, InWait, Releasing, commVars, countVars
    <2>2. UNCHANGED <<A!vars, conditionalWaits, Nobody, callsBar>>
      BY <1>1, <2>1, Stays DEF A!vars, A!commVars, A!mutexVars, Nobody, commVars
    <2>3. waitingBar' = [waitingBar EXCEPT ![p][m] = "out"] /\ waitingBar[p][m] = "confirming"
      <3>1. waitingBar' = [waitingBar EXCEPT ![p][m] = "out"]
        BY <2>1, WaitingMoves
      <3> QED
        BY <2>1, <3>1, Mapped
    <2>4. confirmationsBar' = [confirmationsBar EXCEPT ![p] = {}]
      BY <2>1, ConfirmationsMoves
    <2>5. confirmationsBar[p] = answers[p]
      BY <2>1, Mapped
    <2>6. A!AreConfirmationsComplete(p)
      BY <1>1, <2>5 DEF A!AreConfirmationsComplete
    <2> QED
      BY <2>2, <2>3, <2>4, <2>6, MainNext DEF A!Confirmed, A!SetWaiting
  <1>3. CASE ~InWait(p)
    <2>1. /\ RecvOf(p)' = RecvOf(p)
          /\ AcquiresOf(p)' = AcquiresOf(p)
          /\ ConfirmationsOf(p)' = ConfirmationsOf(p)
          /\ WaitsOf(p)' = WaitsOf(p)
          /\ \A k \in MutexName :
               /\ PhaseOf(p, k)' = IF k = m THEN "held" ELSE PhaseOf(p, k)
               /\ QueuedOf(p, k)' = QueuedOf(p, k)
               /\ RequestsOf(p, k)' = RequestsOf(p, k)
               /\ AgreementsOf(p, k)' = IF k = m THEN {} ELSE AgreementsOf(p, k)
               /\ WaitStageOf(p, k)' = WaitStageOf(p, k)
          /\ PhaseOf(p, m) = "waiting" /\ AgreementsOf(p, m) = answers[p]
      BY <1>0, <1>1, <1>3 DEF RecvOf, AcquiresOf, ConfirmationsOf, WaitsOf, PhaseOf, QueuedOf, RequestsOf,
       AgreementsOf, WaitStageOf, InWait, Releasing, commVars, countVars
    <2>2. UNCHANGED <<A!commVars, queuedBar, requestsBar, acquiresBar, A!condVars>>
      BY <1>1, <2>1, Stays DEF A!commVars, A!condVars, Nobody, commVars
    <2>3. phaseBar' = [phaseBar EXCEPT ![p][m] = "held"] /\ phaseBar[p][m] = "waiting"
      <3>1. phaseBar' = [phaseBar EXCEPT ![p][m] = "held"]
        BY <2>1, PhaseMoves
      <3> QED
        BY <2>1, <3>1, Mapped
    <2>4. agreementsBar' = [agreementsBar EXCEPT ![p][m] = {}]
      BY <2>1, AgreementsMoves
    <2>5. agreementsBar[p][m] = answers[p]
      BY <2>1, Mapped
    <2>6. A!AreAgreementsComplete(p, m)
      BY <1>1, <2>5 DEF A!AreAgreementsComplete
    <2>7. A!Acquired(p, m)
      BY <2>2, <2>3, <2>4, <2>6 DEF A!Acquired, A!SetPhase
    <2> QED
      BY <2>2, <2>7, MainNext DEF A!InCall
  <1> QED
    BY <1>2, <1>3

LEMMA CallReleaseStep ==
  ASSUME ThreadInv, NEW p \in Process, \A q \in Process : q # p => Unmoved(q),
         NEW m \in MutexName, CallRelease(p, m)
  PROVE  A!CondNext
  <1>1. /\ main[p] = "idle" /\ main'[p] = "answer" /\ owned[p][m] /\ answers[p] = {}
        /\ call'[p] = m /\ toAnswer'[p] = receivedRequests[p][m]
        /\ UNCHANGED <<commVars, receiving, frame, subscription, sent, owned, sharedVars>>
    BY DEF CallRelease, MainGoes, ThreadInv, LocalInv, ThreadTypeOK, MainInv, Subscribed
  <1>2. /\ RecvOf(p)' = RecvOf(p)
        /\ AcquiresOf(p)' = AcquiresOf(p)
        /\ ConfirmationsOf(p)' = ConfirmationsOf(p)
        /\ WaitsOf(p)' = WaitsOf(p)
        /\ \A k \in MutexName :
             /\ PhaseOf(p, k)' = IF k = m THEN "releasing" ELSE PhaseOf(p, k)
             /\ QueuedOf(p, k)' = QueuedOf(p, k)
             /\ RequestsOf(p, k)' = RequestsOf(p, k)
             /\ AgreementsOf(p, k)' = AgreementsOf(p, k)
             /\ WaitStageOf(p, k)' = WaitStageOf(p, k)
        /\ PhaseOf(p, m) = "held"
    BY <1>1 DEF RecvOf, AcquiresOf, ConfirmationsOf, WaitsOf, PhaseOf, QueuedOf, RequestsOf,
       AgreementsOf, WaitStageOf, InWait, Releasing, commVars, sharedVars, countVars
  <1>3. UNCHANGED <<A!commVars, queuedBar, requestsBar, agreementsBar, acquiresBar, A!condVars>>
    BY <1>1, <1>2, Stays DEF A!commVars, A!condVars, Nobody, commVars, sharedVars
  <1>4. phaseBar' = [phaseBar EXCEPT ![p][m] = "releasing"] /\ phaseBar[p][m] = "held"
    <2>1. phaseBar' = [phaseBar EXCEPT ![p][m] = "releasing"]
      BY <1>2, PhaseMoves
    <2> QED
      BY <1>2, <2>1, Mapped
  <1>5. A!Free(p) /\ A!Idle(p)
    BY <1>1, MainFree
  <1>6. A!Unlock(p, m)
    BY <1>3, <1>4, <1>5 DEF A!Unlock, A!SetPhase
  <1> QED
    BY <1>3, <1>5, <1>6, MainNext

LEMMA AnswerStep ==
  ASSUME ThreadInv, NEW p \in Process, \A q \in Process : q # p => Unmoved(q),
         NEW r \in Process, Answer(p, r)
  PROVE  A!CondNext
  <1>0. PICK m \in MutexName : m = call[p]
    BY DEF ThreadInv, LocalInv, ThreadTypeOK
  <1>1. /\ main[p] = "answer" /\ main'[p] = "answer"
        /\ r \in toAnswer[p] /\ toAnswer'[p] = toAnswer[p] \ {r}
        /\ UNCHANGED <<recv, receiving, call, frame, subscription, sent, owned, sharedVars>>
    BY DEF Answer, MainGoes, ThreadInv, LocalInv, ThreadTypeOK
  <1>2. A!Send(p, {r}, "MUTEX_AGREEMENT", m)
    BY <1>0, SendMapped DEF Answer
  <1>3. /\ RecvOf(p)' = RecvOf(p)
        /\ AcquiresOf(p)' = AcquiresOf(p)
        /\ ConfirmationsOf(p)' = ConfirmationsOf(p)
        /\ WaitsOf(p)' = WaitsOf(p)
        /\ \A k \in MutexName :
             /\ PhaseOf(p, k)' = PhaseOf(p, k)
             /\ QueuedOf(p, k)' = QueuedOf(p, k)
             /\ RequestsOf(p, k)' = IF k = m THEN toAnswer[p] \ {r} ELSE RequestsOf(p, k)
             /\ AgreementsOf(p, k)' = AgreementsOf(p, k)
             /\ WaitStageOf(p, k)' = WaitStageOf(p, k)
        /\ PhaseOf(p, m) = "releasing" /\ RequestsOf(p, m) = toAnswer[p]
    BY <1>0, <1>1 DEF RecvOf, AcquiresOf, ConfirmationsOf, WaitsOf, PhaseOf, QueuedOf, RequestsOf,
       AgreementsOf, WaitStageOf, InWait, Releasing, sharedVars, countVars
  <1>4. UNCHANGED <<recvBar, phaseBar, queuedBar, agreementsBar, acquiresBar, A!condVars>>
    BY <1>1, <1>3, Stays DEF A!condVars, Nobody, sharedVars
  <1>5. requestsBar' = [requestsBar EXCEPT ![p][m] = toAnswer[p] \ {r}]
    BY <1>3, RequestsMoves
  <1>6. phaseBar[p][m] = "releasing" /\ requestsBar[p][m] = toAnswer[p]
    BY <1>3, Mapped
  <1>7. A!AnswerDelayed(p, m, r)
    BY <1>1, <1>2, <1>4, <1>5, <1>6 DEF A!AnswerDelayed
  <1> QED
    BY <1>4, <1>7, MainNext, SameNames DEF A!InCall

LEMMA ClearStep ==
  ASSUME ThreadInv, NEW p \in Process, \A q \in Process : q # p => Unmoved(q), Clear(p)
  PROVE  A!CondNext
  <1>0. PICK m \in MutexName : m = call[p]
    BY DEF ThreadInv, LocalInv, ThreadTypeOK
  <1>1. /\ main[p] = "answer" /\ main'[p] = "unlocked" /\ toAnswer[p] = {}
        /\ owned[p][m] /\ answers[p] = {}
        /\ UNCHANGED <<commVars, receiving, callVars, conditionalWaits, answers, countVars>>
    BY <1>0 DEF Clear, MainGoes, ThreadInv, LocalInv, ThreadTypeOK, MainInv, Subscribed,
       Releasing, InWait
  <1>2. \A k \in MutexName :
          /\ receivedRequests'[p][k] = IF k = m THEN {} ELSE receivedRequests[p][k]
          /\ queuedMutexes'[p][k] = IF k = m THEN 0 ELSE queuedMutexes[p][k]
    BY <1>0 DEF Clear, ThreadInv, LocalInv, ThreadTypeOK
  <1>3. /\ RecvOf(p)' = RecvOf(p)
        /\ AcquiresOf(p)' = AcquiresOf(p)
        /\ ConfirmationsOf(p)' = ConfirmationsOf(p)
        /\ WaitsOf(p)' = WaitsOf(p)
        /\ \A k \in MutexName :
             /\ PhaseOf(p, k)' = IF k = m THEN "free" ELSE PhaseOf(p, k)
             /\ QueuedOf(p, k)' = IF k = m THEN 0 ELSE QueuedOf(p, k)
             /\ RequestsOf(p, k)' = RequestsOf(p, k)
             /\ AgreementsOf(p, k)' = AgreementsOf(p, k)
             /\ WaitStageOf(p, k)' = WaitStageOf(p, k)
        /\ PhaseOf(p, m) = "releasing" /\ RequestsOf(p, m) = {}
    BY <1>0, <1>1, <1>2 DEF RecvOf, AcquiresOf, ConfirmationsOf, WaitsOf, PhaseOf, QueuedOf, RequestsOf,
       AgreementsOf, WaitStageOf, InWait, Releasing, commVars, callVars, countVars
  <1>4. UNCHANGED <<A!commVars, requestsBar, agreementsBar, acquiresBar, A!condVars>>
    BY <1>1, <1>3, Stays DEF A!commVars, A!condVars, Nobody, commVars
  <1>5. phaseBar' = [phaseBar EXCEPT ![p][m] = "free"]
    BY <1>3, PhaseMoves
  <1>6. queuedBar' = [queuedBar EXCEPT ![p][m] = 0]
    BY <1>3, QueuedMoves
  <1>7. phaseBar[p][m] = "releasing" /\ requestsBar[p][m] = {}
    BY <1>3, Mapped
  <1>8. A!Released(p, m)
    BY <1>4, <1>5, <1>6, <1>7 DEF A!Released, A!SetPhase
  <1> QED
    BY <1>4, <1>8, MainNext DEF A!InCall

(* What a callback of the receiving thread leaves alone. *)
LEMMA MainStays ==
  ASSUME NEW p \in Process, \A q \in Process : q # p => Unmoved(q),
         UNCHANGED <<main, call, sent, toAnswer, owned, countVars>>
  PROVE  /\ UNCHANGED <<acquiresBar, callsBar, phaseBar, waitingBar, Nobody>>
         /\ UNCHANGED queuedMutexes => UNCHANGED queuedBar
         /\ UNCHANGED receivedRequests => UNCHANGED requestsBar
         /\ UNCHANGED answers => UNCHANGED <<agreementsBar, confirmationsBar>>
  <1> USE DEF countVars
  <1>1. /\ AcquiresOf(p)' = AcquiresOf(p)
        /\ WaitsOf(p)' = WaitsOf(p)
        /\ \A k \in MutexName : PhaseOf(p, k)' = PhaseOf(p, k)
        /\ \A k \in MutexName : WaitStageOf(p, k)' = WaitStageOf(p, k)
    BY DEF AcquiresOf, ConfirmationsOf, WaitsOf, PhaseOf, QueuedOf, RequestsOf,
       AgreementsOf, WaitStageOf, InWait, Releasing
  <1>2. UNCHANGED <<acquiresBar, callsBar, phaseBar, waitingBar, Nobody>>
    BY <1>1, Stays DEF Nobody
  <1>3. ASSUME UNCHANGED queuedMutexes
        PROVE  UNCHANGED queuedBar
    <2>1. \A k \in MutexName : QueuedOf(p, k)' = QueuedOf(p, k)
      BY <1>3 DEF QueuedOf
    <2> QED
      BY <2>1, Stays
  <1>4. ASSUME UNCHANGED receivedRequests
        PROVE  UNCHANGED requestsBar
    <2>1. \A k \in MutexName : RequestsOf(p, k)' = RequestsOf(p, k)
      BY <1>4 DEF RequestsOf
    <2> QED
      BY <2>1, Stays
  <1>5. ASSUME UNCHANGED answers
        PROVE  UNCHANGED <<agreementsBar, confirmationsBar>>
    <2>1. /\ \A k \in MutexName : AgreementsOf(p, k)' = AgreementsOf(p, k)
          /\ ConfirmationsOf(p)' = ConfirmationsOf(p)
      BY <1>5 DEF AgreementsOf, ConfirmationsOf, InWait
    <2> QED
      BY <2>1, Stays
  <1> QED
    BY <1>2, <1>3, <1>4, <1>5

LEMMA ReceivePacketStep ==
  ASSUME ThreadInv, NEW p \in Process, \A q \in Process : q # p => Unmoved(q), ReceivePacket(p)
  PROVE  A!CondNext
  <1>0. PICK q \in OtherProcesses(p) : Receive(p, q)
    BY DEF ReceivePacket
  <1>1. /\ receiving[p] = "receive" /\ receiving'[p] = "lock"
        /\ UNCHANGED <<main, callVars, sharedVars>>
    BY DEF ReceivePacket, ReceivingGoes, ThreadInv, LocalInv, ThreadTypeOK
  <1>2. UNCHANGED <<A!mutexVars, A!condVars>>
    BY <1>1, MainStays DEF A!mutexVars, A!condVars, callVars, sharedVars
  <1> DEFINE packet == Head(chan[q][p])
             got == Restamp(packet, ClockAfter(p, packet))
  <1>3. recv'[p] = got
    BY <1>0 DEF Receive, ThreadInv, LocalInv, ThreadTypeOK, CommTypeOK
  <1> HIDE DEF packet, got
  <1>4. RecvOf(p)' = got
    BY <1>1, <1>3 DEF RecvOf
  <1>5. recvBar' = [recvBar EXCEPT ![p] = got]
    BY <1>4 DEF RecvOf, recvBar, Unmoved
  <1>6. recvBar[p] = NoPacket
    BY <1>0, Mapped DEF RecvOf, Receive
  <1>7. A!Receive(p, q)
    BY <1>0, <1>5, <1>6 DEF A!Receive, Receive, packet, got, Restamp, ClockAfter, A!Restamp,
       A!ClockAfter
  <1>8. A!ReceiveAny(p)
    BY <1>2, <1>7, SameNames DEF A!ReceiveAny
  <1> QED
    BY <1>2, <1>8, ReceivingNext DEF A!CondReceiver, A!Receiver

(* A callback has its effect: its packet counts as handled. *)
LEMMA Handled ==
  ASSUME ThreadInv, NEW p \in Process, \A q \in Process : q # p => Unmoved(q),
         receiving[p] \in {"request", "table", "add"}, receiving'[p] \in {"done", "notify"}
  PROVE  A!Dispatched(p) /\ recvBar[p] = recv[p] /\ recv[p] # NoPacket
  <1>1. RecvOf(p)' = NoPacket
    BY DEF RecvOf
  <1>2. recvBar' = [recvBar EXCEPT ![p] = NoPacket]
    BY <1>1, RecvMoves
  <1>3. recvBar[p] = recv[p]
    BY Mapped DEF RecvOf
  <1> QED
    BY <1>2, <1>3 DEF A!Dispatched, ThreadInv, LocalInv, ReceivingInv

LEMMA AnswerRequestStep ==
  ASSUME ThreadInv, NEW p \in Process, \A q \in Process : q # p => Unmoved(q), AnswerRequest(p)
  PROVE  A!CondNext
  <1> DEFINE m == recv[p].message
             s == recv[p].source
  <1>1. /\ receiving[p] = "request" /\ receiving'[p] = "done"
        /\ main[p] # "record" /\ main[p] # "answer"
        /\ InHand(p, "MUTEX_REQUEST")
        /\ UNCHANGED <<recv, main, callVars, queuedMutexes, conditionalWaits, answers, countVars>>
    BY DEF AnswerRequest, ReceivingGoes, QueuedFree, ThreadInv, LocalInv, ThreadTypeOK,
       ReceivingInv
  <1>2. /\ A!Dispatched(p) /\ recvBar[p] = recv[p] /\ recv[p] # NoPacket
        /\ A!InHand(p, "MUTEX_REQUEST")
    BY <1>1, Handled DEF InHand, A!InHand
  <1>3. m \in MutexName
    <2>1. PICK q \in A!OtherProcesses(p) : A!Genuine(recv[p], q)
      BY <1>2, SameNames DEF ThreadInv, A!CondInv, A!IInv, A!PacketInv
    <2> QED
      BY <1>1, <2>1 DEF A!Genuine, InHand
  <1>4. ~A!MutexStateLocked(p)
    <2>1. \A k \in MutexName : PhaseOf(p, k) # "releasing"
      BY <1>1 DEF PhaseOf, Releasing
    <2> QED
      BY <2>1, Mapped DEF A!MutexStateLocked
  <1>5. A!CanSendAgreement(p, recv[p]) <=> MayAgree(p, recv[p])
    <2>1. queuedBar[p][m] = queuedMutexes[p][m]
      BY <1>1, <1>3, Mapped DEF QueuedOf
    <2> QED
      BY <2>1 DEF A!CanSendAgreement, MayAgree
  <1>6. /\ UNCHANGED <<phaseBar, queuedBar, agreementsBar, acquiresBar, A!condVars>>
        /\ UNCHANGED receivedRequests => UNCHANGED requestsBar
    BY <1>1, MainStays DEF A!condVars, callVars
  <1>7. recv[p] \in A!Received(p)
    BY <1>2, SenderInHand
  <1>8. CASE MayAgree(p, recv[p]) /\ Send(p, {s}, "MUTEX_AGREEMENT", m) /\ UNCHANGED receivedRequests
    <2>1. A!Send(p, {s}, "MUTEX_AGREEMENT", m)
      BY <1>8, SendMapped
    <2>2. A!ProcessRequest(p)
      BY <1>2, <1>4, <1>5, <1>6, <1>7, <1>8, <2>1 DEF A!ProcessRequest
    <2> QED
      BY <1>6, <2>2, ReceivingNext DEF A!CondReceiver, A!Receiver
  <1>9. CASE /\ ~MayAgree(p, recv[p])
             /\ receivedRequests' = [receivedRequests EXCEPT ![p][m] = @ \cup {s}]
             /\ UNCHANGED <<clock, chan>>
    <2> HIDE DEF m, s
    <2>1. \A k \in MutexName :
            RequestsOf(p, k)' = IF k = m THEN RequestsOf(p, m) \cup {s} ELSE RequestsOf(p, k)
      BY <1>1, <1>3, <1>9 DEF RequestsOf, ThreadInv, LocalInv, ThreadTypeOK
    <2>2. PICK n \in MutexName : n = m
      BY <1>3
    <2>4. requestsBar' = [requestsBar EXCEPT ![p][n] = RequestsOf(p, n) \cup {s}]
      BY <2>1, <2>2, RequestsMoves
    <2>5. requestsBar[p][n] = RequestsOf(p, n)
      BY Mapped
    <2>6. requestsBar' = [requestsBar EXCEPT ![p][m] = @ \cup {s}]
      BY <2>2, <2>4, <2>5
    <2>7. A!ProcessRequest(p)
      BY <1>2, <1>4, <1>5, <1>6, <1>7, <1>9, <2>6 DEF A!ProcessRequest, m, s
    <2> QED
      BY <1>6, <2>7, ReceivingNext DEF A!CondReceiver, A!Receiver
  <1> QED
    BY <1>8, <1>9 DEF AnswerRequest

LEMMA ListWaiterStep ==
  ASSUME ThreadInv, NEW p \in Process, \A q \in Process : q # p => Unmoved(q), ListWaiter(p)
  PROVE  A!CondNext
  <1> DEFINE c == recv[p].message
             w == [lamportTime |-> recv[p].lamportTime, source |-> recv[p].source]
             taken == \E v \in conditionalWaits[p][c] : v.lamportTime = w.lamportTime
  <1>1. /\ receiving[p] = "table" /\ receiving'[p] = "done" /\ InHand(p, "COND_WAIT")
        /\ conditionalWaits' = [conditionalWaits EXCEPT ![p][c] = @ \cup {w}]
        /\ UNCHANGED <<commVars, main, callVars, queuedMutexes, receivedRequests, answers,
                       countVars>>
    BY DEF ListWaiter, ReceivingGoes, ThreadInv, LocalInv, ThreadTypeOK
  <1>2. /\ A!Dispatched(p) /\ recvBar[p] = recv[p] /\ recv[p] # NoPacket
        /\ A!InHand(p, "COND_WAIT")
    BY <1>1, Handled DEF InHand, A!InHand
  <1>3. recv[p] \in A!Received(p)
    BY <1>2, SenderInHand
  <1>4. ~taken
    BY <1>1, <1>2, WaiterInHand
  <1>5. /\ UNCHANGED <<A!mutexVars, waitingBar, confirmationsBar, Nobody, callsBar>>
        /\ UNCHANGED <<clock, chan>>
    BY <1>1, MainStays DEF A!mutexVars, commVars, callVars
  <1>6. conditionalWaits' = [conditionalWaits EXCEPT ![p][c] = IF taken THEN @ ELSE @ \cup {w}]
    BY <1>1, <1>4
  <1>7. A!ListWaiter(p)
    BY <1>2, <1>3, <1>5, <1>6 DEF A!ListWaiter
  <1> QED
    BY <1>7, ReceivingNext DEF A!CondReceiver, A!CondCallback

LEMMA EraseWaitersStep ==
  ASSUME ThreadInv, NEW p \in Process, \A q \in Process : q # p => Unmoved(q), EraseWaiters(p)
  PROVE  A!CondNext
  <1>1. /\ receiving[p] = "table" /\ receiving'[p] = "done" /\ InHand(p, "COND_WAIT_END")
        /\ conditionalWaits' = [conditionalWaits EXCEPT ![p][recv[p].message] = {}]
        /\ UNCHANGED <<recv, main, callVars, queuedMutexes, receivedRequests, answers, countVars>>
    BY DEF EraseWaiters, ReceivingGoes, ThreadInv, LocalInv, ThreadTypeOK
  <1>2. /\ A!Dispatched(p) /\ recvBar[p] = recv[p] /\ recv[p] # NoPacket
        /\ A!InHand(p, "COND_WAIT_END")
    BY <1>1, Handled DEF InHand, A!InHand
  <1>3. A!Send(p, {recv[p].source}, "COND_WAIT_END_CONFIRM", recv[p].message)
    BY SendMapped DEF EraseWaiters
  <1>4. UNCHANGED <<A!mutexVars, waitingBar, confirmationsBar, Nobody, callsBar>>
    BY <1>1, MainStays DEF A!mutexVars, callVars
  <1>5. A!EraseWaiters(p)
    BY <1>1, <1>2, <1>3, <1>4 DEF A!EraseWaiters
  <1> QED
    BY <1>5, ReceivingNext DEF A!CondReceiver, A!CondCallback

LEMMA AddAnswerStep ==
  ASSUME ThreadInv, NEW p \in Process, \A q \in Process : q # p => Unmoved(q), AddAnswer(p)
  PROVE  A!CondNext
  <1>0. PICK m \in MutexName : m = call[p]
    BY DEF ThreadInv, LocalInv, ThreadTypeOK
  <1>1. /\ receiving[p] = "add" /\ receiving'[p] \in {"done", "notify"}
        /\ InHand(p, "MUTEX_AGREEMENT") => QueuedFree(p) /\ queuedMutexes[p][recv[p].message] # 0
        /\ answers' = [answers EXCEPT ![p] = @ \cup {recv[p].source}]
        /\ UNCHANGED <<commVars, main, callVars, queuedMutexes, receivedRequests,
                       conditionalWaits, countVars>>
    BY DEF AddAnswer, Answerer, ReceivingGoes, ThreadInv, LocalInv, ThreadTypeOK
  <1>2. A!Dispatched(p) /\ recvBar[p] = recv[p] /\ recv[p] # NoPacket
    BY <1>1, Handled
  <1>3. recv[p].message = m /\ WantsAnswer(p)
    BY <1>0, <1>1 DEF ThreadInv, LocalInv, ReceivingInv, WantsAnswer
  <1>4. /\ UNCHANGED <<acquiresBar, callsBar, phaseBar, waitingBar, Nobody, queuedBar, requestsBar>>
        /\ UNCHANGED <<clock, chan, conditionalWaits>>
    BY <1>1, MainStays DEF commVars, callVars
  <1>5. answers'[p] = answers[p] \cup {recv[p].source}
    BY <1>1 DEF ThreadInv, LocalInv, ThreadTypeOK
  <1>6. CASE InWait(p)
    <2>1. A!InHand(p, "COND_WAIT_END_CONFIRM") /\ waitingBar[p][m] = "confirming"
      BY <1>2, <1>3, <1>6, ConfirmationInHand DEF WantsAnswer, InHand, A!InHand
    <2>2. /\ ConfirmationsOf(p) = answers[p] /\ ConfirmationsOf(p)' = answers[p] \cup {recv[p].source}
          /\ \A k \in MutexName : AgreementsOf(p, k)' = AgreementsOf(p, k)
      BY <1>1, <1>5, <1>6 DEF ConfirmationsOf, AgreementsOf, InWait, callVars
    <2>3. confirmationsBar' = [confirmationsBar EXCEPT ![p] = answers[p] \cup {recv[p].source}]
      BY <2>2, ConfirmationsMoves
    <2>4. confirmationsBar[p] = answers[p] /\ UNCHANGED agreementsBar
      BY <2>2, Mapped, Stays
    <2>5. A!AddConfirmation(p)
      BY <1>2, <1>3, <1>4, <2>1, <2>3, <2>4 DEF A!AddConfirmation, A!mutexVars
    <2> QED
      BY <2>5, ReceivingNext DEF A!CondReceiver, A!CondCallback
  <1>7. CASE ~InWait(p)
    <2>1. /\ A!InHand(p, "MUTEX_AGREEMENT") /\ InHand(p, "MUTEX_AGREEMENT")
          /\ A!AgreementSubscribed(p, m)
      BY <1>2, <1>3, <1>7, AgreementInHand DEF WantsAnswer, InHand, A!InHand
    <2>2. ~A!MutexStateLocked(p)
      <3>1. \A k \in MutexName : PhaseOf(p, k) # "releasing"
        BY <1>1, <2>1 DEF PhaseOf, Releasing, QueuedFree
      <3> QED
        BY <3>1, Mapped DEF A!MutexStateLocked
    <2>3. queuedBar[p][m] # 0
      BY <1>1, <1>3, <2>1, Mapped DEF QueuedOf, QueuedFree
    <2>4. /\ ConfirmationsOf(p)' = ConfirmationsOf(p) /\ AgreementsOf(p, m) = answers[p]
          /\ \A k \in MutexName : AgreementsOf(p, k)' =
               IF k = m THEN answers[p] \cup {recv[p].source} ELSE AgreementsOf(p, k)
      BY <1>0, <1>1, <1>5, <1>7 DEF ConfirmationsOf, AgreementsOf, InWait, callVars
    <2>5. agreementsBar' = [agreementsBar EXCEPT ![p][m] = answers[p] \cup {recv[p].source}]
      BY <2>4, AgreementsMoves
    <2>6. agreementsBar[p][m] = answers[p] /\ UNCHANGED confirmationsBar
      BY <2>4, Mapped, Stays
    <2>7. A!AddAgreement(p)
      BY <1>2, <1>3, <1>4, <2>1, <2>2, <2>3, <2>5, <2>6 DEF A!AddAgreement
    <2>8. UNCHANGED A!condVars
      BY <1>4, <2>6 DEF A!condVars
    <2> QED
      BY <2>7, <2>8, ReceivingNext DEF A!CondReceiver, A!Receiver
  <1> QED
    BY <1>6, <1>7

-----------------------------------------------------------------------------
(* Every step is a step of ConditionVariable or a stutter. *)

LEMMA OthersUnmoved ==
  ASSUME ThreadInv, NEW p \in Process, StepOf(p)
  PROVE  \A q \in Process : q # p => Unmoved(q)
  BY MainUnmoved, ReceivingUnmoved DEF ThreadInv, LocalInv, StepOf

LEMMA StutterIfHidden ==
  ASSUME ThreadInv, NEW p \in Process, StepOf(p), Hidden(p),
         UNCHANGED <<clock, chan, conditionalWaits>>
  PROVE  UNCHANGED A!allCondVars
  BY OthersUnmoved, Stutter

LEMMA MainMapped ==
  ASSUME ThreadInv, NEW p \in Process, StepOf(p), MainThread(p)
  PROVE  A!CondNext \/ UNCHANGED A!allCondVars
  <1> USE OthersUnmoved DEF commVars, sharedVars
  <1>1. CASE Register(p) \/ Listen(p) \/ Hear(p) \/ LockAnswers(p) \/ Test(p) \/ Unhear(p)
    <2>1. UNCHANGED <<clock, chan, conditionalWaits>>
      BY <1>1 DEF Register, Listen, Hear, LockAnswers, Test, Unhear
    <2> QED
      BY <1>1, <2>1, MainHidden, StutterIfHidden
  <1>2. CASE Subscribe(p)
    <2>1. UNCHANGED <<clock, chan, conditionalWaits>>
      BY <1>2 DEF Subscribe
    <2> QED
      BY <1>2, <2>1, MainHidden, StutterIfHidden, SubscribeStep
  <1>3. CASE Record(p)
    <2>1. UNCHANGED <<clock, chan, conditionalWaits>>
      BY <1>3 DEF Record
    <2> QED
      BY <1>3, <2>1, RecordHidden, StutterIfHidden
  <1>4. CASE Return(p)
    <2>1. UNCHANGED <<clock, chan, conditionalWaits>>
      BY <1>4 DEF Return
    <2> QED
      BY <1>4, <2>1, ReturnHidden, StutterIfHidden
  <1>5. CASE Unlocked(p)
    <2>1. UNCHANGED <<clock, chan, conditionalWaits>>
      BY <1>5 DEF Unlocked
    <2> QED
      BY <1>5, <2>1, UnlockedHidden, StutterIfHidden
  <1>6. CASE Announce(p) \/ SendWaitEnd(p) \/ SendRequests(p) \/ Unsubscribe(p) \/ Clear(p)
    BY <1>6, AnnounceStep, SendWaitEndStep, SendRequestsStep, UnsubscribeStep, ClearStep
  <1>7. CASE \E m \in MutexName : CallRelease(p, m)
    BY <1>7, CallReleaseStep
  <1>8. CASE \E r \in Process : Answer(p, r)
    BY <1>8, AnswerStep
  <1> QED
    BY <1>1, <1>2, <1>3, <1>4, <1>5, <1>6, <1>7, <1>8 DEF MainThread

LEMMA ReceivingMapped ==
  ASSUME ThreadInv, NEW p \in Process, StepOf(p), ReceivingThread(p)
  PROVE  A!CondNext \/ UNCHANGED A!allCondVars
  <1> USE OthersUnmoved
  <1>1. CASE StartCallback(p) \/ LockForAnswer(p) \/ EndCallback(p)
    BY <1>1, ReceivingHidden, StutterIfHidden
  <1>2. CASE NotifyMain(p)
    <2>1. UNCHANGED <<clock, chan, conditionalWaits>>
      BY <1>2 DEF NotifyMain, commVars, sharedVars
    <2> QED
      BY <1>2, <2>1, MainHidden, StutterIfHidden
  <1>3. CASE ReceivePacket(p) \/ AnswerRequest(p) \/ ListWaiter(p) \/ EraseWaiters(p)
             \/ AddAnswer(p)
    BY <1>3, ReceivePacketStep, AnswerRequestStep, ListWaiterStep, EraseWaitersStep, AddAnswerStep
  <1> QED
    BY <1>1, <1>2, <1>3 DEF ReceivingThread

LEMMA StepMapped ==
  ASSUME ThreadInv, NEW p \in Process, StepOf(p)
  PROVE  A!CondNext \/ UNCHANGED A!allCondVars
  <1>1. ASSUME NEW m \in MutexName, CallAcquire(p, m) \/ CallWait(p, m)
        PROVE  UNCHANGED A!allCondVars
    <2>1. UNCHANGED <<clock, chan, conditionalWaits>>
      BY <1>1 DEF CallAcquire, CallWait, commVars
    <2> QED
      BY <1>1, <2>1, CallHidden, StutterIfHidden
  <1>2. CASE WakeSpuriously(p)
    <2>1. UNCHANGED <<clock, chan, conditionalWaits>>
      BY <1>2 DEF WakeSpuriously, commVars, sharedVars
    <2> QED
      BY <1>2, <2>1, MainHidden, StutterIfHidden
  <1> QED
    BY <1>1, <1>2, MainMapped, ReceivingMapped DEF StepOf

(* All the mapped variables depend only on those of Threads. *)
LEMMA IdleMapped ==
  ASSUME UNCHANGED threadVars
  PROVE  UNCHANGED A!allCondVars
  <1>1. \A q \in Process : Unmoved(q)
    BY DEF threadVars, callVars, sharedVars, countVars, commVars, Unmoved
  <1>2. /\ UNCHANGED <<recvBar, acquiresBar, confirmationsBar, callsBar>>
        /\ UNCHANGED <<phaseBar, queuedBar, requestsBar, agreementsBar, waitingBar>>
    BY <1>1, UnmovedMapped DEF recvBar, acquiresBar, confirmationsBar, callsBar, phaseBar,
       queuedBar, requestsBar, agreementsBar, waitingBar
  <1>3. UNCHANGED <<clock, chan, conditionalWaits>>
    BY DEF threadVars, commVars, sharedVars
  <1> QED
    BY <1>2, <1>3 DEF A!allCondVars, A!vars, A!condVars, A!commVars, A!mutexVars, Nobody

LEMMA NextMapped ==
  ASSUME ThreadInv, [ThreadNext]_threadVars
  PROVE  [A!CondNext]_(A!allCondVars) /\ A!CondInv' /\ A!TakenInv'
  <1>1. ASSUME ThreadNext
        PROVE  \E p \in Process : StepOf(p)
    BY <1>1 DEF ThreadNext, StepOf
  <1>2. [A!CondNext]_(A!allCondVars)
    BY <1>1, StepMapped, IdleMapped
  <1> QED
    BY <1>2, AtomicStep DEF ThreadInv

-----------------------------------------------------------------------------
(* The types, and the kinds of packets. *)

(* What the mapped variables share with those of Threads has its type. *)
LEMMA SharedTypes ==
  ASSUME ThreadInv, NEW p \in Process, StepOf(p)
  PROVE  /\ clock' \in [Process -> Nat]
         /\ chan' \in [Process -> [Process -> Seq(Packet)]]
         /\ conditionalWaits' \in
              [Process -> [MutexName -> SUBSET [lamportTime : Nat, source : Process]]]
         /\ RecvOf(p)' \in Packet \cup {NoPacket}
  <1>1. ThreadNext
    BY DEF ThreadNext, StepOf
  <1>2. A!CondTypeOK'
    BY <1>1, NextMapped DEF A!CondInv
  <1>3. recvBar'[p] \in Packet \cup {NoPacket}
    BY <1>2, SameNames DEF A!CondTypeOK, A!TypeOK, A!CommTypeOK
  <1>4. recvBar'[p] = RecvOf(p)'
    BY DEF recvBar
  <1> QED
    BY <1>2, <1>3, <1>4, SameNames DEF A!CondTypeOK, A!TypeOK, A!CommTypeOK, A!Waiter

(* The types of the variables that belong to the threads alone. *)
OwnTypes ==
  /\ main \in [Process -> {"idle"} \cup Starting \cup Calling \cup Releasing]
  /\ call \in [Process -> MutexName]
  /\ receiving \in [Process -> {"off", "receive", "lock", "request", "table", "answer",
                                "add", "notify", "done"}]
  /\ frame \in [Process -> Nat] /\ subscription \in [Process -> Nat]
  /\ \A p \in Process : {frame[p], subscription[p]} \subseteq 0 .. CallNumber(p)
  /\ sent \in [Process -> Nat]
  /\ toAnswer \in [Process -> SUBSET Process]
  /\ owned \in [Process -> [MutexName -> BOOLEAN]]
  /\ queuedMutexes \in [Process -> [MutexName -> Nat]]
  /\ receivedRequests \in [Process -> [MutexName -> SUBSET Process]]
  /\ answers \in [Process -> SUBSET Process]
  /\ acquires \in [Process -> Nat] /\ waits \in [Process -> Nat]

LEMMA MainTypes ==
  ASSUME ThreadInv, NEW p \in Process, MainThread(p) \/ WakeSpuriously(p)
  PROVE  OwnTypes'
  <1> USE DEF ThreadInv, LocalInv, ThreadTypeOK, OwnTypes, MainGoes, ReceivingGoes, Starting,
              Calling, Releasing, callVars, sharedVars, countVars, CallNumber
  <1>1. CASE Register(p) \/ Hear(p) \/ Announce(p) \/ SendWaitEnd(p) \/ LockAnswers(p)
             \/ WakeSpuriously(p) \/ Unhear(p)
    <2>1. main' \in [Process -> {"idle"} \cup Starting \cup Calling \cup Releasing]
      BY <1>1 DEF Register, Hear, Announce, SendWaitEnd, LockAnswers, WakeSpuriously, Unhear
    <2>2. UNCHANGED <<receiving, callVars, sharedVars>>
      BY <1>1 DEF Register, Hear, Announce, SendWaitEnd, LockAnswers, WakeSpuriously, Unhear
    <2> QED
      BY <2>1, <2>2
  <1>2. CASE Listen(p)
    BY <1>2 DEF Listen
  <1>3. CASE Test(p)
    BY <1>3 DEF Test
  <1>4. CASE Subscribe(p)
    <2>1. CallNumber(p) \in 0 .. CallNumber(p)
      BY Counts
    <2> QED
      BY <1>4, <2>1 DEF Subscribe
  <1>5. CASE SendRequests(p)
    <2>1. clock[p] + 1 \in Nat
      BY DEF CommTypeOK
    <2> QED
      BY <1>5, <2>1 DEF SendRequests
  <1>6. CASE Record(p)
    BY <1>6 DEF Record
  <1>7. CASE Unsubscribe(p)
    <2>1. 0 \in 0 .. CallNumber(p)
      BY Counts
    <2> QED
      BY <1>7, <2>1 DEF Unsubscribe
  <1>8. CASE Return(p)
    BY <1>8 DEF Return
  <1>9. CASE Unlocked(p)
    BY <1>9 DEF Unlocked
  <1>10. ASSUME NEW m \in MutexName, CallRelease(p, m)
         PROVE  OwnTypes'
    BY <1>10 DEF CallRelease
  <1>11. ASSUME NEW r \in Process, Answer(p, r)
         PROVE  OwnTypes'
    BY <1>11 DEF Answer
  <1>12. CASE Clear(p)
    BY <1>12 DEF Clear
  <1> QED
    BY <1>1, <1>2, <1>3, <1>4, <1>5, <1>6, <1>7, <1>8, <1>9, <1>10, <1>11, <1>12
    DEF MainThread

LEMMA CallTypes ==
  ASSUME ThreadInv, NEW p \in Process, NEW m \in MutexName, CallAcquire(p, m) \/ CallWait(p, m)
  PROVE  OwnTypes'
  <1> USE DEF ThreadInv, LocalInv, ThreadTypeOK, OwnTypes, MainGoes, Starting, Calling, Releasing
  <1>1. /\ main' \in [Process -> {"idle"} \cup Starting \cup Calling \cup Releasing]
        /\ call' \in [Process -> MutexName]
        /\ acquires' \in [Process -> Nat] /\ waits' \in [Process -> Nat]
        /\ UNCHANGED <<receiving, frame, subscription, sent, toAnswer, owned, queuedMutexes,
                       receivedRequests, answers>>
    <2>1. CASE CallAcquire(p, m)
      BY <2>1 DEF CallAcquire
    <2>2. CASE CallWait(p, m)
      BY <2>2 DEF CallWait
    <2> QED
      BY <2>1, <2>2
  <1>2. ASSUME NEW q \in Process
        PROVE  CallNumber(q)' >= CallNumber(q)
    <2>1. CASE CallAcquire(p, m)
      BY <2>1 DEF CallNumber, CallAcquire
    <2>2. CASE CallWait(p, m)
      BY <2>2 DEF CallNumber, CallWait
    <2> QED
      BY <2>1, <2>2
  <1>3. ASSUME NEW q \in Process
        PROVE  CallNumber(q)' \in Nat /\ CallNumber(q) \in Nat
    BY <1>1, Counts DEF CallNumber
  <1>4. \A q \in Process : {frame[q], subscription[q]}' \subseteq (0 .. CallNumber(q))'
    BY <1>1, <1>2, <1>3
  <1> QED
    BY <1>1, <1>4

LEMMA Added ==
  ASSUME NEW V, NEW f \in [Process -> [MutexName -> SUBSET V]], NEW q \in Process, NEW m,
         NEW v \in V
  PROVE  [f EXCEPT ![q][m] = @ \cup {v}] \in [Process -> [MutexName -> SUBSET V]]
  <1> DEFINE row == [f[q] EXCEPT ![m] = f[q][m] \cup {v}]
  <1>1. \A k \in MutexName : row[k] = IF k = m THEN f[q][k] \cup {v} ELSE f[q][k]
    OBVIOUS
  <1>2. \A k \in MutexName : row[k] \in SUBSET V
    BY <1>1
  <1>3. row \in [MutexName -> SUBSET V]
    BY <1>2
  <1> HIDE DEF row
  <1>4. [f EXCEPT ![q] = row] \in [Process -> [MutexName -> SUBSET V]]
    BY <1>3
  <1> QED
    BY <1>4 DEF row

LEMMA ReceivingTypes ==
  ASSUME ThreadInv, NEW p \in Process, ReceivingThread(p)
  PROVE  OwnTypes'
  <1>0. recv[p] # NoPacket /\ RecvOf(p) = recv[p] => recv[p].source \in Process
    BY Mapped, SenderInHand, Ranks DEF ThreadInv, LocalInv
  <1> USE DEF ThreadInv, LocalInv, ThreadTypeOK, OwnTypes, MainGoes, ReceivingGoes, Starting,
              Calling, Releasing, callVars, sharedVars, countVars, CallNumber
  <1>1. CASE ReceivePacket(p) \/ EndCallback(p) \/ LockForAnswer(p)
    <2>1. /\ receiving' \in [Process -> {"off", "receive", "lock", "request", "table", "answer",
                                "add", "notify", "done"}]
          /\ UNCHANGED <<main, callVars, sharedVars>>
      BY <1>1 DEF ReceivePacket, EndCallback, LockForAnswer
    <2> QED
      BY <2>1
  <1>2. CASE StartCallback(p)
    <2>1. frame' = frame \/ frame' = [frame EXCEPT ![p] = subscription[p]]
      BY <1>2 DEF StartCallback
    <2>5. \E step \in {"request", "table", "answer"} : receiving' = [receiving EXCEPT ![p] = step]
      BY <1>2 DEF StartCallback
    <2>2. /\ receiving' \in [Process -> {"off", "receive", "lock", "request", "table", "answer",
                                "add", "notify", "done"}]
          /\ UNCHANGED <<commVars, main, call, subscription, sent, toAnswer, owned, sharedVars>>
      BY <1>2, <2>5 DEF StartCallback
    <2>3. \A q \in Process : frame'[q] \in {frame[q], subscription[q]}
      BY <2>1
    <2>4. frame' \in [Process -> Nat]
      BY <2>1
    <2> QED
      BY <2>2, <2>3, <2>4
  <1>3. CASE AnswerRequest(p)
    <2>1. recv[p].source \in Process
      BY <1>0, <1>3 DEF AnswerRequest, RecvOf, ReceivingInv, InHand
    <2>2. \/ UNCHANGED receivedRequests
          \/ receivedRequests' =
               [receivedRequests EXCEPT ![p][recv[p].message] = @ \cup {recv[p].source}]
      BY <1>3 DEF AnswerRequest
    <2>3. receivedRequests' \in [Process -> [MutexName -> SUBSET Process]]
      <3>1. CASE receivedRequests' =
               [receivedRequests EXCEPT ![p][recv[p].message] = @ \cup {recv[p].source}]
        <4>1. receivedRequests \in [Process -> [MutexName -> SUBSET Process]]
          OBVIOUS
        <4>2. [receivedRequests EXCEPT ![p][recv[p].message] = @ \cup {recv[p].source}]
                \in [Process -> [MutexName -> SUBSET Process]]
          BY ONLY <2>1, <4>1, Added, p \in Process
        <4> QED
          BY <3>1, <4>2
      <3> QED
        BY <2>2, <3>1
    <2> QED
      BY <1>3, <2>3 DEF AnswerRequest
  <1>4. CASE ListWaiter(p) \/ EraseWaiters(p)
    <2>1. /\ receiving' \in [Process -> {"off", "receive", "lock", "request", "table", "answer",
                                "add", "notify", "done"}]
          /\ UNCHANGED <<main, callVars, queuedMutexes, receivedRequests, answers, countVars>>
      BY <1>4 DEF ListWaiter, EraseWaiters
    <2> QED
      BY <2>1
  <1>5. CASE AddAnswer(p)
    <2>1. recv[p].source \in Process
      BY <1>5, StillMissing, Ranks DEF AddAnswer
    <2> QED
      BY <1>5, <2>1 DEF AddAnswer, Answerer
  <1>6. CASE NotifyMain(p)
    BY <1>6 DEF NotifyMain
  <1> QED
    BY <1>1, <1>2, <1>3, <1>4, <1>5, <1>6 DEF ReceivingThread

LEMMA TypesStay ==
  ASSUME ThreadInv, NEW p \in Process, StepOf(p)
  PROVE  ThreadTypeOK'
  <1>1. OwnTypes'
    BY MainTypes, CallTypes, ReceivingTypes DEF StepOf
  <1>2. recv' \in [Process -> Packet \cup {NoPacket}]
    <2> USE DEF ThreadInv, LocalInv, ThreadTypeOK, CommTypeOK, commVars
    <2>1. CASE MainThread(p) \/ WakeSpuriously(p)
               \/ \E m \in MutexName : CallAcquire(p, m) \/ CallWait(p, m)
      <3>1. UNCHANGED recv
        BY <2>1 DEF MainThread, WakeSpuriously, CallAcquire, CallWait, Register, Listen, Hear,
           Announce, Subscribe, SendWaitEnd, SendRequests, Record, LockAnswers, Test, Unhear,
           Unsubscribe, Return, CallRelease, Answer, Clear, Unlocked
      <3> QED
        BY <3>1
    <2>2. CASE ReceivePacket(p)
      <3>1. \E v : recv' = [recv EXCEPT ![p] = v]
        BY <2>2 DEF ReceivePacket, Receive
      <3>2. recv'[p] \in Packet \cup {NoPacket}
        BY <2>2, SharedTypes DEF ReceivePacket, RecvOf, ReceivingGoes
      <3> QED
        BY <3>1, <3>2
    <2>3. CASE EndCallback(p)
      BY <2>3 DEF EndCallback, Dispatched
    <2>4. CASE ReceivingThread(p) /\ ~ReceivePacket(p) /\ ~EndCallback(p)
      <3>1. UNCHANGED recv
        BY <2>4 DEF ReceivingThread, StartCallback, AnswerRequest, ListWaiter, EraseWaiters,
           LockForAnswer, AddAnswer, NotifyMain
      <3> QED
        BY <3>1
    <2> QED
      BY <2>1, <2>2, <2>3, <2>4 DEF StepOf
  <1> QED
    BY <1>1, <1>2, SharedTypes DEF OwnTypes, ThreadTypeOK, CommTypeOK

-----------------------------------------------------------------------------
(* What is said of the two threads of p, after a step of p. *)

LEMMA OnItsWay ==
  ASSUME ThreadInv, NEW p \in Process,
         \/ Register(p) \/ Hear(p) \/ Announce(p) \/ SendWaitEnd(p) \/ LockAnswers(p) \/ Test(p)
         \/ WakeSpuriously(p) \/ Unhear(p)
  PROVE  MainInv(p)' /\ ReceivingInv(p)'
  <1>1. UNCHANGED <<recv, receiving, callVars, sharedVars>>
    BY DEF Register, Hear, Announce, SendWaitEnd, LockAnswers, Test, WakeSpuriously, Unhear,
       commVars
  <1>2. \/ main[p] = "register" /\ main'[p] = "listen"
        \/ main[p] = "hear" /\ main'[p] = "announce"
        \/ main[p] = "announce" /\ main'[p] = "subscribe"
        \/ main[p] = "queue" /\ main'[p] = "answers"
        \/ main[p] = "answers" /\ main'[p] = "test" /\ receiving[p] # "add"
        \/ main[p] = "test" /\ main'[p] = "asleep"
        \/ main[p] = "test" /\ main'[p] = "unhear" /\ AreAnswersComplete(p) /\ InWait(p)
        \/ main[p] = "test" /\ main'[p] = "unsubscribe" /\ AreAnswersComplete(p)
        \/ main[p] = "asleep" /\ main'[p] = "answers"
        \/ main[p] = "unhear" /\ main'[p] = "unsubscribe"
    <2> USE DEF MainGoes, ThreadInv, LocalInv, ThreadTypeOK
    <2>1. CASE Test(p)
      BY <2>1 DEF Test
    <2>2. CASE LockAnswers(p)
      BY <2>2 DEF LockAnswers, AnswersFree
    <2>3. CASE Register(p) \/ Hear(p) \/ Announce(p) \/ SendWaitEnd(p) \/ WakeSpuriously(p)
               \/ Unhear(p)
      BY <2>3 DEF Register, Hear, Announce, SendWaitEnd, WakeSpuriously, Unhear
    <2> QED
      BY <2>1, <2>2, <2>3
  <1>3. MainInv(p) /\ ReceivingInv(p)
    BY DEF ThreadInv, LocalInv
  <1>4. /\ subscription'[p] = subscription[p] /\ frame'[p] = frame[p] /\ recv'[p] = recv[p]
        /\ receiving'[p] = receiving[p] /\ InWait(p)' = InWait(p) /\ answers'[p] = answers[p]
        /\ CallNumber(p)' = CallNumber(p) /\ acquires'[p] = acquires[p] /\ waits'[p] = waits[p]
        /\ WantsAnswer(p)' = WantsAnswer(p) /\ AreAnswersComplete(p)' = AreAnswersComplete(p)
        /\ \A type : InHand(p, type)' = InHand(p, type)
        /\ OtherProcesses(p)' = OtherProcesses(p)
    BY <1>1 DEF InWait, CallNumber, WantsAnswer, AreAnswersComplete, InHand, callVars, sharedVars,
       countVars, OtherProcesses
  <1>5. MainInv(p)'
    BY <1>2, <1>3, <1>4 DEF MainInv, Subscribed, Calling, Releasing
  <1>6. ReceivingInv(p)'
    BY <1>2, <1>3, <1>4 DEF ReceivingInv, Starting
  <1> QED
    BY <1>5, <1>6

LEMMA ListenInv ==
  ASSUME ThreadInv, NEW p \in Process, Listen(p)
  PROVE  MainInv(p)' /\ ReceivingInv(p)'
  <1>1. /\ main[p] = "listen" /\ main'[p] = "idle"
        /\ receiving[p] = "off" /\ receiving'[p] = "receive"
        /\ UNCHANGED <<commVars, callVars, sharedVars>>
    BY DEF Listen, MainGoes, ReceivingGoes, ThreadInv, LocalInv, ThreadTypeOK
  <1>2. MainInv(p) /\ ReceivingInv(p)
    BY DEF ThreadInv, LocalInv
  <1> QED
    BY <1>1, <1>2 DEF MainInv, ReceivingInv, Subscribed, Calling, Releasing, Starting, InWait,
       CallNumber, OtherProcesses, commVars, callVars, sharedVars, countVars

LEMMA CallInv ==
  ASSUME ThreadInv, NEW p \in Process, NEW m \in MutexName, CallAcquire(p, m) \/ CallWait(p, m)
  PROVE  MainInv(p)' /\ ReceivingInv(p)'
  <1>1. /\ main[p] = "idle" /\ call'[p] = m
        /\ \/ main'[p] = "subscribe" /\ ~owned[p][m] /\ acquires'[p] = acquires[p] + 1
              /\ acquires[p] < MaxAcquires[p] /\ waits'[p] = waits[p]
           \/ main'[p] = "hear" /\ owned[p][m] /\ acquires'[p] = acquires[p]
              /\ waits'[p] = waits[p] + 1 /\ waits[p] < MaxWaits[p]
    <2> USE DEF MainGoes, ThreadInv, LocalInv, ThreadTypeOK
    <2>1. CASE CallAcquire(p, m)
      BY <2>1 DEF CallAcquire
    <2>2. CASE CallWait(p, m)
      BY <2>2 DEF CallWait
    <2> QED
      BY <2>1, <2>2
  <1>2. UNCHANGED <<commVars, receiving, frame, subscription, owned, answers>>
    BY DEF CallAcquire, CallWait
  <1>3. /\ MainInv(p) /\ ReceivingInv(p)
        /\ acquires[p] \in Nat /\ waits[p] \in Nat
        /\ MaxAcquires[p] \in Nat /\ MaxWaits[p] \in Nat
    BY Counts, ThreadAssumption DEF ThreadInv, LocalInv
  <1>4. MainInv(p)'
    <2>1. acquires'[p] <= MaxAcquires[p] /\ waits'[p] <= MaxWaits[p]
      BY <1>1, <1>3 DEF MainInv
    <2>2. IF owned[p][m] THEN waits'[p] # 0 ELSE acquires'[p] # 0
      BY <1>1, <1>3
    <2>3. /\ main[p] \notin Subscribed /\ main'[p] \notin Subscribed
          /\ main'[p] \in {"subscribe", "hear"} /\ (main'[p] = "hear" => owned[p][m])
      BY <1>1 DEF Subscribed
    <2>4. InWait(p)' <=> owned[p][m]
      BY <1>1, <1>2 DEF InWait
    <2> QED
      BY <1>2, <1>3, <2>1, <2>2, <2>3, <2>4 DEF MainInv, Releasing, OtherProcesses
  <1>5. ReceivingInv(p)'
    <2>1. subscription[p] = 0
      BY <1>1, <1>3 DEF MainInv, Subscribed
    <2>2. receiving[p] \notin {"off", "answer", "add", "notify"}
      BY <1>1, <1>3, <2>1 DEF ReceivingInv, Starting
    <2>3. main'[p] \notin Starting
      BY <1>1 DEF Starting
    <2> QED
      BY <1>2, <1>3, <2>2, <2>3 DEF ReceivingInv, InHand, commVars
  <1> QED
    BY <1>4, <1>5

LEMMA SubscribeInv ==
  ASSUME ThreadInv, NEW p \in Process, Subscribe(p)
  PROVE  MainInv(p)' /\ ReceivingInv(p)'
  <1>1. /\ main[p] = "subscribe" /\ main'[p] = "queue" /\ subscription'[p] = CallNumber(p)
        /\ receiving[p] \in {"off", "receive", "lock"}
        /\ UNCHANGED <<commVars, receiving, call, frame, owned, sharedVars>>
    BY DEF Subscribe, SubscriptionsFree, MainGoes, ThreadInv, LocalInv, ThreadTypeOK
  <1>2. MainInv(p) /\ ReceivingInv(p)
    BY DEF ThreadInv, LocalInv
  <1>3. MainInv(p)'
    BY <1>1, <1>2 DEF MainInv, Subscribed, Calling, Releasing, InWait, CallNumber, OtherProcesses,
       sharedVars, countVars
  <1>4. ReceivingInv(p)'
    BY <1>1, <1>2 DEF ReceivingInv, Starting, commVars
  <1> QED
    BY <1>3, <1>4

LEMMA QueueInv ==
  ASSUME ThreadInv, NEW p \in Process, SendRequests(p) \/ Record(p)
  PROVE  MainInv(p)' /\ ReceivingInv(p)'
  <1>1. /\ \/ main[p] = "queue" /\ main'[p] = "record" /\ ~InWait(p)
           \/ main[p] = "record" /\ main'[p] = "answers"
        /\ UNCHANGED <<recv, receiving, call, frame, subscription, owned, answers, acquires, waits>>
    <2> USE DEF MainGoes, ThreadInv, LocalInv, ThreadTypeOK, commVars, callVars, sharedVars, countVars
    <2>1. CASE SendRequests(p)
      BY <2>1 DEF SendRequests
    <2>2. CASE Record(p)
      BY <2>2 DEF Record
    <2> QED
      BY <2>1, <2>2
  <1>2. MainInv(p) /\ ReceivingInv(p)
    BY DEF ThreadInv, LocalInv
  <1>3. MainInv(p)'
    BY <1>1, <1>2 DEF MainInv, Subscribed, Calling, Releasing, InWait, CallNumber, OtherProcesses
  <1>4. ReceivingInv(p)'
    BY <1>1, <1>2 DEF ReceivingInv, Starting, WantsAnswer, InHand, InWait
  <1> QED
    BY <1>3, <1>4

LEMMA UnsubscribeInv ==
  ASSUME ThreadInv, NEW p \in Process, Unsubscribe(p)
  PROVE  MainInv(p)' /\ ReceivingInv(p)'
  <1>1. /\ main[p] = "unsubscribe" /\ main'[p] = "return"
        /\ subscription'[p] = 0 /\ answers'[p] = {}
        /\ receiving[p] \in {"off", "receive", "lock"}
        /\ UNCHANGED <<commVars, receiving, call, frame, owned, countVars>>
    BY DEF Unsubscribe, SubscriptionsFree, MainGoes, ThreadInv, LocalInv, ThreadTypeOK
  <1>2. MainInv(p) /\ ReceivingInv(p)
    BY DEF ThreadInv, LocalInv
  <1>3. MainInv(p)'
    BY <1>1, <1>2 DEF MainInv, Subscribed, Calling, Releasing, InWait, CallNumber, OtherProcesses,
       countVars
  <1>4. ReceivingInv(p)'
    BY <1>1, <1>2 DEF ReceivingInv, Starting, commVars
  <1> QED
    BY <1>3, <1>4

(* Between two calls, and in releaseMutex, nothing is subscribed and no      *)
(* callback runs that belongs to a call.                                     *)
LEMMA Unsubscribed ==
  ASSUME ThreadInv, NEW p \in Process, main[p] \in {"idle", "return"} \cup Releasing
  PROVE  /\ subscription[p] = 0 /\ answers[p] = {}
         /\ receiving[p] \notin {"off", "answer", "add", "notify"}
  <1>1. subscription[p] = 0 /\ answers[p] = {}
    BY DEF ThreadInv, LocalInv, MainInv, Subscribed, Releasing
  <1> QED
    BY <1>1 DEF ThreadInv, LocalInv, ReceivingInv, Starting, Releasing

LEMMA ReleaseInv ==
  ASSUME ThreadInv, NEW p \in Process,
         \/ Return(p) \/ Clear(p) \/ Unlocked(p)
         \/ \E m \in MutexName : CallRelease(p, m)
         \/ \E r \in Process : Answer(p, r)
  PROVE  MainInv(p)' /\ ReceivingInv(p)'
  <1>1. /\ main[p] \in {"idle", "return"} \cup Releasing /\ main'[p] \in {"idle"} \cup Releasing
        /\ main'[p] \in Releasing => InWait(p)'
        /\ UNCHANGED <<recv, receiving, frame, subscription, answers, acquires, waits>>
    <2> USE DEF MainGoes, ThreadInv, LocalInv, ThreadTypeOK, commVars, callVars, sharedVars,
                countVars, Releasing
    <2>1. CASE Return(p)
      BY <2>1 DEF Return
    <2>2. CASE Clear(p)
      BY <2>2 DEF Clear, MainInv, InWait
    <2>3. CASE Unlocked(p)
      BY <2>3 DEF Unlocked
    <2>4. ASSUME NEW m \in MutexName, CallRelease(p, m)
          PROVE  <1>1!:
      BY <2>4 DEF CallRelease, InWait
    <2>5. ASSUME NEW r \in Process, Answer(p, r)
          PROVE  <1>1!:
      BY <2>5 DEF Answer, MainInv, InWait
    <2> QED
      BY <2>1, <2>2, <2>3, <2>4, <2>5
  <1>2. MainInv(p) /\ ReceivingInv(p)
    BY DEF ThreadInv, LocalInv
  <1>3. /\ subscription[p] = 0 /\ answers[p] = {}
        /\ receiving[p] \notin {"off", "answer", "add", "notify"}
    BY <1>1, Unsubscribed
  <1>4. MainInv(p)'
    BY <1>1, <1>2, <1>3 DEF MainInv, Subscribed, Calling, Releasing, OtherProcesses
  <1>5. ReceivingInv(p)'
    BY <1>1, <1>2, <1>3 DEF ReceivingInv, Starting, Releasing, InHand
  <1> QED
    BY <1>4, <1>5

(* The main thread and what it shares stay when a callback does not touch    *)
(* the answers.                                                              *)
LEMMA MainInvStays ==
  ASSUME NEW p \in Process, MainInv(p),
         UNCHANGED <<main, call, subscription, owned, answers, countVars>>
  PROVE  MainInv(p)'
  BY DEF MainInv, InWait, CallNumber, AreAnswersComplete, OtherProcesses, countVars

LEMMA ReceivePacketInv ==
  ASSUME ThreadInv, NEW p \in Process, ReceivePacket(p)
  PROVE  MainInv(p)' /\ ReceivingInv(p)'
  <1>1. /\ receiving[p] = "receive" /\ receiving'[p] = "lock"
        /\ UNCHANGED <<main, callVars, sharedVars>>
    BY DEF ReceivePacket, ReceivingGoes, ThreadInv, LocalInv, ThreadTypeOK
  <1>2. MainInv(p) /\ ReceivingInv(p)
    BY DEF ThreadInv, LocalInv
  <1>3. recv'[p] # NoPacket
    <2>1. PICK q \in OtherProcesses(p) : Receive(p, q)
      BY DEF ReceivePacket
    <2> DEFINE packet == Head(chan[q][p])
    <2>2. packet \in Packet
      <3>1. q \in Process /\ chan[q][p] # <<>>
        BY <2>1 DEF OtherProcesses, Receive
      <3>2. chan[q] \in [Process -> Seq(Packet)]
        BY <3>1 DEF ThreadInv, LocalInv, ThreadTypeOK, CommTypeOK
      <3> QED
        BY <3>1, <3>2
    <2>3. recv'[p] = Restamp(packet, ClockAfter(p, packet))
      BY <2>1 DEF Receive, ThreadInv, LocalInv, ThreadTypeOK, CommTypeOK
    <2> HIDE DEF packet
    <2>4. ClockAfter(p, packet) \in Nat
      <3>1. clock[p] \in Nat /\ packet.lamportTime \in Nat
        BY <2>2 DEF Packet, ThreadInv, LocalInv, ThreadTypeOK, CommTypeOK
      <3> QED
        BY <3>1 DEF ClockAfter
    <2>5. recv'[p] \in Packet
      BY <2>2, <2>3, <2>4 DEF Restamp, Packet
    <2> QED
      BY <2>5, CommunicatorAssumption
  <1>4. MainInv(p)'
    BY <1>1, <1>2, MainInvStays DEF callVars, sharedVars
  <1>5. ReceivingInv(p)'
    BY <1>1, <1>2, <1>3 DEF ReceivingInv, Starting
  <1> QED
    BY <1>4, <1>5

LEMMA StartCallbackInv ==
  ASSUME ThreadInv, NEW p \in Process, StartCallback(p)
  PROVE  MainInv(p)' /\ ReceivingInv(p)'
  <1>1. /\ receiving[p] = "lock"
        /\ \/ WantsRequest(p) /\ receiving'[p] = "request"
           \/ WantsWait(p) /\ receiving'[p] = "table"
           \/ WantsAnswer(p) /\ receiving'[p] = "answer" /\ frame'[p] = subscription[p]
        /\ UNCHANGED <<commVars, main, call, subscription, sent, toAnswer, owned, sharedVars>>
    BY DEF StartCallback, ReceivingGoes, ThreadInv, LocalInv, ThreadTypeOK
  <1>2. MainInv(p) /\ ReceivingInv(p)
    BY DEF ThreadInv, LocalInv
  <1>3. MainInv(p)'
    BY <1>1, <1>2, MainInvStays DEF sharedVars
  <1>4. ReceivingInv(p)'
    BY <1>1, <1>2 DEF ReceivingInv, Starting, WantsRequest, WantsWait, WantsAnswer, InHand, InWait,
       commVars
  <1> QED
    BY <1>3, <1>4

LEMMA LockForAnswerInv ==
  ASSUME ThreadInv, NEW p \in Process, LockForAnswer(p)
  PROVE  MainInv(p)' /\ ReceivingInv(p)'
  <1>1. /\ receiving[p] = "answer" /\ receiving'[p] = "add" /\ AnswersFree(p)
        /\ UNCHANGED <<commVars, main, callVars, sharedVars>>
    BY DEF LockForAnswer, ReceivingGoes, ThreadInv, LocalInv, ThreadTypeOK
  <1>2. MainInv(p) /\ ReceivingInv(p)
    BY DEF ThreadInv, LocalInv
  <1>3. MainInv(p)'
    BY <1>1, <1>2, MainInvStays DEF callVars, sharedVars
  <1>4. ReceivingInv(p)'
    BY <1>1, <1>2 DEF ReceivingInv, AnswersFree, Starting, WantsAnswer, InHand, InWait, commVars,
       callVars
  <1> QED
    BY <1>3, <1>4

(* A callback that does not belong to a call has had its effect. *)
LEMMA DoneInv ==
  ASSUME ThreadInv, NEW p \in Process, AnswerRequest(p) \/ ListWaiter(p) \/ EraseWaiters(p)
  PROVE  MainInv(p)' /\ ReceivingInv(p)'
  <1>1. /\ receiving[p] \in {"request", "table"} /\ receiving'[p] = "done"
        /\ UNCHANGED <<recv, main, callVars, answers, countVars>>
    BY DEF AnswerRequest, ListWaiter, EraseWaiters, ReceivingGoes, ThreadInv, LocalInv,
       ThreadTypeOK, commVars
  <1>2. MainInv(p) /\ ReceivingInv(p)
    BY DEF ThreadInv, LocalInv
  <1>3. MainInv(p)'
    BY <1>1, <1>2, MainInvStays DEF callVars
  <1>4. ReceivingInv(p)'
    BY <1>1, <1>2 DEF ReceivingInv, Starting
  <1> QED
    BY <1>3, <1>4

(* The answer is from another process, and the call has not gone on yet. *)
LEMMA AddAnswerInv ==
  ASSUME ThreadInv, NEW p \in Process, AddAnswer(p)
  PROVE  MainInv(p)' /\ ReceivingInv(p)'
  <1>1. /\ receiving[p] = "add" /\ receiving'[p] \in {"done", "notify"}
        /\ answers'[p] = answers[p] \cup {recv[p].source}
        /\ UNCHANGED <<commVars, main, callVars, countVars>>
    BY DEF AddAnswer, Answerer, ReceivingGoes, ThreadInv, LocalInv, ThreadTypeOK
  <1>2. MainInv(p) /\ ReceivingInv(p)
    BY DEF ThreadInv, LocalInv
  <1>3. /\ recv[p].source \in OtherProcesses(p)
        /\ main[p] \in {"record", "answers", "test", "asleep"}
    BY <1>1, StillMissing
  <1>4. MainInv(p)'
    BY <1>1, <1>2, <1>3 DEF MainInv, Subscribed, Calling, Releasing, InWait, CallNumber,
       OtherProcesses, callVars, countVars
  <1>5. ReceivingInv(p)'
    BY <1>1, <1>2 DEF ReceivingInv, Starting, commVars, callVars
  <1> QED
    BY <1>4, <1>5

LEMMA NotifyMainInv ==
  ASSUME ThreadInv, NEW p \in Process, NotifyMain(p)
  PROVE  MainInv(p)' /\ ReceivingInv(p)'
  <1>1. /\ receiving[p] = "notify" /\ receiving'[p] = "done"
        /\ \/ main'[p] = main[p]
           \/ main[p] = "asleep" /\ main'[p] = "answers"
        /\ UNCHANGED <<commVars, callVars, sharedVars>>
    BY DEF NotifyMain, ReceivingGoes, ThreadInv, LocalInv, ThreadTypeOK
  <1>2. MainInv(p) /\ ReceivingInv(p)
    BY DEF ThreadInv, LocalInv
  <1>3. CASE main'[p] = main[p]
    BY <1>1, <1>2, <1>3 DEF MainInv, ReceivingInv, AreAnswersComplete, Starting, InWait,
       CallNumber, OtherProcesses, commVars, callVars, sharedVars, countVars
  <1>4. CASE main[p] = "asleep" /\ main'[p] = "answers"
    BY <1>1, <1>2, <1>4 DEF MainInv, ReceivingInv, Starting, Subscribed, Calling, Releasing, InWait,
       CallNumber, OtherProcesses, commVars, callVars, sharedVars, countVars
  <1> QED
    BY <1>1, <1>3, <1>4

LEMMA EndCallbackInv ==
  ASSUME ThreadInv, NEW p \in Process, EndCallback(p)
  PROVE  MainInv(p)' /\ ReceivingInv(p)'
  <1>1. /\ receiving[p] = "done" /\ receiving'[p] = "receive" /\ recv'[p] = NoPacket
        /\ UNCHANGED <<main, callVars, sharedVars>>
    BY DEF EndCallback, Dispatched, ReceivingGoes, ThreadInv, LocalInv, ThreadTypeOK, CommTypeOK
  <1>2. MainInv(p) /\ ReceivingInv(p)
    BY DEF ThreadInv, LocalInv
  <1>3. MainInv(p)'
    BY <1>1, <1>2, MainInvStays DEF callVars, sharedVars
  <1>4. ReceivingInv(p)'
    BY <1>1, <1>2 DEF ReceivingInv, Starting
  <1> QED
    BY <1>3, <1>4

LEMMA LocalStays ==
  ASSUME ThreadInv, NEW p \in Process, StepOf(p)
  PROVE  \A q \in Process : MainInv(q)' /\ ReceivingInv(q)'
  <1>1. MainInv(p)' /\ ReceivingInv(p)'
    <2>1. CASE MainThread(p) \/ WakeSpuriously(p)
      BY <2>1, OnItsWay, ListenInv, SubscribeInv, QueueInv, UnsubscribeInv, ReleaseInv
      DEF MainThread
    <2>2. CASE ReceivingThread(p)
      BY <2>2, ReceivePacketInv, StartCallbackInv, LockForAnswerInv, DoneInv, AddAnswerInv,
         NotifyMainInv, EndCallbackInv
      DEF ReceivingThread
    <2> QED
      BY <2>1, <2>2, CallInv DEF StepOf
  <1>2. ASSUME NEW q \in Process, q # p
        PROVE  MainInv(q)' /\ ReceivingInv(q)'
    <2>1. Unmoved(q) /\ MainInv(q) /\ ReceivingInv(q)
      BY <1>2, OthersUnmoved DEF ThreadInv, LocalInv
    <2> QED
      BY <2>1, UnmovedInv
  <1> QED
    BY <1>1, <1>2

(* A process of this program sends no notification and no SYNC. *)
LEMMA SendKinds ==
  ASSUME ThreadTypeOK, Kinds, NEW p \in Process, NEW R, NEW type \in ThreadTypes, NEW msg,
         Send(p, R, type, msg), UNCHANGED recv
  PROVE  Kinds'
  <1>1. ASSUME NEW a \in Process, NEW b \in Process, NEW i \in 1 .. Len(chan[a][b])'
        PROVE  chan'[a][b][i].messageType \in ThreadTypes
    <2> DEFINE packet == NextPacket(p, type, msg)
    <2>1. packet.messageType = type
      BY DEF NextPacket
    <2>2. chan[a] \in [Process -> Seq(Packet)]
      BY DEF ThreadTypeOK, CommTypeOK
    <2>3. chan'[a][b] \in {chan[a][b], Append(chan[a][b], packet)}
      BY DEF Send, ThreadTypeOK, CommTypeOK
    <2> HIDE DEF packet
    <2>4. \A j \in 1 .. Len(chan[a][b]) : chan[a][b][j].messageType \in ThreadTypes
      BY DEF Kinds
    <2> DEFINE before == chan[a][b]
    <2>5. before \in Seq(Packet)
      BY <2>2
    <2>6. CASE chan'[a][b] = before
      BY <2>4, <2>6
    <2>7. CASE chan'[a][b] = Append(before, packet)
      <3> HIDE DEF before
      <3>1. i \in 1 .. Len(before) + 1
        BY <2>5, <2>7
      <3>2. CASE i \in 1 .. Len(before)
        BY <2>4, <2>5, <2>7, <3>2 DEF before
      <3>3. CASE i = Len(before) + 1
        BY <2>1, <2>5, <2>7, <3>3
      <3> QED
        BY <2>5, <3>1, <3>2, <3>3
    <2> QED
      BY <2>3, <2>6, <2>7
  <1> QED
    BY <1>1 DEF Kinds

LEMMA ReceiveKinds ==
  ASSUME ThreadTypeOK, Kinds, NEW p \in Process, NEW q \in OtherProcesses(p), Receive(p, q)
  PROVE  Kinds'
  <1>0. q \in Process /\ chan[q] \in [Process -> Seq(Packet)]
    BY DEF OtherProcesses, ThreadTypeOK, CommTypeOK
  <1> DEFINE old == chan[q][p]
             packet == Head(old)
  <1>1. old \in Seq(Packet) /\ old # <<>>
    BY <1>0 DEF Receive
  <1>2. \A j \in 1 .. Len(old) : old[j].messageType \in ThreadTypes
    BY <1>0 DEF Kinds
  <1>3. packet \in Packet /\ packet.messageType \in ThreadTypes
    <2> HIDE DEF old
    <2>1. packet = old[1] /\ 1 \in 1 .. Len(old) /\ old[1] \in Packet
      BY <1>1
    <2> QED
      BY <1>2, <2>1
  <1>4. ASSUME NEW a \in Process, NEW b \in Process, NEW i \in 1 .. Len(chan[a][b])'
        PROVE  chan'[a][b][i].messageType \in ThreadTypes
    <2>1. CASE a = q /\ b = p
      <3>1. chan'[a][b] = Tail(old)
        BY <1>0, <2>1 DEF Receive, ThreadTypeOK, CommTypeOK
      <3> HIDE DEF old
      <3>2. i + 1 \in 1 .. Len(old) /\ Tail(old)[i] = old[i + 1]
        BY <1>1, <3>1
      <3> QED
        BY <1>2, <3>1, <3>2
    <2>2. CASE ~(a = q /\ b = p)
      <3>1. chan'[a][b] = chan[a][b]
        BY <1>0, <2>2 DEF Receive, ThreadTypeOK, CommTypeOK
      <3> QED
        BY <3>1 DEF Kinds
    <2> QED
      BY <2>1, <2>2
  <1>5. ASSUME NEW a \in Process, recv'[a] # NoPacket
        PROVE  recv'[a].messageType \in ThreadTypes
    <2>1. CASE a = p
      <3>1. recv'[a] = Restamp(packet, ClockAfter(p, packet))
        BY <2>1 DEF Receive, ThreadTypeOK, CommTypeOK
      <3> HIDE DEF packet
      <3>2. recv'[a].messageType = packet.messageType
        BY <1>3, <3>1 DEF Restamp, Packet
      <3> QED
        BY <1>3, <3>2
    <2>2. CASE a # p
      BY <1>5, <2>2 DEF Receive, Kinds, ThreadTypeOK, CommTypeOK
    <2> QED
      BY <2>1, <2>2
  <1> QED
    BY <1>4, <1>5 DEF Kinds

LEMMA KindsStay ==
  ASSUME ThreadInv, NEW p \in Process, StepOf(p)
  PROVE  Kinds'
  <1>0. ThreadTypeOK /\ Kinds
    BY DEF ThreadInv, LocalInv
  <1>1. ASSUME UNCHANGED <<chan, recv>>
        PROVE  Kinds'
    BY <1>0, <1>1 DEF Kinds
  <1>2. ASSUME NEW m \in MutexName, CallAcquire(p, m) \/ CallWait(p, m)
        PROVE  Kinds'
    BY <1>1, <1>2 DEF CallAcquire, CallWait, commVars
  <1>3. CASE MainThread(p) \/ WakeSpuriously(p)
    <2>1. CASE Announce(p) \/ SendWaitEnd(p) \/ SendRequests(p)
      BY <1>0, <2>1, SendKinds DEF Announce, SendWaitEnd, SendRequests, ThreadTypes
    <2>2. ASSUME NEW r \in Process, Answer(p, r)
          PROVE  Kinds'
      BY <1>0, <2>2, SendKinds DEF Answer, ThreadTypes
    <2>3. CASE \/ Register(p) \/ Listen(p) \/ Hear(p) \/ Subscribe(p) \/ Record(p)
               \/ LockAnswers(p) \/ Test(p) \/ WakeSpuriously(p) \/ Unhear(p) \/ Unsubscribe(p)
               \/ Return(p) \/ Clear(p) \/ Unlocked(p)
               \/ \E m \in MutexName : CallRelease(p, m)
      BY <1>1, <2>3 DEF Register, Listen, Hear, Subscribe, Record, LockAnswers, Test,
         WakeSpuriously, Unhear, Unsubscribe, Return, Clear, Unlocked, CallRelease, commVars
    <2> QED
      BY <1>3, <2>1, <2>2, <2>3 DEF MainThread
  <1>4. CASE ReceivingThread(p)
    <2>1. CASE ReceivePacket(p)
      BY <1>0, <2>1, ReceiveKinds DEF ReceivePacket
    <2>2. CASE AnswerRequest(p) \/ EraseWaiters(p)
      BY <1>0, <1>1, <2>2, SendKinds DEF AnswerRequest, EraseWaiters, ThreadTypes
    <2>3. CASE StartCallback(p) \/ ListWaiter(p) \/ LockForAnswer(p) \/ AddAnswer(p)
               \/ NotifyMain(p)
      BY <1>1, <2>3 DEF StartCallback, ListWaiter, LockForAnswer, AddAnswer, NotifyMain, commVars
    <2>4. CASE EndCallback(p)
      BY <1>0, <2>4 DEF EndCallback, Dispatched, Kinds, ThreadTypeOK, CommTypeOK
    <2> QED
      BY <1>4, <2>1, <2>2, <2>3, <2>4 DEF ReceivingThread
  <1> QED
    BY <1>2, <1>3, <1>4 DEF StepOf

-----------------------------------------------------------------------------
(* The start, and the steps together. *)

LEMMA InitMapped == ThreadInit => A!CondInit
  <1> SUFFICES ASSUME ThreadInit PROVE A!CondInit
    OBVIOUS
  <1>1. ASSUME NEW p \in Process
        PROVE  /\ RecvOf(p) = NoPacket /\ AcquiresOf(p) = 0 /\ WaitsOf(p) = 0
               /\ ConfirmationsOf(p) = {}
               /\ \A m \in MutexName :
                    /\ PhaseOf(p, m) = "free" /\ QueuedOf(p, m) = 0 /\ RequestsOf(p, m) = {}
                    /\ AgreementsOf(p, m) = {} /\ WaitStageOf(p, m) = "out"
    <2>1. /\ main[p] = "register" /\ receiving[p] = "off" /\ recv[p] = NoPacket
          /\ acquires[p] = 0 /\ waits[p] = 0 /\ answers[p] = {}
          /\ \A m \in MutexName :
               /\ owned[p][m] = FALSE /\ queuedMutexes[p][m] = 0 /\ receivedRequests[p][m] = {}
      BY DEF ThreadInit, CommInit
    <2> QED
      BY <2>1 DEF RecvOf, AcquiresOf, WaitsOf, ConfirmationsOf, PhaseOf, QueuedOf, RequestsOf,
         AgreementsOf, WaitStageOf, InWait, Releasing
  <1>2. /\ recvBar = [p \in Process |-> NoPacket]
        /\ acquiresBar = [p \in Process |-> 0] /\ callsBar = [p \in Process |-> 0]
        /\ confirmationsBar = [p \in Process |-> {}]
        /\ phaseBar = [p \in Process |-> [m \in MutexName |-> "free"]]
        /\ queuedBar = [p \in Process |-> [m \in MutexName |-> 0]]
        /\ requestsBar = [p \in Process |-> [m \in MutexName |-> {}]]
        /\ agreementsBar = [p \in Process |-> [m \in MutexName |-> {}]]
        /\ waitingBar = [p \in Process |-> [m \in MutexName |-> "out"]]
    BY <1>1 DEF recvBar, acquiresBar, callsBar, confirmationsBar, phaseBar, queuedBar,
       requestsBar, agreementsBar, waitingBar
  <1> QED
    BY <1>2, SameNames DEF ThreadInit, CommInit, A!CondInit, A!Init, A!CommInit, Nobody

LEMMA InvInit == ThreadInit => ThreadInv
  <1> SUFFICES ASSUME ThreadInit PROVE ThreadInv
    OBVIOUS
  <1> USE DEF ThreadInit, CommInit
  <1>1. A!CondInv /\ A!TakenInv
    BY InitMapped, AtomicInit
  <1>2. ThreadTypeOK
    <2>1. \A p \in Process : {frame[p], subscription[p]} \subseteq 0 .. CallNumber(p)
      BY DEF CallNumber
    <2>2. call \in [Process -> MutexName]
      OBVIOUS
    <2>3. CommTypeOK
      BY DEF CommTypeOK
    <2> QED
      BY <2>1, <2>2, <2>3 DEF ThreadTypeOK, Starting
  <1>3. Kinds
    BY DEF Kinds
  <1>4. ASSUME NEW p \in Process
        PROVE  MainInv(p) /\ ReceivingInv(p)
    <2>1. MaxAcquires[p] \in Nat /\ MaxWaits[p] \in Nat
      BY ThreadAssumption
    <2>2. MainInv(p)
      BY <2>1 DEF MainInv, Subscribed, Calling, Releasing
    <2>3. ReceivingInv(p)
      BY DEF ReceivingInv, Starting
    <2> QED
      BY <2>2, <2>3
  <1> QED
    BY <1>1, <1>2, <1>3, <1>4 DEF ThreadInv, LocalInv

LEMMA InvStep == ThreadInv /\ [ThreadNext]_threadVars => ThreadInv'
  <1> SUFFICES ASSUME ThreadInv, [ThreadNext]_threadVars
               PROVE  LocalInv'
    BY NextMapped DEF ThreadInv
  <1>1. CASE UNCHANGED threadVars
    <2> USE DEF threadVars, commVars, callVars, sharedVars, countVars
    <2>1. \A q \in Process : Unmoved(q)
      BY <1>1 DEF Unmoved
    <2>2. ThreadTypeOK' /\ Kinds'
      BY <1>1 DEF ThreadInv, LocalInv, ThreadTypeOK, CommTypeOK, Kinds, CallNumber
    <2> QED
      BY <2>1, <2>2, UnmovedInv DEF ThreadInv, LocalInv
  <1>2. ASSUME NEW p \in Process, StepOf(p)
        PROVE  LocalInv'
    BY <1>2, TypesStay, KindsStay, LocalStays DEF LocalInv
  <1>3. ThreadNext => \E p \in Process : StepOf(p)
    BY DEF ThreadNext, StepOf
  <1> QED
    BY <1>1, <1>2, <1>3

-----------------------------------------------------------------------------
(* ThreadInv holds in every state of every run, with any number of           *)
(* processes, of mutexes and of calls.                                       *)
THEOREM ThreadInvariant == ThreadSpec => []ThreadInv
  BY InvInit, InvStep, PTL DEF ThreadSpec

(* The variables of the two threads of every process keep their types, and   *)
(* no call or subscription is from the future.                               *)
THEOREM ThreadTypeCorrect == ThreadSpec => []ThreadTypeOK
  <1>1. ThreadInv => ThreadTypeOK
    BY DEF ThreadInv, LocalInv
  <1> QED
    BY <1>1, ThreadInvariant, PTL

(* The callback of acquireMutex or wait never locks, fills or notifies a     *)
(* local variable of a call that has returned.                               *)
THEOREM FrameInPlace == ThreadSpec => []CallbackHasFrame
  BY FrameFromInv, ThreadInvariant, PTL

(* threadFunction never throws: whatever packet a process has received, one  *)
(* of its callbacks wants it.                                                *)
THEOREM NoPacketUnwanted == ThreadSpec => []CallbackFound
  BY FoundFromInv, ThreadInvariant, PTL

(* The receiving thread never waits for the mutex of the answers while the   *)
(* main thread, which holds it, waits for subscriptionMutex.                 *)
THEOREM LocksInOrder == ThreadSpec => []NoLockCycle
  BY NoCycleFromInv, ThreadInvariant, PTL

(* ConditionVariable as Threads refers to it is the one of the theorems. *)
LEMMA SameSpec == A!CondSpec <=> Atomic!CondSpec
  BY DEF A!Process, Atomic!Process, A!OtherProcesses, Atomic!OtherProcesses, A!NextPacket,
         Atomic!NextPacket, A!Send, Atomic!Send, A!ClockAfter, Atomic!ClockAfter, A!Restamp,
         Atomic!Restamp, A!Receive, Atomic!Receive, A!Received, Atomic!Received, A!InHand,
         Atomic!InHand, A!Dispatched, Atomic!Dispatched, A!Packet, Atomic!Packet, A!MessageType,
         Atomic!MessageType, A!mutexVars, Atomic!mutexVars, A!vars, Atomic!vars, A!commVars,
         Atomic!commVars, A!Idle, Atomic!Idle, A!SetPhase, Atomic!SetPhase, A!Subscribe,
         Atomic!Subscribe, A!Queue, Atomic!Queue, A!AreAgreementsComplete,
         Atomic!AreAgreementsComplete, A!Acquired, Atomic!Acquired, A!Unlock, Atomic!Unlock,
         A!AnswerDelayed, Atomic!AnswerDelayed, A!Released, Atomic!Released, A!MutexStateLocked,
         Atomic!MutexStateLocked, A!AgreementSubscribed, Atomic!AgreementSubscribed,
         A!CanSendAgreement, Atomic!CanSendAgreement, A!ProcessRequest, Atomic!ProcessRequest,
         A!AddAgreement, Atomic!AddAgreement, A!ReceiveAny, Atomic!ReceiveAny, A!InCall,
         Atomic!InCall, A!Receiver, Atomic!Receiver, A!Cardinality, Atomic!Cardinality,
         A!condVars, Atomic!condVars, A!allCondVars, Atomic!allCondVars, A!Free, Atomic!Free,
         A!Call, Atomic!Call, A!SetWaiting, Atomic!SetWaiting, A!HoldsMutexOf,
         Atomic!HoldsMutexOf, A!Wait, Atomic!Wait, A!Block, Atomic!Block, A!Blocked,
         Atomic!Blocked, A!WakeSpuriously, Atomic!WakeSpuriously, A!Relock, Atomic!Relock,
         A!EndWait, Atomic!EndWait, A!AreConfirmationsComplete, Atomic!AreConfirmationsComplete,
         A!Confirmed, Atomic!Confirmed, A!MayNotify, Atomic!MayNotify, A!First, Atomic!First,
         A!NotifyOne, Atomic!NotifyOne, A!NotifyAll, Atomic!NotifyAll, A!NotifyNobody,
         Atomic!NotifyNobody, A!SendNotify, Atomic!SendNotify, A!ListWaiter, Atomic!ListWaiter,
         A!EraseWaiters, Atomic!EraseWaiters, A!Notified, Atomic!Notified, A!AddConfirmation,
         Atomic!AddConfirmation, A!InCondCall, Atomic!InCondCall, A!CondCallback,
         Atomic!CondCallback, A!CondReceiver, Atomic!CondReceiver, A!CondNext, Atomic!CondNext,
         A!CondInit, Atomic!CondInit, A!Init, Atomic!Init, A!CommInit, Atomic!CommInit,
         A!CondSpec, Atomic!CondSpec

(* The two threads of every process with their std::mutexes do what          *)
(* ConditionVariable does in one step per callback and per part of a call.   *)
THEOREM Implements == ThreadSpec => ImplementsConditionVariable
  <1>1. ThreadInv /\ [ThreadNext]_threadVars => [A!CondNext]_(A!allCondVars)
    BY NextMapped
  <1>2. ThreadSpec => A!CondSpec
    BY <1>1, InitMapped, ThreadInvariant, PTL DEF ThreadSpec, A!CondSpec
  <1> QED
    BY <1>2, SameSpec DEF ImplementsConditionVariable

(* From the return of lock() to the call of unlock(). *)
InCriticalSection(p, m) == owned[p][m] /\ ~(call[p] = m /\ main[p] \in Releasing)

(* No two processes are between lock() and unlock() of the same mutex,       *)
(* wherever their threads are when they take and give back the std::mutexes. *)
THEOREM ThreadExclusion ==
  ThreadSpec => [](\A m \in MutexName : \A p, q \in Process :
                     InCriticalSection(p, m) /\ InCriticalSection(q, m) => p = q)
  <1>1. ThreadInv => A!MutualExclusion
    BY Given, A!ExclusionFromInv DEF ThreadInv, A!CondInv
  <1>2. ASSUME A!MutualExclusion, NEW m \in MutexName, NEW p \in Process, NEW q \in Process,
               InCriticalSection(p, m), InCriticalSection(q, m)
        PROVE  p = q
    <2>1. PhaseOf(p, m) = "held" /\ PhaseOf(q, m) = "held"
      BY <1>2 DEF InCriticalSection, PhaseOf
    <2> QED
      BY <1>2, <2>1, Mapped, SameNames DEF A!MutualExclusion
  <1>3. ThreadInv => \A m \in MutexName : \A p, q \in Process :
                       InCriticalSection(p, m) /\ InCriticalSection(q, m) => p = q
    BY <1>1, <1>2
  <1> QED
    BY <1>3, ThreadInvariant, PTL
=============================================================================
