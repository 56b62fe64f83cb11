------------------------------ MODULE Threads ------------------------------
(***************************************************************************)
(* RicartAgrawalaExclusionAlgorithm and the wait() of                      *)
(* DistributedConditionVariableAlgorithm with the std::mutexes that the    *)
(* two threads of a process take, one step per mutex.  acquireMutex and    *)
(* wait lend their local variables (a mutex, a condition variable, the set *)
(* of agreements or of confirmations) to a callback that the receiving     *)
(* thread runs, and destroy them when they return.                         *)
(*                                                                         *)
(* Locks taken while another is held: the receiving thread holds           *)
(* subscriptionMutex while a callback takes the mutex of that set, and     *)
(* acquireMutex and wait hold that mutex while unsubscribe takes           *)
(* subscriptionMutex.                                                      *)
(*                                                                         *)
(* A condition variable has the name of its mutex, and here the predicate  *)
(* of a wait() holds from the start; ConditionVariable has the rest.       *)
(***************************************************************************)
EXTENDS Communicator, FiniteSets, Functions

CONSTANTS
  MutexName,   \* names of the registered mutexes
  MaxAcquires, \* bound: MaxAcquires[p] calls of acquireMutex in process p
  MaxWaits,    \* bound: MaxWaits[p] calls of wait in process p
  MaxCalls     \* bound: calls of both in all processes

ASSUME ThreadAssumption ==
  /\ MutexName \subseteq Message
  /\ MaxAcquires \in [Process -> Nat] /\ MaxWaits \in [Process -> Nat]
  /\ MaxCalls \in Nat

VARIABLES
  main,               \* main[p]: the next step of p's main thread
  call,               \* call[p]: the mutex of its call
  receiving,          \* receiving[p]: the next step of p's receiving thread
  frame,              \* frame[p]: the call whose callback it runs
  subscription,       \* subscription[p]: the call that is subscribed, 0 for none
  sent,               \* sent[p]: time of the request that queue() has sent
  toAnswer,           \* toAnswer[p]: rest of the loop of releaseMutex
  owned,              \* owned[p][m]: of p's DistributedMutex m
  queuedMutexes,      \* queuedMutexes[p][m]: time of p's request, 0 when not queued
  receivedRequests,   \* receivedRequests[p][m]: processes p has yet to answer
  conditionalWaits,   \* conditionalWaits[p][m]: the waiters p knows of
  answers,            \* answers[p]: local receivedAgreements or receivedConfirmations
  acquires, waits     \* calls of acquireMutex and of wait so far

callVars == <<call, frame, subscription, sent, toAnswer, owned>>
countVars == <<acquires, waits>>
sharedVars == <<queuedMutexes, receivedRequests, conditionalWaits, answers, countVars>>
threadVars == <<commVars, main, receiving, callVars, sharedVars>>

(* Where the construction of the objects, acquireMutex and wait, and         *)
(* releaseMutex can be.                                                      *)
Starting == {"register", "listen"}
Calling == {"hear", "announce", "subscribe", "queue", "record", "answers", "test", "asleep",
            "unhear", "unsubscribe", "return"}
Releasing == {"answer", "unlocked"}

CallsSoFar == FoldFunction(+, 0, acquires) + FoldFunction(+, 0, waits)

(* The number of the call in progress, or of the last one. *)
CallNumber(p) == acquires[p] + waits[p]

ThreadTypeOK ==
  /\ CommTypeOK
  /\ main \in [Process -> {"idle"} \cup Starting \cup Calling \cup Releasing]
  /\ call \in [Process -> MutexName]
  /\ receiving \in [Process -> {"off", "receive", "lock", "request", "table", "answer",
                                "add", "notify", "done"}]
  /\ frame \in [Process -> Nat] /\ subscription \in [Process -> Nat]
  /\ \A p \in Process : {frame[p], subscription[p]} \subseteq 0 .. CallNumber(p)
  /\ sent \in [Process -> Nat]
  /\ toAnswer \in [Process -> SUBSET Process]
  /\ owned \in [Process -> [MutexName -> BOOLEAN]]
  /\ queuedMutexes \in [Process -> [MutexName -> Nat]]
  /\ receivedRequests \in [Process -> [MutexName -> SUBSET Process]]
  /\ conditionalWaits \in
       [Process -> [MutexName -> SUBSET [lamportTime : Nat, source : Process]]]
  /\ answers \in [Process -> SUBSET Process]
  /\ acquires \in [Process -> Nat] /\ waits \in [Process -> Nat]

ThreadInit ==
  /\ CommInit
  /\ main = [p \in Process |-> "register"]
  /\ call \in {[p \in Process |-> m] : m \in MutexName}
  /\ receiving = [p \in Process |-> "off"]
  /\ frame = [p \in Process |-> 0]
  /\ subscription = [p \in Process |-> 0]
  /\ sent = [p \in Process |-> 0]
  /\ toAnswer = [p \in Process |-> {}]
  /\ owned = [p \in Process |-> [m \in MutexName |-> FALSE]]
  /\ queuedMutexes = [p \in Process |-> [m \in MutexName |-> 0]]
  /\ receivedRequests = [p \in Process |-> [m \in MutexName |-> {}]]
  /\ conditionalWaits = [p \in Process |-> [m \in MutexName |-> {}]]
  /\ answers = [p \in Process |-> {}]
  /\ acquires = [p \in Process |-> 0]
  /\ waits = [p \in Process |-> 0]

-----------------------------------------------------------------------------
(* A fault to check against: no mutex is taken. *)
Anytime(p) == TRUE

(* Who holds which std::mutex follows from where the threads are.  A step    *)
(* that takes a mutex and gives it back only needs it to be free.            *)
SubscriptionsFree(p) == receiving[p] \in {"off", "receive", "lock"}
AnswersFree(p) ==
  main[p] \notin {"test", "unhear", "unsubscribe", "return"} /\ receiving[p] # "add"
QueuedFree(p) == main[p] \notin {"record", "answer"}

MainGoes(p, from, to) == main[p] = from /\ main' = [main EXCEPT ![p] = to]
ReceivingGoes(p, from, to) ==
  receiving[p] = from /\ receiving' = [receiving EXCEPT ![p] = to]

(* wait() is called with the mutex owned, acquireMutex without. *)
InWait(p) == owned[p][call[p]]

(* A fault to check against: one answer too few is enough. *)
OneAnswerShort(p) == Cardinality(answers[p]) >= NumberOfProcesses - 2

(* areAgreementsComplete, areConfirmationsComplete. *)
AreAnswersComplete(p) == Cardinality(answers[p]) = NumberOfProcesses - 1

-----------------------------------------------------------------------------
(* The start of the program in the main thread. *)

(* RicartAgrawalaExclusionAlgorithm subscribes to the requests, and each     *)
(* DistributedMutex registers its name, on which that subscription depends.  *)
Register(p) ==
  /\ MainGoes(p, "register", "listen")
  /\ UNCHANGED <<commVars, receiving, callVars, sharedVars>>

(* A fault to check against: listen() before the mutexes are constructed. *)
ListenAtOnce(p) ==
  /\ main[p] \in Starting
  /\ ReceivingGoes(p, "off", "receive")
  /\ main' = [main EXCEPT ![p] = IF @ = "listen" THEN "idle" ELSE @]
  /\ UNCHANGED <<commVars, callVars, sharedVars>>

(* listen() starts the receiving thread.  Until then MPI keeps the packets. *)
Listen(p) ==
  /\ MainGoes(p, "listen", "idle")
  /\ ReceivingGoes(p, "off", "receive")
  /\ UNCHANGED <<commVars, callVars, sharedVars>>

-----------------------------------------------------------------------------
(* acquireMutex and wait in the main thread. *)

(* lock(): a new set of local variables. *)
CallAcquire(p, m) ==
  /\ MainGoes(p, "idle", "subscribe")
  /\ ~owned[p][m]
  /\ acquires[p] < MaxAcquires[p] /\ CallsSoFar < MaxCalls
  /\ acquires' = [acquires EXCEPT ![p] = @ + 1]
  /\ call' = [call EXCEPT ![p] = m]
  /\ UNCHANGED <<commVars, receiving, frame, subscription, sent, toAnswer, owned,
                 queuedMutexes, receivedRequests, conditionalWaits, answers, waits>>

(* wait(): the same. *)
CallWait(p, m) ==
  /\ MainGoes(p, "idle", "hear")
  /\ owned[p][m]
  /\ waits[p] < MaxWaits[p] /\ CallsSoFar < MaxCalls
  /\ waits' = [waits EXCEPT ![p] = @ + 1]
  /\ call' = [call EXCEPT ![p] = m]
  /\ UNCHANGED <<commVars, receiving, frame, subscription, sent, toAnswer, owned,
                 queuedMutexes, receivedRequests, conditionalWaits, answers, acquires>>

(* It subscribes to notifications, of which there are none here ... *)
Hear(p) ==
  /\ MainGoes(p, "hear", "announce")
  /\ SubscriptionsFree(p)
  /\ UNCHANGED <<commVars, receiving, callVars, sharedVars>>

(* ... and announces itself. *)
Announce(p) ==
  /\ MainGoes(p, "announce", "subscribe")
  /\ Send(p, OtherProcesses(p), "COND_WAIT", call[p])
  /\ UNCHANGED <<recv, receiving, callVars, sharedVars>>

(* Both subscribe to the answers before they ask for them. *)
Subscribe(p) ==
  /\ MainGoes(p, "subscribe", "queue")
  /\ SubscriptionsFree(p)
  /\ subscription' = [subscription EXCEPT ![p] = CallNumber(p)]
  /\ UNCHANGED <<commVars, receiving, call, frame, sent, toAnswer, owned, sharedVars>>

SendWaitEnd(p) ==
  /\ MainGoes(p, "queue", "answers")
  /\ InWait(p)
  /\ Send(p, OtherProcesses(p), "COND_WAIT_END", call[p])
  /\ UNCHANGED <<recv, receiving, callVars, sharedVars>>

(* queue(): the request is sent ... *)
SendRequests(p) ==
  /\ MainGoes(p, "queue", "record")
  /\ ~InWait(p)
  /\ QueuedFree(p)
  /\ Send(p, OtherProcesses(p), "MUTEX_REQUEST", call[p])
  /\ sent' = [sent EXCEPT ![p] = clock[p] + 1]
  /\ UNCHANGED <<recv, receiving, call, frame, subscription, toAnswer, owned, sharedVars>>

(* ... and recorded, before queuedMutexesMutex is given back. *)
Record(p) ==
  /\ MainGoes(p, "record", "answers")
  /\ queuedMutexes' = [queuedMutexes EXCEPT ![p][call[p]] = sent[p]]
  /\ UNCHANGED <<commVars, receiving, callVars, receivedRequests, conditionalWaits, answers,
                 countVars>>

(* The mutex of the set of answers. *)
LockAnswers(p) ==
  /\ MainGoes(p, "answers", "test")
  /\ AnswersFree(p)
  /\ UNCHANGED <<commVars, receiving, callVars, sharedVars>>

(* A fault to check against: the thread sleeps without a look at the set. *)
SleepUntested(p) ==
  /\ MainGoes(p, "test", "asleep")
  /\ UNCHANGED <<commVars, receiving, callVars, sharedVars>>

(* The wait of the std::condition_variable: on with the mutex held, or       *)
(* asleep without it.                                                        *)
Test(p) ==
  /\ MainGoes(p, "test", IF ~AreAnswersComplete(p) THEN "asleep"
                         ELSE IF InWait(p) THEN "unhear" ELSE "unsubscribe")
  /\ UNCHANGED <<commVars, receiving, callVars, sharedVars>>

(* A condition variable may wake up for no reason. *)
WakeSpuriously(p) ==
  /\ MainGoes(p, "asleep", "answers")
  /\ UNCHANGED <<commVars, receiving, callVars, sharedVars>>

(* wait() drops its two subscriptions one after the other. *)
Unhear(p) ==
  /\ MainGoes(p, "unhear", "unsubscribe")
  /\ SubscriptionsFree(p)
  /\ UNCHANGED <<commVars, receiving, callVars, sharedVars>>

(* The set of answers is not read any more. *)
Unsubscribe(p) ==
  /\ MainGoes(p, "unsubscribe", "return")
  /\ SubscriptionsFree(p)
  /\ subscription' = [subscription EXCEPT ![p] = 0]
  /\ answers' = [answers EXCEPT ![p] = {}]
  /\ UNCHANGED <<commVars, receiving, call, frame, sent, toAnswer, owned, queuedMutexes,
                 receivedRequests, conditionalWaits, countVars>>

(* The local variables go, and the mutex is owned. *)
Return(p) ==
  /\ MainGoes(p, "return", "idle")
  /\ owned' = [owned EXCEPT ![p][call[p]] = TRUE]
  /\ UNCHANGED <<commVars, receiving, call, frame, subscription, sent, toAnswer, sharedVars>>

-----------------------------------------------------------------------------
(* releaseMutex in the main thread. *)

CallRelease(p, m) ==
  /\ MainGoes(p, "idle", "answer")
  /\ owned[p][m]
  /\ QueuedFree(p)
  /\ call' = [call EXCEPT ![p] = m]
  /\ toAnswer' = [toAnswer EXCEPT ![p] = receivedRequests[p][m]]
  /\ UNCHANGED <<commVars, receiving, frame, subscription, sent, owned, sharedVars>>

Answer(p, q) ==
  /\ MainGoes(p, "answer", "answer")
  /\ q \in toAnswer[p]
  /\ Send(p, {q}, "MUTEX_AGREEMENT", call[p])
  /\ toAnswer' = [toAnswer EXCEPT ![p] = @ \ {q}]
  /\ UNCHANGED <<recv, receiving, call, frame, subscription, sent, owned, sharedVars>>

Clear(p) ==
  /\ MainGoes(p, "answer", "unlocked")
  /\ toAnswer[p] = {}
  /\ receivedRequests' = [receivedRequests EXCEPT ![p][call[p]] = {}]
  /\ queuedMutexes' = [queuedMutexes EXCEPT ![p][call[p]] = 0]
  /\ UNCHANGED <<commVars, receiving, callVars, conditionalWaits, answers, countVars>>

(* unlock(): owned = false. *)
Unlocked(p) ==
  /\ MainGoes(p, "unlocked", "idle")
  /\ owned' = [owned EXCEPT ![p][call[p]] = FALSE]
  /\ UNCHANGED <<commVars, receiving, call, frame, subscription, sent, toAnswer, sharedVars>>

-----------------------------------------------------------------------------
(* The receiving thread. *)

ReceivePacket(p) ==
  /\ ReceivingGoes(p, "receive", "lock")
  /\ \E q \in OtherProcesses(p) : Receive(p, q)
  /\ UNCHANGED <<main, callVars, sharedVars>>

(* The predicates of the subscriptions: which callback wants the packet. *)
WantsRequest(p) == InHand(p, "MUTEX_REQUEST") /\ main[p] # "register"

WantsWait(p) ==
  (InHand(p, "COND_WAIT") \/ InHand(p, "COND_WAIT_END")) /\ main[p] # "register"

WantsAnswer(p) ==
  /\ InHand(p, IF InWait(p) THEN "COND_WAIT_END_CONFIRM" ELSE "MUTEX_AGREEMENT")
  /\ subscription[p] # 0 /\ call[p] = recv[p].message

(* The callbacks run with subscriptionMutex held. *)
StartCallback(p) ==
  /\ \/ WantsRequest(p) /\ ReceivingGoes(p, "lock", "request") /\ UNCHANGED frame
     \/ WantsWait(p) /\ ReceivingGoes(p, "lock", "table") /\ UNCHANGED frame
     \/ /\ WantsAnswer(p)
        /\ ReceivingGoes(p, "lock", "answer")
        /\ frame' = [frame EXCEPT ![p] = subscription[p]]
  /\ UNCHANGED <<commVars, main, call, subscription, sent, toAnswer, owned, sharedVars>>

MayAgree(p, request) ==
  LET mine == queuedMutexes[p][request.message]
  IN  \/ mine = 0
      \/ request.lamportTime < mine
      \/ request.lamportTime = mine /\ request.source < p

(* processRequest. *)
AnswerRequest(p) ==
  /\ ReceivingGoes(p, "request", "done")
  /\ QueuedFree(p)
  /\ \/ /\ MayAgree(p, recv[p])
        /\ Send(p, {recv[p].source}, "MUTEX_AGREEMENT", recv[p].message)
        /\ UNCHANGED receivedRequests
     \/ /\ ~MayAgree(p, recv[p])
        /\ receivedRequests' =
             [receivedRequests EXCEPT ![p][recv[p].message] = @ \cup {recv[p].source}]
        /\ UNCHANGED <<clock, chan>>
  /\ UNCHANGED <<recv, main, callVars, queuedMutexes, conditionalWaits, answers, countVars>>

(* COND_WAIT.  Nobody else looks at the table here. *)
ListWaiter(p) ==
  /\ ReceivingGoes(p, "table", "done")
  /\ InHand(p, "COND_WAIT")
  /\ conditionalWaits' = [conditionalWaits EXCEPT ![p][recv[p].message] =
       @ \cup {[lamportTime |-> recv[p].lamportTime, source |-> recv[p].source]}]
  /\ UNCHANGED <<commVars, main, callVars, queuedMutexes, receivedRequests, answers, countVars>>

(* COND_WAIT_END. *)
EraseWaiters(p) ==
  /\ ReceivingGoes(p, "table", "done")
  /\ InHand(p, "COND_WAIT_END")
  /\ conditionalWaits' = [conditionalWaits EXCEPT ![p][recv[p].message] = {}]
  /\ Send(p, {recv[p].source}, "COND_WAIT_END_CONFIRM", recv[p].message)
  /\ UNCHANGED <<recv, main, callVars, queuedMutexes, receivedRequests, answers, countVars>>

(* The callback of acquireMutex or wait takes the mutex of the set ... *)
LockForAnswer(p) ==
  /\ ReceivingGoes(p, "answer", "add")
  /\ AnswersFree(p)
  /\ UNCHANGED <<commVars, main, callVars, sharedVars>>

(* A fault to check against: answers told apart by their times. *)
AnswerTime(p) == recv[p].lamportTime

(* How a std::unordered_set<Packet> tells answers apart. *)
Answerer(p) == recv[p].source

(* ... counts the answer, gives the mutex back ... *)
AddAnswer(p) ==
  /\ receiving[p] = "add"
  /\ InHand(p, "MUTEX_AGREEMENT") => QueuedFree(p) /\ queuedMutexes[p][recv[p].message] # 0
  /\ answers' = [answers EXCEPT ![p] = @ \cup {Answerer(p)}]
  /\ ReceivingGoes(p, "add", IF AreAnswersComplete(p)' THEN "notify" ELSE "done")
  /\ UNCHANGED <<commVars, main, callVars, queuedMutexes, receivedRequests, conditionalWaits,
                 countVars>>

(* ... and wakes the main thread if it sleeps. *)
NotifyMain(p) ==
  /\ ReceivingGoes(p, "notify", "done")
  /\ main' = [main EXCEPT ![p] = IF @ = "asleep" THEN "answers" ELSE @]
  /\ UNCHANGED <<commVars, callVars, sharedVars>>

EndCallback(p) ==
  /\ ReceivingGoes(p, "done", "receive")
  /\ Dispatched(p)
  /\ UNCHANGED <<clock, chan, main, callVars, sharedVars>>

-----------------------------------------------------------------------------
MainThread(p) ==
  \/ Register(p) \/ Listen(p)
  \/ Hear(p) \/ Announce(p) \/ Subscribe(p) \/ SendWaitEnd(p) \/ SendRequests(p) \/ Record(p)
  \/ LockAnswers(p) \/ Test(p) \/ Unhear(p) \/ Unsubscribe(p) \/ Return(p)
  \/ \E m \in MutexName : CallRelease(p, m)
  \/ \E q \in Process : Answer(p, q)
  \/ Clear(p) \/ Unlocked(p)

ReceivingThread(p) ==
  \/ ReceivePacket(p) \/ StartCallback(p) \/ AnswerRequest(p)
  \/ ListWaiter(p) \/ EraseWaiters(p)
  \/ LockForAnswer(p) \/ AddAnswer(p) \/ NotifyMain(p)
  \/ EndCallback(p)

ThreadNext ==
  \E p \in Process :
    \/ \E m \in MutexName : CallAcquire(p, m) \/ CallWait(p, m)
    \/ MainThread(p)
    \/ WakeSpuriously(p)
    \/ ReceivingThread(p)

(* Every thread that can go on does, and a critical section ends.  Nobody    *)
(* has to call lock() or wait(), and nobody wakes up without reason for ever.*)
ThreadSpec ==
  /\ ThreadInit /\ [][ThreadNext]_threadVars
  /\ \A p \in Process :
       /\ WF_threadVars(MainThread(p)) /\ WF_threadVars(ReceivingThread(p))
       /\ <>[][~WakeSpuriously(p)]_threadVars

-----------------------------------------------------------------------------
(* The callback of acquireMutex or wait runs only while the call to whose    *)
(* local variables it refers is in progress: it locks, fills and notifies    *)
(* objects that exist, although the answer that it has added lets the call   *)
(* go on before it notifies.                                                 *)
CallbackHasFrame ==
  \A p \in Process :
    receiving[p] \in {"answer", "add", "notify"} =>
      frame[p] = CallNumber(p) /\ main[p] \in Calling

(* Every packet finds a callback, from the first one on, which a process     *)
(* that is ready can send to one that is not: "We can listen to incoming     *)
(* messages only after constructing the monitor objects because it registers *)
(* callbacks".  Otherwise threadFunction throws and the process dies.        *)
CallbackFound ==
  \A p \in Process :
    receiving[p] = "lock" => WantsRequest(p) \/ WantsWait(p) \/ WantsAnswer(p)

(* The two mutexes that are taken in opposite orders never meet: no callback *)
(* wants the mutex of the answers from a call that wants subscriptionMutex   *)
(* from it.                                                                  *)
NoLockCycle ==
  \A p \in Process :
    ~(receiving[p] = "answer" /\ main[p] \in {"unhear", "unsubscribe", "return"})

(* acquireMutex and wait return: the notification does not fall between the  *)
(* test of the set and the sleep, and no std::mutex is waited for in vain.   *)
CallReturns ==
  \A p \in Process : main[p] = "subscribe" ~> main[p] = "idle"

(* With these mutexes a callback, and a call up to its next packet, is one   *)
(* step, as in RicartAgrawala and ConditionVariable: a request counts as     *)
(* queued when it is sent, and a packet as handled when its callback has had *)
(* its effect.                                                               *)
PhaseOf(p, m) ==
  IF call[p] = m /\ main[p] \in Releasing
  THEN IF main[p] = "answer" THEN "releasing" ELSE "free"
  ELSE IF owned[p][m] THEN "held"
  ELSE IF call[p] # m THEN "free"
  ELSE CASE main[p] = "queue" -> "subscribed"
         [] main[p] \in {"record", "answers", "test", "asleep", "unsubscribe"} -> "waiting"
         [] main[p] = "return" -> "held"
         [] OTHER -> "free"

WaitStageOf(p, c) ==
  IF call[p] # c \/ ~InWait(p) THEN "out"
  ELSE CASE main[p] \in {"subscribe", "queue"} -> "inside"
         [] main[p] \in {"answers", "test", "asleep", "unhear", "unsubscribe"} -> "confirming"
         [] OTHER -> "out"

(* How the packet in hand and the local variables look then. *)
RecvOf(p) == IF receiving[p] \in {"notify", "done"} THEN NoPacket ELSE recv[p]
QueuedOf(p, m) == IF main[p] = "record" /\ call[p] = m THEN sent[p] ELSE queuedMutexes[p][m]
RequestsOf(p, m) ==
  IF main[p] = "answer" /\ call[p] = m THEN toAnswer[p] ELSE receivedRequests[p][m]
AgreementsOf(p, m) == IF call[p] = m /\ ~InWait(p) THEN answers[p] ELSE {}
ConfirmationsOf(p) == IF InWait(p) THEN answers[p] ELSE {}
AcquiresOf(p) == IF main[p] = "subscribe" /\ ~InWait(p) THEN acquires[p] - 1 ELSE acquires[p]
WaitsOf(p) == IF main[p] \in {"hear", "announce"} THEN waits[p] - 1 ELSE waits[p]

recvBar == [p \in Process |-> RecvOf(p)]
phaseBar == [p \in Process |-> [m \in MutexName |-> PhaseOf(p, m)]]
queuedBar == [p \in Process |-> [m \in MutexName |-> QueuedOf(p, m)]]
requestsBar == [p \in Process |-> [m \in MutexName |-> RequestsOf(p, m)]]
agreementsBar == [p \in Process |-> [m \in MutexName |-> AgreementsOf(p, m)]]
acquiresBar == [p \in Process |-> AcquiresOf(p)]
waitingBar == [p \in Process |-> [c \in MutexName |-> WaitStageOf(p, c)]]
confirmationsBar == [p \in Process |-> ConfirmationsOf(p)]
callsBar == [p \in Process |-> WaitsOf(p)]

OwnName == [c \in MutexName |-> c]
Never == [p \in Process |-> 0]
Nobody == [p \in Process |-> [c \in MutexName |-> {}]]

Atomic == INSTANCE ConditionVariable WITH
  CondName <- MutexName, MutexOf <- OwnName, NotifyOutside <- FALSE,
  MaxCalls <- MaxWaits, MaxSpurious <- Never,
  recv <- recvBar, phase <- phaseBar, queuedMutexes <- queuedBar,
  receivedRequests <- requestsBar, receivedAgreements <- agreementsBar,
  acquires <- acquiresBar, waiting <- waitingBar, receivedConfirmations <- confirmationsBar,
  recipients <- Nobody, calls <- callsBar

ImplementsConditionVariable == Atomic!CondSpec
=============================================================================
