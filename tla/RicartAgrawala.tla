--------------------------- MODULE RicartAgrawala ---------------------------
(***************************************************************************)
(* RicartAgrawalaExclusionAlgorithm and the DistributedMutex in front of   *)
(* it.  Each process has a main thread, which locks and unlocks mutexes,   *)
(* and a receiving thread, which runs the subscribed callbacks.            *)
(*                                                                         *)
(* Every operation on queuedMutexes and receivedRequests holds             *)
(* queuedMutexesMutex, so an operation of one thread is one step of the    *)
(* other; releaseMutex alone is split, because the clock and the network   *)
(* are free between two of its sends.                                      *)
(***************************************************************************)
EXTENDS Communicator, FiniteSets

CONSTANTS
  MutexName,   \* names of the registered mutexes, the same in every process
  MaxAcquires  \* bound: MaxAcquires[p] calls of acquireMutex in process p

ASSUME MutexAssumption ==
  /\ MutexName \subseteq Message
  /\ MaxAcquires \in [Process -> Nat]

VARIABLES
  phase,              \* phase[p][m]: where p's main thread is with mutex m
  queuedMutexes,      \* queuedMutexes[p][m]: time of p's request, 0 when not queued
  receivedRequests,   \* receivedRequests[p][m]: processes p has yet to answer
  receivedAgreements, \* receivedAgreements[p][m]: local of p's acquireMutex call
  acquires            \* acquires[p]: calls of acquireMutex so far

mutexVars == <<phase, queuedMutexes, receivedRequests, receivedAgreements, acquires>>
vars == <<commVars, mutexVars>>

(* free: not in any call.  subscribed: in acquireMutex, before queue().      *)
(* waiting: request sent, before the agreements are complete.  held: lock()  *)
(* has returned.  releasing: in releaseMutex, holding both std::mutexes.     *)
Phase == {"free", "subscribed", "waiting", "held", "releasing"}

TypeOK ==
  /\ CommTypeOK
  /\ phase \in [Process -> [MutexName -> Phase]]
  /\ queuedMutexes \in [Process -> [MutexName -> Nat]]
  /\ receivedRequests \in [Process -> [MutexName -> SUBSET Process]]
  /\ receivedAgreements \in [Process -> [MutexName -> SUBSET Process]]
  /\ acquires \in [Process -> Nat]

Init ==
  /\ CommInit
  /\ phase = [p \in Process |-> [m \in MutexName |-> "free"]]
  /\ queuedMutexes = [p \in Process |-> [m \in MutexName |-> 0]]
  /\ receivedRequests = [p \in Process |-> [m \in MutexName |-> {}]]
  /\ receivedAgreements = [p \in Process |-> [m \in MutexName |-> {}]]
  /\ acquires = [p \in Process |-> 0]

-----------------------------------------------------------------------------
(* Main thread. *)

(* A process has one main thread: it is in no call of the mutex library. *)
Idle(p) == \A m \in MutexName : phase[p][m] \in {"free", "held"}

SetPhase(p, m, ph) == phase' = [phase EXCEPT ![p][m] = ph]

(* lock(): acquireMutex subscribes to the agreements before it asks for them. *)
Subscribe(p, m) ==
  /\ Idle(p)
  /\ phase[p][m] = "free"
  /\ acquires[p] < MaxAcquires[p]
  /\ acquires' = [acquires EXCEPT ![p] = @ + 1]
  /\ SetPhase(p, m, "subscribed")
  /\ UNCHANGED <<commVars, queuedMutexes, receivedRequests, receivedAgreements>>

(* queue(): broadcast the request, remember its time. *)
Queue(p, m) ==
  /\ phase[p][m] = "subscribed"
  /\ Send(p, OtherProcesses(p), "MUTEX_REQUEST", m)
  /\ queuedMutexes' = [queuedMutexes EXCEPT ![p][m] = clock[p] + 1]
  /\ SetPhase(p, m, "waiting")
  /\ UNCHANGED <<recv, receivedRequests, receivedAgreements, acquires>>

(* A fault to check against: one agreement too few is enough. *)
OneAgreementShort(p, m) ==
  Cardinality(receivedAgreements[p][m]) >= NumberOfProcesses - 2

AreAgreementsComplete(p, m) ==
  Cardinality(receivedAgreements[p][m]) = NumberOfProcesses - 1

(* The wait ends, the agreement subscription is dropped, lock() returns. *)
Acquired(p, m) ==
  /\ phase[p][m] = "waiting"
  /\ AreAgreementsComplete(p, m)
  /\ receivedAgreements' = [receivedAgreements EXCEPT ![p][m] = {}]
  /\ SetPhase(p, m, "held")
  /\ UNCHANGED <<commVars, queuedMutexes, receivedRequests, acquires>>

(* unlock() of an owned mutex: releaseMutex takes its two std::mutexes. *)
Unlock(p, m) ==
  /\ Idle(p)
  /\ phase[p][m] = "held"
  /\ SetPhase(p, m, "releasing")
  /\ UNCHANGED <<commVars, queuedMutexes, receivedRequests, receivedAgreements, acquires>>

(* A fault to check against: receivedRequests is not cleared. *)
AnswerAndKeep(p, m, q) ==
  /\ phase[p][m] = "releasing"
  /\ q \in receivedRequests[p][m]
  /\ Send(p, {q}, "MUTEX_AGREEMENT", m)
  /\ UNCHANGED <<recv, mutexVars>>

(* The loop of releaseMutex: answer one delayed request. *)
AnswerDelayed(p, m, q) ==
  /\ phase[p][m] = "releasing"
  /\ q \in receivedRequests[p][m]
  /\ Send(p, {q}, "MUTEX_AGREEMENT", m)
  /\ receivedRequests' = [receivedRequests EXCEPT ![p][m] = @ \ {q}]
  /\ UNCHANGED <<recv, phase, queuedMutexes, receivedAgreements, acquires>>

(* A fault to check against: the mutex stays in queuedMutexes. *)
ReleasedButQueued(p, m) ==
  /\ phase[p][m] = "releasing"
  /\ receivedRequests[p][m] = {}
  /\ SetPhase(p, m, "free")
  /\ UNCHANGED <<commVars, queuedMutexes, receivedRequests, receivedAgreements, acquires>>

(* All answered: leave the queue, give the std::mutexes back, owned = false. *)
Released(p, m) ==
  /\ phase[p][m] = "releasing"
  /\ receivedRequests[p][m] = {}
  /\ queuedMutexes' = [queuedMutexes EXCEPT ![p][m] = 0]
  /\ SetPhase(p, m, "free")
  /\ UNCHANGED <<commVars, receivedRequests, receivedAgreements, acquires>>

-----------------------------------------------------------------------------
(* Receiving thread. *)

(* p's main thread is in releaseMutex, holding queuedMutexesMutex. *)
MutexStateLocked(p) == \E m \in MutexName : phase[p][m] = "releasing"

(* acquireMutex's subscription for agreements about m exists. *)
AgreementSubscribed(p, m) == phase[p][m] \in {"subscribed", "waiting"}

(* Faults to check against: both sides agree on a tie, or neither does. *)
AgreeOnTie(p, request) ==
  LET mine == queuedMutexes[p][request.message]
  IN  mine = 0 \/ request.lamportTime <= mine

DelayOnTie(p, request) ==
  LET mine == queuedMutexes[p][request.message]
  IN  mine = 0 \/ request.lamportTime < mine

CanSendAgreement(p, request) ==
  LET mine == queuedMutexes[p][request.message]
  IN  \/ mine = 0
      \/ request.lamportTime < mine
      \/ request.lamportTime = mine /\ request.source < p

(* The MUTEX_REQUEST callback: answer now, or keep the request for later. *)
ProcessRequest(p) ==
  /\ InHand(p, "MUTEX_REQUEST")
  /\ ~MutexStateLocked(p)
  /\ \E request \in Received(p) :
       \/ /\ CanSendAgreement(p, request)
          /\ Send(p, {request.source}, "MUTEX_AGREEMENT", request.message)
          /\ UNCHANGED receivedRequests
       \/ /\ ~CanSendAgreement(p, request)
          /\ receivedRequests' =
               [receivedRequests EXCEPT ![p][request.message] = @ \cup {request.source}]
          /\ UNCHANGED <<clock, chan>>
  /\ Dispatched(p)
  /\ UNCHANGED <<phase, queuedMutexes, receivedAgreements, acquires>>

(* A fault to check against: agreements told apart by their times. *)
AddAgreementByTime(p) ==
  /\ InHand(p, "MUTEX_AGREEMENT")
  /\ ~MutexStateLocked(p)
  /\ AgreementSubscribed(p, recv[p].message)
  /\ receivedAgreements' =
       [receivedAgreements EXCEPT ![p][recv[p].message] = @ \cup {recv[p].lamportTime}]
  /\ Dispatched(p)
  /\ UNCHANGED <<clock, chan, phase, queuedMutexes, receivedRequests, acquires>>

(* The MUTEX_AGREEMENT callback of the acquireMutex call in progress. *)
AddAgreement(p) ==
  /\ InHand(p, "MUTEX_AGREEMENT")
  /\ ~MutexStateLocked(p)
  /\ LET m == recv[p].message
     IN  /\ AgreementSubscribed(p, m)
         /\ queuedMutexes[p][m] # 0
         /\ receivedAgreements' =
              [receivedAgreements EXCEPT ![p][m] = @ \cup {recv[p].source}]
  /\ Dispatched(p)
  /\ UNCHANGED <<clock, chan, phase, queuedMutexes, receivedRequests, acquires>>

ReceiveAny(p) == (\E q \in OtherProcesses(p) : Receive(p, q)) /\ UNCHANGED mutexVars

-----------------------------------------------------------------------------
(* The calls a main thread makes once it has called lock() or unlock(). *)
InCall(p, m) ==
  \/ Queue(p, m)
  \/ Acquired(p, m)
  \/ \E q \in Process : AnswerDelayed(p, m, q)
  \/ Released(p, m)

Receiver(p) == ReceiveAny(p) \/ ProcessRequest(p) \/ AddAgreement(p)

(* Every process has used up MaxAcquires and the network is empty. *)
Finished ==
  /\ \A p \in Process : acquires[p] = MaxAcquires[p] /\ recv[p] = NoPacket
  /\ \A p \in Process : \A m \in MutexName : phase[p][m] = "free"
  /\ \A p, q \in Process : chan[p][q] = <<>>
  /\ UNCHANGED vars

Next ==
  \/ \E p \in Process, m \in MutexName : Subscribe(p, m) \/ Unlock(p, m) \/ InCall(p, m)
  \/ \E p \in Process : Receiver(p)
  \/ Finished

Spec == Init /\ [][Next]_vars

(* Both threads of every process keep running, MPI delivers what it has     *)
(* buffered, and a critical section ends.  Calling lock() is never forced.  *)
Fairness ==
  \A p \in Process :
    /\ WF_vars(Receiver(p))
    /\ \A m \in MutexName : WF_vars(InCall(p, m)) /\ WF_vars(Unlock(p, m))

FairSpec == Spec /\ Fairness

-----------------------------------------------------------------------------
(* Order of requests: smaller time first, then smaller rank. *)
Precedes(s, p, t, q) == s < t \/ (s = t /\ p < q)

(* No two processes are past lock() and before unlock() of the same mutex.   *)
(* This is what acquireMutex promises with "blocks until all other remote    *)
(* processes agree".                                                         *)
MutualExclusion ==
  \A p, q \in Process : \A m \in MutexName :
    phase[p][m] = "held" /\ phase[q][m] = "held" => p = q

(* The mutex is granted in the order of the requests: nobody holds it while  *)
(* a request with an earlier time (or the same time and a lower rank) is     *)
(* outstanding.  canSendAgreement decides this pairwise and locally; the     *)
(* property is the global order it is meant to produce.                      *)
HolderRequestedFirst ==
  \A p, q \in Process : \A m \in MutexName :
    (p # q /\ phase[p][m] = "held" /\ phase[q][m] \in {"waiting", "held"})
      => Precedes(queuedMutexes[p][m], p, queuedMutexes[q][m], q)

(* The receiving thread never throws: for an agreement in its hand the       *)
(* subscription of acquireMutex still exists and addAgreement finds the      *)
(* mutex queued (otherwise threadFunction or addAgreement throws and the     *)
(* process dies).                                                            *)
NoUnexpectedAgreement ==
  \A p \in Process :
    InHand(p, "MUTEX_AGREEMENT") =>
      /\ AgreementSubscribed(p, recv[p].message)
      /\ queuedMutexes[p][recv[p].message] # 0

(* q holds a received packet of p, whose callback has not run. *)
HeldInHand(q, p, type, m) ==
  InHand(q, type) /\ recv[q].source = p /\ recv[q].message = m

Holds(s, type, m) ==
  \E i \in 1 .. Len(s) : s[i].messageType = type /\ s[i].message = m

AtMostOnce(s, type, m) ==
  \A i, j \in 1 .. Len(s) :
    /\ s[i].messageType = type /\ s[i].message = m
    /\ s[j].messageType = type /\ s[j].message = m
    => i = j

(* The places where p's outstanding request for m to q can be. *)
RequestSent(p, q, m) == Holds(chan[p][q], "MUTEX_REQUEST", m)
RequestInHand(p, q, m) == HeldInHand(q, p, "MUTEX_REQUEST", m)
Delayed(p, q, m) == p \in receivedRequests[q][m]
AgreementSent(p, q, m) == Holds(chan[q][p], "MUTEX_AGREEMENT", m)
AgreementInHand(p, q, m) == HeldInHand(p, q, "MUTEX_AGREEMENT", m)
Counted(p, q, m) == q \in receivedAgreements[p][m]

Asked(p, q, m) == RequestSent(p, q, m) \/ RequestInHand(p, q, m)
Answered(p, q, m) == AgreementSent(p, q, m) \/ AgreementInHand(p, q, m)

OnePlace(p, q, m) ==
  /\ AtMostOnce(chan[p][q], "MUTEX_REQUEST", m)
  /\ AtMostOnce(chan[q][p], "MUTEX_AGREEMENT", m)
  /\ phase[p][m] = "waiting" <=>
       Asked(p, q, m) \/ Delayed(p, q, m) \/ Answered(p, q, m) \/ Counted(p, q, m)
  /\ ~(RequestSent(p, q, m) /\ RequestInHand(p, q, m))
  /\ ~(AgreementSent(p, q, m) /\ AgreementInHand(p, q, m))
  /\ Asked(p, q, m) => ~Delayed(p, q, m) /\ ~Answered(p, q, m) /\ ~Counted(p, q, m)
  /\ Delayed(p, q, m) => ~Answered(p, q, m) /\ ~Counted(p, q, m)
  /\ Answered(p, q, m) => ~Counted(p, q, m)

(* While p waits, its request to q is in exactly one place: sent, in q's     *)
(* hand, delayed by q, answered with the agreement sent or in p's hand, or   *)
(* the agreement is counted.  Otherwise it is nowhere: no request is lost,   *)
(* answered twice, or left over to be counted by a later acquireMutex.       *)
RequestInOnePlace ==
  \A p \in Process : \A q \in OtherProcesses(p) : \A m \in MutexName : OnePlace(p, q, m)

(* Two processes never delay each other: that would stop both for good. *)
NoMutualDelay ==
  \A p, q \in Process : \A m \in MutexName :
    p # q => ~(p \in receivedRequests[q][m] /\ q \in receivedRequests[p][m])

(* Every lock() returns: neither the two threads of a process nor the        *)
(* processes among themselves can wait on each other for good, provided the  *)
(* clients do not nest two mutexes in opposite orders.                       *)
LockReturns ==
  \A p \in Process : \A m \in MutexName :
    phase[p][m] = "subscribed" ~> phase[p][m] = "held"

(* The whole exchange of packets amounts to a lock: between request and      *)
(* release a process is granted the mutex in one step, when nobody has it.   *)
AbstractLock == INSTANCE Lock WITH
  status <- [p \in Process |-> [m \in MutexName |->
               IF phase[p][m] \in {"waiting", "held"} THEN phase[p][m] ELSE "free"]]

ImplementsLock == AbstractLock!LockSpec
=============================================================================
