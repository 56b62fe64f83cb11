----------------------- MODULE ConditionVariableProofs -----------------------
(***************************************************************************)
(* Theorems about ConditionVariable, for every number of processes, every  *)
(* set of mutexes and condition variables and both communicators.          *)
(***************************************************************************)
EXTENDS ConditionVariable, RicartAgrawalaProofs

CondType == {"COND_WAIT", "COND_WAIT_END", "COND_WAIT_END_CONFIRM", "COND_NOTIFY"}

(* The packets of a condition variable name one. *)
CondPackets ==
  /\ \A p, q \in Process : \A i \in 1 .. Len(chan[p][q]) :
       chan[p][q][i].messageType \in CondType => chan[p][q][i].message \in CondName
  /\ \A p \in Process :
       recv[p] # NoPacket /\ recv[p].messageType \in CondType => recv[p].message \in CondName

(* A packet of p that q has not dispatched. *)
Underway(p, q, type, c) == Holds(chan[p][q], type, c) \/ HeldInHand(q, p, type, c)

OnlyOne(p, q, type, c) ==
  /\ AtMostOnce(chan[p][q], type, c)
  /\ ~(Holds(chan[p][q], type, c) /\ HeldInHand(q, p, type, c))

(* Every packet of the first kind is in front of every one of the second.    *)
Before(s, type, c, later, m) ==
  \A i, j \in 1 .. Len(s) :
    /\ s[i].messageType = type /\ s[i].message = c
    /\ s[j].messageType = later /\ s[j].message = m
    => i < j

Ordered(p, q, type, c, later, m) ==
  /\ Before(chan[p][q], type, c, later, m)
  /\ Holds(chan[p][q], type, c) => ~HeldInHand(q, p, later, m)

(* A main thread is in one call at a time.  It holds the mutex while it      *)
(* waits for confirmations, and while it sends notifications if clients      *)
(* notify inside their entries.                                              *)
OneCall(p) ==
  /\ \A c, d \in CondName : waiting[p][c] # "out" /\ waiting[p][d] # "out" => c = d
  /\ \A c, d \in CondName : waiting[p][c] # "out" => recipients[p][d] = {}
  /\ \A c \in CondName : waiting[p][c] = "confirming" => HoldsMutexOf(p, c)
  /\ \A c \in CondName : recipients[p][c] # {} => HoldsMutexOf(p, c) \/ NotifyOutside

(* The tables and the confirmations of p name other processes, and           *)
(* confirmations are kept by a wait that asks for them.                      *)
OwnTables(p) ==
  /\ receivedConfirmations[p] \subseteq OtherProcesses(p)
  /\ receivedConfirmations[p] # {} => \E c \in CondName : waiting[p][c] = "confirming"
  /\ \A c \in CondName : \A w \in conditionalWaits[p][c] : w.source \in OtherProcesses(p)

Listed(p, q, c) == \E w \in conditionalWaits[q][c] : w.source = p

Recorded(p, q, c) == waiting[p][c] = "confirming" /\ q \in receivedConfirmations[p]

(* p's COND_WAIT is on its way to q, or p is on q's table, only while p is   *)
(* in wait, and no more once q has confirmed the end of that wait.           *)
Announced(p, q, c) ==
  /\ OnlyOne(p, q, "COND_WAIT", c)
  /\ Underway(p, q, "COND_WAIT", c) => ~Listed(p, q, c)
  /\ Underway(p, q, "COND_WAIT", c) \/ Listed(p, q, c) =>
       /\ waiting[p][c] # "out"
       /\ ~Underway(q, p, "COND_WAIT_END_CONFIRM", c)
       /\ ~Recorded(p, q, c)
  /\ Ordered(p, q, "COND_WAIT", c, "COND_WAIT_END", c)

(* While p asks for confirmations, q's is in exactly one place: the end of   *)
(* the wait on its way to q, the confirmation on its way to p, or recorded.  *)
ConfirmedOnce(p, q, c) ==
  /\ OnlyOne(p, q, "COND_WAIT_END", c)
  /\ OnlyOne(q, p, "COND_WAIT_END_CONFIRM", c)
  /\ waiting[p][c] = "confirming" <=>
       \/ Underway(p, q, "COND_WAIT_END", c)
       \/ Underway(q, p, "COND_WAIT_END_CONFIRM", c)
       \/ Recorded(p, q, c)
  /\ Underway(p, q, "COND_WAIT_END", c) =>
       ~Underway(q, p, "COND_WAIT_END_CONFIRM", c) /\ ~Recorded(p, q, c)
  /\ Underway(q, p, "COND_WAIT_END_CONFIRM", c) => ~Recorded(p, q, c)

(* What p sends to q while it holds the mutex of c, q has dispatched before  *)
(* q counts p's next agreement to that mutex.                                *)
SentHolding(p, q, type, c) ==
  /\ Ordered(p, q, type, c, "MUTEX_AGREEMENT", MutexOf[c])
  /\ Underway(p, q, type, c) => ~Counted(q, p, MutexOf[c]) /\ phase[q][MutexOf[c]] # "held"

WaitInv ==
  \A p \in Process : \A q \in OtherProcesses(p) : \A c \in CondName :
    Announced(p, q, c) /\ ConfirmedOnce(p, q, c) /\ SentHolding(p, q, "COND_WAIT", c)

(* The inductive invariant, whenever clients notify. *)
CondInv ==
  /\ IInv
  /\ CondTypeOK
  /\ CondPackets
  /\ \A p \in Process : OneCall(p) /\ OwnTables(p)
  /\ WaitInv

(* q's notification of p, from the moment q has picked p. *)
Notifying(q, p, c) == p \in recipients[q][c] \/ Underway(q, p, "COND_NOTIFY", c)

(* Inductive together with CondInv if clients notify inside their entries:   *)
(* whoever is being notified waits, and has yet to take the mutex again.     *)
NotifyInv ==
  \A p \in Process : \A q \in OtherProcesses(p) : \A c \in CondName :
    /\ SentHolding(q, p, "COND_NOTIFY", c)
    /\ Notifying(q, p, c) => waiting[p][c] \in {"inside", "woken"}

-----------------------------------------------------------------------------
(* Order in a channel. *)

LEMMA BeforeAppend ==
  ASSUME NEW s \in Seq(Packet), NEW e \in Packet, NEW type, NEW c, NEW later, NEW m,
         later # type, Before(s, type, c, later, m),
         e.messageType = type /\ e.message = c => ~Holds(s, later, m)
  PROVE  Before(Append(s, e), type, c, later, m)
  <1> DEFINE n == Len(s) + 1
             a == Append(s, e)
  <1>1. /\ n - 1 = Len(s) /\ n \in Nat \ {0}
        /\ Len(a) = n
        /\ \A i \in 1 .. n - 1 : a[i] = s[i]
        /\ a[n] = e
    BY AppendFacts
  <1>2. 1 .. n = (1 .. n - 1) \cup {n} /\ \A i \in 1 .. n - 1 : i < n
    BY <1>1
  <1> HIDE DEF n, a
  <1>3. ASSUME NEW i \in 1 .. n, NEW j \in 1 .. n,
               a[i].messageType = type, a[i].message = c,
               a[j].messageType = later, a[j].message = m
        PROVE  i < j
    <2>1. CASE i \in 1 .. n - 1 /\ j \in 1 .. n - 1
      BY <1>1, <1>3, <2>1 DEF Before
    <2>2. CASE i = n /\ j \in 1 .. n - 1
      BY <1>1, <1>3, <2>2 DEF Holds
    <2>3. CASE j = n
      <3>1. i # n
        BY <1>3, <2>3
      <3> QED
        BY <1>2, <2>3, <3>1
    <2> QED
      BY <1>2, <2>1, <2>2, <2>3
  <1> QED
    BY <1>1, <1>3 DEF a, Before

LEMMA BeforeTail ==
  ASSUME NEW s \in Seq(Packet), s # <<>>, NEW type, NEW c, NEW later, NEW m,
         Before(s, type, c, later, m)
  PROVE  /\ Before(Tail(s), type, c, later, m)
         /\ Head(s).messageType = later /\ Head(s).message = m => ~Holds(Tail(s), type, c)
  <1> DEFINE n == Len(s) - 1
             t == Tail(s)
             h == Head(s)
  <1>1. /\ n + 1 = Len(s) /\ n \in Nat
        /\ Len(t) = n
        /\ \A i \in 1 .. n : t[i] = s[i + 1]
        /\ h = s[1]
    BY TailFacts
  <1>2. /\ \A i \in 1 .. n : i + 1 \in 1 .. n + 1 /\ ~(i + 1 < 1)
        /\ 1 \in 1 .. n + 1
        /\ \A i, j \in 1 .. n : i + 1 < j + 1 => i < j
    BY <1>1
  <1> HIDE DEF n, t, h
  <1>3. ASSUME NEW i \in 1 .. n, NEW j \in 1 .. n,
               t[i].messageType = type, t[i].message = c,
               t[j].messageType = later, t[j].message = m
        PROVE  i < j
    <2>1. /\ i + 1 \in 1 .. Len(s) /\ s[i + 1] = t[i]
          /\ j + 1 \in 1 .. Len(s) /\ s[j + 1] = t[j]
      BY <1>1, <1>2
    <2>2. i + 1 < j + 1
      BY <1>3, <2>1 DEF Before
    <2> QED
      BY <1>2, <2>2
  <1>4. ASSUME h.messageType = later, h.message = m, Holds(t, type, c)
        PROVE  FALSE
    <2>1. PICK i \in 1 .. n : t[i].messageType = type /\ t[i].message = c
      BY <1>1, <1>4 DEF Holds
    <2>2. i + 1 \in 1 .. Len(s) /\ s[i + 1] = t[i] /\ 1 \in 1 .. Len(s)
      BY <1>1, <1>2
    <2>3. i + 1 < 1
      BY <1>1, <1>4, <2>1, <2>2 DEF Before
    <2> QED
      BY <1>2, <2>3
  <1> QED
    BY <1>1, <1>3, <1>4 DEF t, h, Before

(* A step that sends and dispatches: what is on its way afterwards. *)
LEMMA Flow ==
  ASSUME CommTypeOK, NEW r \in Process, NEW R, NEW type, NEW msg,
         PacketStep(r, R, type, msg),
         NEW p \in Process, NEW q \in Process, NEW t, NEW c
  PROVE  LET new == p = r /\ q \in R /\ t = type /\ c = msg
         IN  /\ HeldInHand(q, p, t, c)' => HeldInHand(q, p, t, c)
             /\ Holds(chan[p][q], t, c)' <=> Holds(chan[p][q], t, c) \/ new
             /\ OnlyOne(p, q, t, c) /\ ~(Underway(p, q, t, c) /\ new) =>
                  /\ OnlyOne(p, q, t, c)'
                  /\ Underway(p, q, t, c)'
                       <=> \/ new
                           \/ /\ Underway(p, q, t, c)
                              /\ HeldInHand(q, p, t, c) => HeldInHand(q, p, t, c)'
  <1> DEFINE new == p = r /\ q \in R /\ t = type /\ c = msg
  <1>1. HeldInHand(q, p, t, c)' => HeldInHand(q, p, t, c)
    <2>1. recv'[q] = recv[q] \/ recv'[q] = NoPacket
      BY DEF PacketStep, Dispatched, CommTypeOK
    <2> QED
      BY <2>1 DEF HeldInHand, InHand
  <1>2. /\ Holds(chan[p][q], t, c)' <=> Holds(chan[p][q], t, c) \/ new
        /\ AtMostOnce(chan[p][q], t, c) /\ ~(Holds(chan[p][q], t, c) /\ new)
             => AtMostOnce(chan[p][q], t, c)'
    <2>1. CASE R = {} /\ UNCHANGED <<clock, chan>>
      BY <2>1
    <2>2. CASE /\ R \in SUBSET Process /\ type \in MessageType /\ msg \in Message
               /\ Send(r, R, type, msg)
      BY <2>2, SendHolds
    <2> QED
      BY <2>1, <2>2 DEF PacketStep
  <1> HIDE DEF new
  <1> QED
    BY <1>1, <1>2 DEF new, OnlyOne, Underway

(* The order is kept by whoever sends the first kind only when none of the   *)
(* second is on its way.                                                     *)
LEMMA FlowOrdered ==
  ASSUME CommTypeOK, NEW r \in Process, NEW R, NEW type, NEW msg,
         PacketStep(r, R, type, msg),
         NEW p \in Process, NEW q \in Process, NEW t, NEW c, NEW later, NEW m, later # t,
         Ordered(p, q, t, c, later, m),
         p = r /\ q \in R /\ t = type /\ c = msg => ~Underway(p, q, later, m)
  PROVE  Ordered(p, q, t, c, later, m)'
  <1> DEFINE new == p = r /\ q \in R /\ t = type /\ c = msg
  <1>1. /\ HeldInHand(q, p, later, m)' => HeldInHand(q, p, later, m)
        /\ Holds(chan[p][q], t, c)' <=> Holds(chan[p][q], t, c) \/ new
    BY Flow
  <1>2. Before(chan[p][q], t, c, later, m)'
    <2>1. CASE UNCHANGED <<clock, chan>>
      BY <2>1 DEF Ordered
    <2>2. CASE /\ R \in SUBSET Process /\ type \in MessageType /\ msg \in Message
               /\ Send(r, R, type, msg)
      <3> DEFINE e == NextPacket(r, type, msg)
      <3>1. /\ e \in Packet /\ e.messageType = type /\ e.message = msg
            /\ chan[p][q] \in Seq(Packet)
        BY <2>2, SendEffect DEF CommTypeOK, NextPacket
      <3>2. chan'[p][q] = IF p = r /\ q \in R THEN Append(chan[p][q], e) ELSE chan[p][q]
        BY <2>2, SendChannel
      <3> HIDE DEF e
      <3>3. CASE p = r /\ q \in R
        <4>1. chan'[p][q] = Append(chan[p][q], e)
          BY <3>2, <3>3
        <4>2. e.messageType = t /\ e.message = c => ~Holds(chan[p][q], later, m)
          BY <3>1, <3>3 DEF Underway
        <4>3. Before(Append(chan[p][q], e), t, c, later, m)
          BY <3>1, <4>2, BeforeAppend DEF Ordered
        <4> QED
          BY <4>1, <4>3
      <3>4. CASE ~(p = r /\ q \in R)
        <4>1. chan'[p][q] = chan[p][q]
          BY <3>2, <3>4
        <4> QED
          BY <4>1 DEF Ordered
      <3> QED
        BY <3>3, <3>4
    <2> QED
      BY <2>1, <2>2 DEF PacketStep
  <1> QED
    BY <1>1, <1>2 DEF Ordered, Underway

(* Receiving moves a packet from the channel to the hand. *)
LEMMA FlowReceive ==
  ASSUME IInv, NEW r \in Process, NEW s \in OtherProcesses(r), Receive(r, s),
         NEW p \in Process, NEW q \in Process, NEW t, NEW c
  PROVE  /\ OnlyOne(p, q, t, c) => OnlyOne(p, q, t, c)'
         /\ Underway(p, q, t, c)' <=> Underway(p, q, t, c)
         /\ \A later, m : later # t /\ Ordered(p, q, t, c, later, m)
                            => Ordered(p, q, t, c, later, m)'
  <1> DEFINE h == Head(chan[s][r])
             hit(type, m) == p = s /\ q = r /\ h.messageType = type /\ h.message = m
  <1>0. CommTypeOK /\ PacketInv /\ s \in Process
    BY ProcessFacts DEF IInv, TypeOK
  <1>1. /\ recv[r] = NoPacket /\ recv'[r] # NoPacket
        /\ recv'[r].messageType = h.messageType /\ recv'[r].message = h.message
        /\ recv'[r].source = s
        /\ \A x \in Process : x # r => recv'[x] = recv[x]
    <2>1. Genuine(h, s)
      BY <1>0, ReceiveGenuine
    <2> QED
      BY <1>0, <2>1, ReceiveEffect DEF Genuine
  <1>2. \A type, m : /\ HeldInHand(q, p, type, m)' <=> HeldInHand(q, p, type, m) \/ hit(type, m)
                     /\ hit(type, m) => ~HeldInHand(q, p, type, m)
    BY <1>1 DEF HeldInHand, InHand
  <1>3. /\ Holds(chan[p][q], t, c) <=> Holds(chan[p][q], t, c)' \/ hit(t, c)
        /\ AtMostOnce(chan[p][q], t, c) =>
             AtMostOnce(chan[p][q], t, c)' /\ ~(Holds(chan[p][q], t, c)' /\ hit(t, c))
    BY <1>0, ReceiveHolds
  <1>4. ASSUME NEW later, NEW m, later # t, Ordered(p, q, t, c, later, m)
        PROVE  Ordered(p, q, t, c, later, m)'
    <2>1. CASE p = s /\ q = r
      <3>1. chan[p][q] \in Seq(Packet) /\ chan[p][q] # <<>> /\ chan'[p][q] = Tail(chan[p][q])
        BY <1>0, <2>1, ReceiveChannel DEF CommTypeOK
      <3>2. /\ Before(chan[p][q], t, c, later, m)'
            /\ hit(later, m) => ~Holds(chan[p][q], t, c)'
        BY <1>4, <2>1, <3>1, BeforeTail DEF Ordered
      <3>3. ~HeldInHand(q, p, later, m)
        BY <1>1, <2>1 DEF HeldInHand, InHand
      <3> QED
        BY <1>2, <3>2, <3>3 DEF Ordered
    <2>2. CASE ~(p = s /\ q = r)
      <3>1. chan'[p][q] = chan[p][q]
        BY <1>0, <2>2, ReceiveChannel
      <3>2. HeldInHand(q, p, later, m)' <=> HeldInHand(q, p, later, m)
        BY <1>2, <2>2
      <3> QED
        BY <1>4, <3>1, <3>2 DEF Ordered
    <2> QED
      BY <2>1, <2>2
  <1>5. /\ HeldInHand(q, p, t, c)' <=> HeldInHand(q, p, t, c) \/ hit(t, c)
        /\ hit(t, c) => ~HeldInHand(q, p, t, c)
    BY <1>2
  <1> HIDE DEF hit
  <1> QED
    BY <1>3, <1>4, <1>5 DEF OnlyOne, Underway

(* A step of the exclusion algorithm receives a packet, or sends and         *)
(* dispatches packets of its own.                                            *)
LEMMA MutexEffect ==
  ASSUME IInv, [Next]_vars
  PROVE  \/ \E r \in Process : \E s \in OtherProcesses(r) : Receive(r, s) /\ UNCHANGED mutexVars
         \/ \E r \in Process : \E R, type, msg :
              /\ PacketStep(r, R, type, msg)
              /\ type \in MutexType
              /\ recv[r].messageType \in MutexType \/ UNCHANGED recv
         \/ UNCHANGED <<clock, chan, recv>>
  <1>1. ASSUME NEW r \in Process, NEW m \in MutexName, InCall(r, m)
        PROVE  \/ \E R, type, msg :
                    PacketStep(r, R, type, msg) /\ type \in MutexType /\ UNCHANGED recv
               \/ UNCHANGED <<clock, chan, recv>>
    <2>1. CASE Queue(r, m)
      <3>1. PacketStep(r, OtherProcesses(r), "MUTEX_REQUEST", m) /\ UNCHANGED recv
        BY <2>1, Constants DEF Queue, PacketStep
      <3> QED
        BY <3>1 DEF MutexType
    <2>2. ASSUME NEW q \in Process, AnswerDelayed(r, m, q)
          PROVE  \E R, type, msg :
                   PacketStep(r, R, type, msg) /\ type \in MutexType /\ UNCHANGED recv
      <3>1. PacketStep(r, {q}, "MUTEX_AGREEMENT", m) /\ UNCHANGED recv
        BY <2>2, Constants DEF AnswerDelayed, PacketStep
      <3> QED
        BY <3>1 DEF MutexType
    <2>3. CASE Acquired(r, m) \/ Released(r, m)
      BY <2>3 DEF Acquired, Released, commVars
    <2> QED
      BY <1>1, <2>1, <2>2, <2>3 DEF InCall
  <1>2. ASSUME NEW r \in Process, NEW m \in MutexName, Subscribe(r, m) \/ Unlock(r, m)
        PROVE  UNCHANGED <<clock, chan, recv>>
    BY <1>2 DEF Subscribe, Unlock, commVars
  <1>3. ASSUME NEW r \in Process, ProcessRequest(r)
        PROVE  \E R, type, msg :
                 /\ PacketStep(r, R, type, msg) /\ type \in MutexType
                 /\ recv[r].messageType \in MutexType
    <2>1. /\ recv[r] # NoPacket /\ recv[r].messageType \in MutexType /\ Dispatched(r)
      BY <1>3 DEF ProcessRequest, InHand, MutexType
    <2>2. PICK request \in Received(r) :
            \/ Send(r, {request.source}, "MUTEX_AGREEMENT", request.message)
            \/ UNCHANGED <<clock, chan>>
      BY <1>3 DEF ProcessRequest
    <2>3. request.source \in Process /\ request.message \in Message
      BY <2>1, ReceivedFacts DEF IInv, TypeOK, Packet
    <2>4. \/ PacketStep(r, {request.source}, "MUTEX_AGREEMENT", request.message)
          \/ PacketStep(r, {}, "MUTEX_AGREEMENT", request.message)
      BY <2>1, <2>2, <2>3, Constants DEF PacketStep
    <2> QED
      BY <2>1, <2>4 DEF MutexType
  <1>4. ASSUME NEW r \in Process, AddAgreement(r)
        PROVE  \E R, type, msg :
                 /\ PacketStep(r, R, type, msg) /\ type \in MutexType
                 /\ recv[r].messageType \in MutexType
    <2>1. PacketStep(r, {}, "MUTEX_AGREEMENT", 0) /\ recv[r].messageType \in MutexType
      BY <1>4 DEF AddAgreement, InHand, PacketStep, MutexType
    <2> QED
      BY <2>1 DEF MutexType
  <1>5. UNCHANGED vars => UNCHANGED <<clock, chan, recv>>
    BY DEF vars, commVars
  <1>6. ASSUME NEW r \in Process, Receiver(r)
        PROVE  \/ \E s \in OtherProcesses(r) : Receive(r, s) /\ UNCHANGED mutexVars
               \/ \E R, type, msg :
                    /\ PacketStep(r, R, type, msg) /\ type \in MutexType
                    /\ recv[r].messageType \in MutexType
    BY <1>3, <1>4, <1>6 DEF Receiver, ReceiveAny
  <1> QED
    BY <1>1, <1>2, <1>5, <1>6 DEF Next, Finished

(* It leaves the packets of the condition variables on their way. *)
LEMMA MutexFlow ==
  ASSUME IInv, [Next]_vars, NEW p \in Process, NEW q \in Process, NEW t \in CondType, NEW c
  PROVE  /\ OnlyOne(p, q, t, c) => OnlyOne(p, q, t, c)'
         /\ Underway(p, q, t, c)' <=> Underway(p, q, t, c)
         /\ \A later, m : later # t /\ Ordered(p, q, t, c, later, m)
                            => Ordered(p, q, t, c, later, m)'
  <1>0. CommTypeOK /\ t \notin MutexType
    BY DEF IInv, TypeOK, CondType, MutexType
  <1>1. ASSUME NEW r \in Process, NEW R, NEW type, NEW msg, PacketStep(r, R, type, msg),
               type \in MutexType, recv[r].messageType \in MutexType \/ UNCHANGED recv
        PROVE  /\ OnlyOne(p, q, t, c) => OnlyOne(p, q, t, c)'
               /\ Underway(p, q, t, c)' <=> Underway(p, q, t, c)
               /\ \A later, m : later # t /\ Ordered(p, q, t, c, later, m)
                                  => Ordered(p, q, t, c, later, m)'
    <2>1. t # type
      BY <1>0, <1>1
    <2>2. HeldInHand(q, p, t, c) => HeldInHand(q, p, t, c)'
      <3>1. recv'[q] = recv[q] \/ (q = r /\ recv[q].messageType \in MutexType)
        BY <1>0, <1>1 DEF PacketStep, Dispatched, CommTypeOK
      <3> QED
        BY <1>0, <3>1 DEF HeldInHand, InHand
    <2>3. /\ HeldInHand(q, p, t, c)' => HeldInHand(q, p, t, c)
          /\ Holds(chan[p][q], t, c)' <=> Holds(chan[p][q], t, c)
          /\ OnlyOne(p, q, t, c) => OnlyOne(p, q, t, c)'
      BY <1>0, <1>1, <2>1, Flow
    <2>4. \A later, m : later # t /\ Ordered(p, q, t, c, later, m)
                          => Ordered(p, q, t, c, later, m)'
      BY <1>0, <1>1, <2>1, FlowOrdered
    <2> QED
      BY <2>2, <2>3, <2>4 DEF Underway
  <1>2. CASE UNCHANGED <<clock, chan, recv>>
    BY <1>2 DEF OnlyOne, Underway, Ordered, HeldInHand, InHand
  <1> QED
    BY <1>1, <1>2, MutexEffect, FlowReceive

(* What is sent under the mutex stays ahead of the agreement, whatever the   *)
(* exclusion algorithm does,                                                 *)
LEMMA MutexHolding ==
  ASSUME IInv, [Next]_vars, NEW p \in Process, NEW q \in OtherProcesses(p),
         NEW t \in CondType, NEW c \in CondName, SentHolding(p, q, t, c)
  PROVE  SentHolding(p, q, t, c)'
  <1> DEFINE m == MutexOf[c]
  <1>0. q \in Process /\ p \in OtherProcesses(q) /\ m \in MutexName /\ t # "MUTEX_AGREEMENT"
    BY ProcessFacts, CondAssumption DEF CondType
  <1>1. /\ Ordered(p, q, t, c, "MUTEX_AGREEMENT", m)
        /\ Underway(p, q, t, c) => ~Counted(q, p, m) /\ phase[q][m] # "held"
    BY DEF SentHolding
  <1>2. /\ Counted(q, p, m)' => Counted(q, p, m) \/ AgreementInHand(q, p, m)
        /\ (phase[q][m] = "held")' => phase[q][m] = "held" \/ Counted(q, p, m)
    BY <1>0, AgreementsCounted
  <1>3. /\ Ordered(p, q, t, c, "MUTEX_AGREEMENT", m)'
        /\ Underway(p, q, t, c)' <=> Underway(p, q, t, c)
    BY <1>0, <1>1, MutexFlow
  <1>4. AgreementInHand(q, p, m) => ~Underway(p, q, t, c)
    BY <1>0, <1>1 DEF Ordered, Underway, AgreementInHand, HeldInHand, InHand
  <1> HIDE DEF m
  <1>5. Underway(p, q, t, c)' => ~Counted(q, p, m)' /\ phase'[q][m] # "held"
    BY <1>1, <1>2, <1>3, <1>4
  <1> QED
    BY <1>3, <1>5 DEF SentHolding, m

(* and whoever sends it under the mutex has not agreed to any request.       *)
LEMMA OtherHolding ==
  ASSUME IInv, NEW r \in Process, NEW R, NEW type, NEW msg, OtherComponent(r, R, type, msg),
         NEW p \in Process, NEW q \in OtherProcesses(p), NEW t \in CondType, NEW c \in CondName,
         SentHolding(p, q, t, c),
         p = r /\ q \in R /\ t = type /\ c = msg => HoldsMutexOf(p, c)
  PROVE  SentHolding(p, q, t, c)'
  <1> DEFINE m == MutexOf[c]
             new == p = r /\ q \in R /\ t = type /\ c = msg
  <1>0. /\ CommTypeOK /\ PacketStep(r, R, type, msg)
        /\ UNCHANGED <<phase, receivedAgreements>>
        /\ q \in Process /\ p \in OtherProcesses(q) /\ m \in MutexName /\ t # "MUTEX_AGREEMENT"
    BY ProcessFacts, CondAssumption DEF IInv, TypeOK, OtherComponent, mutexVars, CondType
  <1>1. /\ Ordered(p, q, t, c, "MUTEX_AGREEMENT", m)
        /\ Underway(p, q, t, c) => ~Counted(q, p, m) /\ phase[q][m] # "held"
    BY DEF SentHolding
  <1>2. new => ~Answered(q, p, m) /\ ~Counted(q, p, m) /\ phase[q][m] # "held"
    BY <1>0, HolderHasNotAgreed DEF HoldsMutexOf
  <1>3. /\ HeldInHand(q, p, t, c)' => HeldInHand(q, p, t, c)
        /\ Holds(chan[p][q], t, c)' <=> Holds(chan[p][q], t, c) \/ new
    BY <1>0, Flow
  <1>4. new => ~Underway(p, q, "MUTEX_AGREEMENT", m)
    BY <1>2 DEF Answered, AgreementSent, AgreementInHand, Underway
  <1>5. Ordered(p, q, t, c, "MUTEX_AGREEMENT", m)'
    BY <1>0, <1>1, <1>4, FlowOrdered
  <1>6. Counted(q, p, m)' <=> Counted(q, p, m)
    BY <1>0 DEF Counted
  <1> HIDE DEF m, new
  <1>7. Underway(p, q, t, c)' => ~Counted(q, p, m)' /\ phase'[q][m] # "held"
    BY <1>0, <1>1, <1>2, <1>3, <1>6 DEF Underway
  <1> QED
    BY <1>5, <1>7 DEF SentHolding, m

-----------------------------------------------------------------------------
(* Steps of the condition variables. *)

(* The packet in q's hand is dispatched by this step. *)
Dispatches(q, p, t, c) == HeldInHand(q, p, t, c) /\ recv'[q] = NoPacket

Sends(r, R, type, msg, p, q, t, c) == p = r /\ q \in R /\ t = type /\ c = msg

LEMMA FlowDone ==
  ASSUME CommTypeOK, NEW r \in Process, NEW R, NEW type, NEW msg,
         PacketStep(r, R, type, msg),
         NEW p \in Process, NEW q \in Process, NEW t, NEW c,
         OnlyOne(p, q, t, c), Sends(r, R, type, msg, p, q, t, c) => ~Underway(p, q, t, c)
  PROVE  /\ OnlyOne(p, q, t, c)'
         /\ Underway(p, q, t, c)' <=> \/ Sends(r, R, type, msg, p, q, t, c)
                                      \/ Underway(p, q, t, c) /\ ~Dispatches(q, p, t, c)
  <1> DEFINE new == p = r /\ q \in R /\ t = type /\ c = msg
             stays == HeldInHand(q, p, t, c) => HeldInHand(q, p, t, c)'
  <1>0. ~(Underway(p, q, t, c) /\ new)
    BY DEF Sends
  <1>1. OnlyOne(p, q, t, c)' /\ (Underway(p, q, t, c)' <=> new \/ (Underway(p, q, t, c) /\ stays))
    <2>1. OnlyOne(p, q, t, c) /\ ~(Underway(p, q, t, c) /\ new) =>
             OnlyOne(p, q, t, c)' /\ (Underway(p, q, t, c)' <=> new \/ (Underway(p, q, t, c) /\ stays))
      BY Flow
    <2> HIDE DEF new, stays
    <2> QED
      BY <1>0, <2>1
  <1>2. HeldInHand(q, p, t, c) => (HeldInHand(q, p, t, c)' <=> recv'[q] # NoPacket)
    <2>1. recv'[q] = recv[q] \/ recv'[q] = NoPacket
      BY DEF PacketStep, Dispatched, CommTypeOK
    <2> QED
      BY <2>1 DEF HeldInHand, InHand
  <1> QED
    BY <1>1, <1>2 DEF Dispatches, Sends

(* What the steps of wait() and of its callbacks leave to show: the packets  *)
(* of p and q about c, once it is known when each of them is sent.           *)
LEMMA PairFacts ==
  ASSUME CondInv, NEW r \in Process, NEW R, NEW type, NEW msg, OtherComponent(r, R, type, msg),
         NEW p \in Process, NEW q \in OtherProcesses(p), NEW c \in CondName,
         Sends(r, R, type, msg, p, q, "COND_WAIT", c) =>
           waiting[p][c] = "out" /\ HoldsMutexOf(p, c),
         Sends(r, R, type, msg, p, q, "COND_WAIT_END", c) => waiting[p][c] = "inside",
         Sends(r, R, type, msg, q, p, "COND_WAIT_END_CONFIRM", c) =>
           HeldInHand(q, p, "COND_WAIT_END", c)
  PROVE  /\ \A t \in {"COND_WAIT", "COND_WAIT_END"} :
              /\ OnlyOne(p, q, t, c)'
              /\ Underway(p, q, t, c)' <=> \/ Sends(r, R, type, msg, p, q, t, c)
                                           \/ Underway(p, q, t, c) /\ ~Dispatches(q, p, t, c)
         /\ OnlyOne(q, p, "COND_WAIT_END_CONFIRM", c)'
         /\ Underway(q, p, "COND_WAIT_END_CONFIRM", c)' <=>
              \/ Sends(r, R, type, msg, q, p, "COND_WAIT_END_CONFIRM", c)
              \/ /\ Underway(q, p, "COND_WAIT_END_CONFIRM", c)
                 /\ ~Dispatches(p, q, "COND_WAIT_END_CONFIRM", c)
         /\ Ordered(p, q, "COND_WAIT", c, "COND_WAIT_END", c)'
         /\ SentHolding(p, q, "COND_WAIT", c)'
  <1>0. /\ IInv /\ CommTypeOK /\ q \in Process /\ PacketStep(r, R, type, msg)
        /\ Announced(p, q, c) /\ ConfirmedOnce(p, q, c) /\ SentHolding(p, q, "COND_WAIT", c)
    BY ProcessFacts DEF CondInv, WaitInv, IInv, TypeOK, OtherComponent
  <1>1. /\ waiting[p][c] = "out" => /\ ~Underway(p, q, "COND_WAIT", c)
                                    /\ ~Underway(p, q, "COND_WAIT_END", c)
        /\ waiting[p][c] = "inside" => ~Underway(p, q, "COND_WAIT_END", c)
        /\ HeldInHand(q, p, "COND_WAIT_END", c) => ~Underway(q, p, "COND_WAIT_END_CONFIRM", c)
        /\ OnlyOne(p, q, "COND_WAIT", c) /\ OnlyOne(p, q, "COND_WAIT_END", c)
        /\ OnlyOne(q, p, "COND_WAIT_END_CONFIRM", c)
        /\ Ordered(p, q, "COND_WAIT", c, "COND_WAIT_END", c)
    BY <1>0 DEF Announced, ConfirmedOnce, Underway
  <1>2. /\ OnlyOne(p, q, "COND_WAIT", c)'
        /\ Underway(p, q, "COND_WAIT", c)' <=>
             \/ Sends(r, R, type, msg, p, q, "COND_WAIT", c)
             \/ Underway(p, q, "COND_WAIT", c) /\ ~Dispatches(q, p, "COND_WAIT", c)
    BY <1>0, <1>1, FlowDone
  <1>3. /\ OnlyOne(p, q, "COND_WAIT_END", c)'
        /\ Underway(p, q, "COND_WAIT_END", c)' <=>
             \/ Sends(r, R, type, msg, p, q, "COND_WAIT_END", c)
             \/ Underway(p, q, "COND_WAIT_END", c) /\ ~Dispatches(q, p, "COND_WAIT_END", c)
    BY <1>0, <1>1, FlowDone
  <1>4. /\ OnlyOne(q, p, "COND_WAIT_END_CONFIRM", c)'
        /\ Underway(q, p, "COND_WAIT_END_CONFIRM", c)' <=>
             \/ Sends(r, R, type, msg, q, p, "COND_WAIT_END_CONFIRM", c)
             \/ /\ Underway(q, p, "COND_WAIT_END_CONFIRM", c)
                /\ ~Dispatches(p, q, "COND_WAIT_END_CONFIRM", c)
    BY <1>0, <1>1, FlowDone
  <1>5. Ordered(p, q, "COND_WAIT", c, "COND_WAIT_END", c)'
    <2>1. p = r /\ q \in R /\ "COND_WAIT" = type /\ c = msg => ~Underway(p, q, "COND_WAIT_END", c)
      BY <1>1 DEF Sends
    <2> QED
      BY <1>0, <1>1, <2>1, FlowOrdered
  <1>6. SentHolding(p, q, "COND_WAIT", c)'
    <2>1. "COND_WAIT" \in CondType
      BY DEF CondType
    <2>2. p = r /\ q \in R /\ "COND_WAIT" = type /\ c = msg => HoldsMutexOf(p, c)
      BY DEF Sends
    <2> QED
      BY <1>0, <2>1, <2>2, OtherHolding
  <1> QED
    BY <1>2, <1>3, <1>4, <1>5, <1>6

(* The packets of a condition variable still name one. *)
LEMMA SendNames ==
  ASSUME CommTypeOK, CondPackets, NEW r \in Process, NEW R, NEW type, NEW msg,
         PacketStep(r, R, type, msg), type \in CondType => msg \in CondName
  PROVE  CondPackets'
  <1>1. ASSUME NEW p \in Process, NEW q \in Process, NEW i \in 1 .. Len(chan'[p][q]),
               chan'[p][q][i].messageType \in CondType
        PROVE  chan'[p][q][i].message \in CondName
    <2>1. CASE UNCHANGED <<clock, chan>>
      BY <1>1, <2>1 DEF CondPackets
    <2>2. CASE /\ R \in SUBSET Process /\ type \in MessageType /\ msg \in Message
               /\ Send(r, R, type, msg)
      <3> DEFINE e == NextPacket(r, type, msg)
      <3>1. /\ e \in Packet /\ e.messageType = type /\ e.message = msg
            /\ chan[p][q] \in Seq(Packet)
        BY <2>2, SendEffect DEF CommTypeOK, NextPacket
      <3>2. chan'[p][q] = IF p = r /\ q \in R THEN Append(chan[p][q], e) ELSE chan[p][q]
        BY <2>2, SendChannel
      <3> HIDE DEF e
      <3>3. CASE p = r /\ q \in R
        <4>1. chan'[p][q] = Append(chan[p][q], e)
          BY <3>2, <3>3
        <4>2. \/ i \in 1 .. Len(chan[p][q]) /\ chan'[p][q][i] = chan[p][q][i]
              \/ chan'[p][q][i] = e
          BY <3>1, <4>1, AppendFacts
        <4> QED
          BY <1>1, <3>1, <4>2 DEF CondPackets
      <3>4. CASE ~(p = r /\ q \in R)
        <4>1. chan'[p][q] = chan[p][q]
          BY <3>2, <3>4
        <4> QED
          BY <1>1, <4>1 DEF CondPackets
      <3> QED
        BY <3>3, <3>4
    <2> QED
      BY <2>1, <2>2 DEF PacketStep
  <1>2. \A p \in Process : recv'[p] = recv[p] \/ recv'[p] = NoPacket
    BY DEF PacketStep, Dispatched, CommTypeOK
  <1> QED
    BY <1>1, <1>2 DEF CondPackets

LEMMA ReceiveNames ==
  ASSUME CommTypeOK, CondPackets, NEW r \in Process, NEW s \in Process, Receive(r, s)
  PROVE  CondPackets'
  <1>1. \A a, b \in Process : chan[a][b] \in Seq(Packet)
    BY DEF CommTypeOK
  <1>2. ASSUME NEW a \in Process, NEW b \in Process, NEW i \in 1 .. Len(chan'[a][b]),
               chan'[a][b][i].messageType \in CondType
        PROVE  chan'[a][b][i].message \in CondName
    <2>1. CASE a = s /\ b = r
      <3>1. chan'[a][b] = Tail(chan[a][b]) /\ chan[a][b] # <<>>
        BY <2>1, ReceiveChannel
      <3>2. i + 1 \in 1 .. Len(chan[a][b]) /\ chan'[a][b][i] = chan[a][b][i + 1]
        BY <1>1, <1>2, <3>1, TailFacts
      <3> QED
        BY <1>2, <3>2 DEF CondPackets
    <2>2. CASE ~(a = s /\ b = r)
      <3>1. chan'[a][b] = chan[a][b]
        BY <2>2, ReceiveChannel
      <3> QED
        BY <1>2, <3>1 DEF CondPackets
    <2> QED
      BY <2>1, <2>2
  <1>3. ASSUME NEW a \in Process, recv'[a] # NoPacket, recv'[a].messageType \in CondType
        PROVE  recv'[a].message \in CondName
    <2>1. CASE a = r
      <3>1. 1 \in 1 .. Len(chan[s][r]) /\ Head(chan[s][r]) = chan[s][r][1]
        BY <1>1, ReceiveChannel, TailFacts
      <3>2. /\ recv'[r].messageType = chan[s][r][1].messageType
            /\ recv'[r].message = chan[s][r][1].message
        BY <3>1, ReceiveEffect
      <3> QED
        BY <1>3, <2>1, <3>1, <3>2 DEF CondPackets
    <2>2. CASE a # r
      <3>1. recv'[a] = recv[a]
        BY <2>2, ReceiveEffect
      <3> QED
        BY <1>3, <3>1 DEF CondPackets
    <2> QED
      BY <2>1, <2>2
  <1> QED
    BY <1>2, <1>3 DEF CondPackets

LEMMA MutexNames ==
  ASSUME IInv, CondPackets, [Next]_vars
  PROVE  CondPackets'
  <1>0. CommTypeOK /\ \A type \in MutexType : type \notin CondType
    BY DEF IInv, TypeOK, MutexType, CondType
  <1>1. ASSUME NEW r \in Process, NEW s \in OtherProcesses(r), Receive(r, s)
        PROVE  CondPackets'
    BY <1>0, <1>1, ReceiveNames, ProcessFacts
  <1>2. ASSUME NEW r \in Process, NEW R, NEW type, NEW msg, PacketStep(r, R, type, msg),
               type \in MutexType
        PROVE  CondPackets'
    BY <1>0, <1>2, SendNames
  <1>3. UNCHANGED <<clock, chan, recv>> => CondPackets'
    BY DEF CondPackets
  <1> QED
    BY <1>1, <1>2, <1>3, MutexEffect

(* Which packet a step dispatches. *)
LEMMA NothingDone ==
  ASSUME UNCHANGED recv, NEW p \in Process, NEW q \in Process, NEW t, NEW c
  PROVE  ~Dispatches(q, p, t, c)
  BY DEF Dispatches, HeldInHand, InHand

LEMMA CallbackDone ==
  ASSUME CommTypeOK, NEW r \in Process, NEW type, InHand(r, type), Dispatched(r),
         NEW p \in Process, NEW q \in Process, NEW t, NEW c
  PROVE  Dispatches(q, p, t, c) <=> /\ q = r /\ t = type
                              /\ recv[r].source = p /\ recv[r].message = c
  BY DEF Dispatches, HeldInHand, InHand, Dispatched, CommTypeOK

(* Nobody sends to itself. *)
LEMMA Sender ==
  ASSUME IInv, NEW r \in Process, recv[r] # NoPacket
  PROVE  recv[r].source \in OtherProcesses(r) /\ recv[r].source \in Process
  BY ProcessFacts DEF IInv, PacketInv, Genuine

LEMMA OtherInv ==
  ASSUME CondInv, NEW r \in Process, NEW R, NEW type, NEW msg, OtherComponent(r, R, type, msg),
         msg \in CondName
  PROVE  IInv' /\ TypeOK' /\ CondPackets'
  <1>1. IInv'
    BY OtherStep DEF CondInv
  <1>2. CommTypeOK /\ PacketStep(r, R, type, msg)
    BY DEF CondInv, IInv, TypeOK, OtherComponent
  <1>3. CondPackets'
    BY <1>2, SendNames DEF CondInv
  <1> QED
    BY <1>1, <1>3 DEF IInv

(* A notification changes nothing the waits rely on, nor does a SYNC. *)
LEMMA Untouched ==
  ASSUME CondInv, NEW r \in Process, NEW R, NEW type, NEW msg,
         OtherComponent(r, R, type, msg), type \in {"COND_NOTIFY", "SYNC"},
         UNCHANGED recv \/ InHand(r, type),
         UNCHANGED <<receivedConfirmations, conditionalWaits>>,
         \A p \in Process : \A c \in CondName :
           \/ waiting'[p][c] = waiting[p][c]
           \/ waiting[p][c] \in {"inside", "woken"} /\ waiting'[p][c] \in {"inside", "woken"}
  PROVE  WaitInv'
  <1> SUFFICES ASSUME NEW p \in Process, NEW q \in OtherProcesses(p), NEW c \in CondName
               PROVE  /\ Announced(p, q, c)' /\ ConfirmedOnce(p, q, c)'
                      /\ SentHolding(p, q, "COND_WAIT", c)'
    BY DEF WaitInv
  <1>0. q \in Process /\ CommTypeOK /\ Announced(p, q, c) /\ ConfirmedOnce(p, q, c)
    BY ProcessFacts DEF CondInv, WaitInv, IInv, TypeOK
  <1>1. \A a, b \in Process : \A t \in {"COND_WAIT", "COND_WAIT_END", "COND_WAIT_END_CONFIRM"} :
          ~Sends(r, R, type, msg, a, b, t, c) /\ ~Dispatches(b, a, t, c)
    <2>1. CASE UNCHANGED recv
      BY <2>1, NothingDone DEF Sends
    <2>2. CASE InHand(r, type) /\ ~UNCHANGED recv
      <3>1. Dispatched(r)
        BY <2>2 DEF OtherComponent, PacketStep
      <3> QED
        BY <1>0, <2>2, <3>1, CallbackDone DEF Sends
    <2> QED
      BY <2>1, <2>2
  <1>2. /\ \A t \in {"COND_WAIT", "COND_WAIT_END"} :
             /\ OnlyOne(p, q, t, c)'
             /\ Underway(p, q, t, c)' <=> Underway(p, q, t, c)
        /\ OnlyOne(q, p, "COND_WAIT_END_CONFIRM", c)'
        /\ Underway(q, p, "COND_WAIT_END_CONFIRM", c)' <=> Underway(q, p, "COND_WAIT_END_CONFIRM", c)
        /\ Ordered(p, q, "COND_WAIT", c, "COND_WAIT_END", c)'
        /\ SentHolding(p, q, "COND_WAIT", c)'
    BY <1>0, <1>1, PairFacts
  <1>3. /\ (waiting[p][c] = "out")' <=> waiting[p][c] = "out"
        /\ (waiting[p][c] = "confirming")' <=> waiting[p][c] = "confirming"
        /\ Listed(p, q, c)' <=> Listed(p, q, c)
        /\ Recorded(p, q, c)' <=> Recorded(p, q, c)
    BY DEF Listed, Recorded
  <1>4. Announced(p, q, c)'
    BY <1>0, <1>2, <1>3 DEF Announced
  <1>5. ConfirmedOnce(p, q, c)'
    BY <1>0, <1>2, <1>3 DEF ConfirmedOnce
  <1> QED
    BY <1>2, <1>4, <1>5

LEMMA WaitStep ==
  ASSUME CondInv, NEW r \in Process, NEW n \in CondName, Wait(r, n)
  PROVE  CondInv'
  <1> DEFINE R == OtherProcesses(r)
  <1>0. CondTypeOK /\ CommTypeOK
    BY DEF CondInv, CondTypeOK, TypeOK
  <1>1. OtherComponent(r, R, "COND_WAIT", n)
    BY CondAssumption, Constants
       DEF Wait, OtherComponent, PacketStep, MessageType, MutexType
  <1>2. IInv' /\ TypeOK' /\ CondPackets'
    BY <1>1, OtherInv
  <1>3. /\ \A p \in Process : \A c \in CondName :
             waiting'[p][c] = IF p = r /\ c = n THEN "inside" ELSE waiting[p][c]
        /\ \A c \in CondName : waiting[r][c] = "out" /\ recipients[r][c] = {}
        /\ HoldsMutexOf(r, n)
        /\ UNCHANGED <<recv, phase, receivedConfirmations, conditionalWaits, recipients>>
    BY <1>0 DEF Wait, Call, Free, SetWaiting, CondTypeOK, mutexVars
  <1>4. CondTypeOK'
    BY <1>2, <1>0 DEF CondTypeOK, Wait, Call, SetWaiting, WaitStage
  <1>5. ASSUME NEW p \in Process
        PROVE  OneCall(p)' /\ OwnTables(p)'
    <2>1. OneCall(p) /\ OwnTables(p)
      BY DEF CondInv
    <2>2. OneCall(p)'
      BY <1>3, <2>1 DEF OneCall, HoldsMutexOf
    <2>3. OwnTables(p)'
      BY <1>3, <2>1 DEF OwnTables
    <2> QED
      BY <2>2, <2>3
  <1>6. ASSUME NEW p \in Process, NEW q \in OtherProcesses(p), NEW c \in CondName
        PROVE  /\ Announced(p, q, c)' /\ ConfirmedOnce(p, q, c)'
               /\ SentHolding(p, q, "COND_WAIT", c)'
    <2> DEFINE new == p = r /\ c = n
    <2>0. q \in Process /\ Announced(p, q, c) /\ ConfirmedOnce(p, q, c)
      BY ProcessFacts DEF CondInv, WaitInv
    <2>1. \A a, b \in Process : \A t : ~Dispatches(b, a, t, c)
      BY <1>3, NothingDone
    <2>2. /\ Sends(r, R, "COND_WAIT", n, p, q, "COND_WAIT", c) <=> new
          /\ ~Sends(r, R, "COND_WAIT", n, p, q, "COND_WAIT_END", c)
          /\ ~Sends(r, R, "COND_WAIT", n, q, p, "COND_WAIT_END_CONFIRM", c)
      BY DEF Sends
    <2>3. new => waiting[p][c] = "out" /\ HoldsMutexOf(p, c)
      BY <1>3
    <2> HIDE DEF R, new
    <2>4. /\ OnlyOne(p, q, "COND_WAIT", c)' /\ OnlyOne(p, q, "COND_WAIT_END", c)'
          /\ Underway(p, q, "COND_WAIT", c)' <=> new \/ Underway(p, q, "COND_WAIT", c)
          /\ Underway(p, q, "COND_WAIT_END", c)' <=> Underway(p, q, "COND_WAIT_END", c)
          /\ OnlyOne(q, p, "COND_WAIT_END_CONFIRM", c)'
          /\ Underway(q, p, "COND_WAIT_END_CONFIRM", c)'
               <=> Underway(q, p, "COND_WAIT_END_CONFIRM", c)
          /\ Ordered(p, q, "COND_WAIT", c, "COND_WAIT_END", c)'
          /\ SentHolding(p, q, "COND_WAIT", c)'
      BY <1>1, <2>0, <2>1, <2>2, <2>3, PairFacts
    <2>5. /\ new => waiting'[p][c] = "inside"
          /\ ~new => waiting'[p][c] = waiting[p][c]
          /\ Listed(p, q, c)' <=> Listed(p, q, c)
          /\ Recorded(p, q, c)' <=> Recorded(p, q, c)
      BY <1>3 DEF Listed, Recorded, new
    <2>6. Announced(p, q, c)'
      BY <2>0, <2>3, <2>4, <2>5 DEF Announced, ConfirmedOnce
    <2>7. ConfirmedOnce(p, q, c)'
      BY <2>0, <2>3, <2>4, <2>5 DEF ConfirmedOnce
    <2> QED
      BY <2>4, <2>6, <2>7
  <1> QED
    BY <1>2, <1>4, <1>5, <1>6 DEF CondInv, WaitInv

LEMMA EndWaitStep ==
  ASSUME CondInv, NEW r \in Process, NEW n \in CondName, EndWait(r, n)
  PROVE  CondInv'
  <1> DEFINE R == OtherProcesses(r)
  <1>0. CondTypeOK /\ CommTypeOK
    BY DEF CondInv, CondTypeOK, TypeOK
  <1>1. OtherComponent(r, R, "COND_WAIT_END", n)
    BY CondAssumption, Constants
       DEF EndWait, OtherComponent, PacketStep, MessageType, MutexType
  <1>2. IInv' /\ TypeOK' /\ CondPackets'
    BY <1>1, OtherInv
  <1>3. /\ \A p \in Process : \A c \in CondName :
             waiting'[p][c] = IF p = r /\ c = n THEN "confirming" ELSE waiting[p][c]
        /\ waiting[r][n] = "inside"
        /\ HoldsMutexOf(r, n)
        /\ UNCHANGED <<recv, phase, receivedConfirmations, conditionalWaits, recipients>>
    BY <1>0 DEF EndWait, SetWaiting, CondTypeOK, mutexVars
  <1>4. CondTypeOK'
    BY <1>2, <1>0 DEF CondTypeOK, EndWait, SetWaiting, WaitStage
  <1>5. receivedConfirmations[r] = {}
    <2>1. OneCall(r) /\ OwnTables(r)
      BY DEF CondInv
    <2> QED
      BY <1>3, <2>1 DEF OneCall, OwnTables
  <1>6. ASSUME NEW p \in Process
        PROVE  OneCall(p)' /\ OwnTables(p)'
    <2>1. OneCall(p) /\ OwnTables(p)
      BY DEF CondInv
    <2>2. OneCall(p)'
      BY <1>3, <2>1 DEF OneCall, HoldsMutexOf
    <2>3. OwnTables(p)'
      BY <1>3, <2>1, <1>5 DEF OwnTables
    <2> QED
      BY <2>2, <2>3
  <1>7. ASSUME NEW p \in Process, NEW q \in OtherProcesses(p), NEW c \in CondName
        PROVE  /\ Announced(p, q, c)' /\ ConfirmedOnce(p, q, c)'
               /\ SentHolding(p, q, "COND_WAIT", c)'
    <2> DEFINE new == p = r /\ c = n
    <2>0. q \in Process /\ Announced(p, q, c) /\ ConfirmedOnce(p, q, c)
      BY ProcessFacts DEF CondInv, WaitInv
    <2>1. \A a, b \in Process : \A t : ~Dispatches(b, a, t, c)
      BY <1>3, NothingDone
    <2>2. /\ ~Sends(r, R, "COND_WAIT_END", n, p, q, "COND_WAIT", c)
          /\ Sends(r, R, "COND_WAIT_END", n, p, q, "COND_WAIT_END", c) <=> new
          /\ ~Sends(r, R, "COND_WAIT_END", n, q, p, "COND_WAIT_END_CONFIRM", c)
      BY DEF Sends
    <2>3. new => waiting[p][c] = "inside"
      BY <1>3
    <2> HIDE DEF R, new
    <2>4. /\ OnlyOne(p, q, "COND_WAIT", c)' /\ OnlyOne(p, q, "COND_WAIT_END", c)'
          /\ Underway(p, q, "COND_WAIT", c)' <=> Underway(p, q, "COND_WAIT", c)
          /\ Underway(p, q, "COND_WAIT_END", c)' <=> new \/ Underway(p, q, "COND_WAIT_END", c)
          /\ OnlyOne(q, p, "COND_WAIT_END_CONFIRM", c)'
          /\ Underway(q, p, "COND_WAIT_END_CONFIRM", c)'
               <=> Underway(q, p, "COND_WAIT_END_CONFIRM", c)
          /\ Ordered(p, q, "COND_WAIT", c, "COND_WAIT_END", c)'
          /\ SentHolding(p, q, "COND_WAIT", c)'
      BY <1>1, <2>0, <2>1, <2>2, <2>3, PairFacts
    <2>5. /\ new => waiting'[p][c] = "confirming" /\ ~Recorded(p, q, c)'
          /\ ~new => /\ waiting'[p][c] = waiting[p][c]
                     /\ Recorded(p, q, c)' <=> Recorded(p, q, c)
          /\ Listed(p, q, c)' <=> Listed(p, q, c)
      BY <1>3, <1>5 DEF Listed, Recorded, new
    <2>6. Announced(p, q, c)'
      BY <2>0, <2>3, <2>4, <2>5 DEF Announced
    <2>7. ConfirmedOnce(p, q, c)'
      BY <2>0, <2>3, <2>4, <2>5 DEF ConfirmedOnce
    <2> QED
      BY <2>4, <2>6, <2>7
  <1> QED
    BY <1>2, <1>4, <1>6, <1>7 DEF CondInv, WaitInv

LEMMA ConfirmedStep ==
  ASSUME CondInv, NEW r \in Process, NEW n \in CondName, Confirmed(r, n)
  PROVE  CondInv'
  <1> DEFINE type == "COND_NOTIFY"
  <1>0. CondTypeOK /\ CommTypeOK
    BY DEF CondInv, CondTypeOK, TypeOK
  <1>1. OtherComponent(r, {}, type, n)
    BY DEF Confirmed, OtherComponent, PacketStep, MutexType, vars, commVars
  <1>2. IInv' /\ TypeOK' /\ CondPackets'
    BY <1>1, OtherInv
  <1>3. /\ \A p \in Process : \A c \in CondName :
             waiting'[p][c] = IF p = r /\ c = n THEN "out" ELSE waiting[p][c]
        /\ \A p \in Process :
             receivedConfirmations'[p] = IF p = r THEN {} ELSE receivedConfirmations[p]
        /\ waiting[r][n] = "confirming"
        /\ UNCHANGED <<recv, phase, conditionalWaits, recipients>>
    BY <1>0 DEF Confirmed, SetWaiting, CondTypeOK, vars, commVars, mutexVars
  <1>4. CondTypeOK'
    BY <1>2, <1>0 DEF CondTypeOK, Confirmed, SetWaiting, WaitStage
  <1>5. \A q \in OtherProcesses(r) : Recorded(r, q, n)
    <2>1. receivedConfirmations[r] \in SUBSET OtherProcesses(r)
      BY DEF CondInv, OwnTables
    <2>2. Cardinality(receivedConfirmations[r]) = NumberOfProcesses - 1
      BY DEF Confirmed, AreConfirmationsComplete
    <2>3. receivedConfirmations[r] = OtherProcesses(r)
      BY <2>1, <2>2, AllAgreed
    <2> QED
      BY <1>3, <2>3 DEF Recorded
  <1>6. ASSUME NEW p \in Process
        PROVE  OneCall(p)' /\ OwnTables(p)'
    <2>1. OneCall(p) /\ OwnTables(p)
      BY DEF CondInv
    <2>2. OneCall(p)'
      BY <1>3, <2>1 DEF OneCall, HoldsMutexOf
    <2>3. OwnTables(p)'
      BY <1>3, <2>1 DEF OwnTables
    <2> QED
      BY <2>2, <2>3
  <1>7. ASSUME NEW p \in Process, NEW q \in OtherProcesses(p), NEW c \in CondName
        PROVE  /\ Announced(p, q, c)' /\ ConfirmedOnce(p, q, c)'
               /\ SentHolding(p, q, "COND_WAIT", c)'
    <2> DEFINE old == p = r /\ c = n
    <2>0. q \in Process /\ Announced(p, q, c) /\ ConfirmedOnce(p, q, c)
      BY ProcessFacts DEF CondInv, WaitInv
    <2>1. \A a, b \in Process : \A t : ~Dispatches(b, a, t, c) /\ ~Sends(r, {}, type, n, a, b, t, c)
      BY <1>3, NothingDone DEF Sends
    <2>2. /\ OnlyOne(p, q, "COND_WAIT", c)' /\ OnlyOne(p, q, "COND_WAIT_END", c)'
          /\ Underway(p, q, "COND_WAIT", c)' <=> Underway(p, q, "COND_WAIT", c)
          /\ Underway(p, q, "COND_WAIT_END", c)' <=> Underway(p, q, "COND_WAIT_END", c)
          /\ OnlyOne(q, p, "COND_WAIT_END_CONFIRM", c)'
          /\ Underway(q, p, "COND_WAIT_END_CONFIRM", c)'
               <=> Underway(q, p, "COND_WAIT_END_CONFIRM", c)
          /\ Ordered(p, q, "COND_WAIT", c, "COND_WAIT_END", c)'
          /\ SentHolding(p, q, "COND_WAIT", c)'
      BY <1>1, <2>0, <2>1, PairFacts
    <2>3. waiting[r][c] # "out" /\ p = r => c = n
      BY <1>3 DEF CondInv, OneCall
    <2>4. /\ old => waiting'[p][c] = "out" /\ ~Recorded(p, q, c)' /\ Recorded(p, q, c)
          /\ ~old => waiting'[p][c] = waiting[p][c]
          /\ Recorded(p, q, c)' => Recorded(p, q, c)
          /\ Listed(p, q, c)' <=> Listed(p, q, c)
      BY <1>3, <1>5, <2>3 DEF Listed, Recorded
    <2>5. ~old => (Recorded(p, q, c)' <=> Recorded(p, q, c))
      BY <1>3, <2>3 DEF Recorded
    <2> HIDE DEF old
    <2>6. Announced(p, q, c)'
      BY <2>0, <2>2, <2>4, <2>5 DEF Announced
    <2>7. ConfirmedOnce(p, q, c)'
      BY <2>0, <2>2, <2>4, <2>5 DEF ConfirmedOnce
    <2> QED
      BY <2>2, <2>6, <2>7
  <1> QED
    BY <1>2, <1>4, <1>6, <1>7 DEF CondInv, WaitInv

(* Being picked by a notification, sending it, and being woken by it or by   *)
(* nothing: the stage of a wait changes at most from inside to woken.        *)
LEMMA NotifyStep ==
  ASSUME CondInv, NEW r \in Process, NEW n \in CondName,
         \/ WakeSpuriously(r, n)
         \/ NotifyOne(r, n) \/ NotifyAll(r, n) \/ NotifyNobody(r, n) \/ SendNotify(r, n)
  PROVE  CondInv'
  <1>0. CondTypeOK /\ CommTypeOK
    BY DEF CondInv, CondTypeOK, TypeOK
  <1>1. \E R : OtherComponent(r, R, "COND_NOTIFY", n)
    <2>1. CASE SendNotify(r, n) \/ NotifyNobody(r, n)
      <3>1. recipients[r][n] \in SUBSET Process /\ {} \in SUBSET Process
        BY <1>0 DEF CondTypeOK
      <3>2. PICK R \in SUBSET Process : Send(r, R, "COND_NOTIFY", n)
        BY <2>1, <3>1 DEF SendNotify, NotifyNobody
      <3>3. OtherComponent(r, R, "COND_NOTIFY", n)
        BY <2>1, <3>2, CondAssumption
           DEF SendNotify, NotifyNobody, OtherComponent, PacketStep, MessageType, MutexType
      <3> QED
        BY <3>3
    <2>2. CASE UNCHANGED vars
      <3>1. OtherComponent(r, {}, "COND_NOTIFY", n)
        BY <2>2 DEF OtherComponent, PacketStep, MutexType, vars, commVars
      <3> QED
        BY <3>1
    <2> QED
      BY <2>1, <2>2 DEF WakeSpuriously, NotifyOne, NotifyAll
  <1>2. IInv' /\ TypeOK' /\ CondPackets'
    BY <1>1, OtherInv
  <1>3. /\ UNCHANGED <<recv, phase, receivedConfirmations, conditionalWaits>>
        /\ \A p \in Process : \A c \in CondName :
             \/ waiting'[p][c] = waiting[p][c]
             \/ waiting[p][c] = "inside" /\ waiting'[p][c] = "woken"
    BY <1>0 DEF WakeSpuriously, Blocked, SetWaiting, NotifyOne, NotifyAll, NotifyNobody,
                SendNotify, CondTypeOK, vars, commVars, mutexVars
  <1>4. CondTypeOK'
    <2>1. waiting' \in [Process -> [CondName -> WaitStage]]
      <3>1. \/ UNCHANGED waiting
            \/ waiting' = [waiting EXCEPT ![r][n] = "woken"]
        BY DEF WakeSpuriously, SetWaiting, NotifyOne, NotifyAll, NotifyNobody, SendNotify
      <3>2. CASE waiting' = [waiting EXCEPT ![r][n] = "woken"]
        BY <1>0, <3>2 DEF CondTypeOK, WaitStage
      <3> QED
        BY <1>0, <3>1, <3>2 DEF CondTypeOK
    <2>2. calls' \in [Process -> Nat]
      BY <1>0 DEF WakeSpuriously, NotifyOne, NotifyAll, NotifyNobody, SendNotify, Call, CondTypeOK
    <2>3. \A w \in conditionalWaits[r][n] : w.source \in Process
      BY <1>0 DEF CondTypeOK, Waiter
    <2>4. recipients' \in [Process -> [CondName -> SUBSET Process]]
      <3>1. CASE NotifyOne(r, n)
        BY <1>0, <2>3, <3>1 DEF NotifyOne, CondTypeOK, First
      <3>2. CASE NotifyAll(r, n)
        BY <1>0, <2>3, <3>2 DEF NotifyAll, CondTypeOK
      <3>3. CASE SendNotify(r, n)
        BY <1>0, <3>3 DEF SendNotify, CondTypeOK
      <3>4. CASE WakeSpuriously(r, n) \/ NotifyNobody(r, n)
        BY <1>0, <3>4 DEF WakeSpuriously, NotifyNobody, CondTypeOK
      <3> QED
        BY <3>1, <3>2, <3>3, <3>4
    <2> QED
      BY <1>0, <1>2, <1>3, <2>1, <2>2, <2>4 DEF CondTypeOK
  <1>5. \A p \in Process : \A c \in CondName :
          recipients'[p][c] # {} /\ recipients[p][c] = {} =>
            /\ HoldsMutexOf(p, c) \/ NotifyOutside
            /\ \A d \in CondName : waiting[p][d] = "out"
    <2>1. CASE NotifyOne(r, n) \/ NotifyAll(r, n)
      <3>1. /\ MayNotify(r, n)
            /\ \A d \in CondName : waiting[r][d] = "out"
            /\ \E N : recipients' = [recipients EXCEPT ![r][n] = N]
        BY <2>1 DEF NotifyOne, NotifyAll, Call, Free
      <3>2. \A p \in Process : \A c \in CondName :
              (p = r /\ c = n) \/ recipients'[p][c] = recipients[p][c]
        BY <1>0, <3>1 DEF CondTypeOK
      <3> QED
        BY <3>1, <3>2 DEF MayNotify
    <2>2. CASE SendNotify(r, n)
      <3>1. recipients' = [recipients EXCEPT ![r][n] = {}]
        BY <2>2 DEF SendNotify
      <3> QED
        BY <1>0, <3>1 DEF CondTypeOK
    <2>3. CASE WakeSpuriously(r, n) \/ NotifyNobody(r, n)
      BY <2>3 DEF WakeSpuriously, NotifyNobody
    <2> QED
      BY <2>1, <2>2, <2>3
  <1>6. ASSUME NEW p \in Process
        PROVE  OneCall(p)' /\ OwnTables(p)'
    <2>1. OneCall(p) /\ OwnTables(p)
      BY DEF CondInv
    <2>2. OneCall(p)'
      BY <1>3, <1>5, <2>1 DEF OneCall, HoldsMutexOf
    <2>3. OwnTables(p)'
      BY <1>3, <2>1 DEF OwnTables
    <2> QED
      BY <2>2, <2>3
  <1>7. WaitInv'
    BY <1>1, <1>3, Untouched
  <1> QED
    BY <1>2, <1>4, <1>6, <1>7 DEF CondInv

(* What a callback dispatches comes from another process. *)
LEMMA ListWaiterStep ==
  ASSUME CondInv, NEW r \in Process, ListWaiter(r)
  PROVE  CondInv'
  <1> DEFINE s == recv[r].source
             n == recv[r].message
             type == "COND_NOTIFY"
  <1>0. CondTypeOK /\ CommTypeOK /\ IInv
    BY DEF CondInv, CondTypeOK, TypeOK
  <1>1. /\ InHand(r, "COND_WAIT") /\ recv[r] # NoPacket /\ Dispatched(r)
        /\ HeldInHand(r, s, "COND_WAIT", n)
        /\ UNCHANGED <<clock, chan, mutexVars, waiting, receivedConfirmations, recipients, calls>>
    BY DEF ListWaiter, InHand, HeldInHand
  <1>2. s \in OtherProcesses(r) /\ s \in Process /\ n \in CondName
    BY <1>0, <1>1, Sender DEF CondInv, CondPackets, InHand, CondType
  <1>3. OtherComponent(r, {}, type, n)
    BY <1>1 DEF OtherComponent, PacketStep, InHand, MutexType
  <1>4. IInv' /\ TypeOK' /\ CondPackets'
    BY <1>2, <1>3, OtherInv
  <1>5. PICK T \in SUBSET Waiter :
          /\ \A w \in T : w \in conditionalWaits[r][n] \/ w.source = s
          /\ \A w \in conditionalWaits[r][n] : w \in T
          /\ conditionalWaits' = [conditionalWaits EXCEPT ![r][n] = T]
    <2>1. PICK packet \in Received(r) :
            LET c == packet.message
                w == [lamportTime |-> packet.lamportTime, source |-> packet.source]
                taken == \E v \in conditionalWaits[r][c] : v.lamportTime = w.lamportTime
            IN  conditionalWaits' =
                  [conditionalWaits EXCEPT ![r][c] = IF taken THEN @ ELSE @ \cup {w}]
      BY DEF ListWaiter
    <2> DEFINE w == [lamportTime |-> packet.lamportTime, source |-> packet.source]
               taken == \E v \in conditionalWaits[r][n] : v.lamportTime = w.lamportTime
               T == IF taken THEN conditionalWaits[r][n] ELSE conditionalWaits[r][n] \cup {w}
    <2>2. packet \in Packet /\ packet.source = s /\ packet.message = n
      BY <1>0, <1>1, <2>1, ReceivedFacts
    <2>3. w \in Waiter /\ w.source = s
      BY <1>2, <2>2 DEF Waiter, Packet
    <2>4. conditionalWaits' = [conditionalWaits EXCEPT ![r][n] = T]
      BY <2>1, <2>2
    <2>5. conditionalWaits[r][n] \in SUBSET Waiter
      BY <1>0, <1>2 DEF CondTypeOK
    <2> HIDE DEF w, taken
    <2>6. /\ T \in SUBSET Waiter
          /\ \A v \in T : v \in conditionalWaits[r][n] \/ v.source = s
          /\ \A v \in conditionalWaits[r][n] : v \in T
      BY <2>3, <2>5
    <2> QED
      BY <2>4, <2>6
  <1>6. \A p \in Process : \A c \in CondName :
          conditionalWaits'[p][c] = IF p = r /\ c = n THEN T ELSE conditionalWaits[p][c]
    BY <1>0, <1>2, <1>5 DEF CondTypeOK
  <1>7. CondTypeOK'
    BY <1>0, <1>1, <1>2, <1>4, <1>5 DEF CondTypeOK
  <1>8. ASSUME NEW p \in Process
        PROVE  OneCall(p)' /\ OwnTables(p)'
    <2>1. OneCall(p) /\ OwnTables(p)
      BY DEF CondInv
    <2>2. OneCall(p)'
      BY <1>1, <2>1 DEF OneCall, HoldsMutexOf, mutexVars
    <2> HIDE DEF n, s
    <2>3. OwnTables(p)'
      BY <1>1, <1>2, <1>5, <1>6, <2>1 DEF OwnTables
    <2> QED
      BY <2>2, <2>3
  <1>9. ASSUME NEW p \in Process, NEW q \in OtherProcesses(p), NEW c \in CondName
        PROVE  /\ Announced(p, q, c)' /\ ConfirmedOnce(p, q, c)'
               /\ SentHolding(p, q, "COND_WAIT", c)'
    <2> DEFINE done == q = r /\ p = s /\ c = n
    <2>0. q \in Process /\ Announced(p, q, c) /\ ConfirmedOnce(p, q, c)
      BY ProcessFacts DEF CondInv, WaitInv
    <2>1. \A a, b \in Process : \A t : /\ ~Sends(r, {}, type, n, a, b, t, c)
                                       /\ t # "COND_WAIT" => ~Dispatches(b, a, t, c)
      BY <1>0, <1>1, CallbackDone DEF Sends
    <2>2. /\ Dispatches(q, p, "COND_WAIT", c) <=> done
          /\ done => HeldInHand(q, p, "COND_WAIT", c)
      BY <1>0, <1>1, <2>0, CallbackDone
    <2> HIDE DEF done
    <2>3. /\ OnlyOne(p, q, "COND_WAIT", c)' /\ OnlyOne(p, q, "COND_WAIT_END", c)'
          /\ Underway(p, q, "COND_WAIT", c)' <=> Underway(p, q, "COND_WAIT", c) /\ ~done
          /\ Underway(p, q, "COND_WAIT_END", c)' <=> Underway(p, q, "COND_WAIT_END", c)
          /\ OnlyOne(q, p, "COND_WAIT_END_CONFIRM", c)'
          /\ Underway(q, p, "COND_WAIT_END_CONFIRM", c)'
               <=> Underway(q, p, "COND_WAIT_END_CONFIRM", c)
          /\ Ordered(p, q, "COND_WAIT", c, "COND_WAIT_END", c)'
          /\ SentHolding(p, q, "COND_WAIT", c)'
      BY <1>3, <2>0, <2>1, <2>2, PairFacts
    <2>4. /\ Listed(p, q, c)' => Listed(p, q, c) \/ done
          /\ waiting'[p][c] = waiting[p][c]
          /\ Recorded(p, q, c)' <=> Recorded(p, q, c)
      <3> HIDE DEF n, s
      <3> QED
        BY <1>1, <1>5, <1>6, <2>0 DEF Listed, Recorded, done
    <2>5. done => Underway(p, q, "COND_WAIT", c)
      BY <2>2 DEF Underway
    <2>6. Announced(p, q, c)'
      BY <2>0, <2>3, <2>4, <2>5 DEF Announced
    <2>7. ConfirmedOnce(p, q, c)'
      BY <2>0, <2>3, <2>4 DEF ConfirmedOnce
    <2> QED
      BY <2>3, <2>6, <2>7
  <1> QED
    BY <1>4, <1>7, <1>8, <1>9 DEF CondInv, WaitInv

LEMMA EraseWaitersStep ==
  ASSUME CondInv, NEW r \in Process, EraseWaiters(r)
  PROVE  CondInv'
  <1> DEFINE s == recv[r].source
             n == recv[r].message
             type == "COND_WAIT_END_CONFIRM"
  <1>0. CondTypeOK /\ CommTypeOK /\ IInv
    BY DEF CondInv, CondTypeOK, TypeOK
  <1>1. /\ InHand(r, "COND_WAIT_END") /\ recv[r] # NoPacket /\ Dispatched(r)
        /\ HeldInHand(r, s, "COND_WAIT_END", n)
        /\ Send(r, {s}, type, n)
        /\ conditionalWaits' = [conditionalWaits EXCEPT ![r][n] = {}]
        /\ UNCHANGED <<mutexVars, waiting, receivedConfirmations, recipients, calls>>
    BY DEF EraseWaiters, InHand, HeldInHand
  <1>2. s \in OtherProcesses(r) /\ s \in Process /\ n \in CondName
    BY <1>0, <1>1, Sender DEF CondInv, CondPackets, InHand, CondType
  <1>3. OtherComponent(r, {s}, type, n)
    BY <1>1, <1>2, CondAssumption DEF OtherComponent, PacketStep, InHand, MessageType, MutexType
  <1>4. IInv' /\ TypeOK' /\ CondPackets'
    BY <1>2, <1>3, OtherInv
  <1>5. \A p \in Process : \A c \in CondName :
          conditionalWaits'[p][c] = IF p = r /\ c = n THEN {} ELSE conditionalWaits[p][c]
    BY <1>0, <1>1, <1>2 DEF CondTypeOK
  <1>6. CondTypeOK'
    BY <1>0, <1>1, <1>2, <1>4 DEF CondTypeOK
  <1>7. ASSUME NEW p \in Process
        PROVE  OneCall(p)' /\ OwnTables(p)'
    <2>1. OneCall(p) /\ OwnTables(p)
      BY DEF CondInv
    <2>2. OneCall(p)'
      BY <1>1, <2>1 DEF OneCall, HoldsMutexOf, mutexVars
    <2> HIDE DEF n, s
    <2>3. OwnTables(p)'
      BY <1>1, <1>5, <2>1 DEF OwnTables
    <2> QED
      BY <2>2, <2>3
  <1>8. ASSUME NEW p \in Process, NEW q \in OtherProcesses(p), NEW c \in CondName
        PROVE  /\ Announced(p, q, c)' /\ ConfirmedOnce(p, q, c)'
               /\ SentHolding(p, q, "COND_WAIT", c)'
    <2> DEFINE done == q = r /\ p = s /\ c = n
    <2>0. q \in Process /\ Announced(p, q, c) /\ ConfirmedOnce(p, q, c)
      BY ProcessFacts DEF CondInv, WaitInv
    <2>1. \A a, b \in Process : \A t :
            /\ Sends(r, {s}, type, n, a, b, t, c) <=> a = r /\ b = s /\ t = type /\ n = c
            /\ t # "COND_WAIT_END" => ~Dispatches(b, a, t, c)
      BY <1>0, <1>1, CallbackDone DEF Sends
    <2>2. /\ Dispatches(q, p, "COND_WAIT_END", c) <=> done
          /\ done => HeldInHand(q, p, "COND_WAIT_END", c)
          /\ Sends(r, {s}, type, n, q, p, "COND_WAIT_END_CONFIRM", c) <=> done
      BY <1>0, <1>1, <2>0, <2>1, CallbackDone
    <2>3. /\ ~Sends(r, {s}, type, n, p, q, "COND_WAIT", c)
          /\ ~Sends(r, {s}, type, n, p, q, "COND_WAIT_END", c)
          /\ ~Dispatches(q, p, "COND_WAIT", c)
          /\ ~Dispatches(p, q, "COND_WAIT_END_CONFIRM", c)
      <3>1. /\ ~Dispatches(q, p, "COND_WAIT", c)
            /\ ~Dispatches(p, q, "COND_WAIT_END_CONFIRM", c)
        BY <2>0, <2>1
      <3> QED
        BY <3>1 DEF Sends
    <2> HIDE DEF done, s, n, type
    <2>4. /\ OnlyOne(p, q, "COND_WAIT", c)' /\ OnlyOne(p, q, "COND_WAIT_END", c)'
          /\ Underway(p, q, "COND_WAIT", c)' <=> Underway(p, q, "COND_WAIT", c)
          /\ Underway(p, q, "COND_WAIT_END", c)' <=> Underway(p, q, "COND_WAIT_END", c) /\ ~done
          /\ OnlyOne(q, p, "COND_WAIT_END_CONFIRM", c)'
          /\ Underway(q, p, "COND_WAIT_END_CONFIRM", c)'
               <=> done \/ Underway(q, p, "COND_WAIT_END_CONFIRM", c)
          /\ Ordered(p, q, "COND_WAIT", c, "COND_WAIT_END", c)'
          /\ SentHolding(p, q, "COND_WAIT", c)'
      BY <1>3, <2>2, <2>3, PairFacts
    <2>5. /\ Listed(p, q, c)' => Listed(p, q, c) /\ ~done
          /\ waiting'[p][c] = waiting[p][c]
          /\ Recorded(p, q, c)' <=> Recorded(p, q, c)
      BY <1>1, <1>5, <2>0 DEF Listed, Recorded, done
    <2>6. done => /\ Underway(p, q, "COND_WAIT_END", c)
                  /\ ~Underway(p, q, "COND_WAIT", c)
      BY <2>0, <2>2 DEF Underway, Announced, Ordered, HeldInHand, InHand
    <2>7. Announced(p, q, c)'
      BY <2>0, <2>4, <2>5, <2>6 DEF Announced
    <2>8. ConfirmedOnce(p, q, c)'
      BY <2>0, <2>4, <2>5, <2>6 DEF ConfirmedOnce
    <2> QED
      BY <2>4, <2>7, <2>8
  <1> QED
    BY <1>4, <1>6, <1>7, <1>8 DEF CondInv, WaitInv

LEMMA NotifiedStep ==
  ASSUME CondInv, NEW r \in Process, Notified(r)
  PROVE  CondInv'
  <1> DEFINE n == recv[r].message
  <1>0. CondTypeOK /\ CommTypeOK
    BY DEF CondInv, CondTypeOK, TypeOK
  <1>1. /\ InHand(r, "COND_NOTIFY") /\ recv[r] # NoPacket /\ Dispatched(r)
        /\ waiting' = IF Blocked(r, n) THEN [waiting EXCEPT ![r][n] = "woken"] ELSE waiting
        /\ UNCHANGED <<clock, chan, mutexVars, receivedConfirmations, conditionalWaits,
                       recipients, calls>>
    BY DEF Notified, InHand
  <1>2. n \in CondName
    BY <1>1 DEF CondInv, CondPackets, InHand, CondType
  <1>3. OtherComponent(r, {}, "COND_NOTIFY", n)
    BY <1>1 DEF OtherComponent, PacketStep, InHand, MutexType
  <1>4. IInv' /\ TypeOK' /\ CondPackets'
    BY <1>2, <1>3, OtherInv
  <1>5. \A p \in Process : \A c \in CondName :
          \/ waiting'[p][c] = waiting[p][c]
          \/ waiting[p][c] = "inside" /\ waiting'[p][c] = "woken"
    BY <1>0, <1>1, <1>2 DEF CondTypeOK, Blocked
  <1>6. CondTypeOK'
    BY <1>0, <1>1, <1>2, <1>4 DEF CondTypeOK, WaitStage
  <1>7. ASSUME NEW p \in Process
        PROVE  OneCall(p)' /\ OwnTables(p)'
    <2>1. OneCall(p) /\ OwnTables(p)
      BY DEF CondInv
    <2>2. OneCall(p)'
      BY <1>1, <1>5, <2>1 DEF OneCall, HoldsMutexOf, mutexVars
    <2>3. OwnTables(p)'
      BY <1>1, <1>5, <2>1 DEF OwnTables
    <2> QED
      BY <2>2, <2>3
  <1>8. WaitInv'
    BY <1>1, <1>3, <1>5, Untouched
  <1> QED
    BY <1>4, <1>6, <1>7, <1>8 DEF CondInv

LEMMA AddConfirmationStep ==
  ASSUME CondInv, NEW r \in Process, AddConfirmation(r)
  PROVE  CondInv'
  <1> DEFINE s == recv[r].source
             n == recv[r].message
             type == "COND_NOTIFY"
  <1>0. CondTypeOK /\ CommTypeOK /\ IInv
    BY DEF CondInv, CondTypeOK, TypeOK
  <1>1. /\ InHand(r, "COND_WAIT_END_CONFIRM") /\ recv[r] # NoPacket /\ Dispatched(r)
        /\ HeldInHand(r, s, "COND_WAIT_END_CONFIRM", n)
        /\ waiting[r][n] = "confirming"
        /\ receivedConfirmations' = [receivedConfirmations EXCEPT ![r] = @ \cup {s}]
        /\ UNCHANGED <<clock, chan, mutexVars, waiting, conditionalWaits, recipients, calls>>
    BY DEF AddConfirmation, InHand, HeldInHand
  <1>2. s \in OtherProcesses(r) /\ s \in Process /\ n \in CondName
    BY <1>0, <1>1, Sender DEF CondInv, CondPackets, InHand, CondType
  <1>3. OtherComponent(r, {}, type, n)
    BY <1>1 DEF OtherComponent, PacketStep, InHand, MutexType
  <1>4. IInv' /\ TypeOK' /\ CondPackets'
    BY <1>2, <1>3, OtherInv
  <1>5. \A p \in Process : receivedConfirmations'[p] =
          IF p = r THEN receivedConfirmations[p] \cup {s} ELSE receivedConfirmations[p]
    BY <1>0, <1>1 DEF CondTypeOK
  <1>6. CondTypeOK'
    BY <1>0, <1>1, <1>2, <1>4 DEF CondTypeOK
  <1>7. ASSUME NEW p \in Process
        PROVE  OneCall(p)' /\ OwnTables(p)'
    <2>1. OneCall(p) /\ OwnTables(p)
      BY DEF CondInv
    <2>2. OneCall(p)'
      BY <1>1, <2>1 DEF OneCall, HoldsMutexOf, mutexVars
    <2> HIDE DEF n, s
    <2>3. OwnTables(p)'
      BY <1>1, <1>2, <1>5, <2>1 DEF OwnTables
    <2> QED
      BY <2>2, <2>3
  <1>8. ASSUME NEW p \in Process, NEW q \in OtherProcesses(p), NEW c \in CondName
        PROVE  /\ Announced(p, q, c)' /\ ConfirmedOnce(p, q, c)'
               /\ SentHolding(p, q, "COND_WAIT", c)'
    <2> DEFINE done == p = r /\ q = s /\ c = n
    <2>0. q \in Process /\ Announced(p, q, c) /\ ConfirmedOnce(p, q, c)
      BY ProcessFacts DEF CondInv, WaitInv
    <2>1. \A a, b \in Process : \A t : /\ ~Sends(r, {}, type, n, a, b, t, c)
                                       /\ t # "COND_WAIT_END_CONFIRM" => ~Dispatches(b, a, t, c)
      BY <1>0, <1>1, CallbackDone DEF Sends
    <2>2. /\ Dispatches(p, q, "COND_WAIT_END_CONFIRM", c) <=> done
          /\ done => HeldInHand(p, q, "COND_WAIT_END_CONFIRM", c)
      BY <1>0, <1>1, <2>0, CallbackDone
    <2> HIDE DEF done
    <2>3. /\ OnlyOne(p, q, "COND_WAIT", c)' /\ OnlyOne(p, q, "COND_WAIT_END", c)'
          /\ Underway(p, q, "COND_WAIT", c)' <=> Underway(p, q, "COND_WAIT", c)
          /\ Underway(p, q, "COND_WAIT_END", c)' <=> Underway(p, q, "COND_WAIT_END", c)
          /\ OnlyOne(q, p, "COND_WAIT_END_CONFIRM", c)'
          /\ Underway(q, p, "COND_WAIT_END_CONFIRM", c)'
               <=> Underway(q, p, "COND_WAIT_END_CONFIRM", c) /\ ~done
          /\ Ordered(p, q, "COND_WAIT", c, "COND_WAIT_END", c)'
          /\ SentHolding(p, q, "COND_WAIT", c)'
      BY <1>3, <2>0, <2>1, <2>2, PairFacts
    <2>4. /\ Listed(p, q, c)' <=> Listed(p, q, c)
          /\ waiting'[p][c] = waiting[p][c]
          /\ Recorded(p, q, c)' <=> Recorded(p, q, c) \/ done
      <3>1. waiting[r][c] # "out" => c = n
        BY <1>1, <1>2 DEF CondInv, OneCall
      <3> HIDE DEF n, s
      <3> QED
        BY <1>1, <1>5, <2>0, <3>1 DEF Listed, Recorded, done
    <2>5. done => Underway(q, p, "COND_WAIT_END_CONFIRM", c)
      BY <2>2 DEF Underway
    <2>6. Announced(p, q, c)'
      BY <2>0, <2>3, <2>4, <2>5 DEF Announced
    <2>7. ConfirmedOnce(p, q, c)'
      BY <2>0, <2>3, <2>4, <2>5 DEF ConfirmedOnce
    <2> QED
      BY <2>3, <2>6, <2>7
  <1> QED
    BY <1>4, <1>6, <1>7, <1>8 DEF CondInv, WaitInv

-----------------------------------------------------------------------------
(* Steps of the exclusion algorithm. *)

(* A mutex is given up by unlock() alone. *)
LEMMA KeepsHolding ==
  ASSUME TypeOK, NEW r \in Process, NEW n \in MutexName,
         Subscribe(r, n) \/ InCall(r, n) \/ Receiver(r)
  PROVE  \A p \in Process : \A m \in MutexName : phase[p][m] = "held" => phase'[p][m] = "held"
  <1>1. CASE Receiver(r)
    BY <1>1 DEF Receiver, ReceiveAny, ProcessRequest, AddAgreement, mutexVars
  <1>2. CASE \E q \in Process : AnswerDelayed(r, n, q)
    BY <1>2 DEF AnswerDelayed
  <1>3. CASE Subscribe(r, n) \/ Queue(r, n) \/ Acquired(r, n) \/ Released(r, n)
    <2>1. phase[r][n] # "held" /\ \E ph : phase' = [phase EXCEPT ![r][n] = ph]
      BY <1>3 DEF Subscribe, Queue, Acquired, Released, SetPhase
    <2> QED
      BY <2>1 DEF TypeOK
  <1> QED
    BY <1>1, <1>2, <1>3 DEF InCall

LEMMA CondMutexStep ==
  ASSUME CondInv, [Next]_vars, CondTypeOK', \A p \in Process : OneCall(p)',
         UNCHANGED <<receivedConfirmations, conditionalWaits>>,
         \A p \in Process : \A c \in CondName :
           \/ waiting'[p][c] = waiting[p][c]
           \/ waiting[p][c] = "woken" /\ waiting'[p][c] = "inside"
  PROVE  CondInv'
  <1>1. IInv' /\ CondPackets'
    BY InvStep, MutexNames DEF CondInv
  <1>2. ASSUME NEW p \in Process
        PROVE  OwnTables(p)'
    BY DEF CondInv, OwnTables
  <1>3. ASSUME NEW p \in Process, NEW q \in OtherProcesses(p), NEW c \in CondName
        PROVE  /\ Announced(p, q, c)' /\ ConfirmedOnce(p, q, c)'
               /\ SentHolding(p, q, "COND_WAIT", c)'
    <2>0. /\ IInv /\ q \in Process
          /\ Announced(p, q, c) /\ ConfirmedOnce(p, q, c) /\ SentHolding(p, q, "COND_WAIT", c)
          /\ {"COND_WAIT", "COND_WAIT_END", "COND_WAIT_END_CONFIRM"} \subseteq CondType
      BY ProcessFacts DEF CondInv, WaitInv, CondType
    <2>1. /\ OnlyOne(p, q, "COND_WAIT", c)' /\ OnlyOne(p, q, "COND_WAIT_END", c)'
          /\ OnlyOne(q, p, "COND_WAIT_END_CONFIRM", c)'
          /\ Underway(p, q, "COND_WAIT", c)' <=> Underway(p, q, "COND_WAIT", c)
          /\ Underway(p, q, "COND_WAIT_END", c)' <=> Underway(p, q, "COND_WAIT_END", c)
          /\ Underway(q, p, "COND_WAIT_END_CONFIRM", c)'
               <=> Underway(q, p, "COND_WAIT_END_CONFIRM", c)
          /\ Ordered(p, q, "COND_WAIT", c, "COND_WAIT_END", c)'
      BY <2>0, MutexFlow DEF Announced, ConfirmedOnce
    <2>2. SentHolding(p, q, "COND_WAIT", c)'
      BY <2>0, MutexHolding
    <2>3. /\ (waiting[p][c] = "out")' <=> waiting[p][c] = "out"
          /\ (waiting[p][c] = "confirming")' <=> waiting[p][c] = "confirming"
          /\ Listed(p, q, c)' <=> Listed(p, q, c)
          /\ Recorded(p, q, c)' <=> Recorded(p, q, c)
      BY DEF Listed, Recorded
    <2>4. Announced(p, q, c)'
      BY <2>0, <2>1, <2>3 DEF Announced
    <2>5. ConfirmedOnce(p, q, c)'
      BY <2>0, <2>1, <2>3 DEF ConfirmedOnce
    <2> QED
      BY <2>2, <2>4, <2>5
  <1> QED
    BY <1>1, <1>2, <1>3 DEF CondInv, WaitInv

(* The steps of the exclusion algorithm that are no part of a wait. *)
LEMMA PlainMutexStep ==
  ASSUME CondInv, NEW r \in Process, UNCHANGED condVars,
         \/ \E m \in MutexName : \/ Free(r) /\ (Subscribe(r, m) \/ Unlock(r, m))
                                 \/ InCall(r, m)
         \/ Receiver(r)
  PROVE  CondInv'
  <1>0. CondTypeOK /\ TypeOK /\ UNCHANGED <<waiting, receivedConfirmations, conditionalWaits,
                                            recipients, calls>>
    BY DEF CondInv, CondTypeOK, condVars
  <1>1. [Next]_vars
    BY DEF Next
  <1>2. CondTypeOK'
    BY <1>0, <1>1, TypeStep DEF CondTypeOK
  <1>3. ASSUME NEW p \in Process
        PROVE  OneCall(p)'
    <2>1. OneCall(p)
      BY DEF CondInv
    <2>2. ASSUME NEW c \in CondName, HoldsMutexOf(p, c),
                 waiting[p][c] = "confirming" \/ recipients[p][c] # {}
          PROVE  HoldsMutexOf(p, c)'
      <3>1. MutexOf[c] \in MutexName
        BY CondAssumption
      <3>2. CASE Receiver(r) \/ \E m \in MutexName : Subscribe(r, m) \/ InCall(r, m)
        BY <1>0, <2>2, <3>1, <3>2, KeepsHolding DEF HoldsMutexOf
      <3>3. CASE \E m \in MutexName : Free(r) /\ Unlock(r, m)
        <4>1. p # r
          BY <2>2, <3>3 DEF Free
        <4>2. phase'[p] = phase[p]
          BY <1>0, <3>3, <4>1 DEF Unlock, SetPhase, TypeOK
        <4> QED
          BY <2>2, <4>2 DEF HoldsMutexOf
      <3> QED
        BY <3>2, <3>3
    <2> QED
      BY <1>0, <2>1, <2>2 DEF OneCall
  <1> QED
    BY <1>0, <1>1, <1>2, <1>3, CondMutexStep

(* condition_variable_any gives the mutex back, and takes it again. *)
LEMMA BlockStep ==
  ASSUME CondInv, NEW r \in Process, NEW n \in CondName, Block(r, n) \/ Relock(r, n)
  PROVE  CondInv'
  <1> DEFINE m == MutexOf[n]
  <1>0. /\ CondTypeOK /\ TypeOK /\ m \in MutexName
        /\ UNCHANGED <<receivedConfirmations, conditionalWaits, recipients, calls>>
    BY CondAssumption DEF CondInv, CondTypeOK, Block, Relock, condVars
  <1>1. Unlock(r, m) \/ Subscribe(r, m)
    BY DEF Block, Relock
  <1>2. [Next]_vars
    BY <1>0, <1>1 DEF Next
  <1>3. /\ waiting[r][n] \in {"inside", "woken"}
        /\ waiting' = waiting \/ waiting' = [waiting EXCEPT ![r][n] = "inside"]
        /\ \A p \in Process : \A c \in CondName :
             \/ waiting'[p][c] = waiting[p][c]
             \/ p = r /\ c = n /\ waiting[p][c] = "woken" /\ waiting'[p][c] = "inside"
    BY <1>0 DEF Block, Relock, SetWaiting, condVars, CondTypeOK
  <1>4. CondTypeOK'
    <2>1. waiting' \in [Process -> [CondName -> WaitStage]]
      <3>1. CASE waiting' = [waiting EXCEPT ![r][n] = "inside"]
        BY <1>0, <3>1 DEF CondTypeOK, WaitStage
      <3> QED
        BY <1>0, <1>3, <3>1 DEF CondTypeOK
    <2> QED
      BY <1>0, <1>2, <2>1, TypeStep DEF CondTypeOK
  <1>5. ASSUME NEW p \in Process
        PROVE  OneCall(p)'
    <2>1. OneCall(p) /\ OneCall(r)
      BY DEF CondInv
    <2>2. ASSUME NEW c \in CondName, HoldsMutexOf(p, c),
                 waiting[p][c] = "confirming" \/ recipients[p][c] # {}
          PROVE  HoldsMutexOf(p, c)'
      <3>1. p # r
        BY <1>3, <2>1, <2>2 DEF OneCall
      <3>2. phase'[p] = phase[p]
        BY <1>0, <1>1, <3>1 DEF Unlock, Subscribe, SetPhase, TypeOK
      <3> QED
        BY <2>2, <3>2 DEF HoldsMutexOf
    <2> QED
      BY <1>0, <1>3, <2>1, <2>2 DEF OneCall
  <1> QED
    BY <1>0, <1>2, <1>3, <1>4, <1>5, CondMutexStep

-----------------------------------------------------------------------------
(* The invariant. *)

LEMMA CondInvInit == CondInit => CondInv
  <1> SUFFICES ASSUME CondInit
               PROVE  CondInv
    OBVIOUS
  <1>1. IInv
    BY InvInit DEF CondInit
  <1>2. CondTypeOK
    BY <1>1 DEF IInv, CondTypeOK, CondInit, WaitStage
  <1>3. /\ \A p, q \in Process : chan[p][q] = <<>>
        /\ \A p \in Process : recv[p] = NoPacket /\ receivedConfirmations[p] = {}
        /\ \A p \in Process : \A c \in CondName :
             waiting[p][c] = "out" /\ conditionalWaits[p][c] = {} /\ recipients[p][c] = {}
        /\ \A p, q \in Process : \A m \in MutexName : phase[q][m] # "held" /\ ~Counted(q, p, m)
    BY DEF CondInit, Init, CommInit, Counted
  <1>4. \A p, q \in Process : \A i : i \notin 1 .. Len(chan[p][q])
    BY <1>3
  <1>5. \A p, q \in Process : \A t, c, later, m :
          /\ ~Underway(p, q, t, c) /\ OnlyOne(p, q, t, c)
          /\ Ordered(p, q, t, c, later, m)
    BY <1>3, <1>4 DEF Underway, OnlyOne, Ordered, Before, Holds, AtMostOnce, HeldInHand, InHand
  <1>6. CondPackets
    BY <1>3, <1>4 DEF CondPackets
  <1>7. \A p \in Process : OneCall(p) /\ OwnTables(p)
    BY <1>3 DEF OneCall, OwnTables
  <1>8. ASSUME NEW p \in Process, NEW q \in OtherProcesses(p), NEW c \in CondName
        PROVE  /\ Announced(p, q, c) /\ ConfirmedOnce(p, q, c)
               /\ SentHolding(p, q, "COND_WAIT", c)
    <2>1. q \in Process
      BY ProcessFacts
    <2>2. ~Listed(p, q, c) /\ ~Recorded(p, q, c)
      BY <1>3, <2>1 DEF Listed, Recorded
    <2> QED
      BY <1>3, <1>5, <2>1, <2>2 DEF Announced, ConfirmedOnce, SentHolding
  <1> QED
    BY <1>1, <1>2, <1>6, <1>7, <1>8 DEF CondInv, WaitInv

LEMMA CondInvStep == CondInv /\ [CondNext]_allCondVars => CondInv'
  <1> SUFFICES ASSUME CondInv, [CondNext]_allCondVars
               PROVE  CondInv'
    OBVIOUS
  <1>1. ASSUME NEW p \in Process, NEW m \in MutexName,
               \/ Free(p) /\ (Subscribe(p, m) \/ Unlock(p, m)) /\ UNCHANGED condVars
               \/ InCall(p, m) /\ UNCHANGED condVars
        PROVE  CondInv'
    BY <1>1, PlainMutexStep
  <1>2. ASSUME NEW p \in Process, NEW c \in CondName,
               \/ Wait(p, c) \/ Block(p, c) \/ WakeSpuriously(p, c)
               \/ NotifyOne(p, c) \/ NotifyAll(p, c) \/ NotifyNobody(p, c)
               \/ InCondCall(p, c)
        PROVE  CondInv'
    BY <1>2, WaitStep, BlockStep, NotifyStep, EndWaitStep, ConfirmedStep DEF InCondCall
  <1>3. ASSUME NEW p \in Process, CondReceiver(p)
        PROVE  CondInv'
    BY <1>3, PlainMutexStep, ListWaiterStep, EraseWaitersStep, NotifiedStep, AddConfirmationStep
       DEF CondReceiver, CondCallback
  <1>4. CASE UNCHANGED allCondVars
    <2>1. UNCHANGED <<vars, waiting, receivedConfirmations, conditionalWaits, recipients, calls>>
      BY <1>4 DEF allCondVars, condVars
    <2>2. [Next]_vars /\ UNCHANGED phase
      BY <2>1 DEF vars, mutexVars
    <2>3. CondTypeOK'
      BY <2>1, <2>2, TypeStep DEF CondInv, CondTypeOK
    <2>4. \A p \in Process : OneCall(p)'
      BY <2>1, <2>2 DEF CondInv, OneCall, HoldsMutexOf
    <2> QED
      BY <2>1, <2>2, <2>3, <2>4, CondMutexStep
  <1> QED
    BY <1>1, <1>2, <1>3, <1>4 DEF CondNext

(* CondInv holds in every reachable state, wherever clients notify. *)
THEOREM CondInvariant == CondSpec => []CondInv
  BY CondInvInit, CondInvStep, PTL DEF CondSpec

-----------------------------------------------------------------------------
(* Notifications, for clients that notify inside their entries. *)

(* Nobody is being notified while it holds the mutex. *)
LEMMA NoNotifyingHolder ==
  ASSUME CondInv, NotifyInv, ~NotifyOutside,
         NEW p \in Process, NEW q \in OtherProcesses(p), NEW c \in CondName, HoldsMutexOf(p, c)
  PROVE  ~Notifying(q, p, c)
  <1>1. q \in Process /\ p \in OtherProcesses(q) /\ MutexOf[c] \in MutexName
    BY ProcessFacts, CondAssumption
  <1>2. ~HoldsMutexOf(q, c)
    BY <1>1, HolderHasNotAgreed DEF CondInv, HoldsMutexOf
  <1>3. recipients[q][c] = {}
    BY <1>1, <1>2 DEF CondInv, OneCall
  <1>4. ~Underway(q, p, "COND_NOTIFY", c)
    BY DEF NotifyInv, SentHolding, HoldsMutexOf
  <1> QED
    BY <1>3, <1>4 DEF Notifying

LEMMA NotifyOtherStep ==
  ASSUME CondInv, NotifyInv, NEW r \in Process, NEW R, NEW type, NEW msg,
         OtherComponent(r, R, type, msg),
         \A p, q \in Process : \A c \in CondName :
           Sends(r, R, type, msg, q, p, "COND_NOTIFY", c) =>
             p \in recipients[q][c] /\ HoldsMutexOf(q, c),
         \A p \in Process : \A q \in OtherProcesses(p) : \A c \in CondName :
           p \in recipients'[q][c] =>
             p \in recipients[q][c] \/ waiting'[p][c] \in {"inside", "woken"},
         \A p \in Process : \A q \in OtherProcesses(p) : \A c \in CondName :
           Notifying(q, p, c) /\ waiting[p][c] \in {"inside", "woken"} =>
             waiting'[p][c] \in {"inside", "woken"}
  PROVE  NotifyInv'
  <1> SUFFICES ASSUME NEW p \in Process, NEW q \in OtherProcesses(p), NEW c \in CondName
               PROVE  /\ SentHolding(q, p, "COND_NOTIFY", c)'
                      /\ Notifying(q, p, c)' => waiting'[p][c] \in {"inside", "woken"}
    BY DEF NotifyInv
  <1>0. /\ IInv /\ CommTypeOK /\ PacketStep(r, R, type, msg)
        /\ q \in Process /\ p \in OtherProcesses(q) /\ "COND_NOTIFY" \in CondType
    BY ProcessFacts DEF CondInv, IInv, TypeOK, OtherComponent, CondType
  <1>1. /\ SentHolding(q, p, "COND_NOTIFY", c)
        /\ Notifying(q, p, c) => waiting[p][c] \in {"inside", "woken"}
    BY DEF NotifyInv
  <1> DEFINE new == q = r /\ p \in R /\ "COND_NOTIFY" = type /\ c = msg
  <1>2. new => p \in recipients[q][c] /\ HoldsMutexOf(q, c)
    BY <1>0 DEF Sends
  <1>3. SentHolding(q, p, "COND_NOTIFY", c)'
    BY <1>0, <1>1, <1>2, OtherHolding
  <1>4. /\ HeldInHand(p, q, "COND_NOTIFY", c)' => HeldInHand(p, q, "COND_NOTIFY", c)
        /\ Holds(chan[q][p], "COND_NOTIFY", c)' <=> Holds(chan[q][p], "COND_NOTIFY", c) \/ new
    BY <1>0, Flow
  <1> HIDE DEF new
  <1>5. Underway(q, p, "COND_NOTIFY", c)' => Notifying(q, p, c)
    BY <1>2, <1>4 DEF Underway, Notifying
  <1>6. Notifying(q, p, c)' => Notifying(q, p, c) \/ waiting'[p][c] \in {"inside", "woken"}
    BY <1>5 DEF Notifying
  <1> QED
    BY <1>1, <1>3, <1>6

LEMMA NotifyMutexStep ==
  ASSUME CondInv, NotifyInv, [Next]_vars, UNCHANGED recipients,
         \A p \in Process : \A c \in CondName :
           \/ waiting'[p][c] = waiting[p][c]
           \/ waiting[p][c] = "woken" /\ waiting'[p][c] = "inside"
  PROVE  NotifyInv'
  <1> SUFFICES ASSUME NEW p \in Process, NEW q \in OtherProcesses(p), NEW c \in CondName
               PROVE  /\ SentHolding(q, p, "COND_NOTIFY", c)'
                      /\ Notifying(q, p, c)' => waiting'[p][c] \in {"inside", "woken"}
    BY DEF NotifyInv
  <1>0. /\ IInv /\ q \in Process /\ p \in OtherProcesses(q) /\ "COND_NOTIFY" \in CondType
    BY ProcessFacts DEF CondInv, CondType
  <1>1. /\ SentHolding(q, p, "COND_NOTIFY", c)
        /\ Notifying(q, p, c) => waiting[p][c] \in {"inside", "woken"}
    BY DEF NotifyInv
  <1>2. SentHolding(q, p, "COND_NOTIFY", c)'
    BY <1>0, <1>1, MutexHolding
  <1>3. Underway(q, p, "COND_NOTIFY", c)' <=> Underway(q, p, "COND_NOTIFY", c)
    BY <1>0, MutexFlow
  <1>4. Notifying(q, p, c)' => Notifying(q, p, c)
    BY <1>3 DEF Notifying
  <1> QED
    BY <1>1, <1>2, <1>4

LEMMA NotifyCallStep ==
  ASSUME CondInv, NotifyInv, ~NotifyOutside, NEW r \in Process, NEW n \in CondName,
         \/ Wait(r, n) \/ WakeSpuriously(r, n)
         \/ NotifyOne(r, n) \/ NotifyAll(r, n) \/ NotifyNobody(r, n)
         \/ EndWait(r, n) \/ Confirmed(r, n) \/ SendNotify(r, n)
  PROVE  NotifyInv'
  <1>0. CondTypeOK /\ n \in Message
    BY CondAssumption DEF CondInv, CondTypeOK
  <1>1. CASE Wait(r, n) \/ EndWait(r, n)
    <2>1. PICK type \in {"COND_WAIT", "COND_WAIT_END"}, stage \in {"inside", "confirming"} :
            /\ Send(r, OtherProcesses(r), type, n)
            /\ waiting' = [waiting EXCEPT ![r][n] = stage]
            /\ stage = "confirming" => HoldsMutexOf(r, n)
      BY <1>1 DEF Wait, EndWait, SetWaiting
    <2>2. OtherComponent(r, OtherProcesses(r), type, n)
      BY <1>0, <1>1, <2>1, Constants
         DEF Wait, EndWait, OtherComponent, PacketStep, MessageType, MutexType
    <2>3. UNCHANGED recipients
      BY <1>1 DEF Wait, EndWait
    <2>4. \A p \in Process : \A q \in OtherProcesses(p) : \A c \in CondName :
            Notifying(q, p, c) /\ waiting[p][c] \in {"inside", "woken"} =>
              waiting'[p][c] \in {"inside", "woken"}
      BY <1>0, <2>1, NoNotifyingHolder DEF CondTypeOK
    <2> QED
      BY <2>2, <2>3, <2>4, NotifyOtherStep DEF Sends
  <1>2. CASE Confirmed(r, n) \/ WakeSpuriously(r, n) \/ NotifyNobody(r, n)
    <2>1. OtherComponent(r, {}, "COND_NOTIFY", n)
      BY <1>0, <1>2 DEF Confirmed, WakeSpuriously, NotifyNobody, OtherComponent, PacketStep,
                        MessageType, MutexType, vars, commVars
    <2>2. UNCHANGED recipients
      BY <1>2 DEF Confirmed, WakeSpuriously, NotifyNobody
    <2>3. \A p \in Process : \A c \in CondName :
            waiting[p][c] \in {"inside", "woken"} => waiting'[p][c] \in {"inside", "woken"}
      <3>1. CASE Confirmed(r, n)
        BY <1>0, <3>1 DEF Confirmed, SetWaiting, CondTypeOK
      <3>2. CASE WakeSpuriously(r, n)
        BY <1>0, <3>2 DEF WakeSpuriously, SetWaiting, CondTypeOK
      <3>3. CASE NotifyNobody(r, n)
        BY <3>3 DEF NotifyNobody
      <3> QED
        BY <1>2, <3>1, <3>2, <3>3
    <2> QED
      BY <2>1, <2>2, <2>3, NotifyOtherStep DEF Sends
  <1>3. CASE NotifyOne(r, n) \/ NotifyAll(r, n)
    <2>1. OtherComponent(r, {}, "COND_NOTIFY", n) /\ UNCHANGED waiting /\ HoldsMutexOf(r, n)
      BY <1>3 DEF NotifyOne, NotifyAll, MayNotify, OtherComponent, PacketStep, MutexType,
                  vars, commVars
    <2>2. \A p, q \in Process : \A c \in CondName :
            p \in recipients'[q][c] =>
              p \in recipients[q][c] \/ (q = r /\ c = n /\ Listed(p, q, c))
      <3>1. CASE NotifyOne(r, n)
        <4>1. PICK w \in conditionalWaits[r][n] :
                recipients' = [recipients EXCEPT ![r][n] = {w.source}]
          BY <3>1 DEF NotifyOne, First
        <4>2. \A q \in Process : \A c \in CondName :
                recipients'[q][c] = IF q = r /\ c = n THEN {w.source} ELSE recipients[q][c]
          BY <1>0, <4>1 DEF CondTypeOK
        <4> QED
          BY <4>1, <4>2 DEF Listed
      <3>2. CASE NotifyAll(r, n)
        <4>1. recipients' =
                [recipients EXCEPT ![r][n] = {w.source : w \in conditionalWaits[r][n]}]
          BY <3>2 DEF NotifyAll
        <4>2. \A p : p \in {w.source : w \in conditionalWaits[r][n]} => Listed(p, r, n)
          BY DEF Listed
        <4> DEFINE N == {w.source : w \in conditionalWaits[r][n]}
        <4>3. \A q \in Process : \A c \in CondName :
                recipients'[q][c] = IF q = r /\ c = n THEN N ELSE recipients[q][c]
          BY <1>0, <4>1 DEF CondTypeOK
        <4>4. \A p : p \in N => Listed(p, r, n)
          BY <4>2
        <4> HIDE DEF N
        <4> QED
          BY <4>3, <4>4
      <3> QED
        BY <1>3, <3>1, <3>2
    <2>3. ASSUME NEW p \in Process, NEW q \in OtherProcesses(p), NEW c \in CondName,
                 p \in recipients'[q][c]
          PROVE  p \in recipients[q][c] \/ waiting[p][c] \in {"inside", "woken"}
      <3>0. q \in Process /\ p \in OtherProcesses(q) /\ MutexOf[c] \in MutexName
        BY ProcessFacts, CondAssumption
      <3>1. CASE q = r /\ c = n /\ Listed(p, q, c)
        <4>1. waiting[p][c] # "out"
          BY <3>0, <3>1 DEF CondInv, WaitInv, Announced
        <4>2. ~HoldsMutexOf(p, c)
          BY <2>1, <3>0, <3>1, HolderHasNotAgreed DEF CondInv, HoldsMutexOf
        <4>3. waiting[p][c] # "confirming"
          BY <4>2 DEF CondInv, OneCall
        <4> QED
          BY <1>0, <4>1, <4>3 DEF CondTypeOK, WaitStage
      <3> QED
        BY <2>2, <2>3, <3>0, <3>1
    <2> QED
      BY <2>1, <2>3, NotifyOtherStep DEF Sends
  <1>4. CASE SendNotify(r, n)
    <2> DEFINE R == recipients[r][n]
    <2>1. /\ R \in SUBSET Process /\ R # {} /\ HoldsMutexOf(r, n)
          /\ Send(r, R, "COND_NOTIFY", n)
          /\ recipients' = [recipients EXCEPT ![r][n] = {}]
          /\ UNCHANGED <<recv, mutexVars, waiting>>
      BY <1>0, <1>4 DEF SendNotify, CondTypeOK, CondInv, OneCall
    <2>2. OtherComponent(r, R, "COND_NOTIFY", n)
      BY <1>0, <2>1 DEF OtherComponent, PacketStep, MessageType, MutexType
    <2>3. \A p, q \in Process : \A c \in CondName :
            Sends(r, R, "COND_NOTIFY", n, q, p, "COND_NOTIFY", c) =>
              p \in recipients[q][c] /\ HoldsMutexOf(q, c)
      BY <2>1 DEF Sends
    <2>4. \A q \in Process : \A c \in CondName : recipients'[q][c] \subseteq recipients[q][c]
      BY <1>0, <2>1 DEF CondTypeOK
    <2> HIDE DEF R
    <2>5. \A p \in Process : \A q \in OtherProcesses(p) : \A c \in CondName :
            p \in recipients'[q][c] => p \in recipients[q][c]
      BY <2>4, ProcessFacts
    <2> QED
      BY <2>1, <2>2, <2>3, <2>5, NotifyOtherStep
  <1> QED
    BY <1>1, <1>2, <1>3, <1>4

LEMMA NotifyCallbackStep ==
  ASSUME CondInv, NotifyInv, NEW r \in Process, CondCallback(r)
  PROVE  NotifyInv'
  <1>0. CondTypeOK /\ CommTypeOK /\ IInv
    BY DEF CondInv, CondTypeOK, TypeOK
  <1>1. /\ UNCHANGED recipients
        /\ waiting' = waiting \/ waiting' = [waiting EXCEPT ![r][recv[r].message] = "woken"]
    BY DEF CondCallback, ListWaiter, EraseWaiters, Notified, AddConfirmation
  <1>2. \A p \in Process : \A c \in CondName :
          waiting[p][c] \in {"inside", "woken"} => waiting'[p][c] \in {"inside", "woken"}
    <2>1. CASE waiting' = [waiting EXCEPT ![r][recv[r].message] = "woken"]
      BY <1>0, <2>1 DEF CondTypeOK
    <2> QED
      BY <1>1, <2>1
  <1>3. PICK R, type, msg : type # "COND_NOTIFY" /\ OtherComponent(r, R, type, msg)
    <2>1. CASE EraseWaiters(r)
      <3> DEFINE s == recv[r].source
                 n == recv[r].message
      <3>1. InHand(r, "COND_WAIT_END") /\ recv[r] # NoPacket
        BY <2>1 DEF EraseWaiters, InHand
      <3>2. s \in Process /\ n \in Message
        BY <1>0, <3>1, Sender, CondAssumption DEF CondInv, CondPackets, InHand, CondType
      <3>3. OtherComponent(r, {s}, "COND_WAIT_END_CONFIRM", n)
        BY <2>1, <3>1, <3>2
           DEF EraseWaiters, OtherComponent, PacketStep, InHand, MessageType, MutexType
      <3> QED
        BY <3>3
    <2>2. CASE ListWaiter(r) \/ Notified(r) \/ AddConfirmation(r)
      <3>1. OtherComponent(r, {}, "SYNC", 0)
        BY <2>2 DEF ListWaiter, Notified, AddConfirmation, OtherComponent, PacketStep, InHand,
                    MutexType
      <3> QED
        BY <3>1
    <2> QED
      BY <2>1, <2>2 DEF CondCallback
  <1> QED
    BY <1>1, <1>2, <1>3, NotifyOtherStep DEF Sends

LEMMA NotifyInvInit == CondInit => NotifyInv
  <1> SUFFICES ASSUME CondInit, NEW p \in Process, NEW q \in OtherProcesses(p),
                      NEW c \in CondName
               PROVE  /\ SentHolding(q, p, "COND_NOTIFY", c)
                      /\ ~Notifying(q, p, c)
    BY DEF NotifyInv
  <1>1. q \in Process
    BY ProcessFacts
  <1>2. chan[q][p] = <<>> /\ recv[p] = NoPacket /\ recipients[q][c] = {}
    BY <1>1 DEF CondInit, Init, CommInit
  <1>3. \A i : i \notin 1 .. Len(chan[q][p])
    BY <1>2
  <1> QED
    BY <1>2, <1>3 DEF SentHolding, Notifying, Ordered, Before, Underway, Holds, HeldInHand, InHand

LEMMA NotifyInvStep ==
  ASSUME ~NotifyOutside
  PROVE  CondInv /\ NotifyInv /\ [CondNext]_allCondVars => NotifyInv'
  <1> SUFFICES ASSUME CondInv, NotifyInv, [CondNext]_allCondVars
               PROVE  NotifyInv'
    OBVIOUS
  <1>1. ASSUME [Next]_vars, UNCHANGED condVars
        PROVE  NotifyInv'
    BY <1>1, NotifyMutexStep DEF condVars
  <1>2. ASSUME NEW p \in Process, NEW m \in MutexName,
               Subscribe(p, m) \/ Unlock(p, m) \/ InCall(p, m)
        PROVE  [Next]_vars
    BY <1>2 DEF Next
  <1>3. ASSUME NEW p \in Process, NEW c \in CondName, Block(p, c)
        PROVE  NotifyInv'
    BY <1>1, <1>2, <1>3, CondAssumption DEF Block
  <1>4. ASSUME NEW p \in Process, NEW c \in CondName, Relock(p, c)
        PROVE  NotifyInv'
    <2>1. [Next]_vars /\ UNCHANGED recipients
      BY <1>2, <1>4, CondAssumption DEF Relock
    <2>2. \A q \in Process : \A d \in CondName :
            \/ waiting'[q][d] = waiting[q][d]
            \/ waiting[q][d] = "woken" /\ waiting'[q][d] = "inside"
      BY <1>4 DEF Relock, SetWaiting, CondInv, CondTypeOK
    <2> QED
      BY <2>1, <2>2, NotifyMutexStep
  <1>5. ASSUME NEW p \in Process, Receiver(p)
        PROVE  [Next]_vars
    BY <1>5 DEF Next
  <1>6. ASSUME NEW p \in Process, NEW c \in CondName, 
               \/ Wait(p, c) \/ Block(p, c) \/ WakeSpuriously(p, c)
               \/ NotifyOne(p, c) \/ NotifyAll(p, c) \/ NotifyNobody(p, c)
               \/ InCondCall(p, c)
        PROVE  NotifyInv'
    BY <1>3, <1>4, <1>6, NotifyCallStep DEF InCondCall
  <1>7. ASSUME NEW p \in Process, CondReceiver(p)
        PROVE  NotifyInv'
    BY <1>1, <1>5, <1>7, NotifyCallbackStep DEF CondReceiver
  <1>8. CASE UNCHANGED allCondVars
    BY <1>1, <1>8 DEF allCondVars
  <1> QED
    BY <1>1, <1>2, <1>6, <1>7, <1>8 DEF CondNext

(* With clients that notify inside their entries, both invariants hold in    *)
(* every reachable state.                                                    *)
THEOREM NotifyInvariant ==
  ASSUME ~NotifyOutside
  PROVE  CondSpec => [](CondInv /\ NotifyInv)
  <1>1. CondInit => CondInv /\ NotifyInv
    BY CondInvInit, NotifyInvInit
  <1>2. CondInv /\ NotifyInv /\ [CondNext]_allCondVars => (CondInv /\ NotifyInv)'
    BY CondInvStep, NotifyInvStep
  <1> QED
    BY <1>1, <1>2, PTL DEF CondSpec

-----------------------------------------------------------------------------
(* What follows from the invariants. *)

LEMMA TablesFromInv == CondInv => TablesCurrent
  <1> SUFFICES ASSUME CondInv, NEW p \in Process, NEW c \in CondName,
                      NEW w \in conditionalWaits[p][c]
               PROVE  waiting[w.source][c] # "out"
    BY DEF TablesCurrent
  <1>1. w.source \in Process /\ p \in OtherProcesses(w.source)
    BY ProcessFacts DEF CondInv, OwnTables
  <1>2. Listed(w.source, p, c)
    BY DEF Listed
  <1> QED
    BY <1>1, <1>2 DEF CondInv, WaitInv, Announced

(* The packet in p's hand is one of another process's, about a condition     *)
(* variable of the program.                                                  *)
LEMMA HandFacts ==
  ASSUME CondInv, NEW p \in Process, NEW type \in CondType, InHand(p, type)
  PROVE  /\ recv[p].source \in OtherProcesses(p) /\ recv[p].source \in Process
         /\ p \in OtherProcesses(recv[p].source)
         /\ recv[p].message \in CondName
         /\ HeldInHand(p, recv[p].source, type, recv[p].message)
         /\ Underway(recv[p].source, p, type, recv[p].message)
  <1>1. recv[p] # NoPacket /\ recv[p].messageType = type
    BY DEF InHand
  <1>2. recv[p].source \in OtherProcesses(p) /\ recv[p].source \in Process
    BY <1>1, Sender DEF CondInv
  <1>3. recv[p].message \in CondName
    BY <1>1 DEF CondInv, CondPackets
  <1>4. HeldInHand(p, recv[p].source, type, recv[p].message)
    BY DEF HeldInHand
  <1> QED
    BY <1>2, <1>3, <1>4, ProcessFacts DEF Underway

LEMMA ConfirmationFromInv == CondInv => ConfirmationExpected
  <1> SUFFICES ASSUME CondInv, NEW p \in Process, InHand(p, "COND_WAIT_END_CONFIRM")
               PROVE  /\ waiting[p][recv[p].message] = "confirming"
                      /\ recv[p].source \notin receivedConfirmations[p]
    BY DEF ConfirmationExpected
  <1> DEFINE q == recv[p].source
             c == recv[p].message
  <1>1. /\ q \in OtherProcesses(p) /\ c \in CondName
        /\ Underway(q, p, "COND_WAIT_END_CONFIRM", c)
    BY HandFacts DEF CondType
  <1> HIDE DEF q, c
  <1>2. ConfirmedOnce(p, q, c)
    BY <1>1 DEF CondInv, WaitInv
  <1>3. waiting[p][c] = "confirming" /\ ~Recorded(p, q, c)
    BY <1>1, <1>2 DEF ConfirmedOnce
  <1> QED
    BY <1>3 DEF Recorded, q, c

LEMMA NotifiedFromInv == CondInv /\ NotifyInv => NotificationExpected /\ NoNotifyWhileHeld
  <1> SUFFICES ASSUME CondInv, NotifyInv, NEW p \in Process, InHand(p, "COND_NOTIFY")
               PROVE  /\ waiting[p][recv[p].message] # "out"
                      /\ ~HoldsMutexOf(p, recv[p].message)
    BY DEF NotificationExpected, NoNotifyWhileHeld
  <1> DEFINE q == recv[p].source
             c == recv[p].message
  <1>1. /\ q \in OtherProcesses(p) /\ c \in CondName
        /\ Underway(q, p, "COND_NOTIFY", c)
    BY HandFacts DEF CondType
  <1> HIDE DEF q, c
  <1>2. /\ waiting[p][c] \in {"inside", "woken"}
        /\ phase[p][MutexOf[c]] # "held"
    BY <1>1 DEF NotifyInv, Notifying, SentHolding
  <1> QED
    BY <1>2 DEF HoldsMutexOf, q, c

(* Type correctness of the waits and of everything below them.               *)
THEOREM CondTypeCorrect == CondSpec => []CondTypeOK
  <1>1. CondInv => CondTypeOK
    BY DEF CondInv
  <1> QED
    BY <1>1, CondInvariant, PTL

(* The mutexes still exclude each other when main threads also wait, and     *)
(* receiving threads also notify and confirm: condition_variable_any gives   *)
(* the mutex up and takes it back through the same algorithm.                *)
THEOREM CondExclusion == CondSpec => []MutualExclusion
  <1>1. CondInv => MutualExclusion
    BY ExclusionFromInv DEF CondInv
  <1> QED
    BY <1>1, CondInvariant, PTL

(* They are still granted in the order of the requests: the request that     *)
(* takes a mutex back after a wait has its place in the order like any other. *)
THEOREM CondOrder == CondSpec => []HolderRequestedFirst
  <1>1. CondInv => HolderRequestedFirst
    BY OrderFromInv DEF CondInv
  <1> QED
    BY <1>1, CondInvariant, PTL

(* No agreement reaches a process that does not wait for one, although the   *)
(* receiving threads also take notifications and confirmations.              *)
THEOREM CondAgreementsExpected == CondSpec => []NoUnexpectedAgreement
  <1>1. CondInv => NoUnexpectedAgreement
    BY ExpectedFromInv DEF CondInv
  <1> QED
    BY <1>1, CondInvariant, PTL

(* With MpiSimpleCommunicator no two processes keep each other's request,    *)
(* those that take a mutex back after a wait included.                       *)
THEOREM CondNoStandoff ==
  ASSUME ~Optimized
  PROVE  CondSpec => []NoMutualDelay
  <1>1. CondInv => NoMutualDelay
    BY NoDelayFromInv DEF CondInv
  <1> QED
    BY <1>1, CondInvariant, PTL

(* Nobody is on a table of waiters once its wait() has returned, whatever    *)
(* the number of processes and wherever clients notify.                      *)
THEOREM Tables == CondSpec => []TablesCurrent
  BY TablesFromInv, CondInvariant, PTL

(* The confirmation callback finds its subscription and a wait that has not  *)
(* counted the sender yet: no confirmation is counted twice or by a later    *)
(* wait.                                                                     *)
THEOREM Confirmations == CondSpec => []ConfirmationExpected
  BY ConfirmationFromInv, CondInvariant, PTL

(* A receiving thread never throws over a COND_NOTIFY, if clients notify     *)
(* inside their entries.                                                     *)
THEOREM Notifications ==
  ASSUME ~NotifyOutside
  PROVE  CondSpec => []NotificationExpected
  <1>1. CondInv /\ NotifyInv => NotificationExpected
    BY NotifiedFromInv
  <1> QED
    BY <1>1, NotifyInvariant, PTL

(* and the notification does not reach a process between the evaluation of   *)
(* its predicate and the moment it blocks.                                   *)
THEOREM NoNotificationLost ==
  ASSUME ~NotifyOutside
  PROVE  CondSpec => []NoNotifyWhileHeld
  <1>1. CondInv /\ NotifyInv => NoNotifyWhileHeld
    BY NotifiedFromInv
  <1> QED
    BY <1>1, NotifyInvariant, PTL

-----------------------------------------------------------------------------
(* Times of the announcements: std::set<Packet> keeps one packet per time.   *)

SentAt(s, type, c, t) ==
  \E i \in 1 .. Len(s) :
    s[i].messageType = type /\ s[i].message = c /\ s[i].lamportTime = t

CarriedAt(p, q, type, c, t) ==
  \/ SentAt(chan[p][q], type, c, t)
  \/ HeldInHand(q, p, type, c) /\ recv[q].lamportTime = t

(* q lists, or is to list, p as a waiter with the time t. *)
AnnouncedAt(p, q, c, t) ==
  \/ CarriedAt(p, q, "COND_WAIT", c, t)
  \/ [lamportTime |-> t, source |-> p] \in conditionalWaits[q][c]

(* Whoever got or gets p's agreement to the mutex afterwards has a clock     *)
(* beyond t.                                                                 *)
PassedOn(p, r, c, t) ==
  /\ \A u \in Nat : SentAt(chan[p][r], "MUTEX_AGREEMENT", MutexOf[c], u) => t < u
  /\ \/ AgreementInHand(r, p, MutexOf[c]) \/ Counted(r, p, MutexOf[c]) \/ HoldsMutexOf(r, c)
     => t < clock[r]

(* MpiSimpleCommunicator: the waiters announce themselves one after the      *)
(* other, as they hold the mutex, and each knows the time of the one before. *)
AnnouncedInTurn(p, q, c, t) ==
  AnnouncedAt(p, q, c, t) =>
    /\ t <= clock[p]
    /\ \A r \in OtherProcesses(p) : PassedOn(p, r, c, t)
    /\ \A r \in OtherProcesses(p) : r # q => ~AnnouncedAt(r, q, c, t)

(* MpiOptimizedCommunicator: q stamps each packet with its own clock.        *)
StampedInTurn(q) ==
  /\ recv[q] # NoPacket => recv[q].lamportTime <= clock[q]
  /\ \A c \in CondName : \A w \in conditionalWaits[q][c] :
       /\ w.lamportTime <= clock[q]
       /\ recv[q] # NoPacket => w.lamportTime < recv[q].lamportTime

(* Inductive together with CondInv. *)
TakenInv ==
  /\ ~Optimized => \A p \in Process : \A q \in OtherProcesses(p) : \A c \in CondName :
                     \A t \in Nat : AnnouncedInTurn(p, q, c, t)
  /\ Optimized => \A q \in Process : StampedInTurn(q)

LEMMA SendAt ==
  ASSUME CommTypeOK, NEW r \in Process, NEW R, NEW type, NEW msg,
         PacketStep(r, R, type, msg),
         NEW p \in Process, NEW q \in Process, NEW ty, NEW c, NEW t,
         SentAt(chan[p][q], ty, c, t)'
  PROVE  \/ SentAt(chan[p][q], ty, c, t)
         \/ Sends(r, R, type, msg, p, q, ty, c) /\ t = clock[p] + 1 /\ Send(r, R, type, msg)
  <1>1. CASE UNCHANGED <<clock, chan>>
    BY <1>1 DEF SentAt
  <1>2. CASE /\ R \in SUBSET Process /\ type \in MessageType /\ msg \in Message
             /\ Send(r, R, type, msg)
    <2> DEFINE e == NextPacket(r, type, msg)
    <2>1. /\ e \in Packet /\ e.messageType = type /\ e.message = msg
          /\ e.lamportTime = clock[r] + 1
          /\ chan[p][q] \in Seq(Packet)
      BY <1>2, SendEffect DEF CommTypeOK, NextPacket
    <2>2. chan'[p][q] = IF p = r /\ q \in R THEN Append(chan[p][q], e) ELSE chan[p][q]
      BY <1>2, SendChannel
    <2> HIDE DEF e
    <2>3. PICK i \in 1 .. Len(chan'[p][q]) :
            /\ chan'[p][q][i].messageType = ty /\ chan'[p][q][i].message = c
            /\ chan'[p][q][i].lamportTime = t
      BY DEF SentAt
    <2>4. CASE p = r /\ q \in R
      <3>1. chan'[p][q] = Append(chan[p][q], e)
        BY <2>2, <2>4
      <3>2. \/ i \in 1 .. Len(chan[p][q]) /\ chan'[p][q][i] = chan[p][q][i]
            \/ chan'[p][q][i] = e
        BY <2>1, <3>1, AppendFacts
      <3> QED
        BY <1>2, <2>1, <2>3, <2>4, <3>2 DEF SentAt, Sends
    <2>5. CASE ~(p = r /\ q \in R)
      BY <2>2, <2>3, <2>5 DEF SentAt
    <2> QED
      BY <2>4, <2>5
  <1> QED
    BY <1>1, <1>2 DEF PacketStep

LEMMA ReceiveAt ==
  ASSUME IInv, NEW r \in Process, NEW s \in OtherProcesses(r), Receive(r, s),
         NEW p \in Process, NEW q \in Process, NEW ty, NEW c
  PROVE  /\ \A t : SentAt(chan[p][q], ty, c, t)' => SentAt(chan[p][q], ty, c, t)
         /\ HeldInHand(q, p, ty, c)' =>
              \/ HeldInHand(q, p, ty, c) /\ recv'[q] = recv[q]
              \/ \E t \in Nat : /\ SentAt(chan[p][q], ty, c, t) /\ t < clock'[q]
                                /\ ~Optimized => recv'[q].lamportTime = t
  <1> DEFINE h == Head(chan[s][r])
  <1>0. CommTypeOK /\ PacketInv /\ s \in Process
    BY ProcessFacts DEF IInv, TypeOK
  <1>1. \A a, b \in Process : chan[a][b] \in Seq(Packet)
    BY <1>0 DEF CommTypeOK
  <1>2. ASSUME NEW t, SentAt(chan[p][q], ty, c, t)'
        PROVE  SentAt(chan[p][q], ty, c, t)
    <2>1. CASE p = s /\ q = r
      <3>1. chan'[p][q] = Tail(chan[p][q]) /\ chan[p][q] # <<>>
        BY <1>0, <2>1, ReceiveChannel
      <3>2. PICK i \in 1 .. Len(chan'[p][q]) :
              /\ chan'[p][q][i].messageType = ty /\ chan'[p][q][i].message = c
              /\ chan'[p][q][i].lamportTime = t
        BY <1>2 DEF SentAt
      <3>3. i + 1 \in 1 .. Len(chan[p][q]) /\ chan'[p][q][i] = chan[p][q][i + 1]
        BY <1>1, <3>1, <3>2, TailFacts
      <3> QED
        BY <3>2, <3>3 DEF SentAt
    <2>2. CASE ~(p = s /\ q = r)
      <3>1. chan'[p][q] = chan[p][q]
        BY <1>0, <2>2, ReceiveChannel
      <3> QED
        BY <1>2, <3>1 DEF SentAt
    <2> QED
      BY <2>1, <2>2
  <1>3. ASSUME HeldInHand(q, p, ty, c)', ~(HeldInHand(q, p, ty, c) /\ recv'[q] = recv[q])
        PROVE  \E t \in Nat : /\ SentAt(chan[p][q], ty, c, t) /\ t < clock'[q]
                              /\ ~Optimized => recv'[q].lamportTime = t
    <2>1. q = r
      BY <1>0, <1>3, ReceiveEffect DEF HeldInHand, InHand
    <2>2. /\ h \in Packet /\ h.lamportTime < clock'[r]
          /\ recv'[r].messageType = h.messageType /\ recv'[r].message = h.message
          /\ recv'[r].source = h.source
          /\ ~Optimized => recv'[r].lamportTime = h.lamportTime
      BY <1>0, ReceiveEffect
    <2>3. h.source = s /\ p = s
      BY <1>0, <1>3, <2>1, <2>2, ReceiveGenuine DEF Genuine, HeldInHand
    <2>4. 1 \in 1 .. Len(chan[s][r]) /\ h = chan[s][r][1]
      BY <1>0, <1>1, ReceiveChannel, TailFacts
    <2> HIDE DEF h
    <2>5. SentAt(chan[p][q], ty, c, h.lamportTime)
      BY <1>3, <2>1, <2>2, <2>3, <2>4 DEF SentAt, HeldInHand, InHand
    <2>6. h.lamportTime \in Nat
      BY <2>2 DEF Packet
    <2> QED
      BY <2>1, <2>2, <2>5, <2>6
  <1> QED
    BY <1>2, <1>3

(* Every step receives a packet, or sends and dispatches, and COND_WAIT is   *)
(* sent by wait() alone.                                                     *)
LEMMA CondEffect ==
  ASSUME CondInv, [CondNext]_allCondVars
  PROVE  \/ \E r \in Process : \E s \in OtherProcesses(r) :
              Receive(r, s) /\ UNCHANGED conditionalWaits
         \/ \E r \in Process : \E R, type, msg :
              /\ PacketStep(r, R, type, msg)
              /\ type = "COND_WAIT" => msg \in CondName /\ Wait(r, msg)
  <1>0. CommTypeOK /\ IInv /\ Process # {}
    <2>1. 0 \in Process
      BY CommunicatorAssumption DEF Process
    <2> QED
      BY <2>1 DEF CondInv, IInv, TypeOK
  <1>1. ASSUME [Next]_vars, UNCHANGED conditionalWaits
        PROVE  \/ \E r \in Process : \E s \in OtherProcesses(r) :
                    Receive(r, s) /\ UNCHANGED conditionalWaits
               \/ \E r \in Process : \E R, type, msg :
                    PacketStep(r, R, type, msg) /\ type # "COND_WAIT"
    <2>1. ASSUME UNCHANGED <<clock, chan, recv>>
          PROVE  \A r \in Process : PacketStep(r, {}, "SYNC", 0)
      BY <2>1 DEF PacketStep
    <2>2. ASSUME NEW type \in MutexType
          PROVE  type # "COND_WAIT"
      BY DEF MutexType
    <2> QED
      BY <1>0, <1>1, <2>1, <2>2, MutexEffect
  <1>2. ASSUME NEW r \in Process, UNCHANGED <<clock, chan>>,
               UNCHANGED recv \/ (recv[r] # NoPacket /\ Dispatched(r))
        PROVE  PacketStep(r, {}, "SYNC", 0)
    BY <1>2 DEF PacketStep
  <1>3. ASSUME NEW r \in Process, NEW c \in CondName, Wait(r, c) \/ EndWait(r, c)
        PROVE  \/ PacketStep(r, OtherProcesses(r), "COND_WAIT", c) /\ Wait(r, c)
               \/ PacketStep(r, OtherProcesses(r), "COND_WAIT_END", c)
    BY <1>3, CondAssumption, Constants DEF Wait, EndWait, PacketStep, MessageType
  <1>4. ASSUME NEW r \in Process, NEW c \in CondName, NotifyNobody(r, c) \/ SendNotify(r, c)
        PROVE  \E R : PacketStep(r, R, "COND_NOTIFY", c)
    <2>1. recipients[r][c] \in SUBSET Process /\ {} \in SUBSET Process /\ c \in Message
      BY CondAssumption DEF CondInv, CondTypeOK
    <2>2. PICK R \in SUBSET Process : Send(r, R, "COND_NOTIFY", c) /\ UNCHANGED recv
      BY <1>4, <2>1 DEF SendNotify, NotifyNobody
    <2>3. PacketStep(r, R, "COND_NOTIFY", c)
      BY <2>1, <2>2 DEF PacketStep, MessageType
    <2> QED
      BY <2>3
  <1>5. ASSUME NEW r \in Process, EraseWaiters(r)
        PROVE  \E R, msg : PacketStep(r, R, "COND_WAIT_END_CONFIRM", msg)
    <2>1. recv[r] # NoPacket /\ recv[r].messageType = "COND_WAIT_END"
      BY <1>5 DEF EraseWaiters, InHand
    <2>2. {recv[r].source} \in SUBSET Process /\ recv[r].message \in Message
      BY <1>0, <2>1, Sender, CondAssumption DEF CondInv, CondPackets, CondType
    <2>3. PacketStep(r, {recv[r].source}, "COND_WAIT_END_CONFIRM", recv[r].message)
      BY <1>5, <2>1, <2>2 DEF EraseWaiters, PacketStep, MessageType
    <2> QED
      BY <2>3
  <1>6. ASSUME NEW r \in Process, NEW c \in CondName,
               WakeSpuriously(r, c) \/ NotifyOne(r, c) \/ NotifyAll(r, c) \/ Confirmed(r, c)
        PROVE  PacketStep(r, {}, "SYNC", 0)
    BY <1>2, <1>6 DEF WakeSpuriously, NotifyOne, NotifyAll, Confirmed, vars, commVars
  <1>7. ASSUME NEW r \in Process, ListWaiter(r) \/ Notified(r) \/ AddConfirmation(r)
        PROVE  PacketStep(r, {}, "SYNC", 0)
    BY <1>2, <1>7 DEF ListWaiter, Notified, AddConfirmation, InHand
  <1>8. ASSUME NEW r \in Process, NEW c \in CondName, Block(r, c) \/ Relock(r, c)
        PROVE  PacketStep(r, {}, "SYNC", 0)
    BY <1>2, <1>8 DEF Block, Relock, Unlock, Subscribe, commVars
  <1>9. ASSUME UNCHANGED allCondVars
        PROVE  [Next]_vars /\ UNCHANGED conditionalWaits
    BY <1>9 DEF allCondVars, condVars
  <1>10. ASSUME NEW r \in Process, UNCHANGED condVars,
                Receiver(r) \/ \E m \in MutexName : \/ Subscribe(r, m) \/ Unlock(r, m)
                                                    \/ InCall(r, m)
         PROVE  [Next]_vars /\ UNCHANGED conditionalWaits
    BY <1>10 DEF Next, condVars
  <1>11. ASSUME NEW r \in Process, CondReceiver(r)
         PROVE  \/ [Next]_vars /\ UNCHANGED conditionalWaits
                \/ \E R, type, msg : PacketStep(r, R, type, msg) /\ type # "COND_WAIT"
    BY <1>5, <1>7, <1>10, <1>11 DEF CondReceiver, CondCallback
  <1>12. ASSUME NEW r \in Process, NEW c \in CondName,
                \/ Wait(r, c) \/ Block(r, c) \/ WakeSpuriously(r, c)
                \/ NotifyOne(r, c) \/ NotifyAll(r, c) \/ NotifyNobody(r, c)
                \/ InCondCall(r, c)
         PROVE  \E R, type, msg :
                  /\ PacketStep(r, R, type, msg)
                  /\ type = "COND_WAIT" => msg \in CondName /\ Wait(r, msg)
    <2>1. \/ \E R, msg : PacketStep(r, R, "COND_WAIT_END", msg)
          \/ \E R, msg : PacketStep(r, R, "COND_NOTIFY", msg)
          \/ \E R, msg : PacketStep(r, R, "SYNC", msg)
          \/ PacketStep(r, OtherProcesses(r), "COND_WAIT", c) /\ Wait(r, c)
      BY <1>3, <1>4, <1>6, <1>8, <1>12 DEF InCondCall
    <2> QED
      BY <2>1
  <1> QED
    BY <1>1, <1>9, <1>10, <1>11, <1>12 DEF CondNext

(* A table grows by the packet in hand alone. *)
LEMMA TableEffect ==
  ASSUME CondInv, [CondNext]_allCondVars, NEW q \in Process, NEW c \in CondName,
         NEW w \in conditionalWaits'[q][c]
  PROVE  \/ w \in conditionalWaits[q][c]
         \/ /\ InHand(q, "COND_WAIT") /\ recv[q].message = c /\ recv[q].source = w.source
            /\ w.lamportTime >= recv[q].lamportTime
            /\ Optimized /\ recv[q].lamportTime <= clock[q] => w.lamportTime <= clock[q]
            /\ ~Optimized => w.lamportTime = recv[q].lamportTime
            /\ recv'[q] = NoPacket /\ UNCHANGED clock
  <1>0. CondTypeOK /\ CommTypeOK
    BY DEF CondInv, CondTypeOK, TypeOK
  <1>1. ASSUME NEW r \in Process, EraseWaiters(r)
        PROVE  w \in conditionalWaits[q][c]
    <2>1. conditionalWaits' = [conditionalWaits EXCEPT ![r][recv[r].message] = {}]
      BY <1>1 DEF EraseWaiters
    <2> QED
      BY <1>0, <2>1 DEF CondTypeOK
  <1>2. ASSUME NEW r \in Process, ListWaiter(r), w \notin conditionalWaits[q][c]
        PROVE  /\ InHand(q, "COND_WAIT") /\ recv[q].message = c /\ recv[q].source = w.source
               /\ w.lamportTime >= recv[q].lamportTime
               /\ Optimized /\ recv[q].lamportTime <= clock[q] => w.lamportTime <= clock[q]
               /\ ~Optimized => w.lamportTime = recv[q].lamportTime
               /\ recv'[q] = NoPacket /\ UNCHANGED clock
    <2>1. InHand(r, "COND_WAIT") /\ recv[r] # NoPacket /\ Dispatched(r) /\ UNCHANGED clock
      BY <1>2 DEF ListWaiter, InHand
    <2>2. PICK packet \in Received(r) :
            LET d == packet.message
                v == [lamportTime |-> packet.lamportTime, source |-> packet.source]
                taken == \E x \in conditionalWaits[r][d] : x.lamportTime = v.lamportTime
            IN  conditionalWaits' =
                  [conditionalWaits EXCEPT ![r][d] = IF taken THEN @ ELSE @ \cup {v}]
      BY <1>2 DEF ListWaiter
    <2> DEFINE d == packet.message
               v == [lamportTime |-> packet.lamportTime, source |-> packet.source]
    <2>3. /\ packet \in Packet /\ packet.source = recv[r].source
          /\ packet.message = recv[r].message
          /\ packet.lamportTime >= recv[r].lamportTime
          /\ ~Optimized => packet.lamportTime = recv[r].lamportTime
          /\ recv[r] \in Packet
      BY <1>0, <2>1, <2>2, ReceivedFacts
    <2>4. Optimized /\ recv[r].lamportTime <= clock[r] => packet.lamportTime <= clock[r]
      <3>1. ASSUME Optimized
            PROVE  packet.lamportTime <= clock[r]
        <4>1. PICK t \in recv[r].lamportTime .. clock[r] :
                packet = [recv[r] EXCEPT !.lamportTime = t]
          BY <2>2, <3>1 DEF Received
        <4>2. packet.lamportTime = t
          BY <2>3, <4>1 DEF Packet
        <4>3. recv[r].lamportTime \in Nat /\ clock[r] \in Nat
          BY <1>0, <2>3 DEF Packet, CommTypeOK
        <4> QED
          BY <4>2, <4>3
      <3> QED
        BY <3>1
    <2>5. w \in conditionalWaits[q][c] \/ (q = r /\ c = d /\ w = v)
      <3>1. \E T : /\ \A x \in T : x \in conditionalWaits[r][d] \/ x = v
                   /\ conditionalWaits' = [conditionalWaits EXCEPT ![r][d] = T]
        <4> DEFINE taken == \E x \in conditionalWaits[r][d] : x.lamportTime = v.lamportTime
                   T == IF taken THEN conditionalWaits[r][d] ELSE conditionalWaits[r][d] \cup {v}
        <4>1. conditionalWaits' = [conditionalWaits EXCEPT ![r][d] = T]
          BY <2>2
        <4>2. \A x \in T : x \in conditionalWaits[r][d] \/ x = v
          OBVIOUS
        <4> HIDE DEF T
        <4> QED
          BY <4>1, <4>2
      <3> HIDE DEF d, v
      <3> QED
        BY <1>0, <3>1 DEF CondTypeOK
    <2>6. q = r /\ c = d /\ w = v
      BY <1>2, <2>5
    <2>7. recv'[q] = NoPacket
      BY <1>0, <2>1, <2>6 DEF Dispatched, CommTypeOK
    <2> QED
      BY <2>1, <2>3, <2>4, <2>6, <2>7
  <1>3. \/ UNCHANGED conditionalWaits
        \/ \E r \in Process : EraseWaiters(r) \/ ListWaiter(r)
    BY DEF CondNext, allCondVars, condVars, Wait, Block, WakeSpuriously, NotifyOne, NotifyAll,
           NotifyNobody, InCondCall, Relock, EndWait, Confirmed, SendNotify,
           CondReceiver, CondCallback, Notified, AddConfirmation
  <1> QED
    BY <1>1, <1>2, <1>3

LEMMA CondAgreements ==
  ASSUME CondInv, [CondNext]_allCondVars,
         NEW p \in Process, NEW q \in OtherProcesses(p), NEW m \in MutexName
  PROVE  /\ Counted(p, q, m)' => Counted(p, q, m) \/ AgreementInHand(p, q, m)
         /\ (phase[p][m] = "held")' => phase[p][m] = "held" \/ Counted(p, q, m)
  <1>1. [Next]_vars \/ UNCHANGED mutexVars
    <2>1. UNCHANGED vars => UNCHANGED mutexVars
      BY DEF vars
    <2>2. ASSUME NEW r \in Process, NEW c \in CondName,
                 \/ Wait(r, c) \/ WakeSpuriously(r, c) \/ NotifyOne(r, c) \/ NotifyAll(r, c)
                 \/ NotifyNobody(r, c) \/ EndWait(r, c) \/ Confirmed(r, c) \/ SendNotify(r, c)
          PROVE  UNCHANGED mutexVars
      BY <2>1, <2>2 DEF Wait, WakeSpuriously, NotifyOne, NotifyAll, NotifyNobody, EndWait,
                        Confirmed, SendNotify
    <2>3. ASSUME NEW r \in Process, CondCallback(r)
          PROVE  UNCHANGED mutexVars
      BY <2>3 DEF CondCallback, ListWaiter, EraseWaiters, Notified, AddConfirmation
    <2>4. ASSUME NEW r \in Process,
                 Receiver(r) \/ \E n \in MutexName : \/ Subscribe(r, n) \/ Unlock(r, n)
                                                     \/ InCall(r, n)
          PROVE  [Next]_vars
      BY <2>4 DEF Next
    <2>5. ASSUME NEW r \in Process, NEW c \in CondName, Block(r, c) \/ Relock(r, c)
          PROVE  [Next]_vars
      BY <2>4, <2>5, CondAssumption DEF Block, Relock
    <2>6. UNCHANGED allCondVars => UNCHANGED vars
      BY DEF allCondVars
    <2> QED
      BY <2>2, <2>3, <2>4, <2>5, <2>6 DEF CondNext, CondReceiver, InCondCall
  <1>2. CASE [Next]_vars
    BY <1>2, AgreementsCounted DEF CondInv
  <1>3. CASE UNCHANGED mutexVars
    BY <1>3 DEF mutexVars, Counted
  <1> QED
    BY <1>1, <1>2, <1>3

LEMMA ClockGrows ==
  ASSUME CondInv, [CondNext]_allCondVars, NEW p \in Process
  PROVE  clock[p] <= clock'[p] /\ clock[p] \in Nat /\ clock'[p] \in Nat
  <1>0. CommTypeOK /\ clock[p] \in Nat
    BY DEF CondInv, IInv, TypeOK, CommTypeOK
  <1>1. ASSUME NEW r \in Process, NEW s \in OtherProcesses(r), Receive(r, s)
        PROVE  clock[p] <= clock'[p] /\ clock'[p] \in Nat
    BY <1>0, <1>1, ReceiveEffect, ProcessFacts
  <1>2. ASSUME NEW r \in Process, NEW R, NEW type, NEW msg, PacketStep(r, R, type, msg)
        PROVE  clock[p] <= clock'[p] /\ clock'[p] \in Nat
    <2>1. CASE UNCHANGED <<clock, chan>>
      BY <1>0, <2>1
    <2>2. CASE /\ R \in SUBSET Process /\ type \in MessageType /\ msg \in Message
               /\ Send(r, R, type, msg)
      BY <1>0, <2>2, SendEffect
    <2> QED
      BY <1>2, <2>1, <2>2 DEF PacketStep
  <1> QED
    BY <1>0, <1>1, <1>2, CondEffect

LEMMA StampedStep ==
  ASSUME CondInv, [CondNext]_allCondVars, Optimized, NEW q \in Process, StampedInTurn(q)
  PROVE  StampedInTurn(q)'
  <1>0. /\ CommTypeOK /\ CommTypeOK' /\ CondTypeOK /\ CondTypeOK'
    BY CondInvStep DEF CondInv, IInv, TypeOK
  <1>1. clock[q] <= clock'[q] /\ clock[q] \in Nat /\ clock'[q] \in Nat
    BY ClockGrows
  <1>2. /\ recv[q] # NoPacket => recv[q].lamportTime \in Nat
        /\ recv'[q] # NoPacket => recv'[q].lamportTime \in Nat
        /\ \A c \in CondName : \A w \in conditionalWaits[q][c] : w.lamportTime \in Nat
        /\ \A c \in CondName : \A w \in conditionalWaits'[q][c] : w.lamportTime \in Nat
    BY <1>0 DEF CommTypeOK, CondTypeOK, Waiter, Packet
  <1>3. recv'[q] = recv[q] \/ recv'[q] = NoPacket \/ 
          (/\ UNCHANGED conditionalWaits /\ clock[q] < clock'[q]
           /\ recv'[q].lamportTime = clock'[q])
    <2>1. ASSUME NEW r \in Process, NEW s \in OtherProcesses(r), Receive(r, s), q = r,
                 UNCHANGED conditionalWaits
          PROVE  clock[q] < clock'[q] /\ recv'[q].lamportTime = clock'[q]
      <3> DEFINE h == Head(chan[s][r])
                 now == ClockAfter(r, h)
      <3>1. h \in Packet
        BY <1>0, <2>1, ReceiveEffect, ProcessFacts
      <3>2. now \in Nat /\ clock[r] < now
        <4>1. h.lamportTime \in Nat /\ clock[r] \in Nat
          BY <1>0, <3>1 DEF CommTypeOK, Packet
        <4> HIDE DEF h
        <4> QED
          BY <4>1 DEF ClockAfter
      <3>3. clock' = [clock EXCEPT ![r] = now] /\ recv' = [recv EXCEPT ![r] = Restamp(h, now)]
        BY <2>1 DEF Receive
      <3> HIDE DEF h, now
      <3>4. clock'[r] = now /\ recv'[r] = Restamp(h, now)
        BY <1>0, <3>3 DEF CommTypeOK
      <3>5. Restamp(h, now).lamportTime = now
        BY <3>1 DEF Restamp, Packet
      <3> QED
        BY <2>1, <3>2, <3>4, <3>5
    <2>2. ASSUME NEW r \in Process, NEW s \in OtherProcesses(r), Receive(r, s), q # r
          PROVE  recv'[q] = recv[q]
      BY <1>0, <2>2, ReceiveEffect, ProcessFacts
    <2>3. ASSUME NEW r \in Process, NEW R, NEW type, NEW msg, PacketStep(r, R, type, msg)
          PROVE  recv'[q] = recv[q] \/ recv'[q] = NoPacket
      BY <1>0, <2>3 DEF PacketStep, Dispatched, CommTypeOK
    <2> QED
      BY <2>1, <2>2, <2>3, CondEffect
  <1>4. recv'[q] # NoPacket => recv'[q].lamportTime <= clock'[q]
    BY <1>1, <1>2, <1>3 DEF StampedInTurn
  <1>5. ASSUME NEW c \in CondName, NEW w \in conditionalWaits'[q][c]
        PROVE  /\ w.lamportTime <= clock'[q]
               /\ recv'[q] # NoPacket => w.lamportTime < recv'[q].lamportTime
    <2>1. CASE w \in conditionalWaits[q][c]
      BY <1>1, <1>2, <1>3, <2>1 DEF StampedInTurn
    <2>2. CASE w \notin conditionalWaits[q][c]
      <3>1. /\ recv[q] # NoPacket /\ recv'[q] = NoPacket /\ UNCHANGED clock
            /\ recv[q].lamportTime <= clock[q] => w.lamportTime <= clock[q]
        BY <2>2, TableEffect DEF InHand
      <3> QED
        BY <3>1 DEF StampedInTurn
    <2> QED
      BY <2>1, <2>2
  <1> QED
    BY <1>4, <1>5 DEF StampedInTurn

(* What is new in a channel or in a hand. *)
LEMMA CarriedEffect ==
  ASSUME CondInv, [CondNext]_allCondVars, NEW p \in Process, NEW q \in Process, NEW c
  PROVE  /\ \A ty, t : SentAt(chan[p][q], ty, c, t)' => \/ SentAt(chan[p][q], ty, c, t)
                                                       \/ clock[p] < t
         /\ \A ty : HeldInHand(q, p, ty, c)' =>
              \/ HeldInHand(q, p, ty, c) /\ recv'[q] = recv[q]
              \/ \E t \in Nat : /\ SentAt(chan[p][q], ty, c, t) /\ t < clock'[q]
                                /\ ~Optimized => recv'[q].lamportTime = t
         /\ \A t : SentAt(chan[p][q], "COND_WAIT", c, t)' =>
              \/ SentAt(chan[p][q], "COND_WAIT", c, t)
              \/ c \in CondName /\ Wait(p, c) /\ t = clock[p] + 1
  <1>0. IInv /\ CommTypeOK /\ clock[p] \in Nat
    BY DEF CondInv, IInv, TypeOK, CommTypeOK
  <1>1. ASSUME NEW r \in Process, NEW s \in OtherProcesses(r), Receive(r, s)
        PROVE  /\ \A ty, t : SentAt(chan[p][q], ty, c, t)' => SentAt(chan[p][q], ty, c, t)
               /\ \A ty : HeldInHand(q, p, ty, c)' =>
                    \/ HeldInHand(q, p, ty, c) /\ recv'[q] = recv[q]
                    \/ \E t \in Nat : /\ SentAt(chan[p][q], ty, c, t) /\ t < clock'[q]
                                      /\ ~Optimized => recv'[q].lamportTime = t
    BY <1>0, <1>1, ReceiveAt
  <1>2. ASSUME NEW r \in Process, NEW R, NEW type, NEW msg, PacketStep(r, R, type, msg),
               type = "COND_WAIT" => msg \in CondName /\ Wait(r, msg)
        PROVE  /\ \A ty, t : SentAt(chan[p][q], ty, c, t)' =>
                    \/ SentAt(chan[p][q], ty, c, t)
                    \/ /\ t = clock[p] + 1
                       /\ ty = "COND_WAIT" => c \in CondName /\ Wait(p, c)
               /\ \A ty : HeldInHand(q, p, ty, c)' =>
                    HeldInHand(q, p, ty, c) /\ recv'[q] = recv[q]
    <2>1. ASSUME NEW ty, NEW t, SentAt(chan[p][q], ty, c, t)', ~SentAt(chan[p][q], ty, c, t)
          PROVE  t = clock[p] + 1 /\ (ty = "COND_WAIT" => c \in CondName /\ Wait(p, c))
      <3>1. Sends(r, R, type, msg, p, q, ty, c) /\ t = clock[p] + 1
        BY <1>0, <1>2, <2>1, SendAt
      <3> QED
        BY <1>2, <3>1 DEF Sends
    <2>2. recv'[q] = recv[q] \/ recv'[q] = NoPacket
      BY <1>0, <1>2 DEF PacketStep, Dispatched, CommTypeOK
    <2> QED
      BY <2>1, <2>2 DEF HeldInHand, InHand
  <1>3. clock[p] < clock[p] + 1
    BY <1>0
  <1>4. CASE \E r \in Process : \E s \in OtherProcesses(r) : Receive(r, s)
    BY <1>1, <1>4
  <1>5. CASE \E r \in Process : \E R, type, msg :
               /\ PacketStep(r, R, type, msg)
               /\ type = "COND_WAIT" => msg \in CondName /\ Wait(r, msg)
    BY <1>2, <1>3, <1>5
  <1> QED
    BY <1>4, <1>5, CondEffect

LEMMA AnnouncedEffect ==
  ASSUME CondInv, [CondNext]_allCondVars, ~Optimized,
         NEW p \in Process, NEW q \in OtherProcesses(p), NEW c \in CondName, NEW t,
         AnnouncedAt(p, q, c, t)'
  PROVE  AnnouncedAt(p, q, c, t) \/ (Wait(p, c) /\ t = clock[p] + 1)
  <1>0. q \in Process
    BY ProcessFacts
  <1>1. CASE SentAt(chan[p][q], "COND_WAIT", c, t)'
    BY <1>0, <1>1, CarriedEffect DEF AnnouncedAt, CarriedAt
  <1>2. CASE HeldInHand(q, p, "COND_WAIT", c)' /\ recv'[q].lamportTime = t
    <2>1. \/ HeldInHand(q, p, "COND_WAIT", c) /\ recv'[q] = recv[q]
          \/ \E u \in Nat : /\ SentAt(chan[p][q], "COND_WAIT", c, u)
                            /\ recv'[q].lamportTime = u
      BY <1>0, <1>2, CarriedEffect
    <2> QED
      BY <1>2, <2>1 DEF AnnouncedAt, CarriedAt
  <1>3. CASE [lamportTime |-> t, source |-> p] \in conditionalWaits'[q][c]
    <2> DEFINE w == [lamportTime |-> t, source |-> p]
    <2>1. w.lamportTime = t /\ w.source = p
      OBVIOUS
    <2> HIDE DEF w
    <2>2. CASE w \in conditionalWaits[q][c]
      BY <2>2 DEF AnnouncedAt, w
    <2>3. CASE w \notin conditionalWaits[q][c]
      <3>1. /\ InHand(q, "COND_WAIT") /\ recv[q].message = c /\ recv[q].source = w.source
            /\ w.lamportTime = recv[q].lamportTime
        BY <1>0, <1>3, <2>3, TableEffect DEF w
      <3> QED
        BY <2>1, <3>1 DEF AnnouncedAt, CarriedAt, HeldInHand
    <2> QED
      BY <2>2, <2>3
  <1> QED
    BY <1>1, <1>2, <1>3 DEF AnnouncedAt, CarriedAt

(* Whoever passes the mutex on has announced itself before. *)
LEMMA PassedOnStep ==
  ASSUME CondInv, [CondNext]_allCondVars,
         NEW p \in Process, NEW r \in OtherProcesses(p), NEW c \in CondName, NEW t \in Nat,
         t <= clock[p], PassedOn(p, r, c, t)
  PROVE  PassedOn(p, r, c, t)'
  <1> DEFINE m == MutexOf[c]
  <1>0. /\ r \in Process /\ p \in OtherProcesses(r) /\ m \in MutexName
        /\ clock[p] \in Nat /\ clock[r] \in Nat /\ clock'[r] \in Nat /\ clock[r] <= clock'[r]
    BY ProcessFacts, ClockGrows, CondAssumption
  <1>1. ASSUME NEW u \in Nat, SentAt(chan[p][r], "MUTEX_AGREEMENT", m, u)'
        PROVE  t < u
    <2>1. SentAt(chan[p][r], "MUTEX_AGREEMENT", m, u) \/ clock[p] < u
      BY <1>0, <1>1, CarriedEffect
    <2> QED
      BY <1>0, <2>1 DEF PassedOn
  <1>2. AgreementInHand(r, p, m)' => t < clock'[r]
    <2>1. ASSUME HeldInHand(r, p, "MUTEX_AGREEMENT", m)'
          PROVE  t < clock'[r]
      <3>1. \/ HeldInHand(r, p, "MUTEX_AGREEMENT", m)
            \/ \E u \in Nat : SentAt(chan[p][r], "MUTEX_AGREEMENT", m, u) /\ u < clock'[r]
        BY <1>0, <2>1, CarriedEffect
      <3>2. CASE HeldInHand(r, p, "MUTEX_AGREEMENT", m)
        BY <1>0, <3>2 DEF PassedOn, AgreementInHand
      <3>3. ASSUME NEW u \in Nat, SentAt(chan[p][r], "MUTEX_AGREEMENT", m, u), u < clock'[r]
            PROVE  t < clock'[r]
        <4>1. t < u
          BY <3>3 DEF PassedOn
        <4> QED
          BY <1>0, <3>3, <4>1
      <3> QED
        BY <3>1, <3>2, <3>3
    <2> QED
      BY <2>1 DEF AgreementInHand
  <1>3. Counted(r, p, m)' \/ (phase[r][m] = "held")' => t < clock'[r]
    <2>1. Counted(r, p, m)' \/ (phase[r][m] = "held")' =>
            AgreementInHand(r, p, m) \/ Counted(r, p, m) \/ phase[r][m] = "held"
      BY <1>0, CondAgreements
    <2>2. Counted(r, p, m)' \/ (phase[r][m] = "held")' => t < clock[r]
      BY <2>1 DEF PassedOn, HoldsMutexOf
    <2> QED
      BY <1>0, <2>2
  <1> QED
    BY <1>1, <1>2, <1>3 DEF PassedOn, HoldsMutexOf

LEMMA AnnouncedStep ==
  ASSUME CondInv, TakenInv, [CondNext]_allCondVars, ~Optimized,
         NEW p \in Process, NEW q \in OtherProcesses(p), NEW c \in CondName, NEW t \in Nat
  PROVE  AnnouncedInTurn(p, q, c, t)'
  <1> SUFFICES ASSUME AnnouncedAt(p, q, c, t)'
               PROVE  /\ t <= clock'[p]
                      /\ \A r \in OtherProcesses(p) : PassedOn(p, r, c, t)'
                      /\ \A r \in OtherProcesses(p) : r # q => ~AnnouncedAt(r, q, c, t)'
    BY DEF AnnouncedInTurn
  <1> DEFINE m == MutexOf[c]
  <1>0. /\ q \in Process /\ m \in MutexName
        /\ clock[p] \in Nat /\ clock'[p] \in Nat /\ clock[p] <= clock'[p]
    BY ProcessFacts, ClockGrows, CondAssumption
  <1>1. CASE AnnouncedAt(p, q, c, t)
    <2>1. /\ t <= clock[p]
          /\ \A r \in OtherProcesses(p) : PassedOn(p, r, c, t)
          /\ \A r \in OtherProcesses(p) : r # q => ~AnnouncedAt(r, q, c, t)
      BY <1>1 DEF TakenInv, AnnouncedInTurn
    <2>2. \A r \in OtherProcesses(p) : PassedOn(p, r, c, t)'
      BY <2>1, PassedOnStep
    <2>3. ASSUME NEW r \in OtherProcesses(p), r # q, AnnouncedAt(r, q, c, t)'
          PROVE  FALSE
      <3>1. r \in Process /\ q \in OtherProcesses(r) /\ clock[r] \in Nat
        BY <1>0, <2>3, ProcessFacts, ClockGrows
      <3>2. Wait(r, c) /\ t = clock[r] + 1
        BY <2>1, <2>3, <3>1, AnnouncedEffect
      <3>3. t < clock[r]
        BY <2>1, <3>2 DEF PassedOn, Wait
      <3> QED
        BY <3>1, <3>2, <3>3
    <2> QED
      BY <1>0, <2>1, <2>2, <2>3
  <1>2. CASE Wait(p, c) /\ t = clock[p] + 1
    <2>0. /\ CommTypeOK /\ IInv /\ HoldsMutexOf(p, c)
          /\ Send(p, OtherProcesses(p), "COND_WAIT", c)
          /\ UNCHANGED <<recv, mutexVars>>
      BY <1>2 DEF Wait, CondInv, IInv, TypeOK
    <2>1. clock'[p] = t
      BY <1>2, <2>0 DEF Send, CommTypeOK
    <2>2. ASSUME NEW r \in OtherProcesses(p)
          PROVE  PassedOn(p, r, c, t)'
      <3>1. /\ r \in Process /\ p \in OtherProcesses(r)
            /\ PacketStep(p, OtherProcesses(p), "COND_WAIT", c)
        BY <2>0, <2>2, ProcessFacts, Constants, CondAssumption DEF PacketStep, MessageType
      <3>2. ~Answered(r, p, m) /\ ~Counted(r, p, m) /\ phase[r][m] # "held"
        BY <1>0, <2>0, <3>1, HolderHasNotAgreed DEF HoldsMutexOf
      <3>3. ASSUME NEW u, SentAt(chan[p][r], "MUTEX_AGREEMENT", m, u)'
            PROVE  FALSE
        <4>1. SentAt(chan[p][r], "MUTEX_AGREEMENT", m, u)
          BY <2>0, <3>1, <3>3, SendAt DEF Sends
        <4> QED
          BY <3>2, <4>1 DEF Answered, AgreementSent, Holds, SentAt
      <3>4. /\ ~AgreementInHand(r, p, m)' /\ ~Counted(r, p, m)' /\ phase'[r][m] # "held"
        BY <2>0, <3>2 DEF Answered, AgreementInHand, HeldInHand, InHand, Counted, mutexVars
      <3> QED
        BY <3>3, <3>4 DEF PassedOn, HoldsMutexOf
    <2>3. ASSUME NEW r \in OtherProcesses(p), r # q, AnnouncedAt(r, q, c, t)'
          PROVE  FALSE
      <3>1. /\ r \in Process /\ q \in OtherProcesses(r) /\ p \in OtherProcesses(r) /\ r # p
            /\ clock[p] \in Nat
        BY <1>0, <2>3, ProcessFacts
      <3>2. ~Wait(r, c)
        <4>1. phase[r][m] # "held"
          BY <1>0, <2>0, <3>1, HolderHasNotAgreed DEF HoldsMutexOf
        <4> QED
          BY <4>1 DEF Wait, HoldsMutexOf
      <3>3. AnnouncedAt(r, q, c, t)
        BY <2>3, <3>1, <3>2, AnnouncedEffect
      <3>4. t < clock[p]
        BY <2>0, <3>1, <3>3 DEF TakenInv, AnnouncedInTurn, PassedOn
      <3> QED
        BY <1>2, <3>1, <3>4
    <2> QED
      BY <1>0, <2>1, <2>2, <2>3
  <1> QED
    BY <1>1, <1>2, AnnouncedEffect

LEMMA TakenInvInit == CondInit => TakenInv
  <1> SUFFICES ASSUME CondInit
               PROVE  TakenInv
    OBVIOUS
  <1>1. /\ \A p, q \in Process : chan[p][q] = <<>>
        /\ \A p \in Process : recv[p] = NoPacket
        /\ \A p \in Process : \A c \in CondName : conditionalWaits[p][c] = {}
    BY DEF CondInit, Init, CommInit
  <1>2. \A p, q \in Process : \A i : i \notin 1 .. Len(chan[p][q])
    BY <1>1
  <1>3. ASSUME NEW p \in Process, NEW q \in OtherProcesses(p), NEW c \in CondName, NEW t
        PROVE  ~AnnouncedAt(p, q, c, t)
    <2>1. q \in Process
      BY ProcessFacts
    <2> QED
      BY <1>1, <1>2, <2>1 DEF AnnouncedAt, CarriedAt, SentAt, HeldInHand, InHand
  <1> QED
    BY <1>1, <1>3 DEF TakenInv, AnnouncedInTurn, StampedInTurn

LEMMA TakenInvStep == CondInv /\ TakenInv /\ [CondNext]_allCondVars => TakenInv'
  BY AnnouncedStep, StampedStep DEF TakenInv

LEMMA TakenFromInv == CondInv /\ TakenInv => EveryWaiterTaken
  <1> SUFFICES ASSUME CondInv, TakenInv, NEW q \in Process, InHand(q, "COND_WAIT"),
                      NEW w \in conditionalWaits[q][recv[q].message],
                      w.lamportTime = recv[q].lamportTime
               PROVE  FALSE
    BY DEF EveryWaiterTaken
  <1> DEFINE p == recv[q].source
             c == recv[q].message
             r == w.source
             t == w.lamportTime
  <1>1. /\ p \in Process /\ q \in OtherProcesses(p) /\ c \in CondName
        /\ HeldInHand(q, p, "COND_WAIT", c)
        /\ Underway(p, q, "COND_WAIT", c)
    BY HandFacts DEF CondType
  <1>2. recv[q] # NoPacket /\ w \in Waiter /\ r \in OtherProcesses(q)
    BY <1>1 DEF InHand, CondInv, CondTypeOK, OwnTables
  <1>3. w = [lamportTime |-> t, source |-> r] /\ t \in Nat
    BY <1>2 DEF Waiter
  <1>4. CASE Optimized
    <2>1. t < t
      BY <1>1, <1>2, <1>4 DEF TakenInv, StampedInTurn
    <2> QED
      BY <1>3, <2>1
  <1>5. CASE ~Optimized
    <2>1. r \in Process /\ r \in OtherProcesses(p)
      <3>1. r # p
        BY <1>1 DEF CondInv, WaitInv, Announced, Listed
      <3> QED
        BY <1>1, <1>2, <3>1, ProcessFacts
    <2>2. AnnouncedAt(p, q, c, t) /\ AnnouncedAt(r, q, c, t) /\ r # q
      BY <1>1, <1>2, <1>3, ProcessFacts DEF AnnouncedAt, CarriedAt
    <2>3. AnnouncedInTurn(p, q, c, t)
      BY <1>1, <1>3, <1>5 DEF TakenInv
    <2> HIDE DEF p, c, r, t
    <2> QED
      BY <2>1, <2>2, <2>3 DEF AnnouncedInTurn
  <1> QED
    BY <1>4, <1>5

(* No waiter is dropped from a table because another one has its time, with  *)
(* either communicator.                                                      *)
THEOREM WaitersTaken == CondSpec => []EveryWaiterTaken
  <1>1. CondInit => CondInv /\ TakenInv
    BY CondInvInit, TakenInvInit
  <1>2. CondInv /\ TakenInv /\ [CondNext]_allCondVars => (CondInv /\ TakenInv)'
    BY CondInvStep, TakenInvStep
  <1>3. CondInv /\ TakenInv => EveryWaiterTaken
    BY TakenFromInv
  <1> QED
    BY <1>1, <1>2, <1>3, PTL DEF CondSpec

-----------------------------------------------------------------------------
(* Two processes: erasing a whole table on COND_WAIT_END erases nobody else. *)

(* Inductive together with CondInv for two processes. *)
KnownInv ==
  \A p \in Process : \A q \in OtherProcesses(p) : \A c \in CondName :
    waiting[p][c] \in {"inside", "woken"} => Underway(p, q, "COND_WAIT", c) \/ Listed(p, q, c)

LEMMA TheOther ==
  ASSUME NumberOfProcesses = 2, NEW p \in Process, NEW q \in OtherProcesses(p),
         NEW s \in OtherProcesses(q)
  PROVE  s = p
  BY DEF Process, OtherProcesses

LEMMA StageEffect ==
  ASSUME CondInv, [CondNext]_allCondVars, NEW p \in Process, NEW c \in CondName,
         waiting'[p][c] \in {"inside", "woken"}
  PROVE  waiting[p][c] \in {"inside", "woken"} \/ Wait(p, c)
  <1>0. waiting \in [Process -> [CondName -> WaitStage]]
    BY DEF CondInv, CondTypeOK
  <1>1. ASSUME NEW r \in Process, NEW d \in CondName, Wait(r, d), ~Wait(p, c)
        PROVE  waiting'[p][c] = waiting[p][c]
    BY <1>0, <1>1 DEF Wait, SetWaiting
  <1>2. ASSUME NEW r \in Process, NEW d \in CondName,
               WakeSpuriously(r, d) \/ Relock(r, d)
        PROVE  waiting'[p][c] = waiting[p][c] \/ waiting[p][c] \in {"inside", "woken"}
    <2>1. waiting[r][d] \in {"inside", "woken"}
      BY <1>2 DEF WakeSpuriously, Blocked, Relock
    <2>2. \E stage : waiting' = [waiting EXCEPT ![r][d] = stage]
      BY <1>2 DEF WakeSpuriously, Relock, SetWaiting
    <2> QED
      BY <1>0, <2>1, <2>2
  <1>3. ASSUME NEW r \in Process, NEW d \in CondName, EndWait(r, d) \/ Confirmed(r, d)
        PROVE  waiting'[p][c] = waiting[p][c]
    <2>1. PICK stage \in {"out", "confirming"} : waiting' = [waiting EXCEPT ![r][d] = stage]
      BY <1>3 DEF EndWait, Confirmed, SetWaiting
    <2>2. waiting'[p][c] = IF p = r /\ c = d THEN stage ELSE waiting[p][c]
      BY <1>0, <2>1
    <2> QED
      BY <2>1, <2>2
  <1>4. ASSUME NEW r \in Process, Notified(r)
        PROVE  waiting'[p][c] = waiting[p][c] \/ waiting[p][c] = "inside"
    <2> DEFINE d == recv[r].message
    <2>1. waiting' = IF Blocked(r, d) THEN [waiting EXCEPT ![r][d] = "woken"] ELSE waiting
      BY <1>4 DEF Notified
    <2>2. Blocked(r, d) => waiting[r][d] = "inside"
      BY DEF Blocked
    <2> HIDE DEF d
    <2> QED
      BY <1>0, <2>1, <2>2
  <1>5. \/ UNCHANGED waiting
        \/ \E r \in Process, d \in CondName :
             \/ Wait(r, d) \/ WakeSpuriously(r, d) \/ Relock(r, d)
             \/ EndWait(r, d) \/ Confirmed(r, d)
        \/ \E r \in Process : Notified(r)
    BY DEF CondNext, allCondVars, condVars, Block, NotifyOne, NotifyAll,
           NotifyNobody, InCondCall, SendNotify,
           CondReceiver, CondCallback, ListWaiter, EraseWaiters, AddConfirmation
  <1> QED
    BY <1>1, <1>2, <1>3, <1>4, <1>5

LEMMA KnownStep ==
  ASSUME CondInv, KnownInv, [CondNext]_allCondVars, NumberOfProcesses = 2
  PROVE  KnownInv'
  <1> SUFFICES ASSUME NEW p \in Process, NEW q \in OtherProcesses(p), NEW c \in CondName,
                      waiting'[p][c] \in {"inside", "woken"}
               PROVE  Underway(p, q, "COND_WAIT", c)' \/ Listed(p, q, c)'
    BY DEF KnownInv
  <1>0. /\ q \in Process /\ p \in OtherProcesses(q) /\ CommTypeOK /\ CondTypeOK /\ IInv
        /\ Announced(p, q, c) /\ ConfirmedOnce(p, q, c)
    BY ProcessFacts DEF CondInv, CondTypeOK, TypeOK, WaitInv
  <1>1. CASE Wait(p, c)
    <2>1. PacketStep(p, OtherProcesses(p), "COND_WAIT", c)
      BY <1>1, Constants, CondAssumption DEF Wait, PacketStep, MessageType
    <2>2. Holds(chan[p][q], "COND_WAIT", c)'
      BY <1>0, <2>1, Flow
    <2> QED
      BY <2>2 DEF Underway
  <1>2. CASE waiting[p][c] \in {"inside", "woken"} /\ Listed(p, q, c)
    <2>1. ASSUME NEW r \in Process, EraseWaiters(r)
          PROVE  Listed(p, q, c)'
      <3> DEFINE n == recv[r].message
      <3>1. InHand(r, "COND_WAIT_END") /\ UNCHANGED waiting
            /\ conditionalWaits' = [conditionalWaits EXCEPT ![r][n] = {}]
        BY <2>1 DEF EraseWaiters
      <3>2. ~(r = q /\ n = c)
        <4>1. ASSUME r = q, n = c
              PROVE  FALSE
          <5>1. recv[q].source = p
            BY <1>0, <3>1, <4>1, Sender, TheOther DEF InHand
          <5>2. Underway(p, q, "COND_WAIT_END", c)
            BY <3>1, <4>1, <5>1 DEF Underway, HeldInHand
          <5> QED
            BY <1>0, <1>2, <5>2 DEF ConfirmedOnce
        <4> QED
          BY <4>1
      <3> HIDE DEF n
      <3>3. conditionalWaits'[q][c] = conditionalWaits[q][c]
        BY <1>0, <3>1, <3>2 DEF CondTypeOK
      <3> QED
        BY <1>2, <3>3 DEF Listed
    <2>2. ASSUME NEW r \in Process, ListWaiter(r)
          PROVE  Listed(p, q, c)'
      <3>1. PICK packet \in Received(r) :
              LET d == packet.message
                  v == [lamportTime |-> packet.lamportTime, source |-> packet.source]
                  taken == \E x \in conditionalWaits[r][d] : x.lamportTime = v.lamportTime
              IN  conditionalWaits' =
                    [conditionalWaits EXCEPT ![r][d] = IF taken THEN @ ELSE @ \cup {v}]
        BY <2>2 DEF ListWaiter
      <3> DEFINE d == packet.message
                 v == [lamportTime |-> packet.lamportTime, source |-> packet.source]
                 taken == \E x \in conditionalWaits[r][d] : x.lamportTime = v.lamportTime
                 T == IF taken THEN conditionalWaits[r][d] ELSE conditionalWaits[r][d] \cup {v}
      <3>2. conditionalWaits' = [conditionalWaits EXCEPT ![r][d] = T]
        BY <3>1
      <3>3. conditionalWaits[r][d] \subseteq T
        OBVIOUS
      <3> HIDE DEF T, d
      <3>4. conditionalWaits[q][c] \subseteq conditionalWaits'[q][c]
        BY <1>0, <3>2, <3>3 DEF CondTypeOK
      <3> QED
        BY <1>2, <3>4 DEF Listed
    <2>3. \/ UNCHANGED conditionalWaits
          \/ \E r \in Process : EraseWaiters(r) \/ ListWaiter(r)
      BY DEF CondNext, allCondVars, condVars, Wait, Block, WakeSpuriously, NotifyOne, NotifyAll,
             NotifyNobody, InCondCall, Relock, EndWait, Confirmed, SendNotify,
             CondReceiver, CondCallback, Notified, AddConfirmation
    <2>4. UNCHANGED conditionalWaits => Listed(p, q, c)'
      BY <1>2 DEF Listed
    <2> QED
      BY <2>1, <2>2, <2>3, <2>4
  <1>3. CASE waiting[p][c] \in {"inside", "woken"} /\ Underway(p, q, "COND_WAIT", c)
    <2>1. ASSUME HeldInHand(q, p, "COND_WAIT", c), ListWaiter(q)
          PROVE  Listed(p, q, c)'
      <3>1. PICK packet \in Received(q) :
              LET d == packet.message
                  v == [lamportTime |-> packet.lamportTime, source |-> packet.source]
                  taken == \E x \in conditionalWaits[q][d] : x.lamportTime = v.lamportTime
              IN  conditionalWaits' =
                    [conditionalWaits EXCEPT ![q][d] = IF taken THEN @ ELSE @ \cup {v}]
        BY <2>1 DEF ListWaiter
      <3> DEFINE v == [lamportTime |-> packet.lamportTime, source |-> packet.source]
      <3>2. packet.source = p /\ packet.message = c
        BY <1>0, <2>1, ReceivedFacts DEF HeldInHand, InHand
      <3>3. conditionalWaits[q][c] = {}
        <4>1. ~Listed(p, q, c)
          BY <1>0, <1>3 DEF Announced
        <4>2. \A w \in conditionalWaits[q][c] : w.source = p
          BY <1>0, TheOther DEF CondInv, OwnTables
        <4> QED
          BY <4>1, <4>2 DEF Listed
      <3>4. conditionalWaits' = [conditionalWaits EXCEPT ![q][c] = {} \cup {v}]
        BY <3>1, <3>2, <3>3
      <3>5. v.source = p
        BY <3>2
      <3> HIDE DEF v
      <3>6. v \in conditionalWaits'[q][c]
        BY <1>0, <3>4 DEF CondTypeOK
      <3> QED
        BY <3>5, <3>6 DEF Listed
    <2>2. HeldInHand(q, p, "COND_WAIT", c) => recv'[q] = recv[q] \/ ListWaiter(q)
      <3> SUFFICES ASSUME HeldInHand(q, p, "COND_WAIT", c)
                   PROVE  recv'[q] = recv[q] \/ ListWaiter(q)
        OBVIOUS
      <3>0. recv[q] # NoPacket /\ recv[q].messageType = "COND_WAIT"
        BY DEF HeldInHand, InHand
      <3>1. ASSUME [Next]_vars
            PROVE  recv'[q] = recv[q]
        <4>1. ASSUME NEW r \in Process, NEW s \in OtherProcesses(r), Receive(r, s)
              PROVE  recv'[q] = recv[q]
          BY <1>0, <3>0, <4>1, ReceiveEffect, ProcessFacts
        <4>2. ASSUME NEW r \in Process, NEW R, NEW type, NEW msg, PacketStep(r, R, type, msg),
                     recv[r].messageType \in MutexType \/ UNCHANGED recv
              PROVE  recv'[q] = recv[q]
          BY <1>0, <3>0, <4>2 DEF PacketStep, Dispatched, CommTypeOK, MutexType
        <4> QED
          BY <1>0, <3>1, <4>1, <4>2, MutexEffect
      <3>2. ASSUME NEW r \in Process, CondCallback(r)
            PROVE  recv'[q] = recv[q] \/ ListWaiter(q)
        BY <1>0, <3>0, <3>2
           DEF CondCallback, ListWaiter, EraseWaiters, Notified, AddConfirmation,
               InHand, Dispatched, CommTypeOK
      <3>3. ASSUME NEW r \in Process, NEW d \in CondName,
                   \/ Wait(r, d) \/ Block(r, d) \/ WakeSpuriously(r, d)
                   \/ NotifyOne(r, d) \/ NotifyAll(r, d) \/ NotifyNobody(r, d)
                   \/ InCondCall(r, d)
            PROVE  UNCHANGED recv
        BY <3>3 DEF Wait, Block, Unlock, WakeSpuriously, NotifyOne, NotifyAll, NotifyNobody,
                    InCondCall, Relock, Subscribe, EndWait, Confirmed, SendNotify, vars, commVars
      <3>4. ASSUME NEW r \in Process,
                   Receiver(r) \/ \E m \in MutexName : \/ Subscribe(r, m) \/ Unlock(r, m)
                                                       \/ InCall(r, m)
            PROVE  [Next]_vars
        BY <3>4 DEF Next
      <3>5. UNCHANGED allCondVars => [Next]_vars
        BY DEF allCondVars
      <3> QED
        BY <3>1, <3>2, <3>3, <3>4, <3>5 DEF CondNext, CondReceiver
    <2>3. CASE HeldInHand(q, p, "COND_WAIT", c)
      <3>1. recv'[q] = recv[q] => HeldInHand(q, p, "COND_WAIT", c)'
        BY <2>3 DEF HeldInHand, InHand
      <3> QED
        BY <2>1, <2>2, <2>3, <3>1 DEF Underway
    <2>4. CASE Holds(chan[p][q], "COND_WAIT", c)
      <3>1. ASSUME NEW r \in Process, NEW s \in OtherProcesses(r), Receive(r, s)
            PROVE  Underway(p, q, "COND_WAIT", c)'
        BY <1>0, <1>3, <3>1, FlowReceive
      <3>2. ASSUME NEW r \in Process, NEW R, NEW type, NEW msg, PacketStep(r, R, type, msg)
            PROVE  Underway(p, q, "COND_WAIT", c)'
        <4>1. Holds(chan[p][q], "COND_WAIT", c)'
          BY <1>0, <2>4, <3>2, Flow
        <4> QED
          BY <4>1 DEF Underway
      <3> QED
        BY <3>1, <3>2, CondEffect
    <2> QED
      BY <1>3, <2>3, <2>4 DEF Underway
  <1>4. Wait(p, c) \/ waiting[p][c] \in {"inside", "woken"}
    BY StageEffect
  <1> QED
    BY <1>1, <1>2, <1>3, <1>4 DEF KnownInv

LEMMA FindsFromInv == CondInv /\ KnownInv => NotifyFindsWaiter
  <1> SUFFICES ASSUME CondInv, KnownInv, NEW p \in Process, NEW q \in Process, p # q,
                      NEW c \in CondName, Blocked(p, c), HoldsMutexOf(q, c)
               PROVE  conditionalWaits[q][c] # {}
    BY DEF NotifyFindsWaiter
  <1>1. q \in OtherProcesses(p)
    BY ProcessFacts
  <1>2. ~Underway(p, q, "COND_WAIT", c)
    BY <1>1 DEF CondInv, WaitInv, SentHolding, HoldsMutexOf
  <1>3. Listed(p, q, c)
    BY <1>1, <1>2 DEF KnownInv, Blocked
  <1> QED
    BY <1>3 DEF Listed

(* With two processes, notifyOne() called with the mutex held never misses a *)
(* process that is blocked in wait().                                        *)
THEOREM FindsWaiter ==
  ASSUME NumberOfProcesses = 2
  PROVE  CondSpec => []NotifyFindsWaiter
  <1>1. CondInit => CondInv /\ KnownInv
    <2>1. ASSUME CondInit
          PROVE  KnownInv
      BY <2>1 DEF CondInit, KnownInv
    <2> QED
      BY <2>1, CondInvInit
  <1>2. CondInv /\ KnownInv /\ [CondNext]_allCondVars => (CondInv /\ KnownInv)'
    BY CondInvStep, KnownStep
  <1>3. CondInv /\ KnownInv => NotifyFindsWaiter
    BY FindsFromInv
  <1> QED
    BY <1>1, <1>2, <1>3, PTL DEF CondSpec
=============================================================================
