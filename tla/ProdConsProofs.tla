---------------------------- MODULE ProdConsProofs ----------------------------
(***************************************************************************)
(* Theorems about the distributed programs: what their entries do to the   *)
(* ring, for every capacity; that monitor and condition variables keep     *)
(* their invariants on top of one exclusion algorithm, for every number of *)
(* processes; and that with two processes a program is a set of bounded    *)
(* buffers.                                                                *)
(***************************************************************************)
EXTENDS ProdCons, DistributedMonitorProofs, ConditionVariableProofs, SequenceTheorems

LEMMA IndexFacts ==
  /\ Capacity \in Nat /\ Capacity > 0
  /\ \A i : i \in Index <=> i \in Nat /\ i < Capacity
  BY RingAssumption DEF Index

(* % on the sums that occur here. *)
LEMMA Wrap ==
  \A i \in Nat : i < Capacity + Capacity =>
    i % Capacity = IF i < Capacity THEN i ELSE i - Capacity
  BY IndexFacts

(* restoreState() makes of what saveState() returns the same variables: the  *)
(* three chars and the array find their places, whatever MAX_QUEUE_SIZE is.  *)
THEOREM RestoreSaved ==
  ASSUME NEW r \in Ring
  PROVE  Restore(Save(r)) = r
  <1>1. \A i \in Index : Save(r)[i + Header + 1] = r.buffer[i]
    BY IndexFacts DEF Save, Header
  <1>2. Save(r)[1] = r.getIndex /\ Save(r)[2] = r.putIndex /\ Save(r)[3] = r.count
    BY IndexFacts DEF Save, Header
  <1>3. r = [getIndex |-> r.getIndex, putIndex |-> r.putIndex, count |-> r.count,
             buffer |-> r.buffer]
    BY DEF Ring
  <1>4. r.buffer = [i \in Index |-> Save(r)[i + Header + 1]]
    <2>1. r.buffer \in [Index -> Item]
      BY DEF Ring
    <2>2. r.buffer = [i \in Index |-> r.buffer[i]]
      BY <2>1
    <2> QED
      BY <1>1, <2>2
  <1> QED
    BY <1>2, <1>3, <1>4 DEF Restore

(* A new monitor's ring is empty. *)
LEMMA EmptyRingContent ==
  EmptyRing \in Ring /\ Linked(EmptyRing) /\ Content(EmptyRing) = <<>>
  <1>1. 0 % Capacity = 0
    BY IndexFacts, Wrap
  <1> QED
    BY <1>1, IndexFacts, RingAssumption DEF EmptyRing, Ring, Linked, Content

LEMMA ContentLength ==
  ASSUME NEW r \in Ring
  PROVE  Content(r) \in Seq(Item) /\ Len(Content(r)) = r.count
  <1>1. /\ r.getIndex \in Nat /\ r.getIndex < Capacity
        /\ r.count \in Nat /\ r.count <= Capacity
        /\ r.buffer \in [Index -> Item]
    BY IndexFacts DEF Ring
  <1>2. \A i \in 1 .. r.count : r.buffer[(r.getIndex + i - 1) % Capacity] \in Item
    BY <1>1, IndexFacts, Wrap
  <1> QED
    BY <1>1, <1>2 DEF Content

(* A ring that is not full stands, after produce(), for the queue with the   *)
(* item at its end, and putIndex is again where the next one belongs.        *)
THEOREM PushAppends ==
  ASSUME NEW r \in Ring, Linked(r), ~IsFull(r), NEW item \in Item
  PROVE  /\ Push(r, item) \in Ring
         /\ Linked(Push(r, item))
         /\ Content(Push(r, item)) = Append(Content(r), item)
  <1>1. /\ r.getIndex \in Nat /\ r.getIndex < Capacity
        /\ r.putIndex \in Nat /\ r.putIndex < Capacity
        /\ r.count \in Nat /\ r.count < Capacity
        /\ r.buffer \in [Index -> Item]
    BY IndexFacts DEF Ring, IsFull
  <1>2. r.putIndex = IF r.getIndex + r.count < Capacity
                     THEN r.getIndex + r.count ELSE r.getIndex + r.count - Capacity
    <2> DEFINE n == r.getIndex + r.count
    <2>1. n \in Nat /\ n < Capacity + Capacity
      BY <1>1, IndexFacts
    <2>2. n % Capacity = IF n < Capacity THEN n ELSE n - Capacity
      BY <2>1, Wrap
    <2>3. r.putIndex = n % Capacity
      BY DEF Linked
    <2> QED
      BY <1>1, <2>1, <2>2, <2>3, IndexFacts
  <1> DEFINE s == Push(r, item)
  <1>3. /\ s.getIndex = r.getIndex /\ s.count = r.count + 1
        /\ s.putIndex = After(r.putIndex)
        /\ s.buffer = [r.buffer EXCEPT ![r.putIndex] = item]
    BY DEF Push
  <1>4. s.putIndex = IF r.putIndex + 1 < Capacity THEN r.putIndex + 1 ELSE 0
    BY <1>1, <1>3, IndexFacts, Wrap DEF After
  <1>5. s \in Ring
    BY <1>1, <1>4, IndexFacts DEF Ring, Push
  <1>6. Linked(s)
    <2> DEFINE n == r.getIndex + (r.count + 1)
    <2>1. n \in Nat /\ n < Capacity + Capacity
      BY <1>1, IndexFacts
    <2>2. n % Capacity = IF n < Capacity THEN n ELSE n - Capacity
      BY <2>1, Wrap
    <2>3. s.putIndex = n % Capacity
      BY <1>1, <1>2, <1>4, <2>2, IndexFacts
    <2> QED
      BY <1>3, <2>3 DEF Linked
  <1>7. Content(s) = Append(Content(r), item)
    <2>1. Content(r) \in Seq(Item) /\ Len(Content(r)) = r.count
      BY ContentLength
    <2>2. \A i \in 1 .. r.count :
            s.buffer[(r.getIndex + i - 1) % Capacity] = r.buffer[(r.getIndex + i - 1) % Capacity]
      <3> SUFFICES ASSUME NEW i \in 1 .. r.count
                   PROVE  (r.getIndex + i - 1) % Capacity # r.putIndex
        BY <1>1, <1>3, IndexFacts, Wrap
      <3> DEFINE n == r.getIndex + i - 1
      <3>1. n \in Nat /\ n < Capacity + Capacity
        BY <1>1, IndexFacts
      <3>2. n % Capacity = IF n < Capacity THEN n ELSE n - Capacity
        BY <3>1, Wrap
      <3> QED
        BY <1>1, <1>2, <3>2, IndexFacts
    <2>3. s.buffer[(r.getIndex + (r.count + 1) - 1) % Capacity] = item
      <3>1. (r.getIndex + (r.count + 1) - 1) % Capacity = r.putIndex
        BY <1>1 DEF Linked
      <3> QED
        BY <1>1, <1>3, <3>1, IndexFacts
    <2>4. \A i \in 1 .. r.count + 1 : Content(s)[i] = Append(Content(r), item)[i]
      <3> TAKE i \in 1 .. r.count + 1
      <3>0. Content(s)[i] = s.buffer[(r.getIndex + i - 1) % Capacity]
        BY <1>3 DEF Content
      <3>1. CASE i = r.count + 1
        BY <1>1, <2>1, <2>3, <3>0, <3>1
      <3>2. CASE i \in 1 .. r.count
        <4>1. Content(r)[i] = r.buffer[(r.getIndex + i - 1) % Capacity]
          BY <3>2 DEF Content
        <4>2. Append(Content(r), item)[i] = Content(r)[i]
          BY <2>1, <3>2
        <4> QED
          BY <2>2, <3>0, <3>2, <4>1, <4>2
      <3>3. i = r.count + 1 \/ i \in 1 .. r.count
        BY <1>1
      <3> QED
        BY <3>1, <3>2, <3>3
    <2>5. Content(s) = [i \in 1 .. r.count + 1 |-> s.buffer[(r.getIndex + i - 1) % Capacity]]
      BY <1>3 DEF Content
    <2>6. /\ Append(Content(r), item) \in Seq(Item)
          /\ Len(Append(Content(r), item)) = r.count + 1
      BY <2>1
    <2>7. Append(Content(r), item) =
            [i \in 1 .. r.count + 1 |-> Append(Content(r), item)[i]]
      <3>1. \A q \in Seq(Item) : q = [i \in 1 .. Len(q) |-> q[i]]
        OBVIOUS
      <3> QED
        BY <2>6, <3>1
    <2>8. Content(s) = [i \in 1 .. r.count + 1 |-> Content(s)[i]]
      BY <2>5
    <2> QED
      BY <2>4, <2>7, <2>8
  <1> QED
    BY <1>5, <1>6, <1>7

(* From a ring that is not empty consume() takes the first item of the queue *)
(* and leaves the rest.                                                      *)
THEOREM PopTakesFirst ==
  ASSUME NEW r \in Ring, Linked(r), ~IsEmpty(r)
  PROVE  /\ Pop(r) \in Ring
         /\ Linked(Pop(r))
         /\ Front(r) = Head(Content(r))
         /\ Content(Pop(r)) = Tail(Content(r))
  <1>1. /\ r.getIndex \in Nat /\ r.getIndex < Capacity
        /\ r.putIndex \in Nat /\ r.putIndex < Capacity
        /\ r.count \in Nat /\ r.count > 0 /\ r.count <= Capacity
        /\ r.buffer \in [Index -> Item]
    BY IndexFacts DEF Ring, IsEmpty
  <1> DEFINE s == Pop(r)
  <1>2. /\ s.getIndex = After(r.getIndex) /\ s.count = r.count - 1
        /\ s.putIndex = r.putIndex /\ s.buffer = r.buffer
    BY DEF Pop
  <1>3. s.getIndex = IF r.getIndex + 1 < Capacity THEN r.getIndex + 1 ELSE 0
    <2>1. r.getIndex + 1 \in Nat /\ r.getIndex + 1 < Capacity + Capacity
      BY <1>1, IndexFacts
    <2> QED
      BY <1>1, <1>2, <2>1, Wrap, IndexFacts DEF After
  <1>4. s \in Ring
    BY <1>1, <1>3, IndexFacts DEF Ring, Pop
  (* The item at i in the shorter queue is the one at i + 1 in the longer one. *)
  <1>5. \A i \in Nat : i < Capacity =>
          (s.getIndex + i) % Capacity = (r.getIndex + (i + 1)) % Capacity
    <2> TAKE i \in Nat
    <2> HAVE i < Capacity
    <2> DEFINE n == r.getIndex + (i + 1)
    <2> DEFINE k == s.getIndex + i
    <2>1. n \in Nat /\ n < Capacity + Capacity /\ k \in Nat /\ k < Capacity + Capacity
      BY <1>1, <1>3, IndexFacts
    <2>2. n % Capacity = IF n < Capacity THEN n ELSE n - Capacity
      BY <2>1, Wrap
    <2>3. k % Capacity = IF k < Capacity THEN k ELSE k - Capacity
      BY <2>1, Wrap
    <2>4. k = IF r.getIndex + 1 < Capacity THEN n ELSE i
      BY <1>1, <1>3
    <2>5. n % Capacity = k % Capacity
      BY <1>1, <2>1, <2>2, <2>3, <2>4, IndexFacts
    <2> QED
      BY <2>5
  <1>6. Linked(s)
    <2>1. s.count \in Nat /\ s.count < Capacity /\ s.count + 1 = r.count
      BY <1>1, <1>2, IndexFacts
    <2>2. (s.getIndex + s.count) % Capacity = (r.getIndex + r.count) % Capacity
      BY <1>5, <2>1
    <2> QED
      BY <1>2, <2>2 DEF Linked
  <1>7. Content(r) \in Seq(Item) /\ Len(Content(r)) = r.count
    BY ContentLength
  <1>8. Front(r) = Head(Content(r))
    <2>1. r.getIndex % Capacity = r.getIndex
      BY <1>1, Wrap, IndexFacts
    <2>2. Content(r)[1] = r.buffer[r.getIndex]
      BY <1>1, <2>1 DEF Content
    <2> QED
      BY <1>1, <1>7, <2>2 DEF Front
  <1>9. Content(s) = Tail(Content(r))
    <2>1. Content(s) = [i \in 1 .. r.count - 1 |-> r.buffer[(s.getIndex + i - 1) % Capacity]]
      BY <1>2 DEF Content
    <2>2. Tail(Content(r)) = [i \in 1 .. r.count - 1 |-> Content(r)[i + 1]]
      <3>1. Content(r) # <<>>
        BY <1>1, <1>7
      <3>2. /\ Tail(Content(r)) \in Seq(Item)
            /\ Len(Tail(Content(r))) = r.count - 1
            /\ \A i \in 1 .. r.count - 1 : Tail(Content(r))[i] = Content(r)[i + 1]
        BY <1>1, <1>7, <3>1, HeadTailProperties
      <3>3. \A q \in Seq(Item) : q = [i \in 1 .. Len(q) |-> q[i]]
        OBVIOUS
      <3> QED
        BY <3>2, <3>3
    <2>3. \A i \in 1 .. r.count - 1 :
            Content(r)[i + 1] = r.buffer[(s.getIndex + i - 1) % Capacity]
      <3> TAKE i \in 1 .. r.count - 1
      <3>1. Content(r)[i + 1] = r.buffer[(r.getIndex + (i + 1) - 1) % Capacity]
        BY <1>1 DEF Content
      <3>2. i - 1 \in Nat /\ i - 1 < Capacity
        BY <1>1, IndexFacts
      <3>3. (s.getIndex + (i - 1)) % Capacity = (r.getIndex + ((i - 1) + 1)) % Capacity
        BY <1>5, <3>2
      <3>4. s.getIndex + (i - 1) = s.getIndex + i - 1
        BY <1>1, <1>3, IndexFacts
      <3>5. r.getIndex + ((i - 1) + 1) = r.getIndex + (i + 1) - 1
        BY <1>1
      <3> QED
        BY <3>1, <3>3, <3>4, <3>5
    <2> QED
      BY <2>1, <2>2, <2>3
  <1> QED
    BY <1>4, <1>6, <1>8, <1>9

-----------------------------------------------------------------------------
(* Packets that are not the monitor's. *)

(* A step of another component, as the channels of the monitor see it. *)
LEMMA OtherSync ==
  ASSUME CommTypeOK, NEW r \in Process, NEW R, NEW type, NEW msg,
         PacketStep(r, R, type, msg), type # "SYNC",
         NEW p \in Process, NEW q \in Process, NEW m
  PROVE  /\ SyncSent(p, q, m)' <=> SyncSent(p, q, m)
         /\ SyncFirst(chan[q][p], m) => SyncFirst(chan[q][p], m)'
         /\ \A v : LastSync(chan[q][p], m, v) => LastSync(chan'[q][p], m, v)
         /\ SyncInHand(p, q, m)' => SyncInHand(p, q, m)
         /\ AgreementInHand(p, q, m)' => AgreementInHand(p, q, m)
         /\ recv[r].messageType # "SYNC" \/ UNCHANGED recv =>
              /\ SyncInHand(p, q, m)' <=> SyncInHand(p, q, m)
              /\ SyncInHand(p, q, m) => recv'[p] = recv[p]
  <1>1. /\ SyncSent(p, q, m)' <=> SyncSent(p, q, m)
        /\ SyncFirst(chan[q][p], m) => SyncFirst(chan[q][p], m)'
        /\ \A v : LastSync(chan[q][p], m, v) => LastSync(chan'[q][p], m, v)
    <2>1. CASE UNCHANGED chan
      BY <2>1 DEF SyncSent
    <2>2. CASE /\ R \in SUBSET Process /\ type \in MessageType /\ msg \in Message
               /\ Send(r, R, type, msg)
      <3>1. \A v : LastSync(chan[q][p], m, v) => LastSync(chan'[q][p], m, v)
        BY <2>2, OtherSendLast
      <3> QED
        BY <2>2, <3>1, OtherSend
    <2> QED
      BY <2>1, <2>2 DEF PacketStep
  <1>2. CASE UNCHANGED recv
    BY <1>1, <1>2 DEF SyncInHand, IsSync, AgreementInHand, HeldInHand, InHand
  <1>3. CASE Dispatched(r)
    <2>1. /\ SyncInHand(p, q, m)' => SyncInHand(p, q, m)
          /\ AgreementInHand(p, q, m)' => AgreementInHand(p, q, m)
      BY <1>3, Done
    <2>2. recv[r].messageType # "SYNC" =>
            /\ SyncInHand(p, q, m)' <=> SyncInHand(p, q, m)
            /\ SyncInHand(p, q, m) => recv'[p] = recv[p]
      BY <1>3, DoneNotSync
    <2>3. UNCHANGED recv =>
            /\ SyncInHand(p, q, m)' <=> SyncInHand(p, q, m)
            /\ SyncInHand(p, q, m) => recv'[p] = recv[p]
      BY DEF SyncInHand, IsSync
    <2> QED
      BY <1>1, <2>1, <2>2, <2>3
  <1> QED
    BY <1>1, <1>2, <1>3 DEF PacketStep

LEMMA OtherMonitor ==
  ASSUME MonitorInv, NEW r \in Process, NEW R, NEW type, NEW msg,
         OtherComponent(r, R, type, msg), type # "SYNC", UNCHANGED monitorVars
  PROVE  MonitorInv'
  <1>0. /\ IInv /\ MonitorTypeOK /\ SyncPackets /\ SyncInv /\ CommTypeOK
        /\ PacketStep(r, R, type, msg) /\ UNCHANGED mutexVars
    BY DEF MonitorInv, IInv, TypeOK, OtherComponent
  <1>1. IInv'
    BY <1>0, OtherStep
  <1>2. MonitorTypeOK'
    BY <1>0, <1>1 DEF MonitorTypeOK, IInv, monitorVars
  <1>3. SyncPackets'
    <2>1. \A p, q \in Process : \A i \in 1 .. Len(chan'[p][q]) :
            chan'[p][q][i].messageType = "SYNC" => chan'[p][q][i].message \in SyncMessage
      <3>1. CASE UNCHANGED chan
        BY <1>0, <3>1 DEF SyncPackets
      <3>2. CASE /\ R \in SUBSET Process /\ type \in MessageType /\ msg \in Message
                 /\ Send(r, R, type, msg)
        BY <1>0, <3>2, SendPackets
      <3> QED
        BY <1>0, <3>1, <3>2 DEF PacketStep
    <2>2. \A p \in Process : recv'[p] # NoPacket => recv'[p] = recv[p]
      BY <1>0 DEF PacketStep, Dispatched, CommTypeOK
    <2> QED
      BY <1>0, <2>1, <2>2 DEF SyncPackets, InHand
  <1>4. ASSUME NEW p \in Process, NEW q \in OtherProcesses(p), NEW m \in MutexName
        PROVE  SyncBeforeAgreement(p, q, m)'
    <2>1. q \in Process /\ SyncBeforeAgreement(p, q, m)
      BY <1>0, ProcessFacts DEF SyncInv
    <2>2. /\ SyncFirst(chan[q][p], m)'
          /\ SyncSent(p, q, m)' => SyncSent(p, q, m)
          /\ SyncInHand(p, q, m)' => SyncInHand(p, q, m)
          /\ AgreementInHand(p, q, m)' => AgreementInHand(p, q, m)
      BY <1>0, <2>1, OtherSync DEF SyncBeforeAgreement
    <2>3. Counted(p, q, m)' <=> Counted(p, q, m)
      BY <1>0 DEF Counted, mutexVars
    <2> QED
      BY <1>0, <2>1, <2>2, <2>3, Keeps DEF mutexVars
  <1> QED
    BY <1>1, <1>2, <1>3, <1>4, ProcessFacts DEF MonitorInv, SyncInv

LEMMA OtherLatest ==
  ASSUME MonitorInv, LatestInv, NEW r \in Process, NEW R, NEW type, NEW msg,
         OtherComponent(r, R, type, msg), type # "SYNC",
         recv[r].messageType # "SYNC" \/ UNCHANGED recv, UNCHANGED monitorVars,
         NEW p \in Process, NEW q \in OtherProcesses(p), NEW m \in MutexName
  PROVE  CatchesUp(p, q, m)'
  <1>1. q \in Process /\ CatchesUp(p, q, m)
    BY ProcessFacts DEF LatestInv
  <1>2. CommTypeOK /\ PacketStep(r, R, type, msg)
    BY DEF MonitorInv, IInv, TypeOK, OtherComponent
  <1>3. /\ SyncSent(p, q, m)' <=> SyncSent(p, q, m)
        /\ LastSync(chan[q][p], m, latest[m]) => LastSync(chan'[q][p], m, latest[m])
        /\ SyncInHand(p, q, m)' <=> SyncInHand(p, q, m)
        /\ SyncInHand(p, q, m) => recv'[p] = recv[p]
    BY <1>1, <1>2, OtherSync
  <1> QED
    BY <1>1, <1>3, CatchesUpStill DEF monitorVars

(* A step of the condition variables and of the mutexes is a step of the     *)
(* exclusion algorithm, or exchanges packets that are not the monitor's.     *)
LEMMA CondParts ==
  ASSUME CondInv, [CondNext]_allCondVars
  PROVE  \/ [Next]_vars
         \/ \E r \in Process : \E R, type, msg :
              /\ OtherComponent(r, R, type, msg) /\ type # "SYNC"
              /\ recv[r].messageType # "SYNC" \/ UNCHANGED recv
  <1> DEFINE Other(r) == \E R, type, msg :
               /\ OtherComponent(r, R, type, msg) /\ type # "SYNC"
               /\ recv[r].messageType # "SYNC" \/ UNCHANGED recv
  <1>0. /\ IInv /\ CondTypeOK /\ CondPackets
        /\ CondName \subseteq Message
        /\ \A p \in Process : OtherProcesses(p) \in SUBSET Process
    BY CondAssumption, Constants DEF CondInv
  <1>1. ASSUME NEW r \in Process, NEW R \in SUBSET Process, NEW type \in CondType,
               NEW msg \in CondName, Send(r, R, type, msg), UNCHANGED <<recv, mutexVars>>
        PROVE  Other(r)
    <2>1. type \in MessageType /\ type \notin MutexType /\ type # "SYNC" /\ msg \in Message
      BY <1>0 DEF CondType, MessageType, MutexType
    <2>2. OtherComponent(r, R, type, msg)
      BY <1>1, <2>1 DEF OtherComponent, PacketStep
    <2> QED
      BY <1>1, <2>1, <2>2
  <1>2. ASSUME NEW r \in Process, NEW type \in CondType, InHand(r, type), Dispatched(r),
               UNCHANGED mutexVars,
               \/ UNCHANGED <<clock, chan>>
               \/ type = "COND_WAIT_END" /\ Send(r, {recv[r].source}, "COND_WAIT_END_CONFIRM",
                                                 recv[r].message)
        PROVE  Other(r)
    <2>1. /\ recv[r] # NoPacket /\ recv[r].messageType = type
          /\ type \notin MutexType /\ type # "SYNC"
      BY <1>2 DEF InHand, CondType, MutexType
    <2>2. recv[r].source \in Process /\ recv[r].message \in CondName
      BY <1>0, <2>1, Sender DEF CondPackets
    <2>3. CASE UNCHANGED <<clock, chan>>
      <3>1. OtherComponent(r, {}, type, recv[r].message)
        BY <1>2, <2>1, <2>3 DEF OtherComponent, PacketStep
      <3> QED
        BY <2>1, <3>1
    <2>4. CASE Send(r, {recv[r].source}, "COND_WAIT_END_CONFIRM", recv[r].message)
      <3>1. /\ {recv[r].source} \in SUBSET Process /\ recv[r].message \in Message
            /\ "COND_WAIT_END_CONFIRM" \in MessageType \ MutexType
        BY <1>0, <2>2 DEF MessageType, MutexType
      <3>2. OtherComponent(r, {recv[r].source}, "COND_WAIT_END_CONFIRM", recv[r].message)
        BY <1>2, <2>1, <2>4, <3>1 DEF OtherComponent, PacketStep
      <3> QED
        BY <2>1, <3>2
    <2> QED
      BY <1>2, <2>3, <2>4
  <1>3. ASSUME NEW r \in Process, NEW c \in CondName,
               Wait(r, c) \/ EndWait(r, c) \/ SendNotify(r, c) \/ NotifyNobody(r, c)
        PROVE  Other(r)
    <2>1. recipients[r][c] \in SUBSET Process /\ {} \in SUBSET Process
      BY <1>0 DEF CondTypeOK
    <2>2. {"COND_WAIT", "COND_WAIT_END", "COND_NOTIFY"} \subseteq CondType
      BY DEF CondType
    <2> HIDE DEF Other
    <2>3. CASE Wait(r, c)
      BY <1>0, <1>1, <2>2, <2>3 DEF Wait
    <2>4. CASE EndWait(r, c)
      BY <1>0, <1>1, <2>2, <2>4 DEF EndWait
    <2>5. CASE SendNotify(r, c)
      BY <1>1, <2>1, <2>2, <2>5 DEF SendNotify
    <2>6. CASE NotifyNobody(r, c)
      BY <1>1, <2>1, <2>2, <2>6 DEF NotifyNobody
    <2> QED
      BY <1>3, <2>3, <2>4, <2>5, <2>6
  <1>4. ASSUME NEW r \in Process, CondCallback(r)
        PROVE  Other(r)
    <2>1. CondType = {"COND_WAIT", "COND_WAIT_END", "COND_WAIT_END_CONFIRM", "COND_NOTIFY"}
      BY DEF CondType
    <2> HIDE DEF Other
    <2>2. CASE ListWaiter(r)
      BY <1>2, <2>1, <2>2 DEF ListWaiter
    <2>3. CASE EraseWaiters(r)
      BY <1>2, <2>1, <2>3 DEF EraseWaiters
    <2>4. CASE Notified(r)
      BY <1>2, <2>1, <2>4 DEF Notified
    <2>5. CASE AddConfirmation(r)
      BY <1>2, <2>1, <2>5 DEF AddConfirmation
    <2> QED
      BY <1>4, <2>2, <2>3, <2>4, <2>5 DEF CondCallback
  <1>5. ASSUME NEW r \in Process, NEW m \in MutexName,
               Subscribe(r, m) \/ Unlock(r, m) \/ InCall(r, m)
        PROVE  Next
    BY <1>5 DEF Next
  <1>6. ASSUME NEW r \in Process, NEW c \in CondName, Block(r, c) \/ Relock(r, c)
        PROVE  Next
    <2>1. MutexOf[c] \in MutexName
      BY CondAssumption
    <2> QED
      BY <1>5, <1>6, <2>1 DEF Block, Relock
  <1>7. ASSUME NEW r \in Process, NEW c \in CondName,
               WakeSpuriously(r, c) \/ NotifyOne(r, c) \/ NotifyAll(r, c) \/ Confirmed(r, c)
        PROVE  UNCHANGED vars
    BY <1>7 DEF WakeSpuriously, NotifyOne, NotifyAll, Confirmed
  <1>8. ASSUME NEW r \in Process, Receiver(r)
        PROVE  Next
    BY <1>8 DEF Next
  <1> HIDE DEF Other
  <1>9. [Next]_vars \/ \E r \in Process : Other(r)
    BY <1>3, <1>4, <1>5, <1>6, <1>7, <1>8 DEF CondNext, InCondCall, CondReceiver, allCondVars
  <1> QED
    BY <1>9 DEF Other

LEMMA CondMonitor ==
  ASSUME MonitorInv, CondInv, [CondNext]_allCondVars, UNCHANGED monitorVars
  PROVE  MonitorInv'
  <1>1. CASE [Next]_vars
    <2>1. IInv' /\ SyncPackets' /\ SyncInv'
      BY <1>1, MutexStep
    <2> QED
      BY <2>1 DEF MonitorInv, MonitorTypeOK, IInv, monitorVars
  <1> QED
    BY <1>1, CondParts, OtherMonitor

LEMMA CondLatest ==
  ASSUME MonitorInv, LatestInv, CondInv, [CondNext]_allCondVars, UNCHANGED monitorVars,
         NEW p \in Process, NEW q \in OtherProcesses(p), NEW m \in MutexName
  PROVE  CatchesUp(p, q, m)'
  <1>1. CASE [Next]_vars
    BY <1>1, MutexLatest DEF monitorVars
  <1> QED
    BY <1>1, CondParts, OtherLatest

-----------------------------------------------------------------------------
(* SYNC packets, for the condition variables. *)

Syncs(r) == RestoreState(r) \/ \E m \in MutexName : SendSync(r, m)

LEMMA SyncParts ==
  ASSUME MonitorInv, NEW r \in Process, Syncs(r)
  PROVE  \E R, msg : /\ OtherComponent(r, R, "SYNC", msg)
                     /\ UNCHANGED recv \/ InHand(r, "SYNC")
  <1>0. "SYNC" \in MessageType \ MutexType
    BY DEF MessageType, MutexType
  <1>1. CASE RestoreState(r)
    <2>1. OtherComponent(r, {}, "SYNC", "SYNC") /\ InHand(r, "SYNC")
      BY <1>0, <1>1 DEF RestoreState, OtherComponent, PacketStep, InHand
    <2> QED
      BY <2>1
  <1>2. ASSUME NEW m \in MutexName, SendSync(r, m)
        PROVE  \E R, msg : OtherComponent(r, R, "SYNC", msg) /\ UNCHANGED recv
    <2> DEFINE msg == [name |-> m, state |-> shared[r][m]]
    <2>1. msg \in Message /\ Send(r, OtherProcesses(r), "SYNC", msg) /\ UNCHANGED <<recv, mutexVars>>
      BY <1>2, SendSyncFacts DEF MonitorInv
    <2> HIDE DEF msg
    <2>2. OtherComponent(r, OtherProcesses(r), "SYNC", msg)
      BY <1>0, <2>1, SyncConstants DEF OtherComponent, PacketStep
    <2> QED
      BY <2>1, <2>2
  <1> QED
    BY <1>1, <1>2 DEF Syncs

LEMMA SyncCond ==
  ASSUME MonitorInv, CondInv, NEW r \in Process, Syncs(r), UNCHANGED condVars
  PROVE  CondInv'
  <1>1. PICK R, msg : OtherComponent(r, R, "SYNC", msg) /\ (UNCHANGED recv \/ InHand(r, "SYNC"))
    BY SyncParts
  <1>2. /\ CommTypeOK /\ PacketStep(r, R, "SYNC", msg) /\ UNCHANGED mutexVars
        /\ "SYNC" \notin CondType
    BY <1>1 DEF CondInv, IInv, TypeOK, OtherComponent, CondType
  <1>3. IInv'
    BY <1>1, OtherStep DEF CondInv
  <1>4. CondTypeOK'
    BY <1>3 DEF CondInv, CondTypeOK, IInv, condVars
  <1>5. CondPackets'
    BY <1>2, SendNames DEF CondInv
  <1>6. ASSUME NEW p \in Process
        PROVE  OneCall(p)' /\ OwnTables(p)'
    BY <1>2 DEF CondInv, OneCall, OwnTables, HoldsMutexOf, condVars, mutexVars
  <1>7. WaitInv'
    BY <1>1, Untouched DEF condVars
  <1> QED
    BY <1>3, <1>4, <1>5, <1>6, <1>7 DEF CondInv

LEMMA SyncNotify ==
  ASSUME MonitorInv, CondInv, NotifyInv, NEW r \in Process, Syncs(r), UNCHANGED condVars
  PROVE  NotifyInv'
  <1>1. PICK R, msg : OtherComponent(r, R, "SYNC", msg)
    BY SyncParts
  <1>2. \A p, q \in Process : \A c \in CondName : ~Sends(r, R, "SYNC", msg, q, p, "COND_NOTIFY", c)
    BY DEF Sends
  <1> QED
    BY <1>1, <1>2, NotifyOtherStep DEF condVars

-----------------------------------------------------------------------------
(* The states in SYNC packets. *)

Carried(S) ==
  /\ \A p, q \in Process : \A i \in 1 .. Len(chan[p][q]) :
       chan[p][q][i].messageType = "SYNC" => chan[p][q][i].message.state \in S
  /\ \A p \in Process : InHand(p, "SYNC") => recv[p].message.state \in S

LEMMA SendCarried ==
  ASSUME CommTypeOK, NEW S, Carried(S), NEW r \in Process, NEW R, NEW type, NEW msg,
         PacketStep(r, R, type, msg), type = "SYNC" /\ Send(r, R, type, msg) => msg.state \in S
  PROVE  Carried(S)'
  <1>1. ASSUME NEW p \in Process, NEW q \in Process, NEW i \in 1 .. Len(chan'[p][q])
        PROVE  chan'[p][q][i].messageType = "SYNC" => chan'[p][q][i].message.state \in S
    <2>1. CASE chan'[p][q] = chan[p][q]
      BY <1>1, <2>1 DEF Carried
    <2>2. CASE chan'[p][q] # chan[p][q]
      <3> DEFINE e == NextPacket(r, type, msg)
      <3>1. /\ R \in SUBSET Process /\ type \in MessageType /\ msg \in Message
            /\ Send(r, R, type, msg)
        BY <2>2 DEF PacketStep
      <3>2. e \in Packet /\ chan'[p][q] = Append(chan[p][q], e)
        <4>1. e \in Packet
          BY <3>1, SendEffect
        <4>2. chan'[p][q] = IF p = r /\ q \in R THEN Append(chan[p][q], e) ELSE chan[p][q]
          BY <3>1, SendChannel
        <4> HIDE DEF e
        <4> QED
          BY <2>2, <4>1, <4>2
      <3>3. e.messageType = type /\ e.message = msg
        BY DEF NextPacket
      <3>4. chan[p][q] \in Seq(Packet)
        BY DEF CommTypeOK
      <3> HIDE DEF e
      <3>5. \/ i \in 1 .. Len(chan[p][q]) /\ chan'[p][q][i] = chan[p][q][i]
            \/ chan'[p][q][i] = e
        BY <1>1, <3>2, <3>4, AppendFacts
      <3> QED
        BY <3>1, <3>3, <3>5 DEF Carried
    <2> QED
      BY <2>1, <2>2
  <1>2. \A p \in Process : recv'[p] # NoPacket => recv'[p] = recv[p]
    BY DEF PacketStep, Dispatched, CommTypeOK
  <1> QED
    BY <1>1, <1>2 DEF Carried, InHand

LEMMA ReceiveCarried ==
  ASSUME CommTypeOK, NEW S, Carried(S), NEW p \in Process, NEW q \in Process, Receive(p, q)
  PROVE  Carried(S)'
  <1>1. \A a, b \in Process : chan[a][b] \in Seq(Packet)
    BY DEF CommTypeOK
  <1>2. ASSUME NEW a \in Process, NEW b \in Process, NEW i \in 1 .. Len(chan'[a][b])
        PROVE  chan'[a][b][i].messageType = "SYNC" => chan'[a][b][i].message.state \in S
    <2>1. CASE a = q /\ b = p
      <3>1. chan'[a][b] = Tail(chan[a][b]) /\ chan[a][b] # <<>>
        BY <2>1, ReceiveChannel
      <3>2. i + 1 \in 1 .. Len(chan[a][b]) /\ chan'[a][b][i] = chan[a][b][i + 1]
        BY <1>1, <1>2, <3>1, TailFacts
      <3> QED
        BY <3>2 DEF Carried
    <2>2. CASE ~(a = q /\ b = p)
      <3>1. chan'[a][b] = chan[a][b]
        BY <2>2, ReceiveChannel
      <3> QED
        BY <1>2, <3>1 DEF Carried
    <2> QED
      BY <2>1, <2>2
  <1>3. ASSUME NEW a \in Process, InHand(a, "SYNC")'
        PROVE  recv'[a].message.state \in S
    <2>1. CASE a = p
      <3>1. 1 \in 1 .. Len(chan[q][p]) /\ Head(chan[q][p]) = chan[q][p][1]
        BY <1>1, ReceiveChannel, TailFacts
      <3>2. /\ recv'[p].messageType = chan[q][p][1].messageType
            /\ recv'[p].message = chan[q][p][1].message
        BY <3>1, ReceiveEffect
      <3> QED
        BY <1>3, <2>1, <3>1, <3>2 DEF Carried, InHand
    <2>2. CASE a # p
      <3>1. recv'[a] = recv[a]
        BY <2>2, ReceiveEffect
      <3> QED
        BY <1>3, <3>1 DEF Carried, InHand
    <2> QED
      BY <2>1, <2>2
  <1> QED
    BY <1>2, <1>3 DEF Carried

(* Packets of other kinds, and received ones, bring no new state. *)
LEMMA MutexCarried ==
  ASSUME IInv, [Next]_vars, NEW S, Carried(S)
  PROVE  Carried(S)'
  <1>0. CommTypeOK /\ "SYNC" \notin MutexType
    BY DEF IInv, TypeOK, MutexType
  <1>1. CASE \E r \in Process : \E q \in OtherProcesses(r) : Receive(r, q)
    BY <1>0, <1>1, ProcessFacts, ReceiveCarried
  <1>2. CASE \E r \in Process : \E R, type, msg : PacketStep(r, R, type, msg) /\ type \in MutexType
    BY <1>0, <1>2, SendCarried
  <1>3. CASE UNCHANGED <<chan, recv>>
    BY <1>3 DEF Carried, InHand
  <1> QED
    BY <1>1, <1>2, <1>3, MutexEffect

LEMMA CondCarried ==
  ASSUME CondInv, [CondNext]_allCondVars, NEW S, Carried(S)
  PROVE  Carried(S)'
  <1>0. IInv /\ CommTypeOK
    BY DEF CondInv, IInv, TypeOK
  <1>1. CASE [Next]_vars
    BY <1>0, <1>1, MutexCarried
  <1>2. CASE \E r \in Process : \E R, type, msg : PacketStep(r, R, type, msg) /\ type # "SYNC"
    BY <1>0, <1>2, SendCarried
  <1> QED
    BY <1>1, <1>2, CondParts DEF OtherComponent

-----------------------------------------------------------------------------
(* The programs' own state. *)

(* The saved states of rings that are in order. *)
SavedRings == {Save(r) : r \in {x \in Ring : Linked(x)}}

(* p is in wait() at the wait of its entry alone, on the condition variable  *)
(* of its kind; once wait() is about to return, and until the change that    *)
(* follows it, p holds the mutex and the predicate holds of p's variables.   *)
WaitEntry(p) ==
  /\ \A c \in CondName : waiting[p][c] # "out" => c = WaitsOn(p) /\ step[p] = "body"
  /\ step[p] = "body" /\ waiting[p][WaitsOn(p)] \in {"out", "confirming"} =>
       phase[p][Current(p)] = "held" /\ Predicate(p)

(* From the change to the unlock p is in one entry, and holds its mutex. *)
OpenEntry(p) ==
  \A m \in MutexName : stage[p][m] # "start" =>
    /\ m = Current(p) /\ phase[p][m] = "held"
    /\ step[p] = "exit" \/ (step[p] = "notify" /\ ~NotifyAfterUnlock)

(* Every copy, and every copy on its way, is a ring in order. *)
RingInv ==
  /\ \A p \in Process : \A m \in MutexName : shared[p][m] \in SavedRings
  /\ \A m \in MutexName : latest[m] \in SavedRings
  /\ Carried(SavedRings)

(* The inductive invariant of the programs, for every number of processes. *)
ProgInv ==
  /\ ProgTypeOK
  /\ MonitorInv
  /\ CondInv
  /\ \A p \in Process : WaitEntry(p) /\ OpenEntry(p)
  /\ RingInv

LEMMA EntryFacts ==
  ASSUME ProgTypeOK, NEW p \in Process
  PROVE  /\ Current(p) \in MutexName
         /\ WaitsOn(p) \in CondName /\ MutexOf[WaitsOn(p)] = Current(p)
         /\ Notifies(p) \in CondName /\ MutexOf[Notifies(p)] = Current(p)
  <1>1. /\ MonitorOrder \in Seq(MutexName) /\ MonitorOrder # <<>>
        /\ Len(MonitorOrder) \in Nat /\ Len(MonitorOrder) > 0
    BY ProgramAssumption
  <1>2. entries[p] \in Nat
    BY DEF ProgTypeOK
  <1>3. (entries[p] % Len(MonitorOrder)) + 1 \in 1 .. Len(MonitorOrder)
    BY <1>1, <1>2
  <1>4. Current(p) \in MutexName
    BY <1>1, <1>3 DEF Current
  <1> QED
    BY <1>4, ProgramAssumption DEF WaitsOn, Notifies

(* Everything the parts of the invariant about p's entry depend on. *)
EntryOf(p) == <<phase[p], waiting[p], stage[p], shared[p], step[p], entries[p]>>

LEMMA SameEntry ==
  ASSUME NEW p, entries'[p] = entries[p]
  PROVE  /\ Current(p)' = Current(p) /\ WaitsOn(p)' = WaitsOn(p)
         /\ shared'[p][Current(p)] = shared[p][Current(p)] => (Predicate(p)' <=> Predicate(p))
  BY DEF Current, WaitsOn, Predicate, Variables

LEMMA EntryUntouched ==
  ASSUME NEW p \in Process, WaitEntry(p), OpenEntry(p), UNCHANGED EntryOf(p)
  PROVE  WaitEntry(p)' /\ OpenEntry(p)'
  <1>1. /\ phase'[p] = phase[p] /\ waiting'[p] = waiting[p] /\ stage'[p] = stage[p]
        /\ shared'[p] = shared[p] /\ step'[p] = step[p] /\ entries'[p] = entries[p]
    BY DEF EntryOf
  <1>2. Current(p)' = Current(p) /\ WaitsOn(p)' = WaitsOn(p) /\ (Predicate(p)' <=> Predicate(p))
    BY <1>1, SameEntry
  <1> QED
    BY <1>1, <1>2 DEF WaitEntry, OpenEntry

(* A thread of r changes nobody else's part. *)
LEMMA CallsEffect ==
  ASSUME NEW r \in Process, NEW m \in MutexName,
         Subscribe(r, m) \/ Unlock(r, m) \/ InCall(r, m)
  PROVE  phase' = phase \/ \E ph : phase' = [phase EXCEPT ![r][m] = ph]
  <1>1. CASE \E q \in Process : AnswerDelayed(r, m, q)
    BY <1>1 DEF AnswerDelayed
  <1>2. CASE Subscribe(r, m) \/ Unlock(r, m) \/ Queue(r, m) \/ Acquired(r, m) \/ Released(r, m)
    BY <1>2 DEF Subscribe, Unlock, Queue, Acquired, Released, SetPhase
  <1> QED
    BY <1>1, <1>2 DEF InCall

LEMMA ReceiverEffect ==
  ASSUME NEW r \in Process, Receiver(r) \/ CondCallback(r) \/ RestoreState(r)
  PROVE  phase' = phase /\ acquires' = acquires
  <1>1. CASE Receiver(r)
    BY <1>1 DEF Receiver, ReceiveAny, ProcessRequest, AddAgreement, mutexVars
  <1>2. CASE CondCallback(r)
    BY <1>2 DEF CondCallback, ListWaiter, EraseWaiters, Notified, AddConfirmation, mutexVars
  <1>3. CASE RestoreState(r)
    BY <1>3 DEF RestoreState, mutexVars
  <1> QED
    BY <1>1, <1>2, <1>3

LEMMA OthersEntry ==
  ASSUME ProgTypeOK, NEW r \in Process,
         MainThread(r) \/ WakeUnasked(r) \/ ReceivingThread(r),
         NEW p \in Process, p # r
  PROVE  UNCHANGED EntryOf(p)
  <1>0. /\ Current(r) \in MutexName /\ WaitsOn(r) \in CondName
        /\ \A c \in CondName : MutexOf[c] \in MutexName
    BY EntryFacts, CondAssumption
  <1>11. /\ phase \in [Process -> [MutexName -> Phase]]
         /\ waiting \in [Process -> [CondName -> WaitStage]]
         /\ stage \in [Process -> [MutexName -> Stage]]
         /\ shared \in [Process -> [MutexName -> State]]
         /\ step \in [Process -> Step]
         /\ entries \in [Process -> Nat]
    BY DEF ProgTypeOK, MonitorTypeOK, CondTypeOK, TypeOK
  <1>1. ASSUME \/ \E m \in MutexName : Subscribe(r, m) \/ Unlock(r, m) \/ InCall(r, m)
               \/ UNCHANGED phase
        PROVE  phase'[p] = phase[p]
    BY <1>11, <1>1, CallsEffect
  <1>2. CASE EnterEntry(r)
    <2>1. /\ phase'[p] = phase[p] /\ UNCHANGED <<waiting, stage, shared, entries>>
          /\ step' = [step EXCEPT ![r] = "wait"]
      BY <1>0, <1>1, <1>2 DEF EnterEntry, Enter, Goto, condVars, monitorVars
    <2> QED
      BY <1>11, <2>1 DEF EntryOf
  <1>3. CASE StartWait(r)
    <2>1. /\ UNCHANGED <<phase, stage, shared, entries>>
          /\ step' = [step EXCEPT ![r] = "body"]
          /\ waiting' = [waiting EXCEPT ![r][WaitsOn(r)] = "inside"]
      BY <1>3 DEF StartWait, Wait, SetWaiting, Goto, mutexVars, monitorVars
    <2> QED
      BY <1>11, <2>1 DEF EntryOf
  <1>4. CASE TestPredicate(r)
    <2>1. /\ phase'[p] = phase[p] /\ UNCHANGED <<stage, shared, step, entries>>
          /\ \/ waiting' = waiting
             \/ waiting' = [waiting EXCEPT ![r][WaitsOn(r)] = "confirming"]
      BY <1>0, <1>1, <1>4 DEF TestPredicate, EndWait, Block, SetWaiting, condVars, mutexVars,
                              monitorVars, progVars
    <2> QED
      BY <1>11, <2>1 DEF EntryOf
  <1>5. CASE Change(r)
    <2>1. /\ UNCHANGED <<phase, waiting, entries>>
          /\ \E s : shared' = [shared EXCEPT ![r][Current(r)] = s]
          /\ stage' = [stage EXCEPT ![r][Current(r)] = "done"]
          /\ \E s : step' = [step EXCEPT ![r] = s]
      BY <1>5 DEF Change, Body, SetStage, Goto, condVars, vars, mutexVars
    <2> QED
      BY <1>11, <2>1 DEF EntryOf
  <1>6. CASE Notify(r)
    <2>1. /\ UNCHANGED <<phase, waiting, stage, shared>>
          /\ \E s : step' = [step EXCEPT ![r] = s]
          /\ entries' = entries \/ entries' = [entries EXCEPT ![r] = @ + 1]
      BY <1>6 DEF Notify, NotifyOne, Goto, condVars, vars, mutexVars, monitorVars
    <2> QED
      BY <1>11, <2>1 DEF EntryOf
  <1>7. CASE SyncAtExit(r)
    <2>1. /\ UNCHANGED <<phase, waiting, shared, step, entries>>
          /\ stage' = [stage EXCEPT ![r][Current(r)] = "synced"]
      BY <1>7 DEF SyncAtExit, SendSync, SetStage, condVars, mutexVars, progVars
    <2> QED
      BY <1>11, <2>1 DEF EntryOf
  <1>8. CASE UnlockAtExit(r)
    <2>1. /\ phase'[p] = phase[p] /\ UNCHANGED <<waiting, shared>>
          /\ stage' = [stage EXCEPT ![r][Current(r)] = "start"]
          /\ \E s : step' = [step EXCEPT ![r] = s]
          /\ entries' = entries \/ entries' = [entries EXCEPT ![r] = @ + 1]
      BY <1>0, <1>1, <1>8 DEF UnlockAtExit, Leave, SetStage, Goto, condVars
    <2> QED
      BY <1>11, <2>1 DEF EntryOf
  <1>9. CASE LibraryCall(r) \/ WakeUnasked(r)
    <2>1. UNCHANGED <<stage, shared, step, entries>>
      BY <1>9 DEF LibraryCall, WakeUnasked, monitorVars, progVars
    <2>2. ASSUME NEW m \in MutexName, InCall(r, m), UNCHANGED condVars
          PROVE  phase'[p] = phase[p] /\ waiting'[p] = waiting[p]
      BY <1>1, <2>2 DEF condVars
    <2>3. ASSUME NEW c \in CondName,
                 Relock(r, c) \/ Confirmed(r, c) \/ SendNotify(r, c) \/ WakeSpuriously(r, c)
          PROVE  phase'[p] = phase[p] /\ waiting'[p] = waiting[p]
      <3>1. phase'[p] = phase[p]
        BY <1>0, <1>1, <2>3
        DEF Relock, Confirmed, SendNotify, WakeSpuriously, vars, mutexVars
      <3>2. waiting' = waiting \/ \E s : waiting' = [waiting EXCEPT ![r][c] = s]
        BY <2>3 DEF Relock, Confirmed, SendNotify, WakeSpuriously, SetWaiting
      <3> QED
        BY <1>11, <3>1, <3>2
    <2> QED
      BY <1>9, <2>1, <2>2, <2>3 DEF EntryOf, LibraryCall, WakeUnasked
  <1>10. CASE ReceivingThread(r)
    <2>1. UNCHANGED <<phase, step, entries>>
      BY <1>10, ReceiverEffect DEF ReceivingThread, CondReceiver, progVars
    <2>2. waiting' = waiting \/ \E c, s : waiting' = [waiting EXCEPT ![r][c] = s]
      BY <1>10 DEF ReceivingThread, CondReceiver, CondCallback, ListWaiter, EraseWaiters,
                   Notified, AddConfirmation, condVars
    <2>3. /\ shared' = shared \/ \E m, s : shared' = [shared EXCEPT ![r][m] = s]
          /\ stage' = stage
      BY <1>10 DEF ReceivingThread, RestoreState, monitorVars
    <2> QED
      BY <1>11, <2>1, <2>2, <2>3 DEF EntryOf
  <1> QED
    BY <1>2, <1>3, <1>4, <1>5, <1>6, <1>7, <1>8, <1>9, <1>10 DEF MainThread

(* p's entry, action by action. *)
LEMMA EntryTypes ==
  ASSUME ProgTypeOK
  PROVE  /\ phase \in [Process -> [MutexName -> Phase]]
         /\ waiting \in [Process -> [CondName -> WaitStage]]
         /\ stage \in [Process -> [MutexName -> Stage]]
         /\ shared \in [Process -> [MutexName -> State]]
         /\ step \in [Process -> Step]
         /\ entries \in [Process -> Nat]
  BY DEF ProgTypeOK, MonitorTypeOK, CondTypeOK, TypeOK

(* While main thread p is in no call and in no entry that is changed. *)
LEMMA OutsideWait ==
  ASSUME ProgTypeOK, NEW p \in Process, OpenEntry(p),
         \A c \in CondName : waiting'[p][c] = "out",
         step'[p] # "body",
         \A m \in MutexName : stage'[p][m] # "start" =>
           /\ stage[p][m] # "start"
           /\ phase'[p][m] = phase[p][m] /\ entries'[p] = entries[p]
           /\ step'[p] = "exit" \/ (step'[p] = "notify" /\ ~NotifyAfterUnlock)
  PROVE  WaitEntry(p)' /\ OpenEntry(p)'
  <1>1. WaitEntry(p)'
    BY DEF WaitEntry
  <1>2. ASSUME NEW m \in MutexName, stage'[p][m] # "start"
        PROVE  /\ m = Current(p)' /\ phase'[p][m] = "held"
               /\ step'[p] = "exit" \/ (step'[p] = "notify" /\ ~NotifyAfterUnlock)
    <2>1. entries'[p] = entries[p] /\ stage[p][m] # "start" /\ phase'[p][m] = phase[p][m]
      BY <1>2
    <2>2. Current(p)' = Current(p)
      BY <2>1, SameEntry
    <2> QED
      BY <1>2, <2>1, <2>2 DEF OpenEntry
  <1> QED
    BY <1>1, <1>2 DEF OpenEntry

LEMMA EnterEntryOwn ==
  ASSUME ProgTypeOK, NEW p \in Process, OpenEntry(p), EnterEntry(p)
  PROVE  WaitEntry(p)' /\ OpenEntry(p)'
  <1>1. /\ step[p] = "enter" /\ step' = [step EXCEPT ![p] = "wait"]
        /\ \A c \in CondName : waiting[p][c] = "out"
        /\ UNCHANGED <<waiting, stage, entries>>
    BY DEF EnterEntry, AtStep, Free, Goto, Enter, condVars, monitorVars
  <1>2. \A m \in MutexName : stage[p][m] = "start"
    BY <1>1 DEF OpenEntry
  <1> QED
    BY <1>1, <1>2, EntryTypes, OutsideWait

LEMMA StartWaitOwn ==
  ASSUME ProgTypeOK, NEW p \in Process, OpenEntry(p), StartWait(p)
  PROVE  WaitEntry(p)' /\ OpenEntry(p)'
  <1>1. /\ step[p] = "wait" /\ step' = [step EXCEPT ![p] = "body"]
        /\ \A c \in CondName : waiting[p][c] = "out"
        /\ waiting' = [waiting EXCEPT ![p][WaitsOn(p)] = "inside"]
        /\ UNCHANGED <<stage, entries>>
    BY DEF StartWait, AtStep, Free, Goto, Wait, SetWaiting, monitorVars
  <1>2. WaitsOn(p)' = WaitsOn(p) /\ WaitsOn(p) \in CondName
    BY <1>1, SameEntry, EntryFacts
  <1>3. /\ step'[p] = "body" /\ waiting'[p][WaitsOn(p)] = "inside"
        /\ \A c \in CondName : c # WaitsOn(p) => waiting'[p][c] = "out"
    BY <1>1, <1>2, EntryTypes
  <1>4. \A m \in MutexName : stage'[p][m] = "start"
    BY <1>1 DEF OpenEntry
  <1> QED
    BY <1>2, <1>3, <1>4 DEF WaitEntry, OpenEntry

LEMMA TestPredicateOwn ==
  ASSUME ProgTypeOK, NEW p \in Process, WaitEntry(p), OpenEntry(p), TestPredicate(p)
  PROVE  WaitEntry(p)' /\ OpenEntry(p)'
  <1>1. /\ waiting[p][WaitsOn(p)] = "inside"
        /\ UNCHANGED <<stage, shared, step, entries>>
        /\ \/ /\ Predicate(p) /\ phase[p][MutexOf[WaitsOn(p)]] = "held" /\ UNCHANGED phase
              /\ waiting' = [waiting EXCEPT ![p][WaitsOn(p)] = "confirming"]
           \/ UNCHANGED waiting
    BY DEF TestPredicate, EndWait, Block, HoldsMutexOf, SetWaiting, condVars, mutexVars,
           monitorVars, progVars
  <1>2. /\ Current(p)' = Current(p) /\ WaitsOn(p)' = WaitsOn(p)
        /\ Predicate(p)' <=> Predicate(p)
        /\ WaitsOn(p) \in CondName /\ MutexOf[WaitsOn(p)] = Current(p)
    BY <1>1, SameEntry, EntryFacts
  <1>3. step[p] = "body" /\ \A m \in MutexName : stage[p][m] = "start"
    BY <1>1, <1>2 DEF WaitEntry, OpenEntry
  <1>4. \A c \in CondName : c # WaitsOn(p) => waiting'[p][c] = "out"
    BY <1>1, EntryTypes DEF WaitEntry
  <1>5. waiting'[p][WaitsOn(p)] # "inside" =>
          phase'[p][Current(p)] = "held" /\ Predicate(p)
    BY <1>1, <1>2, EntryTypes
  <1> QED
    BY <1>1, <1>2, <1>3, <1>4, <1>5 DEF WaitEntry, OpenEntry

LEMMA ChangeOwn ==
  ASSUME ProgTypeOK, NEW p \in Process, OpenEntry(p), Change(p)
  PROVE  WaitEntry(p)' /\ OpenEntry(p)'
  <1>1. /\ step[p] = "body"
        /\ step' = [step EXCEPT ![p] = IF NotifyAfterUnlock THEN "exit" ELSE "notify"]
        /\ \A c \in CondName : waiting[p][c] = "out"
        /\ stage' = [stage EXCEPT ![p][Current(p)] = "done"]
        /\ phase[p][Current(p)] = "held"
        /\ UNCHANGED <<phase, waiting, entries>>
    BY DEF Change, AtStep, Free, Goto, Body, SetStage, condVars, vars, mutexVars
  <1>2. Current(p)' = Current(p) /\ Current(p) \in MutexName
    BY <1>1, SameEntry, EntryFacts
  <1>3. \A m \in MutexName : stage[p][m] = "start"
    BY <1>1 DEF OpenEntry
  <1>4. \A m \in MutexName : m # Current(p) => stage'[p][m] = "start"
    BY <1>1, <1>3, EntryTypes
  <1>5. step'[p] # "body" /\ (step'[p] = "exit" \/ (step'[p] = "notify" /\ ~NotifyAfterUnlock))
    BY <1>1, EntryTypes
  <1> QED
    BY <1>1, <1>2, <1>4, <1>5 DEF WaitEntry, OpenEntry

LEMMA NotifyOwn ==
  ASSUME ProgTypeOK, NEW p \in Process, OpenEntry(p), Notify(p)
  PROVE  WaitEntry(p)' /\ OpenEntry(p)'
  <1>1. /\ step[p] = "notify"
        /\ \A c \in CondName : waiting[p][c] = "out"
        /\ IF NotifyAfterUnlock
           THEN step' = [step EXCEPT ![p] = "enter"]
           ELSE step' = [step EXCEPT ![p] = "exit"] /\ UNCHANGED entries
        /\ UNCHANGED <<phase, waiting, stage>>
    BY DEF Notify, NotifyOne, AtStep, Free, Goto, condVars, vars, mutexVars, monitorVars
  <1>2. NotifyAfterUnlock => \A m \in MutexName : stage[p][m] = "start"
    BY <1>1 DEF OpenEntry
  <1> QED
    BY <1>1, <1>2, EntryTypes, OutsideWait

LEMMA ExitOwn ==
  ASSUME ProgTypeOK, NEW p \in Process, OpenEntry(p), SyncAtExit(p) \/ UnlockAtExit(p)
  PROVE  WaitEntry(p)' /\ OpenEntry(p)'
  <1>0. /\ \A c \in CondName : waiting[p][c] = "out"
        /\ step[p] = "exit" /\ UNCHANGED waiting
    BY DEF SyncAtExit, UnlockAtExit, AtStep, Free, condVars
  <1>1. CASE SyncAtExit(p)
    <2>1. /\ UNCHANGED <<phase, step, entries>>
          /\ stage[p][Current(p)] = "done"
          /\ stage' = [stage EXCEPT ![p][Current(p)] = "synced"]
      BY <1>1 DEF SyncAtExit, SendSync, SetStage, mutexVars, progVars
    <2>2. \A m \in MutexName : stage'[p][m] # "start" => stage[p][m] # "start"
      BY <2>1, EntryTypes
    <2> QED
      BY <1>0, <2>1, <2>2, OutsideWait
  <1>2. CASE UnlockAtExit(p)
    <2>1. /\ stage' = [stage EXCEPT ![p][Current(p)] = "start"]
          /\ \E s \in {"notify", "enter"} : step' = [step EXCEPT ![p] = s]
      BY <1>2 DEF UnlockAtExit, Leave, SetStage, Goto
    <2>2. \A m \in MutexName : stage'[p][m] = "start"
      BY <2>1, EntryTypes, EntryFacts DEF OpenEntry
    <2> QED
      BY <1>0, <2>1, <2>2, EntryTypes, OutsideWait
  <1> QED
    BY <1>1, <1>2

(* In the middle of an entry, which goes on. *)
LEMMA SameStage ==
  ASSUME ProgTypeOK, NEW p \in Process, WaitEntry(p), OpenEntry(p),
         stage'[p] = stage[p], step'[p] = step[p], entries'[p] = entries[p],
         \A m \in MutexName : phase[p][m] = "held" =>
           phase'[p][m] = "held" /\ shared'[p][m] = shared[p][m],
         \A c \in CondName :
           \/ waiting'[p][c] = waiting[p][c]
           \/ waiting[p][c] # "out" /\ waiting'[p][c] \in {"inside", "woken"}
           \/ waiting[p][c] = "confirming" /\ waiting'[p][c] = "out"
  PROVE  WaitEntry(p)' /\ OpenEntry(p)'
  <1>1. /\ Current(p)' = Current(p) /\ WaitsOn(p)' = WaitsOn(p)
        /\ Current(p) \in MutexName /\ WaitsOn(p) \in CondName
    BY SameEntry, EntryFacts
  <1>2. \A c \in CondName : waiting'[p][c] # "out" => c = WaitsOn(p) /\ step[p] = "body"
    BY DEF WaitEntry
  <1>3. ASSUME step[p] = "body", waiting'[p][WaitsOn(p)] \in {"out", "confirming"}
        PROVE  phase'[p][Current(p)] = "held" /\ Predicate(p)'
    <2>1. waiting[p][WaitsOn(p)] \in {"out", "confirming"}
      BY <1>1, <1>3
    <2>2. phase[p][Current(p)] = "held" /\ Predicate(p)
      BY <1>3, <2>1 DEF WaitEntry
    <2> QED
      BY <1>1, <2>2, SameEntry
  <1>4. WaitEntry(p)'
    BY <1>1, <1>2, <1>3 DEF WaitEntry
  <1> QED
    BY <1>1, <1>4 DEF OpenEntry

LEMMA LibraryCallOwn ==
  ASSUME ProgTypeOK, NEW p \in Process, WaitEntry(p), OpenEntry(p),
         LibraryCall(p) \/ WakeUnasked(p)
  PROVE  WaitEntry(p)' /\ OpenEntry(p)'
  <1>0. TypeOK /\ UNCHANGED <<stage, shared, step, entries>>
    BY DEF LibraryCall, WakeUnasked, monitorVars, progVars, ProgTypeOK, CondTypeOK
  <1>1. ASSUME NEW m \in MutexName, InCall(p, m), UNCHANGED condVars
        PROVE  WaitEntry(p)' /\ OpenEntry(p)'
    BY <1>0, <1>1, KeepsHolding, SameStage DEF condVars
  <1>2. ASSUME NEW c \in CondName, Relock(p, c)
        PROVE  WaitEntry(p)' /\ OpenEntry(p)'
    <2>1. \A m \in MutexName : phase[p][m] = "held" => phase'[p][m] = "held"
      BY <1>0, <1>2, KeepsHolding, CondAssumption DEF Relock
    <2>2. waiting[p][c] = "woken" /\ waiting' = [waiting EXCEPT ![p][c] = "inside"]
      BY <1>2 DEF Relock, SetWaiting
    <2>3. \A d \in CondName :
            \/ waiting'[p][d] = waiting[p][d]
            \/ waiting[p][d] # "out" /\ waiting'[p][d] \in {"inside", "woken"}
      BY <2>2, EntryTypes
    <2> QED
      BY <1>0, <2>1, <2>3, SameStage
  <1>3. ASSUME NEW c \in CondName, Confirmed(p, c) \/ SendNotify(p, c) \/ WakeSpuriously(p, c)
        PROVE  WaitEntry(p)' /\ OpenEntry(p)'
    <2>1. UNCHANGED phase
      BY <1>3 DEF Confirmed, SendNotify, WakeSpuriously, vars, mutexVars
    <2>2. \/ waiting' = waiting
          \/ /\ waiting[p][c] = "inside"
             /\ waiting' = [waiting EXCEPT ![p][c] = "woken"]
          \/ /\ waiting[p][c] = "confirming"
             /\ waiting' = [waiting EXCEPT ![p][c] = "out"]
      BY <1>3 DEF Confirmed, SendNotify, WakeSpuriously, Blocked, SetWaiting
    <2>3. \A d \in CondName :
            \/ waiting'[p][d] = waiting[p][d]
            \/ waiting[p][d] # "out" /\ waiting'[p][d] \in {"inside", "woken"}
            \/ waiting[p][d] = "confirming" /\ waiting'[p][d] = "out"
      BY <2>2, EntryTypes
    <2> QED
      BY <1>0, <2>1, <2>3, SameStage
  <1> QED
    BY <1>1, <1>2, <1>3 DEF LibraryCall, WakeUnasked

LEMMA ReceivingOwn ==
  ASSUME ProgInv, NEW p \in Process, ReceivingThread(p)
  PROVE  WaitEntry(p)' /\ OpenEntry(p)'
  <1>0. /\ ProgTypeOK /\ WaitEntry(p) /\ OpenEntry(p)
        /\ UNCHANGED <<phase, stage, step, entries>>
    <2>1. UNCHANGED <<phase, step, entries>>
      BY ReceiverEffect DEF ReceivingThread, CondReceiver, progVars
    <2>2. UNCHANGED stage
      BY DEF ReceivingThread, RestoreState, monitorVars
    <2> QED
      BY <2>1, <2>2 DEF ProgInv
  <1>1. CASE CondReceiver(p) /\ UNCHANGED monitorVars
    <2>1. \/ waiting' = waiting
          \/ \E c : /\ waiting[p][c] = "inside"
                    /\ waiting' = [waiting EXCEPT ![p][c] = "woken"]
      BY <1>1 DEF CondReceiver, CondCallback, ListWaiter, EraseWaiters, Notified, Blocked,
                  AddConfirmation, condVars
    <2>2. \A d \in CondName :
            \/ waiting'[p][d] = waiting[p][d]
            \/ waiting[p][d] # "out" /\ waiting'[p][d] \in {"inside", "woken"}
      BY <1>0, <2>1, EntryTypes
    <2>3. UNCHANGED shared
      BY <1>1 DEF monitorVars
    <2> QED
      BY <1>0, <2>2, <2>3, SameStage
  <1>2. CASE RestoreState(p) /\ UNCHANGED condVars
    <2>1. \A m \in MutexName : phase[p][m] = "held" => shared'[p][m] = shared[p][m]
      <3>1. phase[p][recv[p].message.name] # "held"
        BY <1>2, RestoreFromInv DEF RestoreState, ProgInv, NoRestoreDuringEntry
      <3>2. \A m \in MutexName : m # recv[p].message.name => shared'[p][m] = shared[p][m]
        BY <1>2, RestoreFacts DEF ProgInv
      <3> QED
        BY <3>1, <3>2
    <2>2. UNCHANGED waiting
      BY <1>2 DEF condVars
    <2> QED
      BY <1>0, <2>1, <2>2, SameStage
  <1> QED
    BY <1>1, <1>2 DEF ReceivingThread

-----------------------------------------------------------------------------
(* A step of a program is a step of the condition variables or of the        *)
(* monitor, or of both at once, where both use the mutex.                    *)
LEMMA ProgParts ==
  ASSUME ProgTypeOK, [ProgNext]_allProgVars
  PROVE  \/ [CondNext]_allCondVars /\ UNCHANGED monitorVars
         \/ [CondNext]_allCondVars /\ [MonitorNext]_allVars
         \/ /\ [MonitorNext]_allVars /\ UNCHANGED condVars
            /\ \E r \in Process : Syncs(r)
  <1> DEFINE Goal == \/ [CondNext]_allCondVars /\ UNCHANGED monitorVars
                     \/ [CondNext]_allCondVars /\ [MonitorNext]_allVars
                     \/ /\ [MonitorNext]_allVars /\ UNCHANGED condVars
                        /\ \E r \in Process : Syncs(r)
  <1> SUFFICES Goal
    OBVIOUS
  <1>1. CASE UNCHANGED allProgVars
    BY <1>1 DEF allProgVars, allCondVars
  <1>2. ASSUME NEW r \in Process, MainThread(r) \/ WakeUnasked(r)
        PROVE  Goal
    <2>0. Current(r) \in MutexName /\ WaitsOn(r) \in CondName /\ Notifies(r) \in CondName
      BY EntryFacts
    <2>1. CASE EnterEntry(r)
      <3>1. Enter(r, Current(r)) /\ Free(r) /\ UNCHANGED condVars
        BY <2>1 DEF EnterEntry, AtStep
      <3>2. CondNext
        BY <2>0, <3>1 DEF Enter, CondNext
      <3>3. MonitorNext
        BY <2>0, <3>1 DEF MonitorNext
      <3> QED
        BY <3>2, <3>3
    <2>2. CASE StartWait(r)
      BY <2>0, <2>2 DEF StartWait, CondNext
    <2>3. CASE TestPredicate(r)
      BY <2>0, <2>3 DEF TestPredicate, CondNext, InCondCall
    <2>4. CASE Change(r)
      <3>1. Body(r, Current(r)) /\ UNCHANGED condVars
        BY <2>4 DEF Change
      <3>2. UNCHANGED allCondVars
        BY <3>1 DEF Body, allCondVars
      <3>3. MonitorNext
        BY <2>0, <3>1 DEF MonitorNext
      <3> QED
        BY <3>2, <3>3
    <2>5. CASE Notify(r)
      BY <2>0, <2>5 DEF Notify, CondNext, allCondVars
    <2>6. CASE SyncAtExit(r)
      BY <2>0, <2>6 DEF SyncAtExit, MonitorNext, Syncs
    <2>7. CASE UnlockAtExit(r)
      <3>1. Leave(r, Current(r)) /\ Free(r) /\ UNCHANGED condVars
        BY <2>7 DEF UnlockAtExit, AtStep
      <3>2. CondNext
        BY <2>0, <3>1 DEF Leave, CondNext
      <3>3. MonitorNext
        BY <2>0, <3>1 DEF MonitorNext
      <3> QED
        BY <3>2, <3>3
    <2>8. CASE LibraryCall(r) \/ WakeUnasked(r)
      BY <2>8 DEF LibraryCall, WakeUnasked, CondNext, InCondCall
    <2> QED
      BY <1>2, <2>1, <2>2, <2>3, <2>4, <2>5, <2>6, <2>7, <2>8 DEF MainThread
  <1>3. ASSUME NEW r \in Process, ReceivingThread(r)
        PROVE  Goal
    <2>1. CASE CondReceiver(r) /\ UNCHANGED monitorVars
      BY <2>1 DEF CondNext
    <2>2. CASE RestoreState(r) /\ UNCHANGED condVars
      BY <2>2 DEF MonitorNext, Syncs
    <2> QED
      BY <1>3, <2>1, <2>2 DEF ReceivingThread
  <1> QED
    BY <1>1, <1>2, <1>3 DEF ProgNext

(* Each part keeps its invariant in every step. *)
LEMMA BothInv ==
  ASSUME ProgInv, [ProgNext]_allProgVars
  PROVE  MonitorInv' /\ CondInv'
  <1>0. ProgTypeOK /\ MonitorInv /\ CondInv
    BY DEF ProgInv
  <1>1. CASE [CondNext]_allCondVars /\ UNCHANGED monitorVars
    BY <1>0, <1>1, CondMonitor, CondInvStep
  <1>2. CASE [CondNext]_allCondVars /\ [MonitorNext]_allVars
    BY <1>0, <1>2, MonitorInvStep, CondInvStep
  <1>3. CASE [MonitorNext]_allVars /\ UNCHANGED condVars /\ \E r \in Process : Syncs(r)
    BY <1>0, <1>3, MonitorInvStep, SyncCond
  <1> QED
    BY <1>0, <1>1, <1>2, <1>3, ProgParts

LEMMA EntriesStep ==
  ASSUME ProgInv, [ProgNext]_allProgVars
  PROVE  \A p \in Process : WaitEntry(p)' /\ OpenEntry(p)'
  <1>0. ProgTypeOK /\ \A p \in Process : WaitEntry(p) /\ OpenEntry(p)
    BY DEF ProgInv
  <1> TAKE p \in Process
  <1>1. CASE UNCHANGED allProgVars
    <2>1. UNCHANGED EntryOf(p)
      BY <1>1 DEF allProgVars, vars, mutexVars, condVars, monitorVars, progVars, EntryOf
    <2> QED
      BY <1>0, <2>1, EntryUntouched
  <1>2. ASSUME NEW r \in Process, MainThread(r) \/ WakeUnasked(r) \/ ReceivingThread(r), r # p
        PROVE  WaitEntry(p)' /\ OpenEntry(p)'
    BY <1>0, <1>2, OthersEntry, EntryUntouched
  <1>3. CASE MainThread(p) \/ WakeUnasked(p)
    BY <1>0, <1>3, EnterEntryOwn, StartWaitOwn, TestPredicateOwn, ChangeOwn, NotifyOwn, ExitOwn,
       LibraryCallOwn DEF MainThread
  <1>4. CASE ReceivingThread(p)
    BY <1>4, ReceivingOwn
  <1> QED
    BY <1>1, <1>2, <1>3, <1>4 DEF ProgNext

-----------------------------------------------------------------------------
(* The rings. *)

LEMMA SavedRing ==
  ASSUME NEW s \in SavedRings
  PROVE  Restore(s) \in Ring /\ Linked(Restore(s)) /\ s = Save(Restore(s))
  BY RestoreSaved DEF SavedRings

(* The change of an entry, made where its predicate holds. *)
LEMMA ChangeEffect ==
  ASSUME ProgInv, NEW p \in Process, Change(p)
  PROVE  LET m == Current(p)
             r == Variables(p)
         IN  /\ phase[p][m] = "held" /\ Predicate(p)
             /\ shared[p][m] \in SavedRings
             /\ \E s \in State :
                  /\ IF IsProducer(p)
                     THEN (\E i \in Item : s = Save(Push(r, i))) /\ UNCHANGED consumed
                     ELSE s = Save(Pop(r)) /\ consumed' = [consumed EXCEPT ![m] = Append(@, Front(r))]
                  /\ shared' = [shared EXCEPT ![p][m] = s]
                  /\ latest' = [latest EXCEPT ![m] = s]
  <1> DEFINE m == Current(p)
             r == Variables(p)
  <1>1. /\ m \in MutexName /\ WaitsOn(p) \in CondName
        /\ shared[p][m] \in State /\ shared[p][m] \in SavedRings
    BY EntryFacts, EntryTypes DEF ProgInv, RingInv
  <1>2. phase[p][m] = "held" /\ Predicate(p)
    BY <1>1 DEF Change, AtStep, Free, ProgInv, WaitEntry
  <1>3. PICK s \in Effect[p][shared[p][m]] :
          /\ shared' = [shared EXCEPT ![p][m] = s]
          /\ latest' = [latest EXCEPT ![m] = s]
    BY DEF Change, Body
  <1>4. s \in IF IsProducer(p) THEN {Save(Push(r, i)) : i \in Item} \cap State
                               ELSE {Save(Pop(r))} \cap State
    BY <1>1, <1>3, EffectAssumption DEF Operations, Variables
  <1>5. IF IsProducer(p) THEN UNCHANGED consumed
        ELSE consumed' = [consumed EXCEPT ![m] = Append(@, Front(r))]
    BY DEF Change
  <1> HIDE DEF m, r
  <1>6. /\ s \in State
        /\ IF IsProducer(p)
           THEN (\E i \in Item : s = Save(Push(r, i))) /\ UNCHANGED consumed
           ELSE s = Save(Pop(r)) /\ consumed' = [consumed EXCEPT ![m] = Append(@, Front(r))]
    BY <1>4, <1>5
  <1> QED
    BY <1>1, <1>2, <1>3, <1>6 DEF m, r

(* It leaves a ring in order: it is never over- or underrun. *)
LEMMA ChangedRing ==
  ASSUME NEW x \in Ring, Linked(x)
  PROVE  /\ ~IsFull(x) => \A i \in Item : Save(Push(x, i)) \in SavedRings
         /\ ~IsEmpty(x) => Save(Pop(x)) \in SavedRings
  BY PushAppends, PopTakesFirst DEF SavedRings

LEMMA ChangeRing ==
  ASSUME ProgInv, NEW p \in Process, Change(p)
  PROVE  /\ \A q \in Process : \A m \in MutexName : shared'[q][m] \in SavedRings
         /\ \A m \in MutexName : latest'[m] \in SavedRings
         /\ consumed' \in [MutexName -> Seq(Item)]
  <1> DEFINE m == Current(p)
             r == Variables(p)
  <1>1. /\ Predicate(p) /\ shared[p][m] \in SavedRings
        /\ \E s \in State :
             /\ IF IsProducer(p)
                THEN (\E i \in Item : s = Save(Push(r, i))) /\ UNCHANGED consumed
                ELSE s = Save(Pop(r)) /\ consumed' = [consumed EXCEPT ![m] = Append(@, Front(r))]
             /\ shared' = [shared EXCEPT ![p][m] = s]
             /\ latest' = [latest EXCEPT ![m] = s]
    BY ChangeEffect
  <1>2. m \in MutexName /\ r \in Ring /\ Linked(r)
    BY <1>1, EntryFacts, SavedRing DEF ProgInv, Variables
  <1>3. IF IsProducer(p) THEN ~IsFull(r) ELSE ~IsEmpty(r)
    BY <1>1 DEF Predicate
  <1>4. Front(r) \in Item
    BY <1>2 DEF Front, Ring
  <1>5. /\ shared \in [Process -> [MutexName -> State]] /\ latest \in [MutexName -> State]
        /\ consumed \in [MutexName -> Seq(Item)]
        /\ \A q \in Process : \A n \in MutexName : shared[q][n] \in SavedRings
        /\ \A n \in MutexName : latest[n] \in SavedRings
    BY DEF ProgInv, ProgTypeOK, MonitorTypeOK, RingInv
  <1> HIDE DEF m, r
  <1>6. PICK s \in SavedRings :
          /\ shared' = [shared EXCEPT ![p][m] = s]
          /\ latest' = [latest EXCEPT ![m] = s]
    BY <1>1, <1>2, <1>3, ChangedRing
  <1>7. consumed' \in [MutexName -> Seq(Item)]
    <2>1. consumed[m] \in Seq(Item) /\ Append(consumed[m], Front(r)) \in Seq(Item)
      BY <1>2, <1>4, <1>5
    <2>2. consumed' = consumed \/ consumed' = [consumed EXCEPT ![m] = Append(@, Front(r))]
      BY <1>1
    <2> QED
      BY <1>5, <2>1, <2>2
  <1> QED
    BY <1>2, <1>5, <1>6, <1>7

(* A copy changes in an entry, or as a SYNC packet says. *)
LEMMA CarriedStep ==
  ASSUME ProgInv, [ProgNext]_allProgVars
  PROVE  Carried(SavedRings)'
  <1>0. /\ ProgTypeOK /\ MonitorInv /\ CondInv /\ Carried(SavedRings) /\ CommTypeOK
        /\ \A p \in Process : \A m \in MutexName : shared[p][m] \in SavedRings
    BY DEF ProgInv, RingInv, MonitorInv, IInv, TypeOK
  <1>1. CASE [CondNext]_allCondVars
    BY <1>0, <1>1, CondCarried
  <1>2. ASSUME NEW r \in Process, RestoreState(r)
        PROVE  Carried(SavedRings)'
    <2>1. PacketStep(r, {}, "COND_NOTIFY", "SYNC")
      BY <1>2 DEF RestoreState, PacketStep, InHand
    <2> QED
      BY <1>0, <2>1, SendCarried
  <1>3. ASSUME NEW r \in Process, NEW m \in MutexName, SendSync(r, m)
        PROVE  Carried(SavedRings)'
    <2> DEFINE msg == [name |-> m, state |-> shared[r][m]]
    <2>1. /\ msg \in Message /\ Send(r, OtherProcesses(r), "SYNC", msg) /\ UNCHANGED recv
          /\ msg.state \in SavedRings
      BY <1>0, <1>3, SendSyncFacts DEF MonitorInv
    <2> HIDE DEF msg
    <2>2. PacketStep(r, OtherProcesses(r), "SYNC", msg)
      BY <2>1, SyncConstants DEF PacketStep
    <2> QED
      BY <1>0, <2>1, <2>2, SendCarried
  <1> QED
    BY <1>0, <1>1, <1>2, <1>3, ProgParts DEF Syncs

LEMMA RingStep ==
  ASSUME ProgInv, [ProgNext]_allProgVars
  PROVE  RingInv' /\ consumed' \in [MutexName -> Seq(Item)]
  <1> DEFINE Goal ==
        /\ \A p \in Process : \A m \in MutexName : shared'[p][m] \in SavedRings
        /\ \A m \in MutexName : latest'[m] \in SavedRings
        /\ consumed' \in [MutexName -> Seq(Item)]
  <1>1. RingInv /\ consumed \in [MutexName -> Seq(Item)]
    BY DEF ProgInv, ProgTypeOK
  <1>2. ASSUME UNCHANGED <<shared, latest, consumed>>
        PROVE  Goal
    BY <1>1, <1>2 DEF RingInv
  <1>3. ASSUME NEW r \in Process, MainThread(r) \/ WakeUnasked(r)
        PROVE  Change(r) \/ UNCHANGED <<shared, latest, consumed>>
    BY <1>3 DEF MainThread, EnterEntry, Enter, StartWait, TestPredicate, Notify, SyncAtExit,
                SendSync, UnlockAtExit, Leave, LibraryCall, WakeUnasked, monitorVars, progVars
  <1>4. ASSUME NEW r \in Process, ReceivingThread(r)
        PROVE  Goal
    <2>1. CASE UNCHANGED monitorVars
      BY <1>2, <1>4, <2>1 DEF monitorVars, ReceivingThread, progVars
    <2>2. CASE RestoreState(r)
      <3>1. /\ recv[r].message.state \in SavedRings /\ UNCHANGED latest
            /\ \A p \in Process : \A m \in MutexName :
                 shared'[p][m] = IF p = r /\ m = recv[r].message.name
                                 THEN recv[r].message.state ELSE shared[p][m]
        BY <1>1, <2>2, RestoreFacts DEF RingInv, Carried, RestoreState, ProgInv
      <3> QED
        BY <1>1, <1>4, <3>1 DEF RingInv, ReceivingThread, progVars
    <2> QED
      BY <1>4, <2>1, <2>2 DEF ReceivingThread
  <1>5. UNCHANGED allProgVars => Goal
    BY <1>2 DEF allProgVars, monitorVars, progVars
  <1>6. Goal
    BY <1>2, <1>3, <1>4, <1>5, ChangeRing DEF ProgNext
  <1>7. Carried(SavedRings)'
    BY CarriedStep
  <1> QED
    BY <1>6, <1>7 DEF RingInv

-----------------------------------------------------------------------------
(* The invariant, for every number of processes. *)

LEMMA ProgInvInit == ProgInit => ProgInv
  <1> SUFFICES ASSUME ProgInit
               PROVE  ProgInv
    OBVIOUS
  <1>1. MonitorInv /\ CondInv
    BY MonitorInvInit, CondInvInit DEF ProgInit
  <1>2. ProgTypeOK
    BY <1>1 DEF ProgInit, ProgTypeOK, MonitorInv, CondInv, Step
  <1>3. /\ \A p \in Process : \A c \in CondName : waiting[p][c] = "out"
        /\ \A p \in Process : \A m \in MutexName : stage[p][m] = "start"
        /\ \A p \in Process : step[p] = "enter"
    BY DEF ProgInit, MonitorInit, CondInit
  <1>4. \A p \in Process : WaitEntry(p) /\ OpenEntry(p)
    BY <1>3 DEF WaitEntry, OpenEntry
  <1>5. InitState \in SavedRings
    BY ProgramAssumption, EmptyRingContent DEF SavedRings
  <1>6. Carried(SavedRings)
    <2>1. \A p, q \in Process : Len(chan[p][q]) = 0 /\ recv[p] = NoPacket
      BY DEF ProgInit, MonitorInit, Init, CommInit
    <2> QED
      BY <2>1 DEF Carried, InHand
  <1>7. RingInv
    BY <1>5, <1>6 DEF RingInv, ProgInit, MonitorInit
  <1> QED
    BY <1>1, <1>2, <1>4, <1>7 DEF ProgInv

LEMMA CountersStep ==
  ASSUME ProgTypeOK, [ProgNext]_allProgVars
  PROVE  step' \in [Process -> Step] /\ entries' \in [Process -> Nat]
  <1>1. step \in [Process -> Step] /\ entries \in [Process -> Nat]
    BY EntryTypes
  <1>2. ASSUME NEW r \in Process, MainThread(r) \/ WakeUnasked(r)
        PROVE  /\ step' = step \/ \E s \in Step : step' = [step EXCEPT ![r] = s]
               /\ entries' = entries \/ entries' = [entries EXCEPT ![r] = @ + 1]
    BY <1>2 DEF MainThread, EnterEntry, StartWait, TestPredicate, Change, Notify, SyncAtExit,
                UnlockAtExit, LibraryCall, WakeUnasked, Goto, Step, progVars
  <1>3. ASSUME NEW r \in Process, ReceivingThread(r)
        PROVE  UNCHANGED <<step, entries>>
    BY <1>3 DEF ReceivingThread, progVars
  <1>4. UNCHANGED allProgVars => UNCHANGED <<step, entries>>
    BY DEF allProgVars, progVars
  <1> QED
    BY <1>1, <1>2, <1>3, <1>4 DEF ProgNext

LEMMA ProgInvStep == ProgInv /\ [ProgNext]_allProgVars => ProgInv'
  <1> SUFFICES ASSUME ProgInv, [ProgNext]_allProgVars
               PROVE  ProgInv'
    OBVIOUS
  <1>1. MonitorInv' /\ CondInv'
    BY BothInv
  <1>2. RingInv' /\ consumed' \in [MutexName -> Seq(Item)]
    BY RingStep
  <1>3. step' \in [Process -> Step] /\ entries' \in [Process -> Nat]
    BY CountersStep DEF ProgInv
  <1>4. ProgTypeOK'
    BY <1>1, <1>2, <1>3 DEF ProgTypeOK, MonitorInv, CondInv
  <1>5. \A p \in Process : WaitEntry(p)' /\ OpenEntry(p)'
    BY EntriesStep
  <1> QED
    BY <1>1, <1>2, <1>4, <1>5 DEF ProgInv

(* Monitor, condition variables and mutexes, used together by a program,     *)
(* keep the invariants that each of them keeps by itself, and the program    *)
(* its own: every number of processes, of monitors and of condition          *)
(* variables, notifying in the entry or after it, both communicators.        *)
THEOREM ProgInvariant == ProgSpec => []ProgInv
  BY ProgInvInit, ProgInvStep, PTL DEF ProgSpec

(* Types: what producers put in and consumers take out are items.            *)
THEOREM ProgTypeCorrect == ProgSpec => []ProgTypeOK
  <1>1. ProgInv => ProgTypeOK
    BY DEF ProgInv
  <1> QED
    BY <1>1, ProgInvariant, PTL

(* No SYNC overwrites the variables under an entry, which now also gives the *)
(* mutex up and takes it back in wait().                                     *)
THEOREM ProgRestoreOutsideEntry == ProgSpec => []NoRestoreDuringEntry
  <1>1. ProgInv => NoRestoreDuringEntry
    BY RestoreFromInv DEF ProgInv
  <1> QED
    BY <1>1, ProgInvariant, PTL

(* The packets of the three components do not disturb the exchange of        *)
(* requests and agreements that they share the channels with.                *)
THEOREM ProgRequests == ProgSpec => []RequestInOnePlace
  <1>1. ProgInv => RequestInOnePlace
    BY DEF ProgInv, MonitorInv, IInv
  <1> QED
    BY <1>1, ProgInvariant, PTL

(* However old it may be with more than two processes, every copy of the     *)
(* variables is a ring in order: no entry fills it beyond MAX_QUEUE_SIZE or  *)
(* takes from an empty one, because wait() has tested the copy that the      *)
(* entry changes and no SYNC comes in between.                               *)
THEOREM RingsInOrder == ProgSpec => []RingInv
  <1>1. ProgInv => RingInv
    BY DEF ProgInv
  <1> QED
    BY <1>1, ProgInvariant, PTL

(* What wait() promises at the point where the entry goes on: the mutex is   *)
(* held and the predicate holds when the variables change, although wait()   *)
(* has exchanged COND_WAIT_END and its confirmations since it tested.        *)
TestedChange == \A p \in Process : Change(p) => phase[p][Current(p)] = "held" /\ Predicate(p)

THEOREM ChangedAsTested == ProgSpec => [][TestedChange]_allProgVars
  <1>1. ProgInv /\ [ProgNext]_allProgVars => [TestedChange]_allProgVars
    BY ChangeEffect DEF TestedChange
  <1> QED
    BY <1>1, ProgInvariant, PTL DEF ProgSpec

LEMMA ProgNotifyStep ==
  ASSUME ~NotifyOutside
  PROVE  ProgInv /\ NotifyInv /\ [ProgNext]_allProgVars => NotifyInv'
  <1> SUFFICES ASSUME ProgInv, NotifyInv, [ProgNext]_allProgVars
               PROVE  NotifyInv'
    OBVIOUS
  <1>0. ProgTypeOK /\ MonitorInv /\ CondInv
    BY DEF ProgInv
  <1>1. CASE [CondNext]_allCondVars
    BY <1>0, <1>1, NotifyInvStep
  <1>2. ASSUME NEW r \in Process, Syncs(r), UNCHANGED condVars
        PROVE  NotifyInv'
    BY <1>0, <1>2, SyncNotify
  <1> QED
    BY <1>0, <1>1, <1>2, ProgParts

(* In the programs that notify in their entries (all but UnlockFirst), no    *)
(* receiving thread throws over a COND_NOTIFY.                               *)
THEOREM ProgNotifications ==
  ASSUME ~NotifyOutside
  PROVE  ProgSpec => []NotificationExpected
  <1>1. ProgInit => NotifyInv
    BY NotifyInvInit DEF ProgInit
  <1>2. ProgInv /\ NotifyInv /\ [ProgNext]_allProgVars => NotifyInv'
    BY ProgNotifyStep
  <1>3. ProgInv /\ NotifyInv => NotificationExpected
    BY NotifiedFromInv DEF ProgInv
  <1> QED
    BY <1>1, <1>2, <1>3, ProgInvariant, PTL DEF ProgSpec

-----------------------------------------------------------------------------
(* One producer and one consumer. *)

LEMMA ProgLatestStep ==
  ASSUME NumberOfProcesses = 2
  PROVE  ProgInv /\ LatestInv /\ [ProgNext]_allProgVars => LatestInv'
  <1> SUFFICES ASSUME ProgInv, LatestInv, [ProgNext]_allProgVars
               PROVE  LatestInv'
    OBVIOUS
  <1>0. ProgTypeOK /\ MonitorInv /\ CondInv
    BY DEF ProgInv
  <1>1. CASE [CondNext]_allCondVars /\ UNCHANGED monitorVars
    <2>1. \A p \in Process : \A m \in MutexName : stage'[p][m] # "start" => phase'[p][m] = "held"
      BY EntriesStep DEF OpenEntry
    <2>2. \A p \in Process : \A q \in OtherProcesses(p) : \A m \in MutexName : CatchesUp(p, q, m)'
      BY <1>0, <1>1, CondLatest
    <2> QED
      BY <2>1, <2>2, ProcessFacts DEF LatestInv
  <1>2. CASE [MonitorNext]_allVars
    BY <1>0, <1>2, LatestStep
  <1> QED
    BY <1>0, <1>1, <1>2, ProgParts

LEMMA ProgLatest ==
  ASSUME NumberOfProcesses = 2
  PROVE  ProgSpec => []LatestInv
  <1>1. ProgInit => LatestInv
    BY LatestInit DEF ProgInit
  <1> QED
    BY <1>1, ProgLatestStep, ProgInvariant, PTL DEF ProgSpec

(* An entry, which may wait in between, always works on what the last entry  *)
(* has left, in whichever process.                                           *)
THEOREM ProgLatestForTwo ==
  ASSUME NumberOfProcesses = 2
  PROVE  ProgSpec => []LatestOnEntry
  <1>1. MonitorInv /\ LatestInv => LatestOnEntry
    BY LatestFromInv
  <1>2. ProgInv => MonitorInv
    BY DEF ProgInv
  <1> QED
    BY <1>1, <1>2, ProgLatest, ProgInvariant, PTL

LEMMA ChangePutsOrGets ==
  ASSUME NumberOfProcesses = 2, ProgInv, LatestInv, NEW p \in Process, Change(p)
  PROVE  Buffers!BufferNext
  <1> DEFINE m == Current(p)
             r == Variables(p)
             content == [b \in MutexName |-> Content(Restore(latest[b]))]
  <1>1. /\ phase[p][m] = "held" /\ Predicate(p)
        /\ shared[p][m] \in SavedRings
        /\ \E s \in State :
             /\ IF IsProducer(p)
                THEN (\E i \in Item : s = Save(Push(r, i))) /\ UNCHANGED consumed
                ELSE s = Save(Pop(r)) /\ consumed' = [consumed EXCEPT ![m] = Append(@, Front(r))]
             /\ shared' = [shared EXCEPT ![p][m] = s]
             /\ latest' = [latest EXCEPT ![m] = s]
    BY ChangeEffect
  <1>2. m \in MutexName /\ r \in Ring /\ Linked(r)
    BY <1>1, EntryFacts, SavedRing DEF ProgInv, Variables
  <1>3. content[m] = Content(r)
    <2>1. shared[p][m] = latest[m]
      BY <1>1, <1>2, LatestFromInv DEF ProgInv, LatestOnEntry
    <2> QED
      BY <1>2, <2>1 DEF Variables
  <1>4. latest \in [MutexName -> State]
    BY DEF ProgInv, ProgTypeOK, MonitorTypeOK
  <1>5. ASSUME NEW x \in Ring, latest' = [latest EXCEPT ![m] = Save(x)]
        PROVE  content' = [content EXCEPT ![m] = Content(x)]
    <2>1. Restore(Save(x)) = x
      BY RestoreSaved
    <2>2. \A b \in MutexName : latest'[b] = IF b = m THEN Save(x) ELSE latest[b]
      BY <1>4, <1>5
    <2> HIDE DEF m
    <2>3. \A b \in MutexName :
            Content(Restore(latest'[b])) = IF b = m THEN Content(x) ELSE content[b]
      BY <2>1, <2>2
    <2> QED
      BY <2>3
  <1>6. CASE IsProducer(p)
    <2>1. ~IsFull(r)
      BY <1>1, <1>6 DEF Predicate
    <2>2. PICK i \in Item : /\ latest' = [latest EXCEPT ![m] = Save(Push(r, i))]
                            /\ UNCHANGED consumed
      BY <1>1, <1>6
    <2>3. Push(r, i) \in Ring /\ Content(Push(r, i)) = Append(Content(r), i)
      BY <1>2, <2>1, PushAppends
    <2>4. Len(Content(r)) < Capacity
      BY <1>2, <2>1, ContentLength, IndexFacts DEF IsFull, Ring
    <2>5. content' = [content EXCEPT ![m] = Append(@, i)]
      BY <1>2, <1>3, <1>5, <2>2, <2>3
    <2> HIDE DEF m, r
    <2>6. Buffers!Put(m)
      BY <1>3, <2>2, <2>4, <2>5 DEF Buffers!Put
    <2> QED
      BY <1>2, <2>6 DEF Buffers!BufferNext
  <1>7. CASE ~IsProducer(p)
    <2>1. ~IsEmpty(r)
      BY <1>1, <1>7 DEF Predicate
    <2>2. /\ latest' = [latest EXCEPT ![m] = Save(Pop(r))]
          /\ consumed' = [consumed EXCEPT ![m] = Append(@, Front(r))]
      BY <1>1, <1>7
    <2>3. /\ Pop(r) \in Ring /\ Content(Pop(r)) = Tail(Content(r))
          /\ Front(r) = Head(Content(r))
      BY <1>2, <2>1, PopTakesFirst
    <2>4. Content(r) # <<>>
      BY <1>2, <2>1, ContentLength DEF IsEmpty
    <2>5. content' = [content EXCEPT ![m] = Tail(@)]
      BY <1>2, <1>3, <1>5, <2>2, <2>3
    <2> HIDE DEF m, r
    <2>6. Buffers!Get(m)
      BY <1>3, <2>2, <2>3, <2>4, <2>5 DEF Buffers!Get
    <2> QED
      BY <1>2, <2>6 DEF Buffers!BufferNext
  <1> QED
    BY <1>6, <1>7

LEMMA OnlyChangeWrites ==
  ASSUME [ProgNext]_allProgVars
  PROVE  (\E p \in Process : Change(p)) \/ UNCHANGED <<latest, consumed>>
  <1>1. ASSUME NEW r \in Process, MainThread(r) \/ WakeUnasked(r)
        PROVE  Change(r) \/ UNCHANGED <<latest, consumed>>
    BY <1>1 DEF MainThread, EnterEntry, Enter, StartWait, TestPredicate, Notify, SyncAtExit,
                SendSync, UnlockAtExit, Leave, LibraryCall, WakeUnasked, monitorVars, progVars
  <1>2. ASSUME NEW r \in Process, ReceivingThread(r)
        PROVE  UNCHANGED <<latest, consumed>>
    BY <1>2 DEF ReceivingThread, RestoreState, monitorVars, progVars
  <1>3. UNCHANGED allProgVars => UNCHANGED <<latest, consumed>>
    BY DEF allProgVars, monitorVars, progVars
  <1> QED
    BY <1>1, <1>2, <1>3 DEF ProgNext

(* One producer and one consumer, any number of monitors of any capacity:    *)
(* the program implements a set of bounded buffers.  Put and Get happen      *)
(* where an entry changes its copy; everything else, the exchange of the     *)
(* mutex, the waits and the SYNCs, is invisible.                             *)
THEOREM ProgImplementsBuffers ==
  ASSUME NumberOfProcesses = 2
  PROVE  ProgSpec => ImplementsBuffers
  <1>1. ProgInit => Buffers!BufferInit
    <2> SUFFICES ASSUME ProgInit
                 PROVE  Buffers!BufferInit
      OBVIOUS
    <2>1. \A m \in MutexName : latest[m] = Save(EmptyRing)
      BY ProgramAssumption DEF ProgInit, MonitorInit
    <2>2. Content(Restore(Save(EmptyRing))) = <<>>
      BY EmptyRingContent, RestoreSaved
    <2>3. consumed = [m \in MutexName |-> <<>>]
      BY DEF ProgInit
    <2> QED
      BY <2>1, <2>2, <2>3 DEF Buffers!BufferInit
  <1>2. ProgInv /\ LatestInv /\ [ProgNext]_allProgVars => [Buffers!BufferNext]_(Buffers!bufferVars)
    <2>1. UNCHANGED <<latest, consumed>> => UNCHANGED Buffers!bufferVars
      BY DEF Buffers!bufferVars
    <2> QED
      BY <2>1, OnlyChangeWrites, ChangePutsOrGets
  <1> QED
    BY <1>1, <1>2, ProgInvariant, ProgLatest, PTL DEF ProgSpec, ImplementsBuffers, Buffers!BufferSpec
=============================================================================
