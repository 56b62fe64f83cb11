------------------------ MODULE RicartAgrawalaProofs ------------------------
(***************************************************************************)
(* Theorems about RicartAgrawala and ScopedLock, for every number of       *)
(* processes, every set of mutex names and both communicators.             *)
(***************************************************************************)
EXTENDS RicartAgrawala, ScopedLock, FiniteSetTheorems, TLAPS

(* What a packet says about itself is true: its sender, and for the two      *)
(* mutex messages the name of a mutex.                                       *)
Genuine(packet, p) ==
  /\ packet.source = p
  /\ packet.messageType \in {"MUTEX_REQUEST", "MUTEX_AGREEMENT"} => packet.message \in MutexName

PacketInv ==
  /\ \A p, q \in Process : \A i \in 1 .. Len(chan[p][q]) : Genuine(chan[p][q][i], p)
  /\ \A p \in Process : recv[p] # NoPacket =>
       \E q \in OtherProcesses(p) : Genuine(recv[p], q)

(* A mutex is in queuedMutexes from queue() to the end of releaseMutex, with *)
(* a time the process's clock has passed.                                    *)
Queued(p, m) ==
  /\ queuedMutexes[p][m] # 0 <=> phase[p][m] \in {"waiting", "held", "releasing"}
  /\ queuedMutexes[p][m] <= clock[p]
  /\ receivedAgreements[p][m] \subseteq OtherProcesses(p)

QueuedInv == \A p \in Process : \A m \in MutexName : Queued(p, m)

(* q has agreed to p's outstanding request. *)
Granted(p, q, m) == Answered(p, q, m) \/ Counted(p, q, m) \/ phase[p][m] = "held"

(* The requests for m in a channel carry the time t. *)
RequestTimes(s, m, t) ==
  \A i \in 1 .. Len(s) :
    (s[i].messageType = "MUTEX_REQUEST" /\ s[i].message = m) => s[i].lamportTime = t

(* Times: a request carries the time p has queued; whoever has received it   *)
(* has a clock beyond that time; whoever has agreed to it and competes for   *)
(* the same mutex competes with a later request.                             *)
Timely(p, q, m) ==
  /\ RequestTimes(chan[p][q], m, queuedMutexes[p][m])
  /\ RequestInHand(p, q, m) =>
       /\ queuedMutexes[p][m] < clock[q]
       /\ recv[q].lamportTime >= queuedMutexes[p][m]
       /\ ~Optimized => recv[q].lamportTime = queuedMutexes[p][m]
  /\ Delayed(p, q, m) => queuedMutexes[p][m] < clock[q]
  /\ Granted(p, q, m) =>
       /\ queuedMutexes[p][m] < clock[q]
       /\ phase[q][m] \in {"waiting", "held"} =>
            Precedes(queuedMutexes[p][m], p, queuedMutexes[q][m], q)

TimeInv ==
  \A p \in Process : \A q \in OtherProcesses(p) : \A m \in MutexName : Timely(p, q, m)

(* Only a process that is itself queued, with an earlier request, delays. *)
DelayedByEarlier(p, q, m) ==
  Delayed(p, q, m) =>
    /\ phase[q][m] \in {"waiting", "held", "releasing"}
    /\ Precedes(queuedMutexes[q][m], q, queuedMutexes[p][m], p)

DelayInv ==
  \A p \in Process : \A q \in OtherProcesses(p) : \A m \in MutexName :
    DelayedByEarlier(p, q, m)

(* The inductive invariant.  DelayInv needs the sender's time in the packet, *)
(* so it is claimed for MpiSimpleCommunicator only; everything else holds    *)
(* for both communicators.                                                   *)
IInv ==
  /\ TypeOK
  /\ PacketInv
  /\ QueuedInv
  /\ RequestInOnePlace
  /\ TimeInv
  /\ ~Optimized => DelayInv

-----------------------------------------------------------------------------
(* Sequences: what Append and Tail do to what a channel holds. *)

LEMMA AppendFacts ==
  ASSUME NEW S, NEW s \in Seq(S), NEW e \in S
  PROVE  /\ Append(s, e) \in Seq(S)
         /\ Len(s) \in Nat
         /\ Len(Append(s, e)) = Len(s) + 1
         /\ \A i \in 1 .. Len(s) : Append(s, e)[i] = s[i]
         /\ Append(s, e)[Len(s) + 1] = e
  OBVIOUS

LEMMA TailFacts ==
  ASSUME NEW S, NEW s \in Seq(S), s # <<>>
  PROVE  /\ Tail(s) \in Seq(S)
         /\ Len(s) \in Nat \ {0}
         /\ Len(Tail(s)) = Len(s) - 1
         /\ \A i \in 1 .. Len(s) - 1 : Tail(s)[i] = s[i + 1]
         /\ Head(s) = s[1]
         /\ Head(s) \in S
  OBVIOUS

LEMMA AppendHolds ==
  ASSUME NEW s \in Seq(Packet), NEW e \in Packet, NEW type, NEW m
  PROVE  /\ Holds(Append(s, e), type, m)
              <=> Holds(s, type, m) \/ (e.messageType = type /\ e.message = m)
         /\ (AtMostOnce(s, type, m)
               /\ ~(Holds(s, type, m) /\ e.messageType = type /\ e.message = m))
             => AtMostOnce(Append(s, e), type, m)
  <1> DEFINE n == Len(s) + 1
             a == Append(s, e)
  <1>1. /\ n - 1 = Len(s) /\ n \in Nat \ {0}
        /\ Len(a) = n
        /\ \A i \in 1 .. n - 1 : a[i] = s[i]
        /\ a[n] = e
    BY AppendFacts
  <1>2. 1 .. n = (1 .. n - 1) \cup {n}
    BY <1>1
  <1> HIDE DEF n, a
  <1>3. Holds(a, type, m)
          <=> Holds(s, type, m) \/ (e.messageType = type /\ e.message = m)
    BY <1>1, <1>2 DEF Holds
  <1>4. ASSUME AtMostOnce(s, type, m),
               ~(Holds(s, type, m) /\ e.messageType = type /\ e.message = m)
        PROVE  AtMostOnce(a, type, m)
    BY <1>1, <1>2, <1>4 DEF AtMostOnce, Holds
  <1> QED
    BY <1>3, <1>4 DEF a

LEMMA TailHolds ==
  ASSUME NEW s \in Seq(Packet), s # <<>>, NEW type, NEW m
  PROVE  /\ Holds(s, type, m)
              <=> Holds(Tail(s), type, m)
                    \/ (Head(s).messageType = type /\ Head(s).message = m)
         /\ AtMostOnce(s, type, m) =>
              /\ AtMostOnce(Tail(s), type, m)
              /\ ~(Holds(Tail(s), type, m)
                     /\ Head(s).messageType = type /\ Head(s).message = m)
  <1> DEFINE n == Len(s) - 1
             t == Tail(s)
             h == Head(s)
  <1>1. /\ n + 1 = Len(s) /\ n \in Nat
        /\ Len(t) = n
        /\ \A i \in 1 .. n : t[i] = s[i + 1]
        /\ h = s[1]
    BY TailFacts
  <1>2. /\ \A i \in 1 .. n : i + 1 \in 1 .. n + 1 /\ i + 1 # 1
        /\ \A i \in 1 .. n + 1 : i # 1 => i - 1 \in 1 .. n /\ (i - 1) + 1 = i
        /\ 1 \in 1 .. n + 1
        /\ \A i, j \in 1 .. n : i + 1 = j + 1 => i = j
    BY <1>1
  <1> HIDE DEF n, t, h
  <1>3. Holds(s, type, m)
          <=> Holds(t, type, m) \/ (h.messageType = type /\ h.message = m)
    <2>1. ASSUME Holds(t, type, m)
          PROVE  Holds(s, type, m)
      <3>1. PICK i \in 1 .. n : t[i].messageType = type /\ t[i].message = m
        BY <1>1, <2>1 DEF Holds
      <3>2. i + 1 \in 1 .. Len(s) /\ s[i + 1] = t[i]
        BY <1>1, <1>2
      <3> QED
        BY <3>1, <3>2 DEF Holds
    <2>2. ASSUME h.messageType = type, h.message = m
          PROVE  Holds(s, type, m)
      BY <1>1, <1>2, <2>2 DEF Holds
    <2>3. ASSUME Holds(s, type, m), ~(h.messageType = type /\ h.message = m)
          PROVE  Holds(t, type, m)
      <3>1. PICK i \in 1 .. n + 1 : s[i].messageType = type /\ s[i].message = m
        BY <1>1, <2>3 DEF Holds
      <3>2. i # 1
        BY <1>1, <2>3, <3>1
      <3>3. i - 1 \in 1 .. n /\ t[i - 1] = s[i]
        BY <1>1, <1>2, <3>2
      <3> QED
        BY <1>1, <3>1, <3>3 DEF Holds
    <2> QED
      BY <2>1, <2>2, <2>3
  <1>4. ASSUME AtMostOnce(s, type, m)
        PROVE  /\ AtMostOnce(t, type, m)
               /\ ~(Holds(t, type, m) /\ h.messageType = type /\ h.message = m)
    BY <1>1, <1>2, <1>4 DEF AtMostOnce, Holds
  <1> QED
    BY <1>3, <1>4 DEF t, h

LEMMA TimesAppendTail ==
  ASSUME NEW s \in Seq(Packet), NEW m, NEW t
  PROVE  /\ \A e \in Packet :
              (RequestTimes(s, m, t)
                 /\ (e.messageType = "MUTEX_REQUEST" /\ e.message = m => e.lamportTime = t))
              => RequestTimes(Append(s, e), m, t)
         /\ s # <<>> /\ RequestTimes(s, m, t) =>
              /\ RequestTimes(Tail(s), m, t)
              /\ Head(s).messageType = "MUTEX_REQUEST" /\ Head(s).message = m
                   => Head(s).lamportTime = t
         /\ ~Holds(s, "MUTEX_REQUEST", m) => RequestTimes(s, m, t)
  <1>1. ASSUME NEW e \in Packet, RequestTimes(s, m, t),
               e.messageType = "MUTEX_REQUEST" /\ e.message = m => e.lamportTime = t
        PROVE  RequestTimes(Append(s, e), m, t)
    BY <1>1, AppendFacts DEF RequestTimes
  <1>2. ASSUME s # <<>>, RequestTimes(s, m, t)
        PROVE  /\ RequestTimes(Tail(s), m, t)
               /\ Head(s).messageType = "MUTEX_REQUEST" /\ Head(s).message = m
                    => Head(s).lamportTime = t
    BY <1>2, TailFacts DEF RequestTimes
  <1>3. ~Holds(s, "MUTEX_REQUEST", m) => RequestTimes(s, m, t)
    BY DEF RequestTimes, Holds
  <1> QED
    BY <1>1, <1>2, <1>3

-----------------------------------------------------------------------------
(* What a send and a receive change, without the sequences. *)

LEMMA ProcessFacts ==
  /\ Process \subseteq Nat
  /\ \A p \in Process : OtherProcesses(p) \subseteq Process /\ p \notin OtherProcesses(p)
  /\ \A p, q \in Process : p # q <=> q \in OtherProcesses(p)
  BY CommunicatorAssumption DEF Process, OtherProcesses

LEMMA SendEffect ==
  ASSUME CommTypeOK, NEW r \in Process, NEW R \in SUBSET Process,
         NEW type \in MessageType, NEW msg \in Message, Send(r, R, type, msg)
  PROVE  /\ clock' \in [Process -> Nat]
         /\ chan' \in [Process -> [Process -> Seq(Packet)]]
         /\ clock'[r] = clock[r] + 1
         /\ \A p \in Process : clock[p] <= clock'[p]
         /\ NextPacket(r, type, msg) \in Packet
  <1> DEFINE e == NextPacket(r, type, msg)
  <1>1. e \in Packet
    BY DEF CommTypeOK, NextPacket, Packet
  <1> HIDE DEF e
  <1>2. \A q \in Process : Append(chan[r][q], e) \in Seq(Packet)
    BY <1>1 DEF CommTypeOK
  <1>3. chan' = [chan EXCEPT ![r] = [q \in Process |->
                   IF q \in R THEN Append(chan[r][q], e) ELSE chan[r][q]]]
    BY DEF Send, e
  <1>4. chan' \in [Process -> [Process -> Seq(Packet)]]
    BY <1>2, <1>3 DEF CommTypeOK
  <1>6. clock' \in [Process -> Nat] /\ clock'[r] = clock[r] + 1
          /\ \A p \in Process : clock[p] <= clock'[p]
    BY DEF Send, CommTypeOK
  <1> QED
    BY <1>1, <1>4, <1>6 DEF e

LEMMA SendChannel ==
  ASSUME CommTypeOK, NEW r \in Process, NEW R, NEW type, NEW msg, Send(r, R, type, msg),
         NEW p \in Process, NEW q \in Process
  PROVE  chan'[p][q] = IF p = r /\ q \in R
                       THEN Append(chan[p][q], NextPacket(r, type, msg))
                       ELSE chan[p][q]
  BY DEF Send, CommTypeOK

(* The predicates on channels after a send. *)
LEMMA SendHolds ==
  ASSUME CommTypeOK, NEW r \in Process, NEW R \in SUBSET Process,
         NEW type \in MessageType, NEW msg \in Message, Send(r, R, type, msg),
         NEW p \in Process, NEW q \in Process, NEW t, NEW m
  PROVE  /\ Holds(chan[p][q], t, m)'
              <=> Holds(chan[p][q], t, m) \/ (p = r /\ q \in R /\ t = type /\ m = msg)
         /\ (AtMostOnce(chan[p][q], t, m)
               /\ ~(Holds(chan[p][q], t, m) /\ p = r /\ q \in R /\ t = type /\ m = msg))
             => AtMostOnce(chan[p][q], t, m)'
  <1> DEFINE e == NextPacket(r, type, msg)
  <1>1. e \in Packet /\ e.messageType = type /\ e.message = msg
    BY SendEffect DEF NextPacket
  <1>2. chan[p][q] \in Seq(Packet)
    BY DEF CommTypeOK
  <1>0. chan'[p][q] = IF p = r /\ q \in R THEN Append(chan[p][q], e) ELSE chan[p][q]
    BY SendChannel
  <1> HIDE DEF e
  <1>3. CASE p = r /\ q \in R
    <2>1. chan'[p][q] = Append(chan[p][q], e)
      BY <1>0, <1>3
    <2> QED
      BY <1>1, <1>2, <1>3, <2>1, AppendHolds
  <1>4. CASE ~(p = r /\ q \in R)
    <2>1. chan'[p][q] = chan[p][q]
      BY <1>0, <1>4
    <2> QED
      BY <1>4, <2>1
  <1> QED
    BY <1>3, <1>4

(* Packets of another type, or about another mutex, or in another channel. *)
LEMMA SendElsewhere ==
  ASSUME CommTypeOK, NEW r \in Process, NEW R \in SUBSET Process,
         NEW type \in MessageType, NEW msg \in Message, Send(r, R, type, msg),
         NEW p \in Process, NEW q \in Process, NEW t, NEW m,
         t # type \/ m # msg \/ p # r \/ q \notin R
  PROVE  /\ Holds(chan[p][q], t, m)' <=> Holds(chan[p][q], t, m)
         /\ AtMostOnce(chan[p][q], t, m) => AtMostOnce(chan[p][q], t, m)'
  <1>1. ~(p = r /\ q \in R /\ t = type /\ m = msg)
    OBVIOUS
  <1>2. Holds(chan[p][q], t, m)'
          <=> Holds(chan[p][q], t, m) \/ (p = r /\ q \in R /\ t = type /\ m = msg)
    BY SendHolds
  <1>3. (AtMostOnce(chan[p][q], t, m)
          /\ ~(Holds(chan[p][q], t, m) /\ p = r /\ q \in R /\ t = type /\ m = msg))
        => AtMostOnce(chan[p][q], t, m)'
    BY SendHolds
  <1> QED
    BY <1>1, <1>2, <1>3

LEMMA SendTimes ==
  ASSUME CommTypeOK, NEW r \in Process, NEW R \in SUBSET Process,
         NEW type \in MessageType, NEW msg \in Message, Send(r, R, type, msg),
         NEW p \in Process, NEW q \in Process, NEW m, NEW t,
         RequestTimes(chan[p][q], m, t),
         p = r /\ q \in R /\ type = "MUTEX_REQUEST" /\ msg = m => t = clock[r] + 1
  PROVE  RequestTimes(chan'[p][q], m, t)
  <1> DEFINE e == NextPacket(r, type, msg)
  <1>1. e \in Packet /\ e.messageType = type /\ e.message = msg /\ e.lamportTime = clock[r] + 1
    BY SendEffect DEF NextPacket
  <1>2. chan[p][q] \in Seq(Packet)
    BY DEF CommTypeOK
  <1>0. chan'[p][q] = IF p = r /\ q \in R THEN Append(chan[p][q], e) ELSE chan[p][q]
    BY SendChannel
  <1> HIDE DEF e
  <1>3. CASE p = r /\ q \in R
    <2>1. chan'[p][q] = Append(chan[p][q], e)
      BY <1>0, <1>3
    <2> QED
      BY <1>1, <1>2, <1>3, <2>1, TimesAppendTail
  <1>4. CASE ~(p = r /\ q \in R)
    <2>1. chan'[p][q] = chan[p][q]
      BY <1>0, <1>4
    <2> QED
      BY <1>4, <2>1
  <1> QED
    BY <1>3, <1>4

(* A send says the truth about its sender; it must not misname a mutex. *)
LEMMA SendGenuine ==
  ASSUME CommTypeOK, PacketInv, NEW r \in Process, NEW R \in SUBSET Process,
         NEW type \in MessageType, NEW msg \in Message, Send(r, R, type, msg),
         type \in {"MUTEX_REQUEST", "MUTEX_AGREEMENT"} => msg \in MutexName
  PROVE  \A p, q \in Process : \A i \in 1 .. Len(chan'[p][q]) : Genuine(chan'[p][q][i], p)
  <1> DEFINE e == NextPacket(r, type, msg)
  <1>1. e \in Packet /\ Genuine(e, r)
    BY SendEffect DEF NextPacket, Genuine
  <1> SUFFICES ASSUME NEW p \in Process, NEW q \in Process, NEW i \in 1 .. Len(chan'[p][q])
               PROVE  Genuine(chan'[p][q][i], p)
    OBVIOUS
  <1>2. chan[p][q] \in Seq(Packet)
    BY DEF CommTypeOK
  <1>0. chan'[p][q] = IF p = r /\ q \in R THEN Append(chan[p][q], e) ELSE chan[p][q]
    BY SendChannel
  <1> HIDE DEF e
  <1>3. CASE p = r /\ q \in R
    <2>1. chan'[p][q] = Append(chan[p][q], e)
      BY <1>0, <1>3
    <2>2. i \in 1 .. Len(chan[p][q]) \/ i = Len(chan[p][q]) + 1
      BY <1>1, <1>2, <2>1, AppendFacts
    <2>3. CASE i \in 1 .. Len(chan[p][q])
      <3>1. chan'[p][q][i] = chan[p][q][i]
        BY <1>1, <1>2, <2>1, <2>3, AppendFacts
      <3> QED
        BY <2>3, <3>1 DEF PacketInv
    <2>4. CASE i = Len(chan[p][q]) + 1
      <3>1. chan'[p][q][i] = e
        BY <1>1, <1>2, <2>1, <2>4, AppendFacts
      <3> QED
        BY <1>1, <1>3, <3>1
    <2> QED
      BY <2>2, <2>3, <2>4
  <1>4. CASE ~(p = r /\ q \in R)
    <2>1. chan'[p][q] = chan[p][q]
      BY <1>0, <1>4
    <2> QED
      BY <2>1 DEF PacketInv
  <1> QED
    BY <1>3, <1>4

LEMMA ReceiveEffect ==
  ASSUME CommTypeOK, NEW p \in Process, NEW q \in Process, Receive(p, q)
  PROVE  /\ clock' \in [Process -> Nat]
         /\ chan' \in [Process -> [Process -> Seq(Packet)]]
         /\ recv' \in [Process -> Packet \cup {NoPacket}]
         /\ Head(chan[q][p]) \in Packet
         /\ recv[p] = NoPacket
         /\ recv'[p] \in Packet /\ recv'[p] # NoPacket
         /\ recv'[p].source = Head(chan[q][p]).source
         /\ recv'[p].messageType = Head(chan[q][p]).messageType
         /\ recv'[p].message = Head(chan[q][p]).message
         /\ recv'[p].lamportTime >= Head(chan[q][p]).lamportTime
         /\ ~Optimized => recv'[p].lamportTime = Head(chan[q][p]).lamportTime
         /\ Head(chan[q][p]).lamportTime < clock'[p]
         /\ \A r \in Process : clock[r] <= clock'[r]
         /\ \A r \in Process : r # p => recv'[r] = recv[r]
  <1> DEFINE h == Head(chan[q][p])
             now == ClockAfter(p, h)
  <1>1. h \in Packet /\ Tail(chan[q][p]) \in Seq(Packet)
    <2>1. chan[q][p] \in Seq(Packet) /\ chan[q][p] # <<>>
      BY DEF CommTypeOK, Receive
    <2> QED
      BY <2>1, TailFacts
  <1>2. h.lamportTime \in Nat
    BY <1>1 DEF Packet
  <1>3. /\ recv[p] = NoPacket
        /\ clock' = [clock EXCEPT ![p] = now]
        /\ recv' = [recv EXCEPT ![p] = Restamp(h, now)]
        /\ chan' = [chan EXCEPT ![q][p] = Tail(@)]
    BY DEF Receive
  <1> HIDE DEF h
  <1>4. now \in Nat /\ now > h.lamportTime /\ now > clock[p]
    BY <1>2 DEF CommTypeOK, ClockAfter
  <1> HIDE DEF now
  <1> DEFINE r == Restamp(h, now)
  <1>5. /\ r \in Packet
        /\ r.source = h.source /\ r.messageType = h.messageType /\ r.message = h.message
        /\ r.lamportTime >= h.lamportTime
        /\ ~Optimized => r.lamportTime = h.lamportTime
    <2>1. CASE Optimized
      BY <1>1, <1>4, <2>1 DEF Restamp, Packet
    <2>2. CASE ~Optimized
      BY <1>1, <2>2 DEF Restamp, Packet
    <2> QED
      BY <2>1, <2>2
  <1> HIDE DEF r
  <1>6. /\ clock' \in [Process -> Nat] /\ clock'[p] = now
        /\ \A s \in Process : clock[s] <= clock'[s]
    BY <1>3, <1>4 DEF CommTypeOK
  <1>7. /\ recv' \in [Process -> Packet \cup {NoPacket}] /\ recv'[p] = r
        /\ \A s \in Process : s # p => recv'[s] = recv[s]
    BY <1>3, <1>5 DEF CommTypeOK, r
  <1>8. chan' \in [Process -> [Process -> Seq(Packet)]]
    BY <1>1, <1>3 DEF CommTypeOK
  <1>9. r # NoPacket
    BY <1>5, CommunicatorAssumption
  <1> QED
    BY <1>1, <1>3, <1>4, <1>5, <1>6, <1>7, <1>8, <1>9 DEF h

LEMMA ReceiveChannel ==
  ASSUME CommTypeOK, NEW p \in Process, NEW q \in Process, Receive(p, q),
         NEW a \in Process, NEW b \in Process
  PROVE  /\ chan'[a][b] = IF a = q /\ b = p THEN Tail(chan[a][b]) ELSE chan[a][b]
         /\ chan[q][p] # <<>>
  BY DEF Receive, CommTypeOK

(* The predicates on channels after a receive. *)
LEMMA ReceiveHolds ==
  ASSUME CommTypeOK, NEW p \in Process, NEW q \in Process, Receive(p, q),
         NEW a \in Process, NEW b \in Process, NEW t, NEW m
  PROVE  LET hit == a = q /\ b = p /\ Head(chan[q][p]).messageType = t
                                   /\ Head(chan[q][p]).message = m
         IN  /\ Holds(chan[a][b], t, m) <=> Holds(chan'[a][b], t, m) \/ hit
             /\ AtMostOnce(chan[a][b], t, m) =>
                  AtMostOnce(chan'[a][b], t, m) /\ ~(Holds(chan'[a][b], t, m) /\ hit)
  <1>1. chan[a][b] \in Seq(Packet) /\ chan[q][p] \in Seq(Packet)
    BY DEF CommTypeOK
  <1>2. CASE a = q /\ b = p
    BY <1>1, <1>2, ReceiveChannel, TailHolds
  <1>3. CASE ~(a = q /\ b = p)
    BY <1>3, ReceiveChannel
  <1> QED
    BY <1>2, <1>3

LEMMA ReceiveTimes ==
  ASSUME CommTypeOK, NEW p \in Process, NEW q \in Process, Receive(p, q),
         NEW a \in Process, NEW b \in Process, NEW m, NEW t, RequestTimes(chan[a][b], m, t)
  PROVE  /\ RequestTimes(chan'[a][b], m, t)
         /\ (a = q /\ b = p /\ Head(chan[q][p]).messageType = "MUTEX_REQUEST"
               /\ Head(chan[q][p]).message = m)
              => Head(chan[q][p]).lamportTime = t
  <1>1. chan[a][b] \in Seq(Packet) /\ chan[q][p] \in Seq(Packet)
    BY DEF CommTypeOK
  <1>2. CASE a = q /\ b = p
    BY <1>1, <1>2, ReceiveChannel, TimesAppendTail
  <1>3. CASE ~(a = q /\ b = p)
    BY <1>3, ReceiveChannel
  <1> QED
    BY <1>2, <1>3

LEMMA ReceiveGenuine ==
  ASSUME CommTypeOK, PacketInv, NEW p \in Process, NEW q \in Process, Receive(p, q)
  PROVE  /\ \A a, b \in Process : \A i \in 1 .. Len(chan'[a][b]) : Genuine(chan'[a][b][i], a)
         /\ Genuine(Head(chan[q][p]), q)
  <1>1. \A a, b \in Process : chan[a][b] \in Seq(Packet)
    BY DEF CommTypeOK
  <1>2. Genuine(Head(chan[q][p]), q)
    BY <1>1, ReceiveChannel, TailFacts DEF PacketInv
  <1>3. ASSUME NEW a \in Process, NEW b \in Process, NEW i \in 1 .. Len(chan'[a][b])
        PROVE  Genuine(chan'[a][b][i], a)
    <2>1. CASE a = q /\ b = p
      <3>1. chan'[a][b] = Tail(chan[a][b]) /\ chan[a][b] # <<>>
        BY <2>1, ReceiveChannel
      <3>2. i + 1 \in 1 .. Len(chan[a][b]) /\ chan'[a][b][i] = chan[a][b][i + 1]
        BY <1>1, <1>3, <3>1, TailFacts
      <3> QED
        BY <3>2 DEF PacketInv
    <2>2. CASE ~(a = q /\ b = p)
      <3>1. chan'[a][b] = chan[a][b]
        BY <2>2, ReceiveChannel
      <3> QED
        BY <1>3, <3>1 DEF PacketInv
    <2> QED
      BY <2>1, <2>2
  <1> QED
    BY <1>2, <1>3

-----------------------------------------------------------------------------
(* Types. *)

LEMMA Constants ==
  /\ MutexName \subseteq Message
  /\ {"MUTEX_REQUEST", "MUTEX_AGREEMENT"} \subseteq MessageType
  /\ \A p \in Process : {p} \in SUBSET Process /\ OtherProcesses(p) \in SUBSET Process
  BY MutexAssumption DEF MessageType, OtherProcesses

(* What the callbacks know of the packet in hand. *)
LEMMA ReceivedFacts ==
  ASSUME CommTypeOK, NEW p \in Process, recv[p] # NoPacket, NEW packet \in Received(p)
  PROVE  /\ packet \in Packet
         /\ packet.source = recv[p].source
         /\ packet.messageType = recv[p].messageType
         /\ packet.message = recv[p].message
         /\ packet.lamportTime >= recv[p].lamportTime
         /\ ~Optimized => packet.lamportTime = recv[p].lamportTime
         /\ recv[p] \in Packet
  <1>1. recv[p] \in Packet
    BY DEF CommTypeOK
  <1>2. CASE Optimized
    <2>1. PICK t \in recv[p].lamportTime .. clock[p] :
                 packet = [recv[p] EXCEPT !.lamportTime = t]
      BY <1>2 DEF Received
    <2>2. t \in Nat /\ t >= recv[p].lamportTime
      BY <1>1, <2>1 DEF CommTypeOK, Packet
    <2> QED
      BY <1>1, <1>2, <2>1, <2>2 DEF Packet
  <1>3. CASE ~Optimized
    <2>1. packet = recv[p]
      BY <1>3 DEF Received
    <2> QED
      BY <1>1, <1>3, <2>1 DEF Packet
  <1> QED
    BY <1>2, <1>3

(* Adding a process to a table entry, whatever the name in the packet. *)
LEMMA Insert ==
  ASSUME NEW f \in [Process -> [MutexName -> SUBSET Process]],
         NEW p \in Process, NEW m, NEW q \in Process
  PROVE  [f EXCEPT ![p][m] = @ \cup {q}] \in [Process -> [MutexName -> SUBSET Process]]
  <1> DEFINE g == [f[p] EXCEPT ![m] = @ \cup {q}]
  <1>1. g \in [MutexName -> SUBSET Process]
    <2>1. f[p] \in [MutexName -> SUBSET Process]
      OBVIOUS
    <2>2. m \in MutexName => f[p][m] \cup {q} \in SUBSET Process
      BY <2>1
    <2> QED
      BY <2>1, <2>2
  <1>2. [f EXCEPT ![p][m] = @ \cup {q}] = [f EXCEPT ![p] = g]
    OBVIOUS
  <1> QED
    BY <1>1, <1>2

LEMMA TypeInit == Init => TypeOK
  BY DEF Init, CommInit, TypeOK, CommTypeOK, Phase

LEMMA TypeStep == TypeOK /\ [Next]_vars => TypeOK'
  <1> SUFFICES ASSUME TypeOK, [Next]_vars
               PROVE  TypeOK'
    OBVIOUS
  <1> USE DEF TypeOK
  <1>1. ASSUME NEW p \in Process, NEW m \in MutexName, Subscribe(p, m)
        PROVE  TypeOK'
    BY <1>1 DEF Subscribe, Idle, SetPhase, Phase, commVars, CommTypeOK
  <1>2. ASSUME NEW p \in Process, NEW m \in MutexName, Queue(p, m)
        PROVE  TypeOK'
    <2>1. CommTypeOK'
      BY <1>2, Constants, SendEffect DEF Queue, CommTypeOK
    <2>2. clock[p] + 1 \in Nat
      BY DEF CommTypeOK
    <2> QED
      BY <1>2, <2>1, <2>2 DEF Queue, SetPhase, Phase
  <1>3. ASSUME NEW p \in Process, NEW m \in MutexName, Acquired(p, m)
        PROVE  TypeOK'
    BY <1>3 DEF Acquired, SetPhase, Phase, commVars, CommTypeOK
  <1>4. ASSUME NEW p \in Process, NEW m \in MutexName, Unlock(p, m)
        PROVE  TypeOK'
    BY <1>4 DEF Unlock, SetPhase, Phase, commVars, CommTypeOK
  <1>5. ASSUME NEW p \in Process, NEW m \in MutexName, NEW q \in Process, AnswerDelayed(p, m, q)
        PROVE  TypeOK'
    <2>1. CommTypeOK'
      BY <1>5, Constants, SendEffect DEF AnswerDelayed, CommTypeOK
    <2> QED
      BY <1>5, <2>1 DEF AnswerDelayed
  <1>6. ASSUME NEW p \in Process, NEW m \in MutexName, Released(p, m)
        PROVE  TypeOK'
    BY <1>6 DEF Released, SetPhase, Phase, commVars, CommTypeOK
  <1>7. ASSUME NEW p \in Process, ReceiveAny(p)
        PROVE  TypeOK'
    <2>1. CommTypeOK'
      BY <1>7, ProcessFacts, ReceiveEffect DEF ReceiveAny, CommTypeOK
    <2> QED
      BY <1>7, <2>1 DEF ReceiveAny, mutexVars
  <1>8. ASSUME NEW p \in Process, ProcessRequest(p)
        PROVE  TypeOK'
    <2>1. PICK request \in Received(p) :
            \/ /\ Send(p, {request.source}, "MUTEX_AGREEMENT", request.message)
               /\ UNCHANGED receivedRequests
            \/ /\ receivedRequests' =
                    [receivedRequests EXCEPT ![p][request.message] = @ \cup {request.source}]
               /\ UNCHANGED <<clock, chan>>
      BY <1>8 DEF ProcessRequest
    <2>2. request \in Packet
      BY <1>8, ReceivedFacts DEF ProcessRequest, InHand
    <2>3. request.source \in Process /\ request.message \in Message
      BY <2>2 DEF Packet
    <2>4. recv' \in [Process -> Packet \cup {NoPacket}]
      BY <1>8 DEF ProcessRequest, Dispatched, CommTypeOK
    <2>5. clock' \in [Process -> Nat] /\ chan' \in [Process -> [Process -> Seq(Packet)]]
      <3>1. CASE Send(p, {request.source}, "MUTEX_AGREEMENT", request.message)
        BY <2>3, <3>1, Constants, SendEffect
      <3>2. CASE UNCHANGED <<clock, chan>>
        BY <3>2 DEF CommTypeOK
      <3> QED
        BY <2>1, <3>1, <3>2
    <2>6. receivedRequests' \in [Process -> [MutexName -> SUBSET Process]]
      <3>1. CASE UNCHANGED receivedRequests
        BY <3>1
      <3>2. CASE receivedRequests' =
                   [receivedRequests EXCEPT ![p][request.message] = @ \cup {request.source}]
        BY <2>3, <3>2, Insert
      <3> QED
        BY <2>1, <3>1, <3>2
    <2> QED
      BY <1>8, <2>4, <2>5, <2>6 DEF ProcessRequest, CommTypeOK
  <1>9. ASSUME NEW p \in Process, AddAgreement(p)
        PROVE  TypeOK'
    <2>1. recv[p] \in Packet
      BY <1>9 DEF AddAgreement, InHand, CommTypeOK
    <2>2. recv[p].source \in Process
      BY <2>1 DEF Packet
    <2>3. receivedAgreements' \in [Process -> [MutexName -> SUBSET Process]]
      BY <1>9, <2>2, Insert DEF AddAgreement
    <2> QED
      BY <1>9, <2>3 DEF AddAgreement, Dispatched, CommTypeOK
  <1>10. CASE UNCHANGED vars
    BY <1>10 DEF vars, commVars, mutexVars, CommTypeOK
  <1> QED
    BY <1>1, <1>2, <1>3, <1>4, <1>5, <1>6, <1>7, <1>8, <1>9, <1>10
    DEF Next, InCall, Receiver, Finished

(* Type correctness: every value the two threads, the channels and the       *)
(* tables of RicartAgrawalaExclusionAlgorithm hold stays in its type.        *)
THEOREM TypeCorrect == Spec => []TypeOK
  <1>1. Init => TypeOK
    BY TypeInit
  <1>2. TypeOK /\ [Next]_vars => TypeOK'
    BY TypeStep
  <1> QED
    BY <1>1, <1>2, PTL DEF Spec

-----------------------------------------------------------------------------
(* The inductive invariant, one lemma per action. *)

LEMMA InvInit == Init => IInv
  <1> SUFFICES ASSUME Init
               PROVE  IInv
    OBVIOUS
  <1>1. TypeOK
    BY TypeInit
  <1>2. \A p, q \in Process : chan[p][q] = <<>> /\ Len(chan[p][q]) = 0 /\ recv[p] = NoPacket
    BY DEF Init, CommInit
  <1>3. \A p, q \in Process : \A type, m :
          ~Holds(chan[p][q], type, m) /\ AtMostOnce(chan[p][q], type, m)
    BY <1>2 DEF Holds, AtMostOnce
  <1>4. \A p, q \in Process : \A m \in MutexName :
          /\ ~RequestSent(p, q, m) /\ ~AgreementSent(p, q, m)
          /\ ~RequestInHand(p, q, m) /\ ~AgreementInHand(p, q, m)
          /\ ~Delayed(p, q, m) /\ ~Counted(p, q, m)
          /\ phase[p][m] = "free" /\ queuedMutexes[p][m] = 0 /\ clock[p] = 0
          /\ receivedAgreements[p][m] = {}
    BY <1>2, <1>3 DEF Init, CommInit, RequestSent, AgreementSent, RequestInHand,
       AgreementInHand, HeldInHand, InHand, Delayed, Counted
  <1>5. \A p \in Process : OtherProcesses(p) \subseteq Process
    BY DEF OtherProcesses
  <1>6. PacketInv
    BY <1>2 DEF PacketInv
  <1>7. QueuedInv
    BY <1>4 DEF QueuedInv, Queued
  <1>8. RequestInOnePlace
    BY <1>3, <1>4, <1>5 DEF RequestInOnePlace, OnePlace, Asked, Answered
  <1>9. TimeInv
    BY <1>2, <1>4, <1>5 DEF TimeInv, Timely, RequestTimes, Granted, Answered
  <1>10. DelayInv
    BY <1>4, <1>5 DEF DelayInv, DelayedByEarlier
  <1> QED
    BY <1>1, <1>6, <1>7, <1>8, <1>9, <1>10 DEF IInv

LEMMA QueueStep ==
  ASSUME IInv, TypeOK', NEW r \in Process, NEW n \in MutexName, Queue(r, n)
  PROVE  IInv'
  <1>0. /\ Send(r, OtherProcesses(r), "MUTEX_REQUEST", n)
        /\ OtherProcesses(r) \in SUBSET Process
        /\ "MUTEX_REQUEST" \in MessageType
        /\ n \in Message
    BY Constants DEF Queue
  <1>1. /\ phase[r][n] = "subscribed"
        /\ phase'[r][n] = "waiting"
        /\ queuedMutexes'[r][n] = clock[r] + 1
        /\ \A p \in Process : \A m \in MutexName : ~(p = r /\ m = n) =>
             phase'[p][m] = phase[p][m] /\ queuedMutexes'[p][m] = queuedMutexes[p][m]
        /\ UNCHANGED <<recv, receivedRequests, receivedAgreements>>
    BY DEF IInv, TypeOK, Queue, SetPhase
  <1>2. CommTypeOK
    BY DEF IInv, TypeOK
  <1>3. clock'[r] = clock[r] + 1 /\ \A p \in Process : clock[p] <= clock'[p]
    BY <1>0, <1>2, SendEffect
  <1>4. \A p \in Process : clock[p] \in Nat /\ clock'[p] \in Nat
          /\ \A m \in MutexName : queuedMutexes[p][m] \in Nat
    BY DEF IInv, TypeOK, CommTypeOK
  <1>5. PacketInv'
    BY <1>0, <1>1, <1>2, SendGenuine DEF IInv, PacketInv
  <1>6. QueuedInv'
    BY <1>1, <1>3, <1>4 DEF IInv, QueuedInv, Queued
  <1>7. ASSUME NEW p \in Process, NEW q \in OtherProcesses(p), NEW m \in MutexName
        PROVE  OnePlace(p, q, m)' /\ Timely(p, q, m)' /\ (~Optimized => DelayedByEarlier(p, q, m)')
    <2>1. /\ q \in Process /\ p # q
          /\ OnePlace(p, q, m) /\ Timely(p, q, m) /\ OnePlace(q, p, m)
          /\ ~Optimized => DelayedByEarlier(p, q, m)
      BY ProcessFacts DEF IInv, RequestInOnePlace, TimeInv, DelayInv
    <2>2. /\ RequestSent(p, q, m)' <=> RequestSent(p, q, m) \/ (p = r /\ m = n)
          /\ (AtMostOnce(chan[p][q], "MUTEX_REQUEST", m) /\ ~(RequestSent(p, q, m) /\ p = r /\ m = n))
               => AtMostOnce(chan[p][q], "MUTEX_REQUEST", m)'
      BY <1>0, <1>2, <2>1, SendHolds DEF RequestSent
    <2>3. /\ AgreementSent(p, q, m)' <=> AgreementSent(p, q, m)
          /\ AtMostOnce(chan[q][p], "MUTEX_AGREEMENT", m)
               => AtMostOnce(chan[q][p], "MUTEX_AGREEMENT", m)'
      <3>1. "MUTEX_AGREEMENT" # "MUTEX_REQUEST"
        OBVIOUS
      <3> QED
        BY <1>0, <1>2, <2>1, <3>1, SendElsewhere DEF AgreementSent
    <2>4. /\ RequestInHand(p, q, m)' <=> RequestInHand(p, q, m)
          /\ AgreementInHand(p, q, m)' <=> AgreementInHand(p, q, m)
          /\ Delayed(p, q, m)' <=> Delayed(p, q, m)
          /\ Counted(p, q, m)' <=> Counted(p, q, m)
      BY <1>1 DEF RequestInHand, AgreementInHand, HeldInHand, InHand, Delayed, Counted
    <2>5. OnePlace(p, q, m)'
      BY <1>1, <2>1, <2>2, <2>3, <2>4 DEF OnePlace, Asked, Answered
    <2>6. p = r /\ m = n =>
            /\ ~RequestSent(p, q, m) /\ ~RequestInHand(p, q, m) /\ ~Delayed(p, q, m)
            /\ ~Answered(p, q, m) /\ ~Counted(p, q, m)
      BY <1>1, <2>1 DEF OnePlace, Asked
    <2>7. RequestTimes(chan[p][q], m, queuedMutexes[p][m])'
      <3>1. CASE p = r /\ m = n
        <4>1. RequestTimes(chan[p][q], m, clock[r] + 1)
          BY <1>2, <2>1, <2>6, <3>1, TimesAppendTail DEF RequestSent, CommTypeOK
        <4> QED
          BY <1>0, <1>1, <1>2, <2>1, <3>1, <4>1, SendTimes
      <3>2. CASE ~(p = r /\ m = n)
        BY <1>0, <1>1, <1>2, <2>1, <3>2, SendTimes DEF Timely
      <3> QED
        BY <3>1, <3>2
    <2>8. Granted(p, q, m)' => Granted(p, q, m) /\ ~(p = r /\ m = n)
      BY <1>1, <2>3, <2>4, <2>6 DEF Granted, Answered
    <2>9. Timely(p, q, m)'
      BY <1>1, <1>3, <1>4, <2>1, <2>4, <2>6, <2>7, <2>8 DEF Timely, Precedes
    <2>10. ~Optimized => DelayedByEarlier(p, q, m)'
      BY <1>1, <2>1, <2>4, <2>6 DEF DelayedByEarlier
    <2> QED
      BY <2>5, <2>9, <2>10
  <1> QED
    BY <1>5, <1>6, <1>7, ProcessFacts DEF IInv, RequestInOnePlace, TimeInv, DelayInv

(* All agreements are counted: they are those of all the other processes. *)
LEMMA AllAgreed ==
  ASSUME NEW p \in Process, NEW A \in SUBSET OtherProcesses(p),
         Cardinality(A) = NumberOfProcesses - 1
  PROVE  A = OtherProcesses(p)
  <1>1. IsFiniteSet(Process) /\ Cardinality(Process) = NumberOfProcesses
    BY CommunicatorAssumption, FS_Interval DEF Process
  <1>2. /\ IsFiniteSet(OtherProcesses(p))
        /\ Cardinality(OtherProcesses(p)) = NumberOfProcesses - 1
    BY <1>1, FS_RemoveElement DEF OtherProcesses
  <1> QED
    BY <1>2, FS_Subset

(* A step that touches neither the channels nor the packets in hand leaves   *)
(* every predicate on them as it was.                                        *)
SameChannels(p, q, m) ==
  /\ RequestSent(p, q, m)' <=> RequestSent(p, q, m)
  /\ AgreementSent(p, q, m)' <=> AgreementSent(p, q, m)
  /\ RequestInHand(p, q, m)' <=> RequestInHand(p, q, m)
  /\ AgreementInHand(p, q, m)' <=> AgreementInHand(p, q, m)
  /\ AtMostOnce(chan[p][q], "MUTEX_REQUEST", m)' <=> AtMostOnce(chan[p][q], "MUTEX_REQUEST", m)
  /\ AtMostOnce(chan[q][p], "MUTEX_AGREEMENT", m)' <=> AtMostOnce(chan[q][p], "MUTEX_AGREEMENT", m)

LEMMA LocalStep ==
  ASSUME UNCHANGED <<chan, recv>>, NEW p, NEW q, NEW m
  PROVE  SameChannels(p, q, m)
  BY DEF SameChannels, RequestSent, AgreementSent, RequestInHand, AgreementInHand,
     HeldInHand, InHand

LEMMA SubscribeStep ==
  ASSUME IInv, TypeOK', NEW r \in Process, NEW n \in MutexName, Subscribe(r, n)
  PROVE  IInv'
  <1>1. /\ phase[r][n] = "free" /\ phase'[r][n] = "subscribed"
        /\ \A p \in Process : \A m \in MutexName : ~(p = r /\ m = n) =>
             phase'[p][m] = phase[p][m]
        /\ UNCHANGED <<clock, chan, recv, queuedMutexes, receivedRequests, receivedAgreements>>
    BY DEF IInv, TypeOK, Subscribe, SetPhase, commVars
  <1>2. PacketInv'
    BY <1>1 DEF IInv, PacketInv
  <1>3. QueuedInv'
    BY <1>1 DEF IInv, QueuedInv, Queued
  <1>4. ASSUME NEW p \in Process, NEW q \in OtherProcesses(p), NEW m \in MutexName
        PROVE  OnePlace(p, q, m)' /\ Timely(p, q, m)' /\ (~Optimized => DelayedByEarlier(p, q, m)')
    <2>1. /\ q \in Process
          /\ OnePlace(p, q, m) /\ Timely(p, q, m)
          /\ ~Optimized => DelayedByEarlier(p, q, m)
      BY ProcessFacts DEF IInv, RequestInOnePlace, TimeInv, DelayInv
    <2>2. /\ SameChannels(p, q, m)
          /\ Delayed(p, q, m)' <=> Delayed(p, q, m)
          /\ Counted(p, q, m)' <=> Counted(p, q, m)
      BY <1>1, LocalStep DEF Delayed, Counted
    <2>3. OnePlace(p, q, m)'
      BY <1>1, <2>1, <2>2 DEF OnePlace, SameChannels, Asked, Answered
    <2>4. Timely(p, q, m)'
      BY <1>1, <2>1, <2>2 DEF Timely, Granted, SameChannels, Answered
    <2>5. ~Optimized => DelayedByEarlier(p, q, m)'
      BY <1>1, <2>1, <2>2 DEF DelayedByEarlier
    <2> QED
      BY <2>3, <2>4, <2>5
  <1> QED
    BY <1>2, <1>3, <1>4, ProcessFacts DEF IInv, RequestInOnePlace, TimeInv, DelayInv

LEMMA AcquiredStep ==
  ASSUME IInv, TypeOK', NEW r \in Process, NEW n \in MutexName, Acquired(r, n)
  PROVE  IInv'
  <1>1. /\ phase[r][n] = "waiting" /\ phase'[r][n] = "held"
        /\ receivedAgreements'[r][n] = {}
        /\ \A p \in Process : \A m \in MutexName : ~(p = r /\ m = n) =>
             /\ phase'[p][m] = phase[p][m]
             /\ receivedAgreements'[p][m] = receivedAgreements[p][m]
        /\ UNCHANGED <<clock, chan, recv, queuedMutexes, receivedRequests>>
    BY DEF IInv, TypeOK, Acquired, SetPhase, commVars
  <1>2. PacketInv'
    BY <1>1 DEF IInv, PacketInv
  <1>3. QueuedInv'
    BY <1>1 DEF IInv, QueuedInv, Queued
  <1>4. \A q \in OtherProcesses(r) : Counted(r, q, n)
    BY AllAgreed DEF Acquired, AreAgreementsComplete, IInv, QueuedInv, Queued, Counted
  <1>5. ASSUME NEW p \in Process, NEW q \in OtherProcesses(p), NEW m \in MutexName
        PROVE  OnePlace(p, q, m)' /\ Timely(p, q, m)' /\ (~Optimized => DelayedByEarlier(p, q, m)')
    <2>1. /\ q \in Process
          /\ OnePlace(p, q, m) /\ Timely(p, q, m)
          /\ ~Optimized => DelayedByEarlier(p, q, m)
      BY ProcessFacts DEF IInv, RequestInOnePlace, TimeInv, DelayInv
    <2>2. /\ SameChannels(p, q, m)
          /\ Delayed(p, q, m)' <=> Delayed(p, q, m)
          /\ Counted(p, q, m)' <=> Counted(p, q, m) /\ ~(p = r /\ m = n)
      BY <1>1, LocalStep DEF Delayed, Counted
    <2>3. p = r /\ m = n => Counted(p, q, m)
      BY <1>4
    <2>4. OnePlace(p, q, m)'
      BY <1>1, <2>1, <2>2, <2>3 DEF OnePlace, SameChannels, Asked, Answered
    <2>5. Timely(p, q, m)'
      BY <1>1, <2>1, <2>2, <2>3 DEF Timely, Granted, SameChannels, Answered
    <2>6. ~Optimized => DelayedByEarlier(p, q, m)'
      BY <1>1, <2>1, <2>2 DEF DelayedByEarlier
    <2> QED
      BY <2>4, <2>5, <2>6
  <1> QED
    BY <1>2, <1>3, <1>5, ProcessFacts DEF IInv, RequestInOnePlace, TimeInv, DelayInv

LEMMA UnlockStep ==
  ASSUME IInv, TypeOK', NEW r \in Process, NEW n \in MutexName, Unlock(r, n)
  PROVE  IInv'
  <1>1. /\ phase[r][n] = "held" /\ phase'[r][n] = "releasing"
        /\ \A p \in Process : \A m \in MutexName : ~(p = r /\ m = n) =>
             phase'[p][m] = phase[p][m]
        /\ UNCHANGED <<clock, chan, recv, queuedMutexes, receivedRequests, receivedAgreements>>
    BY DEF IInv, TypeOK, Unlock, SetPhase, commVars
  <1>2. PacketInv'
    BY <1>1 DEF IInv, PacketInv
  <1>3. QueuedInv'
    BY <1>1 DEF IInv, QueuedInv, Queued
  <1>4. ASSUME NEW p \in Process, NEW q \in OtherProcesses(p), NEW m \in MutexName
        PROVE  OnePlace(p, q, m)' /\ Timely(p, q, m)' /\ (~Optimized => DelayedByEarlier(p, q, m)')
    <2>1. /\ q \in Process
          /\ OnePlace(p, q, m) /\ Timely(p, q, m)
          /\ ~Optimized => DelayedByEarlier(p, q, m)
      BY ProcessFacts DEF IInv, RequestInOnePlace, TimeInv, DelayInv
    <2>2. /\ SameChannels(p, q, m)
          /\ Delayed(p, q, m)' <=> Delayed(p, q, m)
          /\ Counted(p, q, m)' <=> Counted(p, q, m)
      BY <1>1, LocalStep DEF Delayed, Counted
    <2>3. OnePlace(p, q, m)'
      BY <1>1, <2>1, <2>2 DEF OnePlace, SameChannels, Asked, Answered
    <2>4. Timely(p, q, m)'
      BY <1>1, <2>1, <2>2 DEF Timely, Granted, SameChannels, Answered
    <2>5. ~Optimized => DelayedByEarlier(p, q, m)'
      BY <1>1, <2>1, <2>2 DEF DelayedByEarlier
    <2> QED
      BY <2>3, <2>4, <2>5
  <1> QED
    BY <1>2, <1>3, <1>4, ProcessFacts DEF IInv, RequestInOnePlace, TimeInv, DelayInv

LEMMA ReleasedStep ==
  ASSUME IInv, TypeOK', NEW r \in Process, NEW n \in MutexName, Released(r, n)
  PROVE  IInv'
  <1>1. /\ phase[r][n] = "releasing" /\ phase'[r][n] = "free"
        /\ queuedMutexes'[r][n] = 0
        /\ receivedRequests[r][n] = {}
        /\ \A p \in Process : \A m \in MutexName : ~(p = r /\ m = n) =>
             phase'[p][m] = phase[p][m] /\ queuedMutexes'[p][m] = queuedMutexes[p][m]
        /\ UNCHANGED <<clock, chan, recv, receivedRequests, receivedAgreements>>
    BY DEF IInv, TypeOK, Released, SetPhase, commVars
  <1>2. PacketInv'
    BY <1>1 DEF IInv, PacketInv
  <1>3. \A p \in Process : clock[p] \in Nat
    BY DEF IInv, TypeOK, CommTypeOK
  <1>4. QueuedInv'
    BY <1>1, <1>3 DEF IInv, QueuedInv, Queued
  <1>5. ASSUME NEW p \in Process, NEW q \in OtherProcesses(p), NEW m \in MutexName
        PROVE  OnePlace(p, q, m)' /\ Timely(p, q, m)' /\ (~Optimized => DelayedByEarlier(p, q, m)')
    <2>1. /\ q \in Process
          /\ OnePlace(p, q, m) /\ Timely(p, q, m)
          /\ ~Optimized => DelayedByEarlier(p, q, m)
      BY ProcessFacts DEF IInv, RequestInOnePlace, TimeInv, DelayInv
    <2>2. /\ SameChannels(p, q, m)
          /\ Delayed(p, q, m)' <=> Delayed(p, q, m)
          /\ Counted(p, q, m)' <=> Counted(p, q, m)
      BY <1>1, LocalStep DEF Delayed, Counted
    <2>3. q = r /\ m = n => ~Delayed(p, q, m)
      BY <1>1 DEF Delayed
    <2>4. OnePlace(p, q, m)'
      BY <1>1, <2>1, <2>2 DEF OnePlace, SameChannels, Asked, Answered
    <2>5. CASE p = r /\ m = n
      <3>1. /\ ~RequestSent(p, q, m) /\ ~RequestInHand(p, q, m) /\ ~Delayed(p, q, m)
            /\ ~Answered(p, q, m) /\ ~Counted(p, q, m)
        BY <1>1, <2>1, <2>5 DEF OnePlace, Asked
      <3>2. chan[p][q] \in Seq(Packet)
        BY <2>1 DEF IInv, TypeOK, CommTypeOK
      <3>3. \A t : RequestTimes(chan[p][q], m, t)
        BY <3>1, <3>2, TimesAppendTail DEF RequestSent
      <3>4. RequestTimes(chan[p][q], m, queuedMutexes[p][m])'
        BY <1>1, <3>3
      <3> QED
        BY <1>1, <2>1, <2>2, <2>4, <2>5, <3>1, <3>4
        DEF Timely, Granted, SameChannels, Answered, DelayedByEarlier
    <2>6. CASE ~(p = r /\ m = n)
      BY <1>1, <2>1, <2>2, <2>3, <2>4, <2>6
      DEF Timely, Granted, SameChannels, Answered, DelayedByEarlier
    <2> QED
      BY <2>5, <2>6
  <1> QED
    BY <1>2, <1>4, <1>5, ProcessFacts DEF IInv, RequestInOnePlace, TimeInv, DelayInv

(* An agreement sent by r to s, as the predicates on requests see it. *)
LEMMA SendAgreement ==
  ASSUME CommTypeOK, NEW r \in Process, NEW s \in Process, NEW n \in Message,
         Send(r, {s}, "MUTEX_AGREEMENT", n),
         NEW p \in Process, NEW q \in Process, NEW m
  PROVE  /\ AgreementSent(p, q, m)' <=> AgreementSent(p, q, m) \/ (p = s /\ q = r /\ m = n)
         /\ (AtMostOnce(chan[q][p], "MUTEX_AGREEMENT", m)
               /\ ~(AgreementSent(p, q, m) /\ p = s /\ q = r /\ m = n))
              => AtMostOnce(chan[q][p], "MUTEX_AGREEMENT", m)'
         /\ RequestSent(p, q, m)' <=> RequestSent(p, q, m)
         /\ AtMostOnce(chan[p][q], "MUTEX_REQUEST", m)
              => AtMostOnce(chan[p][q], "MUTEX_REQUEST", m)'
  <1>1. /\ {s} \in SUBSET Process /\ "MUTEX_AGREEMENT" \in MessageType
        /\ "MUTEX_REQUEST" # "MUTEX_AGREEMENT"
    BY DEF MessageType
  <1>2. /\ RequestSent(p, q, m)' <=> RequestSent(p, q, m)
        /\ AtMostOnce(chan[p][q], "MUTEX_REQUEST", m)
             => AtMostOnce(chan[p][q], "MUTEX_REQUEST", m)'
    BY <1>1, SendElsewhere DEF RequestSent
  <1> DEFINE e == NextPacket(r, "MUTEX_AGREEMENT", n)
  <1>3. /\ chan[q][p] \in Seq(Packet)
        /\ e \in Packet /\ e.messageType = "MUTEX_AGREEMENT" /\ e.message = n
        /\ chan'[q][p] = IF q = r /\ p \in {s} THEN Append(chan[q][p], e) ELSE chan[q][p]
    <2>1. e \in Packet
      BY <1>1, SendEffect
    <2>2. chan'[q][p] = IF q = r /\ p \in {s} THEN Append(chan[q][p], e) ELSE chan[q][p]
      BY SendChannel
    <2> QED
      BY <2>1, <2>2 DEF NextPacket, CommTypeOK
  <1> HIDE DEF e
  <1>4. CASE q = r /\ p = s
    <2>1. chan'[q][p] = Append(chan[q][p], e)
      BY <1>3, <1>4
    <2> QED
      BY <1>2, <1>3, <1>4, <2>1, AppendHolds DEF AgreementSent
  <1>5. CASE ~(q = r /\ p = s)
    <2>1. chan'[q][p] = chan[q][p]
      BY <1>3, <1>5
    <2> QED
      BY <1>2, <1>5, <2>1 DEF AgreementSent
  <1> QED
    BY <1>4, <1>5

LEMMA AnswerDelayedStep ==
  ASSUME IInv, TypeOK', NEW r \in Process, NEW n \in MutexName, NEW s \in Process,
         AnswerDelayed(r, n, s)
  PROVE  IInv'
  <1>1. /\ Send(r, {s}, "MUTEX_AGREEMENT", n)
        /\ {s} \in SUBSET Process
        /\ "MUTEX_AGREEMENT" \in MessageType
        /\ n \in Message
    BY Constants DEF AnswerDelayed
  <1>2. /\ phase[r][n] = "releasing"
        /\ s \in receivedRequests[r][n]
        /\ \A p, q \in Process : \A m \in MutexName :
             Delayed(p, q, m)' <=> Delayed(p, q, m) /\ ~(q = r /\ p = s /\ m = n)
        /\ UNCHANGED <<recv, phase, queuedMutexes, receivedAgreements>>
    BY DEF IInv, TypeOK, AnswerDelayed, Delayed
  <1>3. CommTypeOK
    BY DEF IInv, TypeOK
  <1>4. \A p \in Process : /\ clock[p] <= clock'[p] /\ clock[p] \in Nat /\ clock'[p] \in Nat
                           /\ \A m \in MutexName : queuedMutexes[p][m] \in Nat
    BY <1>1, <1>3, SendEffect DEF IInv, TypeOK, CommTypeOK
  <1>5. PacketInv'
    BY <1>1, <1>2, <1>3, SendGenuine DEF IInv, PacketInv
  <1>6. QueuedInv'
    BY <1>2, <1>4 DEF IInv, QueuedInv, Queued
  <1>7. ASSUME NEW p \in Process, NEW q \in OtherProcesses(p), NEW m \in MutexName
        PROVE  OnePlace(p, q, m)' /\ Timely(p, q, m)' /\ (~Optimized => DelayedByEarlier(p, q, m)')
    <2>1. /\ q \in Process
          /\ OnePlace(p, q, m) /\ Timely(p, q, m)
          /\ ~Optimized => DelayedByEarlier(p, q, m)
      BY ProcessFacts DEF IInv, RequestInOnePlace, TimeInv, DelayInv
    <2>2. /\ AgreementSent(p, q, m)' <=> AgreementSent(p, q, m) \/ (q = r /\ p = s /\ m = n)
          /\ (AtMostOnce(chan[q][p], "MUTEX_AGREEMENT", m)
                /\ ~(AgreementSent(p, q, m) /\ q = r /\ p = s /\ m = n))
               => AtMostOnce(chan[q][p], "MUTEX_AGREEMENT", m)'
      BY <1>1, <1>3, <2>1, SendAgreement
    <2>3. /\ RequestSent(p, q, m)' <=> RequestSent(p, q, m)
          /\ AtMostOnce(chan[p][q], "MUTEX_REQUEST", m)
               => AtMostOnce(chan[p][q], "MUTEX_REQUEST", m)'
      BY <1>1, <1>3, <2>1, SendAgreement
    <2>4. /\ RequestInHand(p, q, m)' <=> RequestInHand(p, q, m)
          /\ AgreementInHand(p, q, m)' <=> AgreementInHand(p, q, m)
          /\ Counted(p, q, m)' <=> Counted(p, q, m)
      BY <1>2 DEF RequestInHand, AgreementInHand, HeldInHand, InHand, Counted
    <2>5. q = r /\ p = s /\ m = n => Delayed(p, q, m)
      BY <1>2 DEF Delayed
    <2>6. OnePlace(p, q, m)'
      BY <1>2, <2>1, <2>2, <2>3, <2>4, <2>5 DEF OnePlace, Asked, Answered
    <2>7. RequestTimes(chan[p][q], m, queuedMutexes[p][m])'
      BY <1>1, <1>2, <1>3, <2>1, SendTimes DEF Timely
    <2>8. Granted(p, q, m)' => Granted(p, q, m) \/ (q = r /\ p = s /\ m = n)
      BY <1>2, <2>2, <2>4 DEF Granted, Answered
    <2>9. Timely(p, q, m)'
      BY <1>2, <1>4, <2>1, <2>4, <2>5, <2>7, <2>8 DEF Timely
    <2>10. ~Optimized => DelayedByEarlier(p, q, m)'
      BY <1>2, <2>1 DEF DelayedByEarlier
    <2> QED
      BY <2>6, <2>9, <2>10
  <1> QED
    BY <1>5, <1>6, <1>7, ProcessFacts DEF IInv, RequestInOnePlace, TimeInv, DelayInv

LEMMA AddAgreementStep ==
  ASSUME IInv, TypeOK', NEW r \in Process, AddAgreement(r)
  PROVE  IInv'
  <1> DEFINE n == recv[r].message
             s == recv[r].source
  <1>1. n \in MutexName /\ s \in OtherProcesses(r) /\ s \in Process
    BY ProcessFacts DEF AddAgreement, InHand, IInv, PacketInv, Genuine
  <1>2. /\ recv[r] # NoPacket /\ recv[r].messageType = "MUTEX_AGREEMENT"
        /\ recv'[r] = NoPacket
        /\ \A p \in Process : p # r => recv'[p] = recv[p]
        /\ UNCHANGED <<clock, chan, phase, queuedMutexes, receivedRequests>>
    BY DEF IInv, TypeOK, CommTypeOK, AddAgreement, InHand, Dispatched
  <1>3. \A p \in Process : \A m \in MutexName :
          receivedAgreements'[p][m] = IF p = r /\ m = n
                                      THEN receivedAgreements[p][m] \cup {s}
                                      ELSE receivedAgreements[p][m]
    BY <1>1 DEF IInv, TypeOK, AddAgreement
  <1> HIDE DEF n, s
  <1>4. PacketInv'
    BY <1>2 DEF IInv, PacketInv
  <1>5. ASSUME NEW p \in Process, NEW m \in MutexName
        PROVE  Queued(p, m)'
    <2>1. Queued(p, m)
      BY DEF IInv, QueuedInv
    <2>2. receivedAgreements'[p][m] \subseteq OtherProcesses(p)
      BY <1>1, <1>3, <2>1 DEF Queued
    <2> QED
      BY <1>2, <2>1, <2>2 DEF Queued
  <1>6. ASSUME NEW p \in Process, NEW q \in OtherProcesses(p), NEW m \in MutexName
        PROVE  OnePlace(p, q, m)' /\ Timely(p, q, m)' /\ (~Optimized => DelayedByEarlier(p, q, m)')
    <2>1. /\ q \in Process
          /\ OnePlace(p, q, m) /\ Timely(p, q, m)
          /\ ~Optimized => DelayedByEarlier(p, q, m)
      BY ProcessFacts DEF IInv, RequestInOnePlace, TimeInv, DelayInv
    <2> DEFINE this == p = r /\ q = s /\ m = n
    <2>2. /\ RequestSent(p, q, m)' <=> RequestSent(p, q, m)
          /\ AgreementSent(p, q, m)' <=> AgreementSent(p, q, m)
          /\ AtMostOnce(chan[p][q], "MUTEX_REQUEST", m)' <=> AtMostOnce(chan[p][q], "MUTEX_REQUEST", m)
          /\ AtMostOnce(chan[q][p], "MUTEX_AGREEMENT", m)' <=> AtMostOnce(chan[q][p], "MUTEX_AGREEMENT", m)
          /\ Delayed(p, q, m)' <=> Delayed(p, q, m)
          /\ RequestTimes(chan[p][q], m, queuedMutexes[p][m])' <=> RequestTimes(chan[p][q], m, queuedMutexes[p][m])
      BY <1>2 DEF RequestSent, AgreementSent, Delayed
    <2>3. /\ RequestInHand(p, q, m)' <=> RequestInHand(p, q, m)
          /\ RequestInHand(p, q, m)' => q # r
      BY <1>2, <2>1 DEF RequestInHand, HeldInHand, InHand
    <2>4. AgreementInHand(p, q, m) <=> AgreementInHand(p, q, m)' \/ this
      BY <1>2, <2>1 DEF AgreementInHand, HeldInHand, InHand, n, s
    <2>5. AgreementInHand(p, q, m)' => ~this
      BY <1>2 DEF AgreementInHand, HeldInHand, InHand
    <2>6. Counted(p, q, m)' <=> Counted(p, q, m) \/ this
      BY <1>3 DEF Counted
    <2> HIDE DEF this
    <2>7. OnePlace(p, q, m)'
      BY <1>2, <2>1, <2>2, <2>3, <2>4, <2>5, <2>6 DEF OnePlace, Asked, Answered
    <2>8. Granted(p, q, m)' => Granted(p, q, m)
      BY <1>2, <2>2, <2>4, <2>6 DEF Granted, Answered
    <2>9. Timely(p, q, m)'
      BY <1>2, <2>1, <2>2, <2>3, <2>8 DEF Timely
    <2>10. ~Optimized => DelayedByEarlier(p, q, m)'
      BY <1>2, <2>1, <2>2 DEF DelayedByEarlier
    <2> QED
      BY <2>7, <2>9, <2>10
  <1> QED
    BY <1>4, <1>5, <1>6, ProcessFacts DEF IInv, QueuedInv, RequestInOnePlace, TimeInv, DelayInv

LEMMA ReceiveStep ==
  ASSUME IInv, TypeOK', NEW r \in Process, ReceiveAny(r)
  PROVE  IInv'
  <1>1. PICK s \in OtherProcesses(r) : Receive(r, s)
    BY DEF ReceiveAny
  <1>2. s \in Process /\ s # r
    BY ProcessFacts
  <1>3. CommTypeOK /\ PacketInv
    BY DEF IInv, TypeOK
  <1> DEFINE h == Head(chan[s][r])
  <1>4. /\ recv[r] = NoPacket /\ recv'[r] # NoPacket
        /\ recv'[r].source = s
        /\ recv'[r].messageType = h.messageType
        /\ recv'[r].message = h.message
        /\ recv'[r].lamportTime >= h.lamportTime
        /\ ~Optimized => recv'[r].lamportTime = h.lamportTime
        /\ h.lamportTime < clock'[r]
        /\ \A p \in Process : p # r => recv'[p] = recv[p]
        /\ Genuine(h, s)
    <2>1. Genuine(h, s) /\ h.source = s
      BY <1>1, <1>2, <1>3, ReceiveGenuine DEF Genuine
    <2> QED
      BY <1>1, <1>2, <1>3, <2>1, ReceiveEffect
  <1>5. \A p \in Process : clock[p] <= clock'[p] /\ clock[p] \in Nat /\ clock'[p] \in Nat
    BY <1>1, <1>2, <1>3, ReceiveEffect DEF CommTypeOK
  <1>6. UNCHANGED <<phase, queuedMutexes, receivedRequests, receivedAgreements>>
    BY DEF ReceiveAny, mutexVars
  <1>7. PacketInv'
    <2>1. \A a, b \in Process : \A i \in 1 .. Len(chan'[a][b]) : Genuine(chan'[a][b][i], a)
      BY <1>1, <1>2, <1>3, ReceiveGenuine
    <2>2. Genuine(recv'[r], s)
      BY <1>4 DEF Genuine
    <2> QED
      BY <1>1, <1>3, <1>4, <2>1, <2>2 DEF PacketInv
  <1>8. \A p \in Process : \A m \in MutexName : queuedMutexes[p][m] \in Nat
    BY DEF IInv, TypeOK
  <1>9. QueuedInv'
    BY <1>5, <1>6, <1>8 DEF IInv, QueuedInv, Queued
  <1> HIDE DEF h
  <1>10. ASSUME NEW p \in Process, NEW q \in OtherProcesses(p), NEW m \in MutexName
         PROVE  OnePlace(p, q, m)' /\ Timely(p, q, m)' /\ (~Optimized => DelayedByEarlier(p, q, m)')
    <2>1. /\ q \in Process
          /\ OnePlace(p, q, m) /\ Timely(p, q, m)
          /\ ~Optimized => DelayedByEarlier(p, q, m)
      BY ProcessFacts DEF IInv, RequestInOnePlace, TimeInv, DelayInv
    <2> DEFINE request   == p = s /\ q = r /\ h.messageType = "MUTEX_REQUEST" /\ h.message = m
               agreement == q = s /\ p = r /\ h.messageType = "MUTEX_AGREEMENT" /\ h.message = m
    <2>2. /\ RequestSent(p, q, m) <=> RequestSent(p, q, m)' \/ request
          /\ AtMostOnce(chan[p][q], "MUTEX_REQUEST", m) =>
               /\ AtMostOnce(chan[p][q], "MUTEX_REQUEST", m)'
               /\ ~(RequestSent(p, q, m)' /\ request)
      BY <1>1, <1>2, <1>3, <2>1, ReceiveHolds DEF RequestSent, h
    <2>3. /\ AgreementSent(p, q, m) <=> AgreementSent(p, q, m)' \/ agreement
          /\ AtMostOnce(chan[q][p], "MUTEX_AGREEMENT", m) =>
               /\ AtMostOnce(chan[q][p], "MUTEX_AGREEMENT", m)'
               /\ ~(AgreementSent(p, q, m)' /\ agreement)
      BY <1>1, <1>2, <1>3, <2>1, ReceiveHolds DEF AgreementSent, h
    <2>4. /\ RequestInHand(p, q, m)' <=> RequestInHand(p, q, m) \/ request
          /\ RequestInHand(p, q, m) => q # r
      BY <1>2, <1>4, <2>1 DEF RequestInHand, HeldInHand, InHand
    <2>5. /\ AgreementInHand(p, q, m)' <=> AgreementInHand(p, q, m) \/ agreement
          /\ AgreementInHand(p, q, m) => p # r
      BY <1>2, <1>4, <2>1 DEF AgreementInHand, HeldInHand, InHand
    <2>6. /\ Delayed(p, q, m)' <=> Delayed(p, q, m)
          /\ Counted(p, q, m)' <=> Counted(p, q, m)
      BY <1>6 DEF Delayed, Counted
    <2>7. /\ RequestTimes(chan[p][q], m, queuedMutexes[p][m])'
          /\ request => h.lamportTime = queuedMutexes[p][m]
      BY <1>1, <1>2, <1>3, <1>6, <2>1, ReceiveTimes DEF Timely, h
    <2>8. request => q = r
      OBVIOUS
    <2>9. agreement => p = r
      OBVIOUS
    <2> HIDE DEF request, agreement
    <2>10. OnePlace(p, q, m)'
      BY <1>6, <2>1, <2>2, <2>3, <2>4, <2>5, <2>6, <2>8, <2>9 DEF OnePlace, Asked, Answered
    <2>11. Granted(p, q, m)' <=> Granted(p, q, m)
      BY <1>6, <2>3, <2>5, <2>6 DEF Granted, Answered
    <2>12. RequestInHand(p, q, m)' =>
             /\ queuedMutexes[p][m] < clock'[q]
             /\ recv'[q].lamportTime >= queuedMutexes[p][m]
             /\ ~Optimized => recv'[q].lamportTime = queuedMutexes[p][m]
      <3>1. CASE request
        BY <1>4, <2>7, <2>8, <3>1
      <3>2. CASE RequestInHand(p, q, m)
        BY <1>4, <1>5, <1>8, <2>1, <2>4, <3>2 DEF Timely
      <3> QED
        BY <2>4, <3>1, <3>2
    <2>13. Timely(p, q, m)'
      BY <1>5, <1>6, <1>8, <2>1, <2>6, <2>7, <2>11, <2>12 DEF Timely
    <2>14. ~Optimized => DelayedByEarlier(p, q, m)'
      BY <1>6, <2>1, <2>6 DEF DelayedByEarlier
    <2> QED
      BY <2>10, <2>13, <2>14
  <1> QED
    BY <1>7, <1>9, <1>10, ProcessFacts DEF IInv, RequestInOnePlace, TimeInv, DelayInv

LEMMA ProcessRequestStep ==
  ASSUME IInv, TypeOK', NEW r \in Process, ProcessRequest(r)
  PROVE  IInv'
  <1>0. PICK n \in MutexName, s \in OtherProcesses(r) :
               n = recv[r].message /\ s = recv[r].source
    BY DEF ProcessRequest, InHand, IInv, PacketInv, Genuine
  <1>1. s \in Process /\ s # r
    BY ProcessFacts
  <1>2. /\ recv[r] # NoPacket /\ recv[r].messageType = "MUTEX_REQUEST"
        /\ recv'[r] = NoPacket
        /\ \A p \in Process : p # r => recv'[p] = recv[p]
        /\ \A m \in MutexName : phase[r][m] # "releasing"
        /\ UNCHANGED <<phase, queuedMutexes, receivedAgreements>>
    BY DEF IInv, TypeOK, CommTypeOK, ProcessRequest, InHand, Dispatched, MutexStateLocked
  <1>3. CommTypeOK /\ PacketInv
    BY DEF IInv, TypeOK
  <1>4. PICK request \in Received(r) :
          \/ /\ CanSendAgreement(r, request)
             /\ Send(r, {request.source}, "MUTEX_AGREEMENT", request.message)
             /\ UNCHANGED receivedRequests
          \/ /\ ~CanSendAgreement(r, request)
             /\ receivedRequests' =
                  [receivedRequests EXCEPT ![r][request.message] = @ \cup {request.source}]
             /\ UNCHANGED <<clock, chan>>
    BY DEF ProcessRequest
  <1>5. /\ request.source = s /\ request.message = n
        /\ request.lamportTime \in Nat /\ recv[r].lamportTime \in Nat
        /\ request.lamportTime >= recv[r].lamportTime
        /\ ~Optimized => request.lamportTime = recv[r].lamportTime
    BY <1>0, <1>2, <1>3, ReceivedFacts DEF Packet
  <1>6. RequestInHand(s, r, n)
    BY <1>0, <1>2 DEF RequestInHand, HeldInHand, InHand
  <1>7. \A p \in Process : clock[p] \in Nat /\ \A m \in MutexName : queuedMutexes[p][m] \in Nat
    BY DEF IInv, TypeOK, CommTypeOK
  <1>8. /\ queuedMutexes[s][n] < clock[r]
        /\ request.lamportTime >= queuedMutexes[s][n]
        /\ ~Optimized => request.lamportTime = queuedMutexes[s][n]
    <2>1. Timely(s, r, n)
      BY <1>1, ProcessFacts DEF IInv, TimeInv
    <2> QED
      BY <1>1, <1>5, <1>6, <1>7, <2>1 DEF Timely
  <1>9. CanSendAgreement(r, request) <=>
          \/ queuedMutexes[r][n] = 0
          \/ request.lamportTime < queuedMutexes[r][n]
          \/ request.lamportTime = queuedMutexes[r][n] /\ s < r
    BY <1>5 DEF CanSendAgreement
  (* What both outcomes have in common. *)
  <1>10. ASSUME NEW p \in Process, NEW q \in OtherProcesses(p), NEW m \in MutexName
         PROVE  /\ q \in Process /\ p # q
                /\ OnePlace(p, q, m) /\ Timely(p, q, m) /\ Queued(q, m)
                /\ ~Optimized => DelayedByEarlier(p, q, m)
                /\ RequestInHand(p, q, m) <=> RequestInHand(p, q, m)' \/ (p = s /\ q = r /\ m = n)
                /\ RequestInHand(p, q, m)' => q # r
                /\ RequestInHand(p, q, m)' => recv'[q] = recv[q]
                /\ AgreementInHand(p, q, m)' <=> AgreementInHand(p, q, m)
                /\ Counted(p, q, m)' <=> Counted(p, q, m)
    <2>1. /\ q \in Process /\ p # q
          /\ OnePlace(p, q, m) /\ Timely(p, q, m) /\ Queued(q, m)
          /\ ~Optimized => DelayedByEarlier(p, q, m)
      BY ProcessFacts DEF IInv, RequestInOnePlace, TimeInv, DelayInv, QueuedInv
    <2>2. /\ RequestInHand(p, q, m) <=> RequestInHand(p, q, m)' \/ (p = s /\ q = r /\ m = n)
          /\ RequestInHand(p, q, m)' => q # r
          /\ RequestInHand(p, q, m)' => recv'[q] = recv[q]
      BY <1>0, <1>2, <2>1 DEF RequestInHand, HeldInHand, InHand
    <2>3. AgreementInHand(p, q, m)' <=> AgreementInHand(p, q, m)
      BY <1>2, <2>1 DEF AgreementInHand, HeldInHand, InHand
    <2>4. Counted(p, q, m)' <=> Counted(p, q, m)
      BY <1>2 DEF Counted
    <2> QED
      BY <2>1, <2>2, <2>3, <2>4
  <1>11. CASE /\ CanSendAgreement(r, request)
              /\ Send(r, {request.source}, "MUTEX_AGREEMENT", request.message)
              /\ UNCHANGED receivedRequests
    <2>1. /\ Send(r, {s}, "MUTEX_AGREEMENT", n)
          /\ {s} \in SUBSET Process
          /\ "MUTEX_AGREEMENT" \in MessageType
          /\ n \in Message
      BY <1>1, <1>5, <1>11, Constants
    <2>2. \A p \in Process : clock[p] <= clock'[p] /\ clock'[p] \in Nat
      BY <1>3, <2>1, SendEffect DEF CommTypeOK
    <2>3. PacketInv'
      <3>1. \A a, b \in Process : \A i \in 1 .. Len(chan'[a][b]) : Genuine(chan'[a][b][i], a)
        BY <1>1, <1>3, <2>1, SendGenuine
      <3> QED
        BY <1>2, <1>3, <3>1 DEF PacketInv
    <2>4. QueuedInv'
      BY <1>2, <1>7, <2>2 DEF IInv, QueuedInv, Queued
    <2>5. ASSUME NEW p \in Process, NEW q \in OtherProcesses(p), NEW m \in MutexName
          PROVE  OnePlace(p, q, m)' /\ Timely(p, q, m)' /\ (~Optimized => DelayedByEarlier(p, q, m)')
      <3> DEFINE this == p = s /\ q = r /\ m = n
      <3>1. /\ AgreementSent(p, q, m)' <=> AgreementSent(p, q, m) \/ this
            /\ (AtMostOnce(chan[q][p], "MUTEX_AGREEMENT", m) /\ ~(AgreementSent(p, q, m) /\ this))
                 => AtMostOnce(chan[q][p], "MUTEX_AGREEMENT", m)'
        BY <1>3, <1>10, <2>1, SendAgreement
      <3>2. /\ RequestSent(p, q, m)' <=> RequestSent(p, q, m)
            /\ AtMostOnce(chan[p][q], "MUTEX_REQUEST", m)
                 => AtMostOnce(chan[p][q], "MUTEX_REQUEST", m)'
        BY <1>3, <1>10, <2>1, SendAgreement
      <3>3. Delayed(p, q, m)' <=> Delayed(p, q, m)
        BY <1>11 DEF Delayed
      <3>4. RequestInHand(p, q, m)' => ~this
        BY <1>10
      <3>5. RequestTimes(chan[p][q], m, queuedMutexes[p][m])'
        BY <1>2, <1>3, <1>10, <2>1, SendTimes DEF Timely
      <3>6. this => /\ queuedMutexes[p][m] < clock[q]
                    /\ phase[q][m] \in {"waiting", "held"} =>
                         Precedes(queuedMutexes[p][m], p, queuedMutexes[q][m], q)
        BY <1>1, <1>7, <1>8, <1>5, <1>9, <1>10, <1>11 DEF Queued, Precedes
      <3> HIDE DEF this
      <3>7. OnePlace(p, q, m)'
        <4>1. /\ RequestInHand(p, q, m) <=> RequestInHand(p, q, m)' \/ this
              /\ AgreementInHand(p, q, m)' <=> AgreementInHand(p, q, m)
              /\ Counted(p, q, m)' <=> Counted(p, q, m)
              /\ OnePlace(p, q, m)
          BY <1>10 DEF this
        <4> QED
          BY <1>2, <3>1, <3>2, <3>3, <3>4, <4>1 DEF OnePlace, Asked, Answered
      <3>8. Granted(p, q, m)' => Granted(p, q, m) \/ this
        BY <1>2, <1>10, <3>1 DEF Granted, Answered
      <3>9. Timely(p, q, m)'
        BY <1>2, <1>7, <1>10, <2>2, <3>3, <3>5, <3>6, <3>8 DEF Timely
      <3>10. ~Optimized => DelayedByEarlier(p, q, m)'
        BY <1>2, <1>10, <3>3 DEF DelayedByEarlier
      <3> QED
        BY <3>7, <3>9, <3>10
    <2> QED
      BY <2>3, <2>4, <2>5, ProcessFacts DEF IInv, RequestInOnePlace, TimeInv, DelayInv
  <1>12. CASE /\ ~CanSendAgreement(r, request)
              /\ receivedRequests' =
                   [receivedRequests EXCEPT ![r][request.message] = @ \cup {request.source}]
              /\ UNCHANGED <<clock, chan>>
    <2>1. \A p, q \in Process : \A m \in MutexName :
            Delayed(p, q, m)' <=> Delayed(p, q, m) \/ (p = s /\ q = r /\ m = n)
      BY <1>1, <1>5, <1>12 DEF IInv, TypeOK, Delayed
    <2>2. PacketInv'
      BY <1>2, <1>3, <1>12 DEF PacketInv
    <2>3. QueuedInv'
      BY <1>2, <1>12 DEF IInv, QueuedInv, Queued
    <2>4. ASSUME NEW p \in Process, NEW q \in OtherProcesses(p), NEW m \in MutexName
          PROVE  OnePlace(p, q, m)' /\ Timely(p, q, m)' /\ (~Optimized => DelayedByEarlier(p, q, m)')
      <3> DEFINE this == p = s /\ q = r /\ m = n
      <3>1. /\ AgreementSent(p, q, m)' <=> AgreementSent(p, q, m)
            /\ RequestSent(p, q, m)' <=> RequestSent(p, q, m)
            /\ AtMostOnce(chan[q][p], "MUTEX_AGREEMENT", m)' <=> AtMostOnce(chan[q][p], "MUTEX_AGREEMENT", m)
            /\ AtMostOnce(chan[p][q], "MUTEX_REQUEST", m)' <=> AtMostOnce(chan[p][q], "MUTEX_REQUEST", m)
            /\ RequestTimes(chan[p][q], m, queuedMutexes[p][m])' <=> RequestTimes(chan[p][q], m, queuedMutexes[p][m])
        BY <1>2, <1>12 DEF AgreementSent, RequestSent
      <3>2. /\ RequestInHand(p, q, m) <=> RequestInHand(p, q, m)' \/ this
            /\ RequestInHand(p, q, m)' => ~this
            /\ AgreementInHand(p, q, m)' <=> AgreementInHand(p, q, m)
            /\ Counted(p, q, m)' <=> Counted(p, q, m)
            /\ OnePlace(p, q, m)
        BY <1>10
      <3>3. Delayed(p, q, m)' <=> Delayed(p, q, m) \/ this
        BY <1>10, <2>1
      <3>4. this => /\ queuedMutexes[p][m] < clock[q]
                    /\ ~Optimized =>
                         /\ phase[q][m] \in {"waiting", "held", "releasing"}
                         /\ Precedes(queuedMutexes[q][m], q, queuedMutexes[p][m], p)
        BY <1>1, <1>7, <1>8, <1>5, <1>9, <1>10, <1>12, ProcessFacts DEF Queued, Precedes
      <3> HIDE DEF this
      <3>5. OnePlace(p, q, m)'
        BY <1>2, <3>1, <3>2, <3>3 DEF OnePlace, Asked, Answered
      <3>6. Granted(p, q, m)' <=> Granted(p, q, m)
        BY <1>2, <3>1, <3>2 DEF Granted, Answered
      <3>7. Timely(p, q, m)'
        BY <1>2, <1>10, <1>12, <3>1, <3>3, <3>4, <3>6 DEF Timely
      <3>8. ~Optimized => DelayedByEarlier(p, q, m)'
        BY <1>2, <1>10, <3>3, <3>4 DEF DelayedByEarlier
      <3> QED
        BY <3>5, <3>7, <3>8
    <2> QED
      BY <2>2, <2>3, <2>4, ProcessFacts DEF IInv, RequestInOnePlace, TimeInv, DelayInv
  <1> QED
    BY <1>4, <1>11, <1>12

LEMMA InvStep == IInv /\ [Next]_vars => IInv'
  <1> SUFFICES ASSUME IInv, [Next]_vars
               PROVE  IInv'
    OBVIOUS
  <1>1. TypeOK'
    BY TypeStep DEF IInv
  <1>2. ASSUME NEW p \in Process, NEW m \in MutexName,
               Subscribe(p, m) \/ Unlock(p, m) \/ InCall(p, m)
        PROVE  IInv'
    BY <1>1, <1>2, SubscribeStep, UnlockStep, QueueStep, AcquiredStep, AnswerDelayedStep,
       ReleasedStep DEF InCall
  <1>3. ASSUME NEW p \in Process, Receiver(p)
        PROVE  IInv'
    BY <1>1, <1>3, ReceiveStep, ProcessRequestStep, AddAgreementStep DEF Receiver
  <1>4. CASE UNCHANGED vars
    <2>1. UNCHANGED <<clock, chan, recv, phase, queuedMutexes, receivedRequests,
                      receivedAgreements>>
      BY <1>4 DEF vars, commVars, mutexVars
    <2>2. PacketInv' /\ QueuedInv' /\ (DelayInv' <=> DelayInv)
      BY <2>1 DEF IInv, PacketInv, QueuedInv, Queued, DelayInv, DelayedByEarlier, Delayed
    <2>3. RequestInOnePlace'
      BY <2>1 DEF IInv, RequestInOnePlace, OnePlace, Asked, Answered, RequestSent, AgreementSent,
         RequestInHand, AgreementInHand, HeldInHand, InHand, Delayed, Counted
    <2>4. TimeInv'
      BY <2>1 DEF IInv, TimeInv, Timely, Granted, Answered, AgreementSent,
         RequestInHand, AgreementInHand, HeldInHand, InHand, Delayed, Counted
    <2> QED
      BY <1>1, <2>2, <2>3, <2>4 DEF IInv
  <1> QED
    BY <1>2, <1>3, <1>4 DEF Next, Finished

(* The inductive invariant holds in every reachable state, for every number  *)
(* of processes and both communicators.                                      *)
THEOREM Invariant == Spec => []IInv
  <1> QED
    BY InvInit, InvStep, PTL DEF Spec

-----------------------------------------------------------------------------
(* The steps of what is built on top of the exclusion algorithm. *)

MutexType == {"MUTEX_REQUEST", "MUTEX_AGREEMENT"}

(* p sends a packet, or its receiving thread is done with one, or both. *)
PacketStep(p, R, type, msg) ==
  /\ \/ /\ R \in SUBSET Process /\ type \in MessageType /\ msg \in Message
        /\ Send(p, R, type, msg)
     \/ R = {} /\ UNCHANGED <<clock, chan>>
  /\ \/ recv[p] # NoPacket /\ Dispatched(p)
     \/ UNCHANGED recv

(* A step of another component, with packets of its own types. *)
OtherComponent(p, R, type, msg) ==
  /\ PacketStep(p, R, type, msg)
  /\ type \notin MutexType
  /\ recv[p].messageType \notin MutexType \/ UNCHANGED recv
  /\ UNCHANGED mutexVars

(* It disturbs nothing the algorithm relies on. *)
LEMMA OtherStep ==
  ASSUME IInv, NEW s \in Process, NEW R, NEW type, NEW msg, OtherComponent(s, R, type, msg)
  PROVE  IInv'
  <1>0. CommTypeOK /\ PacketInv
    BY DEF IInv, TypeOK
  <1>1. UNCHANGED <<phase, queuedMutexes, receivedRequests, receivedAgreements, acquires>>
    BY DEF OtherComponent, mutexVars
  <1>2. /\ recv' \in [Process -> Packet \cup {NoPacket}]
        /\ \A p \in Process :
             \/ recv'[p] = recv[p]
             \/ recv'[p] = NoPacket /\ recv[p] # NoPacket /\ recv[p].messageType \notin MutexType
    BY <1>0 DEF OtherComponent, PacketStep, Dispatched, CommTypeOK
  <1>3. CASE UNCHANGED <<clock, chan>>
    <2>1. TypeOK' /\ PacketInv' /\ QueuedInv'
      BY <1>1, <1>2, <1>3 DEF IInv, TypeOK, CommTypeOK, PacketInv, QueuedInv, Queued
    <2>2. ASSUME NEW p \in Process, NEW q \in OtherProcesses(p), NEW m \in MutexName
          PROVE  OnePlace(p, q, m)' /\ Timely(p, q, m)' /\ (~Optimized => DelayedByEarlier(p, q, m)')
      <3>1. /\ q \in Process
            /\ OnePlace(p, q, m) /\ Timely(p, q, m)
            /\ ~Optimized => DelayedByEarlier(p, q, m)
        BY ProcessFacts DEF IInv, RequestInOnePlace, TimeInv, DelayInv
      <3>2. /\ RequestSent(p, q, m)' <=> RequestSent(p, q, m)
            /\ AgreementSent(p, q, m)' <=> AgreementSent(p, q, m)
            /\ AtMostOnce(chan[p][q], "MUTEX_REQUEST", m)' <=> AtMostOnce(chan[p][q], "MUTEX_REQUEST", m)
            /\ AtMostOnce(chan[q][p], "MUTEX_AGREEMENT", m)' <=> AtMostOnce(chan[q][p], "MUTEX_AGREEMENT", m)
            /\ Delayed(p, q, m)' <=> Delayed(p, q, m)
            /\ Counted(p, q, m)' <=> Counted(p, q, m)
            /\ RequestTimes(chan[p][q], m, queuedMutexes[p][m])' <=> RequestTimes(chan[p][q], m, queuedMutexes[p][m])
        BY <1>1, <1>3 DEF RequestSent, AgreementSent, Delayed, Counted
      <3>3. /\ RequestInHand(p, q, m)' <=> RequestInHand(p, q, m)
            /\ RequestInHand(p, q, m)' => recv'[q] = recv[q]
            /\ AgreementInHand(p, q, m)' <=> AgreementInHand(p, q, m)
        BY <1>2, <3>1 DEF RequestInHand, AgreementInHand, HeldInHand, InHand, MutexType
      <3>4. OnePlace(p, q, m)'
        BY <1>1, <3>1, <3>2, <3>3 DEF OnePlace, Asked, Answered
      <3>5. Granted(p, q, m)' <=> Granted(p, q, m)
        BY <1>1, <3>2, <3>3 DEF Granted, Answered
      <3>6. Timely(p, q, m)'
        BY <1>1, <1>3, <3>1, <3>2, <3>3, <3>5 DEF Timely
      <3>7. ~Optimized => DelayedByEarlier(p, q, m)'
        BY <1>1, <3>1, <3>2 DEF DelayedByEarlier
      <3> QED
        BY <3>4, <3>6, <3>7
    <2> QED
      BY <2>1, <2>2, ProcessFacts DEF IInv, RequestInOnePlace, TimeInv, DelayInv
  <1>4. CASE /\ R \in SUBSET Process /\ type \in MessageType /\ msg \in Message
             /\ Send(s, R, type, msg)
    <2>0. type # "MUTEX_REQUEST" /\ type # "MUTEX_AGREEMENT"
      BY DEF OtherComponent, MutexType
    <2>1. /\ clock' \in [Process -> Nat]
          /\ chan' \in [Process -> [Process -> Seq(Packet)]]
          /\ \A p \in Process : clock[p] <= clock'[p]
      BY <1>0, <1>4, <2>0, SendEffect
    <2>2. TypeOK'
      BY <1>1, <1>2, <2>1 DEF IInv, TypeOK, CommTypeOK
    <2>3. PacketInv'
      <3>1. \A p, q \in Process : \A i \in 1 .. Len(chan'[p][q]) : Genuine(chan'[p][q][i], p)
        BY <1>0, <1>4, <2>0, SendGenuine
      <3> QED
        BY <1>0, <1>2, <3>1 DEF PacketInv
    <2>4. ASSUME NEW p \in Process, NEW m \in MutexName
          PROVE  /\ queuedMutexes[p][m] \in Nat /\ clock[p] \in Nat /\ clock'[p] \in Nat
                 /\ clock[p] <= clock'[p]
                 /\ Queued(p, m)'
      <3>1. /\ queuedMutexes[p][m] \in Nat /\ clock[p] \in Nat /\ clock'[p] \in Nat
            /\ clock[p] <= clock'[p]
        BY <2>1 DEF IInv, TypeOK, CommTypeOK
      <3>2. Queued(p, m)
        BY DEF IInv, QueuedInv
      <3> QED
        BY <1>1, <3>1, <3>2 DEF Queued
    <2>5. ASSUME NEW p \in Process, NEW q \in OtherProcesses(p), NEW m \in MutexName
          PROVE  OnePlace(p, q, m)' /\ Timely(p, q, m)' /\ (~Optimized => DelayedByEarlier(p, q, m)')
      <3>1. /\ q \in Process
            /\ OnePlace(p, q, m) /\ Timely(p, q, m)
            /\ ~Optimized => DelayedByEarlier(p, q, m)
        BY ProcessFacts DEF IInv, RequestInOnePlace, TimeInv, DelayInv
      <3>2. /\ RequestSent(p, q, m)' <=> RequestSent(p, q, m)
            /\ AtMostOnce(chan[p][q], "MUTEX_REQUEST", m)
                 => AtMostOnce(chan[p][q], "MUTEX_REQUEST", m)'
        BY <1>0, <1>4, <2>0, <3>1, SendElsewhere DEF RequestSent
      <3>3. /\ AgreementSent(p, q, m)' <=> AgreementSent(p, q, m)
            /\ AtMostOnce(chan[q][p], "MUTEX_AGREEMENT", m)
                 => AtMostOnce(chan[q][p], "MUTEX_AGREEMENT", m)'
        BY <1>0, <1>4, <2>0, <3>1, SendElsewhere DEF AgreementSent
      <3>4. /\ RequestInHand(p, q, m)' <=> RequestInHand(p, q, m)
            /\ RequestInHand(p, q, m)' => recv'[q] = recv[q]
            /\ AgreementInHand(p, q, m)' <=> AgreementInHand(p, q, m)
        BY <1>2, <3>1 DEF RequestInHand, AgreementInHand, HeldInHand, InHand, MutexType
      <3>5. /\ Delayed(p, q, m)' <=> Delayed(p, q, m)
            /\ Counted(p, q, m)' <=> Counted(p, q, m)
        BY <1>1 DEF Delayed, Counted
      <3>6. OnePlace(p, q, m)'
        BY <1>1, <3>1, <3>2, <3>3, <3>4, <3>5 DEF OnePlace, Asked, Answered
      <3>7. RequestTimes(chan'[p][q], m, queuedMutexes[p][m])
        BY <1>0, <1>4, <2>0, <3>1, SendTimes DEF Timely
      <3>8. Granted(p, q, m)' <=> Granted(p, q, m)
        BY <1>1, <3>3, <3>4, <3>5 DEF Granted, Answered
      <3>9. Timely(p, q, m)'
        <4>1. queuedMutexes[p][m] < clock[q] => queuedMutexes[p][m] < clock'[q]
          BY <2>4, <3>1
        <4> QED
          BY <1>1, <3>1, <3>4, <3>5, <3>7, <3>8, <4>1 DEF Timely
      <3>10. ~Optimized => DelayedByEarlier(p, q, m)'
        BY <1>1, <3>1, <3>5 DEF DelayedByEarlier
      <3> QED
        BY <3>6, <3>9, <3>10
    <2> QED
      BY <2>2, <2>3, <2>4, <2>5, ProcessFacts
      DEF IInv, QueuedInv, RequestInOnePlace, TimeInv, DelayInv
  <1> QED
    BY <1>3, <1>4 DEF OtherComponent, PacketStep

(* An agreement is counted from p's hand, and the mutex held with all of     *)
(* them counted.                                                             *)
LEMMA AgreementsCounted ==
  ASSUME IInv, [Next]_vars, NEW p \in Process, NEW q \in OtherProcesses(p), NEW m \in MutexName
  PROVE  /\ Counted(p, q, m)' => Counted(p, q, m) \/ AgreementInHand(p, q, m)
         /\ (phase[p][m] = "held")' => phase[p][m] = "held" \/ Counted(p, q, m)
  <1>0. TypeOK
    BY DEF IInv
  <1>1. ASSUME NEW r \in Process, NEW n \in MutexName,
               Subscribe(r, n) \/ Unlock(r, n) \/ Queue(r, n) \/ Released(r, n)
        PROVE  /\ UNCHANGED receivedAgreements
               /\ (phase[p][m] = "held")' => phase[p][m] = "held"
    <2>1. PICK ph : ph # "held" /\ phase' = [phase EXCEPT ![r][n] = ph]
      BY <1>1 DEF Subscribe, Unlock, Queue, Released, SetPhase
    <2>2. phase'[p][m] = IF p = r /\ m = n THEN ph ELSE phase[p][m]
      BY <1>0, <2>1 DEF TypeOK
    <2> QED
      BY <1>1, <2>1, <2>2 DEF Subscribe, Unlock, Queue, Released
  <1>2. ASSUME NEW r \in Process, NEW n \in MutexName, Acquired(r, n)
        PROVE  /\ Counted(p, q, m)' => Counted(p, q, m)
               /\ (phase[p][m] = "held")' => phase[p][m] = "held" \/ Counted(p, q, m)
    <2>1. \A s \in OtherProcesses(r) : Counted(r, s, n)
      BY <1>2, AllAgreed DEF Acquired, AreAgreementsComplete, IInv, QueuedInv, Queued, Counted
    <2>2. /\ receivedAgreements'[p][m] \subseteq receivedAgreements[p][m]
          /\ phase'[p][m] = "held" => phase[p][m] = "held" \/ (p = r /\ m = n)
      BY <1>0, <1>2 DEF Acquired, SetPhase, TypeOK
    <2> QED
      BY <2>1, <2>2 DEF Counted
  <1>3. ASSUME NEW r \in Process, AddAgreement(r)
        PROVE  /\ UNCHANGED phase
               /\ Counted(p, q, m)' => Counted(p, q, m) \/ AgreementInHand(p, q, m)
    <2>1. \/ receivedAgreements'[p][m] = receivedAgreements[p][m]
          \/ /\ p = r /\ m = recv[r].message
             /\ receivedAgreements'[p][m] = receivedAgreements[p][m] \cup {recv[r].source}
      BY <1>0, <1>3 DEF AddAgreement, TypeOK
    <2> QED
      BY <1>3, <2>1 DEF AddAgreement, Counted, AgreementInHand, HeldInHand
  <1>4. ASSUME NEW r \in Process, NEW n \in MutexName, NEW s \in Process, AnswerDelayed(r, n, s)
        PROVE  UNCHANGED <<phase, receivedAgreements>>
    BY <1>4 DEF AnswerDelayed
  <1>5. ASSUME NEW r \in Process, ReceiveAny(r) \/ ProcessRequest(r)
        PROVE  UNCHANGED <<phase, receivedAgreements>>
    BY <1>5 DEF ReceiveAny, ProcessRequest, mutexVars
  <1>6. UNCHANGED vars => UNCHANGED <<phase, receivedAgreements>>
    BY DEF vars, mutexVars
  <1>7. UNCHANGED receivedAgreements => (Counted(p, q, m)' <=> Counted(p, q, m))
    BY DEF Counted
  <1> QED
    BY <1>1, <1>2, <1>3, <1>4, <1>5, <1>6, <1>7 DEF Next, InCall, Receiver, Finished

(* A holder has not agreed to anybody's outstanding request. *)
LEMMA HolderHasNotAgreed ==
  ASSUME IInv, NEW p \in Process, NEW q \in OtherProcesses(p), NEW m \in MutexName,
         phase[q][m] = "held"
  PROVE  ~Answered(p, q, m) /\ ~Counted(p, q, m) /\ phase[p][m] # "held"
  <1>1. q \in Process /\ p \in OtherProcesses(q)
    BY ProcessFacts
  <1>2. Timely(p, q, m) /\ Timely(q, p, m) /\ OnePlace(p, q, m)
    BY <1>1 DEF IInv, TimeInv, RequestInOnePlace
  <1>3. queuedMutexes[p][m] \in Nat /\ queuedMutexes[q][m] \in Nat /\ p \in Nat /\ q \in Nat
    BY <1>1, ProcessFacts DEF IInv, TypeOK
  <1>4. ASSUME Granted(p, q, m)
        PROVE  FALSE
    <2>1. phase[p][m] \in {"waiting", "held"}
      BY <1>2, <1>4 DEF Granted, OnePlace
    <2>2. /\ Precedes(queuedMutexes[p][m], p, queuedMutexes[q][m], q)
          /\ Precedes(queuedMutexes[q][m], q, queuedMutexes[p][m], p)
      BY <1>2, <1>4, <2>1 DEF Timely, Granted
    <2> QED
      BY <1>3, <2>2 DEF Precedes
  <1> QED
    BY <1>4 DEF Granted

-----------------------------------------------------------------------------
(* What follows from the invariant. *)

LEMMA OthersOf == \A p, q \in Process : p # q => q \in OtherProcesses(p)
  BY ProcessFacts

LEMMA ExclusionFromInv == IInv => MutualExclusion
  <1> SUFFICES ASSUME IInv, NEW p \in Process, NEW q \in Process, NEW m \in MutexName,
                      phase[p][m] = "held", phase[q][m] = "held", p # q
               PROVE  FALSE
    BY DEF MutualExclusion
  <1>1. Timely(p, q, m) /\ Timely(q, p, m)
    BY OthersOf DEF IInv, TimeInv
  <1>2. /\ Precedes(queuedMutexes[p][m], p, queuedMutexes[q][m], q)
        /\ Precedes(queuedMutexes[q][m], q, queuedMutexes[p][m], p)
    BY <1>1 DEF Timely, Granted
  <1>3. queuedMutexes[p][m] \in Nat /\ queuedMutexes[q][m] \in Nat /\ p \in Nat /\ q \in Nat
    BY ProcessFacts DEF IInv, TypeOK
  <1> QED
    BY <1>2, <1>3 DEF Precedes

LEMMA OrderFromInv == IInv => HolderRequestedFirst
  <1> SUFFICES ASSUME IInv, NEW p \in Process, NEW q \in Process, NEW m \in MutexName,
                      p # q, phase[p][m] = "held", phase[q][m] \in {"waiting", "held"}
               PROVE  Precedes(queuedMutexes[p][m], p, queuedMutexes[q][m], q)
    BY DEF HolderRequestedFirst
  <1>1. Timely(p, q, m)
    BY OthersOf DEF IInv, TimeInv
  <1> QED
    BY <1>1 DEF Timely, Granted

LEMMA ExpectedFromInv == IInv => NoUnexpectedAgreement
  <1> SUFFICES ASSUME IInv, NEW p \in Process, InHand(p, "MUTEX_AGREEMENT")
               PROVE  /\ AgreementSubscribed(p, recv[p].message)
                      /\ queuedMutexes[p][recv[p].message] # 0
    BY DEF NoUnexpectedAgreement
  <1>1. PICK q \in OtherProcesses(p) : Genuine(recv[p], q)
    BY DEF IInv, PacketInv, InHand
  <1> DEFINE m == recv[p].message
  <1>2. m \in MutexName /\ AgreementInHand(p, q, m)
    BY <1>1 DEF Genuine, InHand, AgreementInHand, HeldInHand
  <1>3. OnePlace(p, q, m) /\ Queued(p, m)
    BY <1>2 DEF IInv, RequestInOnePlace, QueuedInv
  <1> HIDE DEF m
  <1>4. phase[p][m] = "waiting"
    BY <1>2, <1>3 DEF OnePlace, Answered
  <1> QED
    BY <1>3, <1>4 DEF Queued, AgreementSubscribed, m

LEMMA NoDelayFromInv == IInv /\ ~Optimized => NoMutualDelay
  <1> SUFFICES ASSUME IInv, ~Optimized, NEW p \in Process, NEW q \in Process,
                      NEW m \in MutexName, p # q, Delayed(p, q, m), Delayed(q, p, m)
               PROVE  FALSE
    BY DEF NoMutualDelay, Delayed
  <1>1. DelayedByEarlier(p, q, m) /\ DelayedByEarlier(q, p, m)
    BY OthersOf DEF IInv, DelayInv
  <1>2. /\ Precedes(queuedMutexes[q][m], q, queuedMutexes[p][m], p)
        /\ Precedes(queuedMutexes[p][m], p, queuedMutexes[q][m], q)
    BY <1>1 DEF DelayedByEarlier
  <1>3. queuedMutexes[p][m] \in Nat /\ queuedMutexes[q][m] \in Nat /\ p \in Nat /\ q \in Nat
    BY ProcessFacts DEF IInv, TypeOK
  <1> QED
    BY <1>2, <1>3 DEF Precedes

(* Mutual exclusion: no two processes are between lock() and unlock() of the *)
(* same mutex, whatever the number of processes and with either communicator.*)
THEOREM Exclusion == Spec => []MutualExclusion
  BY Invariant, ExclusionFromInv, PTL

(* acquireMutex grants a mutex in the order of Lamport times and ranks.      *)
THEOREM Order == Spec => []HolderRequestedFirst
  BY Invariant, OrderFromInv, PTL

(* addAgreement and threadFunction never throw over an agreement.            *)
THEOREM AgreementsExpected == Spec => []NoUnexpectedAgreement
  BY Invariant, ExpectedFromInv, PTL

(* A request is neither lost nor answered twice.                             *)
THEOREM OneAnswer == Spec => []RequestInOnePlace
  <1>1. IInv => RequestInOnePlace
    BY DEF IInv
  <1> QED
    BY <1>1, Invariant, PTL

(* With MpiSimpleCommunicator no two processes keep each other's request.    *)
THEOREM NoStandoff ==
  ASSUME ~Optimized
  PROVE  Spec => []NoMutualDelay
  <1>1. IInv => NoMutualDelay
    BY NoDelayFromInv
  <1> QED
    BY <1>1, Invariant, PTL

(* The algorithm implements the abstract lock: every step is a step of Lock  *)
(* or leaves the status of every process alone.                              *)
THEOREM Implements == Spec => ImplementsLock
  <1> DEFINE st == [p \in Process |-> [m \in MutexName |->
                     IF phase[p][m] \in {"waiting", "held"} THEN phase[p][m] ELSE "free"]]
  <1>1. Init => AbstractLock!LockInit
    BY DEF Init, AbstractLock!LockInit
  <1>2. IInv /\ IInv' /\ [Next]_vars => [AbstractLock!LockNext]_st
    <2> SUFFICES ASSUME IInv, IInv', [Next]_vars
                 PROVE  AbstractLock!LockNext \/ st' = st
      OBVIOUS
    <2>1. phase \in [Process -> [MutexName -> Phase]] /\ phase' \in [Process -> [MutexName -> Phase]]
      BY DEF IInv, TypeOK
    <2>2. ASSUME NEW p \in Process, NEW m \in MutexName,
                 Subscribe(p, m) \/ (\E q \in Process : AnswerDelayed(p, m, q)) \/ Released(p, m)
          PROVE  st' = st
      <3>1. \/ phase' = phase
            \/ phase[p][m] = "free" /\ phase' = [phase EXCEPT ![p][m] = "subscribed"]
            \/ phase[p][m] = "releasing" /\ phase' = [phase EXCEPT ![p][m] = "free"]
        BY <2>2 DEF Subscribe, AnswerDelayed, Released, SetPhase
      <3> QED
        BY <2>1, <3>1
    <2>3. ASSUME NEW p \in Process, NEW m \in MutexName, Queue(p, m)
          PROVE  AbstractLock!Request(p, m)
      BY <2>1, <2>3 DEF Queue, SetPhase, AbstractLock!Request, AbstractLock!Move
    <2>4. ASSUME NEW p \in Process, NEW m \in MutexName, Acquired(p, m)
          PROVE  AbstractLock!Grant(p, m)
      <3>1. phase[p][m] = "waiting" /\ phase' = [phase EXCEPT ![p][m] = "held"]
        BY <2>4 DEF Acquired, SetPhase
      <3>2. MutualExclusion'
        BY ExclusionFromInv, PTL
      <3>3. \A q \in Process : phase[q][m] # "held"
        BY <2>1, <3>1, <3>2 DEF MutualExclusion
      <3>4. \A q \in Process : st[q][m] # "held"
        BY <3>3
      <3>5. st[p][m] = "waiting" /\ st' = [st EXCEPT ![p][m] = "held"]
        BY <2>1, <3>1
      <3> QED
        BY <3>4, <3>5 DEF AbstractLock!Grant, AbstractLock!Move
    <2>5. ASSUME NEW p \in Process, NEW m \in MutexName, Unlock(p, m)
          PROVE  AbstractLock!Release(p, m)
      BY <2>1, <2>5 DEF Unlock, SetPhase, AbstractLock!Release, AbstractLock!Move
    <2>6. ASSUME NEW p \in Process, Receiver(p)
          PROVE  st' = st
      BY <2>6 DEF Receiver, ReceiveAny, mutexVars, ProcessRequest, AddAgreement
    <2>7. CASE UNCHANGED vars
      BY <2>7 DEF vars, mutexVars
    <2> QED
      BY <2>2, <2>3, <2>4, <2>5, <2>6, <2>7
      DEF Next, InCall, Finished, AbstractLock!LockNext
  <1> QED
    BY <1>1, <1>2, Invariant, PTL DEF Spec, ImplementsLock, AbstractLock!LockSpec

-----------------------------------------------------------------------------
(* scoped_lock *)

(* Whoever tries has its call of lock() begun: try_lock has no third way out. *)
LEMMA TryLockWaits ==
  ASSUME TypeOK, NEW p \in Process, NEW m \in MutexName, NEW n \in MutexName,
         m # n, phase[p][m] = "held", TryLock(p, n)
  PROVE  InTryLock(p, m, n)'
  BY DEF TryLock, Subscribe, SetPhase, InTryLock, TypeOK, Phase

(* In try_lock a process does not unlock, and it leaves only with the mutex. *)
LEMMA TryLockStep ==
  ASSUME TypeOK, [Next]_vars, NEW p \in Process, NEW m \in MutexName, NEW n \in MutexName,
         m # n, InTryLock(p, m, n)
  PROVE  phase'[p][m] = "held" /\ phase'[p][n] \in {"subscribed", "waiting", "held"}
  <1>1. phase \in [Process -> [MutexName -> Phase]]
    BY DEF TypeOK
  <1>2. ASSUME NEW r \in Process, NEW l \in MutexName, Subscribe(r, l) \/ Unlock(r, l)
        PROVE  InTryLock(p, m, n)'
    <2>1. r # p
      BY <1>2 DEF Subscribe, Unlock, Idle, InTryLock
    <2> QED
      BY <1>1, <1>2, <2>1 DEF Subscribe, Unlock, SetPhase, InTryLock
  <1>3. ASSUME NEW r \in Process, NEW l \in MutexName, Queue(r, l)
        PROVE  InTryLock(p, m, n)'
    BY <1>1, <1>3 DEF Queue, SetPhase, InTryLock
  <1>4. ASSUME NEW r \in Process, NEW l \in MutexName, Acquired(r, l)
        PROVE  phase'[p][m] = "held" /\ phase'[p][n] \in {"subscribed", "waiting", "held"}
    BY <1>1, <1>4 DEF Acquired, SetPhase, InTryLock
  <1>5. ASSUME NEW r \in Process, NEW l \in MutexName,
               Released(r, l) \/ (\E q \in Process : AnswerDelayed(r, l, q))
        PROVE  InTryLock(p, m, n)'
    <2>1. \/ phase' = phase
          \/ phase[r][l] = "releasing" /\ phase' = [phase EXCEPT ![r][l] = "free"]
      BY <1>5 DEF Released, AnswerDelayed, SetPhase
    <2> QED
      BY <1>1, <2>1 DEF InTryLock
  <1>6. ASSUME NEW r \in Process, Receiver(r)
        PROVE  InTryLock(p, m, n)'
    BY <1>6 DEF Receiver, ReceiveAny, mutexVars, ProcessRequest, AddAgreement, InTryLock
  <1>7. CASE UNCHANGED vars
    BY <1>7 DEF vars, mutexVars, InTryLock
  <1> QED
    BY <1>2, <1>3, <1>4, <1>5, <1>6, <1>7 DEF Next, InCall, Finished, InTryLock

(* scoped_lock does not keep two processes from waiting for each other:      *)
(* once each has one mutex and is in try_lock of the other one's, neither    *)
(* call ever returns, in a system of any size.                               *)
THEOREM EmbraceForEver ==
  ASSUME NEW p \in Process, NEW q \in Process, NEW m \in MutexName, NEW n \in MutexName,
         p # q, m # n
  PROVE  Spec => [](Embrace(p, q, m, n) => []Embrace(p, q, m, n))
  <1>1. IInv /\ IInv' /\ [Next]_vars => (Embrace(p, q, m, n) => Embrace(p, q, m, n)')
    <2> SUFFICES ASSUME IInv, IInv', [Next]_vars, Embrace(p, q, m, n)
                 PROVE  Embrace(p, q, m, n)'
      OBVIOUS
    <2>1. TypeOK
      BY DEF IInv
    <2>2. /\ phase'[p][m] = "held" /\ phase'[p][n] \in {"subscribed", "waiting", "held"}
          /\ phase'[q][n] = "held" /\ phase'[q][m] \in {"subscribed", "waiting", "held"}
      BY <2>1, TryLockStep DEF Embrace
    <2>3. MutualExclusion'
      BY ExclusionFromInv, PTL
    <2> QED
      BY <2>2, <2>3 DEF MutualExclusion, InTryLock, Embrace
  <1> QED
    BY <1>1, Invariant, PTL DEF Spec
=============================================================================
