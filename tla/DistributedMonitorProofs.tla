---------------------- MODULE DistributedMonitorProofs ----------------------
(***************************************************************************)
(* Theorems about DistributedMonitor, for every number of processes, every *)
(* set of monitors and both communicators.                                 *)
(***************************************************************************)
EXTENDS DistributedMonitor, RicartAgrawalaProofs

IsSync(packet, m) == packet.messageType = "SYNC" /\ packet.message.name = m

HasSync(s, m) == \E i \in 1 .. Len(s) : IsSync(s[i], m)

(* Every SYNC of m in the channel is in front of every agreement to m. *)
SyncFirst(s, m) ==
  \A i, j \in 1 .. Len(s) :
    (IsSync(s[i], m) /\ s[j].messageType = "MUTEX_AGREEMENT" /\ s[j].message = m) => i < j

SyncSent(p, q, m) == HasSync(chan[q][p], m)
SyncInHand(p, q, m) == recv[p] # NoPacket /\ recv[p].source = q /\ IsSync(recv[p], m)

(* As long as a SYNC of q for m has not reached p's variables, p lacks q's   *)
(* agreement: q sent it while it held m, and agrees only after that.         *)
SyncBeforeAgreement(p, q, m) ==
  /\ SyncFirst(chan[q][p], m)
  /\ SyncSent(p, q, m) => ~AgreementInHand(p, q, m)
  /\ SyncSent(p, q, m) \/ SyncInHand(p, q, m) => ~Counted(p, q, m) /\ phase[p][m] # "held"

(* SYNC packets carry what packSyncMessage made. *)
SyncPackets ==
  /\ \A p, q \in Process : \A i \in 1 .. Len(chan[p][q]) :
       chan[p][q][i].messageType = "SYNC" => chan[p][q][i].message \in SyncMessage
  /\ \A p \in Process : InHand(p, "SYNC") => recv[p].message \in SyncMessage

SyncInv ==
  \A p \in Process : \A q \in OtherProcesses(p) : \A m \in MutexName : SyncBeforeAgreement(p, q, m)

(* The inductive invariant of the monitor. *)
MonitorInv ==
  /\ IInv
  /\ MonitorTypeOK
  /\ SyncPackets
  /\ SyncInv

(* The last SYNC of m in the channel, if there is any, carries v. *)
LastSync(s, m, v) ==
  \A i \in 1 .. Len(s) :
    (IsSync(s[i], m) /\ \A j \in 1 .. Len(s) : i < j => ~IsSync(s[j], m))
      => s[i].message.state = v

(* Once p has applied the SYNCs of q that are under way, p's variables are   *)
(* the latest ones; unless q is in an entry and has yet to send them.        *)
CatchesUp(p, q, m) ==
  stage[q][m] # "done" =>
    /\ LastSync(chan[q][p], m, latest[m])
    /\ ~SyncSent(p, q, m) /\ SyncInHand(p, q, m) => recv[p].message.state = latest[m]
    /\ ~SyncSent(p, q, m) /\ ~SyncInHand(p, q, m) => shared[p][m] = latest[m]

(* Inductive together with MonitorInv for two processes. *)
LatestInv ==
  /\ \A p \in Process : \A m \in MutexName : stage[p][m] # "start" => phase[p][m] = "held"
  /\ \A p \in Process : \A q \in OtherProcesses(p) : \A m \in MutexName : CatchesUp(p, q, m)

-----------------------------------------------------------------------------
(* Channels with SYNC packets. *)

LEMMA SyncAppend ==
  ASSUME NEW s \in Seq(Packet), NEW e \in Packet, NEW m
  PROVE  /\ HasSync(Append(s, e), m) <=> HasSync(s, m) \/ IsSync(e, m)
         /\ (SyncFirst(s, m) /\ (IsSync(e, m) => ~Holds(s, "MUTEX_AGREEMENT", m)))
              => SyncFirst(Append(s, e), m)
  <1> DEFINE n == Len(s) + 1
             a == Append(s, e)
  <1>1. /\ n - 1 = Len(s) /\ n \in Nat \ {0}
        /\ Len(a) = n
        /\ \A i \in 1 .. n - 1 : a[i] = s[i]
        /\ a[n] = e
    BY AppendFacts
  <1>2. 1 .. n = (1 .. n - 1) \cup {n} /\ \A i \in 1 .. n - 1 : i < n
    BY <1>1
  <1> HIDE DEF n, a
  <1>3. HasSync(a, m) <=> HasSync(s, m) \/ IsSync(e, m)
    BY <1>1, <1>2 DEF HasSync
  <1>4. ASSUME SyncFirst(s, m), IsSync(e, m) => ~Holds(s, "MUTEX_AGREEMENT", m),
               NEW i \in 1 .. n, NEW j \in 1 .. n,
               IsSync(a[i], m), a[j].messageType = "MUTEX_AGREEMENT", a[j].message = m
        PROVE  i < j
    <2>1. CASE i \in 1 .. n - 1 /\ j \in 1 .. n - 1
      BY <1>1, <1>4, <2>1 DEF SyncFirst
    <2>2. CASE i = n /\ j \in 1 .. n - 1
      BY <1>1, <1>4, <2>2 DEF Holds
    <2>3. CASE j = n
      <3>1. i # n
        BY <1>1, <1>4, <2>3 DEF IsSync
      <3> QED
        BY <1>2, <2>3, <3>1
    <2> QED
      BY <1>2, <2>1, <2>2, <2>3
  <1> QED
    BY <1>1, <1>3, <1>4 DEF a, SyncFirst

LEMMA SyncTail ==
  ASSUME NEW s \in Seq(Packet), s # <<>>, NEW m
  PROVE  /\ HasSync(s, m) <=> HasSync(Tail(s), m) \/ IsSync(Head(s), m)
         /\ SyncFirst(s, m) =>
              /\ SyncFirst(Tail(s), m)
              /\ Head(s).messageType = "MUTEX_AGREEMENT" /\ Head(s).message = m
                   => ~HasSync(Tail(s), m)
  <1> DEFINE n == Len(s) - 1
             t == Tail(s)
             h == Head(s)
  <1>1. /\ n + 1 = Len(s) /\ n \in Nat
        /\ Len(t) = n
        /\ \A i \in 1 .. n : t[i] = s[i + 1]
        /\ h = s[1]
    BY TailFacts
  <1>2. /\ \A i \in 1 .. n : i + 1 \in 1 .. n + 1 /\ ~(i + 1 < 1)
        /\ \A i \in 1 .. n + 1 : i # 1 => i - 1 \in 1 .. n /\ (i - 1) + 1 = i
        /\ 1 \in 1 .. n + 1
        /\ \A i, j \in 1 .. n : i + 1 < j + 1 => i < j
    BY <1>1
  <1> HIDE DEF n, t, h
  <1>3. HasSync(s, m) <=> HasSync(t, m) \/ IsSync(h, m)
    <2>1. ASSUME HasSync(t, m)
          PROVE  HasSync(s, m)
      <3>1. PICK i \in 1 .. n : IsSync(t[i], m)
        BY <1>1, <2>1 DEF HasSync
      <3>2. i + 1 \in 1 .. Len(s) /\ s[i + 1] = t[i]
        BY <1>1, <1>2
      <3> QED
        BY <3>1, <3>2 DEF HasSync
    <2>2. IsSync(h, m) => HasSync(s, m)
      BY <1>1, <1>2 DEF HasSync
    <2>3. ASSUME HasSync(s, m), ~IsSync(h, m)
          PROVE  HasSync(t, m)
      <3>1. PICK i \in 1 .. n + 1 : IsSync(s[i], m)
        BY <1>1, <2>3 DEF HasSync
      <3>2. i - 1 \in 1 .. n /\ t[i - 1] = s[i]
        BY <1>1, <1>2, <2>3, <3>1
      <3> QED
        BY <1>1, <3>1, <3>2 DEF HasSync
    <2> QED
      BY <2>1, <2>2, <2>3
  <1>4. ASSUME SyncFirst(s, m), NEW i \in 1 .. n, NEW j \in 1 .. n,
               IsSync(t[i], m), t[j].messageType = "MUTEX_AGREEMENT", t[j].message = m
        PROVE  i < j
    <2>1. i + 1 \in 1 .. Len(s) /\ j + 1 \in 1 .. Len(s) /\ s[i + 1] = t[i] /\ s[j + 1] = t[j]
      BY <1>1, <1>2
    <2>2. i + 1 < j + 1
      BY <1>4, <2>1 DEF SyncFirst
    <2> QED
      BY <1>2, <2>2
  <1>5. ASSUME SyncFirst(s, m), h.messageType = "MUTEX_AGREEMENT", h.message = m, HasSync(t, m)
        PROVE  FALSE
    <2>1. PICK i \in 1 .. n : IsSync(t[i], m)
      BY <1>1, <1>5 DEF HasSync
    <2>2. i + 1 \in 1 .. Len(s) /\ IsSync(s[i + 1], m) /\ 1 \in 1 .. Len(s)
      BY <1>1, <1>2, <2>1
    <2>3. i + 1 < 1
      BY <1>1, <1>5, <2>2 DEF SyncFirst
    <2> QED
      BY <1>2, <2>3
  <1> QED
    BY <1>1, <1>3, <1>4, <1>5 DEF t, h, SyncFirst

(* A send of anything but SYNC. *)
LEMMA OtherSend ==
  ASSUME CommTypeOK, NEW r \in Process, NEW R \in SUBSET Process,
         NEW type \in MessageType, NEW msg \in Message, Send(r, R, type, msg),
         type # "SYNC", NEW p \in Process, NEW q \in Process, NEW m
  PROVE  /\ SyncSent(p, q, m)' <=> SyncSent(p, q, m)
         /\ SyncFirst(chan[q][p], m) => SyncFirst(chan[q][p], m)'
  <1> DEFINE e == NextPacket(r, type, msg)
  <1>1. /\ chan[q][p] \in Seq(Packet)
        /\ e \in Packet /\ ~IsSync(e, m)
        /\ chan'[q][p] = IF q = r /\ p \in R THEN Append(chan[q][p], e) ELSE chan[q][p]
    <2>1. e \in Packet
      BY SendEffect
    <2>2. chan'[q][p] = IF q = r /\ p \in R THEN Append(chan[q][p], e) ELSE chan[q][p]
      BY SendChannel
    <2> QED
      BY <2>1, <2>2 DEF NextPacket, CommTypeOK, IsSync
  <1> HIDE DEF e
  <1> QED
    BY <1>1, SyncAppend DEF SyncSent

(* SYNC packets stay what packSyncMessage made. *)
LEMMA SendPackets ==
  ASSUME CommTypeOK, SyncPackets, NEW r \in Process, NEW R \in SUBSET Process,
         NEW type \in MessageType, NEW msg \in Message, Send(r, R, type, msg),
         type = "SYNC" => msg \in SyncMessage
  PROVE  \A p, q \in Process : \A i \in 1 .. Len(chan'[p][q]) :
           chan'[p][q][i].messageType = "SYNC" => chan'[p][q][i].message \in SyncMessage
  <1> DEFINE e == NextPacket(r, type, msg)
  <1>1. e \in Packet /\ (e.messageType = "SYNC" => e.message \in SyncMessage)
    BY SendEffect DEF NextPacket
  <1> SUFFICES ASSUME NEW p \in Process, NEW q \in Process, NEW i \in 1 .. Len(chan'[p][q])
               PROVE  chan'[p][q][i].messageType = "SYNC" => chan'[p][q][i].message \in SyncMessage
    OBVIOUS
  <1>2. chan[p][q] \in Seq(Packet)
    BY DEF CommTypeOK
  <1>3. chan'[p][q] = IF p = r /\ q \in R THEN Append(chan[p][q], e) ELSE chan[p][q]
    BY SendChannel
  <1> HIDE DEF e
  <1>4. CASE p = r /\ q \in R
    <2>1. chan'[p][q] = Append(chan[p][q], e)
      BY <1>3, <1>4
    <2>2. \/ i \in 1 .. Len(chan[p][q]) /\ chan'[p][q][i] = chan[p][q][i]
          \/ chan'[p][q][i] = e
      BY <1>1, <1>2, <2>1, AppendFacts
    <2> QED
      BY <1>1, <2>2 DEF SyncPackets
  <1>5. CASE ~(p = r /\ q \in R)
    <2>1. chan'[p][q] = chan[p][q]
      BY <1>3, <1>5
    <2> QED
      BY <2>1 DEF SyncPackets
  <1> QED
    BY <1>4, <1>5

LEMMA ReceivePackets ==
  ASSUME CommTypeOK, SyncPackets, NEW p \in Process, NEW q \in Process, Receive(p, q)
  PROVE  SyncPackets'
  <1>1. \A a, b \in Process : chan[a][b] \in Seq(Packet)
    BY DEF CommTypeOK
  <1>2. ASSUME NEW a \in Process, NEW b \in Process, NEW i \in 1 .. Len(chan'[a][b])
        PROVE  chan'[a][b][i].messageType = "SYNC" => chan'[a][b][i].message \in SyncMessage
    <2>1. CASE a = q /\ b = p
      <3>1. chan'[a][b] = Tail(chan[a][b]) /\ chan[a][b] # <<>>
        BY <2>1, ReceiveChannel
      <3>2. i + 1 \in 1 .. Len(chan[a][b]) /\ chan'[a][b][i] = chan[a][b][i + 1]
        BY <1>1, <1>2, <3>1, TailFacts
      <3> QED
        BY <3>2 DEF SyncPackets
    <2>2. CASE ~(a = q /\ b = p)
      <3>1. chan'[a][b] = chan[a][b]
        BY <2>2, ReceiveChannel
      <3> QED
        BY <1>2, <3>1 DEF SyncPackets
    <2> QED
      BY <2>1, <2>2
  <1>3. ASSUME NEW a \in Process, InHand(a, "SYNC")'
        PROVE  recv'[a].message \in SyncMessage
    <2>1. CASE a = p
      <3>1. 1 \in 1 .. Len(chan[q][p]) /\ Head(chan[q][p]) = chan[q][p][1]
        BY <1>1, ReceiveChannel, TailFacts
      <3>2. /\ recv'[p].messageType = chan[q][p][1].messageType
            /\ recv'[p].message = chan[q][p][1].message
        BY <3>1, ReceiveEffect
      <3> QED
        BY <1>3, <2>1, <3>1, <3>2 DEF SyncPackets, InHand
    <2>2. CASE a # p
      <3>1. recv'[a] = recv[a]
        BY <2>2, ReceiveEffect
      <3> QED
        BY <1>3, <3>1 DEF SyncPackets, InHand
    <2> QED
      BY <2>1, <2>2
  <1> QED
    BY <1>2, <1>3 DEF SyncPackets

-----------------------------------------------------------------------------
(* Steps of the exclusion algorithm. *)

(* A step after which p has less in hand, counted and held than before. *)
LEMMA Keeps ==
  ASSUME NEW p \in Process, NEW q \in Process, NEW m,
         SyncBeforeAgreement(p, q, m),
         SyncFirst(chan[q][p], m)',
         SyncSent(p, q, m)' => SyncSent(p, q, m),
         SyncInHand(p, q, m)' => SyncInHand(p, q, m),
         AgreementInHand(p, q, m)' => AgreementInHand(p, q, m),
         Counted(p, q, m)' => Counted(p, q, m),
         (phase[p][m] = "held")' => phase[p][m] = "held"
  PROVE  SyncBeforeAgreement(p, q, m)'
  BY DEF SyncBeforeAgreement

(* The callback of p is over: p has nothing in hand, the others what they had. *)
LEMMA Done ==
  ASSUME CommTypeOK, NEW r \in Process, Dispatched(r), NEW p \in Process, NEW q, NEW m
  PROVE  /\ recv'[r] = NoPacket
         /\ recv'[p] # NoPacket => recv'[p] = recv[p] /\ p # r
         /\ SyncInHand(p, q, m)' => SyncInHand(p, q, m) /\ p # r
         /\ AgreementInHand(p, q, m)' => AgreementInHand(p, q, m) /\ p # r
  <1>1. recv'[p] = IF p = r THEN NoPacket ELSE recv[p]
    BY DEF Dispatched, CommTypeOK
  <1>2. recv'[r] = NoPacket
    BY DEF Dispatched, CommTypeOK
  <1> QED
    BY <1>1, <1>2 DEF SyncInHand, IsSync, AgreementInHand, HeldInHand, InHand

LEMMA LocalSync ==
  ASSUME IInv, SyncPackets, SyncInv, UNCHANGED <<chan, recv, receivedAgreements>>,
         \A p \in Process : \A m \in MutexName :
           phase'[p][m] = "held" => phase[p][m] = "held"
  PROVE  SyncPackets' /\ SyncInv'
  <1>1. SyncPackets'
    BY DEF SyncPackets, InHand
  <1>2. ASSUME NEW p \in Process, NEW q \in OtherProcesses(p), NEW m \in MutexName
        PROVE  SyncBeforeAgreement(p, q, m)'
    <2>1. q \in Process /\ SyncBeforeAgreement(p, q, m)
      BY ProcessFacts DEF SyncInv
    <2> QED
      BY <2>1 DEF SyncBeforeAgreement, SyncSent, SyncInHand, IsSync, AgreementInHand,
         HeldInHand, InHand, Counted
  <1> QED
    BY <1>1, <1>2, ProcessFacts DEF SyncInv

LEMMA SendingSync ==
  ASSUME IInv, SyncPackets, SyncInv, NEW r \in Process, NEW R \in SUBSET Process,
         NEW type \in MessageType, NEW msg \in Message, Send(r, R, type, msg),
         type # "SYNC", UNCHANGED <<recv, receivedAgreements>>,
         \A p \in Process : \A m \in MutexName :
           phase'[p][m] = "held" => phase[p][m] = "held"
  PROVE  SyncPackets' /\ SyncInv'
  <1>0. CommTypeOK
    BY DEF IInv, TypeOK
  <1>1. SyncPackets'
    BY <1>0, SendPackets DEF SyncPackets, InHand
  <1>2. ASSUME NEW p \in Process, NEW q \in OtherProcesses(p), NEW m \in MutexName
        PROVE  SyncBeforeAgreement(p, q, m)'
    <2>1. q \in Process /\ SyncBeforeAgreement(p, q, m)
      BY ProcessFacts DEF SyncInv
    <2>2. SyncFirst(chan[q][p], m)' /\ (SyncSent(p, q, m)' <=> SyncSent(p, q, m))
      BY <1>0, <2>1, OtherSend DEF SyncBeforeAgreement
    <2>3. /\ SyncInHand(p, q, m)' <=> SyncInHand(p, q, m)
          /\ AgreementInHand(p, q, m)' <=> AgreementInHand(p, q, m)
          /\ Counted(p, q, m)' <=> Counted(p, q, m)
      BY DEF SyncInHand, IsSync, AgreementInHand, HeldInHand, InHand, Counted
    <2> QED
      BY <2>1, <2>2, <2>3, Keeps
  <1> QED
    BY <1>1, <1>2, ProcessFacts DEF SyncInv

LEMMA AcquiredSync ==
  ASSUME IInv, SyncPackets, SyncInv, NEW r \in Process, NEW n \in MutexName, Acquired(r, n)
  PROVE  SyncPackets' /\ SyncInv'
  <1>1. /\ UNCHANGED <<chan, recv>>
        /\ \A p \in Process : \A m \in MutexName :
             /\ phase'[p][m] = "held" => phase[p][m] = "held" \/ (p = r /\ m = n)
             /\ receivedAgreements'[p][m] \subseteq receivedAgreements[p][m]
    BY DEF IInv, TypeOK, Acquired, SetPhase, commVars
  <1>2. SyncPackets'
    BY <1>1 DEF SyncPackets, InHand
  <1>3. \A q \in OtherProcesses(r) : Counted(r, q, n)
    BY AllAgreed DEF Acquired, AreAgreementsComplete, IInv, QueuedInv, Queued, Counted
  <1>4. ASSUME NEW p \in Process, NEW q \in OtherProcesses(p), NEW m \in MutexName
        PROVE  SyncBeforeAgreement(p, q, m)'
    <2>1. q \in Process /\ SyncBeforeAgreement(p, q, m)
      BY ProcessFacts DEF SyncInv
    <2>2. /\ SyncFirst(chan[q][p], m)' <=> SyncFirst(chan[q][p], m)
          /\ SyncSent(p, q, m)' <=> SyncSent(p, q, m)
          /\ SyncInHand(p, q, m)' <=> SyncInHand(p, q, m)
          /\ AgreementInHand(p, q, m)' <=> AgreementInHand(p, q, m)
          /\ Counted(p, q, m)' => Counted(p, q, m)
      BY <1>1 DEF SyncSent, SyncInHand, IsSync, AgreementInHand, HeldInHand, InHand, Counted
    <2>3. p = r /\ m = n => Counted(p, q, m)
      BY <1>3
    <2> QED
      BY <1>1, <2>1, <2>2, <2>3 DEF SyncBeforeAgreement
  <1> QED
    BY <1>2, <1>4, ProcessFacts DEF SyncInv

LEMMA ProcessRequestSync ==
  ASSUME IInv, SyncPackets, SyncInv, NEW r \in Process, ProcessRequest(r)
  PROVE  SyncPackets' /\ SyncInv'
  <1>0. CommTypeOK /\ PacketInv
    BY DEF IInv, TypeOK
  <1>1. Dispatched(r) /\ recv[r] # NoPacket /\ UNCHANGED <<phase, receivedAgreements>>
    BY DEF ProcessRequest, InHand
  <1>2. PICK n \in MutexName, s \in OtherProcesses(r) :
               n = recv[r].message /\ s = recv[r].source
    BY DEF ProcessRequest, InHand, IInv, PacketInv, Genuine
  <1>3. Send(r, {s}, "MUTEX_AGREEMENT", n) \/ UNCHANGED chan
    <2>1. PICK request \in Received(r) :
            Send(r, {request.source}, "MUTEX_AGREEMENT", request.message) \/ UNCHANGED chan
      BY DEF ProcessRequest
    <2>2. request.source = s /\ request.message = n
      BY <1>0, <1>1, <1>2, ReceivedFacts
    <2> QED
      BY <2>1, <2>2
  <1>4. /\ "MUTEX_AGREEMENT" \in MessageType /\ "MUTEX_AGREEMENT" # "SYNC"
        /\ {s} \in SUBSET Process /\ n \in Message
    BY Constants, ProcessFacts
  <1>5. \A p, q \in Process : \A i \in 1 .. Len(chan'[p][q]) :
          chan'[p][q][i].messageType = "SYNC" => chan'[p][q][i].message \in SyncMessage
    BY <1>0, <1>3, <1>4, SendPackets DEF SyncPackets
  <1>6. SyncPackets'
    BY <1>0, <1>1, <1>5, Done DEF SyncPackets, InHand
  <1>7. ASSUME NEW p \in Process, NEW q \in OtherProcesses(p), NEW m \in MutexName
        PROVE  SyncBeforeAgreement(p, q, m)'
    <2>1. q \in Process /\ SyncBeforeAgreement(p, q, m)
      BY ProcessFacts DEF SyncInv
    <2>2. SyncFirst(chan[q][p], m)' /\ (SyncSent(p, q, m)' <=> SyncSent(p, q, m))
      <3>1. CASE UNCHANGED chan
        BY <2>1, <3>1 DEF SyncBeforeAgreement, SyncSent
      <3>2. CASE Send(r, {s}, "MUTEX_AGREEMENT", n)
        BY <1>0, <1>4, <2>1, <3>2, OtherSend DEF SyncBeforeAgreement
      <3> QED
        BY <1>3, <3>1, <3>2
    <2>3. /\ SyncInHand(p, q, m)' => SyncInHand(p, q, m)
          /\ AgreementInHand(p, q, m)' => AgreementInHand(p, q, m)
      BY <1>0, <1>1, Done
    <2>4. Counted(p, q, m)' <=> Counted(p, q, m)
      BY <1>1 DEF Counted
    <2> QED
      BY <1>1, <2>1, <2>2, <2>3, <2>4, Keeps
  <1> QED
    BY <1>6, <1>7, ProcessFacts DEF SyncInv

LEMMA AddAgreementSync ==
  ASSUME IInv, SyncPackets, SyncInv, NEW r \in Process, AddAgreement(r)
  PROVE  SyncPackets' /\ SyncInv'
  <1> DEFINE n == recv[r].message
             s == recv[r].source
  <1>0. CommTypeOK
    BY DEF IInv, TypeOK
  <1>1. n \in MutexName /\ s \in OtherProcesses(r) /\ s \in Process
    BY ProcessFacts DEF AddAgreement, InHand, IInv, PacketInv, Genuine
  <1>2. Dispatched(r) /\ UNCHANGED <<chan, phase>> /\ AgreementInHand(r, s, n)
    BY DEF AddAgreement, AgreementInHand, HeldInHand
  <1>3. \A p \in Process : \A m \in MutexName :
          receivedAgreements'[p][m] = IF p = r /\ m = n
                                      THEN receivedAgreements[p][m] \cup {s}
                                      ELSE receivedAgreements[p][m]
    BY <1>1 DEF IInv, TypeOK, AddAgreement
  <1> HIDE DEF n, s
  <1>4. SyncPackets'
    BY <1>0, <1>2, Done DEF SyncPackets, InHand
  <1>5. ASSUME NEW p \in Process, NEW q \in OtherProcesses(p), NEW m \in MutexName
        PROVE  SyncBeforeAgreement(p, q, m)'
    <2>1. q \in Process /\ SyncBeforeAgreement(p, q, m)
      BY ProcessFacts DEF SyncInv
    <2>2. /\ SyncFirst(chan[q][p], m)' <=> SyncFirst(chan[q][p], m)
          /\ SyncSent(p, q, m)' <=> SyncSent(p, q, m)
      BY <1>2 DEF SyncSent
    <2>3. /\ SyncInHand(p, q, m)' => SyncInHand(p, q, m) /\ p # r
          /\ AgreementInHand(p, q, m)' => AgreementInHand(p, q, m)
      BY <1>0, <1>2, Done
    <2>4. Counted(p, q, m)' => Counted(p, q, m) \/ (p = r /\ q = s /\ m = n)
      BY <1>3 DEF Counted
    <2>5. p = r /\ q = s /\ m = n => AgreementInHand(p, q, m)
      BY <1>2
    <2> QED
      BY <1>2, <2>1, <2>2, <2>3, <2>4, <2>5 DEF SyncBeforeAgreement
  <1> QED
    BY <1>4, <1>5, ProcessFacts DEF SyncInv

LEMMA ReceiveSync ==
  ASSUME IInv, SyncPackets, SyncInv, NEW r \in Process, ReceiveAny(r)
  PROVE  SyncPackets' /\ SyncInv'
  <1>0. CommTypeOK
    BY DEF IInv, TypeOK
  <1>1. PICK s \in OtherProcesses(r) : Receive(r, s)
    BY DEF ReceiveAny
  <1>2. s \in Process
    BY ProcessFacts
  <1>3. UNCHANGED <<phase, receivedAgreements>>
    BY DEF ReceiveAny, mutexVars
  <1>4. SyncPackets'
    BY <1>0, <1>1, <1>2, ReceivePackets
  <1> DEFINE h == Head(chan[s][r])
  <1>5. /\ recv'[r].messageType = h.messageType /\ recv'[r].message = h.message
        /\ recv'[r].source = s
        /\ recv[r] = NoPacket /\ recv'[r] # NoPacket
        /\ \A p \in Process : p # r => recv'[p] = recv[p]
    <2>1. Genuine(h, s)
      BY <1>0, <1>1, <1>2, ReceiveGenuine DEF IInv
    <2>2. /\ recv'[r].messageType = h.messageType /\ recv'[r].message = h.message
          /\ recv'[r].source = h.source
          /\ recv[r] = NoPacket /\ recv'[r] # NoPacket
          /\ \A p \in Process : p # r => recv'[p] = recv[p]
      BY <1>0, <1>1, <1>2, ReceiveEffect
    <2> QED
      BY <2>1, <2>2 DEF Genuine
  <1>6. ASSUME NEW p \in Process, NEW q \in OtherProcesses(p), NEW m \in MutexName
        PROVE  SyncBeforeAgreement(p, q, m)'
    <2>1. q \in Process /\ SyncBeforeAgreement(p, q, m)
      BY ProcessFacts DEF SyncInv
    <2>2. Counted(p, q, m)' <=> Counted(p, q, m)
      BY <1>3 DEF Counted
    <2>3. CASE p = r /\ q = s
      <3>1. chan[q][p] \in Seq(Packet) /\ chan[q][p] # <<>> /\ chan'[q][p] = Tail(chan[q][p])
        BY <1>0, <1>1, <1>2, <2>3, ReceiveChannel DEF CommTypeOK
      <3>2. /\ SyncSent(p, q, m) <=> SyncSent(p, q, m)' \/ IsSync(h, m)
            /\ SyncFirst(chan[q][p], m)'
            /\ h.messageType = "MUTEX_AGREEMENT" /\ h.message = m => ~SyncSent(p, q, m)'
        BY <2>1, <2>3, <3>1, SyncTail DEF SyncSent, SyncBeforeAgreement
      <3>3. /\ SyncInHand(p, q, m)' => IsSync(h, m)
            /\ AgreementInHand(p, q, m)' => h.messageType = "MUTEX_AGREEMENT" /\ h.message = m
        BY <1>5, <2>3 DEF SyncInHand, IsSync, AgreementInHand, HeldInHand, InHand
      <3> QED
        BY <1>3, <2>1, <2>2, <3>2, <3>3 DEF SyncBeforeAgreement
    <2>4. CASE ~(p = r /\ q = s)
      <3>1. chan'[q][p] = chan[q][p]
        BY <1>0, <1>1, <1>2, <2>1, <2>4, ReceiveChannel
      <3>2. /\ SyncInHand(p, q, m)' => SyncInHand(p, q, m)
            /\ AgreementInHand(p, q, m)' => AgreementInHand(p, q, m)
        BY <1>5, <2>4 DEF SyncInHand, IsSync, AgreementInHand, HeldInHand, InHand
      <3>3. /\ SyncFirst(chan[q][p], m)' <=> SyncFirst(chan[q][p], m)
            /\ SyncSent(p, q, m)' <=> SyncSent(p, q, m)
        BY <3>1 DEF SyncSent
      <3>4. SyncFirst(chan[q][p], m)
        BY <2>1 DEF SyncBeforeAgreement
      <3> QED
        BY <1>3, <2>1, <2>2, <3>2, <3>3, <3>4, Keeps
    <2> QED
      BY <2>3, <2>4
  <1> QED
    BY <1>4, <1>6, ProcessFacts DEF SyncInv

-----------------------------------------------------------------------------
(* Steps of the monitor. *)

LEMMA SyncConstants ==
  /\ SyncMessage \subseteq Message
  /\ "SYNC" \in MessageType
  /\ \A p \in Process : OtherProcesses(p) \in SUBSET Process
  BY MonitorAssumption DEF MessageType, OtherProcesses

(* What SendSync sends. *)
LEMMA SendSyncFacts ==
  ASSUME MonitorTypeOK, NEW r \in Process, NEW n \in MutexName, SendSync(r, n)
  PROVE  LET msg == [name |-> n, state |-> shared[r][n]]
         IN  /\ msg \in SyncMessage /\ msg \in Message /\ msg.name = n
             /\ Send(r, OtherProcesses(r), "SYNC", msg)
             /\ phase[r][n] = "held"
             /\ UNCHANGED <<recv, mutexVars, shared, latest>>
             /\ stage' \in [Process -> [MutexName -> Stage]]
  <1>1. shared[r][n] \in State
    BY DEF MonitorTypeOK
  <1>2. [name |-> n, state |-> shared[r][n]] \in SyncMessage
    BY <1>1 DEF SyncMessage
  <1>3. stage' \in [Process -> [MutexName -> Stage]]
    BY DEF MonitorTypeOK, SendSync, SetStage, Stage
  <1> QED
    BY <1>2, <1>3, SyncConstants DEF SendSync

LEMMA SendSyncInv ==
  ASSUME IInv, MonitorTypeOK, NEW r \in Process, NEW n \in MutexName, SendSync(r, n)
  PROVE  IInv'
  <1>1. PICK msg \in Message :
          /\ Send(r, OtherProcesses(r), "SYNC", msg)
          /\ UNCHANGED <<recv, mutexVars>>
    BY SendSyncFacts
  <1>2. /\ OtherProcesses(r) \in SUBSET Process
        /\ "SYNC" \in MessageType /\ "SYNC" \notin MutexType
    BY SyncConstants DEF MutexType
  <1>3. OtherComponent(r, OtherProcesses(r), "SYNC", msg)
    BY <1>1, <1>2 DEF OtherComponent, PacketStep
  <1> QED
    BY <1>3, OtherStep

LEMMA SendSyncSync ==
  ASSUME MonitorInv, NEW r \in Process, NEW n \in MutexName, SendSync(r, n)
  PROVE  SyncPackets' /\ SyncInv'
  <1>0. CommTypeOK
    BY DEF MonitorInv, IInv, TypeOK
  <1>1. PICK msg \in SyncMessage :
          /\ Send(r, OtherProcesses(r), "SYNC", msg)
          /\ msg \in Message /\ msg.name = n
          /\ phase[r][n] = "held"
          /\ UNCHANGED <<recv, mutexVars>>
    BY SendSyncFacts DEF MonitorInv
  <1>2. UNCHANGED <<recv, phase, receivedAgreements>>
    BY <1>1 DEF mutexVars
  <1>3. SyncPackets'
    <2>1. \A p, q \in Process : \A i \in 1 .. Len(chan'[p][q]) :
            chan'[p][q][i].messageType = "SYNC" => chan'[p][q][i].message \in SyncMessage
      BY <1>0, <1>1, SyncConstants, SendPackets DEF MonitorInv
    <2> QED
      BY <1>2, <2>1 DEF SyncPackets, InHand, MonitorInv
  <1>4. ASSUME NEW p \in Process, NEW q \in OtherProcesses(p), NEW m \in MutexName
        PROVE  SyncBeforeAgreement(p, q, m)'
    <2>1. q \in Process /\ SyncBeforeAgreement(p, q, m)
      BY ProcessFacts DEF MonitorInv, SyncInv
    <2>2. /\ SyncInHand(p, q, m)' <=> SyncInHand(p, q, m)
          /\ AgreementInHand(p, q, m)' <=> AgreementInHand(p, q, m)
          /\ Counted(p, q, m)' <=> Counted(p, q, m)
      BY <1>2 DEF SyncInHand, IsSync, AgreementInHand, HeldInHand, InHand, Counted
    <2> DEFINE e == NextPacket(r, "SYNC", msg)
    <2>3. /\ chan[q][p] \in Seq(Packet) /\ e \in Packet
          /\ IsSync(e, m) <=> m = n
          /\ chan'[q][p] = IF q = r /\ p \in OtherProcesses(r)
                           THEN Append(chan[q][p], e) ELSE chan[q][p]
      <3>1. e \in Packet
        BY <1>0, <1>1, SyncConstants, SendEffect
      <3>2. chan'[q][p] = IF q = r /\ p \in OtherProcesses(r)
                          THEN Append(chan[q][p], e) ELSE chan[q][p]
        BY <1>0, <1>1, <2>1, SendChannel
      <3>3. IsSync(e, m) <=> m = n
        BY <1>1 DEF NextPacket, IsSync
      <3> QED
        BY <1>0, <2>1, <3>1, <3>2, <3>3 DEF CommTypeOK
    <2> HIDE DEF e
    <2>4. CASE q = r /\ p \in OtherProcesses(r)
      <3>1. chan'[q][p] = Append(chan[q][p], e)
        BY <2>3, <2>4
      <3>2. m = n => ~Answered(p, q, m) /\ ~Counted(p, q, m) /\ phase[p][m] # "held"
        BY <1>1, <2>4, HolderHasNotAgreed DEF MonitorInv
      <3>3. /\ SyncSent(p, q, m)' <=> SyncSent(p, q, m) \/ m = n
            /\ SyncFirst(chan[q][p], m)'
        BY <2>1, <2>3, <3>1, <3>2, SyncAppend DEF SyncSent, SyncBeforeAgreement, Answered,
           AgreementSent
      <3> QED
        BY <1>2, <2>1, <2>2, <3>2, <3>3 DEF SyncBeforeAgreement, Answered
    <2>5. CASE ~(q = r /\ p \in OtherProcesses(r))
      <3>1. chan'[q][p] = chan[q][p]
        BY <2>3, <2>5
      <3>2. /\ SyncFirst(chan[q][p], m)' <=> SyncFirst(chan[q][p], m)
            /\ SyncSent(p, q, m)' <=> SyncSent(p, q, m)
        BY <3>1 DEF SyncSent
      <3>3. SyncFirst(chan[q][p], m)
        BY <2>1 DEF SyncBeforeAgreement
      <3> QED
        BY <1>2, <2>1, <2>2, <3>2, <3>3, Keeps
    <2> QED
      BY <2>4, <2>5
  <1> QED
    BY <1>3, <1>4, ProcessFacts DEF SyncInv

(* What RestoreState takes from the packet in hand. *)
LEMMA RestoreFacts ==
  ASSUME MonitorInv, NEW r \in Process, RestoreState(r)
  PROVE  /\ recv[r] # NoPacket /\ recv[r].messageType = "SYNC"
         /\ recv[r].message.name \in MutexName /\ recv[r].message.state \in State
         /\ recv' \in [Process -> Packet \cup {NoPacket}]
         /\ recv'[r] = NoPacket
         /\ \A p \in Process : p # r => recv'[p] = recv[p]
         /\ Dispatched(r)
         /\ UNCHANGED <<clock, chan, mutexVars, stage, latest>>
         /\ \A p \in Process : \A m \in MutexName :
              shared'[p][m] = IF p = r /\ m = recv[r].message.name
                              THEN recv[r].message.state ELSE shared[p][m]
         /\ shared' \in [Process -> [MutexName -> State]]
  <1>1. /\ InHand(r, "SYNC") /\ Dispatched(r)
        /\ UNCHANGED <<clock, chan, mutexVars, stage, latest>>
        /\ shared' = [shared EXCEPT ![r][recv[r].message.name] = recv[r].message.state]
    BY DEF RestoreState
  <1>2. recv[r].message \in SyncMessage
    BY <1>1 DEF MonitorInv, SyncPackets
  <1>3. recv[r].message.name \in MutexName /\ recv[r].message.state \in State
    BY <1>2 DEF SyncMessage
  <1>4. /\ recv' \in [Process -> Packet \cup {NoPacket}]
        /\ recv'[r] = NoPacket
        /\ \A p \in Process : p # r => recv'[p] = recv[p]
    BY <1>1 DEF Dispatched, MonitorInv, IInv, TypeOK, CommTypeOK
  <1>5. /\ shared' \in [Process -> [MutexName -> State]]
        /\ \A p \in Process : \A m \in MutexName :
             shared'[p][m] = IF p = r /\ m = recv[r].message.name
                             THEN recv[r].message.state ELSE shared[p][m]
    BY <1>1, <1>3 DEF MonitorInv, MonitorTypeOK
  <1> QED
    BY <1>1, <1>3, <1>4, <1>5 DEF InHand

LEMMA RestoreInv ==
  ASSUME MonitorInv, NEW r \in Process, RestoreState(r)
  PROVE  IInv'
  <1>1. \A msg : OtherComponent(r, {}, "SYNC", msg)
    BY RestoreFacts DEF OtherComponent, PacketStep, MutexType
  <1> QED
    BY <1>1, OtherStep DEF MonitorInv

LEMMA RestoreSync ==
  ASSUME MonitorInv, NEW r \in Process, RestoreState(r)
  PROVE  SyncPackets' /\ SyncInv'
  <1>0. CommTypeOK
    BY DEF MonitorInv, IInv, TypeOK
  <1>1. Dispatched(r) /\ UNCHANGED <<chan, phase, receivedAgreements>>
    BY RestoreFacts DEF mutexVars
  <1>2. SyncPackets'
    BY <1>0, <1>1, Done DEF SyncPackets, InHand, MonitorInv
  <1>3. ASSUME NEW p \in Process, NEW q \in OtherProcesses(p), NEW m \in MutexName
        PROVE  SyncBeforeAgreement(p, q, m)'
    <2>1. q \in Process /\ SyncBeforeAgreement(p, q, m)
      BY ProcessFacts DEF MonitorInv, SyncInv
    <2>2. /\ SyncInHand(p, q, m)' => SyncInHand(p, q, m)
          /\ AgreementInHand(p, q, m)' => AgreementInHand(p, q, m)
      BY <1>0, <1>1, Done
    <2>3. /\ SyncFirst(chan[q][p], m)' <=> SyncFirst(chan[q][p], m)
          /\ SyncSent(p, q, m)' <=> SyncSent(p, q, m)
          /\ Counted(p, q, m)' <=> Counted(p, q, m)
      BY <1>1 DEF SyncSent, Counted
    <2>4. SyncFirst(chan[q][p], m)
      BY <2>1 DEF SyncBeforeAgreement
    <2> QED
      BY <1>1, <2>1, <2>2, <2>3, <2>4, Keeps
  <1> QED
    BY <1>2, <1>3, ProcessFacts DEF SyncInv

-----------------------------------------------------------------------------
(* The invariant. *)

(* The exclusion algorithm's steps, inside a step of the monitor. *)
LEMMA MutexStep ==
  ASSUME MonitorInv, [Next]_vars
  PROVE  IInv' /\ SyncPackets' /\ SyncInv'
  <1>0. IInv /\ SyncPackets /\ SyncInv /\ CommTypeOK
    BY DEF MonitorInv, IInv, TypeOK
  <1>1. IInv'
    BY <1>0, InvStep
  <1>2. ASSUME NEW r \in Process, NEW n \in MutexName,
               Subscribe(r, n) \/ Unlock(r, n) \/ Released(r, n)
        PROVE  SyncPackets' /\ SyncInv'
    <2>1. /\ UNCHANGED <<chan, recv, receivedAgreements>>
          /\ \A p \in Process : \A m \in MutexName :
               phase'[p][m] = "held" => phase[p][m] = "held"
      BY <1>0, <1>2 DEF Subscribe, Unlock, Released, SetPhase, commVars, IInv, TypeOK
    <2> QED
      BY <1>0, <2>1, LocalSync
  <1>3. ASSUME NEW r \in Process, NEW n \in MutexName, Queue(r, n)
        PROVE  SyncPackets' /\ SyncInv'
    <2>1. /\ Send(r, OtherProcesses(r), "MUTEX_REQUEST", n)
          /\ UNCHANGED <<recv, receivedAgreements>>
          /\ \A p \in Process : \A m \in MutexName :
               phase'[p][m] = "held" => phase[p][m] = "held"
      BY <1>0, <1>3 DEF Queue, SetPhase, IInv, TypeOK
    <2>2. /\ OtherProcesses(r) \in SUBSET Process /\ n \in Message
          /\ "MUTEX_REQUEST" \in MessageType /\ "MUTEX_REQUEST" # "SYNC"
      BY Constants
    <2> QED
      BY <1>0, <2>1, <2>2, SendingSync
  <1>4. ASSUME NEW r \in Process, NEW n \in MutexName, NEW q \in Process, AnswerDelayed(r, n, q)
        PROVE  SyncPackets' /\ SyncInv'
    <2>1. /\ Send(r, {q}, "MUTEX_AGREEMENT", n)
          /\ UNCHANGED <<recv, phase, receivedAgreements>>
      BY <1>4 DEF AnswerDelayed
    <2>2. /\ {q} \in SUBSET Process /\ n \in Message
          /\ "MUTEX_AGREEMENT" \in MessageType /\ "MUTEX_AGREEMENT" # "SYNC"
      BY Constants
    <2> QED
      BY <1>0, <2>1, <2>2, SendingSync
  <1>5. ASSUME NEW r \in Process, Receiver(r)
        PROVE  SyncPackets' /\ SyncInv'
    BY <1>0, <1>5, ReceiveSync, ProcessRequestSync, AddAgreementSync DEF Receiver
  <1>6. ASSUME UNCHANGED vars
        PROVE  SyncPackets' /\ SyncInv'
    BY <1>0, <1>6, LocalSync DEF vars, commVars, mutexVars
  <1>7. ASSUME NEW r \in Process, NEW n \in MutexName,
               Subscribe(r, n) \/ Unlock(r, n) \/ InCall(r, n)
        PROVE  SyncPackets' /\ SyncInv'
    BY <1>0, <1>2, <1>3, <1>4, <1>7, AcquiredSync DEF InCall
  <1> QED
    BY <1>1, <1>5, <1>6, <1>7 DEF Next, Finished

LEMMA MonitorInvInit == MonitorInit => MonitorInv
  <1> SUFFICES ASSUME MonitorInit
               PROVE  MonitorInv
    OBVIOUS
  <1>1. IInv
    BY InvInit DEF MonitorInit
  <1>2. MonitorTypeOK
    BY <1>1, MonitorAssumption DEF MonitorInit, MonitorTypeOK, IInv, Stage
  <1>3. \A p, q \in Process : chan[p][q] = <<>> /\ Len(chan[p][q]) = 0 /\ recv[p] = NoPacket
    BY DEF MonitorInit, Init, CommInit
  <1>4. SyncPackets
    BY <1>3 DEF SyncPackets, InHand
  <1>5. ASSUME NEW p \in Process, NEW q \in OtherProcesses(p), NEW m \in MutexName
        PROVE  SyncBeforeAgreement(p, q, m)
    <2>1. Len(chan[q][p]) = 0 /\ recv[p] = NoPacket
      BY <1>3, ProcessFacts
    <2> QED
      BY <2>1 DEF SyncBeforeAgreement, SyncFirst, SyncSent, HasSync, SyncInHand
  <1> QED
    BY <1>1, <1>2, <1>4, <1>5 DEF MonitorInv, SyncInv

LEMMA MonitorInvStep == MonitorInv /\ [MonitorNext]_allVars => MonitorInv'
  <1> SUFFICES ASSUME MonitorInv, [MonitorNext]_allVars
               PROVE  MonitorInv'
    OBVIOUS
  <1>1. ASSUME [Next]_vars, UNCHANGED <<shared, latest>>,
               stage' \in [Process -> [MutexName -> Stage]]
        PROVE  MonitorInv'
    <2>1. IInv' /\ SyncPackets' /\ SyncInv'
      BY <1>1, MutexStep
    <2> QED
      BY <1>1, <2>1 DEF MonitorInv, MonitorTypeOK, IInv
  <1>2. ASSUME NEW r \in Process, NEW n \in MutexName, Enter(r, n)
        PROVE  MonitorInv'
    BY <1>1, <1>2 DEF Enter, monitorVars, Next, MonitorInv, MonitorTypeOK
  <1>3. ASSUME NEW r \in Process, NEW n \in MutexName, Body(r, n)
        PROVE  MonitorInv'
    <2>1. IInv' /\ SyncPackets' /\ SyncInv'
      BY <1>3, MutexStep DEF Body
    <2>2. PICK s \in Effect[r][shared[r][n]] :
            /\ shared' = [shared EXCEPT ![r][n] = s]
            /\ latest' = [latest EXCEPT ![n] = s]
      BY <1>3 DEF Body
    <2>3. s \in State
      <3>1. shared[r][n] \in State
        BY DEF MonitorInv, MonitorTypeOK
      <3>2. Effect[r][shared[r][n]] \subseteq State
        BY <3>1, MonitorAssumption
      <3> QED
        BY <2>2, <3>2
    <2>4. stage' = [stage EXCEPT ![r][n] = "done"]
      BY <1>3 DEF Body, SetStage
    <2> QED
      BY <2>1, <2>2, <2>3, <2>4 DEF MonitorInv, MonitorTypeOK, Stage, IInv
  <1>4. ASSUME NEW r \in Process, NEW n \in MutexName, SendSync(r, n)
        PROVE  MonitorInv'
    <2>1. UNCHANGED <<shared, latest>> /\ stage' \in [Process -> [MutexName -> Stage]]
      BY <1>4, SendSyncFacts DEF MonitorInv
    <2>2. IInv'
      BY <1>4, SendSyncInv DEF MonitorInv
    <2>3. SyncPackets' /\ SyncInv'
      BY <1>4, SendSyncSync
    <2> QED
      BY <2>1, <2>2, <2>3 DEF MonitorInv, MonitorTypeOK, IInv
  <1>5. ASSUME NEW r \in Process, NEW n \in MutexName, Leave(r, n)
        PROVE  MonitorInv'
    <2>1. stage' \in [Process -> [MutexName -> Stage]]
      BY <1>5 DEF Leave, SetStage, Stage, MonitorInv, MonitorTypeOK
    <2> QED
      BY <1>1, <1>5, <2>1 DEF Leave, Next
  <1>6. ASSUME NEW r \in Process, RestoreState(r)
        PROVE  MonitorInv'
    <2>1. /\ UNCHANGED <<stage, latest>>
          /\ shared' \in [Process -> [MutexName -> State]]
      BY <1>6, RestoreFacts
    <2>2. IInv' /\ SyncPackets' /\ SyncInv'
      BY <1>6, RestoreInv, RestoreSync
    <2> QED
      BY <2>1, <2>2 DEF MonitorInv, MonitorTypeOK, IInv
  <1>7. ASSUME [Next]_vars, UNCHANGED monitorVars
        PROVE  MonitorInv'
    BY <1>1, <1>7 DEF monitorVars, MonitorInv, MonitorTypeOK
  <1>8. ASSUME NEW r \in Process, NEW n \in MutexName, InCall(r, n), UNCHANGED monitorVars
        PROVE  MonitorInv'
    BY <1>7, <1>8 DEF Next
  <1>9. ASSUME NEW r \in Process, Receiver(r), UNCHANGED monitorVars
        PROVE  MonitorInv'
    BY <1>7, <1>9 DEF Next
  <1>10. ASSUME Finished, UNCHANGED monitorVars
         PROVE  MonitorInv'
    BY <1>7, <1>10 DEF Next
  <1>11. CASE UNCHANGED allVars
    BY <1>7, <1>11 DEF allVars
  <1> QED
    BY <1>2, <1>3, <1>4, <1>5, <1>6, <1>8, <1>9, <1>10, <1>11 DEF MonitorNext

(* The monitor keeps the invariant of the exclusion algorithm below it and   *)
(* its own: until the SYNC of an entry has been applied, its receiver lacks  *)
(* the sender's agreement.                                                   *)
THEOREM MonitorInvariant == MonitorSpec => []MonitorInv
  BY MonitorInvInit, MonitorInvStep, PTL DEF MonitorSpec

(* Types, for every number of processes. *)
THEOREM MonitorTypeCorrect == MonitorSpec => []MonitorTypeOK
  <1>1. MonitorInv => MonitorTypeOK
    BY DEF MonitorInv
  <1> QED
    BY <1>1, MonitorInvariant, PTL

(* Entries of one monitor exclude each other, SYNC packets or not. *)
THEOREM MonitorExclusion == MonitorSpec => []MutualExclusion
  <1>1. MonitorInv => MutualExclusion
    BY ExclusionFromInv DEF MonitorInv
  <1> QED
    BY <1>1, MonitorInvariant, PTL

LEMMA RestoreFromInv == MonitorInv => NoRestoreDuringEntry
  <1>1. ASSUME MonitorInv, NEW p \in Process, InHand(p, "SYNC")
        PROVE  phase[p][recv[p].message.name] # "held"
    <2>1. PICK q \in OtherProcesses(p) : Genuine(recv[p], q)
      BY <1>1 DEF MonitorInv, IInv, PacketInv, InHand
    <2> DEFINE m == recv[p].message.name
    <2>2. m \in MutexName
      BY <1>1 DEF MonitorInv, SyncPackets, SyncMessage
    <2>3. SyncInHand(p, q, m)
      BY <1>1, <2>1 DEF SyncInHand, IsSync, InHand, Genuine
    <2> QED
      BY <1>1, <2>2, <2>3 DEF MonitorInv, SyncInv, SyncBeforeAgreement
  <1> QED
    BY <1>1 DEF NoRestoreDuringEntry

(* restoreState never runs under an entry of its process. *)
THEOREM RestoreOutsideEntry == MonitorSpec => []NoRestoreDuringEntry
  BY RestoreFromInv, MonitorInvariant, PTL

-----------------------------------------------------------------------------
(* Two processes: an entry starts from the latest state. *)

LEMMA LastAppend ==
  ASSUME NEW s \in Seq(Packet), NEW e \in Packet, NEW m, NEW v,
         IF IsSync(e, m) THEN e.message.state = v ELSE LastSync(s, m, v)
  PROVE  LastSync(Append(s, e), m, v)
  <1> DEFINE n == Len(s) + 1
             a == Append(s, e)
  <1>1. /\ n - 1 = Len(s) /\ n \in Nat \ {0}
        /\ Len(a) = n
        /\ \A i \in 1 .. n - 1 : a[i] = s[i]
        /\ a[n] = e
    BY AppendFacts
  <1>2. 1 .. n = (1 .. n - 1) \cup {n} /\ (\A i \in 1 .. n - 1 : i < n) /\ n \in 1 .. n
    BY <1>1
  <1> HIDE DEF n, a
  <1>3. ASSUME NEW i \in 1 .. n, IsSync(a[i], m),
               \A j \in 1 .. n : i < j => ~IsSync(a[j], m)
        PROVE  a[i].message.state = v
    <2>1. CASE i = n
      BY <1>1, <1>3, <2>1
    <2>2. CASE i \in 1 .. n - 1
      <3>1. ~IsSync(e, m)
        BY <1>1, <1>2, <1>3, <2>2
      <3>2. LastSync(s, m, v)
        BY <3>1
      <3>3. IsSync(s[i], m) /\ a[i] = s[i]
        BY <1>1, <1>3, <2>2
      <3>4. \A j \in 1 .. n - 1 : i < j => ~IsSync(s[j], m)
        BY <1>1, <1>2, <1>3
      <3> QED
        BY <1>1, <2>2, <3>2, <3>3, <3>4 DEF LastSync
    <2> QED
      BY <1>2, <2>1, <2>2
  <1> QED
    BY <1>1, <1>3 DEF a, LastSync

LEMMA LastTail ==
  ASSUME NEW s \in Seq(Packet), s # <<>>, NEW m, NEW v, LastSync(s, m, v)
  PROVE  /\ LastSync(Tail(s), m, v)
         /\ IsSync(Head(s), m) /\ ~HasSync(Tail(s), m) => Head(s).message.state = v
  <1> DEFINE n == Len(s) - 1
             t == Tail(s)
             h == Head(s)
  <1>1. /\ n + 1 = Len(s) /\ n \in Nat
        /\ Len(t) = n
        /\ \A i \in 1 .. n : t[i] = s[i + 1]
        /\ h = s[1]
    BY TailFacts
  <1>2. /\ \A i \in 1 .. n : i + 1 \in 1 .. n + 1
        /\ \A i \in 1 .. n + 1 : i # 1 => i - 1 \in 1 .. n /\ (i - 1) + 1 = i
        /\ 1 \in 1 .. n + 1
        /\ \A i \in 1 .. n : \A j \in 1 .. n + 1 : i + 1 < j => j # 1 /\ i < j - 1
        /\ \A j \in 1 .. n + 1 : 1 < j => j # 1
    BY <1>1
  <1> HIDE DEF n, t, h
  <1>3. ASSUME NEW i \in 1 .. n, IsSync(t[i], m),
               \A j \in 1 .. n : i < j => ~IsSync(t[j], m)
        PROVE  t[i].message.state = v
    <2>1. i + 1 \in 1 .. Len(s) /\ IsSync(s[i + 1], m) /\ s[i + 1] = t[i]
      BY <1>1, <1>2, <1>3
    <2>2. ASSUME NEW j \in 1 .. Len(s), i + 1 < j
          PROVE  ~IsSync(s[j], m)
      <3>1. j - 1 \in 1 .. n /\ i < j - 1 /\ s[j] = t[j - 1]
        BY <1>1, <1>2, <2>2
      <3> QED
        BY <1>3, <3>1
    <2> QED
      BY <2>1, <2>2 DEF LastSync
  <1>4. ASSUME IsSync(h, m), ~HasSync(t, m)
        PROVE  h.message.state = v
    <2>1. ASSUME NEW j \in 1 .. Len(s), 1 < j
          PROVE  ~IsSync(s[j], m)
      <3>1. j - 1 \in 1 .. n /\ s[j] = t[j - 1]
        BY <1>1, <1>2, <2>1
      <3> QED
        BY <1>1, <1>4, <3>1 DEF HasSync
    <2> QED
      BY <1>1, <1>2, <1>4, <2>1 DEF LastSync
  <1> QED
    BY <1>1, <1>3, <1>4 DEF t, h, LastSync

LEMMA OtherSendLast ==
  ASSUME CommTypeOK, NEW r \in Process, NEW R \in SUBSET Process,
         NEW type \in MessageType, NEW msg \in Message, Send(r, R, type, msg),
         type # "SYNC", NEW p \in Process, NEW q \in Process, NEW m, NEW v,
         LastSync(chan[q][p], m, v)
  PROVE  LastSync(chan'[q][p], m, v)
  <1> DEFINE e == NextPacket(r, type, msg)
  <1>1. e \in Packet
    BY SendEffect
  <1>2. chan'[q][p] = IF q = r /\ p \in R THEN Append(chan[q][p], e) ELSE chan[q][p]
    BY SendChannel
  <1>3. ~IsSync(e, m) /\ chan[q][p] \in Seq(Packet)
    BY DEF NextPacket, CommTypeOK, IsSync
  <1> HIDE DEF e
  <1> QED
    BY <1>1, <1>2, <1>3, LastAppend

(* A step that leaves the SYNC packets and the variables alone. *)
LEMMA CatchesUpStill ==
  ASSUME NEW p \in Process, NEW q \in Process, NEW m \in MutexName,
         CatchesUp(p, q, m),
         LastSync(chan[q][p], m, latest[m]) => LastSync(chan'[q][p], m, latest[m]),
         SyncSent(p, q, m)' <=> SyncSent(p, q, m),
         SyncInHand(p, q, m)' <=> SyncInHand(p, q, m),
         SyncInHand(p, q, m) => recv'[p] = recv[p],
         UNCHANGED <<shared, latest>>, stage'[q][m] # "done" => stage[q][m] # "done"
  PROVE  CatchesUp(p, q, m)'
  BY DEF CatchesUp

(* Nobody else is in an entry, no SYNC is under way: p has the latest state. *)
LEMMA HolderIsUpToDate ==
  ASSUME MonitorInv, LatestInv, NEW p \in Process, NEW q \in OtherProcesses(p),
         NEW m \in MutexName, phase[p][m] = "held"
  PROVE  /\ shared[p][m] = latest[m]
         /\ ~SyncSent(p, q, m) /\ ~SyncInHand(p, q, m)
         /\ stage[q][m] = "start"
  <1>1. q \in Process /\ p # q
    BY ProcessFacts
  <1>2. SyncBeforeAgreement(p, q, m) /\ CatchesUp(p, q, m)
    BY DEF MonitorInv, SyncInv, LatestInv
  <1>3. phase[q][m] # "held"
    BY <1>1, ExclusionFromInv DEF MonitorInv, MutualExclusion
  <1>4. stage[q][m] = "start"
    BY <1>1, <1>3 DEF LatestInv
  <1>5. ~SyncSent(p, q, m) /\ ~SyncInHand(p, q, m)
    BY <1>2 DEF SyncBeforeAgreement
  <1> QED
    BY <1>2, <1>4, <1>5 DEF CatchesUp

LEMMA TwoProcesses ==
  ASSUME NumberOfProcesses = 2, NEW p \in Process, NEW q \in OtherProcesses(p), NEW r \in Process
  PROVE  q \in Process /\ p # q /\ (r = p \/ r = q)
  BY DEF Process, OtherProcesses

(* The callback of r is over, and it was not a SYNC. *)
LEMMA DoneNotSync ==
  ASSUME CommTypeOK, NEW r \in Process, Dispatched(r), recv[r].messageType # "SYNC",
         NEW p \in Process, NEW q, NEW m
  PROVE  /\ SyncInHand(p, q, m)' <=> SyncInHand(p, q, m)
         /\ SyncInHand(p, q, m) => recv'[p] = recv[p]
  <1>1. recv'[p] = IF p = r THEN NoPacket ELSE recv[p]
    BY DEF Dispatched, CommTypeOK
  <1> QED
    BY <1>1 DEF SyncInHand, IsSync

(* Steps of the exclusion algorithm. *)
LEMMA MutexLatest ==
  ASSUME MonitorInv, LatestInv, UNCHANGED <<shared, latest>>,
         NEW p \in Process, NEW q \in OtherProcesses(p), NEW m \in MutexName,
         stage'[q][m] # "done" => stage[q][m] # "done",
         [Next]_vars
  PROVE  CatchesUp(p, q, m)'
  <1>0. CommTypeOK /\ PacketInv
    BY DEF MonitorInv, IInv, TypeOK
  <1>1. q \in Process /\ CatchesUp(p, q, m)
    BY ProcessFacts DEF LatestInv
  <1>2. ASSUME UNCHANGED <<chan, recv>>
        PROVE  CatchesUp(p, q, m)'
    <2>1. /\ SyncSent(p, q, m)' <=> SyncSent(p, q, m)
          /\ SyncInHand(p, q, m)' <=> SyncInHand(p, q, m)
      BY <1>2 DEF SyncSent, SyncInHand, IsSync
    <2> QED
      BY <1>1, <1>2, <2>1, CatchesUpStill
  <1>3. ASSUME NEW r \in Process, NEW R \in SUBSET Process, NEW type \in MessageType,
               NEW msg \in Message, Send(r, R, type, msg), type # "SYNC",
               SyncInHand(p, q, m)' <=> SyncInHand(p, q, m),
               SyncInHand(p, q, m) => recv'[p] = recv[p]
        PROVE  CatchesUp(p, q, m)'
    <2>1. SyncSent(p, q, m)' <=> SyncSent(p, q, m)
      BY <1>0, <1>1, <1>3, OtherSend
    <2>2. LastSync(chan[q][p], m, latest[m]) => LastSync(chan'[q][p], m, latest[m])
      BY <1>0, <1>1, <1>3, OtherSendLast
    <2> QED
      BY <1>1, <1>3, <2>1, <2>2, CatchesUpStill
  <1>4. ASSUME UNCHANGED recv
        PROVE  /\ SyncInHand(p, q, m)' <=> SyncInHand(p, q, m)
               /\ SyncInHand(p, q, m) => recv'[p] = recv[p]
    BY <1>4 DEF SyncInHand, IsSync
  <1>5. ASSUME NEW r \in Process, NEW n \in MutexName,
               Subscribe(r, n) \/ Unlock(r, n) \/ InCall(r, n)
        PROVE  CatchesUp(p, q, m)'
    <2>1. CASE Subscribe(r, n) \/ Unlock(r, n) \/ Acquired(r, n) \/ Released(r, n)
      BY <1>2, <2>1 DEF Subscribe, Unlock, Acquired, Released, commVars
    <2>2. CASE Queue(r, n)
      <3>1. /\ OtherProcesses(r) \in SUBSET Process /\ n \in Message
            /\ "MUTEX_REQUEST" \in MessageType /\ "MUTEX_REQUEST" # "SYNC"
        BY Constants
      <3>2. Send(r, OtherProcesses(r), "MUTEX_REQUEST", n) /\ UNCHANGED recv
        BY <2>2 DEF Queue
      <3> QED
        BY <1>3, <1>4, <3>1, <3>2
    <2>3. ASSUME NEW s \in Process, AnswerDelayed(r, n, s)
          PROVE  CatchesUp(p, q, m)'
      <3>1. /\ {s} \in SUBSET Process /\ n \in Message
            /\ "MUTEX_AGREEMENT" \in MessageType /\ "MUTEX_AGREEMENT" # "SYNC"
        BY Constants
      <3>2. Send(r, {s}, "MUTEX_AGREEMENT", n) /\ UNCHANGED recv
        BY <2>3 DEF AnswerDelayed
      <3> QED
        BY <1>3, <1>4, <3>1, <3>2
    <2> QED
      BY <1>5, <2>1, <2>2, <2>3 DEF InCall
  <1>6. ASSUME NEW r \in Process, ProcessRequest(r)
        PROVE  CatchesUp(p, q, m)'
    <2>1. Dispatched(r) /\ recv[r] # NoPacket /\ recv[r].messageType # "SYNC"
      BY <1>6 DEF ProcessRequest, InHand
    <2>2. /\ SyncInHand(p, q, m)' <=> SyncInHand(p, q, m)
          /\ SyncInHand(p, q, m) => recv'[p] = recv[p]
      BY <1>0, <1>1, <2>1, DoneNotSync
    <2>3. PICK n \in MutexName, s \in OtherProcesses(r) :
                 n = recv[r].message /\ s = recv[r].source
      BY <1>6 DEF ProcessRequest, InHand, MonitorInv, IInv, PacketInv, Genuine
    <2>4. Send(r, {s}, "MUTEX_AGREEMENT", n) \/ UNCHANGED chan
      <3>1. PICK request \in Received(r) :
              Send(r, {request.source}, "MUTEX_AGREEMENT", request.message) \/ UNCHANGED chan
        BY <1>6 DEF ProcessRequest
      <3>2. request.source = s /\ request.message = n
        BY <1>0, <2>1, <2>3, ReceivedFacts
      <3> QED
        BY <3>1, <3>2
    <2>5. CASE Send(r, {s}, "MUTEX_AGREEMENT", n)
      <3>1. /\ {s} \in SUBSET Process /\ n \in Message
            /\ "MUTEX_AGREEMENT" \in MessageType /\ "MUTEX_AGREEMENT" # "SYNC"
        BY Constants, ProcessFacts
      <3> QED
        BY <1>3, <2>2, <2>5, <3>1
    <2>6. CASE UNCHANGED chan
      <3>1. SyncSent(p, q, m)' <=> SyncSent(p, q, m)
        BY <2>6 DEF SyncSent
      <3> QED
        BY <1>1, <2>2, <2>6, <3>1, CatchesUpStill
    <2> QED
      BY <2>4, <2>5, <2>6
  <1>7. ASSUME NEW r \in Process, AddAgreement(r)
        PROVE  CatchesUp(p, q, m)'
    <2>1. Dispatched(r) /\ recv[r].messageType # "SYNC" /\ UNCHANGED chan
      BY <1>7 DEF AddAgreement, InHand
    <2>2. /\ SyncInHand(p, q, m)' <=> SyncInHand(p, q, m)
          /\ SyncInHand(p, q, m) => recv'[p] = recv[p]
      BY <1>0, <1>1, <2>1, DoneNotSync
    <2>3. SyncSent(p, q, m)' <=> SyncSent(p, q, m)
      BY <2>1 DEF SyncSent
    <2> QED
      BY <1>1, <2>1, <2>2, <2>3, CatchesUpStill
  <1>8. ASSUME NEW r \in Process, NEW s \in OtherProcesses(r), Receive(r, s)
        PROVE  CatchesUp(p, q, m)'
    <2> DEFINE h == Head(chan[s][r])
    <2>0. s \in Process
      BY ProcessFacts
    <2>1. Genuine(h, s)
      BY <1>0, <1>8, <2>0, ReceiveGenuine
    <2>2. /\ recv'[r].messageType = h.messageType /\ recv'[r].message = h.message
          /\ recv'[r].source = h.source
          /\ recv[r] = NoPacket /\ recv'[r] # NoPacket
          /\ \A x \in Process : x # r => recv'[x] = recv[x]
      BY <1>0, <1>8, <2>0, ReceiveEffect
    <2>3. CASE p = r /\ q = s
      <3>1. chan[q][p] \in Seq(Packet) /\ chan[q][p] # <<>> /\ chan'[q][p] = Tail(chan[q][p])
        BY <1>0, <1>8, <2>0, <2>3, ReceiveChannel DEF CommTypeOK
      <3>2. SyncSent(p, q, m) <=> SyncSent(p, q, m)' \/ IsSync(h, m)
        BY <2>3, <3>1, SyncTail DEF SyncSent
      <3>3. LastSync(chan[q][p], m, latest[m]) =>
              /\ LastSync(chan'[q][p], m, latest[m])
              /\ IsSync(h, m) /\ ~SyncSent(p, q, m)' => h.message.state = latest[m]
        BY <2>3, <3>1, LastTail DEF SyncSent
      <3>4. SyncInHand(p, q, m)' <=> IsSync(h, m)
        BY <2>1, <2>2, <2>3 DEF SyncInHand, IsSync, Genuine
      <3>5. ~SyncInHand(p, q, m) /\ recv'[p].message = h.message
        BY <2>2, <2>3 DEF SyncInHand
      <3> QED
        BY <1>1, <3>2, <3>3, <3>4, <3>5 DEF CatchesUp
    <2>4. CASE p = r /\ q # s
      <3>1. chan'[q][p] = chan[q][p]
        BY <1>0, <1>1, <1>8, <2>0, <2>4, ReceiveChannel
      <3>2. ~SyncInHand(p, q, m) /\ ~SyncInHand(p, q, m)'
        BY <2>1, <2>2, <2>4 DEF SyncInHand, Genuine
      <3>3. SyncSent(p, q, m)' <=> SyncSent(p, q, m)
        BY <3>1 DEF SyncSent
      <3> QED
        BY <1>1, <3>1, <3>2, <3>3, CatchesUpStill
    <2>5. CASE p # r
      <3>1. chan'[q][p] = chan[q][p]
        BY <1>0, <1>1, <1>8, <2>0, <2>5, ReceiveChannel
      <3>2. recv'[p] = recv[p]
        BY <2>2, <2>5
      <3>3. /\ SyncSent(p, q, m)' <=> SyncSent(p, q, m)
            /\ SyncInHand(p, q, m)' <=> SyncInHand(p, q, m)
        BY <3>1, <3>2 DEF SyncSent, SyncInHand, IsSync
      <3> QED
        BY <1>1, <3>1, <3>2, <3>3, CatchesUpStill
    <2> QED
      BY <2>3, <2>4, <2>5
  <1>9. ASSUME NEW r \in Process, Receiver(r)
        PROVE  CatchesUp(p, q, m)'
    BY <1>6, <1>7, <1>8, <1>9 DEF Receiver, ReceiveAny
  <1>10. ASSUME UNCHANGED vars
         PROVE  CatchesUp(p, q, m)'
    BY <1>2, <1>10 DEF vars, commVars
  <1> QED
    BY <1>5, <1>9, <1>10 DEF Next, Finished

LEMMA LatestInit == MonitorInit => LatestInv
  <1> SUFFICES ASSUME MonitorInit
               PROVE  LatestInv
    OBVIOUS
  <1>1. \A p \in Process : \A m \in MutexName : stage[p][m] = "start" /\ shared[p][m] = latest[m]
    BY DEF MonitorInit
  <1>2. \A p, q \in Process : chan[q][p] = <<>> /\ recv[p] = NoPacket
    BY DEF MonitorInit, Init, CommInit
  <1>3. ASSUME NEW p \in Process, NEW q \in OtherProcesses(p), NEW m \in MutexName
        PROVE  CatchesUp(p, q, m)
    <2>0. q \in Process
      BY ProcessFacts
    <2>1. chan[q][p] = <<>> /\ Len(chan[q][p]) = 0
      BY <1>2, <2>0
    <2>2. LastSync(chan[q][p], m, latest[m]) /\ ~SyncSent(p, q, m)
      BY <2>1 DEF LastSync, SyncSent, HasSync
    <2>3. ~SyncInHand(p, q, m)
      BY <1>2 DEF SyncInHand
    <2> QED
      BY <1>1, <2>2, <2>3 DEF CatchesUp
  <1> QED
    BY <1>1, <1>3 DEF LatestInv

(* An entry of r at n that is not over keeps the mutex. *)
LEMMA StageHeld ==
  ASSUME MonitorInv, LatestInv, [MonitorNext]_allVars,
         NEW p \in Process, NEW m \in MutexName, stage'[p][m] # "start"
  PROVE  phase'[p][m] = "held"
  <1>0. /\ stage \in [Process -> [MutexName -> Stage]]
        /\ phase \in [Process -> [MutexName -> Phase]]
    BY DEF MonitorInv, MonitorTypeOK, IInv, TypeOK
  <1>1. stage[p][m] # "start" => phase[p][m] = "held"
    BY DEF LatestInv
  <1>2. ASSUME NEW r \in Process, NEW n \in MutexName, Enter(r, n)
        PROVE  phase'[p][m] = "held"
    <2>1. UNCHANGED stage /\ (phase[p][m] = "held" => phase'[p][m] = "held")
      BY <1>0, <1>2 DEF Enter, Subscribe, SetPhase, monitorVars
    <2> QED
      BY <1>1, <2>1
  <1>3. ASSUME NEW r \in Process, NEW n \in MutexName, Body(r, n) \/ SendSync(r, n)
        PROVE  phase'[p][m] = "held"
    <2>1. /\ UNCHANGED phase /\ phase[r][n] = "held"
          /\ stage'[p][m] = stage[p][m] \/ (p = r /\ m = n)
      BY <1>0, <1>3 DEF Body, SendSync, SetStage, vars, mutexVars
    <2> QED
      BY <1>1, <2>1
  <1>4. ASSUME NEW r \in Process, NEW n \in MutexName, Leave(r, n)
        PROVE  phase'[p][m] = "held"
    <2>1. stage'[r][n] = "start" /\ ((p # r \/ m # n) => stage'[p][m] = stage[p][m])
      BY <1>0, <1>4 DEF Leave, SetStage
    <2>2. (p # r \/ m # n) => phase'[p][m] = phase[p][m]
      BY <1>0, <1>4 DEF Leave, Unlock, SetPhase
    <2> QED
      BY <1>1, <2>1, <2>2
  <1>5. ASSUME NEW r \in Process, NEW n \in MutexName, InCall(r, n), UNCHANGED monitorVars
        PROVE  phase'[p][m] = "held"
    <2>1. phase[p][m] = "held" => phase'[p][m] = "held"
      <3>1. CASE Queue(r, n)
        BY <1>0, <3>1 DEF Queue, SetPhase
      <3>2. CASE Acquired(r, n)
        BY <1>0, <3>2 DEF Acquired, SetPhase
      <3>3. CASE Released(r, n)
        BY <1>0, <3>3 DEF Released, SetPhase
      <3>4. CASE \E x \in Process : AnswerDelayed(r, n, x)
        BY <3>4 DEF AnswerDelayed
      <3> QED
        BY <1>5, <3>1, <3>2, <3>3, <3>4 DEF InCall
    <2> QED
      BY <1>1, <1>5, <2>1 DEF monitorVars
  <1>6. ASSUME NEW r \in Process, RestoreState(r)
        PROVE  phase'[p][m] = "held"
    BY <1>1, <1>6 DEF RestoreState, mutexVars
  <1>7. ASSUME NEW r \in Process, Receiver(r), UNCHANGED monitorVars
        PROVE  phase'[p][m] = "held"
    <2>1. UNCHANGED phase
      BY <1>7 DEF Receiver, ReceiveAny, ProcessRequest, AddAgreement, mutexVars
    <2> QED
      BY <1>1, <1>7, <2>1 DEF monitorVars
  <1>8. ASSUME UNCHANGED <<phase, stage>>
        PROVE  phase'[p][m] = "held"
    BY <1>1, <1>8
  <1>9. (Finished /\ UNCHANGED monitorVars) \/ UNCHANGED allVars => UNCHANGED <<phase, stage>>
    BY DEF Finished, vars, mutexVars, monitorVars, allVars
  <1> QED
    BY <1>2, <1>3, <1>4, <1>5, <1>6, <1>7, <1>8, <1>9 DEF MonitorNext

LEMMA BodyLatest ==
  ASSUME NumberOfProcesses = 2, MonitorInv, LatestInv,
         NEW r \in Process, NEW n \in MutexName, Body(r, n),
         NEW p \in Process, NEW q \in OtherProcesses(p), NEW m \in MutexName
  PROVE  CatchesUp(p, q, m)'
  <1>0. /\ stage \in [Process -> [MutexName -> Stage]]
        /\ shared \in [Process -> [MutexName -> State]]
        /\ latest \in [MutexName -> State]
    BY DEF MonitorInv, MonitorTypeOK
  <1>1. q \in Process /\ p # q /\ (r = p \/ r = q) /\ CatchesUp(p, q, m)
    BY TwoProcesses DEF LatestInv
  <1>2. /\ UNCHANGED <<chan, recv>> /\ phase[r][n] = "held"
        /\ stage'[r][n] = "done"
        /\ r # q \/ m # n => stage'[q][m] = stage[q][m]
    BY <1>0, <1>1 DEF Body, SetStage, vars, commVars
  <1>3. shared'[r][n] = latest'[n] /\ (m # n => shared'[p][m] = shared[p][m] /\ latest'[m] = latest[m])
    BY <1>0 DEF Body
  <1>4. /\ SyncSent(p, q, m)' <=> SyncSent(p, q, m)
        /\ SyncInHand(p, q, m)' <=> SyncInHand(p, q, m)
    BY <1>2 DEF SyncSent, SyncInHand, IsSync
  <1>5. CASE m # n
    BY <1>1, <1>2, <1>3, <1>4, <1>5 DEF CatchesUp
  <1>6. CASE m = n /\ r = q
    BY <1>2, <1>6 DEF CatchesUp
  <1>7. CASE m = n /\ r = p
    <2>1. ~SyncSent(p, q, m) /\ ~SyncInHand(p, q, m)
      BY <1>2, <1>7, HolderIsUpToDate
    <2>2. LastSync(chan'[q][p], m, latest'[m])
      BY <1>2, <2>1 DEF SyncSent, HasSync, LastSync
    <2> QED
      BY <1>3, <1>4, <1>7, <2>1, <2>2 DEF CatchesUp
  <1> QED
    BY <1>1, <1>5, <1>6, <1>7

LEMMA SendSyncLatest ==
  ASSUME NumberOfProcesses = 2, MonitorInv, LatestInv,
         NEW r \in Process, NEW n \in MutexName, SendSync(r, n),
         NEW p \in Process, NEW q \in OtherProcesses(p), NEW m \in MutexName
  PROVE  CatchesUp(p, q, m)'
  <1>0. CommTypeOK /\ stage \in [Process -> [MutexName -> Stage]]
    BY DEF MonitorInv, MonitorTypeOK, IInv, TypeOK
  <1>1. q \in Process /\ p # q /\ (r = p \/ r = q) /\ CatchesUp(p, q, m)
    BY TwoProcesses DEF LatestInv
  <1> DEFINE msg == [name |-> n, state |-> shared[r][n]]
  <1>2. /\ msg \in Message /\ Send(r, OtherProcesses(r), "SYNC", msg)
        /\ phase[r][n] = "held" /\ UNCHANGED <<recv, shared, latest>>
    BY SendSyncFacts DEF MonitorInv
  <1>3. msg.name = n /\ msg.state = shared[r][n]
    OBVIOUS
  <1> HIDE DEF msg
  <1>4. r # q \/ m # n => stage'[q][m] = stage[q][m]
    BY <1>0, <1>1 DEF SendSync, SetStage
  <1>5. SyncInHand(p, q, m)' <=> SyncInHand(p, q, m)
    BY <1>2 DEF SyncInHand, IsSync
  <1> DEFINE e == NextPacket(r, "SYNC", msg)
  <1>6. e \in Packet /\ (IsSync(e, m) <=> m = n) /\ e.message = msg
    <2>1. e \in Packet
      BY <1>0, <1>2, SyncConstants, SendEffect
    <2> QED
      BY <1>3, <2>1 DEF NextPacket, IsSync
  <1>7. /\ chan[q][p] \in Seq(Packet)
        /\ chan'[q][p] = IF q = r /\ p \in OtherProcesses(r)
                         THEN Append(chan[q][p], e) ELSE chan[q][p]
    BY <1>0, <1>1, <1>2, SendChannel DEF CommTypeOK
  <1> HIDE DEF e
  <1>8. CASE r = q /\ m = n
    <2>1. p \in OtherProcesses(q) /\ chan'[q][p] = Append(chan[q][p], e)
      BY <1>1, <1>7, <1>8 DEF OtherProcesses
    <2>2. shared[q][m] = latest[m]
      BY <1>1, <1>2, <1>8, <2>1, HolderIsUpToDate
    <2>3. IsSync(e, m) /\ e.message.state = latest[m]
      BY <1>3, <1>6, <1>8, <2>2
    <2>4. LastSync(chan'[q][p], m, latest[m])
      BY <1>6, <1>7, <2>1, <2>3, LastAppend
    <2>5. SyncSent(p, q, m)'
      BY <1>6, <1>7, <2>1, <2>3, SyncAppend DEF SyncSent
    <2> QED
      BY <1>2, <2>4, <2>5 DEF CatchesUp
  <1>9. CASE ~(r = q /\ m = n)
    <2>1. ~(r = q) => chan'[q][p] = chan[q][p]
      BY <1>7
    <2>2. r = q => ~IsSync(e, m)
      BY <1>6, <1>9
    <2>3. /\ LastSync(chan[q][p], m, latest[m]) => LastSync(chan'[q][p], m, latest[m])
          /\ SyncSent(p, q, m)' <=> SyncSent(p, q, m)
      BY <1>6, <1>7, <2>1, <2>2, LastAppend, SyncAppend DEF SyncSent
    <2>4. stage'[q][m] = stage[q][m]
      BY <1>4, <1>9
    <2> QED
      BY <1>1, <1>2, <1>5, <2>3, <2>4, CatchesUpStill
  <1> QED
    BY <1>8, <1>9

LEMMA RestoreLatest ==
  ASSUME NumberOfProcesses = 2, MonitorInv, LatestInv, NEW r \in Process, RestoreState(r),
         NEW p \in Process, NEW q \in OtherProcesses(p), NEW m \in MutexName
  PROVE  CatchesUp(p, q, m)'
  <1>1. q \in Process /\ p # q /\ (r = p \/ r = q) /\ CatchesUp(p, q, m)
    BY TwoProcesses DEF LatestInv
  <1> DEFINE n == recv[r].message.name
  <1>2. /\ recv[r] # NoPacket /\ recv[r].messageType = "SYNC" /\ recv'[r] = NoPacket
        /\ UNCHANGED <<chan, stage, latest>>
        /\ r # p => recv'[p] = recv[p]
        /\ shared'[p][m] = IF p = r /\ m = n THEN recv[r].message.state ELSE shared[p][m]
    BY RestoreFacts
  <1>3. SyncSent(p, q, m)' <=> SyncSent(p, q, m)
    BY <1>2 DEF SyncSent
  <1>4. CASE r # p
    <2>1. SyncInHand(p, q, m)' <=> SyncInHand(p, q, m)
      BY <1>2, <1>4 DEF SyncInHand, IsSync
    <2> QED
      BY <1>1, <1>2, <1>3, <1>4, <2>1 DEF CatchesUp
  <1>5. CASE r = p
    <2>1. recv[p].source = q
      <3>1. PICK s \in OtherProcesses(p) : Genuine(recv[p], s)
        BY <1>2, <1>5 DEF MonitorInv, IInv, PacketInv
      <3>2. s = q
        BY <1>1, TwoProcesses
      <3> QED
        BY <3>1, <3>2 DEF Genuine
    <2>2. SyncInHand(p, q, m) <=> m = n
      BY <1>2, <1>5, <2>1 DEF SyncInHand, IsSync
    <2>3. ~SyncInHand(p, q, m)'
      BY <1>2, <1>5 DEF SyncInHand
    <2>4. CASE m = n
      BY <1>1, <1>2, <1>3, <1>5, <2>2, <2>3, <2>4 DEF CatchesUp
    <2>5. CASE m # n
      BY <1>1, <1>2, <1>3, <1>5, <2>2, <2>3, <2>5 DEF CatchesUp
    <2> QED
      BY <2>4, <2>5
  <1> QED
    BY <1>4, <1>5

LEMMA LatestStep ==
  ASSUME NumberOfProcesses = 2
  PROVE  MonitorInv /\ LatestInv /\ [MonitorNext]_allVars => LatestInv'
  <1> SUFFICES ASSUME MonitorInv, LatestInv, [MonitorNext]_allVars
               PROVE  LatestInv'
    OBVIOUS
  <1>1. ASSUME NEW p \in Process, NEW q \in OtherProcesses(p), NEW m \in MutexName
        PROVE  CatchesUp(p, q, m)'
    <2>0. q \in Process /\ stage \in [Process -> [MutexName -> Stage]]
      BY ProcessFacts DEF MonitorInv, MonitorTypeOK
    <2>1. ASSUME [Next]_vars, UNCHANGED monitorVars
          PROVE  CatchesUp(p, q, m)'
      BY <2>1, MutexLatest DEF monitorVars
    <2>2. ASSUME NEW r \in Process, NEW n \in MutexName, Enter(r, n)
          PROVE  CatchesUp(p, q, m)'
      BY <2>1, <2>2 DEF Enter, Next
    <2>3. ASSUME NEW r \in Process, NEW n \in MutexName, Body(r, n)
          PROVE  CatchesUp(p, q, m)'
      BY <2>3, BodyLatest
    <2>4. ASSUME NEW r \in Process, NEW n \in MutexName, SendSync(r, n)
          PROVE  CatchesUp(p, q, m)'
      BY <2>4, SendSyncLatest
    <2>5. ASSUME NEW r \in Process, NEW n \in MutexName, Leave(r, n)
          PROVE  CatchesUp(p, q, m)'
      <3>1. Unlock(r, n) /\ UNCHANGED <<shared, latest>>
        BY <2>5 DEF Leave
      <3>2. stage'[q][m] # "done" => stage[q][m] # "done"
        BY <2>0, <2>5 DEF Leave, SetStage
      <3>3. [Next]_vars
        BY <3>1 DEF Next
      <3> QED
        BY <3>1, <3>2, <3>3, MutexLatest
    <2>6. ASSUME NEW r \in Process, NEW n \in MutexName, InCall(r, n), UNCHANGED monitorVars
          PROVE  CatchesUp(p, q, m)'
      BY <2>1, <2>6 DEF Next
    <2>7. ASSUME NEW r \in Process, RestoreState(r)
          PROVE  CatchesUp(p, q, m)'
      BY <2>7, RestoreLatest
    <2>8. ASSUME NEW r \in Process, Receiver(r), UNCHANGED monitorVars
          PROVE  CatchesUp(p, q, m)'
      BY <2>1, <2>8 DEF Next
    <2>9. ASSUME Finished, UNCHANGED monitorVars
          PROVE  CatchesUp(p, q, m)'
      BY <2>1, <2>9 DEF Next
    <2>10. CASE UNCHANGED allVars
      BY <2>1, <2>10 DEF allVars
    <2> QED
      BY <2>2, <2>3, <2>4, <2>5, <2>6, <2>7, <2>8, <2>9, <2>10 DEF MonitorNext
  <1>2. \A p \in Process : \A m \in MutexName : stage'[p][m] # "start" => phase'[p][m] = "held"
    BY StageHeld
  <1> QED
    BY <1>1, <1>2, ProcessFacts DEF LatestInv

LEMMA LatestFromInv ==
  ASSUME NumberOfProcesses = 2
  PROVE  MonitorInv /\ LatestInv => LatestOnEntry
  <1> SUFFICES ASSUME MonitorInv, LatestInv, NEW p \in Process, NEW m \in MutexName,
                      phase[p][m] = "held"
               PROVE  shared[p][m] = latest[m]
    BY DEF LatestOnEntry
  <1>1. PICK q : q \in OtherProcesses(p)
    BY DEF Process, OtherProcesses
  <1> QED
    BY <1>1, HolderIsUpToDate

(* Two processes: every entry starts from what the previous entry has left,  *)
(* for every set of monitors and both communicators.  With three it does not *)
(* hold: the SYNCs of two processes reach a third one in either order.       *)
THEOREM LatestForTwo ==
  ASSUME NumberOfProcesses = 2
  PROVE  MonitorSpec => []LatestOnEntry
  <1>1. MonitorInit => LatestInv
    BY LatestInit
  <1>2. MonitorInv /\ LatestInv /\ [MonitorNext]_allVars => LatestInv'
    BY LatestStep
  <1> QED
    BY <1>1, <1>2, LatestFromInv, MonitorInvariant, PTL DEF MonitorSpec
=============================================================================
