------------------------- MODULE MpiTransportProofs -------------------------
(***************************************************************************)
(* What the communicators promise, for any number of processes, any        *)
(* messages and any buffering of MPI.                                      *)
(***************************************************************************)
EXTENDS MpiTransport, FiniteSetTheorems, SequenceTheorems, TLAPS

-----------------------------------------------------------------------------
(* Invariant *)

(* A header that announces a text. *)
Promises(x) == "hasText" \in DOMAIN x /\ x.hasText

(* Texts follow exactly the headers that announce them, and nothing is cut *)
(* off at the end.                                                         *)
Framed(xs) ==
  \A i \in 1 .. Len(xs) :
    /\ IsText(xs[i]) <=> i > 1 /\ Promises(xs[i - 1])
    /\ i = Len(xs) => ~Promises(xs[i])

(* communicationMutex: not both threads of a process are in send(). *)
OneSends(p) == \E t \in Thread : sending[p][t] = NoSend

(* The receiving thread is in receive() while it has a part of a packet. *)
OnePacket(p) == taken[p] # <<>> => recv[p] = NoPacket

(* The time that a callback sees is not before the one of receive(), and   *)
(* not after the clock.                                                    *)
Stamped(p) ==
  /\ optimized /\ recv[p] # NoPacket => recv[p].lamportTime <= clock[p]
  /\ stamp[p] # 0 =>
       /\ recv[p] # NoPacket
       /\ IF optimized THEN recv[p].lamportTime <= stamp[p] /\ stamp[p] <= clock[p]
          ELSE stamp[p] = recv[p].lamportTime

MpiInv ==
  /\ MpiTypeOK
  /\ gaveUp \/ /\ \A p, q \in Process : Framed(Stream(q, p))
               /\ \A p \in Process : OneSends(p) /\ OnePacket(p) /\ Stamped(p)

-----------------------------------------------------------------------------
(* MPI messages *)

(* The three kinds of MPI message are told apart by their fields.          *)
LEMMA Kinds ==
  /\ \A x \in Header : ~IsText(x) /\ (Promises(x) <=> x.hasText)
  /\ \A x \in Text : IsText(x) /\ ~Promises(x)
  /\ \A x \in Whole : ~IsText(x) /\ ~Promises(x)
  <1>1. \A x \in Header : DOMAIN x = {"lamportTime", "messageType", "hasText"}
    BY DEF Header
  <1>2. \A x \in Text : DOMAIN x = {"text"}
    BY DEF Text
  <1>3. \A x \in Whole : DOMAIN x = {"lamportTime", "messageType", "text"}
    BY DEF Whole
  <1> QED
    BY <1>1, <1>2, <1>3 DEF IsText, Promises

(* The MPI messages of a packet: the text, if there is one, is announced;  *)
(* put together they give the packet.                                      *)
Complete(ys) ==
  /\ Len(ys) \in {1, 2}
  /\ ~IsText(ys[1])
  /\ Promises(ys[1]) <=> Len(ys) = 2
  /\ Len(ys) = 2 => IsText(ys[2]) /\ ~Promises(ys[2])

LEMMA EncodeFacts ==
  ASSUME optimized \in BOOLEAN, NEW time \in Nat, NEW t \in Thread, NEW message \in Message,
         NEW q \in Process
  PROVE  LET ys == Encode(time, SentType(t), message)
         IN  /\ ys \in Seq(MpiMessage)
             /\ Complete(ys)
             /\ Decode(q, ys) = [lamportTime |-> time, source |-> q,
                                 messageType |-> SentType(t), message |-> message]
  <1> DEFINE header == [lamportTime |-> time, messageType |-> SentType(t),
                        hasText |-> message # EmptyMessage]
             text == [text |-> message]
             whole == [lamportTime |-> time, messageType |-> SentType(t), text |-> message]
  <1>1. /\ header \in Header /\ text \in Text /\ whole \in Whole
        /\ DOMAIN header = {"lamportTime", "messageType", "hasText"}
        /\ "text" \notin DOMAIN header
    BY DEF Header, Text, Whole
  <1>2. CASE optimized
    <2>1. Encode(time, SentType(t), message) = <<whole>>
      BY <1>2 DEF Encode
    <2>2. ~IsText(whole) /\ ~Promises(whole)
      BY <1>1, Kinds
    <2>3. "text" \in DOMAIN whole
      OBVIOUS
    <2> HIDE DEF whole
    <2>4. <<whole>> \in Seq(MpiMessage) /\ Len(<<whole>>) = 1 /\ <<whole>>[1] = whole
      BY <1>1, <1>2 DEF MpiMessage
    <2>5. Complete(<<whole>>)
      BY <2>2, <2>4 DEF Complete
    <2>6. Decode(q, <<whole>>) = [lamportTime |-> whole.lamportTime, source |-> q,
                                  messageType |-> whole.messageType, message |-> whole.text]
      BY <2>3, <2>4 DEF Decode
    <2> QED
      BY <2>1, <2>4, <2>5, <2>6 DEF whole
  <1>3. CASE ~optimized /\ message = EmptyMessage
    <2>1. Encode(time, SentType(t), message) = <<header>>
      BY <1>3 DEF Encode
    <2>2. ~IsText(header) /\ ~Promises(header)
      BY <1>1, <1>3, Kinds
    <2> HIDE DEF header
    <2>4. <<header>> \in Seq(MpiMessage) /\ Len(<<header>>) = 1 /\ <<header>>[1] = header
      BY <1>1, <1>3 DEF MpiMessage
    <2>5. Complete(<<header>>)
      BY <2>2, <2>4 DEF Complete
    <2>6. Decode(q, <<header>>) = [lamportTime |-> header.lamportTime, source |-> q,
                                   messageType |-> header.messageType, message |-> EmptyMessage]
      BY <1>1, <2>4 DEF Decode
    <2> QED
      BY <1>3, <2>1, <2>4, <2>5, <2>6 DEF header
  <1>4. CASE ~optimized /\ message # EmptyMessage
    <2>1. Encode(time, SentType(t), message) = <<header, text>>
      BY <1>4 DEF Encode
    <2>2. ~IsText(header) /\ Promises(header) /\ IsText(text) /\ ~Promises(text)
      BY <1>1, <1>4, Kinds
    <2>3. "text" \in DOMAIN text
      OBVIOUS
    <2> HIDE DEF header, text
    <2>4. /\ <<header, text>> \in Seq(MpiMessage) /\ Len(<<header, text>>) = 2
          /\ <<header, text>>[1] = header /\ <<header, text>>[2] = text
      BY <1>1, <1>4 DEF MpiMessage
    <2>5. Complete(<<header, text>>)
      BY <2>2, <2>4 DEF Complete
    <2>6. Decode(q, <<header, text>>) = [lamportTime |-> header.lamportTime, source |-> q,
                                         messageType |-> header.messageType, message |-> text.text]
      BY <2>3, <2>4 DEF Decode
    <2> QED
      BY <2>1, <2>4, <2>5, <2>6 DEF header, text
  <1> QED
    BY <1>2, <1>3, <1>4

-----------------------------------------------------------------------------
(* The packets in a stream *)

(* The number of packets up to the one that begins at i. *)
Rank(xs, i) == Cardinality(Begins(xs) \cap (1 .. i))

LEMMA RankFacts ==
  ASSUME NEW S, NEW xs \in Seq(S)
  PROVE  /\ IsFiniteSet(Begins(xs)) /\ Cardinality(Begins(xs)) \in Nat
         /\ \A i \in Begins(xs) : Rank(xs, i) \in 1 .. Cardinality(Begins(xs))
         /\ \A i, j \in Begins(xs) : i < j => Rank(xs, i) < Rank(xs, j)
  <1>1. Begins(xs) \in SUBSET (1 .. Len(xs)) /\ Len(xs) \in Nat
    BY DEF Begins
  <1>2. IsFiniteSet(Begins(xs)) /\ Cardinality(Begins(xs)) \in Nat
    <2>1. IsFiniteSet(1 .. Len(xs))
      BY <1>1, FS_Interval
    <2> QED
      BY <1>1, <2>1, FS_Subset, FS_CardinalityType
  <1>3. ASSUME NEW i
        PROVE  /\ IsFiniteSet(Begins(xs) \cap (1 .. i)) /\ Rank(xs, i) \in Nat
               /\ Rank(xs, i) <= Cardinality(Begins(xs))
    <2>1. Begins(xs) \cap (1 .. i) \in SUBSET Begins(xs)
      OBVIOUS
    <2> QED
      BY <1>2, <2>1, FS_Subset, FS_CardinalityType DEF Rank
  <1>4. ASSUME NEW i \in Begins(xs)
        PROVE  Rank(xs, i) # 0
    <2>1. i \in Begins(xs) \cap (1 .. i)
      BY <1>1
    <2> QED
      BY <1>3, <2>1, FS_EmptySet DEF Rank
  <1>5. ASSUME NEW i \in Begins(xs), NEW j \in Begins(xs), i < j
        PROVE  Rank(xs, i) < Rank(xs, j)
    <2> DEFINE upToI == Begins(xs) \cap (1 .. i)
               upToJ == Begins(xs) \cap (1 .. j)
    <2>1. upToI \in SUBSET upToJ /\ j \in upToJ /\ j \notin upToI
      BY <1>1, <1>5
    <2>2. IsFiniteSet(upToJ)
      BY <1>3
    <2> HIDE DEF upToI, upToJ
    <2>3. Cardinality(upToI) <= Cardinality(upToJ) /\ Cardinality(upToI) # Cardinality(upToJ)
      BY <2>1, <2>2, FS_Subset
    <2>4. /\ Rank(xs, i) = Cardinality(upToI) /\ Rank(xs, i) \in Nat
          /\ Rank(xs, j) = Cardinality(upToJ) /\ Rank(xs, j) \in Nat
      BY <1>3 DEF upToI, upToJ, Rank
    <2> QED
      BY <2>3, <2>4
  <1>6. ASSUME NEW i \in Begins(xs)
        PROVE  Rank(xs, i) \in 1 .. Cardinality(Begins(xs))
    <2>1. /\ Rank(xs, i) \in Nat /\ Rank(xs, i) # 0
          /\ Rank(xs, i) <= Cardinality(Begins(xs))
      BY <1>3, <1>4
    <2> QED
      BY <1>2, <2>1
  <1> QED
    BY <1>2, <1>5, <1>6

(* Each packet of a stream is the k-th for one k: BeginOf counts them.     *)
LEMMA BeginOfFacts ==
  ASSUME NEW S, NEW xs \in Seq(S)
  PROVE  /\ \A k \in 1 .. Cardinality(Begins(xs)) :
              BeginOf(xs, k) \in Begins(xs) /\ Rank(xs, BeginOf(xs, k)) = k
         /\ \A i \in Begins(xs) : BeginOf(xs, Rank(xs, i)) = i
  <1> DEFINE n == Cardinality(Begins(xs))
             rank == [i \in Begins(xs) |-> Rank(xs, i)]
  <1>1. n \in Nat /\ IsFiniteSet(Begins(xs)) /\ Begins(xs) \subseteq Nat
    BY RankFacts DEF Begins
  <1>2. rank \in Injection(Begins(xs), 1 .. n)
    <2>1. rank \in [Begins(xs) -> 1 .. n]
      BY RankFacts
    <2>2. \A i, j \in Begins(xs) : rank[i] = rank[j] => i = j
      BY <1>1, RankFacts
    <2> QED
      BY <2>1, <2>2 DEF Injection, IsInjective
  <1>3. rank \in Surjection(Begins(xs), 1 .. n)
    BY <1>1, <1>2, FS_Interval, FS_Injection
  <1>4. ASSUME NEW k \in 1 .. n
        PROVE  \E i \in Begins(xs) : Rank(xs, i) = k
    BY <1>3 DEF Surjection
  <1>5. ASSUME NEW i \in Begins(xs), NEW j \in Begins(xs), Rank(xs, i) = Rank(xs, j)
        PROVE  i = j
    BY <1>1, <1>5, RankFacts
  <1>6. \A k \in 1 .. n : BeginOf(xs, k) \in Begins(xs) /\ Rank(xs, BeginOf(xs, k)) = k
    BY <1>4 DEF BeginOf, Rank
  <1>7. ASSUME NEW i \in Begins(xs)
        PROVE  BeginOf(xs, Rank(xs, i)) = i
    BY <1>5, <1>6, RankFacts
  <1> QED
    BY <1>6, <1>7

LEMMA PacketsLength ==
  ASSUME NEW S, NEW xs \in Seq(S), NEW q
  PROVE  LET packets == PacketsIn(q, xs)
         IN  /\ packets \in Seq({packets[k] : k \in 1 .. Cardinality(Begins(xs))})
             /\ Len(packets) = Cardinality(Begins(xs))
             /\ \A k \in 1 .. Cardinality(Begins(xs)) :
                  packets[k] = PacketAt(q, xs, BeginOf(xs, k))
  <1> DEFINE n == Cardinality(Begins(xs))
             packets == PacketsIn(q, xs)
             values == {packets[k] : k \in 1 .. n}
  <1>1. n \in Nat
    BY RankFacts
  <1>2. packets = [k \in 1 .. n |-> PacketAt(q, xs, BeginOf(xs, k))]
    BY DEF PacketsIn
  <1> HIDE DEF n, packets
  <1>3. packets \in [1 .. n -> values]
    BY <1>2
  <1>4. packets \in Seq(values)
    BY <1>1, <1>3
  <1>5. DOMAIN packets = 1 .. n
    BY <1>2
  <1>6. Len(packets) = n
    BY <1>1, <1>4, <1>5
  <1> QED
    BY <1>2, <1>4, <1>6 DEF n, packets

LEMMA NoPackets ==
  ASSUME NEW q
  PROVE  PacketsIn(q, <<>>) = <<>>
  <1>1. Begins(<<>>) = {}
    BY DEF Begins
  <1>2. Cardinality(Begins(<<>>)) = 0
    BY <1>1, FS_EmptySet
  <1> QED
    BY <1>2 DEF PacketsIn

(* What is sent after them does not change the packets before: a complete  *)
(* packet at the end of a stream is one packet more.                       *)
LEMMA AppendPacket ==
  ASSUME NEW S, NEW xs \in Seq(S), NEW ys \in Seq(S), Complete(ys), NEW q
  PROVE  PacketsIn(q, xs \o ys) = Append(PacketsIn(q, xs), Decode(q, ys))
  <1> DEFINE zs == xs \o ys
             n == Cardinality(Begins(xs))
             l == Len(xs)
  <1>1. /\ zs \in Seq(S) /\ l \in Nat /\ Len(zs) = l + Len(ys)
        /\ \A i \in 1 .. l : zs[i] = xs[i]
        /\ zs[l + 1] = ys[1] /\ ~IsText(ys[1])
        /\ Len(ys) \in {1, 2} /\ (Len(ys) = 2 => zs[l + 2] = ys[2] /\ IsText(ys[2]))
    <2>1. /\ zs \in Seq(S) /\ Len(zs) = l + Len(ys) /\ l \in Nat
          /\ \A i \in 1 .. l + Len(ys) : zs[i] = IF i <= l THEN xs[i] ELSE ys[i - l]
      BY ConcatProperties
    <2>2. Len(ys) \in {1, 2} /\ ~IsText(ys[1]) /\ (Len(ys) = 2 => IsText(ys[2]))
      BY DEF Complete
    <2> HIDE DEF zs, l
    <2>3. \A i \in 1 .. l : zs[i] = xs[i]
      BY <2>1
    <2>4. zs[l + 1] = ys[1]
      BY <2>1, <2>2
    <2>5. Len(ys) = 2 => zs[l + 2] = ys[2]
      BY <2>1
    <2> QED
      BY <2>1, <2>2, <2>3, <2>4, <2>5
  <1>2. n \in Nat /\ IsFiniteSet(Begins(xs)) /\ Begins(xs) \subseteq 1 .. l
    BY RankFacts DEF Begins
  <1> HIDE DEF zs, l
  <1>3. Begins(zs) = Begins(xs) \cup {l + 1}
    <2>1. \A i : i \in Begins(zs) <=> i \in Begins(xs) \/ i = l + 1
      <3>1. \A i \in 1 .. l : i \in Begins(zs) <=> i \in Begins(xs)
        BY <1>1 DEF Begins, l
      <3>2. l + 1 \in Begins(zs)
        BY <1>1 DEF Begins
      <3>3. ASSUME NEW i \in Begins(zs)
            PROVE  i \in 1 .. l + 1
        <4>1. i \in 1 .. l + Len(ys) /\ ~IsText(zs[i])
          BY <1>1 DEF Begins
        <4>2. ~(Len(ys) = 2 /\ i = l + 2)
          BY <1>1, <4>1
        <4>3. l \in Nat /\ (Len(ys) = 1 \/ Len(ys) = 2)
          BY <1>1
        <4>4. CASE Len(ys) = 1
          BY <4>1, <4>4
        <4>5. CASE Len(ys) = 2
          BY <4>1, <4>2, <4>3, <4>5
        <4> QED
          BY <4>3, <4>4, <4>5
      <3> QED
        BY <1>1, <1>2, <3>1, <3>2, <3>3
    <2> QED
      BY <2>1
  <1>4. l + 1 \notin Begins(xs)
    BY <1>1, <1>2
  <1>5. Cardinality(Begins(zs)) = n + 1
    BY <1>2, <1>3, <1>4, FS_AddElement
  <1>6. \A i \in Begins(xs) : Rank(zs, i) = Rank(xs, i)
    <2>1. \A i \in Begins(xs) : Begins(zs) \cap (1 .. i) = Begins(xs) \cap (1 .. i)
      BY <1>1, <1>2, <1>3
    <2> QED
      BY <2>1 DEF Rank
  <1>7. Rank(zs, l + 1) = n + 1
    <2>1. Begins(zs) \cap (1 .. l + 1) = Begins(zs)
      BY <1>1, <1>2, <1>3
    <2> QED
      BY <1>5, <2>1 DEF Rank
  <1>8. /\ \A k \in 1 .. n : BeginOf(zs, k) = BeginOf(xs, k) /\ BeginOf(xs, k) \in Begins(xs)
        /\ BeginOf(zs, n + 1) = l + 1
    BY <1>1, <1>3, <1>6, <1>7, BeginOfFacts
  <1>9. \A i \in Begins(xs) : PacketAt(q, zs, i) = PacketAt(q, xs, i)
    <2> SUFFICES ASSUME NEW i \in Begins(xs)
                 PROVE  PacketAt(q, zs, i) = PacketAt(q, xs, i)
      OBVIOUS
    <2>1. i \in 1 .. l /\ zs[i] = xs[i] /\ i < Len(zs)
      BY <1>1, <1>2 DEF Complete
    <2>2. CASE i < l
      <3>1. zs[i + 1] = xs[i + 1]
        BY <1>1, <2>1, <2>2
      <3> QED
        BY <2>1, <2>2, <3>1 DEF PacketAt, l
    <2>3. CASE i = l
      <3>1. ~IsText(zs[i + 1])
        BY <1>1, <2>3
      <3> QED
        BY <2>1, <2>3, <3>1, <1>1 DEF PacketAt, l
    <2> QED
      BY <1>1, <2>1, <2>2, <2>3
  <1>10. PacketAt(q, zs, l + 1) = Decode(q, ys)
    <2>1. CASE Len(ys) = 1
      <3>1. ys = <<ys[1]>>
        BY <2>1
      <3> QED
        BY <1>1, <2>1, <3>1 DEF PacketAt
    <2>2. CASE Len(ys) = 2
      <3>1. ys = <<ys[1], ys[2]>>
        BY <2>2
      <3>2. zs[(l + 1) + 1] = ys[2] /\ IsText(ys[2]) /\ zs[l + 1] = ys[1] /\ l + 1 < Len(zs)
        <4>1. (l + 1) + 1 = l + 2
          BY <1>1
        <4> QED
          BY <1>1, <2>2, <4>1
      <3> QED
        BY <3>1, <3>2 DEF PacketAt
    <2> QED
      BY <2>1, <2>2 DEF Complete
  <1>11. /\ Len(PacketsIn(q, zs)) = n + 1
         /\ \A k \in 1 .. n : PacketsIn(q, zs)[k] = PacketsIn(q, xs)[k]
         /\ PacketsIn(q, zs)[n + 1] = Decode(q, ys)
    <2>1. /\ Len(PacketsIn(q, zs)) = n + 1
          /\ \A k \in 1 .. n + 1 : PacketsIn(q, zs)[k] = PacketAt(q, zs, BeginOf(zs, k))
      <3>1. /\ Len(PacketsIn(q, zs)) = Cardinality(Begins(zs))
            /\ \A k \in 1 .. Cardinality(Begins(zs)) :
                 PacketsIn(q, zs)[k] = PacketAt(q, zs, BeginOf(zs, k))
        BY <1>1, PacketsLength
      <3> HIDE DEF n
      <3> QED
        BY <1>5, <3>1
    <2>2. \A k \in 1 .. n : PacketsIn(q, xs)[k] = PacketAt(q, xs, BeginOf(xs, k))
      BY PacketsLength
    <2> HIDE DEF n
    <2>3. n + 1 \in 1 .. n + 1 /\ \A k \in 1 .. n : k \in 1 .. n + 1
      BY <1>2
    <2> QED
      BY <2>1, <2>2, <2>3, <1>8, <1>9, <1>10
  <1> DEFINE all == {PacketsIn(q, zs)[k] : k \in 1 .. n + 1}
  <1>12. PacketsIn(q, zs) \in Seq(all) /\ Decode(q, ys) \in all
    <2>1. PacketsIn(q, zs) \in Seq(all)
      BY <1>1, <1>5, PacketsLength
    <2>2. n + 1 \in 1 .. n + 1
      BY <1>2
    <2> QED
      BY <1>11, <2>1, <2>2
  <1>13. PacketsIn(q, xs) \in Seq(all) /\ Len(PacketsIn(q, xs)) = n
    <2>1. /\ PacketsIn(q, xs) \in Seq({PacketsIn(q, xs)[k] : k \in 1 .. n})
          /\ Len(PacketsIn(q, xs)) = n
      BY PacketsLength
    <2>2. {PacketsIn(q, xs)[k] : k \in 1 .. n} \subseteq all
      BY <1>2, <1>11
    <2> QED
      BY <2>1, <2>2, SeqMonotonic
  <1> HIDE DEF all, n
  <1>14. /\ Append(PacketsIn(q, xs), Decode(q, ys)) \in Seq(all)
         /\ Len(Append(PacketsIn(q, xs), Decode(q, ys))) = n + 1
         /\ \A k \in 1 .. n : Append(PacketsIn(q, xs), Decode(q, ys))[k] = PacketsIn(q, xs)[k]
         /\ Append(PacketsIn(q, xs), Decode(q, ys))[n + 1] = Decode(q, ys)
    BY <1>12, <1>13, AppendProperties
  <1>15. PacketsIn(q, zs) = Append(PacketsIn(q, xs), Decode(q, ys))
    BY <1>2, <1>11, <1>12, <1>14, SeqEqual
  <1> QED
    BY <1>15 DEF zs

(* Positions counted from a later start.                                   *)
LEMMA Shifted ==
  ASSUME NEW T \in SUBSET Nat, IsFiniteSet(T), NEW d \in Nat
  PROVE  LET U == {i + d : i \in T}
         IN  IsFiniteSet(U) /\ Cardinality(U) = Cardinality(T)
  <1> DEFINE U == {i + d : i \in T}
             f == [i \in T |-> i + d]
  <1>1. f \in [T -> U]
    OBVIOUS
  <1>5. ASSUME NEW i \in T, NEW j \in T, f[i] = f[j]
        PROVE  i = j
    <2>1. i + d = j + d /\ i \in Nat /\ j \in Nat
      BY <1>5
    <2> QED
      BY <2>1
  <1>2. \A u \in U : \E i \in T : f[i] = u
    OBVIOUS
  <1>3. f \in Bijection(T, U)
    BY <1>1, <1>2, <1>5 DEF Bijection, Injection, IsInjective, Surjection
  <1>4. ExistsBijection(T, U)
    BY <1>3 DEF ExistsBijection
  <1> QED
    BY <1>4, FS_Bijection

(* The first packet of a stream is what its first MPI messages amount to,  *)
(* and the others do not depend on it.                                     *)
LEMMA TakePacket ==
  ASSUME NEW S, NEW xs \in Seq(S), NEW ys \in Seq(S), Complete(ys), NEW q,
         xs # <<>> => ~IsText(xs[1])
  PROVE  /\ PacketsIn(q, ys \o xs) # <<>>
         /\ Head(PacketsIn(q, ys \o xs)) = Decode(q, ys)
         /\ Tail(PacketsIn(q, ys \o xs)) = PacketsIn(q, xs)
  <1> DEFINE zs == ys \o xs
             n == Cardinality(Begins(xs))
             d == Len(ys)
             l == Len(xs)
  <1>1. /\ zs \in Seq(S) /\ l \in Nat /\ d \in {1, 2} /\ Len(zs) = d + l
        /\ \A i \in 1 .. d : zs[i] = ys[i]
        /\ \A i \in 1 .. l : zs[i + d] = xs[i]
    <2>1. /\ zs \in Seq(S) /\ Len(zs) = d + l /\ l \in Nat
          /\ \A i \in 1 .. d + l : zs[i] = IF i <= d THEN ys[i] ELSE xs[i - d]
      BY ConcatProperties
    <2> HIDE DEF zs, l
    <2>2. d \in {1, 2}
      BY DEF Complete
    <2> HIDE DEF d
    <2> QED
      BY <2>1, <2>2
  <1>2. n \in Nat /\ IsFiniteSet(Begins(xs)) /\ Begins(xs) \subseteq 1 .. l
    BY RankFacts DEF Begins
  <1>3. ~IsText(ys[1]) /\ (d = 2 => IsText(ys[2]))
    BY DEF Complete
  <1>4. l > 0 => ~IsText(xs[1])
    BY DEF l
  <1> HIDE DEF zs, l, d
  <1>5. \A i : i \in Begins(zs) <=> i = 1 \/ \E j \in Begins(xs) : i = j + d
    <2>1. 1 \in Begins(zs)
      BY <1>1, <1>3 DEF Begins
    <2>2. d = 2 => 2 \notin Begins(zs)
      BY <1>1, <1>3 DEF Begins
    <2>3. \A j \in 1 .. l : j + d \in Begins(zs) <=> j \in Begins(xs)
      BY <1>1 DEF Begins, l
    <2>4. \A i \in Begins(zs) : i \in 1 .. d + l
      BY <1>1 DEF Begins
    <2>5. ASSUME NEW i \in Begins(zs), i # 1
          PROVE  \E j \in Begins(xs) : i = j + d
      <3>1. i - d \in 1 .. l /\ i = (i - d) + d
        BY <1>1, <2>2, <2>4, <2>5
      <3> QED
        BY <2>3, <2>5, <3>1
    <2>6. \A j \in Begins(xs) : j + d \in Begins(zs)
      BY <1>2, <2>3
    <2> QED
      BY <2>1, <2>5, <2>6
  <1>6. \A T \in SUBSET Begins(xs) :
          LET U == {j + d : j \in T}
          IN  Cardinality({1} \cup U) = 1 + Cardinality(T)
    <2> SUFFICES ASSUME NEW T \in SUBSET Begins(xs)
                 PROVE  Cardinality({1} \cup {j + d : j \in T}) = 1 + Cardinality(T)
      OBVIOUS
    <2> DEFINE U == {j + d : j \in T}
    <2>1. IsFiniteSet(T) /\ Cardinality(T) \in Nat /\ T \in SUBSET Nat /\ d \in Nat
      BY <1>1, <1>2, FS_Subset, FS_CardinalityType
    <2>2. IsFiniteSet(U) /\ Cardinality(U) = Cardinality(T)
      BY <2>1, Shifted
    <2>3. 1 \notin U
      BY <1>1, <1>2
    <2> HIDE DEF U
    <2>4. Cardinality(U \cup {1}) = Cardinality(U) + 1 /\ U \cup {1} = {1} \cup U
      BY <2>2, <2>3, FS_AddElement
    <2>5. Cardinality({1} \cup U) = 1 + Cardinality(T)
      <3>1. Cardinality({1} \cup U) = Cardinality(U) + 1
        BY <2>4
      <3> QED
        BY <2>1, <2>2, <3>1
    <2> QED
      BY <2>5 DEF U
  <1>7. Cardinality(Begins(zs)) = 1 + n
    <2>1. Begins(zs) = {1} \cup {j + d : j \in Begins(xs)}
      BY <1>5
    <2> QED
      BY <1>6, <2>1
  <1>8. Rank(zs, 1) = 1
    <2>1. Begins(zs) \cap (1 .. 1) = {1}
      BY <1>5
    <2> QED
      BY <2>1, FS_Singleton DEF Rank
  <1>9. ASSUME NEW i \in Begins(xs)
        PROVE  Rank(zs, i + d) = 1 + Rank(xs, i)
    <2> DEFINE T == Begins(xs) \cap (1 .. i)
    <2>1. \A j : j \in Begins(zs) /\ j \in 1 .. i + d <=> j = 1 \/ \E k \in T : j = k + d
      BY <1>1, <1>2, <1>5
    <2>2. Begins(zs) \cap (1 .. i + d) = {1} \cup {j + d : j \in T}
      BY <2>1
    <2>3. T \in SUBSET Begins(xs)
      OBVIOUS
    <2> HIDE DEF T
    <2>4. Cardinality({1} \cup {j + d : j \in T}) = 1 + Cardinality(T)
      BY <1>6, <2>3
    <2> QED
      BY <2>2, <2>4 DEF T, Rank
  <1>10. /\ BeginOf(zs, 1) = 1
         /\ \A k \in 1 .. n : BeginOf(xs, k) \in Begins(xs) /\ BeginOf(zs, 1 + k) = BeginOf(xs, k) + d
    <2>1. BeginOf(zs, 1) = 1
      BY <1>1, <1>5, <1>8, BeginOfFacts
    <2>2. ASSUME NEW k \in 1 .. n
          PROVE  BeginOf(xs, k) \in Begins(xs) /\ BeginOf(zs, 1 + k) = BeginOf(xs, k) + d
      <3>1. BeginOf(xs, k) \in Begins(xs) /\ Rank(xs, BeginOf(xs, k)) = k
        BY BeginOfFacts
      <3>2. BeginOf(xs, k) + d \in Begins(zs) /\ Rank(zs, BeginOf(xs, k) + d) = 1 + k
        BY <1>5, <1>9, <3>1
      <3>3. BeginOf(zs, Rank(zs, BeginOf(xs, k) + d)) = BeginOf(xs, k) + d
        BY <1>1, <3>2, BeginOfFacts
      <3> QED
        BY <3>1, <3>2, <3>3
    <2> QED
      BY <2>1, <2>2
  <1>11. PacketAt(q, zs, 1) = Decode(q, ys)
    <2>1. CASE d = 1
      <3>1. ys = <<ys[1]>>
        BY <2>1 DEF d
      <3>2. 1 < Len(zs) => ~IsText(zs[1 + 1])
        BY <1>1, <1>4, <2>1
      <3> QED
        BY <1>1, <2>1, <3>1, <3>2 DEF PacketAt
    <2>2. CASE d = 2
      <3>1. ys = <<ys[1], ys[2]>>
        BY <2>2 DEF d
      <3>2. 1 < Len(zs) /\ zs[1] = ys[1] /\ zs[1 + 1] = ys[2]
        BY <1>1, <2>2
      <3> QED
        BY <1>3, <2>2, <3>1, <3>2 DEF PacketAt
    <2> QED
      BY <1>1, <2>1, <2>2
  <1>12. ASSUME NEW i \in Begins(xs)
         PROVE  PacketAt(q, zs, i + d) = PacketAt(q, xs, i)
    <2>1. i \in 1 .. l /\ zs[i + d] = xs[i] /\ (i + d < Len(zs) <=> i < Len(xs))
      BY <1>1, <1>2 DEF l
    <2>2. i < Len(xs) => zs[(i + d) + 1] = xs[i + 1]
      BY <1>1, <2>1 DEF l
    <2> QED
      BY <2>1, <2>2 DEF PacketAt
  <1>13. /\ Len(PacketsIn(q, zs)) = 1 + n
         /\ \A k \in 1 .. n : PacketsIn(q, zs)[1 + k] = PacketsIn(q, xs)[k]
         /\ PacketsIn(q, zs)[1] = Decode(q, ys)
    <2>1. /\ Len(PacketsIn(q, zs)) = 1 + n
          /\ \A k \in 1 .. 1 + n : PacketsIn(q, zs)[k] = PacketAt(q, zs, BeginOf(zs, k))
      <3>1. /\ Len(PacketsIn(q, zs)) = Cardinality(Begins(zs))
            /\ \A k \in 1 .. Cardinality(Begins(zs)) :
                 PacketsIn(q, zs)[k] = PacketAt(q, zs, BeginOf(zs, k))
        BY <1>1, PacketsLength
      <3> HIDE DEF n
      <3> QED
        BY <1>7, <3>1
    <2>2. \A k \in 1 .. n : PacketsIn(q, xs)[k] = PacketAt(q, xs, BeginOf(xs, k))
      BY PacketsLength
    <2> HIDE DEF n
    <2>3. 1 \in 1 .. 1 + n /\ \A k \in 1 .. n : 1 + k \in 1 .. 1 + n
      BY <1>2
    <2> QED
      BY <2>1, <2>2, <2>3, <1>10, <1>11, <1>12
  <1> DEFINE all == {PacketsIn(q, zs)[k] : k \in 1 .. 1 + n}
  <1>14. PacketsIn(q, zs) \in Seq(all) /\ PacketsIn(q, zs) # <<>>
    BY <1>1, <1>2, <1>7, <1>13, PacketsLength
  <1>15. PacketsIn(q, xs) \in Seq(all) /\ Len(PacketsIn(q, xs)) = n
    <2>1. /\ PacketsIn(q, xs) \in Seq({PacketsIn(q, xs)[k] : k \in 1 .. n})
          /\ Len(PacketsIn(q, xs)) = n
      BY PacketsLength
    <2>2. {PacketsIn(q, xs)[k] : k \in 1 .. n} \subseteq all
      BY <1>2, <1>13
    <2> QED
      BY <2>1, <2>2, SeqMonotonic
  <1> HIDE DEF all, n
  <1>16. /\ Tail(PacketsIn(q, zs)) \in Seq(all) /\ Len(Tail(PacketsIn(q, zs))) = n
         /\ \A k \in 1 .. n : Tail(PacketsIn(q, zs))[k] = PacketsIn(q, zs)[k + 1]
    BY <1>2, <1>13, <1>14, HeadTailProperties
  <1>17. Tail(PacketsIn(q, zs)) = PacketsIn(q, xs)
    BY <1>2, <1>13, <1>15, <1>16, SeqEqual
  <1>18. Head(PacketsIn(q, zs)) = Decode(q, ys)
    BY <1>13, <1>14
  <1> QED
    BY <1>14, <1>17, <1>18 DEF zs

-----------------------------------------------------------------------------
(* Moving MPI messages along a stream *)

LEMMA MoveHead ==
  ASSUME NEW S, NEW s \in Seq(S), NEW t \in Seq(S), t # <<>>
  PROVE  /\ Append(s, Head(t)) \in Seq(S) /\ Tail(t) \in Seq(S)
         /\ Append(s, Head(t)) \o Tail(t) = s \o t
  <1> DEFINE a == Append(s, Head(t))
             b == Tail(t)
  <1>1. /\ Head(t) \in S /\ b \in Seq(S) /\ Len(b) = Len(t) - 1 /\ Head(t) = t[1]
        /\ \A i \in 1 .. Len(b) : b[i] = t[i + 1]
    BY HeadTailProperties
  <1>2. Len(t) \in Nat \ {0} /\ Len(s) \in Nat
    BY EmptySeq
  <1>3. /\ a \in Seq(S) /\ Len(a) = Len(s) + 1 /\ a[Len(s) + 1] = t[1]
        /\ \A i \in 1 .. Len(s) : a[i] = s[i]
    BY <1>1, AppendProperties
  <1> HIDE DEF a, b
  <1>4. /\ a \o b \in Seq(S) /\ Len(a \o b) = Len(a) + Len(b)
        /\ \A i \in 1 .. Len(a) + Len(b) :
             (a \o b)[i] = IF i <= Len(a) THEN a[i] ELSE b[i - Len(a)]
    BY <1>1, <1>3, ConcatProperties
  <1>5. /\ s \o t \in Seq(S) /\ Len(s \o t) = Len(s) + Len(t)
        /\ \A i \in 1 .. Len(s) + Len(t) :
             (s \o t)[i] = IF i <= Len(s) THEN s[i] ELSE t[i - Len(s)]
    BY ConcatProperties
  <1>6. Len(a \o b) = Len(s \o t)
    BY <1>1, <1>2, <1>3, <1>4, <1>5
  <1>7. ASSUME NEW i \in 1 .. Len(a \o b)
        PROVE  (a \o b)[i] = (s \o t)[i]
    <2>1. i \in 1 .. Len(s) + Len(t)
      BY <1>5, <1>6
    <2>2. CASE i <= Len(s)
      BY <1>1, <1>2, <1>3, <1>4, <1>5, <2>1, <2>2
    <2>3. CASE i = Len(s) + 1
      BY <1>1, <1>2, <1>3, <1>4, <1>5, <2>1, <2>3
    <2>4. CASE i > Len(s) + 1
      <3>1. i - Len(a) \in 1 .. Len(b) /\ (i - Len(a)) + 1 = i - Len(s)
        BY <1>1, <1>2, <1>3, <2>1, <2>4
      <3>2. (a \o b)[i] = b[i - Len(a)] /\ (s \o t)[i] = t[i - Len(s)]
        BY <1>1, <1>2, <1>3, <1>4, <1>5, <2>1, <2>4
      <3>3. b[i - Len(a)] = t[(i - Len(a)) + 1]
        BY <1>1, <3>1
      <3> QED
        BY <3>1, <3>2, <3>3
    <2> QED
      BY <1>2, <2>1, <2>2, <2>3, <2>4
  <1>8. a \o b = s \o t
    BY <1>4, <1>5, <1>6, <1>7, SeqEqual
  <1> QED
    BY <1>1, <1>3, <1>8 DEF a, b

Associates(a, b, c) == (a \o b) \o c = a \o (b \o c)

LEMMA Associative ==
  ASSUME NEW S, NEW a \in Seq(S), NEW b \in Seq(S), NEW c \in Seq(S)
  PROVE  Associates(a, b, c)
  BY ConcatAssociative DEF Associates

(* The three moves: with nothing of one thread left to send, the oldest    *)
(* unsent message goes to MPI, the oldest sent one to the receiver, and    *)
(* what the receiver has is taken away.                                    *)
LEMMA Regroup ==
  ASSUME NEW S, NEW k \in Seq(S), NEW n \in Seq(S), NEW u \in Seq(S)
  PROVE  /\ k \o n \o u \o <<>> = (k \o n) \o u
         /\ k \o n \o <<>> \o u = (k \o n) \o u
         /\ u # <<>> => (k \o Append(n, Head(u))) \o Tail(u) = (k \o n) \o u
         /\ n # <<>> => Append(k, Head(n)) \o Tail(n) = k \o n
         /\ k \o (<<>> \o n \o u) = (k \o n) \o u
  <1>1. k \o n \in Seq(S) /\ (k \o n) \o u \in Seq(S) /\ n \o u \in Seq(S)
    BY ConcatProperties
  <1>2. k \o n \o u \o <<>> = (k \o n) \o u /\ k \o n \o <<>> \o u = (k \o n) \o u
    BY <1>1, ConcatEmptySeq
  <1>3. ASSUME u # <<>>
        PROVE  (k \o Append(n, Head(u))) \o Tail(u) = (k \o n) \o u
    <2> DEFINE a == Append(n, Head(u))
               b == Tail(u)
    <2>1. a \in Seq(S) /\ b \in Seq(S) /\ a \o b = n \o u
      BY <1>3, MoveHead
    <2> HIDE DEF a, b
    <2>2. Associates(k, a, b)
      BY <2>1, Associative
    <2>3. Associates(k, n, u)
      BY Associative
    <2>4. (k \o a) \o b = (k \o n) \o u
      BY <2>1, <2>2, <2>3 DEF Associates
    <2> QED
      BY <2>4 DEF a, b
  <1>4. n # <<>> => Append(k, Head(n)) \o Tail(n) = k \o n
    BY MoveHead
  <1>5. k \o (<<>> \o n \o u) = (k \o n) \o u
    <2>1. <<>> \o n = n
      BY ConcatEmptySeq
    <2>2. Associates(k, n, u)
      BY Associative
    <2> QED
      BY <2>1, <2>2 DEF Associates
  <1> QED
    BY <1>2, <1>3, <1>4, <1>5

(* The first part of a stream and the rest. *)
Joins(k, n, u, v) == ((k \o n) \o u) \o v = k \o ((n \o u) \o v)

LEMMA FourParts ==
  ASSUME NEW S, NEW k \in Seq(S), NEW n \in Seq(S), NEW u \in Seq(S), NEW v \in Seq(S)
  PROVE  Joins(k, n, u, v)
  <1>1. (k \o n) \o u = k \o (n \o u)
    BY Associative DEF Associates
  <1>2. (k \o (n \o u)) \o v = k \o ((n \o u) \o v)
    <2>1. n \o u \in Seq(S)
      BY ConcatProperties
    <2>2. \A m \in Seq(S) : Associates(k, m, v)
      BY Associative
    <2> QED
      BY <2>1, <2>2 DEF Associates
  <1> QED
    BY <1>1, <1>2 DEF Joins

LEMMA StreamTypes ==
  ASSUME MpiTypeOK, NEW p \in Process, NEW q \in Process
  PROVE  /\ TakenOf(q, p) \in Seq(MpiMessage)
         /\ net[q][p] \in Seq(MpiMessage)
         /\ \A t \in Thread : Unsent(q, t, p) \in Seq(MpiMessage)
         /\ TakenOf(q, p) \o net[q][p] \in Seq(MpiMessage)
         /\ Stream(q, p) \in Seq(MpiMessage)
  <1>1. TakenOf(q, p) \in Seq(MpiMessage)
    <2>1. taken[p] \in Seq(MpiMessage) /\ <<>> \in Seq(MpiMessage)
      BY DEF MpiTypeOK
    <2> QED
      BY <2>1 DEF TakenOf
  <1>2. net[q][p] \in Seq(MpiMessage)
    BY DEF MpiTypeOK
  <1>3. ASSUME NEW t \in Thread
        PROVE  Unsent(q, t, p) \in Seq(MpiMessage)
    <2>1. sending[q][t] \in [Process -> Seq(MpiMessage)] \cup {NoSend}
      BY DEF MpiTypeOK
    <2>2. <<>> \in Seq(MpiMessage)
      OBVIOUS
    <2> QED
      BY <2>1, <2>2 DEF Unsent
  <1>4. TakenOf(q, p) \o net[q][p] \in Seq(MpiMessage)
    BY <1>1, <1>2, ConcatProperties
  <1>5. Stream(q, p) \in Seq(MpiMessage)
    <2>1. (TakenOf(q, p) \o net[q][p]) \o Unsent(q, "main", p) \in Seq(MpiMessage)
      BY <1>3, <1>4, ConcatProperties DEF Thread
    <2> QED
      BY <1>3, <2>1, ConcatProperties DEF Thread, Stream
  <1> QED
    BY <1>1, <1>2, <1>3, <1>4, <1>5

(* What is taken or on the way is the beginning of a stream.               *)
LEMMA StreamBegin ==
  ASSUME MpiTypeOK, NEW p \in Process, NEW q \in Process,
         NEW i \in 1 .. Len(TakenOf(q, p) \o net[q][p])
  PROVE  /\ i \in 1 .. Len(Stream(q, p))
         /\ Stream(q, p)[i] = (TakenOf(q, p) \o net[q][p])[i]
  <1> DEFINE s == TakenOf(q, p) \o net[q][p]
             u == Unsent(q, "main", p)
             v == Unsent(q, "receiving", p)
  <1>1. s \in Seq(MpiMessage) /\ u \in Seq(MpiMessage) /\ v \in Seq(MpiMessage)
    BY StreamTypes DEF Thread
  <1>2. Stream(q, p) = (s \o u) \o v
    BY DEF Stream
  <1>3. i \in 1 .. Len(s)
    OBVIOUS
  <1> HIDE DEF s, u, v
  <1>4. /\ s \o u \in Seq(MpiMessage) /\ Len(s \o u) = Len(s) + Len(u)
        /\ \A j \in 1 .. Len(s) + Len(u) :
             (s \o u)[j] = IF j <= Len(s) THEN s[j] ELSE u[j - Len(s)]
    BY <1>1, ConcatProperties
  <1>5. /\ Len((s \o u) \o v) = Len(s \o u) + Len(v)
        /\ \A j \in 1 .. Len(s \o u) + Len(v) :
             ((s \o u) \o v)[j] = IF j <= Len(s \o u) THEN (s \o u)[j] ELSE v[j - Len(s \o u)]
    BY <1>1, <1>4, ConcatProperties
  <1>6. Len(s) \in Nat /\ Len(u) \in Nat /\ Len(v) \in Nat
    BY <1>1
  <1>7. i \in 1 .. Len((s \o u) \o v) /\ ((s \o u) \o v)[i] = s[i]
    BY <1>3, <1>4, <1>5, <1>6
  <1> QED
    BY <1>2, <1>7 DEF s

LEMMA FramedBegin ==
  ASSUME NEW S, NEW xs \in Seq(S), Framed(xs), xs # <<>>
  PROVE  ~IsText(xs[1])
  <1>1. 1 \in 1 .. Len(xs)
    BY EmptySeq
  <1> QED
    BY <1>1 DEF Framed

LEMMA FramedAppend ==
  ASSUME NEW S, NEW xs \in Seq(S), NEW ys \in Seq(S), Framed(xs), Complete(ys)
  PROVE  Framed(xs \o ys)
  <1> DEFINE zs == xs \o ys
             l == Len(xs)
             d == Len(ys)
  <1>1. /\ Len(zs) = l + d /\ l \in Nat
        /\ \A i \in 1 .. l + d : zs[i] = IF i <= l THEN xs[i] ELSE ys[i - l]
    BY ConcatProperties
  <1>2. /\ d = 1 \/ d = 2
        /\ ~IsText(ys[1])
        /\ Promises(ys[1]) <=> d = 2
        /\ d = 2 => IsText(ys[2]) /\ ~Promises(ys[2])
    BY DEF Complete
  <1> HIDE DEF zs, d
  <1>3. \A i \in 1 .. l : zs[i] = xs[i]
    BY <1>1, <1>2
  <1>4. zs[l + 1] = ys[1] /\ (d = 2 => zs[l + 2] = ys[2])
    BY <1>1, <1>2
  <1>5. ASSUME NEW i \in 1 .. Len(zs)
        PROVE  /\ IsText(zs[i]) <=> i > 1 /\ Promises(zs[i - 1])
               /\ i = Len(zs) => ~Promises(zs[i])
    <2>1. CASE i <= l
      <3>1. i \in 1 .. l /\ i # Len(zs) /\ (i > 1 => i - 1 \in 1 .. l)
        BY <1>1, <1>2, <2>1
      <3> QED
        BY <1>3, <3>1 DEF Framed
    <2>2. CASE i = l + 1
      <3>1. l > 0 => ~Promises(zs[l])
        BY <1>1, <1>3 DEF Framed
      <3>2. i - 1 = l /\ (i > 1 <=> l > 0) /\ (i = Len(zs) <=> d # 2)
        BY <1>1, <1>2, <2>2
      <3> QED
        BY <1>2, <1>4, <2>2, <3>1, <3>2
    <2>3. CASE d = 2 /\ i = l + 2
      <3>1. i - 1 = l + 1 /\ i > 1
        BY <1>1, <2>3
      <3> QED
        BY <1>2, <1>4, <2>3, <3>1
    <2>4. i <= l \/ i = l + 1 \/ (d = 2 /\ i = l + 2)
      BY <1>1, <1>2
    <2> QED
      BY <2>1, <2>2, <2>3, <2>4
  <1> QED
    BY <1>5 DEF Framed, zs

LEMMA FramedTake ==
  ASSUME NEW S, NEW xs \in Seq(S), NEW ys \in Seq(S), Framed(ys \o xs), Complete(ys)
  PROVE  Framed(xs) /\ (xs # <<>> => ~IsText(xs[1]))
  <1> DEFINE zs == ys \o xs
             l == Len(xs)
             d == Len(ys)
  <1>1. /\ Len(zs) = d + l /\ l \in Nat
        /\ \A i \in 1 .. d + l : zs[i] = IF i <= d THEN ys[i] ELSE xs[i - d]
    BY ConcatProperties
  <1>2. /\ d = 1 \/ d = 2
        /\ ~Promises(ys[d])
    BY DEF Complete
  <1>0. \A i \in 1 .. Len(zs) :
          /\ IsText(zs[i]) <=> i > 1 /\ Promises(zs[i - 1])
          /\ i = Len(zs) => ~Promises(zs[i])
    BY DEF Framed
  <1> HIDE DEF zs, d
  <1>3. \A i \in 1 .. l : zs[i + d] = xs[i] /\ i + d \in 1 .. Len(zs)
    BY <1>1, <1>2
  <1>4. zs[d] = ys[d]
    BY <1>1, <1>2
  <1>5. l > 0 => ~IsText(xs[1])
    <2> SUFFICES ASSUME l > 0
                 PROVE  ~IsText(xs[1])
      OBVIOUS
    <2>1. 1 + d \in 1 .. Len(zs) /\ zs[1 + d] = xs[1]
      BY <1>1, <1>3
    <2>2. (1 + d) - 1 = d
      BY <1>2
    <2>3. IsText(zs[1 + d]) => Promises(zs[(1 + d) - 1])
      BY <1>0, <2>1
    <2> QED
      BY <1>2, <1>4, <2>1, <2>2, <2>3
  <1>6. ASSUME NEW i \in 1 .. l
        PROVE  /\ IsText(xs[i]) <=> i > 1 /\ Promises(xs[i - 1])
               /\ i = l => ~Promises(xs[i])
    <2>1. /\ IsText(zs[i + d]) <=> i + d > 1 /\ Promises(zs[(i + d) - 1])
          /\ i + d = Len(zs) => ~Promises(zs[i + d])
      BY <1>0, <1>3
    <2>2. i > 1 => i - 1 \in 1 .. l /\ (i + d) - 1 = (i - 1) + d /\ i + d > 1
      BY <1>1, <1>2
    <2>3. zs[i + d] = xs[i] /\ (i > 1 => zs[(i - 1) + d] = xs[i - 1])
      BY <1>3, <2>2
    <2>4. i = l => i + d = Len(zs)
      BY <1>1, <1>2
    <2>5. i = 1 \/ i > 1
      BY <1>1
    <2>6. CASE i = 1
      BY <1>1, <1>5, <2>1, <2>3, <2>4, <2>6
    <2>7. CASE i > 1
      BY <2>1, <2>2, <2>3, <2>4, <2>7
    <2> QED
      BY <2>5, <2>6, <2>7
  <1>7. xs # <<>> => l > 0
    BY EmptySeq
  <1> QED
    BY <1>5, <1>6, <1>7 DEF Framed

-----------------------------------------------------------------------------
(* Types *)

LEMMA MpiInvInit == MpiInit => MpiInv
  <1> SUFFICES ASSUME MpiInit
               PROVE  MpiInv
    OBVIOUS
  <1>1. MpiTypeOK
    <2>1. /\ optimized \in BOOLEAN /\ gaveUp \in BOOLEAN
          /\ clock \in [Process -> Nat] /\ stamp \in [Process -> Nat]
          /\ sends \in [Process -> [Thread -> Nat]]
          /\ source \in [Process -> Process]
          /\ recv \in [Process -> Packet \cup {NoPacket}]
      BY DEF MpiInit
    <2>2. <<>> \in Seq(MpiMessage) /\ Len(<<>>) = 0
      OBVIOUS
    <2>3. /\ net \in [Process -> [Process -> Seq(MpiMessage)]]
          /\ sending \in [Process -> [Thread -> [Process -> Seq(MpiMessage)] \cup {NoSend}]]
      BY <2>2 DEF MpiInit
    <2>4. taken \in [Process -> Seq(MpiMessage)] /\ \A p \in Process : taken[p] = <<>>
      BY <2>2 DEF MpiInit
    <2> QED
      BY <2>1, <2>2, <2>3, <2>4 DEF MpiTypeOK
  <1>2. ASSUME NEW p \in Process, NEW q \in Process
        PROVE  Framed(Stream(q, p))
    <2>1. Stream(q, p) = <<>> \o <<>> \o <<>> \o <<>>
      BY DEF MpiInit, Stream, TakenOf, Unsent, Thread
    <2>2. Stream(q, p) = <<>>
      BY <2>1, ConcatEmptySeq
    <2> QED
      BY <2>2 DEF Framed
  <1>3. ASSUME NEW p \in Process
        PROVE  OneSends(p) /\ OnePacket(p) /\ Stamped(p)
    BY DEF MpiInit, OneSends, OnePacket, Stamped, Thread
  <1> QED
    BY <1>1, <1>2, <1>3 DEF MpiInv

(* A receiving thread that has nothing yet takes a header (or a whole      *)
(* packet); one that awaits a text gets it.                                *)
LEMMA FirstTaken ==
  ASSUME MpiTypeOK, NEW p \in Process, NEW q \in Process, Framed(Stream(q, p)),
         taken[p] = <<>>, net[q][p] # <<>>
  PROVE  ~IsText(Head(net[q][p]))
  <1>1. TakenOf(q, p) = <<>>
    BY DEF TakenOf
  <1>2. net[q][p] \in Seq(MpiMessage) /\ Stream(q, p) \in Seq(MpiMessage)
    BY StreamTypes
  <1>3. TakenOf(q, p) \o net[q][p] = net[q][p]
    BY <1>1, <1>2, ConcatEmptySeq
  <1>4. 1 \in 1 .. Len(net[q][p]) /\ Head(net[q][p]) = net[q][p][1]
    BY <1>2, EmptySeq
  <1>5. 1 \in 1 .. Len(Stream(q, p)) /\ Stream(q, p)[1] = Head(net[q][p])
    BY <1>3, <1>4, StreamBegin
  <1> QED
    BY <1>5 DEF Framed

LEMMA AwaitedText ==
  ASSUME MpiTypeOK, NEW p \in Process, AwaitsText(p),
         Framed(Stream(source[p], p)), net[source[p]][p] # <<>>
  PROVE  IsText(Head(net[source[p]][p]))
  <1> DEFINE q == source[p]
             n == net[q][p]
             s == TakenOf(q, p) \o n
  <1>1. q \in Process /\ TakenOf(q, p) = taken[p] /\ taken[p] \in Seq(MpiMessage)
    BY DEF MpiTypeOK, TakenOf
  <1>2. n \in Seq(MpiMessage) /\ n # <<>>
    BY <1>1, StreamTypes
  <1>3. Len(taken[p]) = 1 /\ taken[p][1].hasText /\ ~optimized
    BY DEF AwaitsText
  <1>4. Promises(taken[p][1])
    <2>1. taken[p][1] \in MpiMessage /\ ~IsText(taken[p][1])
      <3>1. 1 \in 1 .. Len(taken[p])
        BY <1>3
      <3> QED
        BY <1>1, <3>1, ElementOfSeq DEF MpiTypeOK
    <2>2. MpiMessage = Header \cup Text
      BY <1>3 DEF MpiMessage
    <2> QED
      BY <1>3, <2>1, <2>2, Kinds
  <1>5. /\ Len(s) = 1 + Len(n) /\ Len(n) \in Nat \ {0}
        /\ s[1] = taken[p][1] /\ s[2] = n[1]
    <2>1. /\ Len(s) = Len(taken[p]) + Len(n)
          /\ \A i \in 1 .. Len(taken[p]) + Len(n) :
               s[i] = IF i <= Len(taken[p]) THEN taken[p][i] ELSE n[i - Len(taken[p])]
      <3>1. s = taken[p] \o n
        BY <1>1
      <3> HIDE DEF s, n
      <3> QED
        BY <1>1, <1>2, <3>1, ConcatProperties
    <2>2. Len(n) \in Nat \ {0}
      BY <1>2, EmptySeq
    <2> HIDE DEF s, n
    <2> QED
      BY <1>3, <2>1, <2>2
  <1>6. /\ 2 \in 1 .. Len(Stream(q, p)) /\ Stream(q, p)[2] = n[1]
        /\ Stream(q, p)[1] = taken[p][1]
    <2>1. 1 \in 1 .. Len(s) /\ 2 \in 1 .. Len(s)
      BY <1>5
    <2> QED
      BY <1>1, <1>5, <2>1, StreamBegin
  <1>7. IsText(n[1])
    <2>1. \A i \in 1 .. Len(Stream(q, p)) :
            IsText(Stream(q, p)[i]) <=> i > 1 /\ Promises(Stream(q, p)[i - 1])
      BY DEF Framed
    <2>2. 2 > 1 /\ 2 - 1 = 1
      OBVIOUS
    <2> QED
      BY <1>4, <1>6, <2>1, <2>2
  <1>8. Head(n) = n[1]
    BY <1>2
  <1> QED
    BY <1>7, <1>8

(* When nothing more is awaited, what was taken is a packet. *)
LEMMA TakenComplete ==
  ASSUME MpiTypeOK, NEW p \in Process, taken[p] # <<>>, ~AwaitsText(p),
         Framed(Stream(source[p], p))
  PROVE  Complete(taken[p]) /\ Decode(source[p], taken[p]) \in Packet
  <1> DEFINE ys == taken[p]
  <1>1. /\ ys \in Seq(MpiMessage) /\ ys # <<>> /\ optimized \in BOOLEAN /\ source[p] \in Process
        /\ \A i \in 1 .. Len(ys) : i <= 2 /\ (IsText(ys[i]) <=> i = 2)
    BY DEF MpiTypeOK
  <1>2. Len(ys) = 1 \/ Len(ys) = 2
    <2>1. Len(ys) \in Nat \ {0}
      BY <1>1, EmptySeq
    <2>2. Len(ys) \in 1 .. Len(ys)
      BY <2>1
    <2>3. Len(ys) <= 2
      BY <1>1, <2>2
    <2>4. \A l \in Nat \ {0} : l <= 2 => l = 1 \/ l = 2
      OBVIOUS
    <2> QED
      BY <2>1, <2>3, <2>4
  <1>3. /\ ys[1] \in MpiMessage /\ ~IsText(ys[1])
        /\ Len(ys) = 2 => ys[2] \in MpiMessage /\ IsText(ys[2])
    BY <1>1, <1>2
  <1>4. ys[1] \in Header \/ ys[1] \in Whole
    BY <1>1, <1>3, Kinds DEF MpiMessage
  <1>5. Len(ys) = 2 => ys[2] \in Text /\ ~optimized
    BY <1>1, <1>3, Kinds DEF MpiMessage
  <1>6. Promises(ys[1]) <=> Len(ys) = 2
    <2>1. ASSUME Promises(ys[1])
          PROVE  Len(ys) = 2
      <3>1. ys[1] \in Header /\ ~optimized /\ ys[1].hasText
        BY <1>1, <1>3, <1>4, <2>1, Kinds DEF MpiMessage
      <3>2. Len(ys) # 1
        BY <3>1 DEF AwaitsText
      <3> QED
        BY <1>2, <3>2
    <2>2. ASSUME Len(ys) = 2
          PROVE  Promises(ys[1])
      <3> DEFINE q == source[p]
                 s == TakenOf(q, p) \o net[q][p]
      <3>1. TakenOf(q, p) = ys /\ net[q][p] \in Seq(MpiMessage)
        BY <1>1, StreamTypes DEF TakenOf
      <3>2. 1 \in 1 .. Len(s) /\ 2 \in 1 .. Len(s) /\ s[1] = ys[1] /\ s[2] = ys[2]
        <4>1. s = ys \o net[q][p]
          BY <3>1
        <4> HIDE DEF s, ys
        <4>2. /\ Len(s) = Len(ys) + Len(net[q][p]) /\ Len(net[q][p]) \in Nat
              /\ \A i \in 1 .. Len(ys) + Len(net[q][p]) :
                   s[i] = IF i <= Len(ys) THEN ys[i] ELSE net[q][p][i - Len(ys)]
          BY <1>1, <3>1, <4>1, ConcatProperties
        <4> QED
          BY <2>2, <4>2
      <3>3. /\ 2 \in 1 .. Len(Stream(q, p)) /\ Stream(q, p)[2] = ys[2]
            /\ Stream(q, p)[1] = ys[1]
        BY <1>1, <3>2, StreamBegin
      <3>4. \A i \in 1 .. Len(Stream(q, p)) :
              IsText(Stream(q, p)[i]) => Promises(Stream(q, p)[i - 1])
        BY DEF Framed
      <3>5. 2 - 1 = 1
        OBVIOUS
      <3> QED
        BY <1>3, <2>2, <3>3, <3>4, <3>5
    <2> QED
      BY <2>1, <2>2
  <1>7. Complete(ys)
    <2>1. Len(ys) = 2 => ~Promises(ys[2])
      BY <1>5, Kinds
    <2> QED
      BY <1>2, <1>3, <1>6, <2>1 DEF Complete
  <1>8. ys[1].lamportTime \in Nat /\ ys[1].messageType \in {SentType(t) : t \in Thread}
    BY <1>4 DEF Header, Whole
  <1>9. (IF "text" \in DOMAIN ys[Len(ys)] THEN ys[Len(ys)].text ELSE EmptyMessage) \in Message
    <2>1. CASE Len(ys) = 1
      <3>1. ys[1] \in Header => "text" \notin DOMAIN ys[1]
        BY DEF Header
      <3>2. ys[1] \in Whole => ys[1].text \in Message
        BY DEF Whole
      <3> QED
        BY <1>4, <2>1, <3>1, <3>2, TransportAssumption
    <2>2. CASE Len(ys) = 2
      BY <1>5, <2>2, TransportAssumption DEF Text
    <2> QED
      BY <1>2, <2>1, <2>2
  <1>10. Decode(source[p], ys) \in Packet
    BY <1>1, <1>8, <1>9 DEF Decode, Packet
  <1> QED
    BY <1>7, <1>10

-----------------------------------------------------------------------------
(* What the steps do to the streams *)

SameStreams == \A p, q \in Process : Stream(q, p)' = Stream(q, p)

(* What ys does to the streams as p sends it to the recipients. *)
Extended(p, recipients, ys) ==
  \A r, q \in Process :
    Stream(r, q)' = IF r = p /\ q \in recipients THEN Stream(r, q) \o ys ELSE Stream(r, q)

(* What t's send() then has still to hand to MPI. *)
Handed(p, t, recipients, ys) ==
  /\ sending'[p][t] # NoSend
  /\ \A q \in Process : sending'[p][t][q] = IF q \in recipients THEN ys ELSE <<>>

(* A send puts its packet at the end of the streams to its recipients.     *)
LEMMA BeginSendStep ==
  ASSUME MpiTypeOK, NEW p \in Process, NEW t \in Thread, NEW message \in Message,
         NEW recipients \in SUBSET Process, BeginSend(p, t, recipients, message),
         NEW ys, ys = Encode(clock[p] + 1, SentType(t), message)
  PROVE  /\ MpiTypeOK'
         /\ Handed(p, t, recipients, ys)
         /\ Extended(p, recipients, ys)
  <1> DEFINE unsent == [q \in Process |-> IF q \in recipients THEN ys ELSE <<>>]
  <1>1. clock[p] + 1 \in Nat /\ optimized \in BOOLEAN
    BY DEF MpiTypeOK
  <1>2. ys \in Seq(MpiMessage)
    BY <1>1, EncodeFacts
  <1>3. sending' = [sending EXCEPT ![p][t] = unsent]
    BY DEF BeginSend
  <1>4. unsent \in [Process -> Seq(MpiMessage)] /\ unsent # NoSend
    <2>1. unsent \in [Process -> Seq(MpiMessage)]
      BY <1>2
    <2>2. MpiMessage \subseteq Header \cup Text \cup Whole
      BY DEF MpiMessage
    <2>3. \A xs \in Seq(MpiMessage) : xs \in Seq(Header \cup Text \cup Whole)
      BY <2>2, SeqMonotonic
    <2> HIDE DEF unsent
    <2>4. unsent \in [Process -> Seq(Header \cup Text \cup Whole)]
      BY <2>1, <2>3
    <2> QED
      BY <2>1, <2>4, TransportAssumption
  <1>5. sending \in [Process -> [Thread -> [Process -> Seq(MpiMessage)] \cup {NoSend}]]
    BY DEF MpiTypeOK
  <1>6. MpiTypeOK'
    <2>1. MpiMessage' = MpiMessage
      BY DEF BeginSend, MpiMessage
    <2> HIDE DEF unsent
    <2>2. sending' \in [Process -> [Thread -> [Process -> Seq(MpiMessage)] \cup {NoSend}]]
      BY <1>3, <1>4, <1>5
    <2>3. clock' \in [Process -> Nat] /\ sends' \in [Process -> [Thread -> Nat]]
      BY DEF BeginSend, MpiTypeOK
    <2> QED
      BY <2>1, <2>2, <2>3 DEF BeginSend, MpiTypeOK
  <1>7. \A u \in Thread : sending[p][u] = NoSend
    BY DEF BeginSend, MutexFree
  <1>8. UNCHANGED <<net, taken, source>>
    BY DEF BeginSend
  <1>9. ASSUME NEW q \in Process
        PROVE  Stream(p, q)' = IF q \in recipients THEN Stream(p, q) \o ys ELSE Stream(p, q)
    <2> DEFINE k == TakenOf(p, q)
               n == net[p][q]
    <2>1. /\ TakenOf(p, q)' = k /\ net'[p][q] = n
          /\ k \in Seq(MpiMessage) /\ n \in Seq(MpiMessage) /\ k \o n \in Seq(MpiMessage)
      BY <1>8, StreamTypes DEF TakenOf
    <2>2. \A u \in Thread : Unsent(p, u, q) = <<>>
      BY <1>7 DEF Unsent
    <2>3. \A u \in Thread : Unsent(p, u, q)' = IF u = t THEN unsent[q] ELSE <<>>
      <3> HIDE DEF unsent
      <3> QED
        BY <1>3, <1>4, <1>5, <1>7 DEF Unsent
    <2>4. unsent[q] \in Seq(MpiMessage) /\ <<>> \in Seq(MpiMessage)
      BY <1>4
    <2>5. Stream(p, q) = k \o n
      <3>1. Stream(p, q) = k \o n \o <<>> \o <<>>
        BY <2>2 DEF Stream, Thread
      <3> HIDE DEF k, n
      <3> QED
        BY <2>1, <3>1, ConcatEmptySeq
    <2>6. Stream(p, q)' = (k \o n) \o unsent[q]
      <3> DEFINE e == unsent[q]
      <3> HIDE DEF e
      <3>0. \A u \in Thread : Unsent(p, u, q)' = IF u = t THEN e ELSE <<>>
        BY <2>3 DEF e
      <3>1. Stream(p, q)' = k \o n \o e \o <<>> \/ Stream(p, q)' = k \o n \o <<>> \o e
        BY <2>1, <3>0 DEF Stream, Thread
      <3> HIDE DEF k, n
      <3>2. e \in Seq(MpiMessage)
        BY <2>4 DEF e
      <3>3. Stream(p, q)' = (k \o n) \o e
        BY <2>1, <3>1, <3>2, Regroup
      <3> QED
        BY <3>3 DEF e
    <2> HIDE DEF k, n
    <2>7. (k \o n) \o <<>> = k \o n
      BY <2>1, ConcatEmptySeq
    <2> QED
      BY <2>5, <2>6, <2>7
  <1>10. ASSUME NEW q \in Process, NEW r \in Process, r # p
         PROVE  Stream(r, q)' = Stream(r, q)
    <2>1. sending'[r] = sending[r]
      BY <1>3, <1>5, <1>10
    <2> QED
      BY <1>8, <2>1 DEF Stream, TakenOf, Unsent
  <1>11. Handed(p, t, recipients, ys)
    <2>1. sending'[p][t] = unsent
      <3> HIDE DEF unsent
      <3> QED
        BY <1>3, <1>5
    <2> QED
      BY <1>4, <2>1 DEF Handed
  <1>12. Extended(p, recipients, ys)
    BY <1>9, <1>10 DEF Extended
  <1> QED
    BY <1>6, <1>11, <1>12

(* MPI takes the next message of a send. *)
LEMMA MpiSendStep ==
  ASSUME MpiTypeOK, NEW p \in Process, NEW t \in Thread, NEW q \in Process,
         OneSends(p), MpiSend(p, t, q)
  PROVE  MpiTypeOK' /\ SameStreams
  <1> DEFINE u == sending[p][t][q]
             n == net[p][q]
  <1>1. /\ sending \in [Process -> [Thread -> [Process -> Seq(MpiMessage)] \cup {NoSend}]]
        /\ net \in [Process -> [Process -> Seq(MpiMessage)]]
    BY DEF MpiTypeOK
  <1>2. sending[p][t] \in [Process -> Seq(MpiMessage)] /\ sending[p][t] # NoSend
    BY <1>1 DEF MpiSend
  <1>3. u \in Seq(MpiMessage) /\ u # <<>> /\ n \in Seq(MpiMessage)
    BY <1>1, <1>2 DEF MpiSend
  <1>4. /\ sending' = [sending EXCEPT ![p][t][q] = Tail(u)]
        /\ net' = [net EXCEPT ![p][q] = Append(n, Head(u))]
        /\ UNCHANGED <<taken, source>>
    BY DEF MpiSend
  <1> HIDE DEF u, n
  <1>5. Tail(u) \in Seq(MpiMessage) /\ Append(n, Head(u)) \in Seq(MpiMessage)
    BY <1>3, MoveHead
  <1>6. [sending[p][t] EXCEPT ![q] = Tail(u)] \in [Process -> Seq(MpiMessage)]
    BY <1>2, <1>5
  <1>7. [sending[p][t] EXCEPT ![q] = Tail(u)] # NoSend
    <2>1. \A xs \in Seq(MpiMessage) : xs \in Seq(Header \cup Text \cup Whole)
      BY SeqMonotonic DEF MpiMessage
    <2> QED
      BY <1>6, <2>1, TransportAssumption
  <1>8. /\ \A v \in Thread, r, s \in Process :
             r # p => sending'[r] = sending[r] /\ net'[r] = net[r]
        /\ \A v \in Thread : v # t => sending'[p][v] = sending[p][v]
        /\ \A s \in Process : s # q => net'[p][s] = net[p][s]
        /\ sending'[p][t] = [sending[p][t] EXCEPT ![q] = Tail(u)]
        /\ net'[p][q] = Append(n, Head(u))
    BY <1>1, <1>2, <1>4
  <1>9. MpiTypeOK'
    <2>1. MpiMessage' = MpiMessage
      BY DEF MpiSend, MpiMessage
    <2>2. sending' \in [Process -> [Thread -> [Process -> Seq(MpiMessage)] \cup {NoSend}]]
      BY <1>1, <1>4, <1>6
    <2>3. net' \in [Process -> [Process -> Seq(MpiMessage)]]
      BY <1>1, <1>4, <1>5
    <2> QED
      BY <2>1, <2>2, <2>3 DEF MpiSend, MpiTypeOK
  <1>10. ASSUME NEW r \in Process, NEW s \in Process
         PROVE  Stream(r, s)' = Stream(r, s)
    <2>1. TakenOf(r, s)' = TakenOf(r, s)
      BY <1>4 DEF TakenOf
    <2>2. CASE r # p
      <3>1. net'[r][s] = net[r][s] /\ \A v \in Thread : Unsent(r, v, s)' = Unsent(r, v, s)
        BY <1>8, <2>2 DEF Unsent
      <3> QED
        BY <2>1, <3>1 DEF Stream, Thread
    <2>3. CASE r = p /\ s # q
      <3>1. net'[r][s] = net[r][s] /\ \A v \in Thread : Unsent(r, v, s)' = Unsent(r, v, s)
        BY <1>2, <1>7, <1>8, <2>3 DEF Unsent
      <3> QED
        BY <2>1, <3>1 DEF Stream, Thread
    <2>4. CASE r = p /\ s = q
      <3> DEFINE k == TakenOf(p, q)
      <3>1. \A v \in Thread :
              /\ Unsent(p, v, q) = IF v = t THEN u ELSE <<>>
              /\ Unsent(p, v, q)' = IF v = t THEN Tail(u) ELSE <<>>
        <4>1. \A v \in Thread : v # t => sending[p][v] = NoSend
          BY <1>2 DEF OneSends, Thread
        <4>2. \A v \in Thread : v # t =>
                Unsent(p, v, q) = <<>> /\ Unsent(p, v, q)' = <<>>
          BY <1>8, <4>1 DEF Unsent
        <4>3. Unsent(p, t, q) = u
          BY <1>2 DEF Unsent, u
        <4>4. Unsent(p, t, q)' = Tail(u)
          <5>1. sending'[p][t] # NoSend /\ sending'[p][t][q] = Tail(u)
            BY <1>2, <1>7, <1>8
          <5> QED
            BY <5>1 DEF Unsent
        <4> QED
          BY <4>2, <4>3, <4>4
      <3>2. k \in Seq(MpiMessage) /\ net[p][q] = n
        BY StreamTypes DEF n
      <3>3. TakenOf(p, q)' = k /\ net'[p][q] = Append(n, Head(u))
        BY <1>8, <2>1, <2>4
      <3>4. \/ /\ Stream(p, q) = k \o n \o u \o <<>>
               /\ Stream(p, q)' = k \o Append(n, Head(u)) \o Tail(u) \o <<>>
            \/ /\ Stream(p, q) = k \o n \o <<>> \o u
               /\ Stream(p, q)' = k \o Append(n, Head(u)) \o <<>> \o Tail(u)
        BY <3>1, <3>2, <3>3 DEF Stream, Thread
      <3> HIDE DEF k
      <3>5. Stream(p, q) = (k \o n) \o u
        BY <1>3, <3>2, <3>4, Regroup
      <3>6. Stream(p, q)' = (k \o Append(n, Head(u))) \o Tail(u)
        <4> DEFINE a == Append(n, Head(u))
                   b == Tail(u)
                   st == Stream(p, q)'
        <4>1. a \in Seq(MpiMessage) /\ b \in Seq(MpiMessage)
          BY <1>5
        <4>2. st = k \o a \o b \o <<>> \/ st = k \o a \o <<>> \o b
          BY <3>4
        <4> HIDE DEF a, b, st
        <4>3. st = (k \o a) \o b
          BY <3>2, <4>1, <4>2, Regroup
        <4> QED
          BY <4>3 DEF a, b, st
      <3>7. (k \o Append(n, Head(u))) \o Tail(u) = (k \o n) \o u
        BY <1>3, <3>2, Regroup
      <3> QED
        BY <2>4, <3>5, <3>6, <3>7
    <2> QED
      BY <2>2, <2>3, <2>4
  <1> QED
    BY <1>9, <1>10 DEF SameStreams

LEMMA EndSendStep ==
  ASSUME MpiTypeOK, NEW p \in Process, NEW t \in Thread, EndSend(p, t)
  PROVE  MpiTypeOK' /\ SameStreams
  <1>1. sending \in [Process -> [Thread -> [Process -> Seq(MpiMessage)] \cup {NoSend}]]
    BY DEF MpiTypeOK
  <1>2. sending' = [sending EXCEPT ![p][t] = NoSend] /\ UNCHANGED <<net, taken, source>>
    BY DEF EndSend
  <1>3. MpiTypeOK'
    <2>1. MpiMessage' = MpiMessage
      BY DEF EndSend, MpiMessage
    <2>2. sending' \in [Process -> [Thread -> [Process -> Seq(MpiMessage)] \cup {NoSend}]]
      BY <1>1, <1>2
    <2> QED
      BY <2>1, <2>2 DEF EndSend, MpiTypeOK
  <1>4. ASSUME NEW r \in Process, NEW v \in Thread, NEW s \in Process
        PROVE  Unsent(r, v, s)' = Unsent(r, v, s)
    <2>1. CASE r = p /\ v = t
      BY <1>1, <1>2, <2>1 DEF Unsent, EndSend
    <2>2. CASE ~(r = p /\ v = t)
      <3>1. sending'[r][v] = sending[r][v]
        BY <1>1, <1>2, <2>2
      <3> QED
        BY <3>1 DEF Unsent
    <2> QED
      BY <2>1, <2>2
  <1>5. SameStreams
    BY <1>2, <1>4 DEF SameStreams, Stream, TakenOf, Thread
  <1> QED
    BY <1>3, <1>5

(* The receiving thread takes a message of q: nothing, or q's, is in hand. *)
LEMMA TakeStep ==
  ASSUME MpiTypeOK, NEW p \in Process, NEW q \in Process, Take(p, q),
         taken[p] = <<>> \/ (source[p] = q /\ Len(taken[p]) = 1),
         IsText(Head(net[q][p])) <=> taken[p] # <<>>
  PROVE  MpiTypeOK' /\ SameStreams /\ taken'[p] # <<>>
  <1> DEFINE k == taken[p]
             n == net[q][p]
  <1>1. /\ taken \in [Process -> Seq(MpiMessage)] /\ source \in [Process -> Process]
        /\ net \in [Process -> [Process -> Seq(MpiMessage)]]
    BY DEF MpiTypeOK
  <1>2. k \in Seq(MpiMessage) /\ n \in Seq(MpiMessage) /\ n # <<>>
    BY <1>1 DEF Take
  <1>3. /\ taken' = [taken EXCEPT ![p] = Append(k, Head(n))]
        /\ net' = [net EXCEPT ![q][p] = Tail(n)]
        /\ source' = [source EXCEPT ![p] = q]
        /\ sending' = sending
    BY DEF Take
  <1>0. (k = <<>> \/ Len(k) = 1) /\ (IsText(Head(n)) <=> k # <<>>)
    OBVIOUS
  <1> HIDE DEF k, n
  <1>4. /\ Append(k, Head(n)) \in Seq(MpiMessage) /\ Tail(n) \in Seq(MpiMessage)
        /\ Append(k, Head(n)) \o Tail(n) = k \o n
    BY <1>2, MoveHead
  <1>5. /\ taken'[p] = Append(k, Head(n)) /\ source'[p] = q /\ net'[q][p] = Tail(n)
        /\ \A r \in Process : r # p => taken'[r] = taken[r] /\ source'[r] = source[r]
        /\ \A r, s \in Process : r # q \/ s # p => net'[r][s] = net[r][s]
    BY <1>1, <1>3
  <1>6. /\ taken'[p] # <<>>
        /\ \A i \in 1 .. Len(taken'[p]) : i <= 2 /\ (IsText(taken'[p][i]) <=> i = 2)
    <2>1. Head(n) \in MpiMessage
      BY <1>2, HeadTailProperties
    <2> DEFINE a == Append(k, Head(n))
    <2>2. /\ a # <<>> /\ Len(a) = Len(k) + 1
          /\ \A i \in 1 .. Len(k) : a[i] = k[i]
          /\ a[Len(k) + 1] = Head(n)
      BY <1>2, <2>1, AppendProperties
    <2>3. \A i \in 1 .. Len(k) : IsText(k[i]) <=> i = 2
      BY DEF MpiTypeOK, k
    <2>4. (Len(k) = 0 /\ k = <<>>) \/ (Len(k) = 1 /\ k # <<>>)
      BY <1>0, EmptySeq
    <2> HIDE DEF a
    <2>5. ASSUME NEW i \in 1 .. Len(a)
          PROVE  i <= 2 /\ (IsText(a[i]) <=> i = 2)
      <3>1. CASE Len(k) = 0
        <4>1. i = 1 /\ a[1] = Head(n) /\ ~IsText(Head(n))
          BY <1>0, <2>2, <2>4, <3>1
        <4> QED
          BY <4>1
      <3>2. CASE Len(k) = 1
        <4>1. /\ i = 1 \/ i = 2
              /\ a[1] = k[1] /\ a[2] = Head(n) /\ IsText(Head(n)) /\ ~IsText(k[1])
          BY <1>0, <2>2, <2>3, <2>4, <3>2
        <4> QED
          BY <4>1
      <3> QED
        BY <2>4, <3>1, <3>2
    <2> QED
      BY <1>5, <2>2, <2>5 DEF a
  <1>7. MpiTypeOK'
    <2>1. MpiMessage' = MpiMessage
      BY DEF Take, MpiMessage
    <2>2. /\ taken' \in [Process -> Seq(MpiMessage)] /\ source' \in [Process -> Process]
          /\ net' \in [Process -> [Process -> Seq(MpiMessage)]]
      BY <1>1, <1>3, <1>4
    <2>3. ASSUME NEW r \in Process, NEW i \in 1 .. Len(taken'[r])
          PROVE  i <= 2 /\ (IsText(taken'[r][i]) <=> i = 2)
      <3>1. CASE r = p
        BY <1>6, <3>1, <2>3
      <3>2. CASE r # p
        <4>1. taken'[r] = taken[r]
          BY <1>5, <3>2
        <4> QED
          BY <4>1 DEF MpiTypeOK
      <3> QED
        BY <3>1, <3>2
    <2> QED
      BY <2>1, <2>2, <2>3 DEF Take, MpiTypeOK
  <1>8. ASSUME NEW r \in Process, NEW s \in Process
        PROVE  Stream(r, s)' = Stream(r, s)
    <2>1. \A v \in Thread : Unsent(r, v, s)' = Unsent(r, v, s)
      BY <1>3 DEF Unsent
    <2>2. TakenOf(r, s)' \o net'[r][s] = TakenOf(r, s) \o net[r][s]
      <3>1. CASE s # p
        BY <1>5, <3>1 DEF TakenOf
      <3>2. CASE s = p /\ r # q
        <4>1. TakenOf(r, s) = <<>>
          BY <3>2 DEF TakenOf
        <4>2. TakenOf(r, s)' = <<>> /\ net'[r][s] = net[r][s]
          BY <1>5, <3>2 DEF TakenOf
        <4> QED
          BY <4>1, <4>2
      <3>3. CASE s = p /\ r = q
        <4>1. TakenOf(r, s) = k
          BY <3>3 DEF TakenOf, k
        <4>2. TakenOf(r, s)' = Append(k, Head(n)) /\ net'[r][s] = Tail(n)
          BY <1>5, <3>3 DEF TakenOf
        <4>3. net[r][s] = n
          BY <3>3 DEF n
        <4> QED
          BY <1>4, <4>1, <4>2, <4>3
      <3> QED
        BY <3>1, <3>2, <3>3
    <2> QED
      BY <2>1, <2>2 DEF Stream, Thread
  <1> QED
    BY <1>6, <1>7, <1>8 DEF SameStreams

(* receive() returns: the packet leaves the front of its sender's stream.  *)
LEMMA MergeStep ==
  ASSUME MpiTypeOK, NEW p \in Process, NEW q \in Process, q = source[p],
         Merge(p), Framed(Stream(q, p))
  PROVE  /\ MpiTypeOK'
         /\ Complete(taken[p])
         /\ Stream(q, p) = taken[p] \o Stream(q, p)'
         /\ Stream(q, p)' \in Seq(MpiMessage)
         /\ \A r, s \in Process : r # q \/ s # p => Stream(r, s)' = Stream(r, s)
  <1> DEFINE k == taken[p]
             n == net[q][p]
             um == Unsent(q, "main", p)
             ur == Unsent(q, "receiving", p)
  <1>1. /\ taken \in [Process -> Seq(MpiMessage)] /\ source \in [Process -> Process]
        /\ clock \in [Process -> Nat] /\ recv \in [Process -> Packet \cup {NoPacket}]
        /\ k # <<>> /\ q \in Process
    BY DEF MpiTypeOK, Merge
  <1>2. Complete(k) /\ Decode(q, k) \in Packet
    BY <1>1, TakenComplete DEF Merge
  <1>3. UNCHANGED <<optimized, net, sending, source>> /\ taken' = [taken EXCEPT ![p] = <<>>]
    BY DEF Merge
  <1>4. MpiTypeOK'
    <2>1. MpiMessage' = MpiMessage
      BY <1>3 DEF MpiMessage
    <2>2. taken' \in [Process -> Seq(MpiMessage)]
      BY <1>1, <1>3
    <2>3. \A r \in Process : \A i \in 1 .. Len(taken'[r]) :
            i <= 2 /\ (IsText(taken'[r][i]) <=> i = 2)
      BY <1>1, <1>3 DEF MpiTypeOK
    <2>4. clock' \in [Process -> Nat] /\ recv' \in [Process -> Packet \cup {NoPacket}]
      <3> DEFINE packet == Decode(q, k)
                 now == 1 + IF packet.lamportTime > clock[p] THEN packet.lamportTime ELSE clock[p]
                 seen == IF optimized THEN [packet EXCEPT !.lamportTime = now] ELSE packet
      <3>1. clock' = [clock EXCEPT ![p] = now] /\ recv' = [recv EXCEPT ![p] = seen]
        BY DEF Merge
      <3>2. packet \in Packet
        BY <1>2
      <3> HIDE DEF packet
      <3>3. now \in Nat
        BY <1>1, <3>2 DEF Packet
      <3> HIDE DEF now
      <3>4. seen \in Packet
        BY <3>2, <3>3 DEF Packet
      <3> HIDE DEF seen
      <3> QED
        BY <1>1, <3>1, <3>3, <3>4
    <2> QED
      BY <2>1, <2>2, <2>3, <2>4 DEF Merge, MpiTypeOK
  <1>5. /\ k \in Seq(MpiMessage) /\ n \in Seq(MpiMessage)
        /\ um \in Seq(MpiMessage) /\ ur \in Seq(MpiMessage)
        /\ Stream(q, p) = k \o n \o um \o ur
    BY <1>1, StreamTypes DEF Stream, Thread, TakenOf
  <1>6. Stream(q, p)' = <<>> \o n \o um \o ur
    <2>1. TakenOf(q, p)' = <<>> /\ net'[q][p] = n
      BY <1>1, <1>3 DEF TakenOf
    <2>2. \A v \in Thread : Unsent(q, v, p)' = Unsent(q, v, p)
      BY <1>3 DEF Unsent
    <2>3. Stream(q, p)' = TakenOf(q, p)' \o net'[q][p] \o Unsent(q, "main", p)'
                            \o Unsent(q, "receiving", p)'
      BY <1>3 DEF Stream
    <2> QED
      BY <2>1, <2>2, <2>3 DEF Thread
  <1>7. Stream(q, p) = k \o Stream(q, p)' /\ Stream(q, p)' \in Seq(MpiMessage)
    <2> DEFINE st == Stream(q, p)
               stNew == Stream(q, p)'
    <2> HIDE DEF k, n, um, ur, st, stNew
    <2>0. st = k \o n \o um \o ur /\ stNew = <<>> \o n \o um \o ur
      BY <1>5, <1>6 DEF st, stNew
    <2>1. /\ k \in Seq(MpiMessage) /\ n \in Seq(MpiMessage)
          /\ um \in Seq(MpiMessage) /\ ur \in Seq(MpiMessage)
      BY <1>5
    <2>3. <<>> \o n = n
      BY <2>1, ConcatEmptySeq
    <2>4. stNew = n \o um \o ur
      BY <2>0, <2>3
    <2>5. Joins(k, n, um, ur)
      BY <2>1, FourParts
    <2>6. n \o um \in Seq(MpiMessage)
      BY <2>1, ConcatProperties
    <2>7. (n \o um) \o ur \in Seq(MpiMessage)
      BY <2>1, <2>6, ConcatProperties
    <2>8. st = k \o stNew /\ stNew \in Seq(MpiMessage)
      BY <2>0, <2>4, <2>5, <2>7 DEF Joins
    <2> QED
      BY <2>8 DEF st, stNew
  <1>8. ASSUME NEW r \in Process, NEW s \in Process, r # q \/ s # p
        PROVE  Stream(r, s)' = Stream(r, s)
    <2>1. TakenOf(r, s)' = TakenOf(r, s)
      BY <1>1, <1>3, <1>8 DEF TakenOf
    <2>2. net'[r][s] = net[r][s] /\ \A v \in Thread : Unsent(r, v, s)' = Unsent(r, v, s)
      BY <1>3 DEF Unsent
    <2> QED
      BY <2>1, <2>2 DEF Stream, Thread
  <1> QED
    BY <1>2, <1>4, <1>7, <1>8

-----------------------------------------------------------------------------
(* The inductive invariant *)

LEMMA FramedSame ==
  ASSUME \A p, q \in Process : Framed(Stream(q, p)), SameStreams
  PROVE  \A p, q \in Process : Framed(Stream(q, p)')
  BY DEF SameStreams

(* The steps of sending threads. *)
LEMMA MpiInvSend ==
  ASSUME MpiInv, ~gaveUp, NEW p \in Process, NEW t \in Thread,
         \/ \E message \in Message : \E recipients \in SUBSET Process :
              BeginSend(p, t, recipients, message)
         \/ Sending(p, t)
  PROVE  MpiInv'
  <1>1. /\ MpiTypeOK /\ \A r, q \in Process : Framed(Stream(q, r))
        /\ \A r \in Process : OneSends(r) /\ OnePacket(r) /\ Stamped(r)
    BY DEF MpiInv
  <1>2. /\ UNCHANGED <<optimized, taken, recv, stamp>>
        /\ \A r \in Process : clock'[r] >= clock[r] /\ clock[r] \in Nat /\ clock'[r] \in Nat
    <2>1. clock \in [Process -> Nat]
      BY <1>1 DEF MpiTypeOK
    <2>2. UNCHANGED <<optimized, taken, recv, stamp>>
      BY DEF BeginSend, Sending, EndSend, MpiSend
    <2>3. clock' = [clock EXCEPT ![p] = @ + 1] \/ clock' = clock
      BY DEF BeginSend, Sending, EndSend, MpiSend
    <2> QED
      BY <2>1, <2>2, <2>3
  <1>3. \A r \in Process : OnePacket(r)'
    BY <1>1, <1>2 DEF OnePacket
  <1>4. ASSUME NEW r \in Process
        PROVE  Stamped(r)'
    <2>1. recv[r] # NoPacket => recv[r].lamportTime \in Nat
      BY <1>1 DEF MpiTypeOK, Packet
    <2>2. stamp[r] \in Nat
      BY <1>1 DEF MpiTypeOK
    <2>3. /\ optimized /\ recv[r] # NoPacket => recv[r].lamportTime <= clock[r]
          /\ stamp[r] # 0 =>
               /\ recv[r] # NoPacket
               /\ IF optimized THEN recv[r].lamportTime <= stamp[r] /\ stamp[r] <= clock[r]
                  ELSE stamp[r] = recv[r].lamportTime
      BY <1>1 DEF Stamped
    <2>4. clock'[r] >= clock[r] /\ clock[r] \in Nat /\ clock'[r] \in Nat
      BY <1>2
    <2>5. optimized /\ recv[r] # NoPacket => recv[r].lamportTime <= clock'[r]
      BY <2>1, <2>3, <2>4
    <2>6. stamp[r] # 0 /\ optimized => stamp[r] <= clock'[r]
      BY <2>2, <2>3, <2>4
    <2> QED
      BY <1>2, <2>3, <2>5, <2>6 DEF Stamped
  <1>5. CASE \E message \in Message : \E recipients \in SUBSET Process :
               BeginSend(p, t, recipients, message)
    <2>1. PICK message \in Message, recipients \in SUBSET Process :
            BeginSend(p, t, recipients, message)
      BY <1>5
    <2>0. PICK ys : ys = Encode(clock[p] + 1, SentType(t), message)
      OBVIOUS
    <2>2. MpiTypeOK'
      BY <1>1, <2>0, <2>1, BeginSendStep
    <2>3. Extended(p, recipients, ys)
      BY <1>1, <2>0, <2>1, BeginSendStep
    <2>4. ys \in Seq(MpiMessage) /\ Complete(ys)
      <3>1. clock[p] + 1 \in Nat /\ optimized \in BOOLEAN
        BY <1>1 DEF MpiTypeOK
      <3> QED
        BY <2>0, <3>1, EncodeFacts
    <2>5. ASSUME NEW r \in Process, NEW q \in Process
          PROVE  Framed(Stream(r, q)')
      <3>1. Stream(r, q)' = IF r = p /\ q \in recipients THEN Stream(r, q) \o ys
                                                         ELSE Stream(r, q)
        BY <2>3 DEF Extended
      <3>2. Stream(r, q) \in Seq(MpiMessage) /\ Framed(Stream(r, q))
        BY <1>1, StreamTypes
      <3>3. Framed(Stream(r, q) \o ys)
        BY <2>4, <3>2, FramedAppend
      <3> QED
        BY <3>1, <3>2, <3>3
    <2>6. \A r \in Process : OneSends(r)'
      <3>1. sending \in [Process -> [Thread -> [Process -> Seq(MpiMessage)] \cup {NoSend}]]
        BY <1>1 DEF MpiTypeOK
      <3>2. \A r \in Process : \A u \in Thread :
              (r # p \/ u # t) => sending'[r][u] = sending[r][u]
        BY <2>1, <3>1 DEF BeginSend
      <3>3. \A u \in Thread : sending[p][u] = NoSend
        BY <2>1 DEF BeginSend, MutexFree
      <3> QED
        BY <1>1, <3>2, <3>3 DEF OneSends, Thread
    <2> QED
      BY <1>3, <1>4, <2>2, <2>5, <2>6 DEF MpiInv
  <1>6. CASE Sending(p, t)
    <2>1. MpiTypeOK' /\ SameStreams
      BY <1>1, <1>6, MpiSendStep, EndSendStep DEF Sending
    <2>2. ASSUME NEW r \in Process
          PROVE  OneSends(r)'
      <3>1. sending \in [Process -> [Thread -> [Process -> Seq(MpiMessage)] \cup {NoSend}]]
        BY <1>1 DEF MpiTypeOK
      <3>2. PICK u \in Thread : sending[r][u] = NoSend
        BY <1>1 DEF OneSends
      <3>3. sending'[r][u] = NoSend
        <4>1. CASE EndSend(p, t)
          BY <3>1, <3>2, <4>1 DEF EndSend
        <4>2. CASE \E q \in Process : MpiSend(p, t, q)
          <5>1. sending[p][t] # NoSend
            BY <4>2 DEF MpiSend
          <5>2. r # p \/ u # t
            BY <3>2, <5>1
          <5> QED
            BY <3>1, <3>2, <4>2, <5>2 DEF MpiSend
        <4> QED
          BY <1>6, <4>1, <4>2 DEF Sending
      <3> QED
        BY <3>3 DEF OneSends
    <2>3. \A r, q \in Process : Framed(Stream(q, r)')
      BY <1>1, <2>1, FramedSame
    <2> QED
      BY <1>3, <1>4, <2>1, <2>2, <2>3 DEF MpiInv
  <1> QED
    BY <1>5, <1>6

(* What receive() takes is what it waits for.                              *)
LEMMA TakingStep ==
  ASSUME MpiInv, ~gaveUp, NEW p \in Process, NEW q \in Process,
         TakeFirst(p, q) \/ TakeText(p, q)
  PROVE  MpiTypeOK' /\ SameStreams
  <1>1. MpiTypeOK /\ Framed(Stream(q, p))
    BY DEF MpiInv
  <1>2. Take(p, q)
    BY DEF TakeFirst, TakeText
  <1>3. /\ taken[p] = <<>> \/ (source[p] = q /\ Len(taken[p]) = 1)
        /\ IsText(Head(net[q][p])) <=> taken[p] # <<>>
    <2>1. CASE TakeFirst(p, q)
      BY <1>1, <1>2, <2>1, FirstTaken DEF TakeFirst, Take
    <2>2. CASE TakeText(p, q)
      <3>1. q = source[p] /\ AwaitsText(p) /\ Len(taken[p]) = 1
        BY <2>2 DEF TakeText, AwaitsText
      <3>2. taken[p] # <<>>
        <4>1. Len(<<>>) = 0 /\ 0 # 1
          OBVIOUS
        <4>2. taken[p] = <<>> => Len(taken[p]) = Len(<<>>)
          BY Zenon
        <4> QED
          BY <3>1, <4>1, <4>2, Zenon
      <3>3. IsText(Head(net[q][p]))
        BY <1>1, <1>2, <3>1, AwaitedText DEF Take
      <3> QED
        BY <3>1, <3>2, <3>3
    <2> QED
      BY <2>1, <2>2
  <1> QED
    BY <1>1, <1>2, <1>3, TakeStep

(* The steps of the receiving threads. *)
LEMMA MpiInvReceive ==
  ASSUME MpiInv, ~gaveUp, NEW p \in Process, ReceivingLoop(p)
  PROVE  MpiInv'
  <1>1. /\ MpiTypeOK /\ \A r, q \in Process : Framed(Stream(q, r))
        /\ \A r \in Process : OneSends(r) /\ OnePacket(r) /\ Stamped(r)
    BY DEF MpiInv
  <1>2. /\ taken \in [Process -> Seq(MpiMessage)] /\ recv \in [Process -> Packet \cup {NoPacket}]
        /\ clock \in [Process -> Nat] /\ stamp \in [Process -> Nat]
    BY <1>1 DEF MpiTypeOK
  <1>3. \A r \in Process : OneSends(r)'
    <2>1. UNCHANGED sending
      BY DEF ReceivingLoop, TakeFirst, TakeText, Take, Merge, Stamp, Dispatch
    <2> QED
      BY <1>1, <2>1 DEF OneSends
  <1>4. ASSUME NEW q \in Process, TakeFirst(p, q) \/ TakeText(p, q)
        PROVE  MpiInv'
    <2>1. Take(p, q)
      BY <1>4 DEF TakeFirst, TakeText
    <2>2. recv[p] = NoPacket
      BY <1>1, <1>4 DEF TakeFirst, Receiving, TakeText, AwaitsText, OnePacket
    <2>3. MpiTypeOK' /\ SameStreams
      BY <1>4, TakingStep
    <2>4. UNCHANGED <<optimized, recv, stamp, clock>> /\ \A r \in Process : r # p => taken'[r] = taken[r]
      BY <1>2, <2>1 DEF Take
    <2>5. \A r \in Process : OnePacket(r)' /\ Stamped(r)'
      BY <1>1, <2>2, <2>4 DEF OnePacket, Stamped
    <2>6. \A r, s \in Process : Framed(Stream(s, r)')
      BY <1>1, <2>3, FramedSame
    <2> QED
      BY <1>3, <2>3, <2>5, <2>6 DEF MpiInv
  <1>5. CASE Merge(p)
    <2>0. PICK q \in Process : q = source[p]
      BY <1>1 DEF MpiTypeOK
    <2>1. MpiTypeOK'
      BY <1>1, <1>5, <2>0, MergeStep
    <2>2. /\ Complete(taken[p]) /\ taken[p] \in Seq(MpiMessage)
          /\ Stream(q, p) = taken[p] \o Stream(q, p)' /\ Stream(q, p)' \in Seq(MpiMessage)
          /\ \A r, s \in Process : r # q \/ s # p => Stream(r, s)' = Stream(r, s)
      BY <1>1, <1>2, <1>5, <2>0, MergeStep
    <2>3. Framed(Stream(q, p)')
      <3> DEFINE st == Stream(q, p)'
      <3>1. Framed(taken[p] \o st) /\ st \in Seq(MpiMessage)
        BY <1>1, <2>0, <2>2
      <3> HIDE DEF st
      <3>2. Framed(st)
        BY <2>2, <3>1, FramedTake
      <3> QED
        BY <3>2 DEF st
    <2>4. ASSUME NEW r \in Process, NEW s \in Process
          PROVE  Framed(Stream(s, r)')
      <3>1. CASE s = q /\ r = p
        BY <2>3, <3>1
      <3>2. CASE s # q \/ r # p
        <4>1. Stream(s, r)' = Stream(s, r)
          BY <2>2, <3>2
        <4> QED
          BY <1>1, <4>1
      <3> QED
        BY <3>1, <3>2
    <2>5. recv[p] = NoPacket /\ taken' = [taken EXCEPT ![p] = <<>>]
      BY <1>1, <1>5 DEF Merge, OnePacket
    <2>6. UNCHANGED <<optimized, stamp>> /\ stamp[p] = 0
      BY <1>1, <1>5, <2>5 DEF Merge, Stamped
    <2>7. \A r \in Process : r # p => clock'[r] = clock[r] /\ recv'[r] = recv[r]
      BY <1>2, <1>5 DEF Merge
    <2>8. optimized => recv'[p].lamportTime <= clock'[p]
      <3> DEFINE packet == Decode(source[p], taken[p])
                 now == 1 + IF packet.lamportTime > clock[p] THEN packet.lamportTime ELSE clock[p]
      <3>1. /\ clock' = [clock EXCEPT ![p] = now]
            /\ optimized => recv' = [recv EXCEPT ![p] = [packet EXCEPT !.lamportTime = now]]
        BY <1>5 DEF Merge
      <3>2. packet \in Packet
        BY <1>1, <1>5, <2>0, TakenComplete DEF Merge
      <3> HIDE DEF packet
      <3>3. now \in Nat
        BY <1>2, <3>2 DEF Packet
      <3> HIDE DEF now
      <3>4. [packet EXCEPT !.lamportTime = now].lamportTime = now
        BY <3>2 DEF Packet
      <3>5. clock'[p] = now /\ (optimized => recv'[p].lamportTime = now)
        BY <1>2, <3>1, <3>4
      <3>6. now <= now
        BY <3>3
      <3> QED
        BY <3>5, <3>6
    <2>9. \A r \in Process : OnePacket(r)' /\ Stamped(r)'
      BY <1>1, <1>2, <2>5, <2>6, <2>7, <2>8 DEF OnePacket, Stamped
    <2> QED
      BY <1>3, <2>1, <2>4, <2>9 DEF MpiInv
  <1>6. CASE Stamp(p)
    <2>1. UNCHANGED <<optimized, gaveUp, clock, net, sending, taken, source, recv, sends>>
      BY <1>6 DEF Stamp
    <2>2. stamp'[p] = (IF optimized THEN clock[p] ELSE recv[p].lamportTime) /\ recv[p] # NoPacket
      BY <1>2, <1>6 DEF Stamp
    <2>3. recv[p].lamportTime \in Nat
      BY <1>2, <2>2 DEF Packet
    <2>4. stamp' \in [Process -> Nat] /\ \A r \in Process : r # p => stamp'[r] = stamp[r]
      BY <1>2, <1>6, <2>3 DEF Stamp
    <2>5. MpiTypeOK'
      BY <1>1, <2>1, <2>4 DEF MpiTypeOK, MpiMessage
    <2>6. \A r, s \in Process : Stream(s, r)' = Stream(s, r)
      BY <2>1 DEF Stream, TakenOf, Unsent
    <2>7. \A r \in Process : OnePacket(r)'
      BY <1>1, <2>1 DEF OnePacket
    <2>8. ASSUME NEW r \in Process
          PROVE  Stamped(r)'
      <3>1. CASE r # p
        BY <1>1, <2>1, <2>4, <3>1 DEF Stamped
      <3>2. CASE r = p
        <4>1. optimized => recv[p].lamportTime <= clock[p]
          BY <1>1, <2>2 DEF Stamped
        <4>2. clock[p] <= clock[p]
          BY <1>2
        <4> QED
          BY <2>1, <2>2, <3>2, <4>1, <4>2 DEF Stamped
      <3> QED
        BY <3>1, <3>2
    <2> QED
      BY <1>1, <1>3, <2>5, <2>6, <2>7, <2>8 DEF MpiInv
  <1>7. CASE Dispatch(p)
    <2>1. UNCHANGED <<optimized, gaveUp, clock, net, sending, taken, source, sends>>
      BY <1>7 DEF Dispatch
    <2>2. recv' = [recv EXCEPT ![p] = NoPacket] /\ stamp' = [stamp EXCEPT ![p] = 0]
      BY <1>7 DEF Dispatch
    <2>3. MpiTypeOK'
      <3>1. recv' \in [Process -> Packet \cup {NoPacket}] /\ stamp' \in [Process -> Nat]
        BY <1>2, <2>2
      <3> QED
        BY <1>1, <2>1, <3>1 DEF MpiTypeOK, MpiMessage
    <2>4. \A r, s \in Process : Stream(s, r)' = Stream(s, r)
      BY <2>1 DEF Stream, TakenOf, Unsent
    <2>5. \A r \in Process : OnePacket(r)' /\ Stamped(r)'
      BY <1>1, <1>2, <2>1, <2>2 DEF OnePacket, Stamped
    <2> QED
      BY <1>1, <1>3, <2>3, <2>4, <2>5 DEF MpiInv
  <1> QED
    BY <1>4, <1>5, <1>6, <1>7 DEF ReceivingLoop

(* After a receive has given up only the types are kept. *)
LEMMA GiveUpStep ==
  ASSUME MpiTypeOK, NEW p \in Process, GiveUp(p)
  PROVE  MpiInv'
  <1>1. /\ taken \in [Process -> Seq(MpiMessage)] /\ source \in [Process -> Process]
        /\ net \in [Process -> [Process -> Seq(MpiMessage)]]
    BY DEF MpiTypeOK
  <1>2. taken' = [taken EXCEPT ![p] = <<>>] /\ gaveUp' = TRUE
    BY DEF GiveUp
  <1>3. net' \in [Process -> [Process -> Seq(MpiMessage)]]
    <2>1. \/ net' = net
          \/ \E q \in Process : net[q][p] # <<>> /\ net' = [net EXCEPT ![q][p] = Tail(net[q][p])]
      <3>1. CASE \E q \in Process : net[q][p] # <<>> /\ net' = [net EXCEPT ![q][p] = Tail(@)]
        BY <3>1
      <3>2. CASE net' \in {net, [net EXCEPT ![source[p]][p] = IF @ = <<>> THEN @ ELSE Tail(@)]}
        <4>1. source[p] \in Process
          BY <1>1
        <4>2. CASE net[source[p]][p] = <<>>
          <5>1. [net EXCEPT ![source[p]][p] = IF @ = <<>> THEN @ ELSE Tail(@)] = net
            BY <1>1, <4>1, <4>2
          <5> QED
            BY <3>2, <5>1
        <4>3. CASE net[source[p]][p] # <<>>
          <5>1. [net EXCEPT ![source[p]][p] = IF @ = <<>> THEN @ ELSE Tail(@)]
                  = [net EXCEPT ![source[p]][p] = Tail(@)]
            BY <4>3
          <5> QED
            BY <3>2, <4>1, <4>3, <5>1
        <4> QED
          BY <4>2, <4>3
      <3> QED
        BY <3>1, <3>2 DEF GiveUp
    <2>2. ASSUME NEW q \in Process, net[q][p] # <<>>
          PROVE  Tail(net[q][p]) \in Seq(MpiMessage)
      <3>1. net[q][p] \in Seq(MpiMessage)
        BY <1>1
      <3> QED
        BY <2>2, <3>1, HeadTailProperties
    <2>3. ASSUME NEW q \in Process, net[q][p] # <<>>,
                 net' = [net EXCEPT ![q][p] = Tail(net[q][p])]
          PROVE  net' \in [Process -> [Process -> Seq(MpiMessage)]]
      BY <1>1, <2>2, <2>3
    <2> QED
      BY <1>1, <2>1, <2>3
  <1>4. MpiTypeOK'
    <2>1. taken' \in [Process -> Seq(MpiMessage)]
      BY <1>1, <1>2
    <2>2. \A r \in Process : \A i \in 1 .. Len(taken'[r]) :
            i <= 2 /\ (IsText(taken'[r][i]) <=> i = 2)
      BY <1>1, <1>2 DEF MpiTypeOK
    <2> QED
      BY <1>2, <1>3, <2>1, <2>2 DEF GiveUp, MpiTypeOK, MpiMessage
  <1> QED
    BY <1>2, <1>4 DEF MpiInv

LEMMA MpiInvStep ==
  ASSUME MpiInv, [MpiNext]_transportVars
  PROVE  MpiInv'
  <1>1. CASE UNCHANGED transportVars
    <2>1. MpiTypeOK'
      BY <1>1 DEF transportVars, MpiInv, MpiTypeOK, MpiMessage
    <2>2. \A r, s \in Process : Stream(s, r)' = Stream(s, r)
      BY <1>1 DEF transportVars, Stream, TakenOf, Unsent
    <2>3. \A r \in Process : /\ OneSends(r)' <=> OneSends(r)
                             /\ OnePacket(r)' <=> OnePacket(r)
                             /\ Stamped(r)' <=> Stamped(r)
      BY <1>1 DEF transportVars, OneSends, OnePacket, Stamped
    <2> QED
      BY <1>1, <2>1, <2>2, <2>3 DEF transportVars, MpiInv
  <1>2. CASE MpiNext
    <2>1. ~gaveUp /\ MpiTypeOK
      BY <1>2 DEF MpiNext, MpiInv
    <2>2. PICK p \in Process :
            \/ \E message \in Message :
                 \/ \E recipients \in SUBSET (Process \ {p}) : BeginSend(p, "main", recipients, message)
                 \/ InCallback(p) /\ BeginSend(p, "receiving", {recv[p].source}, message)
            \/ \E t \in Thread : Sending(p, t)
            \/ ReceivingLoop(p)
            \/ GiveUp(p)
      BY <1>2 DEF MpiNext
    <2>3. "main" \in Thread /\ "receiving" \in Thread
      BY DEF Thread
    <2>4. InCallback(p) => {recv[p].source} \in SUBSET Process
      BY <2>1 DEF InCallback, MpiTypeOK, Packet
    <2>5. \A recipients \in SUBSET (Process \ {p}) : recipients \in SUBSET Process
      OBVIOUS
    <2> QED
      BY <2>1, <2>2, <2>3, <2>4, <2>5, MpiInvSend, MpiInvReceive, GiveUpStep
  <1> QED
    BY <1>1, <1>2

(* In what a process has taken, what MPI carries and what a send() has still *)
(* to hand over, a text follows each header that announces one and stands    *)
(* nowhere else, whichever threads and processes send at the same time, until*)
(* a receive with a timeout gives up.                                        *)
THEOREM MpiInvariant == MpiSpec => []MpiInv
  BY MpiInvInit, MpiInvStep, PTL DEF MpiSpec

(* The MPI_Recv for a header never gets a text, and the one for a text never *)
(* gets a header, although both ask for the same tag.                        *)
THEOREM MpiTypeCorrect == MpiSpec => []MpiTypeOK
  <1>1. MpiInv => MpiTypeOK
    BY DEF MpiInv
  <1> QED
    BY <1>1, MpiInvariant, PTL

-----------------------------------------------------------------------------
(* The communicator that they implement *)

LEMMA SimpleProcess == Simple!Process = Process /\ Restamping!Process = Process
  BY DEF Simple!Process, Restamping!Process, Process

LEMMA SameChan ==
  ASSUME SameStreams
  PROVE  UNCHANGED chan
  BY DEF SameStreams, chan

(* A table that is changed in one place. *)
Changed(a, b, p, q, v) == b = [a EXCEPT ![q][p] = v]

LEMMA ChangedEntry ==
  ASSUME NEW a, NEW b, NEW v, NEW p \in Process, NEW q \in Process,
         a = [r \in Process |-> [s \in Process |-> a[r][s]]],
         b = [r \in Process |-> [s \in Process |-> b[r][s]]],
         b[q][p] = v,
         \A r, s \in Process : r # q \/ s # p => b[r][s] = a[r][s]
  PROVE  Changed(a, b, p, q, v)
  <1>1. ASSUME NEW r \in Process, r # q
        PROVE  b[r] = a[r]
    <2>1. \A s \in Process : b[r][s] = a[r][s]
      BY <1>1
    <2>2. a[r] = [s \in Process |-> a[r][s]] /\ b[r] = [s \in Process |-> b[r][s]]
      OBVIOUS
    <2> QED
      BY <2>1, <2>2
  <1>2. b[q] = [a[q] EXCEPT ![p] = v]
    <2>1. a[q] = [s \in Process |-> a[q][s]] /\ b[q] = [s \in Process |-> b[q][s]]
      OBVIOUS
    <2> QED
      BY <2>1
  <1>3. DOMAIN a = Process /\ DOMAIN b = Process
    OBVIOUS
  <1>4. a = [r \in Process |-> a[r]] /\ b = [r \in Process |-> b[r]]
    BY <1>3
  <1> QED
    BY <1>1, <1>2, <1>4 DEF Changed

LEMMA KeptChan ==
  ASSUME UNCHANGED <<net, taken, source, sending>>
  PROVE  UNCHANGED chan
  <1>1. SameStreams
    BY DEF SameStreams, Stream, TakenOf, Unsent
  <1> QED
    BY <1>1, SameChan

(* As a send() takes the mutex, its packet is in the channels at once. *)
LEMMA SendImplements ==
  ASSUME MpiTypeOK, NEW p \in Process, NEW t \in Thread, NEW message \in Message,
         NEW recipients \in SUBSET Process, BeginSend(p, t, recipients, message)
  PROVE  BeginsSend(p, t)
  <1>1. PICK ys : ys = Encode(clock[p] + 1, SentType(t), message)
    OBVIOUS
  <1> DEFINE packet == [lamportTime |-> clock[p] + 1, source |-> p,
                        messageType |-> SentType(t), message |-> message]
  <1>2. ys \in Seq(MpiMessage) /\ Complete(ys) /\ Decode(p, ys) = packet
    <2>1. clock[p] + 1 \in Nat /\ optimized \in BOOLEAN
      BY DEF MpiTypeOK
    <2> QED
      BY <1>1, <2>1, EncodeFacts
  <1>3. Extended(p, recipients, ys)
    BY <1>1, BeginSendStep
  <1>4. Handed(p, t, recipients, ys)
    BY <1>1, BeginSendStep
  <1>5. ys # <<>>
    BY <1>2 DEF Complete
  <1>6. recipients = {q \in Process : sending'[p][t][q] # <<>>} /\ sending'[p][t] # NoSend
    BY <1>4, <1>5 DEF Handed
  <1>7. ASSUME NEW q \in Process
        PROVE  chan'[p][q] = IF q \in recipients THEN Append(chan[p][q], packet) ELSE chan[p][q]
    <2>1. /\ chan[p][q] = PacketsIn(p, Stream(p, q))
          /\ chan'[p][q] = PacketsIn(p, Stream(p, q)')
      BY DEF chan
    <2>2. Stream(p, q) \in Seq(MpiMessage)
      BY StreamTypes
    <2>3. Stream(p, q)' = IF q \in recipients THEN Stream(p, q) \o ys ELSE Stream(p, q)
      BY <1>3 DEF Extended
    <2>4. PacketsIn(p, Stream(p, q) \o ys) = Append(PacketsIn(p, Stream(p, q)), packet)
      BY <1>2, <2>2, AppendPacket
    <2> QED
      BY <2>1, <2>3, <2>4
  <1>8. ASSUME NEW r \in Process, r # p
        PROVE  chan'[r] = chan[r]
    <2>1. \A q \in Process : Stream(r, q)' = Stream(r, q)
      BY <1>3, <1>8 DEF Extended
    <2> QED
      BY <2>1 DEF chan
  <1>9. /\ chan \in [Process -> [Process -> {chan[r][q] : r, q \in Process}]]
        /\ chan = [r \in Process |-> chan[r]] /\ chan' = [r \in Process |-> chan'[r]]
        /\ chan'[p] = [q \in Process |-> chan'[p][q]]
    BY DEF chan
  <1>10. chan' = [chan EXCEPT ![p] = [q \in Process |-> IF q \in recipients
                                                        THEN Append(chan[p][q], packet)
                                                        ELSE chan[p][q]]]
    <2> HIDE DEF packet
    <2> QED
      BY <1>7, <1>8, <1>9
  <1>11. Simple!Send(p, recipients, SentType(t), message)
    <2>1. clock' = [clock EXCEPT ![p] = @ + 1]
      BY DEF BeginSend
    <2> QED
      BY <1>10, <2>1, SimpleProcess DEF Simple!Send, Simple!NextPacket
  <1> QED
    BY <1>6, <1>11 DEF BeginsSend, BeginSend

(* As a receive() merges the clocks, it takes the oldest packet. *)
LEMMA MergeImplements ==
  ASSUME MpiInv, ~gaveUp, NEW p \in Process, NEW q \in Process, q = source[p], Merge(p)
  PROVE  IF optimized THEN Restamping!Receive(p, q) ELSE Simple!Receive(p, q)
  <1>1. /\ MpiTypeOK /\ optimized \in BOOLEAN /\ clock \in [Process -> Nat]
        /\ Framed(Stream(q, p)) /\ OnePacket(p)
    BY DEF MpiInv, MpiTypeOK
  <1> DEFINE st == Stream(q, p)'
             packet == Decode(q, taken[p])
             now == 1 + IF packet.lamportTime > clock[p] THEN packet.lamportTime ELSE clock[p]
  <1>2. /\ Complete(taken[p]) /\ taken[p] \in Seq(MpiMessage) /\ packet \in Packet
        /\ Stream(q, p) = taken[p] \o st /\ st \in Seq(MpiMessage)
        /\ \A r, s \in Process : r # q \/ s # p => Stream(r, s)' = Stream(r, s)
    <2>1. taken[p] \in Seq(MpiMessage)
      BY <1>1 DEF MpiTypeOK
    <2> QED
      BY <1>1, <2>1, MergeStep, TakenComplete DEF Merge
  <1>3. /\ chan[q][p] # <<>> /\ Head(chan[q][p]) = packet
        /\ chan'[q][p] = Tail(chan[q][p])
    <2>1. chan[q][p] = PacketsIn(q, Stream(q, p)) /\ chan'[q][p] = PacketsIn(q, st)
      BY DEF chan
    <2> HIDE DEF st, packet
    <2>2. Framed(taken[p] \o st)
      BY <1>1, <1>2
    <2>3. st # <<>> => ~IsText(st[1])
      BY <1>2, <2>2, FramedTake
    <2>4. /\ PacketsIn(q, taken[p] \o st) # <<>>
          /\ Head(PacketsIn(q, taken[p] \o st)) = Decode(q, taken[p])
          /\ Tail(PacketsIn(q, taken[p] \o st)) = PacketsIn(q, st)
      BY <1>2, <2>3, TakePacket
    <2> QED
      BY <1>2, <2>1, <2>4 DEF packet
  <1>4. chan' = [chan EXCEPT ![q][p] = Tail(@)]
    <2>1. \A r, s \in Process : r # q \/ s # p => chan'[r][s] = chan[r][s]
      BY <1>2 DEF chan
    <2>2. /\ chan = [r \in Process |-> [s \in Process |-> chan[r][s]]]
          /\ chan' = [r \in Process |-> [s \in Process |-> chan'[r][s]]]
      BY DEF chan
    <2> DEFINE a == chan
               b == chan'
               v == Tail(chan[q][p])
    <2>3. b[q][p] = v
      BY <1>3
    <2> HIDE DEF a, b, v
    <2>4. Changed(a, b, p, q, v)
      <3>1. a = [r \in Process |-> [s \in Process |-> a[r][s]]]
        BY <2>2 DEF a
      <3>2. b = [r \in Process |-> [s \in Process |-> b[r][s]]]
        BY <2>2 DEF b
      <3>3. \A r, s \in Process : r # q \/ s # p => b[r][s] = a[r][s]
        BY <2>1 DEF a, b
      <3> QED
        BY <2>3, <3>1, <3>2, <3>3, ChangedEntry
    <2> QED
      BY <2>4 DEF Changed, a, b, v
  <1>5. recv[p] = NoPacket
    BY <1>1 DEF OnePacket, Merge
  <1>6. /\ clock' = [clock EXCEPT ![p] = now]
        /\ recv' = [recv EXCEPT ![p] =
                      IF optimized THEN [packet EXCEPT !.lamportTime = now] ELSE packet]
    BY DEF Merge
  <1> HIDE DEF packet
  <1>7. now = (IF packet.lamportTime > clock[p] THEN packet.lamportTime ELSE clock[p]) + 1
    BY <1>1, <1>2 DEF Packet
  <1> HIDE DEF now
  <1>8. CASE optimized
    <2>1. Restamping!ClockAfter(p, packet) = now
      BY <1>7 DEF Restamping!ClockAfter
    <2>2. Restamping!Restamp(packet, now) = [packet EXCEPT !.lamportTime = now]
      BY DEF Restamping!Restamp
    <2> QED
      BY <1>3, <1>4, <1>5, <1>6, <1>8, <2>1, <2>2 DEF Restamping!Receive
  <1>9. CASE ~optimized
    <2>1. Simple!ClockAfter(p, packet) = now
      BY <1>7 DEF Simple!ClockAfter
    <2>2. Simple!Restamp(packet, now) = packet
      BY DEF Simple!Restamp
    <2> QED
      BY <1>3, <1>4, <1>5, <1>6, <1>9, <2>1, <2>2 DEF Simple!Receive
  <1> QED
    BY <1>1, <1>8, <1>9

(* A callback sees a time that the communicator allows. *)
LEMMA DispatchImplements ==
  ASSUME MpiInv, ~gaveUp, NEW p \in Process, Dispatch(p)
  PROVE  /\ recv[p] # NoPacket
         /\ SeenBy(p) \in IF optimized THEN Restamping!Received(p) ELSE Simple!Received(p)
         /\ Simple!Dispatched(p)
         /\ UNCHANGED <<clock, chan>>
  <1>1. /\ recv[p] # NoPacket /\ stamp[p] # 0 /\ recv' = [recv EXCEPT ![p] = NoPacket]
        /\ UNCHANGED <<clock, net, taken, source, sending>>
    BY DEF Dispatch, InCallback
  <1>2. /\ recv[p] \in Packet /\ optimized \in BOOLEAN
        /\ clock[p] \in Nat /\ stamp[p] \in Nat /\ Stamped(p)
    BY <1>1 DEF MpiInv, MpiTypeOK
  <1>3. CASE optimized
    <2>1. stamp[p] \in recv[p].lamportTime .. clock[p]
      BY <1>1, <1>2, <1>3 DEF Stamped, Packet
    <2> QED
      BY <1>1, <1>3, <2>1, KeptChan DEF SeenBy, Restamping!Received, Simple!Dispatched
  <1>4. CASE ~optimized
    <2>1. stamp[p] = recv[p].lamportTime
      BY <1>1, <1>2, <1>4 DEF Stamped
    <2>2. SeenBy(p) = recv[p]
      BY <1>2, <2>1 DEF SeenBy, Packet
    <2> QED
      BY <1>1, <1>4, <2>2, KeptChan DEF Simple!Received, Simple!Dispatched
  <1> QED
    BY <1>2, <1>3, <1>4

(* Every step of the transport is a step of a communicator or none. *)
LEMMA ChannelSteps ==
  ASSUME MpiInv, [MpiNext]_transportVars
  PROVE  [ChannelStep \/ (~optimized /\ gaveUp')]_(Simple!commVars)
  <1>1. CASE UNCHANGED transportVars
    BY <1>1, KeptChan DEF transportVars, Simple!commVars
  <1>2. CASE MpiNext
    <2>1. ~gaveUp /\ MpiTypeOK
      BY <1>2 DEF MpiNext, MpiInv
    <2>2. PICK p \in Process :
            \/ \E message \in Message :
                 \/ \E recipients \in SUBSET (Process \ {p}) : BeginSend(p, "main", recipients, message)
                 \/ InCallback(p) /\ BeginSend(p, "receiving", {recv[p].source}, message)
            \/ \E t \in Thread : Sending(p, t)
            \/ ReceivingLoop(p)
            \/ GiveUp(p)
      BY <1>2 DEF MpiNext
    <2>3. CASE \E message \in Message :
                 \/ \E recipients \in SUBSET (Process \ {p}) : BeginSend(p, "main", recipients, message)
                 \/ InCallback(p) /\ BeginSend(p, "receiving", {recv[p].source}, message)
      <3>1. PICK t \in Thread, message \in Message, recipients \in SUBSET Process :
              BeginSend(p, t, recipients, message)
        <4>1. "main" \in Thread /\ "receiving" \in Thread
          BY DEF Thread
        <4>2. InCallback(p) => {recv[p].source} \in SUBSET Process
          BY <2>1 DEF InCallback, MpiTypeOK, Packet
        <4>3. \A recipients \in SUBSET (Process \ {p}) : recipients \in SUBSET Process
          OBVIOUS
        <4> QED
          BY <2>3, <4>1, <4>2, <4>3
      <3>2. BeginsSend(p, t)
        BY <2>1, <3>1, SendImplements
      <3> QED
        BY <3>2 DEF ChannelStep
    <2>4. CASE \E t \in Thread : Sending(p, t)
      <3>1. PICK t \in Thread : Sending(p, t)
        BY <2>4
      <3>2. SameStreams
        <4>1. OneSends(p)
          BY <2>1 DEF MpiInv
        <4> QED
          BY <2>1, <3>1, <4>1, MpiSendStep, EndSendStep DEF Sending
      <3>3. UNCHANGED <<clock, recv>>
        BY <3>1 DEF Sending, MpiSend, EndSend
      <3> QED
        BY <3>2, <3>3, SameChan DEF Simple!commVars
    <2>5. CASE ReceivingLoop(p)
      <3>1. CASE \E q \in Process : TakeFirst(p, q) \/ TakeText(p, q)
        <4>1. PICK q \in Process : TakeFirst(p, q) \/ TakeText(p, q)
          BY <3>1
        <4>2. SameStreams
          BY <2>1, <4>1, TakingStep
        <4>3. UNCHANGED <<clock, recv>>
          BY <4>1 DEF TakeFirst, TakeText, Take
        <4> QED
          BY <4>2, <4>3, SameChan DEF Simple!commVars
      <3>2. CASE Merge(p)
        <4>1. PICK q \in Process : q = source[p]
          BY <2>1 DEF MpiTypeOK
        <4>2. IF optimized THEN Restamping!Receive(p, q) ELSE Simple!Receive(p, q)
          BY <2>1, <3>2, <4>1, MergeImplements
        <4> QED
          BY <4>2 DEF ChannelStep
      <3>3. CASE Stamp(p)
        BY <3>3, KeptChan DEF Stamp, Simple!commVars
      <3>4. CASE Dispatch(p)
        BY <2>1, <3>4, DispatchImplements DEF ChannelStep
      <3> QED
        BY <2>5, <3>1, <3>2, <3>3, <3>4 DEF ReceivingLoop
    <2>6. CASE GiveUp(p)
      BY <2>6 DEF GiveUp
    <2> QED
      BY <2>2, <2>3, <2>4, <2>5, <2>6
  <1> QED
    BY <1>1, <1>2

(* Refinement: the MPI messages, the threads and the mutex of the two      *)
(* communicators amount to channels that carry whole packets, in the order *)
(* of each sender, until a receive with a timeout gives up on the simple   *)
(* communicator.                                                           *)
THEOREM MpiImplements == MpiSpec => ImplementsCommunicator
  <1>1. MpiInit => Simple!CommInit
    <2> SUFFICES ASSUME MpiInit
                 PROVE  Simple!CommInit
      OBVIOUS
    <2>1. \A q, p \in Process : Stream(q, p) = <<>>
      <3> SUFFICES ASSUME NEW q \in Process, NEW p \in Process
                   PROVE  Stream(q, p) = <<>>
        OBVIOUS
      <3>1. /\ TakenOf(q, p) = <<>> /\ net[q][p] = <<>>
            /\ Unsent(q, "main", p) = <<>> /\ Unsent(q, "receiving", p) = <<>>
        BY DEF MpiInit, TakenOf, Unsent, Thread
      <3> QED
        BY <3>1 DEF Stream
    <2>2. chan = [q \in Process |-> [p \in Process |-> <<>>]]
      BY <2>1, NoPackets DEF chan
    <2> QED
      BY <2>2, SimpleProcess DEF MpiInit, Simple!CommInit
  <1>2. MpiInv /\ [MpiNext]_transportVars =>
          [ChannelStep \/ (~optimized /\ gaveUp')]_(Simple!commVars)
    BY ChannelSteps
  <1> QED
    BY <1>1, <1>2, MpiInvariant, PTL DEF MpiSpec, ImplementsCommunicator

=============================================================================
