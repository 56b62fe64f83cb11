---------------------------- MODULE MpiTransport ----------------------------
(***************************************************************************)
(* Inside the communicators: what MPI carries and what the threads of a    *)
(* process do with it.  MpiSimpleCommunicator sends a packet as one or two *)
(* MPI messages, a header and, unless it is empty, the text; receive()     *)
(* takes a header of any sender and then the text from that sender.        *)
(* MpiOptimizedCommunicator sends one MPI message, and restamps a packet   *)
(* that it has received.  Both threads of a process send, its receiving    *)
(* thread receives.  communicationMutex is held during a whole send and    *)
(* while receive() merges the clocks.                                      *)
(*                                                                         *)
(* All this implements Communicator, where a packet is one thing and a send*)
(* or a receive one step.                                                  *)
(***************************************************************************)
EXTENDS Integers, Sequences, FiniteSets

CONSTANTS
  NumberOfProcesses, \* MPI_Comm_size
  Message,           \* what a packet's message field can hold
  EmptyMessage,      \* the empty one
  NoPacket,          \* the receiving thread has no packet in hand
  NoSend,            \* a thread is in no send()
  BufferSize,        \* MPI messages of one sender to one receiver that MPI buffers
  MaxSends           \* bound: MaxSends[p][t] sends of thread t of process p

Process == 0 .. NumberOfProcesses - 1

Thread == {"main", "receiving"}

(* The callbacks answer, the main thread asks. *)
SentType(t) == IF t = "main" THEN "MUTEX_REQUEST" ELSE "MUTEX_AGREEMENT"

(* What a receive() returns. *)
Packet == [lamportTime : Nat, source : Process,
           messageType : {SentType(t) : t \in Thread}, message : Message]

(* RawPacket, and the text that may follow it; or both in one. *)
Header == [lamportTime : Nat, messageType : {SentType(t) : t \in Thread}, hasText : BOOLEAN]
Text == [text : Message]
Whole == [lamportTime : Nat, messageType : {SentType(t) : t \in Thread}, text : Message]

IsText(x) == DOMAIN x = {"text"}

ASSUME TransportAssumption ==
  /\ NumberOfProcesses \in Nat \ {0}
  /\ EmptyMessage \in Message
  /\ NoPacket \notin Packet
  /\ NoSend \notin [Process -> Seq(Header \cup Text \cup Whole)]
  /\ BufferSize \in Nat \ {0}
  /\ MaxSends \in [Process -> [Thread -> Nat]]

VARIABLES
  optimized, \* which of the communicators all processes use
  gaveUp,  \* a receive with a timeout has given up with a part of a packet
  clock,   \* clock[p]: currentLamportTime of p
  net,     \* net[p][q]: MPI messages of p that q has not received, oldest first
  sending, \* sending[p][t][q]: what t's send() has still to hand to MPI for q
  taken,   \* taken[p]: the MPI messages that p's receive() has got for its packet
  source,  \* source[p]: who they are from
  recv,    \* recv[p]: packet received by p's receiving thread, callback to run
  stamp,   \* stamp[p]: its lamportTime as the callback sees it, 0 until it is set
  sends    \* sends[p][t]: sends so far

transportVars == <<optimized, gaveUp, clock, net, sending, taken, source, recv, stamp, sends>>

MpiMessage == IF optimized THEN Whole ELSE Header \cup Text

MpiTypeOK ==
  /\ optimized \in BOOLEAN /\ gaveUp \in BOOLEAN
  /\ clock \in [Process -> Nat]
  /\ net \in [Process -> [Process -> Seq(MpiMessage)]]
  /\ sending \in [Process -> [Thread -> [Process -> Seq(MpiMessage)] \cup {NoSend}]]
  /\ taken \in [Process -> Seq(MpiMessage)]
  /\ \A p \in Process : \A i \in 1 .. Len(taken[p]) :
       i <= 2 /\ (IsText(taken[p][i]) <=> i = 2)
  /\ recv \in [Process -> Packet \cup {NoPacket}]
  /\ source \in [Process -> Process]
  /\ stamp \in [Process -> Nat]
  /\ sends \in [Process -> [Thread -> Nat]]

MpiInit ==
  /\ optimized \in BOOLEAN
  /\ gaveUp = FALSE
  /\ clock = [p \in Process |-> 0]
  /\ net = [p \in Process |-> [q \in Process |-> <<>>]]
  /\ sending = [p \in Process |-> [t \in Thread |-> NoSend]]
  /\ taken = [p \in Process |-> <<>>]
  /\ source = [p \in Process |-> p]
  /\ recv = [p \in Process |-> NoPacket]
  /\ stamp = [p \in Process |-> 0]
  /\ sends = [p \in Process |-> [t \in Thread |-> 0]]

-----------------------------------------------------------------------------
(* send() *)

(* A packet as MPI messages. *)
Encode(time, type, message) ==
  LET header == [lamportTime |-> time, messageType |-> type, hasText |-> message # EmptyMessage]
  IN  IF optimized THEN <<[lamportTime |-> time, messageType |-> type, text |-> message]>>
      ELSE IF message = EmptyMessage THEN <<header>> ELSE <<header, [text |-> message]>>

(* A fault to check against: only the clock is guarded, not the send.      *)
AlwaysFree(p) == TRUE

(* communicationMutex of p is held by a thread that is in send(). *)
MutexFree(p) == \A t \in Thread : sending[p][t] = NoSend

(* The mutex is taken and the clock ticks. *)
BeginSend(p, t, recipients, message) ==
  /\ sending[p][t] = NoSend
  /\ MutexFree(p)
  /\ sends[p][t] < MaxSends[p][t]
  /\ clock' = [clock EXCEPT ![p] = @ + 1]
  /\ sending' = [sending EXCEPT ![p][t] =
                   [q \in Process |-> IF q \in recipients
                                      THEN Encode(clock[p] + 1, SentType(t), message)
                                      ELSE <<>>]]
  /\ sends' = [sends EXCEPT ![p][t] = @ + 1]
  /\ UNCHANGED <<optimized, gaveUp, net, taken, source, recv, stamp>>

(* MPI_Send for the next recipient, in any order; the text follows its     *)
(* header.  It blocks while MPI can buffer no more.                        *)
MpiSend(p, t, q) ==
  /\ sending[p][t] # NoSend
  /\ sending[p][t][q] # <<>>
  /\ \A r \in Process : r # q /\ sending[p][t][r] # <<>> => ~IsText(Head(sending[p][t][r]))
  /\ Len(net[p][q]) < BufferSize
  /\ net' = [net EXCEPT ![p][q] = Append(@, Head(sending[p][t][q]))]
  /\ sending' = [sending EXCEPT ![p][t][q] = Tail(@)]
  /\ UNCHANGED <<optimized, gaveUp, clock, taken, source, recv, stamp, sends>>

(* Everything is sent: the mutex is given back. *)
EndSend(p, t) ==
  /\ sending[p][t] # NoSend
  /\ \A q \in Process : sending[p][t][q] = <<>>
  /\ sending' = [sending EXCEPT ![p][t] = NoSend]
  /\ UNCHANGED <<optimized, gaveUp, clock, net, taken, source, recv, stamp, sends>>

-----------------------------------------------------------------------------
(* receive() *)

Receiving(p) == recv[p] = NoPacket /\ sending[p]["receiving"] = NoSend

Take(p, q) ==
  /\ net[q][p] # <<>>
  /\ taken' = [taken EXCEPT ![p] = Append(@, Head(net[q][p]))]
  /\ net' = [net EXCEPT ![q][p] = Tail(@)]
  /\ source' = [source EXCEPT ![p] = q]
  /\ UNCHANGED <<optimized, gaveUp, clock, sending, recv, stamp, sends>>

(* MPI_Recv of a header, from MPI_ANY_SOURCE. *)
TakeFirst(p, q) ==
  /\ Receiving(p)
  /\ taken[p] = <<>>
  /\ Take(p, q)

AwaitsText(p) == ~optimized /\ Len(taken[p]) = 1 /\ taken[p][1].hasText

(* A fault to check against: the text is taken from anybody. *)
TakeTextOfAny(p, q) ==
  /\ AwaitsText(p)
  /\ Take(p, q)

(* MPI_Recv of the text, from the sender of the header. *)
TakeText(p, q) ==
  /\ AwaitsText(p)
  /\ q = source[p]
  /\ Take(p, q)

(* The packet that MPI messages amount to. *)
Decode(q, xs) ==
  [lamportTime |-> xs[1].lamportTime, source |-> q, messageType |-> xs[1].messageType,
   message |-> IF "text" \in DOMAIN xs[Len(xs)] THEN xs[Len(xs)].text ELSE EmptyMessage]

(* The mutex is taken and the clocks are merged: the packet is complete.   *)
Merge(p) ==
  /\ taken[p] # <<>>
  /\ ~AwaitsText(p)
  /\ MutexFree(p)
  /\ LET packet == Decode(source[p], taken[p])
         now == 1 + IF packet.lamportTime > clock[p] THEN packet.lamportTime ELSE clock[p]
     IN  /\ clock' = [clock EXCEPT ![p] = now]
         /\ recv' = [recv EXCEPT ![p] =
                       IF optimized THEN [packet EXCEPT !.lamportTime = now] ELSE packet]
  /\ taken' = [taken EXCEPT ![p] = <<>>]
  /\ UNCHANGED <<optimized, gaveUp, net, sending, source, stamp, sends>>

(* The simple communicator leaves it its sender's time.  The optimized one *)
(* stamps it with the clock, which it reads after the mutex is given back. *)
(* Then the packet is logged, for which Logger::log takes the mutex again. *)
Stamp(p) ==
  /\ recv[p] # NoPacket /\ stamp[p] = 0
  /\ MutexFree(p)
  /\ stamp' = [stamp EXCEPT ![p] = IF optimized THEN clock[p] ELSE recv[p].lamportTime]
  /\ UNCHANGED <<optimized, gaveUp, clock, net, sending, taken, source, recv, sends>>

(* The callback can run, until it, and an answer it may send, is done. *)
InCallback(p) == recv[p] # NoPacket /\ stamp[p] # 0

Dispatch(p) ==
  /\ InCallback(p)
  /\ sending[p]["receiving"] = NoSend
  /\ recv' = [recv EXCEPT ![p] = NoPacket]
  /\ stamp' = [stamp EXCEPT ![p] = 0]
  /\ UNCHANGED <<optimized, gaveUp, clock, net, sending, taken, source, sends>>

-----------------------------------------------------------------------------
(* receive(timeoutMillis), which no program of the repository calls: it    *)
(* takes and merges as receive() does, and may give up, which is no step   *)
(* unless it has something.  The optimized communicator looks before it    *)
(* takes.  The simple one posts its MPI_Irecv first: a header that arrives *)
(* after the last MPI_Test is past MPI_Cancel and lost, and a header that  *)
(* is there is forgotten while its text is late, which is lost likewise or *)
(* remains for the next receive to take for a header.                      *)
GiveUp(p) ==
  /\ ~optimized /\ Receiving(p)
  /\ \/ /\ taken[p] = <<>>
        /\ \E q \in Process :
             net[q][p] # <<>> /\ net' = [net EXCEPT ![q][p] = Tail(@)]
     \/ /\ AwaitsText(p)
        /\ net' \in {net, [net EXCEPT ![source[p]][p] = IF @ = <<>> THEN @ ELSE Tail(@)]}
  /\ taken' = [taken EXCEPT ![p] = <<>>]
  /\ gaveUp' = TRUE
  /\ UNCHANGED <<optimized, clock, sending, source, recv, stamp, sends>>

-----------------------------------------------------------------------------
Sending(p, t) == EndSend(p, t) \/ \E q \in Process : MpiSend(p, t, q)

ReceivingLoop(p) ==
  \/ \E q \in Process : TakeFirst(p, q) \/ TakeText(p, q)
  \/ Merge(p) \/ Stamp(p) \/ Dispatch(p)

(* What follows the failure of a receive with a timeout is left open. *)
MpiNext ==
  ~gaveUp /\ \E p \in Process :
    \/ \E message \in Message :
         \/ \E recipients \in SUBSET (Process \ {p}) : BeginSend(p, "main", recipients, message)
         \/ InCallback(p) /\ BeginSend(p, "receiving", {recv[p].source}, message)
    \/ \E t \in Thread : Sending(p, t)
    \/ ReceivingLoop(p)
    \/ GiveUp(p)

MpiSpec == MpiInit /\ [][MpiNext]_transportVars

(* MPI makes progress, and so does every thread. *)
MpiFairSpec ==
  /\ MpiSpec
  /\ \A p \in Process :
       /\ WF_transportVars(~gaveUp /\ ReceivingLoop(p))
       /\ \A t \in Thread : WF_transportVars(~gaveUp /\ Sending(p, t))

-----------------------------------------------------------------------------
(* The MPI messages from q to p, from the oldest that p's receive() has in *)
(* hand to the last that q has still to send.                              *)
TakenOf(q, p) == IF source[p] = q THEN taken[p] ELSE <<>>
Unsent(q, t, p) == IF sending[q][t] = NoSend THEN <<>> ELSE sending[q][t][p]
Stream(q, p) ==
  TakenOf(q, p) \o net[q][p] \o Unsent(q, "main", p) \o Unsent(q, "receiving", p)

(* Where the packets in a stream begin, and where the k-th of them does. *)
Begins(xs) == {i \in 1 .. Len(xs) : ~IsText(xs[i])}
BeginOf(xs, k) == CHOOSE i \in Begins(xs) : Cardinality(Begins(xs) \cap (1 .. i)) = k

(* A packet with its text, if it has one. *)
PacketAt(q, xs, i) ==
  Decode(q, IF i < Len(xs) /\ IsText(xs[i + 1]) THEN <<xs[i], xs[i + 1]>> ELSE <<xs[i]>>)

PacketsIn(q, xs) ==
  [k \in 1 .. Cardinality(Begins(xs)) |-> PacketAt(q, xs, BeginOf(xs, k))]

(* The channels of Communicator. *)
chan == [q \in Process |-> [p \in Process |-> PacketsIn(q, Stream(q, p))]]

Simple == INSTANCE Communicator WITH Optimized <- FALSE
Restamping == INSTANCE Communicator WITH Optimized <- TRUE

BeginsSend(p, t) ==
  /\ sending[p][t] = NoSend /\ sending'[p][t] # NoSend
  /\ \E message \in Message :
       LET recipients == {q \in Process : sending'[p][t][q] # <<>>}
       IN  Simple!Send(p, recipients, SentType(t), message)
  /\ UNCHANGED recv

SeenBy(p) == [recv[p] EXCEPT !.lamportTime = stamp[p]]

ChannelStep ==
  \E p \in Process :
    \/ \E t \in Thread : BeginsSend(p, t)
    \/ \E q \in Process : IF optimized THEN Restamping!Receive(p, q) ELSE Simple!Receive(p, q)
    \/ /\ recv[p] # NoPacket
       /\ SeenBy(p) \in IF optimized THEN Restamping!Received(p) ELSE Simple!Received(p)
       /\ Simple!Dispatched(p)
       /\ UNCHANGED <<clock, chan>>

(* Every packet arrives once, whole, after the earlier ones of its sender, *)
(* and its callback sees a time that it may have: the two MPI messages of  *)
(* a packet are not mixed up with those of the other thread or of another  *)
(* process, although all of them have the same tag.  Only a receive with a *)
(* timeout can break this, and only on the simple communicator.            *)
ImplementsCommunicator ==
  /\ Simple!CommInit
  /\ [][ChannelStep \/ (~optimized /\ gaveUp')]_(Simple!commVars)

(* No send() blocks for good: the process it waits for takes its MPI       *)
(* messages, although it may be in send() itself and then cannot finish    *)
(* receive().  Fails where two processes, in entries of two monitors, send *)
(* more to each other than MPI buffers.                                    *)
SendReturns ==
  \A p \in Process : \A t \in Thread :
    sending[p][t] # NoSend ~> sending[p][t] = NoSend \/ gaveUp
=============================================================================
