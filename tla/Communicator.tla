---------------------------- MODULE Communicator ----------------------------
(***************************************************************************)
(* Point-to-point messaging of src/communication: MpiSimpleCommunicator    *)
(* (and MpiOptimizedCommunicator when Optimized), as the other components  *)
(* use it.  A process has one Lamport clock, guarded by communicationMutex,*)
(* and one receiving thread.                                               *)
(*                                                                         *)
(* chan[p][q] is what MPI still holds of p's sends to q.  MPI does not     *)
(* reorder messages of one sender to one receiver, and a send returns once *)
(* MPI has buffered the message; messages of different senders may be      *)
(* taken in any order, because receive() asks for MPI_ANY_SOURCE.          *)
(***************************************************************************)
EXTENDS Integers, Sequences

CONSTANTS
  NumberOfProcesses, \* MPI_Comm_size
  Message,           \* what a packet's message field can hold
  NoPacket,          \* the receiving thread has no packet in hand
  Optimized          \* TRUE: MpiOptimizedCommunicator, FALSE: MpiSimpleCommunicator

Process == 0 .. NumberOfProcesses - 1

OtherProcesses(p) == Process \ {p}

MessageType == {"MUTEX_REQUEST", "MUTEX_AGREEMENT", "COND_WAIT", "COND_WAIT_END",
                "COND_WAIT_END_CONFIRM", "COND_NOTIFY", "SYNC"}

Packet == [lamportTime : Nat, source : Process,
           messageType : MessageType, message : Message]

ASSUME CommunicatorAssumption ==
  /\ NumberOfProcesses \in Nat \ {0}
  /\ NoPacket \notin Packet
  /\ Optimized \in BOOLEAN

VARIABLES
  clock, \* clock[p]: currentLamportTime of p
  chan,  \* chan[p][q]: packets sent by p that q has not received, oldest first
  recv   \* recv[p]: packet received by p's receiving thread, callbacks still to run

commVars == <<clock, chan, recv>>

CommTypeOK ==
  /\ clock \in [Process -> Nat]
  /\ chan \in [Process -> [Process -> Seq(Packet)]]
  /\ recv \in [Process -> Packet \cup {NoPacket}]

CommInit ==
  /\ clock = [p \in Process |-> 0]
  /\ chan = [p \in Process |-> [q \in Process |-> <<>>]]
  /\ recv = [p \in Process |-> NoPacket]

-----------------------------------------------------------------------------
(* The packet p's next send carries: the clock is incremented first. *)
NextPacket(p, type, msg) ==
  [lamportTime |-> clock[p] + 1, source |-> p, messageType |-> type, message |-> msg]

(* One send() to a set of recipients: one tick of the clock, one copy each. *)
Send(p, recipients, type, msg) ==
  /\ clock' = [clock EXCEPT ![p] = @ + 1]
  /\ chan' = [chan EXCEPT ![p] =
                [q \in Process |-> IF q \in recipients
                                   THEN Append(chan[p][q], NextPacket(p, type, msg))
                                   ELSE chan[p][q]]]

(* A fault to check against: a receive that only ticks the local clock. *)
ClockIgnoringSender(p, packet) == clock[p] + 1

(* The clock after receiving a packet: max of both clocks, plus one. *)
ClockAfter(p, packet) ==
  (IF packet.lamportTime > clock[p] THEN packet.lamportTime ELSE clock[p]) + 1

(* The lamportTime field of the received packet: MpiSimpleCommunicator keeps *)
(* the sender's, MpiOptimizedCommunicator overwrites it with the local clock.*)
Restamp(packet, now) ==
  IF Optimized THEN [packet EXCEPT !.lamportTime = now] ELSE packet

(* receive(): p's receiving thread, with no packet in hand, takes the oldest *)
(* packet of some sender q.                                                  *)
Receive(p, q) ==
  /\ recv[p] = NoPacket
  /\ chan[q][p] # <<>>
  /\ LET packet == Head(chan[q][p])
         now    == ClockAfter(p, packet)
     IN  /\ clock' = [clock EXCEPT ![p] = now]
         /\ recv' = [recv EXCEPT ![p] = Restamp(packet, now)]
  /\ chan' = [chan EXCEPT ![q][p] = Tail(@)]

(* The packet as the callbacks see it.  updateTimestamp() of the optimized   *)
(* communicator reads the clock after unlocking it, so a send of the main    *)
(* thread in between can move the value it stores.                           *)
Received(p) ==
  IF Optimized
  THEN {[recv[p] EXCEPT !.lamportTime = t] : t \in recv[p].lamportTime .. clock[p]}
  ELSE {recv[p]}

InHand(p, type) == recv[p] # NoPacket /\ recv[p].messageType = type

(* The callbacks have run: the receiving thread goes back to receive(). *)
Dispatched(p) == recv' = [recv EXCEPT ![p] = NoPacket]
=============================================================================
