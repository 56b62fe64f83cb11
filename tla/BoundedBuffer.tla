---------------------------- MODULE BoundedBuffer ----------------------------
(***************************************************************************)
(* What the producer-consumer programs of src/examples are for: first-in   *)
(* first-out buffers, one per monitor, that are never over- or underrun,   *)
(* as if they were in one place and every operation took one step.         *)
(***************************************************************************)
EXTENDS Integers, Sequences

CONSTANTS
  Name,     \* the buffers
  Item,     \* what is produced
  Capacity  \* MAX_QUEUE_SIZE

VARIABLES
  content, \* content[b]: the items in b, oldest first
  consumed \* consumed[b]: the items taken from b so far, in this order

bufferVars == <<content, consumed>>

BufferInit ==
  /\ content = [b \in Name |-> <<>>]
  /\ consumed = [b \in Name |-> <<>>]

Put(b) ==
  /\ Len(content[b]) < Capacity
  /\ \E i \in Item : content' = [content EXCEPT ![b] = Append(@, i)]
  /\ UNCHANGED consumed

Get(b) ==
  /\ content[b] # <<>>
  /\ content' = [content EXCEPT ![b] = Tail(@)]
  /\ consumed' = [consumed EXCEPT ![b] = Append(@, Head(content[b]))]

BufferNext == \E b \in Name : Put(b) \/ Get(b)

BufferSpec == BufferInit /\ [][BufferNext]_bufferVars
=============================================================================
