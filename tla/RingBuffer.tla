------------------------------ MODULE RingBuffer ------------------------------
(***************************************************************************)
(* The shared variables of the programs without Boost (Simple, SimpleTwoCV *)
(* and BufferSimple of TwoMonitors): a ring in an array of chars, with its *)
(* serialisation written by hand.                                          *)
(***************************************************************************)
EXTENDS Integers, Sequences

CONSTANTS
  Item,    \* the chars that are produced: 0 .. MAX_QUEUE_SIZE - 1
  Capacity \* MAX_QUEUE_SIZE

ASSUME RingAssumption ==
  /\ Capacity \in Nat \ {0}
  /\ Item \subseteq Nat /\ 0 \in Item

Index == 0 .. Capacity - 1

Ring ==
  [getIndex : Index, putIndex : Index, count : 0 .. Capacity, buffer : [Index -> Item]]

EmptyRing ==
  [getIndex |-> 0, putIndex |-> 0, count |-> 0, buffer |-> [i \in Index |-> 0]]

IsFull(r) == r.count = Capacity
IsEmpty(r) == r.count = 0

(* The index after i. *)
After(i) == (i + 1) % Capacity

(* What produce() and consume() do between wait() and notify_one(). *)
Push(r, request) ==
  [getIndex |-> r.getIndex,
   putIndex |-> After(r.putIndex),
   count    |-> r.count + 1,
   buffer   |-> [r.buffer EXCEPT ![r.putIndex] = request]]

Front(r) == r.buffer[r.getIndex]

Pop(r) ==
  [getIndex |-> After(r.getIndex),
   putIndex |-> r.putIndex,
   count    |-> r.count - 1,
   buffer   |-> r.buffer]

(* The chars that getIndex, putIndex and count take in a saved state. *)
Header == 3

(* Bound: the values of the chars, one more on each side than they take. *)
Char == Item \cup -1 .. Capacity + 1

SavedState == [1 .. Header + Capacity -> Char]

(* saveState(): three chars, then the array. *)
Save(r) ==
  [i \in 1 .. Header + Capacity |->
     CASE i = 1 -> r.getIndex
       [] i = 2 -> r.putIndex
       [] i = 3 -> r.count
       [] OTHER -> r.buffer[i - Header - 1]]

(* restoreState(). *)
Restore(s) ==
  [getIndex |-> s[1], putIndex |-> s[2], count |-> s[3],
   buffer |-> [i \in Index |-> s[i + Header + 1]]]

-----------------------------------------------------------------------------
(* The queue that a ring stands for, oldest item first. *)
Content(r) == [i \in 1 .. r.count |-> r.buffer[(r.getIndex + i - 1) % Capacity]]

(* putIndex is where the next item belongs. *)
Linked(r) == r.putIndex = (r.getIndex + r.count) % Capacity

=============================================================================
