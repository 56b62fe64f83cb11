---------------------------- MODULE MCMpiTransport ----------------------------
(* Instances of MpiTransport for TLC. *)
EXTENDS MpiTransport

CONSTANTS m1 \* a message

Texts == {EmptyMessage, m1}

(* Ranks 0 and 1 send, rank 2 receives and rank 0 answers once. *)
Few ==
  [p \in Process |-> [t \in Thread |->
     CASE t = "main" /\ p < 2 -> 1
       [] t = "receiving" /\ p = 0 -> 1
       [] OTHER -> 0]]
(* Two packets in a row from the main thread of each of two processes, as  *)
(* COND_WAIT and COND_WAIT_END of a wait() whose predicate holds.          *)
TwoFromMain ==
  [p \in Process |-> [t \in Thread |-> IF t = "main" /\ p < 2 THEN 2 ELSE 0]]
=============================================================================
