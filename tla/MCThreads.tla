------------------------------ MODULE MCThreads ------------------------------
(* Instances of Threads for TLC. *)
EXTENDS Threads

CONSTANT m1 \* a name

OneMutex == {m1}
OneOneNone == [p \in Process |-> IF p = 2 THEN 0 ELSE 1]
OneNoneNone == [p \in Process |-> IF p = 0 THEN 1 ELSE 0]
=============================================================================
