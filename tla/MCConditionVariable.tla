------------------------- MODULE MCConditionVariable -------------------------
(* Instances of ConditionVariable for TLC. *)
EXTENDS ConditionVariable

CONSTANTS m1, c1 \* names

OneMutex == {m1}
OneCondition == {c1}
Names == MutexName \cup CondName
OfOneMutex == [c \in CondName |-> m1]

Never == [p \in Process |-> 0]
Once == [p \in Process |-> 1]
TwoEach == [p \in Process |-> 2]
ZeroTwice == [p \in Process |-> IF p = 0 THEN 2 ELSE 1]
TwoWait == [p \in Process |-> IF p = 2 THEN 0 ELSE 1]

(* Schedules in which one process at a time is in lock(). *)
InTurn ==
  \A p, q \in Process : \A m, n \in MutexName :
    phase[p][m] \in {"subscribed", "waiting"} /\ phase[q][n] \in {"subscribed", "waiting"} => p = q

InTurnSpec == CondInit /\ [][CondNext /\ InTurn']_allCondVars

(* Two scenarios of three processes: all of them lock and nobody waits, or   *)
(* two of them lock and wait and the third only answers.                     *)
Scenario == (\A p \in Process : calls[p] = 0) \/ acquires[2] = 0

(* Where these may end: nobody has a mutex or asks for one, nothing is under *)
(* way, and who is in a call is blocked in wait() with nobody to notify it.  *)
Ended ==
  /\ \A p \in Process : \A m \in MutexName : phase[p][m] = "free"
  /\ \A p \in Process : \A c \in CondName : waiting[p][c] \in {"out", "inside"}
  /\ \A p, q \in Process : recv[p] = NoPacket /\ chan[p][q] = <<>>
  /\ UNCHANGED allCondVars

EndingSpec == CondInit /\ [][CondNext \/ Ended]_allCondVars
=============================================================================
