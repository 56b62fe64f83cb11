----------------------------- MODULE MCProdCons -----------------------------
(* Instances of ProdCons for TLC. *)
EXTENDS ProdConsProofs

CONSTANTS m1, m2, c1, c2 \* names

Items == 0 .. 1

Saved == SavedState
Empty == Save(EmptyRing)
Payload == MutexName \cup CondName \cup SyncMessage

(* One monitor, and one condition variable of the same name. *)
OneMonitor == {m1}
OneOrder == <<m1>>
SameName == {m1}
OfSameName == [c \in CondName |-> c]
OwnCondition == [m \in MutexName |-> m]

(* One monitor, and a condition variable for each kind of process. *)
TwoConditions == {c1, c2}
OfOneMonitor == [c \in CondName |-> m1]
C1 == [m \in MutexName |-> c1]
C2 == [m \in MutexName |-> c2]

(* One monitor with two condition variables, one with one. *)
TwoMonitors == {m1, m2}
TwoOrder == <<m1, m2>>
ThreeConditions == {c1, c2, m2}
OfTwoMonitors == [c \in CondName |-> IF c = m2 THEN m2 ELSE m1]
C1OrOwn == [m \in MutexName |-> IF m = m1 THEN c1 ELSE m2]
C2OrOwn == [m \in MutexName |-> IF m = m1 THEN c2 ELSE m2]

Never == [p \in Process |-> 0]
Once == [p \in Process |-> 1]
TwoEach == [p \in Process |-> 2]
TwoPut == [p \in Process |-> IF IsProducer(p) THEN 2 ELSE 3]
PutThree == [p \in Process |-> IF IsProducer(p) THEN 3 ELSE 2]
Enough == [p \in Process |-> 20]
=============================================================================
