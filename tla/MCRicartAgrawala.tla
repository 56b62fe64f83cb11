-------------------------- MODULE MCRicartAgrawala --------------------------
(* Instances of RicartAgrawala for TLC. *)
EXTENDS RicartAgrawalaProofs

CONSTANTS m1 \* a mutex name

OneMutex == {m1}

OneEach == [p \in Process |-> 1]
RankZeroTwice == [p \in Process |-> IF p = 0 THEN 2 ELSE 1]
=============================================================================
