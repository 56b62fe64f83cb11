------------------------ MODULE MCDistributedMonitor ------------------------
(* Instances of DistributedMonitor for TLC. *)
EXTENDS DistributedMonitor

CONSTANTS m1 \* a monitor name

OneMonitor == {m1}

(* The shared variable counts the entries that went into it. *)
Count == 0 .. 6
CountUp == [p \in Process |-> [n \in Count |-> {n + 1} \cap Count]]

MonitorMessage == MutexName \cup SyncMessage

OneEach == [p \in Process |-> 1]

(* Schedules in which one process at a time is in lock(). *)
InTurn ==
  \A p, q \in Process : \A m \in MutexName :
    phase[p][m] \in {"subscribed", "waiting"} /\ phase[q][m] \in {"subscribed", "waiting"} => p = q

InTurnSpec == MonitorInit /\ [][MonitorNext /\ InTurn']_allVars
=============================================================================
