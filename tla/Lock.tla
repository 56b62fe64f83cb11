-------------------------------- MODULE Lock --------------------------------
(***************************************************************************)
(* What IDistributedExclusionAlgorithm promises, without any messages: a   *)
(* named mutex is granted to one waiting process at a time, in one step.   *)
(***************************************************************************)
CONSTANTS Process, MutexName

VARIABLE status \* status[p][m]: what process p has of mutex m

LockTypeOK == status \in [Process -> [MutexName -> {"free", "waiting", "held"}]]

LockInit == status = [p \in Process |-> [m \in MutexName |-> "free"]]

Move(p, m, from, to) ==
  /\ status[p][m] = from
  /\ status' = [status EXCEPT ![p][m] = to]

Request(p, m) == Move(p, m, "free", "waiting")

Grant(p, m) ==
  /\ \A q \in Process : status[q][m] # "held"
  /\ Move(p, m, "waiting", "held")

Release(p, m) == Move(p, m, "held", "free")

LockNext ==
  \E p \in Process, m \in MutexName : Request(p, m) \/ Grant(p, m) \/ Release(p, m)

LockSpec == LockInit /\ [][LockNext]_status
=============================================================================
