------------------------- MODULE DistributedMonitor -------------------------
(***************************************************************************)
(* DistributedMonitor and DistributedMonitorHelper: shared variables that  *)
(* every process keeps a copy of.  An entry locks the monitor's mutex,     *)
(* works on the copy of its own process, broadcasts the copy in a SYNC     *)
(* packet and unlocks; the receiving thread of every other process         *)
(* overwrites its copy with what a SYNC packet brings.                     *)
(*                                                                         *)
(* A monitor has the name of its mutex.  Entries that wait on condition    *)
(* variables are composed from this module and ConditionVariable, in       *)
(* ProdCons.                                                               *)
(***************************************************************************)
EXTENDS RicartAgrawala

CONSTANTS
  State,     \* values of the shared variables of a monitor
  InitState, \* their value in a new monitor
  Effect     \* Effect[p][s]: what an entry of p that starts from s may leave

(* What packSyncMessage puts into a packet. *)
SyncMessage == [name : MutexName, state : State]

ASSUME MonitorAssumption ==
  /\ InitState \in State
  /\ Effect \in [Process -> [State -> SUBSET State]]
  /\ SyncMessage \subseteq Message

VARIABLES
  shared, \* shared[p][m]: p's copy of the shared variables of monitor m
  stage,  \* stage[p][m]: how far p's main thread is in its entry of m
  latest  \* latest[m]: what the last entry of m, wherever it ran, has written

monitorVars == <<shared, stage, latest>>
allVars == <<vars, monitorVars>>

(* start: outside, or at the first line of the entry.  done: the body has    *)
(* run.  synced: SYNC sent, mutex still held.                                *)
Stage == {"start", "done", "synced"}

MonitorTypeOK ==
  /\ TypeOK
  /\ shared \in [Process -> [MutexName -> State]]
  /\ stage \in [Process -> [MutexName -> Stage]]
  /\ latest \in [MutexName -> State]

MonitorInit ==
  /\ Init
  /\ shared = [p \in Process |-> [m \in MutexName |-> InitState]]
  /\ stage = [p \in Process |-> [m \in MutexName |-> "start"]]
  /\ latest = [m \in MutexName |-> InitState]

-----------------------------------------------------------------------------
(* Main thread. *)

(* Not in a destructor of DistributedMonitorHelper. *)
NotLeaving(p) == \A m \in MutexName : stage[p][m] # "synced"

SetStage(p, m, s) == stage' = [stage EXCEPT ![p][m] = s]

(* synchronized(): the constructor of the helper locks the mutex. *)
Enter(p, m) ==
  /\ NotLeaving(p)
  /\ Subscribe(p, m)
  /\ UNCHANGED monitorVars

(* The body of an entry changes the copy of its process. *)
Body(p, m) ==
  /\ Idle(p) /\ NotLeaving(p)
  /\ phase[p][m] = "held" /\ stage[p][m] = "start"
  /\ \E s \in Effect[p][shared[p][m]] :
       /\ shared' = [shared EXCEPT ![p][m] = s]
       /\ latest' = [latest EXCEPT ![m] = s]
  /\ SetStage(p, m, "done")
  /\ UNCHANGED vars

(* A fault to check against: the destructor unlocks before it broadcasts. *)
SyncAfterUnlock(p, m) ==
  \/ /\ stage[p][m] = "done"
     /\ Unlock(p, m)
     /\ SetStage(p, m, "synced")
     /\ UNCHANGED <<shared, latest>>
  \/ /\ phase[p][m] = "free" /\ stage[p][m] = "synced"
     /\ Send(p, OtherProcesses(p), "SYNC", [name |-> m, state |-> shared[p][m]])
     /\ SetStage(p, m, "start")
     /\ UNCHANGED <<recv, mutexVars, shared, latest>>

(* The destructor of the helper: saveState() and the broadcast ... *)
SendSync(p, m) ==
  /\ Idle(p) /\ NotLeaving(p)
  /\ phase[p][m] = "held" /\ stage[p][m] = "done"
  /\ Send(p, OtherProcesses(p), "SYNC", [name |-> m, state |-> shared[p][m]])
  /\ SetStage(p, m, "synced")
  /\ UNCHANGED <<recv, mutexVars, shared, latest>>

(* ... then unlock(). *)
Leave(p, m) ==
  /\ stage[p][m] = "synced"
  /\ Unlock(p, m)
  /\ SetStage(p, m, "start")
  /\ UNCHANGED <<shared, latest>>

-----------------------------------------------------------------------------
(* Receiving thread. *)

(* A fault to check against: the wrong offset, the name is taken for the state. *)
RestoreName(p) ==
  /\ InHand(p, "SYNC")
  /\ shared' = [shared EXCEPT ![p][recv[p].message.name] = recv[p].message.name]
  /\ Dispatched(p)
  /\ UNCHANGED <<clock, chan, mutexVars, stage, latest>>

(* A fault to check against: every monitor restores, whatever the name. *)
RestoreEvery(p) ==
  /\ InHand(p, "SYNC")
  /\ shared' = [shared EXCEPT ![p] = [m \in MutexName |-> recv[p].message.state]]
  /\ Dispatched(p)
  /\ UNCHANGED <<clock, chan, mutexVars, stage, latest>>

(* The SYNC callback of the monitor the packet names.  It takes no lock that *)
(* an entry holds.                                                           *)
RestoreState(p) ==
  /\ InHand(p, "SYNC")
  /\ shared' = [shared EXCEPT ![p][recv[p].message.name] = recv[p].message.state]
  /\ Dispatched(p)
  /\ UNCHANGED <<clock, chan, mutexVars, stage, latest>>

-----------------------------------------------------------------------------
MonitorNext ==
  \/ \E p \in Process, m \in MutexName :
       \/ Enter(p, m)
       \/ Body(p, m)
       \/ SendSync(p, m)
       \/ Leave(p, m)
       \/ InCall(p, m) /\ UNCHANGED monitorVars
  \/ \E p \in Process : RestoreState(p)
  \/ \E p \in Process : Receiver(p) /\ UNCHANGED monitorVars
  \/ Finished /\ UNCHANGED monitorVars

MonitorSpec == MonitorInit /\ [][MonitorNext]_allVars

-----------------------------------------------------------------------------
(* An entry starts from what the previous entry, in whichever process, has   *)
(* left: "any process that will enter the monitor function [...] will have   *)
(* the latest information before obtaining the lock".  Holds for two         *)
(* processes.                                                                *)
LatestOnEntry ==
  \A p \in Process : \A m \in MutexName :
    phase[p][m] = "held" => shared[p][m] = latest[m]

(* restoreState never runs while the process is in an entry of that monitor, *)
(* although no lock keeps the two threads apart: neither a data race nor a   *)
(* lost change.                                                              *)
NoRestoreDuringEntry ==
  \A p \in Process :
    InHand(p, "SYNC") => phase[p][recv[p].message.name] # "held"
=============================================================================
