----------------------------- MODULE ScopedLock -----------------------------
(***************************************************************************)
(* std::scoped_lock over two DistributedMutexes.  It locks one of them and *)
(* asks the other one with try_lock, so as to give the first one back when *)
(* the second is not to be had.  DistributedMutex::try_lock says no only to*)
(* its own process: otherwise it calls lock(), which waits.                *)
(***************************************************************************)
EXTENDS RicartAgrawala

(* try_lock() in p: FALSE at once, or the call of lock().                  *)
TryLockFails(p, m) == phase[p][m] = "held"
TryLock(p, m) == ~TryLockFails(p, m) /\ Subscribe(p, m)

(* p is in the try_lock of n that scoped_lock calls with m locked.         *)
InTryLock(p, m, n) == phase[p][m] = "held" /\ phase[p][n] \in {"subscribed", "waiting"}

(* Two processes name the same two mutexes in opposite orders.             *)
Embrace(p, q, m, n) == InTryLock(p, m, n) /\ InTryLock(q, n, m)
=============================================================================
