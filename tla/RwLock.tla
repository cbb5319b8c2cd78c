------------------------------- MODULE RwLock -------------------------------
(***************************************************************************)
(* The POSIX read-write lock, as sr-ctrl uses it: ns->lock, the lock of a  *)
(* graph and the lock of a hash map.  A lock is the set of threads that    *)
(* hold it for writing and the set of those that hold it for reading.      *)
(***************************************************************************)
EXTENDS FiniteSets

RwFree == [w |-> {}, r |-> {}]

RwLocks(threads) == [w : SUBSET threads, r : SUBSET threads]

CanRead(l) == l.w = {}
CanWrite(l) == l.w = {} /\ l.r = {}

Reading(l, t) == [l EXCEPT !.r = @ \cup {t}]
Writing(l, t) == [l EXCEPT !.w = @ \cup {t}]

\* pthread_rwlock_unlock releases whichever mode the caller holds.
Released(l, t) == [w |-> l.w \ {t}, r |-> l.r \ {t}]
=============================================================================
