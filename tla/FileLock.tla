------------------------------ MODULE FileLock ------------------------------
(***************************************************************************)
(* filelock.cpp: read_lock, write_lock and un_lock of a whole file, which  *)
(* are fcntl record locks.  Those are external, and as follows: a lock is  *)
(* of a process, not of a thread or a descriptor; locking again replaces   *)
(* the lock that the process has; unlocking, and closing any descriptor of *)
(* the file, takes it from all threads.  F_SETLKW waits for the locks of   *)
(* other processes, and may fail (EDEADLK, ENOLCK).  One file.             *)
(***************************************************************************)
CONSTANTS Threads,
          Daemons,
          DaemonOf,     \* [Threads -> Daemons]: the process of each thread
          LocksFail     \* may a request for a lock fail?

ASSUME DaemonOfAssumption == DaemonOf \in [Threads -> Daemons]
ASSUME LocksFailAssumption == LocksFail \in BOOLEAN

VARIABLE locks          \* the lock of each daemon

Modes == {"none", "read", "write"}

Compatible(m, n) == m = "none" \/ n = "none" \/ (m = "read" /\ n = "read")

LockInit == locks = [d \in Daemons |-> "none"]

Siblings(t) == {u \in Threads \ {t} : DaemonOf[u] = DaemonOf[t]}

SetLock(t, m) == locks' = [locks EXCEPT ![DaemonOf[t]] = m]

(* lock_reg with F_SETLKW, for read_lock and write_lock. *)
Lock(t, m) == /\ \A d \in Daemons \ {DaemonOf[t]} : Compatible(m, locks[d])
              /\ SetLock(t, m)

LockFails == LocksFail /\ UNCHANGED locks

Unlock(t) == SetLock(t, "none")

(* close of a descriptor of the file, whoever opened it. *)
CloseFile(t) == SetLock(t, "none")

(* The process has ended. *)
LocksEnd(d) == locks' = [locks EXCEPT ![d] = "none"]

LockTypeOK == locks \in [Daemons -> Modes]

(* What fcntl keeps: the locks of two daemons are compatible.              *)
LockInv == \A d, e \in Daemons : d # e => Compatible(locks[d], locks[e])
=============================================================================
