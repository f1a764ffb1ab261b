-------------------------------- MODULE Lock --------------------------------
(***************************************************************************)
(* Lock.cpp: a pthread mutex with a note of who has it.  The note, owner,  *)
(* is written outside the mutex's own operations: after the mutex is taken *)
(* and after it is freed, so other threads may run in between.  The mutex  *)
(* is the external one of pthreads: not recursive, no order among waiters. *)
(***************************************************************************)
CONSTANTS Threads,
          NoThread      \* the owner 0: no thread's id

ASSUME NoThreadAssumption == NoThread \notin Threads

VARIABLES
  mutex,        \* the thread that has the pthread mutex
  owner,        \* the field owner
  pc            \* where each thread is: outside; lock has the mutex; lock has
                \* returned; unlock has freed the mutex

vars == <<mutex, owner, pc>>

PCs == {"outside", "locking", "locked", "unlocking"}

Init == /\ mutex = NoThread
        /\ owner = NoThread
        /\ pc = [t \in Threads |-> "outside"]

Goto(t, s) == pc' = [pc EXCEPT ![t] = s]

(* lock: the mutex is taken ... *)
TakeMutex(t) == /\ pc[t] = "outside"
                /\ mutex = NoThread
                /\ mutex' = t
                /\ Goto(t, "locking")
                /\ UNCHANGED owner

(* try_lock, when another thread has the mutex: EBUSY. *)
TryFails(t) == /\ pc[t] = "outside"
               /\ mutex # NoThread
               /\ UNCHANGED vars

(* ... and then noted. *)
NoteOwner(t) == /\ pc[t] = "locking"
                /\ owner' = t
                /\ Goto(t, "locked")
                /\ UNCHANGED mutex

(* Slip: unlock leaves the note as it is. *)
SlipFreeMutex(t) == /\ pc[t] = "locked"
                    /\ mutex' = NoThread
                    /\ Goto(t, "outside")
                    /\ UNCHANGED owner

(* unlock: the mutex is freed ... *)
FreeMutex(t) == /\ pc[t] = "locked"
                /\ mutex' = NoThread
                /\ Goto(t, "unlocking")
                /\ UNCHANGED owner

(* ... and then owner is cleared, whoever has the mutex by now. *)
ClearOwner(t) == /\ pc[t] = "unlocking"
                 /\ owner' = NoThread
                 /\ Goto(t, "outside")
                 /\ UNCHANGED mutex

Next == \E t \in Threads : \/ TakeMutex(t) \/ TryFails(t) \/ NoteOwner(t)
                           \/ FreeMutex(t) \/ ClearOwner(t)

Spec == Init /\ [][Next]_vars

-----------------------------------------------------------------------------
(* Domains. *)
TypeOK == /\ mutex \in Threads \union {NoThread}
          /\ owner \in Threads \union {NoThread}
          /\ pc \in [Threads -> PCs]

(* A thread that compares get_owner with itself is never told that it has  *)
(* a lock it has not: although owner is written outside the mutex, it names*)
(* only a thread that has the mutex or is still in the unlock that freed it*)
(* (the other way round it may err: a late unlock clears the note of the   *)
(* next holder).                                                           *)
OwnerIsNotOutside == \A t \in Threads : owner = t => pc[t] \in {"locked", "unlocking"}

(* The mutex is with the thread that is between lock and unlock, and so    *)
(* there is never more than one.                                           *)
Exclusion == \A t \in Threads : pc[t] \in {"locking", "locked"} <=> mutex = t

(* What is inductive of the above. *)
IInv == TypeOK /\ OwnerIsNotOutside /\ Exclusion
=============================================================================
