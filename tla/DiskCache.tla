----------------------------- MODULE DiskCache -----------------------------
(***************************************************************************)
(* The disk tier (DiskCache.cpp): one file per key in cacheDir, an int     *)
(* reference count followed by the block.  Each system call that changes   *)
(* the file, and each read the next one depends on, is a step, so that a   *)
(* thread can be stopped between any two of them by the death of the       *)
(* process.  The caller holds cacheMapLock around a call (StorageMgr.cpp); *)
(* it is taken by a call's first step and freed by its last.               *)
(***************************************************************************)
EXTENDS Naturals

CONSTANTS Keys,
          Threads,
          NoThread,
          DiskFull,     \* may the device run out of space within a new file?
          MaxRef        \* bound of the model: put is not called at this count

ASSUME DiskFullAssumption == DiskFull \in BOOLEAN
ASSUME NoThreadAssumption == NoThread \notin Threads

VARIABLES
  file,         \* for each key, how much of its file is written, and its count
  diskLock,     \* holder of cacheMapLock
  dpc,          \* where each thread is within a call, or the assertion that stopped it
  dkey,         \* the key of the call
  dref,         \* the local variable ref: the count the call read
  dblk          \* what the last get of each thread returned

diskVars == <<file, diskLock, dpc, dkey, dref, dblk>>

NoFile == [st |-> "none", ref |-> 0]

(* none: no file; empty: created; head: count written; part, full: and     *)
(* some, all of the block.                                                 *)
FileStates == {"none", "empty", "head", "part", "full"}

(* The asserts that can fail, each with its line: getRefCount reads no int *)
(* (144), the count is not positive (48, 113), open fails (111), getBuf is *)
(* asked for nothing (161), the write of a new file's count or of its block*)
(* is short (154, 175).                                                    *)
AbortSites == {"badHeader", "badRef", "noFile", "noBody", "shortHead", "shortWrite"}

Steps == {"idle", "bump", "head", "body", "deref"}

Answers == {"none", "NULL", "part", "full"}

Init == /\ file = [k \in Keys |-> NoFile]
        /\ diskLock = NoThread
        /\ dpc = [t \in Threads |-> "idle"]
        /\ dkey \in [Threads -> Keys]
        /\ dref = [t \in Threads |-> 0]
        /\ dblk = [t \in Threads |-> "none"]

Aborted == \E t \in Threads : dpc[t] \in AbortSites

Exists(k) == file[k].st # "none"
HasHeader(k) == file[k].st \in {"head", "part", "full"}

(* setRefCount: the count becomes r, the block stays as it is. *)
FileWith(k, r) == [st |-> file[k].st, ref |-> r]

(* Slip: the caller forgets the lock. *)
SlipEnter(t) == ~Aborted /\ dpc[t] = "idle"

(* A call can begin: its caller gets the lock. *)
Enter(t) == /\ ~Aborted
            /\ dpc[t] = "idle"
            /\ diskLock = NoThread

(* The thread goes on at step s of a call for k, the lock still held. *)
Goto(t, k, s) == /\ dpc' = [dpc EXCEPT ![t] = s]
                 /\ dkey' = [dkey EXCEPT ![t] = k]
                 /\ diskLock' = t

(* The last step: the lock is freed, and ref goes out of scope. *)
Leave(t) == /\ dpc' = [dpc EXCEPT ![t] = "idle"]
            /\ diskLock' = NoThread
            /\ dref' = [dref EXCEPT ![t] = 0]
            /\ UNCHANGED <<dkey, dblk>>

(* getRefCount and the assert on its result, on the way to step s. *)
AfterHeader(k, s) == IF ~HasHeader(k) THEN "badHeader"
                     ELSE IF file[k].ref = 0 THEN "badRef"
                     ELSE s

(* put finds the file: it reads the count ... *)
PutOpen(t, k) == /\ Enter(t)
                 /\ Exists(k)
                 /\ Goto(t, k, AfterHeader(k, "bump"))
                 /\ dref' = [dref EXCEPT ![t] = file[k].ref]
                 /\ UNCHANGED <<file, dblk>>

(* Slip: the block is written again, over whatever an earlier put left. *)
SlipPutBump(t) == /\ dpc[t] = "bump"
                  /\ file' = [file EXCEPT ![dkey[t]] = [st |-> "full", ref |-> dref[t] + 1]]
                  /\ Leave(t)

(* ... and writes it back, one more.  The block itself is not written.     *)
PutBump(t) == /\ dpc[t] = "bump"
              /\ file' = [file EXCEPT ![dkey[t]] = FileWith(dkey[t], dref[t] + 1)]
              /\ Leave(t)

(* put finds no file: it creates it ... *)
PutCreate(t, k) == /\ Enter(t)
                   /\ ~Exists(k)
                   /\ Goto(t, k, "head")
                   /\ file' = [file EXCEPT ![k] = [st |-> "empty", ref |-> 0]]
                   /\ UNCHANGED <<dref, dblk>>

(* ... writes a count of one ... *)
PutHead(t) == /\ dpc[t] = "head"
              /\ file' = [file EXCEPT ![dkey[t]] = [st |-> "head", ref |-> 1]]
              /\ Goto(t, dkey[t], "body")
              /\ UNCHANGED <<dref, dblk>>

PutHeadShort(t) == /\ DiskFull
                   /\ dpc[t] = "head"
                   /\ Goto(t, dkey[t], "shortHead")
                   /\ UNCHANGED <<file, dref, dblk>>

(* ... and then the block, all of it or, on a full device, a part.         *)
PutBody(t) == /\ dpc[t] = "body"
              /\ file' = [file EXCEPT ![dkey[t]] = [st |-> "full", ref |-> file[dkey[t]].ref]]
              /\ Leave(t)

PutBodyShort(t) == /\ DiskFull
                   /\ dpc[t] = "body"
                   /\ \E s \in {"head", "part"} :
                        file' = [file EXCEPT ![dkey[t]] = [st |-> s, ref |-> file[dkey[t]].ref]]
                   /\ Goto(t, dkey[t], "shortWrite")
                   /\ UNCHANGED <<dref, dblk>>

(* get returns NULL, or whatever the file holds after its header.          *)
GetMiss(t, k) == /\ Enter(t)
                 /\ ~Exists(k)
                 /\ dblk' = [dblk EXCEPT ![t] = "NULL"]
                 /\ UNCHANGED <<file, diskLock, dpc, dkey, dref>>

GetHit(t, k) == /\ Enter(t)
                /\ file[k].st \in {"part", "full"}
                /\ dblk' = [dblk EXCEPT ![t] = file[k].st]
                /\ UNCHANGED <<file, diskLock, dpc, dkey, dref>>

GetAborts(t, k) == /\ Enter(t)
                   /\ file[k].st \in {"empty", "head"}
                   /\ Goto(t, k, IF HasHeader(k) THEN "noBody" ELSE "badHeader")
                   /\ UNCHANGED <<file, dref, dblk>>

(* Slip: the count is lowered before the asserts on it. *)
SlipDereferenceOpen(t, k) == /\ Enter(t)
                             /\ Goto(t, k, IF Exists(k) THEN AfterHeader(k, "deref") ELSE "noFile")
                             /\ dref' = [dref EXCEPT ![t] = file[k].ref - 1]
                             /\ UNCHANGED <<file, dblk>>

(* dereference reads the count ... *)
DereferenceOpen(t, k) == /\ Enter(t)
                         /\ Goto(t, k, IF Exists(k) THEN AfterHeader(k, "deref") ELSE "noFile")
                         /\ dref' = [dref EXCEPT ![t] = file[k].ref]
                         /\ UNCHANGED <<file, dblk>>

(* Slip: the file is kept when its count reaches zero. *)
SlipDereferenceWrite(t) == /\ dpc[t] = "deref"
                           /\ file' = [file EXCEPT ![dkey[t]] = FileWith(dkey[t], dref[t] - 1)]
                           /\ Leave(t)

(* ... and writes it back, one less, or unlinks the file.                  *)
DereferenceWrite(t) == /\ dpc[t] = "deref"
                       /\ file' = [file EXCEPT ![dkey[t]] =
                                     IF dref[t] > 1 THEN FileWith(dkey[t], dref[t] - 1) ELSE NoFile]
                       /\ Leave(t)

Remove(t, k) == /\ Enter(t)
                /\ file' = [file EXCEPT ![k] = NoFile]
                /\ UNCHANGED <<diskLock, dpc, dkey, dref, dblk>>

(* The calls, and the steps a call under way may take. *)
Put(t, k) == PutOpen(t, k) \/ PutCreate(t, k)
Get(t, k) == GetMiss(t, k) \/ GetHit(t, k) \/ GetAborts(t, k)
Step(t) == \/ PutBump(t) \/ PutHead(t) \/ PutHeadShort(t)
           \/ PutBody(t) \/ PutBodyShort(t) \/ DereferenceWrite(t)

(* The process dies, in a failed assert or anywhere else, and is started   *)
(* again: the files stay as they are, all else is new.                     *)
Restart == /\ diskLock' = NoThread
           /\ dpc' = [t \in Threads |-> "idle"]
           /\ dref' = [t \in Threads |-> 0]
           /\ dblk' = [t \in Threads |-> "none"]
           /\ UNCHANGED <<file, dkey>>

Next == \/ \E t \in Threads, k \in Keys :
             \/ file[k].ref < MaxRef /\ Put(t, k)
             \/ Get(t, k)
             \/ DereferenceOpen(t, k)
             \/ Remove(t, k)
        \/ \E t \in Threads : Step(t)
        \/ Restart

Spec == Init /\ [][Next]_diskVars

-----------------------------------------------------------------------------
(* Domains. *)
TypeOK == /\ file \in [Keys -> [st : FileStates, ref : Nat]]
          /\ diskLock \in Threads \union {NoThread}
          /\ dpc \in [Threads -> Steps \union AbortSites]
          /\ dkey \in [Threads -> Keys]
          /\ dref \in [Threads -> Nat]
          /\ dblk \in [Threads -> Answers]

(* The count in a file that has one is positive, whatever the process was  *)
(* killed in the middle of, so the asserts on it (lines 48 and 113) never  *)
(* fail: header and unlink are ordered so that no crash leaves a zero.     *)
CountsPositive == \A k \in Keys : HasHeader(k) <=> file[k].ref > 0

(* Between reading a count and writing it back nobody else writes it: no   *)
(* put and no dereference of a key is lost.                                *)
CountReadIsCurrent ==
  \A t \in Threads : dpc[t] \in {"bump", "deref"} =>
     HasHeader(dkey[t]) /\ file[dkey[t]].ref = dref[t]

(* Only the thread that holds the lock is within a call, or was when an    *)
(* assert stopped it; and the file a put is in the middle of creating is   *)
(* as the put left it, there for nobody else to count on.                  *)
OneCall == \A t \in Threads : dpc[t] # "idle" => diskLock = t
NewFile == \A t \in Threads :
              /\ dpc[t] = "head" => file[dkey[t]] = [st |-> "empty", ref |-> 0]
              /\ dpc[t] = "body" => file[dkey[t]] = [st |-> "head", ref |-> 1]

(* What every step keeps and the properties here rest on.                  *)
IInv == TypeOK /\ CountsPositive /\ CountReadIsCurrent /\ OneCall /\ NewFile

(* A torn file stays torn: only the put that created a file completes it.  *)
(* A later put of the key finds the file, raises its count and returns,    *)
(* with no block stored.                                                   *)
OnlyItsCreatorCompletesAFile ==
  [][\A k \in Keys : file'[k].st = "full" /\ file[k].st # "full" =>
        \E t \in Threads : dpc[t] = "body" /\ dkey[t] = k]_diskVars

(* Every file the tier opens has a count, and one that has a count has a   *)
(* block: what the asserts of getRefCount (line 144) and getBuf (line 161) *)
(* say of their reads.                                                     *)
FilesAreReadable == \A t \in Threads : dpc[t] \notin {"badHeader", "noBody"}

(* DiskCache keeps the contract of Storage through crashes, if a file that *)
(* is not complete counts as a block that is not stored.                   *)
References == [k \in Keys |-> IF file[k].st = "full" THEN file[k].ref ELSE 0]
Contract == INSTANCE Storage WITH refs <- References
ContractSpec == Contract!Spec
=============================================================================
