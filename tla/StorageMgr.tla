----------------------------- MODULE StorageMgr -----------------------------
(***************************************************************************)
(* StorageMgr (StorageMgr.cpp): put, get and remove pass a call through the*)
(* memory, the disk and the cloud tier in turn, all under mgrLock.  The    *)
(* tiers are the modules MemoryCache, DiskCache and BaiDuCloudStorage, the *)
(* last with one daemon in the bucket; a tier's own lock is taken and freed*)
(* within its part of the call.                                            *)
(*                                                                         *)
(* The callers are the threads of FUSE.  fpRefs counts, per key, the       *)
(* fingerprints in their files: one more when put has returned, one less   *)
(* when remove has.  A thread removes only a fingerprint that is in a file.*)
(*                                                                         *)
(* The daemon may die at any step, of a failed assert or of anything else, *)
(* and be started again: memory is then empty, the files, the disk tier    *)
(* and the bucket are as they were.                                        *)
(***************************************************************************)
EXTENDS Integers, FiniteSets

CONSTANTS Keys,
          Threads,
          NoThread,
          Daemon,       \* the one host
          DiskFull,     \* may the device of the disk tier run out of space?
          MaxFaults,    \* bound of the model: requests to the cloud that fail
          MaxCrashes,   \* bound of the model: deaths of the daemon
          MaxRef        \* bound of the model: fingerprints of one key

ASSUME MgrThreadAssumption == IsFiniteSet(Threads) /\ NoThread \notin Threads
ASSUME MgrDiskFullAssumption == DiskFull \in BOOLEAN
ASSUME MgrBoundsAssumption == MaxFaults \in Nat /\ MaxCrashes \in Nat /\ MaxRef \in Nat

VARIABLES
  cacheMap, blk,                                            \* memoryCache
  file, diskLock, dpc, dkey, dref, dblk,                    \* diskCache
  object, cloudLock, cpc, ckey, cref, cbody, cblk, faults,  \* cloudStorage
  mgrLock,      \* holder of mgrLock
  pc,           \* where each thread is within a call
  op,           \* the call
  key,          \* its argument
  fpRefs,       \* [Keys -> Nat]
  crashes       \* deaths so far

memVars == <<cacheMap, blk>>
diskVars == <<file, diskLock, dpc, dkey, dref, dblk>>
cloudVars == <<object, cloudLock, cpc, ckey, cref, cbody, cblk, faults>>
callVars == <<op, key>>
vars == <<memVars, diskVars, cloudVars, mgrLock, pc, callVars, fpRefs, crashes>>

Mem == INSTANCE MemoryCache
Disk == INSTANCE DiskCache
Cloud == INSTANCE BaiDuCloudStorage WITH
           Hosts <- {Daemon}, HostOf <- [t \in Threads |-> Daemon]

Ops == {"put", "get", "remove"}

(* mgr: waiting for mgrLock; mem, disk, cloud: in that tier; exit: about   *)
(* to unlock; abort: an assert of the memory tier failed.                  *)
PCs == {"idle", "mgr", "mem", "disk", "cloud", "exit", "abort"}

Init == /\ Mem!Init
        /\ Disk!Init
        /\ Cloud!Init
        /\ mgrLock = NoThread
        /\ pc = [t \in Threads |-> "idle"]
        /\ op = [t \in Threads |-> "none"]
        /\ key \in [Threads -> Keys]
        /\ fpRefs = [k \in Keys |-> 0]
        /\ crashes = 0

(* A failed assert is the end of the process. *)
Aborted == \/ \E t \in Threads : pc[t] = "abort"
           \/ Disk!Aborted
           \/ Cloud!Aborted(Daemon)

(* The threads that are within call o for k. *)
In(o, k) == {t \in Threads : pc[t] # "idle" /\ op[t] = o /\ key[t] = k}

At(t, s) == ~Aborted /\ pc[t] = s

Goto(t, s) == pc' = [pc EXCEPT ![t] = s]

-----------------------------------------------------------------------------
(* The callers. *)

Call(t, o, k) == /\ At(t, "idle")
                 /\ o = "put" => fpRefs[k] + Cardinality(In("put", k)) < MaxRef
                 /\ o = "remove" => fpRefs[k] > Cardinality(In("remove", k))
                 /\ Goto(t, "mgr")
                 /\ op' = [op EXCEPT ![t] = o]
                 /\ key' = [key EXCEPT ![t] = k]
                 /\ UNCHANGED <<memVars, diskVars, cloudVars, mgrLock, fpRefs, crashes>>

-----------------------------------------------------------------------------
(* put, get and remove, a part for each tier. *)

(* Slip: mgrLock is forgotten. *)
SlipMgrAcquire(t) == /\ At(t, "mgr")
                     /\ mgrLock' = t
                     /\ Goto(t, "mem")
                     /\ UNCHANGED <<memVars, diskVars, cloudVars, callVars, fpRefs, crashes>>

MgrAcquire(t) == /\ At(t, "mgr")
                 /\ mgrLock = NoThread
                 /\ mgrLock' = t
                 /\ Goto(t, "mem")
                 /\ UNCHANGED <<memVars, diskVars, cloudVars, callVars, fpRefs, crashes>>

MemPut(t) == /\ At(t, "mem") /\ op[t] = "put"
             /\ Mem!Put(key[t])
             /\ Goto(t, "disk")
             /\ UNCHANGED <<diskVars, cloudVars, mgrLock, callVars, fpRefs, crashes>>

(* Slip: a block found in memory is returned without unlocking. *)
SlipMemGet(t) == /\ At(t, "mem") /\ op[t] = "get"
                 /\ Mem!Get(t, key[t])
                 /\ Goto(t, IF Mem!Cached(key[t]) THEN "idle" ELSE "disk")
                 /\ UNCHANGED <<diskVars, cloudVars, mgrLock, callVars, fpRefs, crashes>>

(* A block found in memory is the result; otherwise the other tiers are    *)
(* asked, but what they return is not assigned to the result.              *)
MemGet(t) == /\ At(t, "mem") /\ op[t] = "get"
             /\ Mem!Get(t, key[t])
             /\ Goto(t, IF Mem!Cached(key[t]) THEN "exit" ELSE "disk")
             /\ UNCHANGED <<diskVars, cloudVars, mgrLock, callVars, fpRefs, crashes>>

(* Slip: remove drops the block from memory whatever its count. *)
SlipMemRemove(t) == /\ At(t, "mem") /\ op[t] = "remove"
                    /\ Mem!Remove(key[t])
                    /\ Goto(t, "disk")
                    /\ UNCHANGED <<diskVars, cloudVars, mgrLock, callVars, fpRefs, crashes>>

(* Slip: memory keeps its count when the other tiers lower theirs. *)
SlipMemKeeps(t) == /\ At(t, "mem") /\ op[t] = "remove"
                   /\ Goto(t, IF Mem!Cached(key[t]) THEN "disk" ELSE "abort")
                   /\ UNCHANGED <<memVars, diskVars, cloudVars, mgrLock, callVars, fpRefs, crashes>>

MemRemove(t) == /\ At(t, "mem") /\ op[t] = "remove"
                /\ IF Mem!DereferenceAborts(key[t])
                   THEN Goto(t, "abort") /\ UNCHANGED memVars
                   ELSE Goto(t, "disk") /\ Mem!Dereference(key[t])
                /\ UNCHANGED <<diskVars, cloudVars, mgrLock, callVars, fpRefs, crashes>>

(* The disk tier's part begins ...                                         *)
DiskEnter(t) == /\ At(t, "disk")
                /\ \/ op[t] = "put" /\ Disk!Put(t, key[t])
                   \/ op[t] = "get" /\ Disk!Get(t, key[t])
                   \/ op[t] = "remove" /\ Disk!DereferenceOpen(t, key[t])
                /\ Goto(t, IF dpc'[t] = "idle" THEN "cloud" ELSE "disk")
                /\ UNCHANGED <<memVars, cloudVars, mgrLock, callVars, fpRefs, crashes>>

(* ... and goes on until the disk tier returns.                            *)
DiskStep(t) == /\ At(t, "disk")
               /\ Disk!Step(t)
               /\ Goto(t, IF dpc'[t] = "idle" THEN "cloud" ELSE "disk")
               /\ UNCHANGED <<memVars, cloudVars, mgrLock, callVars, fpRefs, crashes>>

CloudEnter(t) == /\ At(t, "cloud")
                 /\ \/ op[t] = "put" /\ Cloud!PutHead(t, key[t])
                    \/ op[t] = "get" /\ Cloud!Get(t, key[t])
                    \/ op[t] = "remove" /\ Cloud!Fetch(t, key[t])
                 /\ Goto(t, IF cpc'[t] = "idle" THEN "exit" ELSE "cloud")
                 /\ UNCHANGED <<memVars, diskVars, mgrLock, callVars, fpRefs, crashes>>

CloudStep(t) == /\ At(t, "cloud")
                /\ Cloud!Step(t)
                /\ Goto(t, IF cpc'[t] = "idle" THEN "exit" ELSE "cloud")
                /\ UNCHANGED <<memVars, diskVars, mgrLock, callVars, fpRefs, crashes>>

(* What a call adds to the count of its key. *)
Change(o) == IF o = "put" THEN 1 ELSE IF o = "remove" THEN -1 ELSE 0

(* The Blocks a call was answered with go out of scope with its locals. *)
ForgetAnswers(t) ==
  /\ blk' = [blk EXCEPT ![t] = "none"]
  /\ dblk' = [dblk EXCEPT ![t] = "none"]
  /\ cblk' = [cblk EXCEPT ![t] = "none"]
  /\ UNCHANGED <<cacheMap, file, diskLock, dpc, dkey, dref>>
  /\ UNCHANGED <<object, cloudLock, cpc, ckey, cref, cbody, faults>>

(* mgrLock is freed and the call returns, its results with it; the caller  *)
(* has one fingerprint more after a put, one less after a remove.          *)
MgrRelease(t) == /\ At(t, "exit")
                 /\ mgrLock' = NoThread
                 /\ Goto(t, "idle")
                 /\ fpRefs' = [fpRefs EXCEPT ![key[t]] = @ + Change(op[t])]
                 /\ op' = [op EXCEPT ![t] = "none"]
                 /\ ForgetAnswers(t)
                 /\ UNCHANGED <<key, crashes>>

Step(t) == \/ MgrAcquire(t)
           \/ MemPut(t) \/ MemGet(t) \/ MemRemove(t)
           \/ DiskEnter(t) \/ DiskStep(t)
           \/ CloudEnter(t) \/ CloudStep(t)
           \/ MgrRelease(t)

-----------------------------------------------------------------------------
(* The daemon dies and is started again. *)
Crash == /\ crashes < MaxCrashes
         /\ crashes' = crashes + 1
         /\ Mem!Restart
         /\ Disk!Restart
         /\ Cloud!Restart(Daemon)
         /\ mgrLock' = NoThread
         /\ pc' = [t \in Threads |-> "idle"]
         /\ op' = [t \in Threads |-> "none"]
         /\ UNCHANGED <<key, fpRefs>>

Next == \/ \E t \in Threads, o \in Ops, k \in Keys : Call(t, o, k)
        \/ \E t \in Threads : Step(t)
        \/ Crash

Spec == Init /\ [][Next]_vars

(* A thread within a call goes on: nothing in it waits for anything but the*)
(* locks, the disk and the answers of the service, which come or fail.     *)
FairSpec == Spec /\ \A t \in Threads : WF_vars(Step(t))

-----------------------------------------------------------------------------
(* Domains. *)
TypeOK == /\ Mem!TypeOK
          /\ Disk!TypeOK
          /\ Cloud!CloudTypeOK
          /\ mgrLock \in Threads \union {NoThread}
          /\ pc \in [Threads -> PCs]
          /\ op \in [Threads -> Ops \union {"none"}]
          /\ key \in [Threads -> Keys]
          /\ fpRefs \in [Keys -> Nat]
          /\ crashes \in 0..MaxCrashes

(* Has the call that holds mgrLock changed the count of each tier yet?     *)
MemDone == pc[mgrLock] \in {"disk", "cloud", "exit"}
DiskDone == \/ pc[mgrLock] \in {"cloud", "exit"}
            \/ pc[mgrLock] = "disk" /\ dpc[mgrLock] \in {"body", "shortWrite"}
CloudDone == \/ pc[mgrLock] = "exit"
             \/ pc[mgrLock] = "cloud" /\ cpc[mgrLock] = "confirm"

(* What that call has added to the count of k, if it has. *)
InHand(k, done) ==
  IF mgrLock # NoThread /\ key[mgrLock] = k /\ done
  THEN Change(op[mgrLock])
  ELSE 0

(* The count of k in each tier, without the call that is under way. *)
MemCount(k) == Mem!Ref(k) - InHand(k, MemDone)
DiskCount(k) == file[k].ref - InHand(k, DiskDone)
CloudCount(k) == object[k].ref - InHand(k, CloudDone)

(* Until the daemon first dies or a request fails, the three tiers count   *)
(* for every key exactly the fingerprints in the files: no interleaving of *)
(* the callers makes them differ.                                          *)
TiersAgree ==
  crashes = 0 /\ faults = 0 =>
    \A k \in Keys : /\ MemCount(k) = fpRefs[k]
                    /\ DiskCount(k) = fpRefs[k]
                    /\ CloudCount(k) = fpRefs[k]

(* Nor does any assert in the tiers fail, on a device with room. *)
NoAssertFails == crashes = 0 /\ faults = 0 /\ ~DiskFull => ~Aborted

(* get finds the block of every fingerprint that is in a file, as xmp_read *)
(* asserts of it (fuse-daemonV2.cpp).                                      *)
ReferencedBlockIsFound ==
  \A t \in Threads : pc[t] = "exit" /\ op[t] = "get" /\ fpRefs[key[t]] > 0 => blk[t] = "block"

(* Memory, which a restart empties, never counts more references than the  *)
(* disk tier, which it does not, nor, while no request has failed, than    *)
(* the bucket: however often the daemon dies, within whatever call.        *)
MemNotAhead == \A k \in Keys : /\ MemCount(k) <= DiskCount(k)
                               /\ faults = 0 => MemCount(k) <= CloudCount(k)

(* So a remove that has got past memory finds the file, its header and a   *)
(* positive count on disk: the asserts of DiskCache::dereference hold. *)
DiskDereferenceSafe ==
  \A t \in Threads : pc[t] = "disk" /\ op[t] = "remove" => dpc[t] \in {"idle", "deref"}

(* A death loses or repeats at most one change of a key's count on disk:   *)
(* the count is never further from the fingerprints in the files than the  *)
(* number of times the daemon died.  The same holds of the bucket while no *)
(* request has failed.                                                     *)
DriftBounded ==
  \A k \in Keys : /\ DiskCount(k) - fpRefs[k] \in -crashes..crashes
                  /\ faults = 0 => CloudCount(k) - fpRefs[k] \in -crashes..crashes

(* No death takes away a block that the files need: while a key has more   *)
(* fingerprints than removes under way and deaths so far, its file on disk *)
(* is counted, and until a request fails the bucket has the block, though  *)
(* get does not return it after a restart.                                 *)
BlocksSurvive ==
  \A k \in Keys : fpRefs[k] > crashes + Cardinality(In("remove", k)) =>
    /\ file[k].ref > 0
    /\ faults = 0 => object[k].ref > 0 /\ object[k].body = "good"

(* For its callers the three tiers together are one atomic store: a call   *)
(* takes effect when memory's part of it does, and what disk and bucket do *)
(* afterwards, or fail to do, changes no answer.  A restart forgets all.   *)
Phase(t) == IF pc[t] = "idle" THEN "idle"
            ELSE IF pc[t] \in {"mgr", "mem", "abort"} THEN "asked"
            ELSE "done"
Store == INSTANCE BlockStore WITH
           refs <- Mem!References, phase <- [t \in Threads |-> Phase(t)], answer <- blk
StoreSpec == Store!Spec

(* The disk tier, called by the manager, keeps the contract of Storage     *)
(* through every death of the daemon; the bucket keeps it until a request  *)
(* fails.                                                                  *)
BucketRefs == [k \in Keys |-> object[k].ref]
Bucket == INSTANCE Storage WITH refs <- BucketRefs
TiersSpec == /\ Disk!ContractSpec
             /\ Bucket!Init
             /\ [][faults' = 0 => Bucket!Next]_BucketRefs

(* Every call that gets mgrLock gives it back, unless an assert fails.     *)
LockIsReleased == \A t \in Threads : mgrLock = t ~> (mgrLock # t \/ Aborted)
-----------------------------------------------------------------------------
(* The inductive invariant behind the properties: what is known of a call  *)
(* while it is in a tier. *)

(* The holder of mgrLock, and nobody else, is past acquiring it; a tier is *)
(* busy only with the call that is in it.                                  *)
CallsInv ==
  \A t \in Threads :
    /\ pc[t] \notin {"idle", "mgr"} <=> mgrLock = t
    /\ pc[t] # "idle" => op[t] \in Ops
    /\ dpc[t] # "idle" => pc[t] = "disk" /\ dkey[t] = key[t]
    /\ cpc[t] # "idle" => pc[t] = "cloud" /\ ckey[t] = key[t]

(* There is a fingerprint for every remove that is under way. *)
RemovesInv == \A k \in Keys : Cardinality(In("remove", k)) <= fpRefs[k]

(* A file has a count when it has a header; what a call in the disk tier   *)
(* read or wrote is what is in the file.                                   *)
DiskInv ==
  /\ Disk!CountsPositive
  /\ \A t \in Threads : LET ref == file[key[t]].ref IN
       /\ dpc[t] \in {"head", "bump", "body", "shortWrite"} => op[t] = "put"
       /\ dpc[t] = "head" => ref = 0
       /\ dpc[t] \in {"body", "shortWrite"} => ref = 1
       /\ dpc[t] = "deref" => op[t] = "remove"
       /\ dpc[t] \in {"bump", "deref"} => ref = dref[t] /\ ref > 0

(* The same of the bucket, while no request has failed. *)
CloudInv ==
  faults = 0 =>
    /\ \A k \in Keys : \/ object[k] = Cloud!NoObject
                       \/ object[k].body = "good" /\ object[k].ref > 0
    /\ \A t \in Threads : LET ref == object[key[t]].ref IN
         /\ cpc[t] \in {"upload", "confirm"} => op[t] = "put"
         /\ cpc[t] = "upload" => cref[t] = ref + 1
         /\ cpc[t] = "confirm" => ref > 0
         /\ cpc[t] \in {"delete", "store"} => op[t] = "remove" /\ cref[t] = ref - 1
         /\ cpc[t] = "delete" => ref = 1
         /\ cpc[t] = "store" => ref > 1 /\ cbody[t] = "good"
         /\ cpc[t] # "abort"

(* Until the daemon first dies memory counts the fingerprints in the files.*)
MemAgrees == crashes = 0 => \A k \in Keys : MemCount(k) = fpRefs[k]

IInv == /\ TypeOK /\ CallsInv /\ RemovesInv
        /\ Mem!NoDeadEntry /\ DiskInv /\ CloudInv
        /\ MemAgrees /\ MemNotAhead /\ DriftBounded /\ DiskDereferenceSafe
=============================================================================
