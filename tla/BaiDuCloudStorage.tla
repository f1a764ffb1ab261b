-------------------------- MODULE BaiDuCloudStorage --------------------------
(***************************************************************************)
(* The cloud tier (BaiDuCloudStorage.cpp): one object per key in a bucket  *)
(* whose name is compiled in, so that every daemon uses the same one.  The *)
(* count is the object's metadata header x-bs-meta-ref.  Each request of   *)
(* the SDK is a step; storaeLock excludes the threads of one host only.    *)
(*                                                                         *)
(* The service is external.  A request may fail (at most MaxFaults do);    *)
(* one that fails may or may not have been carried out.  A head, a get or  *)
(* a delete of an object that is not there fails too.                      *)
(*                                                                         *)
(* This module has the operations.  SharedBucket and StorageMgr say who    *)
(* calls them.                                                             *)
(***************************************************************************)
EXTENDS Integers

CONSTANTS Keys,
          Threads,
          Hosts,        \* the daemons that use the bucket
          HostOf,       \* the daemon each thread is of
          NoThread,
          MaxFaults     \* bound of the model: requests that fail

ASSUME HostOfAssumption == HostOf \in [Threads -> Hosts]
ASSUME MaxFaultsAssumption == MaxFaults \in Nat
ASSUME NobodyAssumption == NoThread \notin Threads

VARIABLES
  object,       \* for each key, what the bucket holds
  cloudLock,    \* holder of each host's storaeLock
  cpc,          \* where each thread is within a call
  ckey,         \* the key of the call
  cref,         \* the count the call has computed and will store
  cbody,        \* dereference: the body that came with the count
  cblk,         \* what the last get of each thread returned
  faults        \* requests that have failed

cloudVars == <<object, cloudLock, cpc, ckey, cref, cbody, cblk, faults>>

(* good: the block that was put; bad: something else under its key *)
Bodies == {"none", "good", "bad"}
NoObject == [body |-> "none", ref |-> 0]
Objects == [body : Bodies, ref : Int]

Steps == {"idle", "upload", "confirm", "delete", "store", "abort"}

Answers == {"none", "NULL", "good", "bad"}

Init == /\ object = [k \in Keys |-> NoObject]
        /\ cloudLock = [h \in Hosts |-> NoThread]
        /\ cpc = [t \in Threads |-> "idle"]
        /\ ckey \in [Threads -> Keys]
        /\ cref = [t \in Threads |-> 0]
        /\ cbody = [t \in Threads |-> "none"]
        /\ cblk = [t \in Threads |-> "none"]
        /\ faults = 0

Exists(k) == object[k].body # "none"

(* A host one of whose threads failed an assert does nothing more. *)
Aborted(h) == \E t \in Threads : HostOf[t] = h /\ cpc[t] = "abort"

(* Slip: the caller forgets the lock. *)
SlipEnter(t) == ~Aborted(HostOf[t]) /\ cpc[t] = "idle"

Enter(t) == /\ ~Aborted(HostOf[t])
            /\ cpc[t] = "idle"
            /\ cloudLock[HostOf[t]] = NoThread

Goto(t, k, s) == /\ cpc' = [cpc EXCEPT ![t] = s]
                 /\ ckey' = [ckey EXCEPT ![t] = k]
                 /\ cloudLock' = [cloudLock EXCEPT ![HostOf[t]] = t]

(* The last step: the lock is freed, and the locals go out of scope. *)
Leave(t) == /\ cpc' = [cpc EXCEPT ![t] = "idle"]
            /\ cloudLock' = [cloudLock EXCEPT ![HostOf[t]] = NoThread]
            /\ cref' = [cref EXCEPT ![t] = 0]
            /\ cbody' = [cbody EXCEPT ![t] = "none"]
            /\ UNCHANGED <<ckey, cblk>>

(* One of the requests the model allows to fail. *)
Fault == /\ faults < MaxFaults
         /\ faults' = faults + 1

(* The outcomes of a request that reads the object of k. *)
Found(k) == Exists(k) /\ UNCHANGED faults
NotFound(k) == \/ ~Exists(k) /\ UNCHANGED faults
               \/ Fault

(* The bucket holds o for k from now on. *)
Becomes(k, o) == object' = [object EXCEPT ![k] = o]

(* A request that would make it so fails, and the assert on it with it. *)
ChangeFails(t, k, o) == /\ Becomes(k, o) \/ UNCHANGED object
                        /\ Goto(t, k, "abort")
                        /\ UNCHANGED <<cref, cbody, cblk>>

(* Slip: the header is filled in before the count is lowered. *)
SlipOldObject(t) == [body |-> cbody[t], ref |-> cref[t] + 1]

(* What put and dereference upload. *)
NewObject(t) == [body |-> "good", ref |-> cref[t]]
OldObject(t) == [body |-> cbody[t], ref |-> cref[t]]

(* put asks for the header.  Whatever makes that fail is taken to mean     *)
(* that the object is new: its count will be one.                          *)
PutHead(t, k) == /\ Enter(t)
                 /\ \/ Found(k) /\ cref' = [cref EXCEPT ![t] = object[k].ref + 1]
                    \/ NotFound(k) /\ cref' = [cref EXCEPT ![t] = 1]
                 /\ Goto(t, k, "upload")
                 /\ UNCHANGED <<object, cbody, cblk>>

(* It uploads the block with the count ...                                 *)
Upload(t) == /\ cpc[t] = "upload"
             /\ Becomes(ckey[t], NewObject(t))
             /\ Goto(t, ckey[t], "confirm")
             /\ UNCHANGED <<cref, cbody, cblk, faults>>

UploadFails(t) == /\ cpc[t] = "upload"
                  /\ Fault
                  /\ ChangeFails(t, ckey[t], NewObject(t))

(* ... and asserts that the header can then be read.                       *)
Confirm(t) == /\ cpc[t] = "confirm"
              /\ \/ /\ Found(ckey[t])
                    /\ Leave(t)
                 \/ /\ NotFound(ckey[t])
                    /\ Goto(t, ckey[t], "abort")
                    /\ UNCHANGED <<cref, cbody, cblk>>
              /\ UNCHANGED object

Get(t, k) == /\ Enter(t)
             /\ \/ Found(k) /\ cblk' = [cblk EXCEPT ![t] = object[k].body]
                \/ NotFound(k) /\ cblk' = [cblk EXCEPT ![t] = "NULL"]
             /\ UNCHANGED <<object, cloudLock, cpc, ckey, cref, cbody>>

(* dereference fetches the whole object and does not look at the result: a *)
(* failed request has an error for a body and no count, which atoi makes 0.*)
Fetch(t, k) ==
  /\ Enter(t)
  /\ \/ /\ Found(k)
        /\ cref' = [cref EXCEPT ![t] = object[k].ref - 1]
        /\ cbody' = [cbody EXCEPT ![t] = object[k].body]
     \/ /\ NotFound(k)
        /\ cref' = [cref EXCEPT ![t] = -1]
        /\ cbody' = [cbody EXCEPT ![t] = "bad"]
  /\ Goto(t, k, IF cref'[t] = 0 THEN "delete" ELSE "store")
  /\ UNCHANGED <<object, cblk>>

(* The last reference: the object is deleted.                              *)
Delete(t) == /\ cpc[t] = "delete"
             /\ \/ Found(ckey[t]) /\ Becomes(ckey[t], NoObject) /\ Leave(t)
                \/ NotFound(ckey[t]) /\ ChangeFails(t, ckey[t], NoObject)

(* References remain: the body that was fetched is uploaded again.         *)
StoreBack(t) == /\ cpc[t] = "store"
                /\ Becomes(ckey[t], OldObject(t))
                /\ Leave(t)
                /\ UNCHANGED faults

StoreBackFails(t) == /\ cpc[t] = "store"
                     /\ Fault
                     /\ ChangeFails(t, ckey[t], OldObject(t))

(* Storage::remove, called directly. *)
Remove(t, k) == /\ Enter(t)
                /\ \/ /\ Found(k) /\ Becomes(k, NoObject)
                      /\ UNCHANGED <<cloudLock, cpc, ckey, cref, cbody, cblk>>
                   \/ NotFound(k) /\ ChangeFails(t, k, NoObject)

Step(t) == \/ Upload(t) \/ UploadFails(t) \/ Confirm(t)
           \/ Delete(t) \/ StoreBack(t) \/ StoreBackFails(t)

(* The daemon of host h dies and is started again; the bucket stays. *)
Restart(h) == LET gone(t) == HostOf[t] = h IN
  /\ cloudLock' = [cloudLock EXCEPT ![h] = NoThread]
  /\ cpc' = [t \in Threads |-> IF gone(t) THEN "idle" ELSE cpc[t]]
  /\ cref' = [t \in Threads |-> IF gone(t) THEN 0 ELSE cref[t]]
  /\ cbody' = [t \in Threads |-> IF gone(t) THEN "none" ELSE cbody[t]]
  /\ cblk' = [t \in Threads |-> IF gone(t) THEN "none" ELSE cblk[t]]
  /\ UNCHANGED <<object, ckey, faults>>

(* Domains. *)
CloudTypeOK == /\ object \in [Keys -> Objects]
               /\ cloudLock \in [Hosts -> Threads \union {NoThread}]
               /\ cpc \in [Threads -> Steps]
               /\ ckey \in [Threads -> Keys]
               /\ cref \in [Threads -> Int]
               /\ cbody \in [Threads -> Bodies]
               /\ cblk \in [Threads -> Answers]
               /\ faults \in 0..MaxFaults
=============================================================================
