---------------------------- MODULE SharedBucket ----------------------------
(***************************************************************************)
(* Daemons using one bucket through BaiDuCloudStorage.  A daemon           *)
(* dereferences only what it holds: held counts the puts of each daemon    *)
(* that have returned, less its dereferences that have.  A daemon that     *)
(* dies is started again and still holds what its files name.              *)
(***************************************************************************)
EXTENDS BaiDuCloudStorage, FiniteSetsExt

CONSTANTS MaxRef,       \* bound of the model: references a daemon takes to a key,
                        \* and how far from 0 a count may be when a call begins
          MaxCrashes    \* bound of the model: deaths of a daemon

ASSUME BoundsAssumption == MaxRef \in Nat /\ MaxCrashes \in Nat

VARIABLES held,         \* [Hosts -> [Keys -> Nat]]
          crashes

vars == <<cloudVars, held, crashes>>

BucketInit == /\ Init
              /\ held = [h \in Hosts |-> [k \in Keys |-> 0]]
              /\ crashes = 0

CallPut(t, k) == /\ held[HostOf[t]][k] < MaxRef
                 /\ object[k].ref < Cardinality(Hosts) * MaxRef
                 /\ PutHead(t, k)
                 /\ UNCHANGED <<held, crashes>>

CallGet(t, k) == /\ Get(t, k)
                 /\ UNCHANGED <<held, crashes>>

CallDereference(t, k) == /\ held[HostOf[t]][k] > 0
                         /\ object[k].ref > -MaxRef
                         /\ Fetch(t, k)
                         /\ UNCHANGED <<held, crashes>>

CallRemove(t, k) == /\ Remove(t, k)
                    /\ held' = [h \in Hosts |-> [held[h] EXCEPT ![k] = 0]]
                    /\ UNCHANGED crashes

(* A request within a call; the one that ends it settles the references    *)
(* (there may be none left: the block may have been removed meanwhile).    *)
Continue(t) ==
  /\ Step(t)
  /\ held' = IF cpc'[t] # "idle" THEN held
             ELSE IF cpc[t] = "confirm" THEN [held EXCEPT ![HostOf[t]][ckey[t]] = @ + 1]
             ELSE [held EXCEPT ![HostOf[t]][ckey[t]] = IF @ > 0 THEN @ - 1 ELSE 0]
  /\ UNCHANGED crashes

Crash(h) == /\ crashes < MaxCrashes
            /\ crashes' = crashes + 1
            /\ Restart(h)
            /\ UNCHANGED held

Next == \/ \E t \in Threads, k \in Keys :
             CallPut(t, k) \/ CallGet(t, k) \/ CallDereference(t, k) \/ CallRemove(t, k)
        \/ \E t \in Threads : Continue(t)
        \/ \E h \in Hosts : Crash(h)

Spec == BucketInit /\ [][Next]_vars

-----------------------------------------------------------------------------
(* Domains; a thread is within a call exactly while it has its host's lock.*)
TypeOK == /\ CloudTypeOK
          /\ held \in [Hosts -> [Keys -> Nat]]
          /\ \A t \in Threads : cpc[t] # "idle" <=> cloudLock[HostOf[t]] = t

(* dereference uploads whatever its unchecked get returned, so an object   *)
(* may come to hold an error page.  Whatever fails and however the daemons *)
(* interleave, such an object has a negative count: a count of zero or more*)
(* tells that the body is a block.                                         *)
BadBodyIsNegative == \A k \in Keys : object[k].body = "bad" => object[k].ref < 0

(* With no failed request and no other daemon in the bucket, storaeLock is *)
(* enough: nothing happens to an object between the request that read its  *)
(* count and the one that stores the new one.                              *)
CountReadIsCurrent ==
  \A t \in Threads : LET o == object[ckey[t]] IN
    /\ cpc[t] = "upload" => cref[t] = o.ref + 1
    /\ cpc[t] \in {"store", "delete"} => cref[t] = o.ref - 1 /\ o.body = "good"

(* The references to the block of k that the daemons hold, together.       *)
HeldByAll(k) == MapThenSumSet(LAMBDA h : held[h][k], Hosts)

(* While no thread is within a call, the count of a key is the number of   *)
(* references to it that the daemons hold: what the test of this class     *)
(* asserts after its puts and its dereferences.  A daemon that dies within *)
(* a call may leave it off by one.                                         *)
CountIsReferencesHeld ==
  (\A t \in Threads : cpc[t] = "idle") =>
     \A k \in Keys : object[k].ref - HeldByAll(k) \in -crashes..crashes

(* A daemon alone in the bucket, all of whose requests succeed, has the    *)
(* contract of Storage, and keeps it when it dies within a call.           *)
References == [k \in Keys |-> object[k].ref]
Contract == INSTANCE Storage WITH refs <- References
ContractSpec == Contract!Spec
=============================================================================
