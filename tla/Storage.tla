------------------------------ MODULE Storage ------------------------------
(***************************************************************************)
(* What the abstract class Storage (Storage.h) promises whoever calls it:  *)
(* a reference count per key.  A block is stored while its count is        *)
(* positive; put adds one reference, dereference gives one back, remove    *)
(* drops the block whatever its count.  Every call is atomic.  MemoryCache,*)
(* DiskCache and, in a bucket no other daemon uses, BaiDuCloudStorage are  *)
(* shown to implement this module.                                         *)
(***************************************************************************)
EXTENDS Naturals

CONSTANT Keys       \* the fingerprints (md5 of a block) that are used

VARIABLE refs       \* [Keys -> Nat]: references given out and not given back

Init == refs = [k \in Keys |-> 0]

Put(k) == refs' = [refs EXCEPT ![k] = @ + 1]

Dereference(k) == /\ refs[k] > 0
                  /\ refs' = [refs EXCEPT ![k] = @ - 1]

Remove(k) == refs' = [refs EXCEPT ![k] = 0]

Next == \E k \in Keys : Put(k) \/ Dereference(k) \/ Remove(k)

Spec == Init /\ [][Next]_refs
=============================================================================
