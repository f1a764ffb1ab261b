---------------------------- MODULE LockedMemory ----------------------------
(***************************************************************************)
(* The memory tier behind its lock, as StorageMgr.cpp uses it: a thread    *)
(* calls MemoryCache between memoryCache->lock() and ->unlock(), which are *)
(* those of the tier's Lock.                                               *)
(***************************************************************************)
EXTENDS Lock, Naturals

CONSTANTS Keys,
          MaxRef        \* bound of the model: put is not called at this count

VARIABLES cacheMap, blk

memVars == <<cacheMap, blk>>
allVars == <<vars, memVars>>

Memory == INSTANCE MemoryCache

MemoryInit == Init /\ Memory!Init

(* A thread that has the lock makes a call. *)
Call(t) == /\ pc[t] = "locked"
           /\ \E k \in Keys : \/ Memory!Ref(k) < MaxRef /\ Memory!Put(k)
                              \/ Memory!Get(t, k)
                              \/ Memory!Remove(k)
                              \/ Memory!Dereference(k)
           /\ UNCHANGED vars

MemoryNext == \/ Next /\ UNCHANGED memVars
              \/ \E t \in Threads : Call(t)

MemorySpec == MemoryInit /\ [][MemoryNext]_allVars

-----------------------------------------------------------------------------
(* The map drops a block with its last reference: MemoryCache::dereference *)
(* leaves no entry with a count of zero.                                   *)
NoDeadEntry == Memory!NoDeadEntry

(* The tier implements Storage: put adds a reference, dereference takes one*)
(* away, remove takes all.                                                 *)
ContractSpec == Memory!ContractSpec
=============================================================================
