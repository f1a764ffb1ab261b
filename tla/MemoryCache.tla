---------------------------- MODULE MemoryCache ----------------------------
(***************************************************************************)
(* The memory tier (MemoryCache.cpp): a map from key to Block, of which the*)
(* model keeps the reference count.  The caller holds cacheMapLock around  *)
(* each call, so a call is one step.  get returns the map's own Block, not *)
(* a copy: the answer is only whether there is one.                        *)
(***************************************************************************)
EXTENDS Naturals

CONSTANTS Keys,
          Threads,
          MaxRef        \* bound of the model: put is not called at this count

VARIABLES cacheMap,     \* partial function from Keys to block->ref
          blk           \* what the last get of each thread returned

memVars == <<cacheMap, blk>>

Answers == {"none", "NULL", "block"}

Cached(k) == k \in DOMAIN cacheMap

Ref(k) == IF Cached(k) THEN cacheMap[k] ELSE 0

Init == /\ cacheMap = [k \in {} |-> 0]
        /\ blk = [t \in Threads |-> "none"]

(* block->ref of the entry for k becomes r; the entry is inserted if new. *)
Store(k, r) ==
  cacheMap' = [q \in DOMAIN cacheMap \union {k} |-> IF q = k THEN r ELSE cacheMap[q]]

Erase(k) == cacheMap' = [q \in DOMAIN cacheMap \ {k} |-> cacheMap[q]]

(* Slip: the else is lost, so that a new block is counted twice. *)
SlipPut(k) == /\ Store(k, IF Cached(k) THEN cacheMap[k] + 1 ELSE 2)
              /\ UNCHANGED blk

Put(k) == /\ Store(k, IF Cached(k) THEN cacheMap[k] + 1 ELSE 1)
          /\ UNCHANGED blk

Get(t, k) == /\ blk' = [blk EXCEPT ![t] = IF Cached(k) THEN "block" ELSE "NULL"]
             /\ UNCHANGED cacheMap

Remove(k) == Erase(k) /\ UNCHANGED blk

(* The assertion at the head of dereference: a key that is not cached      *)
(* aborts the process.                                                     *)
DereferenceAborts(k) == ~Cached(k)

(* Slip: the entry is kept when its count reaches zero. *)
SlipDereference(k) == /\ Cached(k)
                      /\ Store(k, cacheMap[k] - 1)
                      /\ UNCHANGED blk

Dereference(k) == /\ Cached(k)
                  /\ IF cacheMap[k] = 1 THEN Erase(k) ELSE Store(k, cacheMap[k] - 1)
                  /\ UNCHANGED blk

(* The process is started again: its memory is new. *)
Restart == /\ cacheMap' = [k \in {} |-> 0]
           /\ blk' = [t \in Threads |-> "none"]

Next == \E k \in Keys : \/ Ref(k) < MaxRef /\ Put(k)
                        \/ \E t \in Threads : Get(t, k)
                        \/ Remove(k)
                        \/ Dereference(k)

Spec == Init /\ [][Next]_memVars

-----------------------------------------------------------------------------
(* Domain of the map, of its counts and of the answers. *)
TypeOK == /\ DOMAIN cacheMap \subseteq Keys
          /\ \A k \in DOMAIN cacheMap : cacheMap[k] \in Nat
          /\ blk \in [Threads -> Answers]

(* A block leaves the map in the very call that takes its last reference: *)
(* no entry is ever left behind with a count of zero, which get would go   *)
(* on returning as if the block were stored.                               *)
NoDeadEntry == \A k \in DOMAIN cacheMap : cacheMap[k] > 0

(* MemoryCache keeps the contract of Storage, a block counting as many     *)
(* references as its entry says and none when it has no entry.             *)
References == [k \in Keys |-> Ref(k)]
Contract == INSTANCE Storage WITH refs <- References
ContractSpec == Contract!Spec
=============================================================================
