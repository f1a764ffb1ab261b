----------------------------- MODULE LockProofs -----------------------------
(* Proofs about Lock, and about the memory tier behind it, for any threads *)
(* and any keys.                                                           *)
EXTENDS LockedMemory, TLAPS

(* Every step of lock, unlock and try_lock keeps the invariant. *)
LEMMA LockStep == IInv /\ [Next]_vars => IInv'
<1> SUFFICES ASSUME IInv, [Next]_vars
             PROVE  IInv'
  OBVIOUS
<1> USE NoThreadAssumption DEF IInv, TypeOK, OwnerIsNotOutside, Exclusion, Goto, PCs
<1>1. ASSUME NEW t \in Threads, TakeMutex(t)
      PROVE  IInv'
  BY <1>1 DEF TakeMutex
<1>2. ASSUME NEW t \in Threads, NoteOwner(t)
      PROVE  IInv'
  BY <1>2 DEF NoteOwner
<1>3. ASSUME NEW t \in Threads, FreeMutex(t)
      PROVE  IInv'
  BY <1>3 DEF FreeMutex
<1>4. ASSUME NEW t \in Threads, ClearOwner(t)
      PROVE  IInv'
  BY <1>4 DEF ClearOwner
<1>5. CASE UNCHANGED vars
  BY <1>5 DEF vars
<1>6. QED
  BY <1>1, <1>2, <1>3, <1>4, <1>5 DEF Next, TryFails

(* get_owner never names a thread that is outside the lock, however many   *)
(* threads race with the writes to owner in lock and unlock.               *)
THEOREM OwnerIsNeverOutside == Spec => []OwnerIsNotOutside
<1>1. Init => IInv
  BY NoThreadAssumption DEF Init, IInv, TypeOK, OwnerIsNotOutside, Exclusion, PCs
<1>2. IInv => OwnerIsNotOutside
  BY DEF IInv
<1>3. QED
  BY <1>1, <1>2, LockStep, PTL DEF Spec

(* It is so in the daemon too, where the calls come between lock and unlock.*)
THEOREM OwnerIsNeverOutsideInUse == MemorySpec => []OwnerIsNotOutside
<1>1. MemoryInit => IInv
  BY NoThreadAssumption DEF MemoryInit, Init, IInv, TypeOK, OwnerIsNotOutside, Exclusion, PCs
<1>2. [MemoryNext]_allVars => [Next]_vars
  BY DEF MemoryNext, Call, allVars
<1>3. IInv => OwnerIsNotOutside
  BY DEF IInv
<1>4. QED
  BY <1>1, <1>2, <1>3, LockStep, PTL DEF MemorySpec

-----------------------------------------------------------------------------
(* What a call leaves in the map, and what its answer is.                  *)
MemoryInv == Memory!TypeOK /\ NoDeadEntry

(* A step of the daemon calls the tier for some key, or leaves it alone.   *)
LEMMA MemoryStepCases ==
  ASSUME [MemoryNext]_allVars
  PROVE  \/ \E k \in Keys : \/ Memory!Put(k) \/ Memory!Remove(k) \/ Memory!Dereference(k)
                            \/ \E t \in Threads : Memory!Get(t, k)
         \/ UNCHANGED memVars
BY DEF MemoryNext, Call, allVars

(* A call keeps the map's counts positive.                                 *)
LEMMA MemoryStep ==
  ASSUME MemoryInv, [MemoryNext]_allVars
  PROVE  MemoryInv'
<1> USE DEF MemoryInv, NoDeadEntry, Memory!NoDeadEntry, Memory!TypeOK
<1>1. ASSUME NEW k \in Keys, Memory!Put(k)
      PROVE  MemoryInv'
  BY <1>1 DEF Memory!Put, Memory!Store, Memory!Cached
<1>2. ASSUME NEW k \in Keys, Memory!Remove(k)
      PROVE  MemoryInv'
  BY <1>2 DEF Memory!Remove, Memory!Erase
<1>3. ASSUME NEW k \in Keys, Memory!Dereference(k)
      PROVE  MemoryInv'
  BY <1>3 DEF Memory!Dereference, Memory!Erase, Memory!Store, Memory!Cached
<1>4. ASSUME NEW k \in Keys, NEW t \in Threads, Memory!Get(t, k)
      PROVE  MemoryInv'
  BY <1>4 DEF Memory!Get, Memory!Answers
<1>5. CASE UNCHANGED memVars
  BY <1>5 DEF memVars
<1>6. QED
  BY <1>1, <1>2, <1>3, <1>4, <1>5, MemoryStepCases

(* At the start nothing is cached.                                         *)
LEMMA MemoryStart == MemoryInit => MemoryInv /\ Memory!Contract!Init
BY DEF MemoryInit, Memory!Init, MemoryInv, NoDeadEntry, Memory!NoDeadEntry, Memory!TypeOK,
       Memory!Answers, Memory!Contract!Init, Memory!References, Memory!Ref, Memory!Cached

LEMMA MemoryInvariant == MemorySpec => []MemoryInv
<1>1. MemoryInv /\ [MemoryNext]_allVars => MemoryInv'
  BY MemoryStep
<1>2. QED
  BY <1>1, MemoryStart, PTL DEF MemorySpec

(* MemoryCache::dereference never leaves an entry whose last reference is  *)
(* gone, for get to go on returning.                                       *)
THEOREM NoEntryOutlivesItsReferences == MemorySpec => []NoDeadEntry
<1>1. MemoryInv => NoDeadEntry
  BY DEF MemoryInv
<1>2. QED
  BY <1>1, MemoryInvariant, PTL

(* Each call is the call of Storage by the same name, and get is none.     *)
LEMMA MemoryReferencesStep ==
  ASSUME MemoryInv, [MemoryNext]_allVars
  PROVE  [Memory!Contract!Next]_Memory!References
<1> USE DEF MemoryInv, NoDeadEntry, Memory!NoDeadEntry, Memory!TypeOK, Memory!References,
            Memory!Ref, Memory!Cached
<1>1. ASSUME NEW k \in Keys, Memory!Put(k)
      PROVE  Memory!Contract!Put(k)
  <2>1. /\ DOMAIN cacheMap' = DOMAIN cacheMap \union {k}
        /\ \A q \in DOMAIN cacheMap \ {k} : cacheMap'[q] = cacheMap[q]
        /\ cacheMap'[k] = Memory!References[k] + 1
    BY <1>1 DEF Memory!Put, Memory!Store
  <2>2. QED
    BY <2>1 DEF Memory!Contract!Put
<1>2. ASSUME NEW k \in Keys, Memory!Remove(k)
      PROVE  Memory!Contract!Remove(k)
  BY <1>2 DEF Memory!Remove, Memory!Erase, Memory!Contract!Remove
<1>3. ASSUME NEW k \in Keys, Memory!Dereference(k)
      PROVE  Memory!Contract!Dereference(k)
  <2>1. Memory!References[k] = cacheMap[k] /\ cacheMap[k] \in Nat /\ cacheMap[k] > 0
    BY <1>3 DEF Memory!Dereference
  <2>2. CASE cacheMap[k] = 1
    <3>1. /\ DOMAIN cacheMap' = DOMAIN cacheMap \ {k}
          /\ \A q \in DOMAIN cacheMap \ {k} : cacheMap'[q] = cacheMap[q]
      BY <1>3, <2>2 DEF Memory!Dereference, Memory!Erase
    <3>2. Memory!References' = [Memory!References EXCEPT ![k] = 0]
      BY <3>1
    <3>3. Memory!References[k] - 1 = 0 /\ Memory!References[k] > 0
      BY <2>1, <2>2
    <3> HIDE DEF Memory!References
    <3>4. QED
      BY <3>2, <3>3 DEF Memory!Contract!Dereference
  <2>3. CASE cacheMap[k] # 1
    <3>1. /\ DOMAIN cacheMap' = DOMAIN cacheMap
          /\ \A q \in DOMAIN cacheMap \ {k} : cacheMap'[q] = cacheMap[q]
          /\ cacheMap'[k] = Memory!References[k] - 1
      BY <1>3, <2>1, <2>3 DEF Memory!Dereference, Memory!Store
    <3>2. QED
      BY <1>3, <2>1, <3>1 DEF Memory!Dereference, Memory!Contract!Dereference
  <2>4. QED
    BY <2>2, <2>3
<1>4. ASSUME NEW k \in Keys, NEW t \in Threads, Memory!Get(t, k)
      PROVE  UNCHANGED Memory!References
  BY <1>4 DEF Memory!Get
<1>5. CASE UNCHANGED memVars
  BY <1>5 DEF memVars
<1>6. QED
  BY <1>1, <1>2, <1>3, <1>4, <1>5, MemoryStepCases DEF Memory!Contract!Next

(* The memory tier implements Storage.                                     *)
THEOREM MemoryImplementsStorage == MemorySpec => ContractSpec
<1>1. MemoryInv /\ [MemoryNext]_allVars => [Memory!Contract!Next]_Memory!References
  BY MemoryReferencesStep
<1>2. QED
  BY <1>1, MemoryStart, MemoryInvariant, PTL
     DEF MemorySpec, ContractSpec, Memory!ContractSpec, Memory!Contract!Spec
=============================================================================
