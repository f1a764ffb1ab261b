-------------------------- MODULE StorageMgrProofs --------------------------
(***************************************************************************)
(* Proofs about StorageMgr, for any finite set of threads and any keys.    *)
(* IInv is shown inductive part by part; at the centre are the counts:     *)
(* each tier's, less what the call under way has added (MemCount, DiskCount*)
(* and CloudCount), changes only when a call returns, for all tiers at once*)
(* (ReleaseSettles), and when the daemon dies (CrashCounts).               *)
(***************************************************************************)
EXTENDS StorageMgr, FiniteSetTheorems, TLAPS

(* The initial state has the types of all four modules. *)
LEMMA InitType == Init => TypeOK
  BY MgrBoundsAssumption DEF Init, TypeOK, Mem!Init, Disk!Init, Cloud!Init, Mem!TypeOK, Disk!TypeOK,
     Cloud!CloudTypeOK, Mem!Answers, Disk!Answers, Cloud!Answers, Disk!FileStates, Disk!Steps,
     Disk!AbortSites, Disk!NoFile, Cloud!Bodies, Cloud!Objects, Cloud!Steps, Cloud!NoObject, PCs, Ops

(* A call of the memory tier keeps its types, and leaves no entry with a   *)
(* count of zero.                                                          *)
LEMMA MemTypeStep ==
  ASSUME Mem!TypeOK, Mem!NoDeadEntry, NEW t \in Threads, NEW k \in Keys,
         Mem!Put(k) \/ Mem!Get(t, k) \/ Mem!Dereference(k)
  PROVE  Mem!TypeOK' /\ Mem!NoDeadEntry'
<1> USE DEF Mem!TypeOK, Mem!NoDeadEntry, Mem!Cached, Mem!Store, Mem!Erase
<1>1. CASE Mem!Put(k)
  BY <1>1 DEF Mem!Put
<1>2. CASE Mem!Get(t, k)
  BY <1>2 DEF Mem!Get, Mem!Answers
<1>3. CASE Mem!Dereference(k)
  <2>1. CASE cacheMap[k] = 1
    BY <1>3, <2>1 DEF Mem!Dereference
  <2>2. CASE cacheMap[k] # 1
    <3>1. cacheMap[k] - 1 \in Nat /\ cacheMap[k] - 1 > 0
      BY <1>3, <2>2 DEF Mem!Dereference
    <3>2. QED
      BY <1>3, <2>2, <3>1 DEF Mem!Dereference
  <2>3. QED
    BY <2>1, <2>2
<1>4. QED
  BY <1>1, <1>2, <1>3

(* A call of the disk tier, or a step within one, keeps its types. *)
LEMMA DiskTypeStep ==
  ASSUME Disk!TypeOK, NEW t \in Threads, NEW k \in Keys,
         Disk!Put(t, k) \/ Disk!Get(t, k) \/ Disk!DereferenceOpen(t, k) \/ Disk!Step(t)
  PROVE  Disk!TypeOK'
<1> USE DEF Disk!TypeOK, Disk!FileStates, Disk!Steps, Disk!AbortSites, Disk!Answers, Disk!Goto, Disk!Leave
<1>1. CASE Disk!PutOpen(t, k)
  BY <1>1 DEF Disk!PutOpen, Disk!AfterHeader
<1>2. CASE Disk!PutCreate(t, k)
  BY <1>2 DEF Disk!PutCreate
<1>3. CASE Disk!Get(t, k)
  BY <1>3 DEF Disk!Get, Disk!GetMiss, Disk!GetHit, Disk!GetAborts
<1>4. CASE Disk!DereferenceOpen(t, k)
  BY <1>4 DEF Disk!DereferenceOpen, Disk!AfterHeader
<1>5. CASE Disk!PutBump(t)
  BY <1>5 DEF Disk!PutBump, Disk!FileWith
<1>6. CASE Disk!PutHead(t)
  BY <1>6 DEF Disk!PutHead
<1>7. CASE Disk!PutBody(t)
  BY <1>7 DEF Disk!PutBody
<1>8. CASE Disk!PutBodyShort(t)
  BY <1>8 DEF Disk!PutBodyShort
<1>9. CASE Disk!DereferenceWrite(t)
  BY <1>9 DEF Disk!DereferenceWrite, Disk!FileWith, Disk!NoFile
<1>10. CASE Disk!PutHeadShort(t)
  BY <1>10 DEF Disk!PutHeadShort
<1>11. QED
  BY <1>1, <1>2, <1>3, <1>4, <1>5, <1>6, <1>7, <1>8, <1>9, <1>10 DEF Disk!Put, Disk!Step

(* A call of the cloud tier, or a request within one, keeps its types. *)
LEMMA CloudTypeStep ==
  ASSUME Cloud!CloudTypeOK, NEW t \in Threads, NEW k \in Keys,
         Cloud!PutHead(t, k) \/ Cloud!Get(t, k) \/ Cloud!Fetch(t, k) \/ Cloud!Step(t)
  PROVE  Cloud!CloudTypeOK'
<1> USE MgrBoundsAssumption DEF Cloud!CloudTypeOK
<1>1. Cloud!NewObject(t) \in Cloud!Objects /\ Cloud!OldObject(t) \in Cloud!Objects
  BY DEF Cloud!NewObject, Cloud!OldObject, Cloud!Objects, Cloud!Bodies
<1>2. Cloud!NoObject \in Cloud!Objects
  BY DEF Cloud!NoObject, Cloud!Objects, Cloud!Bodies
<1>3. ckey[t] \in Keys
  OBVIOUS
<1>4. object[k].ref \in Int /\ object[k].body \in Cloud!Bodies
  BY DEF Cloud!Objects
<1> USE DEF Cloud!Steps, Cloud!Answers, Cloud!Bodies, Cloud!Goto, Cloud!Leave,
            Cloud!Found, Cloud!NotFound, Cloud!Fault, Cloud!Becomes, Cloud!ChangeFails
<1>5. CASE Cloud!PutHead(t, k)
  BY <1>4, <1>5 DEF Cloud!PutHead
<1>6. CASE Cloud!Get(t, k)
  BY <1>4, <1>6 DEF Cloud!Get
<1>7. CASE Cloud!Fetch(t, k)
  BY <1>4, <1>7 DEF Cloud!Fetch
<1>8. CASE Cloud!Upload(t) \/ Cloud!UploadFails(t)
  BY <1>1, <1>3, <1>8 DEF Cloud!Upload, Cloud!UploadFails
<1>9. CASE Cloud!Confirm(t)
  BY <1>3, <1>9 DEF Cloud!Confirm
<1>10. CASE Cloud!Delete(t)
  BY <1>2, <1>3, <1>10 DEF Cloud!Delete
<1>11. CASE Cloud!StoreBack(t) \/ Cloud!StoreBackFails(t)
  BY <1>1, <1>3, <1>11 DEF Cloud!StoreBack, Cloud!StoreBackFails
<1>12. QED
  BY <1>5, <1>6, <1>7, <1>8, <1>9, <1>10, <1>11 DEF Cloud!Step

(* A remove under way has a fingerprint to give back, so the count of      *)
(* fingerprints it lowers when it returns is positive.                     *)
LEMMA RemoveHasReference ==
  ASSUME TypeOK, RemovesInv, NEW t \in Threads, pc[t] # "idle", op[t] = "remove"
  PROVE  fpRefs[key[t]] > 0
<1> DEFINE S == In("remove", key[t])
<1>1. S \subseteq Threads /\ t \in S
  BY DEF In
<1>2. IsFiniteSet(S)
  BY <1>1, FS_Subset, MgrThreadAssumption
<1>3. Cardinality(S) \in Nat /\ Cardinality(S) # 0
  BY <1>1, <1>2, FS_CardinalityType, FS_EmptySet
<1>4. key[t] \in Keys /\ fpRefs[key[t]] \in Nat
  BY DEF TypeOK
<1>5. QED
  BY <1>3, <1>4 DEF RemovesInv

(* Every step of the manager, a death included, keeps the types. *)
LEMMA TypeStep ==
  ASSUME TypeOK, Mem!NoDeadEntry, RemovesInv, [Next]_vars
  PROVE  TypeOK' /\ Mem!NoDeadEntry'
<1> USE DEF TypeOK, At, Goto, PCs, memVars, diskVars, cloudVars, callVars
<1>1. /\ UNCHANGED memVars => Mem!TypeOK' /\ Mem!NoDeadEntry'
      /\ UNCHANGED diskVars => Disk!TypeOK'
      /\ UNCHANGED cloudVars => Cloud!CloudTypeOK'
  BY DEF Mem!TypeOK, Mem!NoDeadEntry, Disk!TypeOK, Cloud!CloudTypeOK
<1>2. ASSUME NEW t \in Threads, NEW o \in Ops, NEW k \in Keys, Call(t, o, k)
      PROVE  TypeOK' /\ Mem!NoDeadEntry'
  BY <1>1, <1>2 DEF Call
<1>3. ASSUME NEW t \in Threads, MgrAcquire(t)
      PROVE  TypeOK' /\ Mem!NoDeadEntry'
  BY <1>1, <1>3 DEF MgrAcquire
<1>4. ASSUME NEW t \in Threads, MemPut(t) \/ MemGet(t) \/ MemRemove(t)
      PROVE  TypeOK' /\ Mem!NoDeadEntry'
  <2>1. \/ Mem!Put(key[t]) \/ Mem!Get(t, key[t]) \/ Mem!Dereference(key[t])
        \/ UNCHANGED memVars
    BY <1>4 DEF MemPut, MemGet, MemRemove
  <2>2. Mem!TypeOK' /\ Mem!NoDeadEntry'
    BY <1>1, <2>1, MemTypeStep
  <2>3. UNCHANGED <<diskVars, cloudVars, mgrLock, callVars, fpRefs, crashes>>
    BY <1>4 DEF MemPut, MemGet, MemRemove
  <2>4. pc' \in [Threads -> PCs]
    BY <1>4 DEF MemPut, MemGet, MemRemove
  <2>5. QED
    BY <1>1, <2>2, <2>3, <2>4
<1>5. ASSUME NEW t \in Threads, DiskEnter(t) \/ DiskStep(t)
      PROVE  TypeOK' /\ Mem!NoDeadEntry'
  <2>1. Disk!TypeOK'
    BY <1>5, DiskTypeStep DEF DiskEnter, DiskStep
  <2>2. QED
    BY <1>1, <1>5, <2>1 DEF DiskEnter, DiskStep
<1>6. ASSUME NEW t \in Threads, CloudEnter(t) \/ CloudStep(t)
      PROVE  TypeOK' /\ Mem!NoDeadEntry'
  <2>1. Cloud!CloudTypeOK'
    BY <1>6, CloudTypeStep DEF CloudEnter, CloudStep
  <2>2. QED
    BY <1>1, <1>6, <2>1 DEF CloudEnter, CloudStep
<1>7. ASSUME NEW t \in Threads, MgrRelease(t)
      PROVE  TypeOK' /\ Mem!NoDeadEntry'
  <2>1. Mem!TypeOK' /\ Mem!NoDeadEntry' /\ Disk!TypeOK' /\ Cloud!CloudTypeOK'
    BY <1>7 DEF MgrRelease, ForgetAnswers, Mem!TypeOK, Mem!NoDeadEntry, Disk!TypeOK, Cloud!CloudTypeOK,
                Mem!Answers, Disk!Answers, Cloud!Answers
  <2>2. fpRefs' \in [Keys -> Nat]
    <3>1. op[t] = "remove" => fpRefs[key[t]] > 0
      BY <1>7, RemoveHasReference DEF MgrRelease
    <3>2. fpRefs[key[t]] + Change(op[t]) \in Nat
      BY <3>1 DEF Change
    <3>3. QED
      BY <1>7, <3>2 DEF MgrRelease
  <2>3. QED
    BY <1>7, <2>1, <2>2 DEF MgrRelease, ForgetAnswers
<1>8. CASE Crash
  <2>1. Mem!TypeOK' /\ Mem!NoDeadEntry'
    BY <1>8 DEF Crash, Mem!Restart, Mem!TypeOK, Mem!NoDeadEntry, Mem!Answers
  <2>2. Disk!TypeOK'
    BY <1>8 DEF Crash, Disk!Restart, Disk!TypeOK, Disk!Steps, Disk!Answers
  <2>3. Cloud!CloudTypeOK'
    BY <1>8 DEF Crash, Cloud!Restart, Cloud!CloudTypeOK, Cloud!Steps, Cloud!Answers, Cloud!Bodies
  <2>4. crashes' \in 0..MaxCrashes
    BY <1>8, MgrBoundsAssumption DEF Crash
  <2>5. QED
    BY <1>8, <2>1, <2>2, <2>3, <2>4 DEF Crash
<1>9. CASE UNCHANGED vars
  BY <1>1, <1>9 DEF vars
<1>10. QED
  BY <1>2, <1>3, <1>4, <1>5, <1>6, <1>7, <1>8, <1>9 DEF Next, Step

(* mgrLock excludes the calls from one another: no step lets a second      *)
(* thread past it, or leaves a tier busy with a call that is elsewhere.    *)
LEMMA CallsStep ==
  ASSUME TypeOK, CallsInv, [Next]_vars
  PROVE  CallsInv'
<1> USE MgrThreadAssumption DEF TypeOK, CallsInv, At, Goto, PCs, memVars, diskVars, cloudVars, callVars
<1>1. ASSUME NEW t \in Threads, NEW o \in Ops, NEW k \in Keys, Call(t, o, k)
      PROVE  CallsInv'
  BY <1>1 DEF Call
<1>2. ASSUME NEW t \in Threads, MgrAcquire(t)
      PROVE  CallsInv'
  BY <1>2 DEF MgrAcquire
<1>3. ASSUME NEW t \in Threads, MemPut(t) \/ MemGet(t) \/ MemRemove(t)
      PROVE  CallsInv'
  BY <1>3 DEF MemPut, MemGet, MemRemove
<1>4. ASSUME NEW t \in Threads, DiskEnter(t)
      PROVE  CallsInv'
  <2>1. /\ \A u \in Threads \ {t} : dpc'[u] = dpc[u] /\ dkey'[u] = dkey[u]
        /\ dpc'[t] # "idle" => dkey'[t] = key[t]
    BY <1>4 DEF DiskEnter, Disk!TypeOK, Disk!Put, Disk!PutOpen, Disk!PutCreate, Disk!Get, Disk!GetMiss,
       Disk!GetHit, Disk!GetAborts, Disk!DereferenceOpen, Disk!Enter, Disk!Goto
  <2>2. QED
    BY <1>4, <2>1 DEF DiskEnter
<1>5. ASSUME NEW t \in Threads, DiskStep(t)
      PROVE  CallsInv'
  <2>1. /\ \A u \in Threads \ {t} : dpc'[u] = dpc[u] /\ dkey'[u] = dkey[u]
        /\ dkey'[t] = dkey[t] /\ dpc[t] # "idle"
    BY <1>5 DEF DiskStep, Disk!TypeOK, Disk!Step, Disk!PutBump, Disk!PutHead, Disk!PutHeadShort, Disk!PutBody,
       Disk!PutBodyShort, Disk!DereferenceWrite, Disk!Goto, Disk!Leave
  <2>2. QED
    BY <1>5, <2>1 DEF DiskStep
<1>6. ASSUME NEW t \in Threads, CloudEnter(t)
      PROVE  CallsInv'
  <2>1. /\ \A u \in Threads \ {t} : cpc'[u] = cpc[u] /\ ckey'[u] = ckey[u]
        /\ cpc'[t] # "idle" => ckey'[t] = key[t]
    BY <1>6 DEF CloudEnter, Cloud!CloudTypeOK, Cloud!PutHead, Cloud!Get, Cloud!Fetch, Cloud!Enter, Cloud!Goto
  <2>2. QED
    BY <1>6, <2>1 DEF CloudEnter
<1>7. ASSUME NEW t \in Threads, CloudStep(t)
      PROVE  CallsInv'
  <2>1. /\ \A u \in Threads \ {t} : cpc'[u] = cpc[u] /\ ckey'[u] = ckey[u]
        /\ ckey'[t] = ckey[t] /\ cpc[t] # "idle"
    BY <1>7 DEF CloudStep, Cloud!CloudTypeOK, Cloud!Step, Cloud!Upload, Cloud!UploadFails, Cloud!Confirm,
       Cloud!Delete, Cloud!StoreBack, Cloud!StoreBackFails, Cloud!ChangeFails, Cloud!Goto, Cloud!Leave
  <2>2. QED
    BY <1>7, <2>1 DEF CloudStep
<1>8. ASSUME NEW t \in Threads, MgrRelease(t)
      PROVE  CallsInv'
  BY <1>8 DEF MgrRelease, ForgetAnswers
<1>9. CASE Crash
  <2>1. \A t \in Threads : cpc'[t] = "idle"
    BY <1>9 DEF Crash, Cloud!Restart
  <2>2. QED
    BY <1>9, <2>1 DEF Crash, Disk!Restart
<1>10. CASE UNCHANGED vars
  BY <1>10 DEF vars
<1>11. QED
  BY <1>1, <1>2, <1>3, <1>4, <1>5, <1>6, <1>7, <1>8, <1>9, <1>10 DEF Next, Step

(* Callers and returns keep a fingerprint for every remove under way. *)
LEMMA RemovesStep ==
  ASSUME TypeOK, CallsInv, RemovesInv, [Next]_vars
  PROVE  RemovesInv'
<1> SUFFICES ASSUME NEW k \in Keys
             PROVE  Cardinality(In("remove", k)') <= fpRefs'[k]
  BY DEF RemovesInv
<1> DEFINE S == In("remove", k)
           T == In("remove", k)'
<1>1. /\ IsFiniteSet(S) /\ Cardinality(S) \in Nat
      /\ Cardinality(S) <= fpRefs[k] /\ fpRefs[k] \in Nat
  <2>1. S \subseteq Threads
    BY DEF In
  <2>2. QED
    BY <2>1, FS_Subset, FS_CardinalityType, MgrThreadAssumption DEF RemovesInv, TypeOK
<1>2. ASSUME T = S, fpRefs' = fpRefs
      PROVE  Cardinality(T) <= fpRefs'[k]
  BY <1>1, <1>2
<1> USE DEF TypeOK, At, Goto, callVars
<1>3. ASSUME NEW t \in Threads, NEW o \in Ops, NEW q \in Keys, Call(t, o, q)
      PROVE  Cardinality(T) <= fpRefs'[k]
  <2>1. t \notin S /\ fpRefs' = fpRefs
    BY <1>3 DEF Call, In
  <2>2. CASE o = "remove" /\ q = k
    <3>1. T = S \union {t}
      BY <1>3, <2>2 DEF Call, In
    <3>2. Cardinality(T) = Cardinality(S) + 1
      BY <1>1, <2>1, <3>1, FS_AddElement
    <3>3. QED
      BY <1>1, <1>3, <2>1, <2>2, <3>2 DEF Call
  <2>3. CASE ~(o = "remove" /\ q = k)
    <3>1. T = S
      BY <1>3, <2>1, <2>3 DEF Call, In
    <3>2. QED
      BY <1>2, <2>1, <3>1
  <2>4. QED
    BY <2>2, <2>3
<1>4. ASSUME NEW t \in Threads, MgrRelease(t)
      PROVE  Cardinality(T) <= fpRefs'[k]
  <2>1. CASE op[t] = "remove" /\ key[t] = k
    <3>1. T = S \ {t} /\ t \in S
      BY <1>4, <2>1 DEF MgrRelease, In
    <3>2. Cardinality(T) = Cardinality(S) - 1
      BY <1>1, <3>1, FS_RemoveElement
    <3>3. fpRefs'[k] = fpRefs[k] - 1
      BY <1>1, <1>4, <2>1 DEF MgrRelease, Change
    <3>4. QED
      BY <1>1, <3>2, <3>3
  <2>2. CASE ~(op[t] = "remove" /\ key[t] = k)
    <3>1. T = S
      BY <1>4, <2>2 DEF MgrRelease, In
    <3>2. fpRefs'[k] >= fpRefs[k] /\ fpRefs'[k] \in Nat
      BY <1>1, <1>4, <2>2 DEF MgrRelease, Change
    <3>3. QED
      BY <1>1, <3>1, <3>2
  <2>3. QED
    BY <2>1, <2>2
<1>5. ASSUME NEW t \in Threads,
             \/ MgrAcquire(t) \/ MemPut(t) \/ MemGet(t) \/ MemRemove(t)
             \/ DiskEnter(t) \/ DiskStep(t) \/ CloudEnter(t) \/ CloudStep(t)
      PROVE  Cardinality(T) <= fpRefs'[k]
  <2>1. /\ pc[t] # "idle" /\ \E s \in PCs \ {"idle"} : pc' = [pc EXCEPT ![t] = s]
        /\ op' = op /\ key' = key /\ fpRefs' = fpRefs
    BY <1>5 DEF MgrAcquire, MemPut, MemGet, MemRemove, DiskEnter, DiskStep, CloudEnter, CloudStep, PCs
  <2>2. T = S
    BY <2>1 DEF In
  <2>3. QED
    BY <1>2, <2>1, <2>2
<1>6. CASE Crash
  <2>1. T = {} /\ fpRefs' = fpRefs
    BY <1>6 DEF Crash, In
  <2>2. QED
    BY <1>1, <2>1, FS_EmptySet
<1>7. CASE UNCHANGED vars
  <2>1. T = S /\ fpRefs' = fpRefs
    BY <1>7 DEF vars, In
  <2>2. QED
    BY <1>2, <2>1
<1>8. QED
  BY <1>3, <1>4, <1>5, <1>6, <1>7 DEF Next, Step

(* While a thread is past acquiring mgrLock no other is within a tier. *)
LEMMA OthersIdle ==
  ASSUME TypeOK, CallsInv, NEW t \in Threads, pc[t] \notin {"idle", "mgr"},
         NEW u \in Threads, u # t
  PROVE  pc[u] \in {"idle", "mgr"} /\ dpc[u] = "idle" /\ cpc[u] = "idle"
  BY DEF TypeOK, CallsInv

(* What a call in the disk tier read or wrote stays what is in the file,   *)
(* through every step and through deaths.                                  *)
LEMMA DiskStepInv ==
  ASSUME TypeOK, CallsInv, DiskInv, [Next]_vars
  PROVE  DiskInv'
<1> USE DEF DiskInv, At, Goto, Disk!CountsPositive, Disk!HasHeader, diskVars, callVars
<1>1. \A u \in Threads : key[u] \in Keys
  BY DEF TypeOK
<1>2. \A k \in Keys : file[k].ref \in Nat
  BY DEF TypeOK, Disk!TypeOK
<1>3. ASSUME NEW t \in Threads, NEW o \in Ops, NEW k \in Keys, Call(t, o, k)
      PROVE  DiskInv'
  BY <1>3 DEF Call, CallsInv, TypeOK
<1>4. ASSUME NEW t \in Threads,
             \/ MgrAcquire(t) \/ MemPut(t) \/ MemGet(t) \/ MemRemove(t)
             \/ CloudEnter(t) \/ CloudStep(t)
      PROVE  DiskInv'
  BY <1>4 DEF MgrAcquire, MemPut, MemGet, MemRemove, CloudEnter, CloudStep
<1>5. ASSUME NEW t \in Threads, DiskEnter(t)
      PROVE  DiskInv'
  <2>1. /\ pc[t] = "disk" /\ dpc[t] = "idle"
        /\ op' = op /\ key' = key /\ Disk!TypeOK
        /\ \A u \in Threads \ {t} : dpc[u] = "idle"
    BY <1>5, OthersIdle DEF DiskEnter, Disk!Put, Disk!PutOpen, Disk!PutCreate, Disk!Get, Disk!GetMiss,
       Disk!GetHit, Disk!GetAborts, Disk!DereferenceOpen, Disk!Enter, TypeOK
  <2>2. CASE op[t] = "put" /\ Disk!PutOpen(t, key[t])
    BY <1>1, <1>2, <2>1, <2>2 DEF Disk!TypeOK, Disk!PutOpen, Disk!Goto, Disk!AfterHeader
  <2>3. CASE op[t] = "put" /\ Disk!PutCreate(t, key[t])
    BY <1>1, <1>2, <2>1, <2>3 DEF Disk!TypeOK, Disk!PutCreate, Disk!Goto
  <2>4. CASE op[t] = "get" /\ Disk!Get(t, key[t])
    BY <1>1, <1>2, <2>1, <2>4 DEF Disk!TypeOK, Disk!Get, Disk!GetMiss, Disk!GetHit, Disk!GetAborts, Disk!Goto
  <2>5. CASE op[t] = "remove" /\ Disk!DereferenceOpen(t, key[t])
    BY <1>1, <1>2, <2>1, <2>5 DEF Disk!TypeOK, Disk!DereferenceOpen, Disk!Goto, Disk!AfterHeader
  <2>6. QED
    BY <1>5, <2>2, <2>3, <2>4, <2>5 DEF DiskEnter, Disk!Put
<1>6. ASSUME NEW t \in Threads, DiskStep(t)
      PROVE  DiskInv'
  <2>1. /\ pc[t] = "disk" /\ dpc[t] # "idle" /\ dkey[t] = key[t]
        /\ op' = op /\ key' = key /\ Disk!TypeOK
        /\ \A u \in Threads \ {t} : dpc[u] = "idle"
    BY <1>6, OthersIdle DEF DiskStep, Disk!Step, Disk!PutBump, Disk!PutHead, Disk!PutHeadShort, Disk!PutBody, Disk!PutBodyShort,
       Disk!DereferenceWrite, CallsInv, TypeOK
  <2>2. CASE Disk!PutBump(t)
    BY <1>1, <1>2, <2>1, <2>2 DEF Disk!TypeOK, Disk!PutBump, Disk!FileWith, Disk!Leave
  <2>3. CASE Disk!PutHead(t)
    BY <1>1, <1>2, <2>1, <2>3 DEF Disk!TypeOK, Disk!PutHead, Disk!Goto
  <2>4. CASE Disk!PutBody(t)
    BY <1>1, <1>2, <2>1, <2>4 DEF Disk!TypeOK, Disk!PutBody, Disk!Leave
  <2>5. CASE Disk!PutBodyShort(t)
    BY <1>1, <1>2, <2>1, <2>5 DEF Disk!TypeOK, Disk!PutBodyShort, Disk!Goto
  <2>6. CASE Disk!DereferenceWrite(t)
    BY <1>1, <1>2, <2>1, <2>6 DEF Disk!TypeOK, Disk!DereferenceWrite, Disk!FileWith, Disk!NoFile, Disk!Leave
  <2>7. CASE Disk!PutHeadShort(t)
    BY <1>1, <1>2, <2>1, <2>7 DEF Disk!TypeOK, Disk!PutHeadShort, Disk!Goto
  <2>8. QED
    BY <1>6, <2>2, <2>3, <2>4, <2>5, <2>6, <2>7 DEF DiskStep, Disk!Step
<1>7. ASSUME NEW t \in Threads, MgrRelease(t)
      PROVE  DiskInv'
  BY <1>7 DEF MgrRelease, ForgetAnswers, CallsInv, TypeOK
<1>8. CASE Crash
  BY <1>8 DEF Crash, Disk!Restart
<1>9. CASE UNCHANGED vars
  BY <1>9 DEF vars
<1>10. QED
  BY <1>3, <1>4, <1>5, <1>6, <1>7, <1>8, <1>9 DEF Next, Step

(* Mem!Put adds one to the count of its key and changes no other. *)
LEMMA RefAfterPut ==
  ASSUME Mem!TypeOK, NEW k \in Keys, Mem!Put(k)
  PROVE  \A q \in Keys : Mem!Ref(q)' = IF q = k THEN Mem!Ref(q) + 1 ELSE Mem!Ref(q)
  BY DEF Mem!TypeOK, Mem!Put, Mem!Store, Mem!Ref, Mem!Cached

(* Mem!Dereference takes one from the count of its key and changes no      *)
(* other.                                                                  *)
LEMMA RefAfterDereference ==
  ASSUME Mem!TypeOK, NEW k \in Keys, Mem!Dereference(k)
  PROVE  \A q \in Keys : Mem!Ref(q)' = IF q = k THEN Mem!Ref(q) - 1 ELSE Mem!Ref(q)
<1> USE DEF Mem!TypeOK, Mem!Dereference, Mem!Ref, Mem!Cached
<1>1. CASE cacheMap[k] = 1
  BY <1>1 DEF Mem!Erase
<1>2. CASE cacheMap[k] # 1
  BY <1>2 DEF Mem!Store
<1>3. QED
  BY <1>1, <1>2

(* The counts of the three tiers, and what a call under way has added to   *)
(* them, are integers.                                                     *)
LEMMA CountTypes ==
  ASSUME TypeOK, NEW k \in Keys
  PROVE  /\ Mem!Ref(k) \in Nat /\ file[k].ref \in Nat /\ object[k].ref \in Int /\ fpRefs[k] \in Nat
         /\ InHand(k, MemDone) \in -1..1 /\ InHand(k, DiskDone) \in -1..1 /\ InHand(k, CloudDone) \in -1..1
         /\ MemCount(k) \in Int /\ DiskCount(k) \in Int /\ CloudCount(k) \in Int
<1>1. Mem!Ref(k) \in Nat /\ file[k].ref \in Nat /\ object[k].ref \in Int /\ fpRefs[k] \in Nat
  BY DEF TypeOK, Mem!TypeOK, Disk!TypeOK, Cloud!CloudTypeOK, Cloud!Objects, Mem!Ref, Mem!Cached
<1>2. InHand(k, MemDone) \in -1..1 /\ InHand(k, DiskDone) \in -1..1 /\ InHand(k, CloudDone) \in -1..1
  BY DEF InHand, Change
<1>3. QED
  BY <1>1, <1>2 DEF MemCount, DiskCount, CloudCount

(* Within a call the count in memory, less what the call has added, does   *)
(* not change: put and remove change it in the very step after which they  *)
(* are counted as having done so.                                          *)
LEMMA MemCountStable ==
  ASSUME TypeOK, CallsInv, Mem!NoDeadEntry, NEW t \in Threads, Step(t), ~MgrRelease(t), NEW k \in Keys
  PROVE  MemCount(k)' = MemCount(k)
<1> USE DEF At, Goto, memVars, callVars, MemCount, InHand, MemDone, Change
<1>1. key[t] \in Keys /\ t # NoThread /\ mgrLock \in Threads \union {NoThread} /\ pc \in [Threads -> PCs]
  BY MgrThreadAssumption DEF TypeOK
<1>2. Mem!Ref(k) \in Nat
  BY CountTypes
<1>3. UNCHANGED cacheMap => Mem!Ref(k)' = Mem!Ref(k)
  BY DEF Mem!Ref, Mem!Cached
<1>4. pc[t] \notin {"idle", "mgr"} => mgrLock = t
  BY DEF CallsInv
<1>5. CASE MgrAcquire(t)
  BY <1>1, <1>2, <1>3, <1>5 DEF MgrAcquire
<1>6. CASE MemPut(t)
  BY <1>1, <1>2, <1>4, <1>6, RefAfterPut DEF MemPut, TypeOK
<1>7. CASE MemGet(t)
  BY <1>1, <1>2, <1>3, <1>4, <1>7 DEF MemGet, Mem!Get
<1>8. CASE MemRemove(t)
  BY <1>1, <1>2, <1>3, <1>4, <1>8, RefAfterDereference DEF MemRemove, TypeOK
<1>9. CASE DiskEnter(t) \/ DiskStep(t)
  BY <1>1, <1>2, <1>3, <1>4, <1>9 DEF DiskEnter, DiskStep
<1>10. CASE CloudEnter(t) \/ CloudStep(t)
  BY <1>1, <1>2, <1>3, <1>4, <1>10 DEF CloudEnter, CloudStep
<1>11. QED
  BY <1>5, <1>6, <1>7, <1>8, <1>9, <1>10 DEF Step

(* The same of the disk tier, in which a put or a remove takes several     *)
(* steps.                                                                  *)
LEMMA DiskCountStable ==
  ASSUME TypeOK, CallsInv, DiskInv, NEW t \in Threads, Step(t), ~MgrRelease(t), NEW k \in Keys
  PROVE  DiskCount(k)' = DiskCount(k)
<1> USE DEF At, Goto, diskVars, callVars, DiskCount, InHand, DiskDone, Change
<1>1. /\ key[t] \in Keys /\ t # NoThread /\ mgrLock \in Threads \union {NoThread} /\ pc \in [Threads -> PCs]
      /\ file \in [Keys -> [st : Disk!FileStates, ref : Nat]] /\ dpc \in [Threads -> Disk!Steps \cup Disk!AbortSites]
  BY MgrThreadAssumption DEF TypeOK, Disk!TypeOK
<1>2. file[k].ref \in Nat /\ file[key[t]].ref \in Nat
  BY <1>1
<1>4. pc[t] \notin {"idle", "mgr"} => mgrLock = t
  BY DEF CallsInv
<1>5. CASE MgrAcquire(t)
  BY <1>1, <1>2, <1>5 DEF MgrAcquire
<1>6. CASE MemPut(t) \/ MemGet(t) \/ MemRemove(t)
  <2>1. dpc[t] = "idle" /\ mgrLock = t /\ UNCHANGED <<file, dpc, mgrLock, op, key>>
    BY <1>4, <1>6 DEF MemPut, MemGet, MemRemove, CallsInv
  <2>2. \E s \in {"disk", "exit", "abort"} :
          pc' = [pc EXCEPT ![t] = s] /\ (s = "exit" => op[t] = "get")
    BY <1>6 DEF MemPut, MemGet, MemRemove
  <2>3. QED
    BY <1>1, <1>2, <1>6, <2>1, <2>2 DEF MemPut, MemGet, MemRemove
<1>7. CASE DiskEnter(t)
  <2> USE <1>1, <1>2, <1>4, <1>7 DEF DiskEnter, Disk!Enter, Disk!Goto
  <2>1. CASE op[t] = "put" /\ Disk!PutOpen(t, key[t])
    BY <2>1 DEF Disk!PutOpen, Disk!AfterHeader
  <2>2. CASE op[t] = "put" /\ Disk!PutCreate(t, key[t])
    <3>1. file[key[t]].ref = 0
      BY <2>2 DEF Disk!PutCreate, Disk!Exists, Disk!HasHeader, DiskInv, Disk!CountsPositive
    <3>2. QED
      BY <2>2, <3>1 DEF Disk!PutCreate
  <2>3. CASE op[t] = "get" /\ Disk!Get(t, key[t])
    BY <2>3 DEF Disk!Get, Disk!GetMiss, Disk!GetHit, Disk!GetAborts
  <2>4. CASE op[t] = "remove" /\ Disk!DereferenceOpen(t, key[t])
    BY <2>4 DEF Disk!DereferenceOpen, Disk!AfterHeader
  <2>5. QED
    BY <2>1, <2>2, <2>3, <2>4 DEF Disk!Put
<1>8. CASE DiskStep(t)
  <2> USE <1>1, <1>2, <1>4, <1>8 DEF DiskStep, DiskInv
  <2>0. dkey[t] = key[t]
    BY DEF CallsInv, Disk!Step, Disk!PutBump, Disk!PutHead, Disk!PutHeadShort, Disk!PutBody, Disk!PutBodyShort, Disk!DereferenceWrite
  <2>1. CASE Disk!PutBump(t)
    BY <2>0, <2>1 DEF Disk!PutBump, Disk!FileWith, Disk!Leave
  <2>2. CASE Disk!PutHead(t)
    BY <2>0, <2>2 DEF Disk!PutHead, Disk!Goto
  <2>3. CASE Disk!PutBody(t)
    BY <2>0, <2>3 DEF Disk!PutBody, Disk!Leave
  <2>4. CASE Disk!PutBodyShort(t)
    BY <2>0, <2>4 DEF Disk!PutBodyShort, Disk!Goto
  <2>5. CASE Disk!DereferenceWrite(t)
    BY <2>0, <2>5 DEF Disk!DereferenceWrite, Disk!FileWith, Disk!NoFile, Disk!Leave
  <2>6. CASE Disk!PutHeadShort(t)
    BY <2>0, <2>6 DEF Disk!PutHeadShort, Disk!Goto
  <2>7. QED
    BY <2>1, <2>2, <2>3, <2>4, <2>5, <2>6 DEF Disk!Step
<1>9. CASE CloudEnter(t) \/ CloudStep(t)
  BY <1>1, <1>2, <1>4, <1>9 DEF CloudEnter, CloudStep
<1>10. QED
  BY <1>5, <1>6, <1>7, <1>8, <1>9 DEF Step

(* Requests that have failed stay failed. *)
LEMMA FaultsGrow ==
  ASSUME TypeOK, [Next]_vars, faults' = 0
  PROVE  faults = 0
<1>1. faults \in Nat
  BY MgrBoundsAssumption DEF TypeOK, Cloud!CloudTypeOK
<1>2. faults' = faults \/ faults' = faults + 1
  BY DEF Next, Step, Call, MgrAcquire, MemPut, MemGet, MemRemove, DiskEnter, DiskStep, CloudEnter, CloudStep,
     MgrRelease, ForgetAnswers, Crash, vars, cloudVars, Cloud!PutHead, Cloud!Get, Cloud!Fetch, Cloud!Step, Cloud!Upload,
     Cloud!UploadFails, Cloud!Confirm, Cloud!Delete, Cloud!StoreBack, Cloud!StoreBackFails, Cloud!Restart,
     Cloud!Found, Cloud!NotFound, Cloud!Fault
<1>3. QED
  BY <1>1, <1>2

(* The same of the cloud tier as long as requests succeed, with its part   *)
(* of the invariant.                                                       *)
LEMMA CloudStepGood ==
  ASSUME TypeOK, CallsInv, CloudInv, MemNotAhead, faults = 0, faults' = 0,
         NEW t \in Threads, CloudEnter(t) \/ CloudStep(t)
  PROVE  CloudInv' /\ \A k \in Keys : CloudCount(k)' = CloudCount(k)
<1> USE DEF At, Goto, callVars, CloudInv, CloudCount, InHand, CloudDone, Change, Cloud!NoObject
<1>1. /\ key[t] \in Keys /\ t # NoThread /\ pc[t] = "cloud" /\ mgrLock = t
      /\ pc \in [Threads -> PCs] /\ cpc \in [Threads -> Cloud!Steps] /\ cref \in [Threads -> Int]
      /\ cbody \in [Threads -> Cloud!Bodies]
      /\ object \in [Keys -> Cloud!Objects] /\ \A k \in Keys : object[k].ref \in Int
      /\ mgrLock' = mgrLock /\ op' = op /\ key' = key
  BY MgrThreadAssumption
     DEF TypeOK, Cloud!CloudTypeOK, Cloud!Objects, CallsInv, CloudEnter, CloudStep
<1>2. \A u \in Threads \ {t} : cpc[u] = "idle" /\ pc[u] \in {"idle", "mgr"}
  BY <1>1, OthersIdle
<1>3. ~Cloud!Fault
  BY DEF Cloud!Fault
<1>4. CASE CloudEnter(t)
  <2> USE <1>1, <1>2, <1>3, <1>4 DEF CloudEnter, Cloud!Enter, Cloud!Goto, Cloud!Found, Cloud!NotFound, Cloud!Exists
  <2>1. CASE op[t] = "put" /\ Cloud!PutHead(t, key[t])
    BY <2>1 DEF Cloud!PutHead
  <2>2. CASE op[t] = "get" /\ Cloud!Get(t, key[t])
    BY <2>2 DEF Cloud!Get
  <2>3. CASE op[t] = "remove" /\ Cloud!Fetch(t, key[t])
    <3>1. object[key[t]].ref > 0 /\ object[key[t]].body = "good"
      <4>1. MemCount(key[t]) <= CloudCount(key[t])
        BY DEF MemNotAhead
      <4>2. MemCount(key[t]) = Mem!Ref(key[t]) + 1 /\ Mem!Ref(key[t]) \in Nat
        BY <2>3, CountTypes DEF MemCount, MemDone
      <4>3. CloudCount(key[t]) = object[key[t]].ref
        BY <2>3 DEF Cloud!Fetch
      <4>4. QED
        BY <4>1, <4>2, <4>3
    <3>2. /\ object' = object /\ faults' = faults
          /\ cref' = [cref EXCEPT ![t] = object[key[t]].ref - 1]
          /\ cbody' = [cbody EXCEPT ![t] = "good"]
          /\ cpc' = [cpc EXCEPT ![t] = IF cref'[t] = 0 THEN "delete" ELSE "store"]
      BY <2>3, <3>1 DEF Cloud!Fetch
    <3>3. cref'[t] = object[key[t]].ref - 1
      BY <3>2
    <3>4. cpc' = [cpc EXCEPT ![t] = IF object[key[t]].ref = 1 THEN "delete" ELSE "store"]
      BY <3>2, <3>3
    <3>5. pc' = [pc EXCEPT ![t] = "cloud"]
      BY <3>4
    <3>6. CloudInv'
      BY <2>3, <3>1, <3>2, <3>4, <3>5
    <3>7. \A k \in Keys : CloudCount(k)' = CloudCount(k)
      BY <2>3, <3>1, <3>2, <3>4, <3>5
    <3>8. QED
      BY <3>6, <3>7
  <2>4. QED
    BY <2>1, <2>2, <2>3
<1>5. CASE CloudStep(t)
  <2>0. ckey[t] = key[t]
    BY <1>5 DEF CallsInv, CloudStep, Cloud!Step, Cloud!Upload, Cloud!UploadFails, Cloud!Confirm, Cloud!Delete,
       Cloud!StoreBack, Cloud!StoreBackFails
  <2> USE <1>1, <1>2, <1>3, <1>5, <2>0 DEF CloudStep, Cloud!Goto, Cloud!Leave, Cloud!Found, Cloud!NotFound,
          Cloud!Exists, Cloud!Becomes
  <2>1. CASE Cloud!Upload(t)
    <3>1. /\ cpc[t] = "upload" /\ op[t] = "put" /\ cref[t] = object[key[t]].ref + 1
          /\ object[key[t]].ref >= 0
      BY <2>1 DEF Cloud!Upload
    <3>2. /\ object' = [object EXCEPT ![key[t]] = [body |-> "good", ref |-> cref[t]]]
          /\ cpc' = [cpc EXCEPT ![t] = "confirm"] /\ pc' = [pc EXCEPT ![t] = "cloud"]
          /\ UNCHANGED <<cref, cbody, faults>>
      BY <2>1 DEF Cloud!Upload, Cloud!NewObject
    <3>3. CloudInv'
      BY <3>1, <3>2
    <3>4. \A k \in Keys : CloudCount(k)' = CloudCount(k)
      BY <3>1, <3>2
    <3>5. QED
      BY <3>3, <3>4
  <2>2. CASE Cloud!Confirm(t)
    BY <2>2 DEF Cloud!Confirm
  <2>3. CASE Cloud!Delete(t)
    BY <2>3 DEF Cloud!Delete
  <2>4. CASE Cloud!StoreBack(t)
    BY <2>4 DEF Cloud!StoreBack, Cloud!OldObject
  <2>5. QED
    BY <2>1, <2>2, <2>3, <2>4 DEF Cloud!Step, Cloud!UploadFails, Cloud!StoreBackFails
<1>6. QED
  BY <1>4, <1>5

(* A new call, or a step of nothing here, changes no count. *)
LEMMA OtherStepsKeepCounts ==
  ASSUME TypeOK, CallsInv, NEW k \in Keys,
         \/ UNCHANGED vars
         \/ \E t \in Threads, o \in Ops, q \in Keys : Call(t, o, q)
  PROVE  /\ MemCount(k)' = MemCount(k) /\ DiskCount(k)' = DiskCount(k) /\ CloudCount(k)' = CloudCount(k)
         /\ fpRefs' = fpRefs /\ crashes' = crashes /\ faults' = faults
<1> USE DEF MemCount, DiskCount, CloudCount, InHand, MemDone, DiskDone, CloudDone, Mem!Ref, Mem!Cached,
            memVars, diskVars, cloudVars, callVars
<1>1. CASE UNCHANGED vars
  BY <1>1 DEF vars
<1>2. ASSUME NEW t \in Threads, NEW o \in Ops, NEW q \in Keys, Call(t, o, q)
      PROVE  /\ MemCount(k)' = MemCount(k) /\ DiskCount(k)' = DiskCount(k) /\ CloudCount(k)' = CloudCount(k)
             /\ fpRefs' = fpRefs /\ crashes' = crashes /\ faults' = faults
  <2>1. mgrLock # t /\ pc \in [Threads -> PCs] /\ mgrLock \in Threads \union {NoThread}
    BY <1>2 DEF Call, At, CallsInv, TypeOK
  <2>2. mgrLock # NoThread =>
          pc'[mgrLock] = pc[mgrLock] /\ op'[mgrLock] = op[mgrLock] /\ key'[mgrLock] = key[mgrLock]
    BY <1>2, <2>1 DEF Call, Goto, TypeOK
  <2>3. QED
    BY <1>2, <2>2 DEF Call
<1>3. QED
  BY <1>1, <1>2

(* When a call returns, its change passes in one step from the call to the *)
(* counts of all three tiers and to the fingerprints of the files.         *)
LEMMA ReleaseSettles ==
  ASSUME TypeOK, CallsInv, NEW t \in Threads, MgrRelease(t), NEW k \in Keys
  PROVE  LET d == IF key[t] = k THEN Change(op[t]) ELSE 0 IN
           /\ d \in -1..1
           /\ MemCount(k)' = MemCount(k) + d
           /\ DiskCount(k)' = DiskCount(k) + d
           /\ CloudCount(k)' = CloudCount(k) + d
           /\ fpRefs'[k] = fpRefs[k] + d
           /\ crashes' = crashes /\ faults' = faults
<1>1. /\ mgrLock = t /\ t # NoThread /\ pc[t] = "exit" /\ mgrLock' = NoThread
      /\ UNCHANGED <<cacheMap, file, object, key, crashes, faults>>
      /\ fpRefs' = [fpRefs EXCEPT ![key[t]] = @ + Change(op[t])]
  BY MgrThreadAssumption DEF MgrRelease, At, ForgetAnswers, CallsInv
<1>2. Mem!Ref(k) \in Nat /\ file[k].ref \in Nat /\ object[k].ref \in Int /\ fpRefs \in [Keys -> Nat]
  BY CountTypes DEF TypeOK
<1>3. Change(op[t]) \in -1..1
  BY DEF Change
<1>4. Mem!Ref(k)' = Mem!Ref(k)
  BY <1>1 DEF Mem!Ref, Mem!Cached
<1>5. QED
  BY <1>1, <1>2, <1>3, <1>4 DEF MemCount, DiskCount, CloudCount, InHand, MemDone, DiskDone, CloudDone

(* A death empties memory; what the call under way had done in the other   *)
(* tiers stays.                                                            *)
LEMMA CrashCounts ==
  ASSUME TypeOK, Crash, NEW k \in Keys
  PROVE  /\ MemCount(k)' = 0
         /\ DiskCount(k)' = file[k].ref
         /\ CloudCount(k)' = object[k].ref
         /\ fpRefs' = fpRefs /\ faults' = faults /\ crashes' = crashes + 1
<1>1. Mem!Ref(k)' = 0 /\ file' = file /\ object' = object /\ mgrLock' = NoThread
  BY DEF Crash, Mem!Restart, Mem!Ref, Mem!Cached, Disk!Restart, Cloud!Restart
<1>2. file[k].ref \in Nat /\ object[k].ref \in Int
  BY CountTypes
<1>3. QED
  BY <1>1, <1>2 DEF MemCount, DiskCount, CloudCount, InHand, Crash, Cloud!Restart

(* Every step keeps the relations between the counts; a death, the only    *)
(* step that can pull them apart, widens the bound of DriftBounded by one. *)
LEMMA CountsStep ==
  ASSUME IInv, [Next]_vars
  PROVE  MemAgrees' /\ MemNotAhead' /\ DriftBounded'
<1> SUFFICES ASSUME NEW k \in Keys
             PROVE  /\ crashes' = 0 => MemCount(k)' = fpRefs'[k]
                    /\ MemCount(k)' <= DiskCount(k)'
                    /\ faults' = 0 => MemCount(k)' <= CloudCount(k)'
                    /\ DiskCount(k)' - fpRefs'[k] \in -crashes'..crashes'
                    /\ faults' = 0 => CloudCount(k)' - fpRefs'[k] \in -crashes'..crashes'
  BY DEF MemAgrees, MemNotAhead, DriftBounded
<1>1. /\ MemCount(k) \in Int /\ DiskCount(k) \in Int /\ CloudCount(k) \in Int
      /\ fpRefs[k] \in Nat /\ crashes \in Nat
  BY CountTypes, MgrBoundsAssumption DEF IInv, TypeOK
<1>2. /\ crashes = 0 => MemCount(k) = fpRefs[k]
      /\ MemCount(k) <= DiskCount(k)
      /\ faults = 0 => MemCount(k) <= CloudCount(k)
      /\ DiskCount(k) - fpRefs[k] \in -crashes..crashes
      /\ faults = 0 => CloudCount(k) - fpRefs[k] \in -crashes..crashes
  BY DEF IInv, MemAgrees, MemNotAhead, DriftBounded
<1>3. CASE UNCHANGED vars \/ \E t \in Threads, o \in Ops, q \in Keys : Call(t, o, q)
  BY <1>2, <1>3, OtherStepsKeepCounts DEF IInv
<1>4. ASSUME NEW t \in Threads, Step(t), ~MgrRelease(t)
      PROVE  /\ MemCount(k)' = MemCount(k) /\ DiskCount(k)' = DiskCount(k)
             /\ faults' = 0 => faults = 0 /\ CloudCount(k)' = CloudCount(k)
             /\ fpRefs' = fpRefs /\ crashes' = crashes
  <2>1. MemCount(k)' = MemCount(k) /\ DiskCount(k)' = DiskCount(k)
    BY <1>4, MemCountStable, DiskCountStable DEF IInv
  <2>2. faults' = 0 => faults = 0
    BY FaultsGrow DEF IInv
  <2>3. fpRefs' = fpRefs /\ crashes' = crashes
    BY <1>4 DEF Step, MgrAcquire, MemPut, MemGet, MemRemove, DiskEnter, DiskStep, CloudEnter, CloudStep
  <2>4. ASSUME faults' = 0 PROVE CloudCount(k)' = CloudCount(k)
    <3>1. CASE CloudEnter(t) \/ CloudStep(t)
      BY <2>2, <2>4, <3>1, CloudStepGood DEF IInv
    <3>2. CASE ~(CloudEnter(t) \/ CloudStep(t))
      <4>1. /\ UNCHANGED <<object, cpc, op, key>>
            /\ \/ mgrLock = NoThread /\ mgrLock' = t /\ pc'[t] = "mem"
               \/ mgrLock = t /\ mgrLock' = t /\ pc[t] \in {"mem", "disk"}
                  /\ (pc'[t] = "exit" => op[t] = "get") /\ pc'[t] \in {"disk", "cloud", "exit", "abort"}
        <5> USE DEF At, Goto, cloudVars, callVars
        <5>1. pc \in [Threads -> PCs] /\ (pc[t] \notin {"idle", "mgr"} => mgrLock = t)
          BY DEF IInv, TypeOK, CallsInv
        <5>2. CASE MgrAcquire(t)
          BY <5>1, <5>2 DEF MgrAcquire
        <5>3. CASE MemPut(t) \/ MemGet(t) \/ MemRemove(t)
          BY <5>1, <5>3 DEF MemPut, MemGet, MemRemove
        <5>4. CASE DiskEnter(t) \/ DiskStep(t)
          BY <5>1, <5>4 DEF DiskEnter, DiskStep
        <5>5. QED
          BY <1>4, <3>2, <5>2, <5>3, <5>4 DEF Step
      <4>2. cpc[t] = "idle"
        BY <4>1, MgrThreadAssumption DEF IInv, CallsInv
      <4>3. QED
        BY <1>1, <4>1, <4>2, MgrThreadAssumption DEF CloudCount, InHand, CloudDone, Change
    <3>3. QED
      BY <3>1, <3>2
  <2>5. QED
    BY <2>1, <2>2, <2>3, <2>4
<1>5. ASSUME NEW t \in Threads, MgrRelease(t)
      PROVE  \E d \in -1..1 :
               /\ MemCount(k)' = MemCount(k) + d /\ DiskCount(k)' = DiskCount(k) + d
               /\ CloudCount(k)' = CloudCount(k) + d /\ fpRefs'[k] = fpRefs[k] + d
               /\ crashes' = crashes /\ faults' = faults
  BY <1>5, ReleaseSettles DEF IInv
<1>6. CASE Crash
  <2>1. /\ MemCount(k)' = 0 /\ DiskCount(k)' = file[k].ref /\ CloudCount(k)' = object[k].ref
        /\ fpRefs' = fpRefs /\ faults' = faults /\ crashes' = crashes + 1
    BY <1>6, CrashCounts DEF IInv
  <2>2. /\ file[k].ref \in Nat /\ object[k].ref \in Int
        /\ InHand(k, DiskDone) \in -1..1 /\ InHand(k, CloudDone) \in -1..1
    BY CountTypes DEF IInv
  <2>3. faults = 0 => object[k].ref >= 0
    <3>1. faults = 0 => object[k] = Cloud!NoObject \/ object[k].ref > 0
      BY DEF IInv, CloudInv
    <3>2. Cloud!NoObject.ref = 0
      BY DEF Cloud!NoObject
    <3>3. QED
      BY <2>2, <3>1, <3>2
  <2>4. DiskCount(k) = file[k].ref - InHand(k, DiskDone) /\ CloudCount(k) = object[k].ref - InHand(k, CloudDone)
    BY DEF DiskCount, CloudCount
  <2>5. MemCount(k)' <= DiskCount(k)' /\ (faults' = 0 => MemCount(k)' <= CloudCount(k)') /\ crashes' # 0
    BY <1>1, <2>1, <2>2, <2>3
  <2>6. DiskCount(k)' - fpRefs'[k] \in -crashes'..crashes'
    BY <1>1, <1>2, <2>1, <2>2, <2>4
  <2>7. faults' = 0 => CloudCount(k)' - fpRefs'[k] \in -crashes'..crashes'
    BY <1>1, <1>2, <2>1, <2>2, <2>4
  <2>8. QED
    BY <2>5, <2>6, <2>7
<1>7. QED
  BY <1>1, <1>2, <1>3, <1>4, <1>5, <1>6 DEF Next, Step

(* Every step keeps the cloud tier's part of the invariant. *)
LEMMA CloudInvStep ==
  ASSUME IInv, [Next]_vars
  PROVE  CloudInv'
<1>1. CASE faults' # 0
  BY <1>1 DEF CloudInv
<1>2. CASE faults' = 0
  <2>1. faults = 0
    BY <1>2, FaultsGrow DEF IInv
  <2> USE <2>1 DEF CloudInv, At, Goto, cloudVars, callVars
  <2>2. ASSUME NEW t \in Threads, NEW o \in Ops, NEW k \in Keys, Call(t, o, k)
        PROVE  CloudInv'
    BY <2>2 DEF Call, IInv, CallsInv, TypeOK
  <2>3. ASSUME NEW t \in Threads,
               \/ MgrAcquire(t) \/ MemPut(t) \/ MemGet(t) \/ MemRemove(t)
               \/ DiskEnter(t) \/ DiskStep(t)
        PROVE  CloudInv'
    BY <2>3 DEF IInv, MgrAcquire, MemPut, MemGet, MemRemove, DiskEnter, DiskStep
  <2>4. ASSUME NEW t \in Threads, CloudEnter(t) \/ CloudStep(t)
        PROVE  CloudInv'
    BY <1>2, <2>4, CloudStepGood DEF IInv
  <2>5. ASSUME NEW t \in Threads, MgrRelease(t)
        PROVE  CloudInv'
    BY <2>5 DEF MgrRelease, ForgetAnswers, IInv, CallsInv, TypeOK
  <2>6. CASE Crash
    BY <2>6 DEF Crash, Cloud!Restart, IInv
  <2>7. CASE UNCHANGED vars
    BY <2>7 DEF vars, IInv
  <2>8. QED
    BY <2>2, <2>3, <2>4, <2>5, <2>6, <2>7 DEF Next, Step
<1>3. QED
  BY <1>1, <1>2

(* A remove comes to the disk tier with a file, a header and a positive    *)
(* count: memory, which it has just passed, is not ahead.                  *)
LEMMA DereferenceSafeStep ==
  ASSUME IInv, [Next]_vars
  PROVE  DiskDereferenceSafe'
<1> USE DEF DiskDereferenceSafe, At, Goto, diskVars, callVars
<1>1. ASSUME NEW t \in Threads, NEW o \in Ops, NEW k \in Keys, Call(t, o, k)
      PROVE  DiskDereferenceSafe'
  BY <1>1 DEF Call, IInv, TypeOK
<1>2. ASSUME NEW t \in Threads,
             \/ MgrAcquire(t) \/ MemPut(t) \/ MemGet(t) \/ MemRemove(t)
             \/ CloudEnter(t) \/ CloudStep(t)
      PROVE  DiskDereferenceSafe'
  <2>1. /\ UNCHANGED <<dpc, op>> /\ pc \in [Threads -> PCs]
        /\ \E s \in PCs : pc' = [pc EXCEPT ![t] = s]
        /\ pc[t] # "disk" /\ dpc[t] = "idle"
    BY <1>2 DEF IInv, TypeOK, CallsInv, MgrAcquire, MemPut, MemGet, MemRemove, CloudEnter, CloudStep, PCs
  <2>2. QED
    BY <2>1 DEF IInv
<1>3. ASSUME NEW t \in Threads, DiskEnter(t)
      PROVE  DiskDereferenceSafe'
  <2>1. \A u \in Threads \ {t} : dpc[u] = "idle" /\ dpc'[u] = "idle"
    BY <1>3, OthersIdle DEF IInv, DiskEnter, Disk!Put, Disk!PutOpen, Disk!PutCreate, Disk!Get, Disk!GetMiss,
       Disk!GetHit, Disk!GetAborts, Disk!DereferenceOpen, Disk!Goto, TypeOK, Disk!TypeOK
  <2>2. ASSUME op[t] = "remove"
        PROVE  dpc'[t] = "deref"
    <3>1. /\ Disk!DereferenceOpen(t, key[t]) /\ key[t] \in Keys /\ mgrLock = t /\ t # NoThread
          /\ pc[t] = "disk" /\ dpc[t] = "idle"
      BY <1>3, <2>2, MgrThreadAssumption
         DEF DiskEnter, Disk!DereferenceOpen, Disk!Enter, IInv, CallsInv, TypeOK
    <3>2. MemCount(key[t]) = Mem!Ref(key[t]) + 1 /\ DiskCount(key[t]) = file[key[t]].ref
      BY <2>2, <3>1, CountTypes DEF MemCount, DiskCount, InHand, MemDone, DiskDone, Change, IInv
    <3>3. file[key[t]].ref > 0
      BY <3>1, <3>2, CountTypes DEF IInv, MemNotAhead
    <3>4. Disk!HasHeader(key[t]) /\ Disk!Exists(key[t])
      BY <3>1, <3>3 DEF IInv, DiskInv, Disk!CountsPositive, Disk!HasHeader, Disk!Exists
    <3>5. QED
      BY <3>1, <3>3, <3>4 DEF Disk!DereferenceOpen, Disk!Goto, Disk!AfterHeader, IInv, TypeOK, Disk!TypeOK
  <2>3. QED
    BY <1>3, <2>1, <2>2 DEF DiskEnter, IInv
<1>4. ASSUME NEW t \in Threads, DiskStep(t)
      PROVE  DiskDereferenceSafe'
  <2>1. /\ \A u \in Threads \ {t} : dpc'[u] = dpc[u]
        /\ op[t] = "remove" => dpc'[t] = "idle"
    BY <1>4 DEF DiskStep, Disk!Step, Disk!PutBump, Disk!PutHead, Disk!PutHeadShort, Disk!PutBody, Disk!PutBodyShort,
       Disk!DereferenceWrite, Disk!Goto, Disk!Leave, IInv, DiskInv, TypeOK, Disk!TypeOK
  <2>2. QED
    BY <1>4, <2>1 DEF DiskStep, IInv, TypeOK
<1>5. ASSUME NEW t \in Threads, MgrRelease(t)
      PROVE  DiskDereferenceSafe'
  BY <1>5 DEF MgrRelease, ForgetAnswers, IInv, TypeOK
<1>6. CASE Crash
  BY <1>6 DEF Crash
<1>7. CASE UNCHANGED vars
  BY <1>7 DEF vars, IInv
<1>8. QED
  BY <1>1, <1>2, <1>3, <1>4, <1>5, <1>6, <1>7 DEF Next, Step

(* The invariant holds when the daemon is first started. *)
LEMMA InitIInv == Init => IInv
<1> SUFFICES ASSUME Init PROVE IInv
  OBVIOUS
<1>1. TypeOK
  BY InitType
<1>2. CallsInv /\ DiskDereferenceSafe
  BY MgrThreadAssumption DEF Init, Disk!Init, Cloud!Init, CallsInv, DiskDereferenceSafe
<1>3. RemovesInv
  <2>1. \A k \in Keys : In("remove", k) = {} /\ fpRefs[k] = 0
    BY DEF Init, In
  <2>2. QED
    BY <2>1, FS_EmptySet DEF RemovesInv
<1>4. Mem!NoDeadEntry
  BY DEF Init, Mem!Init, Mem!NoDeadEntry
<1>5. DiskInv
  BY DEF Init, Disk!Init, DiskInv, Disk!CountsPositive, Disk!HasHeader, Disk!NoFile
<1>6. CloudInv
  BY DEF Init, Cloud!Init, CloudInv
<1>7. \A k \in Keys : MemCount(k) = 0 /\ DiskCount(k) = 0 /\ CloudCount(k) = 0 /\ fpRefs[k] = 0
  BY DEF Init, Mem!Init, Disk!Init, Cloud!Init, MemCount, DiskCount, CloudCount, InHand, Mem!Ref, Mem!Cached,
     Disk!NoFile, Cloud!NoObject
<1>8. MemAgrees /\ MemNotAhead /\ DriftBounded
  BY <1>7 DEF Init, MemAgrees, MemNotAhead, DriftBounded
<1>9. QED
  BY <1>1, <1>2, <1>3, <1>4, <1>5, <1>6, <1>8 DEF IInv

(* IInv is an invariant of StorageMgr, for any keys, threads, deaths,      *)
(* failed requests and any device.                                         *)
THEOREM Invariant == Spec => []IInv
<1>1. Init => IInv
  BY InitIInv
<1>2. IInv /\ [Next]_vars => IInv'
  BY TypeStep, CallsStep, RemovesStep, DiskStepInv, CloudInvStep, CountsStep, DereferenceSafeStep DEF IInv
<1>3. QED
  BY <1>1, <1>2, PTL DEF Spec

(* The variables of StorageMgr.cpp and of the tiers keep their domains; in *)
(* particular no remove takes the fingerprints of a key below zero.        *)
THEOREM TypeCorrect == Spec => []TypeOK
  BY Invariant, PTL DEF IInv

(* MemNotAhead: memory never counts more than the persistent tiers,        *)
(* whatever the daemon died in the middle of.                              *)
THEOREM MemoryNeverAhead == Spec => []MemNotAhead
  BY Invariant, PTL DEF IInv

(* DiskDereferenceSafe: a remove that has passed MemoryCache::dereference  *)
(* fails no assert of DiskCache::dereference.                              *)
THEOREM DereferenceIsSafe == Spec => []DiskDereferenceSafe
  BY Invariant, PTL DEF IInv

(* DriftBounded: each death of the daemon moves the count of a key on disk *)
(* from the fingerprints in the files by at most one.                      *)
THEOREM DriftIsBounded == Spec => []DriftBounded
  BY Invariant, PTL DEF IInv

(* Without deaths and failed requests the bound of DriftBounded is zero. *)
LEMMA AgreeFromInvariant == IInv => TiersAgree
<1> SUFFICES ASSUME IInv, crashes = 0, faults = 0, NEW k \in Keys
             PROVE  MemCount(k) = fpRefs[k] /\ DiskCount(k) = fpRefs[k] /\ CloudCount(k) = fpRefs[k]
  BY DEF TiersAgree
<1>1. DiskCount(k) - fpRefs[k] = 0 /\ CloudCount(k) - fpRefs[k] = 0 /\ MemCount(k) = fpRefs[k]
  BY CountTypes DEF IInv, DriftBounded, MemAgrees
<1>2. QED
  BY <1>1, CountTypes DEF IInv

(* TiersAgree: until the first death or failed request the three tiers     *)
(* count exactly the fingerprints in the files, however the callers        *)
(* interleave.                                                             *)
THEOREM TiersAlwaysAgree == Spec => []TiersAgree
  BY Invariant, AgreeFromInvariant, PTL
-----------------------------------------------------------------------------
(* The callers' view: the manager with its three tiers is one BlockStore.  *)

(* What each thread's call is at, for its caller. *)
Phases == [t \in Threads |-> Phase(t)]

(* A thread that goes on to s changes no other thread's phase. *)
LEMMA PhaseOfGoto ==
  ASSUME TypeOK, NEW t \in Threads, NEW s \in PCs, Goto(t, s)
  PROVE  Phases' = [Phases EXCEPT ![t] = IF s = "idle" THEN "idle"
                                         ELSE IF s \in {"mgr", "mem", "abort"} THEN "asked"
                                         ELSE "done"]
<1>1. pc' = [pc EXCEPT ![t] = s] /\ pc \in [Threads -> PCs]
  BY DEF Goto, TypeOK
<1>2. pc'[t] = s /\ \A u \in Threads \ {t} : pc'[u] = pc[u]
  BY <1>1
<1>3. QED
  BY <1>2 DEF Phases, Phase

(* At the start no block is stored and no call is made. *)
LEMMA StoreStart == Init => Store!Init
  BY DEF Init, Mem!Init, Store!Init, Mem!References, Mem!Ref, Mem!Cached, Phase

(* A step that leaves memory, the call and its answer alone is no step of  *)
(* the store, if the call stays asked or stays done.                       *)
LEMMA StoreStutter ==
  ASSUME UNCHANGED <<cacheMap, blk, op, key>>, Phases' = Phases
  PROVE  UNCHANGED Store!vars
  BY DEF Store!vars, Mem!References, Mem!Ref, Mem!Cached, Phases

(* Memory's part of a call is the instant at which the call takes effect.  *)
LEMMA StoreTakes ==
  ASSUME TypeOK, Mem!NoDeadEntry, NEW t \in Threads, MemPut(t) \/ MemGet(t) \/ MemRemove(t)
  PROVE  Store!Put(t) \/ Store!Get(t) \/ Store!Remove(t) \/ UNCHANGED Store!vars
<1> DEFINE k == key[t]
<1>1. k \in Keys /\ pc[t] = "mem" /\ Phases[t] = "asked" /\ UNCHANGED <<op, key>>
  BY DEF TypeOK, MemPut, MemGet, MemRemove, At, Phases, Phase, callVars
<1>2. \A q \in Keys : Mem!References[q] = Mem!Ref(q) /\ Mem!References'[q] = Mem!Ref(q)'
  BY DEF Mem!References
<1>3. Mem!Ref(k) \in Nat /\ (Mem!Ref(k) > 0 <=> Mem!Cached(k))
  BY <1>1 DEF Mem!Ref, Mem!Cached, Mem!NoDeadEntry, TypeOK, Mem!TypeOK
<1> DEFINE Done == Phases' = [Phases EXCEPT ![t] = "done"]
<1>4. ASSUME Done, NEW o \in Ops, op[t] = o
      PROVE  Store!Takes(t, o)
  BY <1>1, <1>4 DEF Store!Takes, Phases
<1>5. ASSUME NEW s \in {"disk", "exit"}, Goto(t, s)
      PROVE  Done
  BY <1>5, PhaseOfGoto DEF PCs
<1> HIDE DEF Done
<1>6. CASE MemPut(t)
  <2>1. Done /\ op[t] = "put" /\ Mem!Put(k) /\ blk' = blk
    BY <1>5, <1>6 DEF MemPut, Mem!Put
  <2>2. Mem!References' = [Mem!References EXCEPT ![k] = @ + 1]
    BY <1>1, <1>2, <2>1, RefAfterPut DEF TypeOK, Mem!References
  <2>3. QED
    BY <1>4, <2>1, <2>2 DEF Store!Put, Ops
<1>7. CASE MemGet(t)
  <2>1. Done /\ op[t] = "get" /\ UNCHANGED cacheMap
    BY <1>5, <1>7 DEF MemGet, Mem!Get
  <2>2. blk' = [blk EXCEPT ![t] = IF Mem!References[k] > 0 THEN "block" ELSE "NULL"]
    BY <1>1, <1>2, <1>3, <1>7 DEF MemGet, Mem!Get
  <2>3. Mem!References' = Mem!References
    BY <2>1 DEF Mem!References, Mem!Ref, Mem!Cached
  <2>4. QED
    BY <1>4, <2>1, <2>2, <2>3 DEF Store!Get, Ops
<1>8. CASE MemRemove(t) /\ ~Mem!DereferenceAborts(k)
  <2>1. Done /\ op[t] = "remove" /\ Mem!Dereference(k) /\ blk' = blk
    BY <1>5, <1>8 DEF MemRemove, Mem!Dereference
  <2>2. Mem!References[k] > 0
    BY <1>1, <1>2, <1>3, <1>8 DEF Mem!DereferenceAborts
  <2>3. Mem!References' = [Mem!References EXCEPT ![k] = @ - 1]
    BY <1>1, <1>2, <2>1, RefAfterDereference DEF TypeOK, Mem!References
  <2>4. QED
    BY <1>4, <2>1, <2>2, <2>3 DEF Store!Remove, Ops
<1>9. CASE MemRemove(t) /\ Mem!DereferenceAborts(k)
  <2>1. UNCHANGED <<cacheMap, blk>> /\ Goto(t, "abort")
    BY <1>9 DEF MemRemove, memVars
  <2>2. Phases' = Phases
    BY <1>1, <2>1, PhaseOfGoto DEF PCs, Phases
  <2>3. QED
    BY <1>1, <2>1, <2>2, StoreStutter
<1>10. QED
  BY <1>6, <1>7, <1>8, <1>9

(* The parts of the other two tiers are no steps of the store. *)
LEMMA OtherTiersStutter ==
  ASSUME TypeOK, NEW t \in Threads,
         DiskEnter(t) \/ DiskStep(t) \/ CloudEnter(t) \/ CloudStep(t)
  PROVE  UNCHANGED Store!vars
<1>1. UNCHANGED <<cacheMap, blk, op, key>> /\ pc[t] \in {"disk", "cloud"}
  BY DEF DiskEnter, DiskStep, CloudEnter, CloudStep, memVars, callVars, At
<1>2. \E s \in {"disk", "cloud", "exit"} : Goto(t, s)
  BY DEF DiskEnter, DiskStep, CloudEnter, CloudStep
<1>3. PICK s \in {"disk", "cloud", "exit"} : Goto(t, s)
  BY <1>2
<1>4. Phases' = Phases
  <2>1. Phases' = [Phases EXCEPT ![t] = "done"]
    BY <1>3, PhaseOfGoto DEF PCs
  <2>2. Phases[t] = "done"
    BY <1>1 DEF Phases, Phase
  <2>3. QED
    BY <2>1, <2>2 DEF Phases
<1>5. QED
  BY <1>1, <1>4, StoreStutter

(* Every step of the manager is one of the store, or none. *)
LEMMA StoreStep ==
  ASSUME TypeOK, Mem!NoDeadEntry, [Next]_vars
  PROVE  [Store!Next]_Store!vars
<1>1. UNCHANGED cacheMap => Mem!References' = Mem!References
  BY DEF Mem!References, Mem!Ref, Mem!Cached
<1>2. ASSUME NEW t \in Threads, NEW o \in Ops, NEW k \in Keys, Call(t, o, k)
      PROVE  Store!Ask(t, o, k)
  <2>1. UNCHANGED <<cacheMap, blk>> /\ pc[t] = "idle" /\ Goto(t, "mgr")
        /\ op' = [op EXCEPT ![t] = o] /\ key' = [key EXCEPT ![t] = k]
    BY <1>2 DEF Call, memVars, At
  <2>2. Phases[t] = "idle" /\ Phases' = [Phases EXCEPT ![t] = "asked"]
    BY <2>1, PhaseOfGoto DEF PCs, Phases, Phase
  <2>3. QED
    BY <1>1, <2>1, <2>2 DEF Store!Ask, Phases
<1>3. ASSUME NEW t \in Threads, MgrAcquire(t)
      PROVE  UNCHANGED Store!vars
  <2>1. UNCHANGED <<cacheMap, blk, op, key>> /\ pc[t] = "mgr" /\ Goto(t, "mem")
    BY <1>3 DEF MgrAcquire, memVars, callVars, At
  <2>2. Phases[t] = "asked" /\ Phases' = [Phases EXCEPT ![t] = "asked"]
    BY <2>1, PhaseOfGoto DEF PCs, Phases, Phase
  <2>3. Phases' = Phases
    BY <2>2 DEF Phases
  <2>4. QED
    BY <2>1, <2>3, StoreStutter
<1>4. ASSUME NEW t \in Threads, MgrRelease(t)
      PROVE  Store!Return(t)
  <2>1. /\ UNCHANGED <<cacheMap, key>> /\ pc[t] = "exit" /\ Goto(t, "idle")
        /\ op' = [op EXCEPT ![t] = "none"] /\ blk' = [blk EXCEPT ![t] = "none"]
    BY <1>4 DEF MgrRelease, ForgetAnswers, At
  <2>2. Phases[t] = "done" /\ Phases' = [Phases EXCEPT ![t] = "idle"]
    BY <2>1, PhaseOfGoto DEF PCs, Phases, Phase
  <2>3. QED
    BY <1>1, <2>1, <2>2 DEF Store!Return, Phases
<1>5. CASE Crash
  <2>1. Store!Restart
    BY <1>5 DEF Crash, Mem!Restart, Store!Restart, Mem!References, Mem!Ref, Mem!Cached, Phase
  <2>2. QED
    BY <2>1 DEF Store!Next
<1>6. CASE UNCHANGED vars
  BY <1>6, StoreStutter DEF vars, memVars, callVars, Phases, Phase
<1>7. QED
  BY <1>2, <1>3, <1>4, <1>5, <1>6, StoreTakes, OtherTiersStutter DEF Next, Step, Store!Next, Ops

(* StorageMgr is linearizable: whatever its callers interleave, whatever   *)
(* the device and the service refuse and wherever the daemon dies, each of *)
(* its calls is answered as if it had happened at one instant, on a store  *)
(* that has no tiers.                                                      *)
THEOREM ManagerIsBlockStore == Spec => StoreSpec
<1>1. IInv /\ [Next]_vars => [Store!Next]_Store!vars
  BY StoreStep DEF IInv
<1>2. QED
  BY <1>1, StoreStart, Invariant, PTL DEF Spec, StoreSpec, Store!Spec

-----------------------------------------------------------------------------
(* The tiers below the manager. *)

(* A step of the disk tier that changes a file belongs to the call that is *)
(* in the tier, and what the call read is what is in the file.             *)
LEMMA DiskStepFile ==
  ASSUME IInv, NEW t \in Threads, Disk!Step(t), pc[t] = "disk"
  PROVE  LET k == key[t] IN
         /\ dkey[t] = k /\ k \in Keys /\ file \in [Keys -> [st : Disk!FileStates, ref : Nat]]
         /\ dpc[t] = "head" => file[k].st # "full"
         /\ dpc[t] \in {"bump", "deref"} => dref[t] = file[k].ref /\ file[k].ref > 0
<1>1. dkey[t] = key[t]
  BY DEF IInv, CallsInv, Disk!Step, Disk!PutBump, Disk!PutHead, Disk!PutHeadShort, Disk!PutBody, Disk!PutBodyShort,
     Disk!DereferenceWrite
<1>2. key[t] \in Keys /\ file \in [Keys -> [st : Disk!FileStates, ref : Nat]]
  BY DEF IInv, TypeOK, Disk!TypeOK
<1>3. dpc[t] = "head" => file[key[t]].st # "full"
  BY <1>2 DEF IInv, DiskInv, Disk!CountsPositive, Disk!HasHeader
<1>4. dpc[t] \in {"bump", "deref"} => dref[t] = file[key[t]].ref /\ file[key[t]].ref > 0
  BY DEF IInv, DiskInv
<1>5. QED
  BY <1>1, <1>2, <1>3, <1>4

(* The complete files and their counts change as Storage says. *)
LEMMA DiskReferencesStep ==
  ASSUME IInv, [Next]_vars
  PROVE  [Disk!Contract!Next]_Disk!References
<1>1. CASE UNCHANGED file
  BY <1>1 DEF Disk!References
<1>2. ASSUME NEW t \in Threads, DiskEnter(t), Disk!PutCreate(t, key[t])
      PROVE  UNCHANGED Disk!References
  BY <1>2 DEF Disk!PutCreate, Disk!Exists, Disk!References, IInv, TypeOK, Disk!TypeOK
<1>3. ASSUME NEW t \in Threads, DiskStep(t)
      PROVE  [Disk!Contract!Next]_Disk!References
  <2> DEFINE k == key[t]
  <2>1. Disk!Step(t) /\ pc[t] = "disk"
    BY <1>3 DEF DiskStep, At
  <2>2. /\ dkey[t] = k /\ k \in Keys /\ file \in [Keys -> [st : Disk!FileStates, ref : Nat]]
        /\ dpc[t] = "head" => file[k].st # "full"
        /\ dpc[t] \in {"bump", "deref"} => dref[t] = file[k].ref /\ file[k].ref > 0
    BY <2>1, DiskStepFile
  <2>3. file[k].st \in Disk!FileStates /\ file[k].ref \in Nat
    BY <2>2
  <2> DEFINE Count(f) == IF f.st = "full" THEN f.ref ELSE 0
             File(f) == file' = [file EXCEPT ![k] = f]
  <2>4. ASSUME NEW f, File(f)
        PROVE  Disk!References' = [Disk!References EXCEPT ![k] = Count(f)]
    <3>1. \A q \in Keys : file'[q] = IF q = k THEN f ELSE file[q]
      BY <2>2, <2>4
    <3>2. QED
      BY <3>1 DEF Disk!References
  <2>5. Disk!References[k] = Count(file[k])
    BY <2>2 DEF Disk!References
  <2>6. ASSUME NEW f, File(f),
               Count(f) = Count(file[k]) + 1 \/ Count(f) = 0
                 \/ (Count(file[k]) > 0 /\ Count(f) = Count(file[k]) - 1)
        PROVE  [Disk!Contract!Next]_Disk!References
    <3> DEFINE R == Disk!References
               n == Count(f)
    <3>1. R' = [R EXCEPT ![k] = n] /\ R[k] = Count(file[k])
      BY <2>4, <2>5, <2>6
    <3>2. n = R[k] + 1 \/ n = 0 \/ (R[k] > 0 /\ n = R[k] - 1)
      BY <2>6, <3>1
    <3> HIDE DEF n, Count
    <3>3. CASE n = R[k] + 1
      BY <2>2, <3>1, <3>3 DEF Disk!Contract!Next, Disk!Contract!Put
    <3>4. CASE n = 0
      BY <2>2, <3>1, <3>4 DEF Disk!Contract!Next, Disk!Contract!Remove
    <3>5. CASE R[k] > 0 /\ n = R[k] - 1
      BY <2>2, <3>1, <3>5 DEF Disk!Contract!Next, Disk!Contract!Dereference
    <3>6. QED
      BY <3>2, <3>3, <3>4, <3>5
  <2>7. CASE Disk!PutBump(t)
    <3>1. File(Disk!FileWith(k, file[k].ref + 1))
      BY <2>2, <2>7 DEF Disk!PutBump
    <3>2. QED
      BY <2>3, <2>6, <3>1 DEF Disk!FileWith
  <2>8. CASE Disk!PutHead(t)
    <3>1. File([st |-> "head", ref |-> 1])
      BY <2>2, <2>8 DEF Disk!PutHead
    <3>2. QED
      BY <2>6, <3>1
  <2>9. CASE Disk!PutBody(t)
    <3>1. File([st |-> "full", ref |-> file[k].ref]) /\ file[k].ref = 1
      BY <2>2, <2>9 DEF Disk!PutBody, IInv, DiskInv
    <3>2. CASE file[k].st = "full"
      BY <2>2, <2>3, <3>1, <3>2 DEF Disk!References
    <3>3. CASE file[k].st # "full"
      <4> DEFINE f == [st |-> "full", ref |-> file[k].ref]
      <4>1. Count(f) = 1 /\ Count(file[k]) = 0
        BY <3>1, <3>3
      <4>2. Count(f) = Count(file[k]) + 1
        BY <4>1
      <4>3. QED
        BY <2>6, <3>1, <4>2
    <3>4. QED
      BY <3>2, <3>3
  <2>10. CASE Disk!PutBodyShort(t)
    <3>1. PICK s \in {"head", "part"} : File([st |-> s, ref |-> file[k].ref])
      BY <2>2, <2>10 DEF Disk!PutBodyShort
    <3>2. QED
      BY <2>6, <3>1
  <2>11. CASE Disk!DereferenceWrite(t)
    <3>1. file[k].ref > 0 /\ dref[t] = file[k].ref
      BY <2>2, <2>11 DEF Disk!DereferenceWrite
    <3>2. File(IF file[k].ref > 1 THEN Disk!FileWith(k, file[k].ref - 1) ELSE Disk!NoFile)
      BY <2>2, <2>11, <3>1 DEF Disk!DereferenceWrite
    <3>3. CASE file[k].ref > 1
      <4>1. File(Disk!FileWith(k, file[k].ref - 1))
        BY <3>2, <3>3
      <4> DEFINE f == Disk!FileWith(k, file[k].ref - 1)
      <4>2. \/ Count(f) = 0
            \/ Count(file[k]) > 0 /\ Count(f) = Count(file[k]) - 1
        BY <2>3, <3>3 DEF Disk!FileWith
      <4>3. QED
        BY <2>6, <4>1, <4>2
    <3>4. CASE file[k].ref = 1
      <4>1. File(Disk!NoFile)
        BY <3>2, <3>4
      <4>2. QED
        BY <2>6, <4>1 DEF Disk!NoFile
    <3>5. QED
      BY <2>3, <3>1, <3>3, <3>4
  <2>12. CASE Disk!PutHeadShort(t)
    BY <1>1, <2>12 DEF Disk!PutHeadShort
  <2>13. QED
    BY <2>1, <2>7, <2>8, <2>9, <2>10, <2>11, <2>12 DEF Disk!Step
<1>4. \/ UNCHANGED file
      \/ \E t \in Threads : DiskEnter(t) /\ Disk!PutCreate(t, key[t])
      \/ \E t \in Threads : DiskStep(t)
  BY DEF Next, Step, Call, MgrAcquire, MemPut, MemGet, MemRemove, DiskEnter, CloudEnter, CloudStep,
     MgrRelease, ForgetAnswers, Crash, vars, diskVars, Disk!Put, Disk!PutOpen, Disk!Get, Disk!GetMiss,
     Disk!GetHit, Disk!GetAborts, Disk!DereferenceOpen, Disk!Restart
<1>5. QED
  BY <1>1, <1>2, <1>3, <1>4

(* The counts in the bucket change as Storage says, while no request fails.*)
LEMMA BucketReferencesStep ==
  ASSUME IInv, [Next]_vars
  PROVE  [faults' = 0 => Bucket!Next]_BucketRefs
<1> SUFFICES ASSUME faults' = 0, BucketRefs' # BucketRefs
             PROVE  Bucket!Next
  OBVIOUS
<1>1. faults = 0 /\ ~Cloud!Fault
  BY FaultsGrow DEF IInv, Cloud!Fault
<1>2. PICK t \in Threads : CloudStep(t) /\ UNCHANGED faults
  <2>1. ~UNCHANGED object
    BY DEF BucketRefs
  <2>2. \E t \in Threads : CloudStep(t)
    BY <2>1 DEF Next, Step, Call, MgrAcquire, MemPut, MemGet, MemRemove, DiskEnter, DiskStep, CloudEnter,
       MgrRelease, ForgetAnswers, Crash, vars, cloudVars, Cloud!PutHead, Cloud!Get, Cloud!Fetch, Cloud!Restart
  <2>3. QED
    BY <1>1, <2>2
<1> DEFINE k == key[t]
<1>3. /\ ckey[t] = k /\ k \in Keys /\ object \in [Keys -> Cloud!Objects]
      /\ pc[t] = "cloud" /\ Cloud!Step(t)
  BY <1>2 DEF CloudStep, At, IInv, CallsInv, TypeOK, Cloud!CloudTypeOK, Cloud!Step, Cloud!Upload, Cloud!UploadFails,
     Cloud!Confirm, Cloud!Delete, Cloud!StoreBack, Cloud!StoreBackFails
<1>4. object[k].ref \in Int /\ BucketRefs[k] = object[k].ref
  BY <1>3 DEF Cloud!Objects, BucketRefs
<1>5. ASSUME NEW o, Cloud!Becomes(k, o)
      PROVE  BucketRefs' = [BucketRefs EXCEPT ![k] = o.ref]
  <2>1. \A q \in Keys : object'[q] = IF q = k THEN o ELSE object[q]
    BY <1>3, <1>5 DEF Cloud!Becomes
  <2>2. QED
    BY <2>1 DEF BucketRefs
<1>6. CASE Cloud!Upload(t)
  <2>1. cref[t] = object[k].ref + 1 /\ Cloud!Becomes(k, Cloud!NewObject(t))
    BY <1>1, <1>3, <1>6 DEF Cloud!Upload, IInv, CloudInv
  <2>2. BucketRefs' = [BucketRefs EXCEPT ![k] = @ + 1]
    BY <1>4, <1>5, <2>1 DEF Cloud!NewObject
  <2>3. QED
    BY <1>3, <2>2 DEF Bucket!Next, Bucket!Put
<1>7. CASE Cloud!Delete(t)
  <2>1. object[k].ref = 1 /\ Cloud!Exists(k)
    BY <1>1, <1>3, <1>7 DEF Cloud!Delete, IInv, CloudInv, Cloud!Exists, Cloud!NoObject
  <2>2. Cloud!Becomes(k, Cloud!NoObject)
    BY <1>1, <1>3, <1>7, <2>1 DEF Cloud!Delete, Cloud!NotFound
  <2>3. BucketRefs[k] > 0 /\ BucketRefs' = [BucketRefs EXCEPT ![k] = @ - 1]
    BY <1>4, <1>5, <2>1, <2>2 DEF Cloud!NoObject
  <2>4. QED
    BY <1>3, <2>3 DEF Bucket!Next, Bucket!Dereference
<1>8. CASE Cloud!StoreBack(t)
  <2>1. /\ cref[t] = object[k].ref - 1 /\ object[k].ref > 1
        /\ Cloud!Becomes(k, Cloud!OldObject(t))
    BY <1>1, <1>3, <1>8 DEF Cloud!StoreBack, IInv, CloudInv
  <2>2. BucketRefs[k] > 0 /\ BucketRefs' = [BucketRefs EXCEPT ![k] = @ - 1]
    BY <1>4, <1>5, <2>1 DEF Cloud!OldObject
  <2>3. QED
    BY <1>3, <2>2 DEF Bucket!Next, Bucket!Dereference
<1>9. ~Cloud!Confirm(t) /\ ~Cloud!UploadFails(t) /\ ~Cloud!StoreBackFails(t)
  BY <1>1 DEF Cloud!Confirm, Cloud!UploadFails, Cloud!StoreBackFails, BucketRefs
<1>10. QED
  BY <1>3, <1>6, <1>7, <1>8, <1>9 DEF Cloud!Step

(* With the calls of the manager, wherever it dies in them, the disk tier  *)
(* keeps the contract of Storage, and the bucket keeps it as long as the   *)
(* service answers: the theorems about each tier alone carry over to the   *)
(* tiers as they are used.                                                 *)
THEOREM TiersKeepTheirContract == Spec => TiersSpec
<1>1. Init => Disk!Contract!Init /\ Bucket!Init
  BY DEF Init, Disk!Init, Cloud!Init, Disk!NoFile, Cloud!NoObject, Disk!References, BucketRefs,
     Disk!Contract!Init, Bucket!Init
<1>2. IInv /\ [Next]_vars => [Disk!Contract!Next]_Disk!References
  BY DiskReferencesStep
<1>3. IInv /\ [Next]_vars => [faults' = 0 => Bucket!Next]_BucketRefs
  BY BucketReferencesStep
<1>4. QED
  BY <1>1, <1>2, <1>3, Invariant, PTL DEF Spec, TiersSpec, Disk!ContractSpec, Disk!Contract!Spec

(* A call has taken a reference from a tier in advance only if it is a     *)
(* remove, and then it is one of the removes under way.                    *)
LEMMA TakenByRemove ==
  ASSUME IInv, NEW k \in Keys, NEW done \in {InHand(k, DiskDone), InHand(k, CloudDone)}
  PROVE  /\ Cardinality(In("remove", k)) \in Nat
         /\ done >= -Cardinality(In("remove", k))
<1> DEFINE S == In("remove", k)
<1>1. S \subseteq Threads
  BY DEF In
<1>2. IsFiniteSet(S) /\ Cardinality(S) \in Nat
  BY <1>1, FS_Subset, FS_CardinalityType, MgrThreadAssumption
<1>3. CASE S = {}
  <2>1. mgrLock # NoThread => pc[mgrLock] # "idle" /\ mgrLock \in Threads
    BY DEF IInv, TypeOK, CallsInv
  <2>2. done \in {0, 1}
    BY <1>3, <2>1 DEF InHand, Change, In
  <2>3. QED
    BY <1>3, <2>2, FS_EmptySet
<1>4. CASE S # {}
  <2>1. Cardinality(S) >= 1
    BY <1>2, <1>4, FS_EmptySet
  <2>2. done \in -1..1
    BY CountTypes DEF IInv
  <2>3. QED
    BY <1>2, <2>1, <2>2
<1>5. QED
  BY <1>3, <1>4

(* BlocksSurvive: the drift of DriftBounded and the removes under way are  *)
(* all that can bring the count of a file that is in use to zero.          *)
THEOREM BlocksOfFilesSurvive == Spec => []BlocksSurvive
<1>1. IInv => BlocksSurvive
  <2> SUFFICES ASSUME IInv, NEW k \in Keys, fpRefs[k] > crashes + Cardinality(In("remove", k))
               PROVE  /\ file[k].ref > 0
                      /\ faults = 0 => object[k].ref > 0 /\ object[k].body = "good"
    BY DEF BlocksSurvive
  <2> DEFINE n == Cardinality(In("remove", k))
             d == InHand(k, DiskDone)
             c == InHand(k, CloudDone)
  <2>1. n \in Nat /\ d >= -n /\ c >= -n
    BY TakenByRemove
  <2>2. /\ fpRefs[k] \in Nat /\ file[k].ref \in Nat /\ object[k].ref \in Int /\ d \in Int /\ c \in Int
        /\ crashes \in Nat
    BY CountTypes, MgrBoundsAssumption DEF IInv, TypeOK
  <2>3. /\ file[k].ref - d - fpRefs[k] >= -crashes
        /\ faults = 0 => object[k].ref - c - fpRefs[k] >= -crashes
    BY <2>2 DEF IInv, DriftBounded, DiskCount, CloudCount
  <2> HIDE DEF n, d, c
  <2>4. fpRefs[k] > crashes + n
    BY DEF n
  <2>5. file[k].ref > 0 /\ (faults = 0 => object[k].ref > 0)
    BY <2>1, <2>2, <2>3, <2>4
  <2>6. faults = 0 => object[k].body = "good"
    BY <2>5 DEF IInv, CloudInv, Cloud!NoObject
  <2>7. QED
    BY <2>5, <2>6
<1>2. QED
  BY <1>1, Invariant, PTL
=============================================================================
