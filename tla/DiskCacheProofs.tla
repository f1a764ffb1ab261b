-------------------------- MODULE DiskCacheProofs --------------------------
(***************************************************************************)
(* Proofs about DiskCache: whatever the threads do, and wherever a full    *)
(* device or a death stops them, the counts in the files stay positive, no *)
(* update of a count is lost, and complete files keep Storage's contract.  *)
(***************************************************************************)
EXTENDS DiskCache, TLAPS

(* The first step of a call, by a thread that finds the lock free.         *)
Call(t, k) == Put(t, k) \/ Get(t, k) \/ DereferenceOpen(t, k) \/ Remove(t, k)

(* A step is that of one thread, a restart, or nothing.                    *)
LEMMA DiskStepCases ==
  ASSUME [Next]_diskVars
  PROVE  \/ \E t \in Threads, k \in Keys : Call(t, k)
         \/ \E t \in Threads : Step(t)
         \/ Restart
         \/ UNCHANGED diskVars
BY DEF Next, Call

(* A call's first step keeps the domains.                                  *)
LEMMA CallType ==
  ASSUME TypeOK, NEW t \in Threads, NEW k \in Keys, Call(t, k)
  PROVE  TypeOK'
<1> USE DEF TypeOK, Enter, Goto, Steps, AbortSites, FileStates, Answers, NoFile
<1>1. AfterHeader(k, "bump") \in Steps \union AbortSites
      /\ AfterHeader(k, "deref") \in Steps \union AbortSites
  BY DEF AfterHeader
<1>2. CASE PutOpen(t, k)
  BY <1>1, <1>2 DEF PutOpen
<1>3. CASE PutCreate(t, k)
  BY <1>3 DEF PutCreate
<1>4. CASE Get(t, k)
  <2>1. CASE GetMiss(t, k)
    BY <2>1 DEF GetMiss
  <2>2. CASE GetHit(t, k)
    BY <2>2 DEF GetHit
  <2>3. CASE GetAborts(t, k)
    BY <2>3 DEF GetAborts
  <2>4. QED
    BY <1>4, <2>1, <2>2, <2>3 DEF Get
<1>5. CASE DereferenceOpen(t, k)
  BY <1>1, <1>5 DEF DereferenceOpen
<1>6. CASE Remove(t, k)
  BY <1>6 DEF Remove
<1>7. QED
  BY <1>2, <1>3, <1>4, <1>5, <1>6 DEF Call, Put

(* So does every later step: a count is only lowered when it is above one. *)
LEMMA StepType ==
  ASSUME TypeOK, NEW t \in Threads, Step(t)
  PROVE  TypeOK'
<1> USE DEF TypeOK, Leave, Goto, Steps, AbortSites, FileStates, NoFile, FileWith
<1>1. dkey[t] \in Keys /\ dref[t] \in Nat /\ file[dkey[t]] \in [st : FileStates, ref : Nat]
  OBVIOUS
<1>2. CASE PutBump(t)
  BY <1>1, <1>2 DEF PutBump
<1>3. CASE PutHead(t) \/ PutHeadShort(t)
  BY <1>1, <1>3 DEF PutHead, PutHeadShort
<1>4. CASE PutBody(t) \/ PutBodyShort(t)
  <2>1. PICK s \in {"head", "part", "full"} :
          file' = [file EXCEPT ![dkey[t]] = [st |-> s, ref |-> file[dkey[t]].ref]]
    BY <1>4 DEF PutBody, PutBodyShort
  <2>2. file' \in [Keys -> [st : FileStates, ref : Nat]]
    BY <1>1, <2>1
  <2>3. CASE PutBody(t)
    BY <2>2, <2>3 DEF PutBody
  <2>4. CASE PutBodyShort(t)
    BY <2>2, <2>4 DEF PutBodyShort
  <2>5. QED
    BY <1>4, <2>3, <2>4
<1>5. CASE DereferenceWrite(t)
  BY <1>1, <1>5 DEF DereferenceWrite
<1>6. QED
  BY <1>2, <1>3, <1>4, <1>5 DEF Step

(* A call begins while no thread is within one, and leaves the files as    *)
(* they are but for the one it creates or removes.                         *)
LEMMA CallKeeps ==
  ASSUME IInv, NEW t \in Threads, NEW k \in Keys, Call(t, k)
  PROVE  CountsPositive' /\ CountReadIsCurrent' /\ OneCall' /\ NewFile'
<1> USE NoThreadAssumption DEF IInv, TypeOK, CountsPositive, CountReadIsCurrent, OneCall, NewFile
<1>1. (\A u \in Threads : dpc[u] = "idle") /\ diskLock = NoThread
  BY DEF Call, Put, Get, PutOpen, PutCreate, GetMiss, GetHit, GetAborts, DereferenceOpen,
         Remove, Enter
<1> USE DEF Goto, HasHeader, Exists, NoFile, FileStates
<1>2. CASE PutOpen(t, k)
  BY <1>1, <1>2 DEF PutOpen, AfterHeader
<1>3. CASE PutCreate(t, k)
  BY <1>1, <1>3 DEF PutCreate
<1>4. CASE GetMiss(t, k) \/ GetHit(t, k)
  BY <1>1, <1>4 DEF GetMiss, GetHit
<1>5. CASE GetAborts(t, k)
  BY <1>1, <1>5 DEF GetAborts
<1>6. CASE DereferenceOpen(t, k)
  BY <1>1, <1>6 DEF DereferenceOpen, AfterHeader
<1>7. CASE Remove(t, k)
  BY <1>1, <1>7 DEF Remove
<1>8. QED
  BY <1>2, <1>3, <1>4, <1>5, <1>6, <1>7 DEF Call, Put, Get

(* A later step is that of the only thread within a call, and writes no    *)
(* count but the one it read or the first one.                             *)
LEMMA StepKeeps ==
  ASSUME IInv, NEW t \in Threads, Step(t)
  PROVE  CountsPositive' /\ CountReadIsCurrent' /\ OneCall' /\ NewFile'
<1> USE DEF IInv, TypeOK, CountsPositive, CountReadIsCurrent, OneCall, NewFile
<1>1. \A u \in Threads : u # t => dpc[u] = "idle"
  BY DEF Step, PutBump, PutHead, PutHeadShort, PutBody, PutBodyShort, DereferenceWrite
<1>2. dkey[t] \in Keys /\ dref[t] \in Nat /\ file[dkey[t]] \in [st : FileStates, ref : Nat]
  OBVIOUS
<1> USE DEF Goto, Leave, HasHeader, NoFile, FileStates, FileWith
<1>3. CASE PutBump(t)
  BY <1>1, <1>2, <1>3 DEF PutBump
<1>4. CASE PutHead(t)
  BY <1>1, <1>2, <1>4 DEF PutHead
<1>5. CASE PutHeadShort(t)
  BY <1>1, <1>2, <1>5 DEF PutHeadShort
<1>6. CASE PutBody(t)
  BY <1>1, <1>2, <1>6 DEF PutBody
<1>7. CASE PutBodyShort(t)
  <2>1. PICK s \in {"head", "part"} :
          file' = [file EXCEPT ![dkey[t]] = [st |-> s, ref |-> file[dkey[t]].ref]]
    BY <1>7 DEF PutBodyShort
  <2>2. /\ dpc' = [dpc EXCEPT ![t] = "shortWrite"]
        /\ dkey' = dkey /\ diskLock' = t /\ dref' = dref
        /\ file[dkey[t]] = [st |-> "head", ref |-> 1]
    BY <1>7 DEF PutBodyShort
  <2>3. QED
    BY <1>1, <1>2, <2>1, <2>2
<1>8. CASE DereferenceWrite(t)
  BY <1>1, <1>2, <1>8 DEF DereferenceWrite
<1>9. QED
  BY <1>3, <1>4, <1>5, <1>6, <1>7, <1>8 DEF Step

(* The strengthening is inductive.  A restart leaves no thread in a call,  *)
(* and every file as it is.                                                *)
LEMMA DiskInit == Init => IInv
BY DEF Init, IInv, TypeOK, CountsPositive, CountReadIsCurrent, OneCall, NewFile, HasHeader,
       NoFile, FileStates, Steps, Answers

LEMMA DiskStep ==
  ASSUME IInv, [Next]_diskVars
  PROVE  IInv'
<1>1. CASE \E t \in Threads, k \in Keys : Call(t, k)
  BY <1>1, CallType, CallKeeps DEF IInv
<1>2. CASE \E t \in Threads : Step(t)
  BY <1>2, StepType, StepKeeps DEF IInv
<1>3. CASE Restart
  <2> USE DEF Restart, IInv
  <2>1. TypeOK'
    BY <1>3 DEF TypeOK, Steps, Answers
  <2>2. CountsPositive'
    BY <1>3 DEF CountsPositive, HasHeader
  <2>3. CountReadIsCurrent' /\ OneCall' /\ NewFile'
    BY <1>3 DEF CountReadIsCurrent, OneCall, NewFile
  <2>4. QED
    BY <2>1, <2>2, <2>3
<1>4. CASE UNCHANGED diskVars
  BY <1>4 DEF diskVars, IInv, TypeOK, CountsPositive, CountReadIsCurrent, OneCall, NewFile,
              HasHeader
<1>5. QED
  BY <1>1, <1>2, <1>3, <1>4, DiskStepCases

(* The disk tier keeps its inductive invariant: the domains, the exclusion *)
(* of the callers, and what a new file holds while it is being written.    *)
THEOREM DiskInvariant == Spec => []IInv
<1>1. IInv /\ [Next]_diskVars => IInv'
  BY DiskStep
<1>2. QED
  BY <1>1, DiskInit, PTL DEF Spec

(* The asserts on a count (DiskCache.cpp lines 48 and 113) never fail: no  *)
(* crash, however many, leaves a header that holds a zero.                 *)
THEOREM CountsStayPositive == Spec => []CountsPositive
<1>1. IInv => CountsPositive
  BY DEF IInv
<1>2. QED
  BY <1>1, DiskInvariant, PTL

(* No update of a count is lost: what a call read is what it writes over.  *)
THEOREM CountsAreWrittenAsRead == Spec => []CountReadIsCurrent
<1>1. IInv => CountReadIsCurrent
  BY DEF IInv
<1>2. QED
  BY <1>1, DiskInvariant, PTL

(* Which step can change a file, and how: one key's, by the thread at work *)
(* on it.                                                                  *)
LEMMA FileStep ==
  ASSUME IInv, [Next]_diskVars
  PROVE  \/ file' = file
         \/ \E t \in Threads :
              \/ PutBump(t) \/ PutHead(t) \/ PutBody(t) \/ PutBodyShort(t) \/ DereferenceWrite(t)
         \/ \E t \in Threads, k \in Keys : PutCreate(t, k) \/ Remove(t, k)
<1>1. ASSUME NEW t \in Threads, NEW k \in Keys, Call(t, k)
      PROVE  file' = file \/ PutCreate(t, k) \/ Remove(t, k)
  BY <1>1 DEF Call, Put, Get, PutOpen, GetMiss, GetHit, GetAborts, DereferenceOpen
<1>2. ASSUME NEW t \in Threads, Step(t)
      PROVE  \/ file' = file
             \/ PutBump(t) \/ PutHead(t) \/ PutBody(t) \/ PutBodyShort(t) \/ DereferenceWrite(t)
  BY <1>2 DEF Step, PutHeadShort
<1>3. Restart \/ UNCHANGED diskVars => file' = file
  BY DEF Restart, diskVars
<1>4. QED
  BY <1>1, <1>2, <1>3, DiskStepCases

(* A torn file is completed by nobody: only the thread that is writing the *)
(* block of the file it created makes it full.                             *)
LEMMA CompletingStep ==
  ASSUME IInv, [Next]_diskVars, NEW k \in Keys, file'[k].st = "full", file[k].st # "full"
  PROVE  \E t \in Threads : dpc[t] = "body" /\ dkey[t] = k
<1> USE DEF IInv, TypeOK, NoFile, FileWith
<1>1. ASSUME NEW t \in Threads,
             PutBump(t) \/ PutHead(t) \/ PutBody(t) \/ PutBodyShort(t) \/ DereferenceWrite(t)
      PROVE  dpc[t] = "body" /\ dkey[t] = k
  <2>1. CASE PutBump(t)
    BY <2>1 DEF PutBump
  <2>2. CASE PutHead(t)
    BY <2>2 DEF PutHead
  <2>3. CASE PutBody(t)
    BY <2>3 DEF PutBody
  <2>4. CASE PutBodyShort(t)
    <3>1. PICK s \in {"head", "part"} :
            file' = [file EXCEPT ![dkey[t]] = [st |-> s, ref |-> file[dkey[t]].ref]]
      BY <2>4 DEF PutBodyShort
    <3>2. QED
      BY <3>1
  <2>5. CASE DereferenceWrite(t)
    BY <2>5 DEF DereferenceWrite
  <2>6. QED
    BY <1>1, <2>1, <2>2, <2>3, <2>4, <2>5
<1>2. ASSUME NEW t \in Threads, NEW j \in Keys, PutCreate(t, j) \/ Remove(t, j)
      PROVE  FALSE
  <2>1. CASE PutCreate(t, j)
    BY <2>1 DEF PutCreate
  <2>2. CASE Remove(t, j)
    BY <2>2 DEF Remove
  <2>3. QED
    BY <1>2, <2>1, <2>2
<1>3. QED
  BY <1>1, <1>2, FileStep

(* A put that finds a torn file never stores the block: the tier keeps a   *)
(* file without its block until the file is removed.                       *)
THEOREM TornFilesStayTorn == Spec => OnlyItsCreatorCompletesAFile
<1> DEFINE A == \A k \in Keys : file'[k].st = "full" /\ file[k].st # "full" =>
                  \E t \in Threads : dpc[t] = "body" /\ dkey[t] = k
<1>1. IInv /\ [Next]_diskVars => [A]_diskVars
  BY CompletingStep
<1>2. Spec => [][A]_diskVars
  BY <1>1, DiskInvariant, PTL DEF Spec
<1>3. QED
  BY <1>2 DEF OnlyItsCreatorCompletesAFile

(* At the start there is no file, and no reference is given out.           *)
LEMMA ReferencesInit == Init => Contract!Init
BY DEF Init, NoFile, References, Contract!Init

(* Only the step that completes a file, or the one that writes back the    *)
(* count of a complete one, is a put; a put that finds a torn file, a      *)
(* death and all the other steps are nothing Storage promises.             *)
LEMMA ReferencesStep ==
  ASSUME IInv, [Next]_diskVars
  PROVE  [Contract!Next]_References
<1> USE DEF IInv, TypeOK, FileStates
<1>1. CASE file' = file
  BY <1>1 DEF References
<1>2. ASSUME NEW t \in Threads, PutBump(t)
      PROVE  [Contract!Next]_References
  <2>1. dkey[t] \in Keys /\ file' = [file EXCEPT ![dkey[t]] = [st |-> file[dkey[t]].st, ref |-> file[dkey[t]].ref + 1]]
    BY <1>2 DEF PutBump, CountReadIsCurrent, FileWith
  <2>2. CASE file[dkey[t]].st = "full"
    <3>1. References' = [References EXCEPT ![dkey[t]] = @ + 1]
      BY <2>1, <2>2 DEF References
    <3>2. QED
      BY <2>1, <3>1 DEF Contract!Next, Contract!Put, References
  <2>3. CASE file[dkey[t]].st # "full"
    BY <2>1, <2>3 DEF References
  <2>4. QED
    BY <2>2, <2>3
<1>3. ASSUME NEW t \in Threads, PutBody(t)
      PROVE  [Contract!Next]_References
  <2>1. dkey[t] \in Keys /\ file[dkey[t]] = [st |-> "head", ref |-> 1]
    BY <1>3 DEF PutBody, NewFile
  <2>2. file' = [file EXCEPT ![dkey[t]] = [st |-> "full", ref |-> 1]]
    BY <1>3, <2>1 DEF PutBody
  <2>3. References[dkey[t]] + 1 = 1
    BY <2>1 DEF References
  <2>4. References' = [References EXCEPT ![dkey[t]] = 1]
    BY <2>1, <2>2 DEF References
  <2>5. QED
    BY <2>1, <2>3, <2>4 DEF Contract!Next, Contract!Put, References
<1>4. ASSUME NEW t \in Threads, PutHead(t) \/ PutBodyShort(t)
      PROVE  References' = References
  <2>1. dkey[t] \in Keys /\ file[dkey[t]].st # "full"
    BY <1>4 DEF PutHead, PutBodyShort, NewFile
  <2>2. PICK s \in {"head", "part"}, r \in Nat :
          file' = [file EXCEPT ![dkey[t]] = [st |-> s, ref |-> r]]
    BY <1>4, <2>1 DEF PutHead, PutBodyShort
  <2>3. QED
    BY <2>1, <2>2 DEF References
<1>5. ASSUME NEW t \in Threads, DereferenceWrite(t)
      PROVE  [Contract!Next]_References
  <2> DEFINE key == dkey[t]
             left == IF dref[t] > 1 THEN FileWith(key, dref[t] - 1) ELSE NoFile
  <2>1. key \in Keys /\ dref[t] \in Nat /\ file[key].ref = dref[t] /\ dref[t] > 0
    BY <1>5 DEF DereferenceWrite, CountReadIsCurrent, CountsPositive
  <2>2. file' = [file EXCEPT ![key] = left]
    BY <1>5 DEF DereferenceWrite
  <2>3. left.ref = dref[t] - 1 /\ (left.st = file[key].st \/ (left.st = "none" /\ left.ref = 0))
    BY <2>1 DEF FileWith, NoFile
  <2> HIDE DEF left
  <2>4. CASE file[key].st = "full"
    <3>1. References[key] = dref[t]
      BY <2>1, <2>4 DEF References
    <3>2. References' = [References EXCEPT ![key] = dref[t] - 1]
      <4>1. (IF left.st = "full" THEN left.ref ELSE 0) = dref[t] - 1
        BY <2>1, <2>3, <2>4
      <4>2. \A k \in Keys : file'[k] = IF k = key THEN left ELSE file[k]
        BY <2>1, <2>2
      <4>3. QED
        BY <2>1, <4>1, <4>2 DEF References
    <3>3. QED
      BY <2>1, <3>1, <3>2 DEF Contract!Next, Contract!Dereference
  <2>5. CASE file[key].st # "full"
    BY <2>1, <2>2, <2>3, <2>5 DEF References
  <2>6. QED
    BY <2>4, <2>5
<1>6. ASSUME NEW t \in Threads, NEW k \in Keys, PutCreate(t, k)
      PROVE  References' = References
  BY <1>6 DEF PutCreate, Exists, References
<1>7. ASSUME NEW t \in Threads, NEW k \in Keys, Remove(t, k)
      PROVE  [Contract!Next]_References
  <2>1. References' = [References EXCEPT ![k] = 0]
    BY <1>7 DEF Remove, NoFile, References
  <2>2. QED
    BY <2>1 DEF Contract!Next, Contract!Remove, References
<1>8. QED
  BY <1>1, <1>2, <1>3, <1>4, <1>5, <1>6, <1>7, FileStep

(* DiskCache implements Storage through every crash and every full device, *)
(* whatever the number of threads and keys.                                *)
THEOREM DiskImplementsStorage == Spec => ContractSpec
<1>1. IInv /\ [Next]_diskVars => [Contract!Next]_References
  BY ReferencesStep
<1>2. QED
  BY <1>1, ReferencesInit, DiskInvariant, PTL DEF Spec, ContractSpec, Contract!Spec
=============================================================================
