------------------------ MODULE StorageMgrCalmProofs ------------------------
(***************************************************************************)
(* Proofs about StorageMgr while the daemon lives, which need more of the  *)
(* files and of the answers than IInv says: no assert fails, and get finds *)
(* every block that a file refers to.                                      *)
(***************************************************************************)
EXTENDS StorageMgrProofs

(* No death so far, and no lack of room. *)
Calm == crashes = 0 /\ ~DiskFull

(* A file is complete, but for the one that a put is about to complete.    *)
FilesAreWhole ==
  \A k \in Keys : \/ file[k].st \in {"none", "full"}
                  \/ \E t \in Threads : dpc[t] \in {"head", "body"} /\ dkey[t] = k

(* No assert of the memory tier or the disk tier has failed.               *)
NoLocalAbort == \A t \in Threads : pc[t] # "abort" /\ dpc[t] \in Disk!Steps

(* A get that is past the memory tier found the block there, or no file    *)
(* refers to it.                                                           *)
GetFound ==
  \A t \in Threads : op[t] = "get" /\ pc[t] \in {"disk", "cloud", "exit"} =>
     \/ pc[t] = "exit" /\ blk[t] = "block"
     \/ fpRefs[key[t]] = 0

CalmInv == /\ crashes = 0 => GetFound
           /\ Calm => FilesAreWhole /\ NoLocalAbort

(* Only a death changes crashes, and it does not take it back to zero.     *)
LEMMA AliveBefore ==
  ASSUME TypeOK, [Next]_vars, crashes' = 0
  PROVE  crashes = 0 /\ ~Crash
<1>1. crashes \in Nat
  BY MgrBoundsAssumption DEF TypeOK
<1>2. ~Crash
  BY <1>1 DEF Crash
<1>3. QED
  BY <1>2 DEF Next, Step, Call, MgrAcquire, MemPut, MemGet, MemRemove, DiskEnter, DiskStep, CloudEnter,
              CloudStep, MgrRelease, vars

(* Before memory's part of a call, memory counts the fingerprints.         *)
LEMMA MemIsCurrent ==
  ASSUME IInv, crashes = 0, NEW t \in Threads, pc[t] = "mem"
  PROVE  fpRefs[key[t]] = Mem!Ref(key[t])
<1>1. mgrLock = t /\ key[t] \in Keys /\ Mem!Ref(key[t]) \in Nat
  BY CountTypes DEF IInv, CallsInv, TypeOK
<1>2. ~MemDone
  BY <1>1 DEF MemDone
<1>3. MemCount(key[t]) = Mem!Ref(key[t])
  BY <1>1, <1>2 DEF MemCount, InHand
<1>4. QED
  BY <1>1, <1>3 DEF IInv, MemAgrees

(* get returns what memory has; nothing changes the answer later, nor the  *)
(* fingerprints while the call lasts.                                      *)
LEMMA GetFoundStep ==
  ASSUME IInv, crashes = 0, GetFound, [Next]_vars, ~Crash
  PROVE  GetFound'
<1> USE DEF GetFound, At, Goto, memVars, diskVars, cloudVars, callVars
<1>1. /\ pc \in [Threads -> PCs] /\ blk \in [Threads -> Mem!Answers]
      /\ key \in [Threads -> Keys] /\ op \in [Threads -> Ops \cup {"none"}]
  BY DEF IInv, TypeOK, Mem!TypeOK
<1>2. ASSUME NEW t \in Threads, NEW o \in Ops, NEW k \in Keys, Call(t, o, k)
      PROVE  GetFound'
  BY <1>1, <1>2 DEF Call
<1>3. ASSUME NEW t \in Threads, MgrAcquire(t) \/ MemPut(t) \/ MemRemove(t)
      PROVE  GetFound'
  BY <1>1, <1>3 DEF MgrAcquire, MemPut, MemRemove, Mem!Put, Mem!Dereference
<1>4. ASSUME NEW t \in Threads, MemGet(t)
      PROVE  GetFound'
  <2>1. fpRefs[key[t]] = Mem!Ref(key[t])
    BY <1>4, MemIsCurrent DEF MemGet
  <2>2. /\ pc' = [pc EXCEPT ![t] = IF Mem!Cached(key[t]) THEN "exit" ELSE "disk"]
        /\ blk' = [blk EXCEPT ![t] = IF Mem!Cached(key[t]) THEN "block" ELSE "NULL"]
        /\ UNCHANGED <<op, key, fpRefs>>
    BY <1>4 DEF MemGet, Mem!Get
  <2>3. CASE Mem!Cached(key[t])
    BY <1>1, <2>2, <2>3
  <2>4. CASE ~Mem!Cached(key[t])
    BY <1>1, <2>1, <2>2, <2>4 DEF Mem!Ref
  <2>5. QED
    BY <2>3, <2>4
<1>5. ASSUME NEW t \in Threads, DiskEnter(t) \/ DiskStep(t) \/ CloudEnter(t) \/ CloudStep(t)
      PROVE  GetFound'
  <2>1. /\ pc[t] \in {"disk", "cloud"} /\ UNCHANGED <<blk, op, key, fpRefs>>
        /\ \E s \in {"disk", "cloud", "exit"} : pc' = [pc EXCEPT ![t] = s]
    BY <1>5 DEF DiskEnter, DiskStep, CloudEnter, CloudStep
  <2>2. QED
    BY <1>1, <2>1
<1>6. ASSUME NEW t \in Threads, MgrRelease(t)
      PROVE  GetFound'
  <2>1. \A u \in Threads \ {t} : pc[u] \in {"idle", "mgr"}
    BY <1>6, OthersIdle DEF MgrRelease, IInv
  <2>2. pc' = [pc EXCEPT ![t] = "idle"]
    BY <1>6 DEF MgrRelease
  <2>3. QED
    BY <1>1, <2>1, <2>2
<1>7. CASE UNCHANGED vars
  BY <1>7 DEF vars
<1>8. QED
  BY <1>2, <1>3, <1>4, <1>5, <1>6, <1>7 DEF Next, Step

(* A remove finds its key in memory.                                       *)
LEMMA MemRemoveFinds ==
  ASSUME IInv, crashes = 0, NEW t \in Threads, MemRemove(t)
  PROVE  Mem!Cached(key[t])
<1>1. fpRefs[key[t]] = Mem!Ref(key[t])
  BY MemIsCurrent DEF MemRemove, At
<1>2. fpRefs[key[t]] > 0
  BY RemoveHasReference DEF MemRemove, At, IInv
<1>3. QED
  BY <1>1, <1>2 DEF Mem!Ref

(* A call in the disk tier meets complete files only, which pass its       *)
(* asserts, and leaves an incomplete one only while it is in its own put.  *)
LEMMA CalmDiskEnter ==
  ASSUME IInv, Calm, FilesAreWhole, NoLocalAbort, NEW t \in Threads, DiskEnter(t), IInv'
  PROVE  FilesAreWhole' /\ NoLocalAbort'
<1> USE DEF At, Goto, Calm, FilesAreWhole, NoLocalAbort
<1>1. /\ pc \in [Threads -> PCs] /\ dpc \in [Threads -> Disk!Steps \cup Disk!AbortSites]
      /\ dkey \in [Threads -> Keys] /\ key[t] \in Keys
      /\ file \in [Keys -> [st : Disk!FileStates, ref : Nat]]
  BY DEF IInv, TypeOK, Disk!TypeOK
<1>2. pc[t] = "disk" /\ dpc[t] = "idle" /\ \A u \in Threads : dpc[u] = "idle"
  BY OthersIdle
     DEF DiskEnter, Disk!Put, Disk!PutOpen, Disk!PutCreate, Disk!Get, Disk!GetMiss, Disk!GetHit,
         Disk!GetAborts, Disk!DereferenceOpen, Disk!Enter, IInv
<1>3. \A k \in Keys : file[k].st \in {"none", "full"}
  BY <1>2
<1>4. file[key[t]].st = "full" => Disk!HasHeader(key[t]) /\ file[key[t]].ref > 0
  BY <1>1 DEF Disk!HasHeader, IInv, DiskInv, Disk!CountsPositive
<1>5. pc' = [pc EXCEPT ![t] = IF dpc'[t] = "idle" THEN "cloud" ELSE "disk"]
  BY DEF DiskEnter
<1>6. \A u \in Threads : pc'[u] # "abort"
  BY <1>1, <1>5
<1>7. CASE Disk!PutCreate(t, key[t])
  <2>1. /\ file' = [file EXCEPT ![key[t]] = [st |-> "empty", ref |-> 0]]
        /\ dpc' = [dpc EXCEPT ![t] = "head"] /\ dkey' = [dkey EXCEPT ![t] = key[t]]
    BY <1>7 DEF Disk!PutCreate, Disk!Goto
  <2>2. FilesAreWhole'
    BY <1>1, <1>3, <2>1
  <2>3. NoLocalAbort'
    BY <1>1, <1>6, <2>1 DEF Disk!Steps
  <2>4. QED
    BY <2>2, <2>3
<1>8. CASE ~Disk!PutCreate(t, key[t])
  <2>1. file' = file
    BY <1>8 DEF DiskEnter, Disk!Put, Disk!PutOpen, Disk!Get, Disk!GetMiss, Disk!GetHit, Disk!GetAborts,
                Disk!DereferenceOpen
  <2>2. dpc' = dpc \/ \E s \in {"bump", "deref"} : dpc' = [dpc EXCEPT ![t] = s]
    <3>1. CASE op[t] = "put"
      <4>1. Disk!PutOpen(t, key[t])
        BY <1>8, <3>1 DEF DiskEnter, Disk!Put
      <4>2. file[key[t]].st = "full"
        BY <1>1, <1>3, <4>1 DEF Disk!PutOpen, Disk!Exists
      <4>3. Disk!AfterHeader(key[t], "bump") = "bump"
        BY <1>1, <1>4, <4>2 DEF Disk!AfterHeader
      <4>4. QED
        BY <4>1, <4>3 DEF Disk!PutOpen, Disk!Goto
    <3>2. CASE op[t] = "get"
      BY <1>1, <1>3, <3>2 DEF DiskEnter, Disk!Get, Disk!GetMiss, Disk!GetHit, Disk!GetAborts
    <3>3. CASE op[t] = "remove"
      <4>1. /\ Disk!DereferenceOpen(t, key[t]) /\ op' = op
            /\ pc'[t] = IF dpc'[t] = "idle" THEN "cloud" ELSE "disk"
        BY <1>1, <1>5, <3>3 DEF DiskEnter, callVars
      <4>2. \E s \in {"noFile", "badHeader", "badRef", "deref"} : dpc' = [dpc EXCEPT ![t] = s]
        BY <4>1 DEF Disk!DereferenceOpen, Disk!Goto, Disk!AfterHeader
      <4>3. dpc'[t] \in {"idle", "deref"}
        BY <1>1, <3>3, <4>1, <4>2 DEF IInv, DiskDereferenceSafe
      <4>4. QED
        BY <1>1, <4>2, <4>3
    <3>4. QED
      BY <3>1, <3>2, <3>3 DEF DiskEnter
  <2>3. NoLocalAbort'
    BY <1>1, <1>6, <2>2 DEF Disk!Steps
  <2>4. QED
    BY <1>3, <2>1, <2>3
<1>9. QED
  BY <1>7, <1>8

(* Within a call the put completes its file; with room, none of its writes *)
(* is short.                                                               *)
LEMMA CalmDiskStep ==
  ASSUME IInv, Calm, FilesAreWhole, NoLocalAbort, NEW t \in Threads, DiskStep(t)
  PROVE  FilesAreWhole' /\ NoLocalAbort'
<1> USE DEF At, Goto, Calm, FilesAreWhole, NoLocalAbort, Disk!Steps
<1>1. /\ pc \in [Threads -> PCs] /\ dpc \in [Threads -> Disk!Steps \cup Disk!AbortSites]
      /\ dkey \in [Threads -> Keys] /\ dkey[t] \in Keys /\ pc[t] = "disk"
      /\ file \in [Keys -> [st : Disk!FileStates, ref : Nat]]
  BY DEF IInv, TypeOK, Disk!TypeOK, DiskStep
<1>2. \A u \in Threads \ {t} : dpc[u] = "idle"
  BY <1>1, OthersIdle DEF IInv
<1>3. \A k \in Keys \ {dkey[t]} : file[k].st \in {"none", "full"}
  BY <1>2
<1>4. \A u \in Threads : pc'[u] # "abort"
  BY <1>1 DEF DiskStep
<1>5. CASE Disk!PutHead(t)
  <2>1. /\ file' = [file EXCEPT ![dkey[t]] = [st |-> "head", ref |-> 1]]
        /\ dpc' = [dpc EXCEPT ![t] = "body"] /\ dkey'[t] = dkey[t]
    BY <1>1, <1>5 DEF Disk!PutHead, Disk!Goto
  <2>2. FilesAreWhole'
    BY <1>1, <1>3, <2>1
  <2>3. QED
    BY <1>1, <1>4, <2>1, <2>2
<1>6. CASE Disk!PutBump(t) \/ Disk!PutBody(t) \/ Disk!DereferenceWrite(t)
  <2>1. dpc' = [dpc EXCEPT ![t] = "idle"]
    BY <1>6 DEF Disk!PutBump, Disk!PutBody, Disk!DereferenceWrite, Disk!Leave
  <2>2. dpc[t] \in {"bump", "deref"} => file[dkey[t]].st \in {"none", "full"}
    BY <1>1, <1>2
  <2>3. \A k \in Keys : file'[k].st \in {"none", "full"}
    <3>1. CASE Disk!PutBump(t)
      BY <1>1, <1>3, <2>2, <3>1 DEF Disk!PutBump, Disk!FileWith
    <3>2. CASE Disk!PutBody(t)
      BY <1>1, <1>3, <3>2 DEF Disk!PutBody
    <3>3. CASE Disk!DereferenceWrite(t)
      BY <1>1, <1>3, <2>2, <3>3 DEF Disk!DereferenceWrite, Disk!FileWith, Disk!NoFile
    <3>4. QED
      BY <1>6, <3>1, <3>2, <3>3
  <2>4. QED
    BY <1>1, <1>4, <2>1, <2>3
<1>7. QED
  BY <1>5, <1>6 DEF DiskStep, Disk!Step, Disk!PutHeadShort, Disk!PutBodyShort

(* Every step of a daemon that lives.                                      *)
LEMMA CalmStep ==
  ASSUME IInv, IInv', CalmInv, [Next]_vars
  PROVE  CalmInv'
<1>1. SUFFICES ASSUME crashes' = 0
               PROVE  GetFound' /\ (~DiskFull => FilesAreWhole' /\ NoLocalAbort')
  BY DEF CalmInv, Calm
<1>2. crashes = 0 /\ ~Crash /\ GetFound
  BY <1>1, AliveBefore DEF IInv, CalmInv
<1>3. GetFound'
  BY <1>2, GetFoundStep
<1>4. ASSUME ~DiskFull
      PROVE  FilesAreWhole' /\ NoLocalAbort'
  <2> USE DEF FilesAreWhole, NoLocalAbort, At, Goto, memVars, diskVars, cloudVars, callVars
  <2>1. Calm /\ FilesAreWhole /\ NoLocalAbort /\ pc \in [Threads -> PCs]
    BY <1>2, <1>4 DEF Calm, CalmInv, IInv, TypeOK
  <2>2. ASSUME NEW t \in Threads, NEW o \in Ops, NEW k \in Keys, Call(t, o, k)
        PROVE  FilesAreWhole' /\ NoLocalAbort'
    BY <2>1, <2>2 DEF Call
  <2>3. ASSUME NEW t \in Threads, MgrAcquire(t) \/ MemPut(t) \/ MemGet(t) \/ CloudEnter(t) \/ CloudStep(t)
        PROVE  FilesAreWhole' /\ NoLocalAbort'
    BY <2>1, <2>3 DEF MgrAcquire, MemPut, MemGet, CloudEnter, CloudStep
  <2>4. ASSUME NEW t \in Threads, MemRemove(t)
        PROVE  FilesAreWhole' /\ NoLocalAbort'
    <3>1. Mem!Cached(key[t])
      BY <1>2, <2>4, MemRemoveFinds
    <3>2. QED
      BY <2>1, <2>4, <3>1 DEF MemRemove, Mem!DereferenceAborts
  <2>5. ASSUME NEW t \in Threads, DiskEnter(t)
        PROVE  FilesAreWhole' /\ NoLocalAbort'
    BY <2>1, <2>5, CalmDiskEnter
  <2>6. ASSUME NEW t \in Threads, DiskStep(t)
        PROVE  FilesAreWhole' /\ NoLocalAbort'
    BY <2>1, <2>6, CalmDiskStep
  <2>7. ASSUME NEW t \in Threads, MgrRelease(t)
        PROVE  FilesAreWhole' /\ NoLocalAbort'
    BY <2>1, <2>7 DEF MgrRelease, ForgetAnswers
  <2>8. CASE UNCHANGED vars
    BY <2>1, <2>8 DEF vars
  <2>9. QED
    BY <1>2, <2>2, <2>3, <2>4, <2>5, <2>6, <2>7, <2>8 DEF Next, Step
<1>5. QED
  BY <1>3, <1>4

(* No file and no call at first.                                           *)
LEMMA InitCalm == Init => CalmInv
  BY DEF Init, Disk!Init, Disk!NoFile, Disk!Steps, CalmInv, GetFound, FilesAreWhole, NoLocalAbort

(* What is inductive of the files, the asserts and the answers, given IInv.*)
THEOREM CalmInvariant == Spec => []CalmInv
<1>1. IInv /\ IInv' /\ CalmInv /\ [Next]_vars => CalmInv'
  BY CalmStep
<1>2. QED
  BY <1>1, InitCalm, Invariant, PTL DEF Spec

(* NoAssertFails: until the daemon dies or a request fails, and while the  *)
(* device has room, no call fails an assert of any tier.                   *)
THEOREM AssertsHold == Spec => []NoAssertFails
<1>1. IInv /\ CalmInv => NoAssertFails
  BY DEF NoAssertFails, Aborted, Calm, CalmInv, NoLocalAbort, IInv, CloudInv, Disk!Aborted, Disk!Steps,
         Disk!AbortSites, Cloud!Aborted
<1>2. QED
  BY <1>1, Invariant, CalmInvariant, PTL

(* ReferencedBlockIsFound, of a daemon that has not died: get returns the  *)
(* block of every fingerprint that is in a file, full device or not and    *)
(* whatever requests fail.                                                 *)
THEOREM BlocksAreFound == Spec => [](crashes = 0 => ReferencedBlockIsFound)
<1>1. IInv /\ CalmInv => (crashes = 0 => ReferencedBlockIsFound)
  <2> SUFFICES ASSUME IInv, GetFound
               PROVE  ReferencedBlockIsFound
    BY DEF CalmInv
  <2>1. \A t \in Threads : fpRefs[key[t]] \in Nat
    BY DEF IInv, TypeOK
  <2>2. QED
    BY <2>1 DEF GetFound, ReferencedBlockIsFound
<1>2. QED
  BY <1>1, Invariant, CalmInvariant, PTL
=============================================================================
