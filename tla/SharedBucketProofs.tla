------------------------- MODULE SharedBucketProofs -------------------------
(***************************************************************************)
(* Proofs about SharedBucket: what holds for any number of daemons, threads*)
(* and failed requests, and what holds of a daemon alone.                  *)
(***************************************************************************)
EXTENDS SharedBucket, TLAPS

(* A body that is no block is stored only with a negative count. *)
StoresInv == \A t \in Threads : cpc[t] = "store" /\ cbody[t] = "bad" => cref[t] < 0

Safe == TypeOK /\ BadBodyIsNegative /\ StoresInv

(* The first requests of the four operations. *)
Entry(t, k) == PutHead(t, k) \/ Get(t, k) \/ Fetch(t, k) \/ Remove(t, k)

(* A request, the first of its call or not, keeps the domains.             *)
LEMMA RequestType ==
  ASSUME CloudTypeOK, NEW t \in Threads, NEW k \in Keys, Entry(t, k) \/ Step(t)
  PROVE  CloudTypeOK'
<1> USE MaxFaultsAssumption, HostOfAssumption DEF CloudTypeOK
<1>1. NewObject(t) \in Objects /\ OldObject(t) \in Objects /\ NoObject \in Objects
  BY DEF NewObject, OldObject, NoObject, Objects, Bodies
<1>2. /\ ckey[t] \in Keys /\ HostOf[t] \in Hosts
      /\ object[k].ref \in Int /\ object[k].body \in Bodies
  BY DEF Objects
<1> USE DEF Steps, Answers, Bodies, Goto, Leave, Found, NotFound, Fault, Becomes, ChangeFails
<1>3. CASE PutHead(t, k)
  BY <1>2, <1>3 DEF PutHead
<1>4. CASE Get(t, k)
  BY <1>2, <1>4 DEF Get
<1>5. CASE Fetch(t, k)
  BY <1>2, <1>5 DEF Fetch
<1>6. CASE Remove(t, k)
  BY <1>1, <1>2, <1>6 DEF Remove
<1>7. CASE Upload(t) \/ UploadFails(t)
  BY <1>1, <1>2, <1>7 DEF Upload, UploadFails
<1>8. CASE Confirm(t)
  BY <1>2, <1>8 DEF Confirm
<1>9. CASE Delete(t)
  BY <1>1, <1>2, <1>9 DEF Delete
<1>10. CASE StoreBack(t) \/ StoreBackFails(t)
  BY <1>1, <1>2, <1>10 DEF StoreBack, StoreBackFails
<1>6a. QED
  BY <1>3, <1>4, <1>5, <1>6, <1>7, <1>8, <1>9, <1>10 DEF Entry, Step

(* A thread is within a call while it has its host's lock, and a request   *)
(* keeps it so: the one that takes a thread into a call takes the lock.    *)
LockInv == \A t \in Threads : cpc[t] # "idle" <=> cloudLock[HostOf[t]] = t

LEMMA RequestLock ==
  ASSUME CloudTypeOK, LockInv, NEW t \in Threads, NEW k \in Keys, Entry(t, k) \/ Step(t)
  PROVE  LockInv'
<1> USE HostOfAssumption, NobodyAssumption DEF CloudTypeOK, LockInv
<1>1. /\ \/ cpc[t] = "idle" /\ cloudLock[HostOf[t]] = NoThread
         \/ cloudLock[HostOf[t]] = t
      /\ \/ UNCHANGED <<cpc, cloudLock>>
         \/ /\ cloudLock' = [cloudLock EXCEPT ![HostOf[t]] = t]
            /\ \E s \in Steps \ {"idle"} : cpc' = [cpc EXCEPT ![t] = s]
         \/ /\ cloudLock' = [cloudLock EXCEPT ![HostOf[t]] = NoThread]
            /\ cpc' = [cpc EXCEPT ![t] = "idle"]
  <2> USE DEF Enter, Goto, Leave, ChangeFails, Steps
  <2>1. CASE Entry(t, k)
    BY <2>1 DEF Entry, PutHead, Get, Fetch, Remove
  <2>2. CASE Step(t)
    BY <2>2 DEF Step, Upload, UploadFails, Confirm, Delete, StoreBack, StoreBackFails
  <2>3. QED
    BY <2>1, <2>2
<1>2. QED
  BY <1>1

(* What a request changes apart from the bucket: the references held.      *)
LEMMA HeldStep ==
  ASSUME CloudTypeOK, held \in [Hosts -> [Keys -> Nat]], NEW t \in Threads, NEW k \in Keys,
         \/ CallPut(t, k) \/ CallGet(t, k) \/ CallDereference(t, k) \/ CallRemove(t, k)
         \/ Continue(t)
  PROVE  held' \in [Hosts -> [Keys -> Nat]]
<1> USE HostOfAssumption DEF CloudTypeOK
<1>1. CASE CallPut(t, k) \/ CallGet(t, k) \/ CallDereference(t, k)
  BY <1>1 DEF CallPut, CallGet, CallDereference
<1>2. CASE CallRemove(t, k)
  BY <1>2 DEF CallRemove
<1>3. CASE Continue(t)
  <2>1. HostOf[t] \in Hosts /\ ckey[t] \in Keys /\ held[HostOf[t]][ckey[t]] \in Nat
    OBVIOUS
  <2>2. CASE held' = held
    BY <2>2
  <2> DEFINE c == held[HostOf[t]][ckey[t]]
             with(n) == [held EXCEPT ![HostOf[t]][ckey[t]] = n]
  <2>3. ASSUME NEW n \in Nat
        PROVE  with(n) \in [Hosts -> [Keys -> Nat]]
    BY <2>1
  <2>4. held' = held \/ held' = with(c + 1) \/ held' = with(IF c > 0 THEN c - 1 ELSE 0)
    BY <1>3 DEF Continue
  <2>5. c + 1 \in Nat /\ (IF c > 0 THEN c - 1 ELSE 0) \in Nat
    BY <2>1
  <2> HIDE DEF c, with
  <2>6. QED
    BY <2>2, <2>3, <2>4, <2>5
<1>4. QED
  BY <1>1, <1>2, <1>3

(* A step of the system is a request of one thread, a death, or nothing.   *)
LEMMA StepCases ==
  ASSUME CloudTypeOK, [Next]_vars
  PROVE  \/ \E t \in Threads, k \in Keys :
              /\ \/ CallPut(t, k) \/ CallGet(t, k) \/ CallDereference(t, k) \/ CallRemove(t, k)
                 \/ Continue(t)
              /\ Entry(t, k) \/ Step(t)
              /\ crashes' = crashes
         \/ \E h \in Hosts : Crash(h)
         \/ UNCHANGED vars
<1>1. ASSUME NEW t \in Threads, Continue(t)
      PROVE  ckey[t] \in Keys /\ Step(t) /\ crashes' = crashes
  BY <1>1 DEF Continue, CloudTypeOK
<1>2. ASSUME NEW t \in Threads, NEW k \in Keys,
             CallPut(t, k) \/ CallGet(t, k) \/ CallDereference(t, k) \/ CallRemove(t, k)
      PROVE  Entry(t, k) /\ crashes' = crashes
  BY <1>2 DEF CallPut, CallGet, CallDereference, CallRemove, Entry
<1>3. QED
  BY <1>1, <1>2 DEF Next

(* Every step keeps the domains and the exclusion of the host's threads.   *)
LEMMA BucketTypeStep ==
  ASSUME TypeOK, [Next]_vars
  PROVE  TypeOK'
<1>1. CloudTypeOK /\ LockInv /\ held \in [Hosts -> [Keys -> Nat]]
  BY DEF TypeOK, LockInv
<1>2. ASSUME NEW t \in Threads, NEW k \in Keys,
             \/ CallPut(t, k) \/ CallGet(t, k) \/ CallDereference(t, k) \/ CallRemove(t, k)
             \/ Continue(t),
             Entry(t, k) \/ Step(t)
      PROVE  TypeOK'
  BY <1>1, <1>2, RequestType, RequestLock, HeldStep DEF TypeOK, LockInv
<1>3. ASSUME NEW h \in Hosts, Crash(h)
      PROVE  TypeOK'
  <2>1. CloudTypeOK'
    BY <1>1, <1>3 DEF Crash, Restart, CloudTypeOK, Steps, Bodies, Answers
  <2>2. LockInv'
    BY <1>1, <1>3, HostOfAssumption, NobodyAssumption DEF Crash, Restart, CloudTypeOK, LockInv
  <2>3. held' = held
    BY <1>3 DEF Crash
  <2>4. QED
    BY <1>1, <2>1, <2>2, <2>3 DEF TypeOK, LockInv
<1>4. CASE UNCHANGED vars
  BY <1>4 DEF vars, cloudVars, TypeOK, CloudTypeOK
<1>5. QED
  <2>1. CASE \E h \in Hosts : Crash(h)
    BY <1>3, <2>1
  <2>2. ASSUME NEW t \in Threads, NEW k \in Keys,
               \/ CallPut(t, k) \/ CallGet(t, k) \/ CallDereference(t, k) \/ CallRemove(t, k)
               \/ Continue(t),
               Entry(t, k) \/ Step(t)
        PROVE  TypeOK'
    BY <1>2, <2>2
  <2>3. QED
    BY <1>1, <1>4, <2>1, <2>2, StepCases

(* dereference computes the new count from the body's own count, and from  *)
(* none makes -1: so what it uploads keeps a bad body's count negative.    *)
LEMMA SafeStep ==
  ASSUME Safe, [Next]_vars
  PROVE  Safe'
<1>1. TypeOK' /\ TypeOK /\ CloudTypeOK
  BY BucketTypeStep DEF Safe, TypeOK
<1> USE DEF BadBodyIsNegative, StoresInv
<1>2. ASSUME NEW t \in Threads, NEW k \in Keys, Entry(t, k) \/ Step(t)
      PROVE  BadBodyIsNegative' /\ StoresInv'
  <2>1. \A q \in Keys : object[q].ref \in Int /\ object[q].body \in Bodies
    BY <1>1 DEF CloudTypeOK, Objects
  <2> USE <1>1, <2>1 DEF Safe, CloudTypeOK, Goto, Leave, Becomes, ChangeFails, Found, NotFound, Fault, Exists
  <2>2. CASE PutHead(t, k)
    BY <2>2 DEF PutHead
  <2>3. CASE Get(t, k)
    BY <2>3 DEF Get
  <2>4. CASE Fetch(t, k)
    BY <2>4 DEF Fetch
  <2>5. CASE Remove(t, k)
    BY <2>5 DEF Remove, NoObject
  <2>6. CASE Upload(t) \/ UploadFails(t)
    BY <2>6 DEF Upload, UploadFails, NewObject
  <2>7. CASE Confirm(t)
    BY <2>7 DEF Confirm
  <2>8. CASE Delete(t)
    BY <2>8 DEF Delete, NoObject
  <2>9. CASE StoreBack(t) \/ StoreBackFails(t)
    BY <2>9 DEF StoreBack, StoreBackFails, OldObject
  <2>10. QED
    BY <1>2, <2>2, <2>3, <2>4, <2>5, <2>6, <2>7, <2>8, <2>9 DEF Entry, Step
<1>3. ASSUME NEW h \in Hosts, Crash(h)
      PROVE  BadBodyIsNegative' /\ StoresInv'
  BY <1>3 DEF Safe, Crash, Restart
<1>4. ASSUME UNCHANGED vars
      PROVE  BadBodyIsNegative' /\ StoresInv'
  BY <1>4 DEF Safe, vars, cloudVars
<1>5. BadBodyIsNegative' /\ StoresInv'
  <2> HIDE DEF BadBodyIsNegative, StoresInv
  <2>1. CASE \E h \in Hosts : Crash(h)
    BY <1>3, <2>1
  <2>2. CASE \E t \in Threads, k \in Keys : Entry(t, k) \/ Step(t)
    BY <1>2, <2>2
  <2>3. QED
    BY <1>1, <1>4, <2>1, <2>2, StepCases
<1>6. QED
  BY <1>1, <1>5 DEF Safe

(* The bucket is empty at first. *)
LEMMA InitSafe == BucketInit => Safe
  BY HostOfAssumption, NobodyAssumption, MaxFaultsAssumption
     DEF BucketInit, Init, Safe, TypeOK, CloudTypeOK, BadBodyIsNegative, StoresInv,
         NoObject, Objects, Bodies, Steps, Answers

(* TypeOK of SharedBucket, for any daemons and threads. *)
THEOREM BucketTypes == Spec => []TypeOK
<1>1. Safe => TypeOK
  BY DEF Safe
<1>2. QED
  BY <1>1, InitSafe, SafeStep, PTL DEF Spec

(* BadBodyIsNegative: however many daemons use the bucket, however their   *)
(* requests fail and whenever they die, an object that holds no block is   *)
(* known by its negative count.                                            *)
THEOREM BadBodiesAreNegative == Spec => []BadBodyIsNegative
<1>1. Safe => BadBodyIsNegative
  BY DEF Safe
<1>2. QED
  BY <1>1, InitSafe, SafeStep, PTL DEF Spec

-----------------------------------------------------------------------------
(* A daemon alone in the bucket, none of whose requests fails.             *)
Alone == MaxFaults = 0 /\ \E h : Hosts = {h}

(* No object but blocks, and those with a count; nobody holds more than is *)
(* counted, nor does the put that is about to return.                      *)
CountsBlocks == \A k \in Keys : \/ object[k].body = "none" /\ object[k].ref = 0
                                \/ object[k].body = "good" /\ object[k].ref > 0

HeldIsCounted == \A h \in Hosts, k \in Keys : held[h][k] <= object[k].ref

PutIsCounted == \A t \in Threads :
  cpc[t] = "confirm" => held[HostOf[t]][ckey[t]] < object[ckey[t]].ref

BodyIsRead == \A t \in Threads :
  /\ cpc[t] = "store" => cbody[t] = "good" /\ cref[t] # 0
  /\ cpc[t] = "delete" => cref[t] = 0

AInv == /\ TypeOK /\ CountsBlocks /\ HeldIsCounted /\ PutIsCounted
        /\ BodyIsRead /\ CountReadIsCurrent

(* The entries: nobody else is within a call, so only t's locals matter.   *)
LEMMA AloneCalls ==
  ASSUME Alone, AInv, TypeOK', NEW t \in Threads, NEW k \in Keys,
         CallPut(t, k) \/ CallGet(t, k) \/ CallDereference(t, k) \/ CallRemove(t, k)
  PROVE  AInv'
<1> DEFINE h == HostOf[t]
<1>1. /\ h \in Hosts /\ cloudLock[h] = NoThread /\ t # NoThread
      /\ \A u \in Threads : HostOf[u] = h
  BY HostOfAssumption, NobodyAssumption
     DEF Alone, Enter, CallPut, CallGet, CallDereference, CallRemove, PutHead, Get, Fetch, Remove
<1>2. \A u \in Threads : cpc[u] = "idle"
  BY <1>1, NobodyAssumption DEF AInv, TypeOK
<1>3. ~Fault
  BY DEF Fault, Alone, AInv, TypeOK, CloudTypeOK
<1>4. /\ \A q \in Keys : object[q].ref \in Int
      /\ held[h][k] \in Nat
  BY <1>1 DEF AInv, TypeOK, CloudTypeOK, Objects
<1> USE <1>1, <1>2, <1>3, <1>4
    DEF AInv, TypeOK, CloudTypeOK, CountsBlocks, HeldIsCounted, PutIsCounted, BodyIsRead,
        CountReadIsCurrent, Goto, Found, NotFound, Exists, Alone
<1>5. CASE CallPut(t, k)
  BY <1>5 DEF CallPut, PutHead
<1>6. CASE CallGet(t, k)
  BY <1>6 DEF CallGet, Get
<1>7. CASE CallDereference(t, k)
  BY <1>7 DEF CallDereference, Fetch
<1>8. CASE CallRemove(t, k)
  <2>1. CASE Exists(k)
    <3>1. /\ object' = [object EXCEPT ![k] = NoObject] /\ cpc' = cpc
          /\ held' = [g \in Hosts |-> [held[g] EXCEPT ![k] = 0]]
      BY <1>8, <2>1 DEF CallRemove, Remove, Becomes
    <3>2. NoObject.body = "none" /\ NoObject.ref = 0
      BY DEF NoObject
    <3>3. CountsBlocks'
      BY <3>1, <3>2
    <3>4. HeldIsCounted'
      BY <3>1, <3>2
    <3>5. QED
      BY <3>1, <3>3, <3>4
  <2>2. CASE ~Exists(k)
    <3>1. /\ object[k].ref = 0 /\ object[k].body = "none"
      BY <2>2
    <3>2. /\ \/ object' = object
             \/ object' = [object EXCEPT ![k] = NoObject]
          /\ cpc' = [cpc EXCEPT ![t] = "abort"]
          /\ held' = [g \in Hosts |-> [held[g] EXCEPT ![k] = 0]]
      BY <1>8, <2>2 DEF CallRemove, Remove, Becomes, ChangeFails
    <3>3. NoObject.body = "none" /\ NoObject.ref = 0
      BY DEF NoObject
    <3>4. \A q \in Keys : object'[q].body = object[q].body /\ object'[q].ref = object[q].ref
      BY <3>1, <3>2, <3>3
    <3>5. CountsBlocks'
      BY <3>4
    <3>6. HeldIsCounted'
      BY <3>2, <3>4
    <3>7. QED
      BY <3>2, <3>5, <3>6
  <2>3. QED
    BY <2>1, <2>2
<1>9. QED
  BY <1>5, <1>6, <1>7, <1>8

LEMMA AtMostOneLessOne ==
  ASSUME NEW n \in Nat, n <= 1
  PROVE  (IF n > 0 THEN n - 1 ELSE 0) = 0
<1>1. n = 0 \/ n = 1
  OBVIOUS
<1>2. QED
  BY <1>1

(* The later requests of a call.                                           *)
LEMMA AloneContinues ==
  ASSUME Alone, AInv, TypeOK', NEW t \in Threads, Continue(t)
  PROVE  AInv'
<1> DEFINE h == HostOf[t]
          k == ckey[t]
<1>1. /\ h \in Hosts /\ k \in Keys /\ t # NoThread /\ cpc[t] # "idle"
      /\ \A u \in Threads : HostOf[u] = h
      /\ \A g \in Hosts : g = h
  BY HostOfAssumption, NobodyAssumption
     DEF Alone, Continue, Step, Upload, UploadFails, Confirm, Delete, StoreBack, StoreBackFails,
         AInv, TypeOK, CloudTypeOK
<1>2. \A u \in Threads : u # t => cpc[u] = "idle"
  BY <1>1, NobodyAssumption DEF AInv, TypeOK
<1>3. ~Fault
  BY DEF Fault, Alone, AInv, TypeOK, CloudTypeOK
<1>4. /\ \A q \in Keys : object[q].ref \in Int /\ held[h][q] \in Nat
      /\ cref[t] \in Int
  BY <1>1 DEF AInv, TypeOK, CloudTypeOK, Objects
<1>5. \A q \in Keys : held[h][q] <= object[q].ref
  BY <1>1 DEF AInv, HeldIsCounted
<1> USE <1>1, <1>2, <1>3, <1>4, <1>5
    DEF AInv, TypeOK, CloudTypeOK, CountsBlocks, HeldIsCounted, PutIsCounted, BodyIsRead,
        CountReadIsCurrent, Goto, Leave, Found, NotFound, Exists, Becomes, ChangeFails
<1>6. CASE Upload(t)
  BY <1>6 DEF Continue, Upload, NewObject
<1>7. CASE Confirm(t)
  <2>1. cpc[t] = "confirm" /\ held[h][k] < object[k].ref /\ Exists(k)
    BY <1>7 DEF Confirm
  <2>2. /\ object' = object /\ cpc' = [cpc EXCEPT ![t] = "idle"]
        /\ held' = [held EXCEPT ![h][k] = held[h][k] + 1]
    BY <1>7, <2>1 DEF Continue, Confirm
  <2>3. HeldIsCounted'
    BY <2>1, <2>2
  <2>4. \A u \in Threads : cpc'[u] = "idle"
    BY <2>2
  <2>5. QED
    BY <2>2, <2>3, <2>4
<1>8. CASE Delete(t)
  <2>1. /\ cpc[t] = "delete" /\ cref[t] = 0
        /\ object[k].body = "good" /\ object[k].ref = 1
    BY <1>8 DEF Delete
  <2>2. /\ object' = [object EXCEPT ![k] = NoObject]
        /\ cpc' = [cpc EXCEPT ![t] = "idle"]
        /\ held' = [held EXCEPT ![h][k] = IF held[h][k] > 0 THEN held[h][k] - 1 ELSE 0]
    BY <1>8, <2>1 DEF Continue, Delete
  <2>3. NoObject.body = "none" /\ NoObject.ref = 0
    BY DEF NoObject
  <2>4. CountsBlocks'
    BY <2>2, <2>3
  <2>5. held[h][k] \in Nat /\ held[h][k] <= 1
    BY <2>1
  <2>6. (IF held[h][k] > 0 THEN held[h][k] - 1 ELSE 0) = 0
    <3> DEFINE n == held[h][k]
    <3>1. n \in Nat /\ n <= 1
      BY <2>5
    <3> HIDE DEF n
    <3>2. (IF n > 0 THEN n - 1 ELSE 0) = 0
      BY <3>1, AtMostOneLessOne
    <3>3. QED
      BY <3>2 DEF n
  <2>7. held' = [held EXCEPT ![h][k] = 0]
    BY <2>2, <2>6
  <2>8. HeldIsCounted'
    BY <2>2, <2>3, <2>7
  <2>9. \A u \in Threads : cpc'[u] = "idle"
    BY <2>2
  <2>10. QED
    BY <2>4, <2>8, <2>9
<1>9. CASE StoreBack(t)
  BY <1>9 DEF Continue, StoreBack, OldObject
<1>10. QED
  BY <1>6, <1>7, <1>8, <1>9 DEF Continue, Step, UploadFails, StoreBackFails

LEMMA AloneStep ==
  ASSUME Alone, AInv, [Next]_vars
  PROVE  AInv'
<1>1. TypeOK'
  BY BucketTypeStep DEF AInv
<1>2. ASSUME NEW h \in Hosts, Crash(h)
      PROVE  AInv'
  BY <1>1, <1>2, HostOfAssumption
     DEF Alone, Crash, Restart, AInv, CountsBlocks, HeldIsCounted, PutIsCounted, BodyIsRead,
         CountReadIsCurrent
<1>3. CASE UNCHANGED vars
  BY <1>1, <1>3 DEF vars, cloudVars, AInv, CountsBlocks, HeldIsCounted, PutIsCounted, BodyIsRead,
                    CountReadIsCurrent
<1>4. QED
  BY <1>1, <1>2, <1>3, AloneCalls, AloneContinues DEF Next

LEMMA AloneInvariant == Alone => (Spec => []AInv)
<1> SUFFICES ASSUME Alone
             PROVE  Spec => []AInv
  OBVIOUS
<1>1. BucketInit => AInv
  <2> SUFFICES ASSUME BucketInit PROVE AInv
    OBVIOUS
  <2>1. TypeOK
    BY InitSafe DEF Safe
  <2>2. QED
    BY <2>1, HostOfAssumption
       DEF BucketInit, Init, NoObject, AInv, CountsBlocks, HeldIsCounted, PutIsCounted,
           BodyIsRead, CountReadIsCurrent
<1>2. AInv /\ [Next]_vars => AInv'
  BY AloneStep
<1>3. QED
  BY <1>1, <1>2, PTL DEF Spec

(* CountReadIsCurrent and more, for any threads and keys of a daemon alone *)
(* whose requests succeed, wherever it dies: storaeLock is enough, and no  *)
(* object ever holds anything but its block.                               *)
THEOREM AloneCountsAreCurrent ==
  Alone => (Spec => [](CountReadIsCurrent /\ CountsBlocks /\ HeldIsCounted))
<1>1. AInv => CountReadIsCurrent /\ CountsBlocks /\ HeldIsCounted
  BY DEF AInv
<1>2. QED
  BY <1>1, AloneInvariant, PTL

-----------------------------------------------------------------------------
(* What a step of the daemon does to the counts in the bucket and to what  *)
(* it holds: a put counts with its upload and is held once confirmed; a    *)
(* dereference and a remove do both at once; a death forgets at most the   *)
(* put that was not confirmed.                                             *)
NoneConfirms == \A t \in Threads : cpc[t] # "confirm"

Held(h, k, n) == held' = [held EXCEPT ![h] = [held[h] EXCEPT ![k] = n]]

Counted(t) == /\ NoneConfirms
              /\ cpc'[t] = "confirm" /\ ckey' = ckey
              /\ References' = [References EXCEPT ![ckey[t]] = References[ckey[t]] + 1]
              /\ UNCHANGED <<held, crashes>>

Confirmed(h, t) == /\ cpc[t] = "confirm"
                   /\ \A u \in Threads : u # t => cpc[u] # "confirm"
                   /\ Held(h, ckey[t], held[h][ckey[t]] + 1)
                   /\ UNCHANGED <<References, crashes>>

GivenBack(h, k) == /\ NoneConfirms
                   /\ References[k] > 0
                   /\ References' = [References EXCEPT ![k] = References[k] - 1]
                   /\ Held(h, k, IF held[h][k] > 0 THEN held[h][k] - 1 ELSE 0)
                   /\ UNCHANGED crashes

Removed(h, k) == /\ NoneConfirms
                 /\ References' = [References EXCEPT ![k] = 0]
                 /\ Held(h, k, 0)
                 /\ UNCHANGED crashes

Died == crashes' = crashes + 1 /\ UNCHANGED <<References, held>>

Quiet == /\ NoneConfirms \/ UNCHANGED <<cpc, ckey>>
         /\ UNCHANGED <<References, held, crashes>>

(* A call begins while no other is under way.                              *)
LEMMA AloneCallEffects ==
  ASSUME Alone, AInv, NEW h, Hosts = {h}, NEW t \in Threads, NEW k \in Keys,
         CallPut(t, k) \/ CallGet(t, k) \/ CallDereference(t, k) \/ CallRemove(t, k)
  PROVE  Quiet \/ Removed(h, k)
<1>1. /\ HostOf[t] = h /\ held \in [Hosts -> [Keys -> Nat]] /\ ~Fault
      /\ object \in [Keys -> Objects]
      /\ NoneConfirms
  <2>1. HostOf[t] = h /\ cloudLock[h] = NoThread /\ \A u \in Threads : HostOf[u] = h
    BY HostOfAssumption
       DEF Enter, CallPut, CallGet, CallDereference, CallRemove, PutHead, Get, Fetch, Remove
  <2>2. NoneConfirms
    BY <2>1, NobodyAssumption DEF AInv, TypeOK, NoneConfirms
  <2>3. QED
    BY <2>1, <2>2 DEF Alone, Fault, AInv, TypeOK, CloudTypeOK
<1>2. CASE CallPut(t, k) \/ CallGet(t, k) \/ CallDereference(t, k)
  <2>1. object' = object /\ held' = held /\ crashes' = crashes
    BY <1>2 DEF CallPut, CallGet, CallDereference, PutHead, Get, Fetch
  <2>2. QED
    BY <1>1, <2>1 DEF Quiet, References
<1>3. CASE CallRemove(t, k)
  <2>1. Held(h, k, 0) /\ crashes' = crashes
    BY <1>1, <1>3 DEF CallRemove, Held
  <2>2. References' = [References EXCEPT ![k] = 0]
    <3>1. CASE object' = [object EXCEPT ![k] = NoObject]
      BY <1>1, <3>1 DEF References, NoObject
    <3>2. CASE object' = object /\ object[k].ref = 0
      BY <1>1, <3>2 DEF References
    <3>3. QED
      BY <1>1, <1>3, <3>1, <3>2
         DEF CallRemove, Remove, Found, NotFound, Exists, Becomes, ChangeFails, AInv, CountsBlocks
  <2>3. QED
    BY <1>1, <2>1, <2>2 DEF Removed
<1>4. QED
  BY <1>2, <1>3

(* The later requests are those of the only call under way.               *)
LEMMA AloneContinueEffects ==
  ASSUME Alone, AInv, NEW h, Hosts = {h}, NEW t \in Threads, Continue(t)
  PROVE  Counted(t) \/ Confirmed(h, t) \/ GivenBack(h, ckey[t])
<1> DEFINE k == ckey[t]
<1>1. /\ HostOf[t] = h /\ held \in [Hosts -> [Keys -> Nat]] /\ ~Fault
      /\ object \in [Keys -> Objects] /\ cpc \in [Threads -> Steps]
      /\ k \in Keys /\ ckey \in [Threads -> Keys] /\ crashes' = crashes
      /\ \A u \in Threads : u # t => cpc[u] = "idle"
  BY HostOfAssumption, NobodyAssumption
     DEF Alone, AInv, TypeOK, CloudTypeOK, Fault, Continue, Step, Upload, UploadFails, Confirm,
         Delete, StoreBack, StoreBackFails
<1>2. object[k].ref \in Int /\ (object[k].body = "good" => object[k].ref > 0)
  BY <1>1 DEF Objects, AInv, CountsBlocks
<1>3. CASE Upload(t)
  <2>1. /\ object' = [object EXCEPT ![k] = [body |-> "good", ref |-> object[k].ref + 1]]
        /\ cpc[t] = "upload" /\ cpc'[t] = "confirm" /\ ckey' = ckey
    BY <1>1, <1>3 DEF Upload, Becomes, NewObject, Goto, AInv, CountReadIsCurrent
  <2>2. References' = [References EXCEPT ![k] = References[k] + 1]
    BY <1>1, <2>1 DEF References
  <2>3. held' = held
    BY <1>3, <2>1 DEF Continue
  <2>4. QED
    BY <1>1, <2>1, <2>2, <2>3 DEF Counted, NoneConfirms
<1>4. CASE Confirm(t)
  <2>1. /\ cpc[t] = "confirm" /\ object' = object /\ cpc' = [cpc EXCEPT ![t] = "idle"]
    BY <1>1, <1>2, <1>4
       DEF Confirm, NotFound, Exists, Leave, AInv, PutIsCounted, CountsBlocks
  <2>2. held' = [held EXCEPT ![h][k] = held[h][k] + 1]
    BY <1>1, <1>4, <2>1 DEF Continue
  <2>3. QED
    BY <1>1, <2>1, <2>2 DEF Confirmed, Held, References
<1>5. CASE Delete(t) \/ StoreBack(t)
  <2>1. /\ cpc[t] \in {"store", "delete"} /\ object[k].body = "good"
        /\ cref[t] = object[k].ref - 1
    BY <1>5 DEF Delete, StoreBack, AInv, CountReadIsCurrent
  <2>2. \E o : object' = [object EXCEPT ![k] = o] /\ o.ref = object[k].ref - 1
    <3>1. CASE Delete(t)
      <4>1. object' = [object EXCEPT ![k] = NoObject] /\ cref[t] = 0
        BY <1>1, <2>1, <3>1 DEF Delete, NotFound, Exists, Becomes, AInv, BodyIsRead
      <4>2. NoObject.ref = cref[t]
        BY <4>1 DEF NoObject
      <4>3. QED
        BY <2>1, <4>1, <4>2
    <3>2. CASE StoreBack(t)
      <4>1. object' = [object EXCEPT ![k] = OldObject(t)]
        BY <3>2 DEF StoreBack, Becomes
      <4>2. OldObject(t).ref = cref[t]
        BY DEF OldObject
      <4>3. QED
        BY <2>1, <4>1, <4>2
    <3>3. QED
      BY <1>5, <3>1, <3>2
  <2>3. cpc' = [cpc EXCEPT ![t] = "idle"]
    BY <1>1, <1>5, <2>1 DEF Delete, StoreBack, NotFound, Exists, Leave
  <2>4. References[k] > 0 /\ References' = [References EXCEPT ![k] = References[k] - 1]
    BY <1>1, <1>2, <2>1, <2>2 DEF References
  <2>5. held' = [held EXCEPT ![h][k] = IF held[h][k] > 0 THEN held[h][k] - 1 ELSE 0]
    BY <1>1, <1>5, <2>1, <2>3 DEF Continue
  <2>6. QED
    BY <1>1, <2>1, <2>4, <2>5 DEF GivenBack, Held, NoneConfirms
<1>6. QED
  BY <1>1, <1>3, <1>4, <1>5 DEF Continue, Step, UploadFails, StoreBackFails

(* All that a step can do to the counts and to the references held.      *)
LEMMA AloneEffects ==
  ASSUME Alone, AInv, NEW h, Hosts = {h}, [Next]_vars
  PROVE  \/ \E t \in Threads : Counted(t) \/ Confirmed(h, t)
         \/ \E k \in Keys : GivenBack(h, k) \/ Removed(h, k)
         \/ Died
         \/ Quiet
<1>1. ASSUME NEW t \in Threads, Continue(t)
      PROVE  \/ Counted(t) \/ Confirmed(h, t)
             \/ \E k \in Keys : GivenBack(h, k)
  BY <1>1, AloneContinueEffects DEF AInv, TypeOK, CloudTypeOK
<1>2. ASSUME NEW g \in Hosts, Crash(g)
      PROVE  Died
  BY <1>2 DEF Crash, Restart, Died, References
<1>3. CASE UNCHANGED vars
  BY <1>3 DEF vars, cloudVars, Quiet, References
<1>4. QED
  BY <1>1, <1>2, <1>3, AloneCallEffects DEF Next

(* The daemon implements Storage: an upload is the put, the request that   *)
(* ends a dereference is the dereference, and a death is nothing at all.   *)
THEOREM AloneImplementsStorage == Alone => (Spec => ContractSpec)
<1> SUFFICES ASSUME Alone
             PROVE  Spec => ContractSpec
  OBVIOUS
<1>1. BucketInit => Contract!Init
  BY DEF BucketInit, Init, NoObject, References, Contract!Init
<1>2. AInv /\ [Next]_vars => [Contract!Next]_References
  <2> SUFFICES ASSUME AInv, [Next]_vars
               PROVE  [Contract!Next]_References
    OBVIOUS
  <2>1. PICK h : Hosts = {h}
    BY DEF Alone
  <2>2. ASSUME NEW t \in Threads, Counted(t)
        PROVE  Contract!Put(ckey[t]) /\ ckey[t] \in Keys
    BY <2>2 DEF Counted, Contract!Put, AInv, TypeOK, CloudTypeOK
  <2>3. ASSUME NEW k \in Keys, GivenBack(h, k)
        PROVE  Contract!Dereference(k)
    BY <2>3 DEF GivenBack, Contract!Dereference
  <2>4. ASSUME NEW k \in Keys, Removed(h, k)
        PROVE  Contract!Remove(k)
    BY <2>4 DEF Removed, Contract!Remove
  <2>5. ASSUME NEW t \in Threads, Confirmed(h, t)
        PROVE  UNCHANGED References
    BY <2>5 DEF Confirmed
  <2>6. Died \/ Quiet => UNCHANGED References
    BY DEF Died, Quiet
  <2>7. QED
    BY <2>1, <2>2, <2>3, <2>4, <2>5, <2>6, AloneEffects DEF Contract!Next
<1>3. QED
  BY <1>1, <1>2, AloneInvariant, PTL DEF Spec, ContractSpec, Contract!Spec

-----------------------------------------------------------------------------
(* The upper side of CountIsReferencesHeld: the bucket counts what is held,*)
(* one per death, and the put that is about to be confirmed.               *)
DeathsExplain ==
  /\ crashes \in Nat
  /\ \A h \in Hosts, k \in Keys :
       \/ References[k] <= held[h][k] + crashes
       \/ /\ References[k] <= held[h][k] + crashes + 1
          /\ \E t \in Threads : cpc[t] = "confirm" /\ ckey[t] = k

LEMMA DeathsExplainStep ==
  ASSUME Alone, AInv, DeathsExplain, [Next]_vars
  PROVE  DeathsExplain'
<1>1. PICK h : Hosts = {h}
  BY DEF Alone
<1>2. /\ \A k \in Keys : held[h][k] \in Nat /\ References[k] \in Int
      /\ References = [k \in Keys |-> References[k]]
      /\ held \in [Hosts -> [Keys -> Nat]] /\ crashes \in Nat /\ ckey \in [Threads -> Keys]
  BY <1>1 DEF AInv, TypeOK, CloudTypeOK, Objects, References, DeathsExplain
<1> USE <1>1, <1>2 DEF DeathsExplain
<1> HIDE DEF References
<1>3. ASSUME NEW t \in Threads, Counted(t)
      PROVE  DeathsExplain'
  BY <1>3 DEF Counted, NoneConfirms
<1>4. ASSUME NEW t \in Threads, Confirmed(h, t)
      PROVE  DeathsExplain'
  BY <1>4 DEF Confirmed, Held
<1>5. ASSUME NEW k \in Keys, GivenBack(h, k)
      PROVE  DeathsExplain'
  BY <1>5 DEF GivenBack, Held, NoneConfirms
<1>6. ASSUME NEW k \in Keys, Removed(h, k)
      PROVE  DeathsExplain'
  BY <1>6 DEF Removed, Held, NoneConfirms
<1>7. CASE Died
  BY <1>7 DEF Died
<1>8. CASE Quiet
  BY <1>8 DEF Quiet, NoneConfirms
<1>9. QED
  BY <1>3, <1>4, <1>5, <1>6, <1>7, <1>8, AloneEffects

(* The sum over the hosts, when there is one.                              *)
LEMMA SumOverOneHost ==
  ASSUME NEW h, Hosts = {h}, NEW k, held[h][k] \in Int
  PROVE  HeldByAll(k) = held[h][k]
<1> DEFINE any(s) == CHOOSE g \in s : TRUE
           sum(f) == [s \in SUBSET {h} |->
                        IF s = {} THEN 0 ELSE held[any(s)][k] + f[s \ {any(s)}]]
           iter == CHOOSE f : f = sum(f)
<1>1. HeldByAll(k) = iter[{h}]
  BY DEF HeldByAll, MapThenSumSet, MapThenFoldSet
<1>2. iter = sum(iter)
  <2>1. \E f : f = sum(f)
    <3> DEFINE w == [s \in SUBSET {h} |-> IF s = {} THEN 0 ELSE held[h][k]]
    <3>1. ASSUME NEW s \in SUBSET {h}, s # {}
          PROVE  any(s) = h /\ s \ {h} = {}
      BY <3>1
    <3>2. w[{}] = 0 /\ {} \in SUBSET {h}
      OBVIOUS
    <3>3. w = sum(w)
      BY <3>1, <3>2
    <3>4. QED
      BY <3>3
  <2> HIDE DEF sum
  <2>2. QED
    BY <2>1
<1>3. any({h}) = h /\ {h} \ {h} = {}
  OBVIOUS
<1> HIDE DEF iter
<1>4. iter[{}] = 0 /\ iter[{h}] = held[h][k] + iter[{}]
  BY <1>2, <1>3
<1>5. QED
  BY <1>1, <1>4

(* What the test of BaiDuCloudStorage asserts after its puts and its       *)
(* dereferences, for a daemon alone: between calls the bucket counts the   *)
(* references held, and each death adds at most one nobody holds.          *)
THEOREM AloneCountIsReferencesHeld == Alone => (Spec => []CountIsReferencesHeld)
<1> SUFFICES ASSUME Alone
             PROVE  Spec => []CountIsReferencesHeld
  OBVIOUS
<1>1. BucketInit => DeathsExplain
  BY DEF BucketInit, Init, NoObject, References, DeathsExplain
<1>2. AInv /\ DeathsExplain /\ [Next]_vars => DeathsExplain'
  BY DeathsExplainStep
<1>3. AInv /\ DeathsExplain => CountIsReferencesHeld
  <2> SUFFICES ASSUME AInv, DeathsExplain, \A t \in Threads : cpc[t] = "idle", NEW k \in Keys
               PROVE  object[k].ref - HeldByAll(k) \in -crashes..crashes
    BY DEF CountIsReferencesHeld
  <2>1. PICK h : Hosts = {h}
    BY DEF Alone
  <2>2. object[k].ref \in Int /\ held[h][k] \in Nat /\ crashes \in Nat
    BY <2>1 DEF AInv, TypeOK, CloudTypeOK, Objects, DeathsExplain
  <2>3. held[h][k] <= object[k].ref /\ object[k].ref <= held[h][k] + crashes
    BY <2>1 DEF AInv, HeldIsCounted, DeathsExplain, References
  <2>4. HeldByAll(k) = held[h][k]
    BY <2>1, <2>2, SumOverOneHost
  <2>5. object[k].ref - held[h][k] \in -crashes..crashes
    BY <2>2, <2>3
  <2>6. QED
    BY <2>4, <2>5
<1>4. QED
  BY <1>1, <1>2, <1>3, AloneInvariant, PTL DEF Spec
=============================================================================
