-------------------------- MODULE BlockFilesProofs --------------------------
(* Proofs about BlockFiles and its FileLock, for any number of daemons and *)
(* threads, and any calls.                                                 *)
EXTENDS BlockFiles, TLAPS

(* A lock that is compatible with those of the other daemons keeps the     *)
(* locks exclusive.                                                        *)
LEMMA SetLockKeeps ==
  ASSUME LockTypeOK, LockInv, NEW t \in Threads, NEW m \in Modes, SetLock(t, m),
         \A d \in Daemons \ {DaemonOf[t]} : Compatible(m, locks[d])
  PROVE  LockTypeOK' /\ LockInv'
<1> USE DaemonOfAssumption
<1>1. /\ locks' \in [Daemons -> Modes] /\ locks'[DaemonOf[t]] = m
      /\ \A e \in Daemons \ {DaemonOf[t]} : locks'[e] = locks[e]
  BY DEF SetLock, LockTypeOK
<1>2. ASSUME NEW e \in Daemons, NEW f \in Daemons, e # f
      PROVE  Compatible(locks'[e], locks'[f])
  BY <1>1, <1>2 DEF LockInv, Compatible
<1>3. QED
  BY <1>1, <1>2 DEF LockTypeOK, LockInv

(* Giving a lock up does, too.                                             *)
LEMMA SetNoneKeeps ==
  ASSUME LockTypeOK, LockInv, NEW t \in Threads, SetLock(t, "none")
  PROVE  LockTypeOK' /\ LockInv'
BY SetLockKeeps DEF Compatible, Modes

LEMMA LocksEndKeeps ==
  ASSUME LockTypeOK, LockInv, NEW d \in Daemons, LocksEnd(d)
  PROVE  LockTypeOK' /\ LockInv'
<1>1. /\ locks' \in [Daemons -> Modes] /\ locks'[d] = "none"
      /\ \A e \in Daemons \ {d} : locks'[e] = locks[e]
  BY DEF LocksEnd, LockTypeOK, Modes
<1>2. ASSUME NEW e \in Daemons, NEW f \in Daemons, e # f
      PROVE  Compatible(locks'[e], locks'[f])
  BY <1>1, <1>2 DEF LockInv, Compatible
<1>3. QED
  BY <1>1, <1>2 DEF LockTypeOK, LockInv

(* What a thread does to its daemon's lock keeps ThreadsInv, if the thread *)
(* is not at work afterwards, or has the lock of its call by it: whoever   *)
(* of its siblings is at work is disturbed then.                           *)
LEMMA DisturbKeeps ==
  ASSUME IInv, NEW t \in Threads, NEW m \in Modes, SetLock(t, m), Disturb(t), pc[t] \notin Work,
         \A u \in Threads \ {t} : pc'[u] = pc[u] /\ call'[u] = call[u],
         pc'[t] \notin Loops,
         pc'[t] \in Work => call'[t] \in Calls[t] /\ m = ModeOf(call'[t])
  PROVE  ThreadsInv' /\ disturbed' \subseteq Threads
<1> USE DaemonOfAssumption DEF IInv
<1>1. /\ locks'[DaemonOf[t]] = m
      /\ \A e \in Daemons \ {DaemonOf[t]} : locks'[e] = locks[e]
  BY DEF SetLock, TypeOK, LockTypeOK
<1>2. /\ t \notin disturbed' /\ disturbed' \subseteq Threads
      /\ \A u \in Threads \ {t} :
           u \in disturbed' <=> u \in disturbed \/ (DaemonOf[u] = DaemonOf[t] /\ pc[u] \in Work)
  BY DEF Disturb, Siblings, TypeOK
<1>3. \A u \in disturbed' : pc'[u] \in Work
  BY <1>2 DEF ThreadsInv
<1>4. ASSUME NEW u \in Threads \ disturbed', pc'[u] \in Work
      PROVE  /\ locks'[DaemonOf[u]] = ModeOf(call'[u])
             /\ \A v \in Siblings(u) : pc'[v] \in Work => v \in disturbed'
  <2>1. CASE u = t
    BY <1>1, <1>2, <1>4, <2>1 DEF Siblings
  <2>2. CASE u # t
    <3>1. u \notin disturbed /\ DaemonOf[u] # DaemonOf[t] /\ pc[u] \in Work
      BY <1>2, <1>4, <2>2
    <3>2. /\ locks[DaemonOf[u]] = ModeOf(call[u])
          /\ \A v \in Siblings(u) : pc[v] \in Work => v \in disturbed
      BY <3>1 DEF ThreadsInv
    <3>3. \A v \in Siblings(u) : v \in Threads \ {t}
      BY <3>1 DEF Siblings
    <3>4. QED
      BY <1>1, <1>2, <2>2, <3>1, <3>2, <3>3
  <2>3. QED
    BY <2>1, <2>2
<1>5. ASSUME NEW u \in Threads
      PROVE  /\ pc'[u] \in Work => call'[u] \in Calls[u]
             /\ pc'[u] \in Loops \ {"read"} => call'[u].op # "read"
  BY DEF ThreadsInv
<1>6. QED
  BY <1>2, <1>3, <1>4, <1>5 DEF ThreadsInv, Siblings

-----------------------------------------------------------------------------
(* What the lemmas below need of the assumptions, and of arithmetic.       *)
LEMMA CallParts ==
  ASSUME NEW t \in Threads, NEW c \in Calls[t]
  PROVE  /\ c.op \in {"read", "write", "truncate"} /\ c.off \in Nat /\ c.size \in Nat
         /\ ModeOf(c) \in {"read", "write"}
         /\ c.op # "read" => ModeOf(c) = "write"
BY CallsAssumption DEF ModeOf

LEMMA LesserIsNat ==
  ASSUME NEW m \in Nat, NEW n \in Nat
  PROVE  Lesser(m, n) \in Nat
BY DEF Lesser

(* A round of a loop ends at an offset again.                              *)
LEMMA InBlockIsNat ==
  ASSUME NEW t \in Threads, pos[t] \in Nat, end[t] \in Nat, pos[t] < end[t]
  PROVE  InBlock(t) \in Nat
<1>1. pos[t] % BlockSize \in 0..(BlockSize - 1)
  BY BlockSizeAssumption
<1>2. BlockSize - (pos[t] % BlockSize) \in Nat /\ end[t] - pos[t] \in Nat
  BY <1>1, BlockSizeAssumption
<1>3. QED
  BY <1>2 DEF InBlock, Lesser

(* A call begins with a loop of its own, over offsets; only a read reads.  *)
LEMMA FirstLoopIsLoop ==
  ASSUME NEW t \in Threads, NEW c \in Calls[t], NEW n \in Nat
  PROVE  /\ FirstLoop(c, n)[1] \in Loops
         /\ FirstLoop(c, n)[2] \in Nat
         /\ FirstLoop(c, n)[3] \in Nat
         /\ FirstLoop(c, n)[1] # "read" => c.op # "read"
<1>0. /\ c.op \in {"read", "write", "truncate"}
      /\ c.off \in Nat /\ c.size \in Nat /\ c.off + c.size \in Nat
  BY CallParts
<1> USE <1>0, SizesAssumption DEF FirstLoop, Loops
<1>1. CASE c.op = "read"
  BY <1>1, LesserIsNat
<1>2. CASE c.op = "write"
  BY <1>2
<1>3. CASE c.op = "truncate"
  <2>1. CASE c.size <= Small
    BY <1>3, <2>1, LesserIsNat
  <2>2. CASE c.size > Small /\ n <= Small
    BY <1>3, <2>2
  <2>3. CASE c.size > Small /\ n > Small /\ c.size < n
    BY <1>3, <2>3
  <2>4. CASE c.size > Small /\ n > Small /\ c.size >= n
    BY <1>3, <2>4
  <2>5. QED
    BY <2>1, <2>2, <2>3, <2>4
<1>4. QED
  BY <1>1, <1>2, <1>3

-----------------------------------------------------------------------------
(* The daemon dies.                                                        *)
LEMMA DiesKeeps ==
  ASSUME IInv, NEW d \in Daemons, Dies(d)
  PROVE  IInv'
<1> USE DEF IInv
<1>1. LockTypeOK' /\ LockInv'
  BY LocksEndKeeps DEF Dies, TypeOK
<1>2. \A t \in Threads :
        /\ pc'[t] = IF DaemonOf[t] = d THEN "idle" ELSE pc[t]
        /\ call'[t] = IF DaemonOf[t] = d THEN None ELSE call[t]
  BY DEF Dies
<1>3. disturbed' = {t \in disturbed : DaemonOf[t] # d}
  BY DEF Dies
<1>4. TypeOK'
  <2>1. pc' \in [Threads -> Places]
    BY DEF Dies, TypeOK, Places
  <2>2. call' \in [Threads -> {None} \cup UNION {Calls[u] : u \in Threads}]
    BY DEF Dies, TypeOK
  <2>3. copy' \in [Threads -> [size : Nat, named : SUBSET Nat]]
    BY DEF Dies, TypeOK, NoMeta
  <2>4. pos' \in [Threads -> Nat] /\ end' \in [Threads -> Nat]
    BY DEF Dies, TypeOK
  <2>5. QED
    BY <1>1, <1>3, <2>1, <2>2, <2>3, <2>4 DEF Dies, TypeOK, file
<1>5. ThreadsInv'
  <2>1. \A t \in Threads : DaemonOf[t] # d => locks'[DaemonOf[t]] = locks[DaemonOf[t]]
    BY DaemonOfAssumption DEF Dies, LocksEnd, TypeOK, LockTypeOK
  <2>2. \A t \in Threads : pc'[t] \in Work => DaemonOf[t] # d /\ pc[t] \in Work
    BY <1>2 DEF Work, Loops
  <2>3. QED
    BY <1>2, <1>3, <2>1, <2>2 DEF ThreadsInv, TypeOK, Siblings, Work
<1>6. QED
  BY <1>1, <1>4, <1>5

(* A thread that asks for its lock, gets it or not.                        *)
LEMMA TakeLockKeeps ==
  ASSUME IInv, NEW t \in Threads, TakeLock(t)
  PROVE  IInv'
<1> USE DEF IInv
<1> PICK c \in Calls[t] : /\ call' = [call EXCEPT ![t] = c]
                          /\ \/ Lock(t, ModeOf(c)) /\ Disturb(t)
                             \/ LockFails /\ disturbed' = disturbed \cup {t}
  BY DEF TakeLock
<1>1. /\ pc[t] = "lock" /\ pc' = [pc EXCEPT ![t] = "meta"]
      /\ UNCHANGED <<len, size, named, fds, copy, pos, end>>
  BY DEF TakeLock, Goto, file
<1>2. pc[t] \notin Work /\ pc'[t] = "meta" /\ \A u \in Threads \ {t} : pc'[u] = pc[u]
  BY <1>1 DEF TypeOK, Work, Loops
<1>3. call'[t] = c /\ \A u \in Threads \ {t} : call'[u] = call[u]
  BY DEF TypeOK
<1>4. LockTypeOK' /\ LockInv' /\ ThreadsInv' /\ disturbed' \subseteq Threads
  <2>1. CASE Lock(t, ModeOf(c)) /\ Disturb(t)
    <3>1. ModeOf(c) \in Modes /\ SetLock(t, ModeOf(c))
      BY <2>1, CallParts DEF Lock, Modes
    <3>2. LockTypeOK' /\ LockInv'
      BY <2>1, <3>1, SetLockKeeps DEF Lock, TypeOK
    <3>3. QED
      BY <1>2, <1>3, <2>1, <3>1, <3>2, DisturbKeeps DEF Loops
  <2>2. CASE LockFails /\ disturbed' = disturbed \cup {t}
    <3>1. LockTypeOK' /\ LockInv'
      BY <2>2 DEF LockFails, TypeOK, LockTypeOK, LockInv
    <3>2. ThreadsInv'
      <4>1. locks' = locks /\ disturbed' = disturbed \cup {t} /\ pc'[t] \in Work
        BY <1>2, <2>2 DEF LockFails, Work
      <4>2. \A u \in Threads : Siblings(u)' = Siblings(u) /\ Siblings(u) \subseteq Threads
        BY DEF Siblings
      <4>3. \A u \in Threads \ disturbed' : pc'[u] \in Work =>
              /\ locks'[DaemonOf[u]] = ModeOf(call'[u])
              /\ \A v \in Siblings(u) : pc'[v] \in Work => v \in disturbed'
        BY <1>2, <1>3, <4>1, <4>2 DEF ThreadsInv
      <4>4. /\ \A u \in Threads : pc'[u] \in Work => call'[u] \in Calls[u]
            /\ \A u \in disturbed' : pc'[u] \in Work
        BY <1>2, <1>3, <4>1 DEF ThreadsInv, TypeOK
      <4>5. \A u \in Threads : pc'[u] \in Loops \ {"read"} => call'[u].op # "read"
        BY <1>2, <1>3 DEF ThreadsInv, Loops
      <4>6. QED
        BY <4>2, <4>3, <4>4, <4>5 DEF ThreadsInv
    <3>3. QED
      BY <2>2, <3>1, <3>2 DEF TypeOK
  <2>3. QED
    BY <2>1, <2>2
<1>5. TypeOK'
  <2>1. call' \in [Threads -> {None} \cup UNION {Calls[u] : u \in Threads}]
    BY DEF TypeOK
  <2>2. pc' \in [Threads -> Places]
    BY <1>1 DEF TypeOK, Places, Locked, Work
  <2>3. QED
    BY <1>1, <1>4, <2>1, <2>2 DEF TypeOK
<1>6. QED
  BY <1>4, <1>5

(* A thread goes to _quit, with fileSize in the file any size.             *)
LEMMA LeaveKeeps ==
  ASSUME IInv, NEW t \in Threads, Leave(t), size' \in Nat
  PROVE  IInv'
<1> USE DEF IInv
<1>1. LockTypeOK' /\ LockInv'
  BY DEF Leave, TypeOK, LockTypeOK, LockInv
<1>2. /\ pc' = [pc EXCEPT ![t] = "exit"] /\ call' = [call EXCEPT ![t] = None]
      /\ disturbed' = disturbed \ {t}
      /\ UNCHANGED <<locks, len, named, fds>>
  BY DEF Leave, Goto
<1>3. TypeOK'
  <2>1. pc' \in [Threads -> Places]
    BY <1>2 DEF TypeOK, Places, Locked
  <2>2. call' \in [Threads -> {None} \cup UNION {Calls[u] : u \in Threads}]
    BY <1>2 DEF TypeOK
  <2>3. copy' \in [Threads -> [size : Nat, named : SUBSET Nat]]
    BY DEF Leave, TypeOK, NoMeta
  <2>4. pos' \in [Threads -> Nat] /\ end' \in [Threads -> Nat]
    BY DEF Leave, TypeOK
  <2>5. QED
    BY <1>1, <1>2, <2>1, <2>2, <2>3, <2>4 DEF TypeOK
<1>4. ThreadsInv'
  <2>1. /\ pc'[t] \notin Work
        /\ \A u \in Threads \ {t} : pc'[u] = pc[u] /\ call'[u] = call[u]
    BY <1>2 DEF TypeOK, Work, Loops
  <2>2. QED
    BY <1>2, <2>1 DEF ThreadsInv, Siblings, Work
<1>5. QED
  BY <1>1, <1>3, <1>4

(* A thread goes from the meta, or from a loop, into a loop over offsets.  *)
LEMMA LoopKeeps ==
  ASSUME IInv, NEW t \in Threads, pc[t] \in Work, NEW l, Loop(t, l),
         l[1] \in Loops, l[2] \in Nat, l[3] \in Nat,
         l[1] # "read" => call[t].op # "read",
         copy' \in [Threads -> [size : Nat, named : SUBSET Nat]],
         UNCHANGED <<locks, file, fds, call, disturbed>>
  PROVE  IInv'
<1> USE DEF IInv
<1>1. LockTypeOK' /\ LockInv'
  BY DEF TypeOK, LockTypeOK, LockInv
<1>2. /\ pc' = [pc EXCEPT ![t] = l[1]]
      /\ UNCHANGED <<locks, len, size, named, fds, call, disturbed>>
  BY DEF Loop, Goto, file
<1>3. TypeOK'
  <2>1. pc' \in [Threads -> Places]
    BY <1>2 DEF TypeOK, Places, Locked, Work
  <2>2. pos' \in [Threads -> Nat] /\ end' \in [Threads -> Nat]
    BY DEF Loop, TypeOK
  <2>3. QED
    BY <1>1, <1>2, <2>1, <2>2 DEF TypeOK
<1>4. ThreadsInv'
  <2>1. /\ pc'[t] = l[1] /\ pc'[t] \in Work /\ \A u \in Threads \ {t} : pc'[u] = pc[u]
    BY <1>2 DEF TypeOK, Work
  <2>2. \A u \in Threads : pc'[u] \in Work <=> pc[u] \in Work
    BY <2>1
  <2>3. QED
    BY <1>2, <2>1, <2>2 DEF ThreadsInv, Siblings
<1>5. QED
  BY <1>1, <1>3, <1>4

(* The meta is read, or cannot be: to _quit, to the first loop, or death.  *)
LEMMA MetaLeads ==
  ASSUME NEW t \in Threads, ReadMeta(t)
  PROVE  /\ pc[t] = "meta"
         /\ \/ Quit(t)
            \/ Aborts(t)
            \/ /\ copy' = [copy EXCEPT ![t] = [size |-> size, named |-> named]]
               /\ Loop(t, FirstLoop(call[t], size))
               /\ UNCHANGED <<locks, file, fds, call, disturbed>>
BY DEF ReadMeta, StatFails, FileIsEmpty, FileIsShort, PreadFails, IsPastEnd, UsesSmallBuf,
       Begin, AtMeta

LEMMA MetaKeeps ==
  ASSUME IInv, NEW t \in Threads, ReadMeta(t)
  PROVE  IInv'
<1> USE DaemonOfAssumption
<1>1. pc[t] = "meta" /\ pc[t] \in Work /\ call[t] \in Calls[t] /\ size \in Nat
  BY MetaLeads DEF IInv, ThreadsInv, TypeOK, Work
<1>2. CASE Quit(t)
  BY <1>1, <1>2, LeaveKeeps DEF Quit
<1>3. CASE Aborts(t)
  BY <1>3, DiesKeeps DEF Aborts
<1>4. CASE /\ copy' = [copy EXCEPT ![t] = [size |-> size, named |-> named]]
           /\ Loop(t, FirstLoop(call[t], size))
           /\ UNCHANGED <<locks, file, fds, call, disturbed>>
  <2>1. copy' \in [Threads -> [size : Nat, named : SUBSET Nat]]
    BY <1>4 DEF IInv, TypeOK
  <2>2. QED
    BY <1>1, <1>4, <2>1, FirstLoopIsLoop, LoopKeeps
<1>5. QED
  BY <1>2, <1>3, <1>4, MetaLeads

(* A round of a loop moves on or dies.                                     *)
LEMMA IterateKeeps ==
  ASSUME IInv, NEW t \in Threads, Iterate(t)
  PROVE  IInv'
<1> USE DaemonOfAssumption
<1> DEFINE i == pos[t] \div BlockSize
<1>1. CASE Aborts(t)
  BY <1>1, DiesKeeps DEF Aborts
<1>2. CASE Round(t, i) /\ UNCHANGED <<locks, file, pc, fds, call, end, disturbed>>
  <2>1. /\ pos[t] \in Nat /\ end[t] \in Nat /\ pos[t] < end[t]
        /\ copy[t] \in [size : Nat, named : SUBSET Nat]
    BY DEF Iterate, IInv, TypeOK
  <2>2. i \in Nat
    BY <2>1, BlockSizeAssumption
  <2>3. InBlock(t) \in Nat /\ Lesser(end[t] - pos[t], BlockSize) \in Nat
    <3>1. InBlock(t) \in Nat
      BY <2>1, InBlockIsNat
    <3>2. end[t] - pos[t] \in Nat /\ BlockSize \in Nat
      BY <2>1, BlockSizeAssumption
    <3>3. Lesser(end[t] - pos[t], BlockSize) \in Nat
      BY <3>2, LesserIsNat
    <3>4. QED
      BY <3>1, <3>3
  <2>4. copy' \in [Threads -> [size : Nat, named : SUBSET Nat]]
    <3>1. NewBlock(t, i) => copy' \in [Threads -> [size : Nat, named : SUBSET Nat]]
      <4>1. copy[t].size + BlockSize \in Nat
        BY <2>1, BlockSizeAssumption
      <4>2. Lesser(copy[t].size + BlockSize, MaxSize) \in Nat
        BY <4>1, LesserIsNat, SizesAssumption
      <4>3. copy[t].named \cup {i} \in SUBSET Nat
        BY <2>1, <2>2
      <4>4. QED
        BY <4>2, <4>3 DEF NewBlock, IInv, TypeOK
    <3>2. UNCHANGED copy => copy' \in [Threads -> [size : Nat, named : SUBSET Nat]]
      BY DEF IInv, TypeOK
    <3>3. copy' = [copy EXCEPT ![t] = [size  |-> copy[t].size,
                                       named |-> copy[t].named \ {i}]]
            => copy' \in [Threads -> [size : Nat, named : SUBSET Nat]]
      BY <2>1 DEF IInv, TypeOK
    <3>4. QED
      BY <1>2, <3>1, <3>2, <3>3 DEF Round
  <2>5. pos' \in [Threads -> Nat]
    <3>1. \A n \in Nat : Advance(t, n) => pos' \in [Threads -> Nat]
      BY <2>1 DEF Advance, IInv, TypeOK
    <3>2. UNCHANGED pos => pos' \in [Threads -> Nat]
      BY DEF IInv, TypeOK
    <3>3. QED
      BY <1>2, <2>3, <3>1, <3>2, BlockSizeAssumption DEF Round
  <2>6. UNCHANGED <<locks, disturbed, len, size, named, pc, fds, call, end>>
    BY <1>2 DEF file
  <2>7. QED
    BY <2>4, <2>5, <2>6
       DEF IInv, TypeOK, LockTypeOK, LockInv, ThreadsInv
<1>3. QED
  BY <1>1, <1>2 DEF Iterate

(* A loop is through.                                                      *)
LEMMA LoopEndsKeeps ==
  ASSUME IInv, NEW t \in Threads, LoopEnds(t)
  PROVE  IInv'
<1>1. /\ pc[t] \in Loops /\ call[t] \in Calls[t]
      /\ pc[t] # "read" => call[t].op # "read"
      /\ copy[t].size \in Nat /\ call[t].size \in Nat
  BY CallParts DEF LoopEnds, IInv, ThreadsInv, TypeOK, Work
<1>2. CASE Quit(t)
  BY <1>2, LeaveKeeps DEF Quit, IInv, TypeOK
<1>3. CASE pc[t] \in {"fill", "shrink"} /\ Loop(t, <<"grow", copy[t].size, call[t].size>>)
           /\ UNCHANGED <<locks, file, fds, call, copy, disturbed>>
  <2> DEFINE l == <<"grow", copy[t].size, call[t].size>>
  <2>1. l[1] \in Loops /\ l[2] \in Nat /\ l[3] \in Nat /\ Loop(t, l)
    BY <1>1, <1>3 DEF Loops
  <2>2. call[t].op # "read"
    BY <1>1, <1>3
  <2>3. copy' \in [Threads -> [size : Nat, named : SUBSET Nat]]
    BY <1>3 DEF IInv, TypeOK
  <2> HIDE DEF l
  <2>4. QED
    BY <1>1, <1>3, <2>1, <2>2, <2>3, LoopKeeps DEF Work
<1>4. ASSUME NEW n \in Nat, Store(t, n)
      PROVE  IInv'
  BY <1>4, LeaveKeeps DEF Store
<1>5. Lesser(call[t].size, copy[t].size) \in Nat
  BY <1>1, LesserIsNat
<1>6. QED
  BY <1>1, <1>2, <1>3, <1>4, <1>5 DEF LoopEnds

(* The steps that have no more to do with the meta.                        *)
LEMMA OutsideKeeps ==
  ASSUME IInv, NEW t \in Threads,
         Open(t) \/ UnLock(t) \/ Close(t) \/ OpenClose(t)
  PROVE  IInv'
<1> USE DEF IInv
<1>1. /\ pc[t] \in {"idle", "exit", "close"} /\ pc' \in [Threads -> Places]
      /\ pc'[t] \in {"idle", "lock", "close"}
      /\ \A u \in Threads \ {t} : pc'[u] = pc[u]
      /\ fds' \subseteq Threads
      /\ UNCHANGED <<len, size, named, call, copy, pos, end>>
  BY DEF Open, UnLock, Close, OpenClose, Goto, file, local, TypeOK, Places
<1>2. pc[t] \notin Work /\ pc'[t] \notin Work
  BY <1>1 DEF Work, Loops
<1>3. LockTypeOK' /\ LockInv' /\ ThreadsInv' /\ disturbed' \subseteq Threads
  <2>1. CASE SetLock(t, "none") /\ Disturb(t)
    <3>1. LockTypeOK' /\ LockInv'
      BY <2>1, SetNoneKeeps DEF TypeOK
    <3>2. QED
      BY <1>1, <1>2, <2>1, <3>1, DisturbKeeps DEF Modes, Work
  <2>2. CASE UNCHANGED <<locks, disturbed>>
    <3>1. \A u \in Threads : pc'[u] \in Work <=> pc[u] \in Work
      BY <1>1, <1>2
    <3>2. \A u \in Threads : pc'[u] \in Work => pc'[u] = pc[u]
      BY <1>1, <1>2
    <3>3. ThreadsInv'
      <4>1. \A u \in Threads : pc[u] \in Loops => pc[u] \in Work
        BY DEF Work
      <4>2. \A u \in Threads : pc'[u] \in Loops => pc'[u] \in Work
        BY DEF Work
      <4>3. \A u \in Threads : Siblings(u)' = Siblings(u) /\ Siblings(u) \subseteq Threads
        BY DEF Siblings
      <4>4. \A u \in Threads \ disturbed' : pc'[u] \in Work =>
              /\ locks'[DaemonOf[u]] = ModeOf(call'[u])
              /\ \A v \in Siblings(u) : pc'[v] \in Work => v \in disturbed'
        BY <1>1, <2>2, <3>1, <4>3 DEF ThreadsInv
      <4>5. /\ \A u \in Threads : pc'[u] \in Work => call'[u] \in Calls[u]
            /\ \A u \in Threads : pc'[u] \in Loops \ {"read"} => call'[u].op # "read"
            /\ \A u \in disturbed' : pc'[u] \in Work
        BY <1>1, <2>2, <3>1, <3>2, <4>1, <4>2 DEF ThreadsInv, TypeOK
      <4>6. QED
        BY <4>3, <4>4, <4>5 DEF ThreadsInv
    <3>4. QED
      BY <2>2, <3>3 DEF TypeOK, LockTypeOK, LockInv
  <2>3. QED
    BY <2>1, <2>2 DEF Open, UnLock, Close, OpenClose, Unlock, CloseFile
<1>4. TypeOK'
  BY <1>1, <1>3 DEF TypeOK
<1>5. QED
  BY <1>3, <1>4

LEMMA StepKeeps == IInv /\ [Next]_vars => IInv'
<1> SUFFICES ASSUME IInv, [Next]_vars
             PROVE  IInv'
  OBVIOUS
<1>1. CASE UNCHANGED vars
  BY <1>1 DEF vars, file, local, IInv, TypeOK, LockTypeOK, LockInv, ThreadsInv
<1>2. CASE Next
  BY <1>2, DiesKeeps, TakeLockKeeps, MetaKeeps, IterateKeeps, LoopEndsKeeps, OutsideKeeps
     DEF Next, Step
<1>3. QED
  BY <1>1, <1>2

LEMMA InitHas == Init => IInv
<1> SUFFICES ASSUME Init
             PROVE  IInv
  OBVIOUS
<1> USE DaemonOfAssumption, SizesAssumption DEF Init
<1>1. LockTypeOK /\ LockInv
  BY DEF LockInit, LockTypeOK, LockInv, Modes, Compatible
<1>2. size \in Nat
  <2>1. CASE len = "exact"
    BY <2>1
  <2>2. CASE len = "long"
    BY <2>2
  <2>3. CASE len \in {"empty", "short"}
    BY <2>3
  <2>4. QED
    BY <2>1, <2>2, <2>3
<1>3. named \subseteq Nat
  BY DEF BlocksOf
<1>4. TypeOK
  BY <1>1, <1>2, <1>3 DEF TypeOK, Places, NoMeta
<1>5. ThreadsInv
  BY DEF ThreadsInv, Work, Loops
<1>6. QED
  BY <1>1, <1>4, <1>5 DEF IInv

(* The inductive invariant holds, whatever the calls and the threads.      *)
THEOREM Invariant == Spec => []IInv
BY InitHas, StepKeeps, PTL DEF Spec

-----------------------------------------------------------------------------
(* Two handlers at work that both have kept their locks are both reading.  *)
LEMMA KeptLocksExclude ==
  ASSUME IInv, NEW t \in Threads \ disturbed, NEW u \in Threads \ disturbed, t # u,
         pc[t] \in Work, pc[u] \in Work
  PROVE  call[t].op = "read" /\ call[u].op = "read"
<1> USE DaemonOfAssumption DEF IInv
<1>1. /\ locks[DaemonOf[t]] = ModeOf(call[t])
      /\ locks[DaemonOf[u]] = ModeOf(call[u])
  BY DEF ThreadsInv
<1>2. DaemonOf[t] # DaemonOf[u]
  BY DEF ThreadsInv, Siblings
<1>3. Compatible(ModeOf(call[t]), ModeOf(call[u]))
  BY <1>1, <1>2 DEF LockInv
<1>4. QED
  BY <1>3 DEF Compatible, ModeOf

(* No store overtakes a handler at work, unless one of the two was refused *)
(* its lock or lost it to a sibling, in the very call it is in.            *)
THEOREM Current == Spec => UpdatesAreCurrent
<1> DEFINE A == \A t \in Threads : Stores(t) => t \in disturbed \/ Overtaken(t) \subseteq disturbed
<1>1. IInv => A
  <2> SUFFICES ASSUME IInv, NEW t \in Threads \ disturbed, pc[t] \in {"write", "grow"},
                      NEW u \in Threads \ {t}, pc[u] \in Loops
               PROVE  u \in disturbed
    BY DEF Stores, Overtaken
  <2>1. pc[t] \in Work /\ pc[u] \in Work /\ call[t].op # "read"
    BY DEF IInv, ThreadsInv, Work, Loops
  <2>2. QED
    BY <2>1, KeptLocksExclude
<1>2. QED
  BY <1>1, Invariant, PTL DEF UpdatesAreCurrent

-----------------------------------------------------------------------------
(* A daemon with one thread has no siblings to take its locks away.        *)
LEMMA CalmStep ==
  ASSUME ~LocksFail, \A t \in Threads : Siblings(t) = {}
  PROVE  disturbed = {} /\ [Next]_vars => disturbed' = {}
<1> SUFFICES ASSUME disturbed = {}, [Next]_vars
             PROVE  disturbed' = {}
  OBVIOUS
<1>1. ASSUME NEW t \in Threads, Disturb(t)
      PROVE  disturbed' = {}
  BY <1>1 DEF Disturb
<1>2. ASSUME NEW t \in Threads, ReadMeta(t)
      PROVE  disturbed' = {}
  BY <1>2, MetaLeads DEF Quit, Leave, Aborts, Dies
<1>3. ASSUME NEW t \in Threads, TakeLock(t)
      PROVE  disturbed' = {}
  BY <1>1, <1>3 DEF TakeLock, LockFails
<1>4. QED
  BY <1>1, <1>2, <1>3
     DEF Next, Step, Open, Quit, Leave, Aborts, Dies, Iterate, LoopEnds, Store,
         UnLock, Close, OpenClose, vars

(* Daemons that run one handler at a time, and whose requests for locks    *)
(* are granted, never overtake each other's copies of the meta, however    *)
(* many they are and wherever they die.                                    *)
THEOREM OneThreadIsEnough ==
  ASSUME ~LocksFail, \A t \in Threads : Siblings(t) = {}
  PROVE  Spec => [][\A t \in Threads : Stores(t) => Overtaken(t) = {}]_vars
<1> DEFINE A == \A t \in Threads : Stores(t) => t \in disturbed \/ Overtaken(t) \subseteq disturbed
           B == \A t \in Threads : Stores(t) => Overtaken(t) = {}
           Calm == disturbed = {}
<1>1. Init => Calm
  BY DEF Init
<1>2. Calm /\ [Next]_vars => Calm'
  BY CalmStep
<1>3. Calm /\ [A]_vars => [B]_vars
  BY DEF Overtaken
<1>4. Spec => [][A]_vars
  BY Current DEF UpdatesAreCurrent
<1> HIDE DEF A, B, Calm
<1>5. Spec => [][B]_vars
  BY <1>1, <1>2, <1>3, <1>4, PTL DEF Spec
<1>6. QED
  BY <1>5 DEF B

-----------------------------------------------------------------------------
LEMMA LeftStep == IInv /\ NothingLeftBehind /\ [Next]_vars => NothingLeftBehind'
<1> SUFFICES ASSUME IInv, NothingLeftBehind, [Next]_vars
             PROVE  NothingLeftBehind'
  OBVIOUS
<1> USE DaemonOfAssumption DEF NothingLeftBehind
<1> DEFINE Busy(d) == \E t \in Threads : DaemonOf[t] = d /\ pc[t] \in Locked
<1>1. pc \in [Threads -> Places] /\ locks \in [Daemons -> Modes] /\ fds \subseteq Threads
  BY DEF IInv, TypeOK, LockTypeOK
<1>2. ASSUME NEW t \in Threads, pc[t] \in Locked, UNCHANGED <<locks, fds>>,
             NEW p \in Locked, pc' = [pc EXCEPT ![t] = p]
      PROVE  NothingLeftBehind'
  BY <1>1, <1>2 DEF Locked, Work, Loops
<1>3. ASSUME NEW d \in Daemons, Dies(d)
      PROVE  NothingLeftBehind'
  <2>1. \A t \in Threads : pc'[t] = IF DaemonOf[t] = d THEN "idle" ELSE pc[t]
    BY <1>3 DEF Dies
  <2>2. fds' = {t \in fds : DaemonOf[t] # d}
    BY <1>3 DEF Dies
  <2>3. locks' = [locks EXCEPT ![d] = "none"]
    BY <1>3 DEF Dies, LocksEnd
  <2>4. \A t \in Threads : t \in fds' <=> pc'[t] # "idle"
    BY <2>1, <2>2
  <2>5. ASSUME NEW e \in Daemons, locks'[e] # "none"
        PROVE  Busy(e)'
    <3>1. e # d /\ locks[e] # "none"
      BY <1>1, <2>3, <2>5
    <3>2. PICK t \in Threads : DaemonOf[t] = e /\ pc[t] \in Locked
      BY <3>1
    <3>3. QED
      BY <2>1, <3>1, <3>2
  <2>6. QED
    BY <2>4, <2>5
<1>4. ASSUME NEW t \in Threads, TakeLock(t)
      PROVE  NothingLeftBehind'
  <2>1. pc[t] = "lock" /\ pc' = [pc EXCEPT ![t] = "meta"] /\ fds' = fds
    BY <1>4 DEF TakeLock, Goto
  <2>2. \A e \in Daemons \ {DaemonOf[t]} : locks'[e] = locks[e]
    BY <1>1, <1>4 DEF TakeLock, Lock, SetLock, LockFails
  <2>3. pc'[t] \in Locked /\ \A u \in Threads : pc[u] \in Locked => pc'[u] \in Locked
    BY <1>1, <2>1 DEF Locked, Work
  <2>4. ASSUME NEW e \in Daemons, locks'[e] # "none"
        PROVE  Busy(e)'
    BY <2>2, <2>3, <2>4
  <2>5. QED
    BY <1>1, <2>1, <2>4
<1>5. ASSUME NEW t \in Threads, UnLock(t) \/ Close(t) \/ OpenClose(t)
      PROVE  NothingLeftBehind'
  <2>1. locks' = [locks EXCEPT ![DaemonOf[t]] = "none"]
    BY <1>5 DEF UnLock, Unlock, Close, CloseFile, OpenClose, SetLock
  <2>2. \A u \in Threads \ {t} : pc'[u] = pc[u]
    BY <1>1, <1>5 DEF UnLock, Close, OpenClose, Goto
  <2>3. \A u \in Threads : u \in fds' <=> pc'[u] # "idle"
    BY <1>1, <1>5 DEF UnLock, Close, OpenClose, Goto
  <2>4. ASSUME NEW e \in Daemons, locks'[e] # "none"
        PROVE  Busy(e)'
    <3>1. e # DaemonOf[t] /\ locks[e] # "none"
      BY <1>1, <2>1, <2>4
    <3>2. PICK u \in Threads : DaemonOf[u] = e /\ pc[u] \in Locked
      BY <3>1
    <3>3. QED
      BY <2>2, <3>1, <3>2
  <2>5. QED
    BY <2>3, <2>4
<1>6. ASSUME NEW t \in Threads, Open(t)
      PROVE  NothingLeftBehind'
  <2>1. pc[t] = "idle" /\ pc' = [pc EXCEPT ![t] = "lock"] /\ fds' = fds \cup {t}
        /\ locks' = locks
    BY <1>6 DEF Open, Goto
  <2>2. \A u \in Threads : pc[u] \in Locked => pc'[u] \in Locked
    BY <1>1, <2>1 DEF Locked, Work, Loops
  <2>3. \A u \in Threads : u \in fds' <=> pc'[u] # "idle"
    BY <1>1, <2>1
  <2>4. QED
    BY <2>1, <2>2, <2>3
<1>7. ASSUME NEW t \in Threads, ReadMeta(t) \/ Iterate(t) \/ LoopEnds(t)
      PROVE  NothingLeftBehind'
  <2>1. pc[t] \in Locked
    BY <1>7, MetaLeads DEF Iterate, LoopEnds, Locked, Work
  <2>2. CASE Leave(t)
    BY <1>2, <2>1, <2>2 DEF Leave, Goto, Locked
  <2>3. CASE Aborts(t)
    BY <1>3, <2>3 DEF Aborts
  <2>4. CASE UNCHANGED <<locks, fds, pc>>
    BY <2>4
  <2>5. ASSUME NEW l, Loop(t, l), l[1] \in Loops, UNCHANGED <<locks, fds>>
        PROVE  NothingLeftBehind'
    BY <1>2, <2>1, <2>5 DEF Loop, Goto, Locked, Work
  <2>6. CASE ReadMeta(t) /\ Loop(t, FirstLoop(call[t], size)) /\ UNCHANGED <<locks, fds>>
    <3>1. call[t] \in Calls[t] /\ size \in Nat
      BY <2>6, MetaLeads DEF IInv, ThreadsInv, TypeOK, Work
    <3>2. QED
      BY <2>5, <2>6, <3>1, FirstLoopIsLoop
  <2>7. CASE /\ Loop(t, <<"grow", copy[t].size, call[t].size>>)
             /\ UNCHANGED <<locks, fds>>
    BY <2>5, <2>7 DEF Loops
  <2>8. QED
    BY <1>7, <2>2, <2>3, <2>4, <2>6, <2>7, MetaLeads
       DEF Iterate, LoopEnds, Quit, Store, file
<1>8. CASE UNCHANGED vars
  BY <1>8 DEF vars
<1>9. QED
  BY <1>3, <1>4, <1>5, <1>6, <1>7, <1>8 DEF Next, Step

(* Every way out of a handler closes its descriptor, and a daemon at rest  *)
(* has no lock on the file.                                                *)
THEOREM NothingIsLeft == Spec => []NothingLeftBehind
<1>1. Init => NothingLeftBehind
  BY DEF Init, LockInit, NothingLeftBehind
<1>2. QED
  BY <1>1, LeftStep, Invariant, PTL DEF Spec
-----------------------------------------------------------------------------
(* The loops advance.                                                      *)

(* A round goes on to the end of the block or of the request, whichever is *)
(* first, and never nowhere.                                               *)
LEMMA InBlockAdvances ==
  ASSUME NEW t \in Threads, pos[t] \in Nat, end[t] \in Nat, pos[t] < end[t]
  PROVE  InBlock(t) \in 1..(end[t] - pos[t])
<1>1. pos[t] % BlockSize \in 0..(BlockSize - 1)
  BY BlockSizeAssumption
<1>2. BlockSize - (pos[t] % BlockSize) \in Nat \ {0} /\ end[t] - pos[t] \in Nat \ {0}
  BY <1>1, BlockSizeAssumption
<1>3. QED
  BY <1>2 DEF InBlock, Lesser

(* A call begins with a loop that is no longer than what it asks for, but  *)
(* for smallBuf, which it may have to move, and the shrinking.             *)
LEMMA FirstLoopIsShort ==
  ASSUME NEW t \in Threads, NEW c \in Calls[t], NEW n \in Nat
  PROVE  LET l == FirstLoop(c, n) IN
         /\ l[1] = "fill" => l[3] <= l[2] + Small
         /\ l[1] \notin {"fill", "shrink"} => l[3] <= l[2] + c.size
         /\ l[1] = "shrink" => l[2] < l[3]
<1>0. /\ c.op \in {"read", "write", "truncate"}
      /\ c.off \in Nat /\ c.size \in Nat /\ c.off + c.size \in Nat
  BY CallParts
<1> USE <1>0, SizesAssumption DEF FirstLoop, Lesser
<1>1. CASE c.op = "read"
  BY <1>1
<1>2. CASE c.op = "write"
  BY <1>2
<1>3. CASE c.op = "truncate"
  <2>1. CASE c.size <= Small
    BY <1>3, <2>1
  <2>2. CASE c.size > Small /\ n <= Small
    BY <1>3, <2>2
  <2>3. CASE c.size > Small /\ n > Small /\ c.size < n
    BY <1>3, <2>3
  <2>4. CASE c.size > Small /\ n > Small /\ c.size >= n
    BY <1>3, <2>4
  <2>5. QED
    BY <2>1, <2>2, <2>3, <2>4
<1>4. QED
  BY <1>1, <1>2, <1>3

(* What StepsLeft counts; a handler between its lock and its close has     *)
(* some steps left.                                                        *)
LEMMA StepsLeftType ==
  ASSUME IInv, NEW t \in Threads
  PROVE  /\ Ahead(t) \in Nat /\ StepsLeft(t) \in Nat
         /\ pc[t] \in (Locked \ {"shrink"}) \cup {"close"} => StepsLeft(t) > 0
<1>1. Ahead(t) \in Nat
  BY DEF IInv, TypeOK, Ahead
<1>2. pc[t] \in {"fill", "meta"} => call[t].size \in Nat
  BY CallParts DEF IInv, ThreadsInv, Work, Loops
<1>3. QED
  BY <1>1, <1>2, SizesAssumption DEF StepsLeft, Locked, Work, Loops

(* It is a matter of the thread's own place, call and offsets.             *)
LEMMA StepsLeftOwn ==
  ASSUME NEW t \in Threads, pc'[t] = pc[t], call'[t] = call[t], pos'[t] = pos[t], end'[t] = end[t]
  PROVE  StepsLeft(t)' = StepsLeft(t)
  BY DEF StepsLeft, Ahead

(* Within a loop a step that advances leaves fewer.                        *)
LEMMA AdvanceMovesOn ==
  ASSUME IInv, NEW t \in Threads, pc[t] \in {"read", "write", "move", "grow"},
         pos[t] < end[t], NEW n \in Nat \ {0}, Advance(t, n), UNCHANGED <<pc, end>>
  PROVE  StepsLeft(t)' < StepsLeft(t)
<1>1. pos[t] \in Nat /\ end[t] \in Nat /\ pos'[t] = pos[t] + n /\ end'[t] = end[t] /\ pc'[t] = pc[t]
  BY DEF IInv, TypeOK, Advance
<1>2. Ahead(t)' < Ahead(t) /\ Ahead(t)' \in Nat /\ Ahead(t) \in Nat
  BY <1>1 DEF Ahead
<1>3. StepsLeft(t) = 3 + Ahead(t) /\ StepsLeft(t)' = 3 + Ahead(t)'
  BY <1>1 DEF StepsLeft
<1>4. QED
  BY <1>2, <1>3

(* What is left once a loop has begun.                                     *)
LEMMA LoopLeaves ==
  ASSUME IInv, NEW t \in Threads, NEW l, Loop(t, l), l[1] \in Loops, l[2] \in Nat, l[3] \in Nat,
         call' = call, call[t].size \in Nat, NEW m \in Nat, l[1] # "shrink" => l[3] <= l[2] + m
  PROVE  /\ StepsLeft(t)' \in Nat
         /\ l[1] = "shrink" => StepsLeft(t)' = 0
         /\ l[1] = "fill" => StepsLeft(t)' <= 4 + m + call[t].size
         /\ l[1] \notin {"fill", "shrink"} => StepsLeft(t)' <= 3 + m
<1>1. pc'[t] = l[1] /\ pos'[t] = l[2] /\ end'[t] = l[3]
  BY DEF Loop, Goto, IInv, TypeOK
<1>2. Ahead(t)' \in Nat /\ (l[1] # "shrink" => Ahead(t)' <= m)
  BY <1>1 DEF Ahead
<1>3. QED
  BY <1>1, <1>2 DEF StepsLeft, Loops

(* A death leaves its own threads nothing to do, and the others the same.  *)
LEMMA DeathLeaves ==
  ASSUME IInv, NEW d \in Daemons, Dies(d), NEW t \in Threads
  PROVE  StepsLeft(t)' = IF DaemonOf[t] = d THEN 0 ELSE StepsLeft(t)
<1>1. CASE DaemonOf[t] = d
  BY <1>1 DEF Dies, StepsLeft
<1>2. CASE DaemonOf[t] # d
  BY <1>2, StepsLeftOwn DEF Dies
<1>3. QED
  BY <1>1, <1>2

(* Every step of a handler leaves it fewer.                                *)
LEMMA StepMovesOn ==
  ASSUME IInv, NEW t \in Threads, pc[t] # "shrink", Step(t)
  PROVE  StepsLeft(t)' < StepsLeft(t)
<1> USE DaemonOfAssumption
<1>1. StepsLeft(t) \in Nat /\ StepsLeft(t) > 0
  BY StepsLeftType, MetaLeads DEF Step, Iterate, LoopEnds, UnLock, Close, Locked, Work
<1>2. pc \in [Threads -> Places]
  BY DEF IInv, TypeOK
<1>3. CASE Aborts(t)
  BY <1>1, <1>3, DeathLeaves DEF Aborts
<1>4. ASSUME Leave(t), pc[t] \in {"meta"} \cup (Loops \ {"shrink"})
      PROVE  StepsLeft(t)' < StepsLeft(t)
  <2>1. StepsLeft(t)' = 2
    BY <1>2, <1>4 DEF Leave, Goto, StepsLeft
  <2>2. StepsLeft(t) >= 3
    <3>1. Ahead(t) \in Nat
      BY StepsLeftType
    <3>2. pc[t] \in {"fill", "meta"} => call[t].size \in Nat
      BY CallParts DEF IInv, ThreadsInv, Work, Loops
    <3>3. QED
      BY <1>4, <3>1, <3>2, SizesAssumption DEF StepsLeft, Loops
  <2>3. QED
    BY <1>1, <2>1, <2>2
<1>5. CASE ReadMeta(t) /\ Loop(t, FirstLoop(call[t], size)) /\ UNCHANGED call
  <2> DEFINE l == FirstLoop(call[t], size)
             m == IF l[1] = "fill" THEN Small ELSE call[t].size
  <2>1. pc[t] = "meta" /\ call[t] \in Calls[t] /\ size \in Nat
    BY <1>5, MetaLeads DEF IInv, ThreadsInv, TypeOK, Work
  <2>2. call[t].size \in Nat /\ m \in Nat
    BY <2>1, CallParts, SizesAssumption
  <2>3. l[1] \in Loops /\ l[2] \in Nat /\ l[3] \in Nat /\ (l[1] # "shrink" => l[3] <= l[2] + m)
    BY <2>1, FirstLoopIsLoop, FirstLoopIsShort
  <2>4. StepsLeft(t) = 5 + Small + call[t].size
    BY <2>1 DEF StepsLeft
  <2>5. Loop(t, l) /\ call' = call
    BY <1>5
  <2> HIDE DEF l
  <2>6. /\ StepsLeft(t)' \in Nat
        /\ l[1] = "shrink" => StepsLeft(t)' = 0
        /\ l[1] = "fill" => StepsLeft(t)' <= 4 + m + call[t].size
        /\ l[1] \notin {"fill", "shrink"} => StepsLeft(t)' <= 3 + m
    BY <2>2, <2>3, <2>5, LoopLeaves
  <2>7. QED
    BY <2>2, <2>4, <2>6, SizesAssumption
<1>6. CASE Iterate(t) /\ ~Aborts(t)
  <2> DEFINE i == pos[t] \div BlockSize
  <2>1. pos[t] \in Nat /\ end[t] \in Nat /\ pos[t] < end[t] /\ Round(t, i) /\ UNCHANGED <<pc, end>>
    BY <1>6 DEF Iterate, IInv, TypeOK
  <2>2. InBlock(t) \in Nat \ {0}
    BY <2>1, InBlockAdvances
  <2>3. Lesser(end[t] - pos[t], BlockSize) \in Nat \ {0} /\ BlockSize \in Nat \ {0}
    BY <2>1, BlockSizeAssumption DEF Lesser
  <2>4. /\ pc[t] \in {"read", "write", "move", "grow"}
        /\ \/ Advance(t, InBlock(t))
           \/ Advance(t, Lesser(end[t] - pos[t], BlockSize))
           \/ Advance(t, BlockSize)
    BY <2>1 DEF Round
  <2>5. QED
    BY <2>1, <2>2, <2>3, <2>4, AdvanceMovesOn
<1>7. CASE LoopEnds(t) /\ ~Leave(t)
  <2> DEFINE l == <<"grow", copy[t].size, call[t].size>>
  <2>1. pc[t] = "fill" /\ Loop(t, l) /\ call' = call /\ pos[t] \in Nat /\ end[t] \in Nat
    BY <1>7 DEF LoopEnds, Quit, Store, IInv, TypeOK
  <2>2. call[t].size \in Nat /\ copy[t].size \in Nat
    BY <2>1, CallParts DEF IInv, TypeOK, ThreadsInv, Work, Loops
  <2>3. StepsLeft(t) >= 4 + call[t].size
    BY <2>1, <2>2, StepsLeftType DEF StepsLeft
  <2>4. /\ l[1] \in Loops /\ l[1] \notin {"fill", "shrink"} /\ l[2] \in Nat /\ l[3] \in Nat
        /\ l[3] <= l[2] + call[t].size
    BY <2>2 DEF Loops
  <2> HIDE DEF l
  <2>5. StepsLeft(t)' \in Nat /\ StepsLeft(t)' <= 3 + call[t].size
    BY <2>1, <2>2, <2>4, LoopLeaves
  <2>6. QED
    BY <1>1, <2>2, <2>3, <2>5
<1>8. CASE UnLock(t) \/ Close(t)
  <2>1. \/ pc[t] = "exit" /\ pc'[t] = "close"
        \/ pc[t] = "close" /\ pc'[t] = "idle"
    BY <1>2, <1>8 DEF UnLock, Close, Goto
  <2>2. QED
    BY <2>1 DEF StepsLeft
<1>9. QED
  BY <1>3, <1>4, <1>5, <1>6, <1>7, <1>8, MetaLeads
     DEF Step, LoopEnds, Quit, Store

(* What a thread does is nothing to the others, but for a death.           *)
LEMMA OthersStay ==
  ASSUME IInv, NEW u \in Threads, Open(u) \/ TakeLock(u) \/ Step(u) \/ OpenClose(u),
         ~Aborts(u), NEW t \in Threads \ {u}
  PROVE  pc'[t] = pc[t] /\ call'[t] = call[t] /\ pos'[t] = pos[t] /\ end'[t] = end[t]
<1> USE DEF IInv, TypeOK, Goto, local
<1>1. CASE Open(u) \/ TakeLock(u) \/ UnLock(u) \/ Close(u) \/ OpenClose(u)
  BY <1>1 DEF Open, TakeLock, UnLock, Close, OpenClose
<1>2. CASE ReadMeta(u)
  BY <1>2, MetaLeads DEF Quit, Leave, Loop
<1>3. CASE Iterate(u)
  BY <1>3 DEF Iterate, Round, Advance
<1>4. CASE LoopEnds(u)
  BY <1>4 DEF LoopEnds, Quit, Store, Leave, Loop
<1>5. QED
  BY <1>1, <1>2, <1>3, <1>4 DEF Step

LEMMA MovesOn ==
  ASSUME IInv, [Next]_vars, NEW t \in Threads, pc[t] \notin {"lock", "shrink"}
  PROVE  StepsLeft(t)' <= StepsLeft(t) /\ (Step(t) => StepsLeft(t)' < StepsLeft(t))
<1> USE DaemonOfAssumption
<1>0. StepsLeft(t) \in Nat
  BY StepsLeftType
<1>1. Step(t) => StepsLeft(t)' < StepsLeft(t)
  BY StepMovesOn
<1>2. ASSUME ~Step(t)
      PROVE  StepsLeft(t)' <= StepsLeft(t)
  <2>1. ASSUME NEW d \in Daemons, Dies(d)
        PROVE  StepsLeft(t)' <= StepsLeft(t)
    BY <1>0, <2>1, DeathLeaves
  <2>2. ASSUME NEW u \in Threads \ {t}, Open(u) \/ TakeLock(u) \/ Step(u) \/ OpenClose(u)
        PROVE  StepsLeft(t)' <= StepsLeft(t)
    <3>1. CASE Aborts(u)
      BY <2>1, <3>1 DEF Aborts
    <3>2. CASE ~Aborts(u)
      BY <1>0, <2>2, <3>2, OthersStay, StepsLeftOwn
    <3>3. QED
      BY <3>1, <3>2
  <2>3. ~TakeLock(t)
    BY DEF TakeLock
  <2>4. CASE Open(t) \/ OpenClose(t)
    <3>1. pc[t] = "idle" /\ pc'[t] \in {"idle", "lock"}
      BY <2>4 DEF Open, OpenClose, Goto, IInv, TypeOK
    <3>2. QED
      BY <3>1 DEF StepsLeft
  <2>5. CASE UNCHANGED vars
    BY <1>0, <2>5, StepsLeftOwn DEF vars, local
  <2>6. QED
    BY <1>2, <2>1, <2>2, <2>3, <2>4, <2>5 DEF Next
<1>3. StepsLeft(t)' \in Nat
  <2>1. IInv'
    BY StepKeeps
  <2>2. Ahead(t)' \in Nat
    BY <2>1 DEF IInv, TypeOK, Ahead
  <2>3. pc'[t] \in {"fill", "meta"} => call'[t].size \in Nat
    BY <2>1, CallParts DEF IInv, ThreadsInv, Work, Loops
  <2>4. QED
    BY <2>2, <2>3, SizesAssumption DEF StepsLeft
<1>4. QED
  BY <1>0, <1>1, <1>2, <1>3

(* For calls and blocks of any size, no handler that has asked for its     *)
(* lock takes more steps than StepsLeft says, whatever the others do: the  *)
(* rank by which ReadsAndWritesEnd holds.                                  *)
THEOREM HandlersAlwaysMoveOn == Spec => HandlersMoveOn
<1> DEFINE P == \A t \in Threads : pc[t] \in {"read", "write"} /\ pos[t] < end[t] =>
                  InBlock(t) \in 1..Ahead(t)
           A == \A t \in Threads : pc[t] \notin {"lock", "shrink"} =>
                  /\ StepsLeft(t)' <= StepsLeft(t)
                  /\ Step(t) => StepsLeft(t)' < StepsLeft(t)
<1>1. IInv => P
  BY InBlockAdvances DEF IInv, TypeOK, Ahead
<1>2. IInv /\ [Next]_vars => [A]_vars
  BY MovesOn
<1>3. Spec => []P /\ [][A]_vars
  BY <1>1, <1>2, Invariant, PTL DEF Spec
<1>4. QED
  BY <1>3 DEF HandlersMoveOn

-----------------------------------------------------------------------------
(* The loop of a shrinking truncate has always more before it.             *)
ShrinkHasMore == \A t \in Threads : pc[t] = "shrink" => pos[t] < end[t]

LEMMA ShrinkStep ==
  ASSUME IInv, ShrinkHasMore, [Next]_vars
  PROVE  ShrinkHasMore'
<1> SUFFICES ASSUME NEW t \in Threads, pc'[t] = "shrink"
             PROVE  pos'[t] < end'[t]
  BY DEF ShrinkHasMore
<1> USE DaemonOfAssumption DEF ShrinkHasMore
<1>1. ASSUME pc'[t] = pc[t], pos'[t] = pos[t], end'[t] = end[t]
      PROVE  pos'[t] < end'[t]
  BY <1>1
<1>2. ASSUME NEW d \in Daemons, Dies(d)
      PROVE  pos'[t] < end'[t]
  BY <1>1, <1>2 DEF Dies
<1>3. ASSUME NEW u \in Threads \ {t}, Open(u) \/ TakeLock(u) \/ Step(u) \/ OpenClose(u), ~Aborts(u)
      PROVE  pos'[t] < end'[t]
  BY <1>1, <1>3, OthersStay
<1>4. CASE Open(t) \/ TakeLock(t) \/  UnLock(t) \/ Close(t)
  BY <1>4 DEF Open, TakeLock, Quit, Leave, UnLock, Close, Goto, IInv, TypeOK
<1>5. CASE OpenClose(t) \/ UNCHANGED vars
  BY <1>1, <1>5 DEF OpenClose, vars, local
<1>6. CASE ReadMeta(t) /\ ~Aborts(t)
  <2>1. call[t] \in Calls[t] /\ size \in Nat
    BY <1>6, MetaLeads DEF IInv, ThreadsInv, TypeOK, Work
  <2>2. Loop(t, FirstLoop(call[t], size))
    BY <1>6, MetaLeads DEF Quit, Leave, Goto, IInv, TypeOK
  <2>3. QED
    BY <2>1, <2>2, FirstLoopIsShort DEF Loop, Goto, IInv, TypeOK
<1>7. CASE Iterate(t) /\ ~Aborts(t)
  <2>1. pc' = pc /\ end' = end /\ pc[t] = "shrink" /\ Round(t, pos[t] \div BlockSize)
    BY <1>7 DEF Iterate
  <2>2. pos' = pos
    BY <2>1 DEF Round
  <2>3. QED
    BY <1>1, <2>1, <2>2
<1>8. CASE LoopEnds(t)
  BY <1>8 DEF LoopEnds, Quit, Store, Leave, Loop, Goto, IInv, TypeOK
<1>9. QED
  BY <1>2, <1>3, <1>4, <1>5, <1>6, <1>7, <1>8 DEF Next, Step, Aborts

(* And is left only by the end of the daemon.                              *)
LEMMA ShrinkLeaves ==
  ASSUME IInv, ShrinkHasMore, [Next]_vars, NEW t \in Threads, pc[t] = "shrink"
  PROVE  pc'[t] = "shrink" \/ Dies(DaemonOf[t])
<1> USE DaemonOfAssumption
<1>1. ASSUME NEW d \in Daemons, Dies(d)
      PROVE  pc'[t] = "shrink" \/ Dies(DaemonOf[t])
  BY <1>1 DEF Dies
<1>2. ASSUME NEW u \in Threads \ {t}, Open(u) \/ TakeLock(u) \/ Step(u) \/ OpenClose(u), ~Aborts(u)
      PROVE  pc'[t] = "shrink"
  BY <1>2, OthersStay
<1>3. ASSUME Open(t) \/ TakeLock(t) \/ Step(t) \/ OpenClose(t), ~Aborts(t)
      PROVE  pc'[t] = "shrink"
  <2>1. pos[t] \in Nat /\ end[t] \in Nat /\ pos[t] < end[t]
    BY DEF IInv, TypeOK, ShrinkHasMore
  <2>2. Iterate(t)
    BY <1>3, <2>1, MetaLeads DEF Step, Open, TakeLock, OpenClose, LoopEnds, UnLock, Close
  <2>3. QED
    BY <1>3, <2>2 DEF Iterate
<1>4. CASE UNCHANGED vars
  BY <1>4 DEF vars
<1>5. QED
  BY <1>1, <1>2, <1>3, <1>4 DEF Next, Aborts

(* A truncate that comes to shrink a file never comes to the pwrite, for   *)
(* any sizes: the file keeps its size, and what the loop removed stays     *)
(* named in it.                                                            *)
THEOREM ShrinksEndInDeath == Spec => ShrinkEndsInDeath
<1> DEFINE A == \A t \in Threads : pc[t] = "shrink" => pc'[t] = "shrink" \/ Dies(DaemonOf[t])
<1>1. Init => ShrinkHasMore
  BY DEF Init, ShrinkHasMore
<1>2. IInv /\ ShrinkHasMore /\ [Next]_vars => ShrinkHasMore' /\ [A]_vars
  BY ShrinkStep, ShrinkLeaves
<1>3. Spec => [][A]_vars
  BY <1>1, <1>2, Invariant, PTL DEF Spec
<1>4. QED
  BY <1>3 DEF ShrinkEndsInDeath
=============================================================================
