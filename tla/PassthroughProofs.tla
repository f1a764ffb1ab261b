------------------------- MODULE PassthroughProofs -------------------------
(* Proofs about Passthrough: handles reach their files. *)
EXTENDS Passthrough, TLAPS

LEMMA InitIInv == Init => IInv
BY InodesAssumption, NoNameAssumption, NoHandleAssumption
DEF Init, DirInit, IInv, TypeOK, DirTypeOK, Kinds, PathsInv, OpenedInv, HandlesReachTheirFiles,
    DescriptorsAreOfRunningHandlers, Idle, Ops

(* A handler of thread t opens the file at n: what it then has is of that  *)
(* file. *)
LEMMA EnterKeeps ==
  ASSUME IInv, NEW t \in Threads, NEW n \in Names, NEW o \in Ops, NEW h \in Handles \union {NoHandle},
         Exists(n), Enter(t, o, n, entry[n], h), UNCHANGED <<dirVars, handleVars>>,
         o \in {"mknod", "open", "readdir"} => n \in Visible,
         o \in {"mknod", "readdir"} => h = NoHandle,
         o \in {"read", "write", "fallocate"} => h \in Handles /\ n = path[h],
         o = "open" => /\ h \in Handles /\ path[h] = NoName /\ kind[entry[n]] = "file"
                       /\ \A u \in Threads : hd[u] # h
  PROVE  IInv'
<1> USE DEF Enter, dirVars, handleVars, Exists
<1>1. TypeOK'
  BY DEF IInv, TypeOK, DirTypeOK
<1>2. PathsInv'
  BY NoNameAssumption, NoHandleAssumption DEF IInv, TypeOK, PathsInv, Idle, Ops, Visible
<1>3. OpenedInv' /\ HandlesReachTheirFiles'
  BY DEF IInv, OpenedInv, HandlesReachTheirFiles
<1>4. DescriptorsAreOfRunningHandlers'
  BY DEF IInv, TypeOK, DescriptorsAreOfRunningHandlers, Idle, Ops
<1> QED BY <1>1, <1>2, <1>3, <1>4 DEF IInv

(* A handler that opens nothing new closes its descriptor. *)
LEMMA LeaveKeeps ==
  ASSUME IInv, NEW t \in Threads, Leave(t),
         UNCHANGED <<entry, kind, writable, path, opened>>,
         data' \in [Inodes -> Data \union {Blank}],
         passed' \in [Handles -> Data \union {Blank}]
  PROVE  IInv'
<1> USE DEF Leave, Exists
<1>1. TypeOK'
  BY DEF IInv, TypeOK, DirTypeOK
<1>2. PathsInv'
  BY NoHandleAssumption DEF IInv, TypeOK, PathsInv, Idle
<1>3. OpenedInv' /\ HandlesReachTheirFiles'
  BY DEF IInv, OpenedInv, HandlesReachTheirFiles
<1>4. DescriptorsAreOfRunningHandlers'
  BY DEF IInv, TypeOK, DescriptorsAreOfRunningHandlers, Idle
<1> QED BY <1>1, <1>2, <1>3, <1>4 DEF IInv

(* A successful open gives the handle the path and the file that the thread*)
(* has. *)
LEMMA OpenReturnsKeeps ==
  ASSUME IInv, NEW t \in Threads, OpenReturns(t)
  PROVE  IInv'
<1> USE DEF OpenReturns, Leave, dirVars
<1>1. /\ hd[t] \in Handles /\ path[hd[t]] = NoName /\ at[t] \in Names /\ kind[fd[t]] = "file"
      /\ \A u \in Threads \ {t} : hd[u] # hd[t]
  BY DEF IInv, PathsInv, Visible
<1>2. Exists(at[t]) /\ fd[t] = entry[at[t]] /\ fd[t] \in Inodes
  BY <1>1 DEF IInv, TypeOK, DirTypeOK, DescriptorsAreOfRunningHandlers, Idle, Exists
<1>3. TypeOK'
  BY <1>1, <1>2 DEF IInv, TypeOK, DirTypeOK
<1>4. PathsInv'
  BY <1>1, NoHandleAssumption DEF IInv, TypeOK, PathsInv, Idle
<1>5. OpenedInv'
  BY <1>1, <1>2, NoNameAssumption DEF IInv, TypeOK, OpenedInv
<1>6. HandlesReachTheirFiles'
  BY <1>1, <1>2 DEF IInv, TypeOK, HandlesReachTheirFiles, Exists
<1>7. DescriptorsAreOfRunningHandlers'
  BY DEF IInv, TypeOK, DescriptorsAreOfRunningHandlers, Idle, Exists
<1> QED BY <1>3, <1>4, <1>5, <1>6, <1>7 DEF IInv

(* Names may change while nobody uses them, as long as each open handle    *)
(* goes on having a name of its file. *)
LEMMA NamesChangeKeeps ==
  ASSUME IInv, UNCHANGED <<passed, opened, threadVars>>,
         DirTypeOK', path' \in [Handles -> Names \union {NoName}],
         \A i \in Inodes : Linked(i) => kind'[i] = kind[i],
         \A t \in Threads : ~Idle(t) => entry'[at[t]] = entry[at[t]],
         \A h \in Handles : path'[h] # path[h] =>
           path[h] # NoName /\ path'[h] # NoName /\ ~InUse(path[h]),
         \A h \in Handles : path'[h] # NoName => entry'[path'[h]] = entry[path[h]]
  PROVE  IInv'
<1> USE DEF threadVars, Exists
<1>0. /\ \A t \in Threads : ~Idle(t) => fd[t] \in Inodes /\ kind'[fd[t]] = kind[fd[t]]
      /\ \A h \in Handles : path[h] # NoName =>
           opened[h] \in Inodes /\ kind'[opened[h]] = kind[opened[h]]
  <2>1. \A n \in Names : Exists(n) => entry[n] \in Inodes /\ Linked(entry[n])
    BY DEF IInv, TypeOK, DirTypeOK, Linked
  <2>2. /\ \A t \in Threads : ~Idle(t) => at[t] \in Names
        /\ \A h \in Handles : path[h] # NoName => path[h] \in Names
    BY DEF IInv, PathsInv, TypeOK
  <2> QED BY <2>1, <2>2 DEF IInv, DescriptorsAreOfRunningHandlers, HandlesReachTheirFiles
<1>1. TypeOK'
  BY DEF IInv, TypeOK
<1>2. PathsInv'
  <2> SUFFICES ASSUME NEW t \in Threads
               PROVE  /\ Idle(t) => at[t] = NoName /\ hd[t] = NoHandle
                      /\ ~Idle(t) => at[t] \in Names
                      /\ op[t] \in {"mknod", "open", "readdir"} => at[t] \in Visible
                      /\ op[t] \in {"read", "write", "fallocate"} =>
                            hd[t] \in Handles /\ at[t] = path'[hd[t]]
                      /\ op[t] = "open" => /\ hd[t] \in Handles /\ path'[hd[t]] = NoName
                                           /\ kind'[fd[t]] = "file"
                                           /\ \A u \in Threads \ {t} : hd[u] # hd[t]
    BY DEF PathsInv, Idle
  <2>1. ~Idle(t) => kind'[fd[t]] = kind[fd[t]]
    BY <1>0
  <2> QED BY <2>1 DEF IInv, PathsInv, InUse, Idle
<1>3. OpenedInv'
  BY <1>0 DEF IInv, OpenedInv
<1>4. HandlesReachTheirFiles'
  BY DEF IInv, HandlesReachTheirFiles
<1>5. DescriptorsAreOfRunningHandlers'
  BY DEF IInv, DescriptorsAreOfRunningHandlers, Idle
<1> QED BY <1>1, <1>2, <1>3, <1>4, <1>5 DEF IInv

LEMMA StepKeeps ==
  ASSUME IInv, NEW t \in Threads, Step(t)
  PROVE  IInv'
<1> USE DEF Ops
<1>1. ASSUME NEW n \in Visible, NEW i \in Inodes, Mknod(t, n, i) PROVE IInv'
  <2> USE <1>1 DEF Mknod, CreateExclusive, Make, Enter, handleVars
  <2>1. n \in Names /\ entry \in [Names -> Inodes \union {NoInode}] /\ i # NoInode
    BY InodesAssumption DEF Visible, IInv, TypeOK, DirTypeOK
  <2>2. TypeOK'
    BY <2>1 DEF IInv, TypeOK, DirTypeOK, Kinds
  <2>3. PathsInv'
    <3>1. \A u \in Threads : kind'[fd[u]] = kind[fd[u]] \/ u = t
      BY DEF Unused, IInv, TypeOK, DirTypeOK
    <3>2. Enter(t, "mknod", n, i, NoHandle) /\ path' = path
      OBVIOUS
    <3> HIDE <1>1
    <3> QED BY <2>1, <3>1, <3>2, NoNameAssumption, NoHandleAssumption
            DEF IInv, TypeOK, PathsInv, Idle
  <2>4. OpenedInv'
    BY DEF IInv, TypeOK, DirTypeOK, OpenedInv, HandlesReachTheirFiles, Unused, Linked
  <2>5. HandlesReachTheirFiles'
    BY <2>1 DEF IInv, TypeOK, HandlesReachTheirFiles, Exists
  <2>6. DescriptorsAreOfRunningHandlers'
    BY <2>1 DEF IInv, TypeOK, DescriptorsAreOfRunningHandlers, Idle, Exists
  <2> QED BY <2>2, <2>3, <2>4, <2>5, <2>6 DEF IInv
<1>2. ASSUME NEW n \in Visible, NEW h \in Handles, NEW w \in BOOLEAN, Open(t, n, h, w) PROVE IInv'
  BY <1>2, EnterKeeps DEF Open, MayOpen, IsA, Visible
<1>3. ASSUME NEW n \in Visible, Readdir(t, n) PROVE IInv'
  BY <1>3, EnterKeeps DEF Readdir, Opendir, IsA, Visible
<1>4. ASSUME NEW h \in Handles, NEW o \in {"read", "write", "fallocate"}, NEW w \in BOOLEAN,
             ByHandle(t, o, h, w)
      PROVE  IInv'
  <2>1. path[h] \in Names
    BY <1>4 DEF ByHandle, IInv, TypeOK
  <2> QED BY <1>4, <2>1, EnterKeeps DEF ByHandle, MayOpen, IsA
<1>5. ASSUME \/ MknodReturns(t) \/ FallocateReturns(t) \/ ReaddirReturns(t)
             \/ PreadFails(t) \/ PwriteFails(t)
      PROVE  IInv'
  BY <1>5, LeaveKeeps
  DEF MknodReturns, FallocateReturns, ReaddirReturns, PreadFails, PwriteFails,
      dirVars, handleVars, IInv, TypeOK, DirTypeOK
<1>6. ASSUME Pread(t) PROVE IInv'
  <2>1. fd[t] \in Inodes
    BY <1>6 DEF Pread, IInv, TypeOK, DirTypeOK, DescriptorsAreOfRunningHandlers, Idle, Exists, PathsInv
  <2>2. passed' \in [Handles -> Data \union {Blank}]
    BY <1>6, <2>1 DEF Pread, IInv, TypeOK, DirTypeOK
  <2> QED BY <1>6, <2>2, LeaveKeeps DEF Pread, dirVars, IInv, TypeOK, DirTypeOK
<1>7. ASSUME NEW d \in Data, Pwrite(t, d) PROVE IInv'
  <2>1. /\ data' \in [Inodes -> Data \union {Blank}]
        /\ passed' \in [Handles -> Data \union {Blank}]
    BY <1>7 DEF Pwrite, IInv, TypeOK, DirTypeOK
  <2> QED BY <1>7, <2>1, LeaveKeeps DEF Pwrite
<1> QED
  BY <1>1, <1>2, <1>3, <1>4, <1>5, <1>6, <1>7, OpenReturnsKeeps DEF Step, Read, Write, Fallocate

(* What taking a name away, or giving one, needs to know of the paths that *)
(* are in use: they are names, and their files exist. *)
LEMMA PathFacts ==
  ASSUME IInv
  PROVE  /\ \A t \in Threads : ~Idle(t) => at[t] \in Names /\ Exists(at[t]) /\ InUse(at[t])
         /\ \A h \in Handles : path[h] # NoName => path[h] \in Names /\ Exists(path[h]) /\ IsOpen(path[h])
         /\ entry \in [Names -> Inodes \union {NoInode}] /\ path \in [Handles -> Names \union {NoName}]
<1>1. \A t \in Threads : ~Idle(t) => at[t] \in Names
  BY DEF IInv, PathsInv
<1>2. \A t \in Threads : ~Idle(t) => Exists(at[t]) /\ InUse(at[t])
  BY DEF IInv, DescriptorsAreOfRunningHandlers, InUse
<1>3. \A h \in Handles : path[h] # NoName => path[h] \in Names /\ Exists(path[h]) /\ IsOpen(path[h])
  BY DEF IInv, TypeOK, HandlesReachTheirFiles, IsOpen
<1> QED BY <1>1, <1>2, <1>3 DEF IInv, TypeOK, DirTypeOK

LEMMA NameStepKeeps ==
  ASSUME IInv, NameStep
  PROVE  IInv'
<1> DEFINE Used(n) == InUse(n) \/ IsOpen(n)
<1>0. /\ \A t \in Threads : ~Idle(t) => at[t] \in Names /\ Exists(at[t]) /\ InUse(at[t])
      /\ \A h \in Handles : path[h] # NoName =>
           path[h] \in Names /\ Exists(path[h]) /\ IsOpen(path[h])
      /\ entry \in [Names -> Inodes \union {NoInode}] /\ path \in [Handles -> Names \union {NoName}]
      /\ DirTypeOK /\ Visible \subseteq Names
  BY PathFacts, HiddenAssumption DEF IInv, TypeOK, Visible
(* A name that nobody uses is given or taken away. *)
<1>1. ASSUME NEW n \in Names, NEW i \in Inodes \union {NoInode}, ~Used(n) \/ ~Exists(n),
             entry' = [entry EXCEPT ![n] = i], DirTypeOK',
             \A j \in Inodes : Linked(j) => kind'[j] = kind[j],
             UNCHANGED <<path, passed, opened, threadVars>>
      PROVE  IInv'
  <2>1. \A t \in Threads : ~Idle(t) => entry'[at[t]] = entry[at[t]]
    BY <1>0, <1>1
  <2>2. \A h \in Handles : path'[h] # NoName => entry'[path'[h]] = entry[path[h]]
    BY <1>0, <1>1
  <2> QED BY <1>0, <1>1, <2>1, <2>2, NamesChangeKeeps
(* An open file is hidden, and nothing else happens. *)
<1>2. ASSUME NEW n \in Visible, NEW x \in Hidden, ~InUse(n), FreeToHide(x), Rename(n, x),
             path' = Moved(path, n, x), UNCHANGED <<passed, opened, threadVars>>
      PROVE  IInv'
  <2>1. /\ n \in Names /\ x \in Names /\ n # x /\ Exists(n) /\ ~Exists(x) /\ ~IsOpen(x) /\ ~InUse(x)
        /\ entry' = [entry EXCEPT ![x] = entry[n], ![n] = NoInode]
    BY <1>2, HiddenAssumption DEF Visible, Rename, Renamed, FreeToHide, Exists
  <2>2. DirTypeOK'
    BY <1>0, <1>2, <2>1 DEF DirTypeOK, Rename
  <2>3. path' \in [Handles -> Names \union {NoName}]
    BY <1>0, <1>2, <2>1 DEF Moved
  <2>4. \A t \in Threads : ~Idle(t) => entry'[at[t]] = entry[at[t]]
    BY <1>0, <1>2, <2>1
  <2>5. \A h \in Handles : path'[h] # path[h] =>
          path[h] # NoName /\ path'[h] # NoName /\ ~InUse(path[h])
    BY <1>2, <2>1, NoNameAssumption DEF Moved
  <2>6. \A h \in Handles : path'[h] # NoName => entry'[path'[h]] = entry[path[h]]
    BY <1>0, <1>2, <2>1, NoNameAssumption DEF Moved
  <2> QED BY <1>2, <2>2, <2>3, <2>4, <2>5, <2>6, NamesChangeKeeps DEF Rename
(* A file gets another name, under which nothing is open. *)
<1>3. ASSUME NEW m \in Visible, NEW n \in Visible, m # n, ~InUse(m), ~InUse(n), ~IsOpen(n),
             Rename(m, n), path' = Moved(path, m, n), UNCHANGED <<passed, opened, threadVars>>
      PROVE  IInv'
  <2>1. /\ m \in Names /\ n \in Names /\ Exists(m)
        /\ entry' = Renamed(entry, m, n)
    BY <1>3 DEF Visible, Rename
  <2>2. DirTypeOK'
    BY <1>0, <1>3, <2>1 DEF DirTypeOK, Rename, Renamed
  <2>3. path' \in [Handles -> Names \union {NoName}]
    BY <1>0, <1>3, <2>1 DEF Moved
  <2>4. \A t \in Threads : ~Idle(t) => entry'[at[t]] = entry[at[t]]
    BY <1>0, <1>3, <2>1 DEF Renamed
  <2>5. \A h \in Handles : path'[h] # path[h] =>
          path[h] # NoName /\ path'[h] # NoName /\ ~InUse(path[h])
    BY <1>3, <2>1, NoNameAssumption DEF Moved
  <2>6. \A h \in Handles : path'[h] # NoName => entry'[path'[h]] = entry[path[h]]
    BY <1>0, <1>3, <2>1, NoNameAssumption DEF Moved, Renamed
  <2> QED BY <1>3, <2>2, <2>3, <2>4, <2>5, <2>6, NamesChangeKeeps DEF Rename
(* The same, after what is open under it has been hidden. *)
<1>4. ASSUME NEW m \in Visible, NEW n \in Visible, NEW x \in Hidden, m # n, ~InUse(m), ~InUse(n),
             Exists(m), Exists(n), FreeToHide(x),
             entry' = Renamed(Renamed(entry, n, x), m, n),
             path' = Moved(Moved(path, n, x), m, n),
             UNCHANGED <<kind, data, writable, passed, opened, threadVars>>
      PROVE  IInv'
  <2>1. /\ m \in Names /\ n \in Names /\ x \in Names /\ m # x /\ n # x
        /\ ~Exists(x) /\ ~IsOpen(x) /\ ~InUse(x)
    BY <1>4, HiddenAssumption DEF Visible, FreeToHide
  <2>2. entry' = [entry EXCEPT ![x] = entry[n], ![n] = entry[m], ![m] = NoInode]
    <3>1. Renamed(entry, n, x) = [entry EXCEPT ![x] = entry[n], ![n] = NoInode]
      BY <1>4, <2>1 DEF Renamed, Exists
    <3> QED BY <3>1, <1>0, <1>4, <2>1 DEF Renamed, Exists
  <2>3. DirTypeOK'
    BY <1>0, <1>4, <2>1, <2>2 DEF DirTypeOK
  <2>4. \A h \in Handles : path'[h] = IF path[h] = n THEN x ELSE IF path[h] = m THEN n ELSE path[h]
    BY <1>4, <2>1 DEF Moved
  <2>5. path' \in [Handles -> Names \union {NoName}]
    BY <1>0, <1>4, <2>1 DEF Moved
  <2>6. \A t \in Threads : ~Idle(t) => entry'[at[t]] = entry[at[t]]
    BY <1>0, <1>4, <2>1, <2>2
  <2>7. \A h \in Handles : path'[h] # path[h] =>
          path[h] # NoName /\ path'[h] # NoName /\ ~InUse(path[h])
    BY <1>4, <2>1, <2>4, NoNameAssumption
  <2>8. \A h \in Handles : path'[h] # NoName => entry'[path'[h]] = entry[path[h]]
    BY <1>0, <2>1, <2>2, <2>4
  <2> QED BY <1>4, <2>3, <2>5, <2>6, <2>7, <2>8, NamesChangeKeeps
<1>5. ASSUME ByName, UNCHANGED <<handleVars, threadVars>> PROVE IInv'
  <2> USE <1>5 DEF handleVars
  <2>1. ASSUME NEW n \in Visible, \/ Examine(n)
                                  \/ \E w \in BOOLEAN : Chmod(n, w)
                                  \/ \E d \in Data : Truncate(n, d)
        PROVE  IInv'
    <3>1. DirTypeOK' /\ entry' = entry /\ kind' = kind
      BY <1>0, <2>1 DEF DirTypeOK, Examine, Chmod, Truncate, dirVars
    <3> QED BY <1>0, <3>1, NamesChangeKeeps
  <2>2. ASSUME NEW n \in Visible, NEW i \in Inodes, MakeOther(n, i) PROVE IInv'
    <3>1. PICK k \in Kinds : Make(n, i, k)
      BY <2>2 DEF MakeOther, Mkfifo, Mkdir, Symlink, Kinds
    <3>2. DirTypeOK' /\ \A j \in Inodes : Linked(j) => kind'[j] = kind[j]
      BY <1>0, <2>2, <3>1 DEF MakeOther, Unused, Make, DirTypeOK
    <3> QED BY <1>0, <1>1, <3>1, <3>2 DEF Make
  <2>3. ASSUME NEW n \in Visible, ~InUse(n), Rmdir(n) PROVE IInv'
    <3>1. entry' = [entry EXCEPT ![n] = NoInode] /\ DirTypeOK' /\ kind' = kind
      BY <1>0, <2>3 DEF Rmdir, Drop, DirTypeOK
    <3>2. ~IsOpen(n)
      BY <1>0, <2>3, NoNameAssumption
      DEF IsOpen, Rmdir, IsA, IInv, OpenedInv, HandlesReachTheirFiles
    <3> QED BY <1>0, <1>1, <2>3, <3>1, <3>2
  <2>4. ASSUME NEW n \in Visible, NEW m \in Visible, Link(n, m) PROVE IInv'
    <3>1. /\ ~Exists(m) /\ entry' = [entry EXCEPT ![m] = entry[n]] /\ DirTypeOK'
          /\ entry[n] \in Inodes \union {NoInode} /\ kind' = kind
      BY <1>0, <2>4 DEF Link, DirTypeOK
    <3> QED BY <1>0, <1>1, <3>1
  <2> QED BY <2>1, <2>2, <2>3, <2>4 DEF ByName
<1>6. ASSUME NEW n \in Visible, UnlinkName(n) PROVE IInv'
  <2>1. CASE IsOpen(n) /\ ~HardRemove
    BY <1>2, <1>6, <2>1 DEF UnlinkName
  <2>2. CASE ~IsOpen(n)
    <3>1. /\ ~InUse(n) /\ entry' = [entry EXCEPT ![n] = NoInode] /\ DirTypeOK'
          /\ UNCHANGED <<path, passed, opened, threadVars, kind>>
      BY <1>0, <1>6, <2>2 DEF UnlinkName, Unlink, Drop, DirTypeOK
    <3> QED BY <1>0, <1>1, <2>2, <3>1
  <2> QED BY <2>1, <2>2 DEF HardRemove
<1>7. ASSUME NEW m \in Visible, NEW n \in Visible, RenameName(m, n) PROVE IInv'
  <2>1. CASE IsOpen(n) /\ ~HardRemove
    <3>1. Exists(n)
      BY <1>0, <2>1, NoNameAssumption DEF IsOpen
    <3> QED BY <1>4, <1>7, <2>1, <3>1 DEF RenameName, FreeToHide
  <2>2. CASE ~IsOpen(n)
    BY <1>3, <1>7, <2>2 DEF RenameName
  <2> QED BY <2>1, <2>2 DEF HardRemove
<1> QED BY <1>5, <1>6, <1>7 DEF NameStep

(* The last handle of a hidden file takes the file with it; no thread and  *)
(* no other handle has its name. *)
LEMMA ReleaseKeeps ==
  ASSUME IInv, NEW h \in Handles, Release(h)
  PROVE  IInv'
<1> USE DEF Release, threadVars
<1>0. /\ \A t \in Threads : ~Idle(t) => at[t] \in Names /\ Exists(at[t]) /\ InUse(at[t])
      /\ \A g \in Handles : path[g] # NoName =>
           path[g] \in Names /\ Exists(path[g]) /\ IsOpen(path[g])
      /\ entry \in [Names -> Inodes \union {NoInode}] /\ path \in [Handles -> Names \union {NoName}]
      /\ opened \in [Handles -> Inodes \union {NoInode}]
      /\ passed \in [Handles -> Data \union {Blank}]
  BY PathFacts DEF IInv, TypeOK
<1>1. DirTypeOK'
  BY <1>0 DEF Unlink, Drop, IInv, TypeOK, DirTypeOK, dirVars
<1>2. TypeOK'
  BY <1>0, <1>1 DEF IInv, TypeOK
<1>7. kind' = kind
  BY DEF Unlink, Drop, dirVars
<1>3. PathsInv'
  BY <1>0, <1>7, NoHandleAssumption DEF IInv, PathsInv, Idle
<1>4. OpenedInv'
  BY <1>0, <1>7 DEF IInv, OpenedInv
<1>5. CASE UNCHANGED dirVars
  <2>1. HandlesReachTheirFiles'
    BY <1>0, <1>5 DEF IInv, HandlesReachTheirFiles, dirVars, Exists
  <2>2. DescriptorsAreOfRunningHandlers'
    BY <1>5 DEF IInv, DescriptorsAreOfRunningHandlers, dirVars, Exists, Idle
  <2> QED BY <2>1, <2>2, <1>2, <1>3, <1>4 DEF IInv
<1>6. CASE /\ path[h] \in Hidden /\ \A g \in Handles \ {h} : path[g] # path[h]
           /\ entry' = [entry EXCEPT ![path[h]] = NoInode]
  <2>1. HandlesReachTheirFiles'
    BY <1>0, <1>6 DEF IInv, HandlesReachTheirFiles, Exists
  <2>2. \A t \in Threads : ~Idle(t) => at[t] # path[h]
    <3> SUFFICES ASSUME NEW t \in Threads, ~Idle(t), at[t] = path[h] PROVE FALSE
      OBVIOUS
    <3>1. op[t] \in {"read", "write", "fallocate"}
      BY <1>6 DEF IInv, TypeOK, PathsInv, Idle, Ops, Visible
    <3>2. hd[t] \in Handles /\ path[hd[t]] = path[h]
      BY <3>1 DEF IInv, PathsInv
    <3> QED BY <1>6, <3>2
  <2>3. DescriptorsAreOfRunningHandlers'
    BY <1>0, <1>6, <2>2 DEF IInv, DescriptorsAreOfRunningHandlers, Exists, Idle
  <2> QED BY <2>1, <2>3, <1>2, <1>3, <1>4 DEF IInv
<1> QED BY <1>5, <1>6 DEF Unlink, Drop

LEMMA NextKeeps == IInv /\ [Next]_vars => IInv'
<1> SUFFICES ASSUME IInv, [Next]_vars PROVE IInv'
  OBVIOUS
<1>1. ASSUME UNCHANGED vars PROVE IInv'
  BY <1>1 DEF vars, dirVars, handleVars, threadVars, IInv, TypeOK, DirTypeOK, PathsInv, OpenedInv,
              HandlesReachTheirFiles, DescriptorsAreOfRunningHandlers, Exists, Idle
<1> QED BY <1>1, StepKeeps, NameStepKeeps, ReleaseKeeps DEF Next

(* The conjuncts of IInv hold in every state: for any names, inodes,       *)
(* handles and threads. *)
THEOREM Invariant == Spec => []IInv
BY InitIInv, NextKeeps, PTL DEF Spec

(* A handle is at all times read and written by a path of the file it was  *)
(* opened on. *)
THEOREM HandlesReach == Spec => []HandlesReachTheirFiles
<1>1. IInv => HandlesReachTheirFiles
  BY DEF IInv
<1> QED BY <1>1, Invariant, PTL

(* No handler leaves a descriptor behind, and none is of another file than *)
(* the one that has the handler's path. *)
THEOREM DescriptorsRunning == Spec => []DescriptorsAreOfRunningHandlers
<1>1. IInv => DescriptorsAreOfRunningHandlers
  BY DEF IInv
<1> QED BY <1>1, Invariant, PTL

-----------------------------------------------------------------------------
(* The refinement of OpenFiles, action by action. *)

LEMMA HandleFacts ==
  ASSUME IInv
  PROVE  /\ \A t \in Threads : ~Idle(t) => fd[t] \in Inodes
         /\ \A t \in Threads : op[t] \in {"read", "write", "fallocate"} =>
              hd[t] \in Handles /\ opened[hd[t]] = fd[t]
         /\ \A h \in Handles : path[h] # NoName <=> opened[h] # NoInode
         /\ \A h \in Handles : opened[h] # NoInode => Linked(opened[h])
<1>1. /\ \A t \in Threads : ~Idle(t) => at[t] \in Names /\ Exists(at[t]) /\ fd[t] = entry[at[t]]
      /\ \A h \in Handles : path[h] # NoName =>
           path[h] \in Names /\ Exists(path[h]) /\ entry[path[h]] = opened[h]
      /\ entry \in [Names -> Inodes \union {NoInode}]
  BY PathFacts DEF IInv, DescriptorsAreOfRunningHandlers, HandlesReachTheirFiles
<1>2. \A t \in Threads : ~Idle(t) => fd[t] \in Inodes
  BY <1>1 DEF Exists
<1>3. \A h \in Handles : path[h] # NoName <=> opened[h] # NoInode
  BY <1>1 DEF IInv, OpenedInv, Exists
<1>4. \A h \in Handles : opened[h] # NoInode => Linked(opened[h])
  BY <1>1, <1>3 DEF Linked
<1>5. ASSUME NEW t \in Threads, op[t] \in {"read", "write", "fallocate"}
      PROVE  hd[t] \in Handles /\ opened[hd[t]] = fd[t]
  <2>1. hd[t] \in Handles /\ at[t] = path[hd[t]] /\ at[t] \in Names
    BY <1>5 DEF IInv, PathsInv, Idle
  <2> QED BY <1>1, <1>5, <2>1, NoNameAssumption DEF Idle
<1> QED BY <1>2, <1>3, <1>4, <1>5

LEMMA InitRefines == Init => OpenFiles!Init
BY DEF Init, DirInit, OpenFiles!Init

LEMMA StepRefines ==
  ASSUME IInv, NEW t \in Threads, Step(t)
  PROVE  [OpenFiles!Next]_OpenFiles!vars
<1> USE DEF OpenFiles!vars, handleVars, dirVars
<1>1. ASSUME NEW n \in Visible, NEW i \in Inodes, Mknod(t, n, i) PROVE OpenFiles!Next
  <2>1. \A h \in Handles : opened[h] # i
    BY <1>1, HandleFacts, InodesAssumption DEF Mknod, Unused
  <2> QED BY <1>1, <2>1
          DEF Mknod, CreateExclusive, Make, OpenFiles!Next, OpenFiles!Create, OpenFiles!Change
<1>2. ASSUME OpenReturns(t) PROVE OpenFiles!Next
  <2>1. /\ hd[t] \in Handles /\ path[hd[t]] = NoName /\ fd[t] \in Inodes
    BY <1>2, HandleFacts DEF OpenReturns, IInv, PathsInv, Idle
  <2>2. opened[hd[t]] = NoInode
    BY <2>1, HandleFacts
  <2>3. OpenFiles!Open(hd[t], fd[t])
    BY <1>2, <2>2 DEF OpenReturns, OpenFiles!Open, OpenFiles!IsOpen
  <2> QED BY <2>1, <2>3 DEF OpenFiles!Next
<1>3. ASSUME Pread(t) PROVE OpenFiles!Next
  <2>1. hd[t] \in Handles /\ opened[hd[t]] = fd[t] /\ fd[t] # NoInode
    BY <1>3, HandleFacts, InodesAssumption DEF Pread, Idle
  <2>2. OpenFiles!Read(hd[t])
    BY <1>3, <2>1 DEF Pread, OpenFiles!Read, OpenFiles!IsOpen
  <2> QED BY <2>1, <2>2 DEF OpenFiles!Next
<1>4. ASSUME NEW d \in Data, Pwrite(t, d) PROVE OpenFiles!Next
  <2>1. hd[t] \in Handles /\ opened[hd[t]] = fd[t] /\ fd[t] # NoInode
    BY <1>4, HandleFacts, InodesAssumption DEF Pwrite, Idle
  <2>2. OpenFiles!Write(hd[t], d)
    BY <1>4, <2>1 DEF Pwrite, OpenFiles!Write, OpenFiles!IsOpen
  <2> QED BY <2>1, <2>2 DEF OpenFiles!Next
<1>5. ASSUME \/ \E n \in Visible : (\E h \in Handles, w \in BOOLEAN : Open(t, n, h, w)) \/ Readdir(t, n)
             \/ \E h \in Handles : Read(t, h) \/ Write(t, h) \/ Fallocate(t, h)
             \/ MknodReturns(t) \/ FallocateReturns(t) \/ ReaddirReturns(t)
             \/ PreadFails(t) \/ PwriteFails(t)
      PROVE  UNCHANGED OpenFiles!vars
  BY <1>5 DEF Open, Readdir, Opendir, Read, Write, Fallocate, ByHandle, MknodReturns,
              FallocateReturns, ReaddirReturns, PreadFails, PwriteFails
<1> QED BY <1>1, <1>2, <1>3, <1>4, <1>5 DEF Step

LEMMA NextRefines ==
  ASSUME IInv, [Next]_vars
  PROVE  [OpenFiles!Next]_OpenFiles!vars
<1> USE DEF OpenFiles!vars
<1>1. ASSUME NameStep PROVE [OpenFiles!Next]_OpenFiles!vars
  <2> USE DEF dirVars, handleVars
  <2>1. ASSUME NEW n \in Visible, NEW d \in Data, Truncate(n, d), UNCHANGED handleVars
        PROVE  OpenFiles!Next
    <3>1. entry[n] \in Inodes
      BY <2>1 DEF Truncate, MayOpen, IsA, Exists, Visible, IInv, TypeOK, DirTypeOK
    <3>2. OpenFiles!Change(entry[n], d)
      BY <2>1 DEF Truncate, OpenFiles!Change
    <3> QED BY <3>1, <3>2 DEF OpenFiles!Next
  <2>2. ASSUME NEW n \in Visible, NEW i \in Inodes, MakeOther(n, i), UNCHANGED handleVars
        PROVE  OpenFiles!Next
    <3>1. \A h \in Handles : opened[h] # i
      BY <2>2, HandleFacts, InodesAssumption DEF MakeOther, Unused
    <3>2. data' = [data EXCEPT ![i] = Blank]
      BY <2>2 DEF MakeOther, Mkfifo, Mkdir, Symlink, Make
    <3> QED BY <2>2, <3>1, <3>2 DEF OpenFiles!Next, OpenFiles!Create, OpenFiles!Change
  <2>3. ASSUME ByName, UNCHANGED handleVars
        PROVE  [OpenFiles!Next]_OpenFiles!vars
    BY <2>1, <2>2, <2>3 DEF ByName, Examine, Chmod, Rmdir, Drop, Link
  <2>4. ASSUME NEW n \in Visible, UnlinkName(n) PROVE UNCHANGED OpenFiles!vars
    BY <2>4 DEF UnlinkName, Rename, Unlink, Drop
  <2>5. ASSUME NEW m \in Visible, NEW n \in Visible, RenameName(m, n) PROVE UNCHANGED OpenFiles!vars
    BY <2>5 DEF RenameName, Rename
  <2> QED BY <1>1, <2>3, <2>4, <2>5 DEF NameStep
<1>2. ASSUME NEW h \in Handles, Release(h) PROVE OpenFiles!Next
  <2>1. opened[h] # NoInode
    BY <1>2, HandleFacts DEF Release
  <2>2. OpenFiles!Release(h)
    BY <1>2, <2>1 DEF Release, Unlink, Drop, dirVars, OpenFiles!Release, OpenFiles!IsOpen
  <2> QED BY <2>2 DEF OpenFiles!Next
<1>3. CASE UNCHANGED vars
  BY <1>3 DEF vars, dirVars, handleVars
<1> QED BY <1>1, <1>2, <1>3, StepRefines DEF Next

(* What programs expect of the files they have open, OpenFiles, is what    *)
(* they get from handlers that open by path. *)
THEOREM Refinement == Spec => OpenFilesSpec
<1>1. IInv /\ [Next]_vars => [OpenFiles!Next]_OpenFiles!vars
  BY NextRefines
<1> QED BY <1>1, InitRefines, Invariant, PTL DEF Spec, OpenFilesSpec, OpenFiles!Spec
=============================================================================
