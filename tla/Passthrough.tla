---------------------------- MODULE Passthrough ----------------------------
(***************************************************************************)
(* The first daemon (src/fuse-daemon/fuse-daemon.cpp) under libfuse.  No   *)
(* handler keeps a descriptor: read and write open the path they are given *)
(* on every call, release does nothing.  Which file a handle of a program  *)
(* reaches is therefore a question of what path libfuse has for it, and    *)
(* that is modelled as external: a rename moves the paths of the handles   *)
(* that are open on the name, a file that is open is hidden before its name*)
(* is taken away, what is hidden is unlinked with its last handle, and no  *)
(* name changes while another handler has it.  The daemon is alone in the  *)
(* directory below the mount.                                              *)
(*                                                                         *)
(* Handlers run in Threads.  Those that open a descriptor take two steps,  *)
(* as others may come between; opening may always fail, and then the       *)
(* handler returns -errno and has done nothing.                            *)
(***************************************************************************)
EXTENDS PathHandlers

CONSTANTS Hidden,       \* names that libfuse hides open files under
          Handles,
          Threads,
          NoName,
          NoHandle

ASSUME HiddenAssumption == Hidden \subseteq Names
ASSUME NoNameAssumption == NoName \notin Names
ASSUME NoHandleAssumption == NoHandle \notin Handles

VARIABLES
  path,         \* libfuse: the path of each handle, NoName when not open
  passed,       \* the data last read or written through each handle
  opened,       \* the file the handle was opened on: of interest to properties
  op,           \* the handler that each thread is within, or "idle"
  at,           \* the path it was given
  fd,           \* the inode its descriptor is of
  hd            \* the handle it is for

handleVars == <<path, passed, opened>>
threadVars == <<op, at, fd, hd>>
vars == <<dirVars, handleVars, threadVars>>

Visible == Names \ Hidden

Ops == {"mknod", "open", "read", "write", "fallocate", "readdir"}

Init == /\ DirInit
        /\ path = [h \in Handles |-> NoName]
        /\ passed = [h \in Handles |-> Blank]
        /\ opened = [h \in Handles |-> NoInode]
        /\ op = [t \in Threads |-> "idle"]
        /\ at = [t \in Threads |-> NoName]
        /\ fd = [t \in Threads |-> NoInode]
        /\ hd = [t \in Threads |-> NoHandle]

Idle(t) == op[t] = "idle"

(* libfuse: the option hard_remove would unlink files that are open; main  *)
(* gives fuse_main the program's arguments as they are, without it.        *)
SlipHardRemove == TRUE
HardRemove == FALSE

(* libfuse: the lock of a path. *)
InUse(n) == \E t \in Threads : at[t] = n

IsOpen(n) == \E h \in Handles : path[h] = n

(* An inode that is no file: neither a name nor a descriptor has it. *)
Unused(i) == ~Linked(i) /\ \A t \in Threads : fd[t] # i

(* A handler opens path n; the descriptor is of inode i. *)
Enter(t, o, n, i, h) == /\ Idle(t)
                        /\ op' = [op EXCEPT ![t] = o]
                        /\ at' = [at EXCEPT ![t] = n]
                        /\ fd' = [fd EXCEPT ![t] = i]
                        /\ hd' = [hd EXCEPT ![t] = h]

(* It closes the descriptor and returns. *)
Leave(t) == /\ op' = [op EXCEPT ![t] = "idle"]
            /\ at' = [at EXCEPT ![t] = NoName]
            /\ fd' = [fd EXCEPT ![t] = NoInode]
            /\ hd' = [hd EXCEPT ![t] = NoHandle]

-----------------------------------------------------------------------------
(* The handlers that open a descriptor. *)

(* Slip: creat in place of the open, so that a file which exists is emptied.*)
SlipMknod(t, n, i) ==
  /\ IF IsA(n, "file")
     THEN /\ i = entry[n]
          /\ data' = [data EXCEPT ![i] = Blank]
          /\ UNCHANGED <<entry, kind, writable>>
     ELSE Unused(i) /\ CreateExclusive(n, i)
  /\ Enter(t, "mknod", n, i, NoHandle)
  /\ UNCHANGED handleVars

Mknod(t, n, i) == /\ Unused(i)
                  /\ CreateExclusive(n, i)
                  /\ Enter(t, "mknod", n, i, NoHandle)
                  /\ UNCHANGED handleVars

MknodReturns(t) == /\ op[t] = "mknod"
                   /\ Leave(t)
                   /\ UNCHANGED <<dirVars, handleVars>>

(* open only tries whether the file can be opened. *)
Open(t, n, h, write) ==
  /\ path[h] = NoName /\ \A u \in Threads : hd[u] # h
  /\ MayOpen(n, write)
  /\ Enter(t, "open", n, entry[n], h)
  /\ UNCHANGED <<dirVars, handleVars>>

OpenReturns(t) == /\ op[t] = "open"
                  /\ path' = [path EXCEPT ![hd[t]] = at[t]]
                  /\ opened' = [opened EXCEPT ![hd[t]] = fd[t]]
                  /\ Leave(t)
                  /\ UNCHANGED <<dirVars, passed>>

ByHandle(t, o, h, write) ==
  /\ path[h] # NoName
  /\ MayOpen(path[h], write)
  /\ Enter(t, o, path[h], entry[path[h]], h)
  /\ UNCHANGED <<dirVars, handleVars>>

Read(t, h) == ByHandle(t, "read", h, FALSE)

Pread(t) == /\ op[t] = "read"
            /\ passed' = [passed EXCEPT ![hd[t]] = data[fd[t]]]
            /\ Leave(t)
            /\ UNCHANGED <<dirVars, path, opened>>

(* Slip: the error is returned at once, and the descriptor not closed. *)
SlipPreadFails(t) == /\ op[t] = "read"
                     /\ op' = [op EXCEPT ![t] = "idle"]
                     /\ at' = [at EXCEPT ![t] = NoName]
                     /\ hd' = [hd EXCEPT ![t] = NoHandle]
                     /\ UNCHANGED <<fd, dirVars, handleVars>>

PreadFails(t) == op[t] = "read" /\ Leave(t) /\ UNCHANGED <<dirVars, handleVars>>

Write(t, h) == ByHandle(t, "write", h, TRUE)

Pwrite(t, d) == /\ op[t] = "write"
                /\ data' = [data EXCEPT ![fd[t]] = d]
                /\ passed' = [passed EXCEPT ![hd[t]] = d]
                /\ Leave(t)
                /\ UNCHANGED <<entry, kind, writable, path, opened>>

PwriteFails(t) == op[t] = "write" /\ Leave(t) /\ UNCHANGED <<dirVars, handleVars>>

(* A mode other than 0 is refused before anything is opened. *)
Fallocate(t, h) == ByHandle(t, "fallocate", h, TRUE)

(* posix_fallocate makes room and changes no byte that there was. *)
FallocateReturns(t) == /\ op[t] = "fallocate"
                       /\ Leave(t)
                       /\ UNCHANGED <<dirVars, handleVars>>

Readdir(t, n) == /\ Opendir(n)
                 /\ Enter(t, "readdir", n, entry[n], NoHandle)
                 /\ UNCHANGED handleVars

ReaddirReturns(t) == /\ op[t] = "readdir"
                     /\ Leave(t)
                     /\ UNCHANGED <<dirVars, handleVars>>

-----------------------------------------------------------------------------
(* The handlers that are one system call. *)

Truncate(n, d) == /\ MayOpen(n, TRUE)
                  /\ data' = [data EXCEPT ![entry[n]] = d]
                  /\ UNCHANGED <<entry, kind, writable>>

MakeOther(n, i) == /\ Unused(i)
                   /\ Mkfifo(n, i) \/ Mkdir(n, i) \/ Symlink(n, i)

ByName == \E n \in Visible :
            \/ Examine(n)
            \/ \E w \in BOOLEAN : Chmod(n, w)
            \/ \E d \in Data : Truncate(n, d)
            \/ \E i \in Inodes : MakeOther(n, i)
            \/ ~InUse(n) /\ Rmdir(n)
            \/ \E m \in Visible : Link(m, n)

(* libfuse: the handles that are open on a name follow it.                 *)
Moved(p, m, n) == [h \in Handles |-> IF p[h] = m THEN n ELSE p[h]]

(* libfuse: an open file is renamed to x, which no file has.               *)
FreeToHide(x) == x \in Hidden /\ ~Exists(x) /\ ~IsOpen(x) /\ ~InUse(x)

UnlinkName(n) ==
  /\ n \in Visible /\ ~InUse(n)
  /\ IF IsOpen(n) /\ ~HardRemove
     THEN \E x \in Hidden : FreeToHide(x) /\ Rename(n, x) /\ path' = Moved(path, n, x)
     ELSE Unlink(n) /\ UNCHANGED path
  /\ UNCHANGED <<passed, opened, threadVars>>

RenameName(m, n) ==
  /\ m \in Visible /\ n \in Visible /\ m # n
  /\ ~InUse(m) /\ ~InUse(n)
  /\ IF IsOpen(n) /\ ~HardRemove
     THEN /\ Exists(m) /\ MayReplace(m, n)
          /\ \E x \in Hidden :
               /\ FreeToHide(x)
               /\ entry' = Renamed(Renamed(entry, n, x), m, n)
               /\ path' = Moved(Moved(path, n, x), m, n)
          /\ UNCHANGED <<kind, data, writable>>
     ELSE Rename(m, n) /\ path' = Moved(path, m, n)
  /\ UNCHANGED <<passed, opened, threadVars>>

(* The handler release does nothing; after it libfuse unlinks a hidden file*)
(* whose last handle this was.                                             *)
Release(h) ==
  /\ path[h] # NoName /\ \A t \in Threads : hd[t] # h
  /\ path' = [path EXCEPT ![h] = NoName]
  /\ passed' = [passed EXCEPT ![h] = Blank]
  /\ opened' = [opened EXCEPT ![h] = NoInode]
  /\ IF path[h] \in Hidden /\ \A g \in Handles \ {h} : path[g] # path[h]
     THEN Unlink(path[h])
     ELSE UNCHANGED dirVars
  /\ UNCHANGED threadVars

-----------------------------------------------------------------------------
Step(t) == \/ \E n \in Visible : \/ \E i \in Inodes : Mknod(t, n, i)
                                 \/ \E h \in Handles, w \in BOOLEAN : Open(t, n, h, w)
                                 \/ Readdir(t, n)
           \/ \E h \in Handles : Read(t, h) \/ Write(t, h) \/ Fallocate(t, h)
           \/ MknodReturns(t) \/ OpenReturns(t) \/ FallocateReturns(t) \/ ReaddirReturns(t)
           \/ Pread(t) \/ PreadFails(t) \/ PwriteFails(t)
           \/ \E d \in Data : Pwrite(t, d)

NameStep == \/ ByName /\ UNCHANGED <<handleVars, threadVars>>
            \/ \E n \in Visible : UnlinkName(n)
            \/ \E m, n \in Visible : RenameName(m, n)

Next == \/ \E t \in Threads : Step(t)
        \/ NameStep
        \/ \E h \in Handles : Release(h)

Spec == Init /\ [][Next]_vars

-----------------------------------------------------------------------------
(* Domains. *)
TypeOK == /\ DirTypeOK
          /\ path \in [Handles -> Names \union {NoName}]
          /\ passed \in [Handles -> Data \union {Blank}]
          /\ opened \in [Handles -> Inodes \union {NoInode}]
          /\ op \in [Threads -> Ops \union {"idle"}]
          /\ at \in [Threads -> Names \union {NoName}]
          /\ fd \in [Threads -> Inodes \union {NoInode}]
          /\ hd \in [Threads -> Handles \union {NoHandle}]

(* The path that a handle is read and written by is at all times one of the*)
(* file it was opened on, whatever is renamed, unlinked, linked or made    *)
(* anew in the meantime: that is what opening by path on every call needs. *)
HandlesReachTheirFiles ==
  \A h \in Handles : path[h] # NoName => Exists(path[h]) /\ entry[path[h]] = opened[h]

(* A handler's descriptor is closed when it has returned, and while it is  *)
(* open it is of the file that still has the path the handler was given.   *)
DescriptorsAreOfRunningHandlers ==
  \A t \in Threads : IF Idle(t) THEN fd[t] = NoInode ELSE Exists(at[t]) /\ fd[t] = entry[at[t]]

(* Programs find their open files as they expect: what they read through a *)
(* handle is what was last written to that file.                           *)
OpenFiles == INSTANCE OpenFiles WITH
               Files <- Inodes, NoFile <- NoInode, fileOf <- opened, content <- data
OpenFilesSpec == OpenFiles!Spec

-----------------------------------------------------------------------------
(* The inductive invariant behind them: whose path a thread has. *)
PathsInv ==
  \A t \in Threads :
    /\ Idle(t) => at[t] = NoName /\ hd[t] = NoHandle
    /\ ~Idle(t) => at[t] \in Names
    /\ op[t] \in {"mknod", "open", "readdir"} => at[t] \in Visible
    /\ op[t] \in {"read", "write", "fallocate"} => hd[t] \in Handles /\ at[t] = path[hd[t]]
    /\ op[t] = "open" => /\ hd[t] \in Handles /\ path[hd[t]] = NoName
                         /\ kind[fd[t]] = "file"
                         /\ \A u \in Threads \ {t} : hd[u] # hd[t]

(* Handles are of files, or not open. *)
OpenedInv == \A h \in Handles : IF path[h] = NoName
                                THEN opened[h] = NoInode
                                ELSE kind[opened[h]] = "file"

IInv == /\ TypeOK /\ PathsInv /\ OpenedInv
        /\ HandlesReachTheirFiles /\ DescriptorsAreOfRunningHandlers
=============================================================================
