----------------------------- MODULE BlockFiles -----------------------------
(***************************************************************************)
(* xmp_truncate, xmp_read, xmp_write and xmp_open of the second daemon on  *)
(* one file that holds a FileMeta: threads of several daemons open it,     *)
(* lock it, copy its meta, work on the copy block by block, and write the  *)
(* meta back.  Block contents are left out, and the storage tiers are what *)
(* the handlers rely on: a get finds the block or the assert on its result *)
(* ends the daemon.  Offsets are counted in units; Small and BlockSize     *)
(* stand for SMALL_FILE_SIZE and header.blockSize.                         *)
(*                                                                         *)
(* The handlers turn offsets held in int into pointers.  Such a pointer is *)
(* read as the address it is meant to be, and the daemon may also die at   *)
(* any step.  Past the first fingerprint list there is no address that is  *)
(* meant (the list that extendFPList makes is stored over itself), and the *)
(* daemon dies.  pread and pwrite of the meta are atomic.                  *)
(***************************************************************************)
EXTENDS FileLock, Integers

CONSTANTS Small,       \* largest size kept in smallBuf
          BlockSize,
          Slots,       \* the fpCount of the first list of a file that has one
          MaxSize,     \* bound: stands for every fileSize as large or larger
          Calls        \* the calls a thread makes: op, off (not of truncate), size

ASSUME BlockSizeAssumption == BlockSize \in Nat \ {0}
ASSUME SizesAssumption == Small \in Nat /\ Slots \in Nat /\ MaxSize \in Nat
ASSUME CallsAssumption ==
  Calls \in [Threads ->
             SUBSET [op : {"read", "write", "truncate"}, off : Nat, size : Nat]]

VARIABLES
  len,      \* st_size of the file, against sizeof(FileMeta)
  size,     \* header.fileSize in the file
  named,    \* the slots of the first list that name a block, in the file
  pc,       \* where each thread is: "idle", a step of a handler, or a loop
  call,     \* its call
  fds,      \* the threads that have the file open
  copy,     \* its FileMeta: fileSize, and the slots that name a block
  pos,      \* startOffset of its loop
  end,      \* endOffset of its loop
  disturbed \* the threads at work on the meta whose lock was refused, or whose
            \* daemon has locked, unlocked or closed the file since: of
            \* interest to properties only

file == <<len, size, named>>
local == <<call, copy, pos, end>>
vars == <<locks, file, pc, fds, local, disturbed>>

Loops == {"read", "write", "move", "fill", "shrink", "grow"}
\* from the pread of the meta to its pwrite
Work == {"meta"} \cup Loops
\* where a thread has called lock_reg, and not yet un_lock
Locked == Work \cup {"exit"}
Places == {"idle", "lock", "close"} \cup Locked

None == [op |-> "none", off |-> 0, size |-> 0]
NoMeta == [size |-> 0, named |-> {}]
Lesser(m, n) == IF m > n THEN n ELSE m
InList(i) == len = "long" /\ i < Slots
BlocksOf(n) == {i \in 0..(Slots - 1) : i * BlockSize < n}

(* Slip: xmp_write asks for a read lock. *)
SlipModeOf(c) == IF c.op = "truncate" THEN "write" ELSE "read"

(* The lock a call asks for. *)
ModeOf(c) == IF c.op = "read" THEN "read" ELSE "write"

(* No code here makes a meta, so any that the format allows is a start.    *)
Init == /\ LockInit
        /\ len \in {"empty", "short", "exact", "long"}
        /\ size \in CASE len = "exact" -> 0..Small
                      [] len = "long"  -> 0..MaxSize
                      [] OTHER         -> {0}
        /\ named = IF len = "long" THEN BlocksOf(size) ELSE {}
        /\ pc = [t \in Threads |-> "idle"]
        /\ call = [t \in Threads |-> None]
        /\ copy = [t \in Threads |-> NoMeta]
        /\ pos = [t \in Threads |-> 0]
        /\ end = [t \in Threads |-> 0]
        /\ fds = {}
        /\ disturbed = {}

Goto(t, p) == pc' = [pc EXCEPT ![t] = p]

(* Whatever t does to its daemon's lock, it does to its siblings at work.  *)
Disturb(t) == disturbed' = (disturbed \ {t}) \cup {u \in Siblings(t) : pc[u] \in Work}

(* An assert of a handler fails, or a pointer is wrong: the daemon ends,   *)
(* and is started again.                                                   *)
Dies(d) ==
  LET Of(t) == DaemonOf[t] = d IN
  /\ \E t \in Threads : Of(t) /\ pc[t] # "idle"
  /\ LocksEnd(d)
  /\ pc' = [t \in Threads |-> IF Of(t) THEN "idle" ELSE pc[t]]
  /\ fds' = {t \in fds : ~Of(t)}
  /\ call' = [t \in Threads |-> IF Of(t) THEN None ELSE call[t]]
  /\ copy' = [t \in Threads |-> IF Of(t) THEN NoMeta ELSE copy[t]]
  /\ pos' = [t \in Threads |-> IF Of(t) THEN 0 ELSE pos[t]]
  /\ end' = [t \in Threads |-> IF Of(t) THEN 0 ELSE end[t]]
  /\ disturbed' = {t \in disturbed : ~Of(t)}
  /\ UNCHANGED file

Aborts(t) == Dies(DaemonOf[t])

(* The open of a handler; when it fails nothing happens.                   *)
Open(t) == /\ pc[t] = "idle"
           /\ fds' = fds \cup {t}
           /\ Goto(t, "lock")
           /\ UNCHANGED <<locks, file, local, disturbed>>

(* Slip: xmp_truncate goes on without its lock. *)
SlipTakeLock(t) ==
  /\ pc[t] = "lock"
  /\ \E c \in Calls[t] : /\ call' = [call EXCEPT ![t] = c]
                         /\ \/ c.op # "truncate" /\ Lock(t, ModeOf(c)) /\ Disturb(t)
                            \/ c.op = "truncate" /\ UNCHANGED <<locks, disturbed>>
  /\ Goto(t, "meta")
  /\ UNCHANGED <<file, fds, copy, pos, end>>

(* The result of read_lock and write_lock is overwritten unread.  Which    *)
(* call it is does not matter before.                                      *)
TakeLock(t) == /\ pc[t] = "lock"
               /\ \E c \in Calls[t] :
                    /\ call' = [call EXCEPT ![t] = c]
                    /\ \/ Lock(t, ModeOf(c)) /\ Disturb(t)
                       \/ LockFails /\ disturbed' = disturbed \cup {t}
               /\ Goto(t, "meta")
               /\ UNCHANGED <<file, fds, copy, pos, end>>

(* To _quit, with the file's meta as it is, or as a pwrite leaves it.      *)
Leave(t) == /\ Goto(t, "exit")
            /\ call' = [call EXCEPT ![t] = None]
            /\ copy' = [copy EXCEPT ![t] = NoMeta]
            /\ pos' = [pos EXCEPT ![t] = 0]
            /\ end' = [end EXCEPT ![t] = 0]
            /\ disturbed' = disturbed \ {t}
            /\ UNCHANGED <<locks, len, named, fds>>

Quit(t) == Leave(t) /\ UNCHANGED size

(* pwrite of sizeof(FileMeta): the header and the head of the first list,  *)
(* not the fingerprints behind it.                                         *)
Store(t, n) == Leave(t) /\ size' = n

PastEnd(c, n) == c.op # "truncate" /\ c.off >= n

(* Does call c work on smallBuf alone, in a file of size n?                *)
InSmallBuf(c, n) ==
  n <= Small /\ CASE c.op = "read"     -> TRUE
                  [] c.op = "write"    -> c.off + c.size <= Small
                  [] c.op = "truncate" -> c.size <= Small

(* Slip: a truncate to the size the file has is taken for a shrinking one. *)
SlipFirstLoop(c, n) ==
  CASE c.op = "read"  -> <<"read", c.off, Lesser(c.off + c.size, n)>>
    [] c.op = "write" -> <<"write", c.off, c.off + c.size>>
    [] c.op = "truncate" ->
         CASE c.size <= Small -> <<"move", 0, Lesser(c.size, n)>>
           [] c.size > Small /\ n <= Small -> <<"fill", 0, n>>
           [] n > Small /\ Small < c.size /\ c.size <= n -> <<"shrink", c.size, n>>
           [] OTHER -> <<"grow", n, c.size>>

(* The first loop of call c in a file of size n, and where it runs.        *)
FirstLoop(c, n) ==
  CASE c.op = "read"  -> <<"read", c.off, Lesser(c.off + c.size, n)>>
    [] c.op = "write" -> <<"write", c.off, c.off + c.size>>
    [] c.op = "truncate" ->
         CASE c.size <= Small -> <<"move", 0, Lesser(c.size, n)>>
           [] c.size > Small /\ n <= Small -> <<"fill", 0, n>>
           [] n > Small /\ Small < c.size /\ c.size < n -> <<"shrink", c.size, n>>
           [] OTHER -> <<"grow", n, c.size>>

Loop(t, l) == /\ Goto(t, l[1])
              /\ pos' = [pos EXCEPT ![t] = l[2]]
              /\ end' = [end EXCEPT ![t] = l[3]]

(* fstat fails. *)
StatFails(t) == pc[t] = "meta" /\ Quit(t)

(* The file is empty, as xmp_mknod makes it. *)
FileIsEmpty(t) == pc[t] = "meta" /\ len = "empty" /\ Quit(t)

(* An assert wants a whole FileMeta. *)
FileIsShort(t) == pc[t] = "meta" /\ len = "short" /\ Aborts(t)

(* The handler has come to the pread of the meta. *)
AtMeta(t) == pc[t] = "meta" /\ len \in {"exact", "long"}

PreadFails(t) == AtMeta(t) /\ Quit(t)

(* Slip: the result is returned at once, not by way of _quit. *)
SlipIsPastEnd(t) == /\ AtMeta(t) /\ PastEnd(call[t], size)
                    /\ Goto(t, "idle")
                    /\ disturbed' = disturbed \ {t}
                    /\ UNCHANGED <<locks, file, fds, local>>

(* Nothing of the file is at the offset. *)
IsPastEnd(t) == AtMeta(t) /\ PastEnd(call[t], size) /\ Quit(t)

(* What a call does with smallBuf stays in the copy: only the other        *)
(* branches write the meta back.  An assert wants no list in the file.     *)
UsesSmallBuf(t) == /\ AtMeta(t)
                   /\ ~PastEnd(call[t], size) /\ InSmallBuf(call[t], size)
                   /\ IF len = "exact" THEN Quit(t) ELSE Aborts(t)

(* The other branches; the one that moves smallBuf has that assert, too.   *)
Begin(t) ==
  LET l == FirstLoop(call[t], size)
  IN /\ AtMeta(t)
     /\ ~PastEnd(call[t], size) /\ ~InSmallBuf(call[t], size)
     /\ IF l[1] = "fill" /\ len # "exact"
        THEN Aborts(t)
        ELSE /\ copy' = [copy EXCEPT ![t] = [size |-> size, named |-> named]]
             /\ Loop(t, l)
             /\ UNCHANGED <<locks, file, fds, call, disturbed>>

(* fstat and pread of the meta, and where they lead. *)
ReadMeta(t) == \/ StatFails(t) \/ FileIsEmpty(t) \/ FileIsShort(t) \/ PreadFails(t)
               \/ IsPastEnd(t) \/ UsesSmallBuf(t) \/ Begin(t)

Advance(t, n) == pos' = [pos EXCEPT ![t] = @ + n]

(* Slip: the offset in the block is counted from one. *)
SlipInBlock(t) == Lesser(end[t] - pos[t], BlockSize - 1 - (pos[t] % BlockSize))

(* The rest of the block at pos, or of the request: minSize. *)
InBlock(t) == Lesser(end[t] - pos[t], BlockSize - (pos[t] % BlockSize))

(* A new block for slot i: fileSize grows by a whole block.                *)
NewBlock(t, i) ==
  copy' = [copy EXCEPT ![t] = [size  |-> Lesser(copy[t].size + BlockSize, MaxSize),
                               named |-> copy[t].named \cup {i}]]

(* One round of a loop, on slot i of the list.                             *)
Round(t, i) ==
  \/ /\ pc[t] = "read" /\ i \in copy[t].named
     /\ Advance(t, InBlock(t))
     /\ UNCHANGED copy
  \/ /\ pc[t] = "move" /\ i \in copy[t].named
     /\ Advance(t, Lesser(end[t] - pos[t], BlockSize))
     /\ UNCHANGED copy
  \/ /\ pc[t] = "write"
     /\ Advance(t, InBlock(t))
     /\ IF i \in copy[t].named THEN UNCHANGED copy ELSE NewBlock(t, i)
  \/ /\ pc[t] = "shrink" /\ i \in copy[t].named /\ pos[t] % BlockSize = 0
     /\ copy' = [copy EXCEPT ![t] = [size  |-> copy[t].size,
                                     named |-> copy[t].named \ {i}]]
     /\ UNCHANGED pos       \* and no round moves on: startOffset stays
  \/ /\ pc[t] = "grow"
     /\ NewBlock(t, i)
     /\ Advance(t, BlockSize)

(* getFP finds the slot of pos in the list or the daemon ends; so it does  *)
(* when get or remove is asked for a slot that names no block.             *)
Iterate(t) ==
  LET i == pos[t] \div BlockSize IN
  /\ pc[t] \in Loops /\ pos[t] < end[t]
  /\ \/ /\ InList(i)
        /\ Round(t, i)
        /\ UNCHANGED <<locks, file, pc, fds, call, end, disturbed>>
     \/ /\ ~InList(i) \/ (pc[t] \in {"read", "move", "shrink"} /\ i \notin copy[t].named)
        /\ Aborts(t)

(* A loop is through: what follows it in the handler.                      *)
LoopEnds(t) ==
  /\ pc[t] \in Loops /\ pos[t] >= end[t]
  /\ \/ pc[t] \in {"read", "move"} /\ Quit(t)
     \/ /\ pc[t] \in {"fill", "shrink"}
        /\ Loop(t, <<"grow", copy[t].size, call[t].size>>)
        /\ UNCHANGED <<locks, file, fds, call, copy, disturbed>>
     \/ pc[t] = "grow" /\ Store(t, Lesser(call[t].size, copy[t].size))
     \/ pc[t] = "write" /\ Store(t, copy[t].size)

UnLock(t) == /\ pc[t] = "exit"
             /\ Unlock(t) /\ Disturb(t)
             /\ Goto(t, "close")
             /\ UNCHANGED <<file, fds, local>>

Close(t) == /\ pc[t] = "close"
            /\ CloseFile(t) /\ Disturb(t)
            /\ fds' = fds \ {t}
            /\ Goto(t, "idle")
            /\ UNCHANGED <<file, local>>

(* xmp_open opens the file and closes it again.                            *)
OpenClose(t) == /\ pc[t] = "idle"
                /\ CloseFile(t) /\ Disturb(t)
                /\ UNCHANGED <<file, pc, fds, local>>

(* A handler goes on, once it has asked for its lock.                      *)
Step(t) == \/ ReadMeta(t)
           \/ Iterate(t) \/ LoopEnds(t)
           \/ UnLock(t) \/ Close(t)

Next == \/ \E t \in Threads : Open(t) \/ TakeLock(t) \/ Step(t) \/ OpenClose(t)
        \/ \E d \in Daemons : Dies(d)

(* The threads of a daemon are scheduled.  Nothing is assumed of a lock    *)
(* that is waited for.                                                     *)
Fairness == \A t \in Threads : WF_vars(Step(t))

Spec == Init /\ [][Next]_vars
FairSpec == Spec /\ Fairness

-----------------------------------------------------------------------------
TypeOK == /\ LockTypeOK
          /\ len \in {"empty", "short", "exact", "long"}
          /\ size \in Nat /\ named \subseteq Nat
          /\ pc \in [Threads -> Places]
          /\ call \in [Threads -> {None} \cup UNION {Calls[t] : t \in Threads}]
          /\ copy \in [Threads -> [size : Nat, named : SUBSET Nat]]
          /\ pos \in [Threads -> Nat] /\ end \in [Threads -> Nat]
          /\ fds \subseteq Threads /\ disturbed \subseteq Threads

(* What makes the properties below inductive: only a handler at work is    *)
(* disturbed; one that is not has the lock of its call, and has it for     *)
(* itself within its daemon.                                               *)
ThreadsInv ==
  /\ \A t \in Threads : pc[t] \in Work => call[t] \in Calls[t]
  /\ \A t \in Threads : pc[t] \in Loops \ {"read"} => call[t].op # "read"
  /\ \A t \in disturbed : pc[t] \in Work
  /\ \A t \in Threads \ disturbed : pc[t] \in Work =>
       /\ locks[DaemonOf[t]] = ModeOf(call[t])
       /\ \A u \in Siblings(t) : pc[u] \in Work => u \in disturbed

IInv == TypeOK /\ LockInv /\ ThreadsInv

(* The handler of t writes the meta back. *)
Stores(t) == pc[t] \in {"write", "grow"} /\ pc'[t] = "exit"

(* The handlers at work on a copy that t's store overtakes. *)
Overtaken(t) == {u \in Threads \ {t} : pc[u] \in Loops}

(* Handlers that have kept the lock they asked for never overtake one      *)
(* another (xmp_truncate, xmp_read and xmp_write lock the file from the    *)
(* pread of the meta to its pwrite): where an update is lost, or a read    *)
(* works on an old meta, one of the two was refused its lock, or lost it   *)
(* to a sibling, in the call it is in.  What a sibling took from one       *)
(* handler does no harm to any two others, nor to later calls.             *)
UpdatesAreCurrent ==
  [][\A t \in Threads : Stores(t) => t \in disturbed \/ Overtaken(t) \subseteq disturbed]_vars

(* However a handler ends, its descriptor is closed, and a daemon of which *)
(* no handler is running has no lock on the file (the _finally blocks).    *)
NothingLeftBehind ==
  /\ \A t \in Threads : t \in fds <=> pc[t] # "idle"
  /\ \A d \in Daemons : locks[d] # "none" =>
       \E t \in Threads : DaemonOf[t] = d /\ pc[t] \in Locked

(* At most so many steps are left of a handler that has asked for its      *)
(* lock, those of the loop of a truncate that shrinks the file not counted.*)
Ahead(t) == IF pos[t] < end[t] THEN end[t] - pos[t] ELSE 0
StepsLeft(t) ==
  CASE pc[t] = "close" -> 1
    [] pc[t] = "exit" -> 2
    [] pc[t] \in {"read", "write", "move", "grow"} -> 3 + Ahead(t)
    [] pc[t] = "fill" -> 4 + Ahead(t) + call[t].size
    [] pc[t] = "meta" -> 5 + Small + call[t].size
    [] OTHER -> 0

(* No round of a read or a write is empty, or longer than what is asked    *)
(* for; each step of a handler brings it nearer its end, and nothing that  *)
(* another thread does sets it back (the loops of xmp_read, xmp_write and  *)
(* xmp_truncate, but that one, at each boundary of a block, of the file    *)
(* and of the request).                                                    *)
HandlersMoveOn ==
  /\ [](\A t \in Threads : pc[t] \in {"read", "write"} /\ pos[t] < end[t] =>
          InBlock(t) \in 1..Ahead(t))
  /\ [][\A t \in Threads : pc[t] \notin {"lock", "shrink"} =>
          /\ StepsLeft(t)' <= StepsLeft(t)
          /\ Step(t) => StepsLeft(t)' < StepsLeft(t)]_vars

(* The loop of a truncate that shrinks the file is left only with the      *)
(* daemon, as xmp_truncate does not advance startOffset in it: the pwrite  *)
(* that should follow, with the smaller size, is never reached.            *)
ShrinkEndsInDeath ==
  [][\A t \in Threads : pc[t] = "shrink" =>
       pc'[t] = "shrink" \/ Dies(DaemonOf[t])]_vars

(* A read or a write that has asked for its lock ends: its loop moves on   *)
(* in every round.  (That of a truncate that shrinks the file does not.)   *)
ReadsAndWritesEnd ==
  \A t \in Threads : pc[t] = "meta" /\ call[t].op # "truncate" ~> pc[t] = "idle"
=============================================================================
