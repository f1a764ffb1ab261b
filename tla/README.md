# A verification of st, the deduplicating FUSE file system

st is two FUSE daemons. The first (`src/src/fuse-daemon/`) passes every call on
to the directory below its mount. The second (`src/src/fuse-daemonV2/`) stores
the blocks of files by the MD5 of their contents, in three tiers: a map in
memory, a directory of files, a bucket of a cloud service. This directory holds
TLA+ modules translated from the code, the TLC configurations that check them on
small instances, and theorems about them that TLAPS proves for every instance.
Paths below are relative to `src/src/fuse-daemonV2/src/` unless they begin with
`src/`.

## 1. Inventory

| component | state | operations | interacts with |
|---|---|---|---|
| `Storage` (Storage.h) | - | put, get, remove, dereference, lock, unlock: the interface of a tier | the tiers implement it |
| `Lock` (Lock.cpp) | a pthread mutex, `owner` | lock, unlock, try_lock, get_owner | each tier and StorageMgr have one |
| `MemoryCache` | `cacheMap`: key to Block (count, bytes) | put, get, remove, dereference | hands out its own Blocks, not copies |
| `DiskCache` | a file per key in cacheDir: an int count, then the block | the same; getRefCount, setRefCount, getBuf, setBuf | system calls, an fsync per write |
| `BaiDuCloudStorage` | an object per key, its count in the header `x-bs-meta-ref` | the same | requests of bcs_sdk, which may fail; the bucket is shared by all daemons |
| `StorageMgr` | the three tiers, `mgrLock` | put, get, remove: each passes through the tiers in turn | called by the FUSE threads |
| `MD5` (Md5.cpp) | buffer, count, state, finalized | update, finalize, hexdigest, transform | MemoryCache::put and xmp_write take keys from it |
| md5.c (first daemon) | `md5_ctx`: total, buflen, buffer of two blocks, A to D | md5_process_bytes, md5_process_block, md5_finish_ctx, md5_stream, md5_buffer | - |
| handlers with blocks (fuse-daemonV2.cpp:204-606) | the meta of each file: header, small buffer, lists of fingerprints | xmp_open, xmp_read, xmp_write, xmp_truncate | StorageMgr, FPListOp, filelock |
| FPListOp, global.h | lists of fingerprints | getFP, extendFPList | the handlers with blocks |
| filelock | fcntl locks of the process | read_lock, write_lock, un_lock | the handlers with blocks, of all daemons |
| path handlers (fuse-daemonV2.cpp:49-202, `src/src/fuse-daemon/fuse-daemon.cpp`) | - | one system call each on the path | libfuse, the directory below |
| passthrough handlers (`src/src/fuse-daemon/fuse-daemon.cpp`) | none: a descriptor lives for one call | open, read, write, fallocate, readdir, mknod, release | libfuse's table of paths |
| Configuration | values | getters, setters | - |
| AliCloudStorage | - | none: an empty class | - |
| tiers of the first daemon | as above | predecessors, called by no handler; its StorageMgr and cloud classes are empty | - |

What is hard here, and makes a component correct:

* **Three counts, no transaction.** put and remove change memory, disk and
  bucket one after the other. The counts must agree while all goes well, and a
  death between two tiers must not make them drift without limit.
* **Reads and writes of a count are separate.** DiskCache and
  BaiDuCloudStorage read a count, compute and write it back; only a lock of the
  process lies around that.
* **The meta of a file is read, changed and written back** by handlers that run
  in threads of several daemons, under a lock that belongs to the process: a
  sibling is not excluded, and takes the lock away with its own unlock or with
  any close of the file, xmp_open's included.
* **No handler of the first daemon keeps a descriptor.** A read or a write opens
  its path again, and the file of that name may be another one by then.
* **Deaths of the process.** A new file of the disk tier is made by three
  system calls; memory is empty after a restart; the bucket and the disk are
  not. A failed `assert` is a death too, and the code has many.
* **Failing requests.** A failed `head_object` counts as "no such object";
  `dereference` does not look at its answer at all; nor do the handlers look at
  the result of read_lock and write_lock.
* **Sharing.** All daemons use one bucket, with a lock each of their own.
* **Locks on every path.** get leaves from the middle, and the handlers from
  eight places by `goto _quit`.
* **Boundaries.** MD5's padding, its count of bits or bytes, the buffer of two
  blocks; a count that reaches zero; offsets in blocks.

Every such place is a hazard in `PROJECT.json`, with its line and the
properties that are about it; where there is none, a note says why.

## 2. The modules

```
            Storage                        the contract of a tier
          /    |     \                     (refined by each of the three)
 MemoryCache DiskCache BaiDuCloudStorage
  |       \    |     /        \           (DiskCacheProofs: on DiskCache)
  |       StorageMgr           SharedBucket        (several daemons)
  |        |  \_refines_> BlockStore  |             (what its callers see)
  |        |                        |
  |  StorageMgrProofs         SharedBucketProofs
  |        |
  |  StorageMgrCalmProofs
  |
 LockedMemory -> Lock
  |
 LockProofs                                (of the lock and of the memory tier)

 PathHandlers <- Passthrough <- PassthroughProofs       OpenFiles  what programs
                     |________________refines______________^       expect

 FileLock <- BlockFiles <- BlockFilesProofs

 Md5    Md5Ctx    Md5Words <- Md5Rounds         (MCMd5 puts them side by side)
   \_______\__________\__________/
                  MCMd5 <- Md5Proofs
```

| module | models | state and actions |
|---|---|---|
| `Storage` | what the interface promises | one count per key; put, dereference, remove, atomic |
| `Lock` | Lock.cpp | `mutex`, `owner`; taking the mutex and writing `owner` are separate steps, in the order of the code |
| `MemoryCache` | MemoryCache.cpp | `cacheMap` as a partial function to counts; a call is a step, as its caller holds the tier's lock |
| `LockedMemory` | the memory tier behind its lock | `Lock` and `MemoryCache` composed: a thread calls the tier between lock and unlock |
| `DiskCache` | DiskCache.cpp | `file[k]`: how much of the file is written, and its count; an action for each system call that matters; each assert that can fail has a state of its own in `dpc` |
| `BaiDuCloudStorage` | BaiDuCloudStorage.cpp | `object[k]`: count, and whether its body is the block; an action for each request |
| `SharedBucket` | daemons calling that class | `held`: the references each daemon has; deaths |
| `StorageMgr` | StorageMgr.cpp | instances of the three tiers, `mgrLock`, where each thread is; `fpRefs`, the fingerprints in the files |
| `BlockStore` | what the callers of StorageMgr may expect | one count per key, and of each thread its call: asked, done, answered. No tiers, no locks |
| `PathHandlers` | the handlers of names that both daemons have word for word | a flat directory: `entry`, `kind`, `data`, `writable`; an action for each system call on a path |
| `Passthrough` | the first daemon under libfuse | `path` (libfuse's), `passed` and `opened` of each handle; `op`, `at`, `fd`, `hd` of each thread. A handler that opens a descriptor is two steps, with others in between |
| `OpenFiles` | what a program may expect of files it has open | a file and the data last passed, of each handle; no names |
| `FileLock` | filelock.cpp on fcntl locks | `locks`: the lock of each daemon |
| `BlockFiles` | xmp_truncate, xmp_read, xmp_write, xmp_open of the second daemon on one file | `len`, `size`, `named`: the file's meta; `pc`, `call`, `copy`, `pos`, `end` of each thread: the handler's step, its copy of the meta, its loop; `fds`; `disturbed`: the handlers at work whose lock was refused, or touched by a sibling. Each way to `_quit` is an action of its own |
| `Md5` | Md5.cpp, update and finalize | buffer, count, finalized as in the code; `state` is the sequence of blocks given to transform |
| `Md5Ctx` | md5.c as a stream | `total`, `buflen`, `cbuffer` of the context, `chunk` of md5_stream; `cstate` as above |
| `Md5Words` | 32-bit words, the functions of both implementations | a word is the set of its bits |
| `Md5Rounds` | transform and md5_process_block, side by side | the registers, words and state of both; a step of each of the 64 is a step |

A tier's module has its operations, and a `Next` that calls them in any order.
StorageMgr, SharedBucket and LockedMemory instantiate the same operations, so
nothing is modelled twice. `PathHandlers` has the system calls, `Passthrough`
says when they are made.

A `Slip...` operator beside an action is that action with a plausible mistake
(a lock forgotten, a count lowered too early, an entry not erased). No
specification uses one. They are there to be put in place of the action, and
show that the properties can fail.

### What is external, and how it is taken

* *pthread mutex*: excludes; no order among those who wait.
* *bcs_sdk*: a request may fail, and a failed put or delete may or may not have
  been carried out. A head, a get or a delete of a missing object fails. A
  request that succeeds is atomic. `MaxFaults` bounds the failures.
* *the file system below the tiers*: a write that succeeds is there after the
  process dies (the code calls fsync; the death of the process, not of the
  machine, is what is modelled). A full device makes the write of a new file's
  count or block short (`DiskFull`).
* *the callers* of StorageMgr: FUSE's threads. A thread removes a fingerprint
  only while a file still has it and no other thread is removing it, and a file
  has a fingerprint when the put of it has returned. This is the discipline
  the handlers are written for; where xmp_write breaks it is a hazard of its own
  (fuse-daemonV2.cpp:576).
* *libfuse* (`Passthrough`): it has a path for each open handle, which a rename
  moves; a file that is open is renamed to a hidden name when it is unlinked or
  replaced, and unlinked with its last handle; no name changes while another
  handler is running with it. `HardRemove` is FALSE because main passes the
  program's arguments on as they are.
* *the directory below the mount*: flat, with the errors of POSIX (EEXIST,
  ENOENT, EISDIR, ...), and used by nobody else.
* *fcntl locks* (`FileLock`): a lock is of a process; a new one replaces it;
  unlock, and close of any descriptor of the file, take it away; F_SETLKW waits
  and may fail. pread and pwrite of the meta are atomic.

### How the unfinished code of the handlers with blocks is read

This part of the second daemon does not compile (`fi` is not declared in
xmp_truncate, `fp->md5 = md5.md5().c_str()` assigns to an array), main calls
`test()` in the place of `fuse_main`, and no code makes a FileMeta. `BlockFiles`
models the control of the handlers as they are written, and takes the least that
gives them a meaning: a pointer made of an int offset is the address it is meant
to be, and since it may not be, the daemon may die at any step; past the first
list, where extendFPList stores a list over itself and no address is meant, it
does die. `Init` has any meta that the format of global.h allows. What the code
does within these limits is kept, sense or not: a write to smallBuf is not
stored, a truncate that shrinks a file goes round on one block, a new block makes
the size grow by a whole block, a store leaves the fingerprints out.

## 3. What TLC checks

Each run has a question of its own. "V" marks the runs in which TLC finds a
violation, of what an assert or a test of the repository says: these are the
findings of section 6.

| run | shows | bounds |
|---|---|---|
| lock_memory | `owner`, written outside the mutex, never names a thread that is outside; the map drops a block with its last reference; the memory tier implements Storage | 4 threads, 2 keys, counts to 3 |
| disk | counts stay positive through a death between any two system calls and a full device; a torn file stays torn; complete files implement Storage; `IInv` holds, which says that no read-modify-write of a count is interleaved | 2 keys, 2 threads, counts to 3, any number of deaths |
| disk_torn V | a death within put leaves a file that later calls fail asserts on | 1 key, 2 threads |
| bucket_races | two daemons race, a request fails, a daemon dies: an object that is no block still has a negative count | 1 key, 2 daemons, 1 failure, 1 death |
| bucket_alone | one daemon: a count that was read is still the object's when a later request writes it, so that the tier implements Storage; the count is what the daemon holds, give or take one for the death | 2 keys, 2 threads, 1 death |
| bucket_two_daemons V | two daemons in the bucket lose an update | 1 key, no failure, no death |
| manager | the three tiers agree on all counts, no assert fails, nobody waits for ever, the block of every fingerprint is found, and mgrLock is always given back | 2 keys, 2 threads, 2 fingerprints per key |
| manager_crash | memory is never ahead of disk; a remove that got past memory does not fail an assert on disk; each death moves a count by at most one, so that blocks in use survive; the calls are those of one atomic store; disk and bucket keep the contract of Storage in the manager's use of them; the inductive invariant `IInv` holds | 1 key, 3 threads, 2 deaths, 1 failed request, full device |
| restart_get V | get after a restart returns NULL for a stored block | 1 key, 2 threads, 1 death |
| md5 | both streams give the digest of the padded message however it is cut into pieces, and count exactly across overflow; finalize settles the digest; md5.c stays within its buffer; the 64 steps of both go through the same registers, to the digest that is known | streams: blocks of 4 bytes, length of 2, words modulo 32, messages to 7 bytes (Md5.cpp) and 40 (md5.c); rounds: real sizes, 9 messages |
| passthrough | every handle reaches the file it was opened on whatever happens to names; every descriptor is closed, by failed calls too, and of the file that has the path; the daemon implements OpenFiles; `IInv` holds | 2 names and 2 to hide files under, 3 inodes, 2 handles, 2 threads |
| block_files | no store of the meta overtakes a handler at work, unless one of the two was refused its lock or lost it to a sibling in that call; every exit unlocks and closes; every step leaves a handler fewer, so reads and writes end; a truncate that shrinks never does; `IInv` holds | 1 file, 3 threads of 2 daemons with two or three calls each to choose from, sizes to 5 with blocks of 2, a smallBuf of 1 and a first list of 3 |

`IInv` is the inductive invariant of the proofs, and has the type invariant and
the parts it needs among its conjuncts. Where no run lists `TypeOK` it is in
it, or proved (section 4) without a run of its own, as in the bucket; the disk
tier's `CountReadIsCurrent` is in it too.

**Why the bounds are enough.** Operations on different keys meet only in the
locks, so one key with two or three threads has every race, and the second key
is there to let two calls be about different ones. Counts matter at 0, at 1 (the
last reference) and above 1: two references reach all three, three leave room
for a mistake to pass unnoticed at 2. Two deaths are what a drift that adds up
needs. One failed request can be any of the requests, and for any other number
there are the proofs.

MD5's sizes keep what matters of 64, 8 and 2^32 - the length takes less than a
block, a word is a multiple of the bits of a block - while the padding overflows
into a block of its own within 7 bytes, and the low word of each count overflows
too: Md5.cpp counts bits, md5.c bytes, which takes it 32. Where the two streams
do not depend on bytes but on their places, a byte is its place. The rounds have
no small instance; nine messages go through all of their 64 steps, among them
every byte value, and `AlwaysSameRegisters` covers all other messages.

In `passthrough` two names are enough for a rename over a file that is open, two
hidden names for both handles' files to be hidden at once, a third inode for a
file made in the place of both. Names, inodes, handles and threads are only
compared and used as indices, so symmetry is sound; the run has no liveness.

In `block_files` two threads of one daemon and one of another have every way in
which a lock is lost or kept: refused, granted to a second handler of the daemon,
taken away by its un_lock, its close or xmp_open. Each thread has two or three
calls of its own, chosen so that between them there are both lock modes, each branch of truncate, offsets
within and across a block, and calls that run past the first list. Blocks of 2
have an offset that is aligned and one that is not. `MaxSize` stands for every
larger size (a new block does not make the size go past it). Every bound is a
CONSTANT with its name and a comment.

**Deadlock** is checked in lock_memory, disk, manager, passthrough and
block_files. Where it is not (`CHECK_DEADLOCK FALSE`), the system really stops:
a failed assert has ended a daemon whose deaths are used up, or an MD5 object is
finalized and full.

**Fairness.** `LockIsReleased` and `ReadsAndWritesEnd` are the liveness
properties. Each `FairSpec` has weak fairness of each thread's `Step`: of a
thread that is within a call of StorageMgr, or of a handler that has asked for
its lock. The code waits there only for locks of the process, for the disk and
for answers of the service, which come or fail. Nothing makes a thread begin a
call, and nothing is assumed of one that waits for an fcntl lock of another
daemon. No strong fairness is needed, because that a waiter gets its lock in the
end is not claimed (neither a pthread mutex nor fcntl promises it). A truncate
that shrinks a file is left out of `ReadsAndWritesEnd`, as its loop does not
advance (fuse-daemonV2.cpp:297); `ShrinkEndsInDeath` says what becomes of it.

`HandlersMoveOn` is the reason for `ReadsAndWritesEnd`, and needs no fairness: it
gives each handler a bound on the steps it has left (`StepsLeft`), which every
step of its own lowers and none of another raises. Fairness has to say only that
a thread that can take a step takes one.

**Refinement.** `ContractSpec` says that a tier implements `Storage`. MemoryCache
does so with the counts of its entries. DiskCache does when a file that is not
complete counts as no block: so a torn put is one that did not happen, and, with
`OnlyItsCreatorCompletesAFile`, never will. The cloud tier does when a daemon is
alone in the bucket and its requests succeed. `OpenFilesSpec` says that the first
daemon implements `OpenFiles`, in which there are no names: a handle's file is
the one it was opened on, and the data are those of that file.

`StoreSpec` says that StorageMgr implements `BlockStore`: its calls are atomic for
those who make them. A call takes effect in memory's part of it, a put, a remove
and a get alike; the parts of disk and bucket, which come afterwards, can change
no answer, whether they succeed or not. (A restart forgets everything, which is
what restart_get is about: get does not return what the other tiers have.)
`TiersSpec` says that the contract of `Storage`, which each tier keeps by itself,
is kept in the use that StorageMgr makes of it: by the disk through all
deaths, and by the bucket until a request fails. What memory promises is part of
`StoreSpec`.

## 4. What is proved

With TLAPS, for any keys, threads, daemons, names, files, calls and bounds:

| theorem | says |
|---|---|
| `StorageMgrProofs!Invariant` | `IInv` is an invariant of StorageMgr |
| `StorageMgrProofs!TypeCorrect` | `TypeOK`, in which no count of fingerprints is negative |
| `StorageMgrProofs!TiersAlwaysAgree` | until a death or a failure, all three tiers count exactly the fingerprints in the files |
| `StorageMgrProofs!MemoryNeverAhead` | memory never counts more than the disk, nor (while no request failed) than the bucket |
| `StorageMgrProofs!DriftIsBounded` | the count on disk is off by at most one per death |
| `StorageMgrProofs!ManagerIsBlockStore` | the manager implements `BlockStore`: its calls are linearizable, through deaths, refusals of the device and of the service |
| `StorageMgrProofs!TiersKeepTheirContract` | in the manager's use of them the disk tier implements `Storage`, wherever the daemon dies, and the bucket until a request fails |
| `StorageMgrProofs!BlocksOfFilesSurvive` | a key with more fingerprints than deaths and removes under way is still counted on disk, and (while no request failed) its block is in the bucket |
| `StorageMgrProofs!DereferenceIsSafe` | a remove past memory fails no assert on disk |
| `StorageMgrCalmProofs!AssertsHold` | until a death or a failure, and with room on the device, no assert of any tier fails |
| `StorageMgrCalmProofs!BlocksAreFound` | until a death, get returns the block of every fingerprint in a file, whatever requests fail |
| `SharedBucketProofs!BucketTypes` | `TypeOK` of the bucket and its daemons, and exclusion within a daemon |
| `SharedBucketProofs!BadBodiesAreNegative` | whatever fails, dies or races, an object that is no block has a negative count |
| `SharedBucketProofs!AloneCountsAreCurrent` | one daemon, no failures, any deaths: counts that were read are current when written, no object holds anything but a block, nobody holds more than is counted |
| `SharedBucketProofs!AloneImplementsStorage` | one daemon, no failures, any deaths: the cloud tier implements `Storage` |
| `SharedBucketProofs!AloneCountIsReferencesHeld` | for that daemon, an object counts the references held between calls, give or take one for each death |
| `LockProofs!OwnerIsNeverOutside`, `OwnerIsNeverOutsideInUse` | get_owner never names a thread that is outside, in any use of the lock and in the memory tier's |
| `LockProofs!NoEntryOutlivesItsReferences` | the map drops an entry with its last reference |
| `LockProofs!MemoryImplementsStorage` | the memory tier behind its lock implements `Storage` |
| `DiskCacheProofs!DiskInvariant` | `IInv` is an invariant of DiskCache, through any deaths and full devices |
| `DiskCacheProofs!CountsStayPositive` | no count in a file reaches zero: the asserts on counts hold |
| `DiskCacheProofs!CountsAreWrittenAsRead` | no update of a count is lost |
| `DiskCacheProofs!TornFilesStayTorn` | only the put that created a file completes it |
| `DiskCacheProofs!DiskImplementsStorage` | the disk tier implements `Storage`, an incomplete file being no block |
| `PassthroughProofs!Invariant` | `IInv` is an invariant of Passthrough |
| `PassthroughProofs!HandlesReach` | a handle's path is always one of the file it was opened on |
| `PassthroughProofs!DescriptorsRunning` | no descriptor is left behind, and each is of the file that has the handler's path |
| `PassthroughProofs!Refinement` | the daemon implements `OpenFiles` |
| `BlockFilesProofs!Invariant` | `IInv` is an invariant of BlockFiles |
| `BlockFilesProofs!Current` | a store of the meta overtakes a handler at work only if one of the two was refused its lock, or lost it to a sibling, in the call it is in |
| `BlockFilesProofs!OneThreadIsEnough` | daemons that run one handler at a time never overtake each other's copies of the meta, wherever they die, if their locks are granted |
| `BlockFilesProofs!HandlersAlwaysMoveOn` | every round of a read or a write gets on, every step of a handler leaves it fewer, and no other thread gives it more |
| `BlockFilesProofs!ShrinksEndInDeath` | a truncate that comes to the loop that shrinks the file leaves it only with the daemon |
| `BlockFilesProofs!NothingIsLeft` | every way out of a handler closes and unlocks |
| `Md5Proofs!SameStep` | a step of either implementation gives the same word, for all words, shifts and constants |
| `Md5Proofs!AlwaysSameRegisters` | both go through the same registers, in all 64 steps of every block of every message |
| `Md5Proofs!DigestsAreOfMessages` | Md5.cpp digests the padded message, whatever its pieces, for all sizes |
| `Md5Proofs!CountsAreExact` | the two words of Md5.cpp's count are the number of bits fed |
| `Md5Proofs!DigestsAreFrozen` | no call changes a digest that has been taken |
| `Md5Proofs!BuffersAreNotOverrun` | no copy of md5.c ends past its buffer, whatever it is fed |
| `Md5Proofs!BytesAreAccounted` | md5.c neither loses a byte nor counts it twice, if no piece is longer than 4 GiB |
| `Md5Proofs!ContextDigestsAreOfMessages` | md5.c digests the padded message, under the same condition |

**Assumptions.** `Threads` of StorageMgr is finite and does not contain
`NoThread`; bounds and sizes are natural numbers, a block is not empty; each
thread is of one daemon; the values that stand for "none" are not members of
what they stand beside. They are ASSUMEs in the modules that declare the
constants, and hold in every run. Of MD5's sizes they say what both
implementations are built on (`SizesAssumption`): the length fits into a block,
and a word is a multiple of the bits of a block; a chunk of md5_stream is counted
in a word (`ChunksAssumption`; 4096 bytes in the code). Nothing is assumed of the
numbers 64, 8 and 2^32 themselves, except in the rounds, which have real words.

Some theorems have hypotheses of their own. Those named `Alone...` are about one
host in the bucket, and no request that fails (`Alone`); deaths and threads are
not limited. `OneThreadIsEnough` supposes that no lock is refused and that no
thread has a sibling. `PiecesFit`, of two theorems on md5.c, says that no single
piece is longer than a word can count. It is needed: `total` is a double word of
which the low half gets one carry (md5.c:317), and a piece of more than
4 GiB may need two. md5_stream feeds 4096 bytes at a time; callers of md5_buffer
and md5_process_bytes are free to feed more. That no copy ends past the buffer
is proved without it.

**The argument for StorageMgr.** None of the properties is inductive: the tiers
differ in the middle of every put. What is constant during a call is each tier's
count *less what the call under way has already added to it*: `MemCount`,
`DiskCount` and `CloudCount` subtract `InHand`, which depends on how far the
holder of mgrLock has got. No step within a call changes these (lemmas
`MemCountStable`, `DiskCountStable`, `CloudStepGood`), and the call's return
moves them all, and `fpRefs`, by the same amount (`ReleaseSettles`). A death
empties memory and leaves the reference in hand where it is, which moves a count
by at most one. To say how far a call is, the invariant needs that only the
holder of mgrLock is past `mgr` (`CallsInv`), that what a call read in a tier is
still there (`DiskInv`, `CloudInv`), and that there is a fingerprint for every
remove under way (`RemovesInv`, by cardinality of the set of those threads:
that is why Threads is finite).

That no assert fails needs more of the files than their counts. `CalmInv` says,
of a daemon that has not died, that a file is complete unless its own put is
under way (`FilesAreWhole`), that no assert of memory or disk has failed, and
that a get which missed memory is for a key no file refers to (`GetFound`). The
last follows from `MemAgrees`: before memory's part of a call, memory's count
*is* the number of fingerprints. The two theorems show exactly which of their
hypotheses the runs restart_get and disk_torn break.

`BlocksOfFilesSurvive` puts the two together: a tier's count may lack what the
deaths took from it (`DriftBounded`) and what removes under way have taken in
advance (`TakenByRemove`), and nothing else. That the bucket then has the block,
not just a count, is `CloudInv`.

**The argument for the manager's callers.** The step of `BlockStore` is memory's
part of a call (`StoreTakes`); all others are stutters or the beginning and end of
a call (`StoreStutter`). What makes that part atomic is that it is one, under
mgrLock and the lock of the tier; what makes it a step of `BlockStore` is
`NoDeadEntry`: memory answers a get with the block exactly if its count is
positive. The proof needs nothing of the disk and the bucket, which is the point:
`OtherTiersStutter` shows for every step of theirs, also for those that fail an
assert, that neither a count in memory, nor an answer, nor where the call is for its
caller changes.

**The argument for the tiers in use.** In the manager a tier's steps are its own,
one call at a time, but deaths, other tiers and the caller's bookkeeping lie
between them. That what a call read of a file or an object is what it writes back
(`DiskInv`, `CloudInv`) needs that only the holder of mgrLock is in a tier
(`CallsInv`). Then each write is a step of `Storage` or a stutter
(`DiskReferencesStep`, `BucketReferencesStep`). The bucket's claim ends with the
first failure, as a put whose head_object failed starts the count again at one.

**The argument for the bucket.** A body that is not a block gets in only through
dereference, whose failed get has no count, which is taken as 0 and stored as
-1. From then on the count that is stored with that body is computed from the
count that was read with it (`StoresInv`), so it goes down only. Put replaces
body and count together. No lock is used in this argument, which is why it holds
of any number of daemons. For a daemon alone, storaeLock leaves one thread within
a call; the invariant is then about that thread's locals. With one host the sum
of `CountIsReferencesHeld` is one number, and the invariant is that the object
counts the references held plus the one in the hand of a put that has uploaded,
and at most one more for each death.

**The argument for the refinements of `Storage`.** Each tier has one step that
changes what `References` says of a key, and `Storage` has an action for it. In
memory it is the call itself, which is atomic under the lock; the work is to show
that an entry without a reference does not exist (`NoDeadEntry`), so that a put
on a key always raises a count `Storage` has too. On disk a new put takes effect
with the write of the block, all earlier steps being stutters because the file
is not complete, and every other call with the write of its count. That write is
one of `Storage`'s only if the count is still the one read
(`CountReadIsCurrent`), which needs that a thread within a call has the lock
(`OneCall`); and a torn file must never begin to count, which needs to know how
the file of a put under way looks (`NewFile`). A death lets go of the lock and
leaves files as they are, so it is a stutter. In the bucket the step is the
upload or the delete.

**The argument for the first daemon.** That a handle's path names the file it
was opened on is not inductive: between the open of xmp_open and its return there
is no handle yet, and the name must not change under it. `PathsInv` says what path
each running handler has and that it is libfuse's for its handle; with
`DescriptorsAreOfRunningHandlers`, a handler's name still leads to its
descriptor's file, because libfuse changes no name that is in use
(`NameStepKeeps`). A name that is taken from an open file becomes that file's
hidden name, which had no file and no handle (`FreeToHide`), so renaming paths and
entries together keeps the relation (`NamesChangeKeeps`). For the refinement an
inode must not be made anew while a handle is open on it: it has a name, by the
invariant, so it is not `Unused` (`HandleFacts`).

**The argument for the handlers with blocks.** `LockInv` is what fcntl keeps: the
locks of two processes are compatible (`SetLockKeeps`). The handlers' part is
`ThreadsInv`: one that is at work, and not disturbed, has the lock that its call
asked for, and every sibling at work is disturbed. It is kept because a handler
asks before it reads the meta, with the mode of its call (`TakeLockKeeps`), gives
the lock up only after its last use of the meta, and because whatever a thread
does to its daemon's lock disturbs the siblings at work (`DisturbKeeps`), which
is all that a lock of the process can promise. So of two handlers at work that
are not disturbed both are reading (`KeptLocksExclude`), and neither stores. The
disturbance is of the call: it ends with it (`LeaveKeeps`), and later calls are
safe again. With one thread to a daemon nothing disturbs (`CalmStep`). Where the
meta's many ways out lead is stated once (`MetaLeads`).

For `HandlersAlwaysMoveOn`: a round of read or write takes what is left of the
block or of the request, whichever is less, and both are positive within the loop
(`InBlockAdvances`); the first list can only make it shorter (`FirstLoopIsShort`).
Then each step lowers `StepsLeft` (`StepMovesOn`), the last by leaving the
loop, and what other threads do to a handler is to end its daemon or nothing
(`OthersStay`). For `ShrinksEndInDeath` the invariant is that a thread in
that loop has always more before it (`ShrinkHasMore`), as nobody moves `pos`.

**The argument for MD5.** The *rounds*: that md5.c's first function saves an
operation, and that its second is the first with the arguments turned, are
identities of bits. The two add the same four words in different orders, so
`SameStep` needs that addition of words, which is made of carries here,
associates and commutes (`BitByBit` carries a claim from bit to bit).
`AlwaysSameRegisters` then needs that md5.c's copy of the block's words is
filled as far as the step is (`RoundsInv`).

*Md5.cpp's stream*: while update is called, the object is the message
(`Represents`): the whole blocks are in state, the rest at the front of buffer,
the length in count. Feeding a piece in one go is the same whether it fills the
buffer, and how often (`AbsorbShort` and the lemmas after it), whatever else is
in the buffer. finalize feeds the padding and the length it took before; their
length makes whole blocks (`PadLen`), so nothing is left.

*md5.c's stream*: a context `Holds` k blocks if they are the first k of the
message, what waits in the buffer is what follows, and `total` is the length of
the blocks. Between calls no more than a block waits: bytes that join a waiting
rest fill the buffer of two blocks at most, and only what is left over of them is
kept, but a block that is just full may stay. `CtxInv(fits)`
says this of the message that the calls have passed on, and that the chunk of
md5_stream is the rest; `fits` is whether the total is claimed. With
`fits = FALSE` it is an invariant of all behaviours and gives
`BuffersAreNotOverrun`; with TRUE it is kept by pieces that fit.

**Checked by TLC only.** Liveness (`LockIsReleased`, `ReadsAndWritesEnd`), as
TLAPS has no ENABLED; what `ReadsAndWritesEnd` needs besides fairness is proved
(`HandlersAlwaysMoveOn`). `KnownDigest`, which is one computation. `FilesAreReadable`
and the other properties that are violated; `CountIsReferencesHeld` of more than
one daemon is among them. What is proved of the streams is that the right blocks,
padded, go to transform; that the 64 steps are those of RFC 1321 is checked
against the digest in Md5Test, and otherwise only that both daemons agree.

## 5. What is not modelled

* **Contents of blocks and of smallBuf** in the handlers with blocks, and with
  them what a program reads back; the references that a file's blocks have in the
  tiers (xmp_write never takes away the one it replaces, xmp_unlink none at all).
* **extendFPList and the lists after the first**: see section 2.
* **Bytes.** In the tiers a key stands for a block. That two blocks may have one
  MD5, and that put writes no second block for a key, is as in the code.
* **Ownership of Blocks.** xmp_read deletes the Block that MemoryCache still has
  (a hazard); the model has answers, not addresses.
* **hexdigest**: the printing of 16 bytes.
* **xmp_fallocate of the second daemon**. Both daemons have one, compiled with
  HAVE_POSIX_FALLOCATE only, which no file of the repository defines. The first
  daemon's is modelled (`Fallocate`); the second's would only change st_size,
  and drop the locks of its siblings with its close, as xmp_open does.
* **Short reads and writes of the first daemon**: a pread or a pwrite passes all
  of the data or fails.
* **The assert on the MD5 of a block** in MemoryCache::put (MemoryCache.cpp:36):
  a key stands for its block.
* **Owners, times, extended attributes, statfs** in the path handlers: a system
  call each, on state that nothing else in the daemons reads. Directories within
  directories.
* **File modes.** DiskCache::put creates files without giving a mode.
* **Counts near the limits of int.**
* **Configuration, AliCloudStorage**: values, nothing.
* **The first daemon's tiers**: no handler calls them. Its DiskCache keeps the
  count in an extended attribute; StorageMgr and the cloud classes are empty.
* **Tests.** Md5Test's message and digest are those of `KnownDigest`.

## 6. Findings

* *disk_torn*: a death within DiskCache::put leaves a file without a count or
  without a block; asserts of getRefCount and getBuf fail on it from then on,
  and a later put raises its count without repairing it.
* *bucket_two_daemons*: the bucket's name is compiled in and the lock is local,
  so two daemons lose updates of a count.
* *restart_get*: StorageMgr::get does not assign what the disk tier and the
  cloud tier return. Memory is empty after a restart, so get returns NULL for
  every stored block; and the first remove ends the daemon, as
  MemoryCache::dereference asserts that the block is in memory
  (MemoryCache.cpp:66).

One more needs no run of its own: with `MaxFaults = 1` in
`SharedBucketAlone.cfg`, TLC violates `CountIsReferencesHeld` without a second
daemon: a put whose head_object fails for a moment starts the count again at
one, and a dereference whose get fails stores a count of -1.

Of the handlers with blocks, which are unfinished, no document or test says what
they should do beyond the format of a file. What they do wrong at single lines is
listed with the hazards. What the runs add: `UpdatesAreCurrent` would be false
without `disturbed`. Two threads of one daemon, or one of them in xmp_open, are
enough to lose an update of a file's meta, and nothing in the code keeps FUSE from
running them.

## 7. Plan

Done: the storage core (tiers, manager, restarts, the shared bucket, the lock), both
MD5s, the first daemon as a file system, the handlers with blocks and their
locks. Proved: the invariants of the manager, the bucket, the lock, the memory
and the disk tier, the passthrough daemon, the handlers with blocks and both
MD5s; the refinement of `OpenFiles`, of `BlockStore` by the manager, and of
`Storage` by each of the three tiers, alone and in the manager's use of them; the
rank by which handlers end.

Left, in this order:

1. The fcntl locks as a refinement of a reader-writer lock for daemons that run
   one handler at a time.
2. `BlockFiles` over `StorageMgr`: the references of a file's blocks, once
   xmp_write and xmp_unlink give back those they drop.
3. What failed requests can do to the bucket's counts: how far each moves one.
4. The first daemon's DiskCache, if a handler comes to use it.
