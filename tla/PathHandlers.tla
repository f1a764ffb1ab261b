---------------------------- MODULE PathHandlers ----------------------------
(***************************************************************************)
(* The handlers of names, which both daemons have word for word: each is a *)
(* system call on the path and returns its errno.  What is modelled is what*)
(* the call does to the directory below the mount; where it fails it does  *)
(* nothing and the handler returns -errno.  The directory is external: it  *)
(* is flat, and an inode has a kind, a content and whether it may be       *)
(* written.  Owners, times and extended attributes are left out.           *)
(***************************************************************************)
CONSTANTS Names,        \* names in the directory
          Inodes,
          NoInode,
          Data,         \* contents that are written
          Blank         \* the content of a file that is new

ASSUME InodesAssumption == NoInode \notin Inodes
ASSUME DataAssumption == Blank \notin Data

VARIABLES entry,        \* [Names -> Inodes], NoInode where there is no file
          kind,         \* [Inodes -> Kinds]
          data,         \* [Inodes -> Data], or Blank
          writable      \* [Inodes -> BOOLEAN]: may the daemon write the file?

dirVars == <<entry, kind, data, writable>>

Kinds == {"file", "dir", "other"}

DirInit == /\ entry = [n \in Names |-> NoInode]
           /\ kind = [i \in Inodes |-> "file"]
           /\ data = [i \in Inodes |-> Blank]
           /\ writable = [i \in Inodes |-> TRUE]

Exists(n) == entry[n] # NoInode

IsA(n, k) == Exists(n) /\ kind[entry[n]] = k

Linked(i) == \E n \in Names : entry[n] = i

(* A new inode i under a name that is free: EEXIST otherwise. *)
Make(n, i, k) == /\ ~Exists(n)
                 /\ entry' = [entry EXCEPT ![n] = i]
                 /\ kind' = [kind EXCEPT ![i] = k]
                 /\ data' = [data EXCEPT ![i] = Blank]
                 /\ writable' = [writable EXCEPT ![i] = TRUE]

(* getattr, access, readlink. *)
Examine(n) == Exists(n) /\ UNCHANGED dirVars

(* readdir, for the life of its DIR: filler is given every entry, whatever *)
(* offset was asked for.                                                   *)
Opendir(n) == IsA(n, "dir") /\ UNCHANGED dirVars

(* mknod of a file is open with O_CREAT and O_EXCL ... *)
CreateExclusive(n, i) == Make(n, i, "file")

(* ... and of anything else mkfifo or mknod. *)
Mkfifo(n, i) == Make(n, i, "other")

Mkdir(n, i) == Make(n, i, "dir")

Symlink(n, i) == Make(n, i, "other")

Drop(n) == /\ entry' = [entry EXCEPT ![n] = NoInode]
           /\ UNCHANGED <<kind, data, writable>>

Unlink(n) == Exists(n) /\ ~IsA(n, "dir") /\ Drop(n)

(* No directory has files in it: the model's directory is flat. *)
Rmdir(n) == IsA(n, "dir") /\ Drop(n)

(* A directory replaces nothing but a directory, nor is it replaced by     *)
(* anything else.                                                          *)
MayReplace(m, n) == Exists(n) => (IsA(m, "dir") <=> IsA(n, "dir"))

(* rename(2) of one link of a file to another does nothing. *)
Renamed(e, m, n) == IF e[m] = e[n] THEN e ELSE [e EXCEPT ![n] = e[m], ![m] = NoInode]

Rename(m, n) == /\ Exists(m)
                /\ MayReplace(m, n)
                /\ entry' = Renamed(entry, m, n)
                /\ UNCHANGED <<kind, data, writable>>

Link(m, n) == /\ Exists(m) /\ ~IsA(m, "dir")
              /\ ~Exists(n)
              /\ entry' = [entry EXCEPT ![n] = entry[m]]
              /\ UNCHANGED <<kind, data, writable>>

Chmod(n, w) == /\ Exists(n)
               /\ writable' = [writable EXCEPT ![entry[n]] = w]
               /\ UNCHANGED <<entry, kind, data>>

(* open of the path, with the flags of the caller: write says whether they *)
(* ask for writing.                                                        *)
MayOpen(n, write) == IsA(n, "file") /\ (write => writable[entry[n]])

DirTypeOK == /\ entry \in [Names -> Inodes \union {NoInode}]
             /\ kind \in [Inodes -> Kinds]
             /\ data \in [Inodes -> Data \union {Blank}]
             /\ writable \in [Inodes -> BOOLEAN]
=============================================================================
