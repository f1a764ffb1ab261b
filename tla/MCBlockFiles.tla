----------------------------- MODULE MCBlockFiles -----------------------------
(* Three threads, two of them of one daemon; sizes and offsets on both     *)
(* sides of every boundary: smallBuf, a block, the first list.             *)
EXTENDS BlockFiles, TLC

CONSTANTS t1, t2, t3, d1, d2

MCThreads == {t1, t2, t3}
MCDaemons == {d1, d2}
MCDaemonOf == (t1 :> d1) @@ (t2 :> d1) @@ (t3 :> d2)

Read(o, n) == [op |-> "read", off |-> o, size |-> n]
Write(o, n) == [op |-> "write", off |-> o, size |-> n]
Truncate(n) == [op |-> "truncate", off |-> 0, size |-> n]
MCCalls == (t1 :> {Read(1, 2), Write(1, 2)})
        @@ (t2 :> {Write(1, 2), Truncate(1)})
        @@ (t3 :> {Read(1, 2), Write(3, 2), Truncate(4)})
=============================================================================
