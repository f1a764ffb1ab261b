----------------------------- MODULE BlockStore -----------------------------
(***************************************************************************)
(* What StorageMgr is for the threads that call it: a store of blocks, with*)
(* no tiers and no locks in it.  A call is asked, takes effect at one      *)
(* instant, and returns.  A put adds a reference to its key, a remove takes*)
(* one away, and a get is answered with the block if its key has one.  A   *)
(* remove of a key that has none never returns.  When the daemon is started*)
(* again, the store has forgotten everything, the calls under way as well. *)
(***************************************************************************)
EXTENDS Naturals

CONSTANTS Keys, Threads

VARIABLES
  refs,     \* [Keys -> Nat]: the references of each block
  phase,    \* of each thread's call: "idle", "asked", "done"
  op, key,  \* the call and its argument
  answer    \* of a get: "block" or "NULL"

vars == <<refs, phase, op, key, answer>>

Init == /\ refs = [k \in Keys |-> 0]
        /\ phase = [t \in Threads |-> "idle"]
        /\ op = [t \in Threads |-> "none"]
        /\ key \in [Threads -> Keys]
        /\ answer = [t \in Threads |-> "none"]

Ask(t, o, k) == /\ phase[t] = "idle"
                /\ phase' = [phase EXCEPT ![t] = "asked"]
                /\ op' = [op EXCEPT ![t] = o]
                /\ key' = [key EXCEPT ![t] = k]
                /\ UNCHANGED <<refs, answer>>

(* The instant of call o.                                                  *)
Takes(t, o) == /\ phase[t] = "asked" /\ op[t] = o
               /\ phase' = [phase EXCEPT ![t] = "done"]
               /\ UNCHANGED <<op, key>>

Put(t) == /\ Takes(t, "put")
          /\ refs' = [refs EXCEPT ![key[t]] = @ + 1]
          /\ UNCHANGED answer

Get(t) == /\ Takes(t, "get")
          /\ answer' = [answer EXCEPT ![t] = IF refs[key[t]] > 0 THEN "block" ELSE "NULL"]
          /\ UNCHANGED refs

Remove(t) == /\ Takes(t, "remove")
             /\ refs[key[t]] > 0
             /\ refs' = [refs EXCEPT ![key[t]] = @ - 1]
             /\ UNCHANGED answer

Return(t) == /\ phase[t] = "done"
             /\ phase' = [phase EXCEPT ![t] = "idle"]
             /\ op' = [op EXCEPT ![t] = "none"]
             /\ answer' = [answer EXCEPT ![t] = "none"]
             /\ UNCHANGED <<refs, key>>

Restart == /\ refs' = [k \in Keys |-> 0]
           /\ phase' = [t \in Threads |-> "idle"]
           /\ op' = [t \in Threads |-> "none"]
           /\ answer' = [t \in Threads |-> "none"]
           /\ UNCHANGED key

Next == \/ \E t \in Threads :
             \/ \E o \in {"put", "get", "remove"}, k \in Keys : Ask(t, o, k)
             \/ Put(t) \/ Get(t) \/ Remove(t)
             \/ Return(t)
        \/ Restart

Spec == Init /\ [][Next]_vars
=============================================================================
