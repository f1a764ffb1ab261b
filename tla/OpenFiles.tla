----------------------------- MODULE OpenFiles -----------------------------
(***************************************************************************)
(* What a program may expect of the files it has open: a handle stays with *)
(* the file it was opened on until it is released, whatever becomes of the *)
(* name, and a file that is open is not made anew.  Files are also changed *)
(* by name.                                                                *)
(***************************************************************************)
CONSTANTS Handles, Files, NoFile, Data, Blank

VARIABLES fileOf,       \* [Handles -> Files], NoFile when not open
          content,      \* [Files -> Data], Blank when new
          passed        \* the data last read or written through each handle

vars == <<fileOf, content, passed>>

IsOpen(h) == fileOf[h] # NoFile

Init == /\ fileOf = [h \in Handles |-> NoFile]
        /\ content = [f \in Files |-> Blank]
        /\ passed = [h \in Handles |-> Blank]

Open(h, f) == /\ ~IsOpen(h)
              /\ fileOf' = [fileOf EXCEPT ![h] = f]
              /\ UNCHANGED <<content, passed>>

Read(h) == /\ IsOpen(h)
           /\ passed' = [passed EXCEPT ![h] = content[fileOf[h]]]
           /\ UNCHANGED <<fileOf, content>>

Write(h, d) == /\ IsOpen(h)
               /\ content' = [content EXCEPT ![fileOf[h]] = d]
               /\ passed' = [passed EXCEPT ![h] = d]
               /\ UNCHANGED fileOf

Release(h) == /\ IsOpen(h)
              /\ fileOf' = [fileOf EXCEPT ![h] = NoFile]
              /\ passed' = [passed EXCEPT ![h] = Blank]
              /\ UNCHANGED content

(* truncate, by name. *)
Change(f, d) == /\ content' = [content EXCEPT ![f] = d]
                /\ UNCHANGED <<fileOf, passed>>

(* A file is made in the place of one that nobody has open. *)
Create(f) == /\ \A h \in Handles : fileOf[h] # f
             /\ Change(f, Blank)

Next == \/ \E h \in Handles : \/ \E f \in Files : Open(h, f)
                              \/ Read(h)
                              \/ \E d \in Data : Write(h, d)
                              \/ Release(h)
        \/ \E f \in Files : Create(f) \/ \E d \in Data : Change(f, d)

Spec == Init /\ [][Next]_vars
=============================================================================
