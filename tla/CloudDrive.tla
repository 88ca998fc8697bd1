------------------------------ MODULE CloudDrive ------------------------------
(***************************************************************************)
(* What the file storage promises its users: a map from names to contents. *)
(* Uploading or saving, deleting and renaming a file are the only things   *)
(* that change it; nothing that runs in the background is visible here.    *)
(* TieredStorage is shown to implement this specification.                 *)
(***************************************************************************)
CONSTANTS Paths,    \* the names a user stores files under
          Data,     \* file contents
          None      \* the value of a name that holds no file

VARIABLE files      \* files[p]: what reading p returns

Init == files = [p \in Paths |-> None]

Write(p, v) == files' = [files EXCEPT ![p] = v]

Delete(p) == files' = [files EXCEPT ![p] = None]

Rename(p, q) ==
    /\ files[p] # None
    /\ files' = [files EXCEPT ![p] = None, ![q] = files[p]]

Next == \/ \E p \in Paths, v \in Data : Write(p, v)
        \/ \E p \in Paths : Delete(p)
        \/ \E p, q \in Paths : p # q /\ Rename(p, q)

Spec == Init /\ [][Next]_files
=============================================================================
