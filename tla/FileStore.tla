------------------------------ MODULE FileStore ------------------------------
(***************************************************************************)
(* What the file system promises: each file has a metadata object of its   *)
(* own, which is about this file and stays as it is from the file's        *)
(* creation to its deletion, whatever is done to others.  That the extents *)
(* of two files differ is not promised.                                    *)
(***************************************************************************)
CONSTANTS
    File,
    Mobj,               \* ids of metadata objects
    Extent,             \* what a file can be given
    NoFile              \* there is no such file

VARIABLE files          \* the metadata object of each file, or NoFile

Init == files = [f \in File |-> NoFile]

Metadata(f) == [obj_id : Mobj, fhash : {f}, edes : Extent]

Create(f) ==
    /\ files[f] = NoFile
    /\ files'[f] \in Metadata(f)
    /\ \A g \in File : files[g] # NoFile => files[g].obj_id # files'[f].obj_id
    /\ files' = [files EXCEPT ![f] = files'[f]]

Delete(f) == files[f] # NoFile /\ files' = [files EXCEPT ![f] = NoFile]

Next == \E f \in File : Create(f) \/ Delete(f)

Spec == Init /\ [][Next]_files
=============================================================================
