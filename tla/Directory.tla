----------------------------- MODULE Directory ------------------------------
(***************************************************************************)
(* What DirBTree promises its clients: a set of files, each a name (the    *)
(* hash of one, as in file_descriptor) with the id of its metadata object. *)
(* A request takes effect between the call and the return, at most once    *)
(* and without touching any other file.                                    *)
(***************************************************************************)
CONSTANTS Fhash, Mobj, NoFile

File == [fhash : Fhash, mobj_id : Mobj \cup {NoFile}]

VARIABLES
    files,    \* the files in the directory
    asked     \* the request being served

vars == <<files, asked>>

Idle == [op |-> "none"]

Effect(fs, r) ==
    CASE r.op = "add"  -> fs \cup {r.file}
      [] r.op = "del"  -> {f \in fs : f.fhash # r.file.fhash}
      [] r.op = "none" -> fs

Init == files = {} /\ asked = Idle

Ask ==
    /\ asked = Idle
    /\ \E op \in {"add", "del"}, f \in File : asked' = [op |-> op, file |-> f]
    /\ UNCHANGED files

TakeEffect == files' = Effect(files, asked) /\ UNCHANGED asked

Return == files' = Effect(files, asked) /\ asked' = Idle

Next == Ask \/ TakeEffect \/ Return

Spec == Init /\ [][Next]_vars
=============================================================================
