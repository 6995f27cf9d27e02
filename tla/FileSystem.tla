----------------------------- MODULE FileSystem ------------------------------
(***************************************************************************)
(* small_oc_fs_test.cc: how files are created and deleted.  A file is an   *)
(* entry in the directory, which leads to a metadata object, which says    *)
(* which extent of channel 0 is the file's.                                *)
(*                                                                         *)
(* The extent list is the one of ExtentList, whose GC may run between      *)
(* operations; the program is linked with MetaBlkArea (InPlace is FALSE).  *)
(* The directory and the metadata store are those that Directory and       *)
(* ObjStore promise.  Each call to one of the three is a step.  held       *)
(* records which extent getNewExt returned for which file.                 *)
(***************************************************************************)
EXTENDS ExtentList

VARIABLES
    dir,       \* dirBTree: the metadata object of each file, or NoFile
    meta,      \* mba_file_meta: a file_meta_obj, Zeroed or Unused for each id
    call,      \* the next call, "none" between operations
    file,      \* fdes of the operation
    mobj_id    \* local variable of the operation

fvars == <<dir, meta, call, file, mobj_id>>
fsvars == <<vars, fvars>>

\* An id that alloc_obj has not handed out, and one that it has.
Unused == [unused |-> TRUE]
Zeroed == [zeroed |-> TRUE]

\* Mutant: an id for every four blocks.
file_max_nrHalf == (blk_ed + 1) \div 4

\* Length of the NAT of mba_file_meta: an entry for every two blocks of the
\* device, here of one channel.
file_max_nr == (blk_ed + 1) \div 2

\* Entry 0 is not used.
Mobj == 1 .. file_max_nr - 1

FileMeta == [obj_id : Mobj, fhash : File, edes : Desc]

ASSUME NoFileIsNoObject == NoFile \notin Mobj /\ NoFile \notin FileMeta

FsTypeOK ==
    /\ TypeOK
    /\ dir \in [File -> Mobj \cup {NoFile}]
    /\ \A m \in Mobj : meta[m] \in {Unused, Zeroed} \cup FileMeta
    /\ call \in {"none", "getNewExt", "write", "add_new_file",
                 "putExt", "de_alloc_obj", "crashed"}
    /\ mobj_id \in Mobj \cup {0}

FsInit ==
    /\ Init
    /\ dir = [f \in File |-> NoFile]
    /\ meta = [m \in Mobj |-> Unused]
    /\ call = "none" /\ file = NoFile /\ mobj_id = 0

Done == call' = "none" /\ file' = NoFile /\ mobj_id' = 0

\* Ids alloc_obj can return: the lowest free one; with a full NAT it runs off
\* its end, and the caller gets whatever is in the register.
FreshId ==
    LET free == {m \in Mobj : meta[m] = Unused}
    IN  IF free = {} THEN Mobj ELSE {m \in free : \A n \in free : m <= n}

(***************************************************************************)
(* Creating a file.                                                        *)
(***************************************************************************)
AllocMeta(f) ==
    /\ call = "none" /\ pc = "idle"
    /\ dir[f] = NoFile
    /\ mobj_id' \in FreshId
    /\ meta' = [meta EXCEPT ![mobj_id'] = IF @ = Unused THEN Zeroed ELSE @]
    /\ file' = f /\ call' = "getNewExt"
    /\ UNCHANGED <<vars, dir>>

\* With nothing free, getNewExt returns nullptr, which is dereferenced.
TakeExtent ==
    /\ call = "getNewExt"
    /\ IF FirstNode(HasFree) # 0
         THEN GetNewExt(file) /\ call' = "write"
         ELSE call' = "crashed" /\ UNCHANGED vars
    /\ UNCHANGED <<dir, meta, file, mobj_id>>

WriteMeta ==
    /\ call = "write"
    /\ meta' = [meta EXCEPT ![mobj_id] =
                  [obj_id |-> mobj_id, fhash |-> file, edes |-> held[file]]]
    /\ call' = "add_new_file"
    /\ UNCHANGED <<vars, dir, file, mobj_id>>

AddName ==
    /\ call = "add_new_file"
    /\ dir' = [dir EXCEPT ![file] = mobj_id]
    /\ Done
    /\ UNCHANGED <<vars, meta>>

(***************************************************************************)
(* Deleting a file.                                                        *)
(***************************************************************************)
DeleteName(f) ==
    /\ call = "none" /\ pc = "idle"
    /\ dir[f] # NoFile
    /\ mobj_id' = dir[f]
    /\ dir' = [dir EXCEPT ![f] = NoFile]
    /\ file' = f /\ call' = "putExt"
    /\ UNCHANGED <<vars, meta>>

\* The descriptor is read from the metadata object, its junk_bitmap with it,
\* which nobody has set.
ReturnExtent ==
    /\ call = "putExt"
    /\ \E junk \in {0, 1} : store' = AfterPut(meta[mobj_id].edes, junk)
    /\ held' = [held EXCEPT ![file] = NoFile]
    /\ call' = "de_alloc_obj"
    /\ UNCHANGED <<gcvars, dir, meta, file, mobj_id>>

\* Mutant: the metadata object stays allocated.
FreeMetaKept ==
    /\ call = "de_alloc_obj"
    /\ Done
    /\ UNCHANGED <<vars, dir, meta>>

FreeMeta ==
    /\ call = "de_alloc_obj"
    /\ meta' = [meta EXCEPT ![mobj_id] = Unused]
    /\ Done
    /\ UNCHANGED <<vars, dir>>

ExtentGC == call = "none" /\ (GCStart \/ GCStep) /\ UNCHANGED fvars

FsNext ==
    \/ \E f \in File : AllocMeta(f) \/ DeleteName(f)
    \/ TakeExtent \/ WriteMeta \/ AddName
    \/ ReturnExtent \/ FreeMeta
    \/ ExtentGC

FsSpec == FsInit /\ [][FsNext]_fsvars

(***************************************************************************)
(* Properties.                                                             *)
(***************************************************************************)

\* Between operations, the metadata objects are those of the files in the
\* directory, one each, and each is about its file and names the extent the
\* file was given: no creation or deletion leaves an object behind, takes
\* another file's or loses an extent (small_oc_fs_test.cc).
FilesKeepTheirOwn ==
    call = "none" =>
      LET named == {f \in File : dir[f] # NoFile}
      IN  /\ {m \in Mobj : meta[m] # Unused} = {dir[f] : f \in named}
          /\ \A f \in named :
               meta[dir[f]] = [obj_id |-> dir[f], fhash |-> f, edes |-> held[f]]

\* What a client finds under a file's name.
FileOf(f) == IF dir[f] = NoFile THEN NoFile ELSE meta[dir[f]]

Files == INSTANCE FileStore WITH
    Extent <- Desc,
    files  <- [f \in File |-> FileOf(f)]

\* Creating and deleting files, in the steps the code takes, implements files
\* with metadata of their own that nothing done to another file changes, as
\* long as the NAT has an entry for each file: alloc_obj returns any id when
\* it is full (small_oc_fs_test.cc, file_max_nr).
ImplementsFiles == Files!Spec
=============================================================================
