--------------------------- MODULE MetaBlkAreaGC ----------------------------
(***************************************************************************)
(* meta_blk_area.cc: garbage collection.  GC copies the live objects of    *)
(* every full block that has counted garbage to an empty block, page by    *)
(* page through a buffer, and erases the block.  Nothing interleaves with  *)
(* it; it takes one step per slot because what it believes of a slot, of   *)
(* its destination and of the bitmap changes from one slot to the next.    *)
(***************************************************************************)
EXTENDS MetaBlkArea, FiniteSetsExt

\* The last page of the destination is marked with its object count as page
\* index: that index is in range when a page has no more objects than a
\* block has pages.
ASSUME GCGeometry == obj_nr_per_page <= npages

VARIABLES
    pc,                     \* "idle", "source", "copy"; "crashed"
    blk_idx, pos,           \* the source block (or where to look for it), and the slot in it
    blk_destn, destn_pg_idx, destn_page_obj_count,
    addr_destn,             \* the block nvm_addr_destn names
    gc_buf_destn_page

gcvars == <<pc, blk_idx, pos, blk_destn, destn_pg_idx, destn_page_obj_count,
            addr_destn, gc_buf_destn_page>>

obj_nr_per_blk == obj_nr_per_page * npages

GCTypeOK ==
    /\ TypeOK
    /\ pc \in {"idle", "source", "copy", "crashed"}
    /\ blk_idx \in 0 .. data_blk_nr /\ pos \in 0 .. obj_nr_per_blk
    /\ blk_destn \in Blk /\ addr_destn \in Blk
    /\ destn_pg_idx \in 0 .. npages /\ destn_page_obj_count \in Obj
    /\ gc_buf_destn_page \in PageContent

GCInit ==
    /\ Init
    /\ pc = "idle"
    /\ blk_idx = 0 /\ pos = 0 /\ blk_destn = 0 /\ addr_destn = 0
    /\ destn_pg_idx = 0 /\ destn_page_obj_count = 0
    /\ gc_buf_destn_page = Erased

\* GC's locals mean nothing outside it.
LocalsEnd ==
    /\ blk_idx' = 0 /\ pos' = 0 /\ blk_destn' = 0 /\ addr_destn' = 0
    /\ destn_pg_idx' = 0 /\ destn_page_obj_count' = 0
    /\ gc_buf_destn_page' = Erased

(***************************************************************************)
(* The choices GC makes.                                                   *)
(***************************************************************************)

\* The lowest empty block but the active one.  Nothing says that there is
\* none: the variable keeps its value.
DestnOr(m, otherwise) ==
    LET free == {b \in Blk : m.blk[b] = "EMPT" /\ b # blk_act}
    IN  IF free = {} THEN otherwise ELSE Min(free)

\* Mutant: full blocks are collected whether garbage was counted in them or not.
CollectableAny(b) == map.blk[b] = "FULL" /\ b # blk_act

Collectable(b) ==
    map.blk[b] = "FULL" /\ b # blk_act /\ blk_dead_obj_nr[b] > 0

(* An object found in the source is live if the slot the NAT has for its   *)
(* id is USED, be it this slot or another.                                 *)
Alive(id) == map.obj[nat[id].blk][nat[id].page][nat[id].obj] = "USED"

(***************************************************************************)
(* The steps.                                                              *)
(***************************************************************************)
GCBegin ==
    /\ pc = "idle"
    /\ pc' = "source"
    /\ blk_destn' = DestnOr(map, 0)
    /\ UNCHANGED <<vars, blk_idx, pos, destn_pg_idx, destn_page_obj_count,
                   addr_destn, gc_buf_destn_page>>

\* Mutant: the block after an erased one is passed over.
SourcesSkipOne == {b \in Blk : b > blk_idx /\ Collectable(b)}

Sources == {b \in Blk : b >= blk_idx /\ Collectable(b)}

(* nvm_addr_destn is computed here, once per source.                       *)
GCNextSource ==
    /\ pc = "source"
    /\ Sources # {} /\ Min(Sources) # blk_destn
    /\ pc' = "copy"
    /\ blk_idx' = Min(Sources)
    /\ pos' = 0
    /\ addr_destn' = blk_destn
    /\ UNCHANGED <<vars, blk_destn, destn_pg_idx, destn_page_obj_count,
                   gc_buf_destn_page>>

Found == media[blk_idx][pos \div obj_nr_per_page][pos % obj_nr_per_page]

(* The object goes to the buffer; a full buffer goes to the device, at     *)
(* nvm_addr_destn, and after the last page another destination is chosen.  *)
(* nvm_addr_destn does not follow until the next source.                   *)
PutFound ==
    LET full  == destn_page_obj_count + 1 = obj_nr_per_page
        pg    == IF full THEN destn_pg_idx + 1 ELSE destn_pg_idx
        spent == pg = npages
    IN  /\ gc_buf_destn_page' = [gc_buf_destn_page EXCEPT ![destn_page_obj_count] = Found]
        /\ destn_page_obj_count' = IF full THEN 0 ELSE destn_page_obj_count + 1
        /\ IF full THEN Program(addr_destn, destn_pg_idx, gc_buf_destn_page')
           ELSE UNCHANGED media
        /\ blk_destn' = IF spent THEN DestnOr(map', blk_destn) ELSE blk_destn
        /\ destn_pg_idx' = IF spent /\ blk_destn' # blk_destn THEN 0 ELSE pg

\* Mutant: the NAT keeps the old slot.
GCKeepsOldSlot ==
    /\ map' = SetObjState(map, blk_destn, destn_pg_idx, {destn_page_obj_count}, "USED")
    /\ PutFound
    /\ UNCHANGED nat

GCMoves ==
    /\ map' = SetObjState(map, blk_destn, destn_pg_idx, {destn_page_obj_count}, "USED")
    /\ nat' = IF Found.id = 0 THEN nat
              ELSE [nat EXCEPT ![Found.id] =
                      [state |-> "WRIT", blk |-> blk_destn, page |-> destn_pg_idx,
                       obj |-> destn_page_obj_count]]
    /\ PutFound

\* Id 0 is padding, and entry 0 of the NAT is whatever it was read as: the
\* padding may pass for live.
MayMove == Found.id # 0 => Alive(Found.id)
MaySkip == Found.id # 0 => ~Alive(Found.id)

\* Mutant: the loop only goes on after a copy.
NextPosAfterCopy == IF MayMove THEN pos + 1 ELSE pos

NextPos == pos + 1

GCSlot ==
    /\ pc = "copy" /\ pos < obj_nr_per_blk
    /\ pos' = NextPos
    /\ \/ /\ MaySkip
          /\ UNCHANGED <<nat, map, media, pc, blk_destn, destn_pg_idx,
                         destn_page_obj_count, gc_buf_destn_page>>
       \/ /\ MayMove /\ destn_pg_idx < npages
          /\ GCMoves
          /\ UNCHANGED pc
       \/ /\ MayMove /\ destn_pg_idx = npages     \* past the bitmap's end
          /\ pc' = "crashed"
          /\ UNCHANGED <<nat, map, media, blk_destn, destn_pg_idx,
                         destn_page_obj_count, gc_buf_destn_page>>
    /\ UNCHANGED <<bitmap_vblk, stats, act, w_buf, blk_idx, addr_destn>>

\* Mutant: the total is left as it was.
ErasedStatsTotalKept ==
    /\ UNCHANGED all_dead_obj_nr
    /\ blk_dead_obj_nr' = [blk_dead_obj_nr EXCEPT ![blk_idx] = 0]

ErasedStats ==
    /\ all_dead_obj_nr' = all_dead_obj_nr - blk_dead_obj_nr[blk_idx]
    /\ blk_dead_obj_nr' = [blk_dead_obj_nr EXCEPT ![blk_idx] = 0]

\* Mutant: the slots of the erased block are not set FREE.
ErasedMapKeepsObjs ==
    [obj  |-> map.obj,
     page |-> [map.page EXCEPT ![blk_idx] = [p \in Page |-> "EMPT"]],
     blk  |-> [map.blk EXCEPT ![blk_idx] = "EMPT"]]

\* Mutant: the pages of the erased block are not set EMPT.
ErasedMapKeepsPages ==
    [obj  |-> [map.obj EXCEPT ![blk_idx] = [p \in Page |-> [o \in Obj |-> "FREE"]]],
     page |-> map.page,
     blk  |-> [map.blk EXCEPT ![blk_idx] = "EMPT"]]

ErasedMap ==
    [obj  |-> [map.obj EXCEPT ![blk_idx] = [p \in Page |-> [o \in Obj |-> "FREE"]]],
     page |-> [map.page EXCEPT ![blk_idx] = [p \in Page |-> "EMPT"]],
     blk  |-> [map.blk EXCEPT ![blk_idx] = "EMPT"]]

GCErase ==
    /\ pc = "copy" /\ pos = obj_nr_per_blk
    /\ pc' = "source"
    /\ blk_idx' = blk_idx + 1
    /\ pos' = 0
    /\ media' = [media EXCEPT ![blk_idx] = [p \in Page |-> Erased]]
    /\ map' = ErasedMap
    /\ ErasedStats
    /\ UNCHANGED <<nat, bitmap_vblk, act, w_buf, blk_destn, destn_pg_idx,
                   destn_page_obj_count, addr_destn, gc_buf_destn_page>>

(* No source is left, or the next one is the destination.  A page begun is *)
(* padded and written, and its unused slots are marked DEAD, but on the    *)
(* page whose index is the number of objects in it.                        *)
GCEnd ==
    LET n == destn_page_obj_count
    IN  /\ pc = "source"
        /\ Sources # {} => Min(Sources) = blk_destn
        /\ IF n = 0 THEN UNCHANGED <<map, media>>
           ELSE /\ map' = SetObjState(map, blk_destn, n, n .. obj_nr_per_page - 1, "DEAD")
                /\ Program(blk_destn, destn_pg_idx,
                           [o \in Obj |-> IF o < n THEN gc_buf_destn_page[o] ELSE Zero])
        /\ pc' = "idle"
        /\ LocalsEnd
        /\ UNCHANGED <<nat, bitmap_vblk, stats, act, w_buf>>

GCStep == GCNextSource \/ GCSlot \/ GCErase \/ GCEnd

gvars == <<vars, gcvars>>

GCNext ==
    \/ pc = "idle" /\ Next /\ UNCHANGED gcvars
    \/ GCBegin
    \/ GCStep

GCSpec == GCInit /\ [][GCNext]_gvars

(***************************************************************************)
(* Properties.                                                             *)
(***************************************************************************)

\* Where an object is while GC runs: the page being filled is in GC's buffer.
ReadDuringGC(id) ==
    IF /\ pc # "idle" /\ nat[id].state = "WRIT"
       /\ nat[id].blk = blk_destn /\ nat[id].page = destn_pg_idx
      THEN LET o == gc_buf_destn_page[nat[id].obj]
           IN  IF o.id = id THEN o.val ELSE Junk
      ELSE ReadByObjId(id)

GCStore == INSTANCE ObjStore WITH
    store <- [id \in Id |-> ReadDuringGC(id)],
    room  <- ~Exhausted

\* Collecting garbage changes no object: GC implements steps in which the
\* store stands still, and the calls after it find the objects where it put
\* them (GC's copy loop, its update of the NAT and its erase).
GCImplementsStore == GCStore!Spec

\* When GC is over the USED slots are again exactly the slots the NAT points
\* at: the copies replaced the originals, and no copy is left over.
GCLeavesLiveSlots == pc = "idle" => LiveSlots

\* When GC ends, no block but the active one is full and has counted garbage:
\* all that need_GC counts there has been reclaimed.
GCReclaims ==
    [][ pc = "source" /\ pc' = "idle" => \A b \in Blk : ~Collectable(b)' ]_gvars

\* A destination is always found in time: each source has garbage, so the
\* sources before the one in hand, erased, hold more than they gave (the
\* search for another empty block, which has no answer to finding none).
DestinationInRange ==
    /\ pc # "crashed"
    /\ pc = "copy" => destn_pg_idx < npages /\ blk_destn # blk_idx

(***************************************************************************)
(* What the comments of the code say.                                      *)
(***************************************************************************)

\* meta_blk_area.cc:363, "need to find another empty block as destination":
\* the pages GC writes go to the block that the NAT has for their objects.
PagesGoToDestination ==
    [][ pc = "copy" =>
          \A b \in Blk, p \in Page :
            media'[b][p] # media[b][p] /\ pos < obj_nr_per_blk => b = blk_destn ]_gvars
=============================================================================
