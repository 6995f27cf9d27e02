-------------------------- MODULE MetaBlkAreaMain ---------------------------
(***************************************************************************)
(* meta_blk_area_main.cc, the one caller of GC: objects are allocated and  *)
(* written once, then some are deleted, garbage is collected and the area  *)
(* flushed.  It holds whole pages of objects (obj_nr_per_page is 1 for the *)
(* 4096-byte objects it uses) and leaves blocks empty.  Here deletions and *)
(* collections may alternate.                                              *)
(***************************************************************************)
EXTENDS MetaBlkAreaGC

CONSTANT test_size     \* the most objects it writes

VARIABLE phase         \* "fill", "thin" or "over"

mvars == <<gvars, phase>>

ASSUME MainGeometry ==
    test_size \in Nat /\ test_size < nat_max_length /\ obj_nr_per_page = 1

MainInit == GCInit /\ phase = "fill"

\* An object is written as soon as it has been allocated.
Fill ==
    /\ phase = "fill"
    /\ \/ /\ \A id \in Id : nat[id].state # "USED"
          /\ Cardinality({id \in Id : nat[id].state = "WRIT"}) < test_size
          /\ \E id \in Id : AllocObj(id)
       \/ \E id \in Id, v \in Value : nat[id].state = "USED" /\ WriteByObjId(id, v)
    /\ UNCHANGED <<gcvars, phase>>

Delete ==
    /\ phase \in {"fill", "thin"} /\ pc = "idle"
    /\ \A id \in Id : nat[id].state # "USED"
    /\ \E id \in Id : nat[id].state = "WRIT" /\ DeAllocObj(id)
    /\ phase' = "thin"
    /\ UNCHANGED gcvars

Collect == phase = "thin" /\ (GCBegin \/ GCStep) /\ UNCHANGED phase

Finish ==
    /\ phase = "thin" /\ pc = "idle"
    /\ Flush
    /\ phase' = "over"
    /\ UNCHANGED gcvars

MainNext == Fill \/ Delete \/ Collect \/ Finish

\* GC is a loop in the only thread.
MainSpec == MainInit /\ [][MainNext]_mvars /\ WF_mvars(GCStep /\ UNCHANGED phase)

(* The destination filled up within a source, and another live object is   *)
(* to be copied: its page will be written to the wrong block.              *)
Astray == pc = "copy" /\ addr_destn # blk_destn /\ pos < obj_nr_per_blk /\ MayMove

\* MainSpec up to the first object that goes astray.
StraightNext == ~Astray /\ MainNext
StraightSpec ==
    MainInit /\ [][StraightNext]_mvars /\ WF_mvars(~Astray /\ GCStep /\ UNCHANGED phase)

\* Every GC comes to its end, or copies an object to the wrong block.
GCEndsOrStrays == (pc # "idle") ~> (pc = "idle" \/ Astray)

\* The garbage counters need_GC and GC go by agree: the total is the sum
\* over the blocks, after deletions and after blocks have been erased.
CountersAgree ==
    all_dead_obj_nr = MapThenSumSet(LAMBDA b : blk_dead_obj_nr[b], Blk)
=============================================================================
