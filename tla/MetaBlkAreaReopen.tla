------------------------- MODULE MetaBlkAreaReopen --------------------------
(***************************************************************************)
(* A MetaBlkArea over several sessions, as the program runs it when it is  *)
(* built not to format (OCSSD_REFORMAT_SSD 0): the constructor rebuilds    *)
(* the area from the saved bitmap and NAT, the client uses it and returns, *)
(* and ~OcssdSuperBlock saves the NAT.  It does not flush the area: that   *)
(* is the client's part, which meta_blk_area_main.cc does before it        *)
(* returns and small_oc_fs_test.cc does not.                               *)
(*                                                                         *)
(* Bitmap and NAT are saved one after the other, each erased before it is  *)
(* written.  A crash may come at any time.  After a crash between erase    *)
(* and write the constructor reads arbitrary bytes: the model stops there. *)
(***************************************************************************)
EXTENDS MetaBlkArea

VARIABLES
    nat_vblk,     \* the NAT as last written to its blocks, or being written
    stage,        \* of a session: see Stages
    dirty,        \* auxiliary: objects written since the area was flushed or opened
    adrift,       \* auxiliary: objects whose NAT entry was saved and whose slot was not
    adrift_vblk   \* auxiliary: those of the NAT in nat_vblk

rvars == <<vars, nat_vblk, stage, dirty, adrift, adrift_vblk>>

Stages == {"open", "bitmap_erased", "nat_erased", "closed", "lost"}

ReopenTypeOK ==
    /\ TypeOK
    /\ nat_vblk \in [Id -> NatEntry]
    /\ stage \in Stages
    /\ dirty \in SUBSET Id /\ adrift \in SUBSET Id /\ adrift_vblk \in SUBSET Id

\* The device after format_ssd, opened for the first time.
ReopenInit ==
    /\ Init /\ nat_vblk = nat /\ stage = "open"
    /\ dirty = {} /\ adrift = {} /\ adrift_vblk = {}

Use ==
    /\ stage = "open"
    /\ \/ \E id \in Id :
            AllocObj(id) /\ UNCHANGED <<dirty, adrift>>
       \/ \E id \in Id :
            DeAllocObj(id) /\ dirty' = dirty \ {id} /\ adrift' = adrift \ {id}
       \/ \E id \in Id, v \in Value :
            WriteByObjId(id, v) /\ dirty' = dirty \cup {id} /\ adrift' = adrift \ {id}
    /\ UNCHANGED <<nat_vblk, stage, adrift_vblk>>

(* flush_data and the erase of the bitmap; what flush_bitmap will write is *)
(* in bitmap_vblk already.                                                 *)
FlushBegin ==
    /\ stage = "open"
    /\ Flush
    /\ stage' = "bitmap_erased"
    /\ dirty' = {}
    /\ UNCHANGED <<nat_vblk, adrift, adrift_vblk>>

FlushEnd ==
    /\ stage = "bitmap_erased"
    /\ stage' = "open"
    /\ UNCHANGED <<vars, nat_vblk, dirty, adrift, adrift_vblk>>

(* main returns, flushed or not, and the super block's destructor erases   *)
(* the NAT's blocks and writes them.                                       *)
CloseBegin ==
    /\ stage = "open"
    /\ nat_vblk' = nat
    /\ adrift_vblk' = adrift \cup dirty
    /\ stage' = "nat_erased"
    /\ UNCHANGED <<vars, dirty, adrift>>

CloseEnd ==
    /\ stage = "nat_erased"
    /\ stage' = "closed"
    /\ UNCHANGED <<vars, nat_vblk, dirty, adrift, adrift_vblk>>

OpenAct == FindNextActBlk(bitmap_vblk, 0, 0)

(* The next session's constructor.  Garbage is counted from zero again,    *)
(* and w_buf holds what malloc returned.                                   *)
Restart ==
    /\ stage \in {"open", "closed"}
    /\ nat' = nat_vblk
    /\ map' = bitmap_vblk
    /\ blk_dead_obj_nr' = [b \in Blk |-> 0]
    /\ all_dead_obj_nr' = 0
    /\ SetAct(OpenAct)
    /\ w_buf' = Erased
    /\ stage' = "open"
    /\ dirty' = {} /\ adrift' = adrift_vblk
    /\ UNCHANGED <<bitmap_vblk, media, nat_vblk, adrift_vblk>>

CrashWhileSaving ==
    /\ stage \in {"bitmap_erased", "nat_erased"}
    /\ stage' = "lost"
    /\ UNCHANGED <<vars, nat_vblk, dirty, adrift, adrift_vblk>>

(* The active page has been programmed: by the session before, because     *)
(* find_next_act_blk takes the last page in use of an open block, or by    *)
(* one that crashed before it saved the bitmap.                            *)
Reused == Programmed(blk_act, page_act)

ReopenNext ==
    /\ ~Exhausted /\ ~Reused
    /\ \/ Use \/ FlushBegin \/ FlushEnd \/ CloseBegin \/ CloseEnd
       \/ Restart \/ CrashWhileSaving

\* Sessions up to the first that would write into pages of another.
ReopenSpec == ReopenInit /\ [][ReopenNext]_rvars

(***************************************************************************)
(* Properties.                                                             *)
(***************************************************************************)

\* What the saved NAT leads to on the medium.
SavedRead(id) ==
    LET e == nat_vblk[id]
        o == media[e.blk][e.page][e.obj]
    IN  CASE e.state = "FREE" -> Null
          [] e.state = "USED" -> Zeroed
          [] e.state = "WRIT" -> IF o.id = id THEN o.val ELSE Junk

\* What the NAT leads to for an object adrift may be anything.
Durable == INSTANCE DurableStore WITH
    store  <- [id \in Id |-> IF id \in adrift THEN Junk ELSE ReadByObjId(id)],
    room   <- ~Exhausted /\ ~Reused /\ stage # "lost",
    saved  <- [id \in Id |-> IF id \in adrift_vblk THEN Junk ELSE SavedRead(id)],
    saving <- stage \in {"bitmap_erased", "nat_erased"}

\* After a close or a crash each object reads as it did at the last close, but
\* for those written between the last flush and that close, which may be lost.
\* No session harms the objects of another by finding a NAT that is older or
\* newer than its bitmap, until the log runs into a page that another session
\* programmed (constructor, flush, ~OcssdSuperBlock).
ImplementsDurableStore == Durable!Spec

\* A slot that the NAT points at, now or as saved, is not free to be written,
\* unless it was saved unflushed: not in the session, not after a crash of
\* it, not after a restart with an older NAT and a newer bitmap, not when a
\* lost object whose slot is another's now is overwritten or deleted
\* (flush_bitmap, flush_nat, constructor, set_obj_state).
NatSlotsTaken ==
    \A id \in Id :
      /\ nat[id].state = "WRIT" /\ id \notin adrift =>
           map.obj[nat[id].blk][nat[id].page][nat[id].obj] # "FREE"
      /\ nat_vblk[id].state = "WRIT" /\ id \notin adrift_vblk =>
           bitmap_vblk.obj[nat_vblk[id].blk][nat_vblk[id].page][nat_vblk[id].obj] # "FREE"

(***************************************************************************)
(* What the comments of the code say.                                      *)
(***************************************************************************)

\* meta_blk_area.h:32, of an EMPT block "all is free to use", and :25, of a
\* WRIT entry "HAVE obj address": after a close no block saved as EMPT is the
\* address of an object.
EmptIsFreeToUse ==
    stage = "closed" =>
      \A id \in Id :
        nat_vblk[id].state = "WRIT" => bitmap_vblk.blk[nat_vblk[id].blk] # "EMPT"
=============================================================================
