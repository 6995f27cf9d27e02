---------------------------- MODULE MetaBlkArea -----------------------------
(***************************************************************************)
(* meta_blk_area.cc: the log-structured object store under all three kinds *)
(* of metadata.  Objects have ids; the NAT maps an id to a slot (block,    *)
(* page, position in the page); writes go to the active slot through a one *)
(* page write buffer; a three-level bitmap records the state of slots,     *)
(* pages and blocks.  Everything runs in one thread, so every public       *)
(* method is one action.  Garbage collection is left to a module of its    *)
(* own: the file system never calls it, only meta_blk_area_main.cc does.   *)
(*                                                                         *)
(* The flash device is external: a page is programmed once per erase, and  *)
(* programming it again may fail (the code ignores the status) or replace  *)
(* its content.                                                            *)
(***************************************************************************)
EXTENDS Integers, FiniteSets

CONSTANTS
    data_blk_nr,       \* data blocks of the area
    npages,            \* pages per block (geo->npages)
    obj_nr_per_page,   \* objects per page
    nat_max_length,    \* length of the NAT; entry 0 is never used
    Value,             \* payloads a client writes
    Null,              \* read_by_obj_id's nullptr
    Zeroed,            \* zeroed bytes
    Junk,              \* uninitialised or somebody else's bytes
    MaxDead            \* bound on all_dead_obj_nr, a size_t in the code

ASSUME Geometry ==
    /\ data_blk_nr \in Nat \ {0}
    /\ npages \in Nat \ {0}
    /\ obj_nr_per_page \in Nat \ {0}
    /\ nat_max_length \in Nat \ {0, 1}
    /\ MaxDead \in Nat

\* obj_act is a uint8_t compared with obj_nr_per_page, page_act a uint16_t
\* compared with npages: larger geometries would make the counters wrap.
ASSUME Widths == npages <= 65535 /\ obj_nr_per_page <= 255

ASSUME Distinct ==
    /\ Null \notin Value /\ Zeroed \notin Value /\ Junk \notin Value
    /\ Null # Zeroed /\ Null # Junk /\ Zeroed # Junk

Blk  == 0 .. data_blk_nr - 1
Page == 0 .. npages - 1
Obj  == 0 .. obj_nr_per_page - 1
Id   == 1 .. nat_max_length - 1

ObjState == {"FREE", "USED", "DEAD"}
MapState == {"EMPT", "PART", "FULL"}
NatState == {"FREE", "USED", "WRIT"}
NatEntry == [state : NatState, blk : Blk, page : Page, obj : Obj]

(* An object is its id, which every object struct starts with, and the     *)
(* rest.  Raw is what malloc or an erased page holds.                      *)
Object  == [id : Id, val : Value]
Zero    == [id |-> 0, val |-> Zeroed]
Raw     == [id |-> 0, val |-> Junk]
Content == Object \cup {Zero, Raw}
Erased  == [o \in Obj |-> Raw]
PageContent == [Obj -> Content]

Bitmap == [obj  : [Blk -> [Page -> [Obj -> ObjState]]],
           page : [Blk -> [Page -> MapState]],
           blk  : [Blk -> MapState]]

VARIABLES
    nat,          \* nat_table, shared with SuperBlkArea
    map,          \* blk_page_obj_map, blk_page_map, blk_map
    bitmap_vblk,  \* the bitmap as last written to the bitmap blocks
    blk_dead_obj_nr, all_dead_obj_nr,
    blk_act, page_act, obj_act,
    w_buf,
    media         \* external: the data blocks' pages

act   == <<blk_act, page_act, obj_act>>
stats == <<blk_dead_obj_nr, all_dead_obj_nr>>
vars  == <<nat, map, bitmap_vblk, stats, act, w_buf, media>>

TypeOK ==
    /\ nat \in [Id -> NatEntry]
    /\ map \in Bitmap
    /\ bitmap_vblk \in Bitmap
    /\ blk_dead_obj_nr \in [Blk -> Nat]
    /\ all_dead_obj_nr \in Nat
    /\ blk_act \in Blk /\ page_act \in Page /\ obj_act \in Obj
    /\ w_buf \in PageContent
    /\ media \in [Blk -> [Page -> PageContent]]

(***************************************************************************)
(* The bitmap.                                                             *)
(***************************************************************************)

\* Mutant: DEAD slots do not count as taken.
PageStateUsedOnly(objs, old) ==
    IF \A o \in Obj : objs[o] = "USED" THEN "FULL"
    ELSE IF \E o \in Obj : objs[o] # "FREE" THEN "PART"
    ELSE old

(* set_obj_state folds the two-bit states (FREE 00, USED 01, DEAD 11) with *)
(* AND and OR and tests bit 0: a page without a FREE slot is FULL, one     *)
(* with a slot in use PART, and otherwise the old state stays.             *)
PageState(objs, old) ==
    IF \A o \in Obj : objs[o] # "FREE" THEN "FULL"
    ELSE IF \E o \in Obj : objs[o] # "FREE" THEN "PART"
    ELSE old

(* The block level tests "s_and & s_or & 3" on EMPT 00, PART 01, FULL 11:  *)
(* it is FULL as soon as no page is EMPT.                                  *)
BlkState(pages, old) ==
    IF \A p \in Page : pages[p] # "EMPT" THEN "FULL"
    ELSE IF \E p \in Page : pages[p] # "EMPT" THEN "PART"
    ELSE old

(* set_obj_state for the slots O of one page, in any order: only the last  *)
(* recomputation of the page and block state remains visible.              *)
SetObjState(m, b, p, O, s) ==
    LET objs  == [o \in Obj |-> IF o \in O THEN s ELSE m.obj[b][p][o]]
        pages == [m.page[b] EXCEPT ![p] = PageState(objs, @)]
    IN  [obj  |-> [m.obj EXCEPT ![b] = [@ EXCEPT ![p] = objs]],
         page |-> [m.page EXCEPT ![b] = pages],
         blk  |-> [m.blk EXCEPT ![b] = BlkState(pages, @)]]

(***************************************************************************)
(* The active slot.                                                        *)
(***************************************************************************)

\* Position of block b in find_next_act_blk's round, which ends at last.
VisitRank(last, b) ==
    IF b > last THEN b - last - 1 ELSE b + data_blk_nr - last - 1

LastVisited(last, S) ==
    CHOOSE b \in S : \A c \in S : VisitRank(last, c) <= VisitRank(last, b)

LastPage(S) == CHOOSE p \in S : \A q \in S : q <= p

(* The loop neither returns nor breaks: the last block visited that is not *)
(* FULL wins, and page_act is the last page in use of the last such block  *)
(* that has one.  Without a candidate everything stays.                    *)
FindNextActBlk(m, last, pg) ==
    LET open(b)   == {p \in Page : m.page[b][p] # "EMPT"}
        candidate == {b \in Blk : m.blk[b] # "FULL"}
        touched   == {b \in candidate : open(b) # {}}
    IN  [blk  |-> IF candidate = {} THEN last ELSE LastVisited(last, candidate),
         page |-> IF touched = {} THEN pg
                  ELSE LastPage(open(LastVisited(last, touched))),
         obj  |-> 0]

\* Mutant: one past the last page is still a page.
ActAddrAddOffByOne(m, n) ==
    IF obj_act + n < obj_nr_per_page
      THEN [blk |-> blk_act, page |-> page_act, obj |-> obj_act + n]
    ELSE IF page_act + 1 <= npages
      THEN [blk |-> blk_act, page |-> page_act + 1, obj |-> 0]
    ELSE FindNextActBlk(m, blk_act, 0)

\* Mutant: page_act is not reset before find_next_act_blk.
ActAddrAddKeepsPage(m, n) ==
    IF obj_act + n < obj_nr_per_page
      THEN [blk |-> blk_act, page |-> page_act, obj |-> obj_act + n]
    ELSE IF page_act + 1 < npages
      THEN [blk |-> blk_act, page |-> page_act + 1, obj |-> 0]
    ELSE FindNextActBlk(m, blk_act, page_act)

\* Mutant: the loop runs while n > 1.
ActAddrAddShort(m, n) ==
    IF obj_act + n - 1 < obj_nr_per_page
      THEN [blk |-> blk_act, page |-> page_act, obj |-> obj_act + n - 1]
    ELSE FindNextActBlk(m, blk_act, 0)

(* act_addr_add(n) with n at most the slots left in the active page, which *)
(* is how both callers use it.                                             *)
ActAddrAdd(m, n) ==
    IF obj_act + n < obj_nr_per_page
      THEN [blk |-> blk_act, page |-> page_act, obj |-> obj_act + n]
    ELSE IF page_act + 1 < npages
      THEN [blk |-> blk_act, page |-> page_act + 1, obj |-> 0]
    ELSE FindNextActBlk(m, blk_act, 0)

SetAct(a) == blk_act' = a.blk /\ page_act' = a.page /\ obj_act' = a.obj

(***************************************************************************)
(* The device.                                                             *)
(***************************************************************************)
Programmed(b, p) == media[b][p] # Erased

Program(b, p, content) ==
    \/ media' = [media EXCEPT ![b] = [@ EXCEPT ![p] = content]]
    \/ Programmed(b, p) /\ UNCHANGED media

(***************************************************************************)
(* The public methods.  Calls with an id outside 1..nat_max_length-1       *)
(* return at once and are not actions.                                     *)
(***************************************************************************)

\* The constructor on a freshly formatted area: the bitmap reads as zeros,
\* every block is EMPT and find_next_act_blk(0) ends at block 0.
Init ==
    /\ nat = [id \in Id |-> [state |-> "FREE", blk |-> 0, page |-> 0, obj |-> 0]]
    /\ map = [obj  |-> [b \in Blk |-> [p \in Page |-> [o \in Obj |-> "FREE"]]],
              page |-> [b \in Blk |-> [p \in Page |-> "EMPT"]],
              blk  |-> [b \in Blk |-> "EMPT"]]
    /\ bitmap_vblk = map
    /\ blk_dead_obj_nr = [b \in Blk |-> 0]
    /\ all_dead_obj_nr = 0
    /\ LET a == FindNextActBlk(map, 0, 0)
       IN  blk_act = a.blk /\ page_act = a.page /\ obj_act = a.obj
    /\ w_buf = Erased
    /\ media = [b \in Blk |-> [p \in Page |-> Erased]]

(* The lowest FREE entry.  When there is none the function runs off its    *)
(* end without a return value and without touching any state.              *)
AllocObj(id) ==
    /\ nat[id].state = "FREE"
    /\ \A i \in Id : i < id => nat[i].state # "FREE"
    /\ nat' = [nat EXCEPT ![id].state = "USED"]
    /\ UNCHANGED <<map, bitmap_vblk, stats, act, w_buf, media>>

\* Mutant: the old slot is forgotten.
KillSlotForgets(id) == map

\* Mutant: the old slot becomes FREE at once.
KillSlotFrees(id) ==
    LET e == nat[id]
    IN  IF e.state = "WRIT" THEN SetObjState(map, e.blk, e.page, {e.obj}, "FREE")
        ELSE map

\* The bitmap after the slot of id, if it has one, is marked DEAD.
KillSlot(id) ==
    LET e == nat[id]
    IN  IF e.state = "WRIT" THEN SetObjState(map, e.blk, e.page, {e.obj}, "DEAD")
        ELSE map

\* Mutant: garbage is charged to the active block, after nat was overwritten.
CountDeadAtActive(id) ==
    IF nat[id].state = "WRIT"
      THEN /\ all_dead_obj_nr < MaxDead
           /\ all_dead_obj_nr' = all_dead_obj_nr + 1
           /\ blk_dead_obj_nr' = [blk_dead_obj_nr EXCEPT ![blk_act] = @ + 1]
      ELSE UNCHANGED stats

CountDead(id) ==
    IF nat[id].state = "WRIT"
      THEN /\ all_dead_obj_nr < MaxDead
           /\ all_dead_obj_nr' = all_dead_obj_nr + 1
           /\ blk_dead_obj_nr' = [blk_dead_obj_nr EXCEPT ![nat[id].blk] = @ + 1]
      ELSE UNCHANGED stats

\* Mutant: the slot of a deleted object is FREE again at once.
DeAllocObjFrees(id) ==
    /\ map' = IF nat[id].state = "WRIT"
                THEN SetObjState(map, nat[id].blk, nat[id].page, {nat[id].obj}, "FREE")
                ELSE map
    /\ CountDead(id)
    /\ nat' = [nat EXCEPT ![id].state = "FREE"]
    /\ UNCHANGED <<bitmap_vblk, act, w_buf, media>>

DeAllocObj(id) ==
    /\ map' = KillSlot(id)
    /\ CountDead(id)
    /\ nat' = [nat EXCEPT ![id].state = "FREE"]
    /\ UNCHANGED <<bitmap_vblk, act, w_buf, media>>

(* The old slot dies, the active one takes the object through w_buf, and   *)
(* the page is programmed if the active slot moved to a new page.          *)
WriteByObjId(id, v) ==
    /\ nat[id].state # "FREE"
    /\ CountDead(id)
    /\ nat' = [nat EXCEPT ![id] = [state |-> "WRIT", blk |-> blk_act,
                                   page |-> page_act, obj |-> obj_act]]
    /\ w_buf' = [w_buf EXCEPT ![obj_act] = [id |-> id, val |-> v]]
    /\ map' = SetObjState(KillSlot(id), blk_act, page_act, {obj_act}, "USED")
    /\ LET a == ActAddrAdd(map', 1)
       IN  /\ SetAct(a)
           /\ IF a.obj = 0 THEN Program(blk_act, page_act, w_buf')
              ELSE UNCHANGED media
    /\ UNCHANGED bitmap_vblk

\* Mutant: flush saves the bitmap and leaves the data in w_buf.
FlushBitmapOnly ==
    /\ bitmap_vblk' = map
    /\ UNCHANGED <<nat, map, stats, act, w_buf, media>>

\* Mutant: flush programs the data and does not save the bitmap.
FlushDataOnly ==
    LET rest == obj_act .. obj_nr_per_page - 1
    IN  /\ IF obj_act = 0
             THEN UNCHANGED <<map, act, w_buf, media>>
             ELSE /\ w_buf' = [o \in Obj |-> IF o \in rest THEN Zero ELSE w_buf[o]]
                  /\ map' = SetObjState(map, blk_act, page_act, rest, "DEAD")
                  /\ Program(blk_act, page_act, w_buf')
                  /\ SetAct(ActAddrAdd(map', obj_nr_per_page - obj_act))
        /\ UNCHANGED <<nat, stats, bitmap_vblk>>

(* flush_data pads the open page with zeroed DEAD slots, which it does not *)
(* count, and programs it; flush_bitmap then saves the bitmap.             *)
Flush ==
    LET rest == obj_act .. obj_nr_per_page - 1
    IN  /\ IF obj_act = 0
             THEN UNCHANGED <<map, act, w_buf, media>>
             ELSE /\ w_buf' = [o \in Obj |-> IF o \in rest THEN Zero ELSE w_buf[o]]
                  /\ map' = SetObjState(map, blk_act, page_act, rest, "DEAD")
                  /\ Program(blk_act, page_act, w_buf')
                  /\ SetAct(ActAddrAdd(map', obj_nr_per_page - obj_act))
        /\ bitmap_vblk' = map'
        /\ UNCHANGED <<nat, stats>>

Next ==
    \/ \E id \in Id : AllocObj(id) \/ DeAllocObj(id)
    \/ \E id \in Id, v \in Value : WriteByObjId(id, v)
    \/ Flush

Spec == Init /\ [][Next]_vars

\* Mutant: reads go to the medium even for the page in w_buf.
SlotOnMedium(id) == media[nat[id].blk][nat[id].page][nat[id].obj]

\* read_by_obj_id changes nothing but r_buf: an object of the page in the
\* active position is taken from w_buf, any other from the medium.
Slot(id) ==
    LET e == nat[id]
    IN  IF e.blk = blk_act /\ e.page = page_act THEN w_buf[e.obj]
        ELSE media[e.blk][e.page][e.obj]

ReadByObjId(id) ==
    CASE nat[id].state = "FREE" -> Null
      [] nat[id].state = "USED" -> Zeroed
      [] nat[id].state = "WRIT" -> IF Slot(id).id = id THEN Slot(id).val ELSE Junk

(***************************************************************************)
(* Properties.                                                             *)
(***************************************************************************)

(* No slot is FREE.  Nothing collects garbage, so the area stays exhausted *)
(* and, having nowhere to go, its active slot returns to slot 0 of page 0  *)
(* of the block it was in: from here on the properties below do not hold   *)
(* (see the runs that say what happens).                                   *)
Exhausted == \A b \in Blk, p \in Page, o \in Obj : map.obj[b][p][o] # "FREE"

\* The abstract store as a client sees it through read_by_obj_id.
Store == INSTANCE ObjStore WITH
    store <- [id \in Id |-> ReadByObjId(id)],
    room  <- ~Exhausted

\* Until the last slot is taken, reads return what was last written, whether
\* it is still in w_buf or on the medium, and no operation on one object
\* disturbs another (read_by_obj_id, write_by_obj_id).
ImplementsStore == Store!Spec

HasSlot(id, b, p, o) ==
    nat[id].state = "WRIT" /\ nat[id].blk = b /\ nat[id].page = p /\ nat[id].obj = o

\* The USED slots are exactly the slots the NAT points at, one id each: no
\* two objects share a slot and no slot is leaked (NAT against bitmap).
LiveSlots ==
    ~Exhausted =>
      \A b \in Blk, p \in Page, o \in Obj :
        /\ map.obj[b][p][o] = "USED" <=> \E id \in Id : HasSlot(id, b, p, o)
        /\ \A i, j \in Id : HasSlot(i, b, p, o) /\ HasSlot(j, b, p, o) => i = j

AllFree(b, p)   == \A o \in Obj : map.obj[b][p][o] = "FREE"
NoneFree(b, p)  == \A o \in Obj : map.obj[b][p][o] # "FREE"

(* The levels of the bitmap agree as far as the tables in set_obj_state and *)
(* its users need them to, although it never sets EMPT and recomputes one   *)
(* page and one block.  A page's state says whether all, some or none of    *)
(* its slots are FREE.  A block is EMPT exactly when its pages are (GC      *)
(* takes it for a destination), FULL when they are, and never FULL while a  *)
(* page of it is EMPT (find_next_act_blk would lose the page).  Where no    *)
(* page is EMPT and one is PART, code and table differ: FullIsAllInUse.     *)
LevelsAgree ==
    /\ \A b \in Blk, p \in Page :
         map.page[b][p] = IF AllFree(b, p) THEN "EMPT"
                          ELSE IF NoneFree(b, p) THEN "FULL" ELSE "PART"
    /\ \A b \in Blk :
         /\ map.blk[b] = "EMPT" <=> \A p \in Page : map.page[b][p] = "EMPT"
         /\ (\A p \in Page : map.page[b][p] = "FULL") => map.blk[b] = "FULL"
         /\ map.blk[b] = "FULL" => \A p \in Page : map.page[b][p] # "EMPT"

Ahead(p, o) == p > page_act \/ (p = page_act /\ o >= obj_act)

Blank(b)  == \A p \in Page : AllFree(b, p) /\ ~Programmed(b, p)
Sealed(b) == \A p \in Page : NoneFree(b, p) /\ Programmed(b, p)

\* The log has one open end.  In the active block exactly the slots ahead of
\* the active one are free and exactly the pages before the active page are
\* on the medium; every other block is blank or sealed (find_next_act_blk,
\* act_addr_add, the programming in write_by_obj_id and flush_data).
LogShape ==
    ~Exhausted =>
      /\ \A p \in Page, o \in Obj : map.obj[blk_act][p][o] = "FREE" <=> Ahead(p, o)
      /\ \A p \in Page : Programmed(blk_act, p) <=> p < page_act
      /\ \A b \in Blk \ {blk_act} : Blank(b) \/ Sealed(b)

\* NAND rule: the pages of a block are programmed once and in order.
ProgramInOrder ==
    [][ ~Exhausted =>
          \A b \in Blk, p \in Page :
            media'[b][p] # media[b][p] =>
              /\ ~Programmed(b, p)
              /\ \A q \in Page : q < p => Programmed(b, q) ]_vars

\* A slot is used once per erase: FREE, then USED, then DEAD.
SlotLifecycle ==
    [][ ~Exhausted =>
          \A b \in Blk, p \in Page, o \in Obj :
            <<map.obj[b][p][o], map'.obj[b][p][o]>> \in
              {<<s, s>> : s \in ObjState} \cup
              {<<"FREE", "USED">>, <<"FREE", "DEAD">>, <<"USED", "DEAD">>} ]_vars

DeadSlots(b) ==
    {s \in Page \X Obj : map.obj[b][s[1]][s[2]] = "DEAD"}

\* The counter need_GC and GC choose by never promises more garbage in a
\* block than there is.
DeadCountsAreReal ==
    ~Exhausted => \A b \in Blk : blk_dead_obj_nr[b] <= Cardinality(DeadSlots(b))

\* A bitmap saved by flush is never ahead of the medium: a slot it reports
\* taken is programmed (flush_data runs before flush_bitmap).
SavedBitmapIsDurable ==
    ~Exhausted =>
      \A b \in Blk, p \in Page :
        (\E o \in Obj : bitmap_vblk.obj[b][p][o] # "FREE") => Programmed(b, p)

\* Deleting and overwriting never makes room: the four calls the file system
\* makes (alloc_obj, de_alloc_obj, write_by_obj_id, flush) leave an exhausted
\* area exhausted, whatever is deleted; it never calls GC.
ExhaustionIsFinal == [][Exhausted => Exhausted']_vars

(***************************************************************************)
(* What the comments of the code say.                                      *)
(***************************************************************************)

\* meta_blk_area.cc:431, "still in buf": an object whose page is the active
\* one is in w_buf.
StillInBuf ==
    \A id \in Id :
      nat[id].state = "WRIT" /\ nat[id].blk = blk_act /\ nat[id].page = page_act
        => w_buf[nat[id].obj].id = id

\* meta_blk_area.h:34, a FULL block "all is in use", and the tables of
\* set_obj_state, by which a block with a PART page is PART.
FullIsAllInUse ==
    \A b \in Blk : map.blk[b] = "FULL" => \A p \in Page : NoneFree(b, p)
=============================================================================
