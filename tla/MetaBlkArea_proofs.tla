------------------------- MODULE MetaBlkArea_proofs -------------------------

(***************************************************************************)
(* Proofs about MetaBlkArea for every geometry, every length of the NAT    *)
(* and every set of values: within one session, and over several.          *)
(***************************************************************************)
EXTENDS MetaBlkAreaReopen, FiniteSetTheorems, WellFoundedInduction, TLAPS

(***************************************************************************)
(* Extrema: find_next_act_blk's choices exist.                             *)
(***************************************************************************)
NatLess == {ss \in Nat \X Nat : ss[1] < ss[2]}

\* A nonempty set of naturals has a least element.
LEMMA LeastNat ==
    ASSUME NEW T \in SUBSET Nat, T # {}
    PROVE  \E x \in T : \A y \in T : x <= y
<1>1. IsWellFoundedOn(NatLess, Nat)
  BY NatLessThanWellFounded DEF OpToRel, NatLess
<1>2. PICK x \in T : \A y \in T : ~ (<<y, x>> \in NatLess)
  BY <1>1, WFMin
<1>3. \A y \in T : x <= y
  <2> TAKE y \in T
  <2>1. x \in Nat /\ y \in Nat
    OBVIOUS
  <2>2. ~ (y < x)
    BY <2>1, <1>2 DEF NatLess
  <2> QED BY <2>1, <2>2
<1> QED BY <1>3

\* A nonempty set of blocks has a last one in find_next_act_blk's round.
LEMMA LastVisitedExists ==
    ASSUME NEW last \in Blk, NEW S \in SUBSET Blk, S # {}
    PROVE  LastVisited(last, S) \in S
<1> DEFINE Left(b) == data_blk_nr - VisitRank(last, b)
           T == {Left(b) : b \in S}
<1>1. \A b \in Blk : VisitRank(last, b) \in Int /\ Left(b) \in Nat
  BY Geometry DEF VisitRank, Blk
<1>2. T \in SUBSET Nat /\ T # {}
  BY <1>1
<1> HIDE DEF T
<1>3. PICK x \in T : \A y \in T : x <= y
  BY <1>2, LeastNat
<1>4. PICK b \in S : x = Left(b)
  BY DEF T
<1>5. \A c \in S : Left(b) <= Left(c)
  BY <1>3, <1>4 DEF T
<1>6. \A c \in S : VisitRank(last, c) <= VisitRank(last, b)
  BY <1>1, <1>5, Geometry
<1> QED BY <1>6 DEF LastVisited

\* A nonempty set of pages has a last one.
LEMMA LastPageExists ==
    ASSUME NEW S \in SUBSET Page, S # {}
    PROVE  LastPage(S) \in S
<1> DEFINE T == {npages - p : p \in S}
<1>1. \A p \in S : npages - p \in Nat
  BY Geometry DEF Page
<1>2. T \in SUBSET Nat /\ T # {}
  BY <1>1
<1> HIDE DEF T
<1>3. PICK x \in T : \A y \in T : x <= y
  BY <1>2, LeastNat
<1>4. PICK p \in S : x = npages - p
  BY DEF T
<1>5. \A q \in S : npages - p <= npages - q
  BY <1>3, <1>4 DEF T
<1>6. \A q \in S : q <= p
  BY <1>5, Geometry DEF Page
<1> QED BY <1>6 DEF LastPage

(***************************************************************************)
(* Types.                                                                  *)
(***************************************************************************)

\* What set_obj_state changes: the slots O of page p, then that page's and
\* that block's state.
Marks(r, m, b, p, O, s) ==
    /\ r \in Bitmap
    /\ \A o \in Obj : r.obj[b][p][o] = IF o \in O THEN s ELSE m.obj[b][p][o]
    /\ \A c \in Blk, q \in Page :
         c # b \/ q # p => /\ r.obj[c][q] = m.obj[c][q]
                          /\ r.page[c][q] = m.page[c][q]
    /\ r.page[b][p] = PageState(r.obj[b][p], m.page[b][p])
    /\ \A c \in Blk : c # b => r.blk[c] = m.blk[c]
    /\ r.blk[b] = BlkState(r.page[b], m.blk[b])

LEMMA SetObjStateEffect ==
    ASSUME NEW m \in Bitmap, NEW b \in Blk, NEW p \in Page,
           NEW O \in SUBSET Obj, NEW s \in ObjState
    PROVE  Marks(SetObjState(m, b, p, O, s), m, b, p, O, s)
<1> DEFINE objs  == [o \in Obj |-> IF o \in O THEN s ELSE m.obj[b][p][o]]
           pages == [m.page[b] EXCEPT ![p] = PageState(objs, @)]
           r == SetObjState(m, b, p, O, s)
<1>1. /\ r.obj  = [m.obj EXCEPT ![b] = [@ EXCEPT ![p] = objs]]
      /\ r.page = [m.page EXCEPT ![b] = pages]
      /\ r.blk  = [m.blk EXCEPT ![b] = BlkState(pages, @)]
      /\ r = [obj |-> r.obj, page |-> r.page, blk |-> r.blk]
  BY DEF SetObjState
<1>2. /\ m.obj \in [Blk -> [Page -> [Obj -> ObjState]]]
      /\ m.page \in [Blk -> [Page -> MapState]]
      /\ m.blk \in [Blk -> MapState]
  BY DEF Bitmap
<1>3. objs \in [Obj -> ObjState]
  BY <1>2
<1>4. PageState(objs, m.page[b][p]) \in MapState
  BY <1>2 DEF PageState, MapState
<1>5. pages \in [Page -> MapState]
  BY <1>2, <1>4
<1>6. BlkState(pages, m.blk[b]) \in MapState
  BY <1>2 DEF BlkState, MapState
<1> HIDE DEF objs, pages, r
<1>7. /\ r.obj \in [Blk -> [Page -> [Obj -> ObjState]]]
      /\ r.page \in [Blk -> [Page -> MapState]]
      /\ r.blk \in [Blk -> MapState]
  BY <1>1, <1>2, <1>3, <1>5, <1>6
<1>8. r \in Bitmap
  BY <1>1, <1>7 DEF Bitmap
<1>9. r.obj[b][p] = objs /\ r.page[b] = pages
  BY <1>1, <1>2
<1>10. r.page[b][p] = PageState(objs, m.page[b][p])
  BY <1>9, <1>2 DEF pages
<1>11. \A c \in Blk, q \in Page :
          c # b \/ q # p => /\ r.obj[c][q] = m.obj[c][q]
                           /\ r.page[c][q] = m.page[c][q]
  BY <1>1, <1>2 DEF pages
<1>12. /\ \A c \in Blk : c # b => r.blk[c] = m.blk[c]
       /\ r.blk[b] = BlkState(pages, m.blk[b])
  BY <1>1, <1>2
<1>13. \A o \in Obj : objs[o] = IF o \in O THEN s ELSE m.obj[b][p][o]
  BY DEF objs
<1>14. Marks(r, m, b, p, O, s)
  BY <1>8, <1>9, <1>10, <1>11, <1>12, <1>13 DEF Marks
<1> QED BY <1>14 DEF r

LEMMA SetObjStateType ==
    ASSUME NEW m \in Bitmap, NEW b \in Blk, NEW p \in Page,
           NEW O \in SUBSET Obj, NEW s \in ObjState
    PROVE  SetObjState(m, b, p, O, s) \in Bitmap
<1>1. PICK r : r = SetObjState(m, b, p, O, s)
  OBVIOUS
<1>2. Marks(r, m, b, p, O, s)
  BY <1>1, SetObjStateEffect
<1>3. r \in Bitmap
  BY <1>2 DEF Marks
<1> QED BY <1>1, <1>3

ActPos == [blk : Blk, page : Page, obj : Obj]

LEMMA FindNextActBlkType ==
    ASSUME NEW m, NEW last \in Blk, NEW pg \in Page
    PROVE  FindNextActBlk(m, last, pg) \in ActPos
<1> DEFINE open(b)   == {p \in Page : m.page[b][p] # "EMPT"}
           candidate == {b \in Blk : m.blk[b] # "FULL"}
           touched   == {b \in candidate : open(b) # {}}
           a == FindNextActBlk(m, last, pg)
<1>1. candidate \in SUBSET Blk /\ touched \in SUBSET Blk
  OBVIOUS
<1>2. candidate # {} => LastVisited(last, candidate) \in candidate
  BY <1>1, LastVisitedExists
<1>3. touched # {} => LastPage(open(LastVisited(last, touched))) \in Page
  <2> SUFFICES ASSUME touched # {}
               PROVE  LastPage(open(LastVisited(last, touched))) \in Page
    OBVIOUS
  <2>1. LastVisited(last, touched) \in touched
    BY <1>1, LastVisitedExists
  <2>2. open(LastVisited(last, touched)) \in SUBSET Page /\ open(LastVisited(last, touched)) # {}
    BY <2>1
  <2> HIDE DEF open, touched
  <2> QED BY <2>2, LastPageExists
<1>4. 0 \in Obj
  BY Geometry DEF Obj
<1>5. /\ a.blk = IF candidate = {} THEN last ELSE LastVisited(last, candidate)
      /\ a.page = IF touched = {} THEN pg
                  ELSE LastPage(open(LastVisited(last, touched)))
      /\ a.obj = 0
      /\ a = [blk |-> a.blk, page |-> a.page, obj |-> a.obj]
  BY DEF FindNextActBlk
<1> HIDE DEF open, candidate, touched, a
<1>6. a.blk \in Blk /\ a.page \in Page /\ a.obj \in Obj
  BY <1>1, <1>2, <1>3, <1>4, <1>5
<1>7. a \in ActPos
  BY <1>5, <1>6 DEF ActPos
<1> QED BY <1>7 DEF a

\* act_addr_add stays inside the area.
LEMMA ActAddrAddType ==
    ASSUME blk_act \in Blk, page_act \in Page, obj_act \in Obj,
           NEW m, NEW n \in Nat
    PROVE  ActAddrAdd(m, n) \in ActPos
<1>1. 0 \in Page /\ 0 \in Obj
  BY Geometry DEF Page, Obj
<1>2. CASE obj_act + n < obj_nr_per_page
  <2>1. obj_act + n \in Obj
    BY <1>2, Geometry DEF Obj
  <2> QED BY <1>2, <2>1 DEF ActAddrAdd, ActPos
<1>3. CASE ~(obj_act + n < obj_nr_per_page) /\ page_act + 1 < npages
  <2>1. page_act + 1 \in Page
    BY <1>3, Geometry DEF Page
  <2> QED BY <1>1, <1>3, <2>1 DEF ActAddrAdd, ActPos
<1>4. CASE ~(obj_act + n < obj_nr_per_page) /\ ~(page_act + 1 < npages)
  <2>1. ActAddrAdd(m, n) = FindNextActBlk(m, blk_act, 0)
    BY <1>4 DEF ActAddrAdd
  <2> QED BY <1>1, <2>1, FindNextActBlkType
<1> QED BY <1>2, <1>3, <1>4
LEMMA KillSlotType ==
    ASSUME TypeOK, NEW id \in Id
    PROVE  KillSlot(id) \in Bitmap
<1>1. nat[id].blk \in Blk /\ nat[id].page \in Page /\ {nat[id].obj} \in SUBSET Obj
  BY DEF TypeOK, NatEntry
<1>2. map \in Bitmap /\ "DEAD" \in ObjState
  BY DEF TypeOK, ObjState
<1>3. \A b \in Blk, p \in Page, O \in SUBSET Obj :
         SetObjState(map, b, p, O, "DEAD") \in Bitmap
  BY <1>2, SetObjStateType
<1> QED BY <1>1, <1>2, <1>3 DEF KillSlot

LEMMA CountDeadType ==
    ASSUME TypeOK, NEW id \in Id, CountDead(id)
    PROVE  blk_dead_obj_nr' \in [Blk -> Nat] /\ all_dead_obj_nr' \in Nat
<1>1. CASE nat[id].state = "WRIT"
  <2>1. nat[id].blk \in Blk
    BY DEF TypeOK, NatEntry
  <2>2. /\ all_dead_obj_nr' = all_dead_obj_nr + 1
        /\ blk_dead_obj_nr' = [blk_dead_obj_nr EXCEPT ![nat[id].blk] = @ + 1]
    BY <1>1 DEF CountDead
  <2> QED BY <2>1, <2>2 DEF TypeOK
<1>2. CASE nat[id].state # "WRIT"
  BY <1>2 DEF CountDead, stats, TypeOK
<1> QED BY <1>1, <1>2

LEMMA ProgramType ==
    ASSUME TypeOK, NEW b \in Blk, NEW p \in Page, NEW c \in PageContent,
           Program(b, p, c)
    PROVE  media' \in [Blk -> [Page -> PageContent]]
<1>1. media \in [Blk -> [Page -> PageContent]]
  BY DEF TypeOK
<1>2. [media[b] EXCEPT ![p] = c] \in [Page -> PageContent]
  BY <1>1
<1>3. [media EXCEPT ![b] = [media[b] EXCEPT ![p] = c]] \in [Blk -> [Page -> PageContent]]
  BY <1>1, <1>2
<1> QED BY <1>1, <1>3 DEF Program

LEMMA ZeroIsContent == Zero \in Content /\ Raw \in Content
BY DEF Content

LEMMA InitType == Init => TypeOK
<1> SUFFICES ASSUME Init PROVE TypeOK
  OBVIOUS
<1>1. 0 \in Blk /\ 0 \in Page /\ 0 \in Obj
  BY Geometry DEF Blk, Page, Obj
<1>2. nat \in [Id -> NatEntry]
  BY <1>1 DEF Init, NatEntry, NatState
<1>3. map \in Bitmap /\ bitmap_vblk \in Bitmap
  BY DEF Init, Bitmap, ObjState, MapState
<1>4. blk_act \in Blk /\ page_act \in Page /\ obj_act \in Obj
  BY <1>1, FindNextActBlkType DEF Init, ActPos
<1>5. w_buf \in PageContent /\ media \in [Blk -> [Page -> PageContent]]
  BY ZeroIsContent DEF Init, Erased, PageContent
<1>6. blk_dead_obj_nr \in [Blk -> Nat] /\ all_dead_obj_nr \in Nat
  BY DEF Init
<1> QED BY <1>2, <1>3, <1>4, <1>5, <1>6 DEF TypeOK

LEMMA WriteType ==
    ASSUME TypeOK, NEW id \in Id, NEW v \in Value, WriteByObjId(id, v)
    PROVE  TypeOK'
<1> DEFINE a == ActAddrAdd(map', 1)
<1>1. nat' \in [Id -> NatEntry]
  BY DEF TypeOK, WriteByObjId, NatEntry, NatState
<1>2. map' \in Bitmap
  <2>1. KillSlot(id) \in Bitmap /\ {obj_act} \in SUBSET Obj /\ "USED" \in ObjState
    BY KillSlotType DEF TypeOK, ObjState
  <2>2. blk_act \in Blk /\ page_act \in Page
    BY DEF TypeOK
  <2>3. SetObjState(KillSlot(id), blk_act, page_act, {obj_act}, "USED") \in Bitmap
    BY <2>1, <2>2, SetObjStateType
  <2> QED BY <2>3 DEF WriteByObjId
<1>3. w_buf' \in PageContent
  <2>1. [id |-> id, val |-> v] \in Content
    BY DEF Content, Object
  <2> QED BY <2>1 DEF TypeOK, PageContent, WriteByObjId
<1>4. a \in ActPos
  BY ActAddrAddType DEF TypeOK
<1>5. blk_act' \in Blk /\ page_act' \in Page /\ obj_act' \in Obj
  BY <1>4 DEF WriteByObjId, SetAct, ActPos
<1>6. media' \in [Blk -> [Page -> PageContent]]
  BY <1>3, ProgramType DEF TypeOK, WriteByObjId
<1>7. blk_dead_obj_nr' \in [Blk -> Nat] /\ all_dead_obj_nr' \in Nat
  BY CountDeadType DEF WriteByObjId
<1>8. bitmap_vblk' \in Bitmap
  BY DEF TypeOK, WriteByObjId
<1> QED BY <1>1, <1>2, <1>3, <1>5, <1>6, <1>7, <1>8 DEF TypeOK

LEMMA FlushType ==
    ASSUME TypeOK, Flush
    PROVE  TypeOK'
<1> DEFINE rest == obj_act .. obj_nr_per_page - 1
<1>1. CASE obj_act = 0
  BY <1>1 DEF Flush, TypeOK, act, stats
<1>2. CASE obj_act # 0
  <2>1. rest \in SUBSET Obj /\ obj_nr_per_page - obj_act \in Nat
    BY Geometry DEF TypeOK, Obj
  <2>2. w_buf' \in PageContent
    <3>1. w_buf' = [o \in Obj |-> IF o \in rest THEN Zero ELSE w_buf[o]]
      BY <1>2 DEF Flush
    <3> QED BY <3>1, ZeroIsContent DEF TypeOK, PageContent
  <2>3. map' \in Bitmap
    <3>1. map' = SetObjState(map, blk_act, page_act, rest, "DEAD")
      BY <1>2 DEF Flush
    <3>2. /\ "DEAD" \in ObjState /\ map \in Bitmap
          /\ blk_act \in Blk /\ page_act \in Page
      BY DEF ObjState, TypeOK
    <3> HIDE DEF rest
    <3> QED BY <2>1, <3>1, <3>2, SetObjStateType
  <2>4. media' \in [Blk -> [Page -> PageContent]]
    BY <1>2, <2>2, ProgramType DEF Flush, TypeOK
  <2>5. ActAddrAdd(map', obj_nr_per_page - obj_act) \in ActPos
    BY <2>1, ActAddrAddType DEF TypeOK
  <2>6. blk_act' \in Blk /\ page_act' \in Page /\ obj_act' \in Obj
    BY <1>2, <2>5 DEF Flush, SetAct, ActPos
  <2> QED BY <2>2, <2>3, <2>4, <2>6 DEF TypeOK, Flush, stats
<1> QED BY <1>1, <1>2

LEMMA NextType == TypeOK /\ [Next]_vars => TypeOK'
<1> SUFFICES ASSUME TypeOK, [Next]_vars PROVE TypeOK'
  OBVIOUS
<1>1. ASSUME NEW id \in Id, AllocObj(id) PROVE TypeOK'
  <2>1. nat' \in [Id -> NatEntry]
    BY <1>1 DEF TypeOK, AllocObj, NatEntry, NatState
  <2> QED BY <1>1, <2>1 DEF TypeOK, AllocObj, stats, act
<1>2. ASSUME NEW id \in Id, DeAllocObj(id) PROVE TypeOK'
  <2>1. nat' \in [Id -> NatEntry]
    BY <1>2 DEF TypeOK, DeAllocObj, NatEntry, NatState
  <2>2. map' \in Bitmap
    BY <1>2, KillSlotType DEF DeAllocObj
  <2>3. blk_dead_obj_nr' \in [Blk -> Nat] /\ all_dead_obj_nr' \in Nat
    BY <1>2, CountDeadType DEF DeAllocObj
  <2> QED BY <1>2, <2>1, <2>2, <2>3 DEF TypeOK, DeAllocObj, act
<1>3. CASE UNCHANGED vars
  BY <1>3 DEF TypeOK, vars, stats, act
<1> QED BY <1>1, <1>2, <1>3, WriteType, FlushType DEF Next

\* Every variable keeps its type: in particular the active position never
\* leaves the area, whatever find_next_act_blk finds.
THEOREM TypeCorrect == Spec => []TypeOK
BY InitType, NextType, PTL DEF Spec

(***************************************************************************)
(* The shape of the log.                                                   *)
(***************************************************************************)

\* What the code computes: a page's state is exact, a block is FULL as soon
\* as no page of it is EMPT.
LevelsExact ==
    /\ \A b \in Blk, p \in Page :
         map.page[b][p] = IF AllFree(b, p) THEN "EMPT"
                          ELSE IF NoneFree(b, p) THEN "FULL" ELSE "PART"
    /\ \A b \in Blk :
         map.blk[b] = IF \A p \in Page : map.page[b][p] = "EMPT" THEN "EMPT"
                      ELSE IF \A p \in Page : map.page[b][p] # "EMPT" THEN "FULL"
                      ELSE "PART"

\* The same, said of any bitmap.
Levels(m) ==
    /\ \A b \in Blk, p \in Page :
         m.page[b][p] = IF \A o \in Obj : m.obj[b][p][o] = "FREE" THEN "EMPT"
                        ELSE IF \A o \in Obj : m.obj[b][p][o] # "FREE" THEN "FULL"
                        ELSE "PART"
    /\ \A b \in Blk :
         m.blk[b] = IF \A p \in Page : m.page[b][p] = "EMPT" THEN "EMPT"
                    ELSE IF \A p \in Page : m.page[b][p] # "EMPT" THEN "FULL"
                    ELSE "PART"

LEMMA LevelsExactIsLevels == LevelsExact <=> Levels(map)
BY DEF LevelsExact, Levels, AllFree, NoneFree

LEMMA ExactLevelsAgree == LevelsExact => LevelsAgree
BY Geometry DEF LevelsExact, LevelsAgree, Page

\* Marking slots USED or DEAD keeps the levels in agreement.
LEMMA SetObjStateLevels ==
    ASSUME NEW m \in Bitmap, Levels(m), NEW b \in Blk, NEW p \in Page,
           NEW O \in SUBSET Obj, NEW s \in {"USED", "DEAD"}
    PROVE  Levels(SetObjState(m, b, p, O, s))
<1> DEFINE r == SetObjState(m, b, p, O, s)
<1>1. Marks(r, m, b, p, O, s)
  BY SetObjStateEffect DEF ObjState
<1> HIDE DEF r
<1>2. \A o \in Obj : m.obj[b][p][o] # "FREE" => r.obj[b][p][o] # "FREE"
  BY <1>1 DEF Marks
<1>3. ASSUME NEW c \in Blk, NEW q \in Page
      PROVE  r.page[c][q] = IF \A o \in Obj : r.obj[c][q][o] = "FREE" THEN "EMPT"
                            ELSE IF \A o \in Obj : r.obj[c][q][o] # "FREE" THEN "FULL"
                            ELSE "PART"
  <2>1. CASE c # b \/ q # p
    BY <1>1, <2>1 DEF Levels, Marks
  <2>2. CASE c = b /\ q = p
    <3>1. \E o \in Obj : TRUE
      BY Geometry DEF Obj
    <3>2. m.page[b][p] = IF \A o \in Obj : m.obj[b][p][o] = "FREE" THEN "EMPT"
                         ELSE IF \A o \in Obj : m.obj[b][p][o] # "FREE" THEN "FULL"
                         ELSE "PART"
      BY DEF Levels
    <3> QED BY <1>1, <1>2, <2>2, <3>1, <3>2 DEF PageState, Marks
  <2> QED BY <2>1, <2>2
<1>4. \A q \in Page : m.page[b][q] # "EMPT" => r.page[b][q] # "EMPT"
  BY <1>1, <1>2, <1>3 DEF Levels, Marks
<1>5. ASSUME NEW c \in Blk
      PROVE  r.blk[c] = IF \A q \in Page : r.page[c][q] = "EMPT" THEN "EMPT"
                        ELSE IF \A q \in Page : r.page[c][q] # "EMPT" THEN "FULL"
                        ELSE "PART"
  <2>1. CASE c # b
    BY <1>1, <2>1 DEF Levels, Marks
  <2>2. CASE c = b
    <3>1. \E q \in Page : TRUE
      BY Geometry DEF Page
    <3>2. m.blk[b] = IF \A q \in Page : m.page[b][q] = "EMPT" THEN "EMPT"
                     ELSE IF \A q \in Page : m.page[b][q] # "EMPT" THEN "FULL"
                     ELSE "PART"
      BY DEF Levels
    <3> QED BY <1>1, <1>4, <2>2, <3>1, <3>2 DEF BlkState, Marks
  <2> QED BY <2>1, <2>2
<1>6. Levels(r)
  BY <1>3, <1>5 DEF Levels
<1> QED BY <1>6 DEF r
IsFree(m, b, p, o) == m.obj[b][p][o] = "FREE"

\* Marking slots USED or DEAD takes just those slots from the free ones.
LEMMA SetObjStateFree ==
    ASSUME NEW m \in Bitmap, NEW b \in Blk, NEW p \in Page,
           NEW O \in SUBSET Obj, NEW s \in {"USED", "DEAD"}
    PROVE  \A c \in Blk, q \in Page, o \in Obj :
             IsFree(SetObjState(m, b, p, O, s), c, q, o)
               <=> IsFree(m, c, q, o) /\ ~(c = b /\ q = p /\ o \in O)
<1> DEFINE r == SetObjState(m, b, p, O, s)
<1>1. Marks(r, m, b, p, O, s)
  BY SetObjStateEffect DEF ObjState
<1> HIDE DEF r
<1>2. \A c \in Blk, q \in Page, o \in Obj :
         IsFree(r, c, q, o) <=> IsFree(m, c, q, o) /\ ~(c = b /\ q = p /\ o \in O)
  BY <1>1 DEF Marks, IsFree
<1> QED BY <1>2 DEF r

\* After the last slot of the last page: if every block is all free or all
\* taken, the next active block is a free one, or there is none.
LEMMA FindNextActBlkIsFree ==
    ASSUME NEW m \in Bitmap, Levels(m), NEW last \in Blk,
           \A b \in Blk :
             \/ \A p \in Page, o \in Obj : IsFree(m, b, p, o)
             \/ \A p \in Page, o \in Obj : ~IsFree(m, b, p, o)
    PROVE  LET a == FindNextActBlk(m, last, 0) IN
           /\ a.blk \in Blk /\ a.page = 0 /\ a.obj = 0
           /\ \/ \A p \in Page, o \in Obj : IsFree(m, a.blk, p, o)
              \/ \A b \in Blk, p \in Page, o \in Obj : ~IsFree(m, b, p, o)
<1> DEFINE open(b)   == {p \in Page : m.page[b][p] # "EMPT"}
           candidate == {b \in Blk : m.blk[b] # "FULL"}
           touched   == {b \in candidate : open(b) # {}}
           free      == {b \in Blk : \A p \in Page, o \in Obj : IsFree(m, b, p, o)}
           a == FindNextActBlk(m, last, 0)
<1>1. 0 \in Page /\ 0 \in Obj
  BY Geometry DEF Page, Obj
<1>2. \A b \in free : m.blk[b] = "EMPT" /\ open(b) = {}
  <2> TAKE b \in free
  <2>1. \A p \in Page : m.page[b][p] = "EMPT"
    BY DEF Levels, IsFree
  <2> QED BY <2>1 DEF Levels
<1>3. \A b \in Blk \ free : m.blk[b] = "FULL"
  <2> TAKE b \in Blk \ free
  <2>1. \A p \in Page, o \in Obj : ~IsFree(m, b, p, o)
    OBVIOUS
  <2>2. \A p \in Page : m.page[b][p] = "FULL"
    BY <1>1, <2>1 DEF Levels, IsFree
  <2> QED BY <1>1, <2>2 DEF Levels
<1>4. candidate = free
  BY <1>2, <1>3
<1>5. touched = {}
  BY <1>2, <1>4
<1>6. candidate # {} => LastVisited(last, candidate) \in candidate
  <2>1. candidate \in SUBSET Blk
    OBVIOUS
  <2> HIDE DEF candidate
  <2> QED BY <2>1, LastVisitedExists
<1>7. /\ a.blk = IF candidate = {} THEN last ELSE LastVisited(last, candidate)
      /\ a.page = IF touched = {} THEN 0
                  ELSE LastPage(open(LastVisited(last, touched)))
      /\ a.obj = 0
  BY DEF FindNextActBlk
<1> HIDE DEF candidate, touched, a
<1>8. CASE candidate = {}
  <2>1. \A b \in Blk, p \in Page, o \in Obj : ~IsFree(m, b, p, o)
    BY <1>4, <1>8
  <2> QED BY <1>5, <1>7, <1>8, <2>1 DEF a
<1>9. CASE candidate # {}
  <2>1. a.blk \in free
    BY <1>4, <1>6, <1>7, <1>9
  <2> QED BY <1>5, <1>7, <2>1 DEF a
<1> QED BY <1>8, <1>9

\* Taking n slots from the active one on, programming the page when it is
\* used up, and advancing by n keeps the shape of the log.
LEMMA AdvanceKeepsShape ==
    ASSUME TypeOK, TypeOK', LevelsExact', LogShape, ~Exhausted, ~Exhausted',
           NEW n \in Nat \ {0}, obj_act + n <= obj_nr_per_page,
           \A b \in Blk, p \in Page, o \in Obj :
             IsFree(map', b, p, o) <=>
               IsFree(map, b, p, o)
                 /\ ~(b = blk_act /\ p = page_act /\ o \in obj_act .. obj_act + n - 1),
           SetAct(ActAddrAdd(map', n)),
           \A b \in Blk, p \in Page :
             Programmed(b, p)' <=>
               \/ Programmed(b, p)
               \/ b = blk_act /\ p = page_act /\ obj_act + n = obj_nr_per_page
    PROVE  LogShape'
<1> USE Geometry
<1>1. /\ blk_act \in Blk /\ page_act \in Page /\ obj_act \in Obj
      /\ 0 \in Page /\ 0 \in Obj
  BY DEF TypeOK, Page, Obj
<1> PICK last \in Blk : last = blk_act
  BY <1>1
<1>2. /\ \A p \in Page, o \in Obj : IsFree(map, blk_act, p, o) <=> Ahead(p, o)
      /\ \A p \in Page : Programmed(blk_act, p) <=> p < page_act
      /\ \A b \in Blk \ {blk_act} : Blank(b) \/ Sealed(b)
  BY DEF LogShape, IsFree
<1>3. ASSUME NEW b \in Blk \ {blk_act}
      PROVE  /\ \/ \A p \in Page, o \in Obj : IsFree(map', b, p, o)
                \/ \A p \in Page, o \in Obj : ~IsFree(map', b, p, o)
             /\ Blank(b)' \/ Sealed(b)'
             /\ (\A p \in Page, o \in Obj : IsFree(map', b, p, o)) => Blank(b)'
  <2>1. CASE Blank(b)
    <3>1. \A p \in Page : /\ \A o \in Obj : IsFree(map', b, p, o)
                          /\ ~Programmed(b, p)'
      BY <2>1 DEF Blank, AllFree, IsFree
    <3>2. Blank(b)'
      BY <3>1 DEF Blank, AllFree, IsFree
    <3> QED BY <3>1, <3>2
  <2>2. CASE Sealed(b)
    <3>1. \A p \in Page : /\ \A o \in Obj : ~IsFree(map', b, p, o)
                          /\ Programmed(b, p)'
      BY <2>2 DEF Sealed, NoneFree, IsFree
    <3>2. Sealed(b)'
      BY <3>1 DEF Sealed, NoneFree, IsFree
    <3> QED BY <1>1, <3>1, <3>2
  <2> QED BY <1>2, <2>1, <2>2
<1>4. CASE obj_act + n < obj_nr_per_page
  <2>1. blk_act' = blk_act /\ page_act' = page_act /\ obj_act' = obj_act + n
    BY <1>4 DEF ActAddrAdd, SetAct
  <2>2. \A p \in Page, o \in Obj : IsFree(map', blk_act, p, o) <=> Ahead(p, o)'
    BY <1>1, <1>2, <2>1 DEF Ahead, TypeOK, Page, Obj
  <2>3. \A p \in Page : Programmed(last, p)' <=> p < page_act
    BY <1>1, <1>2, <1>4 DEF Obj
  <2> QED BY <1>3, <2>1, <2>2, <2>3 DEF LogShape, IsFree
<1>5. CASE obj_act + n = obj_nr_per_page /\ page_act + 1 < npages
  <2>1. blk_act' = blk_act /\ page_act' = page_act + 1 /\ obj_act' = 0
    BY <1>5 DEF ActAddrAdd, SetAct
  <2>2. \A p \in Page, o \in Obj : IsFree(map', blk_act, p, o) <=> Ahead(p, o)'
    BY <1>1, <1>2, <1>5, <2>1 DEF Ahead, TypeOK, Page, Obj
  <2>3. \A p \in Page : Programmed(last, p)' <=> p < page_act'
    BY <1>1, <1>2, <1>5, <2>1 DEF Page
  <2> QED BY <1>3, <2>1, <2>2, <2>3 DEF LogShape, IsFree
<1>6. CASE obj_act + n = obj_nr_per_page /\ ~(page_act + 1 < npages)
  <2> DEFINE a == FindNextActBlk(map', blk_act, 0)
  <2>1. blk_act' = a.blk /\ page_act' = a.page /\ obj_act' = a.obj
    BY <1>6 DEF ActAddrAdd, SetAct
  <2>2. \A p \in Page, o \in Obj : ~IsFree(map', last, p, o)
    BY <1>1, <1>2, <1>6 DEF Ahead, Page, Obj
  <2>3. \A p \in Page : Programmed(last, p)'
    BY <1>1, <1>2, <1>6 DEF Page
  <2>4. \A b \in Blk : \/ \A p \in Page, o \in Obj : IsFree(map', b, p, o)
                      \/ \A p \in Page, o \in Obj : ~IsFree(map', b, p, o)
    BY <1>3, <2>2
  <2>5. map' \in Bitmap /\ Levels(map')
    BY DEF TypeOK, LevelsExact, Levels, AllFree, NoneFree
  <2>6. /\ a.blk \in Blk /\ a.page = 0 /\ a.obj = 0
        /\ \/ \A p \in Page, o \in Obj : IsFree(map', a.blk, p, o)
           \/ \A b \in Blk, p \in Page, o \in Obj : ~IsFree(map', b, p, o)
    BY <1>1, <2>4, <2>5, FindNextActBlkIsFree
  <2> HIDE DEF a
  <2> PICK next \in Blk : next = a.blk
    BY <2>6
  <2>7. \A p \in Page, o \in Obj : IsFree(map', next, p, o)
    BY <2>6 DEF Exhausted, IsFree
  <2>8. next # last
    BY <1>1, <2>2, <2>7
  <2>9. Blank(next)'
    BY <1>3, <2>7, <2>8
  <2>10. Sealed(last)'
    BY <2>2, <2>3 DEF Sealed, NoneFree, IsFree
  <2>11. \A p \in Page, o \in Obj : Ahead(p, o)'
    BY <2>1, <2>6 DEF Ahead, Page, Obj
  <2>12. \A p \in Page : ~Programmed(next, p)' /\ ~(p < page_act')
    BY <2>1, <2>6, <2>9 DEF Blank, Page
  <2>13. \A b \in Blk \ {next} : Blank(b)' \/ Sealed(b)'
    BY <1>3, <2>10
  <2> QED BY <2>1, <2>6, <2>7, <2>11, <2>12, <2>13 DEF LogShape, IsFree
<1>7. obj_act + n < obj_nr_per_page \/ obj_act + n = obj_nr_per_page
  BY <1>1 DEF Obj
<1> QED BY <1>4, <1>5, <1>6, <1>7

(***************************************************************************)
(* The operations preserve the invariant.                                  *)
(***************************************************************************)
IInv == TypeOK /\ LevelsExact /\ LogShape /\ LiveSlots

LEMMA KillSlotLevels ==
    ASSUME TypeOK, LevelsExact, NEW id \in Id
    PROVE  Levels(KillSlot(id))
<1>1. map \in Bitmap /\ Levels(map)
  BY LevelsExactIsLevels DEF TypeOK
<1>2. nat[id].blk \in Blk /\ nat[id].page \in Page /\ {nat[id].obj} \in SUBSET Obj
  BY DEF TypeOK, NatEntry
<1>3. \A b \in Blk, p \in Page, O \in SUBSET Obj :
         Levels(SetObjState(map, b, p, O, "DEAD"))
  BY <1>1, SetObjStateLevels
<1> QED BY <1>1, <1>2, <1>3 DEF KillSlot

\* Killing a slot frees nothing, whatever the NAT says.
LEMMA KillSlotFreesNothing ==
    ASSUME TypeOK, NEW id \in Id
    PROVE  \A b \in Blk, p \in Page, o \in Obj :
             IsFree(KillSlot(id), b, p, o) => IsFree(map, b, p, o)
<1>1. map \in Bitmap
  BY DEF TypeOK
<1>2. nat[id].blk \in Blk /\ nat[id].page \in Page /\ {nat[id].obj} \in SUBSET Obj
  BY DEF TypeOK, NatEntry
<1>3. \A b \in Blk, p \in Page, O \in SUBSET Obj :
         \A c \in Blk, q \in Page, o \in Obj :
            IsFree(SetObjState(map, b, p, O, "DEAD"), c, q, o) => IsFree(map, c, q, o)
  BY <1>1, SetObjStateFree
<1> QED BY <1>2, <1>3 DEF KillSlot

\* Killing the slot of an object kills no other slot.
LEMMA KillSlotEffect ==
    ASSUME TypeOK, LiveSlots, ~Exhausted, NEW id \in Id
    PROVE  \A b \in Blk, p \in Page, o \in Obj :
             /\ IsFree(KillSlot(id), b, p, o) <=> IsFree(map, b, p, o)
             /\ KillSlot(id).obj[b][p][o] = "USED" <=>
                  map.obj[b][p][o] = "USED" /\ ~HasSlot(id, b, p, o)
<1>1. CASE nat[id].state # "WRIT"
  BY <1>1 DEF KillSlot, HasSlot
<1>2. CASE nat[id].state = "WRIT"
  <2>1. PICK b \in Blk, p \in Page, o \in Obj : HasSlot(id, b, p, o)
    BY <1>2 DEF HasSlot, TypeOK, NatEntry
  <2>2. map.obj[b][p][o] = "USED"
    BY <2>1 DEF LiveSlots
  <2> DEFINE r == SetObjState(map, b, p, {o}, "DEAD")
  <2>3. KillSlot(id) = r
    BY <2>1 DEF KillSlot, HasSlot
  <2>4. map \in Bitmap /\ {o} \in SUBSET Obj
    BY DEF TypeOK
  <2>5. Marks(r, map, b, p, {o}, "DEAD")
    BY <2>4, SetObjStateEffect DEF ObjState
  <2> HIDE DEF r
  <2>6. \A c \in Blk, q \in Page, x \in Obj :
           r.obj[c][q][x] = IF c = b /\ q = p /\ x = o THEN "DEAD"
                            ELSE map.obj[c][q][x]
    BY <2>5 DEF Marks
  <2> QED BY <2>1, <2>2, <2>3, <2>6 DEF IsFree, HasSlot
<1> QED BY <1>1, <1>2

\* The device programs an erased page.
LEMMA ProgramErased ==
    ASSUME TypeOK, NEW b \in Blk, NEW p \in Page, NEW c \in PageContent,
           c # Erased, ~Programmed(b, p), Program(b, p, c)
    PROVE  \A bb \in Blk, pp \in Page :
             /\ media'[bb][pp] = IF bb = b /\ pp = p THEN c ELSE media[bb][pp]
             /\ Programmed(bb, pp)' <=> Programmed(bb, pp) \/ (bb = b /\ pp = p)
<1>1. media' = [media EXCEPT ![b] = [media[b] EXCEPT ![p] = c]]
  BY DEF Program
<1>2. \A bb \in Blk, pp \in Page :
         media'[bb][pp] = IF bb = b /\ pp = p THEN c ELSE media[bb][pp]
  BY <1>1 DEF TypeOK
<1>3. \A bb \in Blk, pp \in Page :
         Programmed(bb, pp)' <=> Programmed(bb, pp) \/ (bb = b /\ pp = p)
  BY <1>2 DEF Programmed
<1> QED BY <1>2, <1>3

LEMMA InitInv == Init => IInv
<1> SUFFICES ASSUME Init PROVE IInv
  OBVIOUS
<1>1. TypeOK
  BY InitType
<1>2. 0 \in Blk /\ 0 \in Page /\ 0 \in Obj
  BY Geometry DEF Blk, Page, Obj
<1>3. LevelsExact
  BY <1>2 DEF Init, LevelsExact, AllFree, NoneFree
<1>4. \A b \in Blk : Blank(b)
  BY DEF Init, Blank, AllFree, Programmed
<1>5. page_act = 0 /\ obj_act = 0
  <2>1. map \in Bitmap /\ Levels(map)
    BY <1>1, <1>3, LevelsExactIsLevels DEF TypeOK
  <2>2. \A b \in Blk, p \in Page, o \in Obj : IsFree(map, b, p, o)
    BY <1>4 DEF Blank, AllFree, IsFree
  <2> QED BY <1>2, <2>1, <2>2, FindNextActBlkIsFree DEF Init
<1>6. LogShape
  <2>1. blk_act \in Blk
    BY <1>1 DEF TypeOK
  <2> QED BY <1>4, <1>5, <2>1 DEF LogShape, Ahead, Blank, AllFree, Page, Obj
<1>7. LiveSlots
  <2>1. \A b \in Blk, p \in Page, o \in Obj : map.obj[b][p][o] = "FREE"
    BY <1>4 DEF Blank, AllFree
  <2>2. \A id \in Id : nat[id].state # "WRIT"
    BY DEF Init
  <2> QED BY <2>1, <2>2 DEF LiveSlots, HasSlot
<1> QED BY <1>1, <1>3, <1>6, <1>7 DEF IInv

LEMMA AllocInv ==
    ASSUME IInv, TypeOK', NEW id \in Id, AllocObj(id)
    PROVE  IInv'
<1>1. UNCHANGED <<map, blk_act, page_act, obj_act, media>>
  BY DEF AllocObj, act
<1>2. LevelsExact' /\ LogShape'
  BY <1>1 DEF IInv, LevelsExact, LogShape, AllFree, NoneFree, Ahead, Blank, Sealed,
              Programmed, Exhausted
<1>3. \A j \in Id, b \in Blk, p \in Page, o \in Obj :
         HasSlot(j, b, p, o)' <=> HasSlot(j, b, p, o)
  BY DEF IInv, TypeOK, NatEntry, AllocObj, HasSlot
<1>4. LiveSlots'
  BY <1>1, <1>3 DEF IInv, LiveSlots, Exhausted
<1> QED BY <1>2, <1>4 DEF IInv

LEMMA DeAllocInv ==
    ASSUME IInv, TypeOK', NEW id \in Id, DeAllocObj(id)
    PROVE  IInv'
<1>1. UNCHANGED <<blk_act, page_act, obj_act, media>> /\ map' = KillSlot(id)
  BY DEF DeAllocObj, act
<1>2. LevelsExact'
  <2>1. Levels(map')
    BY <1>1, KillSlotLevels DEF IInv
  <2> QED BY <2>1 DEF LevelsExact, Levels, AllFree, NoneFree
<1>3. ASSUME ~Exhausted PROVE LogShape' /\ LiveSlots'
  <2>1. \A b \in Blk, p \in Page, o \in Obj :
           /\ IsFree(map', b, p, o) <=> IsFree(map, b, p, o)
           /\ map'.obj[b][p][o] = "USED" <=>
                map.obj[b][p][o] = "USED" /\ ~HasSlot(id, b, p, o)
    BY <1>1, <1>3, KillSlotEffect DEF IInv
  <2>2. LogShape'
    <3>1. blk_act \in Blk
      BY DEF IInv, TypeOK
    <3>2. \A b \in Blk : (Blank(b) <=> Blank(b)') /\ (Sealed(b) <=> Sealed(b)')
      BY <1>1, <2>1 DEF Blank, Sealed, AllFree, NoneFree, Programmed, IsFree
    <3> QED BY <1>1, <1>3, <2>1, <3>1, <3>2
            DEF IInv, LogShape, Ahead, Programmed, IsFree
  <2>3. \A j \in Id, b \in Blk, p \in Page, o \in Obj :
           HasSlot(j, b, p, o)' <=> HasSlot(j, b, p, o) /\ j # id
    BY DEF IInv, TypeOK, NatEntry, DeAllocObj, HasSlot
  <2>4. LiveSlots'
    BY <1>3, <2>1, <2>3 DEF IInv, LiveSlots
  <2> QED BY <2>2, <2>4
<1>4. ASSUME Exhausted PROVE Exhausted'
  BY <1>1, <1>4, KillSlotFreesNothing DEF IInv, Exhausted, IsFree
<1>5. LogShape' /\ LiveSlots'
  BY <1>3, <1>4 DEF LogShape, LiveSlots
<1> QED BY <1>2, <1>5 DEF IInv
LEMMA WriteInv ==
    ASSUME IInv, TypeOK', NEW id \in Id, NEW v \in Value, WriteByObjId(id, v)
    PROVE  IInv'
<1> DEFINE k == KillSlot(id)
           r == SetObjState(k, blk_act, page_act, {obj_act}, "USED")
<1>1. /\ blk_act \in Blk /\ page_act \in Page /\ obj_act \in Obj
      /\ k \in Bitmap /\ Levels(k) /\ {obj_act} \in SUBSET Obj
  BY KillSlotType, KillSlotLevels DEF IInv, TypeOK
<1>2. map' = r
  BY DEF WriteByObjId
<1> HIDE DEF k
<1>3. Marks(r, k, blk_act, page_act, {obj_act}, "USED") /\ Levels(r)
  BY <1>1, SetObjStateEffect, SetObjStateLevels DEF ObjState
<1>4. \A b \in Blk, p \in Page, o \in Obj :
         IsFree(map', b, p, o) <=>
           IsFree(k, b, p, o) /\ ~(b = blk_act /\ p = page_act /\ o = obj_act)
  BY <1>1, <1>2, SetObjStateFree
<1> HIDE DEF r
<1>5. LevelsExact'
  BY <1>2, <1>3 DEF LevelsExact, Levels, AllFree, NoneFree
<1>6. Exhausted => Exhausted'
  BY <1>4, KillSlotFreesNothing DEF IInv, Exhausted, IsFree, k
<1>7. ASSUME ~Exhausted, ~Exhausted'
      PROVE  LogShape' /\ LiveSlots'
  <2>1. \A b \in Blk, p \in Page, o \in Obj :
           /\ IsFree(k, b, p, o) <=> IsFree(map, b, p, o)
           /\ k.obj[b][p][o] = "USED" <=>
                map.obj[b][p][o] = "USED" /\ ~HasSlot(id, b, p, o)
    BY <1>7, KillSlotEffect DEF IInv, k
  <2>2. \A b \in Blk, p \in Page, o \in Obj :
           map'.obj[b][p][o] = "USED" <=>
             \/ b = blk_act /\ p = page_act /\ o = obj_act
             \/ map.obj[b][p][o] = "USED" /\ ~HasSlot(id, b, p, o)
    BY <1>1, <1>2, <1>3, <2>1 DEF Marks
  <2>3. ~Programmed(blk_act, page_act) /\ IsFree(map, blk_act, page_act, obj_act)
    BY <1>1, <1>7 DEF IInv, LogShape, Ahead, IsFree, Page, Obj
  <2>4. \A b \in Blk, p \in Page :
           Programmed(b, p)' <=>
             \/ Programmed(b, p)
             \/ b = blk_act /\ p = page_act /\ obj_act + 1 = obj_nr_per_page
    <3>1. w_buf' \in PageContent /\ w_buf' # Erased
      <4>1. w_buf'[obj_act] = [id |-> id, val |-> v]
        BY <1>1 DEF IInv, TypeOK, WriteByObjId, PageContent
      <4>2. w_buf'[obj_act] # Raw
        BY <4>1 DEF Raw, Id
      <4> QED BY <1>1, <4>2 DEF TypeOK, Erased
    <3>2. CASE ActAddrAdd(map', 1).obj = 0
      <4>1. Program(blk_act, page_act, w_buf')
        BY <3>2 DEF WriteByObjId
      <4>2. obj_act + 1 = obj_nr_per_page
        BY <1>1, <3>2, Geometry DEF ActAddrAdd, Obj
      <4> QED BY <1>1, <2>3, <3>1, <4>1, <4>2, ProgramErased DEF IInv
    <3>3. CASE ActAddrAdd(map', 1).obj # 0
      <4>1. UNCHANGED media
        BY <3>3 DEF WriteByObjId
      <4>2. obj_act + 1 # obj_nr_per_page
        BY <1>1, <3>3, Geometry DEF ActAddrAdd, FindNextActBlk, Obj
      <4> QED BY <4>1, <4>2 DEF Programmed
    <3> QED BY <3>2, <3>3
  <2>5. LogShape'
    <3>1. \A b \in Blk, p \in Page, o \in Obj :
             IsFree(map', b, p, o) <=>
               IsFree(map, b, p, o)
                 /\ ~(b = blk_act /\ p = page_act /\ o \in obj_act .. obj_act + 1 - 1)
      BY <1>1, <1>4, <2>1 DEF Obj
    <3>2. obj_act + 1 <= obj_nr_per_page /\ SetAct(ActAddrAdd(map', 1))
      BY <1>1, Geometry DEF WriteByObjId, Obj
    <3> QED BY <1>5, <1>7, <2>4, <3>1, <3>2, AdvanceKeepsShape DEF IInv
  <2>6. \A j \in Id, b \in Blk, p \in Page, o \in Obj :
           HasSlot(j, b, p, o)' <=>
             IF j = id THEN b = blk_act /\ p = page_act /\ o = obj_act
             ELSE HasSlot(j, b, p, o)
    BY DEF IInv, TypeOK, NatEntry, WriteByObjId, HasSlot
  <2>7. \A j \in Id : ~HasSlot(j, blk_act, page_act, obj_act)
    BY <1>1, <1>7, <2>3 DEF IInv, LiveSlots, IsFree
  <2>8. LiveSlots'
    BY <1>7, <2>2, <2>6, <2>7 DEF IInv, LiveSlots
  <2> QED BY <2>5, <2>8
<1>8. LogShape' /\ LiveSlots'
  BY <1>6, <1>7 DEF LogShape, LiveSlots
<1> QED BY <1>5, <1>8 DEF IInv

LEMMA FlushInv ==
    ASSUME IInv, TypeOK', Flush
    PROVE  IInv'
<1>1. CASE obj_act = 0
  <2>1. UNCHANGED <<nat, map, blk_act, page_act, obj_act, media>>
    BY <1>1 DEF Flush, act
  <2> QED BY <2>1 DEF IInv, LevelsExact, LogShape, LiveSlots, HasSlot, AllFree, NoneFree,
                      Ahead, Blank, Sealed, Programmed, Exhausted
<1>2. CASE obj_act # 0
  <2> DEFINE rest == obj_act .. obj_nr_per_page - 1
             n == obj_nr_per_page - obj_act
             r == SetObjState(map, blk_act, page_act, rest, "DEAD")
  <2>1. /\ blk_act \in Blk /\ page_act \in Page /\ obj_act \in Obj
        /\ map \in Bitmap /\ Levels(map) /\ rest \in SUBSET Obj
        /\ n \in Nat \ {0} /\ obj_act + n = obj_nr_per_page
        /\ obj_act .. obj_act + n - 1 = rest
    BY Geometry, LevelsExactIsLevels DEF IInv, TypeOK, Obj
  <2>2. /\ map' = r
        /\ w_buf' = [o \in Obj |-> IF o \in rest THEN Zero ELSE w_buf[o]]
        /\ Program(blk_act, page_act, w_buf')
        /\ SetAct(ActAddrAdd(map', n))
        /\ UNCHANGED nat
    BY <1>2 DEF Flush
  <2> HIDE DEF rest, n
  <2>3. Marks(r, map, blk_act, page_act, rest, "DEAD") /\ Levels(r)
    BY <2>1, SetObjStateEffect, SetObjStateLevels DEF ObjState
  <2>4. \A b \in Blk, p \in Page, o \in Obj :
           IsFree(map', b, p, o) <=>
             IsFree(map, b, p, o) /\ ~(b = blk_act /\ p = page_act /\ o \in rest)
    BY <2>1, <2>2, SetObjStateFree
  <2> HIDE DEF r
  <2>5. LevelsExact'
    BY <2>2, <2>3 DEF LevelsExact, Levels, AllFree, NoneFree
  <2>6. ASSUME ~Exhausted, ~Exhausted'
        PROVE  LogShape' /\ LiveSlots'
    <3>1. /\ ~Programmed(blk_act, page_act)
          /\ \A o \in rest : IsFree(map, blk_act, page_act, o)
      BY <2>1, <2>6 DEF IInv, LogShape, Ahead, IsFree, Page, Obj, rest
    <3>2. w_buf' \in PageContent /\ w_buf' # Erased
      <4>1. obj_act \in rest
        BY <2>1 DEF rest, Obj
      <4>2. Zero # Raw
        BY Distinct DEF Zero, Raw
      <4>3. w_buf'[obj_act] # Raw
        BY <2>1, <2>2, <4>1, <4>2
      <4> QED BY <2>1, <4>3 DEF TypeOK, Erased
    <3>3. \A b \in Blk, p \in Page :
             Programmed(b, p)' <=> Programmed(b, p) \/ (b = blk_act /\ p = page_act)
      BY <2>1, <2>2, <3>1, <3>2, ProgramErased DEF IInv
    <3>4. LogShape'
      <4>1. \A b \in Blk, p \in Page, o \in Obj :
               IsFree(map', b, p, o) <=>
                 IsFree(map, b, p, o)
                   /\ ~(b = blk_act /\ p = page_act /\ o \in obj_act .. obj_act + n - 1)
        BY <2>1, <2>4
      <4>2. \A b \in Blk, p \in Page :
               Programmed(b, p)' <=>
                 \/ Programmed(b, p)
                 \/ b = blk_act /\ p = page_act /\ obj_act + n = obj_nr_per_page
        BY <2>1, <3>3
      <4>3. obj_act + n <= obj_nr_per_page
        BY <2>1, Geometry
      <4> QED BY <2>1, <2>2, <2>5, <2>6, <4>1, <4>2, <4>3, AdvanceKeepsShape DEF IInv
    <3>5. \A b \in Blk, p \in Page, o \in Obj :
             map'.obj[b][p][o] = "USED" <=> map.obj[b][p][o] = "USED"
      BY <2>1, <2>2, <2>3, <3>1 DEF Marks, IsFree
    <3>6. LiveSlots'
      BY <2>2, <2>6, <3>5 DEF IInv, LiveSlots, HasSlot
    <3> QED BY <3>4, <3>6
  <2>7. Exhausted => Exhausted'
    BY <2>4 DEF Exhausted, IsFree
  <2>8. LogShape' /\ LiveSlots'
    BY <2>6, <2>7 DEF LogShape, LiveSlots
  <2> QED BY <2>5, <2>8 DEF IInv
<1> QED BY <1>1, <1>2

LEMMA InvPreserved == IInv /\ TypeOK' /\ [Next]_vars => IInv'
<1> SUFFICES ASSUME IInv, TypeOK', [Next]_vars PROVE IInv'
  OBVIOUS
<1>1. CASE UNCHANGED vars
  BY <1>1 DEF IInv, LevelsExact, LogShape, LiveSlots, HasSlot, AllFree, NoneFree,
              Ahead, Blank, Sealed, Programmed, Exhausted, vars, act
<1> QED BY <1>1, AllocInv, DeAllocInv, WriteInv, FlushInv DEF Next

\* The log's invariant holds in every state (alloc_obj, de_alloc_obj,
\* write_by_obj_id, flush).
THEOREM Invariant == Spec => []IInv
BY TypeCorrect, InitInv, InvPreserved, PTL DEF Spec

\* The levels of the bitmap agree in every reachable state, exhausted or not.
THEOREM LevelsTheorem == Spec => []LevelsAgree
<1>1. IInv => LevelsAgree
  BY ExactLevelsAgree DEF IInv
<1> QED BY <1>1, Invariant, PTL

\* Until the area is exhausted the log has one open end.
THEOREM LogShapeTheorem == Spec => []LogShape
BY Invariant, PTL DEF IInv

\* Until the area is exhausted the USED slots are the NAT's, one id each.
THEOREM LiveSlotsTheorem == Spec => []LiveSlots
BY Invariant, PTL DEF IInv

(***************************************************************************)
(* What a step may not do.                                                 *)
(***************************************************************************)
LEMMA OnlyActivePageIsProgrammed ==
    ASSUME TypeOK, [Next]_vars
    PROVE  \A b \in Blk, p \in Page :
             media'[b][p] # media[b][p] => b = blk_act /\ p = page_act
<1>1. blk_act \in Blk /\ page_act \in Page /\ media \in [Blk -> [Page -> PageContent]]
  BY DEF TypeOK
<1>2. ASSUME NEW c, Program(blk_act, page_act, c)
      PROVE  \A b \in Blk, p \in Page :
               media'[b][p] # media[b][p] => b = blk_act /\ p = page_act
  BY <1>1, <1>2 DEF Program
<1>3. ASSUME NEW id \in Id, AllocObj(id) \/ DeAllocObj(id) PROVE UNCHANGED media
  BY <1>3 DEF AllocObj, DeAllocObj
<1>4. ASSUME NEW id \in Id, NEW v \in Value, WriteByObjId(id, v)
      PROVE  Program(blk_act, page_act, w_buf') \/ UNCHANGED media
  BY <1>4 DEF WriteByObjId
<1>5. ASSUME Flush
      PROVE  Program(blk_act, page_act, w_buf') \/ UNCHANGED media
  BY <1>5 DEF Flush
<1>6. UNCHANGED vars => UNCHANGED media
  BY DEF vars
<1> QED BY <1>2, <1>3, <1>4, <1>5, <1>6 DEF Next

\* Until the area is exhausted no page is programmed twice, and the pages of
\* a block are programmed in order.
THEOREM ProgramInOrderTheorem == Spec => ProgramInOrder
<1> DEFINE A == ~Exhausted =>
                  \A b \in Blk, p \in Page :
                    media'[b][p] # media[b][p] =>
                      /\ ~Programmed(b, p)
                      /\ \A q \in Page : q < p => Programmed(b, q)
<1>1. IInv /\ [Next]_vars => A
  <2> SUFFICES ASSUME IInv, [Next]_vars, ~Exhausted,
                      NEW b \in Blk, NEW p \in Page, media'[b][p] # media[b][p]
               PROVE  /\ ~Programmed(b, p)
                      /\ \A q \in Page : q < p => Programmed(b, q)
    OBVIOUS
  <2>1. b = blk_act /\ p = page_act
    BY OnlyActivePageIsProgrammed DEF IInv
  <2>2. \A q \in Page : Programmed(blk_act, q) <=> q < page_act
    BY DEF IInv, LogShape
  <2> QED BY <2>1, <2>2 DEF Page
<1> HIDE DEF A
<1>2. IInv /\ [Next]_vars => [A]_vars
  BY <1>1
<1>3. Spec => [][A]_vars
  BY Invariant, <1>2, PTL DEF Spec
<1> QED BY <1>3 DEF A, ProgramInOrder

LEMMA StepFreesNothing ==
    ASSUME TypeOK, [Next]_vars
    PROVE  \A b \in Blk, p \in Page, o \in Obj :
             IsFree(map', b, p, o) => IsFree(map, b, p, o)
<1>1. ASSUME NEW id \in Id, AllocObj(id) PROVE UNCHANGED map
  BY <1>1 DEF AllocObj
<1>2. ASSUME NEW id \in Id, DeAllocObj(id)
      PROVE  \A b \in Blk, p \in Page, o \in Obj :
               IsFree(map', b, p, o) => IsFree(map, b, p, o)
  BY <1>2, KillSlotFreesNothing DEF DeAllocObj
<1>3. ASSUME NEW id \in Id, NEW v \in Value, WriteByObjId(id, v)
      PROVE  \A b \in Blk, p \in Page, o \in Obj :
               IsFree(map', b, p, o) => IsFree(map, b, p, o)
  <2>1. /\ KillSlot(id) \in Bitmap /\ blk_act \in Blk /\ page_act \in Page
        /\ {obj_act} \in SUBSET Obj
    BY KillSlotType DEF TypeOK
  <2>2. \A b \in Blk, p \in Page, o \in Obj :
           IsFree(SetObjState(KillSlot(id), blk_act, page_act, {obj_act}, "USED"), b, p, o)
             => IsFree(KillSlot(id), b, p, o)
    BY <2>1, SetObjStateFree
  <2> QED BY <1>3, <2>2, KillSlotFreesNothing DEF WriteByObjId
<1>4. ASSUME Flush
      PROVE  \A b \in Blk, p \in Page, o \in Obj :
               IsFree(map', b, p, o) => IsFree(map, b, p, o)
  <2> DEFINE rest == obj_act .. obj_nr_per_page - 1
  <2>1. /\ map \in Bitmap /\ blk_act \in Blk /\ page_act \in Page
        /\ rest \in SUBSET Obj
    BY Geometry DEF TypeOK, Obj
  <2>2. map' = map \/ map' = SetObjState(map, blk_act, page_act, rest, "DEAD")
    BY <1>4 DEF Flush
  <2> HIDE DEF rest
  <2>3. \A b \in Blk, p \in Page, o \in Obj :
           IsFree(SetObjState(map, blk_act, page_act, rest, "DEAD"), b, p, o)
             => IsFree(map, b, p, o)
    BY <2>1, SetObjStateFree
  <2> QED BY <2>2, <2>3
<1>5. UNCHANGED vars => UNCHANGED map
  BY DEF vars
<1> QED BY <1>1, <1>2, <1>3, <1>4, <1>5 DEF Next

\* An exhausted area stays exhausted, whatever is deleted.
THEOREM ExhaustionTheorem == Spec => ExhaustionIsFinal
<1> DEFINE A == Exhausted => Exhausted'
<1>1. TypeOK /\ [Next]_vars => A
  BY StepFreesNothing DEF Exhausted, IsFree
<1> HIDE DEF A
<1>2. TypeOK /\ [Next]_vars => [A]_vars
  BY <1>1
<1>3. Spec => [][A]_vars
  BY TypeCorrect, <1>2, PTL DEF Spec
<1> QED BY <1>3 DEF A, ExhaustionIsFinal

(***************************************************************************)
(* The life of a slot.                                                     *)
(***************************************************************************)

\* The ways of a slot's state in one step.
Ageing(s, t) == s = t \/ <<s, t>> \in {<<"FREE", "USED">>, <<"FREE", "DEAD">>, <<"USED", "DEAD">>}

\* What each step does to the bitmap while there is room: the slot of an
\* object dies, FREE slots of the active page are taken, or both.
LEMMA StepAges ==
    ASSUME IInv, [Next]_vars, ~Exhausted
    PROVE  \A b \in Blk, p \in Page, o \in Obj :
             Ageing(map.obj[b][p][o], map'.obj[b][p][o])
<1>1. /\ blk_act \in Blk /\ page_act \in Page /\ obj_act \in Obj
      /\ map \in Bitmap
  BY DEF IInv, TypeOK
<1>2. \A b \in Blk, p \in Page, o \in Obj : map.obj[b][p][o] \in ObjState
  BY <1>1 DEF Bitmap
<1>3. \A o \in Obj : o >= obj_act => IsFree(map, blk_act, page_act, o)
  BY <1>1 DEF IInv, LogShape, Ahead, IsFree
<1>4. ASSUME NEW id \in Id, NEW b \in Blk, NEW p \in Page, NEW o \in Obj
      PROVE  Ageing(map.obj[b][p][o], KillSlot(id).obj[b][p][o])
  <2>1. KillSlot(id).obj[b][p][o] \in ObjState
    BY KillSlotType DEF IInv, Bitmap
  <2>2. /\ IsFree(KillSlot(id), b, p, o) <=> IsFree(map, b, p, o)
        /\ KillSlot(id).obj[b][p][o] = "USED" => map.obj[b][p][o] = "USED"
    BY KillSlotEffect DEF IInv
  <2> QED BY <1>2, <2>1, <2>2 DEF IsFree, ObjState, Ageing
<1>5. ASSUME NEW id \in Id, AllocObj(id)
      PROVE  \A b \in Blk, p \in Page, o \in Obj :
               Ageing(map.obj[b][p][o], map'.obj[b][p][o])
  BY <1>5 DEF AllocObj, Ageing
<1>6. ASSUME NEW id \in Id, DeAllocObj(id)
      PROVE  \A b \in Blk, p \in Page, o \in Obj :
               Ageing(map.obj[b][p][o], map'.obj[b][p][o])
  BY <1>4, <1>6 DEF DeAllocObj
<1>7. ASSUME NEW id \in Id, NEW v \in Value, WriteByObjId(id, v)
      PROVE  \A b \in Blk, p \in Page, o \in Obj :
               Ageing(map.obj[b][p][o], map'.obj[b][p][o])
  <2>1. /\ KillSlot(id) \in Bitmap /\ {obj_act} \in SUBSET Obj /\ "USED" \in ObjState
        /\ map' = SetObjState(KillSlot(id), blk_act, page_act, {obj_act}, "USED")
    BY <1>1, <1>7, KillSlotType DEF IInv, ObjState, WriteByObjId
  <2>2. Marks(map', KillSlot(id), blk_act, page_act, {obj_act}, "USED")
    BY <1>1, <2>1, SetObjStateEffect
  <2>3. IsFree(map, blk_act, page_act, obj_act)
    BY <1>1, <1>3 DEF Obj
  <2>4. ASSUME NEW b \in Blk, NEW p \in Page, NEW o \in Obj
        PROVE  Ageing(map.obj[b][p][o], map'.obj[b][p][o])
    <3>1. CASE b = blk_act /\ p = page_act /\ o = obj_act
      BY <2>2, <2>3, <3>1 DEF Marks, IsFree, Ageing
    <3>2. CASE ~(b = blk_act /\ p = page_act /\ o = obj_act)
      <4>1. map'.obj[b][p][o] = KillSlot(id).obj[b][p][o]
        BY <2>2, <3>2 DEF Marks
      <4> QED BY <1>4, <1>7, <4>1
    <3> QED BY <3>1, <3>2
  <2> QED BY <2>4
<1>8. ASSUME Flush
      PROVE  \A b \in Blk, p \in Page, o \in Obj :
               Ageing(map.obj[b][p][o], map'.obj[b][p][o])
  <2> DEFINE rest == obj_act .. obj_nr_per_page - 1
  <2>1. CASE obj_act = 0
    BY <1>8, <2>1 DEF Flush, Ageing
  <2>2. CASE obj_act # 0
    <3>1. rest \in SUBSET Obj /\ "DEAD" \in ObjState
      BY <1>1, Geometry DEF Obj, ObjState
    <3>2. map' = SetObjState(map, blk_act, page_act, rest, "DEAD")
      BY <1>8, <2>2 DEF Flush
    <3>3. \A o \in rest : IsFree(map, blk_act, page_act, o)
      BY <1>1, <1>3, Geometry DEF Obj
    <3> HIDE DEF rest
    <3>4. Marks(map', map, blk_act, page_act, rest, "DEAD")
      BY <1>1, <3>1, <3>2, SetObjStateEffect
    <3> QED BY <3>3, <3>4 DEF Marks, IsFree, Ageing
  <2> QED BY <2>1, <2>2
<1>9. CASE UNCHANGED vars
  BY <1>9 DEF vars, Ageing
<1> QED BY <1>5, <1>6, <1>7, <1>8, <1>9 DEF Next

\* Until the area is exhausted no step takes a slot back: FREE, USED, DEAD is
\* the only way, for every slot and every step.
THEOREM SlotLifecycleTheorem == Spec => SlotLifecycle
<1> DEFINE A == ~Exhausted =>
                  \A b \in Blk, p \in Page, o \in Obj :
                    <<map.obj[b][p][o], map'.obj[b][p][o]>> \in
                      {<<s, s>> : s \in ObjState} \cup
                      {<<"FREE", "USED">>, <<"FREE", "DEAD">>, <<"USED", "DEAD">>}
<1>1. IInv /\ [Next]_vars => A
  <2> SUFFICES ASSUME IInv, [Next]_vars, ~Exhausted,
                      NEW b \in Blk, NEW p \in Page, NEW o \in Obj
               PROVE  <<map.obj[b][p][o], map'.obj[b][p][o]>> \in
                        {<<s, s>> : s \in ObjState} \cup
                        {<<"FREE", "USED">>, <<"FREE", "DEAD">>, <<"USED", "DEAD">>}
    OBVIOUS
  <2>1. map.obj[b][p][o] \in ObjState
    BY DEF IInv, TypeOK, Bitmap
  <2>2. Ageing(map.obj[b][p][o], map'.obj[b][p][o])
    BY StepAges
  <2> QED BY <2>1, <2>2 DEF Ageing
<1> HIDE DEF A
<1>2. IInv /\ [Next]_vars => [A]_vars
  BY <1>1
<1>3. Spec => [][A]_vars
  BY Invariant, <1>2, PTL DEF Spec
<1> QED BY <1>3 DEF A, SlotLifecycle

(***************************************************************************)
(* What a flush has saved, and what the garbage counters count.            *)
(***************************************************************************)

\* While there is room no page that has been programmed is lost.
LEMMA ProgrammedStays ==
    ASSUME IInv, [Next]_vars, ~Exhausted, NEW b \in Blk, NEW p \in Page,
           Programmed(b, p)
    PROVE  Programmed(b, p)'
<1>1. /\ blk_act \in Blk /\ page_act \in Page
      /\ \A q \in Page : Programmed(blk_act, q) <=> q < page_act
  BY DEF IInv, LogShape, TypeOK
<1>2. ~(b = blk_act /\ p = page_act)
  BY <1>1 DEF Page
<1>3. media'[b][p] = media[b][p]
  BY <1>2, OnlyActivePageIsProgrammed DEF IInv
<1> QED BY <1>3 DEF Programmed

\* Every page with a slot in use is on the medium.
AllOnMedium ==
    \A b \in Blk, p \in Page, o \in Obj : ~IsFree(map, b, p, o) => Programmed(b, p)

\* No page is open in w_buf.
NoPageOpen == obj_act = 0

\* Then it is so, as after a flush.
LEMMA FlushedIsProgrammed == IInv /\ ~Exhausted /\ NoPageOpen => AllOnMedium
<1> SUFFICES ASSUME IInv, ~Exhausted, obj_act = 0,
                    NEW b \in Blk, NEW p \in Page, NEW o \in Obj, ~IsFree(map, b, p, o)
             PROVE  Programmed(b, p)
  BY DEF AllOnMedium, NoPageOpen
<1>1. /\ blk_act \in Blk /\ page_act \in Page
      /\ \A q \in Page, x \in Obj : IsFree(map, blk_act, q, x) <=> Ahead(q, x)
      /\ \A q \in Page : Programmed(blk_act, q) <=> q < page_act
      /\ \A c \in Blk \ {blk_act} : Blank(c) \/ Sealed(c)
  BY DEF IInv, TypeOK, LogShape, IsFree
<1>2. CASE b = blk_act
  BY <1>1, <1>2 DEF Ahead, Page, Obj
<1>3. CASE b # blk_act
  BY <1>1, <1>3 DEF Blank, AllFree, IsFree, Sealed
<1> QED BY <1>2, <1>3

\* No bitmap saved by flush is ahead of the medium.
THEOREM SavedBitmapTheorem == Spec => []SavedBitmapIsDurable
<1>1. Init => SavedBitmapIsDurable
  BY DEF Init, SavedBitmapIsDurable
<1>2. IInv /\ IInv' /\ SavedBitmapIsDurable /\ [Next]_vars => SavedBitmapIsDurable'
  <2> SUFFICES ASSUME IInv, IInv', SavedBitmapIsDurable, [Next]_vars, ~Exhausted',
                      NEW b \in Blk, NEW p \in Page, NEW o \in Obj,
                      bitmap_vblk'.obj[b][p][o] # "FREE"
               PROVE  Programmed(b, p)'
    BY DEF SavedBitmapIsDurable
  <2>1. ~Exhausted
    BY StepFreesNothing DEF IInv, Exhausted, IsFree
  <2>2. CASE UNCHANGED bitmap_vblk
    BY <2>1, <2>2, ProgrammedStays DEF SavedBitmapIsDurable
  <2>3. CASE Flush
    <3>1. bitmap_vblk' = map'
      BY <2>3 DEF Flush
    <3>2. obj_act' = 0
      <4>1. obj_act \in Obj
        BY DEF IInv, TypeOK
      <4> QED BY <2>3, <4>1, Geometry
              DEF Flush, act, ActAddrAdd, FindNextActBlk, SetAct, Obj
    <3>3. NoPageOpen'
      BY <3>2 DEF NoPageOpen
    <3>4. AllOnMedium'
      BY <3>3, FlushedIsProgrammed, PTL
    <3> QED BY <3>1, <3>4 DEF AllOnMedium, IsFree
  <2>4. Flush \/ UNCHANGED bitmap_vblk
    BY DEF Next, vars, AllocObj, DeAllocObj, WriteByObjId
  <2> QED BY <2>2, <2>3, <2>4
<1> QED BY Invariant, <1>1, <1>2, PTL DEF Spec

\* The garbage of a block, in a bitmap.
DeadIn(m, b) == {s \in Page \X Obj : m.obj[b][s[1]][s[2]] = "DEAD"}

LEMMA DeadInFinite ==
    ASSUME NEW m, NEW b
    PROVE  IsFiniteSet(DeadIn(m, b)) /\ Cardinality(DeadIn(m, b)) \in Nat
<1>1. IsFiniteSet(Page) /\ IsFiniteSet(Obj)
  BY Geometry, FS_Interval DEF Page, Obj
<1>2. IsFiniteSet(Page \X Obj)
  BY <1>1, FS_Product
<1>3. DeadIn(m, b) \in SUBSET (Page \X Obj)
  BY DEF DeadIn
<1>4. IsFiniteSet(DeadIn(m, b))
  BY <1>2, <1>3, FS_Subset
<1> QED BY <1>4, FS_CardinalityType

\* Garbage stays garbage, and the old slot of an object becomes it.
LEMMA KilledSlotsAreCounted ==
    ASSUME IInv, [Next]_vars, ~Exhausted, ~Exhausted', NEW b \in Blk,
           NEW id \in Id, map'.obj[nat[id].blk][nat[id].page][nat[id].obj] = "DEAD",
           nat[id].state = "WRIT", nat[id].blk = b
    PROVE  Cardinality(DeadIn(map', b)) >= Cardinality(DeadIn(map, b)) + 1
<1> DEFINE s == <<nat[id].page, nat[id].obj>>
<1>1. s \in Page \X Obj
  BY DEF IInv, TypeOK, NatEntry
<1>2. map.obj[b][s[1]][s[2]] = "USED"
  <2>1. HasSlot(id, b, nat[id].page, nat[id].obj)
    BY DEF HasSlot
  <2> QED BY <1>1, <2>1 DEF IInv, LiveSlots
<1>3. s \notin DeadIn(map, b) /\ s \in DeadIn(map', b)
  BY <1>1, <1>2 DEF DeadIn
<1>4. DeadIn(map, b) \subseteq DeadIn(map', b)
  BY StepAges DEF DeadIn, Ageing
<1>5. (DeadIn(map, b) \cup {s}) \in SUBSET DeadIn(map', b)
  BY <1>3, <1>4
<1>6. Cardinality(DeadIn(map, b) \cup {s}) = Cardinality(DeadIn(map, b)) + 1
  BY <1>3, DeadInFinite, FS_AddElement
<1>7. Cardinality(DeadIn(map, b) \cup {s}) <= Cardinality(DeadIn(map', b))
  BY <1>5, DeadInFinite, FS_Subset
<1> QED BY <1>6, <1>7, DeadInFinite

LEMMA GarbageStays ==
    ASSUME IInv, [Next]_vars, ~Exhausted, NEW b \in Blk
    PROVE  Cardinality(DeadIn(map, b)) <= Cardinality(DeadIn(map', b))
<1>1. DeadIn(map, b) \in SUBSET DeadIn(map', b)
  BY StepAges DEF DeadIn, Ageing
<1> QED BY <1>1, DeadInFinite, FS_Subset

\* Until the area is exhausted no block has less garbage than is counted in
\* it: what GC is to go by is never a promise the block cannot keep.
THEOREM DeadCountsTheorem == Spec => []DeadCountsAreReal
<1> DEFINE Real == ~Exhausted =>
                     \A b \in Blk : blk_dead_obj_nr[b] <= Cardinality(DeadIn(map, b))
<1>1. Real <=> DeadCountsAreReal
  BY DEF DeadCountsAreReal, DeadSlots, DeadIn
<1>2. Init => Real
  BY DeadInFinite DEF Init
<1>3. IInv /\ IInv' /\ Real /\ [Next]_vars => Real'
  <2> SUFFICES ASSUME IInv, IInv', Real, [Next]_vars, ~Exhausted', NEW b \in Blk
               PROVE  blk_dead_obj_nr'[b] <= Cardinality(DeadIn(map', b))
    OBVIOUS
  <2>1. ~Exhausted
    BY StepFreesNothing DEF IInv, Exhausted, IsFree
  <2>2. /\ blk_dead_obj_nr[b] <= Cardinality(DeadIn(map, b))
        /\ blk_dead_obj_nr \in [Blk -> Nat]
        /\ Cardinality(DeadIn(map, b)) \in Nat /\ Cardinality(DeadIn(map', b)) \in Nat
        /\ Cardinality(DeadIn(map, b)) <= Cardinality(DeadIn(map', b))
    BY <2>1, DeadInFinite, GarbageStays DEF IInv, TypeOK
  <2>3. CASE UNCHANGED stats
    BY <2>2, <2>3 DEF stats
  <2>4. ASSUME NEW id \in Id, CountDead(id), nat[id].state = "WRIT",
               map'.obj[nat[id].blk][nat[id].page][nat[id].obj] = "DEAD"
        PROVE  blk_dead_obj_nr'[b] <= Cardinality(DeadIn(map', b))
    <3>1. blk_dead_obj_nr'[b] = IF b = nat[id].blk THEN blk_dead_obj_nr[b] + 1
                                ELSE blk_dead_obj_nr[b]
      BY <2>2, <2>4 DEF CountDead
    <3>2. b = nat[id].blk =>
            Cardinality(DeadIn(map', b)) >= Cardinality(DeadIn(map, b)) + 1
      BY <2>1, <2>4, KilledSlotsAreCounted
    <3> HIDE DEF Real
    <3> QED BY <2>2, <3>1, <3>2
  <2>5. ASSUME NEW id \in Id, nat[id].state = "WRIT"
        PROVE  KillSlot(id).obj[nat[id].blk][nat[id].page][nat[id].obj] = "DEAD"
    <3>1. PICK c \in Blk, p \in Page, o \in Obj :
             c = nat[id].blk /\ p = nat[id].page /\ o = nat[id].obj
      BY DEF IInv, TypeOK, NatEntry
    <3>2. /\ map \in Bitmap /\ {o} \in SUBSET Obj /\ "DEAD" \in ObjState
          /\ KillSlot(id) = SetObjState(map, c, p, {o}, "DEAD")
      BY <2>5, <3>1 DEF IInv, TypeOK, ObjState, KillSlot
    <3>3. Marks(KillSlot(id), map, c, p, {o}, "DEAD")
      BY <3>2, SetObjStateEffect
    <3> QED BY <3>1, <3>3 DEF Marks
  <2>6. ASSUME NEW id \in Id, DeAllocObj(id)
        PROVE  blk_dead_obj_nr'[b] <= Cardinality(DeadIn(map', b))
    <3>1. CASE nat[id].state = "WRIT"
      BY <2>4, <2>5, <2>6, <3>1 DEF DeAllocObj
    <3>2. CASE nat[id].state # "WRIT"
      BY <2>3, <2>6, <3>2 DEF DeAllocObj, CountDead
    <3> QED BY <3>1, <3>2
  <2>7. ASSUME NEW id \in Id, NEW v \in Value, WriteByObjId(id, v)
        PROVE  blk_dead_obj_nr'[b] <= Cardinality(DeadIn(map', b))
    <3>1. CASE nat[id].state = "WRIT"
      <4>1. PICK c \in Blk, p \in Page, o \in Obj :
               c = nat[id].blk /\ p = nat[id].page /\ o = nat[id].obj
        BY DEF IInv, TypeOK, NatEntry
      <4>2. map.obj[c][p][o] = "USED"
        BY <2>1, <3>1, <4>1 DEF IInv, LiveSlots, HasSlot
      <4>3. /\ blk_act \in Blk /\ page_act \in Page /\ obj_act \in Obj
            /\ KillSlot(id) \in Bitmap /\ {obj_act} \in SUBSET Obj /\ "USED" \in ObjState
            /\ IsFree(map, blk_act, page_act, obj_act)
        <5>1. blk_act \in Blk /\ page_act \in Page /\ obj_act \in Obj
          BY DEF IInv, TypeOK
        <5>2. IsFree(map, blk_act, page_act, obj_act)
          BY <2>1, <5>1 DEF IInv, LogShape, Ahead, IsFree, Page, Obj
        <5> QED BY <5>1, <5>2, KillSlotType DEF IInv, ObjState
      <4>4. Marks(map', KillSlot(id), blk_act, page_act, {obj_act}, "USED")
        BY <2>7, <4>3, SetObjStateEffect DEF WriteByObjId
      <4>5. ~(c = blk_act /\ p = page_act /\ o = obj_act)
        BY <4>2, <4>3 DEF IsFree
      <4>6. map'.obj[c][p][o] = KillSlot(id).obj[c][p][o]
        BY <4>4, <4>5 DEF Marks
      <4>7. map'.obj[nat[id].blk][nat[id].page][nat[id].obj] = "DEAD"
        BY <2>5, <3>1, <4>1, <4>6
      <4> QED BY <2>4, <2>7, <3>1, <4>7 DEF WriteByObjId
    <3>2. CASE nat[id].state # "WRIT"
      BY <2>3, <2>7, <3>2 DEF WriteByObjId, CountDead
    <3> QED BY <3>1, <3>2
  <2>8. (\E id \in Id : AllocObj(id)) \/ Flush \/ UNCHANGED vars => UNCHANGED stats
    BY DEF AllocObj, Flush, vars
  <2> QED BY <2>3, <2>6, <2>7, <2>8 DEF Next
<1> HIDE DEF Real
<1>4. Spec => []Real
  BY Invariant, <1>2, <1>3, PTL DEF Spec
<1> QED BY <1>1, <1>4, PTL

(***************************************************************************)
(* MetaBlkArea implements ObjStore under the mapping that reads every id.  *)
(***************************************************************************)
storeBar == [id \in Id |-> ReadByObjId(id)]

LEMMA ReadType ==
    ASSUME TypeOK, NEW id \in Id
    PROVE  ReadByObjId(id) \in Store!Readable
<1>1. nat[id].state \in NatState
  BY DEF TypeOK, NatEntry
<1>2. Slot(id) \in Content
  BY DEF TypeOK, NatEntry, Slot, PageContent
<1>3. Slot(id).id = id => Slot(id).val \in Value
  BY <1>2 DEF Content, Object, Zero, Raw, Id
<1> QED BY <1>1, <1>3 DEF ReadByObjId, NatState, Store!Readable

StoreOK == storeBar \in [Id -> Store!Readable]

LEMMA StoreType == TypeOK => StoreOK
BY ReadType DEF storeBar, StoreOK

\* Only a free id reads as Null.
LEMMA ReadNull ==
    ASSUME TypeOK, NEW id \in Id
    PROVE  (ReadByObjId(id) = Null) <=> (nat[id].state = "FREE")
<1>1. nat[id].state \in NatState
  BY DEF TypeOK, NatEntry
<1>2. Slot(id) \in Content
  BY DEF TypeOK, NatEntry, Slot, PageContent
<1>3. Slot(id).id = id => Slot(id).val \in Value
  BY <1>2 DEF Content, Object, Zero, Raw, Id
<1> QED BY <1>1, <1>3, Distinct DEF ReadByObjId, NatState

\* An object that a write or flush does not touch reads the same afterwards:
\* it stays where it is, in w_buf or on the medium, or its page is programmed
\* from w_buf and the active position leaves that page.
LEMMA SlotStays ==
    ASSUME IInv, IInv', ~Exhausted, ~Exhausted',
           NEW j \in Id, NEW b \in Blk, NEW p \in Page, NEW o \in Obj,
           HasSlot(j, b, p, o), HasSlot(j, b, p, o)',
           b = blk_act /\ p = page_act => w_buf'[o] = w_buf[o],
           \/ UNCHANGED <<media, blk_act, page_act>>
           \/ /\ obj_act' = 0
              /\ media'[b][p] = IF b = blk_act /\ p = page_act THEN w_buf' ELSE media[b][p]
    PROVE  Slot(j)' = Slot(j)
<1>1. CASE UNCHANGED <<media, blk_act, page_act>>
  BY <1>1 DEF Slot, HasSlot
<1>2. CASE /\ obj_act' = 0
           /\ media'[b][p] = IF b = blk_act /\ p = page_act THEN w_buf' ELSE media[b][p]
  <2>1. map'.obj[b][p][o] = "USED"
    BY DEF IInv, LiveSlots
  <2>2. ~(b = blk_act' /\ p = page_act')
    BY <1>2, <2>1 DEF IInv, LogShape, Ahead, Obj
  <2>3. Slot(j)' = media'[b][p][o]
    BY <2>2 DEF Slot, HasSlot
  <2>4. Slot(j) = IF b = blk_act /\ p = page_act THEN w_buf[o] ELSE media[b][p][o]
    BY DEF Slot, HasSlot
  <2> QED BY <1>2, <2>3, <2>4
<1> QED BY <1>1, <1>2

\* The slot of an object, once it has been written.
LEMMA SlotOf ==
    ASSUME TypeOK, NEW j \in Id, nat[j].state = "WRIT"
    PROVE  \E b \in Blk, p \in Page, o \in Obj : HasSlot(j, b, p, o)
BY DEF TypeOK, NatEntry, HasSlot

\* If an entry and the bytes of its slot stay, the object reads the same.
LEMMA ReadStays ==
    ASSUME NEW j \in Id, nat'[j] = nat[j],
           nat[j].state = "WRIT" => Slot(j)' = Slot(j)
    PROVE  ReadByObjId(j)' = ReadByObjId(j)
BY DEF ReadByObjId

LEMMA ActivePageIsErased ==
    ASSUME IInv, ~Exhausted
    PROVE  /\ blk_act \in Blk /\ page_act \in Page /\ obj_act \in Obj
           /\ ~Programmed(blk_act, page_act)
<1>1. blk_act \in Blk /\ page_act \in Page /\ obj_act \in Obj
  BY DEF IInv, TypeOK
<1>2. Programmed(blk_act, page_act) <=> page_act < page_act
  BY <1>1 DEF IInv, LogShape
<1> QED BY <1>1, <1>2 DEF Page

\* Writing id changes what id reads and nothing else.
LEMMA WriteReads ==
    ASSUME IInv, IInv', ~Exhausted, ~Exhausted',
           NEW id \in Id, NEW v \in Value, WriteByObjId(id, v)
    PROVE  /\ nat[id].state # "FREE"
           /\ ReadByObjId(id)' = v
           /\ \A j \in Id \ {id} : ReadByObjId(j)' = ReadByObjId(j)
<1>1. /\ blk_act \in Blk /\ page_act \in Page /\ obj_act \in Obj
      /\ w_buf' = [w_buf EXCEPT ![obj_act] = [id |-> id, val |-> v]]
      /\ w_buf \in [Obj -> Content]
      /\ ~Programmed(blk_act, page_act)
  BY ActivePageIsErased DEF IInv, TypeOK, PageContent, WriteByObjId
<1> PICK ba \in Blk, pa \in Page, oa \in Obj :
        ba = blk_act /\ pa = page_act /\ oa = obj_act
  BY <1>1
<1>2. HasSlot(id, ba, pa, oa)'
  BY DEF IInv, TypeOK, NatEntry, WriteByObjId, HasSlot
<1>3. \/ UNCHANGED <<media, blk_act, page_act>>
      \/ /\ obj_act' = 0
         /\ \A b \in Blk, p \in Page :
              media'[b][p] = IF b = ba /\ p = pa THEN w_buf' ELSE media[b][p]
  <2> DEFINE a == ActAddrAdd(map', 1)
  <2>1. SetAct(a)
    BY DEF WriteByObjId
  <2>2. CASE a.obj = 0
    <3>1. Program(blk_act, page_act, w_buf') /\ obj_act' = 0
      BY <2>1, <2>2 DEF WriteByObjId, SetAct
    <3>2. w_buf' \in PageContent /\ w_buf' # Erased
      <4>1. w_buf'[obj_act] # Raw
        BY <1>1 DEF Raw, Id
      <4> QED BY <1>1, <4>1 DEF IInv, TypeOK, Erased
    <3>3. \A b \in Blk, p \in Page :
             media'[b][p] = IF b = blk_act /\ p = page_act THEN w_buf' ELSE media[b][p]
      <4>1. TypeOK /\ blk_act \in Blk /\ page_act \in Page /\ ~Programmed(blk_act, page_act)
        BY <1>1 DEF IInv
      <4> QED BY <3>1, <3>2, <4>1, ProgramErased
    <3> QED BY <3>1, <3>3
  <2>3. CASE a.obj # 0
    <3>1. UNCHANGED media
      BY <2>3 DEF WriteByObjId
    <3>2. obj_act + 1 < obj_nr_per_page
      BY <2>3, Geometry DEF ActAddrAdd, FindNextActBlk
    <3>3. blk_act' = blk_act /\ page_act' = page_act
      BY <2>1, <3>2 DEF ActAddrAdd, SetAct
    <3> QED BY <3>1, <3>3
  <2> QED BY <2>2, <2>3
<1>4. ReadByObjId(id)' = v
  <2>1. Slot(id)' = w_buf'[oa]
    <3>1. CASE UNCHANGED <<media, blk_act, page_act>>
      BY <1>2, <3>1 DEF Slot, HasSlot
    <3>2. CASE /\ obj_act' = 0
               /\ \A b \in Blk, p \in Page :
                    media'[b][p] = IF b = ba /\ p = pa THEN w_buf' ELSE media[b][p]
      <4>1. map'.obj[ba][pa][oa] = "USED"
        BY <1>2 DEF IInv, LiveSlots
      <4>2. ~(ba = blk_act' /\ pa = page_act')
        BY <3>2, <4>1 DEF IInv, LogShape, Ahead, Obj
      <4> QED BY <1>2, <3>2, <4>2 DEF Slot, HasSlot
    <3> QED BY <1>3, <3>1, <3>2
  <2>2. w_buf'[oa] = [id |-> id, val |-> v]
    BY <1>1
  <2> QED BY <1>2, <2>1, <2>2 DEF ReadByObjId, HasSlot
<1>5. ASSUME NEW j \in Id \ {id}
      PROVE  ReadByObjId(j)' = ReadByObjId(j)
  <2>1. nat'[j] = nat[j]
    BY DEF IInv, TypeOK, WriteByObjId
  <2>2. CASE nat[j].state = "WRIT"
    <3>1. PICK b \in Blk, p \in Page, o \in Obj : HasSlot(j, b, p, o)
      BY <2>2, SlotOf DEF IInv
    <3>2. HasSlot(j, b, p, o)'
      BY <2>1, <3>1 DEF HasSlot
    <3>3. b = blk_act /\ p = page_act => w_buf'[o] = w_buf[o]
      <4>1. ~(b = ba /\ p = pa /\ o = oa)
        BY <1>2, <3>2 DEF IInv, LiveSlots
      <4> QED BY <1>1, <4>1
    <3> QED BY <1>3, <2>1, <3>1, <3>2, <3>3, SlotStays, ReadStays
  <2> QED BY <2>1, <2>2, ReadStays
<1> QED BY <1>4, <1>5 DEF WriteByObjId

\* Flushing changes what no id reads.
LEMMA FlushReads ==
    ASSUME IInv, IInv', ~Exhausted, ~Exhausted', Flush, NEW j \in Id
    PROVE  ReadByObjId(j)' = ReadByObjId(j)
<1>1. nat'[j] = nat[j]
  BY DEF Flush
<1>2. CASE obj_act = 0
  BY <1>1, <1>2 DEF Flush, act, ReadByObjId, Slot
<1>3. CASE obj_act # 0
  <2> DEFINE rest == obj_act .. obj_nr_per_page - 1
             n == obj_nr_per_page - obj_act
  <2>1. /\ blk_act \in Blk /\ page_act \in Page /\ obj_act \in Obj
        /\ w_buf' = [o \in Obj |-> IF o \in rest THEN Zero ELSE w_buf[o]]
        /\ Program(blk_act, page_act, w_buf')
        /\ SetAct(ActAddrAdd(map', n))
        /\ ~Programmed(blk_act, page_act)
    BY <1>3, ActivePageIsErased DEF Flush
  <2>2. obj_act' = 0
    BY <2>1, Geometry DEF ActAddrAdd, FindNextActBlk, SetAct, Obj
  <2>3. w_buf' \in PageContent /\ w_buf' # Erased
    <3>1. w_buf'[obj_act] = Zero
      BY <2>1, Geometry DEF Obj
    <3>2. Zero # Raw
      BY Distinct DEF Zero, Raw
    <3> QED BY <2>1, <3>1, <3>2 DEF IInv, TypeOK, Erased
  <2>4. \A b \in Blk, p \in Page :
           media'[b][p] = IF b = blk_act /\ p = page_act THEN w_buf' ELSE media[b][p]
    BY <2>1, <2>3, ProgramErased DEF IInv
  <2>5. CASE nat[j].state = "WRIT"
    <3>1. PICK b \in Blk, p \in Page, o \in Obj : HasSlot(j, b, p, o)
      BY <2>5, SlotOf DEF IInv
    <3>2. HasSlot(j, b, p, o)'
      BY <1>1, <3>1 DEF HasSlot
    <3>3. b = blk_act /\ p = page_act => w_buf'[o] = w_buf[o]
      <4>1. map.obj[b][p][o] = "USED"
        BY <3>1 DEF IInv, LiveSlots
      <4>2. b = blk_act /\ p = page_act => ~(o >= obj_act)
        BY <4>1 DEF IInv, LogShape, Ahead
      <4> QED BY <2>1, <4>2
    <3> QED BY <1>1, <2>2, <2>4, <3>1, <3>2, <3>3, SlotStays, ReadStays
  <2> QED BY <1>1, <2>5, ReadStays
<1> QED BY <1>2, <1>3
LEMMA InitRefines == Init => Store!Init
<1> SUFFICES ASSUME Init PROVE Store!Init
  OBVIOUS
<1>1. IInv
  BY InitInv
<1>2. \A id \in Id : ReadByObjId(id) = Null
  BY <1>1, ReadNull DEF IInv, Init
<1>3. ~Exhausted
  <2>1. 0 \in Blk /\ 0 \in Page /\ 0 \in Obj
    BY Geometry DEF Blk, Page, Obj
  <2> QED BY <2>1 DEF Init, Exhausted
<1> QED BY <1>2, <1>3 DEF Store!Init

LEMMA AllocRefines ==
    ASSUME IInv, IInv', ~Exhausted, NEW id \in Id, AllocObj(id)
    PROVE  Store!Alloc(id)
<1>1. nat[id].state = "FREE" /\ nat'[id].state = "USED"
  BY DEF AllocObj, IInv, TypeOK, NatEntry
<1>2. ReadByObjId(id) = Null /\ ReadByObjId(id)' = Zeroed
  BY <1>1 DEF ReadByObjId
<1>3. \A i \in Id : i < id => ReadByObjId(i) # Null
  BY ReadNull DEF IInv, AllocObj
<1>4. ASSUME NEW j \in Id \ {id} PROVE ReadByObjId(j)' = ReadByObjId(j)
  <2>1. nat'[j] = nat[j] /\ UNCHANGED <<blk_act, page_act, w_buf, media>>
    BY DEF AllocObj, IInv, TypeOK, act
  <2> QED BY <2>1 DEF ReadByObjId, Slot
<1>5. ~Exhausted'
  BY DEF AllocObj, Exhausted
<1> QED BY <1>2, <1>3, <1>4, <1>5 DEF Store!Alloc

LEMMA DeAllocRefines ==
    ASSUME IInv, IInv', ~Exhausted, NEW id \in Id, DeAllocObj(id)
    PROVE  Store!DeAlloc(id)
<1>1. ReadByObjId(id)' = Null
  BY DEF DeAllocObj, IInv, TypeOK, NatEntry, ReadByObjId
<1>2. ASSUME NEW j \in Id \ {id} PROVE ReadByObjId(j)' = ReadByObjId(j)
  <2>1. nat'[j] = nat[j] /\ UNCHANGED <<blk_act, page_act, w_buf, media>>
    BY DEF DeAllocObj, IInv, TypeOK, act
  <2> QED BY <2>1 DEF ReadByObjId, Slot
<1>3. ~Exhausted'
  BY KillSlotEffect DEF IInv, DeAllocObj, Exhausted, IsFree
<1> QED BY <1>1, <1>2, <1>3 DEF Store!DeAlloc

LEMMA WriteRefines ==
    ASSUME IInv, IInv', ~Exhausted, NEW id \in Id, NEW v \in Value,
           WriteByObjId(id, v)
    PROVE  Store!Write(id, v)
<1>1. ReadByObjId(id) # Null
  BY ReadNull DEF IInv, WriteByObjId
<1>2. CASE Exhausted'
  <2>1. \A j \in Id : ReadByObjId(j)' \in Store!Readable
    <3>1. StoreOK'
      <4>1. TypeOK'
        BY DEF IInv
      <4> QED BY <4>1, StoreType, PTL
    <3> QED BY <3>1 DEF storeBar, StoreOK
  <2> QED BY <1>1, <1>2, <2>1 DEF Store!Write, Store!Settle, Store!Readable
<1>3. CASE ~Exhausted'
  <2>1. /\ ReadByObjId(id)' = v
        /\ \A j \in Id \ {id} : ReadByObjId(j)' = ReadByObjId(j)
    BY <1>3, WriteReads
  <2> QED BY <1>1, <1>3, <2>1 DEF Store!Write, Store!Settle
<1> QED BY <1>2, <1>3
LEMMA FlushRefines ==
    ASSUME IInv, IInv', ~Exhausted, Flush
    PROVE  Store!Flush
<1>1. CASE Exhausted'
  <2>1. \A j \in Id : ReadByObjId(j)' \in Store!Readable
    <3>1. TypeOK'
      BY DEF IInv
    <3>2. StoreOK'
      BY <3>1, StoreType, PTL
    <3> QED BY <3>2 DEF storeBar, StoreOK
  <2> QED BY <1>1, <2>1 DEF Store!Flush, Store!Settle, Store!Readable
<1>2. CASE ~Exhausted'
  <2>1. \A j \in Id : ReadByObjId(j)' = ReadByObjId(j)
    BY <1>2, FlushReads
  <2> QED BY <1>2, <2>1 DEF Store!Flush, Store!Settle
<1> QED BY <1>1, <1>2

LEMMA ExhaustedRefines ==
    ASSUME IInv, IInv', Exhausted, Exhausted'
    PROVE  Store!Lapsed
<1>1. \A j \in Id : ReadByObjId(j)' \in Store!Readable
  <2>1. TypeOK'
    BY DEF IInv
  <2>2. StoreOK'
    BY <2>1, StoreType, PTL
  <2> QED BY <2>2 DEF storeBar, StoreOK
<1> QED BY <1>1 DEF Store!Lapsed, Store!Readable

LEMMA StepRefines == IInv /\ IInv' /\ [Next]_vars => [Store!Next]_(Store!vars)
<1> SUFFICES ASSUME IInv, IInv', [Next]_vars
             PROVE  [Store!Next]_(Store!vars)
  OBVIOUS
<1>1. CASE Exhausted
  <2>1. Exhausted'
    BY <1>1, StepFreesNothing DEF IInv, Exhausted, IsFree
  <2> QED BY <1>1, <2>1, ExhaustedRefines DEF Store!Next
<1>2. CASE ~Exhausted
  <2>1. CASE UNCHANGED vars
    BY <2>1 DEF vars, act, Store!vars, ReadByObjId, Slot, Exhausted
  <2> QED BY <1>2, <2>1, AllocRefines, DeAllocRefines, WriteRefines, FlushRefines
          DEF Next, Store!Next
<1> QED BY <1>1, <1>2

\* Reading returns what was last written, for every geometry and number of
\* objects, until the last slot of the area is taken.
THEOREM Refinement == Spec => ImplementsStore
<1>1. Spec => Store!Init /\ [][Store!Next]_(Store!vars)
  BY Invariant, InitRefines, StepRefines, PTL DEF Spec
<1> QED BY <1>1 DEF ImplementsStore, Store!Spec

(***************************************************************************)
(* Sessions (MetaBlkAreaReopen).                                           *)
(*                                                                         *)
(* After a restart the log need not have the shape that LogShape describes *)
(* (find_next_act_blk may take its page from one block and its block from  *)
(* another), and the NAT may lead to slots the bitmap calls FREE, because  *)
(* a close does not flush.  The argument is another one, about each object *)
(* that is not adrift: its slot is on a programmed page or behind the      *)
(* active slot in w_buf, and the active page is erased or the              *)
(* specification stops, so that nothing is written where an object is.     *)
(***************************************************************************)

\* The slots a NAT points at for objects not in S are not free in a bitmap.
NatTaken(n, m, S) ==
    \A id \in Id \ S :
      n[id].state = "WRIT" => ~IsFree(m, n[id].blk, n[id].page, n[id].obj)

\* The objects of a NAT that are not in S are on the medium.
OnMedium(n, S) ==
    \A id \in Id \ S : n[id].state = "WRIT" => Programmed(n[id].blk, n[id].page)

\* An object that is not adrift is on the medium or in w_buf.
IsSomewhere ==
    \A id \in Id \ adrift :
      nat[id].state = "WRIT" =>
        \/ Programmed(nat[id].blk, nat[id].page)
        \/ nat[id].blk = blk_act /\ nat[id].page = page_act /\ nat[id].obj < obj_act

\* Within a session the bitmap only grows over the saved one.
SavedStaysTaken ==
    \A b \in Blk, p \in Page, o \in Obj :
      ~IsFree(bitmap_vblk, b, p, o) => ~IsFree(map, b, p, o)

\* Only what was written can be dirty or adrift.
WrittenOnly ==
    /\ \A id \in dirty \cup adrift : nat[id].state = "WRIT"
    /\ \A id \in adrift_vblk : nat_vblk[id].state = "WRIT"

RInv ==
    /\ ReopenTypeOK
    /\ WrittenOnly
    /\ IsSomewhere
    /\ OnMedium(nat, dirty \cup adrift)
    /\ OnMedium(nat_vblk, adrift_vblk)
    /\ SavedStaysTaken
    /\ NatTaken(nat, map, adrift)
    /\ NatTaken(nat, bitmap_vblk, dirty \cup adrift)
    /\ NatTaken(nat_vblk, bitmap_vblk, adrift_vblk)

LEMMA NatSlotsTakenIs ==
    NatSlotsTaken <=>
      NatTaken(nat, map, adrift) /\ NatTaken(nat_vblk, bitmap_vblk, adrift_vblk)
BY DEF NatSlotsTaken, NatTaken, IsFree

\* Every entry of a NAT names a slot of the area.
LEMMA EntryTypes ==
    ASSUME ReopenTypeOK, NEW id \in Id
    PROVE  /\ nat[id] \in NatEntry /\ nat_vblk[id] \in NatEntry
           /\ nat[id].state \in NatState /\ nat_vblk[id].state \in NatState
           /\ nat[id].blk \in Blk /\ nat[id].page \in Page /\ nat[id].obj \in Obj
           /\ nat_vblk[id].blk \in Blk /\ nat_vblk[id].page \in Page
           /\ nat_vblk[id].obj \in Obj
BY DEF ReopenTypeOK, TypeOK, NatEntry

(***************************************************************************)
(* What the operations do while the active page is erased.                 *)
(***************************************************************************)

\* No slot becomes free.
Grows == \A b \in Blk, p \in Page, o \in Obj : IsFree(map', b, p, o) => IsFree(map, b, p, o)

LEMMA KillSlotGrows ==
    ASSUME TypeOK, NEW id \in Id, NEW b \in Blk, NEW p \in Page, NEW o \in Obj,
           IsFree(KillSlot(id), b, p, o)
    PROVE  IsFree(map, b, p, o)
<1>1. CASE nat[id].state # "WRIT"
  BY <1>1 DEF KillSlot
<1>2. CASE nat[id].state = "WRIT"
  <2>1. /\ map \in Bitmap /\ nat[id].blk \in Blk /\ nat[id].page \in Page
        /\ {nat[id].obj} \in SUBSET Obj
    BY DEF TypeOK, NatEntry
  <2>2. KillSlot(id) = SetObjState(map, nat[id].blk, nat[id].page, {nat[id].obj}, "DEAD")
    BY <1>2 DEF KillSlot
  <2>3. \A c \in Blk, q \in Page, x \in Obj :
           IsFree(KillSlot(id), c, q, x) => IsFree(map, c, q, x)
    BY <2>1, <2>2, SetObjStateFree
  <2> QED BY <2>3
<1> QED BY <1>1, <1>2

\* The page the log is in: it is programmed and left, or only w_buf changes.
Advances ==
    \/ /\ blk_act' = blk_act /\ page_act' = page_act /\ obj_act' = obj_act + 1
       /\ UNCHANGED media
    \/ /\ obj_act' = 0
       /\ w_buf' # Erased
       /\ \A b \in Blk, p \in Page :
            media'[b][p] = IF b = blk_act /\ p = page_act THEN w_buf' ELSE media[b][p]

LEMMA WriteEffect ==
    ASSUME TypeOK, TypeOK', ~Reused,
           NEW id \in Id, NEW v \in Value, WriteByObjId(id, v)
    PROVE  Grows /\ ~IsFree(map', blk_act, page_act, obj_act) /\ Advances
<1>1. /\ blk_act \in Blk /\ page_act \in Page /\ obj_act \in Obj
      /\ KillSlot(id) \in Bitmap /\ {obj_act} \in SUBSET Obj
      /\ w_buf' \in PageContent
  BY KillSlotType DEF TypeOK
<1>2. Grows /\ ~IsFree(map', blk_act, page_act, obj_act)
  <2>1. map' = SetObjState(KillSlot(id), blk_act, page_act, {obj_act}, "USED")
    BY DEF WriteByObjId
  <2>2. \A b \in Blk, p \in Page, o \in Obj :
           IsFree(map', b, p, o) <=>
             IsFree(KillSlot(id), b, p, o)
               /\ ~(b = blk_act /\ p = page_act /\ o \in {obj_act})
    BY <1>1, <2>1, SetObjStateFree
  <2> QED BY <1>1, <2>2, KillSlotGrows DEF Grows
<1>3. w_buf' # Erased
  <2>1. w_buf'[obj_act] = [id |-> id, val |-> v]
    BY <1>1 DEF TypeOK, WriteByObjId, PageContent
  <2>2. w_buf'[obj_act] # Raw
    BY <2>1 DEF Raw, Id
  <2> QED BY <1>1, <2>2 DEF Erased
<1>4. Advances
  <2>1. CASE ActAddrAdd(map', 1).obj = 0
    <3>1. Program(blk_act, page_act, w_buf') /\ obj_act' = 0
      BY <2>1 DEF WriteByObjId, SetAct
    <3>2. ~Programmed(blk_act, page_act)
      BY DEF Reused
    <3>3. \A b \in Blk, p \in Page :
             media'[b][p] = IF b = blk_act /\ p = page_act THEN w_buf' ELSE media[b][p]
      BY <1>1, <1>3, <3>1, <3>2, ProgramErased
    <3> QED BY <1>3, <3>1, <3>3 DEF Advances
  <2>2. CASE ActAddrAdd(map', 1).obj # 0
    <3>1. UNCHANGED media /\ SetAct(ActAddrAdd(map', 1))
      BY <2>2 DEF WriteByObjId
    <3>2. obj_act + 1 < obj_nr_per_page
      BY <2>2, Geometry DEF ActAddrAdd, FindNextActBlk
    <3> QED BY <3>1, <3>2 DEF ActAddrAdd, SetAct, Advances
  <2> QED BY <2>1, <2>2
<1> QED BY <1>2, <1>4

LEMMA FlushEffect ==
    ASSUME TypeOK, TypeOK', ~Reused, Flush, obj_act # 0
    PROVE  /\ \A b \in Blk, p \in Page, o \in Obj :
                IsFree(map', b, p, o) <=>
                  IsFree(map, b, p, o) /\ ~(b = blk_act /\ p = page_act /\ o >= obj_act)
           /\ \A o \in Obj : o < obj_act => w_buf'[o] = w_buf[o]
           /\ obj_act' = 0
           /\ Advances
<1> DEFINE rest == obj_act .. obj_nr_per_page - 1
<1>1. /\ blk_act \in Blk /\ page_act \in Page /\ obj_act \in Obj
      /\ map \in Bitmap /\ rest \in SUBSET Obj /\ w_buf' \in PageContent
      /\ \A o \in Obj : o \in rest <=> o >= obj_act
  BY Geometry DEF TypeOK, Obj
<1>2. /\ map' = SetObjState(map, blk_act, page_act, rest, "DEAD")
      /\ w_buf' = [o \in Obj |-> IF o \in rest THEN Zero ELSE w_buf[o]]
      /\ Program(blk_act, page_act, w_buf')
      /\ SetAct(ActAddrAdd(map', obj_nr_per_page - obj_act))
  BY DEF Flush
<1> HIDE DEF rest
<1>3. \A b \in Blk, p \in Page, o \in Obj :
         IsFree(map', b, p, o) <=>
           IsFree(map, b, p, o) /\ ~(b = blk_act /\ p = page_act /\ o \in rest)
  BY <1>1, <1>2, SetObjStateFree
<1>4. obj_act' = 0
  BY <1>1, <1>2, Geometry DEF ActAddrAdd, FindNextActBlk, SetAct, Obj
<1>5. w_buf' # Erased
  <2>1. w_buf'[obj_act] = Zero
    BY <1>1, <1>2, Geometry DEF Obj
  <2>2. Zero # Raw
    BY Distinct DEF Zero, Raw
  <2> QED BY <1>1, <2>1, <2>2 DEF Erased
<1>6. \A b \in Blk, p \in Page :
         media'[b][p] = IF b = blk_act /\ p = page_act THEN w_buf' ELSE media[b][p]
  <2>1. ~Programmed(blk_act, page_act)
    BY DEF Reused
  <2> QED BY <1>1, <1>2, <1>5, <2>1, ProgramErased
<1>7. Advances
  BY <1>4, <1>5, <1>6 DEF Advances
<1>8. \A o \in Obj : o < obj_act => w_buf'[o] = w_buf[o]
  BY <1>1, <1>2 DEF Obj
<1>9. \A b \in Blk, p \in Page, o \in Obj :
         IsFree(map', b, p, o) <=>
           IsFree(map, b, p, o) /\ ~(b = blk_act /\ p = page_act /\ o >= obj_act)
  BY <1>1, <1>3
<1> QED BY <1>4, <1>7, <1>8, <1>9

\* Whatever is on the medium stays there.
LEMMA AdvanceKeepsMedium ==
    ASSUME ~Reused, Advances, NEW b \in Blk, NEW p \in Page, Programmed(b, p)
    PROVE  media'[b][p] = media[b][p]
BY DEF Reused, Advances, Programmed

(***************************************************************************)
(* The steps preserve the invariant.                                       *)
(***************************************************************************)
LEMMA ReopenInitInv == ReopenInit => RInv
<1> SUFFICES ASSUME ReopenInit PROVE RInv
  OBVIOUS
<1>1. ReopenTypeOK
  BY InitType DEF ReopenInit, ReopenTypeOK, TypeOK, Stages
<1>2. /\ \A b \in Blk, p \in Page, o \in Obj : IsFree(map, b, p, o)
      /\ bitmap_vblk = map /\ nat_vblk = nat
      /\ dirty = {} /\ adrift = {} /\ adrift_vblk = {}
      /\ \A id \in Id : nat[id].state # "WRIT"
  BY DEF ReopenInit, Init, IsFree
<1> QED BY <1>1, <1>2
        DEF RInv, WrittenOnly, IsSomewhere, OnMedium, SavedStaysTaken, NatTaken

LEMMA UseType ==
    ASSUME ReopenTypeOK, Use \/ FlushBegin
    PROVE  ReopenTypeOK'
<1>1. Next
  BY DEF Use, FlushBegin, Next
<1>2. TypeOK'
  BY <1>1, NextType DEF ReopenTypeOK
<1>3. /\ nat_vblk' = nat_vblk /\ adrift_vblk' = adrift_vblk /\ stage' \in Stages
      /\ dirty' \in SUBSET Id /\ adrift' \in SUBSET Id
  BY DEF Use, FlushBegin, ReopenTypeOK, Stages
<1> QED BY <1>2, <1>3 DEF ReopenTypeOK

\* What was saved stays true while a session works, because it only takes
\* slots and programs an erased page.
LEMMA SavedKept ==
    ASSUME RInv, ~Reused, Grows, Advances \/ UNCHANGED media,
           UNCHANGED <<nat_vblk, bitmap_vblk, adrift_vblk>>
    PROVE  /\ OnMedium(nat_vblk, adrift_vblk)'
           /\ SavedStaysTaken'
           /\ NatTaken(nat_vblk, bitmap_vblk, adrift_vblk)'
<1>1. OnMedium(nat_vblk, adrift_vblk)'
  <2> SUFFICES ASSUME NEW j \in Id \ adrift_vblk, nat_vblk[j].state = "WRIT"
               PROVE  media'[nat_vblk[j].blk][nat_vblk[j].page] # Erased
    BY DEF OnMedium, Programmed
  <2>1. PICK b \in Blk, p \in Page : b = nat_vblk[j].blk /\ p = nat_vblk[j].page
    BY EntryTypes DEF RInv
  <2>2. Programmed(b, p)
    BY <2>1 DEF RInv, OnMedium
  <2>3. media'[b][p] = media[b][p]
    BY <2>2, AdvanceKeepsMedium
  <2> QED BY <2>1, <2>2, <2>3 DEF Programmed
<1>2. SavedStaysTaken'
  BY DEF RInv, SavedStaysTaken, Grows
<1>3. NatTaken(nat_vblk, bitmap_vblk, adrift_vblk)'
  BY DEF RInv, NatTaken, IsFree
<1> QED BY <1>1, <1>2, <1>3

\* Allocation and deletion change an entry that leads nowhere afterwards.
LEMMA EntryGone ==
    ASSUME RInv, ~Reused, Grows, ReopenTypeOK', WrittenOnly',
           UNCHANGED <<bitmap_vblk, blk_act, page_act, obj_act, media, nat_vblk, adrift_vblk>>,
           \A j \in Id : nat'[j].state = "WRIT" =>
             /\ nat'[j] = nat[j]
             /\ j \in adrift => j \in adrift'
             /\ j \in dirty => j \in dirty'
    PROVE  RInv'
<1>1. /\ OnMedium(nat_vblk, adrift_vblk)'
      /\ SavedStaysTaken'
      /\ NatTaken(nat_vblk, bitmap_vblk, adrift_vblk)'
  BY SavedKept
<1>2. \A b, p : Programmed(b, p)' <=> Programmed(b, p)
  BY DEF Programmed
<1>3. ASSUME NEW j \in Id, nat'[j].state = "WRIT", j \notin adrift'
      PROVE  /\ nat'[j] = nat[j] /\ nat[j].state = "WRIT" /\ j \notin adrift
             /\ nat[j].blk \in Blk /\ nat[j].page \in Page /\ nat[j].obj \in Obj
  BY <1>3, EntryTypes DEF RInv
<1>4. IsSomewhere'
  BY <1>2, <1>3 DEF RInv, IsSomewhere
<1>5. OnMedium(nat, dirty \cup adrift)'
  BY <1>2, <1>3 DEF RInv, OnMedium
<1>6. NatTaken(nat, map, adrift)'
  BY <1>3 DEF RInv, NatTaken, Grows
<1>7. NatTaken(nat, bitmap_vblk, dirty \cup adrift)'
  BY <1>3 DEF RInv, NatTaken
<1> QED BY <1>1, <1>4, <1>5, <1>6, <1>7 DEF RInv

LEMMA AllocKeeps ==
    ASSUME RInv, ~Reused, ReopenTypeOK', NEW id \in Id, AllocObj(id),
           UNCHANGED <<nat_vblk, dirty, adrift, adrift_vblk>>
    PROVE  RInv'
<1>1. UNCHANGED <<map, bitmap_vblk, blk_act, page_act, obj_act, media>>
  BY DEF AllocObj, act
<1>2. Grows
  BY <1>1 DEF Grows
<1>3. /\ nat[id].state = "FREE" /\ nat'[id].state = "USED"
      /\ \A j \in Id \ {id} : nat'[j] = nat[j]
  BY DEF RInv, ReopenTypeOK, TypeOK, NatEntry, AllocObj
<1>4. dirty \cup adrift \subseteq Id
  BY DEF RInv, ReopenTypeOK
<1>5. WrittenOnly'
  BY <1>3, <1>4 DEF RInv, WrittenOnly
<1> QED BY <1>1, <1>2, <1>3, <1>5, EntryGone

LEMMA DeAllocKeeps ==
    ASSUME RInv, ~Reused, ReopenTypeOK', NEW id \in Id, DeAllocObj(id),
           dirty' = dirty \ {id}, adrift' = adrift \ {id},
           UNCHANGED <<nat_vblk, adrift_vblk>>
    PROVE  RInv'
<1>1. UNCHANGED <<bitmap_vblk, blk_act, page_act, obj_act, media>>
  BY DEF DeAllocObj, act
<1>2. Grows
  BY KillSlotGrows DEF Grows, RInv, ReopenTypeOK, DeAllocObj
<1>3. nat'[id].state = "FREE" /\ \A j \in Id \ {id} : nat'[j] = nat[j]
  BY DEF RInv, ReopenTypeOK, TypeOK, NatEntry, DeAllocObj
<1>4. dirty \cup adrift \subseteq Id
  BY DEF RInv, ReopenTypeOK
<1>5. WrittenOnly'
  BY <1>3, <1>4 DEF RInv, WrittenOnly
<1> QED BY <1>1, <1>2, <1>3, <1>5, EntryGone

LEMMA WriteKeeps ==
    ASSUME RInv, ~Reused, ReopenTypeOK', NEW id \in Id, NEW v \in Value, WriteByObjId(id, v),
           dirty' = dirty \cup {id}, adrift' = adrift \ {id},
           UNCHANGED <<nat_vblk, adrift_vblk>>
    PROVE  RInv'
<1>1. /\ Grows /\ Advances /\ ~IsFree(map', blk_act, page_act, obj_act)
      /\ UNCHANGED bitmap_vblk
  BY WriteEffect DEF RInv, ReopenTypeOK, WriteByObjId
<1>2. /\ blk_act \in Blk /\ page_act \in Page /\ obj_act \in Obj
      /\ dirty \cup adrift \subseteq Id
  BY DEF RInv, ReopenTypeOK, TypeOK
<1>3. /\ OnMedium(nat_vblk, adrift_vblk)'
      /\ SavedStaysTaken'
      /\ NatTaken(nat_vblk, bitmap_vblk, adrift_vblk)'
  BY <1>1, SavedKept
<1>4. /\ nat'[id] = [state |-> "WRIT", blk |-> blk_act, page |-> page_act, obj |-> obj_act]
      /\ \A j \in Id \ {id} : nat'[j] = nat[j]
  BY DEF RInv, ReopenTypeOK, TypeOK, WriteByObjId
<1>5. WrittenOnly'
  BY <1>2, <1>4 DEF RInv, WrittenOnly
<1>6. ASSUME NEW j \in Id \ {id}, nat'[j].state = "WRIT", j \notin adrift'
      PROVE  /\ nat'[j] = nat[j] /\ nat[j].state = "WRIT" /\ j \notin adrift
             /\ nat[j].blk \in Blk /\ nat[j].page \in Page /\ nat[j].obj \in Obj
             /\ Programmed(nat[j].blk, nat[j].page) => media'[nat[j].blk][nat[j].page] # Erased
  <2>1. /\ nat'[j] = nat[j] /\ nat[j].state = "WRIT" /\ j \notin adrift
        /\ nat[j].blk \in Blk /\ nat[j].page \in Page /\ nat[j].obj \in Obj
    BY <1>4, <1>6, EntryTypes DEF RInv
  <2> QED BY <1>1, <2>1, AdvanceKeepsMedium DEF Programmed
<1>7. IsSomewhere'
  <2> SUFFICES ASSUME NEW j \in Id \ adrift', nat'[j].state = "WRIT"
               PROVE  \/ media'[nat'[j].blk][nat'[j].page] # Erased
                      \/ /\ nat'[j].blk = blk_act' /\ nat'[j].page = page_act'
                         /\ nat'[j].obj < obj_act'
    BY DEF IsSomewhere, Programmed
  <2>1. \/ j # id /\ media'[nat'[j].blk][nat'[j].page] # Erased
        \/ /\ nat'[j].blk = blk_act /\ nat'[j].page = page_act
           /\ nat'[j].obj \in Obj /\ nat'[j].obj <= obj_act
    <3>1. CASE j = id
      BY <1>2, <1>4, <3>1 DEF Obj
    <3>2. CASE j # id
      BY <1>2, <1>6, <3>2 DEF RInv, IsSomewhere, Obj, Programmed
    <3> QED BY <3>1, <3>2
  <2>2. CASE nat'[j].blk = blk_act /\ nat'[j].page = page_act
    <3>1. CASE blk_act' = blk_act /\ page_act' = page_act /\ obj_act' = obj_act + 1
      BY <1>2, <2>1, <2>2, <3>1 DEF Obj
    <3>2. CASE media'[blk_act][page_act] = w_buf' /\ w_buf' # Erased
      BY <2>2, <3>2 DEF Programmed
    <3> QED BY <1>1, <1>2, <3>1, <3>2 DEF Advances
  <2> QED BY <2>1, <2>2
<1>8. OnMedium(nat, dirty \cup adrift)'
  BY <1>6 DEF RInv, OnMedium, Programmed
<1>9. NatTaken(nat, map, adrift)'
  <2> SUFFICES ASSUME NEW j \in Id \ adrift', nat'[j].state = "WRIT"
               PROVE  ~IsFree(map', nat'[j].blk, nat'[j].page, nat'[j].obj)
    BY DEF NatTaken, IsFree
  <2>1. CASE j = id
    BY <1>1, <1>4, <2>1
  <2>2. CASE j # id
    BY <1>1, <1>6, <2>2 DEF RInv, NatTaken, Grows
  <2> QED BY <2>1, <2>2
<1>10. NatTaken(nat, bitmap_vblk, dirty \cup adrift)'
  BY <1>1, <1>6 DEF RInv, NatTaken, IsFree
<1> QED BY <1>3, <1>5, <1>7, <1>8, <1>9, <1>10 DEF RInv

LEMMA UseInv ==
    ASSUME RInv, ~Reused, Use
    PROVE  RInv'
<1>1. ReopenTypeOK'
  BY UseType DEF RInv
<1> QED BY <1>1, AllocKeeps, DeAllocKeeps, WriteKeeps DEF Use

\* A flush leaves nothing in w_buf that is not on the medium, and saves the
\* slots of all that is not adrift.
LEMMA FlushBeginInv ==
    ASSUME RInv, ~Reused, FlushBegin
    PROVE  RInv'
<1>1. ReopenTypeOK' /\ TypeOK /\ TypeOK'
  BY UseType DEF RInv, ReopenTypeOK
<1>2. /\ Flush /\ bitmap_vblk' = map' /\ dirty' = {}
      /\ UNCHANGED <<nat, nat_vblk, adrift, adrift_vblk>>
  BY DEF FlushBegin, Flush
<1>3. blk_act \in Blk /\ page_act \in Page /\ obj_act \in Obj
  BY <1>1 DEF TypeOK
<1>4. /\ Grows
      /\ Advances \/ UNCHANGED media
      /\ \A j \in Id \ adrift :
           nat[j].state = "WRIT" => media'[nat[j].blk][nat[j].page] # Erased
  <2>1. CASE obj_act = 0
    <3>1. UNCHANGED <<map, media>>
      BY <1>2, <2>1 DEF Flush
    <3>2. ASSUME NEW j \in Id \ adrift, nat[j].state = "WRIT"
          PROVE  media'[nat[j].blk][nat[j].page] # Erased
      BY <2>1, <3>1, <3>2, EntryTypes DEF RInv, IsSomewhere, Programmed, Obj
    <3> QED BY <3>1, <3>2 DEF Grows
  <2>2. CASE obj_act # 0
    <3>1. Grows /\ Advances /\ obj_act' = 0
      BY <1>1, <1>2, <2>2, FlushEffect DEF Grows
    <3>2. media'[blk_act][page_act] = w_buf' /\ w_buf' # Erased
      BY <1>3, <2>2, <3>1 DEF Advances, Obj
    <3>3. ASSUME NEW j \in Id \ adrift, nat[j].state = "WRIT"
          PROVE  media'[nat[j].blk][nat[j].page] # Erased
      <4>1. nat[j].blk \in Blk /\ nat[j].page \in Page
        BY EntryTypes DEF RInv
      <4>2. CASE Programmed(nat[j].blk, nat[j].page)
        BY <3>1, <4>1, <4>2, AdvanceKeepsMedium DEF Programmed
      <4>3. CASE nat[j].blk = blk_act /\ nat[j].page = page_act
        BY <3>2, <4>3 DEF Programmed
      <4> QED BY <3>3, <4>2, <4>3 DEF RInv, IsSomewhere
    <3> QED BY <3>1, <3>3
  <2> QED BY <2>1, <2>2
<1>5. WrittenOnly'
  BY <1>2 DEF RInv, WrittenOnly
<1>6. IsSomewhere' /\ OnMedium(nat, dirty \cup adrift)'
  BY <1>2, <1>4 DEF IsSomewhere, OnMedium, Programmed
<1>7. OnMedium(nat_vblk, adrift_vblk)'
  <2> SUFFICES ASSUME NEW j \in Id \ adrift_vblk, nat_vblk[j].state = "WRIT"
               PROVE  media'[nat_vblk[j].blk][nat_vblk[j].page] # Erased
    BY <1>2 DEF OnMedium, Programmed
  <2>1. /\ Programmed(nat_vblk[j].blk, nat_vblk[j].page)
        /\ nat_vblk[j].blk \in Blk /\ nat_vblk[j].page \in Page
    BY EntryTypes DEF RInv, OnMedium
  <2> QED BY <1>4, <2>1, AdvanceKeepsMedium DEF Programmed
<1>8. SavedStaysTaken'
  BY <1>2 DEF SavedStaysTaken
<1>9. NatTaken(nat, map, adrift)' /\ NatTaken(nat, bitmap_vblk, dirty \cup adrift)'
  <2> SUFFICES ASSUME NEW j \in Id \ adrift, nat[j].state = "WRIT"
               PROVE  ~IsFree(map', nat[j].blk, nat[j].page, nat[j].obj)
    BY <1>2 DEF NatTaken, IsFree
  <2> QED BY <1>4, EntryTypes DEF RInv, NatTaken, Grows
<1>10. NatTaken(nat_vblk, bitmap_vblk, adrift_vblk)'
  <2> SUFFICES ASSUME NEW j \in Id \ adrift_vblk, nat_vblk[j].state = "WRIT"
               PROVE  ~IsFree(map', nat_vblk[j].blk, nat_vblk[j].page, nat_vblk[j].obj)
    BY <1>2 DEF NatTaken, IsFree
  <2> QED BY <1>4, EntryTypes DEF RInv, NatTaken, SavedStaysTaken, Grows
<1> QED BY <1>1, <1>5, <1>6, <1>7, <1>8, <1>9, <1>10 DEF RInv

\* A NAT is saved with what is dirty or adrift at the time; all other objects
\* have been flushed.
LEMMA CloseBeginInv ==
    ASSUME RInv, CloseBegin
    PROVE  RInv'
<1>1. /\ nat_vblk' = nat /\ adrift_vblk' = adrift \cup dirty /\ stage' \in Stages
      /\ UNCHANGED <<nat, map, bitmap_vblk, blk_act, page_act, obj_act, media, dirty, adrift>>
      /\ UNCHANGED vars
  BY DEF CloseBegin, vars, act, Stages
<1>2. ReopenTypeOK'
  BY <1>1 DEF RInv, ReopenTypeOK, TypeOK, vars, stats, act
<1> QED BY <1>1, <1>2 DEF RInv, WrittenOnly, IsSomewhere, OnMedium, SavedStaysTaken, NatTaken,
                          Programmed

LEMMA RestartType ==
    ASSUME ReopenTypeOK, Restart
    PROVE  ReopenTypeOK'
<1>1. /\ map' = bitmap_vblk /\ nat' = nat_vblk /\ stage' = "open"
      /\ dirty' = {} /\ adrift' = adrift_vblk
      /\ UNCHANGED <<bitmap_vblk, media, nat_vblk, adrift_vblk>>
  BY DEF Restart
<1>2. 0 \in Blk /\ 0 \in Page
  BY Geometry DEF Blk, Page
<1>3. OpenAct \in ActPos
  BY <1>2, FindNextActBlkType DEF OpenAct
<1>4. blk_act' \in Blk /\ page_act' \in Page /\ obj_act' \in Obj
  BY <1>3 DEF Restart, SetAct, ActPos
<1>5. w_buf' \in PageContent
  BY ZeroIsContent DEF Restart, Erased, PageContent
<1>6. blk_dead_obj_nr' \in [Blk -> Nat] /\ all_dead_obj_nr' \in Nat
  BY DEF Restart
<1> QED BY <1>1, <1>4, <1>5, <1>6 DEF ReopenTypeOK, TypeOK, Stages

\* A new session begins with what was saved, and what is not adrift is on the
\* medium.
LEMMA RestartInv ==
    ASSUME RInv, Restart
    PROVE  RInv'
<1>1. /\ map' = bitmap_vblk /\ nat' = nat_vblk /\ dirty' = {} /\ adrift' = adrift_vblk
      /\ UNCHANGED <<bitmap_vblk, media, nat_vblk, adrift_vblk>>
  BY DEF Restart
<1>2. ReopenTypeOK'
  BY RestartType DEF RInv
<1> QED BY <1>1, <1>2 DEF RInv, WrittenOnly, IsSomewhere, OnMedium, SavedStaysTaken, NatTaken,
                          Programmed

\* Steps that only change the stage.
LEMMA PhaseInv ==
    ASSUME RInv, UNCHANGED <<vars, nat_vblk, dirty, adrift, adrift_vblk>>, stage' \in Stages
    PROVE  RInv'
<1>1. UNCHANGED <<nat, map, bitmap_vblk, blk_act, page_act, obj_act, media>>
  BY DEF vars, act
<1>2. ReopenTypeOK'
  BY DEF RInv, ReopenTypeOK, TypeOK, vars, stats, act
<1> QED BY <1>1, <1>2 DEF RInv, WrittenOnly, IsSomewhere, OnMedium, SavedStaysTaken, NatTaken,
                          Programmed

LEMMA ReopenInvPreserved == RInv /\ [ReopenNext]_rvars => RInv'
<1> SUFFICES ASSUME RInv, [ReopenNext]_rvars PROVE RInv'
  OBVIOUS
<1>1. CASE UNCHANGED rvars
  BY <1>1, PhaseInv DEF rvars, RInv, ReopenTypeOK
<1>2. CASE ReopenNext
  <2>1. ASSUME FlushEnd \/ CloseEnd \/ CrashWhileSaving PROVE RInv'
    BY <2>1, PhaseInv DEF FlushEnd, CloseEnd, CrashWhileSaving, Stages
  <2> QED BY <1>2, <2>1, UseInv, FlushBeginInv, CloseBeginInv, RestartInv DEF ReopenNext
<1> QED BY <1>1, <1>2

\* Over all sessions, closes with and without a flush, and crashes.
THEOREM ReopenInvariant == ReopenSpec => []RInv
BY ReopenInitInv, ReopenInvPreserved, PTL DEF ReopenSpec

\* No slot of an object, now or as saved, is free to be written again, but of
\* those saved by a close before they were flushed: whatever session crashed,
\* whichever NAT and bitmap the next one found, and whatever is done to a lost
\* object whose slot is another's by now.
THEOREM NatSlotsTakenTheorem == ReopenSpec => []NatSlotsTaken
<1>1. RInv => NatSlotsTaken
  BY NatSlotsTakenIs DEF RInv
<1> QED BY <1>1, ReopenInvariant, PTL

(***************************************************************************)
(* The sessions implement DurableStore.                                    *)
(***************************************************************************)

\* An object on the page being filled is in w_buf, any other on the medium,
\* and stays there while the log advances.
LEMMA SlotIsKept ==
    ASSUME RInv, ~Reused, ~Reused', Advances, NEW j \in Id \ adrift,
           nat[j].state = "WRIT", nat'[j] = nat[j],
           nat[j].blk = blk_act /\ nat[j].page = page_act
             => w_buf'[nat[j].obj] = w_buf[nat[j].obj]
    PROVE  Slot(j)' = Slot(j)
<1>1. PICK b \in Blk, p \in Page, o \in Obj :
         b = nat[j].blk /\ p = nat[j].page /\ o = nat[j].obj
  BY EntryTypes DEF RInv
<1>2. Programmed(b, p) \/ (b = blk_act /\ p = page_act)
  BY <1>1 DEF RInv, IsSomewhere
<1>3. Slot(j) = IF b = blk_act /\ p = page_act THEN w_buf[o] ELSE media[b][p][o]
  BY <1>1 DEF Slot
<1>4. Slot(j)' = IF b = blk_act' /\ p = page_act' THEN w_buf'[o] ELSE media'[b][p][o]
  BY <1>1 DEF Slot
<1>5. CASE blk_act' = blk_act /\ page_act' = page_act /\ UNCHANGED media
  BY <1>1, <1>3, <1>4, <1>5
<1>6. CASE /\ w_buf' # Erased
           /\ media'[b][p] = IF b = blk_act /\ p = page_act THEN w_buf' ELSE media[b][p]
  <2>1. media'[b][p] # Erased
    BY <1>2, <1>6 DEF Programmed
  <2>2. ~(b = blk_act' /\ p = page_act')
    BY <2>1 DEF Reused, Programmed
  <2> QED BY <1>1, <1>3, <1>4, <1>6, <2>2
<1> QED BY <1>5, <1>6 DEF Advances

LEMMA ReopenWriteReads ==
    ASSUME RInv, TypeOK', ~Reused, ~Reused',
           NEW id \in Id, NEW v \in Value, WriteByObjId(id, v)
    PROVE  /\ ReadByObjId(id)' = v
           /\ \A j \in Id \ (adrift \cup {id}) : ReadByObjId(j)' = ReadByObjId(j)
<1>1. /\ Advances
      /\ nat \in [Id -> NatEntry] /\ w_buf \in [Obj -> Content]
      /\ blk_act \in Blk /\ page_act \in Page /\ obj_act \in Obj
  BY WriteEffect DEF RInv, ReopenTypeOK, TypeOK, PageContent
<1>2. /\ nat'[id] = [state |-> "WRIT", blk |-> blk_act, page |-> page_act, obj |-> obj_act]
      /\ w_buf'[obj_act] = [id |-> id, val |-> v]
      /\ \A o \in Obj \ {obj_act} : w_buf'[o] = w_buf[o]
      /\ \A j \in Id \ {id} : nat'[j] = nat[j]
  BY <1>1 DEF WriteByObjId
<1>3. ReadByObjId(id)' = v
  <2>1. Slot(id)' = w_buf'[obj_act]
    <3>1. CASE blk_act' = blk_act /\ page_act' = page_act
      BY <1>2, <3>1 DEF Slot
    <3>2. CASE w_buf' # Erased /\ media'[blk_act][page_act] = w_buf'
      <4>1. ~(blk_act = blk_act' /\ page_act = page_act')
        BY <3>2 DEF Reused, Programmed
      <4> QED BY <1>2, <3>2, <4>1 DEF Slot
    <3> QED BY <1>1, <3>1, <3>2 DEF Advances
  <2> QED BY <1>2, <2>1 DEF ReadByObjId
<1>4. ASSUME NEW j \in Id \ (adrift \cup {id}) PROVE ReadByObjId(j)' = ReadByObjId(j)
  <2>1. CASE nat[j].state = "WRIT"
    <3>1. nat[j].obj \in Obj
      BY EntryTypes DEF RInv
    <3>2. nat[j].blk = blk_act /\ nat[j].page = page_act => nat[j].obj # obj_act
      BY <1>1, <2>1, <3>1 DEF RInv, IsSomewhere, Reused, Obj
    <3>3. Slot(j)' = Slot(j)
      BY <1>1, <1>2, <2>1, <3>1, <3>2, SlotIsKept
    <3> QED BY <1>2, <3>3, ReadStays
  <2> QED BY <1>2, <2>1, ReadStays
<1> QED BY <1>3, <1>4

LEMMA ReopenFlushReads ==
    ASSUME RInv, TypeOK', ~Reused, ~Reused', Flush, NEW j \in Id \ adrift
    PROVE  ReadByObjId(j)' = ReadByObjId(j)
<1>1. nat'[j] = nat[j]
  BY DEF Flush
<1>2. CASE obj_act = 0
  BY <1>1, <1>2 DEF Flush, act, ReadByObjId, Slot
<1>3. CASE obj_act # 0 /\ nat[j].state = "WRIT"
  <2>1. /\ Advances
        /\ \A o \in Obj : o < obj_act => w_buf'[o] = w_buf[o]
    BY <1>3, FlushEffect DEF RInv, ReopenTypeOK
  <2>2. /\ nat[j].obj \in Obj
        /\ nat[j].blk = blk_act /\ nat[j].page = page_act => nat[j].obj < obj_act
    BY <1>3, EntryTypes DEF RInv, IsSomewhere, Reused
  <2> QED BY <1>1, <1>3, <2>1, <2>2, SlotIsKept, ReadStays
<1> QED BY <1>1, <1>2, <1>3, ReadStays

\* What was saved is not overwritten.
LEMMA SavedReadStays ==
    ASSUME RInv, ~Reused, UNCHANGED nat_vblk, Advances \/ UNCHANGED media,
           NEW j \in Id \ adrift_vblk
    PROVE  SavedRead(j)' = SavedRead(j)
<1>1. CASE nat_vblk[j].state = "WRIT"
  <2>1. PICK b \in Blk, p \in Page, o \in Obj :
           b = nat_vblk[j].blk /\ p = nat_vblk[j].page /\ o = nat_vblk[j].obj
    BY EntryTypes DEF RInv
  <2>2. Programmed(b, p)
    BY <1>1, <2>1 DEF RInv, OnMedium
  <2>3. media'[b][p] = media[b][p]
    BY <2>2, AdvanceKeepsMedium
  <2> QED BY <2>1, <2>3 DEF SavedRead
<1>2. CASE nat_vblk[j].state # "WRIT"
  BY <1>2, EntryTypes DEF SavedRead, RInv, NatState
<1> QED BY <1>1, <1>2

\* An object that has been flushed is read from the medium: the next session
\* will find what this one reads.
LEMMA CloseReads ==
    ASSUME RInv, ~Reused, nat_vblk' = nat, UNCHANGED media,
           NEW j \in Id \ (dirty \cup adrift)
    PROVE  SavedRead(j)' = ReadByObjId(j)
<1>1. CASE nat[j].state = "WRIT"
  <2>1. PICK b \in Blk, p \in Page, o \in Obj :
           b = nat[j].blk /\ p = nat[j].page /\ o = nat[j].obj
    BY EntryTypes DEF RInv
  <2>2. Programmed(b, p)
    BY <1>1, <2>1 DEF RInv, OnMedium
  <2>3. ~(b = blk_act /\ p = page_act)
    BY <2>2 DEF Reused
  <2> QED BY <1>1, <2>1, <2>3 DEF ReadByObjId, SavedRead, Slot
<1>2. CASE nat[j].state # "WRIT"
  BY <1>2, EntryTypes DEF ReadByObjId, SavedRead, RInv, NatState
<1> QED BY <1>1, <1>2

\* The next session reads what was saved, unless its log runs into a page
\* that has been programmed.
LEMMA RestartReads ==
    ASSUME RInv, Restart, ~Reused', NEW j \in Id \ adrift_vblk
    PROVE  ReadByObjId(j)' = SavedRead(j)
<1>1. nat'[j] = nat_vblk[j] /\ UNCHANGED media
  BY DEF Restart
<1>2. CASE nat_vblk[j].state = "WRIT"
  <2>1. PICK b \in Blk, p \in Page, o \in Obj :
           b = nat_vblk[j].blk /\ p = nat_vblk[j].page /\ o = nat_vblk[j].obj
    BY EntryTypes DEF RInv
  <2>2. Programmed(b, p)
    BY <1>2, <2>1 DEF RInv, OnMedium
  <2>3. ~(b = blk_act' /\ p = page_act')
    BY <1>1, <2>2 DEF Reused, Programmed
  <2> QED BY <1>1, <1>2, <2>1, <2>3 DEF ReadByObjId, SavedRead, Slot
<1>3. CASE nat_vblk[j].state # "WRIT"
  BY <1>1, <1>3, EntryTypes DEF ReadByObjId, SavedRead, RInv, NatState
<1> QED BY <1>2, <1>3

Room   == ~Exhausted /\ ~Reused /\ stage # "lost"
Saving == stage \in {"bitmap_erased", "nat_erased"}

\* What DurableStore shows of an object, in this session and in the next.
Shown(id)      == IF id \in adrift THEN Junk ELSE ReadByObjId(id)
ShownSaved(id) == IF id \in adrift_vblk THEN Junk ELSE SavedRead(id)

LEMMA DurableViews ==
    /\ Durable!Init <=>
         /\ [id \in Id |-> Shown(id)] = [id \in Id |-> Null] /\ Room = TRUE
         /\ dirty = {}
         /\ [id \in Id |-> ShownSaved(id)] = [id \in Id |-> Shown(id)] /\ Saving = FALSE
BY DEF Durable!Init, Durable!Obj!Init, Shown, ShownSaved, Room, Saving

\* What is shown is of the kind a client can read.
LEMMA ShownReadable ==
    ASSUME TypeOK'
    PROVE  \A j \in Id : Shown(j)' \in Store!Readable
<1>1. StoreOK'
  BY StoreType, PTL
<1> QED BY <1>1 DEF storeBar, StoreOK, Store!Readable, Shown

\* Null shows an id that is free.
LEMMA ShownNull ==
    ASSUME RInv, NEW id \in Id
    PROVE  (Shown(id) = Null) <=> (nat[id].state = "FREE")
BY ReadNull, Distinct DEF RInv, ReopenTypeOK, WrittenOnly, Shown

LEMMA ReopenInitRefines == ReopenInit => Durable!Init
<1> SUFFICES ASSUME ReopenInit PROVE Durable!Init
  OBVIOUS
<1>1. RInv /\ Init /\ nat_vblk = nat /\ stage = "open"
      /\ dirty = {} /\ adrift = {} /\ adrift_vblk = {}
  BY ReopenInitInv DEF ReopenInit
<1>2. \A j \in Id : Shown(j) = Null /\ ShownSaved(j) = Null
  BY <1>1 DEF Init, ReadByObjId, SavedRead, Shown, ShownSaved
<1>3. 0 \in Blk /\ 0 \in Page /\ 0 \in Obj
  BY Geometry DEF Blk, Page, Obj
<1>4. ~Exhausted
  BY <1>1, <1>3 DEF Init, Exhausted
<1>5. ~Reused
  BY <1>1 DEF Init, Reused, Programmed, RInv, ReopenTypeOK, TypeOK
<1> QED BY <1>1, <1>2, <1>4, <1>5, DurableViews DEF Room, Saving

LEMMA ReopenAllocRefines ==
    ASSUME RInv, ~Exhausted, ~Reused, stage = "open", UNCHANGED <<stage, dirty, adrift>>,
           NEW id \in Id, AllocObj(id)
    PROVE  Durable!Alloc(id)
<1>1. nat[id].state = "FREE" /\ nat'[id].state = "USED" /\ id \notin adrift
  BY DEF AllocObj, RInv, ReopenTypeOK, TypeOK, NatEntry, WrittenOnly
<1>2. Shown(id) = Null /\ Shown(id)' = Zeroed
  BY <1>1 DEF Shown, ReadByObjId
<1>3. \A i \in Id : i < id => Shown(i) # Null
  BY ShownNull DEF AllocObj
<1>4. UNCHANGED <<map, blk_act, page_act, w_buf, media>>
  BY DEF AllocObj, act
<1>5. ASSUME NEW j \in Id \ {id} PROVE Shown(j)' = Shown(j)
  <2>1. nat'[j] = nat[j]
    BY DEF AllocObj, RInv, ReopenTypeOK, TypeOK
  <2> QED BY <1>4, <2>1 DEF Shown, ReadByObjId, Slot
<1>6. Room /\ Room'
  BY <1>4 DEF Room, Exhausted, Reused, Programmed
<1> QED BY <1>2, <1>3, <1>5, <1>6 DEF Durable!Alloc, Durable!Obj!Alloc, Room, Shown

LEMMA ReopenDeAllocRefines ==
    ASSUME RInv, TypeOK', ~Exhausted, ~Reused, stage = "open", NEW id \in Id, DeAllocObj(id),
           dirty' = dirty \ {id}, adrift' = adrift \ {id}
    PROVE  Durable!DeAlloc(id)
<1> DEFINE s == [[j \in Id |-> Shown(j)] EXCEPT ![id] = Null]
<1>1. Shown(id)' = Null
  BY DEF DeAllocObj, RInv, ReopenTypeOK, TypeOK, NatEntry, ReadByObjId, Shown
<1>2. UNCHANGED <<blk_act, page_act, w_buf, media>>
  BY DEF DeAllocObj, act
<1>3. ASSUME NEW j \in Id \ {id} PROVE Shown(j)' = Shown(j)
  <2>1. nat'[j] = nat[j] /\ (j \in adrift' <=> j \in adrift)
    BY DEF DeAllocObj, RInv, ReopenTypeOK, TypeOK
  <2>2. ReadByObjId(j)' = ReadByObjId(j)
    BY <1>2, <2>1 DEF ReadByObjId, Slot
  <2> QED BY <2>1, <2>2 DEF Shown
<1>4. Room' => [j \in Id |-> Shown(j)'] = s
  BY <1>1, <1>3
<1> QED BY <1>4, ShownReadable
        DEF Durable!DeAlloc, Durable!Obj!Settle, Durable!Obj!Readable, Store!Readable, Room, Shown

LEMMA ReopenWriteRefines ==
    ASSUME RInv, TypeOK', ~Exhausted, ~Reused, stage = "open",
           NEW id \in Id, NEW v \in Value, WriteByObjId(id, v),
           dirty' = dirty \cup {id}, adrift' = adrift \ {id}
    PROVE  Durable!Write(id, v)
<1> DEFINE s == [[j \in Id |-> Shown(j)] EXCEPT ![id] = v]
<1>1. Shown(id) # Null
  BY ShownNull DEF WriteByObjId
<1>2. Room' => [j \in Id |-> Shown(j)'] = s
  BY ReopenWriteReads DEF Room, Shown
<1>3. Room
  BY DEF Room
<1> QED BY <1>1, <1>2, <1>3, ShownReadable
        DEF Durable!Write, Durable!Obj!Write, Durable!Obj!Settle, Durable!Obj!Readable,
            Store!Readable, Room, Shown

\* A client's call changes nothing of what was saved.
LEMMA ReopenUseRefines ==
    ASSUME RInv, RInv', ~Exhausted, ~Reused, Use
    PROVE  Durable!Use
<1>1. /\ TypeOK /\ TypeOK' /\ stage = "open"
      /\ UNCHANGED <<nat_vblk, stage, adrift_vblk>>
  BY DEF RInv, ReopenTypeOK, Use
<1>2. \/ \E id \in Id : Durable!Alloc(id) \/ Durable!DeAlloc(id)
      \/ \E id \in Id, v \in Value : Durable!Write(id, v)
  BY <1>1, ReopenAllocRefines, ReopenDeAllocRefines, ReopenWriteRefines DEF Use
<1>3. Advances \/ UNCHANGED media
  BY <1>1, WriteEffect DEF Use, AllocObj, DeAllocObj
<1>4. \A j \in Id : ShownSaved(j)' = ShownSaved(j)
  BY <1>1, <1>3, SavedReadStays DEF ShownSaved
<1> QED BY <1>1, <1>2, <1>4 DEF Durable!Use, ShownSaved

LEMMA ReopenFlushBeginRefines ==
    ASSUME RInv, RInv', ~Exhausted, ~Reused, FlushBegin
    PROVE  Durable!FlushBegin
<1> DEFINE s == [j \in Id |-> Shown(j)]
<1>1. /\ TypeOK /\ TypeOK' /\ stage = "open" /\ Flush /\ stage' = "bitmap_erased"
      /\ dirty' = {} /\ UNCHANGED <<nat_vblk, adrift, adrift_vblk>>
  BY DEF RInv, ReopenTypeOK, FlushBegin
<1>2. Room' => [j \in Id |-> Shown(j)'] = s
  BY <1>1, ReopenFlushReads DEF Room, Shown
<1>3. Advances \/ UNCHANGED media
  BY <1>1, FlushEffect DEF Flush
<1>4. \A j \in Id : ShownSaved(j)' = ShownSaved(j)
  BY <1>1, <1>3, SavedReadStays DEF ShownSaved
<1>5. Room
  BY <1>1 DEF Room
<1>6. Durable!Obj!Flush
  BY <1>1, <1>2, <1>5, ShownReadable
  DEF Durable!Obj!Flush, Durable!Obj!Settle, Durable!Obj!Readable, Store!Readable, Room, Shown
<1> QED BY <1>1, <1>4, <1>6 DEF Durable!FlushBegin, ShownSaved

LEMMA ReopenCloseBeginRefines ==
    ASSUME RInv, ~Exhausted, ~Reused, CloseBegin
    PROVE  Durable!CloseBegin
<1>1. /\ stage = "open" /\ stage' = "nat_erased"
      /\ nat_vblk' = nat /\ adrift_vblk' = adrift \cup dirty
      /\ UNCHANGED <<nat, map, blk_act, page_act, w_buf, media, dirty, adrift>>
  BY DEF CloseBegin, vars, act
<1>2. \A j \in Id : Shown(j)' = Shown(j)
  BY <1>1 DEF Shown, ReadByObjId, Slot
<1>3. \A j \in Id : ShownSaved(j)' = IF j \in dirty THEN Junk ELSE Shown(j)
  BY <1>1, CloseReads DEF Shown, ShownSaved
<1>4. Room /\ Room'
  BY <1>1 DEF Room, Exhausted, Reused, Programmed
<1> QED BY <1>1, <1>2, <1>3, <1>4 DEF Durable!CloseBegin, Room, Shown, ShownSaved

\* What both stores show depends on these variables alone.
LEMMA ViewsStay ==
    ASSUME UNCHANGED <<vars, nat_vblk, adrift, adrift_vblk>>
    PROVE  /\ \A j \in Id : Shown(j)' = Shown(j) /\ ShownSaved(j)' = ShownSaved(j)
           /\ Exhausted' = Exhausted /\ Reused' = Reused
<1>1. UNCHANGED <<nat, map, blk_act, page_act, w_buf, media>>
  BY DEF vars, act
<1> QED BY <1>1 DEF Shown, ShownSaved, ReadByObjId, Slot, SavedRead, Exhausted, Reused,
                    Programmed

LEMMA ReopenEndRefines ==
    ASSUME FlushEnd \/ CloseEnd
    PROVE  Durable!End
<1>1. /\ UNCHANGED <<vars, nat_vblk, dirty, adrift, adrift_vblk>>
      /\ stage \in {"bitmap_erased", "nat_erased"}
      /\ stage' \in {"open", "closed"}
  BY DEF FlushEnd, CloseEnd
<1>2. stage # "lost" /\ stage' # "lost" /\ stage' \notin {"bitmap_erased", "nat_erased"}
  BY <1>1
<1> QED BY <1>1, <1>2, ViewsStay DEF Durable!End, Shown, ShownSaved

LEMMA ReopenRestartRefines ==
    ASSUME RInv, RInv', ~Exhausted, ~Reused, Restart
    PROVE  Durable!Restart
<1> DEFINE s == [j \in Id |-> ShownSaved(j)]
<1>1. /\ TypeOK' /\ stage \in {"open", "closed"} /\ stage' = "open"
      /\ dirty' = {} /\ adrift' = adrift_vblk
      /\ UNCHANGED <<nat_vblk, media, adrift_vblk>>
  BY DEF RInv, ReopenTypeOK, Restart
<1>2. Room' => [j \in Id |-> Shown(j)'] = s
  BY <1>1, RestartReads DEF Room, Shown, ShownSaved
<1>3. \A j \in Id : ShownSaved(j)' = ShownSaved(j)
  BY <1>1, SavedReadStays DEF ShownSaved
<1>4. Room
  BY <1>1 DEF Room
<1> QED BY <1>1, <1>2, <1>3, <1>4, ShownReadable
        DEF Durable!Restart, Durable!Obj!Settle, Durable!Obj!Readable, Store!Readable, Room,
            Shown, ShownSaved

LEMMA ReopenStepRefines ==
    RInv /\ RInv' /\ [ReopenNext]_rvars => [Durable!Next]_(Durable!vars)
<1> SUFFICES ASSUME RInv, RInv', [ReopenNext]_rvars
             PROVE  [Durable!Next]_(Durable!vars)
  OBVIOUS
<1>1. CASE UNCHANGED rvars
  <2>1. UNCHANGED <<vars, nat_vblk, stage, dirty, adrift, adrift_vblk>>
    BY <1>1 DEF rvars
  <2> QED BY <2>1, ViewsStay DEF Durable!vars, Shown, ShownSaved
<1>2. CASE ReopenNext
  <2>1. ~Exhausted /\ ~Reused
    BY <1>2 DEF ReopenNext
  <2>2. ASSUME CrashWhileSaving PROVE Durable!CrashWhileSaving
    BY <2>2 DEF CrashWhileSaving, Durable!CrashWhileSaving
  <2> QED BY <1>2, <2>1, <2>2, ReopenUseRefines, ReopenFlushBeginRefines,
             ReopenCloseBeginRefines, ReopenEndRefines, ReopenRestartRefines
          DEF ReopenNext, Durable!Next
<1> QED BY <1>1, <1>2

\* Each object is found again as it was when the area was last closed, but for
\* those a close saved before they were flushed, over any number of sessions
\* and crashes outside the saving, until the log runs into a page another
\* session wrote (constructor, flush, ~OcssdSuperBlock).
THEOREM DurableRefinement == ReopenSpec => ImplementsDurableStore
BY ReopenInitRefines, ReopenStepRefines, ReopenInvariant, PTL
   DEF ImplementsDurableStore, Durable!Spec, ReopenSpec
=============================================================================
