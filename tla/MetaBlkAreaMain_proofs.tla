----------------------- MODULE MetaBlkAreaMain_proofs ------------------------

(***************************************************************************)
(* Proofs about garbage collection: first what holds however it is used    *)
(* (MetaBlkAreaGC), then as its one caller uses it (MetaBlkAreaMain), for  *)
(* every geometry of blocks, every number of objects that leaves a block   *)
(* empty and every set of values.                                          *)
(***************************************************************************)
EXTENDS MetaBlkAreaMain, MetaBlkArea_proofs, Sums_proofs

(***************************************************************************)
(* Garbage collection, however it is used: types, levels and counters.     *)
(***************************************************************************)

\* A nonempty set of blocks has a lowest one.
LEMMA MinIsLeast ==
    ASSUME NEW S \in SUBSET Blk, S # {}
    PROVE  Min(S) \in S /\ \A b \in S : Min(S) <= b
<1>1. S \in SUBSET Nat
  BY DEF Blk
<1>2. \E x \in S : \A y \in S : x <= y
  BY <1>1, LeastNat
<1> QED BY <1>2 DEF Min

LEMMA DestnOrType ==
    ASSUME NEW m, NEW b \in Blk
    PROVE  DestnOr(m, b) \in Blk
<1> DEFINE free == {c \in Blk : m.blk[c] = "EMPT" /\ c # blk_act}
<1>1. free # {} => Min(free) \in free
  <2>1. free \in SUBSET Blk
    OBVIOUS
  <2> HIDE DEF free
  <2> QED BY <2>1, MinIsLeast
<1> QED BY <1>1 DEF DestnOr

LEMMA BlkFinite == IsFiniteSet(Blk) /\ Cardinality(Blk) = data_blk_nr
<1>1. 0 <= data_blk_nr - 1
  BY Geometry
<1> QED BY <1>1, Geometry, FS_Interval DEF Blk

LEMMA PageFinite == IsFiniteSet(Page) /\ Cardinality(Page) = npages
<1>1. 0 <= npages - 1
  BY Geometry
<1> QED BY <1>1, Geometry, FS_Interval DEF Page

\* CountersAgree, with the sum that Sums_proofs reasons about.
Agree == all_dead_obj_nr = Sum(blk_dead_obj_nr, Blk)

LEMMA CountersAgreeIsAgree == CountersAgree <=> Agree
BY DEF CountersAgree, Agree, Sum

\* Counting a dead object keeps the counters in agreement.
LEMMA CountDeadAgrees ==
    ASSUME TypeOK, Agree, NEW id \in Id, CountDead(id)
    PROVE  Agree'
<1>1. CASE nat[id].state # "WRIT"
  BY <1>1 DEF CountDead, stats, Agree
<1>2. CASE nat[id].state = "WRIT"
  <2> DEFINE f == blk_dead_obj_nr
             h == [f EXCEPT ![nat[id].blk] = @ + 1]
  <2>1. /\ nat[id].blk \in Blk /\ f \in [Blk -> Nat]
        /\ all_dead_obj_nr' = all_dead_obj_nr + 1 /\ blk_dead_obj_nr' = h
    BY <1>2 DEF TypeOK, NatEntry, CountDead
  <2> PICK b \in Blk : b = nat[id].blk
    BY <2>1
  <2>2. /\ \A x \in Blk : f[x] \in Int
        /\ h[b] = f[b] + 1 /\ h[b] \in Int
        /\ \A x \in Blk : x # b => h[x] = f[x]
    BY <2>1
  <2> HIDE DEF f, h
  <2>3. Sum(h, Blk) = Sum(f, Blk) + h[b] - f[b] /\ Sum(f, Blk) \in Int
    BY <2>2, BlkFinite, SumChanges, SumType
  <2>4. Sum(h, Blk) = Sum(f, Blk) + 1
    BY <2>2, <2>3
  <2> QED BY <2>1, <2>4 DEF Agree, f
<1> QED BY <1>1, <1>2

\* Erasing a block takes its garbage from the total, which stays a number.
LEMMA ErasedStatsAgree ==
    ASSUME TypeOK, Agree, blk_idx \in Blk, ErasedStats
    PROVE  /\ Agree' /\ all_dead_obj_nr' \in Nat
           /\ blk_dead_obj_nr' \in [Blk -> Nat]
<1> DEFINE f == blk_dead_obj_nr
           h == [f EXCEPT ![blk_idx] = 0]
<1>1. /\ f \in [Blk -> Nat] /\ h \in [Blk -> Nat]
      /\ all_dead_obj_nr' = all_dead_obj_nr - f[blk_idx]
      /\ blk_dead_obj_nr' = h
  BY DEF TypeOK, ErasedStats
<1>2. /\ \A x \in Blk : f[x] \in Int
      /\ \A x \in Blk : h[x] \in Int /\ h[x] >= 0
      /\ h[blk_idx] = 0
      /\ \A x \in Blk : x # blk_idx => h[x] = f[x]
  BY <1>1
<1> HIDE DEF f, h
<1>3. Sum(h, Blk) = Sum(f, Blk) + h[blk_idx] - f[blk_idx] /\ Sum(f, Blk) \in Int
  BY <1>2, BlkFinite, SumChanges, SumType
<1>4. Sum(h, Blk) = Sum(f, Blk) - f[blk_idx]
  BY <1>2, <1>3
<1>5. Sum(h, Blk) \in Int /\ Sum(h, Blk) >= 0
  BY <1>2, BlkFinite, SumType, SumNotNegative
<1>6. Agree'
  BY <1>1, <1>4 DEF Agree, f
<1> QED BY <1>1, <1>4, <1>5, <1>6 DEF Agree, f

\* Marking slots in a bitmap.
LEMMA MarkingIsSound ==
    ASSUME NEW m \in Bitmap, Levels(m), NEW b \in Blk, NEW p \in Page,
           NEW O \in SUBSET Obj, NEW s \in {"USED", "DEAD"}
    PROVE  /\ SetObjState(m, b, p, O, s) \in Bitmap
           /\ Levels(SetObjState(m, b, p, O, s))
<1>1. s \in ObjState
  BY DEF ObjState
<1> QED BY <1>1, SetObjStateType, SetObjStateLevels

\* The levels agree after each call, whether there is room or not.
LEMMA NextLevels ==
    ASSUME TypeOK, LevelsExact, [Next]_vars
    PROVE  LevelsExact'
<1>1. map \in Bitmap /\ Levels(map)
  BY LevelsExactIsLevels DEF TypeOK
<1>2. /\ blk_act \in Blk /\ page_act \in Page /\ {obj_act} \in SUBSET Obj
      /\ obj_act .. obj_nr_per_page - 1 \in SUBSET Obj
  BY Geometry DEF TypeOK, Obj
<1>3. ASSUME NEW id \in Id
      PROVE  KillSlot(id) \in Bitmap /\ Levels(KillSlot(id))
  BY KillSlotType, KillSlotLevels
<1>4. ASSUME NEW id \in Id, AllocObj(id) PROVE Levels(map')
  BY <1>1, <1>4 DEF AllocObj
<1>5. ASSUME NEW id \in Id, DeAllocObj(id) PROVE Levels(map')
  BY <1>3, <1>5 DEF DeAllocObj
<1>6. ASSUME NEW id \in Id, NEW v \in Value, WriteByObjId(id, v) PROVE Levels(map')
  <2>1. Levels(SetObjState(KillSlot(id), blk_act, page_act, {obj_act}, "USED"))
    BY <1>2, <1>3, MarkingIsSound
  <2> QED BY <1>6, <2>1 DEF WriteByObjId
<1>7. ASSUME Flush PROVE Levels(map')
  <2>1. Levels(SetObjState(map, blk_act, page_act, obj_act .. obj_nr_per_page - 1, "DEAD"))
    BY <1>1, <1>2, MarkingIsSound
  <2> QED BY <1>1, <1>7, <2>1 DEF Flush
<1>8. Levels(map')
  BY <1>1, <1>4, <1>5, <1>6, <1>7 DEF Next, vars
<1> QED BY <1>8 DEF LevelsExact, Levels, AllFree, NoneFree

LEMMA NextAgrees ==
    ASSUME TypeOK, Agree, [Next]_vars
    PROVE  Agree'
<1>1. CASE UNCHANGED stats
  BY <1>1 DEF Agree, stats
<1>2. \/ UNCHANGED stats
      \/ \E id \in Id : CountDead(id)
  BY DEF Next, vars, AllocObj, DeAllocObj, WriteByObjId, Flush
<1> QED BY <1>1, <1>2, CountDeadAgrees

\* Erasing a block empties it at all three levels.
LEMMA ErasedMapIsSound ==
    ASSUME map \in Bitmap, Levels(map), blk_idx \in Blk
    PROVE  /\ ErasedMap \in Bitmap /\ Levels(ErasedMap)
           /\ \A p \in Page, o \in Obj : ErasedMap.obj[blk_idx][p][o] = "FREE"
           /\ ErasedMap.blk[blk_idx] = "EMPT"
           /\ \A b \in Blk : b # blk_idx => /\ ErasedMap.obj[b] = map.obj[b]
                                            /\ ErasedMap.page[b] = map.page[b]
                                            /\ ErasedMap.blk[b] = map.blk[b]
<1> DEFINE r == ErasedMap
           none == [p \in Page |-> [o \in Obj |-> "FREE"]]
           blank == [p \in Page |-> "EMPT"]
<1>1. /\ map.obj \in [Blk -> [Page -> [Obj -> ObjState]]]
      /\ map.page \in [Blk -> [Page -> MapState]]
      /\ map.blk \in [Blk -> MapState]
  BY DEF Bitmap
<1>2. /\ r.obj  = [map.obj EXCEPT ![blk_idx] = none]
      /\ r.page = [map.page EXCEPT ![blk_idx] = blank]
      /\ r.blk  = [map.blk EXCEPT ![blk_idx] = "EMPT"]
      /\ r = [obj |-> r.obj, page |-> r.page, blk |-> r.blk]
  BY DEF ErasedMap
<1>3. none \in [Page -> [Obj -> ObjState]] /\ blank \in [Page -> MapState] /\ "EMPT" \in MapState
  BY DEF ObjState, MapState
<1>4. (\A p \in Page, o \in Obj : none[p][o] = "FREE") /\ \A p \in Page : blank[p] = "EMPT"
  OBVIOUS
<1> HIDE DEF r, none, blank
<1>5. /\ r.obj[blk_idx] = none /\ r.page[blk_idx] = blank /\ r.blk[blk_idx] = "EMPT"
      /\ \A b \in Blk : b # blk_idx => /\ r.obj[b] = map.obj[b]
                                       /\ r.page[b] = map.page[b]
                                       /\ r.blk[b] = map.blk[b]
  BY <1>1, <1>2
<1>6. /\ r.obj \in [Blk -> [Page -> [Obj -> ObjState]]]
      /\ r.page \in [Blk -> [Page -> MapState]]
      /\ r.blk \in [Blk -> MapState]
  BY <1>1, <1>2, <1>3
<1>7. r \in Bitmap
  BY <1>2, <1>6 DEF Bitmap
<1>8. Levels(r)
  <2>1. 0 \in Page /\ 0 \in Obj
    BY Geometry DEF Page, Obj
  <2>2. ASSUME NEW b \in Blk, NEW p \in Page
        PROVE  r.page[b][p] = IF \A o \in Obj : r.obj[b][p][o] = "FREE" THEN "EMPT"
                              ELSE IF \A o \in Obj : r.obj[b][p][o] # "FREE" THEN "FULL"
                              ELSE "PART"
    BY <1>4, <1>5 DEF Levels
  <2>3. ASSUME NEW b \in Blk
        PROVE  r.blk[b] = IF \A p \in Page : r.page[b][p] = "EMPT" THEN "EMPT"
                          ELSE IF \A p \in Page : r.page[b][p] # "EMPT" THEN "FULL"
                          ELSE "PART"
    BY <1>4, <1>5 DEF Levels
  <2> QED BY <2>2, <2>3 DEF Levels
<1> QED BY <1>4, <1>5, <1>7, <1>8 DEF r

\* What holds of any use of GC: the types, and these agreements.
GInv ==
    /\ GCTypeOK /\ Levels(map) /\ Agree
    /\ pc = "copy" => blk_idx \in Blk

\* Programming a page, or a page past the end of a block, keeps the type.
LEMMA ProgramAnyType ==
    ASSUME TypeOK, NEW b \in Blk, NEW p, NEW c \in PageContent, Program(b, p, c)
    PROVE  media' \in [Blk -> [Page -> PageContent]]
<1>1. media \in [Blk -> [Page -> PageContent]]
  BY DEF TypeOK
<1>2. [media[b] EXCEPT ![p] = c] \in [Page -> PageContent]
  BY <1>1
<1>3. [media EXCEPT ![b] = [media[b] EXCEPT ![p] = c]] \in [Blk -> [Page -> PageContent]]
  BY <1>1, <1>2
<1> QED BY <1>1, <1>3 DEF Program

\* The page and the place of a slot number.
LEMMA PositionInBlock ==
    ASSUME NEW n \in Nat, NEW k \in Nat \ {0}, NEW l \in Nat, n < k * l
    PROVE  n \div k \in 0 .. l - 1 /\ n % k \in 0 .. k - 1
<1>1. n \div k \in Nat /\ n % k \in 0 .. k - 1 /\ n = k * (n \div k) + (n % k)
  OBVIOUS
<1>2. k * (n \div k) < k * l
  BY <1>1
<1>3. n \div k < l
  <2> SUFFICES ASSUME n \div k >= l PROVE FALSE
    BY <1>1
  <2>1. k * (n \div k) >= k * l
    BY <1>1
  <2> QED BY <1>1, <1>2, <2>1
<1> QED BY <1>1, <1>3
LEMMA GCInitInv == GCInit => GInv
<1> SUFFICES ASSUME GCInit PROVE GInv
  OBVIOUS
<1>1. IInv
  BY InitInv DEF GCInit
<1>2. GCTypeOK
  <2>1. 0 \in Blk /\ 0 \in Obj /\ 0 \in 0 .. data_blk_nr /\ 0 \in 0 .. npages
    BY Geometry DEF Blk, Obj
  <2>2. 0 \in 0 .. obj_nr_per_blk
    <3>1. obj_nr_per_blk \in Nat
      BY Geometry DEF obj_nr_per_blk
    <3> QED BY <3>1
  <2>3. Erased \in PageContent
    BY ZeroIsContent DEF Erased, PageContent
  <2> QED BY <1>1, <2>1, <2>2, <2>3 DEF GCInit, GCTypeOK, IInv
<1>3. Levels(map)
  BY <1>1, LevelsExactIsLevels DEF IInv
<1>4. Agree
  <2>1. \A b \in Blk : blk_dead_obj_nr[b] = 0
    BY DEF GCInit, Init
  <2> QED BY <2>1, BlkFinite, SumOfZeros DEF GCInit, Init, Agree
<1> QED BY <1>2, <1>3, <1>4 DEF GInv, GCInit

\* The calls of the store, between collections.
LEMMA CallGInv ==
    ASSUME GInv, [Next]_vars, UNCHANGED gcvars
    PROVE  GInv'
<1>1. TypeOK' /\ LevelsExact' /\ Agree'
  BY NextType, NextLevels, NextAgrees, LevelsExactIsLevels DEF GInv, GCTypeOK
<1>2. Levels(map')
  BY <1>1 DEF LevelsExact, Levels, AllFree, NoneFree
<1>3. GCTypeOK'
  BY <1>1 DEF GInv, GCTypeOK, gcvars
<1> QED BY <1>1, <1>2, <1>3 DEF GInv, gcvars

LEMMA BeginGInv ==
    ASSUME GInv, GCBegin
    PROVE  GInv'
<1>1. blk_destn' \in Blk
  <2>1. 0 \in Blk
    BY Geometry DEF Blk
  <2> QED BY <2>1, DestnOrType DEF GCBegin
<1>2. GCTypeOK'
  BY <1>1 DEF GInv, GCTypeOK, TypeOK, GCBegin, vars, stats, act
<1> QED BY <1>2 DEF GInv, GCBegin, vars, stats, Agree

LEMMA SourceGInv ==
    ASSUME GInv, GCNextSource
    PROVE  GInv' /\ blk_idx' \in Sources /\ \A b \in Sources : blk_idx' <= b
<1>1. blk_idx' \in Sources /\ \A b \in Sources : blk_idx' <= b
  <2>1. Sources \in SUBSET Blk /\ Sources # {}
    BY DEF Sources, GCNextSource
  <2>2. blk_idx' = Min(Sources)
    BY DEF GCNextSource
  <2> QED BY <2>1, <2>2, MinIsLeast
<1>2. blk_idx' \in Blk
  BY <1>1 DEF Sources
<1>3. GCTypeOK'
  <2>1. blk_idx' \in 0 .. data_blk_nr
    BY <1>2, Geometry DEF Blk
  <2>2. pos' \in 0 .. obj_nr_per_blk
    <3>1. obj_nr_per_blk \in Nat
      BY Geometry DEF obj_nr_per_blk
    <3> QED BY <3>1 DEF GCNextSource
  <2> QED BY <2>1, <2>2 DEF GInv, GCTypeOK, TypeOK, GCNextSource, vars, stats, act
<1> QED BY <1>1, <1>2, <1>3 DEF GInv, GCNextSource, vars, stats, Agree

\* The slot GC reads in its source.
LEMMA FoundType ==
    ASSUME GInv, pc = "copy", pos < obj_nr_per_blk
    PROVE  Found \in Content
<1>1. pos \in Nat /\ pos < obj_nr_per_page * npages
  <2>1. obj_nr_per_blk \in Nat
    BY Geometry DEF obj_nr_per_blk
  <2> QED BY <2>1 DEF GInv, GCTypeOK, obj_nr_per_blk
<1>2. pos \div obj_nr_per_page \in Page /\ pos % obj_nr_per_page \in Obj
  BY <1>1, Geometry, PositionInBlock DEF Page, Obj
<1>3. blk_idx \in Blk /\ media \in [Blk -> [Page -> PageContent]]
  BY DEF GInv, GCTypeOK, TypeOK
<1> QED BY <1>2, <1>3 DEF Found, PageContent

LEMMA MovesGInv ==
    ASSUME GInv, pc = "copy", pos < obj_nr_per_blk, destn_pg_idx < npages, GCMoves
    PROVE  /\ nat' \in [Id -> NatEntry] /\ map' \in Bitmap /\ Levels(map')
           /\ media' \in [Blk -> [Page -> PageContent]]
           /\ gc_buf_destn_page' \in PageContent /\ destn_page_obj_count' \in Obj
           /\ blk_destn' \in Blk /\ destn_pg_idx' \in 0 .. npages
<1>1. /\ blk_destn \in Blk /\ destn_pg_idx \in Page /\ destn_page_obj_count \in Obj
      /\ map \in Bitmap /\ Levels(map) /\ addr_destn \in Blk /\ Found \in Content
      /\ gc_buf_destn_page \in PageContent /\ destn_pg_idx \in Nat
  <2>1. destn_pg_idx \in 0 .. npages /\ npages \in Nat
    BY Geometry DEF GInv, GCTypeOK
  <2>2. destn_pg_idx \in Page /\ destn_pg_idx \in Nat
    BY <2>1 DEF Page
  <2> QED BY <2>2, FoundType DEF GInv, GCTypeOK, TypeOK
<1>2. map' \in Bitmap /\ Levels(map')
  <2>1. {destn_page_obj_count} \in SUBSET Obj
    BY <1>1
  <2> QED BY <1>1, <2>1, MarkingIsSound DEF GCMoves
<1>3. nat' \in [Id -> NatEntry]
  <2>1. nat \in [Id -> NatEntry]
    BY DEF GInv, GCTypeOK, TypeOK
  <2>2. [state |-> "WRIT", blk |-> blk_destn, page |-> destn_pg_idx,
         obj |-> destn_page_obj_count] \in NatEntry
    BY <1>1 DEF NatEntry, NatState
  <2> QED BY <2>1, <2>2 DEF GCMoves
<1>4. gc_buf_destn_page' \in PageContent
  BY <1>1 DEF GCMoves, PutFound, PageContent
<1>5. media' \in [Blk -> [Page -> PageContent]]
  <2>1. UNCHANGED media \/ Program(addr_destn, destn_pg_idx, gc_buf_destn_page')
    BY DEF GCMoves, PutFound
  <2>2. TypeOK
    BY DEF GInv, GCTypeOK
  <2> QED BY <1>1, <1>4, <2>1, <2>2, ProgramAnyType DEF TypeOK
<1>6. destn_page_obj_count' \in Obj
  BY <1>1, Geometry DEF GCMoves, PutFound, Obj
<1>7. blk_destn' \in Blk
  BY <1>1, DestnOrType DEF GCMoves, PutFound
<1>8. destn_pg_idx' \in 0 .. npages
  BY <1>1, Geometry DEF GCMoves, PutFound, Page
<1> QED BY <1>2, <1>3, <1>4, <1>5, <1>6, <1>7, <1>8
LEMMA SlotGInv ==
    ASSUME GInv, GCSlot
    PROVE  GInv'
<1>1. pos' \in 0 .. obj_nr_per_blk
  <2>1. obj_nr_per_blk \in Nat
    BY Geometry DEF obj_nr_per_blk
  <2> QED BY <2>1 DEF GInv, GCTypeOK, GCSlot, NextPos
<1>2. UNCHANGED <<bitmap_vblk, stats, act, w_buf, blk_idx, addr_destn>>
  BY DEF GCSlot
<1>3. CASE GCMoves /\ destn_pg_idx < npages /\ UNCHANGED pc
  <2>1. /\ nat' \in [Id -> NatEntry] /\ map' \in Bitmap /\ Levels(map')
        /\ media' \in [Blk -> [Page -> PageContent]]
        /\ gc_buf_destn_page' \in PageContent /\ destn_page_obj_count' \in Obj
        /\ blk_destn' \in Blk /\ destn_pg_idx' \in 0 .. npages
    BY <1>3, MovesGInv DEF GCSlot
  <2>2. TypeOK'
    BY <1>2, <2>1 DEF GInv, GCTypeOK, TypeOK, stats, act
  <2>3. GCTypeOK'
    BY <1>1, <1>2, <1>3, <2>1, <2>2 DEF GInv, GCTypeOK
  <2> QED BY <1>2, <1>3, <2>1, <2>3 DEF GInv, Agree, stats
<1>4. CASE /\ UNCHANGED <<nat, map, media, blk_destn, destn_pg_idx,
                          destn_page_obj_count, gc_buf_destn_page>>
           /\ UNCHANGED pc \/ pc' = "crashed"
  <2>1. TypeOK'
    BY <1>2, <1>4 DEF GInv, GCTypeOK, TypeOK, stats, act
  <2>2. GCTypeOK'
    BY <1>1, <1>2, <1>4, <2>1 DEF GInv, GCTypeOK
  <2> QED BY <1>2, <1>4, <2>2 DEF GInv, Agree, stats
<1> QED BY <1>3, <1>4 DEF GCSlot

LEMMA EraseGInv ==
    ASSUME GInv, GCErase
    PROVE  GInv'
<1>1. blk_idx \in Blk /\ TypeOK /\ Agree /\ map \in Bitmap /\ Levels(map)
  BY DEF GInv, GCTypeOK, TypeOK, GCErase
<1>2. Agree' /\ all_dead_obj_nr' \in Nat /\ blk_dead_obj_nr' \in [Blk -> Nat]
  BY <1>1, ErasedStatsAgree DEF GCErase
<1>3. map' \in Bitmap /\ Levels(map')
  BY <1>1, ErasedMapIsSound DEF GCErase
<1>4. media' \in [Blk -> [Page -> PageContent]]
  <2>1. [p \in Page |-> Erased] \in [Page -> PageContent]
    BY ZeroIsContent DEF Erased, PageContent
  <2>2. media' = [media EXCEPT ![blk_idx] = [p \in Page |-> Erased]]
    BY DEF GCErase
  <2> QED BY <1>1, <2>1, <2>2 DEF TypeOK
<1>5. TypeOK'
  BY <1>1, <1>2, <1>3, <1>4 DEF TypeOK, GCErase, act
<1>6. blk_idx' \in 0 .. data_blk_nr
  BY <1>1, Geometry DEF GCErase, Blk
<1>7. pos' \in 0 .. obj_nr_per_blk
  <2>1. obj_nr_per_blk \in Nat
    BY Geometry DEF obj_nr_per_blk
  <2> QED BY <2>1 DEF GCErase
<1>8. GCTypeOK'
  BY <1>5, <1>6, <1>7 DEF GInv, GCTypeOK, GCErase
<1> QED BY <1>2, <1>3, <1>8 DEF GInv, GCErase

LEMMA EndGInv ==
    ASSUME GInv, GCEnd
    PROVE  GInv'
<1> DEFINE n == destn_page_obj_count
           rest == n .. obj_nr_per_page - 1
           padded == [o \in Obj |-> IF o < n THEN gc_buf_destn_page[o] ELSE Zero]
<1>1. /\ n \in Obj /\ blk_destn \in Blk /\ gc_buf_destn_page \in PageContent
      /\ map \in Bitmap /\ Levels(map) /\ TypeOK
  BY DEF GInv, GCTypeOK, TypeOK
<1>2. n \in Page /\ rest \in SUBSET Obj
  BY <1>1, Geometry, GCGeometry DEF Obj, Page
<1>3. padded \in PageContent
  BY <1>1, ZeroIsContent DEF PageContent
<1>4. map' \in Bitmap /\ Levels(map')
  <2>1. map' = map \/ map' = SetObjState(map, blk_destn, n, rest, "DEAD")
    BY DEF GCEnd
  <2> HIDE DEF n, rest
  <2> QED BY <1>1, <1>2, <2>1, MarkingIsSound
<1>5. media' \in [Blk -> [Page -> PageContent]]
  <2>1. UNCHANGED media \/ Program(blk_destn, destn_pg_idx, padded)
    BY DEF GCEnd
  <2> HIDE DEF padded
  <2>2. CASE UNCHANGED media
    BY <1>1, <2>2 DEF TypeOK
  <2>3. CASE Program(blk_destn, destn_pg_idx, padded)
    BY <1>1, <1>3, <2>3, ProgramAnyType
  <2> QED BY <2>1, <2>2, <2>3
<1>6. TypeOK'
  BY <1>1, <1>4, <1>5 DEF TypeOK, GCEnd, act, stats
<1>7. GCTypeOK'
  <2>1. 0 \in Blk /\ 0 \in Obj /\ 0 \in 0 .. data_blk_nr /\ 0 \in 0 .. npages
    BY Geometry DEF Blk, Obj
  <2>2. 0 \in 0 .. obj_nr_per_blk
    <3>1. obj_nr_per_blk \in Nat
      BY Geometry DEF obj_nr_per_blk
    <3> QED BY <3>1
  <2>3. Erased \in PageContent
    BY ZeroIsContent DEF Erased, PageContent
  <2>4. LocalsEnd /\ pc' = "idle"
    BY DEF GCEnd
  <2> QED BY <1>6, <2>1, <2>2, <2>3, <2>4 DEF GCTypeOK, LocalsEnd
<1>8. Agree'
  BY DEF GInv, Agree, GCEnd, stats
<1> QED BY <1>4, <1>7, <1>8 DEF GInv, GCEnd

\* Every step of any use of GC.
LEMMA StepGInv ==
    ASSUME GInv, (([Next]_vars /\ UNCHANGED gcvars) \/ GCBegin \/ GCStep)
    PROVE  GInv'
BY CallGInv, BeginGInv, SourceGInv, SlotGInv, EraseGInv, EndGInv DEF GCStep

\* The types, the levels of the bitmap and the garbage counters are right in
\* every state of any use of GC (MetaBlkArea::GC and the calls between).
THEOREM GCInvariant == GCSpec => []GInv
<1>1. GInv /\ [GCNext]_gvars => GInv'
  <2> SUFFICES ASSUME GInv, [GCNext]_gvars PROVE GInv'
    OBVIOUS
  <2>1. ([Next]_vars /\ UNCHANGED gcvars) \/ GCBegin \/ GCStep
    BY DEF GCNext, gvars
  <2> QED BY <2>1, StepGInv
<1> QED BY GCInitInv, <1>1, PTL DEF GCSpec

\* The garbage counters agree however GC is used: whatever the objects per
\* page, and even when GC copies a page to the wrong block.
THEOREM CountersTheorem == GCSpec => []CountersAgree
<1>1. GInv => Agree
  BY DEF GInv
<1> QED BY GCInvariant, CountersAgreeIsAgree, <1>1, PTL

\* So do the levels of the bitmap.
THEOREM GCLevelsTheorem == GCSpec => []LevelsAgree
<1>1. GInv => LevelsAgree
  BY LevelsExactIsLevels, ExactLevelsAgree DEF GInv
<1> QED BY GCInvariant, <1>1, PTL

(***************************************************************************)
(* Garbage collection by its one caller: a page is one slot.               *)
(***************************************************************************)

\* What the program leaves empty: a block besides the active one.
RoomToCollect == test_size < (data_blk_nr - 1) * npages

St(b, p) == map.obj[b][p][0]
At(b, p) == media[b][p][0]

\* The slots of the source that GC is done with.
Behind(b, p) == pc = "copy" /\ b = blk_idx /\ p < pos

\* What is on the medium is what the bitmap says is taken.
TakenIsWritten == \A b \in Blk, p \in Page : St(b, p) = "FREE" <=> media[b][p] = Erased

\* The object in a slot is in the NAT, with this slot: written, or deleted
\* and its slot DEAD.
SlotsAreKnown ==
    \A b \in Blk, p \in Page :
      St(b, p) # "FREE" /\ ~Behind(b, p) =>
        /\ At(b, p) \in Object
        /\ nat[At(b, p).id].blk = b /\ nat[At(b, p).id].page = p
        /\ nat[At(b, p).id].state = IF St(b, p) = "USED" THEN "WRIT" ELSE "FREE"

\* A written object is in its slot.
ObjectsAreThere ==
    \A id \in Id :
      nat[id].state = "WRIT" =>
        LET b == nat[id].blk
            p == nat[id].page
        IN  St(b, p) # "FREE" /\ ~Behind(b, p) /\ At(b, p).id = id

\* Counted garbage is there.
CountedIsDead ==
    \A b \in Blk : blk_dead_obj_nr[b] > 0 => \E p \in Page : St(b, p) = "DEAD"

Empty == {b \in Blk : map.blk[b] = "EMPT" /\ b # blk_act}

\* The ids that are taken.
Taken == {id \in Id : nat[id].state # "FREE"}

\* Objects are written before anything is deleted.
Filling ==
    phase = "fill" =>
      /\ pc = "idle" /\ IInv
      /\ \A b \in Blk, p \in Page : St(b, p) # "DEAD"
      /\ Cardinality(Taken) <= test_size

\* Between collections there is an empty block besides the active one.
Idle == pc = "idle" => Empty # {} /\ blk_idx = 0 /\ destn_pg_idx = 0

Spare == Empty \ {blk_destn}

\* Pages left to copy to.
PagesLeft == Cardinality(Spare) * npages + npages - destn_pg_idx

\* Live objects of the source that are still to be copied.
ToMove == {p \in Page : p >= pos /\ St(blk_idx, p) = "USED"}

\* The destination is blank from its next page on and holds no garbage, and
\* the blocks that GC has passed have none that it could reclaim.
Collecting ==
    pc # "idle" =>
      /\ phase = "thin" /\ pc \in {"source", "copy"}
      /\ blk_destn # blk_act /\ destn_pg_idx < npages
      /\ \A p \in Page : /\ St(blk_destn, p) # "DEAD"
                         /\ p >= destn_pg_idx => St(blk_destn, p) = "FREE"
      /\ \A b \in Blk : b < blk_idx => ~Collectable(b)
      /\ pc = "source" => PagesLeft >= npages

\* Each source has garbage, so that it leaves more room than it took.
Copying ==
    pc = "copy" =>
      /\ blk_idx # blk_act /\ blk_idx # blk_destn /\ map.blk[blk_idx] = "FULL"
      /\ PagesLeft >= 1 + Cardinality(ToMove)

World == TakenIsWritten /\ SlotsAreKnown /\ ObjectsAreThere /\ CountedIsDead

MInv ==
    /\ GInv /\ phase \in {"fill", "thin", "over"}
    /\ World
    /\ St(blk_act, page_act) = "FREE"
    /\ Filling /\ Idle /\ Collecting /\ Copying

\* Whole blocks of pages.
LEMMA TimesPages ==
    ASSUME NEW n \in Nat \ {0}
    PROVE  /\ 0 * n = 0
           /\ \A k \in Nat : k * n \in Nat /\ (k + 1) * n = k * n + n
           /\ \A k \in Nat : k >= 1 => k * n >= n
<1>1. \A k \in Nat : k * n \in Nat /\ (k + 1) * n = k * n + n
  OBVIOUS
<1>2. ASSUME NEW k \in Nat, k >= 1 PROVE k * n >= n
  <2>1. k - 1 \in Nat /\ k = (k - 1) + 1
    BY <1>2
  <2>2. k * n = (k - 1) * n + n /\ (k - 1) * n \in Nat
    BY <1>1, <2>1
  <2> QED BY <2>2
<1> QED BY <1>1, <1>2

(***************************************************************************)
(* Blocks of slots.                                                        *)
(***************************************************************************)
LEMMA OneSlot ==
    /\ Obj = {0} /\ 0 \in Obj /\ obj_nr_per_blk = npages
    /\ npages \in Nat \ {0} /\ data_blk_nr \in Nat \ {0} /\ test_size \in Nat
<1>1. Obj = 0 .. 0 /\ npages \in Nat \ {0} /\ data_blk_nr \in Nat \ {0} /\ test_size \in Nat
  BY MainGeometry, Geometry DEF Obj
<1>2. obj_nr_per_blk = 1 * npages
  BY MainGeometry DEF obj_nr_per_blk
<1> QED BY <1>1, <1>2

\* A block is EMPT when all its slots are FREE, and FULL when none is.
LEMMA BlkLevel ==
    ASSUME NEW m \in Bitmap, Levels(m), NEW b \in Blk
    PROVE  /\ m.blk[b] = "EMPT" <=> \A p \in Page : m.obj[b][p][0] = "FREE"
           /\ m.blk[b] = "FULL" <=> \A p \in Page : m.obj[b][p][0] # "FREE"
<1>1. \A p \in Page : m.page[b][p] = IF m.obj[b][p][0] = "FREE" THEN "EMPT" ELSE "FULL"
  BY OneSlot DEF Levels
<1>2. 0 \in Page
  BY Geometry DEF Page
<1>3. m.blk[b] = IF \A p \in Page : m.page[b][p] = "EMPT" THEN "EMPT"
                 ELSE IF \A p \in Page : m.page[b][p] # "EMPT" THEN "FULL"
                 ELSE "PART"
  BY DEF Levels
<1> QED BY <1>1, <1>2, <1>3

\* Marking the one slot of a page.
Marked(r, m, b, p, s) ==
    /\ r \in Bitmap /\ Levels(r)
    /\ \A c \in Blk, q \in Page :
         r.obj[c][q][0] = IF c = b /\ q = p THEN s ELSE m.obj[c][q][0]
    /\ \A c \in Blk : c # b => r.blk[c] = m.blk[c]
    /\ r.blk[b] # "EMPT"

LEMMA MarkSlot ==
    ASSUME NEW m \in Bitmap, Levels(m), NEW b \in Blk, NEW p \in Page,
           NEW s \in {"USED", "DEAD"}
    PROVE  Marked(SetObjState(m, b, p, {0}, s), m, b, p, s)
<1> DEFINE r == SetObjState(m, b, p, {0}, s)
<1>1. {0} \in SUBSET Obj /\ s \in ObjState /\ 0 \in Obj
  BY OneSlot DEF ObjState
<1>2. Marks(r, m, b, p, {0}, s) /\ r \in Bitmap /\ Levels(r)
  BY <1>1, SetObjStateEffect, MarkingIsSound
<1> HIDE DEF r
<1>3. \A c \in Blk, q \in Page :
         r.obj[c][q][0] = IF c = b /\ q = p THEN s ELSE m.obj[c][q][0]
  BY <1>1, <1>2 DEF Marks
<1>4. r.blk[b] # "EMPT"
  BY <1>2, <1>3, BlkLevel
<1>5. Marked(r, m, b, p, s)
  BY <1>2, <1>3, <1>4 DEF Marks, Marked
<1> QED BY <1>5 DEF r

\* The facts about a state that every step uses.
LEMMA MTypes ==
    ASSUME GInv
    PROVE  /\ map \in Bitmap /\ Levels(map)
           /\ nat \in [Id -> NatEntry]
           /\ \A id \in Id : nat[id].blk \in Blk /\ nat[id].page \in Page /\ nat[id].obj = 0
           /\ blk_act \in Blk /\ page_act \in Page /\ obj_act = 0
           /\ blk_destn \in Blk /\ destn_page_obj_count = 0
           /\ destn_pg_idx \in 0 .. npages /\ pos \in 0 .. npages
           /\ blk_idx \in 0 .. data_blk_nr
           /\ blk_dead_obj_nr \in [Blk -> Nat]
           /\ media \in [Blk -> [Page -> PageContent]]
           /\ w_buf \in PageContent /\ gc_buf_destn_page \in PageContent
BY OneSlot DEF GInv, GCTypeOK, TypeOK, NatEntry

LEMMA StType ==
    ASSUME GInv, NEW b \in Blk, NEW p \in Page
    PROVE  St(b, p) \in {"FREE", "USED", "DEAD"}
BY OneSlot, MTypes DEF Bitmap, ObjState, St

\* An object is on a page that is not erased.
LEMMA ObjectIsWritten ==
    ASSUME NEW c, NEW x \in Object, c[0] = x
    PROVE  c # Erased
<1>1. Erased[0] = Raw
  BY OneSlot DEF Erased
<1> QED BY <1>1 DEF Object, Raw, Id

\* An object's id.
LEMMA ObjectId == \A x \in Object : x.id \in Id
BY DEF Object

\* A block with room, as one that is not full, has a FREE slot.
LEMMA NotExhausted ==
    ASSUME GInv, St(blk_act, page_act) = "FREE"
    PROVE  ~Exhausted
BY OneSlot, MTypes DEF Exhausted, St

LEMMA SpareFinite ==
    /\ IsFiniteSet(Empty) /\ IsFiniteSet(Spare)
    /\ Cardinality(Spare) \in Nat /\ Cardinality(Spare) * npages \in Nat
    /\ Spare # {} => Cardinality(Spare) >= 1 /\ Cardinality(Spare) * npages >= npages
    /\ Spare = {} => Cardinality(Spare) * npages = 0
<1>1. Empty \in SUBSET Blk /\ Spare \in SUBSET Blk
  BY DEF Empty, Spare
<1>2. IsFiniteSet(Empty) /\ IsFiniteSet(Spare) /\ Cardinality(Spare) \in Nat
  BY <1>1, BlkFinite, FS_Subset, FS_CardinalityType
<1>3. Spare = {} <=> Cardinality(Spare) = 0
  BY <1>2, FS_EmptySet
<1>4. \A k \in Nat : k * npages \in Nat /\ (k >= 1 => k * npages >= npages) /\ 0 * npages = 0
  BY OneSlot, TimesPages
<1> QED BY <1>2, <1>3, <1>4

(***************************************************************************)
(* Filling: the objects leave a block empty.                               *)
(***************************************************************************)
FillState ==
    /\ GInv /\ IInv /\ SlotsAreKnown /\ pc = "idle"
    /\ \A b \in Blk, p \in Page : St(b, p) # "DEAD"
    /\ Cardinality(Taken) <= test_size

HasEmpty == Empty # {}

\* The slots of all blocks but one are more than the objects, and each slot
\* in use is the slot of an object of its own.
LEMMA FillingLeavesEmpty == RoomToCollect /\ FillState => HasEmpty
<1> SUFFICES ASSUME RoomToCollect, FillState, Empty = {} PROVE FALSE
  BY DEF HasEmpty
<1> USE DEF FillState
<1> DEFINE others == Blk \ {blk_act}
           T == others \X Page
           own == [s \in T |-> At(s[1], s[2]).id]
<1>1. \A b \in others, p \in Page : St(b, p) # "FREE"
  <2>1. CASE Exhausted
    BY <2>1, OneSlot DEF Exhausted, St
  <2>2. CASE ~Exhausted
    <3> SUFFICES ASSUME NEW b \in others PROVE \A p \in Page : St(b, p) # "FREE"
      OBVIOUS
    <3>1. Blank(b) \/ Sealed(b)
      BY <2>2 DEF IInv, LogShape
    <3>2. CASE Sealed(b)
      BY <3>2, OneSlot DEF Sealed, NoneFree, St
    <3>3. CASE Blank(b)
      <4>1. \A p \in Page : map.obj[b][p][0] = "FREE"
        BY <3>3, OneSlot DEF Blank, AllFree
      <4>2. map.blk[b] = "EMPT"
        BY <4>1, MTypes, BlkLevel
      <4> QED BY <4>2 DEF Empty
    <3> QED BY <3>1, <3>2, <3>3
  <2> QED BY <2>1, <2>2
<1>2. ASSUME NEW b \in others, NEW p \in Page
      PROVE  /\ At(b, p).id \in Taken
             /\ nat[At(b, p).id].blk = b /\ nat[At(b, p).id].page = p
  <2>1. St(b, p) = "USED"
    BY <1>1, StType
  <2>2. ~Behind(b, p)
    BY DEF Behind
  <2>3. /\ At(b, p) \in Object
        /\ nat[At(b, p).id].blk = b /\ nat[At(b, p).id].page = p
        /\ nat[At(b, p).id].state = "WRIT"
    BY <2>1, <2>2 DEF SlotsAreKnown
  <2> QED BY <2>3, ObjectId DEF Taken
<1>3. own \in Injection(T, Taken)
  <2>1. own \in [T -> Taken]
    BY <1>2
  <2>2. ASSUME NEW s \in T, NEW t \in T, own[s] = own[t] PROVE s = t
    <3>1. s[1] \in others /\ s[2] \in Page /\ t[1] \in others /\ t[2] \in Page
      OBVIOUS
    <3>2. s[1] = t[1] /\ s[2] = t[2]
      BY <1>2, <2>2, <3>1
    <3> QED BY <3>2
  <2> HIDE DEF own, T
  <2> QED BY <2>1, <2>2 DEF Injection, IsInjective
<1>4. IsFiniteSet(Taken) /\ Cardinality(Taken) \in Nat
  <2>1. IsFiniteSet(Id)
    BY Geometry, FS_Interval DEF Id
  <2>2. Taken \in SUBSET Id
    BY DEF Taken
  <2> QED BY <2>1, <2>2, FS_Subset, FS_CardinalityType
<1>5. Cardinality(T) <= Cardinality(Taken)
  <2> HIDE DEF T, own
  <2> QED BY <1>3, <1>4, FS_Injection DEF ExistsInjection
<1>6. Cardinality(T) = (data_blk_nr - 1) * npages
  <2>1. blk_act \in Blk
    BY MTypes
  <2>2. IsFiniteSet(others) /\ Cardinality(others) = data_blk_nr - 1
    BY <2>1, BlkFinite, FS_RemoveElement
  <2> HIDE DEF others
  <2> QED BY <2>2, PageFinite, FS_Product
<1> HIDE DEF T, own, others
<1>7. (data_blk_nr - 1) * npages \in Nat
  BY OneSlot
<1> QED BY <1>4, <1>5, <1>6, <1>7, OneSlot DEF RoomToCollect

\* The active slot is the next one to be written.
LEMMA ActiveSlotIsFree == GInv /\ IInv /\ HasEmpty => St(blk_act, page_act) = "FREE"
<1> SUFFICES ASSUME GInv, IInv, HasEmpty PROVE St(blk_act, page_act) = "FREE"
  OBVIOUS
<1>1. PICK b \in Blk : map.blk[b] = "EMPT"
  BY DEF HasEmpty, Empty
<1>2. 0 \in Page /\ St(b, 0) = "FREE"
  BY <1>1, MTypes, BlkLevel, Geometry DEF St, Page
<1>3. ~Exhausted
  BY <1>2, OneSlot DEF Exhausted, St
<1> QED BY <1>3, OneSlot, MTypes DEF IInv, LogShape, Ahead, St, Page
LEMMA MainInitInv == ASSUME RoomToCollect PROVE MainInit => MInv
<1> SUFFICES ASSUME MainInit PROVE MInv
  OBVIOUS
<1>1. GInv /\ IInv /\ pc = "idle" /\ phase = "fill"
  BY GCInitInv, InitInv DEF MainInit, GCInit
<1>2. \A b \in Blk, p \in Page : St(b, p) = "FREE" /\ media[b][p] = Erased
  BY OneSlot DEF MainInit, GCInit, Init, St
<1>3. \A id \in Id : nat[id].state = "FREE"
  BY DEF MainInit, GCInit, Init
<1>4. \A b \in Blk : blk_dead_obj_nr[b] = 0
  BY DEF MainInit, GCInit, Init
<1>5. World
  BY <1>2, <1>3, <1>4 DEF World, TakenIsWritten, SlotsAreKnown, ObjectsAreThere, CountedIsDead
<1>6. FillState
  <2>1. Taken = {}
    BY <1>3 DEF Taken
  <2>2. Cardinality(Taken) <= test_size
    BY <2>1, FS_EmptySet, OneSlot
  <2> QED BY <1>1, <1>2, <1>5, <2>2 DEF World, FillState
<1>7. HasEmpty
  BY <1>6, FillingLeavesEmpty
<1>8. St(blk_act, page_act) = "FREE"
  BY <1>1, <1>7, ActiveSlotIsFree
<1>9. Filling
  BY <1>6 DEF Filling, FillState
<1>10. Idle /\ Collecting /\ Copying
  BY <1>1, <1>7 DEF Idle, Collecting, Copying, HasEmpty, MainInit, GCInit
<1> QED BY <1>1, <1>5, <1>8, <1>9, <1>10 DEF MInv

LEMMA TakenFinite == IsFiniteSet(Id) /\ \A S \in SUBSET Id : IsFiniteSet(S) /\ Cardinality(S) \in Nat
<1>1. IsFiniteSet(Id)
  BY Geometry, FS_Interval DEF Id
<1> QED BY <1>1, FS_Subset, FS_CardinalityType

\* A step of filling that leads to such a state again.
LEMMA FilledInv ==
    ASSUME RoomToCollect, MInv, GInv', FillState', World',
           phase = "fill", UNCHANGED <<gcvars, phase>>
    PROVE  MInv'
<1>1. HasEmpty'
  <2>1. RoomToCollect'
    BY DEF RoomToCollect
  <2> QED BY <2>1, FillingLeavesEmpty, PTL
<1>2. (St(blk_act, page_act) = "FREE")'
  <2>1. IInv'
    BY DEF FillState
  <2> QED BY <1>1, <2>1, ActiveSlotIsFree, PTL
<1>3. Filling'
  BY DEF Filling, FillState
<1>4. Idle' /\ Collecting' /\ Copying'
  BY <1>1 DEF MInv, Filling, Idle, Collecting, Copying, HasEmpty, gcvars
<1>5. phase' \in {"fill", "thin", "over"}
  BY DEF MInv
<1> QED BY <1>2, <1>3, <1>4, <1>5 DEF MInv

LEMMA AllocM ==
    ASSUME RoomToCollect, MInv, phase = "fill", UNCHANGED <<gcvars, phase>>,
           \A i \in Id : nat[i].state # "USED",
           Cardinality({i \in Id : nat[i].state = "WRIT"}) < test_size,
           NEW id \in Id, AllocObj(id)
    PROVE  MInv'
<1>1. GInv' /\ IInv'
  <2>1. [Next]_vars
    BY DEF Next
  <2>2. GInv'
    BY <2>1, StepGInv DEF MInv
  <2> QED BY <2>2, AllocInv DEF MInv, GInv, GCTypeOK, Filling
<1>2. /\ nat[id].state = "FREE" /\ nat' = [nat EXCEPT ![id].state = "USED"]
      /\ UNCHANGED <<map, media, blk_dead_obj_nr>> /\ pc = "idle" /\ pc' = "idle"
  BY DEF AllocObj, stats, MInv, Filling, gcvars
<1>3. \A i \in Id : /\ nat'[i].blk = nat[i].blk /\ nat'[i].page = nat[i].page
                    /\ nat'[i].state = IF i = id THEN "USED" ELSE nat[i].state
  BY <1>2, MTypes DEF MInv, NatEntry
<1>4. \A b \in Blk, p \in Page : ~Behind(b, p) /\ ~Behind(b, p)'
  BY <1>2 DEF Behind
<1>5. World'
  <2>1. TakenIsWritten' /\ CountedIsDead'
    BY <1>2 DEF MInv, World, TakenIsWritten, CountedIsDead, St
  <2>2. SlotsAreKnown'
    <3> SUFFICES ASSUME NEW b \in Blk, NEW p \in Page, map'.obj[b][p][0] # "FREE"
                 PROVE  /\ media'[b][p][0] \in Object
                        /\ nat'[media'[b][p][0].id].blk = b /\ nat'[media'[b][p][0].id].page = p
                        /\ nat'[media'[b][p][0].id].state =
                             IF map'.obj[b][p][0] = "USED" THEN "WRIT" ELSE "FREE"
      BY DEF SlotsAreKnown, St, At
    <3>1. St(b, p) = "USED"
      BY <1>2, StType DEF MInv, Filling, St
    <3>2. /\ At(b, p) \in Object
          /\ nat[At(b, p).id].blk = b /\ nat[At(b, p).id].page = p
          /\ nat[At(b, p).id].state = "WRIT"
      BY <1>4, <3>1 DEF MInv, World, SlotsAreKnown
    <3>3. At(b, p).id # id /\ At(b, p).id \in Id
      BY <1>2, <3>2, ObjectId
    <3> QED BY <1>2, <1>3, <3>1, <3>2, <3>3 DEF At, St
  <2>3. ObjectsAreThere'
    <3> SUFFICES ASSUME NEW i \in Id, nat'[i].state = "WRIT"
                 PROVE  /\ map'.obj[nat'[i].blk][nat'[i].page][0] # "FREE"
                        /\ media'[nat'[i].blk][nat'[i].page][0].id = i
      BY <1>2 DEF ObjectsAreThere, St, At, Behind
    <3> QED BY <1>2, <1>3 DEF MInv, World, ObjectsAreThere, St, At
  <2> QED BY <2>1, <2>2, <2>3 DEF World
<1>6. FillState'
  <2> DEFINE W == {i \in Id : nat[i].state = "WRIT"}
  <2>1. Taken' = W \cup {id} /\ id \notin W
    <3>1. \A i \in Id : nat[i].state \in {"FREE", "USED", "WRIT"}
      BY MTypes DEF MInv, NatEntry, NatState
    <3> QED BY <1>2, <1>3, <3>1 DEF Taken
  <2>2. IsFiniteSet(W) /\ Cardinality(W) \in Nat /\ Cardinality(W) < test_size
    BY TakenFinite
  <2> HIDE DEF W
  <2>3. Cardinality(Taken') <= test_size
    <3>1. Cardinality(W \cup {id}) = Cardinality(W) + 1
      BY <2>1, <2>2, FS_AddElement
    <3>2. Cardinality(W) + 1 <= test_size
      BY <2>2, OneSlot
    <3> QED BY <2>1, <3>1, <3>2
  <2>4. \A b \in Blk, p \in Page : map'.obj[b][p][0] # "DEAD"
    BY <1>2 DEF MInv, Filling, St
  <2> QED BY <1>1, <1>2, <1>5, <2>3, <2>4 DEF FillState, World, St
<1> QED BY <1>1, <1>5, <1>6, FilledInv
LEMMA WriteM ==
    ASSUME RoomToCollect, MInv, phase = "fill", UNCHANGED <<gcvars, phase>>,
           NEW id \in Id, NEW v \in Value, nat[id].state = "USED", WriteByObjId(id, v)
    PROVE  MInv'
<1>1. GInv' /\ IInv'
  <2>1. [Next]_vars
    BY DEF Next
  <2>2. GInv'
    BY <2>1, StepGInv DEF MInv
  <2> QED BY <2>2, WriteInv DEF MInv, GInv, GCTypeOK, Filling
<1> DEFINE x == [id |-> id, val |-> v]
<1> PICK ba \in Blk, pa \in Page : ba = blk_act /\ pa = page_act
  BY MTypes DEF MInv
<1>2. /\ pc = "idle" /\ pc' = "idle" /\ x \in Object
      /\ obj_act = 0 /\ St(ba, pa) = "FREE" /\ media[ba][pa] = Erased
      /\ UNCHANGED blk_dead_obj_nr
  BY MTypes DEF MInv, World, TakenIsWritten, Filling, gcvars, Object, WriteByObjId, CountDead, stats
<1>3. \A b \in Blk, p \in Page : ~Behind(b, p) /\ ~Behind(b, p)'
  BY <1>2 DEF Behind
<1>4. \A i \in Id :
         /\ nat'[i].state = IF i = id THEN "WRIT" ELSE nat[i].state
         /\ nat'[i].blk = IF i = id THEN ba ELSE nat[i].blk
         /\ nat'[i].page = IF i = id THEN pa ELSE nat[i].page
  BY MTypes DEF MInv, WriteByObjId
<1>5. \A b \in Blk, p \in Page :
         map'.obj[b][p][0] = IF b = ba /\ p = pa THEN "USED" ELSE St(b, p)
  <2>1. map' = SetObjState(map, ba, pa, {0}, "USED")
    BY <1>2 DEF WriteByObjId, KillSlot
  <2>2. map \in Bitmap /\ Levels(map)
    BY MTypes DEF MInv
  <2>3. Marked(map', map, ba, pa, "USED")
    BY <2>1, <2>2, MarkSlot
  <2> QED BY <2>3 DEF Marked, St
<1>6. \A b \in Blk, p \in Page :
         media'[b][p] = IF b = ba /\ p = pa THEN w_buf' ELSE media[b][p]
  <2>1. w_buf' \in PageContent /\ w_buf'[0] = x
    <3>1. w_buf \in [Obj -> Content] /\ w_buf' = [w_buf EXCEPT ![0] = x]
      BY <1>2, MTypes DEF MInv, PageContent, WriteByObjId
    <3> HIDE DEF x
    <3> QED BY <1>2, <3>1, OneSlot DEF PageContent, Content
  <2>2. w_buf' # Erased
    BY <1>2, <2>1, ObjectIsWritten
  <2>3. ActAddrAdd(map', 1).obj = 0
    BY MainGeometry, <1>2 DEF ActAddrAdd, FindNextActBlk
  <2>4. Program(ba, pa, w_buf')
    BY <2>3 DEF WriteByObjId
  <2>5. TypeOK /\ ~Programmed(ba, pa)
    BY <1>2 DEF MInv, GInv, GCTypeOK, Programmed
  <2> QED BY <2>1, <2>2, <2>4, <2>5, ProgramErased
<1>7. w_buf'[0] = x /\ w_buf' # Erased
  <2>1. w_buf \in [Obj -> Content] /\ w_buf' = [w_buf EXCEPT ![0] = x]
    BY <1>2, MTypes DEF MInv, PageContent, WriteByObjId
  <2>2. w_buf'[0] = x
    BY <2>1, OneSlot
  <2> HIDE DEF x
  <2> QED BY <1>2, <2>2, ObjectIsWritten
<1>8. World'
  <2>1. TakenIsWritten'
    <3>1. \A b \in Blk, p \in Page :
             map'.obj[b][p][0] = "FREE" <=> media'[b][p] = Erased
      BY <1>5, <1>6, <1>7 DEF MInv, World, TakenIsWritten
    <3> QED BY <3>1 DEF TakenIsWritten, St
  <2>2. SlotsAreKnown'
    <3> SUFFICES ASSUME NEW b \in Blk, NEW p \in Page, map'.obj[b][p][0] # "FREE"
                 PROVE  /\ media'[b][p][0] \in Object
                        /\ nat'[media'[b][p][0].id].blk = b /\ nat'[media'[b][p][0].id].page = p
                        /\ nat'[media'[b][p][0].id].state =
                             IF map'.obj[b][p][0] = "USED" THEN "WRIT" ELSE "FREE"
      BY DEF SlotsAreKnown, St, At
    <3>1. CASE b = ba /\ p = pa
      BY <1>2, <1>4, <1>5, <1>6, <1>7, <3>1
    <3>2. CASE ~(b = ba /\ p = pa)
      <4>1. map'.obj[b][p][0] = St(b, p) /\ media'[b][p][0] = At(b, p)
        BY <1>5, <1>6, <3>2 DEF At
      <4>2. St(b, p) = "USED"
        BY <4>1, StType DEF MInv, Filling
      <4>3. /\ At(b, p) \in Object
            /\ nat[At(b, p).id].blk = b /\ nat[At(b, p).id].page = p
            /\ nat[At(b, p).id].state = "WRIT"
        BY <1>3, <4>2 DEF MInv, World, SlotsAreKnown
      <4>4. At(b, p).id # id /\ At(b, p).id \in Id
        BY <4>3, ObjectId
      <4> QED BY <1>4, <4>1, <4>2, <4>3, <4>4
    <3> QED BY <3>1, <3>2
  <2>3. ObjectsAreThere'
    <3> SUFFICES ASSUME NEW i \in Id, nat'[i].state = "WRIT"
                 PROVE  /\ map'.obj[nat'[i].blk][nat'[i].page][0] # "FREE"
                        /\ media'[nat'[i].blk][nat'[i].page][0].id = i
      BY <1>2 DEF ObjectsAreThere, St, At, Behind
    <3>1. CASE i = id
      BY <1>4, <1>5, <1>6, <1>7, <3>1
    <3>2. CASE i # id
      <4>1. PICK b \in Blk, p \in Page : b = nat[i].blk /\ p = nat[i].page
        BY MTypes DEF MInv
      <4>2. nat'[i].blk = b /\ nat'[i].page = p /\ nat[i].state = "WRIT"
        BY <1>4, <3>2, <4>1
      <4>3. St(b, p) # "FREE" /\ At(b, p).id = i
        BY <4>1, <4>2 DEF MInv, World, ObjectsAreThere
      <4>4. ~(b = ba /\ p = pa)
        BY <1>2, <4>3
      <4> QED BY <1>5, <1>6, <4>2, <4>3, <4>4 DEF At
    <3> QED BY <3>1, <3>2
  <2>4. CountedIsDead'
    <3> SUFFICES ASSUME NEW b \in Blk, blk_dead_obj_nr[b] > 0 PROVE FALSE
      BY <1>2 DEF CountedIsDead
    <3> QED BY DEF MInv, Filling, World, CountedIsDead
  <2> QED BY <2>1, <2>2, <2>3, <2>4 DEF World
<1>9. FillState'
  <2>1. Taken' = Taken
    BY <1>4 DEF Taken
  <2>2. \A b \in Blk, p \in Page : map'.obj[b][p][0] # "DEAD"
    BY <1>5 DEF MInv, Filling
  <2>3. Cardinality(Taken) <= test_size
    BY DEF MInv, Filling
  <2> QED BY <1>1, <1>2, <1>8, <2>1, <2>2, <2>3 DEF FillState, World, St
<1> QED BY <1>1, <1>8, <1>9, FilledInv

(***************************************************************************)
(* Deleting.                                                               *)
(***************************************************************************)
LEMMA DeleteM ==
    ASSUME MInv, pc = "idle", phase' = "thin", UNCHANGED gcvars,
           NEW id \in Id, nat[id].state = "WRIT", DeAllocObj(id)
    PROVE  MInv'
<1>1. GInv'
  <2>1. [Next]_vars
    BY DEF Next
  <2> QED BY <2>1, StepGInv DEF MInv
<1> PICK bd \in Blk, pd \in Page : bd = nat[id].blk /\ pd = nat[id].page
  BY MTypes DEF MInv
<1>2. /\ pc' = "idle" /\ UNCHANGED <<media, blk_act, page_act>>
      /\ blk_dead_obj_nr' = [blk_dead_obj_nr EXCEPT ![bd] = @ + 1]
      /\ nat[id].obj = 0
  BY MTypes DEF MInv, gcvars, DeAllocObj, CountDead, act
<1>3. \A b \in Blk, p \in Page : ~Behind(b, p) /\ ~Behind(b, p)'
  BY <1>2 DEF Behind
<1>4. \A i \in Id : /\ nat'[i].blk = nat[i].blk /\ nat'[i].page = nat[i].page
                    /\ nat'[i].state = IF i = id THEN "FREE" ELSE nat[i].state
  BY MTypes DEF MInv, NatEntry, DeAllocObj
<1>5. St(bd, pd) = "USED" /\ At(bd, pd).id = id
  <2>1. St(bd, pd) # "FREE" /\ At(bd, pd).id = id
    BY DEF MInv, World, ObjectsAreThere
  <2>2. nat[id].state = IF St(bd, pd) = "USED" THEN "WRIT" ELSE "FREE"
    BY <1>3, <2>1 DEF MInv, World, SlotsAreKnown
  <2> QED BY <2>1, <2>2
<1>6. Marked(map', map, bd, pd, "DEAD")
  <2>1. map' = SetObjState(map, bd, pd, {0}, "DEAD")
    BY <1>2 DEF DeAllocObj, KillSlot
  <2>2. map \in Bitmap /\ Levels(map)
    BY MTypes DEF MInv
  <2> QED BY <2>1, <2>2, MarkSlot
<1>7. \A b \in Blk, p \in Page :
         map'.obj[b][p][0] = IF b = bd /\ p = pd THEN "DEAD" ELSE St(b, p)
  BY <1>6 DEF Marked, St
<1>8. World'
  <2>1. TakenIsWritten'
    <3>1. \A b \in Blk, p \in Page :
             map'.obj[b][p][0] = "FREE" <=> media'[b][p] = Erased
      BY <1>2, <1>5, <1>7 DEF MInv, World, TakenIsWritten
    <3> QED BY <3>1 DEF TakenIsWritten, St
  <2>2. SlotsAreKnown'
    <3> SUFFICES ASSUME NEW b \in Blk, NEW p \in Page, map'.obj[b][p][0] # "FREE"
                 PROVE  /\ media'[b][p][0] \in Object
                        /\ nat'[media'[b][p][0].id].blk = b /\ nat'[media'[b][p][0].id].page = p
                        /\ nat'[media'[b][p][0].id].state =
                             IF map'.obj[b][p][0] = "USED" THEN "WRIT" ELSE "FREE"
      BY DEF SlotsAreKnown, St, At
    <3>1. St(b, p) # "FREE" /\ media'[b][p][0] = At(b, p)
      BY <1>2, <1>5, <1>7 DEF At
    <3>2. /\ At(b, p) \in Object
          /\ nat[At(b, p).id].blk = b /\ nat[At(b, p).id].page = p
          /\ nat[At(b, p).id].state = IF St(b, p) = "USED" THEN "WRIT" ELSE "FREE"
      BY <1>3, <3>1 DEF MInv, World, SlotsAreKnown
    <3>3. At(b, p).id \in Id
      BY <3>2, ObjectId
    <3>4. CASE b = bd /\ p = pd
      BY <1>4, <1>5, <1>7, <3>1, <3>2, <3>4
    <3>5. CASE ~(b = bd /\ p = pd)
      <4>1. At(b, p).id # id
        BY <3>2, <3>5
      <4> QED BY <1>4, <1>7, <3>1, <3>2, <3>3, <3>5, <4>1
    <3> QED BY <3>4, <3>5
  <2>3. ObjectsAreThere'
    <3> SUFFICES ASSUME NEW i \in Id, nat'[i].state = "WRIT"
                 PROVE  /\ map'.obj[nat'[i].blk][nat'[i].page][0] # "FREE"
                        /\ media'[nat'[i].blk][nat'[i].page][0].id = i
      BY <1>2 DEF ObjectsAreThere, St, At, Behind
    <3>1. PICK b \in Blk, p \in Page : b = nat[i].blk /\ p = nat[i].page
      BY MTypes DEF MInv
    <3>2. nat'[i].blk = b /\ nat'[i].page = p /\ nat[i].state = "WRIT"
      BY <1>4, <3>1
    <3>3. St(b, p) # "FREE" /\ At(b, p).id = i
      BY <3>1, <3>2 DEF MInv, World, ObjectsAreThere
    <3> QED BY <1>2, <1>7, <3>2, <3>3 DEF At
  <2>4. CountedIsDead'
    <3> SUFFICES ASSUME NEW b \in Blk, blk_dead_obj_nr'[b] > 0
                 PROVE  \E p \in Page : map'.obj[b][p][0] = "DEAD"
      BY DEF CountedIsDead, St
    <3>1. CASE b = bd
      BY <1>7, <3>1
    <3>2. CASE b # bd
      <4>1. blk_dead_obj_nr'[b] = blk_dead_obj_nr[b]
        BY <1>2, <3>2, MTypes DEF MInv
      <4>2. PICK p \in Page : St(b, p) = "DEAD"
        BY <4>1 DEF MInv, World, CountedIsDead
      <4> QED BY <1>7, <3>2, <4>2
    <3> QED BY <3>1, <3>2
  <2> QED BY <2>1, <2>2, <2>3, <2>4 DEF World
<1>9. (St(blk_act, page_act) = "FREE")'
  <2>1. /\ blk_act \in Blk /\ page_act \in Page /\ St(blk_act, page_act) = "FREE"
    BY MTypes DEF MInv
  <2> QED BY <1>2, <1>5, <1>7, <2>1 DEF St
<1>10. Idle'
  <2>1. PICK e \in Blk : map.blk[e] = "EMPT" /\ e # blk_act
    BY DEF MInv, Idle, Empty
  <2>2. e # bd
    <3>1. \A p \in Page : St(e, p) = "FREE"
      BY <2>1, MTypes, BlkLevel DEF MInv, St
    <3> QED BY <1>5, <3>1
  <2>3. map'.blk[e] = "EMPT"
    BY <1>6, <2>1, <2>2 DEF Marked
  <2> QED BY <1>2, <2>1, <2>3 DEF MInv, Idle, Empty, gcvars
<1> QED BY <1>1, <1>2, <1>8, <1>9, <1>10 DEF MInv, Filling, Collecting, Copying

\* The flush at the end: no page is open.
LEMMA FinishM ==
    ASSUME MInv, Finish
    PROVE  MInv'
<1>1. /\ UNCHANGED <<nat, map, media, stats, act>> /\ UNCHANGED gcvars
      /\ pc = "idle" /\ phase' = "over"
  BY MTypes DEF MInv, Finish, Flush
<1>2. GInv'
  <2>1. [Next]_vars
    BY DEF Next, Finish
  <2> QED BY <1>1, <2>1, StepGInv DEF MInv
<1>3. World'
  BY <1>1 DEF MInv, World, TakenIsWritten, SlotsAreKnown, ObjectsAreThere, CountedIsDead,
              St, At, Behind, stats, gcvars
<1>4. (St(blk_act, page_act) = "FREE")' /\ Idle'
  BY <1>1 DEF MInv, St, Idle, Empty, act, gcvars
<1> QED BY <1>1, <1>2, <1>3, <1>4 DEF MInv, Filling, Collecting, Copying, gcvars

LEMMA StutterM ==
    ASSUME MInv, UNCHANGED mvars
    PROVE  MInv'
<1>1. UNCHANGED <<vars, gcvars, phase>> /\ UNCHANGED <<nat, map, media, stats, act>>
  BY DEF mvars, gvars, vars
<1>2. GInv'
  BY <1>1, StepGInv DEF MInv
<1>3. World'
  BY <1>1 DEF MInv, World, TakenIsWritten, SlotsAreKnown, ObjectsAreThere, CountedIsDead,
              St, At, Behind, stats, gcvars
<1>4. (St(blk_act, page_act) = "FREE")' /\ Idle'
  BY <1>1 DEF MInv, St, Idle, Empty, act, gcvars
<1>5. Filling'
  <2>1. IInv => IInv'
    BY <1>1, <1>2, InvPreserved DEF GInv, GCTypeOK
  <2> QED BY <1>1, <2>1 DEF MInv, Filling, Taken, St, gcvars
<1>6. Collecting' /\ Copying'
  BY <1>1 DEF MInv, Collecting, Copying, Collectable, PagesLeft, Spare, Empty, ToMove, St,
              stats, act, gcvars
<1> QED BY <1>1, <1>2, <1>3, <1>4, <1>5, <1>6 DEF MInv

(***************************************************************************)
(* Collecting.                                                             *)
(***************************************************************************)
LEMMA WorldStays ==
    ASSUME GInv, World, UNCHANGED <<nat, map, media, stats>>,
           \A b \in Blk, p \in Page : ~Behind(b, p) /\ ~Behind(b, p)'
    PROVE  World'
<1>1. TakenIsWritten' /\ CountedIsDead'
  BY DEF World, TakenIsWritten, CountedIsDead, St, stats
<1>2. SlotsAreKnown'
  <2> SUFFICES ASSUME NEW b \in Blk, NEW p \in Page, map'.obj[b][p][0] # "FREE"
               PROVE  /\ media'[b][p][0] \in Object
                      /\ nat'[media'[b][p][0].id].blk = b /\ nat'[media'[b][p][0].id].page = p
                      /\ nat'[media'[b][p][0].id].state =
                           IF map'.obj[b][p][0] = "USED" THEN "WRIT" ELSE "FREE"
    BY DEF SlotsAreKnown, St, At
  <2> QED BY DEF World, SlotsAreKnown, St, At
<1>3. ObjectsAreThere'
  <2> SUFFICES ASSUME NEW i \in Id, nat'[i].state = "WRIT"
               PROVE  /\ map'.obj[nat'[i].blk][nat'[i].page][0] # "FREE"
                      /\ ~(pc' = "copy" /\ nat'[i].blk = blk_idx' /\ nat'[i].page < pos')
                      /\ media'[nat'[i].blk][nat'[i].page][0].id = i
    BY DEF ObjectsAreThere, St, At, Behind
  <2>1. PICK b \in Blk, p \in Page : b = nat[i].blk /\ p = nat[i].page
    BY MTypes
  <2>2. ~Behind(b, p)'
    OBVIOUS
  <2> QED BY <2>1, <2>2 DEF World, ObjectsAreThere, St, At, Behind
<1> QED BY <1>1, <1>2, <1>3 DEF World

\* The choice of a destination.
LEMMA DestnIsEmpty ==
    ASSUME NEW m, NEW d,
           NEW free, free = {b \in Blk : m.blk[b] = "EMPT" /\ b # blk_act}, free # {}
    PROVE  DestnOr(m, d) \in free
<1>1. free \in SUBSET Blk
  OBVIOUS
<1>2. Min(free) \in free
  BY <1>1, MinIsLeast
<1> QED BY <1>2 DEF DestnOr

LEMMA BeginM ==
    ASSUME MInv, GCBegin, phase = "thin", UNCHANGED phase
    PROVE  MInv'
<1>1. GInv'
  BY StepGInv DEF MInv
<1>2. /\ pc = "idle" /\ pc' = "source" /\ blk_destn' = DestnOr(map, 0)
      /\ UNCHANGED <<nat, map, media, stats, act>>
      /\ UNCHANGED <<blk_idx, pos, destn_pg_idx>>
  BY DEF GCBegin, vars
<1>3. World'
  <2>1. \A b \in Blk, p \in Page : ~Behind(b, p) /\ ~Behind(b, p)'
    BY <1>2 DEF Behind
  <2> QED BY <1>2, <2>1, WorldStays DEF MInv
<1>4. (St(blk_act, page_act) = "FREE")'
  BY <1>2 DEF MInv, St, act
<1>5. PICK d \in Blk : d = blk_destn' /\ d \in Empty
  <2>1. Empty # {}
    BY <1>2 DEF MInv, Idle
  <2>2. DestnOr(map, 0) \in Empty
    BY <2>1, DestnIsEmpty DEF Empty
  <2> QED BY <1>2, <2>2 DEF Empty
<1>6. Collecting'
  <2>1. \A p \in Page : map.obj[d][p][0] = "FREE"
    BY <1>5, MTypes, BlkLevel DEF MInv, Empty
  <2>2. destn_pg_idx' = 0 /\ blk_idx' = 0
    BY <1>2 DEF MInv, Idle
  <2>3. PagesLeft' >= npages
    <3>1. (Cardinality(Spare) * npages)' \in Nat
      <4>1. (Cardinality(Spare) * npages \in Nat)'
        BY SpareFinite, PTL
      <4> QED BY <4>1
    <3> QED BY <2>2, <3>1, OneSlot DEF PagesLeft
  <2>4. blk_destn' # blk_act'
    BY <1>2, <1>5 DEF Empty, act
  <2>5. \A p \in Page : map'.obj[blk_destn'][p][0] = "FREE"
    BY <1>2, <1>5, <2>1
  <2>6. \A b \in Blk : ~(b < blk_idx')
    BY <2>2 DEF Blk
  <2>7. destn_pg_idx' < npages
    BY <2>2, OneSlot
  <2> QED BY <1>2, <2>3, <2>4, <2>5, <2>6, <2>7 DEF Collecting, St
<1> QED BY <1>1, <1>2, <1>3, <1>4, <1>6 DEF MInv, Filling, Idle, Copying

LEMMA SourceM ==
    ASSUME MInv, GCNextSource, phase = "thin", UNCHANGED phase
    PROVE  MInv'
<1>1. GInv' /\ blk_idx' \in Sources /\ \A b \in Sources : blk_idx' <= b
  BY SourceGInv DEF MInv
<1>2. /\ pc = "source" /\ pc' = "copy" /\ pos' = 0
      /\ UNCHANGED <<nat, map, media, stats, act>>
      /\ UNCHANGED <<blk_destn, destn_pg_idx>>
  BY DEF GCNextSource, vars
<1>3. World'
  <2>1. \A b \in Blk, p \in Page : ~Behind(b, p) /\ ~Behind(b, p)'
    BY <1>2, OneSlot DEF Behind, Page
  <2> QED BY <1>2, <2>1, WorldStays DEF MInv
<1>4. (St(blk_act, page_act) = "FREE")'
  BY <1>2 DEF MInv, St, act
<1> PICK s \in Blk : s = blk_idx' /\ Collectable(s)
  BY <1>1 DEF Sources
<1>5. s # blk_destn
  BY DEF GCNextSource, Sources
<1>6. PagesLeft' = PagesLeft /\ PagesLeft >= npages
  BY <1>2 DEF PagesLeft, Spare, Empty, MInv, Collecting, act
<1>7. Collecting'
  <2>1. ASSUME NEW b \in Blk, b < s PROVE ~Collectable(b)
    <3>1. CASE b < blk_idx
      BY <1>2, <3>1 DEF MInv, Collecting
    <3>2. CASE ~(b < blk_idx)
      <4>1. blk_idx \in Nat /\ b \in Nat /\ s \in Nat
        BY MTypes DEF MInv, Blk
      <4>2. b \notin Sources
        BY <1>1, <2>1, <4>1
      <4> QED BY <3>2, <4>1, <4>2 DEF Sources
    <3> QED BY <3>1, <3>2
  <2>2. \A b \in Blk : Collectable(b)' <=> Collectable(b)
    BY <1>2 DEF Collectable, stats, act
  <2> QED BY <1>2, <2>1, <2>2 DEF MInv, Collecting, St, act
<1>8. Copying'
  <2> DEFINE live == {p \in Page : map.obj[s][p][0] = "USED"}
  <2>1. PICK q \in Page : St(s, q) = "DEAD"
    <3>1. blk_dead_obj_nr[s] > 0
      BY DEF Collectable
    <3> QED BY <3>1 DEF MInv, World, CountedIsDead
  <2>2. live \in SUBSET (Page \ {q})
    BY <2>1 DEF St
  <2>3. IsFiniteSet(Page \ {q}) /\ Cardinality(Page \ {q}) = npages - 1
    BY PageFinite, FS_RemoveElement
  <2>4. Cardinality(live) <= npages - 1 /\ Cardinality(live) \in Nat
    <3> HIDE DEF live
    <3>1. IsFiniteSet(live) /\ Cardinality(live) <= Cardinality(Page \ {q})
      BY <2>2, <2>3, FS_Subset
    <3> QED BY <2>3, <3>1, FS_CardinalityType
  <2>5. ToMove' = live
    BY <1>2 DEF ToMove, St, Page
  <2>6. PagesLeft \in Int
    BY SpareFinite, MTypes, OneSlot DEF PagesLeft, MInv
  <2>7. PagesLeft' >= 1 + Cardinality(ToMove')
    <3> HIDE DEF live
    <3> QED BY <1>6, <2>4, <2>5, <2>6, OneSlot
  <2> QED BY <1>2, <1>5, <2>7 DEF Copying, Collectable, act
<1> QED BY <1>1, <1>2, <1>3, <1>4, <1>7, <1>8 DEF MInv, Filling, Idle

\* What GC finds in the slot it looks at.
LEMMA FoundFacts ==
    ASSUME MInv, pc = "copy", pos < npages
    PROVE  /\ blk_idx \in Blk /\ pos \in Page
           /\ St(blk_idx, pos) \in {"USED", "DEAD"}
           /\ Found = At(blk_idx, pos) /\ Found \in Object
           /\ nat[Found.id].blk = blk_idx /\ nat[Found.id].page = pos
           /\ nat[Found.id].state = IF St(blk_idx, pos) = "USED" THEN "WRIT" ELSE "FREE"
           /\ Found.id # 0
           /\ Alive(Found.id) <=> St(blk_idx, pos) = "USED"
<1>1. blk_idx \in Blk /\ pos \in Page
  BY MTypes, OneSlot DEF MInv, GInv, Page
<1>2. pos \div 1 = pos /\ pos % 1 = 0
  BY <1>1 DEF Page
<1>3. Found = At(blk_idx, pos)
  BY <1>2, MainGeometry DEF Found, At
<1>4. St(blk_idx, pos) # "FREE"
  BY <1>1, MTypes, BlkLevel DEF MInv, Copying, St
<1>5. ~Behind(blk_idx, pos)
  BY <1>1 DEF Behind, Page
<1>6. /\ At(blk_idx, pos) \in Object
      /\ nat[At(blk_idx, pos).id].blk = blk_idx /\ nat[At(blk_idx, pos).id].page = pos
      /\ nat[At(blk_idx, pos).id].state = IF St(blk_idx, pos) = "USED" THEN "WRIT" ELSE "FREE"
  BY <1>1, <1>4, <1>5 DEF MInv, World, SlotsAreKnown
<1>7. Found.id \in Id /\ Found.id # 0
  BY <1>3, <1>6, ObjectId DEF Id
<1>8. nat[Found.id].obj = 0
  BY <1>7, MTypes DEF MInv
<1>9. Alive(Found.id) <=> St(blk_idx, pos) = "USED"
  BY <1>3, <1>6, <1>8 DEF Alive, St
<1>10. St(blk_idx, pos) \in {"USED", "DEAD"}
  BY <1>1, <1>4, StType DEF MInv
<1> QED BY <1>1, <1>3, <1>6, <1>7, <1>9, <1>10

LEMMA SkipM ==
    ASSUME MInv, GCSlot, ~Alive(Found.id), UNCHANGED phase
    PROVE  MInv'
<1>1. pc = "copy" /\ pos < npages /\ pos' = pos + 1
  BY OneSlot DEF GCSlot, NextPos
<1>2. /\ blk_idx \in Blk /\ pos \in Page /\ Found.id # 0 /\ St(blk_idx, pos) = "DEAD"
      /\ Found = At(blk_idx, pos) /\ nat[Found.id].state = "FREE"
  BY <1>1, FoundFacts
<1>3. /\ UNCHANGED <<nat, map, media, stats, act, pc, blk_idx>>
      /\ UNCHANGED <<blk_destn, destn_pg_idx>>
  BY <1>2 DEF GCSlot, MayMove
<1>4. GInv'
  BY StepGInv DEF MInv, GCStep
<1>5. \A b \in Blk, p \in Page : Behind(b, p)' <=> Behind(b, p) \/ (b = blk_idx /\ p = pos)
  BY <1>1, <1>2, <1>3 DEF Behind, Page
<1>6. World'
  <2>1. TakenIsWritten' /\ CountedIsDead'
    BY <1>3 DEF MInv, World, TakenIsWritten, CountedIsDead, St, stats
  <2>2. SlotsAreKnown'
    <3> SUFFICES ASSUME NEW b \in Blk, NEW p \in Page, map'.obj[b][p][0] # "FREE",
                        ~Behind(b, p)'
                 PROVE  /\ media'[b][p][0] \in Object
                        /\ nat'[media'[b][p][0].id].blk = b /\ nat'[media'[b][p][0].id].page = p
                        /\ nat'[media'[b][p][0].id].state =
                             IF map'.obj[b][p][0] = "USED" THEN "WRIT" ELSE "FREE"
      BY DEF SlotsAreKnown, St, At
    <3> QED BY <1>3, <1>5 DEF MInv, World, SlotsAreKnown, St, At
  <2>3. ObjectsAreThere'
    <3> SUFFICES ASSUME NEW i \in Id, nat'[i].state = "WRIT"
                 PROVE  /\ map'.obj[nat'[i].blk][nat'[i].page][0] # "FREE"
                        /\ ~(pc' = "copy" /\ nat'[i].blk = blk_idx' /\ nat'[i].page < pos')
                        /\ media'[nat'[i].blk][nat'[i].page][0].id = i
      BY DEF ObjectsAreThere, St, At, Behind
    <3>1. PICK b \in Blk, p \in Page : b = nat[i].blk /\ p = nat[i].page
      BY MTypes DEF MInv
    <3>2. St(b, p) # "FREE" /\ ~Behind(b, p) /\ At(b, p).id = i
      BY <1>3, <3>1 DEF MInv, World, ObjectsAreThere
    <3>3. ~(b = blk_idx /\ p = pos)
      BY <1>2, <1>3, <3>2
    <3>4. ~Behind(b, p)'
      BY <1>5, <3>2, <3>3
    <3> QED BY <1>3, <3>1, <3>2, <3>4 DEF St, At, Behind
  <2> QED BY <2>1, <2>2, <2>3 DEF World
<1>7. (St(blk_act, page_act) = "FREE")'
  BY <1>3 DEF MInv, St, act
<1>8. Collecting' /\ Copying'
  <2>1. PagesLeft' = PagesLeft
    BY <1>3 DEF PagesLeft, Spare, Empty, act
  <2>2. ToMove' = ToMove
    BY <1>1, <1>2, <1>3 DEF ToMove, St, Page
  <2>3. \A b \in Blk : Collectable(b)' <=> Collectable(b)
    BY <1>3 DEF Collectable, stats, act
  <2>4. Collecting'
    BY <1>1, <1>3, <2>3 DEF MInv, Collecting, St, act
  <2>5. Copying'
    BY <1>1, <1>3, <2>1, <2>2 DEF MInv, Copying, act
  <2> QED BY <2>4, <2>5
<1>9. Filling' /\ Idle'
  BY <1>1, <1>3 DEF MInv, Filling, Idle
<1> QED BY <1>4, <1>6, <1>7, <1>8, <1>9 DEF MInv

\* A copy: the slot s of the source is copied to the slot q of block d.
Copies(d, q, i) ==
    /\ d \in Blk /\ q \in Page /\ d # blk_idx /\ d # blk_act /\ St(d, q) = "FREE"
    /\ i \in Id /\ Found.id = i
    /\ Marked(map', map, d, q, "USED")
    /\ \A j \in Id : /\ nat'[j].state = IF j = i THEN "WRIT" ELSE nat[j].state
                     /\ nat'[j].blk = IF j = i THEN d ELSE nat[j].blk
                     /\ nat'[j].page = IF j = i THEN q ELSE nat[j].page
    /\ \A b \in Blk, p \in Page :
         /\ media'[b][p][0] = IF b = d /\ p = q THEN Found ELSE At(b, p)
         /\ media'[b][p] = Erased <=> media[b][p] = Erased /\ ~(b = d /\ p = q)
    /\ pos' = pos + 1 /\ pc = "copy" /\ pc' = "copy"
    /\ UNCHANGED <<stats, act, blk_idx>>

LEMMA MoveCopies ==
    ASSUME MInv, GCSlot, Alive(Found.id), addr_destn = blk_destn
    PROVE  Copies(blk_destn, destn_pg_idx, Found.id)
<1>1. pc = "copy" /\ pos < npages /\ pos' = pos + 1 /\ UNCHANGED <<stats, act, blk_idx>>
  BY OneSlot DEF GCSlot, NextPos
<1>2. /\ blk_idx \in Blk /\ pos \in Page /\ Found.id # 0 /\ St(blk_idx, pos) = "USED"
      /\ Found \in Object /\ Found.id \in Id
  BY <1>1, FoundFacts, ObjectId
<1> PICK d \in Blk : d = blk_destn
  BY MTypes DEF MInv
<1> PICK q \in Page : q = destn_pg_idx
  <2>1. destn_pg_idx \in 0 .. npages /\ destn_pg_idx < npages
    BY <1>1, MTypes DEF MInv, Collecting
  <2> QED BY <2>1, OneSlot DEF Page
<1>3. GCMoves /\ UNCHANGED pc
  <2>1. ~MaySkip
    BY <1>2 DEF MaySkip
  <2>2. destn_pg_idx < npages
    BY <1>1 DEF MInv, Collecting
  <2>3. destn_pg_idx # npages
    BY <2>2, OneSlot DEF Page
  <2> QED BY <2>1, <2>3 DEF GCSlot
<1>4. /\ d # blk_idx /\ d # blk_act /\ St(d, q) = "FREE" /\ media[d][q] = Erased
      /\ destn_page_obj_count = 0
  <2>1. d # blk_idx /\ d # blk_act /\ St(d, q) = "FREE"
    BY <1>1 DEF MInv, Collecting, Copying, Page
  <2> QED BY <2>1, MTypes DEF MInv, World, TakenIsWritten
<1>5. Marked(map', map, d, q, "USED")
  <2>1. map' = SetObjState(map, d, q, {0}, "USED")
    BY <1>3, <1>4 DEF GCMoves
  <2>2. map \in Bitmap /\ Levels(map)
    BY MTypes DEF MInv
  <2> QED BY <2>1, <2>2, MarkSlot
<1>6. \A j \in Id : /\ nat'[j].state = IF j = Found.id THEN "WRIT" ELSE nat[j].state
                    /\ nat'[j].blk = IF j = Found.id THEN d ELSE nat[j].blk
                    /\ nat'[j].page = IF j = Found.id THEN q ELSE nat[j].page
  <2>1. nat' = [nat EXCEPT ![Found.id] = [state |-> "WRIT", blk |-> d, page |-> q, obj |-> 0]]
    BY <1>2, <1>3, <1>4 DEF GCMoves
  <2> QED BY <1>2, <2>1, MTypes DEF MInv
<1>7. gc_buf_destn_page' \in PageContent /\ gc_buf_destn_page'[0] = Found
  <2>1. gc_buf_destn_page' = [gc_buf_destn_page EXCEPT ![0] = Found]
    BY <1>3, <1>4 DEF GCMoves, PutFound
  <2>2. gc_buf_destn_page \in [Obj -> Content] /\ Found \in Content
    BY <1>2, MTypes DEF MInv, PageContent, Content
  <2> QED BY <2>1, <2>2, OneSlot DEF PageContent
<1>8. gc_buf_destn_page' # Erased
  BY <1>2, <1>7, ObjectIsWritten
<1>9. \A b \in Blk, p \in Page :
         /\ media'[b][p] = IF b = d /\ p = q THEN gc_buf_destn_page' ELSE media[b][p]
         /\ Programmed(b, p)' <=> Programmed(b, p) \/ (b = d /\ p = q)
  <2>1. Program(d, q, gc_buf_destn_page')
    BY <1>3, <1>4, MainGeometry DEF GCMoves, PutFound
  <2>2. TypeOK /\ ~Programmed(d, q)
    BY <1>4 DEF MInv, GInv, GCTypeOK, Programmed
  <2> QED BY <1>7, <1>8, <2>1, <2>2, ProgramErased
<1>10. \A b \in Blk, p \in Page :
          /\ media'[b][p][0] = IF b = d /\ p = q THEN Found ELSE At(b, p)
          /\ media'[b][p] = Erased <=> media[b][p] = Erased /\ ~(b = d /\ p = q)
  BY <1>7, <1>8, <1>9 DEF At
<1> QED BY <1>1, <1>2, <1>3, <1>4, <1>5, <1>6, <1>10 DEF Copies

\* The copy replaces the original, for every object.
LEMMA CopyKeepsWorld ==
    ASSUME MInv, NEW d, NEW q, NEW i, Copies(d, q, i), pos < npages
    PROVE  World'
<1> USE DEF Copies
<1>1. /\ blk_idx \in Blk /\ pos \in Page /\ Found \in Object
      /\ Found = At(blk_idx, pos)
      /\ nat[i].blk = blk_idx /\ nat[i].page = pos
  BY FoundFacts
<1>2. \A b \in Blk, p \in Page :
         map'.obj[b][p][0] = IF b = d /\ p = q THEN "USED" ELSE St(b, p)
  BY DEF Marked, St
<1>3. \A b \in Blk, p \in Page : Behind(b, p)' <=> Behind(b, p) \/ (b = blk_idx /\ p = pos)
  BY <1>1 DEF Behind, Page
<1>4. TakenIsWritten'
  <2>1. \A b \in Blk, p \in Page : map'.obj[b][p][0] = "FREE" <=> media'[b][p] = Erased
    BY <1>2 DEF MInv, World, TakenIsWritten
  <2> QED BY <2>1 DEF TakenIsWritten, St
<1>5. SlotsAreKnown'
  <2> SUFFICES ASSUME NEW b \in Blk, NEW p \in Page, map'.obj[b][p][0] # "FREE",
                      ~Behind(b, p)'
               PROVE  /\ media'[b][p][0] \in Object
                      /\ nat'[media'[b][p][0].id].blk = b /\ nat'[media'[b][p][0].id].page = p
                      /\ nat'[media'[b][p][0].id].state =
                           IF map'.obj[b][p][0] = "USED" THEN "WRIT" ELSE "FREE"
    BY DEF SlotsAreKnown, St, At
  <2>1. CASE b = d /\ p = q
    BY <1>1, <1>2, <2>1
  <2>2. CASE ~(b = d /\ p = q)
    <3>1. /\ media'[b][p][0] = At(b, p) /\ map'.obj[b][p][0] = St(b, p)
          /\ ~Behind(b, p) /\ ~(b = blk_idx /\ p = pos)
      BY <1>2, <1>3, <2>2
    <3>2. /\ At(b, p) \in Object
          /\ nat[At(b, p).id].blk = b /\ nat[At(b, p).id].page = p
          /\ nat[At(b, p).id].state = IF St(b, p) = "USED" THEN "WRIT" ELSE "FREE"
      BY <3>1 DEF MInv, World, SlotsAreKnown
    <3>3. At(b, p).id # i /\ At(b, p).id \in Id
      BY <1>1, <3>1, <3>2, ObjectId
    <3> QED BY <3>1, <3>2, <3>3
  <2> QED BY <2>1, <2>2
<1>6. ObjectsAreThere'
  <2> SUFFICES ASSUME NEW j \in Id, nat'[j].state = "WRIT"
               PROVE  /\ map'.obj[nat'[j].blk][nat'[j].page][0] # "FREE"
                      /\ ~(pc' = "copy" /\ nat'[j].blk = blk_idx' /\ nat'[j].page < pos')
                      /\ media'[nat'[j].blk][nat'[j].page][0].id = j
    BY DEF ObjectsAreThere, St, At, Behind
  <2>1. CASE j = i
    BY <1>2, <2>1
  <2>2. CASE j # i
    <3>1. PICK b \in Blk, p \in Page : b = nat[j].blk /\ p = nat[j].page
      BY MTypes DEF MInv
    <3>2. nat'[j].blk = b /\ nat'[j].page = p /\ nat[j].state = "WRIT"
      BY <2>2, <3>1
    <3>3. St(b, p) # "FREE" /\ ~Behind(b, p) /\ At(b, p).id = j
      BY <3>1, <3>2 DEF MInv, World, ObjectsAreThere
    <3>4. ~(b = d /\ p = q) /\ ~(b = blk_idx /\ p = pos)
      BY <1>1, <2>2, <3>3
    <3>5. ~Behind(b, p)'
      BY <1>3, <3>3, <3>4
    <3> QED BY <1>2, <3>2, <3>3, <3>4, <3>5 DEF At, Behind
  <2> QED BY <2>1, <2>2
<1>7. CountedIsDead'
  <2> SUFFICES ASSUME NEW b \in Blk, blk_dead_obj_nr[b] > 0
               PROVE  \E p \in Page : map'.obj[b][p][0] = "DEAD"
    BY DEF CountedIsDead, St, stats
  <2>1. PICK p \in Page : St(b, p) = "DEAD"
    BY DEF MInv, World, CountedIsDead
  <2> QED BY <1>2, <2>1
<1> QED BY <1>4, <1>5, <1>6, <1>7 DEF World

\* The destination after a copy: the same, or another when it is full.
Destination(d, q) ==
    /\ q + 1 # npages => blk_destn' = d /\ destn_pg_idx' = q + 1
    /\ q + 1 = npages => /\ blk_destn' = DestnOr(map', d)
                         /\ destn_pg_idx' = IF blk_destn' # d THEN 0 ELSE q + 1

\* A copy takes one page of room, and there is another destination when the
\* destination is full.
LEMMA CopyTakesRoom ==
    ASSUME MInv, NEW d, d = blk_destn, NEW q, q = destn_pg_idx, NEW i,
           Copies(d, q, i), Destination(d, q), Alive(Found.id), pos < npages
    PROVE  /\ PagesLeft' = PagesLeft - 1
           /\ blk_destn' \in Blk /\ destn_pg_idx' < npages /\ destn_pg_idx' \in Nat
           /\ blk_destn' # blk_act /\ blk_destn' # blk_idx
           /\ IF blk_destn' = d THEN destn_pg_idx' = q + 1
              ELSE \A p \in Page : map'.obj[blk_destn'][p][0] = "FREE"
<1> USE DEF Copies
<1>1. Empty' = Spare
  BY DEF Empty, Spare, Marked, act
<1>2. /\ Cardinality(Spare) \in Nat /\ IsFiniteSet(Spare)
      /\ q \in Nat /\ q < npages /\ npages \in Nat \ {0}
  BY SpareFinite, OneSlot DEF Page
<1>3. CASE q + 1 # npages
  <2>1. blk_destn' = d /\ destn_pg_idx' = q + 1
    BY <1>3 DEF Destination
  <2>2. Spare' = Spare
    BY <1>1, <2>1 DEF Spare
  <2>3. PagesLeft' = Cardinality(Spare) * npages + npages - (q + 1)
    BY <2>1, <2>2 DEF PagesLeft
  <2>4. PagesLeft = Cardinality(Spare) * npages + npages - q /\ Cardinality(Spare) * npages \in Nat
    BY SpareFinite DEF PagesLeft
  <2>5. PagesLeft' = PagesLeft - 1
    BY <1>2, <2>3, <2>4
  <2> QED BY <1>2, <1>3, <2>1, <2>5
<1>4. CASE q + 1 = npages
  <2>1. PagesLeft >= 2
    <3>1. pos \in ToMove
      BY FoundFacts DEF ToMove, Page
    <3>2. Cardinality(ToMove) >= 1 /\ Cardinality(ToMove) \in Nat
      <4>1. ToMove \in SUBSET Page
        BY DEF ToMove
      <4>2. IsFiniteSet(ToMove) /\ Cardinality(ToMove) \in Nat
        BY <4>1, PageFinite, FS_Subset, FS_CardinalityType
      <4>3. Cardinality(ToMove) # 0
        BY <3>1, <4>2, FS_EmptySet
      <4> QED BY <4>2, <4>3
    <3>3. PagesLeft >= 1 + Cardinality(ToMove) /\ PagesLeft \in Int
      BY <1>2, SpareFinite DEF MInv, Copying, PagesLeft
    <3> QED BY <3>2, <3>3
  <2>2. PagesLeft = Cardinality(Spare) * npages + 1
    BY <1>2, <1>4, SpareFinite DEF PagesLeft
  <2>3. Spare # {}
    BY <2>1, <2>2, SpareFinite
  <2>4. blk_destn' \in Spare
    <3>1. Spare = {b \in Blk : map'.blk[b] = "EMPT" /\ b # blk_act}
      BY <1>1 DEF Empty, act
    <3>2. DestnOr(map', d) \in Spare
      BY <2>3, <3>1, DestnIsEmpty
    <3> QED BY <1>4, <3>2 DEF Destination
  <2> PICK e \in Blk : e = blk_destn' /\ e \in Spare
    BY <2>4 DEF Spare, Empty
  <2>5. e # d /\ e # blk_act /\ map.blk[e] = "EMPT" /\ map'.blk[e] = "EMPT"
    BY DEF Spare, Empty, Marked
  <2>6. destn_pg_idx' = 0
    BY <1>4, <2>5 DEF Destination
  <2>7. e # blk_idx
    BY <2>5 DEF MInv, Copying
  <2>8. \A p \in Page : map'.obj[e][p][0] = "FREE"
    <3>1. map' \in Bitmap /\ Levels(map')
      BY DEF Marked
    <3> QED BY <2>5, <3>1, BlkLevel
  <2>9. Cardinality(Spare') = Cardinality(Spare) - 1
    <3>1. Spare' = Spare \ {e}
      BY <1>1 DEF Spare
    <3> QED BY <1>2, <3>1, FS_RemoveElement
  <2>10. PagesLeft' = PagesLeft - 1
    <3>1. Cardinality(Spare') \in Nat /\ Cardinality(Spare) = Cardinality(Spare') + 1
      <4>1. Cardinality(Spare) # 0
        BY <1>2, <2>3, FS_EmptySet
      <4> QED BY <1>2, <2>9, <4>1
    <3>2. PICK k \in Nat : k = Cardinality(Spare')
      BY <3>1
    <3>3. (k + 1) * npages = k * npages + npages /\ k * npages \in Nat
      BY <1>2, TimesPages
    <3>4. PagesLeft = k * npages + npages + 1
      BY <2>2, <3>1, <3>2, <3>3
    <3>5. PagesLeft' = k * npages + npages - 0
      BY <2>6, <3>2 DEF PagesLeft
    <3> QED BY <1>2, <3>3, <3>4, <3>5
  <2> QED BY <1>2, <2>5, <2>6, <2>7, <2>8, <2>10
<1> QED BY <1>3, <1>4

LEMMA MoveM ==
    ASSUME MInv, phase = "thin", GCSlot, Alive(Found.id), addr_destn = blk_destn,
           UNCHANGED phase
    PROVE  MInv'
<1> PICK d, q, i : d = blk_destn /\ q = destn_pg_idx /\ i = Found.id
  OBVIOUS
<1>1. Copies(d, q, i)
  BY MoveCopies
<1> USE DEF Copies
<1>2. pos < npages /\ Found.id # 0 /\ St(blk_idx, pos) = "USED" /\ pos \in Page /\ blk_idx \in Blk
  <2>1. pos < npages
    BY OneSlot DEF GCSlot
  <2> QED BY <1>1, <2>1, FoundFacts
<1>3. Destination(d, q)
  <2>1. GCMoves
    BY <1>1, <1>2, OneSlot DEF GCSlot, MaySkip, Page
  <2>2. destn_page_obj_count = 0
    BY MTypes DEF MInv
  <2> QED BY <2>1, <2>2, MainGeometry DEF GCMoves, PutFound, Destination
<1>4. GInv'
  BY StepGInv DEF MInv, GCStep
<1>5. World'
  BY <1>1, <1>2, CopyKeepsWorld
<1>6. /\ PagesLeft' = PagesLeft - 1
      /\ blk_destn' \in Blk /\ destn_pg_idx' < npages /\ destn_pg_idx' \in Nat
      /\ blk_destn' # blk_act /\ blk_destn' # blk_idx
      /\ IF blk_destn' = d THEN destn_pg_idx' = q + 1
         ELSE \A p \in Page : map'.obj[blk_destn'][p][0] = "FREE"
  BY <1>1, <1>2, <1>3, CopyTakesRoom
<1>7. \A b \in Blk, p \in Page :
         map'.obj[b][p][0] = IF b = d /\ p = q THEN "USED" ELSE St(b, p)
  BY <1>1 DEF Marked, St
<1>8. (St(blk_act, page_act) = "FREE")'
  <2>1. blk_act \in Blk /\ page_act \in Page
    BY MTypes DEF MInv
  <2> QED BY <1>1, <1>7, <2>1 DEF MInv, St, act
<1>9. Collecting'
  <2>1. \A p \in Page : /\ map'.obj[blk_destn'][p][0] # "DEAD"
                        /\ p >= destn_pg_idx' => map'.obj[blk_destn'][p][0] = "FREE"
    <3>1. CASE blk_destn' = d
      <4>1. \A p \in Page : /\ St(d, p) # "DEAD"
                            /\ p >= q => St(d, p) = "FREE"
        BY <1>1 DEF MInv, Collecting
      <4> QED BY <1>1, <1>6, <1>7, <3>1, <4>1 DEF Page
    <3>2. CASE blk_destn' # d
      BY <1>6, <3>2
    <3> QED BY <3>1, <3>2
  <2>2. ASSUME NEW b \in Blk, b < blk_idx PROVE ~Collectable(b)'
    <3>1. CASE b = d
      <4>1. ~(blk_dead_obj_nr[d] > 0)
        BY <1>1 DEF MInv, World, CountedIsDead, Collecting
      <4> QED BY <1>1, <3>1, <4>1 DEF Collectable, stats
    <3>2. CASE b # d
      <4>1. map'.blk[b] = map.blk[b]
        BY <1>1, <3>2 DEF Marked
      <4>2. ~Collectable(b)
        BY <1>1, <2>2 DEF MInv, Collecting
      <4> QED BY <1>1, <4>1, <4>2 DEF Collectable, stats, act
    <3> QED BY <3>1, <3>2
  <2> QED BY <1>1, <1>6, <2>1, <2>2 DEF Collecting, St, act
<1>10. Copying'
  <2>1. map'.blk[blk_idx] = "FULL"
    BY <1>1, <1>2 DEF Marked, MInv, Copying
  <2>2. ToMove' = ToMove \ {pos} /\ pos \in ToMove
    BY <1>1, <1>2, <1>7 DEF ToMove, St, Page
  <2>3. IsFiniteSet(ToMove) /\ Cardinality(ToMove) \in Nat
    <3>1. ToMove \in SUBSET Page
      BY DEF ToMove
    <3> QED BY <3>1, PageFinite, FS_Subset, FS_CardinalityType
  <2>4. Cardinality(ToMove') = Cardinality(ToMove) - 1
    BY <2>2, <2>3, FS_RemoveElement
  <2>5. PagesLeft >= 1 + Cardinality(ToMove) /\ PagesLeft \in Int
    BY <1>1, SpareFinite, MTypes, OneSlot DEF MInv, Copying, PagesLeft
  <2>6. PagesLeft' >= 1 + Cardinality(ToMove')
    BY <1>6, <2>3, <2>4, <2>5
  <2> QED BY <1>1, <1>6, <2>1, <2>6 DEF Copying, act, MInv
<1>11. Filling' /\ Idle' /\ phase' = "thin"
  BY <1>1 DEF MInv, Filling, Idle
<1> QED BY <1>4, <1>5, <1>8, <1>9, <1>10, <1>11 DEF MInv
LEMMA EraseM ==
    ASSUME MInv, GCErase, phase = "thin", UNCHANGED phase
    PROVE  MInv'
<1> PICK s \in Blk : s = blk_idx
  BY DEF MInv, GInv, GCErase
<1>1. /\ pc = "copy" /\ pc' = "source" /\ blk_idx' = s + 1
      /\ UNCHANGED <<nat, act, blk_destn, destn_pg_idx>>
      /\ \A p \in Page : Behind(s, p)
      /\ s # blk_act /\ s # blk_destn /\ map.blk[s] = "FULL"
  BY OneSlot DEF GCErase, Behind, Page, MInv, Copying
<1>2. GInv'
  BY StepGInv DEF MInv, GCStep
<1>3. /\ \A b \in Blk, p \in Page :
           map'.obj[b][p][0] = IF b = s THEN "FREE" ELSE St(b, p)
      /\ map'.blk[s] = "EMPT" /\ \A b \in Blk : b # s => map'.blk[b] = map.blk[b]
  <2>1. map \in Bitmap /\ Levels(map) /\ map' = ErasedMap /\ blk_idx \in Blk
    BY MTypes DEF MInv, GCErase
  <2>2. /\ \A p \in Page, o \in Obj : ErasedMap.obj[blk_idx][p][o] = "FREE"
        /\ ErasedMap.blk[blk_idx] = "EMPT"
        /\ \A b \in Blk : b # blk_idx => /\ ErasedMap.obj[b] = map.obj[b]
                                         /\ ErasedMap.blk[b] = map.blk[b]
    BY <2>1, ErasedMapIsSound
  <2> QED BY <2>1, <2>2, OneSlot DEF St
<1>4. \A b \in Blk, p \in Page : media'[b][p] = IF b = s THEN Erased ELSE media[b][p]
  BY MTypes DEF MInv, GCErase
<1>5. \A b \in Blk : blk_dead_obj_nr'[b] = IF b = s THEN 0 ELSE blk_dead_obj_nr[b]
  BY MTypes DEF MInv, GCErase, ErasedStats
<1>6. World'
  <2>1. TakenIsWritten'
    <3>1. \A b \in Blk, p \in Page : map'.obj[b][p][0] = "FREE" <=> media'[b][p] = Erased
      BY <1>3, <1>4 DEF MInv, World, TakenIsWritten
    <3> QED BY <3>1 DEF TakenIsWritten, St
  <2>2. SlotsAreKnown'
    <3> SUFFICES ASSUME NEW b \in Blk, NEW p \in Page, map'.obj[b][p][0] # "FREE"
                 PROVE  /\ media'[b][p][0] \in Object
                        /\ nat'[media'[b][p][0].id].blk = b /\ nat'[media'[b][p][0].id].page = p
                        /\ nat'[media'[b][p][0].id].state =
                             IF map'.obj[b][p][0] = "USED" THEN "WRIT" ELSE "FREE"
      BY DEF SlotsAreKnown, St, At
    <3>1. /\ map'.obj[b][p][0] = St(b, p) /\ media'[b][p][0] = At(b, p)
          /\ ~Behind(b, p)
      BY <1>3, <1>4 DEF At, Behind
    <3> QED BY <1>1, <3>1 DEF MInv, World, SlotsAreKnown
  <2>3. ObjectsAreThere'
    <3> SUFFICES ASSUME NEW i \in Id, nat[i].state = "WRIT"
                 PROVE  /\ map'.obj[nat[i].blk][nat[i].page][0] # "FREE"
                        /\ media'[nat[i].blk][nat[i].page][0].id = i
      BY <1>1 DEF ObjectsAreThere, St, At, Behind
    <3>1. PICK b \in Blk, p \in Page : b = nat[i].blk /\ p = nat[i].page
      BY MTypes DEF MInv
    <3>2. St(b, p) # "FREE" /\ ~Behind(b, p) /\ At(b, p).id = i
      BY <3>1 DEF MInv, World, ObjectsAreThere
    <3>3. b # s
      BY <1>1, <3>2
    <3> QED BY <1>3, <1>4, <3>1, <3>2, <3>3 DEF At
  <2>4. CountedIsDead'
    <3> SUFFICES ASSUME NEW b \in Blk, blk_dead_obj_nr'[b] > 0
                 PROVE  \E p \in Page : map'.obj[b][p][0] = "DEAD"
      BY DEF CountedIsDead, St
    <3>1. b # s /\ blk_dead_obj_nr[b] > 0
      BY <1>5
    <3>2. PICK p \in Page : St(b, p) = "DEAD"
      BY <3>1 DEF MInv, World, CountedIsDead
    <3> QED BY <1>3, <3>1, <3>2
  <2> QED BY <2>1, <2>2, <2>3, <2>4 DEF World
<1>7. (St(blk_act, page_act) = "FREE")'
  <2>1. blk_act \in Blk /\ page_act \in Page
    BY MTypes DEF MInv
  <2> QED BY <1>1, <1>3, <2>1 DEF MInv, St, act
<1>8. Collecting'
  <2>1. Spare' = Spare \cup {s} /\ s \notin Spare
    BY <1>1, <1>3 DEF Spare, Empty, act
  <2>2. Cardinality(Spare') = Cardinality(Spare) + 1 /\ Cardinality(Spare) \in Nat
    BY <2>1, SpareFinite, FS_AddElement
  <2>3. PagesLeft' = PagesLeft + npages
    <3>1. PICK k \in Nat : k = Cardinality(Spare)
      BY <2>2
    <3>2. (k + 1) * npages = k * npages + npages /\ k * npages \in Nat
      BY OneSlot, TimesPages
    <3>3. PagesLeft' = (k + 1) * npages + npages - destn_pg_idx
      BY <1>1, <2>2, <3>1 DEF PagesLeft
    <3>4. PagesLeft = k * npages + npages - destn_pg_idx /\ destn_pg_idx \in Nat
      BY <3>1, MTypes DEF PagesLeft, MInv
    <3> QED BY <3>2, <3>3, <3>4, OneSlot
  <2>4. PagesLeft \in Int /\ PagesLeft >= 1
    <3>1. PagesLeft \in Int
      BY SpareFinite, MTypes, OneSlot DEF MInv, PagesLeft
    <3>2. Cardinality(ToMove) \in Nat
      <4>1. ToMove \in SUBSET Page
        BY DEF ToMove
      <4> QED BY <4>1, PageFinite, FS_Subset, FS_CardinalityType
    <3>3. PagesLeft >= 1 + Cardinality(ToMove)
      BY <1>1 DEF MInv, Copying
    <3> QED BY <3>1, <3>2, <3>3
  <2>5. PagesLeft' >= npages
    BY <2>3, <2>4, OneSlot
  <2>6. \A p \in Page : /\ map'.obj[blk_destn][p][0] # "DEAD"
                        /\ p >= destn_pg_idx => map'.obj[blk_destn][p][0] = "FREE"
    <3>1. blk_destn \in Blk
      BY MTypes DEF MInv
    <3> QED BY <1>1, <1>3, <3>1 DEF MInv, Collecting
  <2>7. ASSUME NEW b \in Blk, b < s + 1 PROVE ~Collectable(b)'
    <3>1. CASE b = s
      BY <1>3, <3>1 DEF Collectable
    <3>2. CASE b # s
      <4>1. b < s
        BY <2>7, <3>2 DEF Blk
      <4>2. ~Collectable(b)
        BY <1>1, <4>1 DEF MInv, Collecting
      <4> QED BY <1>1, <1>3, <1>5, <3>2, <4>2 DEF Collectable, act
    <3> QED BY <3>1, <3>2
  <2> QED BY <1>1, <2>5, <2>6, <2>7 DEF MInv, Collecting, St, act
<1>9. Filling' /\ Idle' /\ Copying' /\ phase' = "thin"
  BY <1>1 DEF MInv, Filling, Idle, Copying
<1> QED BY <1>2, <1>6, <1>7, <1>8, <1>9 DEF MInv

\* The destination holds no garbage, so that no block GC could reclaim is
\* left when it ends.
LEMMA NothingLeft ==
    ASSUME MInv, GCEnd
    PROVE  \A b \in Blk : ~Collectable(b)
<1>1. pc = "source" /\ blk_destn \in Blk
  BY MTypes DEF MInv, GCEnd
<1>2. ~Collectable(blk_destn)
  BY <1>1 DEF MInv, World, CountedIsDead, Collecting, Collectable
<1>3. Sources = {}
  <2> SUFFICES ASSUME Sources # {} PROVE FALSE
    OBVIOUS
  <2>1. Sources \in SUBSET Blk
    BY DEF Sources
  <2>2. Min(Sources) \in Sources
    BY <2>1, MinIsLeast
  <2>3. Collectable(Min(Sources)) /\ Min(Sources) = blk_destn
    BY <2>2 DEF Sources, GCEnd
  <2> QED BY <1>2, <2>3
<1> SUFFICES ASSUME NEW b \in Blk PROVE ~Collectable(b)
  OBVIOUS
<1>4. CASE b < blk_idx
  BY <1>1, <1>4 DEF MInv, Collecting
<1>5. CASE ~(b < blk_idx)
  <2>1. b >= blk_idx
    BY <1>5, MTypes DEF MInv, Blk
  <2> QED BY <1>3, <2>1 DEF Sources
<1> QED BY <1>4, <1>5

LEMMA EndM ==
    ASSUME MInv, GCEnd, phase = "thin", UNCHANGED phase
    PROVE  MInv'
<1>1. /\ pc = "source" /\ pc' = "idle"
      /\ UNCHANGED <<nat, map, media, stats, act>>
      /\ blk_idx' = 0 /\ destn_pg_idx' = 0
  BY MTypes DEF MInv, GCEnd, LocalsEnd
<1>2. GInv'
  BY StepGInv DEF MInv, GCStep
<1>3. World'
  <2>1. \A b \in Blk, p \in Page : ~Behind(b, p) /\ ~Behind(b, p)'
    BY <1>1 DEF Behind
  <2> QED BY <1>1, <2>1, WorldStays DEF MInv
<1>4. (St(blk_act, page_act) = "FREE")'
  BY <1>1 DEF MInv, St, act
<1>5. Empty # {}
  <2>1. CASE Spare # {}
    BY <2>1 DEF Spare
  <2>2. CASE Spare = {}
    <3>1. PagesLeft >= npages /\ PagesLeft = 0 + npages - destn_pg_idx
      BY <1>1, <2>2, SpareFinite DEF MInv, Collecting, PagesLeft
    <3>2. destn_pg_idx = 0
      BY <3>1, MTypes, OneSlot DEF MInv
    <3>3. \A p \in Page : map.obj[blk_destn][p][0] = "FREE"
      BY <1>1, <3>2 DEF MInv, Collecting, St, Page
    <3>4. map.blk[blk_destn] = "EMPT" /\ blk_destn \in Blk
      BY <3>3, MTypes, BlkLevel DEF MInv
    <3> QED BY <1>1, <3>4 DEF Empty, MInv, Collecting
  <2> QED BY <2>1, <2>2
<1>6. Idle'
  BY <1>1, <1>5 DEF Idle, Empty, act
<1> QED BY <1>1, <1>2, <1>3, <1>4, <1>6 DEF MInv, Filling, Collecting, Copying

(***************************************************************************)
(* What holds of the program until an object goes astray.                  *)
(***************************************************************************)
LEMMA MStep ==
    ASSUME RoomToCollect
    PROVE  MInv /\ [StraightNext]_mvars => MInv'
<1> SUFFICES ASSUME MInv, [StraightNext]_mvars PROVE MInv'
  OBVIOUS
<1>1. CASE UNCHANGED mvars
  BY <1>1, StutterM
<1>2. CASE StraightNext /\ Fill
  BY <1>2, AllocM, WriteM DEF Fill
<1>3. CASE StraightNext /\ Delete
  BY <1>3, DeleteM DEF Delete
<1>4. CASE StraightNext /\ Finish
  BY <1>4, FinishM
<1>5. CASE StraightNext /\ Collect
  <2>1. phase = "thin" /\ UNCHANGED phase /\ (GCBegin \/ GCStep)
    BY <1>5 DEF Collect
  <2>2. CASE GCSlot
    <3>1. ~Astray
      BY <1>5 DEF StraightNext
    <3>2. CASE Alive(Found.id)
      <4>1. addr_destn = blk_destn
        BY <2>2, <3>1, <3>2 DEF Astray, GCSlot, MayMove
      <4> QED BY <2>1, <2>2, <3>2, <4>1, MoveM
    <3>3. CASE ~Alive(Found.id)
      BY <2>1, <2>2, <3>3, SkipM
    <3> QED BY <3>2, <3>3
  <2> QED BY <2>1, <2>2, BeginM, SourceM, EraseM, EndM DEF GCStep
<1> QED BY <1>1, <1>2, <1>3, <1>4, <1>5 DEF StraightNext, MainNext

\* The program's invariant, for every geometry and number of objects that
\* leaves a block empty.
THEOREM MainInvariant == ASSUME RoomToCollect PROVE StraightSpec => []MInv
BY MainInitInv, MStep, PTL DEF StraightSpec

\* When GC is over each USED slot is the slot of one object, and every object
\* that was written has one.
THEOREM GCLiveSlotsTheorem ==
    ASSUME RoomToCollect PROVE StraightSpec => []GCLeavesLiveSlots
<1>1. MInv => GCLeavesLiveSlots
  <2> SUFFICES ASSUME MInv, pc = "idle",
                      NEW b \in Blk, NEW p \in Page, NEW o \in Obj
               PROVE  /\ map.obj[b][p][o] = "USED" <=> \E id \in Id : HasSlot(id, b, p, o)
                      /\ \A i, j \in Id : HasSlot(i, b, p, o) /\ HasSlot(j, b, p, o) => i = j
    BY DEF GCLeavesLiveSlots, LiveSlots
  <2>1. o = 0 /\ ~Behind(b, p)
    BY OneSlot DEF Behind
  <2>2. ASSUME NEW i \in Id, HasSlot(i, b, p, o)
        PROVE  St(b, p) = "USED" /\ At(b, p).id = i
    <3>1. St(b, p) # "FREE" /\ At(b, p).id = i /\ nat[i].state = "WRIT"
      BY <2>2 DEF HasSlot, MInv, World, ObjectsAreThere
    <3>2. nat[At(b, p).id].state = IF St(b, p) = "USED" THEN "WRIT" ELSE "FREE"
      BY <2>1, <3>1 DEF MInv, World, SlotsAreKnown
    <3> QED BY <3>1, <3>2
  <2>3. ASSUME St(b, p) = "USED"
        PROVE  \E id \in Id : HasSlot(id, b, p, o)
    <3>1. /\ At(b, p) \in Object
          /\ nat[At(b, p).id].blk = b /\ nat[At(b, p).id].page = p
          /\ nat[At(b, p).id].state = "WRIT"
      BY <2>1, <2>3 DEF MInv, World, SlotsAreKnown
    <3>2. At(b, p).id \in Id /\ nat[At(b, p).id].obj = 0
      BY <3>1, ObjectId, MTypes DEF MInv
    <3> QED BY <2>1, <3>1, <3>2 DEF HasSlot
  <2>4. map.obj[b][p][o] = St(b, p)
    BY <2>1 DEF St
  <2> QED BY <2>2, <2>3, <2>4
<1> QED BY MainInvariant, <1>1, PTL

\* Until an object goes astray GC always has a destination, and it is never
\* the source.
THEOREM DestinationTheorem ==
    ASSUME RoomToCollect PROVE StraightSpec => []DestinationInRange
<1>1. MInv => DestinationInRange
  BY DEF MInv, Collecting, Copying, DestinationInRange
<1> QED BY MainInvariant, <1>1, PTL

\* When GC ends no full block but the active one has counted garbage.
THEOREM ReclaimsTheorem == ASSUME RoomToCollect PROVE StraightSpec => GCReclaims
<1> DEFINE A == pc = "source" /\ pc' = "idle" => \A b \in Blk : ~Collectable(b)'
<1>1. MInv /\ [StraightNext]_mvars => A
  <2> SUFFICES ASSUME MInv, [StraightNext]_mvars, pc = "source", pc' = "idle",
                      NEW b \in Blk
               PROVE  ~Collectable(b)'
    OBVIOUS
  <2>1. ~(Fill \/ Delete \/ Finish \/ UNCHANGED mvars)
    BY DEF Fill, Delete, Finish, gcvars, mvars, gvars
  <2>2. ~(GCBegin \/ GCNextSource \/ GCSlot \/ GCErase)
    BY DEF GCBegin, GCNextSource, GCSlot, GCErase
  <2>3. GCEnd
    BY <2>1, <2>2 DEF StraightNext, MainNext, Collect, GCStep
  <2>4. UNCHANGED <<map, stats, act>>
    BY <2>3, MTypes DEF GCEnd, MInv
  <2> QED BY <2>3, <2>4, NothingLeft DEF Collectable, stats, act
<1> HIDE DEF A
<1>2. MInv /\ [StraightNext]_mvars => [A]_gvars
  BY <1>1
<1>3. StraightSpec => [][A]_gvars
  BY MainInvariant, <1>2, PTL DEF StraightSpec
<1> QED BY <1>3 DEF A, GCReclaims

(***************************************************************************)
(* Collecting garbage changes no object.                                   *)
(***************************************************************************)

\* What an id reads as: what is in its slot on the medium.
Reads(id) ==
    CASE nat[id].state = "FREE" -> Null
      [] nat[id].state = "USED" -> Zeroed
      [] nat[id].state = "WRIT" -> At(nat[id].blk, nat[id].page).val

ReadsMedium == \A id \in Id : ReadDuringGC(id) = Reads(id)

HasRoom == ~Exhausted

\* No object is in w_buf or in GC's buffer only.
LEMMA MReads == MInv => ReadsMedium /\ HasRoom
<1> SUFFICES ASSUME MInv PROVE ReadsMedium /\ HasRoom
  OBVIOUS
<1>1. HasRoom
  BY NotExhausted DEF MInv, HasRoom
<1>2. ASSUME NEW id \in Id PROVE ReadDuringGC(id) = Reads(id)
  <2>1. CASE nat[id].state # "WRIT"
    <3>1. nat[id].state \in {"FREE", "USED"}
      BY <2>1, MTypes DEF MInv, NatEntry, NatState
    <3>2. ReadDuringGC(id) = ReadByObjId(id)
      BY <2>1 DEF ReadDuringGC
    <3> QED BY <3>1, <3>2 DEF ReadByObjId, Reads
  <2>2. CASE nat[id].state = "WRIT"
    <3> PICK b \in Blk, p \in Page : b = nat[id].blk /\ p = nat[id].page
      BY MTypes DEF MInv
    <3>1. St(b, p) # "FREE" /\ At(b, p).id = id /\ nat[id].obj = 0
      BY <2>2, MTypes DEF MInv, World, ObjectsAreThere
    <3>2. ~(b = blk_act /\ p = page_act)
      BY <3>1 DEF MInv
    <3>3. pc # "idle" => ~(b = blk_destn /\ p = destn_pg_idx)
      BY <3>1 DEF MInv, Collecting, Page
    <3>4. Slot(id) = At(b, p)
      BY <3>1, <3>2 DEF Slot, At
    <3>5. ReadDuringGC(id) = ReadByObjId(id)
      BY <3>3 DEF ReadDuringGC
    <3>6. ReadByObjId(id) = At(b, p).val
      BY <2>2, <3>1, <3>4 DEF ReadByObjId
    <3> QED BY <2>2, <3>5, <3>6 DEF Reads
  <2> QED BY <2>1, <2>2
<1> QED BY <1>1, <1>2 DEF ReadsMedium

\* Only a free id reads as Null.
LEMMA ReadsNull ==
    ASSUME MInv, NEW id \in Id
    PROVE  (Reads(id) = Null) <=> (nat[id].state = "FREE")
<1>1. nat[id].state \in {"FREE", "USED", "WRIT"}
  BY MTypes DEF MInv, NatEntry, NatState
<1>2. CASE nat[id].state = "WRIT"
  <2> PICK b \in Blk, p \in Page : b = nat[id].blk /\ p = nat[id].page
    BY MTypes DEF MInv
  <2>1. St(b, p) # "FREE" /\ ~Behind(b, p)
    BY <1>2 DEF MInv, World, ObjectsAreThere
  <2>2. At(b, p) \in Object
    BY <2>1 DEF MInv, World, SlotsAreKnown
  <2>3. At(b, p).val # Null
    BY <2>2, Distinct DEF Object
  <2> QED BY <1>2, <2>3 DEF Reads
<1>3. CASE nat[id].state # "WRIT"
  BY <1>1, <1>3, Distinct DEF Reads
<1> QED BY <1>2, <1>3

\* Nothing a step of GC does shows in what is read.
LEMMA GCStepReads ==
    ASSUME MInv, GCBegin \/ (GCStep /\ ~Astray), NEW j \in Id
    PROVE  Reads(j)' = Reads(j)
<1>1. CASE UNCHANGED <<nat, media>>
  BY <1>1 DEF Reads, At
<1>2. CASE GCSlot
  <2>1. pc = "copy" /\ pos < npages
    BY <1>2, OneSlot DEF GCSlot
  <2>2. CASE Alive(Found.id)
    <3>1. addr_destn = blk_destn
      BY <1>2, <2>2 DEF Astray, GCSlot, MayMove, GCBegin, GCStep
    <3> PICK d, q, i : d = blk_destn /\ q = destn_pg_idx /\ i = Found.id
      OBVIOUS
    <3>2. Copies(d, q, i)
      BY <1>2, <2>2, <3>1, MoveCopies
    <3> USE DEF Copies
    <3>3. /\ nat[i].blk = blk_idx /\ nat[i].page = pos /\ nat[i].state = "WRIT"
          /\ Found = At(blk_idx, pos)
      BY <2>1, <2>2, FoundFacts
    <3>4. CASE j = i
      <4>1. nat'[j].state = "WRIT" /\ nat'[j].blk = d /\ nat'[j].page = q
        BY <3>2, <3>4
      <4>2. media'[d][q][0] = Found
        BY <3>2
      <4> QED BY <3>3, <3>4, <4>1, <4>2 DEF Reads, At
    <3>5. CASE j # i
      <4>1. PICK b \in Blk, p \in Page : b = nat[j].blk /\ p = nat[j].page
        BY MTypes DEF MInv
      <4>2. nat'[j].state = nat[j].state /\ nat'[j].blk = b /\ nat'[j].page = p
        BY <3>2, <3>5, <4>1
      <4>3. nat[j].state = "WRIT" => media'[b][p][0] = At(b, p)
        <5>1. nat[j].state = "WRIT" => St(b, p) # "FREE"
          BY <4>1 DEF MInv, World, ObjectsAreThere
        <5> QED BY <3>2, <5>1
      <4> QED BY <4>1, <4>2, <4>3 DEF Reads, At
    <3> QED BY <3>4, <3>5
  <2>3. CASE ~Alive(Found.id)
    <3>1. Found.id # 0
      BY <2>1, FoundFacts
    <3>2. UNCHANGED <<nat, media>>
      BY <1>2, <2>3, <3>1 DEF GCSlot, MayMove
    <3> QED BY <1>1, <3>2
  <2> QED BY <2>2, <2>3
<1>3. CASE GCErase
  <2>1. UNCHANGED nat
    BY <1>3 DEF GCErase
  <2> PICK b \in Blk, p \in Page : b = nat[j].blk /\ p = nat[j].page
    BY MTypes DEF MInv
  <2>2. ASSUME nat[j].state = "WRIT" PROVE media'[b][p] = media[b][p]
    <3>1. ~Behind(b, p)
      BY <2>2 DEF MInv, World, ObjectsAreThere
    <3>2. b # blk_idx
      BY <1>3, <3>1, OneSlot DEF GCErase, Behind, Page
    <3> QED BY <1>3, <3>2, MTypes DEF MInv, GCErase
  <2> QED BY <2>1, <2>2 DEF Reads, At
<1>4. GCBegin \/ GCNextSource => UNCHANGED <<nat, media>>
  BY DEF GCBegin, GCNextSource, vars
<1>5. GCEnd => UNCHANGED <<nat, media>>
  BY MTypes DEF GCEnd, MInv
<1> QED BY <1>1, <1>2, <1>3, <1>4, <1>5 DEF GCStep

\* The calls change what the object they are about reads as.
LEMMA CallReads ==
    ASSUME RoomToCollect, MInv, MInv', MainNext, NEW j \in Id
    PROVE  /\ \A id \in Id : AllocObj(id) =>
                Reads(j)' = IF j = id THEN Zeroed ELSE Reads(j)
           /\ \A id \in Id : DeAllocObj(id) =>
                Reads(j)' = IF j = id THEN Null ELSE Reads(j)
           /\ \A id \in Id, v \in Value : Fill /\ WriteByObjId(id, v) =>
                Reads(j)' = IF j = id THEN v ELSE Reads(j)
<1>1. ASSUME NEW id \in Id, AllocObj(id)
      PROVE  Reads(j)' = IF j = id THEN Zeroed ELSE Reads(j)
  <2>1. /\ UNCHANGED media /\ nat' = [nat EXCEPT ![id].state = "USED"]
        /\ nat \in [Id -> NatEntry]
    BY <1>1, MTypes DEF AllocObj, MInv
  <2>2. CASE j = id
    <3>1. nat'[j].state = "USED"
      BY <2>1, <2>2 DEF NatEntry
    <3> QED BY <2>2, <3>1 DEF Reads
  <2>3. CASE j # id
    <3>1. nat'[j] = nat[j] /\ media' = media
      BY <2>1, <2>3
    <3>2. Reads(j)' = Reads(j)
      BY <3>1 DEF Reads, At
    <3> QED BY <2>3, <3>2
  <2> QED BY <2>2, <2>3
<1>2. ASSUME NEW id \in Id, DeAllocObj(id)
      PROVE  Reads(j)' = IF j = id THEN Null ELSE Reads(j)
  <2>1. /\ UNCHANGED media /\ nat' = [nat EXCEPT ![id].state = "FREE"]
        /\ nat \in [Id -> NatEntry]
    BY <1>2, MTypes DEF DeAllocObj, MInv
  <2>2. CASE j = id
    <3>1. nat'[j].state = "FREE"
      BY <2>1, <2>2 DEF NatEntry
    <3> QED BY <2>2, <3>1 DEF Reads
  <2>3. CASE j # id
    <3>1. nat'[j] = nat[j] /\ media' = media
      BY <2>1, <2>3
    <3>2. Reads(j)' = Reads(j)
      BY <3>1 DEF Reads, At
    <3> QED BY <2>3, <3>2
  <2> QED BY <2>2, <2>3
<1>3. ASSUME NEW id \in Id, NEW v \in Value, Fill, WriteByObjId(id, v)
      PROVE  Reads(j)' = IF j = id THEN v ELSE Reads(j)
  <2>1. /\ pc = "idle" /\ pc' = "idle" /\ IInv /\ IInv' /\ ~Exhausted /\ ~Exhausted'
    <3>1. HasRoom /\ HasRoom'
      BY MReads, PTL
    <3> QED BY <1>3, <3>1 DEF MInv, Filling, Fill, gcvars, HasRoom
  <2>2. /\ ReadByObjId(id)' = v
        /\ \A k \in Id \ {id} : ReadByObjId(k)' = ReadByObjId(k)
    BY <1>3, <2>1, WriteReads
  <2>3. Reads(j) = ReadByObjId(j) /\ Reads(j)' = ReadByObjId(j)'
    <3>1. ReadsMedium /\ ReadsMedium'
      BY MReads, PTL
    <3>2. ReadDuringGC(j) = Reads(j) /\ ReadDuringGC(j)' = Reads(j)'
      BY <3>1 DEF ReadsMedium
    <3>3. ReadDuringGC(j) = ReadByObjId(j) /\ ReadDuringGC(j)' = ReadByObjId(j)'
      BY <2>1 DEF ReadDuringGC
    <3> QED BY <3>2, <3>3
  <2> QED BY <2>2, <2>3
<1> QED BY <1>1, <1>2, <1>3

\* The store a client sees.
GCBar == [id \in Id |-> Reads(id)]

LEMMA BarIs == MInv => [id \in Id |-> ReadDuringGC(id)] = GCBar /\ HasRoom
BY MReads DEF ReadsMedium, GCBar

LEMMA GCRefines ==
    ASSUME RoomToCollect
    PROVE  MInv /\ MInv' /\ [StraightNext]_mvars => [GCStore!Next]_(GCStore!vars)
<1> SUFFICES ASSUME MInv, MInv', [StraightNext]_mvars
             PROVE  [GCStore!Next]_(GCStore!vars)
  OBVIOUS
<1>1. /\ \A id \in Id : ReadDuringGC(id) = Reads(id) /\ ReadDuringGC(id)' = Reads(id)'
      /\ ~Exhausted /\ ~Exhausted'
  <2>1. ReadsMedium /\ ReadsMedium' /\ HasRoom /\ HasRoom'
    BY MReads, PTL
  <2> QED BY <2>1 DEF ReadsMedium, HasRoom
<1>2. ASSUME \A id \in Id : Reads(id)' = Reads(id) PROVE UNCHANGED GCStore!vars
  BY <1>1, <1>2 DEF GCStore!vars
<1>3. CASE UNCHANGED mvars
  <2>1. UNCHANGED <<nat, media>>
    BY <1>3 DEF mvars, gvars, vars
  <2> QED BY <1>2, <2>1 DEF Reads, At
<1>4. CASE StraightNext /\ Finish
  <2>1. UNCHANGED <<nat, media>>
    BY <1>4, MTypes DEF MInv, Finish, Flush
  <2> QED BY <1>2, <2>1 DEF Reads, At
<1>5. CASE StraightNext /\ Collect
  <2>1. \A id \in Id : Reads(id)' = Reads(id)
    BY <1>5, GCStepReads DEF StraightNext, Collect
  <2> QED BY <1>2, <2>1
<1>6. ASSUME StraightNext, NEW id \in Id, AllocObj(id)
      PROVE  GCStore!Alloc(id)
  <2>1. \A j \in Id : Reads(j)' = IF j = id THEN Zeroed ELSE Reads(j)
    BY <1>6, CallReads DEF StraightNext
  <2>2. Reads(id) = Null /\ \A i \in Id : i < id => Reads(i) # Null
    BY <1>6, ReadsNull DEF AllocObj
  <2> QED BY <1>1, <2>1, <2>2 DEF GCStore!Alloc
<1>7. ASSUME StraightNext, NEW id \in Id, DeAllocObj(id)
      PROVE  GCStore!DeAlloc(id)
  <2>1. \A j \in Id : Reads(j)' = IF j = id THEN Null ELSE Reads(j)
    BY <1>7, CallReads DEF StraightNext
  <2> QED BY <1>1, <2>1 DEF GCStore!DeAlloc
<1>8. ASSUME StraightNext, Fill, NEW id \in Id, NEW v \in Value, WriteByObjId(id, v)
      PROVE  GCStore!Write(id, v)
  <2>1. \A j \in Id : Reads(j)' = IF j = id THEN v ELSE Reads(j)
    BY <1>8, CallReads DEF StraightNext
  <2>2. Reads(id) # Null
    BY <1>8, ReadsNull DEF WriteByObjId
  <2> QED BY <1>1, <2>1, <2>2 DEF GCStore!Write, GCStore!Settle
<1> QED BY <1>3, <1>4, <1>5, <1>6, <1>7, <1>8
        DEF StraightNext, MainNext, Fill, Delete, GCStore!Next

\* Collecting garbage implements steps in which the store stands still, and
\* the calls before and after it do to the store what they promise, for every
\* number of blocks, pages and objects that leaves a block empty.
THEOREM GCRefinement == ASSUME RoomToCollect PROVE StraightSpec => GCImplementsStore
<1>1. MainInit => GCStore!Init
  <2> SUFFICES ASSUME MainInit PROVE GCStore!Init
    OBVIOUS
  <2>1. \A id \in Id : ReadDuringGC(id) = Null
    BY DEF MainInit, GCInit, Init, ReadDuringGC, ReadByObjId
  <2>2. ~Exhausted
    BY MainInitInv, BarIs DEF HasRoom
  <2> QED BY <2>1, <2>2 DEF GCStore!Init
<1>2. MInv /\ MInv' /\ [StraightNext]_mvars => [GCStore!Next]_(GCStore!vars)
  BY GCRefines
<1>3. StraightSpec => GCStore!Init /\ [][GCStore!Next]_(GCStore!vars)
  BY MainInvariant, <1>1, <1>2, PTL DEF StraightSpec
<1> QED BY <1>3 DEF GCImplementsStore, GCStore!Spec
=============================================================================
