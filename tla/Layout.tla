------------------------------- MODULE Layout -------------------------------
(***************************************************************************)
(* super_blk_area.cc: where formatting puts things.  gen_ocssd_geo gives   *)
(* block 0 of channel 0 to the super block and the blocks after it to the  *)
(* three NATs; then it hands out the blocks of the file name, file meta    *)
(* and extent areas one by one, a row of nluns blocks in one channel and   *)
(* then the next channel; what is left of each channel becomes extents.    *)
(*                                                                         *)
(* A block is a channel and its position in the channel's order (BlkAddr:  *)
(* BlkAddrAdd is linear).  While blocks are handed out blk_idx and         *)
(* st_blk_idx count from 1, so that 0 can mean "not set"; Renumber makes   *)
(* them count from 0.                                                      *)
(***************************************************************************)
EXTENDS OcssdGeo, Sequences, FiniteSetsExt

CONSTANTS
    Geometry,        \* the devices there are
    Unset            \* an array element that new[] did not initialise

\* A block holds an object of each kind, and three levels hold every file:
\* super_blk_area.cc:99 and :108 suppose so.
ASSUME LayoutGeometry ==
    \A g \in Geometry :
      /\ g \in [nchannels : Nat \ {0}, nluns : Nat \ {0}, nplanes : Nat \ {0},
                nblocks : Nat \ {0}, npages : Nat \ {0}, page_nbytes : Nat \ {0}]
      /\ block_nbytes(g) >= 4 * KB
      /\ \A a \in {"fn", "ext"} : file_max_nr(g) <= LVL_cnt(a, 3)

VARIABLES
    geo,                           \* the geometry of the device
    area,                          \* the area being placed, then "renumber", "over"
    i, ch, idx,                    \* gen_ocssd_geo's loop variables
    blk_idx,                       \* first block of each channel not handed out
    st_ch, ch_nr,                  \* sb_meta: channels of each area
    st_blk_idx, blk_nr             \* each area's run in its idx-th channel

vars == <<geo, area, i, ch, idx, blk_idx, st_ch, ch_nr, st_blk_idx, blk_nr>>

nchs  == geo.nchannels
nluns == geo.nluns
Ch    == 0 .. nchs - 1

nat_blk_nr  == [a \in Area |-> nat_blks(geo, a)]
area_blk_nr == [a \in Area |-> area_blks(geo, a)]

TypeOK ==
    /\ area \in Area \cup {"renumber", "over"}
    /\ i \in Nat /\ ch \in Ch /\ idx \in Ch
    /\ blk_idx \in [Ch -> Nat]
    /\ st_ch \in [Area -> Ch] /\ ch_nr \in [Area -> 0 .. nchs]
    /\ st_blk_idx \in [Area -> [Ch -> Nat]]
    /\ \A a \in Area, k \in Ch : blk_nr[a][k] # Unset => blk_nr[a][k] \in Nat

NextArea(a) == CASE a = "fn" -> "fm" [] a = "fm" -> "ext" [] a = "ext" -> "renumber"

\* Mutant: the NAT of the extents is forgotten.
FirstIdxTwoNats == 1 + 1 + nat_blk_nr["fn"] + nat_blk_nr["fm"]

\* Super block and NATs come first in channel 0.
FirstIdx == 1 + 1 + nat_blk_nr["fn"] + nat_blk_nr["fm"] + nat_blk_nr["ext"]

\* The fn area begins in channel 0.
Init ==
    /\ geo \in Geometry
    /\ area = "fn" /\ i = 0 /\ ch = 0 /\ idx = 0
    /\ blk_idx = [c \in Ch |-> IF c = 0 THEN FirstIdx ELSE 1]
    /\ st_ch = [a \in Area |-> 0]
    /\ ch_nr = [a \in Area |-> IF a = "fn" THEN 1 ELSE 0]
    /\ st_blk_idx = [a \in Area |-> [k \in Ch |->
                       IF a = "fn" /\ k = 0 THEN blk_idx[0] ELSE 0]]
    /\ blk_nr = [a \in Area |-> [k \in Ch |->
                       IF a = "fn" /\ k = 0 THEN 0 ELSE Unset]]

RowEnds(b) == (b - 1) % nluns = 0

MoreChannels(a) == i + 1 < area_blk_nr[a] /\ ch_nr[a] < nchs

(* One turn of an area's loop: the block goes to the current channel, and  *)
(* when it ends a row the next channel follows, its run opened if this is  *)
(* the area's first visit.                                                 *)
PlaceBlock ==
    /\ area \in Area
    /\ i < area_blk_nr[area]
    /\ i' = i + 1
    /\ blk_idx' = [blk_idx EXCEPT ![ch] = @ + 1]
    /\ LET nr == [blk_nr EXCEPT ![area][idx] = @ + 1]
       IN  IF RowEnds(blk_idx'[ch])
             THEN /\ ch' = (ch + 1) % nchs
                  /\ idx' = (idx + 1) % nchs
                  /\ ch_nr' = [ch_nr EXCEPT ![area] = IF MoreChannels(area) THEN @ + 1
                                                      ELSE @]
                  /\ IF st_blk_idx[area][idx'] = 0
                       THEN /\ st_blk_idx' = [st_blk_idx EXCEPT ![area][idx'] = blk_idx'[ch']]
                            /\ blk_nr' = [nr EXCEPT ![area][idx'] = 0]
                       ELSE blk_nr' = nr /\ UNCHANGED st_blk_idx
             ELSE blk_nr' = nr /\ UNCHANGED <<ch, idx, ch_nr, st_blk_idx>>
    /\ UNCHANGED <<geo, area, st_ch>>

(* The next area begins where the last one ended.                          *)
BeginArea ==
    /\ area \in Area
    /\ i = area_blk_nr[area]
    /\ area' = NextArea(area)
    /\ IF area' \in Area
         THEN /\ i' = 0 /\ idx' = 0
              /\ st_ch' = [st_ch EXCEPT ![area'] = ch]
              /\ ch_nr' = [ch_nr EXCEPT ![area'] = 1]
              /\ st_blk_idx' = [st_blk_idx EXCEPT ![area'][0] = blk_idx[ch]]
              /\ blk_nr' = [blk_nr EXCEPT ![area'][0] = 0]
         ELSE UNCHANGED <<i, idx, st_ch, ch_nr, st_blk_idx, blk_nr>>
    /\ UNCHANGED <<geo, ch, blk_idx>>

Opened(a) == 0 .. ch_nr[a] - 1

Renumber ==
    /\ area = "renumber"
    /\ area' = "over"
    /\ st_blk_idx' = [a \in Area |-> [k \in Ch |->
                        IF k \in Opened(a) THEN st_blk_idx[a][k] - 1
                        ELSE st_blk_idx[a][k]]]
    /\ blk_idx' = [c \in Ch |-> blk_idx[c] - 1]
    /\ UNCHANGED <<geo, i, ch, idx, st_ch, ch_nr, blk_nr>>

Next == PlaceBlock \/ BeginArea \/ Renumber

Spec == Init /\ [][Next]_vars

(***************************************************************************)
(* What the rest of the system makes of the layout.                        *)
(***************************************************************************)

\* The blocks of an area: a run in each of its channels, taken in a circle.
Run(a, k) ==
    {<<(st_ch[a] + k) % nchs, st_blk_idx[a][k] + n>> : n \in 0 .. blk_nr[a][k] - 1}

Blocks(a) == UNION {Run(a, k) : k \in Opened(a)}

\* Super block and NATs.
Reserved ==
    {<<0, n>> : n \in 0 .. nat_blk_nr["fn"] + nat_blk_nr["fm"] + nat_blk_nr["ext"]}

(* MetaBlkArea's constructor: the loop over the channels counts them but   *)
(* stays in the first.                                                     *)
MetaBlkAddr(a) ==
    UNION {{<<st_ch[a], st_blk_idx[a][0] + n>> : n \in 0 .. blk_nr[a][k] - 1}
             : k \in Opened(a)}

(***************************************************************************)
(* Properties.                                                             *)
(***************************************************************************)
Over == area = "over"

\* Super block, NATs and the three areas take disjoint blocks, and together
\* exactly the blocks below the first extent of each channel (blk_idx, which
\* extent_tree_init starts from): nothing is given out twice or lost.
AreasTile ==
    Over =>
      /\ \A a \in Area :
           /\ Blocks(a) \cap Reserved = {}
           /\ \A b \in Area \ {a} : Blocks(a) \cap Blocks(b) = {}
      /\ Reserved \cup UNION {Blocks(a) : a \in Area}
           = UNION {{<<c, n>> : n \in 0 .. blk_idx[c] - 1} : c \in Ch}

\* ch_nr, st_blk_idx and blk_nr describe each area completely: the runs add
\* up to the area's size, and none of them is empty.
AreasAreWhole ==
    Over =>
      \A a \in Area :
        /\ MapThenSumSet(LAMBDA k : blk_nr[a][k], Opened(a)) = area_blk_nr[a]
        /\ \A k \in Opened(a) : blk_nr[a][k] > 0

\* Every channel has as many blocks as are handed out in it.  Nothing checks
\* it: BlkAddrAdd past the end only sets a status.
AreasFit == \A c \in Ch : Over => blk_idx[c] <= channel_blks(geo)

\* The layout gives each block of the device one owner, and every area all
\* its blocks (gen_ocssd_geo).
LayoutIsSound == AreasTile /\ AreasAreWhole /\ AreasFit

(***************************************************************************)
(* What the comments of the code say.                                      *)
(***************************************************************************)

\* meta_blk_area.cc:41, "all blk_addr of this meta area".
AllBlkAddrOfArea == Over => \A a \in Area : MetaBlkAddr(a) = Blocks(a)
=============================================================================
