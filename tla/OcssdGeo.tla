------------------------------ MODULE OcssdGeo ------------------------------
(***************************************************************************)
(* super_blk_area.cc: the first half of gen_ocssd_geo, which derives the   *)
(* sizes of the NATs, areas and bitmaps from the geometry of the device.   *)
(* A geometry is a record of what nvm_geo says; all divisions truncate.    *)
(* Sizes in bytes fit 64 bits in the code.  Here the device is measured in *)
(* blocks, so that no number exceeds the 31 bits of TLC.                   *)
(***************************************************************************)
EXTENDS Integers

Area == {"fn", "fm", "ext"}

KB == 1024

obj_nbytes   == [fn |-> 4 * KB, fm |-> KB, ext |-> 4 * KB]
btree_degree == [fn |-> 336, ext |-> 128]
nat_entry_nbytes == 16
min_ext_addr_nr  == 2

block_nbytes(g) == g.npages * g.page_nbytes

blk_obj_nr(g, a) == block_nbytes(g) \div obj_nbytes[a]

\* Blocks of a channel and of the device.
channel_blks(g) == g.nblocks * g.nplanes * g.nluns
ssd_blks(g)     == channel_blks(g) * g.nchannels

\* The most files there can be, each with an extent of two blocks.
file_max_nr(g) == ssd_blks(g) \div min_ext_addr_nr

\* Nodes of a tree of one, two and three levels of full nodes, and the
\* entries they hold.
LVL_obj_nr(a) ==
    LET d == btree_degree[a]
    IN  << 1, d + 1, d * d + d + 1 >>

LVL_cnt(a, l) == LVL_obj_nr(a)[l] * btree_degree[a]

\* Nodes of the lowest tree that holds every file; three levels are supposed
\* to be enough.
tree_obj_nr(g, a) ==
    IF file_max_nr(g) <= LVL_cnt(a, 1) THEN LVL_obj_nr(a)[1]
    ELSE IF file_max_nr(g) <= LVL_cnt(a, 2) THEN LVL_obj_nr(a)[2]
    ELSE LVL_obj_nr(a)[3]

obj_nr(g, a) == IF a = "fm" THEN file_max_nr(g) ELSE tree_obj_nr(g, a)

\* An area has three times the blocks its objects need, unless it is that of
\* a tree of three levels.
Tripled(g, a) == a = "fm" \/ obj_nr(g, a) < LVL_obj_nr(a)[3]

data_blk_nr(g, a) ==
    LET nr == obj_nr(g, a) \div blk_obj_nr(g, a) + 1
    IN  IF Tripled(g, a) THEN 3 * nr ELSE nr

\* The NAT of a tree has room for three levels, whatever the device.
nat_entry_nr(g, a) == IF a = "fm" THEN file_max_nr(g) ELSE LVL_obj_nr(a)[3]

nat_blks(g, a) == (nat_entry_nr(g, a) * nat_entry_nbytes) \div block_nbytes(g) + 1

\* One byte for each block, page and object.  For the extents the code takes
\* the object count of the file metadata.
bitmap_nr(g, a) ==
    data_blk_nr(g, a)
      * (1 + g.npages + blk_obj_nr(g, IF a = "ext" THEN "fm" ELSE a))

bitmap_blk_nr(g, a) == bitmap_nr(g, a) \div block_nbytes(g) + 1

area_blks(g, a) == data_blk_nr(g, a) + bitmap_blk_nr(g, a)
=============================================================================
