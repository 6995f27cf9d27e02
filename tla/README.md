# small_oc_fs in TLA+

small_oc_fs is a small file system for an open-channel SSD: it chooses the
physical blocks itself and programs flash pages directly through liblightnvm.
It is one thread of C++; what is hard about it is not interleaving but long
sequences of calls on redundant, incrementally maintained state, the flash's
rule that a page is programmed once per erase, and what is lost between an
erase and the write that follows it. This directory holds TLA+ models of its
parts, the TLC runs that check them on small instances and TLAPS proofs for all
sizes.

    tlasany M.tla                        parse
    tlc -workers 2 -config X.cfg M       check (PROJECT.json pairs modules and cfgs)
    tlapm M.tla                          prove

## 1. The system

| part | state | operations | used by |
|---|---|---|---|
| `OcssdSuperBlock` (`super_blk_area.cc`) | `sb_meta`, the layout arrays `st_blk_idx`, `blk_nr`, `blk_idx`, three NATs | `gen_ocssd_geo` (layout), `format_ssd`, constructor (open), `flush_sb`, `flush_nat`, destructor | the programs; it creates every other part |
| `blk_addr_handle`, `BlkAddrHandle` (`blk_addr.cc`) | `status_`, lowest and highest address, packing of the 64-bit word | make, convert, add, subtract, compare, distance, get and set a field, `erase_all_block` | everyone who names a block |
| `MetaBlkArea` (`meta_blk_area.cc`), three instances | NAT (shared with the super block), three-level bitmap, active slot, one-page write buffer, garbage counters | `alloc_obj`, `de_alloc_obj`, `write_by_obj_id`, `read_by_obj_id`, `flush`, `need_GC`, `GC` | file names, file metadata, extents |
| `ExtentList` (`extent_meta/extent_list.cpp`), one per channel | a chain of nodes, each an object of `mba_extent` | `getNewExt`, `putExt`, `GC` | clients that create and delete files |
| `DirBTree` (`filename_meta/DirBTree.cpp`) | a B-tree, each node an object of `mba_file_name` | add, find, delete, verify | clients |
| file metadata (`file_meta/`) | objects of `mba_file_meta` | through `MetaBlkArea` | clients |
| client (`small_oc_fs_test.cc`) | file descriptors | create, delete, find a file with the parts above | |

All calls are synchronous and go downwards: client to `DirBTree`,
`ExtentList` and `MetaBlkArea`; these to `MetaBlkArea` and `BlkAddrHandle`;
these to the device. The one piece of shared state is the NAT, which
`MetaBlkArea` changes and `OcssdSuperBlock` saves.

What makes each part correct, and what is hard about it:

- **MetaBlkArea**: a read returns what was last written, whether it is still in
  `w_buf` or on the medium; no two objects share a slot and none is leaked;
  pages are programmed once and in order; bitmap levels, NAT, counters, active
  slot and medium tell the same story after any sequence of calls; a saved
  bitmap is never ahead of the medium. At its limit, when every slot is taken,
  the code has no error path.
- **Block addresses**: words order and count blocks as the layout does, although
  the fields' radices are not powers of two; moves never leave the channel;
  formatting erases each block once.
- **ExtentList**: extents tile the channel; no block has two owners; counters
  fit; GC keeps the chain whole while it walks it with cached nodes, and ends.
  All of it presupposes that a change to a node is stored, which over
  `MetaBlkArea` it is not.
- **Layout**: every block belongs to exactly one part, and every part finds its
  own.
- **Super block**: what is saved can be read back after a crash at any point.
- **DirBTree**: a name added is found until deleted; the tree stays a B-tree,
  and all of it is written back.

PROJECT.json lists these hazards at their lines.

## 2. The modules

| module | models | kind |
|---|---|---|
| `ObjStore` | what a `MetaBlkArea` promises its clients | abstract specification |
| `MetaBlkArea` | `meta_blk_area.cc` without GC and reopening | specification |
| `MetaBlkArea_proofs` | | invariants of `MetaBlkArea` and `MetaBlkAreaReopen`, and that they implement `ObjStore` and `DurableStore`, proved |
| `MetaBlkAreaGC` | `MetaBlkArea::GC`, slot by slot | extends `MetaBlkArea` |
| `MetaBlkAreaMain` | `meta_blk_area_main.cc`, the one caller of GC | extends `MetaBlkAreaGC` |
| `DurableStore` | what an area and the NAT saved for it promise over sessions | abstract specification |
| `MetaBlkAreaReopen` | flush, close, crash and the constructor on what was saved | extends `MetaBlkArea` |
| `MetaBlkAreaMain_proofs` | | GC: its invariants and `ObjStore`, proved |
| `Sums_proofs` | | lemmas about sums over finite sets |
| `BlkAddrCalc` | carry, borrow and distance of `blk_addr.cc` | operators |
| `BlkAddrCalc_proofs` | | order, distance and moves, proved |
| `BlkAddr` | `blk_addr.cc`: packing, handles, erase walk | specification |
| `ExtentList` | `extent_list.cpp`, over `MetaBlkArea` or the store it was written against | specification |
| `Directory` | what a `DirBTree` promises its clients | abstract specification |
| `DirBTree` | `DirBTree.cpp`, over `MetaBlkArea` or the store it was written against | specification |
| `DirBTree_proofs` | | the shape of the tree and its room, proved |
| `DirBTreeOrder_proofs` | | the order of the names, and `Directory`, proved |
| `OcssdGeo` | first half of `gen_ocssd_geo`: sizes from the geometry | operators |
| `Layout` | second half of `gen_ocssd_geo`: who gets which block | specification |
| `SavedNats` | what the super block promises for the NATs | abstract specification |
| `SuperBlock` | format, open, save and close in `super_blk_area.cc`, with crashes | extends `Layout` |
| `SuperBlock_proofs` | | layout, saved NATs and their room, proved |
| `FileStore` | what the file system promises | abstract specification |
| `FileSystem` | `small_oc_fs_test.cc`: files created and deleted | extends `ExtentList` |
| `FileSystem_proofs` | | nodes, chain and extents of the extent list; files keep their own, and `FileStore`, proved |
| `MCExtentList`, `MCFileSystem`, `MCSuperBlock` | | instances for TLC |

Definitions whose comment begins with "Mutant:" are wrong versions of the
definition that follows them. No specification uses them; PROJECT.json says
which property fails when one takes the place of the right one.

### MetaBlkArea

`nat`, `map` (the three bitmap levels), `blk_act`/`page_act`/`obj_act`, `w_buf`
and the counters are the object's members; `bitmap_vblk` is the bitmap as last
saved, and `media` is the device. Each public method is one action: the program
has one thread, and nothing runs between a method's call and its return.
`SetObjState` stands for `set_obj_state`, with the bit tests replaced by what
they decide; `FindNextActBlk` keeps the quirk of the loop that neither breaks
nor returns (the last open block of the round wins). `read_by_obj_id` changes
nothing, so it is an operator, `ReadByObjId`.

The device is external. Programming an erased page stores the content.
Programming a page again may fail or replace the content, because the code
ignores the status that `nvm_addr_write` returns.

An object is its id and a payload. The bytes a page holds before it is
programmed, and those of `w_buf` before it is filled, are `Raw`.

Most properties say "until it is exhausted". The area is exhausted when no slot
is FREE. The file system never calls GC (only `meta_blk_area_main.cc` does), so
this state is final (`ExhaustionIsFinal`), and the code keeps writing in it:
`find_next_act_blk` finds nothing, the active slot returns to page 0 of the
block just filled, and reads and writes go wrong (section 5). `ObjStore` says
the same of its variable `room`.

### MetaBlkAreaGC, MetaBlkAreaMain

GC is one function, but it is modelled one slot at a time: whether an object is
live, which block is the destination and which block `nvm_addr_destn` names are
three cached beliefs that change from slot to slot, and the properties are about
their staying in step. `GCNextSource` finds a source and computes
`nvm_addr_destn`, `GCSlot` looks at one object, `GCErase` erases the source,
`GCEnd` writes the page begun. `blk_destn` and `addr_destn` are kept apart
because the code does: when a destination is full, `blk_destn` moves on and
`addr_destn` does not. Liveness of an object is judged, as in the code, by the
state of the slot the NAT has for its id now, which need not be the slot looked
at.

`MetaBlkAreaMain` is the only program that calls GC. It writes each object once
before it deletes any, and its objects fill a page each. `StraightSpec` follows
it up to the first object that would be written to the wrong block (`Astray`);
the run `gc_destination` shows what happens then. Nobody calls `need_GC`, which
only compares `all_dead_obj_nr` with a threshold; `CountersAgree` is what it
relies on.

GC's last page, when it is padded, marks its unused slots on the page whose
index is the number of objects in it, not on the page written
(`meta_blk_area.cc:398`). With one object to a page there is no padding, so no
run reaches this; `GCEnd` has it for larger pages.

### MetaBlkAreaReopen

The program is built with `OCSSD_REFORMAT_SSD` 0: when the client returns, the
destructor of the super block saves the NAT, and the next session's constructor
starts from the saved bitmap and NAT. The destructor does not flush the area.
`meta_blk_area_main.cc` flushes before it returns, `small_oc_fs_test.cc` never
does, so in the model a session may flush at any time (`FlushBegin`) and close at
any time (`CloseBegin`). Erase and write are two steps each (`stage`), and a crash
between them ends the promise (`"lost"`), since arbitrary bytes are read then. A
crash at any other time is allowed (`Restart`).

A close without a flush saves a NAT that is newer than the bitmap. Two auxiliary
variables say which objects this is about: `dirty` are those written since the
area was last flushed or opened, `adrift` those whose NAT entries were saved while
they were dirty (`adrift_vblk`: those of the NAT on the device). The entry of an
object adrift leads to a slot that the bitmap may call FREE and that may never have
been programmed, or belong to another object later. Reading it gives anything, and
`DurableStore` says `Junk`. It is in order again once it is written or deleted.
What the two properties say is that nothing else is harmed: an object that was
not dirty at the close reads as it did (`ImplementsDurableStore`), and its slot is
not free (`NatSlotsTaken`), in whatever order sessions flush, close, crash, and
overwrite or delete what is adrift.

Garbage counters restart from zero, `w_buf` holds what malloc returned, and
`find_next_act_blk` chooses an active page that may have been programmed before:
by an earlier session that ended on a full page, or by one that did not save its
bitmap. The code goes on and programs it again; the model stops (`Reused`), and
`ImplementsDurableStore` says what holds until then.

### BlkAddrCalc, BlkAddr

An address is a word, taken apart and packed by shifts and masks (`Fields`,
`Pack`). `DoAdd` and `DoSub` compute the carries of the loops, which change the
digits in place, as a recursive function over the fields. `EraseBlock` is one
turn of the formatting loop. Clients hold addresses (`Holder`), make them, set
fields and move them. `stlun` is 0 for every handle the program makes.

### ExtentList

`store` is `mba_extent` as the list sees it, and `InPlace` says what
`read_by_obj_id` returns. The program links `MetaBlkArea`, which returns a copy:
`InPlace` is FALSE, and what is changed in a node and not written is lost. This is
what `FileSystem` is checked with. The list was written against `extent_stub.cpp`,
which returned the stored node itself, so that changes made through the pointer
last; nothing calls it any more. With `InPlace` TRUE the module is the list's
algorithm by itself: what splitting, sweeping, merging and borrowing would do if
the nodes were stored. Whatever is checked and proved with `InPlace` TRUE is a claim
about that algorithm and not about the program.

`getNewExt` and `putExt` are one action each. GC takes a step to sweep a node, one to balance it with its
neighbours and one to go on; `prev`, `cur` and `next` are its cached nodes.
Nothing else runs while `pc` is not `"idle"`. A dereference of the null
`eobj_next` takes `pc` to `"crashed"`. A descriptor given back carries a
`junk_bitmap` that `getNewExt` never set, so both values are inputs.

GC's borrow from the node before copies the wrong array (section 5), which makes
two extents one. `MCExtentList` records in `borrowed` that it was taken; what the
extents say is checked up to then, what the nodes and the chain look like also after.

### OcssdGeo, Layout

`OcssdGeo` computes the sizes as the code does, from a record of what `nvm_geo`
says; sizes in bytes would exceed TLC's integers, so a device is measured in
blocks. `ext` takes the object count of `fm` in its bitmap's size, as in the
code. In `Layout` one step hands out one block. `blk_idx`, `st_blk_idx`,
`blk_nr`, `st_ch` and `ch_nr` are the arrays and the members of `sb_meta`; an
element `new[]` did not initialise is `Unset`, and TLC stops if it is used.
`MetaBlkAddr` is what the constructor of `MetaBlkArea` makes of the result.

### SuperBlock

Constructor and destructor are lists of commands to the device (`format_ssd`,
`flush_nat`), executed one by one. A crash may come before any of them or in the
middle of one, which leaves the blocks it was about `Torn`. `flash` holds what
the blocks contain; a block programmed twice without an erase is `Torn` as well,
because the code ignores the result. A NAT is a version number; `Part` is one
block of its image. `NatStarts` is where the constructor looks for the NATs, and
`Allocated` where `flush_nat` puts them when it is the first to make their
`vblk`: from block 1 on, all three. So after formatting the NATs read back may be
`Unknown` (the run `nats_overlap`). The destructor saves them where the
constructor read them, and the next one built not to format finds them there:
`KeepsNats`.

The test of the magic number (`super_blk_area.cc:417`) compares a truth value
with it and is never true, and `sb_meta_buf` is read and not looked at, so the
model has neither. Data blocks are left out: `MetaBlkAreaReopen` has them.

### DirBTree

`store` is `mba_file_name` as the tree sees it, with the same choice of
`InPlace` as in `ExtentList`: FALSE over `MetaBlkArea`, which the program links,
and TRUE over the store the tree was written against (`DirBTree_stub.cpp`, which
nothing calls any more). Over copies the tree is lost when its root is first split
(the run `dir_splits`), so what is checked and proved of larger trees, with `InPlace`
TRUE, is about the algorithm.

`add_new_file` and `del_file` start at the root; `insert_not_full` and
`delete_not_half` end with a call of themselves, so one call is one action, and
the variable `call` holds its arguments: the request, the name looked for (which
changes when an entry of a subtree replaces the one to delete), the node's id
and the node as the caller has it in memory. The arrays `fdes` and `mobj_id` are
one sequence of entries, and a leaf has no children: what the arrays hold beyond
`fcount`, and a leaf's `cobj_id`, is copied about but never used.

A request takes effect in one of its calls (the insertion into a leaf, the
removal from a leaf, or the replacement in an inner node), after which the other
calls only move entries; `Directory` allows exactly this. `files` is the set of
all entries of the nodes that can be reached from the root.

Two things are taken from the client: files have different hashes, and a new
tree's `fcount`, which `init` leaves uninitialised, is 0 (see section 5).

### FileSystem

`small_oc_fs_test.cc` in steps of one call each. The extent list is
`ExtentList`'s; the directory is a function from files to metadata ids
(`Directory`), and the metadata objects are a function from ids to contents
(`ObjStore`), with the ids `alloc_obj` would pick, any id when the NAT is full.
`held` remembers which extent `getNewExt` gave to which file. A null from
`getNewExt` is dereferenced by the client: `call` becomes `"crashed"`. The
extents returned by a deletion carry a `junk_bitmap` that nobody set, which the list
would keep if it were stored. `ExtentGC` runs between operations, as
`extent_list_main.cpp` runs it.

The store under the list is the one `small_oc_fs_test.cc` is linked with
(`InPlace` is FALSE). There `getNewExt` hands out the same extent to every file
(the run `one_extent`), so `FileStore` does not promise extents of their own: it
promises each file a metadata object of its own, which is about that file and
stays as it was written whatever is done to other files.

## 3. The runs

| run | question | bounds |
|---|---|---|
| `mba` | do reads return what was last written; do NAT, bitmap, counters, active slot, saved bitmap and medium agree, before and after exhaustion | 2 blocks of 2 pages of 2 slots, 2 ids, 1 value |
| `mba_gc` | does GC keep every object, reclaim all counted garbage and end | 4 blocks of 3 pages of 1 slot, 8 objects |
| `mba_reopen` | what is found again after closes, flushed or not, and crashes | 2 blocks of 2 pages of 2 slots, 2 ids, 1 value |
| `super_block` | does each block have one owner; are NATs and bitmaps where they are looked for, whenever a crash comes | 4 devices of 1 to 3 channels, 2 versions of a NAT |
| `file_system` | does each file keep metadata of its own through creations, deletions, shortage and GC | channel of 9 blocks, 4 files, as many as there are NAT entries |
| `addr_moves` | is address arithmetic that of a linear order | 2 channels, 3 blocks, 2 planes, 3 luns; 2 addresses |
| `extent_gc` | does the allocator's algorithm keep the nodes, the chain and the extents whole with GC on several nodes, and does GC end | 6 extents, nodes of up to 3, up to 4 nodes, 1 file, `InPlace` |
| `dir_tree` | do adding and deleting keep a B-tree with the right files, at every step of the way down | half degree 1, 9 names, 8 nodes |
| `gc_destination` | "need to find another empty block as destination" (`meta_blk_area.cc:363`): pages do not follow | as `mba_gc` |
| `nats_overlap` | blocks 1, 4 and 5, and 8 for the NATs (`README.md:50-52`): all three begin at 1 | 2 channels |
| `dir_splits` | "AND write them" (`DirBTree.cpp:117`) fails over `MetaBlkArea` | 4 names |
| `one_extent` | "split extent" (`extent_list.cpp:78`): over `MetaBlkArea` the next file gets the same | as `file_system`, 2 files |

Why these bounds are enough to be interesting:

- `mba` has blocks of two pages, so that a block can be PART and pages are
  filled in turn, wraps from block to block, reaches the write that takes the
  last slot and follows the area past it. `MaxDead` bounds the garbage counters
  at 6 of the 8 slots. One value suffices here: a read of the wrong object shows
  as `Junk`, of a deleted one as a value instead of `Null`. That overwritten
  contents do not come back is covered by the theorem `Refinement`.
- `mba_gc`: 8 objects fill two blocks and most of a third, so GC has up to two
  sources, starts with one empty block, and needs a second destination when its
  sources hold more than three live objects.
- `mba_reopen`: sessions are not bounded; the 8 slots, `Exhausted` and `Reused` end
  the log, and `MaxDead` lets a session overwrite or delete one object. Two ids
  are what it takes for an object adrift to have its slot taken by another. With
  one value an object that is lost still differs from one that is found (`Junk`,
  `Zeroed`, `Null`); that an older value does not come back is covered by the
  theorem `DurableRefinement`.
- `super_block`: the four devices have NATs of one and two blocks, areas that
  stay in a channel, that span channels, that begin in the middle of a row and
  that come back to their first channel; trees of one, two and three levels. On
  the third device an area goes on from the last channel to the first, and the
  constructor crashes (`HasHandles`). `MaxVersion` 1 tells the NATs of one close from those of another.
- `file_system`: 9 blocks make 5 NAT entries, of which entry 0 is not used, so the
  last file takes the last entry (half as many would be too few, as the mutant of
  `ImplementsFiles` shows). The list has one node, as it always has over copies
  (`Copies`, section 4).
- `extent_gc`: half degree 2 and room for four nodes; all of GC's ways are taken,
  the merges with a node behind them included, which need three nodes and thus six
  extents. One file suffices to get there, because extents given back with a
  `junk_bitmap` of 0 stay taken.
- `addr_moves`: 3 blocks and 3 luns need 2 bits each and leave one code unused,
  which is where a wrong carry would go; every distance up to the channel's
  size is tried from every address.
- `dir_tree`: nodes of one to three entries. Nine names are what it takes for a
  tree of three levels whose inner nodes borrow from each other, the case in
  which children move along with entries. `Height` bounds the walks down by half
  the number of nodes, which no tree exceeds, since an inner node has at least
  two children. Entries move as pairs, so one value of `Mobj` is enough.

Deadlock is checked except where the system stops: the extent list over the
in-place store when GC has dereferenced a null pointer, the directory over copies
when it has, `meta_blk_area_main.cc` when it has flushed or its next object would go
astray, a session of `mba_reopen` that is exhausted, lost or about to write a used
page again.

Fairness is assumed in two places, both a `GCStep`: `ExtentList::GC` and
`MetaBlkArea::GC` are functions of a single-threaded program and run on once
they have been called. `GCEnds` and `GCEndsOrStrays` say that they then return
(or crash, or send an object astray) instead of looping for ever.

## 4. What is proved

Everything here holds for every value of the constants, under the assumptions
the modules state about them and the hypotheses named below.

### MetaBlkArea (`MetaBlkArea_proofs`)

The assumptions are those of `MetaBlkArea`: sizes are positive, a page has at
most 255 slots and a block at most 65535 pages (`Widths`: the widths of
`obj_act` and `page_act`), and the special values are distinct.

- `TypeCorrect`: the type invariant.
- `Invariant`: `IInv == TypeOK /\ LevelsExact /\ LogShape /\ LiveSlots` holds in
  every state. They are inductive only together. `LevelsExact` is what the code
  computes, a block being FULL as soon as none of its pages is EMPT; it implies
  `LevelsAgree`, which says only what the code's own tables and `find_next_act_blk`
  need. Where no page is EMPT and one is PART, `set_obj_state` and the table next to it
  disagree, and `LevelsAgree` takes no side (section 5).
  `LogShape` needs `LevelsExact` because `find_next_act_blk` chooses the next
  block by the upper bitmap levels, while the shape is about slots: a block that
  is not FULL must turn out to be blank (`FindNextActBlkIsFree`).
  `LiveSlots` needs `LogShape` because the active slot must be FREE when an
  object is put there. `LevelsExact` stands alone and holds past exhaustion.
  The central lemmas say what `SetObjState` does to one slot and its page and
  block (`SetObjStateEffect`, `SetObjStateLevels`) and that moving the active
  slot keeps the shape (`AdvanceKeepsShape`).
- `LevelsTheorem`, `LogShapeTheorem`, `LiveSlotsTheorem`: the conjuncts.
- `ProgramInOrderTheorem`: from `LogShape`, the page programmed is the active
  one, which is the first that is not.
- `SlotLifecycleTheorem`: a slot goes from FREE to USED to DEAD and never back.
- `SavedBitmapTheorem`: a page with a slot taken in the saved bitmap is on the
  medium. It is inductive relative to `IInv`: `flush` programs the active page
  before it copies the bitmap, and no page is erased.
- `DeadCountsTheorem`: a block has at least as many dead slots as its counter
  says. A counter is raised in the step that kills a slot of that block, and
  `LiveSlots` makes the slot one that was USED, so the set of dead slots grows.
- `ExhaustionTheorem`: no step makes a slot FREE.
- `Refinement`: `Spec => ImplementsStore`. Each action maps to the abstract
  action of the same name, or to a step that ends the promise. The argument is
  that a read depends only on the object's slot, that the step changes the
  content of no live slot but the one it writes (`SlotStays`, `ReadStays`), and
  that what moves from `w_buf` to the medium is what was in `w_buf`
  (`WriteReads`, `FlushReads`).

### Sessions (also `MetaBlkArea_proofs`)

After a restart `LogShape` need not hold: `find_next_act_blk` may take its block
from one turn of its loop and its page from another, and what a session
programmed whose bitmap was not saved is FREE in the bitmap. The invariant `RInv` is
therefore another one, about the slots that the NATs point at:

- a slot taken in the saved bitmap is taken in the current one (`SavedStaysTaken`);
- the current NAT points at slots taken in the current bitmap, but for objects
  adrift, and taken in the saved one, but for those dirty as well; the saved NAT
  points at slots taken in the saved bitmap, but for its own objects adrift
  (`NatTaken`);
- an object neither dirty nor adrift is on the medium, and so is one of the saved
  NAT that is not adrift in it (`OnMedium`); a dirty one is there or in `w_buf` before
  the active slot (`IsSomewhere`);
- only objects that were written are dirty or adrift (`WrittenOnly`).

The sets matter where a lost object meets another: its NAT entry may point at a slot
that is someone else's by now, and overwriting or deleting it marks that slot DEAD.
A DEAD slot is still not free, and the other object's entry still leads to it.

- `ReopenInvariant`, `NatSlotsTakenTheorem`.
- `DurableRefinement`: `ReopenSpec => ImplementsDurableStore`, for every
  geometry, any number of sessions, closes with or without a flush, and crashes
  anywhere but between an erase and the write that follows it. As long as a
  session programs erased pages only, the pages of saved slots keep what they had.

### Garbage collection (`MetaBlkAreaMain_proofs`)

- `GCInvariant`, `CountersTheorem`, `GCLevelsTheorem`: whatever the number of
  objects per page and whoever calls GC when, levels and counters agree. The sum
  of the counters is `all_dead_obj_nr`; this needs induction over finite sets,
  which `Sums_proofs` supplies (see below).
- `MainInvariant`: for the program that calls GC, with pages of one slot, up to
  the first object that would be written to the wrong block (`StraightSpec`),
  under `RoomToCollect`: its `test_size` objects leave a block empty,
  `test_size < (data_blk_nr - 1) * npages`. `MInv` says that medium, bitmap and
  NAT tell one story at every slot except those GC has passed in its source, and
  bounds the space: the pages free in the destination and the empty blocks
  (`PagesLeft`) are more than the objects still to be moved (`ToMove`). It is kept
  because each source has a dead slot, so that erasing it gives back more than
  was copied. That a block is empty when GC begins is shown by counting: full
  blocks would hold more slots than objects were written.
- From it: `GCLiveSlotsTheorem` (no object lost, none kept twice),
  `DestinationTheorem` (there is always a destination, never the source),
  `ReclaimsTheorem` (no block with counted garbage is left that could have been
  collected) and `GCRefinement`: no read changes while objects move.

Both `RoomToCollect` and `StraightSpec` are needed: without the first, GC finds
no destination; past the second, objects are lost (`gc_destination`).

### Layout and super block (`SuperBlock_proofs`)

Channels are taken in a circle, so places are counted from the channel an area
began in. `PlacingInv` says, for the layout half done, that the runs handed out
tile each channel up to its `blk_idx`; `WholeInv` that an area's runs add up to
what was handed out of it; `FitInv` that no channel is used further than the
blocks handed out.

- `LayoutTheorem`: for every device, each block below the first extent has one
  owner, and every area has all its blocks, in runs none of which is empty.
- `LayoutFitsTheorem`: `LayoutIsSound`, for devices whose channels could each
  hold everything but the extents
  (`FirstIdx - 1 + AllAreaBlks <= channel_blks(geo)`). The code relies on the
  size of the device for this and tests nothing.
- `NatsHaveRoomTheorem`: for devices with no more files than the file name area
  has objects, NATs fit their blocks and the address arrays (section 5).
- `AreasAreBlankTheorem`: on every device whose areas' bitmaps fit the one-block
  buffer the constructor reads, a device opened after formatting has its super
  block and blank areas (`FormattedAreasAreBlank`).
- `KeepsNatsTheorem`: opening without formatting finds the NATs of the last
  close, whenever a crash came. The invariant `SInv` says, for each list of
  commands that can be left to do, which NATs are written, torn or as before.

### Addresses (`BlkAddrCalc_proofs`)

For every geometry, about the four fields of a word:

- `DistanceTheorem`: `BlkAddrDiff` counts the blocks to the lowest and the
  highest address of the channel.
- `MovesTheorem`: `do_add` and `do_sub` move by the blocks they are told and
  stay in the channel, with every field below its radix, whenever
  `BlkAddrDiff` lets them. The carries cancel (`Carried`), and the top field
  cannot overflow because the sum is a block of the device (`TopInRange`).
- `OrderTheorem`: comparing field by field agrees with the distance.

That the packed words compare as their fields do, and that packing keeps the
fields, needs the bitwise operators and stays with the run `addr_moves`.

### Files (`FileSystem_proofs`)

- `FilesKeepTheirOwnTheorem`: under `RoomForAll` (a NAT entry for each file;
  `alloc_obj` with a full NAT returns an id in use, and the client does not
  look), the metadata objects in use are those of the files in the directory,
  one each, and each names the extent that was given to its file. `FInv` adds
  what is true amid an operation: exactly one more object is in use, and
  whether it is written yet.
- `FilesRefinement`: under `RoomForAll`, and over either store, the steps implement
  `FileStore` (`ImplementsFiles`). `AddName` is the abstract creation, `DeleteName` the
  abstract deletion, everything else a stutter. `WholeInv` joins `FInv` and what is
  true of the list below it: a file has an extent if it is in the directory or in
  the part of its operation where it does, and every step of the file system is one
  of the list's (`ListStep`) or leaves the list alone. Over the in-place store the
  list's part is `CInv` (see below). Over copies it is `Copies`: the head node is the
  one `ExtentList` made, no call has ever changed it, and whatever is held is the first
  extent of the channel. This needs a half degree above one (`Degrees`; the code has 64),
  or two extents would fill a node and the list would split and be written.
- `OneExtentTheorem`: hence in the program the metadata of all files names one extent,
  for every geometry, number of files and history of creations, deletions and GC. This is
  the run `one_extent` for all constants.

### Extents (also `FileSystem_proofs`)

For every channel, extent size, degree of the nodes and number of ids, about the list's
algorithm over the store it was written against (`InPlace`). It is not the store
the program links, over which the list is what `OneExtentTheorem` says:

- `ChainInvariant`: `CInv` says that every allocated node fits, with at least
  one extent and fewer than `Ext_Node_Degree`; that there is a sequence of
  distinct ids, from the head, which are the allocated ones, each linked to the
  following; and that while GC runs its `eobj_prev`, `eobj` and `eobj_next` are
  three consecutive places of that sequence and equal what is stored there. The
  last part is what the merges need: they link through these pointers, and free
  the id of one of them. A node added to the sequence (`NodeAdded`) and one
  taken out (`NodeRemoved`) are lemmas about any chain. That a node before
  `balance` has fewer than `H` extents is part of the invariant, so that a node
  of `H` and this one fit in one.
- `NodesStayFit`, `ChainStaysSound`: `NodesFit` and `ChainIsSound`. The pass over
  a node makes no more extents than there were and leaves at least one
  (`SweepFits`): the recursion in `FoldLeft` is unfolded by a lemma
  (`SweepSteps`) and followed extent by extent.
- `ExtentTypes`: the type invariant.

The borrow that copies the wrong extent is part of these steps: it spoils what
the extents say, not how many there are or how nodes are linked. What the extents
say is proved of every behaviour without that step, `NoBorrow ==
[][~GCBorrowPrev]_vars`, with all other steps on chains of any length; the run
`extent_gc` checks the first and third of these properties up to that step:

- `TilingInvariant`: `TInv` adds two parts to `CInv`. `Laid` says that the extents of
  each node are sound and tile a range, and that the range ends where that of
  the next node of the chain begins, or at `blk_ed`. `HeldIn` says that what a file
  holds is in some node, neither free nor junk, and that no two files hold
  extents with one start. A sound extent has room for as many units as its
  counter says and not for one more, and if there is more than that it is the
  channel's last; this is what `Cut` relies on when it splits one, and why two
  extents merged are sound again. GC's pass is followed extent by extent
  (`SweepTiled`); it may join free extents but keeps those of files (`Keeps`), and
  so do the moves between nodes (`KeptIn`).
- `ListTilesTheorem`, `HeldOnceTheorem`, `CountsFitTheorem`: the extents of all nodes,
  put one after the other (`Listed`), tile the channel; no block is in the extents of
  two files, nor free or junk while a file has it; counters fit. The recursion in
  `FlattenSeq` is unfolded along the chain (`FlatSteps`, `ListedTiled`), and two extents
  of the list that overlap are one and the same (`OverlapIsSame`).

### Directory (`DirBTree_proofs`)

For every half degree, set of names and number of objects, about the tree's
algorithm over the store it was written against (`InPlace`; over the one the program
links see `dir_splits`), and as long as `alloc_obj` finds
an object for each node that is split off (`HasRoom`, a hypothesis here and a
conjunct of `CallsHaveRoom` in the run; the end of the next part says
when it holds):

- `ShapeTheorem`: the invariant `TreeShape` says that each node has a height, 0
  for leaves, such that the allocated nodes are one tree (`Rooted`), that nodes
  have the sizes of a B-tree (`Sized`), and that the call that runs is made for
  a node with room, which it has in memory as it is stored (`CallOK`). Every
  action cuts a node in two around an entry of its parent, or unites two
  (`Cut`), moves an entry and a child between two children through their parent
  (`Shift`), or changes one node (`Put`, `Set`). What these do to the tree is
  proved of any two stores (`CutRooted`, `ShiftRooted`, ...), and what each
  action does in those terms once (`InsertBelowDoes`, `UnionIs`, ...). A tree is
  no higher than `Height`: below the root are two nodes at each height
  (`HeightBound`), so the walks of the model reach the leaves.
- `CallsHaveRoomTheorem`, `NoNodeLostTheorem`, `CallsGoDownTheorem`: what follows
  for the arrays of a node, the objects and the recursion.

### Directory: order and refinement (`DirBTreeOrder_proofs`)

The hypotheses are the same. What is said of any tree in order, and of cutting
one of its nodes, is at the end of `DirBTree_proofs`; the rest, from loans and
unions to the invariant, is in `DirBTreeOrder_proofs`.

- `OrderTheorem`: the invariant `TreeOrder` adds the order of the names to the
  shape. `I[i]` is the set of names that belong to node `i`: all names at the
  root, and for a child those of its parent that lie in the gap it hangs in.
  `Ordered` says that each node is sorted and holds only names that belong to
  it, from which it follows, level by level from the root, that a name
  belongs to at most one node of each height (`OneAtHeight`) and is held once
  (`NameOnce`). Between two calls on the way down the name looked for belongs to
  the node the call is for, and the name to be added to no file (`Settled`). That
  alone is not inductive: when `delete_not_half` finds its name in an inner node, it
  puts the nearest entry from a subtree in its place and goes on to delete that
  one, so that for a while an entry is in the tree twice and the tree is out of
  order at one place. `Replacing` describes this: there is a tree in order, with
  the entry that was replaced, which differs from the stored one in that entry
  only; no file's name lies between the two (`Near`), the call is for a node below, and
  the entry to be deleted is at a leaf (`AtALeaf`). Loans and unions are then done to
  both trees alike (`GhostAt`), and when the leaf is reached the two agree
  (`TwinGoes`).
- `FindsTheFilesTheorem`: the walk `get_file_meta_obj_id` takes ends at the node
  that holds the name, or at the leaf the name belongs to (`SearchEnds`), also
  while an entry is there twice (`TwiceAnswers`).
- `WellFormedTheorem`: what `verify` looks at, and that no name is there twice.
- `DirectoryRefinement`: `ImplementsDirectory`. Cutting, uniting and shifting keep
  the set of files (`CutFiles`, ...); a call keeps it or has the request's effect
  (`Serves`), and a request has its effect in one of its calls.
- `FewNamesTheorem`, `FewNamesDirectory`: with at most `MaxId * H + 1` names
  (`FewNames`; the run `dir_tree` has exactly as many) `HasRoom` is no hypothesis but a
  consequence, and all of the above holds of `Spec` itself. The argument counts: no
  two entries have one name (`NameOnce`), each node but the root has at least `H`
  entries, and one about to be split has `2 * H + 1`, so there are fewer nodes than
  objects (`NamesSuffice`, `RoomByNames`). The code has 64-bit hashes and does not
  look whether `alloc_obj` found an object, so there this is a condition on the
  client.

### Only model-checked

- `GCEnds` and `GCEndsOrStrays`: liveness, out of the prover's reach.
- `OrderAndDistance`, `MovesAreLinear`, `EraseWalk` (`BlkAddr`): bitwise
  operators; the arithmetic behind them is proved as said above.

The library's induction theorems cannot be used, since they take an operator as
a parameter. Where induction is over finite sets it can be replaced by choosing
a minimal counterexample, which is well-founded (`Least` in `Sums_proofs`); this
is how sums are dealt with.

## 5. Divergences without a run

PROJECT.json lists the divergences that a run shows. Five more have a configuration,
none of the runs, with which TLC shows the counterexample:

    tlc -config MetaBlkArea_StillInBuf.cfg MetaBlkArea
    tlc -config MetaBlkArea_FullIsAllInUse.cfg MetaBlkArea
    tlc -config MetaBlkAreaReopen_EmptIsFreeToUse.cfg MetaBlkAreaReopen
    tlc -config ExtentList_FilesAreDisjoint_gc.cfg MCExtentList
    tlc -config Layout_AllBlkAddrOfArea.cfg MCSuperBlock

- When the last slot of the last open block is taken, the active slot stays at
  page 0 of the block just filled, and `read_by_obj_id` takes the objects of that
  page from `w_buf`, which holds another page (`meta_blk_area.cc:431`, "still in
  buf").
- `set_obj_state` calls a block FULL when the lowest bits of all its pages are set, and
  PART is 1: a block whose pages are FULL and PART, or PART only, becomes FULL although
  slots of it are free (`meta_blk_area.cc:242`). The table in the code calls such blocks
  PART (`meta_blk_area.cc:233`, `:237`), and `meta_blk_area.h:34` says of FULL "all is
  in use". Within a session the PART page
  is the active one, whose slots are filled next, so nothing is lost by it (`LogShape`).
- `~OcssdSuperBlock` saves the NATs and neither bitmap nor write buffer of the areas
  (`super_blk_area.cc:715`). After a session of `small_oc_fs_test.cc`, which does not flush,
  the NAT names blocks whose saved bitmap is EMPT ("all is free to use",
  `meta_blk_area.h:32`), for objects that "HAVE obj address" (`:25`). The run
  `mba_reopen` says what survives such a close.
- Borrowing an extent from the node before copies its counter twice and its
  addresses never (`extent_list.cpp:229-230`, "borrow from prev"): over the in-place
  store the node gets its own first extent a second time, free, and two files get it.
  Over copies no node fills up and GC never gets there.
- The constructor's loops over an area's channels never advance `ch`: an area of
  two channels gets addresses in the first one only (`meta_blk_area.cc:44`, "all
  blk_addr of this meta area").

The others, met while modelling, are described here only:

- The root ids in `sb_meta` are 0 and never read back
  (`super_blk_area.cc:265`): a device opened without formatting has an empty
  directory and fresh extent lists, whatever its NATs say.
- On a device that was never formatted, the constructor built not to format
  reads NATs that nobody wrote; the test that should notice is never true
  (`super_blk_area.cc:417`).
- `flush_nat` takes `fn_nat_blk_nr` for the length of the address array of the
  `fm` NAT (`super_blk_area.cc:844`). `NatsHaveRoomTheorem` shows that it is
  enough as long as the device has no more files than the file name area has
  objects, 113233. Beyond that, from 226466 blocks on, the `fm` NAT may need more
  blocks than the array has elements.
- A constructor reads one block of bitmap whatever `bitmap_blk_nr` says
  (`meta_blk_area.cc:73`); `AreasAreBlankTheorem` shows that it is enough for
  every device whose bitmaps fit one block.
- Extents given back with an uninitialised `junk_bitmap` of 0 are lost
  (`extent_list.cpp:75`).
- `nat_entry.blk_idx` counts from 0 (`meta_blk_area.h:17` says "> 0").
- `status_` is never reset, and formatting overflows on every channel
  (`blk_addr.cc:276`; `blk_addr.h:143` says "status of last operation").
- `BlkAddrValid` accepts everything and `SetFieldBlkAddr` the radix itself
  (`blk_addr.cc:264` and `:177`; `blk_addr.h:111`).
- `putExt` over `MetaBlkArea` marks a copy that is dropped
  (`extent_list.cpp:173`).
- `ExtentList::GC` on a list of several nodes dereferences a null `eobj_next`
  when it merges the last node with the one before it or a node with the last
  one (`extent_list.cpp:243`, `:274`); `extent_list_main.cpp:47` calls it on such
  lists. In the model `pc` becomes `"crashed"`, and `GCEnds` allows for it.
- An area that goes round from the last channel to channel 0 makes the
  constructor of `OcssdSuperBlock` ask for channels that do not exist, and
  dereference nullptr (`super_blk_area.cc:538-553`); such devices cannot be
  opened.
- `DirBTree::init` leaves `fcount` uninitialised (`DirBTree.cpp:19`). Memory that
  is not zero gives the new tree entries nobody added.
- With two files of one hash, deleting from an inner node may remove the entry
  of the other file (`DirBTree.cpp:271-274`).
- The README's layout example (`README.md:47-55`) fills row by row across the
  channels; the code finishes a row in one channel and goes on in the next
  wherever that is, so its file metas are at 12, 13, 6, 7 and 16.

## 6. Not modelled, and the plan

Not modelled at all: `extent_tree` and `extent_blkhandle` (built by no target;
they do not compile), the drivers other than `meta_blk_area_main.cc` and
`small_oc_fs_test.cc`, printing (`dbg_info.h`, `print_*`, `display`,
`PrBlkAddr`), memory management, the generated files of `cmake-build-debug`, and
liblightnvm beyond what is said above. Failures of the device itself, other than
a crash in the middle of a command, are not modelled.

`DirBTree` and `ExtentList` are not composed with `MetaBlkArea` itself: over it
they lose their changes at the first split (`dir_splits`) or at once (`one_extent`),
so there is little to check beyond these runs. `FileSystem` has the extent list over copies of its nodes, and takes
what the directory and `MetaBlkArea` promise.

Every safety invariant, action property and refinement that the runs check is
also proved, those of `extent_gc` about the extents with `NoBorrow` in place of
`borrowed`, but for the three properties of `BlkAddr`, of which the arithmetic is
proved; the two liveness properties are out of reach. Two proofs could be
taken further: GC with objects that share a page, of which only levels and
counters are proved to stay right, and the layout of devices too small for
`LayoutFitsTheorem`.
