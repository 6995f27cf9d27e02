----------------------------- MODULE SuperBlock -----------------------------
(***************************************************************************)
(* super_blk_area.cc: formatting, opening and closing the device.  The     *)
(* constructor computes the layout, formats the device if the program was  *)
(* built to (OCSSD_REFORMAT_SSD), reads the three NATs and makes the areas *)
(* from them; the destructor saves the NATs.                               *)
(*                                                                         *)
(* Constructor and destructor issue commands to the device; todo holds the *)
(* commands to come.  The program may crash before any of them or amid it. *)
(* The layout is a function of the geometry: it is computed once here and  *)
(* found again by each constructor.                                        *)
(*                                                                         *)
(* A NAT is a version number.  flash holds what blocks that are not erased *)
(* contain.  What is written to the data blocks of the areas is left out:  *)
(* MetaBlkAreaReopen has it.                                               *)
(***************************************************************************)
EXTENDS Layout

CONSTANTS
    OCSSD_REFORMAT_SSD,    \* the values programs were built with
    MaxVersion,            \* bounds the versions of a NAT
    Closed, Lost

ASSUME Builds == OCSSD_REFORMAT_SSD \subseteq {0, 1} /\ MaxVersion \in Nat

VARIABLES
    need_format,
    phase,     \* "closed", "opening", "up", "closing"
    todo,      \* commands to the device
    flash,
    nat,       \* nat_fn, nat_fm, nat_ext
    nat_vblk   \* first block of fn_nat_vblk etc., 0 for nullptr

svars == <<need_format, phase, todo, flash, nat, nat_vblk>>
sbvars == <<vars, svars>>

Unknown == -1
Version == {Unknown} \cup 0 .. MaxVersion

ASSUME ClosedIsNoNat == Closed \notin [Area -> Version]

\* What blocks contain: sb_meta, a bitmap of zeros, part of a NAT, or bytes
\* that nobody wrote.
SbMeta == [what |-> "sb"]
Zeros  == [what |-> "zeros"]
Torn   == [what |-> "torn"]
Part(a, k, v) == [what |-> "nat", area |-> a, part |-> k, version |-> v]

sb_addr == <<0, 0>>

SbTypeOK ==
    /\ TypeOK
    /\ need_format \in {0, 1}
    /\ phase \in {"closed", "opening", "up", "closing"}
    /\ nat \in [Area -> Version]
    /\ nat_vblk \in [Area -> Nat]
    /\ sb_addr \in DOMAIN flash => flash[sb_addr] \in {SbMeta, Torn}

SbInit ==
    /\ Init
    /\ need_format = 0 /\ phase = "closed" /\ todo = <<>>
    /\ flash = <<>>
    /\ nat = [a \in Area |-> Unknown]
    /\ nat_vblk = [a \in Area |-> 0]

ComputeLayout == Next /\ UNCHANGED svars

(***************************************************************************)
(* Which blocks.                                                           *)
(***************************************************************************)
NatBlk(st, k) == <<0, st + k - 1>>

NatBlks(a) == {NatBlk(nat_vblk[a], k) : k \in 1 .. nat_blk_nr[a]}

\* Mutant: every NAT begins behind the super block, as when formatting.
NatStartsAllFirst == [a \in Area |-> 1]

\* Where the constructor reads the NATs: one behind the other.
NatStarts ==
    [fn  |-> 1,
     fm  |-> 1 + nat_blk_nr["fn"],
     ext |-> 1 + nat_blk_nr["fn"] + nat_blk_nr["fm"]]

RunBefore(a, k) == MapThenSumSet(LAMBDA j : blk_nr[a][j], 0 .. k - 1)

\* The places, as run and offset, of an area's first bitmap_blk_nr blocks.
BitmapPlaces(a) ==
    UNION {{<<k, n>> : n \in {m \in 0 .. blk_nr[a][k] - 1 :
                                RunBefore(a, k) + m < bitmap_blk_nr(geo, a)}}
             : k \in Opened(a)}

\* Mutant: the address starts at the channel's first block.
BitmapWrittenFromZero(a) == {<<(st_ch[a] + p[1]) % nchs, p[2]>> : p \in BitmapPlaces(a)}

\* Where format_ssd writes a bitmap.
BitmapWritten(a) ==
    {<<(st_ch[a] + p[1]) % nchs, st_blk_idx[a][p[1]] + p[2]>> : p \in BitmapPlaces(a)}

\* Where MetaBlkArea's constructor reads it, which stays in one channel.
BitmapRead(a) ==
    {<<st_ch[a], st_blk_idx[a][0] + p[2]>> : p \in BitmapPlaces(a)}

(***************************************************************************)
(* Commands to the device.                                                 *)
(***************************************************************************)
EraseAll       == [op |-> "erase_all"]
WriteSb        == [op |-> "sb"]
EraseNat(a)    == [op |-> "erase", area |-> a]
WriteNat(a)    == [op |-> "nat", area |-> a]
WriteBitmap(a) == [op |-> "bitmap", area |-> a]

AllAreas == << "fn", "fm", "ext" >>

ForEach(cmd(_)) == [k \in 1 .. 3 |-> cmd(AllAreas[k])]

\* Mutant: each NAT is erased just before it is written.
flush_natOneByOne(if_erease) ==
    IF if_erease THEN << EraseNat("fn"), WriteNat("fn"), EraseNat("fm"), WriteNat("fm"),
                         EraseNat("ext"), WriteNat("ext") >>
    ELSE ForEach(WriteNat)

flush_nat(if_erease) ==
    (IF if_erease THEN ForEach(EraseNat) ELSE <<>>) \o ForEach(WriteNat)

format_ssd == << EraseAll, WriteSb >> \o flush_nat(FALSE) \o ForEach(WriteBitmap)

Erase(B) == [b \in DOMAIN flash \ B |-> flash[b]]

(* A block that is written again without an erase may keep its content,    *)
(* take the new one or become neither: from then on it is Torn, of which   *)
(* nothing is known.  The result of nvm_vblk_write is not looked at.       *)
(* content is a function of blocks.                                        *)
Program(content) ==
    flash' = [b \in DOMAIN flash \cup DOMAIN content |->
                IF b \notin DOMAIN content THEN flash[b]
                ELSE IF b \in DOMAIN flash THEN Torn
                ELSE content[b]]

All(B, c) == [b \in B |-> c]

Tear(B) == [b \in DOMAIN flash \cup B |-> IF b \in B THEN Torn ELSE flash[b]]

Image(a, st) ==
    LET part(b) == b[2] - st + 1
    IN  [b \in {NatBlk(st, k) : k \in 1 .. nat_blk_nr[a]} |-> Part(a, part(b), nat[a])]

\* nat_vblk of a NAT that is written for the first time: from block 1 on.
Allocated(a) == IF nat_vblk[a] = 0 THEN 1 ELSE nat_vblk[a]

Do(cmd) ==
    CASE cmd.op = "erase_all" -> flash' = <<>>                      /\ UNCHANGED nat_vblk
      [] cmd.op = "sb"        -> Program(All({sb_addr}, SbMeta))    /\ UNCHANGED nat_vblk
      [] cmd.op = "bitmap"    -> Program(All(BitmapWritten(cmd.area), Zeros))
                                                                    /\ UNCHANGED nat_vblk
      [] cmd.op = "erase"     -> flash' = Erase(NatBlks(cmd.area))  /\ UNCHANGED nat_vblk
      [] cmd.op = "nat"       -> /\ nat_vblk' = [nat_vblk EXCEPT ![cmd.area] = Allocated(cmd.area)]
                                 /\ Program(Image(cmd.area, Allocated(cmd.area)))

\* A crash amid a command leaves its blocks torn; erase_all_block begins in
\* channel 0 and has erased the blocks up to some n there.
HalfDo(cmd) ==
    CASE cmd.op = "erase_all" ->
           \E n \in 0 .. blk_idx[0] : flash' = Erase({<<0, m>> : m \in 0 .. n})
      [] cmd.op = "sb"     -> flash' = Tear({sb_addr})
      [] cmd.op = "bitmap" -> flash' = Tear(BitmapWritten(cmd.area))
      [] cmd.op = "erase"  -> flash' = Tear(NatBlks(cmd.area))
      [] cmd.op = "nat"    -> flash' = Tear(DOMAIN Image(cmd.area, Allocated(cmd.area)))

(***************************************************************************)
(* The program.                                                            *)
(***************************************************************************)

\* A new OcssdSuperBlock.  Formatting starts from empty NATs.  The test of
\* the magic number, !sb_meta.magic_num == SUPER_BLK_MAGIC_NUM, is never
\* true, and what is read of the super block is not looked at.
Construct ==
    /\ area = "over" /\ phase = "closed"
    /\ phase' = "opening"
    /\ need_format' \in OCSSD_REFORMAT_SSD
    /\ IF need_format' = 1
         THEN todo' = format_ssd /\ nat' = [a \in Area |-> 0]
         ELSE todo' = <<>>       /\ nat' = [a \in Area |-> Unknown]
    /\ nat_vblk' = [a \in Area |-> 0]
    /\ UNCHANGED <<vars, flash>>

\* The NAT found from block st on; anything, if it is not all there.
Whole(a, st, v) ==
    \A k \in 1 .. nat_blk_nr[a] :
      LET b == NatBlk(st, k)
      IN  b \in DOMAIN flash /\ flash[b] = Part(a, k, v)

Content(a, st) ==
    LET found == {v \in Version : Whole(a, st, v)}
    IN  IF found = {} THEN Unknown ELSE Max(found)

\* The constructor takes an area's channels in order and does not go round
\* from the last to the first: the channel after the last has no handle, and
\* nullptr is dereferenced.
HasHandles(a) == st_ch[a] + ch_nr[a] <= nchs

\* The rest of the constructor.  Without a handle the program crashes here.
ReadNats ==
    /\ phase = "opening" /\ todo = <<>>
    /\ \A a \in Area : HasHandles(a)
    /\ phase' = "up"
    /\ nat_vblk' = NatStarts
    /\ nat' = [a \in Area |-> Content(a, NatStarts[a])]
    /\ UNCHANGED <<vars, need_format, todo, flash>>

\* Creating and deleting files changes all three NATs.
Use ==
    /\ phase = "up"
    /\ \E v \in 0 .. MaxVersion : nat' = [a \in Area |-> v]
    /\ UNCHANGED <<vars, need_format, phase, todo, flash, nat_vblk>>

\* The destructor.  The super block is written only when formatting.
Destruct ==
    /\ phase = "up"
    /\ phase' = "closing"
    /\ todo' = flush_nat(TRUE)
    /\ UNCHANGED <<vars, need_format, flash, nat, nat_vblk>>

\* The object is no more.
Gone ==
    /\ phase' = "closed"
    /\ need_format' = 0 /\ nat' = [a \in Area |-> Unknown]

Command ==
    /\ todo # <<>>
    /\ Do(Head(todo))
    /\ todo' = Tail(todo)
    /\ IF phase = "closing" /\ todo' = <<>>
         THEN Gone
         ELSE UNCHANGED <<phase, need_format, nat>>
    /\ UNCHANGED vars

Crash ==
    /\ phase # "closed"
    /\ Gone
    /\ todo' = <<>> /\ nat_vblk' = [a \in Area |-> 0]
    /\ \/ UNCHANGED flash
       \/ todo # <<>> /\ HalfDo(Head(todo))
    /\ UNCHANGED vars

SbNext ==
    \/ ComputeLayout
    \/ Construct \/ ReadNats \/ Use \/ Destruct \/ Command \/ Crash

SbSpec == SbInit /\ [][SbNext]_sbvars

(***************************************************************************)
(* Properties.                                                             *)
(***************************************************************************)

\* Where each NAT must end: the next one, or the first area, begins.
NatEnds == [fn |-> nat_vblk["fm"], fm |-> nat_vblk["ext"], ext |-> st_blk_idx["fn"][0]]

\* Once the device is open, the image of each NAT fits between its first
\* block and what comes next, and takes no more blocks than that of the file
\* names, whose number sizes the address arrays of all three (flush_nat).
NatsHaveRoom ==
    phase \in {"up", "closing"} =>
      \A a \in Area :
        /\ nat_vblk[a] > 0
        /\ nat_entry_nr(geo, a) * nat_entry_nbytes
             <= (NatEnds[a] - nat_vblk[a]) * block_nbytes(geo)
        /\ NatEnds[a] - nat_vblk[a] <= NatEnds["fn"] - nat_vblk["fn"]

\* After formatting, each area's constructor finds its bitmap all zero: it
\* was written behind the erase, at the blocks the constructor reads, and
\* fits its buffer of one block.
FormattedAreasAreBlank ==
    phase = "up" /\ need_format = 1 =>
      /\ sb_addr \in DOMAIN flash /\ flash[sb_addr] = SbMeta
      /\ \A a \in Area :
           /\ bitmap_nr(geo, a) <= block_nbytes(geo)
           /\ \A b \in BitmapRead(a) : b \in DOMAIN flash /\ flash[b] = Zeros

Saved == INSTANCE SavedNats WITH
    mem     <- IF phase \in {"up", "closing"} THEN nat ELSE Closed,
    closing <- phase = "closing",
    disk    <- IF \A a \in Area : \E v \in Version : Whole(a, NatStarts[a], v)
                 THEN [a \in Area |-> Content(a, NatStarts[a])]
                 ELSE Lost

\* The NATs read when the device is opened without formatting are those of
\* the last close, all three of it, or a crash hit that close and they are
\* lost: the three are erased before any is written (flush_nat, destructor).
KeepsNats == Saved!Spec

(***************************************************************************)
(* What the comments of the code say.                                      *)
(***************************************************************************)

\* README.md:50-52, "nat_fn_blk_nr == 1 : 1", "nat_fm_blk_nr == 2 : 4,5",
\* "nat_ext_blk_nr == 1 : 8": each NAT has blocks of its own.
NatsHaveOwnBlocks ==
    \A a, b \in Area :
      a # b /\ nat_vblk[a] > 0 /\ nat_vblk[b] > 0 => NatBlks(a) \cap NatBlks(b) = {}
=============================================================================
