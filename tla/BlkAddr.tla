------------------------------- MODULE BlkAddr -------------------------------
(***************************************************************************)
(* blk_addr.cc: the handles through which every other part of the file     *)
(* system names physical blocks.  BlkAddrHandle keeps one blk_addr_handle  *)
(* per channel; the addresses are 64-bit words that the callers hold and   *)
(* the handles change in place.                                            *)
(*                                                                         *)
(* Formatting runs first: erase_all_block walks all channels, one block    *)
(* per step here.  Then clients (MetaBlkArea's constructor, the super      *)
(* block's layout, the extent list with its addr_st and addr_ed) move the  *)
(* addresses they hold.                                                    *)
(***************************************************************************)
EXTENDS BlkAddrCalc, Bitwise, FiniteSetsExt

CONSTANT Holder    \* the addresses clients hold

Channel == 0 .. nchannels - 1
Block == [ch : Channel, lun : 0 .. nluns - 1,
          pl : 0 .. nplanes - 1, blk : 0 .. nblocks - 1]

VARIABLES
    status,     \* status_ of each channel's handle
    addr,       \* the word __buf of each address held
    walk,       \* erase_all_block's loops: channel, count, address
    erased      \* external: how often each block was erased

vars == <<status, addr, walk, erased>>

CalcOF == 7

(***************************************************************************)
(* The packed word.                                                        *)
(***************************************************************************)

\* The bits that hold 0 .. x-1.
GetBinMaskBits(x) ==
    CHOOSE b \in 0 .. x : x <= 2^b /\ \A a \in 0 .. b - 1 : 2^a < x

bits == [i \in Field |-> GetBinMaskBits(usize[i])]

\* Mutant: the plane lies above the block.
lmovPlaneFirst == [i \in Field |-> CASE i = 3 -> 0 [] i = 1 -> bits[3]
                     [] i = 2 -> bits[1] + bits[3] [] i = 0 -> bits[1] + bits[2] + bits[3]]

\* Field i lies above the fields after it.
lmov == [i \in Field |-> MapThenSumSet(LAMBDA j : bits[j], i + 1 .. 3)]

\* (buf & mask_[i]) >> lmov_[i]
GetField(buf, i) == (buf \div 2^lmov[i]) % 2^bits[i]
Fields(buf) == [i \in Field |-> GetField(buf, i)]

Pack(v) == (v[0] * 2^lmov[0]) | (v[1] * 2^lmov[1])
         | (v[2] * 2^lmov[2]) | (v[3] * 2^lmov[3])

BlkAddrValid(ch, lun, pl, blk) == TRUE

\* The word MakeBlkAddr stores; BlkAddrValid accepts everything.
MakeBlkAddr(ch, lun, pl, blk) ==
    IF BlkAddrValid(ch, lun, pl, blk)
      THEN Pack([i \in Field |-> CASE i = format.ch -> ch   [] i = format.lun -> lun
                                   [] i = format.pl -> pl   [] i = format.blk -> blk])
      ELSE 0

lowest(ch)  == MakeBlkAddr(ch, 0, 0, 0)
highest(ch) == MakeBlkAddr(ch, nluns - 1, nplanes - 1, nblocks - 1)

convert_2_nvm_addr(buf) ==
    LET v == Fields(buf)
    IN  [ch |-> v[format.ch], lun |-> v[format.lun],
         pl |-> v[format.pl], blk |-> v[format.blk]]

BlkAddrCmp(l, r) == IF l = r THEN 0 ELSE IF l < r THEN -1 ELSE 1

BlkAddrDiff(ch, buf, mode) ==
    IF mode = 0 THEN Distance(Fields(buf), Fields(lowest(ch)))
    ELSE Distance(Fields(highest(ch)), Fields(buf))

get_blk_nr(ch) == BlkAddrDiff(ch, highest(ch), 0) + 1

\* do_sub_or_add on a word: the new word, and whether it went through.
InReach(ch, buf, x, mode) == x <= BlkAddrDiff(ch, buf, mode)

SubOrAdd(ch, buf, x, mode) ==
    IF ~InReach(ch, buf, x, mode) THEN buf
    ELSE IF mode = 0 THEN Pack(DoSub(Fields(buf), Aos(x)))
    ELSE Pack(DoAdd(Fields(buf), Aos(x)))

\* The status is set by a failure and nowhere reset.
StatusAfter(ch, buf, x, mode) ==
    IF InReach(ch, buf, x, mode) THEN status[ch] ELSE -CalcOF

(***************************************************************************)
(* The steps.                                                              *)
(***************************************************************************)
ErasePhase == walk.ch < nchannels

MoreBlocks(ch, c) == c < get_blk_nr(ch)

\* Mutant: the address moves on before it is converted.
ToEraseAfterMove(ch, buf) == convert_2_nvm_addr(SubOrAdd(ch, buf, 1, 1))

ToErase(ch, buf) == convert_2_nvm_addr(buf)

\* One block of erase_all_block; the address moves on before the erase, and
\* once too often after the last block.
EraseBlock ==
    /\ ErasePhase
    /\ LET ch == walk.ch
       IN  /\ erased' = [erased EXCEPT ![ToErase(ch, walk.buf)] = @ + 1]
           /\ status' = [status EXCEPT ![ch] = StatusAfter(ch, walk.buf, 1, 1)]
           /\ walk' = IF MoreBlocks(ch, walk.c + 1)
                        THEN [ch |-> ch, c |-> walk.c + 1,
                              buf |-> SubOrAdd(ch, walk.buf, 1, 1)]
                        ELSE [ch |-> ch + 1, c |-> 0, buf |-> lowest(ch + 1)]
    /\ UNCHANGED addr

ChOf(h) == GetField(addr[h], format.ch)

Make(h, ch, lun, pl, blk) ==
    /\ ~ErasePhase
    /\ addr' = [addr EXCEPT ![h] = MakeBlkAddr(ch, lun, pl, blk)]
    /\ UNCHANGED <<status, walk, erased>>

\* BlkAddrAdd (mode 1) and BlkAddrSub (mode 0) through the handle of the
\* address's channel.
AddOrSub(h, x, mode) ==
    /\ ~ErasePhase
    /\ addr' = [addr EXCEPT ![h] = SubOrAdd(ChOf(h), @, x, mode)]
    /\ status' = [status EXCEPT ![ChOf(h)] = StatusAfter(ChOf(h), addr[h], x, mode)]
    /\ UNCHANGED <<walk, erased>>

\* SetFieldBlkAddr clears the field and ORs the value in.
SetField(h, val, i) ==
    /\ ~ErasePhase
    /\ val <= usize[i]
    /\ addr' = [addr EXCEPT ![h] = (@ - GetField(@, i) * 2^lmov[i]) | (val * 2^lmov[i])]
    /\ UNCHANGED <<status, walk, erased>>

Init ==
    /\ status = [ch \in Channel |-> 0]
    /\ addr = [h \in Holder |-> lowest(0)]
    /\ walk = [ch |-> 0, c |-> 0, buf |-> lowest(0)]
    /\ erased = [b \in Block |-> 0]

(* MakeBlkAddr and SetFieldBlkAddr check their arguments next to nothing;  *)
(* every caller passes fields of the device.                               *)
Next ==
    \/ EraseBlock
    \/ \E h \in Holder, b \in Block : Make(h, b.ch, b.lun, b.pl, b.blk)
    \/ \E h \in Holder, x \in 0 .. get_blk_nr(0), mode \in {0, 1} :
         AddOrSub(h, x, mode)
    \/ \E h \in Holder, i \in Field : \E val \in 0 .. usize[i] - 1 :
         SetField(h, val, i)

Spec == Init /\ [][Next]_vars

(***************************************************************************)
(* Properties.                                                             *)
(***************************************************************************)

\* The position of a block in the layout of blk_addr.h:34-51: blocks first,
\* then planes, then luns.
Position(b) == (b.blk * nplanes + b.pl) * nluns + b.lun
At(h)       == Position(convert_2_nvm_addr(addr[h]))
BlocksOfChannel == nblocks * nplanes * nluns

TypeOK ==
    /\ status \in [Channel -> {0, -CalcOF}]
    /\ addr \in [Holder -> Nat]
    /\ walk.ch \in 0 .. nchannels /\ walk.c \in 0 .. BlocksOfChannel - 1
    /\ erased \in [Block -> Nat]

\* Comparing words compares positions, and BlkAddrDiff counts the blocks from
\* the lowest (mode 0) and to the highest (mode 1) address of the channel:
\* what putExt's search and getNewExt's free count rest on.
OrderAndDistance ==
    \A g, h \in Holder :
      /\ ChOf(g) = ChOf(h) =>
           BlkAddrCmp(addr[g], addr[h]) =
             IF At(g) = At(h) THEN 0 ELSE IF At(g) < At(h) THEN -1 ELSE 1
      /\ ChOf(g) < ChOf(h) => BlkAddrCmp(addr[g], addr[h]) = -1
      /\ BlkAddrDiff(ChOf(g), addr[g], 0) = At(g)
      /\ BlkAddrDiff(ChOf(g), addr[g], 1) = BlocksOfChannel - 1 - At(g)

\* BlkAddrAdd moves x blocks up the layout and BlkAddrSub x blocks down,
\* within the channel; a move that would leave the channel changes nothing.
MovesAreLinear ==
    \A h \in Holder, x \in 0 .. BlocksOfChannel :
      LET ch    == ChOf(h)
          up    == convert_2_nvm_addr(SubOrAdd(ch, addr[h], x, 1))
          down  == convert_2_nvm_addr(SubOrAdd(ch, addr[h], x, 0))
      IN  /\ up.ch = ch /\ down.ch = ch
          /\ Position(up) = IF At(h) + x < BlocksOfChannel THEN At(h) + x ELSE At(h)
          /\ Position(down) = IF At(h) >= x THEN At(h) - x ELSE At(h)

\* Formatting erases every block of every channel exactly once.
EraseWalk ==
    \A b \in Block :
      erased[b] = IF b.ch < walk.ch \/ (b.ch = walk.ch /\ Position(b) < walk.c)
                    THEN 1 ELSE 0
=============================================================================
