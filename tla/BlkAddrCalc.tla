---------------------------- MODULE BlkAddrCalc -----------------------------
(***************************************************************************)
(* blk_addr.cc: the arithmetic of block addresses.  An address has four    *)
(* fields, numbered as AddrFormat does, most significant first:            *)
(*                                                                         *)
(*        | ch 0 | blk 1 | pl 2 | lun 3 |                                  *)
(*                                                                         *)
(* and is added to and subtracted from as a mixed-radix numeral whose      *)
(* radix in field i is usize_[i].  stlun is 0 for every handle             *)
(* BlkAddrHandle makes, so "v[lun] += stlun" adds nothing.                 *)
(***************************************************************************)
EXTENDS Integers

CONSTANTS nchannels, nblocks, nplanes, nluns

ASSUME DeviceGeometry ==
    /\ nchannels \in Nat \ {0} /\ nblocks \in Nat \ {0}
    /\ nplanes \in Nat \ {0}   /\ nluns \in Nat \ {0}

format == [ch |-> 0, blk |-> 1, pl |-> 2, lun |-> 3]
Field  == 0 .. 3

usize == [i \in Field |-> CASE i = 0 -> nchannels [] i = 1 -> nblocks
                            [] i = 2 -> nplanes   [] i = 3 -> nluns]

\* What one unit of field i is worth in blocks.
unit == [i \in Field |-> CASE i = 3 -> 1
                           [] i = 2 -> nluns
                           [] i = 1 -> nplanes * nluns
                           [] i = 0 -> nblocks * nplanes * nluns]

\* x as a numeral: the loop that divides x by usize_[3], usize_[2], ...
Aos(x) ==
    LET rest[i \in Field] == IF i = 3 THEN x ELSE rest[i + 1] \div usize[i + 1]
    IN  [i \in Field |-> rest[i] % usize[i]]

\* lhs - rhs in blocks; the size_t products wrap back to the true value.
Distance(lhs, rhs) ==
    (lhs[0] - rhs[0]) * unit[0] + (lhs[1] - rhs[1]) * unit[1]
    + (lhs[2] - rhs[2]) * unit[2] + (lhs[3] - rhs[3]) * unit[3]

\* do_add: field by field from lun up, carrying 1 into the field above.
DoAdd(v, aos) ==
    LET carry[i \in Field] ==
          IF i = 3 THEN 0
          ELSE IF v[i + 1] + aos[i + 1] + carry[i + 1] >= usize[i + 1] THEN 1 ELSE 0
        sum(i) == v[i] + aos[i] + carry[i]
    IN  [i \in Field |-> IF sum(i) >= usize[i] THEN sum(i) - usize[i] ELSE sum(i)]

\* Mutant: the borrow is not passed on through a field that was 0.
DoSubShortBorrow(v, aos) ==
    LET borrow[i \in Field] ==
          IF i = 3 THEN 0 ELSE IF v[i + 1] < aos[i + 1] THEN 1 ELSE 0
        rest(i) == v[i] - borrow[i] - aos[i]
    IN  [i \in Field |-> IF rest(i) < 0 THEN usize[i] + rest(i) ELSE rest(i)]

\* do_sub: field by field from lun up, borrowing 1 from the field above.
DoSub(v, aos) ==
    LET borrow[i \in Field] ==
          IF i = 3 THEN 0
          ELSE IF v[i + 1] - borrow[i + 1] < aos[i + 1] THEN 1 ELSE 0
        rest(i) == v[i] - borrow[i] - aos[i]
    IN  [i \in Field |-> IF rest(i) < 0 THEN usize[i] + rest(i) ELSE rest(i)]
=============================================================================
