-------------------------- MODULE SuperBlock_proofs --------------------------

(***************************************************************************)
(* Proofs about the super block for every geometry of the device.          *)
(***************************************************************************)
EXTENDS SuperBlock, Sums_proofs, SequenceTheorems

(***************************************************************************)
(* The sizes of the NATs.                                                  *)
(***************************************************************************)
LEMMA ProductOfSizes ==
    ASSUME NEW m \in Nat \ {0}, NEW n \in Nat \ {0}
    PROVE  m * n \in Nat \ {0}
OBVIOUS

LEMMA DivBounds ==
    ASSUME NEW x \in Nat, NEW y \in Nat \ {0}
    PROVE  x \div y \in Nat /\ x < (x \div y + 1) * y
OBVIOUS

LEMMA DivPositive ==
    ASSUME NEW x \in Nat, NEW y \in Nat \ {0}, y <= x
    PROVE  x \div y \in Nat \ {0}
OBVIOUS

LEMMA GeometryIsPositive ==
    ASSUME NEW g \in Geometry
    PROVE  /\ block_nbytes(g) \in Nat \ {0}
           /\ ssd_blks(g) \in Nat
<1>1. /\ g.nchannels \in Nat \ {0} /\ g.nluns \in Nat \ {0} /\ g.nplanes \in Nat \ {0}
      /\ g.nblocks \in Nat \ {0} /\ g.npages \in Nat \ {0} /\ g.page_nbytes \in Nat \ {0}
  BY LayoutGeometry
<1>2. g.nblocks * g.nplanes \in Nat \ {0}
  BY <1>1, ProductOfSizes
<1>3. channel_blks(g) \in Nat \ {0}
  BY <1>1, <1>2, ProductOfSizes DEF channel_blks
<1>4. ssd_blks(g) \in Nat \ {0}
  BY <1>1, <1>3, ProductOfSizes DEF ssd_blks
<1>5. block_nbytes(g) \in Nat \ {0}
  BY <1>1, ProductOfSizes DEF block_nbytes
<1> QED BY <1>4, <1>5

LEMMA ChannelBlksType ==
    ASSUME NEW g \in Geometry
    PROVE  channel_blks(g) \in Nat
<1>1. g.nluns \in Nat \ {0} /\ g.nplanes \in Nat \ {0} /\ g.nblocks \in Nat \ {0}
  BY LayoutGeometry
<1>2. g.nblocks * g.nplanes \in Nat \ {0}
  BY <1>1, ProductOfSizes
<1> QED BY <1>1, <1>2, ProductOfSizes DEF channel_blks

\* Each NAT has blocks enough for its entries (gen_ocssd_geo).
LEMMA NatBlksHoldTheNat ==
    ASSUME NEW g \in Geometry, NEW a \in Area
    PROVE  /\ nat_entry_nr(g, a) \in Nat
           /\ nat_blks(g, a) \in Nat \ {0}
           /\ nat_entry_nr(g, a) * nat_entry_nbytes <= nat_blks(g, a) * block_nbytes(g)
<1>1. file_max_nr(g) \in Nat
  BY GeometryIsPositive, DivBounds DEF file_max_nr, min_ext_addr_nr
<1>2. nat_entry_nr(g, a) \in Nat
  BY <1>1 DEF nat_entry_nr, LVL_obj_nr, btree_degree, Area
<1> DEFINE x == nat_entry_nr(g, a) * nat_entry_nbytes
<1>3. x \in Nat
  BY <1>2 DEF nat_entry_nbytes
<1>4. nat_blks(g, a) = x \div block_nbytes(g) + 1
  BY DEF nat_blks
<1> HIDE DEF x
<1>5. /\ x \div block_nbytes(g) \in Nat
      /\ x < (x \div block_nbytes(g) + 1) * block_nbytes(g)
  BY <1>3, GeometryIsPositive, DivBounds
<1>6. (x \div block_nbytes(g) + 1) * block_nbytes(g) \in Int
  BY <1>5, GeometryIsPositive
<1>7. x <= nat_blks(g, a) * block_nbytes(g)
  BY <1>3, <1>4, <1>5, <1>6
<1> QED BY <1>2, <1>4, <1>5, <1>7 DEF x

\* Each area has data blocks, and blocks for its bitmap.
LEMMA AreaBlks ==
    ASSUME NEW g \in Geometry, NEW a \in Area
    PROVE  area_blks(g, a) \in Nat \ {0} /\ bitmap_nr(g, a) \in Nat
<1> DEFINE bobj(x) == blk_obj_nr(g, x)
<1>1. file_max_nr(g) \in Nat
  BY GeometryIsPositive, DivBounds DEF file_max_nr, min_ext_addr_nr
<1>2. g.npages \in Nat \ {0} /\ block_nbytes(g) \in Nat /\ block_nbytes(g) >= 4 * KB
  BY LayoutGeometry, GeometryIsPositive
<1>3. \A x \in Area : bobj(x) \in Nat \ {0}
  <2> SUFFICES ASSUME NEW x \in Area PROVE bobj(x) \in Nat \ {0}
    OBVIOUS
  <2>1. obj_nbytes[x] \in Nat \ {0} /\ obj_nbytes[x] <= block_nbytes(g)
    BY <1>2 DEF obj_nbytes, KB, Area
  <2>2. block_nbytes(g) \div obj_nbytes[x] \in Nat \ {0}
    BY <1>2, <2>1, DivPositive
  <2> QED BY <2>2 DEF blk_obj_nr
<1>4. obj_nr(g, a) \in Nat
  BY <1>1 DEF obj_nr, tree_obj_nr, LVL_obj_nr, LVL_cnt, btree_degree, Area
<1>5. data_blk_nr(g, a) \in Nat \ {0}
  <2>1. obj_nr(g, a) \div bobj(a) \in Nat
    BY <1>3, <1>4, DivBounds
  <2> QED BY <2>1 DEF data_blk_nr
<1>6. bitmap_nr(g, a) \in Nat
  <2> DEFINE per == 1 + g.npages + bobj(IF a = "ext" THEN "fm" ELSE a)
  <2>1. per \in Nat \ {0}
    BY <1>2, <1>3 DEF Area
  <2>2. bitmap_nr(g, a) = data_blk_nr(g, a) * per
    BY DEF bitmap_nr
  <2> HIDE DEF per
  <2> QED BY <1>5, <2>1, <2>2, ProductOfSizes
<1>7. bitmap_blk_nr(g, a) \in Nat
  <2>1. bitmap_nr(g, a) \div block_nbytes(g) \in Nat
    BY <1>6, GeometryIsPositive, DivBounds
  <2> QED BY <2>1 DEF bitmap_blk_nr
<1> QED BY <1>5, <1>6, <1>7 DEF area_blks

(***************************************************************************)
(* Where the NATs are, once the device is open.                            *)
(***************************************************************************)
NatRange(a) == {NatBlk(NatStarts[a], k) : k \in 1 .. nat_blk_nr[a]}

WholeAt(a, v) == Whole(a, NatStarts[a], v)

Absent(a)  == NatRange(a) \cap DOMAIN flash = {}
Written(a) == WholeAt(a, nat[a])

LEMMA Starts ==
    ASSUME geo \in Geometry
    PROVE  /\ \A a \in Area : nat_blk_nr[a] \in Nat \ {0} /\ NatStarts[a] \in Nat \ {0}
           /\ NatStarts["fn"] = 1
           /\ NatStarts["fm"] = NatStarts["fn"] + nat_blk_nr["fn"]
           /\ NatStarts["ext"] = NatStarts["fm"] + nat_blk_nr["fm"]
<1>1. \A a \in Area : nat_blk_nr[a] \in Nat \ {0}
  BY NatBlksHoldTheNat DEF nat_blk_nr
<1> QED BY <1>1 DEF NatStarts, Area

LEMMA StartsStay ==
    ASSUME UNCHANGED geo
    PROVE  NatStarts' = NatStarts /\ nat_blk_nr' = nat_blk_nr
BY DEF NatStarts, nat_blk_nr

\* The NATs are one behind the other.
LEMMA RangesAreDisjoint ==
    ASSUME geo \in Geometry, NEW a \in Area, NEW b \in Area \ {a}
    PROVE  NatRange(a) \cap NatRange(b) = {}
BY Starts DEF NatRange, NatBlk, Area

LEMMA AbsentIsNotWhole ==
    ASSUME geo \in Geometry, NEW a \in Area, Absent(a), NEW v
    PROVE  ~WholeAt(a, v)
<1>1. 1 \in 1 .. nat_blk_nr[a]
  BY Starts
<1> QED BY <1>1 DEF Absent, NatRange, WholeAt, Whole

LEMMA ContentIs ==
    ASSUME geo \in Geometry, NEW a \in Area, NEW v \in Version, WholeAt(a, v)
    PROVE  Content(a, NatStarts[a]) = v
<1> DEFINE found == {w \in Version : Whole(a, NatStarts[a], w)}
<1>1. 1 \in 1 .. nat_blk_nr[a]
  BY Starts
<1>2. ASSUME NEW w \in found PROVE w = v
  <2>1. flash[NatBlk(NatStarts[a], 1)] = Part(a, 1, w)
    BY <1>1 DEF Whole
  <2>2. flash[NatBlk(NatStarts[a], 1)] = Part(a, 1, v)
    BY <1>1 DEF WholeAt, Whole
  <2> QED BY <2>1, <2>2 DEF Part
<1>3. v \in found
  BY DEF WholeAt
<1>4. found = {v}
  BY <1>2, <1>3
<1>5. v \in Int
  BY Builds DEF Version, Unknown
<1>6. Max(found) = v
  BY <1>4, <1>5 DEF Max
<1> QED BY <1>4, <1>6 DEF Content

ContentOK ==
    geo \in Geometry =>
      \A a \in Area, v \in Version : WholeAt(a, v) => Content(a, NatStarts[a]) = v

LEMMA ContentIsOK == ContentOK
BY ContentIs DEF ContentOK

LEMMA ContentType ==
    ASSUME geo \in Geometry, NEW a \in Area
    PROVE  Content(a, NatStarts[a]) \in Version
<1>1. CASE \E v \in Version : WholeAt(a, v)
  BY <1>1, ContentIs
<1>2. CASE ~\E v \in Version : WholeAt(a, v)
  BY <1>2 DEF Content, WholeAt, Version
<1> QED BY <1>1, <1>2

(***************************************************************************)
(* What a constructor would find.                                          *)
(***************************************************************************)
diskBar ==
    IF \A a \in Area : \E v \in Version : WholeAt(a, v)
      THEN [a \in Area |-> Content(a, NatStarts[a])]
      ELSE Lost

memBar == IF phase \in {"up", "closing"} THEN nat ELSE Closed

\* When nothing new is whole, the NATs are the same or lost.
LEMMA DiskShrinks ==
    ASSUME geo \in Geometry, UNCHANGED geo,
           \A a \in Area, v \in Version : WholeAt(a, v)' => WholeAt(a, v)
    PROVE  diskBar' = diskBar \/ diskBar' = Lost
<1>1. SUFFICES ASSUME \A a \in Area : \E v \in Version : WholeAt(a, v)'
               PROVE  diskBar' = diskBar
  BY DEF diskBar
<1>2. geo' \in Geometry
  OBVIOUS
<1>3. ASSUME NEW a \in Area
      PROVE  Content(a, NatStarts[a])' = Content(a, NatStarts[a])
  <2>1. PICK v \in Version : WholeAt(a, v)'
    BY <1>1
  <2>2. Content(a, NatStarts[a]) = v
    BY <2>1, ContentIs
  <2>3. Content(a, NatStarts[a])' = v
    <3>1. ContentOK'
      BY ContentIsOK, PTL
    <3> QED BY <1>2, <2>1, <3>1 DEF ContentOK
  <2> QED BY <2>2, <2>3
<1>4. \A a \in Area : \E v \in Version : WholeAt(a, v)
  BY <1>1
<1> QED BY <1>1, <1>3, <1>4 DEF diskBar

(***************************************************************************)
(* The commands to come.                                                   *)
(***************************************************************************)

LEMMA ConcatPairs ==
    ASSUME NEW S, NEW a, NEW b \in S, NEW s \in Seq(S)
    PROVE  /\ << a, b >> \o s \in Seq({a} \cup S)
           /\ << a, b >> \o s # <<>>
           /\ Head(<< a, b >> \o s) = a
           /\ Tail(<< a, b >> \o s) \in Seq(S)
<1> DEFINE T == {a} \cup S
           t == << a, b >> \o s
<1>1. << a, b >> \in Seq(T) /\ s \in Seq(T) /\ Len(<< a, b >>) = 2
  BY SeqMonotonic
<1>2. /\ t \in Seq(T) /\ Len(t) = 2 + Len(s)
      /\ \A n \in 1 .. 2 + Len(s) : t[n] = IF n <= 2 THEN << a, b >>[n] ELSE s[n - 2]
  <2>1. PICK u : u = << a, b >>
    OBVIOUS
  <2> HIDE DEF T, t
  <2>2. u \in Seq(T) /\ s \in Seq(T) /\ Len(u) = 2
    BY <1>1, <2>1
  <2>3. /\ u \o s \in Seq(T) /\ Len(u \o s) = Len(u) + Len(s)
        /\ \A n \in 1 .. Len(u) + Len(s) : (u \o s)[n] = IF n <= Len(u) THEN u[n] ELSE s[n - Len(u)]
    BY <2>2, ConcatProperties
  <2> QED BY <2>1, <2>2, <2>3 DEF t
<1>3. Len(s) \in Nat /\ \A n \in 1 .. Len(s) : s[n] \in S
  BY LenProperties, ElementOfSeq
<1> HIDE DEF T, t
<1>4. t[1] = a /\ t[2] = b
  <2>1. << a, b >>[1] = a /\ << a, b >>[2] = b
    OBVIOUS
  <2> QED BY <1>2, <1>3, <2>1
<1>5. \A n \in 1 .. Len(s) : t[n + 2] = s[n]
  BY <1>2, <1>3
<1>6. t # <<>>
  BY <1>2, <1>3
<1>7. /\ Tail(t) \in Seq(T) /\ Len(Tail(t)) = Len(s) + 1
      /\ \A n \in 1 .. Len(Tail(t)) : Tail(t)[n] = t[n + 1]
  BY <1>2, <1>3, <1>6, HeadTailProperties
<1>8. ASSUME NEW n \in 1 .. Len(s) + 1 PROVE Tail(t)[n] \in S
  <2>1. Tail(t)[n] = t[n + 1]
    BY <1>3, <1>7
  <2>2. CASE n = 1
    <3>1. n + 1 = 2
      BY <2>2
    <3> QED BY <1>4, <2>1, <3>1
  <2>3. CASE n # 1
    <3>1. PICK m \in 1 .. Len(s) : n + 1 = m + 2
      <4>1. n - 1 \in 1 .. Len(s) /\ n + 1 = (n - 1) + 2
        BY <1>3, <2>3
      <4> QED BY <4>1
    <3> QED BY <1>3, <1>5, <2>1, <3>1
  <2> QED BY <2>2, <2>3
<1>9. Tail(t) \in [1 .. Len(s) + 1 -> S]
  BY <1>3, <1>7, <1>8, LenProperties
<1>10. Tail(t) \in Seq(S)
  <2>1. Len(s) + 1 \in Nat
    BY <1>3
  <2>2. Tail(t) \in UNION {[1 .. n -> S] : n \in Nat}
    BY <1>9, <2>1
  <2> QED BY <2>2, SeqDef, Zenon
<1>11. t # <<>> /\ Head(t) = a
  BY <1>2, <1>4, <1>6
<1> QED BY <1>2, <1>10, <1>11 DEF T, t

LEMMA ConcatTriples ==
    ASSUME NEW a, NEW b, NEW c, NEW d, NEW e, NEW f
    PROVE  << a, b, c >> \o << d, e, f >> = << a, b, c, d, e, f >>
<1> DEFINE S == {a, b, c, d, e, f}
<1>1. /\ << a, b, c >> \in Seq(S) /\ << d, e, f >> \in Seq(S)
      /\ << a, b, c, d, e, f >> \in Seq(S)
      /\ Len(<< a, b, c >>) = 3 /\ Len(<< d, e, f >>) = 3
      /\ Len(<< a, b, c, d, e, f >>) = 6
  OBVIOUS
<1>2. /\ << a, b, c >> \o << d, e, f >> \in Seq(S)
      /\ Len(<< a, b, c >> \o << d, e, f >>) = 6
      /\ \A n \in 1 .. 6 : (<< a, b, c >> \o << d, e, f >>)[n] =
             IF n <= 3 THEN << a, b, c >>[n] ELSE << d, e, f >>[n - 3]
  BY <1>1, ConcatProperties
<1>3. \A n \in 1 .. 6 : (IF n <= 3 THEN << a, b, c >>[n] ELSE << d, e, f >>[n - 3])
                          = << a, b, c, d, e, f >>[n]
  OBVIOUS
<1> DEFINE u == << a, b, c >> \o << d, e, f >>
           v == << a, b, c, d, e, f >>
<1>4. /\ u \in Seq(S) /\ v \in Seq(S) /\ Len(u) = 6 /\ Len(v) = 6
      /\ \A n \in 1 .. Len(u) : u[n] = v[n]
  BY <1>1, <1>2, <1>3
<1> HIDE DEF S, u, v
<1>5. u = v
  BY <1>4, SeqEqual
<1> QED BY <1>5 DEF u, v

\* What formatting does once everything has been erased.
FormatWrites ==
    {WriteSb} \cup {WriteNat(a) : a \in Area} \cup {WriteBitmap(a) : a \in Area}

LEMMA FormatIs ==
    /\ format_ssd # <<>>
    /\ Head(format_ssd) = EraseAll
    /\ Tail(format_ssd) \in Seq(FormatWrites)
<1> DEFINE nats == ForEach(WriteNat)
           bits == ForEach(WriteBitmap)
           s    == << EraseAll, WriteSb >> \o nats
<1>1. nats \in Seq(FormatWrites) /\ bits \in Seq(FormatWrites)
  BY DEF ForEach, AllAreas, Area, FormatWrites
<1>2. flush_nat(FALSE) = nats
  <2>1. <<>> \o nats = nats
    BY <1>1
  <2> QED BY <2>1 DEF flush_nat
<1> HIDE DEF nats, bits
<1>3. /\ s \in Seq({EraseAll} \cup FormatWrites) /\ s # <<>>
      /\ Head(s) = EraseAll /\ Tail(s) \in Seq(FormatWrites)
  <2>1. WriteSb \in FormatWrites
    BY DEF FormatWrites
  <2> HIDE DEF s
  <2>2. s = << EraseAll, WriteSb >> \o nats
    BY DEF s
  <2> DEFINE S == FormatWrites
  <2> HIDE DEF S
  <2>3. WriteSb \in S /\ nats \in Seq(S)
    BY <1>1, <2>1 DEF S
  <2>4. /\ << EraseAll, WriteSb >> \o nats \in Seq({EraseAll} \cup S)
        /\ << EraseAll, WriteSb >> \o nats # <<>>
        /\ Head(<< EraseAll, WriteSb >> \o nats) = EraseAll
        /\ Tail(<< EraseAll, WriteSb >> \o nats) \in Seq(S)
    BY <2>3, ConcatPairs
  <2> QED BY <2>2, <2>4 DEF S
<1> HIDE DEF s
<1>4. /\ s \o bits # <<>> /\ Head(s \o bits) = EraseAll
      /\ Tail(s \o bits) \in Seq(FormatWrites)
  BY <1>1, <1>3
<1>5. format_ssd = s \o bits
  BY <1>2 DEF format_ssd, s, bits
<1> QED BY <1>4, <1>5

LEMMA FlushNatIs ==
    flush_nat(TRUE) = << EraseNat("fn"), EraseNat("fm"), EraseNat("ext"),
                         WriteNat("fn"), WriteNat("fm"), WriteNat("ext") >>
<1>1. /\ ForEach(EraseNat) = << EraseNat("fn"), EraseNat("fm"), EraseNat("ext") >>
      /\ ForEach(WriteNat) = << WriteNat("fn"), WriteNat("fm"), WriteNat("ext") >>
  BY DEF ForEach, AllAreas
<1> QED BY <1>1, ConcatTriples DEF flush_nat

(***************************************************************************)
(* The inductive invariant.                                                *)
(***************************************************************************)
ExtStart == NatBlk(NatStarts["ext"], 1)

\* The NAT of the extents does not begin where it will be looked for.
NothingSaved ==
    ExtStart \in DOMAIN flash => \A v : flash[ExtStart] # Part("ext", 1, v)

\* Formatting first erases everything, and what it then writes is no NAT
\* where one will be looked for.
FormatOK ==
    phase = "opening" =>
      /\ nat_vblk \in [Area -> {0, 1}]
      /\ nat \in [Area -> Version]
      /\ \/ todo = format_ssd
         \/ todo = <<>>
         \/ todo \in Seq(FormatWrites) /\ NothingSaved

\* Closing erases all three NATs and then writes them.
CloseOK ==
    phase = "closing" =>
      \/ todo = flush_nat(TRUE)
      \/ /\ todo = << EraseNat("fm"), EraseNat("ext"),
                      WriteNat("fn"), WriteNat("fm"), WriteNat("ext") >>
         /\ Absent("fn")
      \/ /\ todo = << EraseNat("ext"), WriteNat("fn"), WriteNat("fm"), WriteNat("ext") >>
         /\ Absent("fn") /\ Absent("fm")
      \/ /\ todo = << WriteNat("fn"), WriteNat("fm"), WriteNat("ext") >>
         /\ Absent("fn") /\ Absent("fm") /\ Absent("ext")
      \/ /\ todo = << WriteNat("fm"), WriteNat("ext") >>
         /\ Written("fn") /\ Absent("fm") /\ Absent("ext")
      \/ /\ todo = << WriteNat("ext") >>
         /\ Written("fn") /\ Written("fm") /\ Absent("ext")

SInv ==
    /\ geo \in Geometry
    /\ phase \in {"closed", "opening", "up", "closing"}
    /\ phase \in {"closed", "up"} => todo = <<>>
    /\ phase \in {"up", "closing"} => nat \in [Area -> Version] /\ nat_vblk = NatStarts
    /\ FormatOK
    /\ CloseOK

LEMMA NothingSavedIsLost ==
    ASSUME geo \in Geometry, NothingSaved
    PROVE  diskBar = Lost
<1>1. 1 \in 1 .. nat_blk_nr["ext"] /\ "ext" \in Area
  BY Starts DEF Area
<1>2. \A v \in Version : ~WholeAt("ext", v)
  BY <1>1 DEF WholeAt, Whole, NothingSaved, ExtStart
<1> QED BY <1>1, <1>2 DEF diskBar

LEMMA AbsentIsLost ==
    ASSUME geo \in Geometry, NEW a \in Area, Absent(a)
    PROVE  diskBar = Lost
BY AbsentIsNotWhole DEF diskBar

LEMMA SbInitInv == SbInit => SInv /\ Saved!Init
<1> SUFFICES ASSUME SbInit PROVE SInv /\ Saved!Init
  OBVIOUS
<1>1. geo \in Geometry /\ phase = "closed" /\ todo = <<>> /\ flash = <<>>
  BY DEF SbInit, Init
<1>2. NothingSaved
  BY <1>1 DEF NothingSaved
<1>3. diskBar = Lost
  BY <1>1, <1>2, NothingSavedIsLost
<1> QED BY <1>1, <1>3 DEF SInv, FormatOK, CloseOK, Saved!Init, diskBar, WholeAt

LEMMA LayoutKeepsGeometry ==
    ASSUME Next
    PROVE  UNCHANGED geo
BY DEF Next, PlaceBlock, BeginArea, Renumber

\* Only what the layout and the device hold decides what would be found.
LEMMA DiskStays ==
    ASSUME UNCHANGED <<geo, flash>>
    PROVE  /\ diskBar' = diskBar
           /\ \A a \in Area : Absent(a)' = Absent(a)
           /\ NothingSaved' = NothingSaved
           /\ \A a \in Area, v \in Version : WholeAt(a, v)' = WholeAt(a, v)
<1>1. NatStarts' = NatStarts /\ nat_blk_nr' = nat_blk_nr
  BY StartsStay
<1>2. \A a \in Area, v \in Version : WholeAt(a, v)' = WholeAt(a, v)
  BY <1>1 DEF WholeAt, Whole
<1>3. \A a \in Area : Content(a, NatStarts[a])' = Content(a, NatStarts[a])
  BY <1>1 DEF Content, Whole
<1> QED BY <1>1, <1>2, <1>3 DEF diskBar, Absent, NatRange, NothingSaved, ExtStart

(***************************************************************************)
(* What the commands do.                                                   *)
(***************************************************************************)

\* Nothing a formatting writes looks like the NAT of the extents where that
\* will be looked for: the NATs are written from block 1 on, all three.
LEMMA FormatWritesNoNat ==
    ASSUME geo \in Geometry, UNCHANGED geo, NothingSaved, nat_vblk \in [Area -> {0, 1}],
           NEW cmd \in FormatWrites, Do(cmd)
    PROVE  NothingSaved' /\ nat_vblk' \in [Area -> {0, 1}]
<1>1. ExtStart' = ExtStart /\ ExtStart[2] # 1 /\ ExtStart = <<0, ExtStart[2]>>
  BY Starts, StartsStay DEF ExtStart, NatBlk, Area
<1>2. ASSUME NEW content, Program(content),
             ExtStart \in DOMAIN content => \A v : content[ExtStart] # Part("ext", 1, v)
      PROVE  NothingSaved'
  <2>1. ExtStart \in DOMAIN flash' =>
          \/ ExtStart \notin DOMAIN content /\ ExtStart \in DOMAIN flash
               /\ flash'[ExtStart] = flash[ExtStart]
          \/ flash'[ExtStart] = Torn
          \/ ExtStart \in DOMAIN content /\ flash'[ExtStart] = content[ExtStart]
    BY <1>2 DEF Program
  <2>2. \A v : Torn # Part("ext", 1, v)
    BY DEF Torn, Part
  <2> QED BY <1>1, <1>2, <2>1, <2>2 DEF NothingSaved
<1>3. CASE cmd = WriteSb
  <2>1. Program(All({sb_addr}, SbMeta)) /\ UNCHANGED nat_vblk
    BY <1>3 DEF Do, WriteSb
  <2>2. \A v : SbMeta # Part("ext", 1, v)
    BY DEF SbMeta, Part
  <2>3. \A b \in DOMAIN All({sb_addr}, SbMeta) : All({sb_addr}, SbMeta)[b] = SbMeta
    BY DEF All
  <2> QED BY <1>2, <2>1, <2>2, <2>3
<1>4. ASSUME NEW a \in Area, cmd = WriteBitmap(a)
      PROVE  NothingSaved' /\ nat_vblk' \in [Area -> {0, 1}]
  <2> DEFINE B == BitmapWritten(a)
  <2>1. Program(All(B, Zeros)) /\ UNCHANGED nat_vblk
    BY <1>4 DEF Do, WriteBitmap
  <2> HIDE DEF B
  <2>2. \A v : Zeros # Part("ext", 1, v)
    BY DEF Zeros, Part
  <2>3. \A b \in DOMAIN All(B, Zeros) : All(B, Zeros)[b] = Zeros
    BY DEF All
  <2> QED BY <1>2, <2>1, <2>2, <2>3
<1>5. ASSUME NEW a \in Area, cmd = WriteNat(a)
      PROVE  NothingSaved' /\ nat_vblk' \in [Area -> {0, 1}]
  <2>1. Allocated(a) = 1
    BY DEF Allocated
  <2>2. /\ nat_vblk' = [nat_vblk EXCEPT ![a] = 1]
        /\ Program(Image(a, 1))
    BY <1>5, <2>1 DEF Do, WriteNat
  <2>3. ASSUME ExtStart \in DOMAIN Image(a, 1), NEW v
        PROVE  Image(a, 1)[ExtStart] # Part("ext", 1, v)
    <3>1. Image(a, 1)[ExtStart] = Part(a, ExtStart[2] - 1 + 1, nat[a])
      BY <2>3 DEF Image
    <3>2. ExtStart[2] - 1 + 1 # 1
      BY <1>1, Starts DEF ExtStart, NatBlk, Area
    <3> QED BY <3>1, <3>2 DEF Part
  <2> QED BY <1>2, <2>2, <2>3
<1> QED BY <1>3, <1>4, <1>5 DEF FormatWrites, Do, WriteSb

LEMMA EraseAllLoses ==
    ASSUME Do(EraseAll)
    PROVE  NothingSaved' /\ UNCHANGED nat_vblk
<1>1. flash' = <<>> /\ UNCHANGED nat_vblk
  BY DEF Do, EraseAll
<1> QED BY <1>1 DEF NothingSaved

LEMMA NatBlksAre ==
    ASSUME nat_vblk = NatStarts, NEW a \in Area
    PROVE  NatBlks(a) = NatRange(a)
BY DEF NatBlks, NatRange

LEMMA EraseNatEffect ==
    ASSUME geo \in Geometry, UNCHANGED geo, nat_vblk = NatStarts,
           NEW a \in Area, Do(EraseNat(a))
    PROVE  /\ UNCHANGED nat_vblk /\ Absent(a)'
           /\ \A b \in Area : Absent(b) => Absent(b)'
<1>1. flash' = Erase(NatRange(a)) /\ UNCHANGED nat_vblk
  BY NatBlksAre DEF Do, EraseNat
<1>2. \A b \in Area : NatRange(b)' = NatRange(b)
  BY StartsStay DEF NatRange
<1>3. DOMAIN flash' = DOMAIN flash \ NatRange(a)
  BY <1>1 DEF Erase
<1> QED BY <1>1, <1>2, <1>3 DEF Absent

\* Writing one NAT where nothing is makes it whole and leaves the others.
\* Writing one NAT where nothing is makes it whole and leaves the others.
LEMMA WriteNatEffect ==
    ASSUME geo \in Geometry, UNCHANGED geo, nat_vblk = NatStarts,
           NEW a \in Area, Absent(a), Do(WriteNat(a))
    PROVE  /\ UNCHANGED nat_vblk
           /\ \A v : v = nat[a] => WholeAt(a, v)'
           /\ \A b \in Area \ {a} :
                /\ Absent(b) => Absent(b)'
                /\ \A v : WholeAt(b, v) => WholeAt(b, v)'
<1> DEFINE image == Image(a, NatStarts[a])
<1>1. NatStarts[a] \in Nat \ {0} /\ nat_blk_nr[a] \in Nat \ {0}
  BY Starts
<1>2. Allocated(a) = NatStarts[a]
  BY <1>1 DEF Allocated
<1>3. nat_vblk' = [nat_vblk EXCEPT ![a] = NatStarts[a]] /\ Program(image)
  BY <1>2 DEF Do, WriteNat
<1>4. UNCHANGED nat_vblk
  BY <1>3 DEF NatStarts, Area
<1>5. DOMAIN image = NatRange(a)
  BY DEF Image, NatRange
<1>6. \A k \in 1 .. nat_blk_nr[a] :
         /\ NatBlk(NatStarts[a], k) \in NatRange(a)
         /\ image[NatBlk(NatStarts[a], k)] = Part(a, k, nat[a])
  <2> SUFFICES ASSUME NEW k \in 1 .. nat_blk_nr[a]
               PROVE  /\ NatBlk(NatStarts[a], k) \in NatRange(a)
                      /\ image[NatBlk(NatStarts[a], k)] = Part(a, k, nat[a])
    OBVIOUS
  <2>1. NatBlk(NatStarts[a], k)[2] - NatStarts[a] + 1 = k
    BY <1>1 DEF NatBlk
  <2>2. NatBlk(NatStarts[a], k) \in {NatBlk(NatStarts[a], n) : n \in 1 .. nat_blk_nr[a]}
    OBVIOUS
  <2>3. image[NatBlk(NatStarts[a], k)]
          = Part(a, NatBlk(NatStarts[a], k)[2] - NatStarts[a] + 1, nat[a])
    BY <2>2 DEF Image
  <2> QED BY <2>1, <2>2, <2>3 DEF NatRange
<1> HIDE DEF image
<1>7. /\ DOMAIN flash' = DOMAIN flash \cup NatRange(a)
      /\ \A b \in NatRange(a) : flash'[b] = image[b]
      /\ \A b \in DOMAIN flash : flash'[b] = flash[b]
  BY <1>3, <1>5 DEF Program, Absent
<1>8. /\ NatStarts' = NatStarts /\ nat_blk_nr' = nat_blk_nr
      /\ \A b \in Area : NatRange(b)' = NatRange(b)
  BY StartsStay DEF NatRange
<1>9. \A v : v = nat[a] => WholeAt(a, v)'
  BY <1>6, <1>7, <1>8 DEF WholeAt, Whole
<1>10. ASSUME NEW b \in Area \ {a}
       PROVE  /\ Absent(b) => Absent(b)'
              /\ \A v : WholeAt(b, v) => WholeAt(b, v)'
  <2>1. NatRange(a) \cap NatRange(b) = {}
    BY RangesAreDisjoint
  <2>2. Absent(b) => Absent(b)'
    BY <1>7, <1>8, <2>1 DEF Absent
  <2>3. \A v : WholeAt(b, v) => WholeAt(b, v)'
    BY <1>7, <1>8 DEF WholeAt, Whole
  <2> QED BY <2>2, <2>3
<1> QED BY <1>4, <1>9, <1>10

Commands == {EraseAll} \cup FormatWrites \cup {EraseNat(a) : a \in Area}

\* A command that a crash interrupts leaves nothing whole that was not.
LEMMA HalfDoShrinks ==
    ASSUME geo \in Geometry, UNCHANGED geo, NEW cmd \in Commands, HalfDo(cmd)
    PROVE  \A a \in Area, v \in Version : WholeAt(a, v)' => WholeAt(a, v)
<1>1. \A b \in DOMAIN flash' :
         flash'[b] = Torn \/ (b \in DOMAIN flash /\ flash'[b] = flash[b])
  <2>1. ASSUME NEW B, flash' = Tear(B)
        PROVE  \A b \in DOMAIN flash' :
                 flash'[b] = Torn \/ (b \in DOMAIN flash /\ flash'[b] = flash[b])
    BY <2>1 DEF Tear
  <2>2. ASSUME NEW B, flash' = Erase(B)
        PROVE  \A b \in DOMAIN flash' :
                 flash'[b] = Torn \/ (b \in DOMAIN flash /\ flash'[b] = flash[b])
    BY <2>2 DEF Erase
  <2>3. CASE cmd = EraseAll
    <3>1. \E n \in 0 .. blk_idx[0] : flash' = Erase({<<0, m>> : m \in 0 .. n})
      BY <2>3 DEF HalfDo, EraseAll
    <3> QED BY <2>2, <3>1
  <2>4. CASE cmd = WriteSb
    BY <2>1, <2>4 DEF HalfDo, WriteSb
  <2>5. CASE \E a \in Area : cmd = WriteNat(a)
    BY <2>1, <2>5 DEF HalfDo, WriteNat
  <2>6. CASE \E a \in Area : cmd = WriteBitmap(a)
    BY <2>1, <2>6 DEF HalfDo, WriteBitmap
  <2>7. CASE \E a \in Area : cmd = EraseNat(a)
    BY <2>1, <2>7 DEF HalfDo, EraseNat
  <2> QED BY <2>3, <2>4, <2>5, <2>6, <2>7 DEF Commands, FormatWrites
<1>2. \A a, k, v : Torn # Part(a, k, v)
  BY DEF Torn, Part
<1>3. NatStarts' = NatStarts /\ nat_blk_nr' = nat_blk_nr
  BY StartsStay
<1> QED BY <1>1, <1>2, <1>3 DEF WholeAt, Whole

(***************************************************************************)
(* The steps.                                                              *)
(***************************************************************************)
SavedVars == <<memBar, phase = "closing", diskBar>>

LEMMA StutterStep ==
    ASSUME SInv, UNCHANGED <<geo, flash, phase, todo, nat, nat_vblk>>
    PROVE  SInv' /\ UNCHANGED SavedVars
<1>1. /\ diskBar' = diskBar /\ NatStarts' = NatStarts
      /\ \A a \in Area : Absent(a)' = Absent(a)
      /\ NothingSaved' = NothingSaved
      /\ \A a \in Area, v \in Version : WholeAt(a, v)' = WholeAt(a, v)
  BY DiskStays, StartsStay
<1>2. CloseOK'
  <2>1. \A a \in Area : phase = "closing" => Written(a)' = Written(a)
    BY <1>1 DEF Written, SInv
  <2> QED BY <1>1, <2>1
          DEF CloseOK, SInv, flush_nat, ForEach, AllAreas, EraseNat, WriteNat, Area
<1>3. FormatOK'
  BY <1>1 DEF SInv, FormatOK, format_ssd, flush_nat
<1> QED BY <1>1, <1>2, <1>3 DEF SInv, SavedVars, memBar

\* Computing the layout, constructing, using and destructing only change
\* what is in memory.
LEMMA MemorySteps ==
    ASSUME SInv, ComputeLayout \/ Construct \/ ReadNats \/ Use \/ Destruct
    PROVE  SInv' /\ (Saved!Next \/ UNCHANGED SavedVars)
<1>1. UNCHANGED <<geo, flash>>
  BY LayoutKeepsGeometry DEF ComputeLayout, svars, Construct, ReadNats, Use, Destruct, vars
<1>2. /\ diskBar' = diskBar /\ NatStarts' = NatStarts
      /\ \A a \in Area : Absent(a)' = Absent(a)
      /\ NothingSaved' = NothingSaved
      /\ \A a \in Area, v \in Version : WholeAt(a, v)' = WholeAt(a, v)
  BY <1>1, DiskStays, StartsStay
<1>3. CASE ComputeLayout
  BY <1>1, <1>3, StutterStep DEF ComputeLayout, svars
<1>4. CASE Construct
  <2>1. /\ phase = "closed" /\ phase' = "opening"
        /\ nat_vblk' \in [Area -> {0, 1}] /\ nat' \in [Area -> Version]
        /\ todo' = format_ssd \/ todo' = <<>>
    BY <1>4, Builds DEF Construct, Version
  <2> QED BY <1>1, <1>2, <2>1 DEF SInv, FormatOK, CloseOK, SavedVars, memBar, format_ssd, flush_nat
<1>5. CASE ReadNats
  <2>1. /\ phase = "opening" /\ phase' = "up" /\ todo' = <<>>
        /\ nat_vblk' = NatStarts
        /\ nat' = [a \in Area |-> Content(a, NatStarts[a])]
    BY <1>5 DEF ReadNats
  <2>2. nat' \in [Area -> Version]
    BY <2>1, ContentType DEF SInv
  <2>3. SInv'
    BY <1>1, <1>2, <2>1, <2>2 DEF SInv, FormatOK, CloseOK
  <2>4. diskBar # Lost => nat' = diskBar
    BY <2>1 DEF diskBar
  <2>5. Saved!Open
    BY <1>2, <2>1, <2>2, <2>4 DEF Saved!Open, Saved!Nats, diskBar, WholeAt
  <2> QED BY <2>3, <2>5 DEF Saved!Next
<1>6. CASE Use
  <2>1. /\ phase = "up" /\ phase' = "up" /\ todo' = todo /\ nat_vblk' = nat_vblk
        /\ nat' \in [Area -> Version]
    BY <1>6 DEF Use, Version
  <2>2. SInv'
    BY <1>1, <1>2, <2>1 DEF SInv, FormatOK, CloseOK
  <2>3. Saved!Use
    BY <1>2, <2>1, ClosedIsNoNat DEF Saved!Use, Saved!Nats, memBar, diskBar, SInv, WholeAt
  <2> QED BY <2>2, <2>3 DEF Saved!Next
<1>7. CASE Destruct
  <2>1. /\ phase = "up" /\ phase' = "closing" /\ todo' = flush_nat(TRUE)
        /\ UNCHANGED <<nat, nat_vblk>>
    BY <1>7 DEF Destruct
  <2>2. SInv'
    BY <1>1, <1>2, <2>1 DEF SInv, FormatOK, CloseOK, flush_nat, ForEach, AllAreas, EraseNat, WriteNat
  <2>3. Saved!CloseBegin
    BY <1>2, <2>1, ClosedIsNoNat DEF Saved!CloseBegin, memBar, diskBar, SInv, WholeAt
  <2> QED BY <2>2, <2>3 DEF Saved!Next
<1> QED BY <1>3, <1>4, <1>5, <1>6, <1>7
LostOK ==
    geo \in Geometry =>
      /\ NothingSaved => diskBar = Lost
      /\ \A a \in Area : Absent(a) => diskBar = Lost

LEMMA LostIsOK == LostOK
BY NothingSavedIsLost, AbsentIsLost DEF LostOK

LEMMA CommandOpening ==
    ASSUME SInv, Command, phase = "opening"
    PROVE  SInv' /\ (Saved!Next \/ UNCHANGED SavedVars)
<1>1. /\ todo # <<>> /\ Do(Head(todo)) /\ todo' = Tail(todo)
      /\ UNCHANGED <<phase, nat, geo>>
  BY DEF Command, vars
<1>2. geo \in Geometry /\ nat_vblk \in [Area -> {0, 1}] /\ nat \in [Area -> Version]
  BY DEF SInv, FormatOK
<1>3. ASSUME NothingSaved', nat_vblk' \in [Area -> {0, 1}], todo' \in Seq(FormatWrites)
      PROVE  SInv' /\ diskBar' = Lost
  <2>1. SInv'
    BY <1>1, <1>2, <1>3 DEF SInv, FormatOK, CloseOK
  <2>2. LostOK'
    BY LostIsOK, PTL
  <2> QED BY <1>1, <1>2, <1>3, <2>1, <2>2 DEF LostOK
<1>4. CASE todo = format_ssd
  <2>1. Do(EraseAll) /\ todo' \in Seq(FormatWrites)
    BY <1>1, <1>4, FormatIs
  <2>2. NothingSaved' /\ nat_vblk' \in [Area -> {0, 1}]
    BY <1>2, <2>1, EraseAllLoses
  <2>3. SInv' /\ diskBar' = Lost
    BY <1>3, <2>1, <2>2
  <2>4. Saved!Format
    BY <1>1, <2>3 DEF Saved!Format, diskBar, WholeAt
  <2> QED BY <2>3, <2>4 DEF Saved!Next
<1>5. CASE todo \in Seq(FormatWrites) /\ NothingSaved
  <2>1. Head(todo) \in FormatWrites /\ Tail(todo) \in Seq(FormatWrites)
    BY <1>1, <1>5, HeadTailProperties
  <2>2. NothingSaved' /\ nat_vblk' \in [Area -> {0, 1}]
    BY <1>1, <1>2, <1>5, <2>1, FormatWritesNoNat
  <2>3. SInv' /\ diskBar' = Lost
    BY <1>1, <1>3, <2>1, <2>2
  <2>4. diskBar = Lost
    BY <1>2, <1>5, NothingSavedIsLost
  <2> QED BY <1>1, <2>3, <2>4 DEF SavedVars, memBar
<1> QED BY <1>1, <1>4, <1>5 DEF SInv, FormatOK

\* The steps of closing, one by one.
LEMMA CommandClosing ==
    ASSUME SInv, Command, phase = "closing"
    PROVE  SInv' /\ (Saved!Next \/ UNCHANGED SavedVars)
<1>1. /\ todo # <<>> /\ Do(Head(todo)) /\ todo' = Tail(todo) /\ UNCHANGED geo
      /\ IF todo' = <<>> THEN Gone ELSE UNCHANGED <<phase, nat>>
      /\ geo \in Geometry /\ nat \in [Area -> Version] /\ nat_vblk = NatStarts
  BY DEF Command, vars, SInv
<1>2. NatStarts' = NatStarts
  BY <1>1, StartsStay
<1>3. "fn" \in Area /\ "fm" \in Area /\ "ext" \in Area
  BY DEF Area
<1>4. ASSUME NEW a \in Area, Absent(a) PROVE diskBar = Lost
  BY <1>1, <1>4, AbsentIsLost
<1>5. ASSUME NEW a \in Area, Absent(a)' PROVE diskBar' = Lost
  <2>1. LostOK'
    BY LostIsOK, PTL
  <2> QED BY <1>1, <1>5, <2>1 DEF LostOK

\* In all steps but the last the object stays as it is.
<1>6. ASSUME todo' # <<>>, UNCHANGED nat_vblk, CloseOK', diskBar' = Lost
      PROVE  SInv' /\ (Saved!Next \/ UNCHANGED SavedVars)
  <2>1. SInv'
    BY <1>1, <1>2, <1>6 DEF SInv, FormatOK
  <2>2. Saved!Discard
    BY <1>1, <1>6 DEF Saved!Discard, diskBar, WholeAt
  <2> QED BY <2>1, <2>2 DEF Saved!Next
<1>a. CASE todo = flush_nat(TRUE)
  <2>1. /\ Do(EraseNat("fn"))
        /\ todo' = << EraseNat("fm"), EraseNat("ext"),
                      WriteNat("fn"), WriteNat("fm"), WriteNat("ext") >>
    <3>1. todo = << EraseNat("fn"), EraseNat("fm"), EraseNat("ext"),
                    WriteNat("fn"), WriteNat("fm"), WriteNat("ext") >>
      BY <1>a, FlushNatIs
    <3> QED BY <1>1, <3>1
  <2>2. UNCHANGED nat_vblk /\ Absent("fn")'
    BY <1>1, <1>3, <2>1, EraseNatEffect
  <2>3. CloseOK'
    BY <2>1, <2>2 DEF CloseOK
  <2> QED BY <1>3, <1>5, <1>6, <2>1, <2>2, <2>3
<1>b. CASE /\ todo = << EraseNat("fm"), EraseNat("ext"),
                        WriteNat("fn"), WriteNat("fm"), WriteNat("ext") >>
           /\ Absent("fn")
  <2>1. /\ Do(EraseNat("fm"))
        /\ todo' = << EraseNat("ext"), WriteNat("fn"), WriteNat("fm"), WriteNat("ext") >>
    BY <1>1, <1>b
  <2>2. UNCHANGED nat_vblk /\ Absent("fn")' /\ Absent("fm")'
    BY <1>1, <1>3, <1>b, <2>1, EraseNatEffect
  <2>3. CloseOK'
    BY <2>1, <2>2 DEF CloseOK
  <2> QED BY <1>3, <1>5, <1>6, <2>1, <2>2, <2>3
<1>c. CASE /\ todo = << EraseNat("ext"), WriteNat("fn"), WriteNat("fm"), WriteNat("ext") >>
           /\ Absent("fn") /\ Absent("fm")
  <2>1. /\ Do(EraseNat("ext"))
        /\ todo' = << WriteNat("fn"), WriteNat("fm"), WriteNat("ext") >>
    BY <1>1, <1>c
  <2>2. UNCHANGED nat_vblk /\ Absent("fn")' /\ Absent("fm")' /\ Absent("ext")'
    BY <1>1, <1>3, <1>c, <2>1, EraseNatEffect
  <2>3. CloseOK'
    BY <2>1, <2>2 DEF CloseOK
  <2> QED BY <1>3, <1>5, <1>6, <2>1, <2>2, <2>3
<1>d. CASE /\ todo = << WriteNat("fn"), WriteNat("fm"), WriteNat("ext") >>
           /\ Absent("fn") /\ Absent("fm") /\ Absent("ext")
  <2>1. Do(WriteNat("fn")) /\ todo' = << WriteNat("fm"), WriteNat("ext") >>
    BY <1>1, <1>d
  <2>2. /\ UNCHANGED nat_vblk /\ Absent("fm")' /\ Absent("ext")'
        /\ \A v : v = nat["fn"] => WholeAt("fn", v)'
    BY <1>1, <1>3, <1>d, <2>1, WriteNatEffect
  <2>3. Written("fn")'
    <3>0. << WriteNat("fm"), WriteNat("ext") >> # <<>>
      OBVIOUS
    <3>1. UNCHANGED nat
      BY <1>1, <2>1, <3>0
    <3>2. WholeAt("fn", nat["fn"])'
      BY <2>2, <3>1
    <3> QED BY <3>2 DEF Written
  <2>4. CloseOK'
    BY <2>1, <2>2, <2>3 DEF CloseOK
  <2> QED BY <1>3, <1>5, <1>6, <2>1, <2>2, <2>4
<1>e. CASE /\ todo = << WriteNat("fm"), WriteNat("ext") >>
           /\ Written("fn") /\ Absent("fm") /\ Absent("ext")
  <2>1. Do(WriteNat("fm")) /\ todo' = << WriteNat("ext") >>
    BY <1>1, <1>e
  <2>2. /\ UNCHANGED nat_vblk /\ Absent("ext")'
        /\ \A v : v = nat["fm"] => WholeAt("fm", v)'
        /\ \A v : WholeAt("fn", v) => WholeAt("fn", v)'
    BY <1>1, <1>3, <1>e, <2>1, WriteNatEffect
  <2>3. Written("fn")' /\ Written("fm")'
    BY <1>1, <1>e, <2>1, <2>2 DEF Written
  <2>4. CloseOK'
    BY <2>1, <2>2, <2>3 DEF CloseOK
  <2> QED BY <1>3, <1>5, <1>6, <2>1, <2>2, <2>4
<1>f. CASE /\ todo = << WriteNat("ext") >>
           /\ Written("fn") /\ Written("fm") /\ Absent("ext")
  <2>1. Do(WriteNat("ext")) /\ todo' = <<>>
    BY <1>1, <1>f
  <2>2. /\ \A v : v = nat["ext"] => WholeAt("ext", v)'
        /\ \A v : WholeAt("fn", v) => WholeAt("fn", v)'
        /\ \A v : WholeAt("fm", v) => WholeAt("fm", v)'
    BY <1>1, <1>3, <1>f, <2>1, WriteNatEffect
  <2>3. \A a \in Area, v \in Version : v = nat[a] => WholeAt(a, v)'
    BY <1>f, <2>2 DEF Written, Area
  <2>4. diskBar' = nat
    <3>1. \A a \in Area : \E v \in Version : WholeAt(a, v)'
      BY <1>1, <2>3
    <3>2. ContentOK'
      BY ContentIsOK, PTL
    <3>3. \A a \in Area : Content(a, NatStarts[a])' = nat[a]
      BY <1>1, <2>3, <3>2 DEF ContentOK
    <3> QED BY <1>1, <3>1, <3>3 DEF diskBar
  <2>5. Gone
    BY <1>1, <2>1
  <2>6. SInv'
    BY <1>1, <2>1, <2>5 DEF Gone, SInv, FormatOK, CloseOK
  <2>7. diskBar = Lost
    BY <1>3, <1>4, <1>f
  <2>8. Saved!CloseEnd
    BY <2>4, <2>5, <2>7 DEF Gone, Saved!CloseEnd, diskBar, WholeAt
  <2> QED BY <2>6, <2>8 DEF Saved!Next
<1> QED BY <1>1, <1>a, <1>b, <1>c, <1>d, <1>e, <1>f DEF SInv, CloseOK

LEMMA CrashStep ==
    ASSUME SInv, Crash
    PROVE  SInv' /\ Saved!Next
<1>1. /\ phase' = "closed" /\ todo' = <<>> /\ UNCHANGED geo /\ geo \in Geometry
      /\ UNCHANGED flash \/ (todo # <<>> /\ HalfDo(Head(todo)))
  BY DEF Crash, Gone, vars, SInv
<1>2. SInv'
  BY <1>1 DEF SInv, FormatOK, CloseOK
<1>3. diskBar' = diskBar \/ (phase \in {"opening", "closing"} /\ diskBar' = Lost)
  <2>1. CASE UNCHANGED flash
    BY <1>1, <2>1, DiskStays
  <2>2. CASE todo # <<>> /\ HalfDo(Head(todo))
    <3>1. phase \in {"opening", "closing"}
      BY <2>2 DEF SInv
    <3>2. Head(todo) \in Commands
      <4>1. CASE phase = "opening"
        <5>1. CASE todo = format_ssd
          BY <5>1, FormatIs DEF Commands
        <5>2. CASE todo \in Seq(FormatWrites)
          BY <2>2, <5>2, HeadTailProperties DEF Commands
        <5> QED BY <2>2, <4>1, <5>1, <5>2 DEF SInv, FormatOK
      <4>2. CASE phase = "closing"
        <5>1. Head(todo) \in {EraseNat("fn"), EraseNat("fm"), EraseNat("ext"),
                               WriteNat("fn"), WriteNat("fm"), WriteNat("ext")}
          <6>1. CASE todo = flush_nat(TRUE)
            <7>1. todo = << EraseNat("fn"), EraseNat("fm"), EraseNat("ext"),
                            WriteNat("fn"), WriteNat("fm"), WriteNat("ext") >>
              BY <6>1, FlushNatIs
            <7>2. Head(todo) = EraseNat("fn")
              BY <7>1
            <7> QED BY <7>2
          <6>2. CASE todo # flush_nat(TRUE)
            <7>1. \/ todo = << EraseNat("fm"), EraseNat("ext"),
                               WriteNat("fn"), WriteNat("fm"), WriteNat("ext") >>
                  \/ todo = << EraseNat("ext"), WriteNat("fn"), WriteNat("fm"), WriteNat("ext") >>
                  \/ todo = << WriteNat("fn"), WriteNat("fm"), WriteNat("ext") >>
                  \/ todo = << WriteNat("fm"), WriteNat("ext") >>
                  \/ todo = << WriteNat("ext") >>
              BY <4>2, <6>2 DEF SInv, CloseOK
            <7>2. \/ Head(todo) = EraseNat("fm") \/ Head(todo) = EraseNat("ext")
                  \/ Head(todo) = WriteNat("fn") \/ Head(todo) = WriteNat("fm")
                  \/ Head(todo) = WriteNat("ext")
              BY <7>1
            <7> QED BY <7>2
          <6> QED BY <6>1, <6>2
        <5> QED BY <5>1 DEF Commands, FormatWrites, Area
      <4> QED BY <3>1, <4>1, <4>2
    <3> QED BY <1>1, <2>2, <3>1, <3>2, HalfDoShrinks, DiskShrinks
  <2> QED BY <1>1, <2>1, <2>2
<1>4. Saved!Crash
  BY <1>1, <1>3 DEF Saved!Crash, diskBar, WholeAt
<1> QED BY <1>2, <1>4 DEF Saved!Next

LEMMA SbStep == SInv /\ [SbNext]_sbvars => SInv' /\ [Saved!Next]_(Saved!vars)
<1> SUFFICES ASSUME SInv, [SbNext]_sbvars
             PROVE  SInv' /\ (Saved!Next \/ UNCHANGED SavedVars)
  BY DEF Saved!vars, SavedVars, memBar, diskBar, WholeAt
<1>1. CASE UNCHANGED sbvars
  BY <1>1, StutterStep DEF sbvars, vars, svars
<1>2. CASE Command
  <2>1. phase \in {"opening", "closing"}
    BY <1>2 DEF Command, SInv
  <2> QED BY <1>2, <2>1, CommandOpening, CommandClosing
<1> QED BY <1>1, <1>2, MemorySteps, CrashStep DEF SbNext

\* Opening a device without formatting it finds the three NATs as they were
\* when the file system was last closed, or a crash hit a closing or a
\* formatting and they are lost (constructor, flush_nat, destructor).
THEOREM KeepsNatsTheorem == SbSpec => KeepsNats
BY SbInitInv, SbStep, PTL DEF SbSpec, KeepsNats, Saved!Spec

(***************************************************************************)
(* The layout.  Channels are taken in a circle.                            *)
(***************************************************************************)
LEMMA ModTwice ==
    ASSUME NEW n \in Nat \ {0}, NEW y \in 0 .. 2 * n - 1
    PROVE  y % n = IF y < n THEN y ELSE y - n
<1>1. y = n * (y \div n) + (y % n) /\ y % n \in 0 .. n - 1 /\ y \div n \in Int
  OBVIOUS
<1> DEFINE q == y \div n
<1>2. q = 0 \/ q = 1
  <2>1. q \in Int /\ n * q <= y /\ y < n * q + n
    BY <1>1
  <2> HIDE DEF q
  <2>2. ASSUME q <= -1 PROVE FALSE
     <3>1. n * q <= n * (-1)
       BY <2>1, <2>2
     <3> QED BY <2>1, <3>1
  <2>3. ASSUME q >= 2 PROVE FALSE
     <3>1. n * q >= n * 2
       BY <2>1, <2>3
     <3> QED BY <2>1, <3>1
  <2> QED BY <2>1, <2>2, <2>3
<1>3. CASE q = 0
  BY <1>1, <1>3
<1>4. CASE q = 1
  BY <1>1, <1>4
<1> QED BY <1>2, <1>3, <1>4

Circle(n, s, x) ==
    /\ (s + x) % n \in 0 .. n - 1
    /\ (x + 1) % n \in 0 .. n - 1
    /\ (((s + x) % n) + 1) % n = (s + ((x + 1) % n)) % n
    /\ (x + 1) % n = IF x + 1 = n THEN 0 ELSE x + 1
    /\ (s + 0) % n = s
    /\ \A y \in 0 .. n - 1 : (s + x) % n = (s + y) % n => x = y

LEMMA RoundRobin ==
    ASSUME NEW n \in Nat \ {0}, NEW s \in 0 .. n - 1, NEW x \in 0 .. n - 1
    PROVE  Circle(n, s, x)
<1>1. \A y \in 0 .. 2 * n - 1 : y % n = IF y < n THEN y ELSE y - n
  BY ModTwice
<1>2. (s + x) % n = IF s + x < n THEN s + x ELSE s + x - n
  BY <1>1
<1>3. (x + 1) % n = IF x + 1 = n THEN 0 ELSE x + 1
  BY <1>1
<1>4. \A y \in 0 .. n - 1 : (s + y) % n = IF s + y < n THEN s + y ELSE s + y - n
  BY <1>1
<1>5. (((s + x) % n) + 1) % n = (s + ((x + 1) % n)) % n
  <2>1. ((s + x) % n) + 1 \in 0 .. 2 * n - 1 /\ s + ((x + 1) % n) \in 0 .. 2 * n - 1
    BY <1>2, <1>3
  <2>2. (((s + x) % n) + 1) % n = IF ((s + x) % n) + 1 < n THEN ((s + x) % n) + 1 ELSE (((s + x) % n) + 1) - n
    BY <1>1, <2>1
  <2>3. (s + ((x + 1) % n)) % n = IF s + ((x + 1) % n) < n THEN s + ((x + 1) % n) ELSE (s + ((x + 1) % n)) - n
    BY <1>1, <2>1
  <2> QED BY <1>2, <1>3, <2>2, <2>3
<1>6. (s + 0) % n = s
  BY <1>4
<1>7. (s + x) % n \in 0 .. n - 1 /\ (x + 1) % n \in 0 .. n - 1
  BY <1>2, <1>3
<1>8. \A y \in 0 .. n - 1 : (s + x) % n = (s + y) % n => x = y
  BY <1>2, <1>4
<1> QED BY <1>3, <1>5, <1>6, <1>7, <1>8 DEF Circle

\* The channel of an area's k-th run, and the blocks of that run, which count
\* from 1 until Renumber.
Place(a, k)  == (st_ch[a] + k) % nchs
IsOpen(a, k) == st_blk_idx[a][k] # 0
In(a, k, n)  == /\ IsOpen(a, k)
                /\ st_blk_idx[a][k] <= n /\ n < st_blk_idx[a][k] + blk_nr[a][k]

Begun == IF area = "fn" THEN {"fn"} ELSE IF area = "fm" THEN {"fn", "fm"} ELSE Area

LayoutTypes ==
    /\ geo \in Geometry
    /\ area \in Area \cup {"renumber", "over"}
    /\ i \in Nat /\ ch \in Ch /\ idx \in Ch
    /\ blk_idx \in [Ch -> Nat \ {0}]
    /\ st_ch \in [Area -> Ch] /\ ch_nr \in [Area -> 0 .. nchs]
    /\ st_blk_idx \in [Area -> [Ch -> Nat]]
    /\ blk_nr \in [Area -> [Ch -> Nat \cup {Unset}]]

\* An area's runs are those in its first ch_nr channels.  One more may have
\* been opened at the end, with no block in it.
RunsOpen ==
    /\ \A a \in Area \ Begun, k \in Ch : ~IsOpen(a, k)
    /\ \A a \in Begun, k \in Ch :
         /\ ch_nr[a] >= 1
         /\ k < ch_nr[a] => IsOpen(a, k)
         /\ IsOpen(a, k) => blk_nr[a][k] \in Nat
         /\ IsOpen(a, k) /\ k >= ch_nr[a] =>
              blk_nr[a][k] = 0 /\ (a = area => i = area_blk_nr[a])

\* The current area's next block goes behind one of its runs, and the run in
\* each channel ends where that channel has been filled up to.
Current ==
    area \in Area =>
      /\ ch = Place(area, idx)
      /\ i <= area_blk_nr[area]
      /\ i < area_blk_nr[area] =>
           /\ idx < ch_nr[area]
           /\ ch_nr[area] = nchs \/ idx = ch_nr[area] - 1
      /\ \A k \in Ch : IsOpen(area, k) =>
           st_blk_idx[area][k] + blk_nr[area][k] = blk_idx[Place(area, k)]

\* The blocks handed out are the reserved ones and those of the runs.
Tiled ==
    \A c \in Ch, n \in Nat \ {0} :
      n < blk_idx[c] <=>
        \/ c = 0 /\ n < FirstIdx
        \/ \E a \in Area, k \in Ch : Place(a, k) = c /\ In(a, k, n)

Disjoint ==
    \A a, b \in Area, k, l \in Ch, n \in Nat :
      Place(a, k) = Place(b, l) /\ In(a, k, n) /\ In(b, l, n) => a = b

BehindReserved ==
    \A a \in Area, k \in Ch, n \in Nat :
      Place(a, k) = 0 /\ In(a, k, n) => n >= FirstIdx

PlacingInv ==
    /\ LayoutTypes
    /\ RunsOpen /\ Current /\ Tiled /\ Disjoint /\ BehindReserved
    /\ st_blk_idx["fn"][0] = FirstIdx

LEMMA Sizes ==
    ASSUME geo \in Geometry
    PROVE  /\ nchs \in Nat \ {0} /\ 0 \in Ch /\ FirstIdx \in Nat \ {0}
           /\ \A a \in Area : area_blk_nr[a] \in Nat \ {0}
<1>1. nchs \in Nat \ {0}
  BY LayoutGeometry DEF nchs
<1>2. FirstIdx \in Nat \ {0}
  BY Starts DEF FirstIdx, Area
<1>3. ASSUME NEW a \in Area PROVE area_blk_nr[a] \in Nat \ {0}
  BY <1>3, AreaBlks DEF area_blk_nr
<1> QED BY <1>1, <1>2, <1>3 DEF Ch
LEMMA LayoutInitInv == Init => PlacingInv
<1> SUFFICES ASSUME Init PROVE PlacingInv
  OBVIOUS
<1>1. geo \in Geometry
  BY DEF Init
<1>2. /\ nchs \in Nat \ {0} /\ 0 \in Ch /\ FirstIdx \in Nat \ {0} /\ 1 \in Nat \ {0}
      /\ \A a \in Area : area_blk_nr[a] \in Nat \ {0}
      /\ "fn" \in Area
  BY <1>1, Sizes DEF Area
<1>3. /\ area = "fn" /\ i = 0 /\ ch = 0 /\ idx = 0
      /\ blk_idx = [c \in Ch |-> IF c = 0 THEN FirstIdx ELSE 1]
      /\ st_ch = [a \in Area |-> 0]
      /\ ch_nr = [a \in Area |-> IF a = "fn" THEN 1 ELSE 0]
      /\ st_blk_idx = [a \in Area |-> [k \in Ch |-> IF a = "fn" /\ k = 0 THEN FirstIdx ELSE 0]]
      /\ blk_nr = [a \in Area |-> [k \in Ch |-> IF a = "fn" /\ k = 0 THEN 0 ELSE Unset]]
  BY <1>2 DEF Init
<1>4. LayoutTypes
  BY <1>1, <1>2, <1>3 DEF LayoutTypes
<1>5. /\ \A a \in Area, k \in Ch : IsOpen(a, k) <=> a = "fn" /\ k = 0
      /\ \A a \in Area, k \in Ch, n \in Nat : ~In(a, k, n)
  BY <1>2, <1>3 DEF IsOpen, In
<1>6. RunsOpen
  BY <1>2, <1>3, <1>5 DEF RunsOpen, Begun, Ch
<1>7. Place("fn", 0) = 0
  <2>1. (0 + 0) % nchs = 0
    BY <1>2, RoundRobin DEF Circle
  <2> QED BY <1>2, <1>3, <2>1 DEF Place
<1>8. Current
  BY <1>2, <1>3, <1>5, <1>7 DEF Current
<1>9. Tiled
  BY <1>2, <1>3, <1>5 DEF Tiled
<1> QED BY <1>2, <1>3, <1>4, <1>5, <1>6, <1>8, <1>9
        DEF PlacingInv, Disjoint, BehindReserved

\* The channels of an area's runs.
LEMMA PlaceIs ==
    ASSUME LayoutTypes, NEW a \in Area, NEW k \in Ch
    PROVE  /\ Place(a, k) \in Ch /\ Place(a, 0) = st_ch[a]
           /\ (k + 1) % nchs \in Ch
           /\ (Place(a, k) + 1) % nchs = Place(a, (k + 1) % nchs)
           /\ \A l \in Ch : Place(a, k) = Place(a, l) => k = l
<1>1. nchs \in Nat \ {0} /\ st_ch[a] \in 0 .. nchs - 1 /\ k \in 0 .. nchs - 1
  BY Sizes DEF LayoutTypes, Ch
<1>2. Circle(nchs, st_ch[a], k)
  BY <1>1, RoundRobin
<1>3. Place(a, k) \in Ch /\ (k + 1) % nchs \in Ch /\ Place(a, 0) = st_ch[a]
  BY <1>2 DEF Circle, Place, Ch
<1>4. (Place(a, k) + 1) % nchs = Place(a, (k + 1) % nchs)
  BY <1>2 DEF Circle, Place
<1>5. \A l \in Ch : Place(a, k) = Place(a, l) => k = l
  BY <1>2 DEF Circle, Place, Ch
<1> QED BY <1>3, <1>4, <1>5

\* A turn of an area's loop adds one block to the current run.
LEMMA PlaceBlockEffect ==
    ASSUME PlacingInv, PlaceBlock
    PROVE  /\ LayoutTypes' /\ UNCHANGED <<geo, area, st_ch>>
           /\ i' = i + 1 /\ i < area_blk_nr[area] /\ area \in Area
           /\ blk_idx' = [blk_idx EXCEPT ![ch] = @ + 1]
           /\ idx < ch_nr[area] /\ IsOpen(area, idx)
           /\ \/ UNCHANGED <<ch, idx, ch_nr>>
              \/ /\ ch' = (ch + 1) % nchs /\ idx' = (idx + 1) % nchs
                 /\ ch_nr' = [ch_nr EXCEPT ![area] = IF MoreChannels(area) THEN @ + 1 ELSE @]
           /\ \A a \in Area, k \in Ch :
                \/ /\ a = area /\ k = idx
                   /\ st_blk_idx'[a][k] = st_blk_idx[a][k]
                   /\ blk_nr'[a][k] = blk_nr[a][k] + 1
                \/ /\ ~(a = area /\ k = idx)
                   /\ st_blk_idx'[a][k] = st_blk_idx[a][k]
                   /\ blk_nr'[a][k] = blk_nr[a][k]
                   /\ a = area /\ k = idx' => IsOpen(a, k)
                \/ /\ a = area /\ k = idx' /\ k # idx /\ ~IsOpen(a, k)
                   /\ idx' = (idx + 1) % nchs
                   /\ st_blk_idx'[a][k] = blk_idx'[ch']
                   /\ blk_nr'[a][k] = 0
<1>1. /\ area \in Area /\ ch \in Ch /\ idx \in Ch /\ i < area_blk_nr[area]
      /\ idx < ch_nr[area] /\ IsOpen(area, idx) /\ blk_nr[area][idx] \in Nat
      /\ nchs \in Nat \ {0}
  BY Sizes DEF PlaceBlock, PlacingInv, LayoutTypes, Current, RunsOpen, Begun, Area
<1>2. /\ i' = i + 1 /\ blk_idx' = [blk_idx EXCEPT ![ch] = @ + 1]
      /\ UNCHANGED <<geo, area, st_ch>> /\ nchs' = nchs /\ Ch' = Ch
  BY DEF PlaceBlock, nchs, Ch
<1> DEFINE nr == [blk_nr EXCEPT ![area][idx] = @ + 1]
<1>3. /\ nr \in [Area -> [Ch -> Nat \cup {Unset}]]
      /\ \A a \in Area, k \in Ch :
           nr[a][k] = IF a = area /\ k = idx THEN blk_nr[a][k] + 1 ELSE blk_nr[a][k]
  BY <1>1 DEF PlacingInv, LayoutTypes
<1>4. blk_idx' \in [Ch -> Nat \ {0}]
  BY <1>1, <1>2 DEF PlacingInv, LayoutTypes
<1>5. ch_nr[area] \in 0 .. nchs /\ (MoreChannels(area) => ch_nr[area] + 1 \in 0 .. nchs)
  BY <1>1 DEF MoreChannels, PlacingInv, LayoutTypes
<1>6. (ch + 1) % nchs \in Ch /\ (idx + 1) % nchs \in Ch
  BY <1>1, RoundRobin DEF Circle, Ch
<1>7. CASE RowEnds(blk_idx'[ch])
  <2>1. /\ ch' = (ch + 1) % nchs /\ idx' = (idx + 1) % nchs
        /\ ch_nr' = [ch_nr EXCEPT ![area] = IF MoreChannels(area) THEN @ + 1 ELSE @]
    BY <1>7 DEF PlaceBlock
  <2>2. CASE st_blk_idx[area][idx'] = 0
    <3>1. /\ st_blk_idx' = [st_blk_idx EXCEPT ![area][idx'] = blk_idx'[ch']]
          /\ blk_nr' = [nr EXCEPT ![area][idx'] = 0]
      BY <1>7, <2>2 DEF PlaceBlock
    <3>2. idx' # idx
      BY <1>1, <2>2 DEF IsOpen
    <3> HIDE DEF nr
    <3>3. LayoutTypes'
      BY <1>1, <1>2, <1>3, <1>4, <1>5, <1>6, <2>1, <3>1 DEF PlacingInv, LayoutTypes
    <3>4. \A a \in Area, k \in Ch :
            /\ st_blk_idx'[a][k] = IF a = area /\ k = idx' THEN blk_idx'[ch']
                                   ELSE st_blk_idx[a][k]
            /\ blk_nr'[a][k] = IF a = area /\ k = idx' THEN 0 ELSE nr[a][k]
      BY <1>1, <1>3, <3>1 DEF PlacingInv, LayoutTypes
    <3> QED BY <1>1, <1>2, <1>3, <2>1, <2>2, <3>2, <3>3, <3>4 DEF IsOpen
  <2>3. CASE st_blk_idx[area][idx'] # 0
    <3>1. st_blk_idx' = st_blk_idx /\ blk_nr' = nr
      BY <1>7, <2>3 DEF PlaceBlock
    <3> HIDE DEF nr
    <3>2. LayoutTypes'
      BY <1>1, <1>2, <1>3, <1>4, <1>5, <1>6, <2>1, <3>1 DEF PlacingInv, LayoutTypes
    <3> QED BY <1>1, <1>2, <1>3, <2>1, <2>3, <3>1, <3>2 DEF IsOpen
  <2> QED BY <2>2, <2>3
<1>8. CASE ~RowEnds(blk_idx'[ch])
  <2>1. blk_nr' = nr /\ UNCHANGED <<ch, idx, ch_nr, st_blk_idx>>
    BY <1>8 DEF PlaceBlock
  <2> HIDE DEF nr
  <2>2. LayoutTypes'
    BY <1>1, <1>2, <1>3, <1>4, <2>1 DEF PlacingInv, LayoutTypes
  <2> QED BY <1>1, <1>2, <1>3, <2>1, <2>2 DEF IsOpen
<1> QED BY <1>7, <1>8

\* The blocks of all runs after a turn: those from before and one more.
LEMMA OneMore ==
    ASSUME PlacingInv, PlaceBlock
    PROVE  /\ \A a \in Area, k \in Ch : Place(a, k)' = Place(a, k)
           /\ \A a \in Area, k \in Ch, n \in Nat :
                In(a, k, n)' <=> In(a, k, n) \/ (a = area /\ k = idx /\ n = blk_idx[ch])
           /\ Place(area, idx) = ch /\ ch \in Ch /\ idx \in Ch /\ area \in Area
           /\ blk_idx[ch] \in Nat \ {0}
           /\ blk_idx' = [blk_idx EXCEPT ![ch] = @ + 1]
<1>1. \A a \in Area, k \in Ch : Place(a, k)' = Place(a, k)
  BY PlaceBlockEffect DEF Place, nchs
<1>2. /\ Place(area, idx) = ch /\ ch \in Ch /\ idx \in Ch /\ area \in Area
      /\ blk_idx[ch] \in Nat \ {0} /\ IsOpen(area, idx)
      /\ st_blk_idx[area][idx] \in Nat /\ blk_nr[area][idx] \in Nat
      /\ st_blk_idx[area][idx] + blk_nr[area][idx] = blk_idx[ch]
  BY PlaceBlockEffect DEF PlacingInv, LayoutTypes, Current, RunsOpen, Begun, Area
<1>3. ASSUME NEW a \in Area, NEW k \in Ch, NEW n \in Nat
      PROVE  In(a, k, n)' <=> In(a, k, n) \/ (a = area /\ k = idx /\ n = blk_idx[ch])
  <2>1. CASE /\ a = area /\ k = idx
             /\ st_blk_idx'[a][k] = st_blk_idx[a][k]
             /\ blk_nr'[a][k] = blk_nr[a][k] + 1
    BY <1>2, <2>1 DEF In, IsOpen
  <2>2. CASE /\ ~(a = area /\ k = idx)
             /\ st_blk_idx'[a][k] = st_blk_idx[a][k]
             /\ blk_nr'[a][k] = blk_nr[a][k]
    BY <2>2 DEF In, IsOpen
  <2>3. CASE /\ a = area /\ k # idx /\ ~IsOpen(a, k)
             /\ st_blk_idx'[a][k] = blk_idx'[ch']
             /\ blk_nr'[a][k] = 0
    <3>1. blk_idx'[ch'] \in Nat
      BY PlaceBlockEffect DEF LayoutTypes
    <3> QED BY <2>3, <3>1 DEF In
  <2> QED BY <2>1, <2>2, <2>3, PlaceBlockEffect
<1> QED BY <1>1, <1>2, <1>3, PlaceBlockEffect

LEMMA PlaceBlockRuns ==
    ASSUME PlacingInv, PlaceBlock
    PROVE  RunsOpen' /\ Current' /\ (st_blk_idx["fn"][0] = FirstIdx)'
<1>1. /\ LayoutTypes' /\ LayoutTypes /\ UNCHANGED <<geo, area, st_ch>>
      /\ area_blk_nr' = area_blk_nr /\ FirstIdx' = FirstIdx /\ Begun' = Begun
      /\ Ch' = Ch /\ nchs' = nchs
  BY PlaceBlockEffect DEF PlacingInv, area_blk_nr, FirstIdx, nat_blk_nr, Begun, Ch, nchs
<1>2. /\ nchs \in Nat \ {0} /\ 0 \in Ch /\ FirstIdx \in Nat \ {0} /\ Ch = 0 .. nchs - 1
      /\ \A a \in Area : area_blk_nr[a] \in Nat \ {0}
  BY <1>1, Sizes DEF LayoutTypes, Ch
<1>3. /\ area \in Area /\ area \in Begun /\ idx \in Ch /\ idx' \in Ch /\ i \in Nat /\ i' = i + 1
      /\ i < area_blk_nr[area] /\ area_blk_nr[area] \in Nat
      /\ ch_nr[area] \in 0 .. nchs /\ idx < ch_nr[area] /\ IsOpen(area, idx)
      /\ ch_nr[area] = nchs \/ idx = ch_nr[area] - 1
      /\ ch = Place(area, idx)
  <2>1. /\ area \in Area /\ area \in Begun /\ idx \in Ch /\ idx' \in Ch /\ i \in Nat /\ i' = i + 1
        /\ i < area_blk_nr[area] /\ ch = Place(area, idx)
    <3>1. area \in Area /\ i' = i + 1 /\ i < area_blk_nr[area]
      BY PlaceBlockEffect
    <3>2. area \in Begun /\ ch = Place(area, idx)
      BY <3>1 DEF PlacingInv, Current, Begun, Area
    <3>3. idx \in Ch /\ idx' \in Ch /\ i \in Nat
      BY <1>1 DEF LayoutTypes
    <3> QED BY <3>1, <3>2, <3>3
  <2>2. ch_nr[area] \in 0 .. nchs /\ area_blk_nr[area] \in Nat
    BY <1>2, <2>1 DEF PlacingInv, LayoutTypes
  <2>3. idx < ch_nr[area] /\ IsOpen(area, idx) /\ (ch_nr[area] = nchs \/ idx = ch_nr[area] - 1)
    BY <1>1, <1>2, <2>1, PlaceBlockEffect DEF PlacingInv, LayoutTypes, Current, Begun, Area
  <2> QED BY <2>1, <2>2, <2>3
\* The next channel's run is the area's next one.
<1>4. idx' = (idx + 1) % nchs /\ ch_nr[area] < nchs => idx' = ch_nr[area]
  <2>1. PICK j : j = idx + 1
    OBVIOUS
  <2>2. PICK n : n = nchs
    OBVIOUS
  <2>3. PICK c : c = ch_nr[area]
    OBVIOUS
  <2>4. j \in Nat /\ n \in Nat \ {0} /\ c \in Nat /\ (c = n \/ j = c)
    BY <1>2, <1>3, <2>1, <2>2, <2>3
  <2>5. j < n => j % n = j
    BY <2>4
  <2> SUFFICES ASSUME idx' = j % n, c < n
               PROVE  idx' = c
    BY <2>1, <2>2, <2>3
  <2>6. j = c /\ j < n
    BY <2>4
  <2> QED BY <2>5, <2>6
<1>5. /\ \A a \in Area : ch_nr'[a] \in 0 .. nchs /\ ch_nr'[a] >= ch_nr[a]
      /\ \A a \in Area \ {area} : ch_nr'[a] = ch_nr[a]
      /\ \/ UNCHANGED <<ch, idx, ch_nr>>
         \/ /\ ch' = (ch + 1) % nchs /\ idx' = (idx + 1) % nchs
            /\ ch_nr'[area] = IF MoreChannels(area) THEN ch_nr[area] + 1 ELSE ch_nr[area]
  <2>1. ch_nr \in [Area -> 0 .. nchs] /\ ch_nr' \in [Area -> 0 .. nchs]
    BY <1>1 DEF LayoutTypes
  <2>2. ch_nr' = [ch_nr EXCEPT ![area] = IF MoreChannels(area) THEN @ + 1 ELSE @]
        \/ ch_nr' = ch_nr
    BY PlaceBlockEffect
  <2>3. \A a \in Area : ch_nr[a] \in Nat /\ ch_nr[a] <= nchs /\ ch_nr'[a] \in 0 .. nchs
    BY <1>2, <2>1
  <2>4. \A a \in Area : ch_nr'[a] >= ch_nr[a]
    BY <1>3, <2>1, <2>2, <2>3
  <2>5. \A a \in Area \ {area} : ch_nr'[a] = ch_nr[a]
    BY <1>3, <2>1, <2>2
  <2>6. \/ UNCHANGED <<ch, idx, ch_nr>>
        \/ /\ ch' = (ch + 1) % nchs /\ idx' = (idx + 1) % nchs
           /\ ch_nr'[area] = IF MoreChannels(area) THEN ch_nr[area] + 1 ELSE ch_nr[area]
    BY <1>3, <2>1, PlaceBlockEffect
  <2> QED BY <2>3, <2>4, <2>5, <2>6
<1>6. ASSUME NEW a \in Area, NEW k \in Ch
      PROVE  /\ IsOpen(a, k) => IsOpen(a, k)'
             /\ IsOpen(a, k)' /\ ~IsOpen(a, k) =>
                  /\ a = area /\ k = idx' /\ k # idx /\ idx' = (idx + 1) % nchs
                  /\ st_blk_idx'[a][k] = blk_idx'[ch'] /\ blk_nr'[a][k] = 0
             /\ IsOpen(a, k) =>
                  /\ st_blk_idx'[a][k] = st_blk_idx[a][k]
                  /\ blk_nr'[a][k] = IF a = area /\ k = idx THEN blk_nr[a][k] + 1
                                     ELSE blk_nr[a][k]
             /\ a = area /\ k = idx' => IsOpen(a, k)'
  <2>1. blk_idx'[ch'] \in Nat \ {0}
    BY <1>1 DEF LayoutTypes
  <2> QED BY <1>3, <2>1, PlaceBlockEffect DEF IsOpen
<1>7. RunsOpen'
  <2>1. ASSUME NEW a \in Area \ Begun, NEW k \in Ch PROVE ~IsOpen(a, k)'
    BY <1>3, <1>6 DEF PlacingInv, RunsOpen
  <2>2. ASSUME NEW a \in Begun, NEW k \in Ch, k < ch_nr'[a] PROVE IsOpen(a, k)'
    <3>0. a \in Area
      BY DEF Begun, Area
    <3>1. CASE k < ch_nr[a]
      BY <1>6, <3>0, <3>1 DEF PlacingInv, RunsOpen
    <3>2. CASE ~(k < ch_nr[a])
      <4>1. a = area /\ idx' = (idx + 1) % nchs /\ MoreChannels(area) /\ k = ch_nr[area]
        <5>1. a = area
          BY <1>5, <2>2, <3>0, <3>2
        <5>2. ch_nr'[area] # ch_nr[area]
          BY <2>2, <3>2, <5>1
        <5> QED BY <1>2, <1>3, <1>5, <2>2, <3>2, <5>1, <5>2
      <4>2. k = idx'
        BY <1>2, <1>3, <1>4, <4>1
      <4> QED BY <1>6, <3>0, <4>1, <4>2
    <3> QED BY <3>1, <3>2
  <2>3. ASSUME NEW a \in Begun, NEW k \in Ch, IsOpen(a, k)' PROVE blk_nr'[a][k] \in Nat
    BY <1>6, <2>3 DEF PlacingInv, RunsOpen, Begun, Area
  <2>4. ASSUME NEW a \in Begun, NEW k \in Ch, IsOpen(a, k)', k >= ch_nr'[a]
        PROVE  blk_nr'[a][k] = 0 /\ (a = area => i' = area_blk_nr[a])
    <3>0. a \in Area /\ k \in Nat /\ ch_nr[a] \in Nat /\ ch_nr'[a] \in Nat /\ k >= ch_nr[a]
      <4>1. a \in Area
        BY DEF Begun, Area
      <4>2. ch_nr[a] \in 0 .. nchs /\ ch_nr'[a] \in 0 .. nchs /\ ch_nr'[a] >= ch_nr[a]
        BY <1>1, <1>5, <4>1 DEF LayoutTypes
      <4> QED BY <1>2, <2>4, <4>1, <4>2
    <3>1. CASE IsOpen(a, k)
      <4>1. blk_nr[a][k] = 0 /\ (a = area => i = area_blk_nr[a])
        BY <3>0, <3>1 DEF PlacingInv, RunsOpen
      <4>2. a # area
        BY <1>3, <4>1
      <4> QED BY <1>6, <3>0, <3>1, <4>1, <4>2
    <3>2. CASE ~IsOpen(a, k)
      <4>1. a = area /\ k = idx' /\ k # idx /\ idx' = (idx + 1) % nchs /\ blk_nr'[a][k] = 0
        BY <1>6, <2>4, <3>0, <3>2
      <4>2. ch_nr[area] < nchs
        BY <1>2, <1>3, <3>0, <4>1
      <4>3. k = ch_nr[area]
        BY <1>4, <4>1, <4>2
      <4>4. ~MoreChannels(area)
        BY <1>3, <1>5, <2>4, <4>1, <4>3
      <4> QED BY <1>3, <4>1, <4>2, <4>4 DEF MoreChannels
    <3> QED BY <3>1, <3>2
  <2>5. ASSUME NEW a \in Begun, NEW k \in Ch PROVE ch_nr'[a] >= 1
    <3>1. a \in Area
      BY DEF Begun, Area
    <3>2. ch_nr[a] \in 0 .. nchs /\ ch_nr'[a] \in 0 .. nchs /\ ch_nr'[a] >= ch_nr[a]
      BY <1>1, <1>5, <3>1 DEF LayoutTypes
    <3>3. ch_nr[a] >= 1
      BY DEF PlacingInv, RunsOpen
    <3> QED BY <1>2, <3>2, <3>3
  <2> QED BY <1>1, <2>1, <2>2, <2>3, <2>4, <2>5 DEF RunsOpen
<1>8. \A k \in Ch : Place(area, k)' = Place(area, k)
  BY <1>1 DEF Place
<1>9. ch' = Place(area, idx')
  BY <1>1, <1>3, <1>5, PlaceIs
<1>10. /\ i' <= area_blk_nr[area]
       /\ i' < area_blk_nr[area] =>
            /\ idx' < ch_nr'[area]
            /\ ch_nr'[area] = nchs \/ idx' = ch_nr'[area] - 1
  <2>1. i' <= area_blk_nr[area]
    BY <1>3
  <2>2. ASSUME i' < area_blk_nr[area], ch_nr[area] < nchs, idx' = (idx + 1) % nchs
        PROVE  MoreChannels(area) /\ idx' = ch_nr[area]
    BY <1>3, <1>4, <2>2 DEF MoreChannels
  <2> QED BY <1>2, <1>3, <1>5, <2>1, <2>2
<1>11. ASSUME NEW a \in Area, a = area, NEW k \in Ch, IsOpen(a, k)'
       PROVE  st_blk_idx'[a][k] + blk_nr'[a][k] = blk_idx'[Place(a, k)]
  <2>1. blk_idx' = [blk_idx EXCEPT ![ch] = @ + 1] /\ blk_idx \in [Ch -> Nat \ {0}] /\ ch \in Ch
    BY <1>1, PlaceBlockEffect DEF LayoutTypes
  <2>2. CASE IsOpen(a, k)
    <3>1. /\ st_blk_idx[a][k] + blk_nr[a][k] = blk_idx[Place(a, k)]
          /\ st_blk_idx[a][k] \in Nat /\ blk_nr[a][k] \in Nat
      BY <1>3, <1>11, <2>2 DEF PlacingInv, Current, RunsOpen, LayoutTypes
    <3>2. CASE k = idx
      BY <1>3, <1>6, <1>11, <2>1, <2>2, <3>1, <3>2
    <3>3. CASE k # idx
      <4>1. Place(a, k) \in Ch /\ Place(a, k) # ch
        BY <1>1, <1>3, <1>11, <3>3, PlaceIs
      <4> QED BY <1>3, <1>6, <1>11, <2>1, <2>2, <3>1, <3>3, <4>1
    <3> QED BY <3>2, <3>3
  <2>3. CASE ~IsOpen(a, k)
    <3>1. k = idx' /\ st_blk_idx'[a][k] = blk_idx'[ch'] /\ blk_nr'[a][k] = 0
      BY <1>3, <1>6, <1>11, <2>3
    <3>2. blk_idx'[ch'] \in Nat
      BY <1>1 DEF LayoutTypes
    <3> QED BY <1>9, <1>11, <3>1, <3>2
  <2> QED BY <2>2, <2>3
<1>12. Current'
  <2>1. \A k \in Ch : IsOpen(area, k)' =>
          st_blk_idx'[area][k] + blk_nr'[area][k] = blk_idx'[Place(area, k)]
    BY <1>1, <1>3, <1>11 DEF IsOpen
  <2> QED BY <1>1, <1>3, <1>8, <1>9, <1>10, <2>1 DEF Current, Place
<1>13. (st_blk_idx["fn"][0] = FirstIdx)'
  <2>1. IsOpen("fn", 0) /\ st_blk_idx["fn"][0] = FirstIdx
    BY <1>2 DEF PlacingInv, IsOpen
  <2> QED BY <1>1, <1>2, <1>6, <2>1 DEF Area
<1> QED BY <1>7, <1>12, <1>13

LEMMA PlaceBlockInv ==
    ASSUME PlacingInv, PlaceBlock
    PROVE  PlacingInv'
<1>1. /\ LayoutTypes' /\ LayoutTypes /\ UNCHANGED <<geo, area, st_ch>>
      /\ area_blk_nr' = area_blk_nr /\ FirstIdx' = FirstIdx /\ Begun' = Begun
      /\ Ch' = Ch /\ nchs' = nchs
  BY PlaceBlockEffect DEF PlacingInv, area_blk_nr, FirstIdx, nat_blk_nr, Begun, Ch, nchs
<1>2. /\ nchs \in Nat \ {0} /\ 0 \in Ch /\ FirstIdx \in Nat \ {0} /\ Ch = 0 .. nchs - 1
      /\ \A a \in Area : area_blk_nr[a] \in Nat \ {0}
  BY <1>1, Sizes DEF LayoutTypes, Ch
<1>3. Tiled'
  <2> SUFFICES ASSUME NEW c \in Ch, NEW n \in Nat \ {0}
               PROVE  n < blk_idx'[c] <=>
                        \/ c = 0 /\ n < FirstIdx
                        \/ \E a \in Area, k \in Ch : Place(a, k)' = c /\ In(a, k, n)'
    BY <1>1 DEF Tiled
  <2>1. n < blk_idx'[c] <=> n < blk_idx[c] \/ (c = ch /\ n = blk_idx[ch])
    <3>1. /\ blk_idx' = [blk_idx EXCEPT ![ch] = @ + 1] /\ blk_idx \in [Ch -> Nat \ {0}]
          /\ ch \in Ch
      BY <1>1, OneMore DEF LayoutTypes
    <3> QED BY <3>1
  <2>2. n < blk_idx[c] <=>
          \/ c = 0 /\ n < FirstIdx
          \/ \E a \in Area, k \in Ch : Place(a, k) = c /\ In(a, k, n)
    BY DEF PlacingInv, Tiled
  <2>3. (\E a \in Area, k \in Ch : Place(a, k)' = c /\ In(a, k, n)') <=>
          \/ \E a \in Area, k \in Ch : Place(a, k) = c /\ In(a, k, n)
          \/ c = ch /\ n = blk_idx[ch]
    BY OneMore
  <2> QED BY <2>1, <2>2, <2>3

\* The block handed out had no owner.
<1>4. \A a \in Area, k \in Ch : Place(a, k) = ch => ~In(a, k, blk_idx[ch])
  <2>1. PICK m : m = blk_idx[ch]
    OBVIOUS
  <2>2. m \in Nat \ {0} /\ ch \in Ch
    BY <2>1, OneMore
  <2>3. \A c \in Ch, n \in Nat \ {0} :
          (\E a \in Area, k \in Ch : Place(a, k) = c /\ In(a, k, n)) => n < blk_idx[c]
    BY DEF PlacingInv, Tiled
  <2>4. ~(m < blk_idx[ch])
    BY <2>1, <2>2
  <2>5. ~(\E a \in Area, k \in Ch : Place(a, k) = ch /\ In(a, k, m))
    BY <2>2, <2>3, <2>4
  <2> QED BY <2>1, <2>5
<1>5. Disjoint'
  <2> SUFFICES ASSUME NEW a \in Area, NEW b \in Area, NEW k \in Ch, NEW l \in Ch, NEW n \in Nat,
                      Place(a, k) = Place(b, l), In(a, k, n)', In(b, l, n)'
               PROVE  a = b
    BY <1>1, OneMore DEF Disjoint
  <2>1. CASE In(a, k, n) /\ In(b, l, n)
    BY <2>1 DEF PlacingInv, Disjoint
  <2>2. CASE ~(In(a, k, n) /\ In(b, l, n))
    BY <1>4, <2>2, OneMore
  <2> QED BY <2>1, <2>2
<1>6. BehindReserved'
  <2>1. ch = 0 => blk_idx[ch] >= FirstIdx
    BY <1>2, OneMore DEF PlacingInv, Tiled
  <2> QED BY <1>1, <2>1, OneMore DEF PlacingInv, BehindReserved
<1> QED BY <1>1, <1>3, <1>5, <1>6, PlaceBlockRuns DEF PlacingInv

\* The next area has no run yet; its first one is opened behind the last one,
\* empty.
LEMMA BeginAreaInv ==
    ASSUME PlacingInv, BeginArea
    PROVE  PlacingInv'
<1>1. /\ LayoutTypes /\ UNCHANGED <<geo, ch, blk_idx>>
      /\ area_blk_nr' = area_blk_nr /\ FirstIdx' = FirstIdx
      /\ Ch' = Ch /\ nchs' = nchs
      /\ area \in Area /\ i = area_blk_nr[area] /\ area' = NextArea(area)
  BY DEF BeginArea, PlacingInv, area_blk_nr, FirstIdx, nat_blk_nr, Ch, nchs
<1>2. /\ nchs \in Nat \ {0} /\ 0 \in Ch /\ FirstIdx \in Nat \ {0} /\ Ch = 0 .. nchs - 1
      /\ \A a \in Area : area_blk_nr[a] \in Nat \ {0}
  BY <1>1, Sizes DEF LayoutTypes, Ch
<1>3. CASE area' \notin Area
  <2>1. UNCHANGED <<i, idx, st_ch, ch_nr, st_blk_idx, blk_nr>>
    BY <1>3 DEF BeginArea
  <2>2. area' = "renumber" /\ Begun = Area /\ Begun' = Area
    BY <1>1, <1>3 DEF NextArea, Area, Begun
  <2>3. LayoutTypes'
    BY <1>1, <2>1, <2>2 DEF LayoutTypes
  <2>4. RunsOpen'
    BY <1>1, <1>3, <2>1, <2>2 DEF PlacingInv, RunsOpen, IsOpen
  <2>5. Tiled' /\ Disjoint' /\ BehindReserved' /\ (st_blk_idx["fn"][0] = FirstIdx)'
    BY <1>1, <2>1 DEF PlacingInv, Tiled, Disjoint, BehindReserved, Place, In, IsOpen
  <2> QED BY <1>3, <2>3, <2>4, <2>5 DEF PlacingInv, Current
<1>4. CASE area' \in Area
  <2>0. PICK b \in Area : area' = b
    BY <1>4
  <2>1. /\ i' = 0 /\ idx' = 0
        /\ st_ch' = [st_ch EXCEPT ![b] = ch]
        /\ ch_nr' = [ch_nr EXCEPT ![b] = 1]
        /\ st_blk_idx' = [st_blk_idx EXCEPT ![b][0] = blk_idx[ch]]
        /\ blk_nr' = [blk_nr EXCEPT ![b][0] = 0]
    BY <2>0 DEF BeginArea
  <2>2. b \notin Begun /\ Begun' = Begun \cup {b} /\ b # "fn" /\ Begun \subseteq Area
    BY <1>1, <2>0 DEF NextArea, Area, Begun
  <2>3. blk_idx[ch] \in Nat \ {0} /\ ch \in Ch /\ 1 \in 0 .. nchs
    <3>1. blk_idx \in [Ch -> Nat \ {0}] /\ ch \in Ch
      BY <1>1 DEF LayoutTypes
    <3>2. 1 \in 0 .. nchs
      BY <1>2
    <3> QED BY <3>1, <3>2
  <2>4. LayoutTypes'
    BY <1>1, <1>2, <2>0, <2>1, <2>3 DEF LayoutTypes
  <2>5. \A a \in Area, k \in Ch :
          /\ a # b => /\ st_ch'[a] = st_ch[a] /\ ch_nr'[a] = ch_nr[a]
                      /\ st_blk_idx'[a][k] = st_blk_idx[a][k]
                      /\ blk_nr'[a][k] = blk_nr[a][k]
          /\ a = b => /\ st_ch'[a] = ch /\ ch_nr'[a] = 1
                      /\ st_blk_idx'[a][k] = (IF k = 0 THEN blk_idx[ch] ELSE 0)
                      /\ k = 0 => blk_nr'[a][k] = 0
    <3>1. st_ch \in [Area -> Ch] /\ ch_nr \in [Area -> 0 .. nchs]
          /\ st_blk_idx \in [Area -> [Ch -> Nat]]
          /\ blk_nr \in [Area -> [Ch -> Nat \cup {Unset}]]
      BY <1>1 DEF LayoutTypes
    <3>2. \A k \in Ch : st_blk_idx[b][k] = 0
      BY <2>2 DEF PlacingInv, RunsOpen, IsOpen
    <3> QED BY <1>2, <2>1, <3>1, <3>2
  <2>6. \A a \in Area, k \in Ch :
          /\ a # b => /\ Place(a, k)' = Place(a, k)
                      /\ IsOpen(a, k)' <=> IsOpen(a, k)
          /\ a = b => (IsOpen(a, k)' <=> k = 0)
    BY <1>1, <2>3, <2>5 DEF Place, IsOpen
  <2>7. \A a \in Area, k \in Ch, n \in Nat :
          /\ In(a, k, n)' <=> In(a, k, n)
          /\ In(a, k, n) => Place(a, k)' = Place(a, k)
    <3> SUFFICES ASSUME NEW a \in Area, NEW k \in Ch, NEW n \in Nat
                 PROVE  /\ In(a, k, n)' <=> In(a, k, n)
                        /\ In(a, k, n) => Place(a, k)' = Place(a, k)
      OBVIOUS
    <3>1. CASE a # b
      BY <2>5, <2>6, <3>1 DEF In, IsOpen
    <3>2. CASE a = b
      <4>1. ~In(a, k, n)
        BY <2>2, <3>2 DEF PlacingInv, RunsOpen, In
      <4>2. ~In(a, k, n)'
        BY <2>3, <2>5, <2>6, <3>2 DEF In
      <4> QED BY <4>1, <4>2
    <3> QED BY <3>1, <3>2
  <2>8. RunsOpen'
    <3>1. ASSUME NEW a \in Area \ Begun', NEW k \in Ch PROVE ~IsOpen(a, k)'
      BY <2>2, <2>6 DEF PlacingInv, RunsOpen
    <3>2. ASSUME NEW a \in Begun', NEW k \in Ch
          PROVE  /\ ch_nr'[a] >= 1
                 /\ k < ch_nr'[a] => IsOpen(a, k)'
                 /\ IsOpen(a, k)' => blk_nr'[a][k] \in Nat
                 /\ IsOpen(a, k)' /\ k >= ch_nr'[a] =>
                      blk_nr'[a][k] = 0 /\ (a = b => i' = area_blk_nr[a])
      <4>1. a \in Area
        BY <2>2
      <4>2. CASE a = b
        BY <1>2, <2>5, <2>6, <4>1, <4>2
      <4>3. CASE a # b
        BY <2>2, <2>5, <2>6, <4>1, <4>3 DEF PlacingInv, RunsOpen
      <4> QED BY <4>2, <4>3
    <3> QED BY <1>1, <2>0, <3>1, <3>2 DEF RunsOpen
  <2>9. Place(b, 0)' = ch
    <3>1. (ch + 0) % nchs = ch
      BY <1>2, <2>3, RoundRobin DEF Circle
    <3> QED BY <1>1, <1>2, <2>5, <3>1 DEF Place
  <2>10. Current'
    <3>1. ch' = (st_ch'[b] + idx') % nchs'
      BY <1>1, <2>1, <2>9 DEF Place
    <3>2. /\ i' <= area_blk_nr[b] /\ idx' < ch_nr'[b]
          /\ idx' = ch_nr'[b] - 1
      BY <1>2, <2>1, <2>5
    <3>3. \A k \in Ch : IsOpen(b, k)' =>
            st_blk_idx'[b][k] + blk_nr'[b][k] = blk_idx'[Place(b, k)']
      BY <1>1, <1>2, <2>3, <2>5, <2>6, <2>9
    <3> QED BY <1>1, <2>0, <3>1, <3>2, <3>3 DEF Current, Place, IsOpen
  <2>11. Tiled'
    BY <1>1, <2>7 DEF PlacingInv, Tiled
  <2>12. Disjoint'
    BY <1>1, <2>7 DEF PlacingInv, Disjoint
  <2>13. BehindReserved'
    BY <1>1, <2>7 DEF PlacingInv, BehindReserved
  <2>14. (st_blk_idx["fn"][0] = FirstIdx)'
    BY <1>1, <1>2, <2>2, <2>5 DEF PlacingInv, Area
  <2> QED BY <2>4, <2>8, <2>10, <2>11, <2>12, <2>13, <2>14 DEF PlacingInv
<1> QED BY <1>3, <1>4

\* When the blocks count from 0, an area has the blocks of its runs.
LEMMA RenumberedBlocks ==
    ASSUME PlacingInv, Renumber, NEW a \in Area
    PROVE  \A b : b \in Blocks(a)' <=>
             /\ b \in Ch \X Nat
             /\ \E k \in Ch : Place(a, k) = b[1] /\ In(a, k, b[2] + 1)
<1>1. /\ UNCHANGED <<geo, st_ch, ch_nr, blk_nr>> /\ nchs' = nchs /\ Ch' = Ch
      /\ Begun = Area /\ LayoutTypes
  BY DEF Renumber, PlacingInv, Begun, nchs, Ch
<1>2. nchs \in Nat \ {0} /\ Ch = 0 .. nchs - 1 /\ ch_nr[a] \in 0 .. nchs
  BY <1>1, Sizes DEF LayoutTypes, Ch
<1>3. Opened(a)' = Opened(a) /\ Opened(a) = {k \in Ch : k < ch_nr[a]}
  BY <1>1, <1>2 DEF Opened
<1>4. \A k \in Ch :
        /\ st_blk_idx[a][k] \in Nat
        /\ k \in Opened(a) => /\ IsOpen(a, k) /\ blk_nr[a][k] \in Nat
                              /\ st_blk_idx'[a][k] = st_blk_idx[a][k] - 1
        /\ k \notin Opened(a) => \A n \in Nat : ~In(a, k, n)
  <2> SUFFICES ASSUME NEW k \in Ch
               PROVE  /\ st_blk_idx[a][k] \in Nat
                      /\ k \in Opened(a) => /\ IsOpen(a, k) /\ blk_nr[a][k] \in Nat
                                            /\ st_blk_idx'[a][k] = st_blk_idx[a][k] - 1
                      /\ k \notin Opened(a) => \A n \in Nat : ~In(a, k, n)
    OBVIOUS
  <2>1. st_blk_idx[a][k] \in Nat
    BY <1>1 DEF LayoutTypes
  <2>2. st_blk_idx'[a][k] = IF k \in Opened(a) THEN st_blk_idx[a][k] - 1 ELSE st_blk_idx[a][k]
    BY <1>1 DEF Renumber
  <2>3. CASE k \in Opened(a)
    BY <1>1, <1>3, <2>1, <2>2, <2>3 DEF PlacingInv, RunsOpen
  <2>4. CASE k \notin Opened(a)
    <3>1. IsOpen(a, k) => blk_nr[a][k] = 0
      BY <1>1, <1>2, <1>3, <2>4 DEF PlacingInv, RunsOpen
    <3> QED BY <2>1, <2>4, <3>1 DEF In
  <2> QED BY <2>1, <2>3, <2>4
<1>5. \A k \in Ch : Place(a, k) \in Ch /\ Place(a, k)' = Place(a, k)
  BY <1>1, PlaceIs DEF Place
<1>6. ASSUME NEW b, NEW k \in Opened(a)
      PROVE  b \in Run(a, k)' <=> b \in Ch \X Nat /\ Place(a, k) = b[1] /\ In(a, k, b[2] + 1)
  <2>1. k \in Ch /\ IsOpen(a, k) /\ st_blk_idx[a][k] \in Nat \ {0} /\ blk_nr[a][k] \in Nat
        /\ st_blk_idx'[a][k] = st_blk_idx[a][k] - 1
    BY <1>3, <1>4 DEF IsOpen
  <2>2. Run(a, k)' = {<<Place(a, k), st_blk_idx[a][k] - 1 + n>> : n \in 0 .. blk_nr[a][k] - 1}
    BY <1>1, <1>5, <2>1 DEF Run, Place
  <2>3. ASSUME b \in Run(a, k)'
        PROVE  b \in Ch \X Nat /\ Place(a, k) = b[1] /\ In(a, k, b[2] + 1)
    <3>1. PICK n \in 0 .. blk_nr[a][k] - 1 : b = <<Place(a, k), st_blk_idx[a][k] - 1 + n>>
      BY <2>2, <2>3
    <3> QED BY <1>5, <2>1, <3>1 DEF In
  <2>4. ASSUME b \in Ch \X Nat, Place(a, k) = b[1], In(a, k, b[2] + 1)
        PROVE  b \in Run(a, k)'
    <3> DEFINE n == b[2] + 1 - st_blk_idx[a][k]
    <3>1. b[2] \in Nat /\ b = <<b[1], b[2]>>
      BY <2>4
    <3>2. n \in 0 .. blk_nr[a][k] - 1 /\ st_blk_idx[a][k] - 1 + n = b[2]
      BY <2>1, <2>4, <3>1 DEF In
    <3> QED BY <2>2, <2>4, <3>1, <3>2
  <2> QED BY <2>3, <2>4
<1>7. Blocks(a)' = UNION {Run(a, k)' : k \in Opened(a)}
  BY <1>3 DEF Blocks
<1> QED
  <2> SUFFICES ASSUME NEW b
               PROVE  b \in Blocks(a)' <=>
                        /\ b \in Ch \X Nat
                        /\ \E k \in Ch : Place(a, k) = b[1] /\ In(a, k, b[2] + 1)
    OBVIOUS
  <2>1. b \in Blocks(a)' <=> \E k \in Opened(a) : b \in Run(a, k)'
    BY <1>7
  <2>2. b \in Ch \X Nat => b[2] + 1 \in Nat
    OBVIOUS
  <2> QED BY <1>3, <1>4, <1>6, <2>1, <2>2

\* Renumbering ends the placement: the areas tile what was handed out.
LEMMA RenumberTiles ==
    ASSUME PlacingInv, Renumber
    PROVE  /\ AreasTile'
           /\ st_blk_idx'["fn"][0] = FirstIdx - 1
<1>1. /\ UNCHANGED <<geo, ch_nr>> /\ Ch' = Ch /\ LayoutTypes /\ Begun = Area
      /\ nat_blk_nr' = nat_blk_nr
  BY DEF Renumber, PlacingInv, Begun, nchs, Ch, nat_blk_nr
<1>2. /\ 0 \in Ch /\ FirstIdx \in Nat \ {0} /\ "fn" \in Area
      /\ blk_idx \in [Ch -> Nat \ {0}] /\ Ch \subseteq Nat
  <2>1. 0 \in Ch /\ FirstIdx \in Nat \ {0}
    BY <1>1, Sizes DEF LayoutTypes
  <2>2. blk_idx \in [Ch -> Nat \ {0}]
    BY <1>1 DEF LayoutTypes
  <2>3. Ch \subseteq Nat
    BY DEF Ch
  <2> QED BY <2>1, <2>2, <2>3 DEF Area
<1> DEFINE Placed(a, b) == \E k \in Ch : Place(a, k) = b[1] /\ In(a, k, b[2] + 1)
<1>3. \A a \in Area : \A b : b \in Blocks(a)' <=> b \in Ch \X Nat /\ Placed(a, b)
  BY RenumberedBlocks
<1>4. \A b : b \in Reserved' <=> b \in Ch \X Nat /\ b[1] = 0 /\ b[2] + 1 < FirstIdx
  <2>1. Reserved' = {<<0, n>> : n \in 0 .. FirstIdx - 2}
    <3>1. FirstIdx - 2 = nat_blk_nr["fn"] + nat_blk_nr["fm"] + nat_blk_nr["ext"]
      BY <1>1, <1>2, Starts DEF FirstIdx, LayoutTypes, Area
    <3> QED BY <1>1, <3>1 DEF Reserved
  <2> QED BY <1>2, <2>1
<1>5. \A c \in Ch : blk_idx[c] \in Nat \ {0} /\ blk_idx'[c] = blk_idx[c] - 1
  BY <1>1, <1>2 DEF Renumber
<1> DEFINE Used == UNION {{<<c, n>> : n \in 0 .. blk_idx[c] - 1} : c \in Ch}
<1>6. \A b : b \in Used' <=> b \in Ch \X Nat /\ b[2] + 1 < blk_idx[b[1]]
  <2> SUFFICES ASSUME NEW b
               PROVE  b \in Used' <=> b \in Ch \X Nat /\ b[2] + 1 < blk_idx[b[1]]
    OBVIOUS
  <2>1. Used' = UNION {{<<c, n>> : n \in 0 .. blk_idx[c] - 2} : c \in Ch}
    <3>1. \A c \in Ch : blk_idx'[c] - 1 = blk_idx[c] - 2
      BY <1>5
    <3> QED BY <1>1, <3>1
  <2>2. b \in Used' <=> \E c \in Ch : \E n \in 0 .. blk_idx[c] - 2 : b = <<c, n>>
    BY <2>1
  <2> HIDE DEF Used
  <2> QED BY <1>5, <2>2
<1> HIDE DEF Placed, Used
<1>7. ASSUME NEW b \in Ch \X Nat
      PROVE  /\ b[2] + 1 < blk_idx[b[1]] <=>
                  (b[1] = 0 /\ b[2] + 1 < FirstIdx) \/ \E a \in Area : Placed(a, b)
             /\ \A a, d \in Area : Placed(a, b) /\ Placed(d, b) => a = d
             /\ \A a \in Area : b[1] = 0 /\ Placed(a, b) => b[2] + 1 >= FirstIdx
  <2>1. b[1] \in Ch /\ b[2] + 1 \in Nat \ {0}
    OBVIOUS
  <2>2. b[2] + 1 < blk_idx[b[1]] <=>
          (b[1] = 0 /\ b[2] + 1 < FirstIdx) \/ \E a \in Area : Placed(a, b)
    BY <2>1 DEF PlacingInv, Tiled, Placed
  <2>3. \A a, d \in Area : Placed(a, b) /\ Placed(d, b) => a = d
    BY <2>1 DEF PlacingInv, Disjoint, Placed
  <2>4. \A a \in Area : b[1] = 0 /\ Placed(a, b) => b[2] + 1 >= FirstIdx
    BY <2>1 DEF PlacingInv, BehindReserved, Placed
  <2> QED BY <2>2, <2>3, <2>4
<1>8. ASSUME NEW a \in Area PROVE Blocks(a)' \cap Reserved' = {}
  <2> SUFFICES ASSUME NEW b, b \in Blocks(a)', b \in Reserved' PROVE FALSE
    OBVIOUS
  <2>1. b \in Ch \X Nat /\ Placed(a, b) /\ b[1] = 0 /\ b[2] + 1 < FirstIdx
    BY <1>3, <1>4
  <2>2. b[2] \in Nat
    BY <2>1
  <2> QED BY <1>2, <1>7, <2>1, <2>2
<1>9. ASSUME NEW a \in Area, NEW d \in Area \ {a} PROVE Blocks(a)' \cap Blocks(d)' = {}
  BY <1>3, <1>7
<1>10. Reserved' \cup UNION {Blocks(a)' : a \in Area} = Used'
  <2> SUFFICES ASSUME NEW b
               PROVE  b \in Reserved' \/ (\E a \in Area : b \in Blocks(a)') <=> b \in Used'
    OBVIOUS
  <2> QED BY <1>3, <1>4, <1>6, <1>7
<1>11. AreasTile'
  BY <1>1, <1>8, <1>9, <1>10 DEF AreasTile, Used
<1>12. st_blk_idx'["fn"][0] = FirstIdx - 1
  <2>1. ch_nr["fn"] \in Nat /\ ch_nr["fn"] >= 1
    BY <1>1, <1>2, Sizes DEF PlacingInv, LayoutTypes, RunsOpen
  <2>2. 0 \in Opened("fn")
    BY <2>1 DEF Opened
  <2> QED BY <1>2, <2>2 DEF Renumber, PlacingInv
<1> QED BY <1>11, <1>12

(***************************************************************************)
(* The runs of an area add up to its size.                                 *)
(***************************************************************************)
WholeInv ==
    \A a \in Begun :
      /\ Sum(blk_nr[a], Opened(a)) = IF a = area THEN i ELSE area_blk_nr[a]
      /\ \A k \in Opened(a) :
           blk_nr[a][k] > 0 \/ (a = area /\ k = idx /\ i < area_blk_nr[a])

\* The runs that have been opened have a number of blocks.
LEMMA OpenedRuns ==
    ASSUME PlacingInv, NEW a \in Begun
    PROVE  /\ a \in Area /\ IsFiniteSet(Opened(a)) /\ ch_nr[a] \in Nat /\ ch_nr[a] <= nchs
           /\ \A k : k \in Opened(a) <=> k \in Ch /\ k < ch_nr[a]
           /\ \A k \in Opened(a) : blk_nr[a][k] \in Nat
<1>1. a \in Area /\ nchs \in Nat \ {0}
  BY Sizes DEF Begun, Area, PlacingInv, LayoutTypes
<1>2. ch_nr[a] \in 0 .. nchs
  BY <1>1 DEF PlacingInv, LayoutTypes
<1>3. ch_nr[a] \in Nat /\ ch_nr[a] <= nchs
  BY <1>1, <1>2
<1>4. IsFiniteSet(Opened(a))
  BY <1>3, FS_Interval DEF Opened
<1>5. \A k : k \in Opened(a) <=> k \in Ch /\ k < ch_nr[a]
  BY <1>1, <1>3 DEF Opened, Ch
<1>6. \A k \in Opened(a) : blk_nr[a][k] \in Nat
  BY <1>5 DEF PlacingInv, RunsOpen
<1> QED BY <1>1, <1>3, <1>4, <1>5, <1>6

LEMMA InitWhole == Init => WholeInv
<1> SUFFICES ASSUME Init PROVE WholeInv
  OBVIOUS
<1>1. PlacingInv /\ Begun = {"fn"}
  BY LayoutInitInv DEF Init, Begun
<1>2. /\ nchs \in Nat \ {0} /\ 0 \in Ch /\ "fn" \in Area /\ area_blk_nr["fn"] \in Nat \ {0}
      /\ area = "fn" /\ i = 0 /\ idx = 0
  BY Sizes DEF Init, Area
<1>3. Opened("fn") = {0} /\ blk_nr["fn"][0] = 0
  BY <1>2 DEF Init, Opened
<1>4. Sum(blk_nr["fn"], {0}) = 0
  <2>1. PICK f : f = blk_nr["fn"]
    OBVIOUS
  <2>2. f[0] = 0 /\ f[0] \in Int
    BY <1>3, <2>1
  <2>3. Sum(f, {0}) = f[0]
    BY <2>2, SumOfOne
  <2> QED BY <2>1, <2>2, <2>3
<1> QED BY <1>1, <1>2, <1>3, <1>4 DEF WholeInv

LEMMA PlaceBlockWhole ==
    ASSUME PlacingInv, WholeInv, PlaceBlock
    PROVE  WholeInv'
<1>1. /\ PlacingInv' /\ UNCHANGED <<geo, area, st_ch>> /\ i' = i + 1
      /\ area_blk_nr' = area_blk_nr /\ Begun' = Begun /\ Ch' = Ch /\ nchs' = nchs
      /\ Begun \subseteq Area
  BY PlaceBlockInv, PlaceBlockEffect DEF PlacingInv, area_blk_nr, Begun, Ch, nchs, Area
<1>2. /\ area \in Begun /\ idx \in Opened(area) /\ i \in Nat /\ idx \in Ch
      /\ i < area_blk_nr[area] /\ area_blk_nr[area] \in Nat
      /\ ch_nr[area] = nchs \/ idx = ch_nr[area] - 1
  <2>1. area \in Area /\ area \in Begun /\ i < area_blk_nr[area]
    BY DEF PlaceBlock, Begun, Area
  <2>2. area_blk_nr[area] \in Nat
    BY <2>1, Sizes DEF PlacingInv, LayoutTypes
  <2> QED BY <2>1, <2>2, OpenedRuns DEF PlacingInv, Current, LayoutTypes
<1>3. ASSUME NEW a \in Begun, a # area
      PROVE  /\ Sum(blk_nr'[a], Opened(a)') = area_blk_nr'[a]
             /\ \A k \in Opened(a)' : blk_nr'[a][k] > 0
  <2>1. ch_nr'[a] = ch_nr[a]
    <3>1. a \in Area /\ area \in Area
      BY <1>1, <1>2
    <3> QED BY <1>3, <3>1, PlaceBlockEffect DEF PlacingInv, LayoutTypes
  <2>2. Opened(a)' = Opened(a) /\ \A k \in Opened(a) : blk_nr'[a][k] = blk_nr[a][k]
    <3>1. Opened(a)' = Opened(a)
      BY <2>1 DEF Opened
    <3>2. \A k \in Opened(a) : k \in Ch
      BY OpenedRuns
    <3> QED BY <1>1, <1>3, <3>1, <3>2, PlaceBlockEffect
  <2>3. Sum(blk_nr'[a], Opened(a)) = Sum(blk_nr[a], Opened(a))
    BY <2>2, OpenedRuns, SumAgrees
  <2> QED BY <1>1, <1>3, <2>2, <2>3 DEF WholeInv
<1>4. \A k \in Opened(area) :
        blk_nr'[area][k] = IF k = idx THEN blk_nr[area][k] + 1 ELSE blk_nr[area][k]
  <2>1. \A k \in Opened(area) : k \in Ch /\ IsOpen(area, k)
    BY <1>2, OpenedRuns DEF PlacingInv, RunsOpen
  <2> QED BY <1>1, <1>2, <2>1, PlaceBlockEffect
<1>5. Sum(blk_nr'[area], Opened(area)) = i'
  <2>1. /\ IsFiniteSet(Opened(area)) /\ \A k \in Opened(area) : blk_nr[area][k] \in Int
        /\ blk_nr'[area][idx] = blk_nr[area][idx] + 1 /\ blk_nr[area][idx] \in Int
    BY <1>2, <1>4, OpenedRuns
  <2>2. Sum(blk_nr'[area], Opened(area))
          = Sum(blk_nr[area], Opened(area)) + blk_nr'[area][idx] - blk_nr[area][idx]
    BY <1>2, <1>4, <2>1, SumChanges
  <2>3. Sum(blk_nr[area], Opened(area)) = i
    BY <1>2 DEF WholeInv
  <2> QED BY <1>1, <1>2, <2>1, <2>2, <2>3
<1>6. \A k \in Opened(area) : blk_nr'[area][k] > 0
  <2>1. \A k \in Opened(area) : blk_nr[area][k] \in Nat
    BY <1>2, OpenedRuns
  <2> QED BY <1>2, <1>4, <2>1 DEF WholeInv
<1>7. /\ Sum(blk_nr'[area], Opened(area)') = i'
      /\ \A k \in Opened(area)' : blk_nr'[area][k] > 0 \/ (k = idx' /\ i' < area_blk_nr[area])
  <2>1. CASE Opened(area)' = Opened(area)
    BY <1>5, <1>6, <2>1
  <2>2. CASE Opened(area)' # Opened(area)
    <3>1. /\ idx' = (idx + 1) % nchs /\ MoreChannels(area)
          /\ ch_nr'[area] = ch_nr[area] + 1
      <4>1. ch_nr'[area] # ch_nr[area]
        BY <1>1, <2>2 DEF Opened
      <4> QED BY <1>1, <1>2, <4>1, PlaceBlockEffect DEF PlacingInv, LayoutTypes
    <3>2. ch_nr[area] \in Nat /\ ch_nr[area] < nchs /\ ch_nr[area] - 1 = idx /\ nchs \in Nat \ {0}
      BY <1>2, <3>1, OpenedRuns, Sizes DEF MoreChannels, PlacingInv, LayoutTypes
    <3>3. idx' = ch_nr[area]
      <4>1. (idx + 1) % nchs = idx + 1
        BY <1>2, <3>2 DEF Ch
      <4> QED BY <3>1, <3>2, <4>1
    <3>4. Opened(area)' = Opened(area) \cup {idx'} /\ idx' \notin Opened(area)
      <4> DEFINE m == ch_nr[area]
      <4>1. 0 .. m = (0 .. m - 1) \cup {m} /\ m \notin 0 .. m - 1
        BY <3>2
      <4>2. Opened(area)' = 0 .. m
        <5>1. ch_nr'[area'] - 1 = m
          BY <1>1, <3>1, <3>2
        <5> HIDE DEF m
        <5> QED BY <5>1 DEF Opened
      <4> QED BY <3>3, <4>1, <4>2 DEF Opened
    <3>5. idx' \in Ch /\ ~IsOpen(area, idx')
      <4>1. idx' \in Ch
        BY <3>2, <3>3 DEF Ch
      <4> QED BY <1>2, <3>2, <3>3, <4>1 DEF PlacingInv, RunsOpen
    <3>6. blk_nr'[area][idx'] = 0
      BY <1>1, <1>2, <3>5, PlaceBlockEffect DEF IsOpen
    <3>7. IsFiniteSet(Opened(area)) /\ \A k \in Opened(area) \cup {idx'} : blk_nr'[area][k] \in Int
      BY <1>2, <1>4, <3>6, OpenedRuns
    <3>8. Sum(blk_nr'[area], Opened(area) \cup {idx'})
            = Sum(blk_nr'[area], Opened(area)) + blk_nr'[area][idx']
      BY <3>4, <3>7, SumGrows
    <3>9. Sum(blk_nr'[area], Opened(area)') = i'
      BY <1>1, <1>2, <1>5, <3>4, <3>6, <3>8
    <3>10. i' < area_blk_nr[area]
      BY <1>1, <3>1 DEF MoreChannels
    <3> QED BY <1>6, <3>4, <3>9, <3>10
  <2> QED BY <2>1, <2>2
<1> QED BY <1>1, <1>3, <1>7 DEF WholeInv

LEMMA BeginAreaWhole ==
    ASSUME PlacingInv, WholeInv, BeginArea
    PROVE  WholeInv'
<1>1. /\ PlacingInv' /\ area \in Area /\ area \in Begun /\ area' = NextArea(area)
      /\ i = area_blk_nr[area] /\ area_blk_nr' = area_blk_nr
      /\ \A a \in Area : area_blk_nr[a] \in Nat \ {0}
  BY BeginAreaInv, Sizes DEF BeginArea, PlacingInv, LayoutTypes, area_blk_nr, Begun, Area
<1>2. \A a \in Begun : /\ Sum(blk_nr[a], Opened(a)) = area_blk_nr[a]
                       /\ \A k \in Opened(a) : blk_nr[a][k] > 0
  <2>1. ~(i < area_blk_nr[area])
    BY <1>1
  <2> QED BY <1>1, <2>1 DEF WholeInv
<1>3. CASE area' \notin Area
  <2>1. UNCHANGED <<i, idx, ch_nr, blk_nr>> /\ Begun' = Area /\ Begun = Area
    BY <1>1, <1>3 DEF BeginArea, NextArea, Area, Begun
  <2> QED BY <1>1, <1>2, <1>3, <2>1 DEF WholeInv, Opened
<1>4. CASE area' \in Area
  <2>1. PICK b \in Area : area' = b
    BY <1>4
  <2>2. /\ i' = 0 /\ idx' = 0 /\ b \notin Begun /\ Begun' = Begun \cup {b}
        /\ ch_nr' = [ch_nr EXCEPT ![b] = 1] /\ blk_nr' = [blk_nr EXCEPT ![b][0] = 0]
    BY <1>1, <1>4, <2>1 DEF BeginArea, NextArea, Area, Begun
  <2>3. /\ ch_nr \in [Area -> 0 .. nchs] /\ blk_nr \in [Area -> [Ch -> Nat \cup {Unset}]]
        /\ 0 \in Ch
    BY Sizes DEF PlacingInv, LayoutTypes
  <2>4. ASSUME NEW a \in Begun
        PROVE  /\ a # b
               /\ Sum(blk_nr'[a], Opened(a)') = area_blk_nr'[a]
               /\ \A k \in Opened(a)' : blk_nr'[a][k] > 0
    <3>1. a \in Area /\ a # b
      BY <2>2 DEF Begun, Area
    <3>2. ch_nr'[a] = ch_nr[a] /\ blk_nr'[a] = blk_nr[a]
      BY <2>2, <2>3, <3>1
    <3>3. Opened(a)' = Opened(a)
      BY <3>2 DEF Opened
    <3> QED BY <1>1, <1>2, <3>1, <3>2, <3>3
  <2>5. Opened(b)' = {0} /\ blk_nr'[b][0] = 0
    <3>1. ch_nr'[b] = 1 /\ blk_nr'[b][0] = 0
      BY <2>2, <2>3
    <3> QED BY <3>1 DEF Opened
  <2>6. Sum(blk_nr'[b], {0}) = 0
    BY <2>5, SumOfOne
  <2>7. ASSUME NEW a \in Begun'
        PROVE  /\ Sum(blk_nr'[a], Opened(a)') = IF a = area' THEN i' ELSE area_blk_nr'[a]
               /\ \A k \in Opened(a)' :
                    blk_nr'[a][k] > 0 \/ (a = area' /\ k = idx' /\ i' < area_blk_nr'[a])
    <3>1. CASE a = b
      <4>1. area_blk_nr'[b] > 0
        BY <1>1
      <4> QED BY <2>1, <2>2, <2>5, <2>6, <3>1, <4>1
    <3>2. CASE a # b
      BY <2>1, <2>2, <2>4, <3>2
    <3> QED BY <3>1, <3>2
  <2> QED BY <2>7 DEF WholeInv
<1> QED BY <1>3, <1>4

\* AreasAreWhole, said with Sum.
WholeAreas ==
    area = "over" =>
      \A a \in Area :
        /\ Sum(blk_nr[a], Opened(a)) = area_blk_nr[a]
        /\ \A k \in Opened(a) : blk_nr[a][k] > 0

LEMMA WholeAreasIs == AreasAreWhole <=> WholeAreas
BY DEF AreasAreWhole, WholeAreas, Sum, Over

LEMMA RenumberWhole ==
    ASSUME PlacingInv, WholeInv, Renumber
    PROVE  AreasAreWhole'
<1>1. Begun = Area /\ area \notin Area /\ UNCHANGED <<geo, ch_nr, blk_nr>>
  BY DEF Renumber, Begun, Area
<1>2. area_blk_nr' = area_blk_nr /\ \A a \in Area : Opened(a)' = Opened(a)
  BY <1>1 DEF area_blk_nr, Opened
<1>3. WholeAreas'
  BY <1>1, <1>2 DEF WholeInv, WholeAreas
<1> QED BY <1>3, WholeAreasIs, PTL

(***************************************************************************)
(* No channel gets more blocks than there are to hand out.                 *)
(***************************************************************************)
AllAreaBlks == area_blk_nr["fn"] + area_blk_nr["fm"] + area_blk_nr["ext"]

Placed ==
    CASE area = "fn"  -> i
      [] area = "fm"  -> area_blk_nr["fn"] + i
      [] area = "ext" -> area_blk_nr["fn"] + area_blk_nr["fm"] + i
      [] OTHER        -> AllAreaBlks

FitInv == \A c \in Ch : blk_idx[c] <= FirstIdx + Placed

LEMMA PlacedType ==
    ASSUME PlacingInv
    PROVE  /\ Placed \in Nat /\ AllAreaBlks \in Nat /\ FirstIdx \in Nat \ {0}
           /\ \A c \in Ch : blk_idx[c] \in Nat \ {0}
<1>1. /\ \A a \in Area : area_blk_nr[a] \in Nat \ {0}
      /\ i \in Nat /\ FirstIdx \in Nat \ {0} /\ blk_idx \in [Ch -> Nat \ {0}]
  BY Sizes DEF PlacingInv, LayoutTypes
<1> QED BY <1>1 DEF Placed, AllAreaBlks, Area

LEMMA InitFits == Init => FitInv
<1> SUFFICES ASSUME Init, NEW c \in Ch PROVE blk_idx[c] <= FirstIdx + Placed
  BY DEF FitInv
<1>1. PlacingInv
  BY LayoutInitInv
<1>2. blk_idx[c] = IF c = 0 THEN FirstIdx ELSE 1
  BY DEF Init
<1> QED BY <1>1, <1>2, PlacedType

LEMMA PlaceBlockFits ==
    ASSUME PlacingInv, FitInv, PlaceBlock
    PROVE  FitInv'
<1>1. /\ area \in Area /\ UNCHANGED <<geo, area>> /\ i' = i + 1 /\ Ch' = Ch
      /\ FirstIdx' = FirstIdx /\ area_blk_nr' = area_blk_nr
      /\ blk_idx' = [blk_idx EXCEPT ![ch] = @ + 1]
  BY DEF PlaceBlock, Ch, nchs, FirstIdx, nat_blk_nr, area_blk_nr
<1>2. /\ \A a \in Area : area_blk_nr[a] \in Nat \ {0}
      /\ i \in Nat /\ FirstIdx \in Nat \ {0} /\ blk_idx \in [Ch -> Nat \ {0}]
  BY Sizes DEF PlacingInv, LayoutTypes
<1>3. Placed' = Placed + 1
  BY <1>1, <1>2 DEF Placed, Area
<1>4. \A c \in Ch : blk_idx'[c] <= blk_idx[c] + 1
  BY <1>1, <1>2
<1>5. \A c \in Ch : blk_idx'[c] \in Nat
  BY <1>1, <1>2, PlacedType
<1>6. ASSUME NEW c \in Ch PROVE blk_idx'[c] <= FirstIdx + Placed + 1
  BY <1>4, <1>5, PlacedType DEF FitInv
<1> QED BY <1>1, <1>3, <1>6, PlacedType DEF FitInv

LEMMA BeginAreaFits ==
    ASSUME PlacingInv, FitInv, BeginArea
    PROVE  FitInv'
<1>1. /\ area \in Area /\ UNCHANGED <<geo, blk_idx>> /\ Ch' = Ch
      /\ FirstIdx' = FirstIdx /\ area_blk_nr' = area_blk_nr
      /\ i = area_blk_nr[area] /\ area' = NextArea(area)
      /\ area' \in Area => i' = 0
  BY DEF BeginArea, Ch, nchs, FirstIdx, nat_blk_nr, area_blk_nr
<1>2. \A a \in Area : area_blk_nr[a] \in Nat \ {0}
  BY Sizes DEF PlacingInv, LayoutTypes
<1>3. Placed' = Placed
  BY <1>1, <1>2 DEF Placed, AllAreaBlks, Area, NextArea
<1> QED BY <1>1, <1>3 DEF FitInv

LEMMA RenumberFits ==
    ASSUME PlacingInv, FitInv, Renumber
    PROVE  (FirstIdx - 1 + AllAreaBlks <= channel_blks(geo) => AreasFit)'
<1>1. /\ UNCHANGED geo /\ Ch' = Ch /\ blk_idx' = [c \in Ch |-> blk_idx[c] - 1]
      /\ FirstIdx' = FirstIdx /\ AllAreaBlks' = AllAreaBlks /\ Placed = AllAreaBlks
  BY DEF Renumber, Ch, nchs, FirstIdx, nat_blk_nr, AllAreaBlks, area_blk_nr, Placed
<1>2. geo \in Geometry /\ channel_blks(geo) \in Nat
  BY ChannelBlksType DEF PlacingInv, LayoutTypes
<1> SUFFICES ASSUME FirstIdx - 1 + AllAreaBlks <= channel_blks(geo), NEW c \in Ch
             PROVE  blk_idx[c] - 1 <= channel_blks(geo)
  BY <1>1 DEF AreasFit
<1> QED BY <1>1, <1>2, PlacedType DEF FitInv

LInv ==
    /\ geo \in Geometry
    /\ area # "over" => PlacingInv /\ WholeInv /\ FitInv
    /\ area = "over" =>
         /\ AreasTile /\ AreasAreWhole
         /\ FirstIdx - 1 + AllAreaBlks <= channel_blks(geo) => AreasFit
         /\ st_blk_idx["fn"][0] = FirstIdx - 1

LEMMA LayoutStep == LInv /\ [Next]_vars => LInv'
<1> SUFFICES ASSUME LInv, [Next]_vars PROVE LInv'
  OBVIOUS
<1>1. CASE PlaceBlock
  <2>1. PlacingInv /\ WholeInv /\ FitInv /\ area # "over"
    BY <1>1 DEF LInv, PlaceBlock, Area
  <2>2. PlacingInv' /\ WholeInv' /\ FitInv' /\ area' = area
    BY <1>1, <2>1, PlaceBlockInv, PlaceBlockWhole, PlaceBlockFits DEF PlaceBlock
  <2> QED BY <2>1, <2>2 DEF LInv, PlacingInv, LayoutTypes
<1>2. CASE BeginArea
  <2>1. PlacingInv /\ WholeInv /\ FitInv /\ area' # "over"
    BY <1>2 DEF LInv, BeginArea, Area, NextArea
  <2>2. PlacingInv' /\ WholeInv' /\ FitInv'
    BY <1>2, <2>1, BeginAreaInv, BeginAreaWhole, BeginAreaFits
  <2> QED BY <2>1, <2>2 DEF LInv, PlacingInv, LayoutTypes
<1>3. CASE Renumber
  <2>1. PlacingInv /\ WholeInv /\ FitInv /\ area' = "over" /\ UNCHANGED geo
    BY <1>3 DEF LInv, Renumber
  <2>2. FirstIdx' = FirstIdx
    BY <2>1 DEF FirstIdx, nat_blk_nr
  <2>3. /\ AreasTile' /\ AreasAreWhole'
        /\ (FirstIdx - 1 + AllAreaBlks <= channel_blks(geo) => AreasFit)'
        /\ st_blk_idx'["fn"][0] = FirstIdx - 1
    BY <1>3, <2>1, RenumberTiles, RenumberWhole, RenumberFits
  <2> QED BY <2>1, <2>2, <2>3 DEF LInv
<1>4. CASE UNCHANGED vars
  <2>1. PlacingInv' = PlacingInv
    BY <1>4 DEF vars, PlacingInv, LayoutTypes, RunsOpen, Begun, Current, Tiled, Disjoint,
                BehindReserved, Place, In, IsOpen, FirstIdx, nat_blk_nr, area_blk_nr, Ch, nchs
  <2>2. WholeInv' = WholeInv /\ FitInv' = FitInv
    BY <1>4 DEF vars, WholeInv, FitInv, Begun, Opened, Placed, AllAreaBlks, FirstIdx,
                nat_blk_nr, area_blk_nr, Ch, nchs
  <2>3. AreasTile' = AreasTile
    BY <1>4 DEF vars, AreasTile, Over, Blocks, Run, Opened, Reserved, nat_blk_nr, Ch, nchs
  <2>4. AreasAreWhole => AreasAreWhole'
    <3>1. WholeAreas => WholeAreas'
      BY <1>4 DEF vars, WholeAreas, Opened, area_blk_nr
    <3> QED BY <3>1, WholeAreasIs, PTL
  <2>6. AreasFit' = AreasFit
    BY <1>4 DEF vars, AreasFit, Over, Ch, nchs
  <2>5. /\ UNCHANGED <<geo, area, st_blk_idx>>
        /\ FirstIdx' = FirstIdx /\ AllAreaBlks' = AllAreaBlks
    BY <1>4 DEF vars, FirstIdx, nat_blk_nr, AllAreaBlks, area_blk_nr
  <2> QED BY <2>1, <2>2, <2>3, <2>4, <2>5, <2>6 DEF LInv
<1> QED BY <1>1, <1>2, <1>3, <1>4 DEF Next

LEMMA LayoutInit == Init => LInv
BY LayoutInitInv, InitWhole, InitFits DEF LInv, Init, Area

LEMMA SbLayoutStep == [SbNext]_sbvars => [Next]_vars
BY DEF SbNext, sbvars, ComputeLayout, Construct, ReadNats, Use, Destruct, Command, Crash

\* Formatting hands out every block of every channel below the first extent to
\* one owner, the super block, a NAT or an area, and every area gets all its
\* blocks, in runs of which none is empty (gen_ocssd_geo).
THEOREM LayoutTheorem == SbSpec => [](AreasTile /\ AreasAreWhole)
<1>1. SbInit => LInv
  BY LayoutInit DEF SbInit
<1>2. LInv /\ [SbNext]_sbvars => LInv'
  BY LayoutStep, SbLayoutStep
<1>3. LInv => AreasTile /\ AreasAreWhole
  BY DEF LInv, AreasTile, AreasAreWhole, Over
<1> QED BY <1>1, <1>2, <1>3, PTL DEF SbSpec

\* On a device whose channels could each hold the super block, the NATs and the
\* areas, the blocks handed out are also there (gen_ocssd_geo).
THEOREM LayoutFitsTheorem ==
    SbSpec => [](FirstIdx - 1 + AllAreaBlks <= channel_blks(geo) => LayoutIsSound)
<1>1. SbInit => LInv
  BY LayoutInit DEF SbInit
<1>2. LInv /\ [SbNext]_sbvars => LInv'
  BY LayoutStep, SbLayoutStep
<1>3. LInv => (FirstIdx - 1 + AllAreaBlks <= channel_blks(geo) => LayoutIsSound)
  BY DEF LInv, LayoutIsSound, AreasTile, AreasAreWhole, AreasFit, Over
<1> QED BY <1>1, <1>2, <1>3, PTL DEF SbSpec

(***************************************************************************)
(* Room for the NATs.                                                      *)
(***************************************************************************)
RoomInv ==
    /\ SInv /\ LInv
    /\ phase # "closed" => area = "over"

LEMMA RoomStep == RoomInv /\ [SbNext]_sbvars => RoomInv'
<1> SUFFICES ASSUME RoomInv, [SbNext]_sbvars PROVE RoomInv'
  OBVIOUS
<1>1. SInv' /\ LInv'
  BY SbStep, LayoutStep, SbLayoutStep DEF RoomInv
<1>2. ASSUME Next, UNCHANGED phase PROVE phase' # "closed" => area' = "over"
  BY <1>2 DEF RoomInv, Next, PlaceBlock, BeginArea, Renumber, Area
<1>3. ASSUME UNCHANGED area, phase' # "closed" => phase # "closed" \/ area = "over"
      PROVE  phase' # "closed" => area' = "over"
  BY <1>3 DEF RoomInv
<1>4. phase' # "closed" => area' = "over"
  BY <1>2, <1>3 DEF SbNext, sbvars, vars, svars, ComputeLayout, Construct, ReadNats, Use,
                    Destruct, Command, Crash, Gone
<1> QED BY <1>1, <1>4 DEF RoomInv

LEMMA DivMonotone ==
    ASSUME NEW x \in Nat, NEW y \in Nat, NEW d \in Nat \ {0}, x <= y
    PROVE  x \div d <= y \div d
OBVIOUS

\* The entries of the NAT of the file names are the most there are.
LEMMA FnNatIsLargest ==
    ASSUME NEW g \in Geometry, NEW a \in Area, file_max_nr(g) <= LVL_obj_nr("fn")[3]
    PROVE  nat_blks(g, a) <= nat_blks(g, "fn")
<1>1. nat_entry_nr(g, a) \in Nat /\ nat_entry_nr(g, "fn") \in Nat
  BY NatBlksHoldTheNat DEF Area
<1>2. nat_entry_nr(g, a) <= nat_entry_nr(g, "fn")
  BY DEF nat_entry_nr, LVL_obj_nr, btree_degree, Area
<1> DEFINE x == nat_entry_nr(g, a) * nat_entry_nbytes
           y == nat_entry_nr(g, "fn") * nat_entry_nbytes
<1>3. x \in Nat /\ y \in Nat /\ x <= y
  BY <1>1, <1>2 DEF nat_entry_nbytes
<1> HIDE DEF x, y
<1>4. x \div block_nbytes(g) <= y \div block_nbytes(g)
  BY <1>3, GeometryIsPositive, DivMonotone
<1>5. x \div block_nbytes(g) \in Nat /\ y \div block_nbytes(g) \in Nat
  BY <1>3, GeometryIsPositive, DivBounds
<1> QED BY <1>4, <1>5 DEF nat_blks, x, y

\* On every device with at most as many files as the file name NAT has
\* entries, the three NATs fit their blocks and the address arrays that are
\* sized by the file name NAT (flush_nat).
THEOREM NatsHaveRoomTheorem ==
    SbSpec => [](file_max_nr(geo) <= LVL_obj_nr("fn")[3] => NatsHaveRoom)
<1>1. SbInit => RoomInv
  BY SbInitInv, LayoutInit DEF RoomInv, SbInit
<1>2. RoomInv => (file_max_nr(geo) <= LVL_obj_nr("fn")[3] => NatsHaveRoom)
  <2> SUFFICES ASSUME RoomInv, file_max_nr(geo) <= LVL_obj_nr("fn")[3],
                      phase \in {"up", "closing"}, NEW a \in Area
               PROVE  /\ nat_vblk[a] > 0
                      /\ nat_entry_nr(geo, a) * nat_entry_nbytes
                           <= (NatEnds[a] - nat_vblk[a]) * block_nbytes(geo)
                      /\ NatEnds[a] - nat_vblk[a] <= NatEnds["fn"] - nat_vblk["fn"]
    BY DEF NatsHaveRoom
  <2>1. /\ geo \in Geometry /\ nat_vblk = NatStarts
        /\ st_blk_idx["fn"][0] = FirstIdx - 1
    BY DEF RoomInv, SInv, LInv
  <2>2. /\ \A b \in Area : nat_blk_nr[b] = nat_blks(geo, b) /\ nat_blk_nr[b] \in Nat \ {0}
        /\ \A b \in Area : nat_vblk[b] \in Nat \ {0}
    BY <2>1, Starts DEF nat_blk_nr
  <2>3. \A b \in Area : NatEnds[b] - nat_vblk[b] = nat_blk_nr[b]
    BY <2>1, <2>2, Starts DEF NatEnds, FirstIdx, Area
  <2>4. nat_blks(geo, a) <= nat_blks(geo, "fn")
    BY <2>1, FnNatIsLargest
  <2>5. nat_entry_nr(geo, a) * nat_entry_nbytes <= nat_blks(geo, a) * block_nbytes(geo)
    BY <2>1, NatBlksHoldTheNat
  <2>6. "fn" \in Area
    BY DEF Area
  <2> QED BY <2>2, <2>3, <2>4, <2>5, <2>6
<1> QED BY <1>1, <1>2, RoomStep, PTL DEF SbSpec

(***************************************************************************)
(* What formatting leaves for the areas.                                   *)
(***************************************************************************)

\* What an area's constructor makes of the layout, once there is one.
OverTypes ==
    area = "over" =>
      /\ st_ch \in [Area -> Ch] /\ nchs \in Nat \ {0}
      /\ \A a \in Area :
           /\ ch_nr[a] \in Nat /\ 0 \in Opened(a)
           /\ \A k \in Opened(a) : k \in Nat /\ blk_nr[a][k] \in Nat \ {0}

LEMMA OverTypesStep ==
    ASSUME LInv, LInv', OverTypes, [Next]_vars
    PROVE  OverTypes'
<1> SUFFICES ASSUME area' = "over"
             PROVE  /\ st_ch' \in [Area -> Ch'] /\ nchs' \in Nat \ {0}
                    /\ \A a \in Area :
                         /\ ch_nr'[a] \in Nat /\ 0 \in Opened(a)'
                         /\ \A k \in Opened(a)' : k \in Nat /\ blk_nr'[a][k] \in Nat \ {0}
  BY DEF OverTypes
<1>1. CASE UNCHANGED vars
  BY <1>1 DEF vars, OverTypes, Opened, Ch, nchs
<1>2. CASE Renumber
  <2>1. PlacingInv /\ UNCHANGED <<geo, st_ch, ch_nr, blk_nr>> /\ Begun = Area
    BY <1>2 DEF LInv, Renumber, Begun, Area
  <2>2. st_ch \in [Area -> Ch] /\ nchs \in Nat \ {0} /\ nchs' = nchs /\ Ch' = Ch
    BY <2>1, Sizes DEF PlacingInv, LayoutTypes, nchs, Ch
  <2>3. \A a \in Area : \A k \in Opened(a) : k \in Nat /\ blk_nr[a][k] \in Nat
    BY <2>1, OpenedRuns DEF Opened
  <2>4. \A a \in Area : \A k \in Opened(a)' : blk_nr'[a][k] > 0
    BY <1>2 DEF LInv, AreasAreWhole, Over, Renumber
  <2>5. \A a \in Area : 0 \in Opened(a)
    <3> SUFFICES ASSUME NEW a \in Area PROVE 0 \in Opened(a)
      OBVIOUS
    <3>1. ch_nr[a] \in Nat
      BY <2>1, OpenedRuns
    <3>2. ch_nr[a] >= 1
      BY <2>1, <2>2, Sizes DEF PlacingInv, RunsOpen, LayoutTypes
    <3> QED BY <3>1, <3>2 DEF Opened
  <2>6. \A a \in Area : Opened(a)' = Opened(a) /\ ch_nr'[a] \in Nat
    BY <2>1, OpenedRuns DEF Opened
  <2> QED BY <2>1, <2>2, <2>3, <2>4, <2>5, <2>6
<1>3. area' # "over" \/ Renumber \/ UNCHANGED vars
  BY DEF Next, PlaceBlock, BeginArea, NextArea, Area, LInv
<1> QED BY <1>1, <1>2, <1>3

RunsBefore == \A a \in Area : \A k : RunBefore(a, k) = Sum(blk_nr[a], 0 .. k - 1)

LEMMA RunsBeforeAre == RunsBefore
BY DEF RunsBefore, RunBefore, Sum

LEMMA ConcatThree ==
    ASSUME NEW a, NEW b, NEW c, NEW d, NEW e, NEW f, NEW g, NEW h
    PROVE  (<< a, b >> \o << c, d, e >>) \o << f, g, h >> = << a, b, c, d, e, f, g, h >>
<1> DEFINE S == {a, b, c, d, e, f, g, h}
           p == << a, b >>
           q == << c, d, e >>
           t == << f, g, h >>
           w == << a, b, c, d, e, f, g, h >>
<1>1. /\ p \in Seq(S) /\ Len(p) = 2 /\ p[1] = a /\ p[2] = b
      /\ q \in Seq(S) /\ Len(q) = 3 /\ q[1] = c /\ q[2] = d /\ q[3] = e
      /\ t \in Seq(S) /\ Len(t) = 3 /\ t[1] = f /\ t[2] = g /\ t[3] = h
  OBVIOUS
<1>2. /\ w \in Seq(S) /\ Len(w) = 8
      /\ w[1] = a /\ w[2] = b /\ w[3] = c /\ w[4] = d
      /\ w[5] = e /\ w[6] = f /\ w[7] = g /\ w[8] = h
  OBVIOUS
<1> HIDE DEF S, p, q, t, w
<1>3. /\ p \o q \in Seq(S) /\ Len(p \o q) = 5
      /\ \A n \in 1 .. 5 : (p \o q)[n] = IF n <= 2 THEN p[n] ELSE q[n - 2]
  <2>1. /\ p \o q \in Seq(S) /\ Len(p \o q) = Len(p) + Len(q)
        /\ \A n \in 1 .. Len(p) + Len(q) : (p \o q)[n] = IF n <= Len(p) THEN p[n] ELSE q[n - Len(p)]
    <3>1. p \in Seq(S) /\ q \in Seq(S)
      BY <1>1
    <3> QED BY <3>1, ConcatProperties
  <2> QED BY <1>1, <2>1
<1> DEFINE u == p \o q
           v == u \o t
<1>4. /\ u \in Seq(S) /\ Len(u) = 5
      /\ u[1] = a /\ u[2] = b /\ u[3] = c /\ u[4] = d /\ u[5] = e
  BY <1>1, <1>3
<1> HIDE DEF u
<1>5. /\ v \in Seq(S) /\ Len(v) = 8
      /\ \A n \in 1 .. 8 : v[n] = IF n <= 5 THEN u[n] ELSE t[n - 5]
  <2>1. /\ u \o t \in Seq(S) /\ Len(u \o t) = Len(u) + Len(t)
        /\ \A n \in 1 .. Len(u) + Len(t) : (u \o t)[n] = IF n <= Len(u) THEN u[n] ELSE t[n - Len(u)]
    <3>1. u \in Seq(S) /\ t \in Seq(S)
      BY <1>1, <1>4
    <3> QED BY <3>1, ConcatProperties
  <2>2. PICK x : x = u \o t
    OBVIOUS
  <2>3. Len(u) = 5 /\ Len(t) = 3
    BY <1>1, <1>4
  <2>4. /\ x \in Seq(S) /\ Len(x) = 5 + 3
        /\ \A n \in 1 .. 5 + 3 : x[n] = IF n <= 5 THEN u[n] ELSE t[n - 5]
    BY <2>1, <2>2, <2>3
  <2>5. /\ x \in Seq(S) /\ Len(x) = 8
        /\ \A n \in 1 .. 8 : x[n] = IF n <= 5 THEN u[n] ELSE t[n - 5]
    BY <2>4
  <2> QED BY <2>2, <2>5 DEF v
<1> HIDE DEF v
<1>6. \A n \in 1 .. 8 : v[n] = w[n]
  BY <1>1, <1>2, <1>4, <1>5
<1>7. v = w
  BY <1>2, <1>5, <1>6, SeqEqual
<1> QED BY <1>7 DEF p, q, t, u, v, w

LEMMA FormatSsdIs ==
    format_ssd = << EraseAll, WriteSb, WriteNat("fn"), WriteNat("fm"), WriteNat("ext"),
                    WriteBitmap("fn"), WriteBitmap("fm"), WriteBitmap("ext") >>
<1>1. /\ ForEach(WriteNat) = << WriteNat("fn"), WriteNat("fm"), WriteNat("ext") >>
      /\ ForEach(WriteBitmap) = << WriteBitmap("fn"), WriteBitmap("fm"), WriteBitmap("ext") >>
  BY DEF ForEach, AllAreas
<1>2. flush_nat(FALSE) = ForEach(WriteNat)
  BY <1>1 DEF flush_nat
<1> DEFINE a == EraseAll  b == WriteSb  c == WriteNat("fn")  d == WriteNat("fm")
           e == WriteNat("ext")  f == WriteBitmap("fn")  g == WriteBitmap("fm")
           h == WriteBitmap("ext")
<1>3. format_ssd = (<< a, b >> \o << c, d, e >>) \o << f, g, h >>
  BY <1>1, <1>2 DEF format_ssd
<1> HIDE DEF a, b, c, d, e, f, g, h
<1>4. format_ssd = << a, b, c, d, e, f, g, h >>
  BY <1>3, ConcatThree
<1> QED BY <1>4 DEF a, b, c, d, e, f, g, h

\* Each area's bitmap is written to blocks of the area.
LEMMA BitmapInBlocks ==
    ASSUME NEW a \in Area
    PROVE  BitmapWritten(a) \subseteq Blocks(a)
BY DEF BitmapWritten, BitmapPlaces, Blocks, Run

SbThere == sb_addr \in DOMAIN flash /\ flash[sb_addr] = SbMeta

Blank(a) == \A b \in BitmapWritten(a) : b \in DOMAIN flash /\ flash[b] = Zeros

\* Nothing has been written but to the reserved blocks and the bitmaps of A.
OnlyBitmaps(A) == DOMAIN flash \subseteq Reserved \cup UNION {BitmapWritten(a) : a \in A}

\* How far formatting has come.
FormatProgress ==
    \/ todo = format_ssd
    \/ /\ todo = << WriteSb, WriteNat("fn"), WriteNat("fm"), WriteNat("ext"),
                    WriteBitmap("fn"), WriteBitmap("fm"), WriteBitmap("ext") >>
       /\ DOMAIN flash = {}
    \/ /\ todo \in { << WriteNat("fn"), WriteNat("fm"), WriteNat("ext"),
                        WriteBitmap("fn"), WriteBitmap("fm"), WriteBitmap("ext") >>,
                     << WriteNat("fm"), WriteNat("ext"),
                        WriteBitmap("fn"), WriteBitmap("fm"), WriteBitmap("ext") >>,
                     << WriteNat("ext"),
                        WriteBitmap("fn"), WriteBitmap("fm"), WriteBitmap("ext") >>,
                     << WriteBitmap("fn"), WriteBitmap("fm"), WriteBitmap("ext") >> }
       /\ SbThere /\ OnlyBitmaps({})
    \/ /\ todo = << WriteBitmap("fm"), WriteBitmap("ext") >>
       /\ SbThere /\ OnlyBitmaps({"fn"}) /\ Blank("fn")
    \/ /\ todo = << WriteBitmap("ext") >>
       /\ SbThere /\ OnlyBitmaps({"fn", "fm"}) /\ Blank("fn") /\ Blank("fm")
    \/ /\ todo = <<>>
       /\ SbThere /\ \A a \in Area : Blank(a)

BlankInv ==
    /\ RoomInv /\ OverTypes
    /\ phase = "closed" => need_format = 0
    /\ need_format = 1 =>
         /\ phase = "opening" => FormatProgress
         /\ phase = "up" => SbThere /\ \A a \in Area : Blank(a)

LEMMA BitmapBlks ==
    ASSUME NEW g \in Geometry, NEW a \in Area, bitmap_nr(g, a) <= block_nbytes(g)
    PROVE  bitmap_blk_nr(g, a) \in 1 .. 2
<1>1. bitmap_nr(g, a) \in Nat /\ block_nbytes(g) \in Nat \ {0}
  BY AreaBlks, GeometryIsPositive
<1> DEFINE x == bitmap_nr(g, a)
           y == block_nbytes(g)
<1>2. x \div y \in 0 .. 1
  <2> HIDE DEF x, y
  <2>1. x \in Nat /\ y \in Nat \ {0} /\ x <= y
    BY <1>1 DEF x, y
  <2>2. x \div y \in Nat /\ (x \div y) * y <= x
    BY <2>1
  <2>3. ASSUME x \div y >= 2 PROVE FALSE
    <3>1. (x \div y) * y >= 2 * y
      BY <2>1, <2>2, <2>3
    <3> QED BY <2>1, <2>2, <3>1
  <2> QED BY <2>2, <2>3
<1> QED BY <1>2 DEF bitmap_blk_nr

LEMMA ReservedHasSb ==
    ASSUME geo \in Geometry
    PROVE  /\ sb_addr \in Reserved
           /\ \A a \in Area : \A k \in 1 .. nat_blk_nr[a] :
                NatBlk(1, k) \in Reserved /\ NatBlk(1, k) # sb_addr
<1>1. \A a \in Area : nat_blk_nr[a] \in Nat \ {0}
  BY Starts
<1> QED BY <1>1 DEF Reserved, sb_addr, NatBlk, Area

\* Writing a NAT for the first time leaves super block and bitmaps.
LEMMA FirstNat ==
    ASSUME geo \in Geometry, UNCHANGED geo, nat_vblk \in [Area -> {0, 1}],
           NEW a \in Area, Do(WriteNat(a)), SbThere, OnlyBitmaps({})
    PROVE  SbThere' /\ OnlyBitmaps({})'
<1> DEFINE image == Image(a, 1)
<1>1. Allocated(a) = 1
  BY DEF Allocated
<1>2. Program(image)
  BY <1>1 DEF Do, WriteNat
<1>3. DOMAIN image = {NatBlk(1, k) : k \in 1 .. nat_blk_nr[a]}
  BY DEF Image
<1> HIDE DEF image
<1>4. DOMAIN image \subseteq Reserved /\ sb_addr \notin DOMAIN image
  BY <1>3, ReservedHasSb
<1>5. Reserved' = Reserved
  BY DEF Reserved, nat_blk_nr
<1> QED BY <1>2, <1>4, <1>5 DEF Program, SbThere, OnlyBitmaps

\* The blocks of the bitmaps belong to nobody else.
Apart(a, A) ==
    /\ BitmapWritten(a) \cap Reserved = {}
    /\ \A b \in A : BitmapWritten(a) \cap BitmapWritten(b) = {}

LEMMA BitmapsApart ==
    ASSUME AreasTile, area = "over", NEW a \in Area, NEW A \in SUBSET (Area \ {a})
    PROVE  Apart(a, A)
<1>1. \A b \in Area : BitmapWritten(b) \subseteq Blocks(b)
  BY BitmapInBlocks
<1> QED BY <1>1 DEF AreasTile, Over, Apart

LEMMA BitmapsStay ==
    ASSUME UNCHANGED vars
    PROVE  /\ \A a \in Area : BitmapWritten(a)' = BitmapWritten(a)
           /\ Reserved' = Reserved
<1>1. \A a \in Area : \A k : RunBefore(a, k)' = RunBefore(a, k)
  <2>1. RunsBefore'
    BY RunsBeforeAre, PTL
  <2> QED BY <2>1, RunsBeforeAre DEF RunsBefore, vars
<1>2. \A a \in Area : BitmapPlaces(a)' = BitmapPlaces(a)
  BY <1>1 DEF vars, BitmapPlaces, Opened
<1> QED BY <1>2 DEF vars, BitmapWritten, nchs, Reserved, nat_blk_nr

\* Writing a bitmap where nothing is makes it blank.
LEMMA WriteBitmapBlanks ==
    ASSUME UNCHANGED vars, NEW a \in Area, NEW A \in SUBSET (Area \ {a}), Apart(a, A),
           geo \in Geometry, Do(WriteBitmap(a)), SbThere, OnlyBitmaps(A), \A b \in A : Blank(b)
    PROVE  SbThere' /\ OnlyBitmaps(A \cup {a})' /\ \A b \in A \cup {a} : Blank(b)'
<1> DEFINE B == BitmapWritten(a)
<1>1. Program(All(B, Zeros))
  BY DEF Do, WriteBitmap
<1>2. /\ \A b \in Area : BitmapWritten(b)' = BitmapWritten(b)
      /\ Reserved' = Reserved
  BY BitmapsStay
<1>3. B \cap DOMAIN flash = {} /\ sb_addr \notin B
  BY ReservedHasSb DEF OnlyBitmaps, Apart
<1> HIDE DEF B
<1>4. /\ DOMAIN flash' = DOMAIN flash \cup B
      /\ \A b \in B : flash'[b] = Zeros
      /\ \A b \in DOMAIN flash : flash'[b] = flash[b]
  BY <1>1, <1>3 DEF Program, All
<1>5. SbThere'
  BY <1>4 DEF SbThere
<1>6. OnlyBitmaps(A \cup {a})'
  BY <1>2, <1>4 DEF OnlyBitmaps, B
<1>7. \A b \in A \cup {a} : Blank(b)'
  BY <1>2, <1>4 DEF Blank, B
<1> QED BY <1>5, <1>6, <1>7

\* One more command of formatting.
LEMMA FormatCommand ==
    ASSUME BlankInv, need_format = 1, phase = "opening", Command
    PROVE  FormatProgress'
<1>1. /\ todo # <<>> /\ Do(Head(todo)) /\ todo' = Tail(todo) /\ UNCHANGED vars
      /\ FormatProgress /\ UNCHANGED geo
  BY DEF Command, BlankInv, vars
<1>2. /\ geo \in Geometry /\ nat_vblk \in [Area -> {0, 1}] /\ area = "over" /\ AreasTile
  BY DEF BlankInv, RoomInv, SInv, FormatOK, LInv
<1>3. CASE todo = format_ssd
  <2>1. /\ Head(todo) = EraseAll
        /\ todo' = << WriteSb, WriteNat("fn"), WriteNat("fm"), WriteNat("ext"),
                      WriteBitmap("fn"), WriteBitmap("fm"), WriteBitmap("ext") >>
    BY <1>1, <1>3, FormatSsdIs
  <2>2. Do(EraseAll)
    BY <1>1, <2>1
  <2>3. flash' = <<>>
    BY <2>2 DEF Do, EraseAll
  <2>4. DOMAIN flash' = {}
    BY <2>3
  <2> QED BY <2>1, <2>4 DEF FormatProgress
<1>4. CASE /\ todo = << WriteSb, WriteNat("fn"), WriteNat("fm"), WriteNat("ext"),
                        WriteBitmap("fn"), WriteBitmap("fm"), WriteBitmap("ext") >>
           /\ DOMAIN flash = {}
  <2>1. /\ Head(todo) = WriteSb
        /\ todo' = << WriteNat("fn"), WriteNat("fm"), WriteNat("ext"),
                      WriteBitmap("fn"), WriteBitmap("fm"), WriteBitmap("ext") >>
    BY <1>1, <1>4
  <2>6. Do(WriteSb)
    BY <1>1, <2>1
  <2>2. Program(All({sb_addr}, SbMeta))
    BY <2>6 DEF Do, WriteSb
  <2>3. DOMAIN flash' = {sb_addr} /\ flash'[sb_addr] = SbMeta
    BY <1>4, <2>2 DEF Program, All
  <2>4. Reserved' = Reserved /\ sb_addr \in Reserved
    BY <1>1, <1>2, BitmapsStay, ReservedHasSb
  <2>5. SbThere' /\ OnlyBitmaps({})'
    BY <2>3, <2>4 DEF SbThere, OnlyBitmaps
  <2> QED BY <2>1, <2>5 DEF FormatProgress
<1>5. ASSUME NEW a \in Area, SbThere, OnlyBitmaps({}), Head(todo) = WriteNat(a)
      PROVE  SbThere' /\ OnlyBitmaps({})'
  BY <1>1, <1>2, <1>5, FirstNat
<1>6. CASE /\ todo = << WriteNat("fn"), WriteNat("fm"), WriteNat("ext"),
                        WriteBitmap("fn"), WriteBitmap("fm"), WriteBitmap("ext") >>
           /\ SbThere /\ OnlyBitmaps({})
  <2>1. /\ Head(todo) = WriteNat("fn") /\ "fn" \in Area
        /\ todo' = << WriteNat("fm"), WriteNat("ext"),
                      WriteBitmap("fn"), WriteBitmap("fm"), WriteBitmap("ext") >>
    BY <1>1, <1>6 DEF Area
  <2>2. SbThere' /\ OnlyBitmaps({})'
    BY <1>5, <1>6, <2>1
  <2> QED BY <2>1, <2>2 DEF FormatProgress
<1>7. CASE /\ todo = << WriteNat("fm"), WriteNat("ext"),
                        WriteBitmap("fn"), WriteBitmap("fm"), WriteBitmap("ext") >>
           /\ SbThere /\ OnlyBitmaps({})
  <2>1. /\ Head(todo) = WriteNat("fm") /\ "fm" \in Area
        /\ todo' = << WriteNat("ext"),
                      WriteBitmap("fn"), WriteBitmap("fm"), WriteBitmap("ext") >>
    BY <1>1, <1>7 DEF Area
  <2>2. SbThere' /\ OnlyBitmaps({})'
    BY <1>5, <1>7, <2>1
  <2> QED BY <2>1, <2>2 DEF FormatProgress
<1>8. CASE /\ todo = << WriteNat("ext"),
                        WriteBitmap("fn"), WriteBitmap("fm"), WriteBitmap("ext") >>
           /\ SbThere /\ OnlyBitmaps({})
  <2>1. /\ Head(todo) = WriteNat("ext") /\ "ext" \in Area
        /\ todo' = << WriteBitmap("fn"), WriteBitmap("fm"), WriteBitmap("ext") >>
    BY <1>1, <1>8 DEF Area
  <2>2. SbThere' /\ OnlyBitmaps({})'
    BY <1>5, <1>8, <2>1
  <2> QED BY <2>1, <2>2 DEF FormatProgress
<1>9. ASSUME NEW a \in Area, NEW A \in SUBSET (Area \ {a}), Head(todo) = WriteBitmap(a),
             SbThere, OnlyBitmaps(A), \A b \in A : Blank(b)
      PROVE  SbThere' /\ OnlyBitmaps(A \cup {a})' /\ \A b \in A \cup {a} : Blank(b)'
  <2>1. Apart(a, A)
    BY <1>2, BitmapsApart
  <2>2. Do(WriteBitmap(a))
    BY <1>1, <1>9
  <2> QED BY <1>1, <1>2, <1>9, <2>1, <2>2, WriteBitmapBlanks
<1>10. CASE /\ todo = << WriteBitmap("fn"), WriteBitmap("fm"), WriteBitmap("ext") >>
            /\ SbThere /\ OnlyBitmaps({})
  <2>1. Head(todo) = WriteBitmap("fn") /\ todo' = << WriteBitmap("fm"), WriteBitmap("ext") >>
    BY <1>1, <1>10
  <2>2. /\ "fn" \in Area /\ {} \in SUBSET (Area \ {"fn"}) /\ {} \cup {"fn"} = {"fn"}
        /\ \A b \in {} : Blank(b)
    BY DEF Area
  <2>3. SbThere' /\ OnlyBitmaps({} \cup {"fn"})' /\ \A b \in {} \cup {"fn"} : Blank(b)'
    BY <1>9, <1>10, <2>1, <2>2
  <2>4. OnlyBitmaps({"fn"})'
    BY <2>3 DEF OnlyBitmaps
  <2> QED BY <2>1, <2>3, <2>4 DEF FormatProgress
<1>11. CASE /\ todo = << WriteBitmap("fm"), WriteBitmap("ext") >>
            /\ SbThere /\ OnlyBitmaps({"fn"}) /\ Blank("fn")
  <2>1. Head(todo) = WriteBitmap("fm") /\ todo' = << WriteBitmap("ext") >>
    BY <1>1, <1>11
  <2>2. /\ "fm" \in Area /\ {"fn"} \in SUBSET (Area \ {"fm"})
        /\ \A b \in {"fn"} : Blank(b)
    BY <1>11 DEF Area
  <2>3. /\ SbThere' /\ OnlyBitmaps({"fn"} \cup {"fm"})'
        /\ \A b \in {"fn"} \cup {"fm"} : Blank(b)'
    BY <1>9, <1>11, <2>1, <2>2
  <2>4. OnlyBitmaps({"fn", "fm"})'
    BY <2>3 DEF OnlyBitmaps
  <2> QED BY <2>1, <2>3, <2>4 DEF FormatProgress
<1>12. CASE /\ todo = << WriteBitmap("ext") >>
            /\ SbThere /\ OnlyBitmaps({"fn", "fm"}) /\ Blank("fn") /\ Blank("fm")
  <2>1. Head(todo) = WriteBitmap("ext") /\ todo' = <<>>
    BY <1>1, <1>12
  <2>2. /\ "ext" \in Area /\ {"fn", "fm"} \in SUBSET (Area \ {"ext"})
        /\ \A b \in {"fn", "fm"} : Blank(b)
    BY <1>12 DEF Area
  <2>3. SbThere' /\ \A b \in {"fn", "fm"} \cup {"ext"} : Blank(b)'
    BY <1>9, <1>12, <2>1, <2>2
  <2> QED BY <2>1, <2>3 DEF FormatProgress, Area
<1> QED BY <1>1, <1>3, <1>4, <1>6, <1>7, <1>8, <1>10, <1>11, <1>12 DEF FormatProgress

LEMMA BlankStays ==
    ASSUME UNCHANGED <<vars, flash>>, SbThere, \A a \in Area : Blank(a)
    PROVE  SbThere' /\ \A a \in Area : Blank(a)'
BY BitmapsStay DEF SbThere, Blank

LEMMA BlankStep == BlankInv /\ [SbNext]_sbvars => BlankInv'
<1> SUFFICES ASSUME BlankInv, [SbNext]_sbvars PROVE BlankInv'
  OBVIOUS
<1>1. RoomInv' /\ OverTypes'
  BY RoomStep, OverTypesStep, SbLayoutStep DEF BlankInv, RoomInv
<1>2. ASSUME phase' = "closed" => need_format' = 0,
             need_format' = 1 => /\ phase' = "opening" => FormatProgress'
                                 /\ phase' = "up" => SbThere' /\ \A a \in Area : Blank(a)'
      PROVE  BlankInv'
  BY <1>1, <1>2 DEF BlankInv
<1>3. CASE Command
  <2>1. todo # <<>> /\ phase \in {"opening", "closing"}
    BY <1>3 DEF Command, BlankInv, RoomInv, SInv
  <2>2. CASE phase = "opening"
    <3>1. UNCHANGED <<phase, need_format>>
      BY <1>3, <2>2 DEF Command
    <3>2. need_format = 1 => FormatProgress'
      BY <1>3, <2>2, FormatCommand
    <3> QED BY <1>2, <2>2, <3>1, <3>2
  <2>3. CASE phase = "closing"
    <3>1. \/ phase' = "closed" /\ need_format' = 0
          \/ phase' = "closing"
      BY <1>3, <2>3 DEF Command, Gone
    <3> QED BY <1>2, <3>1
  <2> QED BY <2>1, <2>2, <2>3
<1>4. CASE Crash
  BY <1>2, <1>4 DEF Crash, Gone
<1>5. CASE Construct
  <2>1. /\ phase' = "opening"
        /\ need_format' = 1 => todo' = format_ssd
    BY <1>5 DEF Construct
  <2>2. todo' = format_ssd => FormatProgress'
    BY FormatSsdIs DEF FormatProgress
  <2>3. need_format' = 1 => FormatProgress'
    BY <2>1, <2>2
  <2>4. phase' # "closed" /\ phase' # "up"
    BY <2>1
  <2> QED BY <1>2, <2>3, <2>4
<1>6. CASE ReadNats
  <2>1. phase = "opening" /\ todo = <<>> /\ phase' = "up" /\ UNCHANGED <<vars, need_format, flash>>
    BY <1>6 DEF ReadNats
  <2>2. need_format = 1 => SbThere /\ \A a \in Area : Blank(a)
    <3> SUFFICES ASSUME need_format = 1 PROVE SbThere /\ \A a \in Area : Blank(a)
      OBVIOUS
    <3>1. FormatProgress /\ todo = <<>>
      BY <2>1 DEF BlankInv
    <3>2. format_ssd # <<>>
      BY FormatIs
    <3> QED BY <3>1, <3>2 DEF FormatProgress
  <2> QED BY <1>2, <2>1, <2>2, BlankStays
<1>7. CASE Use
  <2>1. phase' = "up" /\ phase = "up" /\ UNCHANGED <<vars, need_format, flash>>
    BY <1>7 DEF Use
  <2> QED BY <1>2, <2>1, BlankStays DEF BlankInv
<1>8. CASE Destruct
  BY <1>2, <1>8 DEF Destruct
<1>9. CASE UNCHANGED svars
  <2>1. UNCHANGED <<need_format, phase, todo, flash>>
    BY <1>9 DEF svars
  <2>2. CASE phase = "closed"
    BY <1>2, <2>1, <2>2 DEF BlankInv
  <2>3. CASE phase # "closed"
    <3>1. area = "over"
      BY <2>3 DEF BlankInv, RoomInv
    <3>2. UNCHANGED vars
      BY <3>1, SbLayoutStep DEF Next, PlaceBlock, BeginArea, Renumber, Area
    <3>3. need_format = 1 /\ phase = "up" => SbThere' /\ \A a \in Area : Blank(a)'
      BY <2>1, <3>2, BlankStays DEF BlankInv
    <3>4. FormatProgress => FormatProgress'
      <4>1. \A a \in Area : Blank(a)' = Blank(a)
        BY <2>1, <3>2, BitmapsStay DEF Blank
      <4>2. \A A \in SUBSET Area : OnlyBitmaps(A)' = OnlyBitmaps(A)
        BY <2>1, <3>2, BitmapsStay DEF OnlyBitmaps
      <4>3. SbThere' = SbThere
        BY <2>1 DEF SbThere
      <4>4. /\ Blank("fn")' = Blank("fn") /\ Blank("fm")' = Blank("fm")
            /\ OnlyBitmaps({})' = OnlyBitmaps({}) /\ OnlyBitmaps({"fn"})' = OnlyBitmaps({"fn"})
            /\ OnlyBitmaps({"fn", "fm"})' = OnlyBitmaps({"fn", "fm"})
        BY <4>1, <4>2 DEF Area
      <4> HIDE DEF FormatProgress
      <4>5. todo = format_ssd => FormatProgress'
        BY <2>1, FormatSsdIs DEF FormatProgress
      <4> QED BY <2>1, <4>1, <4>3, <4>4, <4>5 DEF FormatProgress
    <3> QED BY <1>2, <2>1, <2>3, <3>3, <3>4 DEF BlankInv
  <2> QED BY <2>2, <2>3
<1> QED BY <1>3, <1>4, <1>5, <1>6, <1>7, <1>8, <1>9 DEF SbNext, ComputeLayout, sbvars

\* The runs before another run hold at least the first one.
LEMMA FirstRunBefore ==
    ASSUME OverTypes, area = "over", NEW a \in Area, NEW k \in Opened(a)
    PROVE  RunBefore(a, k) \in Int /\ RunBefore(a, k) >= (IF k = 0 THEN 0 ELSE 1)
<1> DEFINE S == 0 .. k - 1
           f == blk_nr[a]
<1>1. /\ k \in Nat /\ ch_nr[a] \in Nat /\ ch_nr[a] - 1 >= k
      /\ \A j \in Opened(a) : j \in Nat /\ f[j] \in Nat \ {0}
  BY DEF OverTypes, Opened
<1>2. IsFiniteSet(S)
  BY <1>1, FS_Interval
<1>3. \A j \in S : f[j] \in Int /\ f[j] >= 1
  <2> SUFFICES ASSUME NEW j \in S PROVE j \in Opened(a)
    BY <1>1
  <2> QED BY <1>1 DEF Opened
<1>4. RunBefore(a, k) = Sum(f, S)
  BY RunsBeforeAre DEF RunsBefore
<1>5. k = 0 \/ 0 \in S
  BY <1>1
<1> HIDE DEF S, f
<1>6. Sum(f, S) \in Int /\ Sum(f, S) >= 0
  BY <1>2, <1>3, SumType, SumNotNegative
<1>7. ASSUME 0 \in S PROVE Sum(f, S) >= 1
  <2>1. Sum(f, S) = f[0] + Sum(f, S \ {0})
    BY <1>2, <1>3, <1>7, SumTakes
  <2>2. IsFiniteSet(S \ {0})
    BY <1>2, FS_RemoveElement
  <2>3. Sum(f, S \ {0}) \in Int /\ Sum(f, S \ {0}) >= 0
    BY <1>3, <2>2, SumType, SumNotNegative
  <2> QED BY <1>3, <1>7, <2>1, <2>3
<1> QED BY <1>4, <1>5, <1>6, <1>7

\* Where a bitmap of at most two blocks is read, it has been written.
LEMMA ReadWasWritten ==
    ASSUME OverTypes, area = "over", geo \in Geometry, NEW a \in Area,
           bitmap_nr(geo, a) <= block_nbytes(geo)
    PROVE  BitmapRead(a) \subseteq BitmapWritten(a)
<1> DEFINE n == bitmap_blk_nr(geo, a)
<1>1. n \in Nat /\ 1 <= n /\ n <= 2
  BY BitmapBlks
<1>2. 0 \in Opened(a) /\ blk_nr[a][0] \in Nat \ {0}
  BY DEF OverTypes
<1>3. RunBefore(a, 0) = 0
  <2>1. RunBefore(a, 0) = Sum(blk_nr[a], 0 .. 0 - 1) /\ 0 .. 0 - 1 = {}
    BY RunsBeforeAre DEF RunsBefore
  <2> QED BY <2>1, SumOfNone
<1> HIDE DEF n
<1>4. ASSUME NEW k \in Opened(a), NEW m \in 0 .. blk_nr[a][k] - 1, RunBefore(a, k) + m < n
      PROVE  <<st_ch[a], st_blk_idx[a][0] + m>> \in BitmapWritten(a)
  <2>1. m \in Int /\ 0 <= m /\ m <= blk_nr[a][k] - 1 /\ blk_nr[a][k] \in Nat /\ k \in Nat
    BY DEF OverTypes
  <2>2. m \in 0 .. blk_nr[a][0] - 1 /\ RunBefore(a, 0) + m < n
    <3>1. CASE k = 0
      BY <1>4, <3>1
    <3>2. CASE k # 0
      <4>1. RunBefore(a, k) \in Int /\ RunBefore(a, k) >= 1
        BY <3>2, FirstRunBefore
      <4>2. m = 0
        BY <1>1, <1>4, <2>1, <4>1
      <4> QED BY <1>1, <1>2, <1>3, <4>2
    <3> QED BY <3>1, <3>2
  <2>3. <<0, m>> \in BitmapPlaces(a)
    BY <1>2, <2>2 DEF BitmapPlaces, n
  <2>4. (st_ch[a] + 0) % nchs = st_ch[a]
    <3>1. nchs \in Nat \ {0} /\ st_ch[a] \in 0 .. nchs - 1
      BY DEF OverTypes, Ch
    <3> QED BY <3>1
  <2>5. <<(st_ch[a] + <<0, m>>[1]) % nchs, st_blk_idx[a][<<0, m>>[1]] + <<0, m>>[2]>>
          \in BitmapWritten(a)
    BY <2>3 DEF BitmapWritten
  <2> QED BY <2>4, <2>5
<1>5. ASSUME NEW p \in BitmapPlaces(a)
      PROVE  <<st_ch[a], st_blk_idx[a][0] + p[2]>> \in BitmapWritten(a)
  <2>1. PICK k \in Opened(a) : \E m \in 0 .. blk_nr[a][k] - 1 :
          RunBefore(a, k) + m < n /\ p = <<k, m>>
    BY DEF BitmapPlaces, n
  <2> QED BY <1>4, <2>1
<1> QED BY <1>5 DEF BitmapRead

\* On every device whose areas' bitmaps fit the buffer of one block that the
\* constructor has for them, a device opened after formatting has its super
\* block, and each area reads zeros (format_ssd, MetaBlkArea's constructor).
THEOREM AreasAreBlankTheorem ==
    SbSpec => []((\A a \in Area : bitmap_nr(geo, a) <= block_nbytes(geo))
                   => FormattedAreasAreBlank)
<1>1. SbInit => BlankInv
  <2> SUFFICES ASSUME SbInit PROVE BlankInv
    OBVIOUS
  <2>1. RoomInv /\ phase = "closed" /\ need_format = 0 /\ area # "over"
    BY SbInitInv, LayoutInit DEF RoomInv, SbInit, Init
  <2> QED BY <2>1 DEF BlankInv, OverTypes
<1>2. BlankInv => ((\A a \in Area : bitmap_nr(geo, a) <= block_nbytes(geo))
                     => FormattedAreasAreBlank)
  <2> SUFFICES ASSUME BlankInv, phase = "up", need_format = 1,
                      \A a \in Area : bitmap_nr(geo, a) <= block_nbytes(geo)
               PROVE  /\ SbThere
                      /\ \A a \in Area : \A b \in BitmapRead(a) : b \in DOMAIN flash /\ flash[b] = Zeros
    BY DEF FormattedAreasAreBlank, SbThere
  <2>1. area = "over" /\ geo \in Geometry /\ OverTypes /\ SbThere /\ \A a \in Area : Blank(a)
    BY DEF BlankInv, RoomInv, SInv
  <2>2. \A a \in Area : BitmapRead(a) \subseteq BitmapWritten(a)
    BY <2>1, ReadWasWritten
  <2> QED BY <2>1, <2>2 DEF Blank
<1> QED BY <1>1, <1>2, BlankStep, PTL DEF SbSpec
=============================================================================
