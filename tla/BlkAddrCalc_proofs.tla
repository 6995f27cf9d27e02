------------------------- MODULE BlkAddrCalc_proofs -------------------------

(***************************************************************************)
(* Proofs about the arithmetic of block addresses, for every geometry.  An *)
(* address is here the four fields of its word; that packing and unpacking *)
(* keep them is left to the runs of BlkAddr.                               *)
(***************************************************************************)
EXTENDS BlkAddrCalc, TLAPS

\* The numerals of the device, and their value.
Numeral == {v \in [Field -> Nat] : \A i \in Field : v[i] < usize[i]}

Val(v) == v[0] * unit[0] + v[1] * unit[1] + v[2] * unit[2] + v[3] * unit[3]

\* The radices.
LEMMA Radices ==
    /\ 0 \in Field /\ 1 \in Field /\ 2 \in Field /\ 3 \in Field
    /\ \A i : i \in Field <=> i = 0 \/ i = 1 \/ i = 2 \/ i = 3
    /\ usize[0] = nchannels /\ usize[1] = nblocks /\ usize[2] = nplanes /\ usize[3] = nluns
    /\ unit[0] = nblocks * nplanes * nluns /\ unit[1] = nplanes * nluns
    /\ unit[2] = nluns /\ unit[3] = 1
    /\ \A i \in Field : usize[i] \in Nat \ {0}
<1>1. \A i : i \in Field <=> i = 0 \/ i = 1 \/ i = 2 \/ i = 3
  BY DEF Field
<1>2. /\ usize[0] = nchannels /\ usize[1] = nblocks
      /\ usize[2] = nplanes /\ usize[3] = nluns
  BY <1>1 DEF usize
<1>3. /\ unit[0] = nblocks * nplanes * nluns /\ unit[1] = nplanes * nluns
      /\ unit[2] = nluns /\ unit[3] = 1
  BY <1>1 DEF unit
<1> QED BY <1>1, <1>2, <1>3, DeviceGeometry

\* The carries of an addition.
CarryFn(v, aos, f) ==
    [i \in Field |->
       IF i = 3 THEN 0
       ELSE IF v[i + 1] + aos[i + 1] + f[i + 1] >= usize[i + 1] THEN 1 ELSE 0]
Carry(v, aos) == CHOOSE f : f = CarryFn(v, aos, f)

\* The carries that do_add computes, field by field from lun up.
LEMMA CarryIs ==
    ASSUME NEW v, NEW aos, NEW c, c = Carry(v, aos)
    PROVE  /\ c[3] = 0
           /\ c[2] = IF v[3] + aos[3] + c[3] >= usize[3] THEN 1 ELSE 0
           /\ c[1] = IF v[2] + aos[2] + c[2] >= usize[2] THEN 1 ELSE 0
           /\ c[0] = IF v[1] + aos[1] + c[1] >= usize[1] THEN 1 ELSE 0
<1> DEFINE c3 == 0
           c2 == IF v[3] + aos[3] + c3 >= usize[3] THEN 1 ELSE 0
           c1 == IF v[2] + aos[2] + c2 >= usize[2] THEN 1 ELSE 0
           c0 == IF v[1] + aos[1] + c1 >= usize[1] THEN 1 ELSE 0
           g == [i \in Field |-> IF i = 0 THEN c0 ELSE IF i = 1 THEN c1
                                 ELSE IF i = 2 THEN c2 ELSE c3]
<1>1. g[0] = c0 /\ g[1] = c1 /\ g[2] = c2 /\ g[3] = c3
  BY Radices
<1>2. g = CarryFn(v, aos, g)
  <2> HIDE DEF c0, c1, c2, c3
  <2>1. ASSUME NEW i \in Field
        PROVE g[i] = CarryFn(v, aos, g)[i]
    <3> HIDE DEF g
    <3>1. CASE i = 0
      BY <3>1, <1>1, Radices DEF CarryFn, c0
    <3>2. CASE i = 1
      BY <3>2, <1>1, Radices DEF CarryFn, c1
    <3>3. CASE i = 2
      BY <3>3, <1>1, Radices DEF CarryFn, c2
    <3>4. CASE i = 3
      BY <3>4, <1>1, Radices DEF CarryFn, c3
    <3> QED BY <3>1, <3>2, <3>3, <3>4, Radices
  <2> QED BY <2>1 DEF CarryFn
<1>3. Carry(v, aos) = CarryFn(v, aos, Carry(v, aos))
  <2> HIDE DEF g
  <2> QED BY <1>2 DEF Carry
<1>4. c = CarryFn(v, aos, c)
  BY <1>3
<1> QED BY <1>4, Radices DEF CarryFn

\* The sum, with the carries named.
LEMMA DoAddIs ==
    ASSUME NEW v, NEW aos
    PROVE  DoAdd(v, aos) =
             [i \in Field |-> LET s == v[i] + aos[i] + Carry(v, aos)[i]
                              IN  IF s >= usize[i] THEN s - usize[i] ELSE s]
BY DEF DoAdd, Carry, CarryFn

\* One digit: what a field keeps and what it carries on.
LEMMA DigitUp ==
    ASSUME NEW n \in Nat \ {0}, NEW a \in 0 .. n - 1, NEW b \in 0 .. n - 1, NEW k \in {0, 1}
    PROVE  LET s == a + b + k
               d == IF s >= n THEN s - n ELSE s
               c == IF s >= n THEN 1 ELSE 0
           IN  /\ d \in 0 .. n - 1 /\ c \in {0, 1}
               /\ d + c * n = s
OBVIOUS

\* do_add on numerals: each field keeps a digit, the carries cancel, and what
\* is carried out of the channel is lost.
LEMMA DoAddDigits ==
    ASSUME NEW v \in Numeral, NEW aos \in Numeral
    PROVE  LET r == DoAdd(v, aos)
               c == Carry(v, aos)
           IN  /\ r \in Numeral /\ c[3] = 0
               /\ r[3] + c[2] * usize[3] = v[3] + aos[3]
               /\ r[2] + c[1] * usize[2] = v[2] + aos[2] + c[2]
               /\ r[1] + c[0] * usize[1] = v[1] + aos[1] + c[1]
               /\ c[0] \in {0, 1} /\ c[1] \in {0, 1} /\ c[2] \in {0, 1}
               /\ v[0] + aos[0] + c[0] < usize[0] => r[0] = v[0] + aos[0] + c[0]
<1> DEFINE c == Carry(v, aos)
           s(j) == v[j] + aos[j] + c[j]
           r == DoAdd(v, aos)
<1>1. /\ c[3] = 0
      /\ c[2] = IF s(3) >= usize[3] THEN 1 ELSE 0
      /\ c[1] = IF s(2) >= usize[2] THEN 1 ELSE 0
      /\ c[0] = IF s(1) >= usize[1] THEN 1 ELSE 0
  BY CarryIs
<1>2. c[3] \in {0, 1} /\ c[2] \in {0, 1} /\ c[1] \in {0, 1} /\ c[0] \in {0, 1}
  BY <1>1
<1>3. r = [j \in Field |-> IF s(j) >= usize[j] THEN s(j) - usize[j] ELSE s(j)]
  BY DoAddIs
<1> HIDE DEF c, r
<1>4. \A j \in Field : v[j] \in 0 .. usize[j] - 1 /\ aos[j] \in 0 .. usize[j] - 1
                     /\ usize[j] \in Nat \ {0} /\ c[j] \in {0, 1}
  BY <1>2, Radices DEF Numeral
<1>5. \A j \in Field : r[j] = IF s(j) >= usize[j] THEN s(j) - usize[j] ELSE s(j)
  BY <1>3
<1>6. \A j \in Field : r[j] \in 0 .. usize[j] - 1
  BY <1>4, <1>5, DigitUp
<1>7. r \in Numeral
  BY <1>3, <1>4, <1>6 DEF Numeral
<1>8. /\ r[3] + c[2] * usize[3] = s(3)
      /\ r[2] + c[1] * usize[2] = s(2)
      /\ r[1] + c[0] * usize[1] = s(1)
  BY <1>1, <1>4, <1>5, Radices
<1>9. s(0) < usize[0] => r[0] = s(0)
  BY <1>4, <1>5, Radices
<1> QED BY <1>1, <1>2, <1>4, <1>7, <1>8, <1>9, Radices DEF c, r

\* The blocks of the device.
Total == nchannels * unit[0]

\* A numeral as Horner's rule evaluates it.
LEMMA ValIs ==
    ASSUME NEW v \in [Field -> Int]
    PROVE  /\ Val(v) = ((v[0] * nblocks + v[1]) * nplanes + v[2]) * nluns + v[3]
           /\ Val(v) \in Int
<1>1. v[0] \in Int /\ v[1] \in Int /\ v[2] \in Int /\ v[3] \in Int
  BY Radices
<1>2. nblocks \in Int /\ nplanes \in Int /\ nluns \in Int
  BY DeviceGeometry
<1>3. Val(v) = v[0] * (nblocks * nplanes * nluns) + v[1] * (nplanes * nluns)
               + v[2] * nluns + v[3] * 1
  BY Radices DEF Val
<1> HIDE DEF Val
<1> QED BY <1>1, <1>2, <1>3

\* A distance is the difference of two values.
LEMMA DistanceIs ==
    ASSUME NEW v \in [Field -> Int], NEW w \in [Field -> Int]
    PROVE  Distance(v, w) = Val(v) - Val(w)
<1>1. \A i \in Field : v[i] \in Int /\ w[i] \in Int
  OBVIOUS
<1>2. \A i \in Field : unit[i] \in Int
  BY Radices, DeviceGeometry
<1>3. ASSUME NEW a \in Int, NEW b \in Int, NEW n \in Int
      PROVE  (a - b) * n = a * n - b * n /\ a * n \in Int /\ b * n \in Int
  OBVIOUS
<1>4. \A i \in Field : (v[i] - w[i]) * unit[i] = v[i] * unit[i] - w[i] * unit[i]
                     /\ v[i] * unit[i] \in Int /\ w[i] * unit[i] \in Int
  BY <1>1, <1>2, <1>3
<1> QED BY <1>4, Radices DEF Distance, Val

\* The radices are positive.
LEMMA Positive ==
    /\ nchannels \in Nat \ {0} /\ nblocks \in Nat \ {0}
    /\ nplanes \in Nat \ {0} /\ nluns \in Nat \ {0}
BY DeviceGeometry

\* Appending a digit to a number: what is below the next one, and the order.
LEMMA Append ==
    ASSUME NEW n \in Nat \ {0}
    PROVE  /\ \A p \in Nat, m \in Nat, d \in 0 .. n - 1 :
                p < m => p * n + d \in Nat /\ p * n + d < m * n
           /\ \A p \in Int, q \in Int, d \in 0 .. n - 1, e \in 0 .. n - 1 :
                p < q => p * n + d < q * n + e
           /\ \A p \in Int, q \in Int, d \in Int, e \in Int, k \in Int :
                p * n + d + (q * n + e) = (p + q + k) * n + (d + e - k * n)
           /\ \A p \in Int : p * n \in Int
<1>1. \A p \in Int, q \in Int, d \in 0 .. n - 1, e \in 0 .. n - 1 :
         p < q => p * n + d < q * n + e
  <2> SUFFICES ASSUME NEW p \in Int, NEW q \in Int, NEW d \in 0 .. n - 1, NEW e \in 0 .. n - 1, p < q
               PROVE  p * n + d < q * n + e
    OBVIOUS
  <2>1. PICK k \in Nat : q = p + 1 + k
    <3>1. q - p - 1 \in Nat /\ q = p + 1 + (q - p - 1)
      OBVIOUS
    <3> QED BY <3>1
  <2>2. q * n = p * n + n + k * n /\ k * n \in Nat /\ p * n \in Int
    BY <2>1
  <2> QED BY <2>2
<1>2. \A p \in Nat, m \in Nat, d \in 0 .. n - 1 : p < m => p * n + d < m * n + 0
  BY <1>1
<1>3. \A p \in Nat : p * n \in Nat
  OBVIOUS
<1>4. \A p \in Int, q \in Int, d \in Int, e \in Int, k \in Int :
         p * n + d + (q * n + e) = (p + q + k) * n + (d + e - k * n)
  OBVIOUS
<1>5. \A p \in Int : p * n \in Int
  OBVIOUS
<1> QED BY <1>1, <1>2, <1>3, <1>4, <1>5

\* The digits of a numeral, and what the last three are worth.
Digits(v) ==
    /\ v \in [Field -> Int]
    /\ v[0] \in 0 .. nchannels - 1 /\ v[1] \in 0 .. nblocks - 1
    /\ v[2] \in 0 .. nplanes - 1 /\ v[3] \in 0 .. nluns - 1

\* Each field of a numeral holds a digit of its radix.
LEMMA NumeralIs == ASSUME NEW v \in Numeral PROVE Digits(v)
BY Radices, Positive DEF Numeral, Digits

\* The blocks of a channel.
BlocksOfChannel == (nblocks * nplanes) * nluns

Low(v) == (v[1] * nplanes + v[2]) * nluns + v[3]

\* A value is the channel, times its blocks, and the place in the channel.
LEMMA ChannelAndLow ==
    ASSUME NEW v \in Numeral
    PROVE  /\ Val(v) = v[0] * BlocksOfChannel + Low(v)
           /\ Low(v) \in 0 .. BlocksOfChannel - 1
           /\ BlocksOfChannel \in Nat \ {0}
           /\ Total = nchannels * BlocksOfChannel
<1>1. Digits(v)
  BY NumeralIs
<1>2. v[1] * nplanes + v[2] \in Nat /\ v[1] * nplanes + v[2] < nblocks * nplanes
  BY <1>1, Positive, Append DEF Digits
<1>3. nblocks * nplanes \in Nat
  BY Positive
<1>4. Low(v) \in Nat /\ Low(v) < BlocksOfChannel
  BY <1>1, <1>2, <1>3, Positive, Append DEF Digits, Low, BlocksOfChannel
<1>5. BlocksOfChannel \in Nat
  BY <1>3, Positive DEF BlocksOfChannel
<1>6. Val(v) = v[0] * BlocksOfChannel + Low(v)
  <2>1. Val(v) = v[0] * (nblocks * nplanes * nluns) + v[1] * (nplanes * nluns)
               + v[2] * nluns + v[3] * 1
    BY Radices DEF Val
  <2>2. /\ v[0] \in Int /\ v[1] \in Int /\ v[2] \in Int /\ v[3] \in Int
        /\ nblocks \in Int /\ nplanes \in Int /\ nluns \in Int
    BY <1>1, Positive DEF Digits
  <2> HIDE DEF Val
  <2> QED BY <2>1, <2>2 DEF Low, BlocksOfChannel
<1>7. Total = nchannels * BlocksOfChannel
  BY Radices DEF Total, BlocksOfChannel
<1> QED BY <1>4, <1>5, <1>6, <1>7

\* The value of a sum of which z has the lower digits, and c the carries.
LEMMA Carried ==
    ASSUME NEW x, NEW y, NEW z, Digits(x), Digits(y), Digits(z),
           NEW c0 \in {0, 1}, NEW c1 \in {0, 1}, NEW c2 \in {0, 1},
           z[3] + c2 * nluns = x[3] + y[3],
           z[2] + c1 * nplanes = x[2] + y[2] + c2,
           z[1] + c0 * nblocks = x[1] + y[1] + c1
    PROVE  Val(x) + Val(y) = (x[0] + y[0] + c0) * BlocksOfChannel + Low(z)
<1> DEFINE top == x[0] + y[0] + c0
           x1 == x[0] * nblocks + x[1]
           x2 == x1 * nplanes + x[2]
           y1 == y[0] * nblocks + y[1]
           y2 == y1 * nplanes + y[2]
           z1 == top * nblocks + z[1]
           z2 == z1 * nplanes + z[2]
           z3 == z2 * nluns + z[3]
<1>1. /\ x[0] \in Int /\ x[1] \in Int /\ x[2] \in Int /\ x[3] \in Int
      /\ y[0] \in Int /\ y[1] \in Int /\ y[2] \in Int /\ y[3] \in Int
      /\ z[1] \in Int /\ z[2] \in Int /\ z[3] \in Int
      /\ c0 \in Int /\ c1 \in Int /\ c2 \in Int /\ top \in Int
  BY DEF Digits
<1>2. c0 * nblocks \in Int /\ c1 * nplanes \in Int /\ c2 * nluns \in Int
  BY <1>1, Positive, Append
<1>3. /\ z[1] = (x[1] + y[1] + c1) - c0 * nblocks
      /\ z[2] = (x[2] + y[2] + c2) - c1 * nplanes
      /\ z[3] = (x[3] + y[3]) - c2 * nluns
  <2>1. \A a \in Int, b \in Int, m \in Int : a + m = b => a = b - m
    OBVIOUS
  <2>2. z[1] = (x[1] + y[1] + c1) - c0 * nblocks
    BY <1>1, <1>2, <2>1
  <2>3. z[2] = (x[2] + y[2] + c2) - c1 * nplanes
    BY <1>1, <1>2, <2>1
  <2>4. z[3] = (x[3] + y[3]) - c2 * nluns
    BY <1>1, <1>2, <2>1
  <2> QED BY <2>2, <2>3, <2>4
<1>4. x1 \in Int /\ y1 \in Int /\ x1 + y1 + c1 = z1
  <2>1. /\ x[0] * nblocks \in Int /\ y[0] * nblocks \in Int /\ top * nblocks \in Int
        /\ x[0] * nblocks + x[1] + (y[0] * nblocks + y[1])
             = top * nblocks + (x[1] + y[1] - c0 * nblocks)
    BY <1>1, Positive, Append
  <2> HIDE DEF top
  <2> QED BY <1>1, <1>2, <1>3, <2>1
<1> HIDE DEF x1, y1, z1
<1>5. x2 \in Int /\ y2 \in Int /\ x2 + y2 + c2 = z2
  BY <1>1, <1>3, <1>4, Positive, Append
<1> HIDE DEF x2, y2, z2
<1>6. x2 * nluns + x[3] + (y2 * nluns + y[3]) = z3
  BY <1>1, <1>3, <1>5, Positive, Append
<1>7. z3 = top * BlocksOfChannel + Low(z)
  <2>1. z3 = ((top * nblocks + z[1]) * nplanes + z[2]) * nluns + z[3]
    BY DEF z3, z2, z1
  <2>2. nblocks \in Int /\ nplanes \in Int /\ nluns \in Int
    BY Positive
  <2> HIDE DEF z3, top
  <2> QED BY <1>1, <2>1, <2>2 DEF Low, BlocksOfChannel
<1>8. Val(x) = x2 * nluns + x[3] /\ Val(y) = y2 * nluns + y[3]
  BY ValIs DEF Digits, x2, x1, y2, y1
<1> QED BY <1>6, <1>7, <1>8

\* Below the number of blocks means a channel of the device.
LEMMA TopInRange ==
    ASSUME NEW t \in Int, NEW l \in 0 .. BlocksOfChannel - 1, t * BlocksOfChannel + l < Total
    PROVE  t < nchannels
<1>1. BlocksOfChannel \in Nat \ {0} /\ Total = nchannels * BlocksOfChannel
  BY Radices, Positive DEF Total, BlocksOfChannel
<1>2. SUFFICES ASSUME nchannels <= t PROVE FALSE
  BY Positive
<1>3. t = nchannels \/ nchannels < t
  BY <1>2, Positive
<1>4. nchannels < t => nchannels * BlocksOfChannel + 0 < t * BlocksOfChannel + 0
  BY <1>1, Positive, Append
<1>5. t * BlocksOfChannel \in Int /\ nchannels * BlocksOfChannel \in Int
  BY <1>1, Positive
<1> QED BY <1>1, <1>3, <1>4, <1>5

\* do_add adds values, as long as the sum is a block of the device.
LEMMA DoAddMoves ==
    ASSUME NEW v \in Numeral, NEW aos \in Numeral, Val(v) + Val(aos) < Total
    PROVE  DoAdd(v, aos) \in Numeral /\ Val(DoAdd(v, aos)) = Val(v) + Val(aos)
<1> DEFINE r == DoAdd(v, aos)
           c == Carry(v, aos)
           top == v[0] + aos[0] + c[0]
<1>1. /\ r \in Numeral /\ c[3] = 0
      /\ r[3] + c[2] * nluns = v[3] + aos[3]
      /\ r[2] + c[1] * nplanes = v[2] + aos[2] + c[2]
      /\ r[1] + c[0] * nblocks = v[1] + aos[1] + c[1]
      /\ c[0] \in {0, 1} /\ c[1] \in {0, 1} /\ c[2] \in {0, 1}
      /\ top < nchannels => r[0] = top
  BY DoAddDigits, Radices
<1> HIDE DEF r, c
<1>2. Digits(v) /\ Digits(aos) /\ Digits(r)
  BY <1>1, NumeralIs
<1>3. Val(v) + Val(aos) = top * BlocksOfChannel + Low(r)
  BY <1>1, <1>2, Carried
<1>4. top \in Int /\ Low(r) \in 0 .. BlocksOfChannel - 1
      /\ Val(r) = r[0] * BlocksOfChannel + Low(r)
  BY <1>1, <1>2, ChannelAndLow DEF Digits
<1>5. r[0] = top
  <2> HIDE DEF top
  <2> QED BY <1>1, <1>3, <1>4, TopInRange
<1> QED BY <1>1, <1>3, <1>4, <1>5 DEF r

\* The borrows of a subtraction.
BorrowFn(v, aos, f) ==
    [i \in Field |->
       IF i = 3 THEN 0 ELSE IF v[i + 1] - f[i + 1] < aos[i + 1] THEN 1 ELSE 0]
Borrow(v, aos) == CHOOSE f : f = BorrowFn(v, aos, f)

\* The borrows that do_sub computes, field by field from lun up.
LEMMA BorrowIs ==
    ASSUME NEW v, NEW aos, NEW c, c = Borrow(v, aos)
    PROVE  /\ c[3] = 0
           /\ c[2] = IF v[3] - c[3] < aos[3] THEN 1 ELSE 0
           /\ c[1] = IF v[2] - c[2] < aos[2] THEN 1 ELSE 0
           /\ c[0] = IF v[1] - c[1] < aos[1] THEN 1 ELSE 0
<1> DEFINE c3 == 0
           c2 == IF v[3] - c3 < aos[3] THEN 1 ELSE 0
           c1 == IF v[2] - c2 < aos[2] THEN 1 ELSE 0
           c0 == IF v[1] - c1 < aos[1] THEN 1 ELSE 0
           g == [i \in Field |-> IF i = 0 THEN c0 ELSE IF i = 1 THEN c1
                                 ELSE IF i = 2 THEN c2 ELSE c3]
<1>1. g[0] = c0 /\ g[1] = c1 /\ g[2] = c2 /\ g[3] = c3
  BY Radices
<1>2. g = BorrowFn(v, aos, g)
  <2> HIDE DEF c0, c1, c2, c3
  <2>1. ASSUME NEW i \in Field PROVE g[i] = BorrowFn(v, aos, g)[i]
    <3> HIDE DEF g
    <3>1. CASE i = 0
      BY <3>1, <1>1, Radices DEF BorrowFn, c0
    <3>2. CASE i = 1
      BY <3>2, <1>1, Radices DEF BorrowFn, c1
    <3>3. CASE i = 2
      BY <3>3, <1>1, Radices DEF BorrowFn, c2
    <3>4. CASE i = 3
      BY <3>4, <1>1, Radices DEF BorrowFn, c3
    <3> QED BY <3>1, <3>2, <3>3, <3>4, Radices
  <2> QED BY <2>1 DEF BorrowFn
<1>3. Borrow(v, aos) = BorrowFn(v, aos, Borrow(v, aos))
  <2> HIDE DEF g
  <2> QED BY <1>2 DEF Borrow
<1>4. c = BorrowFn(v, aos, c)
  BY <1>3
<1> QED BY <1>4, Radices DEF BorrowFn

\* The difference, with the borrows named.
LEMMA DoSubIs ==
    ASSUME NEW v, NEW aos
    PROVE  DoSub(v, aos) =
             [i \in Field |-> LET s == v[i] - Borrow(v, aos)[i] - aos[i]
                              IN  IF s < 0 THEN usize[i] + s ELSE s]
BY DEF DoSub, Borrow, BorrowFn

\* One digit of a difference: what a field keeps and what it borrows.
LEMMA DigitDown ==
    ASSUME NEW n \in Nat \ {0}, NEW a \in 0 .. n - 1, NEW b \in 0 .. n - 1, NEW k \in {0, 1}
    PROVE  LET s == a - k - b
               d == IF s < 0 THEN n + s ELSE s
               c == IF a - k < b THEN 1 ELSE 0
           IN  /\ d \in 0 .. n - 1 /\ c \in {0, 1}
               /\ a + c * n = d + b + k
OBVIOUS

\* do_sub subtracts values, as long as the result is not negative.
LEMMA DoSubMoves ==
    ASSUME NEW v \in Numeral, NEW aos \in Numeral, Val(aos) <= Val(v)
    PROVE  DoSub(v, aos) \in Numeral /\ Val(DoSub(v, aos)) = Val(v) - Val(aos)
<1> DEFINE c == Borrow(v, aos)
           s(j) == v[j] - c[j] - aos[j]
           r == DoSub(v, aos)
<1>1. /\ c[3] = 0
      /\ c[2] = IF v[3] - c[3] < aos[3] THEN 1 ELSE 0
      /\ c[1] = IF v[2] - c[2] < aos[2] THEN 1 ELSE 0
      /\ c[0] = IF v[1] - c[1] < aos[1] THEN 1 ELSE 0
  BY BorrowIs
<1>2. c[3] \in {0, 1} /\ c[2] \in {0, 1} /\ c[1] \in {0, 1} /\ c[0] \in {0, 1}
  BY <1>1
<1>3. r = [j \in Field |-> IF s(j) < 0 THEN usize[j] + s(j) ELSE s(j)]
  BY DoSubIs
<1> HIDE DEF c, r
<1>4. \A j \in Field : v[j] \in 0 .. usize[j] - 1 /\ aos[j] \in 0 .. usize[j] - 1
                     /\ usize[j] \in Nat \ {0} /\ c[j] \in {0, 1}
  BY <1>2, Radices DEF Numeral
<1>5. \A j \in Field : r[j] = IF s(j) < 0 THEN usize[j] + s(j) ELSE s(j)
  BY <1>3
<1>6. \A j \in Field : r[j] \in 0 .. usize[j] - 1
  BY <1>4, <1>5, DigitDown
<1>7. r \in Numeral
  BY <1>3, <1>4, <1>6 DEF Numeral
<1>8. /\ v[3] + c[2] * nluns = r[3] + aos[3]
      /\ v[2] + c[1] * nplanes = r[2] + aos[2] + c[2]
      /\ v[1] + c[0] * nblocks = r[1] + aos[1] + c[1]
  BY <1>1, <1>4, <1>5, Radices
<1>9. Digits(v) /\ Digits(aos) /\ Digits(r)
  BY <1>7, NumeralIs
<1>10. Val(r) + Val(aos) = (r[0] + aos[0] + c[0]) * BlocksOfChannel + Low(v)
  BY <1>2, <1>8, <1>9, Carried
<1>11. /\ Val(r) = r[0] * BlocksOfChannel + Low(r) /\ Low(r) \in 0 .. BlocksOfChannel - 1
       /\ Val(v) = v[0] * BlocksOfChannel + Low(v) /\ Low(v) \in 0 .. BlocksOfChannel - 1
       /\ BlocksOfChannel \in Nat \ {0} /\ Val(r) \in Int /\ Val(aos) \in Int
  BY <1>7, <1>9, ChannelAndLow, ValIs DEF Digits
<1>12. r[0] + aos[0] + c[0] = v[0]
  <2>0. \/ r[0] + aos[0] + c[0] = v[0]
        \/ r[0] + aos[0] + c[0] = nchannels + v[0]
    <3>1. r[0] = IF s(0) < 0 THEN usize[0] + s(0) ELSE s(0)
      BY <1>5, Radices
    <3>2. v[0] \in Int /\ aos[0] \in Int /\ c[0] \in Int /\ nchannels \in Int /\ r[0] \in Int
      BY <1>2, <1>9, Positive DEF Digits
    <3> QED BY <3>1, <3>2, Radices
  <2>1. SUFFICES ASSUME r[0] + aos[0] + c[0] = nchannels + v[0] PROVE FALSE
    BY <2>0
  <2>2. r[0] < nchannels /\ r[0] \in Int /\ v[0] \in Nat /\ nchannels \in Int
    BY <1>9, Positive DEF Digits
  <2>3. (nchannels + v[0]) * BlocksOfChannel
          = nchannels * BlocksOfChannel + v[0] * BlocksOfChannel
    BY <1>11, <2>2
  <2>4. r[0] * BlocksOfChannel + Low(r) < nchannels * BlocksOfChannel + 0
    BY <1>11, <2>2, Append
  <2>5. /\ nchannels * BlocksOfChannel \in Int /\ v[0] * BlocksOfChannel \in Int
        /\ r[0] * BlocksOfChannel \in Int
    BY <1>11, <2>2
  <2> QED BY <1>10, <1>11, <2>1, <2>3, <2>4, <2>5
<1>13. Val(r) + Val(aos) = Val(v)
  BY <1>10, <1>11, <1>12
<1> QED BY <1>7, <1>11, <1>13 DEF r

\* The numeral of a number: the digits in turn, from lun up.
Quot(x, n) == x \div n
Mod(x, n)  == x % n

RestFn(x, f) ==
    [i \in Field |-> IF i = 3 THEN x ELSE f[i + 1] \div usize[i + 1]]
Rest(x) == CHOOSE f : f = RestFn(x, f)

\* What is left of a number after each division.
LEMMA RestIs ==
    ASSUME NEW x, NEW f, f = Rest(x)
    PROVE  /\ f[3] = x
           /\ f[2] = Quot(f[3], nluns)
           /\ f[1] = Quot(f[2], nplanes)
           /\ f[0] = Quot(f[1], nblocks)
<1> DEFINE c3 == x
           c2 == c3 \div usize[3]
           c1 == c2 \div usize[2]
           c0 == c1 \div usize[1]
           g == [i \in Field |-> IF i = 0 THEN c0 ELSE IF i = 1 THEN c1
                                 ELSE IF i = 2 THEN c2 ELSE c3]
<1>1. g[0] = c0 /\ g[1] = c1 /\ g[2] = c2 /\ g[3] = c3
  BY Radices
<1>2. g = RestFn(x, g)
  <2> HIDE DEF c0, c1, c2, c3
  <2>1. ASSUME NEW i \in Field PROVE g[i] = RestFn(x, g)[i]
    <3> HIDE DEF g
    <3>1. CASE i = 0
      BY <3>1, <1>1, Radices DEF RestFn, c0
    <3>2. CASE i = 1
      BY <3>2, <1>1, Radices DEF RestFn, c1
    <3>3. CASE i = 2
      BY <3>3, <1>1, Radices DEF RestFn, c2
    <3>4. CASE i = 3
      BY <3>4, <1>1, Radices DEF RestFn, c3
    <3> QED BY <3>1, <3>2, <3>3, <3>4, Radices
  <2> QED BY <2>1 DEF RestFn
<1>3. Rest(x) = RestFn(x, Rest(x))
  <2> HIDE DEF g
  <2> QED BY <1>2 DEF Rest
<1>4. f = RestFn(x, f)
  BY <1>3
<1> QED BY <1>4, Radices DEF RestFn, Quot

\* The digits are the remainders.
LEMMA AosIs ==
    ASSUME NEW x
    PROVE  Aos(x) = [i \in Field |-> Mod(Rest(x)[i], usize[i])]
BY DEF Aos, Rest, RestFn, Mod

\* Quotient and remainder.
LEMMA Division ==
    ASSUME NEW n \in Nat \ {0}, NEW x \in Nat
    PROVE  /\ Quot(x, n) \in Nat /\ Mod(x, n) \in 0 .. n - 1
           /\ x = Quot(x, n) * n + Mod(x, n)
           /\ x < n => Mod(x, n) = x
BY DEF Quot, Mod

\* The digits of a number of blocks are a numeral of its value.
LEMMA AosOfNumber ==
    ASSUME NEW x \in Nat, x < Total
    PROVE  Aos(x) \in Numeral /\ Val(Aos(x)) = x
<1> DEFINE f == Rest(x)
           d == Aos(x)
<1>1. /\ f[3] = x /\ f[2] = Quot(f[3], nluns)
      /\ f[1] = Quot(f[2], nplanes) /\ f[0] = Quot(f[1], nblocks)
  BY RestIs
<1>2. /\ d = [i \in Field |-> Mod(f[i], usize[i])]
      /\ d[3] = Mod(f[3], nluns) /\ d[2] = Mod(f[2], nplanes)
      /\ d[1] = Mod(f[1], nblocks) /\ d[0] = Mod(f[0], nchannels)
  BY AosIs, Radices
<1> HIDE DEF f, d
<1>3. /\ f[3] \in Nat /\ f[2] \in Nat /\ d[3] \in 0 .. nluns - 1
      /\ f[3] = f[2] * nluns + d[3]
  <2>1. f[3] \in Nat /\ nluns \in Nat \ {0}
    BY <1>1, Positive
  <2>2. /\ Quot(f[3], nluns) \in Nat /\ Mod(f[3], nluns) \in 0 .. nluns - 1
        /\ f[3] = Quot(f[3], nluns) * nluns + Mod(f[3], nluns)
    BY <2>1, Division
  <2> QED BY <1>1, <1>2, <2>1, <2>2
<1>4. /\ f[1] \in Nat /\ d[2] \in 0 .. nplanes - 1
      /\ f[2] = f[1] * nplanes + d[2]
  <2>1. f[2] \in Nat /\ nplanes \in Nat \ {0}
    BY <1>3, Positive
  <2>2. /\ Quot(f[2], nplanes) \in Nat /\ Mod(f[2], nplanes) \in 0 .. nplanes - 1
        /\ f[2] = Quot(f[2], nplanes) * nplanes + Mod(f[2], nplanes)
    BY <2>1, Division
  <2> QED BY <1>1, <1>2, <2>1, <2>2
<1>5. /\ f[0] \in Nat /\ d[1] \in 0 .. nblocks - 1
      /\ f[1] = f[0] * nblocks + d[1]
  <2>1. f[1] \in Nat /\ nblocks \in Nat \ {0}
    BY <1>4, Positive
  <2>2. /\ Quot(f[1], nblocks) \in Nat /\ Mod(f[1], nblocks) \in 0 .. nblocks - 1
        /\ f[1] = Quot(f[1], nblocks) * nblocks + Mod(f[1], nblocks)
    BY <2>1, Division
  <2> QED BY <1>1, <1>2, <2>1, <2>2
<1>11. d[0] \in 0 .. nchannels - 1
  BY <1>2, <1>5, Positive, Division
<1>6. d \in Numeral
  <2>1. \A i \in Field : d[i] \in Nat /\ d[i] < usize[i]
    BY <1>3, <1>4, <1>5, <1>11, Radices, Positive
  <2> QED BY <1>2, <2>1 DEF Numeral
<1>7. x = f[0] * BlocksOfChannel + Low(d)
  <2>1. x = ((f[0] * nblocks + d[1]) * nplanes + d[2]) * nluns + d[3]
    BY <1>1, <1>3, <1>4, <1>5
  <2>2. /\ f[0] \in Int /\ d[1] \in Int /\ d[2] \in Int /\ d[3] \in Int
        /\ nblocks \in Int /\ nplanes \in Int /\ nluns \in Int
    BY <1>3, <1>4, <1>5, Positive
  <2> QED BY <2>1, <2>2 DEF Low, BlocksOfChannel
<1>8. /\ Val(d) = d[0] * BlocksOfChannel + Low(d) /\ Low(d) \in 0 .. BlocksOfChannel - 1
  BY <1>6, ChannelAndLow
<1>9. f[0] < nchannels
  BY <1>5, <1>7, <1>8, TopInRange
<1>10. d[0] = f[0]
  BY <1>2, <1>5, <1>9, Positive, Division
<1> QED BY <1>6, <1>7, <1>8, <1>10 DEF d

(***************************************************************************)
(* What BlkAddrHandle does with the addresses of a channel.                *)
(***************************************************************************)

\* The fields of lowest_ and highest_ of a channel's handle.
Lowest(ch)  == [i \in Field |-> IF i = format.ch THEN ch ELSE 0]
Highest(ch) == [i \in Field |-> IF i = format.ch THEN ch ELSE usize[i] - 1]

\* The lowest and the highest address are the first and last place of a channel.
LEMMA Bounds ==
    ASSUME NEW ch \in 0 .. nchannels - 1
    PROVE  /\ Lowest(ch) \in Numeral /\ Low(Lowest(ch)) = 0 /\ Lowest(ch)[0] = ch
           /\ Highest(ch) \in Numeral /\ Low(Highest(ch)) = BlocksOfChannel - 1
           /\ Highest(ch)[0] = ch
<1>1. /\ Lowest(ch)[0] = ch /\ Lowest(ch)[1] = 0 /\ Lowest(ch)[2] = 0 /\ Lowest(ch)[3] = 0
      /\ Highest(ch)[0] = ch /\ Highest(ch)[1] = nblocks - 1
      /\ Highest(ch)[2] = nplanes - 1 /\ Highest(ch)[3] = nluns - 1
  BY Radices DEF Lowest, Highest, format
<1>2. Lowest(ch) \in Numeral /\ Highest(ch) \in Numeral
  <2>1. \A i \in Field : /\ Lowest(ch)[i] \in Nat /\ Lowest(ch)[i] < usize[i]
                        /\ Highest(ch)[i] \in Nat /\ Highest(ch)[i] < usize[i]
    BY <1>1, Radices, Positive
  <2> QED BY <2>1 DEF Numeral, Lowest, Highest
<1>3. Low(Lowest(ch)) = 0
  BY <1>1, Positive DEF Low
<1>4. Low(Highest(ch)) = BlocksOfChannel - 1
  <2>1. ((nblocks - 1) * nplanes + (nplanes - 1)) = nblocks * nplanes - 1
    BY Positive
  <2>2. nblocks * nplanes \in Int
    BY Positive
  <2>3. (nblocks * nplanes - 1) * nluns + (nluns - 1) = (nblocks * nplanes) * nluns - 1
    BY <2>2, Positive
  <2> QED BY <1>1, <2>1, <2>3 DEF Low, BlocksOfChannel
<1> QED BY <1>1, <1>2, <1>3, <1>4

LEMMA ByChannel ==
    ASSUME NEW v \in Numeral, NEW w \in Numeral
    PROVE  /\ v[0] = w[0] => Distance(v, w) = Low(v) - Low(w)
           /\ v[0] < w[0] => Distance(v, w) < 0
           /\ Distance(v, w) = Val(v) - Val(w) /\ Val(v) \in Nat /\ Val(w) \in Nat
           /\ Val(v) < Total
<1>1. Digits(v) /\ Digits(w)
  BY NumeralIs
<1>2. /\ Val(v) = v[0] * BlocksOfChannel + Low(v) /\ Low(v) \in 0 .. BlocksOfChannel - 1
      /\ Val(w) = w[0] * BlocksOfChannel + Low(w) /\ Low(w) \in 0 .. BlocksOfChannel - 1
      /\ BlocksOfChannel \in Nat \ {0} /\ Total = nchannels * BlocksOfChannel
  BY ChannelAndLow
<1>3. Distance(v, w) = Val(v) - Val(w)
  BY <1>1, DistanceIs DEF Digits
<1>4. v[0] \in Nat /\ w[0] \in Nat /\ v[0] < nchannels /\ nchannels \in Nat
  BY <1>1, Positive DEF Digits
<1>5. Val(v) \in Nat /\ Val(v) < Total
  BY <1>2, <1>4, Append
<1>6. Val(w) \in Nat
  <2>1. w[0] < w[0] + 1
    BY <1>4
  <2> QED BY <1>2, <1>4, <2>1, Append
<1>7. v[0] < w[0] => Val(v) < Val(w)
  <2>1. v[0] < w[0] => v[0] * BlocksOfChannel + Low(v) < w[0] * BlocksOfChannel + Low(w)
    <3>1. v[0] \in Int /\ w[0] \in Int
      BY <1>4
    <3> QED BY <1>2, <3>1, Append
  <2> QED BY <1>2, <2>1
<1>8. v[0] = w[0] => Distance(v, w) = Low(v) - Low(w)
  <2>1. v[0] * BlocksOfChannel \in Int
    BY <1>2, <1>4
  <2> QED BY <1>2, <1>3, <2>1
<1> QED BY <1>3, <1>5, <1>6, <1>7, <1>8

\* BlkAddrDiff counts the blocks from the lowest and to the highest address of
\* the address's channel: an address's place in the layout of blk_addr.h.
THEOREM DistanceTheorem ==
    ASSUME NEW v \in Numeral
    PROVE  /\ Distance(v, Lowest(v[0])) = Low(v)
           /\ Distance(Highest(v[0]), v) = (BlocksOfChannel - 1) - Low(v)
<1>1. v[0] \in 0 .. nchannels - 1
  BY NumeralIs DEF Digits
<1>2. Low(v) \in Int /\ BlocksOfChannel \in Int
  BY ChannelAndLow
<1>3. Distance(v, Lowest(v[0])) = Low(v) - 0
  BY <1>1, Bounds, ByChannel
<1>4. Distance(Highest(v[0]), v) = (BlocksOfChannel - 1) - Low(v)
  BY <1>1, Bounds, ByChannel
<1> QED BY <1>2, <1>3, <1>4

\* BlkAddrAdd moves an address up and BlkAddrSub down by as many blocks as they
\* are told, if BlkAddrDiff finds so many in the channel; every field keeps a
\* value of its radix, and the channel stays (do_add, do_sub).
THEOREM MovesTheorem ==
    ASSUME NEW v \in Numeral, NEW x \in Nat
    PROVE  /\ x <= Distance(Highest(v[0]), v) =>
                LET r == DoAdd(v, Aos(x))
                IN  r \in Numeral /\ r[0] = v[0] /\ Distance(r, v) = x
           /\ x <= Distance(v, Lowest(v[0])) =>
                LET r == DoSub(v, Aos(x))
                IN  r \in Numeral /\ r[0] = v[0] /\ Distance(v, r) = x
<1> DEFINE top == Highest(v[0])
           bottom == Lowest(v[0])
<1>1. /\ top \in Numeral /\ bottom \in Numeral /\ top[0] = v[0] /\ bottom[0] = v[0]
  BY NumeralIs, Bounds DEF Digits
<1> HIDE DEF top, bottom
<1>2. /\ Val(v) \in Nat /\ Val(top) \in Nat /\ Val(bottom) \in Nat
      /\ Val(v) < Total /\ Val(top) < Total /\ Total \in Int
      /\ Distance(top, v) = Val(top) - Val(v) /\ Distance(v, bottom) = Val(v) - Val(bottom)
  <2>1. Total \in Int
    BY Radices, Positive DEF Total
  <2> QED BY <1>1, <2>1, ByChannel
<1>3. ASSUME NEW r \in Numeral, Val(bottom) <= Val(r), Val(r) <= Val(top)
      PROVE  r[0] = v[0]
  <2>1. ~(r[0] < bottom[0])
    BY <1>1, <1>2, <1>3, ByChannel
  <2>2. ~(top[0] < r[0])
    BY <1>1, <1>2, <1>3, ByChannel
  <2>3. r[0] \in Int /\ v[0] \in Int
    BY NumeralIs DEF Digits
  <2> QED BY <1>1, <2>1, <2>2, <2>3
<1>4. Distance(top, v) >= 0 /\ Distance(v, bottom) >= 0
  <2>1. /\ Distance(v, bottom) = Low(v)
        /\ Distance(top, v) = (BlocksOfChannel - 1) - Low(v)
    BY DistanceTheorem DEF top, bottom
  <2>2. Low(v) \in 0 .. BlocksOfChannel - 1 /\ BlocksOfChannel \in Nat
    BY ChannelAndLow
  <2> QED BY <2>1, <2>2
<1>5. ASSUME x <= Distance(top, v), NEW r, r = DoAdd(v, Aos(x))
      PROVE  r \in Numeral /\ r[0] = v[0] /\ Distance(r, v) = x
  <2>1. Val(v) + x <= Val(top)
    BY <1>2, <1>5
  <2>2. Aos(x) \in Numeral /\ Val(Aos(x)) = x
    BY <1>2, <2>1, AosOfNumber
  <2>3. r \in Numeral /\ Val(r) = Val(v) + x
    BY <1>2, <1>5, <2>1, <2>2, DoAddMoves
  <2>4. r[0] = v[0]
    BY <1>2, <1>3, <1>4, <2>1, <2>3
  <2>5. Distance(r, v) = Val(r) - Val(v)
    BY <2>3, ByChannel
  <2> QED BY <1>2, <2>3, <2>4, <2>5
<1>6. ASSUME x <= Distance(v, bottom), NEW r, r = DoSub(v, Aos(x))
      PROVE  r \in Numeral /\ r[0] = v[0] /\ Distance(v, r) = x
  <2>1. Val(bottom) <= Val(v) - x
    BY <1>2, <1>6
  <2>2. Aos(x) \in Numeral /\ Val(Aos(x)) = x
    BY <1>2, <2>1, AosOfNumber
  <2>3. r \in Numeral /\ Val(r) = Val(v) - x
    BY <1>2, <1>6, <2>1, <2>2, DoSubMoves
  <2>4. r[0] = v[0]
    BY <1>2, <1>3, <1>4, <2>1, <2>3
  <2>5. Distance(v, r) = Val(v) - Val(r)
    BY <2>3, ByChannel
  <2> QED BY <1>2, <2>3, <2>4, <2>5
<1> QED BY <1>5, <1>6 DEF top, bottom

\* The order in which the packed fields compare.
Before(v, w) == \E i \in Field : v[i] < w[i] /\ \A j \in Field : j < i => v[j] = w[j]

\* The address that compares less, field by field from the channel down, comes
\* first by BlkAddrDiff too, and only equal addresses are at distance 0
\* (operator==, operator<).
THEOREM OrderTheorem ==
    ASSUME NEW v \in Numeral, NEW w \in Numeral
    PROVE  /\ Before(v, w) <=> Distance(v, w) < 0
           /\ v = w <=> Distance(v, w) = 0
<1>1. ASSUME NEW a \in Numeral, NEW b \in Numeral, Before(a, b)
      PROVE  Distance(a, b) < 0
  <2>1. Digits(a) /\ Digits(b)
    BY NumeralIs
  <2>2. CASE a[0] < b[0]
    BY <2>2, ByChannel
  <2>3. CASE a[0] = b[0] /\ a[1] < b[1]
    <3>1. a[1] * nplanes + a[2] < b[1] * nplanes + b[2]
      BY <2>1, <2>3, Positive, Append DEF Digits
    <3>2. a[1] * nplanes + a[2] \in Int /\ b[1] * nplanes + b[2] \in Int
      BY <2>1, Positive, Append DEF Digits
    <3>3. Low(a) < Low(b)
      BY <2>1, <3>1, <3>2, Positive, Append DEF Digits, Low
    <3> QED BY <2>3, <3>3, ByChannel, ChannelAndLow
  <2>4. CASE a[0] = b[0] /\ a[1] = b[1] /\ a[2] < b[2]
    <3>1. a[1] * nplanes \in Int
      BY <2>1, Positive, Append DEF Digits
    <3>2. /\ a[1] * nplanes + a[2] \in Int /\ b[1] * nplanes + b[2] \in Int
          /\ a[1] * nplanes + a[2] < b[1] * nplanes + b[2]
      BY <2>1, <2>4, <3>1 DEF Digits
    <3>3. Low(a) < Low(b)
      BY <2>1, <3>2, Positive, Append DEF Digits, Low
    <3> QED BY <2>4, <3>3, ByChannel, ChannelAndLow
  <2>5. CASE a[0] = b[0] /\ a[1] = b[1] /\ a[2] = b[2] /\ a[3] < b[3]
    <3>1. a[1] * nplanes + a[2] \in Int
      BY <2>1, Positive, Append DEF Digits
    <3>2. (a[1] * nplanes + a[2]) * nluns \in Int
      BY <3>1, Positive, Append
    <3>3. Low(a) < Low(b)
      BY <2>1, <2>5, <3>2 DEF Digits, Low
    <3> QED BY <2>5, <3>3, ByChannel, ChannelAndLow
  <2> QED BY <1>1, <2>2, <2>3, <2>4, <2>5, Radices DEF Before
<1>2. Before(v, w) \/ Before(w, v) \/ v = w
  <2>1. Digits(v) /\ Digits(w)
    BY NumeralIs
  <2>2. CASE v[0] = w[0] /\ v[1] = w[1] /\ v[2] = w[2] /\ v[3] = w[3]
    <3>1. \A i \in Field : v[i] = w[i]
      BY <2>2, Radices
    <3> QED BY <2>1, <3>1 DEF Digits
  <2>3. ASSUME NEW i \in Field, v[i] # w[i], \A j \in Field : j < i => v[j] = w[j]
        PROVE  Before(v, w) \/ Before(w, v)
    <3>1. v[i] \in Int /\ w[i] \in Int
      BY <2>1 DEF Digits
    <3> QED BY <2>3, <3>1 DEF Before
  <2>4. CASE v[0] # w[0]
    BY <2>3, <2>4, Radices
  <2>5. CASE v[0] = w[0] /\ v[1] # w[1]
    BY <2>3, <2>5, Radices
  <2>6. CASE v[0] = w[0] /\ v[1] = w[1] /\ v[2] # w[2]
    BY <2>3, <2>6, Radices
  <2>7. CASE v[0] = w[0] /\ v[1] = w[1] /\ v[2] = w[2] /\ v[3] # w[3]
    BY <2>3, <2>7, Radices
  <2> QED BY <2>2, <2>4, <2>5, <2>6, <2>7
<1>3. /\ Distance(v, w) = Val(v) - Val(w) /\ Distance(w, v) = Val(w) - Val(v)
      /\ Val(v) \in Int /\ Val(w) \in Int
  BY ByChannel
<1> QED BY <1>1, <1>2, <1>3
=============================================================================
