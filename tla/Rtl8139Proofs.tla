--------------------------- MODULE Rtl8139Proofs ---------------------------
(***************************************************************************)
(* Proofs about Rtl8139: it implements Nic, never goes deaf and keeps step *)
(* with the chip's descriptors, for any lengths of ring, registers and     *)
(* frames, any number of frames, and any order of what chip and driver do. *)
(***************************************************************************)
EXTENDS Rtl8139, TLAPS

(* The arithmetic of the ring: remainders do not see multiples of the      *)
(* modulus.                                                                *)
LEMMA Division ==
  ASSUME NEW m \in Nat \ {0}, NEW a \in Int
  PROVE  a \div m \in Int /\ a % m \in 0..(m - 1) /\ a = m * (a \div m) + (a % m)
<1>1. a \div m \in Int
  OBVIOUS
<1>2. a % m \in 0..(m - 1)
  OBVIOUS
<1>3. a = m * (a \div m) + (a % m)
  OBVIOUS
<1> QED BY <1>1, <1>2, <1>3

LEMMA DivisionUnique ==
  ASSUME NEW m \in Nat \ {0}, NEW q \in Int, NEW r \in 0..(m - 1), NEW a \in Int, a = m * q + r
  PROVE  a % m = r /\ a \div m = q
<1>1. a = m * (a \div m) + (a % m) /\ a % m \in 0..(m - 1) /\ a \div m \in Int
  BY Division
<1> DEFINE p == a \div m
           s == a % m
<1>2. p \in Int /\ s \in 0..(m - 1) /\ m * p + s = m * q + r
  BY <1>1
<1> HIDE DEF p, s
<1>3. p = q
  <2>1. CASE p < q
    <3>1. p + 1 <= q
      BY <1>2, <2>1
    <3>2. m * (p + 1) <= m * q /\ m * (p + 1) = m * p + m
      BY <1>2, <3>1
    <3> QED BY <1>2, <3>2
  <2>2. CASE p > q
    <3>1. q + 1 <= p
      BY <1>2, <2>2
    <3>2. m * (q + 1) <= m * p /\ m * (q + 1) = m * q + m
      BY <1>2, <3>1
    <3> QED BY <1>2, <3>2
  <2> QED BY <1>2, <2>1, <2>2
<1>4. s = r
  BY <1>2, <1>3
<1> QED BY <1>3, <1>4 DEF p, s

LEMMA Multiples ==
  ASSUME NEW m \in Nat \ {0}, NEW a \in Int, NEW j \in Int
  PROVE  (a + m * j) % m = a % m /\ (a + m * j) \div m = a \div m + j
<1>1. a = m * (a \div m) + (a % m) /\ a % m \in 0..(m - 1) /\ a \div m \in Int
  BY Division
<1> DEFINE p == a \div m
           s == a % m
           c == a + m * j
           q == p + j
<1>2. p \in Int /\ s \in 0..(m - 1) /\ a = m * p + s
  BY <1>1
<1> HIDE DEF p, s
<1>3. q \in Int /\ c \in Int /\ c = m * q + s
  <2>1. m * (p + j) = m * p + m * j
    BY <1>2
  <2> QED BY <1>2, <2>1
<1> HIDE DEF c, q
<1>4. c % m = s /\ c \div m = q
  BY <1>2, <1>3, DivisionUnique
<1> QED BY <1>4 DEF c, q, p, s

LEMMA SmallMod ==
  ASSUME NEW m \in Nat \ {0}, NEW a \in Int
  PROVE  /\ a \in 0..(m - 1) => a % m = a
         /\ a \in (-m)..(-1) => a % m = a + m
         /\ a \in m..(2 * m - 1) => a % m = a - m
<1>1. ASSUME a \in 0..(m - 1) PROVE a % m = a
  <2>1. a = m * 0 + a
    OBVIOUS
  <2> QED BY <1>1, <2>1, DivisionUnique
<1>2. ASSUME a \in (-m)..(-1) PROVE a % m = a + m
  <2>1. a = m * (-1) + (a + m) /\ a + m \in 0..(m - 1)
    BY <1>2
  <2> QED BY <2>1, DivisionUnique
<1>3. ASSUME a \in m..(2 * m - 1) PROVE a % m = a - m
  <2>1. a = m * 1 + (a - m) /\ a - m \in 0..(m - 1)
    BY <1>3
  <2> QED BY <2>1, DivisionUnique
<1> QED BY <1>1, <1>2, <1>3

(* x is y, but for a multiple of m.                                        *)
Congruent(x, y, m) == \E j \in Int : x = y + m * j

LEMMA CongruentMod ==
  ASSUME NEW m \in Nat \ {0}, NEW x \in Int, NEW y \in Int
  PROVE  Congruent(x, y, m) <=> x % m = y % m
<1>1. ASSUME Congruent(x, y, m) PROVE x % m = y % m
  <2>1. PICK j \in Int : x = y + m * j
    BY <1>1 DEF Congruent
  <2> QED BY <2>1, Multiples
<1>2. ASSUME x % m = y % m PROVE Congruent(x, y, m)
  <2> DEFINE p == x \div m
             q == y \div m
             s == y % m
  <2>1. p \in Int /\ q \in Int /\ s \in Int /\ x = m * p + s /\ y = m * q + s
    BY <1>2
  <2> HIDE DEF p, q, s
  <2>2. m * (p - q) = m * p - m * q /\ p - q \in Int
    BY <2>1
  <2>3. x = y + m * (p - q)
    BY <2>1, <2>2
  <2> QED BY <2>2, <2>3 DEF Congruent
<1> QED BY <1>1, <1>2

LEMMA CongruentSelf ==
  ASSUME NEW m \in Nat \ {0}, NEW x \in Int
  PROVE  Congruent(x, x % m, m) /\ Congruent(x % m, x, m)
<1>1. x % m \in Int /\ (x % m) \in 0..(m - 1)
  OBVIOUS
<1>2. (x % m) % m = x % m
  BY <1>1, SmallMod
<1> QED BY <1>1, <1>2, CongruentMod

LEMMA CongruentSum ==
  ASSUME NEW m \in Nat \ {0}, NEW x \in Int, NEW y \in Int, NEW u \in Int, NEW v \in Int,
         Congruent(x, y, m), Congruent(u, v, m)
  PROVE  Congruent(x + u, y + v, m) /\ Congruent(x - u, y - v, m)
<1>1. PICK j \in Int : x = y + m * j
  BY DEF Congruent
<1>2. PICK k \in Int : u = v + m * k
  BY DEF Congruent
<1>3. m * (j + k) = m * j + m * k /\ m * (j - k) = m * j - m * k
  OBVIOUS
<1>4. x + u = (y + v) + m * (j + k) /\ x - u = (y - v) + m * (j - k)
  BY <1>1, <1>2, <1>3
<1>5. j + k \in Int /\ j - k \in Int
  OBVIOUS
<1> QED BY <1>4, <1>5, Zenon DEF Congruent

LEMMA CongruentTransitive ==
  ASSUME NEW m \in Nat \ {0}, NEW x \in Int, NEW y \in Int, NEW z \in Int,
         Congruent(x, y, m), Congruent(y, z, m)
  PROVE  Congruent(x, z, m) /\ Congruent(z, x, m)
<1>1. x % m = y % m /\ y % m = z % m
  BY CongruentMod
<1> QED BY <1>1, CongruentMod

(* A remainder by a multiple of m loses nothing of the one by m.           *)
LEMMA CongruentWider ==
  ASSUME NEW m \in Nat \ {0}, NEW c \in Nat \ {0}, c % m = 0, NEW x \in Int
  PROVE  Congruent(x % c, x, m)
<1> DEFINE k == c \div m
           q == x \div c
           s == x % c
<1>1. k \in Int /\ q \in Int /\ s \in Int /\ c = m * k /\ x = c * q + s
  OBVIOUS
<1> HIDE DEF k, q, s
<1>2. c * q = m * (k * q) /\ k * q \in Int
  BY <1>1
<1>3. s = x + m * (-(k * q))
  <2>1. m * (-(k * q)) = -(m * (k * q))
    BY <1>2
  <2> QED BY <1>1, <1>2, <2>1
<1>4. -(k * q) \in Int
  BY <1>2
<1> QED BY <1>3, <1>4 DEF Congruent, s

-----------------------------------------------------------------------------
LEMMA RoundUpFacts ==
  ASSUME NEW n \in Nat
  PROVE  RoundUp(n) \in Nat /\ RoundUp(n) >= n /\ Congruent(RoundUp(n), 0, Word)
<1> DEFINE a == n + Word - 1
           q == a \div Word
           r == a % Word
<1>1. Word \in Nat \ {0} /\ a \in Nat
  BY WidthsAssumption
<1>2. q \in Int /\ r \in 0..(Word - 1) /\ a = Word * q + r
  BY <1>1, Division
<1>3. q \in Nat
  BY <1>1
<1>4. RoundUp(n) = q * Word
  BY DEF RoundUp
<1>5. q * Word = Word * q /\ q * Word \in Nat
  BY <1>1, <1>3
<1>6. RoundUp(n) = 0 + Word * q
  BY <1>4, <1>5
<1>7. Word * q = n + Word - 1 - r
  BY <1>1, <1>2
<1>8. RoundUp(n) >= n
  BY <1>1, <1>2, <1>6, <1>7
<1> QED BY <1>2, <1>4, <1>5, <1>6, <1>8 DEF Congruent

LEMMA RoundUpShift ==
  ASSUME NEW c \in Nat, Congruent(c, 0, Word), NEW n \in Nat
  PROVE  RoundUp(c + n) = c + RoundUp(n)
<1>1. PICK j \in Int : c = 0 + Word * j
  BY DEF Congruent
<1> DEFINE a == n + Word - 1
<1>2. Word \in Nat \ {0} /\ a \in Nat /\ (c + n) + Word - 1 = a + Word * j
  BY <1>1, WidthsAssumption
<1>3. (a + Word * j) \div Word = (a \div Word) + j
  BY <1>2, Multiples
<1>4. a \div Word \in Int
  BY <1>2
<1>5. RoundUp(c + n) = ((a \div Word) + j) * Word /\ RoundUp(n) = (a \div Word) * Word
  BY <1>2, <1>3 DEF RoundUp
<1> QED BY <1>1, <1>2, <1>4, <1>5

LEMMA StoredFacts ==
  ASSUME NEW n \in Sizes
  PROVE  /\ n \in Nat \ {0} /\ Stored(n) \in Nat /\ Stored(n) >= n + 2 * Word
         /\ 2 * Stored(n) + Word <= RingLen /\ Congruent(Stored(n), 0, Word)
<1>1. n \in Nat \ {0} /\ 2 * Stored(n) + Word <= RingLen
  BY SizesAssumption
<1>2. n + 2 * Word \in Nat
  BY <1>1, WidthsAssumption
<1> QED BY <1>1, <1>2, RoundUpFacts DEF Stored

LEMMA Widths ==
  /\ Word \in Nat \ {0} /\ RingLen \in Nat \ {0} /\ CapMod \in Nat \ {0} /\ IntMod \in Nat \ {0}
  /\ RingLen % Word = 0 /\ CapMod % RingLen = 0 /\ IntMod % CapMod = 0
  /\ IntMod % RingLen = 0 /\ IntMod % Word = 0 /\ Gap \in Nat
<1>1. /\ Word \in Nat \ {0} /\ RingLen \in Nat \ {0} /\ CapMod \in Nat \ {0} /\ IntMod \in Nat \ {0}
      /\ RingLen % Word = 0 /\ CapMod % RingLen = 0 /\ IntMod % CapMod = 0 /\ Gap \in Nat
  BY WidthsAssumption
<1>2. ASSUME NEW x \in Nat \ {0}, NEW y \in Nat \ {0}, NEW z \in Nat \ {0}, z % y = 0, y % x = 0
      PROVE  z % x = 0
  <2> DEFINE k == z \div y
             l == y \div x
  <2>1. k \in Int /\ l \in Int /\ z = y * k + 0 /\ y = x * l + 0
    BY <1>2, Division
  <2> HIDE DEF k, l
  <2>2. z = x * (l * k) + 0 /\ l * k \in Int
    BY <2>1
  <2>3. 0 \in 0..(x - 1)
    BY <1>2
  <2>4. l * k \in Int /\ z \in Int
    BY <2>1
  <2> QED BY <1>2, <2>2, <2>3, <2>4, DivisionUnique, SMTT(30)
<1>3. IntMod % RingLen = 0
  BY <1>1, <1>2
<1>4. IntMod % Word = 0
  BY <1>1, <1>2, <1>3
<1> QED BY <1>1, <1>3, <1>4

LEMMA RingWords == \E m \in Int : RingLen = Word * m
<1> DEFINE k == RingLen \div Word
<1>1. k \in Int /\ RingLen = Word * k + (RingLen % Word)
  BY Widths, Division
<1>2. RingLen = Word * k + 0
  BY <1>1, Widths
<1> HIDE DEF k
<1>3. RingLen = Word * k
  BY <1>1, <1>2, Widths
<1> QED BY <1>1, <1>3

-----------------------------------------------------------------------------
(* The transmitter: while rtl_transmit() waits, its descriptor is with the *)
(* chip, or was sent, or failed.                                           *)
TxInv ==
  /\ cur_tx \in 0..(NumTx - 1) /\ txdesc \in 0..(NumTx - 1) /\ TxOK \in BOOLEAN
  /\ pc # "transmit" => txdesc = cur_tx /\ txreq = NoTx /\ ~TxOK
  /\ pc = "transmit" => \/ txdesc = cur_tx /\ txreq \in {cur_tx, NoTx} /\ ~TxOK
                        \/ txdesc = (cur_tx + 1) % NumTx /\ txreq = NoTx /\ TxOK

(* Where frame f is, once the chip has written it from position p on.      *)
InRing(f, p) ==
  /\ ring[p % RingLen] = <<f, 0>>
  /\ \A k \in 1..f.size : ring[(p + Word + k - 1) % RingLen] = <<f, k>>

(* The frame at the driver's position that it has copied, but not passed.  *)
Passing == IF pc = "copied" THEN Stored(Len(packet)) ELSE 0

(* The frames of queue lie one behind the other, from the driver's         *)
(* position b to the chip's, the last of pos, and leave a word free.       *)
Layout(b, pos) ==
  /\ b \in Nat /\ Congruent(b, cur_rx, RingLen)
  /\ pos \in [1..(Len(queue) + 1) -> Nat]
  /\ pos[1] = b + Passing
  /\ \A k \in 1..Len(queue) : pos[k + 1] = pos[k] + Stored(queue[k].size)
  /\ \A k \in 1..Len(queue) : InRing(queue[k], pos[k])
  /\ \A j, k \in 1..(Len(queue) + 1) : j <= k => pos[j] <= pos[k]
  /\ cbr = pos[Len(queue) + 1] % RingLen
  /\ pos[Len(queue) + 1] - b <= RingLen - Word

RingInv ==
  /\ queue \in Seq(Frame) /\ cur_rx \in Nat /\ Congruent(cur_rx, 0, Word)
  /\ RxBufPtr = (cur_rx - Gap) % CapMod
  /\ pc = "poll" => queue # <<>>
  /\ pc = "copied" => Len(packet) \in Sizes
  /\ \E b, pos : Layout(b, pos)

(* An overflow leaves more than one frame, and one that rtl_poll() has not *)
(* seen is still raised, or was when it passed a frame and left another.   *)
OverflowInv ==
  /\ overflow \in {"none", "raised", "moved"} /\ status \in BOOLEAN
  /\ overflow = "raised" => Used > 0 /\ \A n \in Sizes : Used > Stored(n)
  /\ overflow = "moved" => Used > 0 \/ (pc = "moved" /\ status)
  /\ pc \in {"poll", "copied"} /\ overflow = "moved" => status
  /\ pc \in {"poll", "copied"} /\ status => overflow # "none"
  /\ pc = "moved" /\ status => overflow = "moved"

IInv == TxInv /\ RingInv /\ OverflowInv

-----------------------------------------------------------------------------
(* RxBufPtr, cut to its width and Gap behind, still tells the position.    *)
LEMMA PositionKept ==
  ASSUME NEW c \in Nat
  PROVE  (((c - Gap) % CapMod) + Gap) % RingLen = c % RingLen
<1>1. PICK p : p = (c - Gap) % CapMod
  OBVIOUS
<1>2. c \in Int /\ Gap \in Int /\ c - Gap \in Int
  BY Widths
<1>3. p \in Int
  BY <1>1, <1>2, Widths
<1>4. Congruent(p, c - Gap, RingLen)
  BY <1>1, <1>2, Widths, CongruentWider
<1>5. Congruent(Gap, Gap, RingLen)
  <2>1. Gap % RingLen = Gap % RingLen
    OBVIOUS
  <2> QED BY <1>2, <2>1, Widths, CongruentMod
<1>6. Congruent(p + Gap, (c - Gap) + Gap, RingLen)
  BY <1>2, <1>3, <1>4, <1>5, Widths, CongruentSum
<1>7. (c - Gap) + Gap = c /\ p + Gap \in Int
  BY <1>2, <1>3
<1>8. (p + Gap) % RingLen = c % RingLen
  BY <1>2, <1>6, <1>7, Widths, CongruentMod
<1> QED BY <1>1, <1>8

LEMMA ReadPosIs ==
  ASSUME RingInv
  PROVE  ReadPos = cur_rx % RingLen
  BY PositionKept DEF RingInv, ReadPos

(* The remainder of a difference, taken of the remainders.                 *)
LEMMA ModDifference ==
  ASSUME NEW x \in Int, NEW e \in Int
  PROVE  ((x % RingLen) - (e % RingLen)) % RingLen = (x - e) % RingLen
<1>1. (x % RingLen) \in Int /\ (e % RingLen) \in Int /\ x - e \in Int
  BY Widths
<1>2. (x % RingLen) - (e % RingLen) \in Int
  BY <1>1
<1>3. Congruent(x % RingLen, x, RingLen) /\ Congruent(e % RingLen, e, RingLen)
  BY Widths, CongruentSelf
<1>4. Congruent((x % RingLen) - (e % RingLen), x - e, RingLen)
  BY <1>1, <1>3, Widths, CongruentSum
<1> QED BY <1>1, <1>2, <1>4, Widths, CongruentMod

LEMMA UsedIs ==
  ASSUME RingInv, NEW b, NEW pos, Layout(b, pos)
  PROVE  /\ Len(queue) \in Nat /\ pos[1] \in Nat /\ pos[Len(queue) + 1] \in Nat
         /\ ReadPos = b % RingLen /\ cur_rx % RingLen = b % RingLen
         /\ Passing \in Nat /\ pos[1] = b + Passing /\ pos[1] <= pos[Len(queue) + 1]
         /\ Used = pos[Len(queue) + 1] - b
         /\ RxBufEmpty => Used = 0
<1>1. Len(queue) \in Nat /\ cur_rx \in Nat
  BY DEF RingInv
<1>2. 1 \in 1..(Len(queue) + 1) /\ Len(queue) + 1 \in 1..(Len(queue) + 1)
  BY <1>1
<1>3. pos[1] \in Nat /\ pos[Len(queue) + 1] \in Nat /\ pos[1] <= pos[Len(queue) + 1]
  BY <1>1, <1>2 DEF Layout
<1>4. b \in Nat /\ cur_rx % RingLen = b % RingLen
  <2>1. b \in Nat /\ Congruent(b, cur_rx, RingLen)
    BY DEF Layout
  <2>2. b \in Int /\ cur_rx \in Int
    BY <1>1, <2>1
  <2> QED BY <2>1, <2>2, Widths, CongruentMod
<1>5. ReadPos = b % RingLen
  BY <1>4, ReadPosIs
<1>6. Passing \in Nat /\ pos[1] = b + Passing
  BY StoredFacts DEF Passing, RingInv, Layout
<1>7. PICK u : u = pos[Len(queue) + 1] - b
  OBVIOUS
<1>8. u \in 0..(RingLen - 1)
  BY <1>3, <1>4, <1>6, <1>7, Widths DEF Layout
<1>9. cbr = pos[Len(queue) + 1] % RingLen
  BY DEF Layout
<1>10. Used = u % RingLen
  <2>1. PICK e : e = pos[Len(queue) + 1]
    OBVIOUS
  <2>2. e \in Int /\ b \in Int
    BY <1>3, <1>4, <2>1
  <2>3. ((e % RingLen) - (b % RingLen)) % RingLen = (e - b) % RingLen
    BY <2>2, ModDifference
  <2> QED BY <1>5, <1>7, <1>9, <2>1, <2>3 DEF Used
<1>11. Used = u
  BY <1>8, <1>10, Widths, SmallMod
<1>12. RxBufEmpty => Used = 0
  <2> SUFFICES ASSUME RxBufEmpty PROVE Used = 0
    OBVIOUS
  <2>1. cbr - ReadPos = 0
    BY <1>3, <1>9, Widths DEF RxBufEmpty
  <2>2. 0 % RingLen = 0
    BY Widths, SmallMod
  <2> QED BY <2>1, <2>2 DEF Used
<1> QED BY <1>1, <1>3, <1>4, <1>5, <1>6, <1>7, <1>11, <1>12

(* When the driver looks for a frame and the ring is not empty, there is   *)
(* one.                                                                    *)
LEMMA NotEmptyQueue ==
  ASSUME RingInv, pc # "copied", ~RxBufEmpty
  PROVE  queue # <<>>
<1>1. PICK b, pos : Layout(b, pos)
  BY DEF RingInv
<1> SUFFICES ASSUME queue = <<>> PROVE FALSE
  OBVIOUS
<1>2. Len(queue) = 0
  OBVIOUS
<1>3. pos[Len(queue) + 1] = b
  BY <1>1, <1>2, UsedIs DEF Passing, Layout
<1>4. cbr = b % RingLen
  BY <1>1, <1>3 DEF Layout
<1> QED BY <1>1, <1>4, UsedIs DEF RxBufEmpty

-----------------------------------------------------------------------------
(* Steps that leave the ring and what is known of it alone.                *)
LEMMA RingStays ==
  ASSUME RingInv, UNCHANGED <<ring, cbr, RxBufPtr, cur_rx, queue>>, Passing' = Passing,
         pc' = "poll" => queue # <<>>, pc' = "copied" => Len(packet') \in Sizes
  PROVE  RingInv'
<1>1. PICK b, pos : Layout(b, pos)
  BY DEF RingInv
<1>2. \A f, p : InRing(f, p)' = InRing(f, p)
  BY DEF InRing
<1>3. Layout(b, pos)'
  BY <1>1, <1>2 DEF Layout
<1> QED BY <1>3 DEF RingInv

LEMMA UsedStays ==
  ASSUME UNCHANGED <<cbr, RxBufPtr>>
  PROVE  Used' = Used
  BY DEF Used, ReadPos

LEMMA ZeroFits ==
  Congruent(0, 0, RingLen) /\ Congruent(0, 0, Word) /\ 0 % RingLen = 0 /\ 0 <= RingLen - Word
<1>1. 0 = 0 + RingLen * 0 /\ 0 = 0 + Word * 0
  BY Widths
<1>2. 0 <= RingLen - Word
  <2>1. PICK k \in Int : RingLen = Word * k
    BY RingWords
  <2>2. k > 0
    BY <2>1, Widths
  <2> QED BY <2>1, <2>2, Widths
<1>3. 0 % RingLen = 0
  BY Widths, SmallMod
<1> QED BY <1>1, <1>2, <1>3 DEF Congruent

LEMMA ResetRing ==
  ASSUME cur_rx' = 0, cbr' = 0, RxBufPtr' = (-Gap) % CapMod, queue' = <<>>, pc' \in {"idle", "off"}
  PROVE  RingInv'
<1>1. PICK pos : pos = [k \in 1..1 |-> 0]
  OBVIOUS
<1>2. Congruent(0, 0, RingLen) /\ Congruent(0, 0, Word) /\ 0 % RingLen = 0 /\ 0 <= RingLen - Word
  BY ZeroFits
<1>3. Len(queue') = 0 /\ Passing' = 0
  BY DEF Passing
<1>4. Layout(0, pos)'
  BY <1>1, <1>2, <1>3 DEF Layout
<1>5. -Gap = 0 - Gap
  BY Widths
<1> QED BY <1>2, <1>4, <1>5 DEF RingInv

-----------------------------------------------------------------------------
(* What the chip writes from position e on, and what it leaves.            *)
LEMMA Written ==
  ASSUME NEW f \in Frame, NEW e \in Int, cbr = e % RingLen, ring' = CellsOf(f), NEW x \in Int
  PROVE  /\ x = e => ring'[x % RingLen] = <<f, 0>>
         /\ \A k \in 1..f.size : x = e + Word + k - 1 => ring'[x % RingLen] = <<f, k>>
         /\ x - e \in (Stored(f.size) - RingLen)..(-1) => ring'[x % RingLen] = ring[x % RingLen]
<1>1. /\ f.size \in Nat \ {0} /\ Stored(f.size) \in Nat /\ Stored(f.size) >= f.size + 2 * Word
      /\ Stored(f.size) < RingLen
  BY StoredFacts, Widths DEF Frame
<1>2. PICK i : i = x % RingLen
  OBVIOUS
<1>3. i \in 0..(RingLen - 1)
  BY <1>2, Widths
<1>4. PICK d : d = (x - e) % RingLen
  OBVIOUS
<1>5. (i - cbr) % RingLen = d
  BY <1>2, <1>4, ModDifference
<1>6. ring'[i] = IF d >= Stored(f.size) THEN ring[i]
                 ELSE IF d = 0 THEN <<f, 0>>
                 ELSE IF d \in Word..(Word + f.size - 1) THEN <<f, d - Word + 1>> ELSE Junk
  BY <1>3, <1>5 DEF CellsOf
<1>7. ASSUME x = e PROVE ring'[i] = <<f, 0>>
  <2>1. x - e = 0 /\ 0 \in 0..(RingLen - 1)
    BY <1>7, Widths
  <2>2. d = 0
    BY <1>4, <2>1, Widths, SmallMod
  <2> QED BY <1>1, <1>6, <2>2, Widths
<1>8. ASSUME NEW k \in 1..f.size, x = e + Word + k - 1 PROVE ring'[i] = <<f, k>>
  <2>1. x - e = Word + k - 1 /\ x - e \in 0..(RingLen - 1) /\ x - e \in Int
    BY <1>1, <1>8, Widths
  <2>2. d = Word + k - 1
    BY <1>4, <2>1, Widths, SmallMod
  <2>3. ~(d >= Stored(f.size)) /\ d # 0 /\ d \in Word..(Word + f.size - 1) /\ d - Word + 1 = k
    BY <1>1, <2>2, Widths
  <2> QED BY <1>6, <2>3
<1>9. ASSUME x - e \in (Stored(f.size) - RingLen)..(-1) PROVE ring'[i] = ring[i]
  <2>1. x - e \in (-RingLen)..(-1) /\ x - e \in Int
    BY <1>1, <1>9, Widths
  <2>2. d = (x - e) + RingLen
    BY <1>4, <2>1, Widths, SmallMod
  <2>3. d >= Stored(f.size)
    BY <1>1, <1>9, <2>2, Widths
  <2> QED BY <1>6, <2>3
<1> QED BY <1>2, <1>7, <1>8, <1>9

LEMMA ReceiveKeepsRing ==
  ASSUME RingInv, NEW f \in Frame, Receive(f)
  PROVE  RingInv'
<1>1. /\ Fits(f) /\ ring' = CellsOf(f) /\ cbr' = (cbr + Stored(f.size)) % RingLen
      /\ queue' = Append(queue, f) /\ UNCHANGED <<RxBufPtr, cur_rx, pc, packet>>
  BY DEF Receive, driver
<1>2. PICK b, pos : Layout(b, pos)
  BY DEF RingInv
<1>3. PICK l : l = Len(queue)
  OBVIOUS
<1>4. PICK e : e = pos[l + 1]
  OBVIOUS
<1>5. PICK s : s = Stored(f.size)
  OBVIOUS
<1>6. /\ l \in Nat /\ b \in Nat /\ e \in Nat /\ s \in Nat /\ Used = e - b /\ pos[1] >= b /\ pos[1] \in Nat
      /\ cbr = e % RingLen
  <2>1. l \in Nat /\ b \in Nat /\ e \in Nat /\ cbr = e % RingLen /\ Used = e - b
    BY <1>2, <1>3, <1>4, UsedIs DEF Layout
  <2>2. s \in Nat
    BY <1>5, StoredFacts DEF Frame
  <2>3. pos[1] \in Nat /\ Passing \in Nat /\ pos[1] = b + Passing
    BY <1>2, UsedIs
  <2> QED BY <2>1, <2>2, <2>3
<1>7. e - b + s <= RingLen - Word /\ f.size \in Nat
  BY <1>1, <1>5, <1>6, StoredFacts DEF Fits, Frame
<1>8. PICK p : p = [k \in 1..(l + 2) |-> IF k = l + 2 THEN e + s ELSE pos[k]]
  OBVIOUS
<1>9. /\ queue' \in Seq(Frame) /\ Len(queue') = l + 1 /\ queue'[l + 1] = f
      /\ \A k \in 1..l : queue'[k] = queue[k]
  BY <1>1, <1>3 DEF RingInv
<1>10. /\ \A k \in 1..(l + 1) : pos[k] \in Nat /\ p[k] = pos[k]
       /\ p[l + 2] = e + s /\ p \in [1..(l + 2) -> Nat]
  BY <1>2, <1>3, <1>6, <1>8 DEF Layout
<1>11. \A j, k \in 1..(l + 1) : j <= k => pos[j] <= pos[k]
  BY <1>2, <1>3 DEF Layout
<1>12. \A j, k \in 1..(l + 2) : j <= k => p[j] <= p[k]
  <2> SUFFICES ASSUME NEW j \in 1..(l + 2), NEW k \in 1..(l + 2), j <= k PROVE p[j] <= p[k]
    OBVIOUS
  <2>1. CASE k = l + 2 /\ j # l + 2
    <3>1. j \in 1..(l + 1) /\ l + 1 \in 1..(l + 1) /\ j <= l + 1
      BY <1>6, <2>1
    <3>2. pos[j] <= e /\ pos[j] \in Nat /\ p[j] = pos[j]
      BY <1>4, <1>10, <1>11, <3>1
    <3> QED BY <1>6, <1>10, <2>1, <3>2
  <2>2. CASE k = l + 2 /\ j = l + 2
    BY <1>6, <1>10, <2>2
  <2>3. CASE k # l + 2
    <3>1. j \in 1..(l + 1) /\ k \in 1..(l + 1)
      BY <1>6, <2>3
    <3> QED BY <1>10, <1>11, <3>1
  <2> QED BY <2>1, <2>2, <2>3
<1>13. \A k \in 1..(l + 1) : p[k + 1] = p[k] + Stored(queue'[k].size)
  <2> SUFFICES ASSUME NEW k \in 1..(l + 1) PROVE p[k + 1] = p[k] + Stored(queue'[k].size)
    OBVIOUS
  <2>1. CASE k = l + 1
    <3>1. k + 1 = l + 2 /\ p[k] = e
      BY <1>4, <1>6, <1>10, <2>1
    <3> QED BY <1>5, <1>9, <1>10, <2>1, <3>1
  <2>2. CASE k # l + 1
    <3>1. k \in 1..l /\ k + 1 \in 1..(l + 1)
      BY <1>6, <2>2
    <3>2. pos[k + 1] = pos[k] + Stored(queue[k].size)
      BY <1>2, <1>3, <3>1 DEF Layout
    <3> QED BY <1>9, <1>10, <3>1, <3>2
  <2> QED BY <2>1, <2>2
<1>14. \A k \in 1..(l + 1) : InRing(queue[k], p[k])'
  <2> SUFFICES ASSUME NEW k \in 1..(l + 1) PROVE InRing(queue[k], p[k])'
    OBVIOUS
  <2>1. CASE k = l + 1
    <3>1. p[k] = e /\ queue'[k] = f
      BY <1>4, <1>6, <1>9, <1>10, <2>1
    <3>2. ring'[e % RingLen] = <<f, 0>>
      BY <1>1, <1>6, Written
    <3>3. ASSUME NEW i \in 1..f.size PROVE ring'[(e + Word + i - 1) % RingLen] = <<f, i>>
      <4>1. PICK x : x = e + Word + i - 1
        OBVIOUS
      <4>2. x \in Int
        BY <1>6, <1>7, <4>1, Widths
      <4> QED BY <1>1, <1>6, <4>1, <4>2, Written
    <3> QED BY <3>1, <3>2, <3>3 DEF InRing
  <2>2. CASE k # l + 1
    <3>1. k \in 1..l /\ k + 1 \in 1..(l + 1) /\ l + 1 \in 1..(l + 1) /\ 1 \in 1..(l + 1)
      BY <1>6, <2>2
    <3>2. PICK g : g = queue[k]
      OBVIOUS
    <3>3. PICK c : c = pos[k]
      OBVIOUS
    <3>4. queue'[k] = g /\ p[k] = c /\ g \in Frame /\ c \in Nat
      BY <1>3, <1>9, <1>10, <3>1, <3>2, <3>3 DEF RingInv
    <3>5. /\ g.size \in Nat \ {0} /\ Stored(g.size) \in Nat /\ Stored(g.size) >= g.size + 2 * Word
      BY <3>4, StoredFacts DEF Frame
    <3>6. InRing(g, c) /\ c + Stored(g.size) <= e /\ b <= c
      <4>1. pos[k + 1] = c + Stored(g.size) /\ InRing(g, c)
        BY <1>2, <1>3, <3>1, <3>2, <3>3 DEF Layout
      <4>2. pos[k + 1] <= e /\ pos[1] <= c
        BY <1>4, <1>11, <3>1, <3>3
      <4> QED BY <1>6, <3>4, <4>1, <4>2
    <3>7. ASSUME NEW x \in Int, x >= c, x < c + Stored(g.size)
          PROVE  ring'[x % RingLen] = ring[x % RingLen]
      <4>1. x - e \in (s - RingLen)..(-1)
        BY <1>6, <1>7, <3>4, <3>5, <3>6, <3>7, Widths
      <4> QED BY <1>1, <1>5, <1>6, <4>1, Written
    <3>8. ring'[c % RingLen] = <<g, 0>>
      <4>1. c \in Int /\ c >= c /\ c < c + Stored(g.size)
        BY <3>4, <3>5, Widths
      <4> QED BY <3>6, <3>7, <4>1 DEF InRing
    <3>9. ASSUME NEW i \in 1..g.size PROVE ring'[(c + Word + i - 1) % RingLen] = <<g, i>>
      <4>1. PICK x : x = c + Word + i - 1
        OBVIOUS
      <4>2. x \in Int /\ x >= c /\ x < c + Stored(g.size)
        BY <3>4, <3>5, <4>1, Widths
      <4>3. ring[x % RingLen] = <<g, i>>
        BY <3>6, <4>1 DEF InRing
      <4> QED BY <3>7, <4>1, <4>2, <4>3
    <3> QED BY <3>4, <3>8, <3>9 DEF InRing
  <2> QED BY <2>1, <2>2
<1>15. cbr' = (e + s) % RingLen
  <2>1. cbr \in Int /\ Congruent(cbr, e, RingLen) /\ e \in Int /\ s \in Int
    <3>1. e \in Int /\ s \in Int
      BY <1>6
    <3>2. (e % RingLen) \in Int
      BY <3>1, Widths
    <3>3. Congruent(e % RingLen, e, RingLen)
      BY <3>1, Widths, CongruentSelf
    <3> QED BY <1>6, <3>1, <3>2, <3>3
  <2>2. Congruent(s, s, RingLen)
    <3>1. s % RingLen = s % RingLen
      OBVIOUS
    <3> QED BY <2>1, <3>1, Widths, CongruentMod
  <2>3. Congruent(cbr + s, e + s, RingLen) /\ cbr + s \in Int /\ e + s \in Int
    BY <2>1, <2>2, Widths, CongruentSum
  <2> QED BY <1>1, <1>5, <2>3, Widths, CongruentMod
<1>16. Passing' = Passing
  BY <1>1 DEF Passing
<1>17. Layout(b, p)'
  <2>1. (l + 1) + 1 = l + 2 /\ 1 \in 1..(l + 1)
    BY <1>6
  <2>2. p[1] = b + Passing
    BY <1>2, <1>10, <2>1 DEF Layout
  <2>3. b \in Nat /\ Congruent(b, cur_rx, RingLen)
    BY <1>2 DEF Layout
  <2>4. p[l + 2] - b <= RingLen - Word
    BY <1>6, <1>7, <1>10, Widths
  <2> QED BY <1>1, <1>9, <1>10, <1>12, <1>13, <1>14, <1>15, <1>16, <2>1, <2>2, <2>3, <2>4 DEF Layout
<1> QED BY <1>1, <1>9, <1>17 DEF RingInv

-----------------------------------------------------------------------------
(* What rtl_poll() finds at its position, and what it copies from there,   *)
(* in one part or in two.                                                  *)
LEMMA HeadInRing ==
  ASSUME RingInv, pc = "poll"
  PROVE  /\ queue # <<>> /\ Head(queue) \in Frame /\ Head(queue) = queue[1] /\ Len(queue) \in Nat \ {0}
         /\ Header = <<Head(queue), 0>>
         /\ \E b \in Nat : /\ cur_rx % RingLen = b % RingLen
                           /\ InRing(Head(queue), b)
<1>1. queue # <<>> /\ queue \in Seq(Frame)
  BY DEF RingInv
<1>2. Head(queue) \in Frame /\ Head(queue) = queue[1] /\ Len(queue) \in Nat \ {0}
  BY <1>1
<1>3. PICK b, pos : Layout(b, pos)
  BY DEF RingInv
<1>4. 1 \in 1..Len(queue)
  BY <1>2
<1>5. InRing(queue[1], pos[1])
  BY <1>3, <1>4 DEF Layout
<1>6. b \in Nat /\ cur_rx % RingLen = b % RingLen /\ pos[1] = b
  <2>1. pos[1] = b + Passing /\ b \in Nat
    BY <1>3 DEF Layout
  <2>2. Passing = 0
    BY DEF Passing
  <2>3. cur_rx % RingLen = b % RingLen
    BY <1>3, UsedIs
  <2> QED BY <2>1, <2>2, <2>3
<1>7. Header = <<Head(queue), 0>>
  BY <1>2, <1>5, <1>6 DEF Header, ring_offs, InRing
<1> QED BY <1>1, <1>2, <1>5, <1>6, <1>7

LEMMA CopiedWhole ==
  ASSUME RingInv, pc = "poll"
  PROVE  Copied(Head(queue).size) = N!Payload(Head(queue))
<1>1. PICK f : f = Head(queue)
  OBVIOUS
<1>2. PICK n : n = f.size
  OBVIOUS
<1>3. PICK b \in Nat : cur_rx % RingLen = b % RingLen /\ InRing(f, b)
  BY <1>1, HeadInRing
<1>4. PICK o : o = cur_rx % RingLen
  OBVIOUS
<1>5. f \in Frame /\ n \in Sizes
  BY <1>1, <1>2, HeadInRing DEF Frame
<1>6. n \in Nat \ {0} /\ Stored(n) \in Nat /\ Stored(n) >= n + 2 * Word /\ 2 * Stored(n) + Word <= RingLen
  BY <1>5, StoredFacts
<1>7. n + 2 * Word < RingLen
  BY <1>6, Widths
<1>8. cur_rx \in Int /\ o \in 0..(RingLen - 1) /\ b \in Int
  BY <1>3, <1>4, Widths DEF RingInv
(* The position is at a word's start, and so is the end of the ring.       *)
<1>9. o + Word <= RingLen
  <2>1. Congruent(o, cur_rx, Word)
    <3>1. Congruent(o, cur_rx, RingLen)
      BY <1>4, <1>8, Widths, CongruentSelf
    <3>2. PICK j \in Int : o = cur_rx + RingLen * j
      BY <3>1 DEF Congruent
    <3>3. PICK m \in Int : RingLen = Word * m
      BY RingWords
    <3>4. RingLen * j = Word * (m * j) /\ m * j \in Int
      BY <3>2, <3>3, Widths
    <3> QED BY <3>2, <3>4 DEF Congruent
  <2>2. Congruent(o, 0, Word)
    <3>1. Congruent(cur_rx, 0, Word)
      BY DEF RingInv
    <3>2. o \in Int /\ 0 \in Int /\ cur_rx \in Int
      BY <1>8
    <3> QED BY <2>1, <3>1, <3>2, Widths, CongruentTransitive
  <2>3. PICK i \in Int : o = 0 + Word * i
    BY <2>2 DEF Congruent
  <2>4. PICK m \in Int : RingLen = Word * m
    BY RingWords
  <2>5. i < m
    <3> SUFFICES ASSUME i >= m PROVE FALSE
      BY <2>3, <2>4
    <3>1. Word * i >= Word * m
      BY <2>3, <2>4, Widths
    <3> QED BY <1>8, <2>3, <2>4, <3>1, Widths
  <2>6. Word * (i + 1) <= Word * m /\ Word * (i + 1) = Word * i + Word
    BY <2>3, <2>4, <2>5, Widths
  <2> QED BY <1>8, <2>3, <2>4, <2>6, Widths
(* The ring behind the position, seen from its start.                      *)
<1>10. ASSUME NEW k \in 1..n, NEW x, x = o + Word + k - 1
       PROVE  /\ x < RingLen => ring[x] = <<f, k>>
              /\ x >= RingLen => ring[x - RingLen] = <<f, k>>
  <2>1. x = o + Word + k - 1
    BY <1>10
  <2>2. PICK y : y = b + Word + k - 1
    OBVIOUS
  <2>3. x \in 0..(2 * RingLen - 1) /\ x \in Int /\ y \in Int
    BY <1>6, <1>7, <1>8, <1>10, <2>1, <2>2, Widths
  <2>4. ring[y % RingLen] = <<f, k>>
    BY <1>2, <1>3, <1>10, <2>2 DEF InRing
  <2>5. x % RingLen = y % RingLen
    <3>1. Congruent(o, b, RingLen)
      BY <1>3, <1>4, <1>8, Widths, CongruentSelf
    <3>2. PICK j \in Int : o = b + RingLen * j
      BY <3>1 DEF Congruent
    <3>3. RingLen * j \in Int
      BY <3>2, Widths
    <3>4. x = y + RingLen * j
      BY <1>6, <1>8, <1>10, <2>1, <2>2, <3>2, <3>3, Widths
    <3> QED BY <2>3, <3>2, <3>4, Widths, Multiples
  <2>6. x < RingLen => x % RingLen = x
    BY <2>3, Widths, SmallMod
  <2>7. x >= RingLen => x % RingLen = x - RingLen
    <3>1. x >= RingLen => x \in RingLen..(2 * RingLen - 1)
      BY <2>3, Widths
    <3> QED BY <2>3, <3>1, Widths, SmallMod
  <2>8. x < RingLen => ring[x] = <<f, k>>
    BY <2>4, <2>5, <2>6
  <2>9. x >= RingLen => ring[x - RingLen] = <<f, k>>
    BY <2>4, <2>5, <2>7
  <2> QED BY <2>8, <2>9
<1>11. ring_offs = o
  BY <1>4 DEF ring_offs
<1>12. CASE o + Word + n > RingLen
  <2>1. PICK c : c = RingLen - o - Word
    OBVIOUS
  <2>2. c \in Nat
    BY <1>8, <1>9, <2>1, Widths
  <2>3. Copied(n) = [k \in 1..n |-> IF k <= c THEN At(o + Word + k - 1) ELSE At(k - c - 1)]
    BY <1>11, <1>12, <2>1 DEF Copied
  <2>4. ASSUME NEW k \in 1..n
        PROVE  (IF k <= c THEN At(o + Word + k - 1) ELSE At(k - c - 1)) = <<f, k>>
    <3>1. CASE k <= c
      <4>1. PICK x : x = o + Word + k - 1
        OBVIOUS
      <4>2. x < RingLen
        BY <1>6, <1>8, <2>1, <2>4, <3>1, <4>1, Widths
      <4>3. ring[x] = <<f, k>>
        BY <1>10, <2>4, <4>1, <4>2
      <4> QED BY <3>1, <4>1, <4>2, <4>3 DEF At
    <3>2. CASE ~(k <= c)
      <4>1. PICK x : x = o + Word + k - 1
        OBVIOUS
      <4>2. k - c - 1 = x - RingLen /\ x >= RingLen /\ k - c - 1 < RingLen
        BY <1>6, <1>7, <1>8, <2>1, <2>2, <2>4, <3>2, <4>1, Widths
      <4>3. ring[x - RingLen] = <<f, k>>
        BY <1>10, <2>4, <4>1, <4>2
      <4> QED BY <3>2, <4>2, <4>3 DEF At
    <3> QED BY <3>1, <3>2
  <2>5. Copied(n) = [k \in 1..n |-> <<f, k>>]
    BY <2>3, <2>4
  <2> QED BY <1>1, <1>2, <2>5 DEF N!Payload
<1>13. CASE ~(o + Word + n > RingLen)
  <2>1. Copied(n) = [k \in 1..n |-> At(o + Word + k - 1)]
    BY <1>11, <1>13 DEF Copied
  <2>2. ASSUME NEW k \in 1..n PROVE At(o + Word + k - 1) = <<f, k>>
    <3>1. PICK x : x = o + Word + k - 1
      OBVIOUS
    <3>2. x < RingLen
      BY <1>6, <1>8, <1>13, <2>2, <3>1, Widths
    <3>3. ring[x] = <<f, k>>
      BY <1>10, <2>2, <3>1, <3>2
    <3> QED BY <3>1, <3>2, <3>3 DEF At
  <2>3. Copied(n) = [k \in 1..n |-> <<f, k>>]
    BY <2>1, <2>2
  <2> QED BY <1>1, <1>2, <2>3 DEF N!Payload
<1> QED BY <1>12, <1>13

LEMMA PayloadLen ==
  ASSUME NEW f \in Frame
  PROVE  Len(N!Payload(f)) = f.size
<1>1. f.size \in Nat
  BY SizesAssumption DEF Frame
<1>2. N!Payload(f) \in Seq({f} \X Nat)
  BY <1>1 DEF N!Payload
<1>3. DOMAIN N!Payload(f) = 1..f.size
  BY DEF N!Payload
<1> QED BY <1>1, <1>2, <1>3

LEMMA PollCopyKeepsRing ==
  ASSUME RingInv, PollCopy
  PROVE  RingInv' /\ N!Poll
<1>1. /\ pc = "poll" /\ GoodHeader /\ pc' = "copied" /\ packet' = Copied(Header[1].size)
      /\ UNCHANGED <<ring, cbr, RxBufPtr, cur_rx>>
  BY DEF PollCopy, chip
<1>2. PICK f : f = Head(queue)
  OBVIOUS
<1>3. /\ queue # <<>> /\ f \in Frame /\ f = queue[1] /\ Len(queue) \in Nat \ {0} /\ Header = <<f, 0>>
  BY <1>1, <1>2, HeadInRing
<1>4. f.good /\ packet' = Copied(f.size)
  BY <1>1, <1>3 DEF GoodHeader
<1>5. packet' = N!Payload(f) /\ Len(packet') = f.size
  BY <1>1, <1>2, <1>3, <1>4, CopiedWhole, PayloadLen
<1>6. queue' = Tail(queue)
  BY <1>3 DEF PollCopy
<1>7. N!Poll
  BY <1>1, <1>2, <1>3, <1>4, <1>5, <1>6 DEF N!Poll
<1>8. PICK b, pos : Layout(b, pos)
  BY DEF RingInv
<1>9. PICK l : l = Len(queue)
  OBVIOUS
<1>10. /\ queue' \in Seq(Frame) /\ Len(queue') = l - 1 /\ l \in Nat \ {0}
       /\ \A k \in 1..(l - 1) : queue'[k] = queue[k + 1]
  BY <1>3, <1>6, <1>9 DEF RingInv
<1>11. PICK p : p = [k \in 1..l |-> pos[k + 1]]
  OBVIOUS
<1>12. /\ \A k \in 1..(l + 1) : pos[k] \in Nat
       /\ \A k \in 1..l : pos[k + 1] = pos[k] + Stored(queue[k].size)
       /\ \A k \in 1..l : InRing(queue[k], pos[k])
       /\ \A j, k \in 1..(l + 1) : j <= k => pos[j] <= pos[k]
       /\ b \in Nat /\ pos[1] = b /\ Congruent(b, cur_rx, RingLen)
       /\ cbr = pos[l + 1] % RingLen /\ pos[l + 1] - b <= RingLen - Word
  BY <1>1, <1>8, <1>9 DEF Layout, Passing
<1>13. \A k \in 1..l : k + 1 \in 1..(l + 1) /\ p[k] = pos[k + 1]
  BY <1>10, <1>11
<1>14. p \in [1..l -> Nat]
  BY <1>11, <1>12, <1>13
<1>15. p[1] = b + Passing'
  <2>1. 1 \in 1..l
    BY <1>10
  <2>2. p[1] = pos[1] + Stored(f.size)
    BY <1>3, <1>12, <1>13, <2>1
  <2> QED BY <1>1, <1>5, <1>12, <2>2 DEF Passing
<1>16. \A k \in 1..(l - 1) : k \in 1..l /\ k + 1 \in 1..l
  BY <1>10
<1>17. \A k \in 1..(l - 1) : p[k + 1] = p[k] + Stored(queue'[k].size)
  BY <1>10, <1>12, <1>13, <1>16
<1>18. \A k \in 1..(l - 1) : InRing(queue[k], p[k])'
  <2> SUFFICES ASSUME NEW k \in 1..(l - 1) PROVE InRing(queue[k], p[k])'
    OBVIOUS
  <2>1. InRing(queue[k + 1], p[k])
    BY <1>12, <1>13, <1>16
  <2> QED BY <1>1, <1>10, <2>1 DEF InRing
<1>19. \A j, k \in 1..l : j <= k => p[j] <= p[k]
  <2> SUFFICES ASSUME NEW j \in 1..l, NEW k \in 1..l, j <= k PROVE p[j] <= p[k]
    OBVIOUS
  <2>1. j + 1 <= k + 1 /\ j + 1 \in 1..(l + 1) /\ k + 1 \in 1..(l + 1)
    BY <1>10
  <2>2. pos[j + 1] <= pos[k + 1]
    BY <1>12, <2>1
  <2> QED BY <1>13, <2>2
<1>20. p[l] = pos[l + 1] /\ (l - 1) + 1 = l
  BY <1>10, <1>13
<1>21. Layout(b, p)'
  BY <1>1, <1>10, <1>12, <1>14, <1>15, <1>17, <1>18, <1>19, <1>20 DEF Layout
<1>22. Len(packet') \in Sizes
  BY <1>3, <1>5 DEF Frame
<1> QED BY <1>1, <1>7, <1>10, <1>21, <1>22 DEF RingInv

LEMMA PollMoveKeepsRing ==
  ASSUME RingInv, PollMove
  PROVE  /\ RingInv' /\ Len(packet) \in Sizes /\ Used \in Nat /\ Used' \in Nat
         /\ Used' = Used - Stored(Len(packet))
<1>1. /\ pc = "copied" /\ pc' = "moved" /\ cur_rx' = NextRx(Len(packet))
      /\ RxBufPtr' = (cur_rx' - Gap) % CapMod /\ UNCHANGED <<ring, cbr, packet, queue>>
  BY DEF PollMove
<1>2. PICK n : n = Len(packet)
  OBVIOUS
<1>3. PICK s : s = Stored(n)
  OBVIOUS
<1>4. n \in Sizes /\ n \in Nat /\ s \in Nat /\ Congruent(s, 0, Word)
  BY <1>1, <1>2, <1>3, StoredFacts DEF RingInv
<1>5. cur_rx \in Nat /\ Congruent(cur_rx, 0, Word)
  BY DEF RingInv
<1>6. PICK z : z = cur_rx + s
  OBVIOUS
<1>7. z \in Nat /\ z \in Int /\ cur_rx' = z % IntMod
  <2>1. cur_rx + (n + Word) + Word = cur_rx + (n + 2 * Word) /\ n + 2 * Word \in Nat
    BY <1>4, <1>5, Widths
  <2>2. RoundUp(cur_rx + (n + 2 * Word)) = cur_rx + RoundUp(n + 2 * Word)
    BY <1>5, <2>1, RoundUpShift
  <2>3. RoundUp(cur_rx + (n + Word) + Word) = z
    BY <1>3, <1>6, <2>1, <2>2 DEF Stored
  <2> QED BY <1>1, <1>2, <1>4, <1>5, <1>6, <2>3 DEF NextRx
<1>8. cur_rx' \in Nat /\ cur_rx' \in Int
  BY <1>7, Widths
<1>9. Congruent(cur_rx', 0, Word)
  <2>1. Congruent(cur_rx', z, Word)
    BY <1>7, Widths, CongruentWider
  <2>2. Congruent(z, 0 + 0, Word)
    BY <1>4, <1>5, <1>6, Widths, CongruentSum
  <2> QED BY <1>7, <1>8, <2>1, <2>2, Widths, CongruentTransitive
<1>10. PICK b, pos : Layout(b, pos)
  BY DEF RingInv
<1>11. PICK c : c = b + s
  OBVIOUS
<1>12. b \in Nat /\ Congruent(b, cur_rx, RingLen) /\ pos[1] = c /\ pos[Len(queue) + 1] \in Nat
       /\ pos[1] <= pos[Len(queue) + 1] /\ Used = pos[Len(queue) + 1] - b
  <2>1. b \in Nat /\ Congruent(b, cur_rx, RingLen) /\ pos[1] = b + Passing
    BY <1>10 DEF Layout
  <2>2. Passing = s
    BY <1>1, <1>2, <1>3 DEF Passing
  <2> QED BY <1>10, <1>11, <2>1, <2>2, UsedIs
<1>13. c \in Nat /\ Congruent(c, cur_rx', RingLen)
  <2>1. Congruent(cur_rx', z, RingLen)
    BY <1>7, Widths, CongruentWider
  <2>2. Congruent(s, s, RingLen)
    <3>1. s \in Int /\ s % RingLen = s % RingLen
      BY <1>4
    <3> QED BY <3>1, Widths, CongruentMod
  <2>3. Congruent(c, z, RingLen)
    BY <1>4, <1>5, <1>6, <1>11, <1>12, <2>2, Widths, CongruentSum
  <2>4. c \in Nat /\ c \in Int
    BY <1>4, <1>11, <1>12
  <2>5. c % RingLen = z % RingLen /\ cur_rx' % RingLen = z % RingLen
    BY <1>7, <1>8, <2>1, <2>3, <2>4, Widths, CongruentMod
  <2> QED BY <1>8, <2>4, <2>5, Widths, CongruentMod
<1>14. \A f, p : InRing(f, p)' = InRing(f, p)
  BY <1>1 DEF InRing
<1>15. Passing' = 0
  BY <1>1 DEF Passing
<1>16. pos[Len(queue) + 1] - c <= RingLen - Word
  <2>1. pos[Len(queue) + 1] - b <= RingLen - Word
    BY <1>10 DEF Layout
  <2> QED BY <1>4, <1>11, <1>12, <2>1, Widths
<1>17. Layout(c, pos)'
  <2>1. pos[1] = c + 0
    BY <1>12, <1>13
  <2> QED BY <1>1, <1>10, <1>13, <1>14, <1>15, <1>16, <2>1 DEF Layout
<1>18. RingInv'
  BY <1>1, <1>8, <1>9, <1>17 DEF RingInv
<1>19. Used' = pos[Len(queue) + 1] - c
  <2>1. ReadPos' = cur_rx' % RingLen
    BY <1>1, <1>8, PositionKept DEF ReadPos
  <2>2. cur_rx' % RingLen = c % RingLen
    <3>1. c \in Int /\ Congruent(c, cur_rx', RingLen)
      BY <1>13
    <3> QED BY <1>8, <3>1, Widths, CongruentMod
  <2>3. PICK e : e = pos[Len(queue) + 1]
    OBVIOUS
  <2>4. PICK u : u = e - c
    OBVIOUS
  <2>5. e \in Int /\ c \in Int /\ u \in 0..(RingLen - 1) /\ cbr' = e % RingLen
    <3>1. e \in Nat /\ c \in Nat /\ c <= e /\ e - c <= RingLen - Word
      BY <1>12, <1>13, <1>16, <2>3
    <3>2. cbr' = e % RingLen
      BY <1>1, <1>10, <2>3 DEF Layout
    <3> QED BY <2>4, <3>1, <3>2, Widths
  <2>6. ((e % RingLen) - (c % RingLen)) % RingLen = (e - c) % RingLen
    BY <2>5, ModDifference
  <2>7. u % RingLen = u
    BY <2>5, Widths, SmallMod
  <2>8. Used' = (cbr' - ReadPos') % RingLen
    BY DEF Used
  <2> QED BY <2>1, <2>2, <2>3, <2>4, <2>5, <2>6, <2>7, <2>8
<1>20. Used' = Used - s /\ Used \in Nat /\ Used' \in Nat
  BY <1>4, <1>11, <1>12, <1>13, <1>19
<1> QED BY <1>2, <1>3, <1>4, <1>18, <1>20

-----------------------------------------------------------------------------
(* The transmitter and the chip agree on the descriptor.                   *)
LEMMA NextTx == TxInv /\ [Next]_vars => TxInv'
<1> SUFFICES ASSUME TxInv, [Next]_vars PROVE TxInv'
  OBVIOUS
<1> USE NumbersAssumption
<1>1. ASSUME rtl_reset, pc' \in {"idle", "off"} PROVE TxInv'
  <2>1. /\ cur_tx' = 0 /\ txdesc' = 0 /\ txreq' = NoTx /\ TxOK' = FALSE /\ pc' # "transmit"
    BY <1>1 DEF rtl_reset, ResetPositions
  <2>2. 0 \in 0..(NumTx - 1)
    OBVIOUS
  <2> QED BY <2>1, <2>2 DEF TxInv
<1>2. CASE \E f \in Frame : Receive(f)
  BY <1>2 DEF Receive, TxInv, tx, driver
<1>3. CASE Overflow
  BY <1>3 DEF Overflow, TxInv, tx, driver
<1>4. CASE Transmitted
  <2>1. pc' = pc /\ cur_tx' = cur_tx /\ txreq = txdesc /\ txreq' = NoTx
    BY <1>4 DEF Transmitted, driver
  <2>2. pc = "transmit"
    BY <2>1 DEF TxInv, NoTx
  <2>3. (txdesc + 1) % NumTx \in 0..(NumTx - 1)
    BY DEF TxInv
  <2>4. txdesc' \in 0..(NumTx - 1) /\ TxOK' \in BOOLEAN
    BY <1>4, <2>3 DEF Transmitted, TxInv
  <2>5. txdesc = cur_tx /\ TxOK = FALSE
    BY <2>1, <2>2 DEF TxInv, NoTx
  <2>6. \/ TxOK' = TRUE /\ txdesc' = (cur_tx + 1) % NumTx
        \/ TxOK' = FALSE /\ txdesc' = cur_tx
    BY <1>4, <2>5 DEF Transmitted
  <2> QED BY <2>1, <2>2, <2>4, <2>6 DEF TxInv
<1>5. CASE PollStatus
  BY <1>5 DEF PollStatus, TxInv
<1>6. CASE PollBadFrame
  BY <1>1, <1>6 DEF PollBadFrame
<1>7. CASE PollCopy
  BY <1>7 DEF PollCopy, TxInv, tx
<1>8. CASE PollMove
  BY <1>8 DEF PollMove, TxInv, tx
<1>9. CASE PollAck
  BY <1>9 DEF PollAck, TxInv, tx
<1>10. CASE Transmit
  BY <1>10 DEF Transmit, TxInv
<1>11. CASE TransmitDone
  <2>1. /\ pc = "transmit" /\ pc' = "idle" /\ TxOK = TRUE /\ TxOK' = FALSE
        /\ cur_tx' = (cur_tx + 1) % NumTx /\ UNCHANGED <<txdesc, txreq>>
    BY <1>11 DEF TransmitDone, TxInv
  <2>2. txreq = NoTx /\ txdesc = (cur_tx + 1) % NumTx
    BY <2>1 DEF TxInv
  <2> QED BY <2>1, <2>2 DEF TxInv
<1>12. CASE TransmitFails \/ Disable
  BY <1>1, <1>12 DEF TransmitFails, Disable
<1>13. CASE Off \/ UNCHANGED vars
  BY <1>13 DEF Off, vars, TxInv, tx, driver
<1> QED BY <1>2, <1>3, <1>4, <1>5, <1>6, <1>7, <1>8, <1>9, <1>10, <1>11, <1>12, <1>13 DEF Next

LEMMA NextRing == RingInv /\ OverflowInv /\ [Next]_vars => RingInv'
<1> SUFFICES ASSUME RingInv, OverflowInv, [Next]_vars PROVE RingInv'
  OBVIOUS
<1>1. ASSUME rtl_reset, pc' \in {"idle", "off"} PROVE RingInv'
  BY <1>1, ResetRing DEF rtl_reset, ResetPositions
<1>2. CASE \E f \in Frame : Receive(f)
  BY <1>2, ReceiveKeepsRing
<1>3. CASE Overflow \/ Transmitted
  <2>1. UNCHANGED <<ring, cbr, RxBufPtr, cur_rx, queue, pc, packet>>
    BY <1>3 DEF Overflow, Transmitted, chip, driver
  <2> QED BY <2>1, RingStays DEF Passing, RingInv
<1>4. CASE PollStatus
  <2>1. UNCHANGED <<ring, cbr, RxBufPtr, cur_rx, queue>> /\ pc = "idle" /\ pc' = "poll" /\ ~RxBufEmpty
    BY <1>4 DEF PollStatus, chip
  <2> QED BY <2>1, RingStays, NotEmptyQueue DEF Passing
<1>5. CASE PollBadFrame
  BY <1>1, <1>5 DEF PollBadFrame
<1>6. CASE PollCopy
  BY <1>6, PollCopyKeepsRing
<1>7. CASE PollMove
  BY <1>7, PollMoveKeepsRing
<1>8. CASE PollAck
  <2>1. UNCHANGED <<cbr, RxBufPtr, cur_rx, queue>> /\ pc = "moved" /\ pc' = "idle"
    BY <1>8 DEF PollAck
  (* The overflow it acknowledges was seen before the ring had room, but   *)
  (* is acknowledged after.                                                *)
  <2>2. ring' = ring
    BY <1>8, <2>1 DEF PollAck, AckReceive, AckOverflow, OverflowInv
  <2> QED BY <2>1, <2>2, RingStays DEF Passing
<1>9. CASE Transmit \/ TransmitDone
  <2>1. /\ UNCHANGED <<ring, cbr, RxBufPtr, cur_rx, queue>>
        /\ {pc, pc'} \subseteq {"idle", "transmit"}
    BY <1>9 DEF Transmit, TransmitDone, AckTransmit, chip
  <2>2. Passing = 0 /\ Passing' = 0
    BY <2>1 DEF Passing
  <2> QED BY <2>1, <2>2, RingStays
<1>10. CASE TransmitFails \/ Disable
  BY <1>1, <1>10 DEF TransmitFails, Disable
<1>11. CASE Off \/ UNCHANGED vars
  <2>1. UNCHANGED <<ring, cbr, RxBufPtr, cur_rx, queue, pc, packet>>
    BY <1>11 DEF Off, vars, chip, driver
  <2> QED BY <2>1, RingStays DEF Passing, RingInv
<1> QED BY <1>2, <1>3, <1>4, <1>5, <1>6, <1>7, <1>8, <1>9, <1>10, <1>11 DEF Next

LEMMA UsedType == ASSUME RingInv PROVE Used \in Nat
<1>1. PICK b, pos : Layout(b, pos)
  BY DEF RingInv
<1>2. /\ Used = pos[Len(queue) + 1] - b /\ pos[Len(queue) + 1] \in Nat /\ Passing \in Nat
      /\ pos[1] = b + Passing /\ pos[1] <= pos[Len(queue) + 1]
  BY <1>1, UsedIs
<1>3. b \in Nat
  BY <1>1 DEF Layout
<1> QED BY <1>2, <1>3

(* The ring has room for two frames: when one more does not fit it holds   *)
(* more than any one frame.                                                *)
LEMMA OverflowLeavesMore ==
  ASSUME RingInv, NEW m \in Sizes, ~Fits([size |-> m]), NEW n \in Sizes
  PROVE  Used > Stored(n)
<1>1. Used \in Nat
  BY UsedType
<1>2. Used + Stored(m) > RingLen - Word
  BY <1>1, StoredFacts, Widths DEF Fits
<1>3. /\ Stored(m) \in Nat /\ Stored(n) \in Nat
      /\ 2 * Stored(m) + Word <= RingLen /\ 2 * Stored(n) + Word <= RingLen
  BY StoredFacts
<1> QED BY <1>1, <1>2, <1>3, Widths

LEMMA NextOverflow == RingInv /\ OverflowInv /\ [Next]_vars => OverflowInv'
<1> SUFFICES ASSUME RingInv, OverflowInv, [Next]_vars PROVE OverflowInv'
  OBVIOUS
<1>1. ASSUME rtl_reset, pc' \in {"idle", "off"} PROVE OverflowInv'
  BY <1>1 DEF rtl_reset, OverflowInv
<1>2. CASE \E f \in Frame : Receive(f)
  BY <1>2 DEF Receive, OverflowInv, driver
<1>3. CASE Overflow
  <2>1. /\ overflow = "none" /\ overflow' = "raised" /\ UNCHANGED <<cbr, RxBufPtr, pc, status>>
        /\ \E n \in Sizes : ~Fits([size |-> n])
    BY <1>3 DEF Overflow, driver
  <2>2. \A n \in Sizes : Used' > Stored(n) /\ Used' > 0
    <3>1. \A n \in Sizes : Used > Stored(n) /\ Stored(n) \in Nat
      BY <2>1, OverflowLeavesMore, StoredFacts
    <3>2. Used' = Used /\ Used \in Nat
      BY <2>1, UsedStays, UsedType
    <3> QED BY <3>1, <3>2
  <2> QED BY <2>1, <2>2 DEF OverflowInv
<1>4. CASE Transmitted
  <2>1. UNCHANGED <<cbr, RxBufPtr, overflow, pc, status>>
    BY <1>4 DEF Transmitted, chip, driver
  <2> QED BY <2>1, UsedStays DEF OverflowInv
<1>5. CASE PollStatus
  <2>1. /\ UNCHANGED <<cbr, RxBufPtr, overflow>> /\ pc = "idle" /\ pc' = "poll"
        /\ status' = (overflow # "none")
    BY <1>5 DEF PollStatus, chip
  <2> QED BY <2>1, UsedStays DEF OverflowInv
<1>6. CASE PollBadFrame
  BY <1>1, <1>6 DEF PollBadFrame
<1>7. CASE PollCopy
  <2>1. UNCHANGED <<cbr, RxBufPtr, overflow, status>> /\ pc = "poll" /\ pc' = "copied"
    BY <1>7 DEF PollCopy, chip
  <2> QED BY <2>1, UsedStays DEF OverflowInv
<1>8. CASE PollMove
  <2>1. /\ pc = "copied" /\ pc' = "moved" /\ UNCHANGED status
        /\ overflow' = IF overflow = "raised" THEN "moved" ELSE overflow
    BY <1>8 DEF PollMove
  <2>2. /\ Len(packet) \in Sizes /\ Used \in Nat /\ Used' \in Nat /\ Used' = Used - Stored(Len(packet))
    BY <1>8, PollMoveKeepsRing
  <2>3. overflow = "raised" => Used' > 0
    <3> SUFFICES ASSUME overflow = "raised" PROVE Used' > 0
      OBVIOUS
    <3>1. Used > Stored(Len(packet)) /\ Stored(Len(packet)) \in Nat
      BY <2>2, StoredFacts DEF OverflowInv
    <3> QED BY <2>2, <3>1
  <2>4. overflow = "moved" => status
    BY <2>1 DEF OverflowInv
  <2>5. status => overflow # "none"
    BY <2>1 DEF OverflowInv
  <2> QED BY <2>1, <2>3, <2>4, <2>5 DEF OverflowInv
<1>9. CASE PollAck
  <2>1. /\ UNCHANGED <<cbr, RxBufPtr, status>> /\ pc = "moved" /\ pc' = "idle"
        /\ IF status THEN overflow' = "none" ELSE overflow' = overflow
    BY <1>9 DEF PollAck, AckReceive, AckOverflow
  <2> QED BY <2>1, UsedStays DEF OverflowInv
<1>10. CASE Transmit \/ TransmitDone
  <2>1. /\ UNCHANGED <<cbr, RxBufPtr, overflow, status>>
        /\ {pc, pc'} \subseteq {"idle", "transmit"}
    BY <1>10 DEF Transmit, TransmitDone, AckTransmit, chip
  <2> QED BY <2>1, UsedStays DEF OverflowInv
<1>11. CASE TransmitFails \/ Disable
  BY <1>1, <1>11 DEF TransmitFails, Disable
<1>12. CASE Off \/ UNCHANGED vars
  <2>1. UNCHANGED <<cbr, RxBufPtr, overflow, pc, status>>
    BY <1>12 DEF Off, vars, chip, driver
  <2> QED BY <2>1, UsedStays DEF OverflowInv
<1> QED BY <1>2, <1>3, <1>4, <1>5, <1>6, <1>7, <1>8, <1>9, <1>10, <1>11, <1>12 DEF Next

-----------------------------------------------------------------------------
LEMMA InitIInv == Init => IInv
<1> SUFFICES ASSUME Init PROVE IInv
  OBVIOUS
<1>1. TxInv
  <2>1. 0 \in 0..(NumTx - 1)
    BY NumbersAssumption
  <2> QED BY <2>1 DEF Init, TxInv
<1>2. OverflowInv
  BY DEF Init, OverflowInv
<1>3. RingInv
  <2>1. PICK pos : pos = [k \in 1..1 |-> 0]
    OBVIOUS
  <2>2. Congruent(0, 0, RingLen) /\ Congruent(0, 0, Word) /\ 0 % RingLen = 0 /\ 0 <= RingLen - Word
    BY ZeroFits
  <2>3. Layout(0, pos)
    BY <2>1, <2>2 DEF Layout, Init, Passing
  <2>4. -Gap = 0 - Gap
    BY Widths
  <2> QED BY <2>2, <2>3, <2>4 DEF RingInv, Init
<1> QED BY <1>1, <1>2, <1>3 DEF IInv

(* Chip and driver agree on where the frames lie in the ring, on what an   *)
(* overflow has left there, and on the descriptors: the invariant that     *)
(* everything here rests on.                                               *)
THEOREM InStep == Spec => []IInv
<1>1. IInv /\ [Next]_vars => IInv'
  BY NextTx, NextRing, NextOverflow DEF IInv
<1> QED BY <1>1, InitIInv, PTL DEF Spec

(* For any lengths of ring, frames and registers, chip and driver agree on *)
(* the next descriptor whenever rtl_transmit() is not at work, and it      *)
(* leaves no TxOK behind to be taken for that of the next transmission,    *)
(* however transmissions, failures and resets follow each other.           *)
THEOREM DescriptorsAgree == Spec => []TxInStep
<1>1. IInv => TxInStep
  BY DEF IInv, TxInv, TxInStep
<1> QED BY <1>1, InStep, PTL

(* For any lengths of ring, frames and registers, as long as two frames    *)
(* fit, rtl_poll() never finds the ring empty while an overflow it has not *)
(* acknowledged keeps the chip from receiving.                             *)
THEOREM NotDeaf == Spec => []NeverDeaf
<1>1. IInv => NeverDeaf
  <2> SUFFICES ASSUME IInv, overflow # "none", RxBufEmpty PROVE pc = "moved" /\ status
    BY DEF NeverDeaf
  <2>1. PICK b, pos : Layout(b, pos)
    BY DEF IInv, RingInv
  <2>2. Used = 0
    BY <2>1, UsedIs DEF IInv
  <2>3. overflow # "raised"
    BY <2>2 DEF IInv, OverflowInv
  <2> QED BY <2>2, <2>3 DEF IInv, OverflowInv
<1> QED BY <1>1, InStep, PTL

-----------------------------------------------------------------------------
(* Every step is one of Nic, or one it does not see.                       *)
LEMMA StepsImplement == IInv /\ [Next]_vars => [N!Next]_N!vars
<1> SUFFICES ASSUME IInv, [Next]_vars PROVE [N!Next]_N!vars
  OBVIOUS
<1>1. CASE \E f \in Frame : Receive(f)
  <2>1. N!Receive
    BY <1>1 DEF Receive, driver, N!Receive
  <2> QED BY <2>1 DEF N!Next
<1>2. ASSUME UNCHANGED <<queue, packet>>, {pc, pc'} \cap {"transmit", "off"} = {}
      PROVE  UNCHANGED N!vars
  BY <1>2 DEF N!vars
<1>3. CASE Overflow \/ Transmitted \/ Off \/ UNCHANGED vars
  BY <1>3 DEF Overflow, Transmitted, Off, vars, driver, N!vars
<1>4. CASE PollStatus \/ PollMove \/ PollAck
  BY <1>4 DEF PollStatus, PollMove, PollAck, N!vars
<1>5. CASE PollBadFrame
  <2>1. /\ pc = "poll" /\ pc' = "idle" /\ ~GoodHeader /\ queue' = <<>> /\ packet' = packet
    BY <1>5 DEF PollBadFrame, rtl_reset
  <2>2. queue # <<>> /\ Header = <<Head(queue), 0>> /\ Head(queue) \in Frame
    BY <2>1, HeadInRing DEF IInv
  <2>3. Header # Junk /\ Header[1] = Head(queue) /\ Header[2] = 0
    BY <2>2 DEF Junk
  <2>4. ~Head(queue).good
    BY <2>1, <2>3 DEF GoodHeader
  <2>5. N!Damaged
    BY <2>1, <2>2, <2>4 DEF N!Damaged
  <2> QED BY <2>5 DEF N!Next
<1>6. CASE PollCopy
  BY <1>6, PollCopyKeepsRing DEF IInv, N!Next
<1>7. CASE Transmit
  <2>1. N!Transmit
    BY <1>7 DEF Transmit, N!Transmit
  <2> QED BY <2>1 DEF N!Next
<1>8. CASE TransmitDone \/ TransmitFails
  <2>1. N!Sent
    BY <1>8 DEF TransmitDone, TransmitFails, rtl_reset, N!Sent
  <2> QED BY <2>1 DEF N!Next
<1>9. CASE Disable
  <2>1. N!Disable
    BY <1>9 DEF Disable, rtl_reset, N!Disable
  <2> QED BY <2>1 DEF N!Next
<1> QED BY <1>1, <1>3, <1>4, <1>5, <1>6, <1>7, <1>8, <1>9 DEF Next

(* For any lengths of ring, frames and registers, the driver hands over    *)
(* frames whole, in order and none twice, while the chip writes behind it: *)
(* frames may wrap around the end of the ring and the positions around the *)
(* end of their registers, and resets may come at any frame.               *)
THEOREM NicImplemented == Spec => ImplementsNic
<1>1. Init => N!Init
  BY DEF Init, N!Init
<1> QED BY <1>1, InStep, StepsImplement, PTL DEF Spec, ImplementsNic, N!Spec
=============================================================================
