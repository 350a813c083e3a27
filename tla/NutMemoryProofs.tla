-------------------------- MODULE NutMemoryProofs --------------------------
(***************************************************************************)
(* What the memory of the system is proved to be, for any sizes: a          *)
(* segmented buffer is a queue of bytes, a heap hands out each part of its  *)
(* regions once and loses none, and the ring buffers of a serial device are *)
(* queues that no thread sleeps beside while there is something for it.     *)
(***************************************************************************)
EXTENDS NutSegBuf, NutHeap, NutUsart, NutListProofs, TLAPS

-----------------------------------------------------------------------------
(* The segmented buffer as a ring of units.                                 *)

Wrap(x, m) == IF x < m THEN x ELSE x - m

(* Remainders of what is less than twice the modulus.                       *)
LEMMA ModWrap ==
  ASSUME NEW m \in Nat \ {0}, NEW x \in 0..(m + m - 1)
  PROVE  x % m = Wrap(x, m) /\ Wrap(x, m) \in 0..(m - 1)
<1>1. CASE x < m
  <2>1. x % m = x
    BY <1>1
  <2> QED BY <1>1, <2>1 DEF Wrap
<1>2. CASE ~(x < m)
  <2>1. PICK y \in 0..(m - 1) : x = y + m
    <3>1. x - m \in 0..(m - 1) /\ x = (x - m) + m
      BY <1>2
    <3> QED BY <3>1
  <2>2. (y + m) % m = y
    OBVIOUS
  <2> QED BY <1>2, <2>1, <2>2 DEF Wrap
<1> QED BY <1>1, <1>2

LEMMA WrapApart ==
  ASSUME NEW m \in Nat \ {0}, NEW t \in 0..(m - 1), NEW i \in 0..m, NEW j \in 0..m, i < j, j - i < m
  PROVE  Wrap(t + i, m) # Wrap(t + j, m)
  BY DEF Wrap

LEMMA WrapSum ==
  ASSUME NEW m \in Nat \ {0}, NEW t \in 0..(m - 1), NEW i \in 0..m, NEW j \in 0..m, i + j <= m
  PROVE  /\ Wrap(t + i, m) \in 0..(m - 1)
         /\ Wrap(Wrap(t + i, m) + j, m) = Wrap(t + (i + j), m)
         /\ Wrap(t + i, m) + j < m => Wrap(t + i, m) + j = Wrap(t + (i + j), m)
  BY DEF Wrap

LEMMA WrapNext ==
  ASSUME NEW m \in Nat \ {0}, NEW t \in 0..(m - 1), NEW i \in 0..(m - 1)
  PROVE  Wrap(Wrap(t + 1, m) + i, m) = Wrap(t + (i + 1), m)
  BY DEF Wrap

LEMMA WrapAround ==
  ASSUME NEW m \in Nat \ {0}, NEW t \in 0..(m - 1), NEW i \in 0..m
  PROVE  Wrap(t + i, m) \in 0..(m - 1) /\ (Wrap(t + i, m) = t <=> i = 0 \/ i = m)
  BY DEF Wrap

Bank == 0..(Banks - 1)
Offset == 0..(Size - 1)
Unit == 0..(Total - 1)
Numbers == 0..(Number - 1)

Pos(b, p) == b * Size + p
W == Pos(ws, wp)
R == Pos(rs, rp)
Cell(n) == mem[n \div Size][n % Size]

LEMMA SizeFacts ==
  /\ Banks \in Nat \ {0} /\ Size \in Nat \ {0} /\ Total \in Nat \ {0} /\ Number \in Nat \ {0}
  /\ Number = Total + 1 /\ Size <= Total
<1>1. Banks \in Nat \ {0} /\ Size \in Nat \ {0}
  BY SegBufAssumption
<1>2. Banks * Size >= Size /\ Banks * Size \in Nat
  BY <1>1
<1> QED BY <1>1, <1>2 DEF Total, Number

LEMMA Products ==
  ASSUME NEW x \in Nat, NEW y \in Nat, NEW z \in Nat
  PROVE  /\ x * z \in Nat /\ (x + 1) * z = x * z + z
         /\ x < y => x * z + z <= y * z
  OBVIOUS

LEMMA DivMod ==
  ASSUME NEW b \in Nat, NEW s \in Nat \ {0}, NEW p \in 0..(s - 1)
  PROVE  (b * s + p) \div s = b /\ (b * s + p) % s = p
  OBVIOUS

LEMMA DivModOf ==
  ASSUME NEW n \in Nat, NEW s \in Nat \ {0}, NEW k \in Nat, n < k * s
  PROVE  /\ n = (n \div s) * s + (n % s) /\ n \div s \in 0..(k - 1) /\ n % s \in 0..(s - 1)
<1>1. n = (n \div s) * s + (n % s) /\ n \div s \in Nat /\ n % s \in 0..(s - 1)
  OBVIOUS
<1>2. n \div s < k
  OBVIOUS
<1> QED BY <1>1, <1>2

(* A place of a bank is a unit of the ring.                                 *)
LEMMA PosFacts ==
  ASSUME NEW b \in Bank, NEW p \in Offset
  PROVE  /\ b \in Nat /\ p \in Nat /\ b * Size \in Nat
         /\ Pos(b, p) \in Unit /\ Pos(b, p) = b * Size + p
         /\ b * Size + Size <= Total
         /\ Pos(b, p) \div Size = b /\ Pos(b, p) % Size = p
<1>1. b \in Nat /\ Size \in Nat \ {0} /\ Banks \in Nat /\ b < Banks /\ p \in 0..(Size - 1)
  BY SizeFacts DEF Bank, Offset
<1>2. b * Size \in Nat /\ b * Size + Size <= Banks * Size
  BY <1>1, Products
<1>3. Pos(b, p) \div Size = b /\ Pos(b, p) % Size = p
  BY <1>1, DivMod DEF Pos
<1> QED BY <1>1, <1>2, <1>3 DEF Pos, Total, Unit

(* Going on by n units within a bank, or to its end.                        *)
LEMMA AdvanceFacts ==
  ASSUME NEW b \in Bank, NEW p \in Offset, NEW n \in 0..Size, p + n <= Size,
         NEW c, c = (IF p + n = Size THEN (b + 1) % Banks ELSE b), NEW q, q = (p + n) % Size
  PROVE  c \in Bank /\ q \in Offset /\ Pos(c, q) = Wrap(Pos(b, p) + n, Total)
<1>1. /\ b \in Nat /\ p \in Nat /\ b * Size \in Nat /\ b * Size + Size <= Total /\ Pos(b, p) = b * Size + p
      /\ Size \in Nat \ {0} /\ Banks \in Nat \ {0} /\ b < Banks /\ Total \in Nat /\ n \in Nat
  <2>1. Size \in Nat \ {0} /\ Banks \in Nat \ {0} /\ Total \in Nat
    BY SizeFacts
  <2>2. b \in Nat /\ b < Banks /\ n \in Nat
    BY <2>1 DEF Bank
  <2>3. /\ p \in Nat /\ b * Size \in Nat /\ b * Size + Size <= Total /\ Pos(b, p) = b * Size + p
    BY PosFacts
  <2> QED BY <2>1, <2>2, <2>3
<1>2. CASE p + n < Size
  <2>1. q = p + n /\ c = b
    BY <1>1, <1>2
  <2>2. Pos(c, q) = b * Size + (p + n)
    BY <2>1 DEF Pos
  <2>3. b * Size + (p + n) < Total
    BY <1>1, <1>2
  <2>4. Wrap(Pos(b, p) + n, Total) = b * Size + (p + n)
    BY <1>1, <2>3 DEF Wrap
  <2> QED BY <1>1, <1>2, <2>1, <2>2, <2>4 DEF Offset
<1>3. CASE p + n = Size
  <2>1. q = 0
    BY <1>1, <1>3
  <2>2. CASE b + 1 < Banks
    <3>1. c = b + 1
      BY <1>1, <1>3, <2>2
    <3>2. (b + 1) * Size = b * Size + Size
      BY <1>1, Products
    <3>3. b + 1 \in Bank /\ 0 \in Offset
      BY <1>1, <2>2 DEF Bank, Offset
    <3>4. (b + 1) * Size + Size <= Total
      BY <3>3, PosFacts
    <3>5. Pos(c, q) = b * Size + Size
      BY <1>1, <2>1, <3>1, <3>2 DEF Pos
    <3>6. Wrap(Pos(b, p) + n, Total) = b * Size + Size
      BY <1>1, <1>3, <3>2, <3>4 DEF Wrap
    <3> QED BY <2>1, <3>1, <3>3, <3>5, <3>6
  <2>3. CASE b + 1 = Banks
    <3>1. c = 0
      BY <1>1, <1>3, <2>3
    <3>2. Total = b * Size + Size
      BY <1>1, <2>3, Products DEF Total
    <3>3. 0 * Size = 0
      BY <1>1
    <3> QED BY <1>1, <1>3, <2>1, <3>1, <3>2, <3>3 DEF Pos, Wrap, Bank, Offset
  <2> QED BY <1>1, <2>2, <2>3
<1> QED BY <1>1, <1>2, <1>3 DEF Offset

-----------------------------------------------------------------------------
(* The invariant.                                                           *)

Consumed == IF feed = <<>> THEN 0 ELSE feed[2]

SegTypeOK ==
    /\ ws \in Bank /\ rs \in Bank /\ enabled \in Bank /\ wp \in Offset /\ rp \in Offset
    /\ segbuf_used \in 0..Total /\ segbuf_empty \in BOOLEAN
    /\ mem \in [Bank -> [Offset -> Numbers]]
    /\ room \in Nat /\ filled \in Nat /\ put \in Numbers /\ got \in Numbers
    /\ feed \in {<<>>} \cup (Nat \X Nat)

(* What is free behind the write position, and what the interrupt was       *)
(* given, are in one piece of the bank that is enabled.                     *)
InBank(p, n) == p + n <= Size
Fits(p, n, total) == p + n <= Size /\ total + n <= Total

Pieces ==
    /\ segbuf_empty <=> segbuf_used = 0
    /\ W = Wrap(R + segbuf_used, Total)
    /\ filled <= room /\ Fits(wp, room, segbuf_used)
    /\ room > 0 /\ feed = <<>> => enabled = ws
    /\ feed # <<>> => /\ feed[2] <= feed[1] /\ feed[1] <= segbuf_used /\ InBank(rp, feed[1])
                      /\ feed[1] > 0 => enabled = rs

Pending == segbuf_used - Consumed + filled

InOrder ==
    /\ put = Wrap(got + Pending, Number)
    /\ \A i \in 0..(Pending - 1) : Cell(Wrap(R + (Consumed + i), Total)) = Wrap(got + i, Number)

SegInv == SegTypeOK /\ Pieces /\ InOrder

LEMMA NothingFits ==
  ASSUME NEW p \in Offset, NEW u \in 0..Total
  PROVE  Fits(p, 0, u) /\ InBank(p, 0)
  BY SizeFacts DEF Fits, InBank, Offset

(* n of the m units that fit are filled and committed, maybe to the end of  *)
(* the bank.                                                                *)
LEMMA RestFits ==
  ASSUME NEW p \in Offset, NEW m \in Nat, NEW n \in Nat, NEW u \in 0..Total, n <= m, Fits(p, m, u),
         NEW q \in Offset, p + n < Size => q = p + n
  PROVE  /\ m - n \in Nat /\ Fits(q, m - n, u + n) /\ (p + n = Size => m - n = 0)
<1>1. /\ p \in Nat /\ p < Size /\ q \in Nat /\ q < Size /\ u \in Nat /\ Size \in Nat /\ Total \in Nat
      /\ p + m <= Size /\ u + m <= Total
  BY SizeFacts DEF Fits, Offset
<1>2. CASE p + n < Size
  BY <1>1, <1>2 DEF Fits
<1>3. CASE p + n >= Size
  <2>1. m = n
    BY <1>1, <1>3
  <2> QED BY <1>1, <1>3, <2>1 DEF Fits
<1> QED BY <1>1, <1>2, <1>3

LEMMA FewerFits ==
  ASSUME NEW p \in Offset, NEW m \in Nat, NEW u \in 0..Total, NEW v \in 0..Total, v <= u, Fits(p, m, u)
  PROVE  Fits(p, m, v)
  BY SizeFacts DEF Fits, Offset

LEMMA FeedFacts ==
  ASSUME SegTypeOK, Pieces
  PROVE  /\ feed # <<>> => /\ feed \in Nat \X Nat /\ feed[1] \in Nat /\ feed[2] \in Nat /\ Consumed = feed[2]
         /\ feed = <<>> => Consumed = 0
         /\ Consumed \in Nat /\ Consumed <= segbuf_used
  BY DEF SegTypeOK, Pieces, Consumed

LEMMA PlaceFacts ==
  ASSUME SegTypeOK
  PROVE  /\ W \in Unit /\ R \in Unit /\ W = ws * Size + wp /\ R = rs * Size + rp
         /\ ws * Size \in Nat /\ rs * Size \in Nat /\ wp \in Nat /\ rp \in Nat /\ wp < Size /\ rp < Size
         /\ ws * Size + Size <= Total /\ rs * Size + Size <= Total
         /\ (ws < rs => ws * Size + Size <= rs * Size) /\ (rs < ws => rs * Size + Size <= ws * Size)
         /\ W = R <=> ws = rs /\ wp = rp
         /\ ws \in Nat /\ rs \in Nat
<1>1. ws \in Nat /\ rs \in Nat /\ Size \in Nat
  BY SizeFacts DEF SegTypeOK, Bank
<1>2. (ws < rs => ws * Size + Size <= rs * Size) /\ (rs < ws => rs * Size + Size <= ws * Size)
  BY <1>1, Products
<1>3. W = R <=> ws = rs /\ wp = rp
  BY PosFacts DEF SegTypeOK, W, R
<1> QED BY <1>1, <1>2, <1>3, PosFacts DEF SegTypeOK, W, R, Offset

LEMMA CountFacts ==
  ASSUME SegTypeOK, Pieces
  PROVE  /\ segbuf_used \in Nat /\ segbuf_used <= Total /\ filled \in Nat /\ room \in Nat
         /\ filled <= room /\ wp + room <= Size /\ segbuf_used + room <= Total
         /\ Total \in Nat /\ Size \in Nat /\ wp \in Nat /\ wp < Size /\ rp \in Nat /\ rp < Size
         /\ W = Wrap(R + segbuf_used, Total) /\ R \in 0..(Total - 1)
         /\ Pending = segbuf_used - Consumed + filled /\ Pending \in Nat /\ Pending <= Total - Consumed
         /\ Consumed \in Nat /\ Consumed <= segbuf_used
<1>1. /\ segbuf_used \in Nat /\ segbuf_used <= Total /\ filled \in Nat /\ room \in Nat /\ Total \in Nat /\ Size \in Nat
  BY SizeFacts DEF SegTypeOK
<1>2. filled <= room /\ wp + room <= Size /\ segbuf_used + room <= Total /\ W = Wrap(R + segbuf_used, Total)
  BY DEF Pieces, Fits
<1>3. Consumed \in Nat /\ Consumed <= segbuf_used
  BY FeedFacts
<1>4. wp \in Nat /\ wp < Size /\ rp \in Nat /\ rp < Size /\ R \in 0..(Total - 1)
  BY PlaceFacts DEF Unit
<1>5. Pending = segbuf_used - Consumed + filled
  BY DEF Pending
<1> QED BY <1>1, <1>2, <1>3, <1>4, <1>5

LEMMA RoomFacts ==
  ASSUME SegTypeOK, Pieces
  PROVE  WriteRoom \in Nat /\ Fits(wp, WriteRoom, segbuf_used)
<1> DEFINE x == ws * Size
           y == rs * Size
<1>1. /\ x \in Nat /\ y \in Nat /\ x + Size <= Total /\ y + Size <= Total
      /\ (ws < rs => x + Size <= y) /\ (rs < ws => y + Size <= x) /\ (ws = rs => x = y)
      /\ W = x + wp /\ R = y + rp /\ wp \in Nat /\ rp \in Nat /\ wp < Size /\ rp < Size
      /\ ws \in Nat /\ rs \in Nat
  BY PlaceFacts
<1> HIDE DEF x, y
<1>2. /\ segbuf_used \in Nat /\ segbuf_used <= Total /\ Total \in Nat /\ Size \in Nat /\ Size <= Total
      /\ x + wp = (IF y + rp + segbuf_used < Total THEN y + rp + segbuf_used ELSE y + rp + segbuf_used - Total)
      /\ segbuf_empty <=> segbuf_used = 0
  BY <1>1, SizeFacts DEF SegTypeOK, Pieces, Wrap
<1>3. CASE segbuf_empty
  BY <1>1, <1>2, <1>3 DEF WriteRoom, Fits
<1>4. CASE ~segbuf_empty /\ ws < rs
  BY <1>1, <1>2, <1>4 DEF WriteRoom, Fits
<1>5. CASE ~segbuf_empty /\ rs < ws
  BY <1>1, <1>2, <1>5 DEF WriteRoom, Fits
<1>6. CASE ~segbuf_empty /\ ws = rs
  BY <1>1, <1>2, <1>6 DEF WriteRoom, Fits
<1> QED BY <1>1, <1>3, <1>4, <1>5, <1>6

LEMMA AvailableFacts ==
  ASSUME SegTypeOK, Pieces
  PROVE  ReadAvailable \in Nat /\ InBank(rp, ReadAvailable) /\ ReadAvailable <= segbuf_used
<1> DEFINE x == ws * Size
           y == rs * Size
<1>1. /\ x \in Nat /\ y \in Nat /\ x + Size <= Total /\ y + Size <= Total
      /\ (ws < rs => x + Size <= y) /\ (rs < ws => y + Size <= x) /\ (ws = rs => x = y)
      /\ W = x + wp /\ R = y + rp /\ wp \in Nat /\ rp \in Nat /\ wp < Size /\ rp < Size
      /\ ws \in Nat /\ rs \in Nat
  BY PlaceFacts
<1> HIDE DEF x, y
<1>2. /\ segbuf_used \in Nat /\ segbuf_used <= Total /\ Total \in Nat /\ Size \in Nat /\ Size <= Total
      /\ x + wp = (IF y + rp + segbuf_used < Total THEN y + rp + segbuf_used ELSE y + rp + segbuf_used - Total)
      /\ segbuf_empty <=> segbuf_used = 0
  BY <1>1, SizeFacts DEF SegTypeOK, Pieces, Wrap
<1>3. CASE segbuf_empty
  BY <1>1, <1>2, <1>3 DEF ReadAvailable, InBank
<1>4. CASE ~segbuf_empty /\ ws < rs
  BY <1>1, <1>2, <1>4 DEF ReadAvailable, InBank
<1>5. CASE ~segbuf_empty /\ rs < ws
  BY <1>1, <1>2, <1>5 DEF ReadAvailable, InBank
<1>6. CASE ~segbuf_empty /\ ws = rs
  BY <1>1, <1>2, <1>6 DEF ReadAvailable, InBank
<1> QED BY <1>1, <1>3, <1>4, <1>5, <1>6

(* One lemma for each step of the reader, the writer and the interrupt.     *)
LEMMA InitSeg == SegInit => SegInv
<1> SUFFICES ASSUME SegInit PROVE SegInv
  OBVIOUS
<1>1. SegTypeOK
  BY SizeFacts DEF SegInit, SegTypeOK, Bank, Offset, Numbers
<1>2. W = 0 /\ R = 0 /\ Consumed = 0
  BY SizeFacts DEF SegInit, W, R, Pos, Consumed
<1>3. Wrap(0 + 0, Total) = 0 /\ Wrap(0 + 0, Number) = 0
  BY SizeFacts DEF Wrap
<1>4. Pieces
  <2>1. Fits(0, 0, 0)
    BY SizeFacts DEF Fits
  <2> QED BY <1>2, <1>3, <2>1 DEF SegInit, Pieces
<1>5. InOrder
  BY <1>2, <1>3 DEF SegInit, InOrder, Pending
<1> QED BY <1>1, <1>4, <1>5 DEF SegInv

(* A step that changes nothing of the contents.                             *)
LEMMA SameOrder ==
  ASSUME SegInv, UNCHANGED <<mem, rs, rp, segbuf_used, filled, got, put>>, Consumed' = Consumed
  PROVE  InOrder'
<1>1. R' = R /\ (\A n : Cell(n)' = Cell(n))
  BY DEF R, Pos, Cell
<1>2. Pending' = Pending
  BY DEF Pending
<1> QED BY <1>1, <1>2 DEF SegInv, InOrder

LEMMA WriteRequestStep ==
  ASSUME SegInv, NutSegBufWriteRequest
  PROVE  SegInv'
<1>1. SegTypeOK' /\ Pieces'
  BY RoomFacts DEF SegInv, SegTypeOK, Pieces, NutSegBufWriteRequest, NotInterrupted, readVars, W, R, Pos
<1>2. InOrder'
  BY SameOrder DEF NutSegBufWriteRequest, readVars, Consumed
<1> QED BY <1>1, <1>2 DEF SegInv

LEMMA ReadRequestStep ==
  ASSUME SegInv, NutSegBufReadRequest
  PROVE  SegInv'
<1>0. UNCHANGED <<ws, wp, rs, rp, segbuf_empty, segbuf_used, mem, room, filled, got, put>> /\ enabled' = rs
  BY DEF NutSegBufReadRequest, writeVars
<1>1. /\ feed' = <<ReadAvailable, 0>> /\ ReadAvailable \in Nat
      /\ feed' # <<>> /\ feed'[1] = ReadAvailable /\ feed'[2] = 0
  BY AvailableFacts DEF SegInv, NutSegBufReadRequest
<1>2. Consumed = 0 /\ Consumed' = 0
  BY <1>1 DEF NutSegBufReadRequest, Consumed
<1>3. SegTypeOK'
  BY <1>0, <1>1 DEF SegInv, SegTypeOK
<1>4. Pieces'
  BY <1>0, <1>1, AvailableFacts DEF SegInv, Pieces, W, R, Pos
<1> QED BY <1>0, <1>2, <1>3, <1>4, SameOrder DEF SegInv

LEMMA FillStep ==
  ASSUME SegInv, Fill
  PROVE  SegInv'
<1> DEFINE n == W + filled
<1>1. /\ UNCHANGED <<ws, wp, rs, rp, segbuf_empty, segbuf_used, enabled, room, got, feed>>
      /\ filled' = filled + 1 /\ put' = (put + 1) % Number
      /\ mem' = [mem EXCEPT ![enabled][wp + filled] = put]
      /\ feed = <<>> /\ filled < room
  BY DEF Fill, NotInterrupted, readVars
<1>2. /\ filled \in Nat /\ room \in Nat /\ segbuf_used \in Nat /\ wp \in Nat /\ put \in Numbers /\ got \in Numbers
      /\ wp + room <= Size /\ segbuf_used + room <= Total /\ enabled = ws /\ ws \in Bank
      /\ mem \in [Bank -> [Offset -> Numbers]]
      /\ Consumed = 0 /\ Consumed' = 0 /\ R \in Unit /\ R' = R /\ W' = W
  <2>1. room > 0 /\ Consumed = 0 /\ Consumed' = 0 /\ R' = R /\ W' = W
    BY <1>1, CountFacts DEF SegInv, Consumed, W, R, Pos
  <2>2. /\ filled \in Nat /\ room \in Nat /\ segbuf_used \in Nat /\ wp \in Nat
        /\ wp + room <= Size /\ segbuf_used + room <= Total
    BY CountFacts DEF SegInv
  <2>3. R \in Unit
    BY PlaceFacts DEF SegInv
  <2> QED BY <1>1, <2>1, <2>2, <2>3 DEF SegInv, SegTypeOK, Pieces
<1>3. wp + filled \in Offset /\ Pos(ws, wp + filled) = n /\ n \in Unit
  <2>1. wp + filled \in Offset
    BY <1>1, <1>2, SizeFacts DEF Offset
  <2>2. Pos(ws, wp + filled) = ws * Size + (wp + filled) /\ Pos(ws, wp + filled) \in Unit
    BY <1>2, <2>1, PosFacts
  <2>3. W = ws * Size + wp /\ ws * Size \in Nat
    BY PlaceFacts DEF SegInv
  <2> QED BY <1>2, <2>1, <2>2, <2>3
<1>4. put' \in Numbers /\ put' = Wrap(put + 1, Number)
  <2>1. put + 1 \in 0..(Number + Number - 1)
    BY <1>2, SizeFacts DEF Numbers
  <2> QED BY <1>1, <2>1, SizeFacts, ModWrap DEF Numbers
<1>5. SegTypeOK'
  BY <1>1, <1>2, <1>3, <1>4 DEF SegInv, SegTypeOK
<1>6. Pieces'
  BY <1>1, <1>2 DEF SegInv, Pieces
<1>7. n = Wrap(R + (segbuf_used + filled), Total)
  <2>1. W = Wrap(R + segbuf_used, Total) /\ R \in 0..(Total - 1) /\ segbuf_used \in 0..Total /\ filled \in 0..Total
        /\ segbuf_used + filled <= Total /\ W + filled < Total
    BY <1>1, <1>2, <1>3, SizeFacts DEF SegInv, Pieces, Unit
  <2>2. Wrap(R + segbuf_used, Total) + filled = Wrap(R + (segbuf_used + filled), Total)
    BY <2>1, SizeFacts, WrapSum
  <2> QED BY <2>1, <2>2
<1>8. ASSUME NEW m \in Unit
      PROVE  Cell(m)' = IF m = n THEN put ELSE Cell(m)
  <2>1. m \div Size \in Bank /\ m % Size \in Offset /\ m = (m \div Size) * Size + (m % Size)
    <3>1. m \in Nat /\ m < Banks * Size
      BY SizeFacts DEF Unit, Total
    <3> QED BY <3>1, SizeFacts, DivModOf DEF Bank, Offset
  <2>2. m = n <=> m \div Size = ws /\ m % Size = wp + filled
    BY <1>2, <1>3, <2>1, PosFacts
  <2>3. CASE m \div Size = ws /\ m % Size = wp + filled
    BY <1>1, <1>2, <1>3, <2>1, <2>2, <2>3 DEF Cell
  <2>4. CASE m \div Size = ws /\ m % Size # wp + filled
    BY <1>1, <1>2, <1>3, <2>1, <2>2, <2>4 DEF Cell
  <2>5. CASE m \div Size # ws
    BY <1>1, <1>2, <1>3, <2>1, <2>2, <2>5 DEF Cell
  <2> QED BY <2>3, <2>4, <2>5
<1> HIDE DEF n
<1>9. Pending \in Nat /\ Pending = segbuf_used + filled /\ Pending < Total /\ put = Wrap(got + Pending, Number)
      /\ Pending' = Pending + 1
  <2>1. put = Wrap(got + Pending, Number)
    BY DEF SegInv, InOrder
  <2>2. Pending' = Pending + 1 /\ Pending = segbuf_used + filled
    BY <1>1, <1>2 DEF Pending
  <2> QED BY <1>1, <1>2, <2>1, <2>2, SizeFacts
<1>10. put' = Wrap(got + (Pending + 1), Number)
  <2>1. got \in 0..(Number - 1) /\ Pending \in 0..Number /\ 1 \in 0..Number /\ Pending + 1 <= Number
    BY <1>2, <1>9, SizeFacts DEF Numbers
  <2>2. Wrap(Wrap(got + Pending, Number) + 1, Number) = Wrap(got + (Pending + 1), Number)
    BY <2>1, SizeFacts, WrapSum
  <2> QED BY <1>4, <1>9, <2>2
<1>11. ASSUME NEW i \in 0..(Pending + 1 - 1)
       PROVE  Cell(Wrap(R + (0 + i), Total))' = Wrap(got + i, Number)
  <2>1. R \in 0..(Total - 1) /\ i \in 0..Total /\ Pending \in 0..Total /\ i <= Pending
    BY <1>2, <1>9, SizeFacts DEF Unit
  <2>2. PICK m \in Unit : m = Wrap(R + i, Total) /\ (i # Pending => m # n)
    <3>1. Wrap(R + i, Total) \in 0..(Total - 1)
      BY <2>1, SizeFacts, WrapAround
    <3>2. i # Pending => i < Pending /\ Pending - i < Total
      BY <1>9, <2>1, SizeFacts
    <3>3. i # Pending => Wrap(R + i, Total) # Wrap(R + Pending, Total)
      BY <2>1, <3>2, SizeFacts, WrapApart
    <3> QED BY <1>7, <1>9, <3>1, <3>3 DEF Unit
  <2>3. Cell(m)' = IF m = n THEN put ELSE Cell(m)
    BY <1>8
  <2>4. CASE i = Pending
    BY <1>2, <1>7, <1>9, <2>1, <2>2, <2>3, <2>4
  <2>5. CASE i # Pending
    <3>1. i \in 0..(Pending - 1)
      BY <1>2, <1>9, <2>1, <2>5
    <3>2. Cell(Wrap(R + (Consumed + i), Total)) = Wrap(got + i, Number)
      BY <3>1 DEF SegInv, InOrder
    <3> QED BY <1>2, <2>1, <2>2, <2>3, <2>5, <3>2
  <2> QED BY <2>4, <2>5
<1>12. InOrder'
  BY <1>1, <1>2, <1>9, <1>10, <1>11 DEF InOrder
<1> QED BY <1>5, <1>6, <1>12 DEF SegInv

(* What is filled is committed.                                             *)
LEMMA CommitFacts ==
  ASSUME SegInv, WriteCommitted, UNCHANGED <<mem, rs, rp, feed, got, put>>
  PROVE  /\ ws' \in Bank /\ wp' \in Offset /\ segbuf_used' \in 0..Total /\ segbuf_empty' \in BOOLEAN
         /\ filled' = 0 /\ (segbuf_empty' <=> segbuf_used' = 0) /\ segbuf_used' = segbuf_used + filled
         /\ W' = Wrap(R' + segbuf_used', Total)
         /\ wp + filled < Size => wp' = wp + filled
         /\ feed = <<>> /\ InOrder'
<1>1. /\ ws \in Bank /\ wp \in Offset /\ filled \in 0..Size /\ filled > 0 /\ wp + filled <= Size
      /\ segbuf_used \in 0..Total /\ filled \in 0..Total /\ segbuf_used + filled <= Total
      /\ W = Wrap(R + segbuf_used, Total) /\ R \in 0..(Total - 1)
  <2>1. ws \in Bank /\ wp \in Offset /\ filled > 0
    BY DEF SegInv, SegTypeOK, WriteCommitted
  <2> QED BY <2>1, CountFacts, SizeFacts DEF SegInv
<1>2. /\ ws' = (IF wp + filled = Size THEN (ws + 1) % Banks ELSE ws) /\ wp' = (wp + filled) % Size
      /\ segbuf_used' = segbuf_used + filled /\ segbuf_empty' = FALSE /\ filled' = 0 /\ feed = <<>>
  BY DEF WriteCommitted, NotInterrupted
<1>3. ws' \in Bank /\ wp' \in Offset /\ Pos(ws', wp') = Wrap(Pos(ws, wp) + filled, Total)
  BY <1>1, <1>2, AdvanceFacts
<1>4. R' = R
  BY DEF R, Pos
<1>5. W' = Wrap(R' + segbuf_used', Total)
  <2>1. Wrap(Wrap(R + segbuf_used, Total) + filled, Total) = Wrap(R + (segbuf_used + filled), Total)
    BY <1>1, SizeFacts, WrapSum, ZenonT(60)
  <2>2. W' = Wrap(W + filled, Total)
    BY <1>3 DEF W
  <2> QED BY <1>1, <1>2, <1>4, <2>1, <2>2
<1>6. wp + filled < Size => wp' = wp + filled
  BY <1>1, <1>2, SizeFacts DEF Offset
<1>7. InOrder'
  <2>1. Consumed' = Consumed /\ Consumed = 0
    BY <1>2 DEF Consumed
  <2>2. Pending' = Pending
    BY <1>1, <1>2, <2>1 DEF Pending
  <2>3. \A m : Cell(m)' = Cell(m)
    BY DEF Cell
  <2> QED BY <1>4, <2>1, <2>2, <2>3 DEF SegInv, InOrder
<1>8. segbuf_used' \in 0..Total /\ (segbuf_empty' <=> segbuf_used' = 0) /\ segbuf_empty' \in BOOLEAN
  <2>1. segbuf_used' = segbuf_used + filled /\ segbuf_empty' = FALSE
    BY <1>2
  <2>2. segbuf_used' \in 0..Total /\ segbuf_used' # 0
    BY <1>1, <2>1, SizeFacts
  <2> QED BY <2>1, <2>2
<1> QED BY <1>2, <1>3, <1>5, <1>6, <1>7, <1>8

LEMMA WriteCommitStep ==
  ASSUME SegInv, NutSegBufWriteCommit
  PROVE  SegInv'
<1>1. /\ UNCHANGED <<mem, rs, rp, feed, got, put>> /\ WriteCommitted /\ room' = room - filled
      /\ enabled' = IF wp + filled = Size THEN ws' ELSE enabled
  BY DEF NutSegBufWriteCommit, readVars
<1>2. /\ ws' \in Bank /\ wp' \in Offset /\ segbuf_used' \in 0..Total /\ segbuf_empty' \in BOOLEAN
      /\ filled' = 0 /\ (segbuf_empty' <=> segbuf_used' = 0) /\ segbuf_used' = segbuf_used + filled
      /\ W' = Wrap(R' + segbuf_used', Total)
      /\ wp + filled < Size => wp' = wp + filled
      /\ feed = <<>> /\ InOrder'
  BY <1>1, CommitFacts
<1>3. /\ room \in Nat /\ filled \in Nat /\ wp \in Nat /\ wp < Size /\ Size \in Nat /\ filled <= room
      /\ wp \in Offset /\ segbuf_used \in 0..Total /\ Fits(wp, room, segbuf_used) /\ wp + filled <= Size
  BY CountFacts, SMTT(45) DEF SegInv, SegTypeOK, Pieces
<1>5. room' \in Nat /\ Fits(wp', room', segbuf_used') /\ 0 <= room' /\ (wp + filled = Size => room' = 0)
  <2>1. wp' \in Offset /\ (wp + filled < Size => wp' = wp + filled)
    BY <1>2
  <2>2. /\ room - filled \in Nat /\ Fits(wp', room - filled, segbuf_used + filled)
        /\ (wp + filled = Size => room - filled = 0)
    BY <1>3, <2>1, RestFits
  <2>3. room' = room - filled /\ segbuf_used' = segbuf_used + filled
    BY <1>1, <1>2
  <2>4. PICK n \in Nat : n = room - filled
    BY <2>2
  <2> QED BY <2>2, <2>3, <2>4
<1>6. enabled' \in Bank /\ (room' > 0 => enabled' = ws')
  <2>1. CASE wp + filled = Size
    BY <1>1, <1>2, <2>1
  <2>2. CASE wp + filled # Size
    <3>1. ws' = ws /\ enabled' = enabled
      BY <1>1, <2>2 DEF WriteCommitted
    <3>2. room' > 0 => room > 0
      BY <1>1, <1>3
    <3> QED BY <1>2, <3>1, <3>2 DEF SegInv, SegTypeOK, Pieces
  <2> QED BY <2>1, <2>2
<1>7. SegTypeOK'
  BY <1>1, <1>2, <1>5, <1>6 DEF SegInv, SegTypeOK
<1>8. Pieces'
  BY <1>1, <1>2, <1>5, <1>6 DEF Pieces
<1> QED BY <1>2, <1>7, <1>8 DEF SegInv

LEMMA WriteLastStep ==
  ASSUME SegInv, NutSegBufWriteLast
  PROVE  SegInv'
<1>1. UNCHANGED <<mem, rs, rp, feed, got, put>> /\ room' = 0 /\ enabled' = rs
  BY DEF NutSegBufWriteLast, readVars
<1>2. CASE WriteCommitted
  <2>1. /\ ws' \in Bank /\ wp' \in Offset /\ segbuf_used' \in 0..Total /\ segbuf_empty' \in BOOLEAN
        /\ filled' = 0 /\ (segbuf_empty' <=> segbuf_used' = 0)
        /\ W' = Wrap(R' + segbuf_used', Total)
        /\ feed = <<>> /\ InOrder'
    BY <1>1, <1>2, CommitFacts
  <2>2. SegTypeOK'
    BY <1>1, <2>1 DEF SegInv, SegTypeOK
  <2>3. Pieces'
    <3>1. Fits(wp', 0, segbuf_used')
      BY <2>1, NothingFits
    <3> QED BY <1>1, <2>1, <3>1 DEF Pieces
  <2> QED BY <2>1, <2>2, <2>3 DEF SegInv
<1>3. CASE NotInterrupted /\ filled = 0 /\ UNCHANGED <<ws, wp, segbuf_empty, segbuf_used, filled>>
  <2>1. SegTypeOK'
    BY <1>1, <1>3 DEF SegInv, SegTypeOK
  <2>2. W' = W /\ R' = R /\ wp \in Nat /\ wp < Size /\ segbuf_used \in Nat /\ segbuf_used <= Total
    BY <1>1, <1>3, PlaceFacts, SizeFacts DEF W, R, Pos, SegInv, SegTypeOK
  <2>3. Pieces'
    <3>1. Fits(wp, 0, segbuf_used)
      BY NothingFits DEF SegInv, SegTypeOK
    <3> QED BY <1>1, <1>3, <2>2, <3>1 DEF SegInv, Pieces, NotInterrupted
  <2>4. InOrder'
    BY <1>1, <1>3, SameOrder DEF Consumed
  <2> QED BY <2>1, <2>3, <2>4 DEF SegInv
<1> QED BY <1>2, <1>3 DEF NutSegBufWriteLast

LEMMA FeedStep ==
  ASSUME SegInv, Feed
  PROVE  SegInv'
<1>1. /\ UNCHANGED <<ws, wp, rs, rp, segbuf_empty, segbuf_used, enabled, mem, room, filled, put>>
      /\ feed # <<>> /\ feed[2] < feed[1]
      /\ got' = (mem[enabled][rp + feed[2]] + 1) % Number
      /\ feed' = [feed EXCEPT ![2] = feed[2] + 1]
  BY DEF Feed, writeVars
<1>2. /\ feed[1] \in Nat /\ feed[2] \in Nat /\ feed[1] <= segbuf_used /\ rp + feed[1] <= Size
      /\ enabled = rs /\ feed \in Nat \X Nat
      /\ segbuf_used \in Nat /\ segbuf_used <= Total /\ filled \in Nat /\ segbuf_used + filled <= Total
      /\ rp \in Nat /\ got \in Numbers
      /\ Consumed = feed[2]
  <2>1. /\ feed[1] <= segbuf_used /\ rp + feed[1] <= Size /\ enabled = rs /\ got \in Numbers
    <3>1. feed[1] > 0
      BY <1>1, FeedFacts DEF SegInv
    <3> QED BY <1>1, <3>1 DEF SegInv, SegTypeOK, Pieces, InBank
  <2>2. feed[1] \in Nat /\ feed[2] \in Nat /\ feed \in Nat \X Nat /\ Consumed = feed[2]
    BY <1>1, FeedFacts DEF SegInv
  <2>3. /\ segbuf_used \in Nat /\ segbuf_used <= Total /\ filled \in Nat /\ segbuf_used + filled <= Total
        /\ rp \in Nat
    BY CountFacts DEF SegInv
  <2> QED BY <2>1, <2>2, <2>3
<1>3. feed' \in Nat \X Nat /\ feed' # <<>> /\ feed'[1] = feed[1] /\ feed'[2] = feed[2] + 1
  <2>1. PICK a \in Nat, c \in Nat : feed = <<a, c>>
    BY <1>2
  <2>2. feed' = <<a, c + 1>>
    BY <1>1, <2>1
  <2> QED BY <2>1, <2>2
<1>4. Consumed' = Consumed + 1
  BY <1>2, <1>3 DEF Consumed
<1>5. mem[enabled][rp + feed[2]] = got
  <2>1. rp + feed[2] \in Offset /\ rs \in Bank
    BY <1>1, <1>2, SizeFacts DEF Offset, SegInv, SegTypeOK
  <2>2. /\ Pos(rs, rp + feed[2]) = rs * Size + (rp + feed[2]) /\ Pos(rs, rp + feed[2]) \in Unit
        /\ Pos(rs, rp + feed[2]) \div Size = rs /\ Pos(rs, rp + feed[2]) % Size = rp + feed[2]
    BY <2>1, PosFacts
  <2>3. Pos(rs, rp + feed[2]) = R + feed[2] /\ R \in Unit
    BY <1>2, <2>2, PlaceFacts DEF SegInv
  <2>4. Wrap(R + (Consumed + 0), Total) = R + feed[2] /\ Wrap(got + 0, Number) = got
    BY <1>2, <2>2, <2>3, SizeFacts DEF Wrap, Unit, Numbers
  <2>5. 0 \in 0..(Pending - 1)
    <3>1. Pending = segbuf_used - Consumed + filled /\ Pending \in Nat
      BY CountFacts DEF SegInv
    <3>2. Pending # 0
      BY <1>1, <1>2, <3>1
    <3> QED BY <3>1, <3>2
  <2>6. Cell(R + feed[2]) = got
    BY <2>4, <2>5 DEF SegInv, InOrder
  <2> QED BY <1>2, <2>2, <2>3, <2>6 DEF Cell
<1>6. got' = Wrap(got + 1, Number) /\ got' \in Numbers
  <2>1. got + 1 \in 0..(Number + Number - 1)
    BY <1>2, SizeFacts DEF Numbers
  <2>2. (got + 1) % Number = Wrap(got + 1, Number) /\ Wrap(got + 1, Number) \in 0..(Number - 1)
    BY <2>1, SizeFacts, ModWrap
  <2> QED BY <1>1, <1>5, <2>2 DEF Numbers
<1>7. SegTypeOK'
  BY <1>1, <1>3, <1>6 DEF SegInv, SegTypeOK
<1>8. Pieces'
  <2>1. W' = W /\ R' = R
    BY <1>1 DEF W, R, Pos
  <2> QED BY <1>1, <1>2, <1>3, <2>1 DEF SegInv, Pieces
<1>9. put = Wrap(got + Pending, Number)
  BY DEF SegInv, InOrder
<1>10. Pending \in Nat /\ Pending > 0 /\ Pending <= Total /\ Pending' = Pending - 1
  <2>1. Pending' = Pending - 1
    BY <1>1, <1>2, <1>4 DEF Pending
  <2>2. Pending \in Nat /\ Pending = segbuf_used - Consumed + filled /\ Pending <= Total - Consumed
    BY CountFacts DEF SegInv
  <2>3. Pending # 0
    BY <1>1, <1>2, <2>2
  <2>4. Consumed \in Nat /\ Total \in Nat
    BY <1>2, SizeFacts
  <2> QED BY <2>1, <2>2, <2>3, <2>4
<1>11. ASSUME NEW i \in 0..(Pending - 1) PROVE Cell(Wrap(R + (Consumed + i), Total)) = Wrap(got + i, Number)
  BY DEF SegInv, InOrder
<1>12. put' = Wrap(got' + (Pending - 1), Number)
  <2>1. got \in 0..(Number - 1) /\ 1 \in 0..Number /\ Pending - 1 \in 0..Number /\ 1 + (Pending - 1) = Pending /\ Pending <= Number
    BY <1>2, <1>10, SizeFacts DEF Numbers
  <2>0. PICK j \in 0..Number : j = Pending - 1
    BY <2>1
  <2>3. j \in 0..(Number - 1) /\ j + 1 = Pending
    BY <2>0, <2>1, SizeFacts
  <2>2. Wrap(Wrap(got + 1, Number) + j, Number) = Wrap(got + (j + 1), Number)
    BY <2>1, <2>3, SizeFacts, WrapNext
  <2> QED BY <1>1, <1>6, <1>9, <2>0, <2>2, <2>3
<1>13. ASSUME NEW i \in 0..(Pending - 1 - 1)
       PROVE  Cell(Wrap(R + (Consumed' + i), Total)) = Wrap(got' + i, Number)
  <2>1. PICK j \in 0..(Pending - 1) : j = i + 1
    BY <1>10
  <2>2. Cell(Wrap(R + (Consumed + j), Total)) = Wrap(got + j, Number)
    BY <1>11
  <2>3. Consumed' + i = Consumed + j
    BY <1>2, <1>4, <2>1
  <2>4. got \in 0..(Number - 1) /\ i \in 0..(Number - 1) /\ i + 1 = j
    BY <1>2, <1>10, <2>1, SizeFacts DEF Numbers
  <2>5. Wrap(Wrap(got + 1, Number) + i, Number) = Wrap(got + (i + 1), Number)
    BY <2>4, SizeFacts, WrapNext
  <2> QED BY <1>6, <2>2, <2>3, <2>4, <2>5
<1>14. InOrder'
  <2>1. R' = R /\ \A m : Cell(m)' = Cell(m)
    BY <1>1 DEF R, Pos, Cell
  <2> QED BY <1>1, <1>10, <1>12, <1>13, <2>1 DEF InOrder
<1> QED BY <1>7, <1>8, <1>14 DEF SegInv

(* What was consumed is committed.                                          *)
LEMMA ConsumeFacts ==
  ASSUME SegInv, feed # <<>>, feed[2] > 0, ReadCommitted, UNCHANGED <<mem, ws, wp, filled, got, put>>,
         Consumed' = 0
  PROVE  /\ rs' \in Bank /\ rp' \in Offset /\ segbuf_used' \in 0..Total /\ segbuf_empty' \in BOOLEAN
         /\ (segbuf_empty' <=> segbuf_used' = 0) /\ segbuf_used' <= segbuf_used
         /\ W' = Wrap(R' + segbuf_used', Total)
         /\ InOrder'
<1> DEFINE c == feed[2]
<1>1. /\ c \in Nat /\ c > 0 /\ c <= segbuf_used /\ rp + c <= Size /\ c \in 0..Size /\ c \in 0..Total
      /\ rs \in Bank /\ rp \in Offset /\ ws \in Bank /\ wp \in Offset
      /\ segbuf_used \in Nat /\ segbuf_used <= Total /\ Consumed = c /\ filled \in Nat /\ segbuf_used + filled <= Total
      /\ W = Wrap(R + segbuf_used, Total) /\ R \in 0..(Total - 1)
  <2>1. c \in Nat /\ c > 0 /\ Consumed = c
    BY FeedFacts DEF SegInv
  <2>2. /\ rs \in Bank /\ rp \in Offset /\ ws \in Bank /\ wp \in Offset
    BY DEF SegInv, SegTypeOK
  <2>3. c <= segbuf_used /\ rp + c <= Size /\ c <= Size
    <3>1. feed[2] <= feed[1] /\ feed[1] <= segbuf_used /\ rp + feed[1] <= Size /\ feed[1] \in Nat /\ feed[2] \in Nat
      BY FeedFacts DEF SegInv, Pieces, InBank
    <3>2. segbuf_used \in Nat /\ rp \in Nat /\ Size \in Nat
      BY CountFacts DEF SegInv
    <3> QED BY <3>1, <3>2
  <2> HIDE DEF c
  <2> QED BY <2>1, <2>2, <2>3, CountFacts, SMTT(45) DEF SegInv
<1>2. /\ rs' = (IF rp + c = Size THEN (rs + 1) % Banks ELSE rs) /\ rp' = (rp + c) % Size
      /\ segbuf_used' = segbuf_used - c /\ (segbuf_empty' <=> rp' = wp /\ rs' = ws) /\ segbuf_empty' \in BOOLEAN
      /\ W' = W
  BY DEF ReadCommitted, W, Pos
<1> HIDE DEF c
<1>3. rs' \in Bank /\ rp' \in Offset /\ Pos(rs', rp') = Wrap(Pos(rs, rp) + c, Total)
  BY <1>1, <1>2, AdvanceFacts
<1>4. R' = Wrap(R + c, Total) /\ R' \in 0..(Total - 1)
  <2>1. R' = Wrap(R + c, Total)
    BY <1>3 DEF R
  <2> QED BY <1>1, <2>1, SizeFacts, WrapAround
<1>5. segbuf_used' \in 0..Total /\ segbuf_used' < Total /\ c + segbuf_used' = segbuf_used
  <2>1. PICK u \in 0..Total : u = segbuf_used - c /\ u < Total /\ c + u = segbuf_used
    <3>0. c \in Nat /\ c > 0 /\ c <= segbuf_used /\ segbuf_used \in Nat /\ segbuf_used <= Total /\ Total \in Nat
      BY <1>1, SizeFacts
    <3>1. segbuf_used - c \in 0..Total /\ segbuf_used - c < Total /\ c + (segbuf_used - c) = segbuf_used
      BY <3>0
    <3> QED BY <3>1
  <2>2. segbuf_used' = segbuf_used - c
    BY <1>2
  <2> QED BY <2>1, <2>2
<1>6. W' = Wrap(R' + segbuf_used', Total)
  <2>1. Wrap(Wrap(R + c, Total) + segbuf_used', Total) = Wrap(R + (c + segbuf_used'), Total)
    BY <1>1, <1>5, SizeFacts, WrapSum, ZenonT(60)
  <2> QED BY <1>1, <1>2, <1>4, <1>5, <2>1
<1>7. segbuf_empty' <=> segbuf_used' = 0
  <2>1. W' = R' <=> segbuf_used' = 0
    <3>1. Wrap(R' + segbuf_used', Total) = R' <=> segbuf_used' = 0 \/ segbuf_used' = Total
      BY <1>4, <1>5, SizeFacts, WrapAround
    <3> QED BY <1>5, <1>6, <3>1, SizeFacts
  <2>2. ws' = ws /\ wp' = wp
    OBVIOUS
  <2>3. Pos(ws, wp) = Pos(rs', rp') <=> ws = rs' /\ wp = rp'
    <3>1. Pos(ws, wp) \div Size = ws /\ Pos(ws, wp) % Size = wp
      BY <1>1, PosFacts
    <3>2. Pos(rs', rp') \div Size = rs' /\ Pos(rs', rp') % Size = rp'
      BY <1>3, PosFacts
    <3> QED BY <3>1, <3>2
  <2> QED BY <1>2, <2>1, <2>2, <2>3 DEF W, R
<1>8. InOrder'
  <2>1. Pending' = Pending /\ put = Wrap(got + Pending, Number) /\ Pending \in Nat /\ Pending <= Total - c
    <3>1. put = Wrap(got + Pending, Number)
      BY DEF SegInv, InOrder
    <3>2. Pending' = Pending
      BY <1>1, <1>2 DEF Pending
    <3> QED BY <1>1, <3>1, <3>2, CountFacts DEF SegInv
  <2>2. ASSUME NEW i \in 0..(Pending - 1) PROVE Cell(Wrap(R + (Consumed + i), Total)) = Wrap(got + i, Number)
    BY DEF SegInv, InOrder
  <2>3. ASSUME NEW i \in 0..(Pending - 1)
        PROVE  Cell(Wrap(R + (Consumed + i), Total))' = Wrap(got + i, Number)
    <3>1. i \in 0..Total /\ c + i <= Total
      BY <1>1, <2>1, SizeFacts
    <3>2. Wrap(Wrap(R + c, Total) + i, Total) = Wrap(R + (c + i), Total)
      BY <1>1, <3>1, SizeFacts, WrapSum, ZenonT(60)
    <3>3. Cell(Wrap(R + (c + i), Total)) = Wrap(got + i, Number)
      BY <1>1, <2>2
    <3>4. Cell(Wrap(R + (Consumed + i), Total))' = Cell(Wrap(R' + (Consumed' + i), Total))
      BY DEF Cell
    <3>5. Consumed' + i = i
      BY <3>1
    <3> QED BY <1>4, <3>2, <3>3, <3>4, <3>5
  <2> QED BY <2>1, <2>3 DEF InOrder
<1> QED BY <1>1, <1>2, <1>3, <1>5, <1>6, <1>7, <1>8

LEMMA ReadCommitStep ==
  ASSUME SegInv, NutSegBufReadCommit
  PROVE  SegInv'
<1>1. /\ UNCHANGED <<mem, ws, wp, room, filled, got, put>> /\ ReadCommitted /\ feed # <<>> /\ feed[2] > 0
      /\ enabled' = (IF rp + feed[2] = Size THEN rs' ELSE enabled) /\ feed' = <<0, 0>>
  BY DEF NutSegBufReadCommit, writeVars
<1>2. feed' # <<>> /\ feed'[1] = 0 /\ feed'[2] = 0 /\ feed' \in Nat \X Nat
  BY <1>1
<1>3. Consumed' = 0
  BY <1>2 DEF Consumed
<1>4. /\ rs' \in Bank /\ rp' \in Offset /\ segbuf_used' \in 0..Total /\ segbuf_empty' \in BOOLEAN
      /\ (segbuf_empty' <=> segbuf_used' = 0) /\ segbuf_used' <= segbuf_used
      /\ W' = Wrap(R' + segbuf_used', Total)
      /\ InOrder'
  BY <1>1, <1>3, ConsumeFacts
<1>5. SegTypeOK'
  BY <1>1, <1>2, <1>4 DEF SegInv, SegTypeOK
<1>6. Pieces'
  <2>1. Fits(wp, room, segbuf_used')
    BY <1>4, FewerFits DEF SegInv, SegTypeOK, Pieces
  <2>3. InBank(rp', 0)
    BY <1>4, NothingFits
  <2>2. 0 <= 0 /\ 0 <= segbuf_used'
    BY <1>4
  <2> QED BY <1>1, <1>2, <1>4, <2>1, <2>2, <2>3 DEF SegInv, Pieces
<1> QED BY <1>4, <1>5, <1>6 DEF SegInv

LEMMA ReadLastStep ==
  ASSUME SegInv, NutSegBufReadLast
  PROVE  SegInv'
<1>1. /\ UNCHANGED <<mem, ws, wp, room, filled, got, put>> /\ feed # <<>>
      /\ enabled' = ws /\ feed' = <<>>
  BY DEF NutSegBufReadLast, writeVars
<1>2. Consumed' = 0
  BY <1>1 DEF Consumed
<1>3. CASE feed[2] > 0
  <2>1. /\ rs' \in Bank /\ rp' \in Offset /\ segbuf_used' \in 0..Total /\ segbuf_empty' \in BOOLEAN
        /\ (segbuf_empty' <=> segbuf_used' = 0) /\ segbuf_used' <= segbuf_used
        /\ W' = Wrap(R' + segbuf_used', Total)
        /\ InOrder'
    BY <1>1, <1>2, <1>3, ConsumeFacts DEF NutSegBufReadLast
  <2>2. SegTypeOK'
    BY <1>1, <2>1 DEF SegInv, SegTypeOK
  <2>3. Pieces'
    <3>1. Fits(wp, room, segbuf_used')
      BY <2>1, FewerFits DEF SegInv, SegTypeOK, Pieces
    <3> QED BY <1>1, <2>1, <3>1 DEF SegInv, Pieces
  <2> QED BY <2>1, <2>2, <2>3 DEF SegInv
<1>4. CASE ~(feed[2] > 0)
  <2>1. UNCHANGED <<rs, rp, segbuf_empty, segbuf_used>>
    BY <1>4 DEF NutSegBufReadLast
  <2>2. Consumed = 0
    BY <1>1, <1>4 DEF SegInv, SegTypeOK, Consumed
  <2>3. SegTypeOK'
    BY <1>1, <2>1 DEF SegInv, SegTypeOK
  <2>4. Pieces'
    BY <1>1, <2>1 DEF SegInv, Pieces, W, R, Pos
  <2>5. InOrder'
    BY <1>1, <1>2, <2>1, <2>2, SameOrder
  <2> QED BY <2>3, <2>4, <2>5 DEF SegInv
<1> QED BY <1>3, <1>4

(* The inductive invariant of os/bankmem.c.                                 *)
THEOREM SegBufInvariant == SegSpec => []SegInv
<1>1. SegInv /\ [SegNext]_segVars => SegInv'
  <2> SUFFICES ASSUME SegInv, [SegNext]_segVars PROVE SegInv'
    OBVIOUS
  <2>1. CASE UNCHANGED segVars
    <3>1. Consumed' = Consumed
      BY <2>1 DEF segVars, Consumed
    <3>2. SegTypeOK' /\ Pieces'
      BY <2>1 DEF segVars, SegInv, SegTypeOK, Pieces, W, R, Pos
    <3> QED BY <2>1, <3>1, <3>2, SameOrder DEF segVars, SegInv
  <2> QED
    BY <2>1, WriteRequestStep, FillStep, WriteCommitStep, WriteLastStep, ReadRequestStep, FeedStep,
       ReadCommitStep, ReadLastStep DEF SegNext
<1> QED BY <1>1, InitSeg, PTL DEF SegSpec

(* The segmented buffer is a queue over any number of banks of any size,    *)
(* whatever interrupts come between NutSegBufWriteRequest() and the commit. *)
THEOREM SegBufIsQueue == SegSpec => []QueueKept
<1>1. SegInv => QueueKept
  <2> SUFFICES ASSUME SegInv PROVE QueueKept
    OBVIOUS
  <2>1. /\ segbuf_used \in Nat /\ segbuf_used <= Total /\ (segbuf_empty <=> segbuf_used = 0)
        /\ filled \in Nat /\ segbuf_used + filled <= Total /\ Consumed \in Nat /\ Consumed <= segbuf_used
        /\ W = ws * Size + wp /\ R = rs * Size + rp /\ R \in 0..(Total - 1)
        /\ ws * Size \in Nat /\ rs * Size \in Nat /\ wp \in Nat /\ rp \in Nat /\ W = Wrap(R + segbuf_used, Total)
        /\ Total \in Nat \ {0} /\ Number = Total + 1 /\ got \in Numbers
    <3>1. segbuf_empty <=> segbuf_used = 0
      BY DEF SegInv, Pieces
    <3>2. W = ws * Size + wp /\ R = rs * Size + rp /\ ws * Size \in Nat /\ rs * Size \in Nat
      BY PlaceFacts DEF SegInv
    <3>3. got \in Numbers
      BY DEF SegInv, SegTypeOK
    <3> QED BY <3>1, <3>2, <3>3, CountFacts, SizeFacts DEF SegInv
  <2>2. (ws * Size + wp - rs * Size - rp - segbuf_used) % Total = 0
    <3>1. PICK d \in Int : d = ws * Size + wp - rs * Size - rp - segbuf_used
      BY <2>1
    <3>2. d = 0 \/ d = 0 - Total
      BY <2>1, <3>1 DEF Wrap
    <3>3. 0 % Total = 0 /\ (0 - Total) % Total = 0
      BY <2>1
    <3> QED BY <3>1, <3>2, <3>3
  <2>3. put = (got + Pending) % Number
    <3>1. put = Wrap(got + Pending, Number)
      BY DEF SegInv, InOrder
    <3>2. got + Pending \in 0..(Number + Number - 1) /\ Number \in Nat \ {0}
      BY <2>1, CountFacts DEF Numbers, SegInv
    <3> QED BY <3>1, <3>2, ModWrap
  <2>4. ASSUME NEW i \in Consumed..(segbuf_used - 1)
        PROVE  UnitAt(i) = (got + i - Consumed) % Number
    <3>1. PICK j \in 0..(Pending - 1) : i = Consumed + j /\ j < Number
      <4>1. i - Consumed \in 0..(Pending - 1) /\ i = Consumed + (i - Consumed) /\ i - Consumed < Number
        BY <2>1, CountFacts DEF SegInv
      <4> QED BY <4>1
    <3>2. Cell(Wrap(R + (Consumed + j), Total)) = Wrap(got + j, Number)
      BY DEF SegInv, InOrder
    <3>3. R + i \in 0..(Total + Total - 1) /\ R + i = rs * Size + rp + i /\ i \in Nat
      BY <2>1
    <3>4. got + j \in 0..(Number + Number - 1) /\ Number \in Nat \ {0} /\ got + i - Consumed = got + j
      BY <2>1, <3>1 DEF Numbers
    <3>5. (rs * Size + rp + i) % Total = Wrap(R + i, Total)
      BY <2>1, <3>3, ModWrap
    <3>6. (got + i - Consumed) % Number = Wrap(got + j, Number)
      BY <3>4, ModWrap
    <3> QED BY <3>1, <3>2, <3>5, <3>6 DEF UnitAt, Cell
  <2>5. put = (got + (segbuf_used - Consumed) + filled) % Number
    <3>1. got + Pending = got + (segbuf_used - Consumed) + filled
      BY <2>1, CountFacts DEF SegInv, Numbers
    <3> QED BY <2>3, <3>1
  <2> QED BY ONLY <2>1, <2>2, <2>4, <2>5 DEF QueueKept, Consumed
<1> QED BY <1>1, SegBufInvariant, PTL

-----------------------------------------------------------------------------
(* The heap: the list of free nodes and the memory it covers.               *)

FreeNode == [addr : Nat, size : Nat]

(* A sequence with one element replaced.                                    *)
LEMMA ReplaceAtFacts ==
    ASSUME NEW T, NEW s \in Seq(T), NEW e \in T, NEW i \in 1..Len(s)
    PROVE  /\ [s EXCEPT ![i] = e] \in Seq(T)
           /\ Len([s EXCEPT ![i] = e]) = Len(s)
           /\ \A j \in 1..Len(s) : [s EXCEPT ![i] = e][j] = IF j = i THEN e ELSE s[j]
<1> DEFINE r == [s EXCEPT ![i] = e]
<1>1. Len(s) \in Nat /\ s \in [1..Len(s) -> T]
  BY LenProperties
<1>2. r \in [1..Len(s) -> T]
  BY <1>1
<1>3. r \in Seq(T) /\ Len(r) = Len(s)
  BY <1>1, <1>2, LenProperties
<1>4. \A j \in 1..Len(s) : r[j] = IF j = i THEN e ELSE s[j]
  BY <1>1
<1> QED BY <1>3, <1>4

Longer(s, i, n) == [s EXCEPT ![i].size = @ + n]

(* A node of a list that grows.                                             *)
LEMMA LongerNode ==
    ASSUME NEW s \in Seq(FreeNode), NEW i \in 1..Len(s), NEW n \in Nat
    PROVE  Longer(s, i, n) =
              [s EXCEPT ![i] = [addr |-> s[i].addr, size |-> s[i].size + n]]
<1>1. s[i] \in FreeNode
  BY ElementOfSeq
<1>2. [s[i] EXCEPT !.size = @ + n] = [addr |-> s[i].addr, size |-> s[i].size + n]
  BY <1>1 DEF FreeNode
<1>3. Longer(s, i, n) = [s EXCEPT ![i] = [s[i] EXCEPT !.size = @ + n]]
  BY DEF Longer
<1> QED BY <1>2, <1>3

Area(list) == UNION {Span(list[i]) : i \in 1..Len(list)}

Good(list) ==
    /\ list \in Seq(FreeNode)
    /\ \A i \in 1..Len(list) : list[i].size >= Node
    /\ \A i, j \in 1..Len(list) : i < j => End(list[i]) < list[j].addr

(* The addresses of a node.                                                *)
LEMMA SpanFacts ==
    ASSUME NEW f \in FreeNode
    PROVE  /\ f.addr \in Nat /\ f.size \in Nat /\ End(f) \in Nat /\ End(f) = f.addr + f.size
           /\ \A a : a \in Span(f) <=> a \in Nat /\ f.addr <= a /\ a < End(f)
BY DEF FreeNode, Span, End


(* Nodes without a common address lie one behind the other.                 *)
LEMMA SpansApart ==
    ASSUME NEW f \in FreeNode, NEW g \in FreeNode, f.size >= Node, g.size >= Node,
           \A a : ~(a \in Span(f) /\ a \in Span(g))
    PROVE  End(f) <= g.addr \/ End(g) <= f.addr
<1>1. /\ f.addr \in Nat /\ f.size \in Nat /\ End(f) = f.addr + f.size
      /\ g.addr \in Nat /\ g.size \in Nat /\ End(g) = g.addr + g.size
      /\ Node \in Nat /\ Node > 0
  BY SpanFacts, HeaderAssumption
<1>2. ~(f.addr \in Span(f) /\ f.addr \in Span(g)) /\ ~(g.addr \in Span(f) /\ g.addr \in Span(g))
  OBVIOUS
<1>3. f.addr \in Span(f) /\ g.addr \in Span(g)
  BY <1>1 DEF Span, End
<1>4. ~(g.addr <= f.addr /\ f.addr < End(g)) /\ ~(f.addr <= g.addr /\ g.addr < End(f))
  BY <1>1, <1>2, <1>3 DEF Span, End
<1> QED BY <1>1, <1>4

(* Operations on the list: a node replaced by one between its neighbours, a *)
(* node removed, and one put in between.                                    *)
LEMMA ReplaceNode ==
    ASSUME NEW list, Good(list), NEW i \in 1..Len(list), NEW g \in FreeNode, g.size >= Node,
           \A j \in 1..Len(list) : j < i => End(list[j]) < g.addr,
           \A j \in 1..Len(list) : i < j => End(g) < list[j].addr
    PROVE  /\ Good([list EXCEPT ![i] = g])
           /\ \A a : a \in Area([list EXCEPT ![i] = g]) <=>
                 \/ a \in Span(g)
                 \/ \E j \in 1..Len(list) : j # i /\ a \in Span(list[j])
<1> DEFINE r == [list EXCEPT ![i] = g]
<1>1. list \in Seq(FreeNode) /\ Len(list) \in Nat
  BY LenProperties DEF Good
<1>2. /\ r \in Seq(FreeNode) /\ Len(r) = Len(list)
      /\ \A j \in 1..Len(list) : r[j] = IF j = i THEN g ELSE list[j]
  BY <1>1, ReplaceAtFacts
<1> HIDE DEF r
<1>3. \A j \in 1..Len(r) : r[j].size >= Node
  BY <1>2 DEF Good
<1>4. \A j, k \in 1..Len(r) : j < k => End(r[j]) < r[k].addr
  <2> SUFFICES ASSUME NEW j \in 1..Len(r), NEW k \in 1..Len(r), j < k
               PROVE  End(r[j]) < r[k].addr
    OBVIOUS
  <2>1. CASE j = i
    BY <2>1, <1>1, <1>2
  <2>2. CASE k = i
    BY <2>2, <1>1, <1>2
  <2>3. CASE j # i /\ k # i
    BY <2>3, <1>1, <1>2 DEF Good
  <2> QED BY <2>1, <2>2, <2>3
<1>5. \A a : a \in Area(r) <=>
                 \/ a \in Span(g)
                 \/ \E j \in 1..Len(list) : j # i /\ a \in Span(list[j])
  BY <1>2 DEF Area
<1>6. Good(r)
  BY <1>2, <1>3, <1>4 DEF Good
<1> QED BY <1>5, <1>6 DEF r

LEMMA RemoveNode ==
    ASSUME NEW list, Good(list), NEW i \in 1..Len(list)
    PROVE  /\ Good(Without(list, i))
           /\ \A a : a \in Area(Without(list, i)) <=>
                 \E j \in 1..Len(list) : j # i /\ a \in Span(list[j])
<1> DEFINE r == Without(list, i)
<1>1. list \in Seq(FreeNode) /\ Len(list) \in Nat
  BY LenProperties DEF Good
<1>2. r = RemoveAt(list, i)
  BY DEF RemoveAt, Without
<1>3. /\ r \in Seq(FreeNode) /\ Len(r) = Len(list) - 1
      /\ \A j \in 1..(Len(list) - 1) : r[j] = IF j < i THEN list[j] ELSE list[j + 1]
  BY <1>1, <1>2, RemoveAtFacts
<1> HIDE DEF r
<1>4. \A j \in 1..Len(r) : r[j].size >= Node
  <2> TAKE j \in 1..Len(r)
  <2>1. j \in 1..Len(list) /\ j + 1 \in 1..Len(list)
    BY <1>1, <1>3
  <2> QED BY <1>1, <1>3, <2>1 DEF Good
<1>5. \A j, k \in 1..Len(r) : j < k => End(r[j]) < r[k].addr
  <2> SUFFICES ASSUME NEW j \in 1..Len(r), NEW k \in 1..Len(r), j < k
               PROVE  End(r[j]) < r[k].addr
    OBVIOUS
  <2>1. /\ j \in 1..Len(list) /\ j + 1 \in 1..Len(list)
        /\ k \in 1..Len(list) /\ k + 1 \in 1..Len(list)
        /\ j \in 1..(Len(list) - 1) /\ k \in 1..(Len(list) - 1)
        /\ j \in Int /\ k \in Int /\ i \in Int
    BY <1>1, <1>3
  <2>2. /\ r[j] = IF j < i THEN list[j] ELSE list[j + 1]
        /\ r[k] = IF k < i THEN list[k] ELSE list[k + 1]
    BY <1>3, <2>1
  <2>3. CASE j < i /\ k < i
    BY <2>1, <2>2, <2>3 DEF Good
  <2>4. CASE j < i /\ ~(k < i)
    <3>1. j < k + 1 /\ r[j] = list[j] /\ r[k] = list[k + 1]
      BY <2>1, <2>2, <2>4
    <3> QED BY <3>1, <2>1 DEF Good
  <2>5. CASE ~(j < i)
    <3>1. j + 1 < k + 1 /\ r[j] = list[j + 1] /\ r[k] = list[k + 1]
      BY <2>1, <2>2, <2>5
    <3> QED BY <3>1, <2>1 DEF Good
  <2> QED BY <2>3, <2>4, <2>5
<1>6. ASSUME NEW a
      PROVE  a \in Area(r) <=> \E j \in 1..Len(list) : j # i /\ a \in Span(list[j])
  <2>1. ASSUME NEW j \in 1..Len(r), a \in Span(r[j])
        PROVE  \E k \in 1..Len(list) : k # i /\ a \in Span(list[k])
    <3>1. /\ j \in 1..Len(list) /\ j + 1 \in 1..Len(list) /\ j \in 1..(Len(list) - 1)
          /\ j \in Int /\ i \in Int
      BY <1>1, <1>3
    <3>2. CASE j < i
      BY <2>1, <3>1, <3>2, <1>3
    <3>3. CASE ~(j < i)
      <4>1. r[j] = list[j + 1] /\ j + 1 # i
        BY <3>1, <3>3, <1>3
      <4> QED BY <4>1, <2>1, <3>1
    <3> QED BY <3>2, <3>3
  <2>2. ASSUME NEW k \in 1..Len(list), k # i, a \in Span(list[k])
        PROVE  \E j \in 1..Len(r) : a \in Span(r[j])
    <3>1. k \in Int /\ i \in Int /\ i <= Len(list) /\ i >= 1 /\ k >= 1 /\ k <= Len(list)
      BY <1>1
    <3>2. CASE k < i
      <4>1. k \in 1..Len(r) /\ r[k] = list[k]
        BY <3>1, <3>2, <1>1, <1>3
      <4> QED BY <4>1, <2>2
    <3>3. CASE k > i
      <4> DEFINE j == k - 1
      <4>1. j \in 1..Len(r) /\ j \in 1..(Len(list) - 1) /\ ~(j < i) /\ j + 1 = k
        BY <3>1, <3>3, <1>1, <1>3
      <4>2. r[j] = list[j + 1]
        BY <4>1, <1>3
      <4>3. r[j] = list[k]
        BY <4>1, <4>2
      <4> QED BY <4>1, <4>3, <2>2
    <3> QED BY <2>2, <3>1, <3>2, <3>3
  <2> QED BY <2>1, <2>2 DEF Area
<1>7. Good(r)
  BY <1>3, <1>4, <1>5 DEF Good
<1> QED BY <1>6, <1>7 DEF r

LEMMA InsertNode ==
    ASSUME NEW list, Good(list), NEW i \in 1..(Len(list) + 1), NEW f \in FreeNode, f.size >= Node,
           \A j \in 1..Len(list) : j < i => End(list[j]) < f.addr,
           \A j \in 1..Len(list) : i <= j => End(f) < list[j].addr,
           NEW r \in Seq(FreeNode), Len(r) = Len(list) + 1,
           \A j \in 1..(Len(list) + 1) : r[j] =
              IF j < i THEN list[j] ELSE IF j = i THEN f ELSE list[j - 1]
    PROVE  Good(r) /\ \A a : a \in Area(r) <=> a \in Span(f) \/ a \in Area(list)
<1>1. list \in Seq(FreeNode) /\ Len(list) \in Nat /\ i \in Int
  BY LenProperties DEF Good
<1>2. ASSUME NEW j \in 1..Len(r)
      PROVE  \/ j < i /\ j \in 1..Len(list) /\ r[j] = list[j]
             \/ j = i /\ r[j] = f
             \/ j > i /\ j - 1 \in 1..Len(list) /\ r[j] = list[j - 1]
  <2>1. r[j] = IF j < i THEN list[j] ELSE IF j = i THEN f ELSE list[j - 1]
    OBVIOUS
  <2>2. j \in Int /\ i >= 1 /\ i <= Len(list) + 1 /\ j >= 1 /\ j <= Len(list) + 1
    BY <1>1
  <2> QED BY <2>1, <2>2, <1>1
<1>3. \A j \in 1..Len(r) : r[j].size >= Node
  BY <1>2 DEF Good
<1>4. \A j, k \in 1..Len(r) : j < k => End(r[j]) < r[k].addr
  <2> SUFFICES ASSUME NEW j \in 1..Len(r), NEW k \in 1..Len(r), j < k
               PROVE  End(r[j]) < r[k].addr
    OBVIOUS
  <2>0. j \in Int /\ k \in Int
    BY <1>1
  <2>1. CASE j = i
    <3>1. k - 1 \in 1..Len(list) /\ r[k] = list[k - 1] /\ i <= k - 1 /\ r[j] = f
      BY <2>0, <2>1, <1>1, <1>2
    <3> QED BY <3>1
  <2>2. CASE k = i
    <3>1. j \in 1..Len(list) /\ r[j] = list[j] /\ r[k] = f
      BY <2>0, <2>2, <1>1, <1>2
    <3> QED BY <3>1, <2>2
  <2>3. CASE j < i /\ k < i
    <3>1. j \in 1..Len(list) /\ r[j] = list[j] /\ k \in 1..Len(list) /\ r[k] = list[k]
      BY <2>0, <2>3, <1>1, <1>2
    <3> QED BY <3>1 DEF Good
  <2>4. CASE j < i /\ k > i
    <3>1. /\ j \in 1..Len(list) /\ r[j] = list[j] /\ k - 1 \in 1..Len(list) /\ r[k] = list[k - 1]
          /\ j < k - 1
      BY <2>0, <2>4, <1>1, <1>2
    <3> QED BY <3>1 DEF Good
  <2>5. CASE j > i /\ k > i
    <3>1. /\ j - 1 \in 1..Len(list) /\ r[j] = list[j - 1]
          /\ k - 1 \in 1..Len(list) /\ r[k] = list[k - 1] /\ j - 1 < k - 1
      BY <2>0, <2>5, <1>1, <1>2
    <3> QED BY <3>1 DEF Good
  <2> QED BY <2>0, <2>1, <2>2, <2>3, <2>4, <2>5, <1>1
<1>5. ASSUME NEW a
      PROVE  a \in Area(r) <=> a \in Span(f) \/ a \in Area(list)
  <2>1. ASSUME NEW j \in 1..Len(r), a \in Span(r[j])
        PROVE  a \in Span(f) \/ \E k \in 1..Len(list) : a \in Span(list[k])
    BY <2>1, <1>2
  <2>2. ASSUME a \in Span(f)
        PROVE  \E j \in 1..Len(r) : a \in Span(r[j])
    <3>1. i \in 1..Len(r) /\ r[i] = f
      BY <1>1
    <3> QED BY <3>1, <2>2
  <2>3. ASSUME NEW k \in 1..Len(list), a \in Span(list[k])
        PROVE  \E j \in 1..Len(r) : a \in Span(r[j])
    <3>1. CASE k < i
      <4>1. k \in 1..Len(r) /\ r[k] = list[k]
        BY <1>1, <3>1
      <4> QED BY <4>1, <2>3
    <3>2. CASE ~(k < i)
      <4> DEFINE j == k + 1
      <4>1. j \in 1..(Len(list) + 1) /\ ~(j < i) /\ j # i /\ j - 1 = k
        BY <1>1, <3>2
      <4>2. r[j] = list[j - 1]
        BY <4>1
      <4>3. r[j] = list[k] /\ j \in 1..Len(r)
        BY <4>1, <4>2
      <4> QED BY <4>3, <2>3
    <3> QED BY <3>1, <3>2
  <2> QED BY <2>1, <2>2, <2>3 DEF Area
<1>6. Good(r)
  BY <1>3, <1>4 DEF Good
<1> QED BY <1>5, <1>6

(* The loop of NutHeapRootFree() stops at the first node that does not end  *)
(* before the released one.                                                 *)
LEMMA StopFacts ==
    ASSUME NEW list, Good(list), NEW addr \in Nat, Stops(list, addr) # {}
    PROVE  /\ StopAt(list, addr) \in 1..Len(list)
           /\ End(list[StopAt(list, addr)]) >= addr
           /\ \A j \in 1..Len(list) : j < StopAt(list, addr) => End(list[j]) < addr
<1>1. list \in Seq(FreeNode) /\ Len(list) \in Nat /\ DOMAIN list = 1..Len(list)
  BY LenProperties DEF Good
<1>2. Stops(list, addr) \in SUBSET (1..Len(list))
  BY <1>1 DEF Stops
<1>3. \E m \in Stops(list, addr) : \A j \in Stops(list, addr) : m <= j
  BY <1>1, <1>2, FirstPosition
<1>4. /\ StopAt(list, addr) \in Stops(list, addr)
      /\ \A j \in Stops(list, addr) : StopAt(list, addr) <= j
  BY <1>3 DEF StopAt
<1>5. ASSUME NEW j \in 1..Len(list), j < StopAt(list, addr)
      PROVE  End(list[j]) < addr
  <2>1. j \notin Stops(list, addr)
    BY <1>2, <1>4, <1>5
  <2>2. list[j] \in FreeNode
    BY <1>1, ElementOfSeq
  <2>3. End(list[j]) \in Nat
    BY <2>2, SpanFacts
  <2> QED BY <2>1, <2>3, <1>1 DEF Stops
<1> QED BY <1>1, <1>2, <1>4, <1>5 DEF Stops

(* One node of two that touch.                                              *)
LEMMA JoinedSpan ==
    ASSUME NEW f \in FreeNode, NEW g \in FreeNode, End(f) = g.addr,
           f.size >= Node, g.size >= Node
    PROVE  /\ [addr |-> f.addr, size |-> f.size + g.size] \in FreeNode
           /\ f.size + g.size \in Nat /\ f.size + g.size >= Node
           /\ End([addr |-> f.addr, size |-> f.size + g.size]) = End(g)
           /\ \A a : a \in Span([addr |-> f.addr, size |-> f.size + g.size]) <=>
                        a \in Span(f) \/ a \in Span(g)
<1> DEFINE h == [addr |-> f.addr, size |-> f.size + g.size]
<1>1. /\ f.addr \in Nat /\ f.size \in Nat /\ End(f) = f.addr + f.size
      /\ g.addr \in Nat /\ g.size \in Nat /\ End(g) = g.addr + g.size
      /\ Node \in Nat
  BY SpanFacts, HeaderAssumption
<1>2. h.addr = f.addr /\ h.size = f.size + g.size
  OBVIOUS
<1>3. h \in FreeNode /\ f.size + g.size \in Nat /\ f.size + g.size >= Node
  BY <1>1 DEF FreeNode
<1>4. End(h) = End(g)
  BY <1>1, <1>2 DEF End
<1> HIDE DEF h
<1>5. \A a : a \in Span(h) <=> a \in Span(f) \/ a \in Span(g)
  BY <1>1, <1>2, <1>4, <1>3, SpanFacts
<1> QED BY <1>3, <1>4, <1>5 DEF h

LEMMA AreaParts ==
    ASSUME NEW list, NEW i \in 1..Len(list), NEW a
    PROVE  a \in Area(list) <=>
              \/ a \in Span(list[i])
              \/ \E j \in 1..Len(list) : j # i /\ a \in Span(list[j])
BY DEF Area

(* Release: the list stays in order and merged, and covers what it covered  *)
(* and the released node, whichever neighbours are merged.                  *)
LEMMA ReleaseInFront ==
    ASSUME NEW list, Good(list), NEW i \in 1..Len(list), NEW f \in FreeNode, f.size >= Node,
           \A j \in 1..Len(list) : j < i => End(list[j]) < f.addr,
           End(f) <= list[i].addr
    PROVE  /\ Good(InFront(list, i, f))
           /\ \A a : a \in Area(InFront(list, i, f)) <=> a \in Span(f) \/ a \in Area(list)
<1>1. list \in Seq(FreeNode) /\ Len(list) \in Nat /\ list[i] \in FreeNode /\ list[i].size >= Node
  BY LenProperties, ElementOfSeq DEF Good
<1>2. CASE End(f) = list[i].addr
  <2> DEFINE g == [addr |-> f.addr, size |-> f.size + list[i].size]
  <2>1. /\ g \in FreeNode /\ g.size >= Node /\ End(g) = End(list[i])
        /\ \A a : a \in Span(g) <=> a \in Span(f) \/ a \in Span(list[i])
    BY <1>1, <1>2, JoinedSpan
  <2>2. InFront(list, i, f) = [list EXCEPT ![i] = g]
    BY <1>2 DEF InFront
  <2>3. \A j \in 1..Len(list) : j < i => End(list[j]) < g.addr
    OBVIOUS
  <2> HIDE DEF g
  <2>4. \A j \in 1..Len(list) : i < j => End(g) < list[j].addr
    BY <2>1 DEF Good
  <2>5. /\ Good([list EXCEPT ![i] = g])
        /\ \A a : a \in Area([list EXCEPT ![i] = g]) <=>
                 \/ a \in Span(g)
                 \/ \E j \in 1..Len(list) : j # i /\ a \in Span(list[j])
    BY <2>1, <2>3, <2>4, ReplaceNode
  <2>6. \A a : a \in Area(list) <=>
              \/ a \in Span(list[i])
              \/ \E j \in 1..Len(list) : j # i /\ a \in Span(list[j])
    BY AreaParts
  <2> QED BY <2>1, <2>2, <2>5, <2>6
<1>3. CASE End(f) # list[i].addr
  <2> DEFINE r == InFront(list, i, f)
  <2>1. r = InsertAt(list, i, f)
    BY <1>3 DEF InFront, InsertAt
  <2>2. i \in 1..(Len(list) + 1)
    BY <1>1
  <2>3. /\ r \in Seq(FreeNode) /\ Len(r) = Len(list) + 1
        /\ \A j \in 1..(Len(list) + 1) : r[j] =
              IF j < i THEN list[j] ELSE IF j = i THEN f ELSE list[j - 1]
    <3> HIDE DEF r
    <3>1. /\ InsertAt(list, i, f) \in Seq(FreeNode) /\ Len(InsertAt(list, i, f)) = Len(list) + 1
          /\ \A j \in 1..(Len(list) + 1) : InsertAt(list, i, f)[j] =
                IF j < i THEN list[j] ELSE IF j = i THEN f ELSE list[j - 1]
      <4>1. list \in Seq(FreeNode)
        BY <1>1
      <4> QED BY ONLY <4>1, <2>2, f \in FreeNode, InsertAtFacts
    <3> QED BY <2>1, <3>1
  <2>4. \A j \in 1..Len(list) : i <= j => End(f) < list[j].addr
    <3> TAKE j \in 1..Len(list)
    <3>1. /\ list[i].addr \in Nat /\ End(list[i]) = list[i].addr + list[i].size
          /\ list[i].size \in Nat /\ End(f) \in Nat
      BY <1>1, SpanFacts
    <3>2. list[j] \in FreeNode
      BY <1>1, ElementOfSeq
    <3>3. list[j].addr \in Nat
      BY <3>2, SpanFacts
    <3>4. CASE j = i
      BY <1>3, <3>1, <3>4
    <3>5. CASE i < j
      <4>1. End(list[i]) < list[j].addr
        BY <3>5 DEF Good
      <4> QED BY <4>1, <3>1, <3>3
    <3> QED BY <3>4, <3>5, <1>1
  <2> HIDE DEF r
  <2>5. Good(r) /\ \A a : a \in Area(r) <=> a \in Span(f) \/ a \in Area(list)
    BY <2>2, <2>3, <2>4, InsertNode
  <2> QED BY <2>5 DEF r
<1> QED BY <1>2, <1>3

LEMMA ReleaseBehind ==
    ASSUME NEW list, Good(list), NEW i \in 1..Len(list), NEW f \in FreeNode, f.size >= Node,
           End(list[i]) = f.addr,
           \A j \in 1..Len(list) : i < j => End(f) <= list[j].addr
    PROVE  /\ Good(Behind(list, i, f))
           /\ \A a : a \in Area(Behind(list, i, f)) <=> a \in Span(f) \/ a \in Area(list)
<1>1. list \in Seq(FreeNode) /\ Len(list) \in Nat /\ list[i] \in FreeNode /\ list[i].size >= Node
  BY LenProperties, ElementOfSeq DEF Good
<1> DEFINE joined == [list EXCEPT ![i].size = @ + f.size]
           g == [addr |-> list[i].addr, size |-> list[i].size + f.size]
<1>2. /\ g \in FreeNode /\ g.size >= Node /\ g.size = list[i].size + f.size
      /\ End(g) = End(f) /\ g.addr = list[i].addr
      /\ list[i].size + f.size \in Nat
      /\ \A a : a \in Span(g) <=> a \in Span(list[i]) \/ a \in Span(f)
  BY <1>1, JoinedSpan
<1>3. joined = [list EXCEPT ![i] = g]
  <2>1. f.size \in Nat
    BY SpanFacts
  <2>2. joined = Longer(list, i, f.size)
    BY DEF Longer
  <2>3. Longer(list, i, f.size) = [list EXCEPT ![i] = g]
    BY <1>1, <2>1, LongerNode
  <2> QED BY <2>2, <2>3
<1>4. /\ joined \in Seq(FreeNode) /\ Len(joined) = Len(list)
      /\ \A j \in 1..Len(list) : joined[j] = IF j = i THEN g ELSE list[j]
  BY <1>1, <1>2, <1>3, ReplaceAtFacts
<1> HIDE DEF joined, g
<1>5. \A j \in 1..Len(list) : j < i => End(list[j]) < g.addr
  BY <1>2 DEF Good
<1>6. \A a : a \in Area(list) <=>
              \/ a \in Span(list[i])
              \/ \E j \in 1..Len(list) : j # i /\ a \in Span(list[j])
  BY AreaParts
<1>7. CASE ~(i < Len(list) /\ End(joined[i]) = list[i + 1].addr)
  <2>1. Behind(list, i, f) = joined
    BY <1>7 DEF Behind, joined
  <2>2. \A j \in 1..Len(list) : i < j => End(g) < list[j].addr
    <3> SUFFICES ASSUME NEW j \in 1..Len(list), i < j
                 PROVE  End(g) < list[j].addr
      OBVIOUS
    <3>1. i \in Int /\ j \in Int /\ i + 1 \in 1..Len(list) /\ i < Len(list)
      BY <1>1
    <3>2. End(g) # list[i + 1].addr
      BY <1>4, <1>7, <3>1
    <3>3. list[j] \in FreeNode /\ list[i + 1] \in FreeNode
      BY <1>1, <3>1, ElementOfSeq
    <3>4. /\ list[j].addr \in Nat /\ list[i + 1].addr \in Nat /\ End(f) \in Nat
          /\ list[i + 1].size \in Nat /\ End(list[i + 1]) = list[i + 1].addr + list[i + 1].size
      BY <3>3, SpanFacts
    <3>5. i < i + 1
      BY <3>1
    <3>6. End(g) < list[i + 1].addr
      BY <1>2, <3>1, <3>2, <3>4, <3>5
    <3>7. CASE j = i + 1
      BY <3>6, <3>7
    <3>8. CASE i + 1 < j
      <4>1. End(list[i + 1]) < list[j].addr
        BY <3>1, <3>8 DEF Good
      <4> QED BY <4>1, <3>4, <3>6, <1>2
    <3> QED BY <3>1, <3>7, <3>8
  <2>3. /\ Good(joined)
        /\ \A a : a \in Area(joined) <=>
                 \/ a \in Span(g)
                 \/ \E j \in 1..Len(list) : j # i /\ a \in Span(list[j])
    BY <1>2, <1>3, <1>5, <2>2, ReplaceNode
  <2> QED BY <1>2, <1>6, <2>1, <2>3
<1>8. CASE i < Len(list) /\ End(joined[i]) = list[i + 1].addr
  <2> DEFINE n == i + 1
             h == [addr |-> g.addr, size |-> g.size + list[n].size]
             both == [joined EXCEPT ![i].size = @ + list[n].size]
  <2>1. n \in 1..Len(list) /\ i < n /\ i \in Int /\ n \in Int /\ n # i
    BY <1>1, <1>8
  <2>2. joined[i] = g /\ End(g) = list[n].addr
    BY <1>4, <1>8
  <2>3. list[n] \in FreeNode /\ list[n].size >= Node
    BY <1>1, <2>1, ElementOfSeq DEF Good
  <2> HIDE DEF n
  <2>4. /\ h \in FreeNode /\ h.size >= Node /\ h.addr = g.addr /\ End(h) = End(list[n])
        /\ g.size + list[n].size \in Nat
        /\ \A a : a \in Span(h) <=> a \in Span(g) \/ a \in Span(list[n])
    BY <1>2, <2>2, <2>3, JoinedSpan
  <2> HIDE DEF h, both
  <2>5. both = [joined EXCEPT ![i] = h]
    <3>1. list[n].size \in Nat /\ i \in 1..Len(joined)
      BY <1>4, <2>3, SpanFacts
    <3>2. both = [joined EXCEPT ![i] =
                    [addr |-> joined[i].addr, size |-> joined[i].size + list[n].size]]
      <4>1. both = Longer(joined, i, list[n].size)
        BY DEF both, Longer
      <4> QED BY <1>4, <3>1, <4>1, LongerNode
    <3> QED BY <2>2, <3>2 DEF h
  <2>6. Behind(list, i, f) = Without(both, n)
    BY <1>8 DEF Behind, both, joined, n
  <2>7. both = [list EXCEPT ![i] = h]
    BY <1>3, <2>5
  <2>8. /\ Without(both, n) = RemoveAt(both, n)
        /\ Without(list, n) = RemoveAt(list, n)
    BY DEF Without, RemoveAt
  <2>9. /\ both \in Seq(FreeNode) /\ Len(both) = Len(list)
        /\ \A j \in 1..Len(list) : both[j] = IF j = i THEN h ELSE list[j]
    BY <1>1, <2>4, <2>7, ReplaceAtFacts
  <2> DEFINE l1 == Without(list, n)
             l2 == Without(both, n)
  <2>10. /\ l1 \in Seq(FreeNode) /\ Len(l1) = Len(list) - 1
         /\ \A j \in 1..(Len(list) - 1) : l1[j] = IF j < n THEN list[j] ELSE list[j + 1]
    BY <1>1, <2>1, <2>8, RemoveAtFacts
  <2>11. /\ l2 \in Seq(FreeNode) /\ Len(l2) = Len(list) - 1
         /\ \A j \in 1..(Len(list) - 1) : l2[j] = IF j < n THEN both[j] ELSE both[j + 1]
    BY <2>1, <2>8, <2>9, RemoveAtFacts
  <2>12. /\ Good(l1)
         /\ \A a : a \in Area(l1) <=>
                 \E j \in 1..Len(list) : j # n /\ a \in Span(list[j])
    BY <2>1, RemoveNode
  <2> HIDE DEF l1, l2
  <2>13. i \in 1..Len(l1) /\ l1[i] = list[i]
    BY <1>1, <2>1, <2>10
  <2> DEFINE l3 == [l1 EXCEPT ![i] = h]
  <2>14. /\ l3 \in Seq(FreeNode) /\ Len(l3) = Len(l1)
         /\ \A j \in 1..Len(l1) : l3[j] = IF j = i THEN h ELSE l1[j]
    BY <2>4, <2>10, <2>13, ReplaceAtFacts
  <2>15. \A j \in 1..Len(l1) : l3[j] = l2[j]
    <3> TAKE j \in 1..Len(l1)
    <3>1. /\ j \in 1..(Len(list) - 1) /\ j \in 1..Len(list) /\ j + 1 \in 1..Len(list)
          /\ j \in Int
      BY <1>1, <2>10
    <3>2. CASE j < n
      BY <3>1, <3>2, <2>9, <2>10, <2>11, <2>14
    <3>3. CASE ~(j < n)
      <4>1. j # i /\ j + 1 # i
        BY <3>1, <3>3, <2>1
      <4> QED BY <4>1, <3>1, <3>3, <2>9, <2>10, <2>11, <2>14
    <3> QED BY <3>2, <3>3
  <2> HIDE DEF l3
  <2>16. l3 = l2
    BY <2>10, <2>11, <2>14, <2>15, SeqEqual
  <2>17. \A j \in 1..Len(l1) : j < i => End(l1[j]) < h.addr
    BY <1>1, <1>2, <2>4, <2>12, <2>13 DEF Good
  <2>18. \A j \in 1..Len(l1) : i < j => End(h) < l1[j].addr
    <3> SUFFICES ASSUME NEW j \in 1..Len(l1), i < j
                 PROVE  End(h) < l1[j].addr
      OBVIOUS
    <3>1. /\ j \in 1..(Len(list) - 1) /\ j + 1 \in 1..Len(list) /\ j \in Int
          /\ ~(j < n) /\ n < j + 1
      BY <1>1, <2>1, <2>10 DEF n
    <3>2. l1[j] = list[j + 1]
      BY <3>1, <2>10
    <3>3. End(list[n]) < list[j + 1].addr
      BY <3>1, <2>1 DEF Good
    <3> QED BY <3>2, <3>3, <2>4
  <2>19. /\ Good(l3)
         /\ \A a : a \in Area(l3) <=>
                 \/ a \in Span(h)
                 \/ \E j \in 1..Len(l1) : j # i /\ a \in Span(l1[j])
    BY <2>4, <2>12, <2>13, <2>17, <2>18, ReplaceNode DEF l3
  <2>20. \A a : a \in Area(l1) <=>
              \/ a \in Span(l1[i])
              \/ \E j \in 1..Len(l1) : j # i /\ a \in Span(l1[j])
    BY <2>13, AreaParts
  <2>21. \A a : a \in Area(list) <=>
              \/ a \in Span(list[n])
              \/ \E j \in 1..Len(list) : j # n /\ a \in Span(list[j])
    BY <2>1, AreaParts
  <2>22. \A a : a \in Area(l3) <=> a \in Span(f) \/ a \in Area(list)
    BY <1>2, <2>4, <2>12, <2>13, <2>19, <2>20, <2>21
  <2>23. Behind(list, i, f) = l3
    BY <2>6, <2>16 DEF l2
  <2> QED BY <2>19, <2>22, <2>23
<1> QED BY <1>7, <1>8

LEMMA ReleaseNode ==
    ASSUME NEW list, Good(list), NEW f \in FreeNode, f.size >= Node,
           \A a : ~(a \in Span(f) /\ a \in Area(list))
    PROVE  /\ Good(Released(list, f))
           /\ \A a : a \in Area(Released(list, f)) <=> a \in Span(f) \/ a \in Area(list)
<1>1. list \in Seq(FreeNode) /\ Len(list) \in Nat /\ DOMAIN list = 1..Len(list)
  BY LenProperties DEF Good
<1>2. /\ f.addr \in Nat /\ f.size \in Nat /\ End(f) \in Nat /\ End(f) = f.addr + f.size
      /\ Node \in Nat /\ Node > 0
  BY SpanFacts, HeaderAssumption
<1>3. ASSUME NEW i \in 1..Len(list)
      PROVE  /\ list[i] \in FreeNode /\ list[i].addr \in Nat /\ list[i].size \in Nat
             /\ End(list[i]) \in Nat /\ End(list[i]) = list[i].addr + list[i].size
             /\ list[i].size >= Node
             /\ (End(f) <= list[i].addr \/ End(list[i]) <= f.addr)
  <2>1. list[i] \in FreeNode
    BY <1>1, ElementOfSeq
  <2>2. list[i].size >= Node
    BY DEF Good
  <2>3. \A a : ~(a \in Span(f) /\ a \in Span(list[i]))
    BY DEF Area
  <2>4. End(f) <= list[i].addr \/ End(list[i]) <= f.addr
    BY <2>1, <2>2, <2>3, SpansApart
  <2> QED BY <2>1, <2>2, <2>4, SpanFacts
<1>4. CASE Stops(list, f.addr) = {}
  <2>1. Released(list, f) = Append(list, f)
    BY <1>4 DEF Released, Refused
  <2>2. \A j \in 1..Len(list) : End(list[j]) < f.addr
    <3> TAKE j \in 1..Len(list)
    <3>1. End(list[j]) \in Nat
      BY <1>3
    <3>2. j \notin Stops(list, f.addr)
      BY <1>4
    <3>3. ~(End(list[j]) >= f.addr)
      BY <1>1, <3>2 DEF Stops
    <3> QED BY <1>2, <3>1, <3>3
  <2>3. /\ Append(list, f) \in Seq(FreeNode) /\ Len(Append(list, f)) = Len(list) + 1
        /\ \A j \in 1..Len(list) : Append(list, f)[j] = list[j]
        /\ Append(list, f)[Len(list) + 1] = f
    BY <1>1, AppendProperties
  <2> DEFINE r == Append(list, f)
             i == Len(list) + 1
  <2>4. i \in 1..(Len(list) + 1)
    BY <1>1
  <2>5. \A j \in 1..(Len(list) + 1) : r[j] =
              IF j < i THEN list[j] ELSE IF j = i THEN f ELSE list[j - 1]
    BY <1>1, <2>3
  <2>6. \A j \in 1..Len(list) : i <= j => End(f) < list[j].addr
    BY <1>1
  <2>7. r \in Seq(FreeNode) /\ Len(r) = Len(list) + 1
    BY <2>3
  <2> HIDE DEF i, r
  <2>8. Good(r) /\ \A a : a \in Area(r) <=> a \in Span(f) \/ a \in Area(list)
    BY <2>2, <2>4, <2>5, <2>6, <2>7, InsertNode
  <2> QED BY <2>1, <2>8 DEF r
<1>5. CASE Stops(list, f.addr) # {}
  <2> DEFINE i == StopAt(list, f.addr)
  <2>1. /\ i \in 1..Len(list) /\ End(list[i]) >= f.addr
        /\ \A j \in 1..Len(list) : j < i => End(list[j]) < f.addr
    BY <1>2, <1>5, StopFacts
  <2>2. ~Refused(list, f.addr)
    <3> HIDE DEF i
    <3>1. /\ list[i].addr \in Nat /\ End(list[i]) \in Nat
          /\ (End(f) <= list[i].addr \/ End(list[i]) <= f.addr)
      BY <1>3, <2>1
    <3>2. ~(list[i].addr <= f.addr /\ f.addr < End(list[i]))
      BY <1>2, <3>1
    <3> QED BY <3>2 DEF Refused, i
  <2>3. Released(list, f) = IF End(list[i]) = f.addr THEN Behind(list, i, f) ELSE InFront(list, i, f)
    BY <1>5, <2>2 DEF Released
  <2> HIDE DEF i
  <2>4. CASE End(list[i]) = f.addr
    <3>1. \A j \in 1..Len(list) : i < j => End(f) <= list[j].addr
      <4> SUFFICES ASSUME NEW j \in 1..Len(list), i < j
                   PROVE  End(f) <= list[j].addr
        OBVIOUS
      <4>1. End(list[i]) < list[j].addr
        BY <2>1 DEF Good
      <4>2. /\ list[j].addr \in Nat /\ list[j].size \in Nat
            /\ End(list[j]) = list[j].addr + list[j].size
            /\ (End(f) <= list[j].addr \/ End(list[j]) <= f.addr)
        BY <1>3
      <4> QED BY <4>1, <4>2, <2>4, <1>2
    <3> QED BY <2>1, <2>3, <2>4, <3>1, ReleaseBehind
  <2>5. CASE End(list[i]) # f.addr
    <3>1. End(f) <= list[i].addr
      BY <1>2, <1>3, <2>1, <2>5
    <3> QED BY <2>1, <2>3, <2>5, <3>1, ReleaseInFront
  <2> QED BY <2>4, <2>5
<1> QED BY <1>4, <1>5

(* Allocation: the best fit is a node of the list with at least the size    *)
(* needed; what is taken of it and the rest cover what the list covered.    *)
LEMMA FitFacts ==
    ASSUME NEW list, Good(list), NEW need \in Nat, Fitting(list, need) # {}
    PROVE  /\ BestFit(list, need) \in 1..Len(list)
           /\ list[BestFit(list, need)].size >= need
<1>1. list \in Seq(FreeNode) /\ Len(list) \in Nat /\ DOMAIN list = 1..Len(list)
  BY LenProperties DEF Good
<1>2. \A i \in 1..Len(list) : list[i].size \in Nat
  BY <1>1, ElementOfSeq, SpanFacts
<1>3. PICK k \in Fitting(list, need) : TRUE
  OBVIOUS
<1> DEFINE S == {n \in 1..(list[k].size + 1) : \E i \in Fitting(list, need) : list[i].size + 1 = n}
<1>4. k \in 1..Len(list) /\ list[k].size \in Nat /\ list[k].size + 1 \in Nat
  BY <1>1, <1>2, <1>3 DEF Fitting
<1>5. list[k].size + 1 \in S
  BY <1>3, <1>4
<1>6. PICK n \in S : \A m \in S : n <= m
  <2>1. S \in SUBSET (1..(list[k].size + 1)) /\ S # {}
    BY <1>5
  <2> HIDE DEF S
  <2> QED BY <1>4, <2>1, FirstPosition
<1>7. PICK p \in Fitting(list, need) : list[p].size + 1 = n
  OBVIOUS
<1>8. ASSUME NEW j \in Fitting(list, need)
      PROVE  list[p].size <= list[j].size
  <2>1. j \in 1..Len(list) /\ list[j].size \in Nat /\ p \in 1..Len(list) /\ list[p].size \in Nat
    BY <1>1, <1>2 DEF Fitting
  <2>2. CASE list[j].size <= list[k].size
    <3>1. list[j].size + 1 \in S
      BY <1>4, <2>1, <2>2, SMTT(45)
    <3>2. n <= list[j].size + 1
      BY <3>1, <1>6
    <3> QED BY <3>2, <1>7, <2>1
  <2>3. CASE list[j].size > list[k].size
    <3>1. list[p].size + 1 <= list[k].size + 1
      BY <1>5, <1>6, <1>7
    <3>2. /\ list[p].size \in Nat /\ list[k].size \in Nat /\ list[j].size \in Nat
          /\ list[j].size > list[k].size
      BY <1>4, <2>1, <2>3
    <3> QED BY ONLY <3>1, <3>2
  <2> QED BY <1>4, <2>1, <2>2, <2>3
<1> DEFINE P == {i \in Fitting(list, need) : list[i].size = list[p].size}
<1>9. PICK i \in P : \A j \in P : i <= j
  <2>1. P \in SUBSET (1..Len(list)) /\ P # {}
    BY <1>1, <1>7 DEF Fitting
  <2> HIDE DEF P
  <2> QED BY <1>1, <2>1, FirstPosition
<1>10. \A j \in Fitting(list, need) :
            list[i].size < list[j].size \/ (list[i].size = list[j].size /\ i <= j)
  <2> TAKE j \in Fitting(list, need)
  <2>1. /\ list[j].size \in Nat /\ list[p].size \in Nat /\ list[i].size = list[p].size
        /\ list[p].size <= list[j].size
    BY <1>1, <1>2, <1>8, <1>9 DEF Fitting
  <2>2. CASE list[j].size = list[p].size
    BY <1>9, <2>1, <2>2
  <2> QED BY <2>1, <2>2
<1>11. BestFit(list, need) \in Fitting(list, need)
  <2>1. i \in Fitting(list, need)
    BY <1>9
  <2> QED BY <1>10, <2>1 DEF BestFit
<1> QED BY <1>1, <1>11 DEF Fitting

LEMMA RestNode ==
    ASSUME NEW list, Good(list), NEW i \in 1..Len(list), NEW need \in Nat,
           list[i].size >= need
    PROVE  /\ Good(Rest(list, i, need))
           /\ TakenNode(list, i, need) \in FreeNode
           /\ TakenNode(list, i, need).addr = list[i].addr
           /\ TakenNode(list, i, need).size >= need
           /\ need >= Node => TakenNode(list, i, need).size >= Node
           /\ \A a : a \in Area(list) <=>
                 a \in Area(Rest(list, i, need)) \/ a \in Span(TakenNode(list, i, need))
           /\ \A a : ~(a \in Area(Rest(list, i, need)) /\ a \in Span(TakenNode(list, i, need)))
<1>1. /\ list \in Seq(FreeNode) /\ Len(list) \in Nat
      /\ \A j \in 1..Len(list) :
            /\ list[j] \in FreeNode /\ list[j].addr \in Nat /\ list[j].size \in Nat
            /\ End(list[j]) \in Nat /\ End(list[j]) = list[j].addr + list[j].size
            /\ list[j].size >= Node
  BY LenProperties, ElementOfSeq, SpanFacts DEF Good
<1>2. Node \in Nat /\ Node > 0
  BY HeaderAssumption
<1>3. \A j \in 1..Len(list) : j # i => \A a : ~(a \in Span(list[j]) /\ a \in Span(list[i]))
  <2> SUFFICES ASSUME NEW j \in 1..Len(list), j # i, NEW a,
                      a \in Span(list[j]), a \in Span(list[i])
               PROVE  FALSE
    OBVIOUS
  <2>1. /\ a \in Nat /\ list[j].addr <= a /\ a < End(list[j])
        /\ list[i].addr <= a /\ a < End(list[i])
    BY <1>1, SpanFacts
  <2>2. CASE i < j
    <3>1. End(list[i]) < list[j].addr
      BY <2>2 DEF Good
    <3> QED BY <3>1, <2>1, <1>1
  <2>3. CASE j < i
    <3>1. End(list[j]) < list[i].addr
      BY <2>3 DEF Good
    <3> QED BY <3>1, <2>1, <1>1
  <2> QED BY <2>2, <2>3, <1>1
<1>4. \A a : a \in Area(list) <=>
              \/ a \in Span(list[i])
              \/ \E j \in 1..Len(list) : j # i /\ a \in Span(list[j])
  BY AreaParts
<1> DEFINE t == TakenNode(list, i, need)
<1>5. CASE Splits(list[i], need)
  <2> DEFINE g == [addr |-> list[i].addr + need, size |-> list[i].size - need]
  <2>1. list[i].size - need >= Node
    BY <1>5 DEF Splits
  <2>2. /\ t = [addr |-> list[i].addr, size |-> need]
        /\ Rest(list, i, need) = [list EXCEPT ![i] = g]
    BY <1>5 DEF TakenNode, Rest
  <2>3. g.addr = list[i].addr + need /\ g.size = list[i].size - need
    OBVIOUS
  <2>4. /\ g.addr \in Nat /\ g.size \in Nat /\ g \in FreeNode /\ g.size >= Node
        /\ End(g) = End(list[i])
    BY <1>1, <1>2, <2>1, SMTT(45) DEF FreeNode, End
  <2>5. /\ t \in FreeNode /\ t.addr = list[i].addr /\ t.size = need /\ End(t) = g.addr
    BY <1>1, <2>2 DEF FreeNode, End
  <2> HIDE DEF g, t
  <2>6. \A j \in 1..Len(list) : j < i => End(list[j]) < g.addr
    <3> SUFFICES ASSUME NEW j \in 1..Len(list), j < i
                 PROVE  End(list[j]) < g.addr
      OBVIOUS
    <3>1. End(list[j]) < list[i].addr
      BY DEF Good
    <3> QED BY <3>1, <1>1, <2>3
  <2>7. \A j \in 1..Len(list) : i < j => End(g) < list[j].addr
    BY <2>4 DEF Good
  <2>8. /\ Good([list EXCEPT ![i] = g])
        /\ \A a : a \in Area([list EXCEPT ![i] = g]) <=>
                 \/ a \in Span(g)
                 \/ \E j \in 1..Len(list) : j # i /\ a \in Span(list[j])
    BY <2>4, <2>6, <2>7, ReplaceNode
  <2>9. \A a : a \in Span(list[i]) <=> a \in Span(t) \/ a \in Span(g)
    BY <1>1, <2>3, <2>4, <2>5, SpanFacts, SMTT(45)
  <2>10. \A a : ~(a \in Span(t) /\ a \in Span(g))
    BY <2>4, <2>5, SpanFacts
  <2>11. t.size >= need /\ (need >= Node => t.size >= Node)
    BY <2>5
  <2>12. \A a : a \in Area(list) <=> a \in Area(Rest(list, i, need)) \/ a \in Span(t)
    BY <1>4, <2>2, <2>8, <2>9
  <2>13. \A a : ~(a \in Area(Rest(list, i, need)) /\ a \in Span(t))
    BY <1>3, <2>2, <2>8, <2>9, <2>10
  <2> QED BY <2>2, <2>5, <2>8, <2>11, <2>12, <2>13 DEF t
<1>6. CASE ~Splits(list[i], need)
  <2>1. t = [addr |-> list[i].addr, size |-> list[i].size] /\ Rest(list, i, need) = Without(list, i)
    BY <1>6 DEF TakenNode, Rest
  <2>2. t = list[i]
    BY <1>1, <2>1 DEF FreeNode
  <2> HIDE DEF t
  <2>3. /\ Good(Without(list, i))
        /\ \A a : a \in Area(Without(list, i)) <=>
                 \E j \in 1..Len(list) : j # i /\ a \in Span(list[j])
    BY RemoveNode
  <2>4. \A a : a \in Area(list) <=> a \in Area(Rest(list, i, need)) \/ a \in Span(t)
    BY <1>4, <2>1, <2>2, <2>3
  <2>5. \A a : ~(a \in Area(Rest(list, i, need)) /\ a \in Span(t))
    BY <1>3, <2>1, <2>2, <2>3
  <2> QED BY <1>1, <2>1, <2>2, <2>3, <2>4, <2>5 DEF t
<1> QED BY <1>5, <1>6

UsedNode == [addr : Nat, size : Nat, asked : Sizes]

Sound(list, us) ==
    /\ Good(list)
    /\ us \subseteq UsedNode
    /\ \A b \in us : b.size >= Node /\ b.size >= b.asked + Overhead
    /\ \A b, c \in us : b # c => \A a : ~(a \in Span(b) /\ a \in Span(c))
    /\ \A b \in us : \A a : ~(a \in Span(b) /\ a \in Area(list))

Covered(list, us, a) == a \in Area(list) \/ \E b \in us : a \in Span(b)

HeapInv ==
    /\ Sound(freeList, used)
    /\ regions \subseteq Region
    /\ \A a : Covered(freeList, used, a) <=> a \in Memory

AsNode(b) == [addr |-> b.addr, size |-> b.size]

LEMMA UsedFacts ==
    ASSUME NEW b \in UsedNode
    PROVE  /\ b.addr \in Nat /\ b.size \in Nat /\ b.asked \in Sizes /\ b.asked \in Nat
           /\ AsNode(b) \in FreeNode /\ Span(AsNode(b)) = Span(b) /\ End(AsNode(b)) = End(b)
           /\ AsNode(b).addr = b.addr /\ AsNode(b).size = b.size
           /\ End(b) = b.addr + b.size
           /\ \A a : a \in Span(b) <=> a \in Nat /\ b.addr <= a /\ a < End(b)
<1>1. b.addr \in Nat /\ b.size \in Nat /\ b.asked \in Sizes /\ b.asked \in Nat
  BY SizesAssumption DEF UsedNode
<1>2. AsNode(b) \in FreeNode /\ AsNode(b).addr = b.addr /\ AsNode(b).size = b.size
  BY <1>1 DEF AsNode, FreeNode
<1>3. End(AsNode(b)) = End(b) /\ Span(AsNode(b)) = Span(b)
  BY <1>2 DEF Span, End
<1> QED BY <1>1, <1>2, <1>3, SpanFacts

LEMMA NeedFacts ==
    ASSUME NEW size \in Sizes
    PROVE  Need(size) \in Nat /\ Need(size) >= Node /\ Need(size) >= size + Overhead
BY HeaderAssumption, SizesAssumption DEF Need

LEMMA NeedMore ==
    ASSUME NEW n \in Nat
    PROVE  Need(n) \in Nat /\ Need(n) >= Node /\ Need(n) >= n
BY HeaderAssumption DEF Need

(* A used node is given up and another one given out: what the list and the *)
(* new node have together is what the list and the old one had.             *)
LEMMA SwapNode ==
    ASSUME NEW list, NEW us, Sound(list, us), NEW b \in us,
           NEW list2, Good(list2),
           NEW x \in UsedNode, x.size >= Node, x.size >= x.asked + Overhead,
           \A a : (a \in Area(list2) \/ a \in Span(x)) <=> (a \in Area(list) \/ a \in Span(b)),
           \A a : ~(a \in Area(list2) /\ a \in Span(x))
    PROVE  /\ Sound(list2, (us \ {b}) \cup {x})
           /\ \A a : Covered(list2, (us \ {b}) \cup {x}, a) <=> Covered(list, us, a)
<1> DEFINE vs == (us \ {b}) \cup {x}
<1>1. vs \subseteq UsedNode /\ \A c \in vs : c.size >= Node /\ c.size >= c.asked + Overhead
  BY DEF Sound
<1>2. ASSUME NEW c \in us, c # b, NEW a, a \in Span(c)
      PROVE  a \notin Span(x) /\ a \notin Area(list2)
  BY <1>2 DEF Sound
<1>3. \A c, d \in vs : c # d => \A a : ~(a \in Span(c) /\ a \in Span(d))
  <2> SUFFICES ASSUME NEW c \in vs, NEW d \in vs, c # d, NEW a, a \in Span(c), a \in Span(d)
               PROVE  FALSE
    OBVIOUS
  <2>1. CASE c = x
    <3>1. d \in us /\ d # b
      BY <2>1
    <3> QED BY <3>1, <2>1, <1>2
  <2>2. CASE d = x
    <3>1. c \in us /\ c # b
      BY <2>2
    <3> QED BY <3>1, <2>2, <1>2
  <2>3. CASE c # x /\ d # x
    BY <2>3 DEF Sound
  <2> QED BY <2>1, <2>2, <2>3
<1>4. \A c \in vs : \A a : ~(a \in Span(c) /\ a \in Area(list2))
  BY <1>2
<1>5. ASSUME NEW a
      PROVE  Covered(list2, vs, a) <=> Covered(list, us, a)
  BY DEF Covered
<1>6. Sound(list2, vs)
  BY <1>1, <1>3, <1>4 DEF Sound
<1> QED BY <1>5, <1>6

(* A node is given out, or given back.                                      *)
LEMMA GiveOut ==
    ASSUME NEW list, NEW us, Sound(list, us),
           NEW list2, Good(list2),
           NEW x \in UsedNode, x.size >= Node, x.size >= x.asked + Overhead,
           \A a : (a \in Area(list2) \/ a \in Span(x)) <=> a \in Area(list),
           \A a : ~(a \in Area(list2) /\ a \in Span(x))
    PROVE  /\ Sound(list2, us \cup {x})
           /\ \A a : Covered(list2, us \cup {x}, a) <=> Covered(list, us, a)
<1> DEFINE vs == us \cup {x}
<1>1. vs \subseteq UsedNode /\ \A c \in vs : c.size >= Node /\ c.size >= c.asked + Overhead
  BY DEF Sound
<1>2. ASSUME NEW c \in us, NEW a, a \in Span(c)
      PROVE  a \notin Span(x) /\ a \notin Area(list2)
  BY <1>2 DEF Sound
<1>3. \A c, d \in vs : c # d => \A a : ~(a \in Span(c) /\ a \in Span(d))
  BY <1>2 DEF Sound
<1>4. \A c \in vs : \A a : ~(a \in Span(c) /\ a \in Area(list2))
  BY <1>2
<1>5. ASSUME NEW a
      PROVE  Covered(list2, vs, a) <=> Covered(list, us, a)
  BY DEF Covered
<1>6. Sound(list2, vs)
  BY <1>1, <1>3, <1>4 DEF Sound
<1> QED BY <1>5, <1>6

LEMMA GiveBack ==
    ASSUME NEW list, NEW us, Sound(list, us), NEW b \in us
    PROVE  /\ Sound(Released(list, AsNode(b)), us \ {b})
           /\ \A a : Covered(Released(list, AsNode(b)), us \ {b}, a) <=> Covered(list, us, a)
<1> DEFINE f == AsNode(b)
           list2 == Released(list, f)
           vs == us \ {b}
<1>1. b \in UsedNode /\ b.size >= Node /\ Good(list)
  BY DEF Sound
<1>2. f \in FreeNode /\ Span(f) = Span(b) /\ f.size >= Node
  BY <1>1, UsedFacts
<1>3. \A a : ~(a \in Span(f) /\ a \in Area(list))
  BY <1>2 DEF Sound
<1> HIDE DEF f
<1>4. Good(list2) /\ \A a : a \in Area(list2) <=> a \in Span(f) \/ a \in Area(list)
  BY <1>1, <1>2, <1>3, ReleaseNode
<1> HIDE DEF list2
<1>5. ASSUME NEW a
      PROVE  Covered(list2, vs, a) <=> Covered(list, us, a)
  BY <1>2, <1>4 DEF Covered
<1>6. Sound(list2, vs)
  BY <1>2, <1>4 DEF Sound
<1> QED BY <1>5, <1>6 DEF list2, f

LEMMA HeapInvInit == HeapInit => HeapInv
<1> SUFFICES ASSUME HeapInit PROVE HeapInv
  OBVIOUS
<1>1. freeList = <<>> /\ used = {} /\ regions = {} /\ Len(<<>>) = 0 /\ <<>> \in Seq(FreeNode)
  BY DEF HeapInit
<1>2. Good(<<>>) /\ Area(<<>>) = {}
  BY <1>1 DEF Good, Area
<1> QED BY <1>1, <1>2 DEF HeapInv, Sound, Covered, Memory

(* One lemma for each operation on the heap.                                *)
LEMMA AddKeeps ==
    ASSUME HeapInv, NEW r \in Region, NutHeapAdd(r)
    PROVE  HeapInv'
<1> DEFINE list2 == Released(freeList, r)
<1>1. /\ Sound(freeList, used) /\ Good(freeList) /\ regions \subseteq Region /\ r \notin regions
      /\ freeList' = list2 /\ used' = used /\ regions' = regions \cup {r}
  BY DEF HeapInv, Sound, NutHeapAdd
<1>2. Region \subseteq FreeNode /\ \A s \in Region : s.size >= Node
  BY RegionAssumption DEF FreeNode
<1>3. \A s \in regions : \A a : ~(a \in Span(r) /\ a \in Span(s))
  <2> SUFFICES ASSUME NEW s \in regions, NEW a, a \in Span(r), a \in Span(s)
               PROVE  FALSE
    OBVIOUS
  <2>1. s \in Region /\ s # r
    BY <1>1
  <2>2. End(r) <= s.addr \/ End(s) <= r.addr
    BY <2>1, RegionAssumption
  <2>3. r \in FreeNode /\ s \in FreeNode
    BY <1>2, <2>1
  <2>4. /\ a \in Nat /\ r.addr <= a /\ a < End(r) /\ s.addr <= a /\ a < End(s)
        /\ r.addr \in Nat /\ s.addr \in Nat /\ End(r) \in Nat /\ End(s) \in Nat
    BY <2>3, SpanFacts
  <2> QED BY <2>2, <2>4
<1>4. \A a \in Span(r) : ~Covered(freeList, used, a)
  BY <1>3 DEF HeapInv, Memory
<1>5. Good(list2) /\ \A a : a \in Area(list2) <=> a \in Span(r) \/ a \in Area(freeList)
  <2>1. \A a : ~(a \in Span(r) /\ a \in Area(freeList))
    BY <1>4 DEF Covered
  <2> QED BY <1>1, <1>2, <2>1, ReleaseNode
<1> HIDE DEF list2
<1>6. Sound(list2, used)
  BY <1>1, <1>4, <1>5 DEF Sound, Covered
<1>7. \A a : a \in Memory' <=> a \in Memory \/ a \in Span(r)
  BY <1>1 DEF Memory
<1>8. \A a : Covered(list2, used, a) <=> Covered(freeList, used, a) \/ a \in Span(r)
  BY <1>5 DEF Covered
<1>9. \A a : Covered(list2, used, a) <=> a \in Memory'
  BY <1>7, <1>8 DEF HeapInv
<1>10. regions' \subseteq Region
  BY <1>1
<1>11. Sound(freeList', used')
  BY <1>1, <1>6
<1>12. \A a : Covered(freeList', used', a) <=> a \in Memory'
  BY <1>1, <1>9
<1> QED BY <1>10, <1>11, <1>12 DEF HeapInv

LEMMA MovedInv ==
    ASSUME HeapInv, UNCHANGED regions, NEW list2, NEW vs,
           freeList' = list2, used' = vs, Sound(list2, vs),
           \A a : Covered(list2, vs, a) <=> Covered(freeList, used, a)
    PROVE  HeapInv'
<1>1. Memory' = Memory
  BY DEF Memory
<1>2. Sound(freeList', used')
  OBVIOUS
<1>3. \A a : Covered(freeList', used', a) <=> a \in Memory'
  BY <1>1 DEF HeapInv
<1>4. regions' \subseteq Region
  BY DEF HeapInv
<1> QED BY <1>2, <1>3, <1>4 DEF HeapInv

LEMMA AllocKeeps ==
    ASSUME HeapInv, NEW size \in Sizes, NutHeapAlloc(size)
    PROVE  HeapInv'
<1> DEFINE need == Need(size)
           i == BestFit(freeList, need)
           t == TakenNode(freeList, i, need)
           x == Asked(t, size)
           list2 == Rest(freeList, i, need)
<1>1. /\ Fitting(freeList, need) # {}
      /\ freeList' = list2 /\ used' = used \cup {x} /\ UNCHANGED regions
  BY DEF NutHeapAlloc
<1>2. Sound(freeList, used) /\ Good(freeList)
  BY DEF HeapInv, Sound
<1>3. need \in Nat /\ need >= Node /\ need >= size + Overhead
  BY NeedFacts
<1> HIDE DEF need
<1>4. i \in 1..Len(freeList) /\ freeList[i].size >= need
  BY <1>1, <1>2, <1>3, FitFacts
<1> HIDE DEF i
<1>5. /\ Good(list2) /\ t \in FreeNode /\ t.size >= need /\ t.size >= Node
      /\ \A a : a \in Area(freeList) <=> a \in Area(list2) \/ a \in Span(t)
      /\ \A a : ~(a \in Area(list2) /\ a \in Span(t))
  BY <1>2, <1>3, <1>4, RestNode
<1> HIDE DEF list2, t
<1>6. /\ x \in UsedNode /\ x.size = t.size /\ x.asked = size /\ Span(x) = Span(t)
  BY <1>5 DEF Asked, UsedNode, FreeNode, Span, End
<1>7. x.size >= Node /\ x.size >= x.asked + Overhead
  <2>1. t.size \in Nat /\ size \in Nat /\ Overhead \in Nat
    BY <1>5, HeaderAssumption, SizesAssumption DEF FreeNode
  <2> QED BY <2>1, <1>3, <1>5, <1>6
<1> HIDE DEF x
<1>8. /\ Sound(list2, used \cup {x})
      /\ \A a : Covered(list2, used \cup {x}, a) <=> Covered(freeList, used, a)
  BY <1>2, <1>5, <1>6, <1>7, GiveOut
<1> QED BY <1>1, <1>8, MovedInv

LEMMA FreeKeeps ==
    ASSUME HeapInv, NEW b \in used, NutHeapFree(b)
    PROVE  HeapInv'
<1>1. /\ freeList' = Released(freeList, AsNode(b)) /\ used' = used \ {b} /\ UNCHANGED regions
  BY DEF NutHeapFree, AsNode
<1>2. Sound(freeList, used)
  BY DEF HeapInv
<1>3. /\ Sound(Released(freeList, AsNode(b)), used \ {b})
      /\ \A a : Covered(Released(freeList, AsNode(b)), used \ {b}, a) <=> Covered(freeList, used, a)
  BY <1>2, GiveBack
<1> QED BY <1>1, <1>3, MovedInv

(* All nodes lie within the regions, so that sizes do not wrap around.      *)
LEMMA WithinMemory ==
    ASSUME HeapInv, NEW b \in FreeNodes \cup used
    PROVE  End(b) < HeapWord /\ b.addr \in Nat /\ b.size \in Nat /\ b.size >= Node
           /\ End(b) = b.addr + b.size
           /\ \A a \in Span(b) : a \in Memory
<1>0. Sound(freeList, used) /\ Good(freeList) /\ DOMAIN freeList = 1..Len(freeList)
  BY LenProperties DEF HeapInv, Sound, Good
<1>1. /\ b.addr \in Nat /\ b.size \in Nat /\ End(b) = b.addr + b.size /\ b.size >= Node
      /\ \A a : a \in Span(b) => Covered(freeList, used, a)
      /\ \A a : a \in Span(b) <=> a \in Nat /\ b.addr <= a /\ a < End(b)
  <2>1. CASE b \in FreeNodes
    <3>1. PICK i \in 1..Len(freeList) : b = freeList[i]
      BY <1>0, <2>1 DEF FreeNodes
    <3>2. b \in FreeNode /\ b.size >= Node
      BY <1>0, <3>1, ElementOfSeq DEF Good
    <3> QED BY <3>1, <3>2, SpanFacts DEF Covered, Area
  <2>2. CASE b \in used
    <3>1. b \in UsedNode /\ b.size >= Node
      BY <1>0, <2>2 DEF Sound
    <3> QED BY <2>2, <3>1, UsedFacts DEF Covered
  <2> QED BY <2>1, <2>2
<1>2. Node \in Nat /\ Node > 0
  BY HeaderAssumption
<1> DEFINE a == b.addr + b.size - 1
<1>3. a \in Span(b)
  BY <1>1, <1>2
<1>4. a \in Memory
  BY <1>1, <1>3 DEF HeapInv
<1>5. PICK r \in Region : a \in Span(r)
  BY <1>4 DEF Memory, HeapInv
<1>6. r \in FreeNode /\ End(r) < HeapWord
  BY RegionAssumption DEF FreeNode
<1>7. a < HeapWord - 1
  BY <1>5, <1>6, SpanFacts, HeaderAssumption
<1>8. End(b) < HeapWord
  BY <1>1, <1>7, HeaderAssumption
<1> QED BY <1>1, <1>8 DEF HeapInv

LEMMA ExpandKeeps ==
    ASSUME HeapInv, NEW b \in used, NEW size \in Sizes, UNCHANGED regions,
           Need(size) > b.size, Expand(b, Need(size), size)
    PROVE  HeapInv'
<1> DEFINE need == Need(size)
           missing == need - b.size
<1>1. PICK i \in Extension(b, missing) :
        /\ freeList' = Rest(freeList, i, missing)
        /\ used' = (used \ {b}) \cup
             {[addr |-> b.addr, asked |-> size,
               size |-> b.size + TakenNode(freeList, i, missing).size]}
  BY DEF Expand
<1>2. Sound(freeList, used) /\ Good(freeList) /\ DOMAIN freeList = 1..Len(freeList)
  BY LenProperties DEF HeapInv, Sound, Good
<1>3. need \in Nat /\ need >= Node /\ need >= size + Overhead /\ need > b.size
  BY NeedFacts
<1>4. b \in UsedNode /\ b.size >= Node
  BY <1>2 DEF Sound
<1>5. /\ b.addr \in Nat /\ b.size \in Nat /\ End(b) = b.addr + b.size
      /\ \A a : a \in Span(b) <=> a \in Nat /\ b.addr <= a /\ a < End(b)
  BY <1>4, UsedFacts
<1> HIDE DEF need
<1>6. missing \in Nat /\ b.size + missing = need
  BY <1>3, <1>5
<1> HIDE DEF missing
<1>7. i \in 1..Len(freeList) /\ freeList[i].addr = End(b) /\ freeList[i].size >= missing
  BY <1>2 DEF Extension
<1> DEFINE t == TakenNode(freeList, i, missing)
           list2 == Rest(freeList, i, missing)
           x == [addr |-> b.addr, asked |-> size, size |-> b.size + t.size]
<1>8. /\ Good(list2) /\ t \in FreeNode /\ t.size >= missing /\ t.addr = End(b)
      /\ \A a : a \in Area(freeList) <=> a \in Area(list2) \/ a \in Span(t)
      /\ \A a : ~(a \in Area(list2) /\ a \in Span(t))
  BY <1>2, <1>6, <1>7, RestNode
<1>9. freeList' = list2 /\ used' = (used \ {b}) \cup {x}
  BY <1>1
<1> HIDE DEF list2, t
<1>10. /\ t.size \in Nat /\ End(t) = End(b) + t.size
       /\ \A a : a \in Span(t) <=> a \in Nat /\ End(b) <= a /\ a < End(t)
  BY <1>8, SpanFacts
<1>11. x.addr = b.addr /\ x.asked = size /\ x.size = b.size + t.size
  OBVIOUS
<1>12. x \in UsedNode
  <2>1. b.size + t.size \in Nat
    BY <1>5, <1>10
  <2> QED BY <1>5, <2>1 DEF UsedNode
<1> HIDE DEF x
<1>13. /\ End(x) = End(t)
       /\ \A a : a \in Span(x) <=> a \in Nat /\ b.addr <= a /\ a < End(t)
  <2>1. End(x) = End(t)
    BY <1>5, <1>10, <1>11 DEF End
  <2> QED BY <1>11, <1>12, <2>1, UsedFacts
<1>14. \A a : a \in Span(x) <=> a \in Span(b) \/ a \in Span(t)
  BY <1>5, <1>10, <1>13
<1>15. x.size >= Node /\ x.size >= x.asked + Overhead
  <2>1. size \in Nat /\ Overhead \in Nat /\ Node \in Nat
    BY HeaderAssumption, SizesAssumption
  <2> QED BY <2>1, <1>3, <1>4, <1>5, <1>6, <1>8, <1>10, <1>11
<1>16. \A a : (a \in Area(list2) \/ a \in Span(x)) <=> (a \in Area(freeList) \/ a \in Span(b))
  BY <1>8, <1>14
<1>17. \A a : ~(a \in Area(list2) /\ a \in Span(x))
  BY <1>2, <1>8, <1>14 DEF Sound
<1>18. /\ Sound(list2, (used \ {b}) \cup {x})
       /\ \A a : Covered(list2, (used \ {b}) \cup {x}, a) <=> Covered(freeList, used, a)
  BY <1>2, <1>8, <1>12, <1>15, <1>16, <1>17, SwapNode
<1> QED BY <1>9, <1>18, MovedInv

LEMMA RelocateKeeps ==
    ASSUME HeapInv, NEW b \in used, NEW size \in Sizes, UNCHANGED regions,
           Relocate(b, Need(size), size)
    PROVE  HeapInv'
<1> DEFINE need == Need(Need(size))
           i == BestFit(freeList, need)
           t == TakenNode(freeList, i, need)
           x == Asked(t, size)
           list1 == Rest(freeList, i, need)
           list2 == Released(list1, AsNode(b))
<1>1. /\ Fitting(freeList, need) # {}
      /\ freeList' = list2 /\ used' = (used \ {b}) \cup {x}
  BY DEF Relocate, AsNode
<1>2. Sound(freeList, used) /\ Good(freeList) /\ b \in UsedNode /\ b.size >= Node
  BY DEF HeapInv, Sound
<1>3. need \in Nat /\ need >= Node /\ need >= size + Overhead
  <2>1. Need(size) \in Nat /\ Need(size) >= size + Overhead
    BY NeedFacts
  <2>2. need \in Nat /\ need >= Node /\ need >= Need(size)
    BY <2>1, NeedMore
  <2> QED BY <2>1, <2>2, HeaderAssumption, SizesAssumption
<1> HIDE DEF need
<1>4. i \in 1..Len(freeList) /\ freeList[i].size >= need
  BY <1>1, <1>2, <1>3, FitFacts
<1> HIDE DEF i
<1>5. /\ Good(list1) /\ t \in FreeNode /\ t.size >= need /\ t.size >= Node
      /\ \A a : a \in Area(freeList) <=> a \in Area(list1) \/ a \in Span(t)
      /\ \A a : ~(a \in Area(list1) /\ a \in Span(t))
  BY <1>2, <1>3, <1>4, RestNode
<1> HIDE DEF list1, t
<1>6. x \in UsedNode /\ x.size = t.size /\ x.asked = size /\ Span(x) = Span(t)
  BY <1>5 DEF Asked, UsedNode, FreeNode, Span, End
<1>7. x.size >= Node /\ x.size >= x.asked + Overhead
  <2>1. t.size \in Nat /\ size \in Nat /\ Overhead \in Nat
    BY <1>5, HeaderAssumption, SizesAssumption DEF FreeNode
  <2> QED BY <2>1, <1>3, <1>5, <1>6
<1> HIDE DEF x
<1>8. AsNode(b) \in FreeNode /\ Span(AsNode(b)) = Span(b) /\ AsNode(b).size >= Node
  BY <1>2, UsedFacts
<1>9. \A a : ~(a \in Span(b) /\ a \in Area(freeList))
  BY <1>2 DEF Sound
<1>10. Good(list2) /\ \A a : a \in Area(list2) <=> a \in Span(b) \/ a \in Area(list1)
  <2>1. \A a : ~(a \in Span(AsNode(b)) /\ a \in Area(list1))
    BY <1>5, <1>8, <1>9
  <2> QED BY <1>5, <1>8, <2>1, ReleaseNode
<1> HIDE DEF list2
<1>11. \A a : (a \in Area(list2) \/ a \in Span(x)) <=> (a \in Area(freeList) \/ a \in Span(b))
  BY <1>5, <1>6, <1>10
<1>12. \A a : ~(a \in Area(list2) /\ a \in Span(x))
  BY <1>5, <1>6, <1>9, <1>10
<1>13. /\ Sound(list2, (used \ {b}) \cup {x})
       /\ \A a : Covered(list2, (used \ {b}) \cup {x}, a) <=> Covered(freeList, used, a)
  BY <1>2, <1>10, <1>6, <1>7, <1>11, <1>12, SwapNode
<1> QED BY <1>1, <1>13, MovedInv

LEMMA ModSmall ==
    ASSUME NEW a \in Nat, NEW m \in Nat, a < m
    PROVE  a % m = a
OBVIOUS

LEMMA ReduceKeeps ==
    ASSUME HeapInv, NEW b \in used, NEW size \in Sizes, UNCHANGED regions,
           Need(size) <= b.size, Reduce(b, Need(size), size)
    PROVE  HeapInv'
<1> DEFINE need == Need(size)
           spare == b.size - Node
           f == [addr |-> b.addr + need, size |-> b.size - need]
           x == [addr |-> b.addr, size |-> need, asked |-> size]
           list2 == Released(freeList, f)
<1>1. /\ need < spare % HeapWord
      /\ freeList' = list2 /\ used' = (used \ {b}) \cup {x}
  BY DEF Reduce
<1>2. Sound(freeList, used) /\ Good(freeList) /\ b \in UsedNode /\ b.size >= Node
  BY DEF HeapInv, Sound
<1>3. need \in Nat /\ need >= Node /\ need >= size + Overhead
  BY NeedFacts
<1>4. /\ b.addr \in Nat /\ b.size \in Nat /\ End(b) = b.addr + b.size
      /\ \A a : a \in Span(b) <=> a \in Nat /\ b.addr <= a /\ a < End(b)
  BY <1>2, UsedFacts
<1>5. Node \in Nat /\ Node > 0 /\ Overhead \in Nat /\ HeapWord \in Nat /\ size \in Nat
  BY HeaderAssumption, SizesAssumption
<1> HIDE DEF need
<1>6. spare \in Nat /\ spare < HeapWord
  BY <1>2, <1>4, <1>5, WithinMemory
<1>7. spare % HeapWord = spare
  <2> HIDE DEF spare
  <2> QED BY <1>5, <1>6, ModSmall
<1>8. need < b.size - Node
  BY <1>1, <1>7
<1>9. /\ f.addr = b.addr + need /\ f.size = b.size - need /\ f \in FreeNode /\ f.size >= Node
      /\ End(f) = End(b)
  BY <1>3, <1>4, <1>5, <1>8 DEF FreeNode, End
<1>10. x \in UsedNode /\ x.addr = b.addr /\ x.size = need /\ x.asked = size /\ End(x) = f.addr
  BY <1>3, <1>4 DEF UsedNode, End
<1> HIDE DEF f, x
<1>11. \A a : a \in Span(f) <=> a \in Nat /\ f.addr <= a /\ a < End(b)
  BY <1>9, SpanFacts
<1>12. \A a : a \in Span(x) <=> a \in Nat /\ b.addr <= a /\ a < f.addr
  BY <1>10, UsedFacts
<1>13. \A a : a \in Span(b) <=> a \in Span(x) \/ a \in Span(f)
  BY <1>3, <1>4, <1>5, <1>8, <1>9, <1>11, <1>12
<1>14. \A a : ~(a \in Span(x) /\ a \in Span(f))
  BY <1>3, <1>4, <1>9, <1>11, <1>12
<1>15. \A a : ~(a \in Span(b) /\ a \in Area(freeList))
  BY <1>2 DEF Sound
<1>16. Good(list2) /\ \A a : a \in Area(list2) <=> a \in Span(f) \/ a \in Area(freeList)
  BY <1>2, <1>9, <1>13, <1>15, ReleaseNode
<1> HIDE DEF list2
<1>17. \A a : (a \in Area(list2) \/ a \in Span(x)) <=> (a \in Area(freeList) \/ a \in Span(b))
  BY <1>13, <1>16
<1>18. \A a : ~(a \in Area(list2) /\ a \in Span(x))
  BY <1>13, <1>14, <1>15, <1>16
<1>19. x.size >= Node /\ x.size >= x.asked + Overhead
  BY <1>3, <1>10
<1>20. /\ Sound(list2, (used \ {b}) \cup {x})
       /\ \A a : Covered(list2, (used \ {b}) \cup {x}, a) <=> Covered(freeList, used, a)
  BY <1>2, <1>10, <1>16, <1>17, <1>18, <1>19, SwapNode
<1> QED BY <1>1, <1>20, MovedInv

LEMMA KeepKeeps ==
    ASSUME HeapInv, NEW b \in used, NEW size \in Sizes, UNCHANGED regions,
           Need(size) <= b.size, Keep(b, Need(size), size)
    PROVE  HeapInv'
<1> DEFINE x == Asked(b, size)
<1>1. freeList' = freeList /\ used' = (used \ {b}) \cup {x}
  BY DEF Keep
<1>2. Sound(freeList, used) /\ Good(freeList) /\ b \in UsedNode /\ b.size >= Node
  BY DEF HeapInv, Sound
<1>3. x \in UsedNode /\ x.size = b.size /\ x.asked = size /\ Span(x) = Span(b)
  BY <1>2, UsedFacts DEF Asked, UsedNode, Span, End
<1>4. x.size >= Node /\ x.size >= x.asked + Overhead
  <2>1. b.size \in Nat /\ size \in Nat /\ Overhead \in Nat
    BY <1>2, UsedFacts, HeaderAssumption, SizesAssumption
  <2> QED BY <2>1, <1>2, <1>3, NeedFacts
<1> HIDE DEF x
<1>5. \A a : ~(a \in Area(freeList) /\ a \in Span(x))
  BY <1>2, <1>3 DEF Sound
<1>6. \A a : (a \in Area(freeList) \/ a \in Span(x)) <=> (a \in Area(freeList) \/ a \in Span(b))
  BY <1>3
<1>7. /\ Sound(freeList, (used \ {b}) \cup {x})
      /\ \A a : Covered(freeList, (used \ {b}) \cup {x}, a) <=> Covered(freeList, used, a)
  BY <1>2, <1>3, <1>4, <1>5, <1>6, SwapNode
<1>8. PICK list2 : list2 = freeList
  OBVIOUS
<1> QED BY <1>1, <1>7, <1>8, MovedInv

(* The free nodes are in order, merged and of at least the minimal size, the *)
(* allocated nodes have what was asked for, and no address belongs to two   *)
(* nodes or to none, whatever NutHeapAdd(), Alloc(), Free() and Realloc() do *)
(* (os/heap.c).                                                             *)
THEOREM HeapInvariant == HeapSpec => []HeapInv
<1>1. HeapInit => HeapInv
  BY HeapInvInit
<1>2. HeapInv /\ [HeapNext]_heapVars => HeapInv'
  <2> SUFFICES ASSUME HeapInv, [HeapNext]_heapVars PROVE HeapInv'
    OBVIOUS
  <2>1. ASSUME NEW r \in Region, NutHeapAdd(r) PROVE HeapInv'
    BY <2>1, AddKeeps
  <2>2. ASSUME NEW size \in Sizes, NutHeapAlloc(size) PROVE HeapInv'
    BY <2>2, AllocKeeps
  <2>3. ASSUME NEW b \in used, NutHeapFree(b) PROVE HeapInv'
    BY <2>3, FreeKeeps
  <2>4. ASSUME NEW b \in used, NEW size \in Sizes, NutHeapRealloc(b, size) PROVE HeapInv'
    <3>1. UNCHANGED regions
      BY <2>4 DEF NutHeapRealloc
    <3>2. CASE Need(size) > b.size /\ Expand(b, Need(size), size)
      BY <3>1, <3>2, ExpandKeeps
    <3>3. CASE Relocate(b, Need(size), size)
      BY <3>1, <3>3, RelocateKeeps
    <3>4. CASE Need(size) <= b.size /\ Reduce(b, Need(size), size)
      BY <3>1, <3>4, ReduceKeeps
    <3>5. CASE Need(size) <= b.size /\ Keep(b, Need(size), size)
      BY <3>1, <3>5, KeepKeeps
    <3> QED BY <2>4, <3>2, <3>3, <3>4, <3>5 DEF NutHeapRealloc
  <2>5. CASE UNCHANGED heapVars
    BY <2>5 DEF heapVars, HeapInv, Memory
  <2> QED BY <2>1, <2>2, <2>3, <2>4, <2>5 DEF HeapNext
<1> QED BY <1>1, <1>2, PTL DEF HeapSpec

LEMMA PartitionedStep == HeapInv => MemoryPartitioned
<1> SUFFICES ASSUME HeapInv PROVE MemoryPartitioned
  OBVIOUS
<1>1. Sound(freeList, used) /\ Good(freeList) /\ DOMAIN freeList = 1..Len(freeList)
  BY LenProperties DEF HeapInv, Sound, Good
<1>2. \A b \in used : b.size >= b.asked + Overhead
  BY <1>1 DEF Sound
<1>3. \A b \in FreeNodes \cup used : Span(b) \subseteq Memory
  BY WithinMemory
<1>4. ASSUME NEW a \in Memory
      PROVE  Cardinality({b \in FreeNodes \cup used : a \in Span(b)}) = 1
  <2> DEFINE S == {b \in FreeNodes \cup used : a \in Span(b)}
  <2>1. PICK b \in FreeNodes \cup used : a \in Span(b)
    BY <1>1 DEF HeapInv, Covered, Area, FreeNodes
  <2>2. ASSUME NEW c \in S, NEW d \in S PROVE c = d
    <3>1. CASE c \in used /\ d \in used
      BY <3>1, <1>1 DEF Sound
    <3>2. CASE c \in used /\ d \in FreeNodes
      BY <3>2, <1>1 DEF Sound, Area, FreeNodes
    <3>3. CASE d \in used /\ c \in FreeNodes
      BY <3>3, <1>1 DEF Sound, Area, FreeNodes
    <3>4. CASE c \in FreeNodes /\ d \in FreeNodes
      <4>1. PICK i \in 1..Len(freeList) : c = freeList[i]
        BY <3>4, <1>1 DEF FreeNodes
      <4>2. PICK j \in 1..Len(freeList) : d = freeList[j]
        BY <3>4, <1>1 DEF FreeNodes
      <4>3. c \in FreeNode /\ d \in FreeNode
        BY <1>1, <4>1, <4>2, ElementOfSeq DEF Good
      <4>4. /\ a \in Nat /\ c.addr <= a /\ a < End(c) /\ d.addr <= a /\ a < End(d)
            /\ c.addr \in Nat /\ d.addr \in Nat /\ End(c) \in Nat /\ End(d) \in Nat
        BY <4>3, SpanFacts
      <4>5. CASE i < j
        <5>1. End(c) < d.addr
          BY <1>1, <4>1, <4>2, <4>5 DEF Good
        <5> QED BY <4>4, <5>1
      <4>6. CASE j < i
        <5>1. End(d) < c.addr
          BY <1>1, <4>1, <4>2, <4>6 DEF Good
        <5> QED BY <4>4, <5>1
      <4>7. i \in Int /\ j \in Int
        OBVIOUS
      <4> QED BY <4>1, <4>2, <4>5, <4>6, <4>7
    <3> QED BY <3>1, <3>2, <3>3, <3>4
  <2>3. S = {b}
    BY <2>1, <2>2
  <2> HIDE DEF S
  <2>4. Cardinality(S) = 1
    BY <2>3, FS_Singleton
  <2> QED BY <2>4 DEF S
<1> QED BY <1>2, <1>3, <1>4 DEF MemoryPartitioned

(* MemoryPartitioned of os/heap.c: nothing is handed out twice and nothing  *)
(* is lost, for any regions, sizes and header sizes.                        *)
THEOREM HeapIsPartitioned == HeapSpec => []MemoryPartitioned
BY HeapInvariant, PartitionedStep, PTL

(* FreeMerged: the list of os/heap.c is ordered by address and nodes that   *)
(* touch are one.                                                           *)
THEOREM FreeNodesMerged == HeapSpec => []FreeMerged
<1>1. HeapInv => FreeMerged
  <2> SUFFICES ASSUME HeapInv, NEW i \in 1..(Len(freeList) - 1)
               PROVE  End(freeList[i]) < freeList[i + 1].addr
    BY DEF FreeMerged
  <2>1. Good(freeList) /\ Len(freeList) \in Nat
    BY LenProperties DEF HeapInv, Sound, Good
  <2>2. i \in 1..Len(freeList) /\ i + 1 \in 1..Len(freeList) /\ i < i + 1
    BY <2>1
  <2> QED BY <2>1, <2>2 DEF Good
<1> QED BY <1>1, HeapInvariant, PTL

(* The sizes the heap computes stay between a minimal node and the size of  *)
(* the address space.                                                       *)
THEOREM HeapTypes == HeapSpec => []HeapTypeOK
<1>1. HeapInv => HeapTypeOK
  <2> SUFFICES ASSUME HeapInv PROVE HeapTypeOK
    OBVIOUS
  <2>1. \A b \in FreeNodes \cup used : b.addr \in Nat /\ b.size \in Node..HeapWord
    BY WithinMemory, HeaderAssumption
  <2>2. \A b \in used : b.asked \in Sizes
    BY UsedFacts DEF HeapInv, Sound
  <2> QED BY <2>1, <2>2 DEF HeapTypeOK, HeapInv
<1> QED BY <1>1, HeapInvariant, PTL

-----------------------------------------------------------------------------
(* The rings of a serial device.  No thread is left asleep, and the rings   *)
(* are queues, when the output is not closed or discarded with characters   *)
(* left.  What an interrupt does between the driver's look at a count and   *)
(* its wait leaves an event; what it does to the count the driver adds to   *)
(* or takes from what is there.                                             *)

USE MarkAssumption, UsartAssumption

Place == 0..(RingSize - 1)

Rings == [siz: {0, RingSize}, head: Place, tail: Place, cnt: Nat, signaled: BOOLEAN, mem: [Place -> Nat]]

ReadPlaces == {"idle", "count", "start", "wait", "asleep", "look", "copy", "mark", "kick",
               "off", "head", "tail", "cnt", "on"}

WritePlaces == {"idle", "put", "flush", "start", "wait", "asleep", "look", "kick",
                "off", "head", "tail", "cnt", "on"}

RxTypeOK ==
    /\ rx \in Rings /\ heard \in Nat
    /\ reader \in [at: ReadPlaces, avail: Nat, n: Nat, size: Nat]

(* A character that comes after the reader has found none leaves an event.  *)
RxInv ==
    /\ RxTypeOK
    /\ reader.at \in {"count", "start", "wait", "asleep"} => rx.siz > 0
    /\ reader.at \in {"start", "wait"} => rx.cnt = 0 \/ rx.signaled
    /\ reader.at = "asleep" => rx.cnt = 0
    /\ reader.at \in {"count", "start", "wait", "asleep", "look"} => reader.n = 0
    /\ reader.at = "copy" => reader.n <= reader.avail /\ reader.avail <= rx.cnt

TxTypeOK ==
    /\ tx \in Rings /\ wrote \in Nat /\ udrie \in BOOLEAN
    /\ writer \in [at: WritePlaces, avail: Nat, n: Nat, size: Nat]

(* The interrupt that takes the last character before the low watermark, or *)
(* finds none, comes after the writer has looked, and leaves an event; the  *)
(* writer has enabled it.                                                   *)
TxInv ==
    /\ TxTypeOK
    /\ writer.at \in {"put", "flush", "start", "wait", "asleep", "look", "kick", "off"} => tx.siz > 0
    /\ writer.at \in {"start", "wait"} /\ writer.size > 0 => tx.cnt > LowMark \/ tx.signaled
    /\ writer.at = "wait" => udrie \/ "XOFF_RCVD" \in flow \/ tx.signaled
    /\ writer.at = "asleep" => /\ udrie \/ "XOFF_RCVD" \in flow
                               /\ writer.size > 0 => tx.cnt > LowMark

-----------------------------------------------------------------------------

LEMMA RingPlaceFacts ==
  /\ RingSize \in Nat \ {0} /\ 0 \in Place
  /\ \A i \in Place : After(i) \in Place
  /\ \A n \in Nat : Next1(n) \in Nat
  BY DEF Place, After, Next1, Modulus

LEMMA RingFacts ==
  /\ NoRing \in Rings /\ NoRing.siz = 0 /\ NoRing.cnt = 0
  /\ \A r \in Rings : /\ NewRing(r) \in Rings /\ NewRing(r).siz = RingSize /\ NewRing(r).cnt = 0
                      /\ ClosedRing(r) \in Rings /\ ClosedRing(r).siz = 0 /\ ClosedRing(r).cnt = r.cnt
  BY RingPlaceFacts DEF Rings, NoRing, NewRing, ClosedRing, Place

LEMMA StoredFacts ==
  ASSUME NEW r \in Rings, NEW n \in Nat
  PROVE  /\ Stored(r, n) \in Rings /\ Stored(r, n).cnt = r.cnt
         /\ Stored(r, n).siz = r.siz /\ Stored(r, n).signaled = r.signaled
<1> DEFINE m == [r.mem EXCEPT ![r.head] = n]
<1>1. m \in [Place -> Nat]
  BY DEF Rings
<1>2. Stored(r, n) = [r EXCEPT !.mem = m, !.head = After(r.head)]
  BY DEF Stored, Rings
<1>3. After(r.head) \in Place
  BY RingPlaceFacts DEF Rings
<1> HIDE DEF m
<1> QED BY <1>1, <1>2, <1>3 DEF Rings

LEMMA RemovedFacts ==
  ASSUME NEW r \in Rings
  PROVE  /\ Removed(r) \in Rings /\ Removed(r).cnt = r.cnt
         /\ Removed(r).siz = r.siz /\ Removed(r).signaled = r.signaled
<1> DEFINE m == [r.mem EXCEPT ![r.tail] = 0]
<1>1. m \in [Place -> Nat]
  BY DEF Rings
<1>2. Removed(r) = [r EXCEPT !.mem = m, !.tail = After(r.tail)]
  BY DEF Removed, Rings
<1>3. After(r.tail) \in Place
  BY RingPlaceFacts DEF Rings
<1> HIDE DEF m
<1> QED BY <1>1, <1>2, <1>3 DEF Rings

(* A change of the count, or of the size.                                   *)
LEMMA RingCountFacts ==
  ASSUME NEW r \in Rings, NEW n \in Nat
  PROVE  /\ [r EXCEPT !.cnt = n] \in Rings /\ [r EXCEPT !.cnt = n].cnt = n
         /\ [r EXCEPT !.cnt = n].siz = r.siz /\ [r EXCEPT !.cnt = n].signaled = r.signaled
  BY DEF Rings

LEMMA PostedFacts ==
  ASSUME NEW r \in Rings, NEW c
  PROVE  /\ FromIrq(r, c) \in Rings /\ FromIrq(r, c).cnt = r.cnt /\ FromIrq(r, c).siz = r.siz
         /\ c.at # "asleep" => FromIrq(r, c).signaled
<1>1. (c.at # "asleep") \in BOOLEAN
  OBVIOUS
<1> QED BY <1>1 DEF FromIrq, Rings

LEMMA WaitedFacts ==
  ASSUME NEW r \in Rings
  PROVE  /\ [r EXCEPT !.signaled = FALSE] \in Rings /\ [r EXCEPT !.signaled = FALSE].cnt = r.cnt
         /\ [r EXCEPT !.signaled = FALSE].siz = r.siz
  BY DEF Rings

(* Who is not asleep goes on where he was.                                  *)
LEMMA WokenFacts ==
  /\ \A c \in [at: ReadPlaces, avail: Nat, n: Nat, size: Nat] :
       /\ Woken(c) \in [at: ReadPlaces, avail: Nat, n: Nat, size: Nat] /\ Woken(c).at # "asleep"
       /\ c.at # "asleep" => Woken(c) = c
       /\ c.at = "asleep" => Woken(c).at = "look" /\ Woken(c).n = c.n
  /\ \A c \in [at: WritePlaces, avail: Nat, n: Nat, size: Nat] :
       /\ Woken(c) \in [at: WritePlaces, avail: Nat, n: Nat, size: Nat] /\ Woken(c).at # "asleep"
       /\ c.at # "asleep" => Woken(c) = c
       /\ c.at = "asleep" => Woken(c).at = "look" /\ Woken(c).n = c.n
  BY DEF Woken, ReadPlaces, WritePlaces

-----------------------------------------------------------------------------
(* The reader's side.                                                       *)

LEMMA RxCompleteKeeps ==
  ASSUME RxInv, RxComplete
  PROVE  RxInv'
<1> USE DEF RxInv, RxTypeOK
<1>1. CASE UNCHANGED <<rx, reader, heard>>
  BY <1>1
<1>2. CASE rx.cnt < rx.siz
  <2> DEFINE r == [Stored(rx, heard) EXCEPT !.cnt = @ + 1]
  <2>1. rx.cnt \in Nat /\ rx.siz > 0
    BY <1>2, RingPlaceFacts DEF Rings
  <2>2. /\ r \in Rings /\ r.cnt = rx.cnt + 1 /\ r.siz = rx.siz /\ r.signaled = rx.signaled
    <3> DEFINE s == Stored(rx, heard)
    <3>1. s \in Rings /\ s.cnt = rx.cnt /\ s.siz = rx.siz /\ s.signaled = rx.signaled
      BY StoredFacts
    <3>2. rx.cnt + 1 \in Nat
      BY <2>1
    <3>3. r = [s EXCEPT !.cnt = rx.cnt + 1]
      BY <3>1
    <3> HIDE DEF s, r
    <3> QED BY <3>1, <3>2, <3>3, RingCountFacts
  <2>3. heard' \in Nat
    BY <1>2, <2>1, RingPlaceFacts DEF RxComplete, Rings
  <2>4. CASE rx.cnt = 0
    <3>1. rx' = FromIrq(r, reader) /\ reader' = Woken(reader)
      BY <1>2, <2>4, RingPlaceFacts DEF RxComplete, Rings
    <3> HIDE DEF r
    <3>2. /\ rx' \in Rings /\ rx'.cnt = 1 /\ rx'.siz > 0
          /\ reader.at # "asleep" => rx'.signaled
      <4>1. r \in Rings /\ r.cnt = 1 /\ r.siz > 0
        BY <2>1, <2>2, <2>4
      <4> QED BY <3>1, <4>1, PostedFacts
    <3>3. CASE reader.at = "asleep"
      BY <2>3, <3>1, <3>2, <3>3, WokenFacts
    <3>4. CASE reader.at # "asleep"
      <4>1. reader' = reader
        BY <3>1, <3>4, WokenFacts
      <4> QED BY <2>2, <2>3, <2>4, <3>2, <3>4, <4>1
    <3> QED BY <3>3, <3>4
  <2>5. CASE rx.cnt # 0
    <3>1. rx' = r /\ reader' = reader
      BY <1>2, <2>1, <2>5, RingPlaceFacts DEF RxComplete, Rings
    <3> HIDE DEF r
    <3> QED BY <2>1, <2>2, <2>3, <2>5, <3>1
  <2> QED BY <2>4, <2>5
<1> QED BY <1>1, <1>2, RingPlaceFacts DEF RxComplete, Rings

LEMMA ReaderRunsKeeps ==
  ASSUME RxInv, ReaderRuns
  PROVE  RxInv'
<1> USE DEF RxInv, RxTypeOK
<1>1. rx.cnt \in Nat /\ rx.siz \in {0, RingSize} /\ rx.signaled \in BOOLEAN
  BY DEF Rings
<1>2. CASE ReadLook
  BY <1>1, <1>2, RingPlaceFacts DEF ReadLook, ReaderAt, ReadTo, Idle, ReadPlaces
<1>3. CASE ReadCount
  <2>1. /\ reader' \in [at: ReadPlaces, avail: Nat, n: Nat, size: Nat]
        /\ reader'.at = (IF rx.cnt > 0 THEN "copy" ELSE "start")
        /\ reader'.avail = rx.cnt /\ reader'.n = reader.n
    BY <1>1, <1>3 DEF ReadCount, ReadPlaces
  <2>2. rx' = rx /\ heard' = heard /\ reader.n = 0 /\ rx.siz > 0
    BY <1>3 DEF ReadCount, ReaderAt
  <2> QED BY <1>1, <2>1, <2>2
<1>4. CASE ReadStart
  BY <1>4 DEF ReadStart, ReaderAt, ReadTo, ReadPlaces
<1>5. CASE ReadWait
  BY <1>1, <1>5, WaitedFacts DEF ReadWait, ReaderAt, ReadTo, ReadPlaces
<1>6. CASE ReadCopy
  BY <1>6, RemovedFacts, RingPlaceFacts DEF ReadCopy, ReaderAt, ReadPlaces
<1>7. CASE ReadDone
  <2>1. rx.cnt - reader.n \in Nat
    BY <1>1, <1>7 DEF ReadDone, ReaderAt
  <2>2. rx' = [rx EXCEPT !.cnt = rx.cnt - reader.n] /\ reader' = [reader EXCEPT !.at = "mark"] /\ heard' = heard
    BY <1>7 DEF ReadDone, ReadTo
  <2> QED BY <1>1, <2>1, <2>2, RingCountFacts DEF ReadPlaces
<1>8. CASE ReadReturns
  BY <1>8 DEF ReadReturns, ReaderAt, Idle, ReadPlaces
<1>9. CASE ReadKick
  BY <1>9 DEF ReadKick, Idle, ReadPlaces
<1>10. CASE ReadDiscard
  <2>1. rx' \in Rings
    BY <1>10, RingPlaceFacts DEF ReadDiscard, Rings
  <2>2. heard' = heard /\ \E p \in {"head", "tail", "cnt", "on", "kick"} : reader' = [reader EXCEPT !.at = p]
    BY <1>10 DEF ReadDiscard, ReadTo
  <2> QED BY <2>1, <2>2 DEF ReadPlaces
<1> QED BY <1>2, <1>3, <1>4, <1>5, <1>6, <1>7, <1>8, <1>9, <1>10 DEF ReaderRuns

LEMMA RxKept ==
  ASSUME RxInv, TxInv, [UsartNext]_usartVars
  PROVE  RxInv'
<1> USE DEF RxInv, RxTypeOK
<1>1. CASE UNCHANGED rxVars
  BY <1>1 DEF rxVars
<1>2. CASE RxComplete
  BY <1>2, RxCompleteKeeps
<1>3. CASE ReaderRuns
  BY <1>3, ReaderRunsKeeps
<1>4. CASE UsartRead
  <2>1. /\ rx.siz > 0 /\ rx' = rx /\ heard' = heard
        /\ \/ \E n \in 1..RingSize : reader' = [at |-> "count", avail |-> 0, n |-> 0, size |-> n]
           \/ reader' = [at |-> "off", avail |-> 0, n |-> 0, size |-> 0]
    BY <1>4 DEF UsartRead, Idle
  <2>2. reader' \in [at: {"count", "off"}, avail: Nat, n: Nat, size: Nat] /\ reader'.n = 0
    BY <2>1, RingPlaceFacts
  <2> QED BY <2>1, <2>2 DEF ReadPlaces
<1>5. CASE ReadTimeout
  BY <1>5 DEF ReadTimeout, Idle, ReadPlaces
<1>6. CASE UsartClose
  <2>1. rx' \in Rings /\ heard' = 0 /\ reader' = Woken(reader)
    BY <1>6, RingFacts, WaitedFacts DEF UsartClose
  <2>2. reader.at \in {"idle", "asleep", "look"}
    BY <1>6 DEF UsartClose, Busy
  <2> QED BY <2>1, <2>2, WokenFacts
<1>7. CASE UsartOpen
  <2>1. rx' \in Rings /\ heard' = 0 /\ reader' = reader
    BY <1>7, RingFacts DEF UsartOpen
  <2>2. rx.siz = 0 /\ reader.at \in {"idle", "asleep", "look"}
    BY <1>7, RingPlaceFacts DEF UsartOpen, Busy, Rings, TxInv, TxTypeOK
  <2> QED BY <2>1, <2>2
<1> QED
  BY <1>1, <1>2, <1>3, <1>4, <1>5, <1>6, <1>7
  DEF UsartNext, usartVars, Interrupt, RxControl, TxEmpty, Transmitted, UsartWrite, UsartIOCtl,
      WriteTimeout, WriterRuns, PutCharacter, PutFlush, Flush, FlushStart, FlushWait, FlushLook,
      WriteDone, WriteReturns, WriteDiscard, rxVars

-----------------------------------------------------------------------------
(* The writer's side.                                                       *)

(* Only RxControl() changes whether the other end has sent XOFF.            *)
LEMMA FlowFacts ==
  /\ \A cnt : SendXoff(cnt) => ("XOFF_RCVD" \in flow' <=> "XOFF_RCVD" \in flow)
  /\ RxStart => ("XOFF_RCVD" \in flow' <=> "XOFF_RCVD" \in flow)
  /\ TxControl => ("XOFF_RCVD" \in flow' <=> "XOFF_RCVD" \in flow)
  BY DEF SendXoff, RxStart, TxControl

LEMMA TxUnchanged ==
  ASSUME TxInv, UNCHANGED txVars, "XOFF_RCVD" \in flow' <=> "XOFF_RCVD" \in flow
  PROVE  TxInv'
  BY DEF TxInv, TxTypeOK, txVars

LEMMA TxEmptyKeeps ==
  ASSUME TxInv, TxEmpty
  PROVE  TxInv'
<1> USE DEF TxInv, TxTypeOK
<1>1. udrie /\ tx.cnt \in Nat /\ tx.siz \in {0, RingSize} /\ LowMark \in Nat
  BY DEF TxEmpty, Rings
<1>2. CASE TxControl
  BY <1>2, FlowFacts, TxUnchanged DEF TxControl
<1>3. CASE TxStopped /\ "XOFF_RCVD" \in flow
  BY <1>3 DEF TxStopped
<1>4. CASE TxNext /\ tx.cnt > 0
  <2> DEFINE s == Removed(tx)
             r == [s EXCEPT !.cnt = tx.cnt - 1]
  <2>1. s \in Rings /\ s.cnt = tx.cnt /\ s.siz = tx.siz /\ s.signaled = tx.signaled
    BY RemovedFacts
  <2>2. tx.cnt - 1 \in Nat
    BY <1>1, <1>4
  <2>3. /\ udrie' = udrie /\ wrote' = wrote /\ flow' = flow
        /\ IF r.cnt = LowMark THEN tx' = FromIrq(r, writer) /\ writer' = Woken(writer)
                              ELSE tx' = r /\ writer' = writer
    BY <1>4, <2>1 DEF TxNext
  <2> HIDE DEF s
  <2>4. r \in Rings /\ r.cnt = tx.cnt - 1 /\ r.siz = tx.siz /\ r.signaled = tx.signaled
    BY <2>1, <2>2, RingCountFacts
  <2> HIDE DEF r
  <2>5. CASE r.cnt = LowMark
    <3>1. /\ tx' \in Rings /\ tx'.siz = tx.siz /\ writer' = Woken(writer)
          /\ writer.at # "asleep" => tx'.signaled
      <4>1. tx' = FromIrq(r, writer) /\ writer' = Woken(writer)
        BY <2>3, <2>5
      <4> QED BY <2>4, <4>1, PostedFacts
    <3>2. CASE writer.at = "asleep"
      BY <1>1, <2>3, <3>1, <3>2, WokenFacts
    <3>3. CASE writer.at # "asleep"
      <4>1. writer' = writer /\ tx'.signaled
        BY <3>1, <3>3, WokenFacts
      <4> QED BY <1>1, <2>3, <3>1, <3>3, <4>1
    <3> QED BY <3>2, <3>3
  <2>6. CASE r.cnt # LowMark
    <3>1. tx' = r /\ writer' = writer
      BY <2>3, <2>6
    <3>2. tx.cnt > LowMark => tx'.cnt > LowMark
      BY <1>1, <2>4, <2>6, <3>1
    <3> QED BY <1>1, <2>3, <2>4, <3>1, <3>2
  <2> QED BY <2>5, <2>6
<1>5. CASE TxDone
  <2>1. /\ udrie' = FALSE /\ wrote' = wrote /\ flow' = flow
        /\ tx' = FromIrq(tx, writer) /\ writer' = Woken(writer)
    BY <1>5 DEF TxDone
  <2>2. /\ tx' \in Rings /\ tx'.siz = tx.siz /\ tx'.cnt = tx.cnt
        /\ writer.at # "asleep" => tx'.signaled
    BY <2>1, PostedFacts
  <2>3. CASE writer.at = "asleep"
    BY <2>1, <2>2, <2>3, WokenFacts
  <2>4. CASE writer.at # "asleep"
    <3>1. writer' = writer /\ tx'.signaled
      BY <2>1, <2>2, <2>4, WokenFacts
    <3> QED BY <2>1, <2>2, <2>4, <3>1
  <2> QED BY <2>3, <2>4
<1> QED BY <1>2, <1>3, <1>4, <1>5 DEF TxEmpty

LEMMA WriterRunsKeeps ==
  ASSUME TxInv, WriterRuns
  PROVE  TxInv'
<1> USE DEF TxInv, TxTypeOK
<1>1. /\ tx.cnt \in Nat /\ tx.siz \in {0, RingSize} /\ LowMark \in Nat /\ PutMax \in Nat
      /\ writer.n \in Nat /\ writer.size \in Nat
  BY DEF Rings
<1>2. CASE PutCharacter
  <2>1. /\ tx' \in Rings /\ tx'.siz = tx.siz /\ wrote' \in Nat /\ udrie' = udrie
        /\ writer.at = "put"
    BY <1>2, StoredFacts, RingPlaceFacts DEF PutCharacter, WriterAt
  <2>2. writer.n + 1 \in Nat /\ writer.size - 1 \in Nat
    BY <1>1, <1>2 DEF PutCharacter
  <2>3. writer' = [writer EXCEPT !.n = writer.n + 1, !.size = writer.size - 1]
    BY <1>2 DEF PutCharacter
  <2> QED BY <2>1, <2>2, <2>3 DEF WritePlaces
<1>3. CASE PutFlush
  BY <1>3 DEF PutFlush, WriterAt, WriteTo, WritePlaces
<1>4. CASE Flush
  <2> DEFINE cnt == tx.cnt + writer.n
             p == IF cnt > Remaining THEN "start" ELSE IF writer.size = 0 THEN "idle" ELSE "put"
  <2>1. cnt \in Nat
    BY <1>1
  <2>2. /\ tx' = [tx EXCEPT !.cnt = cnt] /\ writer' = [writer EXCEPT !.n = 0, !.avail = cnt, !.at = p]
        /\ udrie' = udrie /\ wrote' = wrote /\ writer.at = "flush"
    BY <1>4 DEF Flush, WriterAt
  <2>3. p = "start" /\ writer.size > 0 => cnt > LowMark
    BY <1>1 DEF Remaining
  <2>4. p \in {"start", "idle", "put"}
    OBVIOUS
  <2> HIDE DEF cnt, p
  <2>5. tx' \in Rings /\ tx'.cnt = cnt /\ tx'.siz = tx.siz
    BY <2>1, <2>2, RingCountFacts
  <2>6. /\ writer' \in [at: WritePlaces, avail: Nat, n: Nat, size: Nat]
        /\ writer'.at = p /\ writer'.size = writer.size
    BY <2>1, <2>2, <2>4 DEF WritePlaces
  <2> QED BY <2>2, <2>3, <2>4, <2>5, <2>6
<1>5. CASE FlushStart
  BY <1>5 DEF FlushStart, WriterAt, WriteTo, WritePlaces
<1>6. CASE FlushWait
  BY <1>1, <1>6, WaitedFacts DEF FlushWait, WriterAt, WriteTo, WritePlaces, lineVars
<1>7. CASE FlushLook
  BY <1>7 DEF FlushLook, WriterAt, WriteTo, WritePlaces
<1>8. CASE WriteDone
  <2>1. tx.cnt + writer.n \in Nat
    BY <1>1
  <2>2. /\ tx' = [tx EXCEPT !.cnt = tx.cnt + writer.n] /\ writer' = [Idle EXCEPT !.at = "kick"]
        /\ udrie' = udrie /\ wrote' = wrote /\ writer.at = "put"
    BY <1>8 DEF WriteDone, WriterAt
  <2> QED BY <2>1, <2>2, RingCountFacts DEF Idle, WritePlaces
<1>9. CASE WriteReturns
  BY <1>9 DEF WriteReturns, Idle, WritePlaces
<1>10. CASE WriteDiscard
  <2>1. tx' \in Rings
    BY <1>10, RingPlaceFacts DEF WriteDiscard, Rings
  <2>2. /\ udrie' = udrie /\ wrote' = wrote
        /\ writer' = Idle \/ \E p \in {"head", "tail", "cnt", "on"} : writer' = [writer EXCEPT !.at = p]
    BY <1>10 DEF WriteDiscard, WriteTo
  <2> QED BY <2>1, <2>2 DEF Idle, WritePlaces
<1> QED BY <1>2, <1>3, <1>4, <1>5, <1>6, <1>7, <1>8, <1>9, <1>10 DEF WriterRuns

LEMMA TxKept ==
  ASSUME RxInv, TxInv, ~Hasty, [UsartNext]_usartVars
  PROVE  TxInv'
<1>1. CASE UNCHANGED usartVars
  BY <1>1, TxUnchanged DEF usartVars, txVars
<1>2. CASE RxComplete
  <2>1. UNCHANGED flow \/ \E cnt : SendXoff(cnt)
    BY <1>2 DEF RxComplete
  <2> QED BY <1>2, <2>1, FlowFacts, TxUnchanged DEF RxComplete
<1>3. CASE RxControl
  BY <1>3 DEF RxControl, TxInv, TxTypeOK
<1>4. CASE TxEmpty
  BY <1>4, TxEmptyKeeps
<1>5. CASE Transmitted \/ UsartRead \/ ReadTimeout
  BY <1>5, TxUnchanged DEF Transmitted, UsartRead, ReadTimeout, lineVars
<1>6. CASE ReaderRuns
  <2>1. UNCHANGED txVars /\ (UNCHANGED flow \/ RxStart)
    BY <1>6 DEF ReaderRuns, ReadLook, ReadCount, ReadStart, ReadWait, ReadCopy, ReadDone,
                ReadReturns, ReadKick, ReadDiscard, lineVars
  <2> QED BY <2>1, FlowFacts, TxUnchanged
<1>7. CASE WriterRuns
  BY <1>7, WriterRunsKeeps
<1> USE DEF TxInv, TxTypeOK
<1>8. CASE UsartWrite
  <2>1. tx.cnt \in Nat /\ tx.siz > 0 /\ tx' = tx /\ udrie' = udrie /\ wrote' = wrote
    BY <1>8 DEF UsartWrite, Rings
  <2>2. \E n \in 0..PutMax : writer' = [at |-> IF n > 0 THEN "put" ELSE "flush",
                                        avail |-> tx.cnt, n |-> 0, size |-> n]
    BY <1>8 DEF UsartWrite, Idle
  <2>3. writer' \in [at: {"put", "flush"}, avail: Nat, n: Nat, size: Nat]
    BY <2>1, <2>2
  <2> QED BY <2>1, <2>3 DEF WritePlaces
<1>9. CASE UsartIOCtl
  BY <1>9 DEF UsartIOCtl, WriterAt, WriteTo, WritePlaces
<1>10. CASE WriteTimeout
  BY <1>10 DEF WriteTimeout, Idle, WritePlaces
<1>11. CASE UsartClose
  BY <1>11, RingFacts DEF UsartClose
<1>12. CASE UsartOpen
  <2>1. tx.siz = 0
    BY <1>12, RingPlaceFacts DEF UsartOpen, Rings, RxInv, RxTypeOK
  <2>2. writer.at = "idle"
    BY <1>12, <2>1 DEF UsartOpen, Busy
  <2> QED BY <1>12, <2>2, RingFacts DEF UsartOpen
<1> QED
  BY <1>1, <1>2, <1>3, <1>4, <1>5, <1>6, <1>7, <1>8, <1>9, <1>10, <1>11, <1>12 DEF UsartNext, Interrupt

-----------------------------------------------------------------------------
(* The theorems.                                                            *)

UsartInv == RxInv /\ TxInv

LEMMA InitKept == UsartInit => UsartInv
<1> SUFFICES ASSUME UsartInit PROVE UsartInv
  OBVIOUS
<1>1. rx \in Rings /\ tx \in Rings
  BY RingFacts DEF UsartInit
<1>2. heard = 0 /\ wrote = 0 /\ udrie = FALSE /\ reader = Idle /\ writer = Idle
  BY DEF UsartInit
<1> QED BY <1>1, <1>2 DEF UsartInv, RxInv, TxInv, RxTypeOK, TxTypeOK, Idle, ReadPlaces, WritePlaces

(* The inductive invariant, when the output is not closed or discarded with *)
(* characters left.                                                         *)
THEOREM UsartInvariant ==
  ASSUME ~Hasty
  PROVE  UsartSpec => []UsartInv
<1>1. UsartInv /\ [UsartNext]_usartVars => UsartInv'
  BY RxKept, TxKept DEF UsartInv
<1> QED BY <1>1, InitKept, PTL DEF UsartSpec

(* UsartRead() and UsartFlushOutput() never sleep beside what they wait for.*)
THEOREM SleepersAreTold ==
  ASSUME ~Hasty
  PROVE  UsartSpec => []SleepersTold
<1>1. UsartInv => SleepersTold
  BY DEF UsartInv, RxInv, TxInv, SleepersTold
<1> QED BY <1>1, UsartInvariant, PTL

-----------------------------------------------------------------------------
(* Rings as queues.                                                         *)

(* What Holds() says, with sums that wrap around once instead of modulo.    *)
Num == 0..(Modulus - 1)

Contents(r, n, first, next) ==
    /\ n \in 0..RingSize /\ first \in Num
    /\ r.head = Wrap(r.tail + n, RingSize)
    /\ next = Wrap(first + n, Modulus)
    /\ \A i \in 0..(n - 1) : r.mem[Wrap(r.tail + i, RingSize)] = Wrap(first + i, Modulus)

(* One step around the ring.                                                *)
LEMMA WrapUp ==
  ASSUME NEW m \in Nat \ {0}, NEW t \in 0..(m - 1), NEW n \in 0..(m - 1)
  PROVE  Wrap(Wrap(t + n, m) + 1, m) = Wrap(t + (n + 1), m)
  BY DEF Wrap

LEMMA WrapDown ==
  ASSUME NEW m \in Nat \ {0}, NEW t \in 0..(m - 1), NEW n \in 1..(m - 1)
  PROVE  /\ Wrap(Wrap(t + 1, m) + (n - 1), m) = Wrap(t + n, m)
         /\ Wrap(t + n, m) # t /\ Wrap(t + n, m) \in 0..(m - 1)
  BY DEF Wrap

(* Two places of the ring, less than a turn apart.                          *)
LEMMA RingWrapApart ==
  ASSUME NEW m \in Nat \ {0}, NEW t \in 0..(m - 1), NEW i \in 0..(m - 1), NEW n \in 0..(m - 1)
  PROVE  Wrap(t + i, m) \in 0..(m - 1) /\ (i # n => Wrap(t + i, m) # Wrap(t + n, m))
  BY DEF Wrap

LEMMA RingSizeFacts ==
  /\ RingSize \in Nat \ {0} /\ Modulus \in Nat \ {0} /\ Modulus = RingSize + RingSize
  /\ 0 \in Num /\ Num \subseteq Nat
  /\ \A i \in Place : After(i) = Wrap(i + 1, RingSize)
  /\ \A n \in Num : Next1(n) = Wrap(n + 1, Modulus) /\ Next1(n) \in Num
<1>1. RingSize \in Nat \ {0} /\ Modulus \in Nat \ {0} /\ Modulus = RingSize + RingSize
  BY DEF Modulus
<1>2. ASSUME NEW i \in Place PROVE After(i) = Wrap(i + 1, RingSize)
  <2>1. i + 1 \in 0..(RingSize + RingSize - 1)
    BY <1>1 DEF Place
  <2> QED BY <1>1, <2>1, ModWrap DEF After
<1>3. ASSUME NEW n \in Num PROVE Next1(n) = Wrap(n + 1, Modulus) /\ Next1(n) \in Num
  <2>1. n + 1 \in 0..(Modulus + Modulus - 1)
    BY <1>1 DEF Num
  <2>2. (n + 1) % Modulus = Wrap(n + 1, Modulus) /\ Wrap(n + 1, Modulus) \in 0..(Modulus - 1)
    BY <1>1, <2>1, ModWrap
  <2> QED BY <2>2 DEF Next1, Num
<1> QED BY <1>1, <1>2, <1>3 DEF Num

LEMMA ContentsHeld ==
  ASSUME NEW r \in Rings, NEW n, NEW first, NEW next, Contents(r, n, first, next)
  PROVE  Holds(r, n, first) /\ next = (first + n) % Modulus /\ next \in Num
<1>1. /\ n \in 0..RingSize /\ first \in Num /\ r.head \in Place /\ r.tail \in Place
      /\ n \in Nat /\ RingSize \in Nat \ {0} /\ Modulus \in Nat \ {0} /\ Modulus = RingSize + RingSize
  BY RingSizeFacts DEF Contents, Rings
<1>2. next = (first + n) % Modulus /\ next \in Num
  <2>1. first + n \in 0..(Modulus + Modulus - 1)
    BY <1>1 DEF Num
  <2> QED BY <1>1, <2>1, ModWrap DEF Contents, Num
<1>3. (r.head - r.tail - n) % RingSize = 0
  <2>1. r.head - r.tail - n = 0 \/ r.head - r.tail - n = 0 - RingSize
    BY <1>1 DEF Contents, Wrap, Place
  <2>2. 0 % RingSize = 0 /\ (0 - RingSize) % RingSize = 0
    BY <1>1
  <2> QED BY <2>1, <2>2
<1>4. ASSUME NEW i \in 0..(n - 1)
      PROVE  r.mem[(r.tail + i) % RingSize] = (first + i) % Modulus
  <2>1. r.tail + i \in 0..(RingSize + RingSize - 1) /\ first + i \in 0..(Modulus + Modulus - 1)
    BY <1>1 DEF Place, Num
  <2>2. (r.tail + i) % RingSize = Wrap(r.tail + i, RingSize)
    BY <1>1, <2>1, ModWrap
  <2>3. (first + i) % Modulus = Wrap(first + i, Modulus)
    BY <1>1, <2>1, ModWrap
  <2> QED BY <2>2, <2>3 DEF Contents
<1> QED BY <1>1, <1>2, <1>3, <1>4 DEF Holds

(* The contents are in mem from tail to head.                               *)
LEMMA SameContents ==
  ASSUME NEW r, NEW s, NEW n, NEW first, NEW next,
         s.head = r.head, s.tail = r.tail, s.mem = r.mem, Contents(r, n, first, next)
  PROVE  Contents(s, n, first, next)
  BY DEF Contents

LEMMA NoContents ==
  ASSUME NEW r \in Rings, r.head = r.tail, NEW first \in Num
  PROVE  Contents(r, 0, first, first)
  BY RingSizeFacts DEF Contents, Wrap, Num, Place, Rings

(* A character is put in at the head.                                       *)
LEMMA StoredContents ==
  ASSUME NEW r \in Rings, NEW n \in Nat, NEW first, NEW next, Contents(r, n, first, next), n < RingSize
  PROVE  Contents(Stored(r, next), n + 1, first, Next1(next))
<1> DEFINE s == Stored(r, next)
<1>1. /\ first \in Num /\ r.head \in Place /\ r.tail \in Place /\ r.mem \in [Place -> Nat]
      /\ RingSize \in Nat \ {0} /\ Modulus = RingSize + RingSize
  BY RingSizeFacts DEF Contents, Rings
<1>2. s.head = Wrap(r.head + 1, RingSize) /\ s.tail = r.tail /\ s.mem = [r.mem EXCEPT ![r.head] = next]
  BY <1>1, RingSizeFacts DEF Stored, Rings
<1> HIDE DEF s
<1>3. next \in Num /\ Next1(next) = Wrap(next + 1, Modulus)
  BY ContentsHeld, RingSizeFacts
<1>4. s.head = Wrap(s.tail + (n + 1), RingSize)
  <2>1. r.head = Wrap(r.tail + n, RingSize) /\ n \in 0..(RingSize - 1)
    BY <1>1 DEF Contents
  <2>2. r.tail \in 0..(RingSize - 1)
    BY <1>1 DEF Place
  <2>3. Wrap(Wrap(r.tail + n, RingSize) + 1, RingSize) = Wrap(r.tail + (n + 1), RingSize)
    BY <1>1, <2>1, <2>2, WrapUp
  <2> QED BY <1>2, <2>1, <2>3
<1>5. Next1(next) = Wrap(first + (n + 1), Modulus)
  BY <1>1, <1>3 DEF Contents, Wrap, Num
<1>6. ASSUME NEW i \in 0..((n + 1) - 1)
      PROVE  s.mem[Wrap(s.tail + i, RingSize)] = Wrap(first + i, Modulus)
  <2>1. Wrap(r.tail + i, RingSize) \in Place /\ (i # n => Wrap(r.tail + i, RingSize) # Wrap(r.tail + n, RingSize))
    <3>1. i \in 0..(RingSize - 1) /\ n \in 0..(RingSize - 1) /\ r.tail \in 0..(RingSize - 1)
      BY <1>1 DEF Place
    <3> QED BY <1>1, <3>1, RingWrapApart DEF Place
  <2>2. CASE i = n
    <3>1. Wrap(r.tail + i, RingSize) = r.head /\ Wrap(first + i, Modulus) = next
      BY <2>2 DEF Contents
    <3> QED BY <1>1, <1>2, <3>1
  <2>3. CASE i # n
    <3>1. i \in 0..(n - 1)
      BY <2>3
    <3>2. Wrap(r.tail + i, RingSize) # r.head
      BY <2>1, <2>3 DEF Contents
    <3>3. s.mem[Wrap(r.tail + i, RingSize)] = r.mem[Wrap(r.tail + i, RingSize)]
      BY <1>1, <1>2, <2>1, <3>2
    <3> QED BY <1>2, <3>1, <3>3 DEF Contents
  <2> QED BY <2>2, <2>3
<1>7. n + 1 \in 0..RingSize
  BY <1>1
<1> QED BY <1>1, <1>4, <1>5, <1>6, <1>7 DEF Contents, s

(* A character is taken from the tail.                                      *)
LEMMA RemovedContents ==
  ASSUME NEW r \in Rings, NEW n \in Nat \ {0}, NEW first, NEW next, Contents(r, n, first, next)
  PROVE  /\ r.mem[r.tail] = first
         /\ Contents(Removed(r), n - 1, Next1(first), next)
<1> DEFINE s == Removed(r)
<1>1. /\ first \in Num /\ r.head \in Place /\ r.tail \in Place /\ r.mem \in [Place -> Nat]
      /\ RingSize \in Nat \ {0} /\ Modulus = RingSize + RingSize /\ n <= RingSize
      /\ Next1(first) = Wrap(first + 1, Modulus) /\ Next1(first) \in Num
  BY RingSizeFacts DEF Contents, Rings
<1>2. s.head = r.head /\ s.tail = Wrap(r.tail + 1, RingSize) /\ s.mem = [r.mem EXCEPT ![r.tail] = 0]
  BY <1>1, RingSizeFacts DEF Removed, Rings
<1> HIDE DEF s
<1>3. r.mem[r.tail] = first
  <2>1. 0 \in 0..(n - 1) /\ Wrap(r.tail + 0, RingSize) = r.tail /\ Wrap(first + 0, Modulus) = first
    BY <1>1 DEF Wrap, Place, Num
  <2> QED BY <2>1 DEF Contents
<1>4. s.head = Wrap(s.tail + (n - 1), RingSize)
  BY <1>1, <1>2, SMTT(45) DEF Contents, Wrap, Place
<1>5. next = Wrap(Next1(first) + (n - 1), Modulus)
  BY <1>1 DEF Contents, Wrap, Num
<1>6. ASSUME NEW i \in 0..((n - 1) - 1)
      PROVE  s.mem[Wrap(s.tail + i, RingSize)] = Wrap(Next1(first) + i, Modulus)
  <2>1. PICK j \in 0..(n - 1) : j = i + 1
    OBVIOUS
  <2>2. Wrap(s.tail + i, RingSize) = Wrap(r.tail + j, RingSize)
        /\ Wrap(r.tail + j, RingSize) # r.tail /\ Wrap(r.tail + j, RingSize) \in Place
    <3>1. j \in 1..(RingSize - 1) /\ i = j - 1
      BY <1>1, <2>1
    <3>2. r.tail \in 0..(RingSize - 1)
      BY <1>1 DEF Place
    <3>3. /\ Wrap(Wrap(r.tail + 1, RingSize) + (j - 1), RingSize) = Wrap(r.tail + j, RingSize)
          /\ Wrap(r.tail + j, RingSize) # r.tail /\ Wrap(r.tail + j, RingSize) \in 0..(RingSize - 1)
      BY <1>1, <3>1, <3>2, WrapDown
    <3> QED BY <1>2, <3>1, <3>3 DEF Place
  <2>3. Wrap(Next1(first) + i, Modulus) = Wrap(first + j, Modulus)
    BY <1>1, <2>1 DEF Wrap, Num
  <2>4. s.mem[Wrap(r.tail + j, RingSize)] = r.mem[Wrap(r.tail + j, RingSize)]
    BY <1>1, <1>2, <2>2
  <2> QED BY <2>2, <2>3, <2>4 DEF Contents
<1>7. n - 1 \in 0..RingSize
  BY <1>1
<1> QED BY <1>1, <1>3, <1>4, <1>5, <1>6, <1>7 DEF Contents, s

-----------------------------------------------------------------------------
(* The two rings.  What a call in progress has copied is not in the count,  *)
(* and a buffer that is discarded is not used until it is empty.            *)
Unread == rx.cnt - (IF reader.at = "copy" THEN reader.n ELSE 0)
Unsent == tx.cnt + writer.n

RxRing ==
    /\ heard \in Num /\ taken \in Num
    /\ rx.siz > 0 => Contents(rx, Unread, taken, heard)
    /\ reader.at = "copy" => rx.siz > 0
    /\ reader.at \in {"head", "tail", "cnt", "on"} => rx.siz = 0
    /\ reader.at \in {"tail", "cnt", "on"} => rx.head = 0
    /\ reader.at \in {"cnt", "on"} => rx.tail = 0 /\ heard = taken
    /\ reader.at = "on" => rx.cnt = 0

TxRing ==
    /\ wrote \in Num /\ sent \in Num
    /\ tx.siz > 0 => Contents(tx, Unsent, sent, wrote)
    /\ tx.siz = 0 => tx.cnt = 0
    /\ writer.at \notin {"put", "flush"} => writer.n = 0
    /\ writer.at = "put" => tx.cnt <= writer.avail
    /\ writer.at \in {"off", "head", "tail", "cnt", "on"} => tx.cnt = 0
    /\ writer.at \in {"head", "tail", "cnt", "on"} => tx.siz = 0
    /\ writer.at \in {"tail", "cnt", "on"} => tx.head = 0
    /\ writer.at \in {"cnt", "on"} => tx.tail = 0 /\ wrote = sent

Readers == [at: ReadPlaces, avail: Nat, n: Nat, size: Nat]
Writers == [at: WritePlaces, avail: Nat, n: Nat, size: Nat]

(* What may change in a ring and leaves its contents.                       *)
LEMMA RingFrame ==
  ASSUME NEW r \in Rings, NEW n \in Nat, NEW c
  PROVE  /\ LET s == [r EXCEPT !.cnt = n] IN s.head = r.head /\ s.tail = r.tail /\ s.mem = r.mem
         /\ LET s == [r EXCEPT !.signaled = FALSE] IN
              s.head = r.head /\ s.tail = r.tail /\ s.mem = r.mem /\ s.cnt = r.cnt
         /\ LET s == FromIrq(r, c) IN
              s.head = r.head /\ s.tail = r.tail /\ s.mem = r.mem /\ s.cnt = r.cnt
  BY DEF Rings, FromIrq

LEMMA NewRingFacts ==
  ASSUME NEW r \in Rings
  PROVE  /\ NewRing(r) \in Rings /\ NewRing(r).cnt = 0
         /\ NewRing(r).head = NewRing(r).tail
         /\ ClosedRing(r) \in Rings /\ ClosedRing(r).siz = 0 /\ ClosedRing(r).cnt = r.cnt
  BY RingFacts DEF NewRing, NoRing

LEMMA RxCompleteRing ==
  ASSUME RxInv, RxRing, RxComplete
  PROVE  RxRing'
<1>1. CASE UNCHANGED <<rx, reader, heard, taken>>
  BY <1>1 DEF RxRing, Unread
<1>2. CASE rx.cnt < rx.siz
  <2> DEFINE s == Stored(rx, heard)
             r == [s EXCEPT !.cnt = rx.cnt + 1]
  <2>1. rx \in Rings /\ reader \in Readers /\ heard \in Nat /\ rx.cnt \in Nat /\ rx.siz = RingSize
        /\ rx.siz > 0 /\ Contents(rx, Unread, taken, heard) /\ rx.cnt < RingSize
    BY <1>2, RingSizeFacts DEF RxInv, RxTypeOK, RxRing, Rings, Readers
  <2>2. Unread \in Nat /\ Unread < RingSize
    BY <2>1, RingSizeFacts DEF Unread, RxInv, Readers
  <2>3. s \in Rings /\ s.cnt = rx.cnt /\ s.siz > 0 /\ Contents(s, Unread + 1, taken, Next1(heard))
    BY <2>1, <2>2, StoredFacts, StoredContents
  <2>4. rx.cnt + 1 \in Nat /\ [Stored(rx, heard) EXCEPT !.cnt = @ + 1] = r
    BY <2>1, <2>3
  <2>5. heard' = Next1(heard) /\ taken' = taken
        /\ \/ rx' = FromIrq(r, reader) /\ reader' = Woken(reader) /\ rx.cnt = 0
           \/ rx' = r /\ reader' = reader
    BY <2>1, <2>4, RingSizeFacts, <1>2 DEF RxComplete
  <2> HIDE DEF s
  <2>6. r \in Rings /\ r.cnt = rx.cnt + 1 /\ r.siz = s.siz /\ r.head = s.head /\ r.tail = s.tail /\ r.mem = s.mem
    BY <2>3, <2>4, RingCountFacts, RingFrame
  <2> HIDE DEF r
  <2>7. rx'.cnt = rx.cnt + 1 /\ rx'.siz = s.siz /\ rx'.head = s.head /\ rx'.tail = s.tail /\ rx'.mem = s.mem
    <3>1. CASE rx' = FromIrq(r, reader)
      <4>1. 0 \in Nat
        OBVIOUS
      <4>2. rx'.cnt = r.cnt /\ rx'.siz = r.siz
        BY <2>6, <3>1, PostedFacts
      <4>3. rx'.head = r.head /\ rx'.tail = r.tail /\ rx'.mem = r.mem
        BY <2>6, <3>1, <4>1, RingFrame
      <4> QED BY <2>6, <4>2, <4>3
    <3>2. CASE rx' = r
      BY <2>6, <3>2
    <3> QED BY <2>5, <3>1, <3>2
  <2>8. reader'.n = reader.n /\ (reader'.at = reader.at \/ (reader.at = "asleep" /\ reader'.at = "look"))
    <3>1. Woken(reader).n = reader.n
          /\ (Woken(reader).at = reader.at \/ (reader.at = "asleep" /\ Woken(reader).at = "look"))
      <4>1. CASE reader.at = "asleep"
        BY <2>1, <4>1, WokenFacts DEF Readers
      <4>2. CASE reader.at # "asleep"
        <5>1. Woken(reader) = reader
          BY <2>1, <4>2, WokenFacts DEF Readers
        <5> QED BY <5>1
      <4> QED BY <4>1, <4>2
    <3>2. CASE reader' = Woken(reader)
      BY <3>1, <3>2
    <3>3. CASE reader' = reader
      BY <3>3
    <3> QED BY <2>5, <3>2, <3>3
  <2>9. Unread' = Unread + 1
    BY <2>1, <2>7, <2>8 DEF Unread, Readers
  <2>10. Contents(rx', Unread', taken', heard')
    BY <2>3, <2>5, <2>7, <2>9, SameContents
  <2>11. heard' \in Num /\ taken' \in Num
    BY <2>1, <2>5, RingSizeFacts DEF RxRing
  <2>12. reader.at \notin {"head", "tail", "cnt", "on"}
    BY <2>1 DEF RxRing
  <2> QED BY <2>3, <2>7, <2>8, <2>10, <2>11, <2>12 DEF RxRing
<1> QED BY <1>1, <1>2, RingSizeFacts DEF RxComplete, RxInv, RxTypeOK, Rings

LEMMA ReadCopyRing ==
  ASSUME RxInv, RxRing, ReadCopy
  PROVE  RxRing'
<1>1. rx \in Rings /\ reader \in Readers /\ rx.cnt \in Nat /\ reader.at = "copy"
      /\ reader.n < reader.avail /\ reader.avail <= rx.cnt
  BY DEF RxInv, RxTypeOK, Rings, Readers, ReadCopy, ReaderAt
<1>2. heard' = heard /\ rx' = Removed(rx) /\ taken' = Next1(rx.mem[rx.tail])
      /\ reader' = [reader EXCEPT !.n = reader.n + 1]
  BY DEF ReadCopy
<1>3. Unread \in Nat \ {0}
  BY <1>1 DEF Unread, Readers
<1>4. rx'.siz = rx.siz /\ rx'.cnt = rx.cnt /\ reader'.at = "copy" /\ Unread' = Unread - 1
  <2>1. rx'.siz = rx.siz /\ rx'.cnt = rx.cnt
    BY <1>1, <1>2, RemovedFacts
  <2>2. reader'.at = "copy" /\ reader'.n = reader.n + 1
    BY <1>1, <1>2 DEF Readers
  <2> QED BY <1>1, <2>1, <2>2 DEF Unread, Readers
<1>5. Contents(rx, Unread, taken, heard) /\ rx.siz > 0
  BY <1>1 DEF RxRing
<1>6. rx.mem[rx.tail] = taken /\ Contents(Removed(rx), Unread - 1, Next1(taken), heard)
  BY <1>1, <1>3, <1>5, RemovedContents
<1>7. heard' \in Num /\ taken' \in Num
  BY <1>2, <1>6, RingSizeFacts DEF RxRing
<1> QED BY <1>2, <1>4, <1>5, <1>6, <1>7 DEF RxRing

LEMMA ReadRingKept ==
  ASSUME RxInv, RxRing, ReaderRuns
  PROVE  RxRing'
<1>1. rx \in Rings /\ reader \in Readers /\ rx.cnt \in Nat
  BY DEF RxInv, RxTypeOK, Rings, Readers
<1>2. CASE ReadLook \/ ReadCount \/ ReadStart \/ ReadReturns \/ ReadKick
  <2>1. rx' = rx /\ heard' = heard /\ taken' = taken
    BY <1>2 DEF ReadLook, ReadCount, ReadStart, ReadReturns, ReadKick
  <2>2. reader.at \in {"look", "count", "start", "mark", "kick"}
    BY <1>2 DEF ReadLook, ReadCount, ReadStart, ReadReturns, ReadKick, ReaderAt
  <2>3. /\ reader'.at \in {"idle", "count", "copy", "start", "wait", "kick"}
        /\ reader'.at = "copy" => reader.at = "count" /\ reader'.n = reader.n
    <3>1. CASE ReadLook
      BY <1>1, <3>1 DEF ReadLook, ReadTo, Readers, Idle
    <3>2. CASE ReadCount
      BY <1>1, <3>2 DEF ReadCount, ReaderAt, Readers
    <3>3. CASE ReadStart
      BY <1>1, <3>3 DEF ReadStart, ReadTo, Readers
    <3>4. CASE ReadReturns
      BY <1>1, <3>4 DEF ReadReturns, ReadTo, Readers, Idle
    <3>5. CASE ReadKick
      BY <1>1, <3>5 DEF ReadKick, Idle
    <3> QED BY <1>2, <3>1, <3>2, <3>3, <3>4, <3>5
  <2>5. reader'.at = "copy" => reader'.n = 0 /\ rx.siz > 0
    BY <2>3 DEF RxInv
  <2>6. Unread' = Unread
    BY <1>1, <2>1, <2>2, <2>5 DEF Unread
  <2> QED BY <2>1, <2>3, <2>5, <2>6 DEF RxRing
<1>3. CASE ReadWait
  <2>1. rx' = [rx EXCEPT !.signaled = FALSE] /\ heard' = heard /\ taken' = taken
        /\ reader' = [reader EXCEPT !.at = IF rx.signaled THEN "look" ELSE "asleep"]
        /\ reader.at = "wait"
    BY <1>3 DEF ReadWait, ReadTo, ReaderAt
  <2>2. rx'.head = rx.head /\ rx'.tail = rx.tail /\ rx'.mem = rx.mem /\ rx'.cnt = rx.cnt /\ rx'.siz = rx.siz
    BY <1>1, <2>1, RingFrame, WaitedFacts
  <2>3. reader'.at \in {"look", "asleep"}
    BY <1>1, <2>1 DEF Readers
  <2>4. Unread' = Unread
    BY <2>1, <2>2, <2>3 DEF Unread
  <2> QED BY <2>1, <2>2, <2>3, <2>4, SameContents DEF RxRing
<1>4. CASE ReadCopy
  BY <1>4, ReadCopyRing
<1>5. CASE ReadDone
  <2>1. rx' = [rx EXCEPT !.cnt = rx.cnt - reader.n] /\ heard' = heard /\ taken' = taken
        /\ reader' = [reader EXCEPT !.at = "mark"] /\ reader.at = "copy"
    BY <1>5 DEF ReadDone, ReadTo, ReaderAt
  <2>2. rx.cnt - reader.n \in Nat
    BY <1>1, <2>1 DEF RxInv, Readers
  <2>3. rx'.head = rx.head /\ rx'.tail = rx.tail /\ rx'.mem = rx.mem /\ rx'.siz = rx.siz
        /\ rx'.cnt = rx.cnt - reader.n
    BY <1>1, <2>1, <2>2, RingFrame, RingCountFacts
  <2>4. reader'.at = "mark"
    BY <1>1, <2>1 DEF Readers
  <2>5. Unread' = Unread
    BY <2>1, <2>2, <2>3, <2>4 DEF Unread
  <2> QED BY <2>1, <2>3, <2>4, <2>5, SameContents DEF RxRing
<1>6. CASE ReadDiscard
  <2> DEFINE At(p, q) == reader.at = p /\ reader'.at = q
  <2>0. 0 \in Num /\ RingSize \in Nat
    BY RingSizeFacts
  <2>1. CASE ReaderAt("off") /\ rx' = [rx EXCEPT !.siz = 0] /\ ReadTo("head") /\ UNCHANGED taken
    <3>1. rx'.siz = 0 /\ At("off", "head") /\ heard' = heard /\ taken' = taken
      BY <1>1, <1>6, <2>1 DEF ReaderAt, ReadTo, Readers, Rings, ReadDiscard
    <3> QED BY <3>1 DEF RxRing
  <2>2. CASE ReaderAt("head") /\ rx' = [rx EXCEPT !.head = 0] /\ ReadTo("tail") /\ UNCHANGED taken
    <3>1. rx'.siz = rx.siz /\ rx'.head = 0 /\ At("head", "tail") /\ heard' = heard /\ taken' = taken
      BY <1>1, <1>6, <2>2 DEF ReaderAt, ReadTo, Readers, Rings, ReadDiscard
    <3> QED BY <3>1 DEF RxRing
  <2>3. CASE ReaderAt("tail") /\ rx' = [rx EXCEPT !.tail = 0] /\ ReadTo("cnt") /\ taken' = heard
    <3>1. rx'.siz = rx.siz /\ rx'.head = rx.head /\ rx'.tail = 0 /\ At("tail", "cnt") /\ heard' = heard /\ taken' = heard
      BY <1>1, <1>6, <2>3 DEF ReaderAt, ReadTo, Readers, Rings, ReadDiscard
    <3> QED BY <3>1 DEF RxRing
  <2>4. CASE ReaderAt("cnt") /\ rx' = [rx EXCEPT !.cnt = 0] /\ ReadTo("on") /\ UNCHANGED taken
    <3>1. rx'.siz = rx.siz /\ rx'.head = rx.head /\ rx'.tail = rx.tail /\ rx'.cnt = 0 /\ At("cnt", "on")
          /\ heard' = heard /\ taken' = taken
      BY <1>1, <1>6, <2>4 DEF ReaderAt, ReadTo, Readers, Rings, ReadDiscard
    <3> QED BY <3>1 DEF RxRing
  <2>5. CASE ReaderAt("on") /\ rx' = [rx EXCEPT !.siz = RingSize] /\ ReadTo("kick") /\ UNCHANGED taken
    <3>1. rx'.head = rx.head /\ rx'.tail = rx.tail /\ rx'.cnt = rx.cnt /\ At("on", "kick")
          /\ heard' = heard /\ taken' = taken /\ rx' \in Rings
      BY <1>1, <1>6, <2>5 DEF ReaderAt, ReadTo, Readers, Rings, ReadDiscard
    <3>2. rx'.head = rx'.tail /\ rx'.cnt = 0 /\ heard = taken /\ taken \in Num
      BY <3>1 DEF RxRing
    <3>3. Contents(rx', 0, taken, taken)
      BY <3>1, <3>2, NoContents
    <3>4. Unread' = 0
      BY <3>1, <3>2 DEF Unread
    <3> QED BY <3>1, <3>2, <3>3, <3>4 DEF RxRing
  <2> QED BY <1>6, <2>1, <2>2, <2>3, <2>4, <2>5 DEF ReadDiscard
<1> QED BY <1>2, <1>3, <1>4, <1>5, <1>6 DEF ReaderRuns

LEMMA RxRingKept ==
  ASSUME RxInv, TxInv, RxRing, [UsartNext]_usartVars
  PROVE  RxRing'
<1>0. rx \in Rings /\ reader \in Readers /\ rx.cnt \in Nat
  BY DEF RxInv, RxTypeOK, Rings, Readers
<1>1. CASE UNCHANGED rxVars
  BY <1>1 DEF rxVars, RxRing, Unread
<1>2. CASE RxComplete
  BY <1>2, RxCompleteRing
<1>3. CASE ReaderRuns
  BY <1>3, ReadRingKept
<1>4. CASE UsartRead \/ ReadTimeout
  <2>1. rx' = rx /\ heard' = heard /\ taken' = taken
    BY <1>4 DEF UsartRead, ReadTimeout
  <2>2. reader.at \in {"idle", "asleep"} /\ reader'.at \in {"idle", "count", "off"}
    <3>1. CASE UsartRead
      <4>1. CASE reader' = [Idle EXCEPT !.at = "off"]
        BY <3>1, <4>1 DEF UsartRead, ReaderAt, Idle
      <4>2. ASSUME NEW n \in 1..RingSize, reader' = [Idle EXCEPT !.at = "count", !.size = n]
            PROVE  reader'.at = "count"
        BY <4>2 DEF Idle
      <4> QED BY <3>1, <4>1, <4>2 DEF UsartRead, ReaderAt
    <3>2. CASE ReadTimeout
      BY <3>2 DEF ReadTimeout, Idle
    <3> QED BY <1>4, <3>1, <3>2
  <2>3. Unread' = Unread
    BY <2>1, <2>2 DEF Unread
  <2> QED BY <2>1, <2>2, <2>3 DEF RxRing
<1>5. CASE UsartClose
  <2>1. rx' = [ClosedRing(rx) EXCEPT !.signaled = FALSE] /\ heard' = 0 /\ taken' = 0 /\ reader' = Woken(reader)
        /\ reader.at \in {"idle", "asleep", "look"}
    BY <1>5 DEF UsartClose, Busy
  <2>2. rx'.siz = 0
    BY <1>0, <2>1, NewRingFacts, WaitedFacts
  <2>3. reader'.at \in {"idle", "look"}
    BY <1>0, <2>1, WokenFacts DEF Readers
  <2> QED BY <2>1, <2>2, <2>3, RingSizeFacts DEF RxRing
<1>6. CASE UsartOpen
  <2>1. heard' = 0 /\ taken' = 0 /\ reader' = reader /\ reader.at \in {"idle", "asleep", "look"}
        /\ (rx' = NewRing(rx) \/ rx' = rx) /\ rx.siz = 0
    BY <1>6, RingPlaceFacts DEF UsartOpen, Busy, Rings, RxInv, TxInv, RxTypeOK, TxTypeOK
  <2>2. CASE rx' = rx
    BY <2>1, <2>2, RingSizeFacts DEF RxRing
  <2>3. CASE rx' = NewRing(rx)
    <3>1. Contents(rx', 0, 0, 0) /\ rx'.cnt = 0
      BY <1>0, <2>3, NewRingFacts, NoContents, RingSizeFacts
    <3>2. Unread' = 0
      BY <2>1, <3>1 DEF Unread
    <3> QED BY <2>1, <3>1, <3>2, RingSizeFacts DEF RxRing
  <2> QED BY <2>1, <2>2, <2>3
<1> QED
  BY <1>1, <1>2, <1>3, <1>4, <1>5, <1>6
  DEF UsartNext, usartVars, Interrupt, RxControl, TxEmpty, Transmitted, UsartWrite, UsartIOCtl,
      WriteTimeout, WriterRuns, PutCharacter, PutFlush, Flush, FlushStart, FlushWait, FlushLook,
      WriteDone, WriteReturns, WriteDiscard, rxVars

LEMMA TxNextRing ==
  ASSUME TxInv, TxRing, tx.cnt > 0, TxNext
  PROVE  TxRing'
<1> DEFINE s == Removed(tx)
           r == [s EXCEPT !.cnt = tx.cnt - 1]
<1>1. tx \in Rings /\ writer \in Writers /\ tx.cnt \in Nat /\ tx.siz > 0 /\ writer.n \in Nat
  BY RingSizeFacts DEF TxInv, TxTypeOK, TxRing, Rings, Writers
<1>2. Unsent \in Nat \ {0} /\ Contents(tx, Unsent, sent, wrote)
  BY <1>1 DEF Unsent, TxRing
<1>3. tx.mem[tx.tail] = sent /\ Contents(s, Unsent - 1, Next1(sent), wrote)
  BY <1>1, <1>2, RemovedContents
<1>4. s \in Rings /\ s.cnt = tx.cnt /\ s.siz = tx.siz
  BY <1>1, RemovedFacts
<1>5. /\ sent' = Next1(sent) /\ wrote' = wrote
      /\ \/ tx' = FromIrq(r, writer) /\ writer' = Woken(writer)
         \/ tx' = r /\ writer' = writer
  BY <1>3, <1>4 DEF TxNext
<1> HIDE DEF s
<1>6. r \in Rings /\ r.cnt = tx.cnt - 1 /\ r.siz = tx.siz /\ r.head = s.head /\ r.tail = s.tail /\ r.mem = s.mem
  <2>1. tx.cnt - 1 \in Nat
    BY <1>1
  <2> QED BY <1>4, <2>1, RingCountFacts, RingFrame
<1> HIDE DEF r
<1>7. tx'.cnt = tx.cnt - 1 /\ tx'.siz = tx.siz /\ tx'.head = s.head /\ tx'.tail = s.tail /\ tx'.mem = s.mem
  <2>1. CASE tx' = FromIrq(r, writer)
    <3>1. 0 \in Nat
      OBVIOUS
    <3>2. tx'.cnt = r.cnt /\ tx'.siz = r.siz
      BY <1>6, <2>1, PostedFacts
    <3>3. tx'.head = r.head /\ tx'.tail = r.tail /\ tx'.mem = r.mem
      BY <1>6, <2>1, <3>1, RingFrame
    <3> QED BY <1>6, <3>2, <3>3
  <2>2. CASE tx' = r
    BY <1>6, <2>2
  <2> QED BY <1>5, <2>1, <2>2
<1>8. /\ writer'.n = writer.n /\ writer'.avail = writer.avail
      /\ writer'.at = writer.at \/ (writer.at = "asleep" /\ writer'.at = "look")
  BY <1>1, <1>5 DEF Woken, Writers
<1>9. Unsent' = Unsent - 1
  BY <1>1, <1>7, <1>8 DEF Unsent
<1>10. Contents(tx', Unsent', sent', wrote')
  BY <1>3, <1>5, <1>7, <1>9, SameContents
<1>11. wrote' \in Num /\ sent' \in Num
  BY <1>5, RingSizeFacts DEF TxRing
<1>12. writer.at \notin {"off", "head", "tail", "cnt", "on"}
  BY <1>1 DEF TxRing
<1>13. writer.at = "put" => tx'.cnt <= writer.avail
  BY <1>1, <1>7 DEF TxRing, Writers
<1> QED BY <1>1, <1>7, <1>8, <1>10, <1>11, <1>12, <1>13 DEF TxRing

(* What leaves the contents, and the writer outside of UsartPut().          *)
LEMMA TxSame ==
  ASSUME TxRing, UNCHANGED <<wrote, sent>>,
         tx'.siz = tx.siz, tx'.head = tx.head, tx'.tail = tx.tail, tx'.mem = tx.mem,
         tx.cnt \in Nat, tx'.cnt \in Nat, writer.n \in Nat, writer'.n \in Nat,
         tx'.cnt + writer'.n = tx.cnt + writer.n, tx.siz = 0 => tx'.cnt = 0,
         writer'.at \notin {"put", "flush"} => writer'.n = 0,
         writer'.at = "put" => tx'.cnt <= writer'.avail,
         \/ writer'.at \notin {"off", "head", "tail", "cnt", "on"}
         \/ writer'.at = "off" /\ tx'.cnt = 0
  PROVE  TxRing'
<1>1. Unsent' = Unsent
  BY DEF Unsent
<1>2. tx'.siz > 0 => Contents(tx', Unsent', sent', wrote')
  BY <1>1, SameContents DEF TxRing
<1> QED BY <1>2 DEF TxRing

LEMMA WriterRingKept ==
  ASSUME TxInv, TxRing, WriterRuns
  PROVE  TxRing'
<1>1. tx \in Rings /\ writer \in Writers /\ tx.cnt \in Nat /\ writer.n \in Nat /\ writer.avail \in Nat
      /\ writer.size \in Nat /\ tx.siz \in {0, RingSize}
  BY DEF TxInv, TxTypeOK, Rings, Writers
<1>2. CASE PutCharacter
  <2>1. /\ tx' = Stored(tx, wrote) /\ wrote' = Next1(wrote) /\ sent' = sent
        /\ writer' = [writer EXCEPT !.n = writer.n + 1, !.size = writer.size - 1]
        /\ writer.at = "put" /\ writer.avail + writer.n < HighMark
    BY <1>2 DEF PutCharacter, WriterAt
  <2>2. tx.siz > 0 /\ tx.cnt <= writer.avail /\ Contents(tx, Unsent, sent, wrote) /\ wrote \in Num
    BY <2>1 DEF TxInv, TxRing
  <2>3. Unsent \in Nat /\ Unsent < RingSize
    BY <1>1, <2>1, <2>2 DEF Unsent
  <2>4. Contents(tx', Unsent + 1, sent', wrote')
    BY <1>1, <2>1, <2>2, <2>3, StoredContents
  <2>5. tx'.cnt = tx.cnt /\ tx'.siz = tx.siz
    BY <1>1, <2>1, <2>2, RingSizeFacts, StoredFacts
  <2>6. writer'.n = writer.n + 1 /\ writer'.at = "put" /\ writer'.avail = writer.avail
    BY <1>1, <2>1 DEF Writers
  <2>7. Unsent' = Unsent + 1
    BY <1>1, <2>5, <2>6 DEF Unsent
  <2>8. wrote' \in Num /\ sent' \in Num
    BY <2>1, <2>2, RingSizeFacts DEF TxRing
  <2> QED BY <2>2, <2>4, <2>5, <2>6, <2>7, <2>8 DEF TxRing
<1>3. CASE PutFlush \/ FlushStart \/ FlushLook
  <2>1. tx' = tx /\ wrote' = wrote /\ sent' = sent /\ writer.at \in {"put", "start", "look"}
        /\ \E p \in {"flush", "wait"} : /\ writer' = [writer EXCEPT !.at = p]
                                        /\ p = "wait" => writer.at = "start"
    BY <1>3 DEF PutFlush, FlushStart, FlushLook, WriteTo, WriterAt
  <2>2. writer'.n = writer.n /\ writer'.at \in {"flush", "wait"}
        /\ (writer'.at = "wait" => writer.at = "start")
    BY <1>1, <2>1 DEF Writers
  <2>3. writer'.at \notin {"put", "flush"} => writer'.n = 0
    BY <2>2 DEF TxRing
  <2>4. tx.siz = 0 => tx.cnt = 0
    BY DEF TxRing
  <2> QED BY <1>1, <2>1, <2>2, <2>3, <2>4, TxSame
<1>4. CASE Flush
  <2> DEFINE c == tx.cnt + writer.n
             p == IF c > Remaining THEN "start" ELSE IF writer.size = 0 THEN "idle" ELSE "put"
  <2>1. tx' = [tx EXCEPT !.cnt = c] /\ writer' = [writer EXCEPT !.n = 0, !.avail = c, !.at = p]
        /\ wrote' = wrote /\ sent' = sent /\ writer.at = "flush"
    BY <1>4 DEF Flush, WriterAt
  <2>2. c \in Nat /\ c = tx.cnt + writer.n
    BY <1>1
  <2>3. p \in {"start", "idle", "put"}
    OBVIOUS
  <2> HIDE DEF c, p
  <2>4. tx'.head = tx.head /\ tx'.tail = tx.tail /\ tx'.mem = tx.mem /\ tx'.siz = tx.siz /\ tx'.cnt = c
    BY <1>1, <2>1, <2>2, RingFrame, RingCountFacts
  <2>5. writer'.n = 0 /\ writer'.avail = c /\ writer'.at \in {"start", "idle", "put"}
    BY <1>1, <2>1, <2>3 DEF Writers
  <2>6. tx.siz # 0
    BY <2>1, RingSizeFacts DEF TxInv
  <2> QED BY <1>1, <2>1, <2>2, <2>4, <2>5, <2>6, TxSame
<1>5. CASE FlushWait
  <2>1. tx' = [tx EXCEPT !.signaled = FALSE] /\ wrote' = wrote /\ sent' = sent
        /\ writer' = [writer EXCEPT !.at = IF tx.signaled THEN "look" ELSE "asleep"]
        /\ writer.at = "wait"
    BY <1>5 DEF FlushWait, WriteTo, WriterAt
  <2>2. tx'.head = tx.head /\ tx'.tail = tx.tail /\ tx'.mem = tx.mem /\ tx'.cnt = tx.cnt /\ tx'.siz = tx.siz
    BY <1>1, <2>1, RingFrame, WaitedFacts
  <2>3. writer'.at \in {"look", "asleep"} /\ writer'.n = writer.n /\ writer.n = 0
    BY <1>1, <2>1 DEF Writers, TxRing
  <2>4. tx.siz = 0 => tx.cnt = 0
    BY DEF TxRing
  <2> QED BY <1>1, <2>1, <2>2, <2>3, <2>4, TxSame
<1>6. CASE WriteDone
  <2>1. tx' = [tx EXCEPT !.cnt = tx.cnt + writer.n] /\ wrote' = wrote /\ sent' = sent
        /\ writer' = [Idle EXCEPT !.at = "kick"] /\ writer.at = "put"
    BY <1>6 DEF WriteDone, WriterAt
  <2>2. tx.cnt + writer.n \in Nat
    BY <1>1
  <2>3. tx'.head = tx.head /\ tx'.tail = tx.tail /\ tx'.mem = tx.mem /\ tx'.siz = tx.siz
        /\ tx'.cnt = tx.cnt + writer.n
    BY <1>1, <2>1, <2>2, RingFrame, RingCountFacts
  <2>4. writer'.at = "kick" /\ writer'.n = 0
    BY <2>1 DEF Idle
  <2>5. tx.siz # 0
    BY <2>1, RingSizeFacts DEF TxInv
  <2> QED BY <1>1, <2>1, <2>2, <2>3, <2>4, <2>5, TxSame
<1>7. CASE WriteReturns
  <2>1. tx' = tx /\ wrote' = wrote /\ sent' = sent /\ writer' = Idle /\ writer.at = "kick"
    BY <1>7 DEF WriteReturns, WriterAt
  <2>2. writer'.n = 0 /\ writer'.at = "idle" /\ writer.n = 0
    BY <2>1 DEF Idle, TxRing
  <2>3. tx.siz = 0 => tx.cnt = 0
    BY DEF TxRing
  <2> QED BY <1>1, <2>1, <2>2, <2>3, TxSame
<1>8. CASE WriteDiscard
  <2> DEFINE At(p, q) == writer.at = p /\ writer'.at = q /\ writer'.n = writer.n
  <2>0. 0 \in Num /\ RingSize \in Nat
    BY RingSizeFacts
  <2>1. CASE WriterAt("off") /\ tx' = [tx EXCEPT !.siz = 0] /\ WriteTo("head") /\ UNCHANGED sent
    <3>1. tx'.siz = 0 /\ tx'.cnt = tx.cnt /\ At("off", "head") /\ wrote' = wrote /\ sent' = sent
      BY <1>1, <1>8, <2>1 DEF WriterAt, WriteTo, Writers, Rings, WriteDiscard
    <3> QED BY <3>1 DEF TxRing
  <2>2. CASE WriterAt("head") /\ tx' = [tx EXCEPT !.head = 0] /\ WriteTo("tail") /\ UNCHANGED sent
    <3>1. tx'.siz = tx.siz /\ tx'.cnt = tx.cnt /\ tx'.head = 0 /\ At("head", "tail") /\ wrote' = wrote /\ sent' = sent
      BY <1>1, <1>8, <2>2 DEF WriterAt, WriteTo, Writers, Rings, WriteDiscard
    <3> QED BY <3>1 DEF TxRing
  <2>3. CASE WriterAt("tail") /\ tx' = [tx EXCEPT !.tail = 0] /\ WriteTo("cnt") /\ sent' = wrote
    <3>1. tx'.siz = tx.siz /\ tx'.cnt = tx.cnt /\ tx'.head = tx.head /\ tx'.tail = 0 /\ At("tail", "cnt")
          /\ wrote' = wrote /\ sent' = wrote
      BY <1>1, <1>8, <2>3 DEF WriterAt, WriteTo, Writers, Rings, WriteDiscard
    <3> QED BY <3>1 DEF TxRing
  <2>4. CASE WriterAt("cnt") /\ tx' = [tx EXCEPT !.cnt = 0] /\ WriteTo("on") /\ UNCHANGED sent
    <3>1. tx'.siz = tx.siz /\ tx'.head = tx.head /\ tx'.tail = tx.tail /\ tx'.cnt = 0 /\ At("cnt", "on")
          /\ wrote' = wrote /\ sent' = sent
      BY <1>1, <1>8, <2>4 DEF WriterAt, WriteTo, Writers, Rings, WriteDiscard
    <3> QED BY <3>1 DEF TxRing
  <2>5. CASE WriterAt("on") /\ tx' = [tx EXCEPT !.siz = RingSize] /\ writer' = Idle /\ UNCHANGED sent
    <3>1. tx'.head = tx.head /\ tx'.tail = tx.tail /\ tx'.cnt = tx.cnt /\ tx'.siz = RingSize /\ tx' \in Rings
          /\ wrote' = wrote /\ sent' = sent /\ writer.at = "on"
      BY <1>1, <1>8, <2>5 DEF WriterAt, Rings, WriteDiscard
    <3>2. writer'.at = "idle" /\ writer'.n = 0
      BY <2>5 DEF Idle
    <3>3. tx'.head = tx'.tail /\ tx'.cnt = 0 /\ wrote = sent /\ sent \in Num
      BY <3>1 DEF TxRing
    <3>4. Contents(tx', 0, sent, sent)
      BY <3>1, <3>3, NoContents
    <3>5. Unsent' = 0
      BY <3>2, <3>3 DEF Unsent
    <3> QED BY <3>1, <3>2, <3>3, <3>4, <3>5, RingSizeFacts DEF TxRing
  <2> QED BY <1>8, <2>1, <2>2, <2>3, <2>4, <2>5 DEF WriteDiscard
<1> QED BY <1>2, <1>3, <1>4, <1>5, <1>6, <1>7, <1>8 DEF WriterRuns

LEMMA TxRingKept ==
  ASSUME RxInv, TxInv, TxRing, ~Hasty, [UsartNext]_usartVars
  PROVE  TxRing'
<1>1. tx \in Rings /\ writer \in Writers /\ tx.cnt \in Nat /\ writer.n \in Nat /\ writer.avail \in Nat
      /\ tx.siz \in {0, RingSize} /\ (tx.siz = 0 => tx.cnt = 0)
  BY DEF TxInv, TxTypeOK, Rings, Writers, TxRing
<1>2. CASE UNCHANGED <<tx, writer, wrote, sent>>
  BY <1>2 DEF TxRing, Unsent
<1>3. CASE TxEmpty /\ TxNext /\ tx.cnt > 0
  BY <1>3, TxNextRing
<1>4. CASE TxDone
  <2>1. tx' = FromIrq(tx, writer) /\ writer' = Woken(writer) /\ wrote' = wrote /\ sent' = sent
    BY <1>4 DEF TxDone
  <2>2. tx'.head = tx.head /\ tx'.tail = tx.tail /\ tx'.mem = tx.mem /\ tx'.cnt = tx.cnt /\ tx'.siz = tx.siz
    BY <1>1, <2>1, RingFrame, PostedFacts, ZenonT(60)
  <2>3. /\ writer'.n = writer.n /\ writer'.avail = writer.avail
        /\ writer'.at = writer.at \/ (writer.at = "asleep" /\ writer'.at = "look")
    BY <1>1, <2>1 DEF Woken, Writers
  <2>4. Unsent' = Unsent
    BY <2>2, <2>3 DEF Unsent
  <2>5. tx'.siz > 0 => Contents(tx', Unsent', sent', wrote')
    BY <2>1, <2>2, <2>4, SameContents DEF TxRing
  <2> QED BY <2>1, <2>2, <2>3, <2>5 DEF TxRing
<1>5. CASE WriterRuns
  BY <1>5, WriterRingKept
<1>6. CASE UsartWrite
  <2>1. tx' = tx /\ wrote' = wrote /\ sent' = sent /\ writer.at = "idle"
    BY <1>6 DEF UsartWrite, WriterAt
  <2>2. \E n \in 0..PutMax : writer' = [at |-> IF n > 0 THEN "put" ELSE "flush",
                                        avail |-> tx.cnt, n |-> 0, size |-> n]
    BY <1>6 DEF UsartWrite, Idle
  <2>3. writer'.at \in {"put", "flush"} /\ writer'.n = 0 /\ writer'.avail = tx.cnt
    BY <2>2
  <2>4. writer.n = 0
    BY <2>1 DEF TxRing
  <2> QED BY <1>1, <2>1, <2>3, <2>4, TxSame
<1>7. CASE UsartIOCtl
  <2>1. tx' = tx /\ wrote' = wrote /\ sent' = sent /\ writer.at = "idle" /\ tx.cnt = 0
        /\ writer' = [writer EXCEPT !.at = "off"]
    BY <1>7 DEF UsartIOCtl, WriterAt, WriteTo
  <2>2. writer'.at = "off" /\ writer'.n = writer.n /\ writer.n = 0
    BY <1>1, <2>1 DEF Writers, TxRing
  <2> QED BY <1>1, <2>1, <2>2, TxSame
<1>8. CASE WriteTimeout
  <2>1. tx' = tx /\ wrote' = wrote /\ sent' = sent /\ writer.at = "asleep" /\ writer' = Idle
    BY <1>8 DEF WriteTimeout
  <2>2. writer'.at = "idle" /\ writer'.n = 0 /\ writer.n = 0
    BY <2>1 DEF Idle, TxRing
  <2> QED BY <1>1, <2>1, <2>2, TxSame
<1>9. CASE UsartClose
  <2>1. tx' = ClosedRing(tx) /\ wrote' = 0 /\ sent' = 0 /\ writer' = writer
        /\ tx.cnt = 0 /\ writer.at = "idle"
    BY <1>9 DEF UsartClose
  <2>2. tx'.siz = 0 /\ tx'.cnt = 0
    BY <1>1, <2>1, NewRingFacts
  <2> QED BY <2>1, <2>2, RingSizeFacts DEF TxRing
<1>10. CASE UsartOpen
  <2>1. tx.siz = 0
    BY <1>10, <1>1, RingPlaceFacts DEF UsartOpen, RxInv, RxTypeOK, Rings
  <2>2. wrote' = 0 /\ sent' = 0 /\ writer' = writer /\ writer.at \in {"idle", "asleep", "look"}
        /\ (tx' = NewRing(tx) \/ tx' = tx)
    BY <1>10 DEF UsartOpen, Busy
  <2>3. CASE tx' = tx
    BY <2>1, <2>2, <2>3, RingSizeFacts DEF TxRing
  <2>4. CASE tx' = NewRing(tx)
    <3>1. Contents(tx', 0, 0, 0) /\ tx'.cnt = 0
      BY <1>1, <2>4, NewRingFacts, NoContents, RingSizeFacts
    <3>2. writer.n = 0
      BY <2>2 DEF TxRing
    <3>3. Unsent' = 0
      BY <2>2, <3>1, <3>2 DEF Unsent
    <3> QED BY <2>2, <3>1, <3>2, <3>3, RingSizeFacts DEF TxRing
  <2> QED BY <2>2, <2>3, <2>4
<1> QED
  BY <1>2, <1>3, <1>4, <1>5, <1>6, <1>7, <1>8, <1>9, <1>10
  DEF UsartNext, usartVars, Interrupt, RxComplete, RxControl, TxEmpty, TxControl, TxStopped, Transmitted,
      UsartRead, ReadTimeout, ReaderRuns, ReadLook, ReadCount, ReadStart, ReadWait, ReadCopy, ReadDone,
      ReadReturns, ReadKick, ReadDiscard, txVars

LEMMA InitRings == UsartInit => RxRing /\ TxRing
<1> SUFFICES ASSUME UsartInit PROVE RxRing /\ TxRing
  OBVIOUS
<1>1. /\ heard = 0 /\ taken = 0 /\ wrote = 0 /\ sent = 0 /\ reader = Idle /\ writer = Idle
      /\ rx \in {NewRing(NoRing), NoRing} /\ tx \in {NewRing(NoRing), NoRing}
  BY DEF UsartInit
<1>2. ASSUME NEW r \in {NewRing(NoRing), NoRing}
      PROVE  r.cnt = 0 /\ (r.siz > 0 => Contents(r, 0, 0, 0))
  BY <1>2, RingFacts, NewRingFacts, NoContents, RingSizeFacts
<1>3. Unread = 0 /\ Unsent = 0
  BY <1>1, <1>2 DEF Unread, Unsent, Idle
<1>4. reader.at = "idle" /\ writer.at = "idle" /\ writer.n = 0
  BY <1>1 DEF Idle
<1> QED BY <1>1, <1>2, <1>3, <1>4, RingSizeFacts DEF RxRing, TxRing

(* Both rings are queues: characters come out of AvrUsartRxComplete()'s     *)
(* buffer and out of UsartPut()'s in the order they went in, none twice and *)
(* none overwritten, although the interrupts change the counts between the  *)
(* driver's look at them and its update.                                    *)
THEOREM RingsAreQueues ==
  ASSUME ~Hasty
  PROVE  UsartSpec => []RingsKept
<1> DEFINE Inv == UsartInv /\ RxRing /\ TxRing
<1>1. UsartInit => Inv
  BY InitKept, InitRings
<1>2. Inv /\ [UsartNext]_usartVars => Inv'
  <2> SUFFICES ASSUME Inv, [UsartNext]_usartVars PROVE Inv'
    OBVIOUS
  <2>1. RxInv /\ TxInv /\ RxRing /\ TxRing
    BY DEF UsartInv
  <2>2. RxInv' /\ TxInv' /\ RxRing' /\ TxRing'
    BY <2>1, RxKept, TxKept, RxRingKept, TxRingKept
  <2> QED BY <2>2 DEF UsartInv
<1>3. Inv => RingsKept
  <2> SUFFICES ASSUME Inv PROVE RingsKept
    OBVIOUS
  <2>1. rx \in Rings /\ tx \in Rings
    BY DEF UsartInv, RxInv, TxInv, RxTypeOK, TxTypeOK
  <2>2. rx.siz > 0 => Holds(rx, Unread, taken) /\ heard = (taken + Unread) % Modulus
    BY <2>1, ContentsHeld DEF RxRing
  <2>3. tx.siz > 0 => Holds(tx, Unsent, sent) /\ wrote = (sent + Unsent) % Modulus
    BY <2>1, ContentsHeld DEF TxRing
  <2> QED BY ONLY <2>2, <2>3 DEF RingsKept, Unread, Unsent
<1> HIDE DEF Inv
<1> QED BY <1>1, <1>2, <1>3, PTL DEF UsartSpec
=============================================================================
