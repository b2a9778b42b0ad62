----------------------------- MODULE FuelProofs -----------------------------
(***************************************************************************)
(* What the drivers' arithmetic gives for every unit price, volume and     *)
(* total; and of the fuel module at a dispenser, for every set of nozzles, *)
(* every number and amount of sales, every price and all delays of the     *)
(* drivers: what is published are the sales that are over, with their      *)
(* amounts, once and in order, none is forgotten, and the module is woken  *)
(* again as long as a transaction is not over.                             *)
(***************************************************************************)
EXTENDS FuelStation, FiniteSetTheorems, TLAPS

-----------------------------------------------------------------------------
(* The arithmetic of a frame.                                              *)

Frames == [unit : Nat, volume : Nat, total : Nat]

\* The expected total is a number.
LEMMA ExpectedNat == ASSUME NEW d \in Frames PROVE Expected(d) \in Nat
<1> DEFINE p == d.unit * d.volume
<1>1. d.unit \in Nat /\ d.volume \in Nat BY DEF Frames
<1>2. p \in Nat BY <1>1
<1> HIDE DEF p
<1>3. p \div 1000 \in Nat BY <1>2
<1> QED BY <1>3 DEF Expected, p

\* The constants of the display.
LEMMA RolloverNat == Rollover \in Nat /\ Rollover >= 1 /\ LeastUnit \in Nat /\ LeastUnit >= 1
BY SMT DEF Rollover, LeastUnit

LEMMA RolloverLarge == Rollover > 100
BY SMT DEF Rollover

LEMMA RolloverThousands ==
  ASSUME NEW k \in Nat PROVE 1000 * k \in Nat /\ k * Rollover = 1000 * (1000 * k)
<1>1. Rollover = 1000 * 1000 BY SMT DEF Rollover
<1> QED BY <1>1

\* Of multiples.
LEMMA Less == ASSUME NEW a \in Nat, NEW b \in Nat, NEW r \in Nat, a * r < b * r
              PROVE a < b
<1>1. CASE a >= b
  <2>1. PICK c \in Nat : a = b + c
    <3>1. a - b \in Nat /\ a = b + (a - b) BY <1>1
    <3> QED BY <3>1
  <2>2. a * r = b * r + c * r /\ c * r \in Nat /\ b * r \in Nat BY <2>1, Z3
  <2> QED BY <2>2
<1> QED BY <1>1

LEMMA Times == ASSUME NEW w \in Nat, NEW r \in Nat, w # 0
               PROVE w * r \in Nat /\ w * r >= r
BY Z3

LEMMA Division == ASSUME NEW e \in Nat, NEW r \in Nat, r >= 1
                  PROVE /\ e \div r \in Nat /\ e % r \in Nat /\ e % r < r
                        /\ e = (e \div r) * r + (e % r)
BY Z3

\* "Works for any number of wraps": Sanki's driver recovers from what a display of six
\* digits shows the exact price, however often the display has rolled over, unless the
\* digits shown are all zero.
THEOREM SankiWrapsExact ==
  ASSUME Driver = "sanki", NEW d \in Frames, d.unit >= LeastUnit, d.volume > 0,
         d.total = Expected(d) % Rollover, d.total # 0
  PROVE  Accepted(d) /\ Total(d) = Expected(d)
<1> DEFINE e == Expected(d)
           w == e \div Rollover
<1>1. e \in Nat BY ExpectedNat
<1>2. /\ d.unit \in Nat /\ d.volume \in Nat /\ d.total \in Nat
      /\ LeastUnit \in Nat /\ Rollover \in Nat /\ Rollover >= 1
  BY RolloverNat DEF Frames
<1>3. /\ w \in Nat /\ d.total < Rollover /\ e = w * Rollover + d.total
  BY <1>1, <1>2, Division
<1>4. Tolerance = 1 BY DEF Tolerance
<1>5. Wraps(e) = w BY DEF Wraps
<1> HIDE DEF w
<1>6. CASE w = 0
  <2>1. e = d.total BY <1>1, <1>2, <1>3, <1>6
  <2>2. Within(d, d.total, Tolerance) BY <2>1, <1>1, <1>2, <1>4 DEF Within
  <2>3. Total(d) = d.total BY <2>2 DEF Total
  <2> QED BY <2>1, <2>2, <2>3, <1>2 DEF Accepted
<1>7. CASE w # 0
  <2> DEFINE m == w * Rollover
  <2>1. m \in Nat /\ m >= Rollover BY <1>2, <1>3, <1>7, Times
  <2>2. e = m + d.total BY <1>3
  <2>3. d.total + Wraps(Expected(d)) * Rollover = d.total + m BY <1>5
  <2> HIDE DEF m, e
  <2>4. e >= Rollover /\ e - d.total = m BY <2>1, <2>2, <1>1, <1>2, <1>3
  <2>5. m > 1 BY <2>1, RolloverLarge, <1>2
  <2>6. ~Within(d, d.total, Tolerance) BY <2>1, <2>4, <2>5, <1>4 DEF Within, e
  <2>7. Total(d) = d.total + Wraps(Expected(d)) * Rollover
    BY <2>4, <2>6, <1>2 DEF Total, e
  <2>8. Total(d) = e BY <2>2, <2>3, <2>7, <2>1, <1>1, <1>2
  <2>9. Within(d, Total(d), 100) BY <2>8, <1>1 DEF Within, e
  <2>10. Total(d) # 0 BY <2>8, <2>4, <1>1, <1>2
  <2> QED BY <2>4, <2>8, <2>9, <2>10, <1>2 DEF Accepted, e
<1> QED BY <1>6, <1>7

\* A pass of the fuel module without a new frame runs the driver on the total that it
\* corrected before: an exact total stays what it is.
THEOREM ExactStays ==
  ASSUME NEW d \in Frames, d.unit >= LeastUnit, d.volume > 0,
         d.total = Expected(d), d.total # 0
  PROVE  Accepted(d) /\ Total(d) = d.total
<1>1. Expected(d) \in Nat /\ d.total \in Nat /\ d.volume \in Nat
  BY ExpectedNat DEF Frames
<1>2. Within(d, d.total, Tolerance) BY <1>1 DEF Within, Tolerance
<1>3. Total(d) = d.total BY <1>2 DEF Total
<1> QED BY <1>1, <1>2, <1>3 DEF Accepted

\* Whatever digits the display shows, a total that a driver accepts is at most one rupee
\* below what volume and unit price give, and never above it, unless the display shows
\* no price at all.
THEOREM AcceptedIsNear ==
  ASSUME NEW d \in Frames, Accepted(d), d.total # 0
  PROVE  Expected(d) - Total(d) \in 0..100
<1>1. Expected(d) \in Nat /\ d.total \in Nat BY ExpectedNat DEF Frames
<1>2. CASE Within(d, d.total, Tolerance)
  <2>1. Total(d) = d.total BY <1>2 DEF Total
  <2>2. Expected(d) - d.total \in 0..9 BY <1>2, <1>1 DEF Within, Tolerance
  <2> QED BY <2>1, <2>2, <1>1
<1>3. CASE ~Within(d, d.total, Tolerance)
  <2>1. Within(d, Total(d), 100) BY <1>3 DEF Accepted
  <2> QED BY <2>1 DEF Within
<1> QED BY <1>2, <1>3

\* Wraps counted ten at a time are no more than those counted one by one.
LEMMA TenTimes ==
  ASSUME NEW e \in Nat, NEW r \in Nat, r >= 1, e >= 10 * r
  PROVE  /\ e \div (10 * r) \in Nat /\ e \div (10 * r) >= 1
         /\ e \div r >= 10 * (e \div (10 * r))
<1> DEFINE v == e \div (10 * r)
           w == e \div r
           m == 10 * r
<1>1. m \in Nat /\ m >= 1 /\ e >= m OBVIOUS
<1>2. v \in Nat /\ e % m \in Nat /\ e % m < m /\ e = v * m + (e % m) BY <1>1, Division
<1>3. w \in Nat /\ e % r \in Nat /\ e % r < r /\ e = w * r + (e % r) BY Division
<1>4. v >= 1
  <2> HIDE DEF v, m
  <2>1. CASE v = 0 BY <1>1, <1>2, <2>1
  <2> QED BY <1>2, <2>1
<1>5. v * m = (10 * v) * r BY <1>2
<1>6. (10 * v) * r <= e
  <2> HIDE DEF v, m
  <2>1. v * m \in Nat BY <1>1, <1>2
  <2> QED BY <1>2, <1>5, <2>1
<1>7. e < (w + 1) * r
  <2> HIDE DEF w
  <2>1. w * r \in Nat /\ (w + 1) * r = w * r + r BY <1>3
  <2> QED BY <1>3, <2>1
<1> HIDE DEF v, w, m
<1>8. 10 * v < w + 1 BY <1>2, <1>3, <1>6, <1>7, Less
<1> QED BY <1>2, <1>3, <1>4, <1>8 DEF v, w, m

\* The drivers of the other pumps reject what the display first shows of a sale of 100,000
\* rupees or more, unless the digits are all zero: they count the rollovers as if there was
\* one in 10,000,000 and add 1,000,000 for each.  The display may roll over at either.
THEOREM OthersRejectLarge ==
  ASSUME Driver # "sanki", NEW d \in Frames, Expected(d) >= 10 * Rollover,
         \/ d.total = Expected(d) % Rollover
         \/ d.total = Expected(d) % (10 * Rollover),
         d.total # 0
  PROVE  ~Accepted(d)
<1> DEFINE e == Expected(d)
           v == e \div (10 * Rollover)
           a == v * Rollover
<1>1. e \in Nat /\ d.total \in Nat /\ d.volume \in Nat BY ExpectedNat DEF Frames
<1>2. Rollover \in Nat /\ Rollover >= 1 /\ 10 * Rollover \in Nat /\ 10 * Rollover >= 1
  BY RolloverNat
<1>3. v \in Nat /\ v >= 1 BY <1>1, <1>2, TenTimes
<1>4. Wraps(e) = v BY DEF Wraps
<1>5. \E m \in Nat : m >= Rollover /\ e = d.total + a + m
  <2>1. CASE d.total = e % Rollover
    <3> DEFINE w == e \div Rollover
               g == w - v
               m == g * Rollover
    <3>1. w \in Nat /\ e = w * Rollover + d.total BY <1>1, <1>2, <2>1, Division
    <3>2. w >= 10 * v BY <1>1, <1>2, TenTimes
    <3> HIDE DEF v, w
    <3>3. g \in Nat /\ g # 0 BY <1>3, <3>1, <3>2
    <3>4. w * Rollover = m + a /\ a \in Nat /\ w * Rollover \in Nat
      BY <1>2, <1>3, <3>1, Z3
    <3> HIDE DEF g
    <3>5. m \in Nat /\ m >= Rollover BY <1>2, <3>3, Times
    <3> HIDE DEF m, a
    <3>6. e = d.total + a + m BY <1>1, <3>1, <3>4, <3>5
    <3> QED BY <3>5, <3>6
  <2>2. CASE d.total = e % (10 * Rollover)
    <3> DEFINE m == 9 * a
    <3>1. e = v * (10 * Rollover) + d.total BY <1>1, <1>2, <2>2, Division
    <3> HIDE DEF v
    <3>2. a \in Nat /\ a >= Rollover BY <1>2, <1>3, Times
    <3>3. v * (10 * Rollover) = a + m BY <1>2, <1>3, Z3
    <3> HIDE DEF a
    <3>4. m \in Nat /\ m >= Rollover /\ e = d.total + a + m
      BY <1>1, <1>2, <3>1, <3>2, <3>3
    <3> QED BY <3>4
  <2> QED BY <2>1, <2>2
<1>6. PICK m \in Nat : m >= Rollover /\ e = d.total + a + m BY <1>5
<1>7. a \in Nat BY <1>2, <1>3, Times
<1>8. m > 100 BY <1>2, <1>6, RolloverLarge
<1> HIDE DEF v, a
<1>9. e - d.total >= m /\ e - (d.total + a) = m BY <1>1, <1>6, <1>7
<1>10. ~Within(d, d.total, Tolerance) BY <1>1, <1>8, <1>9 DEF Within, Tolerance
<1>11. Total(d) = d.total \/ Total(d) = d.total + a BY <1>4, <1>10 DEF Total, a
<1>12. ~Within(d, Total(d), 100) BY <1>1, <1>7, <1>8, <1>9, <1>11 DEF Within
<1> QED BY <1>10, <1>12 DEF Accepted

\* When the display has rolled over to zero exactly, all drivers accept the frame with a
\* hundredth of the price.
THEOREM RolledOverToZero ==
  ASSUME NEW d \in Frames, d.unit >= LeastUnit, d.volume > 0, d.total = 0,
         NEW k \in Nat, k # 0, Expected(d) = k * Rollover
  PROVE  Accepted(d) /\ 100 * Total(d) = Expected(d)
<1> DEFINE e == Expected(d)
           j == 1000 * k
<1>1. d.unit \in Nat /\ LeastUnit \in Nat /\ d.volume \in Nat BY RolloverNat DEF Frames
<1>2. Rollover \in Nat /\ Rollover > 100 BY RolloverNat, RolloverLarge
<1>3. e \in Nat /\ e >= Rollover BY <1>2, Times
<1>4. ~Within(d, d.total, Tolerance) BY <1>2, <1>3 DEF Within, Tolerance
<1>5. Total(d) = CorrectedTotal(e) BY <1>1, <1>4 DEF Total
<1>6. j \in Nat /\ e = 1000 * j BY RolloverThousands
<1> HIDE DEF e, j
<1>7. e % 100 = 0 /\ (e - 0) % 1000 = 0 /\ (e - 0) \div 100 = 10 * j BY <1>6
<1>8. CorrectedTotal(e) = 10 * j BY <1>7 DEF CorrectedTotal
<1>9. 100 * Total(d) = e BY <1>5, <1>6, <1>8
<1>10. Total(d) # 0 BY <1>2, <1>3, <1>5, <1>8, <1>9
<1> QED BY <1>1, <1>9, <1>10 DEF Accepted, e

-----------------------------------------------------------------------------
\* Two transactions whose identifiers are the same happened in the same second at nozzles
\* of the same code.
THEOREM NeIdUnique ==
  ASSUME NEW s \in Nat, NEW t \in Nat, NEW c \in 0..99, NEW k \in 0..99,
         NeId(s, c) = NeId(t, k)
  PROVE  s = t /\ c = k
<1> DEFINE sq == s \div 100
           sr == s % 100
           tq == t \div 100
           tr == t % 100
<1>1. sq \in Nat /\ sr \in 0..99 /\ s = sq * 100 + sr OBVIOUS
<1>2. tq \in Nat /\ tr \in 0..99 /\ t = tq * 100 + tr OBVIOUS
<1>3. sq * 10000 + sr + c * 100 = tq * 10000 + tr + k * 100 BY DEF NeId
<1> HIDE DEF sq, sr, tq, tr
<1>4. c \in Int /\ k \in Int /\ 0 <= c /\ c <= 99 /\ 0 <= k /\ k <= 99 OBVIOUS
<1>5. /\ sr \in Int /\ tr \in Int /\ sq \in Int /\ tq \in Int
      /\ 0 <= sr /\ sr <= 99 /\ 0 <= tr /\ tr <= 99 BY <1>1, <1>2
<1>6. sr = tr BY <1>3, <1>4, <1>5
<1>7. sq * 100 + c = tq * 100 + k BY <1>3, <1>4, <1>5, <1>6
<1>8. sq = tq /\ c = k BY <1>4, <1>5, <1>7
<1> QED BY <1>1, <1>2, <1>6, <1>8

-----------------------------------------------------------------------------
(* What the display shows of a sale.                                       *)

\* The drivers accept the unit price, and no digits roll over to zero.
PricesShown ==
  UnitPrice >= LeastUnit /\ \A a \in 1..LastAmount : Price(a) % Rollover # 0

Amounts   == 0..LastAmount
FrameType == [sale : 0..LastSale, unit : {UnitPrice}, volume : Nat, total : Nat]

\* What has been delivered of the sale s, and its price.
Exact(s, a) == Frame(s, a * Portion, Price(a))

\* A frame that shows the amount a of the sale s, perhaps with a wrong digit, and that the
\* driver may have tried to correct.
Glimpse(f, s, a) ==
  /\ f \in FrameType /\ f.sale = s /\ f.volume = a * Portion
  /\ \E k \in Nat, e \in {0, 7} : f.total = (Price(a) % Rollover) + e + k * Rollover

\* A price is a natural number.
LEMMA PriceNat ==
  ASSUME NEW a \in Nat
  PROVE  /\ a * Portion \in Nat /\ Price(a) \in Nat
         /\ UnitPrice * (a * Portion) = UnitPrice * a * Portion
<1>1. UnitPrice \in Nat /\ Portion \in Nat  BY FuelAssumption, StationAssumption
<1>2. a * Portion \in Nat /\ UnitPrice * a \in Nat  BY <1>1
<1>3. UnitPrice * a * Portion \in Nat  BY <1>1, <1>2
<1>4. UnitPrice * (a * Portion) = UnitPrice * a * Portion  BY <1>1
<1> HIDE FuelAssumption, StationAssumption
<1>5. \A x \in Nat : x \div 1000 \in Nat  OBVIOUS
<1> QED  BY <1>2, <1>3, <1>4, <1>5 DEF Price

\* The expected price of a frame is the price of its amount.
LEMMA ExpectedPrice ==
  ASSUME NEW f \in FrameType, NEW a \in Nat, f.volume = a * Portion
  PROVE  Expected(f) = Price(a)
<1>1. f.unit = UnitPrice  BY DEF FrameType
<1> QED  BY <1>1, PriceNat DEF Expected, Price

\* The driver accepts of the glimpses of an amount those whose total, corrected, is the
\* price of it, and no others; and what it leaves of the others is a glimpse still.
LEMMA GlimpseFacts ==
  ASSUME PricesShown, NEW s \in 0..LastSale, NEW a \in Amounts, NEW f, Glimpse(f, s, a)
  PROVE  /\ Accepted(f) => Processed(f) = Exact(s, a)
         /\ Glimpse(Kept(f), s, a)
         /\ Kept(f).total = Expected(f) => Accepted(f)
<1> DEFINE e == Expected(f)
           m == e % Rollover
           q == e \div Rollover
           t == Total(f)
<1>1. f \in FrameType /\ f.volume = a * Portion /\ f.sale = s  BY DEF Glimpse
<1>2. a \in Nat  BY StationAssumption DEF Amounts
<1>3. e = Price(a) /\ e \in Nat  BY <1>1, <1>2, ExpectedPrice, PriceNat
<1>4. f.volume \in Nat /\ f.total \in Nat /\ f.unit = UnitPrice  BY <1>1 DEF FrameType
<1>5. UnitPrice \in Nat /\ UnitPrice >= LeastUnit /\ LeastUnit \in Nat
  BY FuelAssumption, RolloverNat DEF PricesShown
<1>6. Rollover \in Nat /\ Rollover = 1000000  BY DEF Rollover
<1>7. q \in Nat /\ m \in Nat /\ m < Rollover /\ e = q * Rollover + m
  BY <1>3, <1>6, Division
<1>8. PICK k \in Nat, x \in {0, 7} : f.total = m + x + k * Rollover  BY <1>3 DEF Glimpse
<1>9. a # 0 => m # 0
  <2>1. a # 0 => a \in 1..LastAmount  BY <1>2 DEF Amounts
  <2> QED  BY <1>3, <2>1 DEF PricesShown
<1>10. a = 0 => e = 0 /\ f.volume = 0 /\ q = 0
  <2>1. a = 0 => a * Portion = 0 /\ UnitPrice * a * Portion = 0
    BY <1>5, StationAssumption
  <2>2. a = 0 => e = 0  BY <1>3, <2>1 DEF Price
  <2> QED  BY <1>1, <1>6, <2>1, <2>2
<1>11. f.volume = 0 => e = 0
  <2>1. f.volume = 0 => f.unit * f.volume = 0  BY <1>4, <1>5
  <2> QED  BY <2>1 DEF Expected
<1>12. a # 0 => f.volume > 0 /\ e > 0 /\ f.total > 0
  <2>1. a # 0 => e > 0  BY <1>3, <1>6, <1>7, <1>9
  <2>2. k * Rollover \in Nat /\ x \in Nat  BY <1>6, <1>8
  <2>3. a # 0 => m >= 1  BY <1>7, <1>9
  <2>4. a # 0 => f.total > 0  BY ONLY <1>8, <1>7, <2>2, <2>3
  <2> QED  BY <1>4, <1>11, <2>1, <2>4
<1> HIDE DEF e, m, q
<1>13. Wraps(e) \in Nat
  <2>1. e \div Rollover \in Nat /\ e \div (10 * Rollover) \in Nat  BY <1>3, <1>6
  <2> QED  BY <2>1 DEF Wraps
\* The digits that are shown differ from the price by rollovers and a wrong digit.
<1>14. \A n \in Nat : e - (m + x + n * Rollover) \in 0..100 =>
                        m + x + n * Rollover = e
  <2> SUFFICES ASSUME NEW n \in Nat, e - (m + x + n * Rollover) \in 0..100
               PROVE  m + x + n * Rollover = e
    OBVIOUS
  <2>1. q * 1000000 - x - n * 1000000 \in 0..100  BY <1>6, <1>7, <1>8
  <2>2. x = 0 \/ x = 7  BY <1>8
  <2>3. x = 0 /\ q = n  BY <1>7, <2>1, <2>2
  <2> QED  BY <1>6, <1>7, <2>3
<1>15. Tolerance \in {1, 9}  BY DEF Tolerance
\* What the driver makes of the total.
<1>16. t = f.total \/ (t = f.total + Wraps(e) * Rollover /\ e >= Rollover)
  <2>1. ~(f.total = 0 /\ f.volume > 0)  BY <1>10, <1>12, <1>4
  <2> QED  BY <2>1 DEF Total, e
<1>17. PICK n \in Nat : t = m + x + n * Rollover
  <2>1. CASE t = f.total  BY <1>8, <2>1
  <2>2. CASE t = f.total + Wraps(e) * Rollover
    <3>1. t = m + x + (k + Wraps(e)) * Rollover  BY <1>6, <1>7, <1>8, <1>13, <2>2
    <3> QED  BY <1>13, <3>1
  <2> QED  BY <1>16, <2>1, <2>2
<1>18. t \in Nat  BY <1>6, <1>7, <1>8, <1>17
<1>19. Accepted(f) => t = e
  <2> SUFFICES ASSUME Accepted(f)  PROVE t = e
    OBVIOUS
  <2>1. ~(f.total = 0 /\ f.volume > 0)  BY <1>10, <1>12, <1>4
  <2>2. CASE Within(f, f.total, Tolerance)
    <3>1. e - f.total \in 0..100  BY <1>15, <2>2, <1>3, <1>4 DEF Within, e
    <3>2. f.total = e  BY <1>8, <1>14, <3>1
    <3>3. t = f.total  BY <2>2 DEF Total
    <3> QED  BY <3>2, <3>3
  <2>3. CASE Within(f, t, 100)
    <3>1. e - t \in 0..100  BY <2>3 DEF Within, e
    <3> QED  BY <1>14, <1>17, <3>1
  <2> QED  BY <2>1, <2>2, <2>3 DEF Accepted
<1>20. Processed(f) = [sale |-> f.sale, unit |-> f.unit, volume |-> f.volume, total |-> t]
  BY <1>1 DEF Processed, FrameType
<1>21. Accepted(f) => Processed(f) = Exact(s, a)
  BY <1>1, <1>3, <1>4, <1>19, <1>20 DEF Exact, Frame
<1>22. Glimpse(Processed(f), s, a)
  <2>1. Processed(f) \in FrameType  BY <1>1, <1>4, <1>18, <1>20 DEF FrameType
  <2>2. Processed(f).total = m + x + n * Rollover  BY <1>17, <1>20
  <2> QED  BY <1>1, <1>3, <1>8, <1>17, <1>20, <2>1, <2>2 DEF Glimpse, m
<1>23. Glimpse(Kept(f), s, a)  BY <1>22 DEF Kept
<1>24. t = e => Accepted(f)
  <2> SUFFICES ASSUME t = e  PROVE Accepted(f)
    OBVIOUS
  <2>1. f.volume = 0 <=> t = 0  BY <1>4, <1>10, <1>11, <1>12
  <2>2. Within(f, t, 100) /\ Within(f, t, Tolerance)  BY <1>3, <1>15 DEF Within, e
  <2>3. e >= Rollover \/ Within(f, f.total, Tolerance)  BY <1>16, <2>2
  <2> QED  BY <1>4, <1>5, <2>1, <2>2, <2>3 DEF Accepted, e
<1>25. Kept(f).total = e => Accepted(f)
  <2> SUFFICES ASSUME Kept(f).total = e, ~Accepted(f)  PROVE FALSE
    OBVIOUS
  <2>1. CASE t > e
    <3>1. f.total = e  BY <2>1 DEF Kept, e
    <3>2. Within(f, f.total, Tolerance)  BY <1>3, <1>15, <3>1 DEF Within, e
    <3>3. t = f.total  BY <3>2 DEF Total
    <3> QED  BY <1>24, <3>1, <3>3
  <2>2. CASE ~(t > e)
    <3>1. t = e  BY <1>20, <2>2 DEF Kept, e
    <3> QED  BY <1>24, <3>1
  <2> QED  BY <2>1, <2>2
<1> QED  BY <1>21, <1>23, <1>25 DEF e

-----------------------------------------------------------------------------
(* The pump driver.                                                        *)

PumpType ==
  [validated : FrameType \cup {Blank}, prev : FrameType \cup {Blank},
   committed : FrameType \cup {Blank}, count : Nat,
   value : {"unknown", "pumping", "waiting"},
   nozzle : {"unknown", "pumping", "stopping", "stopped"},
   valueAge : Nat, pumpingAge : Nat, nozzleAge : 0..Short]

\* r differs from p in what the machine of the displayed value sets.
ValueOnly(p, r) ==
  /\ r \in PumpType /\ r.validated = p.validated /\ r.committed = p.committed
  /\ r.nozzle = p.nozzle /\ r.nozzleAge = p.nozzleAge

\* The machine of the displayed value leaves everything else alone.
LEMMA ValueFacts == ASSUME NEW p \in PumpType PROVE ValueOnly(p, ValueStep(p))
<1>1. \A c \in PumpType : ValueOnly(c, c)  BY DEF ValueOnly
<1>2. \A c \in PumpType, v \in {"pumping", "waiting"} : ValueOnly(c, [c EXCEPT !.value = v])
  BY DEF ValueOnly, PumpType
<1>3. \A c \in PumpType : ValueOnly(c, [c EXCEPT !.valueAge = 0])  BY DEF ValueOnly, PumpType
<1>4. \A c \in PumpType : ValueOnly(c, [c EXCEPT !.pumpingAge = 0])  BY DEF ValueOnly, PumpType
<1>5. \A c, d, r \in PumpType : ValueOnly(c, d) /\ ValueOnly(d, r) => ValueOnly(c, r)
  BY DEF ValueOnly
<1>6. PICK w \in PumpType : w = [p EXCEPT !.value = "waiting"] /\ ValueOnly(p, w)
  BY <1>2 DEF ValueOnly
<1>7. PICK g \in PumpType : g = [p EXCEPT !.value = "pumping"] /\ ValueOnly(p, g)
  BY <1>2 DEF ValueOnly
<1>8. PICK h \in PumpType : h = [g EXCEPT !.valueAge = 0] /\ ValueOnly(g, h)
  BY <1>3 DEF ValueOnly
<1>9. PICK r : r = ValueStep(p)  OBVIOUS
<1>10. \/ r = p \/ r = [p EXCEPT !.pumpingAge = 0]
       \/ r = [p EXCEPT !.value = "waiting", !.valueAge = 0]
       \/ r = [p EXCEPT !.value = "pumping", !.valueAge = 0, !.pumpingAge = 0]
       \/ r = [p EXCEPT !.value = "pumping", !.valueAge = 0]
  BY <1>9 DEF ValueStep
<1>11. CASE r = p \/ r = [p EXCEPT !.pumpingAge = 0]  BY <1>1, <1>4, <1>9, <1>11
<1>12. CASE r = [p EXCEPT !.value = "waiting", !.valueAge = 0]
  <2>1. r = [w EXCEPT !.valueAge = 0]  BY <1>6, <1>12
  <2>2. ValueOnly(w, r) /\ r \in PumpType  BY <1>3, <2>1 DEF ValueOnly
  <2> QED  BY <1>5, <1>6, <1>9, <2>2
<1>13. CASE r = [p EXCEPT !.value = "pumping", !.valueAge = 0, !.pumpingAge = 0]
  <2>1. r = [h EXCEPT !.pumpingAge = 0]  BY <1>7, <1>8, <1>13
  <2>2. ValueOnly(h, r) /\ r \in PumpType  BY <1>4, <2>1 DEF ValueOnly
  <2> QED  BY <1>5, <1>7, <1>8, <1>9, <2>2
<1>14. CASE r = [p EXCEPT !.value = "pumping", !.valueAge = 0]
  <2>1. r = h  BY <1>7, <1>8, <1>14
  <2> QED  BY <1>5, <1>7, <1>8, <1>9, <2>1
<1> QED  BY <1>10, <1>11, <1>12, <1>13, <1>14

\* The machine of the nozzle, with what it commits.
LEMMA NozzleFacts ==
  ASSUME NEW p \in PumpType, NEW up \in BOOLEAN, NEW count \in Nat,
         NEW r, r = NozzleStep(p, up, count)
  PROVE  /\ r \in PumpType /\ r.validated = p.validated
         /\ p.nozzle = "unknown" /\ up => r.nozzle = "pumping" /\ r.nozzleAge = 0
         /\ p.nozzle = "unknown" /\ ~up => r.nozzle = "unknown"
         /\ p.nozzle = "pumping" /\ up => r.nozzle = "pumping" /\ r.nozzleAge = p.nozzleAge
         /\ p.nozzle = "pumping" /\ ~up =>
              \/ r.nozzle = "unknown" /\ p.nozzleAge < Short
              \/ r.nozzle = "stopping" /\ r.committed = p.validated
         /\ p.nozzle = "stopping" => /\ r.nozzle \in {"stopping", "stopped"}
                                     /\ r.committed \in {p.committed, p.validated}
         /\ p.nozzle = "stopped" => r.nozzle = "unknown" /\ r.committed = p.committed
<1>1. Short \in Nat /\ 0 \in 0..Short  BY FuelAssumption
<1>2. p.nozzle \in {"unknown", "pumping", "stopping", "stopped"}  BY DEF PumpType
<1>3. CASE p.nozzle = "unknown" /\ up
  <2>1. r = [p EXCEPT !.nozzle = "pumping", !.nozzleAge = 0]  BY <1>3 DEF NozzleStep
  <2> QED  BY <1>1, <1>3, <2>1 DEF PumpType
<1>4. CASE p.nozzle = "unknown" /\ ~up
  <2>1. r = p  BY <1>4 DEF NozzleStep
  <2> QED  BY <1>4, <2>1
<1>5. CASE p.nozzle = "pumping" /\ up
  <2>1. r = p  BY <1>5 DEF NozzleStep
  <2> QED  BY <1>5, <2>1
<1>6. CASE p.nozzle = "pumping" /\ ~up /\ TooShort(p, count)
  <2>1. r = [p EXCEPT !.nozzle = "unknown", !.nozzleAge = 0]  BY <1>6 DEF NozzleStep
  <2>2. p.nozzleAge < Short  BY <1>6 DEF TooShort
  <2> QED  BY <1>1, <1>6, <2>1, <2>2 DEF PumpType
<1>7. CASE p.nozzle = "pumping" /\ ~up /\ ~TooShort(p, count)
  <2>1. PICK c \in PumpType : c = Committed(p)  BY DEF Committed, PumpType
  <2>2. c.validated = p.validated /\ c.committed = p.validated
    BY <2>1 DEF Committed, PumpType
  <2>3. r = [c EXCEPT !.nozzle = "stopping", !.nozzleAge = 0]  BY <1>7, <2>1 DEF NozzleStep
  <2> QED  BY <1>1, <1>7, <2>2, <2>3 DEF PumpType
<1>8. CASE p.nozzle = "stopping" /\ StopIsOver(p)
  <2>1. r = [p EXCEPT !.nozzle = "stopped", !.nozzleAge = 0]  BY <1>8 DEF NozzleStep
  <2> QED  BY <1>1, <1>8, <2>1 DEF PumpType
<1>9. CASE p.nozzle = "stopping" /\ ~StopIsOver(p)
  <2>1. r = Updated(p)  BY <1>9 DEF NozzleStep
  <2>2. r = p \/ r = [p EXCEPT !.committed = p.validated]  BY <2>1 DEF Updated
  <2> QED  BY <1>9, <2>2 DEF PumpType
<1>10. CASE p.nozzle = "stopped"
  <2>1. r = [p EXCEPT !.nozzle = "unknown", !.nozzleAge = 0]  BY <1>10 DEF NozzleStep
  <2> QED  BY <1>1, <1>10, <2>1 DEF PumpType
<1> QED  BY <1>2, <1>3, <1>4, <1>5, <1>6, <1>7, <1>8, <1>9, <1>10

\* Both machines.
LEMMA MachineFacts ==
  ASSUME NEW p \in PumpType, NEW up \in BOOLEAN, NEW r, r = Machine(p, up)
  PROVE  /\ r \in PumpType /\ r.validated = p.validated
         /\ p.nozzle = "unknown" /\ up => r.nozzle = "pumping" /\ r.nozzleAge = 0
         /\ p.nozzle = "unknown" /\ ~up => r.nozzle = "unknown"
         /\ p.nozzle = "pumping" /\ up => r.nozzle = "pumping" /\ r.nozzleAge = p.nozzleAge
         /\ p.nozzle = "pumping" /\ ~up =>
              \/ r.nozzle = "unknown" /\ p.nozzleAge < Short
              \/ r.nozzle = "stopping" /\ r.committed = p.validated
         /\ p.nozzle = "stopping" => /\ r.nozzle \in {"stopping", "stopped"}
                                     /\ r.committed \in {p.committed, p.validated}
         /\ p.nozzle = "stopped" => r.nozzle = "unknown" /\ r.committed = p.committed
<1>1. p.count \in Nat /\ MinCount \in Nat  BY FuelAssumption DEF PumpType
<1>2. PICK n \in Nat : n = Counted(p, up)  BY <1>1 DEF Counted
<1>3. PICK k \in Nat : k = Compared(p, up)  BY <1>1, <1>2 DEF Compared
<1>4. PICK c \in PumpType : c = [p EXCEPT !.count = n]  BY DEF PumpType
<1>5. /\ c.validated = p.validated /\ c.committed = p.committed
      /\ c.nozzle = p.nozzle /\ c.nozzleAge = p.nozzleAge
  BY <1>4 DEF PumpType
<1>6. PICK v \in PumpType : v = ValueStep(c)  BY ValueFacts DEF ValueOnly
<1>7. /\ v.validated = p.validated /\ v.committed = p.committed
      /\ v.nozzle = p.nozzle /\ v.nozzleAge = p.nozzleAge
  BY <1>5, <1>6, ValueFacts DEF ValueOnly
<1>8. r = NozzleStep(v, up, k)  BY <1>2, <1>3, <1>4, <1>6 DEF Machine
<1> QED  BY <1>7, <1>8, NozzleFacts

-----------------------------------------------------------------------------
(* A nozzle: its frames fs, the last one sh, the switch sw, the pump p,    *)
(* whether the module will go on with it, the dispenser st, the sales sd   *)
(* that are over and the published ones pd.                                *)

StationType == [up : BOOLEAN, sale : 0..LastSale, amount : Amounts, age : 0..Short]

Typed(fs, sh, sw, p, due, st, sd, pd) ==
  /\ fs \in Seq(FrameType) /\ sh \in FrameType \cup {None} /\ sw \in BOOLEAN /\ p \in PumpType
  /\ due \in BOOLEAN /\ st \in StationType /\ sd \in Seq(Amounts) /\ pd \in Seq(FrameType)

\* The frames are of the present sale; the driver has seen an exact one.
Tapped(fs, sh, p, st) ==
  /\ \A i \in DOMAIN fs : \E b \in 0..st.amount : Glimpse(fs[i], st.sale, b)
  /\ sh # None => \E s \in 0..st.sale, b \in Amounts : Glimpse(sh, s, b)
  /\ sh # None /\ sh.volume > 0 /\ sh.total = Expected(sh) => p.validated = sh

\* Once the switch is down, what the driver has and gets is the whole of the sale.
Hung(fs, sh, sw, p, st) ==
  ~st.up /\ st.sale > 0 =>
    /\ st.amount > 0
    /\ ~sw => /\ \A i \in DOMAIN fs : Glimpse(fs[i], st.sale, st.amount)
              /\ sh # None /\ Glimpse(sh, st.sale, st.amount)
              /\ p.validated = Exact(st.sale, st.amount)

Unpublished(pd, s) == \A i \in DOMAIN pd : pd[i].sale < s

\* The machine follows the sale.
Follows(sw, p, st, pd) ==
  /\ st.up \/ sw => st.sale > 0 /\ Unpublished(pd, st.sale)
  /\ st.up /\ ~sw => p.nozzle = "unknown" /\ st.age = 0
  /\ p.nozzle = "pumping" =>
       st.sale > 0 /\ Unpublished(pd, st.sale) /\ p.nozzleAge >= st.age
  /\ p.nozzle \in {"stopping", "stopped"} =>
       /\ ~st.up /\ ~sw /\ st.sale > 0 /\ Unpublished(pd, st.sale)
       /\ p.committed = Exact(st.sale, st.amount)

\* What Seen is for a nozzle.
SeenAt(fs, sh, st) == fs = <<>> /\ (st.sale > 0 => sh = Exact(st.sale, st.amount))

\* No sale is passed over: while the switch is up the machine follows or is about to.
Noticed(fs, sh, sw, p, due, st, pd) ==
  /\ sw /\ p.nozzle = "unknown" => st.age = 0 /\ (due \/ ~SeenAt(fs, sh, st))
  /\ ~sw /\ ~st.up /\ st.sale > 0 /\ st.age >= Short =>
       p.nozzle # "unknown" \/ \E i \in DOMAIN pd : pd[i].sale = st.sale

\* The history of the sales.
Over(st, sd) ==
  /\ Len(sd) = IF st.up THEN st.sale - 1 ELSE st.sale
  /\ ~st.up /\ st.sale > 0 => sd[st.sale] = st.amount

Published(sd, pd) ==
  \A i \in DOMAIN pd :
    /\ pd[i].sale \in DOMAIN sd
    /\ pd[i].volume = sd[pd[i].sale] * Portion /\ pd[i].total = Price(sd[pd[i].sale])
    /\ i > 1 => pd[i - 1].sale < pd[i].sale

NozzleInv(fs, sh, sw, p, due, st, sd, pd) ==
  /\ Typed(fs, sh, sw, p, due, st, sd, pd)
  /\ Tapped(fs, sh, p, st) /\ Hung(fs, sh, sw, p, st)
  /\ Follows(sw, p, st, pd) /\ Noticed(fs, sh, sw, p, due, st, pd)
  /\ Over(st, sd) /\ Published(sd, pd)

\* The module will take the nozzle up again.
Due(n) == woken \/ (pass.runs /\ n \in pass.left)

TheNozzle(n) ==
  NozzleInv(frames[n], shown[n], switch[n], pump[n], Due(n), station[n], sold[n], pumped[n])

Domains ==
  /\ DOMAIN frames = Nozzles /\ DOMAIN shown = Nozzles /\ DOMAIN switch = Nozzles
  /\ DOMAIN pump = Nozzles /\ DOMAIN station = Nozzles
  /\ DOMAIN sold = Nozzles /\ DOMAIN pumped = Nozzles
  /\ frames = [n \in Nozzles |-> frames[n]] /\ shown = [n \in Nozzles |-> shown[n]]
  /\ switch = [n \in Nozzles |-> switch[n]] /\ pump = [n \in Nozzles |-> pump[n]]
  /\ station = [n \in Nozzles |-> station[n]] /\ sold = [n \in Nozzles |-> sold[n]]
  /\ pumped = [n \in Nozzles |-> pumped[n]]
  /\ woken \in BOOLEAN /\ pass \in [runs : BOOLEAN, left : SUBSET Nozzles]
  /\ pass.left # {} => pass.runs

NozzlesInv == Domains /\ \A n \in Nozzles : TheNozzle(n)

\* What an exact frame is: something, unless nothing has been delivered.
LEMMA ExactFacts ==
  ASSUME PricesShown, NEW s \in 0..LastSale, NEW a \in Amounts
  PROVE  /\ Exact(s, a) \in FrameType /\ Exact(s, a) # None /\ Glimpse(Exact(s, a), s, a)
         /\ Exact(s, a).sale = s /\ Exact(s, a).volume = a * Portion
         /\ Exact(s, a).total = Price(a) /\ Expected(Exact(s, a)) = Price(a)
         /\ a > 0 => Exact(s, a).volume > 0 /\ Price(a) > 0
<1>1. a \in Nat /\ LastSale \in Nat  BY StationAssumption DEF Amounts
<1>2. a * Portion \in Nat /\ Price(a) \in Nat  BY <1>1, PriceNat
<1>3. PICK e : e = Exact(s, a)  OBVIOUS
<1>4. e = [sale |-> s, unit |-> UnitPrice, volume |-> a * Portion, total |-> Price(a)]
  BY <1>3 DEF Exact, Frame
<1>5. e \in FrameType  BY <1>2, <1>4 DEF FrameType
<1>6. UnitPrice \in Nat /\ s \in Nat  BY <1>1, FuelAssumption
<1>7. e # None
  <2>1. e \in [sale : Nat, unit : Nat, volume : Nat, total : Nat]  BY <1>2, <1>4, <1>6
  <2> QED  BY <2>1, FuelAssumption
<1>8. Expected(e) = Price(a)  BY <1>1, <1>4, <1>5, ExpectedPrice
<1>9. Glimpse(e, s, a)
  <2>1. PICK r \in Nat : r = Rollover /\ r >= 1  BY RolloverNat
  <2>2. PICK y \in Nat : y = Price(a)  BY <1>2
  <2>3. y \div r \in Nat /\ y % r \in Nat /\ y = (y \div r) * r + (y % r)  BY <2>1, Division
  <2>4. (y \div r) * r \in Nat  BY <2>1, <2>3
  <2>5. y = (y % r) + 0 + (y \div r) * r  BY <2>3, <2>4
  <2>6. e.total = (Price(a) % Rollover) + 0 + (y \div r) * Rollover
    BY <1>4, <2>1, <2>2, <2>5
  <2> QED  BY <1>4, <1>5, <2>3, <2>6 DEF Glimpse
<1>10. a > 0 => e.volume > 0 /\ Price(a) > 0
  <2> SUFFICES ASSUME a > 0  PROVE e.volume > 0 /\ Price(a) > 0
    OBVIOUS
  <2>1. a \in 1..LastAmount  BY <1>1 DEF Amounts
  <2>2. Price(a) % Rollover # 0  BY <2>1 DEF PricesShown
  <2>3. 0 % Rollover = 0  BY RolloverNat, Division
  <2>4. Price(a) > 0  BY <1>2, <2>2, <2>3
  <2>5. e.volume # 0
    <3>1. SUFFICES ASSUME e.volume = 0  PROVE FALSE
      OBVIOUS
    <3>2. a * Portion = 0 /\ UnitPrice * (a * Portion) = 0  BY <1>4, <1>6, <3>1
    <3>3. Price(a) = 0 \div 1000  BY <1>1, <3>2, PriceNat DEF Price
    <3> QED  BY <2>4, <3>3
  <2> QED  BY <1>2, <1>4, <2>4, <2>5
<1> QED  BY <1>3, <1>4, <1>5, <1>7, <1>8, <1>9, <1>10

\* That the module has a wake-up coming never hurts.
LEMMA DueKeeps ==
  ASSUME NEW fs, NEW sh, NEW sw, NEW p, NEW due, NEW st, NEW sd, NEW pd,
         NozzleInv(fs, sh, sw, p, due, st, sd, pd), NEW due2 \in BOOLEAN, due => due2
  PROVE  NozzleInv(fs, sh, sw, p, due2, st, sd, pd)
BY DEF NozzleInv, Typed, Noticed

\* A nozzle is lifted.
LEMMA LiftKeeps ==
  ASSUME NEW fs, NEW sh, NEW sw, NEW p, NEW due, NEW st, NEW sd, NEW pd,
         NozzleInv(fs, sh, sw, p, due, st, sd, pd),
         ~st.up, ~sw, st.sale < LastSale, fs = <<>>, p.nozzle = "unknown",
         NEW s2, s2 = [up |-> TRUE, sale |-> st.sale + 1, amount |-> 0, age |-> 0]
  PROVE  NozzleInv(fs, sh, sw, p, due, s2, sd, pd)
<1>1. /\ LastSale \in Nat /\ LastAmount \in Nat /\ 0 \in 0..Short /\ 0 \in Amounts
      /\ st.sale \in 0..LastSale /\ st.sale \in Nat
  BY StationAssumption, FuelAssumption DEF NozzleInv, Typed, StationType, Amounts
<1>2. s2 \in StationType /\ s2.sale = st.sale + 1 /\ s2.up /\ s2.age = 0
  BY <1>1 DEF StationType
<1>3. Typed(fs, sh, sw, p, due, s2, sd, pd)  BY <1>2 DEF NozzleInv, Typed
<1>4. Tapped(fs, sh, p, s2)
  <2>1. 0..st.sale \subseteq 0..s2.sale  BY <1>1, <1>2
  <2> QED  BY <2>1 DEF NozzleInv, Tapped
<1>5. Hung(fs, sh, sw, p, s2)  BY <1>2 DEF Hung
<1>6. Unpublished(pd, s2.sale)
  <2>1. Len(sd) = st.sale /\ sd \in Seq(Amounts)  BY DEF NozzleInv, Over, Typed
  <2>2. \A i \in DOMAIN pd : pd[i].sale \in 1..st.sale  BY <2>1 DEF NozzleInv, Published
  <2> QED  BY <1>1, <1>2, <2>2 DEF Unpublished
<1>7. Follows(sw, p, s2, pd)  BY <1>1, <1>2, <1>6 DEF Follows
<1>8. Noticed(fs, sh, sw, p, due, s2, pd)  BY <1>2 DEF Noticed
<1>9. Over(s2, sd)  BY <1>1, <1>2 DEF NozzleInv, Over
<1> QED  BY <1>3, <1>4, <1>5, <1>7, <1>8, <1>9 DEF NozzleInv

\* The display shows what is delivered, or goes on showing it.
LEMMA FrameKeeps ==
  ASSUME NEW fs, NEW sh, NEW sw, NEW p, NEW due, NEW st, NEW sd, NEW pd,
         NozzleInv(fs, sh, sw, p, due, st, sd, pd),
         NEW s2 \in StationType, s2.up = st.up, s2.sale = st.sale, s2.age = st.age,
         s2.amount = st.amount \/ (st.up /\ s2.amount = st.amount + 1),
         NEW f, Glimpse(f, s2.sale, s2.amount),
         NEW f2, f2 = fs \/ f2 = Append(fs, f)
  PROVE  NozzleInv(f2, sh, sw, p, TRUE, s2, sd, pd)
<1>1. st.amount \in Nat /\ st \in StationType /\ fs \in Seq(FrameType) /\ f \in FrameType
  BY StationAssumption DEF NozzleInv, Typed, StationType, Amounts, Glimpse
<1>2. Typed(f2, sh, sw, p, TRUE, s2, sd, pd)
  <2>1. f2 \in Seq(FrameType)  BY <1>1
  <2> QED  BY <2>1 DEF NozzleInv, Typed
<1>3. \A i \in DOMAIN f2 : f2[i] = f \/ \E j \in DOMAIN fs : f2[i] = fs[j]
  <2>1. CASE f2 = fs  BY <2>1
  <2>2. CASE f2 = Append(fs, f)  BY <1>1, <2>2
  <2> QED  BY <2>1, <2>2
<1>4. Tapped(f2, sh, p, s2)
  <2>1. 0..st.amount \subseteq 0..s2.amount /\ s2.amount \in 0..s2.amount  BY <1>1
  <2>2. \A j \in DOMAIN fs : \E b \in 0..st.amount : Glimpse(fs[j], st.sale, b)
    BY DEF NozzleInv, Tapped
  <2>3. \A i \in DOMAIN f2 : \E b \in 0..s2.amount : Glimpse(f2[i], s2.sale, b)
    BY <1>3, <2>1, <2>2
  <2> QED  BY <2>3 DEF NozzleInv, Tapped
<1>5. Hung(f2, sh, sw, p, s2)
  <2> SUFFICES ASSUME ~s2.up, s2.sale > 0
               PROVE  Hung(f2, sh, sw, p, s2)
    BY DEF Hung
  <2>1. s2.amount = st.amount  OBVIOUS
  <2> QED  BY <1>3, <2>1 DEF NozzleInv, Hung
<1>6. Follows(sw, p, s2, pd)  BY DEF NozzleInv, Follows
<1>7. Noticed(f2, sh, sw, p, TRUE, s2, pd)  BY DEF NozzleInv, Noticed
<1>8. Over(s2, sd)  BY DEF NozzleInv, Over
<1> QED  BY <1>2, <1>4, <1>5, <1>6, <1>7, <1>8 DEF NozzleInv

\* The nozzle goes back to its hook.
LEMMA HangKeeps ==
  ASSUME NEW fs, NEW sh, NEW sw, NEW p, NEW due, NEW st, NEW sd, NEW pd,
         NozzleInv(fs, sh, sw, p, due, st, sd, pd), st.up, sw, st.amount > 0,
         NEW s2, s2 = [st EXCEPT !.up = FALSE], NEW d2, d2 = Append(sd, st.amount)
  PROVE  NozzleInv(fs, sh, sw, p, due, s2, d2, pd)
<1>1. st \in StationType /\ st.amount \in Amounts /\ sd \in Seq(Amounts) /\ pd \in Seq(FrameType)
  BY DEF NozzleInv, Typed, StationType
<1>2. /\ s2 \in StationType /\ ~s2.up /\ s2.sale = st.sale /\ s2.amount = st.amount
      /\ s2.age = st.age /\ st.sale \in Nat /\ st.sale > 0
  <2>1. st.sale \in Nat  BY <1>1, StationAssumption DEF StationType
  <2>2. st.sale > 0  BY DEF NozzleInv, Follows
  <2> QED  BY <1>1, <2>1, <2>2 DEF StationType
<1>3. Typed(fs, sh, sw, p, due, s2, d2, pd)  BY <1>1, <1>2 DEF NozzleInv, Typed
<1>4. Tapped(fs, sh, p, s2)  BY <1>2 DEF NozzleInv, Tapped
<1>5. Hung(fs, sh, sw, p, s2)  BY <1>2 DEF Hung
<1>6. Follows(sw, p, s2, pd)  BY <1>2 DEF NozzleInv, Follows
<1>7. Noticed(fs, sh, sw, p, due, s2, pd)  BY <1>2 DEF NozzleInv, Noticed, SeenAt
<1>8. Len(sd) = st.sale - 1  BY DEF NozzleInv, Over
<1>9. Over(s2, d2)  BY <1>1, <1>2, <1>8 DEF Over
<1>10. Published(d2, pd)
  <2>1. DOMAIN sd \subseteq DOMAIN d2 /\ \A i \in DOMAIN sd : d2[i] = sd[i]  BY <1>1
  <2> QED  BY <2>1 DEF NozzleInv, Published
<1> QED  BY <1>3, <1>4, <1>5, <1>6, <1>7, <1>9, <1>10 DEF NozzleInv

\* The switch follows the nozzle.
LEMMA DebounceKeeps ==
  ASSUME PricesShown, NEW fs, NEW sh, NEW sw, NEW p, NEW st, NEW sd, NEW pd,
         NozzleInv(fs, sh, sw, p, FALSE, st, sd, pd), SeenAt(fs, sh, st),
         st.up # sw
  PROVE  NozzleInv(fs, sh, st.up, p, TRUE, st, sd, pd)
<1> DEFINE w2 == st.up
<1>1. /\ st \in StationType /\ st.amount \in Amounts /\ st.sale \in 0..LastSale /\ sw \in BOOLEAN
      /\ st.up \in BOOLEAN
  BY DEF NozzleInv, Typed, StationType
<1>2. Typed(fs, sh, w2, p, TRUE, st, sd, pd)  BY <1>1 DEF NozzleInv, Typed
<1>3. Hung(fs, sh, w2, p, st)
  <2> SUFFICES ASSUME ~st.up, st.sale > 0  PROVE Hung(fs, sh, w2, p, st)
    BY DEF Hung
  <2>1. st.amount > 0  BY DEF NozzleInv, Hung
  <2>2. sh = Exact(st.sale, st.amount) /\ fs = <<>>  BY DEF SeenAt
  <2>3. sh # None /\ Glimpse(sh, st.sale, st.amount) /\ sh.volume > 0 /\ sh.total = Expected(sh)
    BY <1>1, <2>1, <2>2, ExactFacts
  <2>4. p.validated = sh  BY <2>3 DEF NozzleInv, Tapped
  <2> QED  BY <2>1, <2>2, <2>3, <2>4 DEF Hung
<1>4. Follows(w2, p, st, pd)
  <2>1. w2 => st.sale > 0 /\ Unpublished(pd, st.sale)  BY DEF NozzleInv, Follows
  <2>2. p.nozzle \in {"stopping", "stopped"} => FALSE
    BY <1>1 DEF NozzleInv, Follows
  <2> QED  BY <2>1, <2>2 DEF NozzleInv, Follows
<1>5. Noticed(fs, sh, w2, p, TRUE, st, pd)
  <2>1. w2 /\ p.nozzle = "unknown" => st.age = 0  BY <1>1 DEF NozzleInv, Follows
  <2>2. ~w2 => p.nozzle # "unknown"  BY <1>1 DEF NozzleInv, Noticed
  <2> QED  BY <2>1, <2>2 DEF Noticed
<1> QED  BY <1>2, <1>3, <1>4, <1>5 DEF NozzleInv

\* Time passes.
LEMMA ClockKeeps ==
  ASSUME NEW fs, NEW sh, NEW sw, NEW p, NEW st, NEW sd, NEW pd,
         NozzleInv(fs, sh, sw, p, FALSE, st, sd, pd), SeenAt(fs, sh, st),
         NEW v \in Nat, NEW g \in Nat,
         NEW p2, p2 = [p EXCEPT !.valueAge = v, !.pumpingAge = g,
                                !.nozzleAge = Older(p.nozzleAge, Short)],
         NEW s2, s2 = [st EXCEPT !.age = IF sw THEN Older(st.age, Short) ELSE st.age]
  PROVE  NozzleInv(fs, sh, sw, p2, FALSE, s2, sd, pd)
<1>1. p \in PumpType /\ st \in StationType  BY DEF NozzleInv, Typed
<1>2. /\ Short \in Nat /\ p.nozzleAge \in 0..Short /\ st.age \in 0..Short
  BY <1>1, FuelAssumption DEF PumpType, StationType
<1>3. PICK o \in 0..Short : /\ o = Older(p.nozzleAge, Short)
                            /\ o >= p.nozzleAge /\ (p.nozzleAge < Short => o = p.nozzleAge + 1)
  BY <1>2 DEF Older
<1>4. PICK y \in 0..Short : /\ y = IF sw THEN Older(st.age, Short) ELSE st.age
                            /\ ~sw => y = st.age
                            /\ y <= st.age + 1
  BY <1>2 DEF Older
<1>5. PICK a \in PumpType : a = [p EXCEPT !.valueAge = v]  BY <1>1 DEF PumpType
<1>6. PICK b \in PumpType : b = [a EXCEPT !.pumpingAge = g]  BY DEF PumpType
<1>7. p2 = [b EXCEPT !.nozzleAge = o]  BY <1>3, <1>5, <1>6
<1>8. a.nozzle = p.nozzle /\ a.validated = p.validated /\ a.committed = p.committed
  BY <1>1, <1>5 DEF PumpType
<1>9. b.nozzle = p.nozzle /\ b.validated = p.validated /\ b.committed = p.committed
  BY <1>6, <1>8 DEF PumpType
<1>10. /\ p2 \in PumpType /\ p2.nozzle = p.nozzle /\ p2.nozzleAge = o
       /\ p2.validated = p.validated /\ p2.committed = p.committed
  BY <1>7, <1>9 DEF PumpType
<1>11. /\ s2 \in StationType /\ s2.up = st.up /\ s2.sale = st.sale /\ s2.amount = st.amount
       /\ s2.age = y
  BY <1>1, <1>4 DEF StationType
<1>12. Typed(fs, sh, sw, p2, FALSE, s2, sd, pd)  BY <1>10, <1>11 DEF NozzleInv, Typed
<1>13. Tapped(fs, sh, p2, s2) /\ Hung(fs, sh, sw, p2, s2) /\ Over(s2, sd)
  BY <1>10, <1>11 DEF NozzleInv, Tapped, Hung, Over
<1>14. p.nozzle = "pumping" => o >= y
  <2> SUFFICES ASSUME p.nozzle = "pumping"  PROVE o >= y
    OBVIOUS
  <2>1. p.nozzleAge >= st.age  BY DEF NozzleInv, Follows
  <2> QED  BY <1>2, <1>3, <1>4, <2>1
<1>15. Follows(sw, p2, s2, pd)  BY <1>4, <1>10, <1>11, <1>14 DEF NozzleInv, Follows
<1>16. Noticed(fs, sh, sw, p2, FALSE, s2, pd)
  <2>1. ~(sw /\ p.nozzle = "unknown")  BY DEF NozzleInv, Noticed
  <2> QED  BY <1>4, <1>10, <1>11, <2>1 DEF NozzleInv, Noticed
<1> QED  BY <1>12, <1>13, <1>15, <1>16 DEF NozzleInv

\* The driver runs on the frame f of the amount a of the sale s, and fs2 are left.
Takes(fs, fs2, f, s, a, sw, st) ==
  /\ fs2 \in Seq(FrameType) /\ \A i \in DOMAIN fs2 : \E j \in DOMAIN fs : fs2[i] = fs[j]
  /\ s \in 0..st.sale /\ a \in Amounts /\ Glimpse(f, s, a)
  /\ ~st.up /\ ~sw /\ st.sale > 0 => s = st.sale /\ a = st.amount

\* What the driver and the module make of it.
Makes(f, sw, p, p2, pd, pd2) ==
  /\ p2 = IF Accepted(f) THEN Machine(Validated(p, Processed(f)), sw) ELSE p
  /\ pd2 = IF Accepted(f) /\ p.nozzle = "stopped" THEN Append(pd, p2.committed) ELSE pd

\* A turn with a frame, new or not.
LEMMA TurnKeeps ==
  ASSUME PricesShown, NEW fs, NEW sh, NEW sw, NEW p, NEW st, NEW sd, NEW pd,
         NozzleInv(fs, sh, sw, p, TRUE, st, sd, pd),
         NEW fs2, NEW f, NEW s, NEW a, Takes(fs, fs2, f, s, a, sw, st),
         NEW p2, NEW pd2, Makes(f, sw, p, p2, pd, pd2),
         NEW h, h = Kept(f)
  PROVE  NozzleInv(fs2, h, sw, p2, FALSE, st, sd, pd2)
<1>a. /\ fs2 \in Seq(FrameType) /\ \A i \in DOMAIN fs2 : \E j \in DOMAIN fs : fs2[i] = fs[j]
      /\ s \in 0..st.sale /\ a \in Amounts /\ Glimpse(f, s, a)
      /\ ~st.up /\ ~sw /\ st.sale > 0 => s = st.sale /\ a = st.amount
      /\ p2 = IF Accepted(f) THEN Machine(Validated(p, Processed(f)), sw) ELSE p
      /\ pd2 = IF Accepted(f) /\ p.nozzle = "stopped" THEN Append(pd, p2.committed) ELSE pd
  BY DEF Takes, Makes
<1> USE <1>a
<1>1. /\ p \in PumpType /\ st \in StationType /\ sw \in BOOLEAN /\ pd \in Seq(FrameType)
      /\ sd \in Seq(Amounts) /\ st.up \in BOOLEAN
  BY DEF NozzleInv, Typed, StationType
<1>2. st.sale \in 0..LastSale /\ st.sale \in Nat /\ st.amount \in Amounts /\ s \in 0..LastSale
  BY <1>1, StationAssumption DEF StationType
<1>3. st.amount \in Nat /\ st.age \in Nat /\ Short \in Nat
  BY <1>1, <1>2, StationAssumption, FuelAssumption DEF StationType, Amounts
<1>4. h = Kept(f) /\ Glimpse(h, s, a)  BY <1>2, GlimpseFacts
<1>5. h \in FrameType /\ h.volume = a * Portion /\ h.sale = s  BY <1>4 DEF Glimpse
<1>6. h.total = Price(a) => Accepted(f)
  <2>1. f \in FrameType /\ f.volume = a * Portion  BY DEF Glimpse
  <2>2. a \in Nat  BY StationAssumption DEF Amounts
  <2>3. Expected(f) = Price(a)  BY <2>1, <2>2, ExpectedPrice
  <2> QED  BY <1>2, <1>4, <2>3, GlimpseFacts
<1>7. Expected(h) = Price(a)
  <2>1. a \in Nat  BY StationAssumption DEF Amounts
  <2> QED  BY <1>5, <2>1, ExpectedPrice
<1>8. Accepted(f) => h = Exact(s, a) /\ Processed(f) = Exact(s, a)
  BY <1>2, <1>4, GlimpseFacts DEF Kept
\* What the driver takes the frame for.
<1>9. PICK q : q = IF Accepted(f) THEN Validated(p, Exact(s, a)) ELSE p  OBVIOUS
<1>10. /\ q \in PumpType /\ q.nozzle = p.nozzle /\ q.nozzleAge = p.nozzleAge
       /\ q.committed = p.committed
       /\ q.validated = IF Accepted(f) /\ a > 0 THEN Exact(s, a) ELSE p.validated
  <2>1. CASE q = p /\ ~(Accepted(f) /\ a > 0)  BY <1>1, <2>1
  <2>2. CASE Accepted(f) /\ a > 0
    <3>1. PICK x \in FrameType : x = Exact(s, a) /\ x.volume > 0 /\ x.total > 0
      BY <1>2, <2>2, ExactFacts
    <3>2. q = [p EXCEPT !.prev = p.validated, !.validated = x]
      BY <1>9, <2>2, <3>1 DEF Validated
    <3>3. PICK c \in PumpType : c = [p EXCEPT !.prev = p.validated]  BY <1>1 DEF PumpType
    <3>4. c.nozzle = p.nozzle /\ c.nozzleAge = p.nozzleAge /\ c.committed = p.committed
      BY <1>1, <3>3 DEF PumpType
    <3>5. q = [c EXCEPT !.validated = x]  BY <3>2, <3>3
    <3> QED  BY <2>2, <3>1, <3>4, <3>5 DEF PumpType
  <2>3. CASE Accepted(f) /\ ~(a > 0)
    <3>1. a = 0  BY <2>3, StationAssumption DEF Amounts
    <3>2. Exact(s, a).volume = 0
      <4>1. 0 * Portion = 0  BY StationAssumption
      <4> QED  BY <1>2, <3>1, <4>1, ExactFacts
    <3>3. q = p  BY <1>9, <2>3, <3>2 DEF Validated
    <3> QED  BY <1>1, <2>3, <3>3
  <2> QED  BY <1>9, <2>1, <2>2, <2>3
<1>11. p2 = IF Accepted(f) THEN Machine(q, sw) ELSE p  BY <1>8, <1>9
<1>12. p2 \in PumpType /\ p2.validated = q.validated
  <2>1. CASE Accepted(f)  BY <1>1, <1>10, <1>11, <2>1, MachineFacts
  <2>2. CASE ~Accepted(f)  BY <1>1, <1>10, <1>11, <2>2
  <2> QED  BY <2>1, <2>2
<1>13. Tapped(fs2, h, p2, st)
  <2>1. \A i \in DOMAIN fs2 : \E b \in 0..st.amount : Glimpse(fs2[i], st.sale, b)
    BY DEF NozzleInv, Tapped
  <2>2. h.volume > 0 /\ h.total = Expected(h) => p2.validated = h
    <3> SUFFICES ASSUME h.volume > 0, h.total = Expected(h)  PROVE p2.validated = h
      OBVIOUS
    <3>1. Accepted(f) /\ h = Exact(s, a)  BY <1>6, <1>7, <1>8
    <3>2. a > 0
      <4>1. CASE a = 0
        <5>1. 0 * Portion = 0  BY StationAssumption
        <5>2. h.volume = 0  BY <1>5, <4>1, <5>1
        <5> QED  BY <5>2
      <4> QED  BY <4>1, StationAssumption DEF Amounts
    <3> QED  BY <1>10, <1>12, <3>1, <3>2
  <2> QED  BY <1>4, <2>1, <2>2 DEF Tapped
\* Once the switch is down.
<1>14. ASSUME ~st.up, st.sale > 0, ~sw
       PROVE  /\ st.amount > 0 /\ s = st.sale /\ a = st.amount
              /\ q.validated = Exact(st.sale, st.amount)
  BY <1>10, <1>14 DEF NozzleInv, Hung
<1>15. h # None
  <2>1. h \in [sale : Nat, unit : Nat, volume : Nat, total : Nat]
    BY <1>5, StationAssumption, FuelAssumption DEF FrameType
  <2> QED  BY <2>1, FuelAssumption
<1>16. Hung(fs2, h, sw, p2, st)
  <2> SUFFICES ASSUME ~st.up, st.sale > 0  PROVE Hung(fs2, h, sw, p2, st)
    BY DEF Hung
  <2>1. st.amount > 0  BY DEF NozzleInv, Hung
  <2>2. CASE sw  BY <2>1, <2>2 DEF Hung
  <2>3. CASE ~sw
    <3>1. \A i \in DOMAIN fs2 : Glimpse(fs2[i], st.sale, st.amount)
      BY <2>3 DEF NozzleInv, Hung
    <3>2. Glimpse(h, st.sale, st.amount) /\ p2.validated = Exact(st.sale, st.amount)
      BY <1>4, <1>12, <1>14, <2>3
    <3> QED  BY <1>15, <2>1, <3>1, <3>2 DEF Hung
  <2> QED  BY <1>1, <2>2, <2>3
<1>17. ASSUME sw, ~Accepted(f), st.sale > 0  PROVE ~SeenAt(fs2, h, st)
  <2> SUFFICES ASSUME h = Exact(st.sale, st.amount)  PROVE FALSE
    BY <1>17 DEF SeenAt
  <2>1. h.total = Price(st.amount) /\ Expected(h) = Price(st.amount)  BY <1>2, ExactFacts
  <2> QED  BY <1>6, <1>7, <1>17, <2>1
<1>18. Typed(fs2, h, sw, p2, FALSE, st, sd, pd)  BY <1>5, <1>12 DEF NozzleInv, Typed
<1>19. CASE ~Accepted(f)
  <2>1. p2 = p /\ pd2 = pd  BY <1>19
  <2>2. Noticed(fs2, h, sw, p2, FALSE, st, pd2)
    BY <1>17, <1>19, <2>1 DEF NozzleInv, Noticed, Follows
  <2>3. Follows(sw, p2, st, pd2) /\ Over(st, sd) /\ Published(sd, pd2)  BY <2>1 DEF NozzleInv
  <2> QED  BY <1>4, <1>13, <1>16, <1>18, <2>1, <2>2, <2>3 DEF NozzleInv
<1>20. CASE Accepted(f)
  <2>1. p2 = Machine(q, sw)  BY <1>11, <1>20
  <2>2. q.nozzle \in {"unknown", "pumping", "stopping", "stopped"}  BY <1>10 DEF PumpType
  <2>3. CASE q.nozzle # "stopped"
    <3>1. pd2 = pd  BY <1>10, <2>3
    <3>2. Follows(sw, p2, st, pd) /\ Noticed(fs2, h, sw, p2, FALSE, st, pd)
      <4>1. st.up \/ sw => st.sale > 0 /\ Unpublished(pd, st.sale)  BY DEF NozzleInv, Follows
      <4>2. CASE q.nozzle = "unknown" /\ sw
        <5>1. p2.nozzle = "pumping" /\ p2.nozzleAge = 0
          <6>1. q \in PumpType /\ sw \in BOOLEAN /\ sw /\ q.nozzle = "unknown"
            BY <1>1, <1>10, <4>2
          <6> QED  BY ONLY <2>1, <6>1, MachineFacts
        <5>2. st.age = 0  BY <1>10, <4>2 DEF NozzleInv, Noticed
        <5>3. p2.nozzleAge >= st.age  BY <5>1, <5>2
        <5> QED  BY <4>1, <4>2, <5>1, <5>2, <5>3 DEF Follows, Noticed
      <4>3. CASE q.nozzle = "unknown" /\ ~sw
        <5>1. p2.nozzle = "unknown"  BY <1>1, <1>10, <2>1, <4>3, MachineFacts
        <5> QED  BY <1>10, <4>1, <4>3, <5>1 DEF NozzleInv, Follows, Noticed
      <4>4. CASE q.nozzle = "pumping" /\ sw
        <5>1. p2.nozzle = "pumping" /\ p2.nozzleAge = p.nozzleAge
          BY ZenonT(60), <1>1, <1>10, <2>1, <4>4, MachineFacts
        <5> QED  BY <1>10, <4>1, <4>4, <5>1 DEF NozzleInv, Follows, Noticed
      <4>5. CASE q.nozzle = "pumping" /\ ~sw
        <5>1. ~st.up /\ st.sale > 0 /\ Unpublished(pd, st.sale) /\ p.nozzleAge >= st.age
          BY <1>1, <1>10, <4>5 DEF NozzleInv, Follows
        <5>2. \/ p2.nozzle = "unknown" /\ p.nozzleAge < Short
              \/ p2.nozzle = "stopping" /\ p2.committed = q.validated
          BY <1>1, <1>10, <2>1, <4>5, MachineFacts
        <5>3. CASE p2.nozzle = "unknown" /\ p.nozzleAge < Short
          <6>1. p.nozzleAge \in Nat  BY <1>1, <1>3 DEF PumpType
          <6>2. ~(st.age >= Short)  BY <1>3, <5>1, <5>3, <6>1
          <6> QED  BY <4>5, <5>1, <5>3, <6>2 DEF Follows, Noticed
        <5>4. CASE p2.nozzle = "stopping" /\ p2.committed = q.validated
          BY <1>14, <4>5, <5>1, <5>4 DEF Follows, Noticed
        <5> QED  BY <5>2, <5>3, <5>4
      <4>6. CASE q.nozzle = "stopping"
        <5>1. /\ ~st.up /\ ~sw /\ st.sale > 0 /\ Unpublished(pd, st.sale)
              /\ p.committed = Exact(st.sale, st.amount)
          BY <1>10, <4>6 DEF NozzleInv, Follows
        <5>2. p2.nozzle \in {"stopping", "stopped"} /\ p2.committed \in {q.committed, q.validated}
          BY <1>1, <1>10, <2>1, <4>6, MachineFacts
        <5>3. p2.committed = Exact(st.sale, st.amount)  BY <1>10, <1>14, <5>1, <5>2
        <5> QED  BY <5>1, <5>2, <5>3 DEF Follows, Noticed
      <4> QED  BY <1>1, <2>2, <2>3, <4>2, <4>3, <4>4, <4>5, <4>6
    <3> QED  BY <1>4, <1>13, <1>16, <1>18, <3>1, <3>2 DEF NozzleInv
  <2>4. CASE q.nozzle = "stopped"
    <3>1. /\ ~st.up /\ ~sw /\ st.sale > 0 /\ Unpublished(pd, st.sale)
          /\ p.committed = Exact(st.sale, st.amount)
      BY <1>10, <2>4 DEF NozzleInv, Follows
    <3>2. p2.nozzle = "unknown" /\ p2.committed = q.committed
      BY <1>1, <1>10, <2>1, <2>4, MachineFacts
    <3>3. PICK e \in FrameType : /\ e = Exact(st.sale, st.amount) /\ e.sale = st.sale
                                 /\ e.volume = st.amount * Portion
                                 /\ e.total = Price(st.amount)
      BY <1>2, ExactFacts
    <3>4. pd2 = Append(pd, e)  BY <1>10, <1>20, <2>4, <3>1, <3>2, <3>3
    <3>5. /\ pd2 \in Seq(FrameType) /\ Len(pd2) = Len(pd) + 1 /\ pd2[Len(pd2)] = e
          /\ \A i \in DOMAIN pd : pd2[i] = pd[i]
          /\ DOMAIN pd2 = 1..Len(pd) + 1 /\ DOMAIN pd = 1..Len(pd) /\ Len(pd) \in Nat
      BY <1>1, <3>4
    <3>6. Follows(sw, p2, st, pd2)  BY <3>1, <3>2 DEF Follows
    <3>7. Noticed(fs2, h, sw, p2, FALSE, st, pd2)
      <4>1. Len(pd2) \in DOMAIN pd2 /\ pd2[Len(pd2)].sale = st.sale  BY <3>3, <3>5
      <4> QED  BY <3>1, <4>1 DEF Noticed
    <3>8. Published(sd, pd2)
      <4>1. Len(sd) = st.sale /\ sd[st.sale] = st.amount  BY <3>1 DEF NozzleInv, Over
      <4>2. st.sale \in DOMAIN sd  BY <1>1, <1>2, <3>1, <4>1
      <4> SUFFICES ASSUME NEW i \in DOMAIN pd2
                   PROVE  /\ pd2[i].sale \in DOMAIN sd
                          /\ pd2[i].volume = sd[pd2[i].sale] * Portion
                          /\ pd2[i].total = Price(sd[pd2[i].sale])
                          /\ i > 1 => pd2[i - 1].sale < pd2[i].sale
        BY DEF Published
      <4>3. CASE i \in DOMAIN pd
        <5>1. i > 1 => i - 1 \in DOMAIN pd  BY <3>5, <4>3
        <5> QED  BY <3>5, <4>3, <5>1 DEF NozzleInv, Published
      <4>4. CASE i \notin DOMAIN pd
        <5>1. i = Len(pd2) /\ pd2[i] = e  BY <3>5, <4>4
        <5>2. i > 1 => i - 1 \in DOMAIN pd  BY <3>5, <5>1
        <5>3. i > 1 => pd2[i - 1].sale < st.sale  BY <3>1, <3>5, <5>2 DEF Unpublished
        <5> QED  BY <3>3, <4>1, <4>2, <5>1, <5>3
      <4> QED  BY <4>3, <4>4
    <3>9. Typed(fs2, h, sw, p2, FALSE, st, sd, pd2)  BY <1>18, <3>5 DEF Typed
    <3> QED  BY <1>4, <1>13, <1>16, <3>6, <3>7, <3>8, <3>9 DEF NozzleInv
  <2> QED  BY <2>3, <2>4
<1> QED  BY <1>19, <1>20

\* There has been no frame at all.
LEMMA NoFrameKeeps ==
  ASSUME PricesShown, NEW fs, NEW sw, NEW p, NEW st, NEW sd, NEW pd,
         NozzleInv(fs, None, sw, p, TRUE, st, sd, pd)
  PROVE  NozzleInv(fs, None, sw, p, FALSE, st, sd, pd)
<1>1. st.sale \in 0..LastSale /\ st.amount \in Amounts  BY DEF NozzleInv, Typed, StationType
<1>2. sw => st.sale > 0  BY DEF NozzleInv, Follows
<1>3. st.sale > 0 => ~SeenAt(fs, None, st)  BY <1>1, ExactFacts DEF SeenAt
<1>4. Noticed(fs, None, sw, p, FALSE, st, pd)  BY <1>2, <1>3 DEF NozzleInv, Noticed
<1>5. Typed(fs, None, sw, p, FALSE, st, sd, pd)  BY DEF NozzleInv, Typed
<1> QED  BY <1>4, <1>5 DEF NozzleInv

-----------------------------------------------------------------------------
(* Every step keeps every nozzle's invariant.                              *)

\* No frame is lost, no nozzle is lifted too early, and each sale is of something.
Steady == Faults \cap {"slow", "quick", "idle"} = {}

Stays(m) ==
  /\ frames'[m] = frames[m] /\ shown'[m] = shown[m] /\ switch'[m] = switch[m]
  /\ pump'[m] = pump[m] /\ station'[m] = station[m]
  /\ sold'[m] = sold[m] /\ pumped'[m] = pumped[m]
  /\ Due(m) => Due(m)'

\* Nothing is known of the nozzles at first.
LEMMA NozzlesInit == ASSUME Init PROVE NozzlesInv
<1>1. /\ frames = [n \in Nozzles |-> <<>>] /\ switch = [n \in Nozzles |-> FALSE]
      /\ shown = [n \in Nozzles |-> None] /\ pump = [n \in Nozzles |-> NoPump]
      /\ pass = [runs |-> FALSE, left |-> {}] /\ woken = FALSE
      /\ pumped = [n \in Nozzles |-> <<>>] /\ sold = [n \in Nozzles |-> <<>>]
      /\ station = [n \in Nozzles |-> [up |-> FALSE, sale |-> 0, amount |-> 0, age |-> 0]]
  BY DEF Init, FuelInit
<1>2. Domains  BY <1>1 DEF Domains
<1> SUFFICES ASSUME NEW n \in Nozzles  PROVE TheNozzle(n)
  BY <1>2 DEF NozzlesInv
<1>3. PICK s \in StationType : s = [up |-> FALSE, sale |-> 0, amount |-> 0, age |-> 0]
  <2>1. 0 \in 0..LastSale /\ 0 \in 0..LastAmount /\ 0 \in 0..Short
    BY StationAssumption, FuelAssumption
  <2> QED  BY <2>1 DEF StationType, Amounts
<1>4. NoPump \in PumpType /\ NoPump.nozzle = "unknown"
  BY FuelAssumption DEF NoPump, PumpType
<1>5. Due(n) = FALSE  BY <1>1 DEF Due
<1>6. Typed(<<>>, None, FALSE, NoPump, FALSE, s, <<>>, <<>>)  BY <1>4 DEF Typed
<1>7. Tapped(<<>>, None, NoPump, s) /\ Hung(<<>>, None, FALSE, NoPump, s)
  BY <1>3 DEF Tapped, Hung
<1>8. Follows(FALSE, NoPump, s, <<>>) /\ Noticed(<<>>, None, FALSE, NoPump, FALSE, s, <<>>)
  BY <1>3, <1>4 DEF Follows, Noticed
<1>9. Over(s, <<>>) /\ Published(<<>>, <<>>)  BY <1>3 DEF Over, Published
<1>10. NozzleInv(<<>>, None, FALSE, NoPump, FALSE, s, <<>>, <<>>)
  BY <1>6, <1>7, <1>8, <1>9 DEF NozzleInv
<1> QED  BY <1>1, <1>3, <1>5, <1>10 DEF TheNozzle

\* The nozzles a step leaves alone.
LEMMA NozzleStays ==
  ASSUME NozzlesInv, NEW m \in Nozzles, Stays(m)
  PROVE  TheNozzle(m)'
<1>1. NozzleInv(frames[m], shown[m], switch[m], pump[m], Due(m), station[m], sold[m], pumped[m])
  BY DEF NozzlesInv, TheNozzle
<1>2. PICK d \in BOOLEAN : d = Due(m)'  BY DEF Due
<1>3. Due(m) => d  BY <1>2 DEF Stays
<1>4. NozzleInv(frames[m], shown[m], switch[m], pump[m], d, station[m], sold[m], pumped[m])
  BY <1>1, <1>3, DueKeeps
<1> QED  BY <1>2, <1>4 DEF TheNozzle, Stays

\* A step of one nozzle.
LEMMA OthersStay ==
  ASSUME NozzlesInv, NEW n \in Nozzles, Domains', \A m \in Nozzles \ {n} : Stays(m), TheNozzle(n)'
  PROVE  NozzlesInv'
BY NozzleStays DEF NozzlesInv

\* A nozzle is lifted: only when the last sale is over and the module has come to rest.
LEMMA LiftStep ==
  ASSUME Steady, NozzlesInv, NEW n \in Nozzles, Lift(n)
  PROVE  NozzlesInv'
<1>1. UNCHANGED <<frames, switch, shown, pump, pass, woken, pumped, sold>>
  BY DEF Lift, fuelVars
<1>2. /\ ~station[n].up /\ station[n].sale < LastSale /\ frames[n] = <<>> /\ ~switch[n]
      /\ pump[n].nozzle = "unknown"
  <2>1. Debounced(n) /\ Rested(n) /\ pump[n].nozzle = "unknown"  BY DEF Lift, Steady
  <2>2. switch[n] \in BOOLEAN /\ station[n].up \in BOOLEAN
    BY DEF NozzlesInv, TheNozzle, NozzleInv, Typed, StationType
  <2> QED  BY <2>1, <2>2 DEF Lift, Debounced, Rested, Seen
<1>3. PICK s2 : s2 = [up |-> TRUE, sale |-> station[n].sale + 1, amount |-> 0, age |-> 0]
  OBVIOUS
<1>4. station' = [station EXCEPT ![n] = s2]  BY <1>3 DEF Lift, NozzlesInv, Domains
<1>5. NozzleInv(frames[n], shown[n], switch[n], pump[n], Due(n), s2, sold[n], pumped[n])
  BY <1>2, <1>3, LiftKeeps DEF NozzlesInv, TheNozzle
<1>6. station'[n] = s2 /\ \A m \in Nozzles \ {n} : station'[m] = station[m]
  BY <1>4 DEF NozzlesInv, Domains
<1>7. Domains'  BY <1>1, <1>4 DEF NozzlesInv, Domains
<1>8. TheNozzle(n)'  BY <1>1, <1>5, <1>6 DEF TheNozzle, Due
<1>9. \A m \in Nozzles \ {n} : Stays(m)  BY <1>1, <1>6 DEF Stays, Due
<1> QED  BY <1>7, <1>8, <1>9, OthersStay

\* What the display shows is a glimpse, with a wrong digit too.
LEMMA DisplayGlimpse ==
  ASSUME NEW s \in 0..LastSale, NEW a \in Amounts, NEW f,
         f = Display(s, a) \/ f = [Display(s, a) EXCEPT !.total = @ + 7]
  PROVE  Glimpse(f, s, a)
<1>1. a \in Nat  BY StationAssumption DEF Amounts
<1>2. a * Portion \in Nat /\ Price(a) \in Nat  BY <1>1, PriceNat
<1>3. PICK t \in Nat : t = Price(a) % Rollover  BY <1>2, RolloverNat, Division
<1>4. Display(s, a) = [sale |-> s, unit |-> UnitPrice, volume |-> a * Portion, total |-> t]
  BY <1>3 DEF Display, Frame
<1>5. PICK e \in {0, 7} :
        f = [sale |-> s, unit |-> UnitPrice, volume |-> a * Portion, total |-> t + e]
  <2>1. CASE f = Display(s, a)
    <3>1. t = t + 0  OBVIOUS
    <3> QED  BY <1>4, <2>1, <3>1
  <2>2. CASE f = [Display(s, a) EXCEPT !.total = @ + 7]  BY <1>4, <2>2
  <2> QED  BY <2>1, <2>2
<1>6. f \in FrameType  BY <1>2, <1>5 DEF FrameType
<1>7. f.total = (Price(a) % Rollover) + e + 0 * Rollover
  <2>1. 0 * Rollover = 0  BY RolloverNat
  <2> QED  BY <1>3, <1>5, <2>1
<1> QED  BY <1>5, <1>6, <1>7 DEF Glimpse

\* A frame comes of a nozzle, whose amount is perhaps one more.
LEMMA FrameStep ==
  ASSUME NozzlesInv, NEW n \in Nozzles, NEW s2 \in StationType,
         s2.up = station[n].up, s2.sale = station[n].sale, s2.age = station[n].age,
         s2.amount = station[n].amount
           \/ (station[n].up /\ s2.amount = station[n].amount + 1),
         station' = [station EXCEPT ![n] = s2], sold' = sold,
         NEW f, Glimpse(f, s2.sale, s2.amount), FrameArrives(n, f)
  PROVE  NozzlesInv'
<1>1. UNCHANGED <<switch, shown, pump, pass, pumped>> /\ woken' = TRUE
  BY DEF FrameArrives
<1>2. PICK f2 : f2 = IF Len(frames[n]) < FrameDepth THEN Append(frames[n], f) ELSE frames[n]
  OBVIOUS
<1>3. frames' = [frames EXCEPT ![n] = f2]  BY <1>2 DEF FrameArrives, NozzlesInv, Domains
<1>4. NozzleInv(f2, shown[n], switch[n], pump[n], TRUE, s2, sold[n], pumped[n])
  BY <1>2, FrameKeeps DEF NozzlesInv, TheNozzle
<1>5. /\ station'[n] = s2 /\ \A m \in Nozzles \ {n} : station'[m] = station[m]
      /\ frames'[n] = f2 /\ \A m \in Nozzles \ {n} : frames'[m] = frames[m]
  BY <1>3 DEF NozzlesInv, Domains
<1>6. Domains'  BY <1>1, <1>3 DEF NozzlesInv, Domains
<1>7. TheNozzle(n)'  BY <1>1, <1>4, <1>5 DEF TheNozzle, Due
<1>8. \A m \in Nozzles \ {n} : Stays(m)  BY <1>1, <1>5 DEF Stays, Due
<1> QED  BY <1>6, <1>7, <1>8, OthersStay

\* Some fuel is delivered, and the display shows it.
LEMMA DeliverStep ==
  ASSUME NozzlesInv, NEW n \in Nozzles, Deliver(n)
  PROVE  NozzlesInv'
<1>1. station[n] \in StationType  BY DEF NozzlesInv, TheNozzle, NozzleInv, Typed
<1>2. station[n].amount + 1 \in Amounts /\ station[n].sale \in 0..LastSale
  BY <1>1, StationAssumption DEF Deliver, StationType, Amounts
<1>3. PICK s2 \in StationType : /\ s2 = [station[n] EXCEPT !.amount = station[n].amount + 1]
                                /\ s2.up = station[n].up /\ s2.sale = station[n].sale
                                /\ s2.age = station[n].age
                                /\ s2.amount = station[n].amount + 1
  <2>1. PICK s \in StationType : s = station[n]  BY <1>1
  <2>2. PICK a \in Amounts : a = s.amount + 1  BY <1>2, <2>1
  <2>3. PICK r \in StationType : r = [s EXCEPT !.amount = a]  BY DEF StationType
  <2>4. r.up = s.up /\ r.sale = s.sale /\ r.age = s.age /\ r.amount = a
    BY <2>3 DEF StationType
  <2> QED  BY <2>1, <2>2, <2>3, <2>4
<1>4. station' = [station EXCEPT ![n] = s2]  BY <1>3 DEF Deliver, NozzlesInv, Domains
<1>5. PICK f : f = Display(s2.sale, s2.amount) /\ FrameArrives(n, f)
  BY <1>3 DEF Deliver, Shows
<1>6. Glimpse(f, s2.sale, s2.amount)  BY <1>2, <1>3, <1>5, DisplayGlimpse
<1> QED  BY <1>3, <1>4, <1>5, <1>6, FrameStep DEF Deliver

\* The display repeats what it shows, or what noise makes of it.
LEMMA RefreshStep ==
  ASSUME NozzlesInv, NEW n \in Nozzles, Refresh(n) \/ Noise(n)
  PROVE  NozzlesInv'
<1>1. PICK s \in StationType : s = station[n]  BY DEF NozzlesInv, TheNozzle, NozzleInv, Typed
<1>2. s.amount \in Amounts /\ s.sale \in 0..LastSale  BY DEF StationType
<1>3. station' = [station EXCEPT ![n] = s] /\ sold' = sold
  <2>1. station' = station /\ sold' = sold  BY DEF Refresh, Noise, stationVars
  <2> QED  BY <1>1, <2>1 DEF NozzlesInv, Domains
<1>4. PICK f : /\ \/ f = Display(s.sale, s.amount)
                  \/ f = [Display(s.sale, s.amount) EXCEPT !.total = @ + 7]
               /\ FrameArrives(n, f)
  BY <1>1 DEF Refresh, Noise, Shows
<1>5. Glimpse(f, s.sale, s.amount)  BY <1>2, <1>4, DisplayGlimpse
<1> QED  BY <1>1, <1>3, <1>4, <1>5, FrameStep

\* A nozzle is hung up: its sale is over.
LEMMA HangStep ==
  ASSUME Steady, NozzlesInv, NEW n \in Nozzles, Hang(n)
  PROVE  NozzlesInv'
<1>1. UNCHANGED <<frames, switch, shown, pump, pass, woken, pumped>>
  BY DEF Hang, fuelVars
<1>2. station[n].up /\ station[n].amount > 0 /\ switch[n]
  BY DEF Hang, Steady, Debounced
<1>3. PICK s2 : s2 = [station[n] EXCEPT !.up = FALSE]  OBVIOUS
<1>4. PICK d2 : d2 = Append(sold[n], station[n].amount)  OBVIOUS
<1>5. station' = [station EXCEPT ![n] = s2] /\ sold' = [sold EXCEPT ![n] = d2]
  BY <1>3, <1>4 DEF Hang, NozzlesInv, Domains
<1>6. NozzleInv(frames[n], shown[n], switch[n], pump[n], Due(n), s2, d2, pumped[n])
  BY <1>2, <1>3, <1>4, HangKeeps DEF NozzlesInv, TheNozzle
<1>7. /\ station'[n] = s2 /\ \A m \in Nozzles \ {n} : station'[m] = station[m]
      /\ sold'[n] = d2 /\ \A m \in Nozzles \ {n} : sold'[m] = sold[m]
  BY <1>5 DEF NozzlesInv, Domains
<1>8. Domains'  BY <1>1, <1>5 DEF NozzlesInv, Domains
<1>9. TheNozzle(n)'  BY <1>1, <1>6, <1>7 DEF TheNozzle, Due
<1>10. \A m \in Nozzles \ {n} : Stays(m)  BY <1>1, <1>7 DEF Stays, Due
<1> QED  BY <1>8, <1>9, <1>10, OthersStay

\* A nozzle the module has come to rest at.
LEMMA RestedFacts ==
  ASSUME NozzlesInv, NEW n \in Nozzles, Rested(n)
  PROVE  /\ ~woken /\ ~pass.runs
         /\ NozzleInv(frames[n], shown[n], switch[n], pump[n], FALSE, station[n], sold[n],
                      pumped[n])
         /\ SeenAt(frames[n], shown[n], station[n])
<1>1. ~woken /\ ~pass.runs /\ Seen(n)  BY DEF Rested
<1>2. Due(n) = FALSE  BY <1>1 DEF Due
<1> QED  BY <1>1, <1>2 DEF NozzlesInv, TheNozzle, Seen, SeenAt, Exact

\* The switch follows the nozzle.
LEMMA DebounceStep ==
  ASSUME Steady, PricesShown, NozzlesInv, NEW n \in Nozzles, Debounce(n)
  PROVE  NozzlesInv'
<1>1. /\ UNCHANGED <<frames, shown, pump, pass, pumped, station, sold>>
      /\ woken' = TRUE /\ switch' = [switch EXCEPT ![n] = station[n].up]
  BY DEF Debounce, SwitchTurns, stationVars
<1>2. Rested(n) /\ switch[n] # station[n].up  BY DEF Debounce, Steady, Debounced
<1>3. PICK w2 \in BOOLEAN : w2 = station[n].up
  BY DEF NozzlesInv, TheNozzle, NozzleInv, Typed, StationType
<1>4. NozzleInv(frames[n], shown[n], w2, pump[n], TRUE, station[n], sold[n], pumped[n])
  <2>1. PICK fs, sh, sw, p, st, sd, pd :
          /\ fs = frames[n] /\ sh = shown[n] /\ sw = switch[n] /\ p = pump[n]
          /\ st = station[n] /\ sd = sold[n] /\ pd = pumped[n]
    OBVIOUS
  <2>2. /\ NozzleInv(fs, sh, sw, p, FALSE, st, sd, pd) /\ SeenAt(fs, sh, st)
        /\ st.up # sw
    BY <1>2, <2>1, RestedFacts
  <2>3. NozzleInv(fs, sh, st.up, p, TRUE, st, sd, pd)
    BY ONLY PricesShown, <2>2, DebounceKeeps
  <2> QED  BY <1>3, <2>1, <2>3
<1>5. switch'[n] = w2 /\ \A m \in Nozzles \ {n} : switch'[m] = switch[m]
  BY <1>1, <1>3 DEF NozzlesInv, Domains
<1>6. Domains'  BY <1>1 DEF NozzlesInv, Domains
<1>7. TheNozzle(n)'  BY <1>1, <1>4, <1>5 DEF TheNozzle, Due
<1>8. \A m \in Nozzles \ {n} : Stays(m)  BY <1>1, <1>5 DEF Stays, Due
<1> QED  BY <1>6, <1>7, <1>8, OthersStay

\* Time passes while the module rests.
LEMMA ClockStep ==
  ASSUME Steady, NozzlesInv, Clock
  PROVE  NozzlesInv'
<1>1. UNCHANGED <<frames, switch, shown, pass, woken, pumped, sold>>  BY DEF Clock
<1>2. \A n \in Nozzles : Rested(n)  BY DEF Clock, Steady
<1>3. pump' = [n \in Nozzles |->
        [pump[n] EXCEPT !.valueAge = Older(@, Settle + 1), !.pumpingAge = Older(@, Quiet + 1),
                        !.nozzleAge = Older(@, Short)]]
  BY DEF Clock
<1>4. station' = [n \in Nozzles |->
        [station[n] EXCEPT !.age = IF switch[n] THEN Older(@, Short) ELSE @]]
  BY DEF Clock
<1>5. Domains'  BY <1>1, <1>3, <1>4 DEF NozzlesInv, Domains
<1> SUFFICES ASSUME NEW n \in Nozzles  PROVE TheNozzle(n)'
  BY <1>5 DEF NozzlesInv
<1>6. PICK fs, sh, sw, p, st, sd, pd :
        /\ fs = frames[n] /\ sh = shown[n] /\ sw = switch[n] /\ p = pump[n]
        /\ st = station[n] /\ sd = sold[n] /\ pd = pumped[n]
  OBVIOUS
<1>7. ~woken /\ ~pass.runs /\ NozzleInv(fs, sh, sw, p, FALSE, st, sd, pd) /\ SeenAt(fs, sh, st)
  BY <1>2, <1>6, RestedFacts
<1>8. p \in PumpType  BY <1>7 DEF NozzleInv, Typed
<1>9. Settle + 1 \in Nat /\ Quiet + 1 \in Nat /\ p.valueAge \in Nat /\ p.pumpingAge \in Nat
  BY <1>8, FuelAssumption DEF PumpType
<1>10. PICK v \in Nat : v = Older(p.valueAge, Settle + 1)  BY <1>9 DEF Older
<1>11. PICK g \in Nat : g = Older(p.pumpingAge, Quiet + 1)  BY <1>9 DEF Older
<1>12. PICK p2 : p2 = [p EXCEPT !.valueAge = v, !.pumpingAge = g,
                                !.nozzleAge = Older(p.nozzleAge, Short)]
  OBVIOUS
<1>13. PICK s2 : s2 = [st EXCEPT !.age = IF sw THEN Older(st.age, Short) ELSE st.age]
  OBVIOUS
<1>14. NozzleInv(fs, sh, sw, p2, FALSE, s2, sd, pd)
  BY ONLY <1>7, v \in Nat, g \in Nat, <1>12, <1>13, ClockKeeps
<1>15. pump'[n] = p2  BY <1>3, <1>6, <1>10, <1>11, <1>12
<1>16. station'[n] = s2  BY <1>4, <1>6, <1>13
<1>17. Due(n)' = FALSE  BY <1>1, <1>7 DEF Due
<1> QED  BY <1>1, <1>6, <1>14, <1>15, <1>16, <1>17 DEF TheNozzle

\* The steps of the module that leave the nozzles to what they are.
LEMMA PassStep ==
  ASSUME NozzlesInv, AlarmHandled \/ PassBegins \/ PassEnds, UNCHANGED stationVars
  PROVE  NozzlesInv'
<1>1. UNCHANGED <<frames, shown, switch, pump, pumped, station, sold>>
  BY DEF AlarmHandled, PassBegins, PassEnds, stationVars
<1>2. /\ woken' \in BOOLEAN /\ pass' \in [runs : BOOLEAN, left : SUBSET Nozzles]
      /\ pass'.left # {} => pass'.runs
      /\ \A m \in Nozzles : Due(m) => Due(m)'
  <2>1. CASE AlarmHandled
    <3>1. woken' = TRUE /\ pass' = pass  BY <2>1 DEF AlarmHandled
    <3> QED  BY <3>1 DEF NozzlesInv, Domains, Due
  <2>2. CASE PassBegins
    <3>1. woken' = FALSE /\ pass' = [runs |-> TRUE, left |-> Nozzles]  BY <2>2 DEF PassBegins
    <3>2. pass' \in [runs : BOOLEAN, left : SUBSET Nozzles] /\ pass'.runs /\ pass'.left = Nozzles
      BY <3>1
    <3> QED  BY <3>1, <3>2 DEF Due
  <2>3. CASE PassEnds
    <3>1. woken' = woken /\ pass' = [pass EXCEPT !.runs = FALSE] /\ pass.left = {}
      BY <2>3 DEF PassEnds
    <3>2. pass' \in [runs : BOOLEAN, left : SUBSET Nozzles] /\ pass'.left = {}
      BY <3>1 DEF NozzlesInv, Domains
    <3> QED  BY <3>1, <3>2 DEF NozzlesInv, Domains, Due
  <2> QED  BY <2>1, <2>2, <2>3
<1>3. Domains'  BY <1>1, <1>2 DEF NozzlesInv, Domains
<1>4. \A m \in Nozzles : Stays(m)  BY <1>1, <1>2 DEF Stays
<1> QED  BY <1>3, <1>4, NozzleStays DEF NozzlesInv

\* One turn of the loop over the nozzles.
LEMMA TurnStep ==
  ASSUME PricesShown, NozzlesInv, NEW n \in Nozzles, Turn(n), UNCHANGED stationVars
  PROVE  NozzlesInv'
<1>1. UNCHANGED <<switch, woken, station, sold>>  BY DEF Turn, stationVars
<1>2. PICK fs, sh, sw, p, st, sd, pd :
        /\ fs = frames[n] /\ sh = shown[n] /\ sw = switch[n] /\ p = pump[n]
        /\ st = station[n] /\ sd = sold[n] /\ pd = pumped[n]
  OBVIOUS
<1>3. NozzleInv(fs, sh, sw, p, Due(n), st, sd, pd)
  BY <1>2 DEF NozzlesInv, TheNozzle
<1>4. NozzleInv(fs, sh, sw, p, TRUE, st, sd, pd)
  <2>1. PICK d : d = Due(n) /\ NozzleInv(fs, sh, sw, p, d, st, sd, pd)  BY <1>3
  <2> QED  BY ONLY <2>1, DueKeeps
<1>5. /\ fs \in Seq(FrameType) /\ sh \in FrameType \cup {None}
      /\ st.sale \in Nat /\ st.sale \in 0..LastSale /\ st.amount \in Nat /\ st.amount \in Amounts
  BY <1>4, StationAssumption DEF NozzleInv, Typed, StationType, Amounts
<1>6. None \notin FrameType
  <2>1. FrameType \subseteq [sale : Nat, unit : Nat, volume : Nat, total : Nat]
    BY StationAssumption, FuelAssumption DEF FrameType
  <2> QED  BY <2>1, FuelAssumption
<1>7. PICK f : f = IF fs # <<>> THEN Head(fs) ELSE sh  OBVIOUS
<1>8. PICK fs2 : fs2 = IF fs # <<>> THEN Tail(fs) ELSE fs  OBVIOUS
<1>9. PICK p2 : p2 = IF Accepted(f) THEN Machine(Validated(p, Processed(f)), sw) ELSE p
  OBVIOUS
<1>10. PICK pd2 : pd2 = IF Accepted(f) /\ p.nozzle = "stopped"
                        THEN Append(pd, p2.committed) ELSE pd
  OBVIOUS
<1>11. /\ frames' = IF fs # <<>> THEN [frames EXCEPT ![n] = Tail(@)] ELSE frames
       /\ shown' = IF f = None THEN shown ELSE [shown EXCEPT ![n] = Kept(f)]
       /\ f = None \/ ~Accepted(f) => pump' = pump /\ pumped' = pumped
       /\ f # None /\ Accepted(f) =>
            /\ pump' = [pump EXCEPT ![n] = p2]
            /\ pumped' = IF p.nozzle = "stopped"
                         THEN [pumped EXCEPT ![n] = Append(@, p2.committed)] ELSE pumped
       /\ pass' = IF fs # <<>> THEN pass ELSE [pass EXCEPT !.left = @ \ {n}]
  BY <1>2, <1>7, <1>9 DEF Turn
<1>12. /\ frames'[n] = fs2 /\ \A m \in Nozzles \ {n} : frames'[m] = frames[m]
       /\ frames' = [m \in Nozzles |-> frames'[m]] /\ DOMAIN frames' = Nozzles
  BY <1>2, <1>8, <1>11 DEF NozzlesInv, Domains
<1>13. /\ shown'[n] = IF f = None THEN sh ELSE Kept(f)
       /\ \A m \in Nozzles \ {n} : shown'[m] = shown[m]
       /\ shown' = [m \in Nozzles |-> shown'[m]] /\ DOMAIN shown' = Nozzles
  BY <1>2, <1>11 DEF NozzlesInv, Domains
<1>14. /\ pump'[n] = IF f = None THEN p ELSE p2
       /\ \A m \in Nozzles \ {n} : pump'[m] = pump[m]
       /\ pump' = [m \in Nozzles |-> pump'[m]] /\ DOMAIN pump' = Nozzles
  BY <1>2, <1>9, <1>11 DEF NozzlesInv, Domains
<1>15. /\ pumped'[n] = IF f = None THEN pd ELSE pd2
       /\ \A m \in Nozzles \ {n} : pumped'[m] = pumped[m]
       /\ pumped' = [m \in Nozzles |-> pumped'[m]] /\ DOMAIN pumped' = Nozzles
  BY <1>2, <1>10, <1>11 DEF NozzlesInv, Domains
<1>16. /\ pass' \in [runs : BOOLEAN, left : SUBSET Nozzles] /\ pass'.runs = pass.runs
       /\ pass'.left \subseteq pass.left /\ pass.left \ {n} \subseteq pass'.left
       /\ pass'.left # {} => pass'.runs
  BY <1>11 DEF NozzlesInv, Domains
<1>17. Domains'  BY <1>1, <1>12, <1>13, <1>14, <1>15, <1>16 DEF NozzlesInv, Domains
<1>18. \A m \in Nozzles \ {n} : Stays(m)
  BY <1>1, <1>12, <1>13, <1>14, <1>15, <1>16 DEF Stays, Due
<1>19. PICK due \in BOOLEAN : due = Due(n)'  BY DEF Due
<1>20. CASE f # None
  <2>1. /\ fs2 \in Seq(FrameType) /\ \A i \in DOMAIN fs2 : \E j \in DOMAIN fs : fs2[i] = fs[j]
    <3>1. CASE fs = <<>>  BY <1>5, <1>8, <3>1
    <3>2. CASE fs # <<>>
      <4>1. fs2 = Tail(fs) /\ fs2 \in Seq(FrameType) /\ Len(fs2) = Len(fs) - 1
        BY <1>5, <1>8, <3>2
      <4>2. \A i \in DOMAIN fs2 : i + 1 \in DOMAIN fs /\ fs2[i] = fs[i + 1]
        BY <1>5, <3>2, <4>1
      <4> QED  BY <4>1, <4>2
    <3> QED  BY <3>1, <3>2
  <2>2. PICK s \in 0..st.sale, a \in Amounts :
          /\ Glimpse(f, s, a)
          /\ ~st.up /\ ~sw /\ st.sale > 0 => s = st.sale /\ a = st.amount
    <3>1. CASE fs # <<>>
      <4>1. 1 \in DOMAIN fs /\ f = fs[1]  BY <1>5, <1>7, <3>1
      <4>2. PICK b \in 0..st.amount : Glimpse(f, st.sale, b)
        BY <1>4, <4>1 DEF NozzleInv, Tapped
      <4>3. st.sale \in 0..st.sale /\ b \in Amounts  BY <1>5, StationAssumption DEF Amounts
      <4>4. ~st.up /\ ~sw /\ st.sale > 0 => Glimpse(f, st.sale, st.amount)
        BY <1>4, <4>1 DEF NozzleInv, Hung
      <4> QED  BY <1>5, <4>2, <4>3, <4>4
    <3>2. CASE fs = <<>>
      <4>1. f = sh  BY <1>7, <3>2
      <4>2. PICK s \in 0..st.sale, b \in Amounts : Glimpse(f, s, b)
        BY <1>4, <1>20, <4>1 DEF NozzleInv, Tapped
      <4>3. ~st.up /\ ~sw /\ st.sale > 0 => Glimpse(f, st.sale, st.amount)
        BY <1>4, <4>1 DEF NozzleInv, Hung
      <4>4. st.sale \in 0..st.sale  BY <1>5
      <4> QED  BY <1>5, <4>2, <4>3, <4>4
    <3> QED  BY <3>1, <3>2
  <2>3. PICK h : h = Kept(f)  OBVIOUS
  <2>4. NozzleInv(fs2, h, sw, p2, due, st, sd, pd2)
    <3>1. Takes(fs, fs2, f, s, a, sw, st)  BY <2>1, <2>2 DEF Takes
    <3>2. Makes(f, sw, p, p2, pd, pd2)  BY <1>9, <1>10 DEF Makes
    <3>3. NozzleInv(fs2, h, sw, p2, FALSE, st, sd, pd2)
      BY ONLY PricesShown, <1>4, <2>3, <3>1, <3>2, TurnKeeps
    <3> QED  BY ONLY <3>3, due \in BOOLEAN, DueKeeps
  <2>5. TheNozzle(n)'
    BY <1>1, <1>2, <1>12, <1>13, <1>14, <1>15, <1>19, <1>20, <2>3, <2>4 DEF TheNozzle
  <2> QED  BY <1>17, <1>18, <2>5, OthersStay
<1>21. CASE f = None
  <2>1. fs = <<>> /\ sh = None
    <3>1. fs # <<>> => Head(fs) \in FrameType  BY <1>5
    <3> QED  BY <1>6, <1>7, <1>21, <3>1
  <2>2. NozzleInv(fs, None, sw, p, TRUE, st, sd, pd)  BY <1>4, <2>1
  <2>3. NozzleInv(fs, None, sw, p, FALSE, st, sd, pd)
    BY ONLY PricesShown, <2>2, NoFrameKeeps
  <2>4. NozzleInv(fs, sh, sw, p, due, st, sd, pd)
    BY ONLY <2>1, <2>3, due \in BOOLEAN, DueKeeps
  <2>5. TheNozzle(n)'
    BY <1>1, <1>2, <1>8, <1>12, <1>13, <1>14, <1>15, <1>19, <1>21, <2>1, <2>4 DEF TheNozzle
  <2> QED  BY <1>17, <1>18, <2>5, OthersStay
<1> QED  BY <1>20, <1>21

\* Every step keeps the invariant of the nozzles.
LEMMA NozzlesKept ==
  ASSUME Steady, PricesShown, NozzlesInv, [Next]_vars
  PROVE  NozzlesInv'
<1>1. CASE UNCHANGED <<fuelVars, stationVars>>
  <2>1. UNCHANGED <<frames, shown, switch, pump, pumped, station, sold, pass, woken>>
    BY <1>1 DEF fuelVars, stationVars
  <2> QED  BY <2>1 DEF NozzlesInv, Domains, TheNozzle, Due
<1>2. CASE Customer  BY <1>2, LiftStep, DeliverStep, HangStep DEF Customer
<1>3. CASE DisplayTap  BY <1>3, RefreshStep, DebounceStep DEF DisplayTap
<1>4. CASE Clock  BY <1>4, ClockStep
<1>5. CASE Module  BY <1>5, PassStep, TurnStep DEF Module, FuelTask
<1>6. CASE Service \/ SystemTimer \/ AlarmFails \/ UNCHANGED vars
  <2>1. UNCHANGED <<fuelVars, stationVars>>
    BY <1>6 DEF Service, SystemTimer, AlarmFails, vars, stationVars
  <2> QED  BY <1>1, <2>1
<1> QED  BY <1>2, <1>3, <1>4, <1>5, <1>6 DEF Next

\* "On confirmed complete transaction", module_fuel.cpp and the machine of sanki's driver:
\* what is published of a nozzle are sales that are over, with the volume and the price of
\* all that was delivered, each at most once and in their order, whatever frames are
\* misread and however the threads interleave, if no frame is lost and no nozzle is lifted
\* before its last sale is over.
THEOREM FuelPublishesSales ==
  ASSUME Steady, PricesShown  PROVE Spec => []PumpedIsSold
<1>1. Init => NozzlesInv  BY NozzlesInit
<1>2. NozzlesInv /\ [Next]_vars => NozzlesInv'  BY NozzlesKept
<1>3. NozzlesInv => PumpedIsSold
  BY DEF NozzlesInv, TheNozzle, NozzleInv, Published, PumpedIsSold
<1> QED  BY <1>1, <1>2, <1>3, PTL DEF Spec

\* Under the same conditions no sale is forgotten but those too short to be one: when the
\* module has come to rest at a nozzle on its hook, the last sale has been published.
THEOREM FuelForgetsNone ==
  ASSUME Steady, PricesShown  PROVE Spec => []SoldIsPumped
<1>1. Init => NozzlesInv  BY NozzlesInit
<1>2. NozzlesInv /\ [Next]_vars => NozzlesInv'  BY NozzlesKept
<1>3. NozzlesInv => SoldIsPumped
  BY DEF NozzlesInv, TheNozzle, NozzleInv, Noticed, SoldIsPumped, AtRest
<1> QED  BY <1>1, <1>2, <1>3, PTL DEF Spec

-----------------------------------------------------------------------------
(* The timer that wakes the module.                                        *)

FuelSlot    == [source : {"fuel"}, repeats : {FALSE}, due : BOOLEAN]
StartOfFuel == TimerStart("fuel", FALSE, FALSE)
StopOfFuel  == TimerStop("fuel")

TimerTypes ==
  /\ slots \in [1..SlotCount -> FuelSlot \cup {None}]
  /\ \A i, j \in 1..SlotCount : slots[i] # None /\ slots[j] # None => i = j
  /\ requests \in Seq({StartOfFuel, StopOfFuel})
  /\ tick \in [pending : Seq([dest : {"fuel"}, slot : 1..SlotCount]), sent : BOOLEAN]
  /\ tick.sent => tick.pending # <<>>
  /\ alarms \in [{"fuel"} -> Nat]

\* What the module asks for when a pass is over is what it has asked for last.
StartIsLast ==
  ~pass.runs /\ requests # <<>> /\ "fuel" \notin missed => requests[Len(requests)] = StartOfFuel

\* A timer that runs, and is not the one the callback is about to release.
Armed == \E i \in 1..SlotCount : slots[i] # None /\ (tick.sent => i # Alarm.slot)

\* The module will be woken, or its last request for a timer came to nothing.
Covered ==
  woken \/ alarms["fuel"] > 0 \/ requests # <<>> \/ Armed \/ "fuel" \in missed

Pumping == \E n \in Nozzles : pump[n].nozzle # "unknown"

\* Every pump has a machine of the nozzle.
Machines == DOMAIN pump = Nozzles /\ \A n \in Nozzles : "nozzle" \in DOMAIN pump[n]

WatchInv ==
  /\ TimerTypes /\ StartIsLast /\ Machines
  /\ pass \in [runs : BOOLEAN, left : SUBSET Nozzles] /\ (pass.left # {} => pass.runs)
  /\ Pumping /\ ~pass.runs => Covered

\* The parts of a sequence that is not empty.
LEMMA Tails ==
  ASSUME NEW S, NEW q \in Seq(S), q # <<>>
  PROVE  /\ Tail(q) \in Seq(S) /\ Head(q) \in S /\ Head(q) = q[1]
         /\ Tail(q) # <<>> => Tail(q)[Len(Tail(q))] = q[Len(q)]
         /\ Tail(q) = <<>> => Head(q) = q[Len(q)]
<1>1. Len(q) \in Nat /\ Len(q) > 0 /\ 1 \in DOMAIN q  OBVIOUS
<1>2. Tail(q) \in Seq(S) /\ Len(Tail(q)) = Len(q) - 1 /\ Head(q) = q[1]  OBVIOUS
<1>3. Tail(q) # <<>> => Tail(q)[Len(Tail(q))] = q[Len(q)]
  <2> SUFFICES ASSUME Tail(q) # <<>>  PROVE Tail(q)[Len(Tail(q))] = q[Len(q)]
    OBVIOUS
  <2>1. Len(q) - 1 \in 1..Len(Tail(q))  BY <1>1, <1>2
  <2> QED  BY <1>1, <1>2, <2>1
<1>4. Tail(q) = <<>> => Len(q) = 1  BY SMTT(30), <1>1, <1>2
<1> QED  BY <1>1, <1>2, <1>3, <1>4

\* No timer runs and no pass at first.
LEMMA WatchInit == ASSUME Init PROVE WatchInv
<1>1. /\ slots = [i \in 1..SlotCount |-> None] /\ requests = <<>>
      /\ tick = [pending |-> <<>>, sent |-> FALSE]
      /\ alarms = [r \in Requesters |-> 0]
      /\ pass = [runs |-> FALSE, left |-> {}] /\ pump = [n \in Nozzles |-> NoPump]
  BY DEF Init, TimerInit, FuelInit
<1>2. TimerTypes  BY <1>1, StationAssumption DEF TimerTypes
<1>3. ~Pumping /\ Machines  BY <1>1 DEF Pumping, NoPump, Machines
<1> QED  BY <1>1, <1>2, <1>3 DEF WatchInv, StartIsLast

\* What a step of the timer service leaves to be shown.
LEMMA TimerOnly ==
  ASSUME WatchInv, UNCHANGED <<fuelVars, stationVars>>, TimerTypes', StartIsLast',
         ~pass.runs /\ Covered => Covered'
  PROVE  WatchInv'
<1>1. pass' = pass /\ pump' = pump  BY DEF fuelVars
<1> QED  BY <1>1 DEF WatchInv, Pumping, Machines

\* The alarms of a tick: at most one slot is in use.
LEMMA SnapshotStep ==
  ASSUME WatchInv, TickSnapshot, UNCHANGED <<fuelVars, stationVars>>
  PROVE  WatchInv'
<1>1. PICK i \in DueSlots : TRUE  BY DEF TickSnapshot
<1>2. i \in 1..SlotCount /\ slots[i] # None  BY <1>1 DEF DueSlots, Active
<1>3. TimerTypes  BY DEF WatchInv
<1>4. slots[i] \in FuelSlot  BY <1>2, <1>3 DEF TimerTypes
<1>5. DueSlots = {i}  BY <1>1, <1>2, <1>3 DEF DueSlots, Active, TimerTypes
<1>6. Cardinality(DueSlots) = 1  BY <1>5, FS_Singleton
<1>7. Cardinality({m \in DueSlots : m < i}) = 0
  <2>1. {m \in DueSlots : m < i} = {}  BY <1>2, <1>5
  <2> QED  BY <2>1, FS_EmptySet
<1>8. (CHOOSE j \in DueSlots : Cardinality({m \in DueSlots : m < j}) = 1 - 1) = i
  BY <1>5, <1>7
<1>9. tick' = [pending |-> [k \in 1..1 |->
                LET j == CHOOSE j \in DueSlots : Cardinality({m \in DueSlots : m < j}) = k - 1
                IN [dest |-> slots[j].source, slot |-> j]],
              sent |-> FALSE]
  BY <1>6 DEF TickSnapshot
<1>10. PICK a : a = [dest |-> slots[i].source, slot |-> i]  OBVIOUS
<1>11. a \in [dest : {"fuel"}, slot : 1..SlotCount]  BY <1>2, <1>4, <1>10 DEF FuelSlot
<1>12. tick'.pending = [k \in 1..1 |-> a] /\ tick'.sent = FALSE
       /\ tick' = [pending |-> [k \in 1..1 |-> a], sent |-> FALSE]
  <2>1. \A k \in 1..1 : k = 1  OBVIOUS
  <2>2. [k \in 1..1 |->
                LET j == CHOOSE j \in DueSlots : Cardinality({m \in DueSlots : m < j}) = k - 1
                IN [dest |-> slots[j].source, slot |-> j]] = [k \in 1..1 |-> a]
    BY <1>8, <1>10, <2>1
  <2> QED  BY <1>9, <2>2
<1>13. [k \in 1..1 |-> a] \in Seq([dest : {"fuel"}, slot : 1..SlotCount])  BY <1>11
<1>14. slots' = slots
  <2>1. \A j \in 1..SlotCount : j \in DueSlots => ~slots[j].repeats
    BY <1>4, <1>5 DEF FuelSlot
  <2>2. slots' = [j \in 1..SlotCount |-> slots[j]]  BY <2>1 DEF TickSnapshot
  <2> QED  BY <1>3, <2>2 DEF TimerTypes
<1>15. requests' = requests /\ alarms' = alarms /\ missed' = missed  BY DEF TickSnapshot
<1>16. pass' = pass /\ woken' = woken  BY DEF fuelVars
<1>17. TimerTypes'  BY <1>3, <1>12, <1>13, <1>14, <1>15 DEF TimerTypes
<1>18. StartIsLast'  BY <1>15, <1>16 DEF WatchInv, StartIsLast
<1>19. Covered'  BY <1>2, <1>12, <1>14 DEF Covered, Armed
<1> QED  BY <1>17, <1>18, <1>19, TimerOnly

\* The callback sends the alarm.
LEMMA SendsStep ==
  ASSUME WatchInv, TickSends, UNCHANGED <<fuelVars, stationVars>>
  PROVE  WatchInv'
<1>1. TimerTypes  BY DEF WatchInv
<1>2. tick.pending # <<>> /\ tick.pending \in Seq([dest : {"fuel"}, slot : 1..SlotCount])
  BY <1>1 DEF TickSends, Sending, TimerTypes
<1>3. Alarm \in [dest : {"fuel"}, slot : 1..SlotCount]  BY <1>2, Tails DEF Alarm
<1>4. Alarm.dest = "fuel"  BY <1>3
<1>5. alarms' = [alarms EXCEPT !["fuel"] = @ + 1]  BY <1>4 DEF TickSends
<1>6. alarms' \in [{"fuel"} -> Nat] /\ alarms'["fuel"] > 0  BY <1>1, <1>5 DEF TimerTypes
<1>7. /\ tick' = [tick EXCEPT !.sent = TRUE] /\ slots' = slots /\ requests' = requests
      /\ missed' = missed
  BY DEF TickSends
<1>8. pass' = pass  BY DEF fuelVars
<1>9. TimerTypes'
  <2>1. tick' \in [pending : Seq([dest : {"fuel"}, slot : 1..SlotCount]), sent : BOOLEAN]
        /\ tick'.pending = tick.pending
    BY <1>1, <1>7 DEF TimerTypes
  <2> QED  BY <1>1, <1>2, <1>6, <1>7, <2>1 DEF TimerTypes
<1>10. StartIsLast'  BY <1>7, <1>8 DEF WatchInv, StartIsLast
<1>11. Covered'  BY <1>6 DEF Covered
<1> QED  BY <1>9, <1>10, <1>11, TimerOnly

\* The callback releases the slot; the alarm it has sent has woken the module.
LEMMA ClearsStep ==
  ASSUME WatchInv, TickClears, UNCHANGED <<fuelVars, stationVars>>
  PROVE  WatchInv'
<1>1. TimerTypes /\ tick.sent /\ tick.pending # <<>>  BY DEF WatchInv, TickClears, TimerTypes
<1>2. tick.pending \in Seq([dest : {"fuel"}, slot : 1..SlotCount])  BY <1>1 DEF TimerTypes
<1>3. PICK w \in Seq([dest : {"fuel"}, slot : 1..SlotCount]) : w = Tail(tick.pending)
  BY <1>1, <1>2, Tails
<1>4. /\ tick' = [pending |-> w, sent |-> FALSE] /\ requests' = requests /\ alarms' = alarms
      /\ missed' = missed
  BY <1>3 DEF TickClears
<1>5. /\ slots' \in [1..SlotCount -> FuelSlot \cup {None}]
      /\ \A i \in 1..SlotCount : slots'[i] # None => slots[i] # None
      /\ \A i \in 1..SlotCount : i # Alarm.slot => slots'[i] = slots[i]
  <2>1. CASE Clears(slots[Alarm.slot])
    <3>1. slots' = [slots EXCEPT ![Alarm.slot] = None]  BY <2>1 DEF TickClears
    <3> QED  BY <1>1, <3>1 DEF TimerTypes
  <2>2. CASE ~Clears(slots[Alarm.slot])
    <3>1. slots' = slots  BY <2>2 DEF TickClears
    <3> QED  BY <1>1, <3>1 DEF TimerTypes
  <2> QED  BY <2>1, <2>2
<1>6. pass' = pass /\ woken' = woken  BY DEF fuelVars
<1>7. TimerTypes'  BY <1>1, <1>4, <1>5 DEF TimerTypes
<1>8. StartIsLast'  BY <1>4, <1>6 DEF WatchInv, StartIsLast
<1>9. Covered => Covered'  BY <1>1, <1>4, <1>5, <1>6 DEF Covered, Armed
<1> QED  BY <1>7, <1>8, <1>9, TimerOnly

\* An alarm that cannot be sent: its slot stays due.
LEMMA CannotSendStep ==
  ASSUME WatchInv, TickCannotSend, UNCHANGED <<fuelVars, stationVars>>
  PROVE  WatchInv'
<1>1. TimerTypes /\ tick.pending # <<>> /\ ~tick.sent
  BY DEF WatchInv, TickCannotSend, Sending
<1>2. tick.pending \in Seq([dest : {"fuel"}, slot : 1..SlotCount])  BY <1>1 DEF TimerTypes
<1>3. PICK w \in Seq([dest : {"fuel"}, slot : 1..SlotCount]) : w = Tail(tick.pending)
  BY <1>1, <1>2, Tails
<1>4. tick' = [tick EXCEPT !.pending = w]  BY <1>1, <1>3 DEF TickCannotSend, TimerTypes
<1>5. requests' = requests /\ alarms' = alarms /\ slots' = slots /\ missed' = missed
  BY DEF TickCannotSend, Unsent
<1>6. TimerTypes' /\ tick'.sent = tick.sent  BY <1>1, <1>4, <1>5 DEF TimerTypes
<1>7. pass' = pass /\ woken' = woken  BY DEF fuelVars
<1>8. StartIsLast'  BY <1>5, <1>7 DEF WatchInv, StartIsLast
<1>9. Covered => Covered'  BY <1>1, <1>5, <1>6, <1>7 DEF Covered, Armed
<1> QED  BY <1>6, <1>8, <1>9, TimerOnly

\* The time of a slot comes.
LEMMA ExpiresStep ==
  ASSUME WatchInv, NEW i \in 1..SlotCount, Expires(i), UNCHANGED <<fuelVars, stationVars>>
  PROVE  WatchInv'
<1>1. TimerTypes /\ slots[i] # None  BY DEF WatchInv, Expires, Active
<1>2. slots[i] \in FuelSlot  BY <1>1 DEF TimerTypes
<1>3. PICK s \in FuelSlot : s = [slots[i] EXCEPT !.due = TRUE]  BY <1>2 DEF FuelSlot
<1>4. /\ slots' = [slots EXCEPT ![i] = s] /\ requests' = requests /\ tick' = tick
      /\ alarms' = alarms /\ missed' = missed
  BY <1>1, <1>3 DEF Expires, TimerTypes
<1>5. s # None  BY <1>3, TimerAssumption, StationAssumption DEF FuelSlot
<1>6. \A j \in 1..SlotCount : slots'[j] # None <=> slots[j] # None
  BY <1>1, <1>4, <1>5 DEF TimerTypes
<1>7. pass' = pass /\ woken' = woken  BY DEF fuelVars
<1>8. TimerTypes'  BY <1>1, <1>4, <1>6 DEF TimerTypes
<1>9. StartIsLast'  BY <1>4, <1>7 DEF WatchInv, StartIsLast
<1>10. Covered => Covered'  BY <1>4, <1>6, <1>7 DEF Covered, Armed, Alarm
<1> QED  BY <1>8, <1>9, <1>10, TimerOnly

\* A timer that runs is left running; else it finds every slot free.  If it is in the slot
\* that the callback is about to release, the request came to nothing.
LEMMA StartsStep ==
  ASSUME WatchInv, StartHandled, UNCHANGED <<fuelVars, stationVars>>
  PROVE  WatchInv'
<1>1. TimerTypes /\ requests # <<>> /\ requests \in Seq({StartOfFuel, StopOfFuel})
  BY DEF WatchInv, StartHandled, Requested, TimerTypes
<1>2. PICK w \in Seq({StartOfFuel, StopOfFuel}) : w = Tail(requests)  BY <1>1, Tails
<1>3. Request = StartOfFuel
  <2>1. Request \in {StartOfFuel, StopOfFuel}  BY <1>1, Tails DEF Request
  <2> QED  BY <2>1 DEF StartHandled, StopOfFuel, TimerStop
<1>4. Request.from = "fuel" /\ Request.forced = FALSE /\ Request.repeats = FALSE
  BY <1>3 DEF StartOfFuel, TimerStart
<1>5. 1 \in 1..SlotCount  BY TimerAssumption
<1>6. /\ slots' \in [1..SlotCount -> FuelSlot \cup {None}]
      /\ \A i, j \in 1..SlotCount : slots'[i] # None /\ slots'[j] # None => i = j
      /\ \E i \in 1..SlotCount : slots'[i] # None
  <2>1. CASE SlotsOf("fuel") # {}
    <3>1. slots' = slots  BY <1>4, <2>1 DEF StartHandled
    <3> QED  BY <1>1, <2>1, <3>1 DEF TimerTypes, SlotsOf, Active
  <2>2. CASE SlotsOf("fuel") = {}
    <3>1. \A i \in 1..SlotCount : slots[i] = None
      BY <1>1, <2>2 DEF SlotsOf, Active, TimerTypes, FuelSlot
    <3>2. Restarted = [i \in 1..SlotCount |-> None]
      BY <1>4, <2>2, <3>1 DEF Restarted, Released
    <3>3. {i \in 1..SlotCount : Restarted[i] = None} = 1..SlotCount  BY <3>2
    <3>4. 1..SlotCount # {}  BY <1>5
    <3>5. PICK s \in FuelSlot : s = [source |-> "fuel", repeats |-> FALSE, due |-> FALSE]
      BY DEF FuelSlot
    <3>6. slots' = [Restarted EXCEPT ![First(1..SlotCount)] = s]
      BY <1>4, <2>2, <3>3, <3>4, <3>5 DEF StartHandled
    <3>7. First(1..SlotCount) = 1
      <4>1. \A j \in 1..SlotCount : 1 <= j  OBVIOUS
      <4>2. \A i \in 1..SlotCount : (\A j \in 1..SlotCount : i <= j) => i = 1
        BY <1>5, TimerAssumption
      <4> QED  BY <1>5, <4>1, <4>2 DEF First
    <3>8. s # None  BY <3>5, TimerAssumption, StationAssumption DEF FuelSlot
    <3> QED  BY <1>5, <3>2, <3>6, <3>7, <3>8
  <2> QED  BY <2>1, <2>2
<1>7. requests' = w /\ tick' = tick /\ alarms' = alarms  BY <1>2 DEF StartHandled
<1>8. pass' = pass /\ woken' = woken  BY DEF fuelVars
<1>9. TimerTypes'  BY <1>1, <1>2, <1>6, <1>7 DEF TimerTypes
<1>10. StartIsLast'
  <2>1. w # <<>> => w[Len(w)] = requests[Len(requests)]  BY <1>1, <1>2, Tails
  <2>2. "fuel" \in missed => "fuel" \in missed'  BY DEF StartHandled
  <2> QED  BY <1>1, <1>7, <1>8, <2>1, <2>2 DEF WatchInv, StartIsLast
<1>11. Covered'
  <2>1. PICK i \in 1..SlotCount : slots'[i] # None  BY <1>6
  <2>2. slots'[i] \in FuelSlot  BY <1>6, <2>1
  <2>3. CASE tick.sent /\ i = Alarm.slot
    <3>1. Alarm \in [dest : {"fuel"}, slot : 1..SlotCount]
      BY <1>1, <2>3, Tails DEF TimerTypes, Alarm
    <3>2. Clears(slots'[Alarm.slot])  BY <2>1, <2>2, <2>3, <3>1 DEF Clears, FuelSlot
    <3>3. missed' = missed \cup {"fuel"}  BY <1>4, <2>3, <3>1, <3>2 DEF StartHandled
    <3> QED  BY <3>3 DEF Covered
  <2>4. CASE ~(tick.sent /\ i = Alarm.slot)
    BY <1>7, <2>1, <2>4 DEF Covered, Armed, Alarm
  <2> QED  BY <2>3, <2>4
<1> QED  BY <1>9, <1>10, <1>11, TimerOnly

\* The timer is stopped: unless a pass runs, the request that it be started comes next.
LEMMA StopsStep ==
  ASSUME WatchInv, StopHandled, UNCHANGED <<fuelVars, stationVars>>
  PROVE  WatchInv'
<1>1. TimerTypes /\ requests # <<>> /\ requests \in Seq({StartOfFuel, StopOfFuel})
  BY DEF WatchInv, StopHandled, Requested, TimerTypes
<1>2. PICK w \in Seq({StartOfFuel, StopOfFuel}) : w = Tail(requests)  BY <1>1, Tails
<1>3. /\ requests' = w /\ tick' = tick /\ alarms' = alarms /\ slots' = Released(Request.from)
      /\ missed' = missed
  BY <1>2 DEF StopHandled
<1>4. /\ slots' \in [1..SlotCount -> FuelSlot \cup {None}]
      /\ \A i \in 1..SlotCount : slots'[i] # None => slots[i] # None
  BY <1>1, <1>3 DEF Released, TimerTypes
<1>5. pass' = pass /\ woken' = woken  BY DEF fuelVars
<1>6. TimerTypes'  BY <1>1, <1>2, <1>3, <1>4 DEF TimerTypes
<1>7. /\ w # <<>> => w[Len(w)] = requests[Len(requests)]
      /\ w = <<>> => Request = requests[Len(requests)]
  BY <1>1, <1>2, Tails DEF Request
<1>8. StartIsLast'  BY <1>1, <1>3, <1>5, <1>7 DEF WatchInv, StartIsLast
<1>9. ~pass.runs => w # <<>> \/ "fuel" \in missed
  <2>1. Request.id = "Stop" /\ StartOfFuel.id = "Start"
    BY DEF StopHandled, StartOfFuel, TimerStart
  <2>2. ~pass.runs /\ "fuel" \notin missed => requests[Len(requests)] = StartOfFuel
    BY <1>1 DEF WatchInv, StartIsLast
  <2> QED  BY <1>7, <2>1, <2>2
<1>10. ~pass.runs => Covered'  BY <1>3, <1>9 DEF Covered
<1> QED  BY <1>6, <1>8, <1>10, TimerOnly

\* A step of the machine takes no machine away.
LEMMA MachineStays ==
  ASSUME NEW p, "nozzle" \in DOMAIN p, NEW f, NEW up
  PROVE  "nozzle" \in DOMAIN Machine(Validated(p, f), up)
<1>1. PICK v : v = Validated(p, f)  OBVIOUS
<1>2. "nozzle" \in DOMAIN v  BY <1>1 DEF Validated
<1>3. PICK w : w = [v EXCEPT !.count = Counted(v, up)]  OBVIOUS
<1>4. "nozzle" \in DOMAIN w  BY <1>2, <1>3
<1>5. PICK x : x = ValueStep(w)  OBVIOUS
<1>6. "nozzle" \in DOMAIN x
  <2>1. DOMAIN ValueStep(w) = DOMAIN w  BY DEF ValueStep
  <2> QED  BY <1>4, <1>5, <2>1
<1>7. "nozzle" \in DOMAIN NozzleStep(x, up, Compared(v, up))
  <2>1. DOMAIN Committed(x) = DOMAIN x  BY DEF Committed
  <2>2. DOMAIN Updated(x) = DOMAIN x  BY DEF Updated
  <2>3. DOMAIN NozzleStep(x, up, Compared(v, up)) = DOMAIN x
    BY <2>1, <2>2 DEF NozzleStep
  <2> QED  BY <1>6, <2>3
<1> QED  BY <1>1, <1>3, <1>5, <1>7 DEF Machine

\* The steps of the module.
LEMMA WatchedModule ==
  ASSUME WatchInv, FuelTask, UNCHANGED stationVars
  PROVE  WatchInv'
<1>1. TimerTypes /\ pass \in [runs : BOOLEAN, left : SUBSET Nozzles]  BY DEF WatchInv
<1>2. CASE AlarmHandled
  <2>1. /\ alarms' = [alarms EXCEPT !["fuel"] = @ - 1] /\ woken' = TRUE
        /\ alarms["fuel"] > 0
        /\ UNCHANGED <<slots, requests, tick, missed, pump, pass>>
    BY <1>2 DEF AlarmHandled
  <2>2. alarms' \in [{"fuel"} -> Nat]  BY <1>1, <2>1 DEF TimerTypes
  <2>3. TimerTypes'  BY <1>1, <2>1, <2>2 DEF TimerTypes
  <2> QED  BY <2>1, <2>3 DEF WatchInv, StartIsLast, Covered, Machines
<1>3. CASE PassBegins
  <2>1. /\ requests' = Append(requests, StopOfFuel) \/ requests' = requests
        /\ pass' = [runs |-> TRUE, left |-> Nozzles]
        /\ UNCHANGED <<slots, tick, alarms, pump>>
    BY <1>3 DEF PassBegins, Ask, StopOfFuel
  <2>2. requests' \in Seq({StartOfFuel, StopOfFuel})
    <3>1. requests \in Seq({StartOfFuel, StopOfFuel})  BY <1>1 DEF TimerTypes
    <3>2. Append(requests, StopOfFuel) \in Seq({StartOfFuel, StopOfFuel})  BY <3>1
    <3> QED  BY <2>1, <3>1, <3>2
  <2>3. TimerTypes'  BY <1>1, <2>1, <2>2 DEF TimerTypes
  <2>4. pass'.runs /\ pass' \in [runs : BOOLEAN, left : SUBSET Nozzles]  BY <2>1
  <2> QED  BY <2>1, <2>3, <2>4 DEF WatchInv, StartIsLast, Machines
<1>4. CASE PassEnds
  <2>1. /\ \/ requests' = Append(requests, StartOfFuel)
           \/ requests' = requests /\ missed' = missed \cup {StartOfFuel.from}
        /\ pass' = [pass EXCEPT !.runs = FALSE]
        /\ UNCHANGED <<slots, tick, alarms, pump>> /\ pass.left = {}
    BY <1>4 DEF PassEnds, Ask, StartOfFuel, TimerStart
  <2>2. requests \in Seq({StartOfFuel, StopOfFuel})  BY <1>1 DEF TimerTypes
  <2>3. /\ requests' \in Seq({StartOfFuel, StopOfFuel})
        /\ \/ requests' # <<>> /\ requests'[Len(requests')] = StartOfFuel
           \/ "fuel" \in missed'
    <3>1. CASE requests' = Append(requests, StartOfFuel)  BY <2>2, <3>1
    <3>2. CASE requests' = requests /\ missed' = missed \cup {StartOfFuel.from}
      BY <2>2, <3>2 DEF StartOfFuel, TimerStart
    <3> QED  BY <2>1, <3>1, <3>2
  <2>4. TimerTypes'  BY <1>1, <2>1, <2>3 DEF TimerTypes
  <2>5. pass' \in [runs : BOOLEAN, left : SUBSET Nozzles] /\ pass'.left = {}
    BY <1>1, <2>1
  <2> QED  BY <2>1, <2>3, <2>4, <2>5 DEF WatchInv, StartIsLast, Covered, Machines
<1>5. CASE \E n \in Nozzles : Turn(n)
  <2>1. PICK n \in Nozzles : Turn(n)  BY <1>5
  <2>2. pass.left # {} /\ UNCHANGED <<timerVars, woken>>
        /\ (pass' = pass \/ pass' = [pass EXCEPT !.left = @ \ {n}])
    BY <2>1 DEF Turn
  <2>3. pass.runs  BY <2>2 DEF WatchInv
  <2>4. pass' \in [runs : BOOLEAN, left : SUBSET Nozzles] /\ pass'.runs
    BY <1>1, <2>2, <2>3
  <2>5. TimerTypes'  BY <1>1, <2>2 DEF TimerTypes, timerVars
  <2>6. Machines'
    <3>1. Machines  BY DEF WatchInv
    <3>2. CASE pump' = pump  BY <3>1, <3>2 DEF Machines
    <3>3. CASE pump' # pump
      <4>1. PICK f, up : pump' = [pump EXCEPT ![n] = Machine(Validated(pump[n], f), up)]
        BY <2>1, <3>3 DEF Turn
      <4>2. "nozzle" \in DOMAIN Machine(Validated(pump[n], f), up)
        BY <3>1, MachineStays DEF Machines
      <4> QED  BY <3>1, <4>1, <4>2 DEF Machines
    <3> QED  BY <3>2, <3>3
  <2> QED  BY <2>4, <2>5, <2>6 DEF WatchInv, StartIsLast
<1> QED  BY <1>2, <1>3, <1>4, <1>5 DEF FuelTask

\* What the customers, the display and the clock do.
LEMMA WatchedStation ==
  ASSUME WatchInv, Customer \/ DisplayTap \/ Clock
  PROVE  WatchInv'
<1>1. UNCHANGED <<slots, requests, tick, alarms, missed, pass>> /\ (woken => woken')
  <2>1. CASE Clock  BY <2>1 DEF Clock, timerVars
  <2>2. ASSUME NEW n \in Nozzles, Lift(n) \/ Hang(n)
        PROVE  UNCHANGED <<slots, requests, tick, alarms, missed, pass, woken, pump>>
    BY <2>2 DEF Lift, Hang, timerVars, fuelVars
  <2>3. ASSUME NEW n \in Nozzles, NEW f, FrameArrives(n, f)
        PROVE  UNCHANGED <<slots, requests, tick, alarms, missed, pass, pump>> /\ woken'
    BY <2>3 DEF FrameArrives, timerVars
  <2>4. ASSUME NEW n \in Nozzles, Deliver(n) \/ Refresh(n) \/ Noise(n)
        PROVE  \E f : FrameArrives(n, f)
    BY <2>4 DEF Deliver, Refresh, Noise, Shows
  <2>5. ASSUME NEW n \in Nozzles, Debounce(n)
        PROVE  UNCHANGED <<slots, requests, tick, alarms, missed, pass, pump>> /\ woken'
    BY <2>5 DEF Debounce, SwitchTurns, timerVars
  <2> QED  BY <2>1, <2>2, <2>3, <2>4, <2>5 DEF Customer, DisplayTap
<1>2. (Pumping' => Pumping) /\ Machines'
  <2>0. Machines  BY DEF WatchInv
  <2>1. CASE Clock
    <3>1. pump' = [n \in Nozzles |->
            [pump[n] EXCEPT !.valueAge = Older(@, Settle + 1), !.pumpingAge = Older(@, Quiet + 1),
                            !.nozzleAge = Older(@, Short)]]
      BY <2>1 DEF Clock
    <3>2. ASSUME NEW n \in Nozzles
          PROVE  "nozzle" \in DOMAIN pump'[n] /\ pump'[n].nozzle = pump[n].nozzle
      <4>1. PICK p : p = pump[n]  OBVIOUS
      <4>2. pump'[n] = [p EXCEPT !.valueAge = Older(@, Settle + 1),
                                 !.pumpingAge = Older(@, Quiet + 1), !.nozzleAge = Older(@, Short)]
        BY <3>1, <4>1
      <4>3. "nozzle" \in DOMAIN p  BY <2>0, <4>1 DEF Machines
      <4> QED  BY <4>1, <4>2, <4>3
    <3>3. DOMAIN pump' = Nozzles  BY <3>1
    <3> QED  BY <3>2, <3>3 DEF Pumping, Machines
  <2>2. CASE Customer \/ DisplayTap
    <3>1. pump' = pump
      <4>1. ASSUME NEW n \in Nozzles, Lift(n) \/ Hang(n)  PROVE pump' = pump
        BY <4>1 DEF Lift, Hang, fuelVars
      <4>2. ASSUME NEW n \in Nozzles, Deliver(n) \/ Refresh(n) \/ Noise(n)  PROVE pump' = pump
        BY <4>2 DEF Deliver, Refresh, Noise, Shows, FrameArrives
      <4>3. ASSUME NEW n \in Nozzles, Debounce(n)  PROVE pump' = pump
        BY <4>3 DEF Debounce, SwitchTurns
      <4> QED  BY <2>2, <4>1, <4>2, <4>3 DEF Customer, DisplayTap
    <3> QED  BY <2>0, <3>1 DEF Pumping, Machines
  <2> QED  BY <2>1, <2>2
<1>3. Covered => Covered'  BY <1>1 DEF Covered, Armed, Alarm
<1> QED  BY <1>1, <1>2, <1>3 DEF WatchInv, TimerTypes, StartIsLast

\* Every step keeps the watchdog running.
LEMMA WatchKept ==
  ASSUME WatchInv, [Next]_vars
  PROVE  WatchInv'
<1>1. CASE UNCHANGED vars
  <2>1. UNCHANGED <<slots, requests, tick, alarms, missed, pump, pass, woken>>
    BY <1>1 DEF vars, timerVars, fuelVars
  <2> QED  BY <2>1 DEF WatchInv, TimerTypes, StartIsLast, Covered, Armed, Alarm, Pumping, Machines
<1>2. CASE Customer \/ DisplayTap \/ Clock  BY <1>2, WatchedStation
<1>3. CASE Module  BY <1>3, WatchedModule DEF Module
<1>4. CASE Service  BY <1>4, StartsStep, StopsStep DEF Service, TimerTask
<1>5. CASE SystemTimer
  BY <1>5, SnapshotStep, SendsStep, ClearsStep, ExpiresStep DEF SystemTimer, TimerTicks
<1>6. CASE AlarmFails  BY <1>6, CannotSendStep DEF AlarmFails
<1> QED  BY <1>1, <1>2, <1>3, <1>4, <1>5, <1>6 DEF Next

\* "START is required for the watchdog path", module_fuel.cpp and module_timer.cpp: as long
\* as a transaction is not over the module is at work or will be woken, also when alarms are
\* lost, frames are, nozzles are lifted too early and the callback of the timers is preempted
\* anywhere; unless the module's last request for a timer came to nothing.
THEOREM FuelWatchdogRuns == Spec => []WatchdogRuns
<1>1. Init => WatchInv  BY WatchInit
<1>2. WatchInv /\ [Next]_vars => WatchInv'  BY WatchKept
<1>3. WatchInv => WatchdogRuns
  <2> SUFFICES ASSUME WatchInv, Pumping, ~pass.runs, ~woken, ~(alarms["fuel"] > 0),
                      "fuel" \notin missed
               PROVE  \/ SlotsOf("fuel") # {}
                      \/ \E i \in DOMAIN requests : requests[i] = TimerStart("fuel", FALSE, FALSE)
    BY DEF WatchdogRuns, Pumping
  <2>1. TimerTypes /\ Covered  BY DEF WatchInv
  <2>2. CASE requests # <<>>
    <3>1. Len(requests) \in DOMAIN requests  BY <2>1, <2>2 DEF TimerTypes
    <3>2. requests[Len(requests)] = TimerStart("fuel", FALSE, FALSE)
      BY <2>2 DEF WatchInv, StartIsLast, StartOfFuel
    <3> QED  BY <3>1, <3>2
  <2>3. CASE Armed
    BY <2>1, <2>3 DEF Armed, TimerTypes, SlotsOf, Active, FuelSlot
  <2> QED  BY <2>1, <2>2, <2>3 DEF Covered
<1> QED  BY <1>1, <1>2, <1>3, PTL DEF Spec
=============================================================================
