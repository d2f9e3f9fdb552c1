----------------------------- MODULE BillProofs -----------------------------
(***************************************************************************)
(* Proofs about Bill, for all prices, quantities and limits: however many  *)
(* lines an order has, truncating and rounding stay within their bounds.   *)
(***************************************************************************)
EXTENDS Bill, TLAPS

-----------------------------------------------------------------------------
(***************************************************************************)
(* Arithmetic.                                                             *)
(***************************************************************************)
LEMMA DivMod ==
  ASSUME NEW h \in Nat
  PROVE  /\ h \div 100 \in Nat /\ h % 100 \in 0..99
         /\ h = 100 * (h \div 100) + (h % 100)
<1>1. h \div 100 \in Nat  OBVIOUS
<1>2. h % 100 \in 0..99  OBVIOUS
<1>3. h = 100 * (h \div 100) + (h % 100)  OBVIOUS
<1>4. QED  BY <1>1, <1>2, <1>3

\* Rounding moves an amount by at most half a cent, and never past a whole one.
LEMMA RoundedBounds ==
  ASSUME NEW h \in Nat
  PROVE  /\ Rounded(h) \in Nat
         /\ 100 * Rounded(h) <= h + 50
         /\ h <= 100 * Rounded(h) + 50
         /\ \A k \in Nat : 100 * k <= h => k <= Rounded(h)
         /\ \A k \in Nat : h <= 100 * k => Rounded(h) <= k
<1> DEFINE whole == h \div 100
           rest  == h % 100
<1>1. whole \in Nat /\ rest \in 0..99 /\ h = 100 * whole + rest  BY DivMod
<1>2. \/ Rounded(h) = whole /\ rest <= 50
      \/ Rounded(h) = whole + 1 /\ rest >= 50
  BY <1>1 DEF Rounded
<1> HIDE DEF whole, rest
<1>3. QED  BY <1>1, <1>2

LEMMA UnitAmountBounds ==
  ASSUME NEW c \in Nat
  PROVE  /\ UnitAmount(c) \in Nat /\ Taxed(c) \in Nat
         /\ 100 * UnitAmount(c) <= Taxed(c)
         /\ Taxed(c) <= 100 * UnitAmount(c) + 100
<1>1. Taxed(c) \in Nat  BY DEF Taxed, VAT_RATE
<1>2. QED  BY <1>1, DivMod DEF UnitAmount

\* An inequality holds for each of q units.
LEMMA Times ==
  ASSUME NEW a \in Nat, NEW b \in Nat, NEW q \in Nat, a <= b
  PROVE  a * q <= b * q
<1>1. (b - a) * q >= 0  OBVIOUS
<1>2. (b - a) * q = b * q - a * q  OBVIOUS
<1>3. a * q \in Nat /\ b * q \in Nat  OBVIOUS
<1>4. QED  BY <1>1, <1>2, <1>3

\* A fifth of a whole number is never half way between two of them: the tax can be rounded
\* by itself.
LEMMA TaxRoundsAlone ==
  ASSUME NEW c \in Nat
  PROVE  c + Tva(c) = Ttc(c)
<1> DEFINE x == c * 20
           whole == x \div 100
           rest  == x % 100
<1>1. x \in Nat /\ whole \in Nat /\ rest \in 0..99 /\ x = 100 * whole + rest  BY DivMod
<1>2. rest # 50  BY <1>1
<1>3. Tva(c) = IF rest > 50 THEN whole + 1 ELSE whole
  BY <1>2 DEF Tva, Rounded, VAT_RATE
<1>4. Taxed(c) = 100 * c + x  BY DEF Taxed, VAT_RATE
<1>5. Taxed(c) \div 100 = c + whole /\ Taxed(c) % 100 = rest  BY <1>1, <1>4
<1>6. Ttc(c) = IF rest > 50 THEN c + whole + 1 ELSE c + whole
  BY <1>2, <1>5 DEF Ttc, Rounded
<1>7. QED  BY <1>1, <1>3, <1>6

-----------------------------------------------------------------------------
(***************************************************************************)
(* The inductive invariant: with each line, each of the sums moves away    *)
(* from the taxed subtotal by a bounded amount for every sign.             *)
(***************************************************************************)
\* The line items are short of it by at most a cent for each sign, and never above it.
ItemsAreClose == 100 * items <= Taxed(subtotal) /\ Taxed(subtotal) <= 100 * items + 100 * units

\* The recapitulation is off by at most half a cent for each sign.
RecapsAreClose ==
  /\ 100 * recap <= Taxed(subtotal) + 50 * units
  /\ Taxed(subtotal) <= 100 * recap + 50 * units

ChargedTheItems == stage = "charged" => charged = items + ShippingItem

IInv == TypeOK /\ ItemsAreClose /\ RecapsAreClose /\ ChargedTheItems

LEMMA FeeInNat == TypeOK => fee \in Nat
  BY AmountsAssumption DEF TypeOK

LEMMA InitInv == Init => IInv
  BY AmountsAssumption
  DEF Init, IInv, TypeOK, ItemsAreClose, RecapsAreClose, ChargedTheItems, Taxed, VAT_RATE

LEMMA AddLineKeeps ==
  ASSUME IInv, NEW price \in Prices, NEW quantity \in Quantities, AddLine(price, quantity)
  PROVE  IInv'
<1> DEFINE u == UnitAmount(price)
           r == Ttc(price)
           t == Taxed(price)
<1>1. price \in Nat /\ quantity \in Nat /\ quantity > 0  BY AmountsAssumption
<1>2. u \in Nat /\ t \in Nat /\ 100 * u <= t /\ t <= 100 * u + 100
  BY <1>1, UnitAmountBounds
<1>3. r \in Nat /\ 100 * r <= t + 50 /\ t <= 100 * r + 50
  BY <1>1, <1>2, RoundedBounds DEF Ttc
<1>4. Taxed(subtotal') = Taxed(subtotal) + t * quantity
  <2>1. subtotal \in Nat /\ subtotal' = subtotal + price * quantity
    BY DEF IInv, TypeOK, AddLine
  <2>2. (subtotal + price * quantity) * 120 = subtotal * 120 + (price * 120) * quantity
    BY <1>1, <2>1
  <2>3. QED  BY <2>1, <2>2 DEF Taxed, VAT_RATE
<1> HIDE DEF u, r, t
<1>5. /\ (100 * u) * quantity <= t * quantity
      /\ t * quantity <= (100 * u + 100) * quantity
      /\ (100 * r) * quantity <= (t + 50) * quantity
      /\ t * quantity <= (100 * r + 50) * quantity
  BY <1>1, <1>2, <1>3, Times
<1>6. /\ (100 * u) * quantity = 100 * (u * quantity)
      /\ (100 * u + 100) * quantity = 100 * (u * quantity) + 100 * quantity
      /\ (100 * r) * quantity = 100 * (r * quantity)
      /\ (t + 50) * quantity = t * quantity + 50 * quantity
      /\ (100 * r + 50) * quantity = 100 * (r * quantity) + 50 * quantity
  BY <1>1, <1>2, <1>3
<1>7. /\ u * quantity \in Nat /\ r * quantity \in Nat /\ t * quantity \in Nat
      /\ price * quantity \in Nat
  BY <1>1, <1>2, <1>3
<1>8. /\ stage = "cart" /\ UNCHANGED <<stage, fee, charged>>
      /\ units' = units + quantity /\ subtotal' = subtotal + price * quantity
      /\ recap' = recap + r * quantity /\ items' = items + u * quantity
  BY DEF AddLine, u, r
<1>9. TypeOK'
  BY <1>1, <1>7, <1>8 DEF IInv, TypeOK
<1>10. Taxed(subtotal) \in Nat  BY DEF IInv, TypeOK, Taxed, VAT_RATE
<1>11. ItemsAreClose'
  <2>1. ItemsAreClose /\ units \in Nat /\ items \in Nat  BY DEF IInv, TypeOK
  <2>2. QED  BY <1>1, <1>4, <1>5, <1>6, <1>7, <1>8, <1>10, <2>1 DEF ItemsAreClose
<1>12. RecapsAreClose'
  <2>1. RecapsAreClose /\ units \in Nat /\ recap \in Nat  BY DEF IInv, TypeOK
  <2>2. QED  BY <1>1, <1>4, <1>5, <1>6, <1>7, <1>8, <1>10, <2>1 DEF RecapsAreClose
<1>13. ChargedTheItems'
  BY <1>8 DEF ChargedTheItems
<1>14. QED  BY <1>9, <1>11, <1>12, <1>13 DEF IInv

LEMMA CreateOrderKeeps == IInv /\ CreateOrder => IInv'
<1> SUFFICES ASSUME IInv, CreateOrder PROVE IInv'  OBVIOUS
<1>1. UNCHANGED <<units, subtotal, recap, items, charged>>  BY DEF CreateOrder
<1>2. stage' # "charged"  BY DEF CreateOrder
<1>3. TypeOK'
  BY <1>1, AmountsAssumption DEF IInv, TypeOK, CreateOrder, SmallEnough, ShippingFee
<1>4. QED
  BY <1>1, <1>2, <1>3 DEF IInv, ItemsAreClose, RecapsAreClose, ChargedTheItems, Taxed

LEMMA CheckoutKeeps == IInv /\ CreateCheckoutSession => IInv'
<1> SUFFICES ASSUME IInv, CreateCheckoutSession PROVE IInv'  OBVIOUS
<1>1. UNCHANGED <<units, subtotal, recap, items, fee>>  BY DEF CreateCheckoutSession
<1>2. stage = "placed" /\ stage' = "charged" /\ charged' = items + ShippingItem
  BY DEF CreateCheckoutSession
<1>3. ShippingItem \in Nat /\ ShippingItem' = ShippingItem
  BY <1>1, FeeInNat, UnitAmountBounds DEF IInv, ShippingItem
<1>4. TypeOK'  BY <1>1, <1>2, <1>3 DEF IInv, TypeOK
<1>5. QED
  BY <1>1, <1>2, <1>3, <1>4
  DEF IInv, ItemsAreClose, RecapsAreClose, ChargedTheItems, Taxed

LEMMA NextInv == IInv /\ [Next]_vars => IInv'
<1> SUFFICES ASSUME IInv, [Next]_vars PROVE IInv'  OBVIOUS
<1>1. ASSUME NEW price \in Prices, NEW quantity \in Quantities, AddLine(price, quantity)
      PROVE  IInv'
  BY <1>1, AddLineKeeps
<1>2. CASE CreateOrder  BY <1>2, CreateOrderKeeps
<1>3. CASE CreateCheckoutSession  BY <1>3, CheckoutKeeps
<1>4. CASE UNCHANGED vars
  BY <1>4
  DEF vars, IInv, TypeOK, ItemsAreClose, RecapsAreClose, ChargedTheItems, Taxed, ShippingItem, UnitAmount
<1>5. QED  BY <1>1, <1>2, <1>3, <1>4 DEF Next

LEMMA SpecInv == Spec => []IInv
  BY InitInv, NextInv, PTL DEF Spec

-----------------------------------------------------------------------------
\* An order that is placed or charged is not empty and within the limit, and every sum is a
\* whole number of cents (rules.py:17-23).
THEOREM TypeCorrect == Spec => []TypeOK
<1>1. IInv => TypeOK  BY DEF IInv
<1>2. QED  BY <1>1, SpecInv, PTL

\* What is sent to Stripe, in relation to the tax on the whole order.
LEMMA ChargedIsClose ==
  ASSUME IInv, stage = "charged"
  PROVE  /\ Taxed(Total) \in Nat /\ charged \in Nat
         /\ 100 * charged <= Taxed(Total)
         /\ Taxed(Total) <= 100 * (charged + units + (IF fee > 0 THEN 1 ELSE 0))
<1>1. /\ fee \in Nat /\ subtotal \in Nat /\ items \in Nat /\ units \in Nat
  BY FeeInNat DEF IInv, TypeOK
<1>2. Taxed(Total) = Taxed(subtotal) + Taxed(fee) /\ Taxed(subtotal) \in Nat
  BY <1>1 DEF Taxed, Total, VAT_RATE
<1>3. charged = items + ShippingItem  BY DEF IInv, ChargedTheItems
<1>4. CASE fee = 0
  <2>1. Taxed(fee) = 0 /\ ShippingItem = 0  BY <1>4 DEF Taxed, ShippingItem, VAT_RATE
  <2>2. QED  BY <1>1, <1>2, <1>3, <1>4, <2>1 DEF IInv, ItemsAreClose
<1>5. CASE fee > 0
  <2>1. ShippingItem = UnitAmount(fee)  BY <1>5 DEF ShippingItem
  <2>2. /\ UnitAmount(fee) \in Nat /\ Taxed(fee) \in Nat
        /\ 100 * UnitAmount(fee) <= Taxed(fee)
        /\ Taxed(fee) <= 100 * UnitAmount(fee) + 100
    BY <1>1, UnitAmountBounds
  <2>3. QED  BY <1>1, <1>2, <1>3, <1>5, <2>1, <2>2 DEF IInv, ItemsAreClose
<1>6. QED  BY <1>1, <1>4, <1>5

\* For any prices and any number of lines, truncating never charges more than is shown
\* (payment_service.py:23).
THEOREM NeverOvercharged == Spec => []ChargedAtMostShown
<1>1. ASSUME IInv, stage = "charged" PROVE charged <= TotalTtc
  BY <1>1, ChargedIsClose, RoundedBounds DEF TotalTtc, Ttc
<1>2. IInv => ChargedAtMostShown  BY <1>1 DEF ChargedAtMostShown
<1>3. QED  BY <1>2, SpecInv, PTL

\* For any prices and any number of lines, truncating costs the shop less than a cent for each
\* sign and one for shipping (payment_service.py:23-35).
THEOREM ShortfallIsSmall == Spec => []ShortfallIsBounded
<1>1. ASSUME IInv, stage = "charged"
      PROVE  TotalTtc - charged <= units + (IF fee > 0 THEN 1 ELSE 0)
  <2> DEFINE f == IF fee > 0 THEN 1 ELSE 0
  <2>1. charged + units + f \in Nat /\ charged \in Nat /\ units \in Nat
    BY <1>1, ChargedIsClose DEF IInv, TypeOK
  <2>2. TotalTtc \in Nat /\ TotalTtc <= charged + units + f
    BY <1>1, <2>1, ChargedIsClose, RoundedBounds DEF TotalTtc, Ttc
  <2>3. QED  BY <2>1, <2>2
<1>2. IInv => ShortfallIsBounded  BY <1>1 DEF ShortfallIsBounded
<1>3. QED  BY <1>2, SpecInv, PTL

\* For any prices the receipt adds up, because a fifth is never rounded from half way
\* (emails.py:29-32).
THEOREM ReceiptsAddUp == Spec => []ReceiptAddsUp
<1>1. ASSUME IInv PROVE subtotal + fee + Tva(Total) = TotalTtc
  <2>1. Total \in Nat /\ Total = subtotal + fee
    BY <1>1, FeeInNat DEF IInv, TypeOK, Total
  <2>2. QED  BY <2>1, TaxRoundsAlone DEF TotalTtc
<1>2. IInv => ReceiptAddsUp  BY <1>1 DEF ReceiptAddsUp
<1>3. QED  BY <1>2, SpecInv, PTL

\* For any prices and any number of lines, the recapitulation misses its total by at most half a
\* cent for each sign and one more (emails.py:23, 32, 39).
THEOREM RecapsAreNear == Spec => []RecapIsClose
<1>1. ASSUME IInv
      PROVE  /\ 2 * ((recap + Ttc(fee)) - TotalTtc) <= units + 2
             /\ 2 * (TotalTtc - (recap + Ttc(fee))) <= units + 2
  <2>1. /\ fee \in Nat /\ subtotal \in Nat /\ recap \in Nat /\ units \in Nat
    BY <1>1, FeeInNat DEF IInv, TypeOK
  <2>2. /\ Taxed(Total) = Taxed(subtotal) + Taxed(fee)
        /\ Taxed(subtotal) \in Nat /\ Taxed(fee) \in Nat /\ Taxed(Total) \in Nat
    BY <2>1 DEF Taxed, Total, VAT_RATE
  <2>3. Ttc(fee) \in Nat /\ 100 * Ttc(fee) <= Taxed(fee) + 50 /\ Taxed(fee) <= 100 * Ttc(fee) + 50
    BY <2>2, RoundedBounds DEF Ttc
  <2>4. TotalTtc \in Nat /\ 100 * TotalTtc <= Taxed(Total) + 50 /\ Taxed(Total) <= 100 * TotalTtc + 50
    BY <2>2, RoundedBounds DEF TotalTtc, Ttc
  <2>5. QED  BY <1>1, <2>1, <2>2, <2>3, <2>4 DEF IInv, RecapsAreClose
<1>2. IInv => RecapIsClose  BY <1>1 DEF RecapIsClose
<1>3. QED  BY <1>2, SpecInv, PTL
=============================================================================
