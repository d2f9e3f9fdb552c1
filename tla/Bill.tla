-------------------------------- MODULE Bill --------------------------------
(***************************************************************************)
(* The amounts of one order.  Prices are stored without tax, in cents.     *)
(* From the same lines the API and the mails compute what the customer is  *)
(* told to pay, and the checkout what Stripe is told to collect; they      *)
(* round at different places:                                              *)
(*                                                                         *)
(*   - the totals are taxed once, as a whole, and rounded half to even     *)
(*     (Python's round of a Decimal);                                      *)
(*   - the recapitulation taxes and rounds the price of one unit;          *)
(*   - Stripe is sent the taxed price of one unit, truncated (int).        *)
(*                                                                         *)
(* The lines of an order never change, so the sums over them are kept      *)
(* instead of the lines.                                                   *)
(***************************************************************************)
EXTENDS Integers

CONSTANTS
  Prices,                  \* unit prices without tax, in cents
  Quantities,              \* the quantities of a line
  SHIPPING_FREE_THRESHOLD, \* in cents, without tax, as is
  SHIPPING_FEE,
  MAX_QUANTITY_INDIVIDUAL,
  MaxUnits                 \* bound: the signs in a request

VAT_RATE == 20 \* per cent

ASSUME AmountsAssumption ==
  /\ Prices \subseteq Nat /\ Quantities \subseteq Nat \ {0}
  /\ SHIPPING_FREE_THRESHOLD \in Nat /\ SHIPPING_FEE \in Nat
  /\ MAX_QUANTITY_INDIVIDUAL \in Nat /\ MaxUnits \in Nat

VARIABLES
  stage,     \* "cart", then "placed" or "refused", then "charged"
  units,     \* the signs in the order
  subtotal,  \* the sum of quantity and price without tax
  recap,     \* the sum of quantity and price of the recapitulation
  items,     \* the sum of quantity and unit_amount of the line items
  fee,       \* the column shipping_fee
  charged    \* what Stripe collects

vars == <<stage, units, subtotal, recap, items, fee, charged>>

-----------------------------------------------------------------------------
(***************************************************************************)
(* Tax and rounding.  An amount in cents, taxed, is a whole number of      *)
(* hundredths of a cent.                                                   *)
(***************************************************************************)
Taxed(cents) == cents * (100 + VAT_RATE)

\* Mutant of Rounded: the fraction is cut off.
CutOff(hundredths) == hundredths \div 100

\* round(..., 2): to the nearest cent, and to the even one of two.
Rounded(hundredths) ==
  LET whole == hundredths \div 100
      rest  == hundredths % 100
  IN IF rest > 50 \/ (rest = 50 /\ whole % 2 = 1) THEN whole + 1 ELSE whole

Ttc(cents) == Rounded(Taxed(cents))

\* Mutant of Tva: int() where the total has round().
TvaTruncated(cents) == (cents * VAT_RATE) \div 100

Tva(cents) == Rounded(cents * VAT_RATE)

\* Mutant of UnitAmount: the price is rounded like everywhere else.
UnitAmountRounded(cents) == Ttc(cents)

\* int(...): towards zero.
UnitAmount(cents) == Taxed(cents) \div 100

\* subtotal >= free_threshold
ShippingFee(amount) == IF amount >= SHIPPING_FREE_THRESHOLD THEN 0 ELSE SHIPPING_FEE

\* Mutant of ShippingItem: shipping is left out of the line items.
NoShippingItem == 0

ShippingItem == IF fee > 0 THEN UnitAmount(fee) ELSE 0

Total    == subtotal + fee
TotalTtc == Ttc(Total)

-----------------------------------------------------------------------------
TypeOK ==
  /\ stage \in {"cart", "placed", "refused", "charged"}
  /\ units \in Nat /\ subtotal \in Nat /\ recap \in Nat /\ items \in Nat
  /\ fee \in {0, SHIPPING_FEE}
  /\ charged \in Nat
  /\ stage \in {"placed", "charged"} => units \in 1..MAX_QUANTITY_INDIVIDUAL

Init ==
  /\ stage = "cart"
  /\ units = 0 /\ subtotal = 0 /\ recap = 0 /\ items = 0
  /\ fee = 0 /\ charged = 0

\* One more line, and what each of the sums makes of it.
AddLine(price, quantity) ==
  /\ stage = "cart"
  /\ units + quantity <= MaxUnits
  /\ units' = units + quantity
  /\ subtotal' = subtotal + price * quantity
  /\ recap' = recap + Ttc(price) * quantity
  /\ items' = items + UnitAmount(price) * quantity
  /\ UNCHANGED <<stage, fee, charged>>

\* Mutant of SmallEnough: any order is accepted.
AnySize == units >= 0

SmallEnough == units > 0 /\ units <= MAX_QUANTITY_INDIVIDUAL

CreateOrder ==
  /\ stage = "cart"
  /\ \/ SmallEnough /\ stage' = "placed" /\ fee' = ShippingFee(subtotal)
     \/ ~SmallEnough /\ stage' = "refused" /\ UNCHANGED fee
  /\ UNCHANGED <<units, subtotal, recap, items, charged>>

CreateCheckoutSession ==
  /\ stage = "placed"
  /\ stage' = "charged"
  /\ charged' = items + ShippingItem
  /\ UNCHANGED <<units, subtotal, recap, items, fee>>

Next ==
  \/ \E price \in Prices, quantity \in Quantities : AddLine(price, quantity)
  \/ CreateOrder
  \/ CreateCheckoutSession

Spec == Init /\ [][Next]_vars

-----------------------------------------------------------------------------
(***************************************************************************)
(* Properties.                                                             *)
(***************************************************************************)
\* Stripe never collects more than the total the customer was told, though the one is a sum of
\* truncated units and the other a rounded sum (payment_service.py:23, serializers.py:8).
ChargedAtMostShown == stage = "charged" => charged <= TotalTtc

\* What the shop loses by truncating is at most a cent for each sign and one for the shipping
\* (payment_service.py:23-35).
ShortfallIsBounded ==
  stage = "charged" => TotalTtc - charged <= units + (IF fee > 0 THEN 1 ELSE 0)

\* The receipt adds up: subtotal, shipping and tax, each rounded by itself, make the total, to the
\* cent (emails.py:29-32).
ReceiptAddsUp ==
  stage \in {"placed", "charged"} => subtotal + fee + Tva(Total) = TotalTtc

\* The unit prices of the recapitulation, multiplied and added by the customer, miss the total of
\* the same mail by at most half a cent for each sign and one for shipping and total
\* (emails.py:23, 32, 39).
RecapIsClose ==
  LET added == recap + Ttc(fee) IN
  stage \in {"placed", "charged"} =>
    2 * (added - TotalTtc) <= units + 2 /\ 2 * (TotalTtc - added) <= units + 2
=============================================================================
