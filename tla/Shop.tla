-------------------------------- MODULE Shop --------------------------------
(***************************************************************************)
(* What the storefront promises, without requests and transactions: an     *)
(* order is placed in one step on variants that are on the shelves, and    *)
(* the catalogue is replaced in one step, together with every order that   *)
(* was placed on the old one.                                              *)
(***************************************************************************)
CONSTANTS Variants, Orders

VARIABLES
  listed,   \* the variants on the shelves
  retired,  \* the variants that were: they never return
  book,     \* book[o]: "none", "placed" or "cleared"
  basket    \* basket[o]: the variants ordered by o while it is placed

shop == <<listed, retired, book, basket>>

Init ==
  /\ listed = {} /\ retired = {}
  /\ book = [o \in Orders |-> "none"]
  /\ basket = [o \in Orders |-> {}]

Place(o, variants) ==
  /\ book[o] = "none"
  /\ variants # {} /\ variants \subseteq listed
  /\ book' = [book EXCEPT ![o] = "placed"]
  /\ basket' = [basket EXCEPT ![o] = variants]
  /\ UNCHANGED <<listed, retired>>

Replace(new) ==
  /\ new \cap (listed \cup retired) = {}
  /\ listed' = new
  /\ retired' = retired \cup listed
  /\ book' = [o \in Orders |-> IF book[o] = "placed" THEN "cleared" ELSE book[o]]
  /\ basket' = [o \in Orders |-> {}]

Next ==
  \/ \E o \in Orders, variants \in SUBSET Variants : Place(o, variants)
  \/ \E new \in SUBSET Variants : Replace(new)

Spec == Init /\ [][Next]_shop
=============================================================================
