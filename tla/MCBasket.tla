----------------------------- MODULE MCBasket -----------------------------
(***************************************************************************)
(* Basket with the values TLC needs.  Requests, keys and variants are     *)
(* interchangeable.                                                        *)
(***************************************************************************)
EXTENDS Basket, TLC

CONSTANTS r1, r2, k1, k2, v1, v2

TwoRequests == {r1, r2}
TwoKeys     == {k1, k2}
TwoVariants == {v1, v2}

OneMoreOrLess == {-1, 1}

Alike == Permutations(Requests) \cup Permutations(Keys) \cup Permutations(Variants)
=============================================================================
