---------------------------- MODULE MCStorefront ----------------------------
(***************************************************************************)
(* Storefront with the values TLC needs.  An import that aborts late leaves   *)
(* a gap in the keys.                                                      *)
(***************************************************************************)
EXTENDS Storefront

CONSTANTS o1, o2, w1

TwoOrders == {o1, o2}
OneWorker == {w1}

\* The two variants of the first catalogue, one of it with one of the next, one that is ordered
\* twice, too many.
Pair    == << [variant |-> 2, quantity |-> 1], [variant |-> 1, quantity |-> 1] >>
Mixed   == << [variant |-> 1, quantity |-> 1], [variant |-> 3, quantity |-> 1] >>
Twice   == << [variant |-> 3, quantity |-> 1], [variant |-> 3, quantity |-> 2] >>
TooMany == << [variant |-> 4, quantity |-> 4] >>

AllLists  == {Pair, Mixed, Twice, TooMany}
=============================================================================
