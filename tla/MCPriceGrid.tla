---------------------------- MODULE MCPriceGrid ----------------------------
(***************************************************************************)
(* PriceGrid with two references that share a slug, and with files of      *)
(* which each is the next after some change: a reference comes, goes, moves*)
(* to another schedule or loses its price; a price changes or disappears.  *)
(***************************************************************************)
EXTENDS PriceGrid, TLC

CONSTANTS c1, c2, k1, k2

TwoRefs == {1, 2}
OneSlug == [r \in TwoRefs |-> "panneau"]

\* The first schedule may have two cells, the second has one at most.
File(one, two, v11, v12, v21) ==
  [schedule |-> (1 :> one @@ 2 :> two),
   vente |-> (<<c1, k1>> :> v11 @@ <<c1, k2>> :> v12 @@ <<c2, k1>> :> v21 @@ <<c2, k2>> :> Null)]

SomeFiles ==
  {File(c1, c1, 1, 2, Null),
   File(c1, Unlisted, 2, Null, Null),
   File(Unlisted, c1, 2, 1, Null),
   File(c2, c1, Null, 1, 2),
   File(Quote, c2, Null, Null, 1)}
=============================================================================
