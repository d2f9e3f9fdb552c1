---------------------------- MODULE MCStartup ----------------------------
(***************************************************************************)
(* Startup with the values TLC needs: two builds, of which each has an     *)
(* image that the other has not, and one a product that the other has not. *)
(***************************************************************************)
EXTENDS Startup, TLC

CONSTANTS c1, c2, r1, r2

TwoContainers == {c1, c2}
TwoRefs       == {r1, r2}

GridOfTwo == (c1 :> {r1, r2}) @@ (c2 :> {r2})
PngOfTwo  == (c1 :> {r1}) @@ (c2 :> {r2})
=============================================================================
