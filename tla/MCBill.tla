------------------------------- MODULE MCBill -------------------------------
(***************************************************************************)
(* Bill with prices from the price grid, one for each remainder modulo 5   *)
(* (the cents that 20 % of tax leaves behind).                             *)
(***************************************************************************)
EXTENDS Bill

GridPrices == {4630, 4761, 5142, 5163, 6544}
=============================================================================
