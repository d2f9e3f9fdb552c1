----------------------------- MODULE MCAccounts -----------------------------
(***************************************************************************)
(* Accounts with one user under two spellings of the email.                *)
(***************************************************************************)
EXTENDS Accounts, TLC

CONSTANTS lower, upper

LowerDomain == [e \in {lower, upper} |-> lower]

WorkersAlike == Permutations(Workers)
=============================================================================
