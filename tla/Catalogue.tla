----------------------------- MODULE Catalogue -----------------------------
(***************************************************************************)
(* What an import of the price grid amounts to: one step after which every *)
(* row that the file speaks of is as the file says, and every other row as *)
(* it was, or gone if the tables were to be cleared.                       *)
(***************************************************************************)
EXTENDS Naturals, FiniteSets

CONSTANTS Refs, SlugBase, Codes, Keys, Prices, Files, Quote, Unlisted, None, Null

VARIABLES cell, product, variant

catalogue == <<cell, product, variant>>

Init ==
  /\ cell = [x \in Codes \X Keys |-> None]
  /\ product = [r \in Refs |-> None]
  /\ variant = [x \in Refs \X Keys |-> None]

\* Of the references with one slug the first in the file has number 1, the next 2.
Slug(f, r) ==
  <<SlugBase[r],
    Cardinality({q \in Refs : f.schedule[q] # Unlisted /\ q <= r /\ SlugBase[q] = SlugBase[r]})>>

IsSold(f, r, k) == f.schedule[r] \in Codes /\ f.vente[<<f.schedule[r], k>>] # Null

Import(f, clear) ==
  LET Other(row) == IF clear THEN None ELSE row IN
  /\ cell' = [x \in Codes \X Keys |-> IF f.vente[x] # Null THEN f.vente[x] ELSE Other(cell[x])]
  /\ product' = [r \in Refs |->
                   IF f.schedule[r] # Unlisted
                   THEN [schedule |-> f.schedule[r], slug |-> Slug(f, r)]
                   ELSE Other(product[r])]
  /\ variant' = [x \in Refs \X Keys |->
                   IF IsSold(f, x[1], x[2])
                   THEN [code |-> f.schedule[x[1]], active |-> TRUE,
                         price |-> f.vente[<<f.schedule[x[1]], x[2]>>]]
                   ELSE Other(variant[x])]

\* An edit sets price and is_active; if an import overlaps it, it may bring back an older cell.
Edit(x, code, price, active) ==
  /\ variant[x] # None
  /\ variant' = [variant EXCEPT ![x] = [code |-> code, price |-> price, active |-> active]]
  /\ UNCHANGED <<cell, product>>

Next ==
  \/ \E f \in Files, clear \in BOOLEAN : Import(f, clear)
  \/ \E x \in Refs \X Keys, code \in Codes, price \in Prices \cup {Null}, active \in BOOLEAN :
       Edit(x, code, price, active)

Spec == Init /\ [][Next]_catalogue
=============================================================================
