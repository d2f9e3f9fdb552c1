----------------------------- MODULE OrderLedger -----------------------------
(***************************************************************************)
(* What the shop promises about an order, with no worker, no event and no  *)
(* mail in sight: it is placed, Stripe collects money for it or a payment  *)
(* attempt lapses, it is marked paid only once money was collected, it     *)
(* goes through the milestones of fulfilment in their order, it is         *)
(* cancelled only after a lapse or a payment, and clearing is for good.    *)
(*                                                                         *)
(* It does not promise that the status never goes back: OrderFlow does     *)
(* not keep that promise.                                                  *)
(***************************************************************************)
CONSTANT Orders

VARIABLES
  standing,   \* standing[o]: the status of o, "none" before it is placed, "deleted" once cleared
  reached,    \* reached[o]: every status o has had
  collected,  \* the orders for which Stripe has received money
  lapsed      \* the orders of which a payment attempt was declined or expired

vars == <<standing, reached, collected, lapsed>>

\* Each milestone of fulfilment and the one that comes right before it.
Before == [in_production |-> "paid", shipped |-> "in_production", delivered |-> "shipped"]

Live(o) == standing[o] \notin {"none", "deleted"}

Init ==
  /\ standing = [o \in Orders |-> "none"]
  /\ reached = [o \in Orders |-> {}]
  /\ collected = {}
  /\ lapsed = {}

Enter(o, st) ==
  /\ standing' = [standing EXCEPT ![o] = st]
  /\ reached' = [reached EXCEPT ![o] = @ \cup {st}]
  /\ UNCHANGED <<collected, lapsed>>

Place(o) == standing[o] = "none" /\ Enter(o, "pending")

Collect(o) ==
  /\ standing[o] # "none"
  /\ collected' = collected \cup {o}
  /\ UNCHANGED <<standing, reached, lapsed>>

Lapse(o) ==
  /\ standing[o] # "none"
  /\ lapsed' = lapsed \cup {o}
  /\ UNCHANGED <<standing, reached, collected>>

Settle(o) == Live(o) /\ o \in collected /\ Enter(o, "paid")

Progress(o, st) == Live(o) /\ Before[st] \in reached[o] /\ Enter(o, st)

Cancel(o) == Live(o) /\ (o \in lapsed \/ "paid" \in reached[o]) /\ Enter(o, "cancelled")

Clear ==
  /\ standing' = [o \in Orders |-> IF Live(o) THEN "deleted" ELSE standing[o]]
  /\ UNCHANGED <<reached, collected, lapsed>>

Next ==
  \/ \E o \in Orders : Place(o) \/ Collect(o) \/ Lapse(o) \/ Settle(o) \/ Cancel(o)
  \/ \E o \in Orders, st \in DOMAIN Before : Progress(o, st)
  \/ Clear

Spec == Init /\ [][Next]_vars
=============================================================================
