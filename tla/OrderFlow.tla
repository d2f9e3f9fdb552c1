------------------------------ MODULE OrderFlow ------------------------------
(***************************************************************************)
(* The life of an order: placed by a customer, paid for through Stripe     *)
(* Checkout, and carried to delivery by the CRM staff.                     *)
(*                                                                         *)
(* The back-end is a pool of gunicorn workers over one PostgreSQL          *)
(* database.  A worker serves one HTTP request at a time; there is no      *)
(* ATOMIC_REQUESTS, so every ORM call commits by itself and a request is   *)
(* a sequence of atomic steps that interleave with those of the other      *)
(* workers.  Celery runs in eager mode with eager propagation: a mail is   *)
(* sent inside the request and its failure is the request's failure.       *)
(*                                                                         *)
(* Stripe is external.  It delivers the events of a session until one      *)
(* delivery is answered 200, possibly again afterwards, in any order and   *)
(* to several workers at once.                                             *)
(***************************************************************************)
EXTENDS Naturals, FiniteSets

CONSTANTS
  Orders,         \* primary keys of the table orders (a sequence: never reused)
  Sessions,       \* ids of the Checkout sessions that Stripe can hand out
  Workers,        \* the gunicorn workers
  NoSession,      \* the empty stripe_session_id
  WithShipping,   \* the sessions whose events carry shipping_details
  WithMetadata,   \* the sessions whose payment_failed event carries the metadata
  CrmTargets,     \* the statuses the CRM staff ask for
  MaxFaults,      \* bound: requests that die half way
  MaxDuplicates,  \* bound: events Stripe delivers again after a 200
  MaxDeploys      \* bound: container starts, each of which clears the orders

ASSUME SessionsAssumption == NoSession \notin Sessions
ASSUME WorkersAssumption  == IsFiniteSet(Workers)
ASSUME SubsetsAssumption  == WithShipping \subseteq Sessions /\ WithMetadata \subseteq Sessions
ASSUME BoundsAssumption   == MaxFaults \in Nat /\ MaxDuplicates \in Nat /\ MaxDeploys \in Nat

VARIABLES
  row,         \* row[o]: the column status of order o, "none" before and "deleted" after its life
  stored,      \* stored[o]: the column stripe_session_id
  snapshot,    \* snapshot[o]: the session whose shipping_details replaced the form's address
  session,     \* session[s]: what Stripe knows of session s; the customer can pay an "open" one
  event,       \* event[k][s]: the event of kind k about s, "due" until it is answered 200
  job,         \* job[w]: the request that worker w is serving, and how far it is
  mailed,      \* mailed[o]: the kinds of mail sent about o
  confirmed,   \* confirmed[o]: how many confirmations of payment were sent about o
  ever,        \* history: the statuses that the row of o has held
  settlements, \* history: how many times a webhook has moved o to "paid"
  faults, duplicates, deploys  \* how much of each bound is spent

database == <<row, stored, snapshot>>
stripe   == <<session, event>>
history  == <<ever, settlements>>
outbox   == <<mailed, confirmed>>
budgets  == <<faults, duplicates, deploys>>
vars     == <<database, stripe, job, outbox, history, budgets>>

-----------------------------------------------------------------------------
Status == {"pending", "paid", "in_production", "shipped", "delivered", "cancelled"}

ALLOWED_STATUS_TRANSITIONS ==
  [paid          |-> {"in_production", "cancelled"},
   in_production |-> {"shipped", "cancelled"},
   shipped       |-> {"delivered"}]

\* Mutant of Allowed: a milestone may be skipped.
AllowedToSkip(st) == IF st = "paid" THEN {"in_production", "shipped", "cancelled"} ELSE {"delivered"}

\* dict.get(status, [])
Allowed(st) ==
  IF st \in DOMAIN ALLOWED_STATUS_TRANSITIONS THEN ALLOWED_STATUS_TRANSITIONS[st] ELSE {}

\* The CRM statuses announced to the customer by a mail of the same name.
Announced == {"in_production", "shipped", "delivered"}

MailKind  == {"order", "payment", "new_order"} \cup Announced
EventKind == {"completed", "expired", "failed"}

Unused   == [state |-> "unused"]
Session  == {Unused} \cup [state : {"created", "open", "paid", "expired"}, order : Orders]

Idle         == [step |-> "idle"]
CreateJob    == [step : {"confirm"}, order : Orders]
CheckoutJob  == [step : {"create_session"}, order : Orders]
                  \cup [step : {"store_session"}, order : Orders, session : Sessions]
WebhookSteps == {"apply", "ship_to", "mail_customer", "mail_admin", "respond"}
WebhookJob   == [step : WebhookSteps, kind : EventKind, session : Sessions, order : Orders]
CrmJob       == [step : {"save"}, order : Orders, seen : Status, target : Status]
                  \cup [step : {"announce"}, order : Orders, seen : Status, target : Announced]
Job          == {Idle} \cup CreateJob \cup CheckoutJob \cup WebhookJob \cup CrmJob

TypeOK ==
  /\ row \in [Orders -> Status \cup {"none", "deleted"}]
  /\ stored \in [Orders -> Sessions \cup {NoSession}]
  /\ snapshot \in [Orders -> Sessions \cup {NoSession}]
  /\ session \in [Sessions -> Session]
  /\ event \in [EventKind -> [Sessions -> {"none", "due", "answered"}]]
  /\ job \in [Workers -> Job]
  /\ mailed \in [Orders -> SUBSET MailKind]
  /\ confirmed \in [Orders -> Nat]
  /\ ever \in [Orders -> SUBSET Status]
  /\ settlements \in [Orders -> Nat]
  /\ faults \in 0..MaxFaults
  /\ duplicates \in 0..MaxDuplicates
  /\ deploys \in 0..MaxDeploys

Init ==
  /\ row = [o \in Orders |-> "none"]
  /\ stored = [o \in Orders |-> NoSession]
  /\ snapshot = [o \in Orders |-> NoSession]
  /\ session = [s \in Sessions |-> Unused]
  /\ event = [k \in EventKind |-> [s \in Sessions |-> "none"]]
  /\ job = [w \in Workers |-> Idle]
  /\ mailed = [o \in Orders |-> {}]
  /\ confirmed = [o \in Orders |-> 0]
  /\ ever = [o \in Orders |-> {}]
  /\ settlements = [o \in Orders |-> 0]
  /\ faults = 0 /\ duplicates = 0 /\ deploys = 0

-----------------------------------------------------------------------------
(***************************************************************************)
(* Helpers of the actions.                                                 *)
(***************************************************************************)
Exists(o) == row[o] \in Status

At(w, step) == job[w].step = step

GoTo(w, step) == job' = [job EXCEPT ![w].step = step]

Finish(w) == job' = [job EXCEPT ![w] = Idle]

\* An UPDATE of the column status; it touches no line when the row is gone.
SetStatus(o, st) ==
  /\ row' = [row EXCEPT ![o] = st]
  /\ ever' = [ever EXCEPT ![o] = @ \cup {st}]

Mail(o, m) == mailed' = [mailed EXCEPT ![o] = @ \cup {m}]

\* Mutant of Completes: the event's family stands for the event.
CompletesBySession(k) == k \in {"completed", "expired"}

\* The events that settle an order, and those that end its checkout without money.
Completes(k) == k = "completed"
Lapses(k)    == k \in {"expired", "failed"}

\* Mutant of NotYetPaid: only_if_not is dropped.
AnyStatus(o) == Exists(o)

\* The WHERE clause of the conditional UPDATE.
NotYetPaid(o) == Exists(o) /\ row[o] # "paid"

\* Mutant of NothingUpdated: an UPDATE of no line is an error, and a 500.
NothingUpdatedIsAnError(w) == Finish(w)

\* if not updated: return
NothingUpdated(w) == GoTo(w, "respond")

-----------------------------------------------------------------------------
(***************************************************************************)
(* POST /api/orders/: the order and its lines are saved in a transaction,  *)
(* the confirmation is mailed after the commit.                            *)
(***************************************************************************)
CreateOrder(w, o) ==
  /\ At(w, "idle")
  /\ row[o] = "none"
  /\ SetStatus(o, "pending")
  /\ job' = [job EXCEPT ![w] = [step |-> "confirm", order |-> o]]
  /\ UNCHANGED <<stored, snapshot, stripe, outbox, settlements, budgets>>

\* The task reloads the order: DoesNotExist, and a 500, when it was cleared.
SendOrderConfirmation(w) ==
  /\ At(w, "confirm")
  /\ IF Exists(job[w].order) THEN Mail(job[w].order, "order") ELSE UNCHANGED mailed
  /\ Finish(w)
  /\ UNCHANGED <<database, stripe, confirmed, history, budgets>>

-----------------------------------------------------------------------------
(***************************************************************************)
(* POST /api/orders/<id>/checkout/: the order is read whatever its status, *)
(* a session is opened at Stripe, and its id is stored over the last one.  *)
(***************************************************************************)
StartCheckout(w, o) ==
  /\ At(w, "idle")
  /\ Exists(o)
  /\ job' = [job EXCEPT ![w] = [step |-> "create_session", order |-> o]]
  /\ UNCHANGED <<database, stripe, outbox, history, budgets>>

CreateStripeSession(w, s) ==
  /\ At(w, "create_session")
  /\ session[s] = Unused
  /\ session' = [session EXCEPT ![s] = [state |-> "created", order |-> job[w].order]]
  /\ job' = [job EXCEPT ![w] = [step |-> "store_session", order |-> job[w].order, session |-> s]]
  /\ UNCHANGED <<database, event, outbox, history, budgets>>

\* Session.create raises: the view answers 400.
StripeRefuses(w) ==
  /\ At(w, "create_session")
  /\ Finish(w)
  /\ UNCHANGED <<database, stripe, outbox, history, budgets>>

\* The client_secret in the response is what lets the customer pay: until then the session
\* can only expire.
UpdateStripeSession(w) ==
  LET s == job[w].session IN
  /\ At(w, "store_session")
  /\ stored' = IF Exists(job[w].order)
                 THEN [stored EXCEPT ![job[w].order] = s]
                 ELSE stored
  /\ session' = IF session[s].state = "created"
                  THEN [session EXCEPT ![s].state = "open"]
                  ELSE session
  /\ Finish(w)
  /\ UNCHANGED <<row, snapshot, event, outbox, history, budgets>>

-----------------------------------------------------------------------------
(***************************************************************************)
(* Stripe: the customer pays an open session, has a card declined in it    *)
(* (once per session here), or lets it expire.                             *)
(***************************************************************************)
Pay(s) ==
  /\ session[s].state = "open"
  /\ session' = [session EXCEPT ![s].state = "paid"]
  /\ event' = [event EXCEPT !["completed"][s] = "due"]
  /\ UNCHANGED <<database, job, outbox, history, budgets>>

Decline(s) ==
  /\ session[s].state = "open"
  /\ event["failed"][s] = "none"
  /\ event' = [event EXCEPT !["failed"][s] = "due"]
  /\ UNCHANGED <<database, session, job, outbox, history, budgets>>

Expire(s) ==
  /\ session[s].state \in {"created", "open"}
  /\ session' = [session EXCEPT ![s].state = "expired"]
  /\ event' = [event EXCEPT !["expired"][s] = "due"]
  /\ UNCHANGED <<database, job, outbox, history, budgets>>

\* At-least-once delivery: an event may come back after it was answered.
Redeliver(k, s) ==
  /\ event[k][s] = "answered"
  /\ duplicates < MaxDuplicates
  /\ duplicates' = duplicates + 1
  /\ event' = [event EXCEPT ![k][s] = "due"]
  /\ UNCHANGED <<database, session, job, outbox, history, faults, deploys>>

-----------------------------------------------------------------------------
(***************************************************************************)
(* POST /api/webhooks/stripe/.  (A bad signature is answered 400 and       *)
(* changes nothing.)                                                       *)
(***************************************************************************)
CarriesOrder(k, s) == k = "failed" => s \in WithMetadata

\* No metadata["order_id"]: the handler returns and the view answers 200.
IgnoreEvent(w, k, s) ==
  /\ At(w, "idle")
  /\ event[k][s] = "due"
  /\ ~CarriesOrder(k, s)
  /\ event' = [event EXCEPT ![k][s] = "answered"]
  /\ UNCHANGED <<database, session, job, outbox, history, budgets>>

\* Mutant of ReceiveEvent: the 200 goes out before the event is handled.
AnswerFirst(w, k, s) ==
  /\ At(w, "idle")
  /\ event[k][s] = "due"
  /\ CarriesOrder(k, s)
  /\ event' = [event EXCEPT ![k][s] = "answered"]
  /\ job' = [job EXCEPT ![w] = [step |-> "apply", kind |-> k, session |-> s,
                                order |-> session[s].order]]
  /\ UNCHANGED <<database, session, outbox, history, budgets>>

ReceiveEvent(w, k, s) ==
  /\ At(w, "idle")
  /\ event[k][s] = "due"
  /\ CarriesOrder(k, s)
  /\ job' = [job EXCEPT ![w] = [step |-> "apply", kind |-> k, session |-> s,
                                order |-> session[s].order]]
  /\ UNCHANGED <<database, stripe, outbox, history, budgets>>

\* UPDATE ... WHERE id = o AND NOT status = 'paid': a single statement.
HandleCheckoutCompleted(w) ==
  LET o == job[w].order IN
  /\ At(w, "apply")
  /\ Completes(job[w].kind)
  /\ \/ /\ NotYetPaid(o)
        /\ SetStatus(o, "paid")
        /\ settlements' = IF row[o] = "paid" THEN settlements
                                             ELSE [settlements EXCEPT ![o] = @ + 1]
        /\ GoTo(w, IF job[w].session \in WithShipping THEN "ship_to" ELSE "mail_customer")
     \/ /\ ~NotYetPaid(o)
        /\ NothingUpdated(w)
        /\ UNCHANGED <<row, history>>
  /\ UNCHANGED <<stored, snapshot, stripe, outbox, budgets>>

UpdateShippingSnapshot(w) ==
  LET o == job[w].order IN
  /\ At(w, "ship_to")
  /\ snapshot' = IF Exists(o) THEN [snapshot EXCEPT ![o] = job[w].session] ELSE snapshot
  /\ GoTo(w, "mail_customer")
  /\ UNCHANGED <<row, stored, stripe, outbox, history, budgets>>

\* Both kinds cancel the order whatever its status.
HandleCheckoutLapsed(w) ==
  LET o == job[w].order IN
  /\ At(w, "apply")
  /\ Lapses(job[w].kind)
  /\ IF Exists(o) THEN SetStatus(o, "cancelled") ELSE UNCHANGED <<row, ever>>
  /\ GoTo(w, "respond")
  /\ UNCHANGED <<stored, snapshot, stripe, outbox, settlements, budgets>>

\* The task reloads the order: DoesNotExist, and a 500, when it was cleared.
SendPaymentConfirmation(w) ==
  LET o == job[w].order IN
  /\ At(w, "mail_customer")
  /\ \/ /\ Exists(o)
        /\ Mail(o, "payment")
        /\ confirmed' = [confirmed EXCEPT ![o] = @ + 1]
        /\ GoTo(w, "mail_admin")
     \/ /\ ~Exists(o)
        /\ Finish(w)
        /\ UNCHANGED outbox
  /\ UNCHANGED <<database, stripe, history, budgets>>

SendNewOrderToAdmin(w) ==
  /\ At(w, "mail_admin")
  /\ Mail(job[w].order, "new_order")
  /\ GoTo(w, "respond")
  /\ UNCHANGED <<database, stripe, confirmed, history, budgets>>

\* 200: Stripe stops delivering the event.
Respond(w) ==
  /\ At(w, "respond")
  /\ event' = [event EXCEPT ![job[w].kind][job[w].session] = "answered"]
  /\ Finish(w)
  /\ UNCHANGED <<database, session, outbox, history, budgets>>

-----------------------------------------------------------------------------
(***************************************************************************)
(* PATCH /api/crm/orders/<id>/status/: the order is read and its status    *)
(* checked against the graph; the new status is saved later, with no lock  *)
(* and no condition.                                                       *)
(***************************************************************************)
\* Mutant of CrmRead: the customer is told before the status is saved.
AnnounceFirst(w, o, target) ==
  /\ At(w, "idle")
  /\ Exists(o)
  /\ target \in Allowed(row[o])
  /\ job' = [job EXCEPT ![w] = [step |-> "save", order |-> o, seen |-> row[o], target |-> target]]
  /\ IF target \in Announced THEN Mail(o, target) ELSE UNCHANGED mailed
  /\ UNCHANGED <<database, stripe, confirmed, history, budgets>>

CrmRead(w, o, target) ==
  /\ At(w, "idle")
  /\ Exists(o)
  /\ target \in Allowed(row[o])
  /\ job' = [job EXCEPT ![w] = [step |-> "save", order |-> o, seen |-> row[o], target |-> target]]
  /\ UNCHANGED <<database, stripe, outbox, history, budgets>>

\* Mutant of CrmSave: the customer is written to whatever the new status.
AnnounceAnyStatus(w) ==
  LET o == job[w].order IN
  /\ At(w, "save")
  /\ IF Exists(o) THEN SetStatus(o, job[w].target) ELSE UNCHANGED <<row, ever>>
  /\ IF Exists(o) THEN GoTo(w, "announce") ELSE Finish(w)
  /\ UNCHANGED <<stored, snapshot, stripe, outbox, settlements, budgets>>

\* save(update_fields=...) of a row that is gone raises DatabaseError: a 500.
CrmSave(w) ==
  LET o == job[w].order IN
  /\ At(w, "save")
  /\ IF Exists(o) THEN SetStatus(o, job[w].target) ELSE UNCHANGED <<row, ever>>
  /\ IF Exists(o) /\ job[w].target \in Announced THEN GoTo(w, "announce") ELSE Finish(w)
  /\ UNCHANGED <<stored, snapshot, stripe, outbox, settlements, budgets>>

CrmAnnounce(w) ==
  LET o == job[w].order IN
  /\ At(w, "announce")
  /\ IF Exists(o) THEN Mail(o, job[w].target) ELSE UNCHANGED mailed
  /\ Finish(w)
  /\ UNCHANGED <<database, stripe, confirmed, history, budgets>>

-----------------------------------------------------------------------------
(***************************************************************************)
(* Faults.  A request dies at any of its steps: the mail server refuses,   *)
(* the database is away, gunicorn kills a worker after 60 s.  What it has  *)
(* committed stays; Stripe sees no 200 and delivers again.                 *)
(***************************************************************************)
RequestDies(w) ==
  /\ ~At(w, "idle")
  /\ faults < MaxFaults
  /\ faults' = faults + 1
  /\ Finish(w)
  /\ UNCHANGED <<database, stripe, outbox, history, duplicates, deploys>>

\* A container starts: import_price_grid --clear deletes every order.
Deploy ==
  /\ deploys < MaxDeploys
  /\ deploys' = deploys + 1
  /\ row' = [o \in Orders |-> IF Exists(o) THEN "deleted" ELSE row[o]]
  /\ UNCHANGED <<stored, snapshot, stripe, job, outbox, history, faults, duplicates>>

-----------------------------------------------------------------------------
CreateOrderStep(w) == SendOrderConfirmation(w)
CheckoutStep(w)    == (\E s \in Sessions : CreateStripeSession(w, s)) \/ StripeRefuses(w)
                        \/ UpdateStripeSession(w)
WebhookStep(w)     == HandleCheckoutCompleted(w) \/ UpdateShippingSnapshot(w)
                        \/ HandleCheckoutLapsed(w) \/ SendPaymentConfirmation(w)
                        \/ SendNewOrderToAdmin(w) \/ Respond(w)
CrmStep(w)         == CrmSave(w) \/ CrmAnnounce(w)

\* A worker takes the next step of the request it is serving.
Proceed(w) == CreateOrderStep(w) \/ CheckoutStep(w) \/ WebhookStep(w) \/ CrmStep(w)

\* A worker accepts a delivery of the event.
Deliver(k, s) == \E w \in Workers : IgnoreEvent(w, k, s) \/ ReceiveEvent(w, k, s)

Accept(w, o) == CreateOrder(w, o) \/ StartCheckout(w, o)
                  \/ \E target \in CrmTargets : CrmRead(w, o, target)

StripeMoves(s) == Pay(s) \/ Decline(s) \/ Expire(s) \/ \E k \in EventKind : Redeliver(k, s)

Next ==
  \/ \E w \in Workers : Proceed(w) \/ RequestDies(w)
  \/ \E w \in Workers, o \in Orders : Accept(w, o)
  \/ \E k \in EventKind, s \in Sessions : Deliver(k, s)
  \/ \E s \in Sessions : StripeMoves(s)
  \/ Deploy

Spec == Init /\ [][Next]_vars

(***************************************************************************)
(* A worker goes on with its request (gunicorn kills it otherwise, and the *)
(* faults are finite); a delivery that Stripe keeps repeating is sooner or *)
(* later accepted by some worker, though each is at times busy.            *)
(***************************************************************************)
Fairness ==
  /\ \A w \in Workers : WF_vars(Proceed(w))
  /\ \A k \in EventKind, s \in Sessions : SF_vars(Deliver(k, s))

FairSpec == Spec /\ Fairness

-----------------------------------------------------------------------------
(***************************************************************************)
(* Properties.                                                             *)
(***************************************************************************)
\* Stripe holds the money of a session opened for order o.
MoneyReceived(o) ==
  \E s \in Sessions : session[s].state = "paid" /\ session[s].order = o

\* An order is marked paid, and hence made and shipped, only if a session that was opened for
\* it was paid: no expired, failed, foreign or replayed event does it (payment_service.py:69-88).
PaidOnlyWithMoney ==
  \A o \in Orders : "paid" \in ever[o] => MoneyReceived(o)

\* Whatever stale status two CRM requests acted on, no order is delivered that was not shipped
\* before, shipped that was not produced, produced that was not paid (views_crm.py:77-95).
MilestonesInOrder ==
  \A o \in Orders :
    /\ "delivered" \in ever[o] => "shipped" \in ever[o]
    /\ "shipped" \in ever[o] => "in_production" \in ever[o]
    /\ "in_production" \in ever[o] => "paid" \in ever[o]

\* The effect of the event of kind k about session s has reached its order, or the order is gone.
Applied(k, s) ==
  LET o == session[s].order IN
  \/ row[o] = "deleted"
  \/ (IF k = "completed" THEN "paid" ELSE "cancelled") \in ever[o]

\* Once Stripe has its 200 and stops retrying, the order has been through the status the event
\* calls for: no death between two steps of a webhook loses a payment (payment_views.py:71-76).
AnsweredEventsAreApplied ==
  \A k \in EventKind, s \in Sessions :
    event[k][s] = "answered" /\ CarriesOrder(k, s) => Applied(k, s)

\* The session id and the address on an order are those of a session opened for that very order,
\* and the address that of a paid one, so by-session finds one order or none, never another's
\* (order_repository.py:49-57).
StoredSessionIsOurs ==
  \A o \in Orders, s \in Sessions :
    /\ stored[o] = s => session[s].state # "unused" /\ session[s].order = o
    /\ snapshot[o] = s => session[s].state = "paid" /\ session[s].order = o

\* No mail runs ahead of the database: a customer is told of a payment or of a milestone only
\* after the row has held it, and the workshop of an order only after its customer
\* (views_crm.py:94-103, emails.py:55-76).
MailsFollowTheRow ==
  \A o \in Orders :
    /\ mailed[o] \cap Announced \subseteq ever[o]
    /\ "payment" \in mailed[o] => "paid" \in ever[o]
    /\ "new_order" \in mailed[o] => "payment" \in mailed[o]

\* However many deliveries of its events run at once, each confirmation of payment answers to a
\* move of the row to paid of its own: the conditional UPDATE lets one of them through
\* (payment_service.py:77-81).
OneConfirmationPerSettlement ==
  \A o \in Orders : confirmed[o] <= settlements[o]

\* What the customers, Stripe and the staff see of all this is the ledger of OrderLedger: money
\* before "paid", milestones in order, no cancellation out of the blue, no return of a cleared
\* order, whatever the interleaving of webhooks, CRM requests, deaths and deployments.
LapsedFor(o) ==
  \E s \in Sessions :
    /\ session[s].state # "unused" /\ session[s].order = o
    /\ event["expired"][s] # "none" \/ event["failed"][s] # "none"

Ledger == INSTANCE OrderLedger WITH
  standing  <- row,
  reached   <- ever,
  collected <- {o \in Orders : MoneyReceived(o)},
  lapsed    <- {o \in Orders : LapsedFor(o)}

ImplementsLedger == Ledger!Spec

\* "Update order status following the allowed transition graph" (views_crm.py:61): a CRM request
\* moves an order only along an edge that leaves the status the order has at that moment.
FollowsTransitionGraph ==
  [][\A w \in Workers, o \in Orders :
       At(w, "save") /\ job'[w] # job[w] /\ row'[o] # row[o] =>
         /\ row[o] \in DOMAIN ALLOWED_STATUS_TRANSITIONS
         /\ row'[o] \in ALLOWED_STATUS_TRANSITIONS[row[o]]]_vars

\* A customer is told only once that an order is paid.
ConfirmedAtMostOnce ==
  \A o \in Orders : confirmed[o] <= 1

\* A completed checkout that Stripe considers handled was confirmed to the customer.
AnsweredPaymentsAreConfirmed ==
  \A s \in Sessions :
    event["completed"][s] = "answered" =>
      row[session[s].order] = "deleted" \/ "payment" \in mailed[session[s].order]

\* Money that Stripe has taken reaches the order: sooner or later it is marked paid, unless it
\* is cleared, in spite of deaths, duplicates and any order of delivery (payment_service.py:74-81).
PaymentReachesOrder ==
  \A s \in Sessions, o \in Orders :
    session[s] = [state |-> "paid", order |-> o] ~> "paid" \in ever[o] \/ row[o] = "deleted"

\* No event is retried for ever: every delivery that is due is in the end answered 200
\* (payment_views.py:67-76), also for an order that is gone.
EventsAreAnswered ==
  \A k \in EventKind, s \in Sessions : event[k][s] = "due" ~> event[k][s] = "answered"
=============================================================================
