--------------------------- MODULE OrderFlowProofs ---------------------------
(***************************************************************************)
(* Proofs about OrderFlow, for every set of orders, sessions and workers   *)
(* and every bound: the type invariant, the safety invariants, and the     *)
(* implementation of OrderLedger.                                          *)
(***************************************************************************)
EXTENDS OrderFlow, FiniteSetTheorems, TLAPS

-----------------------------------------------------------------------------
(***************************************************************************)
(* The inductive invariant.                                                *)
(***************************************************************************)
\* A session is opened for an order that has been placed.
SessionsHaveOrders ==
  \A s \in Sessions : session[s].state # "unused" => row[session[s].order] # "none"

\* Stripe emits an event about a session only when the session is in the matching state.
EventsHaveSessions ==
  \A s \in Sessions :
    /\ event["completed"][s] # "none" => session[s].state = "paid"
    /\ event["expired"][s] # "none" => session[s].state = "expired"
    /\ event["failed"][s] # "none" => session[s].state # "unused"

\* The history contains the present.
RowIsInHistory == \A o \in Orders : Exists(o) => row[o] \in ever[o]

(***************************************************************************)
(* What a worker knows, between two steps of the request it serves.        *)
(***************************************************************************)
\* A request is about an order that was placed.
OrderIsPlaced(w) == ~At(w, "idle") => row[job[w].order] # "none"

\* A session that a request holds was opened, for the order the request is about.
SessionIsOfOrder(w) ==
  job[w].step \in {"store_session"} \cup WebhookSteps =>
    /\ session[job[w].session].state # "unused"
    /\ session[job[w].session].order = job[w].order

\* A webhook handles an event that Stripe emitted; past its UPDATE it has applied it, and it
\* mails only about what was paid, the workshop only after the customer.
WebhookIsOnCourse(w) ==
  /\ job[w].step \in WebhookSteps =>
       /\ event[job[w].kind][job[w].session] # "none"
       /\ CarriesOrder(job[w].kind, job[w].session)
  /\ At(w, "respond") => Applied(job[w].kind, job[w].session)
  /\ job[w].step \in {"ship_to", "mail_customer", "mail_admin"} =>
       job[w].kind = "completed" /\ "paid" \in ever[job[w].order]
  /\ At(w, "mail_admin") => "payment" \in mailed[job[w].order]

\* The status a CRM request read, stale as it may be, is one the row has held, and the request
\* goes along an edge from it.
CrmActsOnThePast(w) ==
  /\ job[w].step \in {"save", "announce"} =>
       job[w].seen \in ever[job[w].order] /\ job[w].target \in Allowed(job[w].seen)
  /\ At(w, "announce") => job[w].target \in ever[job[w].order]

RequestInv(w) ==
  OrderIsPlaced(w) /\ SessionIsOfOrder(w) /\ WebhookIsOnCourse(w) /\ CrmActsOnThePast(w)

RequestsAreSound == \A w \in Workers : RequestInv(w)

IInv ==
  /\ TypeOK
  /\ SessionsHaveOrders
  /\ EventsHaveSessions
  /\ RowIsInHistory
  /\ RequestsAreSound
  /\ PaidOnlyWithMoney
  /\ MilestonesInOrder
  /\ AnsweredEventsAreApplied
  /\ StoredSessionIsOurs
  /\ MailsFollowTheRow

-----------------------------------------------------------------------------
(***************************************************************************)
(* The shape of a request is known from its step.                          *)
(***************************************************************************)
LEMMA JobShape ==
  ASSUME TypeOK, NEW w \in Workers
  PROVE  /\ At(w, "idle") => job[w] = Idle
         /\ At(w, "confirm") => job[w] \in CreateJob
         /\ job[w].step \in {"create_session", "store_session"} => job[w] \in CheckoutJob
         /\ job[w].step \in WebhookSteps => job[w] \in WebhookJob
         /\ job[w].step \in {"save", "announce"} => job[w] \in CrmJob
BY DEF TypeOK, At, Job, Idle, CreateJob, CheckoutJob, WebhookSteps, WebhookJob, CrmJob

\* The next step of a request keeps what the request is about.
LEMMA GoToShape ==
  ASSUME TypeOK, NEW w \in Workers, NEW step, GoTo(w, step)
  PROVE  /\ job' = [job EXCEPT ![w] = [job[w] EXCEPT !.step = step]]
         /\ job[w] \in WebhookJob /\ step \in WebhookSteps => job' \in [Workers -> Job]
         /\ job[w] \in CrmJob /\ step = "announce" /\ job[w].target \in Announced =>
              job' \in [Workers -> Job]
<1>1. job' = [job EXCEPT ![w] = [job[w] EXCEPT !.step = step]]
  BY DEF TypeOK, GoTo
<1>2. ASSUME job[w] \in WebhookJob, step \in WebhookSteps
      PROVE  [job[w] EXCEPT !.step = step] \in WebhookJob
  BY <1>2 DEF WebhookJob
<1>3. ASSUME job[w] \in CrmJob, step = "announce", job[w].target \in Announced
      PROVE  [job[w] EXCEPT !.step = step] \in CrmJob
  BY <1>3 DEF CrmJob
<1> QED BY <1>1, <1>2, <1>3 DEF TypeOK, Job

\* Stripe changes the state of a session that was opened, and nothing else of it.
LEMMA SessionMoves ==
  ASSUME TypeOK, NEW s \in Sessions, session[s].state # "unused",
         NEW st \in {"created", "open", "paid", "expired"}
  PROVE  LET moved == [session EXCEPT ![s].state = st] IN
         /\ moved \in [Sessions -> Session]
         /\ moved[s].state = st
         /\ moved[s].order = session[s].order
         /\ \A r \in Sessions \ {s} : moved[r] = session[r]
<1>1. session[s] \in [state : {"created", "open", "paid", "expired"}, order : Orders]
  BY DEF TypeOK, Session, Unused
<1> QED BY <1>1 DEF TypeOK, Session

LEMMA InitType == Init => TypeOK
BY BoundsAssumption DEF Init, TypeOK, Session, Job

LEMMA NextType == IInv /\ [Next]_vars => TypeOK'
<1> SUFFICES ASSUME TypeOK, EventsHaveSessions, [Next]_vars PROVE TypeOK'
  BY DEF IInv
<1> USE DEF TypeOK, database, stripe, outbox, history, budgets, At, Exists, SetStatus, Mail, Finish
<1>1. ASSUME NEW w \in Workers, NEW o \in Orders, CreateOrder(w, o) PROVE TypeOK'
  BY <1>1 DEF CreateOrder, Status, Job, CreateJob
<1>2. ASSUME NEW w \in Workers, SendOrderConfirmation(w) PROVE TypeOK'
  <2>1. job[w].order \in Orders
    BY <1>2, JobShape DEF SendOrderConfirmation, CreateJob
  <2> QED BY <1>2, <2>1 DEF SendOrderConfirmation, Job, MailKind
<1>3. ASSUME NEW w \in Workers, NEW o \in Orders, StartCheckout(w, o) PROVE TypeOK'
  BY <1>3 DEF StartCheckout, Job, CheckoutJob
<1>4. ASSUME NEW w \in Workers, NEW s \in Sessions, CreateStripeSession(w, s) PROVE TypeOK'
  BY <1>4, JobShape DEF CreateStripeSession, Session, Job, CheckoutJob
<1>5. ASSUME NEW w \in Workers, StripeRefuses(w) PROVE TypeOK'
  BY <1>5 DEF StripeRefuses, Job
<1>6. ASSUME NEW w \in Workers, UpdateStripeSession(w) PROVE TypeOK'
  <2>1. job[w].order \in Orders /\ job[w].session \in Sessions
    BY <1>6, JobShape DEF UpdateStripeSession, CheckoutJob
  <2>2. session' \in [Sessions -> Session]
    BY <1>6, <2>1, SessionMoves DEF UpdateStripeSession
  <2>3. stored' \in [Orders -> Sessions \cup {NoSession}]
    BY <1>6, <2>1 DEF UpdateStripeSession
  <2> QED BY <1>6, <2>2, <2>3 DEF UpdateStripeSession, Job
<1>7. ASSUME NEW s \in Sessions, Pay(s) PROVE TypeOK'
  BY <1>7 DEF Pay, Session, Unused, EventKind
<1>8. ASSUME NEW s \in Sessions, Decline(s) PROVE TypeOK'
  BY <1>8 DEF Decline, EventKind
<1>9. ASSUME NEW s \in Sessions, Expire(s) PROVE TypeOK'
  BY <1>9 DEF Expire, Session, Unused, EventKind
<1>10. ASSUME NEW k \in EventKind, NEW s \in Sessions, Redeliver(k, s) PROVE TypeOK'
  BY <1>10, BoundsAssumption DEF Redeliver
<1>11. ASSUME NEW w \in Workers, NEW k \in EventKind, NEW s \in Sessions, IgnoreEvent(w, k, s)
       PROVE TypeOK'
  BY <1>11 DEF IgnoreEvent
<1>12. ASSUME NEW w \in Workers, NEW k \in EventKind, NEW s \in Sessions, ReceiveEvent(w, k, s)
       PROVE TypeOK'
  <2>1. session[s].state # "unused"
    BY <1>12 DEF ReceiveEvent, EventsHaveSessions, EventKind
  <2>2. session[s].order \in Orders
    BY <2>1 DEF Session, Unused
  <2> QED BY <1>12, <2>2 DEF ReceiveEvent, Job, WebhookJob, WebhookSteps
<1>13. ASSUME NEW w \in Workers, HandleCheckoutCompleted(w) PROVE TypeOK'
  <2>1. job[w] \in WebhookJob /\ job[w].order \in Orders
    BY <1>13, JobShape DEF HandleCheckoutCompleted, WebhookSteps, WebhookJob
  <2>2. job' \in [Workers -> Job]
    BY <1>13, <2>1, GoToShape DEF HandleCheckoutCompleted, NothingUpdated, WebhookSteps
  <2>3. /\ row' \in [Orders -> Status \cup {"none", "deleted"}]
        /\ ever' \in [Orders -> SUBSET Status]
    BY <1>13, <2>1 DEF HandleCheckoutCompleted, Status
  <2>4. settlements' \in [Orders -> Nat]
    <3>1. settlements' = settlements \/ settlements' = [settlements EXCEPT ![job[w].order] = @ + 1]
      BY <1>13 DEF HandleCheckoutCompleted
    <3> QED BY <2>1, <3>1
  <2> QED BY <1>13, <2>2, <2>3, <2>4 DEF HandleCheckoutCompleted
<1>14. ASSUME NEW w \in Workers, UpdateShippingSnapshot(w) PROVE TypeOK'
  <2>1. job[w] \in WebhookJob /\ job[w].order \in Orders /\ job[w].session \in Sessions
    BY <1>14, JobShape DEF UpdateShippingSnapshot, WebhookSteps, WebhookJob
  <2>2. job' \in [Workers -> Job]
    BY <1>14, <2>1, GoToShape DEF UpdateShippingSnapshot, WebhookSteps
  <2> QED BY <1>14, <2>1, <2>2 DEF UpdateShippingSnapshot
<1>15. ASSUME NEW w \in Workers, HandleCheckoutLapsed(w) PROVE TypeOK'
  <2>1. job[w] \in WebhookJob /\ job[w].order \in Orders
    BY <1>15, JobShape DEF HandleCheckoutLapsed, WebhookSteps, WebhookJob
  <2>2. job' \in [Workers -> Job]
    BY <1>15, <2>1, GoToShape DEF HandleCheckoutLapsed, WebhookSteps
  <2> QED BY <1>15, <2>1, <2>2 DEF HandleCheckoutLapsed, Status
<1>16. ASSUME NEW w \in Workers, SendPaymentConfirmation(w) PROVE TypeOK'
  <2>1. job[w] \in WebhookJob /\ job[w].order \in Orders
    BY <1>16, JobShape DEF SendPaymentConfirmation, WebhookSteps, WebhookJob
  <2>2. job' \in [Workers -> Job]
    BY <1>16, <2>1, GoToShape DEF SendPaymentConfirmation, WebhookSteps, Job
  <2> QED BY <1>16, <2>1, <2>2 DEF SendPaymentConfirmation, MailKind
<1>17. ASSUME NEW w \in Workers, SendNewOrderToAdmin(w) PROVE TypeOK'
  <2>1. job[w] \in WebhookJob /\ job[w].order \in Orders
    BY <1>17, JobShape DEF SendNewOrderToAdmin, WebhookSteps, WebhookJob
  <2>2. job' \in [Workers -> Job]
    BY <1>17, <2>1, GoToShape DEF SendNewOrderToAdmin, WebhookSteps
  <2> QED BY <1>17, <2>1, <2>2 DEF SendNewOrderToAdmin, MailKind
<1>18. ASSUME NEW w \in Workers, Respond(w) PROVE TypeOK'
  <2>1. job[w].kind \in EventKind /\ job[w].session \in Sessions
    BY <1>18, JobShape DEF Respond, WebhookSteps, WebhookJob
  <2> QED BY <1>18, <2>1 DEF Respond, Job
<1>19. ASSUME NEW w \in Workers, NEW o \in Orders, NEW target \in CrmTargets, CrmRead(w, o, target)
       PROVE TypeOK'
  <2>1. row[o] \in Status /\ target \in Status
    BY <1>19 DEF CrmRead, Allowed, ALLOWED_STATUS_TRANSITIONS, Status
  <2> QED BY <1>19, <2>1 DEF CrmRead, Job, CrmJob
<1>20. ASSUME NEW w \in Workers, CrmSave(w) PROVE TypeOK'
  <2>1. job[w] \in CrmJob /\ job[w].order \in Orders /\ job[w].target \in Status
    BY <1>20, JobShape DEF CrmSave, CrmJob
  <2>2. job' \in [Workers -> Job]
    BY <1>20, <2>1, GoToShape DEF CrmSave, Job
  <2>3. /\ row' \in [Orders -> Status \cup {"none", "deleted"}]
        /\ ever' \in [Orders -> SUBSET Status]
    BY <1>20, <2>1 DEF CrmSave
  <2> QED BY <1>20, <2>2, <2>3 DEF CrmSave
<1>21. ASSUME NEW w \in Workers, CrmAnnounce(w) PROVE TypeOK'
  <2>1. job[w].order \in Orders /\ job[w].target \in Announced
    BY <1>21, JobShape DEF CrmAnnounce, CrmJob
  <2> QED BY <1>21, <2>1 DEF CrmAnnounce, MailKind, Job
<1>22. ASSUME NEW w \in Workers, RequestDies(w) PROVE TypeOK'
  BY <1>22, BoundsAssumption DEF RequestDies, Job
<1>23. CASE Deploy
  BY <1>23, BoundsAssumption DEF Deploy
<1>24. CASE UNCHANGED vars
  BY <1>24 DEF vars
<1> QED
  BY <1>1, <1>2, <1>3, <1>4, <1>5, <1>6, <1>7, <1>8, <1>9, <1>10, <1>11, <1>12, <1>13, <1>14,
     <1>15, <1>16, <1>17, <1>18, <1>19, <1>20, <1>21, <1>22, <1>23, <1>24
     DEF Next, Proceed, CreateOrderStep, CheckoutStep, WebhookStep, CrmStep, Accept, Deliver, StripeMoves

-----------------------------------------------------------------------------
(***************************************************************************)
(* Which actions touch what.                                               *)
(***************************************************************************)
LEMMA RowSteps ==
  ASSUME [Next]_vars
  PROVE  \/ \E w \in Workers, o \in Orders : CreateOrder(w, o)
         \/ \E w \in Workers : HandleCheckoutCompleted(w) \/ HandleCheckoutLapsed(w) \/ CrmSave(w)
         \/ Deploy
         \/ UNCHANGED <<row, ever>>
BY DEF Next, vars, database, stripe, outbox, history, budgets, Proceed, CreateOrderStep, CheckoutStep,
       WebhookStep, CrmStep, Accept, Deliver, StripeMoves, RequestDies, SendOrderConfirmation,
       StartCheckout, CreateStripeSession, StripeRefuses, UpdateStripeSession, Pay, Decline, Expire,
       Redeliver, IgnoreEvent, ReceiveEvent, UpdateShippingSnapshot, SendPaymentConfirmation,
       SendNewOrderToAdmin, Respond, CrmRead, CrmAnnounce

LEMMA StripeSteps ==
  ASSUME [Next]_vars
  PROVE  \/ \E w \in Workers, s \in Sessions : CreateStripeSession(w, s)
         \/ \E w \in Workers : UpdateStripeSession(w) \/ Respond(w)
         \/ \E s \in Sessions : Pay(s) \/ Decline(s) \/ Expire(s)
         \/ \E k \in EventKind, s \in Sessions : Redeliver(k, s)
         \/ \E w \in Workers, k \in EventKind, s \in Sessions : IgnoreEvent(w, k, s)
         \/ UNCHANGED <<session, event>>
BY DEF Next, vars, database, stripe, outbox, history, budgets, Proceed, CreateOrderStep, CheckoutStep,
       WebhookStep, CrmStep, Accept, Deliver, StripeMoves, RequestDies, CreateOrder,
       SendOrderConfirmation, StartCheckout, StripeRefuses, ReceiveEvent, HandleCheckoutCompleted,
       UpdateShippingSnapshot, HandleCheckoutLapsed, SendPaymentConfirmation, SendNewOrderToAdmin,
       CrmRead, CrmSave, CrmAnnounce, Deploy

LEMMA MailSteps ==
  ASSUME [Next]_vars
  PROVE  \/ \E w \in Workers : \/ SendOrderConfirmation(w) \/ SendPaymentConfirmation(w)
                               \/ SendNewOrderToAdmin(w) \/ CrmAnnounce(w)
         \/ UNCHANGED mailed
BY DEF Next, vars, database, stripe, outbox, history, budgets, Proceed, CreateOrderStep, CheckoutStep,
       WebhookStep, CrmStep, Accept, Deliver, StripeMoves, RequestDies, CreateOrder, StartCheckout,
       CreateStripeSession, StripeRefuses, UpdateStripeSession, Pay, Decline, Expire, Redeliver,
       IgnoreEvent, ReceiveEvent, HandleCheckoutCompleted, UpdateShippingSnapshot,
       HandleCheckoutLapsed, Respond, CrmRead, CrmSave, Deploy

LEMMA StoredSteps ==
  ASSUME [Next]_vars
  PROVE  \/ \E w \in Workers : UpdateStripeSession(w) \/ UpdateShippingSnapshot(w)
         \/ UNCHANGED <<stored, snapshot>>
BY DEF Next, vars, database, stripe, outbox, history, budgets, Proceed, CreateOrderStep, CheckoutStep,
       WebhookStep, CrmStep, Accept, Deliver, StripeMoves, RequestDies, CreateOrder,
       SendOrderConfirmation, StartCheckout, CreateStripeSession, StripeRefuses, Pay, Decline, Expire,
       Redeliver, IgnoreEvent, ReceiveEvent, HandleCheckoutCompleted, HandleCheckoutLapsed,
       SendPaymentConfirmation, SendNewOrderToAdmin, Respond, CrmRead, CrmSave, CrmAnnounce, Deploy

-----------------------------------------------------------------------------
(***************************************************************************)
(* What no step undoes.                                                    *)
(***************************************************************************)
Grows ==
  /\ \A o \in Orders :
       /\ ever[o] \subseteq ever'[o]
       /\ mailed[o] \subseteq mailed'[o]
       /\ row[o] # "none" => row'[o] # "none"
       /\ row[o] = "deleted" => row'[o] = "deleted"
  /\ \A s \in Sessions :
       /\ session[s].state # "unused" =>
            session'[s].state # "unused" /\ session'[s].order = session[s].order
       /\ session[s].state = "paid" => session'[s].state = "paid"
       /\ session[s].state = "expired" => session'[s].state = "expired"
  /\ \A k \in EventKind, s \in Sessions : event[k][s] # "none" => event'[k][s] # "none"

LEMMA NextGrows ==
  ASSUME IInv, [Next]_vars
  PROVE  Grows
<1> USE DEF At, Exists, SetStatus
<1>0. TypeOK /\ EventsHaveSessions
  BY DEF IInv
<1>1. ASSUME NEW o \in Orders
      PROVE  /\ ever[o] \subseteq ever'[o]
             /\ row[o] # "none" => row'[o] # "none"
             /\ row[o] = "deleted" => row'[o] = "deleted"
  <2>1. ASSUME NEW w \in Workers, NEW p \in Orders, CreateOrder(w, p) PROVE <1>1!2
    BY <1>0, <2>1 DEF CreateOrder, TypeOK
  <2>2. ASSUME NEW w \in Workers, HandleCheckoutCompleted(w) PROVE <1>1!2
    <3>1. \/ /\ row[job[w].order] \in Status
             /\ row' = [row EXCEPT ![job[w].order] = "paid"]
             /\ ever' = [ever EXCEPT ![job[w].order] = @ \cup {"paid"}]
          \/ UNCHANGED <<row, ever>>
      BY <2>2 DEF HandleCheckoutCompleted, NotYetPaid, history
    <3> QED BY <1>0, <3>1 DEF TypeOK, Status
  <2>3. ASSUME NEW w \in Workers, HandleCheckoutLapsed(w) PROVE <1>1!2
    BY <1>0, <2>3 DEF HandleCheckoutLapsed, TypeOK, Status
  <2>4. ASSUME NEW w \in Workers, CrmSave(w) PROVE <1>1!2
    <3>1. job[w].target \in Status
      BY <1>0, <2>4, JobShape DEF CrmSave, CrmJob, Announced, Status
    <3> QED BY <1>0, <2>4, <3>1 DEF CrmSave, TypeOK, Status
  <2>5. CASE Deploy
    BY <1>0, <2>5 DEF Deploy, TypeOK, Status, history
  <2>6. CASE UNCHANGED <<row, ever>>
    BY <2>6
  <2> QED BY <2>1, <2>2, <2>3, <2>4, <2>5, <2>6, RowSteps
<1>2. ASSUME NEW o \in Orders
      PROVE  mailed[o] \subseteq mailed'[o]
  BY <1>0, MailSteps DEF SendOrderConfirmation, SendPaymentConfirmation, SendNewOrderToAdmin,
                         CrmAnnounce, Mail, outbox, TypeOK
<1>3. ASSUME NEW s \in Sessions
      PROVE  /\ session[s].state # "unused" =>
                  session'[s].state # "unused" /\ session'[s].order = session[s].order
             /\ session[s].state = "paid" => session'[s].state = "paid"
             /\ session[s].state = "expired" => session'[s].state = "expired"
             /\ \A k \in EventKind : event[k][s] # "none" => event'[k][s] # "none"
  <2>1. ASSUME NEW w \in Workers, NEW r \in Sessions, CreateStripeSession(w, r) PROVE <1>3!2
    BY <1>0, <2>1 DEF CreateStripeSession, Unused, TypeOK
  <2>2. ASSUME NEW w \in Workers, UpdateStripeSession(w) PROVE <1>3!2
    <3>1. job[w].session \in Sessions
      BY <1>0, <2>2, JobShape DEF UpdateStripeSession, CheckoutJob
    <3> QED BY <1>0, <2>2, <3>1, SessionMoves DEF UpdateStripeSession
  <2>3. ASSUME NEW w \in Workers, Respond(w) PROVE <1>3!2
    <3>1. job[w].session \in Sessions /\ job[w].kind \in EventKind
      BY <1>0, <2>3, JobShape DEF Respond, WebhookJob, WebhookSteps
    <3> QED BY <1>0, <2>3, <3>1 DEF Respond, TypeOK
  <2>4. ASSUME NEW r \in Sessions, Pay(r) PROVE <1>3!2
    <3>1. event'["completed"] = [event["completed"] EXCEPT ![r] = "due"]
          /\ \A k \in EventKind \ {"completed"} : event'[k] = event[k]
      BY <1>0, <2>4 DEF Pay, TypeOK, EventKind
    <3>2. /\ session[r].state \notin {"unused", "paid", "expired"}
          /\ session'[r].state = "paid" /\ session'[r].order = session[r].order
          /\ \A q \in Sessions \ {r} : session'[q] = session[q]
      BY <1>0, <2>4, SessionMoves DEF Pay
    <3>3. \A k \in EventKind : event[k][s] # "none" => event'[k][s] # "none"
      BY <1>0, <3>1 DEF TypeOK
    <3> QED BY <3>2, <3>3
  <2>5. ASSUME NEW r \in Sessions, Decline(r) PROVE <1>3!2
    BY <1>0, <2>5 DEF Decline, TypeOK, EventKind
  <2>6. ASSUME NEW r \in Sessions, Expire(r) PROVE <1>3!2
    <3>1. event'["expired"] = [event["expired"] EXCEPT ![r] = "due"]
          /\ \A k \in EventKind \ {"expired"} : event'[k] = event[k]
      BY <1>0, <2>6 DEF Expire, TypeOK, EventKind
    <3>2. /\ session[r].state \notin {"unused", "paid", "expired"}
          /\ session'[r].state = "expired" /\ session'[r].order = session[r].order
          /\ \A q \in Sessions \ {r} : session'[q] = session[q]
      BY <1>0, <2>6, SessionMoves DEF Expire
    <3>3. \A k \in EventKind : event[k][s] # "none" => event'[k][s] # "none"
      BY <1>0, <3>1 DEF TypeOK
    <3> QED BY <3>2, <3>3
  <2>7. ASSUME NEW r \in Sessions, NEW k \in EventKind, Redeliver(k, r) PROVE <1>3!2
    BY <1>0, <2>7 DEF Redeliver, TypeOK
  <2>8. ASSUME NEW w \in Workers, NEW r \in Sessions, NEW k \in EventKind, IgnoreEvent(w, k, r)
        PROVE <1>3!2
    BY <1>0, <2>8 DEF IgnoreEvent, TypeOK
  <2>9. CASE UNCHANGED <<session, event>>
    BY <2>9
  <2> QED BY <2>1, <2>2, <2>3, <2>4, <2>5, <2>6, <2>7, <2>8, <2>9, StripeSteps
<1> QED BY <1>1, <1>2, <1>3 DEF Grows

-----------------------------------------------------------------------------
(***************************************************************************)
(* The invariants of the database and of Stripe.                           *)
(***************************************************************************)
LEMMA NextSessions ==
  ASSUME IInv, [Next]_vars
  PROVE  SessionsHaveOrders' /\ EventsHaveSessions'
<1> USE DEF At
<1>0. TypeOK /\ SessionsHaveOrders /\ EventsHaveSessions /\ RequestsAreSound /\ Grows
  BY NextGrows DEF IInv
<1>1. ASSUME NEW s \in Sessions, session[s].state # "unused"
      PROVE  session[s].order \in Orders
  BY <1>0, <1>1 DEF TypeOK, Session, Unused
<1>2. ASSUME NEW s \in Sessions, session'[s].state # "unused"
      PROVE  row'[session'[s].order] # "none"
  <2>1. CASE session[s].state # "unused"
    BY <1>0, <1>1, <2>1 DEF Grows, SessionsHaveOrders
  <2>2. CASE session[s].state = "unused"
    <3>1. PICK w \in Workers : CreateStripeSession(w, s)
      <4>1. ASSUME NEW w \in Workers, UpdateStripeSession(w) PROVE session'[s] = session[s]
        <5>1. job[w].session \in Sessions /\ session[job[w].session].state # "unused"
          BY <1>0, <4>1, JobShape DEF UpdateStripeSession, CheckoutJob, RequestsAreSound, RequestInv,
                                      SessionIsOfOrder
        <5> QED BY <1>0, <2>2, <4>1, <5>1 DEF UpdateStripeSession, TypeOK
      <4> QED BY <1>0, <1>2, <2>2, <4>1, StripeSteps
              DEF CreateStripeSession, Respond, Pay, Decline, Expire, Redeliver, IgnoreEvent, TypeOK
    <3>2. job[w].order \in Orders /\ row[job[w].order] # "none"
      BY <1>0, <3>1, JobShape DEF CreateStripeSession, CheckoutJob, RequestsAreSound, RequestInv,
                                  OrderIsPlaced
    <3> QED BY <1>0, <3>1, <3>2 DEF CreateStripeSession, TypeOK, database
  <2> QED BY <2>1, <2>2
<1>3. ASSUME NEW s \in Sessions
      PROVE  /\ event'["completed"][s] # "none" => session'[s].state = "paid"
             /\ event'["expired"][s] # "none" => session'[s].state = "expired"
             /\ event'["failed"][s] # "none" => session'[s].state # "unused"
  <2>1. ASSUME NEW k \in EventKind, event[k][s] = "none", event'[k][s] # "none"
        PROVE  \/ k = "completed" /\ Pay(s)
               \/ k = "failed" /\ Decline(s)
               \/ k = "expired" /\ Expire(s)
    <3>1. ASSUME NEW w \in Workers, Respond(w) PROVE event'[k][s] = event[k][s]
      <4>1. /\ job[w].session \in Sessions /\ job[w].kind \in EventKind
            /\ event[job[w].kind][job[w].session] # "none"
        BY <1>0, <3>1, JobShape DEF Respond, WebhookJob, WebhookSteps, RequestsAreSound, RequestInv,
                                    WebhookIsOnCourse
      <4> QED BY <1>0, <2>1, <3>1, <4>1 DEF Respond, TypeOK
    <3>2. ASSUME NEW r \in Sessions, Pay(r) \/ Decline(r) \/ Expire(r)
          PROVE  \/ k = "completed" /\ Pay(s)
                 \/ k = "failed" /\ Decline(s)
                 \/ k = "expired" /\ Expire(s)
      BY <1>0, <2>1, <3>2 DEF Pay, Decline, Expire, TypeOK, EventKind
    <3>3. ASSUME NEW r \in Sessions, NEW m \in EventKind, Redeliver(m, r)
          PROVE  event'[k][s] = event[k][s]
      BY <1>0, <2>1, <3>3 DEF Redeliver, TypeOK
    <3>4. ASSUME NEW w \in Workers, NEW r \in Sessions, NEW m \in EventKind, IgnoreEvent(w, m, r)
          PROVE  event'[k][s] = event[k][s]
      BY <1>0, <2>1, <3>4 DEF IgnoreEvent, TypeOK
    <3>5. ASSUME NEW w \in Workers, \/ UpdateStripeSession(w)
                                     \/ \E r \in Sessions : CreateStripeSession(w, r)
          PROVE  event' = event
      BY <3>5 DEF CreateStripeSession, UpdateStripeSession
    <3>6. event'[k][s] # event[k][s] /\ event' # event
      BY <2>1
    <3> QED BY <3>1, <3>2, <3>3, <3>4, <3>5, <3>6, StripeSteps
  <2>2. event["completed"][s] # "none" => session'[s].state = "paid"
    BY <1>0 DEF Grows, EventsHaveSessions
  <2>3. event["expired"][s] # "none" => session'[s].state = "expired"
    BY <1>0 DEF Grows, EventsHaveSessions
  <2>4. event["failed"][s] # "none" => session'[s].state # "unused"
    BY <1>0 DEF Grows, EventsHaveSessions
  <2>5. ASSUME Pay(s) PROVE session'[s].state = "paid"
    <3>1. session[s].state # "unused" /\ session' = [session EXCEPT ![s].state = "paid"]
      BY <2>5 DEF Pay
    <3> QED BY <1>0, <3>1, SessionMoves
  <2>6. ASSUME Expire(s) PROVE session'[s].state = "expired"
    <3>1. session[s].state # "unused" /\ session' = [session EXCEPT ![s].state = "expired"]
      BY <2>6 DEF Expire
    <3> QED BY <1>0, <3>1, SessionMoves
  <2>7. Decline(s) => session'[s].state # "unused"
    BY <1>0 DEF Decline, Grows
  <2> QED BY <2>1, <2>2, <2>3, <2>4, <2>5, <2>6, <2>7 DEF EventKind
<1> QED BY <1>2, <1>3 DEF SessionsHaveOrders, EventsHaveSessions

\* Each move of the row, seen from the order it touches.
LEMMA RowMoves ==
  ASSUME IInv, [Next]_vars, NEW o \in Orders,
         ~(row'[o] = row[o] /\ ever'[o] = ever[o])
  PROVE  \/ row[o] = "none" /\ row'[o] = "pending" /\ ever'[o] = ever[o] \cup {"pending"}
         \/ /\ Exists(o) /\ row'[o] = "paid" /\ ever'[o] = ever[o] \cup {"paid"}
            /\ \E s \in Sessions : event["completed"][s] # "none" /\ session[s].order = o
         \/ /\ Exists(o) /\ row'[o] = "cancelled" /\ ever'[o] = ever[o] \cup {"cancelled"}
            /\ \E s \in Sessions : /\ event["expired"][s] # "none" \/ event["failed"][s] # "none"
                                   /\ session[s].order = o
         \/ \E seen \in ever[o], target \in Status :
              /\ target \in Allowed(seen)
              /\ Exists(o) /\ row'[o] = target /\ ever'[o] = ever[o] \cup {target}
         \/ Exists(o) /\ row'[o] = "deleted" /\ ever'[o] = ever[o]
<1> USE DEF At, Exists, SetStatus
<1>0. TypeOK /\ RequestsAreSound
  BY DEF IInv
<1>1. ASSUME NEW w \in Workers, NEW p \in Orders, CreateOrder(w, p)
      PROVE  row[o] = "none" /\ row'[o] = "pending" /\ ever'[o] = ever[o] \cup {"pending"}
  BY <1>0, <1>1 DEF CreateOrder, TypeOK
<1>2. ASSUME NEW w \in Workers, job[w].step \in WebhookSteps
      PROVE  /\ job[w].session \in Sessions /\ job[w].kind \in EventKind /\ job[w].order \in Orders
             /\ event[job[w].kind][job[w].session] # "none"
             /\ session[job[w].session].order = job[w].order
  BY <1>0, <1>2, JobShape DEF WebhookJob, RequestsAreSound, RequestInv, SessionIsOfOrder,
                              WebhookIsOnCourse
<1>3. ASSUME NEW w \in Workers, HandleCheckoutCompleted(w)
      PROVE  /\ Exists(o) /\ row'[o] = "paid" /\ ever'[o] = ever[o] \cup {"paid"}
             /\ \E s \in Sessions : event["completed"][s] # "none" /\ session[s].order = o
  <2>1. /\ job[w].step \in WebhookSteps /\ job[w].kind = "completed"
        /\ \/ /\ row[job[w].order] \in Status
              /\ row' = [row EXCEPT ![job[w].order] = "paid"]
              /\ ever' = [ever EXCEPT ![job[w].order] = @ \cup {"paid"}]
           \/ UNCHANGED <<row, ever>>
    BY <1>3 DEF HandleCheckoutCompleted, NotYetPaid, Completes, WebhookSteps, history
  <2>2. o = job[w].order
    BY <1>0, <2>1 DEF TypeOK
  <2> QED BY <1>0, <1>2, <2>1, <2>2 DEF TypeOK
<1>4. ASSUME NEW w \in Workers, HandleCheckoutLapsed(w)
      PROVE  /\ Exists(o) /\ row'[o] = "cancelled" /\ ever'[o] = ever[o] \cup {"cancelled"}
             /\ \E s \in Sessions : /\ event["expired"][s] # "none" \/ event["failed"][s] # "none"
                                    /\ session[s].order = o
  <2>1. /\ job[w].step \in WebhookSteps /\ job[w].kind \in {"expired", "failed"}
        /\ \/ /\ row[job[w].order] \in Status
              /\ row' = [row EXCEPT ![job[w].order] = "cancelled"]
              /\ ever' = [ever EXCEPT ![job[w].order] = @ \cup {"cancelled"}]
           \/ UNCHANGED <<row, ever>>
    BY <1>4 DEF HandleCheckoutLapsed, Lapses, WebhookSteps
  <2>2. o = job[w].order
    BY <1>0, <2>1 DEF TypeOK
  <2> QED BY <1>0, <1>2, <2>1, <2>2 DEF TypeOK
<1>5. ASSUME NEW w \in Workers, CrmSave(w)
      PROVE  \E seen \in ever[o], target \in Status :
               /\ target \in Allowed(seen)
               /\ Exists(o) /\ row'[o] = target /\ ever'[o] = ever[o] \cup {target}
  <2>1. /\ job[w].order \in Orders /\ job[w].target \in Status
        /\ job[w].seen \in ever[job[w].order] /\ job[w].target \in Allowed(job[w].seen)
    BY <1>0, <1>5, JobShape DEF CrmSave, CrmJob, Announced, Status, RequestsAreSound, RequestInv,
                                CrmActsOnThePast
  <2>2. \/ /\ row[job[w].order] \in Status
           /\ row' = [row EXCEPT ![job[w].order] = job[w].target]
           /\ ever' = [ever EXCEPT ![job[w].order] = @ \cup {job[w].target}]
        \/ UNCHANGED <<row, ever>>
    BY <1>5 DEF CrmSave
  <2>3. o = job[w].order
    BY <1>0, <2>1, <2>2 DEF TypeOK
  <2> QED BY <1>0, <2>1, <2>2, <2>3 DEF TypeOK
<1>6. Deploy => Exists(o) /\ row'[o] = "deleted" /\ ever'[o] = ever[o]
  BY <1>0 DEF Deploy, TypeOK, history
<1> QED BY <1>1, <1>3, <1>4, <1>5, <1>6, RowSteps

LEMMA NextRows ==
  ASSUME IInv, [Next]_vars
  PROVE  RowIsInHistory' /\ PaidOnlyWithMoney' /\ MilestonesInOrder'
<1>0. /\ TypeOK /\ TypeOK' /\ EventsHaveSessions /\ Grows
      /\ RowIsInHistory /\ PaidOnlyWithMoney /\ MilestonesInOrder
  BY NextType, NextGrows DEF IInv
<1>1. ASSUME NEW s \in Sessions
      PROVE  session[s].state = "paid" =>
               session'[s].state = "paid" /\ session'[s].order = session[s].order
  BY <1>0 DEF Grows
<1> SUFFICES ASSUME NEW o \in Orders
             PROVE  /\ Exists(o)' => row'[o] \in ever'[o]
                    /\ "paid" \in ever'[o] => MoneyReceived(o)'
                    /\ "delivered" \in ever'[o] => "shipped" \in ever'[o]
                    /\ "shipped" \in ever'[o] => "in_production" \in ever'[o]
                    /\ "in_production" \in ever'[o] => "paid" \in ever'[o]
  BY DEF RowIsInHistory, PaidOnlyWithMoney, MilestonesInOrder
<1>2. MoneyReceived(o) => MoneyReceived(o)'
  BY <1>1 DEF MoneyReceived
<1>3. ASSUME \E s \in Sessions : event["completed"][s] # "none" /\ session[s].order = o
      PROVE  MoneyReceived(o)'
  BY <1>0, <1>1, <1>3 DEF EventsHaveSessions, MoneyReceived
<1>4. CASE row'[o] = row[o] /\ ever'[o] = ever[o]
  BY <1>0, <1>2, <1>4 DEF Exists, RowIsInHistory, PaidOnlyWithMoney, MilestonesInOrder
<1>5. CASE ~(row'[o] = row[o] /\ ever'[o] = ever[o])
  <2>1. ASSUME NEW seen \in ever[o], NEW target \in Status, target \in Allowed(seen),
               ever'[o] = ever[o] \cup {target}
        PROVE  /\ target # "paid"
               /\ target = "in_production" => "paid" \in ever[o]
               /\ target = "shipped" => "in_production" \in ever[o]
               /\ target = "delivered" => "shipped" \in ever[o]
    BY <2>1 DEF Allowed, ALLOWED_STATUS_TRANSITIONS
  <2> QED BY <1>0, <1>2, <1>3, <1>5, <2>1, RowMoves
          DEF Exists, RowIsInHistory, PaidOnlyWithMoney, MilestonesInOrder, Status
<1> QED BY <1>4, <1>5

LEMMA NextStored ==
  ASSUME IInv, [Next]_vars
  PROVE  StoredSessionIsOurs'
<1> USE DEF At
<1>0. TypeOK /\ EventsHaveSessions /\ RequestsAreSound /\ StoredSessionIsOurs /\ Grows
  BY NextGrows DEF IInv
<1> SUFFICES ASSUME NEW o \in Orders, NEW s \in Sessions
             PROVE  /\ stored'[o] = s => session'[s].state # "unused" /\ session'[s].order = o
                    /\ snapshot'[o] = s => session'[s].state = "paid" /\ session'[s].order = o
  BY DEF StoredSessionIsOurs
<1>1. /\ stored[o] = s => session'[s].state # "unused" /\ session'[s].order = o
      /\ snapshot[o] = s => session'[s].state = "paid" /\ session'[s].order = o
  BY <1>0 DEF StoredSessionIsOurs, Grows
<1>2. ASSUME NEW w \in Workers, UpdateStripeSession(w)
      PROVE  /\ snapshot'[o] = snapshot[o]
             /\ stored'[o] # stored[o] /\ stored'[o] = s =>
                  session'[s].state # "unused" /\ session'[s].order = o
  <2>1. /\ job[w].session \in Sessions /\ job[w].order \in Orders
        /\ session[job[w].session].state # "unused"
        /\ session[job[w].session].order = job[w].order
    BY <1>0, <1>2, JobShape DEF UpdateStripeSession, CheckoutJob, RequestsAreSound, RequestInv,
                                SessionIsOfOrder
  <2> QED BY <1>0, <1>2, <2>1 DEF UpdateStripeSession, TypeOK, Grows
<1>3. ASSUME NEW w \in Workers, UpdateShippingSnapshot(w)
      PROVE  /\ stored'[o] = stored[o]
             /\ snapshot'[o] # snapshot[o] /\ snapshot'[o] = s =>
                  session'[s].state = "paid" /\ session'[s].order = o
  <2>1. /\ job[w].session \in Sessions /\ job[w].order \in Orders
        /\ session[job[w].session].state = "paid"
        /\ session[job[w].session].order = job[w].order
    BY <1>0, <1>3, JobShape DEF UpdateShippingSnapshot, WebhookJob, WebhookSteps, RequestsAreSound,
                                RequestInv, SessionIsOfOrder, WebhookIsOnCourse, EventsHaveSessions
  <2> QED BY <1>0, <1>3, <2>1 DEF UpdateShippingSnapshot, TypeOK, Grows
<1> QED BY <1>1, <1>2, <1>3, StoredSteps

LEMMA NextMails ==
  ASSUME IInv, [Next]_vars
  PROVE  MailsFollowTheRow'
<1> USE DEF At, Mail, Announced
<1>0. TypeOK /\ RequestsAreSound /\ MailsFollowTheRow /\ Grows
  BY NextGrows DEF IInv
<1> SUFFICES ASSUME NEW o \in Orders
             PROVE  /\ mailed'[o] \cap Announced \subseteq ever'[o]
                    /\ "payment" \in mailed'[o] => "paid" \in ever'[o]
                    /\ "new_order" \in mailed'[o] => "payment" \in mailed'[o]
  BY DEF MailsFollowTheRow
<1>1. /\ mailed[o] \cap Announced \subseteq ever'[o]
      /\ "payment" \in mailed[o] => "paid" \in ever'[o]
      /\ "new_order" \in mailed[o] => "payment" \in mailed'[o]
  BY <1>0 DEF MailsFollowTheRow, Grows
<1>2. ASSUME NEW w \in Workers, SendOrderConfirmation(w)
      PROVE  mailed'[o] \subseteq mailed[o] \cup {"order"}
  BY <1>0, <1>2 DEF SendOrderConfirmation, TypeOK
<1>3. ASSUME NEW w \in Workers, SendPaymentConfirmation(w)
      PROVE  \/ mailed'[o] = mailed[o]
             \/ mailed'[o] = mailed[o] \cup {"payment"} /\ "paid" \in ever'[o]
  <2>1. "paid" \in ever[job[w].order] /\ job[w].order \in Orders
    BY <1>0, <1>3, JobShape DEF SendPaymentConfirmation, WebhookJob, WebhookSteps, RequestsAreSound,
                                RequestInv, WebhookIsOnCourse
  <2>2. \/ mailed' = [mailed EXCEPT ![job[w].order] = @ \cup {"payment"}]
        \/ mailed' = mailed
    BY <1>3 DEF SendPaymentConfirmation, outbox
  <2>3. "paid" \in ever'[job[w].order]
    BY <1>0, <2>1 DEF Grows
  <2>4. CASE o = job[w].order
    BY <1>0, <2>2, <2>3, <2>4 DEF TypeOK
  <2>5. ASSUME o # job[w].order PROVE mailed'[o] = mailed[o]
    <3>1. CASE mailed' = [mailed EXCEPT ![job[w].order] = @ \cup {"payment"}]
      BY <1>0, <2>5, <3>1 DEF TypeOK
    <3> QED BY <2>2, <3>1
  <2> QED BY <2>4, <2>5
<1>4. ASSUME NEW w \in Workers, SendNewOrderToAdmin(w)
      PROVE  \/ mailed'[o] = mailed[o]
             \/ mailed'[o] = mailed[o] \cup {"new_order"} /\ "payment" \in mailed[o]
  <2>1. "payment" \in mailed[job[w].order] /\ job[w].order \in Orders
    BY <1>0, <1>4, JobShape DEF SendNewOrderToAdmin, WebhookJob, WebhookSteps, RequestsAreSound,
                                RequestInv, WebhookIsOnCourse
  <2> QED BY <1>0, <1>4, <2>1 DEF SendNewOrderToAdmin, TypeOK
<1>5. ASSUME NEW w \in Workers, CrmAnnounce(w)
      PROVE  \/ mailed'[o] = mailed[o]
             \/ \E st \in Announced : mailed'[o] = mailed[o] \cup {st} /\ st \in ever'[o]
  <2>1. /\ job[w].target \in Announced /\ job[w].order \in Orders
        /\ job[w].target \in ever[job[w].order]
    BY <1>0, <1>5, JobShape DEF CrmAnnounce, CrmJob, RequestsAreSound, RequestInv, CrmActsOnThePast
  <2> QED BY <1>0, <1>5, <2>1 DEF CrmAnnounce, Grows, TypeOK
<1> QED BY <1>1, <1>2, <1>3, <1>4, <1>5, MailSteps

LEMMA NextAnswered ==
  ASSUME IInv, [Next]_vars
  PROVE  AnsweredEventsAreApplied'
<1> USE DEF At
<1>0. /\ TypeOK /\ EventsHaveSessions /\ RequestsAreSound /\ AnsweredEventsAreApplied /\ Grows
  BY NextGrows DEF IInv
<1>1. ASSUME NEW k \in EventKind, NEW s \in Sessions, Applied(k, s), session[s].state # "unused"
      PROVE  Applied(k, s)'
  <2>1. session[s].order \in Orders
    BY <1>0, <1>1 DEF TypeOK, Session, Unused
  <2> QED BY <1>0, <1>1, <2>1 DEF Applied, Grows
<1>2. ASSUME NEW k \in EventKind, NEW s \in Sessions, event[k][s] # "none"
      PROVE  session[s].state # "unused"
  BY <1>0, <1>2 DEF EventsHaveSessions, EventKind
<1> SUFFICES ASSUME NEW k \in EventKind, NEW s \in Sessions,
                    event'[k][s] = "answered", CarriesOrder(k, s)
             PROVE  Applied(k, s)'
  BY DEF AnsweredEventsAreApplied, CarriesOrder
<1>3. CASE event[k][s] = "answered"
  BY <1>0, <1>1, <1>2, <1>3 DEF AnsweredEventsAreApplied
<1>4. CASE event[k][s] # "answered"
  <2>1. ASSUME NEW w \in Workers, Respond(w) PROVE Applied(k, s)'
    <3>1. /\ job[w].session \in Sessions /\ job[w].kind \in EventKind
          /\ Applied(job[w].kind, job[w].session)
          /\ event[job[w].kind][job[w].session] # "none"
      BY <1>0, <2>1, JobShape DEF Respond, WebhookJob, WebhookSteps, RequestsAreSound, RequestInv,
                                  WebhookIsOnCourse
    <3>2. k = job[w].kind /\ s = job[w].session
      BY <1>0, <1>4, <2>1, <3>1 DEF Respond, TypeOK
    <3> QED BY <1>1, <1>2, <3>1, <3>2
  <2>2. ASSUME NEW r \in Sessions, Pay(r) \/ Decline(r) \/ Expire(r)
        PROVE  event'[k][s] = event[k][s] \/ event'[k][s] = "due"
    BY <1>0, <2>2 DEF Pay, Decline, Expire, TypeOK, EventKind
  <2>3. ASSUME NEW r \in Sessions, NEW m \in EventKind, Redeliver(m, r)
        PROVE  event'[k][s] = event[k][s] \/ event'[k][s] = "due"
    BY <1>0, <2>3 DEF Redeliver, TypeOK
  <2>4. ASSUME NEW w \in Workers, NEW r \in Sessions, NEW m \in EventKind, IgnoreEvent(w, m, r)
        PROVE  event'[k][s] = event[k][s]
    <3>1. m # k \/ r # s
      BY <2>4 DEF IgnoreEvent
    <3> QED BY <1>0, <2>4, <3>1 DEF IgnoreEvent, TypeOK
  <2>5. ASSUME NEW w \in Workers, \/ UpdateStripeSession(w)
                                   \/ \E r \in Sessions : CreateStripeSession(w, r)
        PROVE  event' = event
    BY <2>5 DEF CreateStripeSession, UpdateStripeSession
  <2>6. event'[k][s] # event[k][s] /\ event'[k][s] # "due" /\ event' # event
    BY <1>4
  <2> QED BY <2>1, <2>2, <2>3, <2>4, <2>5, <2>6, StripeSteps
<1> QED BY <1>3, <1>4

-----------------------------------------------------------------------------
(***************************************************************************)
(* The requests.  What a worker knows stays true while others move; the    *)
(* proof looks only at the step of the worker itself.                      *)
(***************************************************************************)
LEMMA RequestPersists ==
  ASSUME IInv, Grows, NEW w \in Workers, job'[w] = job[w]
  PROVE  RequestInv(w)'
<1> USE DEF At
<1>0. TypeOK /\ RequestInv(w)
  BY DEF IInv, RequestsAreSound
<1>1. CASE job[w].step = "idle"
  BY <1>1 DEF RequestInv, OrderIsPlaced, SessionIsOfOrder, WebhookIsOnCourse, CrmActsOnThePast,
              WebhookSteps
<1>2. CASE job[w].step \in {"confirm", "create_session"}
  <2>1. job[w].order \in Orders
    BY <1>0, <1>2, JobShape DEF CreateJob, CheckoutJob
  <2> QED BY <1>0, <1>2, <2>1 DEF Grows, RequestInv, OrderIsPlaced, SessionIsOfOrder, WebhookIsOnCourse,
                                  CrmActsOnThePast, WebhookSteps
<1>3. CASE job[w].step = "store_session"
  <2>1. job[w].order \in Orders /\ job[w].session \in Sessions
    BY <1>0, <1>3, JobShape DEF CheckoutJob
  <2> QED BY <1>0, <1>3, <2>1 DEF Grows, RequestInv, OrderIsPlaced, SessionIsOfOrder, WebhookIsOnCourse,
                                  CrmActsOnThePast, WebhookSteps
<1>4. CASE job[w].step \in WebhookSteps
  <2>1. job[w].order \in Orders /\ job[w].session \in Sessions /\ job[w].kind \in EventKind
    BY <1>0, <1>4, JobShape DEF WebhookJob
  <2>2. SessionIsOfOrder(w)' /\ OrderIsPlaced(w)' /\ CrmActsOnThePast(w)'
    BY <1>0, <1>4, <2>1 DEF Grows, RequestInv, OrderIsPlaced, SessionIsOfOrder, CrmActsOnThePast,
                            WebhookSteps
  <2>3. Applied(job[w].kind, job[w].session) => Applied(job[w].kind, job[w].session)'
    BY <1>0, <1>4, <2>1 DEF Applied, Grows, RequestInv, SessionIsOfOrder
  <2>4. WebhookIsOnCourse(w)'
    BY <1>0, <1>4, <2>1, <2>3 DEF Grows, RequestInv, WebhookIsOnCourse, CarriesOrder
  <2> QED BY <2>2, <2>4 DEF RequestInv
<1>5. CASE job[w].step \in {"save", "announce"}
  <2>1. job[w].order \in Orders
    BY <1>0, <1>5, JobShape DEF CrmJob
  <2> QED BY <1>0, <1>5, <2>1 DEF Grows, RequestInv, OrderIsPlaced, SessionIsOfOrder, WebhookIsOnCourse,
                                  CrmActsOnThePast, WebhookSteps
<1>6. job[w] \in Job
  BY <1>0 DEF TypeOK
<1> QED
  BY <1>1, <1>2, <1>3, <1>4, <1>5, <1>6
     DEF Job, Idle, CreateJob, CheckoutJob, WebhookJob, CrmJob

LEMMA RequestEnds ==
  ASSUME NEW w \in Workers, job'[w] = Idle
  PROVE  RequestInv(w)'
BY DEF RequestInv, OrderIsPlaced, SessionIsOfOrder, WebhookIsOnCourse, CrmActsOnThePast, WebhookSteps,
       At, Idle

\* A webhook that moves on to its next step keeps what it knew of its session and event.
LEMMA WebhookMovesOn ==
  ASSUME IInv, Grows, NEW w \in Workers, job[w].step \in WebhookSteps,
         NEW step \in WebhookSteps, GoTo(w, step)
  PROVE  /\ OrderIsPlaced(w)' /\ SessionIsOfOrder(w)' /\ CrmActsOnThePast(w)'
         /\ event'[job'[w].kind][job'[w].session] # "none"
         /\ CarriesOrder(job'[w].kind, job'[w].session)
         /\ job'[w].step = step /\ job'[w].order = job[w].order
         /\ job'[w].kind = job[w].kind /\ job'[w].session = job[w].session
         /\ session'[job[w].session].order = job[w].order
<1>0. TypeOK /\ RequestInv(w)
  BY DEF IInv, RequestsAreSound
<1>1. job[w] \in WebhookJob
  BY <1>0, JobShape
<1>2. job[w].order \in Orders /\ job[w].session \in Sessions /\ job[w].kind \in EventKind
  BY <1>1 DEF WebhookJob
<1>3. /\ job'[w].step = step /\ job'[w].order = job[w].order
      /\ job'[w].kind = job[w].kind /\ job'[w].session = job[w].session
  BY <1>0, <1>1, GoToShape DEF WebhookJob, TypeOK
<1> QED
  BY <1>0, <1>2, <1>3 DEF Grows, RequestInv, OrderIsPlaced, SessionIsOfOrder, WebhookIsOnCourse,
                          CrmActsOnThePast, WebhookSteps, At

LEMMA NextRequests ==
  ASSUME IInv, [Next]_vars
  PROVE  RequestsAreSound'
<1> USE DEF At, Finish
<1>0. TypeOK /\ RequestsAreSound /\ EventsHaveSessions /\ SessionsHaveOrders /\ RowIsInHistory /\ Grows
  BY NextGrows DEF IInv
<1> SUFFICES ASSUME NEW v \in Workers
             PROVE  RequestInv(v)'
  BY DEF RequestsAreSound
<1>1. ASSUME NEW w \in Workers, NEW o \in Orders, CreateOrder(w, o) PROVE RequestInv(v)'
  <2>1. CASE v # w
    BY <1>0, <1>1, <2>1, RequestPersists DEF CreateOrder
  <2>2. CASE v = w
    BY <1>0, <1>1, <2>2 DEF CreateOrder, SetStatus, TypeOK, RequestInv, OrderIsPlaced,
         SessionIsOfOrder, WebhookIsOnCourse, CrmActsOnThePast, WebhookSteps
  <2> QED BY <2>1, <2>2
<1>2. ASSUME NEW w \in Workers, NEW o \in Orders, StartCheckout(w, o) PROVE RequestInv(v)'
  <2>1. CASE v # w
    BY <1>0, <1>2, <2>1, RequestPersists DEF StartCheckout
  <2>2. CASE v = w
    BY <1>0, <1>2, <2>2 DEF StartCheckout, Exists, Status, TypeOK, database, RequestInv, OrderIsPlaced,
         SessionIsOfOrder, WebhookIsOnCourse, CrmActsOnThePast, WebhookSteps
  <2> QED BY <2>1, <2>2
<1>3. ASSUME NEW w \in Workers, NEW s \in Sessions, CreateStripeSession(w, s) PROVE RequestInv(v)'
  <2>1. CASE v # w
    BY <1>0, <1>3, <2>1, RequestPersists DEF CreateStripeSession
  <2>2. CASE v = w
    <3>1. job[w].order \in Orders /\ row[job[w].order] # "none"
      BY <1>0, <1>3, JobShape DEF CreateStripeSession, CheckoutJob, RequestsAreSound, RequestInv,
                                  OrderIsPlaced
    <3> QED
      BY <1>0, <1>3, <2>2, <3>1 DEF CreateStripeSession, TypeOK, database, RequestInv, OrderIsPlaced,
           SessionIsOfOrder, WebhookIsOnCourse, CrmActsOnThePast, WebhookSteps
  <2> QED BY <2>1, <2>2
<1>4. ASSUME NEW w \in Workers, NEW k \in EventKind, NEW s \in Sessions, ReceiveEvent(w, k, s)
      PROVE  RequestInv(v)'
  <2>1. CASE v # w
    BY <1>0, <1>4, <2>1, RequestPersists DEF ReceiveEvent
  <2>2. CASE v = w
    <3>1. /\ session[s].state # "unused" /\ row[session[s].order] # "none"
          /\ event[k][s] # "none" /\ CarriesOrder(k, s)
      BY <1>0, <1>4 DEF ReceiveEvent, EventsHaveSessions, SessionsHaveOrders, EventKind
    <3>2. job'[w] = [step |-> "apply", kind |-> k, session |-> s, order |-> session[s].order]
      BY <1>0, <1>4 DEF ReceiveEvent, TypeOK
    <3>3. row' = row /\ session' = session /\ event' = event
      BY <1>4 DEF ReceiveEvent, database, stripe
    <3> QED
      BY <2>2, <3>1, <3>2, <3>3 DEF RequestInv, OrderIsPlaced, SessionIsOfOrder, WebhookIsOnCourse,
                                     CarriesOrder, CrmActsOnThePast, WebhookSteps
  <2> QED BY <2>1, <2>2
<1>5. ASSUME NEW w \in Workers, HandleCheckoutCompleted(w) PROVE RequestInv(v)'
  <2>1. CASE v # w
    <3>1. job'[v] = job[v]
      BY <1>0, <1>5, <2>1 DEF HandleCheckoutCompleted, GoTo, NothingUpdated, TypeOK
    <3> QED BY <1>0, <3>1, RequestPersists
  <2>2. CASE v = w
    <3>0. /\ job[w].step \in WebhookSteps /\ job[w].kind = "completed"
          /\ job[w].session \in Sessions /\ job[w].order \in Orders
          /\ row[job[w].order] # "none"
      BY <1>0, <1>5, JobShape DEF HandleCheckoutCompleted, Completes, WebhookJob, WebhookSteps,
           RequestsAreSound, RequestInv, OrderIsPlaced
    <3>1. ASSUME NEW step \in {"ship_to", "mail_customer"}, GoTo(w, step),
                 SetStatus(job[w].order, "paid")
          PROVE  RequestInv(w)'
      <4>1. "paid" \in ever'[job[w].order]
        BY <1>0, <3>0, <3>1 DEF SetStatus, TypeOK
      <4>2. step \in WebhookSteps
        BY DEF WebhookSteps
      <4> QED BY <1>0, <3>0, <3>1, <4>1, <4>2, WebhookMovesOn DEF RequestInv, WebhookIsOnCourse, WebhookSteps
    <3>2. ASSUME ~NotYetPaid(job[w].order), GoTo(w, "respond"), UNCHANGED <<row, ever>>
          PROVE  RequestInv(w)'
      <4>1. row[job[w].order] = "deleted" \/ "paid" \in ever[job[w].order]
        BY <1>0, <3>0, <3>2 DEF NotYetPaid, Exists, RowIsInHistory, TypeOK
      <4>2. "respond" \in WebhookSteps
        BY DEF WebhookSteps
      <4>3. Applied(job[w].kind, job[w].session)'
        BY <1>0, <3>0, <3>2, <4>1, <4>2, WebhookMovesOn DEF Applied
      <4> QED BY <1>0, <3>0, <3>2, <4>2, <4>3, WebhookMovesOn DEF RequestInv, WebhookIsOnCourse
    <3> QED BY <1>5, <2>2, <3>1, <3>2 DEF HandleCheckoutCompleted, NothingUpdated, history
  <2> QED BY <2>1, <2>2
<1>6. ASSUME NEW w \in Workers, UpdateShippingSnapshot(w) PROVE RequestInv(v)'
  <2>1. CASE v # w
    BY <1>0, <1>6, <2>1, RequestPersists DEF UpdateShippingSnapshot, GoTo
  <2>2. CASE v = w
    <3>1. /\ job[w].step \in WebhookSteps /\ job[w].kind = "completed" /\ job[w].order \in Orders
          /\ "paid" \in ever[job[w].order]
      BY <1>0, <1>6, JobShape DEF UpdateShippingSnapshot, WebhookJob, WebhookSteps, RequestsAreSound,
           RequestInv, WebhookIsOnCourse
    <3>2. "mail_customer" \in WebhookSteps /\ GoTo(w, "mail_customer")
      BY <1>6 DEF WebhookSteps, UpdateShippingSnapshot
    <3> QED BY <1>0, <2>2, <3>1, <3>2, WebhookMovesOn DEF RequestInv, WebhookIsOnCourse, Grows
  <2> QED BY <2>1, <2>2
<1>7. ASSUME NEW w \in Workers, HandleCheckoutLapsed(w) PROVE RequestInv(v)'
  <2>1. CASE v # w
    BY <1>0, <1>7, <2>1, RequestPersists DEF HandleCheckoutLapsed, GoTo
  <2>2. CASE v = w
    <3>1. /\ job[w].step \in WebhookSteps /\ job[w].kind # "completed" /\ job[w].order \in Orders
          /\ row[job[w].order] # "none" /\ job[w].session \in Sessions
      BY <1>0, <1>7, JobShape DEF HandleCheckoutLapsed, Lapses, WebhookJob, WebhookSteps,
           RequestsAreSound, RequestInv, OrderIsPlaced
    <3>2. "respond" \in WebhookSteps /\ GoTo(w, "respond")
      BY <1>7 DEF WebhookSteps, HandleCheckoutLapsed
    <3>3. row'[job[w].order] = "deleted" \/ "cancelled" \in ever'[job[w].order]
      BY <1>0, <1>7, <3>1 DEF HandleCheckoutLapsed, SetStatus, Exists, TypeOK
    <3>4. Applied(job[w].kind, job[w].session)'
      BY <1>0, <3>1, <3>2, <3>3, WebhookMovesOn DEF Applied
    <3> QED BY <1>0, <2>2, <3>1, <3>2, <3>4, WebhookMovesOn DEF RequestInv, WebhookIsOnCourse
  <2> QED BY <2>1, <2>2
<1>8. ASSUME NEW w \in Workers, SendPaymentConfirmation(w) PROVE RequestInv(v)'
  <2>1. CASE v # w
    <3>1. job'[v] = job[v]
      BY <1>0, <1>8, <2>1 DEF SendPaymentConfirmation, GoTo, TypeOK
    <3> QED BY <1>0, <3>1, RequestPersists
  <2>2. CASE v = w /\ job'[w] = Idle
    BY <2>2, RequestEnds
  <2>3. CASE v = w /\ job'[w] # Idle
    <3>1. /\ job[w].step \in WebhookSteps /\ job[w].kind = "completed" /\ job[w].order \in Orders
          /\ "paid" \in ever[job[w].order]
      BY <1>0, <1>8, JobShape DEF SendPaymentConfirmation, WebhookJob, WebhookSteps, RequestsAreSound,
           RequestInv, WebhookIsOnCourse
    <3>2. GoTo(w, "mail_admin") /\ Mail(job[w].order, "payment")
      BY <1>0, <1>8, <2>3 DEF SendPaymentConfirmation, TypeOK
    <3>3. "payment" \in mailed'[job[w].order] /\ "mail_admin" \in WebhookSteps
      BY <1>0, <3>1, <3>2 DEF Mail, TypeOK, WebhookSteps
    <3> QED BY <1>0, <2>3, <3>1, <3>2, <3>3, WebhookMovesOn DEF RequestInv, WebhookIsOnCourse, Grows
  <2> QED BY <2>1, <2>2, <2>3
<1>9. ASSUME NEW w \in Workers, SendNewOrderToAdmin(w) PROVE RequestInv(v)'
  <2>1. CASE v # w
    BY <1>0, <1>9, <2>1, RequestPersists DEF SendNewOrderToAdmin, GoTo
  <2>2. CASE v = w
    <3>1. /\ job[w].step \in WebhookSteps /\ job[w].kind = "completed" /\ job[w].order \in Orders
          /\ "paid" \in ever[job[w].order] /\ job[w].session \in Sessions
      BY <1>0, <1>9, JobShape DEF SendNewOrderToAdmin, WebhookJob, WebhookSteps, RequestsAreSound,
           RequestInv, WebhookIsOnCourse
    <3>2. "respond" \in WebhookSteps /\ GoTo(w, "respond")
      BY <1>9 DEF WebhookSteps, SendNewOrderToAdmin
    <3>3. "paid" \in ever'[job[w].order]
      BY <1>0, <3>1 DEF Grows
    <3>4. Applied(job[w].kind, job[w].session)'
      BY <1>0, <3>1, <3>2, <3>3, WebhookMovesOn DEF Applied
    <3> QED BY <1>0, <2>2, <3>1, <3>2, <3>4, WebhookMovesOn DEF RequestInv, WebhookIsOnCourse
  <2> QED BY <2>1, <2>2
<1>10. ASSUME NEW w \in Workers, NEW o \in Orders, NEW target \in CrmTargets, CrmRead(w, o, target)
       PROVE  RequestInv(v)'
  <2>1. CASE v # w
    BY <1>0, <1>10, <2>1, RequestPersists DEF CrmRead
  <2>2. CASE v = w
    <3>1. /\ job'[w] = [step |-> "save", order |-> o, seen |-> row[o], target |-> target]
          /\ row' = row /\ ever' = ever /\ row[o] # "none" /\ row[o] \in ever[o]
          /\ target \in Allowed(row[o])
      BY <1>0, <1>10 DEF CrmRead, Exists, Status, TypeOK, database, history, RowIsInHistory
    <3> QED BY <2>2, <3>1 DEF RequestInv, OrderIsPlaced, SessionIsOfOrder, WebhookIsOnCourse,
                               CrmActsOnThePast, WebhookSteps, Allowed
  <2> QED BY <2>1, <2>2
<1>11. ASSUME NEW w \in Workers, CrmSave(w) PROVE RequestInv(v)'
  <2>1. CASE v # w
    <3>1. job'[v] = job[v]
      BY <1>0, <1>11, <2>1 DEF CrmSave, GoTo, TypeOK
    <3> QED BY <1>0, <3>1, RequestPersists
  <2>2. CASE v = w /\ job'[w] = Idle
    BY <2>2, RequestEnds
  <2>3. CASE v = w /\ job'[w] # Idle
    <3>1. /\ job[w] \in CrmJob /\ job[w].order \in Orders /\ row[job[w].order] # "none"
          /\ job[w].seen \in ever[job[w].order] /\ job[w].target \in Allowed(job[w].seen)
      BY <1>0, <1>11, JobShape DEF CrmSave, CrmJob, RequestsAreSound, RequestInv, OrderIsPlaced,
           CrmActsOnThePast
    <3>2. GoTo(w, "announce") /\ SetStatus(job[w].order, job[w].target)
      BY <1>0, <1>11, <2>3 DEF CrmSave, TypeOK
    <3>3. job'[w] = [job[w] EXCEPT !.step = "announce"]
      BY <1>0, <3>2, GoToShape DEF TypeOK
    <3>4. /\ job'[w].step = "announce" /\ job'[w].order = job[w].order
          /\ job'[w].seen = job[w].seen /\ job'[w].target = job[w].target
      BY <3>1, <3>3 DEF CrmJob
    <3>5. job[w].target \in ever'[job[w].order]
      BY <1>0, <3>1, <3>2 DEF SetStatus, TypeOK
    <3> QED BY <1>0, <2>3, <3>1, <3>4, <3>5 DEF Grows, RequestInv, OrderIsPlaced, SessionIsOfOrder,
              WebhookIsOnCourse, CrmActsOnThePast, WebhookSteps, Allowed
  <2> QED BY <2>1, <2>2, <2>3
<1>12. ASSUME NEW w \in Workers,
              \/ SendOrderConfirmation(w) \/ StripeRefuses(w) \/ UpdateStripeSession(w)
              \/ Respond(w) \/ CrmAnnounce(w) \/ RequestDies(w)
       PROVE  RequestInv(v)'
  <2>1. job' = [job EXCEPT ![w] = Idle]
    BY <1>12 DEF SendOrderConfirmation, StripeRefuses, UpdateStripeSession, Respond, CrmAnnounce,
                 RequestDies
  <2> QED BY <1>0, <2>1, RequestPersists, RequestEnds DEF TypeOK
<1>13. CASE job' = job
  BY <1>0, <1>13, RequestPersists
<1>14. ASSUME \/ \E s \in Sessions : StripeMoves(s)
              \/ \E w \in Workers, k \in EventKind, s \in Sessions : IgnoreEvent(w, k, s)
              \/ Deploy \/ UNCHANGED vars
       PROVE  job' = job
  BY <1>14 DEF StripeMoves, Pay, Decline, Expire, Redeliver, IgnoreEvent, Deploy, vars
<1> QED
  BY <1>1, <1>2, <1>3, <1>4, <1>5, <1>6, <1>7, <1>8, <1>9, <1>10, <1>11, <1>12, <1>13, <1>14
     DEF Next, Proceed, CreateOrderStep, CheckoutStep, WebhookStep, CrmStep, Accept, Deliver

-----------------------------------------------------------------------------
LEMMA InitInv == Init => IInv
<1> SUFFICES ASSUME Init PROVE IInv
  OBVIOUS
<1>1. TypeOK
  BY InitType
<1>2. SessionsHaveOrders /\ EventsHaveSessions /\ AnsweredEventsAreApplied
  BY DEF Init, SessionsHaveOrders, EventsHaveSessions, AnsweredEventsAreApplied, EventKind, Unused
<1>3. RowIsInHistory /\ PaidOnlyWithMoney /\ MilestonesInOrder /\ MailsFollowTheRow
  BY DEF Init, RowIsInHistory, Exists, Status, PaidOnlyWithMoney, MilestonesInOrder, MailsFollowTheRow
<1>4. RequestsAreSound
  BY DEF Init, RequestsAreSound, RequestInv, OrderIsPlaced, SessionIsOfOrder, WebhookIsOnCourse,
         CrmActsOnThePast, WebhookSteps, At, Idle
<1>5. StoredSessionIsOurs
  BY SessionsAssumption DEF Init, StoredSessionIsOurs
<1> QED BY <1>1, <1>2, <1>3, <1>4, <1>5 DEF IInv

LEMMA NextInv == IInv /\ [Next]_vars => IInv'
BY NextType, NextSessions, NextRows, NextStored, NextMails, NextAnswered, NextRequests DEF IInv

LEMMA SpecInv == Spec => []IInv
BY InitInv, NextInv, PTL DEF Spec

-----------------------------------------------------------------------------
(***************************************************************************)
(* Theorems.                                                               *)
(***************************************************************************)
\* Every variable stays in its type, for any number of orders, sessions and workers.
THEOREM TypeCorrect == Spec => []TypeOK
<1>1. IInv => TypeOK
  BY DEF IInv
<1> QED BY SpecInv, <1>1, PTL

\* No order is ever marked paid for which Stripe holds no money (payment_service.py:69-88).
THEOREM NoPaidOrderWithoutMoney == Spec => []PaidOnlyWithMoney
<1>1. IInv => PaidOnlyWithMoney
  BY DEF IInv
<1> QED BY SpecInv, <1>1, PTL

\* However many CRM requests race, the milestones an order has reached are a prefix of the way
\* from paid to delivered (views_crm.py:77-95).
THEOREM MilestonesAreReachedInOrder == Spec => []MilestonesInOrder
<1>1. IInv => MilestonesInOrder
  BY DEF IInv
<1> QED BY SpecInv, <1>1, PTL

\* No webhook is lost: an event answered 200 has had its effect, whatever died on the way
\* (payment_views.py:60-76).
THEOREM NoAnsweredEventIsLost == Spec => []AnsweredEventsAreApplied
<1>1. IInv => AnsweredEventsAreApplied
  BY DEF IInv
<1> QED BY SpecInv, <1>1, PTL

\* No order carries the session, or the address, of another (order_repository.py:49-57).
THEOREM NoOrderHasAForeignSession == Spec => []StoredSessionIsOurs
<1>1. IInv => StoredSessionIsOurs
  BY DEF IInv
<1> QED BY SpecInv, <1>1, PTL

\* No mail announces what the row has never held (views_crm.py:94-103, emails.py:55-76).
THEOREM NoMailIsEarly == Spec => []MailsFollowTheRow
<1>1. IInv => MailsFollowTheRow
  BY DEF IInv
<1> QED BY SpecInv, <1>1, PTL

-----------------------------------------------------------------------------
(***************************************************************************)
(* The confirmations.  A worker that has moved a row to paid owes one      *)
(* confirmation until it has sent it; the invariant counts both.           *)
(***************************************************************************)
Owes(w, o) == job[w].step \in {"ship_to", "mail_customer"} /\ job[w].order = o

Owing(o) == {w \in Workers : Owes(w, o)}

EachIsSettled == \A o \in Orders : confirmed[o] + Cardinality(Owing(o)) <= settlements[o]

LEMMA OwingIsFinite ==
  ASSUME NEW o
  PROVE  IsFiniteSet(Owing(o)) /\ Cardinality(Owing(o)) \in Nat
<1>1. Owing(o) \in SUBSET Workers
  BY DEF Owing
<1> QED BY <1>1, WorkersAssumption, FS_Subset, FS_CardinalityType

LEMMA MovesOn ==
  ASSUME TypeOK, NEW w \in Workers, job[w].step \in WebhookSteps \cup {"save"}, NEW step, GoTo(w, step)
  PROVE  /\ job'[w].step = step /\ job'[w].order = job[w].order
         /\ \A v \in Workers \ {w} : job'[v] = job[v]
<1>1. job[w] \in WebhookJob \/ job[w] \in CrmJob
  BY JobShape
<1>2. job' = [job EXCEPT ![w] = [job[w] EXCEPT !.step = step]]
  BY GoToShape
<1>3. [job[w] EXCEPT !.step = step].step = step /\ [job[w] EXCEPT !.step = step].order = job[w].order
  BY <1>1 DEF WebhookJob, CrmJob
<1> QED BY <1>2, <1>3 DEF TypeOK

\* Only the two steps that settle and confirm an order make a worker owe a confirmation, or count.
LEMMA OwingSteps ==
  ASSUME IInv, [Next]_vars
  PROVE  \/ \E w \in Workers : HandleCheckoutCompleted(w) \/ SendPaymentConfirmation(w)
         \/ /\ UNCHANGED <<confirmed, settlements>>
            /\ \A w \in Workers, o \in Orders : Owes(w, o)' => Owes(w, o)
<1> DEFINE Settled == /\ UNCHANGED <<confirmed, settlements>>
                      /\ \A w \in Workers, o \in Orders : Owes(w, o)' => Owes(w, o)
<1>0. TypeOK
  BY DEF IInv
<1> USE DEF Finish, Owes
<1>1. ASSUME NEW w \in Workers, NEW o \in Orders, Accept(w, o) PROVE Settled
  BY <1>0, <1>1 DEF Accept, CreateOrder, StartCheckout, CrmRead, TypeOK, outbox, history, SetStatus
<1>2. ASSUME NEW w \in Workers, \/ SendOrderConfirmation(w) \/ StripeRefuses(w) \/ Respond(w)
                                \/ UpdateStripeSession(w) \/ CrmAnnounce(w) \/ RequestDies(w)
      PROVE  Settled
  BY <1>0, <1>2 DEF SendOrderConfirmation, StripeRefuses, Respond, UpdateStripeSession, CrmAnnounce,
                    RequestDies, TypeOK, outbox, history, Idle
<1>3. ASSUME NEW w \in Workers, NEW s \in Sessions, CreateStripeSession(w, s) PROVE Settled
  BY <1>0, <1>3 DEF CreateStripeSession, TypeOK, outbox, history
<1>4. ASSUME NEW w \in Workers, NEW k \in EventKind, NEW s \in Sessions,
             IgnoreEvent(w, k, s) \/ ReceiveEvent(w, k, s)
      PROVE  Settled
  BY <1>0, <1>4 DEF IgnoreEvent, ReceiveEvent, TypeOK, outbox, history
<1>5. ASSUME NEW w \in Workers, \/ UpdateShippingSnapshot(w) \/ HandleCheckoutLapsed(w)
                                \/ SendNewOrderToAdmin(w)
      PROVE  Settled
  <2>1. PICK step \in WebhookSteps :
          GoTo(w, step) /\ (step \in {"ship_to", "mail_customer"} => At(w, "ship_to"))
    BY <1>5 DEF UpdateShippingSnapshot, HandleCheckoutLapsed, SendNewOrderToAdmin, WebhookSteps
  <2>2. /\ job'[w].step = step /\ job'[w].order = job[w].order
        /\ \A v \in Workers \ {w} : job'[v] = job[v]
    BY <1>0, <1>5, <2>1, MovesOn
       DEF UpdateShippingSnapshot, HandleCheckoutLapsed, SendNewOrderToAdmin, WebhookSteps, At
  <2>3. UNCHANGED <<confirmed, settlements>>
    BY <1>5 DEF UpdateShippingSnapshot, HandleCheckoutLapsed, SendNewOrderToAdmin, outbox, history
  <2> QED BY <2>1, <2>2, <2>3 DEF At
<1>6. ASSUME NEW w \in Workers, CrmSave(w) PROVE Settled
  <2>1. job' = [job EXCEPT ![w] = Idle] \/ GoTo(w, "announce")
    BY <1>6 DEF CrmSave
  <2>2. job'[w].step \notin {"ship_to", "mail_customer"} /\ \A v \in Workers \ {w} : job'[v] = job[v]
    BY <1>0, <1>6, <2>1, MovesOn DEF CrmSave, At, TypeOK, Idle
  <2> QED BY <1>6, <2>2 DEF CrmSave, outbox
<1>7. ASSUME (\E s \in Sessions : StripeMoves(s)) \/ Deploy \/ UNCHANGED vars PROVE Settled
  BY <1>7 DEF StripeMoves, Pay, Decline, Expire, Redeliver, Deploy, vars, outbox, history
<1> QED
  BY <1>1, <1>2, <1>3, <1>4, <1>5, <1>6, <1>7
     DEF Next, Proceed, CreateOrderStep, CheckoutStep, WebhookStep, CrmStep, Deliver

LEMMA SettledStep ==
  ASSUME IInv, EachIsSettled, [Next]_vars, NEW o \in Orders
  PROVE  (confirmed[o] + Cardinality(Owing(o)) <= settlements[o])'
<1>0. /\ TypeOK /\ confirmed[o] \in Nat /\ settlements[o] \in Nat
      /\ confirmed[o] + Cardinality(Owing(o)) <= settlements[o]
  BY DEF IInv, TypeOK, EachIsSettled
<1>1. IsFiniteSet(Owing(o)) /\ Cardinality(Owing(o)) \in Nat
  BY OwingIsFinite
<1>2. ASSUME NEW w \in Workers, HandleCheckoutCompleted(w) \/ SendPaymentConfirmation(w)
      PROVE  /\ job[w] \in WebhookJob /\ job[w].order \in Orders
             /\ \A v \in Workers \ {w} : job'[v] = job[v]
             /\ \A step : GoTo(w, step) => job'[w].step = step /\ job'[w].order = job[w].order
  <2>1. job[w].step \in WebhookSteps
    BY <1>2 DEF HandleCheckoutCompleted, SendPaymentConfirmation, WebhookSteps, At
  <2>2. job[w] \in WebhookJob /\ job[w].order \in Orders
    BY <1>0, <2>1, JobShape DEF WebhookJob
  <2>3. \A step : GoTo(w, step) => /\ job'[w].step = step /\ job'[w].order = job[w].order
                                   /\ \A v \in Workers \ {w} : job'[v] = job[v]
    BY <1>0, <2>1, MovesOn
  <2>4. Finish(w) => \A v \in Workers \ {w} : job'[v] = job[v]
    BY <1>0 DEF Finish, TypeOK
  <2>5. Finish(w) \/ \E step : GoTo(w, step)
    BY <1>2 DEF HandleCheckoutCompleted, SendPaymentConfirmation, NothingUpdated
  <2> QED BY <2>2, <2>3, <2>4, <2>5
<1>3. ASSUME NEW w \in Workers, HandleCheckoutCompleted(w)
      PROVE  (confirmed[o] + Cardinality(Owing(o)) <= settlements[o])'
  <2> DEFINE p == job[w].order
  <2>1. confirmed' = confirmed /\ ~Owes(w, o)
    BY <1>3 DEF HandleCheckoutCompleted, outbox, At, Owes
  <2>2. CASE NotYetPaid(p) /\ p = o
    <3>1. settlements'[o] = settlements[o] + 1
      BY <1>0, <1>3, <2>2 DEF HandleCheckoutCompleted, NotYetPaid, TypeOK
    <3>2. \A v \in Workers \ {w} : Owes(v, o)' <=> Owes(v, o)
      BY <1>2, <1>3 DEF Owes
    <3>3. Owing(o)' \subseteq Owing(o) \cup {w}
      BY <3>2 DEF Owing
    <3>4. IsFiniteSet(Owing(o) \cup {w}) /\ Cardinality(Owing(o) \cup {w}) = Cardinality(Owing(o)) + 1
      BY <1>1, <2>1, FS_AddElement DEF Owing
    <3>5. Cardinality(Owing(o)') <= Cardinality(Owing(o)) + 1 /\ Cardinality(Owing(o)') \in Nat
      BY <3>3, <3>4, FS_Subset, FS_CardinalityType
    <3> QED BY <1>0, <1>1, <2>1, <3>1, <3>5
  <2>3. CASE ~(NotYetPaid(p) /\ p = o)
    <3>1. settlements'[o] = settlements[o]
      BY <1>0, <1>2, <1>3, <2>3 DEF HandleCheckoutCompleted, TypeOK, history
    <3>2. ~Owes(w, o)'
      BY <1>2, <1>3, <2>3 DEF HandleCheckoutCompleted, NothingUpdated, Owes
    <3>3. Owing(o)' = Owing(o)
      BY <1>2, <1>3, <2>1, <3>2 DEF Owing, Owes
    <3> QED BY <1>0, <2>1, <3>1, <3>3
  <2> QED BY <2>2, <2>3
<1>4. ASSUME NEW w \in Workers, SendPaymentConfirmation(w)
      PROVE  (confirmed[o] + Cardinality(Owing(o)) <= settlements[o])'
  <2> DEFINE p == job[w].order
  <2>1. settlements' = settlements /\ At(w, "mail_customer") /\ ~Owes(w, o)'
    BY <1>0, <1>2, <1>4 DEF SendPaymentConfirmation, history, Owes, Finish, Idle, TypeOK
  <2>2. \A v \in Workers \ {w} : Owes(v, o)' <=> Owes(v, o)
    BY <1>2, <1>4 DEF Owes
  <2>3. Owing(o)' = Owing(o) \ {w}
    BY <2>1, <2>2 DEF Owing
  <2>4. Cardinality(Owing(o)') = IF w \in Owing(o) THEN Cardinality(Owing(o)) - 1 ELSE Cardinality(Owing(o))
    BY <1>1, <2>3, FS_RemoveElement
  <2>5. CASE p = o
    <3>1. w \in Owing(o)
      BY <2>1, <2>5 DEF Owing, Owes, At
    <3>2. confirmed'[o] = confirmed[o] + 1 \/ confirmed'[o] = confirmed[o]
      BY <1>0, <1>4, <2>5 DEF SendPaymentConfirmation, TypeOK, outbox
    <3> QED BY <1>0, <1>1, <2>1, <2>4, <3>1, <3>2
  <2>6. CASE p # o
    <3>1. confirmed'[o] = confirmed[o] /\ w \notin Owing(o)
      BY <1>0, <1>4, <2>6 DEF SendPaymentConfirmation, TypeOK, outbox, Owing, Owes
    <3> QED BY <1>0, <2>1, <2>4, <3>1
  <2> QED BY <2>5, <2>6
<1>5. ASSUME UNCHANGED <<confirmed, settlements>>,
             \A w \in Workers, q \in Orders : Owes(w, q)' => Owes(w, q)
      PROVE  (confirmed[o] + Cardinality(Owing(o)) <= settlements[o])'
  <2>1. Owing(o)' \subseteq Owing(o)
    BY <1>5 DEF Owing
  <2>2. Cardinality(Owing(o)') <= Cardinality(Owing(o)) /\ Cardinality(Owing(o)') \in Nat
    BY <1>1, <2>1, FS_Subset, FS_CardinalityType
  <2> QED BY <1>0, <1>1, <1>5, <2>2
<1> QED BY <1>3, <1>4, <1>5, OwingSteps

\* Each confirmation of payment answers to a move of the row to paid of its own, for any number of
\* workers that handle deliveries of the event at once (payment_service.py:77-81).
THEOREM NoConfirmationWithoutSettlement == Spec => []OneConfirmationPerSettlement
<1>1. Init => EachIsSettled
  <2>1. ASSUME Init, NEW o \in Orders PROVE Owing(o) = {}
    BY <2>1 DEF Init, Owing, Owes, Idle
  <2> QED BY <2>1, FS_EmptySet DEF Init, EachIsSettled
<1>2. IInv /\ EachIsSettled /\ [Next]_vars => EachIsSettled'
  BY SettledStep DEF EachIsSettled
<1>3. IInv /\ EachIsSettled => OneConfirmationPerSettlement
  <2> SUFFICES ASSUME IInv, EachIsSettled, NEW o \in Orders PROVE confirmed[o] <= settlements[o]
    BY DEF OneConfirmationPerSettlement
  <2>1. confirmed[o] \in Nat /\ settlements[o] \in Nat /\ Cardinality(Owing(o)) \in Nat
    BY OwingIsFinite DEF IInv, TypeOK
  <2> QED BY <2>1 DEF EachIsSettled
<1> QED BY SpecInv, <1>1, <1>2, <1>3, PTL DEF Spec

-----------------------------------------------------------------------------
(***************************************************************************)
(* The implementation of the ledger.                                       *)
(***************************************************************************)
LEMMA InitRefines == Init => Ledger!Init
BY DEF Init, Ledger!Init, MoneyReceived, LapsedFor, Unused

\* The order whose row moves is the only one, unless the rows are cleared.
LEMMA OneRowMoves ==
  ASSUME IInv, [Next]_vars
  PROVE  \/ UNCHANGED <<row, ever>>
         \/ /\ row' = [o \in Orders |-> IF Exists(o) THEN "deleted" ELSE row[o]]
            /\ ever' = ever
         \/ \E o \in Orders, st \in Status :
              /\ row' = [row EXCEPT ![o] = st]
              /\ ever' = [ever EXCEPT ![o] = @ \cup {st}]
<1> USE DEF At, SetStatus
<1>0. TypeOK
  BY DEF IInv
<1>1. ASSUME NEW w \in Workers, NEW o \in Orders, CreateOrder(w, o)
      PROVE  SetStatus(o, "pending") /\ "pending" \in Status
  BY <1>1 DEF CreateOrder, Status
<1>2. ASSUME NEW w \in Workers, HandleCheckoutCompleted(w)
      PROVE  /\ job[w].order \in Orders /\ "paid" \in Status
             /\ SetStatus(job[w].order, "paid") \/ UNCHANGED <<row, ever>>
  BY <1>0, <1>2, JobShape DEF HandleCheckoutCompleted, WebhookJob, WebhookSteps, history, Status
<1>3. ASSUME NEW w \in Workers, HandleCheckoutLapsed(w)
      PROVE  /\ job[w].order \in Orders /\ "cancelled" \in Status
             /\ SetStatus(job[w].order, "cancelled") \/ UNCHANGED <<row, ever>>
  BY <1>0, <1>3, JobShape DEF HandleCheckoutLapsed, WebhookJob, WebhookSteps, Status
<1>4. ASSUME NEW w \in Workers, CrmSave(w)
      PROVE  /\ job[w].order \in Orders /\ job[w].target \in Status
             /\ SetStatus(job[w].order, job[w].target) \/ UNCHANGED <<row, ever>>
  BY <1>0, <1>4, JobShape DEF CrmSave, CrmJob
<1>5. CASE Deploy
  BY <1>5 DEF Deploy, history
<1> QED BY <1>1, <1>2, <1>3, <1>4, <1>5, RowSteps

\* A step that moves a row is a step of the database alone.
LEMMA RowMovesAlone ==
  ASSUME [Next]_vars
  PROVE  UNCHANGED <<row, ever>> \/ UNCHANGED <<session, event>>
BY RowSteps DEF CreateOrder, HandleCheckoutCompleted, HandleCheckoutLapsed, CrmSave, Deploy, stripe

LEMMA CollectedIsStable ==
  ASSUME UNCHANGED <<session, event>>
  PROVE  /\ {o \in Orders : MoneyReceived(o)}' = {o \in Orders : MoneyReceived(o)}
         /\ {o \in Orders : LapsedFor(o)}' = {o \in Orders : LapsedFor(o)}
BY DEF MoneyReceived, LapsedFor

\* What Stripe does is money collected, a lapse, or nothing that the ledger sees.
LEMMA StripeRefines ==
  ASSUME IInv, [Next]_vars, UNCHANGED <<row, ever>>
  PROVE  Ledger!Next \/ UNCHANGED Ledger!vars
<1> USE DEF At
<1>0. TypeOK /\ EventsHaveSessions /\ SessionsHaveOrders /\ RequestsAreSound
  BY DEF IInv
<1> DEFINE collected == {o \in Orders : MoneyReceived(o)}
           lapsed    == {o \in Orders : LapsedFor(o)}
<1>1. ASSUME NEW s \in Sessions, session[s].state # "unused"
      PROVE  session[s].order \in Orders /\ row[session[s].order] # "none"
  BY <1>0, <1>1 DEF TypeOK, Session, Unused, SessionsHaveOrders
<1>2. ASSUME NEW s \in Sessions, Pay(s) PROVE Ledger!Collect(session[s].order)
  <2>1. /\ session[s].state = "open" /\ session' = [session EXCEPT ![s].state = "paid"]
        /\ event' = [event EXCEPT !["completed"][s] = "due"]
    BY <1>2 DEF Pay
  <2>2. /\ session'[s].state = "paid" /\ session'[s].order = session[s].order
        /\ \A r \in Sessions \ {s} : session'[r] = session[r]
    BY <1>0, <2>1, SessionMoves
  <2>3. event'["expired"] = event["expired"] /\ event'["failed"] = event["failed"]
    BY <1>0, <2>1 DEF TypeOK, EventKind
  <2>4. collected' = collected \cup {session[s].order}
    BY <1>1, <2>1, <2>2 DEF MoneyReceived
  <2>5. lapsed' = lapsed
    BY <2>1, <2>2, <2>3 DEF LapsedFor
  <2> QED BY <1>1, <2>1, <2>4, <2>5 DEF Ledger!Collect
<1>3. ASSUME NEW s \in Sessions, Decline(s) PROVE Ledger!Lapse(session[s].order)
  <2>1. /\ session[s].state = "open" /\ session' = session
        /\ event'["expired"] = event["expired"] /\ event'["failed"][s] # "none"
        /\ \A r \in Sessions \ {s} : event'["failed"][r] = event["failed"][r]
    BY <1>0, <1>3 DEF Decline, TypeOK, EventKind
  <2>2. lapsed' = lapsed \cup {session[s].order}
    BY <1>1, <2>1 DEF LapsedFor
  <2>3. collected' = collected
    BY <2>1 DEF MoneyReceived
  <2> QED BY <1>1, <2>1, <2>2, <2>3 DEF Ledger!Lapse
<1>4. ASSUME NEW s \in Sessions, Expire(s) PROVE Ledger!Lapse(session[s].order)
  <2>1. /\ session[s].state \in {"created", "open"}
        /\ session' = [session EXCEPT ![s].state = "expired"]
    BY <1>4 DEF Expire
  <2>2. /\ session'[s].state = "expired" /\ session'[s].order = session[s].order
        /\ \A r \in Sessions \ {s} : session'[r] = session[r]
    BY <1>0, <2>1, SessionMoves
  <2>3. /\ event'["failed"] = event["failed"] /\ event'["expired"][s] # "none"
        /\ \A r \in Sessions \ {s} : event'["expired"][r] = event["expired"][r]
    BY <1>0, <1>4 DEF Expire, TypeOK, EventKind
  <2>4. lapsed' = lapsed \cup {session[s].order}
    BY <1>1, <2>1, <2>2, <2>3 DEF LapsedFor
  <2>5. collected' = collected
    BY <2>1, <2>2 DEF MoneyReceived
  <2> QED BY <1>1, <2>1, <2>4, <2>5 DEF Ledger!Lapse
<1>5. ASSUME NEW w \in Workers, NEW s \in Sessions, CreateStripeSession(w, s)
      PROVE  collected' = collected /\ lapsed' = lapsed
  <2>1. /\ session[s].state = "unused" /\ session'[s].state = "created" /\ event' = event
        /\ \A r \in Sessions \ {s} : session'[r] = session[r]
    BY <1>0, <1>5 DEF CreateStripeSession, Unused, TypeOK
  <2>2. event["expired"][s] = "none" /\ event["failed"][s] = "none"
    BY <1>0, <2>1 DEF EventsHaveSessions
  <2>3. collected' = collected
    BY <2>1 DEF MoneyReceived
  <2>4. lapsed' = lapsed
    BY <2>1, <2>2 DEF LapsedFor
  <2> QED BY <2>3, <2>4
<1>6. ASSUME NEW w \in Workers, UpdateStripeSession(w)
      PROVE  collected' = collected /\ lapsed' = lapsed
  <2>1. job[w].session \in Sessions
    BY <1>0, <1>6, JobShape DEF UpdateStripeSession, CheckoutJob
  <2>2. \A r \in Sessions : /\ session'[r].state = "paid" <=> session[r].state = "paid"
                            /\ session'[r].state # "unused" <=> session[r].state # "unused"
                            /\ session[r].state # "unused" => session'[r].order = session[r].order
    BY <1>0, <1>6, <2>1, SessionMoves DEF UpdateStripeSession
  <2>3. event' = event
    BY <1>6 DEF UpdateStripeSession
  <2>4. collected' = collected
    BY <2>2 DEF MoneyReceived
  <2>5. lapsed' = lapsed
    BY <2>2, <2>3 DEF LapsedFor
  <2> QED BY <2>4, <2>5
<1>7. ASSUME \/ \E w \in Workers : Respond(w)
             \/ \E k \in EventKind, s \in Sessions : Redeliver(k, s)
             \/ \E w \in Workers, k \in EventKind, s \in Sessions : IgnoreEvent(w, k, s)
      PROVE  collected' = collected /\ lapsed' = lapsed
  <2>1. session' = session
    BY <1>7 DEF Respond, Redeliver, IgnoreEvent
  <2>2. \A k \in EventKind, s \in Sessions : event'[k][s] # "none" <=> event[k][s] # "none"
    <3>1. ASSUME NEW w \in Workers, Respond(w) PROVE <2>2
      <4>1. /\ job[w].kind \in EventKind /\ job[w].session \in Sessions
            /\ event[job[w].kind][job[w].session] # "none"
        BY <1>0, <3>1, JobShape DEF Respond, WebhookJob, WebhookSteps, RequestsAreSound, RequestInv,
                                    WebhookIsOnCourse
      <4> QED BY <1>0, <3>1, <4>1 DEF Respond, TypeOK
    <3>2. ASSUME NEW m \in EventKind, NEW r \in Sessions, Redeliver(m, r) PROVE <2>2
      BY <1>0, <3>2 DEF Redeliver, TypeOK
    <3>3. ASSUME NEW w \in Workers, NEW m \in EventKind, NEW r \in Sessions, IgnoreEvent(w, m, r)
          PROVE  <2>2
      BY <1>0, <3>3 DEF IgnoreEvent, TypeOK
    <3> QED BY <1>7, <3>1, <3>2, <3>3
  <2>3. collected' = collected
    BY <2>1 DEF MoneyReceived
  <2>4. lapsed' = lapsed
    BY <2>1, <2>2 DEF LapsedFor, EventKind
  <2> QED BY <2>3, <2>4
<1>8. ASSUME UNCHANGED <<session, event>>
      PROVE  collected' = collected /\ lapsed' = lapsed
  BY <1>8, CollectedIsStable
<1>9. ASSUME collected' = collected, lapsed' = lapsed
      PROVE  UNCHANGED Ledger!vars
  BY <1>9 DEF Ledger!vars
<1>10. ASSUME NEW s \in Sessions, Pay(s) \/ Decline(s) \/ Expire(s) PROVE Ledger!Next
  <2>1. session[s].order \in Orders
    BY <1>1, <1>10 DEF Pay, Decline, Expire
  <2> QED BY <1>2, <1>3, <1>4, <1>10, <2>1 DEF Ledger!Next
<1> HIDE DEF collected, lapsed
<1> QED BY <1>5, <1>6, <1>7, <1>8, <1>9, <1>10, StripeSteps

\* What happens to a row is a step of the ledger.
LEMMA RowRefines ==
  ASSUME IInv, [Next]_vars, UNCHANGED <<session, event>>
  PROVE  Ledger!Next \/ UNCHANGED Ledger!vars
<1> DEFINE collected == {o \in Orders : MoneyReceived(o)}
           lapsed    == {o \in Orders : LapsedFor(o)}
<1>0. TypeOK /\ EventsHaveSessions /\ MilestonesInOrder /\ RowIsInHistory
  BY DEF IInv
<1>1. collected' = collected /\ lapsed' = lapsed
  BY CollectedIsStable
<1>2. \A o \in Orders : Ledger!Live(o) <=> Exists(o)
  BY <1>0 DEF TypeOK, Ledger!Live, Exists, Status
<1>3. CASE UNCHANGED <<row, ever>>
  BY <1>1, <1>3 DEF Ledger!vars
<1>4. CASE row' = [o \in Orders |-> IF Exists(o) THEN "deleted" ELSE row[o]] /\ ever' = ever
  <2>1. Ledger!Clear
    BY <1>1, <1>2, <1>4 DEF Ledger!Clear
  <2> QED BY <2>1 DEF Ledger!Next
<1>5. ASSUME NEW o \in Orders, NEW st \in Status, ~UNCHANGED <<row, ever>>,
             row' = [row EXCEPT ![o] = st],
             ever' = [ever EXCEPT ![o] = @ \cup {st}]
      PROVE  Ledger!Next
  <2>1. /\ row'[o] = st /\ ever'[o] = ever[o] \cup {st}
        /\ ~(row'[o] = row[o] /\ ever'[o] = ever[o])
    BY <1>0, <1>5 DEF TypeOK
  <2>2. Ledger!Enter(o, st)
    BY <1>1, <1>5 DEF Ledger!Enter
  <2>3. CASE row[o] = "none" /\ st = "pending"
    BY <2>2, <2>3 DEF Ledger!Place, Ledger!Next
  <2>4. CASE /\ Exists(o) /\ st = "paid"
             /\ \E s \in Sessions : event["completed"][s] # "none" /\ session[s].order = o
    <3>1. MoneyReceived(o)
      BY <1>0, <2>4 DEF EventsHaveSessions, MoneyReceived
    <3>2. Ledger!Settle(o)
      BY <1>2, <2>2, <2>4, <3>1 DEF Ledger!Settle
    <3> QED BY <3>2 DEF Ledger!Next
  <2>5. CASE /\ Exists(o) /\ st = "cancelled"
             /\ \E s \in Sessions : /\ event["expired"][s] # "none" \/ event["failed"][s] # "none"
                                    /\ session[s].order = o
    <3>1. LapsedFor(o)
      BY <1>0, <2>5 DEF EventsHaveSessions, LapsedFor
    <3>2. Ledger!Cancel(o)
      BY <1>2, <2>2, <2>5, <3>1 DEF Ledger!Cancel
    <3> QED BY <3>2 DEF Ledger!Next
  <2>6. ASSUME Exists(o), NEW seen \in ever[o], st \in Allowed(seen)
        PROVE  Ledger!Next
    <3>1. \/ st = "in_production" /\ seen = "paid"
          \/ st = "shipped" /\ seen = "in_production"
          \/ st = "delivered" /\ seen = "shipped"
          \/ st = "cancelled" /\ seen \in {"paid", "in_production"}
      BY <2>6 DEF Allowed, ALLOWED_STATUS_TRANSITIONS
    <3>2. CASE st = "cancelled"
      <4>1. "paid" \in ever[o]
        BY <1>0, <2>6, <3>1, <3>2 DEF MilestonesInOrder
      <4>2. Ledger!Cancel(o)
        BY <1>2, <2>2, <2>6, <3>2, <4>1 DEF Ledger!Cancel
      <4> QED BY <4>2 DEF Ledger!Next
    <3>3. CASE st # "cancelled"
      <4>1. st \in DOMAIN Ledger!Before /\ Ledger!Before[st] = seen
        BY <3>1, <3>3 DEF Ledger!Before
      <4>2. Ledger!Progress(o, st)
        BY <1>2, <2>2, <2>6, <4>1 DEF Ledger!Progress
      <4> QED BY <4>1, <4>2 DEF Ledger!Next
    <3> QED BY <3>2, <3>3
  <2>7. st # "deleted"
    BY DEF Status
  <2> QED BY <2>1, <2>3, <2>4, <2>5, <2>6, <2>7, RowMoves
<1> HIDE DEF collected, lapsed
<1> QED BY <1>3, <1>4, <1>5, OneRowMoves

\* The back-end implements the ledger: whatever the workers, Stripe, the staff, the deaths and the
\* deployments do, the outside sees the steps of OrderLedger (payment_service.py:53-88,
\* views_crm.py:59-105).
THEOREM ImplementsTheLedger == Spec => ImplementsLedger
<1>1. IInv /\ [Next]_vars => [Ledger!Next]_(Ledger!vars)
  BY RowMovesAlone, StripeRefines, RowRefines
<1> QED BY InitRefines, <1>1, SpecInv, PTL DEF Spec, ImplementsLedger, Ledger!Spec

-----------------------------------------------------------------------------
(***************************************************************************)
(* The transition graph.  A CRM request checks the status it has read and  *)
(* saves later, so with several workers it can leave the graph; what it    *)
(* never does is to leave the edges of the status that it read.            *)
(***************************************************************************)
Saves(w, o) == At(w, "save") /\ job'[w] # job[w] /\ row'[o] # row[o]

\* A save is of the order the request read, from a status that its row has held, along an edge;
\* so it leaves the graph only if the row has moved since it was read (views_crm.py:77-92).
SavesFollowTheRead ==
  [][\A w \in Workers, o \in Orders :
       Saves(w, o) =>
         /\ o = job[w].order /\ job[w].seen \in ever[o]
         /\ job[w].seen \in DOMAIN ALLOWED_STATUS_TRANSITIONS
         /\ row'[o] \in ALLOWED_STATUS_TRANSITIONS[job[w].seen]]_vars

\* What changes a request that is about to save is its save.
LEMMA SaveStep ==
  ASSUME IInv, [Next]_vars, NEW w \in Workers, NEW o \in Orders, Saves(w, o)
  PROVE  CrmSave(w)
<1> USE DEF At, Finish, Saves
<1>0. TypeOK
  BY DEF IInv
<1>1. ASSUME NEW v \in Workers, NEW p \in Orders, CreateOrder(v, p) PROVE FALSE
  BY <1>0, <1>1 DEF CreateOrder, TypeOK
<1>2. ASSUME NEW v \in Workers, HandleCheckoutCompleted(v) \/ HandleCheckoutLapsed(v) PROVE FALSE
  <2>1. v # w
    BY <1>2 DEF HandleCheckoutCompleted, HandleCheckoutLapsed
  <2>2. \E new : job' = [job EXCEPT ![v] = new]
    <3>1. \E step : GoTo(v, step)
      BY <1>2 DEF HandleCheckoutCompleted, HandleCheckoutLapsed, NothingUpdated
    <3> QED BY <3>1, <1>0, GoToShape
  <2> QED BY <1>0, <2>1, <2>2 DEF TypeOK
<1>3. ASSUME NEW v \in Workers, CrmSave(v), v # w PROVE FALSE
  <2>1. \E new : job' = [job EXCEPT ![v] = new]
    <3>1. Finish(v) \/ GoTo(v, "announce")
      BY <1>3 DEF CrmSave
    <3> QED BY <3>1, <1>0, GoToShape
  <2> QED BY <1>0, <1>3, <2>1 DEF TypeOK
<1>4. ~Deploy
  BY DEF Deploy
<1> QED BY <1>1, <1>2, <1>3, <1>4, RowSteps

LEMMA SaveFollowsTheRead ==
  ASSUME IInv, [Next]_vars, NEW w \in Workers, NEW o \in Orders, Saves(w, o)
  PROVE  /\ o = job[w].order /\ Exists(o) /\ job[w].seen \in ever[o]
         /\ job[w].seen \in DOMAIN ALLOWED_STATUS_TRANSITIONS
         /\ row'[o] \in ALLOWED_STATUS_TRANSITIONS[job[w].seen]
<1>1. TypeOK /\ CrmSave(w) /\ RequestInv(w)
  BY SaveStep DEF IInv, RequestsAreSound
<1>2. /\ job[w].order \in Orders /\ job[w].seen \in ever[job[w].order]
      /\ job[w].target \in Allowed(job[w].seen)
  BY <1>1, JobShape DEF CrmSave, At, CrmJob, RequestInv, CrmActsOnThePast
<1>3. Exists(job[w].order) /\ row' = [row EXCEPT ![job[w].order] = job[w].target]
  BY <1>1 DEF CrmSave, SetStatus, Saves
<1>4. o = job[w].order /\ row'[o] = job[w].target
  BY <1>1, <1>2, <1>3 DEF Saves, TypeOK
<1> QED BY <1>2, <1>3, <1>4 DEF Allowed

\* However many CRM requests race, none takes a row elsewhere than an edge leads from the status
\* that it read (views_crm.py:77-92).
THEOREM NoSaveLeavesWhatItRead == Spec => SavesFollowTheRead
<1>1. IInv /\ [Next]_vars =>
        \A w \in Workers, o \in Orders :
          Saves(w, o) =>
            /\ o = job[w].order /\ job[w].seen \in ever[o]
            /\ job[w].seen \in DOMAIN ALLOWED_STATUS_TRANSITIONS
            /\ row'[o] \in ALLOWED_STATUS_TRANSITIONS[job[w].seen]
  BY SaveFollowsTheRead
<1> QED BY SpecInv, <1>1, PTL DEF Spec, SavesFollowTheRead
=============================================================================
