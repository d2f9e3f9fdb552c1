------------------------------- MODULE Basket -------------------------------
(***************************************************************************)
(* The cart of one browser.                                                *)
(*                                                                         *)
(* The cart is a dictionary inside the Django session.  A request reads    *)
(* the whole session when it first touches it, works on its copy, and the  *)
(* session middleware writes the whole copy back when the response is      *)
(* made, if the copy was marked as modified and the response is no 5xx.    *)
(* A browser without a session gets one, and its cookie with the answer.   *)
(* Nothing orders the requests that a browser has in flight: a page that   *)
(* shows the cart beside a button that fills it sends two at once.         *)
(*                                                                         *)
(* GET /api/cart/ reads the lines by one query and then each price by      *)
(* another, while the administrator and the import change the catalogue.   *)
(***************************************************************************)
EXTENDS Integers, FiniteSets

CONSTANTS
  Requests,    \* the requests that the browser can have in flight
  Keys,        \* session keys
  NoKey,       \* no session cookie
  NoSession,   \* no row of this key in django_session
  NoCart,      \* a session without the entry "cart_v2"
  Variants,    \* primary keys of variants
  Amounts,     \* the quantities that requests name, below one too
  Prices,
  NoPrice,     \* NULL: the administrator may blank a price
  MaxCarried,  \* bound: the amount of one variant up to which more is asked for
  MaxChanges   \* bound: edits and imports of the catalogue

Carts == [Variants -> Nat]

ASSUME KeysAssumption    == NoKey \notin Keys
ASSUME CartsAssumption   == NoCart \notin Carts /\ NoSession \notin Carts \cup {NoCart}
ASSUME NumbersAssumption == Amounts \subseteq Int /\ Prices \subseteq Nat /\ NoPrice \notin Nat
                              /\ MaxCarried \in Nat /\ MaxChanges \in Nat

VARIABLES
  session,    \* session[k]: the row of the key k
  cookie,     \* the key that the browser sends
  request,    \* request[r]: how far r is, and what it has read
  shelf,      \* shelf[v]: the row of the variant v
  changes,    \* how much of the bound is spent
  expected,   \* history: what the cart of the browser should hold
  muddled,    \* history: requests have overlapped in a way that loses one of them
  outdated,   \* history: the requests whose session another has saved since they read it
  carried,    \* history: carried[v], the amounts that the finished requests were to add or put
  disturbed   \* history: the views whose lines were read before the catalogue changed

catalogue == <<shelf, changes>>
history   == <<expected, muddled, outdated, carried>>
vars      == <<session, cookie, request, catalogue, history, disturbed>>

-----------------------------------------------------------------------------
Removed == [state |-> "removed"]
Listed  == [state : {"listed"}, price : Prices \cup {NoPrice}, active : BOOLEAN]

\* POST add, PATCH update (and DELETE remove, an update to nothing), DELETE clear, GET.
Op == [kind : {"add", "put"}, variant : Variants, quantity : Amounts]
        \cup [kind : {"clear", "view"}]

\* A variant and what it adds to a view: NoPrice is no line in "lines", nothing in "priced".
Tally   == [Variants -> Prices \cup {NoPrice}]
Cookie  == Keys \cup {NoKey}
Content == Carts \cup {NoCart}
Idle    == [step |-> "idle"]
Request == {Idle}
             \cup [step : {"load"}, op : Op, key : Cookie]
             \cup [step : {"lines", "save"}, op : Op, key : Cookie, read : Content]
             \cup [step : {"price"}, op : Op, key : Cookie, read : Content,
                    lines : Tally, priced : Tally, left : SUBSET Variants]
             \cup [step : {"answer"}, op : Op, key : Cookie, reply : Cookie]

TypeOK ==
  /\ session \in [Keys -> Content \cup {NoSession}]
  /\ cookie \in Cookie
  /\ request \in [Requests -> Request]
  /\ shelf \in [Variants -> {Removed} \cup Listed]
  /\ changes \in 0..MaxChanges
  /\ expected \in Carts
  /\ muddled \in BOOLEAN
  /\ outdated \subseteq Requests
  /\ carried \in Carts
  /\ disturbed \subseteq Requests

Nothing == [v \in Variants |-> 0]

Init ==
  /\ session = [k \in Keys |-> NoSession]
  /\ cookie = NoKey
  /\ request = [r \in Requests |-> Idle]
  /\ shelf \in [Variants -> [state : {"listed"}, price : Prices, active : {TRUE}]]
  /\ changes = 0
  /\ expected = Nothing /\ muddled = FALSE /\ outdated = {} /\ carried = Nothing
  /\ disturbed = {}

-----------------------------------------------------------------------------
(***************************************************************************)
(* Class Cart: what an operation makes of the session that it was given.   *)
(***************************************************************************)
At(r, step) == request[r].step = step

\* Cart.__init__ puts an empty cart into a session without one.
Opened(content) == IF content = NoCart THEN Nothing ELSE content

\* Mutant of Quantity: a new line begins with the default quantity of one.
QuantityFromOne(cart, v) == IF cart[v] = 0 THEN 1 ELSE cart[v]

\* A variant without a line counts zero: add() begins a line with that.
Quantity(cart, v) == cart[v]

\* An update to zero or less is a call of remove().
Removes(op) == op.kind = "put" /\ op.quantity <= 0

After(op, content) ==
  LET cart == Opened(content) IN
  CASE op.kind = "add"   -> [cart EXCEPT ![op.variant] = Quantity(cart, op.variant) + op.quantity]
    [] op.kind = "put"   -> [cart EXCEPT ![op.variant] = IF Removes(op) THEN 0 ELSE op.quantity]
    [] op.kind = "clear" -> NoCart
    [] op.kind = "view"  -> cart

\* Mutant of Modified: remove() changes the nested dictionary and forgets _save().
ModifiedByAssignment(op, content) ==
  content = NoCart \/ (op.kind \in {"add", "put", "clear"} /\ ~Removes(op))

\* session.modified: set by every assignment to the session and by _save().
Modified(op, content) ==
  \/ content = NoCart
  \/ op.kind \in {"add", "put", "clear"} /\ ~Removes(op)
  \/ Removes(op) /\ Opened(content)[op.variant] > 0

-----------------------------------------------------------------------------
(***************************************************************************)
(* History: what the operations are for, variant by variant.               *)
(***************************************************************************)
Items(k) == IF k = NoKey \/ session[k] \in {NoSession, NoCart} THEN Nothing ELSE session[k]

Concerns(op, v) == op.kind \in {"add", "put"} /\ op.variant = v

AtLeastZero(n) == IF n < 0 THEN 0 ELSE n

Wanted(op, cart) ==
  [v \in Variants |->
     IF op.kind = "clear" THEN 0
     ELSE IF ~Concerns(op, v) THEN cart[v]
     ELSE AtLeastZero(op.quantity) + IF op.kind = "add" THEN cart[v] ELSE 0]

Carry(op) ==
  carried' = [v \in Variants |->
                carried[v] + IF Concerns(op, v) THEN AtLeastZero(op.quantity) ELSE 0]

\* The history of an operation on what the browser has, one that loses another one or not.
Expect(op, loses) ==
  /\ muddled' = (muddled \/ loses)
  /\ expected' = IF muddled' THEN Nothing ELSE Wanted(op, expected)

-----------------------------------------------------------------------------
(***************************************************************************)
(* A request: sent with the cookie of the moment, it reads its session,    *)
(* and a view reads the catalogue too.                                     *)
(***************************************************************************)
\* Bound: a request without a session is sent only if a key is left for it.
KeyLeft == Cardinality({r \in Requests : ~At(r, "idle") /\ request[r].key = NoKey})
             < Cardinality({k \in Keys : session[k] = NoSession})

\* Mutant of Accepted: python -O drops the assertion in CartAddView.
AcceptedUnasserted(op) == TRUE

\* To add less than one is answered 400.
Accepted(op) == op.kind = "add" => op.quantity >= 1

Send(r, op) ==
  /\ At(r, "idle")
  /\ Accepted(op)
  /\ cookie # NoKey \/ KeyLeft
  /\ op.kind \in {"add", "put"} => carried[op.variant] + op.quantity <= MaxCarried
  /\ request' = [request EXCEPT ![r] = [step |-> "load", op |-> op, key |-> cookie]]
  /\ UNCHANGED <<session, cookie, catalogue, history, disturbed>>

Load(r) ==
  LET key  == request[r].key
      read == IF key = NoKey THEN NoCart ELSE session[key]
      step == IF request[r].op.kind = "view" /\ Opened(read) # Nothing THEN "lines" ELSE "save"
  IN
  /\ At(r, "load")
  /\ request' = [request EXCEPT
       ![r] = [step |-> step, op |-> request[r].op, key |-> key, read |-> read]]
  /\ UNCHANGED <<session, cookie, catalogue, history, disturbed>>

OnOffer(v) == shelf[v].state = "listed" /\ shelf[v].active

Held(cart) == {v \in Variants : cart[v] > 0}

\* list_active_variants_by_ids is one query: a variant that it does not find has no line.  A line
\* without a price is a TypeError: a 500, and no session is saved.
ReadLines(r) ==
  LET held  == Held(request[r].read)
      shown == {v \in held : OnOffer(v)}
  IN
  /\ At(r, "lines")
  /\ IF \E v \in shown : shelf[v].price = NoPrice
       THEN request' = [request EXCEPT ![r] = Idle] /\ outdated' = outdated \ {r}
       ELSE /\ request' = [request EXCEPT
                 ![r] = [step |-> "price", op |-> request[r].op, key |-> request[r].key,
                         read |-> request[r].read, left |-> held,
                         lines |-> [v \in Variants |-> IF v \in shown THEN shelf[v].price ELSE NoPrice],
                         priced |-> [v \in Variants |-> NoPrice]]]
            /\ UNCHANGED outdated
  /\ UNCHANGED <<session, cookie, catalogue, expected, muddled, carried, disturbed>>

\* Mutant of PriceOf: the price of a variant that was taken off the shelves still counts.
PriceOfRow(v) == IF shelf[v].state = "listed" THEN shelf[v].price ELSE NoPrice

\* What a variant adds to the subtotal, each time: get_subtotal swallows what fails.
PriceOf(v) == IF OnOffer(v) THEN shelf[v].price ELSE NoPrice

ReadPrice(r, v) ==
  /\ At(r, "price")
  /\ v \in request[r].left
  /\ request' = [request EXCEPT ![r].priced[v] = PriceOf(v), ![r].left = @ \ {v}]
  /\ UNCHANGED <<session, cookie, catalogue, history, disturbed>>

Ready(r) ==
  \/ At(r, "save")
  \/ At(r, "price") /\ request[r].left = {}

-----------------------------------------------------------------------------
(***************************************************************************)
(* The response.  SessionMiddleware writes the session of the request over *)
(* the row, or creates a row with a new key, unless it holds nothing, and  *)
(* sends the key with the answer.  (External: Django's middleware.)        *)
(***************************************************************************)
\* The request r is alone on its way and clears what the browser has: past muddle is over.
Heals(r) ==
  /\ request[r].op.kind = "clear"
  /\ request[r].key = cookie
  /\ \A q \in Requests \ {r} : At(q, "idle")

ReadBy(k) == {r \in Requests : request[r].step \in {"lines", "price", "save"} /\ request[r].key = k}

Answer(r, reply) ==
  request' = [request EXCEPT
    ![r] = [step |-> "answer", op |-> request[r].op, key |-> request[r].key, reply |-> reply]]

SaveOver(r) ==
  LET op == request[r].op IN
  /\ Ready(r)
  /\ request[r].key # NoKey
  /\ Modified(op, request[r].read)
  /\ session' = [session EXCEPT ![request[r].key] = After(op, request[r].read)]
  /\ Answer(r, request[r].key)
  /\ outdated' = (outdated \cup ReadBy(request[r].key)) \ {r}
  /\ Carry(op)
  /\ IF Heals(r) THEN muddled' = FALSE /\ expected' = Nothing
                 ELSE Expect(op, r \in outdated)
  /\ disturbed' = disturbed \ {r}
  /\ UNCHANGED <<cookie, catalogue>>

\* The new session becomes the browser's when the answer arrives.
CreateSession(r, k) ==
  LET op == request[r].op IN
  /\ Ready(r)
  /\ request[r].key = NoKey
  /\ Modified(op, request[r].read) /\ After(op, request[r].read) # NoCart
  /\ session[k] = NoSession
  /\ session' = [session EXCEPT ![k] = After(op, request[r].read)]
  /\ Answer(r, k)
  /\ Carry(op)
  /\ disturbed' = disturbed \ {r}
  /\ UNCHANGED <<cookie, catalogue, expected, muddled, outdated>>

\* Nothing to save: what the operation was for must hold already.
SaveNothing(r) ==
  LET op == request[r].op IN
  /\ Ready(r)
  /\ \/ ~Modified(op, request[r].read)
     \/ request[r].key = NoKey /\ After(op, request[r].read) = NoCart
  /\ Answer(r, NoKey)
  /\ outdated' = outdated \ {r}
  /\ IF Wanted(op, Opened(request[r].read)) = Opened(request[r].read)
       THEN UNCHANGED <<expected, muddled>>
       ELSE Expect(op, FALSE)
  /\ disturbed' = disturbed \ {r}
  /\ UNCHANGED <<session, cookie, catalogue, carried>>

\* The browser keeps the last cookie that it is given.
Receive(r) ==
  LET key == request[r].key  reply == request[r].reply IN
  /\ At(r, "answer")
  /\ cookie' = IF reply = NoKey THEN cookie ELSE reply
  /\ IF key = NoKey /\ reply # NoKey
       THEN Expect(request[r].op, cookie # NoKey)
       ELSE UNCHANGED <<expected, muddled>>
  /\ request' = [request EXCEPT ![r] = Idle]
  /\ UNCHANGED <<session, catalogue, outdated, carried, disturbed>>

\* The request dies before its session is saved, or its answer is lost.
Dies(r) ==
  /\ ~At(r, "idle")
  /\ request' = [request EXCEPT ![r] = Idle]
  /\ outdated' = outdated \ {r}
  /\ disturbed' = disturbed \ {r}
  /\ UNCHANGED <<session, cookie, catalogue, expected, muddled, carried>>

-----------------------------------------------------------------------------
(***************************************************************************)
(* The catalogue: the administrator edits a variant, or an import replaces *)
(* all of them by others, whose keys are in no cart yet.                   *)
(***************************************************************************)
Change(rows) ==
  /\ changes < MaxChanges
  /\ changes' = changes + 1
  /\ shelf' = rows
  /\ disturbed' = disturbed \cup {r \in Requests : At(r, "price")}
  /\ UNCHANGED <<session, cookie, request, history>>

EditVariant(v, price, active) ==
  /\ shelf[v].state = "listed"
  /\ Change([shelf EXCEPT ![v] = [state |-> "listed", price |-> price, active |-> active]])

Import == Change([v \in Variants |-> Removed])

-----------------------------------------------------------------------------
Proceed(r) ==
  \/ Load(r) \/ ReadLines(r) \/ (\E v \in Variants : ReadPrice(r, v))
  \/ SaveOver(r) \/ (\E k \in Keys : CreateSession(r, k)) \/ SaveNothing(r)
  \/ Receive(r) \/ Dies(r)

Next ==
  \/ \E r \in Requests : Proceed(r)
  \/ \E r \in Requests, op \in Op : Send(r, op)
  \/ \E v \in Variants, price \in Prices \cup {NoPrice}, active \in BOOLEAN : EditVariant(v, price, active)
  \/ Import

Spec == Init /\ [][Next]_vars

-----------------------------------------------------------------------------
(***************************************************************************)
(* Properties.                                                             *)
(***************************************************************************)
\* The cart under the browser's cookie is what its finished requests make of it, though answers
\* get lost, requests die, and views and removals of nothing run beside all others without being
\* saved.  The exceptions are those of cart.py:13-18 and 82-83 and no others: a request that saves
\* a session which another has saved since it read it, and an answer that brings a second session
\* to a browser that has one.  A clear that runs alone ends them.
NothingIsLost == ~muddled => Items(cookie) = expected

\* Overlapping requests may lose amounts, and sessions be created twice, but no session of the
\* browser ever holds more of a variant than its requests have added and put in all: an overlap
\* may bring back what was removed, but never makes up an amount (cart.py:20-28).
NeverMoreThanAsked ==
  \A k \in Keys, v \in Variants : session[k] \in Carts => session[k][v] <= carried[v]

\* GET /api/cart/ adds up: what each variant adds to the subtotal is the price of its line, and
\* nothing if it has none, unless the catalogue changed between its queries, of which the two that
\* find the variants and the prices are written separately (cart.py:44-74).
ViewAddsUp ==
  \A r \in Requests \ disturbed : At(r, "price") =>
    \A v \in Variants \ request[r].left : request[r].priced[v] = request[r].lines[v]
=============================================================================
