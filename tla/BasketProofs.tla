---------------------------- MODULE BasketProofs ----------------------------
(***************************************************************************)
(* Proofs about Basket, for every number of requests in flight, of session *)
(* keys and of variants, all quantities and prices, and without bounds on  *)
(* what is asked for.                                                      *)
(***************************************************************************)
EXTENDS Basket, TLAPS

-----------------------------------------------------------------------------
(***************************************************************************)
(* The inductive invariant.                                                *)
(***************************************************************************)
Busy(r)   == ~At(r, "idle")
Loaded(r) == request[r].step \in {"lines", "price", "save"}

\* A request names a session that exists, and has read it as it still is unless another has saved
\* it since.  While nothing is muddled, all requests with a session have the browser's.
RequestOnCourse(r) ==
  Busy(r) =>
    /\ Accepted(request[r].op)
    /\ request[r].key # NoKey => cookie # NoKey /\ session[request[r].key] # NoSession
    /\ request[r].key # NoKey /\ ~muddled => request[r].key = cookie
    /\ Loaded(r) /\ request[r].key = NoKey => request[r].read = NoCart
    /\ Loaded(r) /\ request[r].key # NoKey /\ r \notin outdated =>
         request[r].read = session[request[r].key]
    /\ Loaded(r) /\ request[r].read # NoCart =>
         \A v \in Variants : request[r].read[v] <= carried[v]

\* A session that was created for an answer on its way is known to nobody else, and holds what the
\* one request made of nothing.
AnswerOnCourse(r) ==
  At(r, "answer") /\ request[r].reply # NoKey =>
    /\ session[request[r].reply] # NoSession
    /\ request[r].key # NoKey => request[r].reply = request[r].key
    /\ request[r].key = NoKey =>
         /\ session[request[r].reply] = After(request[r].op, NoCart)
         /\ request[r].reply # cookie
         /\ \A q \in Requests \ {r} : Busy(q) =>
              /\ request[q].key # request[r].reply
              /\ At(q, "answer") => request[q].reply # request[r].reply

\* While the catalogue stays, the lines are what is on offer, and what was priced is a line.
ViewOnCourse(r) ==
  At(r, "price") /\ r \notin disturbed =>
    /\ request[r].lines =
         [v \in Variants |-> IF v \in Held(request[r].read) /\ OnOffer(v) THEN shelf[v].price ELSE NoPrice]
    /\ request[r].left \subseteq Held(request[r].read)
    /\ \A v \in Variants \ request[r].left : request[r].priced[v] = request[r].lines[v]

CartOnCourse ==
  /\ cookie # NoKey => session[cookie] # NoSession
  /\ cookie = NoKey => expected = Nothing
  /\ NothingIsLost
  /\ NeverMoreThanAsked

IInv ==
  /\ TypeOK
  /\ \A r \in Requests : RequestOnCourse(r)
  /\ \A r \in Requests : AnswerOnCourse(r)
  /\ \A r \in Requests : ViewOnCourse(r)
  /\ CartOnCourse

-----------------------------------------------------------------------------
(***************************************************************************)
(* Operations and carts.                                                   *)
(***************************************************************************)
LEMMA OpShape ==
  ASSUME NEW op \in Op
  PROVE  /\ op.kind \in {"add", "put", "clear", "view"}
         /\ op.kind \in {"add", "put"} => op.variant \in Variants /\ op.quantity \in Int
  BY NumbersAssumption DEF Op

LEMMA NothingIsACart == Nothing \in Carts
  BY DEF Nothing, Carts

LEMMA OpenedShape ==
  ASSUME NEW content \in Content
  PROVE  Opened(content) \in Carts
  BY NothingIsACart DEF Opened, Content

LEMMA WantedShape ==
  ASSUME NEW op \in Op, NEW cart \in Carts
  PROVE  Wanted(op, cart) \in Carts
<1>1. ASSUME NEW v \in Variants
      PROVE  (IF op.kind = "clear" THEN 0
              ELSE IF ~Concerns(op, v) THEN cart[v]
              ELSE AtLeastZero(op.quantity) + IF op.kind = "add" THEN cart[v] ELSE 0) \in Nat
  BY OpShape DEF Concerns, AtLeastZero, Carts
<1> QED BY <1>1 DEF Wanted, Carts

\* The code makes of a session what the operation is for.
LEMMA AfterIsWanted ==
  ASSUME NEW op \in Op, Accepted(op), NEW content \in Content
  PROVE  /\ op.kind = "clear" => After(op, content) = NoCart
         /\ op.kind # "clear" => After(op, content) = Wanted(op, Opened(content))
<1> DEFINE cart == Opened(content)
<1>1. cart \in [Variants -> Nat]
  BY OpenedShape DEF Carts
<1> HIDE DEF cart
<1>2. CASE op.kind = "clear"
  BY <1>2 DEF After
<1>3. CASE op.kind = "view"
  <2>1. After(op, content) = cart
    BY <1>3 DEF After, cart
  <2>2. Wanted(op, cart) = [v \in Variants |-> cart[v]]
    BY <1>3 DEF Wanted, Concerns
  <2> QED BY <1>1, <1>3, <2>1, <2>2 DEF cart
<1>4. CASE op.kind = "add"
  <2>1. After(op, content) = [cart EXCEPT ![op.variant] = cart[op.variant] + op.quantity]
    BY <1>4 DEF After, cart, Quantity
  <2>2. op.variant \in Variants /\ op.quantity \in Int /\ op.quantity >= 1
    BY <1>4, OpShape DEF Accepted
  <2>3. Wanted(op, cart) = [v \in Variants |-> IF v = op.variant THEN op.quantity + cart[v] ELSE cart[v]]
    BY <1>4, <2>2 DEF Wanted, Concerns, AtLeastZero
  <2>4. \A v \in Variants : cart[v] \in Nat /\ op.quantity + cart[v] = cart[v] + op.quantity
    BY <1>1, <2>2
  <2>5. After(op, content) = Wanted(op, cart)
    BY <1>1, <2>1, <2>2, <2>3, <2>4
  <2> QED BY <1>4, <2>5 DEF cart
<1>5. CASE op.kind = "put"
  <2>1. After(op, content) = [cart EXCEPT ![op.variant] = IF op.quantity <= 0 THEN 0 ELSE op.quantity]
    BY <1>5 DEF After, cart, Removes
  <2>2. op.variant \in Variants /\ op.quantity \in Int
    BY <1>5, OpShape
  <2>3. Wanted(op, cart) =
          [v \in Variants |-> IF v = op.variant THEN AtLeastZero(op.quantity) + 0 ELSE cart[v]]
    BY <1>5 DEF Wanted, Concerns
  <2>4. AtLeastZero(op.quantity) + 0 = IF op.quantity <= 0 THEN 0 ELSE op.quantity
    BY <2>2 DEF AtLeastZero
  <2>5. After(op, content) = Wanted(op, cart)
    BY <1>1, <2>1, <2>2, <2>3, <2>4
  <2> QED BY <1>5, <2>5 DEF cart
<1> QED BY <1>2, <1>3, <1>4, <1>5, OpShape

LEMMA AfterShape ==
  ASSUME NEW op \in Op, Accepted(op), NEW content \in Content
  PROVE  /\ After(op, content) \in Content
         /\ After(op, content) # NoSession
         /\ Opened(After(op, content)) = Wanted(op, Opened(content))
<1>1. CASE op.kind = "clear"
  <2>1. Wanted(op, Opened(content)) = Nothing
    BY <1>1 DEF Wanted, Nothing
  <2> QED BY <1>1, <2>1, AfterIsWanted, CartsAssumption DEF Content, Opened
<1>2. CASE op.kind # "clear"
  <2>1. After(op, content) = Wanted(op, Opened(content)) /\ After(op, content) \in Carts
    BY <1>2, AfterIsWanted, OpenedShape, WantedShape
  <2> QED BY <2>1, CartsAssumption DEF Content, Opened
<1> QED BY <1>1, <1>2

\* What is not marked as modified is as it should be.
LEMMA UnmodifiedIsWanted ==
  ASSUME NEW op \in Op, NEW content \in Content, ~Modified(op, content)
  PROVE  Wanted(op, Opened(content)) = Opened(content)
<1> DEFINE cart == Opened(content)
<1>1. cart \in [Variants -> Nat]
  BY OpenedShape DEF Carts
<1> HIDE DEF cart
<1>2. op.kind = "view" \/ op.kind = "put"
  BY OpShape DEF Modified, Removes
<1>3. CASE op.kind = "view"
  BY <1>1, <1>3 DEF Wanted, Concerns, cart
<1>4. CASE op.kind = "put"
  <2>1. op.quantity <= 0 /\ ~(cart[op.variant] > 0)
    BY <1>4 DEF Modified, Removes, cart
  <2>2. op.variant \in Variants /\ op.quantity \in Int
    BY <1>4, OpShape
  <2>3. AtLeastZero(op.quantity) = 0 /\ cart[op.variant] = 0
    BY <1>1, <2>1, <2>2 DEF AtLeastZero
  <2>4. Wanted(op, cart) = [v \in Variants |-> IF v = op.variant THEN 0 + 0 ELSE cart[v]]
    BY <1>4, <2>3 DEF Wanted, Concerns
  <2> QED BY <1>1, <2>2, <2>3, <2>4 DEF cart
<1> QED BY <1>2, <1>3, <1>4

\* An operation carries what it adds to a cart.
LEMMA AfterIsCarried ==
  ASSUME NEW op \in Op, Accepted(op), NEW content \in Content, carried \in Carts, Carry(op),
         content # NoCart => \A v \in Variants : content[v] <= carried[v]
  PROVE  /\ carried' \in Carts
         /\ \A v \in Variants : carried[v] <= carried'[v]
         /\ op.kind # "clear" => \A v \in Variants : After(op, content)[v] <= carried'[v]
<1>1. \A v \in Variants : AtLeastZero(op.quantity) \in Nat \/ ~Concerns(op, v)
  BY OpShape DEF AtLeastZero, Concerns
<1>2. \A v \in Variants :
        carried'[v] = carried[v] + IF Concerns(op, v) THEN AtLeastZero(op.quantity) ELSE 0
  BY DEF Carry
<1>3. carried' \in Carts
  BY <1>1 DEF Carry, Carts
<1>4. \A v \in Variants : carried[v] \in Nat
  BY DEF Carts
<1>5. \A v \in Variants : Opened(content)[v] \in Nat /\ Opened(content)[v] <= carried[v]
  <2>1. Opened(content) \in [Variants -> Nat]
    BY OpenedShape DEF Carts
  <2> QED BY <1>4, <2>1 DEF Opened, Nothing
<1>6. ASSUME op.kind # "clear", NEW v \in Variants PROVE After(op, content)[v] <= carried'[v]
  <2>1. After(op, content)[v] =
          IF ~Concerns(op, v) THEN Opened(content)[v]
          ELSE AtLeastZero(op.quantity) + IF op.kind = "add" THEN Opened(content)[v] ELSE 0
    BY <1>6, AfterIsWanted DEF Wanted
  <2> QED BY <1>1, <1>2, <1>4, <1>5, <2>1
<1>7. \A v \in Variants : carried[v] <= carried'[v]
  BY <1>1, <1>2, <1>4
<1> QED BY <1>3, <1>6, <1>7

-----------------------------------------------------------------------------
(***************************************************************************)
(* Requests.                                                               *)
(***************************************************************************)
Loading   == [step : {"load"}, op : Op, key : Cookie]
Working   == [step : {"lines", "save"}, op : Op, key : Cookie, read : Content]
Pricing   == [step : {"price"}, op : Op, key : Cookie, read : Content,
              lines : Tally, priced : Tally, left : SUBSET Variants]
Answering == [step : {"answer"}, op : Op, key : Cookie, reply : Cookie]

LEMMA RequestSets ==
  /\ Request = {Idle} \cup Loading \cup Working \cup Pricing \cup Answering
  /\ \A x \in Loading : x.step = "load" /\ x.op \in Op /\ x.key \in Cookie
  /\ \A x \in Working : x.step \in {"lines", "save"} /\ x.op \in Op /\ x.key \in Cookie /\ x.read \in Content
  /\ \A x \in Pricing : /\ x.step = "price" /\ x.op \in Op /\ x.key \in Cookie /\ x.read \in Content
                        /\ x.lines \in Tally /\ x.priced \in Tally /\ x.left \subseteq Variants
  /\ \A x \in Answering : x.step = "answer" /\ x.op \in Op /\ x.key \in Cookie /\ x.reply \in Cookie
<1> HIDE DEF Op, Cookie, Content, Tally
<1> QED BY DEF Request, Loading, Working, Pricing, Answering

LEMMA RequestShape ==
  ASSUME TypeOK, NEW r \in Requests, Busy(r)
  PROVE  /\ request[r] \in Loading \cup Working \cup Pricing \cup Answering
         /\ request[r].op \in Op /\ request[r].key \in Cookie
         /\ Loaded(r) => request[r].read \in Content
         /\ At(r, "price") => request[r] \in Pricing
         /\ At(r, "answer") => request[r].reply \in Cookie
<1>1. request[r] \in Request /\ request[r] # Idle
  BY DEF TypeOK, Busy, At, Idle
<1> HIDE DEF Op, Cookie, Content, Tally, Loading, Working, Pricing, Answering
<1> QED BY <1>1, RequestSets DEF Loaded, At

\* A request is replaced by another.
LEMMA Replaced ==
  ASSUME TypeOK, NEW r \in Requests, NEW x \in Request, request' = [request EXCEPT ![r] = x]
  PROVE  /\ request' \in [Requests -> Request]
         /\ request'[r] = x
         /\ \A q \in Requests \ {r} : request'[q] = request[q]
<1> HIDE DEF Request
<1> QED BY DEF TypeOK

-----------------------------------------------------------------------------
(***************************************************************************)
(* Type correctness.                                                       *)
(***************************************************************************)
LEMMA InitType == Init => TypeOK
<1> SUFFICES ASSUME Init PROVE TypeOK
  OBVIOUS
<1>1. request \in [Requests -> Request]
  BY DEF Init, Request
<1>2. shelf \in [Variants -> {Removed} \cup Listed]
  BY DEF Init, Listed
<1>3. session \in [Keys -> Content \cup {NoSession}] /\ cookie \in Cookie
  BY DEF Init, Cookie
<1>4. changes \in 0..MaxChanges
  BY NumbersAssumption DEF Init
<1> QED BY <1>1, <1>2, <1>3, <1>4, NothingIsACart DEF Init, TypeOK

LEMMA SendType ==
  ASSUME TypeOK, NEW r \in Requests, NEW op \in Op, Send(r, op)
  PROVE  TypeOK'
<1>1. [step |-> "load", op |-> op, key |-> cookie] \in Loading
  BY DEF TypeOK, Loading
<1> HIDE DEF Request, Loading
<1>2. request' \in [Requests -> Request]
  BY <1>1, RequestSets, Replaced DEF Send
<1> QED BY <1>2 DEF TypeOK, Send, catalogue, history

\* What a request finds.
LEMMA LoadShape ==
  ASSUME IInv, NEW r \in Requests, Load(r)
  PROVE  \E x \in Working :
           /\ request' = [request EXCEPT ![r] = x]
           /\ x.op = request[r].op /\ x.key = request[r].key
           /\ x.key = NoKey => x.read = NoCart
           /\ x.key # NoKey => x.read = session[x.key]
<1> DEFINE key  == request[r].key
           read == IF key = NoKey THEN NoCart ELSE session[key]
           step == IF request[r].op.kind = "view" /\ Opened(read) # Nothing THEN "lines" ELSE "save"
           x    == [step |-> step, op |-> request[r].op, key |-> key, read |-> read]
<1>1. TypeOK /\ Busy(r) /\ RequestOnCourse(r)
  BY DEF IInv, Load, Busy, At
<1>2. request[r].op \in Op /\ key \in Cookie
  BY <1>1, RequestShape
<1>3. read \in Content
  BY <1>1, <1>2 DEF RequestOnCourse, TypeOK, Cookie, Content
<1>4. step \in {"lines", "save"}
  OBVIOUS
<1>5. request' = [request EXCEPT ![r] = x]
  BY DEF Load
<1> HIDE DEF step
<1>6. x \in Working
  BY <1>2, <1>3, <1>4 DEF Working
<1>7. x.op = request[r].op /\ x.key = key /\ x.read = read
  OBVIOUS
<1> HIDE DEF x
<1> QED BY <1>5, <1>6, <1>7

LEMMA LoadType ==
  ASSUME IInv, NEW r \in Requests, Load(r)
  PROVE  TypeOK'
<1>0. TypeOK
  BY DEF IInv
<1> HIDE DEF Request, Working
<1>1. request' \in [Requests -> Request]
  BY <1>0, LoadShape, RequestSets, Replaced
<1> QED BY <1>0, <1>1 DEF TypeOK, Load, catalogue, history

\* The lines of a view.
LEMMA ReadLinesShape ==
  ASSUME TypeOK, NEW r \in Requests, ReadLines(r)
  PROVE  \/ request' = [request EXCEPT ![r] = Idle] /\ outdated' = outdated \ {r}
         \/ /\ outdated' = outdated
            /\ \E x \in Pricing :
                 /\ request' = [request EXCEPT ![r] = x]
                 /\ x.op = request[r].op /\ x.key = request[r].key /\ x.read = request[r].read
                 /\ x.left = Held(request[r].read)
                 /\ x.lines = [v \in Variants |-> IF v \in Held(request[r].read) /\ OnOffer(v)
                                                  THEN shelf[v].price ELSE NoPrice]
                 /\ x.priced = [v \in Variants |-> NoPrice]
<1> DEFINE held  == Held(request[r].read)
           shown == {v \in held : OnOffer(v)}
           lines == [v \in Variants |-> IF v \in shown THEN shelf[v].price ELSE NoPrice]
           x     == [step |-> "price", op |-> request[r].op, key |-> request[r].key,
                     read |-> request[r].read, left |-> held, lines |-> lines,
                     priced |-> [v \in Variants |-> NoPrice]]
<1>1. CASE \E v \in shown : shelf[v].price = NoPrice
  BY <1>1 DEF ReadLines
<1>2. CASE ~\E v \in shown : shelf[v].price = NoPrice
  <2>1. request' = [request EXCEPT ![r] = x] /\ outdated' = outdated
    BY <1>2 DEF ReadLines
  <2>2. request[r].op \in Op /\ request[r].key \in Cookie /\ request[r].read \in Content
    BY RequestShape DEF ReadLines, Busy, Loaded, At
  <2>3. lines \in Tally
    <3>1. \A v \in Variants : OnOffer(v) => shelf[v].price \in Prices \cup {NoPrice}
      BY DEF TypeOK, OnOffer, Listed, Removed
    <3> QED BY <3>1 DEF Tally
  <2>4. held \subseteq Variants /\ [v \in Variants |-> NoPrice] \in Tally
    BY DEF Held, Tally
  <2> HIDE DEF held, lines
  <2>5. x \in Pricing
    BY <2>2, <2>3, <2>4 DEF Pricing
  <2>6. /\ x.op = request[r].op /\ x.key = request[r].key /\ x.read = request[r].read
        /\ x.left = held /\ x.lines = lines /\ x.priced = [v \in Variants |-> NoPrice]
    OBVIOUS
  <2>7. lines = [v \in Variants |-> IF v \in held /\ OnOffer(v) THEN shelf[v].price ELSE NoPrice]
    BY DEF lines
  <2> HIDE DEF x
  <2> QED BY <2>1, <2>5, <2>6, <2>7 DEF held
<1> QED BY <1>1, <1>2

LEMMA ReadLinesType ==
  ASSUME TypeOK, NEW r \in Requests, ReadLines(r)
  PROVE  TypeOK'
<1>1. Idle \in Request
  BY DEF Request
<1> HIDE DEF Request, Pricing
<1>2. request' \in [Requests -> Request] /\ outdated' \subseteq Requests
  <2>1. outdated \subseteq Requests
    BY DEF TypeOK
  <2> QED BY <1>1, <2>1, ReadLinesShape, RequestSets, Replaced
<1> QED BY <1>2 DEF TypeOK, ReadLines, catalogue

LEMMA ReadPriceShape ==
  ASSUME TypeOK, NEW r \in Requests, NEW v \in Variants, ReadPrice(r, v)
  PROVE  \E x \in Pricing :
           /\ request' = [request EXCEPT ![r] = x]
           /\ x.op = request[r].op /\ x.key = request[r].key /\ x.read = request[r].read
           /\ x.left = request[r].left \ {v} /\ x.lines = request[r].lines
           /\ x.priced = [request[r].priced EXCEPT ![v] = PriceOf(v)]
<1> DEFINE x == [request[r] EXCEPT !.priced[v] = PriceOf(v), !.left = @ \ {v}]
<1>1. request[r] \in Pricing
  BY RequestShape DEF ReadPrice, Busy, At
<1>2. PriceOf(v) \in Prices \cup {NoPrice}
  BY DEF TypeOK, PriceOf, OnOffer, Listed, Removed
<1>3. request' = [request EXCEPT ![r] = x]
  BY DEF ReadPrice, TypeOK
<1>4. [request[r].priced EXCEPT ![v] = PriceOf(v)] \in Tally
  BY <1>1, <1>2 DEF Pricing, Tally
<1>5. /\ x.op = request[r].op /\ x.key = request[r].key /\ x.read = request[r].read
      /\ x.left = request[r].left \ {v} /\ x.lines = request[r].lines
      /\ x.priced = [request[r].priced EXCEPT ![v] = PriceOf(v)]
  BY <1>1 DEF Pricing
<1>6. x \in Pricing
  BY <1>1, <1>4, <1>5 DEF Pricing
<1> HIDE DEF x
<1> QED BY <1>3, <1>5, <1>6

LEMMA ReadPriceType ==
  ASSUME TypeOK, NEW r \in Requests, NEW v \in Variants, ReadPrice(r, v)
  PROVE  TypeOK'
<1> HIDE DEF Request, Pricing
<1>1. request' \in [Requests -> Request]
  BY ReadPriceShape, RequestSets, Replaced
<1> QED BY <1>1 DEF TypeOK, ReadPrice, catalogue, history

\* What an answered request was, and what its answer is.
LEMMA AnswerShape ==
  ASSUME TypeOK, NEW r \in Requests, NEW reply \in Cookie, Ready(r), Answer(r, reply)
  PROVE  /\ request' \in [Requests -> Request]
         /\ \A q \in Requests \ {r} : request'[q] = request[q]
         /\ request'[r].step = "answer" /\ request'[r].reply = reply
         /\ request'[r].op = request[r].op /\ request'[r].key = request[r].key
         /\ Busy(r) /\ Loaded(r) /\ request[r].op \in Op /\ request[r].key \in Cookie
         /\ request[r].read \in Content
<1> DEFINE x == [step |-> "answer", op |-> request[r].op, key |-> request[r].key, reply |-> reply]
<1>1. Busy(r) /\ Loaded(r)
  BY DEF Ready, Busy, Loaded, At
<1>2. request[r].op \in Op /\ request[r].key \in Cookie /\ request[r].read \in Content
  BY <1>1, RequestShape
<1>3. x \in Answering
  BY <1>2 DEF Answering
<1>4. x.step = "answer" /\ x.reply = reply /\ x.op = request[r].op /\ x.key = request[r].key
  OBVIOUS
<1>5. request' = [request EXCEPT ![r] = x]
  BY DEF Answer
<1> HIDE DEF x, Request, Answering
<1>6. x \in Request
  BY <1>3, RequestSets
<1> QED BY <1>1, <1>2, <1>4, <1>5, <1>6, Replaced

\* What was expected of the browser's cart stays a cart.
LEMMA ExpectType ==
  ASSUME TypeOK, NEW op \in Op, NEW loses \in BOOLEAN, Expect(op, loses)
  PROVE  expected' \in Carts /\ muddled' \in BOOLEAN
<1>1. muddled' \in BOOLEAN
  BY ZenonT(30) DEF Expect, TypeOK
<1>2. expected' = IF muddled' THEN Nothing ELSE Wanted(op, expected)
  BY DEF Expect
<1>3. Wanted(op, expected) \in Carts
  BY WantedShape DEF TypeOK
<1> QED BY <1>1, <1>2, <1>3, NothingIsACart

\* A request that saves what it has read: what it writes, and what it carries.
LEMMA SavedShape ==
  ASSUME IInv, NEW r \in Requests, Busy(r), Loaded(r), Carry(request[r].op)
  PROVE  LET op == request[r].op  made == After(request[r].op, request[r].read) IN
         /\ made \in Content /\ made # NoSession
         /\ Opened(made) = Wanted(op, Opened(request[r].read))
         /\ made # NoCart => op.kind # "clear" /\ \A v \in Variants : made[v] <= carried'[v]
         /\ carried' \in Carts /\ \A v \in Variants : carried[v] <= carried'[v]
<1>1. TypeOK /\ RequestOnCourse(r)
  BY DEF IInv
<1>2. request[r].op \in Op /\ request[r].read \in Content /\ Accepted(request[r].op)
  BY <1>1, RequestShape DEF RequestOnCourse
<1>3. request[r].read # NoCart => \A v \in Variants : request[r].read[v] <= carried[v]
  BY <1>1 DEF RequestOnCourse
<1>4. carried \in Carts
  BY <1>1 DEF TypeOK
<1> QED BY <1>2, <1>3, <1>4, AfterShape, AfterIsWanted, AfterIsCarried

LEMMA SaveOverType ==
  ASSUME IInv, NEW r \in Requests, SaveOver(r)
  PROVE  TypeOK'
<1> DEFINE key == request[r].key
           made == After(request[r].op, request[r].read)
<1>0. TypeOK
  BY DEF IInv
<1>1. Ready(r) /\ Answer(r, key) /\ Carry(request[r].op) /\ key # NoKey /\ session' = [session EXCEPT ![key] = made]
  BY DEF SaveOver
<1>2. Busy(r) /\ Loaded(r)
  BY <1>1 DEF Ready, Busy, Loaded, At
<1>3. request[r].op \in Op /\ key \in Cookie
  BY <1>0, <1>2, RequestShape
<1>4. request' \in [Requests -> Request]
  BY <1>0, <1>1, <1>3, AnswerShape
<1>5. made \in Content /\ carried' \in Carts
  BY <1>1, <1>2, SavedShape
<1>6. session' \in [Keys -> Content \cup {NoSession}]
  BY <1>0, <1>1, <1>5 DEF TypeOK
<1>7. expected' \in Carts /\ muddled' \in BOOLEAN
  <2>1. CASE Heals(r)
    BY <2>1, NothingIsACart DEF SaveOver
  <2>2. CASE ~Heals(r)
    <3>1. (r \in outdated) \in BOOLEAN /\ Expect(request[r].op, r \in outdated)
      BY <2>2 DEF SaveOver
    <3> QED BY <1>0, <1>3, <3>1, ExpectType
  <2> QED BY <2>1, <2>2
<1>8. outdated' \subseteq Requests /\ disturbed' \subseteq Requests
  BY <1>0 DEF SaveOver, TypeOK, ReadBy
<1> QED BY <1>0, <1>4, <1>5, <1>6, <1>7, <1>8 DEF TypeOK, SaveOver, catalogue

LEMMA CreateSessionType ==
  ASSUME IInv, NEW r \in Requests, NEW k \in Keys, CreateSession(r, k)
  PROVE  TypeOK'
<1> DEFINE made == After(request[r].op, request[r].read)
<1>0. TypeOK
  BY DEF IInv
<1>1. Ready(r) /\ Answer(r, k) /\ Carry(request[r].op) /\ session' = [session EXCEPT ![k] = made]
  BY DEF CreateSession
<1>2. Busy(r) /\ Loaded(r)
  BY <1>1 DEF Ready, Busy, Loaded, At
<1>3. request' \in [Requests -> Request]
  BY <1>0, <1>1, AnswerShape DEF Cookie
<1>4. made \in Content /\ carried' \in Carts
  BY <1>1, <1>2, SavedShape
<1>5. session' \in [Keys -> Content \cup {NoSession}]
  BY <1>0, <1>1, <1>4 DEF TypeOK
<1>6. disturbed' \subseteq Requests
  BY <1>0 DEF CreateSession, TypeOK
<1> QED BY <1>0, <1>3, <1>4, <1>5, <1>6 DEF TypeOK, CreateSession, catalogue

\* A request that saves nothing has nothing to change.
LEMMA SaveNothingShape ==
  ASSUME IInv, NEW r \in Requests, SaveNothing(r)
  PROVE  UNCHANGED <<expected, muddled>>
<1> DEFINE op == request[r].op
           read == request[r].read
<1>1. Busy(r) /\ Loaded(r)
  BY DEF SaveNothing, Ready, Busy, Loaded, At
<1>2. op \in Op /\ read \in Content /\ RequestOnCourse(r)
  BY <1>1, RequestShape DEF IInv
<1>3. CASE ~Modified(op, read)
  BY <1>2, <1>3, UnmodifiedIsWanted DEF SaveNothing
<1>4. CASE request[r].key = NoKey /\ After(op, read) = NoCart
  <2>1. read = NoCart /\ Accepted(op)
    BY <1>1, <1>2, <1>4 DEF RequestOnCourse
  <2>2. Opened(After(op, read)) = Nothing /\ Opened(read) = Nothing
    BY <1>4, <2>1 DEF Opened
  <2>3. Wanted(op, Opened(read)) = Opened(read)
    BY <1>2, <2>1, <2>2, AfterShape
  <2> QED BY <2>3 DEF SaveNothing
<1> QED BY <1>3, <1>4 DEF SaveNothing

LEMMA SaveNothingType ==
  ASSUME IInv, NEW r \in Requests, SaveNothing(r)
  PROVE  TypeOK'
<1>0. TypeOK
  BY DEF IInv
<1>1. request' \in [Requests -> Request]
  BY <1>0, AnswerShape DEF SaveNothing, Cookie
<1>2. outdated' \subseteq Requests /\ disturbed' \subseteq Requests
  BY <1>0 DEF SaveNothing, TypeOK
<1> QED BY <1>0, <1>1, <1>2, SaveNothingShape DEF TypeOK, SaveNothing, catalogue

LEMMA ReceiveType ==
  ASSUME TypeOK, NEW r \in Requests, Receive(r)
  PROVE  TypeOK'
<1>1. Busy(r) /\ At(r, "answer") /\ Idle \in Request
  BY DEF Receive, Busy, At, Request
<1>2. request[r].reply \in Cookie /\ request[r].op \in Op
  BY <1>1, RequestShape
<1>3. cookie' \in Cookie
  BY <1>2 DEF Receive, TypeOK
<1>4. expected' \in Carts /\ muddled' \in BOOLEAN
  <2>1. (cookie # NoKey) \in BOOLEAN
    OBVIOUS
  <2>2. CASE request[r].key = NoKey /\ request[r].reply # NoKey
    BY <1>2, <2>1, <2>2, ExpectType DEF Receive
  <2>3. CASE ~(request[r].key = NoKey /\ request[r].reply # NoKey)
    BY <2>3 DEF Receive, TypeOK
  <2> QED BY <2>2, <2>3
<1> HIDE DEF Request
<1>5. request' \in [Requests -> Request]
  BY <1>1, Replaced DEF Receive
<1> QED BY <1>3, <1>4, <1>5 DEF TypeOK, Receive, catalogue

LEMMA DiesType ==
  ASSUME TypeOK, NEW r \in Requests, Dies(r)
  PROVE  TypeOK'
<1>1. Idle \in Request
  BY DEF Request
<1> HIDE DEF Request
<1>2. request' \in [Requests -> Request]
  BY <1>1, Replaced DEF Dies
<1>3. outdated' \subseteq Requests /\ disturbed' \subseteq Requests
  BY DEF Dies, TypeOK
<1> QED BY <1>2, <1>3 DEF TypeOK, Dies, catalogue

LEMMA ChangeType ==
  ASSUME TypeOK, NEW rows \in [Variants -> {Removed} \cup Listed], Change(rows)
  PROVE  TypeOK'
<1>1. changes' \in 0..MaxChanges
  BY NumbersAssumption DEF TypeOK, Change
<1>2. disturbed' \subseteq Requests
  BY DEF TypeOK, Change
<1> QED BY <1>1, <1>2 DEF TypeOK, Change, history

\* An edit and an import put a catalogue in place of another.
LEMMA CatalogueChanges ==
  ASSUME TypeOK,
         \/ Import
         \/ \E v \in Variants, price \in Prices \cup {NoPrice}, active \in BOOLEAN :
              EditVariant(v, price, active)
  PROVE  \E rows \in [Variants -> {Removed} \cup Listed] : Change(rows)
<1>1. CASE Import
  BY <1>1 DEF Import
<1>2. ASSUME NEW v \in Variants, NEW price \in Prices \cup {NoPrice}, NEW active \in BOOLEAN,
             EditVariant(v, price, active)
      PROVE  \E rows \in [Variants -> {Removed} \cup Listed] : Change(rows)
  <2> DEFINE row == [state |-> "listed", price |-> price, active |-> active]
  <2>1. row \in Listed
    BY DEF Listed
  <2>2. Change([shelf EXCEPT ![v] = row])
    BY <1>2 DEF EditVariant
  <2> HIDE DEF row, Listed, Change
  <2>3. [shelf EXCEPT ![v] = row] \in [Variants -> {Removed} \cup Listed]
    BY <2>1 DEF TypeOK
  <2> QED BY <2>2, <2>3
<1> QED BY <1>1, <1>2

LEMMA NextType == IInv /\ [Next]_vars => TypeOK'
<1> SUFFICES ASSUME IInv, [Next]_vars PROVE TypeOK'
  OBVIOUS
<1>0. TypeOK
  BY DEF IInv
<1>1. CASE UNCHANGED vars
  BY <1>0, <1>1 DEF TypeOK, vars, catalogue, history
<1>2. CASE Import \/ \E v \in Variants, price \in Prices \cup {NoPrice}, active \in BOOLEAN :
             EditVariant(v, price, active)
  BY <1>0, <1>2, CatalogueChanges, ChangeType
<1> QED
  BY <1>0, <1>1, <1>2, SendType, LoadType, ReadLinesType, ReadPriceType, SaveOverType,
     CreateSessionType, SaveNothingType, ReceiveType, DiesType DEF Next, Proceed

-----------------------------------------------------------------------------
(***************************************************************************)
(* Steps that touch no session.                                            *)
(***************************************************************************)
\* Of a request that moves, the others need to know only its key and its reply.
LEMMA QuietStep ==
  ASSUME IInv, NEW r \in Requests,
         \A q \in Requests \ {r} : request'[q] = request[q] /\ (q \in outdated' <=> q \in outdated),
         UNCHANGED <<session, cookie, expected, muddled, carried>>,
         RequestOnCourse(r)',
         At(r, "answer")' => request'[r].reply = NoKey,
         Busy(r)' => request'[r].key = cookie \/ (Busy(r) /\ request'[r].key = request[r].key)
  PROVE  /\ \A q \in Requests : RequestOnCourse(q)'
         /\ \A q \in Requests : AnswerOnCourse(q)'
         /\ CartOnCourse'
<1>1. \A q \in Requests : RequestOnCourse(q)'
  <2> TAKE q \in Requests
  <2>1. CASE q = r
    BY <2>1
  <2>2. CASE q # r
    BY <2>2 DEF IInv, RequestOnCourse, Busy, Loaded, At
  <2> QED BY <2>1, <2>2
<1>2. \A q \in Requests : AnswerOnCourse(q)'
  <2> TAKE q \in Requests
  <2>1. CASE q = r
    BY <2>1 DEF AnswerOnCourse
  <2>2. CASE q # r
    <3>1. request'[q] = request[q] /\ AnswerOnCourse(q)
      BY <2>2 DEF IInv
    <3>2. SUFFICES ASSUME At(q, "answer"), request[q].reply # NoKey PROVE AnswerOnCourse(q)'
      BY <3>1 DEF AnswerOnCourse, At
    <3>3. CASE request[q].key # NoKey
      BY <3>1, <3>2, <3>3 DEF AnswerOnCourse
    <3>4. CASE request[q].key = NoKey
      <4>1. /\ request[q].reply # cookie
            /\ \A p \in Requests \ {q} : Busy(p) =>
                 /\ request[p].key # request[q].reply
                 /\ At(p, "answer") => request[p].reply # request[q].reply
        BY <3>1, <3>2, <3>4 DEF AnswerOnCourse
      <4>2. ASSUME NEW p \in Requests \ {q}, Busy(p)'
            PROVE  /\ request'[p].key # request[q].reply
                   /\ At(p, "answer")' => request'[p].reply # request[q].reply
        <5>1. CASE p = r
          BY <3>2, <4>1, <4>2, <5>1
        <5>2. CASE p # r
          BY <4>1, <4>2, <5>2 DEF Busy, At
        <5> QED BY <5>1, <5>2
      <4>3. After(request[q].op, NoCart)' = After(request[q].op, NoCart)
        BY <3>1 DEF After, Opened, Quantity, Removes
      <4> QED BY <3>1, <3>2, <3>4, <4>1, <4>2, <4>3 DEF AnswerOnCourse
    <3> QED BY <3>3, <3>4
  <2> QED BY <2>1, <2>2
<1>3. CartOnCourse'
  BY DEF IInv, CartOnCourse, NothingIsLost, NeverMoreThanAsked, Items
<1> QED BY <1>1, <1>2, <1>3

LEMMA SendQuiet ==
  ASSUME IInv, NEW r \in Requests, NEW op \in Op, Send(r, op)
  PROVE  /\ \A q \in Requests : RequestOnCourse(q)' /\ AnswerOnCourse(q)'
         /\ CartOnCourse'
<1>0. TypeOK /\ CartOnCourse
  BY DEF IInv
<1>1. UNCHANGED <<session, cookie, expected, muddled, carried, outdated>> /\ Accepted(op)
  BY DEF Send, history
<1>2. /\ \A q \in Requests \ {r} : request'[q] = request[q]
      /\ request'[r] = [step |-> "load", op |-> op, key |-> cookie]
  BY <1>0 DEF Send, TypeOK
<1>3. request'[r].step = "load" /\ request'[r].op = op /\ request'[r].key = cookie
  BY <1>2
<1>4. RequestOnCourse(r)'
  <2>1. Accepted(op)' /\ (cookie # NoKey => session[cookie] # NoSession)
    BY <1>0, <1>1 DEF Accepted, CartOnCourse
  <2> QED BY <1>1, <1>3, <2>1 DEF RequestOnCourse, Busy, Loaded, At, Accepted
<1> QED BY <1>1, <1>2, <1>3, <1>4, QuietStep DEF At

\* A request that goes on with what it is for and the session that it has.
LEMMA GoesOn ==
  ASSUME IInv, NEW r \in Requests, Busy(r),
         \A q \in Requests \ {r} : request'[q] = request[q] /\ (q \in outdated' <=> q \in outdated),
         UNCHANGED <<session, cookie, expected, muddled, carried>>,
         \/ request'[r] = Idle
         \/ request'[r].op = request[r].op /\ request'[r].key = request[r].key,
         At(r, "answer")' => request'[r].reply = NoKey,
         Loaded(r)' => \/ /\ Loaded(r) /\ request'[r].read = request[r].read
                          /\ r \in outdated' <=> r \in outdated
                       \/ /\ request[r].key = NoKey => request'[r].read = NoCart
                          /\ request[r].key # NoKey => request'[r].read = session[request[r].key]
  PROVE  /\ \A q \in Requests : RequestOnCourse(q)' /\ AnswerOnCourse(q)'
         /\ CartOnCourse'
<1>1. RequestOnCourse(r) /\ TypeOK /\ NeverMoreThanAsked
  BY DEF IInv, CartOnCourse
<1>2. CASE request'[r] = Idle
  <2>1. ~Busy(r)'
    BY <1>2 DEF Busy, At, Idle
  <2> QED BY <2>1, QuietStep DEF RequestOnCourse, Busy, At
<1>3. CASE request'[r].op = request[r].op /\ request'[r].key = request[r].key
  <2>1. request[r].key \in Cookie /\ Accepted(request[r].op)' /\ Accepted(request[r].op)
    BY <1>1, <1>3, RequestShape DEF RequestOnCourse, Accepted
  <2>2. /\ Loaded(r)' /\ request[r].key = NoKey => request'[r].read = NoCart
        /\ Loaded(r)' /\ request[r].key # NoKey /\ r \notin outdated' =>
             request'[r].read = session[request[r].key]
    BY <1>1 DEF RequestOnCourse
  <2>3. Loaded(r)' /\ request'[r].read # NoCart =>
          \A v \in Variants : request'[r].read[v] <= carried[v]
    <3>1. CASE request[r].key # NoKey /\ request'[r].read = session[request[r].key]
      <4>1. request[r].key \in Keys /\ session[request[r].key] # NoSession
        BY <1>1, <2>1, <3>1 DEF RequestOnCourse, Cookie
      <4>2. session[request[r].key] \in Carts \cup {NoCart}
        BY <1>1, <4>1 DEF TypeOK, Content
      <4> QED BY <1>1, <3>1, <4>1, <4>2 DEF NeverMoreThanAsked
    <3>2. CASE request[r].key = NoKey /\ request'[r].read = NoCart
      BY <3>2
    <3>3. CASE Loaded(r) /\ request'[r].read = request[r].read
      BY <1>1, <3>3 DEF RequestOnCourse
    <3> QED BY <3>1, <3>2, <3>3
  <2>4. RequestOnCourse(r)'
    BY <1>1, <1>3, <2>1, <2>2, <2>3 DEF RequestOnCourse, Busy
  <2> QED BY <1>3, <2>4, QuietStep
<1> QED BY <1>2, <1>3

LEMMA LoadQuiet ==
  ASSUME IInv, NEW r \in Requests, Load(r)
  PROVE  /\ \A q \in Requests : RequestOnCourse(q)' /\ AnswerOnCourse(q)'
         /\ CartOnCourse'
<1>0. TypeOK /\ Busy(r) /\ UNCHANGED <<session, cookie, expected, muddled, carried, outdated>>
  BY DEF IInv, Load, history, Busy, At
<1>1. PICK x \in Working :
        /\ request' = [request EXCEPT ![r] = x]
        /\ x.op = request[r].op /\ x.key = request[r].key
        /\ x.key = NoKey => x.read = NoCart
        /\ x.key # NoKey => x.read = session[x.key]
  BY LoadShape
<1>2. x.step # "answer"
  BY RequestSets
<1>3. request'[r] = x /\ \A q \in Requests \ {r} : request'[q] = request[q]
  BY <1>0, <1>1 DEF TypeOK
<1> QED BY <1>0, <1>1, <1>2, <1>3, GoesOn DEF At

LEMMA ReadLinesQuiet ==
  ASSUME IInv, NEW r \in Requests, ReadLines(r)
  PROVE  /\ \A q \in Requests : RequestOnCourse(q)' /\ AnswerOnCourse(q)'
         /\ CartOnCourse'
<1>0. /\ TypeOK /\ Busy(r) /\ Loaded(r)
      /\ UNCHANGED <<session, cookie, expected, muddled, carried>>
  BY DEF IInv, ReadLines, Busy, Loaded, At
<1>1. CASE request' = [request EXCEPT ![r] = Idle] /\ outdated' = outdated \ {r}
  <2>1. request'[r] = Idle /\ \A q \in Requests \ {r} : request'[q] = request[q]
    BY <1>0, <1>1 DEF TypeOK
  <2>2. ~At(r, "answer")' /\ ~Loaded(r)'
    BY <2>1 DEF At, Loaded, Idle
  <2> QED BY <1>0, <1>1, <2>1, <2>2, GoesOn
<1>2. ASSUME NEW x \in Pricing, request' = [request EXCEPT ![r] = x], outdated' = outdated,
             x.op = request[r].op, x.key = request[r].key, x.read = request[r].read
      PROVE  /\ \A q \in Requests : RequestOnCourse(q)' /\ AnswerOnCourse(q)'
             /\ CartOnCourse'
  <2>1. request'[r] = x /\ \A q \in Requests \ {r} : request'[q] = request[q]
    BY <1>0, <1>2 DEF TypeOK
  <2>2. x.step # "answer"
    BY RequestSets
  <2> QED BY <1>0, <1>2, <2>1, <2>2, GoesOn DEF At
<1> QED BY <1>0, <1>1, <1>2, ReadLinesShape

LEMMA ReadPriceQuiet ==
  ASSUME IInv, NEW r \in Requests, NEW v \in Variants, ReadPrice(r, v)
  PROVE  /\ \A q \in Requests : RequestOnCourse(q)' /\ AnswerOnCourse(q)'
         /\ CartOnCourse'
<1>0. /\ TypeOK /\ Busy(r) /\ Loaded(r)
      /\ UNCHANGED <<session, cookie, expected, muddled, carried, outdated>>
  BY DEF IInv, ReadPrice, Busy, Loaded, At, history
<1>1. PICK x \in Pricing :
        /\ request' = [request EXCEPT ![r] = x]
        /\ x.op = request[r].op /\ x.key = request[r].key /\ x.read = request[r].read
  BY <1>0, ReadPriceShape
<1>2. x.step # "answer"
  BY RequestSets
<1>3. request'[r] = x /\ \A q \in Requests \ {r} : request'[q] = request[q]
  BY <1>0, <1>1 DEF TypeOK
<1> QED BY <1>0, <1>1, <1>2, <1>3, GoesOn DEF At

LEMMA SaveNothingQuiet ==
  ASSUME IInv, NEW r \in Requests, SaveNothing(r)
  PROVE  /\ \A q \in Requests : RequestOnCourse(q)' /\ AnswerOnCourse(q)'
         /\ CartOnCourse'
<1>0. /\ TypeOK /\ UNCHANGED <<session, cookie, expected, muddled, carried>>
      /\ outdated' = outdated \ {r}
  BY SaveNothingShape DEF IInv, SaveNothing
<1>1. /\ \A q \in Requests \ {r} : request'[q] = request[q]
      /\ request'[r].step = "answer" /\ request'[r].reply = NoKey
      /\ request'[r].op = request[r].op /\ request'[r].key = request[r].key
      /\ Busy(r)
  BY <1>0, AnswerShape DEF SaveNothing, Cookie
<1>2. ~Loaded(r)'
  BY <1>1 DEF Loaded
<1> QED BY <1>0, <1>1, <1>2, GoesOn

LEMMA DiesQuiet ==
  ASSUME IInv, NEW r \in Requests, Dies(r)
  PROVE  /\ \A q \in Requests : RequestOnCourse(q)' /\ AnswerOnCourse(q)'
         /\ CartOnCourse'
<1>0. /\ TypeOK /\ Busy(r) /\ UNCHANGED <<session, cookie, expected, muddled, carried>>
      /\ outdated' = outdated \ {r}
  BY DEF IInv, Dies, Busy
<1>1. request'[r] = Idle /\ \A q \in Requests \ {r} : request'[q] = request[q]
  BY <1>0 DEF TypeOK, Dies
<1>2. ~At(r, "answer")' /\ ~Loaded(r)'
  BY <1>1 DEF At, Loaded, Idle
<1> QED BY <1>0, <1>1, <1>2, GoesOn

\* A step that leaves requests and sessions as they are.
LEMMA NoRequestMoves ==
  ASSUME IInv, UNCHANGED <<session, cookie, request, expected, muddled, outdated, carried>>
  PROVE  /\ \A q \in Requests : RequestOnCourse(q)' /\ AnswerOnCourse(q)'
         /\ CartOnCourse'
<1>1. ASSUME NEW q \in Requests PROVE RequestOnCourse(q)'
  BY DEF IInv, RequestOnCourse, Busy, Loaded, At, Accepted
<1>2. ASSUME NEW q \in Requests PROVE AnswerOnCourse(q)'
  BY DEF IInv, AnswerOnCourse, Busy, At, After, Opened, Quantity, Removes
<1>3. CartOnCourse'
  BY DEF IInv, CartOnCourse, NothingIsLost, NeverMoreThanAsked, Items
<1> QED BY <1>1, <1>2, <1>3

-----------------------------------------------------------------------------
(***************************************************************************)
(* Steps that write a session, or the cookie.                              *)
(***************************************************************************)
LEMMA SessionShape ==
  ASSUME TypeOK, NEW k \in Cookie, k # NoKey
  PROVE  /\ k \in Keys
         /\ session[k] # NoSession => session[k] \in Content
         /\ session[k] # NoSession => Items(k) = Opened(session[k])
<1>1. k \in Keys
  BY DEF Cookie
<1>2. session[k] # NoSession => session[k] \in Content
  BY <1>1 DEF TypeOK
<1>3. session[k] # NoSession => Items(k) = Opened(session[k])
  BY DEF Items, Opened
<1> QED BY <1>1, <1>2, <1>3

\* What is within what was carried stays within it.
LEMMA CarriedGrows ==
  ASSUME carried \in Carts, carried' \in Carts, \A v \in Variants : carried[v] <= carried'[v],
         NEW cart \in Carts, \A v \in Variants : cart[v] <= carried[v]
  PROVE  \A v \in Variants : cart[v] <= carried'[v]
  BY DEF Carts

\* What an answered request r has done to one session, as the other requests see it: they have read
\* it before, or never heard of it.
LEMMA OthersOnCourse ==
  ASSUME IInv, IInv => TypeOK', NEW r \in Requests, NEW k \in Keys, NEW made \in Content,
         made # NoSession, session' = [session EXCEPT ![k] = made],
         \A v \in Variants : carried[v] <= carried'[v],
         \A q \in Requests \ {r} : request'[q] = request[q],
         \A q \in Requests \ {r} : q \notin outdated' => q \notin outdated /\ q \notin ReadBy(k),
         Busy(r), request'[r].key = request[r].key, request'[r].reply = k,
         \A q \in Requests \ {r} : At(q, "answer") /\ request[q].key = NoKey => request[q].reply # k,
         cookie' = cookie,
         \/ ~muddled' => ~muddled
         \/ \A q \in Requests \ {r} : ~Busy(q),
         NEW q \in Requests \ {r}
  PROVE  RequestOnCourse(q)' /\ AnswerOnCourse(q)'
<1>0. /\ TypeOK /\ TypeOK' /\ RequestOnCourse(q) /\ AnswerOnCourse(q)
      /\ request'[q] = request[q]
      /\ Busy(q) => request[q].key \in Cookie
  BY RequestShape DEF IInv
<1>1. /\ session'[k] = made
      /\ \A j \in Keys \ {k} : session'[j] = session[j]
  BY <1>0 DEF TypeOK
<1>2. RequestOnCourse(q)'
  <2>1. SUFFICES ASSUME Busy(q) PROVE RequestOnCourse(q)'
    BY <1>0 DEF RequestOnCourse, Busy, At
  <2>2. Accepted(request[q].op)' /\ (request[q].key # NoKey => session'[request[q].key] # NoSession)
    BY <1>0, <1>1, <2>1, SessionShape DEF RequestOnCourse, Accepted
  <2>3. request[q].key # NoKey /\ ~muddled' => request[q].key = cookie
    BY <1>0, <2>1 DEF RequestOnCourse
  <2>4. Loaded(q) /\ request[q].key # NoKey /\ q \notin outdated' =>
          request[q].read = session'[request[q].key]
    <3>1. SUFFICES ASSUME Loaded(q), request[q].key # NoKey, q \notin outdated'
                   PROVE  request[q].read = session'[request[q].key]
      OBVIOUS
    <3>2. request[q].key \in Keys \ {k}
      BY <1>0, <2>1, <3>1, SessionShape DEF ReadBy, Loaded
    <3> QED BY <1>0, <1>1, <2>1, <3>1, <3>2 DEF RequestOnCourse
  <2>5. Loaded(q) /\ request[q].read # NoCart => \A v \in Variants : request[q].read[v] <= carried'[v]
    <3>1. SUFFICES ASSUME Loaded(q), request[q].read # NoCart
                   PROVE  \A v \in Variants : request[q].read[v] <= carried'[v]
      OBVIOUS
    <3>2. request[q].read \in Carts /\ \A v \in Variants : request[q].read[v] <= carried[v]
      BY <1>0, <2>1, <3>1, RequestShape DEF RequestOnCourse, Content
    <3> QED BY <1>0, <3>2, CarriedGrows DEF TypeOK
  <2> QED BY <1>0, <2>1, <2>2, <2>3, <2>4, <2>5 DEF RequestOnCourse, Busy, Loaded, At
<1>3. AnswerOnCourse(q)'
  <2>1. SUFFICES ASSUME At(q, "answer"), request[q].reply # NoKey PROVE AnswerOnCourse(q)'
    BY <1>0 DEF AnswerOnCourse, At
  <2>2. request[q].reply \in Keys /\ Busy(q)
    BY <1>0, <2>1, RequestShape, SessionShape DEF Busy, At
  <2>3. session'[request[q].reply] # NoSession
    BY <1>0, <1>1, <2>1, <2>2 DEF AnswerOnCourse
  <2>4. request[q].key # NoKey => request[q].reply = request[q].key
    BY <1>0, <2>1 DEF AnswerOnCourse
  <2>5. CASE request[q].key = NoKey
    <3>1. request[q].reply # k /\ session'[request[q].reply] = session[request[q].reply]
      BY <1>1, <2>1, <2>2, <2>5
    <3>2. After(request[q].op, NoCart)' = After(request[q].op, NoCart)
      BY <1>0 DEF After, Opened, Quantity, Removes
    <3>3. ASSUME NEW p \in Requests \ {q}, Busy(p)'
          PROVE  /\ request'[p].key # request[q].reply
                 /\ At(p, "answer")' => request'[p].reply # request[q].reply
      <4>1. CASE p = r
        BY <1>0, <2>1, <2>5, <3>1, <4>1 DEF AnswerOnCourse
      <4>2. CASE p # r
        BY <1>0, <2>1, <2>5, <3>3, <4>2 DEF AnswerOnCourse, Busy, At
      <4> QED BY <4>1, <4>2
    <3>4. /\ session[request[q].reply] = After(request[q].op, NoCart)
          /\ request[q].reply # cookie
      BY <1>0, <2>1, <2>5 DEF AnswerOnCourse
    <3> QED BY <1>0, <2>1, <2>3, <2>5, <3>1, <3>2, <3>3, <3>4 DEF AnswerOnCourse
  <2>6. CASE request[q].key # NoKey
    BY <1>0, <2>1, <2>3, <2>4, <2>6 DEF AnswerOnCourse
  <2> QED BY <2>5, <2>6
<1> QED BY <1>2, <1>3

\* No session holds more than was carried, after one was written that does not.
LEMMA StillNoMore ==
  ASSUME IInv, TypeOK', NEW k \in Keys, NEW made \in Content, session' = [session EXCEPT ![k] = made],
         \A v \in Variants : carried[v] <= carried'[v],
         made # NoCart => \A v \in Variants : made[v] <= carried'[v]
  PROVE  NeverMoreThanAsked'
<1>0. TypeOK /\ NeverMoreThanAsked
  BY DEF IInv, CartOnCourse
<1>1. SUFFICES ASSUME NEW j \in Keys, session'[j] \in Carts
               PROVE  \A v \in Variants : session'[j][v] <= carried'[v]
  BY DEF NeverMoreThanAsked
<1>2. CASE j = k
  BY <1>0, <1>1, <1>2, CartsAssumption DEF TypeOK
<1>3. CASE j # k
  <2>1. session'[j] = session[j]
    BY <1>0, <1>3 DEF TypeOK
  <2> QED BY <1>0, <1>1, <2>1, CarriedGrows DEF NeverMoreThanAsked, TypeOK
<1> QED BY <1>2, <1>3

LEMMA SaveOverLoud ==
  ASSUME IInv, NEW r \in Requests, SaveOver(r)
  PROVE  /\ \A q \in Requests : RequestOnCourse(q)' /\ AnswerOnCourse(q)'
         /\ CartOnCourse'
<1> DEFINE op   == request[r].op
           key  == request[r].key
           read == request[r].read
           made == After(op, read)
<1>0. TypeOK /\ RequestOnCourse(r) /\ CartOnCourse /\ TypeOK'
  BY SaveOverType DEF IInv
<1>1. /\ Ready(r) /\ Answer(r, key) /\ Carry(op) /\ key # NoKey
      /\ session' = [session EXCEPT ![key] = made] /\ cookie' = cookie
      /\ outdated' = (outdated \cup ReadBy(key)) \ {r}
  BY DEF SaveOver
<1>2. Busy(r) /\ Loaded(r)
  BY <1>1 DEF Ready, Busy, Loaded, At
<1>3. op \in Op /\ key \in Cookie /\ key \in Keys
  BY <1>0, <1>1, <1>2, RequestShape, SessionShape
<1>4. /\ \A q \in Requests \ {r} : request'[q] = request[q]
      /\ request'[r].step = "answer" /\ request'[r].reply = key
      /\ request'[r].op = op /\ request'[r].key = key
  BY <1>0, <1>1, <1>3, AnswerShape
<1>5. /\ made \in Content /\ made # NoSession
      /\ Opened(made) = Wanted(op, Opened(read))
      /\ made # NoCart => \A v \in Variants : made[v] <= carried'[v]
      /\ \A v \in Variants : carried[v] <= carried'[v]
  BY <1>1, <1>2, SavedShape
<1>6. Heals(r) => ~muddled' /\ expected' = Nothing
  BY DEF SaveOver
<1>7. ~Heals(r) => Expect(op, r \in outdated)
  BY DEF SaveOver
<1>8. /\ session'[key] = made
      /\ \A j \in Keys \ {key} : session'[j] = session[j]
  BY <1>0, <1>1, <1>3 DEF TypeOK
<1> HIDE DEF made
<1>9. cookie \in Keys /\ session[cookie] # NoSession /\ session'[cookie] # NoSession
  BY <1>0, <1>1, <1>2, <1>5, <1>8, SessionShape DEF RequestOnCourse, CartOnCourse, TypeOK
<1>10. ~muddled' => key = cookie
  <2>1. CASE Heals(r)
    BY <2>1 DEF Heals
  <2>2. CASE ~Heals(r)
    BY <1>0, <1>1, <1>2, <1>7, <2>2 DEF RequestOnCourse, Expect
  <2> QED BY <2>1, <2>2
<1>11. ASSUME NEW q \in Requests \ {r} PROVE RequestOnCourse(q)' /\ AnswerOnCourse(q)'
  <2>1. (~muddled' => ~muddled) \/ \A p \in Requests \ {r} : ~Busy(p)
    BY <1>7 DEF Expect, Heals, Busy
  <2>2. \A p \in Requests \ {r} : p \notin outdated' => p \notin outdated /\ p \notin ReadBy(key)
    BY <1>1
  <2>3. \A p \in Requests \ {r} : At(p, "answer") /\ request[p].key = NoKey => request[p].reply # key
    BY <1>1, <1>2 DEF IInv, AnswerOnCourse
  <2> QED BY <1>0, <1>1, <1>2, <1>3, <1>4, <1>5, <2>1, <2>2, <2>3, OthersOnCourse
<1>12. RequestOnCourse(r)' /\ AnswerOnCourse(r)'
  <2>1. Accepted(op)' /\ ~Loaded(r)'
    BY <1>0, <1>2, <1>4 DEF RequestOnCourse, Accepted, Loaded
  <2>2. RequestOnCourse(r)'
    BY <1>1, <1>3, <1>4, <1>5, <1>8, <1>9, <1>10, <2>1, KeysAssumption DEF RequestOnCourse
  <2> QED BY <1>1, <1>4, <1>5, <1>8, <2>2 DEF AnswerOnCourse
<1>13. NothingIsLost'
  <2>1. SUFFICES ASSUME ~muddled' PROVE Items(cookie)' = expected'
    BY DEF NothingIsLost
  <2>2. Items(cookie)' = Opened(made)
    BY <1>1, <1>3, <1>5, <1>8, <1>10, <2>1, KeysAssumption DEF Items, Opened
  <2>3. CASE Heals(r)
    <3>1. Wanted(op, Opened(read)) = Nothing
      BY <2>3 DEF Heals, Wanted, Nothing
    <3> QED BY <1>5, <1>6, <2>2, <2>3, <3>1
  <2>4. CASE ~Heals(r)
    <3>1. ~muddled /\ r \notin outdated /\ expected' = Wanted(op, expected)
      BY <1>7, <2>1, <2>4 DEF Expect
    <3>2. read = session[key]
      BY <1>0, <1>1, <1>2, <3>1 DEF RequestOnCourse
    <3>3. Items(key) = Opened(session[key])
      BY <1>0, <1>1, <1>3, <1>9, <1>10, <2>1, SessionShape
    <3>4. Items(cookie) = expected
      BY <1>0, <3>1 DEF CartOnCourse, NothingIsLost
    <3>5. Opened(read) = expected
      BY <1>10, <2>1, <3>2, <3>3, <3>4
    <3> QED BY <1>5, <2>2, <3>1, <3>5
  <2> QED BY <2>3, <2>4
<1>14. NeverMoreThanAsked'
  BY <1>0, <1>1, <1>3, <1>5, StillNoMore DEF made
<1>15. CartOnCourse'
  BY <1>1, <1>9, <1>13, <1>14, KeysAssumption DEF CartOnCourse
<1> QED BY <1>11, <1>12, <1>15

LEMMA CreateSessionLoud ==
  ASSUME IInv, NEW r \in Requests, NEW k \in Keys, CreateSession(r, k)
  PROVE  /\ \A q \in Requests : RequestOnCourse(q)' /\ AnswerOnCourse(q)'
         /\ CartOnCourse'
<1> DEFINE op   == request[r].op
           read == request[r].read
           made == After(op, read)
<1>0. TypeOK /\ RequestOnCourse(r) /\ CartOnCourse /\ TypeOK'
  BY CreateSessionType DEF IInv
<1>1. /\ Ready(r) /\ Answer(r, k) /\ Carry(op) /\ request[r].key = NoKey
      /\ session[k] = NoSession /\ made # NoCart
      /\ session' = [session EXCEPT ![k] = made]
      /\ UNCHANGED <<cookie, expected, muddled, outdated>>
  BY DEF CreateSession
<1>2. Busy(r) /\ Loaded(r)
  BY <1>1 DEF Ready, Busy, Loaded, At
<1>3. k \in Cookie /\ k # NoKey /\ read = NoCart
  BY <1>0, <1>1, <1>2, KeysAssumption DEF Cookie, RequestOnCourse
<1>4. /\ \A q \in Requests \ {r} : request'[q] = request[q]
      /\ request'[r].step = "answer" /\ request'[r].reply = k
      /\ request'[r].op = op /\ request'[r].key = NoKey
  BY <1>0, <1>1, <1>3, AnswerShape
<1>5. /\ made \in Content /\ made # NoSession /\ op.kind # "clear"
      /\ \A v \in Variants : made[v] <= carried'[v]
      /\ \A v \in Variants : carried[v] <= carried'[v]
  BY <1>1, <1>2, SavedShape
<1>6. made = After(op, NoCart)
  BY <1>3
<1> HIDE DEF made
<1>7. /\ session'[k] = made
      /\ \A j \in Keys \ {k} : session'[j] = session[j]
  BY <1>0, <1>1 DEF TypeOK
\* Nobody knows the new key.
<1>8. /\ cookie # k
      /\ \A q \in Requests : Busy(q) => request[q].key # k
      /\ \A q \in Requests : At(q, "answer") => request[q].reply # k
  <2>1. cookie # k
    BY <1>0, <1>1, <1>3 DEF CartOnCourse
  <2>2. ASSUME NEW q \in Requests, Busy(q) PROVE request[q].key # k
    BY <1>1, <1>3, <2>2 DEF IInv, RequestOnCourse
  <2>3. ASSUME NEW q \in Requests, At(q, "answer") PROVE request[q].reply # k
    BY <1>1, <1>3, <2>3 DEF IInv, AnswerOnCourse
  <2> QED BY <2>1, <2>2, <2>3
<1>9. ASSUME NEW q \in Requests \ {r} PROVE RequestOnCourse(q)' /\ AnswerOnCourse(q)'
  <2>1. \A p \in Requests \ {r} : p \notin outdated' => p \notin outdated /\ p \notin ReadBy(k)
    BY <1>1, <1>8 DEF ReadBy, Busy, At
  <2>2. ~muddled' => ~muddled
    BY <1>1
  <2> QED BY <1>0, <1>1, <1>2, <1>4, <1>5, <1>8, <2>1, <2>2, OthersOnCourse
<1>10. RequestOnCourse(r)'
  <2>1. Accepted(op)' /\ ~Loaded(r)'
    BY <1>0, <1>2, <1>4 DEF RequestOnCourse, Accepted, Loaded
  <2> QED BY <1>4, <2>1 DEF RequestOnCourse
<1>11. AnswerOnCourse(r)'
  <2>1. ASSUME NEW q \in Requests \ {r}, Busy(q)'
        PROVE  request'[q].key # k /\ (At(q, "answer")' => request'[q].reply # k)
    BY <1>4, <1>8, <2>1 DEF Busy, At
  <2> QED BY <1>1, <1>4, <1>5, <1>6, <1>7, <1>8, <2>1 DEF AnswerOnCourse, After, Opened, Quantity, Removes
<1>12. CartOnCourse'
  <2>1. cookie # NoKey => session'[cookie] = session[cookie] /\ session[cookie] # NoSession
    BY <1>0, <1>7, <1>8, SessionShape DEF CartOnCourse, TypeOK
  <2>2. Items(cookie)' = Items(cookie)
    BY <1>1, <2>1 DEF Items
  <2>3. NeverMoreThanAsked'
    BY <1>0, <1>1, <1>5, StillNoMore DEF made
  <2> QED BY <1>0, <1>1, <2>1, <2>2, <2>3 DEF CartOnCourse, NothingIsLost
<1> QED BY <1>9, <1>10, <1>11, <1>12

LEMMA ReceiveLoud ==
  ASSUME IInv, NEW r \in Requests, Receive(r)
  PROVE  /\ \A q \in Requests : RequestOnCourse(q)' /\ AnswerOnCourse(q)'
         /\ CartOnCourse'
<1> DEFINE op    == request[r].op
           key   == request[r].key
           reply == request[r].reply
<1>0. TypeOK /\ RequestOnCourse(r) /\ AnswerOnCourse(r) /\ CartOnCourse
  BY DEF IInv
<1>1. /\ At(r, "answer") /\ Busy(r)
      /\ cookie' = (IF reply = NoKey THEN cookie ELSE reply)
      /\ key = NoKey /\ reply # NoKey => Expect(op, cookie # NoKey)
      /\ ~(key = NoKey /\ reply # NoKey) => UNCHANGED <<expected, muddled>>
      /\ UNCHANGED <<session, outdated, carried>>
  BY DEF Receive, Busy, At
<1>2. request'[r] = Idle /\ \A q \in Requests \ {r} : request'[q] = request[q]
  BY <1>0 DEF TypeOK, Receive
<1>3. ~At(r, "answer")' /\ ~Loaded(r)' /\ ~Busy(r)'
  BY <1>2 DEF At, Loaded, Busy, Idle
<1>4. op \in Op /\ Accepted(op) /\ reply \in Cookie
  BY <1>0, <1>1, RequestShape DEF RequestOnCourse
<1>5. CASE cookie' = cookie /\ UNCHANGED <<expected, muddled>>
  BY <1>1, <1>2, <1>3, <1>5, GoesOn
<1>6. CASE ~(cookie' = cookie /\ UNCHANGED <<expected, muddled>>)
  <2>1. reply # NoKey /\ cookie' = reply /\ session[reply] # NoSession /\ reply \in Keys
    BY <1>0, <1>1, <1>4, <1>6, SessionShape DEF AnswerOnCourse
  <2>2. ~muddled' => ~muddled /\ key = NoKey /\ cookie = NoKey
    <3>1. CASE key = NoKey
      BY <1>1, <2>1, <3>1 DEF Expect
    <3>2. CASE key # NoKey
      <4>1. reply = key /\ UNCHANGED <<expected, muddled>>
        BY <1>0, <1>1, <2>1, <3>2 DEF AnswerOnCourse
      <4>2. ~muddled => key = cookie
        BY <1>0, <1>1, <3>2 DEF RequestOnCourse
      <4> QED BY <1>6, <2>1, <4>1, <4>2
    <3> QED BY <3>1, <3>2
  <2>3. ASSUME NEW q \in Requests PROVE RequestOnCourse(q)'
    <3>1. CASE q = r
      BY <1>3, <3>1 DEF RequestOnCourse
    <3>2. CASE q # r
      <4>1. RequestOnCourse(q) /\ request'[q] = request[q]
        BY <1>2, <3>2 DEF IInv
      <4>2. Busy(q) /\ request[q].key # NoKey => muddled'
        BY <2>2, <4>1 DEF RequestOnCourse
      <4> QED BY <1>1, <2>1, <4>1, <4>2 DEF RequestOnCourse, Busy, Loaded, At, Accepted
    <3> QED BY <3>1, <3>2
  <2>4. ASSUME NEW q \in Requests PROVE AnswerOnCourse(q)'
    <3>1. CASE q = r
      BY <1>3, <3>1 DEF AnswerOnCourse
    <3>2. CASE q # r
      <4>1. AnswerOnCourse(q) /\ request'[q] = request[q]
        BY <1>2, <3>2 DEF IInv
      <4>2. SUFFICES ASSUME At(q, "answer"), request[q].reply # NoKey PROVE AnswerOnCourse(q)'
        BY <4>1 DEF AnswerOnCourse, At
      <4>3. CASE request[q].key # NoKey
        BY <1>1, <4>1, <4>2, <4>3 DEF AnswerOnCourse
      <4>4. CASE request[q].key = NoKey
        <5>1. request[q].reply # reply
          BY <1>1, <3>2, <4>1, <4>2, <4>4 DEF AnswerOnCourse
        <5>2. ASSUME NEW p \in Requests \ {q}, Busy(p)'
              PROVE  /\ request'[p].key # request[q].reply
                     /\ At(p, "answer")' => request'[p].reply # request[q].reply
          <6>1. p # r
            BY <1>3, <5>2
          <6> QED BY <1>2, <4>1, <4>2, <4>4, <5>2, <6>1 DEF AnswerOnCourse, Busy, At
        <5>3. After(request[q].op, NoCart)' = After(request[q].op, NoCart)
          BY <4>1 DEF After, Opened, Quantity, Removes
        <5> QED BY <1>1, <2>1, <4>1, <4>2, <4>4, <5>1, <5>2, <5>3 DEF AnswerOnCourse
      <4> QED BY <4>3, <4>4
    <3> QED BY <3>1, <3>2
  <2>5. NothingIsLost'
    <3>1. SUFFICES ASSUME ~muddled' PROVE Items(cookie)' = expected'
      BY DEF NothingIsLost
    <3>2. expected' = Wanted(op, Nothing)
      BY <1>0, <1>1, <2>1, <2>2, <3>1 DEF Expect, CartOnCourse
    <3>3. session[reply] = After(op, NoCart)
      BY <1>0, <1>1, <2>1, <2>2, <3>1 DEF AnswerOnCourse
    <3>4. Opened(After(op, NoCart)) = Wanted(op, Opened(NoCart))
      BY <1>4, AfterShape DEF Content
    <3>5. Items(reply) = Opened(session[reply])
      BY <1>0, <1>4, <2>1, SessionShape
    <3>6. Items(cookie)' = Items(reply)
      BY <1>1, <2>1 DEF Items
    <3> QED BY <3>2, <3>3, <3>4, <3>5, <3>6 DEF Opened
  <2>6. CartOnCourse'
    BY <1>0, <1>1, <2>1, <2>5 DEF CartOnCourse, NeverMoreThanAsked
  <2> QED BY <2>3, <2>4, <2>6
<1> QED BY <1>5, <1>6

-----------------------------------------------------------------------------
(***************************************************************************)
(* Views.                                                                  *)
(***************************************************************************)
\* A step of a request that shows no line leaves the views of the others.
LEMMA ViewsStay ==
  ASSUME IInv, NEW r \in Requests,
         \A q \in Requests \ {r} : request'[q] = request[q] /\ (q \in disturbed => q \in disturbed'),
         UNCHANGED shelf,
         ViewOnCourse(r)'
  PROVE  \A q \in Requests : ViewOnCourse(q)'
<1> TAKE q \in Requests
<1>1. CASE q = r
  BY <1>1
<1>2. CASE q # r
  BY <1>2 DEF IInv, ViewOnCourse, At, OnOffer, Held
<1> QED BY <1>1, <1>2

LEMMA ReadLinesView ==
  ASSUME IInv, NEW r \in Requests, ReadLines(r)
  PROVE  \A q \in Requests : ViewOnCourse(q)'
<1>0. TypeOK /\ UNCHANGED <<shelf, disturbed>>
  BY DEF IInv, ReadLines, catalogue
<1>1. CASE request' = [request EXCEPT ![r] = Idle]
  <2>1. request'[r] = Idle /\ \A q \in Requests \ {r} : request'[q] = request[q]
    BY <1>0, <1>1 DEF TypeOK
  <2>2. ViewOnCourse(r)'
    BY <2>1 DEF ViewOnCourse, At, Idle
  <2> QED BY <1>0, <2>1, <2>2, ViewsStay
<1>2. ASSUME NEW x \in Pricing, request' = [request EXCEPT ![r] = x],
             x.read = request[r].read, x.left = Held(request[r].read),
             x.lines = [v \in Variants |-> IF v \in Held(request[r].read) /\ OnOffer(v)
                                           THEN shelf[v].price ELSE NoPrice],
             x.priced = [v \in Variants |-> NoPrice]
      PROVE  \A q \in Requests : ViewOnCourse(q)'
  <2>1. request'[r] = x /\ \A q \in Requests \ {r} : request'[q] = request[q]
    BY <1>0, <1>2 DEF TypeOK
  <2>2. Held(x.read)' = Held(x.read) /\ \A v \in Variants : OnOffer(v)' = OnOffer(v)
    BY <1>0 DEF Held, OnOffer
  <2>3. \A v \in Variants \ x.left : x.priced[v] = x.lines[v]
    BY <1>2
  <2>4. ViewOnCourse(r)'
    BY <1>0, <1>2, <2>1, <2>2, <2>3 DEF ViewOnCourse, OnOffer, Held
  <2> QED BY <1>0, <2>1, <2>4, ViewsStay
<1> QED BY <1>0, <1>1, <1>2, ReadLinesShape

LEMMA ReadPriceView ==
  ASSUME IInv, NEW r \in Requests, NEW v \in Variants, ReadPrice(r, v)
  PROVE  \A q \in Requests : ViewOnCourse(q)'
<1>0. TypeOK /\ UNCHANGED <<shelf, disturbed>> /\ At(r, "price") /\ v \in request[r].left /\ ViewOnCourse(r)
  BY DEF IInv, ReadPrice, catalogue
<1>1. PICK x \in Pricing :
        /\ request' = [request EXCEPT ![r] = x]
        /\ x.op = request[r].op /\ x.key = request[r].key /\ x.read = request[r].read
        /\ x.left = request[r].left \ {v} /\ x.lines = request[r].lines
        /\ x.priced = [request[r].priced EXCEPT ![v] = PriceOf(v)]
  BY <1>0, ReadPriceShape
<1>2. request'[r] = x /\ \A q \in Requests \ {r} : request'[q] = request[q]
  BY <1>0, <1>1 DEF TypeOK
<1>3. request[r] \in Pricing
  BY <1>0, RequestShape DEF Busy, At
<1>4. request[r].priced \in [Variants -> Prices \cup {NoPrice}]
  BY <1>3 DEF Pricing, Tally
<1>5. ASSUME r \notin disturbed, NEW w \in Variants \ x.left PROVE x.priced[w] = x.lines[w]
  <2>1. CASE w = v
    <3>1. x.priced[w] = PriceOf(v)
      BY <1>1, <1>4, <2>1
    <3>2. request[r].lines[v] = PriceOf(v)
      BY <1>0, <1>5 DEF ViewOnCourse, PriceOf
    <3> QED BY <1>1, <2>1, <3>1, <3>2
  <2>2. CASE w # v
    BY <1>0, <1>1, <1>4, <1>5, <2>2 DEF ViewOnCourse
  <2> QED BY <2>1, <2>2
<1>6. SUFFICES ASSUME r \notin disturbed PROVE ViewOnCourse(r)'
  BY <1>0, <1>2, ViewsStay DEF ViewOnCourse
<1>7. /\ request'[r].read = request[r].read /\ request'[r].lines = request[r].lines
      /\ request'[r].left = request[r].left \ {v}
      /\ \A w \in Variants \ request'[r].left : request'[r].priced[w] = request'[r].lines[w]
  BY <1>1, <1>2, <1>5, <1>6
<1>8. Held(request[r].read)' = Held(request[r].read) /\ \A w \in Variants : OnOffer(w)' = OnOffer(w)
  BY <1>0, <1>7 DEF Held, OnOffer
<1>9. ViewOnCourse(r)'
  BY <1>0, <1>6, <1>7, <1>8 DEF ViewOnCourse
<1> QED BY <1>9

\* The other steps show nothing.
LEMMA NoView ==
  ASSUME IInv, NEW r \in Requests,
         \/ \E op \in Op : Send(r, op)
         \/ Load(r) \/ SaveOver(r) \/ (\E k \in Keys : CreateSession(r, k)) \/ SaveNothing(r)
         \/ Receive(r) \/ Dies(r)
  PROVE  \A q \in Requests : ViewOnCourse(q)'
<1>0. TypeOK
  BY DEF IInv
<1>1. UNCHANGED shelf /\ \A q \in Requests \ {r} : q \in disturbed => q \in disturbed'
  BY DEF Send, Load, SaveOver, CreateSession, SaveNothing, Receive, Dies, catalogue
<1>2. ~At(r, "price")' /\ \A q \in Requests \ {r} : request'[q] = request[q]
  <2>1. CASE Load(r)
    <3>1. PICK x \in Working : request' = [request EXCEPT ![r] = x]
      BY <2>1, LoadShape
    <3>2. x.step # "price"
      BY RequestSets
    <3> QED BY <1>0, <3>1, <3>2 DEF TypeOK, At
  <2>2. CASE \E op \in Op : Send(r, op)
    <3>1. PICK op \in Op : Send(r, op)
      BY <2>2
    <3>2. request'[r] = [step |-> "load", op |-> op, key |-> cookie]
      BY <1>0, <3>1 DEF Send, TypeOK
    <3>3. \A q \in Requests \ {r} : request'[q] = request[q]
      BY <1>0, <3>1 DEF Send, TypeOK
    <3> QED BY <3>2, <3>3 DEF At
  <2>3. ASSUME NEW reply \in Cookie, Ready(r), Answer(r, reply)
        PROVE  ~At(r, "price")' /\ \A q \in Requests \ {r} : request'[q] = request[q]
    BY <1>0, <2>3, AnswerShape DEF At
  <2>4. CASE SaveOver(r)
    <3>1. request[r].key \in Cookie
      BY <1>0, <2>4, RequestShape DEF SaveOver, Ready, Busy, At
    <3> QED BY <2>3, <2>4, <3>1 DEF SaveOver
  <2>5. CASE (\E k \in Keys : CreateSession(r, k)) \/ SaveNothing(r)
    BY <2>3, <2>5 DEF CreateSession, SaveNothing, Cookie
  <2>6. CASE Receive(r) \/ Dies(r)
    <3>1. request' = [request EXCEPT ![r] = Idle]
      BY <2>6 DEF Receive, Dies
    <3> QED BY <1>0, <3>1 DEF TypeOK, At, Idle
  <2> QED BY <2>1, <2>2, <2>4, <2>5, <2>6
<1> QED BY <1>1, <1>2, ViewsStay DEF ViewOnCourse

\* A change of the catalogue disturbs every view that has its lines.
LEMMA ChangeView ==
  ASSUME IInv, NEW rows, Change(rows)
  PROVE  \A q \in Requests : ViewOnCourse(q)'
  BY DEF Change, ViewOnCourse, At

-----------------------------------------------------------------------------
(***************************************************************************)
(* Theorems.                                                               *)
(***************************************************************************)
LEMMA InitIInv == Init => IInv
<1> SUFFICES ASSUME Init PROVE IInv
  OBVIOUS
<1>1. \A r \in Requests : request[r] = Idle
  BY DEF Init
<1>2. \A r \in Requests : RequestOnCourse(r) /\ AnswerOnCourse(r) /\ ViewOnCourse(r)
  BY <1>1 DEF RequestOnCourse, AnswerOnCourse, ViewOnCourse, Busy, At, Idle
<1>3. CartOnCourse
  BY CartsAssumption DEF Init, CartOnCourse, NothingIsLost, NeverMoreThanAsked, Items
<1> QED BY <1>2, <1>3, InitType DEF IInv

LEMMA NextIInv == IInv /\ [Next]_vars => IInv'
<1> SUFFICES ASSUME IInv, [Next]_vars PROVE IInv'
  OBVIOUS
<1>0. TypeOK /\ TypeOK'
  BY NextType DEF IInv
<1>1. ASSUME NEW r \in Requests, Proceed(r) \/ \E op \in Op : Send(r, op) PROVE IInv'
  <2>1. (\A q \in Requests : RequestOnCourse(q)' /\ AnswerOnCourse(q)') /\ CartOnCourse'
    BY <1>1, SendQuiet, LoadQuiet, ReadLinesQuiet, ReadPriceQuiet, SaveOverLoud, CreateSessionLoud,
       SaveNothingQuiet, ReceiveLoud, DiesQuiet DEF Proceed
  <2>2. \A q \in Requests : ViewOnCourse(q)'
    BY <1>1, ReadLinesView, ReadPriceView, NoView DEF Proceed
  <2> QED BY <1>0, <2>1, <2>2 DEF IInv
<1>2. ASSUME NEW rows, Change(rows) PROVE IInv'
  <2>1. (\A q \in Requests : RequestOnCourse(q)' /\ AnswerOnCourse(q)') /\ CartOnCourse'
    BY <1>2, NoRequestMoves DEF Change, history
  <2> QED BY <1>0, <1>2, <2>1, ChangeView DEF IInv
<1>3. CASE UNCHANGED vars
  <2>1. (\A q \in Requests : RequestOnCourse(q)' /\ AnswerOnCourse(q)') /\ CartOnCourse'
    BY <1>3, NoRequestMoves DEF vars, history
  <2>2. \A q \in Requests : ViewOnCourse(q)'
    BY <1>3 DEF IInv, vars, catalogue, ViewOnCourse, At, OnOffer, Held
  <2> QED BY <1>0, <2>1, <2>2 DEF IInv
<1> QED BY <1>0, <1>1, <1>2, <1>3, CatalogueChanges DEF Next

THEOREM Invariance == Spec => []IInv
  BY InitIInv, NextIInv, PTL DEF Spec

\* The types of Basket, for any number of requests, sessions and variants: no cart ever holds a
\* negative amount (cart/cart.py:20-34, cart/api/views.py:59-94).
THEOREM TypeCorrect == Spec => []TypeOK
<1>1. IInv => TypeOK  BY DEF IInv
<1> QED BY Invariance, <1>1, PTL

\* The cart of the browser is what its finished requests make of it, except after the two overlaps
\* that lose one of them (cart/cart.py:13-18, 82-83).
THEOREM NothingLost == Spec => []NothingIsLost
<1>1. IInv => NothingIsLost  BY DEF IInv, CartOnCourse
<1> QED BY Invariance, <1>1, PTL

\* No session holds more of a variant than was asked for in all (cart/cart.py:20-28).
THEOREM NeverMore == Spec => []NeverMoreThanAsked
<1>1. IInv => NeverMoreThanAsked  BY DEF IInv, CartOnCourse
<1> QED BY Invariance, <1>1, PTL

\* The subtotal of a view is that of its lines unless the catalogue changed in between
\* (cart/cart.py:44-74).
THEOREM ViewsAddUp == Spec => []ViewAddsUp
<1>1. IInv => ViewAddsUp  BY DEF IInv, ViewOnCourse, ViewAddsUp
<1> QED BY Invariance, <1>1, PTL
=============================================================================
